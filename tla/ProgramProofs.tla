---------------------------- MODULE ProgramProofs ----------------------------
(***************************************************************************)
(* What holds of Program for every set of command lines, every set of      *)
(* functions and all inputs: it does what it was asked to do.              *)
(***************************************************************************)
EXTENDS ProgramAsked, SequenceTheorems, WellFoundedInduction, TLAPS

(* A set of numbers has a least member.                                    *)
LEMMA LeastMember ==
  ASSUME NEW S \in SUBSET Nat, S # {}
  PROVE  \E x \in S : \A y \in S : x <= y
<1> DEFINE Less == {ss \in Nat \X Nat : ss[1] < ss[2]}
<1>1. IsWellFoundedOn(Less, Nat)
  BY NatLessThanWellFounded DEF OpToRel
<1>2. PICK x \in S : \A y \in S : ~(<<y, x>> \in Less)
  BY <1>1, WFMin, Zenon
<1>3. ASSUME NEW y \in S  PROVE x <= y
  <2>1. x \in Nat /\ y \in Nat
    OBVIOUS
  <2>2. <<y, x>>[1] = y /\ <<y, x>>[2] = x /\ <<y, x>> \in Nat \X Nat
    BY <2>1
  <2>3. ~(y < x)
    BY <1>2, <2>2, Zenon
  <2> QED
    BY <2>1, <2>3
<1> QED
  BY <1>3

(* A set with 0, and with each number that comes after one of its members, *)
(* has all of them: an induction, with a set in the place of a property.   *)
LEMMA UpTo ==
  ASSUME NEW n \in Nat, NEW S, 0 \in S, \A k \in 1 .. n : k - 1 \in S => k \in S
  PROVE  0 .. n \subseteq S
<1> DEFINE Bad == {k \in 0 .. n : k \notin S}
<1> SUFFICES ASSUME Bad # {}  PROVE FALSE
  OBVIOUS
<1>1. Bad \in SUBSET Nat
  OBVIOUS
<1>2. PICK m \in Bad : \A y \in Bad : m <= y
  <2> HIDE DEF Bad
  <2> QED
    BY <1>1, LeastMember
<1>3. m \in 1 .. n /\ m \notin S
  OBVIOUS
<1>4. m - 1 \in 0 .. n /\ ~(m <= m - 1)
  BY <1>3
<1>5. m - 1 \in S
  BY <1>2, <1>4
<1> QED
  BY <1>3, <1>5

-----------------------------------------------------------------------------
(* Those elements of a sequence that are of some kinds.                    *)

LEMMA SelectNone ==
  ASSUME NEW s, NEW kinds, NEW f  PROVE Select(s, kinds, f, 0) = <<>>
BY DEF Select

LEMMA SelectedExists ==
  ASSUME NEW s, NEW kinds, NEW n \in Nat
  PROVE  \E f : f = [k \in 0 .. n |-> Select(s, kinds, f, k)]
<1> DEFINE Is(f, m) == f = [k \in 0 .. m |-> Select(s, kinds, f, k)]
           S == {m \in 0 .. n : \E f : Is(f, m)}
<1>1. 0 \in S
  <2> DEFINE f == [k \in 0 .. 0 |-> <<>>]
  <2>1. \A k \in 0 .. 0 : Select(s, kinds, f, k) = <<>>
    BY DEF Select
  <2>2. Is(f, 0)
    <3> HIDE DEF f
    <3>1. f = [k \in 0 .. 0 |-> <<>>]
      BY DEF f
    <3> QED
      BY <2>1, <3>1
  <2> QED
    BY <2>2
<1>2. ASSUME NEW m \in 1 .. n, m - 1 \in S  PROVE m \in S
  <2>1. PICK f : Is(f, m - 1)
    BY <1>2
  <2> DEFINE g == [k \in 0 .. m |-> Select(s, kinds, f, k)]
  <2>2. ASSUME NEW k \in 0 .. m - 1  PROVE g[k] = f[k]
    <3>1. k \in 0 .. m /\ k \in 0 .. m - 1
      BY <2>2
    <3>2. f[k] = Select(s, kinds, f, k)
      BY <2>1, <3>1
    <3> QED
      BY <3>1, <3>2
  <2>3. ASSUME NEW k \in 0 .. m  PROVE Select(s, kinds, f, k) = Select(s, kinds, g, k)
    <3>1. CASE k = 0
      <4> HIDE DEF g
      <4> QED
        BY <3>1, SelectNone
    <3>2. CASE k # 0
      <4>1. k - 1 \in 0 .. m - 1
        BY <3>2
      <4>2. f[k - 1] = g[k - 1]
        BY <2>2, <4>1
      <4> HIDE DEF g
      <4>3. k # 0 /\ k > 0
        BY <3>2
      <4> QED
        BY <4>2, <4>3 DEF Select
    <3> QED
      BY <3>1, <3>2
  <2>4. Is(g, m)
    <3>1. g = [k \in 0 .. m |-> Select(s, kinds, f, k)]
      OBVIOUS
    <3> HIDE DEF g
    <3> QED
      BY <2>3, <3>1, Zenon
  <2>5. \E h : Is(h, m)
    <3> HIDE DEF g, Is
    <3> QED
      BY <2>4
  <2> HIDE DEF g, Is
  <2> QED
    BY <2>5
<1>3. n \in S
  <2> HIDE DEF S
  <2> QED
    BY <1>1, <1>2, UpTo
<1> QED
  BY <1>3

LEMMA ThoseIs ==
  ASSUME NEW s \in Seq(Args), NEW kinds
  PROVE  \E f : /\ f[0] = <<>>
                /\ \A k \in 1 .. Len(s) :
                     /\ s[k].is \in kinds => f[k] = Append(f[k - 1], s[k])
                     /\ s[k].is \notin kinds => f[k] = f[k - 1]
                /\ Those(s, kinds) = f[Len(s)]
<1> DEFINE Is(f) == f = [k \in 0 .. Len(s) |-> Select(s, kinds, f, k)]
           f == CHOOSE f : Is(f)
<1>1. Len(s) \in Nat
  OBVIOUS
<1>2. Is(f)
  <2>1. \E g : Is(g)
    BY <1>1, SelectedExists
  <2> HIDE DEF Is
  <2> QED
    BY <2>1, Zenon
<1>3. Those(s, kinds) = f[Len(s)]
  BY DEF Those
<1> HIDE DEF f
<1>4. \A k \in 0 .. Len(s) : f[k] = Select(s, kinds, f, k)
  BY <1>2
<1>5. f[0] = <<>>
  <2>1. 0 \in 0 .. Len(s)
    BY <1>1
  <2> QED
    BY <1>4, <2>1, SelectNone
<1>6. ASSUME NEW k \in 1 .. Len(s)
      PROVE  /\ s[k].is \in kinds => f[k] = Append(f[k - 1], s[k])
             /\ s[k].is \notin kinds => f[k] = f[k - 1]
  <2>1. k \in 0 .. Len(s) /\ k # 0 /\ k > 0
    BY <1>1
  <2> QED
    BY <1>4, <2>1 DEF Select
<1> QED
  BY <1>3, <1>5, <1>6

(* What can be said of the result while it grows.                          *)
LEMMA ThoseAre ==
  ASSUME NEW s \in Seq(Args), NEW kinds
  PROVE  /\ Those(s, kinds) \in Seq(Args)
         /\ \A j \in 1 .. Len(Those(s, kinds)) :
              /\ Those(s, kinds)[j].is \in kinds
              /\ \E k \in 1 .. Len(s) : s[k] = Those(s, kinds)[j]
         /\ \A k \in 1 .. Len(s) : s[k].is \in kinds =>
              \E j \in 1 .. Len(Those(s, kinds)) : Those(s, kinds)[j] = s[k]
<1>1. PICK f : /\ f[0] = <<>>
               /\ \A k \in 1 .. Len(s) :
                    /\ s[k].is \in kinds => f[k] = Append(f[k - 1], s[k])
                    /\ s[k].is \notin kinds => f[k] = f[k - 1]
               /\ Those(s, kinds) = f[Len(s)]
  BY ThoseIs
<1> DEFINE n == Len(s)
           Right(k) ==
             /\ f[k] \in Seq(Args)
             /\ \A j \in 1 .. Len(f[k]) :
                  f[k][j].is \in kinds /\ \E h \in 1 .. k : s[h] = f[k][j]
             /\ \A h \in 1 .. k : s[h].is \in kinds =>
                  \E j \in 1 .. Len(f[k]) : f[k][j] = s[h]
           S == {k \in 0 .. n : Right(k)}
<1>2. n \in Nat
  OBVIOUS
<1>3. 0 \in S
  <2>1. f[0] \in Seq(Args) /\ Len(f[0]) = 0
    BY <1>1
  <2> QED
    BY <1>2, <2>1
<1>4. ASSUME NEW k \in 1 .. n, k - 1 \in S  PROVE k \in S
  <2>1. Right(k - 1) /\ s[k] \in Args /\ k \in 0 .. n
    BY <1>2, <1>4
  <2>2. CASE s[k].is \in kinds
    <3> DEFINE a == f[k - 1]
    <3>1. f[k] = Append(a, s[k])
      BY <1>1, <2>2
    <3>2. a \in Seq(Args) /\ Len(a) \in Nat /\ f[k] \in Seq(Args) /\ Len(f[k]) = Len(a) + 1
          /\ (\A j \in 1 .. Len(a) : f[k][j] = a[j]) /\ f[k][Len(a) + 1] = s[k]
      BY <2>1, <3>1
    <3>3. ASSUME NEW j \in 1 .. Len(f[k])
          PROVE  f[k][j].is \in kinds /\ \E h \in 1 .. k : s[h] = f[k][j]
      <4>1. CASE j = Len(a) + 1
        BY <1>4, <2>2, <3>2, <4>1
      <4>2. CASE j # Len(a) + 1
        <5>1. j \in 1 .. Len(a) /\ f[k][j] = a[j]
          BY <3>2, <3>3, <4>2
        <5>2. a[j].is \in kinds /\ \E h \in 1 .. k - 1 : s[h] = a[j]
          BY <2>1, <5>1
        <5> HIDE DEF a
        <5> QED
          BY <5>1, <5>2
      <4> QED
        BY <4>1, <4>2
    <3>4. ASSUME NEW h \in 1 .. k, s[h].is \in kinds
          PROVE  \E j \in 1 .. Len(f[k]) : f[k][j] = s[h]
      <4>1. CASE h = k
        BY <3>2, <4>1
      <4>2. CASE h # k
        <5>1. h \in 1 .. k - 1
          BY <4>2
        <5>2. PICK j \in 1 .. Len(a) : a[j] = s[h]
          BY <2>1, <3>4, <5>1
        <5> HIDE DEF a
        <5> QED
          BY <3>2, <5>2
      <4> QED
        BY <4>1, <4>2
    <3> HIDE DEF a
    <3> QED
      BY <2>1, <3>2, <3>3, <3>4
  <2>3. CASE s[k].is \notin kinds
    <3>1. f[k] = f[k - 1]
      BY <1>1, <2>1, <2>3
    <3>2. ASSUME NEW j \in 1 .. Len(f[k])
          PROVE  f[k][j].is \in kinds /\ \E h \in 1 .. k : s[h] = f[k][j]
      <4>1. f[k][j].is \in kinds /\ \E h \in 1 .. k - 1 : s[h] = f[k][j]
        BY <2>1, <3>1, <3>2
      <4> QED
        BY <4>1
    <3>3. ASSUME NEW h \in 1 .. k, s[h].is \in kinds
          PROVE  \E j \in 1 .. Len(f[k]) : f[k][j] = s[h]
      <4>1. h \in 1 .. k - 1
        BY <2>3, <3>3
      <4> QED
        BY <2>1, <3>1, <3>3, <4>1
    <3> QED
      BY <2>1, <3>1, <3>2, <3>3
  <2> QED
    BY <2>2, <2>3
<1>5. n \in S
  <2> HIDE DEF S
  <2>1. 0 .. n \subseteq S
    BY <1>2, <1>3, <1>4, UpTo
  <2> QED
    BY <1>2, <2>1
<1> QED
  BY <1>1, <1>5

(* Every element is an option or none.                                     *)
LEMMA KindsAre ==
  ASSUME NEW x \in Args
  PROVE  /\ x.is \in {"opt"} \cup NoOpt
         /\ IsOpt(x) <=> x.is \in {"opt"}
         /\ IsOpt(x) <=> x.is \notin NoOpt
BY DEF Args, IsOpt, NoOpt

LEMMA PermutedIs ==
  ASSUME NEW s \in Seq(Args)
  PROVE  /\ Permuted(s) \in Seq(Args) /\ Len(Permuted(s)) = Len(s)
         /\ Opts(s) \in Seq(Args) /\ Inputs(s) \in Seq(Args)
         /\ Len(Opts(s)) + Len(Inputs(s)) = Len(s)
<1>1. PICK f : /\ f[0] = <<>>
               /\ \A k \in 1 .. Len(s) :
                    /\ s[k].is \in {"opt"} => f[k] = Append(f[k - 1], s[k])
                    /\ s[k].is \notin {"opt"} => f[k] = f[k - 1]
               /\ Those(s, {"opt"}) = f[Len(s)]
  BY ThoseIs
<1>2. PICK g : /\ g[0] = <<>>
               /\ \A k \in 1 .. Len(s) :
                    /\ s[k].is \in NoOpt => g[k] = Append(g[k - 1], s[k])
                    /\ s[k].is \notin NoOpt => g[k] = g[k - 1]
               /\ Those(s, NoOpt) = g[Len(s)]
  BY ThoseIs
<1> DEFINE n == Len(s)
           Right(k) == /\ f[k] \in Seq(Args) /\ g[k] \in Seq(Args)
                       /\ Len(f[k]) = k - Len(g[k])
           S == {k \in 0 .. n : Right(k)}
<1>3. n \in Nat
  OBVIOUS
<1>4. 0 \in S
  <2>1. f[0] \in Seq(Args) /\ g[0] \in Seq(Args) /\ Len(f[0]) = 0 /\ Len(g[0]) = 0
    BY <1>1, <1>2
  <2>2. Right(0) /\ 0 \in 0 .. n
    BY <1>3, <2>1
  <2> HIDE DEF Right
  <2> QED
    BY <2>2
<1>5. ASSUME NEW k \in 1 .. n, k - 1 \in S  PROVE k \in S
  <2>1. Right(k - 1) /\ k \in 0 .. n
    <3> HIDE DEF Right
    <3> QED
      BY <1>3, <1>5
  <2>b. f[k - 1] \in Seq(Args) /\ g[k - 1] \in Seq(Args)
    BY <2>1
  <2>a. s[k] \in Args
    BY <1>5
  <2>2. CASE IsOpt(s[k])
    <3>1. f[k] = Append(f[k - 1], s[k]) /\ g[k] = g[k - 1]
      BY <1>1, <1>2, <2>a, <2>2, KindsAre
    <3>3. /\ f[k] \in Seq(Args) /\ g[k] \in Seq(Args)
          /\ Len(f[k]) \in Nat /\ Len(g[k]) \in Nat /\ Len(f[k - 1]) \in Nat /\ Len(g[k - 1]) \in Nat
          /\ Len(f[k]) = Len(f[k - 1]) + 1 /\ Len(g[k]) = Len(g[k - 1])
      BY <2>a, <2>b, <3>1
    <3>2. Right(k)
      BY <1>3, <2>1, <3>3
    <3> HIDE DEF Right
    <3> QED
      BY <2>1, <3>2
  <2>3. CASE ~IsOpt(s[k])
    <3>1. f[k] = f[k - 1] /\ g[k] = Append(g[k - 1], s[k])
      BY <1>1, <1>2, <2>a, <2>3, KindsAre
    <3>3. /\ g[k] \in Seq(Args) /\ f[k] \in Seq(Args)
          /\ Len(f[k]) \in Nat /\ Len(g[k]) \in Nat /\ Len(f[k - 1]) \in Nat /\ Len(g[k - 1]) \in Nat
          /\ Len(g[k]) = Len(g[k - 1]) + 1 /\ Len(f[k]) = Len(f[k - 1])
      BY <2>a, <2>b, <3>1
    <3>2. Right(k)
      BY <1>3, <2>1, <3>3
    <3> HIDE DEF Right
    <3> QED
      BY <2>1, <3>2
  <2> QED
    BY <2>2, <2>3
<1>6. n \in S
  <2> HIDE DEF S
  <2>1. 0 .. n \subseteq S
    BY <1>3, <1>4, <1>5, UpTo
  <2> QED
    BY <1>3, <2>1
<1>7. Opts(s) = f[n] /\ Inputs(s) = g[n] /\ Right(n)
  BY <1>1, <1>2, <1>6 DEF Opts, Inputs
<1>8. /\ Opts(s) \in Seq(Args) /\ Inputs(s) \in Seq(Args)
      /\ Len(Opts(s)) + Len(Inputs(s)) = Len(s)
  BY <1>7
<1>9. Permuted(s) \in Seq(Args) /\ Len(Permuted(s)) = Len(s)
  BY <1>8 DEF Permuted
<1> QED
  BY <1>8, <1>9

-----------------------------------------------------------------------------
(* Which options with one of some keys a sequence has, among its first n.  *)
Wanted(x, keys) == IsOpt(x) /\ x.key \in keys

NoneIn(s, n, keys) == \A j \in 1 .. n : ~Wanted(s[j], keys)

LastIn(s, n, keys, x) ==
  \E k \in 1 .. n : /\ s[k] = x /\ Wanted(x, keys)
                    /\ \A j \in k + 1 .. n : ~Wanted(s[j], keys)

(* Both sequences have the same last option for each set of keys.          *)
SameOptions(s, t) ==
  \A keys : /\ NoneIn(s, Len(s), keys) <=> NoneIn(t, Len(t), keys)
            /\ \A x : LastIn(s, Len(s), keys, x) <=> LastIn(t, Len(t), keys, x)

LEMMA OneMore ==
  ASSUME NEW s, NEW n \in Nat, NEW keys, NEW x
  PROVE  LastIn(s, n + 1, keys, x) <=>
           IF Wanted(s[n + 1], keys) THEN x = s[n + 1] ELSE LastIn(s, n, keys, x)
<1>1. CASE Wanted(s[n + 1], keys)
  <2>1. ASSUME LastIn(s, n + 1, keys, x)  PROVE x = s[n + 1]
    <3>1. PICK k \in 1 .. n + 1 : /\ s[k] = x
                                  /\ \A j \in k + 1 .. n + 1 : ~Wanted(s[j], keys)
      BY <2>1 DEF LastIn
    <3>2. k = n + 1
      <4> SUFFICES ASSUME k # n + 1  PROVE FALSE
        OBVIOUS
      <4>1. n + 1 \in k + 1 .. n + 1
        BY <3>1
      <4> QED
        BY <1>1, <3>1, <4>1
    <3> QED
      BY <3>1, <3>2
  <2>2. ASSUME x = s[n + 1]  PROVE LastIn(s, n + 1, keys, x)
    <3>1. n + 1 \in 1 .. n + 1 /\ \A j \in (n + 1) + 1 .. n + 1 : FALSE
      OBVIOUS
    <3> QED
      BY <1>1, <2>2, <3>1 DEF LastIn
  <2> QED
    BY <1>1, <2>1, <2>2
<1>2. CASE ~Wanted(s[n + 1], keys)
  <2>1. ASSUME LastIn(s, n + 1, keys, x)  PROVE LastIn(s, n, keys, x)
    <3>1. PICK k \in 1 .. n + 1 : /\ s[k] = x /\ Wanted(x, keys)
                                  /\ \A j \in k + 1 .. n + 1 : ~Wanted(s[j], keys)
      BY <2>1 DEF LastIn
    <3>2. k \in 1 .. n /\ \A j \in k + 1 .. n : j \in k + 1 .. n + 1
      BY <1>2, <3>1
    <3> QED
      BY <3>1, <3>2 DEF LastIn
  <2>2. ASSUME LastIn(s, n, keys, x)  PROVE LastIn(s, n + 1, keys, x)
    <3>1. PICK k \in 1 .. n : /\ s[k] = x /\ Wanted(x, keys)
                              /\ \A j \in k + 1 .. n : ~Wanted(s[j], keys)
      BY <2>2 DEF LastIn
    <3>2. k \in 1 .. n + 1 /\ \A j \in k + 1 .. n + 1 : j = n + 1 \/ j \in k + 1 .. n
      OBVIOUS
    <3> QED
      BY <1>2, <3>1, <3>2 DEF LastIn
  <2> QED
    BY <1>2, <2>1, <2>2
<1> QED
  BY <1>1, <1>2

(* The options of a prefix are in the sequence in the same place.          *)
LEMMA SamePrefix ==
  ASSUME NEW s, NEW t, NEW n \in Nat, \A j \in 1 .. n : s[j] = t[j], NEW keys
  PROVE  /\ NoneIn(s, n, keys) <=> NoneIn(t, n, keys)
         /\ \A x : LastIn(s, n, keys, x) <=> LastIn(t, n, keys, x)
<1>1. ASSUME NEW k \in 1 .. n, NEW j \in k + 1 .. n  PROVE j \in 1 .. n
  OBVIOUS
<1>2. ASSUME NEW x  PROVE LastIn(s, n, keys, x) <=> LastIn(t, n, keys, x)
  <2>1. \A k \in 1 .. n : (\A j \in k + 1 .. n : ~Wanted(s[j], keys))
                          <=> (\A j \in k + 1 .. n : ~Wanted(t[j], keys))
    BY <1>1, Zenon
  <2> QED
    BY <2>1, Zenon DEF LastIn
<1>3. NoneIn(s, n, keys) <=> NoneIn(t, n, keys)
  BY Zenon DEF NoneIn
<1> QED
  BY <1>2, <1>3

LEMMA NoneMore ==
  ASSUME NEW s, NEW n \in Nat, NEW keys
  PROVE  NoneIn(s, n + 1, keys) <=> NoneIn(s, n, keys) /\ ~Wanted(s[n + 1], keys)
<1>1. \A j \in 1 .. n + 1 : j = n + 1 \/ j \in 1 .. n
  OBVIOUS
<1>2. n + 1 \in 1 .. n + 1 /\ \A j \in 1 .. n : j \in 1 .. n + 1
  OBVIOUS
<1> QED
  BY <1>1, <1>2 DEF NoneIn

(* Selecting the options loses none, and keeps their order.                *)
LEMMA OptsAreSame ==
  ASSUME NEW s \in Seq(Args)
  PROVE  SameOptions(Opts(s), s)
<1>1. PICK f : /\ f[0] = <<>>
               /\ \A k \in 1 .. Len(s) :
                    /\ s[k].is \in {"opt"} => f[k] = Append(f[k - 1], s[k])
                    /\ s[k].is \notin {"opt"} => f[k] = f[k - 1]
               /\ Those(s, {"opt"}) = f[Len(s)]
  BY ThoseIs
<1> DEFINE n == Len(s)
           Same(k) == \A keys : /\ NoneIn(f[k], Len(f[k]), keys) <=> NoneIn(s, k, keys)
                                /\ \A x : LastIn(f[k], Len(f[k]), keys, x) <=> LastIn(s, k, keys, x)
           S == {k \in 0 .. n : f[k] \in Seq(Args) /\ Same(k)}
<1>2. n \in Nat
  OBVIOUS
<1>3. 0 \in S
  <2>1. f[0] \in Seq(Args) /\ Len(f[0]) = 0
    BY <1>1
  <2>2. Same(0)
    BY <2>1 DEF NoneIn, LastIn
  <2> HIDE DEF Same
  <2> QED
    BY <1>2, <2>1, <2>2
<1>4. ASSUME NEW k \in 1 .. n, k - 1 \in S  PROVE k \in S
  <2>1. f[k - 1] \in Seq(Args) /\ Same(k - 1) /\ k - 1 \in Nat /\ k \in 0 .. n
    <3> HIDE DEF Same
    <3> QED
      BY <1>2, <1>4
  <2>2. s[k] \in Args /\ (k - 1) + 1 = k
    BY <1>2, <1>4
  <2>3. CASE IsOpt(s[k])
    <3> DEFINE a == f[k - 1]
               m == Len(a)
    <3>1. f[k] = Append(a, s[k])
      BY <1>1, <2>2, <2>3, KindsAre
    <3>2. /\ m \in Nat /\ f[k] \in Seq(Args) /\ Len(f[k]) = m + 1 /\ f[k][m + 1] = s[k]
          /\ \A j \in 1 .. m : f[k][j] = a[j]
      BY <2>1, <2>2, <3>1
    <3>3. ASSUME NEW keys
          PROVE  /\ NoneIn(f[k], m + 1, keys) <=> NoneIn(s, k, keys)
                 /\ \A x : LastIn(f[k], m + 1, keys, x) <=> LastIn(s, k, keys, x)
      <4>1. /\ NoneIn(a, m, keys) <=> NoneIn(s, k - 1, keys)
            /\ \A x : LastIn(a, m, keys, x) <=> LastIn(s, k - 1, keys, x)
        BY <2>1
      <4> HIDE DEF a, m
      <4>2. /\ NoneIn(f[k], m, keys) <=> NoneIn(a, m, keys)
            /\ \A x : LastIn(f[k], m, keys, x) <=> LastIn(a, m, keys, x)
        BY <3>2, SamePrefix
      <4>3. NoneIn(f[k], m + 1, keys) <=> NoneIn(f[k], m, keys) /\ ~Wanted(s[k], keys)
        BY <3>2, NoneMore
      <4>4. NoneIn(s, k, keys) <=> NoneIn(s, k - 1, keys) /\ ~Wanted(s[k], keys)
        BY <2>1, <2>2, NoneMore
      <4>5. ASSUME NEW x
            PROVE  LastIn(f[k], m + 1, keys, x) <=> LastIn(s, k, keys, x)
        <5>1. LastIn(f[k], m + 1, keys, x) <=>
                IF Wanted(s[k], keys) THEN x = s[k] ELSE LastIn(f[k], m, keys, x)
          BY <3>2, OneMore
        <5>2. LastIn(s, k, keys, x) <=>
                IF Wanted(s[k], keys) THEN x = s[k] ELSE LastIn(s, k - 1, keys, x)
          BY <2>1, <2>2, OneMore
        <5> QED
          BY <4>1, <4>2, <5>1, <5>2
      <4> QED
        BY <4>1, <4>2, <4>3, <4>4, <4>5
    <3>4. Same(k)
      <4> HIDE DEF m
      <4> QED
        BY <3>2, <3>3
    <3> HIDE DEF Same, m, a
    <3> QED
      BY <2>1, <3>2, <3>4
  <2>4. CASE ~IsOpt(s[k])
    <3>1. f[k] = f[k - 1]
      BY <1>1, <2>2, <2>4, KindsAre
    <3>2. \A keys : ~Wanted(s[k], keys)
      BY <2>4 DEF Wanted
    <3>3. \A keys : /\ NoneIn(s, k, keys) <=> NoneIn(s, k - 1, keys)
                    /\ \A x : LastIn(s, k, keys, x) <=> LastIn(s, k - 1, keys, x)
      BY <2>1, <2>2, <3>2, NoneMore, OneMore
    <3>4. Same(k)
      BY <2>1, <3>1, <3>3
    <3> HIDE DEF Same
    <3> QED
      BY <2>1, <3>1, <3>4
  <2> QED
    BY <2>3, <2>4
<1>5. n \in S
  <2> HIDE DEF S
  <2>1. 0 .. n \subseteq S
    BY <1>2, <1>3, <1>4, UpTo
  <2> QED
    BY <1>2, <2>1
<1>6. Same(n) /\ Opts(s) = f[n]
  BY <1>1, <1>5 DEF Opts
<1> QED
  BY <1>6 DEF SameOptions

(* What is no option does not count, at the end.                           *)
LEMMA NoMoreOptions ==
  ASSUME NEW s \in Seq(Args), NEW t \in Seq(Args), \A j \in 1 .. Len(t) : ~IsOpt(t[j])
  PROVE  SameOptions(s \o t, s)
<1> DEFINE u == s \o t
           m == Len(s)
           n == Len(u)
<1>1. /\ m \in Nat /\ n \in Nat /\ n >= m /\ u \in Seq(Args)
      /\ \A j \in 1 .. m : u[j] = s[j]
      /\ \A j \in m + 1 .. n : j - m \in 1 .. Len(t) /\ u[j] = t[j - m]
  OBVIOUS
<1>2. \A j \in m + 1 .. n : \A keys : ~Wanted(u[j], keys)
  <2> SUFFICES ASSUME NEW j \in m + 1 .. n, NEW keys  PROVE ~Wanted(u[j], keys)
    OBVIOUS
  <2> HIDE DEF u, m, n
  <2>1. u[j] = t[j - m] /\ j - m \in 1 .. Len(t)
    BY <1>1
  <2> QED
    BY <2>1 DEF Wanted
<1> HIDE DEF u, m, n
<1>3. ASSUME NEW keys
      PROVE  /\ NoneIn(u, n, keys) <=> NoneIn(s, m, keys)
             /\ \A x : LastIn(u, n, keys, x) <=> LastIn(s, m, keys, x)
  <2>1. NoneIn(u, n, keys) <=> NoneIn(u, m, keys)
    <3>1. \A j \in 1 .. n : j \in 1 .. m \/ j \in m + 1 .. n
      BY <1>1
    <3>2. \A j \in 1 .. m : j \in 1 .. n
      BY <1>1
    <3> QED
      BY <1>2, <3>1, <3>2, Zenon DEF NoneIn
  <2>2. ASSUME NEW x  PROVE LastIn(u, n, keys, x) <=> LastIn(u, m, keys, x)
    <3>1. ASSUME LastIn(u, n, keys, x)  PROVE LastIn(u, m, keys, x)
      <4>1. PICK k \in 1 .. n : /\ u[k] = x /\ Wanted(x, keys)
                                /\ \A j \in k + 1 .. n : ~Wanted(u[j], keys)
        BY <3>1 DEF LastIn
      <4>2. k \in 1 .. m
        <5> SUFFICES ASSUME k \in m + 1 .. n  PROVE FALSE
          BY <1>1
        <5> QED
          BY <1>2, <4>1
      <4>3. \A j \in k + 1 .. m : j \in k + 1 .. n
        BY <1>1, <4>2
      <4> QED
        BY <4>1, <4>2, <4>3 DEF LastIn
    <3>2. ASSUME LastIn(u, m, keys, x)  PROVE LastIn(u, n, keys, x)
      <4>1. PICK k \in 1 .. m : /\ u[k] = x /\ Wanted(x, keys)
                                /\ \A j \in k + 1 .. m : ~Wanted(u[j], keys)
        BY <3>2 DEF LastIn
      <4>2. k \in 1 .. n /\ \A j \in k + 1 .. n : j \in k + 1 .. m \/ j \in m + 1 .. n
        BY <1>1, <4>1
      <4> QED
        BY <1>2, <4>1, <4>2 DEF LastIn
    <3> QED
      BY <3>1, <3>2
  <2>3. /\ NoneIn(u, m, keys) <=> NoneIn(s, m, keys)
        /\ \A x : LastIn(u, m, keys, x) <=> LastIn(s, m, keys, x)
    BY <1>1, SamePrefix
  <2> QED
    BY <2>1, <2>2, <2>3
<1> QED
  BY <1>3 DEF SameOptions, u, m, n

LEMMA PermutedSame ==
  ASSUME NEW s \in Seq(Args)
  PROVE  SameOptions(Permuted(s), s)
<1>1. Opts(s) \in Seq(Args) /\ Inputs(s) \in Seq(Args)
  BY PermutedIs
<1>2. \A j \in 1 .. Len(Inputs(s)) : ~IsOpt(Inputs(s)[j])
  <2> SUFFICES ASSUME NEW j \in 1 .. Len(Inputs(s))  PROVE ~IsOpt(Inputs(s)[j])
    OBVIOUS
  <2>1. Inputs(s)[j].is \in NoOpt /\ Inputs(s)[j] \in Args
    BY <1>1, ThoseAre DEF Inputs
  <2> QED
    BY <2>1, KindsAre
<1>3. SameOptions(Permuted(s), Opts(s))
  BY <1>1, <1>2, NoMoreOptions DEF Permuted
<1>4. SameOptions(Opts(s), s)
  BY OptsAreSame
<1> QED
  BY <1>3, <1>4 DEF SameOptions

-----------------------------------------------------------------------------
(* The last option with one of some keys, and what follows from it.        *)
LEMMA MaxProperties ==
  ASSUME NEW S \in SUBSET Nat, S # {}, NEW b \in Nat, \A y \in S : y <= b
  PROVE  Max(S) \in S /\ \A y \in S : y <= Max(S)
<1> DEFINE T == {b - y : y \in S}
<1>1. T \in SUBSET Nat /\ T # {}
  <2>1. \A y \in S : b - y \in Nat
    OBVIOUS
  <2> QED
    BY <2>1
<1>2. PICK t \in T : \A y \in T : t <= y
  BY <1>1, LeastMember
<1>3. PICK x \in S : t = b - x
  OBVIOUS
<1>4. \A y \in S : y <= x
  BY <1>2, <1>3
<1> QED
  BY <1>4 DEF Max

LEMMA LastOptIs ==
  ASSUME NEW s \in Seq(Args), NEW keys, NEW default
  PROVE  \/ NoneIn(s, Len(s), keys) /\ LastOpt(s, keys, default) = default
         \/ LastIn(s, Len(s), keys, LastOpt(s, keys, default))
<1> DEFINE n == Len(s)
           I == {j \in 1 .. n : IsOpt(s[j]) /\ s[j].key \in keys}
           k == IF I # {} THEN Max(I) ELSE 0
<1>1. LastOpt(s, keys, default) = IF k = 0 THEN default ELSE s[k]
  BY DEF LastOpt, SelectLastInSeq
<1>2. n \in Nat /\ I \in SUBSET Nat /\ \A j \in I : j <= n
  OBVIOUS
<1>3. CASE I = {}
  <2>1. NoneIn(s, n, keys)
    BY <1>3 DEF NoneIn, Wanted
  <2> QED
    BY <1>1, <1>3, <2>1
<1>4. CASE I # {}
  <2>1. Max(I) \in I /\ \A j \in I : j <= Max(I)
    <3> HIDE DEF I, n
    <3> QED
      BY <1>2, <1>4, MaxProperties
  <2>2. k = Max(I) /\ k \in 1 .. n /\ k # 0 /\ Wanted(s[k], keys)
    BY <1>4, <2>1 DEF Wanted
  <2>3. ASSUME NEW j \in k + 1 .. n  PROVE ~Wanted(s[j], keys)
    <3>1. j \in 1 .. n /\ ~(j <= k)
      BY <2>2
    <3>2. j \notin I
      BY <2>1, <2>2, <3>1
    <3> QED
      BY <3>1, <3>2 DEF Wanted
  <2> HIDE DEF k, I
  <2>4. LastOpt(s, keys, default) = s[k]
    BY <1>1, <2>2
  <2>5. LastIn(s, n, keys, s[k])
    BY <2>2, <2>3 DEF LastIn
  <2> QED
    BY <2>4, <2>5
<1> QED
  BY <1>3, <1>4

LEMMA LastIsOne ==
  ASSUME NEW s, NEW n \in Nat, NEW keys, NEW x, LastIn(s, n, keys, x)
  PROVE  /\ ~NoneIn(s, n, keys) /\ Wanted(x, keys) /\ \E k \in 1 .. n : x = s[k]
         /\ \A y : LastIn(s, n, keys, y) => x = y
<1>1. PICK k \in 1 .. n : /\ s[k] = x /\ Wanted(x, keys)
                          /\ \A j \in k + 1 .. n : ~Wanted(s[j], keys)
  BY DEF LastIn
<1>2. ASSUME NEW y, LastIn(s, n, keys, y)  PROVE x = y
  <2>1. PICK h \in 1 .. n : /\ s[h] = y /\ Wanted(y, keys)
                            /\ \A j \in h + 1 .. n : ~Wanted(s[j], keys)
    BY <1>2 DEF LastIn
  <2>2. ~(h \in k + 1 .. n) /\ ~(k \in h + 1 .. n)
    BY <1>1, <2>1
  <2>3. h = k
    BY <2>2
  <2> QED
    BY <1>1, <2>1, <2>3
<1> QED
  BY <1>1, <1>2 DEF NoneIn

LEMMA KeysOfIs ==
  ASSUME NEW u \in Seq(Args), NEW key
  PROVE  key \in KeysOf(u) <=> ~NoneIn(u, Len(u), {key})
<1>1. DOMAIN u = 1 .. Len(u)
  OBVIOUS
<1> QED
  BY <1>1 DEF KeysOf, NoneIn, Wanted

LEMMA SameLast ==
  ASSUME NEW s \in Seq(Args), NEW t \in Seq(Args), SameOptions(s, t)
  PROVE  /\ \A keys, default : LastOpt(s, keys, default) = LastOpt(t, keys, default)
         /\ \A key : key \in KeysOf(s) <=> key \in KeysOf(t)
<1>1. Len(s) \in Nat /\ Len(t) \in Nat
  OBVIOUS
<1>2. ASSUME NEW keys, NEW default
      PROVE  LastOpt(s, keys, default) = LastOpt(t, keys, default)
  <2> DEFINE x == LastOpt(s, keys, default)
             y == LastOpt(t, keys, default)
  <2>1. (NoneIn(s, Len(s), keys) /\ x = default) \/ LastIn(s, Len(s), keys, x)
    BY LastOptIs
  <2>2. (NoneIn(t, Len(t), keys) /\ y = default) \/ LastIn(t, Len(t), keys, y)
    BY LastOptIs
  <2> HIDE DEF x, y
  <2>3. NoneIn(s, Len(s), keys) <=> NoneIn(t, Len(t), keys)
    BY DEF SameOptions
  <2>4. LastIn(s, Len(s), keys, x) => LastIn(t, Len(t), keys, x)
    BY DEF SameOptions
  <2>5. x = y
    BY <1>1, <2>1, <2>2, <2>3, <2>4, LastIsOne
  <2> QED
    BY <2>5 DEF x, y
<1>3. ASSUME NEW key  PROVE key \in KeysOf(s) <=> key \in KeysOf(t)
  BY KeysOfIs DEF SameOptions
<1> QED
  BY <1>2, <1>3

-----------------------------------------------------------------------------
(* The loop over the options: what counts is the last one of each sort.    *)
Classes == {"program", "printer", "typelib"}

ActionNames == {"none", "print", "dump", "pretty_print", "terse_print", "type_check",
                "ast_build", "print_obj", "print_types", "ext_func"}

Objects ==
  [ home_dir : Seq(Words), ext_func_name : Seq(Words), casts : {"strict", "relaxed"},
    action : ActionNames, help_ext_func : BOOLEAN,
    argv : Int, argc : Int, ext_argv : Int, ext_argc : Int ]

ActKeys(class) == DOMAIN Actions[class] \cup {"F"}

ActionOf(class, opt) == IF opt.key = "F" THEN "ext_func" ELSE Actions[class][opt.key]

LEMMA ActionsAre ==
  /\ Actions["program"] = ProgramActions /\ Actions["printer"] = PrinterActions
  /\ Actions["typelib"] = TypelibActions
  /\ DOMAIN ProgramActions = {"n", "p", "u", "P", "T"}
  /\ DOMAIN PrinterActions = {"p", "u", "P", "T"}
  /\ DOMAIN TypelibActions = {"c", "A", "o", "t"}
  /\ DOMAIN Casts = {"r", "s"}
  /\ \A k \in DOMAIN ProgramActions :
       ProgramActions[k] \in {"none", "print", "dump", "pretty_print", "terse_print"}
  /\ \A k \in DOMAIN PrinterActions :
       PrinterActions[k] \in {"print", "dump", "pretty_print", "terse_print"}
  /\ \A k \in DOMAIN TypelibActions :
       TypelibActions[k] \in {"type_check", "ast_build", "print_obj", "print_types"}
  /\ \A k \in DOMAIN Casts : Casts[k] \in {"relaxed", "strict"}
BY DEF Actions, ProgramActions, PrinterActions, TypelibActions, Casts

LEMMA OptionsAre ==
  ASSUME NEW x \in Args, IsOpt(x), x.key = "F"
  PROVE  x.path \in Paths
<1>1. ~(x \in [is : {"opt"}, key : Words \ {"F"}])
  OBVIOUS
<1>2. x.is = "opt"
  BY DEF IsOpt
<1>3. x \in [is : {"opt"}, key : {"F"}, path : Paths]
  BY <1>1, <1>2 DEF Args
<1> QED
  BY <1>3

LEMMA ClassesAre ==
  ASSUME NEW class \in Classes
  PROVE  /\ "F" \notin DOMAIN Actions[class]
         /\ \A k \in DOMAIN Actions[class] :
              Actions[class][k] \in ActionNames \ {"ext_func"}
         /\ DefaultAction[class] \in ActionNames \ {"ext_func"}
<1>1. DefaultAction[class] \in {"pretty_print", "print", "type_check"}
  BY DEF DefaultAction, Classes
<1>2. DefaultAction[class] \in ActionNames \ {"ext_func"}
  BY <1>1 DEF ActionNames
<1>3. "F" \notin DOMAIN Actions[class]
  BY ActionsAre DEF Classes
<1>4. ASSUME NEW k \in DOMAIN Actions[class]
      PROVE  Actions[class][k] \in ActionNames \ {"ext_func"}
  <2>1. CASE class = "program"
    BY <1>4, <2>1, ActionsAre DEF ActionNames
  <2>2. CASE class = "printer"
    BY <1>4, <2>2, ActionsAre DEF ActionNames
  <2>3. CASE class = "typelib"
    BY <1>4, <2>3, ActionsAre DEF ActionNames
  <2> QED
    BY <2>1, <2>2, <2>3 DEF Classes
<1> QED
  BY <1>2, <1>3, <1>4

LEMMA ParseOptIs ==
  ASSUME NEW class \in Classes, NEW obj \in Objects, NEW x \in Args, IsOpt(x)
  PROVE  LET r == ParseOpt(class, obj, x)
         IN  /\ r \in Objects
             /\ r.ext_argv = obj.ext_argv /\ r.ext_argc = obj.ext_argc
             /\ r.action = IF x.key \in ActKeys(class) THEN ActionOf(class, x) ELSE obj.action
             /\ r.ext_func_name = IF x.key = "F" THEN x.path ELSE obj.ext_func_name
             /\ r.casts = IF class = "typelib" /\ x.key \in DOMAIN Casts
                            THEN Casts[x.key] ELSE obj.casts
             /\ r.help_ext_func <=> obj.help_ext_func \/ x.key = "help_ext_func"
<1> DEFINE r == ParseOpt(class, obj, x)
           act == IF x.key = "F" THEN "ext_func"
                  ELSE IF x.key \in DOMAIN Actions[class] THEN Actions[class][x.key] ELSE obj.action
           func == IF x.key = "F" THEN x.path ELSE obj.ext_func_name
           cast == IF class = "typelib" /\ x.key \in DOMAIN Casts THEN Casts[x.key] ELSE obj.casts
           help == obj.help_ext_func \/ x.key = "help_ext_func"
<1>1. act \in ActionNames /\ func \in Seq(Words) /\ cast \in {"strict", "relaxed"}
  <2>1. obj.action \in ActionNames /\ obj.ext_func_name \in Seq(Words)
        /\ obj.casts \in {"strict", "relaxed"}
    BY DEF Objects
  <2>2. x.key = "F" => x.path \in Seq(Words)
    BY OptionsAre DEF Paths
  <2>3. act \in ActionNames
    <3>1. "ext_func" \in ActionNames
      BY DEF ActionNames
    <3> QED
      BY <2>1, <3>1, ClassesAre
  <2>4. func \in Seq(Words)
    BY <2>1, <2>2
  <2>5. cast \in {"strict", "relaxed"}
    BY <2>1, ActionsAre
  <2> QED
    BY <2>3, <2>4, <2>5
<1>2. r = [obj EXCEPT !.action = act, !.ext_func_name = func, !.casts = cast, !.help_ext_func = help]
  BY DEF ParseOpt
<1>3. act = IF x.key \in ActKeys(class) THEN ActionOf(class, x) ELSE obj.action
  BY ClassesAre DEF ActKeys, ActionOf
<1>4. help \in BOOLEAN
  OBVIOUS
<1> HIDE DEF act, func, cast, help, r
<1>5. /\ r \in Objects
      /\ r.ext_argv = obj.ext_argv /\ r.ext_argc = obj.ext_argc
      /\ r.action = act /\ r.ext_func_name = func /\ r.casts = cast /\ r.help_ext_func = help
  BY <1>1, <1>2, <1>4 DEF Objects
<1> QED
  BY <1>3, <1>5 DEF r, func, cast, help

AreTurns(class, obj, opts, f, n) == f = [k \in 0 .. n |-> Turns(class, obj, opts, f, k)]

LEMMA TurnsExist ==
  ASSUME NEW class, NEW obj, NEW opts, NEW n \in Nat
  PROVE  \E f : AreTurns(class, obj, opts, f, n)
<1> DEFINE Is(f, m) == AreTurns(class, obj, opts, f, m)
           S == {m \in 0 .. n : \E f : Is(f, m)}
<1>0. \A f : Turns(class, obj, opts, f, 0) = obj
  BY DEF Turns
<1>1. 0 \in S
  <2> DEFINE f == [k \in 0 .. 0 |-> obj]
  <2>1. \A k \in 0 .. 0 : Turns(class, obj, opts, f, k) = obj
    BY DEF Turns
  <2>2. Is(f, 0)
    <3> HIDE DEF f
    <3>1. f = [k \in 0 .. 0 |-> obj]
      BY DEF f
    <3> QED
      BY <2>1, <3>1 DEF AreTurns
  <2> QED
    BY <2>2
<1>2. ASSUME NEW m \in 1 .. n, m - 1 \in S  PROVE m \in S
  <2>1. PICK f : Is(f, m - 1)
    BY <1>2
  <2> DEFINE g == [k \in 0 .. m |-> Turns(class, obj, opts, f, k)]
  <2>2. ASSUME NEW k \in 0 .. m - 1  PROVE g[k] = f[k]
    <3>1. k \in 0 .. m /\ k \in 0 .. m - 1
      BY <2>2
    <3>2. f[k] = Turns(class, obj, opts, f, k)
      BY <2>1, <3>1 DEF AreTurns
    <3> QED
      BY <3>1, <3>2
  <2>3. ASSUME NEW k \in 0 .. m
        PROVE  Turns(class, obj, opts, f, k) = Turns(class, obj, opts, g, k)
    <3>1. CASE k = 0
      <4> HIDE DEF g
      <4> QED
        BY <1>0, <3>1
    <3>2. CASE k # 0
      <4>1. k - 1 \in 0 .. m - 1
        BY <3>2
      <4>2. f[k - 1] = g[k - 1]
        BY <2>2, <4>1
      <4> HIDE DEF g
      <4> QED
        BY <3>2, <4>2 DEF Turns
    <3> QED
      BY <3>1, <3>2
  <2>4. Is(g, m)
    <3>1. g = [k \in 0 .. m |-> Turns(class, obj, opts, f, k)]
      OBVIOUS
    <3> HIDE DEF g
    <3> QED
      BY <2>3, <3>1, Zenon DEF AreTurns
  <2>5. \E h : Is(h, m)
    <3> HIDE DEF g, Is
    <3> QED
      BY <2>4
  <2> HIDE DEF g, Is
  <2> QED
    BY <2>5
<1>3. n \in S
  <2> HIDE DEF S
  <2> QED
    BY <1>1, <1>2, UpTo
<1> QED
  BY <1>3

LEMMA ParseOptsIs ==
  ASSUME NEW class, NEW obj, NEW opts \in Seq(Args)
  PROVE  \E f : /\ f[0] = obj
                /\ \A k \in 1 .. Len(opts) : f[k] = ParseOpt(class, f[k - 1], opts[k])
                /\ ParseOpts(class, obj, opts) = f[Len(opts)]
<1>1. Len(opts) \in Nat
  OBVIOUS
<1> DEFINE f == CHOOSE f : AreTurns(class, obj, opts, f, Len(opts))
<1>2. AreTurns(class, obj, opts, f, Len(opts))
  <2>1. \E g : AreTurns(class, obj, opts, g, Len(opts))
    BY <1>1, TurnsExist
  <2> QED
    BY <2>1, Zenon
<1>3. ParseOpts(class, obj, opts) = f[Len(opts)]
  BY DEF ParseOpts, AreTurns
<1> HIDE DEF f
<1>4. \A k \in 0 .. Len(opts) : f[k] = Turns(class, obj, opts, f, k)
  BY <1>2 DEF AreTurns
<1>5. f[0] = obj
  <2>1. 0 \in 0 .. Len(opts)
    BY <1>1
  <2> QED
    BY <1>4, <2>1 DEF Turns
<1>6. ASSUME NEW k \in 1 .. Len(opts)  PROVE f[k] = ParseOpt(class, f[k - 1], opts[k])
  <2>1. k \in 0 .. Len(opts) /\ k # 0
    BY <1>1
  <2> QED
    BY <1>4, <2>1 DEF Turns
<1> QED
  BY <1>3, <1>5, <1>6

(* The object after the loop, by the last options of each sort.            *)
Right(class, obj, opts, n, r) ==
  /\ r \in Objects /\ r.ext_argv = obj.ext_argv /\ r.ext_argc = obj.ext_argc
  /\ \/ NoneIn(opts, n, ActKeys(class)) /\ r.action = obj.action
     \/ \E x : LastIn(opts, n, ActKeys(class), x) /\ r.action = ActionOf(class, x)
  /\ \/ NoneIn(opts, n, {"F"}) /\ r.ext_func_name = obj.ext_func_name
     \/ \E x : LastIn(opts, n, {"F"}, x) /\ r.ext_func_name = x.path
  /\ class = "typelib" =>
       \/ NoneIn(opts, n, DOMAIN Casts) /\ r.casts = obj.casts
       \/ \E x : LastIn(opts, n, DOMAIN Casts, x) /\ r.casts = Casts[x.key]
  /\ r.help_ext_func <=> obj.help_ext_func \/ ~NoneIn(opts, n, {"help_ext_func"})

LEMMA OneTurn ==
  ASSUME NEW class \in Classes, NEW obj, NEW opts, NEW n \in Nat, NEW p,
         opts[n + 1] \in Args, IsOpt(opts[n + 1]), Right(class, obj, opts, n, p)
  PROVE  Right(class, obj, opts, n + 1, ParseOpt(class, p, opts[n + 1]))
<1> DEFINE x == opts[n + 1]
           r == ParseOpt(class, p, x)
<1> HIDE DEF x, r
<1>1. p \in Objects /\ p.ext_argv = obj.ext_argv /\ p.ext_argc = obj.ext_argc
  BY DEF Right
<1>2. /\ r \in Objects
      /\ r.ext_argv = p.ext_argv /\ r.ext_argc = p.ext_argc
      /\ r.action = IF x.key \in ActKeys(class) THEN ActionOf(class, x) ELSE p.action
      /\ r.ext_func_name = IF x.key = "F" THEN x.path ELSE p.ext_func_name
      /\ r.casts = IF class = "typelib" /\ x.key \in DOMAIN Casts THEN Casts[x.key] ELSE p.casts
      /\ r.help_ext_func <=> p.help_ext_func \/ x.key = "help_ext_func"
  BY <1>1, ParseOptIs DEF r, x
<1>3. \A keys : Wanted(x, keys) <=> x.key \in keys
  BY DEF Wanted, x
<1>4. \A keys : NoneIn(opts, n + 1, keys) <=> NoneIn(opts, n, keys) /\ x.key \notin keys
  BY <1>3, NoneMore DEF x
<1>5. \A keys, y : LastIn(opts, n + 1, keys, y) <=>
                     IF x.key \in keys THEN y = x ELSE LastIn(opts, n, keys, y)
  BY <1>3, OneMore DEF x
<1>6. \/ NoneIn(opts, n + 1, ActKeys(class)) /\ r.action = obj.action
      \/ \E y : LastIn(opts, n + 1, ActKeys(class), y) /\ r.action = ActionOf(class, y)
  BY <1>2, <1>4, <1>5 DEF Right
<1>7. \/ NoneIn(opts, n + 1, {"F"}) /\ r.ext_func_name = obj.ext_func_name
      \/ \E y : LastIn(opts, n + 1, {"F"}, y) /\ r.ext_func_name = y.path
  BY <1>2, <1>4, <1>5 DEF Right
<1>8. class = "typelib" =>
        \/ NoneIn(opts, n + 1, DOMAIN Casts) /\ r.casts = obj.casts
        \/ \E y : LastIn(opts, n + 1, DOMAIN Casts, y) /\ r.casts = Casts[y.key]
  BY <1>2, <1>4, <1>5 DEF Right
<1>9. r.help_ext_func <=> obj.help_ext_func \/ ~NoneIn(opts, n + 1, {"help_ext_func"})
  BY <1>2, <1>4 DEF Right
<1> QED
  BY <1>1, <1>2, <1>6, <1>7, <1>8, <1>9 DEF Right, r, x

LEMMA ParseOptsRight ==
  ASSUME NEW class \in Classes, NEW obj \in Objects, NEW opts \in Seq(Args),
         \A j \in 1 .. Len(opts) : IsOpt(opts[j])
  PROVE  Right(class, obj, opts, Len(opts), ParseOpts(class, obj, opts))
<1>1. PICK f : /\ f[0] = obj
               /\ \A k \in 1 .. Len(opts) : f[k] = ParseOpt(class, f[k - 1], opts[k])
               /\ ParseOpts(class, obj, opts) = f[Len(opts)]
  BY ParseOptsIs
<1> DEFINE n == Len(opts)
           S == {k \in 0 .. n : Right(class, obj, opts, k, f[k])}
<1>2. n \in Nat
  OBVIOUS
<1>3. 0 \in S
  BY <1>1, <1>2 DEF Right, NoneIn, LastIn
<1>4. ASSUME NEW k \in 1 .. n, k - 1 \in S  PROVE k \in S
  <2>1. Right(class, obj, opts, k - 1, f[k - 1]) /\ k - 1 \in Nat /\ (k - 1) + 1 = k /\ k \in 0 .. n
    BY <1>2, <1>4
  <2>2. opts[k] \in Args /\ IsOpt(opts[k])
    BY <1>4
  <2>3. f[k] = ParseOpt(class, f[k - 1], opts[k])
    BY <1>1, <1>4
  <2>4. Right(class, obj, opts, k, f[k])
    BY <2>1, <2>2, <2>3, OneTurn
  <2> QED
    BY <2>1, <2>4
<1>5. n \in S
  <2> HIDE DEF S
  <2>1. 0 .. n \subseteq S
    BY <1>2, <1>3, <1>4, UpTo
  <2> QED
    BY <1>2, <2>1
<1> QED
  BY <1>1, <1>5

(* ... and by what is asked for.                                           *)
LEMMA AskedIs ==
  ASSUME NEW class \in Classes, NEW s \in Seq(Args)
  PROVE  /\ \/ /\ NoneIn(s, Len(s), ActKeys(class))
               /\ ActionAsked(class, s) = DefaultAction[class]
            \/ \E x : LastIn(s, Len(s), ActKeys(class), x) /\ ActionAsked(class, s) = ActionOf(class, x)
         /\ \/ NoneIn(s, Len(s), {"F"})
            \/ \E x : LastIn(s, Len(s), {"F"}, x) /\ FuncAsked(s) = x.path
         /\ \/ NoneIn(s, Len(s), DOMAIN Casts) /\ CastsAsked(s) = "strict"
            \/ \E x : LastIn(s, Len(s), DOMAIN Casts, x) /\ CastsAsked(s) = Casts[x.key]
<1>1. Len(s) \in Nat /\ ~IsOpt(NullArg)
  BY DEF NullArg, IsOpt
<1>2. \/ /\ NoneIn(s, Len(s), ActKeys(class))
         /\ ActionAsked(class, s) = DefaultAction[class]
      \/ \E x : LastIn(s, Len(s), ActKeys(class), x) /\ ActionAsked(class, s) = ActionOf(class, x)
  <2> DEFINE opt == LastOpt(s, ActKeys(class), NullArg)
  <2>1. opt = LastOpt(s, DOMAIN Actions[class] \cup {"F"}, NullArg)
    BY DEF ActKeys
  <2> HIDE DEF opt
  <2>2. \/ NoneIn(s, Len(s), ActKeys(class)) /\ opt = NullArg
        \/ LastIn(s, Len(s), ActKeys(class), opt)
    BY LastOptIs DEF opt
  <2>3. CASE NoneIn(s, Len(s), ActKeys(class)) /\ opt = NullArg
    <3>1. ActionAsked(class, s) = DefaultAction[class]
      BY <1>1, <2>1, <2>3 DEF ActionAsked
    <3> QED
      BY <2>3, <3>1
  <2>4. CASE LastIn(s, Len(s), ActKeys(class), opt)
    <3>1. IsOpt(opt) /\ opt # NullArg
      BY <1>1, <2>4, LastIsOne DEF Wanted
    <3>2. ActionAsked(class, s) = ActionOf(class, opt)
      BY <2>1, <3>1 DEF ActionAsked, ActionOf
    <3> QED
      BY <2>4, <3>2
  <2> QED
    BY <2>2, <2>3, <2>4
<1>3. \/ NoneIn(s, Len(s), {"F"})
      \/ \E x : LastIn(s, Len(s), {"F"}, x) /\ FuncAsked(s) = x.path
  BY LastOptIs DEF FuncAsked
<1>4. \/ NoneIn(s, Len(s), DOMAIN Casts) /\ CastsAsked(s) = "strict"
      \/ \E x : LastIn(s, Len(s), DOMAIN Casts, x) /\ CastsAsked(s) = Casts[x.key]
  <2>1. Casts[Opt("s").key] = "strict"
    BY DEF Casts, Opt
  <2> QED
    BY <2>1, LastOptIs DEF CastsAsked
<1> QED
  BY <1>2, <1>3, <1>4

LEMMA SetAsAsked ==
  ASSUME NEW class \in Classes, NEW obj \in Objects, NEW s \in Seq(Args), NEW t \in Seq(Args),
         SameOptions(t, s)
  PROVE  LET r == ParseOpts(class, obj, Opts(t))
         IN  /\ r \in Objects /\ r.ext_argv = obj.ext_argv /\ r.ext_argc = obj.ext_argc
             /\ obj.action \in {DefaultAction[class], ActionAsked(class, s)} =>
                  r.action = ActionAsked(class, s)
             /\ class = "typelib" /\ obj.casts \in {"strict", CastsAsked(s)} =>
                  r.casts = CastsAsked(s)
             /\ ActionAsked(class, s) = "ext_func" =>
                  r.ext_func_name = FuncAsked(s) /\ FuncAsked(s) \in Paths
             /\ r.help_ext_func <=> obj.help_ext_func \/ "help_ext_func" \in KeysOf(s)
<1> DEFINE opts == Opts(t)
           n == Len(opts)
           r == ParseOpts(class, obj, opts)
<1>1. opts \in Seq(Args) /\ n \in Nat /\ Len(s) \in Nat /\ SameOptions(opts, t)
  BY PermutedIs, OptsAreSame
<1>2. \A j \in 1 .. n : IsOpt(opts[j])
  <2> SUFFICES ASSUME NEW j \in 1 .. n  PROVE IsOpt(opts[j])
    OBVIOUS
  <2>1. opts[j].is \in {"opt"}
    BY ThoseAre DEF Opts
  <2> QED
    BY <2>1 DEF IsOpt
<1> HIDE DEF opts, n, r
<1>3. Right(class, obj, opts, n, r)
  BY <1>1, <1>2, ParseOptsRight DEF n, r
<1>4. /\ \A keys : NoneIn(opts, n, keys) <=> NoneIn(s, Len(s), keys)
      /\ \A keys, x : LastIn(opts, n, keys, x) <=> LastIn(s, Len(s), keys, x)
  BY <1>1 DEF SameOptions, n
<1>5. /\ \A keys, x : LastIn(s, Len(s), keys, x) => ~NoneIn(s, Len(s), keys)
      /\ \A keys, x, y : LastIn(s, Len(s), keys, x) /\ LastIn(s, Len(s), keys, y) => x = y
  BY <1>1, LastIsOne
<1>6. ASSUME obj.action \in {DefaultAction[class], ActionAsked(class, s)}
      PROVE  r.action = ActionAsked(class, s)
  BY <1>3, <1>4, <1>5, <1>6, AskedIs DEF Right
<1>7. ASSUME class = "typelib", obj.casts \in {"strict", CastsAsked(s)}
      PROVE  r.casts = CastsAsked(s)
  BY <1>3, <1>4, <1>5, <1>7, AskedIs DEF Right
<1>8. ASSUME ActionAsked(class, s) = "ext_func"
      PROVE  r.ext_func_name = FuncAsked(s) /\ FuncAsked(s) \in Paths
  <2>1. PICK x : LastIn(s, Len(s), ActKeys(class), x) /\ ActionOf(class, x) = "ext_func"
    BY <1>8, AskedIs, ClassesAre
  <2>2. Wanted(x, ActKeys(class)) /\ (\E k \in 1 .. Len(s) : x = s[k])
    BY <1>1, <2>1, LastIsOne
  <2>3. x.key = "F" /\ x \in Args /\ IsOpt(x)
    BY <2>1, <2>2, ClassesAre DEF ActionOf, Wanted, ActKeys
  <2>4. ~NoneIn(s, Len(s), {"F"})
    BY <2>2, <2>3 DEF NoneIn, Wanted
  <2>5. PICK y : LastIn(s, Len(s), {"F"}, y) /\ FuncAsked(s) = y.path
    BY <2>4, AskedIs
  <2>6. r.ext_func_name = y.path
    BY <1>3, <1>4, <1>5, <2>4, <2>5 DEF Right
  <2>7. Wanted(y, {"F"}) /\ (\E k \in 1 .. Len(s) : y = s[k])
    BY <1>1, <2>5, LastIsOne
  <2>8. y \in Args /\ IsOpt(y) /\ y.key = "F"
    BY <2>7 DEF Wanted
  <2> QED
    BY <2>5, <2>6, <2>8, OptionsAre
<1>9. r.help_ext_func <=> obj.help_ext_func \/ "help_ext_func" \in KeysOf(s)
  BY <1>3, <1>4, KeysOfIs DEF Right
<1> QED
  BY <1>3, <1>6, <1>7, <1>8, <1>9 DEF Right, r, opts

-----------------------------------------------------------------------------
(* The parts of a command line.                                            *)

NoDashes(s, n) == \A j \in 1 .. n : s[j] # Dashes

(* How long the part before the first `--' is.                             *)
IsPartLen(s, k) == k \in 0 .. Len(s) /\ NoDashes(s, k) /\ (k = Len(s) \/ s[k + 1] = Dashes)

LEMMA PartIs ==
  ASSUME NEW s \in Seq(Args)
  PROVE  \E k \in 0 .. Len(s) : /\ IsPartLen(s, k)
                                /\ Part(s) = SubSeq(s, 1, k) /\ Rest(s) = SubSeq(s, k + 2, Len(s))
<1> DEFINE n == Len(s)
           I == {j \in 1 .. n : s[j] = Dashes}
           k == IF I # {} THEN Min(I) ELSE 0
<1>1. /\ Part(s) = IF k = 0 THEN s ELSE SubSeq(s, 1, k - 1)
      /\ Rest(s) = IF k = 0 THEN <<>> ELSE SubSeq(s, k + 1, Len(s))
  BY DEF Part, Rest, SelectInSeq, IsDashes
<1>2. n \in Nat /\ I \in SUBSET Nat
  OBVIOUS
<1>3. CASE I = {}
  <2>1. k = 0 /\ Part(s) = s /\ Rest(s) = <<>>
    BY <1>1, <1>3
  <2>2. SubSeq(s, 1, n) = s /\ SubSeq(s, n + 2, n) = <<>>
    BY <1>2, SubSeqFull, SubSeqEmpty
  <2>3. IsPartLen(s, n)
    BY <1>2, <1>3 DEF IsPartLen, NoDashes
  <2>4. n \in 0 .. Len(s) /\ Part(s) = SubSeq(s, 1, n) /\ Rest(s) = SubSeq(s, n + 2, Len(s))
    BY <1>2, <2>1, <2>2
  <2> HIDE DEF n, k, I
  <2> QED
    BY <2>3, <2>4
<1>4. CASE I # {}
  <2>1. PICK x \in I : \A y \in I : x <= y
    <3> HIDE DEF I
    <3> QED
      BY <1>2, <1>4, LeastMember
  <2>2. Min(I) \in I /\ \A y \in I : Min(I) <= y
    BY <2>1 DEF Min
  <2>3. k = Min(I) /\ k \in 1 .. n /\ k # 0 /\ s[k] = Dashes
    BY <1>4, <2>2
  <2>4. ASSUME NEW j \in 1 .. k - 1  PROVE s[j] # Dashes
    <3>1. j \in 1 .. n /\ ~(k <= j)
      BY <1>2, <2>3
    <3>2. j \notin I
      BY <2>2, <2>3, <3>1
    <3> QED
      BY <3>1, <3>2
  <2> HIDE DEF k, I
  <2>5. k - 1 \in 0 .. n /\ (k - 1) + 1 = k /\ (k - 1) + 2 = k + 1
    BY <1>2, <2>3
  <2>6. IsPartLen(s, k - 1)
    BY <2>3, <2>4, <2>5 DEF IsPartLen, NoDashes
  <2>7. Part(s) = SubSeq(s, 1, k - 1) /\ Rest(s) = SubSeq(s, (k - 1) + 2, Len(s))
    BY <1>1, <2>3, <2>5
  <2> QED
    BY <2>5, <2>6, <2>7
<1> QED
  BY <1>3, <1>4

LEMMA PartLenIsOne ==
  ASSUME NEW s \in Seq(Args), NEW k, NEW m, IsPartLen(s, k), IsPartLen(s, m)
  PROVE  k = m
<1>1. k \in Nat /\ m \in Nat /\ k <= Len(s) /\ m <= Len(s) /\ Len(s) \in Nat
  BY DEF IsPartLen
<1>2. ASSUME NEW a \in Nat, NEW b \in Nat, IsPartLen(s, a), IsPartLen(s, b)  PROVE ~(a < b)
  <2> SUFFICES ASSUME a < b  PROVE FALSE
    OBVIOUS
  <2>1. a + 1 \in 1 .. b /\ a # Len(s)
    BY <1>2 DEF IsPartLen
  <2> QED
    BY <1>2, <2>1 DEF IsPartLen, NoDashes
<1>3. ~(k < m) /\ ~(m < k)
  BY <1>1, <1>2
<1> QED
  BY <1>1, <1>3

LEMMA PartLenDecides ==
  ASSUME NEW s \in Seq(Args), NEW k, IsPartLen(s, k)
  PROVE  /\ Part(s) = SubSeq(s, 1, k) /\ Part(s) \in Seq(Args) /\ Len(Part(s)) = k
         /\ \A j \in 1 .. k : Part(s)[j] = s[j]
         /\ Rest(s) = SubSeq(s, k + 2, Len(s)) /\ Rest(s) \in Seq(Args)
<1>1. PICK m \in 0 .. Len(s) : /\ IsPartLen(s, m)
                               /\ Part(s) = SubSeq(s, 1, m) /\ Rest(s) = SubSeq(s, m + 2, Len(s))
  BY PartIs
<1>2. k = m
  BY <1>1, PartLenIsOne
<1>3. k \in Nat /\ Len(s) \in Nat /\ k <= Len(s)
  BY <1>1, <1>2
<1>4. SubSeq(s, 1, k) \in Seq(Args) /\ Len(SubSeq(s, 1, k)) = k
      /\ \A j \in 1 .. k : SubSeq(s, 1, k)[j] = s[j]
  BY <1>3
<1>5. SubSeq(s, k + 2, Len(s)) \in Seq(Args)
  BY <1>3
<1> QED
  BY <1>1, <1>2, <1>4, <1>5

(* A region of argv is one of its elements, no `--', and all that follow:  *)
(* what of it is of its object is the part before the next `--'.           *)
IsRegion(args, at, n, t, k) ==
  /\ args \in Seq(Args) /\ at \in 1 .. Len(args) /\ args[at].is = "text"
  /\ n = Len(args) + 1 - at /\ t = SubSeq(args, at + 1, Len(args)) /\ IsPartLen(t, k)

LEMMA RegionIs ==
  ASSUME NEW args, NEW at, NEW n, NEW t, NEW k, IsRegion(args, at, n, t, k)
  PROVE  /\ t \in Seq(Args) /\ Len(t) = n - 1 /\ n \in Nat \ {0} /\ k \in 0 .. n - 1
         /\ \A j \in 1 .. n - 1 : t[j] = args[at + j]
         /\ HasDashes(args, at, n) <=> k < Len(t)
         /\ HasDashes(args, at, n) => FirstDashes(args, at, n) = at + k + 1
         /\ Own(args, at, n) = k + 1 /\ OwnArgs(args, at, n) = Part(t)
<1>1. /\ t \in Seq(Args) /\ Len(t) = n - 1 /\ n \in Nat \ {0} /\ at \in Nat \ {0}
      /\ Len(args) = at + n - 1 /\ Len(args) \in Nat
      /\ \A j \in 1 .. n - 1 : t[j] = args[at + j]
  BY DEF IsRegion
<1>0. args[at] # Dashes /\ IsPartLen(t, k)
  BY DEF IsRegion, Dashes
<1>2. k \in 0 .. n - 1 /\ k \in Nat /\ \A j \in 1 .. k : t[j] # Dashes
  BY <1>0, <1>1 DEF IsPartLen, NoDashes
<1>3. ASSUME NEW j \in at .. at + k  PROVE args[j] # Dashes
  <2>1. CASE j = at
    BY <1>0, <2>1
  <2>2. CASE j # at
    <3>1. j - at \in 1 .. k /\ j - at \in 1 .. n - 1 /\ at + (j - at) = j
      BY <1>1, <1>2, <2>2
    <3> QED
      BY <1>1, <1>2, <3>1
  <2> QED
    BY <2>1, <2>2
<1>4. CASE k = Len(t)
  <2>1. Region(at, n) = at .. at + k
    BY <1>1, <1>4 DEF Region
  <2>2. ~HasDashes(args, at, n)
    BY <1>3, <2>1 DEF HasDashes
  <2>3. Own(args, at, n) = k + 1
    BY <1>1, <1>4, <2>2 DEF Own
  <2>4. OwnArgs(args, at, n) = SubSeq(args, at + 1, at + (k + 1) - 1)
    BY <2>3 DEF OwnArgs
  <2>5. SubSeq(t, 1, Len(t)) = t
    BY <1>1, SubSeqFull
  <2>6. at + (k + 1) - 1 = Len(args)
    <3>1. k = n - 1
      BY <1>1, <1>4
    <3> QED
      BY <1>1, <3>1
  <2>7. Part(t) = t
    BY <1>0, <1>1, <1>4, <2>5, PartLenDecides
  <2>8. OwnArgs(args, at, n) = t
    BY <2>4, <2>6 DEF IsRegion
  <2>9. ~(k < Len(t))
    <3>1. ~(k < k)
      BY <1>2
    <3> QED
      BY <1>4, <3>1
  <2> QED
    BY <1>1, <1>2, <2>2, <2>3, <2>7, <2>8, <2>9
<1>5. CASE k # Len(t)
  <2> DEFINE d == at + k + 1
  <2>0. k # n - 1 /\ t[k + 1] = Dashes
    BY <1>0, <1>1, <1>5 DEF IsPartLen
  <2>1. k < n - 1 /\ d \in Region(at, n) /\ args[d] = Dashes
    <3>1. k < n - 1 /\ k + 1 \in 1 .. n - 1 /\ at + (k + 1) = d /\ d \in at .. at + n - 1
      BY <1>1, <1>2, <2>0
    <3>2. args[d] = t[k + 1]
      BY <1>1, <3>1
    <3> QED
      BY <2>0, <3>1, <3>2 DEF Region
  <2>2. \A j \in at .. d - 1 : args[j] # Dashes
    <3>1. d - 1 = at + k
      BY <1>1, <1>2
    <3> QED
      BY <1>3, <3>1
  <2>3. ASSUME NEW h \in Region(at, n), args[h] = Dashes,
               \A j \in at .. h - 1 : args[j] # Dashes
        PROVE  h = d
    <3>1. ~(h \in at .. d - 1) /\ ~(d \in at .. h - 1)
      BY <2>1, <2>2, <2>3
    <3>2. h \in Int /\ h >= at /\ at \in Int /\ d \in Int /\ d >= at
      BY <1>1, <1>2, <2>3 DEF Region
    <3> HIDE DEF d
    <3> QED
      BY <3>1, <3>2
  <2>4. FirstDashes(args, at, n) = d
    <3> HIDE DEF d
    <3> QED
      BY <2>1, <2>2, <2>3 DEF FirstDashes
  <2>5. HasDashes(args, at, n)
    BY <2>1 DEF HasDashes
  <2>6. Own(args, at, n) = k + 1
    BY <1>1, <1>2, <2>4, <2>5 DEF Own
  <2>7. OwnArgs(args, at, n) = SubSeq(args, at + 1, at + (k + 1) - 1)
    BY <2>6 DEF OwnArgs
  <2>8. SubSeq(args, at + 1, at + (k + 1) - 1) = SubSeq(t, 1, k)
    <3>1. at + (k + 1) - 1 = at + k /\ k <= n - 1
      BY <1>1, <1>2
    <3> QED
      BY <1>1, <1>2, <3>1
  <2>9. OwnArgs(args, at, n) = Part(t)
    BY <1>0, <1>1, <2>7, <2>8, PartLenDecides
  <2> QED
    BY <1>1, <1>2, <2>1, <2>4, <2>5, <2>6, <2>9
<1> QED
  BY <1>4, <1>5

(* What is left of a path is a path.                                       *)
LEMMA PathsAre ==
  ASSUME NEW path \in Paths
  PROVE  /\ Cut(path) \in Paths /\ DirName(path) \in Paths
         /\ path \in Seq(Words) /\ path # NoPath /\ Len(path) \in Nat \ {0}
<1>1. path \in Seq(Words) /\ path # <<>> /\ Len(path) \in Nat \ {0}
  BY EmptySeq DEF Paths, NoPath
<1>2. CASE Len(path) = 1
  <2>1. <<".">> \in Seq(Words) /\ <<".">> # <<>>
    <3>1. ASSUME NEW x \in Words  PROVE <<x>> \in Seq(Words) /\ Len(<<x>>) = 1
      OBVIOUS
    <3>2. "." \in Words
      BY WordsAssumption
    <3>3. <<".">> \in Seq(Words) /\ Len(<<".">>) = 1
      BY <3>1, <3>2, Zenon
    <3> QED
      BY <3>3, EmptySeq
  <2> QED
    BY <1>1, <1>2, <2>1 DEF Paths, NoPath, Cut, DirName
<1>3. CASE Len(path) # 1
  <2>1. Front(path) \in Seq(Words) /\ Len(Front(path)) = Len(path) - 1
    <3>0. \A m \in Nat \ {0} : m # 1 => 1 \in Int /\ m - 1 \in Int /\ 1 <= m - 1
      OBVIOUS
    <3>1. 1 \in Int /\ Len(path) - 1 \in Int /\ 1 <= Len(path) - 1
      BY <1>1, <1>3, <3>0, Zenon
    <3>2. \A h \in 1 .. Len(path) - 1 : path[h] \in Words
      BY <1>1, <1>3
    <3>3. /\ SubSeq(path, 1, Len(path) - 1) \in Seq(Words)
          /\ Len(SubSeq(path, 1, Len(path) - 1)) = (Len(path) - 1) - 1 + 1
      BY <3>1, <3>2, SubSeqProperties
    <3> QED
      BY <1>1, <3>3 DEF Front
  <2>2. Front(path) # <<>>
    BY <1>1, <1>3, <2>1
  <2> QED
    BY <1>1, <1>3, <2>1, <2>2 DEF Paths, NoPath, Cut, DirName
<1> QED
  BY <1>2, <1>3, <1>1 DEF NoPath

LEMMA TextsAre ==
  /\ \A x \in Args : x.is = "text" => x.path \in Paths /\ x # Dashes /\ x # NullArg /\ ~IsOpt(x)
  /\ \A path \in Paths : Text(path) \in Args /\ Text(path).is = "text" /\ Text(path).path = path
  /\ \A path \in Seq(Words) :
       /\ NameArg(path) \in Args /\ NameArg(path) # Dashes
       /\ path = NoPath => NameArg(path) = NullArg
       /\ path # NoPath => NameArg(path) = Text(path)
<1>1. ASSUME NEW x \in Args, x.is = "text"  PROVE x.path \in Paths
  <2>1. x \in [is : {"text"}, path : Paths]
    BY <1>1 DEF Args
  <2> QED
    BY <2>1
<1>2. \A x : x.is = "text" => x # Dashes /\ x # NullArg /\ ~IsOpt(x)
  BY DEF Dashes, NullArg, IsOpt
<1>3. ASSUME NEW path \in Paths
      PROVE  Text(path) \in Args /\ Text(path).is = "text" /\ Text(path).path = path
  BY DEF Text, Args
<1>4. NullArg \in Args /\ NullArg # Dashes
  BY DEF NullArg, Args, Dashes
<1>5. ASSUME NEW path \in Seq(Words)
      PROVE  /\ NameArg(path) \in Args /\ NameArg(path) # Dashes
             /\ path = NoPath => NameArg(path) = NullArg
             /\ path # NoPath => NameArg(path) = Text(path)
  <2>1. path # NoPath => path \in Paths
    BY DEF Paths
  <2> QED
    BY <1>2, <1>3, <1>4, <2>1 DEF NameArg
<1> QED
  BY <1>1, <1>2, <1>3, <1>5

LEMMA ConcatIs ==
  ASSUME NEW a \in Seq(Args), NEW b \in Seq(Args)
  PROVE  /\ a \o b \in Seq(Args) /\ Len(a \o b) = Len(a) + Len(b)
         /\ Len(a) \in Nat /\ Len(b) \in Nat
         /\ \A j \in 1 .. Len(a) : (a \o b)[j] = a[j]
         /\ \A j \in 1 .. Len(b) : (a \o b)[Len(a) + j] = b[j]
OBVIOUS

IsJoin(r, a, b, c, e, m, h) ==
  /\ a \in Seq(Args) /\ b \in Args /\ c \in Seq(Args) /\ e \in Seq(Args)
  /\ r = a \o <<b>> \o c \o e /\ m = Len(a) /\ h = Len(c)

LEMMA JoinIs ==
  ASSUME NEW r, NEW a, NEW b, NEW c, NEW e, NEW m, NEW h, IsJoin(r, a, b, c, e, m, h)
  PROVE  /\ r \in Seq(Args) /\ Len(r) = m + 1 + h + Len(e)
         /\ \A j \in 1 .. m : r[j] = a[j]
         /\ r[m + 1] = b
         /\ \A j \in 1 .. h : r[m + 1 + j] = c[j]
         /\ \A j \in 1 .. Len(e) : r[m + 1 + h + j] = e[j]
<1> DEFINE p == a \o <<b>>
           q == p \o c
<1>j. /\ a \in Seq(Args) /\ b \in Args /\ c \in Seq(Args) /\ e \in Seq(Args)
      /\ r = a \o <<b>> \o c \o e /\ m = Len(a) /\ h = Len(c)
  BY DEF IsJoin
<1>1. /\ p \in Seq(Args) /\ Len(p) = m + 1 /\ m \in Nat
      /\ (\A j \in 1 .. m : p[j] = a[j]) /\ p[m + 1] = b
  BY <1>j
<1>q. q = p \o c
  OBVIOUS
<1>0. r = q \o e
  BY <1>j
<1> HIDE DEF p, q
<1>2. /\ q \in Seq(Args) /\ Len(q) = m + 1 + h /\ h \in Nat
      /\ (\A j \in 1 .. m + 1 : q[j] = p[j]) /\ (\A j \in 1 .. h : q[m + 1 + j] = c[j])
  <2>1. /\ p \o c \in Seq(Args) /\ Len(p \o c) = Len(p) + Len(c) /\ Len(c) \in Nat
        /\ \A j \in 1 .. Len(p) : (p \o c)[j] = p[j]
        /\ \A j \in 1 .. Len(c) : (p \o c)[Len(p) + j] = c[j]
    BY <1>j, <1>1, ConcatIs
  <2> QED
    BY <1>j, <1>1, <1>q, <2>1, Zenon
<1>3. /\ r \in Seq(Args) /\ Len(r) = m + 1 + h + Len(e) /\ Len(e) \in Nat
      /\ (\A j \in 1 .. m + 1 + h : r[j] = q[j])
      /\ (\A j \in 1 .. Len(e) : r[m + 1 + h + j] = e[j])
  <2>1. /\ q \o e \in Seq(Args) /\ Len(q \o e) = Len(q) + Len(e) /\ Len(e) \in Nat
        /\ \A j \in 1 .. Len(q) : (q \o e)[j] = q[j]
        /\ \A j \in 1 .. Len(e) : (q \o e)[Len(q) + j] = e[j]
    BY <1>j, <1>2, ConcatIs
  <2> QED
    BY <1>0, <1>2, <2>1, Zenon
<1>4. \A j \in 1 .. m : r[j] = a[j]
  BY <1>1, <1>2, <1>3
<1>5. r[m + 1] = b
  BY <1>1, <1>2, <1>3
<1>6. \A j \in 1 .. h : r[m + 1 + j] = c[j]
  BY <1>1, <1>2, <1>3
<1> QED
  BY <1>3, <1>4, <1>5, <1>6

(* What parse makes of argv.                                               *)
Rewritten(r, args, at, t, k, obj) ==
  /\ r \in Seq(Args) /\ Len(r) = Len(args)
  /\ \A j \in 1 .. at - 1 : r[j] = args[j]
  /\ r[at] = Text(Cut(args[at].path))
  /\ obj.ext_argc > 0 => r[obj.ext_argv] = NameArg(obj.ext_func_name)
  /\ \A j \in at + 1 .. at + k :
       (obj.ext_argc > 0 /\ j = obj.ext_argv) \/ r[j] = Permuted(Part(t))[j - at]
  /\ \A j \in at + k + 1 .. Len(args) :
       (obj.ext_argc > 0 /\ j = obj.ext_argv) \/ r[j] = args[j]

LEMMA ParsedArgsAre ==
  ASSUME NEW args, NEW at, NEW n, NEW t, NEW k, IsRegion(args, at, n, t, k),
         NEW obj \in Objects, obj.ext_argc > 0 => obj.ext_argv \in at + 1 .. Len(args)
  PROVE  Rewritten(ParsedArgs(obj, args, at, n), args, at, t, k, obj)
<1> DEFINE a == SubSeq(args, 1, at - 1)
           b == Text(Cut(args[at].path))
           c == Permuted(Part(t))
           e == SubSeq(args, at + k + 1, Len(args))
           read == a \o <<b>> \o c \o e
           r == ParsedArgs(obj, args, at, n)
<1>0. /\ args \in Seq(Args) /\ at \in 1 .. Len(args) /\ args[at] \in Args
      /\ args[at].is = "text" /\ n = Len(args) + 1 - at /\ IsPartLen(t, k)
  BY DEF IsRegion
<1>1. args[at].path \in Paths
  BY <1>0, TextsAre
<1>2. /\ t \in Seq(Args) /\ Len(t) = n - 1 /\ n \in Nat \ {0} /\ k \in 0 .. n - 1
      /\ Own(args, at, n) = k + 1 /\ OwnArgs(args, at, n) = Part(t)
  BY RegionIs
<1>3. at \in Nat \ {0} /\ k \in Nat /\ n \in Nat /\ Len(args) = at + n - 1 /\ k <= n - 1 /\ n # 0
  BY <1>0, <1>2
<1>4. a \in Seq(Args) /\ Len(a) = at - 1 /\ \A j \in 1 .. at - 1 : a[j] = args[j]
  <2> DEFINE v == at - 1
  <2>1. v \in Int /\ v >= 0 /\ v - 1 + 1 = v /\ (~(1 <= v) => v = 0) /\ \A j \in Int : 1 + j - 1 = j
    BY <1>3
  <2>2. \A j \in 1 .. v : args[j] \in Args
    BY <1>0, <1>3
  <2> HIDE DEF v
  <2>3. /\ SubSeq(args, 1, v) \in Seq(Args)
        /\ Len(SubSeq(args, 1, v)) = IF 1 <= v THEN v - 1 + 1 ELSE 0
        /\ \A j \in 1 .. v - 1 + 1 : SubSeq(args, 1, v)[j] = args[1 + j - 1]
    BY <2>1, <2>2, SubSeqProperties
  <2>4. Len(SubSeq(args, 1, v)) = v /\ \A j \in 1 .. v : SubSeq(args, 1, v)[j] = args[j]
    BY <2>1, <2>3
  <2> QED
    BY <2>3, <2>4 DEF v
<1>5. b \in Args
  BY <1>1, TextsAre, PathsAre
<1>6. c \in Seq(Args) /\ Len(c) = k
  BY <1>0, <1>2, PartLenDecides, PermutedIs
<1>7. /\ e \in Seq(Args) /\ Len(e) = n - 1 - k
      /\ \A j \in 1 .. n - 1 - k : e[j] = args[at + k + j]
  <2> DEFINE u == at + k + 1
             v == Len(args)
  <2>1. u \in Int /\ v \in Int /\ v - u + 1 = n - 1 - k /\ n - 1 - k >= 0
        /\ (u <= v <=> n - 1 - k > 0)
    BY <1>3
  <2>2. \A h \in u .. v : args[h] \in Args
    BY <1>0, <1>3
  <2>3. /\ e \in Seq(Args) /\ Len(e) = IF u <= v THEN v - u + 1 ELSE 0
        /\ \A j \in 1 .. v - u + 1 : e[j] = args[u + j - 1]
    <3> HIDE DEF u, v
    <3>1. e = SubSeq(args, u, v)
      BY DEF u, v
    <3> HIDE DEF e
    <3> QED
      BY <2>1, <2>2, <3>1, SubSeqProperties
  <2>4. \A j \in 1 .. n - 1 - k : u + j - 1 = at + k + j
    BY <1>3
  <2>5. Len(e) = n - 1 - k
    <3> HIDE DEF e, u, v
    <3> QED
      BY <2>1, <2>3
  <2> HIDE DEF e, u, v
  <2> QED
    BY <2>1, <2>3, <2>4, <2>5
<1>8. r = IF obj.ext_argc > 0 THEN [read EXCEPT ![obj.ext_argv] = NameArg(obj.ext_func_name)] ELSE read
  <2>1. at + (k + 1) = at + k + 1
    BY <1>3
  <2> QED
    BY <1>2, <1>3, <2>1 DEF ParsedArgs
<1> HIDE DEF a, b, c, e, r
<1>r. read = a \o <<b>> \o c \o e
  OBVIOUS
<1> HIDE DEF read
<1>9. /\ read \in Seq(Args) /\ Len(read) = (at - 1) + 1 + k + (n - 1 - k)
      /\ \A j \in 1 .. at - 1 : read[j] = a[j]
      /\ read[(at - 1) + 1] = b
      /\ \A j \in 1 .. k : read[(at - 1) + 1 + j] = c[j]
      /\ \A j \in 1 .. n - 1 - k : read[(at - 1) + 1 + k + j] = e[j]
  <2>1. /\ read \in Seq(Args) /\ Len(read) = (at - 1) + 1 + k + Len(e)
        /\ \A j \in 1 .. at - 1 : read[j] = a[j]
        /\ read[(at - 1) + 1] = b
        /\ \A j \in 1 .. k : read[(at - 1) + 1 + j] = c[j]
        /\ \A j \in 1 .. Len(e) : read[(at - 1) + 1 + k + j] = e[j]
    <3>1. IsJoin(read, a, b, c, e, at - 1, k)
      BY <1>r, <1>4, <1>5, <1>6, <1>7 DEF IsJoin
    <3> QED
      BY <3>1, JoinIs
  <2> QED
    BY <1>7, <2>1
<1>10. /\ Len(read) = Len(args)
       /\ \A j \in 1 .. at - 1 : read[j] = args[j]
       /\ read[at] = b
  <2>1. (at - 1) + 1 + k + (n - 1 - k) = Len(args) /\ (at - 1) + 1 = at
    BY <1>3
  <2>2. Len(read) = Len(args) /\ read[at] = b
    BY <1>9, <2>1, Zenon
  <2> QED
    BY <1>4, <1>9, <2>2, Zenon
<1>11. \A j \in at + 1 .. at + k : read[j] = c[j - at]
  <2> SUFFICES ASSUME NEW j \in at + 1 .. at + k  PROVE read[j] = c[j - at]
    OBVIOUS
  <2>1. j - at \in 1 .. k /\ (at - 1) + 1 + (j - at) = j
    BY <1>3
  <2> QED
    BY <1>9, <2>1, Zenon
<1>12. \A j \in at + k + 1 .. Len(args) : read[j] = args[j]
  <2> SUFFICES ASSUME NEW j \in at + k + 1 .. Len(args)  PROVE read[j] = args[j]
    OBVIOUS
  <2>1. /\ j - at - k \in 1 .. n - 1 - k /\ (at - 1) + 1 + k + (j - at - k) = j
        /\ at + k + (j - at - k) = j
    BY <1>3
  <2>2. read[j] = e[j - at - k] /\ e[j - at - k] = args[j]
    BY <1>7, <1>9, <2>1, Zenon
  <2> QED
    BY <2>2
<1>13. CASE obj.ext_argc > 0
  <2> DEFINE x == obj.ext_argv
             y == NameArg(obj.ext_func_name)
  <2>1. x \in 1 .. Len(args) /\ x # at /\ ~(x \in 1 .. at - 1)
    BY <1>3, <1>13
  <2>2. y \in Args
    BY TextsAre DEF Objects
  <2> HIDE DEF x, y
  <2>3. r = [read EXCEPT ![x] = y]
    BY <1>8, <1>13 DEF x, y
  <2>4. /\ r \in Seq(Args) /\ Len(r) = Len(read)
        /\ \A j \in 1 .. Len(read) : r[j] = IF j = x THEN y ELSE read[j]
    BY <1>9, <1>10, <2>1, <2>2, <2>3, ExceptSeq
  <2>5. \A j \in 1 .. Len(args) : r[j] = IF j = x THEN y ELSE read[j]
    BY <1>10, <2>4
  <2>6. \A j \in 1 .. at - 1 : j \in 1 .. Len(args) /\ j # x
    BY <1>3, <2>1
  <2>7. \A j \in at + 1 .. at + k : j \in 1 .. Len(args)
    BY <1>3
  <2>8. \A j \in at + k + 1 .. Len(args) : j \in 1 .. Len(args)
    BY <1>3
  <2>9. /\ r \in Seq(Args) /\ Len(r) = Len(args) /\ r[at] = b /\ r[x] = y
        /\ \A j \in 1 .. at - 1 : r[j] = args[j]
    BY <1>0, <1>10, <2>1, <2>4, <2>5, <2>6
  <2>10. \A j \in at + 1 .. at + k : j # x => r[j] = c[j - at]
    BY <1>11, <2>5, <2>7
  <2>11. \A j \in at + k + 1 .. Len(args) : j # x => r[j] = args[j]
    BY <1>12, <2>5, <2>8
  <2> QED
    BY <1>13, <2>9, <2>10, <2>11 DEF x, y, r, b, c, Rewritten
<1>14. CASE ~(obj.ext_argc > 0)
  <2>1. r = read
    BY <1>8, <1>14
  <2> QED
    BY <1>9, <1>10, <1>11, <1>12, <1>14, <2>1 DEF r, b, c, Rewritten
<1> QED
  BY <1>13, <1>14

-----------------------------------------------------------------------------
(* A call of parse, as a whole.                                            *)
ActionsOf(class) ==
  {DefaultAction[class], "ext_func"} \cup {Actions[class][k] : k \in DOMAIN Actions[class]}

Printing == {"print", "dump", "pretty_print", "terse_print"}

LEMMA ActionsOfAre ==
  /\ ActionsOf("program") \subseteq {"none", "ext_func"} \cup Printing
  /\ ActionsOf("printer") \subseteq {"ext_func"} \cup Printing
  /\ ActionsOf("typelib") \subseteq
       {"type_check", "ast_build", "print_obj", "print_types", "ext_func"}
<1>1. /\ DefaultAction["program"] = "pretty_print" /\ DefaultAction["printer"] = "print"
      /\ DefaultAction["typelib"] = "type_check"
  BY DEF DefaultAction
<1>2. ActionsOf("program") \subseteq {"none", "ext_func"} \cup Printing
  BY <1>1, ActionsAre DEF ActionsOf, Printing
<1>3. ActionsOf("printer") \subseteq {"ext_func"} \cup Printing
  BY <1>1, ActionsAre DEF ActionsOf, Printing
<1>4. ActionsOf("typelib") \subseteq
        {"type_check", "ast_build", "print_obj", "print_types", "ext_func"}
  BY <1>1, ActionsAre DEF ActionsOf
<1> QED
  BY <1>2, <1>3, <1>4

LEMMA OneWord ==
  ASSUME NEW w \in Words
  PROVE  <<w>> \in Paths /\ <<w>> # NoPath /\ Len(<<w>>) = 1 /\ <<w>>[1] = w
<1>1. <<w>> \in Seq(Words) /\ Len(<<w>>) = 1 /\ <<w>>[1] = w
  OBVIOUS
<1>2. <<w>> # <<>>
  BY <1>1, EmptySeq
<1> QED
  BY <1>1, <1>2 DEF Paths, NoPath

LEMMA FuncNamesAre ==
  /\ NoPath \in Seq(Words)
  /\ \A act \in Printing : /\ ExtFuncName("program", act) = ProgramFuncs[act]
                           /\ ProgramFuncs[act] = <<ProgramFuncs[act][1]>>
                           /\ ProgramFuncs[act] \in Paths
                           /\ act \in DOMAIN ProgramFuncs \ {"none"}
  /\ ExtFuncName("program", "none") = NoPath
  /\ \A act : ExtFuncName("printer", act) = NoPath
  /\ ExtFuncName("typelib", "print_obj") = ProgramFuncs["print"]
  /\ \A act \in {"type_check", "ast_build", "print_types"} : ExtFuncName("typelib", act) = NoPath
<1>1. NoPath \in Seq(Words)
  BY EmptySeq DEF NoPath
<1>2. \A act : /\ ExtFuncName("program", act) = ProgramFuncs[act]
               /\ ExtFuncName("printer", act) = NoPath
               /\ ExtFuncName("typelib", act) = TypelibFuncs[act]
  BY DEF ExtFuncName
<1>3. /\ ProgramFuncs["none"] = NoPath /\ TypelibFuncs["print_obj"] = ProgramFuncs["print"]
      /\ \A act \in {"type_check", "ast_build", "print_types"} : TypelibFuncs[act] = NoPath
  BY DEF ProgramFuncs, TypelibFuncs
<1>4. ASSUME NEW act \in Printing
      PROVE  /\ \E w \in Words : ProgramFuncs[act] = <<w>>
             /\ act \in DOMAIN ProgramFuncs \ {"none"}
  <2>1. /\ ProgramFuncs["print"] = <<"printer::print">>
        /\ ProgramFuncs["dump"] = <<"printer::dump">>
        /\ ProgramFuncs["pretty_print"] = <<"printer::pretty_print">>
        /\ ProgramFuncs["terse_print"] = <<"printer::terse_print">>
        /\ DOMAIN ProgramFuncs = {"none"} \cup Printing /\ "none" \notin Printing
    BY DEF ProgramFuncs, Printing
  <2>2. \E w \in Words : ProgramFuncs[act] = <<w>>
    BY <2>1, WordsAssumption DEF Printing
  <2> QED
    BY <2>1, <2>2
<1>5. ASSUME NEW act \in Printing
      PROVE  ProgramFuncs[act] = <<ProgramFuncs[act][1]>> /\ ProgramFuncs[act] \in Paths
  <2>1. PICK w \in Words : ProgramFuncs[act] = <<w>>
    BY <1>4
  <2>2. <<w>>[1] = w /\ <<w>> \in Paths
    BY OneWord
  <2> QED
    BY <2>1, <2>2
<1> QED
  BY <1>1, <1>2, <1>3, <1>4, <1>5

LEMMA ExtNameIs ==
  ASSUME NEW class \in Classes, NEW act \in ActionsOf(class), act # "ext_func"
  PROVE  ExtFuncName(class, act) \in Seq(Words)
<1>0. Paths \subseteq Seq(Words) /\ "print" \in Printing
  BY DEF Paths, Printing
<1>1. CASE class = "program"
  BY <1>0, <1>1, ActionsOfAre, FuncNamesAre
<1>2. CASE class = "printer"
  BY <1>2, FuncNamesAre
<1>3. CASE class = "typelib"
  BY <1>0, <1>3, ActionsOfAre, FuncNamesAre
<1> QED
  BY <1>1, <1>2, <1>3 DEF Classes

IsCall(class, obj, args, at, n, s) ==
  /\ class \in Classes /\ obj \in Objects /\ obj.action \in ActionsOf(class)
  /\ OwnArgs(args, at, n) \in Seq(Args) /\ s \in Seq(Args) /\ SameOptions(OwnArgs(args, at, n), s)
  /\ n \in Nat /\ at \in Int /\ (n # 0 => args[at].path \in Paths)
  /\ Own(args, at, n) \in Int /\ (HasDashes(args, at, n) => FirstDashes(args, at, n) \in Int)

LEMMA StaysInClass ==
  ASSUME NEW class \in Classes, NEW obj \in Objects, obj.action \in ActionsOf(class),
         NEW own \in Seq(Args)
  PROVE  ParseOpts(class, obj, Opts(own)).action \in ActionsOf(class)
<1> DEFINE opts == Opts(own)
           r == ParseOpts(class, obj, opts)
<1>1. opts \in Seq(Args) /\ Len(opts) \in Nat
  BY PermutedIs
<1>2. \A j \in 1 .. Len(opts) : IsOpt(opts[j])
  <2> SUFFICES ASSUME NEW j \in 1 .. Len(opts)  PROVE IsOpt(opts[j])
    OBVIOUS
  <2>1. opts[j].is \in {"opt"}
    BY ThoseAre DEF Opts
  <2> QED
    BY <2>1 DEF IsOpt
<1> HIDE DEF opts, r
<1>3. Right(class, obj, opts, Len(opts), r)
  BY <1>1, <1>2, ParseOptsRight DEF r
<1>4. \/ r.action = obj.action
      \/ \E x : LastIn(opts, Len(opts), ActKeys(class), x) /\ r.action = ActionOf(class, x)
  BY <1>3 DEF Right
<1>5. ASSUME NEW x, LastIn(opts, Len(opts), ActKeys(class), x)
      PROVE  ActionOf(class, x) \in ActionsOf(class)
  <2>1. x.key \in ActKeys(class)
    BY <1>1, <1>5, LastIsOne DEF Wanted
  <2> QED
    BY <2>1 DEF ActKeys, ActionOf, ActionsOf
<1> QED
  BY <1>4, <1>5 DEF r, opts

LEMMA ParsedIs ==
  ASSUME NEW class, NEW obj, NEW args, NEW at, NEW n, NEW s, IsCall(class, obj, args, at, n, s)
  PROVE  LET r == Parsed(class, obj, args, at, n)
             m == Len(OwnOpts(args, at, n))
         IN  /\ r \in Objects /\ r.action \in ActionsOf(class)
             /\ n # 0 => /\ r.home_dir = DirName(args[at].path)
                         /\ r.argv = at + 1 + m /\ r.argc = Own(args, at, n) - 1 - m
             /\ HasDashes(args, at, n) =>
                  /\ r.ext_argv = FirstDashes(args, at, n)
                  /\ r.ext_argc = at + n - FirstDashes(args, at, n)
             /\ ~HasDashes(args, at, n) => r.ext_argv = obj.ext_argv /\ r.ext_argc = obj.ext_argc
             /\ obj.action \in {DefaultAction[class], ActionAsked(class, s)} =>
                  r.action = ActionAsked(class, s)
             /\ class = "typelib" /\ obj.casts \in {"strict", CastsAsked(s)} =>
                  r.casts = CastsAsked(s)
             /\ r.action = "ext_func" /\ ActionAsked(class, s) = "ext_func" =>
                  r.ext_func_name = FuncAsked(s) /\ FuncAsked(s) \in Paths
             /\ r.action # "ext_func" => r.ext_func_name = ExtFuncName(class, r.action)
             /\ r.help_ext_func <=> obj.help_ext_func \/ "help_ext_func" \in KeysOf(s)
<1> DEFINE own == OwnArgs(args, at, n)
           set == ParseOpts(class, obj, Opts(own))
           m == Len(OwnOpts(args, at, n))
           first == FirstDashes(args, at, n)
           has == HasDashes(args, at, n)
           home == IF n = 0 THEN NoPath ELSE DirName(args[at].path)
           argv1 == IF n = 0 THEN 0 ELSE at + 1 + m
           argc1 == IF n = 0 THEN 0 ELSE Own(args, at, n) - 1 - m
           ext == IF has THEN first ELSE obj.ext_argv
           extc == IF has THEN at + n - ext ELSE set.ext_argc
           name == IF set.action = "ext_func" THEN set.ext_func_name
                   ELSE ExtFuncName(class, set.action)
           r == Parsed(class, obj, args, at, n)
<1>1. /\ class \in Classes /\ obj \in Objects /\ obj.action \in ActionsOf(class)
      /\ own \in Seq(Args) /\ s \in Seq(Args) /\ SameOptions(own, s)
      /\ n \in Nat /\ at \in Int /\ (n # 0 => args[at].path \in Paths)
      /\ Own(args, at, n) \in Int /\ (has => first \in Int)
  BY DEF IsCall
<1>2. r = [set EXCEPT !.home_dir = home, !.argv = argv1, !.argc = argc1,
                      !.ext_argv = ext, !.ext_argc = extc, !.ext_func_name = name]
  BY DEF Parsed, OwnOpts
<1>3. m \in Nat
  BY <1>1, PermutedIs DEF OwnOpts
<1> HIDE DEF own, m, first, has, home, argv1, argc1, ext, extc, name, r
<1>4. /\ set \in Objects /\ set.ext_argv = obj.ext_argv /\ set.ext_argc = obj.ext_argc
      /\ obj.action \in {DefaultAction[class], ActionAsked(class, s)} =>
           set.action = ActionAsked(class, s)
      /\ class = "typelib" /\ obj.casts \in {"strict", CastsAsked(s)} =>
           set.casts = CastsAsked(s)
      /\ ActionAsked(class, s) = "ext_func" =>
           set.ext_func_name = FuncAsked(s) /\ FuncAsked(s) \in Paths
      /\ set.help_ext_func <=> obj.help_ext_func \/ "help_ext_func" \in KeysOf(s)
  BY <1>1, SetAsAsked
<1>5. set.action \in ActionsOf(class)
  BY <1>1, StaysInClass
<1> HIDE DEF set
<1>6. home \in Seq(Words)
  BY <1>1, PathsAre, FuncNamesAre DEF home, Paths
<1>7. argv1 \in Int /\ argc1 \in Int
  BY <1>1, <1>3 DEF argv1, argc1
<1>8. obj.ext_argv \in Int /\ obj.ext_argc \in Int
  BY <1>1 DEF Objects
<1>9. ext \in Int /\ extc \in Int
  BY <1>1, <1>4, <1>8 DEF ext, extc
<1>10. name \in Seq(Words)
  <2>1. set.ext_func_name \in Seq(Words)
    BY <1>4 DEF Objects
  <2> QED
    BY <1>1, <1>5, <2>1, ExtNameIs DEF name
<1>11. /\ r \in Objects /\ r.home_dir = home /\ r.argv = argv1 /\ r.argc = argc1
       /\ r.ext_argv = ext /\ r.ext_argc = extc /\ r.ext_func_name = name
       /\ r.action = set.action /\ r.casts = set.casts /\ r.help_ext_func = set.help_ext_func
  BY <1>2, <1>4, <1>6, <1>7, <1>9, <1>10 DEF Objects
<1>12. /\ n # 0 => home = DirName(args[at].path) /\ argv1 = at + 1 + m
                   /\ argc1 = Own(args, at, n) - 1 - m
       /\ has => ext = first /\ extc = at + n - first
       /\ ~has => ext = obj.ext_argv /\ extc = obj.ext_argc
       /\ set.action = "ext_func" => name = set.ext_func_name
       /\ set.action # "ext_func" => name = ExtFuncName(class, set.action)
  BY <1>4 DEF home, argv1, argc1, ext, extc, name
<1>13. /\ r.action \in ActionsOf(class)
       /\ obj.action \in {DefaultAction[class], ActionAsked(class, s)} =>
            r.action = ActionAsked(class, s)
       /\ class = "typelib" /\ obj.casts \in {"strict", CastsAsked(s)} =>
            r.casts = CastsAsked(s)
       /\ r.action = "ext_func" /\ ActionAsked(class, s) = "ext_func" =>
            r.ext_func_name = FuncAsked(s) /\ FuncAsked(s) \in Paths
       /\ r.action # "ext_func" => r.ext_func_name = ExtFuncName(class, r.action)
       /\ r.help_ext_func <=> obj.help_ext_func \/ "help_ext_func" \in KeysOf(s)
  BY <1>4, <1>5, <1>11, <1>12
<1> QED
  BY <1>11, <1>12, <1>13 DEF r, m, first, has

LEMMA EndsIs ==
  ASSUME NEW class, NEW obj, NEW args, NEW at, NEW n, NEW s, IsCall(class, obj, args, at, n, s)
  PROVE  /\ ParseEnds(class, args, at, n) = "exit" => "info" \in KeysOf(s)
         /\ ReadsNull(args, at, n) <=> ParseEnds(class, args, at, n) = "undefined"
<1> DEFINE own == OwnArgs(args, at, n)
           opts == OwnOpts(args, at, n)
           keys == {o.key : o \in ToSet(opts)}
           how == ParseEnds(class, args, at, n)
<1>1. own \in Seq(Args) /\ s \in Seq(Args) /\ SameOptions(own, s)
  BY DEF IsCall
<1>2. opts = Opts(own) /\ opts \in Seq(Args) /\ SameOptions(opts, own) /\ DOMAIN opts = 1 .. Len(opts)
  <2>1. opts = Opts(own)
    BY DEF OwnOpts
  <2> HIDE DEF opts, own
  <2>2. opts \in Seq(Args) /\ SameOptions(opts, own)
    BY <1>1, <2>1, PermutedIs, OptsAreSame
  <2> QED
    BY <2>1, <2>2
<1>3. how = CASE ReadsNull(args, at, n)       -> "undefined"
        [] ~ReadsNull(args, at, n) /\ ~(keys \subseteq Keys[class]) -> "error"
        [] ~ReadsNull(args, at, n) /\ keys \subseteq Keys[class]    ->
             IF "info" \in keys THEN "exit" ELSE "return"
  BY DEF ParseEnds
<1> HIDE DEF how, own, opts
<1>4. "info" \in keys => "info" \in KeysOf(s)
  <2> SUFFICES ASSUME "info" \in keys  PROVE "info" \in KeysOf(s)
    OBVIOUS
  <2>1. PICK j \in DOMAIN opts : opts[j].key = "info"
    BY DEF ToSet
  <2>2. opts[j].is \in {"opt"}
    BY <1>1, <1>2, <2>1, ThoseAre DEF Opts
  <2>3. "info" \in KeysOf(opts)
    BY <2>1, <2>2 DEF KeysOf, IsOpt
  <2> QED
    BY <1>1, <1>2, <2>3, SameLast
<1> HIDE DEF keys
<1>5. /\ ReadsNull(args, at, n) => how = "undefined"
      /\ ~ReadsNull(args, at, n) => how \in {"error", "exit", "return"}
      /\ how = "exit" => "info" \in keys
  <2>1. CASE ReadsNull(args, at, n)
    BY <1>3, <2>1
  <2>2. CASE ~ReadsNull(args, at, n) /\ ~(keys \subseteq Keys[class])
    BY <1>3, <2>2
  <2>3. CASE ~ReadsNull(args, at, n) /\ keys \subseteq Keys[class]
    BY <1>3, <2>3
  <2> QED
    BY <2>1, <2>2, <2>3
<1> QED
  BY <1>4, <1>5 DEF how

LEMMA CallInRegion ==
  ASSUME NEW args, NEW at, NEW n, NEW t, NEW k, IsRegion(args, at, n, t, k),
         NEW class \in Classes, NEW obj \in Objects, obj.action \in ActionsOf(class),
         NEW s \in Seq(Args), SameOptions(Part(t), s)
  PROVE  /\ IsCall(class, obj, args, at, n, s) /\ n \in Nat \ {0}
         /\ \A j \in at .. at + k : args[j] # Dashes
         /\ OwnOpts(args, at, n) = Opts(Part(t))
<1>1. /\ args \in Seq(Args) /\ at \in 1 .. Len(args) /\ args[at] \in Args /\ args[at].is = "text"
      /\ IsPartLen(t, k)
  BY DEF IsRegion
<1>2. /\ t \in Seq(Args) /\ Len(t) = n - 1 /\ n \in Nat \ {0} /\ k \in 0 .. n - 1
      /\ \A j \in 1 .. n - 1 : t[j] = args[at + j]
      /\ HasDashes(args, at, n) => FirstDashes(args, at, n) = at + k + 1
      /\ Own(args, at, n) = k + 1 /\ OwnArgs(args, at, n) = Part(t)
  BY RegionIs
<1>3. at \in Int /\ k \in Int /\ k + 1 \in Int /\ at + k + 1 \in Int /\ n \in Nat
  BY <1>1, <1>2
<1>4. args[at].path \in Paths
  BY <1>1, TextsAre
<1>5. Part(t) \in Seq(Args)
  BY <1>1, <1>2, PartLenDecides
<1>6. IsCall(class, obj, args, at, n, s)
  BY <1>2, <1>3, <1>4, <1>5 DEF IsCall
<1>7. ASSUME NEW j \in at .. at + k  PROVE args[j] # Dashes
  <2>1. CASE j = at
    BY <1>1, <2>1, TextsAre
  <2>2. CASE j # at
    <3>1. j - at \in 1 .. k /\ j - at \in 1 .. n - 1 /\ at + (j - at) = j
      BY <1>2, <1>3, <2>2
    <3>2. t[j - at] # Dashes
      BY <1>1, <3>1 DEF IsPartLen, NoDashes
    <3>3. t[j - at] = args[at + (j - at)]
      BY <1>2, <3>1
    <3> QED
      BY <3>1, <3>2, <3>3
  <2> QED
    BY <2>1, <2>2
<1> QED
  BY <1>2, <1>6, <1>7 DEF OwnOpts

(* Without a command line of its own.                                      *)
LEMMA CallOfNothing ==
  ASSUME NEW args, NEW class \in Classes, NEW obj \in Objects, obj.action \in ActionsOf(class)
  PROVE  /\ IsCall(class, obj, args, 0, 0, <<>>)
         /\ ~HasDashes(args, 0, 0) /\ ~ReadsNull(args, 0, 0)
         /\ Part(<<>>) = <<>> /\ Rest(<<>>) = <<>>
<1>1. ~HasDashes(args, 0, 0)
  BY DEF HasDashes, Region
<1>2. ~ReadsNull(args, 0, 0)
  BY <1>1 DEF ReadsNull
<1>3. Own(args, 0, 0) = 0
  BY <1>1 DEF Own
<1>4. OwnArgs(args, 0, 0) = SubSeq(args, 0 + 1, 0 + 0 - 1)
  BY <1>3 DEF OwnArgs
<1>5. OwnArgs(args, 0, 0) = <<>>
  <2>1. 0 + 1 \in Int /\ 0 + 0 - 1 \in Int /\ 0 + 0 - 1 < 0 + 1
    OBVIOUS
  <2> QED
    BY <1>4, <2>1, SubSeqEmpty
<1>6. <<>> \in Seq(Args) /\ SameOptions(<<>>, <<>>)
  BY EmptySeq DEF SameOptions
<1>7. IsCall(class, obj, args, 0, 0, <<>>)
  <2>1. 0 \in Nat /\ 0 \in Int /\ ~(0 # 0)
    OBVIOUS
  <2>2. ASSUME NEW e, e = <<>>  PROVE IsCall(class, obj, args, 0, 0, e)
    <3>1. e \in Seq(Args) /\ OwnArgs(args, 0, 0) = e /\ SameOptions(e, e)
      BY <1>5, <1>6, <2>2, Zenon
    <3> QED
      BY <1>1, <1>3, <2>1, <3>1 DEF IsCall
  <2> QED
    BY <2>2, Zenon
<1>8. Part(<<>>) = <<>> /\ Rest(<<>>) = <<>>
  <2>1. Len(<<>>) = 0
    BY EmptySeq
  <2>2. {j \in 1 .. Len(<<>>) : <<>>[j] = Dashes} = {}
    BY <2>1
  <2>3. SelectInSeq(<<>>, IsDashes) = 0
    BY <2>2 DEF SelectInSeq, IsDashes
  <2> QED
    BY <2>3 DEF Part, Rest
<1> QED
  BY <1>1, <1>2, <1>7, <1>8

LEMMA TailSame ==
  ASSUME NEW s \in Seq(Args), s # <<>>, ~IsOpt(s[1])
  PROVE  SameOptions(Tail(s), s)
<1> DEFINE t == Tail(s)
           n == Len(s)
<1>1. /\ t \in Seq(Args) /\ n \in Nat \ {0} /\ Len(t) = n - 1
      /\ \A j \in 1 .. n - 1 : t[j] = s[j + 1]
  OBVIOUS
<1> HIDE DEF t, n
<1>2. ASSUME NEW keys
      PROVE  /\ NoneIn(t, n - 1, keys) <=> NoneIn(s, n, keys)
             /\ \A x : LastIn(t, n - 1, keys, x) <=> LastIn(s, n, keys, x)
  <2>1. ~Wanted(s[1], keys)
    BY DEF Wanted
  <2>2. ASSUME NoneIn(t, n - 1, keys)  PROVE NoneIn(s, n, keys)
    <3> SUFFICES ASSUME NEW j \in 1 .. n  PROVE ~Wanted(s[j], keys)
      BY DEF NoneIn
    <3>1. CASE j = 1
      BY <2>1, <3>1
    <3>2. CASE j # 1
      <4>1. j - 1 \in 1 .. n - 1 /\ (j - 1) + 1 = j
        BY <1>1, <3>2
      <4> QED
        BY <1>1, <2>2, <4>1 DEF NoneIn
    <3> QED
      BY <3>1, <3>2
  <2>3. ASSUME NoneIn(s, n, keys)  PROVE NoneIn(t, n - 1, keys)
    <3> SUFFICES ASSUME NEW j \in 1 .. n - 1  PROVE ~Wanted(t[j], keys)
      BY DEF NoneIn
    <3>1. j + 1 \in 1 .. n
      BY <1>1
    <3> QED
      BY <1>1, <2>3, <3>1 DEF NoneIn
  <2>4. ASSUME NEW x, LastIn(t, n - 1, keys, x)  PROVE LastIn(s, n, keys, x)
    <3>1. PICK k \in 1 .. n - 1 : /\ t[k] = x /\ Wanted(x, keys)
                                  /\ \A j \in k + 1 .. n - 1 : ~Wanted(t[j], keys)
      BY <2>4 DEF LastIn
    <3>2. k + 1 \in 1 .. n /\ s[k + 1] = x
      BY <1>1, <3>1
    <3>3. ASSUME NEW j \in (k + 1) + 1 .. n  PROVE ~Wanted(s[j], keys)
      <4>1. j - 1 \in k + 1 .. n - 1 /\ j - 1 \in 1 .. n - 1 /\ (j - 1) + 1 = j
        BY <1>1, <3>1
      <4> QED
        BY <1>1, <3>1, <4>1
    <3> QED
      BY <3>1, <3>2, <3>3 DEF LastIn
  <2>5. ASSUME NEW x, LastIn(s, n, keys, x)  PROVE LastIn(t, n - 1, keys, x)
    <3>1. PICK k \in 1 .. n : /\ s[k] = x /\ Wanted(x, keys)
                              /\ \A j \in k + 1 .. n : ~Wanted(s[j], keys)
      BY <2>5 DEF LastIn
    <3>2. k - 1 \in 1 .. n - 1 /\ (k - 1) + 1 = k
      BY <1>1, <2>1, <3>1
    <3>3. t[k - 1] = x
      BY <1>1, <3>1, <3>2
    <3>4. ASSUME NEW j \in (k - 1) + 1 .. n - 1  PROVE ~Wanted(t[j], keys)
      <4>1. j + 1 \in k + 1 .. n /\ j \in 1 .. n - 1
        BY <1>1, <3>1
      <4> QED
        BY <1>1, <3>1, <4>1
    <3> QED
      BY <3>1, <3>2, <3>3, <3>4 DEF LastIn
  <2> QED
    BY <2>2, <2>3, <2>4, <2>5
<1> QED
  BY <1>1, <1>2 DEF SameOptions, t, n

-----------------------------------------------------------------------------
(* Command lines.                                                          *)

(* Where that of the extension begins, and whether there is one.           *)
Start(line)  == Len(Part(line)) + 1
HasExt(line) == Len(Part(line)) < Len(line)

NameAsked(line) ==
  LET act == ActionAsked("program", Part(line))
  IN  IF act = "ext_func" THEN FuncAsked(Part(line)) ELSE ExtFuncName("program", act)

LEMMA LineIs ==
  ASSUME NEW line \in CommandLines
  PROVE  LET t == SubSeq(line, 2, Len(line))
         IN  /\ line \in Seq(Args) /\ Len(line) \in Nat \ {0} /\ Part(line) \in Seq(Args)
             /\ \A j \in 1 .. Len(line) : line[j] # NullArg
             /\ Start(line) \in 2 .. Len(line) + 1 /\ (HasExt(line) <=> Start(line) <= Len(line))
             /\ \A j \in 1 .. Len(Part(line)) : Part(line)[j] = line[j]
             /\ IsRegion(line, 1, Len(line), t, Len(Part(line)) - 1)
             /\ Part(t) = Tail(Part(line)) /\ SameOptions(Part(t), Part(line))
             /\ line[1].path \in Paths
             /\ Rest(line) = SubSeq(line, Start(line) + 1, Len(line)) /\ Rest(line) \in Seq(Args)
             /\ ~HasExt(line) => Rest(line) = <<>>
<1> DEFINE n == Len(line)
           t == SubSeq(line, 2, n)
           p == Part(line)
           k == Len(p)
<1>1. line \in Seq(Args \ {NullArg}) /\ line # <<>> /\ line[1].is = "text"
  BY LinesAssumption
<1>2. /\ line \in Seq(Args) /\ n \in Nat \ {0} /\ line[1] \in Args
      /\ \A j \in 1 .. n : line[j] # NullArg
  BY <1>1
<1>3. line[1] # Dashes /\ line[1].path \in Paths /\ ~IsOpt(line[1])
  BY <1>1, <1>2, TextsAre
<1>4. PICK m \in 0 .. n : IsPartLen(line, m)
  BY <1>2, PartIs
<1>5. /\ p = SubSeq(line, 1, m) /\ p \in Seq(Args) /\ k = m
      /\ \A j \in 1 .. m : p[j] = line[j]
      /\ Rest(line) = SubSeq(line, m + 2, n) /\ Rest(line) \in Seq(Args)
  BY <1>2, <1>4, PartLenDecides
<1> HIDE DEF p, k
<1>6. k \in 1 .. n /\ NoDashes(line, k) /\ (k = n \/ line[k + 1] = Dashes)
  <2>1. NoDashes(line, k) /\ (k = n \/ line[k + 1] = Dashes) /\ k \in 0 .. n
    BY <1>4, <1>5 DEF IsPartLen
  <2>2. k # 0
    BY <1>2, <1>3, <2>1
  <2> QED
    BY <2>1, <2>2
<1>7. /\ t \in Seq(Args) /\ Len(t) = n - 1 /\ \A j \in 1 .. n - 1 : t[j] = line[j + 1]
  <2>1. t = Tail(line)
    BY <1>1, <1>2, TailIsSubSeq
  <2> HIDE DEF t
  <2> QED
    BY <1>1, <1>2, <2>1, HeadTailProperties
<1> HIDE DEF t
<1>8. IsPartLen(t, k - 1)
  <2>1. k - 1 \in 0 .. n - 1 /\ k - 1 \in 0 .. Len(t)
    BY <1>2, <1>6, <1>7
  <2>2. ASSUME NEW j \in 1 .. k - 1  PROVE t[j] # Dashes
    <3>1. j \in 1 .. n - 1 /\ j + 1 \in 1 .. k
      BY <1>6
    <3> QED
      BY <1>6, <1>7, <3>1 DEF NoDashes
  <2>3. CASE k = n
    BY <1>7, <2>1, <2>2, <2>3 DEF IsPartLen, NoDashes
  <2>4. CASE k # n
    <3>1. (k - 1) + 1 \in 1 .. n - 1 /\ ((k - 1) + 1) + 1 = k + 1
      BY <1>6, <2>4
    <3>2. t[(k - 1) + 1] = Dashes
      BY <1>6, <1>7, <2>4, <3>1
    <3> QED
      BY <2>1, <2>2, <3>2 DEF IsPartLen, NoDashes
  <2> QED
    BY <2>3, <2>4
<1>9. IsRegion(line, 1, n, t, k - 1)
  <2>1. n = Len(line) + 1 - 1 /\ 1 \in 1 .. Len(line) /\ t = SubSeq(line, 1 + 1, Len(line))
    BY <1>2 DEF t
  <2> QED
    BY <1>1, <1>2, <1>8, <2>1 DEF IsRegion
<1>10. Part(t) = Tail(p)
  <2>1. Own(line, 1, n) = (k - 1) + 1 /\ OwnArgs(line, 1, n) = Part(t)
    BY <1>9, RegionIs
  <2>2. OwnArgs(line, 1, n) = SubSeq(line, 1 + 1, 1 + Own(line, 1, n) - 1)
    BY DEF OwnArgs
  <2>3. 1 + ((k - 1) + 1) - 1 = k /\ 1 \in 1 .. n /\ k \in 1 .. n
    BY <1>6
  <2>4. OwnArgs(line, 1, n) = SubSeq(line, 1 + 1, k)
    BY <2>1, <2>2, <2>3
  <2>5. Tail(SubSeq(line, 1, k)) = SubSeq(line, 1 + 1, k)
    BY <1>2, <2>3, HeadTailOfSubSeq
  <2> QED
    BY <1>5, <2>1, <2>4, <2>5
<1>11. SameOptions(Part(t), p)
  <2>1. p[1] = line[1] /\ p # <<>>
    BY <1>5, <1>6, EmptySeq DEF k
  <2> QED
    BY <1>3, <1>5, <1>10, <2>1, TailSame
<1>12. Start(line) \in 2 .. n + 1 /\ (HasExt(line) <=> Start(line) <= n) /\ Start(line) + 1 = m + 2
  <2>1. Start(line) = k + 1 /\ (HasExt(line) <=> k < n)
    BY DEF Start, HasExt, k, p
  <2> QED
    BY <1>2, <1>5, <1>6, <2>1
<1>13. ~HasExt(line) => Rest(line) = <<>>
  <2>1. ~HasExt(line) => n < m + 2 /\ n \in Int /\ m + 2 \in Int
    BY <1>2, <1>12
  <2> QED
    BY <1>5, <2>1, SubSeqEmpty
<1> QED
  BY <1>2, <1>3, <1>5, <1>9, <1>10, <1>11, <1>12, <1>13 DEF p, k, t

LEMMA NewOptionsAre ==
  ASSUME NEW class \in Classes
  PROVE  LET r == NewOptions(class)
         IN  /\ r \in Objects /\ r.action = DefaultAction[class] /\ r.action \in ActionsOf(class)
             /\ r.casts = "strict" /\ r.help_ext_func = FALSE /\ r.ext_func_name = NoPath
             /\ r.argc = 0 /\ r.ext_argc = 0 /\ r.ext_argv = 0
<1>1. DefaultAction[class] \in ActionNames
  BY ClassesAre
<1>2. NoPath \in Seq(Words)
  BY FuncNamesAre
<1>3. DefaultAction[class] \in ActionsOf(class)
  BY DEF ActionsOf
<1> QED
  BY <1>1, <1>2, <1>3 DEF NewOptions, Objects

(* What main reads from a command line, and what it makes of it.           *)
InputArgs(line) == Inputs(Tail(Part(line)))

MainOf(line, m) ==
  /\ m \in Objects
  /\ m.action = ActionAsked("program", Part(line))
  /\ m.help_ext_func <=> "help_ext_func" \in KeysOf(Part(line))
  /\ m.home_dir = DirName(line[1].path)
  /\ m.argc = Len(InputArgs(line)) /\ m.argv \in Nat \ {0} /\ m.argv + m.argc = Start(line)
  /\ HasExt(line) => m.ext_argv = Start(line) /\ m.ext_argc = Len(line) + 1 - Start(line)
  /\ ~HasExt(line) => m.ext_argv = 0 /\ m.ext_argc = 0
  /\ m.ext_func_name = NoPath <=> NameAsked(line) = NoPath

ArgvOf(line, m, a) ==
  /\ a \in Seq(Args) /\ Len(a) = Len(line)
  /\ \A j \in 1 .. Len(InputArgs(line)) : a[m.argv + j - 1] = InputArgs(line)[j]
  /\ HasExt(line) /\ NameAsked(line) # NoPath => a[Start(line)].is = "text"

(* ... before the extension is called.                                     *)
Untouched(line, m, a) ==
  /\ m.ext_func_name = NameAsked(line)
  /\ HasExt(line) => /\ a[Start(line)] = NameArg(NameAsked(line))
                     /\ \A j \in Start(line) + 1 .. Len(line) : a[j] = line[j]

LEMMA NameIs ==
  ASSUME NEW line \in CommandLines
  PROVE  /\ ActionAsked("program", Part(line)) \in ActionsOf("program")
         /\ NameAsked(line) \in Seq(Words)
         /\ NameAsked(line) = NoPath <=> ActionAsked("program", Part(line)) = "none"
         /\ Function(line) = FileOf(DirName(line[1].path), NameAsked(line))
<1> DEFINE act == ActionAsked("program", Part(line))
           new == NewOptions("program")
           set == ParseOpts("program", new, Opts(Part(line)))
<1>1. "program" \in Classes /\ Part(line) \in Seq(Args)
  BY LineIs DEF Classes
<1>2. new \in Objects /\ new.action = DefaultAction["program"] /\ new.action \in ActionsOf("program")
  BY <1>1, NewOptionsAre
<1>3. SameOptions(Part(line), Part(line))
  BY DEF SameOptions
<1> HIDE DEF act, new, set
<1>4. set.action = act /\ (act = "ext_func" => FuncAsked(Part(line)) \in Paths)
  BY <1>1, <1>2, <1>3, SetAsAsked DEF act, set
<1>5. act \in ActionsOf("program")
  BY <1>1, <1>2, <1>4, StaysInClass DEF set
<1>6. NameAsked(line) = IF act = "ext_func" THEN FuncAsked(Part(line)) ELSE ExtFuncName("program", act)
  BY DEF NameAsked, act
<1>7. Function(line) = FileOf(DirName(line[1].path), NameAsked(line))
  BY DEF Function, NameAsked
<1>8. NameAsked(line) \in Seq(Words) /\ (NameAsked(line) = NoPath <=> act = "none")
  <2>1. CASE act = "ext_func"
    BY <1>4, <1>6, <2>1, PathsAre
  <2>2. CASE act = "none"
    BY <1>6, <2>2, FuncNamesAre
  <2>3. CASE act \in Printing
    <3>1. act # "ext_func" /\ act # "none"
      BY <2>3 DEF Printing
    <3>2. ProgramFuncs[act] \in Paths /\ ExtFuncName("program", act) = ProgramFuncs[act]
      BY <2>3, FuncNamesAre
    <3> QED
      BY <1>6, <3>1, <3>2, PathsAre
  <2> QED
    BY <1>5, <2>1, <2>2, <2>3, ActionsOfAre
<1> QED
  BY <1>5, <1>7, <1>8 DEF act

LEMMA MainParsed ==
  ASSUME NEW line \in CommandLines,
         NEW m, m = Parsed("program", NewOptions("program"), line, 1, Len(line)),
         NEW a, a = ParsedArgs(m, line, 1, Len(line))
  PROVE  MainOf(line, m) /\ ArgvOf(line, m, a) /\ Untouched(line, m, a)
<1> DEFINE n == Len(line)
           t == SubSeq(line, 2, Len(line))
           p == Part(line)
           k == Len(Part(line)) - 1
           new == NewOptions("program")
           opts == Opts(Tail(p))
           d == Start(line)
           act == ActionAsked("program", p)
<1>1. /\ line \in Seq(Args) /\ n \in Nat \ {0} /\ p \in Seq(Args)
      /\ d \in 2 .. n + 1 /\ (HasExt(line) <=> d <= n)
      /\ IsRegion(line, 1, n, t, k)
      /\ Part(t) = Tail(p) /\ SameOptions(Part(t), p)
      /\ line[1].path \in Paths
  BY LineIs
<1>2. d = k + 2 /\ k \in Nat
  BY <1>1 DEF Start
<1>3. "program" \in Classes
  BY DEF Classes
<1>4. /\ new \in Objects /\ new.action = DefaultAction["program"] /\ new.action \in ActionsOf("program")
      /\ new.help_ext_func = FALSE /\ new.ext_argc = 0 /\ new.ext_argv = 0
  BY <1>3, NewOptionsAre
<1> HIDE DEF n, t, p, k, new, opts, d, act
<1>5. IsCall("program", new, line, 1, n, p) /\ OwnOpts(line, 1, n) = opts
  <2>1. IsCall("program", new, line, 1, n, p) /\ OwnOpts(line, 1, n) = Opts(Part(t))
    BY <1>1, <1>3, <1>4, CallInRegion
  <2>2. opts = Opts(Part(t))
    BY <1>1, Zenon DEF opts
  <2> QED
    BY <2>1, <2>2
<1>6. m = Parsed("program", new, line, 1, n) /\ a = ParsedArgs(m, line, 1, n)
  BY DEF new, n
<1>7. /\ t \in Seq(Args) /\ k \in 0 .. n - 1 /\ Len(t) = n - 1
      /\ HasDashes(line, 1, n) <=> k < Len(t)
      /\ HasDashes(line, 1, n) => FirstDashes(line, 1, n) = 1 + k + 1
      /\ Own(line, 1, n) = k + 1
  BY <1>1, RegionIs
<1>8. IsPartLen(t, k)
  BY <1>1 DEF IsRegion
<1>9. Part(t) \in Seq(Args) /\ Len(Part(t)) = k
  BY <1>7, <1>8, PartLenDecides
<1>10. HasDashes(line, 1, n) <=> HasExt(line)
  BY <1>1, <1>2, <1>7
<1>11. /\ m \in Objects
       /\ m.home_dir = DirName(line[1].path)
       /\ m.argv = 1 + 1 + Len(opts) /\ m.argc = Own(line, 1, n) - 1 - Len(opts)
       /\ HasExt(line) => m.ext_argv = 1 + k + 1 /\ m.ext_argc = 1 + n - (1 + k + 1)
       /\ ~HasExt(line) => m.ext_argv = 0 /\ m.ext_argc = 0
       /\ m.action = act
       /\ m.action = "ext_func" /\ act = "ext_func" => m.ext_func_name = FuncAsked(p)
       /\ m.action # "ext_func" => m.ext_func_name = ExtFuncName("program", m.action)
       /\ m.help_ext_func <=> "help_ext_func" \in KeysOf(p)
  <2>1. n # 0
    BY <1>1
  <2> QED
    BY <1>4, <1>5, <1>6, <1>7, <1>10, <2>1, ParsedIs DEF act
<1>12. /\ opts \in Seq(Args) /\ InputArgs(line) \in Seq(Args) /\ Len(opts) \in Nat
       /\ Len(InputArgs(line)) \in Nat /\ Len(opts) + Len(InputArgs(line)) = k
       /\ Permuted(Part(t)) = opts \o InputArgs(line)
  <2>1. Opts(Part(t)) = opts /\ Inputs(Part(t)) = InputArgs(line)
    BY <1>1 DEF opts, InputArgs, p
  <2>2. /\ Opts(Part(t)) \in Seq(Args) /\ Inputs(Part(t)) \in Seq(Args)
        /\ Len(Opts(Part(t))) + Len(Inputs(Part(t))) = Len(Part(t))
    BY <1>9, PermutedIs
  <2>3. \A s \in Seq(Args) : Len(s) \in Nat
    OBVIOUS
  <2>4. Permuted(Part(t)) = opts \o InputArgs(line)
    BY <2>1, Zenon DEF Permuted
  <2> QED
    BY <1>9, <2>1, <2>2, <2>3, <2>4, Zenon
<1>13. /\ m.argv = 2 + Len(opts) /\ m.argc = Len(InputArgs(line)) /\ m.argv + m.argc = d
       /\ m.argv \in Nat \ {0}
       /\ HasExt(line) => m.ext_argv = d /\ m.ext_argc = n + 1 - d
  <2> DEFINE x == Len(opts)
             y == Len(InputArgs(line))
             own == Own(line, 1, n)
  <2>1. x \in Nat /\ y \in Nat /\ x + y = k /\ own = k + 1
    BY <1>7, <1>12, Zenon
  <2>2. /\ m.argv = 1 + 1 + x /\ m.argc = own - 1 - x
        /\ HasExt(line) => m.ext_argv = 1 + k + 1 /\ m.ext_argc = 1 + n - (1 + k + 1)
    BY <1>11, Zenon
  <2> HIDE DEF x, y, own
  <2>3. /\ m.argv = 2 + x /\ m.argc = y /\ m.argv + m.argc = d /\ m.argv \in Nat \ {0}
    BY <1>2, <2>1, <2>2
  <2>4. n \in Nat /\ (HasExt(line) => m.ext_argv = d /\ m.ext_argc = n + 1 - d)
    BY <1>1, <1>2, <2>2
  <2> QED
    BY <2>3, <2>4, Zenon DEF x, y
<1>14. m.ext_func_name = NameAsked(line)
  BY <1>11 DEF NameAsked, act, p
<1>15. MainOf(line, m)
  BY <1>11, <1>13, <1>14 DEF MainOf, d, n, act, p
<1>16. m.ext_argc > 0 <=> HasExt(line)
  BY <1>1, <1>11, <1>13
<1>17. m.ext_argc > 0 => m.ext_argv \in 1 + 1 .. Len(line)
  <2>1. CASE HasExt(line)
    BY <1>1, <1>13, <2>1 DEF n
  <2> QED
    BY <1>16, <2>1
<1>18. /\ a \in Seq(Args) /\ Len(a) = Len(line)
       /\ \A j \in 1 + 1 .. 1 + k :
            ~(m.ext_argc > 0 /\ j = m.ext_argv) => a[j] = Permuted(Part(t))[j - 1]
       /\ \A j \in 1 + k + 1 .. Len(line) :
            ~(m.ext_argc > 0 /\ j = m.ext_argv) => a[j] = line[j]
       /\ m.ext_argc > 0 => a[m.ext_argv] = NameArg(m.ext_func_name)
  <2>1. Rewritten(ParsedArgs(m, line, 1, n), line, 1, t, k, m)
    BY <1>1, <1>11, <1>17, ParsedArgsAre
  <2> QED
    BY <1>6, <2>1, Zenon DEF Rewritten
<1>19. ASSUME NEW j \in 1 .. Len(InputArgs(line))
       PROVE  a[m.argv + j - 1] = InputArgs(line)[j]
  <2> DEFINE x == m.argv + j - 1
  <2>1. /\ x = 2 + Len(opts) + j - 1 /\ x \in 1 + 1 .. 1 + k /\ x - 1 = Len(opts) + j
        /\ x # d
    BY <1>2, <1>12, <1>13, SMTT(30)
  <2>2. ~(m.ext_argc > 0 /\ x = m.ext_argv)
    BY <1>13, <1>16, <2>1
  <2> HIDE DEF x
  <2>3. a[x] = Permuted(Part(t))[Len(opts) + j]
    BY <1>18, <2>1, <2>2
  <2>4. (opts \o InputArgs(line))[Len(opts) + j] = InputArgs(line)[j]
    BY <1>12, ConcatIs
  <2> QED
    BY <1>12, <2>3, <2>4 DEF x
<1>20. HasExt(line) => /\ a[d] = NameArg(NameAsked(line))
                       /\ \A j \in d + 1 .. Len(line) : a[j] = line[j]
  <2> SUFFICES ASSUME HasExt(line)
               PROVE  /\ a[d] = NameArg(NameAsked(line))
                      /\ \A j \in d + 1 .. Len(line) : a[j] = line[j]
    OBVIOUS
  <2>1. a[d] = NameArg(NameAsked(line))
    BY <1>13, <1>14, <1>16, <1>18
  <2>2. ASSUME NEW j \in d + 1 .. Len(line)  PROVE a[j] = line[j]
    <3>1. j \in 1 + k + 1 .. Len(line) /\ j # d
      BY <1>1, <1>2
    <3> QED
      BY <1>13, <1>18, <3>1
  <2> QED
    BY <2>1, <2>2
<1>21. Untouched(line, m, a)
  BY <1>14, <1>20 DEF Untouched, d
<1>22. HasExt(line) /\ NameAsked(line) # NoPath => a[Start(line)].is = "text"
  <2> SUFFICES ASSUME HasExt(line), NameAsked(line) # NoPath  PROVE a[d].is = "text"
    BY DEF d
  <2>1. NameAsked(line) \in Paths
    BY NameIs DEF Paths
  <2>2. NameArg(NameAsked(line)) = Text(NameAsked(line))
    BY <2>1, PathsAre, TextsAre
  <2> QED
    BY <1>20, <2>1, <2>2, TextsAre
<1> QED
  BY <1>15, <1>18, <1>19, <1>21, <1>22 DEF ArgvOf

-----------------------------------------------------------------------------
(* What is asked for, as a sequence.                                       *)

LEMMA FlattenOnes ==
  ASSUME NEW n \in Nat \ {0}, NEW e, NEW s, s = [k \in 1 .. n |-> <<e[k]>>]
  PROVE  FlattenSeq(s) = [k \in 1 .. n |-> e[k]]
<1> DEFINE Flat(f) == f = [j \in 1 .. Len(s) |-> IF j = 1 THEN s[j] ELSE f[j - 1] \o s[j]]
           T == {e[k] : k \in 1 .. n}
           g == [j \in 1 .. n |-> [k \in 1 .. j |-> e[k]]]
           f == CHOOSE f : Flat(f)
<1>1. Len(s) = n /\ \A k \in 1 .. n : s[k] = <<e[k]>>
  OBVIOUS
<1>2. ASSUME NEW j \in 1 .. n  PROVE g[j] \in Seq(T) /\ Len(g[j]) = j /\ \A k \in 1 .. j : g[j][k] = e[k]
  <2>1. g[j] = [k \in 1 .. j |-> e[k]]
    OBVIOUS
  <2>2. \A k \in 1 .. j : e[k] \in T
    OBVIOUS
  <2> HIDE DEF g, T
  <2>3. g[j] \in [1 .. j -> T] /\ j \in Nat
    BY <2>1, <2>2
  <2>4. g[j] \in Seq(T)
    BY <2>3, SeqDef
  <2> QED
    BY <2>1, <2>3, <2>4, LenProperties
<1>3. g[1] = <<e[1]>>
  <2>1. 1 \in 1 .. n
    OBVIOUS
  <2>2. e[1] \in T
    BY <2>1
  <2> HIDE DEF g, T
  <2>3. g[1] \in Seq(T) /\ Len(g[1]) = 1 /\ \A k \in 1 .. 1 : g[1][k] = e[k]
    BY <1>2, <2>1
  <2>4. <<e[1]>> \in Seq(T) /\ Len(<<e[1]>>) = 1 /\ <<e[1]>>[1] = e[1]
    BY <2>2
  <2> QED
    BY <2>3, <2>4, SeqEqual
<1>4. ASSUME NEW j \in 1 .. n, j # 1  PROVE g[j] = g[j - 1] \o <<e[j]>>
  <2>1. j - 1 \in 1 .. n /\ (j - 1) + 1 = j
    BY <1>4
  <2>2. e[j] \in T
    OBVIOUS
  <2> HIDE DEF g, T
  <2>3. g[j - 1] \in Seq(T) /\ Len(g[j - 1]) = j - 1 /\ \A k \in 1 .. j - 1 : g[j - 1][k] = e[k]
    BY <1>2, <2>1
  <2>4. <<e[j]>> \in Seq(T) /\ Len(<<e[j]>>) = 1 /\ <<e[j]>>[1] = e[j]
    BY <2>2
  <2> DEFINE r == g[j - 1] \o <<e[j]>>
  <2>5. /\ r \in Seq(T) /\ Len(r) = j
        /\ \A k \in 1 .. j : r[k] = e[k]
    <3>1. /\ r \in Seq(T) /\ Len(r) = Len(g[j - 1]) + Len(<<e[j]>>)
          /\ \A k \in 1 .. Len(g[j - 1]) + Len(<<e[j]>>) :
               r[k] = IF k <= Len(g[j - 1]) THEN g[j - 1][k] ELSE <<e[j]>>[k - Len(g[j - 1])]
      BY <2>3, <2>4, ConcatProperties
    <3> HIDE DEF r
    <3>2. /\ Len(r) = j
          /\ \A k \in 1 .. j : r[k] = IF k <= j - 1 THEN g[j - 1][k] ELSE <<e[j]>>[k - (j - 1)]
      BY <2>1, <2>3, <2>4, <3>1
    <3>3. ASSUME NEW k \in 1 .. j  PROVE r[k] = e[k]
      <4>1. CASE k <= j - 1
        <5>1. k \in 1 .. j - 1
          BY <2>1, <4>1
        <5> QED
          BY <2>3, <3>2, <4>1, <5>1
      <4>2. CASE ~(k <= j - 1)
        <5>1. k = j /\ k - (j - 1) = 1
          BY <4>2
        <5> QED
          BY <2>4, <3>2, <4>2, <5>1
      <4> QED
        BY <4>1, <4>2
    <3> QED
      BY <3>1, <3>2, <3>3
  <2> HIDE DEF r
  <2>6. g[j] \in Seq(T) /\ Len(g[j]) = j /\ \A k \in 1 .. j : g[j][k] = e[k]
    BY <1>2
  <2>7. g[j] = r
    BY <2>5, <2>6, SeqEqual, ZenonT(30)
  <2> QED
    BY <2>7 DEF r
<1>5. Flat(g)
  <2>1. \A j \in 1 .. n : g[j] = IF j = 1 THEN s[j] ELSE g[j - 1] \o s[j]
    <3> HIDE DEF g, T
    <3> QED
      BY <1>1, <1>3, <1>4
  <2>2. \E h : g = [j \in 1 .. n |-> h[j]]
    <3> HIDE DEF f
    <3>1. \A j \in 1 .. n : g[j] = [k \in 1 .. j |-> e[k]]
      OBVIOUS
    <3>2. g = [j \in 1 .. n |-> g[j]]
      BY <3>1
    <3> QED
      BY <3>2
  <2> HIDE DEF g
  <2> QED
    BY <1>1, <2>1, <2>2
<1>6. Flat(f)
  <2> HIDE DEF Flat, g
  <2> QED
    BY <1>5, Zenon
<1>7. FlattenSeq(s) = f[n]
  BY <1>1 DEF FlattenSeq
<1> HIDE DEF f
<1> DEFINE S == {j \in 0 .. n : j = 0 \/ f[j] = g[j]}
<1>8. n \in Nat /\ 0 \in S
  OBVIOUS
<1>9. ASSUME NEW j \in 1 .. n, j - 1 \in S  PROVE j \in S
  <2>1. f[j] = IF j = 1 THEN s[j] ELSE f[j - 1] \o s[j]
    BY <1>1, <1>6
  <2>2. f[j] = g[j]
    <3> HIDE DEF g
    <3>1. CASE j = 1
      BY <1>1, <1>3, <2>1, <3>1
    <3>2. CASE j # 1
      <4>1. f[j - 1] = g[j - 1]
        BY <1>9, <3>2
      <4> QED
        BY <1>1, <1>4, <2>1, <3>2, <4>1
    <3> QED
      BY <3>1, <3>2
  <2> HIDE DEF g
  <2> QED
    BY <2>2
<1>10. n \in S
  <2> HIDE DEF S
  <2>1. 0 .. n \subseteq S
    BY <1>8, <1>9, UpTo
  <2> QED
    BY <1>8, <2>1
<1>11. f[n] = g[n]
  <2> HIDE DEF g
  <2> QED
    BY <1>10
<1> QED
  BY <1>7, <1>11

LEMMA FlattenNone ==
  ASSUME NEW n \in Nat \ {0}, NEW s, s = [k \in 1 .. n |-> <<>>]
  PROVE  FlattenSeq(s) = <<>>
<1> DEFINE Flat(f) == f = [j \in 1 .. Len(s) |-> IF j = 1 THEN s[j] ELSE f[j - 1] \o s[j]]
           f == CHOOSE f : Flat(f)
<1>1. Len(s) = n /\ \A k \in 1 .. n : s[k] = <<>>
  OBVIOUS
<1>0. <<>> \o <<>> = <<>>
  BY EmptySeq, ConcatEmptySeq
<1>2. Flat(s)
  <2>1. ASSUME NEW j \in 1 .. n  PROVE s[j] = IF j = 1 THEN s[j] ELSE s[j - 1] \o s[j]
    <3>1. j # 1 => j - 1 \in 1 .. n
      OBVIOUS
    <3>2. j # 1 => s[j - 1] = <<>> /\ s[j] = <<>>
      BY <1>1, <3>1
    <3> QED
      BY <1>0, <3>2
  <2>2. s = [j \in 1 .. n |-> s[j]]
    BY <1>1
  <2> QED
    BY <1>1, <2>1, <2>2
<1>3. Flat(f)
  <2> HIDE DEF Flat
  <2> QED
    BY <1>2, Zenon
<1>4. FlattenSeq(s) = f[n]
  BY <1>1 DEF FlattenSeq
<1> HIDE DEF f
<1> DEFINE S == {j \in 0 .. n : j = 0 \/ f[j] = <<>>}
<1>5. n \in Nat /\ 0 \in S
  OBVIOUS
<1>6. ASSUME NEW j \in 1 .. n, j - 1 \in S  PROVE j \in S
  <2>1. f[j] = IF j = 1 THEN s[j] ELSE f[j - 1] \o s[j]
    BY <1>1, <1>3
  <2>2. s[j] = <<>>
    BY <1>1
  <2>3. f[j] = <<>>
    <3>1. CASE j = 1
      BY <2>1, <2>2, <3>1
    <3>2. CASE j # 1
      <4>1. f[j - 1] = <<>>
        BY <1>6, <3>2
      <4> QED
        BY <1>0, <2>1, <2>2, <3>2, <4>1
    <3> QED
      BY <3>1, <3>2
  <2> QED
    BY <2>3
<1>7. n \in S
  <2> HIDE DEF S
  <2>1. 0 .. n \subseteq S
    BY <1>5, <1>6, UpTo
  <2> QED
    BY <1>5, <2>1
<1> QED
  BY <1>4, <1>7

(* Nothing is done with an input.                                          *)
Silent(line) ==
  \/ ActionAsked("program", Part(line)) = "none"
  \/ /\ ActionAsked("program", Part(line)) = "ext_func"
     /\ Function(line) \in DOMAIN Modules /\ Modules[Function(line)].class = "typelib"
     /\ ActionAsked("typelib", Part(Rest(line))) = "print_obj"
     /\ "help_ext_func" \in KeysOf(Part(Rest(line)))

NestedActions == {"print_obj", "ext_func"}

(* The function that a type library is asked to call.                      *)
NestedAsked(line) ==
  LET own == Part(Rest(line))
  IN  FileOf(DirName(FuncAsked(Part(line))),
             IF ActionAsked("typelib", own) = "ext_func" THEN FuncAsked(own)
             ELSE ExtFuncName("typelib", "print_obj"))

LEMMA LastOfFile ==
  ASSUME NEW dir \in Paths, NEW act \in Printing,
         NEW f, f = FileOf(dir, ProgramFuncs[act]), f \in DOMAIN Modules
  PROVE  \/ Modules[f].class = "printer" /\ Modules[f].act = act
         \/ Modules[f].class = "nodes"
<1>1. ProgramFuncs[act] = <<ProgramFuncs[act][1]>> /\ ProgramFuncs[act] \in Seq(Words)
  BY FuncNamesAre DEF Paths
<1>2. act \in DOMAIN ProgramFuncs \ {"none"}
  BY FuncNamesAre
<1>3. PICK w \in Words : ProgramFuncs[act] = <<w>>
  <2>1. ProgramFuncs[act] # <<>>
    BY FuncNamesAre DEF Paths, NoPath
  <2>2. Len(ProgramFuncs[act]) # 0
    BY <1>1, <2>1, EmptySeq
  <2>3. ASSUME NEW s \in Seq(Words), Len(s) # 0  PROVE s[1] \in Words
    <3>1. Len(s) \in Nat
      OBVIOUS
    <3>2. 1 \in 1 .. Len(s)
      BY <2>3, <3>1
    <3> QED
      BY <3>2, ElementOfSeq
  <2> QED
    BY <1>1, <2>2, <2>3
<1>4. f = dir \o <<w>>
  <2>1. Len(<<w>>) = 1
    OBVIOUS
  <2> QED
    BY <1>3, <2>1 DEF FileOf
<1>5. f[Len(f)] = w
  <2>1. dir \in Seq(Words)
    BY PathsAre
  <2>2. Len(f) = Len(dir) + 1 /\ f[Len(dir) + 1] = w
    BY <1>4, <2>1
  <2> QED
    BY <2>2
<1>6. f[Len(f)] = ProgramFuncs[act][1]
  <2>1. <<w>>[1] = w
    OBVIOUS
  <2> QED
    BY <1>3, <1>5, <2>1
<1> QED
  BY <1>2, <1>6, ModulesAssumption

LEMMA FunctionIs ==
  ASSUME NEW line \in CommandLines, Function(line) \in DOMAIN Modules
  PROVE  /\ Function(line) \in Paths
         /\ Modules[Function(line)].class \in {"printer", "typelib", "user"}
         /\ Modules[Function(line)].class = "printer" =>
              Modules[Function(line)].act \in {"printer"} \cup Printing
         /\ ActionAsked("program", Part(line)) \in Printing =>
              /\ Modules[Function(line)].class = "printer"
              /\ Modules[Function(line)].act = ActionAsked("program", Part(line))
<1> DEFINE f == Function(line)
           act == ActionAsked("program", Part(line))
<1>1. f \in Paths /\ Modules[f].class \in {"printer", "typelib", "nodes", "user"}
      /\ (Modules[f].class = "printer" =>
            Modules[f].act \in {"printer", "print", "dump", "pretty_print", "terse_print"})
  BY ModulesAssumption
<1>2. Modules[f].class # "nodes"
  BY LinesAssumption
<1>3. ASSUME act \in Printing
      PROVE  Modules[f].class = "printer" /\ Modules[f].act = act
  <2>1. act # "ext_func"
    BY <1>3 DEF Printing
  <2>2. NameAsked(line) = ProgramFuncs[act]
    BY <1>3, <2>1, FuncNamesAre DEF NameAsked
  <2>3. f = FileOf(DirName(line[1].path), ProgramFuncs[act])
    BY <2>2, NameIs
  <2>4. DirName(line[1].path) \in Paths
    BY LineIs, PathsAre
  <2> HIDE DEF f, act
  <2>5. f \in DOMAIN Modules
    BY DEF f
  <2> QED
    BY <1>2, <1>3, <2>3, <2>4, <2>5, LastOfFile
<1> QED
  BY <1>1, <1>2, <1>3 DEF Printing

(* What is asked for an input, case by case.                               *)
LEMMA InputAskedIs ==
  ASSUME NEW line \in CommandLines, NEW input
  PROVE  LET act  == ActionAsked("program", Part(line))
             func == Function(line)
             rest == Rest(line)
             asked == InputAsked(input, line)
         IN  /\ act = "none" => asked = <<>>
             /\ act \in Printing => asked = <<Entry(func, act, input, "", <<>>)>>
             /\ act = "ext_func" /\ func \notin DOMAIN Modules =>
                  asked = <<Entry(func, act, input, "", <<>>)>>
             /\ act = "ext_func" /\ func \in DOMAIN Modules =>
                  /\ Modules[func].class = "user" => asked = <<Entry(func, "user", input, "", rest)>>
                  /\ Modules[func].class = "printer" =>
                       asked = <<Entry(func, IF Modules[func].act = "printer"
                                               THEN ActionAsked("printer", Part(rest))
                                               ELSE Modules[func].act, input, "", <<>>)>>
                  /\ Modules[func].class = "typelib" =>
                       asked = TypelibAsked(func, DirName(FuncAsked(Part(line))), input, rest)
<1> DEFINE act  == ActionAsked("program", Part(line))
           func == Function(line)
           rest == Rest(line)
           asked == InputAsked(input, line)
           tasked == TypelibAsked(func, DirName(FuncAsked(Part(line))), input, rest)
<1>1. asked =
        CASE act = "none" -> <<>>
        [] act \notin {"none", "ext_func"} -> <<Entry(func, act, input, "", <<>>)>>
        [] act = "ext_func" /\ func \notin DOMAIN Modules -> <<Entry(func, act, input, "", <<>>)>>
        [] act = "ext_func" /\ func \in DOMAIN Modules ->
             CASE Modules[func].class = "typelib" -> tasked
               [] Modules[func].class = "user"    -> <<Entry(func, "user", input, "", rest)>>
               [] Modules[func].class = "printer" ->
                    <<Entry(func, IF Modules[func].act = "printer"
                                    THEN ActionAsked("printer", Part(rest))
                                    ELSE Modules[func].act, input, "", <<>>)>>
  BY DEF InputAsked
<1> HIDE DEF act, func, rest, asked, tasked
<1>2. act \in Printing => act \notin {"none", "ext_func"}
  BY DEF Printing
<1>3. act = "none" => asked = <<>>
  BY <1>1
<1>4. act \in Printing => asked = <<Entry(func, act, input, "", <<>>)>>
  BY <1>1, <1>2
<1>5. act = "ext_func" /\ func \notin DOMAIN Modules =>
        asked = <<Entry(func, act, input, "", <<>>)>>
  BY <1>1
<1>6. ASSUME act = "ext_func", func \in DOMAIN Modules
      PROVE  /\ Modules[func].class = "user" => asked = <<Entry(func, "user", input, "", rest)>>
             /\ Modules[func].class = "printer" =>
                  asked = <<Entry(func, IF Modules[func].act = "printer"
                                          THEN ActionAsked("printer", Part(rest))
                                          ELSE Modules[func].act, input, "", <<>>)>>
             /\ Modules[func].class = "typelib" => asked = tasked
  BY <1>1, <1>6
<1> QED
  BY <1>3, <1>4, <1>5, <1>6 DEF act, func, rest, asked, tasked

TypelibCases(asked, func, dir, input, parts) ==
  LET own == Part(parts)
      act == ActionAsked("typelib", own)
  IN  /\ act \in ActionsOf("typelib")
      /\ act = "print_types" => asked = <<Entry(func, act, input, "", <<>>)>>
      /\ act \in {"type_check", "ast_build"} =>
           asked = <<Entry(func, act, input, CastsAsked(own), <<>>)>>
      /\ act = "print_obj" /\ "help_ext_func" \in KeysOf(own) => asked = <<>>
      /\ act = "print_obj" /\ "help_ext_func" \notin KeysOf(own) =>
           asked = <<Entry(FileOf(dir, ExtFuncName("typelib", act)), "print", input,
                           CastsAsked(own), <<>>)>>
      /\ act = "ext_func" =>
           asked = <<Entry(FileOf(dir, FuncAsked(own)), "user", input,
                           CastsAsked(own), Rest(parts))>>

LEMMA TypelibAskedIs ==
  ASSUME NEW func, NEW dir, NEW input, NEW parts \in Seq(Args)
  PROVE  TypelibCases(TypelibAsked(func, dir, input, parts), func, dir, input, parts)
<1> DEFINE own == Part(parts)
           act == ActionAsked("typelib", own)
           asked == TypelibAsked(func, dir, input, parts)
<1>1. asked =
       CASE act = "print_types" -> <<Entry(func, act, input, "", <<>>)>>
        [] act = "print_obj" ->
             IF "help_ext_func" \in KeysOf(own) THEN <<>>
             ELSE <<Entry(FileOf(dir, ExtFuncName("typelib", act)), "print", input,
                          CastsAsked(own), <<>>)>>
        [] act = "ext_func" ->
             <<Entry(FileOf(dir, FuncAsked(own)), "user", input, CastsAsked(own), Rest(parts))>>
        [] OTHER -> <<Entry(func, act, input, CastsAsked(own), <<>>)>>
  BY DEF TypelibAsked
<1>2. act \in ActionsOf("typelib")
  <2>1. own \in Seq(Args)
    BY PartIs, PartLenDecides
  <2>2. "typelib" \in Classes /\ DefaultAction["typelib"] \in ActionsOf("typelib")
    BY DEF Classes, ActionsOf
  <2>3. ASSUME NEW x, LastIn(own, Len(own), ActKeys("typelib"), x)
        PROVE  ActionOf("typelib", x) \in ActionsOf("typelib")
    <3>1. x.key \in ActKeys("typelib")
      <4>1. Len(own) \in Nat
        BY <2>1
      <4> QED
        BY <2>3, <4>1, LastIsOne DEF Wanted
    <3> QED
      BY <3>1 DEF ActKeys, ActionOf, ActionsOf
  <2> HIDE DEF own
  <2> QED
    BY <2>1, <2>2, <2>3, AskedIs
<1> HIDE DEF own, act, asked
<1>3. act = "print_types" => asked = <<Entry(func, act, input, "", <<>>)>>
  BY <1>1
<1>4. act \in {"type_check", "ast_build"} =>
        asked = <<Entry(func, act, input, CastsAsked(own), <<>>)>>
  BY <1>1
<1>5. /\ act = "print_obj" /\ "help_ext_func" \in KeysOf(own) => asked = <<>>
      /\ act = "print_obj" /\ "help_ext_func" \notin KeysOf(own) =>
                  asked = <<Entry(FileOf(dir, ExtFuncName("typelib", act)), "print", input,
                                  CastsAsked(own), <<>>)>>
  BY <1>1
<1>6. act = "ext_func" =>
        asked = <<Entry(FileOf(dir, FuncAsked(own)), "user", input,
                                  CastsAsked(own), Rest(parts))>>
  BY <1>1
<1> QED
  BY <1>2, <1>3, <1>4, <1>5, <1>6 DEF own, act, asked, TypelibCases

(* One thing is done for each input, or none for any.                      *)
EntryAsked(input, line) == InputAsked(input, line)[1]

LEMMA OneEach ==
  ASSUME NEW line \in CommandLines, NEW input
  PROVE  InputAsked(input, line) = IF Silent(line) THEN <<>> ELSE <<EntryAsked(input, line)>>
<1> DEFINE act  == ActionAsked("program", Part(line))
           func == Function(line)
           own  == Part(Rest(line))
           tact == ActionAsked("typelib", own)
           asked == InputAsked(input, line)
<1>1. \A e : <<e>>[1] = e
  OBVIOUS
<1>2. (\E e : asked = <<e>>) => asked = <<EntryAsked(input, line)>>
  <2> SUFFICES ASSUME NEW e, asked = <<e>>  PROVE asked = <<EntryAsked(input, line)>>
    OBVIOUS
  <2> QED
    BY <1>1 DEF EntryAsked
<1>3. act \in {"none", "ext_func"} \cup Printing
  BY NameIs, ActionsOfAre
<1>4. Silent(line) <=>
        \/ act = "none"
        \/ /\ act = "ext_func" /\ func \in DOMAIN Modules /\ Modules[func].class = "typelib"
           /\ tact = "print_obj" /\ "help_ext_func" \in KeysOf(own)
  BY DEF Silent
<1>a. /\ act = "none" => asked = <<>>
      /\ act \in Printing => \E e : asked = <<e>>
      /\ act = "ext_func" /\ func \notin DOMAIN Modules => \E e : asked = <<e>>
      /\ act = "ext_func" /\ func \in DOMAIN Modules =>
           /\ Modules[func].class = "user" => \E e : asked = <<e>>
           /\ Modules[func].class = "printer" => \E e : asked = <<e>>
           /\ Modules[func].class = "typelib" =>
                asked = TypelibAsked(func, DirName(FuncAsked(Part(line))), input, Rest(line))
  BY InputAskedIs, Zenon
<1>b. Rest(line) \in Seq(Args)
  BY LineIs
<1> DEFINE tasked == TypelibAsked(func, DirName(FuncAsked(Part(line))), input, Rest(line))
<1>c. /\ tact \in ActionsOf("typelib")
      /\ tact = "print_types" => \E e : tasked = <<e>>
      /\ tact \in {"type_check", "ast_build"} => \E e : tasked = <<e>>
      /\ tact = "print_obj" /\ "help_ext_func" \in KeysOf(own) => tasked = <<>>
      /\ tact = "print_obj" /\ "help_ext_func" \notin KeysOf(own) => \E e : tasked = <<e>>
      /\ tact = "ext_func" => \E e : tasked = <<e>>
  <2> DEFINE dir == DirName(FuncAsked(Part(line)))
             e1 == Entry(func, tact, input, "", <<>>)
             e2 == Entry(func, tact, input, CastsAsked(own), <<>>)
             e3 == Entry(FileOf(dir, ExtFuncName("typelib", tact)), "print", input,
                         CastsAsked(own), <<>>)
             e4 == Entry(FileOf(dir, FuncAsked(own)), "user", input,
                         CastsAsked(own), Rest(Rest(line)))
  <2>1. /\ tact \in ActionsOf("typelib")
        /\ tact = "print_types" => tasked = <<e1>>
        /\ tact \in {"type_check", "ast_build"} => tasked = <<e2>>
        /\ tact = "print_obj" /\ "help_ext_func" \in KeysOf(own) => tasked = <<>>
        /\ tact = "print_obj" /\ "help_ext_func" \notin KeysOf(own) => tasked = <<e3>>
        /\ tact = "ext_func" => tasked = <<e4>>
    <3>1. TypelibCases(tasked, func, dir, input, Rest(line))
      BY <1>b, TypelibAskedIs
    <3> HIDE DEF tasked
    <3> QED
      BY <3>1 DEF TypelibCases
  <2> HIDE DEF e1, e2, e3, e4, tasked, own, tact
  <2> QED
    BY <2>1
<1>d. func \in DOMAIN Modules => Modules[func].class \in {"printer", "typelib", "user"}
  BY FunctionIs
<1> DEFINE want == IF Silent(line) THEN <<>> ELSE <<EntryAsked(input, line)>>
<1> HIDE DEF act, func, own, tact, asked, tasked
<1> SUFFICES asked = want
  BY DEF asked
<1>5. CASE act = "none"
  BY <1>4, <1>5, <1>a
<1>6. CASE act \in Printing \/ (act = "ext_func" /\ func \notin DOMAIN Modules)
  <2>1. act # "none" /\ ~(act = "ext_func" /\ func \in DOMAIN Modules)
    BY <1>6 DEF Printing
  <2> QED
    BY <1>2, <1>4, <1>6, <1>a, <2>1
<1>7. CASE act = "ext_func" /\ func \in DOMAIN Modules
  <2>1. CASE Modules[func].class \in {"printer", "user"}
    BY <1>2, <1>4, <1>7, <1>a, <2>1
  <2>2. CASE Modules[func].class = "typelib"
    <3>1. tact \in {"type_check", "ast_build", "print_obj", "print_types", "ext_func"}
      BY <1>c, ActionsOfAre
    <3>2. IF tact = "print_obj" /\ "help_ext_func" \in KeysOf(own)
          THEN asked = <<>> ELSE \E e : asked = <<e>>
      <4>1. asked = tasked
        BY <1>7, <1>a, <2>2, Zenon DEF tasked
      <4>2. CASE tact = "print_obj"
        BY <1>c, <4>1, <4>2
      <4>3. CASE tact # "print_obj"
        BY <1>c, <3>1, <4>1, <4>3
      <4> QED
        BY <4>2, <4>3, Zenon
    <3> QED
      BY <1>2, <1>4, <1>7, <2>2, <3>2
  <2> QED
    BY <1>7, <1>d, <2>1, <2>2
<1> QED
  <2>1. act = "none" \/ act \in Printing \/ act = "ext_func"
    BY <1>3
  <2> HIDE DEF want
  <2>2. CASE act = "none"
    BY <1>5, <2>2
  <2>3. CASE act \in Printing
    BY <1>6, <2>3, Zenon
  <2>4. CASE act = "ext_func"
    BY <1>6, <1>7, <2>4
  <2> QED
    BY <2>1, <2>2, <2>3, <2>4
-----------------------------------------------------------------------------
(* The inductive invariants.                                               *)

(* An object of an extension: what it keeps of where its extension's       *)
(* command line was lies in its own.                                       *)
LibOf(line, obj) ==
  /\ obj \in Objects /\ obj.ext_argc >= 0
  /\ obj.ext_argc > 0 => obj.ext_argv \in Start(line) + 1 .. Len(line)

Class == Modules[mainFunc].class

Unparsed ==
  /\ main = NewOptions("program") /\ argv = cmd /\ i = 0 /\ runs = <<>>
  /\ mainFunc = NoPath /\ nodeFunc = NoPath

StateOf ==
  /\ cmd \in CommandLines
  /\ pc \in {"start", "loop", "run", "user", "parse", "act", "nested", "ended"}
  /\ code \in Int /\ (pc = "ended") = (code # -1)
  /\ \/ pc \in {"start", "ended"} /\ Unparsed
     \/ pc # "start" /\ MainOf(cmd, main) /\ ArgvOf(cmd, main, argv)
  /\ i \in 0 .. Calls /\ LibOf(cmd, lib)

FuncOf ==
  /\ mainFunc # NoPath =>
       /\ mainFunc = Function(cmd) /\ mainFunc \in DOMAIN Modules /\ NameAsked(cmd) # NoPath
       /\ Class # "user" => lib.action \in ActionsOf(Class)
  /\ mainFunc = NoPath =>
       /\ pc \in {"start", "loop", "run", "ended"} /\ nodeFunc = NoPath
       /\ pc \in {"loop", "run"} => Untouched(cmd, main, argv)
  /\ pc \in {"run", "user", "parse", "act", "nested"} => i >= 1
  /\ pc = "user" => Class = "user"
  /\ pc \in {"parse", "act"} => Class # "user"
  /\ pc = "nested" => Class = "typelib"

TInv == StateOf /\ FuncOf

(* What an extension is asked by its part of the command line.             *)
ExtPart(line)   == Part(Rest(line))
HasNested(line) == Len(ExtPart(line)) < Len(Rest(line))
Second(line)    == Start(line) + Len(ExtPart(line)) + 1

ObjectOf(class, line, obj) ==
  /\ obj.action = ActionAsked(class, ExtPart(line))
  /\ class = "typelib" => obj.casts = CastsAsked(ExtPart(line))
  /\ obj.help_ext_func <=> "help_ext_func" \in KeysOf(ExtPart(line))

(* ... and argv, once it has parsed it.                                    *)
ExtArgvOf(line, a, obj) ==
  /\ ~HasNested(line) =>
       /\ obj.ext_argv = 0 /\ obj.ext_argc = 0
       /\ HasExt(line) => SameOptions(SubSeq(a, Start(line) + 1, Len(line)), Rest(line))
       /\ \A j \in Start(line) + 1 .. Len(line) : a[j] \notin {Dashes, NullArg}
  /\ HasNested(line) =>
       /\ obj.ext_argv = Second(line) /\ obj.ext_argc = Len(line) + 1 - Second(line)
       /\ a[Second(line)] = NameArg(obj.ext_func_name)
       /\ \A j \in Start(line) + 1 .. Second(line) - 1 : a[j] # Dashes
       /\ \A j \in Second(line) + 1 .. Len(line) : a[j] = line[j]

Fresh ==
  /\ i = 1 /\ lib = NewOptions(Class) /\ nodeFunc = NoPath
  /\ Untouched(cmd, main, argv)

Settled ==
  /\ ObjectOf(Class, cmd, lib) /\ ExtArgvOf(cmd, argv, lib)
  /\ nodeFunc = NoPath \/ nodeFunc = NestedAsked(cmd)
  /\ lib.action # "ext_func" => lib.ext_func_name = ExtFuncName(Class, lib.action)
  /\ pc \in {"act", "nested"} /\ nodeFunc = NoPath /\ Class = "typelib" /\ lib.action \in NestedActions =>
       FileOf(lib.home_dir, lib.ext_func_name) = NestedAsked(cmd)
  /\ pc \in {"loop", "run", "parse"} =>
       /\ Class = "printer" => lib.action # "ext_func"
       /\ Class = "typelib" /\ nodeFunc = NoPath => lib.action \notin NestedActions
  /\ pc \in {"run", "parse"} => i >= 2
  /\ pc = "loop" => i >= 1
  /\ pc = "nested" => lib.action \in NestedActions /\ HasAst

RunsUpTo(n) == IF Silent(cmd) THEN <<>> ELSE SubSeq(Asked(cmd), 1, n)

DoneOf ==
  /\ pc = "start" => runs = <<>>
  /\ pc = "loop" => runs = RunsUpTo(i)
  /\ pc \in {"run", "user", "parse", "act", "nested"} => runs = RunsUpTo(i - 1)
  /\ pc = "ended" => IsPrefix(runs, Asked(cmd)) /\ (code = 0 => Informs(cmd) \/ runs = Asked(cmd))
  /\ mainFunc = NoPath =>
       /\ pc = "loop" => i = 0 \/ NameAsked(cmd) = NoPath
       /\ pc = "run"  => i = 1 \/ NameAsked(cmd) = NoPath
  /\ mainFunc # NoPath /\ pc # "ended" =>
       \/ Class = "user" /\ Untouched(cmd, main, argv)
       \/ Class # "user" /\ pc = "parse" /\ Fresh
       \/ Class # "user" /\ Settled

IInv == TInv /\ DoneOf

-----------------------------------------------------------------------------
(* The calls of parse by an extension.                                     *)

LEMMA PermutedFrom ==
  ASSUME NEW s \in Seq(Args)
  PROVE  \A j \in 1 .. Len(s) : \E k \in 1 .. Len(s) : s[k] = Permuted(s)[j]
<1> DEFINE a == Opts(s)
           b == Inputs(s)
<1>1. /\ a \in Seq(Args) /\ b \in Seq(Args) /\ Len(a) + Len(b) = Len(s) /\ Len(s) \in Nat
  BY PermutedIs
<1>2. /\ \A j \in 1 .. Len(a) : \E k \in 1 .. Len(s) : s[k] = a[j]
      /\ \A j \in 1 .. Len(b) : \E k \in 1 .. Len(s) : s[k] = b[j]
  BY ThoseAre DEF Opts, Inputs
<1>3. Permuted(s) = a \o b
  BY DEF Permuted
<1> HIDE DEF a, b
<1>4. /\ Len(a) \in Nat /\ Len(b) \in Nat
      /\ \A j \in 1 .. Len(a) : (a \o b)[j] = a[j]
      /\ \A j \in 1 .. Len(b) : (a \o b)[Len(a) + j] = b[j]
  BY <1>1, ConcatIs
<1> SUFFICES ASSUME NEW j \in 1 .. Len(s)  PROVE \E k \in 1 .. Len(s) : s[k] = (a \o b)[j]
  BY <1>3
<1>5. CASE j \in 1 .. Len(a)
  BY <1>2, <1>4, <1>5
<1>6. CASE j \notin 1 .. Len(a)
  <2> DEFINE x == Len(a)
             y == Len(b)
             c == a \o b
  <2>1. x \in Nat /\ y \in Nat /\ x + y = Len(s) /\ Len(s) \in Nat /\ j \notin 1 .. x
    BY <1>1, <1>4, <1>6, Zenon
  <2>2. (\A h \in 1 .. y : c[x + h] = b[h]) /\ \A h \in 1 .. y : \E k \in 1 .. Len(s) : s[k] = b[h]
    BY <1>2, <1>4, Zenon
  <2> HIDE DEF x, y, c
  <2>3. j - x \in 1 .. y /\ x + (j - x) = j
    BY <2>1
  <2>4. \E k \in 1 .. Len(s) : s[k] = c[j]
    BY <2>2, <2>3
  <2> QED
    BY <2>4 DEF c
<1> QED
  BY <1>5, <1>6

(* A call: of which line, with the options of main and the argv as they    *)
(* are, and for which object of an extension.                              *)
AnyCall(line, m, a, class, obj) ==
  /\ line \in CommandLines /\ MainOf(line, m) /\ ArgvOf(line, m, a) /\ NameAsked(line) # NoPath
  /\ class \in {"printer", "typelib"} /\ obj.action \in ActionsOf(class) /\ LibOf(line, obj)

LEMMA ExtRegion ==
  ASSUME NEW line, NEW m, NEW a, NEW class, NEW obj, AnyCall(line, m, a, class, obj)
  PROVE  /\ class \in Classes /\ obj \in Objects /\ line \in Seq(Args) /\ Len(line) \in Nat
         /\ Start(line) \in 2 .. Len(line) + 1 /\ (HasExt(line) <=> Start(line) <= Len(line))
         /\ ~HasExt(line) => m.ext_argv = 0 /\ m.ext_argc = 0 /\ ~(obj.ext_argc > 0)
         /\ HasExt(line) =>
              /\ m.ext_argv = Start(line) /\ m.ext_argc = Len(line) + 1 - Start(line)
              /\ m.ext_argc \in Nat \ {0}
              /\ \E k : IsRegion(a, m.ext_argv, m.ext_argc, SubSeq(a, Start(line) + 1, Len(line)), k)
<1> DEFINE d == Start(line)
           n == Len(line)
           t == SubSeq(a, d + 1, n)
<1>0. /\ line \in CommandLines /\ MainOf(line, m) /\ ArgvOf(line, m, a) /\ NameAsked(line) # NoPath
      /\ class \in {"printer", "typelib"} /\ obj.action \in ActionsOf(class) /\ LibOf(line, obj)
  BY DEF AnyCall
<1>1. /\ line \in Seq(Args) /\ n \in Nat /\ d \in 2 .. n + 1 /\ (HasExt(line) <=> d <= n)
  BY <1>0, LineIs
<1>2. class \in Classes /\ obj \in Objects /\ (obj.ext_argc > 0 => obj.ext_argv \in d + 1 .. n)
  BY <1>0 DEF Classes, LibOf
<1>3. a \in Seq(Args) /\ Len(a) = n /\ (HasExt(line) => a[d].is = "text")
  BY <1>0 DEF ArgvOf
<1>4. /\ HasExt(line) => m.ext_argv = d /\ m.ext_argc = n + 1 - d
      /\ ~HasExt(line) => m.ext_argv = 0 /\ m.ext_argc = 0
  BY <1>0 DEF MainOf
<1> HIDE DEF d, n
<1>5. ~HasExt(line) => ~(obj.ext_argc > 0)
  BY <1>1, <1>2
<1>6. ASSUME HasExt(line)
      PROVE  /\ m.ext_argc \in Nat \ {0}
             /\ \E k : IsRegion(a, m.ext_argv, m.ext_argc, t, k)
  <2>1. m.ext_argv = d /\ m.ext_argc = n + 1 - d /\ m.ext_argc \in Nat \ {0} /\ d \in 1 .. Len(a)
    BY <1>1, <1>3, <1>4, <1>6
  <2>2. t \in Seq(Args)
    BY <1>1, <1>3, <2>1
  <2>3. PICK k \in 0 .. Len(t) : IsPartLen(t, k)
    BY <2>2, PartIs
  <2>4. t = SubSeq(a, d + 1, Len(a)) /\ m.ext_argc = Len(a) + 1 - d
    BY <1>3, <2>1
  <2> HIDE DEF t
  <2>5. IsRegion(a, m.ext_argv, m.ext_argc, t, k)
    BY <1>3, <1>6, <2>1, <2>3, <2>4 DEF IsRegion
  <2> QED
    BY <2>1, <2>5
<1> QED
  BY <1>1, <1>2, <1>4, <1>5, <1>6 DEF d, n, t

(* What main has, but for the name that dirname may cut, stays.            *)
LEMMA MainKeeps ==
  ASSUME NEW line \in CommandLines, NEW m, MainOf(line, m), NameAsked(line) # NoPath,
         NEW m1, m1 = [m EXCEPT !.ext_func_name = IF m.ext_argc = 0 THEN @ ELSE Cut(@)]
  PROVE  /\ MainOf(line, m1) /\ m1.argv = m.argv /\ m1.argc = m.argc
         /\ m1.ext_argv = m.ext_argv /\ m1.ext_argc = m.ext_argc
         /\ m1.help_ext_func = m.help_ext_func /\ m1.ext_func_name # NoPath
<1> DEFINE name == IF m.ext_argc = 0 THEN m.ext_func_name ELSE Cut(m.ext_func_name)
<1>1. m \in Objects /\ m.ext_func_name # NoPath
  BY DEF MainOf
<1>2. m.ext_func_name \in Paths
  BY <1>1 DEF Objects, Paths
<1>3. name \in Paths
  BY <1>2, PathsAre
<1>4. name \in Seq(Words) /\ name # NoPath
  BY <1>3, PathsAre
<1>5. m1 = [m EXCEPT !.ext_func_name = name]
  OBVIOUS
<1> HIDE DEF name
<1>6. /\ m1 \in Objects /\ m1.ext_func_name = name
      /\ m1.argv = m.argv /\ m1.argc = m.argc /\ m1.home_dir = m.home_dir
      /\ m1.ext_argv = m.ext_argv /\ m1.ext_argc = m.ext_argc
      /\ m1.action = m.action /\ m1.help_ext_func = m.help_ext_func
  BY <1>1, <1>4, <1>5 DEF Objects
<1>7. MainOf(line, m1)
  BY <1>4, <1>6, Zenon DEF MainOf
<1> QED
  BY <1>4, <1>6, <1>7

LEMMA CallKeeps ==
  ASSUME NEW line, NEW m, NEW a, NEW class, NEW obj, AnyCall(line, m, a, class, obj),
         NEW r, r = Parsed(class, obj, a, m.ext_argv, m.ext_argc),
         NEW b, b = ParsedArgs(r, a, m.ext_argv, m.ext_argc)
  PROVE  /\ LibOf(line, r) /\ r.action \in ActionsOf(class) /\ ArgvOf(line, m, b)
         /\ ~HasExt(line) => b = a
         /\ HasExt(line) =>
              \A k : IsRegion(a, m.ext_argv, m.ext_argc, SubSeq(a, Start(line) + 1, Len(line)), k) =>
                Rewritten(b, a, m.ext_argv, SubSeq(a, Start(line) + 1, Len(line)), k, r)
<1> DEFINE d == Start(line)
           n == Len(line)
           t == SubSeq(a, d + 1, n)
<1>0. /\ line \in CommandLines /\ MainOf(line, m) /\ ArgvOf(line, m, a) /\ NameAsked(line) # NoPath
      /\ class \in {"printer", "typelib"} /\ obj.action \in ActionsOf(class) /\ LibOf(line, obj)
  BY DEF AnyCall
<1>1. /\ class \in Classes /\ obj \in Objects /\ line \in Seq(Args) /\ n \in Nat
      /\ d \in 2 .. n + 1 /\ (HasExt(line) <=> d <= n)
      /\ ~HasExt(line) => m.ext_argv = 0 /\ m.ext_argc = 0 /\ ~(obj.ext_argc > 0)
      /\ HasExt(line) =>
           /\ m.ext_argv = d /\ m.ext_argc = n + 1 - d /\ m.ext_argc \in Nat \ {0}
           /\ \E k : IsRegion(a, m.ext_argv, m.ext_argc, t, k)
  BY ExtRegion
<1>2. obj.ext_argc >= 0 /\ (obj.ext_argc > 0 => obj.ext_argv \in d + 1 .. n)
  BY <1>0 DEF LibOf
<1>3. /\ a \in Seq(Args) /\ Len(a) = n
      /\ \A j \in 1 .. Len(InputArgs(line)) : a[m.argv + j - 1] = InputArgs(line)[j]
      /\ (HasExt(line) => a[d].is = "text")
  BY <1>0 DEF ArgvOf
<1>4. /\ m.argc = Len(InputArgs(line)) /\ m.argv \in Nat \ {0} /\ m.argv + m.argc = d
  BY <1>0 DEF MainOf
<1> HIDE DEF d, n, t
<1>5. CASE ~HasExt(line)
  <2>1. m.ext_argv = 0 /\ m.ext_argc = 0 /\ ~(obj.ext_argc > 0)
    BY <1>1, <1>5
  <2>2. IsCall(class, obj, a, 0, 0, <<>>) /\ ~HasDashes(a, 0, 0)
    BY <1>0, <1>1, CallOfNothing
  <2>3. r = Parsed(class, obj, a, 0, 0) /\ b = ParsedArgs(r, a, 0, 0)
    BY <2>1
  <2>4. /\ r \in Objects /\ r.action \in ActionsOf(class)
        /\ r.ext_argv = obj.ext_argv /\ r.ext_argc = obj.ext_argc
    BY <2>2, <2>3, ParsedIs
  <2>5. LibOf(line, r)
    BY <1>2, <2>1, <2>4 DEF LibOf, d, n
  <2>6. b = a
    <3>1. ParsedArgs(r, a, 0, 0) = a
      BY <2>1, <2>4 DEF ParsedArgs
    <3> QED
      BY <2>3, <3>1
  <2> QED
    BY <1>0, <1>5, <2>4, <2>5, <2>6
<1>6. CASE HasExt(line)
  <2>1. /\ m.ext_argv = d /\ m.ext_argc = n + 1 - d /\ m.ext_argc \in Nat \ {0} /\ d <= n
    BY <1>1, <1>6
  <2>2. PICK k : IsRegion(a, m.ext_argv, m.ext_argc, t, k)
    BY <1>1, <1>6
  <2>3. /\ t \in Seq(Args) /\ Len(t) = m.ext_argc - 1 /\ k \in 0 .. m.ext_argc - 1
        /\ HasDashes(a, m.ext_argv, m.ext_argc) <=> k < Len(t)
        /\ HasDashes(a, m.ext_argv, m.ext_argc) => FirstDashes(a, m.ext_argv, m.ext_argc) = m.ext_argv + k + 1
    BY <2>2, RegionIs
  <2>4. IsPartLen(t, k)
    BY <2>2 DEF IsRegion
  <2>5. Part(t) \in Seq(Args) /\ SameOptions(Part(t), Part(t))
    BY <2>3, <2>4, PartLenDecides DEF SameOptions
  <2>6. IsCall(class, obj, a, m.ext_argv, m.ext_argc, Part(t))
    BY <1>0, <1>1, <2>2, <2>5, CallInRegion
  <2>7. /\ r \in Objects /\ r.action \in ActionsOf(class)
        /\ HasDashes(a, m.ext_argv, m.ext_argc) =>
             /\ r.ext_argv = FirstDashes(a, m.ext_argv, m.ext_argc)
             /\ r.ext_argc = m.ext_argv + m.ext_argc - FirstDashes(a, m.ext_argv, m.ext_argc)
        /\ ~HasDashes(a, m.ext_argv, m.ext_argc) => r.ext_argv = obj.ext_argv /\ r.ext_argc = obj.ext_argc
    BY <2>6, ParsedIs
  <2>8. r.ext_argc >= 0 /\ (r.ext_argc > 0 => r.ext_argv \in d + 1 .. n)
    <3>1. CASE HasDashes(a, m.ext_argv, m.ext_argc)
      <4>1. r.ext_argv = d + k + 1 /\ r.ext_argc = d + m.ext_argc - (d + k + 1) /\ k < m.ext_argc - 1
        BY <2>1, <2>3, <2>7, <3>1
      <4>2. k \in Int /\ 0 <= k
        BY <2>1, <2>3
      <4> QED
        BY <1>1, <2>1, <4>1, <4>2
    <3>2. CASE ~HasDashes(a, m.ext_argv, m.ext_argc)
      BY <1>2, <2>7, <3>2
    <3> QED
      BY <3>1, <3>2
  <2>9. LibOf(line, r)
    BY <2>7, <2>8 DEF LibOf, d, n
  <2>10. ASSUME NEW h, IsRegion(a, m.ext_argv, m.ext_argc, t, h)
         PROVE  Rewritten(b, a, m.ext_argv, t, h, r)
    <3>1. r.ext_argc > 0 => r.ext_argv \in m.ext_argv + 1 .. Len(a)
      BY <1>3, <2>1, <2>8
    <3> QED
      BY <2>7, <2>10, <3>1, ParsedArgsAre
  <2>11. /\ b \in Seq(Args) /\ Len(b) = n /\ (\A j \in 1 .. d - 1 : b[j] = a[j])
         /\ b[d] = Text(Cut(a[d].path))
    BY <1>3, <2>1, <2>2, <2>10 DEF Rewritten
  <2>12. ASSUME NEW j \in 1 .. Len(InputArgs(line))
         PROVE  b[m.argv + j - 1] = InputArgs(line)[j]
    <3>1. m.argc \in Nat /\ j \in 1 .. m.argc
      BY <1>1, <1>4
    <3>2. m.argv + j - 1 \in 1 .. d - 1
      BY <1>1, <1>4, <3>1
    <3> QED
      BY <1>3, <2>11, <3>2
  <2>13. b[d].is = "text"
    <3>1. a[d] \in Args /\ a[d].is = "text"
      BY <1>1, <1>3, <1>6
    <3>2. Cut(a[d].path) \in Paths
      BY <3>1, TextsAre, PathsAre
    <3> QED
      BY <2>11, <3>2, TextsAre
  <2>14. ArgvOf(line, m, b)
    BY <2>11, <2>12, <2>13 DEF ArgvOf, d, n
  <2> QED
    BY <1>6, <2>7, <2>9, <2>10, <2>14 DEF d, n, t
<1> QED
  BY <1>5, <1>6

(* Which sequence is a part of another.                                    *)
LEMMA SubSeqIs ==
  ASSUME NEW a \in Seq(Args), NEW p \in 1 .. Len(a) + 1, NEW q \in p - 1 .. Len(a)
  PROVE  /\ SubSeq(a, p, q) \in Seq(Args) /\ Len(SubSeq(a, p, q)) = q - p + 1 /\ q - p + 1 \in Nat
         /\ \A j \in 1 .. q - p + 1 : SubSeq(a, p, q)[j] = a[p + j - 1]
         /\ \A s \in Seq(Args) :
              Len(s) = q - p + 1 /\ (\A j \in 1 .. q - p + 1 : s[j] = a[p + j - 1]) =>
                s = SubSeq(a, p, q)
<1>0. Len(a) \in Nat /\ p \in Int /\ q \in Int /\ q - p + 1 \in Nat /\ p <= q + 1
  OBVIOUS
<1> DEFINE t == SubSeq(a, p, q)
<1>1. t \in Seq(Args) /\ Len(t) = q - p + 1
  <2>1. \A j \in p .. q : a[j] \in Args
    BY <1>0
  <2>2. t \in Seq(Args) /\ Len(t) = IF p <= q THEN q - p + 1 ELSE 0
    BY <1>0, <2>1, SubSeqProperties
  <2> HIDE DEF t
  <2> QED
    BY <1>0, <2>2
<1>2. \A j \in 1 .. q - p + 1 : t[j] = a[p + j - 1]
  <2>1. \A j \in p .. q : a[j] \in Args
    BY <1>0
  <2>2. \A j \in 1 .. q - p + 1 : t[j] = a[p + j - 1]
    BY <1>0, <2>1, SubSeqProperties
  <2> QED
    BY <2>2
<1> HIDE DEF t
<1>3. ASSUME NEW s \in Seq(Args), Len(s) = q - p + 1, \A j \in 1 .. q - p + 1 : s[j] = a[p + j - 1]
      PROVE  s = t
  <2>1. Len(s) = Len(t) /\ \A j \in 1 .. Len(s) : s[j] = t[j]
    BY <1>1, <1>2, <1>3
  <2> QED
    BY <1>1, <2>1, SeqEqual
<1> QED
  BY <1>0, <1>1, <1>2, <1>3 DEF t

(* The command line of the extension, and where in it that of its own is.  *)
LEMMA ExtPartIs ==
  ASSUME NEW line \in CommandLines
  PROVE  /\ ExtPart(line) \in Seq(Args) /\ Len(ExtPart(line)) \in Nat
         /\ IsPartLen(Rest(line), Len(ExtPart(line)))
         /\ ~HasExt(line) => Rest(line) = <<>> /\ ExtPart(line) = <<>> /\ ~HasNested(line)
         /\ HasExt(line) => /\ Len(Rest(line)) = Len(line) - Start(line)
                            /\ \A j \in 1 .. Len(line) - Start(line) :
                                 Rest(line)[j] = line[Start(line) + j]
         /\ ~HasNested(line) =>
              /\ ExtPart(line) = Rest(line) /\ Len(ExtPart(line)) = Len(Rest(line))
              /\ Rest(Rest(line)) = <<>>
         /\ HasNested(line) => /\ HasExt(line) /\ Second(line) \in Start(line) + 1 .. Len(line)
                               /\ Rest(Rest(line)) = SubSeq(line, Second(line) + 1, Len(line))
<1> DEFINE d == Start(line)
           n == Len(line)
           e == Rest(line)
           p == Part(Rest(line))
           v == Second(line)
<1>1. /\ line \in Seq(Args) /\ n \in Nat /\ d \in 2 .. n + 1 /\ (HasExt(line) <=> d <= n)
      /\ e = SubSeq(line, d + 1, n) /\ e \in Seq(Args) /\ Len(e) \in Nat
      /\ ~HasExt(line) => e = <<>>
  BY LineIs
<1>2. p = ExtPart(line) /\ v = d + Len(p) + 1 /\ (HasNested(line) <=> Len(p) < Len(e))
  BY DEF ExtPart, HasNested, Second
<1> HIDE DEF d, n, e, v
<1>3. PICK k \in 0 .. Len(e) : IsPartLen(e, k)
  BY <1>1, PartIs DEF e
<1>4. /\ p = SubSeq(e, 1, k) /\ p \in Seq(Args) /\ Len(p) = k
      /\ Rest(e) = SubSeq(e, k + 2, Len(e))
  BY <1>1, <1>3, PartLenDecides DEF e
<1> HIDE DEF p
<1>5. HasExt(line) => Len(e) = n - d /\ \A j \in 1 .. n - d : e[j] = line[d + j]
  <2> SUFFICES ASSUME HasExt(line)  PROVE Len(e) = n - d /\ \A j \in 1 .. n - d : e[j] = line[d + j]
    OBVIOUS
  <2>1. d + 1 \in 1 .. Len(line) + 1 /\ n \in (d + 1) - 1 .. Len(line) /\ d <= n
    BY <1>1 DEF n
  <2>2. /\ Len(e) = n - (d + 1) + 1
        /\ \A j \in 1 .. n - (d + 1) + 1 : e[j] = line[(d + 1) + j - 1]
    BY <1>1, <2>1, SubSeqIs
  <2>3. n - (d + 1) + 1 = n - d /\ \A j \in 1 .. n - d : (d + 1) + j - 1 = d + j
    BY <1>1
  <2> QED
    BY <2>2, <2>3
<1>6. ~HasExt(line) => e = <<>> /\ p = <<>> /\ ~HasNested(line)
  <2> SUFFICES ASSUME ~HasExt(line)  PROVE p = <<>> /\ ~HasNested(line)
    BY <1>1
  <2>1. Len(e) = 0
    BY <1>1, EmptySeq
  <2>2. k = 0
    BY <1>3, <2>1
  <2>3. p = <<>>
    BY <1>4, <2>2, EmptySeq
  <2> QED
    BY <1>2, <1>4, <2>1, <2>2, <2>3
<1>7. ~HasNested(line) => p = e /\ Len(p) = Len(e) /\ Rest(e) = <<>>
  <2> SUFFICES ASSUME ~HasNested(line)  PROVE p = e /\ Len(p) = Len(e) /\ Rest(e) = <<>>
    OBVIOUS
  <2>1. k = Len(e)
    BY <1>1, <1>2, <1>3, <1>4
  <2>2. p = e
    BY <1>1, <1>4, <2>1, SubSeqFull
  <2>3. Rest(e) = <<>>
    <3>1. k + 2 \in Int /\ Len(e) \in Int /\ Len(e) < k + 2
      BY <1>1, <2>1
    <3> QED
      BY <1>4, <3>1, SubSeqEmpty
  <2> QED
    BY <2>2, <2>3
<1>8. HasNested(line) => HasExt(line) /\ v \in d + 1 .. n /\ Rest(e) = SubSeq(line, v + 1, n)
  <2> SUFFICES ASSUME HasNested(line)
               PROVE  HasExt(line) /\ v \in d + 1 .. n /\ Rest(e) = SubSeq(line, v + 1, n)
    OBVIOUS
  <2>1. HasExt(line)
    BY <1>6
  <2>2. Len(e) = n - d /\ k < n - d /\ v = d + k + 1 /\ k \in Nat
    BY <1>1, <1>2, <1>3, <1>4, <1>5, <2>1
  <2>3. v \in d + 1 .. n /\ d \in Nat
    BY <1>1, <2>2
  <2>4. k + 2 \in 1 .. Len(e) + 1 /\ Len(e) \in (k + 2) - 1 .. Len(e)
    BY <1>1, <2>2
  <2>5. /\ Rest(e) \in Seq(Args) /\ Len(Rest(e)) = Len(e) - (k + 2) + 1
        /\ \A j \in 1 .. Len(e) - (k + 2) + 1 : Rest(e)[j] = e[(k + 2) + j - 1]
    <3> DEFINE h == k + 2
               m == Len(e)
               t == Rest(e)
    <3>1. /\ e \in Seq(Args) /\ h \in 1 .. Len(e) + 1 /\ m \in h - 1 .. Len(e)
          /\ t = SubSeq(e, h, m)
      BY <1>1, <1>4, <2>4
    <3> HIDE DEF h, m, t
    <3>2. /\ SubSeq(e, h, m) \in Seq(Args) /\ Len(SubSeq(e, h, m)) = m - h + 1
          /\ \A j \in 1 .. m - h + 1 : SubSeq(e, h, m)[j] = e[h + j - 1]
      BY <3>1, SubSeqIs
    <3>3. /\ t \in Seq(Args) /\ Len(t) = m - h + 1
          /\ \A j \in 1 .. m - h + 1 : t[j] = e[h + j - 1]
      BY <3>1, <3>2, Zenon
    <3> QED
      BY <3>3 DEF h, m, t
  <2>6. Len(e) - (k + 2) + 1 = n - (v + 1) + 1
    BY <1>1, <2>2, <2>3
  <2>7. ASSUME NEW j \in 1 .. n - (v + 1) + 1  PROVE Rest(e)[j] = line[(v + 1) + j - 1]
    <3>1. j \in 1 .. Len(e) - (k + 2) + 1 /\ (k + 2) + j - 1 \in 1 .. n - d
      BY <1>1, <2>2, <2>3
    <3>2. d + ((k + 2) + j - 1) = (v + 1) + j - 1
      BY <1>1, <2>2, <3>1
    <3>3. Rest(e)[j] = e[(k + 2) + j - 1]
      BY <2>5, <3>1
    <3>4. e[(k + 2) + j - 1] = line[d + ((k + 2) + j - 1)]
      BY <1>5, <2>1, <3>1
    <3> QED
      BY <3>2, <3>3, <3>4
  <2>8. v + 1 \in 1 .. Len(line) + 1 /\ n \in (v + 1) - 1 .. Len(line)
    BY <1>1, <2>3 DEF n
  <2>9. Rest(e) = SubSeq(line, v + 1, n)
    <3> DEFINE h == v + 1
               t == Rest(e)
    <3>1. h \in 1 .. Len(line) + 1 /\ n \in h - 1 .. Len(line) /\ t \in Seq(Args)
          /\ Len(t) = n - h + 1 /\ \A j \in 1 .. n - h + 1 : t[j] = line[h + j - 1]
      BY <2>5, <2>6, <2>7, <2>8
    <3> HIDE DEF h, t
    <3>2. t = SubSeq(line, h, n)
      BY <1>1, <3>1, SubSeqIs
    <3> QED
      BY <3>2 DEF h, t
  <2> QED
    BY <2>1, <2>3, <2>9
<1>9. p \in Seq(Args) /\ Len(p) \in Nat /\ IsPartLen(e, Len(p))
  BY <1>3, <1>4
<1> QED
  BY <1>2, <1>5, <1>6, <1>7, <1>8, <1>9 DEF d, n, e, v

LEMMA SameOptionsAre ==
  ASSUME NEW s, NEW t, NEW u, SameOptions(s, t), SameOptions(t, u)
  PROVE  SameOptions(s, u)
BY Zenon DEF SameOptions

(* What parse leaves of a command line without `--'.                       *)
LEMMA Rewrites ==
  ASSUME NEW b, NEW a, NEW at, NEW n, NEW t, NEW k, NEW r,
         IsRegion(a, at, n, t, k), Rewritten(b, a, at, t, k, r),
         k = Len(t), ~(r.ext_argc > 0),
         \A j \in at + 1 .. Len(a) : a[j] \notin {Dashes, NullArg}
  PROVE  /\ SameOptions(SubSeq(b, at + 1, Len(a)), t)
         /\ \A j \in at + 1 .. Len(a) : b[j] \notin {Dashes, NullArg}
<1> DEFINE p == Permuted(t)
           v == Len(a)
<1>1. /\ a \in Seq(Args) /\ at \in 1 .. v /\ n = v + 1 - at /\ IsPartLen(t, k) /\ v \in Nat
  BY DEF IsRegion
<1>2. /\ t \in Seq(Args) /\ Len(t) = n - 1 /\ \A j \in 1 .. n - 1 : t[j] = a[at + j]
  BY RegionIs
<1>3. Part(t) = t
  <2>1. Part(t) = SubSeq(t, 1, k)
    BY <1>1, <1>2, PartLenDecides
  <2> QED
    BY <1>2, <2>1, SubSeqFull
<1>4. /\ b \in Seq(Args) /\ Len(b) = v
      /\ \A j \in at + 1 .. at + k : b[j] = p[j - at]
  <2>1. b \in Seq(Args) /\ Len(b) = v
    BY DEF Rewritten
  <2>2. \A j \in at + 1 .. at + k : b[j] = Permuted(Part(t))[j - at]
    BY DEF Rewritten
  <2> QED
    BY <1>3, <2>1, <2>2, Zenon
<1>5. p \in Seq(Args) /\ Len(p) = Len(t) /\ SameOptions(p, t)
  BY <1>2, PermutedIs, PermutedSame
<1>6. \A j \in 1 .. Len(t) : \E h \in 1 .. Len(t) : t[h] = p[j]
  BY <1>2, PermutedFrom
<1> HIDE DEF p, v
<1>7. k = v - at /\ at \in Nat \ {0} /\ at + k = v
  BY <1>1, <1>2
<1>8. p = SubSeq(b, at + 1, v)
  <2> DEFINE h == at + 1
  <2>1. h \in 1 .. Len(b) + 1 /\ v \in h - 1 .. Len(b) /\ Len(p) = v - h + 1
    BY <1>1, <1>2, <1>4, <1>5, <1>7
  <2>2. ASSUME NEW j \in 1 .. v - h + 1  PROVE p[j] = b[h + j - 1]
    <3>1. h + j - 1 \in at + 1 .. at + k /\ (h + j - 1) - at = j
      BY <1>1, <1>7, <2>2
    <3> HIDE DEF h
    <3> QED
      BY <1>4, <3>1
  <2> HIDE DEF h
  <2>3. p = SubSeq(b, h, v)
    BY <1>4, <1>5, <2>1, <2>2, SubSeqIs
  <2> QED
    BY <2>3 DEF h
<1>9. ASSUME NEW j \in at + 1 .. v  PROVE b[j] \notin {Dashes, NullArg}
  <2>1. j \in at + 1 .. at + k /\ j - at \in 1 .. Len(t)
    BY <1>1, <1>2, <1>7
  <2>2. PICK h \in 1 .. Len(t) : t[h] = p[j - at]
    BY <1>6, <2>1
  <2>3. h \in 1 .. n - 1 /\ at + h \in at + 1 .. v
    BY <1>1, <1>2, <1>7, <2>2
  <2>4. b[j] = a[at + h]
    BY <1>2, <1>4, <2>1, <2>2, <2>3
  <2> QED
    BY <2>3, <2>4 DEF v
<1> QED
  BY <1>5, <1>8, <1>9 DEF v

(* A call after the first, on a command line with an extension's in it, of *)
(* which a null pointer has the place.                                     *)
LEMMA NullCall ==
  ASSUME NEW line, NEW m, NEW a, NEW class, NEW obj, AnyCall(line, m, a, class, obj),
         ExtArgvOf(line, a, obj), HasNested(line), obj.ext_func_name = NoPath
  PROVE  ParseEnds(class, a, m.ext_argv, m.ext_argc) = "undefined"
<1> DEFINE d == Start(line)
           n == Len(line)
           v == Second(line)
           t == SubSeq(a, d + 1, n)
           q == m.ext_argc
<1>0. line \in CommandLines /\ obj.action \in ActionsOf(class) /\ ArgvOf(line, m, a)
      /\ NameAsked(line) # NoPath
  BY DEF AnyCall
<1>1. HasExt(line) /\ v \in d + 1 .. n
  BY <1>0, ExtPartIs
<1>2. /\ class \in Classes /\ obj \in Objects /\ n \in Nat /\ d \in 2 .. n + 1 /\ d <= n
      /\ m.ext_argv = d /\ q = n + 1 - d /\ q \in Nat \ {0}
      /\ \E k : IsRegion(a, m.ext_argv, q, t, k)
  BY <1>1, ExtRegion
<1>3. /\ a[v] = NameArg(obj.ext_func_name) /\ \A j \in d + 1 .. v - 1 : a[j] # Dashes
  BY DEF ExtArgvOf
<1>4. a[v] = NullArg /\ a[v] # Dashes
  <2>1. a[v] = NameArg(NoPath)
    BY <1>3
  <2> QED
    BY <2>1, FuncNamesAre, TextsAre
<1>5. Len(a) = n /\ a \in Seq(Args)
  BY <1>0 DEF ArgvOf
<1> HIDE DEF d, n, v, t, q
<1>6. PICK k : IsRegion(a, d, q, t, k)
  BY <1>2
<1>7. /\ t \in Seq(Args) /\ k \in 0 .. q - 1 /\ Len(t) = q - 1
      /\ HasDashes(a, d, q) <=> k < Len(t)
      /\ HasDashes(a, d, q) => FirstDashes(a, d, q) = d + k + 1
      /\ \A j \in 1 .. q - 1 : t[j] = a[d + j]
  BY <1>6, RegionIs
<1>8. IsPartLen(t, k)
  BY <1>6 DEF IsRegion
<1>9. HasDashes(a, d, q) => v < d + k + 1
  <2> SUFFICES ASSUME HasDashes(a, d, q), ~(v < d + k + 1)  PROVE FALSE
    BY <1>1, <1>2, <1>7
  <2>1. k + 1 \in 1 .. q - 1 /\ t[k + 1] = Dashes
    BY <1>2, <1>7, <1>8 DEF IsPartLen
  <2>2. a[d + (k + 1)] = Dashes
    BY <1>7, <2>1
  <2>3. d + (k + 1) \in d + 1 .. v
    BY <1>1, <1>2, <1>7
  <2>4. d + (k + 1) # v
    BY <1>4, <2>2
  <2>5. d + (k + 1) \in d + 1 .. v - 1
    BY <1>1, <1>2, <2>3, <2>4
  <2> QED
    BY <1>3, <2>2, <2>5
<1>10. ReadsNull(a, d, q)
  <2> DEFINE end == IF HasDashes(a, d, q) THEN FirstDashes(a, d, q) ELSE d + q
  <2>1. (end = d + k + 1 /\ v < d + k + 1) \/ end = d + q
    BY <1>7, <1>9
  <2>2. end \in Int /\ v < end
    BY <1>1, <1>2, <1>7, <2>1
  <2> HIDE DEF end
  <2>3. v \in d .. end - 1
    BY <1>1, <1>2, <2>2
  <2> QED
    BY <1>4, <2>3 DEF ReadsNull, end
<1>11. IsCall(class, obj, a, d, q, Part(t))
  <2>1. Part(t) \in Seq(Args) /\ SameOptions(Part(t), Part(t))
    BY <1>7, <1>8, PartLenDecides DEF SameOptions
  <2> QED
    BY <1>0, <1>2, <1>6, <2>1, CallInRegion
<1> QED
  BY <1>2, <1>10, <1>11, EndsIs DEF q

(* What a call makes of the object, once the region is known.              *)
Made(class, line, m, a, r) ==
  /\ ObjectOf(class, line, r)
  /\ r.action = "ext_func" => r.ext_func_name = FuncAsked(ExtPart(line))
  /\ r.action # "ext_func" => r.ext_func_name = ExtFuncName(class, r.action)
  /\ HasExt(line) => r.home_dir = DirName(a[Start(line)].path)
  /\ ParseEnds(class, a, m.ext_argv, m.ext_argc) = "exit" => "info" \in KeysOf(ExtPart(line))

LEMMA CallMakes ==
  ASSUME NEW line, NEW m, NEW a, NEW class, NEW obj, AnyCall(line, m, a, class, obj),
         NEW r, r = Parsed(class, obj, a, m.ext_argv, m.ext_argc),
         obj.action \in {DefaultAction[class], ActionAsked(class, ExtPart(line))},
         class = "typelib" => obj.casts \in {"strict", CastsAsked(ExtPart(line))},
         obj.help_ext_func => "help_ext_func" \in KeysOf(ExtPart(line)),
         HasExt(line) =>
           \E k : /\ IsRegion(a, m.ext_argv, m.ext_argc, SubSeq(a, Start(line) + 1, Len(line)), k)
                  /\ SameOptions(Part(SubSeq(a, Start(line) + 1, Len(line))), ExtPart(line))
  PROVE  Made(class, line, m, a, r)
<1> DEFINE at == m.ext_argv
           n == m.ext_argc
           s == ExtPart(line)
           t == SubSeq(a, Start(line) + 1, Len(line))
<1>0. line \in CommandLines /\ obj.action \in ActionsOf(class)
  BY DEF AnyCall
<1>1. /\ class \in Classes /\ obj \in Objects
      /\ ~HasExt(line) => at = 0 /\ n = 0
      /\ HasExt(line) => at = Start(line) /\ n \in Nat \ {0}
  BY ExtRegion
<1>2. s \in Seq(Args) /\ (~HasExt(line) => s = <<>>)
  BY <1>0, ExtPartIs
<1>3. IsCall(class, obj, a, at, n, s)
  <2>1. CASE HasExt(line)
    <3>1. PICK k : IsRegion(a, at, n, t, k) /\ SameOptions(Part(t), s)
      BY <2>1
    <3> HIDE DEF t, s, at, n
    <3> QED
      BY <1>0, <1>1, <1>2, <3>1, CallInRegion
  <2>2. CASE ~HasExt(line)
    <3>1. IsCall(class, obj, a, 0, 0, <<>>)
      BY <1>0, <1>1, CallOfNothing
    <3>2. at = 0 /\ n = 0 /\ s = <<>>
      BY <1>1, <1>2, <2>2
    <3> QED
      BY <3>1, <3>2, Zenon
  <2> QED
    BY <2>1, <2>2
<1> HIDE DEF at, n, s, t
<1>4. r = Parsed(class, obj, a, at, n)
  BY DEF at, n
<1>5. /\ n # 0 => r.home_dir = DirName(a[at].path)
      /\ obj.action \in {DefaultAction[class], ActionAsked(class, s)} =>
           r.action = ActionAsked(class, s)
      /\ class = "typelib" /\ obj.casts \in {"strict", CastsAsked(s)} =>
           r.casts = CastsAsked(s)
      /\ r.action = "ext_func" /\ ActionAsked(class, s) = "ext_func" =>
           r.ext_func_name = FuncAsked(s) /\ FuncAsked(s) \in Paths
      /\ r.action # "ext_func" => r.ext_func_name = ExtFuncName(class, r.action)
      /\ r.help_ext_func <=> obj.help_ext_func \/ "help_ext_func" \in KeysOf(s)
  BY <1>3, <1>4, ParsedIs
<1>6. ParseEnds(class, a, at, n) = "exit" => "info" \in KeysOf(s)
  BY <1>3, EndsIs
<1>7. r.action = ActionAsked(class, s)
  BY <1>5 DEF s
<1>8. class = "typelib" => r.casts = CastsAsked(s)
  BY <1>5 DEF s
<1>9. r.help_ext_func <=> "help_ext_func" \in KeysOf(s)
  BY <1>5 DEF s
<1>10. HasExt(line) => r.home_dir = DirName(a[Start(line)].path)
  BY <1>1, <1>5
<1>11. r.action = "ext_func" => r.ext_func_name = FuncAsked(s)
  BY <1>5, <1>7
<1> QED
  BY <1>5, <1>6, <1>7, <1>8, <1>9, <1>10, <1>11 DEF Made, ObjectOf, s, at, n

(* The first call of an extension, on the command line as it was given.    *)
LEMMA FirstCall ==
  ASSUME NEW line, NEW m, NEW a, NEW class, NEW obj, AnyCall(line, m, a, class, obj),
         Untouched(line, m, a), obj = NewOptions(class),
         NEW r, r = Parsed(class, obj, a, m.ext_argv, m.ext_argc),
         NEW b, b = ParsedArgs(r, a, m.ext_argv, m.ext_argc)
  PROVE  Made(class, line, m, a, r) /\ ExtArgvOf(line, b, r)
<1> DEFINE d == Start(line)
           n == Len(line)
           v == Second(line)
           t == SubSeq(a, d + 1, n)
           at == m.ext_argv
           q == m.ext_argc
           p == Len(ExtPart(line))
<1>0. /\ line \in CommandLines /\ obj.action \in ActionsOf(class) /\ ArgvOf(line, m, a)
  BY DEF AnyCall
<1>1. /\ class \in Classes /\ obj \in Objects /\ line \in Seq(Args) /\ n \in Nat
      /\ d \in 2 .. n + 1 /\ (HasExt(line) <=> d <= n)
      /\ ~HasExt(line) => at = 0 /\ q = 0 /\ ~(obj.ext_argc > 0)
      /\ HasExt(line) => /\ at = d /\ q = n + 1 - d /\ q \in Nat \ {0}
                         /\ \E k : IsRegion(a, at, q, t, k)
  BY ExtRegion
<1>2. /\ obj.action = DefaultAction[class] /\ obj.casts = "strict" /\ obj.help_ext_func = FALSE
      /\ obj.ext_argc = 0 /\ obj.ext_argv = 0
  BY <1>1, NewOptionsAre
<1>3. a \in Seq(Args) /\ Len(a) = n
  BY <1>0 DEF ArgvOf
<1>4. /\ IsPartLen(Rest(line), p) /\ p \in Nat
      /\ ~HasExt(line) => ~HasNested(line)
      /\ HasExt(line) => /\ Len(Rest(line)) = n - d
                         /\ \A j \in 1 .. n - d : Rest(line)[j] = line[d + j]
      /\ ~HasNested(line) => p = Len(Rest(line))
      /\ HasNested(line) => HasExt(line) /\ v \in d + 1 .. n
      /\ v = d + p + 1 /\ (HasNested(line) <=> p < Len(Rest(line)))
  BY <1>0, ExtPartIs DEF Second, HasNested
<1>5. /\ Rest(line) \in Seq(Args) /\ Rest(line) = SubSeq(line, d + 1, n)
      /\ \A j \in 1 .. n : line[j] # NullArg
  BY <1>0, LineIs
<1>6. \A j \in d + 1 .. n : HasExt(line) => a[j] = line[j]
  BY DEF Untouched
<1>7. HasExt(line) => t = Rest(line)
  <2> SUFFICES ASSUME HasExt(line)  PROVE t = Rest(line)
    OBVIOUS
  <2> DEFINE h == d + 1
             e == Rest(line)
  <2>1. h \in 1 .. Len(a) + 1 /\ n \in h - 1 .. Len(a) /\ Len(e) = n - h + 1 /\ e \in Seq(Args)
    <3> HIDE DEF d, n
    <3> QED
      BY <1>1, <1>3, <1>4, <1>5
  <2>2. ASSUME NEW j \in 1 .. n - h + 1  PROVE e[j] = a[h + j - 1]
    <3> HIDE DEF d, n
    <3>1. j \in 1 .. n - d /\ h + j - 1 = d + j /\ d + j \in d + 1 .. n
      BY <1>1, <2>2
    <3>2. e[j] = line[d + j] /\ a[d + j] = line[d + j]
      BY <1>4, <1>6, <3>1
    <3> QED
      BY <3>1, <3>2
  <2>3. t = SubSeq(a, h, n)
    OBVIOUS
  <2> HIDE DEF h, e, t, d, n
  <2>4. e = SubSeq(a, h, n)
    BY <1>3, <2>1, <2>2, SubSeqIs
  <2> QED
    BY <2>3, <2>4 DEF e
<1>8. HasExt(line) => IsRegion(a, at, q, t, p)
  <2> SUFFICES ASSUME HasExt(line)  PROVE IsRegion(a, at, q, t, p)
    OBVIOUS
  <2>1. IsPartLen(t, p)
    BY <1>4, <1>7
  <2>2. PICK k : IsRegion(a, at, q, t, k)
    BY <1>1
  <2> QED
    BY <2>1, <2>2 DEF IsRegion
<1>9. HasExt(line) => Part(t) = ExtPart(line)
  BY <1>7 DEF ExtPart
<1>10. Made(class, line, m, a, r)
  <2>1. HasExt(line) => \E k : IsRegion(a, at, q, t, k) /\ SameOptions(Part(t), ExtPart(line))
    BY <1>8, <1>9 DEF SameOptions
  <2> QED
    BY <1>2, <2>1, CallMakes
<1> HIDE DEF d, n, v, t, at, q, p
<1>11. CASE ~HasExt(line)
  <2>1. IsCall(class, obj, a, 0, 0, <<>>) /\ ~HasDashes(a, 0, 0) /\ r = Parsed(class, obj, a, 0, 0)
    BY <1>0, <1>1, <1>11, CallOfNothing DEF at, q
  <2>2. r.ext_argv = 0 /\ r.ext_argc = 0
    BY <1>2, <2>1, ParsedIs
  <2>3. \A j \in d + 1 .. n : FALSE
    BY <1>1, <1>11
  <2> QED
    BY <1>4, <1>10, <1>11, <2>2, <2>3 DEF ExtArgvOf, d, n
<1>12. CASE HasExt(line)
  <2>1. IsRegion(a, d, q, t, p) /\ Rewritten(b, a, d, t, p, r) /\ q = n + 1 - d /\ d <= n
    BY <1>1, <1>8, <1>12, CallKeeps DEF at, q, t, d, n
  <2>2. /\ t \in Seq(Args) /\ Len(t) = n - d /\ q - 1 = n - d
        /\ \A j \in 1 .. n - d : t[j] = a[d + j]
        /\ HasDashes(a, d, q) <=> p < Len(t)
        /\ HasDashes(a, d, q) => FirstDashes(a, d, q) = v
    <3>1. q - 1 = n - d /\ d + p + 1 = v
      BY <1>1, <1>4, <2>1
    <3> QED
      BY <2>1, <3>1, RegionIs
  <2>3. Part(t) \in Seq(Args) /\ SameOptions(Part(t), Part(t)) /\ Len(Part(t)) = p /\ IsPartLen(t, p)
        /\ \A j \in 1 .. p : Part(t)[j] = t[j]
    <3>1. IsPartLen(t, p)
      BY <2>1 DEF IsRegion
    <3> QED
      BY <2>2, <3>1, PartLenDecides DEF SameOptions
  <2>4. IsCall(class, obj, a, d, q, Part(t)) /\ r = Parsed(class, obj, a, d, q)
    BY <1>0, <1>1, <1>12, <2>1, <2>3, CallInRegion DEF at, q
  <2>5. /\ HasDashes(a, d, q) => r.ext_argv = v /\ r.ext_argc = d + q - v
        /\ ~HasDashes(a, d, q) => r.ext_argv = 0 /\ r.ext_argc = 0
    BY <1>2, <2>2, <2>4, ParsedIs
  <2>6. HasDashes(a, d, q) <=> HasNested(line)
    BY <1>4, <1>7, <1>12, <2>2
  <2>7. CASE ~HasNested(line)
    <3>1. r.ext_argv = 0 /\ r.ext_argc = 0 /\ p = Len(t) /\ ~(r.ext_argc > 0)
      BY <1>4, <1>7, <1>12, <2>5, <2>6, <2>7
    <3>2. ASSUME NEW j \in d + 1 .. Len(a)  PROVE a[j] \notin {Dashes, NullArg}
      <4>1. j \in d + 1 .. n /\ j - d \in 1 .. p /\ d + (j - d) = j /\ j \in 1 .. n
        BY <1>1, <1>3, <2>2, <3>1
      <4>2. a[j] # NullArg
        BY <1>5, <1>6, <1>12, <4>1
      <4>3. t[j - d] # Dashes /\ t[j - d] = a[j]
        BY <2>2, <2>3, <3>1, <4>1 DEF IsPartLen, NoDashes
      <4> QED
        BY <4>2, <4>3
    <3>3. /\ SameOptions(SubSeq(b, d + 1, Len(a)), t)
          /\ \A j \in d + 1 .. Len(a) : b[j] \notin {Dashes, NullArg}
      BY <2>1, <3>1, <3>2, Rewrites
    <3> QED
      BY <1>3, <1>7, <1>10, <1>12, <2>7, <3>1, <3>3 DEF ExtArgvOf, d, n
  <2>8. CASE HasNested(line)
    <3>1. /\ r.ext_argv = v /\ r.ext_argc = n + 1 - v /\ v \in d + 1 .. n /\ v = d + p + 1
          /\ r.ext_argc > 0
      BY <1>1, <1>4, <2>1, <2>5, <2>6, <2>8
    <3>2. /\ b[v] = NameArg(r.ext_func_name)
          /\ \A j \in d + 1 .. d + p : j = v \/ b[j] = Permuted(Part(t))[j - d]
          /\ \A j \in d + p + 1 .. n : j = v \/ b[j] = a[j]
      BY <1>3, <2>1, <3>1 DEF Rewritten
    <3>3. ASSUME NEW j \in d + 1 .. v - 1  PROVE b[j] # Dashes
      <4>1. j \in d + 1 .. d + p /\ j # v /\ j - d \in 1 .. p
        BY <1>1, <1>4, <3>1
      <4>2. PICK h \in 1 .. p : Part(t)[h] = Permuted(Part(t))[j - d]
        BY <2>3, <4>1, PermutedFrom
      <4>3. t[h] # Dashes
        BY <2>3, <4>2 DEF IsPartLen, NoDashes
      <4> QED
        BY <2>3, <3>2, <4>1, <4>2, <4>3
    <3>4. ASSUME NEW j \in v + 1 .. n  PROVE b[j] = line[j]
      <4>1. j \in d + p + 1 .. n /\ j # v /\ j \in d + 1 .. n
        BY <1>1, <1>4, <3>1
      <4> QED
        BY <1>6, <1>12, <3>2, <4>1
    <3> QED
      BY <1>10, <2>8, <3>1, <3>2, <3>3, <3>4 DEF ExtArgvOf, d, n, v
  <2> QED
    BY <2>7, <2>8
<1> QED
  BY <1>11, <1>12

(* A later call, on a command line without an extension's in it.           *)
LEMMA LaterCall ==
  ASSUME NEW line, NEW m, NEW a, NEW class, NEW obj, AnyCall(line, m, a, class, obj),
         ObjectOf(class, line, obj), ExtArgvOf(line, a, obj), ~HasNested(line),
         NEW r, r = Parsed(class, obj, a, m.ext_argv, m.ext_argc),
         NEW b, b = ParsedArgs(r, a, m.ext_argv, m.ext_argc)
  PROVE  Made(class, line, m, a, r) /\ ExtArgvOf(line, b, r)
<1> DEFINE d == Start(line)
           n == Len(line)
           t == SubSeq(a, d + 1, n)
           at == m.ext_argv
           q == m.ext_argc
<1>0. /\ line \in CommandLines /\ obj.action \in ActionsOf(class) /\ ArgvOf(line, m, a)
  BY DEF AnyCall
<1>1. /\ class \in Classes /\ obj \in Objects /\ line \in Seq(Args) /\ n \in Nat
      /\ d \in 2 .. n + 1 /\ (HasExt(line) <=> d <= n)
      /\ ~HasExt(line) => at = 0 /\ q = 0 /\ ~(obj.ext_argc > 0)
      /\ HasExt(line) => /\ at = d /\ q = n + 1 - d /\ q \in Nat \ {0}
                         /\ \E k : IsRegion(a, at, q, t, k)
  BY ExtRegion
<1>2. /\ obj.action = ActionAsked(class, ExtPart(line))
      /\ class = "typelib" => obj.casts = CastsAsked(ExtPart(line))
      /\ obj.help_ext_func <=> "help_ext_func" \in KeysOf(ExtPart(line))
  BY DEF ObjectOf
<1>3. /\ obj.ext_argv = 0 /\ obj.ext_argc = 0
      /\ HasExt(line) => SameOptions(t, Rest(line))
      /\ \A j \in d + 1 .. n : a[j] \notin {Dashes, NullArg}
  BY DEF ExtArgvOf
<1>4. a \in Seq(Args) /\ Len(a) = n
  BY <1>0 DEF ArgvOf
<1>5. ExtPart(line) = Rest(line)
  BY <1>0, ExtPartIs
<1> HIDE DEF d, n, t, at, q
<1>6. ASSUME HasExt(line), NEW k, IsRegion(a, at, q, t, k)
      PROVE  k = Len(t) /\ Part(t) = t
  <2>1. /\ t \in Seq(Args) /\ Len(t) = n - d /\ k \in 0 .. n - d
        /\ \A j \in 1 .. n - d : t[j] = a[d + j]
    <3>1. q - 1 = n - d /\ at = d
      BY <1>1, <1>6
    <3> QED
      BY <1>6, <3>1, RegionIs
  <2>2. IsPartLen(t, k)
    BY <1>6 DEF IsRegion
  <2>3. k = Len(t)
    <3> SUFFICES ASSUME k # Len(t)  PROVE FALSE
      OBVIOUS
    <3>1. k + 1 \in 1 .. n - d /\ t[k + 1] = Dashes /\ d + (k + 1) \in d + 1 .. n
      BY <1>1, <1>6, <2>1, <2>2 DEF IsPartLen
    <3>2. a[d + (k + 1)] = Dashes
      BY <2>1, <3>1
    <3> QED
      BY <1>3, <3>1, <3>2 DEF d, n
  <2>4. Part(t) = SubSeq(t, 1, k)
    BY <2>1, <2>2, PartLenDecides
  <2> QED
    BY <2>1, <2>3, <2>4, SubSeqFull
<1>7. Made(class, line, m, a, r)
  <2>1. HasExt(line) => \E k : IsRegion(a, at, q, t, k) /\ SameOptions(Part(t), ExtPart(line))
    <3> SUFFICES ASSUME HasExt(line)
                 PROVE  \E k : IsRegion(a, at, q, t, k) /\ SameOptions(Part(t), ExtPart(line))
      OBVIOUS
    <3>1. PICK k : IsRegion(a, at, q, t, k)
      BY <1>1
    <3>2. Part(t) = t
      BY <1>6, <3>1
    <3> QED
      BY <1>3, <1>5, <3>1, <3>2
  <2> QED
    BY <1>2, <2>1, CallMakes DEF at, q, t, d, n
<1>8. CASE ~HasExt(line)
  <2>1. IsCall(class, obj, a, 0, 0, <<>>) /\ ~HasDashes(a, 0, 0) /\ r = Parsed(class, obj, a, 0, 0)
    BY <1>0, <1>1, <1>8, CallOfNothing DEF at, q
  <2>2. r.ext_argv = 0 /\ r.ext_argc = 0
    BY <1>3, <2>1, ParsedIs
  <2>3. \A j \in d + 1 .. n : FALSE
    BY <1>1, <1>8
  <2> QED
    BY <1>7, <1>8, <2>2, <2>3 DEF ExtArgvOf, d, n
<1>9. CASE HasExt(line)
  <2>1. PICK k : IsRegion(a, at, q, t, k)
    BY <1>1, <1>9
  <2>2. k = Len(t) /\ Part(t) = t /\ at = d
    BY <1>1, <1>6, <1>9, <2>1
  <2>3. Rewritten(b, a, d, t, k, r)
    <3>1. Rewritten(b, a, at, t, k, r)
      BY <1>9, <2>1, CallKeeps DEF at, q, t, d, n
    <3> QED
      BY <2>2, <3>1
  <2>4. ~HasDashes(a, d, q) /\ t \in Seq(Args) /\ IsPartLen(t, k)
    <3>1. (HasDashes(a, d, q) <=> k < Len(t)) /\ t \in Seq(Args)
      BY <2>1, <2>2, RegionIs
    <3>2. ~(k < Len(t))
      <4>1. \A x \in Nat : ~(x < x)
        OBVIOUS
      <4> QED
        BY <2>2, <3>1, <4>1
    <3> QED
      BY <2>1, <3>1, <3>2 DEF IsRegion
  <2>5. r.ext_argv = 0 /\ r.ext_argc = 0
    <3>1. Part(t) \in Seq(Args) /\ SameOptions(Part(t), Part(t))
      BY <2>4, PartLenDecides DEF SameOptions
    <3>2. IsCall(class, obj, a, d, q, Part(t))
      BY <1>0, <1>1, <2>1, <2>2, <3>1, CallInRegion
    <3>3. r = Parsed(class, obj, a, d, q)
      BY <2>2 DEF at, q
    <3> QED
      BY <1>3, <2>4, <3>2, <3>3, ParsedIs
  <2>6. /\ SameOptions(SubSeq(b, d + 1, Len(a)), t)
        /\ \A j \in d + 1 .. Len(a) : b[j] \notin {Dashes, NullArg}
    <3>1. ~(r.ext_argc > 0) /\ \A j \in d + 1 .. Len(a) : a[j] \notin {Dashes, NullArg}
      BY <1>3, <1>4, <2>5 DEF d, n
    <3>2. IsRegion(a, d, q, t, k)
      BY <2>1, <2>2
    <3> QED
      BY <2>2, <2>3, <3>1, <3>2, Rewrites
  <2>7. SameOptions(SubSeq(b, d + 1, n), Rest(line))
    BY <1>3, <1>4, <1>9, <2>6, SameOptionsAre
  <2> QED
    BY <1>4, <1>7, <2>5, <2>6, <2>7 DEF ExtArgvOf, d, n
<1> QED
  BY <1>8, <1>9

-----------------------------------------------------------------------------
(* What is done, in its order.                                             *)

LEMMA PrefixIs ==
  ASSUME NEW T, NEW s \in Seq(T), NEW n \in 0 .. Len(s)
  PROVE  /\ IsPrefix(SubSeq(s, 1, n), s)
         /\ n >= 1 => SubSeq(s, 1, n) = Append(SubSeq(s, 1, n - 1), s[n])
         /\ SubSeq(s, 1, 0) = <<>> /\ SubSeq(s, 1, Len(s)) = s
<1> DEFINE t == SubSeq(s, 1, n)
<1>0. Len(s) \in Nat /\ n \in Nat /\ n <= Len(s)
  OBVIOUS
<1>1. t \in Seq(T) /\ Len(t) = n
  <2>1. \A j \in 1 .. n : s[j] \in T
    BY <1>0, ElementOfSeq
  <2>2. t \in Seq(T) /\ Len(t) = IF 1 <= n THEN n - 1 + 1 ELSE 0
    <3>1. 1 \in Int /\ n \in Int
      BY <1>0
    <3> QED
      BY <2>1, <3>1, SubSeqProperties
  <2> HIDE DEF t
  <2> QED
    BY <1>0, <2>2
<1> HIDE DEF t
<1>2. SubSeq(t, 1, Len(t)) = t
  BY <1>1, SubSeqFull
<1>3. IsPrefix(t, s)
  <2>1. Len(t) <= Len(s) /\ SubSeq(t, 1, Len(t)) = SubSeq(s, 1, Len(t))
    BY <1>0, <1>1, <1>2 DEF t
  <2> QED
    BY <2>1 DEF IsPrefix
<1>4. ASSUME n >= 1  PROVE SubSeq(s, 1, n) = Append(SubSeq(s, 1, n - 1), s[n])
  <2>1. 1 \in 1 .. Len(s) /\ n \in 1 .. Len(s)
    BY <1>0, <1>4
  <2>2. SubSeq(s, 1, n) = SubSeq(s, 1, n - 1) \o <<s[n]>>
    BY <2>1, SubSeqRecursiveSecond
  <2>3. SubSeq(s, 1, n - 1) \in Seq(T) /\ s[n] \in T
    <3>1. \A j \in 1 .. n - 1 : s[j] \in T
      BY <1>0, ElementOfSeq
    <3>2. 1 \in Int /\ n - 1 \in Int
      BY <1>0
    <3> QED
      BY <2>1, <3>1, <3>2, SubSeqProperties, ElementOfSeq
  <2>4. Append(SubSeq(s, 1, n - 1), s[n]) = SubSeq(s, 1, n - 1) \o <<s[n]>>
    BY <2>3, AppendIsConcat
  <2> QED
    BY <2>2, <2>4
<1>5. SubSeq(s, 1, 0) = <<>>
  <2>1. 1 \in Int /\ 0 \in Int /\ 0 < 1
    OBVIOUS
  <2> QED
    BY <2>1, SubSeqEmpty
<1>6. SubSeq(s, 1, Len(s)) = s
  BY SubSeqFull
<1> QED
  BY <1>3, <1>4, <1>5, <1>6 DEF t

LEMMA InputArgsAre ==
  ASSUME NEW line \in CommandLines
  PROVE  InputArgs(line) \in Seq(Args) /\ Len(InputArgs(line)) \in Nat
<1>1. Part(line) \in Seq(Args) /\ SubSeq(line, 2, Len(line)) \in Seq(Args)
      /\ Part(SubSeq(line, 2, Len(line))) = Tail(Part(line))
      /\ IsRegion(line, 1, Len(line), SubSeq(line, 2, Len(line)), Len(Part(line)) - 1)
  BY LineIs, RegionIs
<1>2. Part(SubSeq(line, 2, Len(line))) \in Seq(Args)
  <2>1. PICK k : IsPartLen(SubSeq(line, 2, Len(line)), k)
    BY <1>1, PartIs
  <2> QED
    BY <1>1, <2>1, PartLenDecides
<1>3. Inputs(Tail(Part(line))) \in Seq(Args)
  BY <1>1, <1>2, PermutedIs
<1>4. \A s \in Seq(Args) : Len(s) \in Nat
  OBVIOUS
<1> QED
  BY <1>3, <1>4 DEF InputArgs

LEMMA InputsAskedAre ==
  ASSUME NEW line \in CommandLines
  PROVE  LET given == InputArgs(line)
             none  == InputArgs(line) = <<>> \/ "help_ext_func" \in KeysOf(Part(line))
             asked == InputsAsked(line)
         IN  /\ none => Len(asked) = 1 /\ DOMAIN asked = 1 .. 1 /\ asked[1] = "none"
             /\ ~none => /\ Len(asked) = Len(given) /\ DOMAIN asked = 1 .. Len(given)
                         /\ \A k \in 1 .. Len(given) : asked[k] = given[k].path[1]
             /\ Len(given) \in Nat /\ (given = <<>> <=> Len(given) = 0)
<1> DEFINE given == InputArgs(line)
           none  == InputArgs(line) = <<>> \/ "help_ext_func" \in KeysOf(Part(line))
           asked == InputsAsked(line)
<1>1. given \in Seq(Args)
  BY InputArgsAre
<1>2. asked = IF none THEN <<"none">> ELSE [k \in DOMAIN given |-> given[k].path[1]]
  BY DEF InputsAsked, InputArgs
<1> HIDE DEF given, none, asked
<1>3. Len(given) \in Nat /\ DOMAIN given = 1 .. Len(given) /\ (given = <<>> <=> Len(given) = 0)
  BY <1>1, EmptySeq
<1>4. none => Len(asked) = 1 /\ DOMAIN asked = 1 .. 1 /\ asked[1] = "none"
  <2>1. Len(<<"none">>) = 1 /\ DOMAIN <<"none">> = 1 .. 1 /\ <<"none">>[1] = "none"
    OBVIOUS
  <2> QED
    BY <1>2, <2>1
<1>5. ASSUME ~none
      PROVE  /\ Len(asked) = Len(given) /\ DOMAIN asked = 1 .. Len(given)
             /\ \A k \in 1 .. Len(given) : asked[k] = given[k].path[1]
  <2>1. asked = [k \in 1 .. Len(given) |-> given[k].path[1]]
    BY <1>2, <1>3, <1>5
  <2> QED
    BY <1>3, <2>1
<1> QED
  BY <1>3, <1>4, <1>5 DEF given, none, asked

(* The inputs main reads are those of the command line.                    *)
LEMMA InputsAre ==
  ASSUME cmd \in CommandLines, MainOf(cmd, main), ArgvOf(cmd, main, argv)
  PROVE  /\ Calls \in Nat \ {0} /\ Len(InputsAsked(cmd)) = Calls
         /\ \A k \in 1 .. Calls : InputsAsked(cmd)[k] = Input(k)
<1> DEFINE given == InputArgs(cmd)
           n == Len(InputArgs(cmd))
           asked == InputsAsked(cmd)
           none == InputArgs(cmd) = <<>> \/ "help_ext_func" \in KeysOf(Part(cmd))
<1>1. /\ main.help_ext_func <=> "help_ext_func" \in KeysOf(Part(cmd))
      /\ main.argc = n
  BY DEF MainOf
<1>2. /\ none => Len(asked) = 1 /\ asked[1] = "none"
      /\ ~none => Len(asked) = n /\ \A k \in 1 .. n : asked[k] = given[k].path[1]
      /\ n \in Nat /\ (given = <<>> <=> n = 0)
  BY InputsAskedAre
<1>3. \A j \in 1 .. n : argv[main.argv + j - 1] = given[j]
  BY DEF ArgvOf
<1>4. HasAst <=> ~none
  BY <1>1, <1>2 DEF HasAst
<1> HIDE DEF given, n, asked, none
<1>5. CASE HasAst
  <2>1. Calls = n /\ n > 0
    BY <1>1, <1>5 DEF HasAst, Calls
  <2>2. ASSUME NEW k \in 1 .. n  PROVE asked[k] = Input(k)
    <3>1. Input(k) = argv[main.argv + k - 1].path[1]
      BY <1>5 DEF Input
    <3> QED
      BY <1>2, <1>3, <1>4, <1>5, <3>1
  <2> QED
    BY <1>2, <1>4, <1>5, <2>1, <2>2 DEF asked
<1>6. CASE ~HasAst
  <2>1. Calls = 1 /\ \A k : Input(k) = "none"
    BY <1>6 DEF Calls, Input
  <2>2. \A k \in 1 .. 1 : k = 1
    OBVIOUS
  <2> QED
    BY <1>2, <1>4, <1>6, <2>1, <2>2 DEF asked
<1> QED
  BY <1>5, <1>6

LEMMA AskedSeqIs ==
  ASSUME NEW line \in CommandLines
  PROVE  LET n == Len(InputsAsked(line))
         IN  /\ n \in Nat \ {0}
             /\ Asked(line) = IF Silent(line) THEN <<>>
                              ELSE [k \in 1 .. n |-> EntryAsked(InputsAsked(line)[k], line)]
<1> DEFINE inputs == InputsAsked(line)
           n == Len(inputs)
           e == [k \in 1 .. n |-> EntryAsked(inputs[k], line)]
           s == [k \in DOMAIN inputs |-> InputAsked(inputs[k], line)]
<1>1. n \in Nat \ {0} /\ DOMAIN inputs = 1 .. n
  BY InputsAskedAre
<1>2. Asked(line) = FlattenSeq(s)
  BY DEF Asked
<1>3. ASSUME NEW k \in 1 .. n
      PROVE  InputAsked(inputs[k], line) = IF Silent(line) THEN <<>> ELSE <<EntryAsked(inputs[k], line)>>
  BY <1>1, OneEach
<1> HIDE DEF inputs, n
<1>4. CASE Silent(line)
  <2>1. s = [k \in 1 .. n |-> <<>>]
    BY <1>1, <1>3, <1>4
  <2> HIDE DEF s
  <2>2. FlattenSeq(s) = <<>>
    BY <1>1, <2>1, FlattenNone
  <2> QED
    BY <1>1, <1>2, <1>4, <2>2 DEF inputs, n
<1>5. CASE ~Silent(line)
  <2>1. s = [k \in 1 .. n |-> <<e[k]>>]
    BY <1>1, <1>3, <1>5
  <2>2. e = [k \in 1 .. n |-> e[k]]
    OBVIOUS
  <2> HIDE DEF s, e
  <2>3. FlattenSeq(s) = [k \in 1 .. n |-> e[k]]
    BY <1>1, <2>1, FlattenOnes
  <2>4. Asked(line) = e
    BY <1>2, <2>2, <2>3
  <2> QED
    BY <1>1, <1>5, <2>4 DEF e, n, inputs
<1> QED
  BY <1>4, <1>5

(* One more input.                                                         *)
LEMMA RunsAre ==
  ASSUME cmd \in CommandLines, MainOf(cmd, main), ArgvOf(cmd, main, argv)
  PROVE  /\ RunsUpTo(Calls) = Asked(cmd)
         /\ \A n \in 0 .. Calls : IsPrefix(RunsUpTo(n), Asked(cmd))
         /\ \A n \in 1 .. Calls :
              RunsUpTo(n) = IF Silent(cmd) THEN RunsUpTo(n - 1)
                            ELSE Append(RunsUpTo(n - 1), EntryAsked(Input(n), cmd))
<1>0. /\ Calls \in Nat \ {0} /\ Len(InputsAsked(cmd)) = Calls
      /\ \A k \in 1 .. Calls : InputsAsked(cmd)[k] = Input(k)
  BY InputsAre
<1>1. CASE Silent(cmd)
  <2>1. Asked(cmd) = <<>> /\ \A n : RunsUpTo(n) = <<>>
    BY <1>1, AskedSeqIs DEF RunsUpTo
  <2>2. IsPrefix(<<>>, <<>>)
    <3>1. Len(<<>>) <= Len(<<>>) /\ SubSeq(<<>>, 1, Len(<<>>)) = SubSeq(<<>>, 1, Len(<<>>))
      BY EmptySeq
    <3> QED
      BY <3>1 DEF IsPrefix
  <2> QED
    BY <1>1, <2>1, <2>2
<1>2. CASE ~Silent(cmd)
  <2> DEFINE T == {EntryAsked(InputsAsked(cmd)[k], cmd) : k \in 1 .. Calls}
             s == Asked(cmd)
  <2>1. s = [k \in 1 .. Calls |-> EntryAsked(InputsAsked(cmd)[k], cmd)]
    BY <1>0, <1>2, AskedSeqIs
  <2>2. s \in Seq(T) /\ Len(s) = Calls
    <3>1. s \in [1 .. Calls -> T]
      BY <2>1
    <3> HIDE DEF s, T
    <3> QED
      BY <1>0, <3>1
  <2>3. \A n \in 1 .. Calls : s[n] = EntryAsked(Input(n), cmd)
    BY <1>0, <2>1
  <2>4. \A n : RunsUpTo(n) = SubSeq(s, 1, n)
    BY <1>2 DEF RunsUpTo
  <2> HIDE DEF s, T
  <2>5. ASSUME NEW n \in 0 .. Calls
        PROVE  /\ IsPrefix(SubSeq(s, 1, n), s)
               /\ n >= 1 => SubSeq(s, 1, n) = Append(SubSeq(s, 1, n - 1), s[n])
               /\ SubSeq(s, 1, 0) = <<>> /\ SubSeq(s, 1, Len(s)) = s
    BY <2>2, PrefixIs
  <2>6. 0 \in 0 .. Calls /\ \A n \in 1 .. Calls : n \in 0 .. Calls /\ n >= 1
    BY <1>0
  <2>7. RunsUpTo(Calls) = s
    BY <2>2, <2>4, <2>5, <2>6
  <2>8. ASSUME NEW n \in 1 .. Calls
        PROVE  RunsUpTo(n) = Append(RunsUpTo(n - 1), EntryAsked(Input(n), cmd))
    BY <2>3, <2>4, <2>5, <2>6
  <2> QED
    BY <1>2, <2>4, <2>5, <2>7, <2>8 DEF s
<1> QED
  BY <1>1, <1>2

(* Before anything is done.                                                *)
LEMMA RunsBegin ==
  ASSUME cmd \in CommandLines
  PROVE  RunsUpTo(0) = <<>> /\ IsPrefix(<<>>, Asked(cmd))
<1> DEFINE n == Len(InputsAsked(cmd))
           s == Asked(cmd)
<1>1. n \in Nat \ {0} /\ s = IF Silent(cmd) THEN <<>>
                             ELSE [k \in 1 .. n |-> EntryAsked(InputsAsked(cmd)[k], cmd)]
  BY AskedSeqIs
<1>2. \A t : SubSeq(t, 1, 0) = <<>>
  <2> SUFFICES ASSUME NEW t  PROVE SubSeq(t, 1, 0) = <<>>
    OBVIOUS
  <2>1. 1 \in Int /\ 0 \in Int /\ 0 < 1
    OBVIOUS
  <2> QED
    BY <2>1, SubSeqEmpty
<1>3. RunsUpTo(0) = <<>>
  BY <1>2 DEF RunsUpTo
<1> HIDE DEF n, s
<1>4. Len(s) \in Nat
  <2>1. CASE Silent(cmd)
    BY <1>1, <2>1, EmptySeq
  <2>2. CASE ~Silent(cmd)
    <3>1. s = [k \in 1 .. n |-> EntryAsked(InputsAsked(cmd)[k], cmd)]
      BY <1>1, <2>2
    <3> QED
      BY <1>1, <3>1
  <2> QED
    BY <2>1, <2>2
<1>5. IsPrefix(<<>>, s)
  <2>1. Len(<<>>) = 0
    BY EmptySeq
  <2>2. Len(<<>>) <= Len(s) /\ SubSeq(<<>>, 1, Len(<<>>)) = SubSeq(s, 1, Len(<<>>))
    BY <1>2, <1>4, <2>1
  <2> QED
    BY <2>2 DEF IsPrefix
<1> QED
  BY <1>3, <1>5 DEF s

-----------------------------------------------------------------------------
(* The first inductive invariant, for all command lines.                   *)

LEMMA FunctionIsPath ==
  ASSUME TInv, mainFunc # NoPath
  PROVE  /\ Class \in {"printer", "typelib", "user"}
         /\ Class = Modules[Function(cmd)].class /\ Function(cmd) \in DOMAIN Modules
BY FunctionIs DEF TInv, StateOf, FuncOf, Class

(* A step that leaves the command line and its objects as they are.        *)
LEMMA Moves ==
  ASSUME TInv, pc \notin {"start", "ended"}, mainFunc # NoPath,
         UNCHANGED <<cmd, argv, main, lib, mainFunc, i>>,
         \/ pc' = "loop" /\ code' = code
         \/ pc' = "nested" /\ Class = "typelib" /\ i >= 1 /\ code' = code
         \/ pc' = "ended" /\ code' \in Nat
  PROVE  TInv'
<1>1. /\ cmd \in CommandLines /\ code \in Int /\ (pc = "ended") = (code # -1)
      /\ MainOf(cmd, main) /\ ArgvOf(cmd, main, argv) /\ i \in 0 .. Calls /\ LibOf(cmd, lib)
  BY DEF TInv, StateOf
<1>2. /\ cmd' = cmd /\ argv' = argv /\ main' = main /\ lib' = lib /\ mainFunc' = mainFunc /\ i' = i
  OBVIOUS
<1>3. Calls' = Calls /\ Class' = Class
  BY <1>2 DEF Calls, HasAst, Class
<1>4. StateOf'
  <2>1. code' \in Int /\ (pc' = "ended") = (code' # -1)
    BY <1>1
  <2>2. pc' \in {"loop", "nested", "ended"} /\ pc' # "start"
    OBVIOUS
  <2> QED
    BY <1>1, <1>2, <1>3, <2>1, <2>2 DEF StateOf
<1>5. FuncOf'
  BY <1>2, <1>3 DEF TInv, FuncOf
<1> QED
  BY <1>4, <1>5 DEF TInv

LEMMA TInit ==
  ASSUME Init  PROVE TInv
<1>1. "program" \in Classes /\ "printer" \in Classes
  BY DEF Classes
<1>2. main.argc = 0 /\ main.help_ext_func = FALSE /\ lib \in Objects /\ lib.ext_argc = 0
  BY <1>1, NewOptionsAre DEF Init
<1>3. i \in 0 .. Calls
  BY <1>2 DEF Init, Calls, HasAst
<1>4. StateOf
  BY <1>2, <1>3 DEF Init, StateOf, Unparsed, LibOf
<1>5. FuncOf
  BY DEF Init, FuncOf
<1> QED
  BY <1>4, <1>5 DEF TInv

LEMMA TParseMain ==
  ASSUME TInv, ParseMain  PROVE TInv'
<1>1. /\ cmd \in CommandLines /\ code = -1 /\ i = 0 /\ LibOf(cmd, lib)
      /\ main = NewOptions("program") /\ argv = cmd /\ mainFunc = NoPath /\ nodeFunc = NoPath /\ runs = <<>>
  BY DEF TInv, StateOf, Unparsed, ParseMain
<1>2. /\ cmd' = cmd /\ lib' = lib /\ mainFunc' = NoPath /\ nodeFunc' = NoPath /\ i' = 0 /\ runs' = <<>>
  BY <1>1 DEF ParseMain
<1>3. CASE /\ main' = Parsed("program", main, argv, 1, Len(argv))
           /\ argv' = ParsedArgs(main', argv, 1, Len(argv))
           /\ pc' = "loop" /\ code' = code
  <2>1. MainOf(cmd, main') /\ ArgvOf(cmd, main', argv') /\ Untouched(cmd, main', argv')
    BY <1>1, <1>3, MainParsed
  <2>2. Calls' \in Nat \ {0}
    <3>1. main'.argc \in Nat
      BY <1>1, <2>1, InputArgsAre DEF MainOf
    <3> QED
      BY <3>1 DEF Calls, HasAst
  <2>3. 0 \in 0 .. Calls'
    BY <2>2
  <2>4. StateOf'
    BY <1>1, <1>2, <1>3, <2>1, <2>3 DEF StateOf
  <2>5. FuncOf'
    BY <1>2, <1>3, <2>1 DEF FuncOf
  <2> QED
    BY <2>4, <2>5 DEF TInv
<1>4. CASE pc' = "ended" /\ code' \in {0, 1} /\ main' = main /\ argv' = argv
  <2>1. Calls' = Calls /\ i \in 0 .. Calls
    BY <1>4 DEF Calls, HasAst, TInv, StateOf
  <2>2. StateOf'
    BY <1>1, <1>2, <1>4, <2>1 DEF StateOf, Unparsed
  <2>3. FuncOf'
    BY <1>2, <1>4 DEF FuncOf
  <2> QED
    BY <2>2, <2>3 DEF TInv
<1> QED
  BY <1>3, <1>4 DEF ParseMain, Exit

LEMMA TNextInput ==
  ASSUME TInv, NextInput  PROVE TInv'
<1>1. /\ cmd \in CommandLines /\ code = -1 /\ pc = "loop"
      /\ MainOf(cmd, main) /\ ArgvOf(cmd, main, argv) /\ i \in 0 .. Calls /\ LibOf(cmd, lib)
  BY DEF TInv, StateOf, NextInput
<1>2. /\ cmd' = cmd /\ argv' = argv /\ main' = main /\ lib' = lib
      /\ mainFunc' = mainFunc /\ nodeFunc' = nodeFunc /\ runs' = runs
  BY DEF NextInput
<1>3. Calls' = Calls /\ Class' = Class /\ Calls \in Nat
  BY <1>1, <1>2, InputsAre DEF Calls, HasAst, Class
<1>4. CASE i < Calls /\ i' = i + 1 /\ pc' = "run" /\ code' = code
  <2>1. i' \in 0 .. Calls /\ i' >= 1
    BY <1>1, <1>3, <1>4
  <2>2. StateOf'
    BY <1>1, <1>2, <1>3, <1>4, <2>1 DEF StateOf
  <2>3. FuncOf'
    BY <1>1, <1>2, <1>3, <1>4, <2>1 DEF TInv, FuncOf
  <2> QED
    BY <2>2, <2>3 DEF TInv
<1>5. CASE pc' = "ended" /\ code' \in {0, 1} /\ i' = i
  <2>1. StateOf'
    BY <1>1, <1>2, <1>3, <1>5 DEF StateOf
  <2>2. FuncOf'
    BY <1>1, <1>2, <1>3, <1>5 DEF TInv, FuncOf
  <2> QED
    BY <2>1, <2>2 DEF TInv
<1> QED
  BY <1>4, <1>5 DEF NextInput, Exit

(* What is loaded is what is asked for, and stays loaded.                  *)
LEMMA LoadedIs ==
  ASSUME TInv, pc = "run", main.ext_func_name # NoPath
  PROVE  /\ NameAsked(cmd) # NoPath /\ Loaded(mainFunc, main) = Function(cmd)
         /\ Loaded(mainFunc, main) \in DOMAIN Modules =>
              /\ Function(cmd) # NoPath
              /\ Modules[Function(cmd)].class \in {"printer", "typelib", "user"}
<1>1. /\ cmd \in CommandLines /\ MainOf(cmd, main)
  BY DEF TInv, StateOf
<1>2. NameAsked(cmd) # NoPath /\ main.home_dir = DirName(cmd[1].path)
  BY <1>1 DEF MainOf
<1>3. Loaded(mainFunc, main) = Function(cmd)
  <2>1. CASE mainFunc = NoPath
    <3>1. main.ext_func_name = NameAsked(cmd)
      BY <2>1 DEF TInv, FuncOf, Untouched
    <3> QED
      BY <1>1, <1>2, <2>1, <3>1, NameIs DEF Loaded
  <2>2. CASE mainFunc # NoPath
    BY <2>2 DEF TInv, FuncOf, Loaded
  <2> QED
    BY <2>1, <2>2
<1>4. ASSUME Function(cmd) \in DOMAIN Modules
      PROVE  /\ Function(cmd) # NoPath
             /\ Modules[Function(cmd)].class \in {"printer", "typelib", "user"}
  BY <1>1, <1>4, FunctionIs, PathsAre
<1> QED
  BY <1>2, <1>3, <1>4

LEMMA TRun ==
  ASSUME TInv, Run  PROVE TInv'
<1> DEFINE func == Loaded(mainFunc, main)
<1>1. /\ cmd \in CommandLines /\ code = -1 /\ pc = "run"
      /\ MainOf(cmd, main) /\ ArgvOf(cmd, main, argv) /\ i \in 0 .. Calls /\ LibOf(cmd, lib)
      /\ i >= 1
  BY DEF TInv, StateOf, FuncOf, Run
<1>2. /\ cmd' = cmd /\ argv' = argv /\ main' = main /\ nodeFunc' = nodeFunc /\ runs' = runs /\ i' = i
  BY DEF Run
<1>3. Calls' = Calls
  BY <1>2 DEF Calls, HasAst
<1>4. CASE pc' \in {"loop", "ended"} /\ mainFunc' = mainFunc /\ lib' = lib
           /\ (IF pc' = "loop" THEN code' = code ELSE code' = 1)
  <2>1. Class' = Class
    BY <1>4 DEF Class
  <2>2. StateOf'
    BY <1>1, <1>2, <1>3, <1>4 DEF StateOf
  <2>3. FuncOf'
    BY <1>1, <1>2, <1>4, <2>1 DEF TInv, FuncOf
  <2> QED
    BY <2>2, <2>3 DEF TInv
<1>5. CASE /\ main.ext_func_name # NoPath /\ func \in DOMAIN Modules
           /\ mainFunc' = func
           /\ lib' = IF mainFunc = NoPath /\ Modules[func].class # "user"
                     THEN NewOptions(Modules[func].class) ELSE lib
           /\ pc' = IF Modules[func].class = "user" THEN "user" ELSE "parse"
           /\ code' = code
  <2>1. /\ NameAsked(cmd) # NoPath /\ func = Function(cmd) /\ Function(cmd) \in DOMAIN Modules
        /\ func # NoPath /\ Modules[func].class \in {"printer", "typelib", "user"}
    BY <1>1, <1>5, LoadedIs
  <2> HIDE DEF func
  <2>2. Class' = Modules[func].class /\ mainFunc' = func /\ mainFunc' # NoPath
    BY <1>5, <2>1 DEF Class
  <2>3. LibOf(cmd, lib') /\ (Class' # "user" => lib'.action \in ActionsOf(Class'))
    <3>1. CASE mainFunc = NoPath /\ Modules[func].class # "user"
      <4>1. Modules[func].class \in Classes /\ lib' = NewOptions(Modules[func].class)
        BY <1>5, <2>1, <3>1 DEF Classes
      <4>2. lib' \in Objects /\ lib'.ext_argc = 0 /\ lib'.action \in ActionsOf(Modules[func].class)
        BY <4>1, NewOptionsAre
      <4> QED
        BY <2>2, <4>2 DEF LibOf
    <3>2. CASE mainFunc = NoPath /\ Modules[func].class = "user"
      BY <1>1, <1>5, <2>2, <3>2
    <3>3. CASE mainFunc # NoPath
      <4>1. mainFunc = func /\ lib' = lib /\ (Class # "user" => lib.action \in ActionsOf(Class))
        BY <1>5, <2>1, <3>3 DEF TInv, FuncOf
      <4> QED
        BY <1>1, <2>2, <4>1 DEF Class
    <3> QED
      BY <3>1, <3>2, <3>3
  <2>4. pc' \in {"user", "parse"} /\ (pc' = "user" <=> Class' = "user")
    BY <1>5, <2>2
  <2>5. StateOf'
    BY <1>1, <1>2, <1>3, <1>5, <2>3, <2>4 DEF StateOf
  <2>6. FuncOf'
    BY <1>1, <1>2, <2>1, <2>2, <2>3, <2>4 DEF FuncOf
  <2> QED
    BY <2>5, <2>6 DEF TInv
<1> QED
  BY <1>4, <1>5 DEF Run, Exit

LEMMA LibCallIs ==
  ASSUME TInv, pc = "parse"
  PROVE  AnyCall(cmd, main, argv, Class, lib)
<1>1. mainFunc # NoPath /\ Class # "user"
  BY DEF TInv, FuncOf
<1>2. Class \in {"printer", "typelib"}
  BY <1>1, FunctionIsPath
<1> QED
  BY <1>1, <1>2 DEF TInv, StateOf, FuncOf, AnyCall

LEMMA TLibParse ==
  ASSUME TInv, LibParse  PROVE TInv'
<1>1. /\ cmd \in CommandLines /\ code = -1 /\ pc = "parse"
      /\ MainOf(cmd, main) /\ ArgvOf(cmd, main, argv) /\ i \in 0 .. Calls /\ LibOf(cmd, lib)
      /\ i >= 1 /\ mainFunc # NoPath /\ NameAsked(cmd) # NoPath
  BY DEF TInv, StateOf, FuncOf, LibParse
<1>2. AnyCall(cmd, main, argv, Class, lib)
  BY <1>1, LibCallIs
<1>3. /\ cmd' = cmd /\ mainFunc' = mainFunc /\ nodeFunc' = nodeFunc /\ runs' = runs /\ i' = i
  BY DEF LibParse
<1>4. Class' = Class
  BY <1>3 DEF Class
<1>5. CASE /\ lib' = Parsed(Class, lib, argv, main.ext_argv, main.ext_argc)
           /\ argv' = ParsedArgs(lib', argv, main.ext_argv, main.ext_argc)
           /\ main' = [main EXCEPT !.ext_func_name = IF main.ext_argc = 0 THEN @ ELSE Cut(@)]
           /\ \/ pc' = "ended" /\ code' = 0
              \/ pc' = "act" /\ code' = code
  <2>1. LibOf(cmd, lib') /\ lib'.action \in ActionsOf(Class) /\ ArgvOf(cmd, main, argv')
    BY <1>2, <1>5, CallKeeps
  <2>2. /\ MainOf(cmd, main') /\ main'.argv = main.argv /\ main'.argc = main.argc
        /\ main'.help_ext_func = main.help_ext_func
    BY <1>1, <1>5, MainKeeps
  <2>3. ArgvOf(cmd, main', argv')
    BY <2>1, <2>2 DEF ArgvOf
  <2>4. Calls' = Calls
    BY <2>2 DEF Calls, HasAst
  <2>5. pc' \in {"ended", "act"} /\ code' \in Int /\ (pc' = "ended") = (code' # -1)
    BY <1>1, <1>5
  <2>6. StateOf'
    BY <1>1, <1>3, <2>1, <2>2, <2>3, <2>4, <2>5 DEF StateOf
  <2>7. FuncOf'
    BY <1>1, <1>3, <1>4, <2>1, <2>5 DEF TInv, FuncOf
  <2> QED
    BY <2>6, <2>7 DEF TInv
<1>6. CASE pc' = "ended" /\ code' \in {0, 1, 139} /\ UNCHANGED <<lib, argv, main>>
  BY <1>1, <1>3, <1>6, Moves
<1> QED
  BY <1>5, <1>6 DEF LibParse, Exit, Class

LEMMA TTypeOK ==
  ASSUME TInv  PROVE TypeOK
<1>1. cmd \in CommandLines /\ (pc = "ended") = (code # -1) /\ i \in 0 .. Calls
  BY DEF TInv, StateOf
<1>2. CASE Unparsed
  <2>1. main.argc = 0 /\ main.ext_argc = 0 /\ main.help_ext_func = FALSE
    <3>1. "program" \in Classes
      BY DEF Classes
    <3> QED
      BY <1>2, <3>1, NewOptionsAre DEF Unparsed
  <2>2. i <= Calls
    BY <1>2, <2>1 DEF Unparsed, Calls, HasAst
  <2> QED
    BY <1>1, <1>2, <2>1, <2>2 DEF Unparsed, TypeOK
<1>3. CASE MainOf(cmd, main) /\ ArgvOf(cmd, main, argv)
  <2>1. Len(argv) = Len(cmd)
    BY <1>3 DEF ArgvOf
  <2>2. main.argc \in Nat /\ Calls \in Nat
    BY <1>1, <1>3, InputArgsAre, InputsAre DEF MainOf
  <2>3. i <= Calls
    BY <1>1, <2>2
  <2>4. Len(cmd) \in Nat /\ Start(cmd) \in 2 .. Len(cmd) + 1 /\ (HasExt(cmd) <=> Start(cmd) <= Len(cmd))
    BY <1>1, LineIs
  <2>5. /\ main.argv + main.argc = Start(cmd)
        /\ HasExt(cmd) => main.ext_argv = Start(cmd) /\ main.ext_argc = Len(cmd) + 1 - Start(cmd)
        /\ ~HasExt(cmd) => main.ext_argc = 0
    BY <1>3 DEF MainOf
  <2>6. /\ main.ext_argc >= 0
        /\ main.ext_argc > 0 =>
             /\ main.argv + main.argc = main.ext_argv
             /\ main.ext_argv + main.ext_argc = Len(argv) + 1
    BY <2>1, <2>4, <2>5
  <2> QED
    BY <1>1, <2>1, <2>2, <2>3, <2>6 DEF TypeOK
<1> QED
  BY <1>2, <1>3 DEF TInv, StateOf

(* Every step of the program keeps the first invariant.                    *)
LEMMA TStep ==
  ASSUME TInv, [Next]_vars  PROVE TInv'
<1>1. CASE ParseMain
  BY <1>1, TParseMain
<1>2. CASE NextInput
  BY <1>2, TNextInput
<1>3. CASE Run
  BY <1>3, TRun
<1>4. CASE LibParse
  BY <1>4, TLibParse
<1>5. CASE UserFunc \/ PrinterAct \/ TypelibAct \/ RunNested
  <2>1. /\ pc \in {"user", "act", "nested"} /\ mainFunc # NoPath /\ code = -1
        /\ pc \in {"user", "act", "nested"} => i >= 1
    BY <1>5 DEF TInv, StateOf, FuncOf, UserFunc, PrinterAct, TypelibAct, RunNested
  <2>2. UNCHANGED <<cmd, argv, main, lib, mainFunc, i>>
    BY <1>5 DEF UserFunc, PrinterAct, TypelibAct, RunNested
  <2>3. \/ pc' = "loop" /\ code' = code
        \/ pc' = "nested" /\ Class = "typelib" /\ code' = code
        \/ pc' = "ended" /\ code' = 1
    <3>1. CASE UserFunc
      BY <3>1 DEF UserFunc, Done, Exit
    <3>2. CASE PrinterAct
      BY <3>2 DEF PrinterAct, Done, Exit
    <3>3. CASE TypelibAct
      BY <3>3 DEF TypelibAct, Done, Exit, Class
    <3>4. CASE RunNested
      BY <3>4 DEF RunNested, Done, Exit
    <3> QED
      BY <1>5, <3>1, <3>2, <3>3, <3>4
  <2> QED
    BY <2>1, <2>2, <2>3, Moves
<1>6. CASE UNCHANGED vars
  <2>1. UNCHANGED <<cmd, argv, main, lib, mainFunc, nodeFunc, i, runs, pc, code>>
    BY <1>6 DEF vars
  <2>2. Calls' = Calls /\ Class' = Class
    BY <2>1 DEF Calls, HasAst, Class
  <2>3. StateOf'
    BY <2>1, <2>2 DEF TInv, StateOf, Unparsed
  <2>4. FuncOf'
    BY <2>1, <2>2 DEF TInv, FuncOf
  <2> QED
    BY <2>3, <2>4 DEF TInv
<1> QED
  BY <1>1, <1>2, <1>3, <1>4, <1>5, <1>6 DEF Next

(* The inputs of the program lie before the command line of its extension, *)
(* which ends with argv, and none is run that was not given: main and the  *)
(* extensions rewrite one array, in which the parts keep their places.     *)
THEOREM ProgramTyped == Spec => []TypeOK
<1>1. Init => TInv
  BY TInit
<1>2. TInv /\ [Next]_vars => TInv'
  BY TStep
<1>3. TInv => TypeOK
  BY TTypeOK
<1> QED
  BY <1>1, <1>2, <1>3, PTL DEF Spec

-----------------------------------------------------------------------------
(* The second inductive invariant, for the command lines that are read the *)
(* same way each time.                                                     *)

LEMMA Midway ==
  ASSUME IInv, pc \notin {"start", "ended"}
  PROVE  /\ cmd \in CommandLines /\ MainOf(cmd, main) /\ ArgvOf(cmd, main, argv)
         /\ code = -1 /\ Calls \in Nat \ {0} /\ i \in 0 .. Calls /\ i \in Nat
         /\ pc # "loop" => i \in 1 .. Calls /\ i - 1 \in 0 .. Calls
         /\ IsPrefix(runs, Asked(cmd))
<1>1. /\ cmd \in CommandLines /\ MainOf(cmd, main) /\ ArgvOf(cmd, main, argv) /\ code = -1
      /\ i \in 0 .. Calls /\ pc \in {"loop", "run", "user", "parse", "act", "nested"}
  BY DEF IInv, TInv, StateOf
<1>2. pc # "loop" => i >= 1
  BY <1>1 DEF IInv, TInv, FuncOf
<1>3. /\ Calls \in Nat \ {0}
      /\ \A n \in 0 .. Calls : IsPrefix(RunsUpTo(n), Asked(cmd))
  BY <1>1, InputsAre, RunsAre
<1>4. i \in Nat /\ (pc # "loop" => i \in 1 .. Calls /\ i - 1 \in 0 .. Calls)
  BY <1>1, <1>2, <1>3
<1>5. IsPrefix(runs, Asked(cmd))
  <2>1. CASE pc = "loop"
    <3>1. runs = RunsUpTo(i)
      BY <2>1 DEF IInv, DoneOf
    <3> QED
      BY <1>1, <1>3, <3>1
  <2>2. CASE pc # "loop"
    <3>1. runs = RunsUpTo(i - 1)
      BY <1>1, <2>2 DEF IInv, DoneOf
    <3> QED
      BY <1>3, <1>4, <2>2, <3>1
  <2> QED
    BY <2>1, <2>2
<1> QED
  BY <1>1, <1>3, <1>4, <1>5

(* The program ends.                                                       *)
LEMMA Ends ==
  ASSUME IInv, pc \notin {"start", "ended"}, cmd' = cmd, runs' = runs, pc' = "ended",
         code' = 0 => Informs(cmd) \/ runs = Asked(cmd)
  PROVE  DoneOf'
<1>1. IsPrefix(runs, Asked(cmd))
  BY Midway
<1> QED
  BY <1>1 DEF DoneOf

(* An input is done with.                                                  *)
LEMMA Does ==
  ASSUME IInv, pc \in {"user", "act", "nested"}, mainFunc # NoPath,
         UNCHANGED <<cmd, argv, main, lib, mainFunc, i>>, pc' = "loop",
         Silent(cmd) => runs' = runs,
         ~Silent(cmd) => runs' = Append(runs, EntryAsked(Input(i), cmd)),
         \/ Class = "user" /\ Untouched(cmd, main, argv)
         \/ Class # "user" /\ Settled'
  PROVE  DoneOf'
<1>1. /\ cmd \in CommandLines /\ MainOf(cmd, main) /\ ArgvOf(cmd, main, argv)
      /\ i \in 1 .. Calls
  BY Midway
<1>2. runs = RunsUpTo(i - 1)
  BY DEF IInv, DoneOf
<1>3. RunsUpTo(i) = IF Silent(cmd) THEN RunsUpTo(i - 1)
                    ELSE Append(RunsUpTo(i - 1), EntryAsked(Input(i), cmd))
  BY <1>1, RunsAre
<1>4. runs' = RunsUpTo(i)
  BY <1>2, <1>3
<1>5. /\ cmd' = cmd /\ argv' = argv /\ main' = main /\ mainFunc' = mainFunc /\ i' = i
      /\ pc' = "loop"
  OBVIOUS
<1>6. runs' = RunsUpTo(i)'
  BY <1>4, <1>5 DEF RunsUpTo
<1>7. Class' = Class
  BY <1>5 DEF Class
<1>8. \/ Class' = "user" /\ Untouched(cmd, main, argv)'
      \/ Class' # "user" /\ Settled'
  BY <1>5, <1>7
<1> QED
  BY <1>5, <1>6, <1>8 DEF DoneOf

LEMMA DInit ==
  ASSUME Init  PROVE DoneOf
BY DEF Init, DoneOf

LEMMA MainEnds ==
  ASSUME NEW line \in CommandLines, ParseEnds("program", line, 1, Len(line)) = "exit"
  PROVE  "info" \in KeysOf(Part(line))
<1> DEFINE n == Len(line)
           t == SubSeq(line, 2, Len(line))
           p == Part(line)
           k == Len(Part(line)) - 1
           new == NewOptions("program")
<1>1. /\ line \in Seq(Args) /\ n \in Nat \ {0} /\ p \in Seq(Args)
      /\ IsRegion(line, 1, n, t, k) /\ SameOptions(Part(t), p) /\ line[1].path \in Paths
  BY LineIs
<1>2. "program" \in Classes
  BY DEF Classes
<1>3. new \in Objects /\ new.action = DefaultAction["program"] /\ new.action \in ActionsOf("program")
  BY <1>2, NewOptionsAre
<1> HIDE DEF n, t, p, k, new
<1>4. IsCall("program", new, line, 1, n, p)
  BY <1>1, <1>2, <1>3, CallInRegion
<1>5. ParseEnds("program", line, 1, n) = "exit"
  BY DEF n
<1> QED
  BY <1>4, <1>5, EndsIs DEF p

LEMMA DParseMain ==
  ASSUME IInv, ParseMain  PROVE DoneOf'
<1>1. /\ cmd \in CommandLines /\ i = 0
      /\ main = NewOptions("program") /\ argv = cmd /\ mainFunc = NoPath /\ runs = <<>>
  BY DEF IInv, TInv, StateOf, Unparsed, ParseMain
<1>2. /\ cmd' = cmd /\ mainFunc' = NoPath /\ i' = 0 /\ runs' = <<>>
  BY <1>1 DEF ParseMain
<1>3. RunsUpTo(0) = <<>> /\ IsPrefix(<<>>, Asked(cmd))
  BY <1>1, RunsBegin
<1>4. CASE pc' = "loop"
  <2>1. runs' = RunsUpTo(i)'
    <3>1. RunsUpTo(i)' = RunsUpTo(0)
      BY <1>2 DEF RunsUpTo
    <3> QED
      BY <1>2, <1>3, <3>1
  <2> QED
    BY <1>2, <1>4, <2>1 DEF DoneOf
<1>5. CASE pc' = "ended" /\ code' = 1
  BY <1>2, <1>3, <1>5 DEF DoneOf
<1>6. CASE /\ ParseEnds("program", argv, 1, Len(argv)) = "exit"
           /\ pc' = "ended" /\ code' = 0
  <2>1. "info" \in KeysOf(Part(cmd))
    BY <1>1, <1>6, MainEnds
  <2>2. Informs(cmd)
    BY <2>1 DEF Informs
  <2> QED
    BY <1>2, <1>3, <1>6, <2>2 DEF DoneOf
<1> QED
  BY <1>4, <1>5, <1>6 DEF ParseMain, Exit

LEMMA DNextInput ==
  ASSUME IInv, NextInput  PROVE DoneOf'
<1>1. /\ cmd \in CommandLines /\ MainOf(cmd, main) /\ ArgvOf(cmd, main, argv)
      /\ pc = "loop" /\ Calls \in Nat \ {0} /\ i \in Nat
  BY Midway DEF NextInput
<1>2. /\ cmd' = cmd /\ argv' = argv /\ main' = main /\ lib' = lib
      /\ mainFunc' = mainFunc /\ nodeFunc' = nodeFunc /\ runs' = runs
  BY DEF NextInput
<1>3. runs = RunsUpTo(i)
  BY <1>1 DEF IInv, DoneOf
<1>4. CASE i' = i + 1 /\ pc' = "run"
  <2>1. i' - 1 = i
    BY <1>1, <1>4
  <2>2. runs' = RunsUpTo(i - 1)'
    BY <1>2, <1>3, <2>1 DEF RunsUpTo
  <2>3. mainFunc' = NoPath => i' = 1 \/ NameAsked(cmd)' = NoPath
    <3>1. mainFunc = NoPath => i = 0 \/ NameAsked(cmd) = NoPath
      BY <1>1 DEF IInv, DoneOf
    <3> QED
      BY <1>2, <1>4, <3>1
  <2>4. ASSUME mainFunc' # NoPath
        PROVE  (Class = "user" /\ Untouched(cmd, main, argv)) \/ (Class # "user" /\ Settled')
    <3>1. \/ Class = "user" /\ Untouched(cmd, main, argv)
          \/ Class # "user" /\ Settled
      BY <1>1, <1>2, <2>4 DEF IInv, DoneOf
    <3>2. ASSUME Settled  PROVE Settled'
      <4>1. i' >= 2
        BY <1>1, <1>4, <3>2 DEF Settled
      <4>2. Class' = Class
        BY <1>2 DEF Class
      <4>3. pc' = "run" /\ pc = "loop"
        BY <1>1, <1>4
      <4> QED
        BY <1>2, <3>2, <4>1, <4>2, <4>3 DEF Settled
    <3> QED
      BY <3>1, <3>2
  <2>5. Class' = Class
    BY <1>2 DEF Class
  <2> QED
    BY <1>2, <1>4, <2>2, <2>3, <2>4, <2>5 DEF DoneOf
<1>5. CASE pc' = "ended" /\ code' = 1
  BY <1>1, <1>2, <1>5, Ends
<1>6. CASE pc' = "ended" /\ i = Calls
  <2>1. runs = Asked(cmd)
    BY <1>1, <1>3, <1>6, RunsAre
  <2> QED
    BY <1>1, <1>2, <1>6, <2>1, Ends
<1> QED
  BY <1>4, <1>5, <1>6 DEF NextInput, Exit

LEMMA DRun ==
  ASSUME IInv, Run  PROVE DoneOf'
<1> DEFINE func == Loaded(mainFunc, main)
<1>1. /\ cmd \in CommandLines /\ MainOf(cmd, main) /\ ArgvOf(cmd, main, argv)
      /\ pc = "run" /\ Calls \in Nat \ {0} /\ i \in 1 .. Calls
  BY Midway DEF Run
<1>2. /\ cmd' = cmd /\ argv' = argv /\ main' = main /\ nodeFunc' = nodeFunc /\ runs' = runs /\ i' = i
  BY DEF Run
<1>3. TInv /\ runs = RunsUpTo(i - 1)
  BY <1>1 DEF IInv, DoneOf
<1>4. CASE /\ main.ext_func_name = NoPath
           /\ pc' = "loop" /\ mainFunc' = mainFunc /\ lib' = lib
  <2>1. NameAsked(cmd) = NoPath
    BY <1>1, <1>4 DEF MainOf
  <2>2. mainFunc = NoPath
    BY <1>3, <2>1 DEF TInv, FuncOf
  <2>3. Silent(cmd)
    BY <1>1, <2>1, NameIs DEF Silent
  <2>4. RunsUpTo(i) = RunsUpTo(i - 1)
    BY <1>1, <2>3, RunsAre
  <2>5. runs' = RunsUpTo(i)'
    BY <1>2, <1>3, <2>4 DEF RunsUpTo
  <2> QED
    BY <1>2, <1>4, <2>1, <2>2, <2>5 DEF DoneOf
<1>5. CASE /\ main.ext_func_name # NoPath /\ func \in DOMAIN Modules
           /\ mainFunc' = func
           /\ lib' = IF mainFunc = NoPath /\ Modules[func].class # "user"
                     THEN NewOptions(Modules[func].class) ELSE lib
           /\ pc' = IF Modules[func].class = "user" THEN "user" ELSE "parse"
  <2>1. /\ NameAsked(cmd) # NoPath /\ func = Function(cmd) /\ Function(cmd) \in DOMAIN Modules
        /\ func # NoPath
    BY <1>1, <1>3, <1>5, LoadedIs
  <2> HIDE DEF func
  <2>2. Class' = Modules[func].class /\ mainFunc' = func /\ mainFunc' # NoPath
    BY <1>5, <2>1 DEF Class
  <2>3. pc' \in {"user", "parse"} /\ (pc' = "user" <=> Class' = "user")
    BY <1>5, <2>2
  <2>4. runs' = RunsUpTo(i - 1)'
    BY <1>2, <1>3 DEF RunsUpTo
  <2>5. CASE mainFunc = NoPath
    <3>1. i = 1
      BY <1>1, <2>1, <2>5 DEF IInv, DoneOf
    <3>2. Untouched(cmd, main, argv) /\ nodeFunc = NoPath
      BY <1>1, <1>3, <2>5 DEF TInv, FuncOf
    <3>3. Untouched(cmd, main, argv)'
      BY <1>2, <3>2
    <3>4. Class' # "user" => Fresh'
      BY <1>2, <1>5, <2>2, <2>5, <3>1, <3>2, <3>3 DEF Fresh
    <3> QED
      BY <2>2, <2>3, <2>4, <3>3, <3>4 DEF DoneOf
  <2>6. CASE mainFunc # NoPath
    <3>1. mainFunc = func /\ lib' = lib
      BY <1>3, <1>5, <2>1, <2>6 DEF TInv, FuncOf
    <3>2. Class' = Class
      BY <2>2, <3>1 DEF Class
    <3>3. \/ Class = "user" /\ Untouched(cmd, main, argv)
          \/ Class # "user" /\ Settled
      BY <1>1, <2>6 DEF IInv, DoneOf
    <3>4. CASE Class = "user" /\ Untouched(cmd, main, argv)
      <4>1. Untouched(cmd, main, argv)'
        BY <1>2, <3>4
      <4> QED
        BY <2>2, <2>3, <2>4, <3>2, <3>4, <4>1 DEF DoneOf
    <3>5. CASE Class # "user" /\ Settled
      <4>1. mainFunc' = mainFunc
        BY <2>2, <3>1
      <4>2. pc' = "parse" /\ pc = "run"
        BY <1>1, <2>3, <3>2, <3>5
      <4>3. Settled'
        BY <1>2, <3>1, <3>2, <3>5, <4>1, <4>2 DEF Settled
      <4> QED
        BY <2>2, <2>4, <3>2, <3>5, <4>2, <4>3 DEF DoneOf
    <3> QED
      BY <3>3, <3>4, <3>5
  <2> QED
    BY <2>5, <2>6
<1>6. CASE pc' = "ended" /\ code' = 1
  BY <1>1, <1>2, <1>6, Ends
<1> QED
  BY <1>4, <1>5, <1>6 DEF Run, Exit

(* What the program is asked to do with a function that can be loaded.     *)
LEMMA AskedOf ==
  ASSUME IInv, mainFunc # NoPath, pc # "ended", NEW input
  PROVE  LET act == ActionAsked("program", Part(cmd))
         IN  /\ cmd \in CommandLines /\ mainFunc = Function(cmd)
             /\ Class \in {"user", "printer", "typelib"}
             /\ Class \in {"user", "typelib"} => act = "ext_func" /\ NameAsked(cmd) = FuncAsked(Part(cmd))
             /\ Class = "user" => ~Silent(cmd) /\ EntryAsked(input, cmd) =
                                    Entry(mainFunc, "user", input, "", Rest(cmd))
             /\ Class = "printer" => ~Silent(cmd) /\ EntryAsked(input, cmd) =
                  Entry(mainFunc, IF Modules[mainFunc].act = "printer"
                                  THEN ActionAsked("printer", ExtPart(cmd))
                                  ELSE Modules[mainFunc].act, input, "", <<>>)
             /\ Class = "typelib" =>
                  /\ Silent(cmd) <=> /\ ActionAsked("typelib", ExtPart(cmd)) = "print_obj"
                                     /\ "help_ext_func" \in KeysOf(ExtPart(cmd))
                  /\ TypelibCases(InputAsked(input, cmd), mainFunc,
                                  DirName(FuncAsked(Part(cmd))), input, Rest(cmd))
<1> DEFINE act == ActionAsked("program", Part(cmd))
           func == Function(cmd)
           asked == InputAsked(input, cmd)
<1>1. /\ cmd \in CommandLines /\ mainFunc = func /\ func \in DOMAIN Modules
      /\ NameAsked(cmd) # NoPath /\ Class = Modules[func].class
  BY DEF IInv, TInv, StateOf, FuncOf, Class
<1>2. /\ Modules[func].class \in {"printer", "typelib", "user"}
      /\ act \in Printing => Modules[func].class = "printer" /\ Modules[func].act = act
  BY <1>1, FunctionIs
<1>3. act \in ActionsOf("program") /\ act # "none"
  BY <1>1, NameIs
<1>4. act \in {"ext_func"} \cup Printing
  BY <1>3, ActionsOfAre
<1>5. /\ act \in Printing => asked = <<Entry(func, act, input, "", <<>>)>>
      /\ act = "ext_func" /\ func \in DOMAIN Modules =>
           /\ Modules[func].class = "user" => asked = <<Entry(func, "user", input, "", Rest(cmd))>>
           /\ Modules[func].class = "printer" =>
                asked = <<Entry(func, IF Modules[func].act = "printer"
                                        THEN ActionAsked("printer", Part(Rest(cmd)))
                                        ELSE Modules[func].act, input, "", <<>>)>>
           /\ Modules[func].class = "typelib" =>
                asked = TypelibAsked(func, DirName(FuncAsked(Part(cmd))), input, Rest(cmd))
  BY <1>1, InputAskedIs
<1>6. EntryAsked(input, cmd) = asked[1] /\ \A e : <<e>>[1] = e
  BY DEF EntryAsked
<1>7. act = "ext_func" => NameAsked(cmd) = FuncAsked(Part(cmd))
  BY DEF NameAsked
<1>8. Silent(cmd) <=> /\ act = "ext_func" /\ Modules[func].class = "typelib"
                      /\ ActionAsked("typelib", ExtPart(cmd)) = "print_obj"
                      /\ "help_ext_func" \in KeysOf(ExtPart(cmd))
  BY <1>1, <1>3 DEF Silent, ExtPart
<1>9. "printer" \notin Printing /\ "ext_func" \notin Printing
  BY DEF Printing
<1>10. Rest(cmd) \in Seq(Args)
  BY <1>1, LineIs
<1>11. TypelibCases(TypelibAsked(func, DirName(FuncAsked(Part(cmd))), input, Rest(cmd)), func,
                    DirName(FuncAsked(Part(cmd))), input, Rest(cmd))
  BY <1>10, TypelibAskedIs
<1> HIDE DEF act, func, asked
<1>12. Class \in {"user", "typelib"} => act = "ext_func"
  BY <1>1, <1>2, <1>4
<1>13. Class = "user" => ~Silent(cmd) /\ EntryAsked(input, cmd) =
                           Entry(mainFunc, "user", input, "", Rest(cmd))
  <2> SUFFICES ASSUME Class = "user"
               PROVE  ~Silent(cmd) /\ EntryAsked(input, cmd) =
                        Entry(mainFunc, "user", input, "", Rest(cmd))
    OBVIOUS
  <2>1. asked = <<Entry(mainFunc, "user", input, "", Rest(cmd))>>
    BY <1>1, <1>5, <1>12
  <2>2. Modules[func].class # "typelib"
    BY <1>1
  <2> QED
    BY <1>6, <1>8, <2>1, <2>2
<1>14. Class = "printer" => ~Silent(cmd) /\ EntryAsked(input, cmd) =
         Entry(mainFunc, IF Modules[mainFunc].act = "printer"
                         THEN ActionAsked("printer", ExtPart(cmd))
                         ELSE Modules[mainFunc].act, input, "", <<>>)
  <2> DEFINE own == IF Modules[mainFunc].act = "printer"
                    THEN ActionAsked("printer", ExtPart(cmd)) ELSE Modules[mainFunc].act
  <2> SUFFICES ASSUME Class = "printer"
               PROVE  ~Silent(cmd) /\ EntryAsked(input, cmd) = Entry(mainFunc, own, input, "", <<>>)
    OBVIOUS
  <2>1. CASE act \in Printing
    <3>1. Modules[mainFunc].act = act /\ own = act
      BY <1>1, <1>2, <1>9, <2>1
    <3> HIDE DEF own
    <3>2. asked = <<Entry(mainFunc, own, input, "", <<>>)>>
      BY <1>1, <1>5, <2>1, <3>1
    <3>3. ~Silent(cmd)
      BY <1>1, <1>8
    <3> QED
      BY <1>6, <3>2, <3>3
  <2>2. CASE act = "ext_func"
    <3>1. own = IF Modules[func].act = "printer" THEN ActionAsked("printer", Part(Rest(cmd)))
                ELSE Modules[func].act
      BY <1>1 DEF ExtPart
    <3>2. asked = <<Entry(mainFunc, own, input, "", <<>>)>>
      BY <1>1, <1>5, <2>2, <3>1
    <3> HIDE DEF own
    <3>3. ~Silent(cmd)
      BY <1>1, <1>8
    <3> QED
      BY <1>6, <3>2, <3>3
  <2> QED
    BY <1>4, <2>1, <2>2
<1>15. Class = "typelib" =>
         /\ Silent(cmd) <=> /\ ActionAsked("typelib", ExtPart(cmd)) = "print_obj"
                            /\ "help_ext_func" \in KeysOf(ExtPart(cmd))
         /\ TypelibCases(asked, mainFunc, DirName(FuncAsked(Part(cmd))), input, Rest(cmd))
  <2>1. Class = "typelib" =>
          asked = TypelibAsked(func, DirName(FuncAsked(Part(cmd))), input, Rest(cmd))
    BY <1>1, <1>5, <1>12
  <2> QED
    BY <1>1, <1>8, <1>11, <1>12, <2>1
<1> QED
  BY <1>1, <1>2, <1>7, <1>12, <1>13, <1>14, <1>15 DEF act, func, asked

(* The command line given to an extension that nobody has parsed yet.      *)
LEMMA MainExtArgs ==
  ASSUME cmd \in CommandLines, MainOf(cmd, main), ArgvOf(cmd, main, argv),
         Untouched(cmd, main, argv)
  PROVE  ExtArgs(main) = Rest(cmd)
<1> DEFINE d == Start(cmd)
           n == Len(cmd)
<1>1. /\ cmd \in Seq(Args) /\ n \in Nat \ {0} /\ d \in 2 .. n + 1 /\ (HasExt(cmd) <=> d <= n)
      /\ Rest(cmd) = SubSeq(cmd, d + 1, n) /\ Rest(cmd) \in Seq(Args)
      /\ ~HasExt(cmd) => Rest(cmd) = <<>>
  BY LineIs
<1>2. argv \in Seq(Args) /\ Len(argv) = n
  BY DEF ArgvOf
<1>3. CASE ~HasExt(cmd)
  <2>1. main.ext_argv = 0 /\ main.ext_argc = 0
    BY <1>3 DEF MainOf
  <2>2. ExtArgs(main) = SubSeq(argv, 1, -1)
    BY <2>1 DEF ExtArgs
  <2>3. SubSeq(argv, 1, -1) = <<>>
    <3>1. 1 \in Int /\ -1 \in Int /\ -1 < 1
      OBVIOUS
    <3> QED
      BY <3>1, SubSeqEmpty
  <2> QED
    BY <1>1, <1>3, <2>2, <2>3
<1>4. CASE HasExt(cmd)
  <2>1. main.ext_argv = d /\ main.ext_argc = n + 1 - d
    BY <1>4 DEF MainOf
  <2>2. \A j \in d + 1 .. n : argv[j] = cmd[j]
    BY <1>4 DEF Untouched
  <2> HIDE DEF d, n
  <2>3. d + (n + 1 - d) - 1 = n
    BY <1>1
  <2>4. ExtArgs(main) = SubSeq(argv, d + 1, n)
    BY <2>1, <2>3 DEF ExtArgs
  <2>5. d + 1 \in 1 .. n + 1 /\ n \in (d + 1) - 1 .. n
    BY <1>1, <1>4
  <2>6. /\ Len(SubSeq(argv, d + 1, n)) = n - (d + 1) + 1 /\ SubSeq(argv, d + 1, n) \in Seq(Args)
        /\ \A j \in 1 .. n - (d + 1) + 1 : SubSeq(argv, d + 1, n)[j] = argv[d + 1 + j - 1]
    BY <1>2, <2>5, SubSeqIs
  <2>7. ASSUME NEW j \in 1 .. n - (d + 1) + 1
        PROVE  SubSeq(argv, d + 1, n)[j] = cmd[d + 1 + j - 1]
    <3>1. d + 1 + j - 1 \in d + 1 .. n
      BY <1>1
    <3> QED
      BY <2>2, <2>6, <3>1
  <2>8. n = Len(cmd)
    BY DEF n
  <2>9. \A s \in Seq(Args) :
          Len(s) = n - (d + 1) + 1 /\ (\A j \in 1 .. n - (d + 1) + 1 : s[j] = cmd[d + 1 + j - 1]) =>
            s = SubSeq(cmd, d + 1, n)
    <3>1. d + 1 \in 1 .. Len(cmd) + 1 /\ n \in (d + 1) - 1 .. Len(cmd)
      BY <2>5, <2>8
    <3> QED
      BY <1>1, <3>1, SubSeqIs
  <2>10. SubSeq(argv, d + 1, n) = SubSeq(cmd, d + 1, n)
    BY <2>6, <2>7, <2>9, Zenon
  <2> QED
    BY <1>1, <2>4, <2>10
<1> QED
  BY <1>3, <1>4

LEMMA DUserFunc ==
  ASSUME IInv, UserFunc  PROVE DoneOf'
<1>1. /\ cmd \in CommandLines /\ MainOf(cmd, main) /\ ArgvOf(cmd, main, argv)
      /\ pc = "user" /\ Calls \in Nat \ {0} /\ i \in 1 .. Calls
  BY Midway DEF UserFunc
<1>2. UNCHANGED <<cmd, argv, main, lib, mainFunc, i>>
  BY DEF UserFunc
<1>3. mainFunc # NoPath /\ Class = "user"
  BY <1>1 DEF IInv, TInv, FuncOf
<1>4. Untouched(cmd, main, argv)
  BY <1>1, <1>3 DEF IInv, DoneOf
<1>5. ~Silent(cmd) /\ EntryAsked(Input(i), cmd) = Entry(mainFunc, "user", Input(i), "", Rest(cmd))
  BY <1>1, <1>3, AskedOf
<1>6. ExtArgs(main) = Rest(cmd)
  BY <1>1, <1>4, MainExtArgs
<1>7. CASE Done(mainFunc, "user", "", ExtArgs(main))
  <2>1. pc' = "loop" /\ runs' = Append(runs, EntryAsked(Input(i), cmd))
    BY <1>5, <1>6, <1>7 DEF Done
  <2> QED
    BY <1>1, <1>2, <1>3, <1>4, <1>5, <2>1, Does
<1>8. CASE pc' = "ended" /\ code' = 1 /\ runs' = runs
  BY <1>1, <1>2, <1>8, Ends
<1> QED
  BY <1>7, <1>8 DEF UserFunc, Exit

(* A type library that is given no options of its own checks types.        *)
LEMMA NothingAsked ==
  ActionAsked("typelib", <<>>) = "type_check"
<1> DEFINE e == <<>>
<1>1. "typelib" \in Classes /\ DefaultAction["typelib"] = "type_check"
  BY DEF Classes, DefaultAction
<1>2. e \in Seq(Args) /\ Len(e) = 0
  BY EmptySeq
<1> HIDE DEF e
<1>3. ~ \E x : LastIn(e, Len(e), ActKeys("typelib"), x)
  BY <1>2 DEF LastIn
<1> QED
  BY <1>1, <1>2, <1>3, AskedIs DEF e

(* What a type library's own extension is, once it has parsed.             *)
LEMMA NestedIs ==
  ASSUME NEW line \in CommandLines, NEW m, NEW a, NEW r, Made("typelib", line, m, a, r),
         Untouched(line, m, a), NameAsked(line) # NoPath, NameAsked(line) = FuncAsked(Part(line)),
         r.action \in NestedActions
  PROVE  FileOf(r.home_dir, r.ext_func_name) = NestedAsked(line)
<1> DEFINE own == ExtPart(line)
           func == FuncAsked(Part(line))
<1>1. /\ r.action = ActionAsked("typelib", own)
      /\ r.action = "ext_func" => r.ext_func_name = FuncAsked(own)
      /\ r.action # "ext_func" => r.ext_func_name = ExtFuncName("typelib", r.action)
      /\ HasExt(line) => r.home_dir = DirName(a[Start(line)].path)
  BY DEF Made, ObjectOf
<1>2. HasExt(line)
  <2>1. ~HasExt(line) => own = <<>>
    BY ExtPartIs
  <2>2. ASSUME own = <<>>  PROVE FALSE
    <3>1. ActionAsked("typelib", own) = "type_check"
      BY <2>2, NothingAsked
    <3> QED
      BY <1>1, <3>1 DEF NestedActions
  <2> QED
    BY <2>1, <2>2
<1>3. a[Start(line)] = Text(func)
  BY <1>2 DEF Untouched, NameArg
<1>4. r.home_dir = DirName(func)
  BY <1>1, <1>2, <1>3 DEF Text
<1>5. r.ext_func_name = IF ActionAsked("typelib", own) = "ext_func" THEN FuncAsked(own)
                        ELSE ExtFuncName("typelib", "print_obj")
  BY <1>1 DEF NestedActions
<1>6. NestedAsked(line) =
        FileOf(DirName(func), IF ActionAsked("typelib", own) = "ext_func" THEN FuncAsked(own)
                              ELSE ExtFuncName("typelib", "print_obj"))
  BY DEF NestedAsked, ExtPart
<1> QED
  BY <1>4, <1>5, <1>6, Zenon

(* Where a second `--' was, only a line that is not plain is read again.   *)
LEMMA NotTwice ==
  ASSUME IInv, IsPlain(cmd), pc = "parse", Settled, HasNested(cmd)
  PROVE  ParseEnds(Class, argv, main.ext_argv, main.ext_argc) = "undefined"
<1> DEFINE k == Len(ExtPart(cmd))
           act == ActionAsked("typelib", ExtPart(cmd))
<1>1. /\ cmd \in CommandLines /\ MainOf(cmd, main) /\ ArgvOf(cmd, main, argv)
      /\ Calls \in Nat \ {0} /\ i \in 1 .. Calls
  BY Midway
<1>2. AnyCall(cmd, main, argv, Class, lib)
  BY LibCallIs DEF IInv
<1>3. /\ ObjectOf(Class, cmd, lib) /\ ExtArgvOf(cmd, argv, lib) /\ i >= 2
      /\ lib.action # "ext_func" => lib.ext_func_name = ExtFuncName(Class, lib.action)
      /\ Class = "printer" => lib.action # "ext_func"
  BY DEF Settled
<1>4. Class \in {"printer", "typelib"} /\ lib.action \in ActionsOf(Class)
  BY <1>2 DEF AnyCall
<1>5. \/ \A j \in DOMAIN Rest(cmd) : Rest(cmd)[j] # Dashes
      \/ Len(InputsAsked(cmd)) = 1
      \/ act \notin NestedActions
  BY DEF IsPlain, ExtPart, NestedActions
<1>6. CASE \A j \in DOMAIN Rest(cmd) : Rest(cmd)[j] # Dashes
  <2>1. Rest(cmd) \in Seq(Args) /\ IsPartLen(Rest(cmd), k)
    BY <1>1, LineIs, ExtPartIs
  <2>2. k < Len(Rest(cmd)) /\ Len(Rest(cmd)) \in Nat
    BY <2>1 DEF HasNested
  <2>3. k \in 0 .. Len(Rest(cmd)) /\ (k = Len(Rest(cmd)) \/ Rest(cmd)[k + 1] = Dashes)
    BY <2>1 DEF IsPartLen
  <2> HIDE DEF k
  <2>4. k + 1 \in 1 .. Len(Rest(cmd)) /\ Rest(cmd)[k + 1] = Dashes
    BY <2>2, <2>3
  <2>5. DOMAIN Rest(cmd) = 1 .. Len(Rest(cmd))
    BY <2>1
  <2> QED
    BY <1>6, <2>4, <2>5
<1>7. CASE Len(InputsAsked(cmd)) = 1
  <2>1. Calls = 1
    BY <1>1, <1>7, InputsAre
  <2> QED
    BY <1>1, <1>3, <2>1
<1>8. CASE act \notin NestedActions
  <2>1. lib.ext_func_name = NoPath
    <3>1. CASE Class = "printer"
      BY <1>3, <3>1, FuncNamesAre
    <3>2. CASE Class = "typelib"
      <4>1. lib.action = act /\ lib.action # "ext_func"
        BY <1>3, <1>8, <3>2 DEF ObjectOf, NestedActions
      <4>2. lib.action \in {"type_check", "ast_build", "print_types"}
        <5> HIDE DEF act
        <5>1. lib.action \notin {"print_obj", "ext_func"}
          BY <1>8, <4>1 DEF NestedActions
        <5> QED
          BY <1>4, <3>2, <5>1, ActionsOfAre
      <4> QED
        BY <1>3, <3>2, <4>1, <4>2, FuncNamesAre
    <3> QED
      BY <1>4, <3>1, <3>2
  <2> QED
    BY <1>2, <1>3, <2>1, NullCall
<1> QED
  BY <1>5, <1>6, <1>7, <1>8

(* Whether the extension parses its command line for the first time or not,*)
(* its object and argv are what its part of the command line asks for.     *)
LEMMA LibMade ==
  ASSUME IInv, IsPlain(cmd), pc = "parse",
         NEW how, how = ParseEnds(Class, argv, main.ext_argv, main.ext_argc), how # "undefined",
         NEW r, r = Parsed(Class, lib, argv, main.ext_argv, main.ext_argc),
         NEW b, b = ParsedArgs(r, argv, main.ext_argv, main.ext_argc)
  PROVE  /\ Made(Class, cmd, main, argv, r) /\ ExtArgvOf(cmd, b, r)
         /\ nodeFunc = NoPath \/ nodeFunc = NestedAsked(cmd)
         /\ nodeFunc = NoPath /\ Class = "typelib" /\ r.action \in NestedActions =>
              FileOf(r.home_dir, r.ext_func_name) = NestedAsked(cmd)
<1>1. cmd \in CommandLines
  BY Midway
<1>2. AnyCall(cmd, main, argv, Class, lib)
  BY LibCallIs DEF IInv
<1>3. mainFunc # NoPath /\ NameAsked(cmd) # NoPath /\ Class # "user"
  BY DEF IInv, TInv, FuncOf
<1>4. Fresh \/ Settled
  BY <1>3 DEF IInv, DoneOf
<1>5. CASE Fresh
  <2>1. lib = NewOptions(Class) /\ nodeFunc = NoPath /\ Untouched(cmd, main, argv)
    BY <1>5 DEF Fresh
  <2>2. Made(Class, cmd, main, argv, r) /\ ExtArgvOf(cmd, b, r)
    BY <1>2, <2>1, FirstCall
  <2>3. ASSUME Class = "typelib", r.action \in NestedActions
        PROVE  FileOf(r.home_dir, r.ext_func_name) = NestedAsked(cmd)
    <3>1. NameAsked(cmd) = FuncAsked(Part(cmd))
      BY <1>3, <2>3, AskedOf
    <3>2. Made("typelib", cmd, main, argv, r)
      BY <2>2, <2>3
    <3> QED
      BY <1>1, <1>3, <2>1, <2>3, <3>1, <3>2, NestedIs
  <2> QED
    BY <2>1, <2>2, <2>3
<1>6. CASE Settled
  <2>1. ~HasNested(cmd)
    BY <1>6, NotTwice
  <2>2. ObjectOf(Class, cmd, lib) /\ ExtArgvOf(cmd, argv, lib)
    BY <1>6 DEF Settled
  <2>3. Made(Class, cmd, main, argv, r) /\ ExtArgvOf(cmd, b, r)
    BY <1>2, <2>1, <2>2, LaterCall
  <2>4. r.action = lib.action
    BY <2>2, <2>3 DEF Made, ObjectOf
  <2>5. /\ nodeFunc = NoPath \/ nodeFunc = NestedAsked(cmd)
        /\ Class = "typelib" /\ nodeFunc = NoPath => lib.action \notin NestedActions
    BY <1>6 DEF Settled
  <2> QED
    BY <2>3, <2>4, <2>5
<1> QED
  BY <1>4, <1>5, <1>6

LEMMA DLibParse ==
  ASSUME IInv, IsPlain(cmd), LibParse  PROVE DoneOf'
<1> DEFINE how == ParseEnds(Class, argv, main.ext_argv, main.ext_argc)
<1>1. /\ cmd \in CommandLines /\ MainOf(cmd, main) /\ pc = "parse"
  BY Midway DEF LibParse
<1>2. /\ cmd' = cmd /\ mainFunc' = mainFunc /\ nodeFunc' = nodeFunc /\ runs' = runs /\ i' = i
  BY DEF LibParse
<1>3. Class' = Class /\ Class # "user" /\ mainFunc # NoPath
  BY <1>1, <1>2 DEF IInv, TInv, FuncOf, Class
<1>4. how # "undefined" =>
        Made(Class, cmd, main, argv, Parsed(Class, lib, argv, main.ext_argv, main.ext_argc))
  BY <1>1, LibMade
<1>5. ASSUME how = "return", pc' = "act",
             lib' = Parsed(Class, lib, argv, main.ext_argv, main.ext_argc),
             argv' = ParsedArgs(lib', argv, main.ext_argv, main.ext_argc)
      PROVE  DoneOf'
  <2>1. /\ Made(Class, cmd, main, argv, lib') /\ ExtArgvOf(cmd, argv', lib')
        /\ nodeFunc = NoPath \/ nodeFunc = NestedAsked(cmd)
        /\ nodeFunc = NoPath /\ Class = "typelib" /\ lib'.action \in NestedActions =>
             FileOf(lib'.home_dir, lib'.ext_func_name) = NestedAsked(cmd)
    BY <1>1, <1>5, LibMade
  <2>2. /\ ObjectOf(Class, cmd, lib')
        /\ lib'.action # "ext_func" => lib'.ext_func_name = ExtFuncName(Class, lib'.action)
    BY <2>1 DEF Made
  <2>3. Settled'
    BY <1>2, <1>3, <1>5, <2>1, <2>2 DEF Settled
  <2>4. runs' = RunsUpTo(i - 1)'
    <3>1. runs = RunsUpTo(i - 1)
      BY <1>1 DEF IInv, DoneOf
    <3> QED
      BY <1>2, <3>1 DEF RunsUpTo
  <2> QED
    BY <1>2, <1>3, <1>5, <2>3, <2>4 DEF DoneOf
<1>6. ASSUME pc' = "ended", code' = 0, main.help_ext_func \/ how = "exit"
      PROVE  DoneOf'
  <2>1. main.help_ext_func => "help_ext_func" \in KeysOf(Part(cmd))
    BY <1>1 DEF MainOf
  <2>2. how = "exit" => "info" \in KeysOf(ExtPart(cmd))
    BY <1>4 DEF Made
  <2>3. Informs(cmd)
    BY <1>6, <2>1, <2>2 DEF Informs, ExtPart
  <2> QED
    BY <1>1, <1>2, <1>6, <2>3, Ends
<1>7. ASSUME pc' = "ended", code' \in {1, 139}
      PROVE  DoneOf'
  BY <1>1, <1>2, <1>7, Ends
<1> QED
  BY <1>5, <1>6, <1>7 DEF LibParse, Exit, Class

(* The command line that a type library gives to its extension.            *)
LEMMA LibExtArgs ==
  ASSUME cmd \in CommandLines, ArgvOf(cmd, main, argv), ExtArgvOf(cmd, argv, lib)
  PROVE  ExtArgs(lib) = Rest(Rest(cmd))
<1> DEFINE v == Second(cmd)
           n == Len(cmd)
<1>1. /\ cmd \in Seq(Args) /\ n \in Nat \ {0}
  BY LineIs
<1>2. argv \in Seq(Args) /\ Len(argv) = n
  BY DEF ArgvOf
<1>3. CASE ~HasNested(cmd)
  <2>1. lib.ext_argv = 0 /\ lib.ext_argc = 0
    BY <1>3 DEF ExtArgvOf
  <2>2. ExtArgs(lib) = SubSeq(argv, 1, -1)
    BY <2>1 DEF ExtArgs
  <2>3. SubSeq(argv, 1, -1) = <<>>
    <3>1. 1 \in Int /\ -1 \in Int /\ -1 < 1
      OBVIOUS
    <3> QED
      BY <3>1, SubSeqEmpty
  <2>4. Rest(Rest(cmd)) = <<>>
    BY <1>3, ExtPartIs
  <2> QED
    BY <2>2, <2>3, <2>4
<1>4. CASE HasNested(cmd)
  <2>1. /\ lib.ext_argv = v /\ lib.ext_argc = n + 1 - v
        /\ \A j \in v + 1 .. n : argv[j] = cmd[j]
    BY <1>4 DEF ExtArgvOf
  <2>2. Rest(Rest(cmd)) = SubSeq(cmd, v + 1, n) /\ v \in 3 .. n
    <3>1. v \in Start(cmd) + 1 .. n /\ Rest(Rest(cmd)) = SubSeq(cmd, v + 1, n)
      BY <1>4, ExtPartIs
    <3>2. Start(cmd) \in 2 .. n + 1
      BY LineIs
    <3> HIDE DEF v, n
    <3> QED
      BY <1>1, <3>1, <3>2
  <2>3. n = Len(cmd)
    OBVIOUS
  <2> HIDE DEF v, n
  <2>4. v + (n + 1 - v) - 1 = n
    BY <1>1, <2>2
  <2>5. ExtArgs(lib) = SubSeq(argv, v + 1, n)
    BY <2>1, <2>4 DEF ExtArgs
  <2>6. v + 1 \in 1 .. n + 1 /\ n \in (v + 1) - 1 .. n
    BY <1>1, <2>2
  <2>7. /\ Len(SubSeq(argv, v + 1, n)) = n - (v + 1) + 1 /\ SubSeq(argv, v + 1, n) \in Seq(Args)
        /\ \A j \in 1 .. n - (v + 1) + 1 : SubSeq(argv, v + 1, n)[j] = argv[v + 1 + j - 1]
    BY <1>2, <2>6, SubSeqIs
  <2>8. ASSUME NEW j \in 1 .. n - (v + 1) + 1
        PROVE  SubSeq(argv, v + 1, n)[j] = cmd[v + 1 + j - 1]
    <3>1. v + 1 + j - 1 \in v + 1 .. n
      BY <1>1, <2>2
    <3> QED
      BY <2>1, <2>7, <3>1
  <2>9. \A s \in Seq(Args) :
          Len(s) = n - (v + 1) + 1 /\ (\A j \in 1 .. n - (v + 1) + 1 : s[j] = cmd[v + 1 + j - 1]) =>
            s = SubSeq(cmd, v + 1, n)
    <3>1. v + 1 \in 1 .. Len(cmd) + 1 /\ n \in (v + 1) - 1 .. Len(cmd)
      BY <2>3, <2>6
    <3> QED
      BY <1>1, <3>1, SubSeqIs
  <2>10. SubSeq(argv, v + 1, n) = SubSeq(cmd, v + 1, n)
    BY <2>7, <2>8, <2>9, Zenon
  <2> QED
    BY <2>2, <2>5, <2>10
<1> QED
  BY <1>3, <1>4

(* The object of the extension is settled once its options were parsed.    *)
LEMMA SettledIs ==
  ASSUME IInv, pc \in {"act", "nested"}
  PROVE  /\ Settled /\ mainFunc # NoPath /\ Class # "user"
         /\ lib.action = ActionAsked(Class, ExtPart(cmd))
         /\ Class = "typelib" => lib.casts = CastsAsked(ExtPart(cmd))
         /\ lib.help_ext_func <=> "help_ext_func" \in KeysOf(ExtPart(cmd))
         /\ Class \in {"printer", "typelib"} /\ lib.action \in ActionsOf(Class)
<1>1. mainFunc # NoPath /\ Class # "user" /\ lib.action \in ActionsOf(Class)
  BY DEF IInv, TInv, FuncOf
<1>2. Settled
  BY <1>1 DEF IInv, DoneOf
<1>3. ObjectOf(Class, cmd, lib)
  BY <1>2 DEF Settled
<1>4. Class \in {"printer", "typelib", "user"}
  BY <1>1, FunctionIsPath DEF IInv
<1> QED
  BY <1>1, <1>2, <1>3, <1>4 DEF ObjectOf

LEMMA DPrinterAct ==
  ASSUME IInv, PrinterAct  PROVE DoneOf'
<1> DEFINE own == Modules[mainFunc].act
           act == IF own = "printer" THEN lib.action ELSE own
<1>1. pc = "act" /\ Class = "printer" /\ i \in 1 .. Calls /\ Calls \in Nat \ {0}
  BY Midway DEF PrinterAct, Class
<1>2. UNCHANGED <<cmd, argv, main, lib, mainFunc, nodeFunc, i>>
  BY DEF PrinterAct
<1>3. /\ Settled /\ mainFunc # NoPath /\ lib.action = ActionAsked("printer", ExtPart(cmd))
  BY <1>1, SettledIs
<1>4. ~Silent(cmd) /\ EntryAsked(Input(i), cmd) =
         Entry(mainFunc, IF Modules[mainFunc].act = "printer"
                         THEN ActionAsked("printer", ExtPart(cmd))
                         ELSE Modules[mainFunc].act, Input(i), "", <<>>)
  BY <1>1, <1>3, AskedOf
<1>5. EntryAsked(Input(i), cmd) = Entry(mainFunc, act, Input(i), "", <<>>)
  BY <1>3, <1>4
<1> HIDE DEF act, own
<1>6. CASE lib.action # "ext_func" /\ Done(mainFunc, act, "", <<>>)
  <2>1. pc' = "loop" /\ runs' = Append(runs, EntryAsked(Input(i), cmd))
    BY <1>5, <1>6 DEF Done
  <2>2. Class' = Class
    BY <1>2 DEF Class
  <2>3. Settled'
    <3>1. i >= 1
      BY <1>1
    <3>2. lib.action # "ext_func"
      BY <1>6
    <3> QED
      BY <1>1, <1>2, <1>3, <2>1, <2>2, <3>1, <3>2 DEF Settled
  <2> QED
    BY <1>1, <1>2, <1>3, <1>4, <2>1, <2>3, Does
<1>7. CASE pc' = "ended" /\ code' = 1 /\ runs' = runs
  BY <1>1, <1>2, <1>7, Ends
<1> QED
  BY <1>6, <1>7 DEF PrinterAct, Exit, act, own

LEMMA DTypelibAct ==
  ASSUME IInv, TypelibAct  PROVE DoneOf'
<1> DEFINE asked == InputAsked(Input(i), cmd)
           own == ExtPart(cmd)
<1>1. pc = "act" /\ Class = "typelib" /\ i \in 1 .. Calls /\ Calls \in Nat \ {0}
  BY Midway DEF TypelibAct, Class
<1>2. UNCHANGED <<cmd, argv, main, lib, mainFunc, nodeFunc, i>>
  BY DEF TypelibAct
<1>3. /\ Settled /\ mainFunc # NoPath /\ lib.action = ActionAsked("typelib", own)
      /\ lib.casts = CastsAsked(own)
  BY <1>1, SettledIs
<1>4. /\ Silent(cmd) => lib.action = "print_obj"
      /\ TypelibCases(asked, mainFunc, DirName(FuncAsked(Part(cmd))), Input(i), Rest(cmd))
  BY <1>1, <1>3, AskedOf
<1>5. /\ lib.action = "print_types" => asked = <<Entry(mainFunc, "print_types", Input(i), "", <<>>)>>
      /\ lib.action \in {"type_check", "ast_build"} =>
           asked = <<Entry(mainFunc, lib.action, Input(i), lib.casts, <<>>)>>
  BY <1>3, <1>4 DEF TypelibCases, ExtPart
<1>6. EntryAsked(Input(i), cmd) = asked[1] /\ \A e : <<e>>[1] = e
  BY DEF EntryAsked
<1>7. Class' = Class
  BY <1>2 DEF Class
<1> HIDE DEF asked, own
<1>8. ASSUME lib.action \notin NestedActions, pc' = "loop",
             runs' = Append(runs, EntryAsked(Input(i), cmd))
      PROVE  DoneOf'
  <2>1. Settled'
    BY <1>1, <1>2, <1>3, <1>7, <1>8 DEF Settled
  <2>2. ~Silent(cmd)
    BY <1>4, <1>8 DEF NestedActions
  <2> QED
    BY <1>1, <1>2, <1>3, <1>8, <2>1, <2>2, Does
<1>9. CASE lib.action = "print_types" /\ Done(mainFunc, "print_types", "", <<>>)
  <2>1. pc' = "loop" /\ runs' = Append(runs, EntryAsked(Input(i), cmd))
    BY <1>5, <1>6, <1>9 DEF Done
  <2> QED
    BY <1>8, <1>9, <2>1 DEF NestedActions
<1>10. CASE lib.action \in {"type_check", "ast_build"} /\ Done(mainFunc, lib.action, lib.casts, <<>>)
  <2>1. pc' = "loop" /\ runs' = Append(runs, EntryAsked(Input(i), cmd))
    BY <1>5, <1>6, <1>10 DEF Done
  <2> QED
    BY <1>8, <1>10, <2>1 DEF NestedActions
<1>11. CASE /\ lib.action \in {"print_obj", "ext_func"} /\ HasAst
            /\ pc' = "nested" /\ runs' = runs
  <2>1. HasAst'
    BY <1>2, <1>11 DEF HasAst
  <2>2. Settled'
    BY <1>1, <1>2, <1>3, <1>7, <1>11, <2>1 DEF Settled, NestedActions
  <2>3. runs' = RunsUpTo(i - 1)'
    <3>1. runs = RunsUpTo(i - 1)
      BY <1>1 DEF IInv, DoneOf
    <3> QED
      BY <1>2, <1>11, <3>1 DEF RunsUpTo
  <2> QED
    BY <1>1, <1>2, <1>3, <1>7, <1>11, <2>2, <2>3 DEF DoneOf
<1>12. CASE pc' = "ended" /\ code' = 1 /\ runs' = runs
  BY <1>1, <1>2, <1>12, Ends
<1> QED
  BY <1>9, <1>10, <1>11, <1>12 DEF TypelibAct, Exit

(* What a type library calls is what it is asked to call.                  *)
LEMMA PrinterIs ==
  ASSUME IInv, pc = "nested"
  PROVE  /\ Printer = NestedAsked(cmd) /\ lib.action \in NestedActions
         /\ Printer \in DOMAIN Modules => Printer # NoPath
         /\ Printer \in DOMAIN Modules /\ lib.action = "print_obj" => Modules[Printer].class # "user"
<1> DEFINE act == ActionAsked("typelib", ExtPart(cmd))
           dir == DirName(FuncAsked(Part(cmd)))
<1>1. Settled /\ mainFunc # NoPath /\ Class = "typelib"
  BY SettledIs DEF IInv, TInv, FuncOf
<1>2. cmd \in CommandLines /\ lib.action = act /\ lib.action \in NestedActions
  BY <1>1, SettledIs, Midway DEF Settled
<1>3. /\ nodeFunc = NoPath \/ nodeFunc = NestedAsked(cmd)
      /\ nodeFunc = NoPath => FileOf(lib.home_dir, lib.ext_func_name) = NestedAsked(cmd)
  BY <1>1, <1>2 DEF Settled
<1>4. Printer = NestedAsked(cmd)
  BY <1>3 DEF Printer, Loaded
<1>5. Printer \in DOMAIN Modules => Printer # NoPath
  BY ModulesAssumption DEF Paths
<1>6. ASSUME Printer \in DOMAIN Modules, lib.action = "print_obj"
      PROVE  Modules[Printer].class # "user"
  <2>1. /\ ExtFuncName("typelib", "print_obj") = ProgramFuncs["print"] /\ "print" \in Printing
    BY FuncNamesAre DEF Printing
  <2>2. NestedAsked(cmd) = FileOf(dir, IF act = "ext_func" THEN FuncAsked(ExtPart(cmd))
                                       ELSE ExtFuncName("typelib", "print_obj"))
    BY DEF NestedAsked, ExtPart
  <2>3. act # "ext_func"
    BY <1>2, <1>6
  <2>4. dir \in Paths
    <3>1. NameAsked(cmd) = FuncAsked(Part(cmd)) /\ NameAsked(cmd) # NoPath
      BY <1>1, AskedOf DEF IInv, TInv, FuncOf
    <3>2. NameAsked(cmd) \in Seq(Words)
      BY <1>2, NameIs
    <3>3. FuncAsked(Part(cmd)) \in Paths
      BY <3>1, <3>2 DEF Paths
    <3> QED
      BY <3>3, PathsAre
  <2> HIDE DEF act, dir
  <2>5. Printer = FileOf(dir, ProgramFuncs["print"])
    BY <1>4, <2>1, <2>2, <2>3
  <2>6. \/ Modules[Printer].class = "printer" /\ Modules[Printer].act = "print"
        \/ Modules[Printer].class = "nodes"
    BY <1>6, <2>1, <2>4, <2>5, LastOfFile
  <2> QED
    BY <2>6
<1> QED
  BY <1>2, <1>4, <1>5, <1>6

LEMMA DRunNested ==
  ASSUME IInv, RunNested  PROVE DoneOf'
<1> DEFINE asked == InputAsked(Input(i), cmd)
           own == ExtPart(cmd)
           dir == DirName(FuncAsked(Part(cmd)))
<1>1. /\ pc = "nested" /\ Class = "typelib" /\ i \in 1 .. Calls /\ Calls \in Nat \ {0}
      /\ cmd \in CommandLines /\ ArgvOf(cmd, main, argv)
  BY Midway DEF RunNested, IInv, TInv, FuncOf
<1>2. UNCHANGED <<cmd, argv, main, lib, mainFunc, i>>
  BY DEF RunNested
<1>3. /\ Settled /\ mainFunc # NoPath /\ lib.action = ActionAsked("typelib", own)
      /\ lib.casts = CastsAsked(own) /\ (lib.help_ext_func <=> "help_ext_func" \in KeysOf(own))
  BY <1>1, SettledIs
<1>4. /\ Silent(cmd) <=> lib.action = "print_obj" /\ lib.help_ext_func
      /\ TypelibCases(asked, mainFunc, dir, Input(i), Rest(cmd))
  BY <1>1, <1>3, AskedOf
<1>5. /\ Printer = NestedAsked(cmd) /\ lib.action \in {"print_obj", "ext_func"}
      /\ Printer \in DOMAIN Modules => Printer # NoPath
      /\ Printer \in DOMAIN Modules /\ lib.action = "print_obj" => Modules[Printer].class # "user"
  BY <1>1, PrinterIs DEF NestedActions
<1>6. NestedAsked(cmd) = FileOf(dir, IF lib.action = "ext_func" THEN FuncAsked(own)
                                     ELSE ExtFuncName("typelib", "print_obj"))
  BY <1>3 DEF NestedAsked, ExtPart
<1>7. /\ lib.action = "print_obj" /\ ~lib.help_ext_func =>
           asked = <<Entry(FileOf(dir, ExtFuncName("typelib", lib.action)), "print", Input(i),
                           lib.casts, <<>>)>>
      /\ lib.action = "ext_func" =>
           asked = <<Entry(FileOf(dir, FuncAsked(own)), "user", Input(i),
                           lib.casts, Rest(Rest(cmd)))>>
  BY <1>3, <1>4 DEF TypelibCases, ExtPart
<1>8. EntryAsked(Input(i), cmd) = asked[1] /\ \A e : <<e>>[1] = e
  BY DEF EntryAsked
<1>9. ExtArgs(lib) = Rest(Rest(cmd))
  <2>1. ExtArgvOf(cmd, argv, lib)
    BY <1>3 DEF Settled
  <2> QED
    BY <1>1, <2>1, LibExtArgs
<1> HIDE DEF asked, own, dir
<1>10. ASSUME Printer \in DOMAIN Modules, nodeFunc' = Printer, pc' = "loop",
              Silent(cmd) => runs' = runs,
              ~Silent(cmd) => runs' = Append(runs, EntryAsked(Input(i), cmd))
       PROVE  DoneOf'
  <2>1. Class' = Class
    BY <1>2 DEF Class
  <2>2. nodeFunc' = NestedAsked(cmd) /\ nodeFunc' # NoPath
    BY <1>5, <1>10
  <2>3. i >= 1 /\ NestedAsked(cmd)' = NestedAsked(cmd)
    BY <1>1, <1>2
  <2>4. Settled'
    BY <1>1, <1>2, <1>3, <1>10, <2>1, <2>2, <2>3 DEF Settled
  <2>5. Class # "user"
    BY <1>1
  <2> QED
    BY <1>1, <1>2, <1>3, <1>10, <2>4, <2>5, Does
<1>11. CASE /\ Printer \in DOMAIN Modules /\ nodeFunc' = Printer
            /\ Modules[Printer].class = "user" /\ Done(Printer, "user", lib.casts, ExtArgs(lib))
  <2>1. lib.action = "ext_func"
    BY <1>5, <1>11
  <2>2. Printer = FileOf(dir, FuncAsked(own))
    BY <1>5, <1>6, <2>1
  <2>3. asked[1] = Entry(Printer, "user", Input(i), lib.casts, ExtArgs(lib))
    BY <1>7, <1>8, <1>9, <2>1, <2>2
  <2>4. pc' = "loop" /\ runs' = Append(runs, EntryAsked(Input(i), cmd))
    BY <1>8, <1>11, <2>3 DEF Done
  <2>5. ~Silent(cmd)
    BY <1>4, <2>1
  <2> QED
    BY <1>10, <1>11, <2>4, <2>5
<1>12. CASE /\ Printer \in DOMAIN Modules /\ nodeFunc' = Printer
            /\ lib.action # "ext_func" /\ lib.help_ext_func
            /\ pc' = "loop" /\ runs' = runs
  <2>1. Silent(cmd)
    BY <1>4, <1>5, <1>12
  <2> QED
    BY <1>10, <1>12, <2>1
<1>13. CASE /\ Printer \in DOMAIN Modules /\ nodeFunc' = Printer
            /\ lib.action # "ext_func" /\ ~lib.help_ext_func
            /\ Done(Printer, "print", lib.casts, <<>>)
  <2>1. lib.action = "print_obj"
    BY <1>5, <1>13
  <2>2. Printer = FileOf(dir, ExtFuncName("typelib", lib.action))
    BY <1>5, <1>6, <2>1
  <2>3. asked[1] = Entry(Printer, "print", Input(i), lib.casts, <<>>)
    BY <1>7, <1>8, <1>13, <2>1, <2>2
  <2>4. pc' = "loop" /\ runs' = Append(runs, EntryAsked(Input(i), cmd))
    BY <1>8, <1>13, <2>3 DEF Done
  <2>5. ~Silent(cmd)
    BY <1>4, <1>13
  <2> QED
    BY <1>10, <1>13, <2>4, <2>5
<1>14. CASE pc' = "ended" /\ code' = 1 /\ runs' = runs
  BY <1>1, <1>2, <1>14, Ends
<1> QED
  BY <1>11, <1>12, <1>13, <1>14 DEF RunNested, Exit

(* Every step keeps both invariants.                                       *)
LEMMA DStep ==
  ASSUME IInv, IsPlain(cmd), [Next]_vars  PROVE IInv'
<1>1. TInv'
  BY TStep DEF IInv
<1>2. CASE UNCHANGED vars
  <2>1. UNCHANGED <<cmd, argv, main, lib, mainFunc, nodeFunc, i, runs, pc, code>>
    BY <1>2 DEF vars
  <2>2. HasAst' = HasAst /\ Class' = Class
    BY <2>1 DEF HasAst, Class
  <2>3. Settled' <=> Settled
    BY <2>1, <2>2 DEF Settled
  <2>4. Fresh' <=> Fresh
    BY <2>1, <2>2 DEF Fresh
  <2>5. RunsUpTo(i)' = RunsUpTo(i) /\ RunsUpTo(i - 1)' = RunsUpTo(i - 1)
    BY <2>1 DEF RunsUpTo
  <2>6. DoneOf'
    BY <2>1, <2>2, <2>3, <2>4, <2>5 DEF IInv, DoneOf
  <2> QED
    BY <1>1, <2>6 DEF IInv
<1>3. CASE Next
  <2>1. DoneOf'
    BY <1>3, DParseMain, DNextInput, DRun, DUserFunc, DLibParse, DPrinterAct, DTypelibAct,
       DRunNested DEF Next
  <2> QED
    BY <1>1, <2>1 DEF IInv
<1> QED
  BY <1>2, <1>3

LEMMA IsDone ==
  ASSUME IInv  PROVE ActsAsAsked /\ ZeroMeansAll
<1>1. CASE pc \notin {"start", "ended"}
  <2>1. IsPrefix(runs, Asked(cmd)) /\ code = -1
    BY <1>1, Midway
  <2> QED
    BY <2>1 DEF ActsAsAsked, ZeroMeansAll
<1>2. CASE pc = "ended"
  BY <1>2 DEF IInv, DoneOf, ActsAsAsked, ZeroMeansAll
<1>3. CASE pc = "start"
  <2>1. runs = <<>> /\ cmd \in CommandLines /\ code = -1
    BY <1>3 DEF IInv, TInv, StateOf, DoneOf
  <2> QED
    BY <2>1, RunsBegin DEF ActsAsAsked, ZeroMeansAll
<1> QED
  BY <1>1, <1>2, <1>3

LEMMA Invariance ==
  ASSUME \A line \in CommandLines : IsPlain(line)
  PROVE  Spec => []IInv
<1>1. Init => IInv
  BY TInit, DInit DEF IInv
<1>2. IInv /\ [Next]_vars => IInv'
  <2>1. IInv => IsPlain(cmd)
    BY DEF IInv, TInv, StateOf
  <2> QED
    BY <2>1, DStep
<1> QED
  BY <1>1, <1>2, PTL DEF Spec

(* What is done is what the command line asks for, for each input in order,*)
(* however often the line is parsed and rewritten: when no line is one that*)
(* is read otherwise the second time.                                      *)
THEOREM ProgramActsAsAsked ==
  ASSUME \A line \in CommandLines : IsPlain(line)
  PROVE  Spec => []ActsAsAsked
<1>1. Spec => []IInv
  BY Invariance
<1>2. IInv => ActsAsAsked
  BY IsDone
<1> QED
  BY <1>1, <1>2, PTL

(* For the same lines, the program ends with success only if all was done  *)
(* that was asked for, or only information was asked for.                  *)
THEOREM ProgramZeroMeansAll ==
  ASSUME \A line \in CommandLines : IsPlain(line)
  PROVE  Spec => []ZeroMeansAll
<1>1. Spec => []IInv
  BY Invariance
<1>2. IInv => ZeroMeansAll
  BY IsDone
<1> QED
  BY <1>1, <1>2, PTL

(* And for the same lines, a type library is called with the options of its*)
(* own part of the command line, whichever input it is called for.         *)
THEOREM ProgramOptionsAreOwn ==
  ASSUME \A line \in CommandLines : IsPlain(line)
  PROVE  Spec => []OptionsAreOwn
<1>1. Spec => []IInv
  BY Invariance
<1>2. IInv => OptionsAreOwn
  BY SettledIs DEF OptionsAreOwn, Class, ExtPart
<1> QED
  BY <1>1, <1>2, PTL
=============================================================================
