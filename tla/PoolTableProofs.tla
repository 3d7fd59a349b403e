--------------------------- MODULE PoolTableProofs ---------------------------
(***************************************************************************)
(* What the calls of PoolAllocator do to its table, as facts about tables, *)
(* so that they serve the allocator, and the two of them in every AST.     *)
(*                                                                         *)
(* find is right in every sorted table, of any length, on either side of   *)
(* the limit.  The bisection is a recursive function: inductions over the  *)
(* length of a range are made on the least length for which a fact fails.  *)
(***************************************************************************)
EXTENDS PoolTable, SequenceTheorems, WellFoundedInduction, TLAPS

(* A set of numbers has a least member.                                    *)
LEMMA LeastMember ==
  ASSUME NEW S \in SUBSET Nat, S # {}
  PROVE  \E x \in S : \A y \in S : x <= y
<1> DEFINE Less == {ss \in Nat \X Nat : ss[1] < ss[2]}
<1>1. IsWellFoundedOn(Less, Nat)
  BY NatLessThanWellFounded DEF OpToRel
<1>2. PICK x \in S : \A y \in S : ~(<<y, x>> \in Less)
  BY <1>1, WFMin, Zenon
<1>3. ASSUME NEW y \in S  PROVE x <= y
  <2>1. x \in Nat /\ y \in Nat
    OBVIOUS
  <2>2. <<y, x>>[1] = y /\ <<y, x>>[2] = x /\ <<y, x>> \in Nat \X Nat
    BY <2>1
  <2>3. ~(y < x)
    BY <1>2, <2>2, Zenon
  <2> QED
    BY <2>1, <2>3
<1> QED
  BY <1>3

-----------------------------------------------------------------------------
(* The two ranges that a turn can go on with are ranges of the table, and  *)
(* shorter.                                                                *)
LEMMA ShorterRanges ==
  ASSUME NEW t, NEW len \in Nat, NEW first \in Nat, NEW n \in Nat, n > 0, first + n <= len
  PROVE  /\ n \div 2 \in 0 .. n - 1
         /\ n - n \div 2 - 1 \in 0 .. n - 1
         /\ <<first + n \div 2 + 1, n - n \div 2 - 1>> \in Ranges(len)
         /\ <<first, n \div 2>> \in Ranges(len)
<1>1. n \div 2 \in Nat /\ n \div 2 < n
  OBVIOUS
<1>2. PICK half \in Nat : half = n \div 2 /\ half < n
  BY <1>1
<1>3. /\ first + half + 1 \in 0 .. len /\ n - half - 1 \in 0 .. len
      /\ first \in 0 .. len /\ half \in 0 .. len
      /\ (first + half + 1) + (n - half - 1) <= len /\ first + half <= len
  BY <1>2
<1>4. <<first + half + 1, n - half - 1>> \in Ranges(len) /\ <<first, half>> \in Ranges(len)
  BY <1>3 DEF Ranges
<1> QED
  BY <1>2, <1>4

(* A turn asks for nothing but the results of shorter ranges.              *)
LEMMA TurnOfShorter ==
  ASSUME NEW t, NEW len \in Nat, NEW first \in Nat, NEW n \in Nat, first + n <= len,
         NEW what, NEW equal, NEW f, NEW g,
         \A r \in Ranges(len) : r[2] < n => f[r] = g[r]
  PROVE  Turn(t, f, first, n, what, equal) = Turn(t, g, first, n, what, equal)
<1>1. CASE n = 0
  BY <1>1 DEF Turn
<1>2. CASE n > 0
  <2>1. PICK half \in Nat : half = n \div 2 /\ half < n
    BY <1>2
  <2>2. <<first + half + 1, n - half - 1>> \in Ranges(len) /\ <<first, half>> \in Ranges(len)
    BY <1>2, <2>1, ShorterRanges
  <2>3. f[<<first, half>>] = g[<<first, half>>]
    BY <2>1, <2>2
  <2>4. f[<<first + half + 1, n - half - 1>>] = g[<<first + half + 1, n - half - 1>>]
    BY <2>1, <2>2
  <2> QED
    BY <2>1, <2>3, <2>4 DEF Turn
<1> QED
  BY <1>1, <1>2

(* There is a function that all turns agree with: the recursion is         *)
(* well founded.                                                           *)
LEMMA BoundExists ==
  ASSUME NEW t, NEW len \in Nat, NEW what, NEW equal
  PROVE  \E f : f = [r \in Ranges(len) |-> Turn(t, f, r[1], r[2], what, equal)]
<1> DEFINE Upto(m) == {r \in Ranges(len) : r[2] <= m}
           Agrees(f, m) == f = [r \in Upto(m) |-> Turn(t, f, r[1], r[2], what, equal)]
           Bad == {m \in 0 .. len : ~ \E f : Agrees(f, m)}
<1>1. ASSUME NEW r \in Ranges(len)
      PROVE  r[1] \in Nat /\ r[2] \in Nat /\ r[1] + r[2] <= len /\ r = <<r[1], r[2]>>
  BY <1>1 DEF Ranges
<1>2. Bad = {}
  <2> SUFFICES ASSUME Bad # {}  PROVE FALSE
    OBVIOUS
  <2>1. PICK m \in Bad : \A k \in Bad : m <= k
    <3>1. Bad \in SUBSET Nat
      OBVIOUS
    <3> HIDE DEF Bad
    <3> QED
      BY <3>1, LeastMember
  <2>2. m \in 0 .. len /\ ~ \E f : Agrees(f, m)
    OBVIOUS
  <2>3. \E f : \A r \in Ranges(len) : r[2] < m => f[r] = Turn(t, f, r[1], r[2], what, equal)
    <3>1. CASE m = 0
      BY <1>1, <3>1
    <3>2. CASE m > 0
      <4>1. m - 1 \in 0 .. len
        BY <2>2, <3>2
      <4>4. m - 1 \notin Bad
        <5>1. m \in Nat
          BY <2>2
        <5> HIDE DEF Bad
        <5> QED
          BY <2>1, <5>1
      <4>2. PICK f : Agrees(f, m - 1)
        BY <4>1, <4>4
      <4>3. ASSUME NEW r \in Ranges(len), r[2] < m
            PROVE  f[r] = Turn(t, f, r[1], r[2], what, equal)
        <5>1. r \in Upto(m - 1)
          BY <1>1, <2>2, <4>3
        <5> HIDE DEF Upto
        <5> QED
          BY <4>2, <5>1
      <4> QED
        BY <4>3
    <3> QED
      BY <2>2, <3>1, <3>2
  <2>4. PICK f : \A r \in Ranges(len) : r[2] < m => f[r] = Turn(t, f, r[1], r[2], what, equal)
    BY <2>3
  <2> DEFINE g == [r \in Upto(m) |-> Turn(t, f, r[1], r[2], what, equal)]
  <2>5. ASSUME NEW r \in Ranges(len), r[2] < m  PROVE g[r] = f[r]
    <3>1. r \in Upto(m)
      BY <1>1, <2>2, <2>5
    <3> HIDE DEF Upto
    <3> QED
      BY <2>4, <2>5, <3>1
  <2>6. ASSUME NEW r \in Upto(m)
        PROVE  Turn(t, f, r[1], r[2], what, equal) = Turn(t, g, r[1], r[2], what, equal)
    <3>1. r \in Ranges(len) /\ r[2] <= m /\ r[1] \in Nat /\ r[2] \in Nat /\ r[1] + r[2] <= len
      BY <1>1, <2>6
    <3>2. \A q \in Ranges(len) : q[2] < r[2] => f[q] = g[q]
      <4> HIDE DEF g
      <4> QED
        BY <1>1, <2>2, <2>5, <3>1
    <3> HIDE DEF g
    <3> QED
      BY <3>1, <3>2, TurnOfShorter
  <2>7. Agrees(g, m)
    <3>1. g = [r \in Upto(m) |-> Turn(t, g, r[1], r[2], what, equal)]
      <4>1. g = [r \in Upto(m) |-> Turn(t, f, r[1], r[2], what, equal)]
        OBVIOUS
      <4> HIDE DEF g, Upto
      <4> QED
        BY <2>6, <4>1, Zenon
    <3> QED
      BY <3>1, Zenon
  <2> QED
    BY <2>2, <2>7
<1>3. PICK f : Agrees(f, len)
  <2>1. len \in 0 .. len
    OBVIOUS
  <2> HIDE DEF Agrees
  <2> QED
    BY <1>2, <2>1
<1>4. Upto(len) = Ranges(len)
  BY DEF Ranges
<1> QED
  BY <1>3, <1>4

-----------------------------------------------------------------------------
(* The first len elements of t are addresses in ascending order.           *)
Increasing(t, len) ==
  /\ \A i \in 1 .. len : t[i] \in Nat
  /\ \A i, j \in 1 .. len : i < j => t[i] < t[j]

(* What a bisection of the range after first returns: the place up to which*)
(* the elements are to be skipped.                                         *)
Splits(t, b, first, n, what, equal) ==
  /\ b \in Nat /\ first <= b /\ b <= first + n
  /\ \A i \in first + 1 .. first + n : i <= b <=> Skips(t[i], what, equal)

(* If the shorter ranges are split rightly, a turn splits this one.        *)
LEMMA TurnSplits ==
  ASSUME NEW t, NEW len \in Nat, Increasing(t, len),
         NEW first \in Nat, NEW n \in Nat, first + n <= len,
         NEW what \in Nat, NEW equal \in BOOLEAN, NEW bound,
         \A r \in Ranges(len) : r[2] < n => Splits(t, bound[r], r[1], r[2], what, equal)
  PROVE  Splits(t, Turn(t, bound, first, n, what, equal), first, n, what, equal)
<1>0. \A i \in 1 .. len : t[i] \in Nat
  BY DEF Increasing
<1>1. CASE n = 0
  <2>1. Turn(t, bound, first, n, what, equal) = first
    BY <1>1 DEF Turn
  <2> QED
    BY <1>1, <2>1 DEF Splits
<1>2. CASE n > 0
  <2>1. PICK half \in Nat : half = n \div 2 /\ half < n
    BY <1>2
  <2> DEFINE mid == first + half
  <2>2. /\ mid \in Nat /\ mid + 1 \in 1 .. len
        /\ <<mid + 1, n - half - 1>> \in Ranges(len) /\ <<first, half>> \in Ranges(len)
    <3>1. mid \in Nat /\ mid + 1 \in 1 .. len
      BY <2>1
    <3>2. <<first + half + 1, n - half - 1>> \in Ranges(len) /\ <<first, half>> \in Ranges(len)
      BY <1>2, <2>1, ShorterRanges
    <3> QED
      BY <3>1, <3>2
  <2>3. ASSUME NEW i \in first + 1 .. first + n, NEW j \in first + 1 .. first + n, i <= j,
               Skips(t[j], what, equal)
        PROVE  Skips(t[i], what, equal)
    <3>1. i \in 1 .. len /\ j \in 1 .. len
      OBVIOUS
    <3>2. t[i] \in Nat /\ t[j] \in Nat /\ t[i] <= t[j]
      BY <1>0, <2>3, <3>1 DEF Increasing
    <3> QED
      BY <2>3, <3>2 DEF Skips
  <2>4. CASE Skips(t[mid + 1], what, equal)
    <3> DEFINE b == bound[<<mid + 1, n - half - 1>>]
    <3>1. Turn(t, bound, first, n, what, equal) = b
      BY <1>2, <2>1, <2>4 DEF Turn
    <3>2. Splits(t, b, mid + 1, n - half - 1, what, equal)
      BY <2>1, <2>2
    <3>3. ASSUME NEW i \in first + 1 .. first + n, i <= mid + 1
          PROVE  Skips(t[i], what, equal)
      <4>1. mid + 1 \in first + 1 .. first + n
        BY <2>1
      <4> QED
        BY <2>3, <2>4, <3>3, <4>1
    <3>4. b \in Nat /\ mid + 1 <= b /\ b <= first + n
      BY <2>1, <3>2 DEF Splits
    <3>5. ASSUME NEW i \in first + 1 .. first + n
          PROVE  i <= b <=> Skips(t[i], what, equal)
      <4>1. CASE i <= mid + 1
        BY <2>1, <3>3, <3>4, <4>1
      <4>2. CASE i > mid + 1
        <5>1. i \in mid + 2 .. (mid + 1) + (n - half - 1)
          BY <2>1, <4>2
        <5> HIDE DEF mid, b
        <5>2. i \in (mid + 1) + 1 .. (mid + 1) + (n - half - 1)
          BY <5>1, <2>2, <2>1
        <5> QED
          BY <3>2, <5>2 DEF Splits
      <4> QED
        BY <2>1, <4>1, <4>2
    <3> HIDE DEF b
    <3> QED
      BY <3>1, <3>4, <3>5 DEF Splits
  <2>5. CASE ~Skips(t[mid + 1], what, equal)
    <3> DEFINE b == bound[<<first, half>>]
    <3>1. Turn(t, bound, first, n, what, equal) = b
      BY <1>2, <2>1, <2>5 DEF Turn
    <3>2. Splits(t, b, first, half, what, equal)
      BY <2>1, <2>2
    <3>3. ASSUME NEW i \in first + 1 .. first + n, i > mid
          PROVE  ~Skips(t[i], what, equal)
      <4>1. mid + 1 \in first + 1 .. first + n /\ mid + 1 <= i
        BY <2>1, <3>3
      <4> QED
        BY <2>3, <2>5, <4>1
    <3>4. b \in Nat /\ first <= b /\ b <= mid
      BY <3>2 DEF Splits
    <3>5. ASSUME NEW i \in first + 1 .. first + n
          PROVE  i <= b <=> Skips(t[i], what, equal)
      <4>1. CASE i > mid
        BY <2>1, <3>3, <3>4, <4>1
      <4>2. CASE i <= mid
        <5>1. i \in first + 1 .. first + half
          BY <2>1, <4>2
        <5> QED
          BY <3>2, <5>1 DEF Splits
      <4> QED
        BY <2>1, <4>1, <4>2
    <3>6. b <= first + n
      BY <2>1, <3>4
    <3> HIDE DEF b
    <3> QED
      BY <3>1, <3>4, <3>5, <3>6 DEF Splits
  <2> QED
    BY <2>4, <2>5
<1> QED
  BY <1>1, <1>2

(* std::lower_bound and std::upper_bound split a table that is sorted.     *)
LEMMA BisectSplits ==
  ASSUME NEW t, NEW len \in Nat, len = Len(t), Increasing(t, len),
         NEW what \in Nat, NEW equal \in BOOLEAN
  PROVE  Splits(t, Bisect(t, what, equal), 0, len, what, equal)
<1> DEFINE Is(f) == f = [r \in Ranges(len) |-> Turn(t, f, r[1], r[2], what, equal)]
           bound == CHOOSE f : Is(f)
           Bad == {n \in 0 .. len : \E r \in Ranges(len) :
                     r[2] = n /\ ~Splits(t, bound[r], r[1], r[2], what, equal)}
<1>1. Is(bound)
  BY BoundExists
<1>2. Bisect(t, what, equal) = bound[<<0, len>>]
  BY DEF Bisect
<1> HIDE DEF bound
<1>3. ASSUME NEW r \in Ranges(len)
      PROVE  r[1] \in Nat /\ r[2] \in 0 .. len /\ r[1] + r[2] <= len
  BY <1>3 DEF Ranges
<1>4. Bad = {}
  <2> SUFFICES ASSUME Bad # {}  PROVE FALSE
    OBVIOUS
  <2>1. PICK n \in Bad : \A k \in Bad : n <= k
    <3>1. Bad \in SUBSET Nat
      OBVIOUS
    <3> HIDE DEF Bad
    <3> QED
      BY <3>1, LeastMember
  <2>2. n \in Nat
    OBVIOUS
  <2>3. PICK r \in Ranges(len) : r[2] = n /\ ~Splits(t, bound[r], r[1], r[2], what, equal)
    OBVIOUS
  <2>4. ASSUME NEW q \in Ranges(len), q[2] < n
        PROVE  Splits(t, bound[q], q[1], q[2], what, equal)
    <3>1. q[2] \notin Bad
      <4>1. q[2] \in Nat
        BY <1>3
      <4> HIDE DEF Bad
      <4> QED
        BY <2>1, <2>2, <2>4, <4>1
    <3> QED
      BY <1>3, <3>1
  <2>5. bound[r] = Turn(t, bound, r[1], r[2], what, equal)
    BY <1>1
  <2>6. Splits(t, Turn(t, bound, r[1], r[2], what, equal), r[1], r[2], what, equal)
    <3>1. r[1] \in Nat /\ r[2] \in Nat /\ r[1] + r[2] <= len
      BY <1>3
    <3>2. \A q \in Ranges(len) : q[2] < r[2] => Splits(t, bound[q], q[1], q[2], what, equal)
      BY <2>3, <2>4
    <3> HIDE DEF Bad
    <3> QED
      BY <3>1, <3>2, TurnSplits, SMTT(30)
  <2> QED
    BY <2>3, <2>5, <2>6
<1>5. <<0, len>> \in Ranges(len)
  BY DEF Ranges
<1>6. Splits(t, bound[<<0, len>>], 0, len, what, equal)
  BY <1>3, <1>4, <1>5
<1> QED
  BY <1>2, <1>6

-----------------------------------------------------------------------------
(* In a sorted table, find is exact for every address.                     *)
LEMMA FindIsRight ==
  ASSUME NEW t \in Seq(Nat), Increasing(t, Len(t)), NEW limit \in Nat, NEW a \in Nat
  PROVE  LET i == IndexIn(t, limit, a)
         IN  /\ IF i = -1 THEN \A k \in DOMAIN t : t[k] # a
                          ELSE i + 1 \in DOMAIN t /\ t[i + 1] = a
             /\ ~IsLinear(t, limit) => UpperBound(t, a) - LowerBound(t, a) \in {0, 1}
<1> DEFINE i == IndexIn(t, limit, a)
<1>1. Len(t) \in Nat /\ DOMAIN t = 1 .. Len(t) /\ \A k \in 1 .. Len(t) : t[k] \in Nat
  OBVIOUS
<1>2. CASE IsLinear(t, limit)
  <2> DEFINE at == {k \in DOMAIN t : t[k] = a}
  <2>1. CASE at = {}
    <3>1. i = -1
      BY <1>2, <2>1 DEF IndexIn
    <3> QED
      BY <1>2, <2>1, <3>1
  <2>2. CASE at # {}
    <3> DEFINE k == CHOOSE x \in at : \A y \in at : x <= y
    <3>1. k \in at
      <4>1. at \in SUBSET Nat
        BY <1>1
      <4>2. \E x \in at : \A y \in at : x <= y
        <5> HIDE DEF at
        <5> QED
          BY <2>2, <4>1, LeastMember
      <4> HIDE DEF at
      <4> QED
        BY <4>2
    <3>2. i = k - 1
      BY <1>2, <2>2 DEF IndexIn
    <3>3. k \in 1 .. Len(t) /\ t[k] = a
      BY <1>1, <3>1
    <3> HIDE DEF k, i
    <3>4. i # -1 /\ i + 1 = k
      BY <1>1, <3>2, <3>3
    <3> QED
      BY <1>1, <1>2, <3>3, <3>4 DEF i
  <2> QED
    BY <2>1, <2>2
<1>3. CASE ~IsLinear(t, limit)
  <2> DEFINE lo == LowerBound(t, a)
             up == UpperBound(t, a)
  <2>1. i = IF lo = up THEN -1 ELSE lo
    BY <1>3 DEF IndexIn
  <2>2. Splits(t, lo, 0, Len(t), a, FALSE) /\ Splits(t, up, 0, Len(t), a, TRUE)
    BY <1>1, BisectSplits DEF LowerBound, UpperBound
  <2> HIDE DEF lo, up, i
  <2>3. lo \in 0 .. Len(t) /\ up \in 0 .. Len(t)
    BY <1>1, <2>2 DEF Splits
  <2>4. ASSUME NEW k \in 1 .. Len(t)
        PROVE  (k <= lo <=> t[k] < a) /\ (k <= up <=> t[k] <= a)
    <3>1. k \in 0 + 1 .. 0 + Len(t)
      BY <1>1
    <3>2. k <= lo <=> Skips(t[k], a, FALSE)
      BY <2>2, <3>1 DEF Splits
    <3>3. k <= up <=> Skips(t[k], a, TRUE)
      BY <2>2, <3>1 DEF Splits
    <3>4. t[k] \in Nat
      BY <1>1
    <3> QED
      BY <3>2, <3>3, <3>4 DEF Skips
  <2>5. lo <= up
    <3>1. CASE lo = 0
      BY <2>3, <3>1
    <3>2. CASE lo # 0
      <4>1. lo \in 1 .. Len(t)
        BY <1>1, <2>3, <3>2
      <4>2. t[lo] < a /\ t[lo] \in Nat
        BY <1>1, <2>4, <4>1
      <4> QED
        BY <2>4, <4>1, <4>2
    <3> QED
      BY <3>1, <3>2
  <2>6. ASSUME NEW k \in 1 .. Len(t)  PROVE lo < k /\ k <= up <=> t[k] = a
    <3>1. t[k] \in Nat
      BY <1>1
    <3> QED
      BY <2>3, <2>4, <3>1
  <2>7. up - lo \in {0, 1}
    <3> SUFFICES ASSUME up >= lo + 2  PROVE FALSE
      BY <2>3, <2>5
    <3>1. lo + 1 \in 1 .. Len(t) /\ lo + 2 \in 1 .. Len(t) /\ lo + 1 < lo + 2
      BY <1>1, <2>3
    <3>2. t[lo + 1] = a /\ t[lo + 2] = a
      BY <2>3, <2>6, <3>1
    <3> QED
      BY <3>1, <3>2 DEF Increasing
  <2>8. IF i = -1 THEN \A k \in DOMAIN t : t[k] # a
                  ELSE i + 1 \in DOMAIN t /\ t[i + 1] = a
    <3>1. CASE lo = up
      BY <1>1, <2>1, <2>3, <2>6, <3>1
    <3>2. CASE lo # up
      <4>1. i = lo /\ lo + 1 \in 1 .. Len(t) /\ lo + 1 <= up /\ i # -1
        BY <1>1, <2>1, <2>3, <2>5, <3>2
      <4> QED
        BY <1>1, <2>3, <2>6, <4>1
    <3> QED
      BY <3>1, <3>2
  <2> QED
    BY <2>7, <2>8 DEF i, lo, up
<1> QED
  BY <1>2, <1>3

-----------------------------------------------------------------------------
(* A pointer moved up by its padding is aligned, and has moved by at least *)
(* one byte and at most a whole alignment: the arithmetic of allocate.     *)
LEMMA PaddingAligns ==
  ASSUME NEW p \in Nat, NEW a \in Alignments
  PROVE  /\ a - (p % a) \in 1 .. a
         /\ (p + (a - (p % a))) % a = 0
<1>1. CASE a = 1   BY <1>1
<1>2. CASE a = 2   BY <1>2
<1>3. CASE a = 4   BY <1>3
<1>4. CASE a = 8   BY <1>4
<1>5. CASE a = 16  BY <1>5
<1> QED  BY <1>1, <1>2, <1>3, <1>4, <1>5 DEF Alignments

(* The objects of a pool of `size' bytes at `pool' are apart and in order, *)
(* and end at or below p, from where on the pool is free.                  *)
Sound(pool, size, p, t, m) ==
  /\ p \in Nat /\ pool <= p /\ p <= pool + size
  /\ t \in Seq(Nat) /\ m \in Seq(Extents) /\ Len(m) = Len(t)
  /\ \A i \in 1 .. Len(t) : pool <= t[i] /\ t[i] + m[i].len <= p
  /\ \A i, j \in 1 .. Len(t) : i < j => t[i] + m[i].len <= t[j]

LEMMA ObjectsAre ==
  ASSUME NEW pool, NEW size, NEW p, NEW t, NEW m, Sound(pool, size, p, t, m)
  PROVE  /\ Len(t) \in Nat
         /\ \A i \in 1 .. Len(t) :
              t[i] \in Nat /\ m[i] \in Extents /\ m[i].len \in Nat /\ m[i].len > 0
<1>1. t \in Seq(Nat) /\ m \in Seq(Extents) /\ Len(m) = Len(t)
  BY DEF Sound
<1>2. ASSUME NEW e \in Extents  PROVE e.len \in Nat /\ e.len > 0
  BY DEF Extents
<1>3. \A i \in 1 .. Len(t) : t[i] \in Nat /\ m[i] \in Extents
  BY <1>1
<1> QED
  BY <1>1, <1>2, <1>3

LEMMA SoundIsIncreasing ==
  ASSUME NEW pool \in Nat, NEW size \in Nat, NEW p, NEW t, NEW m, Sound(pool, size, p, t, m)
  PROVE  Increasing(t, Len(t))
<1> DEFINE n == Len(t)
<1>1. /\ n \in Nat
      /\ \A i \in 1 .. n : t[i] \in Nat /\ m[i].len \in Nat /\ m[i].len > 0
  BY ObjectsAre
<1>2. \A i, j \in 1 .. n : i < j => t[i] + m[i].len <= t[j]
  BY DEF Sound
<1> HIDE DEF n
<1>3. \A i, j \in 1 .. n : i < j => t[i] < t[j]
  BY <1>1, <1>2
<1> QED
  BY <1>1, <1>3 DEF Increasing, n

(* allocate: an object that begins above p and ends in the pool.           *)
LEMMA GrowIsSound ==
  ASSUME NEW pool \in Nat, NEW size \in Nat, NEW p, NEW t, NEW m, Sound(pool, size, p, t, m),
         NEW r \in Nat, NEW e \in Extents, p <= r, r + e.len <= pool + size
  PROVE  Sound(pool, size, r + e.len, Append(t, r), Append(m, e))
<1> DEFINE n == Len(t)
           t2 == Append(t, r)
           m2 == Append(m, e)
<1>1. /\ n \in Nat /\ t2 \in Seq(Nat) /\ m2 \in Seq(Extents)
      /\ Len(t2) = n + 1 /\ Len(m2) = n + 1
      /\ \A i \in 1 .. n : t2[i] = t[i] /\ m2[i] = m[i]
      /\ t2[n + 1] = r /\ m2[n + 1] = e
  BY DEF Sound
<1>2. /\ \A i \in 1 .. n : t[i] \in Nat /\ m[i].len \in Nat
      /\ p \in Nat /\ pool <= p
  BY ObjectsAre DEF Sound
<1>e. e.len \in Nat
  BY DEF Extents
<1>3. /\ \A i \in 1 .. n : pool <= t[i] /\ t[i] + m[i].len <= p
      /\ \A i, j \in 1 .. n : i < j => t[i] + m[i].len <= t[j]
  BY DEF Sound
<1> HIDE DEF n, t2, m2
<1>4. ASSUME NEW i \in 1 .. n + 1
      PROVE  pool <= t2[i] /\ t2[i] + m2[i].len <= r + e.len
  <2>1. CASE i = n + 1
    BY <1>1, <1>2, <1>e, <2>1
  <2>2. CASE i \in 1 .. n
    <3>1. /\ t2[i] = t[i] /\ m2[i].len = m[i].len
          /\ t[i] \in Nat /\ m[i].len \in Nat /\ t[i] + m[i].len <= p /\ pool <= t[i]
      BY <1>1, <1>2, <1>3, <2>2
    <3> QED
      BY <1>2, <1>e, <3>1
  <2> QED
    BY <1>1, <2>1, <2>2
<1>5. ASSUME NEW i \in 1 .. n + 1, NEW j \in 1 .. n + 1, i < j
      PROVE  t2[i] + m2[i].len <= t2[j]
  <2>1. i \in 1 .. n
    BY <1>1, <1>5
  <2>2. CASE j = n + 1
    <3>1. /\ t2[j] = r /\ t2[i] = t[i] /\ m2[i].len = m[i].len
          /\ t[i] \in Nat /\ m[i].len \in Nat /\ t[i] + m[i].len <= p
      BY <1>1, <1>2, <1>3, <2>1, <2>2
    <3> QED
      BY <1>2, <3>1
  <2>3. CASE j \in 1 .. n
    BY <1>1, <1>3, <1>5, <2>1, <2>3
  <2> QED
    BY <1>1, <2>2, <2>3
<1> QED
  BY <1>1, <1>2, <1>e, <1>4, <1>5, SMTT(30) DEF Sound, t2, m2

(* rollback: the free part begins where the newest object began; the older *)
(* ones end there at the latest.                                           *)
LEMMA ShrinkIsSound ==
  ASSUME NEW pool \in Nat, NEW size \in Nat, NEW p, NEW t, NEW m, Sound(pool, size, p, t, m),
         NEW n \in Nat, Len(t) = n + 1
  PROVE  /\ Sound(pool, size, t[n + 1], SubSeq(t, 1, n), SubSeq(m, 1, n))
         /\ Len(SubSeq(t, 1, n)) = n
         /\ \A i \in 1 .. n : SubSeq(t, 1, n)[i] = t[i] /\ SubSeq(m, 1, n)[i] = m[i]
<1> DEFINE t2 == SubSeq(t, 1, n)
           m2 == SubSeq(m, 1, n)
<1>1. /\ \A i \in 1 .. n + 1 : t[i] \in Nat /\ m[i] \in Extents /\ m[i].len \in Nat
      /\ p \in Nat /\ p <= pool + size
  BY ObjectsAre DEF Sound
<1>2. t2 \in Seq(Nat) /\ Len(t2) = n /\ \A i \in 1 .. n : t2[i] = t[i]
  BY <1>1, SubSeqProperties DEF Sound
<1>3. m2 \in Seq(Extents) /\ Len(m2) = n /\ \A i \in 1 .. n : m2[i] = m[i]
  BY <1>1, SubSeqProperties DEF Sound
<1>4. /\ \A i \in 1 .. n + 1 : pool <= t[i] /\ t[i] + m[i].len <= p
      /\ \A i, j \in 1 .. n + 1 : i < j => t[i] + m[i].len <= t[j]
  BY DEF Sound
<1> HIDE DEF t2, m2
<1>5. pool <= t[n + 1] /\ t[n + 1] <= pool + size /\ t[n + 1] \in Nat
  BY <1>1, <1>4, SMTT(30)
<1>6. ASSUME NEW i \in 1 .. n  PROVE pool <= t2[i] /\ t2[i] + m2[i].len <= t[n + 1]
  <2>1. i \in 1 .. n + 1 /\ n + 1 \in 1 .. n + 1 /\ i < n + 1
    OBVIOUS
  <2>2. pool <= t[i] /\ t[i] + m[i].len <= t[n + 1]
    BY <1>4, <2>1
  <2> QED
    BY <1>2, <1>3, <2>2
<1>7. ASSUME NEW i \in 1 .. n, NEW j \in 1 .. n, i < j
      PROVE  t2[i] + m2[i].len <= t2[j]
  <2>1. i \in 1 .. n + 1 /\ j \in 1 .. n + 1
    OBVIOUS
  <2>2. t[i] + m[i].len <= t[j]
    BY <1>4, <1>7, <2>1
  <2> QED
    BY <1>2, <1>3, <2>2
<1>8. Sound(pool, size, t[n + 1], t2, m2)
  BY <1>2, <1>3, <1>5, <1>6, <1>7 DEF Sound
<1> QED
  BY <1>2, <1>3, <1>8 DEF t2, m2
=============================================================================
