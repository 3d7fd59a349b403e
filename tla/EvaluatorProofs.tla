-------------------------- MODULE EvaluatorProofs ---------------------------
(***************************************************************************)
(* The evaluator with every library of node classes and on every tree: it  *)
(* never trips over its stack, what is on the stack is what its type says, *)
(* it uses the typed AST as a store of nodes is meant to be used, the casts*)
(* of the makers are safe, and it accepts the trees that are well typed.   *)
(* Last, how its makers find the functions of a class by its name.         *)
(***************************************************************************)
EXTENDS EvaluatorTyping, ClassTable, SequenceTheorems, FiniteSetTheorems, NaturalsInduction,
        WellFoundedInduction, TLAPS

-----------------------------------------------------------------------------
(* The work there is.                                                      *)
IsPart(x) ==
  \/ x.is = "Tree" /\ x.root \in Trees
  \/ x \in Trees
  \/ IsNodeArgs(x, Trees)
  \/ IsNodeArg(x, Trees)
  \/ IsArgValue(x, Trees)
  \/ IsNodeList(x, Trees)
  \/ x.is = "Literal"

IsWork(w) ==
  \/ w.do = "visit" /\ IsPart(w.at)
  \/ w.do = "name"
  \/ w.do = "elem" /\ w.at.node \in Trees
  \/ w.do = "node" /\ w.at \in Trees
  \/ w.do = "list" /\ IsNodeList(w.at, Trees)

(* What the next item can know: the size of the stack, and whether a node, *)
(* or some object that has no name yet, is on top.                         *)
States == [n : Nat, last : {"node", "fresh", "other"}]

At(n, last) == [n |-> n, last |-> last]

After(w) ==
  CASE w.do \in {"elem", "node"} -> "node"
    [] w.do = "list"             -> "fresh"
    [] w.do = "name"             -> "other"
    [] w.do = "visit"            ->
         IF w.at.is \in {"Tree", "TreeNode", "NodeValue"} THEN "node"
         ELSE IF w.at.is \in {"ListArgs", "NodeArg"} THEN "other" ELSE "fresh"

(* The item w can be done at p, and leaves q: its arguments are there, and *)
(* an object that is given a name has none.                                *)
Leads(w, p, q) ==
  /\ IsWork(w) /\ p \in States /\ q \in States
  /\ p.n >= Uses(w) /\ q.n = p.n + Effect(w)
  /\ q.last = After(w)
  /\ w.do = "name" => p.last # "other"

(* The same of the items s, one after another.                             *)
Takes(s, p, q) ==
  /\ IsSequence(s)
  /\ \E d \in [1 .. Len(s) + 1 -> States] :
       /\ d[1] = p /\ d[Len(s) + 1] = q
       /\ \A i \in 1 .. Len(s) : Leads(s[i], d[i], d[i + 1])

-----------------------------------------------------------------------------
LEMMA LeastMember ==
  ASSUME NEW S \in SUBSET Nat, S # {}
  PROVE  \E x \in S : \A y \in S : x <= y
<1> DEFINE Less == {ss \in Nat \X Nat : ss[1] < ss[2]}
<1>1. IsWellFoundedOn(Less, Nat)
  BY NatLessThanWellFounded DEF OpToRel
<1>2. PICK x \in S : \A y \in S : ~(<<y, x>> \in Less)
  BY <1>1, WFMin, Zenon
<1>3. ASSUME NEW y \in S  PROVE x <= y
  <2>1. x \in Nat /\ y \in Nat
    OBVIOUS
  <2>2. <<y, x>>[1] = y /\ <<y, x>>[2] = x /\ <<y, x>> \in Nat \X Nat
    BY <2>1
  <2>3. ~(y < x)
    BY <1>2, <2>2, Zenon
  <2> QED
    BY <2>1, <2>3
<1> QED
  BY <1>3

LEMMA ASequence ==
  ASSUME NEW S, NEW s \in Seq(S)
  PROVE  IsSequence(s) /\ Len(s) \in Nat /\ DOMAIN s = 1 .. Len(s)
<1>1. Len(s) \in Nat /\ DOMAIN s = 1 .. Len(s) /\ s \in [1 .. Len(s) -> S]
  BY LenProperties
<1>2. s \in [1 .. Len(s) -> ToSet(s)]
  BY <1>1 DEF ToSet
<1> QED
  BY <1>1, <1>2, SeqDef DEF IsSequence

LEMMA SequenceFacts ==
  ASSUME NEW s, IsSequence(s)
  PROVE  /\ s \in Seq(ToSet(s)) /\ Len(s) \in Nat /\ DOMAIN s = 1 .. Len(s)
         /\ \A i \in 1 .. Len(s) : s[i] \in ToSet(s)
BY LenProperties DEF IsSequence, ToSet

(* A sequence is one of the members of any set that has its items.         *)
LEMMA InSeq ==
  ASSUME NEW s, IsSequence(s), NEW S, \A i \in 1 .. Len(s) : s[i] \in S
  PROVE  s \in Seq(S)
<1>1. Len(s) \in Nat /\ s \in [1 .. Len(s) -> S]
  BY LenProperties DEF IsSequence
<1> QED
  BY <1>1, SeqDef

LEMMA TailSequence ==
  ASSUME NEW s, IsSequence(s), s # <<>>
  PROVE  /\ IsSequence(Tail(s)) /\ Head(s) = s[1] /\ Len(s) \in Nat \ {0}
         /\ Len(Tail(s)) = Len(s) - 1 /\ \A i \in 1 .. Len(s) - 1 : Tail(s)[i] = s[i + 1]
<1>1. s \in Seq(ToSet(s))
  BY DEF IsSequence
<1>2. Tail(s) \in Seq(ToSet(s)) /\ Len(Tail(s)) = Len(s) - 1 /\ Head(s) = s[1]
      /\ \A i \in 1 .. Len(s) - 1 : Tail(s)[i] = s[i + 1]
  BY <1>1, HeadTailProperties
<1>3. Len(s) \in Nat \ {0}
  BY <1>1, EmptySeq
<1> QED
  BY <1>2, <1>3, ASequence

LEMMA BothSequences ==
  ASSUME NEW s, NEW t, IsSequence(s), IsSequence(t)
  PROVE  /\ IsSequence(s \o t) /\ Len(s \o t) = Len(s) + Len(t)
         /\ \A i \in 1 .. Len(s) + Len(t) : (s \o t)[i] = IF i <= Len(s) THEN s[i] ELSE t[i - Len(s)]
<1> DEFINE S == ToSet(s) \cup ToSet(t)
<1>1. s \in Seq(S) /\ t \in Seq(S)
  BY InSeq, SequenceFacts
<1> HIDE DEF S
<1>2. s \o t \in Seq(S) /\ Len(s \o t) = Len(s) + Len(t)
      /\ \A i \in 1 .. Len(s) + Len(t) : (s \o t)[i] = IF i <= Len(s) THEN s[i] ELSE t[i - Len(s)]
  BY <1>1, ConcatProperties
<1> QED
  BY <1>2, ASequence

LEMMA OneItem ==
  ASSUME NEW x
  PROVE  IsSequence(<<x>>) /\ Len(<<x>>) = 1 /\ <<x>>[1] = x
<1>1. <<x>> \in Seq({x})
  OBVIOUS
<1> QED
  BY <1>1, ASequence

-----------------------------------------------------------------------------
LEMMA TwoItems ==
  ASSUME NEW x, NEW y
  PROVE  <<x>> \o <<y>> = <<x, y>>
<1> DEFINE s == <<x>>
           t == <<y>>
           u == <<x, y>>
<1>1. /\ s \in Seq({x, y}) /\ t \in Seq({x, y}) /\ u \in Seq({x, y})
      /\ Len(s) = 1 /\ Len(t) = 1 /\ Len(u) = 2
      /\ s[1] = x /\ t[1] = y /\ u[1] = x /\ u[2] = y
  OBVIOUS
<1> HIDE DEF s, t, u
<1>2. /\ s \o t \in Seq({x, y}) /\ Len(s \o t) = 2
      /\ \A i \in 1 .. 2 : (s \o t)[i] = IF i <= 1 THEN s[i] ELSE t[i - 1]
  BY <1>1, ConcatProperties
<1>3. \A i \in 1 .. 2 : (s \o t)[i] = u[i]
  BY <1>1, <1>2
<1>4. s \o t = u
  BY <1>1, <1>2, <1>3, SeqEqual
<1> QED
  BY <1>4 DEF s, t, u

LEMMA NothingIsSequence ==
  IsSequence(<<>>) /\ Len(<<>>) = 0
<1>1. <<>> \in Seq({})
  OBVIOUS
<1> QED
  BY <1>1, ASequence

LEMMA NothingToDo ==
  ASSUME NEW p \in States
  PROVE  Takes(<<>>, p, p)
<1> DEFINE d == [i \in 1 .. 1 |-> p]
<1>1. IsSequence(<<>>) /\ Len(<<>>) = 0
  BY NothingIsSequence
<1>2. d \in [1 .. Len(<<>>) + 1 -> States] /\ d[1] = p /\ d[Len(<<>>) + 1] = p
  BY <1>1
<1>3. 1 .. Len(<<>>) = {}
  BY <1>1
<1> HIDE DEF d
<1> QED
  BY <1>1, <1>2, <1>3 DEF Takes

LEMMA NothingTaken ==
  ASSUME NEW p, NEW q, Takes(<<>>, p, q)
  PROVE  p = q
BY DEF Takes

LEMMA OneToDo ==
  ASSUME NEW w, NEW p, NEW q, Leads(w, p, q)
  PROVE  Takes(<<w>>, p, q)
<1> DEFINE d == [i \in 1 .. 2 |-> IF i = 1 THEN p ELSE q]
           s == <<w>>
<1>1. IsSequence(s) /\ Len(s) = 1 /\ s[1] = w
  BY OneItem
<1>2. d \in [1 .. 2 -> States] /\ d[1] = p /\ d[2] = q
  BY DEF Leads
<1> HIDE DEF d, s
<1>3. \A i \in 1 .. 1 : Leads(s[i], d[i], d[i + 1])
  BY <1>1, <1>2
<1>4. Takes(s, p, q)
  BY <1>1, <1>2, <1>3 DEF Takes
<1> QED
  BY <1>4 DEF s

(* The first of the items, and the others after it.                        *)
LEMMA TakesFirst ==
  ASSUME NEW s, NEW p, NEW r, Takes(s, p, r), s # <<>>
  PROVE  \E q \in States : Leads(Head(s), p, q) /\ Takes(Tail(s), q, r)
<1>1. IsSequence(s)
  BY DEF Takes
<1>2. PICK d \in [1 .. Len(s) + 1 -> States] :
       /\ d[1] = p /\ d[Len(s) + 1] = r
       /\ \A i \in 1 .. Len(s) : Leads(s[i], d[i], d[i + 1])
  BY DEF Takes
<1>3. PICK n \in Nat : Len(s) = n + 1
  <2>1. Len(s) \in Nat \ {0}
    BY <1>1, TailSequence
  <2>2. Len(s) - 1 \in Nat
    BY <2>1
  <2> QED
    BY <2>1, <2>2
<1>4. /\ IsSequence(Tail(s)) /\ Len(Tail(s)) = n
      /\ \A i \in 1 .. n : Tail(s)[i] = s[i + 1]
      /\ Head(s) = s[1]
  BY <1>1, <1>3, TailSequence
<1> DEFINE e == [i \in 1 .. n + 1 |-> d[i + 1]]
<1>5. 1 \in 1 .. Len(s) /\ \A i \in 1 .. n + 1 : i + 1 \in 1 .. Len(s) + 1
  BY <1>3
<1>6. d[2] \in States /\ Leads(Head(s), p, d[2])
  <2>1. Leads(s[1], d[1], d[1 + 1])
    BY <1>2, <1>5
  <2>2. 2 \in 1 .. Len(s) + 1
    BY <1>3
  <2> QED
    BY <1>2, <1>4, <2>1, <2>2
<1>7. e \in [1 .. Len(Tail(s)) + 1 -> States]
  BY <1>4, <1>5
<1>8. e[1] = d[2] /\ e[Len(Tail(s)) + 1] = r
  <2>1. 1 \in 1 .. n + 1 /\ n + 1 \in 1 .. n + 1
    OBVIOUS
  <2> QED
    BY <1>2, <1>3, <1>4, <2>1
<1>9. \A i \in 1 .. n : Leads(Tail(s)[i], e[i], e[i + 1])
  <2>1. ASSUME NEW i \in 1 .. n
        PROVE  Leads(Tail(s)[i], e[i], e[i + 1])
    <3>1. i + 1 \in 1 .. Len(s) /\ i \in 1 .. n + 1 /\ i + 1 \in 1 .. n + 1
      BY <1>3
    <3>2. e[i] = d[i + 1] /\ e[i + 1] = d[i + 1 + 1] /\ Tail(s)[i] = s[i + 1]
      BY <1>4, <3>1
    <3> QED
      BY <1>2, <3>1, <3>2
  <2> QED
    BY <2>1
<1> HIDE DEF e
<1>10. Takes(Tail(s), d[2], r)
  BY <1>4, <1>7, <1>8, <1>9 DEF Takes
<1> QED
  BY <1>6, <1>10

LEMMA TakesBoth ==
  ASSUME NEW s, NEW t, NEW p, NEW q, NEW r, Takes(s, p, q), Takes(t, q, r)
  PROVE  Takes(s \o t, p, r)
<1>1. IsSequence(s) /\ IsSequence(t)
  BY DEF Takes
<1>2. PICK d \in [1 .. Len(s) + 1 -> States] :
       /\ d[1] = p /\ d[Len(s) + 1] = q
       /\ \A i \in 1 .. Len(s) : Leads(s[i], d[i], d[i + 1])
  BY DEF Takes
<1>3. PICK e \in [1 .. Len(t) + 1 -> States] :
       /\ e[1] = q /\ e[Len(t) + 1] = r
       /\ \A i \in 1 .. Len(t) : Leads(t[i], e[i], e[i + 1])
  BY DEF Takes
<1> DEFINE m == Len(s)
           n == Len(t)
           u == s \o t
           f == [i \in 1 .. m + n + 1 |-> IF i <= m THEN d[i] ELSE e[i - m]]
<1>4. m \in Nat /\ n \in Nat
  BY <1>1, SequenceFacts
<1>5. /\ IsSequence(u) /\ Len(u) = m + n
      /\ \A i \in 1 .. m + n : u[i] = IF i <= m THEN s[i] ELSE t[i - m]
  BY <1>1, BothSequences
<1> HIDE DEF m, n, u
<1>6. f \in [1 .. m + n + 1 -> States]
  <2>1. ASSUME NEW i \in 1 .. m + n + 1  PROVE (IF i <= m THEN d[i] ELSE e[i - m]) \in States
    <3>1. i <= m => i \in 1 .. Len(s) + 1
      BY <1>4 DEF m
    <3>2. ~(i <= m) => i - m \in 1 .. Len(t) + 1
      BY <1>4 DEF n
    <3> QED
      BY <3>1, <3>2
  <2> QED
    BY <2>1
<1>7. \A i \in 1 .. m + 1 : f[i] = d[i]
  <2>1. ASSUME NEW i \in 1 .. m + 1  PROVE f[i] = d[i]
    <3>1. CASE i <= m
      BY <1>4, <3>1
    <3>2. CASE ~(i <= m)
      <4>1. i = m + 1 /\ i - m = 1 /\ i \in 1 .. m + n + 1
        BY <1>4, <3>2
      <4> QED
        BY <1>2, <1>3, <3>2, <4>1 DEF m
    <3> QED
      BY <3>1, <3>2
  <2> QED
    BY <2>1
<1>8. \A i \in m + 1 .. m + n + 1 : f[i] = e[i - m]
  BY <1>4
<1> HIDE DEF f
<1>9. f[1] = p /\ f[Len(u) + 1] = r
  <2>1. 1 \in 1 .. m + 1 /\ m + n + 1 \in m + 1 .. m + n + 1 /\ m + n + 1 - m = n + 1
    BY <1>4
  <2>2. f[1] = d[1]
    BY <1>7, <2>1
  <2>3. f[m + n + 1] = e[n + 1]
    <3> DEFINE k == m + n + 1
    <3>1. k \in m + 1 .. m + n + 1 /\ k - m = n + 1
      BY <1>4, <2>1
    <3> HIDE DEF k
    <3>2. f[k] = e[k - m]
      BY <1>8, <3>1
    <3> QED
      BY <3>1, <3>2 DEF k
  <2> QED
    BY <1>2, <1>3, <1>5, <2>2, <2>3 DEF n
<1>10. ASSUME NEW i \in 1 .. Len(u)
       PROVE  Leads(u[i], f[i], f[i + 1])
  <2>1. CASE i \in 1 .. m
    <3>1. u[i] = s[i] /\ f[i] = d[i] /\ f[i + 1] = d[i + 1]
      BY <1>4, <1>5, <1>7, <2>1, SMTT(30)
    <3> QED
      BY <1>2, <2>1, <3>1 DEF m
  <2>2. CASE i \in m + 1 .. m + n
    <3> DEFINE j == i - m
    <3>1. j \in 1 .. n /\ i + 1 - m = j + 1 /\ i \in m + 1 .. m + n + 1 /\ i + 1 \in m + 1 .. m + n + 1
      BY <1>4, <2>2
    <3>2. u[i] = t[j]
      BY <1>4, <1>5, <2>2
    <3>3. f[i] = e[j]
      BY <1>8, <3>1
    <3>4. f[i + 1] = e[j + 1]
      <4> DEFINE k == i + 1
      <4>1. k \in m + 1 .. m + n + 1 /\ k - m = j + 1
        BY <1>4, <2>2, <3>1
      <4> HIDE DEF k
      <4>2. f[k] = e[k - m]
        BY <1>8, <4>1
      <4> QED
        BY <4>1, <4>2 DEF k
    <3> HIDE DEF j
    <3> QED
      BY <1>3, <3>1, <3>2, <3>3, <3>4 DEF n
  <2> QED
    BY <1>4, <1>5, <2>1, <2>2
<1>11. Takes(u, p, r)
  BY <1>5, <1>6, <1>9, <1>10 DEF Takes
<1> QED
  BY <1>11 DEF u

(* Items alike, each of which leaves one object more.                      *)
LEMMA EachToDo ==
  ASSUME NEW s, IsSequence(s), NEW n \in Nat, NEW lowest \in {"node", "fresh", "other"},
         NEW last \in {"node", "fresh", "other"},
         \A i \in 1 .. Len(s) : /\ IsWork(s[i]) /\ s[i].do # "name" /\ Uses(s[i]) = 0
                                /\ Effect(s[i]) = 1 /\ After(s[i]) = last
  PROVE  Takes(s, At(n, lowest), At(n + Len(s), IF Len(s) = 0 THEN lowest ELSE last))
<1> DEFINE m == Len(s)
           Ending(i) == IF i = 1 THEN lowest ELSE last
           d == [i \in 1 .. m + 1 |-> At(n + i - 1, Ending(i))]
<1>1. m \in Nat
  BY SequenceFacts
<1>2. ASSUME NEW i \in 1 .. m + 1
      PROVE  d[i] \in States /\ d[i].n = n + i - 1 /\ d[i].last = Ending(i)
  <2>1. n + i - 1 \in Nat /\ Ending(i) \in {"node", "fresh", "other"}
    BY <1>1
  <2> QED
    BY <2>1 DEF At, States
<1>3. d \in [1 .. m + 1 -> States]
  BY <1>2
<1>4. 1 \in 1 .. m + 1 /\ m + 1 \in 1 .. m + 1 /\ n + 1 - 1 = n /\ n + (m + 1) - 1 = n + m
  BY <1>1
<1>5. d[1] = At(n, lowest)
  BY <1>4
<1>6. d[m + 1] = At(n + m, Ending(m + 1))
  <2> DEFINE k == m + 1
  <2>1. k \in 1 .. m + 1 /\ n + k - 1 = n + m
    BY <1>4
  <2> HIDE DEF k
  <2>2. d[k] = At(n + k - 1, Ending(k))
    BY <2>1
  <2> QED
    BY <2>1, <2>2 DEF k
<1>7. ASSUME NEW i \in 1 .. m
      PROVE  Leads(s[i], d[i], d[i + 1])
  <2> DEFINE k == i + 1
  <2>1. i \in 1 .. m + 1 /\ k \in 1 .. m + 1 /\ k # 1 /\ n + i - 1 \in Nat
        /\ n + k - 1 = (n + i - 1) + 1
    BY <1>1
  <2>2. d[i] \in States /\ d[i].n = n + i - 1
    BY <1>2, <2>1
  <2> HIDE DEF k
  <2>3. d[k] \in States /\ d[k].n = (n + i - 1) + 1 /\ d[k].last = last
    BY <1>2, <2>1
  <2> HIDE DEF d
  <2> QED
    BY <2>1, <2>2, <2>3 DEF Leads, k
<1> HIDE DEF d
<1>8. Takes(s, At(n, lowest), At(n + m, Ending(m + 1)))
  BY <1>3, <1>5, <1>6, <1>7 DEF Takes
<1>9. Ending(m + 1) = IF m = 0 THEN lowest ELSE last
  BY <1>1
<1> HIDE DEF Ending
<1> QED
  BY <1>8, <1>9 DEF m

-----------------------------------------------------------------------------
LEMMA AtFields ==
  ASSUME NEW n \in Nat, NEW last \in {"node", "fresh", "other"}
  PROVE  At(n, last) \in States /\ At(n, last).n = n /\ At(n, last).last = last
BY DEF At, States

LEMMA StateFields ==
  ASSUME NEW p \in States
  PROVE  p = At(p.n, p.last) /\ p.n \in Nat /\ p.last \in {"node", "fresh", "other"}
BY DEF At, States

(* What the parts of a tree are.                                           *)
LEMMA TreeNodeParts ==
  ASSUME NEW t \in Trees
  PROVE  t.is = "TreeNode" /\ IsNodeArgs(t.args, Trees)
BY TreesAssumption DEF AreTreeNodes

LEMMA NumArgsIsNat ==
  ASSUME NEW args, IsNodeArgs(args, Trees)
  PROVE  NumArgs(args) \in Nat
BY SequenceFacts DEF IsNodeArgs, NumArgs

(* What a visit to a part, and what comes after it, takes and leaves.      *)
LEMMA VisitWork ==
  ASSUME NEW x, IsPart(x)
  PROVE  /\ Visit(x).do = "visit" /\ Visit(x).at = x /\ IsWork(Visit(x)) /\ Uses(Visit(x)) = 0
         /\ Effect(Visit(x)) = IF x.is = "ListArgs" THEN Len(x.list) ELSE 1
         /\ After(Visit(x)) = IF x.is \in {"Tree", "TreeNode", "NodeValue"} THEN "node"
                              ELSE IF x.is \in {"ListArgs", "NodeArg"} THEN "other" ELSE "fresh"
BY DEF Visit, IsWork, Uses, Effect, After

LEMMA NameWork ==
  ASSUME NEW n
  PROVE  /\ SetName(n).do = "name" /\ SetName(n).at = n /\ IsWork(SetName(n))
         /\ Uses(SetName(n)) = 1 /\ Effect(SetName(n)) = 0 /\ After(SetName(n)) = "other"
BY DEF SetName, IsWork, Uses, Effect, After

LEMMA ElemWork ==
  ASSUME NEW e, NEW k, e.node \in Trees
  PROVE  /\ Elem(e, k).do = "elem" /\ Elem(e, k).at = e /\ IsWork(Elem(e, k))
         /\ Uses(Elem(e, k)) = 0 /\ Effect(Elem(e, k)) = 1 /\ After(Elem(e, k)) = "node"
BY DEF Elem, IsWork, Uses, Effect, After

LEMMA NodeWork ==
  ASSUME NEW t \in Trees
  PROVE  /\ MakeNode(t).do = "node" /\ MakeNode(t).at = t /\ IsWork(MakeNode(t))
         /\ Uses(MakeNode(t)) = NumArgs(t.args) /\ Effect(MakeNode(t)) = 1 - NumArgs(t.args)
         /\ After(MakeNode(t)) = "node"
BY DEF MakeNode, IsWork, Uses, Effect, After

LEMMA ListWork ==
  ASSUME NEW l, IsNodeList(l, Trees)
  PROVE  /\ MakeList(l).do = "list" /\ MakeList(l).at = l /\ IsWork(MakeList(l))
         /\ Uses(MakeList(l)) = Len(l.elems) /\ Effect(MakeList(l)) = 1 - Len(l.elems)
         /\ After(MakeList(l)) = "fresh"
BY DEF MakeList, IsWork, Uses, Effect, After

(* The kind of a part tells what is in it.                                 *)
LEMMA PartIs ==
  ASSUME NEW x, IsPart(x)
  PROVE  /\ x.is = "Tree" => x.root \in Trees
         /\ x.is = "TreeNode" => x \in Trees
         /\ x.is \in {"ListArgs", "LiteralArgs"} => IsNodeArgs(x, Trees)
         /\ x.is = "NodeArg" => IsArgValue(x.value, Trees)
         /\ x.is \in {"NodeValue", "ListValue", "LiteralValue"} => IsArgValue(x, Trees)
         /\ x.is = "NodeList" => IsNodeList(x, Trees)
<1>1. x \in Trees => x.is = "TreeNode"
  BY TreeNodeParts
<1>2. IsNodeArgs(x, Trees) => x.is \in {"ListArgs", "LiteralArgs"}
  BY DEF IsNodeArgs
<1>3. IsNodeArg(x, Trees) => x.is = "NodeArg" /\ IsArgValue(x.value, Trees)
  BY DEF IsNodeArg
<1>4. IsArgValue(x, Trees) => x.is \in {"NodeValue", "ListValue", "LiteralValue"}
  BY DEF IsArgValue
<1>5. IsNodeList(x, Trees) => x.is = "NodeList"
  BY DEF IsNodeList
<1> QED
  BY <1>1, <1>2, <1>3, <1>4, <1>5 DEF IsPart

(* A visit that only leads to another does what that will.                 *)
LEMMA ToAnother ==
  ASSUME NEW x, NEW y, NEW p, NEW q, Leads(Visit(x), p, q), IsPart(x), IsPart(y),
         x.is # "ListArgs", y.is # "ListArgs", After(Visit(y)) = After(Visit(x))
  PROVE  Takes(<<Visit(y)>>, p, q)
<1>1. Leads(Visit(y), p, q)
  BY VisitWork DEF Leads
<1> QED
  BY <1>1, OneToDo

LEMMA ToTreeNode ==
  ASSUME NEW x, NEW y \in Trees, NEW p, NEW q, Leads(Visit(x), p, q), IsPart(x),
         x.is \in {"Tree", "NodeValue"}
  PROVE  Takes(<<Visit(y)>>, p, q)
<1>1. IsPart(y) /\ y.is = "TreeNode"
  BY TreeNodeParts DEF IsPart
<1>2. After(Visit(y)) = After(Visit(x))
  BY <1>1, VisitWork
<1> QED
  BY <1>1, <1>2, ToAnother

LEMMA ToLiteralOrList ==
  ASSUME NEW x, NEW y, NEW p, NEW q, Leads(Visit(x), p, q), IsPart(x), IsPart(y),
         x.is \in {"ListValue", "LiteralValue", "LiteralArgs"}, y.is \in {"NodeList", "Literal"}
  PROVE  Takes(<<Visit(y)>>, p, q)
<1>1. After(Visit(y)) = "fresh" /\ After(Visit(x)) = "fresh"
  BY VisitWork
<1> QED
  BY <1>1, ToAnother

(* The arguments of a node, then the node.                                 *)
LEMMA ToArgsAndNode ==
  ASSUME NEW t \in Trees, NEW p, NEW q, Leads(Visit(t), p, q)
  PROVE  Takes(<<Visit(t.args), MakeNode(t)>>, p, q)
<1>1. IsPart(t) /\ t.is = "TreeNode" /\ IsPart(t.args) /\ NumArgs(t.args) \in Nat
  BY TreeNodeParts, NumArgsIsNat DEF IsPart
<1>2. p \in States /\ q \in States /\ p.n \in Nat /\ q.n = p.n + 1 /\ q.last = "node"
  BY <1>1, VisitWork, StateFields DEF Leads
<1> DEFINE k == NumArgs(t.args)
           r == At(p.n + k, After(Visit(t.args)))
<1>3. Effect(Visit(t.args)) = k /\ After(Visit(t.args)) \in {"node", "fresh", "other"}
  BY <1>1, VisitWork DEF NumArgs
<1>4. p.n + k \in Nat
  BY <1>1, <1>2
<1>5. r \in States /\ r.n = p.n + k /\ r.last = After(Visit(t.args))
  BY <1>3, <1>4, AtFields
<1> HIDE DEF r
<1>6. Leads(Visit(t.args), p, r)
  BY <1>1, <1>2, <1>3, <1>5, VisitWork DEF Leads
<1>7. Leads(MakeNode(t), r, q)
  BY <1>1, <1>2, <1>4, <1>5, NodeWork DEF Leads
<1>8. Takes(<<Visit(t.args)>> \o <<MakeNode(t)>>, p, q)
  BY <1>6, <1>7, OneToDo, TakesBoth
<1>9. <<Visit(t.args)>> \o <<MakeNode(t)>> = <<Visit(t.args), MakeNode(t)>>
  BY TwoItems
<1> QED
  BY <1>8, <1>9

(* The value of an argument, then its name.                                *)
LEMMA ToValueAndName ==
  ASSUME NEW x, NEW p, NEW q, Leads(Visit(x), p, q), IsPart(x), x.is = "NodeArg"
  PROVE  Takes(<<Visit(x.value), SetName(x.name)>>, p, q)
<1>1. IsArgValue(x.value, Trees) /\ IsPart(x.value)
      /\ x.value.is \in {"NodeValue", "ListValue", "LiteralValue"}
  BY PartIs DEF IsPart, IsArgValue
<1>2. p \in States /\ q \in States /\ p.n \in Nat /\ q.n = p.n + 1 /\ q.last = "other"
  BY VisitWork, StateFields DEF Leads
<1> DEFINE r == At(p.n + 1, After(Visit(x.value)))
<1>3. Effect(Visit(x.value)) = 1 /\ After(Visit(x.value)) \in {"node", "fresh"}
  BY <1>1, VisitWork
<1>4. r \in States /\ r.n = p.n + 1 /\ r.last = After(Visit(x.value))
  BY <1>2, <1>3, AtFields
<1> HIDE DEF r
<1>5. Leads(Visit(x.value), p, r)
  BY <1>1, <1>2, <1>3, <1>4, VisitWork DEF Leads
<1>6. Leads(SetName(x.name), r, q)
  BY <1>2, <1>3, <1>4, NameWork DEF Leads
<1>7. Takes(<<Visit(x.value)>> \o <<SetName(x.name)>>, p, q)
  BY <1>5, <1>6, OneToDo, TakesBoth
<1>8. <<Visit(x.value)>> \o <<SetName(x.name)>> = <<Visit(x.value), SetName(x.name)>>
  BY TwoItems
<1> QED
  BY <1>7, <1>8

(* The arguments, one after another; when there are none, nothing is known *)
(* of the stack.                                                           *)
LEMMA ToEachArg ==
  ASSUME NEW x, NEW p, NEW q, Leads(Visit(x), p, q), IsPart(x), x.is = "ListArgs"
  PROVE  \E last \in {p.last, "other"} :
           Takes([i \in DOMAIN x.list |-> Visit(x.list[i])], At(p.n, last), q)
<1>1. /\ IsSequence(x.list) /\ Len(x.list) \in Nat /\ DOMAIN x.list = 1 .. Len(x.list)
      /\ \A i \in DOMAIN x.list : IsNodeArg(x.list[i], Trees)
  BY PartIs, SequenceFacts DEF IsNodeArgs
<1>2. p \in States /\ q \in States /\ p.n \in Nat /\ q.n = p.n + Len(x.list) /\ q.last = "other"
      /\ p.last \in {"node", "fresh", "other"}
  BY VisitWork, StateFields DEF Leads
<1> DEFINE s == [i \in DOMAIN x.list |-> Visit(x.list[i])]
           m == Len(x.list)
<1>3. IsSequence(s) /\ Len(s) = m
  <2>1. s \in [1 .. m -> {s[i] : i \in 1 .. m}]
    BY <1>1
  <2>2. s \in Seq({s[i] : i \in 1 .. m})
    BY <1>1, <2>1, SeqDef
  <2>3. Len(s) = m
    BY <1>1
  <2> QED
    BY <2>2, <2>3, ASequence
<1>4. ASSUME NEW i \in 1 .. m
      PROVE  /\ IsWork(s[i]) /\ s[i].do # "name" /\ Uses(s[i]) = 0
             /\ Effect(s[i]) = 1 /\ After(s[i]) = "other"
  <2>1. s[i] = Visit(x.list[i]) /\ IsPart(x.list[i]) /\ x.list[i].is = "NodeArg"
    BY <1>1 DEF IsPart, IsNodeArg
  <2> QED
    BY <2>1, VisitWork
<1> HIDE DEF s, m
<1> DEFINE lowest == IF m = 0 THEN "other" ELSE p.last
<1>5. \A i \in 1 .. Len(s) : /\ IsWork(s[i]) /\ s[i].do # "name" /\ Uses(s[i]) = 0
                             /\ Effect(s[i]) = 1 /\ After(s[i]) = "other"
  BY <1>3, <1>4
<1>6. lowest \in {"node", "fresh", "other"} /\ lowest \in {p.last, "other"}
      /\ (IF Len(s) = 0 THEN lowest ELSE "other") = "other"
  BY <1>2, <1>3
<1> HIDE DEF lowest
<1>7. Takes(s, At(p.n, lowest), At(p.n + Len(s), IF Len(s) = 0 THEN lowest ELSE "other"))
  BY <1>2, <1>3, <1>5, <1>6, EachToDo
<1>8. At(p.n + Len(s), "other") = q
  BY <1>2, <1>3, StateFields DEF m
<1> QED
  BY <1>6, <1>7, <1>8 DEF s

(* The elements of a list, then the list.                                  *)
LEMMA ToElemsAndList ==
  ASSUME NEW x, NEW p, NEW q, Leads(Visit(x), p, q), IsPart(x), x.is = "NodeList"
  PROVE  Takes([i \in DOMAIN x.elems |-> Elem(x.elems[i], i - 1)] \o <<MakeList(x)>>, p, q)
<1>1. /\ IsNodeList(x, Trees) /\ IsSequence(x.elems) /\ Len(x.elems) \in Nat
      /\ DOMAIN x.elems = 1 .. Len(x.elems)
      /\ \A i \in DOMAIN x.elems : x.elems[i].node \in Trees
  BY PartIs, SequenceFacts DEF IsNodeList
<1>2. p \in States /\ q \in States /\ p.n \in Nat /\ q.n = p.n + 1 /\ q.last = "fresh"
      /\ p.last \in {"node", "fresh", "other"}
  BY VisitWork, StateFields DEF Leads
<1> DEFINE s == [i \in DOMAIN x.elems |-> Elem(x.elems[i], i - 1)]
           m == Len(x.elems)
<1>3. IsSequence(s) /\ Len(s) = m
  <2>1. s \in [1 .. m -> {s[i] : i \in 1 .. m}]
    BY <1>1
  <2>2. s \in Seq({s[i] : i \in 1 .. m})
    BY <1>1, <2>1, SeqDef
  <2>3. Len(s) = m
    BY <1>1
  <2> QED
    BY <2>2, <2>3, ASequence
<1>4. ASSUME NEW i \in 1 .. m
      PROVE  /\ IsWork(s[i]) /\ s[i].do # "name" /\ Uses(s[i]) = 0
             /\ Effect(s[i]) = 1 /\ After(s[i]) = "node"
  <2>1. s[i] = Elem(x.elems[i], i - 1) /\ x.elems[i].node \in Trees
    BY <1>1
  <2> QED
    BY <2>1, ElemWork
<1> HIDE DEF s
<1>5. \A i \in 1 .. Len(s) : /\ IsWork(s[i]) /\ s[i].do # "name" /\ Uses(s[i]) = 0
                             /\ Effect(s[i]) = 1 /\ After(s[i]) = "node"
  BY <1>3, <1>4
<1> DEFINE end == IF Len(s) = 0 THEN p.last ELSE "node"
           r == At(p.n + m, end)
<1>6. end \in {"node", "fresh", "other"} /\ m \in Nat /\ p.n + m \in Nat
  BY <1>1, <1>2
<1>7. Takes(s, At(p.n, p.last), At(p.n + Len(s), end))
  BY <1>2, <1>3, <1>5, EachToDo
<1>8. r \in States /\ r.n = p.n + m
  BY <1>6, AtFields
<1>9. Takes(s, p, r)
  BY <1>2, <1>3, <1>7, StateFields
<1> HIDE DEF end, r
<1>10. Leads(MakeList(x), r, q)
  BY <1>1, <1>2, <1>6, <1>8, ListWork DEF Leads
<1>11. Takes(s \o <<MakeList(x)>>, p, q)
  BY <1>9, <1>10, OneToDo, TakesBoth
<1> QED
  BY <1>11 DEF s

(* An element, when its number is right, is its node.                      *)
LEMMA ToElem ==
  ASSUME NEW w, NEW p, NEW q, Leads(w, p, q), w.do = "elem"
  PROVE  Takes(<<Visit(w.at.node)>>, p, q)
<1>1. w.at.node \in Trees /\ w.at.node.is = "TreeNode" /\ IsPart(w.at.node)
  BY TreeNodeParts DEF Leads, IsWork, IsPart
<1>2. Uses(w) = 0 /\ Effect(w) = 1 /\ After(w) = "node"
  BY DEF Uses, Effect, After
<1>3. Leads(Visit(w.at.node), p, q)
  BY <1>1, <1>2, VisitWork DEF Leads
<1> QED
  BY <1>3, OneToDo

-----------------------------------------------------------------------------
(* The inductive invariant.                                                *)
(* An object of the stack; a node of the typed AST is its place in `nodes'.*)
IsObj(o, nodes, made) ==
  /\ o = [name |-> o.name, kind |-> o.kind, of |-> o.of, nodes |-> o.nodes, str |-> o.str]
  /\ o.kind \in {"node", "list", "cptr"}
  /\ o.kind = "cptr" => o.of = "char*" /\ o.nodes = <<>>
  /\ o.kind # "cptr" => o.of \in Classes
  /\ o.nodes \in Seq(1 .. Len(nodes))
  /\ made = "node" =>
       /\ o.kind = "node" => Len(o.nodes) = 1 /\ o.of = nodes[o.nodes[1]].kind
       /\ o.kind = "list" => \A n \in ToSet(o.nodes) : IsA(Base, nodes[n].kind, o.of)

Objects(objs, nodes, made) ==
  IsSequence(objs) /\ \A i \in 1 .. Len(objs) : IsObj(objs[i], nodes, made)

AST(nodes) ==
  /\ IsSequence(nodes) /\ Len(nodes) \in 0 .. MaxNodes
  /\ \A i \in 1 .. Len(nodes) : nodes[i].kind \in Classes

(* What is on top of the stack is what was done last.                      *)
Shows(last, objs) ==
  last # "other" => /\ objs # <<>> /\ Head(objs).name = Null
                    /\ last = "node" => Head(objs).kind = "node"

Typed ==
  /\ tree \in Trees /\ mode \in {"type", "node"} /\ strict \in BOOLEAN
  /\ IsSequence(todo) /\ \A i \in 1 .. Len(todo) : IsWork(todo[i])
  /\ Objects(stack, store, mode)
  /\ AST(store)
  /\ blocks \in 0 .. MaxBlocks
  /\ narg_error \in BOOLEAN
  /\ outcome \in {"running", "done"} \cup InputErrors
  /\ outcome = "running" => narg_error = FALSE

(* The work to come can be done on the stack that there is, and leaves one *)
(* object, a node.                                                         *)
Fits ==
  outcome \in {"running", "done"} =>
    \E p \in States : /\ p.n = Len(stack) /\ Shows(p.last, stack)
                      /\ Takes(todo, p, At(1, "node"))

IInv == Typed /\ Fits

-----------------------------------------------------------------------------
LEMMA TakesAreWork ==
  ASSUME NEW s, NEW p, NEW q, Takes(s, p, q)
  PROVE  IsSequence(s) /\ \A i \in 1 .. Len(s) : IsWork(s[i])
BY DEF Takes, Leads

LEMMA TakesEnds ==
  ASSUME NEW s, NEW p, NEW q, Takes(s, p, q)
  PROVE  p \in States /\ q \in States
<1>1. 1 \in 1 .. Len(s) + 1 /\ Len(s) + 1 \in 1 .. Len(s) + 1
  BY SequenceFacts DEF Takes
<1> QED
  BY <1>1 DEF Takes

(* The next of the work.                                                   *)
LEMMA NextItem ==
  ASSUME IInv, outcome = "running", todo # <<>>
  PROVE  \E p \in States, q \in States :
           /\ p.n = Len(stack) /\ p.n \in Nat /\ Shows(p.last, stack)
           /\ Leads(Head(todo), p, q) /\ Takes(Tail(todo), q, At(1, "node"))
<1>1. PICK p \in States : /\ p.n = Len(stack) /\ Shows(p.last, stack)
                          /\ Takes(todo, p, At(1, "node"))
  BY DEF IInv, Fits
<1>2. PICK q \in States : Leads(Head(todo), p, q) /\ Takes(Tail(todo), q, At(1, "node"))
  BY <1>1, TakesFirst
<1> QED
  BY <1>1, <1>2, StateFields

(* A step of the visitor that leads to other work.                         *)
LEMMA OtherWork ==
  ASSUME IInv, outcome = "running", NEW s, NEW p, NEW q, p \in States, p.n = Len(stack),
         Shows(p.last, stack), Takes(s, p, q), Takes(Tail(todo), q, At(1, "node")),
         todo' = s \o Tail(todo),
         UNCHANGED <<input, stack, store, blocks, narg_error, outcome>>
  PROVE  IInv'
<1>1. Takes(todo', p, At(1, "node"))
  BY TakesBoth
<1>2. IsSequence(todo') /\ \A i \in 1 .. Len(todo') : IsWork(todo'[i])
  BY <1>1, TakesAreWork
<1>3. Typed'
  BY <1>2 DEF IInv, Typed, input
<1>4. Fits'
  <2>1. /\ p.n = Len(stack') /\ Shows(p.last, stack')
    OBVIOUS
  <2> QED
    BY <1>1, <2>1 DEF Fits
<1> QED
  BY <1>3, <1>4 DEF IInv

(* An error ends the evaluation.                                           *)
LEMMA AnError ==
  ASSUME IInv, outcome' \in InputErrors, UNCHANGED <<input, todo, store>>,
         Objects(stack', store, mode), blocks' \in 0 .. MaxBlocks, narg_error' \in BOOLEAN
  PROVE  IInv'
<1>1. outcome' \notin {"running", "done"}
  BY DEF InputErrors
<1>2. Typed'
  BY <1>1 DEF IInv, Typed, input
<1>3. Fits'
  BY <1>1 DEF Fits
<1> QED
  BY <1>2, <1>3 DEF IInv

-----------------------------------------------------------------------------
LEMMA VisitOfItem ==
  ASSUME NEW w, NEW p, NEW q, Leads(w, p, q), w.do = "visit"
  PROVE  Leads(Visit(w.at), p, q) /\ IsPart(w.at)
<1>1. IsPart(w.at)
  BY DEF Leads, IsWork
<1>2. /\ Uses(w) = 0 /\ Effect(w) = Effect(Visit(w.at)) /\ After(w) = After(Visit(w.at))
      /\ Visit(w.at).do = "visit"
  BY DEF Uses, Effect, After, Visit
<1>3. Uses(Visit(w.at)) = 0 /\ IsWork(Visit(w.at))
  BY <1>1, VisitWork
<1> QED
  BY <1>1, <1>2, <1>3 DEF Leads

LEMMA ExpandPreserves ==
  ASSUME IInv, Expand
  PROVE  IInv'
<1>1. /\ outcome = "running" /\ todo # <<>> /\ Head(todo).do = "visit"
      /\ UNCHANGED <<input, stack, store, blocks, narg_error, outcome>>
  BY DEF Expand, Visiting, Running
<1>2. PICK p \in States, q \in States :
        /\ p.n = Len(stack) /\ p.n \in Nat /\ Shows(p.last, stack)
        /\ Leads(Head(todo), p, q) /\ Takes(Tail(todo), q, At(1, "node"))
  BY <1>1, NextItem
<1> DEFINE x == Head(todo).at
<1>3. Leads(Visit(x), p, q) /\ IsPart(x) /\ Item = x
  BY <1>1, <1>2, VisitOfItem DEF Item
<1> HIDE DEF x
<1>4. \E s, r : /\ r \in States /\ r.n = p.n /\ r.last \in {p.last, "other"} /\ Takes(s, r, q)
                /\ todo' = s \o Tail(todo)
  <2>1. CASE Visiting("Tree") /\ todo' = <<Visit(Item.root)>> \o Tail(todo)
    <3>1. x.is = "Tree" /\ x.root \in Trees
      BY <1>3, <2>1, PartIs DEF Visiting, Item, x
    <3>2. Takes(<<Visit(x.root)>>, p, q)
      BY <1>3, <3>1, ToTreeNode
    <3> QED
      BY <1>3, <2>1, <3>2
  <2>2. CASE Visiting("TreeNode") /\ todo' = <<Visit(Item.args), MakeNode(Item)>> \o Tail(todo)
    <3>1. x \in Trees
      BY <1>3, <2>2, PartIs DEF Visiting, Item, x
    <3>2. Takes(<<Visit(x.args), MakeNode(x)>>, p, q)
      BY <1>3, <3>1, ToArgsAndNode
    <3> QED
      BY <1>3, <2>2, <3>2
  <2>3. CASE /\ Visiting("ListArgs")
             /\ todo' = [i \in DOMAIN Item.list |-> Visit(Item.list[i])] \o Tail(todo)
    <3>1. x.is = "ListArgs"
      BY <1>3, <2>3 DEF Visiting, Item, x
    <3>2. PICK last \in {p.last, "other"} :
            Takes([i \in DOMAIN x.list |-> Visit(x.list[i])], At(p.n, last), q)
      BY <1>3, <3>1, ToEachArg
    <3>3. At(p.n, last) \in States /\ At(p.n, last).n = p.n /\ At(p.n, last).last = last
      BY <1>2, StateFields, AtFields
    <3> QED
      BY <1>3, <2>3, <3>2, <3>3
  <2>4. CASE /\ Visiting("NodeArg")
             /\ todo' = <<Visit(Item.value), SetName(Item.name)>> \o Tail(todo)
    <3>1. x.is = "NodeArg"
      BY <1>3, <2>4 DEF Visiting, Item, x
    <3>2. Takes(<<Visit(x.value), SetName(x.name)>>, p, q)
      BY <1>3, <3>1, ToValueAndName
    <3> QED
      BY <1>3, <2>4, <3>2
  <2>5. CASE Visiting("NodeValue") /\ todo' = <<Visit(Item.node)>> \o Tail(todo)
    <3>1. x.is = "NodeValue" /\ x.node \in Trees
      BY <1>3, <2>5, PartIs DEF Visiting, Item, x, IsArgValue
    <3>2. Takes(<<Visit(x.node)>>, p, q)
      BY <1>3, <3>1, ToTreeNode
    <3> QED
      BY <1>3, <2>5, <3>2
  <2>6. CASE Visiting("ListValue") /\ todo' = <<Visit(Item.list)>> \o Tail(todo)
    <3>1. x.is = "ListValue" /\ IsPart(x.list) /\ x.list.is = "NodeList"
      BY <1>3, <2>6, PartIs DEF Visiting, Item, x, IsArgValue, IsNodeList, IsPart
    <3>2. Takes(<<Visit(x.list)>>, p, q)
      BY <1>3, <3>1, ToLiteralOrList
    <3> QED
      BY <1>3, <2>6, <3>2
  <2>7. CASE /\ Visiting("LiteralValue") \/ Visiting("LiteralArgs")
             /\ todo' = <<Visit(Item.literal)>> \o Tail(todo)
    <3>1. /\ x.is \in {"LiteralValue", "LiteralArgs"} /\ x.literal.is = "Literal"
      BY <1>3, <2>7, PartIs DEF Visiting, Item, x, IsArgValue, IsNodeArgs
    <3>2. Takes(<<Visit(x.literal)>>, p, q)
      BY <1>3, <3>1, ToLiteralOrList DEF IsPart
    <3> QED
      BY <1>3, <2>7, <3>2
  <2>8. CASE /\ Visiting("NodeList")
             /\ todo' = [i \in DOMAIN Item.elems |-> Elem(Item.elems[i], i - 1)]
                        \o <<MakeList(Item)>> \o Tail(todo)
    <3>1. x.is = "NodeList"
      BY <1>3, <2>8 DEF Visiting, Item, x
    <3>2. Takes([i \in DOMAIN x.elems |-> Elem(x.elems[i], i - 1)] \o <<MakeList(x)>>, p, q)
      BY <1>3, <3>1, ToElemsAndList
    <3> QED
      BY <1>3, <2>8, <3>2
  <2> QED
    BY <2>1, <2>2, <2>3, <2>4, <2>5, <2>6, <2>7, <2>8 DEF Expand
<1>5. PICK s, r : /\ r \in States /\ r.n = p.n /\ r.last \in {p.last, "other"} /\ Takes(s, r, q)
                  /\ todo' = s \o Tail(todo)
  BY <1>4
<1>6. Shows(r.last, stack)
  BY <1>2, <1>5 DEF Shows
<1> QED
  BY <1>1, <1>2, <1>5, <1>6, OtherWork

LEMMA VisitElemPreserves ==
  ASSUME IInv, VisitElem
  PROVE  IInv'
<1>1. /\ outcome = "running" /\ todo # <<>> /\ Head(todo).do = "elem"
      /\ UNCHANGED <<input, stack, store, blocks, narg_error>>
  BY DEF VisitElem, Running
<1>2. CASE Item.index = Head(todo).k
  <2>1. todo' = <<Visit(Head(todo).at.node)>> \o Tail(todo) /\ UNCHANGED outcome
    BY <1>2 DEF VisitElem, Item
  <2>2. PICK p \in States, q \in States :
          /\ p.n = Len(stack) /\ p.n \in Nat /\ Shows(p.last, stack)
          /\ Leads(Head(todo), p, q) /\ Takes(Tail(todo), q, At(1, "node"))
    BY <1>1, NextItem
  <2>3. Takes(<<Visit(Head(todo).at.node)>>, p, q)
    BY <1>1, <2>2, ToElem
  <2> QED
    BY <1>1, <2>1, <2>2, <2>3, OtherWork
<1>3. CASE Item.index # Head(todo).k
  <2>1. outcome' = "list index" /\ UNCHANGED todo
    BY <1>3 DEF VisitElem, Fail
  <2>2. /\ outcome' \in InputErrors /\ Objects(stack', store, mode)
        /\ blocks' \in 0 .. MaxBlocks /\ narg_error' \in BOOLEAN
    BY <1>1, <2>1 DEF InputErrors, IInv, Typed
  <2> QED
    BY <1>1, <2>1, <2>2, AnError
<1> QED
  BY <1>2, <1>3

-----------------------------------------------------------------------------
(* Calls that return: the item is done.                                    *)
LEMMA ItemDone ==
  ASSUME IInv, outcome = "running", NEW q \in States, Takes(Tail(todo), q, At(1, "node")),
         todo' = Tail(todo), outcome' = outcome, UNCHANGED input,
         q.n = Len(stack'), Shows(q.last, stack'),
         Objects(stack', store', mode), AST(store'), blocks' \in 0 .. MaxBlocks,
         narg_error' = FALSE
  PROVE  IInv'
<1>1. Takes(todo', q, At(1, "node"))
  OBVIOUS
<1>2. IsSequence(todo') /\ \A i \in 1 .. Len(todo') : IsWork(todo'[i])
  BY <1>1, TakesAreWork
<1>3. Typed'
  BY <1>2 DEF IInv, Typed, input
<1>4. Fits'
  BY <1>1 DEF Fits
<1> QED
  BY <1>3, <1>4 DEF IInv

LEMMA Pushed ==
  ASSUME NEW objs, NEW nodes, NEW made, NEW o, Objects(objs, nodes, made), IsObj(o, nodes, made)
  PROVE  /\ Objects(<<o>> \o objs, nodes, made) /\ Len(<<o>> \o objs) = Len(objs) + 1
         /\ <<o>> \o objs # <<>> /\ Head(<<o>> \o objs) = o /\ Len(objs) \in Nat
<1> DEFINE t == <<o>>
           s == t \o objs
<1>1. IsSequence(objs) /\ Len(objs) \in Nat
  BY SequenceFacts DEF Objects
<1>2. IsSequence(t) /\ Len(t) = 1 /\ t[1] = o
  BY OneItem
<1> HIDE DEF t
<1>3. /\ IsSequence(s) /\ Len(s) = 1 + Len(objs)
      /\ \A i \in 1 .. 1 + Len(objs) : s[i] = IF i <= 1 THEN t[i] ELSE objs[i - 1]
  BY <1>1, <1>2, BothSequences, ZenonT(30)
<1> HIDE DEF s
<1>4. s # <<>> /\ Head(s) = s[1] /\ s[1] = o
  <2>1. s # <<>>
    BY <1>1, <1>3
  <2>2. 1 \in 1 .. 1 + Len(objs)
    BY <1>1
  <2> QED
    BY <1>2, <1>3, <2>1, <2>2, TailSequence
<1>5. ASSUME NEW i \in 1 .. Len(s)  PROVE IsObj(s[i], nodes, made)
  <2>1. CASE i = 1
    BY <1>4, <2>1
  <2>2. CASE i # 1
    <3>1. i - 1 \in 1 .. Len(objs) /\ s[i] = objs[i - 1]
      BY <1>1, <1>3, <2>2
    <3> QED
      BY <3>1 DEF Objects
  <2> QED
    BY <2>1, <2>2
<1>6. Objects(s, nodes, made) /\ Len(s) = Len(objs) + 1
  BY <1>1, <1>3, <1>5 DEF Objects
<1> QED
  BY <1>1, <1>4, <1>6 DEF s, t

LEMMA MadeObj ==
  ASSUME NEW kind, NEW class, NEW nodes, NEW str
  PROVE  LET o == Obj(kind, class, nodes, str)
         IN  /\ o = [name |-> o.name, kind |-> o.kind, of |-> o.of, nodes |-> o.nodes,
                     str |-> o.str]
             /\ o.name = Null /\ o.kind = kind /\ o.of = class
             /\ o.nodes = IF mode = "node" THEN nodes ELSE <<>>
BY DEF Obj

LEMMA VisitLiteralPreserves ==
  ASSUME IInv, VisitLiteral
  PROVE  IInv'
<1> DEFINE o == Obj("cptr", "char*", <<>>, Item.str)
<1>1. /\ outcome = "running" /\ todo # <<>> /\ Head(todo).do = "visit"
      /\ Head(todo).at.is = "Literal"
      /\ stack' = <<o>> \o stack /\ todo' = Tail(todo)
      /\ UNCHANGED <<input, store, blocks, narg_error, outcome>>
  BY DEF VisitLiteral, Visiting, Running, Push
<1>2. PICK p \in States, q \in States :
        /\ p.n = Len(stack) /\ p.n \in Nat /\ Shows(p.last, stack)
        /\ Leads(Head(todo), p, q) /\ Takes(Tail(todo), q, At(1, "node"))
  BY <1>1, NextItem
<1>3. o.name = Null /\ IsObj(o, store, mode)
  <2>1. /\ o = [name |-> o.name, kind |-> o.kind, of |-> o.of, nodes |-> o.nodes, str |-> o.str]
        /\ o.name = Null /\ o.kind = "cptr" /\ o.of = "char*" /\ o.nodes = <<>>
    BY MadeObj
  <2>2. <<>> \in Seq(1 .. Len(store))
    OBVIOUS
  <2> HIDE DEF o
  <2> QED
    BY <2>1, <2>2 DEF IsObj
<1> HIDE DEF o
<1>4. /\ Objects(stack', store, mode) /\ Len(stack') = Len(stack) + 1
      /\ stack' # <<>> /\ Head(stack') = o
  BY <1>1, <1>3, Pushed DEF IInv, Typed
<1>5. q.n = Len(stack) + 1 /\ q.last = "fresh"
  BY <1>1, <1>2 DEF Leads, Effect, After
<1>6. q.n = Len(stack') /\ Shows(q.last, stack')
  BY <1>3, <1>4, <1>5 DEF Shows
<1>7. /\ Objects(stack', store', mode) /\ AST(store') /\ blocks' \in 0 .. MaxBlocks
      /\ narg_error' = FALSE
  BY <1>1, <1>4 DEF IInv, Typed
<1> QED
  BY <1>1, <1>2, <1>6, <1>7, ItemDone

(* What is there when an object is to be named.                            *)
LEMMA NameItem ==
  ASSUME IInv, Running("name")
  PROVE  /\ NameError = "none" /\ IsSequence(stack) /\ DOMAIN stack = 1 .. Len(stack)
         /\ Len(stack) \in Nat \ {0}
<1>1. outcome = "running" /\ todo # <<>> /\ Head(todo).do = "name"
  BY DEF Running
<1>2. PICK p \in States, q \in States : Shows(p.last, stack) /\ Leads(Head(todo), p, q)
  BY <1>1, NextItem
<1>3. stack # <<>> /\ Head(stack).name = Null
  BY <1>1, <1>2 DEF Leads, Shows
<1>4. IsSequence(stack)
  BY DEF IInv, Typed, Objects
<1> QED
  BY <1>3, <1>4, TailSequence, SequenceFacts DEF NameError

LEMMA VisitArgNamePreserves ==
  ASSUME IInv, VisitArgName
  PROVE  IInv'
<1>1. /\ outcome = "running" /\ todo # <<>> /\ Head(todo).do = "name"
      /\ UNCHANGED <<input, store, blocks, narg_error>>
  BY DEF VisitArgName, Running
<1>2. PICK p \in States, q \in States :
        /\ p.n = Len(stack) /\ p.n \in Nat /\ Shows(p.last, stack)
        /\ Leads(Head(todo), p, q) /\ Takes(Tail(todo), q, At(1, "node"))
  BY <1>1, NextItem
<1>3. q.n = p.n + 0 /\ q.last = "other"
  BY <1>1, <1>2 DEF Leads, Effect, After
<1>4. NameError = "none" /\ IsSequence(stack) /\ Len(stack) \in Nat \ {0}
  BY NameItem DEF VisitArgName
<1>5. Objects(stack, store, mode)
  BY DEF IInv, Typed
<1>6. stack' = [stack EXCEPT ![1].name = Item] /\ todo' = Tail(todo) /\ outcome' = outcome
  BY <1>4 DEF VisitArgName
<1>7. /\ IsSequence(stack) /\ stack \in Seq(ToSet(stack))
      /\ Len(stack) \in Nat /\ 1 \in 1 .. Len(stack) /\ DOMAIN stack = 1 .. Len(stack)
  BY <1>4, SequenceFacts
<1> DEFINE o == [stack[1] EXCEPT !.name = Item]
<1>8. /\ stack' \in [1 .. Len(stack) -> ToSet(stack) \cup {o}]
      /\ \A i \in 1 .. Len(stack) : stack'[i] = IF i = 1 THEN o ELSE stack[i]
  <2>1. stack' = [i \in 1 .. Len(stack) |-> IF i = 1 THEN o ELSE stack[i]]
    BY <1>6, <1>7
  <2>2. \A i \in 1 .. Len(stack) : stack[i] \in ToSet(stack)
    BY <1>7, SequenceFacts
  <2> HIDE DEF o
  <2> QED
    BY <2>1, <2>2
<1>9. IsObj(o, store, mode)
  <2>1. IsObj(stack[1], store, mode)
    BY <1>5, <1>7 DEF Objects
  <2>2. /\ o.kind = stack[1].kind /\ o.of = stack[1].of /\ o.nodes = stack[1].nodes
        /\ o = [name |-> o.name, kind |-> o.kind, of |-> o.of, nodes |-> o.nodes, str |-> o.str]
    BY <2>1 DEF IsObj
  <2> HIDE DEF o
  <2> QED
    BY <2>1, <2>2 DEF IsObj
<1> HIDE DEF o
<1>10. stack' \in Seq(ToSet(stack) \cup {o}) /\ Len(stack') = Len(stack)
  BY <1>7, <1>8, SeqDef
<1>11. IsSequence(stack')
  BY <1>10, ASequence
<1>12. Objects(stack', store, mode)
  <2>1. ASSUME NEW i \in 1 .. Len(stack')  PROVE IsObj(stack'[i], store, mode)
    BY <1>5, <1>7, <1>8, <1>9, <1>10 DEF Objects
  <2> QED
    BY <1>11, <2>1 DEF Objects
<1>13. q.n = Len(stack') /\ Shows(q.last, stack')
  BY <1>2, <1>3, <1>10 DEF Shows
<1>14. /\ Objects(stack', store', mode) /\ AST(store') /\ blocks' \in 0 .. MaxBlocks
       /\ narg_error' = FALSE
  BY <1>1, <1>12 DEF IInv, Typed
<1> QED
  BY <1>1, <1>2, <1>6, <1>13, <1>14, ItemDone

LEMMA FinishPreserves ==
  ASSUME IInv, Finish
  PROVE  IInv'
<1>1. /\ outcome = "running" /\ todo = <<>>
      /\ UNCHANGED <<input, todo, stack, store, blocks, narg_error>>
  BY DEF Finish
<1>2. PICK p \in States : /\ p.n = Len(stack) /\ Shows(p.last, stack)
                          /\ Takes(todo, p, At(1, "node"))
  BY <1>1 DEF IInv, Fits
<1>3. p = At(1, "node") /\ At(1, "node").n = 1 /\ At(1, "node").last = "node"
  BY <1>1, <1>2, NothingTaken, AtFields
<1>4. Len(stack) = 1 /\ stack # <<>> /\ Head(stack).kind = "node"
  BY <1>2, <1>3 DEF Shows
<1>5. Head(stack) = stack[1]
  BY <1>4, TailSequence DEF IInv, Typed, Objects
<1>6. outcome' = "done"
  BY <1>4, <1>5 DEF Finish
<1>7. Typed'
  BY <1>1, <1>6 DEF IInv, Typed, input
<1>8. Fits'
  BY <1>1, <1>2 DEF Fits
<1> QED
  BY <1>7, <1>8 DEF IInv

-----------------------------------------------------------------------------
(* The calls of the makers.                                                *)
LEMMA ClassFacts ==
  ASSUME NEW class \in Classes
  PROVE  /\ NArg(class) \in Nat
         /\ \A i \in 1 .. NArg(class) : Types[class].fields[i].is \in {"node", "list", "str", "val"}
         /\ DOMAIN Makers[class] \subseteq 1 .. NArg(class)
         /\ Cardinality(StrParams(class)) \in Nat
<1>1. /\ IsSequence(Types[class].fields)
      /\ \A i \in DOMAIN Types[class].fields :
           Types[class].fields[i].is \in {"node", "list", "str", "val"}
      /\ DOMAIN Makers[class] \subseteq 1 .. NArg(class)
  BY LibraryAssumption
<1>2. NArg(class) \in Nat /\ DOMAIN Types[class].fields = 1 .. NArg(class)
  BY <1>1, SequenceFacts DEF NArg
<1>3. StrParams(class) \subseteq 1 .. NArg(class)
  BY <1>1 DEF StrParams
<1>4. Cardinality(StrParams(class)) \in Nat
  <2>1. IsFiniteSet(1 .. NArg(class))
    BY <1>2, FS_Interval
  <2> DEFINE S == StrParams(class)
  <2> HIDE DEF S
  <2>2. IsFiniteSet(S)
    BY <1>3, <2>1, FS_Subset DEF S
  <2>3. Cardinality(S) \in Nat
    BY <2>2, FS_CardinalityType
  <2> QED
    BY <2>3 DEF S
<1> QED
  BY <1>1, <1>2, <1>4

LEMMA ArgErrors ==
  ASSUME NEW class, NEW i
  PROVE  LET obj == NthArg(NArg(class), i)
             def == Types[class].fields[i]
         IN  /\ ArgError(class, i) \in {"none", "arg name", "arg cast"}
             /\ ArgError(class, i) = "none" <=> obj.name = def.name /\ TypeCast(def, obj)
<1> DEFINE obj == NthArg(NArg(class), i)
           def == Types[class].fields[i]
<1>1. CASE def.name # obj.name
  BY <1>1 DEF ArgError
<1>2. CASE def.name = obj.name /\ ~TypeCast(def, obj)
  BY <1>2 DEF ArgError
<1>3. CASE def.name = obj.name /\ TypeCast(def, obj)
  BY <1>3 DEF ArgError
<1> QED
  BY <1>1, <1>2, <1>3

LEMMA MinIsIn ==
  ASSUME NEW S \in SUBSET Nat, S # {}
  PROVE  Min(S) \in S
<1>1. \E x \in S : \A y \in S : x <= y
  BY LeastMember
<1> QED
  BY <1>1 DEF Min

(* The check of the arguments finds as many as the call says: what it can  *)
(* find wrong is how many the class has, and what they are.                *)
LEMMA CheckNodeArgs ==
  ASSUME NEW t \in Trees, NumArgs(t.args) <= Len(stack), Len(stack) \in Nat, t.name \in Classes
  PROVE  /\ NodeArgsError(t) \in {"none", "narg", "arg name", "arg cast"}
         /\ NodeArgsError(t) = "none" <=>
              /\ NArg(t.name) = NumArgs(t.args)
              /\ \A i \in 1 .. NArg(t.name) :
                   LET obj == NthArg(NArg(t.name), i)
                       def == Types[t.name].fields[i]
                   IN  /\ t.args.is = "ListArgs" => obj.name = def.name
                       /\ TypeCast(def, obj)
<1> DEFINE narg == NArg(t.name)
           wrong == {i \in 1 .. narg : ArgError(t.name, i) # "none"}
           here == narg = NumArgs(t.args) /\ narg <= Len(stack)
<1>1. narg \in Nat /\ NumArgs(t.args) \in Nat /\ t.args.is \in {"LiteralArgs", "ListArgs"}
  BY ClassFacts, TreeNodeParts, NumArgsIsNat DEF IsNodeArgs
<1>2. CASE narg # NumArgs(t.args)
  BY <1>2 DEF NodeArgsError
<1>3. CASE here /\ t.args.is = "LiteralArgs"
  <2>1. ~(narg > Len(stack))
    BY <1>1, <1>3
  <2>2. NodeArgsError(t) = IF TypeCast(Types[t.name].fields[1], Arg(0)) THEN "none" ELSE "arg cast"
    BY <1>1, <1>3, <2>1 DEF NodeArgsError
  <2>3. narg = 1
    BY <1>3 DEF NumArgs
  <2>4. NthArg(narg, 1) = Arg(0)
    BY <2>3 DEF NthArg
  <2>5. NodeArgsError(t) = "none" <=> TypeCast(Types[t.name].fields[1], NthArg(narg, 1))
    BY <2>2, <2>4
  <2> HIDE DEF narg
  <2>6. NodeArgsError(t) = "none" <=>
          \A i \in 1 .. narg : TypeCast(Types[t.name].fields[i], NthArg(narg, i))
    BY <2>3, <2>5
  <2> QED
    BY <1>3, <2>2, <2>6 DEF narg
<1>4. CASE here /\ t.args.is = "ListArgs"
  <2>1. ~(narg > Len(stack))
    BY <1>1, <1>4
  <2>2. NodeArgsError(t) = IF wrong = {} THEN "none" ELSE ArgError(t.name, Min(wrong))
    BY <1>1, <1>4, <2>1 DEF NodeArgsError
  <2>3. wrong # {} => Min(wrong) \in wrong
    <3>1. wrong \in SUBSET Nat
      BY <1>1
    <3> HIDE DEF wrong
    <3> QED
      BY <3>1, MinIsIn
  <2>4. wrong # {} => NodeArgsError(t) # "none"
    BY <2>2, <2>3
  <2>5. NodeArgsError(t) = "none" <=> \A i \in 1 .. narg : ArgError(t.name, i) = "none"
    BY <2>2, <2>4
  <2> HIDE DEF narg
  <2>6. NodeArgsError(t) = "none" <=>
          \A i \in 1 .. narg : /\ NthArg(narg, i).name = Types[t.name].fields[i].name
                               /\ TypeCast(Types[t.name].fields[i], NthArg(narg, i))
    BY <2>5, ArgErrors DEF narg
  <2>7. NodeArgsError(t) \in {"none", "arg name", "arg cast"}
    BY <2>2, ArgErrors
  <2> QED
    BY <1>4, <2>6, <2>7 DEF narg
<1> QED
  BY <1>1, <1>2, <1>3, <1>4

LEMMA CheckListArgs ==
  ASSUME NEW l, Len(l.elems) <= Len(stack), Len(stack) \in Nat, Len(l.elems) \in Nat
  PROVE  /\ ListArgsError(l) \in {"none", "list cast"}
         /\ ListArgsError(l) = "none" <=>
              \A i \in 1 .. Len(l.elems) : TypeCast(NodeParam(l.base), NthArg(Len(l.elems), i))
<1>1. ~(Len(l.elems) > Len(stack))
  OBVIOUS
<1> DEFINE right == \A i \in 1 .. Len(l.elems) : TypeCast(NodeParam(l.base), NthArg(Len(l.elems), i))
<1>2. ListArgsError(l) = IF right THEN "none" ELSE "list cast"
  BY <1>1 DEF ListArgsError
<1> QED
  BY <1>2

(* The arguments are popped once.                                          *)
LEMMA PoppedObjects ==
  ASSUME Objects(stack, store, mode), narg_error = FALSE, NEW n \in Nat, n <= Len(stack)
  PROVE  /\ Objects(Popped(n), store, mode) /\ Len(Popped(n)) = Len(stack) - n
         /\ \A i \in 1 .. Len(stack) - n : Popped(n)[i] = stack[n + i]
<1> DEFINE s == SubSeq(stack, n + 1, Len(stack))
<1>1. /\ IsSequence(stack) /\ stack \in Seq(ToSet(stack)) /\ Len(stack) \in Nat
  BY SequenceFacts DEF Objects
<1>2. /\ n + 1 \in Int /\ Len(stack) - (n + 1) + 1 = Len(stack) - n
      /\ \A i \in n + 1 .. Len(stack) : i \in 1 .. Len(stack)
  BY <1>1
<1>3. CASE n = Len(stack)
  <2>1. s = <<>>
    BY <1>1, <1>3, SubSeqProperties
  <2> HIDE DEF s
  <2>2. IsSequence(s) /\ Len(s) = 0 /\ 1 .. Len(s) = {}
    BY <2>1, NothingIsSequence
  <2>3. Objects(s, store, mode) /\ Len(s) = Len(stack) - n /\ 1 .. Len(stack) - n = {}
    BY <1>1, <1>3, <2>2 DEF Objects
  <2> QED
    BY <2>3 DEF s, Popped
<1>4. CASE n < Len(stack)
  <2>1. /\ s \in Seq(ToSet(stack)) /\ Len(s) = Len(stack) - n
        /\ \A i \in 1 .. Len(stack) - n : s[i] = stack[n + 1 + i - 1] /\ n + 1 + i - 1 = n + i
    BY <1>1, <1>4, SubSeqProperties
  <2> HIDE DEF s
  <2>2. IsSequence(s)
    BY <2>1, ASequence
  <2>3. ASSUME NEW i \in 1 .. Len(s)  PROVE IsObj(s[i], store, mode)
    <3>1. n + 1 + i - 1 \in 1 .. Len(stack) /\ i \in 1 .. Len(stack) - n
      BY <1>1, <2>1
    <3> QED
      BY <2>1, <3>1 DEF Objects
  <2>4. Objects(s, store, mode)
    BY <2>2, <2>3 DEF Objects
  <2> QED
    BY <2>1, <2>4 DEF s, Popped
<1> QED
  BY <1>1, <1>3, <1>4

LEMMA MinOfTwo ==
  ASSUME NEW a \in Nat, NEW b \in Nat
  PROVE  Min({a, b}) \in 0 .. b
<1>1. \E x \in {a, b} : \A y \in {a, b} : x <= y
  <2>1. a <= b \/ b <= a
    OBVIOUS
  <2> QED
    BY <2>1
<1> QED
  BY <1>1 DEF Min

(* Objects stay right when a node is made.                                 *)
LEMMA NodeAdded ==
  ASSUME NEW nodes, NEW x, AST(nodes), x.kind \in Classes, Len(nodes) < MaxNodes
  PROVE  /\ AST(Append(nodes, x)) /\ Len(nodes) \in Nat
         /\ Len(Append(nodes, x)) = Len(nodes) + 1
         /\ Append(nodes, x)[Len(nodes) + 1] = x
         /\ \A i \in 1 .. Len(nodes) : Append(nodes, x)[i] = nodes[i]
<1> DEFINE S == ToSet(nodes) \cup {x}
           a == Append(nodes, x)
<1>1. IsSequence(nodes) /\ Len(nodes) \in Nat /\ nodes \in Seq(S) /\ MaxNodes \in Nat
  BY SequenceFacts, InSeq, LibraryAssumption DEF AST
<1>2. x \in S
  OBVIOUS
<1> HIDE DEF S
<1>3. /\ a \in Seq(S) /\ Len(a) = Len(nodes) + 1
      /\ \A i \in 1 .. Len(nodes) : a[i] = nodes[i]
      /\ a[Len(nodes) + 1] = x
  BY <1>1, <1>2, AppendProperties
<1> HIDE DEF a
<1>4. IsSequence(a) /\ Len(a) \in 0 .. MaxNodes
  BY <1>1, <1>3, ASequence
<1>5. ASSUME NEW i \in 1 .. Len(a)  PROVE a[i].kind \in Classes
  <2>1. CASE i \in 1 .. Len(nodes)
    BY <1>3, <2>1 DEF AST
  <2>2. CASE i = Len(nodes) + 1
    BY <1>3, <2>2
  <2> QED
    BY <1>1, <1>3, <2>1, <2>2
<1>6. AST(a)
  BY <1>4, <1>5 DEF AST
<1> QED
  BY <1>1, <1>3, <1>6 DEF a

LEMMA ObjectsStay ==
  ASSUME NEW objs, NEW nodes, NEW more, NEW made, Objects(objs, nodes, made),
         Len(nodes) \in Nat, Len(more) = Len(nodes) + 1,
         \A i \in 1 .. Len(nodes) : more[i] = nodes[i]
  PROVE  Objects(objs, more, made)
<1>1. ASSUME NEW o, IsObj(o, nodes, made)  PROVE IsObj(o, more, made)
  <2>1. o.nodes \in Seq(1 .. Len(nodes)) /\ 1 .. Len(nodes) \subseteq 1 .. Len(more)
    BY <1>1 DEF IsObj
  <2>2. /\ o.nodes \in Seq(1 .. Len(more)) /\ ToSet(o.nodes) \subseteq 1 .. Len(nodes)
        /\ Len(o.nodes) = 1 => o.nodes[1] \in 1 .. Len(nodes)
    <3>1. /\ Len(o.nodes) \in Nat /\ o.nodes \in [1 .. Len(o.nodes) -> 1 .. Len(nodes)]
          /\ DOMAIN o.nodes = 1 .. Len(o.nodes)
      BY <2>1, LenProperties
    <3>2. o.nodes \in [1 .. Len(o.nodes) -> 1 .. Len(more)]
      BY <2>1, <3>1
    <3>3. o.nodes \in Seq(1 .. Len(more))
      BY <3>1, <3>2, SeqDef
    <3>4. ToSet(o.nodes) \subseteq 1 .. Len(nodes)
      BY <3>1 DEF ToSet
    <3> QED
      BY <3>1, <3>3, <3>4
  <2>3. made = "node" /\ o.kind = "node" => Len(o.nodes) = 1 /\ o.of = more[o.nodes[1]].kind
    BY <1>1, <2>2 DEF IsObj
  <2>4. made = "node" /\ o.kind = "list" =>
          \A n \in ToSet(o.nodes) : IsA(Base, more[n].kind, o.of)
    <3>1. \A n \in ToSet(o.nodes) : more[n] = nodes[n]
      BY <2>2
    <3>2. made = "node" /\ o.kind = "list" =>
            \A n \in ToSet(o.nodes) : IsA(Base, nodes[n].kind, o.of)
      BY <1>1 DEF IsObj
    <3> QED
      BY <3>1, <3>2
  <2> QED
    BY <1>1, <2>2, <2>3, <2>4 DEF IsObj
<1> QED
  BY <1>1 DEF Objects

LEMMA MakeNodeFailsRightly ==
  ASSUME IInv, outcome = "running", Item \in Trees, NumArgs(Item.args) <= Len(stack),
         NEW error, MakeNodeFails(error), UNCHANGED input
  PROVE  /\ error \in InputErrors /\ Objects(stack', store, mode)
         /\ blocks' \in 0 .. MaxBlocks /\ narg_error' \in BOOLEAN
<1>1. /\ Objects(stack, store, mode) /\ narg_error = FALSE /\ blocks \in 0 .. MaxBlocks
      /\ Len(stack) \in Nat
  BY SequenceFacts DEF IInv, Typed, Objects
<1>2. CASE /\ Item.name \notin Classes
           /\ error = "unknown type"
           /\ UNCHANGED <<stack, blocks, narg_error>>
  BY <1>1, <1>2 DEF InputErrors
<1>3. CASE /\ Item.name \in Classes
           /\ error = NodeArgsError(Item)
           /\ error # "none"
           /\ narg_error' = (narg_error \/ error = "narg")
           /\ UNCHANGED <<stack, blocks>>
  <2>1. error \in InputErrors
    BY <1>1, <1>3, CheckNodeArgs DEF InputErrors
  <2>2. narg_error' \in BOOLEAN
    BY <1>3
  <2> QED
    BY <1>1, <1>3, <2>1, <2>2
<1>4. CASE /\ Item.name \in Classes
           /\ NodeArgsError(Item) = "none"
           /\ PopArgs(NArg(Item.name))
           /\ LET n == blocks + Cardinality(StrParams(Item.name))
              IN  \/ /\ error = "value"
                     /\ UNCHANGED blocks
                  \/ /\ error = "alloc"
                     /\ blocks' = Min({n, MaxBlocks})
  <2>1. NArg(Item.name) \in Nat /\ NArg(Item.name) <= Len(stack)
    BY <1>1, <1>4, CheckNodeArgs, ClassFacts
  <2>2. Objects(stack', store, mode) /\ narg_error' = FALSE
    BY <1>1, <1>4, <2>1, PoppedObjects DEF PopArgs
  <2>3. error \in InputErrors
    BY <1>4 DEF InputErrors
  <2>4. blocks' \in 0 .. MaxBlocks
    <3> DEFINE k == Cardinality(StrParams(Item.name))
    <3>1. k \in Nat /\ MaxBlocks \in Nat
      BY <1>4, ClassFacts, LibraryAssumption
    <3> HIDE DEF k
    <3>2. blocks + k \in Nat
      BY <1>1, <3>1
    <3>3. Min({blocks + k, MaxBlocks}) \in 0 .. MaxBlocks
      BY <3>1, <3>2, MinOfTwo
    <3> QED
      BY <1>1, <1>4, <3>3 DEF k
  <2> QED
    BY <2>2, <2>3, <2>4
<1> QED
  BY <1>2, <1>3, <1>4 DEF MakeNodeFails

(* What is there when a node is to be made.                                *)
LEMMA NodeItem ==
  ASSUME IInv, Running("node")
  PROVE  /\ outcome = "running" /\ Item \in Trees /\ NumArgs(Item.args) \in Nat
         /\ NumArgs(Item.args) <= Len(stack) /\ Len(stack) \in Nat
         /\ \E q \in States : /\ q.n = Len(stack) - NumArgs(Item.args) + 1 /\ q.last = "node"
                              /\ Takes(Tail(todo), q, At(1, "node"))
<1>1. outcome = "running" /\ todo # <<>> /\ Head(todo).do = "node" /\ Item = Head(todo).at
  BY DEF Running, Item
<1>2. PICK p \in States, q \in States :
        /\ p.n = Len(stack) /\ p.n \in Nat /\ Shows(p.last, stack)
        /\ Leads(Head(todo), p, q) /\ Takes(Tail(todo), q, At(1, "node"))
  BY <1>1, NextItem
<1>3. Item \in Trees
  BY <1>1, <1>2 DEF Leads, IsWork
<1>4. NumArgs(Item.args) \in Nat
  BY <1>3, TreeNodeParts, NumArgsIsNat
<1>5. Uses(Head(todo)) = NumArgs(Item.args) /\ Effect(Head(todo)) = 1 - NumArgs(Item.args)
  BY <1>1 DEF Uses, Effect
<1>6. /\ NumArgs(Item.args) <= Len(stack) /\ q.n = Len(stack) - NumArgs(Item.args) + 1
      /\ q.last = "node"
  <2> DEFINE w == Head(todo)
  <2>1. w.do = "node" /\ Leads(w, p, q)
    BY <1>1, <1>2
  <2> HIDE DEF w
  <2>2. p.n >= Uses(w) /\ q.n = p.n + Effect(w) /\ q.last = "node"
    BY <2>1 DEF Leads, After
  <2> QED
    BY <1>2, <1>4, <1>5, <2>2 DEF w
<1> QED
  BY <1>1, <1>2, <1>3, <1>4, <1>6

(* The arguments are popped, and the object that they made is pushed.      *)
LEMMA PoppedAndPushed ==
  ASSUME IInv, outcome = "running", NEW n \in Nat, n <= Len(stack), NEW obj, NEW last,
         Objects(Popped(n), store', mode), IsObj(obj, store', mode), obj.name = Null,
         last = "node" => obj.kind = "node",
         PopArgsAndPush(n, obj), AST(store'), blocks' \in 0 .. MaxBlocks, UNCHANGED input,
         \E q \in States : /\ q.n = Len(stack) - n + 1 /\ q.last = last
                           /\ Takes(Tail(todo), q, At(1, "node"))
  PROVE  IInv'
<1>1. /\ stack' = <<obj>> \o Popped(n) /\ narg_error' = FALSE /\ todo' = Tail(todo)
      /\ outcome' = outcome
  BY DEF PopArgsAndPush
<1>2. Objects(stack, store, mode) /\ narg_error = FALSE
  BY DEF IInv, Typed
<1>3. Len(Popped(n)) = Len(stack) - n
  BY <1>2, PoppedObjects
<1>4. /\ Objects(stack', store', mode) /\ Len(stack') = Len(stack) - n + 1
      /\ stack' # <<>> /\ Head(stack') = obj
  BY <1>1, <1>3, Pushed
<1>5. PICK q \in States : /\ q.n = Len(stack) - n + 1 /\ q.last = last
                          /\ Takes(Tail(todo), q, At(1, "node"))
  OBVIOUS
<1>6. q.n = Len(stack') /\ Shows(q.last, stack')
  BY <1>4, <1>5 DEF Shows
<1> QED
  BY <1>1, <1>4, <1>5, <1>6, ItemDone

LEMMA DoMakeNodePreserves ==
  ASSUME IInv, DoMakeNode
  PROVE  IInv'
<1> DEFINE class == Item.name
           narg == NArg(class)
<1>1. Running("node") /\ UNCHANGED input
  BY DEF DoMakeNode
<1>2. /\ outcome = "running" /\ Item \in Trees /\ NumArgs(Item.args) \in Nat
      /\ NumArgs(Item.args) <= Len(stack) /\ Len(stack) \in Nat
      /\ \E q \in States : /\ q.n = Len(stack) - NumArgs(Item.args) + 1 /\ q.last = "node"
                           /\ Takes(Tail(todo), q, At(1, "node"))
  BY <1>1, NodeItem
<1>3. /\ Objects(stack, store, mode) /\ AST(store) /\ narg_error = FALSE
      /\ blocks \in 0 .. MaxBlocks /\ mode \in {"type", "node"}
  BY <1>2 DEF IInv, Typed
<1>4. CASE /\ \E error \in InputErrors \cup StackErrors : MakeNodeFails(error) /\ Fail(error)
           /\ UNCHANGED store
  <2>1. PICK error : MakeNodeFails(error) /\ outcome' = error /\ UNCHANGED todo
    BY <1>4 DEF Fail
  <2>2. /\ error \in InputErrors /\ Objects(stack', store, mode)
        /\ blocks' \in 0 .. MaxBlocks /\ narg_error' \in BOOLEAN
    BY <1>1, <1>2, <2>1, MakeNodeFailsRightly
  <2> QED
    BY <1>1, <1>4, <2>1, <2>2, AnError
<1>5. ASSUME class \in Classes, NodeArgsError(Item) = "none"
      PROVE  /\ narg = NumArgs(Item.args) /\ Objects(Popped(narg), store, mode)
  <2>1. narg = NumArgs(Item.args)
    BY <1>2, <1>5, CheckNodeArgs
  <2> QED
    BY <1>2, <1>3, <2>1, PoppedObjects
<1>6. CASE /\ class \in Classes
           /\ NodeArgsError(Item) = "none"
           /\ mode = "type"
           /\ PopArgsAndPush(narg, Obj("node", class, <<>>, Null))
           /\ UNCHANGED <<store, blocks>>
  <2> DEFINE o == Obj("node", class, <<>>, Null)
  <2>1. o.name = Null /\ o.kind = "node" /\ IsObj(o, store, mode)
    <3>1. /\ o = [name |-> o.name, kind |-> o.kind, of |-> o.of, nodes |-> o.nodes,
                  str |-> o.str]
          /\ o.name = Null /\ o.kind = "node" /\ o.of = class /\ o.nodes = <<>>
      BY <1>6, MadeObj
    <3>2. <<>> \in Seq(1 .. Len(store))
      OBVIOUS
    <3> HIDE DEF o
    <3> QED
      BY <1>6, <3>1, <3>2 DEF IsObj
  <2> HIDE DEF o
  <2>2. Objects(Popped(narg), store', mode) /\ IsObj(o, store', mode) /\ AST(store')
        /\ blocks' \in 0 .. MaxBlocks /\ PopArgsAndPush(narg, o)
    BY <1>3, <1>5, <1>6, <2>1 DEF o
  <2> HIDE DEF narg
  <2> QED
    BY <1>1, <1>2, <1>5, <1>6, <2>1, <2>2, PoppedAndPushed
<1>7. CASE /\ class \in Classes
           /\ NodeArgsError(Item) = "none"
           /\ mode = "node"
           /\ blocks + Cardinality(StrParams(class)) <= MaxBlocks
           /\ Len(store) < MaxNodes
           /\ blocks' = blocks + Cardinality(StrParams(class))
           /\ store' = Append(store, NewNode(class))
           /\ PopArgsAndPush(narg, Obj("node", class, <<Len(store')>>, Null))
  <2> DEFINE o == Obj("node", class, <<Len(store')>>, Null)
  <2>1. NewNode(class).kind = class
    BY DEF NewNode
  <2>2. /\ AST(store') /\ Len(store) \in Nat /\ Len(store') = Len(store) + 1
        /\ store'[Len(store) + 1].kind = class
        /\ \A i \in 1 .. Len(store) : store'[i] = store[i]
    BY <1>3, <1>7, <2>1, NodeAdded
  <2>3. Objects(Popped(narg), store', mode)
    BY <1>5, <1>7, <2>2, ObjectsStay
  <2>4. o.name = Null /\ o.kind = "node" /\ IsObj(o, store', mode)
    <3> DEFINE here == <<Len(store')>>
    <3>1. /\ o = [name |-> o.name, kind |-> o.kind, of |-> o.of, nodes |-> o.nodes,
                  str |-> o.str]
          /\ o.name = Null /\ o.kind = "node" /\ o.of = class /\ o.nodes = here
      BY <1>7, MadeObj
    <3>2. Len(store') \in 1 .. Len(store')
      BY <2>2
    <3>3. here \in Seq(1 .. Len(store')) /\ Len(here) = 1 /\ here[1] = Len(store')
      BY <3>2
    <3> HIDE DEF o, here
    <3> QED
      BY <1>7, <2>2, <3>1, <3>3 DEF IsObj
  <2>5. blocks' \in 0 .. MaxBlocks /\ PopArgsAndPush(narg, o)
    <3>1. Cardinality(StrParams(class)) \in Nat /\ MaxBlocks \in Nat
      BY <1>7, ClassFacts, LibraryAssumption
    <3> QED
      BY <1>3, <1>7, <3>1
  <2> HIDE DEF o, narg
  <2> QED
    BY <1>1, <1>2, <1>5, <1>7, <2>2, <2>3, <2>4, <2>5, PoppedAndPushed
<1> QED
  BY <1>4, <1>6, <1>7 DEF DoMakeNode

-----------------------------------------------------------------------------
(* What IsA is of a class and of its base: the function that it looks a    *)
(* class up in exists, the least set of classes that lead to `base',       *)
(* whatever the table.                                                     *)
LEMMA IsAUnfolds ==
  ASSUME NEW parent, NEW base,
         \A c \in DOMAIN parent : parent[c] \in DOMAIN parent \cup {"none"}
  PROVE  \A c \in DOMAIN parent \cup {"none"} :
           IsA(parent, c, base) <=> c = base \/ (c # "none" /\ IsA(parent, parent[c], base))
<1> DEFINE D == DOMAIN parent \cup {"none"}
           Closed(X) == \A c \in D : c = base \/ (c # "none" /\ parent[c] \in X) => c \in X
           R == {c \in D : \A X \in SUBSET D : Closed(X) => c \in X}
           f == [c \in D |-> c \in R]
           Is(g) == g = [c \in D |-> c = base \/ (c # "none" /\ g[parent[c]])]
<1>1. Closed(R)
  OBVIOUS
<1>2. ASSUME NEW c \in R  PROVE c = base \/ (c # "none" /\ parent[c] \in R)
  <2> DEFINE X == {b \in R : b = base \/ (b # "none" /\ parent[b] \in R)}
  <2>1. Closed(X)
    <3>1. ASSUME NEW b \in D, b = base \/ (b # "none" /\ parent[b] \in X)
          PROVE  b \in X
      <4>1. b = base \/ (b # "none" /\ parent[b] \in R)
        BY <3>1
      <4>2. b \in R
        BY <1>1, <4>1
      <4> QED
        BY <4>1, <4>2
    <3> QED
      BY <3>1
  <2>2. X \in SUBSET D
    OBVIOUS
  <2> HIDE DEF X, Closed
  <2>3. c \in X
    BY <2>1, <2>2
  <2> QED
    BY <2>3 DEF X
<1>3. Is(f)
  <2>1. ASSUME NEW c \in D  PROVE (c \in R) <=> (c = base \/ (c # "none" /\ parent[c] \in R))
    BY <1>1, <1>2
  <2>2. \A c \in D : c # "none" => parent[c] \in D
    OBVIOUS
  <2> HIDE DEF R, Closed
  <2>3. ASSUME NEW c \in D
        PROVE  (c \in R) = (c = base \/ (c # "none" /\ f[parent[c]]))
    <3>1. CASE c # "none"
      <4>1. f[parent[c]] = (parent[c] \in R)
        BY <2>2, <3>1
      <4> HIDE DEF f
      <4>2. (c \in R) <=> (c = base \/ (c # "none" /\ f[parent[c]]))
        BY <2>1, <4>1
      <4> QED
        BY <4>2
    <3>2. CASE c = "none"
      <4> HIDE DEF f
      <4>1. (c \in R) <=> (c = base \/ (c # "none" /\ f[parent[c]]))
        BY <2>1, <3>2
      <4> QED
        BY <4>1
    <3> QED
      BY <3>1, <3>2
  <2> DEFINE h(c) == c = base \/ (c # "none" /\ f[parent[c]])
  <2>4. f = [c \in D |-> h(c)]
    <3>1. \A c \in D : (c \in R) = h(c)
      BY <2>3
    <3> HIDE DEF h
    <3> QED
      BY <3>1
  <2> HIDE DEF f
  <2> QED
    BY <2>4
<1> HIDE DEF f, R, Closed
<1> DEFINE isA == CHOOSE g : Is(g)
<1>4. Is(isA)
  BY <1>3
<1>5. \A c : IsA(parent, c, base) = isA[c]
  BY DEF IsA
<1> HIDE DEF isA
<1>6. ASSUME NEW c \in D
      PROVE  isA[c] = (c = base \/ (c # "none" /\ isA[parent[c]]))
  BY <1>4
<1>7. ASSUME NEW c \in D
      PROVE  isA[c] <=> c = base \/ (c # "none" /\ isA[parent[c]])
  BY <1>6
<1> QED
  BY <1>5, <1>7

LEMMA BaseIsTable ==
  /\ DOMAIN Base = Classes
  /\ \A c \in Classes : Base[c] = Types[c].base /\ Base[c] \in Classes \cup {"none"}
BY LibraryAssumption DEF Base, BaseOf, Classes

LEMMA IsAItself ==
  ASSUME NEW class \in Classes
  PROVE  IsA(Base, class, class)
BY BaseIsTable, IsAUnfolds

LEMMA NodeCast ==
  ASSUME NEW base \in Classes, NEW obj, obj.kind \in {"node", "list", "cptr"},
         TypeCast(NodeParam(base), obj)
  PROVE  obj.kind = "node" /\ IsA(Base, obj.of, base)
<1>1. NodeParam(base).is = "node" /\ NodeParam(base).of = base
  BY DEF NodeParam
<1>2. obj.kind = "node" /\ ClassCast(obj.of, base)
  BY <1>1 DEF TypeCast
<1>3. CASE strict
  BY <1>2, <1>3, IsAItself DEF ClassCast
<1>4. CASE ~strict
  BY <1>2, <1>4 DEF ClassCast
<1> QED
  BY <1>2, <1>3, <1>4

(* What is there when a list is to be made.                                *)
LEMMA ListItem ==
  ASSUME IInv, Running("list")
  PROVE  /\ outcome = "running" /\ Len(Item.elems) \in Nat
         /\ Len(Item.elems) <= Len(stack) /\ Len(stack) \in Nat
         /\ \E q \in States : /\ q.n = Len(stack) - Len(Item.elems) + 1 /\ q.last = "fresh"
                              /\ Takes(Tail(todo), q, At(1, "node"))
<1> DEFINE w == Head(todo)
<1>1. outcome = "running" /\ todo # <<>> /\ w.do = "list" /\ Item = w.at
  BY DEF Running, Item
<1>2. PICK p \in States, q \in States :
        /\ p.n = Len(stack) /\ p.n \in Nat /\ Shows(p.last, stack)
        /\ Leads(w, p, q) /\ Takes(Tail(todo), q, At(1, "node"))
  BY <1>1, NextItem
<1> HIDE DEF w
<1>3. Len(Item.elems) \in Nat
  BY <1>1, <1>2, SequenceFacts DEF Leads, IsWork, IsNodeList
<1>4. Uses(w) = Len(Item.elems) /\ Effect(w) = 1 - Len(Item.elems)
  BY <1>1 DEF Uses, Effect
<1>5. p.n >= Uses(w) /\ q.n = p.n + Effect(w) /\ q.last = "fresh"
  BY <1>1, <1>2 DEF Leads, After
<1>6. /\ Len(Item.elems) <= Len(stack) /\ q.n = Len(stack) - Len(Item.elems) + 1
  BY <1>2, <1>3, <1>4, <1>5
<1> QED
  BY <1>1, <1>2, <1>3, <1>5, <1>6

LEMMA MakeListFailsRightly ==
  ASSUME IInv, outcome = "running", Len(Item.elems) \in Nat, Len(Item.elems) <= Len(stack),
         NEW error, MakeListFails(error)
  PROVE  /\ error \in InputErrors /\ Objects(stack', store, mode) /\ narg_error' \in BOOLEAN
<1>1. Objects(stack, store, mode) /\ narg_error = FALSE /\ Len(stack) \in Nat
  BY SequenceFacts DEF IInv, Typed, Objects
<1>2. CASE error = "unknown type" /\ UNCHANGED <<stack, narg_error>>
  BY <1>1, <1>2 DEF InputErrors
<1>3. CASE error = ListArgsError(Item) /\ error # "none" /\ UNCHANGED <<stack, narg_error>>
  BY <1>1, <1>3, CheckListArgs DEF InputErrors
<1>4. CASE error = "alloc" /\ PopArgs(Len(Item.elems))
  <2>1. Objects(stack', store, mode) /\ narg_error' = FALSE
    BY <1>1, <1>4, PoppedObjects DEF PopArgs
  <2> QED
    BY <1>4, <2>1 DEF InputErrors
<1> QED
  BY <1>2, <1>3, <1>4 DEF MakeListFails

(* The nodes of a list are those of its elements, each of the class that   *)
(* the list is of.                                                         *)
LEMMA ListOfNodes ==
  ASSUME IInv, mode = "node", NEW base \in Classes, NEW n \in Nat, n <= Len(stack),
         \A i \in 1 .. n : TypeCast(NodeParam(base), NthArg(n, i))
  PROVE  \A i \in 1 .. n : /\ Head(NthArg(n, i).nodes) \in 1 .. Len(store)
                           /\ IsA(Base, store[Head(NthArg(n, i).nodes)].kind, base)
<1>1. Objects(stack, store, mode) /\ Len(stack) \in Nat
  BY SequenceFacts DEF IInv, Typed, Objects
<1> SUFFICES ASSUME NEW i \in 1 .. n
             PROVE  /\ Head(NthArg(n, i).nodes) \in 1 .. Len(store)
                    /\ IsA(Base, store[Head(NthArg(n, i).nodes)].kind, base)
  OBVIOUS
<1> DEFINE o == NthArg(n, i)
<1>2. IsObj(o, store, mode)
  <2>1. n - i + 1 \in 1 .. Len(stack)
    BY <1>1
  <2> QED
    BY <1>1, <2>1 DEF NthArg, Arg, Objects
<1>3. TypeCast(NodeParam(base), o)
  OBVIOUS
<1> HIDE DEF o
<1>4. o.kind = "node" /\ IsA(Base, o.of, base)
  BY <1>2, <1>3, NodeCast DEF IsObj
<1>5. /\ o.nodes \in Seq(1 .. Len(store)) /\ Len(o.nodes) = 1 /\ o.of = store[o.nodes[1]].kind
  BY <1>2, <1>4 DEF IsObj
<1>6. Head(o.nodes) = o.nodes[1] /\ o.nodes[1] \in 1 .. Len(store)
  BY <1>5, LenProperties
<1> QED
  BY <1>4, <1>5, <1>6 DEF o

LEMMA DoMakeListPreserves ==
  ASSUME IInv, DoMakeList
  PROVE  IInv'
<1> DEFINE n == Len(Item.elems)
           needed == IF mode = "node" /\ n > 0 THEN 1 ELSE 0
           places == [i \in 1 .. n |-> IF mode = "node" THEN Head(NthArg(n, i).nodes) ELSE 0]
           o == Obj("list", Item.base, places, Null)
<1>1. Running("list") /\ UNCHANGED <<input, store>>
  BY DEF DoMakeList
<1>2. /\ outcome = "running" /\ n \in Nat /\ n <= Len(stack) /\ Len(stack) \in Nat
      /\ \E q \in States : /\ q.n = Len(stack) - n + 1 /\ q.last = "fresh"
                           /\ Takes(Tail(todo), q, At(1, "node"))
  BY <1>1, ListItem
<1>3. /\ Objects(stack, store, mode) /\ AST(store) /\ narg_error = FALSE
      /\ blocks \in 0 .. MaxBlocks /\ mode \in {"type", "node"}
  BY <1>2 DEF IInv, Typed
<1>4. CASE /\ \E error \in InputErrors \cup StackErrors : MakeListFails(error) /\ Fail(error)
           /\ UNCHANGED blocks
  <2>1. PICK error : MakeListFails(error) /\ outcome' = error /\ UNCHANGED todo
    BY <1>4 DEF Fail
  <2>2. /\ error \in InputErrors /\ Objects(stack', store, mode) /\ narg_error' \in BOOLEAN
    BY <1>2, <2>1, MakeListFailsRightly
  <2> QED
    BY <1>1, <1>3, <1>4, <2>1, <2>2, AnError
<1>5. CASE /\ Item.base \in Classes
           /\ ListArgsError(Item) = "none"
           /\ blocks + needed <= MaxBlocks
           /\ blocks' = blocks + needed
           /\ PopArgsAndPush(n, o)
  <2>1. \A i \in 1 .. n : TypeCast(NodeParam(Item.base), NthArg(n, i))
    BY <1>2, <1>5, CheckListArgs
  <2>2. /\ o = [name |-> o.name, kind |-> o.kind, of |-> o.of, nodes |-> o.nodes, str |-> o.str]
        /\ o.name = Null /\ o.kind = "list" /\ o.of = Item.base
        /\ o.nodes = IF mode = "node" THEN places ELSE <<>>
    BY MadeObj
  <2> HIDE DEF o
  <2>3. IsObj(o, store, mode)
    <3>1. CASE mode = "node"
      <4>1. \A i \in 1 .. n : /\ places[i] \in 1 .. Len(store)
                              /\ IsA(Base, store[places[i]].kind, Item.base)
        BY <1>2, <1>5, <2>1, <3>1, ListOfNodes
      <4>2. DOMAIN places = 1 .. n /\ places \in [1 .. n -> 1 .. Len(store)]
        BY <4>1
      <4> HIDE DEF places, n
      <4>3. places \in Seq(1 .. Len(store))
        BY <1>2, <4>2, SeqDef
      <4>4. \A k \in ToSet(places) : IsA(Base, store[k].kind, Item.base)
        BY <4>1, <4>2 DEF ToSet
      <4> QED
        BY <1>5, <2>2, <3>1, <4>3, <4>4 DEF IsObj
    <3>2. CASE mode # "node"
      <4>1. <<>> \in Seq(1 .. Len(store))
        OBVIOUS
      <4> QED
        BY <1>5, <2>2, <3>2, <4>1 DEF IsObj
    <3> QED
      BY <3>1, <3>2
  <2> HIDE DEF n
  <2>4. Objects(Popped(n), store', mode) /\ IsObj(o, store', mode) /\ AST(store')
    BY <1>1, <1>2, <1>3, <2>3, PoppedObjects
  <2>5. blocks' \in 0 .. MaxBlocks
    BY <1>3, <1>5, LibraryAssumption
  <2> HIDE DEF needed
  <2> QED
    BY <1>1, <1>2, <1>5, <2>2, <2>4, <2>5, PoppedAndPushed
<1> QED
  BY <1>4, <1>5 DEF DoMakeList

-----------------------------------------------------------------------------
LEMMA InitIsRight ==
  ASSUME Init
  PROVE  IInv
<1> DEFINE x == [is |-> "Tree", root |-> tree]
<1>1. /\ tree \in Trees /\ mode \in {"type", "node"} /\ strict \in BOOLEAN
      /\ todo = <<Visit(x)>> /\ stack = <<>> /\ store = <<>> /\ blocks = 0
      /\ narg_error = FALSE /\ outcome = "running" /\ MaxNodes \in Nat /\ MaxBlocks \in Nat
  BY LibraryAssumption DEF Init
<1>2. IsPart(x) /\ x.is = "Tree"
  BY <1>1 DEF IsPart
<1> HIDE DEF x
<1> DEFINE p == At(0, "other")
<1>3. p \in States /\ p.n = 0 /\ p.last = "other"
  BY AtFields
<1>4. At(1, "node") \in States /\ At(1, "node").n = 1 /\ At(1, "node").last = "node"
  BY AtFields
<1> HIDE DEF p
<1>5. Leads(Visit(x), p, At(1, "node"))
  BY <1>2, <1>3, <1>4, VisitWork DEF Leads
<1>6. Takes(todo, p, At(1, "node"))
  BY <1>1, <1>5, OneToDo
<1>7. IsSequence(todo) /\ \A i \in 1 .. Len(todo) : IsWork(todo[i])
  BY <1>6, TakesAreWork
<1>8. IsSequence(stack) /\ Len(stack) = 0 /\ IsSequence(store) /\ Len(store) = 0
      /\ 1 .. Len(stack) = {} /\ 1 .. Len(store) = {}
  BY <1>1, NothingIsSequence
<1>9. Objects(stack, store, mode) /\ AST(store)
  BY <1>1, <1>8 DEF Objects, AST
<1>10. Typed
  <2>1. blocks \in 0 .. MaxBlocks
    <3>1. blocks = 0 /\ MaxBlocks \in Nat
      BY <1>1
    <3> QED
      BY <3>1
  <2>2. /\ narg_error \in BOOLEAN /\ outcome \in {"running", "done"} \cup InputErrors
        /\ outcome = "running" => narg_error = FALSE
    BY <1>1
  <2>3. tree \in Trees /\ mode \in {"type", "node"} /\ strict \in BOOLEAN
    BY <1>1
  <2> QED
    BY <1>7, <1>9, <2>1, <2>2, <2>3 DEF Typed
<1>11. Fits
  BY <1>3, <1>6, <1>8 DEF Fits, Shows
<1> QED
  BY <1>10, <1>11 DEF IInv

LEMMA NextPreserves ==
  ASSUME IInv, [Next]_vars
  PROVE  IInv'
<1>1. CASE UNCHANGED vars
  <2>1. Typed'
    BY <1>1 DEF IInv, Typed, vars, input
  <2>2. Fits'
    BY <1>1 DEF IInv, Fits, vars
  <2> QED
    BY <2>1, <2>2 DEF IInv
<1> QED
  BY <1>1, ExpandPreserves, VisitElemPreserves, VisitLiteralPreserves, VisitArgNamePreserves,
     DoMakeNodePreserves, DoMakeListPreserves, FinishPreserves DEF Next

(* At every step of the evaluation what is still to do can be done, in its *)
(* order, on the stack that there is, and will leave one node there.       *)
THEOREM Invariance == Spec => []IInv
<1>1. Init => IInv
  BY InitIsRight
<1>2. IInv /\ [Next]_vars => IInv'
  BY NextPreserves
<1> QED
  BY <1>1, <1>2, PTL DEF Spec

-----------------------------------------------------------------------------
(* The sizes that SizeAfter counts are those of the states that the items  *)
(* lead through.                                                           *)
LEMMA SizesAreThose ==
  ASSUME IsSequence(todo), NEW d \in [1 .. Len(todo) + 1 -> States], d[1].n = Len(stack),
         \A i \in 1 .. Len(todo) : Leads(todo[i], d[i], d[i + 1])
  PROVE  \A k \in 0 .. Len(todo) : SizeAfter[k] = d[k + 1].n
<1> DEFINE m == Len(todo)
           Is(g) == g = [k \in 0 .. m |-> IF k = 0 THEN Len(stack)
                                          ELSE g[k - 1] + Effect(todo[k])]
           f == [k \in 0 .. m |-> d[k + 1].n]
           size == CHOOSE g : Is(g)
<1>1. m \in Nat
  BY SequenceFacts
<1>2. \A k \in 0 .. m : f[k] = IF k = 0 THEN Len(stack) ELSE f[k - 1] + Effect(todo[k])
  <2>1. ASSUME NEW k \in 0 .. m, k # 0
        PROVE  f[k] = f[k - 1] + Effect(todo[k])
    <3>1. k \in 1 .. m /\ k - 1 \in 0 .. m /\ k - 1 + 1 = k
      BY <1>1, <2>1
    <3>2. f[k] = d[k + 1].n /\ f[k - 1] = d[k].n
      BY <3>1
    <3>3. d[k + 1].n = d[k].n + Effect(todo[k])
      BY <3>1 DEF Leads
    <3> QED
      BY <3>2, <3>3
  <2>2. f[0] = Len(stack)
    BY <1>1
  <2> HIDE DEF f
  <2> QED
    BY <2>1, <2>2
<1>3. Is(f)
  <2>1. f = [k \in 0 .. m |-> f[k]]
    OBVIOUS
  <2> HIDE DEF f
  <2> QED
    BY <1>2, <2>1
<1> HIDE DEF f
<1>4. Is(size)
  BY <1>3
<1>5. SizeAfter = size
  BY DEF SizeAfter
<1> HIDE DEF size
<1>6. \A k \in 0 .. m : size[k] = f[k]
  <2> DEFINE S == {k \in 0 .. m : size[k] # f[k]}
  <2> SUFFICES ASSUME S # {}  PROVE FALSE
    OBVIOUS
  <2>1. S \in SUBSET Nat
    BY <1>1
  <2>2. PICK x \in S : \A y \in S : x <= y
    <3> HIDE DEF S
    <3> QED
      BY <2>1, LeastMember
  <2>3. x \in 0 .. m /\ size[x] # f[x]
    OBVIOUS
  <2>4. size[x] = IF x = 0 THEN Len(stack) ELSE size[x - 1] + Effect(todo[x])
    BY <1>4, <2>3
  <2>5. f[x] = IF x = 0 THEN Len(stack) ELSE f[x - 1] + Effect(todo[x])
    BY <1>2, <2>3
  <2>6. x # 0 => x - 1 \in 0 .. m /\ ~(x <= x - 1)
    BY <1>1, <2>3
  <2>7. x # 0 => size[x - 1] = f[x - 1]
    BY <2>2, <2>6
  <2> QED
    BY <2>3, <2>4, <2>5, <2>7
<1> QED
  BY <1>5, <1>6 DEF f

LEMMA BalanceIsRight ==
  ASSUME IInv
  PROVE  StackBalanced
<1> SUFFICES ASSUME outcome \in {"running", "done"}
             PROVE  /\ \A k \in DOMAIN todo : SizeAfter[k - 1] >= Uses(todo[k])
                    /\ SizeAfter[Len(todo)] = 1
  BY DEF StackBalanced
<1>1. PICK p \in States : p.n = Len(stack) /\ Takes(todo, p, At(1, "node"))
  BY DEF IInv, Fits
<1>2. PICK d \in [1 .. Len(todo) + 1 -> States] :
        /\ d[1] = p /\ d[Len(todo) + 1] = At(1, "node")
        /\ \A i \in 1 .. Len(todo) : Leads(todo[i], d[i], d[i + 1])
  BY <1>1 DEF Takes
<1>3. IsSequence(todo) /\ Len(todo) \in Nat /\ DOMAIN todo = 1 .. Len(todo)
  BY SequenceFacts DEF IInv, Typed
<1>4. \A k \in 0 .. Len(todo) : SizeAfter[k] = d[k + 1].n
  BY <1>1, <1>2, <1>3, SizesAreThose
<1>5. SizeAfter[Len(todo)] = 1
  BY <1>2, <1>3, <1>4, AtFields
<1>6. ASSUME NEW k \in DOMAIN todo  PROVE SizeAfter[k - 1] >= Uses(todo[k])
  <2>1. k \in 1 .. Len(todo) /\ k - 1 \in 0 .. Len(todo) /\ k - 1 + 1 = k
    BY <1>3
  <2>2. SizeAfter[k - 1] = d[k].n
    BY <1>4, <2>1
  <2> QED
    BY <1>2, <2>1, <2>2 DEF Leads
<1> QED
  BY <1>5, <1>6

LEMMA TypesAreRight ==
  ASSUME IInv
  PROVE  TypeOK /\ ValuesMatchTypes
<1>1. /\ IsSequence(todo) /\ DOMAIN todo = 1 .. Len(todo)
      /\ IsSequence(stack) /\ DOMAIN stack = 1 .. Len(stack)
      /\ IsSequence(store) /\ DOMAIN store = 1 .. Len(store)
      /\ Len(store) \in 0 .. MaxNodes
  BY SequenceFacts DEF IInv, Typed, Objects, AST
<1>2. \A i \in DOMAIN stack : IsObj(stack[i], store, mode)
  BY <1>1 DEF IInv, Typed, Objects
<1>3. ASSUME NEW i \in DOMAIN stack
      PROVE  ToSet(stack[i].nodes) \subseteq 1 .. Len(store)
  <2> DEFINE s == stack[i].nodes
  <2>1. s \in Seq(1 .. Len(store))
    BY <1>2 DEF IsObj
  <2> HIDE DEF s
  <2>2. DOMAIN s = 1 .. Len(s) /\ s \in [1 .. Len(s) -> 1 .. Len(store)]
    BY <2>1, LenProperties
  <2>3. ToSet(s) \subseteq 1 .. Len(store)
    BY <2>2 DEF ToSet
  <2> QED
    BY <2>3 DEF s
<1>4. \A i \in DOMAIN todo : todo[i].do \in {"visit", "name", "elem", "node", "list"}
  BY <1>1 DEF IInv, Typed, IsWork
<1>5. \A i \in DOMAIN stack :
        /\ stack[i].kind \in {"node", "list", "cptr"}
        /\ stack[i].of \in Classes \cup {"char*"}
  BY <1>2 DEF IsObj
<1>6. \A i \in DOMAIN stack : ToSet(stack[i].nodes) \subseteq 0 .. MaxNodes
  <2>1. 1 .. Len(store) \subseteq 0 .. MaxNodes
    BY <1>1, LibraryAssumption
  <2> QED
    BY <1>3, <2>1
<1>7. \A i \in DOMAIN store : store[i].kind \in Classes
  BY <1>1 DEF IInv, Typed, AST
<1>8. /\ blocks \in 0 .. MaxBlocks /\ narg_error \in BOOLEAN
      /\ outcome \in {"running", "done"} \cup InputErrors \cup StackErrors
  BY DEF IInv, Typed
<1>9. TypeOK
  BY <1>1, <1>4, <1>5, <1>6, <1>7, <1>8 DEF TypeOK
<1>10. ValuesMatchTypes
  BY <1>2 DEF ValuesMatchTypes, IsObj
<1> QED
  BY <1>9, <1>10

(* Whatever the library and the tree, the stack is sound at every step of  *)
(* the evaluation: typed, with the arguments of every call to come, values *)
(* that are what their types say, and never an error of its own.           *)
THEOREM EvaluatorIsSound == Spec => []StackIsSound
<1>1. IInv => StackIsSound
  <2> SUFFICES ASSUME IInv  PROVE StackIsSound
    OBVIOUS
  <2>1. NoStackError
    BY DEF IInv, Typed, NoStackError, InputErrors, StackErrors
  <2> QED
    BY <2>1, TypesAreRight, BalanceIsRight DEF StackIsSound
<1> QED
  BY <1>1, Invariance, PTL

-----------------------------------------------------------------------------
(* The typed AST as a store of nodes.                                      *)
AsStore(nodes) == [n \in DOMAIN nodes |-> [kind |-> nodes[n].kind, kids |-> Kids(nodes[n])]]

(* The children of a new node are nodes that were made before it.          *)
LEMMA KidsAreOlder ==
  ASSUME IInv, NEW class \in Classes, NArg(class) <= Len(stack)
  PROVE  Kids(NewNode(class)) \subseteq 1 .. Len(store)
<1>1. /\ \A i \in 1 .. Len(stack) : IsObj(stack[i], store, mode)
      /\ Len(stack) \in Nat
  BY SequenceFacts DEF IInv, Typed, Objects
<1>2. NArg(class) \in Nat /\ DOMAIN Makers[class] \subseteq 1 .. NArg(class)
  BY ClassFacts
<1> DEFINE args == [i \in DOMAIN Makers[class] |-> FieldOf(NthArg(NArg(class), i))]
<1>3. NewNode(class).args = args
  BY DEF NewNode
<1>4. ASSUME NEW i \in DOMAIN args
      PROVE  ToSet(args[i].nodes) \subseteq 1 .. Len(store)
  <2>1. args[i].nodes = NthArg(NArg(class), i).nodes
    BY DEF FieldOf
  <2>2. NArg(class) - i + 1 \in 1 .. Len(stack)
    BY <1>1, <1>2
  <2>3. IsObj(NthArg(NArg(class), i), store, mode)
    BY <1>1, <2>2 DEF NthArg, Arg
  <2> DEFINE s == NthArg(NArg(class), i).nodes
  <2>4. s \in Seq(1 .. Len(store))
    BY <2>3 DEF IsObj
  <2> HIDE DEF s
  <2>5. DOMAIN s = 1 .. Len(s) /\ s \in [1 .. Len(s) -> 1 .. Len(store)]
    BY <2>4, LenProperties
  <2>6. ToSet(s) \subseteq 1 .. Len(store)
    BY <2>5 DEF ToSet
  <2> QED
    BY <2>1, <2>6 DEF s
<1> HIDE DEF args
<1> QED
  BY <1>3, <1>4 DEF Kids

(* A new node is made of arguments that the evaluator has checked.         *)
Checked(class) ==
  /\ NArg(class) <= Len(stack)
  /\ mode = "node"
  /\ \A i \in 1 .. NArg(class) : TypeCast(Types[class].fields[i], NthArg(NArg(class), i))

LEMMA StoreChanges ==
  ASSUME IInv, [Next]_vars
  PROVE  \/ store' = store
         \/ \E class \in Classes : /\ Checked(class)
                                   /\ store' = Append(store, NewNode(class))
                                   /\ Len(store) < MaxNodes
<1>1. CASE DoMakeNode
  <2>1. CASE UNCHANGED store
    BY <2>1
  <2>2. CASE /\ Item.name \in Classes /\ NodeArgsError(Item) = "none" /\ mode = "node"
             /\ Len(store) < MaxNodes /\ store' = Append(store, NewNode(Item.name))
    <3>1. Running("node")
      BY <1>1 DEF DoMakeNode
    <3>2. /\ Item \in Trees /\ NumArgs(Item.args) <= Len(stack) /\ Len(stack) \in Nat
      BY <3>1, NodeItem
    <3>3. Checked(Item.name)
      BY <2>2, <3>2, CheckNodeArgs DEF Checked
    <3> QED
      BY <2>2, <3>3
  <2> QED
    BY <1>1, <2>1, <2>2 DEF DoMakeNode
<1>2. CASE Expand \/ VisitElem \/ VisitLiteral \/ VisitArgName \/ DoMakeList \/ Finish \/ UNCHANGED vars
  BY <1>2 DEF Expand, VisitElem, VisitLiteral, VisitArgName, DoMakeList, Finish, vars
<1> QED
  BY <1>1, <1>2 DEF Next

LEMMA StoreStep ==
  ASSUME IInv, [Next]_vars
  PROVE  [Store!Next]_(Store!vars)
<1> DEFINE v == AsStore(store)
           v2 == AsStore(store')
<1>1. CASE store' = store
  BY <1>1 DEF Store!vars
<1>2. CASE \E class \in Classes : /\ Checked(class) /\ store' = Append(store, NewNode(class))
                                  /\ Len(store) < MaxNodes
  <2>1. PICK class \in Classes : /\ Checked(class) /\ store' = Append(store, NewNode(class))
                                 /\ Len(store) < MaxNodes
    BY <1>2
  <2> DEFINE x == NewNode(class)
             n == Len(store)
             y == [kind |-> x.kind, kids |-> Kids(x)]
  <2>2. x.kind = class /\ Kids(x) \subseteq 1 .. n
    BY <2>1, KidsAreOlder DEF NewNode, Checked
  <2>3. AST(store)
    BY DEF IInv, Typed
  <2> HIDE DEF x
  <2>4. /\ AST(store') /\ n \in Nat /\ Len(store') = n + 1 /\ store'[n + 1] = x
        /\ \A i \in 1 .. n : store'[i] = store[i]
    BY <2>1, <2>2, <2>3, NodeAdded DEF x
  <2>5. DOMAIN store = 1 .. n /\ DOMAIN store' = 1 .. n + 1
    BY <2>3, <2>4, SequenceFacts DEF AST
  <2> HIDE DEF n
  <2>6. /\ v = [i \in 1 .. n |-> [kind |-> store[i].kind, kids |-> Kids(store[i])]]
        /\ v2 = [i \in 1 .. n + 1 |-> [kind |-> store'[i].kind, kids |-> Kids(store'[i])]]
    BY <2>5 DEF AsStore
  <2>7. v2[n + 1] = y /\ y \in [kind : Classes, kids : SUBSET (1 .. n)]
        /\ \A i \in 1 .. n : v2[i] = v[i]
    <3>1. n + 1 \in 1 .. n + 1 /\ \A i \in 1 .. n : i \in 1 .. n + 1
      BY <2>4
    <3> QED
      BY <2>2, <2>4, <2>6, <3>1
  <2> HIDE DEF v, v2, y
  <2>8. PICK S : S = {v[i] : i \in 1 .. n} \cup {y}
    OBVIOUS
  <2>9. v \in Seq(S) /\ v2 \in Seq(S) /\ Len(v) = n /\ Len(v2) = n + 1
    <3>1. DOMAIN v = 1 .. n /\ v \in [1 .. n -> S] /\ DOMAIN v2 = 1 .. n + 1
      BY <2>6, <2>8
    <3>2. \A i \in 1 .. n + 1 : v2[i] \in S
      BY <2>4, <2>7, <2>8
    <3>3. v2 \in [1 .. n + 1 -> S]
      BY <2>6, <3>1, <3>2
    <3> QED
      BY <2>4, <3>1, <3>3, SeqDef
  <2>10. v2 = Append(v, y)
    <3>1. y \in S
      BY <2>8
    <3>2. /\ Append(v, y) \in Seq(S) /\ Len(Append(v, y)) = n + 1
          /\ \A i \in 1 .. n : Append(v, y)[i] = v[i]
          /\ Append(v, y)[n + 1] = y
      BY <2>9, <3>1, AppendProperties
    <3>3. \A i \in 1 .. n + 1 : v2[i] = Append(v, y)[i]
      BY <2>4, <2>7, <3>2
    <3> QED
      BY <2>9, <3>2, <3>3, SeqEqual
  <2>11. Store!Add
    BY <2>7, <2>9, <2>10 DEF Store!Add, v, v2, AsStore
  <2> QED
    BY <2>11 DEF Store!Next
<1> QED
  BY <1>1, <1>2, StoreChanges

(* The evaluator, with every library and on every tree, uses the typed AST *)
(* as the store of nodes it is: it adds nodes, whose children were there   *)
(* before, and changes none.                                               *)
THEOREM EvaluatorUsesStore == Spec => UsesStore
<1>1. Init => Store!Init
  <2> SUFFICES ASSUME Init  PROVE Store!Init
    OBVIOUS
  <2>1. store = <<>>
    BY DEF Init
  <2>2. DOMAIN store = {}
    BY <2>1
  <2>3. [n \in DOMAIN store |-> [kind |-> store[n].kind, kids |-> Kids(store[n])]] = <<>>
    BY <2>2
  <2> QED
    BY <2>3 DEF Store!Init
<1>2. IInv /\ [Next]_vars => [Store!Next]_(Store!vars)
  BY StoreStep
<1> QED
  BY <1>1, <1>2, Invariance, PTL DEF Spec, UsesStore, Store!Spec


-----------------------------------------------------------------------------
(* The casts of the makers.                                                *)
(* A class that derives from one that derives from a third derives from it:*)
(* else there is a class of the least depth that does not.                 *)
LEMMA IsATransitive ==
  ASSUME NEW a \in Classes, NEW b \in Classes, NEW c, IsA(Base, a, b), IsA(Base, b, c)
  PROVE  IsA(Base, a, c)
<1> DEFINE S == {d \in Nat : \E x \in Classes : Depth[x] = d /\ IsA(Base, x, b) /\ ~IsA(Base, x, c)}
<1> SUFFICES ASSUME ~IsA(Base, a, c)  PROVE FALSE
  OBVIOUS
<1>1. \A x \in Classes : /\ Base[x] \in Classes \cup {"none"}
                         /\ Depth[x] \in Nat
                         /\ Base[x] # "none" => Depth[Base[x]] < Depth[x]
  BY BaseIsTable, HierarchyAssumption
<1>2. \A x \in Classes \cup {"none"}, to \in {b, c} :
        IsA(Base, x, to) <=> x = to \/ (x # "none" /\ IsA(Base, Base[x], to))
  BY BaseIsTable, IsAUnfolds
<1>3. S # {}
  BY <1>1
<1>4. PICK d \in S : \A e \in S : d <= e
  <2>1. S \in SUBSET Nat
    OBVIOUS
  <2> HIDE DEF S
  <2> QED
    BY <1>3, <2>1, LeastMember
<1>5. PICK x \in Classes : Depth[x] = d /\ IsA(Base, x, b) /\ ~IsA(Base, x, c)
  OBVIOUS
<1>6. x # b /\ x # "none" /\ IsA(Base, Base[x], b) /\ ~IsA(Base, Base[x], c)
  BY <1>2, <1>5
<1>7. CASE Base[x] = "none"
  <2>1. Base[x] = b
    BY <1>2, <1>6, <1>7
  <2> QED
    BY <1>6, <2>1
<1>8. CASE Base[x] # "none"
  <2>1. Base[x] \in Classes /\ Depth[Base[x]] < d /\ Depth[Base[x]] \in Nat
    BY <1>1, <1>5, <1>8
  <2>2. Depth[Base[x]] \in S
    BY <1>6, <2>1
  <2> HIDE DEF S
  <2> QED
    BY <1>4, <2>1, <2>2, <1>5, <1>1
<1> QED
  BY <1>7, <1>8

(* An argument that the evaluator takes for a parameter that is a node or a*)
(* list: each of its nodes has the parameter's class; any other has none.  *)
LEMMA NodesTaken ==
  ASSUME NEW o, IsObj(o, store, "node"), AST(store),
         NEW param, param.is \in {"node", "list", "str", "val"}, TypeCast(param, o),
         NEW kid \in ToSet(o.nodes)
  PROVE  /\ param.is \in {"node", "list"} /\ kid \in 1 .. Len(store)
         /\ store[kid].kind \in Classes /\ IsA(Base, store[kid].kind, param.of)
<1>1. /\ Len(o.nodes) \in Nat /\ DOMAIN o.nodes = 1 .. Len(o.nodes)
      /\ o.nodes \in [1 .. Len(o.nodes) -> 1 .. Len(store)]
  BY LenProperties DEF IsObj
<1>2. PICK k \in 1 .. Len(o.nodes) : kid = o.nodes[k]
  BY <1>1 DEF ToSet
<1>3. kid \in 1 .. Len(store) /\ store[kid].kind \in Classes
  BY <1>1, <1>2 DEF AST
<1>4. o.kind # "cptr"
  <2>1. o.nodes = <<>> => Len(o.nodes) = 0
    OBVIOUS
  <2>2. o.nodes # <<>>
    BY <1>1, <1>2, <2>1
  <2> QED
    BY <2>2 DEF IsObj
<1>5. param.is \in {"node", "list"} /\ o.kind = param.is /\ ClassCast(o.of, param.of)
  BY <1>4 DEF TypeCast
<1>6. o.of \in Classes
  BY <1>4 DEF IsObj
<1>7. IsA(Base, store[kid].kind, o.of)
  <2>1. CASE o.kind = "list"
    BY <2>1 DEF IsObj
  <2>2. CASE o.kind = "node"
    <3>1. Len(o.nodes) = 1 /\ o.of = store[o.nodes[1]].kind
      BY <2>2 DEF IsObj
    <3>2. k = 1
      BY <1>2, <3>1
    <3> QED
      BY <1>2, <1>6, <3>1, <3>2, IsAItself
  <2> QED
    BY <1>5, <2>1, <2>2
<1>8. strict => o.of = param.of
  BY <1>5 DEF ClassCast
<1>9. ~strict => IsA(Base, o.of, param.of)
  BY <1>5 DEF ClassCast
<1>10. IsA(Base, store[kid].kind, param.of)
  BY <1>3, <1>6, <1>7, <1>8, <1>9, IsATransitive
<1> QED
  BY <1>3, <1>5, <1>10

(* The nodes that the arguments of a new node point to have the classes    *)
(* that they are cast to.                                                  *)
NodeCastsAreSafe(node, nodes) ==
  \A i \in DOMAIN node.args :
    LET cast == Makers[node.kind][i]
    IN  \A kid \in ToSet(node.args[i].nodes) :
          /\ kid \in 1 .. Len(nodes)
          /\ cast.is \in {"node", "list"}
          /\ cast.of \in Bases[nodes[kid].kind]

LEMMA NewNodeCasts ==
  ASSUME IInv, NEW class \in Classes, Checked(class)
  PROVE  NodeCastsAreSafe(NewNode(class), store)
<1>1. /\ \A i \in 1 .. Len(stack) : IsObj(stack[i], store, "node")
      /\ Len(stack) \in Nat /\ AST(store)
  BY SequenceFacts DEF IInv, Typed, Objects, Checked
<1>2. /\ NArg(class) \in Nat /\ DOMAIN Makers[class] \subseteq 1 .. NArg(class)
      /\ \A i \in 1 .. NArg(class) : Types[class].fields[i].is \in {"node", "list", "str", "val"}
  BY ClassFacts
<1> DEFINE args == [i \in DOMAIN Makers[class] |-> FieldOf(NthArg(NArg(class), i))]
<1>3. NewNode(class).args = args /\ NewNode(class).kind = class
  BY DEF NewNode
<1>4. ASSUME NEW i \in DOMAIN args, NEW kid \in ToSet(args[i].nodes)
      PROVE  /\ kid \in 1 .. Len(store)
             /\ Makers[class][i].is \in {"node", "list"}
             /\ Makers[class][i].of \in Bases[store[kid].kind]
  <2> DEFINE o == NthArg(NArg(class), i)
             field == Types[class].fields[i]
  <2>1. i \in DOMAIN Makers[class] /\ i \in 1 .. NArg(class)
    BY <1>2
  <2>2. args[i].nodes = o.nodes
    BY DEF FieldOf
  <2>3. NArg(class) - i + 1 \in 1 .. Len(stack)
    BY <1>1, <1>2, <2>1 DEF Checked
  <2>4. IsObj(o, store, "node")
    BY <1>1, <2>3 DEF NthArg, Arg
  <2>5. TypeCast(field, o) /\ field.is \in {"node", "list", "str", "val"}
    BY <1>2, <2>1 DEF Checked
  <2>6. kid \in ToSet(o.nodes)
    BY <2>2
  <2> HIDE DEF o, field
  <2>7. /\ field.is \in {"node", "list"} /\ kid \in 1 .. Len(store)
        /\ store[kid].kind \in Classes /\ IsA(Base, store[kid].kind, field.of)
    BY <1>1, <2>4, <2>5, <2>6, NodesTaken
  <2>8. /\ i \in DOMAIN Types[class].fields /\ Makers[class][i].is = field.is
        /\ \A c \in Classes : field.of \in Bases[c] => Makers[class][i].of \in Bases[c]
    BY <2>1, <2>7, MakersAgree DEF field
  <2>9. field.of \in Bases[store[kid].kind]
    BY <2>7, <2>8, TypesAgree DEF field
  <2> QED
    BY <2>7, <2>8, <2>9
<1> HIDE DEF args
<1> QED
  BY <1>3, <1>4 DEF NodeCastsAreSafe

AllCastsAreSafe == \A n \in 1 .. Len(store) : NodeCastsAreSafe(store[n], store)

LEMMA CastsPreserved ==
  ASSUME IInv, AllCastsAreSafe, [Next]_vars
  PROVE  AllCastsAreSafe'
<1>1. CASE store' = store
  BY <1>1 DEF AllCastsAreSafe, NodeCastsAreSafe
<1>2. CASE \E class \in Classes : /\ Checked(class) /\ store' = Append(store, NewNode(class))
                                  /\ Len(store) < MaxNodes
  <2>1. PICK class \in Classes : /\ Checked(class) /\ store' = Append(store, NewNode(class))
                                 /\ Len(store) < MaxNodes
    BY <1>2
  <2> DEFINE x == NewNode(class)
             n == Len(store)
  <2>2. x.kind \in Classes /\ NodeCastsAreSafe(x, store)
    BY <2>1, NewNodeCasts DEF NewNode
  <2>3. AST(store)
    BY DEF IInv, Typed
  <2> HIDE DEF x
  <2>4. /\ n \in Nat /\ Len(store') = n + 1 /\ store'[n + 1] = x
        /\ \A i \in 1 .. n : store'[i] = store[i]
    BY <2>1, <2>2, <2>3, NodeAdded DEF x
  <2>5. ASSUME NEW node, NodeCastsAreSafe(node, store)
        PROVE  NodeCastsAreSafe(node, store')
    <3>1. ASSUME NEW i \in DOMAIN node.args, NEW kid \in ToSet(node.args[i].nodes)
          PROVE  /\ kid \in 1 .. Len(store')
                 /\ Makers[node.kind][i].is \in {"node", "list"}
                 /\ Makers[node.kind][i].of \in Bases[store'[kid].kind]
      <4>1. /\ kid \in 1 .. n
            /\ Makers[node.kind][i].is \in {"node", "list"}
            /\ Makers[node.kind][i].of \in Bases[store[kid].kind]
        BY <2>5 DEF NodeCastsAreSafe
      <4> HIDE DEF n
      <4>2. kid \in 1 .. Len(store') /\ store'[kid] = store[kid]
        BY <2>4, <4>1
      <4> QED
        BY <4>1, <4>2
    <3> QED
      BY <3>1 DEF NodeCastsAreSafe
  <2>6. ASSUME NEW i \in 1 .. n + 1
        PROVE  NodeCastsAreSafe(store'[i], store')
    <3>1. CASE i \in 1 .. n
      BY <2>4, <2>5, <3>1 DEF AllCastsAreSafe
    <3>2. CASE i = n + 1
      BY <2>2, <2>4, <2>5, <3>2
    <3> QED
      BY <2>4, <3>1, <3>2
  <2> QED
    BY <2>4, <2>6 DEF AllCastsAreSafe, NodeCastsAreSafe
<1> QED
  BY <1>1, <1>2, StoreChanges

(* With every library whose tables agree one argument at a time, and on    *)
(* every tree, each pointer that a maker casts points to a node of the     *)
(* class it is cast to, by whatever path it came there on the stack.       *)
THEOREM MakersCastSafely == Spec => []CastsAreSafe
<1>1. Init => AllCastsAreSafe
  <2>1. ASSUME Init  PROVE 1 .. Len(store) = {}
    BY <2>1, NothingIsSequence DEF Init
  <2> QED
    BY <2>1 DEF AllCastsAreSafe
<1>2. IInv /\ AllCastsAreSafe /\ [Next]_vars => AllCastsAreSafe'
  BY CastsPreserved
<1>3. IInv /\ AllCastsAreSafe => CastsAreSafe
  <2> SUFFICES ASSUME IInv, AllCastsAreSafe  PROVE CastsAreSafe
    OBVIOUS
  <2>1. DOMAIN store = 1 .. Len(store)
    BY SequenceFacts DEF IInv, Typed, AST
  <2> QED
    BY <2>1 DEF AllCastsAreSafe, NodeCastsAreSafe, CastsAreSafe
<1> QED
  BY <1>1, <1>2, <1>3, Invariance, PTL DEF Spec

-----------------------------------------------------------------------------
(* The outcome of the evaluation is foretold at every step: by what the    *)
(* checks will see on the stack of each object still to come, and by what  *)
(* they will find of it.                                                   *)

(* An outline of the stack: its size and what is seen of each object, from *)
(* the bottom.                                                             *)
IsOutline(p) ==
  /\ p = [n |-> p.n, at |-> p.at]
  /\ p.n \in Nat /\ p.at = [i \in 1 .. p.n |-> p.at[i]]

Size(p) == p.n
Spot(p, i) == p.at[i]

(* The outlines with the object x in the place of all above the first k,   *)
(* and with the m objects that x has above all there are.                  *)
Put(p, k, x) ==
  [n |-> k + 1, at |-> [i \in 1 .. k + 1 |-> IF i <= k THEN p.at[i] ELSE x]]

PutAll(p, m, x) ==
  [n |-> p.n + m, at |-> [i \in 1 .. p.n + m |-> IF i <= p.n THEN p.at[i] ELSE x[i - p.n]]]

LEMMA PutFields ==
  ASSUME NEW p, NEW k \in Nat, NEW x
  PROVE  /\ IsOutline(Put(p, k, x)) /\ Size(Put(p, k, x)) = k + 1
         /\ Spot(Put(p, k, x), k + 1) = x
         /\ \A i \in 1 .. k : Spot(Put(p, k, x), i) = Spot(p, i)
<1> DEFINE f == [i \in 1 .. k + 1 |-> IF i <= k THEN p.at[i] ELSE x]
           r == [n |-> k + 1, at |-> f]
<1>1. f[k + 1] = x /\ \A i \in 1 .. k : f[i] = p.at[i]
  OBVIOUS
<1>2. f = [i \in 1 .. k + 1 |-> f[i]]
  OBVIOUS
<1> HIDE DEF f
<1>3. r.n = k + 1 /\ r.at = f /\ IsOutline(r)
  BY <1>2 DEF IsOutline
<1>4. Put(p, k, x) = r
  BY DEF Put, f
<1> HIDE DEF r
<1>5. Size(r) = k + 1 /\ \A i : Spot(r, i) = f[i]
  BY <1>3 DEF Size, Spot
<1>6. \A i : Spot(p, i) = p.at[i]
  BY DEF Spot
<1> QED
  BY <1>1, <1>3, <1>4, <1>5, <1>6

LEMMA OutlineSize ==
  ASSUME NEW p, IsOutline(p)
  PROVE  Size(p) \in Nat
BY DEF IsOutline, Size

LEMMA PutAllFields ==
  ASSUME NEW p, Size(p) \in Nat, NEW m \in Nat, NEW x
  PROVE  /\ IsOutline(PutAll(p, m, x)) /\ Size(PutAll(p, m, x)) = Size(p) + m
         /\ \A i \in 1 .. Size(p) : Spot(PutAll(p, m, x), i) = Spot(p, i)
         /\ \A i \in 1 .. m : Spot(PutAll(p, m, x), Size(p) + i) = x[i]
<1> DEFINE f == [i \in 1 .. p.n + m |-> IF i <= p.n THEN p.at[i] ELSE x[i - p.n]]
           r == [n |-> p.n + m, at |-> f]
<1>1. Size(p) = p.n /\ p.n \in Nat
  BY DEF Size
<1>2. \A i \in 1 .. p.n : f[i] = p.at[i]
  BY <1>1
<1>3. ASSUME NEW i \in 1 .. m  PROVE f[p.n + i] = x[i]
  <2> DEFINE k == p.n + i
  <2>1. k \in 1 .. p.n + m /\ ~(k <= p.n) /\ k - p.n = i
    BY <1>1
  <2> HIDE DEF k
  <2>2. f[k] = x[i]
    BY <2>1
  <2> QED
    BY <2>2 DEF k
<1>4. f = [i \in 1 .. p.n + m |-> f[i]] /\ p.n + m \in Nat
  BY <1>1
<1> HIDE DEF f
<1>5. r.n = p.n + m /\ r.at = f /\ IsOutline(r)
  BY <1>4 DEF IsOutline
<1>6. PutAll(p, m, x) = r
  BY DEF PutAll, f
<1> HIDE DEF r
<1>7. Size(r) = p.n + m /\ \A i : Spot(r, i) = f[i]
  BY <1>5 DEF Size, Spot
<1>8. \A i : Spot(p, i) = p.at[i]
  BY DEF Spot
<1> QED
  BY <1>1, <1>2, <1>3, <1>5, <1>6, <1>7, <1>8

(* Outlines are the same when what is seen is.                             *)
LEMMA SameOutline ==
  ASSUME NEW p, NEW q, IsOutline(p), IsOutline(q), Size(p) = Size(q),
         \A i \in 1 .. Size(p) : Spot(p, i) = Spot(q, i)
  PROVE  p = q
<1>1. p.at = q.at
  BY DEF IsOutline, Size, Spot
<1> QED
  BY <1>1 DEF IsOutline, Size

LEMMA PutAgain ==
  ASSUME NEW p, NEW r, NEW k \in Nat, \A i \in 1 .. k : Spot(r, i) = Spot(p, i), NEW x
  PROVE  Put(r, k, x) = Put(p, k, x)
<1> DEFINE a == Put(r, k, x)
           b == Put(p, k, x)
<1>1. /\ IsOutline(a) /\ Size(a) = k + 1 /\ Spot(a, k + 1) = x
      /\ \A i \in 1 .. k : Spot(a, i) = Spot(r, i)
  BY PutFields
<1>2. /\ IsOutline(b) /\ Size(b) = k + 1 /\ Spot(b, k + 1) = x
      /\ \A i \in 1 .. k : Spot(b, i) = Spot(p, i)
  BY PutFields
<1> HIDE DEF a, b
<1>3. ASSUME NEW i \in 1 .. k + 1  PROVE Spot(a, i) = Spot(b, i)
  <2>1. i \in 1 .. k \/ i = k + 1
    OBVIOUS
  <2> QED
    BY <1>1, <1>2, <2>1
<1>4. a = b
  BY <1>1, <1>2, <1>3, SameOutline
<1> QED
  BY <1>4 DEF a, b

LEMMA PutNone ==
  ASSUME NEW p, IsOutline(p), NEW x
  PROVE  PutAll(p, 0, x) = p
<1>1. Size(p) \in Nat /\ Size(p) + 0 = Size(p)
  BY OutlineSize
<1> DEFINE q == PutAll(p, 0, x)
<1>2. /\ IsOutline(q) /\ Size(q) = Size(p) + 0
      /\ \A i \in 1 .. Size(p) : Spot(q, i) = Spot(p, i)
  BY <1>1, PutAllFields
<1> HIDE DEF q
<1>3. q = p
  BY <1>1, <1>2, SameOutline
<1> QED
  BY <1>3 DEF q

LEMMA PutOneMore ==
  ASSUME NEW p, IsOutline(p), NEW m \in Nat, NEW x
  PROVE  PutAll(p, m + 1, x) = Put(PutAll(p, m, x), Size(p) + m, x[m + 1])
<1> DEFINE n == Size(p)
           y == x[m + 1]
           q == PutAll(p, m, x)
           r == PutAll(p, m + 1, x)
           s == Put(q, n + m, y)
<1>1. n \in Nat /\ n + m \in Nat /\ m + 1 \in Nat /\ n + (m + 1) = (n + m) + 1
  BY OutlineSize
<1>2. /\ \A i \in 1 .. n : Spot(q, i) = Spot(p, i)
      /\ \A i \in 1 .. m : Spot(q, n + i) = x[i]
  BY <1>1, PutAllFields
<1>3. /\ IsOutline(r) /\ Size(r) = (n + m) + 1
      /\ \A i \in 1 .. n : Spot(r, i) = Spot(p, i)
      /\ \A i \in 1 .. m + 1 : Spot(r, n + i) = x[i]
  BY <1>1, PutAllFields
<1> HIDE DEF q, r, n, y
<1>4. /\ IsOutline(s) /\ Size(s) = (n + m) + 1 /\ Spot(s, (n + m) + 1) = y
      /\ \A i \in 1 .. n + m : Spot(s, i) = Spot(q, i)
  BY <1>1, PutFields
<1> HIDE DEF s
<1>5. ASSUME NEW i \in 1 .. (n + m) + 1  PROVE Spot(r, i) = Spot(s, i)
  <2>1. CASE i <= n
    <3>1. i \in 1 .. n /\ i \in 1 .. n + m
      BY <1>1, <2>1
    <3> QED
      BY <1>2, <1>3, <1>4, <3>1
  <2>2. CASE i > n /\ i <= n + m
    <3>1. PICK j \in 1 .. m : i = n + j
      <4>1. i - n \in 1 .. m /\ i = n + (i - n)
        BY <1>1, <2>2
      <4> QED
        BY <4>1
    <3>2. j \in 1 .. m + 1 /\ i \in 1 .. n + m
      BY <1>1, <2>2, <3>1
    <3> QED
      BY <1>2, <1>3, <1>4, <3>1, <3>2
  <2>3. CASE i = (n + m) + 1
    <3>1. m + 1 \in 1 .. m + 1 /\ i = n + (m + 1)
      BY <1>1, <2>3
    <3>2. Spot(r, i) = x[m + 1]
      BY <1>3, <3>1
    <3> QED
      BY <1>4, <2>3, <3>2 DEF y
  <2> QED
    BY <1>1, <2>1, <2>2, <2>3
<1>6. r = s
  BY <1>3, <1>4, <1>5, SameOutline
<1> QED
  BY <1>6 DEF n, y, q, r, s

-----------------------------------------------------------------------------
(* What the checks see of the objects that the parts of a tree leave.      *)
NodeSeen(t) == [name |-> Null, kind |-> "node", of |-> t.name, str |-> Null]
ListSeen(l) == [name |-> Null, kind |-> "list", of |-> l.base, str |-> Null]
LiteralSeen(x) ==
  [name |-> Null, kind |-> "cptr", of |-> "char*", str |-> IF mode = "node" THEN x.str ELSE Null]

ValueSeen(v) ==
  CASE v.is = "NodeValue"    -> NodeSeen(v.node)
    [] v.is = "ListValue"    -> ListSeen(v.list)
    [] v.is = "LiteralValue" -> LiteralSeen(v.literal)

ArgSeen(a) == [ValueSeen(a.value) EXCEPT !.name = a.name]

PartSeen(x) ==
  CASE x.is = "Tree"        -> NodeSeen(x.root)
    [] x.is = "TreeNode"    -> NodeSeen(x)
    [] x.is = "NodeArg"     -> ArgSeen(x)
    [] x.is = "NodeList"    -> ListSeen(x)
    [] x.is = "LiteralArgs" -> LiteralSeen(x.literal)
    [] x.is = "Literal"     -> LiteralSeen(x)
    [] x.is \in {"NodeValue", "ListValue", "LiteralValue"} -> ValueSeen(x)

(* The outline that the item w makes of p.                                 *)
Leaves(w, p) ==
  CASE w.do = "visit" -> IF w.at.is = "ListArgs"
                           THEN PutAll(p, Len(w.at.list),
                                       [i \in 1 .. Len(w.at.list) |-> ArgSeen(w.at.list[i])])
                           ELSE Put(p, Size(p), PartSeen(w.at))
    [] w.do = "elem"  -> Put(p, Size(p), NodeSeen(w.at.node))
    [] w.do = "name"  -> Put(p, Size(p) - 1, [Spot(p, Size(p)) EXCEPT !.name = w.at])
    [] w.do = "node"  -> Put(p, Size(p) - NumArgs(w.at.args), NodeSeen(w.at))
    [] w.do = "list"  -> Put(p, Size(p) - Len(w.at.elems), ListSeen(w.at))

(* What is right in the trees and in the values of arguments.              *)
TreeRight(t) == WellTyped(t, strict, mode = "node")
ElemsRight(l) == ListIsRight(l, strict, TreesTyped[strict][mode = "node"])

ValueRight(v) ==
  /\ v.is = "NodeValue" => TreeRight(v.node)
  /\ v.is = "ListValue" => ElemsRight(v.list)

(* What the makers check of an argument, of those of a node, and of a list.*)
ArgRight(param, o) ==
  TypeCast(param, o) /\ (mode = "node" /\ param.is = "val" => o.str \in ValueStrs[param.of])

NodeRight(t, p) ==
  LET fields == Types[t.name].fields
  IN  /\ t.name \in Classes
      /\ NArg(t.name) = NumArgs(t.args)
      /\ \A i \in 1 .. NArg(t.name) :
           LET o == Spot(p, Size(p) - NArg(t.name) + i)
           IN  /\ t.args.is = "ListArgs" => o.name = fields[i].name
               /\ ArgRight(fields[i], o)

ListRight(l, p) ==
  /\ l.base \in Classes
  /\ \A i \in 1 .. Len(l.elems) :
       TypeCast(NodeParam(l.base), Spot(p, Size(p) - Len(l.elems) + i))

PartRight(x) ==
  CASE x.is = "Tree"     -> TreeRight(x.root)
    [] x.is = "TreeNode" -> TreeRight(x)
    [] x.is = "ListArgs" -> \A i \in 1 .. Len(x.list) : ValueRight(x.list[i].value)
    [] x.is = "NodeArg"  -> ValueRight(x.value)
    [] x.is = "NodeList" -> ElemsRight(x)
    [] x.is \in {"NodeValue", "ListValue", "LiteralValue"} -> ValueRight(x)
    [] x.is \in {"LiteralArgs", "Literal"} -> TRUE

(* The item w can be done from p with no error (but for want of memory).   *)
Right(w, p) ==
  CASE w.do = "visit" -> PartRight(w.at)
    [] w.do = "elem"  -> w.at.index = w.k /\ TreeRight(w.at.node)
    [] w.do = "name"  -> TRUE
    [] w.do = "node"  -> NodeRight(w.at, p)
    [] w.do = "list"  -> ListRight(w.at, p)

(* The items s make q of p; all of them can be done if b.                  *)
Does(w, p, q, b) ==
  /\ IsOutline(p) /\ IsOutline(q) /\ q = Leaves(w, p)
  /\ b <=> Right(w, p)

Runs(s, p, q, b) ==
  /\ IsSequence(s)
  /\ \E d : /\ d[1] = p /\ d[Len(s) + 1] = q
            /\ \A i \in 1 .. Len(s) + 1 : IsOutline(d[i])
            /\ \A i \in 1 .. Len(s) : d[i + 1] = Leaves(s[i], d[i])
            /\ b <=> \A i \in 1 .. Len(s) : Right(s[i], d[i])

LEMMA NothingRuns ==
  ASSUME NEW p, IsOutline(p)
  PROVE  Runs(<<>>, p, p, TRUE)
<1> DEFINE d == [i \in 1 .. 1 |-> p]
           s == <<>>
<1>1. IsSequence(s) /\ Len(s) = 0
  BY NothingIsSequence
<1>2. d[1] = p /\ 1 .. Len(s) = {} /\ \A i \in 1 .. Len(s) + 1 : i = 1
  BY <1>1
<1> HIDE DEF d, s
<1>3. Runs(s, p, p, TRUE)
  BY <1>1, <1>2 DEF Runs
<1> QED
  BY <1>3 DEF s

LEMMA NothingRan ==
  ASSUME NEW p, NEW q, NEW b, Runs(<<>>, p, q, b)
  PROVE  p = q /\ b
<1> DEFINE s == <<>>
<1>1. Len(s) = 0 /\ 1 .. Len(s) = {}
  BY NothingIsSequence
<1>2. Runs(s, p, q, b)
  OBVIOUS
<1> HIDE DEF s
<1> QED
  BY <1>1, <1>2 DEF Runs

LEMMA OneRuns ==
  ASSUME NEW w, NEW p, NEW q, NEW b, Does(w, p, q, b)
  PROVE  Runs(<<w>>, p, q, b)
<1> DEFINE d == [i \in 1 .. 2 |-> IF i = 1 THEN p ELSE q]
           s == <<w>>
<1>1. IsSequence(s) /\ Len(s) = 1 /\ s[1] = w
  BY OneItem
<1>2. d[1] = p /\ d[2] = q
  OBVIOUS
<1> HIDE DEF d, s
<1>3. /\ \A i \in 1 .. 2 : IsOutline(d[i])
      /\ \A i \in 1 .. 1 : d[i + 1] = Leaves(s[i], d[i])
      /\ b <=> \A i \in 1 .. 1 : Right(s[i], d[i])
  BY <1>1, <1>2 DEF Does
<1>4. Runs(s, p, q, b)
  BY <1>1, <1>2, <1>3 DEF Runs
<1> QED
  BY <1>4 DEF s

(* The first of the items, and the others after it.                        *)
LEMMA FirstRuns ==
  ASSUME NEW s, NEW p, NEW r, NEW b, Runs(s, p, r, b), s # <<>>
  PROVE  \E c \in BOOLEAN : /\ Runs(Tail(s), Leaves(Head(s), p), r, c) /\ IsOutline(p)
                            /\ b <=> Right(Head(s), p) /\ c
<1>1. IsSequence(s)
  BY DEF Runs
<1>2. PICK d : /\ d[1] = p /\ d[Len(s) + 1] = r
               /\ \A i \in 1 .. Len(s) + 1 : IsOutline(d[i])
               /\ \A i \in 1 .. Len(s) : d[i + 1] = Leaves(s[i], d[i])
               /\ b <=> \A i \in 1 .. Len(s) : Right(s[i], d[i])
  BY DEF Runs
<1>3. PICK n \in Nat : Len(s) = n + 1
  <2>1. Len(s) \in Nat \ {0}
    BY <1>1, TailSequence
  <2>2. Len(s) - 1 \in Nat
    BY <2>1
  <2> QED
    BY <2>1, <2>2
<1> DEFINE t == Tail(s)
           e == [i \in 1 .. n + 1 |-> d[i + 1]]
           c == \A i \in 1 .. n : Right(t[i], e[i])
<1>4. IsSequence(t) /\ Len(t) = n /\ (\A i \in 1 .. n : t[i] = s[i + 1]) /\ Head(s) = s[1]
  BY <1>1, <1>3, TailSequence
<1> HIDE DEF t
<1>5. 1 \in 1 .. Len(s) /\ 1 \in 1 .. Len(s) + 1 /\ \A i \in 1 .. n + 1 : i + 1 \in 1 .. Len(s) + 1
  BY <1>3
<1>6. \A i \in 1 .. n + 1 : e[i] = d[i + 1]
  OBVIOUS
<1> HIDE DEF e
<1>7. e[1] = Leaves(Head(s), p) /\ e[Len(t) + 1] = r
  <2>1. 1 \in 1 .. n + 1 /\ n + 1 \in 1 .. n + 1
    OBVIOUS
  <2>2. d[1 + 1] = Leaves(s[1], d[1])
    BY <1>2, <1>5
  <2> QED
    BY <1>2, <1>3, <1>4, <1>6, <2>1, <2>2
<1>8. /\ \A i \in 1 .. Len(t) + 1 : IsOutline(e[i])
      /\ \A i \in 1 .. Len(t) : e[i + 1] = Leaves(t[i], e[i])
  <2>1. \A i \in 1 .. n + 1 : IsOutline(e[i])
    BY <1>2, <1>5, <1>6
  <2>2. ASSUME NEW i \in 1 .. n  PROVE e[i + 1] = Leaves(t[i], e[i])
    <3>1. i + 1 \in 1 .. Len(s) /\ i \in 1 .. n + 1 /\ i + 1 \in 1 .. n + 1
      BY <1>3
    <3> QED
      BY <1>2, <1>4, <1>6, <3>1
  <2> QED
    BY <1>4, <2>1, <2>2
<1>9. Runs(t, Leaves(Head(s), p), r, c)
  BY <1>4, <1>7, <1>8 DEF Runs
<1>10. b <=> Right(Head(s), p) /\ c
  <2>1. ASSUME b  PROVE Right(Head(s), p) /\ c
    <3>1. Right(s[1], d[1])
      BY <1>2, <1>5, <2>1
    <3>2. ASSUME NEW i \in 1 .. n  PROVE Right(t[i], e[i])
      <4>1. i + 1 \in 1 .. Len(s) /\ i \in 1 .. n + 1
        BY <1>3
      <4> QED
        BY <1>2, <1>4, <1>6, <2>1, <4>1
    <3> QED
      BY <1>2, <1>4, <3>1, <3>2
  <2>2. ASSUME Right(Head(s), p), c  PROVE b
    <3>1. ASSUME NEW i \in 1 .. Len(s)  PROVE Right(s[i], d[i])
      <4>1. CASE i = 1
        BY <1>2, <1>4, <2>2, <4>1
      <4>2. CASE i # 1
        <5>1. PICK j \in 1 .. n : i = j + 1
          <6>1. i - 1 \in 1 .. n /\ i = (i - 1) + 1
            BY <1>3, <4>2
          <6> QED
            BY <6>1
        <5>2. j \in 1 .. n + 1
          OBVIOUS
        <5> QED
          BY <1>4, <1>6, <2>2, <5>1, <5>2
      <4> QED
        BY <4>1, <4>2
    <3> QED
      BY <1>2, <3>1
  <2> QED
    BY <2>1, <2>2
<1> HIDE DEF c
<1>11. IsOutline(p)
  BY <1>2, <1>5
<1>12. PICK v \in BOOLEAN : v <=> c
  OBVIOUS
<1>13. Runs(t, Leaves(Head(s), p), r, v)
  BY <1>9, <1>12 DEF Runs
<1> QED
  BY <1>10, <1>11, <1>12, <1>13 DEF t

LEMMA BothRun ==
  ASSUME NEW s, NEW t, NEW p, NEW q, NEW r, NEW b, NEW c, Runs(s, p, q, b), Runs(t, q, r, c)
  PROVE  Runs(s \o t, p, r, b /\ c)
<1>1. IsSequence(s) /\ IsSequence(t)
  BY DEF Runs
<1>2. PICK d : /\ d[1] = p /\ d[Len(s) + 1] = q
               /\ \A i \in 1 .. Len(s) + 1 : IsOutline(d[i])
               /\ \A i \in 1 .. Len(s) : d[i + 1] = Leaves(s[i], d[i])
               /\ b <=> \A i \in 1 .. Len(s) : Right(s[i], d[i])
  BY DEF Runs
<1>3. PICK e : /\ e[1] = q /\ e[Len(t) + 1] = r
               /\ \A i \in 1 .. Len(t) + 1 : IsOutline(e[i])
               /\ \A i \in 1 .. Len(t) : e[i + 1] = Leaves(t[i], e[i])
               /\ c <=> \A i \in 1 .. Len(t) : Right(t[i], e[i])
  BY DEF Runs
<1> DEFINE m == Len(s)
           n == Len(t)
           u == s \o t
           f == [i \in 1 .. m + n + 1 |-> IF i <= m THEN d[i] ELSE e[i - m]]
<1>4. m \in Nat /\ n \in Nat
  BY <1>1, SequenceFacts
<1>5. /\ IsSequence(u) /\ Len(u) = m + n
      /\ \A i \in 1 .. m + n : u[i] = IF i <= m THEN s[i] ELSE t[i - m]
  BY <1>1, BothSequences
<1>6. \A i \in 1 .. m : u[i] = s[i]
  BY <1>4, <1>5
<1>7. ASSUME NEW i \in 1 .. n  PROVE u[m + i] = t[i]
  <2> DEFINE k == m + i
  <2>1. k \in 1 .. m + n /\ ~(k <= m) /\ k - m = i
    BY <1>4
  <2> HIDE DEF k, m, n, u
  <2>2. u[k] = t[k - m]
    BY <1>5, <2>1
  <2> QED
    BY <2>1, <2>2 DEF k
<1> HIDE DEF m, n, u
<1>8. \A i \in 1 .. m + 1 : f[i] = d[i]
  <2>1. ASSUME NEW i \in 1 .. m + 1  PROVE f[i] = d[i]
    <3>1. CASE i <= m
      BY <1>4, <3>1
    <3>2. CASE ~(i <= m)
      <4>1. i = m + 1 /\ i - m = 1 /\ i \in 1 .. m + n + 1
        BY <1>4, <3>2
      <4> QED
        BY <1>2, <1>3, <3>2, <4>1 DEF m
    <3> QED
      BY <3>1, <3>2
  <2> QED
    BY <2>1
<1>9. ASSUME NEW i \in 1 .. n + 1  PROVE f[m + i] = e[i]
  <2> DEFINE k == m + i
  <2>1. k \in 1 .. m + n + 1 /\ ~(k <= m) /\ k - m = i
    BY <1>4
  <2> HIDE DEF k
  <2>2. f[k] = e[i]
    BY <2>1
  <2> QED
    BY <2>2 DEF k
<1> HIDE DEF f
<1>10. \A i \in 1 .. m + n : i \in 1 .. m \/ \E j \in 1 .. n : i = m + j
  <2>1. ASSUME NEW i \in 1 .. m + n, i \notin 1 .. m  PROVE \E j \in 1 .. n : i = m + j
    <3>1. i - m \in 1 .. n /\ i = m + (i - m)
      BY <1>4, <2>1
    <3> QED
      BY <3>1
  <2> QED
    BY <2>1
<1>11. f[1] = p /\ f[Len(u) + 1] = r
  <2>1. 1 \in 1 .. m + 1 /\ n + 1 \in 1 .. n + 1 /\ Len(u) + 1 = m + (n + 1)
    BY <1>4, <1>5
  <2> QED
    BY <1>2, <1>3, <1>8, <1>9, <2>1 DEF n
<1>12. ASSUME NEW i \in 1 .. Len(u) + 1
       PROVE  IsOutline(f[i])
  <2>1. CASE i \in 1 .. m + 1
    BY <1>2, <1>8, <2>1 DEF m
  <2>2. CASE i \notin 1 .. m + 1
    <3>1. PICK j \in 1 .. n + 1 : i = m + j
      <4>1. i - m \in 1 .. n + 1 /\ i = m + (i - m)
        BY <1>4, <1>5, <2>2
      <4> QED
        BY <4>1
    <3> QED
      BY <1>3, <1>9, <3>1 DEF n
  <2> QED
    BY <2>1, <2>2
<1>13. ASSUME NEW i \in 1 .. m
       PROVE  u[i] = s[i] /\ f[i] = d[i] /\ f[i + 1] = d[i + 1]
  <2>1. i \in 1 .. m + 1 /\ i + 1 \in 1 .. m + 1
    BY <1>4
  <2> QED
    BY <1>6, <1>8, <2>1
<1>14. ASSUME NEW j \in 1 .. n
       PROVE  u[m + j] = t[j] /\ f[m + j] = e[j] /\ f[(m + j) + 1] = e[j + 1]
  <2>1. j \in 1 .. n + 1 /\ j + 1 \in 1 .. n + 1 /\ (m + j) + 1 = m + (j + 1)
    BY <1>4
  <2> QED
    BY <1>7, <1>9, <2>1
<1>15. ASSUME NEW i \in 1 .. Len(u)
       PROVE  f[i + 1] = Leaves(u[i], f[i])
  <2>1. CASE i \in 1 .. m
    BY <1>2, <1>13, <2>1 DEF m
  <2>2. ASSUME NEW j \in 1 .. n, i = m + j
        PROVE  f[i + 1] = Leaves(u[i], f[i])
    BY <1>3, <1>14, <2>2 DEF n
  <2> QED
    BY <1>5, <1>10, <2>1, <2>2
<1>16. b /\ c <=> \A i \in 1 .. Len(u) : Right(u[i], f[i])
  <2>1. ASSUME b, c, NEW i \in 1 .. Len(u)
        PROVE  Right(u[i], f[i])
    <3>1. CASE i \in 1 .. m
      BY <1>2, <1>13, <2>1, <3>1 DEF m
    <3>2. ASSUME NEW j \in 1 .. n, i = m + j
          PROVE  Right(u[i], f[i])
      BY <1>3, <1>14, <2>1, <3>2 DEF n
    <3> QED
      BY <1>5, <1>10, <3>1, <3>2
  <2>2. ASSUME \A i \in 1 .. Len(u) : Right(u[i], f[i])
        PROVE  b /\ c
    <3>1. ASSUME NEW i \in 1 .. m  PROVE Right(s[i], d[i])
      <4>1. i \in 1 .. Len(u)
        BY <1>4, <1>5
      <4> QED
        BY <1>13, <2>2, <4>1
    <3>2. ASSUME NEW j \in 1 .. n  PROVE Right(t[j], e[j])
      <4>1. m + j \in 1 .. Len(u)
        BY <1>4, <1>5
      <4> QED
        BY <1>14, <2>2, <4>1
    <3> QED
      BY <1>2, <1>3, <3>1, <3>2 DEF m, n
  <2> QED
    BY <2>1, <2>2
<1>17. Runs(u, p, r, b /\ c)
  BY <1>5, <1>11, <1>12, <1>15, <1>16 DEF Runs
<1> QED
  BY <1>17 DEF u

(* Items each of which leaves one object more.                             *)
LEMMA EachRuns ==
  ASSUME NEW s, IsSequence(s), NEW p, IsOutline(p), NEW x, NEW b,
         \A i \in 1 .. Len(s) : \A q :
           /\ Leaves(s[i], q) = Put(q, Size(q), x[i])
           /\ Right(s[i], q) <=> Right(s[i], p),
         b <=> \A i \in 1 .. Len(s) : Right(s[i], p)
  PROVE  Runs(s, p, PutAll(p, Len(s), x), b)
<1> DEFINE m == Len(s)
           d == [i \in 1 .. m + 1 |-> PutAll(p, i - 1, x)]
<1>1. m \in Nat /\ Size(p) \in Nat
  BY SequenceFacts, OutlineSize
<1>2. \A i \in 1 .. m + 1 : d[i] = PutAll(p, i - 1, x)
  OBVIOUS
<1> HIDE DEF d
<1>3. d[1] = p
  BY <1>1, <1>2, PutNone
<1>4. d[m + 1] = PutAll(p, m, x)
  <2> DEFINE k == m + 1
  <2>1. k \in 1 .. m + 1 /\ k - 1 = m
    BY <1>1
  <2> HIDE DEF k
  <2>2. d[k] = PutAll(p, m, x)
    BY <1>2, <2>1
  <2> QED
    BY <2>2 DEF k
<1>5. ASSUME NEW i \in 1 .. m + 1
      PROVE  IsOutline(d[i]) /\ Size(d[i]) = Size(p) + (i - 1)
  <2>1. i - 1 \in Nat
    BY <1>1
  <2> QED
    BY <1>1, <1>2, <2>1, PutAllFields
<1>6. ASSUME NEW i \in 1 .. m
      PROVE  d[i + 1] = Leaves(s[i], d[i])
  <2> DEFINE k == i - 1
             j == i + 1
  <2>1. k \in Nat /\ i = k + 1 /\ i \in 1 .. m + 1 /\ j \in 1 .. m + 1 /\ j - 1 = k + 1
    BY <1>1
  <2> HIDE DEF k, j
  <2>2. PutAll(p, k + 1, x) = Put(PutAll(p, k, x), Size(p) + k, x[k + 1])
    BY <2>1, PutOneMore
  <2>3. d[j] = PutAll(p, k + 1, x)
    BY <1>2, <2>1
  <2>4. d[i] = PutAll(p, k, x)
    BY <1>2, <2>1 DEF k
  <2>5. Size(d[i]) = Size(p) + k
    BY <1>5, <2>1 DEF k
  <2>6. d[j] = Put(d[i], Size(d[i]), x[i])
    BY <2>1, <2>2, <2>3, <2>4, <2>5
  <2>7. Leaves(s[i], d[i]) = Put(d[i], Size(d[i]), x[i])
    OBVIOUS
  <2>8. d[j] = Leaves(s[i], d[i])
    BY <2>6, <2>7
  <2> QED
    BY <2>8 DEF j
<1>7. b <=> \A i \in 1 .. m : Right(s[i], d[i])
  OBVIOUS
<1> QED
  BY <1>3, <1>4, <1>5, <1>6, <1>7 DEF Runs

-----------------------------------------------------------------------------
(* What the C++ classes say of a class, and what the type definitions say. *)
LEMMA ClassFields ==
  /\ DOMAIN AstClasses = Classes
  /\ \A class \in Classes : /\ AstClasses[class].fields = Types[class].fields
                            /\ DOMAIN Types[class].fields = 1 .. NArg(class)
                            /\ Len(Types[class].fields) = NArg(class) /\ NArg(class) \in Nat
<1>1. ASSUME NEW class \in Classes  PROVE DOMAIN Types[class].fields = 1 .. NArg(class)
  BY LibraryAssumption, SequenceFacts DEF NArg
<1> QED
  BY <1>1, TypesAgree, ClassFacts DEF NArg

(* The more trees are typed, the more calls are right.                     *)
LEMMA MoreIsRight ==
  ASSUME NEW t \in Trees, NEW f, NEW g, \A u \in Trees : f[u] => g[u], NEW e, NEW v
  PROVE  CallIsRight(t, e, v, f) => CallIsRight(t, e, v, g)
<1> SUFFICES ASSUME CallIsRight(t, e, v, f)  PROVE CallIsRight(t, e, v, g)
  OBVIOUS
<1> DEFINE fields == AstClasses[t.name].fields
<1>1. IsNodeArgs(t.args, Trees)
  BY TreeNodeParts
<1>2. t.name \in Classes /\ t.name \in DOMAIN AstClasses
  BY ClassFields DEF CallIsRight
<1>3. DOMAIN fields = 1 .. Len(fields)
  BY <1>2, ClassFields
<1>4. ASSUME NEW l, IsNodeList(l, Trees), ListIsRight(l, e, f)
      PROVE  ListIsRight(l, e, g)
  BY <1>4 DEF IsNodeList, ListIsRight
<1>5. ASSUME NEW a, IsArgValue(a, Trees), NEW param, ArgIsRight(a, param, e, v, f)
      PROVE  ArgIsRight(a, param, e, v, g)
  <2>1. CASE a.is = "NodeValue"
    BY <1>5, <2>1 DEF IsArgValue, ArgIsRight
  <2>2. CASE a.is = "ListValue"
    BY <1>4, <1>5, <2>2 DEF IsArgValue, ArgIsRight
  <2>3. CASE a.is = "LiteralValue"
    BY <1>5, <2>3 DEF ArgIsRight
  <2> QED
    BY <1>5, <2>1, <2>2, <2>3 DEF IsArgValue
<1>6. CASE t.args.is = "LiteralArgs"
  BY <1>2, <1>6 DEF CallIsRight
<1>7. CASE t.args.is = "ListArgs"
  <2>1. /\ Len(fields) = Len(t.args.list)
        /\ \A i \in DOMAIN fields :
             /\ t.args.list[i].name = fields[i].name
             /\ ArgIsRight(t.args.list[i].value, fields[i], e, v, f)
    BY <1>7 DEF CallIsRight
  <2>2. DOMAIN t.args.list = 1 .. Len(t.args.list)
    BY <1>1, <1>7, SequenceFacts DEF IsNodeArgs
  <2>3. \A i \in DOMAIN t.args.list : IsArgValue(t.args.list[i].value, Trees)
    BY <1>1, <1>7 DEF IsNodeArgs, IsNodeArg
  <2> HIDE DEF fields
  <2>4. \A i \in DOMAIN fields : ArgIsRight(t.args.list[i].value, fields[i], e, v, g)
    BY <1>3, <1>5, <2>1, <2>2, <2>3
  <2> QED
    BY <1>2, <1>7, <2>1, <2>4 DEF CallIsRight, fields
<1> QED
  BY <1>1, <1>6, <1>7 DEF IsNodeArgs

(* A tree is well typed when the call it is is right: which trees are      *)
(* exists, the least set of those that are right when its members are.     *)
LEMMA TypingUnfolds ==
  ASSUME NEW e \in BOOLEAN, NEW v \in BOOLEAN, NEW t \in Trees
  PROVE  /\ WellTyped(t, e, v) <=> CallIsRight(t, e, v, TreesTyped[e][v])
         /\ \A u : WellTyped(u, e, v) = TreesTyped[e][v][u]
<1> DEFINE Calls(u, X) == CallIsRight(u, e, v, [w \in Trees |-> w \in X])
           Closed(X) == \A u \in Trees : Calls(u, X) => u \in X
           R == {u \in Trees : \A X \in SUBSET Trees : Closed(X) => u \in X}
           f == [u \in Trees |-> u \in R]
           Is(g) == g = [u \in Trees |-> CallIsRight(u, e, v, g)]
<1>1. ASSUME NEW X, NEW Y, X \subseteq Y, NEW u \in Trees, Calls(u, X)
      PROVE  Calls(u, Y)
  <2>1. \A w \in Trees : [x \in Trees |-> x \in X][w] => [x \in Trees |-> x \in Y][w]
    BY <1>1
  <2> QED
    BY <1>1, <2>1, MoreIsRight
<1>2. R \in SUBSET Trees
  OBVIOUS
<1>3. Closed(R)
  <2>1. ASSUME NEW u \in Trees, Calls(u, R), NEW X \in SUBSET Trees, Closed(X)
        PROVE  u \in X
    <3>1. R \subseteq X
      BY <2>1
    <3> HIDE DEF Calls, R
    <3>2. Calls(u, X)
      BY <1>1, <2>1, <3>1
    <3> QED
      BY <2>1, <3>2
  <2> HIDE DEF Calls, Closed
  <2>2. \A u \in Trees : Calls(u, R) => u \in R
    BY <2>1
  <2> QED
    BY <2>2 DEF Closed
<1>4. ASSUME NEW u \in R  PROVE Calls(u, R)
  <2> DEFINE X == {w \in R : Calls(w, R)}
  <2>1. X \in SUBSET Trees /\ X \subseteq R
    OBVIOUS
  <2>2. Closed(X)
    <3> HIDE DEF Calls, X, R
    <3>1. ASSUME NEW w \in Trees, Calls(w, X)  PROVE w \in X
      <4>1. Calls(w, R)
        BY <1>1, <2>1, <3>1
      <4>2. w \in R
        BY <1>3, <4>1
      <4> QED
        BY <4>1, <4>2 DEF X
    <3> QED
      BY <3>1
  <2> HIDE DEF Calls, Closed
  <2>3. u \in X
    <3>1. \A Z \in SUBSET Trees : Closed(Z) => u \in Z
      BY <1>4
    <3> HIDE DEF X
    <3> QED
      BY <2>1, <2>2, <3>1
  <2> QED
    BY <2>3
<1>5. ASSUME NEW u \in Trees  PROVE (u \in R) <=> CallIsRight(u, e, v, f)
  <2> HIDE DEF R
  <2>1. Calls(u, R) <=> CallIsRight(u, e, v, f)
    OBVIOUS
  <2> HIDE DEF Calls, f
  <2> QED
    BY <1>3, <1>4, <2>1
<1>6. \A u, g : CallIsRight(u, e, v, g) \in BOOLEAN
  BY DEF CallIsRight
<1> HIDE DEF R, Closed, Calls
<1>7. Is(f)
  <2>1. ASSUME NEW u \in Trees  PROVE (u \in R) = CallIsRight(u, e, v, f)
    <3> HIDE DEF f
    <3> QED
      BY <1>5, <1>6
  <2> DEFINE h(u) == CallIsRight(u, e, v, f)
  <2>2. f = [u \in Trees |-> h(u)]
    <3>1. \A u \in Trees : (u \in R) = h(u)
      BY <2>1
    <3> HIDE DEF h
    <3> QED
      BY <3>1
  <2> HIDE DEF f
  <2> QED
    BY <2>2
<1> HIDE DEF f
<1> DEFINE typed == CHOOSE g : Is(g)
<1>8. Is(typed)
  BY <1>7
<1>9. Typing(e, v, Trees) = typed
  BY DEF Typing
<1> HIDE DEF typed
<1>10. TreesTyped[e][v] = typed
  BY <1>9 DEF TreesTyped
<1>11. typed[t] = CallIsRight(t, e, v, typed)
  BY <1>8
<1>12. \A u : WellTyped(u, e, v) = TreesTyped[e][v][u]
  BY DEF WellTyped
<1> QED
  BY <1>6, <1>10, <1>11, <1>12

-----------------------------------------------------------------------------
(* What the definition of a well typed tree says, in terms of what the     *)
(* checks of the evaluator see.                                            *)
LEMMA TreeUnfolds ==
  ASSUME strict \in BOOLEAN, NEW t \in Trees
  PROVE  /\ TreeRight(t) <=> CallIsRight(t, strict, mode = "node", TreesTyped[strict][mode = "node"])
         /\ TreeRight(t) => t.name \in Classes
<1> DEFINE v == mode = "node"
<1>1. v \in BOOLEAN
  OBVIOUS
<1> HIDE DEF v
<1>2. WellTyped(t, strict, v) <=> CallIsRight(t, strict, v, TreesTyped[strict][v])
  BY <1>1, TypingUnfolds
<1>3. CallIsRight(t, strict, v, TreesTyped[strict][v]) => t.name \in Classes
  BY ClassFields DEF CallIsRight
<1> QED
  BY <1>2, <1>3 DEF TreeRight, v

LEMMA TreeLookedUp ==
  ASSUME NEW t
  PROVE  TreesTyped[strict][mode = "node"][t] = TreeRight(t)
BY DEF TreeRight, WellTyped

LEMMA CastIs ==
  ASSUME strict \in BOOLEAN, NEW class \in Classes, NEW param \in Classes
  PROVE  ClassCast(class, param) <=> CastsTo(class, param, strict)
<1>1. CASE strict
  BY <1>1 DEF ClassCast, CastsTo
<1>2. CASE ~strict
  <2>1. ClassCast(class, param) <=> IsA(Base, class, param)
    BY <1>2 DEF ClassCast
  <2>2. param \in Bases[class] <=> IsA(Base, class, param)
    BY TypesAgree
  <2>3. class = param => IsA(Base, class, param)
    BY IsAItself
  <2> QED
    BY <1>2, <2>1, <2>2, <2>3 DEF CastsTo
<1> QED
  BY <1>1, <1>2

LEMMA ListIs ==
  ASSUME strict \in BOOLEAN, NEW l, IsNodeList(l, Trees), NEW q, NEW k \in Nat,
         Size(q) = k + Len(l.elems),
         \A i \in 1 .. Len(l.elems) : Spot(q, k + i) = NodeSeen(l.elems[i].node)
  PROVE  ElemsRight(l) <=> /\ \A i \in 1 .. Len(l.elems) :
                                l.elems[i].index = i - 1 /\ TreeRight(l.elems[i].node)
                           /\ ListRight(l, q)
<1> DEFINE n == Len(l.elems)
           Alike(i) == TypeCast(NodeParam(l.base), Spot(q, Size(q) - n + i))
           Casts(i) == CastsTo(l.elems[i].node.name, l.base, strict)
           IsTyped(i) == l.elems[i].index = i - 1 /\ TreeRight(l.elems[i].node)
<1>1. n \in Nat /\ DOMAIN l.elems = 1 .. n /\ \A i \in 1 .. n : l.elems[i].node \in Trees
  BY SequenceFacts DEF IsNodeList
<1>2. ElemsRight(l) <=> l.base \in Classes /\ \A i \in 1 .. n : IsTyped(i) /\ Casts(i)
  BY <1>1, ClassFields, TreeLookedUp DEF ElemsRight, ListIsRight
<1>3. ListRight(l, q) <=> l.base \in Classes /\ \A i \in 1 .. n : Alike(i)
  BY DEF ListRight
<1>4. ASSUME NEW i \in 1 .. n, l.base \in Classes, IsTyped(i)
      PROVE  Alike(i) <=> Casts(i)
  <2> DEFINE t == l.elems[i].node
             o == Spot(q, Size(q) - n + i)
  <2>1. t.name \in Classes
    BY <1>1, <1>4, TreeUnfolds
  <2>2. Size(q) - n + i = k + i
    BY <1>1
  <2>3. o = NodeSeen(t)
    BY <2>2
  <2> HIDE DEF o
  <2>4. o.kind = "node" /\ o.of = t.name
    BY <2>3 DEF NodeSeen
  <2>5. NodeParam(l.base).is = "node" /\ NodeParam(l.base).of = l.base
    BY DEF NodeParam
  <2>6. TypeCast(NodeParam(l.base), o) <=> ClassCast(t.name, l.base)
    BY <2>4, <2>5 DEF TypeCast
  <2> QED
    BY <1>4, <2>1, <2>6, CastIs DEF o
<1> HIDE DEF Alike, Casts, IsTyped
<1>5. ElemsRight(l) <=> (\A i \in 1 .. n : IsTyped(i)) /\ ListRight(l, q)
  BY <1>2, <1>3, <1>4
<1> QED
  BY <1>5 DEF IsTyped

LEMMA ValueKinds ==
  ASSUME NEW v, IsArgValue(v, Trees)
  PROVE  /\ v.is = "NodeValue" => ValueSeen(v) = NodeSeen(v.node) /\ v.node \in Trees
         /\ v.is = "ListValue" => ValueSeen(v) = ListSeen(v.list) /\ IsNodeList(v.list, Trees)
         /\ v.is = "LiteralValue" => ValueSeen(v) = LiteralSeen(v.literal)
         /\ v.is \in {"NodeValue", "ListValue", "LiteralValue"}
BY DEF IsArgValue, ValueSeen

(* A string is right for a field.                                          *)
LEMMA LiteralIs ==
  ASSUME NEW x, NEW field, field.is \in {"node", "list", "str", "val"}
  PROVE  LiteralFits(x.str, field, mode = "node") <=> ArgRight(field, LiteralSeen(x))
<1> DEFINE o == LiteralSeen(x)
<1>1. o.kind = "cptr" /\ (mode = "node" => o.str = x.str)
  BY DEF LiteralSeen
<1> HIDE DEF o
<1>2. TypeCast(field, o) <=> field.is \in {"str", "val"}
  BY <1>1 DEF TypeCast
<1>3. ArgRight(field, o) <=>
        /\ field.is \in {"str", "val"}
        /\ mode = "node" /\ field.is = "val" => x.str \in ValueStrs[field.of]
  BY <1>1, <1>2 DEF ArgRight
<1> QED
  BY <1>3 DEF LiteralFits, o

LEMMA ArgIs ==
  ASSUME strict \in BOOLEAN, NEW class \in Classes, NEW i \in 1 .. NArg(class),
         NEW v, IsArgValue(v, Trees)
  PROVE  ArgIsRight(v, Types[class].fields[i], strict, mode = "node", TreesTyped[strict][mode = "node"])
         <=> ValueRight(v) /\ ArgRight(Types[class].fields[i], ValueSeen(v))
<1> DEFINE field == Types[class].fields[i]
           o == ValueSeen(v)
           typed == TreesTyped[strict][mode = "node"]
<1>1. /\ field.is \in {"node", "list", "str", "val"}
      /\ field.is \in {"node", "list"} => field.of \in Classes
  BY ClassFacts, ClassFields, TypesAgree
<1>2. \A u : typed[u] = TreeRight(u)
  BY TreeLookedUp
<1>3. \A l : ElemsRight(l) = ListIsRight(l, strict, typed)
  BY DEF ElemsRight
<1> HIDE DEF field, typed
<1>4. CASE v.is = "NodeValue"
  <2>1. ArgIsRight(v, field, strict, mode = "node", typed) <=>
          field.is = "node" /\ TreeRight(v.node) /\ CastsTo(v.node.name, field.of, strict)
    BY <1>2, <1>4 DEF ArgIsRight
  <2>2. v.node \in Trees /\ o.kind = "node" /\ o.of = v.node.name
    BY <1>4, ValueKinds DEF NodeSeen
  <2> HIDE DEF o
  <2>3. ArgRight(field, o) <=> field.is = "node" /\ ClassCast(v.node.name, field.of)
    BY <1>1, <2>2 DEF ArgRight, TypeCast
  <2>4. TreeRight(v.node) => v.node.name \in Classes
    BY <2>2, TreeUnfolds
  <2>5. ValueRight(v) <=> TreeRight(v.node)
    BY <1>4 DEF ValueRight
  <2>6. field.is = "node" /\ TreeRight(v.node) =>
          (ClassCast(v.node.name, field.of) <=> CastsTo(v.node.name, field.of, strict))
    BY <1>1, <2>4, CastIs
  <2> QED
    BY <2>1, <2>3, <2>5, <2>6 DEF o, field, typed
<1>5. CASE v.is = "ListValue"
  <2>1. ArgIsRight(v, field, strict, mode = "node", typed) <=>
          field.is = "list" /\ ElemsRight(v.list) /\ CastsTo(v.list.base, field.of, strict)
    BY <1>3, <1>5 DEF ArgIsRight
  <2>2. o.kind = "list" /\ o.of = v.list.base
    BY <1>5, ValueKinds DEF ListSeen
  <2> HIDE DEF o
  <2>3. ArgRight(field, o) <=> field.is = "list" /\ ClassCast(v.list.base, field.of)
    BY <1>1, <2>2 DEF ArgRight, TypeCast
  <2>4. ElemsRight(v.list) => v.list.base \in Classes
    BY ClassFields DEF ElemsRight, ListIsRight
  <2>5. ValueRight(v) <=> ElemsRight(v.list)
    BY <1>5 DEF ValueRight
  <2>6. field.is = "list" /\ ElemsRight(v.list) =>
          (ClassCast(v.list.base, field.of) <=> CastsTo(v.list.base, field.of, strict))
    BY <1>1, <2>4, CastIs
  <2> QED
    BY <2>1, <2>3, <2>5, <2>6 DEF o, field, typed
<1>6. CASE v.is = "LiteralValue"
  <2>1. ArgIsRight(v, field, strict, mode = "node", typed) <=>
          LiteralFits(v.literal.str, field, mode = "node")
    BY <1>6 DEF ArgIsRight
  <2>2. o = LiteralSeen(v.literal)
    BY <1>6, ValueKinds
  <2>3. ValueRight(v)
    BY <1>6 DEF ValueRight
  <2> HIDE DEF o
  <2>4. LiteralFits(v.literal.str, field, mode = "node") <=> ArgRight(field, o)
    BY <1>1, <2>2, LiteralIs
  <2> QED
    BY <2>1, <2>3, <2>4 DEF o, field, typed
<1> QED
  BY <1>4, <1>5, <1>6, ValueKinds

LEMMA ArgSeenIs ==
  ASSUME NEW a, IsArgValue(a.value, Trees), NEW field,
         field.is \in {"node", "list", "str", "val"}
  PROVE  /\ ArgSeen(a).name = a.name
         /\ ArgRight(field, ArgSeen(a)) <=> ArgRight(field, ValueSeen(a.value))
<1> DEFINE o == ValueSeen(a.value)
           x == ArgSeen(a)
<1>1. x.name = a.name /\ x.kind = o.kind /\ x.of = o.of /\ x.str = o.str
  <2>1. o = [name |-> o.name, kind |-> o.kind, of |-> o.of, str |-> o.str]
    BY ValueKinds DEF NodeSeen, ListSeen, LiteralSeen
  <2>2. x = [o EXCEPT !.name = a.name]
    BY DEF ArgSeen
  <2> HIDE DEF o, x
  <2> QED
    BY <2>1, <2>2
<1> HIDE DEF o, x
<1>2. TypeCast(field, x) <=> TypeCast(field, o)
  BY <1>1 DEF TypeCast
<1> QED
  BY <1>1, <1>2 DEF ArgRight, o, x

(* A tree is right when its arguments are, and the maker takes what they   *)
(* have left on the stack.                                                 *)
LEMMA NodeIs ==
  ASSUME strict \in BOOLEAN, NEW t \in Trees, NEW q, NEW k \in Nat,
         Size(q) = k + NumArgs(t.args),
         t.args.is = "LiteralArgs" => Spot(q, k + 1) = LiteralSeen(t.args.literal),
         t.args.is = "ListArgs" =>
           \A i \in 1 .. Len(t.args.list) : Spot(q, k + i) = ArgSeen(t.args.list[i])
  PROVE  TreeRight(t) <=> PartRight(t.args) /\ NodeRight(t, q)
<1> DEFINE fields == Types[t.name].fields
           narg == NArg(t.name)
           typed == TreesTyped[strict][mode = "node"]
           exact == strict
           values == mode = "node"
<1>1. IsNodeArgs(t.args, Trees) /\ NumArgs(t.args) \in Nat
  BY TreeNodeParts, NumArgsIsNat
<1>2. /\ TreeRight(t) <=> CallIsRight(t, exact, values, typed)
      /\ TreeRight(t) => t.name \in Classes
  BY TreeUnfolds
<1>3. NodeRight(t, q) => t.name \in Classes
  BY DEF NodeRight
<1> SUFFICES ASSUME t.name \in Classes
             PROVE  TreeRight(t) <=> PartRight(t.args) /\ NodeRight(t, q)
  BY <1>2, <1>3
<1>4. /\ AstClasses[t.name].fields = fields /\ DOMAIN fields = 1 .. narg /\ Len(fields) = narg
      /\ narg \in Nat /\ t.name \in DOMAIN AstClasses
  BY ClassFields
<1>5. \A i \in 1 .. narg : fields[i].is \in {"node", "list", "str", "val"}
  BY ClassFacts
<1>6. ASSUME narg = NumArgs(t.args), NEW i \in 1 .. narg
      PROVE  Spot(q, Size(q) - narg + i) = Spot(q, k + i)
  <2>1. Size(q) - narg + i = k + i
    BY <1>1, <1>4, <1>6
  <2> QED
    BY <2>1
<1>7. NodeRight(t, q) <=>
        /\ narg = NumArgs(t.args)
        /\ \A i \in 1 .. narg : /\ t.args.is = "ListArgs" => Spot(q, k + i).name = fields[i].name
                                /\ ArgRight(fields[i], Spot(q, k + i))
  BY <1>6 DEF NodeRight
<1>8. CASE t.args.is = "LiteralArgs"
  <2> DEFINE x == t.args.literal
  <2>1. PartRight(t.args)
    BY <1>8 DEF PartRight
  <2>2. NumArgs(t.args) = 1
    BY <1>8 DEF NumArgs
  <2>3. CallIsRight(t, exact, values, typed) <=>
          narg = 1 /\ LiteralFits(x.str, fields[1], values)
    BY <1>4, <1>8 DEF CallIsRight
  <2>4. NodeRight(t, q) <=> narg = 1 /\ ArgRight(fields[1], LiteralSeen(x))
    <3>1. CASE narg = 1
      <4>1. \A i \in 1 .. narg : i = 1
        BY <3>1
      <4>2. 1 \in 1 .. narg /\ Spot(q, k + 1) = LiteralSeen(x) /\ t.args.is # "ListArgs"
        BY <1>8, <3>1
      <4> HIDE DEF fields, narg, x
      <4> QED
        BY <1>7, <2>2, <3>1, <4>1, <4>2
    <3>2. CASE narg # 1
      BY <1>7, <2>2, <3>2
    <3> QED
      BY <3>1, <3>2
  <2>5. narg = 1 => (LiteralFits(x.str, fields[1], values) <=> ArgRight(fields[1], LiteralSeen(x)))
    <3>1. narg = 1 => 1 \in 1 .. narg
      BY <1>4
    <3>2. narg = 1 => fields[1].is \in {"node", "list", "str", "val"}
      BY <1>5, <3>1
    <3> HIDE DEF fields, x, narg
    <3> QED
      BY <3>2, LiteralIs
  <2> QED
    BY <1>2, <2>1, <2>3, <2>4, <2>5
<1>9. CASE t.args.is = "ListArgs"
  <2> DEFINE args == t.args.list
             Name(i) == args[i].name = fields[i].name
             Value(i) == ValueRight(args[i].value)
             Taken(i) == ArgRight(fields[i], ValueSeen(args[i].value))
  <2>1. NumArgs(t.args) = Len(args) /\ Len(args) \in Nat /\ DOMAIN args = 1 .. Len(args)
    BY <1>1, <1>9, SequenceFacts DEF NumArgs, IsNodeArgs
  <2>2. \A i \in 1 .. Len(args) : IsArgValue(args[i].value, Trees)
    BY <1>1, <1>9, <2>1 DEF IsNodeArgs, IsNodeArg
  <2>3. PartRight(t.args) <=> \A i \in 1 .. Len(args) : Value(i)
    BY <1>9 DEF PartRight
  <2>4. CallIsRight(t, exact, values, typed) <=>
          /\ narg = Len(args)
          /\ \A i \in 1 .. narg : Name(i) /\ ArgIsRight(args[i].value, fields[i], exact, values, typed)
    BY <1>4, <1>9 DEF CallIsRight
  <2>5. ASSUME narg = Len(args), NEW i \in 1 .. narg
        PROVE  ArgIsRight(args[i].value, fields[i], exact, values, typed) <=> Value(i) /\ Taken(i)
    <3>1. IsArgValue(args[i].value, Trees)
      BY <2>2, <2>5
    <3> HIDE DEF args
    <3> QED
      BY <2>5, <3>1, ArgIs
  <2>6. ASSUME narg = Len(args), NEW i \in 1 .. narg
        PROVE  /\ Spot(q, k + i).name = fields[i].name <=> Name(i)
               /\ ArgRight(fields[i], Spot(q, k + i)) <=> Taken(i)
    <3>1. Spot(q, k + i) = ArgSeen(args[i]) /\ IsArgValue(args[i].value, Trees)
      BY <1>9, <2>2, <2>6
    <3>2. fields[i].is \in {"node", "list", "str", "val"}
      BY <1>5, <2>6
    <3>3. /\ ArgSeen(args[i]).name = args[i].name
          /\ ArgRight(fields[i], ArgSeen(args[i])) <=> ArgRight(fields[i], ValueSeen(args[i].value))
      <4> HIDE DEF args, fields
      <4> QED
        BY <3>1, <3>2, ArgSeenIs
    <3> QED
      BY <3>1, <3>3
  <2>7. NodeRight(t, q) <=> narg = Len(args) /\ \A i \in 1 .. narg : Name(i) /\ Taken(i)
    <3> HIDE DEF Name, Taken, narg, args, fields
    <3> QED
      BY <1>7, <1>9, <2>1, <2>6
  <2>8. TreeRight(t) <=>
          narg = Len(args) /\ \A i \in 1 .. narg : Name(i) /\ Value(i) /\ Taken(i)
    <3> HIDE DEF Name, Taken, Value, narg, args, fields, typed
    <3> QED
      BY <1>2, <2>4, <2>5
  <2> HIDE DEF Name, Taken, Value, narg, args, fields
  <2> QED
    BY <2>3, <2>7, <2>8
<1> QED
  BY <1>1, <1>8, <1>9 DEF IsNodeArgs

-----------------------------------------------------------------------------
(* A visit and the work it leads to come to the same.                      *)
LEMMA RunsSame ==
  ASSUME NEW s, NEW p, NEW q, NEW b, NEW c, Runs(s, p, q, b), b <=> c
  PROVE  Runs(s, p, q, c)
BY DEF Runs

LEMMA VisitIs ==
  ASSUME NEW x, NEW p
  PROVE  /\ x.is # "ListArgs" => Leaves(Visit(x), p) = Put(p, Size(p), PartSeen(x))
         /\ x.is = "ListArgs" =>
              Leaves(Visit(x), p) = PutAll(p, Len(x.list), [i \in 1 .. Len(x.list) |-> ArgSeen(x.list[i])])
         /\ Right(Visit(x), p) <=> PartRight(x)
<1> DEFINE w == Visit(x)
<1>1. w.do = "visit" /\ w.at = x
  BY DEF Visit
<1> HIDE DEF w
<1>2. /\ x.is # "ListArgs" => Leaves(w, p) = Put(p, Size(p), PartSeen(x))
      /\ x.is = "ListArgs" =>
           Leaves(w, p) = PutAll(p, Len(x.list), [i \in 1 .. Len(x.list) |-> ArgSeen(x.list[i])])
  BY <1>1 DEF Leaves
<1>3. Right(w, p) <=> PartRight(x)
  BY <1>1 DEF Right
<1> QED
  BY <1>2, <1>3 DEF w

LEMMA AnotherRuns ==
  ASSUME NEW x, NEW y, NEW p, NEW q, NEW b, Does(Visit(x), p, q, b),
         x.is # "ListArgs", y.is # "ListArgs", PartSeen(y) = PartSeen(x),
         PartRight(y) <=> PartRight(x)
  PROVE  Runs(<<Visit(y)>>, p, q, b)
<1>1. Does(Visit(y), p, q, b)
  BY VisitIs DEF Does
<1> QED
  BY <1>1, OneRuns

LEMMA RootRuns ==
  ASSUME NEW x, IsPart(x), x.is = "Tree", NEW p, NEW q, NEW b, Does(Visit(x), p, q, b)
  PROVE  Runs(<<Visit(x.root)>>, p, q, b)
<1>1. x.root.is = "TreeNode"
  BY PartIs, TreeNodeParts
<1>2. PartSeen(x.root) = PartSeen(x) /\ (PartRight(x.root) <=> PartRight(x))
  BY <1>1 DEF PartSeen, PartRight
<1> QED
  BY <1>1, <1>2, AnotherRuns

LEMMA ValueRuns ==
  ASSUME NEW x, IsPart(x), NEW p, NEW q, NEW b, Does(Visit(x), p, q, b)
  PROVE  /\ x.is = "NodeValue" => Runs(<<Visit(x.node)>>, p, q, b)
         /\ x.is = "ListValue" => Runs(<<Visit(x.list)>>, p, q, b)
         /\ x.is \in {"LiteralValue", "LiteralArgs"} => Runs(<<Visit(x.literal)>>, p, q, b)
<1>1. CASE x.is = "NodeValue"
  <2>1. x.node.is = "TreeNode"
    BY <1>1, PartIs, ValueKinds, TreeNodeParts
  <2>2. PartSeen(x.node) = PartSeen(x) /\ (PartRight(x.node) <=> PartRight(x))
    BY <1>1, <2>1 DEF PartSeen, ValueSeen, PartRight, ValueRight
  <2> QED
    BY <1>1, <2>1, <2>2, AnotherRuns
<1>2. CASE x.is = "ListValue"
  <2>1. x.list.is = "NodeList"
    BY <1>2, PartIs, ValueKinds DEF IsNodeList
  <2>2. PartSeen(x.list) = PartSeen(x) /\ (PartRight(x.list) <=> PartRight(x))
    BY <1>2, <2>1 DEF PartSeen, ValueSeen, PartRight, ValueRight
  <2> QED
    BY <1>2, <2>1, <2>2, AnotherRuns
<1>3. CASE x.is \in {"LiteralValue", "LiteralArgs"}
  <2>1. x.literal.is = "Literal"
    BY <1>3, PartIs DEF IsArgValue, IsNodeArgs
  <2>2. PartSeen(x.literal) = PartSeen(x) /\ (PartRight(x.literal) <=> PartRight(x))
    BY <1>3, <2>1 DEF PartSeen, ValueSeen, PartRight, ValueRight
  <2> QED
    BY <1>3, <2>1, <2>2, AnotherRuns
<1> QED
  BY <1>1, <1>2, <1>3

LEMMA TreeNodeRuns ==
  ASSUME strict \in BOOLEAN, NEW t \in Trees, NEW p, NEW q, NEW b, Does(Visit(t), p, q, b)
  PROVE  Runs(<<Visit(t.args), MakeNode(t)>>, p, q, b)
<1> DEFINE args == t.args
           r == Leaves(Visit(args), p)
           w == MakeNode(t)
           n == Size(p)
<1>1. t.is = "TreeNode" /\ IsNodeArgs(args, Trees) /\ NumArgs(args) \in Nat
      /\ args.is \in {"ListArgs", "LiteralArgs"}
  BY TreeNodeParts, NumArgsIsNat DEF IsNodeArgs
<1>2. /\ IsOutline(p) /\ IsOutline(q) /\ n \in Nat
      /\ q = Put(p, n, NodeSeen(t)) /\ (b <=> TreeRight(t))
  <2>1. PartSeen(t) = NodeSeen(t) /\ (PartRight(t) <=> TreeRight(t))
    BY <1>1 DEF PartSeen, PartRight
  <2> QED
    BY <1>1, <2>1, VisitIs, OutlineSize DEF Does
<1>3. /\ IsOutline(r) /\ Size(r) = n + NumArgs(args)
      /\ \A i \in 1 .. n : Spot(r, i) = Spot(p, i)
      /\ args.is = "LiteralArgs" => Spot(r, n + 1) = LiteralSeen(args.literal)
      /\ args.is = "ListArgs" => \A i \in 1 .. Len(args.list) : Spot(r, n + i) = ArgSeen(args.list[i])
  <2>1. CASE args.is = "LiteralArgs"
    <3>1. r = Put(p, n, PartSeen(args)) /\ PartSeen(args) = LiteralSeen(args.literal)
      BY <2>1, VisitIs DEF PartSeen
    <3>2. NumArgs(args) = 1
      BY <2>1 DEF NumArgs
    <3> HIDE DEF args, r, n
    <3> QED
      BY <1>2, <2>1, <3>1, <3>2, PutFields
  <2>2. CASE args.is = "ListArgs"
    <3> DEFINE m == Len(args.list)
               x == [i \in 1 .. m |-> ArgSeen(args.list[i])]
    <3>1. r = PutAll(p, m, x) /\ NumArgs(args) = m
      BY <2>2, VisitIs DEF NumArgs
    <3>2. \A i \in 1 .. m : x[i] = ArgSeen(args.list[i])
      OBVIOUS
    <3> HIDE DEF x, r
    <3>3. /\ IsOutline(r) /\ Size(r) = n + m
          /\ \A i \in 1 .. n : Spot(r, i) = Spot(p, i)
          /\ \A i \in 1 .. m : Spot(r, n + i) = x[i]
      BY <1>1, <1>2, <3>1, PutAllFields
    <3> HIDE DEF args, n
    <3> QED
      BY <2>2, <3>1, <3>2, <3>3
  <2> QED
    BY <1>1, <2>1, <2>2
<1> HIDE DEF r
<1>4. PICK c \in BOOLEAN : c <=> PartRight(args)
  OBVIOUS
<1>5. PICK d \in BOOLEAN : d <=> NodeRight(t, r)
  OBVIOUS
<1>6. Runs(<<Visit(args)>>, p, r, c)
  <2>1. Does(Visit(args), p, r, c)
    BY <1>2, <1>3, <1>4, VisitIs DEF Does, r
  <2> QED
    BY <2>1, OneRuns
<1>7. Runs(<<w>>, r, q, d)
  <2>1. w.do = "node" /\ w.at = t
    BY DEF MakeNode
  <2> HIDE DEF w
  <2>2. Leaves(w, r) = Put(r, Size(r) - NumArgs(args), NodeSeen(t))
    BY <2>1 DEF Leaves
  <2>3. Size(r) - NumArgs(args) = n
    BY <1>1, <1>2, <1>3
  <2>4. Put(r, n, NodeSeen(t)) = Put(p, n, NodeSeen(t))
    <3> DEFINE x == NodeSeen(t)
    <3> HIDE DEF x, n
    <3> QED
      BY <1>2, <1>3, PutAgain
  <2>5. Right(w, r) <=> NodeRight(t, r)
    BY <2>1 DEF Right
  <2>6. Does(w, r, q, d)
    BY <1>2, <1>3, <1>5, <2>2, <2>3, <2>4, <2>5 DEF Does
  <2> QED
    BY <2>6, OneRuns
<1>8. Runs(<<Visit(args)>> \o <<w>>, p, q, c /\ d)
  BY <1>6, <1>7, BothRun
<1>9. TreeRight(t) <=> PartRight(args) /\ NodeRight(t, r)
  <2> HIDE DEF n
  <2> QED
    BY <1>2, <1>3, NodeIs
<1>10. Runs(<<Visit(args)>> \o <<w>>, p, q, b)
  BY <1>2, <1>4, <1>5, <1>8, <1>9, RunsSame
<1> QED
  BY <1>10, TwoItems

LEMMA NodeArgRuns ==
  ASSUME NEW x, IsPart(x), x.is = "NodeArg", NEW p, NEW q, NEW b, Does(Visit(x), p, q, b)
  PROVE  Runs(<<Visit(x.value), SetName(x.name)>>, p, q, b)
<1> DEFINE v == x.value
           o == ValueSeen(v)
           n == Size(p)
           r == Put(p, n, o)
           w == SetName(x.name)
<1>1. IsArgValue(v, Trees) /\ v.is \in {"NodeValue", "ListValue", "LiteralValue"}
  BY PartIs DEF IsArgValue
<1>2. /\ IsOutline(p) /\ IsOutline(q) /\ n \in Nat
      /\ q = Put(p, n, ArgSeen(x)) /\ (b <=> ValueRight(v))
  <2>1. PartSeen(x) = ArgSeen(x) /\ (PartRight(x) <=> ValueRight(v))
    BY DEF PartSeen, PartRight
  <2> QED
    BY <2>1, VisitIs, OutlineSize DEF Does
<1>3. PartSeen(v) = o /\ (PartRight(v) <=> ValueRight(v))
  BY <1>1 DEF PartSeen, PartRight
<1>4. ArgSeen(x) = [o EXCEPT !.name = x.name]
  BY DEF ArgSeen
<1> HIDE DEF o, n
<1>5. /\ IsOutline(r) /\ Size(r) = n + 1 /\ Spot(r, n + 1) = o
      /\ \A i \in 1 .. n : Spot(r, i) = Spot(p, i)
  BY <1>2, PutFields
<1>6. Does(Visit(v), p, r, b)
  BY <1>1, <1>2, <1>3, <1>5, VisitIs DEF Does, n
<1> HIDE DEF r
<1>7. Does(w, r, q, TRUE)
  <2>1. w.do = "name" /\ w.at = x.name
    BY DEF SetName
  <2> HIDE DEF w
  <2>2. Leaves(w, r) = Put(r, Size(r) - 1, [Spot(r, Size(r)) EXCEPT !.name = x.name])
    BY <2>1 DEF Leaves
  <2>3. Size(r) = n + 1 /\ Size(r) - 1 = n /\ Spot(r, Size(r)) = o
    BY <1>2, <1>5
  <2>4. Put(r, n, ArgSeen(x)) = Put(p, n, ArgSeen(x))
    <3> DEFINE y == ArgSeen(x)
    <3> HIDE DEF y
    <3> QED
      BY <1>2, <1>5, PutAgain
  <2>5. Right(w, r)
    BY <2>1 DEF Right
  <2> QED
    BY <1>2, <1>4, <1>5, <2>2, <2>3, <2>4, <2>5 DEF Does
<1>8. Runs(<<Visit(v)>> \o <<w>>, p, q, b /\ TRUE)
  BY <1>6, <1>7, OneRuns, BothRun
<1>9. Runs(<<Visit(v)>> \o <<w>>, p, q, b)
  BY <1>8, RunsSame
<1> QED
  BY <1>9, TwoItems

(* A function on 1..m is a sequence of its values.                         *)
LEMMA FunctionIsSequence ==
  ASSUME NEW m \in Nat, NEW s, s = [i \in 1 .. m |-> s[i]]
  PROVE  IsSequence(s) /\ Len(s) = m
<1>1. s \in [1 .. m -> {s[i] : i \in 1 .. m}]
  OBVIOUS
<1>2. s \in Seq({s[i] : i \in 1 .. m})
  BY <1>1, SeqDef
<1>3. Len(s) = m
  BY <1>1
<1> QED
  BY <1>2, <1>3, ASequence

LEMMA ListArgsRun ==
  ASSUME NEW x, IsPart(x), x.is = "ListArgs", NEW p, NEW q, NEW b, Does(Visit(x), p, q, b)
  PROVE  Runs([i \in DOMAIN x.list |-> Visit(x.list[i])], p, q, b)
<1> DEFINE m == Len(x.list)
           s == [i \in DOMAIN x.list |-> Visit(x.list[i])]
           y == [i \in 1 .. m |-> ArgSeen(x.list[i])]
<1>1. /\ m \in Nat /\ DOMAIN x.list = 1 .. m
      /\ \A i \in 1 .. m : x.list[i].is = "NodeArg"
  BY PartIs, SequenceFacts DEF IsNodeArgs, IsNodeArg
<1>2. /\ IsOutline(p) /\ q = PutAll(p, m, y)
      /\ b <=> \A i \in 1 .. m : ValueRight(x.list[i].value)
  BY VisitIs DEF Does, PartRight
<1>3. s = [i \in 1 .. m |-> Visit(x.list[i])] /\ \A i \in 1 .. m : y[i] = ArgSeen(x.list[i])
  BY <1>1
<1> HIDE DEF m, s, y
<1>4. IsSequence(s) /\ Len(s) = m /\ \A i \in 1 .. m : s[i] = Visit(x.list[i])
  BY <1>1, <1>3, FunctionIsSequence
<1>5. ASSUME NEW i \in 1 .. m, NEW r
      PROVE  /\ Leaves(s[i], r) = Put(r, Size(r), y[i])
             /\ Right(s[i], r) <=> ValueRight(x.list[i].value)
  <2> DEFINE a == x.list[i]
  <2>1. a.is = "NodeArg" /\ s[i] = Visit(a) /\ y[i] = ArgSeen(a)
    BY <1>1, <1>3, <1>4
  <2>2. PartSeen(a) = ArgSeen(a) /\ (PartRight(a) <=> ValueRight(a.value))
    BY <2>1 DEF PartSeen, PartRight
  <2> HIDE DEF a
  <2>3. /\ Leaves(Visit(a), r) = Put(r, Size(r), PartSeen(a))
        /\ Right(Visit(a), r) <=> PartRight(a)
    BY <2>1, VisitIs
  <2> QED
    BY <2>1, <2>2, <2>3 DEF a
<1>6. /\ \A i \in 1 .. Len(s) : \A r : /\ Leaves(s[i], r) = Put(r, Size(r), y[i])
                                       /\ Right(s[i], r) <=> Right(s[i], p)
      /\ b <=> \A i \in 1 .. Len(s) : Right(s[i], p)
  BY <1>2, <1>4, <1>5
<1>7. Runs(s, p, PutAll(p, Len(s), y), b)
  BY <1>2, <1>4, <1>6, EachRuns
<1> QED
  BY <1>2, <1>4, <1>7 DEF s

LEMMA NodeListRuns ==
  ASSUME strict \in BOOLEAN, NEW x, IsPart(x), x.is = "NodeList",
         NEW p, NEW q, NEW b, Does(Visit(x), p, q, b)
  PROVE  Runs([i \in DOMAIN x.elems |-> Elem(x.elems[i], i - 1)] \o <<MakeList(x)>>, p, q, b)
<1> DEFINE m == Len(x.elems)
           n == Size(p)
           s == [i \in DOMAIN x.elems |-> Elem(x.elems[i], i - 1)]
           y == [i \in 1 .. m |-> NodeSeen(x.elems[i].node)]
           r == PutAll(p, m, y)
           w == MakeList(x)
           Fine(i) == x.elems[i].index = i - 1 /\ TreeRight(x.elems[i].node)
<1>1. /\ IsNodeList(x, Trees) /\ m \in Nat /\ DOMAIN x.elems = 1 .. m
  BY PartIs, SequenceFacts DEF IsNodeList
<1>2. /\ IsOutline(p) /\ IsOutline(q) /\ n \in Nat
      /\ q = Put(p, n, ListSeen(x)) /\ (b <=> ElemsRight(x))
  <2>1. PartSeen(x) = ListSeen(x) /\ (PartRight(x) <=> ElemsRight(x))
    BY DEF PartSeen, PartRight
  <2> QED
    BY <2>1, VisitIs, OutlineSize DEF Does
<1>3. /\ s = [i \in 1 .. m |-> Elem(x.elems[i], i - 1)]
      /\ \A i \in 1 .. m : y[i] = NodeSeen(x.elems[i].node)
  BY <1>1
<1> HIDE DEF m, s, y, n
<1>4. /\ IsOutline(r) /\ Size(r) = n + m
      /\ \A i \in 1 .. n : Spot(r, i) = Spot(p, i)
      /\ \A i \in 1 .. m : Spot(r, n + i) = y[i]
  BY <1>1, <1>2, PutAllFields, SMTT(30) DEF n
<1>5. IsSequence(s) /\ Len(s) = m /\ \A i \in 1 .. m : s[i] = Elem(x.elems[i], i - 1)
  BY <1>1, <1>3, FunctionIsSequence
<1>6. ASSUME NEW i \in 1 .. m, NEW o
      PROVE  /\ Leaves(s[i], o) = Put(o, Size(o), y[i])
             /\ Right(s[i], o) <=> Fine(i)
  <2> DEFINE e == x.elems[i]
             z == s[i]
  <2>1. z.do = "elem" /\ z.at = e /\ z.k = i - 1
    BY <1>5 DEF Elem
  <2> HIDE DEF z
  <2>2. Leaves(z, o) = Put(o, Size(o), NodeSeen(e.node))
    BY <2>1 DEF Leaves
  <2>3. Right(z, o) <=> e.index = i - 1 /\ TreeRight(e.node)
    BY <2>1 DEF Right
  <2> QED
    BY <1>3, <2>2, <2>3 DEF z
<1> HIDE DEF Fine
<1>7. PICK c \in BOOLEAN : c <=> \A i \in 1 .. m : Fine(i)
  OBVIOUS
<1>8. PICK d \in BOOLEAN : d <=> ListRight(x, r)
  OBVIOUS
<1>9. Runs(s, p, r, c)
  <2>1. /\ \A i \in 1 .. Len(s) : \A o : /\ Leaves(s[i], o) = Put(o, Size(o), y[i])
                                         /\ Right(s[i], o) <=> Right(s[i], p)
        /\ c <=> \A i \in 1 .. Len(s) : Right(s[i], p)
    BY <1>5, <1>6, <1>7
  <2>2. Runs(s, p, PutAll(p, Len(s), y), c)
    BY <1>2, <1>5, <2>1, EachRuns
  <2> QED
    BY <1>5, <2>2
<1> HIDE DEF r
<1>10. Runs(<<w>>, r, q, d)
  <2>1. w.do = "list" /\ w.at = x
    BY DEF MakeList
  <2> HIDE DEF w
  <2>2. Leaves(w, r) = Put(r, Size(r) - m, ListSeen(x))
    BY <2>1 DEF Leaves, m
  <2>3. Size(r) - m = n
    BY <1>1, <1>2, <1>4
  <2>4. Put(r, n, ListSeen(x)) = Put(p, n, ListSeen(x))
    <3> DEFINE z == ListSeen(x)
    <3> HIDE DEF z
    <3> QED
      BY <1>2, <1>4, PutAgain
  <2>5. Right(w, r) <=> ListRight(x, r)
    BY <2>1 DEF Right
  <2>6. Does(w, r, q, d)
    BY <1>2, <1>4, <1>8, <2>2, <2>3, <2>4, <2>5 DEF Does
  <2> QED
    BY <2>6, OneRuns
<1>11. Runs(s \o <<w>>, p, q, c /\ d)
  BY <1>9, <1>10, BothRun
<1>12. ElemsRight(x) <=> (\A i \in 1 .. m : Fine(i)) /\ ListRight(x, r)
  <2>1. \A i \in 1 .. m : Spot(r, n + i) = NodeSeen(x.elems[i].node)
    BY <1>3, <1>4
  <2> QED
    BY <1>1, <1>2, <1>4, <2>1, ListIs DEF m, Fine
<1>13. Runs(s \o <<w>>, p, q, b)
  BY <1>2, <1>7, <1>8, <1>11, <1>12, RunsSame
<1> QED
  BY <1>13 DEF s

(* An element whose number is right comes to its node.                     *)
LEMMA ElemRuns ==
  ASSUME NEW w, w.do = "elem", w.at.node \in Trees, w.at.index = w.k,
         NEW p, NEW q, NEW b, Does(w, p, q, b)
  PROVE  Runs(<<Visit(w.at.node)>>, p, q, b)
<1> DEFINE t == w.at.node
<1>1. t.is = "TreeNode"
  BY TreeNodeParts
<1>2. /\ Leaves(w, p) = Put(p, Size(p), NodeSeen(t)) /\ (Right(w, p) <=> TreeRight(t))
  BY DEF Leaves, Right
<1>3. PartSeen(t) = NodeSeen(t) /\ (PartRight(t) <=> TreeRight(t))
  BY <1>1 DEF PartSeen, PartRight
<1>4. /\ Leaves(Visit(t), p) = Put(p, Size(p), PartSeen(t))
      /\ Right(Visit(t), p) <=> PartRight(t)
  <2> HIDE DEF t
  <2> QED
    BY <1>1, VisitIs
<1>5. Does(Visit(t), p, q, b)
  BY <1>2, <1>3, <1>4 DEF Does
<1> QED
  BY <1>5, OneRuns

-----------------------------------------------------------------------------
(* The stack and its outline.                                              *)
Seen(o) == [name |-> o.name, kind |-> o.kind, of |-> o.of, str |-> o.str]

Outline(objs) ==
  [n |-> Len(objs), at |-> [i \in 1 .. Len(objs) |-> Seen(objs[Len(objs) + 1 - i])]]

LEMMA OutlineFields ==
  ASSUME NEW objs, Len(objs) \in Nat
  PROVE  /\ IsOutline(Outline(objs)) /\ Size(Outline(objs)) = Len(objs)
         /\ \A i \in 1 .. Len(objs) : Spot(Outline(objs), i) = Seen(objs[Len(objs) + 1 - i])
<1> DEFINE f == [i \in 1 .. Len(objs) |-> Seen(objs[Len(objs) + 1 - i])]
           r == [n |-> Len(objs), at |-> f]
<1>1. /\ f = [i \in 1 .. Len(objs) |-> f[i]]
      /\ \A i \in 1 .. Len(objs) : f[i] = Seen(objs[Len(objs) + 1 - i])
  OBVIOUS
<1> HIDE DEF f
<1>2. r.n = Len(objs) /\ r.at = f /\ IsOutline(r)
  BY <1>1 DEF IsOutline
<1>3. Outline(objs) = r
  BY DEF Outline, f
<1> HIDE DEF r
<1>4. Size(r) = Len(objs) /\ \A i : Spot(r, i) = f[i]
  BY <1>2 DEF Size, Spot
<1> QED
  BY <1>1, <1>2, <1>3, <1>4

(* An object is put in the place of the k on top.                          *)
LEMMA OutlinePut ==
  ASSUME NEW objs, IsSequence(objs), NEW rest, IsSequence(rest), NEW k \in Nat,
         Len(rest) = Len(objs) - k, \A i \in 1 .. Len(rest) : rest[i] = objs[k + i], NEW o
  PROVE  Outline(<<o>> \o rest) = Put(Outline(objs), Len(objs) - k, Seen(o))
<1> DEFINE t == <<o>>
           s == t \o rest
           m == Len(rest)
           l == Len(objs)
           p == Outline(objs)
           q == Outline(s)
           x == Seen(o)
           r == Put(p, m, x)
<1>1. m \in Nat /\ l \in Nat /\ l = m + k
  BY SequenceFacts
<1>2. IsSequence(t) /\ Len(t) = 1 /\ t[1] = o
  BY OneItem
<1> HIDE DEF t
<1>3. Len(s) = 1 + m /\ \A i \in 1 .. 1 + m : s[i] = IF i <= 1 THEN t[i] ELSE rest[i - 1]
  <2>1. /\ Len(s) = Len(t) + Len(rest)
        /\ \A i \in 1 .. Len(t) + Len(rest) : s[i] = IF i <= Len(t) THEN t[i] ELSE rest[i - Len(t)]
    BY <1>2, BothSequences
  <2> HIDE DEF s
  <2> QED
    BY <1>2, <2>1
<1> HIDE DEF s
<1>4. /\ IsOutline(p) /\ Size(p) = l /\ \A i \in 1 .. l : Spot(p, i) = Seen(objs[l + 1 - i])
  BY <1>1, OutlineFields
<1>5. /\ IsOutline(q) /\ Size(q) = m + 1
      /\ \A i \in 1 .. m + 1 : Spot(q, i) = Seen(s[(m + 1) + 1 - i])
  <2>1. Len(s) \in Nat /\ Len(s) = m + 1
    BY <1>1, <1>3
  <2> HIDE DEF m
  <2> QED
    BY <2>1, OutlineFields
<1> HIDE DEF p, q, m, l, x
<1>6. /\ IsOutline(r) /\ Size(r) = m + 1 /\ Spot(r, m + 1) = x
      /\ \A i \in 1 .. m : Spot(r, i) = Spot(p, i)
  BY <1>1, PutFields
<1> HIDE DEF r
<1>7. ASSUME NEW i \in 1 .. m + 1  PROVE Spot(q, i) = Spot(r, i)
  <2>1. CASE i = m + 1
    <3>1. (m + 1) + 1 - i = 1 /\ 1 \in 1 .. 1 + m
      BY <1>1, <2>1
    <3>2. s[1] = o
      BY <1>2, <1>3, <3>1
    <3> QED
      BY <1>5, <1>6, <2>1, <3>1, <3>2 DEF x
  <2>2. CASE i # m + 1
    <3> DEFINE j == m + 1 - i
    <3>1. /\ j \in 1 .. m /\ i \in 1 .. m /\ i \in 1 .. l /\ (m + 1) + 1 - i = j + 1
          /\ j + 1 \in 1 .. 1 + m /\ ~(j + 1 <= 1) /\ (j + 1) - 1 = j /\ k + j = l + 1 - i
      BY <1>1, <2>2
    <3> HIDE DEF j
    <3>2. s[j + 1] = rest[j]
      <4> DEFINE h == j + 1
      <4>1. h \in 1 .. 1 + m /\ ~(h <= 1) /\ h - 1 = j
        BY <3>1
      <4> HIDE DEF h
      <4>2. s[h] = rest[j]
        BY <1>3, <4>1
      <4> QED
        BY <4>2 DEF h
    <3>3. rest[j] = objs[k + j]
      BY <3>1 DEF m
    <3>4. Spot(q, i) = Seen(s[j + 1])
      BY <1>5, <3>1
    <3>5. Spot(p, i) = Seen(objs[k + j])
      BY <1>4, <3>1
    <3> QED
      BY <1>6, <3>1, <3>2, <3>3, <3>4, <3>5
  <2> QED
    BY <2>1, <2>2
<1>8. q = r
  BY <1>5, <1>6, <1>7, SameOutline
<1>9. l - k = m
  BY <1>1
<1> QED
  BY <1>8, <1>9 DEF p, q, r, s, t, x, l

(* The options do not change, and what they decide does not either.        *)
LEMMA RunsStay ==
  ASSUME UNCHANGED input, NEW s, NEW p, NEW q, NEW b, Runs(s, p, q, b)
  PROVE  Runs(s, p, q, b)'
<1>1. mode' = mode /\ strict' = strict
  BY DEF input
<1>2. ASSUME NEW w, NEW o
      PROVE  Leaves(w, o)' = Leaves(w, o)
  BY <1>1 DEF Leaves, PartSeen, ArgSeen, ValueSeen, LiteralSeen
<1>3. ASSUME NEW w, NEW o
      PROVE  Right(w, o)' <=> Right(w, o)
  BY <1>1 DEF Right, PartRight, NodeRight, ListRight, ValueRight, ElemsRight, TreeRight, ArgRight,
              TypeCast, ClassCast
<1> QED
  BY <1>2, <1>3 DEF Runs

-----------------------------------------------------------------------------
(* What is foretold: the outline that the work to come makes of the stack  *)
(* is of one object, the root; and all of it can be done if the tree is    *)
(* right.                                                                  *)
Foreseen == Put(Outline(<<>>), 0, NodeSeen(tree))

Foretold ==
  /\ outcome = "running" => \E b \in BOOLEAN : /\ b <=> TreeRight(tree)
                                               /\ Runs(todo, Outline(stack), Foreseen, b)
  /\ OutcomeIsTyping

LEMMA NextRuns ==
  ASSUME Foretold, outcome = "running", todo # <<>>
  PROVE  \E c \in BOOLEAN :
           /\ Runs(Tail(todo), Leaves(Head(todo), Outline(stack)), Foreseen, c)
           /\ IsOutline(Outline(stack))
           /\ TreeRight(tree) <=> Right(Head(todo), Outline(stack)) /\ c
<1>1. PICK b \in BOOLEAN : (b <=> TreeRight(tree)) /\ Runs(todo, Outline(stack), Foreseen, b)
  BY DEF Foretold
<1>2. PICK c \in BOOLEAN : /\ Runs(Tail(todo), Leaves(Head(todo), Outline(stack)), Foreseen, c)
                           /\ IsOutline(Outline(stack))
                           /\ b <=> Right(Head(todo), Outline(stack)) /\ c
  BY <1>1, FirstRuns
<1> QED
  BY <1>1, <1>2

LEMMA TreeStays ==
  ASSUME UNCHANGED input
  PROVE  (TreeRight(tree) <=> TreeRight(tree)') /\ Foreseen' = Foreseen
<1>1. tree' = tree /\ mode' = mode /\ strict' = strict
  BY DEF input
<1> QED
  BY <1>1 DEF TreeRight, Foreseen, NodeSeen

LEMMA GoesOn ==
  ASSUME UNCHANGED <<input, outcome>>, outcome = "running", NEW b \in BOOLEAN,
         b <=> TreeRight(tree), Runs(todo', Outline(stack'), Foreseen, b)
  PROVE  Foretold'
<1>1. PICK s, p, q : s = todo' /\ p = Outline(stack') /\ q = Foreseen
  OBVIOUS
<1>2. Runs(s, p, q, b)
  BY <1>1
<1>3. Runs(s, p, q, b)'
  BY <1>2, RunsStay
<1>4. q = Foreseen' /\ (b <=> TreeRight(tree)')
  BY <1>1, TreeStays
<1>5. outcome' = "running" /\ OutcomeIsTyping'
  BY DEF OutcomeIsTyping, InputErrors
<1>6. Runs(todo, Outline(stack), Foreseen, b)'
  BY <1>1, <1>3, <1>4
<1> QED
  BY <1>4, <1>5, <1>6 DEF Foretold

LEMMA RunsFrom ==
  ASSUME NEW s, NEW p, NEW q, NEW b, Runs(s, p, q, b)
  PROVE  IsOutline(p)
<1>1. Len(s) \in Nat
  BY SequenceFacts DEF Runs
<1>2. 1 \in 1 .. Len(s) + 1
  BY <1>1
<1> QED
  BY <1>2 DEF Runs

(* A step that leads to other work; a call that returns; and one that      *)
(* throws.                                                                 *)
LEMMA LeadsOn ==
  ASSUME Foretold, outcome = "running", todo # <<>>, UNCHANGED <<input, outcome, stack>>,
         NEW s, todo' = s \o Tail(todo),
         \A q : \A b \in BOOLEAN :
           Does(Head(todo), Outline(stack), q, b) => Runs(s, Outline(stack), q, b)
  PROVE  Foretold'
<1> DEFINE p == Outline(stack)
           q == Leaves(Head(todo), p)
<1>1. PICK c \in BOOLEAN : /\ Runs(Tail(todo), q, Foreseen, c) /\ IsOutline(p)
                           /\ TreeRight(tree) <=> Right(Head(todo), p) /\ c
  BY NextRuns
<1>2. IsOutline(q)
  BY <1>1, RunsFrom
<1>3. PICK b \in BOOLEAN : b <=> Right(Head(todo), p)
  OBVIOUS
<1>4. Does(Head(todo), p, q, b)
  BY <1>1, <1>2, <1>3 DEF Does
<1>5. Runs(s, p, q, b)
  BY <1>4
<1> HIDE DEF p, q
<1>6. Runs(s \o Tail(todo), p, Foreseen, b /\ c)
  BY <1>1, <1>5, BothRun
<1>7. PICK d \in BOOLEAN : d <=> b /\ c
  OBVIOUS
<1>8. Runs(todo', Outline(stack'), Foreseen, d) /\ (d <=> TreeRight(tree))
  <2>1. Runs(s \o Tail(todo), p, Foreseen, d)
    BY <1>6, <1>7, RunsSame
  <2>2. d <=> TreeRight(tree)
    BY <1>1, <1>3, <1>7
  <2> QED
    BY <2>1, <2>2 DEF p
<1> QED
  BY <1>8, GoesOn

LEMMA Returns ==
  ASSUME Foretold, outcome = "running", todo # <<>>, UNCHANGED <<input, outcome>>,
         todo' = Tail(todo), Outline(stack') = Leaves(Head(todo), Outline(stack)),
         Right(Head(todo), Outline(stack))
  PROVE  Foretold'
<1>1. PICK c \in BOOLEAN : /\ Runs(Tail(todo), Leaves(Head(todo), Outline(stack)), Foreseen, c)
                           /\ TreeRight(tree) <=> Right(Head(todo), Outline(stack)) /\ c
  BY NextRuns
<1>2. Runs(todo', Outline(stack'), Foreseen, c)
  BY <1>1
<1> QED
  BY <1>1, <1>2, GoesOn

LEMMA Throws ==
  ASSUME Foretold, outcome = "running", todo # <<>>, UNCHANGED input, outcome' \in InputErrors,
         outcome' = "alloc" \/ ~Right(Head(todo), Outline(stack))
  PROVE  Foretold'
<1>1. TreeRight(tree) => Right(Head(todo), Outline(stack))
  BY NextRuns
<1>2. outcome' = "alloc" \/ ~TreeRight(tree)'
  BY <1>1, TreeStays
<1>3. outcome' # "running" /\ outcome' # "done"
  BY DEF InputErrors
<1> QED
  BY <1>2, <1>3 DEF Foretold, OutcomeIsTyping, TreeRight

-----------------------------------------------------------------------------
LEMMA ItemIsWork ==
  ASSUME IInv, todo # <<>>
  PROVE  IsWork(Head(todo))
<1>1. IsSequence(todo) /\ \A i \in 1 .. Len(todo) : IsWork(todo[i])
  BY DEF IInv, Typed
<1>2. Head(todo) = todo[1] /\ 1 \in 1 .. Len(todo)
  BY <1>1, TailSequence
<1> QED
  BY <1>1, <1>2

LEMMA DoesVisit ==
  ASSUME NEW w, w.do = "visit", NEW p, NEW q, NEW b, Does(w, p, q, b)
  PROVE  Does(Visit(w.at), p, q, b)
<1>1. Leaves(w, p) = Leaves(Visit(w.at), p) /\ (Right(w, p) <=> Right(Visit(w.at), p))
  BY DEF Visit, Leaves, Right
<1> QED
  BY <1>1 DEF Does

LEMMA ExpandForetells ==
  ASSUME IInv, Foretold, Expand
  PROVE  Foretold'
<1>1. /\ outcome = "running" /\ todo # <<>> /\ Head(todo).do = "visit"
      /\ UNCHANGED <<input, outcome, stack>> /\ strict \in BOOLEAN
  BY DEF Expand, Visiting, Running, IInv, Typed
<1> DEFINE x == Head(todo).at
           p == Outline(stack)
           Comes(s) == \A q : \A b \in BOOLEAN : Does(Visit(x), p, q, b) => Runs(s, p, q, b)
<1>2. IsPart(x) /\ Item = x /\ Head(todo).at = x
  BY <1>1, ItemIsWork DEF IsWork, Item
<1> HIDE DEF x, p
<1>3. \E s : Comes(s) /\ todo' = s \o Tail(todo)
  <2>1. CASE Visiting("Tree") /\ todo' = <<Visit(Item.root)>> \o Tail(todo)
    <3>1. x.is = "Tree"
      BY <1>2, <2>1 DEF Visiting
    <3>2. Comes(<<Visit(x.root)>>)
      BY <1>2, <3>1, RootRuns
    <3> QED
      BY <1>2, <2>1, <3>2
  <2>2. CASE Visiting("TreeNode") /\ todo' = <<Visit(Item.args), MakeNode(Item)>> \o Tail(todo)
    <3>1. x \in Trees
      BY <1>2, <2>2, PartIs DEF Visiting
    <3>2. Comes(<<Visit(x.args), MakeNode(x)>>)
      BY <1>1, <3>1, TreeNodeRuns
    <3> QED
      BY <1>2, <2>2, <3>2
  <2>3. CASE /\ Visiting("ListArgs")
             /\ todo' = [i \in DOMAIN Item.list |-> Visit(Item.list[i])] \o Tail(todo)
    <3>1. x.is = "ListArgs"
      BY <1>2, <2>3 DEF Visiting
    <3>2. Comes([i \in DOMAIN x.list |-> Visit(x.list[i])])
      BY <1>2, <3>1, ListArgsRun
    <3> QED
      BY <1>2, <2>3, <3>2
  <2>4. CASE /\ Visiting("NodeArg")
             /\ todo' = <<Visit(Item.value), SetName(Item.name)>> \o Tail(todo)
    <3>1. x.is = "NodeArg"
      BY <1>2, <2>4 DEF Visiting
    <3>2. Comes(<<Visit(x.value), SetName(x.name)>>)
      BY <1>2, <3>1, NodeArgRuns
    <3> QED
      BY <1>2, <2>4, <3>2
  <2>5. CASE Visiting("NodeValue") /\ todo' = <<Visit(Item.node)>> \o Tail(todo)
    <3>1. x.is = "NodeValue"
      BY <1>2, <2>5 DEF Visiting
    <3>2. Comes(<<Visit(x.node)>>)
      BY <1>2, <3>1, ValueRuns
    <3> QED
      BY <1>2, <2>5, <3>2
  <2>6. CASE Visiting("ListValue") /\ todo' = <<Visit(Item.list)>> \o Tail(todo)
    <3>1. x.is = "ListValue"
      BY <1>2, <2>6 DEF Visiting
    <3>2. Comes(<<Visit(x.list)>>)
      BY <1>2, <3>1, ValueRuns
    <3> QED
      BY <1>2, <2>6, <3>2
  <2>7. CASE /\ Visiting("LiteralValue") \/ Visiting("LiteralArgs")
             /\ todo' = <<Visit(Item.literal)>> \o Tail(todo)
    <3>1. x.is \in {"LiteralValue", "LiteralArgs"}
      BY <1>2, <2>7 DEF Visiting
    <3>2. Comes(<<Visit(x.literal)>>)
      BY <1>2, <3>1, ValueRuns
    <3> QED
      BY <1>2, <2>7, <3>2
  <2>8. CASE /\ Visiting("NodeList")
             /\ todo' = [i \in DOMAIN Item.elems |-> Elem(Item.elems[i], i - 1)]
                        \o <<MakeList(Item)>> \o Tail(todo)
    <3>1. x.is = "NodeList"
      BY <1>2, <2>8 DEF Visiting
    <3>2. Comes([i \in DOMAIN x.elems |-> Elem(x.elems[i], i - 1)] \o <<MakeList(x)>>)
      BY <1>1, <1>2, <3>1, NodeListRuns
    <3> QED
      BY <1>2, <2>8, <3>2
  <2> QED
    BY <2>1, <2>2, <2>3, <2>4, <2>5, <2>6, <2>7, <2>8 DEF Expand
<1>4. PICK s : Comes(s) /\ todo' = s \o Tail(todo)
  BY <1>3
<1>5. \A q : \A b \in BOOLEAN : Does(Head(todo), p, q, b) => Runs(s, p, q, b)
  BY <1>1, <1>4, DoesVisit DEF x
<1> QED
  BY <1>1, <1>4, <1>5, LeadsOn DEF p

LEMMA VisitElemForetells ==
  ASSUME IInv, Foretold, VisitElem
  PROVE  Foretold'
<1> DEFINE w == Head(todo)
           p == Outline(stack)
<1>1. /\ outcome = "running" /\ todo # <<>> /\ w.do = "elem" /\ Item = w.at
      /\ UNCHANGED <<input, stack>>
  BY DEF VisitElem, Running, Item
<1>2. w.at.node \in Trees
  BY <1>1, ItemIsWork DEF IsWork
<1>3. CASE Item.index = w.k
  <2>1. todo' = <<Visit(w.at.node)>> \o Tail(todo) /\ UNCHANGED outcome /\ w.at.index = w.k
    BY <1>1, <1>3 DEF VisitElem
  <2>2. \A q : \A b \in BOOLEAN : Does(w, p, q, b) => Runs(<<Visit(w.at.node)>>, p, q, b)
    <3> HIDE DEF w, p
    <3> QED
      BY <1>1, <1>2, <2>1, ElemRuns
  <2> QED
    BY <1>1, <2>1, <2>2, LeadsOn
<1>4. CASE Item.index # w.k
  <2>1. outcome' = "list index" /\ UNCHANGED todo
    BY <1>4 DEF VisitElem, Fail
  <2>2. ~Right(w, p)
    BY <1>1, <1>4 DEF Right
  <2> QED
    BY <1>1, <2>1, <2>2, Throws DEF InputErrors
<1> QED
  BY <1>3, <1>4

LEMMA VisitLiteralForetells ==
  ASSUME IInv, Foretold, VisitLiteral
  PROVE  Foretold'
<1> DEFINE w == Head(todo)
           p == Outline(stack)
           o == Obj("cptr", "char*", <<>>, Item.str)
<1>1. /\ outcome = "running" /\ todo # <<>> /\ w.do = "visit"
      /\ w.at.is = "Literal" /\ Item = w.at
      /\ stack' = <<o>> \o stack /\ todo' = Tail(todo)
      /\ UNCHANGED <<input, outcome>>
  BY DEF VisitLiteral, Visiting, Running, Push, Item
<1>2. IsSequence(stack) /\ Len(stack) \in Nat
  BY SequenceFacts DEF IInv, Typed, Objects
<1>3. Seen(o) = LiteralSeen(w.at)
  BY <1>1 DEF Obj, Seen, LiteralSeen
<1>4. Outline(<<o>> \o stack) = Put(p, Len(stack), Seen(o))
  <2>1. /\ 0 \in Nat /\ Len(stack) = Len(stack) - 0
        /\ \A i \in 1 .. Len(stack) : stack[i] = stack[0 + i]
    BY <1>2
  <2> HIDE DEF o
  <2>2. Outline(<<o>> \o stack) = Put(p, Len(stack) - 0, Seen(o))
    BY <1>2, <2>1, OutlinePut
  <2> QED
    BY <2>1, <2>2
<1>5. Size(p) = Len(stack)
  BY <1>2, OutlineFields
<1> HIDE DEF w, p, o
<1>6. Leaves(w, p) = Put(p, Len(stack), LiteralSeen(w.at)) /\ Right(w, p)
  BY <1>1, <1>5 DEF Leaves, Right, PartSeen, PartRight
<1> QED
  BY <1>1, <1>3, <1>4, <1>6, Returns DEF w, p

LEMMA VisitArgNameForetells ==
  ASSUME IInv, Foretold, VisitArgName
  PROVE  Foretold'
<1> DEFINE w == Head(todo)
           p == Outline(stack)
           n == Len(stack)
           k == n - 1
           o == [stack[1] EXCEPT !.name = Item]
           x == [Spot(p, n) EXCEPT !.name = w.at]
           q == Outline(stack')
           r == Put(p, k, x)
<1>1. Running("name") /\ UNCHANGED input
  BY DEF VisitArgName
<1>2. /\ NameError = "none" /\ IsSequence(stack) /\ DOMAIN stack = 1 .. n /\ n \in Nat \ {0}
      /\ k \in Nat /\ k + 1 = n
  <2>1. NameError = "none" /\ IsSequence(stack) /\ DOMAIN stack = 1 .. n /\ n \in Nat \ {0}
    BY <1>1, NameItem
  <2> HIDE DEF n
  <2> QED
    BY <2>1
<1>3. /\ outcome = "running" /\ todo # <<>> /\ w.do = "name" /\ Item = w.at
      /\ stack' = [stack EXCEPT ![1].name = Item] /\ todo' = Tail(todo) /\ UNCHANGED outcome
  BY <1>1, <1>2 DEF VisitArgName, Running, Item
<1>4. Len(stack') = n /\ \A i \in 1 .. n : stack'[i] = IF i = 1 THEN o ELSE stack[i]
  <2>1. stack' = [i \in 1 .. n |-> IF i = 1 THEN o ELSE stack[i]]
    BY <1>2, <1>3
  <2> HIDE DEF o, n
  <2> QED
    BY <1>2, <2>1
<1>5. /\ IsOutline(p) /\ Size(p) = n /\ \A i \in 1 .. n : Spot(p, i) = Seen(stack[n + 1 - i])
  BY <1>2, OutlineFields
<1>6. /\ IsOutline(q) /\ Size(q) = n /\ \A i \in 1 .. n : Spot(q, i) = Seen(stack'[n + 1 - i])
  BY <1>2, <1>4, OutlineFields
<1>7. Seen(o) = x
  <2>1. n + 1 - n = 1 /\ n \in 1 .. n
    BY <1>2
  <2>2. Spot(p, n) = Seen(stack[1])
    BY <1>5, <2>1
  <2>3. IsObj(stack[1], store, mode)
    BY <1>2, <2>1 DEF IInv, Typed, Objects
  <2>4. o.name = Item /\ o.kind = stack[1].kind /\ o.of = stack[1].of /\ o.str = stack[1].str
    BY <2>3 DEF IsObj
  <2> HIDE DEF o
  <2> QED
    BY <1>3, <2>2, <2>4 DEF Seen
<1> HIDE DEF p, q, n, k, o, x
<1>8. /\ IsOutline(r) /\ Size(r) = k + 1 /\ Spot(r, k + 1) = x
      /\ \A i \in 1 .. k : Spot(r, i) = Spot(p, i)
  BY <1>2, PutFields
<1> HIDE DEF r
<1>9. ASSUME NEW i \in 1 .. n  PROVE Spot(q, i) = Spot(r, i)
  <2>1. CASE i = n
    <3>1. n + 1 - i = 1 /\ 1 \in 1 .. n
      BY <1>2, <2>1
    <3> QED
      BY <1>2, <1>4, <1>6, <1>7, <1>8, <2>1, <3>1
  <2>2. CASE i # n
    <3> DEFINE j == n + 1 - i
    <3>1. j \in 1 .. n /\ j # 1 /\ i \in 1 .. k
      BY <1>2, <2>2
    <3>2. Spot(q, i) = Seen(stack'[j]) /\ Spot(p, i) = Seen(stack[j])
      BY <1>5, <1>6
    <3> HIDE DEF j
    <3> QED
      BY <1>4, <1>8, <3>1, <3>2
  <2> QED
    BY <2>1, <2>2
<1>10. q = r
  BY <1>2, <1>6, <1>8, <1>9, SameOutline
<1>11. Leaves(w, p) = r /\ Right(w, p)
  BY <1>3, <1>5 DEF Leaves, Right, r, x, k
<1> QED
  BY <1>1, <1>3, <1>10, <1>11, Returns DEF p, q

LEMMA FinishForetells ==
  ASSUME IInv, Foretold, Finish
  PROVE  Foretold'
<1>1. outcome = "running" /\ todo = <<>> /\ UNCHANGED <<input, stack>>
  BY DEF Finish
<1>2. outcome' = "done"
  <2>1. IInv'
    BY FinishPreserves
  <2> QED
    BY <2>1 DEF Finish, IInv, Typed, InputErrors
<1>3. PICK b \in BOOLEAN : (b <=> TreeRight(tree)) /\ Runs(<<>>, Outline(stack), Foreseen, b)
  BY <1>1 DEF Foretold
<1>4. TreeRight(tree) /\ Outline(stack) = Foreseen
  BY <1>3, NothingRan
<1>5. Len(stack) = 1
  BY <1>1, <1>2 DEF Finish
<1>6. Spot(Outline(stack), 1) = Seen(stack[1])
  <2>1. Len(stack) \in Nat /\ 1 \in 1 .. Len(stack) /\ Len(stack) + 1 - 1 = 1
    BY <1>5
  <2> QED
    BY <2>1, OutlineFields
<1>7. Spot(Foreseen, 1) = NodeSeen(tree)
  <2> DEFINE x == NodeSeen(tree)
             p == Outline(<<>>)
  <2> HIDE DEF x, p
  <2>1. Spot(Put(p, 0, x), 0 + 1) = x
    BY PutFields
  <2> QED
    BY <2>1 DEF Foreseen, x, p
<1>8. stack[1].of = tree.name
  BY <1>4, <1>6, <1>7 DEF Seen, NodeSeen
<1>9. TreeRight(tree)' /\ stack'[1].of = tree'.name
  BY <1>1, <1>4, <1>8, TreeStays DEF input
<1>10. ~(outcome' \in InputErrors)
  BY <1>2 DEF InputErrors
<1> QED
  BY <1>2, <1>9, <1>10 DEF Foretold, OutcomeIsTyping, TreeRight

-----------------------------------------------------------------------------
(* The arguments of the makers, in the outline of the stack.               *)
LEMMA SpotIsArg ==
  ASSUME Len(stack) \in Nat, NEW n \in Nat, n <= Len(stack), NEW i \in 1 .. n
  PROVE  Spot(Outline(stack), Size(Outline(stack)) - n + i) = Seen(NthArg(n, i))
<1> DEFINE l == Len(stack)
           k == l - n + i
           p == Outline(stack)
<1>1. k \in 1 .. l /\ l + 1 - k = (n - i) + 1
  <2> HIDE DEF l
  <2> QED
    BY DEF l
<1>2. Size(p) = l /\ \A j \in 1 .. l : Spot(p, j) = Seen(stack[l + 1 - j])
  BY OutlineFields
<1> HIDE DEF k, p, l
<1>3. Spot(p, k) = Seen(stack[(n - i) + 1])
  BY <1>1, <1>2
<1> QED
  BY <1>2, <1>3 DEF NthArg, Arg, k, p

LEMMA SeenCasts ==
  ASSUME NEW o, NEW param
  PROVE  /\ Seen(o).name = o.name /\ Seen(o).str = o.str
         /\ TypeCast(param, Seen(o)) <=> TypeCast(param, o)
BY DEF Seen, TypeCast

(* The checks of a call find nothing wrong where nothing is.               *)
LEMMA NodeChecked ==
  ASSUME NEW t \in Trees, NumArgs(t.args) <= Len(stack), Len(stack) \in Nat
  PROVE  NodeRight(t, Outline(stack)) <=>
           /\ t.name \in Classes /\ NodeArgsError(t) = "none"
           /\ mode = "node" => ValuesRight(t.name)
<1> DEFINE class == t.name
           narg == NArg(class)
           fields == Types[class].fields
           p == Outline(stack)
<1>1. NodeRight(t, p) => class \in Classes
  BY DEF NodeRight
<1> SUFFICES ASSUME class \in Classes
             PROVE  NodeRight(t, p) <=> /\ NodeArgsError(t) = "none"
                                        /\ mode = "node" => ValuesRight(class)
  BY <1>1
<1>2. /\ narg \in Nat /\ DOMAIN Makers[class] = 1 .. narg
      /\ \A i \in 1 .. narg : /\ Makers[class][i].is = fields[i].is
                              /\ fields[i].is = "val" => Makers[class][i].of = fields[i].of
  BY ClassFields, MakersAgree
<1>3. NodeArgsError(t) = "none" <=>
        /\ narg = NumArgs(t.args)
        /\ \A i \in 1 .. narg : /\ t.args.is = "ListArgs" => NthArg(narg, i).name = fields[i].name
                                /\ TypeCast(fields[i], NthArg(narg, i))
  BY CheckNodeArgs
<1>4. ValuesRight(class) <=>
        \A i \in 1 .. narg : fields[i].is = "val" => NthArg(narg, i).str \in ValueStrs[fields[i].of]
  BY <1>2 DEF ValuesRight
<1>5. NodeRight(t, p) <=>
        /\ narg = NumArgs(t.args)
        /\ \A i \in 1 .. narg :
             /\ t.args.is = "ListArgs" => Spot(p, Size(p) - narg + i).name = fields[i].name
             /\ ArgRight(fields[i], Spot(p, Size(p) - narg + i))
  BY DEF NodeRight
<1>6. ASSUME narg = NumArgs(t.args), NEW i \in 1 .. narg
      PROVE  LET o == Spot(p, Size(p) - narg + i)
             IN  /\ o.name = NthArg(narg, i).name
                 /\ ArgRight(fields[i], o) <=>
                      /\ TypeCast(fields[i], NthArg(narg, i))
                      /\ mode = "node" /\ fields[i].is = "val" =>
                           NthArg(narg, i).str \in ValueStrs[fields[i].of]
  <2> DEFINE o == NthArg(narg, i)
  <2>1. narg <= Len(stack)
    BY <1>6
  <2>2. Spot(p, Size(p) - narg + i) = Seen(o)
    <3> HIDE DEF narg
    <3> QED
      BY <1>2, <2>1, SpotIsArg
  <2> HIDE DEF o, narg, p, fields
  <2> QED
    BY <2>2, SeenCasts DEF ArgRight, o
<1> HIDE DEF narg, fields, p
<1>7. CASE narg = NumArgs(t.args)
  BY <1>3, <1>4, <1>5, <1>6, <1>7
<1>8. CASE narg # NumArgs(t.args)
  BY <1>3, <1>5, <1>8
<1> QED
  BY <1>7, <1>8 DEF p

LEMMA ListChecked ==
  ASSUME NEW l, Len(l.elems) \in Nat, Len(l.elems) <= Len(stack), Len(stack) \in Nat
  PROVE  ListRight(l, Outline(stack)) <=> l.base \in Classes /\ ListArgsError(l) = "none"
<1> DEFINE n == Len(l.elems)
           p == Outline(stack)
<1>1. ASSUME NEW i \in 1 .. n
      PROVE  TypeCast(NodeParam(l.base), Spot(p, Size(p) - n + i))
             <=> TypeCast(NodeParam(l.base), NthArg(n, i))
  <2>1. Spot(p, Size(p) - n + i) = Seen(NthArg(n, i))
    <3> HIDE DEF n
    <3> QED
      BY SpotIsArg DEF n
  <2> HIDE DEF n, p
  <2> QED
    BY <2>1, SeenCasts
<1>2. ListArgsError(l) = "none" <=> \A i \in 1 .. n : TypeCast(NodeParam(l.base), NthArg(n, i))
  BY CheckListArgs
<1> QED
  BY <1>1, <1>2 DEF ListRight

(* The object that a call makes takes the place of its arguments.          *)
LEMMA OutlinePopped ==
  ASSUME IInv, outcome = "running", NEW n \in Nat, n <= Len(stack), NEW o
  PROVE  Outline(<<o>> \o Popped(n)) = Put(Outline(stack), Size(Outline(stack)) - n, Seen(o))
<1>1. /\ Objects(stack, store, mode) /\ narg_error = FALSE
      /\ IsSequence(stack) /\ Len(stack) \in Nat
  BY SequenceFacts DEF IInv, Typed, Objects
<1> DEFINE rest == Popped(n)
<1>2. /\ IsSequence(rest) /\ Len(rest) = Len(stack) - n
      /\ \A i \in 1 .. Len(rest) : rest[i] = stack[n + i]
  BY <1>1, PoppedObjects DEF Objects
<1>3. Size(Outline(stack)) = Len(stack)
  BY <1>1, OutlineFields
<1> HIDE DEF rest
<1>4. Outline(<<o>> \o rest) = Put(Outline(stack), Len(stack) - n, Seen(o))
  BY <1>1, <1>2, OutlinePut
<1> QED
  BY <1>3, <1>4 DEF rest

LEMMA DoMakeNodeForetells ==
  ASSUME IInv, Foretold, DoMakeNode
  PROVE  Foretold'
<1> DEFINE w == Head(todo)
           p == Outline(stack)
           class == Item.name
           narg == NArg(class)
<1>1. Running("node") /\ UNCHANGED input
  BY DEF DoMakeNode
<1>2. /\ outcome = "running" /\ todo # <<>> /\ w.do = "node" /\ Item = w.at /\ Item \in Trees
      /\ NumArgs(Item.args) <= Len(stack) /\ Len(stack) \in Nat
  BY <1>1, NodeItem DEF Running, Item
<1>3. Right(w, p) <=> /\ class \in Classes /\ NodeArgsError(Item) = "none"
                      /\ mode = "node" => ValuesRight(class)
  <2>1. Right(w, p) <=> NodeRight(Item, p)
    BY <1>2 DEF Right
  <2> QED
    BY <1>2, <2>1, NodeChecked
<1>4. CASE \E error \in InputErrors \cup StackErrors : MakeNodeFails(error) /\ Fail(error)
  <2>1. PICK error : MakeNodeFails(error) /\ outcome' = error
    BY <1>4 DEF Fail
  <2>2. error \in InputErrors
    BY <1>1, <1>2, <2>1, MakeNodeFailsRightly
  <2>3. error = "alloc" \/ ~Right(w, p)
    BY <1>3, <2>1 DEF MakeNodeFails
  <2> QED
    BY <1>1, <1>2, <2>1, <2>2, <2>3, Throws
<1>5. ASSUME NEW o, PopArgsAndPush(narg, o), Seen(o) = NodeSeen(Item),
             class \in Classes, NodeArgsError(Item) = "none", mode = "node" => ValuesRight(class)
      PROVE  Foretold'
  <2>1. stack' = <<o>> \o Popped(narg) /\ todo' = Tail(todo) /\ UNCHANGED outcome
    BY <1>5 DEF PopArgsAndPush
  <2>2. narg = NumArgs(Item.args) /\ narg \in Nat
    BY <1>2, <1>5, CheckNodeArgs, ClassFacts
  <2>3. Outline(<<o>> \o Popped(narg)) = Put(p, Size(p) - narg, Seen(o))
    <3> HIDE DEF narg
    <3> QED
      BY <1>2, <2>2, OutlinePopped
  <2>4. Leaves(w, p) = Put(p, Size(p) - NumArgs(Item.args), NodeSeen(Item))
    BY <1>2 DEF Leaves
  <2>5. Outline(stack') = Leaves(w, p)
    BY <1>5, <2>1, <2>2, <2>3, <2>4
  <2> QED
    BY <1>1, <1>2, <1>3, <1>5, <2>1, <2>5, Returns
<1>6. \A nodes : Seen(Obj("node", class, nodes, Null)) = NodeSeen(Item)
  BY DEF Seen, Obj, NodeSeen
<1>7. CASE /\ class \in Classes
           /\ NodeArgsError(Item) = "none"
           /\ mode = "type"
           /\ PopArgsAndPush(narg, Obj("node", class, <<>>, Null))
  BY <1>5, <1>6, <1>7
<1>8. CASE /\ class \in Classes
           /\ NodeArgsError(Item) = "none"
           /\ mode = "node"
           /\ ValuesRight(class)
           /\ PopArgsAndPush(narg, Obj("node", class, <<Len(store')>>, Null))
  BY <1>5, <1>6, <1>8
<1> QED
  BY <1>4, <1>7, <1>8 DEF DoMakeNode

LEMMA DoMakeListForetells ==
  ASSUME IInv, Foretold, DoMakeList
  PROVE  Foretold'
<1> DEFINE w == Head(todo)
           p == Outline(stack)
           n == Len(Item.elems)
           places == [i \in 1 .. n |-> IF mode = "node" THEN Head(NthArg(n, i).nodes) ELSE 0]
           o == Obj("list", Item.base, places, Null)
<1>1. Running("list") /\ UNCHANGED input
  BY DEF DoMakeList
<1>2. /\ outcome = "running" /\ todo # <<>> /\ w.do = "list" /\ Item = w.at
      /\ n \in Nat /\ n <= Len(stack) /\ Len(stack) \in Nat
  BY <1>1, ListItem DEF Running, Item
<1>3. Right(w, p) <=> Item.base \in Classes /\ ListArgsError(Item) = "none"
  <2>1. Right(w, p) <=> ListRight(Item, p)
    BY <1>2 DEF Right
  <2> QED
    BY <1>2, <2>1, ListChecked
<1>4. CASE \E error \in InputErrors \cup StackErrors : MakeListFails(error) /\ Fail(error)
  <2>1. PICK error : MakeListFails(error) /\ outcome' = error
    BY <1>4 DEF Fail
  <2>2. error \in InputErrors
    BY <1>2, <2>1, MakeListFailsRightly
  <2>3. error = "alloc" \/ ~Right(w, p)
    BY <1>3, <2>1 DEF MakeListFails
  <2> QED
    BY <1>1, <1>2, <2>1, <2>2, <2>3, Throws
<1>5. CASE /\ Item.base \in Classes
           /\ ListArgsError(Item) = "none"
           /\ PopArgsAndPush(n, o)
  <2>1. stack' = <<o>> \o Popped(n) /\ todo' = Tail(todo) /\ UNCHANGED outcome
    BY <1>5 DEF PopArgsAndPush
  <2>2. Seen(o) = ListSeen(Item)
    BY DEF Seen, Obj, ListSeen
  <2> HIDE DEF o
  <2>3. Outline(<<o>> \o Popped(n)) = Put(p, Size(p) - n, Seen(o))
    <3> HIDE DEF n
    <3> QED
      BY <1>2, OutlinePopped
  <2>4. Leaves(w, p) = Put(p, Size(p) - n, ListSeen(Item))
    BY <1>2 DEF Leaves
  <2>5. Outline(stack') = Leaves(w, p)
    BY <2>1, <2>2, <2>3, <2>4
  <2> QED
    BY <1>1, <1>2, <1>3, <1>5, <2>1, <2>5, Returns
<1> QED
  BY <1>4, <1>5 DEF DoMakeList

-----------------------------------------------------------------------------
LEMMA InitForetells ==
  ASSUME Init
  PROVE  Foretold
<1> DEFINE x == [is |-> "Tree", root |-> tree]
           p == Outline(<<>>)
           y == NodeSeen(tree)
<1>1. todo = <<Visit(x)>> /\ stack = <<>> /\ outcome = "running"
  BY DEF Init
<1>2. PICK b \in BOOLEAN : b <=> TreeRight(tree)
  OBVIOUS
<1>3. x.is = "Tree" /\ PartSeen(x) = y /\ (PartRight(x) <=> TreeRight(tree))
  BY DEF PartSeen, PartRight
<1>4. IsOutline(p) /\ Size(p) = 0
  BY OutlineFields, NothingIsSequence
<1> HIDE DEF x, p, y
<1>5. IsOutline(Put(p, 0, y))
  BY PutFields
<1>6. Does(Visit(x), p, Put(p, 0, y), b)
  BY <1>2, <1>3, <1>4, <1>5, VisitIs DEF Does
<1>7. Runs(todo, Outline(stack), Foreseen, b)
  BY <1>1, <1>6, OneRuns DEF Foreseen, p, y
<1>8. OutcomeIsTyping
  BY <1>1 DEF OutcomeIsTyping, InputErrors
<1> QED
  BY <1>2, <1>7, <1>8 DEF Foretold

LEMMA NextForetells ==
  ASSUME IInv, Foretold, [Next]_vars
  PROVE  Foretold'
<1>1. CASE UNCHANGED vars
  <2>1. UNCHANGED <<input, todo, stack, outcome>>
    BY <1>1 DEF vars
  <2>2. CASE outcome = "running"
    <3>1. PICK b \in BOOLEAN : (b <=> TreeRight(tree)) /\ Runs(todo, Outline(stack), Foreseen, b)
      BY <2>2 DEF Foretold
    <3>2. Runs(todo', Outline(stack'), Foreseen, b)
      BY <2>1, <3>1
    <3> QED
      BY <2>1, <2>2, <3>1, <3>2, GoesOn
  <2>3. CASE outcome # "running"
    <3>1. OutcomeIsTyping'
      BY <2>1, TreeStays DEF Foretold, OutcomeIsTyping, TreeRight, input
    <3> QED
      BY <2>1, <2>3, <3>1 DEF Foretold
  <2> QED
    BY <2>2, <2>3
<1> QED
  BY <1>1, ExpandForetells, VisitElemForetells, VisitLiteralForetells, VisitArgNameForetells,
     DoMakeNodeForetells, DoMakeListForetells, FinishForetells DEF Next

(* With every library whose tables agree, and on every tree, the evaluator *)
(* decides what it is to decide: it returns an object, of the class of the *)
(* root, when the tree is well typed as C++, and throws (but for want of   *)
(* memory) only when it is not.                                            *)
THEOREM EvaluatorDecides == Spec => []OutcomeIsTyping
<1>1. Init => Foretold
  BY InitForetells
<1>2. IInv /\ Foretold /\ [Next]_vars => Foretold'
  BY NextForetells
<1>3. Foretold => OutcomeIsTyping
  BY DEF Foretold
<1> QED
  BY <1>1, <1>2, <1>3, Invariance, PTL DEF Spec

-----------------------------------------------------------------------------
(* How the makers find the classes (ClassTable), for all tables and names. *)

(* The cache is an entry of the table; while a name is searched for, it can*)
(* only be among the entries from first on, if the table is sorted.        *)
Basics ==
  /\ new_funcs \in Tables
  /\ cache \in Nat /\ cache <= Len(new_funcs)
  /\ first \in Nat /\ first >= 1 /\ len \in Nat /\ first + len - 1 <= Len(new_funcs)
  /\ phase # "idle" => name \in Names
  /\ phase = "found" => cache # 0 /\ new_funcs[cache] = name

Narrowed ==
  phase \in {"search", "unknown"} =>
    \A i \in DOMAIN new_funcs :
      /\ i < first => Before(new_funcs[i], name)
      /\ i >= first + len => Before(name, new_funcs[i])

NoneLeft == phase = "unknown" => len = 0

LEMMA TableNames ==
  ASSUME new_funcs \in Tables
  PROVE  /\ Len(new_funcs) \in Nat /\ DOMAIN new_funcs = 1 .. Len(new_funcs)
         /\ \A i \in DOMAIN new_funcs : new_funcs[i] \in AllNames
         /\ Names \subseteq AllNames
<1>1. new_funcs \in Seq(AllNames)
  BY TableAssumption
<1>2. /\ Len(new_funcs) \in Nat /\ DOMAIN new_funcs = 1 .. Len(new_funcs)
      /\ \A i \in DOMAIN new_funcs : new_funcs[i] \in AllNames
  BY <1>1
<1>3. Names \subseteq AllNames
  BY <1>2 DEF Names, AllNames
<1> QED
  BY <1>2, <1>3

(* Half of a number of entries is less than it.                            *)
LEMMA HalfIsLess ==
  ASSUME NEW n \in Nat, n > 0
  PROVE  n \div 2 \in Nat /\ n \div 2 < n
OBVIOUS

LEMMA FindInitially ==
  ASSUME FindInit  PROVE Basics /\ Narrowed /\ NoneLeft
<1>1. new_funcs \in Tables /\ cache = 0 /\ first = 1 /\ len = 0 /\ phase = "idle"
  BY DEF FindInit
<1>2. Len(new_funcs) \in Nat
  BY <1>1, TableNames
<1> QED
  BY <1>1, <1>2 DEF Basics, Narrowed, NoneLeft

(* What is found is what was looked for: strcmp tells other names apart.   *)
LEMMA BasicsStep ==
  ASSUME Basics, [FindNext]_findVars  PROVE Basics'
<1>1. /\ new_funcs \in Tables /\ Len(new_funcs) \in Nat
      /\ DOMAIN new_funcs = 1 .. Len(new_funcs)
      /\ \A i \in DOMAIN new_funcs : new_funcs[i] \in AllNames
      /\ Names \subseteq AllNames
  BY TableNames DEF Basics
<1>2. ASSUME NEW n \in Names, Find(n)  PROVE Basics'
  <2>1. /\ UNCHANGED <<new_funcs, cache>> /\ name' = n /\ phase' \in {"found", "search"}
        /\ phase' = "found" => Cached(n) /\ UNCHANGED <<first, len>>
        /\ phase' = "search" => first' = 1 /\ len' = Len(new_funcs)
    BY <1>2 DEF Find
  <2>2. Names' = Names
    BY <2>1 DEF Names
  <2>3. CASE phase' = "found"
    <3>1. cache # 0 /\ new_funcs[cache] = n
      BY <2>1, <2>3 DEF Cached
    <3> QED
      BY <1>2, <2>1, <2>2, <2>3, <3>1 DEF Basics
  <2>4. CASE phase' = "search"
    <3>1. 1 + Len(new_funcs) - 1 <= Len(new_funcs)
      BY <1>1
    <3> QED
      BY <1>1, <1>2, <2>1, <2>2, <2>4, <3>1 DEF Basics
  <2> QED
    BY <2>1, <2>3, <2>4
<1>3. CASE Bisect
  <2> DEFINE half == len \div 2
             mid == first + half
  <2>1. /\ phase = "search" /\ len > 0 /\ UNCHANGED <<new_funcs, name>>
    BY <1>3 DEF Bisect
  <2>2. /\ first \in Nat /\ len \in Nat /\ first >= 1
        /\ first + len - 1 <= Len(new_funcs) /\ name \in Names
        /\ cache \in Nat /\ cache <= Len(new_funcs)
    BY <2>1 DEF Basics
  <2>3. half \in Nat /\ half < len
    BY <2>1, <2>2, HalfIsLess
  <2> HIDE DEF half
  <2>4. mid \in 1 .. Len(new_funcs) /\ mid \in Nat
    BY <1>1, <2>2, <2>3
  <2>5. \/ /\ first' = mid + 1 /\ len' = len - half - 1
           /\ UNCHANGED <<cache, phase>>
        \/ /\ len' = half
           /\ UNCHANGED <<first, cache, phase>>
        \/ /\ ~Before(new_funcs[mid], name) /\ ~Before(name, new_funcs[mid])
           /\ cache' = mid /\ phase' = "found"
           /\ UNCHANGED <<first, len>>
    BY <1>3 DEF Bisect, half
  <2>6. Names' = Names
    BY <2>1 DEF Names
  <2>7. CASE phase' = "found"
    <3>1. ~Before(new_funcs[mid], name) /\ ~Before(name, new_funcs[mid]) /\ cache' = mid
          /\ UNCHANGED <<first, len>>
      BY <2>1, <2>5, <2>7
    <3>2. new_funcs[mid] \in AllNames /\ name \in AllNames
      BY <1>1, <2>2, <2>4
    <3>3. new_funcs[mid] = name
      BY <3>1, <3>2, StrcmpAssumption
    <3>4. mid # 0 /\ mid <= Len(new_funcs)
      BY <1>1, <2>4
    <3> HIDE DEF mid
    <3> QED
      BY <1>1, <2>1, <2>2, <2>4, <2>6, <2>7, <3>1, <3>3, <3>4 DEF Basics
  <2>8. CASE phase' # "found"
    <3>1. UNCHANGED <<cache, phase>>
      BY <2>5, <2>8
    <3>2. /\ first' \in Nat /\ first' >= 1 /\ len' \in Nat
          /\ first' + len' - 1 <= Len(new_funcs)
      BY <2>2, <2>3, <2>5, <2>8, <1>1
    <3> QED
      BY <1>1, <2>1, <2>2, <2>6, <3>1, <3>2 DEF Basics
  <2> QED
    BY <2>7, <2>8
<1>4. CASE Unknown
  BY <1>4 DEF Unknown, Basics, Names
<1>5. CASE UNCHANGED findVars
  BY <1>5 DEF findVars, Basics, Names
<1> QED
  BY <1>2, <1>3, <1>4, <1>5 DEF FindNext

(* Bisection leaves out what cannot be the name, if the table is sorted.   *)
LEMMA NarrowedStep ==
  ASSUME Basics, Narrowed, NoneLeft, Sorted(new_funcs), [FindNext]_findVars
  PROVE  Narrowed' /\ NoneLeft'
<1>1. /\ new_funcs \in Tables /\ Len(new_funcs) \in Nat
      /\ DOMAIN new_funcs = 1 .. Len(new_funcs)
      /\ \A i \in DOMAIN new_funcs : new_funcs[i] \in AllNames
      /\ Names \subseteq AllNames
  BY TableNames DEF Basics
<1>2. ASSUME NEW n \in Names, Find(n)  PROVE Narrowed' /\ NoneLeft'
  <2>1. /\ UNCHANGED new_funcs /\ phase' \in {"found", "search"}
        /\ phase' = "search" => first' = 1 /\ len' = Len(new_funcs)
    BY <1>2 DEF Find
  <2>2. \A i \in 1 .. Len(new_funcs) : ~(i < 1) /\ ~(i >= 1 + Len(new_funcs))
    BY <1>1
  <2> QED
    BY <1>1, <2>1, <2>2 DEF Narrowed, NoneLeft
<1>3. CASE Bisect
  <2> DEFINE half == len \div 2
             mid == first + half
  <2>1. /\ phase = "search" /\ len > 0 /\ UNCHANGED <<new_funcs, name>>
    BY <1>3 DEF Bisect
  <2>2. /\ first \in Nat /\ len \in Nat /\ first >= 1
        /\ first + len - 1 <= Len(new_funcs) /\ name \in AllNames
    BY <1>1, <2>1 DEF Basics
  <2>3. half \in Nat /\ half < len
    BY <2>1, <2>2, HalfIsLess
  <2> HIDE DEF half
  <2>4. mid \in DOMAIN new_funcs /\ mid \in Nat /\ new_funcs[mid] \in AllNames
    BY <1>1, <2>2, <2>3
  <2>5. \A i \in DOMAIN new_funcs :
          /\ i < first => Before(new_funcs[i], name)
          /\ i >= first + len => Before(name, new_funcs[i])
    BY <2>1 DEF Narrowed
  <2>6. CASE Before(new_funcs[mid], name) /\ first' = mid + 1 /\ len' = len - half - 1
             /\ UNCHANGED <<cache, phase>>
    <3>1. ASSUME NEW i \in DOMAIN new_funcs
          PROVE  /\ i < first' => Before(new_funcs[i], name)
                 /\ i >= first' + len' => Before(name, new_funcs[i])
      <4>1. i \in Nat /\ first' + len' = first + len
        BY <1>1, <2>2, <2>3, <2>6
      <4>2. i >= first' + len' => Before(name, new_funcs[i])
        BY <2>5, <4>1
      <4>3. ASSUME i < first'  PROVE Before(new_funcs[i], name)
        <5>1. i < mid \/ i = mid
          BY <2>4, <2>6, <4>1, <4>3
        <5>2. CASE i < mid
          <6>1. Before(new_funcs[i], new_funcs[mid])
            BY <2>4, <5>2 DEF Sorted
          <6>2. new_funcs[i] \in AllNames
            BY <1>1
          <6> QED
            BY <2>2, <2>4, <2>6, <6>1, <6>2, StrcmpAssumption
        <5> QED
          BY <2>6, <5>1, <5>2
      <4> QED
        BY <4>2, <4>3
    <3> QED
      BY <2>1, <2>6, <3>1 DEF Narrowed, NoneLeft
  <2>7. CASE Before(name, new_funcs[mid]) /\ len' = half /\ UNCHANGED <<first, cache, phase>>
    <3>1. ASSUME NEW i \in DOMAIN new_funcs
          PROVE  /\ i < first' => Before(new_funcs[i], name)
                 /\ i >= first' + len' => Before(name, new_funcs[i])
      <4>1. i \in Nat /\ first' + len' = mid
        BY <1>1, <2>2, <2>3, <2>7
      <4>2. i < first' => Before(new_funcs[i], name)
        BY <2>5, <2>7
      <4>3. ASSUME i >= first' + len'  PROVE Before(name, new_funcs[i])
        <5>1. mid < i \/ i = mid
          BY <2>4, <4>1, <4>3
        <5>2. CASE mid < i
          <6>1. Before(new_funcs[mid], new_funcs[i])
            BY <2>4, <5>2 DEF Sorted
          <6>2. new_funcs[i] \in AllNames
            BY <1>1
          <6> QED
            BY <2>2, <2>4, <2>7, <6>1, <6>2, StrcmpAssumption
        <5> QED
          BY <2>7, <5>1, <5>2
      <4> QED
        BY <4>2, <4>3
    <3> QED
      BY <2>1, <2>7, <3>1 DEF Narrowed, NoneLeft
  <2>8. CASE phase' = "found"
    BY <2>8 DEF Narrowed, NoneLeft
  <2> QED
    BY <1>3, <2>6, <2>7, <2>8 DEF Bisect, half
<1>4. CASE Unknown
  BY <1>4 DEF Unknown, Narrowed, NoneLeft
<1>5. CASE UNCHANGED findVars
  BY <1>5 DEF findVars, Narrowed, NoneLeft
<1> QED
  BY <1>2, <1>3, <1>4, <1>5 DEF FindNext

-----------------------------------------------------------------------------
(* find gives the class that is named, after any calls before it and for   *)
(* any table, sorted or not.                                               *)
THEOREM NamedIsFound == FindSpec => []FoundIsNamed
<1>1. Basics => FoundIsNamed
  BY DEF Basics, FoundIsNamed
<1> QED
  BY <1>1, FindInitially, BasicsStep, PTL DEF FindSpec

(* In tables that are sorted, no name of the table is missed: the two turns*)
(* of the bisection drop entries that cannot be it, and no others.         *)
THEOREM NoneIsMissed ==
  ASSUME \A table \in Tables : Sorted(table)
  PROVE  FindSpec => []UnknownIsUnknown
<1> DEFINE FindInv == Basics /\ Narrowed /\ NoneLeft
<1>1. FindInit => FindInv
  BY FindInitially
<1>2. ASSUME FindInv, [FindNext]_findVars  PROVE FindInv'
  <2>1. Sorted(new_funcs)
    BY <1>2 DEF Basics
  <2> QED
    BY <1>2, <2>1, BasicsStep, NarrowedStep
<1>3. ASSUME FindInv  PROVE UnknownIsUnknown
  <2> SUFFICES ASSUME phase = "unknown", NEW i \in DOMAIN new_funcs
               PROVE  new_funcs[i] # name
    BY DEF UnknownIsUnknown
  <2>1. len = 0 /\ first \in Nat /\ name \in Names
    BY <1>3 DEF NoneLeft, Basics
  <2>2. /\ DOMAIN new_funcs = 1 .. Len(new_funcs) /\ new_funcs[i] \in AllNames
        /\ name \in AllNames
    BY <1>3, <2>1, TableNames DEF Basics
  <2>3. i < first \/ i >= first + len
    BY <2>1, <2>2
  <2>4. Before(new_funcs[i], name) \/ Before(name, new_funcs[i])
    BY <1>3, <2>3 DEF Narrowed
  <2> QED
    BY <2>2, <2>4, StrcmpAssumption
<1> HIDE DEF FindInv
<1> QED
  BY <1>1, <1>2, <1>3, PTL DEF FindSpec

(* In tables that are sorted, find decides what a search of the whole table*)
(* would, however many lookups came before.                                *)
THEOREM FindIsExact ==
  ASSUME \A table \in Tables : Sorted(table)
  PROVE  FindSpec => []FindDecides
<1>1. FoundIsNamed /\ UnknownIsUnknown => FindDecides
  BY DEF FindDecides
<1>2. FindSpec => []FoundIsNamed
  BY NamedIsFound
<1>3. FindSpec => []UnknownIsUnknown
  BY NoneIsMissed
<1> QED
  BY <1>1, <1>2, <1>3, PTL
=============================================================================
