---------------------------- MODULE ParserProofs ----------------------------
(***************************************************************************)
(* The parser on every input, of any length and nesting: its stacks fit    *)
(* each other, it never reads beyond the end, what it makes is a tree that *)
(* says all of the input and nothing else, and it accepts nothing but      *)
(* sentences of the grammar and refuses none.                              *)
(***************************************************************************)
EXTENDS ParserGrammar, SequenceTheorems, FiniteSetTheorems, WellFoundedInduction, TLAPS

-----------------------------------------------------------------------------
(* The items there are.                                                    *)
Symbols == {"tree", "tree_node", "node_name", "node_args", "node_arg", "arg_name",
            "arg_value", "list_elem", "literal"}

NeededTypes == Marks \cup {"ident", "name", "num", "str", "kw_list"}

Classes == {"Tree", "TreeNode", "NodeName", "NodeArg", "ArgName", "ListElem", "Literal",
            "ListArgs", "LiteralArgs", "NodeValue", "LiteralValue", "NodeList", "ListValue"}

Others == {"text", "index", "leave", "begin", "root", "finish"}

Item == [do : {"parse"}, arg : Symbols, n : {0}]
        \cup [do : {"need"}, arg : NeededTypes, n : {0}]
        \cup [do : {"new"}, arg : Classes, n : Nat]
        \cup [do : {"loop"}, arg : {"node_arg", "list_elem"}, n : Nat]
        \cup [do : Others, arg : {""}, n : {0}]

(* How many values an item takes, with all it puts in its place, and how   *)
(* many it leaves for them: a parse_<symbol> leaves one and takes none; a  *)
(* loop takes those of the turns made, and the name of the list, and leaves*)
(* one for them.                                                           *)
Uses(w) ==
  CASE w.do = "new"  -> w.n
    [] w.do = "loop" -> IF w.arg = "node_arg" THEN w.n ELSE w.n + 1
    [] w.do = "root" -> 1
    [] OTHER         -> 0

Makes(w) == IF w.do \in {"parse", "new", "loop", "text", "index"} THEN 1 ELSE 0

(* What the next item can know: how many values there are, and what was    *)
(* done last.                                                              *)
States == [n : Nat, last : {"start", "need", "tree", "root", "end", "other"}]

At(n, last) == [n |-> n, last |-> last]

After(w) ==
  CASE w.do = "need"   -> "need"
    [] w.do = "root"   -> "root"
    [] w.do = "finish" -> "end"
    [] w.do = "parse" /\ w.arg = "tree" -> "tree"
    [] w.do = "new" /\ w.arg = "Tree"   -> "tree"
    [] OTHER           -> "other"

(* The item w can be done at p, and leaves q: it finds its values; the text*)
(* taken is of the token just read; the root is the node just made; and the*)
(* parse begins and finishes once.                                         *)
Leads(w, p, q) ==
  /\ w \in Item /\ p \in States /\ q \in States
  /\ p.n >= Uses(w) /\ q.n = p.n - Uses(w) + Makes(w)
  /\ q.last = After(w)
  /\ w.do \in {"text", "index"} => p.last = "need"
  /\ w.do = "root" => p.last = "tree"
  /\ w.do = "finish" <=> p.last = "root"
  /\ w.do = "begin" <=> p.last = "start"
  /\ p.last # "end"

(* Items one after another, each of which leads from a state in S to one, as*)
(* the relation R says.                                                    *)
Step(R, w, p, q) == <<w, p, q>> \in R

Chained(R, S, s, p, q) ==
  /\ s \in Seq(Item)
  /\ \E d \in [1 .. Len(s) + 1 -> S] :
       /\ d[1] = p /\ d[Len(s) + 1] = q
       /\ \A i \in 1 .. Len(s) : Step(R, s[i], d[i], d[i + 1])

(* The same of the values and what was done last.                          *)
Leading == {x \in Item \X States \X States : Leads(x[1], x[2], x[3])}
Takes(s, p, q) == Chained(Leading, States, s, p, q)

-----------------------------------------------------------------------------
LEMMA ChainOfNone ==
  ASSUME NEW R, NEW S, NEW p \in S
  PROVE  Chained(R, S, <<>>, p, p)
<1> DEFINE d == [i \in 1 .. 1 |-> p]
<1>1. <<>> \in Seq(Item) /\ Len(<<>>) = 0
  OBVIOUS
<1>2. d \in [1 .. Len(<<>>) + 1 -> S] /\ d[1] = p /\ d[Len(<<>>) + 1] = p
  BY <1>1
<1>3. 1 .. Len(<<>>) = {}
  BY <1>1
<1> HIDE DEF d
<1> QED
  BY <1>1, <1>2, <1>3 DEF Chained

LEMMA ChainEnds ==
  ASSUME NEW R, NEW S, NEW s, NEW p, NEW q, Chained(R, S, s, p, q)
  PROVE  s \in Seq(Item) /\ p \in S /\ q \in S
<1>1. s \in Seq(Item) /\ 1 \in 1 .. Len(s) + 1 /\ Len(s) + 1 \in 1 .. Len(s) + 1
  BY LenProperties DEF Chained
<1> QED
  BY <1>1 DEF Chained

LEMMA ChainNone ==
  ASSUME NEW R, NEW S, NEW p, NEW q, Chained(R, S, <<>>, p, q)
  PROVE  p = q
BY DEF Chained

(* The first of the items, and the others after it.                        *)
LEMMA ChainFirst ==
  ASSUME NEW R, NEW S, NEW s, NEW p, NEW r, Chained(R, S, s, p, r), s # <<>>
  PROVE  \E q \in S : Step(R, Head(s), p, q) /\ Chained(R, S, Tail(s), q, r)
<1>1. s \in Seq(Item)
  BY DEF Chained
<1>2. PICK d \in [1 .. Len(s) + 1 -> S] :
       /\ d[1] = p /\ d[Len(s) + 1] = r
       /\ \A i \in 1 .. Len(s) : Step(R, s[i], d[i], d[i + 1])
  BY DEF Chained
<1>3. PICK n \in Nat : Len(s) = n + 1
  <2>1. Len(s) \in Nat \ {0}
    BY <1>1, EmptySeq
  <2>2. Len(s) - 1 \in Nat
    BY <2>1
  <2> QED
    BY <2>1, <2>2
<1>4. /\ Tail(s) \in Seq(Item) /\ Len(Tail(s)) = n
      /\ \A i \in 1 .. n : Tail(s)[i] = s[i + 1]
      /\ Head(s) = s[1]
  BY <1>1, <1>3, HeadTailProperties
<1> DEFINE e == [i \in 1 .. n + 1 |-> d[i + 1]]
<1>5. 1 \in 1 .. Len(s) /\ \A i \in 1 .. n + 1 : i + 1 \in 1 .. Len(s) + 1
  BY <1>3
<1>6. d[2] \in S /\ Step(R, Head(s), p, d[2])
  <2>1. Step(R, s[1], d[1], d[1 + 1])
    BY <1>2, <1>5
  <2>2. 2 \in 1 .. Len(s) + 1
    BY <1>3
  <2> QED
    BY <1>2, <1>4, <2>1, <2>2
<1>7. e \in [1 .. Len(Tail(s)) + 1 -> S]
  BY <1>4, <1>5
<1>8. e[1] = d[2] /\ e[Len(Tail(s)) + 1] = r
  <2>1. 1 \in 1 .. n + 1 /\ n + 1 \in 1 .. n + 1
    OBVIOUS
  <2> QED
    BY <1>2, <1>3, <1>4, <2>1
<1>9. \A i \in 1 .. n : Step(R, Tail(s)[i], e[i], e[i + 1])
  <2>1. ASSUME NEW i \in 1 .. n
        PROVE  Step(R, Tail(s)[i], e[i], e[i + 1])
    <3>1. i + 1 \in 1 .. Len(s) /\ i \in 1 .. n + 1 /\ i + 1 \in 1 .. n + 1
      BY <1>3
    <3>2. e[i] = d[i + 1] /\ e[i + 1] = d[i + 1 + 1] /\ Tail(s)[i] = s[i + 1]
      BY <1>4, <3>1
    <3> QED
      BY <1>2, <3>1, <3>2
  <2> QED
    BY <2>1
<1> HIDE DEF e
<1>10. Chained(R, S, Tail(s), d[2], r)
  BY <1>4, <1>7, <1>8, <1>9 DEF Chained
<1> QED
  BY <1>6, <1>10

LEMMA ChainBoth ==
  ASSUME NEW R, NEW S, NEW s, NEW t, NEW p, NEW q, NEW r, Chained(R, S, s, p, q), Chained(R, S, t, q, r)
  PROVE  Chained(R, S, s \o t, p, r)
<1>1. s \in Seq(Item) /\ t \in Seq(Item)
  BY DEF Chained
<1>2. PICK d \in [1 .. Len(s) + 1 -> S] :
       /\ d[1] = p /\ d[Len(s) + 1] = q
       /\ \A i \in 1 .. Len(s) : Step(R, s[i], d[i], d[i + 1])
  BY DEF Chained
<1>3. PICK e \in [1 .. Len(t) + 1 -> S] :
       /\ e[1] = q /\ e[Len(t) + 1] = r
       /\ \A i \in 1 .. Len(t) : Step(R, t[i], e[i], e[i + 1])
  BY DEF Chained
<1> DEFINE m == Len(s)
           n == Len(t)
           u == s \o t
           f == [i \in 1 .. m + n + 1 |-> IF i <= m THEN d[i] ELSE e[i - m]]
<1>4. m \in Nat /\ n \in Nat
  BY <1>1, LenProperties
<1>5. /\ u \in Seq(Item) /\ Len(u) = m + n
      /\ \A i \in 1 .. m + n : u[i] = IF i <= m THEN s[i] ELSE t[i - m]
  BY <1>1, ConcatProperties
<1> HIDE DEF m, n, u
<1>6. f \in [1 .. m + n + 1 -> S]
  <2>1. ASSUME NEW i \in 1 .. m + n + 1  PROVE (IF i <= m THEN d[i] ELSE e[i - m]) \in S
    <3>1. i <= m => i \in 1 .. Len(s) + 1
      BY <1>4 DEF m
    <3>2. ~(i <= m) => i - m \in 1 .. Len(t) + 1
      BY <1>4 DEF n
    <3> QED
      BY <3>1, <3>2
  <2> QED
    BY <2>1
<1>7. \A i \in 1 .. m + 1 : f[i] = d[i]
  <2>1. ASSUME NEW i \in 1 .. m + 1  PROVE f[i] = d[i]
    <3>1. CASE i <= m
      BY <1>4, <3>1
    <3>2. CASE ~(i <= m)
      <4>1. i = m + 1 /\ i - m = 1 /\ i \in 1 .. m + n + 1
        BY <1>4, <3>2
      <4> QED
        BY <1>2, <1>3, <3>2, <4>1 DEF m
    <3> QED
      BY <3>1, <3>2
  <2> QED
    BY <2>1
<1>8. \A i \in m + 1 .. m + n + 1 : f[i] = e[i - m]
  BY <1>4
<1> HIDE DEF f
<1>9. f[1] = p /\ f[Len(u) + 1] = r
  <2>1. 1 \in 1 .. m + 1 /\ m + n + 1 \in m + 1 .. m + n + 1 /\ m + n + 1 - m = n + 1
    BY <1>4
  <2>2. f[1] = d[1]
    BY <1>7, <2>1
  <2>3. f[m + n + 1] = e[n + 1]
    <3> DEFINE k == m + n + 1
    <3>1. k \in m + 1 .. m + n + 1 /\ k - m = n + 1
      BY <1>4, <2>1
    <3> HIDE DEF k
    <3>2. f[k] = e[k - m]
      BY <1>8, <3>1
    <3> QED
      BY <3>1, <3>2 DEF k
  <2> QED
    BY <1>2, <1>3, <1>5, <2>2, <2>3 DEF n
<1>10. ASSUME NEW i \in 1 .. Len(u)
       PROVE  Step(R, u[i], f[i], f[i + 1])
  <2>1. CASE i \in 1 .. m
    <3>1. u[i] = s[i] /\ f[i] = d[i] /\ f[i + 1] = d[i + 1]
      BY <1>4, <1>5, <1>7, <2>1
    <3> QED
      BY <1>2, <2>1, <3>1 DEF m
  <2>2. CASE i \in m + 1 .. m + n
    <3> DEFINE j == i - m
    <3>1. j \in 1 .. n /\ i + 1 - m = j + 1 /\ i \in m + 1 .. m + n + 1 /\ i + 1 \in m + 1 .. m + n + 1
      BY <1>4, <2>2
    <3>2. u[i] = t[j]
      BY <1>4, <1>5, <2>2
    <3>3. f[i] = e[j]
      BY <1>8, <3>1
    <3>4. f[i + 1] = e[j + 1]
      <4> DEFINE k == i + 1
      <4>1. k \in m + 1 .. m + n + 1 /\ k - m = j + 1
        BY <1>4, <2>2, <3>1
      <4> HIDE DEF k
      <4>2. f[k] = e[k - m]
        BY <1>8, <4>1
      <4> QED
        BY <4>1, <4>2 DEF k
    <3> HIDE DEF j
    <3> QED
      BY <1>3, <3>1, <3>2, <3>3, <3>4 DEF n
  <2> QED
    BY <1>4, <1>5, <2>1, <2>2
<1>11. Chained(R, S, u, p, r)
  BY <1>5, <1>6, <1>9, <1>10 DEF Chained
<1> QED
  BY <1>11 DEF u

LEMMA IsLeading ==
  ASSUME NEW w, NEW p, NEW q
  PROVE  Step(Leading, w, p, q) <=> Leads(w, p, q)
BY DEF Step, Leading, Leads

LEMMA NothingToDo ==
  ASSUME NEW p \in States
  PROVE  Takes(<<>>, p, p)
BY ChainOfNone DEF Takes

LEMMA TakesEnds ==
  ASSUME NEW s, NEW p, NEW q, Takes(s, p, q)
  PROVE  s \in Seq(Item) /\ p \in States /\ q \in States
BY ChainEnds DEF Takes

LEMMA NothingTaken ==
  ASSUME NEW p, NEW q, Takes(<<>>, p, q)
  PROVE  p = q
BY ChainNone DEF Takes

LEMMA TakesFirst ==
  ASSUME NEW s, NEW p, NEW r, Takes(s, p, r), s # <<>>
  PROVE  \E q \in States : Leads(Head(s), p, q) /\ Takes(Tail(s), q, r)
BY ChainFirst, IsLeading DEF Takes

LEMMA TakesBoth ==
  ASSUME NEW s, NEW t, NEW p, NEW q, NEW r, Takes(s, p, q), Takes(t, q, r)
  PROVE  Takes(s \o t, p, r)
BY ChainBoth DEF Takes

(* Items listed with the states between them.                              *)
LEMMA TakesEach ==
  ASSUME NEW s \in Seq(Item), NEW d \in Seq(States), Len(d) = Len(s) + 1,
         \A i \in 1 .. Len(s) : Leads(s[i], d[i], d[i + 1])
  PROVE  Takes(s, d[1], d[Len(s) + 1])
<1>1. d \in [1 .. Len(s) + 1 -> States]
  BY LenProperties
<1> QED
  BY <1>1, IsLeading DEF Takes, Chained

-----------------------------------------------------------------------------
(* What each item can follow, and what it leaves.                          *)
Amid == {"need", "tree", "other"}

LEMMA AtFields ==
  ASSUME NEW n \in Nat, NEW last \in {"start", "need", "tree", "root", "end", "other"}
  PROVE  At(n, last) \in States /\ At(n, last).n = n /\ At(n, last).last = last
BY DEF At, States

LEMMA StateFields ==
  ASSUME NEW p \in States
  PROVE  /\ p = At(p.n, p.last) /\ p.n \in Nat
         /\ p.last \in {"start", "need", "tree", "root", "end", "other"}
BY DEF At, States

LEMMA Simply ==
  ASSUME NEW w \in Item, NEW n \in Nat, NEW last \in Amid, n >= Uses(w), Uses(w) \in Nat,
         Makes(w) \in {0, 1}, After(w) \in Amid, w.do \notin {"root", "finish", "begin"},
         w.do \in {"text", "index"} => last = "need"
  PROVE  Leads(w, At(n, last), At(n - Uses(w) + Makes(w), After(w)))
<1>1. n - Uses(w) + Makes(w) \in Nat
  OBVIOUS
<1> QED
  BY <1>1, AtFields DEF Leads, Amid

LEMMA ParseItem ==
  ASSUME NEW sym \in Symbols
  PROVE  /\ Parse(sym) \in Item /\ Parse(sym).do = "parse" /\ Uses(Parse(sym)) = 0
         /\ Makes(Parse(sym)) = 1
         /\ After(Parse(sym)) = IF sym = "tree" THEN "tree" ELSE "other"
BY DEF Parse, Do, Item, Uses, Makes, After

LEMMA NeedItem ==
  ASSUME NEW type \in NeededTypes
  PROVE  /\ Need(type) \in Item /\ Need(type).do = "need" /\ Uses(Need(type)) = 0
         /\ Makes(Need(type)) = 0 /\ After(Need(type)) = "need"
BY DEF Need, Do, Item, Uses, Makes, After

LEMMA NewItem ==
  ASSUME NEW class \in Classes, NEW k \in Nat
  PROVE  /\ New(class, k) \in Item /\ New(class, k).do = "new" /\ Uses(New(class, k)) = k
         /\ Makes(New(class, k)) = 1
         /\ After(New(class, k)) = IF class = "Tree" THEN "tree" ELSE "other"
BY DEF New, Do, Item, Uses, Makes, After

LEMMA LoopItem ==
  ASSUME NEW sym \in {"node_arg", "list_elem"}, NEW n \in Nat
  PROVE  /\ Loop(sym, n) \in Item /\ Loop(sym, n).do = "loop"
         /\ Uses(Loop(sym, n)) = IF sym = "node_arg" THEN n ELSE n + 1
         /\ Makes(Loop(sym, n)) = 1 /\ After(Loop(sym, n)) = "other"
BY DEF Loop, Do, Item, Uses, Makes, After

LEMMA TextItem ==
  ASSUME NEW w \in {Text, Index}
  PROVE  /\ w \in Item /\ w.do \in {"text", "index"} /\ Uses(w) = 0 /\ Makes(w) = 1
         /\ After(w) = "other"
<1> USE DEF Do, Item, Others, Uses, Makes, After
<1>1. CASE w = Text
  BY <1>1 DEF Text
<1>2. CASE w = Index
  BY <1>2 DEF Index
<1> QED
  BY <1>1, <1>2

LEMMA LeaveItem ==
  /\ LeaveCtxt \in Item /\ LeaveCtxt.do = "leave" /\ Uses(LeaveCtxt) = 0
  /\ Makes(LeaveCtxt) = 0 /\ After(LeaveCtxt) = "other"
BY DEF LeaveCtxt, Do, Item, Others, Uses, Makes, After

LEMMA Items ==
  ASSUME NEW n \in Nat, NEW last \in Amid
  PROVE  /\ \A sym \in Symbols :
              Leads(Parse(sym), At(n, last), At(n + 1, IF sym = "tree" THEN "tree" ELSE "other"))
         /\ \A type \in NeededTypes : Leads(Need(type), At(n, last), At(n, "need"))
         /\ \A class \in Classes, k \in 0 .. n :
              Leads(New(class, k), At(n, last),
                    At(n - k + 1, IF class = "Tree" THEN "tree" ELSE "other"))
         /\ \A w \in {Text, Index} : Leads(w, At(n, "need"), At(n + 1, "other"))
         /\ Leads(LeaveCtxt, At(n, last), At(n, "other"))
<1>1. ASSUME NEW sym \in Symbols
      PROVE  Leads(Parse(sym), At(n, last), At(n + 1, IF sym = "tree" THEN "tree" ELSE "other"))
  <2> DEFINE w == Parse(sym)
  <2>1. /\ w \in Item /\ w.do = "parse" /\ Uses(w) = 0 /\ Makes(w) = 1
        /\ After(w) = IF sym = "tree" THEN "tree" ELSE "other"
    BY ParseItem
  <2>2. n - 0 + 1 = n + 1 /\ n >= 0
    OBVIOUS
  <2> HIDE DEF w
  <2>3. Leads(w, At(n, last), At(n - Uses(w) + Makes(w), After(w)))
    BY <2>1, <2>2, Simply DEF Amid
  <2> QED
    BY <2>1, <2>2, <2>3 DEF w
<1>2. ASSUME NEW type \in NeededTypes
      PROVE  Leads(Need(type), At(n, last), At(n, "need"))
  <2> DEFINE w == Need(type)
  <2>1. /\ w \in Item /\ w.do = "need" /\ Uses(w) = 0 /\ Makes(w) = 0 /\ After(w) = "need"
    BY NeedItem
  <2>2. n - 0 + 0 = n /\ n >= 0
    OBVIOUS
  <2> HIDE DEF w
  <2>3. Leads(w, At(n, last), At(n - Uses(w) + Makes(w), After(w)))
    BY <2>1, <2>2, Simply DEF Amid
  <2> QED
    BY <2>1, <2>2, <2>3 DEF w
<1>3. ASSUME NEW class \in Classes, NEW k \in 0 .. n
      PROVE  Leads(New(class, k), At(n, last),
                   At(n - k + 1, IF class = "Tree" THEN "tree" ELSE "other"))
  <2> DEFINE w == New(class, k)
  <2>1. /\ w \in Item /\ w.do = "new" /\ Uses(w) = k /\ Makes(w) = 1
        /\ After(w) = IF class = "Tree" THEN "tree" ELSE "other"
    BY NewItem
  <2> HIDE DEF w
  <2>2. n >= k /\ k \in Nat
    OBVIOUS
  <2>3. Leads(w, At(n, last), At(n - Uses(w) + Makes(w), After(w)))
    BY <2>1, <2>2, Simply DEF Amid
  <2> QED
    BY <2>1, <2>3 DEF w
<1>4. ASSUME NEW w \in {Text, Index}
      PROVE  Leads(w, At(n, "need"), At(n + 1, "other"))
  <2>1. w \in Item /\ w.do \in {"text", "index"} /\ Uses(w) = 0 /\ Makes(w) = 1 /\ After(w) = "other"
    BY TextItem
  <2>2. n - 0 + 1 = n + 1 /\ n >= 0
    OBVIOUS
  <2>3. Leads(w, At(n, "need"), At(n - Uses(w) + Makes(w), After(w)))
    BY <2>1, <2>2, Simply DEF Amid
  <2> QED
    BY <2>1, <2>2, <2>3
<1>5. Leads(LeaveCtxt, At(n, last), At(n, "other"))
  <2>1. n - 0 + 0 = n /\ n >= 0
    OBVIOUS
  <2>2. Leads(LeaveCtxt, At(n, last), At(n - Uses(LeaveCtxt) + Makes(LeaveCtxt), After(LeaveCtxt)))
    BY <2>1, LeaveItem, Simply DEF Amid
  <2> QED
    BY <2>1, <2>2, LeaveItem
<1> QED
  BY <1>1, <1>2, <1>3, <1>4, <1>5

LEMMA Loops ==
  ASSUME NEW m \in Nat, NEW n \in Nat, NEW last \in Amid
  PROVE  /\ Leads(Loop("node_arg", n), At(m + n, last), At(m + 1, "other"))
         /\ Leads(Loop("list_elem", n), At(m + n + 1, last), At(m + 1, "other"))
<1>1. Leads(Loop("node_arg", n), At(m + n, last), At(m + 1, "other"))
  <2> DEFINE w == Loop("node_arg", n)
             k == m + n
  <2>1. w \in Item /\ w.do = "loop" /\ Uses(w) = n /\ Makes(w) = 1 /\ After(w) = "other"
    BY LoopItem
  <2>2. k \in Nat /\ k >= n /\ k - n + 1 = m + 1
    OBVIOUS
  <2> HIDE DEF w, k
  <2>3. Leads(w, At(k, last), At(k - Uses(w) + Makes(w), After(w)))
    BY <2>1, <2>2, Simply DEF Amid
  <2> QED
    BY <2>1, <2>2, <2>3 DEF w, k
<1>2. Leads(Loop("list_elem", n), At(m + n + 1, last), At(m + 1, "other"))
  <2> DEFINE w == Loop("list_elem", n)
             k == m + n + 1
             j == n + 1
  <2>1. w \in Item /\ w.do = "loop" /\ Uses(w) = j /\ Makes(w) = 1 /\ After(w) = "other"
    BY LoopItem
  <2>2. k \in Nat /\ j \in Nat /\ k >= j /\ k - j + 1 = m + 1
    OBVIOUS
  <2> HIDE DEF w, k, j
  <2>3. Leads(w, At(k, last), At(k - Uses(w) + Makes(w), After(w)))
    BY <2>1, <2>2, Simply DEF Amid
  <2> QED
    BY <2>1, <2>2, <2>3 DEF w, k
<1> QED
  BY <1>1, <1>2
-----------------------------------------------------------------------------
(* What the functions put in their place leaves what the calls promise.    *)
LEMMA TreeBody ==
  ASSUME NEW n \in Nat, NEW last \in Amid
  PROVE  Takes(<<Parse("tree_node"), New("Tree", 1)>>,
               At(n, last), At(n + 1, "tree"))
<1> DEFINE s == <<Parse("tree_node"), New("Tree", 1)>>
           d == <<At(n, last), At(n + 1, "other"), At(n + 1, "tree")>>
<1>1. s \in Seq(Item) /\ Len(s) = 2
  BY ParseItem, NewItem DEF Symbols, NeededTypes, Marks, Classes
<1>2. d \in Seq(States) /\ Len(d) = 3
  BY AtFields DEF Amid
<1>3. /\ s[1] = Parse("tree_node")
      /\ s[2] = New("Tree", 1)
  OBVIOUS
<1>4. /\ d[1] = At(n, last)
      /\ d[2] = At(n + 1, "other")
      /\ d[3] = At(n + 1, "tree")
  OBVIOUS
<1>5. Leads(Parse("tree_node"), At(n, last), At(n + 1, "other"))
  BY Items DEF Amid, Symbols
<1>6. Leads(New("Tree", 1), At(n + 1, "other"), At(n + 1, "tree"))
  BY Items DEF Amid, Classes
<1> HIDE DEF s, d
<1>7. \A i \in 1 .. Len(s) : Leads(s[i], d[i], d[i + 1])
  <2>1. 1 .. Len(s) = 1 .. 2
    BY <1>1
  <2>2. ASSUME NEW i \in 1 .. 2  PROVE Leads(s[i], d[i], d[i + 1])
    <3>1. i = 1 \/ i = 2
      OBVIOUS
    <3> QED
      BY <3>1, <1>3, <1>4, <1>5, <1>6
  <2> QED
    BY <2>1, <2>2
<1>8. Len(s) + 1 = 3 /\ Len(d) = Len(s) + 1
  BY <1>1, <1>2
<1>9. Takes(s, d[1], d[Len(s) + 1])
  BY <1>1, <1>2, <1>7, <1>8, TakesEach
<1> QED
  BY <1>3, <1>4, <1>8, <1>9 DEF s

LEMMA TreeNodeBody ==
  ASSUME NEW n \in Nat, NEW last \in Amid
  PROVE  Takes(<<Parse("node_name"), Need("("), Parse("node_args"), Need(")"),
                 New("TreeNode", 2)>>,
               At(n, last), At(n + 1, "other"))
<1> DEFINE s == <<Parse("node_name"), Need("("), Parse("node_args"), Need(")"),
                  New("TreeNode", 2)>>
           d == <<At(n, last), At(n + 1, "other"), At(n + 1, "need"), At(n + 2, "other"),
                  At(n + 2, "need"), At(n + 1, "other")>>
<1>1. s \in Seq(Item) /\ Len(s) = 5
  BY ParseItem, NeedItem, NewItem DEF Symbols, NeededTypes, Marks, Classes
<1>2. d \in Seq(States) /\ Len(d) = 6
  BY AtFields DEF Amid
<1>3. /\ s[1] = Parse("node_name")
      /\ s[2] = Need("(")
      /\ s[3] = Parse("node_args")
      /\ s[4] = Need(")")
      /\ s[5] = New("TreeNode", 2)
  OBVIOUS
<1>4. /\ d[1] = At(n, last)
      /\ d[2] = At(n + 1, "other")
      /\ d[3] = At(n + 1, "need")
      /\ d[4] = At(n + 2, "other")
      /\ d[5] = At(n + 2, "need")
      /\ d[6] = At(n + 1, "other")
  OBVIOUS
<1>5. Leads(Parse("node_name"), At(n, last), At(n + 1, "other"))
  BY Items DEF Amid, Symbols
<1>6. Leads(Need("("), At(n + 1, "other"), At(n + 1, "need"))
  BY Items DEF Amid, NeededTypes, Marks
<1>7. Leads(Parse("node_args"), At(n + 1, "need"), At(n + 2, "other"))
  BY Items DEF Amid, Symbols
<1>8. Leads(Need(")"), At(n + 2, "other"), At(n + 2, "need"))
  BY Items DEF Amid, NeededTypes, Marks
<1>9. Leads(New("TreeNode", 2), At(n + 2, "need"), At(n + 1, "other"))
  BY Items DEF Amid, Classes
<1> HIDE DEF s, d
<1>10. \A i \in 1 .. Len(s) : Leads(s[i], d[i], d[i + 1])
  <2>1. 1 .. Len(s) = 1 .. 5
    BY <1>1
  <2>2. ASSUME NEW i \in 1 .. 5  PROVE Leads(s[i], d[i], d[i + 1])
    <3>1. i = 1 \/ i = 2 \/ i = 3 \/ i = 4 \/ i = 5
      OBVIOUS
    <3> QED
      BY <3>1, <1>3, <1>4, <1>5, <1>6, <1>7, <1>8, <1>9
  <2> QED
    BY <2>1, <2>2
<1>11. Len(s) + 1 = 6 /\ Len(d) = Len(s) + 1
  BY <1>1, <1>2
<1>12. Takes(s, d[1], d[Len(s) + 1])
  BY <1>1, <1>2, <1>10, <1>11, TakesEach
<1> QED
  BY <1>3, <1>4, <1>11, <1>12 DEF s

LEMMA NodeArgBody ==
  ASSUME NEW n \in Nat, NEW last \in Amid
  PROVE  Takes(<<Need("."), LeaveCtxt, Parse("arg_name"), Need("="), Parse("arg_value"),
                 New("NodeArg", 2), LeaveCtxt>>,
               At(n, last), At(n + 1, "other"))
<1> DEFINE s == <<Need("."), LeaveCtxt, Parse("arg_name"), Need("="), Parse("arg_value"),
                  New("NodeArg", 2), LeaveCtxt>>
           d == <<At(n, last), At(n, "need"), At(n, "other"), At(n + 1, "other"),
                  At(n + 1, "need"), At(n + 2, "other"), At(n + 1, "other"), At(n + 1, "other")>>
<1>1. s \in Seq(Item) /\ Len(s) = 7
  BY NeedItem, LeaveItem, ParseItem, NewItem DEF Symbols, NeededTypes, Marks, Classes
<1>2. d \in Seq(States) /\ Len(d) = 8
  BY AtFields DEF Amid
<1>3. /\ s[1] = Need(".")
      /\ s[2] = LeaveCtxt
      /\ s[3] = Parse("arg_name")
      /\ s[4] = Need("=")
      /\ s[5] = Parse("arg_value")
      /\ s[6] = New("NodeArg", 2)
      /\ s[7] = LeaveCtxt
  OBVIOUS
<1>4. /\ d[1] = At(n, last)
      /\ d[2] = At(n, "need")
      /\ d[3] = At(n, "other")
      /\ d[4] = At(n + 1, "other")
      /\ d[5] = At(n + 1, "need")
      /\ d[6] = At(n + 2, "other")
      /\ d[7] = At(n + 1, "other")
      /\ d[8] = At(n + 1, "other")
  OBVIOUS
<1>5. Leads(Need("."), At(n, last), At(n, "need"))
  BY Items DEF Amid, NeededTypes, Marks
<1>6. Leads(LeaveCtxt, At(n, "need"), At(n, "other"))
  BY Items DEF Amid
<1>7. Leads(Parse("arg_name"), At(n, "other"), At(n + 1, "other"))
  BY Items DEF Amid, Symbols
<1>8. Leads(Need("="), At(n + 1, "other"), At(n + 1, "need"))
  BY Items DEF Amid, NeededTypes, Marks
<1>9. Leads(Parse("arg_value"), At(n + 1, "need"), At(n + 2, "other"))
  BY Items DEF Amid, Symbols
<1>10. Leads(New("NodeArg", 2), At(n + 2, "other"), At(n + 1, "other"))
  BY Items DEF Amid, Classes
<1>11. Leads(LeaveCtxt, At(n + 1, "other"), At(n + 1, "other"))
  BY Items DEF Amid
<1> HIDE DEF s, d
<1>12. \A i \in 1 .. Len(s) : Leads(s[i], d[i], d[i + 1])
  <2>1. 1 .. Len(s) = 1 .. 7
    BY <1>1
  <2>2. ASSUME NEW i \in 1 .. 7  PROVE Leads(s[i], d[i], d[i + 1])
    <3>1. i = 1 \/ i = 2 \/ i = 3 \/ i = 4 \/ i = 5 \/ i = 6 \/ i = 7
      OBVIOUS
    <3> QED
      BY <3>1, <1>3, <1>4, <1>5, <1>6, <1>7, <1>8, <1>9, <1>10, <1>11
  <2> QED
    BY <2>1, <2>2
<1>13. Len(s) + 1 = 8 /\ Len(d) = Len(s) + 1
  BY <1>1, <1>2
<1>14. Takes(s, d[1], d[Len(s) + 1])
  BY <1>1, <1>2, <1>12, <1>13, TakesEach
<1> QED
  BY <1>3, <1>4, <1>13, <1>14 DEF s

LEMMA NodeNameBody ==
  ASSUME NEW n \in Nat, NEW last \in Amid
  PROVE  Takes(<<Need("ident"), Text, New("NodeName", 1)>>,
               At(n, last), At(n + 1, "other"))
<1> DEFINE s == <<Need("ident"), Text, New("NodeName", 1)>>
           d == <<At(n, last), At(n, "need"), At(n + 1, "other"), At(n + 1, "other")>>
<1>1. s \in Seq(Item) /\ Len(s) = 3
  BY NeedItem, TextItem, NewItem DEF Symbols, NeededTypes, Marks, Classes
<1>2. d \in Seq(States) /\ Len(d) = 4
  BY AtFields DEF Amid
<1>3. /\ s[1] = Need("ident")
      /\ s[2] = Text
      /\ s[3] = New("NodeName", 1)
  OBVIOUS
<1>4. /\ d[1] = At(n, last)
      /\ d[2] = At(n, "need")
      /\ d[3] = At(n + 1, "other")
      /\ d[4] = At(n + 1, "other")
  OBVIOUS
<1>5. Leads(Need("ident"), At(n, last), At(n, "need"))
  BY Items DEF Amid, NeededTypes, Marks
<1>6. Leads(Text, At(n, "need"), At(n + 1, "other"))
  BY Items DEF Amid
<1>7. Leads(New("NodeName", 1), At(n + 1, "other"), At(n + 1, "other"))
  BY Items DEF Amid, Classes
<1> HIDE DEF s, d
<1>8. \A i \in 1 .. Len(s) : Leads(s[i], d[i], d[i + 1])
  <2>1. 1 .. Len(s) = 1 .. 3
    BY <1>1
  <2>2. ASSUME NEW i \in 1 .. 3  PROVE Leads(s[i], d[i], d[i + 1])
    <3>1. i = 1 \/ i = 2 \/ i = 3
      OBVIOUS
    <3> QED
      BY <3>1, <1>3, <1>4, <1>5, <1>6, <1>7
  <2> QED
    BY <2>1, <2>2
<1>9. Len(s) + 1 = 4 /\ Len(d) = Len(s) + 1
  BY <1>1, <1>2
<1>10. Takes(s, d[1], d[Len(s) + 1])
  BY <1>1, <1>2, <1>8, <1>9, TakesEach
<1> QED
  BY <1>3, <1>4, <1>9, <1>10 DEF s

LEMMA ArgNameBody ==
  ASSUME NEW n \in Nat, NEW last \in Amid
  PROVE  Takes(<<Need("name"), Text, New("ArgName", 1)>>,
               At(n, last), At(n + 1, "other"))
<1> DEFINE s == <<Need("name"), Text, New("ArgName", 1)>>
           d == <<At(n, last), At(n, "need"), At(n + 1, "other"), At(n + 1, "other")>>
<1>1. s \in Seq(Item) /\ Len(s) = 3
  BY NeedItem, TextItem, NewItem DEF Symbols, NeededTypes, Marks, Classes
<1>2. d \in Seq(States) /\ Len(d) = 4
  BY AtFields DEF Amid
<1>3. /\ s[1] = Need("name")
      /\ s[2] = Text
      /\ s[3] = New("ArgName", 1)
  OBVIOUS
<1>4. /\ d[1] = At(n, last)
      /\ d[2] = At(n, "need")
      /\ d[3] = At(n + 1, "other")
      /\ d[4] = At(n + 1, "other")
  OBVIOUS
<1>5. Leads(Need("name"), At(n, last), At(n, "need"))
  BY Items DEF Amid, NeededTypes, Marks
<1>6. Leads(Text, At(n, "need"), At(n + 1, "other"))
  BY Items DEF Amid
<1>7. Leads(New("ArgName", 1), At(n + 1, "other"), At(n + 1, "other"))
  BY Items DEF Amid, Classes
<1> HIDE DEF s, d
<1>8. \A i \in 1 .. Len(s) : Leads(s[i], d[i], d[i + 1])
  <2>1. 1 .. Len(s) = 1 .. 3
    BY <1>1
  <2>2. ASSUME NEW i \in 1 .. 3  PROVE Leads(s[i], d[i], d[i + 1])
    <3>1. i = 1 \/ i = 2 \/ i = 3
      OBVIOUS
    <3> QED
      BY <3>1, <1>3, <1>4, <1>5, <1>6, <1>7
  <2> QED
    BY <2>1, <2>2
<1>9. Len(s) + 1 = 4 /\ Len(d) = Len(s) + 1
  BY <1>1, <1>2
<1>10. Takes(s, d[1], d[Len(s) + 1])
  BY <1>1, <1>2, <1>8, <1>9, TakesEach
<1> QED
  BY <1>3, <1>4, <1>9, <1>10 DEF s

LEMMA LiteralBody ==
  ASSUME NEW n \in Nat, NEW last \in Amid
  PROVE  Takes(<<Need("str"), Text, New("Literal", 1)>>,
               At(n, last), At(n + 1, "other"))
<1> DEFINE s == <<Need("str"), Text, New("Literal", 1)>>
           d == <<At(n, last), At(n, "need"), At(n + 1, "other"), At(n + 1, "other")>>
<1>1. s \in Seq(Item) /\ Len(s) = 3
  BY NeedItem, TextItem, NewItem DEF Symbols, NeededTypes, Marks, Classes
<1>2. d \in Seq(States) /\ Len(d) = 4
  BY AtFields DEF Amid
<1>3. /\ s[1] = Need("str")
      /\ s[2] = Text
      /\ s[3] = New("Literal", 1)
  OBVIOUS
<1>4. /\ d[1] = At(n, last)
      /\ d[2] = At(n, "need")
      /\ d[3] = At(n + 1, "other")
      /\ d[4] = At(n + 1, "other")
  OBVIOUS
<1>5. Leads(Need("str"), At(n, last), At(n, "need"))
  BY Items DEF Amid, NeededTypes, Marks
<1>6. Leads(Text, At(n, "need"), At(n + 1, "other"))
  BY Items DEF Amid
<1>7. Leads(New("Literal", 1), At(n + 1, "other"), At(n + 1, "other"))
  BY Items DEF Amid, Classes
<1> HIDE DEF s, d
<1>8. \A i \in 1 .. Len(s) : Leads(s[i], d[i], d[i + 1])
  <2>1. 1 .. Len(s) = 1 .. 3
    BY <1>1
  <2>2. ASSUME NEW i \in 1 .. 3  PROVE Leads(s[i], d[i], d[i + 1])
    <3>1. i = 1 \/ i = 2 \/ i = 3
      OBVIOUS
    <3> QED
      BY <3>1, <1>3, <1>4, <1>5, <1>6, <1>7
  <2> QED
    BY <2>1, <2>2
<1>9. Len(s) + 1 = 4 /\ Len(d) = Len(s) + 1
  BY <1>1, <1>2
<1>10. Takes(s, d[1], d[Len(s) + 1])
  BY <1>1, <1>2, <1>8, <1>9, TakesEach
<1> QED
  BY <1>3, <1>4, <1>9, <1>10 DEF s

LEMMA ListElemBody ==
  ASSUME NEW n \in Nat, NEW last \in Amid
  PROVE  Takes(<<Need("["), Need("num"), Index, Need("]"), Need("="), Parse("tree_node"),
                 New("ListElem", 2)>>,
               At(n, last), At(n + 1, "other"))
<1> DEFINE s == <<Need("["), Need("num"), Index, Need("]"), Need("="), Parse("tree_node"),
                  New("ListElem", 2)>>
           d == <<At(n, last), At(n, "need"), At(n, "need"), At(n + 1, "other"),
                  At(n + 1, "need"), At(n + 1, "need"), At(n + 2, "other"), At(n + 1, "other")>>
<1>1. s \in Seq(Item) /\ Len(s) = 7
  BY NeedItem, TextItem, ParseItem, NewItem DEF Symbols, NeededTypes, Marks, Classes
<1>2. d \in Seq(States) /\ Len(d) = 8
  BY AtFields DEF Amid
<1>3. /\ s[1] = Need("[")
      /\ s[2] = Need("num")
      /\ s[3] = Index
      /\ s[4] = Need("]")
      /\ s[5] = Need("=")
      /\ s[6] = Parse("tree_node")
      /\ s[7] = New("ListElem", 2)
  OBVIOUS
<1>4. /\ d[1] = At(n, last)
      /\ d[2] = At(n, "need")
      /\ d[3] = At(n, "need")
      /\ d[4] = At(n + 1, "other")
      /\ d[5] = At(n + 1, "need")
      /\ d[6] = At(n + 1, "need")
      /\ d[7] = At(n + 2, "other")
      /\ d[8] = At(n + 1, "other")
  OBVIOUS
<1>5. Leads(Need("["), At(n, last), At(n, "need"))
  BY Items DEF Amid, NeededTypes, Marks
<1>6. Leads(Need("num"), At(n, "need"), At(n, "need"))
  BY Items DEF Amid, NeededTypes, Marks
<1>7. Leads(Index, At(n, "need"), At(n + 1, "other"))
  BY Items DEF Amid
<1>8. Leads(Need("]"), At(n + 1, "other"), At(n + 1, "need"))
  BY Items DEF Amid, NeededTypes, Marks
<1>9. Leads(Need("="), At(n + 1, "need"), At(n + 1, "need"))
  BY Items DEF Amid, NeededTypes, Marks
<1>10. Leads(Parse("tree_node"), At(n + 1, "need"), At(n + 2, "other"))
  BY Items DEF Amid, Symbols
<1>11. Leads(New("ListElem", 2), At(n + 2, "other"), At(n + 1, "other"))
  BY Items DEF Amid, Classes
<1> HIDE DEF s, d
<1>12. \A i \in 1 .. Len(s) : Leads(s[i], d[i], d[i + 1])
  <2>1. 1 .. Len(s) = 1 .. 7
    BY <1>1
  <2>2. ASSUME NEW i \in 1 .. 7  PROVE Leads(s[i], d[i], d[i + 1])
    <3>1. i = 1 \/ i = 2 \/ i = 3 \/ i = 4 \/ i = 5 \/ i = 6 \/ i = 7
      OBVIOUS
    <3> QED
      BY <3>1, <1>3, <1>4, <1>5, <1>6, <1>7, <1>8, <1>9, <1>10, <1>11
  <2> QED
    BY <2>1, <2>2
<1>13. Len(s) + 1 = 8 /\ Len(d) = Len(s) + 1
  BY <1>1, <1>2
<1>14. Takes(s, d[1], d[Len(s) + 1])
  BY <1>1, <1>2, <1>12, <1>13, TakesEach
<1> QED
  BY <1>3, <1>4, <1>13, <1>14 DEF s

LEMMA ArgsLoopBody ==
  ASSUME NEW n \in Nat, NEW last \in Amid
  PROVE  Takes(<<Loop("node_arg", 0)>>,
               At(n, last), At(n + 1, "other"))
<1> DEFINE s == <<Loop("node_arg", 0)>>
           d == <<At(n, last), At(n + 1, "other")>>
<1>1. s \in Seq(Item) /\ Len(s) = 1
  BY LoopItem DEF Symbols, NeededTypes, Marks, Classes
<1>2. d \in Seq(States) /\ Len(d) = 2
  BY AtFields DEF Amid
<1>3. /\ s[1] = Loop("node_arg", 0)
  OBVIOUS
<1>4. /\ d[1] = At(n, last)
      /\ d[2] = At(n + 1, "other")
  OBVIOUS
<1>5. Leads(Loop("node_arg", 0), At(n, last), At(n + 1, "other"))
  BY Loops DEF Amid
<1> HIDE DEF s, d
<1>6. \A i \in 1 .. Len(s) : Leads(s[i], d[i], d[i + 1])
  <2>1. 1 .. Len(s) = 1 .. 1
    BY <1>1
  <2>2. ASSUME NEW i \in 1 .. 1  PROVE Leads(s[i], d[i], d[i + 1])
    <3>1. i = 1
      OBVIOUS
    <3> QED
      BY <3>1, <1>3, <1>4, <1>5
  <2> QED
    BY <2>1, <2>2
<1>7. Len(s) + 1 = 2 /\ Len(d) = Len(s) + 1
  BY <1>1, <1>2
<1>8. Takes(s, d[1], d[Len(s) + 1])
  BY <1>1, <1>2, <1>6, <1>7, TakesEach
<1> QED
  BY <1>3, <1>4, <1>7, <1>8 DEF s

LEMMA LiteralArgsBody ==
  ASSUME NEW n \in Nat, NEW last \in Amid
  PROVE  Takes(<<Parse("literal"), New("LiteralArgs", 1)>>,
               At(n, last), At(n + 1, "other"))
<1> DEFINE s == <<Parse("literal"), New("LiteralArgs", 1)>>
           d == <<At(n, last), At(n + 1, "other"), At(n + 1, "other")>>
<1>1. s \in Seq(Item) /\ Len(s) = 2
  BY ParseItem, NewItem DEF Symbols, NeededTypes, Marks, Classes
<1>2. d \in Seq(States) /\ Len(d) = 3
  BY AtFields DEF Amid
<1>3. /\ s[1] = Parse("literal")
      /\ s[2] = New("LiteralArgs", 1)
  OBVIOUS
<1>4. /\ d[1] = At(n, last)
      /\ d[2] = At(n + 1, "other")
      /\ d[3] = At(n + 1, "other")
  OBVIOUS
<1>5. Leads(Parse("literal"), At(n, last), At(n + 1, "other"))
  BY Items DEF Amid, Symbols
<1>6. Leads(New("LiteralArgs", 1), At(n + 1, "other"), At(n + 1, "other"))
  BY Items DEF Amid, Classes
<1> HIDE DEF s, d
<1>7. \A i \in 1 .. Len(s) : Leads(s[i], d[i], d[i + 1])
  <2>1. 1 .. Len(s) = 1 .. 2
    BY <1>1
  <2>2. ASSUME NEW i \in 1 .. 2  PROVE Leads(s[i], d[i], d[i + 1])
    <3>1. i = 1 \/ i = 2
      OBVIOUS
    <3> QED
      BY <3>1, <1>3, <1>4, <1>5, <1>6
  <2> QED
    BY <2>1, <2>2
<1>8. Len(s) + 1 = 3 /\ Len(d) = Len(s) + 1
  BY <1>1, <1>2
<1>9. Takes(s, d[1], d[Len(s) + 1])
  BY <1>1, <1>2, <1>7, <1>8, TakesEach
<1> QED
  BY <1>3, <1>4, <1>8, <1>9 DEF s

LEMMA NodeValueBody ==
  ASSUME NEW n \in Nat, NEW last \in Amid
  PROVE  Takes(<<Parse("tree_node"), New("NodeValue", 1)>>,
               At(n, last), At(n + 1, "other"))
<1> DEFINE s == <<Parse("tree_node"), New("NodeValue", 1)>>
           d == <<At(n, last), At(n + 1, "other"), At(n + 1, "other")>>
<1>1. s \in Seq(Item) /\ Len(s) = 2
  BY ParseItem, NewItem DEF Symbols, NeededTypes, Marks, Classes
<1>2. d \in Seq(States) /\ Len(d) = 3
  BY AtFields DEF Amid
<1>3. /\ s[1] = Parse("tree_node")
      /\ s[2] = New("NodeValue", 1)
  OBVIOUS
<1>4. /\ d[1] = At(n, last)
      /\ d[2] = At(n + 1, "other")
      /\ d[3] = At(n + 1, "other")
  OBVIOUS
<1>5. Leads(Parse("tree_node"), At(n, last), At(n + 1, "other"))
  BY Items DEF Amid, Symbols
<1>6. Leads(New("NodeValue", 1), At(n + 1, "other"), At(n + 1, "other"))
  BY Items DEF Amid, Classes
<1> HIDE DEF s, d
<1>7. \A i \in 1 .. Len(s) : Leads(s[i], d[i], d[i + 1])
  <2>1. 1 .. Len(s) = 1 .. 2
    BY <1>1
  <2>2. ASSUME NEW i \in 1 .. 2  PROVE Leads(s[i], d[i], d[i + 1])
    <3>1. i = 1 \/ i = 2
      OBVIOUS
    <3> QED
      BY <3>1, <1>3, <1>4, <1>5, <1>6
  <2> QED
    BY <2>1, <2>2
<1>8. Len(s) + 1 = 3 /\ Len(d) = Len(s) + 1
  BY <1>1, <1>2
<1>9. Takes(s, d[1], d[Len(s) + 1])
  BY <1>1, <1>2, <1>7, <1>8, TakesEach
<1> QED
  BY <1>3, <1>4, <1>8, <1>9 DEF s

LEMMA ListBody ==
  ASSUME NEW n \in Nat, NEW last \in Amid
  PROVE  Takes(<<Need("kw_list"), Need("<"), Parse("node_name"), Need(">"), Need("["),
                 Loop("list_elem", 0)>>,
               At(n, last), At(n + 1, "other"))
<1> DEFINE s == <<Need("kw_list"), Need("<"), Parse("node_name"), Need(">"), Need("["),
                  Loop("list_elem", 0)>>
           d == <<At(n, last), At(n, "need"), At(n, "need"), At(n + 1, "other"),
                  At(n + 1, "need"), At(n + 1, "need"), At(n + 1, "other")>>
<1>1. s \in Seq(Item) /\ Len(s) = 6
  BY NeedItem, ParseItem, LoopItem DEF Symbols, NeededTypes, Marks, Classes
<1>2. d \in Seq(States) /\ Len(d) = 7
  BY AtFields DEF Amid
<1>3. /\ s[1] = Need("kw_list")
      /\ s[2] = Need("<")
      /\ s[3] = Parse("node_name")
      /\ s[4] = Need(">")
      /\ s[5] = Need("[")
      /\ s[6] = Loop("list_elem", 0)
  OBVIOUS
<1>4. /\ d[1] = At(n, last)
      /\ d[2] = At(n, "need")
      /\ d[3] = At(n, "need")
      /\ d[4] = At(n + 1, "other")
      /\ d[5] = At(n + 1, "need")
      /\ d[6] = At(n + 1, "need")
      /\ d[7] = At(n + 1, "other")
  OBVIOUS
<1>5. Leads(Need("kw_list"), At(n, last), At(n, "need"))
  BY Items DEF Amid, NeededTypes, Marks
<1>6. Leads(Need("<"), At(n, "need"), At(n, "need"))
  BY Items DEF Amid, NeededTypes, Marks
<1>7. Leads(Parse("node_name"), At(n, "need"), At(n + 1, "other"))
  BY Items DEF Amid, Symbols
<1>8. Leads(Need(">"), At(n + 1, "other"), At(n + 1, "need"))
  BY Items DEF Amid, NeededTypes, Marks
<1>9. Leads(Need("["), At(n + 1, "need"), At(n + 1, "need"))
  BY Items DEF Amid, NeededTypes, Marks
<1>10. Leads(Loop("list_elem", 0), At(n + 1, "need"), At(n + 1, "other"))
  BY Loops DEF Amid
<1> HIDE DEF s, d
<1>11. \A i \in 1 .. Len(s) : Leads(s[i], d[i], d[i + 1])
  <2>1. 1 .. Len(s) = 1 .. 6
    BY <1>1
  <2>2. ASSUME NEW i \in 1 .. 6  PROVE Leads(s[i], d[i], d[i + 1])
    <3>1. i = 1 \/ i = 2 \/ i = 3 \/ i = 4 \/ i = 5 \/ i = 6
      OBVIOUS
    <3> QED
      BY <3>1, <1>3, <1>4, <1>5, <1>6, <1>7, <1>8, <1>9, <1>10
  <2> QED
    BY <2>1, <2>2
<1>12. Len(s) + 1 = 7 /\ Len(d) = Len(s) + 1
  BY <1>1, <1>2
<1>13. Takes(s, d[1], d[Len(s) + 1])
  BY <1>1, <1>2, <1>11, <1>12, TakesEach
<1> QED
  BY <1>3, <1>4, <1>12, <1>13 DEF s

LEMMA LiteralValueBody ==
  ASSUME NEW n \in Nat, NEW last \in Amid
  PROVE  Takes(<<Parse("literal"), New("LiteralValue", 1)>>,
               At(n, last), At(n + 1, "other"))
<1> DEFINE s == <<Parse("literal"), New("LiteralValue", 1)>>
           d == <<At(n, last), At(n + 1, "other"), At(n + 1, "other")>>
<1>1. s \in Seq(Item) /\ Len(s) = 2
  BY ParseItem, NewItem DEF Symbols, NeededTypes, Marks, Classes
<1>2. d \in Seq(States) /\ Len(d) = 3
  BY AtFields DEF Amid
<1>3. /\ s[1] = Parse("literal")
      /\ s[2] = New("LiteralValue", 1)
  OBVIOUS
<1>4. /\ d[1] = At(n, last)
      /\ d[2] = At(n + 1, "other")
      /\ d[3] = At(n + 1, "other")
  OBVIOUS
<1>5. Leads(Parse("literal"), At(n, last), At(n + 1, "other"))
  BY Items DEF Amid, Symbols
<1>6. Leads(New("LiteralValue", 1), At(n + 1, "other"), At(n + 1, "other"))
  BY Items DEF Amid, Classes
<1> HIDE DEF s, d
<1>7. \A i \in 1 .. Len(s) : Leads(s[i], d[i], d[i + 1])
  <2>1. 1 .. Len(s) = 1 .. 2
    BY <1>1
  <2>2. ASSUME NEW i \in 1 .. 2  PROVE Leads(s[i], d[i], d[i + 1])
    <3>1. i = 1 \/ i = 2
      OBVIOUS
    <3> QED
      BY <3>1, <1>3, <1>4, <1>5, <1>6
  <2> QED
    BY <2>1, <2>2
<1>8. Len(s) + 1 = 3 /\ Len(d) = Len(s) + 1
  BY <1>1, <1>2
<1>9. Takes(s, d[1], d[Len(s) + 1])
  BY <1>1, <1>2, <1>7, <1>8, TakesEach
<1> QED
  BY <1>3, <1>4, <1>8, <1>9 DEF s

LEMMA ArgsTurnBody ==
  ASSUME NEW m \in Nat, NEW n \in Nat, NEW last \in Amid
  PROVE  Takes(<<Parse("node_arg"), Loop("node_arg", n + 1)>>,
               At(m + n, last), At(m + 1, "other"))
<1> DEFINE s == <<Parse("node_arg"), Loop("node_arg", n + 1)>>
           d == <<At(m + n, last), At(m + n + 1, "other"), At(m + 1, "other")>>
<1>1. s \in Seq(Item) /\ Len(s) = 2
  BY ParseItem, LoopItem DEF Symbols, NeededTypes, Marks, Classes
<1>2. d \in Seq(States) /\ Len(d) = 3
  BY AtFields DEF Amid
<1>3. /\ s[1] = Parse("node_arg")
      /\ s[2] = Loop("node_arg", n + 1)
  OBVIOUS
<1>4. /\ d[1] = At(m + n, last)
      /\ d[2] = At(m + n + 1, "other")
      /\ d[3] = At(m + 1, "other")
  OBVIOUS
<1>5. Leads(Parse("node_arg"), At(m + n, last), At(m + n + 1, "other"))
  BY Items DEF Amid, Symbols
<1>6. Leads(Loop("node_arg", n + 1), At(m + n + 1, "other"), At(m + 1, "other"))
  BY Loops DEF Amid
<1> HIDE DEF s, d
<1>7. \A i \in 1 .. Len(s) : Leads(s[i], d[i], d[i + 1])
  <2>1. 1 .. Len(s) = 1 .. 2
    BY <1>1
  <2>2. ASSUME NEW i \in 1 .. 2  PROVE Leads(s[i], d[i], d[i + 1])
    <3>1. i = 1 \/ i = 2
      OBVIOUS
    <3> QED
      BY <3>1, <1>3, <1>4, <1>5, <1>6
  <2> QED
    BY <2>1, <2>2
<1>8. Len(s) + 1 = 3 /\ Len(d) = Len(s) + 1
  BY <1>1, <1>2
<1>9. Takes(s, d[1], d[Len(s) + 1])
  BY <1>1, <1>2, <1>7, <1>8, TakesEach
<1> QED
  BY <1>3, <1>4, <1>8, <1>9 DEF s

LEMMA ArgsAfterBody ==
  ASSUME NEW m \in Nat, NEW n \in Nat, NEW last \in Amid
  PROVE  Takes(<<New("ListArgs", n)>>,
               At(m + n, last), At(m + 1, "other"))
<1> DEFINE s == <<New("ListArgs", n)>>
           d == <<At(m + n, last), At(m + 1, "other")>>
<1>1. s \in Seq(Item) /\ Len(s) = 1
  BY NewItem DEF Symbols, NeededTypes, Marks, Classes
<1>2. d \in Seq(States) /\ Len(d) = 2
  BY AtFields DEF Amid
<1>3. /\ s[1] = New("ListArgs", n)
  OBVIOUS
<1>4. /\ d[1] = At(m + n, last)
      /\ d[2] = At(m + 1, "other")
  OBVIOUS
<1>5. Leads(New("ListArgs", n), At(m + n, last), At(m + 1, "other"))
  <2> DEFINE k == m + n
  <2>1. k \in Nat /\ n \in 0 .. k /\ k - n + 1 = m + 1
    OBVIOUS
  <2> HIDE DEF k
  <2>2. Leads(New("ListArgs", n), At(k, last), At(k - n + 1, "other"))
    BY <2>1, Items DEF Amid, Classes
  <2> QED
    BY <2>1, <2>2 DEF k
<1> HIDE DEF s, d
<1>6. \A i \in 1 .. Len(s) : Leads(s[i], d[i], d[i + 1])
  <2>1. 1 .. Len(s) = 1 .. 1
    BY <1>1
  <2>2. ASSUME NEW i \in 1 .. 1  PROVE Leads(s[i], d[i], d[i + 1])
    <3>1. i = 1
      OBVIOUS
    <3> QED
      BY <3>1, <1>3, <1>4, <1>5
  <2> QED
    BY <2>1, <2>2
<1>7. Len(s) + 1 = 2 /\ Len(d) = Len(s) + 1
  BY <1>1, <1>2
<1>8. Takes(s, d[1], d[Len(s) + 1])
  BY <1>1, <1>2, <1>6, <1>7, TakesEach
<1> QED
  BY <1>3, <1>4, <1>7, <1>8 DEF s

LEMMA ListTurnBody ==
  ASSUME NEW m \in Nat, NEW n \in Nat, NEW last \in Amid
  PROVE  Takes(<<Parse("list_elem"), Loop("list_elem", n + 1)>>,
               At(m + n + 1, last), At(m + 1, "other"))
<1> DEFINE s == <<Parse("list_elem"), Loop("list_elem", n + 1)>>
           d == <<At(m + n + 1, last), At(m + n + 2, "other"), At(m + 1, "other")>>
<1>1. s \in Seq(Item) /\ Len(s) = 2
  BY ParseItem, LoopItem DEF Symbols, NeededTypes, Marks, Classes
<1>2. d \in Seq(States) /\ Len(d) = 3
  BY AtFields DEF Amid
<1>3. /\ s[1] = Parse("list_elem")
      /\ s[2] = Loop("list_elem", n + 1)
  OBVIOUS
<1>4. /\ d[1] = At(m + n + 1, last)
      /\ d[2] = At(m + n + 2, "other")
      /\ d[3] = At(m + 1, "other")
  OBVIOUS
<1>5. Leads(Parse("list_elem"), At(m + n + 1, last), At(m + n + 2, "other"))
  BY Items DEF Amid, Symbols
<1>6. Leads(Loop("list_elem", n + 1), At(m + n + 2, "other"), At(m + 1, "other"))
  BY Loops DEF Amid
<1> HIDE DEF s, d
<1>7. \A i \in 1 .. Len(s) : Leads(s[i], d[i], d[i + 1])
  <2>1. 1 .. Len(s) = 1 .. 2
    BY <1>1
  <2>2. ASSUME NEW i \in 1 .. 2  PROVE Leads(s[i], d[i], d[i + 1])
    <3>1. i = 1 \/ i = 2
      OBVIOUS
    <3> QED
      BY <3>1, <1>3, <1>4, <1>5, <1>6
  <2> QED
    BY <2>1, <2>2
<1>8. Len(s) + 1 = 3 /\ Len(d) = Len(s) + 1
  BY <1>1, <1>2
<1>9. Takes(s, d[1], d[Len(s) + 1])
  BY <1>1, <1>2, <1>7, <1>8, TakesEach
<1> QED
  BY <1>3, <1>4, <1>8, <1>9 DEF s

LEMMA ListAfterBody ==
  ASSUME NEW m \in Nat, NEW n \in Nat, NEW last \in Amid
  PROVE  Takes(<<Need("]"), New("NodeList", n + 1), New("ListValue", 1)>>,
               At(m + n + 1, last), At(m + 1, "other"))
<1> DEFINE s == <<Need("]"), New("NodeList", n + 1), New("ListValue", 1)>>
           d == <<At(m + n + 1, last), At(m + n + 1, "need"), At(m + 1, "other"),
                  At(m + 1, "other")>>
<1>1. s \in Seq(Item) /\ Len(s) = 3
  BY NeedItem, NewItem DEF Symbols, NeededTypes, Marks, Classes
<1>2. d \in Seq(States) /\ Len(d) = 4
  BY AtFields DEF Amid
<1>3. /\ s[1] = Need("]")
      /\ s[2] = New("NodeList", n + 1)
      /\ s[3] = New("ListValue", 1)
  OBVIOUS
<1>4. /\ d[1] = At(m + n + 1, last)
      /\ d[2] = At(m + n + 1, "need")
      /\ d[3] = At(m + 1, "other")
      /\ d[4] = At(m + 1, "other")
  OBVIOUS
<1>5. Leads(Need("]"), At(m + n + 1, last), At(m + n + 1, "need"))
  BY Items DEF Amid, NeededTypes, Marks
<1>6. Leads(New("NodeList", n + 1), At(m + n + 1, "need"), At(m + 1, "other"))
  BY Items DEF Amid, Classes
<1>7. Leads(New("ListValue", 1), At(m + 1, "other"), At(m + 1, "other"))
  BY Items DEF Amid, Classes
<1> HIDE DEF s, d
<1>8. \A i \in 1 .. Len(s) : Leads(s[i], d[i], d[i + 1])
  <2>1. 1 .. Len(s) = 1 .. 3
    BY <1>1
  <2>2. ASSUME NEW i \in 1 .. 3  PROVE Leads(s[i], d[i], d[i + 1])
    <3>1. i = 1 \/ i = 2 \/ i = 3
      OBVIOUS
    <3> QED
      BY <3>1, <1>3, <1>4, <1>5, <1>6, <1>7
  <2> QED
    BY <2>1, <2>2
<1>9. Len(s) + 1 = 4 /\ Len(d) = Len(s) + 1
  BY <1>1, <1>2
<1>10. Takes(s, d[1], d[Len(s) + 1])
  BY <1>1, <1>2, <1>8, <1>9, TakesEach
<1> QED
  BY <1>3, <1>4, <1>9, <1>10 DEF s

-----------------------------------------------------------------------------
(* The inductive invariant.                                                *)

(* The values and the parts of nodes that are the node i.                  *)
AtVal(i, j) == j \in DOMAIN vals /\ vals[j] = NodeAt(i)
AtPart(i, a, k) ==
  a \in DOMAIN nodes /\ k \in DOMAIN nodes[a].parts /\ nodes[a].parts[k] = NodeAt(i)

Typed ==
  /\ read \in Seq(Lexemes)
  /\ tok.lex \in Lexemes \cup {"none"} /\ prev.lex \in Lexemes \cup {"none"}
  /\ arg_ctxt \in BOOLEAN
  /\ vals \in Seq(Values)
  /\ nodes \in Seq([kind : Classes, parts : Seq(Values)])
  /\ root \in 0 .. Len(nodes)
  /\ outcome \in {"running", "parsed"} \cup Errors

(* While the parser runs the lookahead is the last lexeme read.            *)
Looked ==
  /\ StopsAtEnd
  /\ outcome = "running" /\ read # <<>> =>
       /\ tok.lex = read[Len(read)] /\ tok.lex \in Lexemes
       /\ tok.type = "eos" <=> tok.lex = EOS

(* What was done last shows in the other variables.                        *)
Shows(last) ==
  /\ last = "start" <=> read = <<>>
  /\ last = "need" => prev.lex \in Lexemes
  /\ last = "tree" => /\ Len(vals) > 0
                      /\ vals[Len(vals)] \in [node : 1 .. Len(nodes)]
  /\ root # 0 => last = "root"

(* What is still to do fits the values there are.                          *)
Fits ==
  outcome = "running" =>
    \E p \in States : p.n = Len(vals) /\ Shows(p.last) /\ Takes(todo, p, At(0, "end"))

(* Whoever set arg_ctxt is still to leave.                                 *)
WillLeave == arg_ctxt => \E i \in DOMAIN todo : todo[i].do = "leave"

Done ==
  outcome # "running" =>
    /\ todo = <<>> /\ ~arg_ctxt
    /\ outcome = "parsed" => vals = <<>>

(* Each node but the root is in one place, and the root in none.           *)
OnePlace(i) ==
  /\ \A j, l : AtVal(i, j) /\ AtVal(i, l) => j = l
  /\ \A a, b, k, l : AtPart(i, a, k) /\ AtPart(i, b, l) => a = b /\ k = l
  /\ \A j, a, k : ~(AtVal(i, j) /\ AtPart(i, a, k))
  /\ i # root <=> (\E j : AtVal(i, j)) \/ (\E a, k : AtPart(i, a, k))

Placed == \A i \in DOMAIN nodes : OnePlace(i)

IInv == Typed /\ Looked /\ Fits /\ WillLeave /\ Done /\ Placed

-----------------------------------------------------------------------------
(* Items met in `todo'.                                                    *)
LEMMA Meant ==
  ASSUME NEW w, NEW p, NEW q, Leads(w, p, q), w.do \notin {"finish", "begin"}
  PROVE  /\ p.last \in Amid /\ p.n \in Nat /\ p = At(p.n, p.last) /\ p.n >= Uses(w)
         /\ q = At(p.n - Uses(w) + Makes(w), After(w))
<1>1. p \in States /\ q \in States
  BY DEF Leads
<1>2. p.last \in Amid
  BY <1>1, StateFields DEF Leads, Amid
<1> QED
  BY <1>1, <1>2, StateFields DEF Leads

LEMMA ItemIs ==
  ASSUME NEW w \in Item
  PROVE  /\ w.do = "parse" => w = Parse(w.arg) /\ w.arg \in Symbols
         /\ w.do = "need"  => w = Need(w.arg) /\ w.arg \in NeededTypes
         /\ w.do = "new"   => w = New(w.arg, w.n) /\ w.arg \in Classes /\ w.n \in Nat
         /\ w.do = "loop"  => /\ w = Loop(w.arg, w.n) /\ w.n \in Nat
                              /\ w.arg \in {"node_arg", "list_elem"}
BY DEF Item, Others, Parse, Need, New, Loop, Do

LEMMA BodyTakes ==
  ASSUME NEW sym \in Symbols \ {"node_args", "arg_value"}, NEW n \in Nat, NEW last \in Amid
  PROVE  Takes(Body(sym), At(n, last), At(n + 1, IF sym = "tree" THEN "tree" ELSE "other"))
<1>1. CASE sym = "tree"
  BY <1>1, TreeBody DEF Body
<1>2. CASE sym = "tree_node"
  BY <1>2, TreeNodeBody DEF Body
<1>3. CASE sym = "node_name"
  BY <1>3, NodeNameBody DEF Body
<1>4. CASE sym = "node_arg"
  BY <1>4, NodeArgBody DEF Body
<1>5. CASE sym = "arg_name"
  BY <1>5, ArgNameBody DEF Body
<1>6. CASE sym = "list_elem"
  BY <1>6, ListElemBody DEF Body
<1>7. CASE sym = "literal"
  BY <1>7, LiteralBody DEF Body
<1> QED
  BY <1>1, <1>2, <1>3, <1>4, <1>5, <1>6, <1>7 DEF Symbols

LEMMA AfterLoopTakes ==
  ASSUME NEW sym \in {"node_arg", "list_elem"}, NEW k \in Nat, NEW n \in Nat, NEW last \in Amid,
         n >= Uses(Loop(sym, k))
  PROVE  /\ Takes(AfterLoop(sym, k), At(n, last), At(n - Uses(Loop(sym, k)) + 1, "other"))
         /\ Takes(<<Parse(sym), Loop(sym, k + 1)>>, At(n, last),
                  At(n - Uses(Loop(sym, k)) + 1, "other"))
<1>1. CASE sym = "node_arg"
  <2> DEFINE m == n - k
  <2>1. Uses(Loop(sym, k)) = k
    BY <1>1, LoopItem
  <2>2. m \in Nat /\ m + k = n
    BY <2>1
  <2> HIDE DEF m
  <2>3. /\ Takes(<<New("ListArgs", k)>>, At(m + k, last), At(m + 1, "other"))
        /\ Takes(<<Parse("node_arg"), Loop("node_arg", k + 1)>>, At(m + k, last), At(m + 1, "other"))
    BY <2>2, ArgsAfterBody, ArgsTurnBody
  <2> QED
    BY <1>1, <2>1, <2>2, <2>3 DEF m, AfterLoop
<1>2. CASE sym = "list_elem"
  <2> DEFINE m == n - (k + 1)
  <2>1. Uses(Loop(sym, k)) = k + 1
    BY <1>2, LoopItem
  <2>2. m \in Nat /\ m + k + 1 = n
    BY <2>1
  <2> HIDE DEF m
  <2>3. /\ Takes(<<Need("]"), New("NodeList", k + 1), New("ListValue", 1)>>,
                 At(m + k + 1, last), At(m + 1, "other"))
        /\ Takes(<<Parse("list_elem"), Loop("list_elem", k + 1)>>,
                 At(m + k + 1, last), At(m + 1, "other"))
    BY <2>2, ListAfterBody, ListTurnBody
  <2> QED
    BY <1>2, <2>1, <2>2, <2>3 DEF m, AfterLoop
<1> QED
  BY <1>1, <1>2

(* The step that is next, and what is left for after it.                   *)
LEMMA Here ==
  ASSUME IInv, NEW what, Running(what)
  PROVE  \E p, q \in States :
           /\ p.n = Len(vals) /\ Shows(p.last) /\ Leads(Head(todo), p, q)
           /\ Takes(Tail(todo), q, At(0, "end"))
           /\ Head(todo) \in Item /\ Head(todo).do = what
<1>1. PICK p \in States : p.n = Len(vals) /\ Shows(p.last) /\ Takes(todo, p, At(0, "end"))
  BY DEF IInv, Fits, Running
<1>2. PICK q \in States : Leads(Head(todo), p, q) /\ Takes(Tail(todo), q, At(0, "end"))
  BY <1>1, TakesFirst DEF Running
<1>3. Head(todo) \in Item
  BY <1>2 DEF Leads
<1> QED
  BY <1>1, <1>2, <1>3 DEF Running

(* No step but leaving takes a "leave" away.                               *)
LEMMA StillLeave ==
  ASSUME IInv, Running("parse") \/ Running("need") \/ Running("loop") \/ Running("text")
               \/ Running("index") \/ Running("new") \/ Running("root") \/ Running("begin"),
         NEW items, items \in Seq(Item), Go(items), arg_ctxt' => arg_ctxt
  PROVE  WillLeave'
<1> SUFFICES ASSUME arg_ctxt'  PROVE \E i \in DOMAIN todo' : todo'[i].do = "leave"
  BY DEF WillLeave
<1>1. PICK i \in DOMAIN todo : todo[i].do = "leave"
  BY DEF IInv, WillLeave
<1>2. todo \in Seq(Item) /\ todo # <<>> /\ Head(todo).do # "leave"
  BY TakesEnds DEF IInv, Fits, Running
<1>3. Head(todo) = todo[1] /\ i \in 1 .. Len(todo) /\ Len(todo) \in Nat
  BY <1>1, <1>2, LenProperties
<1>4. i - 1 \in 1 .. Len(todo) - 1 /\ i - 1 + 1 = i
  BY <1>1, <1>2, <1>3
<1>5. /\ Tail(todo) \in Seq(Item) /\ Len(Tail(todo)) = Len(todo) - 1
      /\ Tail(todo)[i - 1] = todo[i]
  <2>1. /\ Tail(todo) \in Seq(Item) /\ Len(Tail(todo)) = Len(todo) - 1
        /\ \A k \in 1 .. Len(Tail(todo)) : Tail(todo)[k] = todo[k + 1]
    BY <1>2, HeadTailProperties
  <2> DEFINE k == i - 1
  <2>2. k \in 1 .. Len(Tail(todo)) /\ k + 1 = i
    BY <1>4, <2>1
  <2> HIDE DEF k
  <2>3. Tail(todo)[k] = todo[i]
    BY <2>1, <2>2
  <2> QED
    BY <2>1, <2>3 DEF k
<1> DEFINE j == Len(items) + (i - 1)
<1>6. Len(items) \in Nat
  BY LenProperties
<1>7. /\ j \in 1 .. Len(items) + Len(Tail(todo)) /\ j > Len(items)
      /\ j - Len(items) = i - 1
  BY <1>4, <1>5, <1>6
<1> HIDE DEF j
<1>8. /\ Len(items \o Tail(todo)) = Len(items) + Len(Tail(todo))
      /\ items \o Tail(todo) \in Seq(Item)
      /\ (items \o Tail(todo))[j] = Tail(todo)[j - Len(items)]
  BY <1>5, <1>6, <1>7, ConcatProperties
<1>9. j \in DOMAIN todo' /\ todo'[j].do = "leave"
  <2>1. DOMAIN todo' = 1 .. Len(items) + Len(Tail(todo))
    BY <1>8, LenProperties DEF Go
  <2> QED
    BY <1>1, <1>5, <1>7, <1>8, <2>1 DEF Go
<1> QED
  BY <1>9

-----------------------------------------------------------------------------
(* The steps that move no value.                                           *)
LEMMA InFirst ==
  ASSUME NEW s \in Seq(Item), NEW t \in Seq(Item), NEW i \in 1 .. Len(s)
  PROVE  i \in DOMAIN (s \o t) /\ (s \o t)[i] = s[i]
<1>1. Len(s) \in Nat /\ Len(t) \in Nat
  BY LenProperties
<1>2. /\ s \o t \in Seq(Item) /\ Len(s \o t) = Len(s) + Len(t)
      /\ \A k \in 1 .. Len(s) + Len(t) : (s \o t)[k] = IF k <= Len(s) THEN s[k] ELSE t[k - Len(s)]
  BY ConcatProperties
<1>3. i \in 1 .. Len(s) + Len(t) /\ i <= Len(s)
  BY <1>1
<1> QED
  BY <1>2, <1>3, LenProperties

LEMMA PlacedStays ==
  ASSUME Placed, UNCHANGED <<vals, nodes, root>>
  PROVE  Placed'
<1> SUFFICES ASSUME NEW i \in DOMAIN nodes'  PROVE OnePlace(i)'
  BY DEF Placed
<1>1. /\ \A j : AtVal(i, j)' <=> AtVal(i, j)
      /\ \A a, k : AtPart(i, a, k)' <=> AtPart(i, a, k)
  BY DEF AtVal, AtPart
<1> QED
  BY <1>1 DEF Placed, OnePlace

LEMMA ThrowKeeps ==
  ASSUME IInv, NEW error \in Errors, Throw(error), UNCHANGED <<vals, nodes, root>>,
         read' \in Seq(Lexemes), StopsAtEnd',
         tok'.lex \in Lexemes \cup {"none"}, prev'.lex \in Lexemes \cup {"none"}
  PROVE  IInv'
<1>1. error # "running" /\ error # "parsed"
  BY DEF Errors
<1>2. Typed'
  BY DEF IInv, Typed, Throw, Values
<1>3. Looked' /\ Fits' /\ WillLeave' /\ Done'
  BY <1>1 DEF Looked, Fits, WillLeave, Done, Throw
<1>4. Placed'
  BY PlacedStays DEF IInv
<1> QED
  BY <1>2, <1>3, <1>4 DEF IInv

LEMMA GoKeeps ==
  ASSUME IInv, NEW items, NEW p \in States, NEW q \in States,
         outcome = "running", Go(items), arg_ctxt' \in BOOLEAN, WillLeave',
         UNCHANGED <<read, tok, prev, vals, nodes, root, outcome>>,
         p.n = Len(vals), Shows(p.last), Takes(items, p, q),
         Takes(Tail(todo), q, At(0, "end"))
  PROVE  IInv'
<1>1. Typed' /\ Looked' /\ Done'
  BY DEF IInv, Typed, Looked, StopsAtEnd, Done, Values
<1>2. Shows(p.last)' /\ p.n = Len(vals)'
  BY DEF Shows
<1>3. Takes(todo', p, At(0, "end"))
  BY TakesBoth DEF Go
<1>4. Fits'
  BY <1>2, <1>3 DEF Fits
<1>5. Placed'
  BY PlacedStays DEF IInv
<1> QED
  BY <1>1, <1>4, <1>5 DEF IInv

LEMMA CallKeeps == IInv /\ Call => IInv'
<1> SUFFICES ASSUME IInv, Call  PROVE IInv'
  OBVIOUS
<1> DEFINE sym == Head(todo).arg
<1>1. Running("parse") /\ Go(Body(sym)) /\ sym \notin {"node_args", "arg_value"}
  BY DEF Call, Calling
<1>2. PICK p, q \in States :
        /\ p.n = Len(vals) /\ Shows(p.last) /\ Leads(Head(todo), p, q)
        /\ Takes(Tail(todo), q, At(0, "end"))
        /\ Head(todo) \in Item /\ Head(todo).do = "parse"
  BY <1>1, Here
<1>3. Head(todo) = Parse(sym) /\ sym \in Symbols
  BY <1>2, ItemIs
<1> HIDE DEF sym
<1>4. /\ Uses(Head(todo)) = 0 /\ Makes(Head(todo)) = 1
      /\ After(Head(todo)) = IF sym = "tree" THEN "tree" ELSE "other"
  BY <1>3, ParseItem
<1>5. /\ p.last \in Amid /\ p.n \in Nat /\ p = At(p.n, p.last)
      /\ q = At(p.n - 0 + 1, IF sym = "tree" THEN "tree" ELSE "other")
  BY <1>2, <1>4, Meant
<1>6. Takes(Body(sym), p, q)
  <2>1. p.n - 0 + 1 = p.n + 1
    BY <1>5
  <2> QED
    BY <1>1, <1>3, <1>5, <2>1, BodyTakes
<1>7. WillLeave'
  <2>1. CASE sym = "node_arg"
    <3> DEFINE s == Body(sym)
               t == Tail(todo)
    <3>1. s = <<Need("."), LeaveCtxt, Parse("arg_name"), Need("="),
                Parse("arg_value"), New("NodeArg", 2), LeaveCtxt>>
      BY <2>1 DEF Body
    <3>2. Len(s) = 7 /\ s[2] = LeaveCtxt
      BY <3>1
    <3>3. s \in Seq(Item) /\ t \in Seq(Item)
      BY <1>2, <1>6, TakesEnds
    <3> HIDE DEF s, t
    <3>4. 2 \in DOMAIN (s \o t) /\ (s \o t)[2] = s[2]
      <4>1. 2 \in 1 .. Len(s)
        BY <3>2
      <4> QED
        BY <3>3, <4>1, InFirst
    <3>5. 2 \in DOMAIN todo' /\ todo'[2].do = "leave"
      BY <1>1, <3>2, <3>4, LeaveItem DEF Go, s, t
    <3> QED
      BY <3>5 DEF WillLeave
  <2>2. CASE sym # "node_arg"
    <3>1. arg_ctxt' => arg_ctxt
      BY <2>2 DEF Call, Calling, sym, IInv, Typed
    <3> QED
      BY <1>1, <1>6, <3>1, StillLeave, TakesEnds
  <2> QED
    BY <2>1, <2>2
<1> QED
  BY <1>1, <1>2, <1>6, <1>7, GoKeeps DEF Call, Running, Calling, IInv, Typed

LEMMA NodeArgsKeeps == IInv /\ NodeArgs => IInv'
<1> SUFFICES ASSUME IInv, NodeArgs  PROVE IInv'
  OBVIOUS
<1>1. Running("parse") /\ Head(todo).arg = "node_args"
  BY DEF NodeArgs, Calling
<1>2. PICK p, q \in States :
        /\ p.n = Len(vals) /\ Shows(p.last) /\ Leads(Head(todo), p, q)
        /\ Takes(Tail(todo), q, At(0, "end"))
        /\ Head(todo) \in Item /\ Head(todo).do = "parse"
  BY <1>1, Here
<1>3. Head(todo) = Parse("node_args")
  BY <1>1, <1>2, ItemIs
<1>4. /\ Uses(Head(todo)) = 0 /\ Makes(Head(todo)) = 1 /\ After(Head(todo)) = "other"
  BY <1>3, ParseItem DEF Symbols
<1>5. /\ p.last \in Amid /\ p.n \in Nat /\ p = At(p.n, p.last)
      /\ q = At(p.n - 0 + 1, "other")
  BY <1>2, <1>4, Meant
<1>6. p.n - 0 + 1 = p.n + 1
  BY <1>5
<1>7. ASSUME NEW items, Takes(items, p, q), Go(items), UNCHANGED <<arg_ctxt, outcome>>
      PROVE  IInv'
  <2>1. arg_ctxt' \in BOOLEAN /\ outcome = "running"
    BY <1>1, <1>7 DEF IInv, Typed, Running
  <2>2. WillLeave'
    BY <1>1, <1>7, StillLeave, TakesEnds
  <2> QED
    BY <1>2, <1>7, <2>1, <2>2, GoKeeps DEF NodeArgs
<1>8. CASE /\ Go(<<Loop("node_arg", 0)>>)
           /\ UNCHANGED <<arg_ctxt, outcome>>
  BY <1>5, <1>6, <1>7, <1>8, ArgsLoopBody
<1>9. CASE /\ Go(<<Parse("literal"), New("LiteralArgs", 1)>>)
           /\ UNCHANGED <<arg_ctxt, outcome>>
  BY <1>5, <1>6, <1>7, <1>9, LiteralArgsBody
<1>10. CASE Throw("syntax")
  BY <1>10, ThrowKeeps DEF NodeArgs, Errors, IInv, Typed, Looked, StopsAtEnd
<1> QED
  BY <1>8, <1>9, <1>10 DEF NodeArgs

LEMMA ArgValueKeeps == IInv /\ ArgValue => IInv'
<1> SUFFICES ASSUME IInv, ArgValue  PROVE IInv'
  OBVIOUS
<1>1. Running("parse") /\ Head(todo).arg = "arg_value"
  BY DEF ArgValue, Calling
<1>2. PICK p, q \in States :
        /\ p.n = Len(vals) /\ Shows(p.last) /\ Leads(Head(todo), p, q)
        /\ Takes(Tail(todo), q, At(0, "end"))
        /\ Head(todo) \in Item /\ Head(todo).do = "parse"
  BY <1>1, Here
<1>3. Head(todo) = Parse("arg_value")
  BY <1>1, <1>2, ItemIs
<1>4. /\ Uses(Head(todo)) = 0 /\ Makes(Head(todo)) = 1 /\ After(Head(todo)) = "other"
  BY <1>3, ParseItem DEF Symbols
<1>5. /\ p.last \in Amid /\ p.n \in Nat /\ p = At(p.n, p.last)
      /\ q = At(p.n - 0 + 1, "other")
  BY <1>2, <1>4, Meant
<1>6. p.n - 0 + 1 = p.n + 1
  BY <1>5
<1>7. ASSUME NEW items, Takes(items, p, q), Go(items), UNCHANGED <<arg_ctxt, outcome>>
      PROVE  IInv'
  <2>1. arg_ctxt' \in BOOLEAN /\ outcome = "running"
    BY <1>1, <1>7 DEF IInv, Typed, Running
  <2>2. WillLeave'
    BY <1>1, <1>7, StillLeave, TakesEnds
  <2> QED
    BY <1>2, <1>7, <2>1, <2>2, GoKeeps DEF ArgValue
<1>8. CASE /\ Go(<<Parse("tree_node"), New("NodeValue", 1)>>)
           /\ UNCHANGED <<arg_ctxt, outcome>>
  BY <1>5, <1>6, <1>7, <1>8, NodeValueBody
<1>9. CASE /\ Go(<<Need("kw_list"), Need("<"), Parse("node_name"), Need(">"),
                   Need("["), Loop("list_elem", 0)>>)
           /\ UNCHANGED <<arg_ctxt, outcome>>
  BY <1>5, <1>6, <1>7, <1>9, ListBody
<1>10. CASE /\ Go(<<Parse("literal"), New("LiteralValue", 1)>>)
            /\ UNCHANGED <<arg_ctxt, outcome>>
  BY <1>5, <1>6, <1>7, <1>10, LiteralValueBody
<1>11. CASE Throw("syntax")
  BY <1>11, ThrowKeeps DEF ArgValue, Errors, IInv, Typed, Looked, StopsAtEnd
<1> QED
  BY <1>8, <1>9, <1>10, <1>11 DEF ArgValue

LEMMA TurnLoopKeeps == IInv /\ TurnLoop => IInv'
<1> SUFFICES ASSUME IInv, TurnLoop  PROVE IInv'
  OBVIOUS
<1> DEFINE sym == Head(todo).arg
           k == Head(todo).n
           items == IF Peek({Opens(sym)}) THEN <<Parse(sym), Loop(sym, k + 1)>>
                                          ELSE AfterLoop(sym, k)
<1>1. Running("loop") /\ Go(items)
  BY DEF TurnLoop
<1>2. PICK p, q \in States :
        /\ p.n = Len(vals) /\ Shows(p.last) /\ Leads(Head(todo), p, q)
        /\ Takes(Tail(todo), q, At(0, "end"))
        /\ Head(todo) \in Item /\ Head(todo).do = "loop"
  BY <1>1, Here
<1>3. Head(todo) = Loop(sym, k) /\ sym \in {"node_arg", "list_elem"} /\ k \in Nat
  BY <1>2, ItemIs
<1> HIDE DEF sym, k
<1>4. Makes(Head(todo)) = 1 /\ After(Head(todo)) = "other"
  BY <1>3, LoopItem
<1>5. /\ p.last \in Amid /\ p.n \in Nat /\ p = At(p.n, p.last) /\ p.n >= Uses(Loop(sym, k))
      /\ q = At(p.n - Uses(Loop(sym, k)) + 1, "other")
  BY <1>2, <1>3, <1>4, Meant
<1>6. Takes(items, p, q)
  BY <1>3, <1>5, AfterLoopTakes
<1> HIDE DEF items
<1>7. arg_ctxt' \in BOOLEAN /\ outcome = "running" /\ arg_ctxt' = arg_ctxt
  BY <1>1 DEF TurnLoop, IInv, Typed, Running
<1>8. WillLeave'
  BY <1>1, <1>6, <1>7, StillLeave, TakesEnds
<1> QED
  BY <1>1, <1>2, <1>6, <1>7, <1>8, GoKeeps DEF TurnLoop

LEMMA LeaveArgCtxtKeeps == IInv /\ LeaveArgCtxt => IInv'
<1> SUFFICES ASSUME IInv, LeaveArgCtxt  PROVE IInv'
  OBVIOUS
<1>1. Running("leave") /\ Go(<<>>) /\ arg_ctxt' = FALSE
  BY DEF LeaveArgCtxt
<1>2. PICK p, q \in States :
        /\ p.n = Len(vals) /\ Shows(p.last) /\ Leads(Head(todo), p, q)
        /\ Takes(Tail(todo), q, At(0, "end"))
        /\ Head(todo) \in Item /\ Head(todo).do = "leave"
  BY <1>1, Here
<1>3. Uses(Head(todo)) = 0 /\ Makes(Head(todo)) = 0 /\ After(Head(todo)) = "other"
  BY <1>2 DEF Uses, Makes, After
<1>4. /\ p.last \in Amid /\ p.n \in Nat /\ p = At(p.n, p.last)
      /\ q = At(p.n - 0 + 0, "other")
  BY <1>2, <1>3, Meant
<1>5. p.n - 0 + 0 = p.n
  BY <1>4
<1>6. q.n = Len(vals) /\ q.last = "other" /\ Shows(q.last)
  <2>1. q.n = Len(vals) /\ q.last = "other"
    BY <1>2, <1>4, <1>5, AtFields
  <2>2. p.last # "start" /\ p.last # "root"
    BY <1>4 DEF Amid
  <2> QED
    BY <1>2, <2>1, <2>2 DEF Shows
<1>7. Takes(<<>>, q, q)
  BY NothingToDo
<1>8. WillLeave'
  BY <1>1 DEF WillLeave
<1> QED
  BY <1>1, <1>2, <1>6, <1>7, <1>8, GoKeeps DEF LeaveArgCtxt, Running

-----------------------------------------------------------------------------
(* The steps that take a token.                                            *)
LEMMA TypeIsEos ==
  ASSUME NEW lex \in Lexemes \ {Bad}
  PROVE  TypeOf(lex) = "eos" <=> lex = EOS
<1> USE LexemeAssumption DEF TypeOf
<1>1. CASE lex \in Marks
  BY <1>1 DEF Marks, EOS
<1>2. CASE lex \in Idents
  BY <1>2 DEF Marks, EOS
<1>3. CASE lex \in Names
  BY <1>3 DEF Marks, EOS
<1>4. CASE lex \in Strs
  BY <1>4 DEF Marks, EOS
<1>5. CASE lex \in Nums
  BY <1>5 DEF Marks, EOS
<1>6. CASE lex = "list"
  BY <1>6 DEF Marks, EOS
<1>7. CASE lex = EOS
  BY <1>7 DEF Marks, EOS
<1> QED
  BY <1>1, <1>2, <1>3, <1>4, <1>5, <1>6, <1>7 DEF Lexemes

LEMMA NextTokenKeeps ==
  ASSUME IInv, Running("begin") \/ Running("need"), NextToken(<<>>),
         UNCHANGED <<vals, nodes, root>>, prev'.lex \in Lexemes \cup {"none"},
         read = <<>> \/ read[Len(read)] # EOS, root = 0,
         NEW q \in States, q.n = Len(vals), Takes(Tail(todo), q, At(0, "end")),
         q.last \in {"need", "other"}, q.last = "need" => prev'.lex \in Lexemes
  PROVE  IInv'
<1>1. PICK lex \in Offered :
        /\ read' = Append(read, lex)
        /\ IF lex = Bad
             THEN Throw("syntax") /\ UNCHANGED tok
             ELSE /\ tok' = [type |-> TypeOf(lex), lex |-> lex]
                  /\ Go(<<>>)
                  /\ UNCHANGED <<arg_ctxt, outcome>>
  BY DEF NextToken
<1>2. lex \in Lexemes /\ read \in Seq(Lexemes)
  BY DEF Offered, Lexemes, IInv, Typed
<1>3. /\ read' \in Seq(Lexemes) /\ Len(read') = Len(read) + 1 /\ Len(read) \in Nat
      /\ \A i \in 1 .. Len(read) : read'[i] = read[i]
      /\ read'[Len(read) + 1] = lex /\ read' # <<>>
  BY <1>1, <1>2, AppendProperties, LenProperties
<1>4. StopsAtEnd'
  <2> SUFFICES ASSUME NEW i \in 1 .. Len(read') - 1  PROVE read'[i] # EOS
    BY DEF StopsAtEnd
  <2>1. i \in 1 .. Len(read) /\ read'[i] = read[i] /\ read # <<>>
    BY <1>2, <1>3
  <2>2. CASE i = Len(read)
    BY <2>1, <2>2
  <2>3. CASE i # Len(read)
    <3>1. i \in 1 .. Len(read) - 1
      BY <1>3, <2>1, <2>3
    <3> QED
      BY <2>1, <3>1 DEF IInv, Looked, StopsAtEnd
  <2> QED
    BY <2>2, <2>3
<1>5. CASE lex = Bad
  BY <1>1, <1>3, <1>4, <1>5, ThrowKeeps DEF Errors, IInv, Typed
<1>6. CASE lex # Bad
  <2>1. tok'.lex = lex /\ tok'.type = TypeOf(lex) /\ todo' = <<>> \o Tail(todo)
        /\ arg_ctxt' = arg_ctxt /\ outcome' = outcome /\ outcome = "running"
    BY <1>1, <1>6 DEF Go, Running
  <2>2. Typed' /\ Done'
    BY <1>2, <1>3, <2>1 DEF IInv, Typed, Values, Done
  <2>3. Looked'
    BY <1>2, <1>3, <1>4, <1>6, <2>1, TypeIsEos DEF Looked
  <2>4. Fits'
    <3>1. Shows(q.last)'
      BY <1>3 DEF Shows
    <3>2. Takes(todo', q, At(0, "end"))
      BY <2>1, NothingToDo, TakesBoth
    <3> QED
      BY <3>1, <3>2 DEF Fits
  <2>5. WillLeave'
    <3>1. <<>> \in Seq(Item)
      OBVIOUS
    <3> QED
      BY <1>1, <1>6, <2>1, <3>1, StillLeave
  <2>6. Placed'
    BY PlacedStays DEF IInv
  <2> QED
    BY <2>2, <2>3, <2>4, <2>5, <2>6 DEF IInv
<1> QED
  BY <1>5, <1>6

LEMMA BeginKeeps == IInv /\ BeginParse => IInv'
<1> SUFFICES ASSUME IInv, BeginParse  PROVE IInv'
  OBVIOUS
<1>1. Running("begin")
  BY DEF BeginParse
<1>2. PICK p, q \in States :
        /\ p.n = Len(vals) /\ Shows(p.last) /\ Leads(Head(todo), p, q)
        /\ Takes(Tail(todo), q, At(0, "end"))
        /\ Head(todo) \in Item /\ Head(todo).do = "begin"
  BY <1>1, Here
<1>3. p.last = "start" /\ p.n \in Nat /\ q.n = p.n - 0 + 0 /\ q.last = "other"
  BY <1>2 DEF Leads, Uses, Makes, After, States
<1>4. read = <<>> /\ root = 0 /\ q.n = Len(vals)
  BY <1>2, <1>3 DEF Shows
<1> QED
  BY <1>1, <1>2, <1>3, <1>4, NextTokenKeeps DEF BeginParse, IInv, Typed

LEMMA NeedKeeps == IInv /\ NeedToken => IInv'
<1> SUFFICES ASSUME IInv, NeedToken  PROVE IInv'
  OBVIOUS
<1>1. Running("need")
  BY DEF NeedToken
<1>2. PICK p, q \in States :
        /\ p.n = Len(vals) /\ Shows(p.last) /\ Leads(Head(todo), p, q)
        /\ Takes(Tail(todo), q, At(0, "end"))
        /\ Head(todo) \in Item /\ Head(todo).do = "need"
  BY <1>1, Here
<1>3. Uses(Head(todo)) = 0 /\ Makes(Head(todo)) = 0 /\ After(Head(todo)) = "need"
  BY <1>2 DEF Uses, Makes, After
<1>4. p.last \in Amid /\ p.n \in Nat /\ q = At(p.n - 0 + 0, "need")
  BY <1>2, <1>3, Meant
<1>5. q.n = Len(vals) /\ q.last = "need"
  BY <1>2, <1>4, AtFields
<1>6. read # <<>> /\ root = 0
  BY <1>2, <1>4 DEF Shows, Amid
<1>7. tok.lex = read[Len(read)] /\ tok.lex \in Lexemes /\ (tok.type = "eos" <=> tok.lex = EOS)
  BY <1>1, <1>6 DEF IInv, Looked, Running
<1>8. CASE Peek({Head(todo).arg})
  <2>1. tok.type # "eos"
    BY <1>2, <1>8, ItemIs DEF Peek, NeededTypes, Marks
  <2>2. prev' = tok /\ NextToken(<<>>)
    BY <1>8 DEF NeedToken
  <2> QED
    BY <1>1, <1>2, <1>5, <1>6, <1>7, <2>1, <2>2, NextTokenKeeps DEF NeedToken
<1>9. CASE ~Peek({Head(todo).arg})
  BY <1>9, ThrowKeeps DEF NeedToken, Errors, IInv, Typed, Looked, StopsAtEnd
<1> QED
  BY <1>8, <1>9

-----------------------------------------------------------------------------
(* The steps that move values.                                             *)
LEMMA TextIsNoNode == \A l, i : TextOf(l) # NodeAt(i)
<1> SUFFICES ASSUME NEW l, NEW i  PROVE TextOf(l) # NodeAt(i)
  OBVIOUS
<1>1. DOMAIN TextOf(l) = {"text"} /\ DOMAIN NodeAt(i) = {"node"}
  BY DEF TextOf, NodeAt
<1>2. "text" # "node"
  OBVIOUS
<1> QED
  BY <1>1, <1>2

LEMMA PushKeeps ==
  ASSUME IInv, Running("text") \/ Running("index"), vals' = Append(vals, TextOf(prev.lex)),
         Go(<<>>), UNCHANGED <<read, tok, prev, arg_ctxt, nodes, root, outcome>>
  PROVE  IInv'
<1>1. PICK p, q \in States :
        /\ p.n = Len(vals) /\ Shows(p.last) /\ Leads(Head(todo), p, q)
        /\ Takes(Tail(todo), q, At(0, "end"))
        /\ Head(todo) \in Item /\ Head(todo).do \in {"text", "index"}
  BY Here
<1>2. /\ p.last = "need" /\ p.n \in Nat /\ q.n = p.n - 0 + 1 /\ q.last = "other"
  BY <1>1 DEF Leads, Uses, Makes, After, States
<1>3. prev.lex \in Lexemes /\ TextOf(prev.lex) \in Values /\ vals \in Seq(Values)
  BY <1>1, <1>2 DEF Shows, TextOf, Values, IInv, Typed
<1>4. /\ vals' \in Seq(Values) /\ Len(vals') = Len(vals) + 1 /\ Len(vals) \in Nat
      /\ \A j \in 1 .. Len(vals) : vals'[j] = vals[j]
      /\ vals'[Len(vals) + 1] = TextOf(prev.lex)
  BY <1>3, AppendProperties, LenProperties
<1>5. outcome = "running" /\ outcome' = "running"
  BY DEF Running
<1>6. Typed' /\ Looked' /\ Done'
  BY <1>4, <1>5 DEF IInv, Typed, Looked, StopsAtEnd, Done, Values
<1>7. Fits'
  <2>1. q.n = Len(vals') /\ Shows(q.last)'
    BY <1>1, <1>2, <1>4 DEF Shows
  <2>2. Takes(todo', q, At(0, "end"))
    BY <1>1, NothingToDo, TakesBoth DEF Go
  <2> QED
    BY <2>1, <2>2 DEF Fits
<1>8. WillLeave'
  <2>1. <<>> \in Seq(Item)
    OBVIOUS
  <2> QED
    BY <2>1, StillLeave
<1>9. Placed'
  <2> SUFFICES ASSUME NEW i \in DOMAIN nodes'  PROVE OnePlace(i)'
    BY DEF Placed
  <2>1. ASSUME NEW j  PROVE AtVal(i, j)' <=> AtVal(i, j)
    <3>1. DOMAIN vals = 1 .. Len(vals) /\ DOMAIN vals' = 1 .. Len(vals) + 1
      BY <1>3, <1>4, LenProperties
    <3>2. CASE j \in 1 .. Len(vals)
      BY <1>4, <3>1, <3>2 DEF AtVal
    <3>3. CASE j = Len(vals) + 1
      BY <1>4, <3>1, <3>3, TextIsNoNode DEF AtVal
    <3> QED
      BY <1>4, <3>1, <3>2, <3>3 DEF AtVal
  <2>2. \A a, k : AtPart(i, a, k)' <=> AtPart(i, a, k)
    BY DEF AtPart
  <2> QED
    BY <2>1, <2>2 DEF IInv, Placed, OnePlace
<1> QED
  BY <1>6, <1>7, <1>8, <1>9 DEF IInv

LEMMA TakeTextKeeps == IInv /\ TakeText => IInv'
BY PushKeeps DEF TakeText

LEMMA TakeIndexKeeps == IInv /\ TakeIndex => IInv'
<1> SUFFICES ASSUME IInv, TakeIndex  PROVE IInv'
  OBVIOUS
<1>1. CASE prev.lex \in BigNums
  BY <1>1, ThrowKeeps DEF TakeIndex, Errors, IInv, Typed, Looked, StopsAtEnd
<1>2. CASE prev.lex \notin BigNums
  BY <1>2, PushKeeps DEF TakeIndex
<1> QED
  BY <1>1, <1>2

LEMMA SetRootKeeps == IInv /\ SetRoot => IInv'
<1> SUFFICES ASSUME IInv, SetRoot  PROVE IInv'
  OBVIOUS
<1>1. Running("root")
  BY DEF SetRoot
<1>2. PICK p, q \in States :
        /\ p.n = Len(vals) /\ Shows(p.last) /\ Leads(Head(todo), p, q)
        /\ Takes(Tail(todo), q, At(0, "end"))
        /\ Head(todo) \in Item /\ Head(todo).do = "root"
  BY <1>1, Here
<1>3. /\ p.last = "tree" /\ p.n \in Nat /\ q.n = p.n - 1 + 0 /\ q.last = "root"
  BY <1>2 DEF Leads, Uses, Makes, After, States
<1> DEFINE L == Len(vals)
           m == vals[L].node
<1>4. /\ L \in Nat /\ L > 0 /\ vals[L] = NodeAt(m) /\ m \in 1 .. Len(nodes)
      /\ root = 0 /\ read # <<>> /\ L - 1 \in Nat /\ L - 1 + 0 = L - 1
  BY <1>2, <1>3 DEF Shows, NodeAt
<1>5. vals \in Seq(Values) /\ nodes \in Seq([kind : Classes, parts : Seq(Values)])
  BY DEF IInv, Typed
<1>6. /\ vals' \in Seq(Values) /\ Len(vals') = L - 1
      /\ \A j \in 1 .. L - 1 : vals'[j] = vals[j]
  <2>1. vals' = SubSeq(vals, 1, L - 1)
    BY DEF SetRoot
  <2>2. 1 .. L - 1 \subseteq 1 .. L
    BY <1>4
  <2> QED
    BY <1>4, <1>5, <2>1, <2>2, SubSeqProperties
<1>7. outcome = "running" /\ outcome' = "running" /\ root' = m
  BY <1>1 DEF SetRoot, Running
<1> HIDE DEF m
<1>8. Typed' /\ Looked' /\ Done'
  BY <1>4, <1>6, <1>7 DEF SetRoot, IInv, Typed, Looked, StopsAtEnd, Done, Values
<1>9. Fits'
  <2>1. q.n = Len(vals') /\ Shows(q.last)'
    BY <1>2, <1>3, <1>4, <1>6 DEF SetRoot, Shows
  <2>2. Takes(todo', q, At(0, "end"))
    BY <1>2, NothingToDo, TakesBoth DEF SetRoot, Go
  <2> QED
    BY <2>1, <2>2 DEF Fits
<1>10. WillLeave'
  <2>1. <<>> \in Seq(Item)
    OBVIOUS
  <2> QED
    BY <1>1, <2>1, StillLeave DEF SetRoot
<1>11. Placed'
  <2> SUFFICES ASSUME NEW i \in DOMAIN nodes'  PROVE OnePlace(i)'
    BY DEF Placed
  <2>1. OnePlace(i) /\ OnePlace(m) /\ i # 0 /\ nodes' = nodes
    BY <1>4, <1>5, LenProperties DEF IInv, Placed, SetRoot
  <2>2. DOMAIN vals = 1 .. L /\ DOMAIN vals' = 1 .. L - 1
    BY <1>5, <1>6, LenProperties
  <2> HIDE DEF L
  <2>3. \A j : AtVal(i, j)' <=> AtVal(i, j) /\ j # L
    BY <1>4, <1>6, <2>2 DEF AtVal
  <2>4. \A a, k : AtPart(i, a, k)' <=> AtPart(i, a, k)
    BY <2>1 DEF AtPart
  <2>5. AtVal(m, L)
    BY <1>4, <2>2 DEF AtVal
  <2>6. CASE i = m
    BY <1>7, <2>1, <2>3, <2>4, <2>5, <2>6 DEF OnePlace
  <2>7. CASE i # m
    <3>1. ~AtVal(i, L)
      BY <1>4, <2>7 DEF AtVal, NodeAt
    <3>2. \A j : AtVal(i, j)' <=> AtVal(i, j)
      BY <2>3, <3>1
    <3> QED
      BY <1>4, <1>7, <2>1, <2>4, <2>7, <3>2 DEF OnePlace
  <2> QED
    BY <2>6, <2>7
<1> QED
  BY <1>8, <1>9, <1>10, <1>11 DEF IInv

LEMMA NothingAfter ==
  ASSUME IInv, Running("finish")
  PROVE  Tail(todo) = <<>>
<1> SUFFICES ASSUME Tail(todo) # <<>>  PROVE FALSE
  OBVIOUS
<1>1. PICK p, q \in States :
        /\ p.n = Len(vals) /\ Shows(p.last) /\ Leads(Head(todo), p, q)
        /\ Takes(Tail(todo), q, At(0, "end"))
        /\ Head(todo) \in Item /\ Head(todo).do = "finish"
  BY Here
<1>2. q.last = "end"
  BY <1>1 DEF Leads, After
<1>3. \E r \in States : Leads(Head(Tail(todo)), q, r)
  BY <1>1, TakesFirst
<1> QED
  BY <1>2, <1>3 DEF Leads

LEMMA FinishKeeps == IInv /\ FinishParse => IInv'
<1> SUFFICES ASSUME IInv, FinishParse  PROVE IInv'
  OBVIOUS
<1>1. Running("finish")
  BY DEF FinishParse
<1>2. PICK p, q \in States :
        /\ p.n = Len(vals) /\ Shows(p.last) /\ Leads(Head(todo), p, q)
        /\ Takes(Tail(todo), q, At(0, "end"))
        /\ Head(todo) \in Item /\ Head(todo).do = "finish"
  BY <1>1, Here
<1>3. /\ p.n \in Nat /\ q.n = p.n - 0 + 0 /\ q.last = "end"
  BY <1>2 DEF Leads, Uses, Makes, After, States
<1>4. Tail(todo) = <<>>
  BY <1>1, NothingAfter
<1>5. vals = <<>>
  <2>1. q = At(0, "end")
    BY <1>2, <1>4, NothingTaken
  <2>2. Len(vals) = 0
    BY <1>2, <1>3, <2>1, AtFields
  <2> QED
    BY <2>2, EmptySeq DEF IInv, Typed
<1>6. ~arg_ctxt
  <2>1. todo \in Seq(Item) /\ todo # <<>>
    BY <1>1, TakesEnds DEF IInv, Fits, Running
  <2>2. Len(todo) = 1 /\ DOMAIN todo = {1} /\ todo[1].do = "finish"
    <3>1. Head(todo) = todo[1] /\ Len(Tail(todo)) = Len(todo) - 1 /\ Len(todo) \in Nat
      BY <2>1, HeadTailProperties, LenProperties
    <3>2. Len(todo) = 1
      <4>1. Len(Tail(todo)) = 0
        BY <1>4, EmptySeq, Zenon
      <4> QED
        BY <3>1, <4>1
    <3> QED
      BY <1>2, <2>1, <3>1, <3>2, LenProperties
  <2> QED
    BY <2>2 DEF IInv, WillLeave
<1>7. CASE Peek({"eos"})
  <2>1. /\ outcome' = "parsed" /\ todo' = <<>>
        /\ UNCHANGED <<read, tok, prev, arg_ctxt, vals, nodes, root>>
    BY <1>7 DEF FinishParse
  <2>2. Typed' /\ Looked' /\ Fits' /\ WillLeave' /\ Done'
    BY <1>5, <1>6, <2>1
       DEF IInv, Typed, Looked, StopsAtEnd, Fits, WillLeave, Done, Values
  <2>3. Placed'
    BY <2>1, PlacedStays DEF IInv
  <2> QED
    BY <2>2, <2>3 DEF IInv
<1>8. CASE ~Peek({"eos"})
  BY <1>8, ThrowKeeps DEF FinishParse, Errors, IInv, Typed, Looked, StopsAtEnd
<1> QED
  BY <1>7, <1>8

LEMMA NewNodeKeeps == IInv /\ NewNode => IInv'
<1> SUFFICES ASSUME IInv, NewNode  PROVE IInv'
  OBVIOUS
<1>1. Running("new")
  BY DEF NewNode
<1>2. PICK p, q \in States :
        /\ p.n = Len(vals) /\ Shows(p.last) /\ Leads(Head(todo), p, q)
        /\ Takes(Tail(todo), q, At(0, "end"))
        /\ Head(todo) \in Item /\ Head(todo).do = "new"
  BY <1>1, Here
<1> DEFINE n == Head(todo).n
           class == Head(todo).arg
           L == Len(vals)
           N == Len(nodes)
<1>3. Head(todo) = New(class, n) /\ class \in Classes /\ n \in Nat
  BY <1>2, ItemIs
<1> HIDE DEF class
<1>4. Uses(Head(todo)) = n /\ Makes(Head(todo)) = 1 /\ After(Head(todo)) \in {"tree", "other"}
  BY <1>3, NewItem
<1>5. /\ p.last \in Amid /\ p.n \in Nat /\ p.n >= n
      /\ q = At(p.n - n + 1, After(Head(todo)))
  BY <1>2, <1>4, Meant
<1>6. /\ L \in Nat /\ L - n \in Nat /\ N \in Nat /\ n <= L /\ L - n <= L
      /\ vals \in Seq(Values) /\ nodes \in Seq([kind : Classes, parts : Seq(Values)])
  BY <1>2, <1>3, <1>5, LenProperties DEF IInv, Typed
<1>7. root = 0 /\ read # <<>> /\ outcome = "running"
  BY <1>1, <1>2, <1>5 DEF Shows, Amid, Running
<1>8. CASE Len(nodes) >= MaxNodes
  BY <1>8, ThrowKeeps DEF NewNode, Errors, IInv, Typed, Looked, StopsAtEnd
<1>9. CASE ~(Len(nodes) >= MaxNodes)
  <2> DEFINE kept == SubSeq(vals, 1, L - n)
             taken == SubSeq(vals, L - n + 1, L)
             made == [kind |-> class, parts |-> taken]
  <2>1. /\ nodes' = Append(nodes, made)
        /\ vals' = Append(kept, NodeAt(N + 1))
        /\ Go(<<>>) /\ UNCHANGED <<read, tok, prev, arg_ctxt, root, outcome>>
    BY <1>9 DEF NewNode, class
  <2>2. /\ kept \in Seq(Values) /\ Len(kept) = L - n
        /\ \A j \in 1 .. L - n : kept[j] = vals[j]
    <3>1. 1 .. L - n \subseteq 1 .. L
      BY <1>6
    <3>2. IF 1 <= L - n THEN L - n - 1 + 1 = L - n ELSE L - n = 0
      BY <1>6
    <3> QED
      BY <1>6, <3>1, <3>2, SubSeqProperties
  <2>3. /\ taken \in Seq(Values) /\ Len(taken) = n
        /\ \A k \in 1 .. n : taken[k] = vals[L - n + k]
    <3> DEFINE b == L - n + 1
    <3>1. /\ b \in Nat /\ b .. L \subseteq 1 .. L /\ L - b + 1 = n
          /\ IF b <= L THEN L - b + 1 = n ELSE n = 0
          /\ \A k \in 1 .. n : b + k - 1 = L - n + k
      <4> HIDE DEF n, L
      <4>1. n \in Nat /\ L \in Nat /\ n <= L
        BY <1>3, <1>6
      <4> QED
        BY <4>1
    <3> HIDE DEF b
    <3>2. /\ SubSeq(vals, b, L) \in Seq(Values)
          /\ Len(SubSeq(vals, b, L)) = IF b <= L THEN L - b + 1 ELSE 0
          /\ \A k \in 1 .. L - b + 1 : SubSeq(vals, b, L)[k] = vals[b + k - 1]
      BY <1>6, <3>1, SubSeqProperties
    <3>3. SubSeq(vals, b, L) = taken
      BY DEF b
    <3> QED
      BY <1>3, <3>1, <3>2, <3>3
  <2> HIDE DEF n, L, N, kept, taken
  <2>4. /\ N = Len(nodes) /\ L = Len(vals)
    BY DEF N, L
  <2>5. made \in [kind : Classes, parts : Seq(Values)] /\ made.parts = taken
    BY <1>3, <2>3
  <2> HIDE DEF made
  <2>6. /\ nodes' \in Seq([kind : Classes, parts : Seq(Values)]) /\ Len(nodes') = N + 1
        /\ \A a \in 1 .. N : nodes'[a] = nodes[a]
        /\ nodes'[N + 1] = made
    BY <1>6, <2>1, <2>4, <2>5, AppendProperties
  <2>7. Values \subseteq Values' /\ NodeAt(N + 1) \in Values'
        /\ NodeAt(N + 1) \in [node : 1 .. Len(nodes')]
    BY <1>6, <2>4, <2>6 DEF Values, NodeAt
  <2>8. /\ vals' \in Seq(Values') /\ Len(vals') = L - n + 1
        /\ \A j \in 1 .. L - n : vals'[j] = vals[j]
        /\ vals'[L - n + 1] = NodeAt(N + 1)
    <3>1. kept \in Seq(Values')
      BY <2>2, <2>7, SeqDef
    <3> QED
      BY <1>6, <2>1, <2>2, <2>7, <3>1, AppendProperties
  <2>9. nodes' \in Seq([kind : Classes, parts : Seq(Values')])
    <3>1. [kind : Classes, parts : Seq(Values)] \subseteq [kind : Classes, parts : Seq(Values')]
      <4>1. Seq(Values) \subseteq Seq(Values')
        BY <2>7, SeqMonotonic
      <4> QED
        BY <4>1
    <3> QED
      BY <2>6, <3>1, SeqMonotonic
  <2>10. Typed' /\ Looked' /\ Done'
    BY <1>6, <1>7, <2>1, <2>4, <2>6, <2>8, <2>9 DEF IInv, Typed, Looked, StopsAtEnd, Done
  <2>11. Fits'
    <3>1. q \in States /\ q.n = L - n + 1 /\ q.last \in {"tree", "other"}
      <4>1. p.n = L
        BY <1>2, <2>4
      <4>2. L - n + 1 \in Nat
        BY <1>6
      <4> QED
        BY <1>4, <1>5, <4>1, <4>2, AtFields
    <3>2. q.n = Len(vals')
      BY <2>8, <3>1
    <3>3. Shows(q.last)'
      <4>1. read' # <<>> /\ root' = 0
        BY <1>7, <2>1
      <4>2. Len(vals') > 0 /\ vals'[Len(vals')] = NodeAt(N + 1)
        BY <1>6, <2>8
      <4> QED
        BY <2>7, <3>1, <4>1, <4>2 DEF Shows
    <3>4. Takes(todo', q, At(0, "end"))
      BY <1>2, <2>1, NothingToDo, TakesBoth DEF Go
    <3> QED
      BY <3>2, <3>3, <3>4 DEF Fits
  <2>12. WillLeave'
    <3>1. <<>> \in Seq(Item)
      OBVIOUS
    <3> QED
      BY <1>1, <2>1, <3>1, StillLeave
  <2>13. Placed'
    <3> SUFFICES ASSUME NEW i \in DOMAIN nodes'  PROVE OnePlace(i)'
      BY DEF Placed
    <3>1. /\ DOMAIN vals = 1 .. L /\ DOMAIN vals' = 1 .. L - n + 1
          /\ DOMAIN nodes = 1 .. N /\ DOMAIN nodes' = 1 .. N + 1 /\ DOMAIN taken = 1 .. n
      BY <1>6, <2>3, <2>4, <2>6, <2>8, LenProperties
    <3>2. /\ i \in 1 .. N + 1 /\ n \in Nat /\ L \in Nat /\ N \in Nat /\ L - n \in Nat
          /\ root = 0 /\ root' = 0
      BY <1>3, <1>6, <1>7, <2>1, <3>1
    <3>3. \A j : AtVal(i, j)' <=> \/ AtVal(i, j) /\ j \in 1 .. L - n
                                  \/ i = N + 1 /\ j = L - n + 1
      <4> SUFFICES ASSUME NEW j
                   PROVE  AtVal(i, j)' <=> \/ AtVal(i, j) /\ j \in 1 .. L - n
                                           \/ i = N + 1 /\ j = L - n + 1
        OBVIOUS
      <4>1. CASE j \in 1 .. L - n
        <5>1. j \in 1 .. L /\ j \in 1 .. L - n + 1 /\ j # L - n + 1
          BY <3>2, <4>1
        <5> QED
          BY <2>8, <3>1, <4>1, <5>1 DEF AtVal
      <4>2. CASE j = L - n + 1
        <5>1. j \in 1 .. L - n + 1 /\ j \notin 1 .. L - n /\ vals'[j] = NodeAt(N + 1)
          BY <2>8, <3>2, <4>2
        <5>2. NodeAt(i) = NodeAt(N + 1) <=> i = N + 1
          BY DEF NodeAt
        <5> QED
          BY <3>1, <4>2, <5>1, <5>2 DEF AtVal
      <4>3. CASE j \notin 1 .. L - n /\ j # L - n + 1
        <5>1. j \notin 1 .. L - n + 1
          BY <3>2, <4>3
        <5> QED
          BY <3>1, <4>3, <5>1 DEF AtVal
      <4> QED
        BY <4>1, <4>2, <4>3
    <3>4. \A a, k : AtPart(i, a, k)' <=>
            \/ AtPart(i, a, k)
            \/ a = N + 1 /\ k \in 1 .. n /\ \E j : j = L - n + k /\ AtVal(i, j)
      <4> SUFFICES ASSUME NEW a, NEW k
                   PROVE  AtPart(i, a, k)' <=>
                            \/ AtPart(i, a, k)
                            \/ a = N + 1 /\ k \in 1 .. n /\ \E j : j = L - n + k /\ AtVal(i, j)
        OBVIOUS
      <4>1. CASE a \in 1 .. N
        <5>1. a \in 1 .. N + 1 /\ a # N + 1
          BY <3>2, <4>1
        <5> QED
          BY <2>6, <3>1, <4>1, <5>1 DEF AtPart
      <4>2. CASE a = N + 1
        <5>1. a \in 1 .. N + 1 /\ a \notin 1 .. N /\ nodes'[a].parts = taken
          BY <2>5, <2>6, <3>2, <4>2
        <5>2. AtPart(i, a, k)' <=> k \in 1 .. n /\ taken[k] = NodeAt(i)
          BY <3>1, <5>1 DEF AtPart
        <5>3. ~AtPart(i, a, k)
          BY <3>1, <5>1 DEF AtPart
        <5>4. ASSUME k \in 1 .. n
              PROVE  taken[k] = NodeAt(i) <=> \E j : j = L - n + k /\ AtVal(i, j)
          <6> DEFINE j == L - n + k
          <6>1. j \in 1 .. L /\ taken[k] = vals[j]
            BY <2>3, <3>2, <5>4
          <6> HIDE DEF j
          <6>2. taken[k] = NodeAt(i) <=> AtVal(i, j)
            BY <3>1, <6>1 DEF AtVal
          <6> QED
            BY <6>2 DEF j
        <5> QED
          BY <4>2, <5>2, <5>3, <5>4
      <4>3. CASE a \notin 1 .. N /\ a # N + 1
        <5>1. a \notin 1 .. N + 1
          BY <3>2, <4>3
        <5> QED
          BY <3>1, <4>3, <5>1 DEF AtPart
      <4> QED
        BY <4>1, <4>2, <4>3
    <3>5. CASE i = N + 1
      <4>1. \A j : ~AtVal(i, j)
        <5> SUFFICES ASSUME NEW j, AtVal(i, j)  PROVE FALSE
          OBVIOUS
        <5>1. NodeAt(i) \in Values
          BY <1>6, <2>4, <3>1, ElementOfSeq DEF AtVal
        <5> QED
          BY <2>4, <3>2, <3>5, <5>1 DEF Values, NodeAt
      <4>2. \A a, k : ~AtPart(i, a, k)
        <5> SUFFICES ASSUME NEW a, NEW k, AtPart(i, a, k)  PROVE FALSE
          OBVIOUS
        <5>1. a \in 1 .. Len(nodes) /\ nodes[a].parts \in Seq(Values)
          <6>1. a \in 1 .. Len(nodes)
            BY <2>4, <3>1 DEF AtPart
          <6>2. nodes[a] \in [kind : Classes, parts : Seq(Values)]
            BY <1>6, <6>1, ElementOfSeq
          <6> QED
            BY <6>1, <6>2
        <5>2. NodeAt(i) \in Values
          BY <5>1, LenProperties, ElementOfSeq DEF AtPart
        <5> QED
          BY <2>4, <3>2, <3>5, <5>2 DEF Values, NodeAt
      <4> QED
        BY <3>2, <3>3, <3>4, <3>5, <4>1, <4>2 DEF OnePlace
    <3>6. CASE i # N + 1
      <4>1. i \in 1 .. N /\ OnePlace(i)
        BY <3>1, <3>2, <3>6 DEF IInv, Placed
      <4>2. \A j : AtVal(i, j)' <=> AtVal(i, j) /\ j \in 1 .. L - n
        BY <3>3, <3>6
      <4>3. \A j : AtVal(i, j) => j \in 1 .. L
        BY <3>1 DEF AtVal
      <4>4. /\ \A j, l : AtVal(i, j) /\ AtVal(i, l) => j = l
            /\ \A a, b, k, l : AtPart(i, a, k) /\ AtPart(i, b, l) => a = b /\ k = l
            /\ \A j, a, k : ~(AtVal(i, j) /\ AtPart(i, a, k))
        BY <4>1 DEF OnePlace
      <4>5. \A j, l : AtVal(i, j)' /\ AtVal(i, l)' => j = l
        BY <4>2, <4>4
      <4>6. \A a, b, k, l : AtPart(i, a, k)' /\ AtPart(i, b, l)' => a = b /\ k = l
        <5> SUFFICES ASSUME NEW a, NEW b, NEW k, NEW l, AtPart(i, a, k)', AtPart(i, b, l)'
                     PROVE  a = b /\ k = l
          OBVIOUS
        <5>1. CASE AtPart(i, a, k)
          BY <3>4, <4>4, <5>1
        <5>2. CASE ~AtPart(i, a, k)
          <6>1. a = N + 1 /\ k \in 1 .. n /\ \E j : j = L - n + k /\ AtVal(i, j)
            BY <3>4, <5>2
          <6>2. ~AtPart(i, b, l)
            BY <4>4, <6>1
          <6>3. b = N + 1 /\ l \in 1 .. n /\ \E j : j = L - n + l /\ AtVal(i, j)
            BY <3>4, <6>2
          <6>4. L - n + k = L - n + l
            BY <4>4, <6>1, <6>3
          <6> QED
            BY <3>2, <6>1, <6>3, <6>4
        <5> QED
          BY <5>1, <5>2
      <4>7. \A j, a, k : ~(AtVal(i, j)' /\ AtPart(i, a, k)')
        <5> SUFFICES ASSUME NEW j, NEW a, NEW k, AtVal(i, j)', AtPart(i, a, k)'  PROVE FALSE
          OBVIOUS
        <5>1. AtVal(i, j) /\ j \in 1 .. L - n
          BY <4>2
        <5>2. ~AtPart(i, a, k)
          BY <4>4, <5>1
        <5>3. k \in 1 .. n /\ \E l : l = L - n + k /\ AtVal(i, l)
          BY <3>4, <5>2
        <5>4. j = L - n + k
          BY <4>4, <5>1, <5>3
        <5> QED
          BY <3>2, <5>1, <5>3, <5>4
      <4>8. (\E j : AtVal(i, j)') \/ (\E a, k : AtPart(i, a, k)')
        <5>1. i # root
          BY <3>2
        <5>2. CASE \E j : AtVal(i, j)
          <6>1. PICK j : AtVal(i, j)
            BY <5>2
          <6>2. CASE j \in 1 .. L - n
            BY <4>2, <6>1, <6>2
          <6>3. CASE j \notin 1 .. L - n
            <7>1. PICK k : k \in 1 .. n /\ L - n + k = j
              <8>1. j - (L - n) \in 1 .. n /\ L - n + (j - (L - n)) = j
                BY <3>2, <4>3, <6>1, <6>3
              <8> QED
                BY <8>1
            <7>2. \E l : l = L - n + k /\ AtVal(i, l)
              BY <6>1, <7>1
            <7>3. PICK b : b = N + 1
              OBVIOUS
            <7>4. AtPart(i, b, k)'
              BY <3>4, <7>1, <7>2, <7>3
            <7> QED
              BY <7>4
          <6> QED
            BY <6>2, <6>3
        <5>3. CASE \E a, k : AtPart(i, a, k)
          BY <3>4, <5>3
        <5> QED
          BY <4>1, <5>1, <5>2, <5>3 DEF OnePlace
      <4> QED
        BY <3>2, <4>5, <4>6, <4>7, <4>8 DEF OnePlace
    <3> QED
      BY <3>5, <3>6
  <2> QED
    BY <2>10, <2>11, <2>12, <2>13 DEF IInv
<1> QED
  BY <1>8, <1>9
-----------------------------------------------------------------------------
LEMMA BeginsRight ==
  Takes(<<Begin, Parse("tree"), Root, Finish>>, At(0, "start"), At(0, "end"))
<1> DEFINE s == <<Begin, Parse("tree"), Root, Finish>>
           d == <<At(0, "start"), At(0, "other"), At(1, "tree"), At(0, "root"), At(0, "end")>>
<1>1. Begin \in Item /\ Root \in Item /\ Finish \in Item /\ Parse("tree") \in Item
  BY DEF Begin, Root, Finish, Parse, Do, Item, Others, Symbols
<1>2. s \in Seq(Item) /\ Len(s) = 4
  BY <1>1
<1>3. d \in Seq(States) /\ Len(d) = 5
  BY AtFields
<1>4. s[1] = Begin /\ s[2] = Parse("tree") /\ s[3] = Root /\ s[4] = Finish
  OBVIOUS
<1>5. /\ d[1] = At(0, "start") /\ d[2] = At(0, "other") /\ d[3] = At(1, "tree")
      /\ d[4] = At(0, "root") /\ d[5] = At(0, "end")
  OBVIOUS
<1>6. Leads(Begin, At(0, "start"), At(0, "other"))
  <2>1. Begin.do = "begin" /\ Uses(Begin) = 0 /\ Makes(Begin) = 0 /\ After(Begin) = "other"
    BY DEF Begin, Do, Uses, Makes, After
  <2> QED
    BY <1>1, <2>1, AtFields DEF Leads
<1>7. Leads(Parse("tree"), At(0, "other"), At(1, "tree"))
  <2>1. Leads(Parse("tree"), At(0, "other"), At(0 + 1, "tree"))
    BY Items DEF Amid, Symbols
  <2> QED
    BY <2>1
<1>8. Leads(Root, At(1, "tree"), At(0, "root"))
  <2>1. Root.do = "root" /\ Uses(Root) = 1 /\ Makes(Root) = 0 /\ After(Root) = "root"
    BY DEF Root, Do, Uses, Makes, After
  <2> QED
    BY <1>1, <2>1, AtFields DEF Leads
<1>9. Leads(Finish, At(0, "root"), At(0, "end"))
  <2>1. Finish.do = "finish" /\ Uses(Finish) = 0 /\ Makes(Finish) = 0 /\ After(Finish) = "end"
    BY DEF Finish, Do, Uses, Makes, After
  <2> QED
    BY <1>1, <2>1, AtFields DEF Leads
<1> HIDE DEF s, d
<1>10. \A i \in 1 .. Len(s) : Leads(s[i], d[i], d[i + 1])
  <2>1. 1 .. Len(s) = 1 .. 4
    BY <1>2
  <2>2. ASSUME NEW i \in 1 .. 4  PROVE Leads(s[i], d[i], d[i + 1])
    <3>1. i = 1 \/ i = 2 \/ i = 3 \/ i = 4
      OBVIOUS
    <3> QED
      BY <3>1, <1>4, <1>5, <1>6, <1>7, <1>8, <1>9
  <2> QED
    BY <2>1, <2>2
<1>11. Len(s) + 1 = 5 /\ Len(d) = Len(s) + 1
  BY <1>2, <1>3
<1>12. Takes(s, d[1], d[Len(s) + 1])
  BY <1>2, <1>3, <1>10, <1>11, TakesEach
<1> QED
  BY <1>5, <1>11, <1>12 DEF s

LEMMA InitIsSound == Init => IInv
<1> SUFFICES ASSUME Init  PROVE IInv
  OBVIOUS
<1>1. /\ read = <<>> /\ tok.lex = "none" /\ prev.lex = "none" /\ arg_ctxt = FALSE
      /\ vals = <<>> /\ nodes = <<>> /\ root = 0 /\ outcome = "running"
  BY DEF Init, Bos
<1>2. Len(<<>>) = 0 /\ DOMAIN <<>> = {} /\ \A S : <<>> \in Seq(S)
  OBVIOUS
<1>3. Typed
  <2>1. /\ read \in Seq(Lexemes) /\ vals \in Seq(Values)
        /\ nodes \in Seq([kind : Classes, parts : Seq(Values)])
    BY <1>1, <1>2
  <2>2. root \in 0 .. Len(nodes)
    BY <1>1, <1>2
  <2> QED
    BY <1>1, <2>1, <2>2 DEF Typed
<1>4. Looked
  <2>1. 1 .. Len(read) - 1 = {}
    BY <1>1, <1>2
  <2> QED
    BY <1>1, <2>1 DEF Looked, StopsAtEnd
<1>5. Fits
  <2> DEFINE p == At(0, "start")
  <2>1. p \in States /\ p.n = 0 /\ p.last = "start"
    BY AtFields
  <2>2. Takes(todo, p, At(0, "end"))
    BY BeginsRight DEF Init
  <2> HIDE DEF p
  <2>3. p.n = Len(vals) /\ Shows(p.last)
    BY <1>1, <1>2, <2>1 DEF Shows
  <2> QED
    BY <2>1, <2>2, <2>3 DEF Fits
<1>6. WillLeave /\ Done /\ Placed
  BY <1>1, <1>2 DEF WillLeave, Done, Placed
<1> QED
  BY <1>3, <1>4, <1>5, <1>6 DEF IInv

LEMMA StepKeeps == IInv /\ [Next]_vars => IInv'
<1> SUFFICES ASSUME IInv, [Next]_vars  PROVE IInv'
  OBVIOUS
<1>1. CASE BeginParse
  BY <1>1, BeginKeeps
<1>2. CASE NeedToken
  BY <1>2, NeedKeeps
<1>3. CASE Call
  BY <1>3, CallKeeps
<1>4. CASE NodeArgs
  BY <1>4, NodeArgsKeeps
<1>5. CASE ArgValue
  BY <1>5, ArgValueKeeps
<1>6. CASE TurnLoop
  BY <1>6, TurnLoopKeeps
<1>7. CASE LeaveArgCtxt
  BY <1>7, LeaveArgCtxtKeeps
<1>8. CASE TakeText
  BY <1>8, TakeTextKeeps
<1>9. CASE TakeIndex
  BY <1>9, TakeIndexKeeps
<1>10. CASE NewNode
  BY <1>10, NewNodeKeeps
<1>11. CASE SetRoot
  BY <1>11, SetRootKeeps
<1>12. CASE FinishParse
  BY <1>12, FinishKeeps
<1>13. CASE UNCHANGED vars
  <2>1. Typed' /\ Looked' /\ Fits' /\ WillLeave' /\ Done'
    BY <1>13 DEF vars, IInv, Typed, Looked, StopsAtEnd, Fits, Shows, WillLeave, Done, Values
  <2>2. Placed'
    BY <1>13, PlacedStays DEF IInv, vars
  <2> QED
    BY <2>1, <2>2 DEF IInv
<1> QED
  BY <1>1, <1>2, <1>3, <1>4, <1>5, <1>6, <1>7, <1>8, <1>9, <1>10, <1>11, <1>12, <1>13 DEF Next

(* The parser's stacks fit each other in every state.                      *)
THEOREM Invariance == Spec => []IInv
<1>1. Init => IInv
  BY InitIsSound
<1>2. IInv /\ [Next]_vars => IInv'
  BY StepKeeps
<1> QED
  BY <1>1, <1>2, PTL DEF Spec

(* On every input, however long and however nested: the parser's variables *)
(* have their types, arg_ctxt is reset however the parse ends, and         *)
(* next_token is not called again once it has met the end of the input.    *)
THEOREM ParserIsSound == Spec => []StateIsSound
<1>1. IInv => StateIsSound
  <2> SUFFICES ASSUME IInv  PROVE StateIsSound
    OBVIOUS
  <2>1. \A a \in DOMAIN nodes : nodes[a].parts \in Seq(Values)
    <3> SUFFICES ASSUME NEW a \in DOMAIN nodes  PROVE nodes[a].parts \in Seq(Values)
      OBVIOUS
    <3>1. nodes \in Seq([kind : Classes, parts : Seq(Values)])
      BY DEF IInv, Typed
    <3>2. nodes[a] \in [kind : Classes, parts : Seq(Values)]
      BY <3>1, LenProperties, ElementOfSeq
    <3> QED
      BY <3>2
  <2>2. arg_ctxt => outcome = "running"
    BY DEF IInv, Done
  <2> QED
    BY <2>1, <2>2 DEF IInv, Typed, Looked, StateIsSound, TypeOK
<1> QED
  BY <1>1, Invariance, PTL

(* Whatever is parsed is a tree: every node but the root is part of exactly*)
(* one other, the root of none, and no value is left over.                 *)
THEOREM ParsedIsTree == Spec => []AstIsTree
<1>1. IInv => AstIsTree
  <2> SUFFICES ASSUME IInv, outcome = "parsed"
               PROVE  /\ vals = <<>>
                      /\ \A i \in DOMAIN nodes :
                           Cardinality(PlacesOf(i)) = IF i = root THEN 0 ELSE 1
    BY DEF AstIsTree
  <2>1. vals = <<>>
    BY DEF IInv, Done
  <2>2. ASSUME NEW i \in DOMAIN nodes
        PROVE  Cardinality(PlacesOf(i)) = IF i = root THEN 0 ELSE 1
    <3>1. \A j : ~AtVal(i, j)
      BY <2>1 DEF AtVal
    <3>2. OnePlace(i)
      BY DEF IInv, Placed
    <3>3. \A x : x \in PlacesOf(i) <=> \E a, k : x = <<a, k>> /\ AtPart(i, a, k)
      <4> SUFFICES ASSUME NEW x
                   PROVE  x \in PlacesOf(i) <=> \E a, k : x = <<a, k>> /\ AtPart(i, a, k)
        OBVIOUS
      <4>1. ASSUME x \in PlacesOf(i)  PROVE \E a, k : x = <<a, k>> /\ AtPart(i, a, k)
        <5>1. PICK a \in DOMAIN nodes : x \in {a} \X DOMAIN nodes[a].parts
          BY <4>1 DEF PlacesOf
        <5>2. x = <<a, x[2]>> /\ x[1] = a /\ x[2] \in DOMAIN nodes[a].parts
          BY <5>1
        <5>3. nodes[x[1]].parts[x[2]] = NodeAt(i)
          BY <4>1 DEF PlacesOf
        <5> QED
          BY <5>1, <5>2, <5>3 DEF AtPart
      <4>2. ASSUME NEW a, NEW k, x = <<a, k>>, AtPart(i, a, k)  PROVE x \in PlacesOf(i)
        <5>1. a \in DOMAIN nodes /\ x \in {a} \X DOMAIN nodes[a].parts
          BY <4>2 DEF AtPart
        <5>2. nodes[x[1]].parts[x[2]] = NodeAt(i)
          BY <4>2 DEF AtPart
        <5> QED
          BY <5>1, <5>2 DEF PlacesOf
      <4> QED
        BY <4>1, <4>2
    <3>4. CASE i = root
      <4>1. \A a, k : ~AtPart(i, a, k)
        BY <3>2, <3>4 DEF OnePlace
      <4>2. PlacesOf(i) = {}
        BY <3>3, <4>1
      <4> QED
        BY <3>4, <4>2, FS_EmptySet
    <3>5. CASE i # root
      <4>1. PICK a, k : AtPart(i, a, k)
        BY <3>1, <3>2, <3>5 DEF OnePlace
      <4>2. \A b, l : AtPart(i, b, l) => b = a /\ l = k
        BY <3>2, <4>1 DEF OnePlace
      <4>3. PlacesOf(i) = {<<a, k>>}
        BY <3>3, <4>1, <4>2
      <4> QED
        BY <3>5, <4>3, FS_Singleton
    <3> QED
      BY <3>4, <3>5
  <2> QED
    BY <2>1, <2>2
<1> QED
  BY <1>1, Invariance, PTL

-----------------------------------------------------------------------------
(* The numbers have no endless descent.                                    *)
LEMMA LeastMember ==
  ASSUME NEW S \in SUBSET Nat, S # {}
  PROVE  \E x \in S : \A y \in S : x <= y
<1> DEFINE Less == {ss \in Nat \X Nat : ss[1] < ss[2]}
<1>1. IsWellFoundedOn(Less, Nat)
  BY NatLessThanWellFounded DEF OpToRel
<1>2. PICK x \in S : \A y \in S : ~(<<y, x>> \in Less)
  BY <1>1, WFMin, Zenon
<1>3. ASSUME NEW y \in S  PROVE x <= y
  <2>1. x \in Nat /\ y \in Nat
    OBVIOUS
  <2>2. <<y, x>>[1] = y /\ <<y, x>>[2] = x /\ <<y, x>> \in Nat \X Nat
    BY <2>1
  <2>3. ~(y < x)
    BY <1>2, <2>2, Zenon
  <2> QED
    BY <2>1, <2>3
<1> QED
  BY <1>3

(* A set with 0, and with each number that comes after one of its members, *)
(* has all of them: an induction, with a set in the place of a property.   *)
LEMMA UpTo ==
  ASSUME NEW n \in Nat, NEW S, 0 \in S, \A k \in 1 .. n : k - 1 \in S => k \in S
  PROVE  0 .. n \subseteq S
<1> DEFINE Missing == {k \in 0 .. n : k \notin S}
<1> SUFFICES ASSUME Missing # {}  PROVE FALSE
  OBVIOUS
<1>1. Missing \in SUBSET Nat
  OBVIOUS
<1>2. PICK m \in Missing : \A y \in Missing : m <= y
  <2> HIDE DEF Missing
  <2> QED
    BY <1>1, LeastMember
<1>3. m \in 1 .. n /\ m \notin S
  OBVIOUS
<1>4. m - 1 \in 0 .. n /\ ~(m <= m - 1)
  BY <1>3
<1>5. m - 1 \in S
  BY <1>2, <1>4
<1> QED
  BY <1>3, <1>5

-----------------------------------------------------------------------------
(* What may follow a sequence, from what may follow all but its last.      *)
AreRests(s, f, n) ==
  f = [i \in 0 .. n |-> IF i = 0 THEN Expand(Input) ELSE Follow(f[i - 1], s[i])]

LEMMA RestsExist ==
  ASSUME NEW s, NEW n \in Nat
  PROVE  \E f : AreRests(s, f, n)
<1> DEFINE Are(f, m) == AreRests(s, f, m)
           S == {m \in 0 .. n : \E f : Are(f, m)}
<1>1. 0 \in S
  <2> DEFINE f == [i \in 0 .. 0 |-> Expand(Input)]
  <2>1. Are(f, 0)
    <3> HIDE DEF f
    <3>1. f = [i \in 0 .. 0 |-> Expand(Input)]
      BY DEF f
    <3>2. \A i \in 0 .. 0 : (IF i = 0 THEN Expand(Input) ELSE Follow(f[i - 1], s[i])) = Expand(Input)
      OBVIOUS
    <3> QED
      BY <3>1, <3>2, Zenon DEF AreRests
  <2> QED
    BY <2>1
<1>2. ASSUME NEW m \in 1 .. n, m - 1 \in S  PROVE m \in S
  <2>1. PICK f : Are(f, m - 1)
    BY <1>2
  <2> DEFINE g == [i \in 0 .. m |-> IF i = 0 THEN Expand(Input) ELSE Follow(f[i - 1], s[i])]
  <2>2. ASSUME NEW i \in 0 .. m - 1  PROVE g[i] = f[i]
    <3>1. i \in 0 .. m /\ i \in 0 .. m - 1
      BY <2>2
    <3>2. f[i] = IF i = 0 THEN Expand(Input) ELSE Follow(f[i - 1], s[i])
      BY <2>1, <3>1 DEF AreRests
    <3> QED
      BY <3>1, <3>2
  <2>3. ASSUME NEW i \in 0 .. m
        PROVE  (IF i = 0 THEN Expand(Input) ELSE Follow(f[i - 1], s[i]))
               = (IF i = 0 THEN Expand(Input) ELSE Follow(g[i - 1], s[i]))
    <3>1. CASE i = 0
      <4> HIDE DEF g
      <4> QED
        BY <3>1
    <3>2. CASE i # 0
      <4>1. i - 1 \in 0 .. m - 1
        BY <3>2
      <4>2. f[i - 1] = g[i - 1]
        BY <2>2, <4>1
      <4> HIDE DEF g
      <4> QED
        BY <4>2
    <3> QED
      BY <3>1, <3>2
  <2>4. Are(g, m)
    <3>1. g = [i \in 0 .. m |-> IF i = 0 THEN Expand(Input) ELSE Follow(f[i - 1], s[i])]
      OBVIOUS
    <3> HIDE DEF g
    <3> QED
      BY <2>3, <3>1, Zenon DEF AreRests
  <2>5. \E h : Are(h, m)
    <3> HIDE DEF g, Are
    <3> QED
      BY <2>4
  <2> HIDE DEF g, Are
  <2> QED
    BY <2>5
<1>3. n \in S
  <2> HIDE DEF S
  <2> QED
    BY <1>1, <1>2, UpTo
<1> QED
  BY <1>3

LEMMA RestIs ==
  ASSUME NEW s, Len(s) \in Nat
  PROVE  \E f : AreRests(s, f, Len(s)) /\ Rest(s) = f[Len(s)]
<1> DEFINE f == CHOOSE f : AreRests(s, f, Len(s))
<1>1. AreRests(s, f, Len(s))
  <2>1. \E g : AreRests(s, g, Len(s))
    BY RestsExist
  <2> QED
    BY <2>1, Zenon
<1>2. Rest(s) = f[Len(s)]
  BY DEF Rest, AreRests
<1> HIDE DEF f
<1> QED
  BY <1>1, <1>2

LEMMA RestOfNone == Rest(<<>>) = Expand(Input)
<1>1. Len(<<>>) = 0 /\ 0 \in Nat /\ 0 \in 0 .. 0
  OBVIOUS
<1>2. PICK f : AreRests(<<>>, f, 0) /\ Rest(<<>>) = f[0]
  BY <1>1, RestIs
<1> QED
  BY <1>1, <1>2 DEF AreRests

LEMMA RestOfNext ==
  ASSUME NEW S, NEW s \in Seq(S), NEW lex \in S
  PROVE  Rest(Append(s, lex)) = Follow(Rest(s), lex)
<1> DEFINE n == Len(s)
           t == Append(s, lex)
<1>1. /\ n \in Nat /\ t \in Seq(S) /\ Len(t) = n + 1 /\ t[n + 1] = lex
      /\ \A i \in 1 .. n : t[i] = s[i]
  BY AppendProperties, LenProperties
<1>2. PICK f : AreRests(s, f, n) /\ Rest(s) = f[n]
  BY <1>1, RestIs
<1>3. PICK g : AreRests(t, g, n + 1) /\ Rest(t) = g[n + 1]
  <2>1. Len(t) \in Nat
    BY <1>1
  <2> HIDE DEF t, n
  <2> QED
    BY <1>1, <2>1, RestIs
<1> HIDE DEF n, t
<1>4. n \in 0 .. n /\ n + 1 \in 0 .. n + 1 /\ n + 1 # 0 /\ n + 1 - 1 = n
  BY <1>1
<1>5. g[n] = f[n]
  <2> DEFINE T == {i \in 0 .. n : g[i] = f[i]}
  <2>1. \A i \in 0 .. n : f[i] = IF i = 0 THEN Expand(Input) ELSE Follow(f[i - 1], s[i])
    BY <1>2 DEF AreRests
  <2>2. \A i \in 0 .. n + 1 : g[i] = IF i = 0 THEN Expand(Input) ELSE Follow(g[i - 1], t[i])
    BY <1>3 DEF AreRests
  <2>3. 0 \in T
    <3>1. 0 \in 0 .. n /\ 0 \in 0 .. n + 1
      BY <1>1
    <3> QED
      BY <2>1, <2>2, <3>1
  <2>4. ASSUME NEW i \in 1 .. n, i - 1 \in T  PROVE i \in T
    <3>1. i \in 0 .. n /\ i \in 0 .. n + 1 /\ i # 0
      BY <1>1
    <3>2. f[i] = Follow(f[i - 1], s[i])
      BY <2>1, <3>1
    <3>3. g[i] = Follow(g[i - 1], t[i])
      BY <2>2, <3>1
    <3> QED
      BY <1>1, <2>4, <3>1, <3>2, <3>3
  <2>5. n \in T
    <3> HIDE DEF T
    <3> QED
      BY <1>1, <1>4, <2>3, <2>4, UpTo
  <2> QED
    BY <2>5
<1>6. g[n + 1] = Follow(g[n], t[n + 1])
  BY <1>3, <1>4 DEF AreRests
<1> QED
  BY <1>1, <1>2, <1>3, <1>5, <1>6 DEF t

-----------------------------------------------------------------------------
(* The symbols of the grammar, and the forms made of them.                 *)
Terminals == Marks \cup {"IDENT", "NAME", "STR", "NUM", "list", EOS}
Signs == Terminals \cup DOMAIN Grammar
Forms == Seq(Signs)

LEMMA SymbolsAre ==
  /\ DOMAIN Grammar = {"tree", "tree_node", "node_name", "node_args", "node_arg_star",
                       "node_arg", "arg_name", "arg_value", "list_elem_star", "list_elem",
                       "literal"}
  /\ Terminals \cap DOMAIN Grammar = {}
BY DEF Grammar, Terminals, Marks, EOS

LEMMA RulesAre ==
  /\ Grammar["tree"] = {<<"tree_node">>}
  /\ Grammar["tree_node"] = {<<"node_name", "(", "node_args", ")">>}
  /\ Grammar["node_name"] = {<<"IDENT">>}
  /\ Grammar["node_args"] = {<<"node_arg_star">>, <<"literal">>}
  /\ Grammar["node_arg_star"] = {<<>>, <<"node_arg", "node_arg_star">>}
  /\ Grammar["node_arg"] = {<<".", "arg_name", "=", "arg_value">>}
  /\ Grammar["arg_name"] = {<<"NAME">>}
  /\ Grammar["arg_value"] = {<<"tree_node">>, <<"literal">>,
                             <<"list", "<", "node_name", ">", "[", "list_elem_star", "]">>}
  /\ Grammar["list_elem_star"] = {<<>>, <<"list_elem", "list_elem_star">>}
  /\ Grammar["list_elem"] = {<<"[", "NUM", "]", "=", "tree_node">>}
  /\ Grammar["literal"] = {<<"STR">>}
BY DEF Grammar

(* No symbol of the form can be replaced before the first lexeme is met.   *)
Stopped(form) == form = <<>> \/ Head(form) \notin DOMAIN Grammar

LEMMA HeadOfForm ==
  ASSUME NEW S, NEW F \in Seq(S), NEW s \in Seq(S), s # <<>>
  PROVE  /\ s \o F \in Seq(S) /\ s \o F # <<>>
         /\ Head(s \o F) = Head(s) /\ Tail(s \o F) = Tail(s) \o F
OBVIOUS

LEMMA ReplacedBoth ==
  ASSUME NEW A, NEW B
  PROVE  Replaced(A \cup B) = Replaced(A) \cup Replaced(B)
BY Zenon DEF Replaced

(* A form with one alternative.                                            *)
Becomes(form, next) == Replaced({form}) = {next}

LEMMA ReplacedEach ==
  ASSUME NEW u, NEW v, NEW w, NEW x, NEW y, NEW z,
         Becomes(u, x), Becomes(v, y), Becomes(w, z)
  PROVE  Replaced({u, v, w}) = {x, y, z}
<1>1. {u, v, w} = {u} \cup ({v} \cup {w})
  OBVIOUS
<1>2. Replaced({u} \cup ({v} \cup {w})) = Replaced({u}) \cup Replaced({v} \cup {w})
  BY ReplacedBoth
<1>3. Replaced({v} \cup {w}) = Replaced({v}) \cup Replaced({w})
  BY ReplacedBoth
<1> QED
  BY <1>1, <1>2, <1>3 DEF Becomes

LEMMA ExpandOne ==
  ASSUME NEW f, NEW g, NEW h, NEW k, Becomes(f, g), Becomes(g, h), Becomes(h, k)
  PROVE  Expand(f) = {k}
BY DEF Becomes, Expand

LEMMA ExpandOnce ==
  ASSUME NEW f, NEW g, Becomes(f, g), Becomes(g, g)
  PROVE  Expand(f) = {g}
BY DEF Becomes, Expand

LEMMA ReplacedStopped ==
  ASSUME NEW A, \A form \in A : Stopped(form)
  PROVE  Replaced(A) = A
BY DEF Replaced, Stopped

LEMMA ReplacedOne ==
  ASSUME NEW form, form # <<>>, Head(form) \in DOMAIN Grammar
  PROVE  Replaced({form}) = {rhs \o Tail(form) : rhs \in Grammar[Head(form)]}
BY DEF Replaced

LEMMA Split ==
  ASSUME NEW S, NEW F \in Seq(S), NEW a \in S, NEW s \in Seq(S)
  PROVE  (<<a>> \o s) \o F = <<a>> \o (s \o F)
OBVIOUS

LEMMA ReplacedHead ==
  ASSUME NEW F \in Forms, NEW h \in DOMAIN Grammar
  PROVE  Replaced({<<h>> \o F}) = {rhs \o F : rhs \in Grammar[h]}
<1>1. <<h>> \o F # <<>> /\ Head(<<h>> \o F) = h /\ Tail(<<h>> \o F) = F
  BY DEF Forms
<1> DEFINE f == <<h>> \o F
<1> HIDE DEF Grammar, f
<1>2. f # <<>> /\ Head(f) = h /\ Tail(f) = F
  BY <1>1 DEF f
<1>3. Replaced({f}) = {rhs \o Tail(f) : rhs \in Grammar[Head(f)]}
  BY <1>2, ReplacedOne
<1>4. Replaced({f}) = {rhs \o F : rhs \in Grammar[h]}
  BY <1>2, <1>3
<1> QED
  BY <1>4 DEF f

LEMMA OnceReplaced ==
  ASSUME NEW F \in Forms
  PROVE  /\ Replaced({<<"tree">> \o F}) = {<<"tree_node">> \o F}
         /\ Replaced({<<"tree_node">> \o F}) = {<<"node_name", "(", "node_args", ")">> \o F}
         /\ Replaced({<<"node_name">> \o F}) = {<<"IDENT">> \o F}
         /\ Replaced({<<"node_args">> \o F}) = {<<"node_arg_star">> \o F, <<"literal">> \o F}
         /\ Replaced({<<"node_arg_star">> \o F}) = {F, <<"node_arg", "node_arg_star">> \o F}
         /\ Replaced({<<"node_arg">> \o F}) = {<<".", "arg_name", "=", "arg_value">> \o F}
         /\ Replaced({<<"arg_name">> \o F}) = {<<"NAME">> \o F}
         /\ Replaced({<<"arg_value">> \o F})
              = {<<"tree_node">> \o F, <<"literal">> \o F,
                 <<"list", "<", "node_name", ">", "[", "list_elem_star", "]">> \o F}
         /\ Replaced({<<"list_elem_star">> \o F}) = {F, <<"list_elem", "list_elem_star">> \o F}
         /\ Replaced({<<"list_elem">> \o F}) = {<<"[", "NUM", "]", "=", "tree_node">> \o F}
         /\ Replaced({<<"literal">> \o F}) = {<<"STR">> \o F}
<1>1. ASSUME NEW h \in DOMAIN Grammar
      PROVE  Replaced({<<h>> \o F}) = {rhs \o F : rhs \in Grammar[h]}
  BY ReplacedHead
<1>2. <<>> \o F = F
  BY DEF Forms
<1>3. ASSUME NEW x  PROVE {rhs \o F : rhs \in {x}} = {x \o F}
  OBVIOUS
<1>4. ASSUME NEW x, NEW y  PROVE {rhs \o F : rhs \in {x, y}} = {x \o F, y \o F}
  OBVIOUS
<1>5. ASSUME NEW x, NEW y, NEW z
      PROVE  {rhs \o F : rhs \in {x, y, z}} = {x \o F, y \o F, z \o F}
  OBVIOUS
<1> HIDE DEF Grammar
<1>6. Replaced({<<"tree">> \o F})
      = {<<"tree_node">> \o F}
  <2>1. Replaced({<<"tree">> \o F}) = {rhs \o F : rhs \in Grammar["tree"]}
    BY <1>1, SymbolsAre
  <2> QED
    BY <2>1, <1>2, <1>3, RulesAre
<1>7. Replaced({<<"tree_node">> \o F})
      = {<<"node_name", "(", "node_args", ")">> \o F}
  <2>1. Replaced({<<"tree_node">> \o F}) = {rhs \o F : rhs \in Grammar["tree_node"]}
    BY <1>1, SymbolsAre
  <2> QED
    BY <2>1, <1>2, <1>3, RulesAre
<1>8. Replaced({<<"node_name">> \o F})
      = {<<"IDENT">> \o F}
  <2>1. Replaced({<<"node_name">> \o F}) = {rhs \o F : rhs \in Grammar["node_name"]}
    BY <1>1, SymbolsAre
  <2> QED
    BY <2>1, <1>2, <1>3, RulesAre
<1>9. Replaced({<<"node_args">> \o F})
      = {<<"node_arg_star">> \o F, <<"literal">> \o F}
  <2>1. Replaced({<<"node_args">> \o F}) = {rhs \o F : rhs \in Grammar["node_args"]}
    BY <1>1, SymbolsAre
  <2>2. {rhs \o F : rhs \in {<<"node_arg_star">>, <<"literal">>}}
            = {<<"node_arg_star">> \o F, <<"literal">> \o F}
    BY <1>4
  <2>3. Grammar["node_args"] = {<<"node_arg_star">>, <<"literal">>}
    BY RulesAre
  <2> QED
    BY <2>1, <2>2, <2>3
<1>10. Replaced({<<"node_arg_star">> \o F})
      = {F, <<"node_arg", "node_arg_star">> \o F}
  <2>1. Replaced({<<"node_arg_star">> \o F}) = {rhs \o F : rhs \in Grammar["node_arg_star"]}
    BY <1>1, SymbolsAre
  <2>2. {rhs \o F : rhs \in {<<>>, <<"node_arg", "node_arg_star">>}}
            = {<<>> \o F, <<"node_arg", "node_arg_star">> \o F}
    BY <1>4
  <2>3. Grammar["node_arg_star"] = {<<>>, <<"node_arg", "node_arg_star">>}
    BY RulesAre
  <2> QED
    BY <2>1, <2>2, <2>3, <1>2
<1>11. Replaced({<<"node_arg">> \o F})
      = {<<".", "arg_name", "=", "arg_value">> \o F}
  <2>1. Replaced({<<"node_arg">> \o F}) = {rhs \o F : rhs \in Grammar["node_arg"]}
    BY <1>1, SymbolsAre
  <2> QED
    BY <2>1, <1>2, <1>3, RulesAre
<1>12. Replaced({<<"arg_name">> \o F})
      = {<<"NAME">> \o F}
  <2>1. Replaced({<<"arg_name">> \o F}) = {rhs \o F : rhs \in Grammar["arg_name"]}
    BY <1>1, SymbolsAre
  <2> QED
    BY <2>1, <1>2, <1>3, RulesAre
<1>13. Replaced({<<"arg_value">> \o F})
      = {<<"tree_node">> \o F, <<"literal">> \o F,
         <<"list", "<", "node_name", ">", "[", "list_elem_star", "]">> \o F}
  <2> DEFINE list == <<"list", "<", "node_name", ">", "[", "list_elem_star", "]">>
  <2>1. Replaced({<<"arg_value">> \o F}) = {rhs \o F : rhs \in Grammar["arg_value"]}
    BY <1>1, SymbolsAre
  <2>2. Grammar["arg_value"] = {<<"tree_node">>, <<"literal">>, list}
    BY RulesAre
  <2> HIDE DEF list
  <2>3. {rhs \o F : rhs \in {<<"tree_node">>, <<"literal">>, list}}
            = {<<"tree_node">> \o F, <<"literal">> \o F, list \o F}
    BY <1>5
  <2>4. Replaced({<<"arg_value">> \o F}) = {<<"tree_node">> \o F, <<"literal">> \o F, list \o F}
    BY <2>1, <2>2, <2>3
  <2> QED
    BY <2>4 DEF list
<1>14. Replaced({<<"list_elem_star">> \o F})
      = {F, <<"list_elem", "list_elem_star">> \o F}
  <2>1. Replaced({<<"list_elem_star">> \o F}) = {rhs \o F : rhs \in Grammar["list_elem_star"]}
    BY <1>1, SymbolsAre
  <2>2. {rhs \o F : rhs \in {<<>>, <<"list_elem", "list_elem_star">>}}
            = {<<>> \o F, <<"list_elem", "list_elem_star">> \o F}
    BY <1>4
  <2>3. Grammar["list_elem_star"] = {<<>>, <<"list_elem", "list_elem_star">>}
    BY RulesAre
  <2> QED
    BY <2>1, <2>2, <2>3, <1>2
<1>15. Replaced({<<"list_elem">> \o F})
      = {<<"[", "NUM", "]", "=", "tree_node">> \o F}
  <2>1. Replaced({<<"list_elem">> \o F}) = {rhs \o F : rhs \in Grammar["list_elem"]}
    BY <1>1, SymbolsAre
  <2> QED
    BY <2>1, <1>2, <1>3, RulesAre
<1>16. Replaced({<<"literal">> \o F})
      = {<<"STR">> \o F}
  <2>1. Replaced({<<"literal">> \o F}) = {rhs \o F : rhs \in Grammar["literal"]}
    BY <1>1, SymbolsAre
  <2> QED
    BY <2>1, <1>2, <1>3, RulesAre
<1> QED
  BY <1>6, <1>7, <1>8, <1>9, <1>10, <1>11, <1>12, <1>13, <1>14, <1>15, <1>16

(* A form that begins with some symbols, taken apart at the first.         *)
LEMMA Joined1 ==
  ASSUME NEW S, NEW F \in Seq(S), NEW a \in S
  PROVE  /\ <<a>> \o F \in Seq(S) /\ Head(<<a>> \o F) = a /\ <<a>> \o F # <<>>
         /\ Tail(<<a>> \o F) = F
OBVIOUS

LEMMA Joined2 ==
  ASSUME NEW S, NEW F \in Seq(S), NEW a \in S, NEW b \in S
  PROVE  <<a, b>> \o F = <<a>> \o (<<b>> \o F) /\ <<a, b>> \o F \in Seq(S)
<1> DEFINE s == <<b>>
<1>1. s \in Seq(S) /\ <<a, b>> \in Seq(S)
  OBVIOUS
<1>2. <<a, b>> = <<a>> \o s
  <2>1. <<a>> \in Seq(S) /\ <<a, b>> = Append(<<a>>, b)
    OBVIOUS
  <2> QED
    BY <2>1, AppendIsConcat
<1>3. <<a, b>> \o F \in Seq(S)
  BY <1>1, ConcatProperties
<1> HIDE DEF s
<1>4. (<<a>> \o s) \o F = <<a>> \o (s \o F)
  BY <1>1, Split
<1> QED
  BY <1>2, <1>3, <1>4 DEF s

LEMMA Joined3 ==
  ASSUME NEW S, NEW F \in Seq(S), NEW a \in S, NEW b \in S, NEW c \in S
  PROVE  <<a, b, c>> \o F = <<a>> \o (<<b, c>> \o F) /\ <<a, b, c>> \o F \in Seq(S)
<1> DEFINE s == <<b, c>>
<1>1. s \in Seq(S) /\ <<a, b, c>> \in Seq(S)
  OBVIOUS
<1>2. <<a, b, c>> = <<a>> \o s
  OBVIOUS
<1>3. <<a, b, c>> \o F \in Seq(S)
  BY <1>1, ConcatProperties
<1> HIDE DEF s
<1>4. (<<a>> \o s) \o F = <<a>> \o (s \o F)
  BY <1>1, Split
<1> QED
  BY <1>2, <1>3, <1>4 DEF s

LEMMA Joined4 ==
  ASSUME NEW S, NEW F \in Seq(S), NEW a \in S, NEW b \in S, NEW c \in S, NEW d \in S
  PROVE  <<a, b, c, d>> \o F = <<a>> \o (<<b, c, d>> \o F) /\ <<a, b, c, d>> \o F \in Seq(S)
<1> DEFINE s == <<b, c, d>>
<1>1. s \in Seq(S) /\ <<a, b, c, d>> \in Seq(S)
  OBVIOUS
<1>2. <<a, b, c, d>> = <<a>> \o s
  OBVIOUS
<1>3. <<a, b, c, d>> \o F \in Seq(S)
  BY <1>1, ConcatProperties
<1> HIDE DEF s
<1>4. (<<a>> \o s) \o F = <<a>> \o (s \o F)
  BY <1>1, Split
<1> QED
  BY <1>2, <1>3, <1>4 DEF s

LEMMA Joined5 ==
  ASSUME NEW S, NEW F \in Seq(S), NEW a \in S, NEW b \in S, NEW c \in S, NEW d \in S, NEW e \in S
  PROVE  <<a, b, c, d, e>> \o F = <<a>> \o (<<b, c, d, e>> \o F) /\ <<a, b, c, d, e>> \o F \in Seq(S)
<1> DEFINE s == <<b, c, d, e>>
<1>1. s \in Seq(S) /\ <<a, b, c, d, e>> \in Seq(S)
  OBVIOUS
<1>2. <<a, b, c, d, e>> = <<a>> \o s
  OBVIOUS
<1>3. <<a, b, c, d, e>> \o F \in Seq(S)
  BY <1>1, ConcatProperties
<1> HIDE DEF s
<1>4. (<<a>> \o s) \o F = <<a>> \o (s \o F)
  BY <1>1, Split
<1> QED
  BY <1>2, <1>3, <1>4 DEF s

LEMMA Joined6 ==
  ASSUME NEW S, NEW F \in Seq(S), NEW a \in S, NEW b \in S, NEW c \in S, NEW d \in S,
         NEW e \in S, NEW f \in S
  PROVE  /\ <<a, b, c, d, e, f>> \o F = <<a>> \o (<<b, c, d, e, f>> \o F)
         /\ <<a, b, c, d, e, f>> \o F \in Seq(S)
<1> DEFINE s == <<b, c, d, e, f>>
<1>1. s \in Seq(S) /\ <<a, b, c, d, e, f>> \in Seq(S)
  OBVIOUS
<1>2. <<a, b, c, d, e, f>> = <<a>> \o s
  OBVIOUS
<1>3. <<a, b, c, d, e, f>> \o F \in Seq(S)
  BY <1>1, ConcatProperties
<1> HIDE DEF s
<1>4. (<<a>> \o s) \o F = <<a>> \o (s \o F)
  BY <1>1, Split
<1> QED
  BY <1>2, <1>3, <1>4 DEF s

LEMMA Joined7 ==
  ASSUME NEW S, NEW F \in Seq(S), NEW a \in S, NEW b \in S, NEW c \in S, NEW d \in S,
         NEW e \in S, NEW f \in S, NEW g \in S
  PROVE  /\ <<a, b, c, d, e, f, g>> \o F = <<a>> \o (<<b, c, d, e, f, g>> \o F)
         /\ <<a, b, c, d, e, f, g>> \o F \in Seq(S)
<1> DEFINE s == <<b, c, d, e, f, g>>
<1>1. s \in Seq(S) /\ <<a, b, c, d, e, f, g>> \in Seq(S)
  OBVIOUS
<1>2. <<a, b, c, d, e, f, g>> = <<a>> \o s
  OBVIOUS
<1>3. <<a, b, c, d, e, f, g>> \o F \in Seq(S)
  BY <1>1, ConcatProperties
<1> HIDE DEF s
<1>4. (<<a>> \o s) \o F = <<a>> \o (s \o F)
  BY <1>1, Split
<1> QED
  BY <1>2, <1>3, <1>4 DEF s

(* What the symbols can begin with, before a form.                         *)
NodeForm(F) == <<"IDENT">> \o (<<"(", "node_args", ")">> \o F)
ArgForm(F)  == <<".">> \o (<<"arg_name", "=", "arg_value">> \o F)
ElemForm(F) == <<"[">> \o (<<"NUM", "]", "=", "tree_node">> \o F)
ListForm(F) == <<"list">> \o (<<"<", "node_name", ">", "[", "list_elem_star", "]">> \o F)
Args(F)     == <<"node_arg_star">> \o F
Elems(F)    == <<"list_elem_star">> \o F

LEMMA StoppedAt ==
  ASSUME NEW F \in Forms, NEW t \in Terminals
  PROVE  Stopped(<<t>> \o F) /\ Replaced({<<t>> \o F}) = {<<t>> \o F}
<1>1. F \in Seq(Signs) /\ t \in Signs /\ t \notin DOMAIN Grammar
  BY SymbolsAre DEF Forms, Signs
<1>2. Stopped(<<t>> \o F)
  BY <1>1, Joined1 DEF Stopped
<1> QED
  BY <1>2, ReplacedStopped

LEMMA StoppedForms ==
  ASSUME NEW F \in Forms
  PROVE  /\ Stopped(NodeForm(F)) /\ Stopped(ArgForm(F)) /\ Stopped(ElemForm(F))
         /\ Stopped(ListForm(F))
         /\ NodeForm(F) \in Forms /\ ArgForm(F) \in Forms /\ ElemForm(F) \in Forms
         /\ ListForm(F) \in Forms /\ Args(F) \in Forms /\ Elems(F) \in Forms
<1>1. \A x \in {"(", ")", "=", "[", "]", "<", ">", ".", "IDENT", "NAME", "NUM", "list"} :
        x \in Terminals /\ x \in Signs
  BY DEF Terminals, Signs, Marks
<1>2. \A x \in {"node_args", "arg_name", "arg_value", "tree_node", "node_name",
                "list_elem_star", "node_arg_star"} : x \in Signs
  BY SymbolsAre DEF Signs
<1>3. /\ <<"(", "node_args", ")">> \o F \in Forms
      /\ <<"arg_name", "=", "arg_value">> \o F \in Forms
      /\ <<"NUM", "]", "=", "tree_node">> \o F \in Forms
      /\ <<"<", "node_name", ">", "[", "list_elem_star", "]">> \o F \in Forms
      /\ <<"node_arg_star">> \o F \in Forms /\ <<"list_elem_star">> \o F \in Forms
  BY <1>1, <1>2, Joined1, Joined3, Joined4, Joined6 DEF Forms
<1>4. ASSUME NEW G \in Forms, NEW t \in Terminals
      PROVE  Stopped(<<t>> \o G) /\ <<t>> \o G \in Forms
  BY StoppedAt, Joined1 DEF Forms, Signs
<1> QED
  BY <1>1, <1>3, <1>4 DEF NodeForm, ArgForm, ElemForm, ListForm, Args, Elems

(* What each symbol before a form is once replaced, taken apart.           *)
LEMMA Unfolded ==
  ASSUME NEW F \in Forms
  PROVE  /\ Replaced({<<"tree">> \o F}) = {<<"tree_node">> \o F}
         /\ Replaced({<<"tree_node">> \o F})
              = {<<"node_name">> \o (<<"(", "node_args", ")">> \o F)}
         /\ Replaced({<<"node_name">> \o (<<"(", "node_args", ")">> \o F)}) = {NodeForm(F)}
         /\ Replaced({<<"node_name">> \o F}) = {<<"IDENT">> \o F}
         /\ Replaced({<<"node_args">> \o F}) = {Args(F), <<"literal">> \o F}
         /\ Replaced({Args(F)}) = {F, <<"node_arg">> \o Args(F)}
         /\ Replaced({<<"node_arg">> \o F}) = {ArgForm(F)}
         /\ Replaced({<<"arg_name">> \o F}) = {<<"NAME">> \o F}
         /\ Replaced({<<"arg_value">> \o F}) = {<<"tree_node">> \o F, <<"literal">> \o F, ListForm(F)}
         /\ Replaced({Elems(F)}) = {F, <<"list_elem">> \o Elems(F)}
         /\ Replaced({<<"list_elem">> \o F}) = {ElemForm(F)}
         /\ Replaced({<<"literal">> \o F}) = {<<"STR">> \o F}
<1>1. /\ "(" \in Signs /\ ")" \in Signs /\ "=" \in Signs /\ "[" \in Signs
      /\ "]" \in Signs /\ "<" \in Signs /\ ">" \in Signs /\ "." \in Signs
      /\ "IDENT" \in Signs /\ "NAME" \in Signs /\ "NUM" \in Signs /\ "list" \in Signs
  BY DEF Terminals, Signs, Marks
<1>2. /\ "node_args" \in Signs /\ "node_arg" \in Signs /\ "arg_name" \in Signs /\ "arg_value" \in Signs
      /\ "tree_node" \in Signs /\ "node_name" \in Signs /\ "list_elem" \in Signs /\ "list_elem_star" \in Signs
      /\ "node_arg_star" \in Signs
  BY SymbolsAre DEF Signs
<1>3. F \in Seq(Signs)
  BY DEF Forms
<1>4. <<"node_name", "(", "node_args", ")">> \o F = <<"node_name">> \o (<<"(", "node_args", ")">> \o F)
  <2> DEFINE s == <<"(", "node_args", ")">>
  <2>1. <<"node_name", "(", "node_args", ")">> = <<"node_name">> \o s
    OBVIOUS
  <2>2. s \in Seq(Signs)
    BY <1>1, <1>2
  <2> HIDE DEF s
  <2>3. (<<"node_name">> \o s) \o F = <<"node_name">> \o (s \o F)
    BY <1>1, <1>2, <1>3, <2>2, Split
  <2> QED
    BY <2>1, <2>3 DEF s
<1>5. <<".", "arg_name", "=", "arg_value">> \o F = ArgForm(F)
  <2> DEFINE s == <<"arg_name", "=", "arg_value">>
  <2>1. <<".", "arg_name", "=", "arg_value">> = <<".">> \o s
    OBVIOUS
  <2>2. s \in Seq(Signs)
    BY <1>1, <1>2
  <2> HIDE DEF s
  <2>3. (<<".">> \o s) \o F = <<".">> \o (s \o F)
    BY <1>1, <1>2, <1>3, <2>2, Split
  <2> QED
    BY <2>1, <2>3 DEF s, ArgForm
<1>6. <<"[", "NUM", "]", "=", "tree_node">> \o F = ElemForm(F)
  <2> DEFINE s == <<"NUM", "]", "=", "tree_node">>
  <2>1. <<"[", "NUM", "]", "=", "tree_node">> = <<"[">> \o s
    OBVIOUS
  <2>2. s \in Seq(Signs)
    BY <1>1, <1>2
  <2> HIDE DEF s
  <2>3. (<<"[">> \o s) \o F = <<"[">> \o (s \o F)
    BY <1>1, <1>2, <1>3, <2>2, Split
  <2> QED
    BY <2>1, <2>3 DEF s, ElemForm
<1>7. <<"list", "<", "node_name", ">", "[", "list_elem_star", "]">> \o F = ListForm(F)
  <2> DEFINE s == <<"<", "node_name", ">", "[", "list_elem_star", "]">>
  <2>1. <<"list", "<", "node_name", ">", "[", "list_elem_star", "]">> = <<"list">> \o s
    OBVIOUS
  <2>2. s \in Seq(Signs)
    BY <1>1, <1>2
  <2> HIDE DEF s
  <2>3. (<<"list">> \o s) \o F = <<"list">> \o (s \o F)
    BY <1>1, <1>2, <1>3, <2>2, Split
  <2> QED
    BY <2>1, <2>3 DEF s, ListForm
<1>8. <<"node_arg", "node_arg_star">> \o F = <<"node_arg">> \o Args(F)
  BY <1>1, <1>2, <1>3, Joined2 DEF Args
<1>9. <<"list_elem", "list_elem_star">> \o F = <<"list_elem">> \o Elems(F)
  BY <1>1, <1>2, <1>3, Joined2 DEF Elems
<1>10. <<"(", "node_args", ")">> \o F \in Forms
  BY <1>1, <1>2, <1>3, Joined3 DEF Forms
<1>11. Replaced({<<"tree_node">> \o F})
         = {<<"node_name">> \o (<<"(", "node_args", ")">> \o F)}
  BY <1>4, OnceReplaced
<1>12. Replaced({<<"node_name">> \o (<<"(", "node_args", ")">> \o F)}) = {NodeForm(F)}
  <2> DEFINE G == <<"(", "node_args", ")">> \o F
  <2> HIDE DEF G
  <2>1. G \in Forms
    BY <1>10 DEF G
  <2>2. Replaced({<<"node_name">> \o G}) = {<<"IDENT">> \o G}
    BY <2>1, OnceReplaced
  <2> QED
    BY <2>2 DEF G, NodeForm
<1> QED
  BY <1>5, <1>6, <1>7, <1>8, <1>9, <1>11, <1>12, OnceReplaced DEF Args, Elems

LEMMA Expansions ==
  ASSUME NEW F \in Forms
  PROVE  /\ \A t \in Terminals : Expand(<<t>> \o F) = {<<t>> \o F}
         /\ Expand(<<"tree">> \o F) = {NodeForm(F)}
         /\ Expand(<<"tree_node">> \o F) = {NodeForm(F)}
         /\ Expand(<<"node_name">> \o F) = {<<"IDENT">> \o F}
         /\ Expand(<<"node_arg">> \o F) = {ArgForm(F)}
         /\ Expand(<<"arg_name">> \o F) = {<<"NAME">> \o F}
         /\ Expand(<<"arg_value">> \o F) = {NodeForm(F), <<"STR">> \o F, ListForm(F)}
         /\ Expand(<<"list_elem">> \o F) = {ElemForm(F)}
         /\ Expand(<<"literal">> \o F) = {<<"STR">> \o F}
         /\ Stopped(F) =>
              /\ Expand(F) = {F}
              /\ Expand(<<"node_args">> \o F) = {F, ArgForm(Args(F)), <<"STR">> \o F}
              /\ Expand(Args(F)) = {F, ArgForm(Args(F))}
              /\ Expand(Elems(F)) = {F, ElemForm(Elems(F))}
<1>1. ASSUME NEW A, \A form \in A : Stopped(form)
      PROVE  Replaced(A) = A
  BY <1>1, ReplacedStopped
<1>2. /\ Replaced({NodeForm(F)}) = {NodeForm(F)} /\ Replaced({ArgForm(F)}) = {ArgForm(F)}
      /\ Replaced({ElemForm(F)}) = {ElemForm(F)} /\ Replaced({ListForm(F)}) = {ListForm(F)}
  BY <1>1, StoppedForms
<1>3. \A t \in Terminals : Replaced({<<t>> \o F}) = {<<t>> \o F}
  BY StoppedAt
<1>4. "IDENT" \in Terminals /\ "NAME" \in Terminals /\ "STR" \in Terminals
  BY DEF Terminals
<1>5. /\ Replaced({<<"IDENT">> \o F}) = {<<"IDENT">> \o F}
      /\ Replaced({<<"NAME">> \o F}) = {<<"NAME">> \o F}
      /\ Replaced({<<"STR">> \o F}) = {<<"STR">> \o F}
  BY <1>3, <1>4
<1>6. \A A, B : Replaced(A \cup B) = Replaced(A) \cup Replaced(B)
  BY ReplacedBoth
<1>7. \A t \in Terminals : Expand(<<t>> \o F) = {<<t>> \o F}
  BY <1>3 DEF Expand
<1>8. /\ Expand(<<"tree">> \o F) = {NodeForm(F)}
      /\ Expand(<<"tree_node">> \o F) = {NodeForm(F)}
      /\ Expand(<<"node_name">> \o F) = {<<"IDENT">> \o F}
      /\ Expand(<<"node_arg">> \o F) = {ArgForm(F)}
      /\ Expand(<<"arg_name">> \o F) = {<<"NAME">> \o F}
      /\ Expand(<<"list_elem">> \o F) = {ElemForm(F)}
      /\ Expand(<<"literal">> \o F) = {<<"STR">> \o F}
  <2>1. /\ Becomes(<<"tree">> \o F, <<"tree_node">> \o F)
        /\ Becomes(<<"tree_node">> \o F, <<"node_name">> \o (<<"(", "node_args", ")">> \o F))
        /\ Becomes(<<"node_name">> \o (<<"(", "node_args", ")">> \o F), NodeForm(F))
        /\ Becomes(<<"node_name">> \o F, <<"IDENT">> \o F)
        /\ Becomes(<<"node_arg">> \o F, ArgForm(F))
        /\ Becomes(<<"arg_name">> \o F, <<"NAME">> \o F)
        /\ Becomes(<<"list_elem">> \o F, ElemForm(F))
        /\ Becomes(<<"literal">> \o F, <<"STR">> \o F)
    BY Unfolded DEF Becomes
  <2>2. /\ Becomes(NodeForm(F), NodeForm(F)) /\ Becomes(ArgForm(F), ArgForm(F))
        /\ Becomes(ElemForm(F), ElemForm(F)) /\ Becomes(<<"IDENT">> \o F, <<"IDENT">> \o F)
        /\ Becomes(<<"NAME">> \o F, <<"NAME">> \o F) /\ Becomes(<<"STR">> \o F, <<"STR">> \o F)
    BY <1>2, <1>5 DEF Becomes
  <2>3. Expand(<<"tree">> \o F) = {NodeForm(F)}
    BY <2>1, <2>2, ExpandOne
  <2>4. Expand(<<"tree_node">> \o F) = {NodeForm(F)}
    BY <2>1, <2>2, ExpandOne
  <2>5. Expand(<<"node_name">> \o F) = {<<"IDENT">> \o F}
    BY <2>1, <2>2, ExpandOnce, Zenon
  <2>6. Expand(<<"node_arg">> \o F) = {ArgForm(F)}
    BY <2>1, <2>2, ExpandOne
  <2>7. Expand(<<"arg_name">> \o F) = {<<"NAME">> \o F}
    BY <2>1, <2>2, ExpandOnce, Zenon
  <2>8. Expand(<<"list_elem">> \o F) = {ElemForm(F)}
    BY <2>1, <2>2, ExpandOne
  <2>9. Expand(<<"literal">> \o F) = {<<"STR">> \o F}
    BY <2>1, <2>2, ExpandOnce, Zenon
  <2> QED
    BY <2>3, <2>4, <2>5, <2>6, <2>7, <2>8, <2>9
<1>9. Expand(<<"arg_value">> \o F) = {NodeForm(F), <<"STR">> \o F, ListForm(F)}
  <2> DEFINE a == <<"tree_node">> \o F
             b == <<"literal">> \o F
             c == ListForm(F)
             d == <<"node_name">> \o (<<"(", "node_args", ")">> \o F)
             e == <<"STR">> \o F
             f == NodeForm(F)
  <2>1. Replaced({<<"arg_value">> \o F}) = {a, b, c}
    BY Unfolded
  <2>2. /\ Replaced({a}) = {d} /\ Replaced({d}) = {f} /\ Replaced({b}) = {e}
        /\ Replaced({e}) = {e} /\ Replaced({c}) = {c}
    BY <1>2, <1>5, Unfolded
  <2> HIDE DEF a, b, c, d, e, f
  <2>6. /\ Becomes(a, d) /\ Becomes(d, f) /\ Becomes(b, e) /\ Becomes(e, e) /\ Becomes(c, c)
    BY <2>2 DEF Becomes
  <2>3. Replaced({a, b, c}) = {d, e, c}
    BY <2>6, ReplacedEach
  <2>4. Replaced({d, e, c}) = {f, e, c}
    BY <2>6, ReplacedEach
  <2>5. Expand(<<"arg_value">> \o F) = {f, e, c}
    BY <2>1, <2>3, <2>4 DEF Expand
  <2> QED
    BY <2>5 DEF f, e, c
<1>10. ASSUME Stopped(F)
       PROVE  /\ Expand(F) = {F}
              /\ Expand(<<"node_args">> \o F) = {F, ArgForm(Args(F)), <<"STR">> \o F}
              /\ Expand(Args(F)) = {F, ArgForm(Args(F))}
              /\ Expand(Elems(F)) = {F, ElemForm(Elems(F))}
  <2>1. Replaced({F}) = {F}
    BY <1>1, <1>10
  <2> DEFINE a == <<"node_arg">> \o Args(F)
             b == <<"list_elem">> \o Elems(F)
             c == <<"literal">> \o F
             x == Args(F)
             y == ArgForm(Args(F))
             z == ElemForm(Elems(F))
  <2>2. Args(F) \in Forms /\ Elems(F) \in Forms
    BY StoppedForms
  <2>3. /\ Replaced({a}) = {y} /\ Replaced({b}) = {z}
        /\ Replaced({x}) = {F, a}
        /\ Replaced({y}) = {y} /\ Replaced({z}) = {z}
        /\ Replaced({c}) = {<<"STR">> \o F}
        /\ Replaced({<<"STR">> \o F}) = {<<"STR">> \o F}
        /\ Replaced({Elems(F)}) = {F, b}
        /\ Replaced({<<"node_args">> \o F}) = {x, c}
    <3>1. Replaced({a}) = {y} /\ Replaced({b}) = {z}
      BY <2>2, Unfolded
    <3>2. Replaced({y}) = {y} /\ Replaced({z}) = {z}
      BY <1>1, <2>2, StoppedForms
    <3> QED
      BY <1>5, <3>1, <3>2, Unfolded
  <2>4. \A u, v : Replaced({u, v}) = Replaced({u}) \cup Replaced({v})
    <3>1. \A u, v : {u, v} = {u} \cup {v}
      OBVIOUS
    <3> QED
      BY <1>6, <3>1
  <2> HIDE DEF a, b, c, x, y, z
  <2>5. Replaced({F, a}) = {F, y} /\ Replaced({F, b}) = {F, z}
    <3>1. Replaced({F, a}) = {F} \cup {y}
      BY <2>1, <2>3, <2>4, SMTT(30)
    <3>2. Replaced({F, b}) = {F} \cup {z}
      BY <2>1, <2>3, <2>4, SMTT(30)
    <3> QED
      BY <3>1, <3>2
  <2>6. Replaced({F, y}) = {F, y} /\ Replaced({F, z}) = {F, z}
    <3>1. Replaced({F, y}) = {F} \cup {y}
      BY <2>1, <2>3, <2>4, SMTT(30)
    <3>2. Replaced({F, z}) = {F} \cup {z}
      BY <2>1, <2>3, <2>4, SMTT(30)
    <3> QED
      BY <3>1, <3>2
  <2>7. Expand(F) = {F}
    BY <2>1 DEF Expand
  <2>8. Expand(x) = {F, y} /\ Expand(Elems(F)) = {F, z}
    BY <2>3, <2>5, <2>6 DEF Expand
  <2>9. Expand(<<"node_args">> \o F) = {F, y, <<"STR">> \o F}
    <3> DEFINE w == <<"STR">> \o F
    <3>1. Replaced({x, c}) = {F, a} \cup {w}
      BY <2>3, <2>4
    <3>2. Replaced({F, a} \cup {w}) = {F, y} \cup {w}
      <4>1. Replaced({w}) = {w}
        BY <2>3
      <4> HIDE DEF w
      <4>2. Replaced({F, a} \cup {w}) = Replaced({F, a}) \cup Replaced({w})
        BY <1>6
      <4> QED
        BY <2>5, <4>1, <4>2
    <3> QED
      BY <2>3, <3>1, <3>2 DEF Expand
  <2> QED
    BY <2>7, <2>8, <2>9 DEF x, y, z
<1> QED
  BY <1>7, <1>8, <1>9, <1>10

-----------------------------------------------------------------------------
(* What the items still to do are going to read: the symbols of the grammar*)
(* they stand for, and where in the name of an argument they are: before   *)
(* its dot, after it with arg_ctxt set, or where it has been reset but the *)
(* lookahead was read before.                                              *)
Sign(type) ==
  CASE type = "ident"   -> "IDENT"
    [] type = "name"    -> "NAME"
    [] type = "str"     -> "STR"
    [] type = "num"     -> "NUM"
    [] type = "kw_list" -> "list"
    [] type = "eos"     -> EOS
    [] OTHER            -> type

FormOf(w) ==
  CASE w.do = "parse"  -> <<w.arg>>
    [] w.do = "need"   -> <<Sign(w.arg)>>
    [] w.do = "loop"   -> IF w.arg = "node_arg" THEN <<"node_arg_star">>
                                                ELSE <<"list_elem_star", "]">>
    [] w.do = "finish" -> <<EOS>>
    [] OTHER           -> <<>>

Places == {"plain", "dot", "leave", "name"}
Readings == [form : Forms, place : Places]
Still(form, place) == [form |-> form, place |-> place]

Moves(w, from, to) ==
  CASE w.do = "need" /\ w.arg = "."    -> from = "dot" /\ to = "leave"
    [] w.do = "leave"                  -> \/ from = "leave" /\ to = "name"
                                          \/ from = "plain" /\ to = "plain"
    [] \/ w.do = "parse" /\ w.arg = "arg_name"
       \/ w.do = "need" /\ w.arg = "name" -> from = "name" /\ to = "plain"
    [] OTHER                           -> from = "plain" /\ to = "plain"

(* The arguments of a node are followed by its parenthesis.                *)
EndsArgs(w) ==
  \/ w.do = "parse" /\ w.arg = "node_args"
  \/ w.do = "loop" /\ w.arg = "node_arg"

Closed(form) == form # <<>> /\ Head(form) = ")"

Reads(w, p, q) ==
  /\ w \in Item /\ p \in Readings /\ q \in Readings
  /\ p.form = FormOf(w) \o q.form
  /\ Moves(w, p.place, q.place)
  /\ EndsArgs(w) => Closed(q.form)

Reading == {x \in Item \X Readings \X Readings : Reads(x[1], x[2], x[3])}
Covers(s, p, q) == Chained(Reading, Readings, s, p, q)

LEMMA IsReading ==
  ASSUME NEW w, NEW p, NEW q
  PROVE  Step(Reading, w, p, q) <=> Reads(w, p, q)
BY DEF Step, Reading, Reads

LEMMA ChainOne ==
  ASSUME NEW R, NEW S, NEW w \in Item, NEW p \in S, NEW q \in S, Step(R, w, p, q)
  PROVE  Chained(R, S, <<w>>, p, q)
<1> DEFINE d == [i \in 1 .. 2 |-> IF i = 1 THEN p ELSE q]
<1>1. <<w>> \in Seq(Item) /\ Len(<<w>>) = 1 /\ <<w>>[1] = w
  OBVIOUS
<1>2. d \in [1 .. Len(<<w>>) + 1 -> S] /\ d[1] = p /\ d[2] = q /\ d[Len(<<w>>) + 1] = q
  BY <1>1
<1> HIDE DEF d
<1>3. ASSUME NEW i \in 1 .. Len(<<w>>)  PROVE Step(R, <<w>>[i], d[i], d[i + 1])
  <2>1. i = 1 /\ i + 1 = 2
    BY <1>1
  <2> QED
    BY <1>1, <1>2, <2>1
<1> QED
  BY <1>1, <1>2, <1>3 DEF Chained

LEMMA ChainNext ==
  ASSUME NEW R, NEW S, NEW s, NEW w \in Item, NEW p, NEW q, NEW r \in S,
         Chained(R, S, s, p, q), Step(R, w, q, r)
  PROVE  Chained(R, S, Append(s, w), p, r)
<1>1. s \in Seq(Item) /\ q \in S
  BY ChainEnds
<1>2. Chained(R, S, <<w>>, q, r)
  BY <1>1, ChainOne
<1>3. Chained(R, S, s \o <<w>>, p, r)
  BY <1>2, ChainBoth
<1>4. Append(s, w) = s \o <<w>>
  BY <1>1, AppendIsConcat
<1> QED
  BY <1>3, <1>4

LEMMA CoversFirst ==
  ASSUME NEW s, NEW p, NEW r, Covers(s, p, r), s # <<>>
  PROVE  \E q \in Readings : Reads(Head(s), p, q) /\ Covers(Tail(s), q, r)
BY ChainFirst, IsReading DEF Covers

LEMMA CoversBoth ==
  ASSUME NEW s, NEW t, NEW p, NEW q, NEW r, Covers(s, p, q), Covers(t, q, r)
  PROVE  Covers(s \o t, p, r)
BY ChainBoth DEF Covers

LEMMA CoversOne ==
  ASSUME NEW w, NEW p, NEW q, Reads(w, p, q)
  PROVE  Covers(<<w>>, p, q)
BY ChainOne, IsReading DEF Covers, Reads

LEMMA CoversNext ==
  ASSUME NEW s, NEW w, NEW p, NEW q, NEW r, Covers(s, p, q), Reads(w, q, r)
  PROVE  Covers(Append(s, w), p, r)
BY ChainNext, IsReading DEF Covers, Reads

-----------------------------------------------------------------------------
(* What each item reads.                                                   *)
LEMMA StillFields ==
  ASSUME NEW F \in Forms, NEW place \in Places
  PROVE  /\ Still(F, place) \in Readings
         /\ Still(F, place).form = F /\ Still(F, place).place = place
BY DEF Still, Readings

LEMMA ReadsIs ==
  ASSUME NEW w \in Item, NEW F \in Forms, NEW G \in Forms, NEW from \in Places,
         NEW to \in Places, G = FormOf(w) \o F, Moves(w, from, to), EndsArgs(w) => Closed(F)
  PROVE  Reads(w, Still(G, from), Still(F, to))
<1>1. /\ Still(F, to) \in Readings /\ Still(F, to).form = F /\ Still(F, to).place = to
      /\ Still(G, from) \in Readings /\ Still(G, from).form = G /\ Still(G, from).place = from
  BY StillFields
<1> QED
  BY <1>1 DEF Reads

LEMMA SignIs ==
  ASSUME NEW type \in NeededTypes \cup {"eos"}
  PROVE  Sign(type) \in Terminals /\ Sign(type) \in Signs
BY DEF Sign, NeededTypes, Terminals, Signs, Marks

LEMMA Before ==
  ASSUME NEW F \in Forms, NEW h \in Signs
  PROVE  <<h>> \o F \in Forms
BY Joined1 DEF Forms

LEMMA ParseReads ==
  ASSUME NEW sym \in Symbols, NEW F \in Forms, sym = "node_args" => Closed(F)
  PROVE  /\ sym # "arg_name" => Reads(Parse(sym), Still(<<sym>> \o F, "plain"), Still(F, "plain"))
         /\ sym = "arg_name" => Reads(Parse(sym), Still(<<sym>> \o F, "name"), Still(F, "plain"))
<1> DEFINE w == Parse(sym)
<1>1. w \in Item /\ w.do = "parse" /\ w.arg = sym
  BY ParseItem DEF Parse, Do
<1>2. sym \in Signs /\ <<sym>> \o F \in Forms
  BY Before, SymbolsAre DEF Symbols, Signs
<1> HIDE DEF w
<1>3. FormOf(w) = <<sym>> /\ (EndsArgs(w) => Closed(F))
  BY <1>1 DEF FormOf, EndsArgs
<1>4. /\ sym # "arg_name" => Moves(w, "plain", "plain")
      /\ sym = "arg_name" => Moves(w, "name", "plain")
  BY <1>1 DEF Moves
<1>5. "plain" \in Places /\ "name" \in Places
  BY DEF Places
<1> QED
  BY <1>1, <1>2, <1>3, <1>4, <1>5, ReadsIs DEF w

LEMMA NeedReads ==
  ASSUME NEW type \in NeededTypes, NEW F \in Forms
  PROVE  /\ type \notin {".", "name"} =>
              Reads(Need(type), Still(<<Sign(type)>> \o F, "plain"), Still(F, "plain"))
         /\ type = "." => Reads(Need(type), Still(<<Sign(type)>> \o F, "dot"), Still(F, "leave"))
         /\ type = "name" =>
              Reads(Need(type), Still(<<Sign(type)>> \o F, "name"), Still(F, "plain"))
<1> DEFINE w == Need(type)
<1>1. w \in Item /\ w.do = "need" /\ w.arg = type
  BY NeedItem DEF Need, Do
<1>2. <<Sign(type)>> \o F \in Forms
  BY Before, SignIs
<1> HIDE DEF w
<1>3. FormOf(w) = <<Sign(type)>> /\ ~EndsArgs(w)
  BY <1>1 DEF FormOf, EndsArgs
<1>4. /\ type \notin {".", "name"} => Moves(w, "plain", "plain")
      /\ type = "." => Moves(w, "dot", "leave")
      /\ type = "name" => Moves(w, "name", "plain")
  BY <1>1 DEF Moves
<1>5. "plain" \in Places /\ "name" \in Places /\ "dot" \in Places /\ "leave" \in Places
  BY DEF Places
<1> QED
  BY <1>1, <1>2, <1>3, <1>4, <1>5, ReadsIs DEF w

(* The items that read nothing.                                            *)
LEMMA QuietReads ==
  ASSUME NEW w \in Item, w.do \in {"new", "text", "index", "begin", "root"}, NEW F \in Forms
  PROVE  Reads(w, Still(F, "plain"), Still(F, "plain"))
<1>1. FormOf(w) = <<>> /\ ~EndsArgs(w) /\ Moves(w, "plain", "plain")
  BY DEF FormOf, EndsArgs, Moves
<1>2. <<>> \o F = F
  BY DEF Forms
<1> QED
  BY <1>1, <1>2, ReadsIs DEF Places

LEMMA LeaveReads ==
  ASSUME NEW F \in Forms
  PROVE  /\ Reads(LeaveCtxt, Still(F, "leave"), Still(F, "name"))
         /\ Reads(LeaveCtxt, Still(F, "plain"), Still(F, "plain"))
<1>1. FormOf(LeaveCtxt) = <<>> /\ ~EndsArgs(LeaveCtxt)
  BY LeaveItem DEF FormOf, EndsArgs
<1>2. Moves(LeaveCtxt, "leave", "name") /\ Moves(LeaveCtxt, "plain", "plain")
  BY LeaveItem DEF Moves
<1>3. <<>> \o F = F
  BY DEF Forms
<1> QED
  BY <1>1, <1>2, <1>3, LeaveItem, ReadsIs DEF Places

LEMMA LoopReads ==
  ASSUME NEW F \in Forms, NEW n \in Nat
  PROVE  /\ Closed(F) => Reads(Loop("node_arg", n), Still(Args(F), "plain"), Still(F, "plain"))
         /\ Reads(Loop("list_elem", n), Still(Elems(<<"]">> \o F), "plain"), Still(F, "plain"))
<1>1. ASSUME NEW sym \in {"node_arg", "list_elem"}
      PROVE  /\ Loop(sym, n) \in Item /\ Loop(sym, n).do = "loop" /\ Loop(sym, n).arg = sym
             /\ Moves(Loop(sym, n), "plain", "plain")
             /\ FormOf(Loop(sym, n)) = IF sym = "node_arg" THEN <<"node_arg_star">>
                                                           ELSE <<"list_elem_star", "]">>
             /\ EndsArgs(Loop(sym, n)) <=> sym = "node_arg"
  <2>1. Loop(sym, n) \in Item /\ Loop(sym, n).do = "loop" /\ Loop(sym, n).arg = sym
    BY LoopItem DEF Loop, Do
  <2> QED
    BY <2>1 DEF Moves, FormOf, EndsArgs
<1>2. "]" \in Signs /\ "list_elem_star" \in Signs
  BY SymbolsAre DEF Signs, Terminals, Marks
<1>3. <<"list_elem_star", "]">> \o F = Elems(<<"]">> \o F)
  BY <1>2, Joined2 DEF Elems, Forms
<1>4. Args(F) \in Forms /\ Elems(<<"]">> \o F) \in Forms
  BY <1>2, Before, StoppedForms
<1> QED
  <2>1. "plain" \in Places
    BY DEF Places
  <2>2. Closed(F) => Reads(Loop("node_arg", n), Still(Args(F), "plain"), Still(F, "plain"))
    BY <1>1, <1>4, <2>1, ReadsIs DEF Args
  <2>3. Reads(Loop("list_elem", n), Still(Elems(<<"]">> \o F), "plain"), Still(F, "plain"))
    BY <1>1, <1>3, <1>4, <2>1, ReadsIs
  <2> QED
    BY <2>2, <2>3


(* A list, and one more.                                                   *)
LEMMA Longer2 ==
  ASSUME NEW S, NEW a \in S, NEW b \in S
  PROVE  Append(<<a>>, b) = <<a, b>>
<1> DEFINE l == <<a>>
           m == <<a, b>>
           k == Append(l, b)
<1>1. l \in Seq(S) /\ m \in Seq(S)
  OBVIOUS
<1>2. Len(l) = 1 /\ Len(m) = 2
  OBVIOUS
<1>3. /\ l[1] = a
      /\ m[1] = a /\ m[2] = b
  OBVIOUS
<1> HIDE DEF m, l
<1>4. /\ k \in Seq(S) /\ Len(k) = Len(l) + 1
      /\ \A i \in 1 .. Len(l) : k[i] = l[i]
      /\ k[Len(l) + 1] = b
  BY <1>1, AppendProperties
<1> HIDE DEF k
<1>5. Len(k) = 2 /\ k[1] = a /\ k[2] = b
  BY <1>2, <1>3, <1>4
<1>6. \A i \in 1 .. 2 : k[i] = m[i]
  BY <1>3, <1>5
<1>7. k = m
  BY <1>1, <1>2, <1>4, <1>5, <1>6, SeqEqual
<1> QED
  BY <1>7 DEF k, l, m

LEMMA Longer3 ==
  ASSUME NEW S, NEW a \in S, NEW b \in S, NEW c \in S
  PROVE  Append(<<a, b>>, c) = <<a, b, c>>
<1> DEFINE l == <<a, b>>
           m == <<a, b, c>>
           k == Append(l, c)
<1>1. l \in Seq(S) /\ m \in Seq(S)
  OBVIOUS
<1>2. Len(l) = 2 /\ Len(m) = 3
  OBVIOUS
<1>3. /\ l[1] = a /\ l[2] = b
      /\ m[1] = a /\ m[2] = b /\ m[3] = c
  OBVIOUS
<1> HIDE DEF m, l
<1>4. /\ k \in Seq(S) /\ Len(k) = Len(l) + 1
      /\ \A i \in 1 .. Len(l) : k[i] = l[i]
      /\ k[Len(l) + 1] = c
  BY <1>1, AppendProperties
<1> HIDE DEF k
<1>5. Len(k) = 3 /\ k[1] = a /\ k[2] = b /\ k[3] = c
  BY <1>2, <1>3, <1>4
<1>6. \A i \in 1 .. 3 : k[i] = m[i]
  BY <1>3, <1>5
<1>7. k = m
  BY <1>1, <1>2, <1>4, <1>5, <1>6, SeqEqual
<1> QED
  BY <1>7 DEF k, l, m

LEMMA Longer4 ==
  ASSUME NEW S, NEW a \in S, NEW b \in S, NEW c \in S, NEW d \in S
  PROVE  Append(<<a, b, c>>, d) = <<a, b, c, d>>
<1> DEFINE l == <<a, b, c>>
           m == <<a, b, c, d>>
           k == Append(l, d)
<1>1. l \in Seq(S) /\ m \in Seq(S)
  OBVIOUS
<1>2. Len(l) = 3 /\ Len(m) = 4
  OBVIOUS
<1>3. /\ l[1] = a /\ l[2] = b /\ l[3] = c
      /\ m[1] = a /\ m[2] = b /\ m[3] = c /\ m[4] = d
  OBVIOUS
<1> HIDE DEF m, l
<1>4. /\ k \in Seq(S) /\ Len(k) = Len(l) + 1
      /\ \A i \in 1 .. Len(l) : k[i] = l[i]
      /\ k[Len(l) + 1] = d
  BY <1>1, AppendProperties
<1> HIDE DEF k
<1>5. Len(k) = 4 /\ k[1] = a /\ k[2] = b /\ k[3] = c /\ k[4] = d
  BY <1>2, <1>3, <1>4
<1>6. \A i \in 1 .. 4 : k[i] = m[i]
  BY <1>3, <1>5
<1>7. k = m
  BY <1>1, <1>2, <1>4, <1>5, <1>6, SeqEqual
<1> QED
  BY <1>7 DEF k, l, m

LEMMA Longer5 ==
  ASSUME NEW S, NEW a \in S, NEW b \in S, NEW c \in S, NEW d \in S,
         NEW e \in S
  PROVE  Append(<<a, b, c, d>>, e) = <<a, b, c, d, e>>
<1> DEFINE l == <<a, b, c, d>>
           m == <<a, b, c, d, e>>
           k == Append(l, e)
<1>1. l \in Seq(S) /\ m \in Seq(S)
  OBVIOUS
<1>2. Len(l) = 4 /\ Len(m) = 5
  OBVIOUS
<1>3. /\ l[1] = a /\ l[2] = b /\ l[3] = c /\ l[4] = d
      /\ m[1] = a /\ m[2] = b /\ m[3] = c /\ m[4] = d /\ m[5] = e
  OBVIOUS
<1> HIDE DEF m, l
<1>4. /\ k \in Seq(S) /\ Len(k) = Len(l) + 1
      /\ \A i \in 1 .. Len(l) : k[i] = l[i]
      /\ k[Len(l) + 1] = e
  BY <1>1, AppendProperties
<1> HIDE DEF k
<1>5. Len(k) = 5 /\ k[1] = a /\ k[2] = b /\ k[3] = c /\ k[4] = d /\ k[5] = e
  BY <1>2, <1>3, <1>4
<1>6. \A i \in 1 .. 5 : k[i] = m[i]
  BY <1>3, <1>5
<1>7. k = m
  BY <1>1, <1>2, <1>4, <1>5, <1>6, SeqEqual
<1> QED
  BY <1>7 DEF k, l, m

LEMMA Longer6 ==
  ASSUME NEW S, NEW a \in S, NEW b \in S, NEW c \in S, NEW d \in S,
         NEW e \in S, NEW f \in S
  PROVE  Append(<<a, b, c, d, e>>, f) = <<a, b, c, d, e, f>>
<1> DEFINE l == <<a, b, c, d, e>>
           m == <<a, b, c, d, e, f>>
           k == Append(l, f)
<1>1. l \in Seq(S) /\ m \in Seq(S)
  OBVIOUS
<1>2. Len(l) = 5 /\ Len(m) = 6
  OBVIOUS
<1>3. /\ l[1] = a /\ l[2] = b /\ l[3] = c /\ l[4] = d /\ l[5] = e
      /\ m[1] = a /\ m[2] = b /\ m[3] = c /\ m[4] = d /\ m[5] = e /\ m[6] = f
  OBVIOUS
<1> HIDE DEF m, l
<1>4. /\ k \in Seq(S) /\ Len(k) = Len(l) + 1
      /\ \A i \in 1 .. Len(l) : k[i] = l[i]
      /\ k[Len(l) + 1] = f
  BY <1>1, AppendProperties
<1> HIDE DEF k
<1>5. Len(k) = 6 /\ k[1] = a /\ k[2] = b /\ k[3] = c /\ k[4] = d /\ k[5] = e /\ k[6] = f
  BY <1>2, <1>3, <1>4
<1>6. \A i \in 1 .. 6 : k[i] = m[i]
  BY <1>3, <1>5
<1>7. k = m
  BY <1>1, <1>2, <1>4, <1>5, <1>6, SeqEqual
<1> QED
  BY <1>7 DEF k, l, m

LEMMA Longer7 ==
  ASSUME NEW S, NEW a \in S, NEW b \in S, NEW c \in S, NEW d \in S,
         NEW e \in S, NEW f \in S, NEW g \in S
  PROVE  Append(<<a, b, c, d, e, f>>, g) = <<a, b, c, d, e, f, g>>
<1> DEFINE l == <<a, b, c, d, e, f>>
           m == <<a, b, c, d, e, f, g>>
           k == Append(l, g)
<1>1. l \in Seq(S) /\ m \in Seq(S)
  OBVIOUS
<1>2. Len(l) = 6 /\ Len(m) = 7
  OBVIOUS
<1>3. /\ l[1] = a /\ l[2] = b /\ l[3] = c /\ l[4] = d /\ l[5] = e /\ l[6] = f
      /\ m[1] = a /\ m[2] = b /\ m[3] = c /\ m[4] = d /\ m[5] = e /\ m[6] = f /\ m[7] = g
  OBVIOUS
<1> HIDE DEF m, l
<1>4. /\ k \in Seq(S) /\ Len(k) = Len(l) + 1
      /\ \A i \in 1 .. Len(l) : k[i] = l[i]
      /\ k[Len(l) + 1] = g
  BY <1>1, AppendProperties
<1> HIDE DEF k
<1>5. Len(k) = 7 /\ k[1] = a /\ k[2] = b /\ k[3] = c /\ k[4] = d /\ k[5] = e /\ k[6] = f /\ k[7] = g
  BY <1>2, <1>3, <1>4
<1>6. \A i \in 1 .. 7 : k[i] = m[i]
  BY <1>3, <1>5
<1>7. k = m
  BY <1>1, <1>2, <1>4, <1>5, <1>6, SeqEqual
<1> QED
  BY <1>7 DEF k, l, m

-----------------------------------------------------------------------------
(* Items that read one form after the other.                               *)
LEMMA Covers2 ==
  ASSUME NEW a, NEW b,
         NEW p1, NEW p2, NEW p3,
         Reads(a, p1, p2), Reads(b, p2, p3)
  PROVE  Covers(<<a, b>>, p1, p3)
<1>1. Covers(<<a>>, p1, p2)
  BY CoversOne
<1>2. a \in Item /\ b \in Item
  BY DEF Reads
<1>3. Append(<<a>>, b) = <<a, b>>
  BY <1>2, Longer2
<1> QED
  BY <1>1, <1>3, CoversNext

LEMMA Covers3 ==
  ASSUME NEW a, NEW b, NEW c,
         NEW p1, NEW p2, NEW p3, NEW p4,
         Reads(a, p1, p2), Reads(b, p2, p3), Reads(c, p3, p4)
  PROVE  Covers(<<a, b, c>>, p1, p4)
<1>1. Covers(<<a, b>>, p1, p3)
  BY Covers2
<1>2. a \in Item /\ b \in Item /\ c \in Item
  BY DEF Reads
<1>3. Append(<<a, b>>, c) = <<a, b, c>>
  BY <1>2, Longer3
<1> QED
  BY <1>1, <1>3, CoversNext

LEMMA Covers4 ==
  ASSUME NEW a, NEW b, NEW c, NEW d,
         NEW p1, NEW p2, NEW p3, NEW p4, NEW p5,
         Reads(a, p1, p2), Reads(b, p2, p3), Reads(c, p3, p4),
         Reads(d, p4, p5)
  PROVE  Covers(<<a, b, c, d>>, p1, p5)
<1>1. Covers(<<a, b, c>>, p1, p4)
  BY Covers3
<1>2. a \in Item /\ b \in Item /\ c \in Item /\ d \in Item
  BY DEF Reads
<1>3. Append(<<a, b, c>>, d) = <<a, b, c, d>>
  BY <1>2, Longer4
<1> QED
  BY <1>1, <1>3, CoversNext

LEMMA Covers5 ==
  ASSUME NEW a, NEW b, NEW c, NEW d, NEW e,
         NEW p1, NEW p2, NEW p3, NEW p4, NEW p5, NEW p6,
         Reads(a, p1, p2), Reads(b, p2, p3), Reads(c, p3, p4),
         Reads(d, p4, p5), Reads(e, p5, p6)
  PROVE  Covers(<<a, b, c, d, e>>, p1, p6)
<1>1. Covers(<<a, b, c, d>>, p1, p5)
  BY Covers4
<1>2. a \in Item /\ b \in Item /\ c \in Item /\ d \in Item /\ e \in Item
  BY DEF Reads
<1>3. Append(<<a, b, c, d>>, e) = <<a, b, c, d, e>>
  BY <1>2, Longer5
<1> QED
  BY <1>1, <1>3, CoversNext

LEMMA Covers6 ==
  ASSUME NEW a, NEW b, NEW c, NEW d, NEW e, NEW f,
         NEW p1, NEW p2, NEW p3, NEW p4, NEW p5, NEW p6, NEW p7,
         Reads(a, p1, p2), Reads(b, p2, p3), Reads(c, p3, p4),
         Reads(d, p4, p5), Reads(e, p5, p6), Reads(f, p6, p7)
  PROVE  Covers(<<a, b, c, d, e, f>>, p1, p7)
<1>1. Covers(<<a, b, c, d, e>>, p1, p6)
  BY Covers5
<1>2. a \in Item /\ b \in Item /\ c \in Item /\ d \in Item /\ e \in Item /\ f \in Item
  BY DEF Reads
<1>3. Append(<<a, b, c, d, e>>, f) = <<a, b, c, d, e, f>>
  BY <1>2, Longer6
<1> QED
  BY <1>1, <1>3, CoversNext

LEMMA Covers7 ==
  ASSUME NEW a, NEW b, NEW c, NEW d, NEW e, NEW f, NEW g,
         NEW p1, NEW p2, NEW p3, NEW p4, NEW p5, NEW p6, NEW p7, NEW p8,
         Reads(a, p1, p2), Reads(b, p2, p3), Reads(c, p3, p4),
         Reads(d, p4, p5), Reads(e, p5, p6), Reads(f, p6, p7),
         Reads(g, p7, p8)
  PROVE  Covers(<<a, b, c, d, e, f, g>>, p1, p8)
<1>1. Covers(<<a, b, c, d, e, f>>, p1, p7)
  BY Covers6
<1>2. a \in Item /\ b \in Item /\ c \in Item /\ d \in Item /\ e \in Item /\ f \in Item /\ g \in Item
  BY DEF Reads
<1>3. Append(<<a, b, c, d, e, f>>, g) = <<a, b, c, d, e, f, g>>
  BY <1>2, Longer7, SMTT(30)
<1> QED
  BY <1>1, <1>3, CoversNext

-----------------------------------------------------------------------------
(* What the functions read, an item after the other.                       *)
LEMMA InSigns ==
  /\ "(" \in Signs /\ ")" \in Signs /\ "[" \in Signs /\ "]" \in Signs
  /\ "<" \in Signs /\ ">" \in Signs /\ "=" \in Signs /\ "." \in Signs
  /\ "IDENT" \in Signs /\ "NAME" \in Signs /\ "NUM" \in Signs /\ "STR" \in Signs
  /\ "list" \in Signs /\ EOS \in Signs
  /\ "tree" \in Signs /\ "tree_node" \in Signs /\ "node_name" \in Signs
  /\ "node_args" \in Signs /\ "node_arg" \in Signs /\ "node_arg_star" \in Signs
  /\ "arg_name" \in Signs /\ "arg_value" \in Signs /\ "literal" \in Signs
  /\ "list_elem" \in Signs /\ "list_elem_star" \in Signs
<1>1. Terminals \subseteq Signs /\ DOMAIN Grammar \subseteq Signs
  BY DEF Signs
<1>2. /\ "(" \in Terminals /\ ")" \in Terminals /\ "[" \in Terminals /\ "]" \in Terminals
      /\ "<" \in Terminals /\ ">" \in Terminals /\ "=" \in Terminals /\ "." \in Terminals
      /\ "IDENT" \in Terminals /\ "NAME" \in Terminals /\ "NUM" \in Terminals
      /\ "STR" \in Terminals /\ "list" \in Terminals /\ EOS \in Terminals
  BY DEF Terminals, Marks
<1> QED
  BY <1>1, <1>2, SymbolsAre

LEMMA NodeTail ==
  ASSUME NEW F \in Forms
  PROVE  <<"(", "node_args", ")">> \o F
           = <<"(">> \o (<<"node_args">> \o (<<")">> \o F))
<1>1. F \in Seq(Signs)
  BY DEF Forms
<1>2. <<"(", "node_args", ")">> \o F = <<"(">> \o (<<"node_args", ")">> \o F)
  <2> DEFINE s == <<"node_args", ")">>
  <2>1. <<"(", "node_args", ")">> = <<"(">> \o s
    OBVIOUS
  <2>2. s \in Seq(Signs)
    BY InSigns
  <2> HIDE DEF s
  <2>3. (<<"(">> \o s) \o F = <<"(">> \o (s \o F)
    BY <1>1, <2>2, InSigns, Split
  <2> QED
    BY <2>1, <2>3 DEF s
<1>3. <<"node_args", ")">> \o F = <<"node_args">> \o (<<")">> \o F)
  BY <1>1, InSigns, Joined2
<1> QED
  BY <1>2, <1>3

LEMMA ArgTail ==
  ASSUME NEW F \in Forms
  PROVE  <<"arg_name", "=", "arg_value">> \o F
           = <<"arg_name">> \o (<<"=">> \o (<<"arg_value">> \o F))
<1>1. F \in Seq(Signs)
  BY DEF Forms
<1>2. <<"arg_name", "=", "arg_value">> \o F = <<"arg_name">> \o (<<"=", "arg_value">> \o F)
  <2> DEFINE s == <<"=", "arg_value">>
  <2>1. <<"arg_name", "=", "arg_value">> = <<"arg_name">> \o s
    OBVIOUS
  <2>2. s \in Seq(Signs)
    BY InSigns
  <2> HIDE DEF s
  <2>3. (<<"arg_name">> \o s) \o F = <<"arg_name">> \o (s \o F)
    BY <1>1, <2>2, InSigns, Split
  <2> QED
    BY <2>1, <2>3 DEF s
<1>3. <<"=", "arg_value">> \o F = <<"=">> \o (<<"arg_value">> \o F)
  BY <1>1, InSigns, Joined2
<1> QED
  BY <1>2, <1>3

LEMMA ElemTail ==
  ASSUME NEW F \in Forms
  PROVE  <<"NUM", "]", "=", "tree_node">> \o F
           = <<"NUM">> \o (<<"]">> \o (<<"=">> \o (<<"tree_node">> \o F)))
<1>1. F \in Seq(Signs)
  BY DEF Forms
<1>2. <<"NUM", "]", "=", "tree_node">> \o F = <<"NUM">> \o (<<"]", "=", "tree_node">> \o F)
  <2> DEFINE s == <<"]", "=", "tree_node">>
  <2>1. <<"NUM", "]", "=", "tree_node">> = <<"NUM">> \o s
    OBVIOUS
  <2>2. s \in Seq(Signs)
    BY InSigns
  <2> HIDE DEF s
  <2>3. (<<"NUM">> \o s) \o F = <<"NUM">> \o (s \o F)
    BY <1>1, <2>2, InSigns, Split
  <2> QED
    BY <2>1, <2>3 DEF s
<1>3. <<"]", "=", "tree_node">> \o F = <<"]">> \o (<<"=", "tree_node">> \o F)
  <2> DEFINE s == <<"=", "tree_node">>
  <2>1. <<"]", "=", "tree_node">> = <<"]">> \o s
    OBVIOUS
  <2>2. s \in Seq(Signs)
    BY InSigns
  <2> HIDE DEF s
  <2>3. (<<"]">> \o s) \o F = <<"]">> \o (s \o F)
    BY <1>1, <2>2, InSigns, Split
  <2> QED
    BY <2>1, <2>3 DEF s
<1>4. <<"=", "tree_node">> \o F = <<"=">> \o (<<"tree_node">> \o F)
  BY <1>1, InSigns, Joined2
<1> QED
  BY <1>2, <1>3, <1>4

LEMMA ListTail ==
  ASSUME NEW F \in Forms
  PROVE  <<"<", "node_name", ">", "[", "list_elem_star", "]">> \o F
           = <<"<">> \o (<<"node_name">> \o (<<">">> \o (<<"[">> \o (<<"list_elem_star">> \o (<<"]">> \o F)))))
<1>1. F \in Seq(Signs)
  BY DEF Forms
<1>2. <<"<", "node_name", ">", "[", "list_elem_star", "]">> \o F
        = <<"<">> \o (<<"node_name", ">", "[", "list_elem_star", "]">> \o F)
  <2> DEFINE s == <<"node_name", ">", "[", "list_elem_star", "]">>
  <2>1. <<"<", "node_name", ">", "[", "list_elem_star", "]">> = <<"<">> \o s
    OBVIOUS
  <2>2. s \in Seq(Signs)
    BY InSigns
  <2> HIDE DEF s
  <2>3. (<<"<">> \o s) \o F = <<"<">> \o (s \o F)
    BY <1>1, <2>2, InSigns, Split
  <2> QED
    BY <2>1, <2>3 DEF s
<1>3. <<"node_name", ">", "[", "list_elem_star", "]">> \o F
        = <<"node_name">> \o (<<">", "[", "list_elem_star", "]">> \o F)
  <2> DEFINE s == <<">", "[", "list_elem_star", "]">>
  <2>1. <<"node_name", ">", "[", "list_elem_star", "]">> = <<"node_name">> \o s
    OBVIOUS
  <2>2. s \in Seq(Signs)
    BY InSigns
  <2> HIDE DEF s
  <2>3. (<<"node_name">> \o s) \o F = <<"node_name">> \o (s \o F)
    BY <1>1, <2>2, InSigns, Split
  <2> QED
    BY <2>1, <2>3 DEF s
<1>4. <<">", "[", "list_elem_star", "]">> \o F = <<">">> \o (<<"[", "list_elem_star", "]">> \o F)
  <2> DEFINE s == <<"[", "list_elem_star", "]">>
  <2>1. <<">", "[", "list_elem_star", "]">> = <<">">> \o s
    OBVIOUS
  <2>2. s \in Seq(Signs)
    BY InSigns
  <2> HIDE DEF s
  <2>3. (<<">">> \o s) \o F = <<">">> \o (s \o F)
    BY <1>1, <2>2, InSigns, Split
  <2> QED
    BY <2>1, <2>3 DEF s
<1>5. <<"[", "list_elem_star", "]">> \o F = <<"[">> \o (<<"list_elem_star", "]">> \o F)
  <2> DEFINE s == <<"list_elem_star", "]">>
  <2>1. <<"[", "list_elem_star", "]">> = <<"[">> \o s
    OBVIOUS
  <2>2. s \in Seq(Signs)
    BY InSigns
  <2> HIDE DEF s
  <2>3. (<<"[">> \o s) \o F = <<"[">> \o (s \o F)
    BY <1>1, <2>2, InSigns, Split
  <2> QED
    BY <2>1, <2>3 DEF s
<1>6. <<"list_elem_star", "]">> \o F = <<"list_elem_star">> \o (<<"]">> \o F)
  BY <1>1, InSigns, Joined2
<1> QED
  BY <1>2, <1>3, <1>4, <1>5, <1>6

LEMMA ClosedIs ==
  ASSUME NEW F \in Forms
  PROVE  Closed(<<")">> \o F) /\ <<")">> \o F \in Forms
BY InSigns, Joined1 DEF Closed, Forms

LEMMA TreeReads ==
  ASSUME NEW F \in Forms
  PROVE  Covers(<<Parse("tree_node"), New("Tree", 1)>>,
                Still(<<"tree_node">> \o F, "plain"), Still(F, "plain"))
<1> DEFINE f1 == <<"tree_node">> \o F
<1>1. f1 \in Forms
  BY Before, InSigns
<1>2. <<"tree_node">> \o F = f1
  OBVIOUS
<1>3. Reads(Parse("tree_node"), Still(f1, "plain"), Still(F, "plain"))
  BY ParseReads, <1>1 DEF Symbols
<1>4. Reads(New("Tree", 1), Still(F, "plain"), Still(F, "plain"))
  BY QuietReads, NewItem, TextItem, <1>1 DEF Classes
<1> HIDE DEF f1
<1>5. Covers(<<Parse("tree_node"), New("Tree", 1)>>,
             Still(f1, "plain"), Still(F, "plain"))
  BY <1>3, <1>4, Covers2
<1> QED
  BY <1>5, <1>2

LEMMA TreeNodeReads ==
  ASSUME NEW F \in Forms
  PROVE  Covers(<<Parse("node_name"), Need("("), Parse("node_args"),
                  Need(")"), New("TreeNode", 2)>>,
                Still(<<"node_name">> \o (<<"(", "node_args", ")">> \o F), "plain"), Still(F, "plain"))
<1> DEFINE f4 == <<")">> \o F
           f3 == <<"node_args">> \o f4
           f2 == <<"(">> \o f3
           f1 == <<"node_name">> \o f2
<1>1. f4 \in Forms
  BY Before, InSigns
<1>2. f3 \in Forms
  BY Before, InSigns, <1>1
<1>3. f2 \in Forms
  BY Before, InSigns, <1>2
<1>4. f1 \in Forms
  BY Before, InSigns, <1>3
<1>5. <<"node_name">> \o (<<"(", "node_args", ")">> \o F) = f1
  BY NodeTail
<1>6. Closed(f4)
  BY ClosedIs
<1>7. Reads(Parse("node_name"), Still(f1, "plain"), Still(f2, "plain"))
  BY ParseReads, <1>1, <1>2, <1>3, <1>4 DEF Symbols
<1>8. Reads(Need("("), Still(f2, "plain"), Still(f3, "plain"))
  BY NeedReads, <1>1, <1>2, <1>3, <1>4 DEF NeededTypes, Marks, Sign
<1>9. Reads(Parse("node_args"), Still(f3, "plain"), Still(f4, "plain"))
  BY ParseReads, <1>1, <1>2, <1>3, <1>4, <1>6 DEF Symbols
<1>10. Reads(Need(")"), Still(f4, "plain"), Still(F, "plain"))
  BY NeedReads, <1>1, <1>2, <1>3, <1>4 DEF NeededTypes, Marks, Sign
<1>11. Reads(New("TreeNode", 2), Still(F, "plain"), Still(F, "plain"))
  BY QuietReads, NewItem, TextItem, <1>1, <1>2, <1>3, <1>4 DEF Classes
<1> HIDE DEF f4, f3, f2, f1
<1>12. Covers(<<Parse("node_name"), Need("("), Parse("node_args"),
             Need(")"), New("TreeNode", 2)>>,
             Still(f1, "plain"), Still(F, "plain"))
  BY <1>7, <1>8, <1>9, <1>10, <1>11, Covers5
<1> QED
  BY <1>12, <1>5

LEMMA NodeNameReads ==
  ASSUME NEW F \in Forms
  PROVE  Covers(<<Need("ident"), Text, New("NodeName", 1)>>,
                Still(<<"IDENT">> \o F, "plain"), Still(F, "plain"))
<1> DEFINE f1 == <<"IDENT">> \o F
<1>1. f1 \in Forms
  BY Before, InSigns
<1>2. <<"IDENT">> \o F = f1
  OBVIOUS
<1>3. Reads(Need("ident"), Still(f1, "plain"), Still(F, "plain"))
  BY NeedReads, <1>1 DEF NeededTypes, Marks, Sign
<1>4. Reads(Text, Still(F, "plain"), Still(F, "plain"))
  BY QuietReads, TextItem, <1>1
<1>5. Reads(New("NodeName", 1), Still(F, "plain"), Still(F, "plain"))
  BY QuietReads, NewItem, TextItem, <1>1 DEF Classes
<1> HIDE DEF f1
<1>6. Covers(<<Need("ident"), Text, New("NodeName", 1)>>,
             Still(f1, "plain"), Still(F, "plain"))
  BY <1>3, <1>4, <1>5, Covers3
<1> QED
  BY <1>6, <1>2

LEMMA NodeArgReads ==
  ASSUME NEW F \in Forms
  PROVE  Covers(<<Need("."), LeaveCtxt, Parse("arg_name"), Need("="),
                  Parse("arg_value"), New("NodeArg", 2), LeaveCtxt>>,
                Still(ArgForm(F), "dot"), Still(F, "plain"))
<1> DEFINE f5 == <<"arg_value">> \o F
           f4 == <<"=">> \o f5
           f3 == <<"arg_name">> \o f4
           f1 == <<".">> \o f3
<1>1. f5 \in Forms
  BY Before, InSigns
<1>2. f4 \in Forms
  BY Before, InSigns, <1>1
<1>3. f3 \in Forms
  BY Before, InSigns, <1>2
<1>4. f1 \in Forms
  BY Before, InSigns, <1>3
<1>5. ArgForm(F) = f1
  BY ArgTail DEF ArgForm
<1>6. Reads(Need("."), Still(f1, "dot"), Still(f3, "leave"))
  BY NeedReads, <1>1, <1>2, <1>3, <1>4 DEF NeededTypes, Marks, Sign
<1>7. Reads(LeaveCtxt, Still(f3, "leave"), Still(f3, "name"))
  BY LeaveReads, <1>1, <1>2, <1>3, <1>4
<1>8. Reads(Parse("arg_name"), Still(f3, "name"), Still(f4, "plain"))
  BY ParseReads, <1>1, <1>2, <1>3, <1>4 DEF Symbols
<1>9. Reads(Need("="), Still(f4, "plain"), Still(f5, "plain"))
  BY NeedReads, <1>1, <1>2, <1>3, <1>4 DEF NeededTypes, Marks, Sign
<1>10. Reads(Parse("arg_value"), Still(f5, "plain"), Still(F, "plain"))
  BY ParseReads, <1>1, <1>2, <1>3, <1>4 DEF Symbols
<1>11. Reads(New("NodeArg", 2), Still(F, "plain"), Still(F, "plain"))
  BY QuietReads, NewItem, TextItem, <1>1, <1>2, <1>3, <1>4 DEF Classes
<1>12. Reads(LeaveCtxt, Still(F, "plain"), Still(F, "plain"))
  BY LeaveReads, <1>1, <1>2, <1>3, <1>4
<1> HIDE DEF f5, f4, f3, f1
<1>13. Covers(<<Need("."), LeaveCtxt, Parse("arg_name"), Need("="),
             Parse("arg_value"), New("NodeArg", 2), LeaveCtxt>>,
             Still(f1, "dot"), Still(F, "plain"))
  BY <1>6, <1>7, <1>8, <1>9, <1>10, <1>11, <1>12, Covers7
<1> QED
  BY <1>13, <1>5

LEMMA ArgNameReads ==
  ASSUME NEW F \in Forms
  PROVE  Covers(<<Need("name"), Text, New("ArgName", 1)>>,
                Still(<<"NAME">> \o F, "name"), Still(F, "plain"))
<1> DEFINE f1 == <<"NAME">> \o F
<1>1. f1 \in Forms
  BY Before, InSigns
<1>2. <<"NAME">> \o F = f1
  OBVIOUS
<1>3. Reads(Need("name"), Still(f1, "name"), Still(F, "plain"))
  BY NeedReads, <1>1 DEF NeededTypes, Marks, Sign
<1>4. Reads(Text, Still(F, "plain"), Still(F, "plain"))
  BY QuietReads, TextItem, <1>1
<1>5. Reads(New("ArgName", 1), Still(F, "plain"), Still(F, "plain"))
  BY QuietReads, NewItem, TextItem, <1>1 DEF Classes
<1> HIDE DEF f1
<1>6. Covers(<<Need("name"), Text, New("ArgName", 1)>>,
             Still(f1, "name"), Still(F, "plain"))
  BY <1>3, <1>4, <1>5, Covers3
<1> QED
  BY <1>6, <1>2

LEMMA ListElemReads ==
  ASSUME NEW F \in Forms
  PROVE  Covers(<<Need("["), Need("num"), Index, Need("]"),
                  Need("="), Parse("tree_node"), New("ListElem", 2)>>,
                Still(ElemForm(F), "plain"), Still(F, "plain"))
<1> DEFINE f6 == <<"tree_node">> \o F
           f5 == <<"=">> \o f6
           f4 == <<"]">> \o f5
           f2 == <<"NUM">> \o f4
           f1 == <<"[">> \o f2
<1>1. f6 \in Forms
  BY Before, InSigns
<1>2. f5 \in Forms
  BY Before, InSigns, <1>1
<1>3. f4 \in Forms
  BY Before, InSigns, <1>2
<1>4. f2 \in Forms
  BY Before, InSigns, <1>3
<1>5. f1 \in Forms
  BY Before, InSigns, <1>4
<1>6. ElemForm(F) = f1
  BY ElemTail DEF ElemForm
<1>7. Reads(Need("["), Still(f1, "plain"), Still(f2, "plain"))
  BY NeedReads, <1>1, <1>2, <1>3, <1>4, <1>5 DEF NeededTypes, Marks, Sign
<1>8. Reads(Need("num"), Still(f2, "plain"), Still(f4, "plain"))
  BY NeedReads, <1>1, <1>2, <1>3, <1>4, <1>5 DEF NeededTypes, Marks, Sign
<1>9. Reads(Index, Still(f4, "plain"), Still(f4, "plain"))
  BY QuietReads, TextItem, <1>1, <1>2, <1>3, <1>4, <1>5
<1>10. Reads(Need("]"), Still(f4, "plain"), Still(f5, "plain"))
  BY NeedReads, <1>1, <1>2, <1>3, <1>4, <1>5 DEF NeededTypes, Marks, Sign
<1>11. Reads(Need("="), Still(f5, "plain"), Still(f6, "plain"))
  BY NeedReads, <1>1, <1>2, <1>3, <1>4, <1>5 DEF NeededTypes, Marks, Sign
<1>12. Reads(Parse("tree_node"), Still(f6, "plain"), Still(F, "plain"))
  BY ParseReads, <1>1, <1>2, <1>3, <1>4, <1>5 DEF Symbols
<1>13. Reads(New("ListElem", 2), Still(F, "plain"), Still(F, "plain"))
  BY QuietReads, NewItem, TextItem, <1>1, <1>2, <1>3, <1>4, <1>5 DEF Classes
<1> HIDE DEF f6, f5, f4, f2, f1
<1>14. Covers(<<Need("["), Need("num"), Index, Need("]"),
             Need("="), Parse("tree_node"), New("ListElem", 2)>>,
             Still(f1, "plain"), Still(F, "plain"))
  BY <1>7, <1>8, <1>9, <1>10, <1>11, <1>12, <1>13, Covers7
<1> QED
  BY <1>14, <1>6

LEMMA LiteralReads ==
  ASSUME NEW F \in Forms
  PROVE  Covers(<<Need("str"), Text, New("Literal", 1)>>,
                Still(<<"STR">> \o F, "plain"), Still(F, "plain"))
<1> DEFINE f1 == <<"STR">> \o F
<1>1. f1 \in Forms
  BY Before, InSigns
<1>2. <<"STR">> \o F = f1
  OBVIOUS
<1>3. Reads(Need("str"), Still(f1, "plain"), Still(F, "plain"))
  BY NeedReads, <1>1 DEF NeededTypes, Marks, Sign
<1>4. Reads(Text, Still(F, "plain"), Still(F, "plain"))
  BY QuietReads, TextItem, <1>1
<1>5. Reads(New("Literal", 1), Still(F, "plain"), Still(F, "plain"))
  BY QuietReads, NewItem, TextItem, <1>1 DEF Classes
<1> HIDE DEF f1
<1>6. Covers(<<Need("str"), Text, New("Literal", 1)>>,
             Still(f1, "plain"), Still(F, "plain"))
  BY <1>3, <1>4, <1>5, Covers3
<1> QED
  BY <1>6, <1>2

LEMMA ArgsLoopReads ==
  ASSUME NEW F \in Forms, Closed(F)
  PROVE  Covers(<<Loop("node_arg", 0)>>,
                Still(Args(F), "plain"), Still(F, "plain"))
<1> DEFINE f1 == Args(F)
<1>1. f1 \in Forms
  BY StoppedForms
<1>2. Args(F) = f1
  OBVIOUS
<1>3. Reads(Loop("node_arg", 0), Still(f1, "plain"), Still(F, "plain"))
  BY LoopReads, <1>1
<1> HIDE DEF f1
<1>4. Covers(<<Loop("node_arg", 0)>>,
             Still(f1, "plain"), Still(F, "plain"))
  BY <1>3, CoversOne
<1> QED
  BY <1>4, <1>2

LEMMA LiteralArgsReads ==
  ASSUME NEW F \in Forms
  PROVE  Covers(<<Parse("literal"), New("LiteralArgs", 1)>>,
                Still(<<"literal">> \o F, "plain"), Still(F, "plain"))
<1> DEFINE f1 == <<"literal">> \o F
<1>1. f1 \in Forms
  BY Before, InSigns
<1>2. <<"literal">> \o F = f1
  OBVIOUS
<1>3. Reads(Parse("literal"), Still(f1, "plain"), Still(F, "plain"))
  BY ParseReads, <1>1 DEF Symbols
<1>4. Reads(New("LiteralArgs", 1), Still(F, "plain"), Still(F, "plain"))
  BY QuietReads, NewItem, TextItem, <1>1 DEF Classes
<1> HIDE DEF f1
<1>5. Covers(<<Parse("literal"), New("LiteralArgs", 1)>>,
             Still(f1, "plain"), Still(F, "plain"))
  BY <1>3, <1>4, Covers2
<1> QED
  BY <1>5, <1>2

LEMMA NodeValueReads ==
  ASSUME NEW F \in Forms
  PROVE  Covers(<<Parse("tree_node"), New("NodeValue", 1)>>,
                Still(<<"tree_node">> \o F, "plain"), Still(F, "plain"))
<1> DEFINE f1 == <<"tree_node">> \o F
<1>1. f1 \in Forms
  BY Before, InSigns
<1>2. <<"tree_node">> \o F = f1
  OBVIOUS
<1>3. Reads(Parse("tree_node"), Still(f1, "plain"), Still(F, "plain"))
  BY ParseReads, <1>1 DEF Symbols
<1>4. Reads(New("NodeValue", 1), Still(F, "plain"), Still(F, "plain"))
  BY QuietReads, NewItem, TextItem, <1>1 DEF Classes
<1> HIDE DEF f1
<1>5. Covers(<<Parse("tree_node"), New("NodeValue", 1)>>,
             Still(f1, "plain"), Still(F, "plain"))
  BY <1>3, <1>4, Covers2
<1> QED
  BY <1>5, <1>2

LEMMA LiteralValueReads ==
  ASSUME NEW F \in Forms
  PROVE  Covers(<<Parse("literal"), New("LiteralValue", 1)>>,
                Still(<<"literal">> \o F, "plain"), Still(F, "plain"))
<1> DEFINE f1 == <<"literal">> \o F
<1>1. f1 \in Forms
  BY Before, InSigns
<1>2. <<"literal">> \o F = f1
  OBVIOUS
<1>3. Reads(Parse("literal"), Still(f1, "plain"), Still(F, "plain"))
  BY ParseReads, <1>1 DEF Symbols
<1>4. Reads(New("LiteralValue", 1), Still(F, "plain"), Still(F, "plain"))
  BY QuietReads, NewItem, TextItem, <1>1 DEF Classes
<1> HIDE DEF f1
<1>5. Covers(<<Parse("literal"), New("LiteralValue", 1)>>,
             Still(f1, "plain"), Still(F, "plain"))
  BY <1>3, <1>4, Covers2
<1> QED
  BY <1>5, <1>2

LEMMA ListReads ==
  ASSUME NEW F \in Forms
  PROVE  Covers(<<Need("kw_list"), Need("<"), Parse("node_name"),
                  Need(">"), Need("["), Loop("list_elem", 0)>>,
                Still(ListForm(F), "plain"), Still(F, "plain"))
<1> DEFINE f6 == Elems(<<"]">> \o F)
           f5 == <<"[">> \o f6
           f4 == <<">">> \o f5
           f3 == <<"node_name">> \o f4
           f2 == <<"<">> \o f3
           f1 == <<"list">> \o f2
<1>1. f6 \in Forms
  BY Before, InSigns, StoppedForms
<1>2. f5 \in Forms
  BY Before, InSigns, <1>1
<1>3. f4 \in Forms
  BY Before, InSigns, <1>2
<1>4. f3 \in Forms
  BY Before, InSigns, <1>3
<1>5. f2 \in Forms
  BY Before, InSigns, <1>4
<1>6. f1 \in Forms
  BY Before, InSigns, <1>5
<1>7. ListForm(F) = f1
  BY ListTail DEF ListForm, Elems
<1>8. Reads(Need("kw_list"), Still(f1, "plain"), Still(f2, "plain"))
  BY NeedReads, <1>1, <1>2, <1>3, <1>4, <1>5, <1>6 DEF NeededTypes, Marks, Sign
<1>9. Reads(Need("<"), Still(f2, "plain"), Still(f3, "plain"))
  BY NeedReads, <1>1, <1>2, <1>3, <1>4, <1>5, <1>6 DEF NeededTypes, Marks, Sign
<1>10. Reads(Parse("node_name"), Still(f3, "plain"), Still(f4, "plain"))
  BY ParseReads, <1>1, <1>2, <1>3, <1>4, <1>5, <1>6 DEF Symbols
<1>11. Reads(Need(">"), Still(f4, "plain"), Still(f5, "plain"))
  BY NeedReads, <1>1, <1>2, <1>3, <1>4, <1>5, <1>6 DEF NeededTypes, Marks, Sign
<1>12. Reads(Need("["), Still(f5, "plain"), Still(f6, "plain"))
  BY NeedReads, <1>1, <1>2, <1>3, <1>4, <1>5, <1>6 DEF NeededTypes, Marks, Sign
<1>13. Reads(Loop("list_elem", 0), Still(f6, "plain"), Still(F, "plain"))
  BY LoopReads, <1>1, <1>2, <1>3, <1>4, <1>5, <1>6
<1> HIDE DEF f6, f5, f4, f3, f2, f1
<1>14. Covers(<<Need("kw_list"), Need("<"), Parse("node_name"),
             Need(">"), Need("["), Loop("list_elem", 0)>>,
             Still(f1, "plain"), Still(F, "plain"))
  BY <1>8, <1>9, <1>10, <1>11, <1>12, <1>13, Covers6
<1> QED
  BY <1>14, <1>7

LEMMA ArgsTurnReads ==
  ASSUME NEW F \in Forms, NEW n \in Nat, Closed(F)
  PROVE  Covers(<<Parse("node_arg"), Loop("node_arg", n + 1)>>,
                Still(<<"node_arg">> \o Args(F), "plain"), Still(F, "plain"))
<1> DEFINE f2 == Args(F)
           f1 == <<"node_arg">> \o f2
<1>1. f2 \in Forms
  BY StoppedForms
<1>2. f1 \in Forms
  BY Before, InSigns, <1>1
<1>3. <<"node_arg">> \o Args(F) = f1
  OBVIOUS
<1>4. Reads(Parse("node_arg"), Still(f1, "plain"), Still(f2, "plain"))
  BY ParseReads, <1>1, <1>2 DEF Symbols
<1>5. Reads(Loop("node_arg", n + 1), Still(f2, "plain"), Still(F, "plain"))
  BY LoopReads, <1>1, <1>2
<1> HIDE DEF f2, f1
<1>6. Covers(<<Parse("node_arg"), Loop("node_arg", n + 1)>>,
             Still(f1, "plain"), Still(F, "plain"))
  BY <1>4, <1>5, Covers2
<1> QED
  BY <1>6, <1>3

LEMMA ArgsAfterReads ==
  ASSUME NEW F \in Forms, NEW n \in Nat
  PROVE  Covers(<<New("ListArgs", n)>>,
                Still(F, "plain"), Still(F, "plain"))
<1>1. Reads(New("ListArgs", n), Still(F, "plain"), Still(F, "plain"))
  BY QuietReads, NewItem, TextItem DEF Classes
<1>2. Covers(<<New("ListArgs", n)>>,
             Still(F, "plain"), Still(F, "plain"))
  BY <1>1, CoversOne
<1> QED
  BY <1>2

LEMMA ListTurnReads ==
  ASSUME NEW F \in Forms, NEW n \in Nat
  PROVE  Covers(<<Parse("list_elem"), Loop("list_elem", n + 1)>>,
                Still(<<"list_elem">> \o Elems(<<"]">> \o F), "plain"), Still(F, "plain"))
<1> DEFINE f2 == Elems(<<"]">> \o F)
           f1 == <<"list_elem">> \o f2
<1>1. f2 \in Forms
  BY Before, InSigns, StoppedForms
<1>2. f1 \in Forms
  BY Before, InSigns, <1>1
<1>3. <<"list_elem">> \o Elems(<<"]">> \o F) = f1
  OBVIOUS
<1>4. Reads(Parse("list_elem"), Still(f1, "plain"), Still(f2, "plain"))
  BY ParseReads, <1>1, <1>2 DEF Symbols
<1>5. Reads(Loop("list_elem", n + 1), Still(f2, "plain"), Still(F, "plain"))
  BY LoopReads, <1>1, <1>2
<1> HIDE DEF f2, f1
<1>6. Covers(<<Parse("list_elem"), Loop("list_elem", n + 1)>>,
             Still(f1, "plain"), Still(F, "plain"))
  BY <1>4, <1>5, Covers2
<1> QED
  BY <1>6, <1>3

LEMMA ListAfterReads ==
  ASSUME NEW F \in Forms, NEW n \in Nat
  PROVE  Covers(<<Need("]"), New("NodeList", n + 1), New("ListValue", 1)>>,
                Still(<<"]">> \o F, "plain"), Still(F, "plain"))
<1> DEFINE f1 == <<"]">> \o F
<1>1. f1 \in Forms
  BY Before, InSigns
<1>2. <<"]">> \o F = f1
  OBVIOUS
<1>3. Reads(Need("]"), Still(f1, "plain"), Still(F, "plain"))
  BY NeedReads, <1>1 DEF NeededTypes, Marks, Sign
<1>4. Reads(New("NodeList", n + 1), Still(F, "plain"), Still(F, "plain"))
  BY QuietReads, NewItem, TextItem, <1>1 DEF Classes
<1>5. Reads(New("ListValue", 1), Still(F, "plain"), Still(F, "plain"))
  BY QuietReads, NewItem, TextItem, <1>1 DEF Classes
<1> HIDE DEF f1
<1>6. Covers(<<Need("]"), New("NodeList", n + 1), New("ListValue", 1)>>,
             Still(f1, "plain"), Still(F, "plain"))
  BY <1>3, <1>4, <1>5, Covers3
<1> QED
  BY <1>6, <1>2


-----------------------------------------------------------------------------
(* What follows a lexeme.                                                  *)
LEMMA EachReplaced ==
  ASSUME NEW A \in SUBSET Forms, A # {}
  PROVE  Replaced(A) # {} /\ Replaced(A) \subseteq Forms
<1> DEFINE Sub(form) == IF form # <<>> /\ Head(form) \in DOMAIN Grammar
                          THEN {rhs \o Tail(form) : rhs \in Grammar[Head(form)]}
                          ELSE {form}
<1>1. ASSUME NEW h \in DOMAIN Grammar  PROVE Grammar[h] # {} /\ Grammar[h] \subseteq Seq(Signs)
  <2> HIDE DEF Sub
  <2>1. CASE h = "tree"
    <3>1. <<"tree_node">> \in Seq(Signs)
      BY InSigns
    <3> QED
      BY <2>1, <3>1, RulesAre
  <2>2. CASE h = "tree_node"
    <3>1. <<"node_name", "(", "node_args", ")">> \in Seq(Signs)
      BY InSigns
    <3> QED
      BY <2>2, <3>1, RulesAre
  <2>3. CASE h = "node_name"
    <3>1. <<"IDENT">> \in Seq(Signs)
      BY InSigns
    <3> QED
      BY <2>3, <3>1, RulesAre
  <2>4. CASE h = "node_args"
    <3>1. <<"node_arg_star">> \in Seq(Signs) /\ <<"literal">> \in Seq(Signs)
      BY InSigns
    <3> QED
      BY <2>4, <3>1, RulesAre
  <2>5. CASE h = "node_arg_star"
    <3>1. <<>> \in Seq(Signs) /\ <<"node_arg", "node_arg_star">> \in Seq(Signs)
      BY InSigns
    <3> QED
      BY <2>5, <3>1, RulesAre
  <2>6. CASE h = "node_arg"
    <3>1. <<".", "arg_name", "=", "arg_value">> \in Seq(Signs)
      BY InSigns
    <3> QED
      BY <2>6, <3>1, RulesAre
  <2>7. CASE h = "arg_name"
    <3>1. <<"NAME">> \in Seq(Signs)
      BY InSigns
    <3> QED
      BY <2>7, <3>1, RulesAre
  <2>8. CASE h = "arg_value"
    <3>1. /\ <<"tree_node">> \in Seq(Signs)
        /\ <<"literal">> \in Seq(Signs)
        /\ <<"list", "<", "node_name", ">", "[", "list_elem_star", "]">> \in Seq(Signs)
      BY InSigns
    <3> QED
      BY <2>8, <3>1, RulesAre
  <2>9. CASE h = "list_elem_star"
    <3>1. <<>> \in Seq(Signs) /\ <<"list_elem", "list_elem_star">> \in Seq(Signs)
      BY InSigns
    <3> QED
      BY <2>9, <3>1, RulesAre
  <2>10. CASE h = "list_elem"
    <3>1. <<"[", "NUM", "]", "=", "tree_node">> \in Seq(Signs)
      BY InSigns
    <3> QED
      BY <2>10, <3>1, RulesAre
  <2>11. CASE h = "literal"
    <3>1. <<"STR">> \in Seq(Signs)
      BY InSigns
    <3> QED
      BY <2>11, <3>1, RulesAre
  <2> QED
    BY <2>1, <2>2, <2>3, <2>4, <2>5, <2>6, <2>7, <2>8, <2>9, <2>10, <2>11, SymbolsAre
<1>2. ASSUME NEW form \in Forms  PROVE Sub(form) # {} /\ Sub(form) \subseteq Forms
  <2>1. CASE form # <<>> /\ Head(form) \in DOMAIN Grammar
    <3> DEFINE h == Head(form)
               t == Tail(form)
    <3>1. t \in Seq(Signs)
      BY <2>1 DEF Forms
    <3>2. Sub(form) = {rhs \o t : rhs \in Grammar[h]}
      BY <2>1
    <3>3. h \in DOMAIN Grammar
      BY <2>1
    <3> HIDE DEF Sub, h, t
    <3>4. \A rhs \in Grammar[h] : rhs \o t \in Seq(Signs)
      BY <1>1, <3>1, <3>3, ConcatProperties
    <3> QED
      BY <1>1, <3>2, <3>3, <3>4 DEF Forms
  <2>2. CASE ~(form # <<>> /\ Head(form) \in DOMAIN Grammar)
    BY <2>2
  <2> QED
    BY <2>1, <2>2
<1>3. Replaced(A) = UNION {Sub(form) : form \in A}
  BY DEF Replaced
<1> HIDE DEF Sub
<1> QED
  BY <1>2, <1>3

LEMMA EachExpands ==
  ASSUME NEW F \in Forms
  PROVE  Expand(F) # {} /\ Expand(F) \subseteq Forms
<1>1. Replaced({F}) # {} /\ Replaced({F}) \in SUBSET Forms
  BY EachReplaced
<1>2. Replaced(Replaced({F})) # {} /\ Replaced(Replaced({F})) \in SUBSET Forms
  BY <1>1, EachReplaced
<1> QED
  BY <1>2, EachReplaced DEF Expand

LEMMA FollowNone ==
  ASSUME NEW A, NEW lex, \A f \in A : f # <<>> => lex \notin Lex(Head(f))
  PROVE  Follow(A, lex) = {}
BY DEF Follow

LEMMA FollowSame ==
  ASSUME NEW A, NEW B \in SUBSET A, NEW lex,
         \A f \in A : f # <<>> /\ lex \in Lex(Head(f)) => f \in B
  PROVE  Follow(A, lex) = Follow(B, lex)
<1>1. {f \in A : f # <<>> /\ lex \in Lex(Head(f))} = {f \in B : f # <<>> /\ lex \in Lex(Head(f))}
  OBVIOUS
<1> QED
  BY <1>1, Zenon DEF Follow

LEMMA HeadIs ==
  ASSUME NEW F \in Forms, NEW t \in Signs
  PROVE  /\ <<t>> \o F # <<>> /\ Head(<<t>> \o F) = t /\ Tail(<<t>> \o F) = F
         /\ <<t>> \o F \in Forms
<1>1. <<t>> \in Seq(Signs) /\ <<t>> # <<>> /\ Head(<<t>>) = t /\ Tail(<<t>>) = <<>>
  OBVIOUS
<1>2. <<>> \o F = F
  BY DEF Forms
<1> QED
  BY <1>1, <1>2, HeadOfForm DEF Forms

LEMMA FollowOne ==
  ASSUME NEW F \in Forms, NEW t \in Signs, NEW lex, lex \in Lex(t)
  PROVE  Follow({<<t>> \o F}, lex) = Expand(F)
<1> DEFINE g == <<t>> \o F
<1>1. g # <<>> /\ Head(g) = t /\ Tail(g) = F
  BY HeadIs
<1> HIDE DEF g
<1>2. {f \in {g} : f # <<>> /\ lex \in Lex(Head(f))} = {g}
  BY <1>1
<1>3. Follow({g}, lex) = UNION {Expand(Tail(form)) : form \in {g}}
  BY <1>2, Zenon DEF Follow
<1>4. Follow({g}, lex) = Expand(Tail(g))
  <2> HIDE DEF Follow, Expand
  <2> QED
    BY <1>3
<1> QED
  BY <1>1, <1>4 DEF g

-----------------------------------------------------------------------------
(* The type of a lexeme where `list' is a name, and where it is none.      *)
TypeIn(lex, named) ==
  CASE lex \in Marks  -> lex
    [] lex \in Idents -> "ident"
    [] lex \in Names  -> "name"
    [] lex \in Strs   -> "str"
    [] lex \in Nums   -> "num"
    [] lex = "list"   -> IF named THEN "name" ELSE "kw_list"
    [] lex = EOS      -> "eos"

LEMMA TypeIsIn == \A lex : TypeOf(lex) = TypeIn(lex, arg_ctxt)
BY Zenon DEF TypeOf, TypeIn

(* The lexemes of a terminal are those of the type that stands for it.     *)
LEMMA TypesFit ==
  ASSUME NEW lex \in Lexemes \ {Bad}, NEW named \in BOOLEAN,
         NEW type \in NeededTypes \cup {"eos"},
         type = "name" => named, type = "kw_list" => ~named
  PROVE  lex \in Lex(Sign(type)) <=> TypeIn(lex, named) = type
<1> USE LexemeAssumption
<1>1. /\ type = "ident" => Lex(Sign(type)) = Idents
      /\ type = "name" => Lex(Sign(type)) = Names \cup {"list"}
      /\ type = "str" => Lex(Sign(type)) = Strs
      /\ type = "num" => Lex(Sign(type)) = Nums
      /\ type = "kw_list" => Lex(Sign(type)) = {"list"}
      /\ type = "eos" => Lex(Sign(type)) = {EOS}
      /\ type \in Marks => Lex(Sign(type)) = {type}
  BY DEF Lex, Sign, Marks, EOS
<1>2. /\ lex \in Marks => TypeIn(lex, named) = lex
      /\ lex \in Idents => TypeIn(lex, named) = "ident"
      /\ lex \in Names => TypeIn(lex, named) = "name"
      /\ lex \in Strs => TypeIn(lex, named) = "str"
      /\ lex \in Nums => TypeIn(lex, named) = "num"
      /\ lex = "list" => TypeIn(lex, named) = IF named THEN "name" ELSE "kw_list"
      /\ lex = EOS => TypeIn(lex, named) = "eos"
  <2>1. CASE lex \in Idents \cup Names \cup Strs \cup Nums
    <3>1. lex \notin Marks /\ lex # "list" /\ lex # EOS
      BY <2>1
    <3> QED
      BY <2>1, <3>1 DEF TypeIn
  <2>2. CASE lex \notin Idents \cup Names \cup Strs \cup Nums
    BY <2>2 DEF TypeIn, Marks, EOS
  <2> QED
    BY <2>1, <2>2
<1>3. /\ lex \in Marks \cup Idents \cup Names \cup Strs \cup Nums \cup {"list", EOS}
      /\ type \in Marks \cup {"ident", "name", "num", "str", "kw_list", "eos"}
  BY DEF Lexemes, NeededTypes
<1>4. /\ Marks \cap {"ident", "name", "num", "str", "kw_list", "eos", "list", EOS} = {}
      /\ EOS # "list"
  BY DEF Marks, EOS
<1>5. CASE lex \in Marks
  BY <1>1, <1>2, <1>3, <1>4, <1>5
<1>6. CASE lex \in Idents
  BY <1>1, <1>2, <1>3, <1>4, <1>6
<1>7. CASE lex \in Names
  BY <1>1, <1>2, <1>3, <1>4, <1>7
<1>8. CASE lex \in Strs
  BY <1>1, <1>2, <1>3, <1>4, <1>8
<1>9. CASE lex \in Nums
  BY <1>1, <1>2, <1>3, <1>4, <1>9
<1>10. CASE lex = "list"
  BY <1>1, <1>2, <1>3, <1>4, <1>10
<1>11. CASE lex = EOS
  BY <1>1, <1>2, <1>3, <1>4, <1>11
<1> QED
  BY <1>3, <1>5, <1>6, <1>7, <1>8, <1>9, <1>10, <1>11

LEMMA BadIsNowhere == \A t \in Signs : Bad \notin Lex(t)
<1> SUFFICES ASSUME NEW t \in Signs  PROVE Bad \notin Lex(t)
  OBVIOUS
<1>1. Bad \notin Idents \cup Names \cup Strs \cup Nums /\ Bad # "list"
  BY LexemeAssumption DEF Bad
<1>2. t # Bad
  BY SymbolsAre DEF Signs, Terminals, Marks, EOS, Bad
<1> QED
  BY <1>1, <1>2 DEF Lex

-----------------------------------------------------------------------------
(* All but the last.                                                       *)
LEMMA FrontOf ==
  ASSUME NEW S, NEW s \in Seq(S), NEW x \in S
  PROVE  Front(Append(s, x)) = s
<1> DEFINE t == Append(s, x)
           n == Len(s)
<1>1. /\ n \in Nat /\ t \in Seq(S) /\ Len(t) = n + 1
      /\ \A i \in 1 .. n : t[i] = s[i]
  BY AppendProperties, LenProperties
<1> HIDE DEF t
<1>2. /\ SubSeq(t, 1, n) \in Seq(S) /\ Len(SubSeq(t, 1, n)) = n
      /\ \A i \in 1 .. n : SubSeq(t, 1, n)[i] = t[i]
  BY <1>1
<1>3. Front(t) = SubSeq(t, 1, n)
  BY <1>1 DEF Front
<1> HIDE DEF n
<1>4. SubSeq(t, 1, n) = s
  BY <1>1, <1>2, SeqEqual DEF n
<1> QED
  BY <1>3, <1>4 DEF t

LEMMA LastOff ==
  ASSUME NEW S, NEW s \in Seq(S), s # <<>>
  PROVE  Front(s) \in Seq(S) /\ s = Append(Front(s), s[Len(s)]) /\ s[Len(s)] \in S
<1> DEFINE m == Len(s) - 1
           r == SubSeq(s, 1, m)
           t == Append(r, s[Len(s)])
<1>1. Len(s) = m + 1 /\ m \in Nat
  <2>1. Len(s) \in Nat /\ Len(s) # 0
    BY EmptySeq, LenProperties
  <2> QED
    BY <2>1
<1>2. s[Len(s)] \in S
  BY <1>1, ElementOfSeq
<1>3. r \in Seq(S) /\ Len(r) = m /\ \A i \in 1 .. m : r[i] = s[i]
  BY <1>1
<1>4. Front(s) = r
  BY DEF Front
<1> HIDE DEF r, m
<1>5. /\ t \in Seq(S) /\ Len(t) = m + 1 /\ t[m + 1] = s[Len(s)]
      /\ \A i \in 1 .. m : t[i] = r[i]
  BY <1>2, <1>3, AppendProperties
<1> HIDE DEF t
<1>6. \A i \in 1 .. Len(s) : s[i] = t[i]
  BY <1>1, <1>3, <1>5
<1>7. s = t
  BY <1>1, <1>5, <1>6, SeqEqual
<1> QED
  BY <1>2, <1>3, <1>4, <1>7 DEF t

-----------------------------------------------------------------------------
(* The parser and the grammar agree: the items still to do read the rest of*)
(* a sentence, and what they read is all that can follow what was read     *)
(* before the lookahead and begin with it.                                 *)
AtEnd == Still(<<>>, "plain")

Right(p) ==
  /\ arg_ctxt <=> p.place \in {"dot", "leave"}
  /\ read = <<>> => p.form = Input /\ p.place = "plain"
  /\ read # <<>> =>
       /\ tok.lex \in Lexemes \ {Bad}
       /\ tok.type = TypeIn(tok.lex, p.place \in {"leave", "name"})
       /\ Expand(p.form) \subseteq Rest(Front(read))
       /\ \A f \in Rest(Front(read)) :
            f # <<>> /\ tok.lex \in Lex(Head(f)) => f \in Expand(p.form)

Agrees == outcome = "running" => \E p \in Readings : Covers(todo, p, AtEnd) /\ Right(p)

GInv == AcceptsGrammar /\ ErrorsAreExact /\ Agrees

-----------------------------------------------------------------------------
(* The next item, what it reads, and the items after it.                   *)
LEMMA NextReads ==
  ASSUME GInv, NEW what, Running(what)
  PROVE  \E p, q \in Readings :
           /\ Right(p) /\ Reads(Head(todo), p, q) /\ Covers(Tail(todo), q, AtEnd)
           /\ Head(todo) \in Item /\ Head(todo).do = what
<1>1. PICK p \in Readings : Covers(todo, p, AtEnd) /\ Right(p)
  BY DEF GInv, Agrees, Running
<1>2. PICK q \in Readings : Reads(Head(todo), p, q) /\ Covers(Tail(todo), q, AtEnd)
  BY <1>1, CoversFirst DEF Running
<1> QED
  BY <1>1, <1>2 DEF Running, Reads

LEMMA IsStill ==
  ASSUME NEW p \in Readings
  PROVE  p.form \in Forms /\ p.place \in Places /\ p = Still(p.form, p.place)
BY DEF Readings, Still

(* There is a lookahead but before the first.                              *)
LEMMA HasRead ==
  ASSUME IInv, NEW what, Running(what), what # "begin"
  PROVE  read # <<>> /\ read \in Seq(Lexemes) /\ tok.lex = read[Len(read)]
<1>1. PICK p, q \in States :
        /\ p.n = Len(vals) /\ Shows(p.last) /\ Leads(Head(todo), p, q)
        /\ Takes(Tail(todo), q, At(0, "end"))
        /\ Head(todo) \in Item /\ Head(todo).do = what
  BY Here
<1>2. read # <<>>
  BY <1>1 DEF Leads, Shows
<1> QED
  BY <1>2 DEF Running, IInv, Looked, Typed

(* What may follow all that was read.                                      *)
LEMMA RestNow ==
  ASSUME IInv, read # <<>>, outcome = "running", NEW p \in Readings, Right(p)
  PROVE  Rest(read) = Follow(Expand(p.form), tok.lex)
<1>1. read \in Seq(Lexemes) /\ tok.lex = read[Len(read)]
  BY DEF IInv, Typed, Looked
<1>2. /\ Front(read) \in Seq(Lexemes) /\ tok.lex \in Lexemes
      /\ read = Append(Front(read), tok.lex)
  BY <1>1, LastOff
<1>3. Rest(read) = Follow(Rest(Front(read)), tok.lex)
  <2> DEFINE r == Front(read)
             l == tok.lex
  <2>1. r \in Seq(Lexemes) /\ l \in Lexemes
    BY <1>2
  <2> HIDE DEF r, l
  <2>2. Rest(Append(r, l)) = Follow(Rest(r), l)
    BY <2>1, RestOfNext
  <2> QED
    BY <1>2, <2>2 DEF r, l
<1>4. Follow(Rest(Front(read)), tok.lex) = Follow(Expand(p.form), tok.lex)
  <2>1. /\ Expand(p.form) \subseteq Rest(Front(read))
        /\ \A f \in Rest(Front(read)) :
             f # <<>> /\ tok.lex \in Lex(Head(f)) => f \in Expand(p.form)
    BY DEF Right
  <2> QED
    BY <2>1, FollowSame
<1> QED
  BY <1>3, <1>4

(* A step that reads nothing, and goes on.                                 *)
LEMMA GoesOn ==
  ASSUME IInv, GInv, outcome' = "running", UNCHANGED read, NEW p, NEW q, NEW items,
         Go(items), Covers(items, p, q), Covers(Tail(todo), q, AtEnd), Right(p)'
  PROVE  GInv'
<1>1. Covers(todo', p, AtEnd)
  BY CoversBoth DEF Go
<1>2. p \in Readings
  BY ChainEnds DEF Covers
<1>3. Agrees'
  BY <1>1, <1>2 DEF Agrees
<1>4. AcceptsGrammar'
  BY DEF AcceptsGrammar
<1>5. ErrorsAreExact'
  BY DEF GInv, ErrorsAreExact, BeginsSentence
<1> QED
  BY <1>3, <1>4, <1>5 DEF GInv

(* A step that reads nothing, and throws.                                  *)
LEMMA Throws ==
  ASSUME GInv, NEW error \in Errors, Throw(error), UNCHANGED read,
         error = "syntax" => Rest(read) = {}
  PROVE  GInv'
<1>1. outcome' = error /\ error # "running" /\ error # "parsed"
  BY DEF Throw, Errors
<1>2. Agrees' /\ AcceptsGrammar'
  BY <1>1 DEF Agrees, AcceptsGrammar
<1>3. ErrorsAreExact'
  BY <1>1 DEF GInv, ErrorsAreExact, BeginsSentence
<1> QED
  BY <1>2, <1>3 DEF GInv

(* The items that read nothing are done with nothing else to do for them.  *)
LEMMA QuietGoesOn ==
  ASSUME IInv, GInv, NEW what \in {"new", "text", "index", "root"}, Running(what),
         Go(<<>>), UNCHANGED <<read, tok, arg_ctxt, outcome>>
  PROVE  GInv'
<1>1. PICK p, q \in Readings :
        /\ Right(p) /\ Reads(Head(todo), p, q) /\ Covers(Tail(todo), q, AtEnd)
        /\ Head(todo) \in Item /\ Head(todo).do = what
  BY NextReads
<1>2. FormOf(Head(todo)) = <<>> /\ p.place = "plain" /\ q.place = "plain"
  BY <1>1 DEF FormOf, Reads, Moves
<1>3. p = q
  <2>1. p.form \in Forms /\ q.form \in Forms /\ p.form = <<>> \o q.form
    BY <1>1, <1>2, IsStill DEF Reads
  <2>2. p.form = q.form
    BY <2>1 DEF Forms
  <2> QED
    BY <1>2, <2>2, IsStill
<1>4. Covers(<<>>, p, q)
  BY <1>3, ChainOfNone DEF Covers
<1>5. Right(p)'
  BY <1>1 DEF Right
<1> QED
  BY <1>1, <1>4, <1>5, GoesOn DEF Running

LEMMA TakeTextAgrees == IInv /\ GInv /\ TakeText => GInv'
BY QuietGoesOn DEF TakeText, Running

LEMMA TakeIndexAgrees == IInv /\ GInv /\ TakeIndex => GInv'
<1> SUFFICES ASSUME IInv, GInv, TakeIndex  PROVE GInv'
  OBVIOUS
<1>1. CASE Throw("index")
  BY <1>1, Throws DEF TakeIndex, Errors
<1>2. CASE ~Throw("index")
  BY <1>2, QuietGoesOn DEF TakeIndex, Running
<1> QED
  BY <1>1, <1>2

LEMMA NewNodeAgrees == IInv /\ GInv /\ NewNode => GInv'
<1> SUFFICES ASSUME IInv, GInv, NewNode  PROVE GInv'
  OBVIOUS
<1>1. CASE Throw("alloc")
  BY <1>1, Throws DEF NewNode, Errors
<1>2. CASE ~Throw("alloc")
  <2>1. Go(<<>>) /\ UNCHANGED <<read, tok, arg_ctxt, outcome>> /\ Running("new")
    BY <1>2 DEF NewNode
  <2> QED
    BY <2>1, QuietGoesOn
<1> QED
  BY <1>1, <1>2

LEMMA SetRootAgrees == IInv /\ GInv /\ SetRoot => GInv'
BY QuietGoesOn DEF SetRoot, Running

LEMMA LeaveArgCtxtAgrees == IInv /\ GInv /\ LeaveArgCtxt => GInv'
<1> SUFFICES ASSUME IInv, GInv, LeaveArgCtxt  PROVE GInv'
  OBVIOUS
<1>1. Running("leave") /\ Go(<<>>) /\ arg_ctxt' = FALSE /\ UNCHANGED <<read, tok, outcome>>
  BY DEF LeaveArgCtxt
<1>2. PICK p, q \in Readings :
        /\ Right(p) /\ Reads(Head(todo), p, q) /\ Covers(Tail(todo), q, AtEnd)
        /\ Head(todo) \in Item /\ Head(todo).do = "leave"
  BY <1>1, NextReads
<1>3. /\ FormOf(Head(todo)) = <<>>
      /\ \/ p.place = "leave" /\ q.place = "name"
         \/ p.place = "plain" /\ q.place = "plain"
  BY <1>2 DEF FormOf, Reads, Moves
<1>4. p.form = q.form
  <2>1. p.form \in Forms /\ q.form \in Forms /\ p.form = <<>> \o q.form
    BY <1>2, <1>3, IsStill DEF Reads
  <2> QED
    BY <2>1 DEF Forms
<1>5. Covers(<<>>, q, q)
  BY ChainOfNone DEF Covers
<1>6. read # <<>>
  BY <1>1, HasRead
<1>7. Right(q)'
  BY <1>1, <1>2, <1>3, <1>4, <1>6 DEF Right
<1> QED
  BY <1>1, <1>2, <1>5, <1>7, GoesOn DEF Running

-----------------------------------------------------------------------------
(* The steps that take a token.                                            *)
LEMMA NextTokenAgrees ==
  ASSUME IInv, GInv, outcome = "running", NextToken(<<>>), NEW q \in Readings,
         Covers(Tail(todo), q, AtEnd), Rest(read) = Expand(q.form),
         q.place = IF arg_ctxt THEN "leave" ELSE "plain"
  PROVE  GInv'
<1>1. PICK lex \in Offered :
        /\ read' = Append(read, lex)
        /\ IF lex = Bad
             THEN Throw("syntax") /\ UNCHANGED tok
             ELSE /\ tok' = [type |-> TypeOf(lex), lex |-> lex]
                  /\ Go(<<>>)
                  /\ UNCHANGED <<arg_ctxt, outcome>>
  BY DEF NextToken
<1>2. lex \in Lexemes /\ read \in Seq(Lexemes) /\ arg_ctxt \in BOOLEAN
  BY DEF Offered, Lexemes, IInv, Typed
<1>3. read' # <<>> /\ Front(read') = read
  BY <1>1, <1>2, FrontOf, AppendProperties
<1>4. Rest(read) # {} /\ Rest(read) \subseteq Forms
  BY EachExpands, IsStill
<1>5. CASE lex = Bad
  <2>1. outcome' = "syntax"
    BY <1>1, <1>5 DEF Throw
  <2>2. Rest(read') = {}
    <3>1. Rest(Append(read, lex)) = Follow(Rest(read), lex)
      BY <1>2, RestOfNext
    <3>2. ASSUME NEW f \in Rest(read), f # <<>>  PROVE lex \notin Lex(Head(f))
      <4>1. f \in Seq(Signs)
        BY <1>4 DEF Forms
      <4>2. Head(f) \in Signs
        BY <3>2, <4>1
      <4> QED
        BY <1>5, <4>2, BadIsNowhere
    <3>3. Follow(Rest(read), lex) = {}
      BY <3>2, FollowNone
    <3> QED
      BY <1>1, <3>1, <3>3
  <2>3. AcceptsGrammar' /\ Agrees'
    BY <2>1 DEF AcceptsGrammar, Agrees
  <2>4. ErrorsAreExact'
    BY <1>3, <1>4, <2>2 DEF ErrorsAreExact, BeginsSentence
  <2> QED
    BY <2>3, <2>4 DEF GInv
<1>6. CASE lex # Bad
  <2>1. tok'.lex = lex /\ tok'.type = TypeOf(lex) /\ todo' = <<>> \o Tail(todo)
        /\ arg_ctxt' = arg_ctxt /\ outcome' = "running"
    BY <1>1, <1>6 DEF Go
  <2>2. tok'.type = TypeIn(lex, q.place \in {"leave", "name"})
    <3>1. arg_ctxt <=> q.place \in {"leave", "name"}
      BY <1>2
    <3>2. TypeOf(lex) = TypeIn(lex, arg_ctxt)
      BY TypeIsIn
    <3> QED
      BY <1>2, <2>1, <3>1, <3>2
  <2>3. Right(q)'
    <3>1. arg_ctxt' <=> q.place \in {"dot", "leave"}
      BY <1>2, <2>1
    <3>2. tok'.lex \in Lexemes \ {Bad}
      BY <1>2, <1>6, <2>1
    <3> QED
      BY <1>3, <2>1, <2>2, <3>1, <3>2 DEF Right
  <2>4. Covers(todo', q, AtEnd)
    <3>1. Covers(<<>>, q, q)
      BY ChainOfNone DEF Covers
    <3> QED
      BY <2>1, <3>1, CoversBoth
  <2>5. Agrees' /\ AcceptsGrammar'
    BY <2>1, <2>3, <2>4 DEF Agrees, AcceptsGrammar
  <2>6. ErrorsAreExact'
    BY <1>3, <1>4, <2>1 DEF ErrorsAreExact, BeginsSentence
  <2> QED
    BY <2>5, <2>6 DEF GInv
<1> QED
  BY <1>5, <1>6

LEMMA BeginAgrees == IInv /\ GInv /\ BeginParse => GInv'
<1> SUFFICES ASSUME IInv, GInv, BeginParse  PROVE GInv'
  OBVIOUS
<1>1. Running("begin") /\ NextToken(<<>>)
  BY DEF BeginParse
<1>2. PICK p, q \in Readings :
        /\ Right(p) /\ Reads(Head(todo), p, q) /\ Covers(Tail(todo), q, AtEnd)
        /\ Head(todo) \in Item /\ Head(todo).do = "begin"
  BY <1>1, NextReads
<1>3. read = <<>>
  <2>1. PICK a, b \in States :
          /\ a.n = Len(vals) /\ Shows(a.last) /\ Leads(Head(todo), a, b)
          /\ Takes(Tail(todo), b, At(0, "end"))
          /\ Head(todo) \in Item /\ Head(todo).do = "begin"
    BY <1>1, Here
  <2> QED
    BY <2>1 DEF Leads, Shows
<1>4. p.form = Input /\ ~arg_ctxt
  BY <1>2, <1>3 DEF Right
<1>5. FormOf(Head(todo)) = <<>> /\ q.place = "plain"
  BY <1>2 DEF FormOf, Reads, Moves
<1>6. p.form = q.form
  <2>1. p.form \in Forms /\ q.form \in Forms /\ p.form = <<>> \o q.form
    BY <1>2, <1>5, IsStill DEF Reads
  <2> QED
    BY <2>1 DEF Forms
<1>7. Rest(read) = Expand(q.form)
  BY <1>3, <1>4, <1>6, RestOfNone
<1> QED
  BY <1>1, <1>2, <1>4, <1>5, <1>7, NextTokenAgrees DEF Running

(* need_token, and the one lexeme or kind of lexeme that goes on there.    *)
LEMMA NeedMeets ==
  ASSUME IInv, GInv, Running("need"), NEW type, type = Head(todo).arg
  PROVE  \E p, q \in Readings :
           /\ Right(p) /\ Covers(Tail(todo), q, AtEnd)
           /\ p.form = <<Sign(type)>> \o q.form
           /\ q.place = IF arg_ctxt THEN "leave" ELSE "plain"
           /\ type \in NeededTypes
           /\ tok.lex \in Lex(Sign(type)) <=> tok.type = type
<1>1. PICK p, q \in Readings :
        /\ Right(p) /\ Reads(Head(todo), p, q) /\ Covers(Tail(todo), q, AtEnd)
        /\ Head(todo) \in Item /\ Head(todo).do = "need"
  BY NextReads
<1>2. type \in NeededTypes
  BY <1>1, ItemIs
<1>3. /\ p.form = <<Sign(type)>> \o q.form
      /\ \/ type = "." /\ p.place = "dot" /\ q.place = "leave"
         \/ type = "name" /\ p.place = "name" /\ q.place = "plain"
         \/ type \notin {".", "name"} /\ p.place = "plain" /\ q.place = "plain"
  BY <1>1 DEF Reads, FormOf, Moves
<1>4. read # <<>>
  BY HasRead
<1>5. /\ arg_ctxt <=> p.place = "dot"
      /\ q.place = IF arg_ctxt THEN "leave" ELSE "plain"
  BY <1>1, <1>3 DEF Right
<1>6. tok.lex \in Lex(Sign(type)) <=> tok.type = type
  <2> DEFINE named == p.place \in {"leave", "name"}
  <2>1. tok.lex \in Lexemes \ {Bad} /\ tok.type = TypeIn(tok.lex, named)
    BY <1>1, <1>4 DEF Right
  <2>2. named \in BOOLEAN /\ (type = "name" => named) /\ (type = "kw_list" => ~named)
    BY <1>3
  <2> HIDE DEF named
  <2> QED
    BY <1>2, <2>1, <2>2, TypesFit
<1> QED
  BY <1>1, <1>2, <1>3, <1>5, <1>6

LEMMA NeedAgrees == IInv /\ GInv /\ NeedToken => GInv'
<1> SUFFICES ASSUME IInv, GInv, NeedToken  PROVE GInv'
  OBVIOUS
<1> DEFINE type == Head(todo).arg
<1>1. Running("need")
  BY DEF NeedToken
<1>2. PICK p, q \in Readings :
        /\ Right(p) /\ Covers(Tail(todo), q, AtEnd)
        /\ p.form = <<Sign(type)>> \o q.form
        /\ q.place = IF arg_ctxt THEN "leave" ELSE "plain"
        /\ type \in NeededTypes
        /\ tok.lex \in Lex(Sign(type)) <=> tok.type = type
  BY <1>1, NeedMeets
<1>3. read # <<>>
  BY <1>1, HasRead
<1>4. Sign(type) \in Signs /\ Sign(type) \in Terminals /\ q.form \in Forms
  BY <1>2, SignIs, IsStill
<1>5. Rest(read) = Follow({<<Sign(type)>> \o q.form}, tok.lex)
  <2>1. Expand(<<Sign(type)>> \o q.form) = {<<Sign(type)>> \o q.form}
    BY <1>4, Expansions
  <2>2. Rest(read) = Follow(Expand(p.form), tok.lex)
    BY <1>1, <1>2, <1>3, RestNow DEF Running
  <2> QED
    BY <1>2, <2>1, <2>2
<1>6. CASE tok.type = type
  <2>1. Rest(read) = Expand(q.form)
    BY <1>2, <1>4, <1>5, <1>6, FollowOne
  <2>2. NextToken(<<>>)
    BY <1>6 DEF NeedToken, Peek
  <2> QED
    BY <1>1, <1>2, <2>1, <2>2, NextTokenAgrees DEF Running
<1>7. CASE tok.type # type
  <2>1. Throw("syntax") /\ UNCHANGED read
    BY <1>7 DEF NeedToken, Peek
  <2>2. Rest(read) = {}
    <3> DEFINE g == <<Sign(type)>> \o q.form
    <3>1. Head(g) = Sign(type)
      BY <1>4, HeadIs
    <3> HIDE DEF g, type
    <3>2. \A f \in {g} : f # <<>> => tok.lex \notin Lex(Head(f))
      BY <1>2, <1>7, <3>1
    <3>3. Follow({g}, tok.lex) = {}
      BY <3>2, FollowNone
    <3> QED
      BY <1>5, <3>3 DEF g
  <2> QED
    BY <2>1, <2>2, Throws DEF Errors
<1> QED
  BY <1>6, <1>7

LEMMA FinishAgrees == IInv /\ GInv /\ FinishParse => GInv'
<1> SUFFICES ASSUME IInv, GInv, FinishParse  PROVE GInv'
  OBVIOUS
<1>1. Running("finish")
  BY DEF FinishParse
<1>2. PICK p, q \in Readings :
        /\ Right(p) /\ Reads(Head(todo), p, q) /\ Covers(Tail(todo), q, AtEnd)
        /\ Head(todo) \in Item /\ Head(todo).do = "finish"
  BY <1>1, NextReads
<1>3. Tail(todo) = <<>>
  BY <1>1, NothingAfter
<1>4. q = AtEnd /\ q.form = <<>>
  <2>1. q = AtEnd
    BY <1>2, <1>3, ChainNone, Zenon DEF Covers
  <2>2. AtEnd.form = <<>>
    BY DEF AtEnd, Still
  <2> QED
    BY <2>1, <2>2
<1>5. p.form = <<EOS>> \o <<>>
  BY <1>2, <1>4 DEF Reads, FormOf
<1>6. read # <<>> /\ tok.lex = read[Len(read)]
  BY <1>1, HasRead
<1>7. <<>> \in Forms /\ EOS \in Signs /\ EOS \in Terminals
  BY InSigns DEF Forms, Terminals
<1>8. Rest(read) = Follow({<<EOS>> \o <<>>}, tok.lex)
  <2>1. Expand(<<EOS>> \o <<>>) = {<<EOS>> \o <<>>}
    BY <1>7, Expansions
  <2>2. Rest(read) = Follow(Expand(p.form), tok.lex)
    BY <1>1, <1>2, <1>6, RestNow DEF Running
  <2> QED
    BY <1>5, <2>1, <2>2
<1>9. tok.type = "eos" <=> tok.lex = EOS
  BY <1>1, <1>6 DEF IInv, Looked, Running
<1>10. Lex(EOS) = {EOS}
  BY DEF Lex, EOS
<1>11. CASE tok.type = "eos"
  <2>1. outcome' = "parsed" /\ UNCHANGED read
    BY <1>11 DEF FinishParse, Peek
  <2>2. Rest(read) = Expand(<<>>)
    BY <1>7, <1>8, <1>9, <1>10, <1>11, FollowOne
  <2>3. Expand(<<>>) = {<<>>}
    BY <1>7, Expansions DEF Stopped
  <2>4. AcceptsGrammar' /\ Agrees'
    BY <2>1, <2>2, <2>3 DEF AcceptsGrammar, IsSentence, Agrees
  <2>5. ErrorsAreExact'
    BY <2>1 DEF GInv, ErrorsAreExact, BeginsSentence
  <2> QED
    BY <2>4, <2>5 DEF GInv
<1>12. CASE tok.type # "eos"
  <2>1. Throw("syntax") /\ UNCHANGED read
    BY <1>12 DEF FinishParse, Peek
  <2>2. Rest(read) = {}
    <3> DEFINE g == <<EOS>> \o <<>>
    <3>1. Head(g) = EOS
      BY <1>7, HeadIs
    <3> HIDE DEF g
    <3>2. \A f \in {g} : f # <<>> => tok.lex \notin Lex(Head(f))
      BY <1>9, <1>10, <1>12, <3>1
    <3>3. Follow({g}, tok.lex) = {}
      BY <3>2, FollowNone
    <3> QED
      BY <1>8, <3>3 DEF g
  <2> QED
    BY <2>1, <2>2, Throws DEF Errors
<1> QED
  BY <1>11, <1>12

-----------------------------------------------------------------------------
(* The steps that look at the lookahead, and choose.                       *)
LEMMA HeadsAre ==
  ASSUME NEW F \in Forms
  PROVE  /\ NodeForm(F) # <<>> /\ Head(NodeForm(F)) = "IDENT"
         /\ ArgForm(F) # <<>> /\ Head(ArgForm(F)) = "."
         /\ ElemForm(F) # <<>> /\ Head(ElemForm(F)) = "["
         /\ ListForm(F) # <<>> /\ Head(ListForm(F)) = "list"
<1>1. /\ <<"(", "node_args", ")">> \o F \in Forms
      /\ <<"arg_name", "=", "arg_value">> \o F \in Forms
      /\ <<"NUM", "]", "=", "tree_node">> \o F \in Forms
      /\ <<"<", "node_name", ">", "[", "list_elem_star", "]">> \o F \in Forms
  BY InSigns, Joined3, Joined4, Joined6 DEF Forms
<1> QED
  BY <1>1, InSigns, HeadIs DEF NodeForm, ArgForm, ElemForm, ListForm

LEMMA TypeTells ==
  ASSUME read # <<>>, NEW p \in Readings, Right(p), p.place = "plain"
  PROVE  /\ tok.type = "ident" <=> tok.lex \in Lex("IDENT")
         /\ tok.type = "str" <=> tok.lex \in Lex("STR")
         /\ tok.type = "kw_list" <=> tok.lex \in Lex("list")
         /\ tok.type = "." <=> tok.lex \in Lex(".")
         /\ tok.type = ")" <=> tok.lex \in Lex(")")
         /\ tok.type = "[" <=> tok.lex \in Lex("[")
         /\ tok.type = "]" <=> tok.lex \in Lex("]")
<1>1. tok.lex \in Lexemes \ {Bad} /\ tok.type = TypeIn(tok.lex, FALSE)
  <2>1. p.place \in {"leave", "name"} <=> FALSE
    OBVIOUS
  <2>2. (p.place \in {"leave", "name"}) = FALSE
    BY <2>1
  <2> QED
    BY <2>2 DEF Right
<1>2. ASSUME NEW t \in NeededTypes \ {"name"}
      PROVE  tok.type = t <=> tok.lex \in Lex(Sign(t))
  BY <1>1, TypesFit
<1>3. \A t \in {"ident", "str", "kw_list", ".", ")", "[", "]"} : t \in NeededTypes \ {"name"}
  BY DEF NeededTypes, Marks
<1>4. /\ Sign("ident") = "IDENT" /\ Sign("str") = "STR" /\ Sign("kw_list") = "list"
      /\ Sign(".") = "." /\ Sign(")") = ")" /\ Sign("[") = "[" /\ Sign("]") = "]"
  BY DEF Sign
<1> QED
  BY <1>2, <1>3, <1>4

(* The lookahead leaves only some of the forms.                            *)
LEMMA Narrowed ==
  ASSUME read # <<>>, NEW p \in Readings, Right(p), NEW F \in Forms, NEW to \in Places,
         UNCHANGED <<read, tok>>, arg_ctxt' <=> to \in {"dot", "leave"},
         p.place \in {"leave", "name"} <=> to \in {"leave", "name"},
         Expand(F) \subseteq Expand(p.form),
         \A f \in Expand(p.form) : f # <<>> /\ tok.lex \in Lex(Head(f)) => f \in Expand(F)
  PROVE  Right(Still(F, to))'
<1> DEFINE q == Still(F, to)
<1>1. q.form = F /\ q.place = to
  BY StillFields
<1>2. (p.place \in {"leave", "name"}) = (to \in {"leave", "name"})
  OBVIOUS
<1> HIDE DEF q
<1>3. /\ tok.lex \in Lexemes \ {Bad}
      /\ tok.type = TypeIn(tok.lex, p.place \in {"leave", "name"})
      /\ Expand(p.form) \subseteq Rest(Front(read))
      /\ \A f \in Rest(Front(read)) :
           f # <<>> /\ tok.lex \in Lex(Head(f)) => f \in Expand(p.form)
  BY DEF Right
<1>4. tok.type = TypeIn(tok.lex, q.place \in {"leave", "name"})
  BY <1>1, <1>2, <1>3
<1>5. /\ Expand(q.form) \subseteq Rest(Front(read))
      /\ \A f \in Rest(Front(read)) :
           f # <<>> /\ tok.lex \in Lex(Head(f)) => f \in Expand(q.form)
  BY <1>1, <1>3
<1>6. Right(q)'
  BY <1>1, <1>3, <1>4, <1>5 DEF Right
<1> QED
  BY <1>6 DEF q

LEMMA BodyReads ==
  ASSUME NEW sym \in Symbols \ {"node_args", "arg_value"}, NEW F \in Forms
  PROVE  \E G \in Forms :
           /\ Expand(G) = Expand(<<sym>> \o F)
           /\ Covers(Body(sym),
                     Still(G, IF sym = "node_arg" THEN "dot"
                              ELSE IF sym = "arg_name" THEN "name" ELSE "plain"),
                     Still(F, "plain"))
<1>1. /\ Expand(<<"tree">> \o F) = {NodeForm(F)}
      /\ Expand(<<"tree_node">> \o F) = {NodeForm(F)}
      /\ Expand(<<"node_name">> \o F) = {<<"IDENT">> \o F}
      /\ Expand(<<"node_arg">> \o F) = {ArgForm(F)}
      /\ Expand(<<"arg_name">> \o F) = {<<"NAME">> \o F}
      /\ Expand(<<"list_elem">> \o F) = {ElemForm(F)}
      /\ Expand(<<"literal">> \o F) = {<<"STR">> \o F}
  BY Expansions
<1>2. /\ Expand(<<"IDENT">> \o F) = {<<"IDENT">> \o F}
      /\ Expand(<<"NAME">> \o F) = {<<"NAME">> \o F}
      /\ Expand(<<"STR">> \o F) = {<<"STR">> \o F}
  BY Expansions DEF Terminals
<1>3. /\ <<"tree_node">> \o F \in Forms /\ <<"IDENT">> \o F \in Forms
      /\ <<"NAME">> \o F \in Forms /\ <<"STR">> \o F \in Forms
      /\ ArgForm(F) \in Forms /\ ElemForm(F) \in Forms
  BY InSigns, Before, StoppedForms
<1>4. Expand(ArgForm(F)) = {ArgForm(F)} /\ Expand(ElemForm(F)) = {ElemForm(F)}
  BY <1>3, StoppedForms, Expansions
<1>5. CASE sym = "tree"
  BY <1>1, <1>3, <1>5, TreeReads DEF Body
<1>6. CASE sym = "tree_node"
  <2> DEFINE H == <<"(", "node_args", ")">> \o F
  <2>1. H \in Forms
    BY InSigns, Joined3 DEF Forms
  <2>2. NodeForm(F) = <<"IDENT">> \o H
    BY DEF NodeForm
  <2>3. Covers(Body(sym), Still(<<"node_name">> \o H, "plain"), Still(F, "plain"))
    BY <1>6, TreeNodeReads DEF Body
  <2> HIDE DEF H
  <2>4. Expand(<<"node_name">> \o H) = {<<"IDENT">> \o H} /\ <<"node_name">> \o H \in Forms
    BY <2>1, InSigns, Before, Expansions
  <2> QED
    BY <1>1, <1>6, <2>2, <2>3, <2>4
<1>7. CASE sym = "node_name"
  BY <1>1, <1>2, <1>3, <1>7, NodeNameReads DEF Body
<1>8. CASE sym = "node_arg"
  BY <1>1, <1>3, <1>4, <1>8, NodeArgReads DEF Body
<1>9. CASE sym = "arg_name"
  BY <1>1, <1>2, <1>3, <1>9, ArgNameReads DEF Body
<1>10. CASE sym = "list_elem"
  BY <1>1, <1>3, <1>4, <1>10, ListElemReads DEF Body
<1>11. CASE sym = "literal"
  BY <1>1, <1>2, <1>3, <1>11, LiteralReads DEF Body
<1> QED
  BY <1>5, <1>6, <1>7, <1>8, <1>9, <1>10, <1>11 DEF Symbols

LEMMA CallAgrees == IInv /\ GInv /\ Call => GInv'
<1> SUFFICES ASSUME IInv, GInv, Call  PROVE GInv'
  OBVIOUS
<1> DEFINE sym == Head(todo).arg
<1>1. /\ Running("parse") /\ Go(Body(sym)) /\ sym \notin {"node_args", "arg_value"}
      /\ arg_ctxt' = (arg_ctxt \/ sym = "node_arg") /\ UNCHANGED <<read, tok, outcome>>
  BY DEF Call, Calling
<1>2. PICK p, q \in Readings :
        /\ Right(p) /\ Reads(Head(todo), p, q) /\ Covers(Tail(todo), q, AtEnd)
        /\ Head(todo) \in Item /\ Head(todo).do = "parse"
  BY <1>1, NextReads
<1>3. sym \in Symbols \ {"node_args", "arg_value"}
  BY <1>1, <1>2, ItemIs
<1>4. /\ p.form = <<sym>> \o q.form /\ q.form \in Forms /\ q = Still(q.form, "plain")
      /\ p.place = IF sym = "arg_name" THEN "name" ELSE "plain"
  <2>1. /\ p.form = <<sym>> \o q.form /\ q.place = "plain"
        /\ p.place = IF sym = "arg_name" THEN "name" ELSE "plain"
    BY <1>2 DEF Reads, FormOf, Moves
  <2> QED
    BY <2>1, IsStill
<1>5. read # <<>>
  BY <1>1, HasRead
<1>6. PICK to \in Places :
        to = IF sym = "node_arg" THEN "dot" ELSE IF sym = "arg_name" THEN "name" ELSE "plain"
  BY DEF Places
<1>7. PICK G \in Forms :
        /\ Expand(G) = Expand(p.form)
        /\ Covers(Body(sym), Still(G, to), q)
  <2> HIDE DEF sym
  <2> QED
    BY <1>3, <1>4, <1>6, BodyReads
<1>8. /\ arg_ctxt' <=> to \in {"dot", "leave"}
      /\ p.place \in {"leave", "name"} <=> to \in {"leave", "name"}
  <2>1. ~arg_ctxt
    BY <1>2, <1>4 DEF Right
  <2> QED
    BY <1>1, <1>4, <1>6, <2>1
<1>9. Right(Still(G, to))'
  <2>1. UNCHANGED <<read, tok>> /\ Right(p)
    BY <1>1, <1>2
  <2>2. Expand(G) = Expand(p.form)
    BY <1>7
  <2> HIDE DEF sym
  <2> QED
    BY <1>5, <1>8, <2>1, <2>2, Narrowed
<1> QED
  <2>1. outcome' = "running"
    BY <1>1 DEF Running
  <2> QED
    BY <1>1, <1>2, <1>7, <1>9, <2>1, GoesOn

(* A step that chooses a form for what the lookahead begins.               *)
LEMMA Chooses ==
  ASSUME IInv, GInv, outcome = "running", read # <<>>, NEW p \in Readings, Right(p),
         p.place = "plain", NEW q, Covers(Tail(todo), q, AtEnd),
         NEW items, Go(items), UNCHANGED <<read, tok, arg_ctxt, outcome>>,
         NEW G \in Forms, Covers(items, Still(G, "plain"), q),
         Expand(G) \subseteq Expand(p.form),
         \A f \in Expand(p.form) : f # <<>> /\ tok.lex \in Lex(Head(f)) => f \in Expand(G)
  PROVE  GInv'
<1>1. "plain" \in Places /\ ~arg_ctxt
  BY DEF Places, Right
<1>2. Right(Still(G, "plain"))'
  BY <1>1, Narrowed
<1> QED
  BY <1>2, GoesOn

(* What comes after the arguments of a node, and what can begin with them. *)
LEMMA ClosedForm ==
  ASSUME NEW F \in Forms, Closed(F)
  PROVE  /\ Stopped(F) /\ F # <<>> /\ Head(F) = ")"
         /\ Args(F) \in Forms /\ Stopped(ArgForm(Args(F)))
         /\ Expand(F) = {F} /\ Expand(Args(F)) = {F, ArgForm(Args(F))}
         /\ Expand(<<"node_args">> \o F) = {F, ArgForm(Args(F)), <<"STR">> \o F}
         /\ Expand(<<"node_arg">> \o Args(F)) = {ArgForm(Args(F))}
         /\ Expand(<<"literal">> \o F) = {<<"STR">> \o F}
         /\ ArgForm(Args(F)) # <<>> /\ Head(ArgForm(Args(F))) = "."
         /\ <<"STR">> \o F # <<>> /\ Head(<<"STR">> \o F) = "STR"
<1>1. F # <<>> /\ Head(F) = ")" /\ Stopped(F)
  <2>1. ")" \notin DOMAIN Grammar
    BY SymbolsAre DEF Terminals, Marks
  <2> QED
    BY <2>1 DEF Closed, Stopped
<1>2. Args(F) \in Forms
  BY StoppedForms
<1>3. Stopped(ArgForm(Args(F)))
  BY <1>2, StoppedForms
<1>4. Expand(<<"node_arg">> \o Args(F)) = {ArgForm(Args(F))}
  BY <1>2, Expansions
<1>5. ArgForm(Args(F)) # <<>> /\ Head(ArgForm(Args(F))) = "."
  BY <1>2, HeadsAre
<1>6. <<"STR">> \o F # <<>> /\ Head(<<"STR">> \o F) = "STR"
  BY InSigns, HeadIs
<1>7. /\ Expand(F) = {F} /\ Expand(Args(F)) = {F, ArgForm(Args(F))}
      /\ Expand(<<"node_args">> \o F) = {F, ArgForm(Args(F)), <<"STR">> \o F}
      /\ Expand(<<"literal">> \o F) = {<<"STR">> \o F}
  BY <1>1, Expansions
<1> QED
  BY <1>1, <1>2, <1>3, <1>4, <1>5, <1>6, <1>7

LEMMA NodeArgsAgrees == IInv /\ GInv /\ NodeArgs => GInv'
<1> SUFFICES ASSUME IInv, GInv, NodeArgs  PROVE GInv'
  OBVIOUS
<1>1. Running("parse") /\ Head(todo).arg = "node_args" /\ outcome = "running"
  BY DEF NodeArgs, Calling, Running
<1>2. PICK p, q \in Readings :
        /\ Right(p) /\ Reads(Head(todo), p, q) /\ Covers(Tail(todo), q, AtEnd)
        /\ Head(todo) \in Item /\ Head(todo).do = "parse"
  BY <1>1, NextReads
<1>3. read # <<>>
  BY <1>1, HasRead
<1>4. /\ p.form = <<"node_args">> \o q.form /\ Closed(q.form)
      /\ p.place = "plain" /\ q.place = "plain"
  BY <1>1, <1>2 DEF Reads, FormOf, Moves, EndsArgs
<1>5. PICK F \in Forms : F = q.form /\ Closed(F) /\ q = Still(F, "plain")
  BY <1>4, IsStill
<1>6. Expand(p.form) = {F, ArgForm(Args(F)), <<"STR">> \o F}
  BY <1>4, <1>5, ClosedForm
<1>7. /\ tok.type = "str" <=> tok.lex \in Lex(Head(<<"STR">> \o F))
      /\ tok.type = "." <=> tok.lex \in Lex(Head(ArgForm(Args(F))))
      /\ tok.type = ")" <=> tok.lex \in Lex(Head(F))
  BY <1>2, <1>3, <1>4, <1>5, TypeTells, ClosedForm
<1>8. UNCHANGED read
  BY DEF NodeArgs
<1>9. CASE Peek({")", "."})
  <2>1. Go(<<Loop("node_arg", 0)>>) /\ UNCHANGED <<read, tok, arg_ctxt, outcome>>
    BY <1>9 DEF NodeArgs, Peek
  <2>2. Covers(<<Loop("node_arg", 0)>>, Still(Args(F), "plain"), q)
    BY <1>5, ArgsLoopReads
  <2>3. Args(F) \in Forms /\ Expand(Args(F)) = {F, ArgForm(Args(F))}
    BY <1>5, ClosedForm
  <2>4. tok.lex \notin Lex(Head(<<"STR">> \o F))
    BY <1>7, <1>9 DEF Peek
  <2>5. Expand(Args(F)) \subseteq Expand(p.form)
    BY <1>6, <2>3
  <2>6. \A f \in Expand(p.form) : f # <<>> /\ tok.lex \in Lex(Head(f)) => f \in Expand(Args(F))
    BY <1>6, <2>3, <2>4
  <2> QED
    BY <1>1, <1>2, <1>3, <1>4, <2>1, <2>2, <2>3, <2>5, <2>6, Chooses
<1>10. CASE Peek({"str"})
  <2>1. Go(<<Parse("literal"), New("LiteralArgs", 1)>>) /\ UNCHANGED <<read, tok, arg_ctxt, outcome>>
    BY <1>10 DEF NodeArgs, Peek
  <2>2. Covers(<<Parse("literal"), New("LiteralArgs", 1)>>, Still(<<"literal">> \o F, "plain"), q)
    BY <1>5, LiteralArgsReads
  <2>3. <<"literal">> \o F \in Forms /\ Expand(<<"literal">> \o F) = {<<"STR">> \o F}
    BY <1>5, ClosedForm, Before, InSigns
  <2>4. tok.lex \notin Lex(Head(F)) /\ tok.lex \notin Lex(Head(ArgForm(Args(F))))
    BY <1>7, <1>10 DEF Peek
  <2>5. Expand(<<"literal">> \o F) \subseteq Expand(p.form)
    BY <1>6, <2>3
  <2>6. \A f \in Expand(p.form) :
          f # <<>> /\ tok.lex \in Lex(Head(f)) => f \in Expand(<<"literal">> \o F)
    BY <1>6, <2>3, <2>4
  <2> QED
    BY <1>1, <1>2, <1>3, <1>4, <2>1, <2>2, <2>3, <2>5, <2>6, Chooses
<1>11. CASE ~Peek({")", ".", "str"})
  <2>1. Throw("syntax")
    BY <1>11 DEF NodeArgs, Peek
  <2>2. Rest(read) = Follow(Expand(p.form), tok.lex)
    BY <1>1, <1>2, <1>3, RestNow
  <2>3. \A f \in Expand(p.form) : f # <<>> => tok.lex \notin Lex(Head(f))
    BY <1>6, <1>7, <1>11 DEF Peek
  <2>4. Rest(read) = {}
    BY <2>2, <2>3, FollowNone
  <2> QED
    BY <1>8, <2>1, <2>4, Throws DEF Errors
<1> QED
  BY <1>9, <1>10, <1>11 DEF Peek

LEMMA ArgValueAgrees == IInv /\ GInv /\ ArgValue => GInv'
<1> SUFFICES ASSUME IInv, GInv, ArgValue  PROVE GInv'
  OBVIOUS
<1>1. Running("parse") /\ Head(todo).arg = "arg_value" /\ outcome = "running"
  BY DEF ArgValue, Calling, Running
<1>2. PICK p, q \in Readings :
        /\ Right(p) /\ Reads(Head(todo), p, q) /\ Covers(Tail(todo), q, AtEnd)
        /\ Head(todo) \in Item /\ Head(todo).do = "parse"
  BY <1>1, NextReads
<1>3. read # <<>>
  BY <1>1, HasRead
<1>4. p.form = <<"arg_value">> \o q.form /\ p.place = "plain" /\ q.place = "plain"
  BY <1>1, <1>2 DEF Reads, FormOf, Moves
<1>5. PICK F \in Forms : F = q.form /\ q = Still(F, "plain")
  BY <1>4, IsStill
<1>6. Expand(p.form) = {NodeForm(F), <<"STR">> \o F, ListForm(F)}
  BY <1>4, <1>5, Expansions
<1>7. /\ tok.type = "ident" <=> tok.lex \in Lex(Head(NodeForm(F)))
      /\ tok.type = "str" <=> tok.lex \in Lex(Head(<<"STR">> \o F))
      /\ tok.type = "kw_list" <=> tok.lex \in Lex(Head(ListForm(F)))
  <2>1. /\ Head(NodeForm(F)) = "IDENT" /\ Head(<<"STR">> \o F) = "STR"
        /\ Head(ListForm(F)) = "list"
    BY HeadsAre, HeadIs, InSigns
  <2> QED
    BY <1>2, <1>3, <1>4, <2>1, TypeTells
<1>8. UNCHANGED read
  BY DEF ArgValue
<1>9. CASE Peek({"ident"})
  <2>1. Go(<<Parse("tree_node"), New("NodeValue", 1)>>) /\ UNCHANGED <<read, tok, arg_ctxt, outcome>>
    BY <1>9 DEF ArgValue, Peek
  <2>2. Covers(<<Parse("tree_node"), New("NodeValue", 1)>>, Still(<<"tree_node">> \o F, "plain"), q)
    BY <1>5, NodeValueReads
  <2>3. <<"tree_node">> \o F \in Forms /\ Expand(<<"tree_node">> \o F) = {NodeForm(F)}
    BY Expansions, Before, InSigns
  <2>4. tok.lex \notin Lex(Head(<<"STR">> \o F)) /\ tok.lex \notin Lex(Head(ListForm(F)))
    BY <1>7, <1>9 DEF Peek
  <2>5. Expand(<<"tree_node">> \o F) \subseteq Expand(p.form)
    BY <1>6, <2>3
  <2>6. \A f \in Expand(p.form) :
          f # <<>> /\ tok.lex \in Lex(Head(f)) => f \in Expand(<<"tree_node">> \o F)
    BY <1>6, <2>3, <2>4
  <2> QED
    BY <1>1, <1>2, <1>3, <1>4, <2>1, <2>2, <2>3, <2>5, <2>6, Chooses
<1>10. CASE Peek({"kw_list"})
  <2> DEFINE s == <<Need("kw_list"), Need("<"), Parse("node_name"), Need(">"),
                    Need("["), Loop("list_elem", 0)>>
  <2>1. Go(s) /\ UNCHANGED <<read, tok, arg_ctxt, outcome>>
    BY <1>10 DEF ArgValue, Peek
  <2>2. Covers(s, Still(ListForm(F), "plain"), q)
    BY <1>5, ListReads
  <2>3. ListForm(F) \in Forms /\ Expand(ListForm(F)) = {ListForm(F)}
    BY StoppedForms, Expansions
  <2>4. tok.lex \notin Lex(Head(<<"STR">> \o F)) /\ tok.lex \notin Lex(Head(NodeForm(F)))
    BY <1>7, <1>10 DEF Peek
  <2>5. Expand(ListForm(F)) \subseteq Expand(p.form)
    BY <1>6, <2>3
  <2>6. \A f \in Expand(p.form) : f # <<>> /\ tok.lex \in Lex(Head(f)) => f \in Expand(ListForm(F))
    BY <1>6, <2>3, <2>4
  <2> HIDE DEF s
  <2> QED
    BY <1>1, <1>2, <1>3, <1>4, <2>1, <2>2, <2>3, <2>5, <2>6, Chooses
<1>11. CASE Peek({"str"})
  <2>1. Go(<<Parse("literal"), New("LiteralValue", 1)>>) /\ UNCHANGED <<read, tok, arg_ctxt, outcome>>
    BY <1>11 DEF ArgValue, Peek
  <2>2. Covers(<<Parse("literal"), New("LiteralValue", 1)>>, Still(<<"literal">> \o F, "plain"), q)
    BY <1>5, LiteralValueReads
  <2>3. <<"literal">> \o F \in Forms /\ Expand(<<"literal">> \o F) = {<<"STR">> \o F}
    BY Expansions, Before, InSigns
  <2>4. tok.lex \notin Lex(Head(NodeForm(F))) /\ tok.lex \notin Lex(Head(ListForm(F)))
    BY <1>7, <1>11 DEF Peek
  <2>5. Expand(<<"literal">> \o F) \subseteq Expand(p.form)
    BY <1>6, <2>3
  <2>6. \A f \in Expand(p.form) :
          f # <<>> /\ tok.lex \in Lex(Head(f)) => f \in Expand(<<"literal">> \o F)
    BY <1>6, <2>3, <2>4
  <2> QED
    BY <1>1, <1>2, <1>3, <1>4, <2>1, <2>2, <2>3, <2>5, <2>6, Chooses
<1>12. CASE ~Peek({"ident", "kw_list", "str"})
  <2>1. Throw("syntax")
    BY <1>12 DEF ArgValue, Peek
  <2>2. Rest(read) = Follow(Expand(p.form), tok.lex)
    BY <1>1, <1>2, <1>3, RestNow
  <2>3. \A f \in Expand(p.form) : f # <<>> => tok.lex \notin Lex(Head(f))
    BY <1>6, <1>7, <1>12 DEF Peek
  <2>4. Rest(read) = {}
    BY <2>2, <2>3, FollowNone
  <2> QED
    BY <1>8, <2>1, <2>4, Throws DEF Errors
<1> QED
  BY <1>9, <1>10, <1>11, <1>12 DEF Peek

LEMMA TurnLoopAgrees == IInv /\ GInv /\ TurnLoop => GInv'
<1> SUFFICES ASSUME IInv, GInv, TurnLoop  PROVE GInv'
  OBVIOUS
<1>1. Running("loop") /\ outcome = "running" /\ UNCHANGED <<read, tok, arg_ctxt, outcome>>
  BY DEF TurnLoop, Running
<1>2. PICK p, q \in Readings :
        /\ Right(p) /\ Reads(Head(todo), p, q) /\ Covers(Tail(todo), q, AtEnd)
        /\ Head(todo) \in Item /\ Head(todo).do = "loop"
  BY <1>1, NextReads
<1>3. read # <<>>
  BY <1>1, HasRead
<1>4. p.place = "plain" /\ q.place = "plain"
  BY <1>2 DEF Reads, Moves
<1>5. PICK F \in Forms : F = q.form /\ q = Still(F, "plain")
  BY <1>4, IsStill
<1>6. PICK n \in Nat : Head(todo).n = n
  BY <1>2, ItemIs
<1>7. CASE Head(todo).arg = "node_arg"
  <2>1. p.form = Args(F) /\ Closed(F)
    BY <1>2, <1>5, <1>7 DEF Reads, FormOf, EndsArgs, Args
  <2>2. Expand(p.form) = {F, ArgForm(Args(F))}
    BY <2>1, ClosedForm
  <2>3. /\ tok.type = "." <=> tok.lex \in Lex(Head(ArgForm(Args(F))))
        /\ tok.type = ")" <=> tok.lex \in Lex(Head(F))
    BY <1>2, <1>3, <1>4, <2>1, TypeTells, ClosedForm
  <2>4. CASE tok.type = "."
    <3>1. Go(<<Parse("node_arg"), Loop("node_arg", n + 1)>>)
      BY <1>6, <1>7, <2>4 DEF TurnLoop, Peek, Opens
    <3>2. Covers(<<Parse("node_arg"), Loop("node_arg", n + 1)>>,
                 Still(<<"node_arg">> \o Args(F), "plain"), q)
      BY <1>5, <2>1, ArgsTurnReads
    <3>3. /\ <<"node_arg">> \o Args(F) \in Forms
          /\ Expand(<<"node_arg">> \o Args(F)) = {ArgForm(Args(F))}
      BY <2>1, ClosedForm, Before, InSigns
    <3>4. Expand(<<"node_arg">> \o Args(F)) \subseteq Expand(p.form)
      BY <2>2, <3>3
    <3>5. \A f \in Expand(p.form) :
            f # <<>> /\ tok.lex \in Lex(Head(f)) => f \in Expand(<<"node_arg">> \o Args(F))
      BY <2>2, <2>3, <2>4, <3>3
    <3> QED
      BY <1>1, <1>2, <1>3, <1>4, <3>1, <3>2, <3>3, <3>4, <3>5, Chooses
  <2>5. CASE tok.type # "."
    <3>1. Go(<<New("ListArgs", n)>>)
      BY <1>6, <1>7, <2>5 DEF TurnLoop, Peek, Opens, AfterLoop
    <3>2. Covers(<<New("ListArgs", n)>>, Still(F, "plain"), q)
      BY <1>5, ArgsAfterReads
    <3>3. Expand(F) = {F}
      BY <2>1, ClosedForm
    <3>4. Expand(F) \subseteq Expand(p.form)
      BY <2>2, <3>3
    <3>5. \A f \in Expand(p.form) : f # <<>> /\ tok.lex \in Lex(Head(f)) => f \in Expand(F)
      BY <2>2, <2>3, <2>5, <3>3
    <3> QED
      BY <1>1, <1>2, <1>3, <1>4, <3>1, <3>2, <3>4, <3>5, Chooses
  <2> QED
    BY <2>4, <2>5
<1>8. CASE Head(todo).arg = "list_elem"
  <2> DEFINE H == <<"]">> \o F
  <2>1. p.form = Elems(H)
    <3>1. p.form = <<"list_elem_star", "]">> \o F
      BY <1>2, <1>5, <1>8 DEF Reads, FormOf
    <3> QED
      BY <3>1, InSigns, Joined2 DEF Elems, Forms
  <2>2. H \in Forms /\ H # <<>> /\ Head(H) = "]"
    BY InSigns, HeadIs
  <2>3. Stopped(H)
    BY StoppedAt DEF Terminals, Marks
  <2>4. Covers(<<Need("]"), New("NodeList", n + 1), New("ListValue", 1)>>, Still(H, "plain"), q)
    BY <1>5, ListAfterReads
  <2>5. Covers(<<Parse("list_elem"), Loop("list_elem", n + 1)>>,
               Still(<<"list_elem">> \o Elems(H), "plain"), q)
    BY <1>5, ListTurnReads
  <2> HIDE DEF H
  <2>6. /\ Elems(H) \in Forms /\ <<"list_elem">> \o Elems(H) \in Forms
        /\ Head(ElemForm(Elems(H))) = "["
    BY <2>2, StoppedForms, Before, InSigns, HeadsAre
  <2>7. /\ Expand(p.form) = {H, ElemForm(Elems(H))} /\ Expand(H) = {H}
        /\ Expand(<<"list_elem">> \o Elems(H)) = {ElemForm(Elems(H))}
    BY <2>1, <2>2, <2>3, <2>6, Expansions
  <2>8. /\ tok.type = "[" <=> tok.lex \in Lex(Head(ElemForm(Elems(H))))
        /\ tok.type = "]" <=> tok.lex \in Lex(Head(H))
    BY <1>2, <1>3, <1>4, <2>2, <2>6, TypeTells
  <2>9. CASE tok.type = "["
    <3>1. Go(<<Parse("list_elem"), Loop("list_elem", n + 1)>>)
      BY <1>6, <1>8, <2>9 DEF TurnLoop, Peek, Opens
    <3>2. Expand(<<"list_elem">> \o Elems(H)) \subseteq Expand(p.form)
      BY <2>7
    <3>3. \A f \in Expand(p.form) :
            f # <<>> /\ tok.lex \in Lex(Head(f)) => f \in Expand(<<"list_elem">> \o Elems(H))
      BY <2>7, <2>8, <2>9
    <3> QED
      BY <1>1, <1>2, <1>3, <1>4, <2>5, <2>6, <3>1, <3>2, <3>3, Chooses
  <2>10. CASE tok.type # "["
    <3>1. Go(<<Need("]"), New("NodeList", n + 1), New("ListValue", 1)>>)
      BY <1>6, <1>8, <2>10 DEF TurnLoop, Peek, Opens, AfterLoop
    <3>2. Expand(H) \subseteq Expand(p.form)
      BY <2>7
    <3>3. \A f \in Expand(p.form) : f # <<>> /\ tok.lex \in Lex(Head(f)) => f \in Expand(H)
      BY <2>7, <2>8, <2>10
    <3> QED
      BY <1>1, <1>2, <1>3, <1>4, <2>2, <2>4, <3>1, <3>2, <3>3, Chooses
  <2> QED
    BY <2>9, <2>10
<1> QED
  BY <1>2, <1>7, <1>8, ItemIs

-----------------------------------------------------------------------------
LEMMA BeginsToRead ==
  Covers(<<Begin, Parse("tree"), Root, Finish>>, Still(Input, "plain"), AtEnd)
<1> DEFINE e == <<>>
           f == <<EOS>> \o e
           g == <<"tree">> \o f
<1>1. e \in Forms /\ f \in Forms /\ g \in Forms
  BY InSigns, Before DEF Forms
<1>2. g = Input
  <2>1. <<EOS>> \o <<>> = <<EOS>> /\ <<"tree", EOS>> = <<"tree">> \o <<EOS>>
    OBVIOUS
  <2> QED
    BY <2>1 DEF Input
<1>3. AtEnd = Still(e, "plain")
  BY DEF AtEnd
<1>4. /\ Begin \in Item /\ Root \in Item /\ Finish \in Item
      /\ Begin.do = "begin" /\ Root.do = "root" /\ Finish.do = "finish"
  BY DEF Begin, Root, Finish, Do, Item, Others
<1>5. Reads(Finish, Still(f, "plain"), Still(e, "plain"))
  <2>1. FormOf(Finish) = <<EOS>> /\ Moves(Finish, "plain", "plain") /\ ~EndsArgs(Finish)
    BY <1>4 DEF FormOf, Moves, EndsArgs
  <2> QED
    BY <1>1, <1>4, <2>1, ReadsIs DEF Places
<1> HIDE DEF e, f, g
<1>6. Reads(Begin, Still(g, "plain"), Still(g, "plain"))
  BY <1>1, <1>4, QuietReads
<1>7. Reads(Parse("tree"), Still(g, "plain"), Still(f, "plain"))
  BY <1>1, ParseReads DEF g, Symbols
<1>8. Reads(Root, Still(f, "plain"), Still(f, "plain"))
  BY <1>1, <1>4, QuietReads
<1>9. Covers(<<Begin, Parse("tree"), Root, Finish>>, Still(g, "plain"), Still(e, "plain"))
  BY <1>5, <1>6, <1>7, <1>8, Covers4
<1> QED
  BY <1>2, <1>3, <1>9

LEMMA InitAgrees == Init => GInv
<1> SUFFICES ASSUME Init  PROVE GInv
  OBVIOUS
<1>1. read = <<>> /\ arg_ctxt = FALSE /\ outcome = "running"
  BY DEF Init
<1>2. AcceptsGrammar /\ ErrorsAreExact
  BY <1>1 DEF AcceptsGrammar, ErrorsAreExact
<1> DEFINE p == Still(Input, "plain")
<1>3. p \in Readings /\ p.form = Input /\ p.place = "plain"
  <2>1. Input \in Forms /\ "plain" \in Places
    BY InSigns DEF Input, Forms, Places
  <2> QED
    BY <2>1, StillFields
<1>4. Covers(todo, p, AtEnd)
  BY BeginsToRead DEF Init
<1> HIDE DEF p
<1>5. Right(p)
  BY <1>1, <1>3 DEF Right
<1> QED
  BY <1>2, <1>3, <1>4, <1>5 DEF GInv, Agrees

LEMMA StepAgrees == IInv /\ GInv /\ [Next]_vars => GInv'
<1> SUFFICES ASSUME IInv, GInv, [Next]_vars  PROVE GInv'
  OBVIOUS
<1>1. CASE BeginParse
  BY <1>1, BeginAgrees
<1>2. CASE NeedToken
  BY <1>2, NeedAgrees
<1>3. CASE Call
  BY <1>3, CallAgrees
<1>4. CASE NodeArgs
  BY <1>4, NodeArgsAgrees
<1>5. CASE ArgValue
  BY <1>5, ArgValueAgrees
<1>6. CASE TurnLoop
  BY <1>6, TurnLoopAgrees
<1>7. CASE LeaveArgCtxt
  BY <1>7, LeaveArgCtxtAgrees
<1>8. CASE TakeText
  BY <1>8, TakeTextAgrees
<1>9. CASE TakeIndex
  BY <1>9, TakeIndexAgrees
<1>10. CASE NewNode
  BY <1>10, NewNodeAgrees
<1>11. CASE SetRoot
  BY <1>11, SetRootAgrees
<1>12. CASE FinishParse
  BY <1>12, FinishAgrees
<1>13. CASE UNCHANGED vars
  BY <1>13 DEF vars, GInv, AcceptsGrammar, IsSentence, ErrorsAreExact, BeginsSentence,
               Agrees, Right
<1> QED
  BY <1>1, <1>2, <1>3, <1>4, <1>5, <1>6, <1>7, <1>8, <1>9, <1>10, <1>11, <1>12, <1>13 DEF Next

(* On every input the items the parser has still to do read exactly what   *)
(* the grammar lets follow what it has read.                               *)
THEOREM Agreement == Spec => []GInv
<1>1. Init => IInv /\ GInv
  BY InitIsSound, InitAgrees
<1>2. IInv /\ GInv /\ [Next]_vars => (IInv /\ GInv)'
  BY StepKeeps, StepAgrees
<1> QED
  BY <1>1, <1>2, PTL DEF Spec

(* The parser accepts nothing but sentences of the documented grammar, of  *)
(* any length and nesting (Parser::parse).                                 *)
THEOREM AcceptsOnlyGrammar == Spec => []AcceptsGrammar
<1>1. GInv => AcceptsGrammar
  BY DEF GInv
<1> QED
  BY <1>1, Agreement, PTL

(* A syntax error is reported at the first lexeme that no sentence goes on *)
(* with, and for no other reason: the parser refuses no sentence by its    *)
(* syntax, and one token of lookahead and arg_ctxt are enough.             *)
THEOREM RefusesExactly == Spec => []ErrorsAreExact
<1>1. GInv => ErrorsAreExact
  BY DEF GInv
<1> QED
  BY <1>1, Agreement, PTL

-----------------------------------------------------------------------------
(* Items one after the other, each with the state it leaves.               *)
LEMMA StepIn ==
  ASSUME NEW S, NEW R \in SUBSET (Item \X S \X S), NEW w, NEW p, NEW q, Step(R, w, p, q)
  PROVE  w \in Item /\ p \in S /\ q \in S
BY DEF Step

LEMMA Chain1 ==
  ASSUME NEW S, NEW R \in SUBSET (Item \X S \X S), NEW a, NEW p1, NEW p2, Step(R, a, p1, p2)
  PROVE  Chained(R, S, <<a>>, p1, p2)
BY StepIn, ChainOne

LEMMA Chain2 ==
  ASSUME NEW S, NEW R \in SUBSET (Item \X S \X S),
         NEW a, NEW b,
         NEW p1, NEW p2, NEW p3,
         Step(R, a, p1, p2), Step(R, b, p2, p3)
  PROVE  Chained(R, S, <<a, b>>, p1, p3)
<1>1. Chained(R, S, <<a>>, p1, p2)
  BY Chain1
<1>2. a \in Item /\ b \in Item /\ p3 \in S
  BY StepIn
<1>3. Append(<<a>>, b) = <<a, b>>
  BY <1>2, Longer2
<1> QED
  BY <1>1, <1>2, <1>3, ChainNext

LEMMA Chain3 ==
  ASSUME NEW S, NEW R \in SUBSET (Item \X S \X S),
         NEW a, NEW b, NEW c,
         NEW p1, NEW p2, NEW p3, NEW p4,
         Step(R, a, p1, p2), Step(R, b, p2, p3), Step(R, c, p3, p4)
  PROVE  Chained(R, S, <<a, b, c>>, p1, p4)
<1>1. Chained(R, S, <<a, b>>, p1, p3)
  BY Chain2
<1>2. a \in Item /\ b \in Item /\ c \in Item /\ p4 \in S
  BY StepIn
<1>3. Append(<<a, b>>, c) = <<a, b, c>>
  BY <1>2, Longer3
<1> QED
  BY <1>1, <1>2, <1>3, ChainNext

LEMMA Chain4 ==
  ASSUME NEW S, NEW R \in SUBSET (Item \X S \X S),
         NEW a, NEW b, NEW c, NEW d,
         NEW p1, NEW p2, NEW p3, NEW p4, NEW p5,
         Step(R, a, p1, p2), Step(R, b, p2, p3), Step(R, c, p3, p4),
         Step(R, d, p4, p5)
  PROVE  Chained(R, S, <<a, b, c, d>>, p1, p5)
<1>1. Chained(R, S, <<a, b, c>>, p1, p4)
  BY Chain3
<1>2. a \in Item /\ b \in Item /\ c \in Item /\ d \in Item /\ p5 \in S
  BY StepIn
<1>3. Append(<<a, b, c>>, d) = <<a, b, c, d>>
  BY <1>2, Longer4
<1> QED
  BY <1>1, <1>2, <1>3, ChainNext

LEMMA Chain5 ==
  ASSUME NEW S, NEW R \in SUBSET (Item \X S \X S),
         NEW a, NEW b, NEW c, NEW d, NEW e,
         NEW p1, NEW p2, NEW p3, NEW p4, NEW p5, NEW p6,
         Step(R, a, p1, p2), Step(R, b, p2, p3), Step(R, c, p3, p4),
         Step(R, d, p4, p5), Step(R, e, p5, p6)
  PROVE  Chained(R, S, <<a, b, c, d, e>>, p1, p6)
<1>1. Chained(R, S, <<a, b, c, d>>, p1, p5)
  BY Chain4
<1>2. a \in Item /\ b \in Item /\ c \in Item /\ d \in Item /\ e \in Item /\ p6 \in S
  BY StepIn
<1>3. Append(<<a, b, c, d>>, e) = <<a, b, c, d, e>>
  BY <1>2, Longer5
<1> QED
  BY <1>1, <1>2, <1>3, ChainNext

LEMMA Chain6 ==
  ASSUME NEW S, NEW R \in SUBSET (Item \X S \X S),
         NEW a, NEW b, NEW c, NEW d, NEW e, NEW f,
         NEW p1, NEW p2, NEW p3, NEW p4, NEW p5, NEW p6, NEW p7,
         Step(R, a, p1, p2), Step(R, b, p2, p3), Step(R, c, p3, p4),
         Step(R, d, p4, p5), Step(R, e, p5, p6), Step(R, f, p6, p7)
  PROVE  Chained(R, S, <<a, b, c, d, e, f>>, p1, p7)
<1>1. Chained(R, S, <<a, b, c, d, e>>, p1, p6)
  BY Chain5
<1>2. a \in Item /\ b \in Item /\ c \in Item /\ d \in Item /\ e \in Item /\ f \in Item /\ p7 \in S
  BY StepIn
<1>3. Append(<<a, b, c, d, e>>, f) = <<a, b, c, d, e, f>>
  BY <1>2, Longer6
<1> QED
  BY <1>1, <1>2, <1>3, ChainNext

LEMMA Chain7 ==
  ASSUME NEW S, NEW R \in SUBSET (Item \X S \X S),
         NEW a, NEW b, NEW c, NEW d, NEW e, NEW f, NEW g,
         NEW p1, NEW p2, NEW p3, NEW p4, NEW p5, NEW p6, NEW p7, NEW p8,
         Step(R, a, p1, p2), Step(R, b, p2, p3), Step(R, c, p3, p4),
         Step(R, d, p4, p5), Step(R, e, p5, p6), Step(R, f, p6, p7),
         Step(R, g, p7, p8)
  PROVE  Chained(R, S, <<a, b, c, d, e, f, g>>, p1, p8)
<1>1. Chained(R, S, <<a, b, c, d, e, f>>, p1, p7)
  BY Chain6
<1>2. a \in Item /\ b \in Item /\ c \in Item /\ d \in Item /\ e \in Item
      /\ f \in Item /\ g \in Item /\ p8 \in S
  BY StepIn
<1>3. Append(<<a, b, c, d, e, f>>, g) = <<a, b, c, d, e, f, g>>
  BY <1>2, Longer7, SMTT(30)
<1> QED
  BY <1>1, <1>2, <1>3, ChainNext

-----------------------------------------------------------------------------
(* What was read and is said: by the values, which are kept in order, and  *)
(* between them the lexemes that no value stands for.  An item turns the   *)
(* form of it into another, in which more is said, or the same by fewer    *)
(* values.  The lexeme of prev_tok and the root are kept apart.            *)
Slots == Marks \cup {"list", "value"}
Kept == {"nothing", "text", "root"}
Stacks == [form : Seq(Slots), kept : Kept]
Stack(form, kept) == [form |-> form, kept |-> kept]

Holes(n) == [i \in 1 .. n |-> "value"]

ListStart(F) == Append(Append(Append(Append(Append(F, "list"), "<"), "value"), ">"), "[")

(* The form that a node of n parts is made from.                           *)
MadeFrom(class, n, F) ==
  CASE class = "TreeNode" -> Append(Append(Append(Append(F, "value"), "("), "value"), ")")
    [] class = "NodeArg"  -> Append(Append(Append(Append(F, "."), "value"), "="), "value")
    [] class = "ListElem" ->
         Append(Append(Append(Append(Append(F, "["), "value"), "]"), "="), "value")
    [] class = "NodeList" -> Append(ListStart(F) \o Holes(n - 1), "]")
    [] OTHER              -> F \o Holes(n)

(* The form that an item makes one more value from.                        *)
TurnedFrom(w, F) ==
  CASE w.do = "new"  -> MadeFrom(w.arg, w.n, F)
    [] w.do = "loop" -> IF w.arg = "node_arg" THEN F \o Holes(w.n) ELSE ListStart(F) \o Holes(w.n)
    [] OTHER         -> F

PartsOf(class, n) ==
  CASE class \in {"TreeNode", "NodeArg", "ListElem"} -> n = 2
    [] class = "NodeList"                           -> n >= 1
    [] OTHER                                        -> TRUE

Turns(w, p, q) ==
  CASE w.do \in {"parse", "loop", "new"} ->
         /\ p.kept = "nothing" /\ q.kept = "nothing"
         /\ \E F \in Seq(Slots) : p.form = TurnedFrom(w, F) /\ q.form = Append(F, "value")
         /\ w.do = "new" => PartsOf(w.arg, w.n)
    [] w.do = "need" ->
         /\ p.kept = "nothing"
         /\ IF w.arg \in {"ident", "name", "num", "str"}
              THEN q = Stack(p.form, "text")
              ELSE q = Stack(Append(p.form, Sign(w.arg)), "nothing")
    [] w.do \in {"text", "index"} ->
         p.kept = "text" /\ q = Stack(Append(p.form, "value"), "nothing")
    [] w.do = "root" -> p = Stack(<<"value">>, "nothing") /\ q = Stack(<<>>, "root")
    [] w.do = "finish" -> p = Stack(<<>>, "root") /\ q = p
    [] OTHER -> p = q

Turning == {x \in Item \X Stacks \X Stacks : Turns(x[1], x[2], x[3])}
Spans(s, p, q) == Chained(Turning, Stacks, s, p, q)

LEMMA IsTurning ==
  /\ Turning \in SUBSET (Item \X Stacks \X Stacks)
  /\ \A w, p, q : Step(Turning, w, p, q) <=>
       w \in Item /\ p \in Stacks /\ q \in Stacks /\ Turns(w, p, q)
BY DEF Step, Turning

LEMMA StackIs ==
  ASSUME NEW F \in Seq(Slots), NEW kept \in Kept
  PROVE  /\ Stack(F, kept) \in Stacks
         /\ Stack(F, kept).form = F /\ Stack(F, kept).kept = kept
BY DEF Stack, Stacks

LEMMA InSlots ==
  ASSUME NEW F \in Seq(Slots)
  PROVE  /\ \A x \in Slots : Append(F, x) \in Seq(Slots)
         /\ \A n \in Nat : Holes(n) \in Seq(Slots) /\ F \o Holes(n) \in Seq(Slots)
         /\ ListStart(F) \in Seq(Slots)
<1>1. \A G \in Seq(Slots) : \A x \in Slots : Append(G, x) \in Seq(Slots)
  BY AppendProperties
<1>2. "value" \in Slots /\ "list" \in Slots /\ "<" \in Slots /\ ">" \in Slots /\ "[" \in Slots
  BY DEF Slots, Marks
<1>3. ASSUME NEW n \in Nat  PROVE Holes(n) \in Seq(Slots) /\ F \o Holes(n) \in Seq(Slots)
  <2>1. Holes(n) \in Seq(Slots)
    BY <1>2 DEF Holes
  <2> QED
    BY <2>1, ConcatProperties
<1>4. ListStart(F) \in Seq(Slots)
  BY <1>1, <1>2 DEF ListStart
<1> QED
  BY <1>1, <1>3, <1>4


-----------------------------------------------------------------------------
(* What each item turns.                                                   *)
On(F) == Stack(F, "nothing")
Said(F) == Append(F, "value")   \* one more value after it

LEMMA HolesAre ==
  ASSUME NEW F \in Seq(Slots)
  PROVE  /\ F \o Holes(0) = F
         /\ F \o Holes(1) = Said(F)
         /\ \A n \in Nat : Said(F \o Holes(n)) = F \o Holes(n + 1)
<1>1. "value" \in Slots
  BY DEF Slots
<1>2. \A n \in Nat : Holes(n) \in Seq(Slots) /\ Len(Holes(n)) = n /\ \A i \in 1 .. n : Holes(n)[i] = "value"
  BY <1>1 DEF Holes
<1>3. Holes(0) = <<>> /\ Holes(1) = <<"value">>
  <2>1. Holes(0) \in Seq(Slots) /\ Len(Holes(0)) = 0
    BY <1>2
  <2>2. Holes(1) \in Seq(Slots) /\ Len(Holes(1)) = 1 /\ Holes(1)[1] = "value"
    <3>1. 1 \in Nat /\ 1 \in 1 .. 1
      OBVIOUS
    <3> QED
      BY <1>2, <3>1
  <2>3. <<"value">> \in Seq(Slots) /\ Len(<<"value">>) = 1 /\ <<"value">>[1] = "value"
    BY <1>1
  <2> QED
    BY <2>1, <2>2, <2>3, EmptySeq, SeqEqual
<1>4. ASSUME NEW n \in Nat  PROVE Said(F \o Holes(n)) = F \o Holes(n + 1)
  <2> DEFINE v == <<"value">>
             h == Holes(n)
             k == Holes(n + 1)
  <2>1. h \in Seq(Slots) /\ k \in Seq(Slots) /\ v \in Seq(Slots) /\ Len(h) = n /\ Len(k) = n + 1
        /\ (\A i \in 1 .. n : h[i] = "value") /\ (\A i \in 1 .. n + 1 : k[i] = "value")
    BY <1>1, <1>2
  <2>2. F \o h \in Seq(Slots) /\ Said(F \o h) = (F \o h) \o v
    BY <1>1, <2>1, ConcatProperties, AppendIsConcat DEF Said
  <2>3. Append(h, "value") = h \o v
    BY <1>1, <2>1, AppendIsConcat
  <2>4. Append(h, "value") = k
    <3> HIDE DEF h, k
    <3>1. /\ Append(h, "value") \in Seq(Slots) /\ Len(Append(h, "value")) = n + 1
          /\ \A i \in 1 .. n : Append(h, "value")[i] = h[i]
          /\ Append(h, "value")[n + 1] = "value"
      BY <1>1, <2>1, AppendProperties
    <3>2. \A i \in 1 .. n + 1 : Append(h, "value")[i] = k[i]
      BY <2>1, <3>1
    <3> QED
      BY <2>1, <3>1, <3>2, SeqEqual
  <2> HIDE DEF h, k, v
  <2>5. (F \o h) \o v = F \o (h \o v)
    BY <2>1, ConcatAssociative
  <2> QED
    BY <2>2, <2>3, <2>4, <2>5 DEF h, k
<1>5. F \o <<>> = F
  BY ConcatEmptySeq
<1>6. F \o <<"value">> = Said(F)
  BY <1>1, AppendIsConcat DEF Said
<1> HIDE DEF Said
<1>7. F \o Holes(0) = F /\ F \o Holes(1) = Said(F)
  BY <1>3, <1>5, <1>6
<1> QED
  BY <1>4, <1>7

LEMMA SaidIs ==
  ASSUME NEW F \in Seq(Slots)
  PROVE  Said(F) \in Seq(Slots) /\ \A m \in Marks \cup {"list"} : Append(F, m) \in Seq(Slots)
<1>1. "value" \in Slots /\ Marks \cup {"list"} \subseteq Slots
  BY DEF Slots
<1> QED
  BY <1>1, InSlots DEF Said

LEMMA OneMore ==
  ASSUME NEW w \in Item, w.do \in {"parse", "loop", "new"}, NEW F \in Seq(Slots),
         w.do = "new" => PartsOf(w.arg, w.n), NEW G, G = TurnedFrom(w, F), G \in Seq(Slots)
  PROVE  Step(Turning, w, On(G), On(Said(F)))
<1>1. Said(F) \in Seq(Slots) /\ "nothing" \in Kept
  BY SaidIs DEF Kept
<1>2. /\ On(G) \in Stacks /\ On(G).form = G /\ On(G).kept = "nothing"
      /\ On(Said(F)) \in Stacks /\ On(Said(F)).form = Said(F) /\ On(Said(F)).kept = "nothing"
  BY <1>1, StackIs DEF On
<1>3. Turns(w, On(G), On(Said(F)))
  BY <1>2 DEF Turns, Said
<1> QED
  BY <1>2, <1>3, IsTurning

LEMMA ParseTurns ==
  ASSUME NEW sym \in Symbols, NEW F \in Seq(Slots)
  PROVE  Step(Turning, Parse(sym), On(F), On(Said(F)))
<1>1. Parse(sym) \in Item /\ Parse(sym).do = "parse"
  BY ParseItem
<1>2. TurnedFrom(Parse(sym), F) = F
  BY <1>1 DEF TurnedFrom
<1> QED
  BY <1>1, <1>2, OneMore

LEMMA LoopTurns ==
  ASSUME NEW n \in Nat, NEW F \in Seq(Slots)
  PROVE  /\ Step(Turning, Loop("node_arg", n), On(F \o Holes(n)), On(Said(F)))
         /\ Step(Turning, Loop("list_elem", n), On(ListStart(F) \o Holes(n)), On(Said(F)))
<1>1. ASSUME NEW sym \in {"node_arg", "list_elem"}
      PROVE  /\ Loop(sym, n) \in Item /\ Loop(sym, n).do = "loop"
             /\ Loop(sym, n).arg = sym /\ Loop(sym, n).n = n
  BY LoopItem DEF Loop, Do
<1>2. /\ TurnedFrom(Loop("node_arg", n), F) = F \o Holes(n)
      /\ TurnedFrom(Loop("list_elem", n), F) = ListStart(F) \o Holes(n)
  BY <1>1 DEF TurnedFrom
<1>3. F \o Holes(n) \in Seq(Slots) /\ ListStart(F) \o Holes(n) \in Seq(Slots)
  BY InSlots
<1> QED
  BY <1>1, <1>2, <1>3, OneMore

LEMMA NewTurns ==
  ASSUME NEW class \in Classes, NEW n \in Nat, NEW F \in Seq(Slots), PartsOf(class, n),
         NEW G \in Seq(Slots), G = MadeFrom(class, n, F)
  PROVE  Step(Turning, New(class, n), On(G), On(Said(F)))
<1>1. /\ New(class, n) \in Item /\ New(class, n).do = "new"
      /\ New(class, n).arg = class /\ New(class, n).n = n
  BY NewItem DEF New, Do
<1>2. TurnedFrom(New(class, n), F) = G
  BY <1>1 DEF TurnedFrom
<1> QED
  BY <1>1, <1>2, OneMore

(* The nodes made of parts with nothing between.                           *)
Plain == Classes \ {"TreeNode", "NodeArg", "ListElem", "NodeList"}

LEMMA PlainTurns ==
  ASSUME NEW class \in Plain, NEW n \in Nat, NEW F \in Seq(Slots)
  PROVE  Step(Turning, New(class, n), On(F \o Holes(n)), On(Said(F)))
<1>1. MadeFrom(class, n, F) = F \o Holes(n) /\ PartsOf(class, n) /\ class \in Classes
  BY DEF MadeFrom, PartsOf, Plain
<1>2. F \o Holes(n) \in Seq(Slots)
  BY InSlots
<1> QED
  BY <1>1, <1>2, NewTurns

LEMMA SingleTurns ==
  ASSUME NEW class \in Plain, NEW F \in Seq(Slots)
  PROVE  Step(Turning, New(class, 1), On(Said(F)), On(Said(F)))
BY PlainTurns, HolesAre

LEMMA WordTurns ==
  ASSUME NEW F \in Seq(Slots)
  PROVE  /\ \A m \in Marks : Step(Turning, Need(m), On(F), On(Append(F, m)))
         /\ Step(Turning, Need("kw_list"), On(F), On(Append(F, "list")))
<1>1. ASSUME NEW type \in Marks \cup {"kw_list"}
      PROVE  Step(Turning, Need(type), On(F), On(Append(F, Sign(type))))
  <2>1. /\ Need(type) \in Item /\ Need(type).do = "need" /\ Need(type).arg = type
        /\ type \notin {"ident", "name", "num", "str"}
    BY NeedItem DEF NeededTypes, Need, Do, Marks
  <2>2. Sign(type) \in Marks \cup {"list"}
    BY DEF Sign, Marks
  <2>3. /\ On(F) \in Stacks /\ On(F).form = F /\ On(F).kept = "nothing"
        /\ On(Append(F, Sign(type))) \in Stacks
    BY <2>2, SaidIs, StackIs DEF On, Kept
  <2> QED
    BY <2>1, <2>3, IsTurning DEF Turns, On
<1>2. Sign("kw_list") = "list" /\ \A m \in Marks : Sign(m) = m
  BY DEF Sign, Marks
<1> QED
  BY <1>1, <1>2

LEMMA TokenTurns ==
  ASSUME NEW type \in {"ident", "name", "num", "str"}, NEW w \in {Text, Index}, NEW F \in Seq(Slots)
  PROVE  /\ Step(Turning, Need(type), On(F), Stack(F, "text"))
         /\ Step(Turning, w, Stack(F, "text"), On(Said(F)))
<1>1. /\ Need(type) \in Item /\ Need(type).do = "need" /\ Need(type).arg = type
      /\ w \in Item /\ w.do \in {"text", "index"}
  BY NeedItem, TextItem DEF NeededTypes, Need, Do
<1>2. /\ On(F) \in Stacks /\ On(F).form = F /\ On(F).kept = "nothing"
      /\ Stack(F, "text") \in Stacks /\ Stack(F, "text").form = F
      /\ Stack(F, "text").kept = "text" /\ On(Said(F)) \in Stacks
  BY SaidIs, StackIs DEF On, Kept
<1> QED
  BY <1>1, <1>2, IsTurning DEF Turns, On, Said

LEMMA LeaveTurns ==
  ASSUME NEW F \in Seq(Slots)
  PROVE  Step(Turning, LeaveCtxt, On(F), On(F))
<1>1. On(F) \in Stacks
  BY StackIs DEF On, Kept
<1> QED
  BY <1>1, LeaveItem, IsTurning DEF Turns

-----------------------------------------------------------------------------
(* What the functions turn, an item after the other.                       *)
LEMMA TreeTurns ==
  ASSUME NEW F \in Seq(Slots)
  PROVE  Spans(<<Parse("tree_node"), New("Tree", 1)>>,
               On(F), On(Said(F)))
<1> DEFINE f1 == Said(F)
<1>1. f1 \in Seq(Slots)
  BY SaidIs DEF Marks
<1>2. Step(Turning, Parse("tree_node"), On(F), On(f1))
  BY ParseTurns, <1>1 DEF Symbols
<1>3. Step(Turning, New("Tree", 1), On(f1), On(f1))
  BY SingleTurns, <1>1 DEF Plain, Classes
<1> HIDE DEF f1
<1>4. Chained(Turning, Stacks, <<Parse("tree_node"), New("Tree", 1)>>,
             On(F), On(f1))
  BY IsTurning, <1>2, <1>3, Chain2
<1> QED
  BY <1>4 DEF Spans, f1

LEMMA TreeNodeTurns ==
  ASSUME NEW F \in Seq(Slots)
  PROVE  Spans(<<Parse("node_name"), Need("("), Parse("node_args"),
                 Need(")"), New("TreeNode", 2)>>,
               On(F), On(Said(F)))
<1> DEFINE f1 == Said(F)
           f2 == Append(f1, "(")
           f3 == Said(f2)
           f4 == Append(f3, ")")
<1>1. f1 \in Seq(Slots)
  BY SaidIs DEF Marks
<1>2. f2 \in Seq(Slots)
  BY SaidIs, <1>1 DEF Marks
<1>3. f3 \in Seq(Slots)
  BY SaidIs, <1>2 DEF Marks
<1>4. f4 \in Seq(Slots)
  BY SaidIs, <1>3 DEF Marks
<1>5. MadeFrom("TreeNode", 2, F) = f4 /\ PartsOf("TreeNode", 2)
  BY DEF MadeFrom, PartsOf, Said
<1>6. Step(Turning, Parse("node_name"), On(F), On(f1))
  BY ParseTurns, <1>1, <1>2, <1>3, <1>4, <1>5 DEF Symbols
<1>7. Step(Turning, Need("("), On(f1), On(f2))
  BY WordTurns, <1>1, <1>2, <1>3, <1>4, <1>5 DEF Marks
<1>8. Step(Turning, Parse("node_args"), On(f2), On(f3))
  BY ParseTurns, <1>1, <1>2, <1>3, <1>4, <1>5 DEF Symbols
<1>9. Step(Turning, Need(")"), On(f3), On(f4))
  BY WordTurns, <1>1, <1>2, <1>3, <1>4, <1>5 DEF Marks
<1>10. Step(Turning, New("TreeNode", 2), On(f4), On(Said(F)))
  BY NewTurns, <1>1, <1>2, <1>3, <1>4, <1>5 DEF Classes
<1> HIDE DEF f1, f2, f3, f4
<1>11. Chained(Turning, Stacks, <<Parse("node_name"), Need("("), Parse("node_args"),
                                Need(")"), New("TreeNode", 2)>>,
             On(F), On(Said(F)))
  BY IsTurning, <1>6, <1>7, <1>8, <1>9, <1>10, Chain5
<1> QED
  BY <1>11 DEF Spans, f1, f2, f3, f4

LEMMA NodeNameTurns ==
  ASSUME NEW F \in Seq(Slots)
  PROVE  Spans(<<Need("ident"), Text, New("NodeName", 1)>>,
               On(F), On(Said(F)))
<1> DEFINE f1 == Said(F)
<1>1. f1 \in Seq(Slots)
  BY SaidIs DEF Marks
<1>2. Step(Turning, Need("ident"), On(F), Stack(F, "text"))
  BY TokenTurns, <1>1
<1>3. Step(Turning, Text, Stack(F, "text"), On(f1))
  BY TokenTurns, <1>1
<1>4. Step(Turning, New("NodeName", 1), On(f1), On(f1))
  BY SingleTurns, <1>1 DEF Plain, Classes
<1> HIDE DEF f1
<1>5. Chained(Turning, Stacks, <<Need("ident"), Text, New("NodeName", 1)>>,
             On(F), On(f1))
  BY IsTurning, <1>2, <1>3, <1>4, Chain3
<1> QED
  BY <1>5 DEF Spans, f1

LEMMA ArgNameTurns ==
  ASSUME NEW F \in Seq(Slots)
  PROVE  Spans(<<Need("name"), Text, New("ArgName", 1)>>,
               On(F), On(Said(F)))
<1> DEFINE f1 == Said(F)
<1>1. f1 \in Seq(Slots)
  BY SaidIs DEF Marks
<1>2. Step(Turning, Need("name"), On(F), Stack(F, "text"))
  BY TokenTurns, <1>1
<1>3. Step(Turning, Text, Stack(F, "text"), On(f1))
  BY TokenTurns, <1>1
<1>4. Step(Turning, New("ArgName", 1), On(f1), On(f1))
  BY SingleTurns, <1>1 DEF Plain, Classes
<1> HIDE DEF f1
<1>5. Chained(Turning, Stacks, <<Need("name"), Text, New("ArgName", 1)>>,
             On(F), On(f1))
  BY IsTurning, <1>2, <1>3, <1>4, Chain3
<1> QED
  BY <1>5 DEF Spans, f1

LEMMA LiteralTurns ==
  ASSUME NEW F \in Seq(Slots)
  PROVE  Spans(<<Need("str"), Text, New("Literal", 1)>>,
               On(F), On(Said(F)))
<1> DEFINE f1 == Said(F)
<1>1. f1 \in Seq(Slots)
  BY SaidIs DEF Marks
<1>2. Step(Turning, Need("str"), On(F), Stack(F, "text"))
  BY TokenTurns, <1>1
<1>3. Step(Turning, Text, Stack(F, "text"), On(f1))
  BY TokenTurns, <1>1
<1>4. Step(Turning, New("Literal", 1), On(f1), On(f1))
  BY SingleTurns, <1>1 DEF Plain, Classes
<1> HIDE DEF f1
<1>5. Chained(Turning, Stacks, <<Need("str"), Text, New("Literal", 1)>>,
             On(F), On(f1))
  BY IsTurning, <1>2, <1>3, <1>4, Chain3
<1> QED
  BY <1>5 DEF Spans, f1

LEMMA NodeArgTurns ==
  ASSUME NEW F \in Seq(Slots)
  PROVE  Spans(<<Need("."), LeaveCtxt, Parse("arg_name"), Need("="),
                 Parse("arg_value"), New("NodeArg", 2), LeaveCtxt>>,
               On(F), On(Said(F)))
<1> DEFINE f1 == Append(F, ".")
           f2 == Said(f1)
           f3 == Append(f2, "=")
           f4 == Said(f3)
<1>1. f1 \in Seq(Slots)
  BY SaidIs DEF Marks
<1>2. f2 \in Seq(Slots)
  BY SaidIs, <1>1 DEF Marks
<1>3. f3 \in Seq(Slots)
  BY SaidIs, <1>2 DEF Marks
<1>4. f4 \in Seq(Slots)
  BY SaidIs, <1>3 DEF Marks
<1>5. MadeFrom("NodeArg", 2, F) = f4 /\ PartsOf("NodeArg", 2)
  BY DEF MadeFrom, PartsOf, Said
<1>6. Said(F) \in Seq(Slots)
  BY SaidIs
<1>7. Step(Turning, Need("."), On(F), On(f1))
  BY WordTurns, <1>1, <1>2, <1>3, <1>4, <1>5, <1>6 DEF Marks
<1>8. Step(Turning, LeaveCtxt, On(f1), On(f1))
  BY LeaveTurns, <1>1, <1>2, <1>3, <1>4, <1>5, <1>6
<1>9. Step(Turning, Parse("arg_name"), On(f1), On(f2))
  BY ParseTurns, <1>1, <1>2, <1>3, <1>4, <1>5, <1>6 DEF Symbols
<1>10. Step(Turning, Need("="), On(f2), On(f3))
  BY WordTurns, <1>1, <1>2, <1>3, <1>4, <1>5, <1>6 DEF Marks
<1>11. Step(Turning, Parse("arg_value"), On(f3), On(f4))
  BY ParseTurns, <1>1, <1>2, <1>3, <1>4, <1>5, <1>6 DEF Symbols
<1>12. Step(Turning, New("NodeArg", 2), On(f4), On(Said(F)))
  BY NewTurns, <1>1, <1>2, <1>3, <1>4, <1>5, <1>6 DEF Classes
<1>13. Step(Turning, LeaveCtxt, On(Said(F)), On(Said(F)))
  BY LeaveTurns, <1>1, <1>2, <1>3, <1>4, <1>5, <1>6
<1> HIDE DEF f1, f2, f3, f4
<1>14. Chained(Turning, Stacks, <<Need("."), LeaveCtxt, Parse("arg_name"), Need("="),
                                Parse("arg_value"), New("NodeArg", 2), LeaveCtxt>>,
             On(F), On(Said(F)))
  BY IsTurning, <1>7, <1>8, <1>9, <1>10, <1>11, <1>12, <1>13, Chain7
<1> QED
  BY <1>14 DEF Spans, f1, f2, f3, f4

LEMMA ListElemTurns ==
  ASSUME NEW F \in Seq(Slots)
  PROVE  Spans(<<Need("["), Need("num"), Index, Need("]"),
                 Need("="), Parse("tree_node"), New("ListElem", 2)>>,
               On(F), On(Said(F)))
<1> DEFINE f1 == Append(F, "[")
           f2 == Said(f1)
           f3 == Append(f2, "]")
           f4 == Append(f3, "=")
           f5 == Said(f4)
<1>1. f1 \in Seq(Slots)
  BY SaidIs DEF Marks
<1>2. f2 \in Seq(Slots)
  BY SaidIs, <1>1 DEF Marks
<1>3. f3 \in Seq(Slots)
  BY SaidIs, <1>2 DEF Marks
<1>4. f4 \in Seq(Slots)
  BY SaidIs, <1>3 DEF Marks
<1>5. f5 \in Seq(Slots)
  BY SaidIs, <1>4 DEF Marks
<1>6. MadeFrom("ListElem", 2, F) = f5 /\ PartsOf("ListElem", 2)
  BY DEF MadeFrom, PartsOf, Said
<1>7. Step(Turning, Need("["), On(F), On(f1))
  BY WordTurns, <1>1, <1>2, <1>3, <1>4, <1>5, <1>6 DEF Marks
<1>8. Step(Turning, Need("num"), On(f1), Stack(f1, "text"))
  BY TokenTurns, <1>1, <1>2, <1>3, <1>4, <1>5, <1>6
<1>9. Step(Turning, Index, Stack(f1, "text"), On(f2))
  BY TokenTurns, <1>1, <1>2, <1>3, <1>4, <1>5, <1>6
<1>10. Step(Turning, Need("]"), On(f2), On(f3))
  BY WordTurns, <1>1, <1>2, <1>3, <1>4, <1>5, <1>6 DEF Marks
<1>11. Step(Turning, Need("="), On(f3), On(f4))
  BY WordTurns, <1>1, <1>2, <1>3, <1>4, <1>5, <1>6 DEF Marks
<1>12. Step(Turning, Parse("tree_node"), On(f4), On(f5))
  BY ParseTurns, <1>1, <1>2, <1>3, <1>4, <1>5, <1>6 DEF Symbols
<1>13. Step(Turning, New("ListElem", 2), On(f5), On(Said(F)))
  BY NewTurns, <1>1, <1>2, <1>3, <1>4, <1>5, <1>6 DEF Classes
<1> HIDE DEF f1, f2, f3, f4, f5
<1>14. Chained(Turning, Stacks, <<Need("["), Need("num"), Index, Need("]"),
                                Need("="), Parse("tree_node"), New("ListElem", 2)>>,
             On(F), On(Said(F)))
  BY IsTurning, <1>7, <1>8, <1>9, <1>10, <1>11, <1>12, <1>13, Chain7
<1> QED
  BY <1>14 DEF Spans, f1, f2, f3, f4, f5

LEMMA ArgsLoopTurns ==
  ASSUME NEW F \in Seq(Slots)
  PROVE  Spans(<<Loop("node_arg", 0)>>,
               On(F), On(Said(F)))
<1>1. Step(Turning, Loop("node_arg", 0), On(F), On(Said(F)))
  BY LoopTurns, HolesAre
<1>2. Chained(Turning, Stacks, <<Loop("node_arg", 0)>>,
             On(F), On(Said(F)))
  BY IsTurning, <1>1, Chain1
<1> QED
  BY <1>2 DEF Spans

LEMMA LiteralArgsTurns ==
  ASSUME NEW F \in Seq(Slots)
  PROVE  Spans(<<Parse("literal"), New("LiteralArgs", 1)>>,
               On(F), On(Said(F)))
<1> DEFINE f1 == Said(F)
<1>1. f1 \in Seq(Slots)
  BY SaidIs DEF Marks
<1>2. Step(Turning, Parse("literal"), On(F), On(f1))
  BY ParseTurns, <1>1 DEF Symbols
<1>3. Step(Turning, New("LiteralArgs", 1), On(f1), On(f1))
  BY SingleTurns, <1>1 DEF Plain, Classes
<1> HIDE DEF f1
<1>4. Chained(Turning, Stacks, <<Parse("literal"), New("LiteralArgs", 1)>>,
             On(F), On(f1))
  BY IsTurning, <1>2, <1>3, Chain2
<1> QED
  BY <1>4 DEF Spans, f1

LEMMA NodeValueTurns ==
  ASSUME NEW F \in Seq(Slots)
  PROVE  Spans(<<Parse("tree_node"), New("NodeValue", 1)>>,
               On(F), On(Said(F)))
<1> DEFINE f1 == Said(F)
<1>1. f1 \in Seq(Slots)
  BY SaidIs DEF Marks
<1>2. Step(Turning, Parse("tree_node"), On(F), On(f1))
  BY ParseTurns, <1>1 DEF Symbols
<1>3. Step(Turning, New("NodeValue", 1), On(f1), On(f1))
  BY SingleTurns, <1>1 DEF Plain, Classes
<1> HIDE DEF f1
<1>4. Chained(Turning, Stacks, <<Parse("tree_node"), New("NodeValue", 1)>>,
             On(F), On(f1))
  BY IsTurning, <1>2, <1>3, Chain2
<1> QED
  BY <1>4 DEF Spans, f1

LEMMA LiteralValueTurns ==
  ASSUME NEW F \in Seq(Slots)
  PROVE  Spans(<<Parse("literal"), New("LiteralValue", 1)>>,
               On(F), On(Said(F)))
<1> DEFINE f1 == Said(F)
<1>1. f1 \in Seq(Slots)
  BY SaidIs DEF Marks
<1>2. Step(Turning, Parse("literal"), On(F), On(f1))
  BY ParseTurns, <1>1 DEF Symbols
<1>3. Step(Turning, New("LiteralValue", 1), On(f1), On(f1))
  BY SingleTurns, <1>1 DEF Plain, Classes
<1> HIDE DEF f1
<1>4. Chained(Turning, Stacks, <<Parse("literal"), New("LiteralValue", 1)>>,
             On(F), On(f1))
  BY IsTurning, <1>2, <1>3, Chain2
<1> QED
  BY <1>4 DEF Spans, f1

LEMMA ListTurns ==
  ASSUME NEW F \in Seq(Slots)
  PROVE  Spans(<<Need("kw_list"), Need("<"), Parse("node_name"),
                 Need(">"), Need("["), Loop("list_elem", 0)>>,
               On(F), On(Said(F)))
<1> DEFINE f1 == Append(F, "list")
           f2 == Append(f1, "<")
           f3 == Said(f2)
           f4 == Append(f3, ">")
           f5 == Append(f4, "[")
<1>1. f1 \in Seq(Slots)
  BY SaidIs DEF Marks
<1>2. f2 \in Seq(Slots)
  BY SaidIs, <1>1 DEF Marks
<1>3. f3 \in Seq(Slots)
  BY SaidIs, <1>2 DEF Marks
<1>4. f4 \in Seq(Slots)
  BY SaidIs, <1>3 DEF Marks
<1>5. f5 \in Seq(Slots)
  BY SaidIs, <1>4 DEF Marks
<1>6. ListStart(F) \o Holes(0) = f5
  BY <1>5, HolesAre DEF ListStart, Said
<1>7. Step(Turning, Need("kw_list"), On(F), On(f1))
  BY WordTurns, <1>1, <1>2, <1>3, <1>4, <1>5, <1>6
<1>8. Step(Turning, Need("<"), On(f1), On(f2))
  BY WordTurns, <1>1, <1>2, <1>3, <1>4, <1>5, <1>6 DEF Marks
<1>9. Step(Turning, Parse("node_name"), On(f2), On(f3))
  BY ParseTurns, <1>1, <1>2, <1>3, <1>4, <1>5, <1>6 DEF Symbols
<1>10. Step(Turning, Need(">"), On(f3), On(f4))
  BY WordTurns, <1>1, <1>2, <1>3, <1>4, <1>5, <1>6 DEF Marks
<1>11. Step(Turning, Need("["), On(f4), On(f5))
  BY WordTurns, <1>1, <1>2, <1>3, <1>4, <1>5, <1>6 DEF Marks
<1>12. Step(Turning, Loop("list_elem", 0), On(f5), On(Said(F)))
  BY LoopTurns, <1>1, <1>2, <1>3, <1>4, <1>5, <1>6
<1> HIDE DEF f1, f2, f3, f4, f5
<1>13. Chained(Turning, Stacks, <<Need("kw_list"), Need("<"), Parse("node_name"),
                                Need(">"), Need("["), Loop("list_elem", 0)>>,
             On(F), On(Said(F)))
  BY IsTurning, <1>7, <1>8, <1>9, <1>10, <1>11, <1>12, Chain6
<1> QED
  BY <1>13 DEF Spans, f1, f2, f3, f4, f5

LEMMA ArgsTurnTurns ==
  ASSUME NEW F \in Seq(Slots), NEW n \in Nat
  PROVE  Spans(<<Parse("node_arg"), Loop("node_arg", n + 1)>>,
               On(F \o Holes(n)), On(Said(F)))
<1> DEFINE f1 == F \o Holes(n)
           f2 == F \o Holes(n + 1)
<1>1. f1 \in Seq(Slots)
  BY InSlots
<1>2. Said(f1) = f2
  BY HolesAre
<1>3. Step(Turning, Parse("node_arg"), On(f1), On(f2))
  BY ParseTurns, <1>1, <1>2 DEF Symbols
<1>4. Step(Turning, Loop("node_arg", n + 1), On(f2), On(Said(F)))
  BY LoopTurns, <1>1, <1>2
<1> HIDE DEF f1, f2
<1>5. Chained(Turning, Stacks, <<Parse("node_arg"), Loop("node_arg", n + 1)>>,
             On(f1), On(Said(F)))
  BY IsTurning, <1>3, <1>4, Chain2
<1> QED
  BY <1>5 DEF Spans, f1, f2

LEMMA ArgsAfterTurns ==
  ASSUME NEW F \in Seq(Slots), NEW n \in Nat
  PROVE  Spans(<<New("ListArgs", n)>>,
               On(F \o Holes(n)), On(Said(F)))
<1>1. Step(Turning, New("ListArgs", n), On(F \o Holes(n)), On(Said(F)))
  BY PlainTurns DEF Plain, Classes
<1>2. Chained(Turning, Stacks, <<New("ListArgs", n)>>,
             On(F \o Holes(n)), On(Said(F)))
  BY IsTurning, <1>1, Chain1
<1> QED
  BY <1>2 DEF Spans

LEMMA ListTurnTurns ==
  ASSUME NEW F \in Seq(Slots), NEW n \in Nat
  PROVE  Spans(<<Parse("list_elem"), Loop("list_elem", n + 1)>>,
               On(ListStart(F) \o Holes(n)), On(Said(F)))
<1> DEFINE f1 == ListStart(F) \o Holes(n)
           f2 == ListStart(F) \o Holes(n + 1)
<1>1. ListStart(F) \in Seq(Slots)
  BY InSlots
<1>2. f1 \in Seq(Slots)
  BY <1>1, InSlots
<1>3. Said(f1) = f2
  BY <1>1, HolesAre
<1>4. Step(Turning, Parse("list_elem"), On(f1), On(f2))
  BY ParseTurns, <1>1, <1>2, <1>3 DEF Symbols
<1>5. Step(Turning, Loop("list_elem", n + 1), On(f2), On(Said(F)))
  BY LoopTurns, <1>1, <1>2, <1>3
<1> HIDE DEF f1, f2
<1>6. Chained(Turning, Stacks, <<Parse("list_elem"), Loop("list_elem", n + 1)>>,
             On(f1), On(Said(F)))
  BY IsTurning, <1>4, <1>5, Chain2
<1> QED
  BY <1>6 DEF Spans, f1, f2

LEMMA ListAfterTurns ==
  ASSUME NEW F \in Seq(Slots), NEW n \in Nat
  PROVE  Spans(<<Need("]"), New("NodeList", n + 1), New("ListValue", 1)>>,
               On(ListStart(F) \o Holes(n)), On(Said(F)))
<1> DEFINE f1 == ListStart(F) \o Holes(n)
           f2 == Append(f1, "]")
           f3 == Said(F)
<1>1. ListStart(F) \in Seq(Slots)
  BY InSlots
<1>2. f1 \in Seq(Slots)
  BY <1>1, InSlots
<1>3. f2 \in Seq(Slots)
  BY <1>2, SaidIs DEF Marks
<1>4. n + 1 \in Nat /\ n + 1 >= 1 /\ n + 1 - 1 = n
  OBVIOUS
<1>5. MadeFrom("NodeList", n + 1, F) = f2 /\ PartsOf("NodeList", n + 1)
  BY <1>4 DEF MadeFrom, PartsOf
<1>6. Step(Turning, Need("]"), On(f1), On(f2))
  BY WordTurns, <1>1, <1>2, <1>3, <1>4, <1>5 DEF Marks
<1>7. Step(Turning, New("NodeList", n + 1), On(f2), On(f3))
  BY NewTurns, <1>1, <1>2, <1>3, <1>4, <1>5 DEF Classes
<1>8. Step(Turning, New("ListValue", 1), On(f3), On(f3))
  BY SingleTurns, <1>1, <1>2, <1>3, <1>4, <1>5 DEF Plain, Classes
<1> HIDE DEF f1, f2, f3
<1>9. Chained(Turning, Stacks, <<Need("]"), New("NodeList", n + 1), New("ListValue", 1)>>,
             On(f1), On(f3))
  BY IsTurning, <1>6, <1>7, <1>8, Chain3
<1> QED
  BY <1>9 DEF Spans, f1, f2, f3

LEMMA BodyTurns ==
  ASSUME NEW sym \in Symbols \ {"node_args", "arg_value"}, NEW F \in Seq(Slots)
  PROVE  Spans(Body(sym), On(F), On(Said(F)))
<1>1. CASE sym = "tree"
  BY <1>1, TreeTurns DEF Body
<1>2. CASE sym = "tree_node"
  BY <1>2, TreeNodeTurns DEF Body
<1>3. CASE sym = "node_name"
  BY <1>3, NodeNameTurns DEF Body
<1>4. CASE sym = "node_arg"
  BY <1>4, NodeArgTurns DEF Body
<1>5. CASE sym = "arg_name"
  BY <1>5, ArgNameTurns DEF Body
<1>6. CASE sym = "list_elem"
  BY <1>6, ListElemTurns DEF Body
<1>7. CASE sym = "literal"
  BY <1>7, LiteralTurns DEF Body
<1> QED
  BY <1>1, <1>2, <1>3, <1>4, <1>5, <1>6, <1>7 DEF Symbols

AllSaidNow == Stack(<<>>, "root")

LEMMA BeginTurns ==
  Spans(<<Begin, Parse("tree"), Root, Finish>>, On(<<>>), AllSaidNow)
<1> DEFINE e == <<>>
           s == Said(e)
<1>1. e \in Seq(Slots) /\ s \in Seq(Slots) /\ s = <<"value">>
  <2>1. e \in Seq(Slots) /\ s = <<"value">>
    BY DEF Said
  <2> QED
    BY <2>1, SaidIs
<1>2. On(e) \in Stacks /\ On(s) \in Stacks /\ AllSaidNow \in Stacks
  BY <1>1, StackIs DEF On, AllSaidNow, Kept
<1>3. /\ Begin \in Item /\ Root \in Item /\ Finish \in Item
      /\ Begin.do = "begin" /\ Root.do = "root" /\ Finish.do = "finish"
  BY DEF Begin, Root, Finish, Do, Item, Others
<1>4. Step(Turning, Begin, On(e), On(e))
  BY <1>2, <1>3, IsTurning DEF Turns
<1>5. Step(Turning, Parse("tree"), On(e), On(s))
  BY <1>1, ParseTurns DEF Symbols
<1>6. Step(Turning, Root, On(s), AllSaidNow)
  BY <1>1, <1>2, <1>3, IsTurning DEF Turns, On, AllSaidNow
<1>7. Step(Turning, Finish, AllSaidNow, AllSaidNow)
  BY <1>2, <1>3, IsTurning DEF Turns, AllSaidNow
<1> HIDE DEF e, s
<1>8. Chained(Turning, Stacks, <<Begin, Parse("tree"), Root, Finish>>, On(e), AllSaidNow)
  BY IsTurning, <1>4, <1>5, <1>6, <1>7, Chain4
<1> QED
  BY <1>8 DEF Spans, e

-----------------------------------------------------------------------------
(* A form, filled with values, says words: a slot after the other.         *)
Valued(said) == [node : DOMAIN said] \cup [text : Lexemes]

Tells(x, v, w, v1, w1, said) ==
  IF x = "value" THEN \E y \in Valued(said) : v1 = Append(v, y) /\ w1 = w \o PartSaid(said, y)
                 ELSE v1 = v /\ w1 = Append(w, x)

Says(form, vs, words, said) ==
  \E v \in [0 .. Len(form) -> Seq(Valued(said))], w \in [0 .. Len(form) -> Seq(Lexemes)] :
    /\ v[0] = <<>> /\ w[0] = <<>>
    /\ v[Len(form)] = vs /\ w[Len(form)] = words
    /\ \A i \in 1 .. Len(form) : Tells(form[i], v[i - 1], w[i - 1], v[i], w[i], said)

LEMMA SaysNothing ==
  ASSUME NEW said
  PROVE  /\ Says(<<>>, <<>>, <<>>, said)
         /\ \A vs, words : Says(<<>>, vs, words, said) => vs = <<>> /\ words = <<>>
<1>1. Len(<<>>) = 0 /\ 1 .. 0 = {} /\ 0 \in 0 .. 0
  OBVIOUS
<1>2. Says(<<>>, <<>>, <<>>, said)
  <2> DEFINE v == [i \in 0 .. 0 |-> <<>>]
  <2>1. v \in [0 .. 0 -> Seq(Valued(said))] /\ v \in [0 .. 0 -> Seq(Lexemes)] /\ v[0] = <<>>
    OBVIOUS
  <2> HIDE DEF v
  <2> QED
    BY <1>1, <2>1 DEF Says
<1>3. ASSUME NEW vs, NEW words, Says(<<>>, vs, words, said)  PROVE vs = <<>> /\ words = <<>>
  BY <1>1, <1>3 DEF Says
<1> QED
  BY <1>2, <1>3

LEMMA SaysIn ==
  ASSUME NEW form \in Seq(Slots), NEW vs, NEW words, NEW said, Says(form, vs, words, said)
  PROVE  vs \in Seq(Valued(said)) /\ words \in Seq(Lexemes)
<1>1. Len(form) \in 0 .. Len(form)
  BY LenProperties
<1> QED
  BY <1>1 DEF Says

(* One more slot.                                                          *)
LEMMA SaysNext ==
  ASSUME NEW form \in Seq(Slots), NEW x \in Slots, NEW said,
         NEW vs, NEW words, Says(form, vs, words, said),
         NEW vs1 \in Seq(Valued(said)), NEW words1 \in Seq(Lexemes),
         Tells(x, vs, words, vs1, words1, said)
  PROVE  Says(Append(form, x), vs1, words1, said)
<1> DEFINE n == Len(form)
           g == Append(form, x)
<1>1. /\ n \in Nat /\ Len(g) = n + 1 /\ g[n + 1] = x
      /\ \A i \in 1 .. n : g[i] = form[i]
  BY AppendProperties, LenProperties
<1>2. PICK v \in [0 .. n -> Seq(Valued(said))], w \in [0 .. n -> Seq(Lexemes)] :
        /\ v[0] = <<>> /\ w[0] = <<>> /\ v[n] = vs /\ w[n] = words
        /\ \A i \in 1 .. n : Tells(form[i], v[i - 1], w[i - 1], v[i], w[i], said)
  BY DEF Says
<1> DEFINE a == [i \in 0 .. n + 1 |-> IF i = n + 1 THEN vs1 ELSE v[i]]
           b == [i \in 0 .. n + 1 |-> IF i = n + 1 THEN words1 ELSE w[i]]
<1> HIDE DEF n, g
<1>3. /\ a \in [0 .. n + 1 -> Seq(Valued(said))] /\ b \in [0 .. n + 1 -> Seq(Lexemes)]
      /\ a[n + 1] = vs1 /\ b[n + 1] = words1
      /\ \A i \in 0 .. n : a[i] = v[i] /\ b[i] = w[i]
  BY <1>1
<1> HIDE DEF a, b
<1>4. a[0] = <<>> /\ b[0] = <<>>
  BY <1>1, <1>2, <1>3
<1>5. ASSUME NEW i \in 1 .. n + 1  PROVE Tells(g[i], a[i - 1], b[i - 1], a[i], b[i], said)
  <2>1. CASE i = n + 1
    <3>1. i - 1 = n /\ n \in 0 .. n
      BY <1>1, <2>1
    <3> QED
      BY <1>1, <1>2, <1>3, <2>1, <3>1
  <2>2. CASE i \in 1 .. n
    <3>1. i \in 0 .. n /\ i - 1 \in 0 .. n
      BY <1>1, <2>2
    <3> QED
      BY <1>1, <1>2, <1>3, <2>2, <3>1
  <2> QED
    BY <1>1, <2>1, <2>2
<1>6. Says(g, vs1, words1, said)
  BY <1>1, <1>3, <1>4, <1>5 DEF Says
<1> QED
  BY <1>6 DEF g

(* All but the last slot.                                                  *)
LEMMA SaysBefore ==
  ASSUME NEW form \in Seq(Slots), NEW x \in Slots, NEW said, NEW vs1, NEW words1,
         Says(Append(form, x), vs1, words1, said)
  PROVE  \E vs \in Seq(Valued(said)), words \in Seq(Lexemes) :
           Says(form, vs, words, said) /\ Tells(x, vs, words, vs1, words1, said)
<1> DEFINE n == Len(form)
           g == Append(form, x)
<1>1. /\ n \in Nat /\ Len(g) = n + 1 /\ g[n + 1] = x
      /\ \A i \in 1 .. n : g[i] = form[i]
  BY AppendProperties, LenProperties
<1>2. PICK a \in [0 .. n + 1 -> Seq(Valued(said))], b \in [0 .. n + 1 -> Seq(Lexemes)] :
        /\ a[0] = <<>> /\ b[0] = <<>> /\ a[n + 1] = vs1 /\ b[n + 1] = words1
        /\ \A i \in 1 .. n + 1 : Tells(g[i], a[i - 1], b[i - 1], a[i], b[i], said)
  <2> HIDE DEF n, g
  <2>1. Says(g, vs1, words1, said)
    BY DEF g
  <2>2. \E a \in [0 .. Len(g) -> Seq(Valued(said))], b \in [0 .. Len(g) -> Seq(Lexemes)] :
          /\ a[0] = <<>> /\ b[0] = <<>> /\ a[Len(g)] = vs1 /\ b[Len(g)] = words1
          /\ \A i \in 1 .. Len(g) : Tells(g[i], a[i - 1], b[i - 1], a[i], b[i], said)
    BY <2>1 DEF Says
  <2>3. Len(g) = n + 1
    BY <1>1
  <2> QED
    BY <2>2, <2>3, Zenon
<1> DEFINE v == [i \in 0 .. n |-> a[i]]
           w == [i \in 0 .. n |-> b[i]]
<1> HIDE DEF n, g
<1>3. /\ v \in [0 .. n -> Seq(Valued(said))] /\ w \in [0 .. n -> Seq(Lexemes)]
      /\ \A i \in 0 .. n : a[i] = v[i] /\ b[i] = w[i]
  BY <1>1
<1> HIDE DEF v, w
<1>4. 0 \in 0 .. n /\ n \in 0 .. n /\ n + 1 - 1 = n /\ n + 1 \in 1 .. n + 1
  BY <1>1
<1>5. ASSUME NEW i \in 1 .. n  PROVE Tells(form[i], v[i - 1], w[i - 1], v[i], w[i], said)
  <2>1. i \in 0 .. n /\ i - 1 \in 0 .. n /\ i \in 1 .. n + 1
    BY <1>1
  <2> QED
    BY <1>1, <1>2, <1>3, <2>1
<1>6. Says(form, v[n], w[n], said)
  <2>1. v[0] = <<>> /\ w[0] = <<>> /\ n = Len(form)
    BY <1>2, <1>3, <1>4 DEF n
  <2> QED
    BY <1>3, <1>5, <2>1 DEF Says
<1>7. Tells(x, v[n], w[n], vs1, words1, said)
  BY <1>1, <1>2, <1>3, <1>4
<1>8. v[n] \in Seq(Valued(said)) /\ w[n] \in Seq(Lexemes)
  BY <1>3, <1>4
<1> QED
  BY <1>6, <1>7, <1>8

(* More nodes change nothing of what is said.                              *)
LEMMA SaysStill ==
  ASSUME NEW form, NEW vs, NEW words, NEW said, NEW more, Says(form, vs, words, said),
         DOMAIN said \subseteq DOMAIN more, \A i \in DOMAIN said : more[i] = said[i]
  PROVE  Says(form, vs, words, more)
<1>1. Valued(said) \subseteq Valued(more)
  BY DEF Valued
<1>2. Seq(Valued(said)) \subseteq Seq(Valued(more))
  BY <1>1, SeqMonotonic
<1>3. ASSUME NEW y \in Valued(said)  PROVE PartSaid(more, y) = PartSaid(said, y)
  BY DEF Valued, PartSaid, IsNode
<1>4. \A x, v, w, v1, w1 : Tells(x, v, w, v1, w1, said) => Tells(x, v, w, v1, w1, more)
  BY <1>1, <1>3 DEF Tells
<1>5. PICK v \in [0 .. Len(form) -> Seq(Valued(said))], w \in [0 .. Len(form) -> Seq(Lexemes)] :
        /\ v[0] = <<>> /\ w[0] = <<>> /\ v[Len(form)] = vs /\ w[Len(form)] = words
        /\ \A i \in 1 .. Len(form) : Tells(form[i], v[i - 1], w[i - 1], v[i], w[i], said)
  BY DEF Says
<1>6. v \in [0 .. Len(form) -> Seq(Valued(more))]
  BY <1>2
<1> QED
  BY <1>4, <1>5, <1>6 DEF Says

-----------------------------------------------------------------------------
(* Sequences one after the other, and one more.                            *)
AreFlat(seqs, f, n) ==
  f = [i \in 1 .. n |-> IF i = 1 THEN seqs[i] ELSE f[i - 1] \o seqs[i]]

LEMMA FlatExist ==
  ASSUME NEW seqs, NEW n \in Nat
  PROVE  \E f : AreFlat(seqs, f, n)
<1> DEFINE Are(f, m) == AreFlat(seqs, f, m)
           S == {m \in 0 .. n : \E f : Are(f, m)}
<1>1. 0 \in S
  <2> DEFINE f == [i \in 1 .. 0 |-> <<>>]
  <2>1. 1 .. 0 = {}
    OBVIOUS
  <2>2. Are(f, 0)
    <3> HIDE DEF f
    <3>1. f = [i \in 1 .. 0 |-> <<>>]
      BY DEF f
    <3>2. \A i \in 1 .. 0 : (IF i = 1 THEN seqs[i] ELSE f[i - 1] \o seqs[i]) = <<>>
      BY <2>1
    <3> QED
      BY <3>1, <3>2, Zenon DEF AreFlat
  <2> QED
    BY <2>2
<1>2. ASSUME NEW m \in 1 .. n, m - 1 \in S  PROVE m \in S
  <2>1. PICK f : Are(f, m - 1)
    BY <1>2
  <2> DEFINE g == [i \in 1 .. m |-> IF i = 1 THEN seqs[i] ELSE f[i - 1] \o seqs[i]]
  <2>2. ASSUME NEW i \in 1 .. m - 1  PROVE g[i] = f[i]
    <3>1. i \in 1 .. m /\ i \in 1 .. m - 1
      BY <2>2
    <3>2. f[i] = IF i = 1 THEN seqs[i] ELSE f[i - 1] \o seqs[i]
      BY <2>1, <3>1 DEF AreFlat
    <3> QED
      BY <3>1, <3>2
  <2>3. ASSUME NEW i \in 1 .. m
        PROVE  (IF i = 1 THEN seqs[i] ELSE f[i - 1] \o seqs[i])
               = (IF i = 1 THEN seqs[i] ELSE g[i - 1] \o seqs[i])
    <3>1. CASE i = 1
      <4> HIDE DEF g
      <4> QED
        BY <3>1
    <3>2. CASE i # 1
      <4>1. i - 1 \in 1 .. m - 1
        BY <3>2
      <4>2. f[i - 1] = g[i - 1]
        BY <2>2, <4>1
      <4> HIDE DEF g
      <4> QED
        BY <4>2
    <3> QED
      BY <3>1, <3>2
  <2>4. Are(g, m)
    <3>1. g = [i \in 1 .. m |-> IF i = 1 THEN seqs[i] ELSE f[i - 1] \o seqs[i]]
      OBVIOUS
    <3> HIDE DEF g
    <3> QED
      BY <2>3, <3>1, Zenon DEF AreFlat
  <2>5. \E h : Are(h, m)
    <3> HIDE DEF g, Are
    <3> QED
      BY <2>4
  <2> HIDE DEF g, Are
  <2> QED
    BY <2>5
<1>3. n \in S
  <2> HIDE DEF S
  <2> QED
    BY <1>1, <1>2, UpTo
<1> QED
  BY <1>3

LEMMA FlatIs ==
  ASSUME NEW seqs, Len(seqs) \in Nat, Len(seqs) # 0
  PROVE  \E f : AreFlat(seqs, f, Len(seqs)) /\ FlattenSeq(seqs) = f[Len(seqs)]
<1> DEFINE f == CHOOSE f : AreFlat(seqs, f, Len(seqs))
<1>1. AreFlat(seqs, f, Len(seqs))
  <2>1. \E g : AreFlat(seqs, g, Len(seqs))
    BY FlatExist
  <2> QED
    BY <2>1, Zenon
<1>2. FlattenSeq(seqs) = f[Len(seqs)]
  BY DEF FlattenSeq, AreFlat
<1> HIDE DEF f
<1> QED
  BY <1>1, <1>2

LEMMA FlatNone == FlattenSeq(<<>>) = <<>>
BY DEF FlattenSeq

LEMMA FlatNext ==
  ASSUME NEW S, NEW s \in Seq(Seq(S)), NEW e \in Seq(S)
  PROVE  FlattenSeq(Append(s, e)) = FlattenSeq(s) \o e
<1> DEFINE n == Len(s)
           t == Append(s, e)
<1>1. /\ n \in Nat /\ t \in Seq(Seq(S)) /\ Len(t) = n + 1 /\ t[n + 1] = e
      /\ \A i \in 1 .. n : t[i] = s[i]
  BY AppendProperties, LenProperties
<1>2. PICK g : AreFlat(t, g, n + 1) /\ FlattenSeq(t) = g[n + 1]
  <2>1. Len(t) \in Nat /\ Len(t) # 0
    BY <1>1
  <2> HIDE DEF t, n
  <2> QED
    BY <1>1, <2>1, FlatIs
<1>3. CASE n = 0
  <2>1. s = <<>>
    BY <1>3, EmptySeq
  <2>2. FlattenSeq(s) \o e = e
    BY <2>1, FlatNone, ConcatEmptySeq
  <2>3. g[1] = t[1]
    BY <1>2, <1>3 DEF AreFlat
  <2> QED
    BY <1>1, <1>2, <1>3, <2>2, <2>3
<1>4. CASE n # 0
  <2>1. PICK f : AreFlat(s, f, n) /\ FlattenSeq(s) = f[n]
    BY <1>1, <1>4, FlatIs
  <2> HIDE DEF n, t
  <2>2. n \in 1 .. n /\ n + 1 \in 1 .. n + 1 /\ n + 1 # 1 /\ n + 1 - 1 = n
    BY <1>1, <1>4
  <2>3. \A i \in 1 .. n : f[i] = IF i = 1 THEN s[i] ELSE f[i - 1] \o s[i]
    BY <2>1 DEF AreFlat
  <2>4. \A i \in 1 .. n + 1 : g[i] = IF i = 1 THEN t[i] ELSE g[i - 1] \o t[i]
    BY <1>2 DEF AreFlat
  <2>5. g[n] = f[n]
    <3> DEFINE T == {i \in 0 .. n : i # 0 => g[i] = f[i]}
    <3>1. 0 \in T
      BY <1>1
    <3>2. ASSUME NEW i \in 1 .. n, i - 1 \in T  PROVE i \in T
      <4>1. i \in 0 .. n /\ i \in 1 .. n + 1
        BY <1>1
      <4>2. t[i] = s[i]
        BY <1>1
      <4>3. CASE i = 1
        BY <2>3, <2>4, <4>1, <4>2, <4>3
      <4>4. CASE i # 1
        <5>1. g[i - 1] = f[i - 1]
          BY <3>2, <4>4
        <5>2. f[i] = f[i - 1] \o s[i]
          BY <2>3, <4>1, <4>4
        <5>3. g[i] = g[i - 1] \o t[i]
          BY <2>4, <4>1, <4>4
        <5> QED
          BY <4>1, <4>2, <5>1, <5>2, <5>3
      <4> QED
        BY <4>3, <4>4
    <3>3. n \in T
      <4> HIDE DEF T
      <4>1. 0 .. n \subseteq T
        BY <1>1, <3>1, <3>2, UpTo
      <4>2. n \in 0 .. n
        BY <1>1
      <4> QED
        BY <4>1, <4>2
    <3> QED
      BY <1>4, <3>3
  <2>6. g[n + 1] = g[n] \o t[n + 1]
    <3>1. PICK m \in 1 .. n + 1 : m = n + 1
      BY <2>2
    <3>2. m # 1 /\ m - 1 = n
      BY <2>2, <3>1
    <3>3. g[m] = IF m = 1 THEN t[m] ELSE g[m - 1] \o t[m]
      BY <2>4
    <3>4. g[m] = g[n] \o t[m]
      BY <3>2, <3>3
    <3> QED
      BY <3>1, <3>4
  <2>7. FlattenSeq(t) = FlattenSeq(s) \o e
    BY <1>1, <1>2, <2>1, <2>5, <2>6
  <2> QED
    BY <2>7 DEF t
<1> QED
  BY <1>3, <1>4

-----------------------------------------------------------------------------
(* What parts say.                                                         *)
Telling(said) == \A i \in DOMAIN said : said[i] \in Seq(Lexemes)

LEMMA PartIn ==
  ASSUME NEW said, Telling(said), NEW y \in Valued(said)
  PROVE  PartSaid(said, y) \in Seq(Lexemes)
<1>1. CASE y \in [node : DOMAIN said]
  BY <1>1 DEF PartSaid, IsNode, Telling
<1>2. CASE y \in [text : Lexemes]
  <2>1. y.text \in Lexemes /\ DOMAIN y = {"text"}
    BY <1>2
  <2>2. ~IsNode(y)
    BY <2>1 DEF IsNode
  <2> QED
    BY <2>1, <2>2 DEF PartSaid
<1> QED
  BY <1>1, <1>2 DEF Valued

LEMMA NoneSaid == ASSUME NEW said  PROVE AllSaid(said, <<>>) = <<>>
<1>1. [k \in DOMAIN <<>> |-> PartSaid(said, <<>>[k])] = <<>>
  OBVIOUS
<1> QED
  BY <1>1, FlatNone DEF AllSaid

LEMMA NextSaid ==
  ASSUME NEW said, Telling(said), NEW ps \in Seq(Valued(said)), NEW y \in Valued(said)
  PROVE  AllSaid(said, Append(ps, y)) = AllSaid(said, ps) \o PartSaid(said, y)
<1> DEFINE n == Len(ps)
           qs == Append(ps, y)
           s == [k \in 1 .. n |-> PartSaid(said, ps[k])]
           t == [k \in 1 .. n + 1 |-> PartSaid(said, qs[k])]
           e == PartSaid(said, y)
<1>1. /\ n \in Nat /\ DOMAIN ps = 1 .. n /\ DOMAIN qs = 1 .. n + 1
      /\ qs[n + 1] = y /\ qs \in Seq(Valued(said))
      /\ \A i \in 1 .. n : qs[i] = ps[i] /\ ps[i] \in Valued(said)
  BY AppendProperties, LenProperties
<1>2. AllSaid(said, ps) = FlattenSeq(s) /\ AllSaid(said, qs) = FlattenSeq(t)
  BY <1>1 DEF AllSaid
<1>3. e \in Seq(Lexemes) /\ \A i \in 1 .. n : PartSaid(said, ps[i]) \in Seq(Lexemes)
  BY <1>1, PartIn
<1>4. s \in Seq(Seq(Lexemes)) /\ Len(s) = n /\ \A i \in 1 .. n : s[i] = PartSaid(said, ps[i])
  <2> HIDE DEF n
  <2> QED
    BY <1>1, <1>3
<1> HIDE DEF n, qs
<1>5. t = Append(s, e)
  <2>1. /\ Append(s, e) \in Seq(Seq(Lexemes)) /\ Len(Append(s, e)) = n + 1
        /\ \A i \in 1 .. n : Append(s, e)[i] = s[i]
        /\ Append(s, e)[n + 1] = e
    <3> HIDE DEF s, e
    <3> QED
      BY <1>3, <1>4, AppendProperties
  <2>2. \A i \in 1 .. n + 1 : /\ PartSaid(said, qs[i]) = Append(s, e)[i]
                               /\ PartSaid(said, qs[i]) \in Seq(Lexemes)
    <3> HIDE DEF s, e
    <3>1. ASSUME NEW i \in 1 .. n
          PROVE  PartSaid(said, qs[i]) = s[i] /\ PartSaid(said, qs[i]) \in Seq(Lexemes)
      BY <1>1, <1>3, <1>4
    <3>2. PartSaid(said, qs[n + 1]) = e
      BY <1>1 DEF e
    <3>3. \A i \in 1 .. n + 1 : i \in 1 .. n \/ i = n + 1
      BY <1>1
    <3> QED
      BY <1>3, <2>1, <3>1, <3>2, <3>3
  <2>3. t \in Seq(Seq(Lexemes)) /\ Len(t) = n + 1 /\ \A i \in 1 .. n + 1 : t[i] = PartSaid(said, qs[i])
    <3> HIDE DEF s, e
    <3> QED
      BY <1>1, <2>2
  <2> HIDE DEF s, e, t
  <2>4. Len(t) = Len(Append(s, e)) /\ \A i \in 1 .. Len(t) : t[i] = Append(s, e)[i]
    BY <2>1, <2>2, <2>3
  <2> QED
    BY <2>1, <2>3, <2>4, SeqEqual
<1> HIDE DEF s, e, t
<1>6. FlattenSeq(t) = FlattenSeq(s) \o e
  BY <1>3, <1>4, <1>5, FlatNext
<1> QED
  BY <1>2, <1>6 DEF qs, e

-----------------------------------------------------------------------------
(* A lexeme more is said, or a value; and back.                            *)
Words == Marks \cup {"list"}

LEMMA WordsAre ==
  /\ Words \subseteq Slots /\ Words \subseteq Lexemes
  /\ "value" \in Slots /\ "value" \notin Words
BY DEF Words, Slots, Lexemes, Marks

LEMMA SaysWord ==
  ASSUME NEW F \in Seq(Slots), NEW x \in Words, NEW vs, NEW words, NEW said,
         Says(F, vs, words, said)
  PROVE  Says(Append(F, x), vs, Append(words, x), said)
<1>1. vs \in Seq(Valued(said)) /\ words \in Seq(Lexemes)
  BY SaysIn
<1>2. x \in Slots /\ x # "value" /\ Append(words, x) \in Seq(Lexemes)
  BY <1>1, WordsAre, AppendProperties
<1>3. Tells(x, vs, words, vs, Append(words, x), said)
  BY <1>2 DEF Tells
<1> QED
  BY <1>1, <1>2, <1>3, SaysNext

LEMMA SaysValue ==
  ASSUME NEW F \in Seq(Slots), NEW vs, NEW words, NEW said, Telling(said),
         NEW y \in Valued(said), Says(F, vs, words, said)
  PROVE  Says(Said(F), Append(vs, y), words \o PartSaid(said, y), said)
<1>1. vs \in Seq(Valued(said)) /\ words \in Seq(Lexemes)
  BY SaysIn
<1>2. Append(vs, y) \in Seq(Valued(said)) /\ words \o PartSaid(said, y) \in Seq(Lexemes)
  BY <1>1, PartIn, AppendProperties, ConcatProperties
<1>3. Tells("value", vs, words, Append(vs, y), words \o PartSaid(said, y), said)
  BY DEF Tells
<1>4. "value" \in Slots
  BY WordsAre
<1> QED
  BY <1>2, <1>3, <1>4, SaysNext DEF Said

LEMMA WordBefore ==
  ASSUME NEW F \in Seq(Slots), NEW x \in Words, NEW vs, NEW words1, NEW said,
         Says(Append(F, x), vs, words1, said)
  PROVE  \E words \in Seq(Lexemes) : Says(F, vs, words, said) /\ words1 = Append(words, x)
<1>1. x \in Slots /\ x # "value"
  BY WordsAre
<1>2. PICK v \in Seq(Valued(said)), words \in Seq(Lexemes) :
        Says(F, v, words, said) /\ Tells(x, v, words, vs, words1, said)
  BY <1>1, SaysBefore
<1> QED
  BY <1>1, <1>2 DEF Tells

(* The value y more.                                                       *)
Adds(y, v, w, v1, w1, said) == v1 = Append(v, y) /\ w1 = w \o PartSaid(said, y)

LEMMA ValueBefore ==
  ASSUME NEW F \in Seq(Slots), NEW vs1, NEW words1, NEW said, Says(Said(F), vs1, words1, said)
  PROVE  \E vs \in Seq(Valued(said)), words \in Seq(Lexemes), y \in Valued(said) :
           Says(F, vs, words, said) /\ Adds(y, vs, words, vs1, words1, said)
<1>1. "value" \in Slots
  BY WordsAre
<1>2. PICK vs \in Seq(Valued(said)), words \in Seq(Lexemes) :
        Says(F, vs, words, said) /\ Tells("value", vs, words, vs1, words1, said)
  BY <1>1, SaysBefore DEF Said
<1>3. PICK y \in Valued(said) : Adds(y, vs, words, vs1, words1, said)
  BY <1>2 DEF Tells, Adds
<1> QED
  BY <1>2, <1>3

(* The values at the end with nothing between them.                        *)
Ends(n, F, vs1, words1, said) ==
  \E vs \in Seq(Valued(said)), ps \in Seq(Valued(said)), words \in Seq(Lexemes) :
    /\ Says(F, vs, words, said) /\ Len(ps) = n
    /\ vs1 = vs \o ps /\ words1 = words \o AllSaid(said, ps)

LEMMA AllIn ==
  ASSUME NEW said, Telling(said), NEW ps \in Seq(Valued(said))
  PROVE  AllSaid(said, ps) \in Seq(Lexemes)
<1> DEFINE upto(n) == SubSeq(ps, 1, n)
           Each(n) == AllSaid(said, upto(n)) \in Seq(Lexemes)
           L == Len(ps)
           S == {n \in 0 .. L : Each(n)}
<1>1. L \in Nat
  BY LenProperties
<1>2. Each(0)
  <2>1. upto(0) = <<>>
    BY SubSeqEmpty
  <2> HIDE DEF upto
  <2>2. AllSaid(said, upto(0)) = <<>>
    BY <2>1, NoneSaid
  <2>3. <<>> \in Seq(Lexemes)
    OBVIOUS
  <2> QED
    BY <2>2, <2>3
<1>3. ASSUME NEW n \in 1 .. L, Each(n - 1)  PROVE Each(n)
  <2>1. /\ upto(n - 1) \in Seq(Valued(said)) /\ ps[n] \in Valued(said)
        /\ upto(n) = upto(n - 1) \o <<ps[n]>>
    <3>1. n \in 1 .. L /\ 1 \in 1 .. L /\ n - 1 \in Int /\ 1 .. n - 1 \subseteq 1 .. L
      BY <1>1
    <3> QED
      BY <1>1, <3>1, ElementOfSeq, SubSeqProperties, SubSeqRecursiveSecond
  <2> HIDE DEF upto
  <2>2. upto(n) = Append(upto(n - 1), ps[n])
    BY <2>1, AppendIsConcat
  <2>3. AllSaid(said, upto(n)) = AllSaid(said, upto(n - 1)) \o PartSaid(said, ps[n])
    BY <2>1, <2>2, NextSaid
  <2>4. PartSaid(said, ps[n]) \in Seq(Lexemes) /\ AllSaid(said, upto(n - 1)) \in Seq(Lexemes)
    BY <1>3, <2>1, PartIn
  <2> QED
    BY <2>3, <2>4, ConcatProperties
<1>4. upto(L) = ps
  BY SubSeqFull
<1> HIDE DEF upto, Each, L
<1>5. 0 \in S /\ \A n \in 1 .. L : n - 1 \in S => n \in S
  BY <1>1, <1>2, <1>3
<1>6. L \in S
  <2> HIDE DEF S
  <2>1. 0 .. L \subseteq S
    BY <1>1, <1>5, UpTo
  <2>2. L \in 0 .. L
    BY <1>1
  <2> QED
    BY <2>1, <2>2
<1> QED
  BY <1>4, <1>6 DEF Each

Joined(all, s, t) == all = s \o t

LEMMA JoinedNext ==
  ASSUME NEW S, NEW s \in Seq(S), NEW t \in Seq(S), NEW y \in S, NEW all, Joined(all, s, t)
  PROVE  Joined(Append(all, y), s, Append(t, y))
<1> DEFINE u == <<y>>
<1>1. u \in Seq(S) /\ s \o t \in Seq(S)
  BY ConcatProperties
<1>2. Append(all, y) = (s \o t) \o u
  BY <1>1, AppendIsConcat DEF Joined
<1>3. Append(t, y) = t \o u
  BY AppendIsConcat
<1> HIDE DEF u
<1>4. (s \o t) \o u = s \o (t \o u)
  BY <1>1, ConcatAssociative
<1> QED
  BY <1>2, <1>3, <1>4 DEF Joined

LEMMA EndsNext ==
  ASSUME NEW F, NEW said, Telling(said), NEW n \in Nat, NEW vs1, NEW words1,
         Ends(n, F, vs1, words1, said), NEW y \in Valued(said),
         NEW vs2, NEW words2, Adds(y, vs1, words1, vs2, words2, said)
  PROVE  Ends(n + 1, F, vs2, words2, said)
<1>1. PICK vs \in Seq(Valued(said)), ps \in Seq(Valued(said)), words \in Seq(Lexemes) :
        /\ Says(F, vs, words, said) /\ Len(ps) = n
        /\ vs1 = vs \o ps /\ words1 = words \o AllSaid(said, ps)
  BY DEF Ends
<1> DEFINE qs == Append(ps, y)
           w == AllSaid(said, ps)
           z == PartSaid(said, y)
<1>2. qs \in Seq(Valued(said)) /\ Len(qs) = n + 1
  BY <1>1, AppendProperties
<1>3. vs2 = vs \o qs
  <2>1. Joined(vs1, vs, ps)
    BY <1>1 DEF Joined
  <2>2. Joined(Append(vs1, y), vs, qs)
    BY <2>1, JoinedNext
  <2> QED
    BY <2>2 DEF Adds, Joined
<1>4. w \in Seq(Lexemes) /\ z \in Seq(Lexemes) /\ AllSaid(said, qs) = w \o z
  <2>1. w \in Seq(Lexemes)
    BY AllIn
  <2>2. z \in Seq(Lexemes)
    BY PartIn
  <2>3. AllSaid(said, qs) = w \o z
    BY NextSaid
  <2> QED
    BY <2>1, <2>2, <2>3
<1> HIDE DEF qs, w, z
<1>5. (words \o w) \o z = words \o (w \o z)
  BY <1>4, ConcatAssociative, SMTT(30)
<1>6. words2 = words \o AllSaid(said, qs)
  <2>1. words2 = words1 \o z
    BY DEF Adds, z
  <2> QED
    BY <1>1, <1>4, <1>5, <2>1 DEF w
<1> QED
  BY <1>1, <1>2, <1>3, <1>6 DEF Ends

LEMMA HoleBefore ==
  ASSUME NEW F \in Seq(Slots), NEW said, Telling(said), NEW k \in Nat, NEW v, NEW w,
         Says(F \o Holes(k + 1), v, w, said),
         \A v1, w1 : Says(F \o Holes(k), v1, w1, said) => Ends(k, F, v1, w1, said)
  PROVE  Ends(k + 1, F, v, w, said)
<1> DEFINE G == F \o Holes(k)
<1>1. G \in Seq(Slots)
  BY InSlots
<1>2. F \o Holes(k + 1) = Said(G)
  BY HolesAre
<1> HIDE DEF G
<1>3. Says(Said(G), v, w, said)
  BY <1>2
<1>4. PICK v1 \in Seq(Valued(said)), w1 \in Seq(Lexemes), y \in Valued(said) :
        Says(G, v1, w1, said) /\ Adds(y, v1, w1, v, w, said)
  BY <1>1, <1>3, ValueBefore
<1>5. Ends(k, F, v1, w1, said)
  BY <1>4 DEF G
<1> QED
  BY <1>4, <1>5, EndsNext

LEMMA HolesBefore ==
  ASSUME NEW F \in Seq(Slots), NEW said, Telling(said), NEW n \in Nat,
         NEW vs1, NEW words1, Says(F \o Holes(n), vs1, words1, said)
  PROVE  Ends(n, F, vs1, words1, said)
<1> DEFINE Each(m) == \A v, w : Says(F \o Holes(m), v, w, said) => Ends(m, F, v, w, said)
           S == {m \in 0 .. n : Each(m)}
<1>1. Each(0)
  <2> SUFFICES ASSUME NEW v, NEW w, Says(F \o Holes(0), v, w, said)  PROVE Ends(0, F, v, w, said)
    OBVIOUS
  <2>1. Says(F, v, w, said)
    BY HolesAre
  <2>2. v \in Seq(Valued(said)) /\ w \in Seq(Lexemes)
    BY <2>1, SaysIn
  <2>3. v \o <<>> = v /\ w \o AllSaid(said, <<>>) = w /\ Len(<<>>) = 0
        /\ <<>> \in Seq(Valued(said))
    BY <2>2, NoneSaid, ConcatEmptySeq
  <2> QED
    BY <2>1, <2>2, <2>3 DEF Ends
<1>2. ASSUME NEW m \in 1 .. n, Each(m - 1)  PROVE Each(m)
  <2> SUFFICES ASSUME NEW v, NEW w, Says(F \o Holes(m), v, w, said)  PROVE Ends(m, F, v, w, said)
    OBVIOUS
  <2>1. PICK k \in Nat : k = m - 1 /\ k + 1 = m
    OBVIOUS
  <2>2. Says(F \o Holes(k + 1), v, w, said)
    BY <2>1
  <2>3. \A v1, w1 : Says(F \o Holes(k), v1, w1, said) => Ends(k, F, v1, w1, said)
    BY <1>2, <2>1
  <2>4. Ends(k + 1, F, v, w, said)
    BY <2>2, <2>3, HoleBefore
  <2> QED
    BY <2>1, <2>4
<1> HIDE DEF Each
<1>3. 0 \in S /\ \A m \in 1 .. n : m - 1 \in S => m \in S
  BY <1>1, <1>2
<1>4. n \in S
  <2> HIDE DEF S
  <2>1. 0 .. n \subseteq S
    BY <1>3, UpTo
  <2>2. n \in 0 .. n
    OBVIOUS
  <2> QED
    BY <2>1, <2>2
<1>5. Each(n)
  BY <1>4
<1> QED
  BY <1>5 DEF Each

-----------------------------------------------------------------------------
(* What ends with the values ps and the lexemes w, and before them F.      *)
Ended(F, vs1, words1, ps, w, said) ==
  \E vs \in Seq(Valued(said)), words \in Seq(Lexemes) :
    Says(F, vs, words, said) /\ Joined(vs1, vs, ps) /\ Joined(words1, words, w)

LEMMA JoinedTwice ==
  ASSUME NEW S, NEW s \in Seq(S), NEW t \in Seq(S), NEW u \in Seq(S), NEW all, NEW half,
         Joined(all, half, u), Joined(half, s, t)
  PROVE  Joined(all, s, t \o u) /\ t \o u \in Seq(S)
<1>1. (s \o t) \o u = s \o (t \o u)
  BY ConcatAssociative
<1> QED
  BY <1>1, ConcatProperties DEF Joined

LEMMA JoinedNone ==
  ASSUME NEW S, NEW s \in Seq(S)
  PROVE  Joined(s, s, <<>>)
BY ConcatEmptySeq DEF Joined

LEMMA AppendJoins ==
  ASSUME NEW S, NEW s \in Seq(S), NEW y \in S, NEW t, t = Append(s, y)
  PROVE  Joined(t, s, <<y>>) /\ <<y>> \in Seq(S)
BY AppendIsConcat DEF Joined

LEMMA EndedFirst ==
  ASSUME NEW F \in Seq(Slots), NEW vs1, NEW words1, NEW said, Says(F, vs1, words1, said)
  PROVE  Ended(F, vs1, words1, <<>>, <<>>, said)
<1>1. vs1 \in Seq(Valued(said)) /\ words1 \in Seq(Lexemes)
  BY SaysIn
<1> QED
  BY <1>1, JoinedNone DEF Ended

LEMMA EndedWord ==
  ASSUME NEW F \in Seq(Slots), NEW x \in Words, NEW vs1, NEW words1, NEW said,
         NEW ps, NEW w \in Seq(Lexemes),
         Ended(Append(F, x), vs1, words1, ps, w, said)
  PROVE  /\ Ended(F, vs1, words1, ps, <<x>> \o w, said)
         /\ <<x>> \o w \in Seq(Lexemes)
<1>1. PICK vs \in Seq(Valued(said)), words \in Seq(Lexemes) :
        /\ Says(Append(F, x), vs, words, said)
        /\ Joined(vs1, vs, ps) /\ Joined(words1, words, w)
  BY DEF Ended
<1>2. PICK before \in Seq(Lexemes) : Says(F, vs, before, said) /\ words = Append(before, x)
  BY <1>1, WordBefore
<1>3. x \in Lexemes
  BY WordsAre
<1>4. Joined(words, before, <<x>>) /\ <<x>> \in Seq(Lexemes)
  BY <1>2, <1>3, AppendJoins
<1>5. Joined(words1, before, <<x>> \o w) /\ <<x>> \o w \in Seq(Lexemes)
  BY <1>1, <1>2, <1>4, JoinedTwice
<1> QED
  BY <1>1, <1>2, <1>5 DEF Ended

LEMMA EndedValue ==
  ASSUME NEW F \in Seq(Slots), NEW vs1, NEW words1, NEW said, Telling(said),
         NEW ps \in Seq(Valued(said)), NEW w \in Seq(Lexemes),
         Ended(Said(F), vs1, words1, ps, w, said)
  PROVE  \E y \in Valued(said) :
           /\ Ended(F, vs1, words1, <<y>> \o ps, PartSaid(said, y) \o w, said)
           /\ <<y>> \o ps \in Seq(Valued(said)) /\ PartSaid(said, y) \o w \in Seq(Lexemes)
<1>1. PICK vs \in Seq(Valued(said)), words \in Seq(Lexemes) :
        /\ Says(Said(F), vs, words, said)
        /\ Joined(vs1, vs, ps) /\ Joined(words1, words, w)
  BY DEF Ended
<1>2. PICK v \in Seq(Valued(said)), before \in Seq(Lexemes), y \in Valued(said) :
        Says(F, v, before, said) /\ Adds(y, v, before, vs, words, said)
  BY <1>1, ValueBefore
<1>3. Joined(vs, v, <<y>>) /\ <<y>> \in Seq(Valued(said))
  <2>1. vs = Append(v, y)
    BY <1>2 DEF Adds
  <2> QED
    BY <2>1, AppendJoins
<1>4. Joined(words, before, PartSaid(said, y)) /\ PartSaid(said, y) \in Seq(Lexemes)
  BY <1>2, PartIn DEF Adds, Joined
<1>5. Joined(vs1, v, <<y>> \o ps) /\ <<y>> \o ps \in Seq(Valued(said))
  BY <1>1, <1>2, <1>3, JoinedTwice
<1>6. Joined(words1, before, PartSaid(said, y) \o w) /\ PartSaid(said, y) \o w \in Seq(Lexemes)
  BY <1>1, <1>2, <1>4, JoinedTwice
<1>7. Ended(F, vs1, words1, <<y>> \o ps, PartSaid(said, y) \o w, said)
  BY <1>2, <1>5, <1>6 DEF Ended
<1> QED
  BY <1>5, <1>6, <1>7

LEMMA EndedHoles ==
  ASSUME NEW F \in Seq(Slots), NEW n \in Nat, NEW vs1, NEW words1, NEW said, Telling(said),
         NEW ps \in Seq(Valued(said)), NEW w \in Seq(Lexemes),
         Ended(F \o Holes(n), vs1, words1, ps, w, said)
  PROVE  \E qs \in Seq(Valued(said)) :
           /\ Len(qs) = n
           /\ Ended(F, vs1, words1, qs \o ps, AllSaid(said, qs) \o w, said)
           /\ qs \o ps \in Seq(Valued(said)) /\ AllSaid(said, qs) \o w \in Seq(Lexemes)
<1>1. PICK vs \in Seq(Valued(said)), words \in Seq(Lexemes) :
        /\ Says(F \o Holes(n), vs, words, said)
        /\ Joined(vs1, vs, ps) /\ Joined(words1, words, w)
  BY DEF Ended
<1>2. Ends(n, F, vs, words, said)
  BY <1>1, HolesBefore
<1>3. PICK v \in Seq(Valued(said)), qs \in Seq(Valued(said)), before \in Seq(Lexemes) :
        /\ Says(F, v, before, said) /\ Len(qs) = n
        /\ Joined(vs, v, qs) /\ Joined(words, before, AllSaid(said, qs))
  BY <1>2 DEF Ends, Joined
<1>4. AllSaid(said, qs) \in Seq(Lexemes)
  BY AllIn
<1>5. Joined(vs1, v, qs \o ps) /\ qs \o ps \in Seq(Valued(said))
  BY <1>1, <1>3, JoinedTwice
<1>6. /\ Joined(words1, before, AllSaid(said, qs) \o w)
      /\ AllSaid(said, qs) \o w \in Seq(Lexemes)
  BY <1>1, <1>3, <1>4, JoinedTwice
<1>7. Ended(F, vs1, words1, qs \o ps, AllSaid(said, qs) \o w, said)
  BY <1>3, <1>5, <1>6 DEF Ended
<1> QED
  BY <1>3, <1>5, <1>6, <1>7

-----------------------------------------------------------------------------
(* What a node is made from is what the node says, and no more.            *)
Node(class, parts) == [kind |-> class, parts |-> parts]

MadeOf(class, n, F, vs1, words1, said) ==
  \E ps \in Seq(Valued(said)) :
    /\ Len(ps) = n /\ NodeSaid(said, Node(class, ps)) \in Seq(Lexemes)
    /\ Ended(F, vs1, words1, ps, NodeSaid(said, Node(class, ps)), said)

Same(s, t) == s = t

LEMMA RegroupedThree ==
  ASSUME NEW S, NEW a \in Seq(S), NEW b \in Seq(S), NEW c \in Seq(S)
  PROVE  a \o (b \o c) = (a \o b) \o c
BY ConcatAssociative, SMTT(30)

LEMMA RegroupedSame ==
  ASSUME NEW S, NEW a \in Seq(S), NEW b \in Seq(S), NEW c \in Seq(S)
  PROVE  Same(a \o (b \o c), (a \o b) \o c)
BY RegroupedThree DEF Same

LEMMA RegroupedFour ==
  ASSUME NEW S, NEW a \in Seq(S), NEW b \in Seq(S), NEW c \in Seq(S), NEW d \in Seq(S)
  PROVE  Same(a \o (b \o (c \o (d \o <<>>))), ((a \o b) \o c) \o d)
<1> DEFINE bc == b \o c
<1>1. bc \in Seq(S)
  BY ConcatProperties
<1>2. b \o (c \o d) = bc \o d
  BY RegroupedThree, SMTT(30)
<1>3. a \o bc = (a \o b) \o c
  BY RegroupedThree
<1> HIDE DEF bc
<1>4. a \o (bc \o d) = (a \o bc) \o d
  BY <1>1, RegroupedThree, SMTT(30)
<1>5. d \o <<>> = d
  BY ConcatEmptySeq
<1>6. a \o (b \o (c \o (d \o <<>>))) = a \o (bc \o d)
  BY <1>2, <1>5
<1>7. (a \o bc) \o d = ((a \o b) \o c) \o d
  BY <1>3
<1> QED
  BY <1>4, <1>6, <1>7 DEF Same

LEMMA EndedSame ==
  ASSUME NEW F, NEW vs1, NEW words1, NEW ps, NEW said, NEW w, NEW w1, Same(w, w1),
         w \in Seq(Lexemes), Ended(F, vs1, words1, ps, w, said)
  PROVE  Ended(F, vs1, words1, ps, w1, said) /\ w1 \in Seq(Lexemes)
BY DEF Same

LEMMA TwoAre ==
  ASSUME NEW S, NEW x \in S, NEW y \in S
  PROVE  <<x, y>> = <<x>> \o <<y>> /\ <<x, y>> \in Seq(S) /\ <<x>> \in Seq(S)
<1> DEFINE u == <<x>>
           v == <<y>>
<1>1. u \in Seq(S) /\ Append(u, y) = <<x, y>> /\ <<x, y>> \in Seq(S)
  BY Longer2
<1>2. Append(u, y) = u \o v
  <2> HIDE DEF u
  <2> QED
    BY <1>1, AppendIsConcat
<1> QED
  BY <1>1, <1>2

LEMMA TwoWords ==
  ASSUME NEW x \in Words, NEW y \in Words
  PROVE  /\ <<x, y>> = <<x>> \o <<y>>
         /\ <<x, y>> \in Seq(Lexemes) /\ <<x>> \in Seq(Lexemes) /\ <<y>> \in Seq(Lexemes)
<1>1. x \in Lexemes /\ y \in Lexemes
  BY WordsAre
<1> QED
  BY <1>1, TwoAre

LEMMA PairIs ==
  ASSUME NEW S, NEW y \in S, NEW z \in S
  PROVE  /\ <<y>> \o (<<z>> \o <<>>) = <<y, z>> /\ <<y, z>> \in Seq(S) /\ Len(<<y, z>>) = 2
         /\ <<>> \in Seq(S)
<1> DEFINE u == <<z>>
<1>1. u \in Seq(S) /\ <<y>> \o u = <<y, z>>
  BY TwoAre
<1>2. u \o <<>> = u
  <2> HIDE DEF u
  <2> QED
    BY <1>1, ConcatEmptySeq
<1>3. <<y, z>> \in Seq(S) /\ Len(<<y, z>>) = 2 /\ <<>> \in Seq(S)
  OBVIOUS
<1> QED
  BY <1>1, <1>2, <1>3

LEMMA TreeNodeSays ==
  ASSUME NEW F \in Seq(Slots), NEW vs1, NEW words1, NEW said, Telling(said),
         Says(MadeFrom("TreeNode", 2, F), vs1, words1, said)
  PROVE  MadeOf("TreeNode", 2, F, vs1, words1, said)
<1> DEFINE G1 == Said(F)
           G2 == Append(G1, "(")
           G3 == Said(G2)
           G4 == Append(G3, ")")
<1>1. /\ G1 \in Seq(Slots) /\ G2 \in Seq(Slots) /\ G3 \in Seq(Slots) /\ G4 \in Seq(Slots)
      /\ "(" \in Words /\ ")" \in Words
  BY InSlots DEF Said, Slots, Marks, Words
<1>2. Says(G4, vs1, words1, said)
  BY DEF MadeFrom, Said
<1> HIDE DEF G1, G2, G3, G4
<1> DEFINE V == Seq(Valued(said))
           none == <<>>
<1>3. Ended(G4, vs1, words1, none, none, said) /\ none \in V /\ none \in Seq(Lexemes)
  BY <1>1, <1>2, EndedFirst
<1> HIDE DEF none
<1>4. /\ Ended(G3, vs1, words1, none, <<")">> \o none, said)
      /\ <<")">> \o none \in Seq(Lexemes)
  BY <1>1, <1>3, EndedWord DEF G4
<1>5. PICK z \in Valued(said) :
        /\ Ended(G2, vs1, words1, <<z>> \o none, PartSaid(said, z) \o (<<")">> \o none), said)
        /\ <<z>> \o none \in V /\ PartSaid(said, z) \o (<<")">> \o none) \in Seq(Lexemes)
  BY <1>1, <1>3, <1>4, EndedValue DEF G3
<1>6. /\ Ended(G1, vs1, words1, <<z>> \o none,
               <<"(">> \o (PartSaid(said, z) \o (<<")">> \o none)), said)
      /\ <<"(">> \o (PartSaid(said, z) \o (<<")">> \o none)) \in Seq(Lexemes)
  BY <1>1, <1>5, EndedWord DEF G2
<1>7. PICK y \in Valued(said) :
        /\ Ended(F, vs1, words1, <<y>> \o (<<z>> \o none),
             PartSaid(said, y) \o (<<"(">> \o (PartSaid(said, z) \o (<<")">> \o none))), said)
        /\ PartSaid(said, y) \o (<<"(">> \o (PartSaid(said, z) \o (<<")">> \o none)))
             \in Seq(Lexemes)
  BY <1>1, <1>5, <1>6, EndedValue DEF G1
<1> DEFINE ps == <<y, z>>
           p == PartSaid(said, y)
           q == PartSaid(said, z)
           o == <<"(">>
           c == <<")">>
<1>8. <<y>> \o (<<z>> \o none) = ps /\ ps \in V /\ Len(ps) = 2 /\ ps[1] = y /\ ps[2] = z
  BY PairIs DEF none
<1>9. /\ p \in Seq(Lexemes) /\ q \in Seq(Lexemes)
      /\ o \in Seq(Lexemes) /\ c \in Seq(Lexemes)
  BY <1>1, PartIn, TwoWords
<1>10. NodeSaid(said, Node("TreeNode", ps)) = ((p \o o) \o q) \o c
  BY <1>8 DEF NodeSaid, Node
<1> HIDE DEF ps, p, q, o, c
<1>11. Same(p \o (o \o (q \o (c \o none))), ((p \o o) \o q) \o c)
  BY <1>9, RegroupedFour DEF none
<1>12. Ended(F, vs1, words1, ps, p \o (o \o (q \o (c \o none))), said)
  BY <1>7, <1>8 DEF p, q, o, c
<1>13. /\ Ended(F, vs1, words1, ps, NodeSaid(said, Node("TreeNode", ps)), said)
       /\ NodeSaid(said, Node("TreeNode", ps)) \in Seq(Lexemes)
  <2>1. p \o (o \o (q \o (c \o none))) \in Seq(Lexemes)
    BY <1>7 DEF p, q, o, c
  <2>2. /\ Ended(F, vs1, words1, ps, ((p \o o) \o q) \o c, said)
        /\ ((p \o o) \o q) \o c \in Seq(Lexemes)
    BY <1>11, <1>12, <2>1, EndedSame
  <2> QED
    BY <1>10, <2>2
<1> QED
  BY <1>8, <1>13 DEF MadeOf

(* The same for the other nodes with lexemes of their own.                 *)
LEMMA RegroupedPair ==
  ASSUME NEW S, NEW a \in Seq(S), NEW b \in Seq(S), NEW c \in Seq(S), NEW d \in Seq(S),
         NEW e \in Seq(S)
  PROVE  Same(a \o (b \o (c \o (d \o (e \o <<>>)))), ((a \o b) \o (c \o d)) \o e)
<1> DEFINE cd == c \o d
           g == e \o <<>>
<1>1. cd \in Seq(S) /\ g \in Seq(S)
  BY ConcatProperties, ConcatEmptySeq
<1>2. Same(a \o (b \o (cd \o (e \o <<>>))), ((a \o b) \o cd) \o e)
  BY <1>1, RegroupedFour
<1>3. Same(c \o (d \o g), cd \o g)
  <2> HIDE DEF g
  <2> QED
    BY <1>1, RegroupedSame
<1> QED
  BY <1>2, <1>3 DEF Same

LEMMA RegroupedFive ==
  ASSUME NEW S, NEW a \in Seq(S), NEW b \in Seq(S), NEW c \in Seq(S), NEW d \in Seq(S),
         NEW e \in Seq(S)
  PROVE  Same(a \o (b \o (c \o (d \o (e \o <<>>)))), (((a \o b) \o c) \o d) \o e)
<1> DEFINE ab == a \o b
<1>1. ab \in Seq(S)
  BY ConcatProperties
<1>2. Same(a \o (b \o (c \o (d \o (e \o <<>>)))), (ab \o (c \o d)) \o e)
  BY RegroupedPair
<1>3. Same(ab \o (c \o d), (ab \o c) \o d)
  <2> HIDE DEF ab
  <2> QED
    BY <1>1, RegroupedSame
<1> QED
  BY <1>2, <1>3 DEF Same

LEMMA RegroupedList ==
  ASSUME NEW S, NEW a \in Seq(S), NEW b \in Seq(S), NEW c \in Seq(S), NEW d \in Seq(S),
         NEW e \in Seq(S), NEW f \in Seq(S), NEW g \in Seq(S)
  PROVE  Same(a \o (b \o (c \o (d \o (e \o (f \o (g \o <<>>)))))),
              ((((a \o b) \o c) \o (d \o e)) \o f) \o g)
<1> DEFINE ab == a \o b
           de == d \o e
           x == f \o (g \o <<>>)
           y == c \o (de \o x)
<1>1. ab \in Seq(S) /\ de \in Seq(S)
  BY ConcatProperties
<1>2. x \in Seq(S)
  BY ConcatEmptySeq, ConcatProperties
<1>3. Same(d \o (e \o x), de \o x)
  <2> HIDE DEF x
  <2> QED
    BY <1>2, RegroupedSame
<1>4. y \in Seq(S)
  <2> HIDE DEF de, x
  <2> QED
    BY <1>1, <1>2, ConcatProperties
<1>5. Same(a \o (b \o y), ab \o y)
  <2> HIDE DEF y
  <2> QED
    BY <1>4, RegroupedSame
<1>6. Same(ab \o (c \o (de \o (f \o (g \o <<>>)))), (((ab \o c) \o de) \o f) \o g)
  <2> HIDE DEF ab, de
  <2> QED
    BY <1>1, RegroupedFive
<1> QED
  BY <1>3, <1>5, <1>6 DEF Same

LEMMA NodeArgSays ==
  ASSUME NEW F \in Seq(Slots), NEW vs1, NEW words1, NEW said, Telling(said),
         Says(MadeFrom("NodeArg", 2, F), vs1, words1, said)
  PROVE  MadeOf("NodeArg", 2, F, vs1, words1, said)
<1> DEFINE G1 == Append(F, ".")
           G2 == Said(G1)
           G3 == Append(G2, "=")
           G4 == Said(G3)
<1>1. /\ G1 \in Seq(Slots)
      /\ G2 \in Seq(Slots)
      /\ G3 \in Seq(Slots)
      /\ G4 \in Seq(Slots)
      /\ "." \in Words /\ "=" \in Words
  BY InSlots DEF Said, Slots, Marks, Words
<1>2. Says(G4, vs1, words1, said)
  BY DEF MadeFrom, Said
<1> HIDE DEF G1, G2, G3, G4
<1> DEFINE V == Seq(Valued(said))
           none == <<>>
<1>3. Ended(G4, vs1, words1, none, none, said) /\ none \in V /\ none \in Seq(Lexemes)
  BY <1>1, <1>2, EndedFirst
<1> HIDE DEF none
<1>4. PICK z \in Valued(said) :
        /\ Ended(G3, vs1, words1, <<z>> \o none,
             PartSaid(said, z) \o none, said)
        /\ <<z>> \o none \in V
        /\ PartSaid(said, z) \o none \in Seq(Lexemes)
  BY <1>1, <1>3, EndedValue DEF G4
<1>5. /\ Ended(G2, vs1, words1, <<z>> \o none,
               <<"=">> \o (PartSaid(said, z) \o none), said)
      /\ <<"=">> \o (PartSaid(said, z) \o none) \in Seq(Lexemes)
  BY <1>1, <1>4, EndedWord DEF G3
<1>6. PICK y \in Valued(said) :
        /\ Ended(G1, vs1, words1, <<y>> \o (<<z>> \o none),
             PartSaid(said, y) \o (<<"=">> \o (PartSaid(said, z) \o none)), said)
        /\ <<y>> \o (<<z>> \o none) \in V
        /\ PartSaid(said, y) \o (<<"=">> \o (PartSaid(said, z) \o none)) \in Seq(Lexemes)
  BY <1>1, <1>4, <1>5, EndedValue DEF G2
<1>7. /\ Ended(F, vs1, words1, <<y>> \o (<<z>> \o none),
               <<".">> \o (PartSaid(said, y) \o (<<"=">> \o (PartSaid(said, z) \o none))), said)
      /\ <<".">> \o (PartSaid(said, y) \o (<<"=">> \o (PartSaid(said, z) \o none))) \in Seq(Lexemes)
  BY <1>1, <1>6, EndedWord DEF G1
<1> DEFINE ps == <<y, z>>
           d == <<".">>
           p == PartSaid(said, y)
           e == <<"=">>
           q == PartSaid(said, z)
<1>8. <<y>> \o (<<z>> \o none) = ps /\ ps \in V /\ Len(ps) = 2 /\ ps[1] = y /\ ps[2] = z
  BY PairIs DEF none
<1>9. /\ d \in Seq(Lexemes)
       /\ p \in Seq(Lexemes)
       /\ e \in Seq(Lexemes)
       /\ q \in Seq(Lexemes)
  BY <1>1, PartIn, TwoWords
<1>10. NodeSaid(said, Node("NodeArg", ps)) = ((d \o p) \o e) \o q
  BY <1>1, <1>8, TwoWords DEF NodeSaid, Node
<1> HIDE DEF ps, d, p, e, q
<1>11. Same(d \o (p \o (e \o (q \o none))), ((d \o p) \o e) \o q)
  BY <1>9, RegroupedFour DEF none
<1>12. /\ Ended(F, vs1, words1, ps, d \o (p \o (e \o (q \o none))), said)
       /\ d \o (p \o (e \o (q \o none))) \in Seq(Lexemes)
  BY <1>7, <1>8 DEF d, p, e, q
<1>13. /\ Ended(F, vs1, words1, ps, ((d \o p) \o e) \o q, said)
       /\ ((d \o p) \o e) \o q \in Seq(Lexemes)
  BY <1>11, <1>12, EndedSame
<1> QED
  BY <1>8, <1>10, <1>13 DEF MadeOf

LEMMA ListElemSays ==
  ASSUME NEW F \in Seq(Slots), NEW vs1, NEW words1, NEW said, Telling(said),
         Says(MadeFrom("ListElem", 2, F), vs1, words1, said)
  PROVE  MadeOf("ListElem", 2, F, vs1, words1, said)
<1> DEFINE G1 == Append(F, "[")
           G2 == Said(G1)
           G3 == Append(G2, "]")
           G4 == Append(G3, "=")
           G5 == Said(G4)
<1>1. /\ G1 \in Seq(Slots)
      /\ G2 \in Seq(Slots)
      /\ G3 \in Seq(Slots)
      /\ G4 \in Seq(Slots)
      /\ G5 \in Seq(Slots)
      /\ "=" \in Words /\ "[" \in Words /\ "]" \in Words
  BY InSlots DEF Said, Slots, Marks, Words
<1>2. Says(G5, vs1, words1, said)
  BY DEF MadeFrom, Said
<1> HIDE DEF G1, G2, G3, G4, G5
<1> DEFINE V == Seq(Valued(said))
           none == <<>>
<1>3. Ended(G5, vs1, words1, none, none, said) /\ none \in V /\ none \in Seq(Lexemes)
  BY <1>1, <1>2, EndedFirst
<1> HIDE DEF none
<1>4. PICK z \in Valued(said) :
        /\ Ended(G4, vs1, words1, <<z>> \o none,
             PartSaid(said, z) \o none, said)
        /\ <<z>> \o none \in V
        /\ PartSaid(said, z) \o none \in Seq(Lexemes)
  BY <1>1, <1>3, EndedValue DEF G5
<1>5. /\ Ended(G3, vs1, words1, <<z>> \o none,
               <<"=">> \o (PartSaid(said, z) \o none), said)
      /\ <<"=">> \o (PartSaid(said, z) \o none) \in Seq(Lexemes)
  BY <1>1, <1>4, EndedWord DEF G4
<1>6. /\ Ended(G2, vs1, words1, <<z>> \o none,
               <<"]">> \o (<<"=">> \o (PartSaid(said, z) \o none)), said)
      /\ <<"]">> \o (<<"=">> \o (PartSaid(said, z) \o none)) \in Seq(Lexemes)
  <2> DEFINE w == <<"=">> \o (PartSaid(said, z) \o none)
  <2>1. Ended(G3, vs1, words1, <<z>> \o none, w, said) /\ w \in Seq(Lexemes)
    BY <1>5
  <2> HIDE DEF w
  <2>2. Ended(G2, vs1, words1, <<z>> \o none, <<"]">> \o w, said) /\ <<"]">> \o w \in Seq(Lexemes)
    BY <1>1, <2>1, EndedWord DEF G3
  <2> QED
    BY <2>2 DEF w
<1>7. PICK y \in Valued(said) :
        /\ Ended(G1, vs1, words1, <<y>> \o (<<z>> \o none),
             PartSaid(said, y) \o (<<"]">> \o (<<"=">> \o (PartSaid(said, z) \o none))), said)
        /\ <<y>> \o (<<z>> \o none) \in V
        /\ PartSaid(said, y) \o (<<"]">> \o (<<"=">> \o (PartSaid(said, z) \o none))) \in Seq(Lexemes)
  BY <1>1, <1>4, <1>6, EndedValue DEF G2
<1>8. /\ Ended(F, vs1, words1, <<y>> \o (<<z>> \o none),
               <<"[">> \o (PartSaid(said, y) \o (<<"]">> \o (<<"=">> \o (PartSaid(said, z) \o none)))), said)
      /\ <<"[">> \o (PartSaid(said, y) \o (<<"]">> \o (<<"=">> \o (PartSaid(said, z) \o none)))) \in Seq(Lexemes)
  BY <1>1, <1>7, EndedWord DEF G1
<1> DEFINE ps == <<y, z>>
           o == <<"[">>
           p == PartSaid(said, y)
           c == <<"]">>
           e == <<"=">>
           q == PartSaid(said, z)
<1>9. <<y>> \o (<<z>> \o none) = ps /\ ps \in V /\ Len(ps) = 2 /\ ps[1] = y /\ ps[2] = z
  BY PairIs DEF none
<1>10. /\ o \in Seq(Lexemes)
       /\ p \in Seq(Lexemes)
       /\ c \in Seq(Lexemes)
       /\ e \in Seq(Lexemes)
       /\ q \in Seq(Lexemes)
  BY <1>1, PartIn, TwoWords
<1>11. NodeSaid(said, Node("ListElem", ps)) = ((o \o p) \o (c \o e)) \o q
  BY <1>1, <1>9, TwoWords DEF NodeSaid, Node
<1> HIDE DEF ps, o, p, c, e, q
<1>12. Same(o \o (p \o (c \o (e \o (q \o none)))), ((o \o p) \o (c \o e)) \o q)
  BY <1>10, RegroupedPair DEF none
<1>13. /\ Ended(F, vs1, words1, ps, o \o (p \o (c \o (e \o (q \o none)))), said)
       /\ o \o (p \o (c \o (e \o (q \o none)))) \in Seq(Lexemes)
  BY <1>8, <1>9 DEF o, p, c, e, q
<1>14. /\ Ended(F, vs1, words1, ps, ((o \o p) \o (c \o e)) \o q, said)
       /\ ((o \o p) \o (c \o e)) \o q \in Seq(Lexemes)
  BY <1>12, <1>13, EndedSame
<1> QED
  BY <1>9, <1>11, <1>14 DEF MadeOf

LEMMA ListWords ==
  ASSUME NEW said, Telling(said), NEW y \in Valued(said), NEW qs \in Seq(Valued(said)),
         NEW ps \in Seq(Valued(said)), ps = <<y>> \o qs
  PROVE  Same(<<"list">> \o (<<"<">> \o (PartSaid(said, y) \o (<<">">> \o (<<"[">> \o
                (AllSaid(said, qs) \o (<<"]">> \o <<>>)))))),
              NodeSaid(said, Node("NodeList", ps)))
<1> DEFINE a == <<"list">>
           b == <<"<">>
           c == PartSaid(said, y)
           d == <<">">>
           e == <<"[">>
           f == AllSaid(said, qs)
           g == <<"]">>
<1>1. /\ a \in Seq(Lexemes) /\ b \in Seq(Lexemes) /\ d \in Seq(Lexemes)
      /\ e \in Seq(Lexemes) /\ g \in Seq(Lexemes)
      /\ a \o b = <<"list", "<">> /\ d \o e = <<">", "[">>
  <2>1. "list" \in Words /\ "<" \in Words /\ ">" \in Words /\ "[" \in Words /\ "]" \in Words
    BY DEF Words, Marks
  <2> QED
    BY <2>1, TwoWords
<1>2. c \in Seq(Lexemes) /\ f \in Seq(Lexemes)
  BY PartIn, AllIn
<1>3. ps[1] = y /\ Tail(ps) = qs
  <2>1. ps # <<>> /\ Head(ps) = y /\ Tail(ps) = qs
    BY Joined1
  <2> QED
    BY <2>1
<1>4. NodeSaid(said, Node("NodeList", ps)) = ((((a \o b) \o c) \o (d \o e)) \o f) \o g
  <2>1. Node("NodeList", ps).kind = "NodeList" /\ Node("NodeList", ps).parts = ps
    BY DEF Node
  <2>2. NodeSaid(said, Node("NodeList", ps))
          = <<"list", "<">> \o PartSaid(said, ps[1]) \o <<">", "[">>
              \o AllSaid(said, Tail(ps)) \o <<"]">>
    BY <2>1 DEF NodeSaid
  <2> QED
    BY <1>1, <1>3, <2>2
<1> HIDE DEF a, b, c, d, e, f, g
<1>5. Same(a \o (b \o (c \o (d \o (e \o (f \o (g \o <<>>)))))),
           ((((a \o b) \o c) \o (d \o e)) \o f) \o g)
  BY <1>1, <1>2, RegroupedList
<1>6. Same(a \o (b \o (c \o (d \o (e \o (f \o (g \o <<>>)))))),
           NodeSaid(said, Node("NodeList", ps)))
  BY <1>4, <1>5
<1> QED
  BY <1>6 DEF a, b, c, d, e, f, g

LEMMA NodeListSays ==
  ASSUME NEW F \in Seq(Slots), NEW n \in Nat, n >= 1, NEW vs1, NEW words1, NEW said, Telling(said),
         Says(MadeFrom("NodeList", n, F), vs1, words1, said)
  PROVE  MadeOf("NodeList", n, F, vs1, words1, said)
<1> DEFINE G1 == Append(F, "list")
           G2 == Append(G1, "<")
           G3 == Said(G2)
           G4 == Append(G3, ">")
           G5 == Append(G4, "[")
           G6 == G5 \o Holes(n - 1)
           G7 == Append(G6, "]")
           V == Seq(Valued(said))
           none == <<>>
<1>1. /\ G1 \in Seq(Slots) /\ G2 \in Seq(Slots) /\ G3 \in Seq(Slots) /\ G4 \in Seq(Slots)
      /\ "list" \in Words /\ "<" \in Words /\ ">" \in Words /\ "[" \in Words /\ "]" \in Words
  BY InSlots DEF Said, Slots, Marks, Words
<1>2. G5 \in Seq(Slots) /\ n - 1 \in Nat
  <2> HIDE DEF G4
  <2> QED
    BY <1>1, InSlots DEF Slots, Marks
<1>3. G6 \in Seq(Slots)
  <2> HIDE DEF G5
  <2> QED
    BY <1>2, InSlots
<1>4. Says(G7, vs1, words1, said)
  BY DEF MadeFrom, ListStart, Said
<1> HIDE DEF G1, G2, G3, G4, G5, G6, G7
<1>5. G7 \in Seq(Slots)
  BY <1>3, InSlots DEF G7, Slots, Marks
<1>6. Ended(G7, vs1, words1, none, none, said) /\ none \in V /\ none \in Seq(Lexemes)
  BY <1>4, <1>5, EndedFirst
<1> HIDE DEF none
<1> DEFINE w7 == <<"]">> \o none
<1>7. Ended(G6, vs1, words1, none, w7, said) /\ w7 \in Seq(Lexemes)
  BY <1>1, <1>3, <1>6, EndedWord DEF G7
<1> HIDE DEF w7
<1>8. PICK qs \in V :
        /\ Len(qs) = n - 1
        /\ Ended(G5, vs1, words1, qs \o none, AllSaid(said, qs) \o w7, said)
        /\ AllSaid(said, qs) \o w7 \in Seq(Lexemes)
  BY <1>2, <1>6, <1>7, EndedHoles DEF G6
<1>9. qs \o none = qs
  BY ConcatEmptySeq DEF none
<1> DEFINE w6 == AllSaid(said, qs) \o w7
<1>10. Ended(G5, vs1, words1, qs, w6, said) /\ w6 \in Seq(Lexemes)
  BY <1>8, <1>9
<1> HIDE DEF w6
<1> DEFINE w5 == <<"[">> \o w6
<1>11. Ended(G4, vs1, words1, qs, w5, said) /\ w5 \in Seq(Lexemes)
  BY <1>1, <1>10, EndedWord DEF G5
<1> HIDE DEF w5
<1> DEFINE w4 == <<">">> \o w5
<1>12. Ended(G3, vs1, words1, qs, w4, said) /\ w4 \in Seq(Lexemes)
  BY <1>1, <1>11, EndedWord DEF G4
<1> HIDE DEF w4
<1>13. PICK y \in Valued(said) :
         /\ Ended(G2, vs1, words1, <<y>> \o qs, PartSaid(said, y) \o w4, said)
         /\ <<y>> \o qs \in V /\ PartSaid(said, y) \o w4 \in Seq(Lexemes)
  BY <1>1, <1>8, <1>12, EndedValue DEF G3
<1> DEFINE w3 == PartSaid(said, y) \o w4
           ps == <<y>> \o qs
<1>14. /\ Ended(G2, vs1, words1, ps, w3, said) /\ w3 \in Seq(Lexemes) /\ ps \in V
  BY <1>13
<1>15. Len(ps) = n
  <2>1. <<y>> \in V /\ Len(<<y>>) = 1 /\ Len(qs) \in Nat
    BY LenProperties
  <2> QED
    BY <1>8, <2>1, ConcatProperties
<1> HIDE DEF w3
<1> DEFINE w2 == <<"<">> \o w3
<1>16. Same(<<"list">> \o w2, NodeSaid(said, Node("NodeList", ps)))
  BY <1>8, <1>14, ListWords DEF w2, w3, w4, w5, w6, w7, none
<1> HIDE DEF ps
<1>17. Ended(G1, vs1, words1, ps, w2, said) /\ w2 \in Seq(Lexemes)
  BY <1>1, <1>14, EndedWord DEF G2
<1> HIDE DEF w2
<1> DEFINE w1 == <<"list">> \o w2
<1>18. Ended(F, vs1, words1, ps, w1, said) /\ w1 \in Seq(Lexemes)
  BY <1>1, <1>17, EndedWord DEF G1
<1>19. /\ Ended(F, vs1, words1, ps, NodeSaid(said, Node("NodeList", ps)), said)
       /\ NodeSaid(said, Node("NodeList", ps)) \in Seq(Lexemes)
  BY <1>16, <1>18, EndedSame
<1> QED
  BY <1>14, <1>15, <1>19 DEF MadeOf

LEMMA PlainSays ==
  ASSUME NEW class, class \notin {"TreeNode", "NodeArg", "ListElem", "NodeList"},
         NEW F \in Seq(Slots), NEW n \in Nat, NEW vs1, NEW words1, NEW said, Telling(said),
         Says(MadeFrom(class, n, F), vs1, words1, said)
  PROVE  MadeOf(class, n, F, vs1, words1, said)
<1>1. Says(F \o Holes(n), vs1, words1, said)
  BY DEF MadeFrom
<1>2. PICK vs \in Seq(Valued(said)), ps \in Seq(Valued(said)), words \in Seq(Lexemes) :
        /\ Says(F, vs, words, said) /\ Len(ps) = n
        /\ Joined(vs1, vs, ps) /\ Joined(words1, words, AllSaid(said, ps))
  <2>1. Ends(n, F, vs1, words1, said)
    BY <1>1, HolesBefore
  <2> QED
    BY <2>1 DEF Ends, Joined
<1>3. NodeSaid(said, Node(class, ps)) = AllSaid(said, ps) /\ AllSaid(said, ps) \in Seq(Lexemes)
  BY AllIn DEF NodeSaid, Node
<1>4. Ended(F, vs1, words1, ps, NodeSaid(said, Node(class, ps)), said)
  BY <1>2, <1>3 DEF Ended
<1> QED
  BY <1>2, <1>3, <1>4 DEF MadeOf

(* Whatever the class is.                                                  *)
LEMMA ClassSays ==
  ASSUME NEW class, NEW n \in Nat, PartsOf(class, n),
         NEW F \in Seq(Slots), NEW vs1, NEW words1, NEW said, Telling(said),
         Says(MadeFrom(class, n, F), vs1, words1, said)
  PROVE  MadeOf(class, n, F, vs1, words1, said)
<1>1. CASE class = "TreeNode"
  BY <1>1, TreeNodeSays DEF PartsOf
<1>2. CASE class = "NodeArg"
  BY <1>2, NodeArgSays DEF PartsOf
<1>3. CASE class = "ListElem"
  BY <1>3, ListElemSays DEF PartsOf
<1>4. CASE class = "NodeList"
  BY <1>4, NodeListSays DEF PartsOf
<1>5. CASE class \notin {"TreeNode", "NodeArg", "ListElem", "NodeList"}
  BY <1>5, PlainSays
<1> QED
  BY <1>1, <1>2, <1>3, <1>4, <1>5

-----------------------------------------------------------------------------
(* A node says the same when its parts do.                                 *)
LEMMA AllSaidSame ==
  ASSUME NEW s, NEW f, NEW g, \A k \in DOMAIN s : PartSaid(f, s[k]) = PartSaid(g, s[k])
  PROVE  AllSaid(f, s) = AllSaid(g, s)
<1>1. [k \in DOMAIN s |-> PartSaid(f, s[k])] = [k \in DOMAIN s |-> PartSaid(g, s[k])]
  OBVIOUS
<1> QED
  BY <1>1 DEF AllSaid

LEMMA NodeSame ==
  ASSUME NEW S, NEW x, x.parts \in Seq(S), PartsOf(x.kind, Len(x.parts)), NEW f, NEW g,
         \A k \in DOMAIN x.parts : PartSaid(f, x.parts[k]) = PartSaid(g, x.parts[k])
  PROVE  NodeSaid(f, x) = NodeSaid(g, x)
<1> DEFINE s == x.parts
<1>1. s \in Seq(S) /\ DOMAIN s = 1 .. Len(s) /\ Len(s) \in Nat
  BY LenProperties
<1>2. CASE x.kind \in {"TreeNode", "NodeArg", "ListElem"}
  <2>1. 1 \in DOMAIN s /\ 2 \in DOMAIN s
    <3>1. Len(s) = 2
      BY <1>2 DEF PartsOf
    <3> HIDE DEF s
    <3> QED
      BY <1>1, <3>1
  <2>2. PartSaid(f, s[1]) = PartSaid(g, s[1]) /\ PartSaid(f, s[2]) = PartSaid(g, s[2])
    BY <2>1
  <2> QED
    BY <1>2, <2>2 DEF NodeSaid
<1>3. CASE x.kind = "NodeList"
  <2>1. 1 \in DOMAIN s /\ s # <<>>
    BY <1>1, <1>3 DEF PartsOf
  <2>2. PartSaid(f, s[1]) = PartSaid(g, s[1])
    BY <2>1
  <2>3. ASSUME NEW k \in DOMAIN Tail(s)  PROVE PartSaid(f, Tail(s)[k]) = PartSaid(g, Tail(s)[k])
    <3> HIDE DEF s
    <3>1. Tail(s) \in Seq(S) /\ Len(Tail(s)) = Len(s) - 1
          /\ \A i \in 1 .. Len(Tail(s)) : Tail(s)[i] = s[i + 1]
      BY <1>1, <2>1, HeadTailProperties
    <3>2. k \in 1 .. Len(Tail(s))
      BY <3>1, LenProperties
    <3>3. Tail(s)[k] = s[k + 1] /\ k + 1 \in DOMAIN s
      BY <1>1, <3>1, <3>2
    <3> QED
      BY <3>3 DEF s
  <2> HIDE DEF s
  <2>4. AllSaid(f, Tail(s)) = AllSaid(g, Tail(s))
    BY <2>3, AllSaidSame
  <2> QED
    BY <1>3, <2>2, <2>4 DEF NodeSaid, s
<1>4. CASE x.kind \notin {"TreeNode", "NodeArg", "ListElem", "NodeList"}
  BY <1>4, AllSaidSame DEF NodeSaid
<1> QED
  BY <1>2, <1>3, <1>4

LEMMA PartSame ==
  ASSUME NEW f, NEW g, NEW y, IsNode(y) => f[y.node] = g[y.node]
  PROVE  PartSaid(f, y) = PartSaid(g, y)
BY DEF PartSaid

LEMMA NodeIs ==
  ASSUME NEW D, NEW y \in [node : D] \cup [text : Lexemes]
  PROVE  (IsNode(y) => y.node \in D) /\ (~IsNode(y) => y \in [text : Lexemes])
<1>1. CASE y \in [node : D]
  BY <1>1 DEF IsNode
<1>2. CASE y \in [text : Lexemes]
  BY <1>2 DEF IsNode
<1> QED
  BY <1>1, <1>2

(* The parts of the node i are as many as its class has, and older.        *)
Aged(x, i) ==
  /\ PartsOf(x.kind, Len(x.parts))
  /\ \A k \in DOMAIN x.parts : IsNode(x.parts[k]) => x.parts[k].node \in 1 .. i - 1

AllAged(S, ns, n) == \A i \in 1 .. n : ns[i].parts \in Seq(S) /\ Aged(ns[i], i)

(* There is one way to say each node.                                      *)
TellsEach(f, ns, n) == \A i \in 1 .. n : f[i] = NodeSaid(f, ns[i])

LEMMA ToldOnce ==
  ASSUME NEW S, NEW n \in Nat, NEW ns, NEW f, NEW g, TellsEach(f, ns, n), TellsEach(g, ns, n),
         AllAged(S, ns, n)
  PROVE  \A i \in 1 .. n : f[i] = g[i]
<1> DEFINE Each(m) == \A i \in 1 .. m : f[i] = g[i]
           T == {m \in 0 .. n : Each(m)}
<1>1. Each(0)
  OBVIOUS
<1>2. ASSUME NEW m \in 1 .. n, Each(m - 1)  PROVE Each(m)
  <2>1. ns[m].parts \in Seq(S) /\ Aged(ns[m], m)
    BY DEF AllAged
  <2>2. ASSUME NEW k \in DOMAIN ns[m].parts
        PROVE  PartSaid(f, ns[m].parts[k]) = PartSaid(g, ns[m].parts[k])
    <3>1. IsNode(ns[m].parts[k]) => f[ns[m].parts[k].node] = g[ns[m].parts[k].node]
      BY <1>2, <2>1 DEF Aged
    <3> QED
      BY <3>1, PartSame
  <2>3. NodeSaid(f, ns[m]) = NodeSaid(g, ns[m])
    BY <2>1, <2>2, NodeSame DEF Aged
  <2>4. f[m] = g[m]
    BY <2>3 DEF TellsEach
  <2> QED
    BY <1>2, <2>4
<1> HIDE DEF Each
<1>3. 0 \in T /\ \A m \in 1 .. n : m - 1 \in T => m \in T
  BY <1>1, <1>2
<1>4. n \in T
  <2> HIDE DEF T
  <2>1. 0 .. n \subseteq T
    BY <1>3, UpTo
  <2>2. n \in 0 .. n
    OBVIOUS
  <2> QED
    BY <2>1, <2>2
<1>5. Each(n)
  BY <1>4
<1> QED
  BY <1>5 DEF Each

LEMMA SpelledIs ==
  ASSUME NEW n \in Nat, NEW said \in [1 .. n -> Seq(Lexemes)], TellsEach(said, nodes, n)
  PROVE  \E f : Spelled(n) = f /\ TellsEach(f, nodes, n)
<1> DEFINE P(f) == f = [i \in 1 .. n |-> NodeSaid(f, nodes[i])]
           c == CHOOSE f : P(f)
<1>1. P(said)
  BY DEF TellsEach
<1>2. P(c)
  <2> HIDE DEF P
  <2> QED
    BY <1>1
<1>3. Spelled(n) = c
  BY DEF Spelled
<1> HIDE DEF c
<1>4. TellsEach(c, nodes, n)
  BY <1>2 DEF TellsEach
<1> QED
  BY <1>3, <1>4

-----------------------------------------------------------------------------
(* What was read is said: all before the lookahead by the values, the text *)
(* kept in prev_tok and the root, and nodes by their parts.                *)
ReadBefore == IF read = <<>> THEN <<>> ELSE Front(read)

Tales == {said \in [1 .. Len(nodes) -> Seq(Lexemes)] : TellsEach(said, nodes, Len(nodes))}

Apart(kept, said) ==
  CASE kept = "text" -> <<prev.lex>>
    [] kept = "root" -> said[root]
    [] OTHER         -> <<>>

Told(p, said) ==
  /\ p.kept = "root" => root # 0
  /\ \E words \in Seq(Lexemes) :
       Says(p.form, vals, words, said) /\ Joined(ReadBefore, words, Apart(p.kept, said))

SaysRead ==
  outcome = "running" =>
    \E p \in Stacks, said \in Tales : Spans(todo, p, AllSaidNow) /\ Told(p, said)

Older == \A i \in 1 .. Len(nodes) : Aged(nodes[i], i)

SInv == Older /\ SaysRead /\ AstSaysInput

-----------------------------------------------------------------------------
(* The next item, what it turns, and the items after it.                   *)
LEMMA SpansFirst ==
  ASSUME NEW s, NEW p, NEW r, Spans(s, p, r), s # <<>>
  PROVE  \E q \in Stacks : Step(Turning, Head(s), p, q) /\ Spans(Tail(s), q, r)
BY ChainFirst DEF Spans

LEMMA SpansBoth ==
  ASSUME NEW s, NEW t, NEW p, NEW q, NEW r, Spans(s, p, q), Spans(t, q, r)
  PROVE  Spans(s \o t, p, r)
BY ChainBoth DEF Spans

LEMMA NextTurns ==
  ASSUME SInv, NEW what, Running(what)
  PROVE  \E p, q \in Stacks, said \in Tales :
           /\ Told(p, said) /\ Turns(Head(todo), p, q) /\ Spans(Tail(todo), q, AllSaidNow)
           /\ Head(todo) \in Item /\ Head(todo).do = what
<1>1. PICK p \in Stacks, said \in Tales : Spans(todo, p, AllSaidNow) /\ Told(p, said)
  BY DEF SInv, SaysRead, Running
<1>2. PICK q \in Stacks : Step(Turning, Head(todo), p, q) /\ Spans(Tail(todo), q, AllSaidNow)
  BY <1>1, SpansFirst DEF Running
<1>3. Head(todo) \in Item /\ Turns(Head(todo), p, q)
  BY <1>2, IsTurning
<1> QED
  BY <1>1, <1>2, <1>3 DEF Running

LEMMA StackOf ==
  ASSUME NEW p \in Stacks
  PROVE  p.form \in Seq(Slots) /\ p.kept \in Kept /\ p = Stack(p.form, p.kept)
BY DEF Stacks, Stack

(* A step that goes on, and one that throws.                               *)
LEMMA SaysOn ==
  ASSUME NEW items, Go(items), NEW p \in Stacks, NEW q \in Stacks,
         Spans(items, p, q), Spans(Tail(todo), q, AllSaidNow),
         outcome' = "running", Older', \E said \in Tales' : Told(p, said)'
  PROVE  SInv'
<1>1. Spans(todo', p, AllSaidNow)
  BY SpansBoth DEF Go
<1>2. SaysRead'
  BY <1>1 DEF SaysRead
<1>3. AstSaysInput'
  BY DEF AstSaysInput
<1> QED
  BY <1>2, <1>3 DEF SInv

LEMMA SaysNoMore ==
  ASSUME SInv, NEW error \in Errors, Throw(error), UNCHANGED nodes
  PROVE  SInv'
<1>1. outcome' # "running" /\ outcome' # "parsed"
  BY DEF Throw, Errors
<1> QED
  BY <1>1 DEF SInv, Older, SaysRead, AstSaysInput

LEMMA SpansNone ==
  ASSUME NEW p \in Stacks
  PROVE  Spans(<<>>, p, p)
BY ChainOfNone DEF Spans

LEMMA SaysQuietly ==
  ASSUME SInv, NEW items, Go(items), NEW p \in Stacks, NEW q \in Stacks, NEW said \in Tales,
         Told(p, said), Spans(items, p, q), Spans(Tail(todo), q, AllSaidNow),
         outcome = "running", UNCHANGED <<read, prev, vals, nodes, root, outcome>>
  PROVE  SInv'
<1>1. said \in Tales' /\ Told(p, said)' /\ Older' /\ outcome' = "running"
  BY DEF SInv, Tales, Told, ReadBefore, Apart, Older
<1> QED
  BY <1>1, SaysOn

(* One more value from one.                                                *)
LEMMA TurnsOne ==
  ASSUME NEW w \in Item, w.do \in {"parse", "loop", "new"}, NEW p \in Stacks, NEW q \in Stacks,
         Turns(w, p, q)
  PROVE  \E F \in Seq(Slots) :
           /\ p = On(TurnedFrom(w, F)) /\ TurnedFrom(w, F) \in Seq(Slots) /\ q = On(Said(F))
           /\ w.do = "new" => PartsOf(w.arg, w.n)
<1>1. PICK F \in Seq(Slots) :
        /\ p.form = TurnedFrom(w, F) /\ q.form = Said(F)
        /\ p.kept = "nothing" /\ q.kept = "nothing"
        /\ w.do = "new" => PartsOf(w.arg, w.n)
  BY DEF Turns, Said
<1>2. p = On(TurnedFrom(w, F)) /\ q = On(Said(F)) /\ TurnedFrom(w, F) \in Seq(Slots)
  BY <1>1, StackOf DEF On
<1> QED
  BY <1>1, <1>2

(* A call is gone on with by what makes one value.                         *)
LEMMA ParseSays ==
  ASSUME SInv, Running("parse"), NEW items, Go(items),
         \A F \in Seq(Slots) : Spans(items, On(F), On(Said(F))),
         UNCHANGED <<read, prev, vals, nodes, root, outcome>>
  PROVE  SInv'
<1>1. PICK p, q \in Stacks, said \in Tales :
        /\ Told(p, said) /\ Turns(Head(todo), p, q) /\ Spans(Tail(todo), q, AllSaidNow)
        /\ Head(todo) \in Item /\ Head(todo).do = "parse"
  BY NextTurns
<1>2. PICK F \in Seq(Slots) : p = On(TurnedFrom(Head(todo), F)) /\ q = On(Said(F))
  BY <1>1, TurnsOne
<1>3. p = On(F)
  BY <1>1, <1>2 DEF TurnedFrom
<1>4. Spans(items, p, q)
  BY <1>2, <1>3
<1>5. outcome = "running"
  BY DEF Running
<1> QED
  BY <1>1, <1>4, <1>5, SaysQuietly

LEMMA CallSays == IInv /\ SInv /\ Call => SInv'
<1> SUFFICES ASSUME IInv, SInv, Call  PROVE SInv'
  OBVIOUS
<1> DEFINE sym == Head(todo).arg
<1>1. Running("parse") /\ Go(Body(sym)) /\ sym \notin {"node_args", "arg_value"}
  BY DEF Call, Calling
<1>2. Head(todo) \in Item /\ Head(todo).do = "parse"
  BY <1>1, NextTurns
<1>3. sym \in Symbols
  BY <1>2, ItemIs
<1>4. \A F \in Seq(Slots) : Spans(Body(sym), On(F), On(Said(F)))
  BY <1>1, <1>3, BodyTurns
<1>5. UNCHANGED <<read, prev, vals, nodes, root, outcome>>
  BY DEF Call
<1> QED
  BY <1>1, <1>4, <1>5, ParseSays

LEMMA NodeArgsSays == IInv /\ SInv /\ NodeArgs => SInv'
<1> SUFFICES ASSUME IInv, SInv, NodeArgs  PROVE SInv'
  OBVIOUS
<1>1. Running("parse") /\ UNCHANGED <<read, prev, vals, nodes, root>>
  BY DEF NodeArgs, Calling
<1>2. CASE Go(<<Loop("node_arg", 0)>>) /\ UNCHANGED outcome
  BY <1>1, <1>2, ArgsLoopTurns, ParseSays
<1>3. CASE Go(<<Parse("literal"), New("LiteralArgs", 1)>>) /\ UNCHANGED outcome
  BY <1>1, <1>3, LiteralArgsTurns, ParseSays
<1>4. CASE Throw("syntax")
  BY <1>1, <1>4, SaysNoMore DEF Errors
<1> QED
  BY <1>2, <1>3, <1>4 DEF NodeArgs

LEMMA ArgValueSays == IInv /\ SInv /\ ArgValue => SInv'
<1> SUFFICES ASSUME IInv, SInv, ArgValue  PROVE SInv'
  OBVIOUS
<1>1. Running("parse") /\ UNCHANGED <<read, prev, vals, nodes, root>>
  BY DEF ArgValue, Calling
<1>2. CASE Go(<<Parse("tree_node"), New("NodeValue", 1)>>) /\ UNCHANGED outcome
  BY <1>1, <1>2, NodeValueTurns, ParseSays
<1>3. CASE /\ Go(<<Need("kw_list"), Need("<"), Parse("node_name"), Need(">"),
                   Need("["), Loop("list_elem", 0)>>)
           /\ UNCHANGED outcome
  BY <1>1, <1>3, ListTurns, ParseSays
<1>4. CASE Go(<<Parse("literal"), New("LiteralValue", 1)>>) /\ UNCHANGED outcome
  BY <1>1, <1>4, LiteralValueTurns, ParseSays
<1>5. CASE Throw("syntax")
  BY <1>1, <1>5, SaysNoMore DEF Errors
<1> QED
  BY <1>2, <1>3, <1>4, <1>5 DEF ArgValue

LEMMA TurnLoopSays == IInv /\ SInv /\ TurnLoop => SInv'
<1> SUFFICES ASSUME IInv, SInv, TurnLoop  PROVE SInv'
  OBVIOUS
<1> DEFINE sym == Head(todo).arg
           n == Head(todo).n
           items == IF Peek({Opens(sym)}) THEN <<Parse(sym), Loop(sym, n + 1)>>
                                          ELSE AfterLoop(sym, n)
<1>1. Running("loop") /\ Go(items) /\ UNCHANGED <<read, prev, vals, nodes, root, outcome>>
  BY DEF TurnLoop
<1>2. PICK p, q \in Stacks, said \in Tales :
        /\ Told(p, said) /\ Turns(Head(todo), p, q) /\ Spans(Tail(todo), q, AllSaidNow)
        /\ Head(todo) \in Item /\ Head(todo).do = "loop"
  BY <1>1, NextTurns
<1>3. PICK F \in Seq(Slots) : p = On(TurnedFrom(Head(todo), F)) /\ q = On(Said(F))
  BY <1>2, TurnsOne
<1>4. n \in Nat /\ sym \in {"node_arg", "list_elem"}
  BY <1>2, ItemIs
<1>5. Spans(items, p, q)
  <2>1. CASE sym = "node_arg"
    <3>1. p = On(F \o Holes(n))
      BY <1>2, <1>3, <2>1 DEF TurnedFrom
    <3>2. /\ Spans(<<Parse("node_arg"), Loop("node_arg", n + 1)>>, p, q)
          /\ Spans(<<New("ListArgs", n)>>, p, q)
      BY <1>3, <1>4, <3>1, ArgsTurnTurns, ArgsAfterTurns
    <3> QED
      BY <2>1, <3>2 DEF AfterLoop
  <2>2. CASE sym = "list_elem"
    <3>1. p = On(ListStart(F) \o Holes(n))
      BY <1>2, <1>3, <2>2 DEF TurnedFrom
    <3>2. /\ Spans(<<Parse("list_elem"), Loop("list_elem", n + 1)>>, p, q)
          /\ Spans(<<Need("]"), New("NodeList", n + 1), New("ListValue", 1)>>, p, q)
      BY <1>3, <1>4, <3>1, ListTurnTurns, ListAfterTurns
    <3> QED
      BY <2>2, <3>2 DEF AfterLoop
  <2> QED
    BY <1>4, <2>1, <2>2
<1> HIDE DEF items
<1>6. outcome = "running"
  BY <1>1 DEF Running
<1> QED
  BY <1>1, <1>2, <1>5, <1>6, SaysQuietly

LEMMA LeaveSays == IInv /\ SInv /\ LeaveArgCtxt => SInv'
<1> SUFFICES ASSUME IInv, SInv, LeaveArgCtxt  PROVE SInv'
  OBVIOUS
<1>1. /\ Running("leave") /\ Go(<<>>) /\ outcome = "running"
      /\ UNCHANGED <<read, prev, vals, nodes, root, outcome>>
  BY DEF LeaveArgCtxt, Running
<1>2. PICK p, q \in Stacks, said \in Tales :
        /\ Told(p, said) /\ Turns(Head(todo), p, q) /\ Spans(Tail(todo), q, AllSaidNow)
        /\ Head(todo) \in Item /\ Head(todo).do = "leave"
  BY <1>1, NextTurns
<1>3. Spans(<<>>, p, q)
  BY <1>2, SpansNone DEF Turns
<1> QED
  BY <1>1, <1>2, <1>3, SaysQuietly

-----------------------------------------------------------------------------
(* The steps that take a token or its text.                                *)
LEMMA ReadIs ==
  ASSUME IInv, NEW what, Running(what), what # "begin"
  PROVE  /\ ReadBefore \in Seq(Lexemes) /\ tok.lex \in Lexemes
         /\ read = Append(ReadBefore, tok.lex)
<1>1. read # <<>> /\ read \in Seq(Lexemes) /\ tok.lex = read[Len(read)]
  BY HasRead
<1>2. ReadBefore = Front(read)
  BY <1>1 DEF ReadBefore
<1>3. Front(read) \in Seq(Lexemes) /\ read[Len(read)] \in Lexemes
      /\ read = Append(Front(read), read[Len(read)])
  BY <1>1, LastOff
<1> QED
  BY <1>1, <1>2, <1>3

LEMMA TokenSays ==
  ASSUME IInv, SInv, outcome = "running", NextToken(<<>>), UNCHANGED <<vals, nodes, root>>,
         NEW q \in Stacks, NEW said \in Tales, NEW words \in Seq(Lexemes),
         Spans(Tail(todo), q, AllSaidNow), q.kept = "root" => root # 0,
         Says(q.form, vals, words, said), Joined(read, words, Apart(q.kept, said)')
  PROVE  SInv'
<1>1. PICK lex \in Offered :
        /\ read' = Append(read, lex)
        /\ IF lex = Bad
             THEN Throw("syntax") /\ UNCHANGED tok
             ELSE /\ tok' = [type |-> TypeOf(lex), lex |-> lex]
                  /\ Go(<<>>)
                  /\ UNCHANGED <<arg_ctxt, outcome>>
  BY DEF NextToken
<1>2. CASE lex = Bad
  BY <1>1, <1>2, SaysNoMore DEF Errors
<1>3. CASE lex # Bad
  <2>1. lex \in Lexemes /\ read \in Seq(Lexemes)
    BY DEF Offered, Lexemes, IInv, Typed
  <2>2. read' # <<>> /\ Front(read') = read
    BY <1>1, <2>1, FrontOf, AppendProperties
  <2>3. ReadBefore' = read
    BY <2>2 DEF ReadBefore
  <2>4. said \in Tales' /\ Older'
    BY DEF Tales, SInv, Older
  <2>5. Told(q, said)'
    BY <2>3 DEF Told
  <2>6. Go(<<>>) /\ outcome' = "running"
    BY <1>1, <1>3
  <2>7. Spans(<<>>, q, q)
    BY SpansNone
  <2> QED
    BY <2>4, <2>5, <2>6, <2>7, SaysOn
<1> QED
  BY <1>2, <1>3

LEMMA BeginSays == IInv /\ SInv /\ BeginParse => SInv'
<1> SUFFICES ASSUME IInv, SInv, BeginParse  PROVE SInv'
  OBVIOUS
<1>1. /\ Running("begin") /\ NextToken(<<>>) /\ outcome = "running"
      /\ UNCHANGED <<prev, vals, nodes, root>>
  BY DEF BeginParse, Running
<1>2. read = <<>>
  <2>1. PICK a, b \in States :
          /\ a.n = Len(vals) /\ Shows(a.last) /\ Leads(Head(todo), a, b)
          /\ Takes(Tail(todo), b, At(0, "end"))
          /\ Head(todo) \in Item /\ Head(todo).do = "begin"
    BY <1>1, Here
  <2> QED
    BY <2>1 DEF Leads, Shows
<1>3. PICK p, q \in Stacks, said \in Tales :
        /\ Told(p, said) /\ Turns(Head(todo), p, q) /\ Spans(Tail(todo), q, AllSaidNow)
        /\ Head(todo) \in Item /\ Head(todo).do = "begin"
  BY <1>1, NextTurns
<1>4. p = q
  BY <1>3 DEF Turns
<1>5. PICK words \in Seq(Lexemes) :
        Says(p.form, vals, words, said) /\ Joined(ReadBefore, words, Apart(p.kept, said))
  BY <1>3 DEF Told
<1>6. ReadBefore = read /\ Apart(p.kept, said)' = Apart(p.kept, said)
  BY <1>1, <1>2 DEF ReadBefore, Apart
<1>7. q.kept = "root" => root # 0
  BY <1>3, <1>4 DEF Told
<1>8. Says(q.form, vals, words, said) /\ Joined(read, words, Apart(q.kept, said)')
  BY <1>4, <1>5, <1>6
<1> QED
  BY <1>1, <1>3, <1>7, <1>8, TokenSays

LEMMA NeedSays == IInv /\ GInv /\ SInv /\ NeedToken => SInv'
<1> SUFFICES ASSUME IInv, GInv, SInv, NeedToken  PROVE SInv'
  OBVIOUS
<1> DEFINE type == Head(todo).arg
<1>1. Running("need") /\ outcome = "running" /\ UNCHANGED <<vals, nodes, root>>
  BY DEF NeedToken, Running
<1>2. CASE tok.type # type
  BY <1>1, <1>2, SaysNoMore DEF NeedToken, Peek, Errors
<1>3. CASE tok.type = type
  <2>1. prev' = tok /\ NextToken(<<>>)
    BY <1>3 DEF NeedToken, Peek
  <2>2. type \in NeededTypes /\ tok.lex \in Lex(Sign(type))
    BY <1>1, <1>3, NeedMeets
  <2>3. PICK p, q \in Stacks, said \in Tales :
          /\ Told(p, said) /\ Turns(Head(todo), p, q) /\ Spans(Tail(todo), q, AllSaidNow)
          /\ Head(todo) \in Item /\ Head(todo).do = "need"
    BY <1>1, NextTurns
  <2>4. p.kept = "nothing" /\ p.form \in Seq(Slots)
    BY <2>3, StackOf DEF Turns
  <2>5. PICK words \in Seq(Lexemes) :
          Says(p.form, vals, words, said) /\ Joined(ReadBefore, words, Apart(p.kept, said))
    BY <2>3 DEF Told
  <2>6. /\ ReadBefore \in Seq(Lexemes) /\ tok.lex \in Lexemes
        /\ read = Append(ReadBefore, tok.lex)
    BY <1>1, ReadIs
  <2>7. ReadBefore = words
    <3>1. Apart(p.kept, said) = <<>>
      BY <2>4 DEF Apart
    <3> QED
      BY <2>5, <3>1, ConcatEmptySeq DEF Joined
  <2>8. CASE type \in {"ident", "name", "num", "str"}
    <3>1. q = Stack(p.form, "text")
      BY <2>3, <2>8 DEF Turns
    <3>2. q.form = p.form /\ q.kept = "text"
      BY <2>4, <3>1, StackIs DEF Kept
    <3>3. Apart(q.kept, said)' = <<tok.lex>>
      BY <2>1, <3>2 DEF Apart
    <3>4. Joined(read, words, <<tok.lex>>)
      BY <2>6, <2>7, AppendJoins
    <3>5. Says(q.form, vals, words, said) /\ Joined(read, words, Apart(q.kept, said)')
          /\ q.kept # "root"
      BY <2>5, <3>2, <3>3, <3>4
    <3> QED
      BY <1>1, <2>1, <2>3, <3>5, TokenSays
  <2>9. CASE type \notin {"ident", "name", "num", "str"}
    <3>1. q = Stack(Append(p.form, Sign(type)), "nothing")
      BY <2>3, <2>9 DEF Turns
    <3>2. Sign(type) \in Words /\ tok.lex = Sign(type)
      <4>1. type \in Marks \cup {"kw_list"}
        BY <2>2, <2>9 DEF NeededTypes
      <4>2. Sign(type) \in Words /\ Sign(type) \notin {"IDENT", "NAME", "STR", "NUM"}
        BY <4>1 DEF Sign, Words, Marks
      <4> HIDE DEF type
      <4> QED
        BY <2>2, <4>2 DEF Lex
    <3>3. Says(Append(p.form, tok.lex), vals, Append(words, tok.lex), said)
      BY <2>4, <2>5, <3>2, SaysWord
    <3>4. Append(p.form, tok.lex) \in Seq(Slots)
      BY <2>4, <3>2, InSlots, WordsAre
    <3>5. q.form = Append(p.form, tok.lex) /\ q.kept = "nothing"
      BY <3>1, <3>2, <3>4, StackIs DEF Kept
    <3>6. Apart(q.kept, said)' = <<>>
      BY <3>5 DEF Apart
    <3>7. Joined(read, read, <<>>) /\ read \in Seq(Lexemes)
      BY JoinedNone DEF IInv, Typed
    <3>8. Says(q.form, vals, read, said) /\ Joined(read, read, Apart(q.kept, said)')
          /\ q.kept # "root"
      BY <2>6, <2>7, <3>3, <3>5, <3>6, <3>7
    <3> QED
      BY <1>1, <2>1, <2>3, <3>7, <3>8, TokenSays
  <2> QED
    BY <2>8, <2>9
<1> QED
  BY <1>2, <1>3

LEMMA PushSays ==
  ASSUME IInv, SInv, Running("text") \/ Running("index"),
         vals' = Append(vals, TextOf(prev.lex)), Go(<<>>),
         UNCHANGED <<read, tok, prev, nodes, root, outcome>>
  PROVE  SInv'
<1> DEFINE l == prev.lex
           y == TextOf(l)
<1>1. PICK a, b \in States :
        /\ a.n = Len(vals) /\ Shows(a.last) /\ Leads(Head(todo), a, b)
        /\ Takes(Tail(todo), b, At(0, "end"))
        /\ Head(todo) \in Item /\ Head(todo).do \in {"text", "index"}
  BY Here
<1>2. l \in Lexemes
  BY <1>1 DEF Leads, Shows
<1>3. PICK p, q \in Stacks, said \in Tales :
        /\ Told(p, said) /\ Turns(Head(todo), p, q) /\ Spans(Tail(todo), q, AllSaidNow)
        /\ Head(todo) \in Item /\ Head(todo).do \in {"text", "index"}
  BY NextTurns
<1>4. p.kept = "text" /\ q = On(Said(p.form)) /\ p.form \in Seq(Slots)
  BY <1>3, StackOf DEF Turns, On, Said
<1>5. PICK words \in Seq(Lexemes) :
        Says(p.form, vals, words, said) /\ Joined(ReadBefore, words, Apart(p.kept, said))
  BY <1>3 DEF Told
<1>6. Telling(said) /\ y \in Valued(said) /\ PartSaid(said, y) = <<l>>
  <2>1. Telling(said)
    BY DEF Tales, Telling
  <2>2. y \in [text : Lexemes]
    BY <1>2 DEF TextOf
  <2>3. ~IsNode(y) /\ y.text = l
    BY DEF IsNode, TextOf
  <2> QED
    BY <2>1, <2>2, <2>3 DEF Valued, PartSaid
<1>7. ReadBefore = words \o PartSaid(said, y)
  BY <1>4, <1>5, <1>6 DEF Apart, Joined
<1> HIDE DEF y
<1>8. Says(Said(p.form), Append(vals, y), ReadBefore, said)
  BY <1>4, <1>5, <1>6, <1>7, SaysValue
<1>9. ReadBefore \in Seq(Lexemes)
  BY ReadIs
<1>10. q.form = Said(p.form) /\ q.kept = "nothing"
  <2>1. Said(p.form) \in Seq(Slots)
    BY <1>4, SaidIs
  <2> QED
    BY <1>4, <2>1, StackIs DEF On, Kept
<1>11. ReadBefore' = ReadBefore /\ vals' = Append(vals, y) /\ Apart(q.kept, said)' = <<>>
  BY <1>10 DEF ReadBefore, y, Apart
<1>12. Joined(ReadBefore, ReadBefore, <<>>)
  BY <1>9, JoinedNone
<1>13. Told(q, said)'
  BY <1>8, <1>9, <1>10, <1>11, <1>12 DEF Told
<1>14. said \in Tales' /\ Older' /\ outcome' = "running"
  BY DEF Tales, SInv, Older, Running
<1>15. Spans(<<>>, q, q)
  BY SpansNone
<1> QED
  BY <1>3, <1>13, <1>14, <1>15, SaysOn

LEMMA TakeTextSays == IInv /\ SInv /\ TakeText => SInv'
BY PushSays DEF TakeText

LEMMA TakeIndexSays == IInv /\ SInv /\ TakeIndex => SInv'
<1> SUFFICES ASSUME IInv, SInv, TakeIndex  PROVE SInv'
  OBVIOUS
<1>1. CASE prev.lex \in BigNums
  BY <1>1, SaysNoMore DEF TakeIndex, Errors
<1>2. CASE prev.lex \notin BigNums
  BY <1>2, PushSays DEF TakeIndex
<1> QED
  BY <1>1, <1>2

-----------------------------------------------------------------------------
(* A node more, made of the newest values.                                 *)
Newest(s, n) == SubSeq(s, Len(s) - n + 1, Len(s))
Remaining(s, n) == SubSeq(s, 1, Len(s) - n)

LEMMA JoinedParts ==
  ASSUME NEW S, NEW s \in Seq(S), NEW t \in Seq(S), NEW all, Joined(all, s, t)
  PROVE  Newest(all, Len(t)) = t /\ Remaining(all, Len(t)) = s
<1> DEFINE m == Len(s)
           n == Len(t)
           L == Len(all)
           a == SubSeq(all, 1, m)
           b == SubSeq(all, m + 1, L)
<1>1. m \in Nat /\ n \in Nat
  BY LenProperties
<1>2. /\ all \in Seq(S) /\ L = m + n
      /\ \A i \in 1 .. m : all[i] = s[i]
      /\ \A i \in 1 .. n : all[m + i] = t[i]
  <2>1. /\ s \o t \in Seq(S) /\ Len(s \o t) = m + n
        /\ \A i \in 1 .. m + n : (s \o t)[i] = IF i <= m THEN s[i] ELSE t[i - m]
    BY ConcatProperties
  <2>2. \A i \in 1 .. n : (s \o t)[m + i] = t[i]
    <3> SUFFICES ASSUME NEW i \in 1 .. n  PROVE (s \o t)[m + i] = t[i]
      OBVIOUS
    <3>1. PICK j \in 1 .. m + n : j = m + i /\ j - m = i /\ ~(j <= m)
      <4> HIDE DEF m, n
      <4> QED
        BY <1>1
    <3> QED
      BY <2>1, <3>1
  <2>3. \A i \in 1 .. m : (s \o t)[i] = s[i]
    BY <1>1, <2>1
  <2> QED
    BY <2>1, <2>2, <2>3 DEF Joined
<1>3. L - n = m /\ L - n + 1 = m + 1 /\ L \in Nat
  <2> HIDE DEF m, n, L
  <2> QED
    BY <1>1, <1>2
<1> HIDE DEF m, n, L
<1>4. a \in Seq(S) /\ Len(a) = m /\ \A i \in 1 .. m : a[i] = all[i]
  BY <1>1, <1>2 DEF L
<1>5. b \in Seq(S) /\ Len(b) = n /\ \A i \in 1 .. n : b[i] = all[m + i]
  <2>1. \A i \in 1 .. n : m + i \in 1 .. L
    BY <1>1, <1>2
  <2> QED
    BY <1>1, <1>2, <2>1 DEF L
<1> HIDE DEF a, b
<1>6. a = s
  BY <1>2, <1>4, SeqEqual DEF m
<1>7. b = t
  BY <1>2, <1>5, SeqEqual DEF n
<1> QED
  BY <1>3, <1>6, <1>7 DEF a, b, L, n, Newest, Remaining

OneMoreNode(ms, ns, n, x) == (\A i \in 1 .. n : ms[i] = ns[i]) /\ ms[n + 1] = x

(* One more is said, and the others as before.                             *)
TellsOn(more, said, ms, n, x) ==
  /\ more \in [1 .. n + 1 -> Seq(Lexemes)] /\ TellsEach(more, ms, n + 1)
  /\ (\A i \in 1 .. n : more[i] = said[i]) /\ more[n + 1] = NodeSaid(said, x)

LEMMA TellsNext ==
  ASSUME NEW S, NEW n \in Nat, NEW ns, NEW said \in [1 .. n -> Seq(Lexemes)],
         AllAged(S, ns, n), TellsEach(said, ns, n),
         NEW x, x.parts \in Seq(Valued(said)), PartsOf(x.kind, Len(x.parts)),
         NodeSaid(said, x) \in Seq(Lexemes), NEW ms, OneMoreNode(ms, ns, n, x)
  PROVE  Aged(x, n + 1) /\ \E more : TellsOn(more, said, ms, n, x)
<1> DEFINE m == n + 1
           z == NodeSaid(said, x)
           more == [i \in 1 .. m |-> IF i = m THEN z ELSE said[i]]
<1>1. m \in Nat /\ m \in 1 .. m /\ 1 .. n = 1 .. m - 1 /\ \A i \in 1 .. m : i = m \/ i \in 1 .. n
  OBVIOUS
<1>2. ms[m] = x
  BY DEF OneMoreNode
<1> HIDE DEF z, m
<1>3. /\ more \in [1 .. m -> Seq(Lexemes)]
      /\ (\A i \in 1 .. n : more[i] = said[i]) /\ more[m] = z
  <2>1. \A i \in 1 .. n : i # m /\ i \in 1 .. m
    BY DEF m
  <2> QED
    BY <1>1, <2>1 DEF z
<1> HIDE DEF more
<1>4. ASSUME NEW y, IsNode(y) => y.node \in 1 .. n
      PROVE  PartSaid(more, y) = PartSaid(said, y)
  BY <1>3, <1>4, PartSame
<1>5. ASSUME NEW k \in DOMAIN x.parts  PROVE IsNode(x.parts[k]) => x.parts[k].node \in 1 .. n
  <2>1. x.parts[k] \in Valued(said)
    BY LenProperties, ElementOfSeq
  <2> QED
    BY <2>1, NodeIs DEF Valued
<1>6. Aged(x, m)
  BY <1>1, <1>5 DEF Aged
<1>7. NodeSaid(more, x) = NodeSaid(said, x)
  BY <1>4, <1>5, NodeSame
<1>8. ASSUME NEW i \in 1 .. n  PROVE more[i] = NodeSaid(more, ms[i])
  <2>1. ns[i].parts \in Seq(S) /\ Aged(ns[i], i) /\ ms[i] = ns[i]
    BY DEF AllAged, OneMoreNode
  <2>2. ASSUME NEW k \in DOMAIN ns[i].parts
        PROVE  PartSaid(more, ns[i].parts[k]) = PartSaid(said, ns[i].parts[k])
    <3>1. IsNode(ns[i].parts[k]) => ns[i].parts[k].node \in 1 .. i - 1
      BY <2>1 DEF Aged
    <3>2. 1 .. i - 1 \subseteq 1 .. n
      OBVIOUS
    <3>3. IsNode(ns[i].parts[k]) => ns[i].parts[k].node \in 1 .. n
      BY <3>1, <3>2
    <3> QED
      BY <3>3, <1>4
  <2>3. NodeSaid(more, ns[i]) = NodeSaid(said, ns[i])
    BY <2>1, <2>2, NodeSame DEF Aged
  <2> QED
    BY <1>3, <2>1, <2>3 DEF TellsEach
<1>9. TellsEach(more, ms, m)
  BY <1>1, <1>2, <1>3, <1>7, <1>8 DEF TellsEach, z
<1> QED
  BY <1>3, <1>6, <1>9 DEF m, z, TellsOn

LEMMA NodesAre ==
  ASSUME IInv, SInv
  PROVE  /\ Len(nodes) \in Nat /\ nodes \in Seq([kind : Classes, parts : Seq(Values)])
         /\ \A i \in 1 .. Len(nodes) : nodes[i].parts \in Seq(Values) /\ Aged(nodes[i], i)
         /\ \A said \in Tales : Telling(said) /\ Valued(said) = Values
<1>1. nodes \in Seq([kind : Classes, parts : Seq(Values)]) /\ Len(nodes) \in Nat
  BY LenProperties DEF IInv, Typed
<1>2. ASSUME NEW i \in 1 .. Len(nodes)  PROVE nodes[i].parts \in Seq(Values) /\ Aged(nodes[i], i)
  <2>1. nodes[i] \in [kind : Classes, parts : Seq(Values)]
    BY <1>1, ElementOfSeq
  <2> QED
    BY <2>1 DEF SInv, Older
<1>3. ASSUME NEW said \in Tales  PROVE Telling(said) /\ Valued(said) = Values
  BY DEF Tales, Telling, Valued, Values
<1> QED
  BY <1>1, <1>2, <1>3

LEMMA NewNodeSays == IInv /\ SInv /\ NewNode => SInv'
<1> SUFFICES ASSUME IInv, SInv, NewNode  PROVE SInv'
  OBVIOUS
<1> DEFINE class == Head(todo).arg
           n == Head(todo).n
           N == Len(nodes)
<1>1. Running("new") /\ UNCHANGED <<read, tok, prev, root>> /\ outcome = "running"
  BY DEF NewNode, Running
<1>2. CASE N >= MaxNodes
  BY <1>2, SaysNoMore DEF NewNode, Errors
<1>3. CASE ~(N >= MaxNodes)
  <2>1. /\ nodes' = Append(nodes, Node(class, SubSeq(vals, Len(vals) - n + 1, Len(vals))))
        /\ vals' = Append(SubSeq(vals, 1, Len(vals) - n), NodeAt(N + 1))
        /\ Go(<<>>) /\ outcome' = "running"
    BY <1>1, <1>3 DEF NewNode, Node
  <2>2. PICK p, q \in Stacks, said \in Tales :
          /\ Told(p, said) /\ Turns(Head(todo), p, q) /\ Spans(Tail(todo), q, AllSaidNow)
          /\ Head(todo) \in Item /\ Head(todo).do = "new"
    BY <1>1, NextTurns
  <2>3. PICK F \in Seq(Slots) :
          /\ p = On(TurnedFrom(Head(todo), F)) /\ TurnedFrom(Head(todo), F) \in Seq(Slots)
          /\ q = On(Said(F)) /\ PartsOf(class, n)
    BY <2>2, TurnsOne
  <2>4. n \in Nat /\ class \in Classes
    BY <2>2, ItemIs
  <2>5. /\ p.form = MadeFrom(class, n, F) /\ p.kept = "nothing"
        /\ q.form = Said(F) /\ q.kept = "nothing"
    <3>1. TurnedFrom(Head(todo), F) = MadeFrom(class, n, F)
      BY <2>2 DEF TurnedFrom
    <3>2. Said(F) \in Seq(Slots) /\ "nothing" \in Kept
      BY SaidIs DEF Kept
    <3> QED
      BY <2>3, <3>1, <3>2, StackIs DEF On
  <2>6. PICK words \in Seq(Lexemes) :
          Says(p.form, vals, words, said) /\ Joined(ReadBefore, words, <<>>)
    BY <2>2, <2>5 DEF Told, Apart
  <2>7. Telling(said) /\ Valued(said) = Values /\ N \in Nat
    BY NodesAre
  <2>8. MadeOf(class, n, F, vals, words, said)
    BY <2>3, <2>4, <2>5, <2>6, <2>7, ClassSays
  <2>9. PICK ps \in Seq(Valued(said)) :
          /\ Len(ps) = n /\ NodeSaid(said, Node(class, ps)) \in Seq(Lexemes)
          /\ Ended(F, vals, words, ps, NodeSaid(said, Node(class, ps)), said)
    BY <2>8 DEF MadeOf
  <2> DEFINE x == Node(class, ps)
             z == NodeSaid(said, x)
  <2>10. PICK vs \in Seq(Valued(said)), w \in Seq(Lexemes) :
           Says(F, vs, w, said) /\ Joined(vals, vs, ps) /\ Joined(words, w, z)
    BY <2>9 DEF Ended
  <2>11. nodes' = Append(nodes, x) /\ vals' = Append(vs, NodeAt(N + 1))
    <3>1. Newest(vals, n) = ps /\ Remaining(vals, n) = vs
      BY <2>9, <2>10, JoinedParts
    <3> QED
      BY <2>1, <3>1 DEF Newest, Remaining
  <2>12. x.kind = class /\ x.parts = ps
    BY DEF Node
  <2> HIDE DEF x
  <2>13. /\ Len(nodes') = N + 1 /\ nodes'[N + 1] = x
         /\ \A i \in 1 .. N : nodes'[i] = nodes[i]
    <3>1. x \in [kind : Classes, parts : Seq(Values)]
      BY <2>4, <2>7 DEF x, Node
    <3> QED
      BY <2>11, <3>1, NodesAre, AppendProperties
  <2>14. said \in [1 .. N -> Seq(Lexemes)] /\ TellsEach(said, nodes, N)
    BY DEF Tales
  <2> DEFINE ms == nodes'
  <2>15. Aged(x, N + 1) /\ \E more : TellsOn(more, said, ms, N, x)
    <3>1. PartsOf(x.kind, Len(x.parts)) /\ x.parts \in Seq(Valued(said))
      BY <2>3, <2>9, <2>12
    <3>2. NodeSaid(said, x) \in Seq(Lexemes)
      BY <2>9 DEF x
    <3>3. OneMoreNode(ms, nodes, N, x)
      BY <2>13 DEF OneMoreNode
    <3>4. AllAged(Values, nodes, N)
      BY NodesAre DEF AllAged
    <3> HIDE DEF N, ms
    <3> QED
      BY <2>7, <2>14, <3>1, <3>2, <3>3, <3>4, TellsNext
  <2>16. PICK more \in [1 .. N + 1 -> Seq(Lexemes)] :
           /\ TellsEach(more, ms, N + 1)
           /\ (\A i \in 1 .. N : more[i] = said[i]) /\ more[N + 1] = z
    BY <2>15 DEF TellsOn
  <2>17. more \in Tales'
    BY <2>13, <2>16 DEF Tales
  <2>18. Older'
    <3>1. ASSUME NEW i \in 1 .. N + 1  PROVE Aged(nodes'[i], i)
      <4>1. i = N + 1 \/ i \in 1 .. N
        BY <2>7
      <4>2. i \in 1 .. N => nodes'[i] = nodes[i] /\ Aged(nodes[i], i)
        BY <2>13, NodesAre
      <4> QED
        BY <2>13, <2>15, <4>1, <4>2
    <3> QED
      BY <2>13, <3>1 DEF Older
  <2>19. Says(F, vs, w, more)
    <3>1. DOMAIN said = 1 .. N /\ DOMAIN more = 1 .. N + 1
      BY <2>14
    <3>2. DOMAIN said \subseteq DOMAIN more
      BY <2>7, <3>1
    <3> QED
      BY <2>10, <2>16, <3>1, <3>2, SaysStill
  <2>20. /\ Telling(more) /\ NodeAt(N + 1) \in Valued(more)
         /\ PartSaid(more, NodeAt(N + 1)) = z
    <3>1. Telling(more)
      BY <2>16 DEF Telling
    <3>2. N + 1 \in DOMAIN more
      BY <2>7, <2>16
    <3>3. NodeAt(N + 1) \in Valued(more) /\ IsNode(NodeAt(N + 1)) /\ NodeAt(N + 1).node = N + 1
      BY <3>2 DEF NodeAt, Valued, IsNode
    <3> QED
      BY <2>16, <3>1, <3>3 DEF PartSaid
  <2>21. Says(Said(F), vals', words, more)
    <3>1. Says(Said(F), Append(vs, NodeAt(N + 1)), w \o z, more)
      BY <2>19, <2>20, SaysValue
    <3> QED
      BY <2>10, <2>11, <3>1 DEF Joined
  <2>22. ReadBefore' = ReadBefore
    BY <1>1 DEF ReadBefore
  <2>23. Told(q, more)'
    BY <2>5, <2>6, <2>21, <2>22 DEF Told, Apart
  <2>24. Spans(<<>>, q, q)
    BY SpansNone
  <2> QED
    BY <2>1, <2>2, <2>17, <2>18, <2>23, <2>24, SaysOn
<1> QED
  BY <1>2, <1>3

-----------------------------------------------------------------------------
(* The steps at the end, and all of them.                                  *)
LEMMA SetRootSays == IInv /\ SInv /\ SetRoot => SInv'
<1> SUFFICES ASSUME IInv, SInv, SetRoot  PROVE SInv'
  OBVIOUS
<1> DEFINE r == vals[Len(vals)].node
           none == <<>>
<1>1. /\ Running("root") /\ Go(<<>>) /\ outcome = "running"
      /\ root' = r /\ vals' = SubSeq(vals, 1, Len(vals) - 1)
      /\ UNCHANGED <<read, tok, prev, arg_ctxt, nodes, outcome>>
  BY DEF SetRoot, Running
<1>2. PICK a, b \in States :
        /\ a.n = Len(vals) /\ Shows(a.last) /\ Leads(Head(todo), a, b)
        /\ Takes(Tail(todo), b, At(0, "end"))
        /\ Head(todo) \in Item /\ Head(todo).do = "root"
  BY <1>1, Here
<1>3. vals[Len(vals)] \in [node : 1 .. Len(nodes)]
  BY <1>2 DEF Leads, Shows
<1>4. PICK p, q \in Stacks, said \in Tales :
        /\ Told(p, said) /\ Turns(Head(todo), p, q) /\ Spans(Tail(todo), q, AllSaidNow)
        /\ Head(todo) \in Item /\ Head(todo).do = "root"
  BY <1>1, NextTurns
<1>5. none \in Seq(Slots) /\ Said(none) = <<"value">> /\ <<"value">> \in Seq(Slots)
  <2>1. none \in Seq(Slots) /\ Said(none) = <<"value">>
    BY DEF Said
  <2> QED
    BY <2>1, SaidIs
<1>6. p = Stack(<<"value">>, "nothing") /\ q = Stack(none, "root")
  BY <1>4 DEF Turns
<1>7. p.form = Said(none) /\ p.kept = "nothing" /\ q.form = none /\ q.kept = "root"
  BY <1>5, <1>6, StackIs DEF Kept
<1>8. PICK words \in Seq(Lexemes) :
        Says(Said(none), vals, words, said) /\ Joined(ReadBefore, words, <<>>)
  BY <1>4, <1>7 DEF Told, Apart
<1>9. PICK vs \in Seq(Valued(said)), w \in Seq(Lexemes), y \in Valued(said) :
        Says(none, vs, w, said) /\ Adds(y, vs, w, vals, words, said)
  <2> HIDE DEF none
  <2> QED
    BY <1>5, <1>8, ValueBefore
<1>10. vs = <<>> /\ w = <<>>
  BY <1>9, SaysNothing
<1>11. Len(vals) = 1 /\ vals[1] = y
  <2>1. vals = Append(<<>>, y)
    BY <1>9, <1>10 DEF Adds
  <2> QED
    BY <2>1
<1>12. y \in [node : 1 .. Len(nodes)] /\ r = y.node
  BY <1>3, <1>11
<1>13. IsNode(y) /\ r \in 1 .. Len(nodes)
  BY <1>12 DEF IsNode
<1>14. PartSaid(said, y) = said[r] /\ said[r] \in Seq(Lexemes)
  BY <1>12, <1>13 DEF PartSaid, Tales
<1>15. ReadBefore = said[r]
  <2>1. words = <<>> \o PartSaid(said, y)
    BY <1>9, <1>10 DEF Adds
  <2>2. words = said[r]
    <3> DEFINE z == said[r]
    <3>1. words = <<>> \o z /\ z \in Seq(Lexemes)
      BY <1>14, <2>1
    <3> HIDE DEF z
    <3>2. words = z
      BY <3>1, ConcatEmptySeq
    <3> QED
      BY <3>2 DEF z
  <2> QED
    BY <1>8, <2>2, ConcatEmptySeq DEF Joined
<1>16. vals' = <<>>
  BY <1>1, <1>11
<1>17. Says(none, vals', <<>>, said)
  BY <1>16, SaysNothing
<1>18. root' # 0 /\ said[root'] = ReadBefore /\ ReadBefore' = ReadBefore
  BY <1>1, <1>13, <1>15, NodesAre DEF ReadBefore
<1>19. Told(q, said)'
  <2>1. Joined(ReadBefore', <<>>, said[root'])
    <3> DEFINE z == ReadBefore
    <3>1. z \in Seq(Lexemes)
      BY <1>14, <1>15
    <3> HIDE DEF z
    <3>2. Joined(z, <<>>, z)
      BY <3>1, ConcatEmptySeq DEF Joined
    <3> QED
      BY <1>18, <3>2 DEF z
  <2>2. <<>> \in Seq(Lexemes)
    OBVIOUS
  <2>3. Apart("root", said)' = said[root']
    BY DEF Apart
  <2> QED
    BY <1>7, <1>17, <1>18, <2>1, <2>2, <2>3 DEF Told
<1>20. said \in Tales' /\ Older' /\ outcome' = "running"
  BY <1>1 DEF Tales, SInv, Older
<1>21. Spans(<<>>, q, q)
  BY SpansNone
<1> QED
  BY <1>1, <1>4, <1>19, <1>20, <1>21, SaysOn

LEMMA FinishSays == IInv /\ SInv /\ FinishParse => SInv'
<1> SUFFICES ASSUME IInv, SInv, FinishParse  PROVE SInv'
  OBVIOUS
<1> DEFINE N == Len(nodes)
<1>1. Running("finish") /\ UNCHANGED <<read, tok, prev, vals, nodes, root>>
  BY DEF FinishParse
<1>2. CASE tok.type # "eos"
  BY <1>1, <1>2, SaysNoMore DEF FinishParse, Peek, Errors
<1>3. CASE tok.type = "eos"
  <2>1. outcome' = "parsed"
    BY <1>3 DEF FinishParse, Peek
  <2>2. PICK p, q \in Stacks, said \in Tales :
          /\ Told(p, said) /\ Turns(Head(todo), p, q) /\ Spans(Tail(todo), q, AllSaidNow)
          /\ Head(todo) \in Item /\ Head(todo).do = "finish"
    BY <1>1, NextTurns
  <2>3. p = Stack(<<>>, "root")
    BY <2>2 DEF Turns
  <2>4. p.form = <<>> /\ p.kept = "root"
    BY <2>3 DEF Stack
  <2>5. root # 0 /\ \E words \in Seq(Lexemes) :
          Says(<<>>, vals, words, said) /\ Joined(ReadBefore, words, said[root])
    BY <2>2, <2>4 DEF Told, Apart
  <2>6. Joined(ReadBefore, <<>>, said[root])
    BY <2>5, SaysNothing
  <2>7. root \in 1 .. N /\ N \in Nat
    BY <2>5, NodesAre DEF IInv, Typed
  <2>8. said \in [1 .. N -> Seq(Lexemes)] /\ TellsEach(said, nodes, N)
    BY DEF Tales
  <2>9. PICK f : Spelled(N) = f /\ TellsEach(f, nodes, N)
    BY <2>7, <2>8, SpelledIs
  <2>10. f[root] = said[root]
    <3>1. AllAged(Values, nodes, N)
      BY NodesAre DEF AllAged
    <3>2. \A i \in 1 .. N : f[i] = said[i]
      BY <2>7, <2>8, <2>9, <3>1, ToldOnce
    <3> QED
      BY <2>7, <3>2
  <2>11. ReadBefore = said[root]
    <3> DEFINE z == said[root]
    <3>1. z \in Seq(Lexemes) /\ ReadBefore = <<>> \o z
      BY <2>6, <2>7, <2>8 DEF Joined
    <3> HIDE DEF z
    <3>2. ReadBefore = z
      BY <3>1, ConcatEmptySeq
    <3> QED
      BY <3>2 DEF z
  <2>12. read = Append(ReadBefore, EOS) /\ ReadBefore \in Seq(Lexemes) /\ EOS \in Lexemes
    <3>1. /\ ReadBefore \in Seq(Lexemes) /\ tok.lex \in Lexemes
          /\ read = Append(ReadBefore, tok.lex)
      BY <1>1, ReadIs
    <3>2. tok.lex = EOS
      BY <1>1, <1>3, HasRead DEF IInv, Looked, Running
    <3> QED
      BY <3>1, <3>2
  <2>13. read = Spelled(N)[root] \o <<EOS>>
    <3>1. Joined(read, ReadBefore, <<EOS>>)
      BY <2>12, AppendJoins
    <3>2. Spelled(N)[root] = ReadBefore
      BY <2>9, <2>10, <2>11
    <3> QED
      BY <3>1, <3>2 DEF Joined
  <2>14. AstSaysInput'
    <3>1. read' = read /\ nodes' = nodes /\ root' = root
      BY <1>1
    <3>2. Spelled(Len(nodes))' = Spelled(Len(nodes))
      BY <3>1 DEF Spelled
    <3> QED
      BY <2>13, <3>1, <3>2 DEF AstSaysInput
  <2>15. SaysRead' /\ Older'
    BY <1>1, <2>1 DEF SaysRead, SInv, Older
  <2> QED
    BY <2>14, <2>15 DEF SInv
<1> QED
  BY <1>2, <1>3

LEMMA InitSays == Init => SInv
<1> SUFFICES ASSUME Init  PROVE SInv
  OBVIOUS
<1> DEFINE none == <<>>
           said == [i \in 1 .. 0 |-> <<>>]
<1>1. /\ read = none /\ vals = none /\ nodes = none /\ root = 0 /\ outcome = "running"
      /\ todo = <<Begin, Parse("tree"), Root, Finish>> /\ Len(nodes) = 0
  BY DEF Init
<1>2. none \in Seq(Slots) /\ none \in Seq(Lexemes)
  OBVIOUS
<1>3. On(none) \in Stacks /\ On(none).form = none /\ On(none).kept = "nothing"
  BY <1>2, StackIs DEF On, Kept
<1>4. said \in Tales
  <2>1. said \in [1 .. 0 -> Seq(Lexemes)] /\ TellsEach(said, nodes, 0)
    BY DEF TellsEach
  <2> QED
    BY <1>1, <2>1 DEF Tales
<1> HIDE DEF said
<1>5. Told(On(none), said)
  <2>1. Says(none, vals, none, said)
    BY <1>1, SaysNothing
  <2>2. ReadBefore = none /\ Apart("nothing", said) = none
    BY <1>1 DEF ReadBefore, Apart
  <2>3. Joined(none, none, <<>>)
    BY <1>2, JoinedNone
  <2> QED
    BY <1>2, <1>3, <2>1, <2>2, <2>3 DEF Told
<1>6. Spans(todo, On(none), AllSaidNow)
  BY <1>1, BeginTurns
<1>7. Older /\ AstSaysInput
  BY <1>1 DEF Older, AstSaysInput
<1> QED
  BY <1>3, <1>4, <1>5, <1>6, <1>7 DEF SInv, SaysRead

LEMMA StepSays == IInv /\ GInv /\ SInv /\ [Next]_vars => SInv'
<1> SUFFICES ASSUME IInv, GInv, SInv, [Next]_vars  PROVE SInv'
  OBVIOUS
<1>1. CASE BeginParse
  BY <1>1, BeginSays
<1>2. CASE NeedToken
  BY <1>2, NeedSays
<1>3. CASE Call
  BY <1>3, CallSays
<1>4. CASE NodeArgs
  BY <1>4, NodeArgsSays
<1>5. CASE ArgValue
  BY <1>5, ArgValueSays
<1>6. CASE TurnLoop
  BY <1>6, TurnLoopSays
<1>7. CASE LeaveArgCtxt
  BY <1>7, LeaveSays
<1>8. CASE TakeText
  BY <1>8, TakeTextSays
<1>9. CASE TakeIndex
  BY <1>9, TakeIndexSays
<1>10. CASE NewNode
  BY <1>10, NewNodeSays
<1>11. CASE SetRoot
  BY <1>11, SetRootSays
<1>12. CASE FinishParse
  BY <1>12, FinishSays
<1>13. CASE UNCHANGED vars
  <2>1. UNCHANGED <<read, tok, prev, arg_ctxt, todo, vals, nodes, root, outcome>>
    BY <1>13 DEF vars
  <2>2. Older' /\ AstSaysInput' /\ Tales' = Tales
    BY <2>1 DEF SInv, Older, AstSaysInput, Spelled, Tales
  <2>3. \A p, said : Told(p, said)' <=> Told(p, said)
    BY <2>1 DEF Told, ReadBefore, Apart
  <2>4. SaysRead'
    BY <2>1, <2>2, <2>3 DEF SInv, SaysRead
  <2> QED
    BY <2>2, <2>4 DEF SInv
<1> QED
  BY <1>1, <1>2, <1>3, <1>4, <1>5, <1>6, <1>7, <1>8, <1>9, <1>10, <1>11, <1>12, <1>13 DEF Next

(* Whatever input is accepted, however long and however deeply nested: the *)
(* AST says all of it and nothing else, in its order.  Every text was taken*)
(* from prev_tok before the next token overwrote it, every loop gave its   *)
(* elements to the node in the order it read them, and no lexeme between   *)
(* them was skipped or read twice.                                         *)
THEOREM ParsedSaysInput == Spec => []AstSaysInput
<1>1. Init => SInv
  BY InitSays
<1>2. IInv /\ GInv /\ SInv /\ [Next]_vars => SInv'
  BY StepSays
<1>3. SInv => AstSaysInput
  BY DEF SInv
<1> QED
  BY <1>1, <1>2, <1>3, Invariance, Agreement, PTL DEF Spec
=============================================================================
