----------------------------- MODULE LexerProofs -----------------------------
(***************************************************************************)
(* What holds of Lexer for every text, of any length and of any characters.*)
(***************************************************************************)
EXTENDS LexerTokens, FiniteSetTheorems, WellFoundedInduction, TLAPS

(* Sets of numbers have a least member, and a greatest one below a bound.  *)
LEMMA LeastMember ==
  ASSUME NEW S \in SUBSET Nat, S # {}
  PROVE  \E x \in S : \A y \in S : x <= y
<1> DEFINE Less == {ss \in Nat \X Nat : ss[1] < ss[2]}
<1>1. IsWellFoundedOn(Less, Nat)
  BY NatLessThanWellFounded DEF OpToRel
<1>2. PICK x \in S : \A y \in S : ~(<<y, x>> \in Less)
  BY <1>1, WFMin, Zenon
<1>3. ASSUME NEW y \in S  PROVE x <= y
  <2>1. x \in Nat /\ y \in Nat
    OBVIOUS
  <2>2. <<y, x>>[1] = y /\ <<y, x>>[2] = x /\ <<y, x>> \in Nat \X Nat
    BY <2>1
  <2>3. ~(y < x)
    BY <1>2, <2>2, Zenon
  <2> QED
    BY <2>1, <2>3
<1> QED
  BY <1>3

LEMMA MinProperties ==
  ASSUME NEW S \in SUBSET Nat, S # {}
  PROVE  Min(S) \in S /\ \A y \in S : Min(S) <= y
BY LeastMember DEF Min

LEMMA MaxProperties ==
  ASSUME NEW S \in SUBSET Nat, S # {}, NEW b \in Nat, \A y \in S : y <= b
  PROVE  Max(S) \in S /\ \A y \in S : y <= Max(S)
<1> DEFINE T == {b - y : y \in S}
<1>1. T \in SUBSET Nat /\ T # {}
  <2>1. \A y \in S : b - y \in Nat
    OBVIOUS
  <2> QED
    BY <2>1
<1>2. PICK t \in T : \A y \in T : t <= y
  BY <1>1, LeastMember
<1>3. PICK x \in S : t = b - x
  OBVIOUS
<1>4. \A y \in S : y <= x
  BY <1>2, <1>3
<1> QED
  BY <1>4 DEF Max

(* The greatest member is the only one that no other exceeds.              *)
LEMMA MaxIs ==
  ASSUME NEW S \in SUBSET Nat, NEW m \in S, \A y \in S : y <= m
  PROVE  Max(S) = m
<1>1. Max(S) \in S /\ \A y \in S : y <= Max(S)
  BY MaxProperties
<1>2. Max(S) \in Nat /\ m \in Nat /\ Max(S) <= m /\ m <= Max(S)
  BY <1>1
<1> QED
  BY <1>2

(* As many numbers are behind one as there are numbers.                    *)
LEMMA ShiftCardinality ==
  ASSUME NEW S \in SUBSET Nat, IsFiniteSet(S)
  PROVE  /\ IsFiniteSet({i + 1 : i \in S})
         /\ Cardinality({i + 1 : i \in S}) = Cardinality(S)
<1> DEFINE T == {i + 1 : i \in S}
           f == [i \in S |-> i + 1]
<1>1. f \in Bijection(S, T)
  BY DEF Bijection, Injection, Surjection, IsInjective
<1> QED
  BY <1>1, FS_Bijection DEF ExistsBijection

-----------------------------------------------------------------------------
(* std::find_if stays in its range, and stops at the first character that  *)
(* it looks for.                                                           *)
LEMMA FindIfProperties ==
  ASSUME input \in Seq(Chars), NEW from \in 1 .. Limit, NEW S
  PROVE  /\ FindIf(from, S) \in from .. Limit
         /\ \A i \in from .. FindIf(from, S) - 1 : input[i] \notin S
         /\ FindIf(from, S) < Limit => input[FindIf(from, S)] \in S
<1> DEFINE Q == {i \in from .. Len(input) : input[i] \in S} \cup {Limit}
<1>1. Len(input) \in Nat /\ Limit = Len(input) + 1 /\ Limit \in Nat /\ from \in Nat
  BY DEF Limit
<1>2. Q \in SUBSET Nat /\ Q # {}
  BY <1>1
<1>3. Min(Q) \in Q /\ \A y \in Q : Min(Q) <= y
  BY <1>2, MinProperties
<1>4. FindIf(from, S) = Min(Q)
  BY DEF FindIf
<1> HIDE DEF Q
<1> DEFINE m == Min(Q)
<1>5. m \in from .. Limit /\ (m < Limit => input[m] \in S)
  BY <1>1, <1>3 DEF Q
<1>6. ASSUME NEW i \in from .. m - 1  PROVE input[i] \notin S
  <2>1. i \in from .. Len(input) /\ ~(m <= i)
    BY <1>1, <1>5
  <2>2. i \notin Q
    BY <1>3, <2>1
  <2> QED
    BY <2>1, <2>2 DEF Q
<1> QED
  BY <1>4, <1>5, <1>6

-----------------------------------------------------------------------------
(* The newlines before a place, and the last of them; 0 when there is none.*)
Newlines(i) == {j \in 1 .. i - 1 : input[j] = NL}
LastNewline(i) == Max({0} \cup Newlines(i))

LEMMA PlaceIs ==
  ASSUME NEW i
  PROVE  Place(i) = [line |-> 1 + Cardinality(Newlines(i)), col |-> i - LastNewline(i)]
BY DEF Place, Newlines, LastNewline

LEMMA NewlinesProperties ==
  ASSUME NEW i \in Nat, i >= 1
  PROVE  /\ Newlines(i) \in SUBSET Nat /\ IsFiniteSet(Newlines(i))
         /\ Cardinality(Newlines(i)) \in Nat
         /\ LastNewline(i) \in {0} \cup Newlines(i)
         /\ LastNewline(i) \in Nat /\ LastNewline(i) < i
         /\ \A j \in Newlines(i) : j <= LastNewline(i)
<1>1. Newlines(i) \in SUBSET (1 .. i - 1) /\ IsFiniteSet(1 .. i - 1)
  BY FS_Interval DEF Newlines
<1>2. IsFiniteSet(Newlines(i)) /\ Cardinality(Newlines(i)) \in Nat
  BY <1>1, FS_Subset, FS_CardinalityType
<1>3. {0} \cup Newlines(i) \in SUBSET Nat /\ \A j \in {0} \cup Newlines(i) : j <= i
  BY <1>1
<1>4. /\ LastNewline(i) \in {0} \cup Newlines(i)
      /\ \A j \in {0} \cup Newlines(i) : j <= LastNewline(i)
  BY <1>3, MaxProperties DEF LastNewline
<1>5. LastNewline(i) \in Nat /\ LastNewline(i) < i
  BY <1>1, <1>4
<1> QED
  BY <1>1, <1>2, <1>4, <1>5

(* pos_t += range_t is exact: from the place of `from' it gets to that of  *)
(* `to', whatever newlines are between them.                               *)
LEMMA AdvanceIsExact ==
  ASSUME NEW from \in Nat, from >= 1, NEW to \in Nat, from <= to
  PROVE  Advance(Place(from), from, to) = Place(to)
<1> DEFINE A == Newlines(from)
           B == {i \in from .. to - 1 : input[i] = NL}
           C == Newlines(to)
<1>1. A \cup B = C /\ A \cap B = {}
  BY DEF Newlines
<1>2. /\ A \in SUBSET Nat /\ IsFiniteSet(A) /\ Cardinality(A) \in Nat
      /\ C \in SUBSET Nat /\ IsFiniteSet(C) /\ Cardinality(C) \in Nat
      /\ LastNewline(from) \in Nat /\ LastNewline(to) \in {0} \cup C
      /\ \A j \in C : j <= LastNewline(to)
      /\ \A j \in A : j < from
      /\ LastNewline(to) \in Nat
  BY NewlinesProperties DEF Newlines
<1>3. B \subseteq C /\ B \in SUBSET Nat /\ IsFiniteSet(B) /\ Cardinality(B) \in Nat
  BY <1>1, <1>2, FS_Subset, FS_CardinalityType
<1>4. Cardinality(C) = Cardinality(A) + Cardinality(B)
  <2>1. Cardinality(A \cup B) = Cardinality(A) + Cardinality(B) - Cardinality(A \cap B)
    BY <1>2, <1>3, FS_Union
  <2>2. Cardinality(A \cap B) = 0
    BY <1>1, FS_EmptySet
  <2>3. Cardinality(A \cup B) = Cardinality(C)
    BY <1>1
  <2> HIDE DEF A, B, C
  <2> QED
    BY <1>2, <1>3, <2>1, <2>2, <2>3
<1>5. Place(from) = [line |-> 1 + Cardinality(A), col |-> from - LastNewline(from)]
  BY PlaceIs
<1>6. Place(to) = [line |-> 1 + Cardinality(C), col |-> to - LastNewline(to)]
  BY PlaceIs
<1>7. Advance(Place(from), from, to) =
        IF B = {} THEN [Place(from) EXCEPT !.col = @ + (to - from)]
        ELSE [line |-> Place(from).line + Cardinality(B), col |-> to - Max(B)]
  BY DEF Advance
<1>8. CASE B = {}
  <2>1. C = A
    BY <1>1, <1>8
  <2>2. LastNewline(to) = LastNewline(from)
    BY <2>1 DEF LastNewline
  <2>3. from - LastNewline(from) + (to - from) = to - LastNewline(to)
    BY <1>2, <2>2
  <2> HIDE DEF A, B, C
  <2> QED
    BY <1>5, <1>6, <1>7, <1>8, <2>1, <2>3
<1>9. CASE B # {}
  <2>1. PICK b \in B : TRUE
    BY <1>9
  <2>2. LastNewline(to) \in B
    <3>1. b \in C /\ b >= from /\ b <= LastNewline(to)
      BY <1>2, <1>3, <2>1
    <3>2. LastNewline(to) >= from
      BY <1>2, <1>3, <3>1
    <3> QED
      BY <1>1, <1>2, <3>2
  <2>3. Max(B) = LastNewline(to)
    BY <1>2, <1>3, <2>2, MaxIs
  <2>4. Place(from).line + Cardinality(B) = 1 + Cardinality(C)
    BY <1>2, <1>3, <1>4, <1>5
  <2> HIDE DEF A, B, C
  <2> QED
    BY <1>6, <1>7, <1>9, <2>3, <2>4
<1> QED
  BY <1>8, <1>9

(* pos_t += size_t is, as long as no newline is passed.                    *)
LEMMA RightIsExact ==
  ASSUME NEW from \in Nat, from >= 1, NEW n \in Nat,
         \A i \in from .. from + n - 1 : input[i] # NL
  PROVE  Right(Place(from), n) = Place(from + n)
<1>1. {i \in from .. from + n - 1 : input[i] = NL} = {}
  OBVIOUS
<1>2. from + n \in Nat /\ from <= from + n /\ from + n - from = n
  OBVIOUS
<1>3. Advance(Place(from), from, from + n) = Place(from + n)
  BY <1>2, AdvanceIsExact
<1>4. Advance(Place(from), from, from + n) = [Place(from) EXCEPT !.col = @ + (from + n - from)]
  BY <1>1 DEF Advance
<1> QED
  BY <1>2, <1>3, <1>4 DEF Right

-----------------------------------------------------------------------------
(* build_ln_ptrs: a line begins at 1 and behind each newline.              *)
LEMMA LineStartsBelow ==
  ASSUME input \in Seq(Chars), NEW i \in 1 .. Limit
  PROVE  LET s == LastNewline(i) + 1
         IN  /\ s \in LineStarts
             /\ IsFiniteSet({t \in LineStarts : t < s})
             /\ Cardinality({t \in LineStarts : t < s}) = Cardinality(Newlines(i))
<1> DEFINE m == LastNewline(i)
           s == m + 1
           N == Newlines(i)
           Below == {t \in LineStarts : t < s}
<1>1. /\ i \in Nat /\ i >= 1 /\ Len(input) \in Nat /\ i <= Len(input) + 1
      /\ N \in SUBSET Nat /\ IsFiniteSet(N) /\ m \in Nat /\ m < i
      /\ m \in {0} \cup N /\ \A j \in N : j <= m
  BY NewlinesProperties DEF Limit
<1>2. CASE m = 0
  <2>1. N = {}
    BY <1>1, <1>2 DEF Newlines
  <2>2. s = 1 /\ s \in LineStarts
    BY <1>2 DEF LineStarts
  <2>3. Below = {}
    BY <2>2 DEF LineStarts
  <2> QED
    BY <2>1, <2>2, <2>3, FS_EmptySet
<1>3. CASE m # 0
  <2> DEFINE R == N \ {m}
             U == {j + 1 : j \in R}
  <2>1. m \in N /\ input[m] = NL /\ m \in 1 .. Len(input)
    BY <1>1, <1>3 DEF Newlines
  <2>2. s \in LineStarts
    BY <2>1 DEF LineStarts
  <2>3. /\ R \in SUBSET Nat /\ IsFiniteSet(R) /\ Cardinality(R) = Cardinality(N) - 1
        /\ Cardinality(R) \in Nat
    BY <1>1, <2>1, FS_RemoveElement, FS_Subset, FS_CardinalityType
  <2>4. IsFiniteSet(U) /\ Cardinality(U) = Cardinality(R)
    BY <2>3, ShiftCardinality
  <2>5. Below = U \cup {1}
    <3>1. ASSUME NEW t \in Below  PROVE t \in U \cup {1}
      <4>1. CASE t = 1
        BY <4>1
      <4>2. CASE t # 1
        <5>1. PICK j \in 1 .. Len(input) : input[j] = NL /\ t = j + 1
          BY <4>2 DEF LineStarts
        <5>2. j < m
          BY <1>1, <5>1
        <5>3. j \in R
          BY <1>1, <5>1, <5>2 DEF Newlines
        <5> QED
          BY <5>1, <5>3
      <4> QED
        BY <4>1, <4>2
    <3>2. 1 \in Below
      BY <1>1, <1>3 DEF LineStarts
    <3>3. ASSUME NEW j \in R  PROVE j + 1 \in Below
      <4>1. j \in 1 .. Len(input) /\ input[j] = NL /\ j < m
        BY <1>1 DEF Newlines
      <4> QED
        BY <1>1, <4>1 DEF LineStarts
    <3> QED
      BY <3>1, <3>2, <3>3
  <2>6. 1 \notin U
    <3> SUFFICES ASSUME NEW j \in R, j + 1 = 1  PROVE FALSE
      OBVIOUS
    <3> QED
      BY DEF Newlines
  <2>7. /\ IsFiniteSet(U \cup {1})
        /\ Cardinality(U \cup {1}) = Cardinality(U) + 1
    BY <2>4, <2>6, FS_AddElement
  <2>8. Cardinality(N) \in Nat
    BY <1>1, FS_CardinalityType
  <2>9. Cardinality(Below) = Cardinality(N) /\ IsFiniteSet(Below)
    <3> HIDE DEF U, R, N, Below
    <3> QED
      BY <2>3, <2>4, <2>5, <2>7, <2>8
  <2> QED
    BY <2>2, <2>9
<1> QED
  BY <1>2, <1>3

(* Two lines do not begin behind as many others.                           *)
LEMMA LineStartsDiffer ==
  ASSUME NEW s \in LineStarts, NEW t \in LineStarts, s < t,
         input \in Seq(Chars)
  PROVE  Cardinality({u \in LineStarts : u < s}) < Cardinality({u \in LineStarts : u < t})
<1> DEFINE A == {u \in LineStarts : u < s}
           B == {u \in LineStarts : u < t}
<1>1. LineStarts \in SUBSET (1 .. Len(input) + 1) /\ Len(input) \in Nat
  BY DEF LineStarts
<1>2. IsFiniteSet(LineStarts)
  <2>1. IsFiniteSet(1 .. Len(input) + 1)
    BY <1>1, FS_Interval
  <2> QED
    BY <1>1, <2>1, FS_Subset
<1>3. A \subseteq B /\ s \in B /\ s \notin A /\ B \subseteq LineStarts
  <2>1. \A u \in LineStarts : u \in Nat
    BY <1>1
  <2>2. s \in Nat /\ t \in Nat
    BY <2>1
  <2>3. ASSUME NEW u \in A  PROVE u \in B
    <3>1. u \in LineStarts /\ u < s /\ u \in Nat
      BY <2>1
    <3>2. u < t
      BY <2>2, <3>1
    <3> QED
      BY <3>1, <3>2
  <2>4. s \notin A
    BY <2>2
  <2> QED
    BY <2>3, <2>4
<1>4. IsFiniteSet(B)
  BY <1>2, <1>3, FS_Subset
<1>5. A # B /\ IsFiniteSet(A)
  BY <1>3, <1>4, FS_Subset
<1> HIDE DEF A, B
<1>6. Cardinality(A) < Cardinality(B)
  <2>1. /\ Cardinality(A) \in Nat /\ Cardinality(B) \in Nat
        /\ Cardinality(A) <= Cardinality(B)
        /\ Cardinality(A) = Cardinality(B) => A = B
    BY <1>3, <1>4, FS_Subset, FS_CardinalityType
  <2> QED
    BY <1>5, <2>1
<1> QED
  BY <1>6 DEF A, B

(* ln_ptrs[line - 1] is where the line of a place begins.                  *)
LEMMA LnPtrIsLineStart ==
  ASSUME input \in Seq(Chars), NEW i \in 1 .. Limit
  PROVE  LnPtr(Place(i).line) = LastNewline(i) + 1
<1> DEFINE s == LastNewline(i) + 1
           n == Cardinality(Newlines(i))
<1>1. /\ s \in LineStarts /\ Cardinality({t \in LineStarts : t < s}) = n
  BY LineStartsBelow
<1>2. Place(i).line - 1 = n
  <2>1. i \in Nat /\ i >= 1
    BY DEF Limit
  <2>2. n \in Nat
    BY <2>1, NewlinesProperties
  <2>3. Place(i).line = 1 + n
    BY PlaceIs
  <2> QED
    BY <2>2, <2>3
<1>3. ASSUME NEW t \in LineStarts, Cardinality({u \in LineStarts : u < t}) = n
      PROVE  t = s
  <2>1. t \in Nat /\ s \in Nat
    BY <1>1 DEF LineStarts
  <2>2. n \in Nat
    BY NewlinesProperties DEF Limit
  <2>3. ~(t < s) /\ ~(s < t)
    <3> HIDE DEF s, n
    <3>1. t < s => n < n
      BY <1>1, <1>3, LineStartsDiffer, Zenon
    <3>2. s < t => n < n
      BY <1>1, <1>3, LineStartsDiffer, Zenon
    <3> QED
      BY <2>2, <3>1, <3>2
  <2> QED
    BY <2>1, <2>3
<1> HIDE DEF s, n
<1>4. LnPtr(Place(i).line) = CHOOSE t \in LineStarts : Cardinality({u \in LineStarts : u < t}) = n
  BY <1>2 DEF LnPtr
<1>5. LnPtr(Place(i).line) = s
  BY <1>1, <1>3, <1>4
<1> QED
  BY <1>5 DEF s

(* A place has a line, and a further one if a newline is at it or behind.  *)
LEMMA LinesOfPlace ==
  ASSUME input \in Seq(Chars), NEW i \in 1 .. Limit
  PROVE  LET k == Place(i).line
         IN  /\ k \in 1 .. Cardinality(LineStarts)
             /\ k < Cardinality(LineStarts) <=> \E j \in i .. Len(input) : input[j] = NL
<1> DEFINE k == Place(i).line
           All == {j \in 1 .. Len(input) : input[j] = NL}
           U == {j + 1 : j \in All}
           N == Newlines(i)
<1>1. /\ Len(input) \in Nat /\ i \in Nat /\ i >= 1 /\ i <= Len(input) + 1
      /\ N \in SUBSET Nat /\ IsFiniteSet(N) /\ Cardinality(N) \in Nat
  BY NewlinesProperties DEF Limit
<1>2. All \in SUBSET Nat /\ IsFiniteSet(All) /\ Cardinality(All) \in Nat
  <2>1. IsFiniteSet(1 .. Len(input)) /\ All \in SUBSET (1 .. Len(input))
    BY <1>1, FS_Interval
  <2> QED
    BY <2>1, FS_Subset, FS_CardinalityType
<1>3. Cardinality(LineStarts) = Cardinality(All) + 1
  <2>1. IsFiniteSet(U) /\ Cardinality(U) = Cardinality(All)
    BY <1>2, ShiftCardinality
  <2>2. 1 \notin U
    <3> SUFFICES ASSUME NEW j \in All, j + 1 = 1  PROVE FALSE
      OBVIOUS
    <3> QED
      OBVIOUS
  <2>3. Cardinality(U \cup {1}) = Cardinality(U) + 1
    BY <2>1, <2>2, FS_AddElement
  <2>4. LineStarts = U \cup {1}
    BY DEF LineStarts
  <2> HIDE DEF U, All
  <2> QED
    BY <2>1, <2>3, <2>4
<1>4. k = 1 + Cardinality(N)
  BY PlaceIs
<1>5. N \subseteq All
  BY <1>1 DEF Newlines
<1>6. /\ Cardinality(N) <= Cardinality(All)
      /\ Cardinality(N) = Cardinality(All) => N = All
  BY <1>2, <1>5, FS_Subset
<1>7. N # All <=> \E j \in i .. Len(input) : input[j] = NL
  BY <1>1 DEF Newlines
<1>8. N = All => Cardinality(N) = Cardinality(All)
  OBVIOUS
<1> HIDE DEF N, All, k
<1>9. /\ k \in 1 .. Cardinality(LineStarts)
      /\ k < Cardinality(LineStarts) <=> N # All
  BY <1>1, <1>2, <1>3, <1>4, <1>6, <1>8
<1> QED
  BY <1>7, <1>9 DEF k

(* verror: the line it shows is the one of the error's place, without its  *)
(* newline, and the place is in it or at its end.                          *)
LEMMA LineShowsPlace ==
  ASSUME input \in Seq(Chars), NEW i \in 1 .. Limit
  PROVE  LET line == Line(Place(i).line)
         IN  /\ line.beg \in Nat /\ line.beg >= 1 /\ line.beg <= i
             /\ line.end \in Nat /\ i <= line.end /\ line.end <= Limit
             /\ line.beg + (Place(i).col - 1) = i /\ Place(i).col \in Nat \ {0}
             /\ \A j \in line.beg .. line.end - 1 : input[j] # NL
<1> DEFINE k == Place(i).line
           m == LastNewline(i)
           more == k < Cardinality(LineStarts)
           end == IF more THEN LnPtr(k + 1) ELSE Limit
<1>1. /\ Len(input) \in Nat /\ Limit = Len(input) + 1
      /\ i \in Nat /\ i >= 1 /\ i <= Limit
      /\ m \in Nat /\ m < i /\ m \in {0} \cup Newlines(i)
      /\ \A j \in Newlines(i) : j <= m
  BY NewlinesProperties DEF Limit
<1>2. LnPtr(k) = m + 1
  BY LnPtrIsLineStart
<1>3. Place(i).col = i - m
  BY PlaceIs
<1>4. \A j \in m + 1 .. i - 1 : input[j] # NL
  <2> SUFFICES ASSUME NEW j \in m + 1 .. i - 1, input[j] = NL  PROVE FALSE
    OBVIOUS
  <2>1. j \in Newlines(i) /\ j > m /\ j \in Nat
    BY <1>1 DEF Newlines
  <2> QED
    BY <1>1, <2>1
<1>5. Line(k) = [beg |-> m + 1,
                 end |-> IF end > m + 1 /\ input[end - 1] = NL THEN end - 1 ELSE end]
  BY <1>2 DEF Line
<1>6. more <=> \E j \in i .. Len(input) : input[j] = NL
  BY LinesOfPlace
<1>7. CASE ~more
  <2>1. end = Limit
    BY <1>7
  <2>2. ~(end > m + 1 /\ input[end - 1] = NL)
    <3> SUFFICES ASSUME Limit > m + 1, input[Limit - 1] = NL  PROVE FALSE
      BY <2>1
    <3>1. Limit - 1 \in 1 .. Len(input) /\ Limit - 1 = Len(input)
      BY <1>1
    <3>2. ~(Limit - 1 \in i .. Len(input))
      BY <1>6, <1>7, <3>1
    <3>3. i = Limit
      BY <1>1, <3>1, <3>2
    <3> QED
      BY <1>1, <1>4, <3>1, <3>3
  <2>3. Line(k).beg = m + 1 /\ Line(k).end = Limit
    BY <1>5, <2>1, <2>2
  <2>4. \A j \in m + 1 .. Limit - 1 : input[j] # NL
    <3> SUFFICES ASSUME NEW j \in m + 1 .. Limit - 1, input[j] = NL  PROVE FALSE
      OBVIOUS
    <3>1. j \in m + 1 .. i - 1 \/ j \in i .. Len(input)
      BY <1>1
    <3> QED
      BY <1>4, <1>6, <1>7, <3>1
  <2> HIDE DEF k, m, more, end
  <2>5. /\ m + 1 \in Nat /\ m + 1 >= 1 /\ m + 1 <= i /\ Limit \in Nat
        /\ m + 1 + (i - m - 1) = i /\ i - m \in Nat \ {0}
    BY <1>1
  <2>6. Place(i).col - 1 = i - m - 1
    BY <1>1, <1>3
  <2>7. Line(k).beg + (Place(i).col - 1) = i
    BY <1>1, <1>3, <2>3
  <2> QED
    BY <1>1, <1>3, <2>3, <2>4, <2>5, <2>7 DEF k
<1>8. CASE more
  <2> DEFINE Q == {j \in i .. Len(input) : input[j] = NL}
             q == Min(Q)
  <2>1. Q \in SUBSET Nat /\ Q # {}
    BY <1>1, <1>6, <1>8
  <2>2. q \in Q /\ \A j \in Q : q <= j
    BY <2>1, MinProperties
  <2>3. q \in Nat /\ i <= q /\ q <= Len(input) /\ input[q] = NL
    BY <1>1, <2>2
  <2>4. \A j \in i .. q - 1 : input[j] # NL
    <3> SUFFICES ASSUME NEW j \in i .. q - 1, input[j] = NL  PROVE FALSE
      OBVIOUS
    <3>1. j \in Q /\ j < q /\ j \in Nat
      BY <1>1, <2>3
    <3> QED
      BY <2>2, <2>3, <3>1
  <2> HIDE DEF Q, q
  <2>5. LastNewline(q + 1) = q
    <3>1. Newlines(q + 1) \in SUBSET Nat /\ q \in Newlines(q + 1)
      BY <1>1, <2>3 DEF Newlines
    <3>2. \A j \in {0} \cup Newlines(q + 1) : j <= q
      BY <2>3 DEF Newlines
    <3> QED
      BY <3>1, <3>2, MaxIs DEF LastNewline
  <2>6. Place(q + 1).line = k + 1
    <3>1. Newlines(q + 1) = Newlines(i) \cup {q} /\ q \notin Newlines(i)
      <4>1. ASSUME NEW j \in Newlines(q + 1)  PROVE j \in Newlines(i) \cup {q}
        <5>1. j \in 1 .. i - 1 \/ j \in i .. q - 1 \/ j = q
          BY <1>1, <2>3 DEF Newlines
        <5> QED
          BY <2>4, <5>1 DEF Newlines
      <4>2. Newlines(i) \cup {q} \subseteq Newlines(q + 1)
        BY <1>1, <2>3 DEF Newlines
      <4>3. q \notin Newlines(i)
        BY <1>1, <2>3 DEF Newlines
      <4> QED
        BY <4>1, <4>2, <4>3
    <3>2. IsFiniteSet(Newlines(i)) /\ Cardinality(Newlines(i)) \in Nat
      BY <1>1, NewlinesProperties
    <3>3. Cardinality(Newlines(q + 1)) = Cardinality(Newlines(i)) + 1
      BY <3>1, <3>2, FS_AddElement
    <3>4. Place(q + 1).line = 1 + Cardinality(Newlines(q + 1))
      BY PlaceIs
    <3>5. k = 1 + Cardinality(Newlines(i))
      BY PlaceIs
    <3> HIDE DEF k
    <3> QED
      BY <3>2, <3>3, <3>4, <3>5
  <2>7. end = q + 1
    <3>1. q + 1 \in 1 .. Limit
      BY <1>1, <2>3
    <3>2. LnPtr(k + 1) = q + 1
      BY <2>5, <2>6, <3>1, LnPtrIsLineStart
    <3> QED
      BY <1>8, <3>2
  <2>8. Line(k).beg = m + 1 /\ Line(k).end = q
    <3> HIDE DEF k, m, end
    <3>1. end > m + 1 /\ end - 1 = q /\ input[end - 1] = NL
      BY <1>1, <2>3, <2>7
    <3> QED
      BY <1>5, <3>1
  <2>9. \A j \in m + 1 .. q - 1 : input[j] # NL
    <3> SUFFICES ASSUME NEW j \in m + 1 .. q - 1  PROVE input[j] # NL
      OBVIOUS
    <3>1. j \in m + 1 .. i - 1 \/ j \in i .. q - 1
      BY <1>1, <2>3
    <3> QED
      BY <1>4, <2>4, <3>1
  <2> HIDE DEF k, m, more, end
  <2>10. /\ m + 1 \in Nat /\ m + 1 >= 1 /\ m + 1 <= i
         /\ i - m \in Nat \ {0} /\ q <= Limit
    BY <1>1, <2>3
  <2>11. Line(k).beg + (Place(i).col - 1) = i
    BY <1>1, <1>3, <2>8
  <2> QED
    BY <1>3, <2>3, <2>8, <2>9, <2>10, <2>11 DEF k
<1> QED
  BY <1>7, <1>8

-----------------------------------------------------------------------------
Token  == [type : Types, pos : Positions, beg : Nat, end : Nat]
Phases == {"parser", "spaces", "token", "literal", "dump", "verror",
           "done", "thrown", "aborted"}

Placed(tok) == First(tok) \in 1 .. Limit + 1 /\ tok.pos = Place(Clip(First(tok)))

Basics ==
  /\ input \in Seq(Chars) /\ nle \in BOOLEAN /\ debug \in BOOLEAN
  /\ phase \in Phases
  /\ toks \in Seq(Token)
  /\ scan \in Nat /\ scan <= Limit

(* Only the debug build passes the end of the input, and only to find it.  *)
Pointers ==
  /\ ptr \in Nat /\ ptr >= 1 /\ ptr <= Limit + 1
  /\ ptr = Limit + 1 => debug /\ nle /\ (phase = "token" \/ AtEnd)
  /\ phase \in {"spaces", "token", "literal"} => ~AtEnd
  /\ phase = "literal" =>
       /\ ptr < scan /\ input[ptr] \in Quotes
       /\ \A j \in ptr .. scan - 1 : input[j] # NL

Errors ==
  /\ phase \notin {"verror", "thrown"} => error = NoError
  /\ phase \in {"verror", "thrown"} => \E i \in 1 .. Limit : error.pos = Place(i)
  /\ phase = "thrown" =>
       /\ 1 <= shown.beg /\ shown.beg <= shown.mark
       /\ shown.mark <= shown.end /\ shown.end <= Limit
       /\ \A i \in shown.beg .. shown.end - 1 : input[i] # NL
       /\ Place(shown.mark) = error.pos

IInv == Basics /\ Pointers /\ PositionsExact /\ Errors
        /\ \A k \in DOMAIN toks : First(toks[k]) \in 1 .. Limit + 1

(* The kinds of characters, as the actions tell them apart.                *)
LEMMA CharFacts ==
  /\ NL \notin Marks \cup Words \cup Quotes /\ NL # Backslash /\ NL # Hash
  /\ End \notin Chars
<1> DEFINE K == Kinds
<1>1. DOMAIN K = 1 .. 10
  BY DEF Kinds
<1>2. \A i \in 1 .. 10, j \in 1 .. 10 : i # j => K[i] \cap K[j] = {}
  BY <1>1, CharAssumption
<1>3. /\ K[1] = Marks /\ K[2] = Uppers /\ K[3] = Lowers /\ K[4] = Digits
      /\ K[5] = Quotes /\ K[6] = Blanks \cup Controls /\ K[7] = {NL}
      /\ K[8] = {Hash} /\ K[9] = {Backslash} /\ K[10] = {End}
  BY DEF Kinds
<1> HIDE DEF K
<1>4. /\ K[1] \cap K[7] = {} /\ K[2] \cap K[7] = {} /\ K[3] \cap K[7] = {}
      /\ K[4] \cap K[7] = {} /\ K[5] \cap K[7] = {}
      /\ K[8] \cap K[7] = {} /\ K[9] \cap K[7] = {}
  BY <1>2
<1>5. \A i \in 1 .. 9 : K[i] \cap K[10] = {}
  BY <1>2
<1>6. NL \notin Marks \cup Words \cup Quotes /\ NL # Backslash /\ NL # Hash
  BY <1>3, <1>4 DEF Words
<1>7. /\ K[1] \cap K[10] = {} /\ K[2] \cap K[10] = {} /\ K[3] \cap K[10] = {}
      /\ K[4] \cap K[10] = {} /\ K[5] \cap K[10] = {} /\ K[6] \cap K[10] = {}
      /\ K[7] \cap K[10] = {} /\ K[8] \cap K[10] = {} /\ K[9] \cap K[10] = {}
  BY <1>5
<1>8. End \notin Chars
  BY <1>3, <1>7 DEF Chars, Spaces, Words
<1> QED
  BY <1>6, <1>8

LEMMA CharAtIn ==
  ASSUME NEW S, NEW i \in Nat, CharAt(i) \in S, End \notin S
  PROVE  i < Limit /\ input[i] \in S
BY DEF CharAt

LEMMA PlaceType ==
  ASSUME NEW i \in Nat, i >= 1  PROVE Place(i) \in Positions
<1>1. /\ Cardinality(Newlines(i)) \in Nat
      /\ LastNewline(i) \in Nat /\ LastNewline(i) < i
  BY NewlinesProperties
<1>2. 1 + Cardinality(Newlines(i)) \in Nat \ {0} /\ i - LastNewline(i) \in Nat \ {0}
  BY <1>1
<1> QED
  BY <1>2, PlaceIs DEF Positions

(* Places do not change while the input does not.                          *)
LEMMA SameInput ==
  ASSUME UNCHANGED input
  PROVE  Limit' = Limit /\ \A i : Place(i)' = Place(i)
<1>1. Limit' = Limit
  BY DEF Limit
<1>2. ASSUME NEW i  PROVE Place(i)' = Place(i)
  BY DEF Place
<1> QED
  BY <1>1, <1>2

(* What the tokens keep when one is added.                                 *)
LEMMA OneMoreToken ==
  ASSUME IInv, UNCHANGED input, NEW tok \in Token, toks' = Append(toks, tok),
         First(tok) \in 1 .. Limit + 1, tok.pos = Place(Clip(First(tok)))
  PROVE  /\ toks' \in Seq(Token)
         /\ AtEnd' <=> tok.type = "eos"
         /\ \A k \in DOMAIN toks' :
              /\ First(toks'[k]) \in 1 .. Limit + 1
              /\ toks'[k].pos = Place(Clip(First(toks'[k])))
<1>1. toks \in Seq(Token)
  BY DEF IInv, Basics
<1>2. /\ toks' \in Seq(Token) /\ Len(toks') = Len(toks) + 1 /\ Len(toks) \in Nat
      /\ DOMAIN toks' = 1 .. Len(toks) + 1 /\ toks'[Len(toks) + 1] = tok
      /\ \A k \in DOMAIN toks : toks'[k] = toks[k]
  BY <1>1
<1>3. AtEnd' <=> tok.type = "eos"
  <2>1. toks' # <<>>
    BY <1>2
  <2> QED
    BY <1>2, <2>1 DEF AtEnd
<1>4. ASSUME NEW k \in DOMAIN toks'
      PROVE  /\ First(toks'[k]) \in 1 .. Limit + 1
             /\ toks'[k].pos = Place(Clip(First(toks'[k])))
  <2>1. CASE k = Len(toks) + 1
    BY <1>2, <2>1
  <2>2. CASE k # Len(toks) + 1
    <3>1. k \in DOMAIN toks
      BY <1>1, <1>2, <2>2
    <3> QED
      BY <1>2, <3>1 DEF IInv, PositionsExact
  <2> QED
    BY <2>1, <2>2
<1> QED
  BY <1>2, <1>3, <1>4

LEMMA PositionsNext ==
  ASSUME UNCHANGED input, pos' = Place(Clip(ptr')),
         \A k \in DOMAIN toks' :
           /\ First(toks'[k]) \in 1 .. Limit + 1
           /\ toks'[k].pos = Place(Clip(First(toks'[k])))
  PROVE  PositionsExact' /\ (\A k \in DOMAIN toks : First(toks[k]) \in 1 .. Limit + 1)'
<1>1. Limit' = Limit /\ \A i : Place(i)' = Place(i)
  BY SameInput
<1>2. pos' = Place(Clip(ptr))'
  <2>1. Clip(ptr)' = Clip(ptr')
    BY <1>1 DEF Clip
  <2> QED
    BY <2>1, <1>1 DEF Place
<1>3. ASSUME NEW k \in DOMAIN toks'
      PROVE  /\ (First(toks[k]) \in 1 .. Limit + 1)'
             /\ toks'[k].pos = Place(Clip(First(toks[k])))'
  <2>1. First(toks[k])' = First(toks'[k])
    BY DEF First, Literal
  <2>2. Clip(First(toks[k]))' = Clip(First(toks'[k]))
    BY <1>1, <2>1 DEF Clip
  <2>3. Place(Clip(First(toks[k])))' = Place(Clip(First(toks'[k])))
    BY <1>1, <2>2 DEF Place
  <2> QED
    BY <1>1, <2>1, <2>3
<1> QED
  BY <1>2, <1>3 DEF PositionsExact

(* When no token is given.                                                 *)
LEMMA SameTokens ==
  ASSUME IInv, UNCHANGED <<input, toks>>, pos' = Place(Clip(ptr'))
  PROVE  /\ PositionsExact' /\ (\A k \in DOMAIN toks : First(toks[k]) \in 1 .. Limit + 1)'
         /\ AtEnd' <=> AtEnd
<1>1. \A k \in DOMAIN toks' :
           /\ First(toks'[k]) \in 1 .. Limit + 1
           /\ toks'[k].pos = Place(Clip(First(toks'[k])))
  BY DEF IInv, PositionsExact
<1>2. AtEnd' <=> AtEnd
  BY DEF AtEnd
<1> QED
  BY <1>1, <1>2, PositionsNext

(* What the other steps of the parser leave as it is.                      *)
LEMMA ParserStepPreserves ==
  ASSUME IInv, AskToken \/ EndParse  PROVE IInv'
<1>1. /\ UNCHANGED <<input, nle, debug, ptr, pos, toks, scan, error, shown>>
      /\ phase = "parser"
      /\ \/ phase' = "spaces" /\ ~AtEnd
         \/ phase' = "done" /\ AtEnd
  BY DEF AskToken, EndParse
<1>2. pos' = Place(Clip(ptr'))
  BY <1>1 DEF IInv, PositionsExact
<1>3. /\ PositionsExact' /\ (\A k \in DOMAIN toks : First(toks[k]) \in 1 .. Limit + 1)'
      /\ AtEnd' <=> AtEnd
  BY <1>1, <1>2, SameTokens
<1>4. Limit' = Limit
  BY <1>1 DEF Limit
<1>5. Basics' /\ Pointers' /\ Errors'
  <2>1. Basics'
    BY <1>1, <1>4 DEF IInv, Basics, Phases
  <2>2. Pointers'
    BY <1>1, <1>3, <1>4 DEF IInv, Pointers
  <2>3. Errors'
    BY <1>1 DEF IInv, Errors
  <2> QED
    BY <2>1, <2>2, <2>3
<1> QED
  BY <1>3, <1>5 DEF IInv

(* An error at the place of a character of the input, or at its end.       *)
LEMMA ErrorPreserves ==
  ASSUME IInv, NEW i \in 1 .. Limit, NEW why, Error(Place(i), why),
         UNCHANGED <<input, nle, debug, ptr, pos, toks, scan, shown>>,
         phase \in {"parser", "token", "literal"}, phase = "token" => ptr <= Limit
  PROVE  IInv'
<1>1. phase' = "verror" /\ error'.pos = Place(i)
  BY DEF Error
<1>2. pos' = Place(Clip(ptr'))
  BY DEF IInv, PositionsExact
<1>3. /\ PositionsExact' /\ (\A k \in DOMAIN toks : First(toks[k]) \in 1 .. Limit + 1)'
      /\ AtEnd' <=> AtEnd
  BY <1>2, SameTokens
<1>4. Limit' = Limit /\ \A j : Place(j)' = Place(j)
  BY SameInput
<1>5. Basics'
  BY <1>1, <1>4 DEF IInv, Basics, Phases
<1>6. Pointers'
  <2>1. ptr' \in Nat /\ ptr' >= 1 /\ ptr' <= Limit' + 1
    BY <1>4 DEF IInv, Pointers
  <2>2. ptr' = Limit' + 1 => debug' /\ nle' /\ AtEnd'
    <3>1. Limit \in Nat
      BY DEF IInv, Basics, Limit
    <3>2. ptr = Limit + 1 => debug /\ nle /\ (phase = "token" \/ AtEnd)
      BY DEF IInv, Pointers
    <3>3. ~(Limit + 1 <= Limit)
      BY <3>1
    <3> QED
      BY <1>3, <1>4, <3>2, <3>3
  <2> QED
    BY <1>1, <2>1, <2>2 DEF Pointers
<1>7. Errors'
  <2>1. (\E j \in 1 .. Limit : error.pos = Place(j))'
    BY <1>1, <1>4
  <2> QED
    BY <1>1, <2>1 DEF Errors
<1> QED
  BY <1>3, <1>5, <1>6, <1>7 DEF IInv

(* The parser refuses a token, whose place it is then that of the error.   *)
LEMMA RefuseTokenPreserves ==
  ASSUME IInv, RefuseToken  PROVE IInv'
<1>1. PICK k \in DOMAIN toks : Error(toks[k].pos, "token")
  BY DEF RefuseToken
<1>2. /\ phase = "parser"
      /\ UNCHANGED <<input, nle, debug, ptr, pos, toks, scan, shown>>
  BY DEF RefuseToken
<1>3. /\ toks[k].pos = Place(Clip(First(toks[k])))
      /\ First(toks[k]) \in 1 .. Limit + 1
  BY DEF IInv, PositionsExact
<1>4. Clip(First(toks[k])) \in 1 .. Limit
  <2>1. Limit \in Nat /\ Limit >= 1
    BY DEF IInv, Basics, Limit
  <2> QED
    BY <1>3, <2>1 DEF Clip
<1> QED
  BY <1>1, <1>2, <1>3, <1>4, ErrorPreserves

(* skip_spaces: the position follows the pointer, over newlines as over    *)
(* other spaces, and the debug build leaves it at the end.                 *)
LEMMA SkipSpacesPreserves ==
  ASSUME IInv, SkipSpaces  PROVE IInv'
<1> DEFINE past == FindIf(ptr, Chars \ Spaces)
           to == IF CharAt(past) = Hash THEN FindIf(past + 1, {NL}) ELSE past
<1>1. /\ phase = "spaces" /\ phase' = "token"
      /\ UNCHANGED <<input, nle, debug, toks, scan, error, shown>>
      /\ ptr' = IF debug /\ to > ptr /\ to = Limit /\ nle THEN to + 1 ELSE to
      /\ pos' = Advance(pos, ptr, to)
  BY DEF SkipSpaces
<1>2. input \in Seq(Chars) /\ Limit \in Nat /\ Limit >= 1
  BY DEF IInv, Basics, Limit
<1>3. /\ ptr \in 1 .. Limit /\ pos = Place(ptr) /\ ~AtEnd /\ error = NoError
      /\ ptr \in Nat /\ ptr >= 1
  <2>1. ptr \in Nat /\ ptr >= 1 /\ ptr <= Limit + 1 /\ ptr # Limit + 1 /\ ~AtEnd
    BY <1>1 DEF IInv, Pointers
  <2>2. ptr <= Limit
    BY <1>2, <2>1
  <2>3. pos = Place(ptr)
    BY <1>2, <2>1, <2>2 DEF IInv, PositionsExact, Clip
  <2>4. error = NoError
    BY <1>1 DEF IInv, Errors
  <2> QED
    BY <1>2, <2>1, <2>2, <2>3, <2>4
<1>4. past \in ptr .. Limit
  BY <1>2, <1>3, FindIfProperties
<1>5. to \in ptr .. Limit
  <2>1. CASE CharAt(past) = Hash
    <3>1. past < Limit /\ past \in Nat
      <4>1. Hash # End
        BY CharFacts DEF Chars
      <4> QED
        BY <1>3, <1>4, <2>1, <4>1 DEF CharAt
    <3>2. past + 1 \in 1 .. Limit
      BY <1>2, <3>1
    <3>3. FindIf(past + 1, {NL}) \in past + 1 .. Limit
      BY <1>2, <3>2, FindIfProperties
    <3> HIDE DEF past
    <3> QED
      BY <1>2, <1>3, <1>4, <2>1, <3>3
  <2>2. CASE CharAt(past) # Hash
    BY <1>4, <2>2
  <2> QED
    BY <2>1, <2>2
<1> HIDE DEF to
<1>6. to \in Nat /\ ptr <= to /\ to <= Limit /\ to >= 1
  BY <1>2, <1>3, <1>5
<1>7. pos' = Place(to)
  BY <1>1, <1>3, <1>6, AdvanceIsExact
<1>8. /\ ptr' \in Nat /\ ptr' >= 1 /\ ptr' <= Limit + 1 /\ Clip(ptr') = to
      /\ ptr' = Limit + 1 => debug /\ nle
  BY <1>1, <1>2, <1>6 DEF Clip
<1>9. /\ PositionsExact' /\ (\A k \in DOMAIN toks : First(toks[k]) \in 1 .. Limit + 1)'
      /\ AtEnd' <=> AtEnd
  BY <1>1, <1>7, <1>8, SameTokens
<1>10. Limit' = Limit
  BY <1>1 DEF Limit
<1>11. Basics'
  BY <1>1, <1>10 DEF IInv, Basics, Phases
<1>12. Pointers'
  BY <1>1, <1>3, <1>8, <1>9, <1>10 DEF Pointers
<1>13. Errors'
  BY <1>1, <1>3 DEF Errors
<1> QED
  BY <1>9, <1>11, <1>12, <1>13 DEF IInv

(* A token of any kind but a literal: the characters of one line, or none  *)
(* at the end of the input.                                                *)
LEMMA LexemePreserves ==
  ASSUME IInv, phase = "token", UNCHANGED <<input, nle, debug, scan, error, shown>>,
         NEW type \in Types \ {"str"}, NEW end \in Nat, ptr <= end, end <= Limit + 1,
         Give(type, ptr, end, 0),
         \/ type = "eos" /\ end = ptr /\ pos' = pos
         \/ /\ type # "eos" /\ end <= Limit /\ pos' = Right(pos, end - ptr)
            /\ \A i \in ptr .. end - 1 : input[i] # NL
  PROVE  IInv'
<1> DEFINE tok == [type |-> type, pos |-> pos, beg |-> ptr, end |-> end]
<1>1. toks' = Append(toks, tok) /\ ptr' = end /\ phase' \in {"dump", "parser"}
  BY DEF Give
<1>2. /\ Limit \in Nat /\ Limit >= 1 /\ ptr \in Nat /\ ptr >= 1 /\ ptr <= Limit + 1
      /\ pos = Place(Clip(ptr)) /\ error = NoError
      /\ ptr = Limit + 1 => debug /\ nle
  <2>1. Limit \in Nat /\ Limit >= 1
    BY DEF IInv, Basics, Limit
  <2>2. ptr \in Nat /\ ptr >= 1 /\ ptr <= Limit + 1 /\ (ptr = Limit + 1 => debug /\ nle)
    BY DEF IInv, Pointers
  <2>3. pos = Place(Clip(ptr)) /\ error = NoError
    BY DEF IInv, PositionsExact, Errors
  <2> QED
    BY <2>1, <2>2, <2>3
<1>3. Clip(ptr) \in Nat /\ Clip(ptr) >= 1
  BY <1>2 DEF Clip
<1>4. pos \in Positions
  BY <1>2, <1>3, PlaceType
<1>5. /\ tok \in Token /\ First(tok) = ptr /\ tok.pos = Place(Clip(First(tok)))
      /\ First(tok) \in 1 .. Limit + 1 /\ tok.type = type
  <2>1. tok \in Token
    BY <1>2, <1>4 DEF Token
  <2>2. First(tok) = ptr
    BY DEF First, Literal
  <2> QED
    BY <1>2, <2>1, <2>2
<1> HIDE DEF tok
<1>6. /\ toks' \in Seq(Token) /\ (AtEnd' <=> type = "eos")
      /\ \A k \in DOMAIN toks' :
           /\ First(toks'[k]) \in 1 .. Limit + 1
           /\ toks'[k].pos = Place(Clip(First(toks'[k])))
  BY <1>1, <1>5, OneMoreToken
<1>7. pos' = Place(Clip(ptr'))
  <2>1. CASE type = "eos"
    BY <1>1, <1>2, <2>1
  <2>2. CASE type # "eos"
    <3>1. end <= Limit /\ pos' = Right(pos, end - ptr) /\ \A i \in ptr .. end - 1 : input[i] # NL
      BY <2>2
    <3>2. Clip(ptr) = ptr /\ Clip(end) = end
      BY <1>2, <3>1 DEF Clip
    <3>3. end - ptr \in Nat /\ ptr + (end - ptr) = end
      BY <1>2
    <3>4. Right(Place(ptr), end - ptr) = Place(end)
      <4>1. \A i \in ptr .. ptr + (end - ptr) - 1 : i \in ptr .. end - 1
        BY <1>2
      <4>2. \A i \in ptr .. ptr + (end - ptr) - 1 : input[i] # NL
        BY <3>1, <4>1, Zenon
      <4> QED
        BY <1>2, <3>3, <4>2, RightIsExact
    <3> QED
      BY <1>1, <1>2, <3>1, <3>2, <3>4
  <2> QED
    BY <2>1, <2>2
<1>8. PositionsExact' /\ (\A k \in DOMAIN toks : First(toks[k]) \in 1 .. Limit + 1)'
  BY <1>6, <1>7, PositionsNext
<1>9. Limit' = Limit
  BY DEF Limit
<1>10. Basics'
  <2>1. phase' \in Phases /\ toks' \in Seq(Token)
    BY <1>1, <1>6 DEF Phases
  <2>2. /\ input' \in Seq(Chars) /\ nle' \in BOOLEAN /\ debug' \in BOOLEAN
        /\ scan' \in Nat /\ scan' <= Limit'
    BY <1>9 DEF IInv, Basics
  <2> QED
    BY <2>1, <2>2 DEF Basics
<1>11. Pointers'
  <2>1. ptr' \in Nat /\ ptr' >= 1 /\ ptr' <= Limit' + 1
    BY <1>1, <1>2, <1>9
  <2>2. ptr' = Limit' + 1 => debug' /\ nle' /\ AtEnd'
    BY <1>1, <1>2, <1>6, <1>9
  <2> QED
    BY <1>1, <2>1, <2>2 DEF Pointers
<1>12. Errors'
  BY <1>1, <1>2 DEF Errors
<1> QED
  BY <1>8, <1>10, <1>11, <1>12 DEF IInv

LEMMA TokenPreserves ==
  ASSUME IInv, EndToken \/ CharToken \/ Word \/ Number  PROVE IInv'
<1>1. /\ UNCHANGED <<input, nle, debug, scan, error, shown>> /\ phase = "token"
  BY DEF EndToken, CharToken, Word, Number, AtChar
<1>2. /\ input \in Seq(Chars) /\ Limit \in Nat /\ Limit >= 1
      /\ ptr \in Nat /\ ptr >= 1 /\ ptr <= Limit + 1
  BY DEF IInv, Basics, Pointers, Limit
<1>3. CASE EndToken
  <2>1. Give("eos", ptr, ptr, 0) /\ pos' = pos
    BY <1>3 DEF EndToken
  <2>2. "eos" \in Types \ {"str"} /\ ptr <= ptr
    BY <1>2 DEF Types
  <2>3. ptr <= Limit + 1
    BY <1>2
  <2> QED
    BY <1>1, <1>2, <2>1, <2>2, <2>3, LexemePreserves
<1>4. ASSUME NEW S \in SUBSET Chars, CharAt(ptr) \in S
      PROVE  ptr < Limit /\ input[ptr] \in S
  BY <1>2, <1>4, CharFacts, CharAtIn
<1>5. CASE CharToken
  <2>1. Give("mark", ptr, ptr + 1, 0) /\ pos' = Right(pos, 1) /\ CharAt(ptr) \in Marks
    BY <1>5 DEF CharToken, AtChar
  <2>2. ptr < Limit /\ input[ptr] \in Marks
    BY <2>1, <1>4 DEF Chars
  <2>3. PICK end \in Nat : end = ptr + 1
    BY <1>2
  <2>4. ptr <= end /\ end <= Limit + 1 /\ end <= Limit /\ end - ptr = 1
    BY <1>2, <2>2, <2>3
  <2>5. \A i \in ptr .. end - 1 : input[i] # NL
    <3>1. \A i \in ptr .. end - 1 : i = ptr
      BY <1>2, <2>3
    <3> QED
      BY <2>2, <3>1, CharFacts
  <2>6. Give("mark", ptr, end, 0) /\ pos' = Right(pos, end - ptr)
    BY <2>1, <2>3, <2>4
  <2>7. "mark" \in Types \ {"str"} /\ "mark" # "eos"
    BY DEF Types
  <2> QED
    BY <1>1, <2>4, <2>5, <2>6, <2>7, LexemePreserves
<1>6. CASE Word
  <2> DEFINE end == FindIf(ptr + 1, Chars \ Words)
  <2>1. /\ CharAt(ptr) \in Uppers \cup Lowers /\ pos' = Right(pos, end - ptr)
        /\ \E type \in WordTypes(SubSeq(input, ptr, end - 1)) : Give(type, ptr, end, 0)
    BY <1>6 DEF Word, AtChar
  <2>2. PICK type \in {"ident", "name", "kw_list"} : Give(type, ptr, end, 0)
    BY <2>1 DEF WordTypes
  <2>3. ptr < Limit /\ input[ptr] \in Words
    BY <2>1, <1>4 DEF Chars, Words
  <2>4. ptr + 1 \in 1 .. Limit
    BY <1>2, <2>3
  <2>5. /\ end \in ptr + 1 .. Limit
        /\ \A i \in ptr + 1 .. end - 1 : input[i] \notin Chars \ Words
    BY <1>2, <2>4, FindIfProperties
  <2> HIDE DEF end
  <2>6. end \in Nat /\ ptr <= end /\ end <= Limit + 1 /\ end <= Limit
    BY <1>2, <2>5
  <2>7. \A i \in ptr .. end - 1 : input[i] # NL
    <3> SUFFICES ASSUME NEW i \in ptr .. end - 1  PROVE input[i] \in Words
      BY CharFacts
    <3>1. i = ptr \/ i \in ptr + 1 .. end - 1
      BY <1>2, <2>6
    <3>2. i \in 1 .. Len(input)
      BY <1>2, <2>6 DEF Limit
    <3>3. input[i] \in Chars
      BY <1>2, <3>2
    <3> QED
      BY <2>3, <2>5, <3>1, <3>3
  <2>8. type \in Types \ {"str"} /\ type # "eos"
    BY DEF Types
  <2> QED
    BY <1>1, <2>1, <2>2, <2>6, <2>7, <2>8, LexemePreserves
<1>7. CASE Number
  <2> DEFINE end == FindIf(ptr + 1, Chars \ Digits)
  <2>1. /\ CharAt(ptr) \in Digits /\ pos' = Right(pos, end - ptr)
        /\ Give("num", ptr, end, 0)
    BY <1>7 DEF Number, AtChar
  <2>3. ptr < Limit /\ input[ptr] \in Digits
    BY <2>1, <1>4 DEF Chars, Words
  <2>4. ptr + 1 \in 1 .. Limit
    BY <1>2, <2>3
  <2>5. /\ end \in ptr + 1 .. Limit
        /\ \A i \in ptr + 1 .. end - 1 : input[i] \notin Chars \ Digits
    BY <1>2, <2>4, FindIfProperties
  <2> HIDE DEF end
  <2>6. end \in Nat /\ ptr <= end /\ end <= Limit + 1 /\ end <= Limit
    BY <1>2, <2>5
  <2>7. \A i \in ptr .. end - 1 : input[i] # NL
    <3> SUFFICES ASSUME NEW i \in ptr .. end - 1  PROVE input[i] \in Words
      BY CharFacts
    <3>1. i = ptr \/ i \in ptr + 1 .. end - 1
      BY <1>2, <2>6
    <3>2. i \in 1 .. Len(input)
      BY <1>2, <2>6 DEF Limit
    <3>3. input[i] \in Chars
      BY <1>2, <3>2
    <3> QED
      BY <2>3, <2>5, <3>1, <3>3 DEF Words
  <2>8. "num" \in Types \ {"str"} /\ "num" # "eos"
    BY DEF Types
  <2> QED
    BY <1>1, <2>1, <2>6, <2>7, <2>8, LexemePreserves
<1> QED
  BY <1>3, <1>5, <1>6, <1>7

LEMMA UnexpectCharPreserves ==
  ASSUME IInv, UnexpectChar  PROVE IInv'
<1>1. /\ UNCHANGED <<input, nle, debug, ptr, pos, toks, scan, shown>>
      /\ phase = "token" /\ Error(pos, "char") /\ CharAt(ptr) \in Chars
  BY DEF UnexpectChar, AtChar
<1>2. ptr \in Nat /\ ptr >= 1 /\ Limit \in Nat
  BY DEF IInv, Basics, Pointers, Limit
<1>3. ptr < Limit
  BY <1>1, <1>2, CharFacts, CharAtIn
<1>4. ptr \in 1 .. Limit /\ ptr <= Limit
  BY <1>2, <1>3
<1>5. pos = Place(ptr)
  BY <1>2, <1>4 DEF IInv, PositionsExact, Clip
<1> QED
  BY <1>1, <1>4, <1>5, ErrorPreserves

-----------------------------------------------------------------------------
(* scan_literal: no newline is behind its pointer, and it stays in range.  *)
LEMMA StopProperties ==
  ASSUME IInv, phase = "literal"
  PROVE  /\ ptr \in Nat /\ ptr >= 1 /\ ptr < Limit /\ Limit \in Nat
         /\ input[ptr] \in Quotes /\ pos = Place(ptr) /\ error = NoError
         /\ Stop \in Nat /\ scan <= Stop /\ Stop <= Limit /\ ptr < scan /\ ptr < Stop
         /\ \A j \in ptr .. Stop - 1 : input[j] # NL
         /\ Escapes => Stop < Limit /\ input[Stop] # NL
<1>1. /\ input \in Seq(Chars) /\ Limit \in Nat /\ Limit = Len(input) + 1
      /\ scan \in Nat /\ scan <= Limit /\ ptr \in Nat /\ ptr >= 1 /\ ptr < scan
      /\ input[ptr] \in Quotes /\ \A j \in ptr .. scan - 1 : input[j] # NL
      /\ error = NoError
  BY DEF IInv, Basics, Pointers, Limit, Errors
<1>2. ptr < Limit /\ scan \in 1 .. Limit
  BY <1>1
<1>3. pos = Place(ptr)
  BY <1>1, <1>2 DEF IInv, PositionsExact, Clip
<1> DEFINE S == NonPlain \cup {Backslash, input[ptr]}
<1>4. /\ Stop \in scan .. Limit
      /\ \A i \in scan .. Stop - 1 : input[i] \notin S
  BY <1>1, <1>2, FindIfProperties DEF Stop
<1>5. Stop \in Nat /\ scan <= Stop /\ Stop <= Limit /\ ptr < Stop
  BY <1>1, <1>2, <1>4
<1>6. \A j \in ptr .. Stop - 1 : input[j] # NL
  <2> SUFFICES ASSUME NEW j \in ptr .. Stop - 1  PROVE input[j] # NL
    OBVIOUS
  <2>1. CASE j \in ptr .. scan - 1
    BY <1>1, <2>1
  <2>2. CASE j \in scan .. Stop - 1
    BY <1>4, <2>2 DEF NonPlain
  <2> QED
    BY <1>1, <1>5, <2>1, <2>2
<1>7. Escapes => Stop < Limit /\ input[Stop] # NL
  <2>1. Backslash # End /\ NL # Backslash
    BY CharFacts DEF Chars
  <2> QED
    BY <2>1 DEF Escapes, CharAt
<1> QED
  BY <1>1, <1>2, <1>3, <1>5, <1>6, <1>7

LEMMA OpenLiteralPreserves ==
  ASSUME IInv, OpenLiteral  PROVE IInv'
<1>1. /\ UNCHANGED <<input, nle, debug, ptr, pos, toks, error, shown>>
      /\ phase = "token" /\ phase' = "literal" /\ scan' = ptr + 1
      /\ CharAt(ptr) \in Quotes
  BY DEF OpenLiteral, AtChar
<1>2. ptr \in Nat /\ ptr >= 1 /\ Limit \in Nat /\ ~AtEnd
  BY <1>1 DEF IInv, Basics, Pointers, Limit
<1>3. ptr < Limit /\ input[ptr] \in Quotes
  BY <1>1, <1>2, CharFacts, CharAtIn DEF Chars
<1>4. pos' = Place(Clip(ptr'))
  BY <1>1 DEF IInv, PositionsExact
<1>5. /\ PositionsExact' /\ (\A k \in DOMAIN toks : First(toks[k]) \in 1 .. Limit + 1)'
      /\ AtEnd' <=> AtEnd
  BY <1>1, <1>4, SameTokens
<1>6. Limit' = Limit
  BY <1>1 DEF Limit
<1>7. Basics'
  <2>1. scan' \in Nat /\ scan' <= Limit'
    BY <1>1, <1>2, <1>3, <1>6
  <2> QED
    BY <1>1, <2>1 DEF IInv, Basics, Phases
<1>8. Pointers'
  <2>1. ASSUME NEW j \in ptr' .. scan' - 1  PROVE input'[j] # NL
    <3>1. j = ptr
      BY <1>1, <1>2
    <3> QED
      BY <1>1, <1>3, <3>1, CharFacts
  <2>2. ptr' < scan' /\ input'[ptr'] \in Quotes
    BY <1>1, <1>2, <1>3
  <2>3. \A j \in ptr' .. scan' - 1 : input'[j] # NL
    BY <2>1
  <2>4. ptr' \in Nat /\ ptr' >= 1 /\ ptr' <= Limit' + 1 /\ ptr' # Limit' + 1
    BY <1>1, <1>2, <1>3, <1>6
  <2>5. ~AtEnd'
    BY <1>2, <1>5
  <2> QED
    BY <2>2, <2>3, <2>4, <2>5 DEF Pointers
<1>9. Errors'
  BY <1>1 DEF IInv, Errors
<1> QED
  BY <1>5, <1>7, <1>8, <1>9 DEF IInv

(* A backslash and the character that it escapes are passed at once.       *)
LEMMA EscapePreserves ==
  ASSUME IInv, Escape  PROVE IInv'
<1>1. /\ UNCHANGED <<input, nle, debug, ptr, pos, toks, error, shown, phase>>
      /\ phase = "literal" /\ Escapes /\ ~Cut(Stop + 1) /\ scan' = Stop + 2
  BY DEF Escape
<1>2. /\ ptr \in Nat /\ ptr >= 1 /\ ptr < Limit /\ Limit \in Nat
      /\ input[ptr] \in Quotes
      /\ Stop \in Nat /\ Stop < Limit /\ ptr < Stop /\ input[Stop] # NL
      /\ \A j \in ptr .. Stop - 1 : input[j] # NL
  BY <1>1, StopProperties
<1>3. Stop + 1 < Limit /\ input[Stop + 1] # NL
  <2>1. CharAt(Stop + 1) # NL /\ CharAt(Stop + 1) # End
    BY <1>1 DEF Cut
  <2> QED
    BY <2>1 DEF CharAt
<1>4. pos' = Place(Clip(ptr'))
  BY <1>1 DEF IInv, PositionsExact
<1>5. /\ PositionsExact' /\ (\A k \in DOMAIN toks : First(toks[k]) \in 1 .. Limit + 1)'
      /\ AtEnd' <=> AtEnd
  BY <1>1, <1>4, SameTokens
<1>6. Limit' = Limit
  BY <1>1 DEF Limit
<1>7. Basics'
  <2>1. scan' \in Nat /\ scan' <= Limit'
    BY <1>1, <1>2, <1>3, <1>6
  <2> QED
    BY <1>1, <2>1 DEF IInv, Basics
<1>8. Pointers'
  <2>1. ASSUME NEW j \in ptr' .. scan' - 1  PROVE input'[j] # NL
    <3>1. j \in ptr .. Stop - 1 \/ j = Stop \/ j = Stop + 1
      BY <1>1, <1>2
    <3> QED
      BY <1>1, <1>2, <1>3, <3>1
  <2>2. ptr' < scan' /\ input'[ptr'] \in Quotes
    BY <1>1, <1>2
  <2>3. \A j \in ptr' .. scan' - 1 : input'[j] # NL
    BY <2>1
  <2>4. ptr' \in Nat /\ ptr' >= 1 /\ ptr' <= Limit' + 1 /\ ptr' # Limit' + 1
    BY <1>1, <1>2, <1>6
  <2>5. ~AtEnd'
    BY <1>1, <1>5 DEF IInv, Pointers
  <2> QED
    BY <1>1, <2>2, <2>3, <2>4, <2>5 DEF Pointers
<1>9. Errors'
  BY <1>1 DEF IInv, Errors
<1> QED
  BY <1>5, <1>7, <1>8, <1>9 DEF IInv

(* The literal's own place is that of its quote, one before the lexeme.    *)
LEMMA CloseLiteralPreserves ==
  ASSUME IInv, CloseLiteral  PROVE IInv'
<1> DEFINE e == LiteralEnd
           tok == [type |-> "str", pos |-> pos, beg |-> ptr + 1, end |-> e]
<1>1. /\ UNCHANGED <<input, nle, debug, scan, error, shown>>
      /\ phase = "literal" /\ ~Escapes /\ CharAt(e) = input[ptr]
      /\ Give("str", ptr + 1, e, 1)
      /\ pos' = Right(pos, (e - (ptr + 1)) + 2)
  BY DEF CloseLiteral
<1>2. /\ ptr \in Nat /\ ptr >= 1 /\ ptr < Limit /\ Limit \in Nat
      /\ input[ptr] \in Quotes /\ pos = Place(ptr) /\ error = NoError
      /\ Stop \in Nat /\ Stop <= Limit /\ ptr < Stop
      /\ \A j \in ptr .. Stop - 1 : input[j] # NL
  BY <1>1, StopProperties
<1>3. e = Stop
  BY <1>1 DEF LiteralEnd
<1> HIDE DEF e
<1>4. e < Limit /\ input[e] \in Quotes
  BY <1>1, <1>2, <1>3, CharFacts, CharAtIn DEF Chars
<1>5. e \in Nat /\ ptr < e /\ \A j \in ptr .. e : input[j] # NL
  <2>1. \A j \in ptr .. e : j \in ptr .. Stop - 1 \/ j = e
    BY <1>2, <1>3
  <2> QED
    BY <1>2, <1>3, <1>4, <2>1, CharFacts
<1>6. toks' = Append(toks, tok) /\ ptr' = e + 1 /\ phase' \in {"dump", "parser"}
  BY <1>1 DEF Give
<1>7. /\ tok \in Token /\ First(tok) \in 1 .. Limit + 1 /\ tok.type = "str"
      /\ tok.pos = Place(Clip(First(tok)))
  <2>1. tok \in Token
    BY <1>2, <1>5, PlaceType DEF Token, Types
  <2>2. First(tok) = ptr
    BY <1>2 DEF First, Literal
  <2>3. Clip(ptr) = ptr
    BY <1>2 DEF Clip
  <2> QED
    BY <1>2, <2>1, <2>2, <2>3
<1> HIDE DEF tok
<1>8. /\ toks' \in Seq(Token) /\ ~AtEnd'
      /\ \A k \in DOMAIN toks' :
           /\ First(toks'[k]) \in 1 .. Limit + 1
           /\ toks'[k].pos = Place(Clip(First(toks'[k])))
  BY <1>1, <1>6, <1>7, OneMoreToken
<1>9. pos' = Place(Clip(ptr'))
  <2>1. PICK n \in Nat : n = (e - (ptr + 1)) + 2 /\ ptr + n = e + 1
    BY <1>2, <1>5
  <2>2. \A j \in ptr .. ptr + n - 1 : input[j] # NL
    <3>1. \A j \in ptr .. ptr + n - 1 : j \in ptr .. e
      BY <1>2, <1>5, <2>1
    <3> QED
      BY <1>5, <3>1, Zenon
  <2>3. Right(Place(ptr), n) = Place(ptr + n)
    BY <1>2, <2>2, RightIsExact
  <2>4. Clip(e + 1) = e + 1
    BY <1>2, <1>4, <1>5 DEF Clip
  <2> QED
    BY <1>1, <1>2, <1>6, <2>1, <2>3, <2>4
<1>10. PositionsExact' /\ (\A k \in DOMAIN toks : First(toks[k]) \in 1 .. Limit + 1)'
  BY <1>1, <1>8, <1>9, PositionsNext
<1>11. Limit' = Limit
  BY <1>1 DEF Limit
<1>12. Basics'
  <2>1. phase' \in Phases /\ toks' \in Seq(Token)
    BY <1>6, <1>8 DEF Phases
  <2>2. /\ input' \in Seq(Chars) /\ nle' \in BOOLEAN /\ debug' \in BOOLEAN
        /\ scan' \in Nat /\ scan' <= Limit'
    BY <1>1, <1>11 DEF IInv, Basics
  <2> QED
    BY <2>1, <2>2 DEF Basics
<1>13. Pointers'
  <2>1. ptr' \in Nat /\ ptr' >= 1 /\ ptr' <= Limit' + 1 /\ ptr' # Limit' + 1
    BY <1>2, <1>4, <1>5, <1>6, <1>11
  <2> QED
    BY <1>6, <2>1 DEF Pointers
<1>14. Errors'
  BY <1>1, <1>2, <1>6 DEF Errors
<1> QED
  BY <1>10, <1>12, <1>13, <1>14 DEF IInv

(* Where scan_literal ends, and the position it computes for that place.   *)
LEMMA LiteralEndIs ==
  ASSUME IInv, phase = "literal"
  PROVE  /\ LiteralEnd \in 1 .. Limit /\ LiteralEnd \in Nat /\ ptr < LiteralEnd
         /\ Right(pos, LiteralEnd - ptr) = Place(LiteralEnd)
<1> DEFINE e == LiteralEnd
<1>2. /\ ptr \in Nat /\ ptr >= 1 /\ ptr < Limit /\ Limit \in Nat /\ pos = Place(ptr)
      /\ Stop \in Nat /\ Stop <= Limit /\ ptr < Stop
      /\ \A j \in ptr .. Stop - 1 : input[j] # NL
      /\ Escapes => Stop < Limit /\ input[Stop] # NL
  BY StopProperties
<1>3. e \in Nat /\ e <= Limit /\ ptr < e
  BY <1>2 DEF LiteralEnd
<1>4. \A j \in ptr .. e - 1 : input[j] # NL
  <2>1. \A j \in ptr .. e - 1 : j \in ptr .. Stop - 1 \/ (Escapes /\ j = Stop)
    BY <1>2 DEF LiteralEnd
  <2> QED
    BY <1>2, <2>1
<1> HIDE DEF e
<1>5. PICK n \in Nat : n = e - ptr /\ ptr + n = e
  BY <1>2, <1>3
<1>6. ASSUME NEW j \in ptr .. ptr + n - 1  PROVE input[j] # NL
  <2>1. j \in ptr .. e - 1
    BY <1>2, <1>3, <1>5
  <2> QED
    BY <1>4, <2>1
<1>7. Right(pos, e - ptr) = Place(e) /\ e \in 1 .. Limit
  <2>1. Right(Place(ptr), n) = Place(ptr + n)
    BY <1>2, <1>6, RightIsExact
  <2> QED
    BY <1>2, <1>3, <1>5, <2>1
<1> QED
  BY <1>3, <1>7 DEF e

LEMMA LiteralErrorPreserves ==
  ASSUME IInv, LiteralError  PROVE IInv'
<1>1. /\ UNCHANGED <<input, nle, debug, ptr, pos, toks, scan, shown>>
      /\ phase = "literal" /\ Error(Right(pos, LiteralEnd - ptr), "literal")
  BY DEF LiteralError
<1>2. LiteralEnd \in 1 .. Limit /\ Error(Place(LiteralEnd), "literal")
  BY <1>1, LiteralEndIs
<1> QED
  BY <1>1, <1>2, ErrorPreserves

-----------------------------------------------------------------------------
LEMMA DumpPreserves ==
  ASSUME IInv, Dump  PROVE IInv'
<1>1. /\ UNCHANGED <<input, nle, debug, ptr, pos, toks, scan, error, shown>>
      /\ phase = "dump" /\ phase' \in {"parser", "aborted"}
  BY DEF Dump
<1>2. pos' = Place(Clip(ptr'))
  BY <1>1 DEF IInv, PositionsExact
<1>3. /\ PositionsExact' /\ (\A k \in DOMAIN toks : First(toks[k]) \in 1 .. Limit + 1)'
      /\ AtEnd' <=> AtEnd
  BY <1>1, <1>2, SameTokens
<1>4. Limit' = Limit
  BY <1>1 DEF Limit
<1>5. Basics'
  BY <1>1, <1>4 DEF IInv, Basics, Phases
<1>6. Pointers'
  BY <1>1, <1>3, <1>4 DEF IInv, Pointers
<1>7. Errors'
  BY <1>1 DEF IInv, Errors
<1> QED
  BY <1>3, <1>5, <1>6, <1>7 DEF IInv

(* verror: none of its assertions can fail, as an error is at a place.     *)
LEMMA VerrorPreserves ==
  ASSUME IInv, Verror  PROVE IInv' /\ phase' = "thrown"
<1> DEFINE k == error.pos.line
           line == Line(k)
           mark == line.beg + (error.pos.col - 1)
<1>1. /\ UNCHANGED <<input, nle, debug, ptr, pos, toks, scan, error>>
      /\ phase = "verror"
      /\ IF error.pos.col > 0 /\ k \in 1 .. Cardinality(LineStarts) /\ mark <= line.end
           THEN /\ shown' = [beg |-> line.beg, end |-> line.end, mark |-> mark]
                /\ phase' = "thrown"
           ELSE phase' = "aborted" /\ UNCHANGED shown
  BY DEF Verror
<1>2. PICK i \in 1 .. Limit : error.pos = Place(i)
  BY <1>1 DEF IInv, Errors
<1>3. input \in Seq(Chars) /\ Limit \in Nat /\ i \in Nat
  BY DEF IInv, Basics, Limit
<1>4. /\ line.beg \in Nat /\ line.beg >= 1 /\ line.beg <= i
      /\ line.end \in Nat /\ i <= line.end /\ line.end <= Limit
      /\ mark = i /\ error.pos.col \in Nat \ {0}
      /\ \A j \in line.beg .. line.end - 1 : input[j] # NL
  BY <1>2, <1>3, LineShowsPlace
<1>5. k \in 1 .. Cardinality(LineStarts)
  BY <1>2, <1>3, LinesOfPlace
<1> HIDE DEF line, mark, k
<1>6. /\ phase' = "thrown"
      /\ shown' = [beg |-> line.beg, end |-> line.end, mark |-> mark]
  BY <1>1, <1>3, <1>4, <1>5
<1>7. pos' = Place(Clip(ptr'))
  BY <1>1 DEF IInv, PositionsExact
<1>8. /\ PositionsExact' /\ (\A n \in DOMAIN toks : First(toks[n]) \in 1 .. Limit + 1)'
      /\ AtEnd' <=> AtEnd
  BY <1>1, <1>7, SameTokens
<1>9. Limit' = Limit /\ \A j : Place(j)' = Place(j)
  BY <1>1, SameInput
<1>10. Basics'
  BY <1>1, <1>6, <1>9 DEF IInv, Basics, Phases
<1>11. Pointers'
  BY <1>1, <1>6, <1>8, <1>9 DEF IInv, Pointers
<1>12. Errors'
  <2>1. (\E j \in 1 .. Limit : error.pos = Place(j))'
    BY <1>1, <1>2, <1>9
  <2>2. shown'.beg = line.beg /\ shown'.end = line.end /\ shown'.mark = i
    BY <1>4, <1>6
  <2>3. (1 <= shown.beg /\ shown.beg <= shown.mark
         /\ shown.mark <= shown.end /\ shown.end <= Limit)'
    BY <1>3, <1>4, <1>9, <2>2
  <2>4. (\A j \in shown.beg .. shown.end - 1 : input[j] # NL)'
    BY <1>1, <1>4, <2>2
  <2>5. (Place(shown.mark) = error.pos)'
    <3>1. Place(shown.mark)' = Place(i)
      BY <1>9, <2>2 DEF Place
    <3> QED
      BY <1>1, <1>2, <3>1
  <2> QED
    BY <1>6, <2>1, <2>3, <2>4, <2>5 DEF Errors
<1> QED
  BY <1>6, <1>8, <1>10, <1>11, <1>12 DEF IInv

LEMMA InitEstablishes ==
  ASSUME Init  PROVE IInv
<1>1. /\ ptr = 1 /\ pos = Start /\ toks = <<>> /\ scan = 0
      /\ error = NoError /\ phase = "parser" /\ debug \in BOOLEAN
  BY DEF Init
<1>2. PICK text \in Texts :
        IF text # <<>> /\ text[Len(text)] = NL
          THEN input = SubSeq(text, 1, Len(text) - 1) /\ nle = TRUE
          ELSE input = text /\ nle = FALSE
  BY DEF Init
<1>3. text \in Seq(Chars)
  BY <1>2, CharAssumption
<1>4. input \in Seq(Chars) /\ nle \in BOOLEAN
  <2>1. CASE text # <<>> /\ text[Len(text)] = NL
    <3>1. Len(text) - 1 \in Nat /\ Len(text) - 1 <= Len(text)
      BY <1>3, <2>1
    <3>2. \A j \in 1 .. Len(text) - 1 : text[j] \in Chars
      BY <1>3, <3>1
    <3>3. SubSeq(text, 1, Len(text) - 1) \in Seq(Chars)
      BY <1>3, <3>1, <3>2
    <3> QED
      BY <1>2, <2>1, <3>3
  <2>2. CASE ~(text # <<>> /\ text[Len(text)] = NL)
    BY <1>2, <1>3, <2>2
  <2> QED
    BY <2>1, <2>2
<1>5. Limit \in Nat /\ Limit >= 1
  BY <1>4 DEF Limit
<1>6. Place(1) = Start
  <2>1. Newlines(1) = {}
    BY DEF Newlines
  <2>2. LastNewline(1) = 0
    BY NewlinesProperties, <2>1
  <2>3. Place(1) = [line |-> 1 + Cardinality(Newlines(1)), col |-> 1 - LastNewline(1)]
    BY PlaceIs
  <2>4. Cardinality(Newlines(1)) = 0
    BY <2>1, FS_EmptySet
  <2> QED
    BY <2>2, <2>3, <2>4 DEF Start
<1>7. Basics
  <2>1. toks \in Seq(Token)
    BY <1>1
  <2> QED
    BY <1>1, <1>4, <1>5, <2>1 DEF Basics, Phases
<1>8. Pointers
  BY <1>1, <1>5 DEF Pointers
<1>9. PositionsExact /\ \A k \in DOMAIN toks : First(toks[k]) \in 1 .. Limit + 1
  <2>1. DOMAIN toks = {}
    BY <1>1
  <2>2. Clip(ptr) = 1
    BY <1>1, <1>5 DEF Clip
  <2> QED
    BY <1>1, <1>6, <2>1, <2>2 DEF PositionsExact
<1>10. Errors
  BY <1>1 DEF Errors
<1> QED
  BY <1>7, <1>8, <1>9, <1>10 DEF IInv

LEMMA StutterPreserves ==
  ASSUME IInv, UNCHANGED vars  PROVE IInv'
<1> USE DEF vars
<1>1. pos' = Place(Clip(ptr'))
  BY DEF IInv, PositionsExact
<1>2. /\ PositionsExact' /\ (\A k \in DOMAIN toks : First(toks[k]) \in 1 .. Limit + 1)'
      /\ AtEnd' <=> AtEnd
  BY <1>1, SameTokens
<1>3. Limit' = Limit /\ \A j : Place(j)' = Place(j)
  BY SameInput
<1>4. Basics'
  BY <1>3 DEF IInv, Basics
<1>5. Pointers'
  BY <1>2, <1>3 DEF IInv, Pointers
<1>6. Errors'
  <2>1. Place(shown.mark)' = Place(shown.mark)
    BY DEF Place
  <2> QED
    BY <1>3, <2>1 DEF IInv, Errors
<1> QED
  BY <1>2, <1>4, <1>5, <1>6 DEF IInv

(* The inductive invariant: pointers, positions and errors together.       *)
THEOREM InductiveInvariant == Spec => []IInv
<1>1. ASSUME IInv, [Next]_vars  PROVE IInv'
  <2>1. CASE AskToken \/ EndParse
    BY <1>1, <2>1, ParserStepPreserves
  <2>2. CASE RefuseToken
    BY <1>1, <2>2, RefuseTokenPreserves
  <2>3. CASE SkipSpaces
    BY <1>1, <2>3, SkipSpacesPreserves
  <2>4. CASE EndToken \/ CharToken \/ Word \/ Number
    BY <1>1, <2>4, TokenPreserves
  <2>5. CASE UnexpectChar
    BY <1>1, <2>5, UnexpectCharPreserves
  <2>6. CASE OpenLiteral
    BY <1>1, <2>6, OpenLiteralPreserves
  <2>7. CASE Escape
    BY <1>1, <2>7, EscapePreserves
  <2>8. CASE CloseLiteral
    BY <1>1, <2>8, CloseLiteralPreserves
  <2>9. CASE LiteralError
    BY <1>1, <2>9, LiteralErrorPreserves
  <2>10. CASE Dump
    BY <1>1, <2>10, DumpPreserves
  <2>11. CASE Verror
    BY <1>1, <2>11, VerrorPreserves
  <2>12. CASE UNCHANGED vars
    BY <1>1, <2>12, StutterPreserves
  <2> QED
    BY <1>1, <2>1, <2>2, <2>3, <2>4, <2>5, <2>6, <2>7, <2>8, <2>9, <2>10,
       <2>11, <2>12 DEF Next
<1> QED
  BY <1>1, InitEstablishes, PTL DEF Spec

-----------------------------------------------------------------------------
(* The variables keep their types, for any text.                          *)
THEOREM TypeCorrect == Spec => []TypeOK
<1>1. ASSUME IInv  PROVE TypeOK
  <2>1. Basics /\ Pointers /\ PositionsExact /\ Errors
    BY <1>1 DEF IInv
  <2>2. Limit \in Nat /\ Limit >= 1
    BY <2>1 DEF Basics, Limit
  <2>3. ptr \in Nat \ {0} /\ scan \in Nat
    BY <2>1 DEF Pointers, Basics
  <2>4. pos \in Positions
    <3>1. Clip(ptr) \in Nat /\ Clip(ptr) >= 1
      BY <2>1, <2>2 DEF Pointers, Clip
    <3> QED
      BY <2>1, <3>1, PlaceType DEF PositionsExact
  <2>5. error.pos \in Positions
    <3>1. CASE error = NoError
      BY <3>1 DEF NoError, Start, Positions
    <3>2. CASE error # NoError
      <4>1. PICK i \in 1 .. Limit : error.pos = Place(i)
        BY <2>1, <3>2 DEF Errors
      <4>2. i \in Nat /\ i >= 1
        BY <2>2
      <4> QED
        BY <4>1, <4>2, PlaceType
    <3> QED
      BY <3>1, <3>2
  <2> QED
    BY <2>1, <2>3, <2>4, <2>5 DEF TypeOK, Basics, Token, Phases
<1> QED
  BY <1>1, InductiveInvariant, PTL

(* No pointer of the lexer leaves the input, for any text: next_token and  *)
(* scan_literal never read past input_end.                                 *)
THEOREM PointersStay == Spec => []StaysInInput
<1>1. ASSUME IInv  PROVE StaysInInput
  <2>1. Basics /\ Pointers
    BY <1>1 DEF IInv
  <2>2. Limit \in Nat /\ Limit >= 1
    BY <2>1 DEF Basics, Limit
  <2>3. ptr \in Offsets \/ (ptr = Limit + 1 /\ debug /\ nle)
    <3>1. ptr \in Nat /\ ptr >= 1 /\ ptr <= Limit + 1 /\ (ptr = Limit + 1 => debug /\ nle)
      BY <2>1 DEF Pointers
    <3> QED
      BY <2>2, <3>1 DEF Offsets
  <2>4. scan \in 0 .. Limit
    BY <2>1, <2>2 DEF Basics
  <2>5. phase = "literal" => ptr < scan
    BY <2>1 DEF Pointers
  <2> QED
    BY <2>3, <2>4, <2>5 DEF StaysInInput
<1> QED
  BY <1>1, InductiveInvariant, PTL

(* The position that is kept piece by piece is exact, for every text.      *)
THEOREM PositionsNeverDrift == Spec => []PositionsExact
<1>1. ASSUME IInv  PROVE PositionsExact
  BY <1>1 DEF IInv
<1> QED
  BY <1>1, InductiveInvariant, PTL

(* Every error can be shown: no index of verror is out of its range and    *)
(* none of its assertions fails, for every text and at every token that the*)
(* parser may refuse.                                                      *)
THEOREM EveryErrorIsShown == Spec => []ErrorsAreShown
<1>1. ASSUME IInv  PROVE ErrorsAreShown
  BY <1>1 DEF IInv, Errors, ErrorsAreShown
<1> QED
  BY <1>1, InductiveInvariant, PTL

-----------------------------------------------------------------------------
(* Which text the tokens are of.  The conditions of LexerTokens speak of   *)
(* the text only, so no step changes what they say of a stretch or a token.*)
LEMMA SameText ==
  ASSUME UNCHANGED input
  PROVE  /\ \A S, from, to : AllIn(S, from, to)' = AllIn(S, from, to)
         /\ \A from, to : IsGap(from, to)' = IsGap(from, to)
         /\ \A b, i : Escaped(b, i)' = Escaped(b, i)
         /\ \A b, i : Belongs(b, i)' = Belongs(b, i)
         /\ \A tok : IsRight(tok)' = IsRight(tok)
         /\ \A i : Clip(i)' = Clip(i)
<1>1. Limit' = Limit
  BY DEF Limit
<1>2. \A b, i : Escaped(b, i)' = Escaped(b, i)
  BY DEF Escaped
<1>3. \A b, i : Belongs(b, i)' = Belongs(b, i)
  BY <1>2 DEF Belongs
<1>4. \A S, from, to : AllIn(S, from, to)' = AllIn(S, from, to)
  BY DEF AllIn
<1>5. \A from, to : IsGap(from, to)' = IsGap(from, to)
  BY <1>4 DEF IsGap
<1>6. \A tok : IsRight(tok)' = IsRight(tok)
  BY <1>1, <1>2, <1>3, <1>4 DEF IsRight, IsWord, IsLiteral, EndsBefore
<1> QED
  BY <1>1, <1>2, <1>3, <1>4, <1>5, <1>6 DEF Clip

(* A token that may come after the token that ends at `from'.              *)
Follows(tok, from) ==
  /\ IsRight(tok)
  /\ LET to == Clip(First(tok))
     IN  IF tok.type = "eos" THEN IsGap(from, to) ELSE AllIn(Spaces, from, to - 1)

(* Where the last token ends.                                              *)
Gap == Gaps(Len(toks) + 1)

(* What skip_spaces leaves before i: spaces only, or spaces and a comment  *)
(* up to its newline.                                                      *)
OnlySpaces(from, i) ==
  /\ AllIn(Spaces, from, Clip(i) - 1)
  /\ i < Limit => input[i] \notin Spaces \cup {Hash}

WithComment(from, i) ==
  /\ IsGap(from, Clip(i))
  /\ \E c \in from .. Clip(i) - 1 : input[c] = Hash
  /\ i < Limit => input[i] = NL

Skipped(from, i) ==
  /\ from \in 1 .. Clip(i)
  /\ OnlySpaces(from, i) \/ WithComment(from, i)

(* What scan_literal has passed, from the quote at b up to i.              *)
ScannedTo(b, i) ==
  /\ ~Escaped(b, i)
  /\ \A j \in b + 1 .. i - 1 : Belongs(b, j)

Progress ==
  /\ phase \in {"parser", "spaces", "dump"} /\ ~AtEnd => ptr = Gap
  /\ phase \in {"token", "literal"} => Skipped(Gap, ptr)
  /\ phase = "literal" => ScannedTo(ptr, scan)

Reads == ReadsText /\ RefusesRightly /\ Progress

(* More of the kinds of characters.                                        *)
LEMMA KindFacts ==
  /\ NL \notin Blanks /\ Hash \notin Spaces
  /\ Backslash \notin NonPlain \cup Quotes
  /\ Digits \cap (Uppers \cup Lowers) = {}
  /\ Quotes \cap NonPlain = {}
<1> DEFINE K == Kinds
<1>1. DOMAIN K = 1 .. 10
  BY DEF Kinds
<1>2. \A i \in 1 .. 10, j \in 1 .. 10 : i # j => K[i] \cap K[j] = {}
  BY <1>1, CharAssumption
<1>3. /\ K[1] = Marks /\ K[2] = Uppers /\ K[3] = Lowers /\ K[4] = Digits
      /\ K[5] = Quotes /\ K[6] = Blanks \cup Controls /\ K[7] = {NL}
      /\ K[8] = {Hash} /\ K[9] = {Backslash} /\ K[10] = {End}
  BY DEF Kinds
<1> HIDE DEF K
<1>4. /\ K[7] \cap K[6] = {} /\ K[8] \cap K[6] = {} /\ K[8] \cap K[7] = {}
      /\ K[9] \cap K[6] = {} /\ K[9] \cap K[7] = {} /\ K[9] \cap K[5] = {}
      /\ K[4] \cap K[2] = {} /\ K[4] \cap K[3] = {}
      /\ K[5] \cap K[6] = {} /\ K[5] \cap K[7] = {}
  BY <1>2
<1> QED
  BY <1>3, <1>4 DEF Spaces, NonPlain

LEMMA TextFacts ==
  ASSUME IInv
  PROVE  /\ input \in Seq(Chars) /\ Limit \in Nat /\ Limit >= 1 /\ Limit = Len(input) + 1
         /\ \A i \in 1 .. Limit - 1 : input[i] \in Chars
         /\ ptr \in Nat /\ ptr >= 1 /\ ptr <= Limit + 1
         /\ toks \in Seq(Token) /\ Len(toks) \in Nat
BY DEF IInv, Basics, Pointers, Limit

LEMMA ReadsTextIs ==
  ReadsText <=> \A k \in DOMAIN toks : Follows(toks[k], Gaps(k))
BY DEF ReadsText, Follows

(* When no token is given.                                                 *)
LEMMA SameReads ==
  ASSUME IInv, Reads, UNCHANGED <<input, toks>>
  PROVE  /\ ReadsText' /\ Gap' = Gap /\ (AtEnd' <=> AtEnd)
         /\ UNCHANGED <<ptr, error>> => RefusesRightly'
<1>1. \A k : Gaps(k)' = Gaps(k)
  BY DEF Gaps, Behind, Literal
<1>2. ReadsText'
  <2> SUFFICES ASSUME NEW k \in DOMAIN toks  PROVE Follows(toks[k], Gaps(k))'
    BY DEF ReadsText, Follows
  <2>1. Follows(toks[k], Gaps(k))
    BY ReadsTextIs DEF Reads
  <2>2. First(toks[k])' = First(toks[k])
    BY DEF First, Literal
  <2> QED
    BY <1>1, <2>1, <2>2, SameText DEF Follows
<1>3. Gap' = Gap
  BY <1>1 DEF Gap, Gaps, Behind, Literal
<1>4. ASSUME UNCHANGED <<ptr, error>>  PROVE RefusesRightly'
  <2>1. Limit' = Limit /\ \A i : Place(i)' = Place(i)
    BY SameInput
  <2>2. RefusesRightly
    BY DEF Reads
  <2>3. Gaps(Len(toks) + 1)' = Gaps(Len(toks) + 1)
    BY <1>3 DEF Gap
  <2> QED
    BY <1>4, <2>1, <2>2, <2>3, SameText DEF RefusesRightly
<1> QED
  BY <1>2, <1>3, <1>4 DEF AtEnd

(* When one is.                                                            *)
LEMMA OneMoreRead ==
  ASSUME IInv, Reads, phase \in {"token", "literal"}, UNCHANGED <<input, error>>,
         NEW tok, toks' = Append(toks, tok), Follows(tok, Gap),
         ptr' = Behind(tok), phase' \in {"parser", "dump"}
  PROVE  Reads'
<1>1. /\ toks \in Seq(Token) /\ Len(toks) \in Nat /\ Len(toks') = Len(toks) + 1
      /\ DOMAIN toks' = 1 .. Len(toks) + 1 /\ toks'[Len(toks) + 1] = tok
      /\ DOMAIN toks = 1 .. Len(toks)
      /\ \A k \in 1 .. Len(toks) : toks'[k] = toks[k]
  BY TextFacts
<1>2. \A k \in 1 .. Len(toks) + 1 : Gaps(k)' = Gaps(k)
  <2> SUFFICES ASSUME NEW k \in 1 .. Len(toks) + 1  PROVE Gaps(k)' = Gaps(k)
    OBVIOUS
  <2>1. CASE k = 1
    BY <2>1 DEF Gaps
  <2>2. CASE k # 1
    <3>1. k - 1 \in 1 .. Len(toks)
      BY <1>1, <2>2
    <3>2. Behind(toks[k - 1])' = Behind(toks[k - 1])
      BY <1>1, <3>1 DEF Behind, Literal
    <3> QED
      BY <2>2, <3>2 DEF Gaps
  <2> QED
    BY <2>1, <2>2
<1>3. ReadsText'
  <2> SUFFICES ASSUME NEW k \in 1 .. Len(toks) + 1  PROVE Follows(toks[k], Gaps(k))'
    BY <1>1 DEF ReadsText, Follows
  <2>1. Follows(toks'[k], Gaps(k))
    <3>1. CASE k = Len(toks) + 1
      BY <1>1, <3>1 DEF Gap
    <3>2. CASE k # Len(toks) + 1
      <4>1. k \in 1 .. Len(toks)
        BY <1>1, <3>2
      <4> QED
        BY <1>1, <4>1, ReadsTextIs DEF Reads
    <3> QED
      BY <3>1, <3>2
  <2>2. First(toks[k])' = First(toks'[k])
    BY DEF First, Literal
  <2> QED
    BY <1>2, <2>1, <2>2, SameText DEF Follows
<1>4. Gap' = Behind(tok)
  <2>1. Gap' = Behind(toks[Len(toks)])'
    <3>1. Len(toks') + 1 # 1 /\ Len(toks') + 1 - 1 = Len(toks')
      BY <1>1
    <3> QED
      BY <3>1 DEF Gap, Gaps, Behind, Literal
  <2>2. Behind(toks[Len(toks)])' = Behind(toks'[Len(toks')])
    BY DEF Behind, Literal
  <2> QED
    BY <1>1, <2>1, <2>2
<1>5. RefusesRightly'
  <2>1. error' = NoError
    BY DEF IInv, Errors
  <2> QED
    BY <2>1 DEF RefusesRightly, NoError
<1>6. Progress'
  BY <1>4 DEF Progress
<1> QED
  BY <1>3, <1>5, <1>6 DEF Reads

(* A token that begins with a character is not behind a comment.           *)
LEMMA SpacesBefore ==
  ASSUME IInv, Reads, phase \in {"token", "literal"}, ptr < Limit, input[ptr] # NL
  PROVE  Clip(ptr) = ptr /\ AllIn(Spaces, Gap, ptr - 1) /\ Gap \in 1 .. ptr
<1>1. Clip(ptr) = ptr
  BY TextFacts DEF Clip
<1> QED
  BY <1>1 DEF Reads, Progress, Skipped, OnlySpaces, WithComment

LEMMA LexemeRead ==
  ASSUME IInv, Reads, phase = "token", UNCHANGED <<input, error>>, ptr < Limit, input[ptr] # NL,
         NEW type \in Types \ {"eos", "str"}, NEW end, Give(type, ptr, end, 0),
         IsRight([type |-> type, pos |-> pos, beg |-> ptr, end |-> end]), end \in Nat
  PROVE  Reads'
<1> DEFINE tok == [type |-> type, pos |-> pos, beg |-> ptr, end |-> end]
<1>1. First(tok) = ptr /\ Behind(tok) = end /\ tok.type = type
  BY DEF First, Behind, Literal
<1>2. IsRight(tok)
  OBVIOUS
<1>3. /\ toks' = Append(toks, tok) /\ ptr' = end + 0 /\ phase' \in {"parser", "dump"}
  BY DEF Give
<1> HIDE DEF tok
<1>4. Follows(tok, Gap)
  BY <1>1, <1>2, SpacesBefore DEF Follows
<1>5. ptr' = Behind(tok)
  BY <1>1, <1>3
<1> QED
  BY <1>3, <1>4, <1>5, OneMoreRead

LEMMA CharTokenReads ==
  ASSUME IInv, Reads, CharToken  PROVE Reads'
<1>1. /\ phase = "token" /\ CharAt(ptr) \in Marks /\ Give("mark", ptr, ptr + 1, 0)
      /\ UNCHANGED <<input, error>>
  BY DEF CharToken, AtChar
<1>2. ptr < Limit /\ input[ptr] \in Marks /\ input[ptr] # NL
  BY <1>1, CharFacts, TextFacts, CharAtIn DEF Chars
<1>3. IsRight([type |-> "mark", pos |-> pos, beg |-> ptr, end |-> ptr + 1])
  BY <1>2 DEF IsRight
<1>4. ptr + 1 \in Nat
  BY TextFacts
<1> QED
  BY <1>1, <1>2, <1>3, <1>4, LexemeRead DEF Types

(* The characters from ptr up to the first that is none of S.              *)
LEMMA RunOf ==
  ASSUME IInv, ptr < Limit, NEW S, input[ptr] \in S
  PROVE  LET end == FindIf(ptr + 1, Chars \ S)
         IN  /\ end \in Nat /\ ptr < end /\ end <= Limit
             /\ AllIn(S, ptr, end - 1) /\ EndsBefore(end, S)
<1> DEFINE end == FindIf(ptr + 1, Chars \ S)
<1>1. ptr + 1 \in 1 .. Limit
  BY TextFacts
<1>2. /\ end \in ptr + 1 .. Limit
      /\ \A i \in ptr + 1 .. end - 1 : input[i] \notin Chars \ S
      /\ end < Limit => input[end] \in Chars \ S
  BY <1>1, TextFacts, FindIfProperties
<1> HIDE DEF end
<1>3. end \in Nat /\ ptr < end /\ end <= Limit
  BY <1>2, TextFacts
<1>4. AllIn(S, ptr, end - 1)
  <2> SUFFICES ASSUME NEW i \in ptr .. end - 1  PROVE input[i] \in S
    BY DEF AllIn
  <2>1. CASE i = ptr
    BY <2>1
  <2>2. CASE i # ptr
    <3>1. i \in ptr + 1 .. end - 1 /\ i \in 1 .. Limit - 1
      BY <1>3, <2>2, TextFacts
    <3> QED
      BY <1>2, <3>1, TextFacts
  <2> QED
    BY <2>1, <2>2
<1>5. EndsBefore(end, S)
  BY <1>2, <1>3, TextFacts DEF EndsBefore
<1> QED
  BY <1>3, <1>4, <1>5 DEF end

LEMMA NumberReads ==
  ASSUME IInv, Reads, Number  PROVE Reads'
<1> DEFINE end == FindIf(ptr + 1, Chars \ Digits)
<1>1. /\ phase = "token" /\ CharAt(ptr) \in Digits /\ Give("num", ptr, end, 0)
      /\ UNCHANGED <<input, error>>
  BY DEF Number, AtChar
<1>2. ptr < Limit /\ input[ptr] \in Digits /\ input[ptr] # NL
  BY <1>1, CharFacts, TextFacts, CharAtIn DEF Chars, Words
<1>3. /\ end \in Nat /\ ptr < end
      /\ AllIn(Digits, ptr, end - 1) /\ EndsBefore(end, Digits)
  BY <1>2, RunOf
<1> HIDE DEF end
<1>4. IsRight([type |-> "num", pos |-> pos, beg |-> ptr, end |-> end])
  BY <1>3 DEF IsRight
<1> QED
  BY <1>1, <1>2, <1>3, <1>4, LexemeRead DEF Types

LEMMA WordReads ==
  ASSUME IInv, Reads, Word  PROVE Reads'
<1> DEFINE end == FindIf(ptr + 1, Chars \ Words)
           word == SubSeq(input, ptr, end - 1)
<1>1. /\ phase = "token" /\ CharAt(ptr) \in Uppers \cup Lowers
      /\ UNCHANGED <<input, error>>
      /\ \E type \in WordTypes(word) : Give(type, ptr, end, 0)
  BY DEF Word, AtChar
<1>2. /\ ptr < Limit /\ input[ptr] \in Words /\ input[ptr] # NL
      /\ input[ptr] \notin Digits
  <2>1. End \notin Uppers \cup Lowers
    BY CharFacts DEF Chars, Words
  <2>2. ptr < Limit /\ input[ptr] \in Uppers \cup Lowers
    BY <1>1, <2>1, TextFacts, CharAtIn
  <2> QED
    BY <2>2, CharFacts, KindFacts DEF Words
<1>3. /\ end \in Nat /\ ptr < end /\ end <= Limit
      /\ AllIn(Words, ptr, end - 1) /\ EndsBefore(end, Words)
  BY <1>2, RunOf
<1>4. IsWord(ptr, end)
  BY <1>2, <1>3 DEF IsWord
<1>5. (\E i \in DOMAIN word : word[i] \notin Names) <=> ~AllIn(Names, ptr, end - 1)
  <2> HIDE DEF end
  <2>1. DOMAIN word = 1 .. end - ptr
    <3>1. Len(word) = (end - 1) - ptr + 1 /\ word \in Seq(Chars)
      <4>1. input \in Seq(Chars) /\ ptr \in Nat /\ ptr >= 1 /\ end - 1 \in Nat
            /\ end - 1 <= Len(input) /\ ptr <= end - 1
        BY <1>3, TextFacts
      <4> QED
        BY <4>1
    <3>2. (end - 1) - ptr + 1 = end - ptr
      BY <1>3, TextFacts
    <3> HIDE DEF word
    <3> QED
      BY <3>1, <3>2
  <2>2. \A i \in 1 .. end - ptr : word[i] = input[ptr + i - 1]
    BY <1>3, TextFacts
  <2> HIDE DEF word
  <2>3. \A i \in 1 .. end - ptr : ptr + i - 1 \in ptr .. end - 1
    BY <1>3, TextFacts
  <2>4. \A j \in ptr .. end - 1 : j - ptr + 1 \in 1 .. end - ptr /\ ptr + (j - ptr + 1) - 1 = j
    BY <1>3, TextFacts
  <2>5. ASSUME NEW i \in 1 .. end - ptr, word[i] \notin Names
        PROVE  ~AllIn(Names, ptr, end - 1)
    BY <2>2, <2>3, <2>5 DEF AllIn
  <2>6. ASSUME NEW j \in ptr .. end - 1, input[j] \notin Names
        PROVE  \E i \in 1 .. end - ptr : word[i] \notin Names
    <3>1. word[j - ptr + 1] = input[j]
      BY <2>2, <2>4
    <3> QED
      BY <2>4, <2>6, <3>1
  <2> QED
    BY <2>1, <2>5, <2>6 DEF AllIn
<1>6. PICK type \in WordTypes(word) : Give(type, ptr, end, 0)
  BY <1>1
<1>7. type \in {"ident", "name", "kw_list"}
  BY DEF WordTypes
<1>8. IsRight([type |-> type, pos |-> pos, beg |-> ptr, end |-> end])
  <2> HIDE DEF end
  <2>1. CASE type = "ident"
    <3>1. \E i \in DOMAIN word : word[i] \notin Names
      <4> HIDE DEF word
      <4> QED
        BY <2>1 DEF WordTypes
    <3> QED
      BY <1>4, <1>5, <2>1, <3>1 DEF IsRight
  <2>2. CASE type = "name"
    <3>1. ~\E i \in DOMAIN word : word[i] \notin Names
      <4> HIDE DEF word
      <4> QED
        BY <2>2 DEF WordTypes
    <3> QED
      BY <1>4, <1>5, <2>2, <3>1 DEF IsRight
  <2>3. CASE type = "kw_list"
    <3>1. word = ListWord
      <4> HIDE DEF word
      <4> QED
        BY <2>3 DEF WordTypes
    <3> QED
      BY <1>4, <2>3, <3>1 DEF IsRight
  <2> QED
    BY <1>7, <2>1, <2>2, <2>3
<1> HIDE DEF end, word
<1> QED
  BY <1>1, <1>2, <1>3, <1>6, <1>7, <1>8, LexemeRead DEF Types

LEMMA EndTokenReads ==
  ASSUME IInv, Reads, EndToken  PROVE Reads'
<1> DEFINE tok == [type |-> "eos", pos |-> pos, beg |-> ptr, end |-> ptr]
<1>1. /\ phase = "token" /\ ptr >= Limit /\ Give("eos", ptr, ptr, 0)
      /\ UNCHANGED <<input, error>>
  BY DEF EndToken
<1>2. /\ toks' = Append(toks, tok) /\ ptr' = ptr + 0 /\ phase' \in {"parser", "dump"}
  BY <1>1 DEF Give
<1>3. First(tok) = ptr /\ Behind(tok) = ptr /\ tok.type = "eos"
  BY DEF First, Behind, Literal
<1>4. IsRight(tok)
  BY <1>1 DEF IsRight
<1> HIDE DEF tok
<1>5. IsGap(Gap, Clip(ptr))
  <2>1. Skipped(Gap, ptr)
    BY <1>1 DEF Reads, Progress
  <2>2. CASE OnlySpaces(Gap, ptr)
    <3>1. Clip(ptr) \in Nat /\ Gap \in 1 .. Clip(ptr)
      BY <2>1, TextFacts DEF Clip, Skipped
    <3>2. Clip(ptr) \in Gap .. Clip(ptr) /\ ~(Clip(ptr) < Clip(ptr))
      BY <3>1
    <3> QED
      BY <2>2, <3>2 DEF OnlySpaces, IsGap
  <2> QED
    BY <2>1, <2>2 DEF Skipped, WithComment
<1>6. Follows(tok, Gap)
  BY <1>3, <1>4, <1>5 DEF Follows
<1>7. ptr' = Behind(tok)
  BY <1>2, <1>3, TextFacts
<1> QED
  BY <1>1, <1>2, <1>6, <1>7, OneMoreRead

LEMMA SkipSpacesReads ==
  ASSUME IInv, Reads, SkipSpaces  PROVE Reads'
<1> DEFINE past == FindIf(ptr, Chars \ Spaces)
           to == IF CharAt(past) = Hash THEN FindIf(past + 1, {NL}) ELSE past
<1>1. /\ phase = "spaces" /\ phase' = "token" /\ UNCHANGED <<input, toks, error>>
      /\ ptr' = IF debug /\ to > ptr /\ to = Limit /\ nle THEN to + 1 ELSE to
  BY DEF SkipSpaces
<1>2. ptr \in 1 .. Limit /\ ~AtEnd /\ error = NoError
  BY <1>1, TextFacts DEF IInv, Pointers, Errors
<1>3. /\ past \in ptr .. Limit
      /\ \A i \in ptr .. past - 1 : input[i] \notin Chars \ Spaces
      /\ past < Limit => input[past] \in Chars \ Spaces
  BY <1>2, TextFacts, FindIfProperties
<1>4. past \in Nat /\ AllIn(Spaces, ptr, past - 1)
  <2> HIDE DEF past
  <2>1. \A i \in ptr .. past - 1 : i \in 1 .. Limit - 1
    BY <1>2, <1>3, TextFacts
  <2> QED
    BY <1>2, <1>3, <2>1, TextFacts DEF AllIn
<1>5. to \in ptr .. Limit /\ (OnlySpaces(ptr, to) \/ WithComment(ptr, to))
  <2>1. CASE CharAt(past) = Hash
    <3>1. past < Limit /\ input[past] = Hash
      <4>1. Hash # End
        BY CharFacts DEF Chars
      <4> QED
        BY <2>1, <4>1 DEF CharAt
    <3>2. past + 1 \in 1 .. Limit
      BY <1>4, <3>1, TextFacts
    <3>3. /\ to \in past + 1 .. Limit
          /\ \A i \in past + 1 .. to - 1 : input[i] \notin {NL}
          /\ to < Limit => input[to] \in {NL}
      BY <2>1, <3>2, TextFacts, FindIfProperties
    <3> HIDE DEF past, to
    <3>4. /\ to \in Nat /\ past < to /\ to \in ptr .. Limit /\ Clip(to) = to
          /\ past \in ptr .. to - 1 /\ past \in ptr .. to
      BY <1>2, <1>3, <1>4, <3>3, TextFacts DEF Clip
    <3>5. AllIn(Chars \ {NL}, past, to - 1)
      <4> SUFFICES ASSUME NEW i \in past .. to - 1  PROVE input[i] \in Chars \ {NL}
        BY DEF AllIn
      <4>1. i \in 1 .. Limit - 1 /\ (i = past \/ i \in past + 1 .. to - 1)
        BY <1>2, <1>3, <1>4, <3>4, TextFacts
      <4> QED
        BY <3>1, <3>3, <4>1, TextFacts, CharFacts
    <3>6. IsGap(ptr, to)
      BY <1>4, <3>1, <3>4, <3>5 DEF IsGap
    <3> QED
      BY <3>1, <3>3, <3>4, <3>6 DEF WithComment
  <2>2. CASE CharAt(past) # Hash
    <3>1. to = past
      BY <2>2
    <3> HIDE DEF past, to
    <3>2. Clip(to) = to
      BY <1>2, <1>3, <3>1, TextFacts DEF Clip
    <3>3. to < Limit => input[to] \notin Spaces \cup {Hash}
      BY <1>3, <2>2, <3>1 DEF CharAt
    <3> QED
      BY <1>3, <1>4, <3>1, <3>2, <3>3 DEF OnlySpaces
  <2> QED
    BY <2>1, <2>2
<1> HIDE DEF to
<1>6. /\ Clip(ptr') = to /\ Clip(to) = to /\ to \in Nat
      /\ ptr' < Limit => ptr' = to
  BY <1>1, <1>2, <1>5, TextFacts DEF Clip
<1>7. Skipped(ptr, ptr')
  <2>1. OnlySpaces(ptr, to) => OnlySpaces(ptr, ptr')
    BY <1>6 DEF OnlySpaces
  <2>2. WithComment(ptr, to) => WithComment(ptr, ptr')
    BY <1>6 DEF WithComment
  <2>3. ptr \in 1 .. to
    BY <1>2, <1>5, <1>6, TextFacts
  <2> QED
    BY <1>5, <1>6, <2>1, <2>2, <2>3 DEF Skipped
<1>8. ReadsText' /\ Gap' = Gap
  BY <1>1, SameReads
<1>9. Gap = ptr
  BY <1>1, <1>2 DEF Reads, Progress
<1>10. Limit' = Limit
  BY <1>1 DEF Limit
<1>11. Skipped(Gap, ptr)'
  BY <1>1, <1>7, <1>8, <1>9, <1>10, SameText DEF Skipped, OnlySpaces, WithComment
<1>12. RefusesRightly'
  BY <1>1, <1>2 DEF RefusesRightly, NoError
<1>13. Progress'
  BY <1>1, <1>11 DEF Progress
<1> QED
  BY <1>8, <1>12, <1>13 DEF Reads

(* The gap before a place is of spaces, with a comment perhaps.            *)
LEMMA SkippedIsGap ==
  ASSUME IInv, Skipped(Gap, ptr)
  PROVE  IsGap(Gap, Clip(ptr))
<1>1. CASE OnlySpaces(Gap, ptr)
  <2>1. Clip(ptr) \in Nat /\ Gap \in 1 .. Clip(ptr)
    BY TextFacts DEF Clip, Skipped
  <2>2. Clip(ptr) \in Gap .. Clip(ptr) /\ ~(Clip(ptr) < Clip(ptr))
    BY <2>1
  <2> QED
    BY <1>1, <2>2 DEF OnlySpaces, IsGap
<1> QED
  BY <1>1 DEF Skipped, WithComment

LEMMA UnexpectCharReads ==
  ASSUME IInv, Reads, UnexpectChar  PROVE Reads'
<1>1. /\ phase = "token" /\ phase' = "verror" /\ error' = [pos |-> pos, why |-> "char"]
      /\ CharAt(ptr) \in Chars \ (Marks \cup Words \cup Quotes)
      /\ UNCHANGED <<input, ptr, pos, toks>>
  BY DEF UnexpectChar, AtChar, Error
<1>2. /\ ptr < Limit /\ input[ptr] \in Chars \ (Marks \cup Words \cup Quotes)
      /\ Clip(ptr) = ptr
  <2> DEFINE S == Chars \ (Marks \cup Words \cup Quotes)
  <2>1. CharAt(ptr) \in S /\ End \notin S
    BY <1>1, CharFacts
  <2> HIDE DEF S
  <2>2. ptr < Limit /\ input[ptr] \in S
    BY <2>1, TextFacts, CharAtIn
  <2>3. Clip(ptr) = ptr
    BY <2>2, TextFacts DEF Clip
  <2> QED
    BY <2>2, <2>3 DEF S
<1>3. Skipped(Gap, ptr)
  BY <1>1 DEF Reads, Progress
<1>4. IsGap(Gap, ptr)
  BY <1>2, <1>3, SkippedIsGap
<1>5. input[ptr] \notin Blanks \cup {Hash}
  BY <1>2, <1>3, CharFacts, KindFacts DEF Skipped, OnlySpaces, WithComment, Spaces
<1>6. input[ptr] = NL => ~AllIn(Spaces, Gap, ptr)
  <2> SUFFICES ASSUME input[ptr] = NL, AllIn(Spaces, Gap, ptr)  PROVE FALSE
    OBVIOUS
  <2>1. NL \in Spaces
    BY DEF Spaces
  <2>2. PICK c \in Gap .. ptr - 1 : input[c] = Hash
    BY <1>2, <1>3, <2>1 DEF Skipped, OnlySpaces, WithComment
  <2>3. c \in Gap .. ptr
    BY <1>2, <1>3, TextFacts DEF Skipped
  <2> QED
    BY <2>2, <2>3, KindFacts DEF AllIn
<1>7. pos = Place(ptr)
  BY <1>2 DEF IInv, PositionsExact
<1>8. ReadsText' /\ Gap' = Gap
  BY <1>1, SameReads
<1>9. \A i : Place(i)' = Place(i)
  BY <1>1, SameInput
<1>10. RefusesRightly'
  <2>1. Place(ptr)' = Place(ptr)
    BY <1>1, <1>9
  <2>2. IsGap(Gap, ptr)' /\ (input[ptr] = NL => ~AllIn(Spaces, Gap, ptr))'
    BY <1>1, <1>4, <1>6, <1>8, SameText
  <2>3. Gap' = Gaps(Len(toks) + 1)'
    BY DEF Gap
  <2>4. error'.why = "char" /\ error'.pos = Place(ptr)'
    BY <1>1, <1>7, <2>1
  <2>5. input'[ptr'] \notin Marks \cup Words \cup Quotes \cup Blanks \cup {Hash}
    BY <1>1, <1>2, <1>5
  <2> QED
    BY <2>2, <2>3, <2>4, <2>5 DEF RefusesRightly, Gap
<1>11. Progress'
  BY <1>1 DEF Progress
<1> QED
  BY <1>8, <1>10, <1>11 DEF Reads

-----------------------------------------------------------------------------
(* A backslash that is not escaped escapes what comes next, and nothing    *)
(* else does.                                                              *)
LEMMA EscapedNext ==
  ASSUME NEW b \in Nat, b >= 1, NEW i \in Nat, b < i, input[b] # Backslash
  PROVE  Escaped(b, i + 1) <=> input[i] = Backslash /\ ~Escaped(b, i)
<1> DEFINE S(j) == {k \in b .. j - 1 : input[k] # Backslash}
           c == Max(S(i))
<1>1. S(i) \in SUBSET Nat /\ S(i) # {} /\ \A k \in S(i) : k <= i
  <2>1. b \in S(i)
    OBVIOUS
  <2> QED
    BY <2>1
<1>2. c \in S(i) /\ \A k \in S(i) : k <= c
  BY <1>1, MaxProperties
<1>3. c \in Nat /\ c <= i - 1
  BY <1>2
<1>4. Escaped(b, i) <=> (i - 1 - c) % 2 = 1
  BY DEF Escaped
<1>5. Escaped(b, i + 1) <=> (i - Max(S(i + 1))) % 2 = 1
  BY DEF Escaped
<1>6. CASE input[i] = Backslash
  <2>1. S(i + 1) = S(i)
    BY <1>6
  <2> HIDE DEF S, c
  <2> DEFINE n == i - 1 - c
  <2>2. n \in Nat /\ i - c = n + 1
    BY <1>3
  <2> HIDE DEF n
  <2>3. (n + 1) % 2 = 1 <=> ~(n % 2 = 1)
    BY <2>2
  <2>4. Escaped(b, i + 1) <=> (i - c) % 2 = 1
    BY <1>5, <2>1 DEF c
  <2> QED
    BY <1>4, <1>6, <2>2, <2>3, <2>4 DEF n
<1>7. CASE input[i] # Backslash
  <2>1. S(i + 1) \in SUBSET Nat /\ i \in S(i + 1) /\ \A k \in S(i + 1) : k <= i
    BY <1>7
  <2>2. Max(S(i + 1)) = i
    <3> HIDE DEF S
    <3> QED
      BY <2>1, MaxIs
  <2>3. (i - i) % 2 = 0
    OBVIOUS
  <2> QED
    BY <1>5, <1>7, <2>2, <2>3
<1> QED
  BY <1>6, <1>7

(* The character after the quote is not escaped.                           *)
LEMMA EscapedFirst ==
  ASSUME NEW b \in Nat, b >= 1, input[b] # Backslash
  PROVE  ~Escaped(b, b + 1)
<1> DEFINE S == {k \in b .. b + 1 - 1 : input[k] # Backslash}
<1>1. S \in SUBSET Nat /\ b \in S /\ \A k \in S : k <= b
  OBVIOUS
<1>2. Max(S) = b
  <2> HIDE DEF S
  <2> QED
    BY <1>1, MaxIs
<1>3. (b + 1 - 1 - b) % 2 = 0
  OBVIOUS
<1> QED
  BY <1>2, <1>3 DEF Escaped

LEMMA OpenLiteralReads ==
  ASSUME IInv, Reads, OpenLiteral  PROVE Reads'
<1>1. /\ phase = "token" /\ phase' = "literal" /\ scan' = ptr + 1
      /\ CharAt(ptr) \in Quotes /\ UNCHANGED <<input, ptr, toks, error>>
  BY DEF OpenLiteral, AtChar
<1>2. input[ptr] \in Quotes /\ input[ptr] # Backslash
  BY <1>1, CharFacts, KindFacts, TextFacts, CharAtIn DEF Chars
<1>3. ScannedTo(ptr, ptr + 1)
  <2>1. ~Escaped(ptr, ptr + 1)
    BY <1>2, TextFacts, EscapedFirst
  <2>2. SUFFICES ASSUME NEW j \in ptr + 1 .. (ptr + 1) - 1  PROVE Belongs(ptr, j)
    BY <2>1 DEF ScannedTo
  <2> QED
    BY TextFacts
<1>4. ReadsText' /\ Gap' = Gap /\ RefusesRightly'
  BY <1>1, SameReads
<1>5. ScannedTo(ptr, scan)'
  BY <1>1, <1>3, SameText DEF ScannedTo
<1>6. Skipped(Gap, ptr)'
  <2>1. Limit' = Limit /\ Skipped(Gap, ptr)
    BY <1>1, SameInput DEF Reads, Progress
  <2> QED
    BY <1>1, <1>4, <2>1, SameText DEF Skipped, OnlySpaces, WithComment
<1>7. Progress'
  BY <1>1, <1>5, <1>6 DEF Progress
<1> QED
  BY <1>4, <1>7 DEF Reads

(* Up to where a turn of scan_literal stops every character belongs to the *)
(* literal, and none of those that stop it is escaped.                     *)
LEMMA StopReads ==
  ASSUME IInv, Reads, phase = "literal"
  PROVE  /\ ScannedTo(ptr, Stop)
         /\ Stop < Limit => input[Stop] \in NonPlain \cup {Backslash, input[ptr]}
<1>1. /\ ptr \in Nat /\ ptr >= 1 /\ ptr < Limit /\ Limit \in Nat
      /\ input[ptr] \in Quotes
      /\ Stop \in Nat /\ scan <= Stop /\ Stop <= Limit /\ ptr < scan
  BY StopProperties
<1>2. scan \in Nat /\ scan \in 1 .. Limit /\ ScannedTo(ptr, scan) /\ input[ptr] # Backslash
  BY <1>1, KindFacts DEF IInv, Basics, Reads, Progress
<1> DEFINE S == NonPlain \cup {Backslash, input[ptr]}
<1>3. /\ \A i \in scan .. Stop - 1 : input[i] \notin S
      /\ Stop < Limit => input[Stop] \in S
  BY <1>2, TextFacts, FindIfProperties DEF Stop
<1>4. \A i \in scan + 1 .. Stop : ~Escaped(ptr, i)
  <2> SUFFICES ASSUME NEW i \in scan + 1 .. Stop  PROVE ~Escaped(ptr, i)
    OBVIOUS
  <2>1. /\ i - 1 \in scan .. Stop - 1 /\ i - 1 \in Nat /\ ptr < i - 1 /\ (i - 1) + 1 = i
    BY <1>1, <1>2
  <2>2. input[i - 1] # Backslash
    BY <1>3, <2>1
  <2>3. Escaped(ptr, (i - 1) + 1) => input[i - 1] = Backslash
    BY <1>1, <1>2, <2>1, EscapedNext
  <2> QED
    BY <2>1, <2>2, <2>3
<1>5. ~Escaped(ptr, Stop)
  <2>1. Stop = scan \/ Stop \in scan + 1 .. Stop
    BY <1>1, <1>2
  <2> QED
    BY <1>2, <1>4, <2>1 DEF ScannedTo
<1>6. ASSUME NEW j \in ptr + 1 .. Stop - 1  PROVE Belongs(ptr, j)
  <2>1. CASE j \in ptr + 1 .. scan - 1
    BY <1>2, <2>1 DEF ScannedTo
  <2>2. CASE j \in scan .. Stop - 1
    <3>1. ~Escaped(ptr, j)
      <4>1. j = scan \/ j \in scan + 1 .. Stop
        BY <1>1, <1>2, <2>2
      <4> QED
        BY <1>2, <1>4, <4>1 DEF ScannedTo
    <3>2. input[j] \notin NonPlain \cup {input[ptr]}
      BY <1>3, <2>2
    <3> QED
      BY <3>1, <3>2 DEF Belongs
  <2> QED
    BY <1>1, <1>2, <2>1, <2>2
<1> QED
  BY <1>3, <1>5, <1>6 DEF ScannedTo

(* ... and a backslash there belongs to it, too, and escapes the next.     *)
LEMMA EscapeReads ==
  ASSUME IInv, Reads, phase = "literal", Escapes
  PROVE  /\ Stop < Limit /\ Belongs(ptr, Stop) /\ Escaped(ptr, Stop + 1)
         /\ ptr < Stop /\ Stop \in Nat
<1>1. /\ ptr \in Nat /\ ptr >= 1 /\ input[ptr] \in Quotes
      /\ Stop \in Nat /\ ptr < Stop /\ Stop < Limit
  BY StopProperties
<1>2. input[Stop] = Backslash
  BY <1>1 DEF Escapes, CharAt
<1>3. ~Escaped(ptr, Stop)
  BY StopReads DEF ScannedTo
<1>4. input[ptr] # Backslash /\ Backslash \notin NonPlain
  BY <1>1, KindFacts
<1>5. Escaped(ptr, Stop + 1)
  BY <1>1, <1>2, <1>3, <1>4, EscapedNext
<1>6. Belongs(ptr, Stop)
  BY <1>2, <1>3, <1>4 DEF Belongs
<1> QED
  BY <1>1, <1>5, <1>6

LEMMA EscapeKeepsReads ==
  ASSUME IInv, Reads, Escape  PROVE Reads'
<1>1. /\ phase = "literal" /\ phase' = "literal" /\ Escapes /\ ~Cut(Stop + 1)
      /\ scan' = Stop + 2 /\ UNCHANGED <<input, ptr, toks, error>>
  BY DEF Escape
<1>2. /\ Stop \in Nat /\ ptr \in Nat /\ ptr >= 1 /\ ptr < Stop
      /\ Belongs(ptr, Stop) /\ Escaped(ptr, Stop + 1) /\ ScannedTo(ptr, Stop)
      /\ input[ptr] # Backslash
  BY <1>1, StopProperties, StopReads, EscapeReads, KindFacts
<1>3. Belongs(ptr, Stop + 1)
  <2>1. Stop + 1 < Limit /\ input[Stop + 1] # NL
    BY <1>1 DEF Cut, CharAt
  <2> QED
    BY <1>2, <2>1 DEF Belongs
<1>4. ~Escaped(ptr, Stop + 2)
  <2>1. Stop + 1 \in Nat /\ ptr < Stop + 1 /\ (Stop + 1) + 1 = Stop + 2
    BY <1>2
  <2>2. Escaped(ptr, (Stop + 1) + 1) => ~Escaped(ptr, Stop + 1)
    BY <1>2, <2>1, EscapedNext
  <2> QED
    BY <1>2, <2>1, <2>2
<1>5. ScannedTo(ptr, Stop + 2)
  <2>1. \A j \in ptr + 1 .. (Stop + 2) - 1 :
           j \in ptr + 1 .. Stop - 1 \/ j = Stop \/ j = Stop + 1
    BY <1>2
  <2> QED
    BY <1>2, <1>3, <1>4, <2>1 DEF ScannedTo
<1>6. ReadsText' /\ Gap' = Gap /\ RefusesRightly'
  BY <1>1, SameReads
<1>7. PICK e : scan' = e /\ ScannedTo(ptr, e)
  BY <1>1, <1>5
<1>8. ScannedTo(ptr, scan)'
  BY <1>1, <1>7, SameText DEF ScannedTo
<1>9. Skipped(Gap, ptr)'
  <2>1. Limit' = Limit /\ Skipped(Gap, ptr)
    BY <1>1, SameInput DEF Reads, Progress
  <2> QED
    BY <1>1, <1>6, <2>1, SameText DEF Skipped, OnlySpaces, WithComment
<1>10. Progress'
  BY <1>1, <1>8, <1>9 DEF Progress
<1> QED
  BY <1>6, <1>10 DEF Reads

LEMMA CloseLiteralReads ==
  ASSUME IInv, Reads, CloseLiteral  PROVE Reads'
<1> DEFINE e == LiteralEnd
           tok == [type |-> "str", pos |-> pos, beg |-> ptr + 1, end |-> e]
<1>1. /\ phase = "literal" /\ ~Escapes /\ CharAt(e) = input[ptr] /\ e = Stop
      /\ Give("str", ptr + 1, e, 1) /\ UNCHANGED <<input, error>>
  BY DEF CloseLiteral, LiteralEnd
<1>2. /\ ptr \in Nat /\ ptr >= 1 /\ ptr < Limit /\ input[ptr] \in Quotes
      /\ e \in Nat /\ ptr < e
  BY <1>1, StopProperties
<1>3. ScannedTo(ptr, e)
  BY <1>1, StopReads
<1>4. input[e] = input[ptr]
  <2>1. input[ptr] # End
    BY <1>2, CharFacts DEF Chars
  <2> QED
    BY <1>1, <2>1 DEF CharAt
<1> HIDE DEF e
<1>5. /\ toks' = Append(toks, tok) /\ ptr' = e + 1 /\ phase' \in {"parser", "dump"}
  BY <1>1 DEF Give
<1>6. /\ First(tok) = ptr /\ Behind(tok) = e + 1 /\ tok.type = "str"
      /\ tok.beg - 1 = ptr /\ tok.end = e
  BY <1>2 DEF First, Behind, Literal
<1> HIDE DEF tok
<1>7. IsRight(tok)
  <2>1. IsLiteral(ptr, e)
    BY <1>2, <1>3, <1>4 DEF IsLiteral, ScannedTo
  <2> QED
    BY <1>6, <2>1 DEF IsRight
<1>8. input[ptr] # NL
  BY <1>2, CharFacts
<1>9. Follows(tok, Gap)
  BY <1>1, <1>2, <1>6, <1>7, <1>8, SpacesBefore DEF Follows
<1> QED
  BY <1>1, <1>5, <1>6, <1>9, OneMoreRead

LEMMA LiteralErrorReads ==
  ASSUME IInv, Reads, LiteralError  PROVE Reads'
<1> DEFINE q == LiteralEnd
<1>1. /\ phase = "literal" /\ phase' = "verror"
      /\ error' = [pos |-> Right(pos, q - ptr), why |-> "literal"]
      /\ (~Escapes \/ Cut(Stop + 1)) /\ CharAt(q) \in NonPlain \cup {End}
      /\ UNCHANGED <<input, ptr, toks>>
  BY DEF LiteralError, Error
<1>2. /\ q \in 1 .. Limit /\ q \in Nat /\ ptr < q /\ error'.pos = Place(q)
      /\ ptr \in Nat /\ Limit \in Nat /\ Stop \in Nat /\ ptr < Stop
  BY <1>1, LiteralEndIs, StopProperties
<1>3. ScannedTo(ptr, Stop)
  BY <1>1, StopReads
<1>4. \A j \in ptr + 1 .. q - 1 : Belongs(ptr, j)
  <2>1. CASE ~Escapes
    BY <1>3, <2>1 DEF LiteralEnd, ScannedTo
  <2>2. CASE Escapes
    <3>1. q = Stop + 1 /\ Belongs(ptr, Stop)
      BY <1>1, <2>2, EscapeReads DEF LiteralEnd
    <3>2. \A j \in ptr + 1 .. q - 1 : j \in ptr + 1 .. Stop - 1 \/ j = Stop
      BY <1>2, <3>1
    <3> QED
      BY <1>3, <3>1, <3>2 DEF ScannedTo
  <2> QED
    BY <2>1, <2>2
<1>5. q < Limit => ~Belongs(ptr, q) /\ input[q] \in NonPlain
  <2> SUFFICES ASSUME q < Limit  PROVE ~Belongs(ptr, q) /\ input[q] \in NonPlain
    OBVIOUS
  <2>1. input[q] \in NonPlain
    <3>1. input[q] # End
      BY <1>2, TextFacts, CharFacts
    <3> QED
      BY <1>1, <3>1 DEF CharAt
  <2>2. CASE ~Escapes
    <3>1. q = Stop /\ ~Escaped(ptr, q)
      BY <1>3, <2>2 DEF LiteralEnd, ScannedTo
    <3> QED
      BY <2>1, <3>1 DEF Belongs
  <2>3. CASE Escapes
    <3>1. q = Stop + 1 /\ Escaped(ptr, q) /\ Cut(Stop + 1)
      BY <1>1, <2>3, EscapeReads DEF LiteralEnd
    <3>2. input[q] = NL
      <4>1. CharAt(q) \in {NL, End} /\ CharAt(q) = input[q] /\ input[q] # End
        BY <1>2, <3>1, TextFacts, CharFacts DEF Cut, CharAt
      <4> QED
        BY <4>1
    <3> QED
      BY <2>1, <3>1, <3>2 DEF Belongs
  <2> QED
    BY <2>2, <2>3
<1> HIDE DEF q
<1>6. ReadsText' /\ Gap' = Gap
  BY <1>1, SameReads
<1>7. RefusesRightly'
  <2>1. PICK e : e = q
    OBVIOUS
  <2>2. Limit' = Limit /\ Place(e)' = Place(e)
    BY <1>1, SameInput
  <2>3. e \in ptr + 1 .. Limit
    BY <1>2, <2>1
  <2>4. /\ (error.pos = Place(e))'
        /\ (\A j \in ptr + 1 .. e - 1 : Belongs(ptr, j))'
        /\ (e < Limit => ~Belongs(ptr, e) /\ input[e] \in NonPlain)'
    BY <1>1, <1>2, <1>4, <1>5, <2>1, <2>2, SameText
  <2>5. (error.why = "literal" /\ e \in ptr + 1 .. Limit)'
    BY <1>1, <2>2, <2>3
  <2> QED
    BY <2>4, <2>5 DEF RefusesRightly
<1>8. Progress'
  BY <1>1 DEF Progress
<1> QED
  BY <1>6, <1>7, <1>8 DEF Reads

(* The steps that read nothing.                                            *)
LEMMA OtherReads ==
  ASSUME IInv, Reads,
         AskToken \/ RefuseToken \/ EndParse \/ Dump \/ Verror \/ UNCHANGED vars
  PROVE  Reads'
<1>1. UNCHANGED <<input, ptr, toks>>
  BY DEF AskToken, RefuseToken, EndParse, Dump, Verror, vars
<1>2. ReadsText' /\ Gap' = Gap /\ (AtEnd' <=> AtEnd)
  BY <1>1, SameReads
<1>3. RefusesRightly'
  <2>1. CASE RefuseToken
    <3>1. error'.why = "token"
      BY <2>1 DEF RefuseToken, Error
    <3> QED
      BY <3>1 DEF RefusesRightly
  <2>2. CASE ~RefuseToken
    <3>1. error' = error
      BY <2>2 DEF AskToken, EndParse, Dump, Verror, vars
    <3> QED
      BY <1>1, <3>1, SameReads
  <2> QED
    BY <2>1, <2>2
<1>4. Progress'
  <2>1. CASE UNCHANGED vars
    <3>1. Limit' = Limit /\ UNCHANGED <<phase, scan>>
      BY <1>1, <2>1, SameInput DEF vars
    <3> QED
      BY <1>1, <1>2, <3>1, SameText
         DEF Reads, Progress, Skipped, OnlySpaces, WithComment, ScannedTo
  <2>2. CASE ~UNCHANGED vars
    <3>1. /\ phase' \notin {"token", "literal"}
          /\ phase' \in {"parser", "spaces", "dump"} => phase \in {"parser", "dump"}
      BY <2>2 DEF AskToken, RefuseToken, EndParse, Dump, Verror, Error
    <3> QED
      BY <1>1, <1>2, <3>1 DEF Reads, Progress
  <2> QED
    BY <2>1, <2>2
<1> QED
  BY <1>2, <1>3, <1>4 DEF Reads

LEMMA InitReads ==
  ASSUME Init  PROVE Reads
<1>1. toks = <<>> /\ ptr = 1 /\ error = NoError /\ phase = "parser"
  BY DEF Init
<1>2. Gap = 1
  BY <1>1 DEF Gap, Gaps
<1>3. ReadsText
  BY <1>1 DEF ReadsText
<1>4. RefusesRightly
  BY <1>1 DEF RefusesRightly, NoError
<1> QED
  BY <1>1, <1>2, <1>3, <1>4 DEF Reads, Progress

LEMMA ReadsInvariance == Spec => []Reads
<1>1. ASSUME IInv, Reads, [Next]_vars  PROVE Reads'
  BY <1>1, SkipSpacesReads, EndTokenReads, CharTokenReads, WordReads, NumberReads,
     UnexpectCharReads, OpenLiteralReads, EscapeKeepsReads, CloseLiteralReads,
     LiteralErrorReads, OtherReads DEF Next
<1>2. Init => Reads
  BY InitReads
<1> QED
  BY <1>1, <1>2, InductiveInvariant, PTL DEF Spec

(* The tokens of every text are the text: each is a lexeme of its type, as *)
(* long as it can be, and between them next_token drops nothing but spaces *)
(* and a comment that ends the text.                                       *)
THEOREM TextIsRead == Spec => []ReadsText
<1>1. Reads => ReadsText
  BY DEF Reads
<1> QED
  BY <1>1, ReadsInvariance, PTL

(* next_token and scan_literal refuse a text only at a character that      *)
(* begins no token, or at the first that cannot go on a literal.           *)
THEOREM RefusalsAreRight == Spec => []RefusesRightly
<1>1. Reads => RefusesRightly
  BY DEF Reads
<1> QED
  BY <1>1, ReadsInvariance, PTL
=============================================================================
