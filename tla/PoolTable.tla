----------------------------- MODULE PoolTable ------------------------------
(***************************************************************************)
(* The table of AST::PoolAllocator (src/grammar/ast-base.cpp): the         *)
(* addresses t of the objects of a pool in the order in which they were    *)
(* made, and how `find' searches it.  They are compared one by one while   *)
(* there are fewer of them than `limit', and from there on searched by     *)
(* std::equal_range, whose bisection needs t sorted.                       *)
(***************************************************************************)
EXTENDS Integers, Sequences

(* The alignments of C++ types on the platforms the program is built for.  *)
Alignments == {1, 2, 4, 8, 16}

(* What is known of an object of the table, besides its address.           *)
Extents == [len : Nat \ {0}, align : Alignments]

IsLinear(t, limit) == Len(t) < limit

(* std::lower_bound and std::upper_bound, which differ in whether they skip*)
(* an element equal to `what'; n is the number of elements left to look at.*)
Skips(p, what, equal) == p < what \/ (equal /\ p = what)

(* The <<first, n>> that a bisection comes to, and one turn of it: `bound' *)
(* tells the results of shorter ranges.                                    *)
Ranges(len) == {r \in (0 .. len) \X (0 .. len) : r[1] + r[2] <= len}

Turn(t, bound, first, n, what, equal) ==
  LET half == n \div 2
      mid  == first + half
  IN  CASE n = 0 -> first
        [] n > 0 /\ Skips(t[mid + 1], what, equal)  -> bound[<<mid + 1, n - half - 1>>]
        [] n > 0 /\ ~Skips(t[mid + 1], what, equal) -> bound[<<first, half>>]

Bisect(t, what, equal) ==
  LET bound[r \in Ranges(Len(t))] == Turn(t, bound, r[1], r[2], what, equal)
  IN  bound[<<0, Len(t)>>]

\* slip: skips the object looked for
LowerBound_slip(t, what) == Bisect(t, what, TRUE)

LowerBound(t, what) == Bisect(t, what, FALSE)
UpperBound(t, what) == Bisect(t, what, TRUE)

(* The index of `what' in the table, from 0; -1 if it is not there.        *)
IndexIn(t, limit, what) ==
  LET at == {i \in DOMAIN t : t[i] = what}
  IN  CASE IsLinear(t, limit) /\ at = {} -> -1
        [] IsLinear(t, limit) /\ at # {} ->
             (CHOOSE i \in at : \A j \in at : i <= j) - 1
        [] ~IsLinear(t, limit) ->
             IF LowerBound(t, what) = UpperBound(t, what) THEN -1 ELSE LowerBound(t, what)
=============================================================================
