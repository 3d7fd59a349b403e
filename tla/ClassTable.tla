----------------------------- MODULE ClassTable -----------------------------
(***************************************************************************)
(* How a maker finds the functions of a class by its name, a table that is *)
(* searched by bisection and a static variable that remembers the last     *)
(* class found (BasicMaker::find of src/tree/eval.hpp), for all the nodes  *)
(* and lists of all the inputs of a run of the program.                    *)
(*                                                                         *)
(* Names are strings: sequences of characters, as strcmp has them.         *)
(*                                                                         *)
(* (A _slip definition is the next one with a mistake: see PoolAllocator.) *)
(***************************************************************************)
EXTENDS Integers, Sequences

CONSTANTS
  Tables,     (* new_funcs of each library: its names, in order            *)
  OtherNames  (* names of no class that trees have                         *)

Alphabet == "0123456789ABCDEFGHIJKLMNOPQRSTUVWXYZabcdefghijklmnopqrstuvwxyz"

VARIABLES
  new_funcs,
  cache,      (* the entry found last; 0 for nullptr                       *)
  name,       (* the name that find looks for                              *)
  first, len, (* the entries that equal_range has still to look at         *)
  phase       (* "idle", "search", "found" or "unknown", an error thrown   *)

findVars == <<new_funcs, cache, name, first, len, phase>>

-----------------------------------------------------------------------------
(* strcmp(a, b) < 0                                                        *)
Char(s, i) == SubSeq(s, i, i)
Rank == [c \in {Char(Alphabet, i) : i \in 1 .. Len(Alphabet)} |->
           CHOOSE i \in 1 .. Len(Alphabet) : Char(Alphabet, i) = c]
Before(a, b) ==
  \E n \in 0 .. Len(a) :
    /\ n < Len(b) /\ SubSeq(a, 1, n) = SubSeq(b, 1, n)
    /\ n < Len(a) => Rank[Char(a, n + 1)] < Rank[Char(b, n + 1)]

Names == OtherNames \cup {new_funcs[i] : i \in DOMAIN new_funcs}
AllNames == OtherNames \cup UNION {{table[i] : i \in DOMAIN table} : table \in Tables}

(* strcmp orders names, and tells any two of them apart.                   *)
ASSUME StrcmpAssumption ==
  /\ \A a \in AllNames, b \in AllNames :
       /\ a # b => Before(a, b) \/ Before(b, a)
       /\ Before(a, b) => ~Before(b, a)
  /\ \A a \in AllNames, b \in AllNames : Before(a, b) =>
       \A c \in AllNames : Before(b, c) => Before(a, c)
ASSUME TableAssumption ==
  \A table \in Tables : table \in Seq(AllNames)

FindInit ==
  /\ new_funcs \in Tables
  /\ cache = 0 /\ name = "" /\ first = 1 /\ len = 0 /\ phase = "idle"

\* slip: a name that begins with the one in the cache is taken for it
Cached_slip(n) ==
  /\ cache # 0 /\ Len(new_funcs[cache]) <= Len(n)
  /\ SubSeq(n, 1, Len(new_funcs[cache])) = new_funcs[cache]

Cached(n) == cache # 0 /\ new_funcs[cache] = n

(* find(n), up to equal_range; an error ends the program, so the function  *)
(* that called find the last time was given its class.                     *)
Find(n) ==
  /\ phase \in {"idle", "found"}
  /\ name' = n
  /\ IF Cached(n)
       THEN phase' = "found" /\ UNCHANGED <<first, len>>
       ELSE phase' = "search" /\ first' = 1 /\ len' = Len(new_funcs)
  /\ UNCHANGED <<new_funcs, cache>>

(* A turn of std::equal_range, which ends at an entry that is neither      *)
(* before nor after the name: no two names of a table are equal.           *)
Bisect ==
  LET half == len \div 2
      mid  == first + half
  IN  /\ phase = "search" /\ len > 0
      /\ \/ /\ Before(new_funcs[mid], name)
            /\ first' = mid + 1 /\ len' = len - half - 1
            /\ UNCHANGED <<cache, phase>>
         \/ /\ Before(name, new_funcs[mid])
            /\ len' = half
            /\ UNCHANGED <<first, cache, phase>>
         \/ /\ ~Before(new_funcs[mid], name) /\ ~Before(name, new_funcs[mid])
            /\ cache' = mid /\ phase' = "found"
            /\ UNCHANGED <<first, len>>
      /\ UNCHANGED <<new_funcs, name>>

Unknown ==
  /\ phase = "search" /\ len = 0
  /\ phase' = "unknown"
  /\ UNCHANGED <<new_funcs, cache, name, first, len>>

FindNext == Bisect \/ Unknown \/ \E n \in Names : Find(n)

FindSpec == FindInit /\ [][FindNext]_findVars

-----------------------------------------------------------------------------
(* The names of a table stand in the order of strcmp, as bisection needs.  *)
Sorted(table) ==
  \A i \in DOMAIN table, j \in DOMAIN table : i < j => Before(table[i], table[j])

(* Whatever was looked up before, the class found is the one that is named,*)
(* even if the name of the last one is its beginning: maker functions of   *)
(* another class would check, and make, another node.                      *)
FoundIsNamed == phase = "found" => new_funcs[cache] = name

(* No class is refused because its name is at the wrong place of the table.*)
UnknownIsUnknown ==
  phase = "unknown" => \A i \in DOMAIN new_funcs : new_funcs[i] # name

(* A name is found exactly when it is in the table, and what is found is   *)
(* its own entry, after any lookups before it: cache and bisection together*)
(* decide what a search of the whole table would.                          *)
FindDecides == FoundIsNamed /\ UnknownIsUnknown
=============================================================================
