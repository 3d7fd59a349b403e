----------------------------- MODULE ObjectArena ----------------------------
(***************************************************************************)
(* What a user of AST::PoolAllocator relies on, without addresses being    *)
(* computed: a stack of objects, each one a run of bytes of the memory that*)
(* belongs to no other.  PoolAllocator.tla is shown to implement it.       *)
(***************************************************************************)
EXTENDS Naturals, Sequences

CONSTANT Memory  (* the addresses of the bytes objects are made of *)

VARIABLES
  objs,  (* the objects, oldest first *)
  dead   (* whether the arena is being, or was, destroyed *)

vars == <<objs, dead>>

BytesOf(o) == {b \in Memory : o.at <= b /\ b < o.at + o.len}

(* An object of its own: some bytes, all of them memory, none in use.      *)
Placed(o) ==
  /\ o.len > 0
  /\ o.at .. o.at + o.len - 1 \subseteq Memory
  /\ \A i \in DOMAIN objs : BytesOf(o) \cap BytesOf(objs[i]) = {}

Init == objs = <<>> /\ dead = FALSE

Create ==
  /\ ~dead
  /\ Len(objs') = Len(objs) + 1
  /\ SubSeq(objs', 1, Len(objs)) = objs
  /\ Placed(objs'[Len(objs) + 1])
  /\ UNCHANGED dead

Undo ==
  /\ ~dead
  /\ objs # <<>>
  /\ objs' = SubSeq(objs, 1, Len(objs) - 1)
  /\ UNCHANGED dead

Close ==
  /\ ~dead
  /\ dead' = TRUE
  /\ UNCHANGED objs

Next == Create \/ Undo \/ Close

Spec == Init /\ [][Next]_vars
=============================================================================
