----------------------------- MODULE TreeStore ------------------------------
(***************************************************************************)
(* What an AST class promises its users, with no addresses in it: a store  *)
(* of nodes that only grows while it is open, in which a node refers only  *)
(* to nodes that were there before it and never changes; when it is closed *)
(* the nodes go away one by one, the newest first.                         *)
(***************************************************************************)
EXTENDS Naturals, Sequences

CONSTANT Kinds   (* the node classes *)

VARIABLES
  nodes,   (* the nodes, oldest first: [kind, kids], kids being places here *)
  closed

vars == <<nodes, closed>>

Init ==
  /\ nodes = <<>>
  /\ closed = FALSE

Add ==
  /\ ~closed
  /\ Len(nodes') = Len(nodes) + 1
  /\ nodes' = Append(nodes, nodes'[Len(nodes) + 1])
  /\ nodes'[Len(nodes) + 1] \in [kind : Kinds, kids : SUBSET (1 .. Len(nodes))]
  /\ UNCHANGED closed

Close ==
  /\ ~closed
  /\ closed' = TRUE
  /\ UNCHANGED nodes

Drop ==
  /\ closed
  /\ Len(nodes) > 0
  /\ nodes' = SubSeq(nodes, 1, Len(nodes) - 1)
  /\ UNCHANGED closed

Next == Add \/ Close \/ Drop

Spec == Init /\ [][Next]_vars
=============================================================================
