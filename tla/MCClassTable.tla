---------------------------- MODULE MCClassTable ----------------------------
(* The tables of both libraries, and names before, between and behind      *)
(* theirs.                                                                 *)
EXTENDS ClassTable, AbcLibrary, CxxpyLibrary

MCTables     == {AbcNewFuncs, CxxpyNewFuncs}
MCOtherNames == {"A1", "Comparison", "Nod", "Nodes", "Str1", "Zz"}
=============================================================================
