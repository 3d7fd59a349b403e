----------------------------- MODULE MCBaseAST ------------------------------
(* Values for the constants of BaseAST: a few classes of each of two AST   *)
(* libraries, with the sizes they have on x86-64.                          *)
EXTENDS BaseAST, AbcLibrary

TreeKinds == {"NodeName", "NodeArgs", "Literal", "LiteralArgs", "TreeNode"}
AbcKinds  == {"Q", "B", "M", "L"}
BothKinds == TreeKinds \cup AbcKinds

BothParams == [k \in DOMAIN TreeParams \cup DOMAIN AbcParams |->
                 IF k \in DOMAIN TreeParams THEN TreeParams[k] ELSE AbcParams[k]]
BothBases  == [k \in DOMAIN TreeBase \cup DOMAIN AbcBase |->
                 IF k \in DOMAIN TreeBase THEN TreeBase[k] ELSE AbcBase[k]]

Sizes ==
  [ Literal |-> 24, NodeName |-> 24, NodeArgs |-> 16, LiteralArgs |-> 24, TreeNode |-> 32,
    Q |-> 16, B |-> 24, L |-> 32, M |-> 48 ]

\* an address of no node: nullptr, a node of another AST
Null == {0}

(* An AST is of one library: all that it makes is of the tree AST, which   *)
(* has no new_list, or all of abc.                                         *)
Made == {heap[a].kind : a \in DOMAIN heap} \cup {call.kind}
OfOneLibrary ==
  \/ Made \subseteq TreeKinds \cup {"none"} /\ arrays = <<>>
  \/ Made \subseteq AbcKinds \cup {"none"}
=============================================================================
