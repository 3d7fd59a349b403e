----------------------------- MODULE TreeExprs ------------------------------
(* Short names for tree expressions, as the parser makes them: a record for*)
(* each node of the tree AST, with its class (`is') and its fields.        *)

Lit(s)        == [is |-> "Literal", str |-> s]
LitV(s)       == [is |-> "LiteralValue", literal |-> Lit(s)]
NodeV(t)      == [is |-> "NodeValue", node |-> t]
ListV(b, es)  == [is |-> "ListValue", list |-> [is |-> "NodeList", base |-> b, elems |-> es]]
El(i, t)      == [index |-> i, node |-> t]
ArgOf(n, v)   == [is |-> "NodeArg", name |-> n, value |-> v]
Of(n, args)   == [is |-> "TreeNode", name |-> n, args |-> [is |-> "ListArgs", list |-> args]]
OfLit(n, s)   == [is |-> "TreeNode", name |-> n,
                  args |-> [is |-> "LiteralArgs", literal |-> Lit(s)]]
=============================================================================
