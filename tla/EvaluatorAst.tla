---------------------------- MODULE EvaluatorAst -----------------------------
(***************************************************************************)
(* The typed AST that an AST type library builds of a tree expression: it  *)
(* is the tree, node for node and field for field.                         *)
(***************************************************************************)
EXTENDS EvaluatorTyping

(* The TreeNodes of a tree expression.                                     *)
RECURSIVE Within(_)
Within(t) ==
  LET OfValue(v) == CASE v.is = "NodeValue"    -> Within(v.node)
                      [] v.is = "ListValue"    ->
                           UNION {Within(v.list.elems[i].node) : i \in DOMAIN v.list.elems}
                      [] v.is = "LiteralValue" -> {}
  IN  {t} \cup (IF t.args.is = "LiteralArgs" THEN {}
                ELSE UNION {OfValue(t.args.list[i].value) : i \in DOMAIN t.args.list})

RECURSIVE TreeNodes(_)
TreeNodes(t) ==
  LET OfValue(v) == CASE v.is = "NodeValue"    -> TreeNodes(v.node)
                      [] v.is = "ListValue"    ->
                           FoldSeq(LAMBDA e, n : TreeNodes(e.node) + n, 0, v.list.elems)
                      [] v.is = "LiteralValue" -> 0
  IN  1 + IF t.args.is = "LiteralArgs" THEN 0
          ELSE FoldSeq(LAMBDA a, n : OfValue(a.value) + n, 0, t.args.list)

(* The node n of the AST is what the tree expression t says: a field holds *)
(* the value of the argument of its name, however deep.                    *)
RECURSIVE Says(_, _)
Says(n, t) ==
  LET FieldSays(field, v) ==
        CASE v.is = "NodeValue"    -> Len(field.nodes) = 1 /\ Says(field.nodes[1], v.node)
          [] v.is = "ListValue"    ->
               /\ Len(field.nodes) = Len(v.list.elems)
               /\ \A k \in DOMAIN field.nodes : Says(field.nodes[k], v.list.elems[k].node)
          [] v.is = "LiteralValue" -> field.str = v.literal.str
      node == store[n]
  IN  /\ node.kind = t.name
      /\ IF t.args.is = "LiteralArgs"
           THEN Len(node.args) = 1 /\ node.args[1].str = t.args.literal.str
           ELSE \A a \in ToSet(t.args.list) : \E i \in DOMAIN node.args :
                  /\ AstClasses[node.kind].fields[i].name = a.name
                  /\ FieldSays(node.args[i], a.value)

(* When the AST is built it is the tree: argument names of the tree, that  *)
(* the evaluator compares with those of the type definitions, lead to the  *)
(* C++ fields of the same names, by way of positions on the stack, and no  *)
(* node but those of the tree is left behind.                              *)
AstIsTree ==
  outcome = "done" /\ mode = "node" =>
    /\ Says(stack[1].nodes[1], tree)
    /\ Len(store) = TreeNodes(tree)
=============================================================================
