--------------------------- MODULE LibraryPrinter ---------------------------
(***************************************************************************)
(* The printers of AST type libraries (src/tree/abc/printer.cpp and        *)
(* src/tree/cxxpy/printer.cpp on src/tree/ext-printer.hpp), that `-o' hands*)
(* the AST to: what they print, as a tree expression, of the AST that the  *)
(* evaluator has built.                                                    *)
(***************************************************************************)
EXTENDS EvaluatorAst, TreeExprs

CONSTANT Prints   (* what is printed of each class: see NodeClasses        *)

(* The field of the class and, in a node of it, its value.                 *)
Field(class, name) ==
  CHOOSE f \in ToSet(AstClasses[class].fields) : f.name = name
FieldValue(node, name) ==
  node.args[CHOOSE i \in DOMAIN node.args : AstClasses[node.kind].fields[i].name = name]

(* node->accept(printer); print_list numbers the elements again, and gives *)
(* the class that the C++ field has, not the one the list was made with.   *)
RECURSIVE Accept(_)
Accept(n) ==
  LET node  == store[n]
      items == Prints[node.kind]
      value(item) ==
        LET x == FieldValue(node, item.field)
        IN  CASE item.is = "node" -> NodeV(Accept(x.nodes[1]))
              [] item.is = "list" ->
                   ListV(Field(node.kind, item.field).of,
                         [k \in DOMAIN x.nodes |-> El(k - 1, Accept(x.nodes[k]))])
              [] item.is \in {"val", "str"} -> LitV(x.str)
  IN  IF Len(items) = 1 /\ items[1].label = ""
        THEN OfLit(node.kind, FieldValue(node, items[1].field).str)
        ELSE Of(node.kind, [i \in DOMAIN items |-> ArgOf(items[i].label, value(items[i]))])

(* A string is printed without a label: so it must be all that there is of *)
(* its node, or what is printed is no tree expression (class M of abc).    *)
IsLabelled(class) ==
  LET items == Prints[class]
  IN  Len(items) > 1 => \A i \in DOMAIN items : items[i].label # ""

(* What the library prints of an AST is a tree expression that the library *)
(* accepts, by the relaxed cast rules, and that says the same AST again:   *)
(* the printer's table has all the fields of the C++ classes, under the    *)
(* names and in the order of the type definitions.                         *)
PrintsItself ==
  (outcome = "done" /\ mode = "node" /\ \A n \in DOMAIN store : IsLabelled(store[n].kind)) =>
    LET root == stack[1].nodes[1]
        t    == Accept(root)
    IN  Typing(FALSE, TRUE, Within(t))[t] /\ Says(root, t)
=============================================================================
