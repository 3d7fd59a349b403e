---------------------------- MODULE NodeClasses -----------------------------
(***************************************************************************)
(* The node classes of an AST library, as tables: the parameters of each   *)
(* new_<class> function, in order, and the class it derives from.          *)
(*                                                                         *)
(* A parameter is a pointer to a node of a class, a list of such pointers, *)
(* a string, or a plain value.                                             *)
(***************************************************************************)
EXTENDS Integers, Sequences

NodeParam(class) == [is |-> "node", of |-> class]
ListParam(class) == [is |-> "list", of |-> class]
StrParam         == [is |-> "str",  of |-> "char*"]
ValParam(type)   == [is |-> "val",  of |-> type]

(* The same, with the name of the field, or of the argument.               *)
NodeField(name, class) == [name |-> name, is |-> "node", of |-> class]
ListField(name, class) == [name |-> name, is |-> "list", of |-> class]
StrField(name)         == [name |-> name, is |-> "str",  of |-> "char*"]
ValField(name, type)   == [name |-> name, is |-> "val",  of |-> type]

Class(base, fields) == [base |-> base, fields |-> fields]

(* The two columns of a table of classes.                                  *)
FieldsOf(classes) == [c \in DOMAIN classes |-> classes[c].fields]
BaseOf(classes)   == [c \in DOMAIN classes |-> classes[c].base]

(* What the printer of a library prints of a class: its fields, in order,  *)
(* each with the label before it and the way it is printed.                *)
PrintNode(f) == [label |-> f,  field |-> f, is |-> "node"]   \* attr(f) << node(arg->f)
PrintList(f) == [label |-> f,  field |-> f, is |-> "list"]   \* attr(f) << list(arg->f)
PrintVal(f)  == [label |-> f,  field |-> f, is |-> "val"]    \* attr(f) << type(arg->f)
PrintRepr(f) == [label |-> "", field |-> f, is |-> "str"]    \* repr(arg->f)

(* cptr_cast: the strings that are values of each type of plain values.    *)
ValueStrs ==
  [ bool      |-> {"0", "1"},
    comp_op_t |-> {"==", "!=", "is", "is not"} ]

(* src/tree/ast.hpp: the tree expressions that the parser builds.          *)
TreeParams ==
  [ Literal      |-> <<StrParam>>,
    ListElem     |-> <<ValParam("list_elem_idx_t"), NodeParam("TreeNode")>>,
    NodeName     |-> <<StrParam>>,
    NodeList     |-> <<NodeParam("NodeName"), ListParam("ListElem")>>,
    ArgName      |-> <<StrParam>>,
    ArgValue     |-> <<>>,
    NodeValue    |-> <<NodeParam("TreeNode")>>,
    ListValue    |-> <<NodeParam("NodeList")>>,
    LiteralValue |-> <<NodeParam("Literal")>>,
    NodeArg      |-> <<NodeParam("ArgName"), NodeParam("ArgValue")>>,
    NodeArgs     |-> <<>>,
    ListArgs     |-> <<ListParam("NodeArg")>>,
    LiteralArgs  |-> <<NodeParam("Literal")>>,
    TreeNode     |-> <<NodeParam("NodeName"), NodeParam("NodeArgs")>>,
    Tree         |-> <<NodeParam("TreeNode")>>,
    Node         |-> <<>> ]

(* The base class of each class; "none" for the root of the hierarchy.     *)
TreeBase ==
  [ class \in DOMAIN TreeParams |->
      CASE class = "Node"                                     -> "none"
        [] class \in {"NodeValue", "ListValue", "LiteralValue"} -> "ArgValue"
        [] class \in {"ListArgs", "LiteralArgs"}              -> "NodeArgs"
        [] OTHER                                              -> "Node" ]

(* class is base, or derives from it, by the given table.                  *)
IsA(parent, class, base) ==
  LET isA[c \in DOMAIN parent \cup {"none"}] ==
        c = base \/ (c # "none" /\ isA[parent[c]])
  IN  isA[class]
=============================================================================
