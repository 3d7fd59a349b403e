----------------------------- MODULE AbcLibrary -----------------------------
(***************************************************************************)
(* The example AST type library abc (src/tree/abc), as the four tables     *)
(* that module CxxpyLibrary explains.                                      *)
(* (A _slip definition is the next one with a mistake: see PoolAllocator.) *)
(***************************************************************************)
EXTENDS NodeClasses

(* ast.hpp: the C++ classes.                                               *)
AbcClasses ==
  [ Node |-> Class("none", <<>>),
    A    |-> Class("Node", <<>>),
    B    |-> Class("Node", <<NodeField("a", "A")>>),
    C    |-> Class("Node", <<ListField("b", "B")>>),
    D    |-> Class("Node", <<StrField("c")>>),
    N    |-> Class("Node", <<NodeField("x", "B"), NodeField("y", "C"), NodeField("z", "D")>>),
    M    |-> Class("Node", <<NodeField("a", "A"), ListField("b", "B"), StrField("c")>>),
    P    |-> Class("Node", <<NodeField("x", "A"), NodeField("y", "A")>>),
    Q    |-> Class("A", <<>>),
    R    |-> Class("Q", <<>>),
    L    |-> Class("Node", <<ListField("q", "Q")>>),
    S    |-> Class("Q", <<ValField("b", "bool")>>) ]

AbcParams == FieldsOf(AbcClasses)
AbcBase   == BaseOf(AbcClasses)

(* abc.cpp: the type definitions.                                          *)
AbcTypes ==
  [ Node |-> Class("none", <<>>),
    A    |-> Class("Node", <<>>),
    B    |-> Class("Node", <<NodeField("a", "A")>>),
    C    |-> Class("Node", <<ListField("b", "B")>>),
    D    |-> Class("Node", <<StrField("c")>>),
    N    |-> Class("Node", <<NodeField("x", "B"), NodeField("y", "C"), NodeField("z", "D")>>),
    M    |-> Class("Node", <<NodeField("a", "A"), ListField("b", "B"), StrField("c")>>),
    P    |-> Class("Node", <<NodeField("x", "A"), NodeField("y", "A")>>),
    Q    |-> Class("A", <<>>),
    R    |-> Class("Q", <<>>),
    L    |-> Class("Node", <<ListField("q", "Q")>>),
    S    |-> Class("Q", <<ValField("b", "bool")>>) ]

(* abc.cpp: the makers.                                                    *)
AbcMakers ==
  [ Node |-> <<>>,
    A    |-> <<>>,
    B    |-> <<NodeParam("A")>>,
    C    |-> <<ListParam("B")>>,
    D    |-> <<StrParam>>,
    N    |-> <<NodeParam("B"), NodeParam("C"), NodeParam("D")>>,
    M    |-> <<NodeParam("A"), ListParam("B"), StrParam>>,
    P    |-> <<NodeParam("A"), NodeParam("A")>>,
    Q    |-> <<>>,
    R    |-> <<>>,
    L    |-> <<ListParam("Q")>>,
    S    |-> <<ValParam("bool")>> ]

\* slip: two labels are in the other order than the fields
AbcPrints_slip ==
  [ Node |-> <<>>,
    A    |-> <<>>,
    B    |-> <<PrintNode("a")>>,
    C    |-> <<PrintList("b")>>,
    D    |-> <<PrintRepr("c")>>,
    N    |-> <<PrintNode("x"), PrintNode("y"), PrintNode("z")>>,
    M    |-> <<PrintNode("a"), PrintList("b"), PrintRepr("c")>>,
    P    |-> <<[PrintNode("x") EXCEPT !.label = "y"], [PrintNode("y") EXCEPT !.label = "x"]>>,
    Q    |-> <<>>,
    R    |-> <<>>,
    L    |-> <<PrintList("q")>>,
    S    |-> <<PrintVal("b")>> ]

(* printer.cpp: the visits.                                                *)
AbcPrints ==
  [ Node |-> <<>>,
    A    |-> <<>>,
    B    |-> <<PrintNode("a")>>,
    C    |-> <<PrintList("b")>>,
    D    |-> <<PrintRepr("c")>>,
    N    |-> <<PrintNode("x"), PrintNode("y"), PrintNode("z")>>,
    M    |-> <<PrintNode("a"), PrintList("b"), PrintRepr("c")>>,
    P    |-> <<PrintNode("x"), PrintNode("y")>>,
    Q    |-> <<>>,
    R    |-> <<>>,
    L    |-> <<PrintList("q")>>,
    S    |-> <<PrintVal("b")>> ]

(* abc.cpp: the names of the tables new_funcs, of both makers, in order.   *)
AbcNewFuncs ==
  <<"A", "B", "C", "D", "L", "M", "N", "Node", "P", "Q", "R", "S">>
=============================================================================
