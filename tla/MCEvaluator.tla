---------------------------- MODULE MCEvaluator -----------------------------
(* Trees over the example library abc: expressions that are right, and ones*)
(* that are wrong in each of the ways the evaluator tells apart.           *)
EXTENDS LibraryPrinter, AbcLibrary

\* A(), Q(), R(), an unknown class, S('1'), S('y'), D('y'), B(.a=A()), B(.a=Q())
Small ==
  {Of(n, <<>>) : n \in {"A", "Q", "R", "X"}}
  \cup {OfLit("S", s) : s \in {"1", "y"}}
  \cup {OfLit("D", "y")}
  \cup {Of("B", <<ArgOf("a", NodeV(Of(n, <<>>)))>>) : n \in {"A", "Q"}}

Lists ==
  {ListV(b, <<>>) : b \in {"B", "Q", "R", "X"}}
  \cup {ListV(b, <<El(i, t)>>) : b \in {"B", "Q", "R"}, i \in {0, 1}, t \in Small}
  \cup {ListV("Q", <<El(0, t), El(i, Of("R", <<>>))>>) : i \in {0, 1}, t \in Small}

Values == {NodeV(t) : t \in Small} \cup {LitV("1"), LitV("y")} \cup Lists

OneArg ==
  {Of(n, <<ArgOf(a, v)>>) : n \in {"B", "C", "D", "L", "S", "A"}, a \in {"a", "b", "c", "q"},
                            v \in Values}

Pairs ==
  {Of("P", <<ArgOf(a, NodeV(t)), ArgOf("y", v)>>) :
     a \in {"x", "y"}, t \in Small, v \in {NodeV(u) : u \in Small} \cup {LitV("1")}}
  \cup {Of("P", <<ArgOf("x", NodeV(t))>>) : t \in Small}

RightB == Of("B", <<ArgOf("a", NodeV(Of("A", <<>>)))>>)

\* M(.a=.. .b=.. .c=..), N(.x=.. .y=C(.b=..) .z=D('y'))
Deep ==
  {Of("M", <<ArgOf("a", NodeV(t)), ArgOf("b", l), ArgOf("c", LitV("y"))>>) :
     t \in {Of("A", <<>>), Of("Q", <<>>), OfLit("S", "1")}, l \in Lists}
  \cup {Of("N", <<ArgOf("x", NodeV(RightB)), ArgOf("y", NodeV(Of("C", <<ArgOf("b", l)>>))),
                  ArgOf("z", NodeV(t))>>) : l \in Lists, t \in {OfLit("D", "y"), RightB}}

AllTrees == Small \cup OneArg \cup Pairs \cup Deep \cup {OfLit("B", "1"), OfLit("P", "1")}

BothMakers == {"type", "node"}
TypeMaker == {"type"}
=============================================================================
