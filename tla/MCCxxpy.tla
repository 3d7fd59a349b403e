------------------------------ MODULE MCCxxpy -------------------------------
(* Trees over the library cxxpy: for each class the simplest tree that is  *)
(* right, and the trees in which one of its arguments is given some other  *)
(* value, of every class there is.                                         *)
EXTENDS LibraryPrinter, CxxpyLibrary

AnyStr == [char |-> "x", bool |-> "0", comp_op_t |-> "is not"]

RECURSIVE Simplest(_)
SimplestValue(field) ==
  CASE field.is = "node" -> NodeV(Simplest(field.of))
    [] field.is = "list" -> ListV(field.of, <<El(0, Simplest(field.of))>>)
    [] field.is = "str"  -> LitV(AnyStr.char)
    [] field.is = "val"  -> LitV(AnyStr[field.of])

Simplest(class) ==
  LET fields == CxxpyClasses[class].fields
  IN  Of(class, [i \in DOMAIN fields |-> ArgOf(fields[i].name, SimplestValue(fields[i]))])

CxxpyNames == DOMAIN CxxpyClasses

(* Values of every class, as a node and as a list; and the literals.       *)
OtherValues(field) ==
  {NodeV(Simplest(c)) : c \in CxxpyNames}
  \cup {LitV(s) : s \in {"x"} \cup ValueStrs["bool"] \cup ValueStrs["comp_op_t"]}
  \cup (IF field.is # "list" THEN {}
        ELSE {ListV(c, <<>>) : c \in CxxpyNames}
             \cup {ListV(field.of, <<El(0, Simplest(field.of)), El(1, Simplest(c))>>) :
                     c \in CxxpyNames})

Changed(t, i, v) == [t EXCEPT !.args.list[i].value = v]

CxxpyTrees ==
  {Simplest(c) : c \in CxxpyNames}
  \cup UNION {UNION {{Changed(Simplest(c), i, v) : v \in OtherValues(CxxpyClasses[c].fields[i])} :
                       i \in DOMAIN CxxpyClasses[c].fields} : c \in CxxpyNames}

NodeMaker == {"node"}
=============================================================================
