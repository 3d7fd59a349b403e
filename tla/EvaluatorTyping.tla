-------------------------- MODULE EvaluatorTyping ---------------------------
(***************************************************************************)
(* What the classes of an AST type library mean, defined on the tree       *)
(* expressions themselves, with no stack: a tree is a nest of constructor  *)
(* calls, and it is right when the C++ compiler would take them.  This is  *)
(* the reference that the evaluator of module Evaluator is compared with.  *)
(***************************************************************************)
EXTENDS Evaluator

CONSTANT AstClasses   (* the C++ classes of the library: a table of Classes *)

(* A C++ class and those it derives from.                                  *)
Bases[class \in DOMAIN AstClasses] ==
  {class} \cup (IF AstClasses[class].base = "none" THEN {} ELSE Bases[AstClasses[class].base])

(* How deep a class is in the type definitions; no class is its own base,  *)
(* however far up.                                                         *)
Depth[class \in Classes] ==
  IF Types[class].base = "none" THEN 0 ELSE Depth[Types[class].base] + 1

ASSUME HierarchyAssumption ==
  \A class \in Classes :
    /\ Depth[class] \in Nat
    /\ Types[class].base # "none" => Depth[Types[class].base] < Depth[class]

(* The type definitions say of each class what its declaration in C++ says:*)
(* its fields, and the classes that it derives from.                       *)
ASSUME TypesAgree ==
  /\ DOMAIN AstClasses = Classes
  /\ \A class \in Classes :
       /\ AstClasses[class].fields = Types[class].fields
       /\ \A base \in Classes : base \in Bases[class] <=> IsA(Base, class, base)
       /\ \A i \in DOMAIN Types[class].fields :
            Types[class].fields[i].is \in {"node", "list"} => Types[class].fields[i].of \in Classes

(* The maker of a class takes an argument for each field, as what it is.   *)
(* (The class that it casts to need not be the field's own.)               *)
ASSUME MakersAgree ==
  \A class \in Classes :
    /\ DOMAIN Makers[class] = DOMAIN Types[class].fields
    /\ \A i \in DOMAIN Makers[class] :
         LET field == Types[class].fields[i]
             cast  == Makers[class][i]
         IN  /\ cast.is = field.is
             /\ field.is = "val" => cast.of = field.of
             /\ field.is \in {"node", "list"} =>
                  \A c \in Classes : field.of \in Bases[c] => cast.of \in Bases[c]

-----------------------------------------------------------------------------
CastsTo(class, param, exact) == class = param \/ (~exact /\ param \in Bases[class])

LiteralFits(str, param, values) ==
  /\ param.is \in {"str", "val"}
  /\ values /\ param.is = "val" => str \in ValueStrs[param.of]

(* A list, an argument and a call are right when what is in them is: typed *)
(* tells which trees are.                                                  *)
ListIsRight(l, exact, typed) ==
  /\ l.base \in DOMAIN AstClasses
  /\ \A i \in DOMAIN l.elems :
       /\ l.elems[i].index = i - 1
       /\ typed[l.elems[i].node]
       /\ CastsTo(l.elems[i].node.name, l.base, exact)

ArgIsRight(v, param, exact, values, typed) ==
  \/ /\ v.is = "NodeValue" /\ param.is = "node"
     /\ typed[v.node]
     /\ CastsTo(v.node.name, param.of, exact)
  \/ /\ v.is = "ListValue" /\ param.is = "list"
     /\ ListIsRight(v.list, exact, typed)
     /\ CastsTo(v.list.base, param.of, exact)
  \/ /\ v.is = "LiteralValue"
     /\ LiteralFits(v.literal.str, param, values)

CallIsRight(t, exact, values, typed) ==
  LET fields == AstClasses[t.name].fields
  IN  /\ t.name \in DOMAIN AstClasses
      /\ \/ /\ t.args.is = "LiteralArgs"
            /\ Len(fields) = 1
            /\ LiteralFits(t.args.literal.str, fields[1], values)
         \/ /\ t.args.is = "ListArgs"
            /\ Len(fields) = Len(t.args.list)
            /\ \A i \in DOMAIN fields :
                 /\ t.args.list[i].name = fields[i].name
                 /\ ArgIsRight(t.args.list[i].value, fields[i], exact, values, typed)

(* Which of the trees are well typed, those within them among them; exact  *)
(* tells whether the classes of arguments must be those of the fields,     *)
(* values whether the literals are looked at.                              *)
Typing(exact, values, trees) ==
  LET typed[t \in trees] == CallIsRight(t, exact, values, typed)
  IN  typed

TreesTyped == [exact \in BOOLEAN |-> [values \in BOOLEAN |-> Typing(exact, values, Trees)]]

WellTyped(tr, exact, values) == TreesTyped[exact][values][tr]

(* The evaluator accepts exactly the trees that are well typed as C++, by  *)
(* the cast rules asked for, and the object it leaves is of the class of   *)
(* the root; NodeMaker also looks into the literals, and may run out of    *)
(* memory.                                                                 *)
OutcomeIsTyping ==
  /\ outcome = "done" => /\ WellTyped(tree, strict, mode = "node")
                         /\ stack[1].of = tree.name
  /\ outcome \in InputErrors \ {"alloc"} => ~WellTyped(tree, strict, mode = "node")

(* A node made by NodeMaker takes its arguments as void pointers that are  *)
(* cast, with no check, to the class the maker names: what is there is     *)
(* always a node of that class, or of a class derived from it in C++.      *)
CastsAreSafe ==
  \A n \in DOMAIN store : \A i \in DOMAIN store[n].args :
    LET cast == Makers[store[n].kind][i]
    IN  \A kid \in ToSet(store[n].args[i].nodes) :
          /\ cast.is \in {"node", "list"}
          /\ cast.of \in Bases[store[kid].kind]

(* What the documentation says of the type check: it verifies that the tree*)
(* satisfies the constraints of the type definitions, those on bool too.   *)
TypeCheckDecides ==
  outcome = "done" => WellTyped(tree, strict, TRUE)
=============================================================================
