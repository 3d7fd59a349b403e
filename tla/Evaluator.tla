----------------------------- MODULE Evaluator ------------------------------
(***************************************************************************)
(* The evaluation of a tree expression by an AST type library              *)
(* (src/tree/eval.cpp, eval.hpp, eval-impl.hpp, and the makers of each     *)
(* library, such as src/tree/abc/abc.cpp).  Obj::Evaluator visits the tree *)
(* and works on a stack of objects; the objects are made by a `maker' that *)
(* checks the arguments it finds on the stack:                             *)
(*   TypeMaker: an object is only its type (mode "type", option -c);       *)
(*   NodeMaker: an object is a node of a typed AST (mode "node", -A, -o).  *)
(*                                                                         *)
(* The C++ recursion over the tree is the sequence `todo' of the visits    *)
(* still to be made and of the makers' calls still to come, the next first.*)
(* An exception ends the evaluation: `outcome' tells which.                *)
(*                                                                         *)
(* (A _slip definition is the next one with a mistake: see PoolAllocator.) *)
(***************************************************************************)
EXTENDS NodeClasses, SequencesExt

CONSTANTS
  Types,     (* the type definitions of the library: a table of Classes    *)
  Makers,    (* what NodeMaker casts the arguments of each class to        *)
  Trees,     (* the TreeNodes evaluated, and those within them             *)
  Modes,     (* the makers used, of "type" and "node"                      *)
  MaxNodes,  (* nodes that fit the typed AST                               *)
  MaxBlocks  (* strings and arrays that fit the typed AST                  *)

Classes == DOMAIN Types

NArg(class) == Len(Types[class].fields)

(* What the classes of src/tree/ast.hpp have a tree expression be, whose   *)
(* TreeNodes are in `trees': each part of it a record, with its class (`is')*)
(* and its fields.                                                         *)
IsSequence(s) == s \in Seq(ToSet(s))

IsNodeList(x, trees) ==
  /\ x.is = "NodeList" /\ IsSequence(x.elems)
  /\ \A i \in DOMAIN x.elems : x.elems[i].node \in trees

IsArgValue(x, trees) ==
  \/ x.is = "NodeValue" /\ x.node \in trees
  \/ x.is = "ListValue" /\ IsNodeList(x.list, trees)
  \/ x.is = "LiteralValue" /\ x.literal.is = "Literal"

IsNodeArg(x, trees) == x.is = "NodeArg" /\ IsArgValue(x.value, trees)

IsNodeArgs(x, trees) ==
  \/ /\ x.is = "ListArgs" /\ IsSequence(x.list)
     /\ \A i \in DOMAIN x.list : IsNodeArg(x.list[i], trees)
  \/ x.is = "LiteralArgs" /\ x.literal.is = "Literal"

AreTreeNodes(trees) == \A t \in trees : t.is = "TreeNode" /\ IsNodeArgs(t.args, trees)

ASSUME TreesAssumption == AreTreeNodes(Trees)

(* The base of a class is one of the library's, or there is none; a maker  *)
(* takes no other arguments than those the type definition has.            *)
ASSUME LibraryAssumption ==
  /\ \A class \in Classes :
       /\ Types[class].base \in Classes \cup {"none"}
       /\ IsSequence(Types[class].fields)
       /\ \A i \in DOMAIN Types[class].fields :
            Types[class].fields[i].is \in {"node", "list", "str", "val"}
       /\ DOMAIN Makers[class] \subseteq 1 .. NArg(class)
  /\ Modes \subseteq {"type", "node"}
  /\ MaxNodes \in Nat /\ MaxBlocks \in Nat

VARIABLES
  tree, mode, strict,  (* the input and the options; never change          *)
  todo,        (* what the visitor has still to do                         *)
  stack,       (* the objects; the first is the top                        *)
  store,       (* the nodes of the typed AST, oldest first                 *)
  blocks,      (* the number of strings and arrays in its raw pool         *)
  narg_error,  (* TypeCheck::narg_error                                    *)
  outcome      (* "running", "done", or the error thrown                   *)

input == <<tree, mode, strict>>
vars  == <<input, todo, stack, store, blocks, narg_error, outcome>>

InputErrors == {"unknown type", "narg", "arg name", "arg cast", "list cast",
                "list index", "value", "alloc"}
StackErrors == {"stack empty", "stack index", "stack size", "obj name",
                "final size", "top not node"}

-----------------------------------------------------------------------------
(* Work items: a visit to a part of the tree, or what a visit does after   *)
(* the visits it makes.                                                    *)
Visit(x)    == [do |-> "visit", at |-> x]
SetName(n)  == [do |-> "name",  at |-> n]
Elem(e, k)  == [do |-> "elem",  at |-> e, k |-> k]
MakeNode(t) == [do |-> "node",  at |-> t]
MakeList(l) == [do |-> "list",  at |-> l]

Running(what) == outcome = "running" /\ todo # <<>> /\ Head(todo).do = what
Visiting(class) == Running("visit") /\ Head(todo).at.is = class

Item == Head(todo).at

(* An object of the stack: its name (`null' at first), the kind and the    *)
(* class of its type, and its value: the node, the nodes of the list, or   *)
(* the string.  TypeMaker leaves the value out.                            *)
Null == "null"
Obj(kind, class, nodes, str) ==
  [name |-> Null, kind |-> kind, of |-> class,
   nodes |-> IF mode = "node" THEN nodes ELSE <<>>,
   str |-> IF mode = "node" THEN str ELSE Null]

Push(obj) == stack' = <<obj>> \o stack

Fail(error) ==
  /\ outcome' = error
  /\ UNCHANGED todo

-----------------------------------------------------------------------------
(* The visits that only lead to other visits.                              *)
Expand ==
  /\ \/ /\ Visiting("Tree")
        /\ todo' = <<Visit(Item.root)>> \o Tail(todo)
     \/ /\ Visiting("TreeNode")
        /\ todo' = <<Visit(Item.args), MakeNode(Item)>> \o Tail(todo)
     \/ /\ Visiting("ListArgs")
        /\ todo' = [i \in DOMAIN Item.list |-> Visit(Item.list[i])] \o Tail(todo)
     \/ /\ Visiting("NodeArg")
        /\ todo' = <<Visit(Item.value), SetName(Item.name)>> \o Tail(todo)
     \/ /\ Visiting("NodeValue")
        /\ todo' = <<Visit(Item.node)>> \o Tail(todo)
     \/ /\ Visiting("ListValue")
        /\ todo' = <<Visit(Item.list)>> \o Tail(todo)
     \/ /\ Visiting("LiteralValue") \/ Visiting("LiteralArgs")
        /\ todo' = <<Visit(Item.literal)>> \o Tail(todo)
     \/ /\ Visiting("NodeList")
        /\ todo' = [i \in DOMAIN Item.elems |-> Elem(Item.elems[i], i - 1)]
                   \o <<MakeList(Item)>> \o Tail(todo)
  /\ UNCHANGED <<input, stack, store, blocks, narg_error, outcome>>

(* The elements of a list must be numbered in order, from 0; an element is *)
(* checked when its turn comes.                                            *)
VisitElem ==
  /\ Running("elem")
  /\ IF Item.index = Head(todo).k
       THEN /\ todo' = <<Visit(Item.node)>> \o Tail(todo)
            /\ UNCHANGED outcome
       ELSE Fail("list index")
  /\ UNCHANGED <<input, stack, store, blocks, narg_error>>

VisitLiteral ==
  /\ Visiting("Literal")
  /\ Push(Obj("cptr", "char*", <<>>, Item.str))
  /\ todo' = Tail(todo)
  /\ UNCHANGED <<input, store, blocks, narg_error, outcome>>

NameError ==
  CASE stack = <<>>                               -> "stack empty"
    [] stack # <<>> /\ Head(stack).name # Null   -> "obj name"
    [] stack # <<>> /\ Head(stack).name = Null   -> "none"

(* The name of an argument goes to the object its value has left on top.   *)
VisitArgName ==
  /\ Running("name")
  /\ IF NameError = "none"
       THEN /\ stack' = [stack EXCEPT ![1].name = Item]
            /\ todo' = Tail(todo)
            /\ UNCHANGED outcome
       ELSE /\ Fail(NameError)
            /\ UNCHANGED stack
  /\ UNCHANGED <<input, store, blocks, narg_error>>

-----------------------------------------------------------------------------
Base == BaseOf(Types)

(* The number of arguments of a call.                                      *)
NumArgs(args) == IF args.is = "ListArgs" THEN Len(args.list) ELSE 1

\* slip: to a class derived from it
ClassCast_slip(from, to) == IF strict THEN from = to ELSE IsA(Base, to, from)

(* Type casts: between equal classes, or from a class to one of its bases; *)
(* any string casts to any type of strings.                                *)
ClassCast(from, to) == IF strict THEN from = to ELSE IsA(Base, from, to)

TypeCast(param, obj) ==
  CASE param.is \in {"node", "list"} -> obj.kind = param.is /\ ClassCast(obj.of, param.of)
    [] param.is \in {"str", "val"}   -> obj.kind = "cptr"

(* args[k] of the makers: k from 0, and from the top of the stack.         *)
Arg(k) == stack[k + 1]

\* slip: counted from the top, where the last argument is
NthArg_slip(narg, i) == Arg(i - 1)

(* The i-th argument (from 1) of a call with narg arguments.               *)
NthArg(narg, i) == Arg(narg - i)

ArgError(class, i) ==
  LET obj == NthArg(NArg(class), i)
      def == Types[class].fields[i]
  IN  CASE def.name # obj.name                         -> "arg name"
        [] def.name = obj.name /\ ~TypeCast(def, obj)  -> "arg cast"
        [] def.name = obj.name /\ TypeCast(def, obj)   -> "none"

(* check_node_args: the error thrown, "none" for none.                     *)
NodeArgsError(t) ==
  LET class == t.name
      narg  == NArg(class)
      wrong == {i \in 1 .. narg : ArgError(class, i) # "none"}
      here  == narg = NumArgs(t.args) /\ narg <= Len(stack)
  IN  CASE narg # NumArgs(t.args)                        -> "narg"
        [] narg = NumArgs(t.args) /\ narg > Len(stack)   -> "stack index"
        [] here /\ t.args.is = "LiteralArgs" ->
             IF TypeCast(Types[class].fields[1], Arg(0)) THEN "none" ELSE "arg cast"
        [] here /\ t.args.is = "ListArgs" ->
             IF wrong = {} THEN "none" ELSE ArgError(class, Min(wrong))

\* slip: one too many
Popped_more_slip(n) == IF narg_error THEN stack ELSE SubSeq(stack, n + 2, Len(stack))

(* auto_t: the destructor of the check pops the arguments, whether the call*)
(* returns or throws; but when the check itself threw there is no object to*)
(* destroy, the arguments stay and narg_error keeps the value it was given.*)
Popped(n) == IF narg_error THEN stack ELSE SubSeq(stack, n + 1, Len(stack))

PopArgs(n) ==
  /\ stack' = Popped(n)
  /\ narg_error' = FALSE

PopArgsAndPush(n, obj) ==
  /\ stack' = <<obj>> \o Popped(n)
  /\ narg_error' = FALSE
  /\ todo' = Tail(todo)
  /\ UNCHANGED outcome

-----------------------------------------------------------------------------
(* The strings the new node copies.                                        *)
StrParams(class) == {i \in DOMAIN Makers[class] : Makers[class][i].is = "str"}

(* cptr_arg<T>: the strings passed for plain values are values of the type.*)
ValuesRight(class) ==
  \A i \in DOMAIN Makers[class] :
    LET param == Makers[class][i]
    IN  param.is = "val" => NthArg(NArg(class), i).str \in ValueStrs[param.of]

FieldOf(obj) == [nodes |-> obj.nodes, str |-> obj.str]

\* slip: in the order of the stack, from the top
NewNode_swap_slip(class) ==
  [kind |-> class, args |-> [i \in DOMAIN Makers[class] |-> FieldOf(Arg(i - 1))]]

\* slip: the pointers are those of the next nodes
NewNode_next_slip(class) ==
  [kind |-> class,
   args |-> [i \in DOMAIN Makers[class] |->
              LET obj == NthArg(NArg(class), i)
              IN  [FieldOf(obj) EXCEPT !.nodes = [k \in DOMAIN obj.nodes |-> obj.nodes[k] + 1]]]]

(* The node that new_<class> makes of the arguments: its fields, in order. *)
NewNode(class) ==
  [kind |-> class,
   args |-> [i \in DOMAIN Makers[class] |-> FieldOf(NthArg(NArg(class), i))]]

(* make_node: NodeMaker goes on to convert strings to plain values, then to*)
(* new_<class>, that copies strings first and makes the node last.         *)
MakeNodeFails(error) ==
  \/ /\ Item.name \notin Classes
     /\ error = "unknown type"
     /\ UNCHANGED <<stack, blocks, narg_error>>
  \/ /\ Item.name \in Classes
     /\ error = NodeArgsError(Item)
     /\ error # "none"
     /\ narg_error' = (narg_error \/ error = "narg")
     /\ UNCHANGED <<stack, blocks>>
  \/ /\ Item.name \in Classes
     /\ NodeArgsError(Item) = "none"
     /\ mode = "node"
     /\ PopArgs(NArg(Item.name))
     /\ LET n == blocks + Cardinality(StrParams(Item.name))
        IN  \/ /\ ~ValuesRight(Item.name)
               /\ error = "value"
               /\ UNCHANGED blocks
            \/ /\ ValuesRight(Item.name)
               /\ error = "alloc"
               /\ n > MaxBlocks \/ Len(store) >= MaxNodes
               /\ blocks' = Min({n, MaxBlocks})

DoMakeNode ==
  LET class == Item.name
      narg  == NArg(class)
  IN
  /\ Running("node")
  /\ \/ /\ \E error \in InputErrors \cup StackErrors : MakeNodeFails(error) /\ Fail(error)
        /\ UNCHANGED store
     \/ /\ class \in Classes
        /\ NodeArgsError(Item) = "none"
        /\ mode = "type"
        /\ PopArgsAndPush(narg, Obj("node", class, <<>>, Null))
        /\ UNCHANGED <<store, blocks>>
     \/ /\ class \in Classes
        /\ NodeArgsError(Item) = "none"
        /\ mode = "node"
        /\ ValuesRight(class)
        /\ blocks + Cardinality(StrParams(class)) <= MaxBlocks
        /\ Len(store) < MaxNodes
        /\ blocks' = blocks + Cardinality(StrParams(class))
        /\ store' = Append(store, NewNode(class))
        /\ PopArgsAndPush(narg, Obj("node", class, <<Len(store')>>, Null))
  /\ UNCHANGED input

(* check_list_args: the elements are nodes that cast to the class of the   *)
(* list.                                                                   *)
ListArgsError(l) ==
  LET n == Len(l.elems)
  IN  CASE n > Len(stack) -> "stack index"
        [] n <= Len(stack) ->
             IF \A i \in 1 .. n : TypeCast(NodeParam(l.base), NthArg(n, i))
             THEN "none" ELSE "list cast"

(* make_list: NodeMaker makes an array for the nodes, unless there are none*)
MakeListFails(error) ==
  \/ /\ Item.base \notin Classes
     /\ error = "unknown type"
     /\ UNCHANGED <<stack, narg_error>>
  \/ /\ Item.base \in Classes
     /\ error = ListArgsError(Item)
     /\ error # "none"
     /\ UNCHANGED <<stack, narg_error>>
  \/ /\ Item.base \in Classes
     /\ ListArgsError(Item) = "none"
     /\ mode = "node" /\ Item.elems # <<>> /\ blocks >= MaxBlocks
     /\ error = "alloc"
     /\ PopArgs(Len(Item.elems))

DoMakeList ==
  LET n == Len(Item.elems)
      needed == IF mode = "node" /\ n > 0 THEN 1 ELSE 0
  IN
  /\ Running("list")
  /\ \/ /\ \E error \in InputErrors \cup StackErrors : MakeListFails(error) /\ Fail(error)
        /\ UNCHANGED blocks
     \/ /\ Item.base \in Classes
        /\ ListArgsError(Item) = "none"
        /\ blocks + needed <= MaxBlocks
        /\ blocks' = blocks + needed
        /\ PopArgsAndPush(n, Obj("list", Item.base,
                                 [i \in 1 .. n |-> IF mode = "node"
                                                   THEN Head(NthArg(n, i).nodes) ELSE 0],
                                 Null))
  /\ UNCHANGED <<input, store>>

(* The checks of Evaluator::eval when the visits are over.                 *)
Finish ==
  /\ outcome = "running"
  /\ todo = <<>>
  /\ outcome' = CASE Len(stack) # 1                               -> "final size"
                  [] Len(stack) = 1 /\ stack[1].kind # "node"    -> "top not node"
                  [] Len(stack) = 1 /\ stack[1].kind = "node"    -> "done"
  /\ UNCHANGED <<input, todo, stack, store, blocks, narg_error>>

-----------------------------------------------------------------------------
Init ==
  /\ tree \in Trees
  /\ mode \in Modes
  /\ strict \in BOOLEAN
  /\ todo = <<Visit([is |-> "Tree", root |-> tree])>>
  /\ stack = <<>>
  /\ store = <<>>
  /\ blocks = 0
  /\ narg_error = FALSE
  /\ outcome = "running"

Next ==
  \/ Expand
  \/ VisitElem
  \/ VisitLiteral
  \/ VisitArgName
  \/ DoMakeNode
  \/ DoMakeList
  \/ Finish

Spec == Init /\ [][Next]_vars

-----------------------------------------------------------------------------
(* Type invariant.                                                         *)
TypeOK ==
  /\ \A i \in DOMAIN todo : todo[i].do \in {"visit", "name", "elem", "node", "list"}
  /\ \A i \in DOMAIN stack :
       /\ stack[i].kind \in {"node", "list", "cptr"}
       /\ stack[i].of \in Classes \cup {"char*"}
       /\ ToSet(stack[i].nodes) \subseteq 0 .. MaxNodes
  /\ Len(store) \in 0 .. MaxNodes
  /\ \A i \in DOMAIN store : store[i].kind \in Classes
  /\ blocks \in 0 .. MaxBlocks
  /\ narg_error \in BOOLEAN
  /\ outcome \in {"running", "done"} \cup InputErrors \cup StackErrors

(* Whatever the tree, the evaluator never trips over its own stack: its    *)
(* indices are in range, an argument has no name before it is given one,   *)
(* and one object, a node, is left at the end.  The errors are in the input*)
NoStackError == outcome \notin StackErrors

(* How many objects a work item finds on the stack, and how many more it   *)
(* leaves there, when it throws no error.                                  *)
Uses(item) ==
  CASE item.do \in {"visit", "elem"} -> 0
    [] item.do = "name" -> 1
    [] item.do = "node" -> NumArgs(item.at.args)
    [] item.do = "list" -> Len(item.at.elems)

Effect(item) ==
  CASE item.do = "visit" -> IF item.at.is = "ListArgs" THEN Len(item.at.list) ELSE 1
    [] item.do = "elem"  -> 1
    [] item.do = "name"  -> 0
    [] item.do \in {"node", "list"} -> 1 - Uses(item)

(* The sizes that the stack will have, when 0, 1, 2.. of the items are done*)
SizeAfter ==
  LET size[k \in 0 .. Len(todo)] ==
        IF k = 0 THEN Len(stack) ELSE size[k - 1] + Effect(todo[k])
  IN  size

(* At every step each of the calls to come will find its arguments, and in *)
(* the end one object is left: arguments popped twice, or not at all, would*)
(* break it, on either side of the evaluation of nested arguments.         *)
StackBalanced ==
  outcome \in {"running", "done"} =>
    /\ \A k \in DOMAIN todo : SizeAfter[k - 1] >= Uses(todo[k])
    /\ SizeAfter[Len(todo)] = 1

(* A node on the stack is of the class its type says; the same for the     *)
(* nodes of a list.                                                        *)
ValuesMatchTypes ==
  mode = "node" =>
    \A i \in DOMAIN stack :
      /\ stack[i].kind = "node" => /\ Len(stack[i].nodes) = 1
                                   /\ stack[i].of = store[stack[i].nodes[1]].kind
      /\ stack[i].kind = "list" => \A n \in ToSet(stack[i].nodes) :
                                     IsA(Base, store[n].kind, stack[i].of)

(* The stack, which the makers index and cast from without a check of their*)
(* own, is right at every step of the evaluation: typed, balanced, with    *)
(* values that are what their types say, and no check of it ever fails.    *)
StackIsSound == TypeOK /\ NoStackError /\ StackBalanced /\ ValuesMatchTypes

Kids(node) == UNION {ToSet(node.args[i].nodes) : i \in DOMAIN node.args}

(* The typed AST, as the store of nodes that the AST library implements.   *)
Store == INSTANCE TreeStore WITH
  Kinds <- Classes, closed <- FALSE,
  nodes <- [n \in DOMAIN store |-> [kind |-> store[n].kind, kids |-> Kids(store[n])]]

(* The evaluator uses it as it is meant to be: nodes are only added, and   *)
(* refer to nodes made before them.                                        *)
UsesStore == Store!Spec
=============================================================================
