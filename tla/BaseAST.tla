------------------------------ MODULE BaseAST -------------------------------
(***************************************************************************)
(* AST::BaseAST (src/grammar/ast-base.hpp), the argument passing of        *)
(* src/grammar/ast-base-impl.hpp and the new_<class> functions of the AST  *)
(* libraries: nodes are made in one pool, the strings and the arrays they  *)
(* point to in another.                                                    *)
(*                                                                         *)
(* A call new_<class>(arguments) evaluates                                 *)
(*     new_node<class>(alloc_arg(argument), ...)                           *)
(* that is: each alloc_arg, in an order that C++ leaves to the compiler;   *)
(* then the allocation of the node; then its constructor.  Each of these   *)
(* can throw, and what the steps before it have done stays done, but for   *)
(* the memory of the node when it is the constructor that throws.          *)
(* (A _slip definition is the next one with a mistake: see PoolAllocator.) *)
(***************************************************************************)
EXTENDS NodeClasses, SequencesExt, Functions

CONSTANTS
  Params,      (* the parameters of each class: a table of NodeClasses     *)
  Parent,      (* the base of each class: a table of NodeClasses           *)
  Kinds,       (* the classes that are made                                *)
  NodeSize,    (* sizeof each class                                        *)
  PtrSize,     (* sizeof and alignof a pointer, alignof each class         *)
  NodeNObjs, NodePoolSize, NodePool,   (* the pool of the nodes            *)
  RawNObjs,  RawPoolSize,  RawPool,    (* the pool of strings and arrays   *)
  SizeMax,
  LinearLimit,
  StrLens,     (* the lengths of the strings passed                        *)
  MaxList,     (* bound on the length of the lists passed                  *)
  Strangers,   (* addresses passed that are of no node of this AST         *)
  Throwing,    (* classes the constructor of which may throw               *)
  Counted,     (* the classes counted by root_node                         *)
  MaxFailures, (* bound on the number of calls that fail                   *)
  MaxArrays    (* bound on the number of arrays made by new_list           *)

ASSUME ASTAssumption ==
  /\ NodeNObjs \in Nat /\ NodePoolSize \in Nat /\ NodePool \in Nat \ {0}
  /\ RawNObjs \in Nat /\ RawPoolSize \in Nat /\ RawPool \in Nat \ {0}
  /\ SizeMax \in Nat /\ NodePoolSize <= SizeMax /\ RawPoolSize <= SizeMax
  /\ LinearLimit \in Nat
  /\ PtrSize \in {1, 2, 4, 8, 16}
  /\ IsFiniteSet(Kinds) /\ Kinds # {} /\ "none" \notin Kinds
  /\ \A k \in Kinds :
       /\ NodeSize[k] \in Nat
       /\ IsFiniteSet(DOMAIN Params[k])
       /\ \A i \in DOMAIN Params[k] : Params[k][i].is \in {"node", "list", "str", "val"}
  /\ StrLens \subseteq Nat /\ MaxList \in Nat
  /\ Strangers \subseteq Nat
  /\ MaxFailures \in Nat /\ MaxArrays \in Nat

StrRequests  == {<<1 + n, 1>> : n \in StrLens}
ListRequests == {<<PtrSize * n, PtrSize>> : n \in 1 .. MaxList}
NodeRequests == {<<NodeSize[k], PtrSize>> : k \in Kinds}

VARIABLES
  nodePtr, nodePtrs, nodeMade, nodeRaised, nodeCursor,   (* node_alloc      *)
  rawPtr,  rawPtrs,  rawMade,  rawRaised,  rawCursor,    (* raw_alloc       *)
  heap,    (* what was constructed, by address: [kind, args]               *)
  arrays,  (* the arrays made by new_list, by address: their nodes         *)
  pc,      (* where the current call is: "idle", "args" or "construct"     *)
  call,    (* its class, its arguments, and the results of alloc_arg so far*)
  root, counted,   (* root and n_treenodes                                 *)
  failed   (* auxiliary: the number of calls that threw                    *)

nodeVars == <<nodePtr, nodePtrs, nodeMade, nodeRaised, nodeCursor>>
rawVars  == <<rawPtr, rawPtrs, rawMade, rawRaised, rawCursor>>
vars == <<nodeVars, rawVars, heap, arrays, pc, call, root, counted, failed>>

NodeAlloc == INSTANCE PoolAllocator WITH
  NObjs <- NodeNObjs, PoolSize <- NodePoolSize, Pool <- NodePool,
  Requests <- NodeRequests, HasDestr <- TRUE,
  ptr <- nodePtr, ptrs <- nodePtrs, made <- nodeMade,
  raised <- nodeRaised, cursor <- nodeCursor

RawAlloc == INSTANCE PoolAllocator WITH
  NObjs <- RawNObjs, PoolSize <- RawPoolSize, Pool <- RawPool,
  Requests <- StrRequests \cup ListRequests, HasDestr <- FALSE,
  ptr <- rawPtr, ptrs <- rawPtrs, made <- rawMade,
  raised <- rawRaised, cursor <- rawCursor

(* The function f, with the value v at x.                                  *)
Put(f, x, v) == [y \in DOMAIN f \cup {x} |-> IF y = x THEN v ELSE f[y]]

NoCall == [kind |-> "none", args |-> <<>>, got |-> <<>>]

Idle == pc = "idle" /\ RawAlloc!Open /\ NodeAlloc!Open

-----------------------------------------------------------------------------
(* What a caller can pass for a parameter: the pointers are typed, so they *)
(* are of nodes of the right class, but they may be of another AST.  A list*)
(* is a std::list, or an array made by new_list (`from' is its address).   *)
NodesOf(class) == {a \in DOMAIN heap : IsA(Parent, heap[a].kind, class)}

Actual(from, nodes, len) == [from |-> from, nodes |-> nodes, len |-> len]

Actuals(param) ==
  CASE param.is = "node" -> {Actual(0, <<a>>, 0) : a \in NodesOf(param.of) \cup Strangers}
    [] param.is = "list" ->
         {Actual(0, s, 0) : s \in SeqOf(NodesOf(param.of) \cup Strangers, MaxList)}
         \cup {Actual(b, arrays[b], 0) :
                 b \in {b \in DOMAIN arrays : Range(arrays[b]) \subseteq NodesOf(param.of)}}
    [] param.is = "str"  -> {Actual(0, <<>>, n) : n \in StrLens}
    [] param.is = "val"  -> {Actual(0, <<>>, 0)}

ActualTuples(params) ==
  {args \in [DOMAIN params -> UNION {Actuals(params[i]) : i \in DOMAIN params}] :
     \A i \in DOMAIN params : args[i] \in Actuals(params[i])}

Call(kind) ==
  /\ Idle
  /\ failed < MaxFailures
  /\ \E args \in ActualTuples(Params[kind]) :
       call' = [kind |-> kind, args |-> args, got |-> <<>>]
  /\ pc' = "args"
  /\ UNCHANGED <<nodeVars, rawVars, heap, arrays, root, counted, failed>>

(* The exception leaves the call, with the pools as they are.              *)
Throw ==
  /\ pc' = "idle"
  /\ call' = NoCall
  /\ failed' = failed + 1

-----------------------------------------------------------------------------
(* alloc_arg of the i-th argument results in the nodes the argument refers *)
(* to, and in the raw block (0 for none) which holds `need' bytes of it.   *)
Got(i, at, kids, need) ==
  /\ call' = [call EXCEPT !.got = Put(@, i, [at |-> at, kids |-> kids, need |-> need])]
  /\ UNCHANGED <<pc, failed>>

\* slip: no room for the end of the string
CopyToRaw_short_slip(i, kids, nbytes, align) ==
  \/ /\ RawAlloc!Allocate(nbytes - 1, align)
     /\ Got(i, Last(rawPtrs'), kids, nbytes)
  \/ /\ RawAlloc!AllocateThrows(nbytes - 1, align)
     /\ Throw

(* Arg<const char*>::alloc, and Arg<std::list>::alloc once it has checked  *)
(* the nodes: a copy is made in the raw pool.                              *)
CopyToRaw(i, kids, nbytes, align) ==
  \/ /\ RawAlloc!Allocate(nbytes, align)
     /\ Got(i, Last(rawPtrs'), kids, nbytes)
  \/ /\ RawAlloc!AllocateThrows(nbytes, align)
     /\ Throw

(* Arg<const R*>::check, on each of the nodes.                             *)
Known(nodes) == \A a \in Range(nodes) : NodeAlloc!Find(a)

AllocNodeArg(i) ==
  /\ IF Known(call.args[i].nodes) THEN Got(i, 0, call.args[i].nodes, 0) ELSE Throw
  /\ UNCHANGED rawVars

AllocListArg(i) ==
  LET list == call.args[i]
      len  == Len(list.nodes)
  IN  \/ /\ ~Known(list.nodes)
         /\ Throw
         /\ UNCHANGED rawVars
      \/ /\ Known(list.nodes)
         /\ list.from # 0 \/ len = 0
         /\ Got(i, list.from, list.nodes, PtrSize * len)
         /\ UNCHANGED rawVars
      \/ /\ Known(list.nodes)
         /\ list.from = 0 /\ len > 0
         /\ CopyToRaw(i, list.nodes, PtrSize * len, PtrSize)

AllocStrArg(i) == CopyToRaw(i, <<>>, 1 + call.args[i].len, 1)

AllocArg(i) ==
  /\ pc = "args"
  /\ i \in DOMAIN call.args \ DOMAIN call.got
  /\ CASE Params[call.kind][i].is = "node" -> AllocNodeArg(i)
       [] Params[call.kind][i].is = "list" -> AllocListArg(i)
       [] Params[call.kind][i].is = "str"  -> AllocStrArg(i)
       [] Params[call.kind][i].is = "val"  -> Got(i, 0, <<>>, 0) /\ UNCHANGED rawVars
  /\ UNCHANGED <<nodeVars, heap, arrays, root, counted>>

-----------------------------------------------------------------------------
(* new_node: the memory of the node, then its constructor.                 *)
AllocNode ==
  /\ pc = "args"
  /\ DOMAIN call.got = DOMAIN call.args
  /\ \/ /\ NodeAlloc!Allocate(NodeSize[call.kind], PtrSize)
        /\ pc' = "construct"
        /\ UNCHANGED <<call, failed>>
     \/ /\ NodeAlloc!AllocateThrows(NodeSize[call.kind], PtrSize)
        /\ Throw
  /\ UNCHANGED <<rawVars, heap, arrays, root, counted>>

\* slip: the node is made at the beginning of the table
Construct_slip ==
  /\ pc = "construct"
  /\ heap' = Put(heap, nodePtrs[1], [kind |-> call.kind, args |-> call.got])
  /\ pc' = "idle"
  /\ call' = NoCall
  /\ UNCHANGED <<nodeVars, rawVars, arrays, root, counted, failed>>

Construct ==
  /\ pc = "construct"
  /\ heap' = Put(heap, Last(nodePtrs), [kind |-> call.kind, args |-> call.got])
  /\ pc' = "idle"
  /\ call' = NoCall
  /\ UNCHANGED <<nodeVars, rawVars, arrays, root, counted, failed>>

\* slip: no catch clause
ConstructThrows_slip ==
  /\ pc = "construct"
  /\ call.kind \in Throwing
  /\ Throw
  /\ UNCHANGED <<nodeVars, rawVars, heap, arrays, root, counted>>

ConstructThrows ==
  /\ pc = "construct"
  /\ call.kind \in Throwing
  /\ NodeAlloc!Rollback(Last(nodePtrs))
  /\ Throw
  /\ UNCHANGED <<rawVars, heap, arrays, root, counted>>

-----------------------------------------------------------------------------
(* new_list: an array for the caller to fill with nodes, before it calls   *)
(* the new_<class> function that takes such an array.                      *)
NewList(nodes) ==
  /\ Idle
  /\ nodes # <<>>
  /\ Cardinality(DOMAIN arrays) < MaxArrays
  /\ failed < MaxFailures
  /\ \/ /\ RawAlloc!Allocate(PtrSize * Len(nodes), PtrSize)
        /\ arrays' = Put(arrays, Last(rawPtrs'), nodes)
        /\ UNCHANGED <<pc, call, failed>>
     \/ /\ RawAlloc!AllocateThrows(PtrSize * Len(nodes), PtrSize)
        /\ Throw
        /\ UNCHANGED arrays
  /\ UNCHANGED <<nodeVars, heap, root, counted>>

\* slip: the last node is left out
CountedNodes_slip ==
  {i \in 1 .. Len(nodePtrs) - 1 : heap[nodePtrs[i]].kind \in Counted}

(* node_iterator runs over the table of pointers, whatever they point to.  *)
CountedNodes == {i \in DOMAIN nodePtrs : heap[nodePtrs[i]].kind \in Counted}

RootNode(a) ==
  /\ Idle
  /\ failed < MaxFailures
  /\ IF NodeAlloc!Find(a)
       THEN /\ root' = a
            /\ counted' = Cardinality(CountedNodes)
            /\ UNCHANGED <<pc, call, failed>>
       ELSE Throw /\ UNCHANGED <<root, counted>>
  /\ UNCHANGED <<nodeVars, rawVars, heap, arrays>>

(* The members are destroyed in the reverse of their order in the class:   *)
(* raw_alloc first, then node_alloc, that runs node_destr on each node.    *)
CloseRaw ==
  /\ Idle
  /\ RawAlloc!Destroy
  /\ UNCHANGED <<nodeVars, heap, arrays, pc, call, root, counted, failed>>

CloseNodes ==
  /\ ~RawAlloc!Open
  /\ NodeAlloc!Destroy
  /\ UNCHANGED <<rawVars, heap, arrays, pc, call, root, counted, failed>>

DestroyNode ==
  /\ NodeAlloc!DestroyNext
  /\ heap' = Restrict(heap, DOMAIN heap \ {nodePtrs[nodeCursor]})
  /\ UNCHANGED <<rawVars, arrays, pc, call, root, counted, failed>>

-----------------------------------------------------------------------------
Init ==
  /\ NodeAlloc!Init
  /\ RawAlloc!Init
  /\ heap = <<>>
  /\ arrays = <<>>
  /\ pc = "idle"
  /\ call = NoCall
  /\ root = 0
  /\ counted = 0
  /\ failed = 0

Next ==
  \/ \E kind \in Kinds : Call(kind)
  \/ \E i \in DOMAIN call.args : AllocArg(i)
  \/ AllocNode
  \/ Construct
  \/ ConstructThrows
  \/ \E nodes \in SeqOf(DOMAIN heap, MaxList) : NewList(nodes)
  \/ \E a \in DOMAIN heap \cup Strangers : RootNode(a)
  \/ CloseRaw
  \/ CloseNodes
  \/ DestroyNode

Spec == Init /\ [][Next]_vars

-----------------------------------------------------------------------------
NodeAddresses == NodeAlloc!Addresses
RawAddresses  == RawAlloc!Addresses

IsResult(g) ==
  /\ g.at \in RawAddresses \cup {0}
  /\ Range(g.kids) \subseteq NodeAddresses
  /\ g.need \in Nat

\* Type invariant.
TypeOK ==
  /\ NodeAlloc!TypeOK /\ RawAlloc!TypeOK
  /\ DOMAIN heap \subseteq NodeAddresses
  /\ \A a \in DOMAIN heap :
       /\ heap[a].kind \in Kinds
       /\ DOMAIN heap[a].args = DOMAIN Params[heap[a].kind]
       /\ \A g \in Range(heap[a].args) : IsResult(g)
  /\ DOMAIN arrays \subseteq RawAddresses
  /\ pc \in {"idle", "args", "construct"}
  /\ pc = "idle" <=> call = NoCall
  /\ \A g \in Range(call.got) : IsResult(g)
  /\ root \in DOMAIN heap \cup NodeAddresses \cup {0}
  /\ counted \in 0 .. NodeNObjs
  /\ failed \in 0 .. MaxFailures

ArgsOf(a) == Range(heap[a].args)
Kids(a)   == UNION {Range(g.kids) : g \in ArgsOf(a)}
Place(a)  == CHOOSE i \in DOMAIN nodePtrs : nodePtrs[i] = a

(* A node refers to nodes of this AST only, and to nodes that were there   *)
(* before it: no reference dangles, none makes a cycle, also after calls   *)
(* that threw, and while the nodes are being destroyed (the newest first). *)
KidsAreOlder ==
  \A a \in DOMAIN heap : \A b \in Kids(a) :
    /\ b \in DOMAIN heap
    /\ Place(b) < Place(a)

(* Between two calls, the table of node_alloc lists exactly the nodes that *)
(* were constructed: what node_destr and the node iterators are given is   *)
(* never raw memory, and no node is left out.                              *)
TableIsHeap ==
  (Idle \/ nodeCursor >= 0) =>
    DOMAIN heap = {nodePtrs[i] : i \in IF nodeCursor >= 0 THEN 1 .. nodeCursor
                                                          ELSE DOMAIN nodePtrs}

(* The raw blocks the nodes refer to are live and large enough; a block is *)
(* shared only when it is an array the caller passed twice.                *)
BlocksOwned ==
  RawAlloc!Open => \A a, b \in DOMAIN heap :
    \A i \in DOMAIN heap[a].args, j \in DOMAIN heap[b].args :
      LET g == heap[a].args[i]
          h == heap[b].args[j]
      IN  /\ g.at # 0 => \E k \in DOMAIN rawPtrs : /\ rawPtrs[k] = g.at
                                                   /\ rawMade[k].len >= g.need
          /\ g.at # 0 /\ g.at = h.at => <<a, i>> = <<b, j>> \/ g.at \in DOMAIN arrays

(* The heap as a whole: typed, with references to older nodes only, and    *)
(* listed in the table exactly, which is what the destructor, the iterators*)
(* and `find' work from; after every mix of calls that return and that     *)
(* throw, and at every step of the destructor.                             *)
HeapIsRight == TypeOK /\ KidsAreOlder /\ TableIsHeap

Used == {g.at : g \in (UNION {ArgsOf(a) : a \in DOMAIN heap}) \cup Range(call.got)}
Orphans == Range(rawPtrs) \ Used

RawParams(kind) == {i \in DOMAIN Params[kind] : Params[kind][i].is \in {"str", "list"}}

(* raw_alloc is never rolled back: a call that throws leaves the strings   *)
(* and arrays it had copied.  Nothing else is lost: the blocks no node uses*)
(* are at most as many as the failed calls can have copied, and the arrays *)
(* nobody has used yet.                                                    *)
LeakBounded ==
  NodeAlloc!Open =>
    Cardinality(Orphans \ DOMAIN arrays)
      <= failed * Max({Cardinality(RawParams(kind)) : kind \in Kinds})

(* Every raw block is accounted for: it belongs to one argument of one node*)
(* and is large enough for it, it is an array the caller has, or one of the*)
(* few that failed calls have lost.                                        *)
BlocksAccounted == BlocksOwned /\ LeakBounded

(* What can be reached from a node: the least set that has it and, with    *)
(* each node, the nodes that this one refers to.                           *)
Reachable(a) ==
  {b \in DOMAIN heap :
     \A set \in SUBSET DOMAIN heap :
       a \in set /\ (\A c \in set : Kids(c) \subseteq set) => b \in set}

(* num_treenode is a count taken when the root was set, and nodes can be   *)
(* made after that: it still covers every such node of the tree below root,*)
(* and never exceeds those of the AST.                                     *)
CountCoversRoot ==
  Idle /\ root # 0 =>
    /\ Cardinality({a \in Reachable(root) : heap[a].kind \in Counted}) <= counted
    /\ counted <= Cardinality(CountedNodes)

(* The nodes of the AST, without addresses.                                *)
Store == INSTANCE TreeStore WITH
  nodes  <- [i \in 1 .. Cardinality(DOMAIN heap) |->
               [kind |-> heap[nodePtrs[i]].kind,
                kids |-> {Place(b) : b \in Kids(nodePtrs[i])}]],
  closed <- nodeCursor # -1

(* The AST is a store that only grows: whatever fails, no node that was    *)
(* handed out changes or goes away before the AST is destroyed.            *)
ImplementsStore == Store!Spec
=============================================================================
