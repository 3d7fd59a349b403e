--------------------------- MODULE BaseASTProofs ---------------------------
(***************************************************************************)
(* What holds of every AST class, whatever its node classes, the sizes of  *)
(* its pools and the calls made of it.                                     *)
(***************************************************************************)
EXTENDS BaseAST, PoolTableProofs, FiniteSetTheorems

-----------------------------------------------------------------------------
(* The nodes of the table that are constructed, and not yet destroyed, are *)
(* the first so many.                                                      *)
NMade == IF nodeCursor >= 0 THEN nodeCursor
         ELSE IF pc = "construct" THEN Len(nodePtrs) - 1
         ELSE Len(nodePtrs)

(* Both allocators are as PoolAllocatorProofs says of each by itself; and  *)
(* the nodes outlive the strings and arrays.                               *)
Pools ==
  /\ Sound(NodePool, NodePoolSize, nodePtr, nodePtrs, nodeMade)
  /\ Sound(RawPool, RawPoolSize, rawPtr, rawPtrs, rawMade)
  /\ Len(nodePtrs) <= NodeNObjs
  /\ nodeRaised \in NodeAlloc!Exceptions /\ rawRaised \in RawAlloc!Exceptions
  /\ nodeCursor \in -1 .. Len(nodePtrs) /\ rawCursor \in {-1, 0}
  /\ nodeCursor # -1 => rawCursor # -1

(* The node at place i of a table t, which refers to earlier ones only.    *)
IsNode(x, t, i) ==
  /\ x.kind \in Kinds
  /\ DOMAIN x.args = DOMAIN Params[x.kind]
  /\ \A g \in Range(x.args) :
       IsResult(g) /\ Range(g.kids) \subseteq {t[j] : j \in 1 .. i - 1}

(* A heap h with the first n nodes of the table t, and no other.           *)
Lists(h, t, n) ==
  /\ DOMAIN h = {t[i] : i \in 1 .. n}
  /\ \A i \in 1 .. n : IsNode(h[t[i]], t, i)

Nodes ==
  /\ pc = "construct" => Len(nodePtrs) > 0
  /\ Lists(heap, nodePtrs, NMade)

IsActual(x, arrs) ==
  /\ x.nodes \in Seq(Nat) /\ x.len \in Nat
  /\ x.from # 0 => x.from \in DOMAIN arrs /\ x.nodes = arrs[x.from]

(* A call c in progress: what its arguments have given so far refers to    *)
(* nodes that are there.                                                   *)
IsCall(c, h, arrs) ==
  /\ c = [kind |-> c.kind, args |-> c.args, got |-> c.got]
  /\ c.kind \in Kinds
  /\ DOMAIN c.args = DOMAIN Params[c.kind]
  /\ \A i \in DOMAIN c.args : IsActual(c.args[i], arrs)
  /\ DOMAIN c.got \subseteq DOMAIN c.args
  /\ \A i \in DOMAIN c.got : IsResult(c.got[i]) /\ Range(c.got[i].kids) \subseteq h

(* A call can go on only while both pools are open.                        *)
CurrentCall ==
  /\ pc \in {"idle", "args", "construct"}
  /\ pc = "idle" => call = NoCall
  /\ pc # "idle" => /\ rawCursor = -1 /\ nodeCursor = -1
                    /\ failed < MaxFailures
                    /\ IsCall(call, DOMAIN heap, arrays)
  /\ pc = "construct" => DOMAIN call.got = DOMAIN call.args

Marks ==
  /\ \A b \in DOMAIN arrays : b \in RawAddresses /\ arrays[b] \in Seq(NodeAddresses)
  /\ root \in NodeAddresses \cup {0} /\ counted \in 0 .. NodeNObjs /\ failed \in 0 .. MaxFailures

IInv == Pools /\ Nodes /\ CurrentCall /\ Marks

-----------------------------------------------------------------------------
LEMMA NodeGrows ==
  ASSUME Pools, NEW nbytes \in Nat, NEW align \in NodeAlloc!Alignments,
         NodeAlloc!Allocate(nbytes, align)
  PROVE  /\ Sound(NodePool, NodePoolSize, nodePtr', nodePtrs', nodeMade')
         /\ Len(nodePtrs') = Len(nodePtrs) + 1
         /\ \A i \in 1 .. Len(nodePtrs) : nodePtrs'[i] = nodePtrs[i]
         /\ Len(nodePtrs) < NodeNObjs
         /\ nodeRaised' = "none" /\ nodeCursor' = -1 /\ nodeCursor = -1
<1> DEFINE n == NodeAlloc!Bytes(nbytes)
           pad == NodeAlloc!Padding(align)
           sum == NodeAlloc!Plus(n, pad)
<1>1. n \in Nat \ {0} /\ align \in Alignments
  BY DEF NodeAlloc!Bytes, NodeAlloc!Alignments, Alignments
<1>2. /\ pad = align - (nodePtr % align) /\ SizeMax - pad >= n
      /\ sum = (IF n + pad > SizeMax THEN n + pad - (SizeMax + 1) ELSE n + pad)
      /\ sum <= NodePoolSize /\ nodePtr - NodePool <= NodePoolSize - sum
  BY DEF NodeAlloc!Allocate, NodeAlloc!Padding, NodeAlloc!Fits, NodeAlloc!Plus
<1>3. /\ nodePtr' = nodePtr + pad + n
      /\ nodePtrs' = Append(nodePtrs, nodePtr + pad)
      /\ nodeMade' = Append(nodeMade, [len |-> n, align |-> align])
      /\ nodeRaised' = "none" /\ nodeCursor' = nodeCursor /\ nodeCursor = -1
  BY DEF NodeAlloc!Allocate, NodeAlloc!Open
<1>4. Len(nodePtrs) < NodeNObjs
  BY ASTAssumption, ObjectsAre
     DEF Pools, Sound, NodeAlloc!Allocate, NodeAlloc!TooManyObjects, NodeAlloc!NPtrs
<1> DEFINE r == nodePtr + pad
           e == [len |-> n, align |-> align]
<1>5. Sound(NodePool, NodePoolSize, nodePtr, nodePtrs, nodeMade)
  BY DEF Pools
<1>6. /\ NodePool \in Nat /\ NodePoolSize \in Nat /\ SizeMax \in Nat
      /\ nodePtr \in Nat /\ NodePool <= nodePtr
  BY <1>5, ASTAssumption DEF Sound
<1>7. pad \in 1 .. align /\ align \in Nat
  BY <1>1, <1>2, <1>6, PaddingAligns DEF Alignments
<1> HIDE DEF n, pad, sum
<1>8. r \in Nat /\ nodePtr <= r /\ r + n <= NodePool + NodePoolSize
  BY <1>1, <1>2, <1>6, <1>7
<1>9. e \in Extents /\ e.len = n
  BY <1>1 DEF Extents
<1> HIDE DEF r, e
<1>10. Sound(NodePool, NodePoolSize, r + n, Append(nodePtrs, r), Append(nodeMade, e))
  BY <1>5, <1>6, <1>8, <1>9, GrowIsSound
<1>11. /\ Sound(NodePool, NodePoolSize, nodePtr', nodePtrs', nodeMade')
       /\ nodePtrs' = Append(nodePtrs, r) /\ nodeMade' = Append(nodeMade, e)
  BY <1>3, <1>10 DEF r, e
<1>12. nodePtrs \in Seq(Nat) /\ nodeMade \in Seq(Extents) /\ Len(nodeMade) = Len(nodePtrs)
  BY <1>5 DEF Sound
<1>13. /\ Len(nodePtrs') = Len(nodePtrs) + 1
       /\ \A i \in 1 .. Len(nodePtrs) : nodePtrs'[i] = nodePtrs[i]
  BY <1>8, <1>11, <1>12, AppendProperties
<1> QED
  BY <1>3, <1>4, <1>11, <1>13

LEMMA RawGrows ==
  ASSUME Pools, NEW nbytes \in Nat, NEW align \in RawAlloc!Alignments,
         RawAlloc!Allocate(nbytes, align)
  PROVE  /\ Sound(RawPool, RawPoolSize, rawPtr', rawPtrs', rawMade')
         /\ Len(rawPtrs') = Len(rawPtrs) + 1
         /\ \A i \in 1 .. Len(rawPtrs) : rawPtrs'[i] = rawPtrs[i] /\ rawMade'[i] = rawMade[i]
         /\ rawMade'[Len(rawPtrs) + 1].len >= nbytes
         /\ rawRaised' = "none" /\ rawCursor' = -1 /\ rawCursor = -1
<1> DEFINE n == RawAlloc!Bytes(nbytes)
           pad == RawAlloc!Padding(align)
           sum == RawAlloc!Plus(n, pad)
<1>1. n \in Nat \ {0} /\ n >= nbytes /\ align \in Alignments
  BY DEF RawAlloc!Bytes, RawAlloc!Alignments, Alignments
<1>2. /\ pad = align - (rawPtr % align) /\ SizeMax - pad >= n
      /\ sum = (IF n + pad > SizeMax THEN n + pad - (SizeMax + 1) ELSE n + pad)
      /\ sum <= RawPoolSize /\ rawPtr - RawPool <= RawPoolSize - sum
  BY DEF RawAlloc!Allocate, RawAlloc!Padding, RawAlloc!Fits, RawAlloc!Plus
<1>3. /\ rawPtr' = rawPtr + pad + n
      /\ rawPtrs' = Append(rawPtrs, rawPtr + pad)
      /\ rawMade' = Append(rawMade, [len |-> n, align |-> align])
      /\ rawRaised' = "none" /\ rawCursor' = rawCursor /\ rawCursor = -1
  BY DEF RawAlloc!Allocate, RawAlloc!Open
<1> DEFINE r == rawPtr + pad
           e == [len |-> n, align |-> align]
<1>5. Sound(RawPool, RawPoolSize, rawPtr, rawPtrs, rawMade)
  BY DEF Pools
<1>6. RawPool \in Nat /\ RawPoolSize \in Nat /\ SizeMax \in Nat /\ rawPtr \in Nat /\ RawPool <= rawPtr
  BY <1>5, ASTAssumption DEF Sound
<1>7. pad \in 1 .. align /\ align \in Nat
  BY <1>1, <1>2, <1>6, PaddingAligns DEF Alignments
<1> HIDE DEF n, pad, sum
<1>8. r \in Nat /\ rawPtr <= r /\ r + n <= RawPool + RawPoolSize
  BY <1>1, <1>2, <1>6, <1>7
<1>9. e \in Extents /\ e.len = n
  BY <1>1 DEF Extents
<1> HIDE DEF r, e
<1>10. Sound(RawPool, RawPoolSize, r + n, Append(rawPtrs, r), Append(rawMade, e))
  BY <1>5, <1>6, <1>8, <1>9, GrowIsSound
<1>11. /\ Sound(RawPool, RawPoolSize, rawPtr', rawPtrs', rawMade')
       /\ rawPtrs' = Append(rawPtrs, r) /\ rawMade' = Append(rawMade, e)
  BY <1>3, <1>10 DEF r, e
<1>12. rawPtrs \in Seq(Nat) /\ rawMade \in Seq(Extents) /\ Len(rawMade) = Len(rawPtrs)
  BY <1>5 DEF Sound
<1>13. /\ Len(rawPtrs') = Len(rawPtrs) + 1
       /\ \A i \in 1 .. Len(rawPtrs) : rawPtrs'[i] = rawPtrs[i]
  BY <1>8, <1>11, <1>12, AppendProperties
<1>14. /\ \A i \in 1 .. Len(rawPtrs) : rawMade'[i] = rawMade[i]
       /\ rawMade'[Len(rawPtrs) + 1].len = n
  BY <1>9, <1>11, <1>12, AppendProperties
<1> QED
  BY <1>1, <1>3, <1>11, <1>13, <1>14

(* The block just allocated is the last of the table, and a raw address.   *)
LEMMA LastOfRaw ==
  ASSUME NEW p, NEW t, NEW m, Sound(RawPool, RawPoolSize, p, t, m), Len(t) > 0
  PROVE  /\ Len(t) \in Nat /\ Last(t) = t[Len(t)] /\ Last(t) \in RawAddresses /\ Last(t) # 0
         /\ \A i \in 1 .. Len(t) : t[i] \in RawAddresses
<1>1. /\ Len(t) \in Nat
      /\ \A i \in 1 .. Len(t) : t[i] \in Nat /\ m[i].len \in Nat
  BY ObjectsAre
<1>2. /\ \A i \in 1 .. Len(t) : RawPool <= t[i] /\ t[i] + m[i].len <= p
      /\ p \in Nat /\ p <= RawPool + RawPoolSize
  BY DEF Sound
<1>3. \A i \in 1 .. Len(t) : t[i] \in RawAddresses /\ t[i] # 0
  BY <1>1, <1>2, ASTAssumption, SMTT(30) DEF RawAddresses, RawAlloc!Addresses
<1> QED
  BY <1>1, <1>3 DEF Last

(* The same of the nodes.                                                  *)
LEMMA TableOfNodes ==
  ASSUME NEW p, NEW t, NEW m, Sound(NodePool, NodePoolSize, p, t, m)
  PROVE  /\ Len(t) \in Nat /\ DOMAIN t = 1 .. Len(t)
         /\ \A i \in 1 .. Len(t) : t[i] \in NodeAddresses /\ t[i] \in Nat /\ t[i] # 0
         /\ \A i, j \in 1 .. Len(t) : t[i] = t[j] => i = j
<1>0. DOMAIN t = 1 .. Len(t)
  BY DEF Sound
<1>1. /\ Len(t) \in Nat
      /\ \A i \in 1 .. Len(t) : t[i] \in Nat /\ m[i].len \in Nat
  BY ObjectsAre
<1>2. /\ \A i \in 1 .. Len(t) : NodePool <= t[i] /\ t[i] + m[i].len <= p
      /\ p \in Nat /\ p <= NodePool + NodePoolSize
  BY DEF Sound
<1>n. NodePool \in Nat /\ NodePool > 0 /\ NodePoolSize \in Nat
  BY ASTAssumption
<1>3. ASSUME NEW i \in 1 .. Len(t)  PROVE t[i] \in NodeAddresses /\ t[i] # 0
  <2>1. /\ t[i] \in Nat /\ m[i].len \in Nat /\ NodePool <= t[i]
        /\ t[i] + m[i].len <= p
    BY <1>1, <1>2
  <2>2. t[i] \in NodePool .. NodePool + NodePoolSize /\ t[i] # 0
    BY <1>2, <1>n, <2>1
  <2> QED
    BY <2>2 DEF NodeAddresses, NodeAlloc!Addresses
<1>4. Increasing(t, Len(t))
  BY SoundIsIncreasing, ASTAssumption
<1>5. \A i, j \in 1 .. Len(t) : i < j => t[i] < t[j]
  BY <1>4 DEF Increasing
<1>6. \A i, j \in 1 .. Len(t) : t[i] = t[j] => i = j
  <2> DEFINE n == Len(t)
  <2> HIDE DEF n
  <2> QED
    BY <1>1, <1>5 DEF n
<1> QED
  BY <1>0, <1>1, <1>3, <1>6

(* The pointers that check accepts are in the table: find is right there.  *)
LEMMA KnownAreNodes ==
  ASSUME Pools, NEW a \in Nat, NodeAlloc!Find(a)
  PROVE  \E i \in 1 .. Len(nodePtrs) : nodePtrs[i] = a
<1> DEFINE i == IndexIn(nodePtrs, LinearLimit, a)
<1>1. NodeAlloc!FindIndex(a) = i
  BY DEF NodeAlloc!FindIndex, NodeAlloc!IndexIn, IndexIn, NodeAlloc!IsLinear, IsLinear,
         NodeAlloc!LowerBound, LowerBound, NodeAlloc!UpperBound, UpperBound,
         NodeAlloc!Bisect, Bisect, NodeAlloc!Ranges, Ranges, NodeAlloc!Turn, Turn,
         NodeAlloc!Skips, Skips
<1>2. i # -1
  BY <1>1 DEF NodeAlloc!Find
<1>3. Sound(NodePool, NodePoolSize, nodePtr, nodePtrs, nodeMade)
  BY DEF Pools
<1>4. nodePtrs \in Seq(Nat) /\ Increasing(nodePtrs, Len(nodePtrs)) /\ LinearLimit \in Nat
  BY <1>3, SoundIsIncreasing, ASTAssumption DEF Sound
<1> HIDE DEF i
<1>5. i + 1 \in DOMAIN nodePtrs /\ nodePtrs[i + 1] = a
  BY <1>2, <1>4, FindIsRight DEF i
<1>6. DOMAIN nodePtrs = 1 .. Len(nodePtrs)
  BY <1>4
<1> QED
  BY <1>5, <1>6

LEMMA NodeShrinks ==
  ASSUME Pools, NEW obj, NodeAlloc!Rollback(obj)
  PROVE  /\ Sound(NodePool, NodePoolSize, nodePtr', nodePtrs', nodeMade')
         /\ Len(nodePtrs) \in Nat /\ Len(nodePtrs) > 0
         /\ Len(nodePtrs') = Len(nodePtrs) - 1
         /\ \A i \in 1 .. Len(nodePtrs) - 1 : nodePtrs'[i] = nodePtrs[i]
         /\ nodeRaised' = "none" /\ nodeCursor' = -1 /\ nodeCursor = -1
<1>1. Sound(NodePool, NodePoolSize, nodePtr, nodePtrs, nodeMade) /\ Len(nodePtrs) \in Nat
  BY ObjectsAre DEF Pools
<1>2. Len(nodePtrs) >= 1 /\ nodePtrs[Len(nodePtrs)] = obj /\ nodePtr' = obj
  BY DEF NodeAlloc!Rollback, NodeAlloc!IsLast, NodeAlloc!NPtrs
<1>3. PICK n \in Nat : Len(nodePtrs) = n + 1
  <2>1. Len(nodePtrs) - 1 \in Nat
    BY <1>1, <1>2
  <2> QED
    BY <1>1, <2>1
<1>4. /\ nodePtrs' = SubSeq(nodePtrs, 1, n) /\ nodeMade' = SubSeq(nodeMade, 1, n)
      /\ nodeRaised' = "none" /\ nodeCursor' = nodeCursor /\ nodeCursor = -1
  BY <1>3 DEF NodeAlloc!Rollback, NodeAlloc!NPtrs, NodeAlloc!Open
<1>5. NodePool \in Nat /\ NodePoolSize \in Nat
  BY ASTAssumption
<1>6. /\ Sound(NodePool, NodePoolSize, nodePtr', nodePtrs', nodeMade')
      /\ Len(nodePtrs') = n
      /\ \A i \in 1 .. n : nodePtrs'[i] = nodePtrs[i]
  BY <1>1, <1>2, <1>3, <1>4, <1>5, ShrinkIsSound
<1> QED
  BY <1>1, <1>3, <1>4, <1>6

-----------------------------------------------------------------------------
LEMMA InitEstablishes == Init => IInv
<1> SUFFICES ASSUME Init  PROVE IInv
  OBVIOUS
<1>1. /\ nodePtrs = <<>> /\ nodeMade = <<>> /\ rawPtrs = <<>> /\ rawMade = <<>>
      /\ nodePtr = NodePool /\ rawPtr = RawPool /\ nodeCursor = -1 /\ rawCursor = -1
      /\ nodeRaised = "none" /\ rawRaised = "none"
  BY DEF Init, NodeAlloc!Init, RawAlloc!Init
<1>2. /\ heap = <<>> /\ arrays = <<>> /\ pc = "idle" /\ call = NoCall
      /\ root = 0 /\ counted = 0 /\ failed = 0
  BY DEF Init
<1>3. /\ <<>> \in Seq(Nat) /\ <<>> \in Seq(Extents) /\ Len(<<>>) = 0 /\ DOMAIN <<>> = {}
  OBVIOUS
<1>4. \A pool \in Nat, size \in Nat : Sound(pool, size, pool, <<>>, <<>>)
  BY <1>3 DEF Sound
<1>5. Pools
  <2>1. /\ Sound(NodePool, NodePoolSize, NodePool, <<>>, <<>>)
        /\ Sound(RawPool, RawPoolSize, RawPool, <<>>, <<>>)
    BY <1>4, ASTAssumption
  <2> QED
    BY <1>1, <1>3, <2>1, ASTAssumption DEF Pools, NodeAlloc!Exceptions, RawAlloc!Exceptions
<1>6. Nodes
  <2>1. NMade = 0
    BY <1>1, <1>2, <1>3 DEF NMade
  <2> QED
    BY <1>2, <1>3, <2>1 DEF Nodes, Lists
<1>7. CurrentCall
  BY <1>2 DEF CurrentCall, NoCall
<1>8. Marks
  BY <1>2, <1>3, ASTAssumption DEF Marks
<1> QED
  BY <1>5, <1>6, <1>7, <1>8 DEF IInv

-----------------------------------------------------------------------------
(* What the allocators do to Pools.                                        *)
LEMMA RawAllocates ==
  ASSUME Pools, NEW nbytes \in Nat, NEW align \in RawAlloc!Alignments,
         RawAlloc!Allocate(nbytes, align), UNCHANGED nodeVars
  PROVE  /\ Pools' /\ rawCursor' = rawCursor
         /\ Last(rawPtrs') \in RawAddresses /\ Last(rawPtrs') # 0
<1>1. /\ Sound(RawPool, RawPoolSize, rawPtr', rawPtrs', rawMade')
      /\ Len(rawPtrs') = Len(rawPtrs) + 1
      /\ rawRaised' = "none" /\ rawCursor' = -1 /\ rawCursor = -1
  BY RawGrows
<1>2. Len(rawPtrs) \in Nat
  BY ObjectsAre DEF Pools
<1>3. Pools'
  BY <1>1 DEF Pools, nodeVars, RawAlloc!Exceptions
<1> QED
  BY <1>1, <1>2, <1>3, LastOfRaw

LEMMA RawAllocateThrows ==
  ASSUME Pools, NEW nbytes, NEW align,
         RawAlloc!AllocateThrows(nbytes, align), UNCHANGED nodeVars
  PROVE  Pools' /\ UNCHANGED <<rawPtrs, rawMade, rawCursor>>
BY DEF Pools, nodeVars, RawAlloc!AllocateThrows, RawAlloc!Exceptions

LEMMA RawRequests ==
  /\ \A n \in Nat : PtrSize * n \in Nat
  /\ PtrSize \in RawAlloc!Alignments /\ PtrSize \in NodeAlloc!Alignments
  /\ 1 \in RawAlloc!Alignments
BY ASTAssumption DEF RawAlloc!Alignments, NodeAlloc!Alignments

(* Nothing that happens within a call before its node is made matters to   *)
(* the nodes that are there.                                               *)
LEMMA NodesStay ==
  ASSUME Nodes, UNCHANGED <<heap, nodePtrs, nodeCursor>>, pc # "construct", pc' # "construct"
  PROVE  Nodes'
<1>1. NMade' = NMade
  BY DEF NMade
<1> QED
  BY <1>1 DEF Nodes

LEMMA ThrowEnds ==
  ASSUME Marks, failed < MaxFailures, Throw
  PROVE  CurrentCall' /\ failed' \in 0 .. MaxFailures
BY ASTAssumption DEF Marks, CurrentCall, Throw, NoCall

(* What an alloc_arg has given is what the call may go on with.            *)
LEMMA GotGoesOn ==
  ASSUME CurrentCall, NEW i, pc = "args", i \in DOMAIN call.args \ DOMAIN call.got,
         NEW at \in RawAddresses \cup {0}, NEW kids,
         Range(kids) \subseteq DOMAIN heap \cap NodeAddresses,
         NEW need \in Nat, Got(i, at, kids, need),
         UNCHANGED <<heap, arrays, nodeCursor>>, rawCursor' = rawCursor
  PROVE  CurrentCall' /\ pc' = pc /\ failed' = failed
<1> DEFINE g == [at |-> at, kids |-> kids, need |-> need]
<1>1. IsCall(call, DOMAIN heap, arrays)
  BY DEF CurrentCall
<1>2. /\ call' = [call EXCEPT !.got = Put(call.got, i, g)]
      /\ pc' = pc /\ failed' = failed
  BY DEF Got
<1>3. IsResult(g) /\ Range(g.kids) \subseteq DOMAIN heap
  BY DEF IsResult
<1> HIDE DEF g
<1>4. /\ call' = [kind |-> call.kind, args |-> call.args, got |-> Put(call.got, i, g)]
      /\ call'.kind = call.kind /\ call'.args = call.args /\ call'.got = Put(call.got, i, g)
  BY <1>1, <1>2 DEF IsCall
<1>5. /\ DOMAIN call'.got = DOMAIN call.got \cup {i}
      /\ \A j \in DOMAIN call'.got : call'.got[j] = IF j = i THEN g ELSE call.got[j]
  BY <1>4 DEF Put
<1>7. \A j \in DOMAIN call'.got :
        IsResult(call'.got[j]) /\ Range(call'.got[j].kids) \subseteq DOMAIN heap
  BY <1>1, <1>3, <1>5 DEF IsCall
<1>8. IsCall(call', DOMAIN heap, arrays)
  BY <1>1, <1>4, <1>5, <1>7 DEF IsCall
<1> QED
  BY <1>2, <1>8 DEF CurrentCall

-----------------------------------------------------------------------------
(* What the other lemmas use of IInv.                                      *)
LEMMA Facts ==
  ASSUME IInv
  PROVE  /\ Len(nodePtrs) \in Nat /\ NMade \in 0 .. Len(nodePtrs)
         /\ DOMAIN heap \subseteq NodeAddresses /\ DOMAIN heap \subseteq Nat
         /\ \A i, j \in 1 .. Len(nodePtrs) : nodePtrs[i] = nodePtrs[j] => i = j
<1>1. Sound(NodePool, NodePoolSize, nodePtr, nodePtrs, nodeMade)
  BY DEF IInv, Pools
<1>2. /\ Len(nodePtrs) \in Nat
      /\ \A i \in 1 .. Len(nodePtrs) : nodePtrs[i] \in NodeAddresses /\ nodePtrs[i] \in Nat
      /\ \A i, j \in 1 .. Len(nodePtrs) : nodePtrs[i] = nodePtrs[j] => i = j
  BY <1>1, TableOfNodes
<1>3. NMade \in 0 .. Len(nodePtrs)
  BY <1>2 DEF IInv, Pools, Nodes, NMade
<1>4. DOMAIN heap = {nodePtrs[i] : i \in 1 .. NMade}
  BY DEF IInv, Nodes, Lists
<1> QED
  BY <1>2, <1>3, <1>4

(* Whatever the types of the parameters let a caller pass.                 *)
LEMMA ActualsAre ==
  ASSUME IInv, NEW param, param.is \in {"node", "list", "str", "val"}, NEW x \in Actuals(param)
  PROVE  IsActual(x, arrays)
<1>1. NodesOf(param.of) \cup Strangers \subseteq Nat
  BY Facts, ASTAssumption DEF NodesOf
<1>2. \A s \in SeqOf(NodesOf(param.of) \cup Strangers, MaxList) : s \in Seq(Nat)
  BY <1>1 DEF SeqOf
<1>3. \A b \in DOMAIN arrays : arrays[b] \in Seq(Nat)
  <2>1. NodeAddresses \subseteq Nat
    BY ASTAssumption DEF NodeAddresses, NodeAlloc!Addresses
  <2>2. \A b \in DOMAIN arrays : arrays[b] \in Seq(NodeAddresses)
    BY DEF IInv, Marks
  <2>3. ASSUME NEW s \in Seq(NodeAddresses)  PROVE s \in Seq(Nat)
    <3>1. /\ Len(s) \in Nat /\ s = [i \in 1 .. Len(s) |-> s[i]]
          /\ \A i \in 1 .. Len(s) : s[i] \in NodeAddresses
      BY ElementOfSeq, LenProperties
    <3> QED
      BY <2>1, <3>1
  <2> QED
    BY <2>2, <2>3
<1>4. ASSUME NEW from, NEW nodes \in Seq(Nat), NEW len \in Nat, x = Actual(from, nodes, len),
             from # 0 => from \in DOMAIN arrays /\ nodes = arrays[from]
      PROVE  IsActual(x, arrays)
  BY <1>4 DEF Actual, IsActual
<1>5. CASE param.is = "node"
  <2>1. PICK a \in NodesOf(param.of) \cup Strangers : x = Actual(0, <<a>>, 0)
    BY <1>5 DEF Actuals
  <2>2. <<a>> \in Seq(Nat)
    BY <1>1
  <2> QED
    BY <1>4, <2>1, <2>2
<1>6. CASE param.is = "list"
  <2>1. CASE x \in {Actual(0, s, 0) : s \in SeqOf(NodesOf(param.of) \cup Strangers, MaxList)}
    BY <1>2, <1>4, <2>1
  <2>2. CASE x \in {Actual(b, arrays[b], 0) :
                     b \in {b \in DOMAIN arrays : Range(arrays[b]) \subseteq NodesOf(param.of)}}
    BY <1>3, <1>4, <2>2
  <2> QED
    BY <1>6, <2>1, <2>2 DEF Actuals
<1>7. CASE param.is = "str"
  <2>1. PICK n \in StrLens : x = Actual(0, <<>>, n)
    BY <1>7 DEF Actuals
  <2>2. n \in Nat /\ <<>> \in Seq(Nat)
    BY ASTAssumption
  <2> QED
    BY <1>4, <2>1, <2>2
<1>8. CASE param.is = "val"
  <2>1. x = Actual(0, <<>>, 0)
    BY <1>8 DEF Actuals
  <2>2. <<>> \in Seq(Nat)
    OBVIOUS
  <2> QED
    BY <1>4, <2>1, <2>2
<1> QED
  BY <1>5, <1>6, <1>7, <1>8

LEMMA CallPreserves ==
  ASSUME IInv, NEW kind \in Kinds, Call(kind)
  PROVE  IInv'
<1>1. Pools' /\ Marks'
  BY DEF IInv, Call, Pools, Marks, nodeVars, rawVars
<1>2. Nodes'
  BY NodesStay DEF IInv, Call, Idle, nodeVars
<1>3. CurrentCall'
  <2>1. PICK args \in ActualTuples(Params[kind]) :
          call' = [kind |-> kind, args |-> args, got |-> <<>>]
    BY DEF Call
  <2>2. /\ DOMAIN args = DOMAIN Params[kind]
        /\ \A i \in DOMAIN Params[kind] : args[i] \in Actuals(Params[kind][i])
    BY DEF ActualTuples
  <2>3. \A i \in DOMAIN args : IsActual(args[i], arrays)
    BY <2>2, ActualsAre, ASTAssumption
  <2>4. DOMAIN <<>> = {}
    OBVIOUS
  <2>5. IsCall(call', DOMAIN heap, arrays)
    BY <2>1, <2>2, <2>3, <2>4 DEF IsCall
  <2> QED
    BY <2>5 DEF Call, Idle, CurrentCall, NodeAlloc!Open, RawAlloc!Open, nodeVars, rawVars
<1> QED
  BY <1>1, <1>2, <1>3 DEF IInv

(* A step of a call that leaves the nodes alone, and has Pools' and the    *)
(* rest of the call right, preserves IInv.                                 *)
LEMMA WithinCall ==
  ASSUME IInv, pc = "args", pc' # "construct", UNCHANGED <<nodeVars, heap, arrays, root, counted>>,
         Pools', CurrentCall', failed' \in 0 .. MaxFailures
  PROVE  IInv'
<1>1. Nodes'
  BY NodesStay DEF IInv, nodeVars
<1>2. Marks'
  BY DEF IInv, Marks
<1> QED
  BY <1>1, <1>2 DEF IInv

LEMMA KnownAre ==
  ASSUME IInv, pc = "args", NEW nodes \in Seq(Nat), Known(nodes)
  PROVE  Range(nodes) \subseteq DOMAIN heap \cap NodeAddresses
<1>1. ASSUME NEW a \in Range(nodes)  PROVE a \in DOMAIN heap
  <2>1. a \in Nat /\ NodeAlloc!Find(a)
    BY DEF Known, Range
  <2>2. PICK i \in 1 .. Len(nodePtrs) : nodePtrs[i] = a
    BY <2>1, KnownAreNodes DEF IInv
  <2>3. NMade = Len(nodePtrs)
    BY DEF IInv, CurrentCall, NMade
  <2> QED
    BY <2>2, <2>3 DEF IInv, Nodes, Lists
<1> QED
  BY <1>1, Facts

(* The raw copy of a string or of a list.                                  *)
LEMMA CopyPreserves ==
  ASSUME IInv, pc = "args", NEW i \in DOMAIN call.args \ DOMAIN call.got,
         NEW kids, Range(kids) \subseteq DOMAIN heap \cap NodeAddresses,
         NEW nbytes \in Nat, NEW align \in RawAlloc!Alignments,
         CopyToRaw(i, kids, nbytes, align),
         UNCHANGED <<nodeVars, heap, arrays, root, counted>>
  PROVE  IInv'
<1>1. CASE RawAlloc!Allocate(nbytes, align) /\ Got(i, Last(rawPtrs'), kids, nbytes)
  <2>1. Pools' /\ rawCursor' = rawCursor /\ Last(rawPtrs') \in RawAddresses
    BY <1>1, RawAllocates DEF IInv
  <2>2. CurrentCall' /\ pc' = pc /\ failed' = failed
    BY <1>1, <2>1, GotGoesOn DEF IInv, nodeVars
  <2> QED
    BY <2>1, <2>2, WithinCall DEF IInv, Marks
<1>2. CASE RawAlloc!AllocateThrows(nbytes, align) /\ Throw
  <2>1. Pools'
    BY <1>2, RawAllocateThrows DEF IInv
  <2>2. CurrentCall' /\ failed' \in 0 .. MaxFailures /\ pc' # "construct"
    BY <1>2, ThrowEnds DEF IInv, CurrentCall, Throw
  <2> QED
    BY <2>1, <2>2, WithinCall
<1> QED
  BY <1>1, <1>2 DEF CopyToRaw

LEMMA AllocArgPreserves ==
  ASSUME IInv, NEW i, AllocArg(i)
  PROVE  IInv'
<1> DEFINE x == call.args[i]
           is == Params[call.kind][i].is
<1>1. /\ pc = "args" /\ i \in DOMAIN call.args \ DOMAIN call.got
      /\ UNCHANGED <<nodeVars, heap, arrays, root, counted>>
  BY DEF AllocArg
<1>2. IsCall(call, DOMAIN heap, arrays) /\ failed < MaxFailures
  BY <1>1 DEF IInv, CurrentCall
<1>3. x.nodes \in Seq(Nat) /\ x.len \in Nat /\ (x.from # 0 => x.from \in DOMAIN arrays)
  BY <1>1, <1>2 DEF IsCall, IsActual
<1>4. x.from \in RawAddresses \cup {0}
  BY <1>3 DEF IInv, Marks
<1>5. ASSUME Known(x.nodes)  PROVE Range(x.nodes) \subseteq DOMAIN heap \cap NodeAddresses
  BY <1>1, <1>3, <1>5, KnownAre
<1>6. is \in {"node", "list", "str", "val"}
  BY <1>1, <1>2, ASTAssumption DEF IsCall
<1>7. ASSUME Throw, UNCHANGED rawVars  PROVE IInv'
  <2>1. Pools'
    BY <1>1, <1>7 DEF IInv, Pools, nodeVars, rawVars
  <2>2. CurrentCall' /\ failed' \in 0 .. MaxFailures /\ pc' # "construct"
    BY <1>2, <1>7, ThrowEnds DEF IInv, Throw
  <2> QED
    BY <1>1, <2>1, <2>2, WithinCall
<1>8. ASSUME NEW at \in RawAddresses \cup {0}, NEW kids, NEW need \in Nat,
             Range(kids) \subseteq DOMAIN heap \cap NodeAddresses,
              Got(i, at, kids, need), UNCHANGED rawVars
      PROVE  IInv'
  <2>1. Pools'
    BY <1>1, <1>8 DEF IInv, Pools, nodeVars, rawVars
  <2>2. CurrentCall' /\ pc' = pc /\ failed' = failed
    BY <1>1, <1>8, GotGoesOn DEF IInv, nodeVars, rawVars
  <2> QED
    BY <1>1, <2>1, <2>2, WithinCall DEF IInv, Marks
<1>9. CASE is = "node"
  <2>1. AllocNodeArg(i)
    BY <1>9 DEF AllocArg
  <2>2. CASE Known(x.nodes) /\ Got(i, 0, x.nodes, 0) /\ UNCHANGED rawVars
    BY <1>5, <1>8, <2>2
  <2>3. CASE Throw /\ UNCHANGED rawVars
    BY <1>7, <2>3
  <2> QED
    BY <2>1, <2>2, <2>3 DEF AllocNodeArg
<1>10. CASE is = "list"
  <2>0. AllocListArg(i)
    BY <1>10 DEF AllocArg
  <2>1. Len(x.nodes) \in Nat
    BY <1>3
  <2>2. PtrSize * Len(x.nodes) \in Nat /\ PtrSize \in RawAlloc!Alignments
    BY <2>1, RawRequests
  <2>3. CASE Throw /\ UNCHANGED rawVars
    BY <1>7, <2>3
  <2>4. CASE Known(x.nodes) /\ Got(i, x.from, x.nodes, PtrSize * Len(x.nodes)) /\ UNCHANGED rawVars
    BY <1>4, <1>5, <1>8, <2>2, <2>4
  <2>5. CASE Known(x.nodes) /\ CopyToRaw(i, x.nodes, PtrSize * Len(x.nodes), PtrSize)
    BY <1>1, <1>5, <2>2, <2>5, CopyPreserves
  <2> QED
    BY <2>0, <2>3, <2>4, <2>5 DEF AllocListArg
<1>11. CASE is = "str"
  <2>1. CopyToRaw(i, <<>>, 1 + x.len, 1)
    BY <1>11 DEF AllocArg, AllocStrArg
  <2>2. Range(<<>>) = {} /\ 1 + x.len \in Nat
    BY <1>3 DEF Range
  <2> QED
    BY <1>1, <2>1, <2>2, RawRequests, CopyPreserves
<1>12. CASE is = "val"
  <2>1. Got(i, 0, <<>>, 0) /\ UNCHANGED rawVars
    BY <1>12 DEF AllocArg
  <2>2. Range(<<>>) = {}
    BY DEF Range
  <2> QED
    BY <1>8, <2>1, <2>2
<1> QED
  BY <1>6, <1>9, <1>10, <1>11, <1>12

-----------------------------------------------------------------------------
(* What of the table lies behind the first n does not matter to a heap that*)
(* has those.                                                              *)
LEMMA ListsOfPrefix ==
  ASSUME NEW h, NEW t, NEW t2, NEW n \in Nat, Lists(h, t, n), \A i \in 1 .. n : t2[i] = t[i]
  PROVE  Lists(h, t2, n)
<1>1. {t2[i] : i \in 1 .. n} = {t[i] : i \in 1 .. n}
  OBVIOUS
<1>2. ASSUME NEW i \in 1 .. n  PROVE IsNode(h[t2[i]], t2, i)
  <2>1. {t2[j] : j \in 1 .. i - 1} = {t[j] : j \in 1 .. i - 1}
    OBVIOUS
  <2>2. IsNode(h[t[i]], t, i) /\ t2[i] = t[i]
    BY DEF Lists
  <2> QED
    BY <2>1, <2>2 DEF IsNode
<1> QED
  BY <1>1, <1>2 DEF Lists

(* The next node of the table is constructed.                              *)
LEMMA ListsOneMore ==
  ASSUME NEW h, NEW t, NEW n \in Nat, Lists(h, t, n),
         \A i \in 1 .. n : t[i] # t[n + 1], NEW x, IsNode(x, t, n + 1)
  PROVE  Lists(Put(h, t[n + 1], x), t, n + 1)
<1> DEFINE h2 == Put(h, t[n + 1], x)
<1>1. /\ DOMAIN h2 = DOMAIN h \cup {t[n + 1]}
      /\ h2[t[n + 1]] = x /\ \A a \in DOMAIN h : a # t[n + 1] => h2[a] = h[a]
  BY DEF Put
<1>2. DOMAIN h = {t[i] : i \in 1 .. n} /\ \A i \in 1 .. n : IsNode(h[t[i]], t, i)
  BY DEF Lists
<1> HIDE DEF h2
<1>3. \A i \in 1 .. n + 1 : i = n + 1 \/ i \in 1 .. n
  OBVIOUS
<1>4. DOMAIN h2 = {t[i] : i \in 1 .. n + 1}
  <2>1. n + 1 \in 1 .. n + 1 /\ \A i \in 1 .. n : i \in 1 .. n + 1
    OBVIOUS
  <2> QED
    BY <1>1, <1>2, <1>3, <2>1
<1>5. ASSUME NEW i \in 1 .. n + 1  PROVE IsNode(h2[t[i]], t, i)
  <2>1. CASE i = n + 1
    BY <1>1, <2>1
  <2>2. CASE i \in 1 .. n
    <3>1. h2[t[i]] = h[t[i]]
      BY <1>1, <1>2, <2>2
    <3> QED
      BY <1>2, <2>2, <3>1
  <2> QED
    BY <1>3, <2>1, <2>2
<1>6. Lists(h2, t, n + 1)
  BY <1>4, <1>5 DEF Lists
<1> QED
  BY <1>6 DEF h2

(* The last of the nodes is destroyed.                                     *)
LEMMA ListsOneFewer ==
  ASSUME NEW h, NEW t, NEW n \in Nat, Lists(h, t, n + 1), \A i \in 1 .. n : t[i] # t[n + 1]
  PROVE  Lists(Restrict(h, DOMAIN h \ {t[n + 1]}), t, n)
<1> DEFINE h2 == Restrict(h, DOMAIN h \ {t[n + 1]})
<1>1. /\ DOMAIN h2 = DOMAIN h \ {t[n + 1]}
      /\ \A a \in DOMAIN h2 : h2[a] = h[a]
  BY DEF Restrict
<1>2. DOMAIN h = {t[i] : i \in 1 .. n + 1} /\ \A i \in 1 .. n + 1 : IsNode(h[t[i]], t, i)
  BY DEF Lists
<1> HIDE DEF h2
<1>3. /\ \A i \in 1 .. n + 1 : i = n + 1 \/ i \in 1 .. n
      /\ \A i \in 1 .. n : i \in 1 .. n + 1
  OBVIOUS
<1>4. DOMAIN h2 = {t[i] : i \in 1 .. n}
  BY <1>1, <1>2, <1>3
<1>5. \A i \in 1 .. n : IsNode(h2[t[i]], t, i)
  BY <1>1, <1>2, <1>3, <1>4
<1>6. Lists(h2, t, n)
  BY <1>4, <1>5 DEF Lists
<1> QED
  BY <1>6 DEF h2

-----------------------------------------------------------------------------
LEMMA AllocNodePreserves ==
  ASSUME IInv, AllocNode
  PROVE  IInv'
<1>1. /\ pc = "args" /\ DOMAIN call.got = DOMAIN call.args
      /\ UNCHANGED <<rawVars, heap, arrays, root, counted>>
  BY DEF AllocNode
<1>2. IsCall(call, DOMAIN heap, arrays) /\ failed < MaxFailures
      /\ rawCursor = -1 /\ nodeCursor = -1
  BY <1>1 DEF IInv, CurrentCall
<1>3. NodeSize[call.kind] \in Nat /\ PtrSize \in NodeAlloc!Alignments
  BY <1>2, RawRequests, ASTAssumption DEF IsCall
<1>4. CASE /\ NodeAlloc!Allocate(NodeSize[call.kind], PtrSize)
           /\ pc' = "construct"
           /\ UNCHANGED <<call, failed>>
  <2>1. /\ Sound(NodePool, NodePoolSize, nodePtr', nodePtrs', nodeMade')
        /\ Len(nodePtrs') = Len(nodePtrs) + 1
        /\ \A i \in 1 .. Len(nodePtrs) : nodePtrs'[i] = nodePtrs[i]
        /\ Len(nodePtrs) < NodeNObjs
        /\ nodeRaised' = "none" /\ nodeCursor' = -1
    BY <1>3, <1>4, NodeGrows DEF IInv
  <2>2. Len(nodePtrs) \in Nat /\ NodeNObjs \in Nat
    BY Facts, ASTAssumption
  <2>3. Pools'
    BY <1>1, <1>2, <2>1, <2>2 DEF IInv, Pools, rawVars, NodeAlloc!Exceptions
  <2>4. Nodes'
    <3>1. NMade = Len(nodePtrs) /\ NMade' = Len(nodePtrs)
      BY <1>1, <1>2, <1>4, <2>1, <2>2 DEF NMade
    <3>2. Lists(heap, nodePtrs', Len(nodePtrs))
      BY <2>1, <2>2, <3>1, ListsOfPrefix DEF IInv, Nodes
    <3> QED
      BY <1>1, <2>1, <2>2, <3>1, <3>2 DEF Nodes
  <2>5. CurrentCall'
    BY <1>1, <1>2, <1>4, <2>1 DEF CurrentCall, rawVars
  <2>6. Marks'
    BY <1>1, <1>4 DEF IInv, Marks
  <2> QED
    BY <2>3, <2>4, <2>5, <2>6 DEF IInv
<1>5. CASE /\ NodeAlloc!AllocateThrows(NodeSize[call.kind], PtrSize)
           /\ Throw
  <2>1. Pools'
    BY <1>1, <1>5 DEF IInv, Pools, rawVars, NodeAlloc!AllocateThrows, NodeAlloc!Exceptions
  <2>2. CurrentCall' /\ failed' \in 0 .. MaxFailures /\ pc' # "construct"
    BY <1>2, <1>5, ThrowEnds DEF IInv, Throw
  <2>3. Nodes'
    BY <1>1, <1>5, <2>2, NodesStay DEF IInv, NodeAlloc!AllocateThrows
  <2>4. Marks'
    BY <1>1, <2>2 DEF IInv, Marks
  <2> QED
    BY <2>1, <2>2, <2>3, <2>4 DEF IInv
<1> QED
  BY <1>4, <1>5 DEF AllocNode

(* The constructor makes the node behind those that there were.            *)
LEMMA Constructs ==
  ASSUME IInv, Construct
  PROVE  \E n, x :
           /\ n \in Nat
           /\ x = [kind |-> call.kind, args |-> call.got]
           /\ NMade = n /\ NMade' = n + 1 /\ Len(nodePtrs) = n + 1
           /\ nodePtrs' = nodePtrs /\ heap' = Put(heap, nodePtrs[n + 1], x)
           /\ Lists(heap, nodePtrs, n) /\ IsNode(x, nodePtrs, n + 1)
           /\ \A i \in 1 .. n : nodePtrs[i] # nodePtrs[n + 1]
<1>1. /\ pc = "construct" /\ pc' = "idle" /\ call' = NoCall
      /\ heap' = Put(heap, Last(nodePtrs), [kind |-> call.kind, args |-> call.got])
      /\ UNCHANGED <<nodeVars, rawVars, arrays, root, counted, failed>>
  BY DEF Construct
<1>2. IsCall(call, DOMAIN heap, arrays) /\ nodeCursor = -1 /\ DOMAIN call.got = DOMAIN call.args
  BY <1>1 DEF IInv, CurrentCall
<1>3. PICK n \in Nat : Len(nodePtrs) = n + 1
  <2>1. Len(nodePtrs) \in Nat /\ Len(nodePtrs) > 0
    BY <1>1, Facts DEF IInv, Nodes
  <2>2. Len(nodePtrs) - 1 \in Nat
    BY <2>1
  <2> QED
    BY <2>1, <2>2
<1>4. Last(nodePtrs) = nodePtrs[n + 1]
  BY <1>3 DEF Last
<1>5. NMade = n /\ NMade' = n + 1
  BY <1>1, <1>2, <1>3 DEF NMade, nodeVars
<1>6. Lists(heap, nodePtrs, n)
  BY <1>5 DEF IInv, Nodes
<1> DEFINE x == [kind |-> call.kind, args |-> call.got]
<1>7. IsNode(x, nodePtrs, n + 1)
  <2>1. /\ x.kind \in Kinds /\ DOMAIN x.args = DOMAIN Params[x.kind]
        /\ \A g \in Range(x.args) : IsResult(g) /\ Range(g.kids) \subseteq DOMAIN heap
    BY <1>2 DEF IsCall, Range
  <2>2. DOMAIN heap = {nodePtrs[j] : j \in 1 .. n}
    BY <1>6 DEF Lists
  <2>3. n + 1 - 1 = n
    OBVIOUS
  <2> HIDE DEF x
  <2> QED
    BY <2>1, <2>2, <2>3 DEF IsNode
<1>8. \A i \in 1 .. n : nodePtrs[i] # nodePtrs[n + 1]
  <2>1. \A i \in 1 .. n : i \in 1 .. n + 1 /\ n + 1 \in 1 .. n + 1 /\ i # n + 1
    OBVIOUS
  <2> QED
    BY <1>3, <2>1, Facts
<1>9. heap' = Put(heap, nodePtrs[n + 1], x)
  BY <1>1, <1>4
<1> HIDE DEF x
<1> QED
  BY <1>1, <1>3, <1>5, <1>6, <1>7, <1>8, <1>9 DEF x, nodeVars

LEMMA ConstructPreserves ==
  ASSUME IInv, Construct
  PROVE  IInv'
<1>1. /\ pc' = "idle" /\ call' = NoCall
      /\ UNCHANGED <<nodeVars, rawVars, arrays, root, counted, failed>>
  BY DEF Construct
<1>2. PICK n, x :
        /\ n \in Nat
        /\ NMade' = n + 1
        /\ nodePtrs' = nodePtrs /\ heap' = Put(heap, nodePtrs[n + 1], x)
        /\ Lists(heap, nodePtrs, n) /\ IsNode(x, nodePtrs, n + 1)
        /\ \A i \in 1 .. n : nodePtrs[i] # nodePtrs[n + 1]
  BY Constructs
<1>3. Lists(heap', nodePtrs, n + 1)
  BY <1>2, ListsOneMore
<1>4. Nodes'
  BY <1>1, <1>2, <1>3 DEF Nodes
<1>5. Pools' /\ Marks'
  BY <1>1 DEF IInv, Pools, Marks, nodeVars, rawVars
<1>6. CurrentCall'
  BY <1>1 DEF CurrentCall
<1> QED
  BY <1>4, <1>5, <1>6 DEF IInv

LEMMA ConstructThrowsPreserves ==
  ASSUME IInv, ConstructThrows
  PROVE  IInv'
<1>1. /\ pc = "construct" /\ NodeAlloc!Rollback(Last(nodePtrs)) /\ Throw
      /\ UNCHANGED <<rawVars, heap, arrays, root, counted>>
  BY DEF ConstructThrows
<1>2. /\ Sound(NodePool, NodePoolSize, nodePtr', nodePtrs', nodeMade')
      /\ Len(nodePtrs) \in Nat /\ Len(nodePtrs) > 0
      /\ Len(nodePtrs') = Len(nodePtrs) - 1
      /\ \A i \in 1 .. Len(nodePtrs) - 1 : nodePtrs'[i] = nodePtrs[i]
      /\ nodeRaised' = "none" /\ nodeCursor' = -1 /\ nodeCursor = -1
  BY <1>1, NodeShrinks DEF IInv
<1>3. failed < MaxFailures
  BY <1>1 DEF IInv, CurrentCall
<1>4. Pools'
  <2>1. Len(nodePtrs') <= NodeNObjs /\ Len(nodePtrs') \in Nat
    BY <1>2, ASTAssumption DEF IInv, Pools
  <2> QED
    BY <1>1, <1>2, <2>1 DEF IInv, Pools, rawVars, NodeAlloc!Exceptions
<1>5. CurrentCall' /\ failed' \in 0 .. MaxFailures /\ pc' = "idle"
  BY <1>1, <1>3, ThrowEnds DEF IInv, Throw
<1>6. Nodes'
  <2> DEFINE n == Len(nodePtrs) - 1
  <2>1. n \in Nat /\ NMade = n /\ NMade' = n
    BY <1>1, <1>2, <1>5 DEF NMade
  <2>2. Lists(heap, nodePtrs, n)
    BY <2>1 DEF IInv, Nodes
  <2> HIDE DEF n
  <2>3. Lists(heap, nodePtrs', n)
    BY <1>2, <2>1, <2>2, ListsOfPrefix DEF n
  <2> QED
    BY <1>1, <1>5, <2>1, <2>3 DEF Nodes
<1>7. Marks'
  BY <1>1, <1>5 DEF IInv, Marks
<1> QED
  BY <1>4, <1>5, <1>6, <1>7 DEF IInv

LEMMA NewListPreserves ==
  ASSUME IInv, NEW nodes \in SeqOf(DOMAIN heap, MaxList), NewList(nodes)
  PROVE  IInv'
<1>1. /\ pc = "idle" /\ rawCursor = -1 /\ failed < MaxFailures
      /\ UNCHANGED <<nodeVars, heap, root, counted>>
  BY DEF NewList, Idle, RawAlloc!Open
<1>2. nodes \in Seq(NodeAddresses)
  BY Facts DEF SeqOf
<1>3. PtrSize * Len(nodes) \in Nat /\ PtrSize \in RawAlloc!Alignments
  BY <1>2, RawRequests
<1>4. CASE /\ RawAlloc!Allocate(PtrSize * Len(nodes), PtrSize)
           /\ arrays' = Put(arrays, Last(rawPtrs'), nodes)
           /\ UNCHANGED <<pc, call, failed>>
  <2>1. Pools' /\ rawCursor' = rawCursor /\ Last(rawPtrs') \in RawAddresses
    BY <1>1, <1>3, <1>4, RawAllocates DEF IInv
  <2>2. \A b \in DOMAIN arrays' : b \in RawAddresses /\ arrays'[b] \in Seq(NodeAddresses)
    BY <1>2, <1>4, <2>1 DEF IInv, Marks, Put
  <2>3. Marks'
    BY <1>1, <1>4, <2>2 DEF IInv, Marks
  <2>4. Nodes'
    BY <1>1, <1>4, NodesStay DEF IInv, nodeVars
  <2>5. CurrentCall'
    BY <1>1, <1>4 DEF IInv, CurrentCall
  <2> QED
    BY <2>1, <2>3, <2>4, <2>5 DEF IInv
<1>5. CASE /\ RawAlloc!AllocateThrows(PtrSize * Len(nodes), PtrSize)
           /\ Throw
           /\ UNCHANGED arrays
  <2>1. Pools'
    BY <1>1, <1>5, RawAllocateThrows DEF IInv
  <2>2. CurrentCall' /\ failed' \in 0 .. MaxFailures /\ pc' # "construct"
    BY <1>1, <1>5, ThrowEnds DEF IInv, Throw
  <2>3. Nodes'
    BY <1>1, <2>2, NodesStay DEF IInv, nodeVars
  <2>4. Marks'
    BY <1>1, <1>5, <2>2 DEF IInv, Marks
  <2> QED
    BY <2>1, <2>2, <2>3, <2>4 DEF IInv
<1> QED
  BY <1>4, <1>5 DEF NewList

(* A count of nodes of the table is within its capacity.                   *)
LEMMA CountsAreSmall ==
  ASSUME IInv, NEW S \in SUBSET DOMAIN nodePtrs
  PROVE  IsFiniteSet(S) /\ Cardinality(S) \in 0 .. NodeNObjs
<1>1. DOMAIN nodePtrs = 1 .. Len(nodePtrs) /\ Len(nodePtrs) \in Nat /\ Len(nodePtrs) <= NodeNObjs
  BY Facts DEF IInv, Pools, Sound
<1>2. IsFiniteSet(DOMAIN nodePtrs) /\ Cardinality(DOMAIN nodePtrs) = Len(nodePtrs)
  <2> DEFINE n == Len(nodePtrs)
  <2>1. IsFiniteSet(1 .. n) /\ Cardinality(1 .. n) = n
    <3>1. n \in Nat /\ 1 \in Int /\ n \in Int
      BY <1>1
    <3> HIDE DEF n
    <3>2. Cardinality(1 .. n) = IF 1 > n THEN 0 ELSE n - 1 + 1
      BY <3>1, FS_Interval
    <3> QED
      BY <3>1, <3>2, FS_Interval
  <2> QED
    BY <1>1, <2>1
<1>3. IsFiniteSet(S) /\ Cardinality(S) <= Len(nodePtrs) /\ Cardinality(S) \in Nat
  BY <1>2, FS_Subset, FS_CardinalityType
<1> QED
  BY <1>1, <1>3, ASTAssumption

LEMMA RootNodePreserves ==
  ASSUME IInv, NEW a \in DOMAIN heap \cup Strangers, RootNode(a)
  PROVE  IInv'
<1>1. /\ Idle /\ failed < MaxFailures
      /\ UNCHANGED <<nodeVars, rawVars, heap, arrays>>
  BY DEF RootNode
<1>2. Pools'
  BY <1>1 DEF IInv, Pools, nodeVars, rawVars
<1>3. CASE /\ NodeAlloc!Find(a)
           /\ root' = a
           /\ counted' = Cardinality(CountedNodes)
           /\ UNCHANGED <<pc, call, failed>>
  <2>1. a \in Nat
    BY Facts, ASTAssumption
  <2>2. PICK i \in 1 .. Len(nodePtrs) : nodePtrs[i] = a
    BY <1>3, <2>1, KnownAreNodes DEF IInv
  <2>3. a \in NodeAddresses
    BY <2>2, TableOfNodes DEF IInv, Pools
  <2>4. Cardinality(CountedNodes) \in 0 .. NodeNObjs
    BY CountsAreSmall DEF CountedNodes
  <2>5. Marks'
    BY <1>1, <1>3, <2>3, <2>4 DEF IInv, Marks
  <2>6. Nodes'
    BY <1>1, <1>3, NodesStay DEF IInv, nodeVars, Idle
  <2>7. CurrentCall'
    BY <1>1, <1>3 DEF IInv, CurrentCall, Idle
  <2> QED
    BY <1>2, <2>5, <2>6, <2>7 DEF IInv
<1>4. CASE Throw /\ UNCHANGED <<root, counted>>
  <2>1. CurrentCall' /\ failed' \in 0 .. MaxFailures /\ pc' # "construct"
    BY <1>1, <1>4, ThrowEnds DEF IInv, Throw
  <2>2. Nodes'
    BY <1>1, <2>1, NodesStay DEF IInv, nodeVars, Idle
  <2>3. Marks'
    BY <1>1, <1>4, <2>1 DEF IInv, Marks
  <2> QED
    BY <1>2, <2>1, <2>2, <2>3 DEF IInv
<1> QED
  BY <1>3, <1>4 DEF RootNode

LEMMA CloseRawPreserves ==
  ASSUME IInv, CloseRaw
  PROVE  IInv'
<1>1. /\ Idle /\ UNCHANGED <<nodeVars, heap, arrays, pc, call, root, counted, failed>>
      /\ rawCursor' = 0 /\ rawRaised' = "none" /\ UNCHANGED <<rawPtr, rawPtrs, rawMade>>
  BY DEF CloseRaw, RawAlloc!Destroy
<1>2. Pools'
  BY <1>1 DEF IInv, Pools, nodeVars, RawAlloc!Exceptions
<1>3. Nodes'
  BY <1>1, NodesStay DEF IInv, nodeVars, Idle
<1>4. CurrentCall' /\ Marks'
  BY <1>1 DEF IInv, CurrentCall, Marks, Idle
<1> QED
  BY <1>2, <1>3, <1>4 DEF IInv

LEMMA CloseNodesPreserves ==
  ASSUME IInv, CloseNodes
  PROVE  IInv'
<1>1. /\ rawCursor # -1 /\ nodeCursor = -1 /\ nodeCursor' = Len(nodePtrs) /\ nodeRaised' = "none"
      /\ UNCHANGED <<nodePtr, nodePtrs, nodeMade, rawVars, heap, arrays, pc, call, root,
                    counted, failed>>
  BY DEF CloseNodes, RawAlloc!Open, NodeAlloc!Destroy, NodeAlloc!Open, NodeAlloc!NPtrs
<1>2. pc = "idle" /\ Len(nodePtrs) \in Nat
  BY <1>1, Facts DEF IInv, CurrentCall
<1>3. Pools'
  BY <1>1, <1>2 DEF IInv, Pools, rawVars, NodeAlloc!Exceptions
<1>4. NMade' = NMade
  BY <1>1, <1>2 DEF NMade
<1>5. Nodes'
  BY <1>1, <1>2, <1>4 DEF IInv, Nodes
<1>6. CurrentCall' /\ Marks'
  BY <1>1, <1>2 DEF IInv, CurrentCall, Marks
<1> QED
  BY <1>3, <1>5, <1>6 DEF IInv

(* The destructor takes the last of the nodes that are left.               *)
LEMMA Destroys ==
  ASSUME IInv, DestroyNode
  PROVE  \E n \in Nat :
           /\ NMade = n + 1 /\ NMade' = n /\ nodeCursor = n + 1 /\ pc = "idle"
           /\ nodePtrs' = nodePtrs /\ heap' = Restrict(heap, DOMAIN heap \ {nodePtrs[n + 1]})
           /\ Lists(heap, nodePtrs, n + 1)
           /\ \A i \in 1 .. n : nodePtrs[i] # nodePtrs[n + 1]
<1>1. /\ nodeCursor > 0 /\ nodeCursor' = nodeCursor - 1
      /\ UNCHANGED <<nodePtr, nodePtrs, nodeMade, nodeRaised>>
      /\ heap' = Restrict(heap, DOMAIN heap \ {nodePtrs[nodeCursor]})
      /\ UNCHANGED <<rawVars, arrays, pc, call, root, counted, failed>>
  BY DEF DestroyNode, NodeAlloc!DestroyNext
<1>2. nodeCursor \in -1 .. Len(nodePtrs) /\ Len(nodePtrs) \in Nat
  BY Facts DEF IInv, Pools
<1>3. PICK n \in Nat : nodeCursor = n + 1
  <2>1. nodeCursor - 1 \in Nat
    BY <1>1, <1>2
  <2> QED
    BY <1>2, <2>1
<1>4. pc = "idle"
  BY <1>3 DEF IInv, CurrentCall
<1>5. NMade = n + 1 /\ NMade' = n
  BY <1>1, <1>3 DEF NMade
<1>6. Lists(heap, nodePtrs, n + 1)
  BY <1>5 DEF IInv, Nodes
<1>7. \A i \in 1 .. n : nodePtrs[i] # nodePtrs[n + 1]
  <2>1. \A i \in 1 .. n : i \in 1 .. Len(nodePtrs) /\ n + 1 \in 1 .. Len(nodePtrs) /\ i # n + 1
    BY <1>2, <1>3
  <2> QED
    BY <2>1, Facts
<1> QED
  BY <1>1, <1>3, <1>4, <1>5, <1>6, <1>7

LEMMA DestroyNodePreserves ==
  ASSUME IInv, DestroyNode
  PROVE  IInv'
<1>1. /\ nodeCursor > 0 /\ nodeCursor' = nodeCursor - 1
      /\ UNCHANGED <<nodePtr, nodePtrs, nodeMade, nodeRaised>>
      /\ UNCHANGED <<rawVars, arrays, pc, call, root, counted, failed>>
  BY DEF DestroyNode, NodeAlloc!DestroyNext
<1>2. PICK n \in Nat :
        /\ NMade' = n /\ nodeCursor = n + 1 /\ pc = "idle"
        /\ heap' = Restrict(heap, DOMAIN heap \ {nodePtrs[n + 1]})
        /\ Lists(heap, nodePtrs, n + 1)
        /\ \A i \in 1 .. n : nodePtrs[i] # nodePtrs[n + 1]
  BY Destroys
<1>3. Lists(heap', nodePtrs, n)
  BY <1>2, ListsOneFewer
<1>4. Nodes'
  BY <1>1, <1>2, <1>3 DEF Nodes
<1>5. Pools'
  <2>1. nodeCursor' \in -1 .. Len(nodePtrs)
    BY <1>1, <1>2, Facts DEF IInv, Pools
  <2> QED
    BY <1>1, <1>2, <2>1 DEF IInv, Pools, rawVars
<1>6. CurrentCall' /\ Marks'
  BY <1>1, <1>2 DEF IInv, CurrentCall, Marks
<1> QED
  BY <1>4, <1>5, <1>6 DEF IInv

LEMMA StutterPreserves == IInv /\ UNCHANGED vars => IInv'
<1> SUFFICES ASSUME IInv, UNCHANGED vars  PROVE IInv'
  OBVIOUS
<1>1. NMade' = NMade
  BY DEF NMade, vars, nodeVars
<1> QED
  BY <1>1 DEF IInv, Pools, Nodes, CurrentCall, Marks, vars, nodeVars, rawVars

LEMMA NextPreserves == IInv /\ [Next]_vars => IInv'
<1> SUFFICES ASSUME IInv, [Next]_vars  PROVE IInv'
  OBVIOUS
<1>1. ASSUME NEW kind \in Kinds, Call(kind)  PROVE IInv'
  BY <1>1, CallPreserves
<1>2. ASSUME NEW i \in DOMAIN call.args, AllocArg(i)  PROVE IInv'
  BY <1>2, AllocArgPreserves
<1>3. CASE AllocNode
  BY <1>3, AllocNodePreserves
<1>4. CASE Construct
  BY <1>4, ConstructPreserves
<1>5. CASE ConstructThrows
  BY <1>5, ConstructThrowsPreserves
<1>6. ASSUME NEW nodes \in SeqOf(DOMAIN heap, MaxList), NewList(nodes)  PROVE IInv'
  BY <1>6, NewListPreserves
<1>7. ASSUME NEW a \in DOMAIN heap \cup Strangers, RootNode(a)  PROVE IInv'
  BY <1>7, RootNodePreserves
<1>8. CASE CloseRaw
  BY <1>8, CloseRawPreserves
<1>9. CASE CloseNodes
  BY <1>9, CloseNodesPreserves
<1>10. CASE DestroyNode
  BY <1>10, DestroyNodePreserves
<1>11. CASE UNCHANGED vars
  BY <1>11, StutterPreserves
<1> QED
  BY <1>1, <1>2, <1>3, <1>4, <1>5, <1>6, <1>7, <1>8, <1>9, <1>10, <1>11 DEF Next

(* The strengthened invariant holds in every reachable state.              *)
THEOREM Invariance == Spec => []IInv
BY InitEstablishes, NextPreserves, PTL DEF Spec

-----------------------------------------------------------------------------
LEMMA HeapIsTyped == IInv => TypeOK
<1> SUFFICES ASSUME IInv  PROVE TypeOK
  OBVIOUS
<1>1. NodeAlloc!TypeOK /\ RawAlloc!TypeOK
  <2>1. NodeAlloc!Extents = Extents /\ RawAlloc!Extents = Extents
    BY DEF NodeAlloc!Extents, RawAlloc!Extents, Extents,
           NodeAlloc!Alignments, RawAlloc!Alignments, Alignments
  <2>2. Len(rawPtrs) \in Nat
    BY ObjectsAre DEF IInv, Pools
  <2>3. NodeAlloc!TypeOK
    BY <2>1 DEF IInv, Pools, Sound, NodeAlloc!TypeOK
  <2>4. RawAlloc!TypeOK
    BY <2>1, <2>2 DEF IInv, Pools, Sound, RawAlloc!TypeOK
  <2> QED
    BY <2>3, <2>4
<1>2. \A a \in DOMAIN heap :
        /\ heap[a].kind \in Kinds
        /\ DOMAIN heap[a].args = DOMAIN Params[heap[a].kind]
        /\ \A g \in Range(heap[a].args) : IsResult(g)
  BY DEF IInv, Nodes, Lists, IsNode
<1>3. /\ pc \in {"idle", "args", "construct"}
      /\ pc = "idle" <=> call = NoCall
      /\ \A g \in Range(call.got) : IsResult(g)
  <2>1. CASE pc = "idle"
    BY <2>1 DEF IInv, CurrentCall, NoCall, Range
  <2>2. CASE pc # "idle"
    <3>1. IsCall(call, DOMAIN heap, arrays)
      BY <2>2 DEF IInv, CurrentCall
    <3>2. call.kind # "none"
      BY <3>1, ASTAssumption DEF IsCall
    <3> QED
      BY <2>2, <3>1, <3>2 DEF IInv, CurrentCall, IsCall, NoCall, Range
  <2> QED
    BY <2>1, <2>2
<1> QED
  BY <1>1, <1>2, <1>3, Facts DEF IInv, Marks, TypeOK

(* The place of a node is where the table has it: nowhere else.            *)
LEMMA PlaceIs ==
  ASSUME IInv, NEW i \in 1 .. Len(nodePtrs)
  PROVE  Place(nodePtrs[i]) = i
<1>1. DOMAIN nodePtrs = 1 .. Len(nodePtrs)
  BY TableOfNodes DEF IInv, Pools
<1>2. \A j \in DOMAIN nodePtrs : nodePtrs[j] = nodePtrs[i] => j = i
  BY <1>1, Facts
<1> QED
  BY <1>1, <1>2 DEF Place

(* What a node refers to are nodes before it in the table.                 *)
LEMMA KidsOf ==
  ASSUME IInv, NEW i \in 1 .. NMade
  PROVE  Kids(nodePtrs[i]) \subseteq {nodePtrs[j] : j \in 1 .. i - 1}
BY DEF IInv, Nodes, Lists, IsNode, Kids, ArgsOf

LEMMA KidsComeFirst == IInv => KidsAreOlder
<1> SUFFICES ASSUME IInv, NEW a \in DOMAIN heap, NEW b \in Kids(a)
             PROVE  b \in DOMAIN heap /\ Place(b) < Place(a)
  BY DEF KidsAreOlder
<1>1. DOMAIN heap = {nodePtrs[i] : i \in 1 .. NMade} /\ NMade \in 0 .. Len(nodePtrs)
      /\ Len(nodePtrs) \in Nat
  BY Facts DEF IInv, Nodes, Lists
<1>2. PICK i \in 1 .. NMade : a = nodePtrs[i]
  BY <1>1
<1>3. PICK j \in 1 .. i - 1 : b = nodePtrs[j]
  BY <1>2, KidsOf
<1>4. j \in 1 .. NMade /\ j \in 1 .. Len(nodePtrs) /\ i \in 1 .. Len(nodePtrs) /\ j < i
  BY <1>1
<1>5. Place(a) = i /\ Place(b) = j
  BY <1>2, <1>3, <1>4, PlaceIs
<1> QED
  BY <1>1, <1>3, <1>4, <1>5

LEMMA TableLists == IInv => TableIsHeap
<1> SUFFICES ASSUME IInv, Idle \/ nodeCursor >= 0
             PROVE  DOMAIN heap = {nodePtrs[i] : i \in IF nodeCursor >= 0 THEN 1 .. nodeCursor
                                                                         ELSE DOMAIN nodePtrs}
  BY DEF TableIsHeap
<1>1. DOMAIN heap = {nodePtrs[i] : i \in 1 .. NMade}
  BY DEF IInv, Nodes, Lists
<1>2. DOMAIN nodePtrs = 1 .. Len(nodePtrs)
  BY TableOfNodes DEF IInv, Pools
<1>3. CASE nodeCursor >= 0
  BY <1>1, <1>3 DEF NMade
<1>4. CASE ~(nodeCursor >= 0)
  BY <1>1, <1>2, <1>4 DEF NMade, Idle
<1> QED
  BY <1>3, <1>4

(* In every AST the references of the nodes are to live, older nodes of the*)
(* same AST, and the table lists the constructed nodes and nothing else,   *)
(* whichever calls of new_<class>, new_list and root_node return or throw, *)
(* and at every step of the destructor.                                    *)
THEOREM HeapStaysRight == Spec => []HeapIsRight
<1>1. IInv => HeapIsRight
  BY HeapIsTyped, KidsComeFirst, TableLists DEF HeapIsRight
<1> QED
  BY <1>1, Invariance, PTL

-----------------------------------------------------------------------------
(* Every other step leaves the constructed nodes, and their places, as they*)
(* are.                                                                    *)
LEMMA OthersKeepNodes ==
  ASSUME IInv, [Next]_vars, ~Construct, ~DestroyNode
  PROVE  /\ heap' = heap /\ NMade' = NMade
         /\ \A i \in 1 .. NMade : nodePtrs'[i] = nodePtrs[i]
         /\ nodeCursor' = nodeCursor \/ (nodeCursor = -1 /\ nodeCursor' # -1)
<1>0. Len(nodePtrs) \in Nat /\ NMade \in 0 .. Len(nodePtrs)
  BY Facts
<1>1. ASSUME NEW kind \in Kinds, Call(kind)
      PROVE  /\ UNCHANGED <<heap, nodePtrs, nodeCursor>> /\ pc # "construct" /\ pc' # "construct"
  BY <1>1 DEF Call, Idle, nodeVars
<1>2. ASSUME NEW i, AllocArg(i)
      PROVE  /\ UNCHANGED <<heap, nodePtrs, nodeCursor>> /\ pc # "construct" /\ pc' # "construct"
  <2>1. /\ pc = "args" /\ i \in DOMAIN call.args /\ UNCHANGED <<nodeVars, heap>>
    BY <1>2 DEF AllocArg
  <2>2. IsCall(call, DOMAIN heap, arrays)
    BY <2>1 DEF IInv, CurrentCall
  <2>3. Params[call.kind][i].is \in {"node", "list", "str", "val"}
    BY <2>1, <2>2, ASTAssumption DEF IsCall
  <2>4. pc' = pc \/ pc' = "idle"
    BY <1>2, <2>3 DEF AllocArg, AllocNodeArg, AllocListArg, AllocStrArg, CopyToRaw, Got, Throw
  <2> QED
    BY <2>1, <2>4 DEF nodeVars
<1>3. ASSUME NEW nodes, NewList(nodes)
      PROVE  /\ UNCHANGED <<heap, nodePtrs, nodeCursor>> /\ pc # "construct" /\ pc' # "construct"
  BY <1>3 DEF NewList, Idle, Throw, nodeVars
<1>4. ASSUME NEW a, RootNode(a)
      PROVE  /\ UNCHANGED <<heap, nodePtrs, nodeCursor>> /\ pc # "construct" /\ pc' # "construct"
  BY <1>4 DEF RootNode, Idle, Throw, nodeVars
<1>5. CASE CloseRaw
  BY <1>5 DEF CloseRaw, NMade, nodeVars
<1>6. CASE UNCHANGED vars
  BY <1>6 DEF NMade, vars, nodeVars
<1>7. CASE AllocNode
  <2>1. pc = "args" /\ heap' = heap
    BY <1>7 DEF AllocNode
  <2>2. CASE /\ NodeAlloc!Allocate(NodeSize[call.kind], PtrSize)
             /\ pc' = "construct"
    <3>1. NodeSize[call.kind] \in Nat /\ PtrSize \in NodeAlloc!Alignments
      BY <2>1, RawRequests, ASTAssumption DEF IInv, CurrentCall, IsCall
    <3>2. /\ Len(nodePtrs') = Len(nodePtrs) + 1
          /\ \A i \in 1 .. Len(nodePtrs) : nodePtrs'[i] = nodePtrs[i]
          /\ nodeCursor' = -1 /\ nodeCursor = -1
      BY <2>2, <3>1, NodeGrows DEF IInv
    <3> QED
      BY <1>0, <2>1, <2>2, <3>2 DEF NMade
  <2>3. CASE NodeAlloc!AllocateThrows(NodeSize[call.kind], PtrSize) /\ Throw
    BY <2>1, <2>3 DEF NodeAlloc!AllocateThrows, Throw, NMade
  <2> QED
    BY <1>7, <2>2, <2>3 DEF AllocNode
<1>8. CASE ConstructThrows
  <2>1. pc = "construct" /\ pc' = "idle" /\ heap' = heap /\ NodeAlloc!Rollback(Last(nodePtrs))
    BY <1>8 DEF ConstructThrows, Throw
  <2>2. /\ Len(nodePtrs') = Len(nodePtrs) - 1
        /\ \A i \in 1 .. Len(nodePtrs) - 1 : nodePtrs'[i] = nodePtrs[i]
        /\ nodeCursor' = -1 /\ nodeCursor = -1
    BY <2>1, NodeShrinks DEF IInv
  <2> QED
    BY <1>0, <2>1, <2>2 DEF NMade
<1>9. CASE CloseNodes
  <2>1. /\ nodeCursor = -1 /\ nodeCursor' = Len(nodePtrs) /\ UNCHANGED <<nodePtrs, heap, pc>>
        /\ rawCursor # -1
    BY <1>9 DEF CloseNodes, RawAlloc!Open, NodeAlloc!Destroy, NodeAlloc!Open, NodeAlloc!NPtrs
  <2>2. pc = "idle"
    BY <2>1 DEF IInv, CurrentCall
  <2> QED
    BY <1>0, <2>1, <2>2 DEF NMade
<1>10. ASSUME UNCHANGED <<heap, nodePtrs, nodeCursor>>, pc # "construct", pc' # "construct"
       PROVE  NMade' = NMade
  BY <1>10 DEF NMade
<1> QED
  BY <1>1, <1>2, <1>3, <1>4, <1>5, <1>6, <1>7, <1>8, <1>9, <1>10 DEF Next

-----------------------------------------------------------------------------
(* The first n nodes of the table t, as a sequence without addresses.      *)
KidsIn(h, a) == UNION {Range(g.kids) : g \in Range(h[a].args)}

ViewOf(h, t, i) ==
  [kind |-> h[t[i]].kind, kids |-> {j \in 1 .. i - 1 : t[j] \in KidsIn(h, t[i])}]

View(h, t, n) == [i \in 1 .. n |-> ViewOf(h, t, i)]

LEMMA ViewIsSeq ==
  ASSUME NEW h, NEW t, NEW n \in Nat, Lists(h, t, n)
  PROVE  /\ \A i \in 1 .. n : ViewOf(h, t, i) \in [kind : Kinds, kids : SUBSET (1 .. i - 1)]
         /\ View(h, t, n) \in Seq([kind : Kinds, kids : SUBSET (1 .. n)])
         /\ Len(View(h, t, n)) = n
<1>1. ASSUME NEW i \in 1 .. n
      PROVE  ViewOf(h, t, i) \in [kind : Kinds, kids : SUBSET (1 .. i - 1)]
  <2>1. h[t[i]].kind \in Kinds
    BY DEF Lists, IsNode
  <2> QED
    BY <2>1 DEF ViewOf
<1>2. ASSUME NEW i \in 1 .. n
      PROVE  ViewOf(h, t, i) \in [kind : Kinds, kids : SUBSET (1 .. n)]
  <2>1. 1 .. i - 1 \subseteq 1 .. n
    OBVIOUS
  <2> QED
    BY <1>1, <2>1
<1>3. View(h, t, n) \in [1 .. n -> [kind : Kinds, kids : SUBSET (1 .. n)]]
  BY <1>2 DEF View
<1>4. Len(View(h, t, n)) = n
  BY DEF View
<1>5. \A S : \A f \in [1 .. n -> S] : f \in Seq(S)
  OBVIOUS
<1>6. View(h, t, n) \in Seq([kind : Kinds, kids : SUBSET (1 .. n)])
  BY <1>3, <1>5, Zenon
<1> QED
  BY <1>1, <1>4, <1>6

(* The heap has as many nodes as it lists.                                 *)
LEMMA HeapCount ==
  ASSUME NEW h, NEW t, NEW n \in Nat, Lists(h, t, n),
         \A i, j \in 1 .. n : t[i] = t[j] => i = j
  PROVE  IsFiniteSet(DOMAIN h) /\ Cardinality(DOMAIN h) = n
<1> DEFINE f == [i \in 1 .. n |-> t[i]]
<1>1. DOMAIN h = {t[i] : i \in 1 .. n}
  BY DEF Lists
<1>2. f \in Bijection(1 .. n, DOMAIN h)
  BY <1>1 DEF Bijection, Injection, Surjection, IsInjective
<1>3. IsFiniteSet(1 .. n) /\ Cardinality(1 .. n) = n
  <2>1. 1 \in Int /\ n \in Int
    OBVIOUS
  <2> QED
    BY <2>1, FS_Interval
<1>4. ExistsBijection(1 .. n, DOMAIN h)
  BY <1>2 DEF ExistsBijection
<1> QED
  BY <1>3, <1>4, FS_Bijection

(* What the view of a heap does when the table grows behind it, when a node*)
(* is constructed, and when one is destroyed.                              *)
LEMMA ViewOfPrefix ==
  ASSUME NEW h, NEW t, NEW t2, NEW n \in Nat, \A i \in 1 .. n : t2[i] = t[i]
  PROVE  View(h, t2, n) = View(h, t, n)
<1>1. ASSUME NEW i \in 1 .. n  PROVE ViewOf(h, t2, i) = ViewOf(h, t, i)
  <2>1. \A j \in 1 .. i - 1 : t2[j] = t[j]
    OBVIOUS
  <2>2. t2[i] = t[i]
    OBVIOUS
  <2> QED
    BY <2>1, <2>2 DEF ViewOf
<1> QED
  BY <1>1 DEF View

LEMMA ViewOfSame ==
  ASSUME NEW h, NEW h2, NEW t, NEW n \in Nat, \A i \in 1 .. n : h2[t[i]] = h[t[i]]
  PROVE  View(h2, t, n) = View(h, t, n)
<1>1. ASSUME NEW i \in 1 .. n  PROVE ViewOf(h2, t, i) = ViewOf(h, t, i)
  BY DEF ViewOf, KidsIn
<1> QED
  BY <1>1 DEF View

LEMMA ViewOneMore ==
  ASSUME NEW h, NEW t, NEW n \in Nat, Lists(h, t, n),
         \A i \in 1 .. n : t[i] # t[n + 1], NEW x, IsNode(x, t, n + 1)
  PROVE  LET h2 == Put(h, t[n + 1], x)
             v  == View(h, t, n)
             v2 == View(h2, t, n + 1)
         IN  /\ Len(v) = n /\ Len(v2) = n + 1
             /\ v2 = Append(v, v2[n + 1])
             /\ v2[n + 1] \in [kind : Kinds, kids : SUBSET (1 .. n)]
<1> DEFINE h2 == Put(h, t[n + 1], x)
           v  == View(h, t, n)
           v2 == View(h2, t, n + 1)
<1>1. Lists(h2, t, n + 1)
  BY ListsOneMore
<1>2. Len(v) = n /\ v \in Seq([kind : Kinds, kids : SUBSET (1 .. n)])
  BY ViewIsSeq
<1>3. /\ Len(v2) = n + 1
      /\ ViewOf(h2, t, n + 1) \in [kind : Kinds, kids : SUBSET (1 .. n + 1 - 1)]
  <2> HIDE DEF h2
  <2>1. n + 1 \in Nat /\ n + 1 \in 1 .. n + 1
    OBVIOUS
  <2>2. \A i \in 1 .. n + 1 : ViewOf(h2, t, i) \in [kind : Kinds, kids : SUBSET (1 .. i - 1)]
    BY <1>1, <2>1, ViewIsSeq
  <2>3. Len(v2) = n + 1
    BY <1>1, <2>1, ViewIsSeq
  <2> HIDE DEF v2
  <2> QED
    BY <2>1, <2>2, <2>3
<1>4. \A i \in 1 .. n + 1 : v2[i] = ViewOf(h2, t, i)
  BY DEF View
<1>5. \A i \in 1 .. n : h2[t[i]] = h[t[i]]
  BY DEF Put, Lists
<1>6. View(h2, t, n) = v
  <2> HIDE DEF h2
  <2> QED
    BY <1>5, ViewOfSame
<1>7. \A i \in 1 .. n : v[i] = v2[i]
  <2>1. \A i \in 1 .. n : View(h2, t, n)[i] = ViewOf(h2, t, i)
    BY DEF View
  <2>2. \A i \in 1 .. n : i \in 1 .. n + 1
    OBVIOUS
  <2> HIDE DEF v, v2, h2
  <2> QED
    BY <1>4, <1>6, <2>1, <2>2
<1>8. v2[n + 1] \in [kind : Kinds, kids : SUBSET (1 .. n)]
  <2>1. n + 1 - 1 = n /\ n + 1 \in 1 .. n + 1
    OBVIOUS
  <2> HIDE DEF v, v2, h2
  <2> QED
    BY <1>3, <1>4, <2>1
<1>9. v2 = [i \in 1 .. n + 1 |-> v2[i]]
  BY DEF View
<1>10. v2 = Append(v, v2[n + 1])
  <2> DEFINE T == [kind : Kinds, kids : SUBSET (1 .. n)]
  <2> HIDE DEF v, v2, h2, T
  <2>1. v \in Seq(T) /\ v2[n + 1] \in T
    BY <1>2, <1>8 DEF T
  <2>2. \A i \in 1 .. n : v2[i] \in T
    BY <1>2, <1>7, <2>1
  <2>3. v2 \in [1 .. n + 1 -> T]
    <3>1. \A i \in 1 .. n + 1 : i = n + 1 \/ i \in 1 .. n
      OBVIOUS
    <3> QED
      BY <1>9, <2>1, <2>2, <3>1
  <2>4. v2 \in Seq(T)
    BY <2>3
  <2>5. /\ Append(v, v2[n + 1]) \in Seq(T) /\ Len(Append(v, v2[n + 1])) = n + 1
        /\ \A i \in 1 .. n : Append(v, v2[n + 1])[i] = v[i]
        /\ Append(v, v2[n + 1])[n + 1] = v2[n + 1]
    BY <1>2, <2>1, AppendProperties
  <2>6. \A i \in 1 .. n + 1 : v2[i] = Append(v, v2[n + 1])[i]
    <3>1. \A i \in 1 .. n + 1 : i = n + 1 \/ i \in 1 .. n
      OBVIOUS
    <3> QED
      BY <1>7, <2>5, <3>1
  <2> QED
    BY <1>3, <2>4, <2>5, <2>6, SeqEqual
<1> QED
  BY <1>2, <1>3, <1>8, <1>10

LEMMA ViewOneFewer ==
  ASSUME NEW h, NEW t, NEW n \in Nat, Lists(h, t, n + 1), \A i \in 1 .. n : t[i] # t[n + 1]
  PROVE  LET h2 == Restrict(h, DOMAIN h \ {t[n + 1]})
             v  == View(h, t, n + 1)
         IN  Len(v) = n + 1 /\ View(h2, t, n) = SubSeq(v, 1, n)
<1> DEFINE h2 == Restrict(h, DOMAIN h \ {t[n + 1]})
           v  == View(h, t, n + 1)
           v2 == View(h2, t, n)
<1>1. n + 1 \in Nat /\ \A i \in 1 .. n : i \in 1 .. n + 1
  OBVIOUS
<1>2. Len(v) = n + 1
  BY <1>1, ViewIsSeq
<1>3. \A i \in 1 .. n : h2[t[i]] = h[t[i]]
  BY <1>1 DEF Restrict, Lists
<1>4. v2 = View(h, t, n)
  <2> HIDE DEF h2
  <2> QED
    BY <1>3, ViewOfSame
<1>5. \A i \in 1 .. n : View(h, t, n)[i] = v[i]
  BY <1>1 DEF View
<1>6. View(h, t, n) = [i \in 1 .. n |-> v[i]]
  BY <1>5 DEF View
<1>7. SubSeq(v, 1, n) = [i \in 1 .. n |-> v[i]]
  <2> HIDE DEF v
  <2> QED
    BY <1>1, <1>2
<1> QED
  BY <1>2, <1>4, <1>6, <1>7

(* The heap as ImplementsStore looks at it is its view.                    *)
AsStore == [i \in 1 .. Cardinality(DOMAIN heap) |->
              [kind |-> heap[nodePtrs[i]].kind,
               kids |-> {Place(b) : b \in Kids(nodePtrs[i])}]]

Viewed == AsStore = View(heap, nodePtrs, NMade)

LEMMA ViewIs == IInv => Viewed
<1> SUFFICES ASSUME IInv  PROVE AsStore = View(heap, nodePtrs, NMade)
  BY DEF Viewed
<1>1. /\ Len(nodePtrs) \in Nat /\ NMade \in 0 .. Len(nodePtrs)
      /\ \A i, j \in 1 .. Len(nodePtrs) : nodePtrs[i] = nodePtrs[j] => i = j
  BY Facts
<1>2. NMade \in Nat /\ \A i \in 1 .. NMade : i \in 1 .. Len(nodePtrs)
  BY <1>1
<1>3. Lists(heap, nodePtrs, NMade)
  BY DEF IInv, Nodes
<1>4. Cardinality(DOMAIN heap) = NMade
  BY <1>1, <1>2, <1>3, HeapCount
<1>5. ASSUME NEW i \in 1 .. NMade
      PROVE  [kind |-> heap[nodePtrs[i]].kind, kids |-> {Place(b) : b \in Kids(nodePtrs[i])}]
               = ViewOf(heap, nodePtrs, i)
  <2>1. Kids(nodePtrs[i]) \subseteq {nodePtrs[j] : j \in 1 .. i - 1}
    BY KidsOf
  <2>2. \A j \in 1 .. i - 1 : Place(nodePtrs[j]) = j
    <3>1. \A j \in 1 .. i - 1 : j \in 1 .. Len(nodePtrs)
      BY <1>1
    <3> QED
      BY <3>1, PlaceIs
  <2>3. KidsIn(heap, nodePtrs[i]) = Kids(nodePtrs[i])
    BY DEF KidsIn, Kids, ArgsOf
  <2>4. {Place(b) : b \in Kids(nodePtrs[i])}
          = {j \in 1 .. i - 1 : nodePtrs[j] \in Kids(nodePtrs[i])}
    BY <2>1, <2>2
  <2> QED
    BY <2>3, <2>4 DEF ViewOf
<1> QED
  BY <1>4, <1>5 DEF AsStore, View

LEMMA StoreStarts ==
  ASSUME Init
  PROVE  Store!Init
<1>1. heap = <<>> /\ nodeCursor = -1 /\ DOMAIN heap = {}
  BY DEF Init, NodeAlloc!Init
<1>2. Cardinality(DOMAIN heap) = 0
  BY <1>1, FS_EmptySet
<1>3. AsStore = <<>>
  BY <1>2 DEF AsStore
<1> QED
  BY <1>1, <1>3 DEF Store!Init, AsStore

LEMMA AddSteps ==
  ASSUME NEW v, AsStore = v, Len(v) \in Nat, nodeCursor = -1, nodeCursor' = -1,
         NEW x \in [kind : Kinds, kids : SUBSET (1 .. Len(v))],
         NEW v2, AsStore' = v2, Len(v2) = Len(v) + 1, v2 = Append(v, v2[Len(v) + 1]), x = v2[Len(v) + 1]
  PROVE  Store!Add
BY DEF Store!Add, AsStore

LEMMA DropSteps ==
  ASSUME NEW v, AsStore = v, NEW n \in Nat, Len(v) = n + 1, nodeCursor # -1, nodeCursor' # -1,
         AsStore' = SubSeq(v, 1, n)
  PROVE  Store!Drop
<1>1. Len(v) > 0 /\ Len(v) - 1 = n
  OBVIOUS
<1>2. AsStore' = SubSeq(v, 1, Len(v) - 1)
  BY <1>1
<1> QED
  BY <1>1, <1>2 DEF Store!Drop, AsStore

LEMMA CloseSteps ==
  ASSUME AsStore' = AsStore, nodeCursor = -1, nodeCursor' # -1
  PROVE  Store!Close
BY DEF Store!Close, AsStore

LEMMA StoreStutters ==
  ASSUME AsStore' = AsStore, nodeCursor' = nodeCursor
  PROVE  UNCHANGED Store!vars
BY DEF Store!vars, AsStore

(* Each step of the AST is a step of the store, or none.                   *)
LEMMA StoreSteps ==
  ASSUME IInv, [Next]_vars, Viewed, Viewed'
  PROVE  [Store!Next]_(Store!vars)
<1>1. AsStore = View(heap, nodePtrs, NMade) /\ AsStore' = View(heap', nodePtrs', NMade')
  BY DEF Viewed
<1>2. CASE Construct
  <2>1. PICK n, x :
          /\ n \in Nat
          /\ NMade = n /\ NMade' = n + 1
          /\ nodePtrs' = nodePtrs /\ heap' = Put(heap, nodePtrs[n + 1], x)
          /\ Lists(heap, nodePtrs, n) /\ IsNode(x, nodePtrs, n + 1)
          /\ \A i \in 1 .. n : nodePtrs[i] # nodePtrs[n + 1]
    BY <1>2, Constructs
  <2> DEFINE v == View(heap, nodePtrs, n)
             v2 == View(Put(heap, nodePtrs[n + 1], x), nodePtrs, n + 1)
  <2>2. /\ Len(v) = n /\ Len(v2) = n + 1
        /\ v2 = Append(v, v2[n + 1])
        /\ v2[n + 1] \in [kind : Kinds, kids : SUBSET (1 .. n)]
    BY <2>1, ViewOneMore
  <2>3. AsStore = v /\ AsStore' = v2
    BY <1>1, <2>1
  <2>4. nodeCursor = -1 /\ nodeCursor' = -1
    BY <1>2 DEF IInv, CurrentCall, Construct, nodeVars
  <2> HIDE DEF v, v2
  <2>5. Store!Add
    BY <2>2, <2>3, <2>4, AddSteps
  <2> QED
    BY <2>5 DEF Store!Next
<1>3. CASE DestroyNode
  <2>1. PICK n \in Nat :
          /\ NMade = n + 1 /\ NMade' = n /\ nodeCursor = n + 1
          /\ nodePtrs' = nodePtrs /\ heap' = Restrict(heap, DOMAIN heap \ {nodePtrs[n + 1]})
          /\ Lists(heap, nodePtrs, n + 1)
          /\ \A i \in 1 .. n : nodePtrs[i] # nodePtrs[n + 1]
    BY <1>3, Destroys
  <2> DEFINE v == View(heap, nodePtrs, n + 1)
             v2 == View(Restrict(heap, DOMAIN heap \ {nodePtrs[n + 1]}), nodePtrs, n)
  <2>2. Len(v) = n + 1 /\ v2 = SubSeq(v, 1, n)
    BY <2>1, ViewOneFewer
  <2>3. AsStore = v /\ AsStore' = v2
    BY <1>1, <2>1
  <2>4. nodeCursor # -1 /\ nodeCursor' # -1
    BY <1>3, <2>1 DEF DestroyNode, NodeAlloc!DestroyNext
  <2> HIDE DEF v, v2
  <2>5. Store!Drop
    BY <2>2, <2>3, <2>4, DropSteps
  <2> QED
    BY <2>5 DEF Store!Next
<1>4. CASE ~Construct /\ ~DestroyNode
  <2>1. /\ heap' = heap /\ NMade' = NMade
        /\ \A i \in 1 .. NMade : nodePtrs'[i] = nodePtrs[i]
        /\ nodeCursor' = nodeCursor \/ (nodeCursor = -1 /\ nodeCursor' # -1)
    BY <1>4, OthersKeepNodes
  <2>2. NMade \in Nat
    BY Facts
  <2>3. View(heap, nodePtrs', NMade) = View(heap, nodePtrs, NMade)
    BY <2>1, <2>2, ViewOfPrefix
  <2>4. AsStore' = AsStore
    BY <1>1, <2>1, <2>3
  <2>5. CASE nodeCursor' = nodeCursor
    BY <2>4, <2>5, StoreStutters
  <2>6. CASE nodeCursor = -1 /\ nodeCursor' # -1
    BY <2>4, <2>6, CloseSteps DEF Store!Next
  <2> QED
    BY <2>1, <2>5, <2>6
<1> QED
  BY <1>2, <1>3, <1>4

(* Every AST, without its addresses, is a store of nodes that only grows   *)
(* while it is open, each node referring to older ones, and that loses the *)
(* newest first when it is destroyed: no call that throws takes a node away*)
(* or changes one.                                                         *)
THEOREM StoreRefinement == Spec => ImplementsStore
<1>1. IInv /\ [Next]_vars /\ Viewed /\ Viewed' => [Store!Next]_(Store!vars)
  BY StoreSteps
<1> QED
  BY <1>1, StoreStarts, ViewIs, Invariance, PTL DEF Spec, ImplementsStore, Store!Spec

-----------------------------------------------------------------------------
(* The counted classes among the first k nodes of the table.               *)
CountedIn(h, t, k) == {i \in 1 .. k : h[t[i]].kind \in Counted}

(* The root r was among the first k of the n nodes when these were counted.*)
CountedFor(h, t, n, r, c) ==
  \E k \in 1 .. n : r \in {t[i] : i \in 1 .. k} /\ c = Cardinality(CountedIn(h, t, k))

RootCounted ==
  nodeCursor = -1 /\ root # 0 => CountedFor(heap, nodePtrs, NMade, root, counted)

(* The count stays what it was while the nodes it was taken of stay.       *)
LEMMA CountStays ==
  ASSUME NEW n \in Nat, NEW m \in Nat, n <= m, NEW h, NEW t, NEW h2, NEW t2,
         \A i \in 1 .. n : t2[i] = t[i] /\ h2[t[i]] = h[t[i]]
  PROVE  \A r, c : CountedFor(h, t, n, r, c) => CountedFor(h2, t2, m, r, c)
<1> SUFFICES ASSUME NEW r, NEW c, CountedFor(h, t, n, r, c)  PROVE CountedFor(h2, t2, m, r, c)
  OBVIOUS
<1>1. PICK k \in 1 .. n : r \in {t[i] : i \in 1 .. k} /\ c = Cardinality(CountedIn(h, t, k))
  BY DEF CountedFor
<1>2. k \in 1 .. m /\ \A i \in 1 .. k : i \in 1 .. n
  OBVIOUS
<1>3. CountedIn(h2, t2, k) = CountedIn(h, t, k) /\ r \in {t2[i] : i \in 1 .. k}
  BY <1>1, <1>2 DEF CountedIn
<1> QED
  BY <1>1, <1>2, <1>3 DEF CountedFor

LEMMA RootStaysCounted ==
  ASSUME IInv, [Next]_vars, RootCounted
  PROVE  RootCounted'
<1> SUFFICES ASSUME nodeCursor' = -1, root' # 0
             PROVE  CountedFor(heap', nodePtrs', NMade', root', counted')
  BY DEF RootCounted
<1>0. NMade \in Nat /\ DOMAIN nodePtrs = 1 .. Len(nodePtrs) /\ Len(nodePtrs) \in Nat
  BY Facts, TableOfNodes DEF IInv, Pools
<1>1. ASSUME NEW a \in DOMAIN heap \cup Strangers, RootNode(a), NodeAlloc!Find(a),
             root' = a, counted' = Cardinality(CountedNodes), pc' = pc
      PROVE  CountedFor(heap', nodePtrs', NMade', root', counted')
  <2>1. NMade = Len(nodePtrs) /\ NMade' = NMade /\ nodePtrs' = nodePtrs /\ heap' = heap
    BY <1>1 DEF RootNode, Idle, NodeAlloc!Open, NMade, nodeVars
  <2>2. a \in Nat
    BY Facts, ASTAssumption
  <2>3. PICK i \in 1 .. Len(nodePtrs) : nodePtrs[i] = a
    BY <1>1, <2>2, KnownAreNodes DEF IInv
  <2>4. NMade \in 1 .. NMade
    BY <1>0, <2>1, <2>3
  <2>5. CountedNodes = CountedIn(heap, nodePtrs, NMade)
    BY <1>0, <2>1 DEF CountedNodes, CountedIn
  <2> QED
    BY <1>1, <2>1, <2>3, <2>4, <2>5 DEF CountedFor
<1>2. ASSUME UNCHANGED <<root, counted>>, nodeCursor = -1, NMade' \in Nat, NMade <= NMade',
             \A i \in 1 .. NMade : nodePtrs'[i] = nodePtrs[i] /\ heap'[nodePtrs[i]] = heap[nodePtrs[i]]
      PROVE  CountedFor(heap', nodePtrs', NMade', root', counted')
  <2>1. CountedFor(heap, nodePtrs, NMade, root, counted)
    BY <1>2 DEF RootCounted
  <2>2. \A r, c : CountedFor(heap, nodePtrs, NMade, r, c) => CountedFor(heap', nodePtrs', NMade', r, c)
    BY <1>0, <1>2, CountStays
  <2> QED
    BY <1>2, <2>1, <2>2
<1>3. CASE Construct
  <2>1. PICK n, x :
          /\ n \in Nat
          /\ NMade = n /\ NMade' = n + 1
          /\ nodePtrs' = nodePtrs /\ heap' = Put(heap, nodePtrs[n + 1], x)
          /\ Lists(heap, nodePtrs, n)
          /\ \A i \in 1 .. n : nodePtrs[i] # nodePtrs[n + 1]
    BY <1>3, Constructs
  <2>2. \A i \in 1 .. n : heap'[nodePtrs[i]] = heap[nodePtrs[i]]
    BY <2>1 DEF Lists, Put
  <2>3. UNCHANGED <<root, counted>> /\ nodeCursor = -1
    BY <1>3 DEF Construct, nodeVars
  <2> QED
    BY <1>2, <2>1, <2>2, <2>3
<1>4. CASE DestroyNode
  BY <1>4 DEF DestroyNode, NodeAlloc!DestroyNext, IInv, Pools
<1>5. CASE ~Construct /\ ~DestroyNode
  <2>1. /\ heap' = heap /\ NMade' = NMade
        /\ \A i \in 1 .. NMade : nodePtrs'[i] = nodePtrs[i]
        /\ nodeCursor' = nodeCursor \/ (nodeCursor = -1 /\ nodeCursor' # -1)
    BY <1>5, OthersKeepNodes
  <2>2. ASSUME UNCHANGED <<root, counted>>
        PROVE  CountedFor(heap', nodePtrs', NMade', root', counted')
    BY <1>0, <1>2, <2>1, <2>2
  <2>3. ASSUME NEW a \in DOMAIN heap \cup Strangers, RootNode(a)
        PROVE  CountedFor(heap', nodePtrs', NMade', root', counted')
    BY <1>1, <2>2, <2>3 DEF RootNode
  <2>4. CASE \A a \in DOMAIN heap \cup Strangers : ~RootNode(a)
    <3>1. UNCHANGED <<root, counted>>
      BY <1>5, <2>4 DEF Next, vars, Call, AllocArg, AllocNode, ConstructThrows, NewList,
         CloseRaw, CloseNodes
    <3> QED
      BY <2>2, <3>1
  <2> QED
    BY <2>3, <2>4
<1> QED
  BY <1>3, <1>4, <1>5

(* As many nodes as places are counted.                                    *)
LEMMA PlacesCount ==
  ASSUME NEW S, IsFiniteSet(S), NEW t, \A i, j \in S : t[i] = t[j] => i = j
  PROVE  /\ IsFiniteSet({t[i] : i \in S})
         /\ Cardinality({t[i] : i \in S}) = Cardinality(S)
<1> DEFINE T == {t[i] : i \in S}
           f == [i \in S |-> t[i]]
<1>1. f \in Bijection(S, T)
  BY DEF Bijection, Injection, Surjection, IsInjective
<1>2. ExistsBijection(S, T)
  BY <1>1 DEF ExistsBijection
<1> HIDE DEF T
<1>3. IsFiniteSet(T) /\ Cardinality(T) = Cardinality(S)
  BY <1>2, FS_Bijection
<1> QED
  BY <1>3 DEF T

LEMMA CountIsRight ==
  ASSUME IInv, RootCounted
  PROVE  CountCoversRoot
<1> SUFFICES ASSUME Idle, root # 0
             PROVE  /\ Cardinality({a \in Reachable(root) : heap[a].kind \in Counted}) <= counted
                    /\ counted <= Cardinality(CountedNodes)
  BY DEF CountCoversRoot
<1>1. /\ Len(nodePtrs) \in Nat /\ NMade = Len(nodePtrs) /\ DOMAIN nodePtrs = 1 .. Len(nodePtrs)
      /\ \A i, j \in 1 .. Len(nodePtrs) : nodePtrs[i] = nodePtrs[j] => i = j
  <2>1. NMade = Len(nodePtrs)
    BY DEF Idle, NodeAlloc!Open, NMade
  <2> QED
    BY <2>1, Facts, TableOfNodes DEF IInv, Pools
<1>2. PICK k \in 1 .. Len(nodePtrs) :
        root \in {nodePtrs[i] : i \in 1 .. k} /\ counted = Cardinality(CountedIn(heap, nodePtrs, k))
  BY <1>1 DEF RootCounted, Idle, NodeAlloc!Open, CountedFor
<1>3. \A i \in 1 .. k : i \in 1 .. Len(nodePtrs) /\ i \in 1 .. NMade
  BY <1>1
<1> DEFINE C == CountedIn(heap, nodePtrs, k)
           T == {nodePtrs[i] : i \in C}
           S == {nodePtrs[i] : i \in 1 .. k}
<1>4. C \subseteq CountedNodes /\ C \subseteq 1 .. k
  BY <1>1, <1>3 DEF CountedNodes, CountedIn
<1>5. IsFiniteSet(CountedNodes) /\ IsFiniteSet(C) /\ Cardinality(C) <= Cardinality(CountedNodes)
  <2>1. IsFiniteSet(CountedNodes)
    BY CountsAreSmall DEF CountedNodes
  <2> HIDE DEF C
  <2> QED
    BY <1>4, <2>1, FS_Subset
<1>6. IsFiniteSet(T) /\ Cardinality(T) = Cardinality(C)
  <2>1. \A i, j \in C : nodePtrs[i] = nodePtrs[j] => i = j
    BY <1>1, <1>3, <1>4
  <2> HIDE DEF C
  <2> QED
    BY <1>5, <2>1, PlacesCount
<1>7. Reachable(root) \subseteq S
  <2>1. S \in SUBSET DOMAIN heap
    BY <1>3 DEF IInv, Nodes, Lists
  <2>2. \A c \in S : Kids(c) \subseteq S
    <3>1. ASSUME NEW i \in 1 .. k  PROVE Kids(nodePtrs[i]) \subseteq S
      <4>1. \A j \in 1 .. i - 1 : j \in 1 .. k
        OBVIOUS
      <4> QED
        BY <1>3, <4>1, KidsOf
    <3> HIDE DEF C, T
    <3> QED
      BY <3>1
  <2>3. root \in S
    BY <1>2
  <2> HIDE DEF S
  <2> QED
    BY <2>1, <2>2, <2>3 DEF Reachable
<1> DEFINE R == {a \in Reachable(root) : heap[a].kind \in Counted}
<1>8. R \subseteq T
  BY <1>7 DEF CountedIn
<1>9. Cardinality(R) <= Cardinality(T)
  <2> HIDE DEF R, T
  <2> QED
    BY <1>6, <1>8, FS_Subset
<1>10. /\ Cardinality(R) \in Nat /\ Cardinality(T) \in Nat /\ Cardinality(CountedNodes) \in Nat
  <2> HIDE DEF R, T
  <2>1. IsFiniteSet(R)
    BY <1>6, <1>8, FS_Subset
  <2> QED
    BY <1>5, <1>6, <2>1, FS_CardinalityType
<1> HIDE DEF R, T, C
<1> QED
  BY <1>2, <1>5, <1>6, <1>9, <1>10 DEF C, R

(* Whenever no call is in progress, the count that num_treenode answers    *)
(* covers the tree below the root, also when nodes were made since, and is *)
(* never more than the AST has.                                            *)
THEOREM RootIsCovered == Spec => []CountCoversRoot
<1>1. Init => RootCounted
  BY DEF Init, RootCounted
<1>2. IInv /\ [Next]_vars /\ RootCounted => RootCounted'
  BY RootStaysCounted
<1>3. Spec => []RootCounted
  BY <1>1, <1>2, Invariance, PTL DEF Spec
<1>4. IInv /\ RootCounted => CountCoversRoot
  BY CountIsRight
<1> QED
  BY <1>3, <1>4, Invariance, PTL

-----------------------------------------------------------------------------
(* A finite set of numbers has a largest one: else the function that takes *)
(* each to the next would be an injection that misses the least.           *)
LEMMA LargestMember ==
  ASSUME NEW S \in SUBSET Nat, S # {}, IsFiniteSet(S)
  PROVE  \E x \in S : \A y \in S : x >= y
<1> SUFFICES ASSUME \A x \in S : \E y \in S : y > x  PROVE FALSE
  OBVIOUS
<1> DEFINE f == [x \in S |-> CHOOSE y \in S : y > x /\ \A z \in S : z > x => y <= z]
<1>1. ASSUME NEW x \in S  PROVE f[x] \in S /\ f[x] > x /\ \A z \in S : z > x => f[x] <= z
  <2> DEFINE T == {y \in S : y > x}
  <2>1. T \in SUBSET Nat /\ T # {}
    OBVIOUS
  <2>2. PICK y \in T : \A z \in T : y <= z
    <3> HIDE DEF T
    <3> QED
      BY <2>1, LeastMember
  <2>3. \E y1 \in S : y1 > x /\ \A z \in S : z > x => y1 <= z
    BY <2>2
  <2> QED
    BY <2>3
<1> HIDE DEF f
<1>2. \A x, y \in S : f[x] = f[y] => x = y
  <2>1. ASSUME NEW x \in S, NEW y \in S, x < y  PROVE f[x] # f[y]
    <3>1. f[x] <= y /\ f[y] > y /\ f[x] \in Nat /\ f[y] \in Nat /\ y \in Nat
      BY <1>1, <2>1
    <3> QED
      BY <3>1
  <2>2. \A x, y \in S : x < y \/ y < x \/ x = y
    OBVIOUS
  <2> QED
    BY <2>1, <2>2
<1>3. f \in [S -> S]
  BY <1>1 DEF f
<1>4. f \in Injection(S, S)
  BY <1>2, <1>3 DEF Injection, IsInjective
<1>5. f \in Surjection(S, S)
  BY <1>4, FS_Injection
<1>6. PICK m \in S : \A z \in S : m <= z
  BY LeastMember
<1>7. PICK x \in S : f[x] = m
  BY <1>5 DEF Surjection
<1> QED
  BY <1>1, <1>6, <1>7

(* The most blocks one call can have copied.                               *)
PerCall == Max({Cardinality(RawParams(kind)) : kind \in Kinds})

LEMMA PerCallIsMost ==
  /\ PerCall \in Nat
  /\ \A kind \in Kinds : /\ IsFiniteSet(RawParams(kind))
                         /\ Cardinality(RawParams(kind)) <= PerCall
<1> DEFINE S == {Cardinality(RawParams(kind)) : kind \in Kinds}
<1>1. ASSUME NEW kind \in Kinds
      PROVE  IsFiniteSet(RawParams(kind)) /\ Cardinality(RawParams(kind)) \in Nat
  <2>1. IsFiniteSet(DOMAIN Params[kind]) /\ RawParams(kind) \in SUBSET DOMAIN Params[kind]
    BY ASTAssumption DEF RawParams
  <2> QED
    BY <2>1, FS_Subset, FS_CardinalityType
<1>2. S \in SUBSET Nat /\ S # {} /\ IsFiniteSet(S)
  <2> DEFINE f == [kind \in Kinds |-> Cardinality(RawParams(kind))]
  <2>1. f \in Surjection(Kinds, S)
    BY DEF Surjection
  <2>2. IsFiniteSet(S)
    <3> HIDE DEF f, S
    <3> QED
      BY <2>1, FS_Surjection, ASTAssumption
  <2> QED
    BY <1>1, <2>2, ASTAssumption
<1>3. \E x \in S : \A y \in S : x >= y
  <2> HIDE DEF S
  <2> QED
    BY <1>2, LargestMember
<1>4. PerCall \in S /\ \A y \in S : PerCall >= y
  BY <1>3 DEF PerCall, Max
<1> QED
  BY <1>1, <1>2, <1>4

-----------------------------------------------------------------------------
(* The block of g, if any, is in the table t with extents m, large enough. *)
Holds(g, t, m) == g.at # 0 => \E k \in 1 .. Len(t) : t[k] = g.at /\ m[k].len >= g.need

(* Two results with the same block, which is none of the arrays A.         *)
Shares(g, k, A) == g.at # 0 /\ g.at = k.at /\ g.at \notin A

HeapBlocks(h, t, m, A) ==
  /\ \A a \in DOMAIN h : \A i \in DOMAIN h[a].args : Holds(h[a].args[i], t, m)
  /\ \A a, b \in DOMAIN h : \A i \in DOMAIN h[a].args, j \in DOMAIN h[b].args :
       Shares(h[a].args[i], h[b].args[j], A) => a = b /\ i = j

CallBlocks(c, h, t, m, A) ==
  /\ \A i \in DOMAIN c.got : /\ Holds(c.got[i], t, m)
                             /\ c.got[i].at # 0 => i \in RawParams(c.kind)
  /\ \A i, j \in DOMAIN c.got : Shares(c.got[i], c.got[j], A) => i = j
  /\ \A i \in DOMAIN c.got, a \in DOMAIN h : \A j \in DOMAIN h[a].args :
       ~Shares(c.got[i], h[a].args[j], A)

ArrayBlocks(arrs, t, m) ==
  \A b \in DOMAIN arrs : Holds([at |-> b, need |-> PtrSize * Len(arrs[b])], t, m)

(* The blocks that are used, and those that are lost.                      *)
Ats(f) == {f[i].at : i \in DOMAIN f}
UsedBy(h, c) == (UNION {Ats(h[a].args) : a \in DOMAIN h}) \cup Ats(c.got)
Blocks(t) == {t[i] : i \in 1 .. Len(t)}
Lost(h, c, t, A) == (Blocks(t) \ UsedBy(h, c)) \ A

AreFew(S, f) == IsFiniteSet(S) /\ Cardinality(S) <= f * PerCall

Accounted ==
  /\ HeapBlocks(heap, rawPtrs, rawMade, DOMAIN arrays)
  /\ CallBlocks(call, heap, rawPtrs, rawMade, DOMAIN arrays)
  /\ ArrayBlocks(arrays, rawPtrs, rawMade)
  /\ nodeCursor = -1 => AreFew(Lost(heap, call, rawPtrs, DOMAIN arrays), failed)

LEMMA FewerAreFew ==
  ASSUME NEW S, NEW f \in Nat, AreFew(S, f), NEW T \in SUBSET S
  PROVE  AreFew(T, f)
<1>1. IsFiniteSet(S) /\ Cardinality(S) <= f * PerCall
  BY DEF AreFew
<1>2. IsFiniteSet(T) /\ Cardinality(T) <= Cardinality(S)
  BY <1>1, FS_Subset
<1>3. Cardinality(S) \in Nat /\ Cardinality(T) \in Nat /\ f * PerCall \in Nat
  BY <1>1, <1>2, FS_CardinalityType, PerCallIsMost
<1> DEFINE n == f * PerCall
<1> HIDE DEF n
<1>4. Cardinality(T) <= n
  BY <1>1, <1>2, <1>3 DEF n
<1> QED
  BY <1>2, <1>4 DEF AreFew, n

LEMMA OneCallMore ==
  ASSUME NEW S, NEW f \in Nat, AreFew(S, f), NEW K, IsFiniteSet(K), Cardinality(K) <= PerCall,
         NEW T \in SUBSET (S \cup K)
  PROVE  AreFew(T, f + 1)
<1>1. IsFiniteSet(S) /\ Cardinality(S) <= f * PerCall
  BY DEF AreFew
<1>2. /\ IsFiniteSet(S \cup K)
      /\ Cardinality(S \cup K) = Cardinality(S) + Cardinality(K) - Cardinality(S \cap K)
  BY <1>1, FS_Union
<1>3. IsFiniteSet(S \cap K)
  BY <1>1, FS_Intersection
<1>4. IsFiniteSet(T) /\ Cardinality(T) <= Cardinality(S \cup K)
  BY <1>2, FS_Subset
<1>5. /\ Cardinality(S) \in Nat /\ Cardinality(T) \in Nat /\ Cardinality(K) \in Nat
      /\ Cardinality(S \cap K) \in Nat /\ PerCall \in Nat
  BY <1>1, <1>3, <1>4, FS_CardinalityType, PerCallIsMost
<1>6. \A p \in Nat : f * p \in Nat /\ (f + 1) * p = f * p + p
  OBVIOUS
<1>7. f * PerCall \in Nat /\ (f + 1) * PerCall = f * PerCall + PerCall
  BY <1>5, <1>6
<1> DEFINE n == f * PerCall
           n2 == (f + 1) * PerCall
<1> HIDE DEF n, n2
<1>8. n \in Nat /\ n2 = n + PerCall /\ Cardinality(S) <= n
  BY <1>1, <1>7 DEF n, n2
<1>9. Cardinality(T) <= n2
  BY <1>2, <1>4, <1>5, <1>8
<1> QED
  BY <1>4, <1>9 DEF AreFew, n2

(* The blocks of raw_alloc are apart, and at no null address.              *)
LEMMA TableOfRaw ==
  ASSUME NEW p, NEW t, NEW m, Sound(RawPool, RawPoolSize, p, t, m)
  PROVE  /\ Len(t) \in Nat
         /\ \A i \in 1 .. Len(t) : t[i] \in Nat /\ t[i] # 0
         /\ \A i, j \in 1 .. Len(t) : t[i] = t[j] => i = j
         /\ IsFiniteSet(Blocks(t)) /\ 0 \notin Blocks(t)
<1>1. /\ Len(t) \in Nat
      /\ \A i \in 1 .. Len(t) : t[i] \in Nat /\ m[i].len \in Nat
  BY ObjectsAre
<1>2. \A i \in 1 .. Len(t) : RawPool <= t[i]
  BY DEF Sound
<1>3. \A i \in 1 .. Len(t) : t[i] # 0
  BY <1>1, <1>2, ASTAssumption
<1>4. Increasing(t, Len(t))
  BY SoundIsIncreasing, ASTAssumption
<1>5. \A i, j \in 1 .. Len(t) : i < j => t[i] < t[j]
  BY <1>4 DEF Increasing
<1>6. \A i, j \in 1 .. Len(t) : t[i] = t[j] => i = j
  <2> DEFINE n == Len(t)
  <2> HIDE DEF n
  <2> QED
    BY <1>1, <1>5 DEF n
<1>7. IsFiniteSet(1 .. Len(t))
  <2> DEFINE n == Len(t)
  <2>1. n \in Int /\ 1 \in Int
    BY <1>1
  <2> HIDE DEF n
  <2>2. IsFiniteSet(1 .. n)
    BY <2>1, FS_Interval
  <2> QED
    BY <2>2 DEF n
<1>8. IsFiniteSet(Blocks(t))
  BY <1>6, <1>7, PlacesCount DEF Blocks
<1> QED
  BY <1>1, <1>3, <1>6, <1>8 DEF Blocks

(* A block just allocated is nobody's, and large enough for what was asked.*)
LEMMA FreshBlock ==
  ASSUME Pools, NEW nbytes \in Nat, NEW align \in RawAlloc!Alignments,
         RawAlloc!Allocate(nbytes, align)
  PROVE  /\ \A g : Holds(g, rawPtrs, rawMade) =>
                     Holds(g, rawPtrs', rawMade') /\ g.at # Last(rawPtrs')
         /\ \A g : g.at = Last(rawPtrs') /\ g.need = nbytes => Holds(g, rawPtrs', rawMade')
         /\ Blocks(rawPtrs') = Blocks(rawPtrs) \cup {Last(rawPtrs')}
         /\ Last(rawPtrs') # 0
<1>1. /\ Sound(RawPool, RawPoolSize, rawPtr', rawPtrs', rawMade')
      /\ Len(rawPtrs') = Len(rawPtrs) + 1
      /\ \A i \in 1 .. Len(rawPtrs) : rawPtrs'[i] = rawPtrs[i] /\ rawMade'[i] = rawMade[i]
      /\ rawMade'[Len(rawPtrs) + 1].len >= nbytes
  BY RawGrows
<1>2. Len(rawPtrs) \in Nat
  BY ObjectsAre DEF Pools
<1> DEFINE n == Len(rawPtrs)
           r == Last(rawPtrs')
<1>3. r = rawPtrs'[n + 1] /\ r # 0
  BY <1>1, <1>2, LastOfRaw
<1>4. \A i, j \in 1 .. n + 1 : rawPtrs'[i] = rawPtrs'[j] => i = j
  BY <1>1, TableOfRaw
<1> HIDE DEF n, r
<1>5. /\ n \in Nat /\ n + 1 \in 1 .. n + 1
      /\ \A i \in 1 .. n : i \in 1 .. n + 1 /\ i # n + 1
      /\ \A i \in 1 .. n + 1 : i = n + 1 \/ i \in 1 .. n
  BY <1>2 DEF n
<1>6. /\ Len(rawPtrs') = n + 1 /\ Len(rawPtrs) = n
      /\ \A i \in 1 .. n : rawPtrs'[i] = rawPtrs[i] /\ rawMade'[i] = rawMade[i]
      /\ rawMade'[n + 1].len >= nbytes
  BY <1>1 DEF n
<1>7. ASSUME NEW g, Holds(g, rawPtrs, rawMade)
      PROVE  Holds(g, rawPtrs', rawMade') /\ g.at # r
  <2>1. CASE g.at = 0
    BY <1>3, <2>1 DEF Holds
  <2>2. CASE g.at # 0
    <3>1. PICK k \in 1 .. n : rawPtrs[k] = g.at /\ rawMade[k].len >= g.need
      BY <1>6, <1>7, <2>2 DEF Holds
    <3>2. k \in 1 .. n + 1 /\ rawPtrs'[k] = g.at /\ rawMade'[k].len >= g.need /\ k # n + 1
      BY <1>5, <1>6, <3>1
    <3> QED
      BY <1>3, <1>4, <1>5, <1>6, <3>2 DEF Holds
  <2> QED
    BY <2>1, <2>2
<1>8. \A g : g.at = r /\ g.need = nbytes => Holds(g, rawPtrs', rawMade')
  BY <1>3, <1>5, <1>6 DEF Holds
<1>9. Blocks(rawPtrs') = Blocks(rawPtrs) \cup {r}
  <2>1. /\ Blocks(rawPtrs') = {rawPtrs'[i] : i \in 1 .. n + 1}
        /\ Blocks(rawPtrs) = {rawPtrs[i] : i \in 1 .. n}
    BY <1>6 DEF Blocks
  <2> QED
    BY <1>3, <1>5, <1>6, <2>1
<1> QED
  BY <1>3, <1>7, <1>8, <1>9 DEF r

LEMMA AccountsOpen == Init => Accounted
<1> SUFFICES ASSUME Init  PROVE Accounted
  OBVIOUS
<1>1. heap = <<>> /\ arrays = <<>> /\ call = NoCall /\ failed = 0 /\ rawPtrs = <<>>
  BY DEF Init, RawAlloc!Init
<1>2. DOMAIN <<>> = {} /\ Len(<<>>) = 0 /\ NoCall.got = <<>>
  BY DEF NoCall
<1>3. Lost(heap, call, rawPtrs, DOMAIN arrays) = {}
  BY <1>1, <1>2 DEF Lost, Blocks
<1>4. AreFew({}, 0)
  BY FS_EmptySet, PerCallIsMost DEF AreFew
<1> QED
  BY <1>1, <1>2, <1>3, <1>4 DEF Accounted, HeapBlocks, CallBlocks, ArrayBlocks

(* A step that leaves the blocks and what refers to them as they are.      *)
LEMMA AccountsStay ==
  ASSUME Accounted, UNCHANGED <<heap, arrays, rawPtrs, rawMade, failed>>,
         call' = call \/ (DOMAIN call.got = {} /\ DOMAIN call'.got = {}),
         nodeCursor' = -1 => nodeCursor = -1
  PROVE  Accounted'
<1>1. CASE call' = call
  BY <1>1 DEF Accounted
<1>2. CASE DOMAIN call.got = {} /\ DOMAIN call'.got = {}
  <2>1. CallBlocks(call', heap, rawPtrs, rawMade, DOMAIN arrays)
    BY <1>2 DEF CallBlocks
  <2>2. Lost(heap, call', rawPtrs, DOMAIN arrays) = Lost(heap, call, rawPtrs, DOMAIN arrays)
    BY <1>2 DEF Lost, UsedBy, Ats
  <2> QED
    BY <2>1, <2>2 DEF Accounted
<1> QED
  BY <1>1, <1>2

(* What the call had copied is lost when an exception leaves it.           *)
LEMMA ThrowLoses ==
  ASSUME IInv, Accounted, Throw, UNCHANGED <<heap, arrays, rawPtrs, rawMade, nodeCursor>>
  PROVE  Accounted'
<1>1. call' = NoCall /\ DOMAIN call'.got = {} /\ failed' = failed + 1 /\ failed \in Nat
  BY ASTAssumption DEF Throw, NoCall, IInv, Marks
<1>2. CallBlocks(call', heap, rawPtrs, rawMade, DOMAIN arrays)
  BY <1>1 DEF CallBlocks
<1> DEFINE L == Lost(heap, call, rawPtrs, DOMAIN arrays)
           L2 == Lost(heap, call', rawPtrs, DOMAIN arrays)
           D == {i \in DOMAIN call.got : call.got[i].at # 0}
           K == {call.got[i].at : i \in D}
<1>3. L2 \subseteq L \cup K
  <2>1. 0 \notin Blocks(rawPtrs)
    BY TableOfRaw DEF IInv, Pools
  <2> QED
    BY <2>1 DEF Lost, UsedBy, Ats
<1>4. IsFiniteSet(D) /\ Cardinality(D) <= PerCall
  <2>1. CASE pc = "idle"
    <3>1. D = {}
      BY <2>1 DEF IInv, CurrentCall, NoCall
    <3> HIDE DEF D
    <3> QED
      BY <3>1, FS_EmptySet, PerCallIsMost
  <2>2. CASE pc # "idle"
    <3>1. call.kind \in Kinds
      BY <2>2 DEF IInv, CurrentCall, IsCall
    <3>2. D \in SUBSET RawParams(call.kind)
      BY DEF Accounted, CallBlocks
    <3>3. /\ IsFiniteSet(RawParams(call.kind)) /\ PerCall \in Nat
          /\ Cardinality(RawParams(call.kind)) <= PerCall
      BY <3>1, PerCallIsMost
    <3> HIDE DEF D
    <3>4. IsFiniteSet(D) /\ Cardinality(D) <= Cardinality(RawParams(call.kind))
      BY <3>2, <3>3, FS_Subset
    <3> QED
      BY <3>3, <3>4, FS_CardinalityType
  <2> QED
    BY <2>1, <2>2
<1>5. IsFiniteSet(K) /\ Cardinality(K) <= PerCall
  <2> DEFINE f == [i \in D |-> call.got[i].at]
  <2>1. f \in Surjection(D, K)
    BY DEF Surjection
  <2> HIDE DEF f, D, K
  <2>2. IsFiniteSet(K) /\ Cardinality(K) <= Cardinality(D)
    BY <1>4, <2>1, FS_Surjection
  <2>3. Cardinality(K) \in Nat /\ Cardinality(D) \in Nat /\ PerCall \in Nat
    BY <1>4, <2>2, FS_CardinalityType, PerCallIsMost
  <2> QED
    BY <1>4, <2>2, <2>3
<1>6. ASSUME nodeCursor = -1  PROVE AreFew(L2, failed')
  <2>1. AreFew(L, failed)
    BY <1>6 DEF Accounted
  <2> HIDE DEF L, L2, K, D
  <2> QED
    BY <1>1, <1>3, <1>5, <2>1, OneCallMore
<1> QED
  BY <1>2, <1>6 DEF Accounted

(* The block that alloc_arg gives is its own, or an array of the caller's. *)
LEMMA GotAccounts ==
  ASSUME IInv, Accounted, pc = "args", NEW i \in DOMAIN call.args \ DOMAIN call.got,
         NEW at, NEW kids, NEW need, Got(i, at, kids, need), UNCHANGED <<heap, arrays, nodeCursor>>,
         \A g : Holds(g, rawPtrs, rawMade) =>
                  /\ Holds(g, rawPtrs', rawMade')
                  /\ at # 0 /\ at \notin DOMAIN arrays => g.at # at,
         at # 0 => /\ i \in RawParams(call.kind)
                   /\ \A g : g.at = at /\ g.need = need => Holds(g, rawPtrs', rawMade'),
         Blocks(rawPtrs') \subseteq Blocks(rawPtrs) \cup {at}
  PROVE  Accounted'
<1> DEFINE x == [at |-> at, kids |-> kids, need |-> need]
<1>1. IsCall(call, DOMAIN heap, arrays) /\ call' = [call EXCEPT !.got = Put(call.got, i, x)]
      /\ failed' = failed /\ failed \in Nat
  BY ASTAssumption DEF IInv, CurrentCall, Got, Marks
<1>2. call'.kind = call.kind /\ call'.got = Put(call.got, i, x)
  <2> HIDE DEF x
  <2>1. call' = [kind |-> call.kind, args |-> call.args, got |-> Put(call.got, i, x)]
    BY <1>1 DEF IsCall
  <2> QED
    BY <2>1
<1>3. x.at = at /\ x.need = need
  OBVIOUS
<1> HIDE DEF x
<1>4. /\ DOMAIN call'.got = DOMAIN call.got \cup {i}
      /\ \A j \in DOMAIN call.got : call'.got[j] = call.got[j]
      /\ call'.got[i] = x
  BY <1>2 DEF Put
<1>5. HeapBlocks(heap, rawPtrs', rawMade', DOMAIN arrays) /\ ArrayBlocks(arrays, rawPtrs', rawMade')
  BY DEF Accounted, HeapBlocks, ArrayBlocks
<1>6. CallBlocks(call', heap, rawPtrs', rawMade', DOMAIN arrays)
  <2>1. ASSUME NEW j \in DOMAIN call'.got
        PROVE  /\ Holds(call'.got[j], rawPtrs', rawMade')
               /\ call'.got[j].at # 0 => j \in RawParams(call'.kind)
    <3>1. CASE j = i
      BY <1>2, <1>3, <1>4, <3>1 DEF Holds
    <3>2. CASE j # i
      BY <1>2, <1>4, <3>2 DEF Accounted, CallBlocks
    <3> QED
      BY <3>1, <3>2
  <2>2. ASSUME NEW g, Holds(g, rawPtrs, rawMade)
        PROVE  ~Shares(x, g, DOMAIN arrays) /\ ~Shares(g, x, DOMAIN arrays)
    BY <1>3, <2>2 DEF Shares
  <2>3. ASSUME NEW j \in DOMAIN call'.got, NEW k \in DOMAIN call'.got,
               Shares(call'.got[j], call'.got[k], DOMAIN arrays)
        PROVE  j = k
    <3>1. CASE j \in DOMAIN call.got /\ k \in DOMAIN call.got
      BY <1>4, <2>3, <3>1 DEF Accounted, CallBlocks
    <3>2. CASE j = i /\ k \in DOMAIN call.got
      BY <1>4, <2>2, <2>3, <3>2 DEF Accounted, CallBlocks
    <3>3. CASE j \in DOMAIN call.got /\ k = i
      BY <1>4, <2>2, <2>3, <3>3 DEF Accounted, CallBlocks
    <3> QED
      BY <1>4, <3>1, <3>2, <3>3
  <2>4. ASSUME NEW j \in DOMAIN call'.got, NEW a \in DOMAIN heap, NEW k \in DOMAIN heap[a].args
        PROVE  ~Shares(call'.got[j], heap[a].args[k], DOMAIN arrays)
    <3>1. CASE j = i
      BY <1>4, <2>2, <3>1 DEF Accounted, HeapBlocks
    <3>2. CASE j \in DOMAIN call.got
      BY <1>4, <3>2 DEF Accounted, CallBlocks
    <3> QED
      BY <1>4, <3>1, <3>2
  <2> QED
    BY <2>1, <2>3, <2>4 DEF CallBlocks
<1>7. ASSUME nodeCursor = -1
      PROVE  AreFew(Lost(heap, call', rawPtrs', DOMAIN arrays), failed')
  <2>1. Ats(call'.got) = Ats(call.got) \cup {at}
    BY <1>3, <1>4 DEF Ats
  <2>2. Lost(heap, call', rawPtrs', DOMAIN arrays) \subseteq Lost(heap, call, rawPtrs, DOMAIN arrays)
    BY <2>1 DEF Lost, UsedBy
  <2>3. AreFew(Lost(heap, call, rawPtrs, DOMAIN arrays), failed)
    BY <1>7 DEF Accounted
  <2> QED
    BY <1>1, <2>2, <2>3, FewerAreFew
<1> QED
  BY <1>5, <1>6, <1>7 DEF Accounted

LEMMA CopyAccounts ==
  ASSUME IInv, Accounted, pc = "args", NEW i \in DOMAIN call.args \ DOMAIN call.got,
         i \in RawParams(call.kind), NEW kids,
         NEW nbytes \in Nat, NEW align \in RawAlloc!Alignments,
         CopyToRaw(i, kids, nbytes, align), UNCHANGED <<nodeVars, heap, arrays>>
  PROVE  Accounted'
<1>1. CASE RawAlloc!Allocate(nbytes, align) /\ Got(i, Last(rawPtrs'), kids, nbytes)
  <2>1. /\ \A g : Holds(g, rawPtrs, rawMade) =>
                    Holds(g, rawPtrs', rawMade') /\ g.at # Last(rawPtrs')
        /\ \A g : g.at = Last(rawPtrs') /\ g.need = nbytes => Holds(g, rawPtrs', rawMade')
        /\ Blocks(rawPtrs') = Blocks(rawPtrs) \cup {Last(rawPtrs')}
    BY <1>1, FreshBlock DEF IInv
  <2> QED
    BY <1>1, <2>1, GotAccounts DEF nodeVars
<1>2. CASE RawAlloc!AllocateThrows(nbytes, align) /\ Throw
  BY <1>2, ThrowLoses DEF RawAlloc!AllocateThrows, nodeVars
<1> QED
  BY <1>1, <1>2 DEF CopyToRaw

LEMMA AllocArgAccounts ==
  ASSUME IInv, Accounted, NEW i, AllocArg(i)
  PROVE  Accounted'
<1> DEFINE x == call.args[i]
           is == Params[call.kind][i].is
<1>1. /\ pc = "args" /\ i \in DOMAIN call.args \ DOMAIN call.got
      /\ UNCHANGED <<nodeVars, heap, arrays>>
  BY DEF AllocArg
<1>2. IsCall(call, DOMAIN heap, arrays)
  BY <1>1 DEF IInv, CurrentCall
<1>3. /\ x.nodes \in Seq(Nat) /\ x.len \in Nat
      /\ x.from # 0 => x.from \in DOMAIN arrays /\ x.nodes = arrays[x.from]
  BY <1>1, <1>2 DEF IsCall, IsActual
<1>4. is \in {"node", "list", "str", "val"}
  BY <1>1, <1>2, ASTAssumption DEF IsCall
<1>5. is \in {"str", "list"} => i \in RawParams(call.kind)
  BY <1>1, <1>2 DEF IsCall, RawParams
<1>6. ASSUME Throw, UNCHANGED rawVars  PROVE Accounted'
  BY <1>1, <1>6, ThrowLoses DEF nodeVars, rawVars
<1>7. ASSUME NEW kids, NEW need, Got(i, 0, kids, need), UNCHANGED rawVars  PROVE Accounted'
  <2>1. UNCHANGED <<heap, arrays, nodeCursor, rawPtrs, rawMade>>
    BY <1>1, <1>7 DEF nodeVars, rawVars
  <2> QED
    BY <1>1, <1>7, <2>1, GotAccounts
<1>8. CASE is = "node"
  BY <1>6, <1>7, <1>8 DEF AllocArg, AllocNodeArg
<1>9. CASE is = "list"
  <2>0. AllocListArg(i) /\ i \in RawParams(call.kind)
    BY <1>5, <1>9 DEF AllocArg
  <2>1. PtrSize * Len(x.nodes) \in Nat /\ PtrSize \in RawAlloc!Alignments
    BY <1>3, RawRequests
  <2>2. CASE Throw /\ UNCHANGED rawVars
    BY <1>6, <2>2
  <2>3. CASE Got(i, x.from, x.nodes, PtrSize * Len(x.nodes)) /\ UNCHANGED rawVars
    <3>1. CASE x.from = 0
      BY <1>7, <2>3, <3>1
    <3>2. CASE x.from # 0
      <4>1. x.from \in DOMAIN arrays /\ x.nodes = arrays[x.from]
        BY <1>3, <3>2
      <4>2. Holds([at |-> x.from, need |-> PtrSize * Len(x.nodes)], rawPtrs, rawMade)
        BY <4>1 DEF Accounted, ArrayBlocks
      <4>3. \A g : g.at = x.from /\ g.need = PtrSize * Len(x.nodes) => Holds(g, rawPtrs, rawMade)
        BY <4>2 DEF Holds
      <4>4. UNCHANGED <<heap, arrays, nodeCursor, rawPtrs, rawMade>>
        BY <1>1, <2>3 DEF nodeVars, rawVars
      <4> DEFINE need == PtrSize * Len(x.nodes)
                 from == x.from
      <4> HIDE DEF need, from
      <4> QED
        BY <1>1, <2>0, <2>3, <4>1, <4>3, <4>4, GotAccounts DEF need, from
    <3> QED
      BY <3>1, <3>2
  <2>4. CASE CopyToRaw(i, x.nodes, PtrSize * Len(x.nodes), PtrSize)
    BY <1>1, <2>0, <2>1, <2>4, CopyAccounts
  <2> QED
    BY <2>0, <2>2, <2>3, <2>4 DEF AllocListArg
<1>10. CASE is = "str"
  <2>1. CopyToRaw(i, <<>>, 1 + x.len, 1) /\ i \in RawParams(call.kind)
    BY <1>5, <1>10 DEF AllocArg, AllocStrArg
  <2>2. 1 + x.len \in Nat
    BY <1>3
  <2> QED
    BY <1>1, <2>1, <2>2, RawRequests, CopyAccounts
<1>11. CASE is = "val"
  BY <1>7, <1>11 DEF AllocArg
<1> QED
  BY <1>4, <1>8, <1>9, <1>10, <1>11

(* The node takes over what the call had.                                  *)
LEMMA ConstructAccounts ==
  ASSUME IInv, Accounted, Construct
  PROVE  Accounted'
<1>1. PICK n, x :
        /\ n \in Nat
        /\ x = [kind |-> call.kind, args |-> call.got]
        /\ heap' = Put(heap, nodePtrs[n + 1], x)
        /\ Lists(heap, nodePtrs, n)
        /\ \A i \in 1 .. n : nodePtrs[i] # nodePtrs[n + 1]
  BY Constructs
<1> DEFINE a == nodePtrs[n + 1]
           A == DOMAIN arrays
<1>2. a \notin DOMAIN heap /\ x.args = call.got
  BY <1>1 DEF Lists
<1> HIDE DEF a
<1>3. /\ DOMAIN heap' = DOMAIN heap \cup {a} /\ heap'[a].args = call.got
      /\ \A b \in DOMAIN heap : heap'[b] = heap[b]
  BY <1>1, <1>2 DEF Put, a
<1>4. /\ call' = NoCall /\ DOMAIN call'.got = {}
      /\ UNCHANGED <<arrays, rawPtrs, rawMade, failed, nodeCursor>>
  BY DEF Construct, NoCall, rawVars, nodeVars
<1>5. HeapBlocks(heap, rawPtrs, rawMade, A) /\ CallBlocks(call, heap, rawPtrs, rawMade, A)
  BY DEF Accounted
<1> HIDE DEF A
<1>6. HeapBlocks(heap', rawPtrs, rawMade, A)
  <2>1. ASSUME NEW b \in DOMAIN heap', NEW i \in DOMAIN heap'[b].args
        PROVE  Holds(heap'[b].args[i], rawPtrs, rawMade)
    BY <1>3, <1>5 DEF HeapBlocks, CallBlocks
  <2>2. ASSUME NEW b \in DOMAIN heap', NEW c \in DOMAIN heap',
               NEW i \in DOMAIN heap'[b].args, NEW j \in DOMAIN heap'[c].args,
               Shares(heap'[b].args[i], heap'[c].args[j], A)
        PROVE  b = c /\ i = j
    <3>1. CASE b \in DOMAIN heap /\ c \in DOMAIN heap
      BY <1>3, <1>5, <2>2, <3>1 DEF HeapBlocks
    <3>2. CASE b = a /\ c = a
      BY <1>3, <1>5, <2>2, <3>2 DEF CallBlocks
    <3>3. CASE b = a /\ c \in DOMAIN heap
      BY <1>3, <1>5, <2>2, <3>3 DEF CallBlocks
    <3>4. CASE b \in DOMAIN heap /\ c = a
      <4>1. Shares(call.got[j], heap[b].args[i], A)
        BY <1>3, <2>2, <3>4 DEF Shares
      <4> QED
        BY <1>3, <1>5, <3>4, <4>1 DEF CallBlocks
    <3> QED
      BY <1>3, <3>1, <3>2, <3>3, <3>4
  <2> QED
    BY <2>1, <2>2 DEF HeapBlocks
<1>7. CallBlocks(call', heap', rawPtrs, rawMade, A)
  BY <1>4 DEF CallBlocks
<1>8. UsedBy(heap', call') = UsedBy(heap, call)
  <2>1. Ats(heap'[a].args) = Ats(call.got) /\ Ats(call'.got) = {}
    BY <1>3, <1>4 DEF Ats
  <2>2. \A b \in DOMAIN heap : Ats(heap'[b].args) = Ats(heap[b].args)
    BY <1>3
  <2> QED
    BY <1>3, <2>1, <2>2 DEF UsedBy
<1> QED
  BY <1>4, <1>6, <1>7, <1>8 DEF Accounted, Lost, A

LEMMA NewListAccounts ==
  ASSUME IInv, Accounted, NEW nodes \in SeqOf(DOMAIN heap, MaxList), NewList(nodes)
  PROVE  Accounted'
<1>1. /\ pc = "idle" /\ UNCHANGED <<nodeVars, heap>> /\ nodes \in Seq(NodeAddresses)
      /\ DOMAIN call.got = {}
  BY Facts DEF NewList, Idle, SeqOf, IInv, CurrentCall, NoCall
<1>2. PtrSize * Len(nodes) \in Nat /\ PtrSize \in RawAlloc!Alignments /\ failed \in Nat
  BY <1>1, RawRequests, ASTAssumption DEF IInv, Marks
<1> DEFINE r == Last(rawPtrs')
<1>3. CASE /\ RawAlloc!Allocate(PtrSize * Len(nodes), PtrSize)
           /\ arrays' = Put(arrays, r, nodes)
           /\ UNCHANGED <<pc, call, failed>>
  <2>1. /\ \A g : Holds(g, rawPtrs, rawMade) => Holds(g, rawPtrs', rawMade')
        /\ \A g : g.at = r /\ g.need = PtrSize * Len(nodes) => Holds(g, rawPtrs', rawMade')
        /\ Blocks(rawPtrs') = Blocks(rawPtrs) \cup {r}
    BY <1>2, <1>3, FreshBlock DEF IInv
  <2>2. /\ DOMAIN arrays' = DOMAIN arrays \cup {r} /\ arrays'[r] = nodes
        /\ \A b \in DOMAIN arrays : b # r => arrays'[b] = arrays[b]
    BY <1>3 DEF Put
  <2>3. \A g, k : Shares(g, k, DOMAIN arrays') => Shares(g, k, DOMAIN arrays)
    BY <2>2 DEF Shares
  <2> HIDE DEF r
  <2>4. HeapBlocks(heap', rawPtrs', rawMade', DOMAIN arrays')
    BY <1>1, <2>1, <2>3 DEF Accounted, HeapBlocks
  <2>5. CallBlocks(call', heap', rawPtrs', rawMade', DOMAIN arrays')
    BY <1>1, <1>3 DEF CallBlocks
  <2>6. ArrayBlocks(arrays', rawPtrs', rawMade')
    <3>1. \A b \in DOMAIN arrays :
            Holds([at |-> b, need |-> PtrSize * Len(arrays[b])], rawPtrs', rawMade')
      BY <2>1 DEF Accounted, ArrayBlocks
    <3>2. Holds([at |-> r, need |-> PtrSize * Len(nodes)], rawPtrs', rawMade')
      BY <2>1
    <3> QED
      BY <2>2, <3>1, <3>2 DEF ArrayBlocks
  <2>7. Lost(heap', call', rawPtrs', DOMAIN arrays') \subseteq Lost(heap, call, rawPtrs, DOMAIN arrays)
    BY <1>1, <1>3, <2>1, <2>2 DEF Lost
  <2>8. nodeCursor' = nodeCursor /\ failed' = failed
    BY <1>1, <1>3 DEF nodeVars
  <2> QED
    BY <1>2, <2>4, <2>5, <2>6, <2>7, <2>8, FewerAreFew DEF Accounted
<1>4. CASE /\ RawAlloc!AllocateThrows(PtrSize * Len(nodes), PtrSize)
           /\ Throw
           /\ UNCHANGED arrays
  BY <1>1, <1>4, ThrowLoses DEF RawAlloc!AllocateThrows, nodeVars
<1> QED
  BY <1>3, <1>4 DEF NewList

LEMMA DestroyNodeAccounts ==
  ASSUME IInv, Accounted, DestroyNode
  PROVE  Accounted'
<1>1. PICK n \in Nat :
        /\ nodeCursor = n + 1 /\ pc = "idle"
        /\ heap' = Restrict(heap, DOMAIN heap \ {nodePtrs[n + 1]})
  BY Destroys
<1>2. /\ DOMAIN heap' \subseteq DOMAIN heap /\ \A b \in DOMAIN heap' : heap'[b] = heap[b]
  BY <1>1 DEF Restrict
<1>3. /\ UNCHANGED <<arrays, rawPtrs, rawMade, call>> /\ DOMAIN call.got = {} /\ nodeCursor' # -1
  BY <1>1 DEF DestroyNode, NodeAlloc!DestroyNext, rawVars, IInv, CurrentCall, NoCall
<1>4. HeapBlocks(heap', rawPtrs, rawMade, DOMAIN arrays)
  BY <1>2 DEF Accounted, HeapBlocks
<1>5. CallBlocks(call, heap', rawPtrs, rawMade, DOMAIN arrays)
  BY <1>3 DEF CallBlocks
<1> QED
  BY <1>3, <1>4, <1>5 DEF Accounted

LEMMA NextAccounts ==
  ASSUME IInv, Accounted, [Next]_vars
  PROVE  Accounted'
<1>1. ASSUME NEW kind \in Kinds, Call(kind)  PROVE Accounted'
  <2>1. DOMAIN call.got = {} /\ DOMAIN call'.got = {}
    BY <1>1 DEF Call, Idle, IInv, CurrentCall, NoCall
  <2> QED
    BY <1>1, <2>1, AccountsStay DEF Call, nodeVars, rawVars
<1>2. ASSUME NEW i \in DOMAIN call.args, AllocArg(i)  PROVE Accounted'
  BY <1>2, AllocArgAccounts
<1>3. CASE AllocNode
  <2>1. CASE /\ NodeAlloc!Allocate(NodeSize[call.kind], PtrSize)
             /\ UNCHANGED <<call, failed>>
    BY <1>3, <2>1, AccountsStay DEF AllocNode, rawVars, NodeAlloc!Allocate, NodeAlloc!Open
  <2>2. CASE NodeAlloc!AllocateThrows(NodeSize[call.kind], PtrSize) /\ Throw
    BY <1>3, <2>2, ThrowLoses DEF AllocNode, rawVars, NodeAlloc!AllocateThrows
  <2> QED
    BY <1>3, <2>1, <2>2 DEF AllocNode
<1>4. CASE Construct
  BY <1>4, ConstructAccounts
<1>5. CASE ConstructThrows
  BY <1>5, ThrowLoses DEF ConstructThrows, rawVars, NodeAlloc!Rollback
<1>6. ASSUME NEW nodes \in SeqOf(DOMAIN heap, MaxList), NewList(nodes)  PROVE Accounted'
  BY <1>6, NewListAccounts
<1>7. ASSUME NEW a \in DOMAIN heap \cup Strangers, RootNode(a)  PROVE Accounted'
  <2>1. CASE UNCHANGED <<pc, call, failed>>
    BY <1>7, <2>1, AccountsStay DEF RootNode, nodeVars, rawVars
  <2>2. CASE Throw
    BY <1>7, <2>2, ThrowLoses DEF RootNode, nodeVars, rawVars
  <2> QED
    BY <1>7, <2>1, <2>2 DEF RootNode
<1>8. CASE CloseRaw
  BY <1>8, AccountsStay DEF CloseRaw, RawAlloc!Destroy, nodeVars
<1>9. CASE CloseNodes
  BY <1>9, AccountsStay DEF CloseNodes, NodeAlloc!Destroy, NodeAlloc!Open, rawVars
<1>10. CASE DestroyNode
  BY <1>10, DestroyNodeAccounts
<1>11. CASE UNCHANGED vars
  BY <1>11, AccountsStay DEF vars, nodeVars, rawVars
<1> QED
  BY <1>1, <1>2, <1>3, <1>4, <1>5, <1>6, <1>7, <1>8, <1>9, <1>10, <1>11 DEF Next

LEMMA AccountsAreRight ==
  ASSUME IInv, Accounted
  PROVE  BlocksAccounted
<1>1. Sound(RawPool, RawPoolSize, rawPtr, rawPtrs, rawMade) /\ DOMAIN rawPtrs = 1 .. Len(rawPtrs)
  BY DEF IInv, Pools, Sound
<1>2. BlocksOwned
  <2>1. SUFFICES ASSUME NEW a \in DOMAIN heap, NEW b \in DOMAIN heap,
                        NEW i \in DOMAIN heap[a].args, NEW j \in DOMAIN heap[b].args
        PROVE  LET g == heap[a].args[i]
                   h == heap[b].args[j]
               IN  /\ g.at # 0 => \E k \in DOMAIN rawPtrs : /\ rawPtrs[k] = g.at
                                                            /\ rawMade[k].len >= g.need
                   /\ g.at # 0 /\ g.at = h.at => <<a, i>> = <<b, j>> \/ g.at \in DOMAIN arrays
    BY DEF BlocksOwned
  <2>2. Holds(heap[a].args[i], rawPtrs, rawMade)
    BY DEF Accounted, HeapBlocks
  <2>3. Shares(heap[a].args[i], heap[b].args[j], DOMAIN arrays) => a = b /\ i = j
    BY DEF Accounted, HeapBlocks
  <2> QED
    BY <1>1, <2>2, <2>3 DEF Holds, Shares
<1>3. LeakBounded
  <2>1. Orphans \ DOMAIN arrays = Lost(heap, call, rawPtrs, DOMAIN arrays)
    <3>1. Range(rawPtrs) = Blocks(rawPtrs)
      BY <1>1 DEF Range, Blocks
    <3>2. Used = UsedBy(heap, call)
      BY DEF Used, UsedBy, ArgsOf, Ats, Range
    <3> QED
      BY <3>1, <3>2 DEF Orphans, Lost
  <2> QED
    BY <2>1 DEF LeakBounded, NodeAlloc!Open, Accounted, AreFew, PerCall
<1> QED
  BY <1>2, <1>3 DEF BlocksAccounted

(* In every AST each string and array a node refers to is its own, and as  *)
(* large as what was put there; and the raw blocks that are nobody's are   *)
(* at most as many as the calls that threw can have copied.                *)
THEOREM BlocksAreAccounted == Spec => []BlocksAccounted
<1>1. Init => Accounted
  BY AccountsOpen
<1>2. IInv /\ Accounted /\ [Next]_vars => Accounted'
  BY NextAccounts
<1>3. Spec => []Accounted
  BY <1>1, <1>2, Invariance, PTL DEF Spec
<1>4. IInv /\ Accounted => BlocksAccounted
  BY AccountsAreRight
<1> QED
  BY <1>3, <1>4, Invariance, PTL
=============================================================================
