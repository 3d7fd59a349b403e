------------------------ MODULE PoolAllocatorProofs -------------------------
(***************************************************************************)
(* What holds of PoolAllocator for every pool, every capacity and every set*)
(* of requests its assumption allows.                                      *)
(***************************************************************************)
EXTENDS PoolAllocator, PoolTableProofs

(* The inductive invariant.  WithinPool, ObjectsDisjoint and ObjectsAligned*)
(* speak of the objects only; that the next object is clear of them follows*)
(* from where ptr is.                                                      *)
IInv ==
  /\ TypeOK
  /\ WithinPool
  /\ ObjectsDisjoint
  /\ ObjectsAligned
  /\ FreeAbovePtr

-----------------------------------------------------------------------------
(* The parts that speak of where the objects are, together, say that the   *)
(* table is sound.                                                         *)
LEMMA IInvIsSound ==
  IInv <=> /\ TypeOK /\ ObjectsAligned /\ NPtrs <= NObjs
           /\ Sound(Pool, PoolSize, ptr, ptrs, made)
<1> DEFINE n == Len(ptrs)
<1> SUFFICES ASSUME TypeOK
             PROVE  WithinPool /\ ObjectsDisjoint /\ FreeAbovePtr
                    <=> NPtrs <= NObjs /\ Sound(Pool, PoolSize, ptr, ptrs, made)
  BY DEF IInv
<1>1. /\ n \in Nat /\ DOMAIN ptrs = 1 .. n /\ ptr \in Nat
      /\ ptrs \in Seq(Nat) /\ made \in Seq(Extents) /\ Len(made) = Len(ptrs)
  BY DEF TypeOK
<1>2. \A i \in 1 .. n : made[i] \in Extents /\ ptrs[i] \in Nat
  BY <1>1
<1>3. \A i \in 1 .. n : ptrs[i] \in Nat /\ made[i].len \in Nat
  BY <1>2 DEF Extents
<1>4. ASSUME Pool <= ptr, ptr <= Pool + PoolSize, NEW i \in 1 .. n, ptrs[i] + made[i].len <= ptr
      PROVE  ptrs[i] + made[i].len <= Pool + PoolSize
  BY <1>1, <1>3, <1>4, PoolAssumption
<1> QED
  BY <1>1, <1>4 DEF Sound, WithinPool, ObjectsDisjoint, FreeAbovePtr, End

(* The parts again, of the values that a step leaves behind.               *)
LEMMA SoundMeans ==
  ASSUME NEW p, NEW t, NEW m, Sound(Pool, PoolSize, p, t, m)
  PROVE  /\ DOMAIN t = 1 .. Len(t)
         /\ Pool <= p /\ p <= Pool + PoolSize
         /\ \A i \in DOMAIN t : /\ t[i] >= Pool
                               /\ t[i] + m[i].len <= p
                               /\ t[i] + m[i].len <= Pool + PoolSize
         /\ \A i, j \in DOMAIN t : i < j => t[i] + m[i].len <= t[j]
<1> DEFINE n == Len(t)
<1>1. n \in Nat /\ DOMAIN t = 1 .. n /\ p \in Nat /\ p <= Pool + PoolSize
  BY ObjectsAre DEF Sound
<1>2. \A i \in 1 .. n : t[i] \in Nat /\ m[i].len \in Nat
  BY ObjectsAre
<1>3. /\ \A i \in 1 .. n : Pool <= t[i] /\ t[i] + m[i].len <= p
      /\ \A i, j \in 1 .. n : i < j => t[i] + m[i].len <= t[j]
      /\ Pool <= p
  BY DEF Sound
<1> HIDE DEF n
<1> QED
  BY <1>1, <1>2, <1>3, PoolAssumption DEF n

(* A request that passes the checks of allocate ends inside the pool: no   *)
(* sum in the checks has wrapped around.                                   *)
LEMMA FitsIsSafe ==
  ASSUME NEW n \in Nat, NEW pad \in Nat, ptr \in Nat,
         Fits(n, pad)
  PROVE  ptr + pad + n <= Pool + PoolSize
<1>1. n + pad <= SizeMax
  BY PoolAssumption DEF Fits
<1>2. Plus(n, pad) = n + pad
  BY <1>1, PoolAssumption DEF Plus
<1> QED
  BY <1>2, PoolAssumption DEF Fits

(* The table after allocate: the old objects, and the new one at its end.  *)
LEMMA AllocateTable ==
  ASSUME NEW nbytes \in Nat, NEW align \in Alignments,
         TypeOK, Allocate(nbytes, align)
  PROVE  /\ ptrs' \in Seq(Nat) /\ made' \in Seq(Extents)
         /\ Len(ptrs') = Len(ptrs) + 1 /\ Len(made') = Len(made) + 1
         /\ \A i \in 1 .. Len(ptrs) : ptrs'[i] = ptrs[i] /\ made'[i] = made[i]
         /\ ptrs'[Len(ptrs) + 1] = ptr + Padding(align)
         /\ made'[Len(ptrs) + 1] = [len |-> Bytes(nbytes), align |-> align]
<1>1. Bytes(nbytes) \in Nat \ {0}
  BY DEF Bytes
<1>2. ptr + Padding(align) \in Nat
  BY PaddingAligns DEF TypeOK, Padding, Alignments
<1>3. [len |-> Bytes(nbytes), align |-> align] \in Extents
  BY <1>1 DEF Extents
<1>4. ptrs' = Append(ptrs, ptr + Padding(align))
  BY DEF Allocate
<1>5. made' = Append(made, [len |-> Bytes(nbytes), align |-> align])
  BY DEF Allocate
<1>6. /\ ptrs' \in Seq(Nat) /\ Len(ptrs') = Len(ptrs) + 1
      /\ \A i \in 1 .. Len(ptrs) : ptrs'[i] = ptrs[i]
      /\ ptrs'[Len(ptrs) + 1] = ptr + Padding(align)
  BY <1>2, <1>4, AppendProperties DEF TypeOK
<1>7. /\ made' \in Seq(Extents) /\ Len(made') = Len(made) + 1
      /\ \A i \in 1 .. Len(made) : made'[i] = made[i]
      /\ made'[Len(made) + 1] = [len |-> Bytes(nbytes), align |-> align]
  BY <1>3, <1>5, AppendProperties DEF TypeOK
<1> QED
  BY <1>6, <1>7 DEF TypeOK

(* The table after rollback: the old objects but the last.                 *)
LEMMA RollbackTable ==
  ASSUME NEW obj, TypeOK, Rollback(obj)
  PROVE  /\ Len(ptrs) \in Nat \ {0}
         /\ ptrs' \in Seq(Nat) /\ made' \in Seq(Extents)
         /\ Len(ptrs') = Len(ptrs) - 1 /\ Len(made') = Len(ptrs) - 1
         /\ \A i \in 1 .. Len(ptrs) - 1 :
              ptrs'[i] = ptrs[i] /\ made'[i] = made[i]
         /\ ptr' = ptrs[Len(ptrs)]
<1> DEFINE n == Len(ptrs)
<1>1. n \in Nat /\ n >= 1 /\ ptr' = ptrs[n]
  <2>1. n \in Nat
    BY DEF TypeOK
  <2>2. n >= 1 /\ ptrs[n] = obj /\ ptr' = obj
    BY DEF Rollback, IsLast, NPtrs
  <2> QED
    BY <2>1, <2>2
<1>2. /\ ptrs' = SubSeq(ptrs, 1, n - 1)
      /\ made' = SubSeq(made, 1, n - 1)
  BY DEF Rollback, NPtrs
<1>3. \A i \in 1 .. n - 1 : ptrs[i] \in Nat
  BY <1>1 DEF TypeOK
<1>4. \A i \in 1 .. n - 1 : made[i] \in Extents
  BY <1>1 DEF TypeOK
<1>5. /\ ptrs' \in Seq(Nat) /\ Len(ptrs') = n - 1
      /\ \A i \in 1 .. n - 1 : ptrs'[i] = ptrs[i]
  <2> HIDE DEF n
  <2> QED  BY <1>1, <1>2, <1>3, SubSeqProperties
<1>6. /\ made' \in Seq(Extents) /\ Len(made') = n - 1
      /\ \A i \in 1 .. n - 1 : made'[i] = made[i]
  <2> HIDE DEF n
  <2> QED  BY <1>1, <1>2, <1>4, SubSeqProperties
<1> QED
  BY <1>1, <1>5, <1>6

-----------------------------------------------------------------------------
LEMMA InitEstablishes == Init => IInv
<1> SUFFICES ASSUME Init  PROVE IInv
  OBVIOUS
<1>1. /\ ptrs \in Seq(Nat) /\ made \in Seq(Extents)
      /\ Len(ptrs) = 0 /\ Len(made) = 0 /\ DOMAIN ptrs = {}
  <2>1. ptrs = <<>> /\ made = <<>>
    BY DEF Init
  <2>2. /\ <<>> \in Seq(Nat) /\ <<>> \in Seq(Extents)
        /\ Len(<<>>) = 0 /\ DOMAIN <<>> = {}
    BY EmptySeq, LenProperties
  <2> QED
    BY <2>1, <2>2, Zenon
<1>2. ptr = Pool /\ raised = "none" /\ cursor = -1
  BY DEF Init
<1> HIDE DEF Init
<1>3. TypeOK
  BY <1>1, <1>2, PoolAssumption DEF TypeOK, Exceptions
<1>4. WithinPool /\ ObjectsDisjoint /\ ObjectsAligned
  BY <1>1, PoolAssumption DEF WithinPool, ObjectsDisjoint, ObjectsAligned, NPtrs
<1>5. FreeAbovePtr
  BY <1>1, <1>2, PoolAssumption DEF FreeAbovePtr
<1> QED
  BY <1>3, <1>4, <1>5 DEF IInv

(* allocate: the new object begins above ptr, so above every other one, and*)
(* ends inside the pool.                                                   *)
LEMMA AllocatePreserves ==
  ASSUME NEW nbytes \in Nat, NEW align \in Alignments,
         IInv, Allocate(nbytes, align)
  PROVE  IInv'
<1> DEFINE n == Len(ptrs)
           r == ptr + Padding(align)
           e == [len |-> Bytes(nbytes), align |-> align]
<1>1. /\ TypeOK /\ ObjectsAligned /\ NPtrs <= NObjs
      /\ Sound(Pool, PoolSize, ptr, ptrs, made)
  BY IInvIsSound
<1>2. /\ n \in Nat /\ ptr \in Nat /\ DOMAIN ptrs = 1 .. n /\ cursor = -1
      /\ NPtrs = n /\ ~TooManyObjects
  BY <1>1 DEF TypeOK, Allocate, Open, NPtrs
<1>3. Bytes(nbytes) \in Nat \ {0} /\ e \in Extents /\ e.len = Bytes(nbytes)
  BY DEF Bytes, Extents
<1>4. /\ Padding(align) \in Nat /\ r \in Nat /\ ptr <= r /\ r % align = 0
  <2>1. /\ align - (ptr % align) \in 1 .. align
        /\ (ptr + (align - (ptr % align))) % align = 0
    BY <1>2, PaddingAligns
  <2>2. align \in Nat
    BY DEF Alignments
  <2> QED
    BY <1>2, <2>1, <2>2 DEF Padding
<1>5. r + e.len <= Pool + PoolSize
  BY <1>2, <1>3, <1>4, FitsIsSafe DEF Allocate
<1>6. /\ ptr' = r + e.len /\ ptrs' = Append(ptrs, r) /\ made' = Append(made, e)
      /\ raised' = "none" /\ cursor' = cursor
  BY <1>3 DEF Allocate
<1>7. /\ ptrs' \in Seq(Nat) /\ made' \in Seq(Extents)
      /\ Len(ptrs') = n + 1 /\ Len(made') = n + 1
      /\ \A i \in 1 .. n : ptrs'[i] = ptrs[i] /\ made'[i] = made[i]
      /\ ptrs'[n + 1] = r
      /\ made'[n + 1] = [len |-> Bytes(nbytes), align |-> align]
  BY <1>1, AllocateTable DEF TypeOK
<1>8. DOMAIN ptrs' = 1 .. n + 1
  BY <1>2, <1>7, LenProperties
<1>9. \A i \in 1 .. n : ptrs[i] % made[i].align = 0
  BY <1>1, <1>2 DEF ObjectsAligned
<1>pool. Pool \in Nat /\ PoolSize \in Nat /\ NObjs \in Nat
  BY PoolAssumption
<1> HIDE DEF n, r, e
<1>10. Sound(Pool, PoolSize, ptr', ptrs', made')
  BY <1>1, <1>3, <1>4, <1>5, <1>6, <1>pool, GrowIsSound
<1>11. TypeOK'
  <2>1. ptr' \in Nat
    BY <1>3, <1>4, <1>6
  <2> QED
    BY <1>2, <1>6, <1>7, <2>1 DEF TypeOK, Exceptions
<1>12. ObjectsAligned'
  <2>1. ptrs'[n + 1] % made'[n + 1].align = 0
    BY <1>4, <1>7
  <2>2. \A i \in 1 .. n : ptrs'[i] % made'[i].align = 0
    BY <1>7, <1>9
  <2>3. \A i \in 1 .. n + 1 : i = n + 1 \/ i \in 1 .. n
    BY <1>2
  <2> QED
    BY <1>8, <2>1, <2>2, <2>3 DEF ObjectsAligned
<1>13. NPtrs' <= NObjs
  BY <1>2, <1>7, <1>pool DEF NPtrs, TooManyObjects
<1>14. WithinPool' /\ ObjectsDisjoint' /\ FreeAbovePtr'
  BY <1>10, <1>13, SoundMeans DEF WithinPool, ObjectsDisjoint, FreeAbovePtr, End
<1> QED
  BY <1>11, <1>12, <1>14 DEF IInv

(* rollback: ptr moves to where the last object began; the objects before  *)
(* it end there at the latest.                                             *)
LEMMA RollbackPreserves ==
  ASSUME NEW obj, IInv, Rollback(obj)
  PROVE  IInv'
<1>1. /\ TypeOK /\ ObjectsAligned /\ NPtrs <= NObjs
      /\ Sound(Pool, PoolSize, ptr, ptrs, made)
  BY IInvIsSound
<1>2. PICK n \in Nat : Len(ptrs) = n + 1
  <2>1. Len(ptrs) \in Nat \ {0}
    BY <1>1, RollbackTable
  <2> QED
    BY <2>1
<1>3. /\ ptrs' = SubSeq(ptrs, 1, n) /\ made' = SubSeq(made, 1, n) /\ ptr' = ptrs[n + 1]
      /\ raised' = "none" /\ cursor' = cursor /\ cursor = -1
  BY <1>2 DEF Rollback, IsLast, NPtrs, Open
<1>4. /\ Sound(Pool, PoolSize, ptr', ptrs', made')
      /\ Len(ptrs') = n
      /\ \A i \in 1 .. n : ptrs'[i] = ptrs[i] /\ made'[i] = made[i]
  BY <1>1, <1>2, <1>3, PoolAssumption, ShrinkIsSound
<1>5. TypeOK'
  BY <1>3, <1>4 DEF Sound, TypeOK, Exceptions
<1>6. ObjectsAligned'
  <2>1. DOMAIN ptrs' = 1 .. n /\ DOMAIN ptrs = 1 .. n + 1
    BY <1>1, <1>2, <1>4, <1>5 DEF TypeOK
  <2> QED
    BY <1>1, <1>4, <2>1 DEF ObjectsAligned
<1>7. NPtrs' <= NObjs
  BY <1>1, <1>2, <1>4, PoolAssumption DEF NPtrs
<1>8. WithinPool' /\ ObjectsDisjoint' /\ FreeAbovePtr'
  BY <1>4, <1>7, SoundMeans DEF WithinPool, ObjectsDisjoint, FreeAbovePtr, End
<1> QED
  BY <1>5, <1>6, <1>8 DEF IInv

(* The calls that throw, and the destructor, leave the objects alone.      *)
LEMMA OthersPreserve ==
  ASSUME IInv, UNCHANGED <<ptr, ptrs, made>>,
         raised' \in Exceptions, cursor' \in -1 .. Len(ptrs)
  PROVE  IInv'
BY DEF IInv, TypeOK, WithinPool, ObjectsDisjoint, ObjectsAligned, FreeAbovePtr,
       End, NPtrs

LEMMA NextPreserves == IInv /\ [Next]_vars => IInv'
<1> SUFFICES ASSUME IInv, [Next]_vars  PROVE IInv'
  OBVIOUS
<1>0. Len(ptrs) \in Nat /\ cursor \in -1 .. Len(ptrs) /\ raised \in Exceptions
  BY DEF IInv, TypeOK
<1>1. ASSUME NEW q \in Requests, Allocate(q[1], q[2])
      PROVE  IInv'
  <2>1. q[1] \in Nat /\ q[2] \in Alignments
    BY PoolAssumption
  <2> QED
    BY <1>1, <2>1, AllocatePreserves
<1>2. ASSUME NEW q \in Requests, AllocateThrows(q[1], q[2])
      PROVE  IInv'
  BY <1>0, <1>2, OthersPreserve DEF AllocateThrows, Exceptions
<1>3. ASSUME NEW obj \in Addresses, Rollback(obj)
      PROVE  IInv'
  BY <1>3, RollbackPreserves
<1>4. ASSUME NEW obj \in Addresses, RollbackThrows(obj)
      PROVE  IInv'
  BY <1>0, <1>4, OthersPreserve DEF RollbackThrows, Exceptions
<1>5. CASE Destroy
  BY <1>0, <1>5, OthersPreserve DEF Destroy, Exceptions, NPtrs
<1>6. CASE DestroyNext
  BY <1>0, <1>6, OthersPreserve DEF DestroyNext
<1>7. CASE UNCHANGED vars
  BY <1>0, <1>7, OthersPreserve DEF vars
<1> QED
  BY <1>1, <1>2, <1>3, <1>4, <1>5, <1>6, <1>7 DEF Next

(* The strengthened invariant holds in every reachable state.              *)
THEOREM Invariance == Spec => []IInv
BY InitEstablishes, NextPreserves, PTL DEF Spec

(* The tables keep their types, and an entry for each object.              *)
THEOREM TypeCorrect == Spec => []TypeOK
<1>1. IInv => TypeOK
  BY DEF IInv
<1> QED
  BY <1>1, Invariance, PTL

(* Whatever the callers ask for and give back, no two live objects share a *)
(* byte.                                                                   *)
THEOREM ObjectsNeverOverlap == Spec => []ObjectsDisjoint
<1>1. IInv => ObjectsDisjoint
  BY DEF IInv
<1> QED
  BY <1>1, Invariance, PTL

(* No object lies outside of the pool, and the table never overflows: the  *)
(* checks of allocate hold against wrap-around of size_t.                  *)
THEOREM ObjectsStayInPool == Spec => []WithinPool
<1>1. IInv => WithinPool
  BY DEF IInv
<1> QED
  BY <1>1, Invariance, PTL

(* Every object is aligned as its type asks.                               *)
THEOREM AlignmentHolds == Spec => []ObjectsAligned
<1>1. IInv => ObjectsAligned
  BY DEF IInv
<1> QED
  BY <1>1, Invariance, PTL

(* What lies from ptr on is free, also after rollback has moved it down.   *)
THEOREM NothingAbovePtr == Spec => []FreeAbovePtr
<1>1. IInv => FreeAbovePtr
  BY DEF IInv
<1> QED
  BY <1>1, Invariance, PTL

(* find tells exactly the live objects, and their places in the table, for *)
(* every pool and capacity, after any calls, and its assertion holds; as   *)
(* rollback and allocate keep the table sorted.                            *)
THEOREM FindAgreesWithTable == Spec => []FindExact
<1>1. ASSUME IInv  PROVE FindExact
  <2>1. ptrs \in Seq(Nat) /\ Sound(Pool, PoolSize, ptr, ptrs, made)
    BY <1>1, IInvIsSound DEF TypeOK
  <2>2. Increasing(ptrs, Len(ptrs))
    BY <2>1, PoolAssumption, SoundIsIncreasing
  <2>3. (\A a \in Addresses : a \in Nat) /\ LinearLimit \in Nat
    BY PoolAssumption DEF Addresses
  <2> QED
    BY <2>1, <2>2, <2>3, FindIsRight DEF FindExact, FindIndex
<1> QED
  BY <1>1, Invariance, PTL

-----------------------------------------------------------------------------
(***************************************************************************)
(* PoolAllocator implements ObjectArena, for every value of the constants: *)
(* a user of the allocator can think of it as a stack of disjoint runs of  *)
(* bytes, and forget padding, comparisons and the width of size_t.         *)
(***************************************************************************)

(* The arena's view of the table.                                          *)
Objs == [i \in DOMAIN ptrs |-> [at |-> ptrs[i], len |-> made[i].len]]

(* It is a sequence, as long as the table.                                 *)
LEMMA ObjsIsSeq ==
  ASSUME NEW n \in Nat, NEW s, DOMAIN s = 1 .. n, s = [i \in 1 .. n |-> s[i]]
  PROVE  /\ Len(s) = n
         /\ \A m \in 0 .. n : SubSeq(s, 1, m) = [i \in 1 .. m |-> s[i]]
<1>1. s \in Seq({s[i] : i \in 1 .. n})
  OBVIOUS
<1>2. Len(s) = n
  BY <1>1, LenProperties
<1>3. ASSUME NEW m \in 0 .. n
      PROVE  SubSeq(s, 1, m) = [i \in 1 .. m |-> s[i]]
  BY <1>1, <1>2, <1>3
<1> QED
  BY <1>2, <1>3

LEMMA InitRefines == Init => Arena!Init
<1> SUFFICES ASSUME Init  PROVE Arena!Init
  OBVIOUS
<1>1. ptrs = <<>> /\ cursor = -1
  BY DEF Init
<1>2. DOMAIN ptrs = {}
  BY <1>1
<1>3. [i \in DOMAIN ptrs |-> [at |-> ptrs[i], len |-> made[i].len]] = <<>>
  BY <1>2
<1> QED
  BY <1>1, <1>3 DEF Arena!Init, Open

(* allocate creates an object: its bytes are in the pool, and beyond ptr,  *)
(* where no other object reaches.                                          *)
LEMMA AllocateRefines ==
  ASSUME NEW nbytes \in Nat, NEW align \in Alignments,
         IInv, IInv', Allocate(nbytes, align)
  PROVE  Arena!Create
<1> DEFINE n == Len(ptrs)
           o == [at |-> ptr + Padding(align), len |-> Bytes(nbytes)]
<1>1. /\ TypeOK /\ n \in Nat /\ DOMAIN ptrs = 1 .. n
      /\ \A i \in 1 .. n : ptrs[i] \in Nat /\ made[i] \in Extents
  BY LenProperties, ElementOfSeq DEF IInv, TypeOK
<1>2. /\ ptrs' \in Seq(Nat)
      /\ Len(ptrs') = n + 1
      /\ \A i \in 1 .. n : ptrs'[i] = ptrs[i] /\ made'[i] = made[i]
      /\ ptrs'[n + 1] = ptr + Padding(align)
      /\ made'[n + 1] = [len |-> Bytes(nbytes), align |-> align]
  BY <1>1, AllocateTable
<1>3. DOMAIN ptrs' = 1 .. n + 1
  BY <1>1, <1>2, LenProperties
<1>4. Objs' = [i \in 1 .. n + 1 |-> IF i = n + 1 THEN o ELSE Objs[i]]
  BY <1>1, <1>2, <1>3 DEF Objs
<1>5. Objs = [i \in 1 .. n |-> Objs[i]] /\ DOMAIN Objs = 1 .. n
  BY <1>1 DEF Objs
<1>6. Len(Objs) = n
  BY <1>1, <1>5, ObjsIsSeq
<1>7. DOMAIN Objs' = 1 .. n + 1 /\ Objs' = [i \in 1 .. n + 1 |-> Objs'[i]]
  BY <1>4
<1>8. Len(Objs') = n + 1 /\ SubSeq(Objs', 1, n) = [i \in 1 .. n |-> Objs'[i]]
  BY <1>1, <1>7, ObjsIsSeq
<1>9. SubSeq(Objs', 1, Len(Objs)) = Objs
  BY <1>1, <1>4, <1>5, <1>6, <1>8
<1>10. Objs'[n + 1] = o
  BY <1>1, <1>4
<1>11. /\ ptr \in Nat /\ Pool \in Nat /\ PoolSize \in Nat
       /\ Padding(align) \in Nat \ {0} /\ Bytes(nbytes) \in Nat \ {0}
  BY PaddingAligns, PoolAssumption DEF IInv, TypeOK, Padding, Bytes, Alignments
<1>12. ptr + Padding(align) + Bytes(nbytes) <= Pool + PoolSize
  BY <1>11, FitsIsSafe DEF Allocate
<1>13. Pool <= ptr /\ \A i \in 1 .. n : ptrs[i] + made[i].len <= ptr
  BY <1>1 DEF IInv, FreeAbovePtr, End
<1>14. Arena!Placed(Objs'[n + 1])
  <2>1. o.at = ptr + Padding(align) /\ o.len = Bytes(nbytes)
    OBVIOUS
  <2>2. o.at .. o.at + o.len - 1 \subseteq Pool .. Pool + PoolSize - 1
    BY <2>1, <1>11, <1>12, <1>13
  <2>3. ASSUME NEW i \in 1 .. n
        PROVE  Arena!BytesOf(o) \cap Arena!BytesOf(Objs[i]) = {}
    <3>0. Objs[i].at = ptrs[i] /\ Objs[i].len = made[i].len
      BY <1>1 DEF Objs
    <3>1. Objs[i].at + Objs[i].len <= ptr
      BY <3>0, <1>13
    <3>2. Objs[i].at \in Nat /\ Objs[i].len \in Nat
      BY <3>0, <1>1 DEF Extents
    <3> QED
      BY <2>1, <3>1, <3>2, <1>11, SMTT(30) DEF Arena!BytesOf
  <2> QED
    BY <1>5, <1>10, <1>11, <2>1, <2>2, <2>3 DEF Arena!Placed, Objs
<1>15. Open /\ cursor' = cursor
  BY DEF Allocate
<1> QED
  BY <1>6, <1>8, <1>9, <1>14, <1>15 DEF Arena!Create, Objs, Open

(* rollback undoes the newest object, and leaves the others as they are.   *)
LEMMA RollbackRefines ==
  ASSUME NEW obj, IInv, Rollback(obj)
  PROVE  Arena!Undo
<1> DEFINE n == Len(ptrs)
<1>1. /\ TypeOK /\ n \in Nat /\ DOMAIN ptrs = 1 .. n
  BY LenProperties DEF IInv, TypeOK
<1>2. /\ n \in Nat \ {0}
      /\ ptrs' \in Seq(Nat) /\ Len(ptrs') = n - 1
      /\ \A i \in 1 .. n - 1 : ptrs'[i] = ptrs[i] /\ made'[i] = made[i]
  BY <1>1, RollbackTable
<1>3. DOMAIN ptrs' = 1 .. n - 1
  BY <1>1, <1>2, LenProperties
<1>4. Objs' = [i \in 1 .. n - 1 |-> Objs[i]]
  BY <1>1, <1>2, <1>3 DEF Objs
<1>5. Objs = [i \in 1 .. n |-> Objs[i]] /\ DOMAIN Objs = 1 .. n
  BY <1>1 DEF Objs
<1>6. Len(Objs) = n /\ SubSeq(Objs, 1, n - 1) = [i \in 1 .. n - 1 |-> Objs[i]]
  BY <1>1, <1>2, <1>5, ObjsIsSeq
<1>7. Objs # <<>>
  BY <1>2, <1>6
<1>8. Open /\ cursor' = cursor
  BY DEF Rollback
<1> QED
  BY <1>4, <1>6, <1>7, <1>8 DEF Arena!Undo, Objs, Open

LEMMA StepRefines ==
  ASSUME IInv, IInv', [Next]_vars
  PROVE  [Arena!Next]_(Arena!vars)
<1>1. ASSUME NEW q \in Requests, Allocate(q[1], q[2])
      PROVE  Arena!Create
  <2>1. q[1] \in Nat /\ q[2] \in Alignments
    BY PoolAssumption
  <2> QED
    BY <1>1, <2>1, AllocateRefines
<1>2. ASSUME NEW q \in Requests, AllocateThrows(q[1], q[2])
      PROVE  UNCHANGED Arena!vars
  BY <1>2 DEF AllocateThrows, Arena!vars, Open
<1>3. ASSUME NEW obj \in Addresses, Rollback(obj)
      PROVE  Arena!Undo
  BY <1>3, RollbackRefines
<1>4. ASSUME NEW obj \in Addresses, RollbackThrows(obj)
      PROVE  UNCHANGED Arena!vars
  BY <1>4 DEF RollbackThrows, Arena!vars, Open
<1>5. ASSUME Destroy
      PROVE  Arena!Close
  <2>1. Len(ptrs) \in Nat /\ NPtrs = Len(ptrs)
    BY LenProperties DEF IInv, TypeOK, NPtrs
  <2>2. cursor' \in Nat
    BY <1>5, <2>1 DEF Destroy
  <2> QED
    BY <1>5, <2>2 DEF Destroy, Arena!Close, Open
<1>6. CASE DestroyNext
  <2>1. cursor \in Int
    BY LenProperties DEF IInv, TypeOK
  <2> QED
    BY <1>6, <2>1 DEF DestroyNext, Arena!vars, Open
<1>7. CASE UNCHANGED vars
  BY <1>7 DEF vars, Arena!vars, Open
<1> QED
  BY <1>1, <1>2, <1>3, <1>4, <1>5, <1>6, <1>7 DEF Next, Arena!Next

(* The allocator implements the arena: for every pool, capacity and set of *)
(* requests, what its users see is a stack of disjoint runs of bytes of the*)
(* pool, of which only the newest can be given back (ast-base.cpp).        *)
THEOREM Refinement == Spec => ImplementsArena
<1>1. Spec => []IInv
  BY Invariance
<1>2. Init => Arena!Init
  BY InitRefines
<1>3. IInv /\ IInv' /\ [Next]_vars => [Arena!Next]_(Arena!vars)
  BY StepRefines
<1> QED
  BY <1>1, <1>2, <1>3, PTL DEF Spec, ImplementsArena, Arena!Spec
=============================================================================
