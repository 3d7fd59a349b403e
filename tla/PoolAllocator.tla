--------------------------- MODULE PoolAllocator ---------------------------
(***************************************************************************)
(* AST::PoolAllocator (src/grammar/ast-base.hpp and ast-base.cpp): a bump  *)
(* allocator over one block of memory, which remembers the address of every*)
(* object it has handed out, in the order of the calls.  The AST classes   *)
(* own two of them: one for their nodes, one for strings and arrays.       *)
(*                                                                         *)
(* One action per member function that changes the allocator, one more per *)
(* way it can throw.  `find' changes nothing: it is an operator.           *)
(* A definition whose name ends in _slip is the next one with a mistake in *)
(* it: no action uses it; with it in place of the right one, a property of *)
(* this module is violated.                                                *)
(***************************************************************************)
EXTENDS PoolTable

CONSTANTS
  NObjs,       (* nobjs: capacity of the table of pointers                 *)
  PoolSize,    (* pool_sz: bytes in the pool                               *)
  Pool,        (* address of the first byte of the pool                    *)
  SizeMax,     (* the largest size_t                                       *)
  Requests,    (* the <<nbytes, align>> pairs the callers ask for          *)
  LinearLimit, (* number of objects from which find bisects; 10 in the code*)
  HasDestr     (* whether a destr function was given to the constructor    *)

ASSUME PoolAssumption ==
  /\ NObjs \in Nat
  /\ PoolSize \in Nat
  /\ Pool \in Nat \ {0}
  /\ SizeMax \in Nat
  /\ PoolSize <= SizeMax
  /\ Requests \subseteq (0 .. SizeMax) \X Alignments
  /\ LinearLimit \in Nat
  /\ HasDestr \in BOOLEAN

VARIABLES
  ptr,    (* ptr: the first byte not yet used                              *)
  ptrs,   (* ptrs[0 .. nptrs-1], as a sequence                             *)
  made,   (* auxiliary: the bytes and the alignment of the object ptrs[i]  *)
  raised, (* the exception the last call threw; "none" if it returned  *)
  cursor  (* p of ~PoolAllocator: objects still to destroy; -1 before it   *)

vars == <<ptr, ptrs, made, raised, cursor>>

Exceptions == {"none", "nobjs", "pool_sz", "BadRollback"}

NPtrs == Len(ptrs)

Open == cursor = -1

-----------------------------------------------------------------------------
(* Arithmetic of size_t: a sum of two values wraps at most once.           *)
Plus(x, y) == IF x + y > SizeMax THEN x + y - (SizeMax + 1) ELSE x + y

(* A request for nothing gets one byte, so that objects have addresses of  *)
(* their own.                                                              *)
Bytes(nbytes) == IF nbytes = 0 THEN 1 ELSE nbytes

\* slip: aligned relative to the pool
Padding_slip(align) == align - ((ptr - Pool) % align)

(* The distance from ptr to the object: never 0, an aligned ptr is moved   *)
(* by a whole alignment.                                                   *)
Padding(align) == align - (ptr % align)

TooManyObjects == NPtrs >= NObjs

\* slip: the sum is not guarded against wrap-around
Fits_slip(nbytes, pad) ==
  /\ Plus(nbytes, pad) <= PoolSize
  /\ ptr - Pool <= PoolSize - Plus(nbytes, pad)

Fits(nbytes, pad) ==
  /\ SizeMax - pad >= nbytes
  /\ Plus(nbytes, pad) <= PoolSize
  /\ ptr - Pool <= PoolSize - Plus(nbytes, pad)

-----------------------------------------------------------------------------
Init ==
  /\ ptr = Pool
  /\ ptrs = <<>>
  /\ made = <<>>
  /\ raised = "none"
  /\ cursor = -1

Allocate(nbytes, align) ==
  LET n   == Bytes(nbytes)
      pad == Padding(align)
      r   == ptr + pad
  IN  /\ Open
      /\ ~TooManyObjects
      /\ Fits(n, pad)
      /\ ptr' = r + n
      /\ ptrs' = Append(ptrs, r)
      /\ made' = Append(made, [len |-> n, align |-> align])
      /\ raised' = "none"
      /\ UNCHANGED cursor

AllocateThrows(nbytes, align) ==
  /\ Open
  /\ \/ /\ TooManyObjects
        /\ raised' = "nobjs"
     \/ /\ ~TooManyObjects
        /\ ~Fits(Bytes(nbytes), Padding(align))
        /\ raised' = "pool_sz"
  /\ UNCHANGED <<ptr, ptrs, made, cursor>>

\* slip: any object can be given back
IsLast_slip(obj) == \E i \in DOMAIN ptrs : ptrs[i] = obj

IsLast(obj) == NPtrs >= 1 /\ ptrs[NPtrs] = obj

\* slip: nptrs is not decremented
Rollback_slip(obj) ==
  /\ Open
  /\ IsLast(obj)
  /\ ptr' = obj
  /\ raised' = "none"
  /\ UNCHANGED <<ptrs, made, cursor>>

(* Only the newest object can be given back; ptr returns to the address of *)
(* the object, which leaves the padding before it in use.                  *)
Rollback(obj) ==
  /\ Open
  /\ IsLast(obj)
  /\ ptr' = obj
  /\ ptrs' = SubSeq(ptrs, 1, NPtrs - 1)
  /\ made' = SubSeq(made, 1, NPtrs - 1)
  /\ raised' = "none"
  /\ UNCHANGED cursor

RollbackThrows(obj) ==
  /\ Open
  /\ ~IsLast(obj)
  /\ raised' = "BadRollback"
  /\ UNCHANGED <<ptr, ptrs, made, cursor>>

(* ~PoolAllocator: without a destr function there is nothing to do but to  *)
(* release the memory; with one, a step per object, the newest first.      *)
Destroy ==
  /\ Open
  /\ cursor' = IF HasDestr THEN NPtrs ELSE 0
  /\ raised' = "none"
  /\ UNCHANGED <<ptr, ptrs, made>>

DestroyNext ==
  /\ cursor > 0
  /\ cursor' = cursor - 1
  /\ UNCHANGED <<ptr, ptrs, made, raised>>

Addresses == Pool .. Pool + PoolSize

Next ==
  \/ \E q \in Requests : Allocate(q[1], q[2]) \/ AllocateThrows(q[1], q[2])
  \/ \E obj \in Addresses : Rollback(obj) \/ RollbackThrows(obj)
  \/ Destroy
  \/ DestroyNext

Spec == Init /\ [][Next]_vars

-----------------------------------------------------------------------------
(* find: both of its results, whether `what' is there, and its index (from *)
(* 0, as in C++; -1 when it is not).                                       *)
FindIndex(what) == IndexIn(ptrs, LinearLimit, what)

Find(what) == FindIndex(what) # -1

-----------------------------------------------------------------------------
(* Type invariant: the two tables have an entry for each object.           *)
TypeOK ==
  /\ ptr \in Nat
  /\ ptrs \in Seq(Nat)
  /\ made \in Seq(Extents)
  /\ Len(made) = Len(ptrs)
  /\ raised \in Exceptions
  /\ cursor \in -1 .. Len(ptrs)

(* The bytes of the i-th object end before this address.                   *)
End(i) == ptrs[i] + made[i].len

(* allocate never hands out a byte outside of the pool, nor more objects   *)
(* than the table holds, whatever the sizes asked for: the checks on nobjs *)
(* and pool_sz are safe against wrap-around.                               *)
WithinPool ==
  /\ NPtrs <= NObjs
  /\ \A i \in DOMAIN ptrs : ptrs[i] >= Pool /\ End(i) <= Pool + PoolSize

(* No two objects handed out and not given back share a byte, after any mix*)
(* of allocate and rollback; they lie in the order of the calls that made  *)
(* them, on which the bisection of find relies.                            *)
ObjectsDisjoint ==
  \A i, j \in DOMAIN ptrs : i < j => End(i) <= ptrs[j]

(* Every object is aligned as its type asks, wherever the pool starts and  *)
(* wherever a rollback left ptr.                                           *)
ObjectsAligned == \A i \in DOMAIN ptrs : ptrs[i] % made[i].align = 0

(* What lies from ptr on is free: no object that stays reaches beyond it,  *)
(* also after a rollback has moved it down.                                *)
FreeAbovePtr ==
  /\ Pool <= ptr /\ ptr <= Pool + PoolSize
  /\ \A i \in DOMAIN ptrs : End(i) <= ptr

(* find tells exactly the objects handed out and not given back, and its   *)
(* index is their place in the table, on either side of LinearLimit; and   *)
(* the SYS_ASSERT of find holds: bisecting for an address never meets two  *)
(* objects at that address.                                                *)
FindExact ==
  Open => \A a \in Addresses :
    LET i == FindIndex(a)
    IN  /\ IF i = -1 THEN \A k \in DOMAIN ptrs : ptrs[k] # a
                     ELSE i + 1 \in DOMAIN ptrs /\ ptrs[i + 1] = a
        /\ ~IsLinear(ptrs, LinearLimit) => UpperBound(ptrs, a) - LowerBound(ptrs, a) \in {0, 1}

-----------------------------------------------------------------------------
(* What the users of the allocator rely on, as a specification of its own. *)
Arena == INSTANCE ObjectArena WITH
           Memory <- Pool .. Pool + PoolSize - 1,
           objs   <- [i \in DOMAIN ptrs |-> [at |-> ptrs[i], len |-> made[i].len]],
           dead   <- ~Open

(* The allocator implements it: every object handed out takes bytes of the *)
(* pool no other object has, keeps them until it is given back, and only   *)
(* the newest object can be; the destructor runs over the objects as they  *)
(* are.                                                                    *)
ImplementsArena == Arena!Spec
=============================================================================
