---------------------------- MODULE PointerHashes ----------------------------
(***************************************************************************)
(* The hashes of objects that are hashed by identity, through the lives of *)
(* the objects at each address (ObjectLives).  An object gets its hash     *)
(* when it is first hashed, and the interpreter's table keeps it           *)
(* (IdentityHashes is what the table promises; PointerTable puts the table *)
(* itself in its place).  _Py_Dealloc deletes the entry of the address     *)
(* after the deallocator has returned, so the entry survives what the      *)
(* deallocator does: finalizers that hash or resurrect the object, and the *)
(* code that runs, on this or another thread, once its memory is free for  *)
(* another object.  When a deallocator is called directly the entry stays. *)
(***************************************************************************)
EXTENDS Naturals

CONSTANTS Addresses, Hashes, NoHash, MaxOpen

(* What the theorems take of the constants; PointerTable assumes it. *)
ConstantsOK == NoHash \notin Hashes /\ MaxOpen \in Nat

VARIABLES hash,     \* per address: the table's entry
          life, open, told, frail, unclean
vars == <<hash, life, open, told, frail, unclean>>

Table == INSTANCE IdentityHashes WITH Objects <- Addresses

Object == INSTANCE ObjectLives

TypeOK ==
  /\ hash \in [Addresses -> Hashes \cup {NoHash}]
  /\ Object!TypeOK

Init == Table!Init /\ Object!Init

-----------------------------------------------------------------------------
(* The entry if there is one; otherwise h, the hash of the coordinate or,  *)
(* without a visible frame, of the address, which is kept if the table has *)
(* room or memory to grow.                                                 *)
Hashed(o, h, kept) ==
  \/ hash[o] = h /\ kept /\ UNCHANGED hash
  \/ kept /\ Table!Remember(o, h)
  \/ ~ kept /\ hash[o] = NoHash /\ UNCHANGED hash

HashPointer(o, h, kept) == Object!Tell(o, h, kept) /\ Hashed(o, h, kept)

Deleted(o) == Table!Forget(o)

DeleteObjectIdentityHash(o) == Object!EndDealloc(o) /\ Deleted(o)

(* Before 3.14 it is the deallocator that puts its object in the trashcan, *)
(* and the entry is deleted.                                               *)
Defer(o) == Object!Defer(o) /\ (Deleted(o) \/ UNCHANGED hash)

ClearIdentityHashTable == Object!Outlive /\ Table!ForgetAll

Next ==
  \/ \E o \in Addresses :
       \/ Object!Unseen(o) /\ UNCHANGED hash
       \/ \E h \in Hashes, kept \in BOOLEAN : HashPointer(o, h, kept)
       \/ DeleteObjectIdentityHash(o)
       \/ Defer(o)
  \/ ClearIdentityHashTable

Spec == Init /\ [][Next]_vars

-----------------------------------------------------------------------------
(* Properties *)

(* An object is told the same hash as long as it is there, and never that  *)
(* of an earlier object at its address, unless there was no memory to keep *)
(* it, the interpreter was cleared, the object was resurrected, or it came *)
(* to its address while a deallocation there was not over or after one     *)
(* that had been called directly.                                          *)
HashesAreSteady ==
  \A o \in Addresses : life[o] = "alive" /\ o \notin frail => hash[o] = told[o]

(* Finalizers may hash their objects, be interrupted and be run again:     *)
(* once the last deallocation of an address is over no entry is left for   *)
(* the next object, unless a deallocator was called directly.              *)
NoEntryIsLeft ==
  \A o \in Addresses :
    life[o] = "free" /\ open[o] = 0 /\ o \notin unclean => hash[o] = NoHash
=============================================================================
