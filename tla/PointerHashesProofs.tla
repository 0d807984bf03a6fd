------------------------- MODULE PointerHashesProofs -------------------------
(***************************************************************************)
(* Proofs about PointerHashes for any addresses and hashes, and any number *)
(* of open deallocations.  The invariants need each other: an object whose *)
(* hash is steady came to a clean address, and no deallocation of it can   *)
(* end before its own begins.                                              *)
(***************************************************************************)
EXTENDS PointerHashes, TLAPS

(* No deallocation of the address of a steady object is open. *)
NoneIsOpen ==
  \A o \in Addresses : life[o] = "alive" /\ o \notin frail => open[o] = 0

Inv == TypeOK /\ NoneIsOpen /\ HashesAreSteady /\ NoEntryIsLeft

LEMMA InitInv == ConstantsOK /\ Init => Inv
BY DEF ConstantsOK, Init, Table!Init, Object!Init, Inv, TypeOK,
       Object!TypeOK, NoneIsOpen, HashesAreSteady, NoEntryIsLeft, Object!Lives

LEMMA UnseenKeepsInv ==
  ASSUME ConstantsOK, Inv, NEW o \in Addresses, Object!Unseen(o), UNCHANGED hash
  PROVE  Inv'
<1> USE DEF ConstantsOK, Inv, TypeOK, Object!TypeOK, NoneIsOpen,
            HashesAreSteady, NoEntryIsLeft, Object!Lives
<1>1. CASE Object!Allocate(o)
  BY <1>1 DEF Object!Allocate
<1>2. CASE Object!Dealloc(o)
  BY <1>2 DEF Object!Dealloc
<1>3. CASE Object!Free(o)
  BY <1>3 DEF Object!Free
<1>4. CASE Object!Resurrect(o)
  BY <1>4 DEF Object!Resurrect
<1>5. CASE Object!RunDeferred(o)
  BY <1>5 DEF Object!RunDeferred
<1>6. CASE Object!FreeDirectly(o)
  BY <1>6 DEF Object!FreeDirectly
<1> QED
  BY <1>1, <1>2, <1>3, <1>4, <1>5, <1>6 DEF Object!Unseen

LEMMA NextKeepsInv == ConstantsOK /\ Inv /\ [Next]_vars => Inv'
<1> SUFFICES ASSUME ConstantsOK, Inv, [Next]_vars PROVE Inv'
  OBVIOUS
<1> USE DEF ConstantsOK, Inv, TypeOK, Object!TypeOK, NoneIsOpen,
            HashesAreSteady, NoEntryIsLeft, Object!Lives
<1>1. ASSUME NEW o \in Addresses, Object!Unseen(o), UNCHANGED hash
      PROVE  Inv'
  BY <1>1, UnseenKeepsInv
<1>2. ASSUME NEW o \in Addresses, NEW h \in Hashes, NEW kept \in BOOLEAN,
             HashPointer(o, h, kept)
      PROVE  Inv'
  BY <1>2 DEF HashPointer, Object!Tell, Hashed, Table!Remember
<1>3. ASSUME NEW o \in Addresses, DeleteObjectIdentityHash(o) PROVE Inv'
  BY <1>3 DEF DeleteObjectIdentityHash, Object!EndDealloc, Deleted,
              Table!Forget
<1>4. ASSUME NEW o \in Addresses, Defer(o) PROVE Inv'
  BY <1>4 DEF Defer, Object!Defer, Deleted, Table!Forget
<1>5. CASE ClearIdentityHashTable
  BY <1>5 DEF ClearIdentityHashTable, Object!Outlive, Table!ForgetAll
<1>6. CASE UNCHANGED vars
  BY <1>6 DEF vars
<1> QED
  BY <1>1, <1>2, <1>3, <1>4, <1>5, <1>6 DEF Next

(* The variables keep their types, for any addresses and hashes. *)
THEOREM TypeCorrect ==
  ASSUME ConstantsOK
  PROVE  Spec => []TypeOK
BY InitInv, NextKeepsInv, PTL DEF Spec, Inv

(* Whatever becomes of other objects and of finalizers, an object that is  *)
(* not frail has one hash through its life, for any number of objects.     *)
THEOREM HashesSteady ==
  ASSUME ConstantsOK
  PROVE  Spec => []HashesAreSteady
BY InitInv, NextKeepsInv, PTL DEF Spec, Inv

(* The last _Py_Dealloc() of an address leaves no entry, however many are  *)
(* nested and whatever they run.                                           *)
THEOREM EntriesGo ==
  ASSUME ConstantsOK
  PROVE  Spec => []NoEntryIsLeft
BY InitInv, NextKeepsInv, PTL DEF Spec, Inv
=============================================================================
