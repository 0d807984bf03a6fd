---------------------------- MODULE PointerTable ----------------------------
(***************************************************************************)
(* The identity hash table at work: the table of IdentityHashTable, with   *)
(* its probes, its growth and its shifting back, under the lives of the    *)
(* objects at each address (ObjectLives).  It is asked for an object's     *)
(* hash when the object is hashed, told to delete the entry of an address  *)
(* when a _Py_Dealloc() of the address ends, whether or not it has one,    *)
(* and freed with the interpreter.  Memory for a larger table may be short *)
(* at any time: the table stays as it is and the hash is not kept.         *)
(***************************************************************************)
EXTENDS IdentityHashTable

CONSTANT MaxOpen

ASSUME PointerTableAssumption == MaxOpen \in Nat

VARIABLES life, open, told, frail, unclean
pointerVars == <<vars, life, open, told, frail, unclean>>

Object == INSTANCE ObjectLives WITH Addresses <- Objects

InitPointers == Init /\ Object!Init

-----------------------------------------------------------------------------
(* Mutant: an object that the table has is hashed to a new coordinate. *)
HashedAnew(o, h, kept) == IF Holds(o) THEN kept /\ UNCHANGED vars
                          ELSE kept /\ HashPointer(o, h)

(* o's hash is found; or h is inserted, with the growth that it may need;  *)
(* or the table cannot grow.                                               *)
Hashed(o, h, kept) ==
  \/ kept /\ Lookup(o) = h /\ UNCHANGED vars
  \/ kept /\ HashPointer(o, h)
  \/ ~ kept /\ ~ Holds(o) /\ MustGrow /\ UNCHANGED vars

Hash(o, h, kept) == Object!Tell(o, h, kept) /\ Hashed(o, h, kept)

(* Mutant: the entry of an object that was resurrected is not deleted. *)
DeletedUnlessAlive(o) ==
  IF Holds(o) /\ life[o] # "alive" THEN Delete(o) ELSE UNCHANGED vars

(* Mutant: the entry of an address that has been freed is not deleted. *)
DeletedUnlessFree(o) ==
  IF Holds(o) /\ life[o] # "free" THEN Delete(o) ELSE UNCHANGED vars

Deleted(o) == IF Holds(o) THEN Delete(o) ELSE UNCHANGED vars

(* Mutant: the entry is deleted while the deallocator runs. *)
DeletedEarly(o) ==
  /\ open[o] > 0
  /\ Deleted(o)
  /\ open' = [open EXCEPT ![o] = @ - 1]
  /\ unclean' = unclean \ {o}
  /\ UNCHANGED <<life, told, frail>>

DeleteObjectIdentityHash(o) == Object!EndDealloc(o) /\ Deleted(o)

(* Before 3.14 it is the deallocator that puts its object in the trashcan, *)
(* and the entry is deleted.                                               *)
Defer(o) == Object!Defer(o) /\ (Deleted(o) \/ UNCHANGED vars)

(* There may be no table yet. *)
ClearIdentityHashTable ==
  /\ Object!Outlive
  /\ IF capacity > 0 THEN Clear ELSE UNCHANGED vars

NextPointer ==
  \/ \E o \in Objects :
       \/ Object!Unseen(o) /\ UNCHANGED vars
       \/ \E h \in Hashes, kept \in BOOLEAN : Hash(o, h, kept)
       \/ DeleteObjectIdentityHash(o)
       \/ Defer(o)
  \/ ClearIdentityHashTable

SpecPointers == InitPointers /\ [][NextPointer]_pointerVars

-----------------------------------------------------------------------------
(* Properties *)

PointersTypeOK == TypeOK /\ Object!TypeOK

(* With the real table, in whatever slots its entries come to lie, every   *)
(* object is told what PointerHashes says that it is told.                 *)
Pointers == INSTANCE PointerHashes
              WITH Addresses <- Objects, hash <- [o \in Objects |-> Lookup(o)]
ImplementsPointerHashes == Pointers!Spec

(* What PointerHashes promises of the hash of a living object holds of the *)
(* hashes that are looked up in the table.                                 *)
HashesAreSteady == Pointers!HashesAreSteady

(* A lookup in the table finds no hash for the next object of an address.  *)
NoEntryIsLeft == Pointers!NoEntryIsLeft

(* The table holds no more entries than there are addresses that have an   *)
(* object, or a deallocation to end, or had an object that left without    *)
(* _Py_Dealloc(): so much memory it may need, and no deletion leaves an    *)
(* entry in a slot where no probe comes, to be carried along for good.     *)
NothingLeaks ==
  IsFiniteSet(Objects) =>
    used <= Cardinality({o \in Objects :
                           life[o] # "free" \/ open[o] > 0 \/ o \in unclean})
=============================================================================
