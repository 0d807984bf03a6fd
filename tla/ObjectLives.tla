----------------------------- MODULE ObjectLives -----------------------------
(***************************************************************************)
(* The lives of the objects at each address, and what their holders were   *)
(* told of their hashes: the part of hashing by identity that the table    *)
(* has no share in.  An object is allocated, may be hashed, and goes       *)
(* through _Py_Dealloc(), whose deallocator may be interrupted, may hash   *)
(* or resurrect the object and may be put off by the trashcan, or through  *)
(* a deallocator that is called directly, by the trashcan and by the       *)
(* evaluator for objects of exact types.                                   *)
(***************************************************************************)
EXTENDS Naturals

CONSTANTS Addresses, Hashes, NoHash,
          MaxOpen       \* bound on the deallocations of an address

VARIABLES life,     \* per address: the object that is there
          open,     \* per address: the _Py_Dealloc() calls that are not over
          told,     \* history: the last hash of the object that is there
          frail,    \* history: where the object's hash may yet change
          unclean   \* history: where an object left without _Py_Dealloc()
vars == <<life, open, told, frail, unclean>>

Lives == {"free", "alive",
          "dying",      \* in the deallocator that _Py_Dealloc() called
          "deferred",   \* in the trashcan
          "leaving"}    \* in a deallocator that was called directly

TypeOK ==
  /\ life \in [Addresses -> Lives]
  /\ open \in [Addresses -> 0 .. MaxOpen]
  /\ told \in [Addresses -> Hashes \cup {NoHash}]
  /\ frail \subseteq Addresses
  /\ unclean \subseteq Addresses
  /\ \A o \in Addresses : life[o] = "dying" => open[o] > 0

Init ==
  /\ life = [o \in Addresses |-> "free"]
  /\ open = [o \in Addresses |-> 0]
  /\ told = [o \in Addresses |-> NoHash]
  /\ frail = {}
  /\ unclean = {}

-----------------------------------------------------------------------------
(* A new object.  Its hash may change if a deallocation of its address is  *)
(* still to end, or if the last object there left its entry behind.        *)
Allocate(o) ==
  /\ life[o] = "free"
  /\ life' = [life EXCEPT ![o] = "alive"]
  /\ told' = [told EXCEPT ![o] = NoHash]
  /\ frail' = IF open[o] > 0 \/ o \in unclean
                THEN frail \cup {o} ELSE frail \ {o}
  /\ UNCHANGED <<open, unclean>>

(* The object is told its hash, which the table has kept or has not. *)
Tell(o, h, kept) ==
  /\ life[o] \in {"alive", "dying", "leaving"}
  /\ told' = [told EXCEPT ![o] = h]
  /\ frail' = IF kept THEN frail ELSE frail \cup {o}
  /\ UNCHANGED <<life, open, unclean>>

(* _Py_Dealloc() calls the deallocator. *)
Dealloc(o) ==
  /\ life[o] = "alive" /\ open[o] < MaxOpen
  /\ life' = [life EXCEPT ![o] = "dying"]
  /\ open' = [open EXCEPT ![o] = @ + 1]
  /\ UNCHANGED <<told, frail, unclean>>

Free(o) ==
  /\ life[o] = "dying"
  /\ life' = [life EXCEPT ![o] = "free"]
  /\ UNCHANGED <<open, told, frail, unclean>>

(* A finalizer has stored the object: its deallocator leaves it alone. *)
Resurrect(o) ==
  /\ life[o] \in {"dying", "leaving"}
  /\ life' = [life EXCEPT ![o] = "alive"]
  /\ frail' = frail \cup {o}
  /\ UNCHANGED <<open, told, unclean>>

(* The deallocator has returned to _Py_Dealloc(), whatever is at the       *)
(* address by now.                                                         *)
EndDealloc(o) ==
  /\ open[o] > (IF life[o] = "dying" THEN 1 ELSE 0)
  /\ open' = [open EXCEPT ![o] = @ - 1]
  /\ unclean' = unclean \ {o}
  /\ UNCHANGED <<life, told, frail>>

(* The deallocation is nested too deep: _Py_Dealloc() ends with the object *)
(* in the trashcan.                                                        *)
Defer(o) ==
  /\ life[o] = "alive"
  /\ life' = [life EXCEPT ![o] = "deferred"]
  /\ UNCHANGED <<open, told, frail, unclean>>

RunDeferred(o) ==
  /\ life[o] = "deferred"
  /\ life' = [life EXCEPT ![o] = "leaving"]
  /\ UNCHANGED <<open, told, frail, unclean>>

(* A deallocator that was called directly has freed the object. *)
FreeDirectly(o) ==
  /\ life[o] \in {"alive", "leaving"}
  /\ life' = [life EXCEPT ![o] = "free"]
  /\ unclean' = unclean \cup {o}
  /\ UNCHANGED <<open, told, frail>>

(* The interpreter is cleared; objects may outlive it. *)
Outlive ==
  /\ frail' = Addresses
  /\ UNCHANGED <<life, open, told, unclean>>

(* The steps of an object's life that the table does not learn of *)
Unseen(o) ==
  \/ Allocate(o)
  \/ Dealloc(o)
  \/ Free(o)
  \/ Resurrect(o)
  \/ RunDeferred(o)
  \/ FreeDirectly(o)
=============================================================================
