-------------------------- MODULE IdentityHashTable --------------------------
(***************************************************************************)
(* The table in which an interpreter keeps the hashes of objects that are  *)
(* hashed by identity: open addressing with robin-hood displacement.  An   *)
(* entry is kept with its distance from the slot its object hashes to, in  *)
(* the few low bits of the pointer, so a large distance is kept as the     *)
(* largest that fits and worked out again when it is needed.               *)
(*                                                                         *)
(* An operation runs under the GIL from its start to its end.              *)
(***************************************************************************)
EXTENDS FiniteSets, FiniteSetsExt, Integers

CONSTANTS Objects, Hashes, NoHash,
          Mixed,        \* the mixed pointer of each object
          MinCapacity,
          Saturated     \* the largest distance that an entry keeps

ASSUME IdentityHashTableAssumption ==
  /\ NoHash \notin Hashes
  /\ Mixed \in [Objects -> Nat]
  /\ MinCapacity \in Nat /\ MinCapacity > 1
  /\ Saturated \in Nat \ {0}

VARIABLES capacity,  \* 0 while there is no table
          slots,
          used
vars == <<capacity, slots, used>>

Entry == [key : Objects, psl : 0 .. Saturated, value : Hashes]
Empty == [key |-> NoHash]

TypeOK ==
  /\ capacity \in Nat
  /\ slots \in [0 .. capacity - 1 -> Entry \cup {Empty}]
  /\ used \in 0 .. capacity

Cleared(size) == [i \in 0 .. size - 1 |-> Empty]

Init == capacity = 0 /\ slots = Cleared(0) /\ used = 0

-----------------------------------------------------------------------------
Index(o, size) == Mixed[o] % size

ExactPsl(o, i, size) == (i - Index(o, size)) % size

(* Mutant: a distance that does not fit loses its high bits. *)
StoredBits(psl) == psl % (Saturated + 1)

(* Mutant: a distance is kept however large. *)
StoredWhole(psl) == psl

Stored(psl) == IF psl > Saturated THEN Saturated ELSE psl

(* The distance of the entry e at i *)
Psl(e, i, size) ==
  IF e.psl = Saturated THEN ExactPsl(e.key, i, size) ELSE e.psl

(* Where a probe for o stops: at o, at an empty slot, or at an entry that  *)
(* is nearer to its own first slot than o would be, past which o is not.   *)
Stops(o, d) ==
  LET i == (Index(o, capacity) + d) % capacity
      e == slots[i]
  IN e = Empty \/ e.key = o \/ Psl(e, i, capacity) < d

Probed(o) ==
  LET d == Min({n \in 0 .. capacity - 1 : Stops(o, n)})
  IN (Index(o, capacity) + d) % capacity

Holds(o) == used > 0 /\ slots[Probed(o)] # Empty /\ slots[Probed(o)].key = o

Lookup(o) == IF Holds(o) THEN slots[Probed(o)].value ELSE NoHash

(* One slot of a walk: carry is put down in a slot that is empty or its    *)
(* key's own, or changes places with an entry that is nearer to its own    *)
(* first slot, or goes on.                                                 *)
Walked(before, i, size) ==
  LET carry == before.carry
      e == before.table[i]
      psl == Psl(e, i, size)
      kept == [before.table EXCEPT ![i] = [carry EXCEPT !.psl = Stored(@)]]
  IN IF carry = Empty THEN before
     ELSE IF e = Empty \/ e.key = carry.key
       THEN [table |-> kept, carry |-> Empty]
     ELSE IF psl < carry.psl
       THEN [table |-> kept, carry |-> [e EXCEPT !.psl = psl + 1]]
       ELSE [before EXCEPT !.carry.psl = @ + 1]

(* InsertKnownRoom in table, of that size *)
Placed(table, size, o, h) ==
  LET walk[n \in 0 .. size] ==
        IF n = 0
          THEN [table |-> table, carry |-> [key |-> o, psl |-> 0, value |-> h]]
          ELSE Walked(walk[n - 1], (Index(o, size) + n - 1) % size, size)
  IN walk[size].table

ResizeAt(size) == (size * 5) \div 8

(* Mutant: the entry to come is not counted. *)
FullTable == capacity = 0 \/ used > ResizeAt(capacity)

MustGrow == capacity = 0 \/ used + 1 > ResizeAt(capacity)

GrownCapacity == IF capacity = 0 THEN MinCapacity ELSE capacity * 2

Grown ==
  LET moved[i \in 0 .. capacity] ==
        IF i = 0 THEN Cleared(GrownCapacity)
        ELSE IF slots[i - 1] = Empty THEN moved[i - 1]
        ELSE Placed(moved[i - 1], GrownCapacity,
                    slots[i - 1].key, slots[i - 1].value)
  IN moved[capacity]

(* HashPointer(o), where h is the hash that o gets when it has none; a     *)
(* table that cannot grow is left as it is and h is not kept.              *)
HashPointer(o, h) ==
  /\ ~ Holds(o)
  /\ capacity' = IF MustGrow THEN GrownCapacity ELSE capacity
  /\ slots' = Placed(IF MustGrow THEN Grown ELSE slots, capacity', o, h)
  /\ used' = used + 1

(* The number of entries after hole that are moved back by one slot: those *)
(* up to an empty slot or to an entry in its own first slot.               *)
After(hole, n) == (hole + n) % capacity

(* Mutant: an entry in its own first slot is moved too. *)
RunToEmpty(hole) ==
  Min({n \in 1 .. capacity : slots[After(hole, n)] = Empty}) - 1

Run(hole) ==
  Min({n \in 1 .. capacity :
         \/ slots[After(hole, n)] = Empty
         \/ Psl(slots[After(hole, n)], After(hole, n), capacity) = 0}) - 1

(* DeleteObjectIdentityHash(o), after o's deallocator has run *)
Delete(o) ==
  LET hole == Probed(o)
      next(i) == slots[(i + 1) % capacity]
      distance(i) == (i - hole) % capacity
  IN /\ Holds(o)
     /\ slots' = [i \in 0 .. capacity - 1 |->
          IF distance(i) > Run(hole) THEN slots[i]
          ELSE IF distance(i) = Run(hole) THEN Empty
          ELSE [next(i) EXCEPT !.psl =
                  Stored(Psl(next(i), (i + 1) % capacity, capacity) - 1)]]
     /\ used' = used - 1
     /\ UNCHANGED capacity

(* ClearIdentityHashTable, when the interpreter is cleared *)
Clear == capacity > 0 /\ capacity' = 0 /\ slots' = Cleared(0) /\ used' = 0

Next ==
  \/ \E o \in Objects, h \in Hashes : HashPointer(o, h)
  \/ \E o \in Objects : Delete(o)
  \/ Clear

Spec == Init /\ [][Next]_vars

-----------------------------------------------------------------------------
(* Properties *)

(* Deleting and displacing keep the order that lets a probe stop early: an *)
(* entry keeps its distance, and one that is away from its first slot      *)
(* comes after an entry that is no nearer than one less.                   *)
WellPlaced ==
  \A i \in 0 .. capacity - 1 : slots[i] # Empty =>
    LET before == slots[(i - 1) % capacity]
        psl == ExactPsl(slots[i].key, i, capacity)
    IN /\ slots[i].psl = Stored(psl)
       /\ psl > 0 =>
            /\ before # Empty
            /\ ExactPsl(before.key, (i - 1) % capacity, capacity) >= psl - 1

(* used is what it should be, and leaves empty slots: every probe ends.    *)
RoomIsLeft ==
  /\ used = Cardinality({i \in 0 .. capacity - 1 : slots[i] # Empty})
  /\ capacity > 0 => used <= ResizeAt(capacity) /\ used < capacity

(* Whatever was hashed and freed in whatever order, a lookup finds the     *)
(* hash that was remembered for an object, and none for another object.    *)
Promised == INSTANCE IdentityHashes WITH hash <- [o \in Objects |-> Lookup(o)]
ImplementsIdentityHashes == Promised!Spec
=============================================================================
