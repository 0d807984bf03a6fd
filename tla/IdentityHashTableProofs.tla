---------------------- MODULE IdentityHashTableProofs ----------------------
(***************************************************************************)
(* Proofs about IdentityHashTable for any objects, any way that they are   *)
(* mixed, and any capacities.  What is said of the table is said of any    *)
(* function on slots first, so that it can be said of the tables that an   *)
(* insertion and a growth go through.  The last part is about PointerTable,*)
(* by what is known of the table and of PointerHashes.                     *)
(***************************************************************************)
EXTENDS PointerTable, SelectionsProofs

-----------------------------------------------------------------------------
(* Slots in a circle *)

LEMMA ModRange ==
  ASSUME NEW a \in Int, NEW c \in Nat, c > 0
  PROVE  a % c \in 0 .. c - 1
OBVIOUS

LEMMA ModInside ==
  ASSUME NEW a \in Nat, NEW c \in Nat, a < c
  PROVE  a % c = a
OBVIOUS

LEMMA ModOver ==
  ASSUME NEW a \in Nat, NEW c \in Nat, c <= a, a < c + c
  PROVE  a % c = a - c
OBVIOUS

LEMMA ModUnder ==
  ASSUME NEW a \in Int, NEW c \in Nat, - c <= a, a < 0
  PROVE  a % c = a + c
OBVIOUS

(* Slot i moved on by n, and its distance from first *)
LEMMA SlotAfter ==
  ASSUME NEW c \in Nat, NEW i \in 0 .. c - 1, NEW n \in 0 .. c
  PROVE  /\ (i + n) % c = IF i + n < c THEN i + n ELSE i + n - c
         /\ (i + n) % c \in 0 .. c - 1
<1>1. PICK a \in Nat : a = i + n /\ a < c + c
  OBVIOUS
<1>2. CASE a < c
  BY <1>1, <1>2, ModInside
<1>3. CASE a >= c
  <2>1. a % c = a - c
    BY <1>1, <1>3, ModOver
  <2> QED
    BY <1>1, <1>3, <2>1
<1> QED
  BY <1>1, <1>2, <1>3

LEMMA SlotBefore ==
  ASSUME NEW c \in Nat, NEW i \in 0 .. c - 1
  PROVE  /\ (i - 1) % c = IF i = 0 THEN c - 1 ELSE i - 1
         /\ (i - 1) % c \in 0 .. c - 1
<1>1. CASE i = 0
  BY <1>1, ModUnder
<1>2. CASE i # 0
  BY <1>2, ModInside
<1> QED
  BY <1>1, <1>2

LEMMA SlotDistance ==
  ASSUME NEW c \in Nat, NEW i \in 0 .. c - 1, NEW first \in 0 .. c - 1
  PROVE  /\ (i - first) % c = IF i < first THEN i - first + c ELSE i - first
         /\ (i - first) % c \in 0 .. c - 1
<1>1. CASE i < first
  BY <1>1, ModUnder
<1>2. CASE i >= first
  BY <1>2, ModInside
<1> QED
  BY <1>1, <1>2

LEMMA IndexInTable ==
  ASSUME NEW o \in Objects, NEW c \in Nat, c > 0
  PROVE  Index(o, c) \in 0 .. c - 1
<1>1. Mixed[o] \in Nat
  BY IdentityHashTableAssumption
<1> QED
  BY <1>1, ModRange DEF Index

LEMMA ExactDistance ==
  ASSUME NEW o \in Objects, NEW c \in Nat, NEW i \in 0 .. c - 1
  PROVE  /\ ExactPsl(o, i, c) = IF i < Index(o, c) THEN i - Index(o, c) + c
                                ELSE i - Index(o, c)
         /\ ExactPsl(o, i, c) \in 0 .. c - 1
<1>1. Index(o, c) \in 0 .. c - 1
  BY IndexInTable
<1> QED
  BY <1>1, SlotDistance DEF ExactPsl

(* The slot that a probe for o looks at after n others *)
At(o, n, c) == (Index(o, c) + n) % c

LEMMA ExactIsAt ==
  ASSUME NEW o \in Objects, NEW c \in Nat, NEW i \in 0 .. c - 1
  PROVE  /\ At(o, ExactPsl(o, i, c), c) = i
         /\ \A n \in 0 .. c - 1 : /\ At(o, n, c) \in 0 .. c - 1
                                  /\ ExactPsl(o, At(o, n, c), c) = n
<1>1. Index(o, c) \in 0 .. c - 1
  BY IndexInTable
<1>2. At(o, ExactPsl(o, i, c), c) = i
  <2>1. PICK d \in 0 .. c :
          /\ d = ExactPsl(o, i, c)
          /\ d = IF i < Index(o, c) THEN i - Index(o, c) + c
                 ELSE i - Index(o, c)
    BY ExactDistance
  <2>2. (Index(o, c) + d) % c = IF Index(o, c) + d < c THEN Index(o, c) + d
                                ELSE Index(o, c) + d - c
    BY <1>1, SlotAfter
  <2> QED
    BY <1>1, <2>1, <2>2 DEF At
<1>3. ASSUME NEW n \in 0 .. c - 1
      PROVE  /\ At(o, n, c) \in 0 .. c - 1
             /\ ExactPsl(o, At(o, n, c), c) = n
  <2>1. /\ At(o, n, c) = IF Index(o, c) + n < c THEN Index(o, c) + n
                         ELSE Index(o, c) + n - c
        /\ At(o, n, c) \in 0 .. c - 1
    <3>1. n \in 0 .. c
      OBVIOUS
    <3> QED
      BY <1>1, <3>1, SlotAfter DEF At
  <2>2. PICK j \in 0 .. c - 1 : j = At(o, n, c)
    BY <2>1
  <2>3. ExactPsl(o, j, c) = IF j < Index(o, c) THEN j - Index(o, c) + c
                            ELSE j - Index(o, c)
    BY ExactDistance
  <2> QED
    BY <1>1, <2>1, <2>2, <2>3
<1> QED
  BY <1>2, <1>3

(* One slot on is one more away, but for the last slot before the first. *)
LEMMA ExactOfNext ==
  ASSUME NEW o \in Objects, NEW c \in Nat, NEW i \in 0 .. c - 1
  PROVE  /\ (i + 1) % c \in 0 .. c - 1
         /\ (((i + 1) % c) - 1) % c = i
         /\ ExactPsl(o, i, c) < c - 1 =>
              ExactPsl(o, (i + 1) % c, c) = ExactPsl(o, i, c) + 1
         /\ ExactPsl(o, (i + 1) % c, c) > 0 =>
              ExactPsl(o, i, c) = ExactPsl(o, (i + 1) % c, c) - 1
<1>1. Index(o, c) \in 0 .. c - 1
  BY IndexInTable
<1>2. /\ (i + 1) % c = IF i + 1 < c THEN i + 1 ELSE i + 1 - c
      /\ (i + 1) % c \in 0 .. c - 1
  <2>1. 1 \in 0 .. c
    OBVIOUS
  <2> QED
    BY <2>1, SlotAfter
<1>3. (((i + 1) % c) - 1) % c = i
  <2>1. PICK j \in 0 .. c - 1 : j = (i + 1) % c
    BY <1>2
  <2>2. (j - 1) % c = IF j = 0 THEN c - 1 ELSE j - 1
    BY SlotBefore
  <2> QED
    BY <1>2, <2>1, <2>2
<1>4. /\ ExactPsl(o, i, c) = IF i < Index(o, c) THEN i - Index(o, c) + c
                             ELSE i - Index(o, c)
      /\ ExactPsl(o, (i + 1) % c, c) =
           IF (i + 1) % c < Index(o, c) THEN ((i + 1) % c) - Index(o, c) + c
           ELSE ((i + 1) % c) - Index(o, c)
  BY <1>2, ExactDistance
<1> QED
  BY <1>1, <1>2, <1>3, <1>4

LEMMA ExactOfPrevious ==
  ASSUME NEW o \in Objects, NEW c \in Nat, NEW i \in 0 .. c - 1,
         ExactPsl(o, i, c) > 0
  PROVE  /\ (i - 1) % c \in 0 .. c - 1 /\ (i - 1) % c # i
         /\ ExactPsl(o, (i - 1) % c, c) = ExactPsl(o, i, c) - 1
<1>1. Index(o, c) \in 0 .. c - 1
  BY IndexInTable
<1>2. /\ (i - 1) % c = IF i = 0 THEN c - 1 ELSE i - 1
      /\ (i - 1) % c \in 0 .. c - 1
  BY SlotBefore
<1>3. /\ ExactPsl(o, i, c) = IF i < Index(o, c) THEN i - Index(o, c) + c
                             ELSE i - Index(o, c)
      /\ ExactPsl(o, (i - 1) % c, c) =
           IF (i - 1) % c < Index(o, c) THEN ((i - 1) % c) - Index(o, c) + c
           ELSE ((i - 1) % c) - Index(o, c)
  BY <1>2, ExactDistance
<1> QED
  BY <1>1, <1>2, <1>3

LEMMA SmallestIsMin ==
  ASSUME NEW S \in SUBSET Nat, S # {}
  PROVE  Min(S) \in S /\ \A k \in S : Min(S) <= k
<1>1. \E n \in S : \A k \in S : n <= k
  BY Smallest
<1> QED
  BY <1>1 DEF Min

-----------------------------------------------------------------------------
(* Tables *)

Table(t, c) == t \in [0 .. c - 1 -> Entry \cup {Empty}]

Far(t, i, c) == ExactPsl(t[i].key, i, c)

Occupied(t, c) == {i \in 0 .. c - 1 : t[i] # Empty}

(* The part of WellPlaced about one entry *)
InOrder(t, i, c) ==
  /\ t[i].psl = Stored(Far(t, i, c))
  /\ Far(t, i, c) > 0 =>
       /\ t[(i - 1) % c] # Empty
       /\ Far(t, (i - 1) % c, c) >= Far(t, i, c) - 1

Ordered(t, c) == \A i \in Occupied(t, c) : InOrder(t, i, c)

(* No key is kept twice. *)
Single(t, c) == \A i, j \in Occupied(t, c) : t[i].key = t[j].key => i = j

Sound(t, c) == Table(t, c) /\ Ordered(t, c) /\ Single(t, c)

Keeps(t, c, o, v) == \E i \in Occupied(t, c) : t[i].key = o /\ t[i].value = v

Knows(t, c, o) == \E i \in Occupied(t, c) : t[i].key = o

LEMMA EntryIsNotEmpty ==
  ASSUME NEW e \in Entry
  PROVE  /\ e # Empty
         /\ e.key \in Objects /\ e.psl \in 0 .. Saturated /\ e.value \in Hashes
<1>1. "psl" \in DOMAIN e
  BY DEF Entry
<1>2. "psl" \notin DOMAIN Empty
  BY DEF Empty
<1>3. e # Empty
  BY <1>1, <1>2
<1> QED
  BY <1>3 DEF Entry

LEMMA OccupiedHolds ==
  ASSUME NEW c \in Nat, NEW t, Table(t, c), NEW i \in Occupied(t, c)
  PROVE  /\ i \in 0 .. c - 1 /\ t[i] \in Entry /\ t[i] # Empty
         /\ t[i].key \in Objects /\ t[i].value \in Hashes
         /\ Far(t, i, c) \in 0 .. c - 1
<1>1. i \in 0 .. c - 1 /\ t[i] \in Entry /\ t[i] # Empty
  BY DEF Occupied, Table
<1>2. t[i].key \in Objects /\ t[i].value \in Hashes
  BY <1>1, EntryIsNotEmpty
<1> QED
  BY <1>1, <1>2, ExactDistance DEF Far

(* What a saturated distance leaves out can be worked out. *)
LEMMA StoredIsRead ==
  ASSUME NEW c \in Nat, NEW t, Table(t, c), Ordered(t, c),
         NEW i \in Occupied(t, c)
  PROVE  Psl(t[i], i, c) = Far(t, i, c)
<1>1. Far(t, i, c) \in 0 .. c - 1 /\ Saturated \in Nat
  BY OccupiedHolds, IdentityHashTableAssumption
<1>2. t[i].psl = Stored(Far(t, i, c))
  BY DEF Ordered, InOrder
<1> QED
  BY <1>1, <1>2 DEF Psl, Far, Stored

(* Between an entry's first slot and the entry no slot is empty, and none  *)
(* has an entry that is nearer to its own first slot.                      *)
LEMMA WayToEntry ==
  ASSUME NEW c \in Nat, NEW t, Table(t, c), Ordered(t, c),
         NEW i \in Occupied(t, c), NEW d \in 0 .. Far(t, i, c)
  PROVE  LET j == At(t[i].key, d, c)
         IN j \in Occupied(t, c) /\ Far(t, j, c) >= d
<1> DEFINE o == t[i].key
           far == Far(t, i, c)
           S == {n \in 0 .. far :
                   /\ At(o, far - n, c) \in Occupied(t, c)
                   /\ Far(t, At(o, far - n, c), c) >= far - n}
<1>1. /\ o \in Objects /\ far \in 0 .. c - 1 /\ i \in 0 .. c - 1
      /\ far = ExactPsl(o, i, c)
  BY OccupiedHolds DEF Far
<1> HIDE DEF o, far
<1>2. At(o, far, c) = i
  BY <1>1, ExactIsAt
<1>3. 0 \in S
  <2>1. far - 0 = far /\ 0 \in 0 .. far
    BY <1>1
  <2> QED
    BY <1>1, <1>2, <2>1 DEF far
<1>4. ASSUME NEW n \in 0 .. far - 1, n \in S PROVE n + 1 \in S
  <2>1. PICK j \in Occupied(t, c) :
          j = At(o, far - n, c) /\ Far(t, j, c) >= far - n
    BY <1>4
  <2>2. PICK k \in 1 .. c - 1 : k = far - n /\ far - (n + 1) = k - 1
    BY <1>1
  <2>3. /\ j \in 0 .. c - 1 /\ Far(t, j, c) \in 0 .. c - 1
        /\ Far(t, j, c) = ExactPsl(t[j].key, j, c) /\ t[j].key \in Objects
    BY OccupiedHolds DEF Far
  <2>4. ExactPsl(o, j, c) = k
    BY <1>1, <2>1, <2>2, ExactIsAt
  <2>5. PICK b \in 0 .. c - 1 :
          b = (j - 1) % c /\ ExactPsl(o, b, c) = k - 1
    BY <1>1, <2>2, <2>3, <2>4, ExactOfPrevious
  <2>6. At(o, k - 1, c) = b
    BY <1>1, <2>5, ExactIsAt
  <2>7. t[b] # Empty /\ Far(t, b, c) >= Far(t, j, c) - 1
    BY <2>1, <2>2, <2>3, <2>5 DEF Ordered, InOrder
  <2>8. b \in Occupied(t, c)
    BY <2>5, <2>7 DEF Occupied
  <2>9. Far(t, b, c) \in 0 .. c - 1
    BY <2>8, OccupiedHolds
  <2>10. Far(t, b, c) >= k - 1
    BY <2>1, <2>2, <2>3, <2>7, <2>9
  <2> QED
    BY <1>1, <2>2, <2>6, <2>8, <2>10
<1>5. \A n \in 0 .. far : n \in S
  <2> HIDE DEF S
  <2> QED
    BY <1>1, <1>3, <1>4, Induction
<1>6. PICK k \in 0 .. far : k = d
  BY DEF far
<1>7. far - k \in 0 .. far /\ far - (far - k) = k
  BY <1>1
<1>8. far - k \in S
  BY <1>5, <1>7
<1> QED
  BY <1>6, <1>7, <1>8 DEF o

-----------------------------------------------------------------------------
(* Lookups *)

Holding == Occupied(slots, capacity)

LEMMA StopsAt ==
  ASSUME capacity \in Nat, Sound(slots, capacity),
         NEW o \in Objects, NEW n \in 0 .. capacity - 1
  PROVE  LET j == At(o, n, capacity)
         IN /\ j \in 0 .. capacity - 1
            /\ Stops(o, n) <=> \/ j \notin Holding
                               \/ slots[j].key = o
                               \/ Far(slots, j, capacity) < n
<1>1. PICK j \in 0 .. capacity - 1 : j = At(o, n, capacity)
  BY ExactIsAt
<1>2. j = (Index(o, capacity) + n) % capacity
  BY <1>1 DEF At
<1>3. j \in Holding <=> slots[j] # Empty
  BY DEF Holding, Occupied
<1>4. ASSUME j \in Holding
      PROVE  Psl(slots[j], j, capacity) = Far(slots, j, capacity)
  BY <1>4, StoredIsRead DEF Sound, Holding
<1> QED
  BY <1>1, <1>2, <1>3, <1>4 DEF Stops

(* A probe for an object finds its entry. *)
LEMMA ProbeFinds ==
  ASSUME capacity \in Nat, Sound(slots, capacity), NEW i \in Holding
  PROVE  Probed(slots[i].key) = i
<1> DEFINE o == slots[i].key
           S == {n \in 0 .. capacity - 1 : Stops(o, n)}
<1>1. PICK far \in 0 .. capacity - 1 : far = Far(slots, i, capacity)
  BY OccupiedHolds DEF Sound, Holding
<1>2. o \in Objects /\ i \in 0 .. capacity - 1
  BY OccupiedHolds DEF Sound, Holding
<1>3. far = ExactPsl(o, i, capacity)
  BY <1>1 DEF Far
<1> HIDE DEF o
<1>4. At(o, far, capacity) = i
  BY <1>2, <1>3, ExactIsAt
<1>5. far \in S
  <2>1. Stops(o, far)
    BY <1>2, <1>4, StopsAt DEF o
  <2> QED
    BY <2>1
<1>6. ASSUME NEW n \in S PROVE far <= n
  <2> SUFFICES ASSUME n < far PROVE FALSE
    BY <1>1
  <2>1. PICK j \in 0 .. capacity - 1 : j = At(o, n, capacity)
    BY <1>2, ExactIsAt
  <2>2. n \in 0 .. Far(slots, i, capacity)
    BY <1>1
  <2>3. j \in Holding /\ Far(slots, j, capacity) >= n
    BY <2>1, <2>2, WayToEntry DEF Sound, Holding, o
  <2>4. Far(slots, j, capacity) \in 0 .. capacity - 1
    BY <2>3, OccupiedHolds DEF Sound, Holding
  <2>5. slots[j].key = o
    BY <1>2, <2>1, <2>3, <2>4, StopsAt
  <2>6. j = i
    BY <2>3, <2>5 DEF Sound, Single, Holding, o
  <2>7. ExactPsl(o, j, capacity) = n
    BY <1>2, <2>1, ExactIsAt
  <2> QED
    BY <1>1, <1>3, <2>6, <2>7
<1>7. Min(S) = far
  <2>1. S \in SUBSET Nat /\ S # {}
    BY <1>5
  <2> HIDE DEF S
  <2>2. Min(S) \in S /\ Min(S) <= far
    BY <1>5, <2>1, SmallestIsMin
  <2>3. far <= Min(S)
    BY <1>6, <2>2
  <2>4. far \in Nat
    OBVIOUS
  <2>5. Min(S) \in Nat
    BY <2>1, <2>2
  <2> QED
    BY <2>2, <2>3, <2>4, <2>5
<1>8. Probed(o) = At(o, Min(S), capacity)
  BY DEF Probed, At
<1> QED
  BY <1>4, <1>7, <1>8 DEF o

(* A probe for an object that has none ends elsewhere. *)
LEMMA ProbeEnds ==
  ASSUME capacity \in Nat, Sound(slots, capacity), NEW o \in Objects,
         ~ Knows(slots, capacity, o),
         NEW empty \in 0 .. capacity - 1, empty \notin Holding
  PROVE  ~ Holds(o)
<1> DEFINE S == {n \in 0 .. capacity - 1 : Stops(o, n)}
<1>1. PICK n \in 0 .. capacity - 1 : At(o, n, capacity) = empty
  BY ExactIsAt, ExactDistance
<1>2. n \in S
  BY <1>1, StopsAt
<1>3. Min(S) \in S
  <2>1. S \in SUBSET Nat /\ S # {}
    BY <1>2
  <2> HIDE DEF S
  <2> QED
    BY <2>1, SmallestIsMin
<1>4. PICK d \in 0 .. capacity - 1 : d = Min(S)
  BY <1>3
<1>5. PICK j \in 0 .. capacity - 1 : j = At(o, d, capacity)
  BY ExactIsAt
<1>6. Probed(o) = j
  BY <1>4, <1>5 DEF Probed, At
<1>7. slots[j] # Empty => j \in Holding
  BY DEF Holding, Occupied
<1> QED
  BY <1>6, <1>7 DEF Holds, Knows, Holding

-----------------------------------------------------------------------------
(* Insertion *)

(* What is carried has its exact distance. *)
Carried == [key : Objects, psl : Nat, value : Hashes]

Put(t, i, carry) == [t EXCEPT ![i] = [carry EXCEPT !.psl = Stored(@)]]

(* carry fits at i: it comes after an entry that may come before it. *)
Fits(t, i, c, carry) ==
  /\ carry.psl = ExactPsl(carry.key, i, c)
  /\ carry.psl > 0 => /\ (i - 1) % c \in Occupied(t, c)
                      /\ Far(t, (i - 1) % c, c) >= carry.psl - 1

(* The entry that carry takes the place of is nearer to its first slot. *)
Yields(t, i, c, carry) == i \in Occupied(t, c) => Far(t, i, c) < carry.psl

LEMMA PutEntry ==
  ASSUME NEW carry \in Carried, NEW c \in Nat, NEW t, Table(t, c),
         NEW i \in 0 .. c - 1
  PROVE  /\ Table(Put(t, i, carry), c)
         /\ Occupied(Put(t, i, carry), c) = Occupied(t, c) \cup {i}
         /\ Put(t, i, carry)[i].key = carry.key
         /\ Put(t, i, carry)[i].psl = Stored(carry.psl)
         /\ Put(t, i, carry)[i].value = carry.value
         /\ \A j \in 0 .. c - 1 : j # i => Put(t, i, carry)[j] = t[j]
<1>1. Stored(carry.psl) \in 0 .. Saturated
  BY IdentityHashTableAssumption DEF Carried, Stored
<1>2. PICK e \in Entry : e = [carry EXCEPT !.psl = Stored(@)]
  BY <1>1 DEF Carried, Entry
<1>3. /\ e.key = carry.key /\ e.psl = Stored(carry.psl)
      /\ e.value = carry.value
  BY <1>2 DEF Carried
<1>4. e # Empty
  BY EntryIsNotEmpty
<1>5. Put(t, i, carry) = [t EXCEPT ![i] = e]
  BY <1>2 DEF Put
<1>6. /\ Table(Put(t, i, carry), c)
      /\ Put(t, i, carry)[i] = e
      /\ \A j \in 0 .. c - 1 : j # i => Put(t, i, carry)[j] = t[j]
  BY <1>5 DEF Table
<1>7. Occupied(Put(t, i, carry), c) = Occupied(t, c) \cup {i}
  BY <1>4, <1>6 DEF Occupied
<1> QED
  BY <1>3, <1>6, <1>7

LEMMA PutKeepsSound ==
  ASSUME NEW c \in Nat, NEW t, Sound(t, c), NEW i \in 0 .. c - 1,
         NEW carry \in Carried, Fits(t, i, c, carry), Yields(t, i, c, carry),
         ~ Knows(t, c, carry.key)
  PROVE  Sound(Put(t, i, carry), c)
<1> DEFINE u == Put(t, i, carry)
<1>1. /\ Table(u, c) /\ Occupied(u, c) = Occupied(t, c) \cup {i}
      /\ u[i].key = carry.key /\ u[i].psl = Stored(carry.psl)
      /\ \A j \in 0 .. c - 1 : j # i => u[j] = t[j]
  BY PutEntry DEF Sound
<1> HIDE DEF u
<1>2. carry.key \in Objects /\ carry.psl \in Nat
  BY DEF Carried
<1>3. /\ Far(u, i, c) = carry.psl
      /\ \A j \in 0 .. c - 1 : j # i => Far(u, j, c) = Far(t, j, c)
  BY <1>1 DEF Far, Fits
<1>4. InOrder(u, i, c)
  <2>1. ASSUME carry.psl > 0
        PROVE  /\ u[(i - 1) % c] # Empty
               /\ Far(u, (i - 1) % c, c) >= carry.psl - 1
    <3>1. /\ (i - 1) % c \in Occupied(t, c)
          /\ Far(t, (i - 1) % c, c) >= carry.psl - 1
      BY <2>1 DEF Fits
    <3>2. (i - 1) % c # i /\ (i - 1) % c \in 0 .. c - 1
      BY <1>2, <2>1, ExactOfPrevious DEF Fits
    <3> QED
      BY <1>1, <1>3, <3>1, <3>2 DEF Occupied
  <2> QED
    BY <1>1, <1>3, <2>1 DEF InOrder
<1>5. ASSUME NEW j \in Occupied(t, c), j # i PROVE InOrder(u, j, c)
  <2>1. /\ j \in 0 .. c - 1 /\ t[j].key \in Objects
        /\ Far(t, j, c) \in 0 .. c - 1
    BY OccupiedHolds DEF Sound
  <2>2. u[j] = t[j] /\ Far(u, j, c) = Far(t, j, c) /\ InOrder(t, j, c)
    BY <1>1, <1>3, <1>5, <2>1 DEF Sound, Ordered
  <2>3. ASSUME Far(t, j, c) > 0
        PROVE  /\ u[(j - 1) % c] # Empty
               /\ Far(u, (j - 1) % c, c) >= Far(t, j, c) - 1
    <3>1. PICK b \in 0 .. c - 1 : b = (j - 1) % c
      BY SlotBefore, <2>1
    <3>2. t[b] # Empty /\ Far(t, b, c) >= Far(t, j, c) - 1
      BY <2>2, <2>3, <3>1 DEF InOrder
    <3>3. CASE b # i
      BY <1>1, <1>3, <3>1, <3>2, <3>3
    <3>4. CASE b = i
      <4>1. i \in Occupied(t, c)
        BY <3>2, <3>4 DEF Occupied
      <4>2. Far(t, i, c) < carry.psl /\ Far(t, i, c) \in 0 .. c - 1
        BY <4>1, OccupiedHolds DEF Yields, Sound
      <4>3. Far(u, i, c) >= Far(t, j, c) - 1
        BY <1>2, <1>3, <2>1, <3>2, <3>4, <4>2
      <4>4. u[i] # Empty
        BY <1>1 DEF Occupied
      <4> QED
        BY <3>1, <3>4, <4>3, <4>4
    <3> QED
      BY <3>3, <3>4
  <2> QED
    BY <2>2, <2>3 DEF InOrder
<1>6. Ordered(u, c)
  BY <1>1, <1>4, <1>5 DEF Ordered
<1>7. Single(u, c)
  <2>1. \A j \in Occupied(t, c) : t[j].key # carry.key /\ j \in 0 .. c - 1
    BY DEF Knows, Occupied
  <2> QED
    BY <1>1, <2>1 DEF Single, Sound
<1> QED
  BY <1>1, <1>6, <1>7 DEF Sound, u

LEMMA PutKeeps ==
  ASSUME NEW c \in Nat, NEW t, Table(t, c), NEW i \in 0 .. c - 1,
         NEW carry \in Carried, NEW p, NEW v
  PROVE  Keeps(Put(t, i, carry), c, p, v)
           <=> \/ p = carry.key /\ v = carry.value
               \/ \E j \in Occupied(t, c) \ {i} : t[j].key = p /\ t[j].value = v
<1> DEFINE u == Put(t, i, carry)
<1>1. /\ Occupied(u, c) = Occupied(t, c) \cup {i}
      /\ u[i].key = carry.key /\ u[i].value = carry.value
      /\ \A j \in 0 .. c - 1 : j # i => u[j] = t[j]
  BY PutEntry
<1> HIDE DEF u
<1>2. \A j \in Occupied(t, c) : j \in 0 .. c - 1
  BY DEF Occupied
<1> QED
  BY <1>1, <1>2 DEF Keeps, u

(* u is t with the hash v of o. *)
Inserted(u, t, c, o, v) ==
  /\ Sound(u, c)
  /\ \E i \in (0 .. c - 1) \ Occupied(t, c) :
       Occupied(u, c) = Occupied(t, c) \cup {i}
  /\ \A p, q : Keeps(u, c, p, q) <=> Keeps(t, c, p, q) \/ (p = o /\ q = v)

(* A walk that has looked at n slots and still carries an entry *)
Going(w, t, c, o, v, n) ==
  /\ w \in [table : [0 .. c - 1 -> Entry \cup {Empty}], carry : Carried]
  /\ Sound(w.table, c)
  /\ Occupied(w.table, c) = Occupied(t, c)
  /\ Fits(w.table, At(o, n, c), c, w.carry)
  /\ w.carry.psl <= n
  /\ ~ Knows(w.table, c, w.carry.key)
  /\ \A p, q : \/ Keeps(w.table, c, p, q)
               \/ p = w.carry.key /\ q = w.carry.value
               <=> Keeps(t, c, p, q) \/ (p = o /\ q = v)

Ended(w, t, c, o, v) == w.carry = Empty /\ Inserted(w.table, t, c, o, v)

LEMMA CarriedIsNotEmpty == ASSUME NEW e \in Carried PROVE e # Empty
<1>1. "psl" \in DOMAIN e /\ "psl" \notin DOMAIN Empty
  BY DEF Carried, Empty
<1> QED
  BY <1>1

LEMMA WalkPutsDown ==
  ASSUME NEW c \in Nat, NEW t, NEW o \in Objects, NEW v, NEW w,
         NEW n \in 0 .. c - 1, Going(w, t, c, o, v, n),
         At(o, n, c) \notin Occupied(t, c)
  PROVE  Ended(Walked(w, At(o, n, c), c), t, c, o, v)
<1>1. PICK i \in 0 .. c - 1 : i = At(o, n, c)
  BY ExactIsAt
<1>2. PICK carry \in Carried : carry = w.carry
  BY DEF Going
<1>3. PICK table : table = w.table
  OBVIOUS
<1>4. /\ Sound(table, c) /\ Occupied(table, c) = Occupied(t, c)
      /\ Fits(table, i, c, carry) /\ ~ Knows(table, c, carry.key)
      /\ \A p, q : \/ Keeps(table, c, p, q)
                   \/ p = carry.key /\ q = carry.value
                   <=> Keeps(t, c, p, q) \/ (p = o /\ q = v)
  BY <1>1, <1>2, <1>3 DEF Going
<1>5. i \notin Occupied(table, c) /\ table[i] = Empty
  BY <1>1, <1>4 DEF Occupied
<1>6. Walked(w, i, c) = [table |-> Put(table, i, carry), carry |-> Empty]
  BY <1>2, <1>3, <1>5, CarriedIsNotEmpty DEF Walked, Put
<1>7. Sound(Put(table, i, carry), c)
  BY <1>4, <1>5, PutKeepsSound DEF Yields
<1>8. Occupied(Put(table, i, carry), c) = Occupied(t, c) \cup {i}
  BY <1>4, PutEntry DEF Sound
<1>9. ASSUME NEW p, NEW q
      PROVE  Keeps(Put(table, i, carry), c, p, q)
               <=> Keeps(t, c, p, q) \/ (p = o /\ q = v)
  <2>1. Keeps(Put(table, i, carry), c, p, q)
          <=> \/ p = carry.key /\ q = carry.value
              \/ \E j \in Occupied(table, c) \ {i} :
                   table[j].key = p /\ table[j].value = q
    BY <1>4, PutKeeps DEF Sound
  <2>2. Occupied(table, c) \ {i} = Occupied(table, c)
    BY <1>5
  <2>3. Keeps(Put(table, i, carry), c, p, q)
          <=> (p = carry.key /\ q = carry.value) \/ Keeps(table, c, p, q)
    BY <2>1, <2>2 DEF Keeps
  <2> QED
    BY <1>4, <2>3
<1>10. Inserted(Put(table, i, carry), t, c, o, v)
  BY <1>1, <1>4, <1>5, <1>7, <1>8, <1>9 DEF Inserted
<1> QED
  BY <1>1, <1>6, <1>10 DEF Ended

LEMMA NextSlot ==
  ASSUME NEW c \in Nat, NEW o \in Objects, NEW n \in 0 .. c - 2
  PROVE  At(o, n + 1, c) = (At(o, n, c) + 1) % c
<1>1. PICK i \in 0 .. c - 1 : i = At(o, n, c) /\ ExactPsl(o, i, c) = n
  <2>1. n \in 0 .. c - 1 /\ 0 \in 0 .. c - 1
    OBVIOUS
  <2> QED
    BY <2>1, ExactIsAt
<1>2. PICK j \in 0 .. c - 1 : j = (i + 1) % c /\ ExactPsl(o, j, c) = n + 1
  <2>1. ExactPsl(o, i, c) < c - 1
    BY <1>1
  <2>2. PICK j \in 0 .. c - 1 : j = (i + 1) % c
    BY <1>1, ExactOfNext
  <2>3. ExactPsl(o, j, c) = ExactPsl(o, i, c) + 1
    BY <1>1, <2>1, <2>2, ExactOfNext
  <2> QED
    BY <1>1, <2>2, <2>3
<1>3. At(o, ExactPsl(o, j, c), c) = j
  BY ExactIsAt
<1> QED
  BY <1>1, <1>2, <1>3

(* carry has taken the place of the entry at i, which is carried on. *)
LEMMA WalkDisplaces ==
  ASSUME NEW c \in Nat, NEW t, NEW o \in Objects, NEW v, NEW w,
         NEW n \in 0 .. c - 2, Going(w, t, c, o, v, n),
         At(o, n, c) \in Occupied(t, c),
         Far(w.table, At(o, n, c), c) < w.carry.psl
  PROVE  Going(Walked(w, At(o, n, c), c), t, c, o, v, n + 1)
<1>1. PICK i \in 0 .. c - 1 : i = At(o, n, c)
  <2>1. n \in 0 .. c - 1 /\ 0 \in 0 .. c - 1
    OBVIOUS
  <2> QED
    BY <2>1, ExactIsAt
<1>2. PICK carry \in Carried : carry = w.carry
  BY DEF Going
<1>3. PICK table : table = w.table
  OBVIOUS
<1>4. /\ Sound(table, c) /\ Occupied(table, c) = Occupied(t, c)
      /\ Fits(table, i, c, carry) /\ ~ Knows(table, c, carry.key)
      /\ carry.psl <= n
      /\ \A p, q : \/ Keeps(table, c, p, q)
                   \/ p = carry.key /\ q = carry.value
                   <=> Keeps(t, c, p, q) \/ (p = o /\ q = v)
  BY <1>1, <1>2, <1>3 DEF Going
<1>5. i \in Occupied(table, c) /\ Far(table, i, c) < carry.psl
  BY <1>1, <1>2, <1>3, <1>4
<1>6. PICK e \in Entry : e = table[i]
  BY <1>4, <1>5, OccupiedHolds DEF Sound
<1>7. e # Empty /\ e.key \in Objects /\ e.value \in Hashes
  BY EntryIsNotEmpty
<1>8. PICK far \in Nat : /\ far = Far(table, i, c)
                         /\ far = Psl(e, i, c)
                         /\ far = ExactPsl(e.key, i, c)
  <2>1. Far(table, i, c) \in Nat
    BY <1>4, <1>5, OccupiedHolds DEF Sound
  <2> QED
    BY <1>4, <1>5, <1>6, <2>1, StoredIsRead DEF Far, Sound
<1>9. e.key # carry.key
  BY <1>4, <1>5, <1>6 DEF Knows
<1>10. PICK next \in Carried :
         /\ next = [e EXCEPT !.psl = far + 1]
         /\ next.key = e.key /\ next.psl = far + 1 /\ next.value = e.value
  <2>1. PICK f : f = [e EXCEPT !.psl = far + 1]
    OBVIOUS
  <2>2. f.key = e.key /\ f.psl = far + 1 /\ f.value = e.value
    BY <2>1 DEF Entry
  <2>3. f \in Carried
    BY <1>7, <2>1 DEF Entry, Carried
  <2> QED
    BY <2>1, <2>2, <2>3
<1> DEFINE u == Put(table, i, carry)
<1>11. Walked(w, i, c) = [table |-> u, carry |-> next]
  BY <1>2, <1>3, <1>5, <1>6, <1>7, <1>8, <1>9, <1>10, CarriedIsNotEmpty
     DEF Walked, Put
<1>12. /\ Sound(u, c)
       /\ Occupied(u, c) = Occupied(t, c)
       /\ u[i].key = carry.key
       /\ \A j \in 0 .. c - 1 : j # i => u[j] = table[j]
  <2>1. Sound(u, c)
    BY <1>4, <1>5, PutKeepsSound DEF Yields
  <2>2. /\ Occupied(u, c) = Occupied(table, c) \cup {i}
        /\ u[i].key = carry.key
        /\ \A j \in 0 .. c - 1 : j # i => u[j] = table[j]
    <3>1. Table(table, c)
      BY <1>4 DEF Sound
    <3> QED
      BY <3>1, PutEntry
  <2>3. Occupied(u, c) = Occupied(t, c)
    <3> HIDE DEF u
    <3> QED
      BY <1>4, <1>5, <2>2
  <2> QED
    BY <2>1, <2>2, <2>3
<1>13. ASSUME NEW p, NEW q
       PROVE  Keeps(u, c, p, q)
                <=> \/ p = carry.key /\ q = carry.value
                    \/ \E j \in Occupied(table, c) \ {i} :
                         table[j].key = p /\ table[j].value = q
  BY <1>4, PutKeeps DEF Sound
<1> HIDE DEF u
<1>14. carry.psl \in Nat /\ carry.key \in Objects
  BY DEF Carried
<1>15. Fits(u, At(o, n + 1, c), c, next)
  <2>1. PICK j \in 0 .. c - 1 :
          /\ j = (i + 1) % c /\ (j - 1) % c = i
          /\ ExactPsl(e.key, j, c) = far + 1
    <3>1. ExactPsl(e.key, i, c) < c - 1
      BY <1>4, <1>5, <1>8, <1>14
    <3>2. PICK j \in 0 .. c - 1 : j = (i + 1) % c
      BY <1>7, ExactOfNext
    <3>3. /\ (j - 1) % c = i
          /\ ExactPsl(e.key, j, c) = ExactPsl(e.key, i, c) + 1
      BY <1>7, <3>1, <3>2, ExactOfNext
    <3> QED
      BY <1>8, <3>2, <3>3
  <2>2. j = At(o, n + 1, c)
    BY <1>1, <2>1, NextSlot
  <2>3. Far(u, i, c) = carry.psl
    BY <1>4, <1>12 DEF Far, Fits
  <2>4. i \in Occupied(u, c)
    BY <1>4, <1>5, <1>12
  <2>5. carry.psl >= next.psl - 1
    BY <1>5, <1>8, <1>10, <1>14
  <2> QED
    BY <1>10, <2>1, <2>2, <2>3, <2>4, <2>5 DEF Fits
<1>16. ~ Knows(u, c, next.key)
  <2> SUFFICES ASSUME NEW j \in Occupied(u, c), u[j].key = e.key PROVE FALSE
    BY <1>10 DEF Knows
  <2>1. j \in Occupied(table, c) /\ j \in 0 .. c - 1
    BY <1>4, <1>12 DEF Occupied
  <2>2. j # i /\ table[j].key = e.key
    BY <1>9, <1>12, <2>1
  <2> QED
    BY <1>4, <1>5, <1>6, <2>1, <2>2 DEF Sound, Single
<1>17. ASSUME NEW p, NEW q
       PROVE  \/ Keeps(u, c, p, q)
              \/ p = next.key /\ q = next.value
              <=> Keeps(t, c, p, q) \/ (p = o /\ q = v)
  <2>1. Keeps(table, c, p, q)
          <=> \/ p = e.key /\ q = e.value
              \/ \E j \in Occupied(table, c) \ {i} :
                   table[j].key = p /\ table[j].value = q
    BY <1>5, <1>6 DEF Keeps
  <2> QED
    BY <1>4, <1>10, <1>13, <2>1
<1>18. next.psl <= n + 1
  BY <1>4, <1>5, <1>8, <1>10, <1>14
<1>19. u \in [0 .. c - 1 -> Entry \cup {Empty}]
  BY <1>12 DEF Sound, Table
<1> QED
  BY <1>1, <1>11, <1>12, <1>15, <1>16, <1>17, <1>18, <1>19 DEF Going

(* The entry at i stays, and carry goes on. *)
LEMMA WalkPasses ==
  ASSUME NEW c \in Nat, NEW t, NEW o \in Objects, NEW v, NEW w,
         NEW n \in 0 .. c - 2, Going(w, t, c, o, v, n),
         At(o, n, c) \in Occupied(t, c),
         ~ (Far(w.table, At(o, n, c), c) < w.carry.psl)
  PROVE  Going(Walked(w, At(o, n, c), c), t, c, o, v, n + 1)
<1>1. PICK i \in 0 .. c - 1 : i = At(o, n, c)
  <2>1. n \in 0 .. c - 1 /\ 0 \in 0 .. c - 1
    OBVIOUS
  <2> QED
    BY <2>1, ExactIsAt
<1>2. PICK carry \in Carried : carry = w.carry
  BY DEF Going
<1>3. PICK table \in [0 .. c - 1 -> Entry \cup {Empty}] : table = w.table
  BY DEF Going
<1>4. /\ Sound(table, c) /\ Occupied(table, c) = Occupied(t, c)
      /\ Fits(table, i, c, carry) /\ ~ Knows(table, c, carry.key)
      /\ carry.psl <= n
      /\ \A p, q : \/ Keeps(table, c, p, q)
                   \/ p = carry.key /\ q = carry.value
                   <=> Keeps(t, c, p, q) \/ (p = o /\ q = v)
  BY <1>1, <1>2, <1>3 DEF Going
<1>5. i \in Occupied(table, c)
  BY <1>1, <1>4
<1>6. PICK far \in Nat : far = Far(table, i, c) /\ far = Psl(table[i], i, c)
  <2>1. Far(table, i, c) \in Nat
    BY <1>4, <1>5, OccupiedHolds DEF Sound
  <2> QED
    BY <1>4, <1>5, <2>1, StoredIsRead DEF Sound
<1>7. carry.psl \in Nat /\ carry.key \in Objects
  BY DEF Carried
<1>8. carry.psl <= far
  BY <1>1, <1>2, <1>3, <1>6, <1>7
<1>9. table[i] # Empty /\ table[i].key # carry.key
  BY <1>4, <1>5 DEF Knows, Occupied
<1>10. PICK next \in Carried :
         /\ next = [carry EXCEPT !.psl = @ + 1]
         /\ next.key = carry.key /\ next.psl = carry.psl + 1
         /\ next.value = carry.value
  <2>1. PICK f : f = [carry EXCEPT !.psl = @ + 1]
    OBVIOUS
  <2>2. /\ f.key = carry.key /\ f.psl = carry.psl + 1
        /\ f.value = carry.value
    BY <2>1 DEF Carried
  <2>3. f \in Carried
    BY <1>7, <2>1 DEF Carried
  <2> QED
    BY <2>1, <2>2, <2>3
<1>11. Walked(w, i, c) = [w EXCEPT !.carry.psl = @ + 1]
  BY <1>2, <1>3, <1>6, <1>8, <1>9, <1>7, CarriedIsNotEmpty DEF Walked
<1>12. w = [table |-> table, carry |-> carry]
  BY <1>2, <1>3 DEF Going
<1>13. [w EXCEPT !.carry.psl = @ + 1] = [table |-> table, carry |-> next]
  BY <1>10, <1>12
<1>14. Fits(table, At(o, n + 1, c), c, next)
  <2>1. carry.psl = ExactPsl(carry.key, i, c)
    BY <1>4 DEF Fits
  <2>2. PICK j \in 0 .. c - 1 :
          /\ j = (i + 1) % c /\ (j - 1) % c = i
          /\ ExactPsl(carry.key, j, c) = carry.psl + 1
    <3>1. ExactPsl(carry.key, i, c) < c - 1
      BY <1>4, <1>7, <2>1
    <3>2. PICK j \in 0 .. c - 1 : j = (i + 1) % c
      BY <1>7, ExactOfNext
    <3>3. /\ (j - 1) % c = i
          /\ ExactPsl(carry.key, j, c) = ExactPsl(carry.key, i, c) + 1
      BY <1>7, <3>1, <3>2, ExactOfNext
    <3> QED
      BY <2>1, <3>2, <3>3
  <2>3. j = At(o, n + 1, c)
    BY <1>1, <2>2, NextSlot
  <2>4. far >= next.psl - 1
    BY <1>7, <1>8, <1>10
  <2> QED
    BY <1>5, <1>6, <1>10, <2>2, <2>3, <2>4 DEF Fits
<1>15. next.psl <= n + 1
  BY <1>4, <1>7, <1>10
<1>16. PICK x : x = Walked(w, i, c)
  OBVIOUS
<1>17. /\ x.table = table /\ x.carry = next
       /\ x \in [table : [0 .. c - 1 -> Entry \cup {Empty}], carry : Carried]
  BY <1>11, <1>13, <1>16
<1>18. ~ Knows(table, c, next.key)
  BY <1>4, <1>10
<1>19. \A p, q : \/ Keeps(table, c, p, q)
                 \/ p = next.key /\ q = next.value
                 <=> Keeps(t, c, p, q) \/ (p = o /\ q = v)
  BY <1>4, <1>10
<1>20. Going(x, t, c, o, v, n + 1)
  BY <1>4, <1>14, <1>15, <1>17, <1>18, <1>19 DEF Going
<1> QED
  BY <1>1, <1>16, <1>20

(* The recursion of Placed has a solution. *)

WalkNext(t, c, o, v, f, n) ==
  IF n = 0 THEN [table |-> t, carry |-> [key |-> o, psl |-> 0, value |-> v]]
  ELSE Walked(f[n - 1], (Index(o, c) + n - 1) % c, c)

IsWalk(t, c, o, v, f, m) == f = [n \in 0 .. m |-> WalkNext(t, c, o, v, f, n)]

LEMMA WalkExists ==
  ASSUME NEW c, NEW t, NEW o, NEW v, NEW m \in Nat
  PROVE  \E f : IsWalk(t, c, o, v, f, m)
<1> DEFINE Solved(f, k) == f = [n \in 0 .. k |-> WalkNext(t, c, o, v, f, n)]
           S == {k \in 0 .. m : \E f : Solved(f, k)}
<1>1. 0 \in S
  <2> DEFINE f == [n \in 0 .. 0 |-> WalkNext(t, c, o, v, <<>>, 0)]
  <2>1. \A n \in 0 .. 0 : f[n] = WalkNext(t, c, o, v, f, n)
    BY DEF WalkNext
  <2>2. Solved(f, 0)
    BY <2>1
  <2> HIDE DEF f, Solved
  <2> QED
    BY <2>2
<1>2. ASSUME NEW k \in 0 .. m - 1, k \in S PROVE k + 1 \in S
  <2>1. PICK f : Solved(f, k)
    BY <1>2
  <2>2. PICK x : x = Walked(f[k], (Index(o, c) + (k + 1) - 1) % c, c)
    OBVIOUS
  <2> DEFINE g == [n \in 0 .. k + 1 |-> IF n = k + 1 THEN x ELSE f[n]]
  <2>3. ASSUME NEW n \in 0 .. k + 1 PROVE g[n] = WalkNext(t, c, o, v, g, n)
    <3>1. CASE n = k + 1
      <4>1. n # 0 /\ g[n] = x /\ g[n - 1] = f[k]
        BY <3>1
      <4> QED
        BY <2>2, <3>1, <4>1 DEF WalkNext
    <3>2. CASE n # k + 1
      <4>1. n \in 0 .. k /\ g[n] = f[n] /\ (n # 0 => g[n - 1] = f[n - 1])
        BY <3>2
      <4>2. f[n] = WalkNext(t, c, o, v, f, n)
        BY <2>1, <4>1
      <4> QED
        BY <4>1, <4>2 DEF WalkNext
    <3> QED
      BY <3>1, <3>2
  <2>4. Solved(g, k + 1)
    BY <2>3
  <2> HIDE DEF g, Solved
  <2> QED
    BY <2>4
<1>3. \A k \in 0 .. m : k \in S
  <2> HIDE DEF S
  <2> QED
    BY <1>1, <1>2, Induction
<1> QED
  BY <1>3 DEF IsWalk

LEMMA PlacedIsWalked ==
  ASSUME NEW c \in Nat, NEW t, NEW o, NEW v
  PROVE  \E f : /\ \A n \in 0 .. c : f[n] = WalkNext(t, c, o, v, f, n)
                /\ Placed(t, c, o, v) = f[c].table
<1> DEFINE Solved(f) == IsWalk(t, c, o, v, f, c)
           f == CHOOSE f : Solved(f)
<1>1. Solved(f)
  <2>1. \E g : Solved(g)
    BY WalkExists
  <2> HIDE DEF Solved
  <2> QED
    BY <2>1
<1>2. Placed(t, c, o, v) = f[c].table
  BY DEF Placed, WalkNext, IsWalk
<1> HIDE DEF f
<1>3. \A n \in 0 .. c : f[n] = WalkNext(t, c, o, v, f, n)
  BY <1>1 DEF IsWalk
<1> QED
  BY <1>2, <1>3

(* InsertKnownRoom remembers the hash of a new object, and no other slot   *)
(* comes into use than one.                                                *)
LEMMA PlacedInserts ==
  ASSUME NEW c \in Nat, NEW t, Sound(t, c), NEW o \in Objects,
         NEW v \in Hashes, ~ Knows(t, c, o),
         NEW empty \in 0 .. c - 1, empty \notin Occupied(t, c)
  PROVE  Inserted(Placed(t, c, o, v), t, c, o, v)
<1>1. PICK m \in 0 .. c - 1 : At(o, m, c) = empty
  BY ExactIsAt, ExactDistance
<1>2. PICK f : /\ \A n \in 0 .. c : f[n] = WalkNext(t, c, o, v, f, n)
               /\ Placed(t, c, o, v) = f[c].table
  BY PlacedIsWalked
<1> DEFINE S == {n \in 0 .. c : \/ n <= m /\ Going(f[n], t, c, o, v, n)
                                \/ Ended(f[n], t, c, o, v)}
<1>3. 0 \in S
  <2>1. PICK carry \in Carried :
          /\ carry = [key |-> o, psl |-> 0, value |-> v]
          /\ carry.key = o /\ carry.psl = 0 /\ carry.value = v
    <3>1. PICK e : e = [key |-> o, psl |-> 0, value |-> v]
      OBVIOUS
    <3>2. e.key = o /\ e.psl = 0 /\ e.value = v
      BY <3>1
    <3>3. e \in Carried
      BY <3>1 DEF Carried
    <3> QED
      BY <3>1, <3>2, <3>3
  <2>2. 0 \in 0 .. c /\ 0 <= m /\ 0 \in 0 .. c - 1
    OBVIOUS
  <2>3. PICK w : w = f[0]
    OBVIOUS
  <2>4. w = [table |-> t, carry |-> carry]
    BY <1>2, <2>1, <2>2, <2>3 DEF WalkNext
  <2>5. /\ w \in [table : [0 .. c - 1 -> Entry \cup {Empty}], carry : Carried]
        /\ w.table = t /\ w.carry = carry
    BY <2>4 DEF Sound, Table
  <2>6. ExactPsl(o, At(o, 0, c), c) = 0
    BY <2>2, ExactIsAt
  <2>7. Fits(t, At(o, 0, c), c, carry)
    BY <2>1, <2>6 DEF Fits
  <2>8. Going(w, t, c, o, v, 0)
    BY <2>1, <2>5, <2>7 DEF Going
  <2> QED
    BY <2>2, <2>3, <2>8
<1>4. ASSUME NEW n \in 0 .. c - 1, n \in S PROVE n + 1 \in S
  <2>1. /\ n + 1 \in 0 .. c /\ n + 1 # 0 /\ (n + 1) - 1 = n
        /\ Index(o, c) + (n + 1) - 1 = Index(o, c) + n
    <3>1. Index(o, c) \in 0 .. c - 1
      BY IndexInTable
    <3> QED
      BY <3>1
  <2>2. f[n + 1] = Walked(f[n], At(o, n, c), c)
    BY <1>2, <2>1 DEF WalkNext, At
  <2>3. CASE Ended(f[n], t, c, o, v)
    <3>1. f[n + 1] = f[n]
      BY <2>2, <2>3 DEF Walked, Ended
    <3> QED
      BY <2>1, <2>3, <3>1
  <2>4. CASE n <= m /\ Going(f[n], t, c, o, v, n)
    <3>1. CASE At(o, n, c) \notin Occupied(t, c)
      <4>1. Ended(f[n + 1], t, c, o, v)
        BY <2>2, <2>4, <3>1, WalkPutsDown
      <4> QED
        BY <2>1, <4>1
    <3>2. CASE At(o, n, c) \in Occupied(t, c)
      <4>1. n # m
        BY <1>1, <3>2
      <4>2. n \in 0 .. c - 2 /\ n + 1 <= m
        BY <2>4, <4>1
      <4>3. Going(f[n + 1], t, c, o, v, n + 1)
        BY <2>2, <2>4, <3>2, <4>2, WalkDisplaces, WalkPasses
      <4> QED
        BY <2>1, <4>2, <4>3
    <3> QED
      BY <3>1, <3>2
  <2> QED
    BY <1>4, <2>3, <2>4
<1>5. \A n \in 0 .. c : n \in S
  <2> HIDE DEF S
  <2> QED
    BY <1>3, <1>4, Induction
<1>6. c \in 0 .. c /\ ~ (c <= m)
  OBVIOUS
<1>7. Ended(f[c], t, c, o, v)
  BY <1>5, <1>6
<1> QED
  BY <1>2, <1>7 DEF Ended

-----------------------------------------------------------------------------
(* Growth *)

LEMMA OccupiedIsFinite ==
  ASSUME NEW c \in Nat, NEW t
  PROVE  IsFiniteSet(Occupied(t, c)) /\ Cardinality(Occupied(t, c)) \in 0 .. c
<1>1. IsFiniteSet(0 .. c - 1) /\ Cardinality(0 .. c - 1) = c
  BY FS_Interval
<1>2. Occupied(t, c) \in SUBSET (0 .. c - 1)
  BY DEF Occupied
<1>3. /\ IsFiniteSet(Occupied(t, c))
      /\ Cardinality(Occupied(t, c)) <= Cardinality(0 .. c - 1)
  BY <1>1, <1>2, FS_Subset
<1> QED
  BY <1>1, <1>3, FS_CardinalityType

LEMMA SlotIsFree ==
  ASSUME NEW c \in Nat, NEW t, Cardinality(Occupied(t, c)) < c
  PROVE  \E empty \in 0 .. c - 1 : empty \notin Occupied(t, c)
<1> SUFFICES ASSUME \A i \in 0 .. c - 1 : i \in Occupied(t, c) PROVE FALSE
  OBVIOUS
<1>1. Occupied(t, c) = 0 .. c - 1
  BY DEF Occupied
<1>2. Cardinality(0 .. c - 1) = c
  BY FS_Interval
<1> QED
  BY <1>1, <1>2

LEMMA InsertedIsCounted ==
  ASSUME NEW c \in Nat, NEW t, NEW u, NEW o, NEW v, Inserted(u, t, c, o, v)
  PROVE  Cardinality(Occupied(u, c)) = Cardinality(Occupied(t, c)) + 1
<1>1. PICK i \in (0 .. c - 1) \ Occupied(t, c) :
        Occupied(u, c) = Occupied(t, c) \cup {i}
  BY DEF Inserted
<1>2. IsFiniteSet(Occupied(t, c))
  BY OccupiedIsFinite
<1> QED
  BY <1>1, <1>2, FS_AddElement

LEMMA ClearedIsSound ==
  ASSUME NEW c \in Nat
  PROVE  Sound(Cleared(c), c) /\ Occupied(Cleared(c), c) = {}
BY DEF Cleared, Sound, Table, Ordered, Single, Occupied

MovedNext(f, i) ==
  IF i = 0 THEN Cleared(GrownCapacity)
  ELSE IF slots[i - 1] = Empty THEN f[i - 1]
  ELSE Placed(f[i - 1], GrownCapacity, slots[i - 1].key, slots[i - 1].value)

IsMove(f, m) == f = [i \in 0 .. m |-> MovedNext(f, i)]

LEMMA MoveExists == ASSUME NEW m \in Nat PROVE \E f : IsMove(f, m)
<1> DEFINE Solved(f, k) == f = [n \in 0 .. k |-> MovedNext(f, n)]
           S == {k \in 0 .. m : \E f : Solved(f, k)}
<1>1. 0 \in S
  <2> DEFINE f == [n \in 0 .. 0 |-> MovedNext(<<>>, 0)]
  <2>1. \A n \in 0 .. 0 : f[n] = MovedNext(f, n)
    BY DEF MovedNext
  <2>2. Solved(f, 0)
    BY <2>1
  <2> HIDE DEF f, Solved
  <2> QED
    BY <2>2
<1>2. ASSUME NEW k \in 0 .. m - 1, k \in S PROVE k + 1 \in S
  <2>1. PICK f : Solved(f, k)
    BY <1>2
  <2>2. PICK x : x = IF slots[k] = Empty THEN f[k]
                     ELSE Placed(f[k], GrownCapacity,
                                 slots[k].key, slots[k].value)
    OBVIOUS
  <2> DEFINE g == [n \in 0 .. k + 1 |-> IF n = k + 1 THEN x ELSE f[n]]
  <2>3. ASSUME NEW n \in 0 .. k + 1 PROVE g[n] = MovedNext(g, n)
    <3>1. CASE n = k + 1
      <4>1. n # 0 /\ g[n] = x /\ g[n - 1] = f[k] /\ n - 1 = k
        BY <3>1
      <4> QED
        BY <2>2, <4>1 DEF MovedNext
    <3>2. CASE n # k + 1
      <4>1. n \in 0 .. k /\ g[n] = f[n] /\ (n # 0 => g[n - 1] = f[n - 1])
        BY <3>2
      <4>2. f[n] = MovedNext(f, n)
        BY <2>1, <4>1
      <4> QED
        BY <4>1, <4>2 DEF MovedNext
    <3> QED
      BY <3>1, <3>2
  <2>4. Solved(g, k + 1)
    BY <2>3
  <2> HIDE DEF g, Solved
  <2> QED
    BY <2>4
<1>3. \A k \in 0 .. m : k \in S
  <2> HIDE DEF S
  <2> QED
    BY <1>1, <1>2, Induction
<1> QED
  BY <1>3 DEF IsMove

LEMMA GrownIsMoved ==
  ASSUME capacity \in Nat
  PROVE  \E f : /\ \A i \in 0 .. capacity : f[i] = MovedNext(f, i)
                /\ Grown = f[capacity]
<1> DEFINE Solved(f) == IsMove(f, capacity)
           f == CHOOSE f : Solved(f)
<1>1. Solved(f)
  <2>1. \E g : Solved(g)
    BY MoveExists
  <2> HIDE DEF Solved
  <2> QED
    BY <2>1
<1>2. Grown = f[capacity]
  BY DEF Grown, MovedNext, IsMove
<1> HIDE DEF f
<1>3. \A i \in 0 .. capacity : f[i] = MovedNext(f, i)
  BY <1>1 DEF IsMove
<1> QED
  BY <1>2, <1>3

HeldBefore(i) == {j \in Holding : j < i}

(* u has what the first i slots had. *)
MovedUpTo(u, i) ==
  /\ Sound(u, GrownCapacity)
  /\ Cardinality(Occupied(u, GrownCapacity)) = Cardinality(HeldBefore(i))
  /\ \A p, q : Keeps(u, GrownCapacity, p, q)
                 <=> \E j \in HeldBefore(i) : /\ slots[j].key = p
                                              /\ slots[j].value = q

LEMMA HeldIsFinite ==
  ASSUME capacity \in Nat, NEW i \in Nat
  PROVE  IsFiniteSet(HeldBefore(i)) /\ Cardinality(HeldBefore(i)) \in 0 .. i
<1>1. IsFiniteSet(0 .. i - 1) /\ Cardinality(0 .. i - 1) = i
  BY FS_Interval
<1>2. HeldBefore(i) \in SUBSET (0 .. i - 1)
  BY DEF HeldBefore, Holding, Occupied
<1>3. /\ IsFiniteSet(HeldBefore(i))
      /\ Cardinality(HeldBefore(i)) <= Cardinality(0 .. i - 1)
  BY <1>1, <1>2, FS_Subset
<1> QED
  BY <1>1, <1>3, FS_CardinalityType

LEMMA OneIsMoved ==
  ASSUME capacity \in Nat, Sound(slots, capacity), GrownCapacity \in Nat,
         capacity < GrownCapacity, NEW i \in Holding, NEW u, MovedUpTo(u, i)
  PROVE  MovedUpTo(Placed(u, GrownCapacity, slots[i].key, slots[i].value),
                   i + 1)
<1> DEFINE c == GrownCapacity
           o == slots[i].key
           v == slots[i].value
           w == Placed(u, c, o, v)
<1>1. i \in 0 .. capacity - 1 /\ o \in Objects /\ v \in Hashes
  BY OccupiedHolds DEF Sound, Holding
<1>2. /\ Sound(u, c)
      /\ Cardinality(Occupied(u, c)) = Cardinality(HeldBefore(i))
      /\ \A p, q : Keeps(u, c, p, q)
                     <=> \E j \in HeldBefore(i) : /\ slots[j].key = p
                                                  /\ slots[j].value = q
  BY DEF MovedUpTo
<1>3. i \in Nat /\ c \in Nat /\ i < c
  BY <1>1
<1>4. IsFiniteSet(HeldBefore(i)) /\ Cardinality(HeldBefore(i)) \in 0 .. i
  BY <1>3, HeldIsFinite
<1> HIDE DEF c, o, v, w
<1>5. PICK empty \in 0 .. c - 1 : empty \notin Occupied(u, c)
  <2>1. Cardinality(Occupied(u, c)) < c
    BY <1>2, <1>3, <1>4
  <2> QED
    BY <1>3, <2>1, SlotIsFree
<1>6. ~ Knows(u, c, o)
  <2> SUFFICES ASSUME NEW k \in Occupied(u, c), u[k].key = o PROVE FALSE
    BY DEF Knows
  <2>1. Keeps(u, c, o, u[k].value)
    BY DEF Keeps
  <2>2. PICK j \in HeldBefore(i) : slots[j].key = o
    BY <1>2, <2>1
  <2>3. j \in Holding /\ j < i
    BY DEF HeldBefore
  <2>4. j = i
    BY <2>2, <2>3 DEF Sound, Single, Holding, o
  <2> QED
    BY <1>3, <2>3, <2>4
<1>7. Inserted(w, u, c, o, v)
  BY <1>1, <1>2, <1>3, <1>5, <1>6, PlacedInserts DEF w
<1>8. HeldBefore(i + 1) = HeldBefore(i) \cup {i} /\ i \notin HeldBefore(i)
  BY <1>3 DEF HeldBefore, Holding, Occupied
<1>9. Cardinality(HeldBefore(i + 1)) = Cardinality(HeldBefore(i)) + 1
  BY <1>4, <1>8, FS_AddElement
<1>10. Cardinality(Occupied(w, c)) = Cardinality(HeldBefore(i + 1))
  BY <1>2, <1>3, <1>7, <1>9, InsertedIsCounted
<1>11. ASSUME NEW p, NEW q
       PROVE  Keeps(w, c, p, q)
                <=> \E j \in HeldBefore(i + 1) : /\ slots[j].key = p
                                                 /\ slots[j].value = q
  <2>1. Keeps(w, c, p, q) <=> Keeps(u, c, p, q) \/ (p = o /\ q = v)
    BY <1>7 DEF Inserted
  <2> QED
    BY <1>2, <1>8, <2>1 DEF o, v
<1> QED
  BY <1>7, <1>10, <1>11 DEF MovedUpTo, Inserted, c, o, v, w

(* A table that has grown remembers what it did, and nothing else. *)
LEMMA GrownKeeps ==
  ASSUME capacity \in Nat, Sound(slots, capacity), GrownCapacity \in Nat,
         capacity < GrownCapacity
  PROVE  /\ Sound(Grown, GrownCapacity)
         /\ Cardinality(Occupied(Grown, GrownCapacity)) = Cardinality(Holding)
         /\ \A p, q : Keeps(Grown, GrownCapacity, p, q)
                        <=> Keeps(slots, capacity, p, q)
<1>1. PICK f : /\ \A i \in 0 .. capacity : f[i] = MovedNext(f, i)
               /\ Grown = f[capacity]
  BY GrownIsMoved
<1> DEFINE S == {i \in 0 .. capacity : MovedUpTo(f[i], i)}
<1>2. 0 \in S
  <2>1. 0 \in 0 .. capacity /\ f[0] = Cleared(GrownCapacity)
    BY <1>1 DEF MovedNext
  <2>2. HeldBefore(0) = {}
    BY DEF HeldBefore, Holding, Occupied
  <2>3. Sound(f[0], GrownCapacity) /\ Occupied(f[0], GrownCapacity) = {}
    BY <2>1, ClearedIsSound
  <2>4. MovedUpTo(f[0], 0)
    BY <2>2, <2>3 DEF MovedUpTo, Keeps
  <2> QED
    BY <2>1, <2>4
<1>3. ASSUME NEW i \in 0 .. capacity - 1, i \in S PROVE i + 1 \in S
  <2>1. i + 1 \in 0 .. capacity /\ i + 1 # 0 /\ (i + 1) - 1 = i
    OBVIOUS
  <2>2. f[i + 1] = IF slots[i] = Empty THEN f[i]
                   ELSE Placed(f[i], GrownCapacity,
                               slots[i].key, slots[i].value)
    BY <1>1, <2>1 DEF MovedNext
  <2>3. MovedUpTo(f[i], i)
    BY <1>3
  <2>4. CASE slots[i] = Empty
    <3>1. HeldBefore(i + 1) = HeldBefore(i)
      BY <2>4 DEF HeldBefore, Holding, Occupied
    <3>2. MovedUpTo(f[i + 1], i + 1)
      BY <2>2, <2>3, <2>4, <3>1 DEF MovedUpTo
    <3> QED
      BY <2>1, <3>2
  <2>5. CASE slots[i] # Empty
    <3>1. i \in Holding
      BY <2>5 DEF Holding, Occupied
    <3>2. MovedUpTo(f[i + 1], i + 1)
      BY <2>2, <2>3, <2>5, <3>1, OneIsMoved
    <3> QED
      BY <2>1, <3>2
  <2> QED
    BY <2>4, <2>5
<1>4. \A i \in 0 .. capacity : i \in S
  <2> HIDE DEF S
  <2> QED
    BY <1>2, <1>3, Induction
<1>5. MovedUpTo(Grown, capacity)
  BY <1>1, <1>4
<1>6. HeldBefore(capacity) = Holding
  BY DEF HeldBefore, Holding, Occupied
<1> QED
  BY <1>5, <1>6 DEF MovedUpTo, Keeps, Holding

-----------------------------------------------------------------------------
(* Deletion *)

(* How far a slot is from the hole *)
Past(i, hole) == (i - hole) % capacity

LEMMA PastIs ==
  ASSUME capacity \in Nat, NEW hole \in 0 .. capacity - 1,
         NEW i \in 0 .. capacity - 1
  PROVE  /\ Past(i, hole) \in 0 .. capacity - 1
         /\ Past(i, hole) = IF i < hole THEN i - hole + capacity ELSE i - hole
         /\ Past(i, hole) = 0 <=> i = hole
         /\ After(hole, Past(i, hole)) = i
<1>1. PICK d \in 0 .. capacity :
        /\ d = Past(i, hole) /\ d < capacity
        /\ d = IF i < hole THEN i - hole + capacity ELSE i - hole
  BY SlotDistance DEF Past
<1>2. After(hole, d) = IF hole + d < capacity THEN hole + d
                       ELSE hole + d - capacity
  BY SlotAfter DEF After
<1> QED
  BY <1>1, <1>2

LEMMA AfterIs ==
  ASSUME capacity \in Nat, NEW hole \in 0 .. capacity - 1,
         NEW n \in 0 .. capacity - 1
  PROVE  After(hole, n) \in 0 .. capacity - 1 /\ Past(After(hole, n), hole) = n
<1>1. n \in 0 .. capacity
  OBVIOUS
<1>2. PICK i \in 0 .. capacity - 1 :
        /\ i = After(hole, n)
        /\ i = IF hole + n < capacity THEN hole + n ELSE hole + n - capacity
  BY <1>1, SlotAfter DEF After
<1>3. Past(i, hole) = IF i < hole THEN i - hole + capacity ELSE i - hole
  BY PastIs
<1> QED
  BY <1>2, <1>3

LEMMA PastNext ==
  ASSUME capacity \in Nat, NEW hole \in 0 .. capacity - 1,
         NEW i \in 0 .. capacity - 1, NEW j, j = (i + 1) % capacity
  PROVE  /\ j \in 0 .. capacity - 1 /\ (j - 1) % capacity = i
         /\ Past(i, hole) < capacity - 1 => Past(j, hole) = Past(i, hole) + 1
         /\ Past(j, hole) > 0 => Past(i, hole) = Past(j, hole) - 1
<1>1. 1 \in 0 .. capacity
  OBVIOUS
<1>2. /\ j \in 0 .. capacity - 1
      /\ j = IF i + 1 < capacity THEN i + 1 ELSE i + 1 - capacity
  BY <1>1, SlotAfter
<1>3. (j - 1) % capacity = IF j = 0 THEN capacity - 1 ELSE j - 1
  BY <1>2, SlotBefore
<1>4. /\ Past(j, hole) = IF j < hole THEN j - hole + capacity ELSE j - hole
      /\ Past(i, hole) = IF i < hole THEN i - hole + capacity ELSE i - hole
  BY <1>2, PastIs
<1> QED
  BY <1>2, <1>3, <1>4

(* Its two halves *)
LEMMA SlotComesBefore ==
  ASSUME NEW c \in Nat, NEW i \in 0 .. c - 1, NEW j, j = (i + 1) % c
  PROVE  (j - 1) % c = i
<1>1. 1 \in 0 .. c
  OBVIOUS
<1>2. /\ j \in 0 .. c - 1
      /\ j = IF i + 1 < c THEN i + 1 ELSE i + 1 - c
  BY <1>1, SlotAfter
<1>3. (j - 1) % c = IF j = 0 THEN c - 1 ELSE j - 1
  BY <1>2, SlotBefore
<1> QED
  BY <1>2, <1>3

LEMMA PastGrows ==
  ASSUME capacity \in Nat, NEW hole \in 0 .. capacity - 1,
         NEW i \in 0 .. capacity - 1, NEW j, j = (i + 1) % capacity
  PROVE  /\ Past(i, hole) < capacity - 1 => Past(j, hole) = Past(i, hole) + 1
         /\ Past(j, hole) > 0 => Past(i, hole) = Past(j, hole) - 1
BY PastNext

LEMMA SlotIsNext ==
  ASSUME NEW c \in Nat, NEW j \in 0 .. c - 1, NEW i, i = (j - 1) % c
  PROVE  i \in 0 .. c - 1 /\ j = (i + 1) % c
<1>1. /\ i \in 0 .. c - 1
      /\ i = IF j = 0 THEN c - 1 ELSE j - 1
  BY SlotBefore
<1>2. 1 \in 0 .. c
  OBVIOUS
<1>3. (i + 1) % c = IF i + 1 < c THEN i + 1 ELSE i + 1 - c
  BY <1>1, <1>2, SlotAfter
<1> QED
  BY <1>1, <1>3

(* The entries that are moved back, and the slot after them *)
LEMMA RunEnds ==
  ASSUME capacity \in Nat, Sound(slots, capacity), NEW hole \in Holding,
         NEW empty \in 0 .. capacity - 1, empty \notin Holding
  PROVE  /\ Run(hole) \in 0 .. capacity - 2
         /\ \A i \in 0 .. capacity - 1 :
              /\ Past(i, hole) <= Run(hole) => i \in Holding
              /\ Past(i, hole) \in 1 .. Run(hole) => Far(slots, i, capacity) > 0
              /\ Past(i, hole) = Run(hole) + 1 /\ i \in Holding
                   => Far(slots, i, capacity) = 0
<1> DEFINE Stop(n) == \/ slots[After(hole, n)] = Empty
                      \/ Psl(slots[After(hole, n)], After(hole, n), capacity) = 0
           S == {n \in 1 .. capacity : Stop(n)}
<1>1. hole \in 0 .. capacity - 1
  BY DEF Holding, Occupied
<1>2. ASSUME NEW i \in 0 .. capacity - 1
      PROVE  Stop(Past(i, hole))
               <=> i \notin Holding \/ Far(slots, i, capacity) = 0
  <2>1. After(hole, Past(i, hole)) = i
    BY <1>1, PastIs
  <2>2. i \in Holding => Psl(slots[i], i, capacity) = Far(slots, i, capacity)
    BY StoredIsRead DEF Sound, Holding
  <2> QED
    BY <2>1, <2>2 DEF Holding, Occupied
<1> HIDE DEF Stop
<1>3. /\ Past(empty, hole) \in 1 .. capacity - 1
      /\ Past(empty, hole) \in S
  <2>1. Past(empty, hole) \in 1 .. capacity - 1
    BY <1>1, PastIs
  <2> QED
    BY <1>2, <2>1
<1>4. PICK m \in 1 .. capacity - 1 :
        m = Min(S) /\ m \in S /\ \A n \in S : m <= n
  <2>1. S \in SUBSET Nat /\ S # {}
    BY <1>3
  <2>2. Min(S) \in S /\ \A n \in S : Min(S) <= n
    <3> HIDE DEF S
    <3> QED
      BY <2>1, SmallestIsMin
  <2>3. Min(S) \in 1 .. capacity /\ Min(S) <= Past(empty, hole)
    BY <1>3, <2>2
  <2> QED
    BY <1>3, <2>2, <2>3
<1>5. Run(hole) = m - 1
  BY <1>4 DEF Run, Stop
<1>6. ASSUME NEW i \in 0 .. capacity - 1, Past(i, hole) \in 1 .. m - 1
      PROVE  i \in Holding /\ Far(slots, i, capacity) > 0
  <2>1. Past(i, hole) \notin S
    BY <1>4, <1>6
  <2>2. ~ Stop(Past(i, hole))
    BY <1>6, <2>1
  <2>3. i \in Holding /\ Far(slots, i, capacity) # 0
    BY <1>2, <2>2
  <2>4. Far(slots, i, capacity) \in 0 .. capacity - 1
    BY <2>3, OccupiedHolds DEF Sound, Holding
  <2> QED
    BY <2>3, <2>4
<1>7. ASSUME NEW i \in 0 .. capacity - 1, Past(i, hole) = 0
      PROVE  i \in Holding
  BY <1>1, <1>7, PastIs
<1>8. ASSUME NEW i \in 0 .. capacity - 1, Past(i, hole) = m, i \in Holding
      PROVE  Far(slots, i, capacity) = 0
  <2>1. Stop(Past(i, hole))
    BY <1>4, <1>8
  <2> QED
    BY <1>2, <1>8, <2>1
<1>9. \A i \in 0 .. capacity - 1 : Past(i, hole) \in 0 .. capacity - 1
  BY <1>1, PastIs
<1> QED
  BY <1>4, <1>5, <1>6, <1>7, <1>8, <1>9

(* u is what the deletion of the entry in hole leaves. *)
Shifted(u, hole) ==
  u = [i \in 0 .. capacity - 1 |->
         IF Past(i, hole) > Run(hole) THEN slots[i]
         ELSE IF Past(i, hole) = Run(hole) THEN Empty
         ELSE [slots[(i + 1) % capacity] EXCEPT !.psl =
                 Stored(Psl(slots[(i + 1) % capacity], (i + 1) % capacity,
                            capacity) - 1)]]

(* Where what is now in slot i was *)
Source(i, hole) ==
  IF Past(i, hole) > Run(hole) THEN i ELSE (i + 1) % capacity

LEMMA ShiftedSlot ==
  ASSUME capacity \in Nat, Sound(slots, capacity), NEW hole \in Holding,
         NEW empty \in 0 .. capacity - 1, empty \notin Holding,
         NEW u, Shifted(u, hole), NEW i \in 0 .. capacity - 1
  PROVE  LET j == Source(i, hole)
         IN /\ u[i] \in Entry \cup {Empty}
            /\ i \in Occupied(u, capacity)
                 <=> i \in Holding /\ Past(i, hole) # Run(hole)
            /\ i \in Occupied(u, capacity) =>
                 /\ j \in Holding /\ j # hole
                 /\ u[i].key = slots[j].key /\ u[i].value = slots[j].value
                 /\ u[i].psl = Stored(Far(u, i, capacity))
                 /\ Past(i, hole) > Run(hole) =>
                      /\ u[i] = slots[i]
                      /\ Far(u, i, capacity) = Far(slots, i, capacity)
                 /\ Past(i, hole) < Run(hole) =>
                      /\ Past(j, hole) = Past(i, hole) + 1
                      /\ Far(u, i, capacity) = Far(slots, j, capacity) - 1
                      /\ Far(slots, j, capacity) > 0
<1>1. hole \in 0 .. capacity - 1
  BY DEF Holding, Occupied
<1>2. PICK d \in 0 .. capacity - 1 : d = Past(i, hole)
  BY <1>1, PastIs
<1>3. PICK r \in 0 .. capacity - 2 : r = Run(hole)
  BY RunEnds
<1>4. i \in Holding <=> slots[i] # Empty
  BY DEF Holding, Occupied
<1>5. i \in Occupied(u, capacity) <=> u[i] # Empty
  BY DEF Occupied
<1>6. slots[i] \in Entry \cup {Empty}
  BY DEF Sound, Table
<1>7. CASE d > r
  <2>1. u[i] = slots[i] /\ Source(i, hole) = i
    BY <1>2, <1>3, <1>7 DEF Shifted, Source
  <2>2. Far(u, i, capacity) = Far(slots, i, capacity)
    BY <2>1 DEF Far
  <2>3. i # hole
    BY <1>1, <1>2, <1>7, PastIs
  <2>4. i \in Holding => slots[i].psl = Stored(Far(slots, i, capacity))
    BY DEF Sound, Ordered, InOrder, Holding
  <2> QED
    BY <1>2, <1>3, <1>4, <1>5, <1>6, <1>7, <2>1, <2>2, <2>3, <2>4
<1>8. CASE d = r
  <2>1. u[i] = Empty
    <3>1. ~ (Past(i, hole) > Run(hole)) /\ Past(i, hole) = Run(hole)
      BY <1>2, <1>3, <1>8
    <3> QED
      BY <3>1 DEF Shifted
  <2> QED
    BY <1>2, <1>3, <1>5, <1>8, <2>1
<1>9. CASE d < r
  <2>1. PICK j \in 0 .. capacity - 1 : j = (i + 1) % capacity
    <3>1. 1 \in 0 .. capacity
      BY <1>1
    <3> QED
      BY <3>1, SlotAfter
  <2>2. /\ Past(j, hole) = d + 1
        /\ (j - 1) % capacity = i
    <3>1. d < capacity - 1
      BY <1>2, <1>9
    <3>2. Past(j, hole) = d + 1
      BY <1>1, <1>2, <2>1, <3>1, PastGrows
    <3>3. (j - 1) % capacity = i
      BY <1>1, <2>1, SlotComesBefore
    <3> QED
      BY <3>2, <3>3
  <2>3. i \in Holding
    BY <1>2, <1>3, <1>9, RunEnds
  <2>4. j \in Holding /\ Far(slots, j, capacity) > 0
    BY <1>2, <1>3, <1>9, <2>2, RunEnds
  <2>5. j # hole
    BY <1>1, <2>2, PastIs
  <2>6. PICK e \in Entry : e = slots[j]
    BY <2>4, OccupiedHolds DEF Sound, Holding
  <2>7. PICK far \in Nat : /\ far = Far(slots, j, capacity) /\ far > 0
                           /\ far = Psl(e, j, capacity)
                           /\ far = ExactPsl(e.key, j, capacity)
    <3>1. Far(slots, j, capacity) \in Nat
      BY <2>4, OccupiedHolds DEF Sound, Holding
    <3>2. Psl(e, j, capacity) = Far(slots, j, capacity)
      BY <2>4, <2>6, StoredIsRead DEF Sound, Holding
    <3> QED
      BY <2>4, <2>6, <3>1, <3>2 DEF Far
  <2>8. Stored(far - 1) \in 0 .. Saturated
    BY <2>7, IdentityHashTableAssumption DEF Stored
  <2>9. PICK f : f = [e EXCEPT !.psl = Stored(far - 1)]
    OBVIOUS
  <2>10. /\ f \in Entry /\ f.key = e.key /\ f.value = e.value
         /\ f.psl = Stored(far - 1)
    BY <2>8, <2>9 DEF Entry
  <2>11. u[i] = f /\ Source(i, hole) = j
    BY <1>2, <1>3, <1>9, <2>1, <2>6, <2>7, <2>9 DEF Shifted, Source
  <2>12. e.key \in Objects
    BY EntryIsNotEmpty
  <2>13. ExactPsl(e.key, i, capacity) = far - 1
    BY <2>1, <2>7, <2>12, ExactOfNext
  <2>14. Far(u, i, capacity) = far - 1
    BY <2>10, <2>11, <2>13 DEF Far
  <2>15. f # Empty
    BY <2>10, EntryIsNotEmpty
  <2>16. /\ u[i] \in Entry \cup {Empty} /\ i \in Occupied(u, capacity)
         /\ Past(i, hole) < Run(hole) /\ Past(i, hole) # Run(hole)
         /\ ~ (Past(i, hole) > Run(hole))
    BY <1>2, <1>3, <1>5, <1>9, <2>10, <2>11, <2>15
  <2>17. /\ u[i].key = slots[j].key /\ u[i].value = slots[j].value
         /\ u[i].psl = Stored(Far(u, i, capacity))
         /\ Far(u, i, capacity) = Far(slots, j, capacity) - 1
    BY <2>6, <2>7, <2>10, <2>11, <2>14
  <2>18. Past(j, hole) = Past(i, hole) + 1
    BY <1>2, <2>2
  <2> QED
    BY <2>3, <2>4, <2>5, <2>11, <2>16, <2>17, <2>18
<1> QED
  BY <1>7, <1>8, <1>9

LEMMA ShiftedIsOrdered ==
  ASSUME capacity \in Nat, Sound(slots, capacity), NEW hole \in Holding,
         NEW empty \in 0 .. capacity - 1, empty \notin Holding,
         NEW u, Shifted(u, hole)
  PROVE  Ordered(u, capacity)
<1> DEFINE c == capacity
<1> SUFFICES ASSUME NEW i \in Occupied(u, c) PROVE InOrder(u, i, c)
  BY DEF Ordered
<1>1. hole \in 0 .. c - 1 /\ i \in 0 .. c - 1
  BY DEF Holding, Occupied
<1>2. PICK r \in 0 .. c - 2 : r = Run(hole)
  BY RunEnds
<1>3. PICK d \in 0 .. c - 1 : d = Past(i, hole)
  BY <1>1, PastIs
<1>4. i \in Holding /\ d # r /\ u[i].psl = Stored(Far(u, i, c))
  BY <1>1, <1>2, <1>3, ShiftedSlot
<1> SUFFICES ASSUME Far(u, i, c) > 0
             PROVE  /\ u[(i - 1) % c] # Empty
                    /\ Far(u, (i - 1) % c, c) >= Far(u, i, c) - 1
  BY <1>4 DEF InOrder
<1>5. PICK b \in 0 .. c - 1 : b = (i - 1) % c /\ i = (b + 1) % c
  <2>1. PICK b \in 0 .. c - 1 : b = (i - 1) % c
    BY <1>1, SlotBefore
  <2>2. i = (b + 1) % c
    BY <1>1, <2>1, SlotIsNext
  <2> QED
    BY <2>1, <2>2
<1>6. PICK e \in 0 .. c - 1 : e = Past(b, hole)
  BY <1>1, PastIs
<1>7. (e < c - 1 => d = e + 1) /\ (d > 0 => e = d - 1)
  <2>1. i = (b + 1) % capacity
    BY <1>5
  <2> QED
    BY <1>1, <1>3, <1>6, <2>1, PastGrows
<1>8. ASSUME NEW k \in Holding
      PROVE  /\ Far(slots, k, c) \in 0 .. c - 1
             /\ Far(slots, k, c) > 0 =>
                  /\ (k - 1) % c \in Holding
                  /\ Far(slots, (k - 1) % c, c) >= Far(slots, k, c) - 1
  <2>1. Far(slots, k, c) \in 0 .. c - 1 /\ k \in 0 .. c - 1
    BY OccupiedHolds DEF Sound, Holding
  <2>2. (k - 1) % c \in 0 .. c - 1
    BY <2>1, SlotBefore
  <2> QED
    BY <2>1, <2>2 DEF Sound, Ordered, InOrder, Holding, Occupied
<1>9. CASE d > r
  <2>1. Far(u, i, c) = Far(slots, i, c)
    BY <1>1, <1>2, <1>3, <1>9, ShiftedSlot
  <2>2. e = d - 1
    BY <1>7, <1>9
  <2>3. e # r
    <3>1. e = r => d = r + 1
      BY <2>2
    <3>2. d = r + 1 => Far(slots, i, c) = 0
      BY <1>1, <1>2, <1>3, <1>4, RunEnds
    <3> QED
      BY <2>1, <3>1, <3>2
  <2>4. e > r
    BY <1>9, <2>2, <2>3
  <2>5. b \in Holding /\ Far(slots, b, c) >= Far(slots, i, c) - 1
    BY <1>4, <1>5, <1>8, <2>1
  <2>6. b \in Occupied(u, c) /\ Far(u, b, c) = Far(slots, b, c)
    BY <1>2, <1>6, <2>4, <2>5, ShiftedSlot
  <2> QED
    BY <1>5, <2>1, <2>5, <2>6 DEF Occupied
<1>10. CASE d < r
  <2>1. PICK j \in Holding : /\ j = (i + 1) % c
                             /\ Far(u, i, c) = Far(slots, j, c) - 1
                             /\ Far(slots, j, c) > 0
    BY <1>1, <1>2, <1>3, <1>10, ShiftedSlot DEF Source
  <2>2. (j - 1) % c = i
    <3>1. 1 \in 0 .. c
      BY <1>1
    <3>2. j = IF i + 1 < c THEN i + 1 ELSE i + 1 - c
      BY <1>1, <2>1, <3>1, SlotAfter
    <3>3. j \in 0 .. c - 1
      BY <1>1, <3>2
    <3>4. (j - 1) % c = IF j = 0 THEN c - 1 ELSE j - 1
      BY <3>3, SlotBefore
    <3> QED
      BY <1>1, <3>2, <3>4
  <2>3. Far(slots, i, c) >= Far(u, i, c) /\ Far(slots, i, c) \in 0 .. c - 1
    BY <1>4, <1>8, <2>1, <2>2
  <2>4. Far(slots, j, c) \in 0 .. c - 1
    BY <1>8
  <2>5. Far(u, i, c) \in Nat /\ Far(slots, i, c) > 0
    BY <2>1, <2>3, <2>4
  <2>6. b \in Holding /\ Far(slots, b, c) >= Far(slots, i, c) - 1
    BY <1>4, <1>5, <1>8, <2>5
  <2>7. CASE d = 0
    <3>1. e = c - 1
      BY <1>2, <1>3, <1>6, <1>7, <2>7
    <3>2. e > r
      BY <1>2, <3>1
    <3>3. b \in Occupied(u, c) /\ Far(u, b, c) = Far(slots, b, c)
      BY <1>2, <1>6, <2>6, <3>2, ShiftedSlot
    <3>4. Far(slots, b, c) \in 0 .. c - 1
      BY <1>8, <2>6
    <3> QED
      BY <1>5, <2>3, <2>5, <2>6, <3>3, <3>4 DEF Occupied
  <2>8. CASE d > 0
    <3>1. e = d - 1 /\ e < r
      BY <1>7, <1>10, <2>8
    <3>2. /\ b \in Occupied(u, c)
          /\ Far(u, b, c) = Far(slots, Source(b, hole), c) - 1
      <4>1. Past(b, hole) # Run(hole) /\ Past(b, hole) < Run(hole)
        BY <1>2, <1>6, <3>1
      <4>2. b \in Occupied(u, c)
        BY <2>6, <4>1, ShiftedSlot
      <4> QED
        BY <4>1, <4>2, ShiftedSlot
    <3>3. Source(b, hole) = i
      BY <1>2, <1>5, <1>6, <3>1 DEF Source
    <3> QED
      BY <1>5, <2>3, <2>5, <3>2, <3>3 DEF Occupied
  <2> QED
    BY <2>7, <2>8
<1> QED
  BY <1>2, <1>3, <1>4, <1>9, <1>10

(* Two slots are not filled from one. *)
LEMMA SourceTells ==
  ASSUME capacity \in Nat, Sound(slots, capacity), NEW hole \in Holding,
         NEW empty \in 0 .. capacity - 1, empty \notin Holding,
         NEW u, Shifted(u, hole),
         NEW i \in Occupied(u, capacity), NEW k \in Occupied(u, capacity),
         Source(i, hole) = Source(k, hole)
  PROVE  i = k
<1>1. /\ hole \in 0 .. capacity - 1 /\ i \in 0 .. capacity - 1
      /\ k \in 0 .. capacity - 1
  BY DEF Holding, Occupied
<1>2. PICK r \in 0 .. capacity - 2 : r = Run(hole)
  BY RunEnds
<1>3. PICK d \in 0 .. capacity - 1 : d = Past(i, hole)
  BY <1>1, PastIs
<1>4. PICK e \in 0 .. capacity - 1 : e = Past(k, hole)
  BY <1>1, PastIs
<1>5. Past(Source(i, hole), hole) = IF d > r THEN d ELSE d + 1
  <2>1. CASE d > r
    BY <1>2, <1>3, <2>1 DEF Source
  <2>2. CASE ~ (d > r)
    <3>1. d < r
      BY <1>1, <1>2, <1>3, <2>2, ShiftedSlot
    <3> QED
      BY <1>1, <1>2, <1>3, <2>2, <3>1, ShiftedSlot
  <2> QED
    BY <2>1, <2>2
<1>6. Past(Source(k, hole), hole) = IF e > r THEN e ELSE e + 1
  <2>1. CASE e > r
    BY <1>2, <1>4, <2>1 DEF Source
  <2>2. CASE ~ (e > r)
    <3>1. e < r
      BY <1>1, <1>2, <1>4, <2>2, ShiftedSlot
    <3> QED
      BY <1>1, <1>2, <1>4, <2>2, <3>1, ShiftedSlot
  <2> QED
    BY <2>1, <2>2
<1>7. d # r /\ e # r
  BY <1>1, <1>2, <1>3, <1>4, ShiftedSlot
<1>8. d = e
  BY <1>5, <1>6, <1>7
<1>9. After(hole, d) = i /\ After(hole, e) = k
  BY <1>1, <1>3, <1>4, PastIs
<1> QED
  BY <1>8, <1>9

LEMMA ShiftedIsSound ==
  ASSUME capacity \in Nat, Sound(slots, capacity), NEW hole \in Holding,
         NEW empty \in 0 .. capacity - 1, empty \notin Holding,
         NEW u, Shifted(u, hole)
  PROVE  Sound(u, capacity)
<1>1. Ordered(u, capacity)
  BY ShiftedIsOrdered
<1>2. Table(u, capacity)
  <2>1. \A i \in 0 .. capacity - 1 : u[i] \in Entry \cup {Empty}
    BY ShiftedSlot
  <2>2. u = [i \in 0 .. capacity - 1 |-> u[i]]
    BY DEF Shifted
  <2> QED
    BY <2>1, <2>2 DEF Table
<1>3. ASSUME NEW i \in Occupied(u, capacity), NEW k \in Occupied(u, capacity),
             u[i].key = u[k].key
      PROVE  i = k
  <2>1. i \in 0 .. capacity - 1 /\ k \in 0 .. capacity - 1
    BY DEF Occupied
  <2>2. /\ Source(i, hole) \in Holding
        /\ u[i].key = slots[Source(i, hole)].key
    BY <2>1, ShiftedSlot
  <2>3. /\ Source(k, hole) \in Holding
        /\ u[k].key = slots[Source(k, hole)].key
    BY <2>1, ShiftedSlot
  <2>4. Source(i, hole) = Source(k, hole)
    BY <1>3, <2>2, <2>3 DEF Sound, Single, Holding
  <2> QED
    BY <2>4, SourceTells
<1> QED
  BY <1>1, <1>2, <1>3 DEF Sound, Single

(* The entry in hole is gone, and no other. *)
LEMMA ShiftedKeeps ==
  ASSUME capacity \in Nat, Sound(slots, capacity), NEW hole \in Holding,
         NEW empty \in 0 .. capacity - 1, empty \notin Holding,
         NEW u, Shifted(u, hole), NEW p, NEW v
  PROVE  Keeps(u, capacity, p, v)
           <=> Keeps(slots, capacity, p, v) /\ p # slots[hole].key
<1>1. hole \in 0 .. capacity - 1
  BY DEF Holding, Occupied
<1>2. ASSUME Keeps(u, capacity, p, v)
      PROVE  Keeps(slots, capacity, p, v) /\ p # slots[hole].key
  <2>1. PICK i \in Occupied(u, capacity) : u[i].key = p /\ u[i].value = v
    BY <1>2 DEF Keeps
  <2>2. i \in 0 .. capacity - 1
    BY DEF Occupied
  <2>3. PICK j \in Holding : /\ j # hole
                             /\ slots[j].key = p /\ slots[j].value = v
    BY <2>1, <2>2, ShiftedSlot
  <2> QED
    BY <2>3 DEF Keeps, Sound, Single, Holding
<1>3. ASSUME Keeps(slots, capacity, p, v), p # slots[hole].key
      PROVE  Keeps(u, capacity, p, v)
  <2>1. PICK j \in Holding : slots[j].key = p /\ slots[j].value = v
    BY <1>3 DEF Keeps, Holding
  <2>2. j # hole /\ j \in 0 .. capacity - 1
    BY <1>3, <2>1 DEF Holding, Occupied
  <2>3. PICK r \in 0 .. capacity - 2 : r = Run(hole)
    BY RunEnds
  <2>4. PICK e \in 1 .. capacity - 1 : e = Past(j, hole)
    BY <1>1, <2>2, PastIs
  <2>5. CASE e > r
    <3>1. j \in Occupied(u, capacity) /\ u[j] = slots[j]
      BY <2>2, <2>3, <2>4, <2>5, ShiftedSlot
    <3> QED
      BY <2>1, <3>1 DEF Keeps
  <2>6. CASE e <= r
    <3>1. PICK i \in 0 .. capacity - 1 :
            i = (j - 1) % capacity /\ j = (i + 1) % capacity
      <4>1. PICK i \in 0 .. capacity - 1 : i = (j - 1) % capacity
        BY <2>2, SlotBefore
      <4>2. j = (i + 1) % capacity
        BY <2>2, <4>1, SlotIsNext
      <4> QED
        BY <4>1, <4>2
    <3>2. Past(i, hole) = e - 1
      <4>1. Past(j, hole) > 0
        BY <2>4
      <4> QED
        BY <1>1, <2>4, <3>1, <4>1, PastGrows
    <3>3. Past(i, hole) < Run(hole)
      BY <2>3, <2>6, <3>2
    <3>4. i \in Holding /\ Past(i, hole) # Run(hole)
      BY <2>3, <2>6, <3>2, RunEnds
    <3>5. Source(i, hole) = j
      BY <2>3, <2>6, <3>1, <3>2 DEF Source
    <3>6. /\ i \in Occupied(u, capacity)
          /\ u[i].key = slots[j].key /\ u[i].value = slots[j].value
      BY <3>4, <3>5, ShiftedSlot
    <3> QED
      BY <2>1, <3>6 DEF Keeps
  <2> QED
    BY <2>5, <2>6
<1> QED
  BY <1>2, <1>3

LEMMA ShiftedIsCounted ==
  ASSUME capacity \in Nat, Sound(slots, capacity), NEW hole \in Holding,
         NEW empty \in 0 .. capacity - 1, empty \notin Holding,
         NEW u, Shifted(u, hole)
  PROVE  Cardinality(Occupied(u, capacity)) = Cardinality(Holding) - 1
<1>1. hole \in 0 .. capacity - 1
  BY DEF Holding, Occupied
<1>2. PICK r \in 0 .. capacity - 2 : r = Run(hole)
  BY RunEnds
<1>3. PICK last \in 0 .. capacity - 1 :
        last = After(hole, r) /\ Past(last, hole) = r
  <2>1. r \in 0 .. capacity - 1
    OBVIOUS
  <2> QED
    BY <1>1, <2>1, AfterIs
<1>4. last \in Holding
  BY <1>2, <1>3, RunEnds
<1>5. ASSUME NEW i \in 0 .. capacity - 1
      PROVE  i \in Occupied(u, capacity) <=> i \in Holding \ {last}
  <2>1. Past(i, hole) = Run(hole) <=> i = last
    <3>1. After(hole, Past(i, hole)) = i
      BY <1>1, PastIs
    <3> QED
      BY <1>2, <1>3, <3>1
  <2> QED
    BY <2>1, ShiftedSlot
<1>6. Occupied(u, capacity) = Holding \ {last}
  <2>1. \A i : i \in Occupied(u, capacity) => i \in 0 .. capacity - 1
    BY DEF Occupied
  <2>2. \A i : i \in Holding => i \in 0 .. capacity - 1
    BY DEF Holding, Occupied
  <2> QED
    BY <1>5, <2>1, <2>2
<1>7. IsFiniteSet(Holding)
  BY OccupiedIsFinite DEF Holding
<1> QED
  BY <1>4, <1>6, <1>7, FS_RemoveElement

-----------------------------------------------------------------------------
(* The invariant *)

(* A probe needs the order and an empty slot to find an entry, a deletion  *)
(* needs the order to keep it, and both take it that a key is kept once.   *)
TableInv ==
  /\ TypeOK /\ WellPlaced /\ RoomIsLeft
  /\ Single(slots, capacity)

LEMMA InvTells ==
  TableInv => /\ capacity \in Nat /\ Sound(slots, capacity)
              /\ used = Cardinality(Holding) /\ used \in Nat
              /\ capacity > 0 => /\ used <= ResizeAt(capacity)
                                 /\ used < capacity
                                 /\ \E empty \in 0 .. capacity - 1 :
                                      empty \notin Holding
<1> SUFFICES ASSUME TableInv
             PROVE  /\ capacity \in Nat /\ Sound(slots, capacity)
                    /\ used = Cardinality(Holding) /\ used \in Nat
                    /\ capacity > 0 => /\ used <= ResizeAt(capacity)
                                       /\ used < capacity
                                       /\ \E empty \in 0 .. capacity - 1 :
                                            empty \notin Holding
  OBVIOUS
<1>1. capacity \in Nat /\ used \in Nat
  BY DEF TableInv, TypeOK
<1>2. Sound(slots, capacity)
  BY DEF TableInv, TypeOK, WellPlaced, Sound, Table, Ordered, InOrder,
         Occupied, Far
<1>3. used = Cardinality(Holding)
  BY DEF TableInv, RoomIsLeft, Holding, Occupied
<1>4. capacity > 0 => used <= ResizeAt(capacity) /\ used < capacity
  BY DEF TableInv, RoomIsLeft
<1>5. ASSUME capacity > 0
      PROVE  \E empty \in 0 .. capacity - 1 : empty \notin Holding
  BY <1>1, <1>3, <1>4, <1>5, SlotIsFree DEF Holding
<1> QED
  BY <1>1, <1>2, <1>3, <1>4, <1>5

LEMMA ResizeIsBelow ==
  ASSUME NEW c \in Nat
  PROVE  ResizeAt(c) \in Nat /\ (c > 0 => ResizeAt(c) < c)
BY DEF ResizeAt

LEMMA MakesInv ==
  ASSUME capacity' \in Nat, Sound(slots', capacity'),
         used' = Cardinality(Occupied(slots', capacity')),
         capacity' > 0 => used' <= ResizeAt(capacity')
  PROVE  TableInv'
<1>1. used' \in 0 .. capacity'
  BY OccupiedIsFinite
<1>2. capacity' > 0 => used' < capacity'
  BY <1>1, ResizeIsBelow
<1>3. TypeOK'
  BY <1>1 DEF TypeOK, Sound, Table
<1>4. WellPlaced'
  BY DEF WellPlaced, Sound, Ordered, InOrder, Occupied, Far
<1>5. RoomIsLeft'
  BY <1>2 DEF RoomIsLeft, Occupied
<1> QED
  BY <1>3, <1>4, <1>5 DEF TableInv, Sound

-----------------------------------------------------------------------------
(* What a lookup returns *)

LookupsTell ==
  \A o \in Objects :
    /\ Holds(o) <=> Knows(slots, capacity, o)
    /\ Holds(o) => /\ Probed(o) \in Holding /\ slots[Probed(o)].key = o
    /\ \A v : Keeps(slots, capacity, o, v) => Lookup(o) = v
    /\ ~ Knows(slots, capacity, o) => Lookup(o) = NoHash

LEMMA LookupsAreRight == TableInv => LookupsTell
<1> SUFFICES ASSUME TableInv, NEW o \in Objects
             PROVE  /\ Holds(o) <=> Knows(slots, capacity, o)
                    /\ Holds(o) => /\ Probed(o) \in Holding
                                   /\ slots[Probed(o)].key = o
                    /\ \A v : Keeps(slots, capacity, o, v) => Lookup(o) = v
                    /\ ~ Knows(slots, capacity, o) => Lookup(o) = NoHash
  BY DEF LookupsTell
<1>1. /\ capacity \in Nat /\ Sound(slots, capacity)
      /\ used = Cardinality(Holding) /\ used \in Nat
      /\ capacity > 0 => \E empty \in 0 .. capacity - 1 : empty \notin Holding
  BY InvTells
<1>2. ASSUME NEW i \in Holding, slots[i].key = o
      PROVE  /\ Holds(o) /\ Probed(o) = i /\ Lookup(o) = slots[i].value
  <2>1. Probed(o) = i
    BY <1>1, <1>2, ProbeFinds
  <2>2. slots[i] # Empty
    BY DEF Holding, Occupied
  <2>3. used > 0
    <3>1. IsFiniteSet(Holding) /\ Holding # {}
      BY <1>1, OccupiedIsFinite DEF Holding
    <3> QED
      BY <1>1, <3>1, FS_EmptySet
  <2> QED
    BY <1>2, <2>1, <2>2, <2>3 DEF Holds, Lookup
<1>3. ASSUME ~ Knows(slots, capacity, o) PROVE ~ Holds(o)
  <2>1. CASE capacity > 0
    BY <1>1, <1>3, <2>1, ProbeEnds
  <2>2. CASE capacity = 0
    <3>1. Holding = {}
      BY <2>2 DEF Holding, Occupied
    <3> QED
      BY <1>1, <3>1, FS_EmptySet DEF Holds
  <2> QED
    BY <1>1, <2>1, <2>2
<1>4. ASSUME Knows(slots, capacity, o)
      PROVE  Holds(o) /\ Probed(o) \in Holding /\ slots[Probed(o)].key = o
  BY <1>2, <1>4 DEF Knows, Holding
<1>5. ASSUME NEW v, Keeps(slots, capacity, o, v) PROVE Lookup(o) = v
  BY <1>2, <1>5 DEF Keeps, Holding
<1>6. ASSUME ~ Knows(slots, capacity, o) PROVE Lookup(o) = NoHash
  BY <1>3, <1>6 DEF Lookup
<1> QED
  BY <1>3, <1>4, <1>5, <1>6

LEMMA LookupsStayRight == TableInv' => LookupsTell'
BY LookupsAreRight, PTL

(* To know an object is to keep some hash of it. *)
LEMMA KnowsIsKeeps ==
  ASSUME NEW t, NEW c, NEW o
  PROVE  Knows(t, c, o) <=> \E v : Keeps(t, c, o, v)
BY DEF Knows, Keeps

-----------------------------------------------------------------------------
(* The operations *)

(* The hash of o is h from now on. *)
Remembered(o, h) ==
  \A p, q : Keeps(slots', capacity', p, q)
              <=> Keeps(slots, capacity, p, q) \/ (p = o /\ q = h)

LEMMA HashPointerKeeps ==
  ASSUME TableInv, NEW o \in Objects, NEW h \in Hashes, HashPointer(o, h)
  PROVE  TableInv' /\ Remembered(o, h) /\ ~ Knows(slots, capacity, o)
<1>1. /\ capacity \in Nat /\ Sound(slots, capacity)
      /\ used = Cardinality(Holding) /\ used \in Nat
      /\ capacity > 0 => /\ used <= ResizeAt(capacity)
                         /\ \E empty \in 0 .. capacity - 1 : empty \notin Holding
  BY InvTells
<1>2. ~ Knows(slots, capacity, o)
  BY LookupsAreRight DEF HashPointer, LookupsTell
<1>3. used' = used + 1
  BY DEF HashPointer
<1>4. CASE ~ MustGrow
  <2>1. /\ capacity > 0 /\ used + 1 <= ResizeAt(capacity)
        /\ capacity' = capacity /\ slots' = Placed(slots, capacity, o, h)
    BY <1>1, <1>4, ResizeIsBelow DEF HashPointer, MustGrow
  <2>2. PICK empty \in 0 .. capacity - 1 : empty \notin Holding
    BY <1>1, <2>1
  <2>3. Inserted(slots', slots, capacity, o, h)
    BY <1>1, <1>2, <2>1, <2>2, PlacedInserts DEF Holding
  <2>4. Cardinality(Occupied(slots', capacity)) = Cardinality(Holding) + 1
    BY <1>1, <2>3, InsertedIsCounted DEF Holding
  <2>5. TableInv'
    BY <1>1, <1>3, <2>1, <2>3, <2>4, MakesInv DEF Inserted
  <2> QED
    BY <1>2, <2>1, <2>3, <2>5 DEF Inserted, Remembered
<1>5. CASE MustGrow
  <2>1. /\ capacity' = GrownCapacity
        /\ slots' = Placed(Grown, GrownCapacity, o, h)
    BY <1>5 DEF HashPointer
  <2>2. PICK c \in Nat : /\ c = GrownCapacity /\ capacity < c
                         /\ used + 1 <= ResizeAt(c)
    <3>1. CASE capacity = 0
      <4>1. Holding = {}
        BY <3>1 DEF Holding, Occupied
      <4>2. used = 0
        BY <1>1, <4>1, FS_EmptySet
      <4>3. MinCapacity \in Nat /\ MinCapacity > 1
        BY IdentityHashTableAssumption
      <4>4. 1 <= ResizeAt(MinCapacity)
        BY <4>3 DEF ResizeAt
      <4> QED
        BY <3>1, <4>2, <4>3, <4>4 DEF GrownCapacity
    <3>2. CASE capacity # 0
      <4>1. used <= (capacity * 5) \div 8 /\ capacity > 0
        BY <1>1, <3>2 DEF ResizeAt
      <4>2. used + 1 <= ((capacity * 2) * 5) \div 8
        BY <1>1, <4>1
      <4> QED
        BY <1>1, <3>2, <4>1, <4>2 DEF GrownCapacity, ResizeAt
    <3> QED
      BY <3>1, <3>2
  <2>3. /\ Sound(Grown, c)
        /\ Cardinality(Occupied(Grown, c)) = used
        /\ \A p, q : Keeps(Grown, c, p, q) <=> Keeps(slots, capacity, p, q)
    BY <1>1, <2>2, GrownKeeps
  <2>4. PICK empty \in 0 .. c - 1 : empty \notin Occupied(Grown, c)
    <3>1. used < c
      BY <1>1, <2>2, ResizeIsBelow
    <3> QED
      BY <2>3, <3>1, SlotIsFree
  <2>5. ~ Knows(Grown, c, o)
    BY <1>2, <2>3, KnowsIsKeeps
  <2>6. Inserted(slots', Grown, c, o, h)
    BY <2>1, <2>2, <2>3, <2>4, <2>5, PlacedInserts
  <2>7. Cardinality(Occupied(slots', c)) = used + 1
    BY <2>3, <2>6, InsertedIsCounted
  <2>8. TableInv'
    BY <1>3, <2>1, <2>2, <2>6, <2>7, MakesInv DEF Inserted
  <2>9. Remembered(o, h)
    BY <2>1, <2>2, <2>3, <2>6 DEF Inserted, Remembered
  <2> QED
    BY <1>2, <2>8, <2>9
<1> QED
  BY <1>4, <1>5

LEMMA DeleteKeeps ==
  ASSUME TableInv, NEW o \in Objects, Delete(o)
  PROVE  /\ TableInv'
         /\ \A p, q : Keeps(slots', capacity', p, q)
                        <=> Keeps(slots, capacity, p, q) /\ p # o
<1>1. /\ capacity \in Nat /\ Sound(slots, capacity)
      /\ used = Cardinality(Holding) /\ used \in Nat
      /\ capacity > 0 => /\ used <= ResizeAt(capacity)
                         /\ \E empty \in 0 .. capacity - 1 : empty \notin Holding
  BY InvTells
<1>2. PICK hole \in Holding : hole = Probed(o) /\ slots[hole].key = o
  BY LookupsAreRight DEF Delete, LookupsTell
<1>3. /\ Shifted(slots', hole)
      /\ capacity' = capacity /\ used' = used - 1
  BY <1>2 DEF Delete, Shifted, Past
<1>4. capacity > 0
  BY <1>1 DEF Holding, Occupied
<1>5. PICK empty \in 0 .. capacity - 1 : empty \notin Holding
  BY <1>1, <1>4
<1>6. Sound(slots', capacity)
  BY <1>1, <1>3, <1>5, ShiftedIsSound
<1>7. Cardinality(Occupied(slots', capacity)) = used - 1
  BY <1>1, <1>3, <1>5, ShiftedIsCounted
<1>8. used - 1 <= ResizeAt(capacity)
  BY <1>1, <1>4, ResizeIsBelow
<1>9. TableInv'
  BY <1>1, <1>3, <1>4, <1>6, <1>7, <1>8, MakesInv
<1>10. ASSUME NEW p, NEW q
       PROVE  Keeps(slots', capacity', p, q)
                <=> Keeps(slots, capacity, p, q) /\ p # o
  BY <1>1, <1>2, <1>3, <1>5, ShiftedKeeps
<1> QED
  BY <1>9, <1>10

LEMMA ClearKeeps ==
  ASSUME Clear
  PROVE  TableInv' /\ \A p, q : ~ Keeps(slots', capacity', p, q)
<1>1. capacity' = 0 /\ slots' = Cleared(0) /\ used' = 0
  BY DEF Clear
<1>2. Sound(slots', capacity') /\ Occupied(slots', capacity') = {}
  BY <1>1, ClearedIsSound
<1>3. used' = Cardinality(Occupied(slots', capacity'))
  BY <1>1, <1>2, FS_EmptySet
<1> QED
  BY <1>1, <1>2, <1>3, MakesInv DEF Keeps

LEMMA InitHasInv == Init => TableInv
<1> SUFFICES ASSUME Init PROVE TableInv
  OBVIOUS
<1>1. capacity = 0 /\ slots = Cleared(0) /\ used = 0
  BY DEF Init
<1>2. {i \in 0 .. capacity - 1 : slots[i] # Empty} = {}
  BY <1>1
<1>3. Cardinality({i \in 0 .. capacity - 1 : slots[i] # Empty}) = 0
  BY <1>2, FS_EmptySet
<1>4. TypeOK
  BY <1>1 DEF TypeOK, Cleared
<1> QED
  BY <1>1, <1>3, <1>4
     DEF TableInv, WellPlaced, RoomIsLeft, Single, Occupied

LEMMA NextKeepsInv == TableInv /\ [Next]_vars => TableInv'
<1> SUFFICES ASSUME TableInv, [Next]_vars PROVE TableInv'
  OBVIOUS
<1>1. CASE Next
  BY <1>1, HashPointerKeeps, DeleteKeeps, ClearKeeps DEF Next
<1>2. CASE UNCHANGED vars
  BY <1>2 DEF vars, TableInv, TypeOK, WellPlaced, RoomIsLeft, Single, Occupied
<1> QED
  BY <1>1, <1>2

-----------------------------------------------------------------------------
(* The theorems *)

(* Whatever is hashed and freed, the table is in order, with room left and *)
(* each key once, for any objects however they are mixed.                  *)
THEOREM TableInvariant == Spec => []TableInv
BY InitHasInv, NextKeepsInv, PTL DEF Spec

(* Every slot holds an entry or is empty, and a distance fits its bits.    *)
THEOREM TableTypes == Spec => []TypeOK
<1>1. TableInv => TypeOK
  BY DEF TableInv
<1> QED
  BY <1>1, TableInvariant, PTL

(* Displacing and shifting back keep the order that lets a probe stop, for *)
(* any objects, any capacity and any number of bits for the distance.      *)
THEOREM EntriesStayPlaced == Spec => []WellPlaced
<1>1. TableInv => WellPlaced
  BY DEF TableInv
<1> QED
  BY <1>1, TableInvariant, PTL

(* The entries are counted, and a table has empty slots: every probe ends. *)
THEOREM RoomStays == Spec => []RoomIsLeft
<1>1. TableInv => RoomIsLeft
  BY DEF TableInv
<1> QED
  BY <1>1, TableInvariant, PTL

-----------------------------------------------------------------------------
(* Refinement *)

LEMMA HashPointerRemembers ==
  ASSUME TableInv, NEW o \in Objects, NEW h \in Hashes, HashPointer(o, h)
  PROVE  Promised!Remember(o, h)
<1>1. TableInv' /\ Remembered(o, h) /\ ~ Knows(slots, capacity, o)
  BY HashPointerKeeps
<1>2. LookupsTell /\ LookupsTell'
  BY <1>1, LookupsAreRight, LookupsStayRight
<1>3. Lookup(o) = NoHash
  BY <1>1, <1>2 DEF LookupsTell
<1>4. ASSUME NEW p \in Objects
      PROVE  Lookup(p)' = IF p = o THEN h ELSE Lookup(p)
  <2>1. CASE p = o
    <3>1. Keeps(slots', capacity', o, h)
      BY <1>1 DEF Remembered
    <3> QED
      BY <1>2, <2>1, <3>1 DEF LookupsTell
  <2>2. ASSUME p # o, NEW v, Keeps(slots, capacity, p, v)
        PROVE  Lookup(p) = v /\ Lookup(p)' = v
    <3>1. Keeps(slots', capacity', p, v)
      BY <1>1, <2>2 DEF Remembered
    <3> QED
      BY <1>2, <2>2, <3>1 DEF LookupsTell
  <2>3. CASE p # o /\ ~ Knows(slots, capacity, p)
    <3>1. ~ Knows(slots', capacity', p)
      BY <1>1, <2>3, KnowsIsKeeps DEF Remembered
    <3> QED
      BY <1>2, <2>3, <3>1 DEF LookupsTell
  <2> QED
    BY <2>1, <2>2, <2>3, KnowsIsKeeps
<1> QED
  BY <1>3, <1>4 DEF Promised!Remember

LEMMA DeleteForgets ==
  ASSUME TableInv, NEW o \in Objects, Delete(o)
  PROVE  Promised!Forget(o)
<1>1. /\ TableInv'
      /\ \A p, q : Keeps(slots', capacity', p, q)
                     <=> Keeps(slots, capacity, p, q) /\ p # o
  BY DeleteKeeps
<1>2. LookupsTell /\ LookupsTell'
  BY <1>1, LookupsAreRight, LookupsStayRight
<1>3. ASSUME NEW p \in Objects
      PROVE  Lookup(p)' = IF p = o THEN NoHash ELSE Lookup(p)
  <2>1. ASSUME p # o, NEW v, Keeps(slots, capacity, p, v)
        PROVE  Lookup(p) = v /\ Lookup(p)' = v
    <3>1. Keeps(slots', capacity', p, v)
      BY <1>1, <2>1
    <3> QED
      BY <1>2, <2>1, <3>1 DEF LookupsTell
  <2>2. CASE p = o \/ ~ Knows(slots, capacity, p)
    <3>1. ~ Knows(slots', capacity', p)
      BY <1>1, <2>2, KnowsIsKeeps
    <3> QED
      BY <1>2, <2>2, <3>1 DEF LookupsTell
  <2> QED
    BY <2>1, <2>2, KnowsIsKeeps
<1> QED
  BY <1>3 DEF Promised!Forget

LEMMA ClearForgetsAll ==
  ASSUME Clear
  PROVE  Promised!ForgetAll
<1>1. TableInv' /\ \A p, q : ~ Keeps(slots', capacity', p, q)
  BY ClearKeeps
<1>2. LookupsTell'
  BY <1>1, LookupsStayRight
<1>3. \A p \in Objects : Lookup(p)' = NoHash
  BY <1>1, <1>2, KnowsIsKeeps DEF LookupsTell
<1> QED
  BY <1>3 DEF Promised!ForgetAll

(* The table, with its probes, displacements, growth and shifting back, is *)
(* a map from objects to hashes: each step remembers one hash, forgets one *)
(* or forgets all.                                                         *)
THEOREM TableImplementsHashes == Spec => ImplementsIdentityHashes
<1>1. Init => Promised!Init
  <2> SUFFICES ASSUME Init PROVE Promised!Init
    OBVIOUS
  <2>1. \A o \in Objects : Lookup(o) = NoHash
    BY DEF Init, Lookup, Holds
  <2> QED
    BY <2>1 DEF Promised!Init
<1>2. TableInv /\ [Next]_vars =>
        [Promised!Next]_([o \in Objects |-> Lookup(o)])
  <2> SUFFICES ASSUME TableInv, [Next]_vars
               PROVE  [Promised!Next]_([o \in Objects |-> Lookup(o)])
    OBVIOUS
  <2>1. ASSUME NEW o \in Objects, NEW h \in Hashes, HashPointer(o, h)
        PROVE  Promised!Next
    BY <2>1, HashPointerRemembers DEF Promised!Next
  <2>2. ASSUME NEW o \in Objects, Delete(o) PROVE Promised!Next
    BY <2>2, DeleteForgets DEF Promised!Next
  <2>3. CASE Clear
    BY <2>3, ClearForgetsAll DEF Promised!Next
  <2>4. CASE UNCHANGED vars
    <3>1. \A o \in Objects : Lookup(o)' = Lookup(o)
      BY <2>4 DEF vars, Lookup, Holds, Probed, Stops
    <3> QED
      BY <3>1
  <2> QED
    BY <2>1, <2>2, <2>3, <2>4 DEF Next
<1> QED
  BY <1>1, <1>2, TableInvariant, PTL
     DEF Spec, ImplementsIdentityHashes, Promised!Spec

-----------------------------------------------------------------------------
(* The table under the lives of objects *)

LEMMA UnchangedLookups ==
  ASSUME UNCHANGED vars
  PROVE  [o \in Objects |-> Lookup(o)]' = [o \in Objects |-> Lookup(o)]
<1>1. \A o \in Objects : Lookup(o)' = Lookup(o)
  BY DEF vars, Lookup, Holds, Probed, Stops
<1> QED
  BY <1>1

LEMMA HashedAsPromised ==
  ASSUME TableInv, NEW o \in Objects, NEW h \in Hashes, NEW kept \in BOOLEAN,
         Hashed(o, h, kept)
  PROVE  Pointers!Hashed(o, h, kept) /\ [Next]_vars
<1>1. CASE kept /\ Lookup(o) = h /\ UNCHANGED vars
  BY <1>1, UnchangedLookups DEF Pointers!Hashed
<1>2. CASE kept /\ HashPointer(o, h)
  <2>1. Promised!Remember(o, h)
    BY <1>2, HashPointerRemembers
  <2>2. Pointers!Table!Remember(o, h)
    BY <2>1 DEF Promised!Remember, Pointers!Table!Remember
  <2> QED
    BY <1>2, <2>2 DEF Pointers!Hashed, Next
<1>3. CASE ~ kept /\ ~ Holds(o) /\ UNCHANGED vars
  <2>1. Lookup(o) = NoHash
    BY <1>3 DEF Lookup
  <2> QED
    BY <1>3, <2>1, UnchangedLookups DEF Pointers!Hashed
<1> QED
  BY <1>1, <1>2, <1>3 DEF Hashed

LEMMA DeletedAsPromised ==
  ASSUME TableInv, NEW o \in Objects, Deleted(o)
  PROVE  Pointers!Deleted(o) /\ [Next]_vars
<1>1. CASE Holds(o)
  <2>1. Delete(o)
    BY <1>1 DEF Deleted
  <2>2. Promised!Forget(o)
    BY <2>1, DeleteForgets
  <2>3. Pointers!Deleted(o)
    BY <2>2 DEF Promised!Forget, Pointers!Deleted, Pointers!Table!Forget
  <2> QED
    BY <2>1, <2>3 DEF Next
<1>2. CASE ~ Holds(o)
  <2>1. UNCHANGED vars /\ Lookup(o) = NoHash
    BY <1>2 DEF Deleted, Lookup
  <2>2. [p \in Objects |-> Lookup(p)]' = [p \in Objects |-> Lookup(p)]
    BY <2>1, UnchangedLookups
  <2> QED
    BY <2>1, <2>2 DEF Pointers!Deleted, Pointers!Table!Forget
<1> QED
  BY <1>1, <1>2

LEMMA ClearedAsPromised ==
  ASSUME TableInv, ClearIdentityHashTable
  PROVE  Pointers!ClearIdentityHashTable /\ [Next]_vars
<1>1. Pointers!Object!Outlive
  BY DEF ClearIdentityHashTable, Object!Outlive, Pointers!Object!Outlive
<1>2. CASE capacity > 0
  <2>1. Clear
    BY <1>2 DEF ClearIdentityHashTable
  <2>2. Promised!ForgetAll
    BY <2>1, ClearForgetsAll
  <2> QED
    BY <1>1, <2>1, <2>2
       DEF Promised!ForgetAll, Next, Pointers!ClearIdentityHashTable,
           Pointers!Table!ForgetAll
<1>3. CASE ~ capacity > 0
  <2>1. \A o \in Objects : Lookup(o) = NoHash
    <3>1. capacity \in Nat /\ used \in 0 .. capacity
      BY DEF TableInv, TypeOK
    <3>2. ~ used > 0
      BY <1>3, <3>1
    <3> QED
      BY <3>2 DEF Lookup, Holds
  <2>2. UNCHANGED vars
    BY <1>3 DEF ClearIdentityHashTable
  <2>3. [o \in Objects |-> Lookup(o)]' = [o \in Objects |-> Lookup(o)]
    BY <2>2, UnchangedLookups
  <2>4. Pointers!Table!ForgetAll
    BY <2>1, <2>3 DEF Pointers!Table!ForgetAll
  <2> QED
    BY <1>1, <2>2, <2>4 DEF Pointers!ClearIdentityHashTable
<1> QED
  BY <1>2, <1>3

LEMMA InitPointersAsPromised == InitPointers => TableInv /\ Pointers!Init
<1> SUFFICES ASSUME InitPointers PROVE TableInv /\ Pointers!Init
  OBVIOUS
<1>1. TableInv
  BY InitHasInv DEF InitPointers
<1>2. \A o \in Objects : Lookup(o) = NoHash
  BY DEF InitPointers, Init, Lookup, Holds
<1>3. Pointers!Table!Init
  BY <1>2 DEF Pointers!Table!Init
<1>4. Pointers!Object!Init
  BY DEF InitPointers, Object!Init, Pointers!Object!Init
<1> QED
  BY <1>1, <1>3, <1>4 DEF Pointers!Init

LEMMA UnseenAsPromised ==
  ASSUME NEW o \in Objects, Object!Unseen(o)
  PROVE  Pointers!Object!Unseen(o)
BY DEF Object!Unseen, Object!Allocate, Object!Dealloc, Object!Free,
       Object!Resurrect, Object!RunDeferred, Object!FreeDirectly,
       Pointers!Object!Unseen, Pointers!Object!Allocate,
       Pointers!Object!Dealloc, Pointers!Object!Free,
       Pointers!Object!Resurrect, Pointers!Object!RunDeferred,
       Pointers!Object!FreeDirectly

(* Every step of the table under the lives of objects is one of the table, *)
(* or none, and one of PointerHashes.                                      *)
LEMMA NextAsPromised ==
  TableInv /\ [NextPointer]_pointerVars =>
    [Next]_vars /\ [Pointers!Next]_(Pointers!vars)
<1> SUFFICES ASSUME TableInv, [NextPointer]_pointerVars
             PROVE  [Next]_vars /\ [Pointers!Next]_(Pointers!vars)
  OBVIOUS
<1>1. ASSUME NEW o \in Objects, Object!Unseen(o), UNCHANGED vars
      PROVE  [Next]_vars /\ Pointers!Next
  BY <1>1, UnseenAsPromised, UnchangedLookups DEF Pointers!Next
<1>2. ASSUME NEW o \in Objects, NEW h \in Hashes, NEW kept \in BOOLEAN,
             Hash(o, h, kept)
      PROVE  [Next]_vars /\ Pointers!Next
  <2>1. [Next]_vars /\ Pointers!Hashed(o, h, kept)
    BY <1>2, HashedAsPromised DEF Hash
  <2>2. Pointers!Object!Tell(o, h, kept)
    BY <1>2 DEF Hash, Object!Tell, Pointers!Object!Tell
  <2> QED
    BY <2>1, <2>2 DEF Pointers!Next, Pointers!HashPointer
<1>3. ASSUME NEW o \in Objects, DeleteObjectIdentityHash(o)
      PROVE  [Next]_vars /\ Pointers!Next
  <2>1. [Next]_vars /\ Pointers!Deleted(o)
    BY <1>3, DeletedAsPromised DEF DeleteObjectIdentityHash
  <2>2. Pointers!Object!EndDealloc(o)
    BY <1>3 DEF DeleteObjectIdentityHash, Object!EndDealloc,
                Pointers!Object!EndDealloc
  <2> QED
    BY <2>1, <2>2 DEF Pointers!Next, Pointers!DeleteObjectIdentityHash
<1>4. ASSUME NEW o \in Objects, Defer(o)
      PROVE  [Next]_vars /\ Pointers!Next
  <2>1. Pointers!Object!Defer(o)
    BY <1>4 DEF Defer, Object!Defer, Pointers!Object!Defer
  <2>2. CASE Deleted(o)
    <3>1. [Next]_vars /\ Pointers!Deleted(o)
      BY <2>2, DeletedAsPromised
    <3> QED
      BY <2>1, <3>1 DEF Pointers!Next, Pointers!Defer
  <2>3. CASE UNCHANGED vars
    BY <2>1, <2>3, UnchangedLookups DEF Pointers!Next, Pointers!Defer
  <2> QED
    BY <1>4, <2>2, <2>3 DEF Defer
<1>5. CASE ClearIdentityHashTable
  BY <1>5, ClearedAsPromised DEF Pointers!Next
<1>6. CASE UNCHANGED pointerVars
  <2>1. UNCHANGED vars /\ UNCHANGED <<life, open, told, frail, unclean>>
    BY <1>6 DEF pointerVars
  <2> QED
    BY <2>1, UnchangedLookups DEF Pointers!vars
<1> QED
  BY <1>1, <1>2, <1>3, <1>4, <1>5, <1>6 DEF NextPointer

(* The theorems of PointerHashesProofs, about the hashes looked up here *)
Proved == INSTANCE PointerHashesProofs
            WITH Addresses <- Objects, hash <- [o \in Objects |-> Lookup(o)]

LEMMA ConstantsAreOK == Proved!ConstantsOK
BY IdentityHashTableAssumption, PointerTableAssumption DEF Proved!ConstantsOK

LEMMA InitIsProved == Pointers!Init => Proved!Init
BY DEF Pointers!Init, Pointers!Table!Init, Pointers!Object!Init,
       Proved!Init, Proved!Table!Init, Proved!Object!Init

LEMMA NextIsProved ==
  [Pointers!Next]_(Pointers!vars) => [Proved!Next]_(Proved!vars)
BY DEF Pointers!Next, Pointers!vars, Pointers!HashPointer, Pointers!Hashed,
       Pointers!DeleteObjectIdentityHash, Pointers!Deleted, Pointers!Defer,
       Pointers!ClearIdentityHashTable, Pointers!Table!Remember,
       Pointers!Table!Forget, Pointers!Table!ForgetAll,
       Pointers!Object!Unseen, Pointers!Object!Allocate,
       Pointers!Object!Dealloc, Pointers!Object!Free,
       Pointers!Object!Resurrect, Pointers!Object!RunDeferred,
       Pointers!Object!FreeDirectly, Pointers!Object!Tell,
       Pointers!Object!EndDealloc, Pointers!Object!Defer,
       Pointers!Object!Outlive,
       Proved!Next, Proved!vars, Proved!HashPointer, Proved!Hashed,
       Proved!DeleteObjectIdentityHash, Proved!Deleted, Proved!Defer,
       Proved!ClearIdentityHashTable, Proved!Table!Remember,
       Proved!Table!Forget, Proved!Table!ForgetAll,
       Proved!Object!Unseen, Proved!Object!Allocate,
       Proved!Object!Dealloc, Proved!Object!Free,
       Proved!Object!Resurrect, Proved!Object!RunDeferred,
       Proved!Object!FreeDirectly, Proved!Object!Tell,
       Proved!Object!EndDealloc, Proved!Object!Defer,
       Proved!Object!Outlive

PointersInv == TableInv /\ Proved!Inv

LEMMA PointersHaveInv == SpecPointers => []PointersInv
<1>1. InitPointers => PointersInv
  BY InitPointersAsPromised, InitIsProved, Proved!InitInv,
     ConstantsAreOK
     DEF PointersInv
<1>2. PointersInv /\ [NextPointer]_pointerVars => PointersInv'
  <2> SUFFICES ASSUME PointersInv, [NextPointer]_pointerVars
               PROVE  PointersInv'
    OBVIOUS
  <2>1. [Next]_vars /\ [Pointers!Next]_(Pointers!vars)
    BY NextAsPromised DEF PointersInv
  <2>2. TableInv'
    BY <2>1, NextKeepsInv DEF PointersInv
  <2>3. Proved!Inv'
    BY <2>1, NextIsProved, Proved!NextKeepsInv, ConstantsAreOK
       DEF PointersInv
  <2> QED
    BY <2>2, <2>3 DEF PointersInv
<1> QED
  BY <1>1, <1>2, PTL DEF SpecPointers

(* The table and the lives keep their types together. *)
THEOREM PointersTypeCorrect == SpecPointers => []PointersTypeOK
<1>1. PointersInv => PointersTypeOK
  BY DEF PointersInv, TableInv, Proved!Inv, Proved!TypeOK,
         Proved!Object!TypeOK, Proved!Object!Lives, PointersTypeOK,
         Object!TypeOK, Object!Lives
<1> QED
  BY <1>1, PointersHaveInv, PTL

(* The table as it is, under the lives of any objects, does what           *)
(* PointerHashes says of the abstract map.                                 *)
THEOREM PointersImplement == SpecPointers => ImplementsPointerHashes
<1>1. InitPointers => Pointers!Init
  BY InitPointersAsPromised
<1>2. PointersInv /\ [NextPointer]_pointerVars =>
        [Pointers!Next]_(Pointers!vars)
  BY NextAsPromised DEF PointersInv
<1> QED
  BY <1>1, <1>2, PointersHaveInv, PTL
     DEF SpecPointers, ImplementsPointerHashes, Pointers!Spec

(* An object that is not frail is told one hash through its life by the    *)
(* table itself.                                                           *)
THEOREM TableHashesSteady == SpecPointers => []HashesAreSteady
<1>1. PointersInv => HashesAreSteady
  BY DEF PointersInv, Proved!Inv, Proved!HashesAreSteady, HashesAreSteady,
         Pointers!HashesAreSteady
<1> QED
  BY <1>1, PointersHaveInv, PTL

(* The table finds nothing for an address once its last deallocation is    *)
(* over.                                                                   *)
THEOREM TableEntriesGo == SpecPointers => []NoEntryIsLeft
<1>1. PointersInv => NoEntryIsLeft
  BY DEF PointersInv, Proved!Inv, Proved!NoEntryIsLeft, NoEntryIsLeft,
         Pointers!NoEntryIsLeft
<1> QED
  BY <1>1, PointersHaveInv, PTL

(* The addresses that may have an entry *)
Owners == {o \in Objects : life[o] # "free" \/ open[o] > 0 \/ o \in unclean}

(* Every entry, whether or not a probe would come to it, is of such an     *)
(* address: probes come to all.                                            *)
LEMMA EntriesAreOwned ==
  ASSUME PointersInv, NEW i \in Holding
  PROVE  slots[i].key \in Owners
<1> DEFINE o == slots[i].key
           v == slots[i].value
<1>1. slots[i] \in Entry
  BY DEF PointersInv, TableInv, TypeOK, Holding, Occupied
<1>2. o \in Objects /\ v \in Hashes
  BY <1>1 DEF Entry
<1>3. Keeps(slots, capacity, o, v)
  BY DEF Keeps, Holding
<1>4. Lookup(o) = v
  BY <1>2, <1>3, LookupsAreRight DEF PointersInv, LookupsTell
<1>5. Lookup(o) # NoHash
  BY <1>2, <1>4, IdentityHashTableAssumption
<1>6. ~ (life[o] = "free" /\ open[o] = 0 /\ o \notin unclean)
  BY <1>2, <1>5 DEF PointersInv, Proved!Inv, Proved!NoEntryIsLeft
<1>7. open[o] \in Nat
  BY <1>2, PointerTableAssumption
     DEF PointersInv, Proved!Inv, Proved!TypeOK, Proved!Object!TypeOK
<1> QED
  BY <1>2, <1>6, <1>7 DEF Owners

(* Entries are of different addresses, and so no more than their owners.   *)
THEOREM NothingIsLeaked == SpecPointers => []NothingLeaks
<1>1. PointersInv => NothingLeaks
  <2> SUFFICES ASSUME PointersInv, IsFiniteSet(Objects)
               PROVE  used <= Cardinality(Owners)
    BY DEF NothingLeaks, Owners
  <2> DEFINE key == [i \in Holding |-> slots[i].key]
  <2>1. Single(slots, capacity) /\ used = Cardinality(Holding)
    BY InvTells DEF PointersInv, TableInv
  <2>2. key \in Injection(Holding, Owners)
    <3>1. key \in [Holding -> Owners]
      BY EntriesAreOwned
    <3>2. \A i, j \in Holding : key[i] = key[j] => i = j
      BY <2>1 DEF Single, Holding
    <3> QED
      BY <3>1, <3>2 DEF Injection, IsInjective
  <2>3. IsFiniteSet(Owners)
    BY FS_Subset DEF Owners
  <2> QED
    BY <2>1, <2>2, <2>3, FS_Injection
<1> QED
  BY <1>1, PointersHaveInv, PTL
=============================================================================
