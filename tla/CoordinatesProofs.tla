------------------------- MODULE CoordinatesProofs -------------------------
(***************************************************************************)
(* Proofs about Coordinates, for any set of spaces and any bounds: type    *)
(* correctness, that no ordinal pointer dangles or crosses spaces, that    *)
(* the depth of a space counts its frames, that frames attach below the    *)
(* nearest frame of their space, that running in one space leaves the      *)
(* streams of the others alone, that a stream moves forward only, and that *)
(* what thread_delta() reports as unchanged is.  Each part has the         *)
(* inductive invariant it needs and builds on the ones before it.          *)
(***************************************************************************)
EXTENDS Coordinates, SelectionsProofs

-----------------------------------------------------------------------------
(* Max, on a set of numbers up to some n that holds 0 *)

(* The largest of finitely many indices exists, and Max finds it. *)
LEMMA MaxIsMember ==
  ASSUME NEW n \in Nat, NEW S \in SUBSET (0 .. n), 0 \in S
  PROVE  Max(S) \in S /\ \A y \in S : Max(S) >= y
<1> DEFINE T == {n - x : x \in S}
<1>1. T \subseteq Nat /\ T # {}
  <2>1. n - 0 \in T
    OBVIOUS
  <2>2. ASSUME NEW x \in S PROVE n - x \in Nat
    OBVIOUS
  <2> QED
    BY <2>1, <2>2
<1>2. PICK m \in T : \A k \in T : ~ (<<k, m>> \in Less)
  <2> HIDE DEF T
  <2> QED
    BY <1>1, LessIsWellFounded, WFMin, Zenon
<1>3. ASSUME NEW k \in T PROVE m <= k
  <2>1. k \in Nat /\ m \in Nat /\ <<k, m>> \notin Less
    BY <1>1, <1>2
  <2> HIDE DEF T
  <2>2. ~(k < m)
    BY <2>1 DEF Less
  <2> QED
    BY <2>1, <2>2
<1>4. PICK x \in S : m = n - x
  BY <1>2
<1>5. ASSUME NEW y \in S PROVE x >= y
  <2>1. m <= n - y
    BY <1>3
  <2> QED
    BY <1>4, <2>1
<1> QED
  BY <1>4, <1>5 DEF Max

-----------------------------------------------------------------------------
(* Chains *)

(* The oldest n entries of a chain *)
LEMMA OldestEntries ==
  ASSUME NEW c \in Seq(Entry), NEW n \in 0 .. Len(c)
  PROVE  /\ SubSeq(c, 1, n) \in Seq(Entry)
         /\ Len(SubSeq(c, 1, n)) = n
         /\ \A i \in 1 .. n : SubSeq(c, 1, n)[i] = c[i]
<1>1. \A i \in 1 .. n : c[i] \in Entry
  BY ElementOfSeq, LenProperties
<1>2. /\ SubSeq(c, 1, n) \in Seq(Entry)
      /\ Len(SubSeq(c, 1, n)) = IF 1 <= n THEN n - 1 + 1 ELSE 0
      /\ \A i \in 1 .. n - 1 + 1 : SubSeq(c, 1, n)[i] = c[1 + i - 1]
  BY <1>1, SubSeqProperties
<1> DEFINE p == SubSeq(c, 1, n)
<1> HIDE DEF p
<1>3. Len(p) = n /\ \A i \in 1 .. n : p[i] = c[i]
  BY <1>2 DEF p
<1> QED
  BY <1>2, <1>3 DEF p

(* Taking the top entry off a chain keeps the others in place. *)
LEMMA PoppedChain ==
  ASSUME NEW c \in Seq(Entry), c # <<>>
  PROVE  /\ SubSeq(c, 1, Len(c) - 1) \in Seq(Entry)
         /\ Len(SubSeq(c, 1, Len(c) - 1)) = Len(c) - 1
         /\ \A i \in 1 .. Len(c) - 1 : SubSeq(c, 1, Len(c) - 1)[i] = c[i]
         /\ Len(c) \in Nat \ {0}
         /\ c[Len(c)] \in Entry
<1>1. Len(c) \in Nat \ {0} /\ \A i \in 1 .. Len(c) : c[i] \in Entry
  BY EmptySeq, LenProperties, ElementOfSeq
<1>2. Len(c) - 1 \in 0 .. Len(c) /\ Len(c) \in 1 .. Len(c)
  BY <1>1
<1> QED
  BY <1>1, <1>2, OldestEntries, Zenon

(* The nearest visible frame is a frame of the space, or 0. *)
LEMMA NearestIsVisible ==
  ASSUME NEW c \in Seq(Entry), NEW s \in Spaces
  PROVE  /\ Nearest(c, s) \in 0 .. Len(c)
         /\ Nearest(c, s) # 0 => VisibleIn(c[Nearest(c, s)], s)
<1> DEFINE S == {0} \cup {i \in 1 .. Len(c) : VisibleIn(c[i], s)}
<1>1. S \in SUBSET (0 .. Len(c)) /\ 0 \in S /\ Len(c) \in Nat
  OBVIOUS
<1>2. Max(S) \in S
  <2> HIDE DEF S
  <2> QED
    BY <1>1, MaxIsMember
<1>3. Nearest(c, s) = Max(S)
  BY DEF Nearest
<1> QED
  BY <1>2, <1>3

(* Adding an entry on top keeps the others in place. *)
LEMMA GrownChain ==
  ASSUME NEW c \in Seq(Entry), NEW e \in Entry
  PROVE  /\ Append(c, e) \in Seq(Entry)
         /\ Len(Append(c, e)) = Len(c) + 1
         /\ \A i \in 1 .. Len(c) : Append(c, e)[i] = c[i]
         /\ Append(c, e)[Len(c) + 1] = e
         /\ Len(c) \in Nat
BY AppendProperties, LenProperties

(* What the slots depend on in the first n entries *)
SameShape(c, d, n) ==
  \A i \in 1 .. n : /\ d[i].kind = c[i].kind
                    /\ d[i].space = c[i].space
                    /\ d[i].saved = c[i].saved
                    /\ d[i].outer = c[i].outer
                    /\ d[i].local = c[i].local

(* An entry is given another ordinal. *)
LEMMA EntryWithOrdinal ==
  ASSUME NEW e \in Entry, NEW o \in Nat
  PROVE  [e EXCEPT !.ordinal = o] \in Entry
BY SMTT(60) DEF Entry

(* Counting at an entry changes its ordinal and nothing else. *)
LEMMA CountedChain ==
  ASSUME NEW c \in Seq(Entry), NEW k \in 1 .. Len(c)
  PROVE  /\ [c EXCEPT ![k].ordinal = Counted(@)] \in Seq(Entry)
         /\ Len([c EXCEPT ![k].ordinal = Counted(@)]) = Len(c)
         /\ SameShape(c, [c EXCEPT ![k].ordinal = Counted(@)], Len(c))
<1> DEFINE e == [c[k] EXCEPT !.ordinal = Counted(@)]
           d == [c EXCEPT ![k].ordinal = Counted(@)]
<1>1. c[k] \in Entry
  BY ElementOfSeq
<1>2. e \in Entry
  <2>1. Counted(c[k].ordinal) \in Nat
    BY <1>1 DEF Entry, Counted
  <2>2. e = [c[k] EXCEPT !.ordinal = Counted(c[k].ordinal)]
    OBVIOUS
  <2> QED
    BY <1>1, <2>1, <2>2, EntryWithOrdinal
<1>3. d = [c EXCEPT ![k] = e]
  OBVIOUS
<1>4. /\ d \in Seq(Entry)
      /\ Len(d) = Len(c)
      /\ \A i \in 1 .. Len(c) : d[i] = IF i = k THEN e ELSE c[i]
  <2> HIDE DEF e
  <2> QED
    BY <1>2, <1>3, ExceptSeq
<1>5. /\ e.kind = c[k].kind /\ e.space = c[k].space /\ e.saved = c[k].saved
      /\ e.outer = c[k].outer /\ e.local = c[k].local
  BY <1>1 DEF Entry
<1> QED
  <2> HIDE DEF d, e
  <2>1. SameShape(c, d, Len(c))
    BY <1>4, <1>5 DEF SameShape
  <2> QED
    BY <1>4, <2>1 DEF d

(* Entry i saved a live slot, of the space to go back to when it leaves,   *)
(* which for a frame is the space it ran in.                               *)
Linked(c, i) ==
  /\ LiveEntry(c, i)
  /\ c[i].kind = "frame" => c[i].outer = c[i].space

(* A slot that is live stays so in a chain whose entries below have the    *)
(* same shape.                                                             *)
LEMMA ShapeKeepsSlots ==
  ASSUME NEW c \in Seq(Entry), NEW d \in Seq(Entry), NEW n \in Nat,
         n <= Len(c), SameShape(c, d, n)
  PROVE  /\ \A slot \in Slot, above \in 1 .. n + 1 :
              LiveSlot(c, slot, above) => LiveSlot(d, slot, above)
         /\ \A i \in 1 .. n : Linked(c, i) => Linked(d, i)
<1>1. ASSUME NEW slot \in Slot, NEW above \in 1 .. n + 1,
             LiveSlot(c, slot, above)
      PROVE  LiveSlot(d, slot, above)
  <2>1. slot[1] \in Nat
    BY DEF Slot
  <2> QED
    BY <1>1, <2>1 DEF LiveSlot, SameShape
<1>2. ASSUME NEW i \in 1 .. n, Linked(c, i)
      PROVE  Linked(d, i)
  <2>1. c[i].saved \in Slot
    <3>1. c[i] \in Entry
      BY ElementOfSeq, LenProperties
    <3> QED
      BY <3>1 DEF Entry
  <2>2. LiveSlot(d, c[i].saved, i)
    BY <1>1, <1>2, <2>1 DEF Linked, LiveEntry
  <2> QED
    BY <1>2, <2>2 DEF Linked, LiveEntry, SameShape
<1> QED
  BY <1>1, <1>2

(* Every entry of a chain has live slots, and so has a slot of the thread. *)
LinkedChain(c) == \A i \in 1 .. Len(c) : Linked(c, i)

LEMMA GrownChainIsLinked ==
  ASSUME NEW c \in Seq(Entry), NEW e \in Entry, LinkedChain(c),
         LiveSlot(c, e.saved, Len(c) + 1), e.saved[2] = e.outer,
         e.kind = "frame" => e.outer = e.space
  PROVE  LinkedChain(Append(c, e))
<1> DEFINE d == Append(c, e)
<1>1. /\ d \in Seq(Entry) /\ Len(d) = Len(c) + 1 /\ Len(c) \in Nat
      /\ d[Len(c) + 1] = e
      /\ SameShape(c, d, Len(c))
  BY GrownChain DEF SameShape
<1> HIDE DEF d
<1>2. /\ \A slot \in Slot, above \in 1 .. Len(c) + 1 :
           LiveSlot(c, slot, above) => LiveSlot(d, slot, above)
      /\ \A i \in 1 .. Len(c) : Linked(c, i) => Linked(d, i)
  <2>1. Len(c) <= Len(c)
    BY <1>1
  <2> QED
    BY <1>1, <2>1, ShapeKeepsSlots
<1>3. Linked(d, Len(c) + 1)
  <2>1. e.saved \in Slot
    BY DEF Entry
  <2>2. Len(c) + 1 \in 1 .. Len(c) + 1
    BY <1>1
  <2>3. LiveSlot(d, e.saved, Len(c) + 1)
    BY <1>2, <2>1, <2>2
  <2> QED
    BY <1>1, <2>3 DEF Linked, LiveEntry
<1>4. LinkedChain(d)
  BY <1>1, <1>2, <1>3 DEF LinkedChain
<1> QED
  BY <1>4 DEF d

LEMMA PoppedChainIsLinked ==
  ASSUME NEW c \in Seq(Entry), c # <<>>, LinkedChain(c)
  PROVE  /\ LinkedChain(SubSeq(c, 1, Len(c) - 1))
         /\ \A slot \in Slot : LiveSlot(c, slot, Len(c)) =>
              LiveSlot(SubSeq(c, 1, Len(c) - 1), slot, Len(c))
<1> DEFINE d == SubSeq(c, 1, Len(c) - 1)
<1>1. /\ d \in Seq(Entry) /\ Len(d) = Len(c) - 1 /\ Len(c) \in Nat \ {0}
      /\ SameShape(c, d, Len(c) - 1)
  BY PoppedChain DEF SameShape
<1> HIDE DEF d
<1>2. PICK n \in Nat : n = Len(c) - 1
  BY <1>1
<1>3. /\ \A slot \in Slot, above \in 1 .. n + 1 :
           LiveSlot(c, slot, above) => LiveSlot(d, slot, above)
      /\ \A i \in 1 .. n : Linked(c, i) => Linked(d, i)
  <2>1. n <= Len(c) /\ SameShape(c, d, n)
    BY <1>1, <1>2
  <2> QED
    BY <1>1, <2>1, ShapeKeepsSlots
<1>4. LinkedChain(d)
  BY <1>1, <1>2, <1>3 DEF LinkedChain
<1>5. \A slot \in Slot : LiveSlot(c, slot, Len(c)) => LiveSlot(d, slot, Len(c))
  <2>1. Len(c) \in 1 .. n + 1
    BY <1>1, <1>2
  <2> QED
    BY <1>3, <2>1
<1> QED
  BY <1>4, <1>5 DEF d

LEMMA ChainIsCounted ==
  ASSUME NEW c \in Seq(Entry), NEW k \in 1 .. Len(c), NEW d,
         d = [c EXCEPT ![k].ordinal = Counted(@)]
  PROVE  d \in Seq(Entry) /\ Len(d) = Len(c) /\ SameShape(c, d, Len(c))
BY CountedChain

LEMMA CountedChainIsLinked ==
  ASSUME NEW c \in Seq(Entry), NEW k \in 1 .. Len(c), LinkedChain(c)
  PROVE  /\ LinkedChain([c EXCEPT ![k].ordinal = Counted(@)])
         /\ \A slot \in Slot : LiveSlot(c, slot, Len(c) + 1) =>
              LiveSlot([c EXCEPT ![k].ordinal = Counted(@)], slot, Len(c) + 1)
<1> DEFINE d == [c EXCEPT ![k].ordinal = Counted(@)]
<1>1. d \in Seq(Entry) /\ Len(d) = Len(c) /\ SameShape(c, d, Len(c))
  BY CountedChain
<1> HIDE DEF d
<1>2. Len(c) \in Nat /\ Len(c) <= Len(c) /\ Len(c) + 1 \in 1 .. Len(c) + 1
  BY LenProperties
<1>3. /\ \A slot \in Slot, above \in 1 .. Len(c) + 1 :
           LiveSlot(c, slot, above) => LiveSlot(d, slot, above)
      /\ \A i \in 1 .. Len(c) : Linked(c, i) => Linked(d, i)
  BY <1>1, <1>2, ShapeKeepsSlots
<1>4. LinkedChain(d)
  BY <1>1, <1>3 DEF LinkedChain
<1> QED
  BY <1>2, <1>3, <1>4 DEF d
-----------------------------------------------------------------------------
(* The inductive invariant *)

(* A pinned frame is not the top of the chain: the callback's scope is     *)
(* above it, so that nothing but leaving that scope uncovers it.           *)
PinnedBelowScope ==
  callback_frame # 0 => /\ callback_frame < Len(chain)
                        /\ chain[callback_frame + 1].kind = "scope"

SlotsInv ==
  /\ LiveSlot(chain, call_ordinal_ptr, Len(chain) + 1)
  /\ call_ordinal_ptr[2] = current_space
  /\ LinkedChain(chain)

Inv == TypeOK /\ SlotsInv /\ PinnedBelowScope

LEMMA FrameIsEntry ==
  ASSUME TypeOK, NEW n \in Nat, NEW cache \in Caches
  PROVE  Frame(n, cache) \in Entry
BY SMTT(60) DEF Frame, Entry, TypeOK

LEMMA ScopeIsEntry ==
  ASSUME TypeOK, NEW s \in Spaces, NEW local \in BOOLEAN
  PROVE  Scope(s, local) \in Entry
<1>1. root_call_ordinal[s] \in Nat /\ NoDelta \in Caches
  BY DEF TypeOK, Caches
<1> QED
  BY <1>1, SMTT(60) DEF Scope, Entry, TypeOK

LEMMA AdvanceIsEntry ==
  ASSUME NEW e \in Entry
  PROVE  /\ Advance(e) \in Entry
         /\ Advance(e).kind = e.kind /\ Advance(e).space = e.space
         /\ Advance(e).saved = e.saved /\ Advance(e).outer = e.outer
         /\ Advance(e).local = e.local
<1> DEFINE e1 == [e EXCEPT !.counter = @ + 1]
           e2 == [e1 EXCEPT !.ordinal = 0]
           e3 == [e2 EXCEPT !.place = "running"]
<1>1. e1 \in Entry
  BY SMTT(60) DEF Entry
<1>2. e2 \in Entry
  <2> HIDE DEF e1
  <2> QED
    BY <1>1, EntryWithOrdinal
<1>3. e3 \in Entry
  <2> HIDE DEF e2
  <2> QED
    BY <1>2, SMTT(60) DEF Entry
<1>4. Advance(e) = e3
  BY SMTT(60) DEF Advance
<1>5. /\ e1.kind = e.kind /\ e1.space = e.space /\ e1.saved = e.saved
      /\ e1.outer = e.outer /\ e1.local = e.local
  BY DEF Entry
<1>6. /\ e2.kind = e.kind /\ e2.space = e.space /\ e2.saved = e.saved
      /\ e2.outer = e.outer /\ e2.local = e.local
  <2> HIDE DEF e1
  <2> QED
    BY <1>1, <1>5 DEF Entry
<1>7. /\ e3.kind = e.kind /\ e3.space = e.space /\ e3.saved = e.saved
      /\ e3.outer = e.outer /\ e3.local = e.local
  <2> HIDE DEF e2
  <2> QED
    BY <1>2, <1>6 DEF Entry
<1> QED
  <2> HIDE DEF e3
  <2> QED
    BY <1>3, <1>4, <1>7

LEMMA InitHasInv == Init => Inv
<1> SUFFICES ASSUME Init PROVE Inv
  OBVIOUS
<1>1. TypeOK
  BY CoordinatesAssumption DEF Init, TypeOK, Slot, RootSlot
<1>2. SlotsInv
  BY DEF Init, SlotsInv, LiveSlot, RootSlot, LinkedChain
<1> QED
  BY <1>1, <1>2 DEF Init, Inv, PinnedBelowScope

LEMMA ActivateKeepsInv ==
  ASSUME Inv, NEW n \in Nat, NEW cache \in Caches,
         ActivateFrame(Frame(n, cache)), suspended' \subseteq Suspended
  PROVE  Inv'
<1>1. PICK f \in Entry : f = Frame(n, cache)
  BY FrameIsEntry DEF Inv
<1>2. /\ f.kind = "frame" /\ f.space = current_space
      /\ f.saved = call_ordinal_ptr /\ f.outer = current_space
  BY <1>1 DEF Frame
<1>3. /\ chain' = Append(chain, f)
      /\ call_ordinal_ptr' = <<Len(chain) + 1, f.space>>
      /\ seen' = seen \cup {f.space}
      /\ depth' = [depth EXCEPT ![f.space] = @ + 1]
      /\ UNCHANGED <<current_space, root_call_ordinal, callback_frame, deltaVars>>
  BY <1>1 DEF ActivateFrame
<1>4. chain \in Seq(Entry) /\ Len(chain) \in Nat
  BY DEF Inv, TypeOK
<1>5. /\ chain' \in Seq(Entry) /\ Len(chain') = Len(chain) + 1
      /\ \A i \in 1 .. Len(chain) : chain'[i] = chain[i]
      /\ chain'[Len(chain) + 1] = f
  BY <1>3, <1>4, GrownChain
<1>6. TypeOK'
  BY <1>2, <1>3, <1>4, <1>5 DEF Inv, TypeOK, deltaVars, Slot
<1>7. LinkedChain(chain')
  BY <1>2, <1>3, <1>4, GrownChainIsLinked DEF Inv, SlotsInv
<1>8. SlotsInv'
  BY <1>2, <1>3, <1>4, <1>5, <1>7 DEF SlotsInv, LiveSlot
<1>9. PinnedBelowScope'
  BY <1>3, <1>4, <1>5 DEF Inv, TypeOK, PinnedBelowScope
<1> QED
  BY <1>6, <1>8, <1>9 DEF Inv
(* What the invariant says of the entry on top and the chain below it *)
LEMMA TopLeaves ==
  ASSUME Inv, chain # <<>>
  PROVE  /\ Len(chain) \in Nat \ {0}
         /\ Top \in Entry
         /\ Top.saved \in Slot
         /\ LiveSlot(chain, Top.saved, Len(chain))
         /\ Top.saved[2] = Top.outer
         /\ Top.kind = "frame" => Top.outer = Top.space
         /\ Popped \in Seq(Entry)
         /\ Len(Popped) = Len(chain) - 1
         /\ \A i \in 1 .. Len(chain) - 1 : Popped[i] = chain[i]
         /\ LinkedChain(Popped)
         /\ LiveSlot(Popped, Top.saved, Len(chain))
<1>1. chain \in Seq(Entry) /\ LinkedChain(chain)
  BY DEF Inv, TypeOK, SlotsInv
<1>2. /\ Popped \in Seq(Entry)
      /\ Len(Popped) = Len(chain) - 1
      /\ \A i \in 1 .. Len(chain) - 1 : Popped[i] = chain[i]
      /\ Len(chain) \in Nat \ {0}
      /\ Top \in Entry
  BY <1>1, PoppedChain DEF Popped, UpTo, Top
<1>3. Linked(chain, Len(chain))
  BY <1>1, <1>2 DEF LinkedChain
<1>4. /\ LiveSlot(chain, Top.saved, Len(chain))
      /\ Top.saved[2] = Top.outer
      /\ Top.kind = "frame" => Top.outer = Top.space
  BY <1>3 DEF Linked, LiveEntry, Top
<1>5. Top.saved \in Slot
  BY <1>2 DEF Entry
<1>6. LinkedChain(Popped) /\ LiveSlot(Popped, Top.saved, Len(chain))
  BY <1>1, <1>4, <1>5, PoppedChainIsLinked DEF Popped, UpTo
<1> QED
  BY <1>2, <1>4, <1>5, <1>6

LEMMA DeactivateKeepsInv ==
  ASSUME Inv, OnTop("frame"), DeactivateFrame, suspended' \subseteq Suspended
  PROVE  Inv'
<1>1. PICK n \in Nat, f \in Entry, p \in Seq(Entry) :
        /\ Len(chain) = n + 1 /\ f = Top /\ p = Popped /\ Len(p) = n
  BY TopLeaves DEF OnTop
<1>2. /\ f.saved \in Slot /\ f.saved[1] \in Nat /\ f.saved[2] \in Spaces
      /\ f.saved[2] = f.space /\ f.kind = "frame" /\ f.space \in Spaces
      /\ f.saved[1] < n + 1
      /\ LinkedChain(p) /\ LiveSlot(p, f.saved, n + 1)
      /\ \A i \in 1 .. n : p[i] = chain[i]
      /\ chain[n + 1] = f
  <2>1. /\ f.saved \in Slot /\ LiveSlot(p, f.saved, n + 1)
        /\ f.saved[2] = f.space /\ f.kind = "frame" /\ LinkedChain(p)
        /\ \A i \in 1 .. n : p[i] = chain[i]
    BY <1>1, TopLeaves DEF OnTop
  <2>2. f.saved[1] \in Nat /\ f.saved[2] \in Spaces /\ f.space \in Spaces
    BY <2>1, <1>1 DEF Slot
  <2>3. f.saved[1] < n + 1
    BY <2>1, <2>2 DEF LiveSlot
  <2> QED
    BY <1>1, <2>1, <2>2, <2>3 DEF Top
<1>3. /\ chain' \in Seq(Entry) /\ Len(chain') = n
      /\ SameShape(p, chain', n)
      /\ LinkedChain(chain')
      /\ \A slot \in Slot : LiveSlot(p, slot, n + 1) => LiveSlot(chain', slot, n + 1)
      /\ root_call_ordinal' \in [Spaces -> Nat]
  <2>1. CASE f.saved[1] = 0
    <3>1. /\ chain' = p
          /\ root_call_ordinal' =
               [root_call_ordinal EXCEPT ![f.saved[2]] = Counted(@)]
      BY <2>1, <1>1 DEF DeactivateFrame
    <3>2. root_call_ordinal' \in [Spaces -> Nat]
      BY <3>1, <1>2 DEF Inv, TypeOK, Counted
    <3> QED
      BY <3>1, <3>2, <1>1, <1>2 DEF SameShape
  <2>2. CASE f.saved[1] # 0
    <3>1. PICK k \in 1 .. n : k = f.saved[1]
      BY <2>2, <1>2
    <3>2. /\ chain' = [p EXCEPT ![k].ordinal = Counted(@)]
          /\ root_call_ordinal' = root_call_ordinal
      BY <2>2, <3>1, <1>1 DEF DeactivateFrame
    <3>3. /\ chain' \in Seq(Entry) /\ Len(chain') = n
          /\ SameShape(p, chain', n)
      <4>1. p \in Seq(Entry) /\ Len(p) = n
        BY <1>1
      <4>2. k \in 1 .. Len(p)
        BY <4>1
      <4> QED
        BY <3>2, <4>1, <4>2, ChainIsCounted
    <3>4. /\ LinkedChain(chain')
          /\ \A slot \in Slot : LiveSlot(p, slot, n + 1) => LiveSlot(chain', slot, n + 1)
      BY <3>1, <3>2, <1>1, <1>2, CountedChainIsLinked
    <3> QED
      BY <3>2, <3>3, <3>4 DEF Inv, TypeOK
  <2> QED
    BY <2>1, <2>2
<1>4. /\ call_ordinal_ptr' = IF call_ordinal_ptr = <<n + 1, f.space>>
                               THEN f.saved ELSE call_ordinal_ptr
      /\ depth' = [depth EXCEPT ![f.space] = Shallower(@)]
      /\ UNCHANGED <<current_space, seen, callback_frame, deltaVars>>
  BY <1>1 DEF DeactivateFrame
<1>5. /\ call_ordinal_ptr' \in Slot
      /\ LiveSlot(p, call_ordinal_ptr', n + 1)
      /\ call_ordinal_ptr'[2] = current_space
  <2>1. /\ call_ordinal_ptr \in Slot /\ call_ordinal_ptr[2] = current_space
        /\ LiveSlot(chain, call_ordinal_ptr, n + 2)
    BY <1>1 DEF Inv, TypeOK, SlotsInv
  <2>2. CASE call_ordinal_ptr = <<n + 1, f.space>>
    BY <2>1, <2>2, <1>2, <1>4
  <2>3. CASE call_ordinal_ptr # <<n + 1, f.space>>
    <3>1. call_ordinal_ptr' = call_ordinal_ptr
      BY <2>3, <1>4
    <3>2. call_ordinal_ptr[1] \in Nat
      BY <2>1 DEF Slot
    <3>3. call_ordinal_ptr[1] # n + 1
      BY <2>1, <2>3, <1>2 DEF LiveSlot, Slot
    <3>4. LiveSlot(p, call_ordinal_ptr, n + 1)
      BY <2>1, <3>2, <3>3, <1>2 DEF LiveSlot
    <3> QED
      BY <2>1, <3>1, <3>4
  <2> QED
    BY <2>2, <2>3
<1>6. callback_frame # 0 => /\ callback_frame < n
                            /\ p[callback_frame + 1].kind = "scope"
  <2> SUFFICES ASSUME callback_frame # 0
               PROVE  /\ callback_frame < n
                      /\ p[callback_frame + 1].kind = "scope"
    OBVIOUS
  <2>1. /\ callback_frame \in Nat /\ callback_frame < n + 1
        /\ chain[callback_frame + 1].kind = "scope"
    BY <1>1 DEF Inv, TypeOK, PinnedBelowScope
  <2>2. callback_frame # n
    BY <2>1, <1>2
  <2> QED
    BY <2>1, <2>2, <1>2
<1>7. TypeOK'
  <2>1. depth' \in [Spaces -> Nat]
    BY <1>2, <1>4 DEF Inv, TypeOK, Shallower
  <2>2. callback_frame' \in 0 .. Len(chain')
    BY <1>3, <1>4, <1>6 DEF Inv, TypeOK
  <2> QED
    BY <2>1, <2>2, <1>3, <1>4, <1>5 DEF Inv, TypeOK, deltaVars
<1>8. SlotsInv'
  BY <1>3, <1>4, <1>5 DEF SlotsInv
<1>9. PinnedBelowScope'
  <2> SUFFICES ASSUME callback_frame # 0
               PROVE  /\ callback_frame < n
                      /\ chain'[callback_frame + 1].kind = "scope"
    BY <1>3, <1>4 DEF PinnedBelowScope
  <2> QED
    BY <1>3, <1>6 DEF SameShape, Inv, TypeOK
<1> QED
  BY <1>7, <1>8, <1>9 DEF Inv

LEMMA LeaveSpaceKeepsInv ==
  ASSUME Inv, LeaveSpace
  PROVE  Inv'
<1>0. chain # <<>>
  BY DEF OnTop, LeaveSpace
<1>1. PICK n \in Nat, e \in Entry, p \in Seq(Entry) :
        /\ Len(chain) = n + 1 /\ e = Top /\ p = Popped /\ Len(p) = n
  <2>1. PICK n \in Nat : Len(chain) = n + 1
    <3>1. Len(chain) \in Nat \ {0}
      BY <1>0, TopLeaves
    <3>2. Len(chain) - 1 \in Nat /\ Len(chain) = (Len(chain) - 1) + 1
      BY <3>1
    <3> QED
      BY <3>2
  <2>2. Top \in Entry /\ Popped \in Seq(Entry) /\ Len(Popped) = n
    BY <1>0, <2>1, TopLeaves
  <2> QED
    BY <2>1, <2>2
<1>2. /\ e.saved \in Slot /\ e.saved[2] = e.outer
      /\ LinkedChain(p) /\ LiveSlot(p, e.saved, n + 1)
      /\ \A i \in 1 .. n : p[i] = chain[i]
  BY <1>0, <1>1, TopLeaves
<1>3. /\ current_space' = e.outer /\ call_ordinal_ptr' = e.saved
      /\ chain' = p /\ callback_frame' = PinAfter
      /\ UNCHANGED <<depth, seen, suspended, deltaVars>>
  BY <1>1 DEF LeaveSpace, SlotRestored
<1>4. root_call_ordinal' \in [Spaces -> Nat]
  <2>1. WrittenBack(e) \in Nat
    BY DEF WrittenBack, Entry
  <2> QED
    BY <1>1, <2>1 DEF LeaveSpace, Inv, TypeOK
<1>5. callback_frame' # 0 => /\ callback_frame' < n
                             /\ p[callback_frame' + 1].kind = "scope"
  <2>1. callback_frame \in Nat
    BY <1>1 DEF Inv, TypeOK
  <2> QED
    BY <2>1, <1>1, <1>2, <1>3 DEF Inv, PinnedBelowScope, PinAfter
<1>6. TypeOK'
  <2>1. callback_frame' \in 0 .. Len(chain')
    BY <1>1, <1>3, <1>5 DEF Inv, TypeOK, PinAfter
  <2>2. e.outer \in Spaces
    BY DEF Entry
  <2> QED
    BY <2>1, <2>2, <1>2, <1>3, <1>4 DEF Inv, TypeOK, deltaVars
<1>7. SlotsInv'
  BY <1>1, <1>2, <1>3 DEF SlotsInv
<1>8. PinnedBelowScope'
  BY <1>1, <1>3, <1>5 DEF PinnedBelowScope
<1> QED
  BY <1>6, <1>7, <1>8 DEF Inv
LEMMA InstructionIsLinked ==
  ASSUME Inv, OnTop("frame")
  PROVE  /\ AtInstruction \in Seq(Entry)
         /\ Len(AtInstruction) = Len(chain)
         /\ Len(chain) \in Nat \ {0}
         /\ SameShape(chain, AtInstruction, Len(chain))
         /\ LinkedChain(AtInstruction)
<1>1. PICK n \in Nat, e \in Entry, p \in Seq(Entry) :
        /\ Len(chain) = n + 1 /\ e = Top /\ p = Popped /\ Len(p) = n
  BY TopLeaves DEF OnTop
<1>2. PICK f \in Entry : f = Advance(e)
  BY AdvanceIsEntry
<1>3. /\ f.kind = e.kind /\ f.space = e.space /\ f.saved = e.saved
      /\ f.outer = e.outer /\ f.local = e.local
  BY <1>2, AdvanceIsEntry
<1>4. AtInstruction = Append(p, f)
  BY <1>1, <1>2 DEF AtInstruction
<1>5. /\ LinkedChain(p) /\ LiveSlot(p, e.saved, n + 1)
      /\ e.saved[2] = e.outer
      /\ e.kind = "frame" => e.outer = e.space
      /\ \A i \in 1 .. n : p[i] = chain[i]
  BY <1>1, TopLeaves DEF OnTop
<1>6. LinkedChain(AtInstruction)
  BY <1>1, <1>3, <1>4, <1>5, GrownChainIsLinked
<1>7. /\ Append(p, f) \in Seq(Entry) /\ Len(Append(p, f)) = n + 1
      /\ \A i \in 1 .. n : Append(p, f)[i] = p[i]
      /\ Append(p, f)[n + 1] = f
  BY <1>1, GrownChain
<1>8. chain[n + 1] = e
  BY <1>1 DEF Top
<1>9. SameShape(chain, AtInstruction, n + 1)
  BY <1>3, <1>4, <1>5, <1>7, <1>8 DEF SameShape
<1> QED
  BY <1>1, <1>4, <1>6, <1>7, <1>9

LEMMA StepKeepsInv ==
  ASSUME Inv, Step
  PROVE  Inv'
<1>1. OnTop("frame")
  BY DEF Step, BeginInstruction
<1>2. PICK c \in Seq(Entry) :
        /\ c = AtInstruction /\ Len(c) = Len(chain)
        /\ SameShape(chain, c, Len(chain)) /\ LinkedChain(c)
  BY <1>1, InstructionIsLinked
<1>3. /\ chain' = c
      /\ UNCHANGED <<current_space, call_ordinal_ptr, callback_frame>>
      /\ UNCHANGED <<root_call_ordinal, depth, seen, suspended, deltaVars>>
  BY <1>2 DEF Step, BeginInstruction
<1>4. Len(chain) \in Nat /\ chain \in Seq(Entry)
  BY DEF Inv, TypeOK
<1>5. TypeOK'
  BY <1>2, <1>3 DEF Inv, TypeOK, deltaVars
<1>6. SlotsInv'
  <2>1. /\ call_ordinal_ptr \in Slot
        /\ LiveSlot(chain, call_ordinal_ptr, Len(chain) + 1)
        /\ call_ordinal_ptr[2] = current_space
    BY DEF Inv, TypeOK, SlotsInv
  <2>2. Len(chain) + 1 \in 1 .. Len(chain) + 1 /\ Len(chain) <= Len(chain)
    BY <1>4
  <2>3. LiveSlot(c, call_ordinal_ptr, Len(chain) + 1)
    BY <1>2, <1>4, <2>1, <2>2, ShapeKeepsSlots
  <2> QED
    BY <1>2, <1>3, <2>1, <2>3 DEF SlotsInv
<1>7. PinnedBelowScope'
  BY <1>2, <1>3, <1>4 DEF Inv, TypeOK, PinnedBelowScope, SameShape
<1> QED
  BY <1>5, <1>6, <1>7 DEF Inv

LEMMA EnterSpaceLinks ==
  ASSUME Inv, NEW s \in Spaces, NEW c \in Seq(Entry), LinkedChain(c),
         Len(c) = Len(chain), SameShape(chain, c, Len(chain)),
         NEW frame \in 0 .. Len(c), EnterSpace(s, c, frame)
  PROVE  /\ chain' \in Seq(Entry) /\ Len(chain') = Len(chain) + 1
         /\ \A i \in 1 .. Len(chain) : chain'[i].kind = chain[i].kind
         /\ chain'[Len(chain) + 1].kind = "scope"
         /\ call_ordinal_ptr' \in Slot
         /\ current_space' = s
         /\ SlotsInv'
<1>1. PICK parent \in Nat : parent = Parent(c, frame, s)
  <2>1. PICK d \in Seq(Entry) : d = SubSeq(c, 1, frame)
    BY OldestEntries
  <2>2. Nearest(d, s) \in Nat
    BY NearestIsVisible
  <2> QED
    BY <2>1, <2>2 DEF Parent
<1>2. parent # 0 => parent \in 1 .. Len(c) /\ VisibleIn(c[parent], s)
  <2>1. PICK d \in Seq(Entry) :
          /\ d = SubSeq(c, 1, frame)
          /\ Len(d) = frame
          /\ \A i \in 1 .. frame : d[i] = c[i]
    BY OldestEntries
  <2>2. /\ Nearest(d, s) \in 0 .. Len(d)
        /\ Nearest(d, s) # 0 => VisibleIn(d[Nearest(d, s)], s)
    BY NearestIsVisible
  <2>3. parent = Nearest(d, s)
    BY <1>1, <2>1 DEF Parent
  <2> QED
    BY <2>1, <2>2, <2>3
<1>3. PICK e \in Entry : e = Scope(s, parent = 0)
  BY ScopeIsEntry DEF Inv
<1>4. /\ e.kind = "scope" /\ e.space = s /\ e.saved = call_ordinal_ptr
      /\ e.outer = current_space /\ e.local = (parent = 0)
  BY <1>3 DEF Scope
<1>5. /\ chain' = Append(c, e)
      /\ call_ordinal_ptr' = ScopeSlot(parent, Len(c) + 1, s)
      /\ current_space' = s
  BY <1>1, <1>3 DEF EnterSpace
<1>6. /\ chain' \in Seq(Entry) /\ Len(chain') = Len(c) + 1
      /\ \A i \in 1 .. Len(c) : chain'[i] = c[i]
      /\ chain'[Len(c) + 1] = e
      /\ Len(c) \in Nat
  BY <1>5, GrownChain
<1>7. call_ordinal_ptr \in Slot /\ chain \in Seq(Entry)
  BY DEF Inv, TypeOK
<1>8. LinkedChain(chain')
  <2>1. /\ LiveSlot(chain, call_ordinal_ptr, Len(c) + 1)
        /\ call_ordinal_ptr[2] = current_space
    BY DEF Inv, SlotsInv
  <2>2. LiveSlot(c, call_ordinal_ptr, Len(c) + 1)
    <3>1. Len(c) + 1 \in 1 .. Len(c) + 1 /\ Len(c) <= Len(chain)
      BY <1>6
    <3> QED
      BY <1>6, <1>7, <2>1, <3>1, ShapeKeepsSlots
  <2> QED
    BY <1>4, <1>5, <2>1, <2>2, GrownChainIsLinked
<1>9. /\ call_ordinal_ptr' \in Slot
      /\ call_ordinal_ptr'[2] = s
      /\ LiveSlot(chain', call_ordinal_ptr', Len(c) + 2)
  <2>1. CASE parent = 0
    <3>1. e.local
      BY <2>1, <1>4
    <3>2. call_ordinal_ptr' = <<Len(c) + 1, s>>
      BY <2>1, <1>5 DEF ScopeSlot
    <3>3. call_ordinal_ptr' \in Slot
      BY <3>2, <1>6 DEF Slot
    <3> QED
      BY <3>1, <3>2, <3>3, <1>4, <1>6 DEF LiveSlot
  <2>2. CASE parent # 0
    BY <2>2, <1>2, <1>5, <1>6 DEF ScopeSlot, LiveSlot, Slot, VisibleIn
  <2> QED
    BY <2>1, <2>2
<1>10. SlotsInv'
  BY <1>5, <1>6, <1>8, <1>9 DEF SlotsInv
<1> QED
  BY <1>4, <1>5, <1>6, <1>9, <1>10 DEF SameShape
LEMMA RunInSpaceKeepsInv ==
  ASSUME Inv, NEW s \in Spaces, RunInSpace(s)
  PROVE  Inv'
<1>1. /\ chain \in Seq(Entry) /\ Len(chain) \in Nat
      /\ callback_frame \in 0 .. Len(chain)
      /\ LinkedChain(chain)
  BY DEF Inv, TypeOK, SlotsInv
<1>2. /\ EnterSpace(s, chain, CurrentThreadFrame)
      /\ UNCHANGED <<root_call_ordinal, depth, seen, callback_frame,
                     suspended, deltaVars>>
  BY DEF RunInSpace
<1>3. CurrentThreadFrame \in 0 .. Len(chain)
  BY <1>1 DEF CurrentThreadFrame
<1>4. SameShape(chain, chain, Len(chain))
  BY DEF SameShape
<1>5. /\ chain' \in Seq(Entry) /\ Len(chain') = Len(chain) + 1
      /\ \A i \in 1 .. Len(chain) : chain'[i].kind = chain[i].kind
      /\ call_ordinal_ptr' \in Slot
      /\ current_space' = s
      /\ SlotsInv'
  BY <1>1, <1>2, <1>3, <1>4, EnterSpaceLinks
<1>6. TypeOK'
  BY <1>1, <1>2, <1>5 DEF Inv, TypeOK, deltaVars
<1>7. PinnedBelowScope'
  BY <1>1, <1>2, <1>5 DEF Inv, PinnedBelowScope
<1> QED
  BY <1>5, <1>6, <1>7 DEF Inv

LEMMA EnterCallbackKeepsInv ==
  ASSUME Inv, EnterCallback
  PROVE  Inv'
<1>1. OnTop("frame") /\ DisabledSpace \in Spaces
  BY CoordinatesAssumption DEF EnterCallback, BeginInstruction
<1>2. PICK c \in Seq(Entry) :
        /\ c = AtInstruction /\ Len(c) = Len(chain)
        /\ SameShape(chain, c, Len(chain)) /\ LinkedChain(c)
  BY <1>1, InstructionIsLinked
<1>3. /\ callback_frame' = Len(chain)
      /\ EnterSpace(DisabledSpace, c, Len(chain))
      /\ UNCHANGED <<root_call_ordinal, depth, seen, suspended, deltaVars>>
  BY <1>2 DEF EnterCallback, BeginInstruction
<1>4. Len(chain) \in Nat \ {0} /\ Len(chain) \in 0 .. Len(c)
  BY <1>1, <1>2, InstructionIsLinked
<1>5. /\ chain' \in Seq(Entry) /\ Len(chain') = Len(chain) + 1
      /\ chain'[Len(chain) + 1].kind = "scope"
      /\ call_ordinal_ptr' \in Slot
      /\ current_space' = DisabledSpace
      /\ SlotsInv'
  BY <1>1, <1>2, <1>3, <1>4, EnterSpaceLinks
<1>6. TypeOK'
  BY <1>1, <1>3, <1>4, <1>5 DEF Inv, TypeOK, deltaVars
<1>7. PinnedBelowScope'
  BY <1>3, <1>4, <1>5 DEF PinnedBelowScope
<1> QED
  BY <1>5, <1>6, <1>7 DEF Inv

LEMMA ThreadDeltaKeepsInv ==
  ASSUME Inv, NEW s \in Spaces, ThreadDelta(s)
  PROVE  Inv'
<1>1. PICK n \in Nat : n = Len(chain)
  BY DEF Inv, TypeOK
<1>2. chain \in Seq(Entry) /\ \A i \in 1 .. n : chain[i] \in Entry
  BY <1>1, ElementOfSeq DEF Inv, TypeOK
<1> DEFINE told(e) == [e EXCEPT !.cache = <<s, e.counter, e.ordinal>>]
<1>3. ASSUME NEW e \in Entry
      PROVE  /\ told(e) \in Entry
             /\ told(e).kind = e.kind /\ told(e).space = e.space
             /\ told(e).saved = e.saved /\ told(e).outer = e.outer
             /\ told(e).local = e.local
  <2>1. e.counter \in Nat /\ e.ordinal \in Nat
    BY DEF Entry
  <2>2. PICK new \in Caches : new = <<s, e.counter, e.ordinal>>
    BY <2>1 DEF Caches
  <2>3. [e EXCEPT !.cache = new] \in Entry
    BY SMTT(60) DEF Entry
  <2> QED
    BY <2>2, <2>3 DEF Entry
<1>4. /\ chain' = [i \in 1 .. n |->
            IF i <= ThreadStateFrame(s) /\ VisibleIn(chain[i], s)
              THEN told(chain[i]) ELSE chain[i]]
      /\ last_delta_root' =
           [last_delta_root EXCEPT ![s] = root_call_ordinal[s]]
      /\ DOMAIN reported' = DOMAIN reported
      /\ UNCHANGED <<threadVars, depth, seen, callback_frame, suspended>>
  BY <1>1 DEF ThreadDelta, Remember
<1> HIDE DEF told
<1>5. /\ \A i \in 1 .. n : chain'[i] = chain[i] \/ chain'[i] = told(chain[i])
      /\ chain' \in [1 .. n -> Entry]
  BY <1>2, <1>3, <1>4
<1>6. chain' \in Seq(Entry) /\ Len(chain') = n
  <2>1. chain' \in Seq(Entry)
    BY <1>5, SeqDef
  <2>2. DOMAIN chain' = 1 .. n
    BY <1>5
  <2> QED
    BY <2>1, <2>2, LenProperties
<1>7. SameShape(chain, chain', n)
  BY <1>2, <1>3, <1>5 DEF SameShape
<1>8. TypeOK'
  BY <1>1, <1>4, <1>6 DEF Inv, TypeOK, threadVars
<1>9. SlotsInv'
  <2>1. /\ call_ordinal_ptr \in Slot
        /\ LiveSlot(chain, call_ordinal_ptr, n + 1)
        /\ call_ordinal_ptr[2] = current_space
        /\ LinkedChain(chain)
    BY <1>1 DEF Inv, TypeOK, SlotsInv
  <2>2. n + 1 \in 1 .. n + 1 /\ n <= Len(chain)
    BY <1>1
  <2>3. /\ LiveSlot(chain', call_ordinal_ptr, n + 1)
        /\ \A i \in 1 .. n : Linked(chain, i) => Linked(chain', i)
    BY <1>2, <1>6, <1>7, <2>1, <2>2, ShapeKeepsSlots
  <2>4. LinkedChain(chain')
    BY <1>1, <1>6, <2>1, <2>3 DEF LinkedChain
  <2> QED
    BY <1>4, <1>6, <2>1, <2>3, <2>4 DEF SlotsInv, threadVars
<1>10. PinnedBelowScope'
  BY <1>1, <1>4, <1>6, <1>7 DEF Inv, TypeOK, PinnedBelowScope, SameShape
<1> QED
  BY <1>8, <1>9, <1>10 DEF Inv

LEMMA NextKeepsInv == Inv /\ [Next]_vars => Inv'
<1> SUFFICES ASSUME Inv, [Next]_vars PROVE Inv'
  OBVIOUS
<1>1. CASE Call
  <2>1. NoDelta \in Caches /\ suspended \subseteq Suspended
    BY DEF Inv, TypeOK, Caches
  <2> QED
    BY <1>1, <2>1, ActivateKeepsInv DEF Call
<1>2. ASSUME NEW g \in suspended, ResumeGenerator(g) PROVE Inv'
  <2>1. /\ g.counter \in Nat /\ g.cache \in Caches /\ NoDelta \in Caches
        /\ suspended \subseteq Suspended
    BY DEF Inv, TypeOK, Caches, Suspended
  <2>2. suspended' \subseteq Suspended
    BY <1>2, <2>1 DEF ResumeGenerator
  <2> QED
    BY <1>2, <2>1, <2>2, ActivateKeepsInv DEF ResumeGenerator
<1>3. CASE LeaveFrame
  <2>1. suspended' \subseteq Suspended
    BY <1>3 DEF LeaveFrame, Inv, TypeOK
  <2> QED
    BY <1>3, <2>1, DeactivateKeepsInv DEF LeaveFrame
<1>4. ASSUME NEW g \in Suspended, Suspend(g) PROVE Inv'
  <2>1. suspended' \subseteq Suspended
    BY <1>4 DEF Suspend, Inv, TypeOK
  <2> QED
    BY <1>4, <2>1, DeactivateKeepsInv DEF Suspend
<1>5. CASE Yield
  <2>1. Top \in Entry
    BY <1>5, TopLeaves DEF Yield, OnTop
  <2>2. [counter |-> Top.counter, cache |-> Top.cache] \in Suspended
    BY <2>1 DEF Entry, Suspended
  <2> QED
    BY <1>4, <1>5, <2>2 DEF Yield
<1>6. CASE CreateGenerator
  <2>1. [counter |-> 1, cache |-> NoDelta] \in Suspended
    BY DEF Suspended, Caches
  <2> QED
    BY <1>4, <1>6, <2>1 DEF CreateGenerator
<1>7. CASE Step
  BY <1>7, StepKeepsInv
<1>8. ASSUME NEW s \in Spaces, RunInSpace(s) PROVE Inv'
  BY <1>8, RunInSpaceKeepsInv
<1>9. CASE EnterCallback
  BY <1>9, EnterCallbackKeepsInv
<1>10. CASE LeaveSpace
  BY <1>10, LeaveSpaceKeepsInv
<1>11. ASSUME NEW s \in Spaces, ThreadDelta(s) PROVE Inv'
  BY <1>11, ThreadDeltaKeepsInv
<1>12. CASE UNCHANGED vars
  BY <1>12 DEF vars, threadVars, deltaVars, Inv, TypeOK, SlotsInv,
               PinnedBelowScope
<1> QED
  BY <1>1, <1>2, <1>3, <1>5, <1>6, <1>7, <1>8, <1>9, <1>10, <1>11, <1>12
     DEF Next

-----------------------------------------------------------------------------
(* The theorems *)

(* Whatever a thread calls, yields, throws, runs in other spaces or is     *)
(* interrupted by, Inv holds.                                              *)
THEOREM Inductive == Spec => []Inv
BY InitHasInv, NextKeepsInv, PTL DEF Spec

(* The state of a thread keeps its types: in particular no step writes     *)
(* through an ordinal pointer that leads outside the chain.                *)
THEOREM TypeCorrect == Spec => []TypeOK
<1>1. Inv => TypeOK
  BY DEF Inv
<1> QED
  BY <1>1, Inductive, PTL

(* No ordinal pointer outlives the frame or scope it points into, and none *)
(* counts in another space, for any number of spaces and any depth.        *)
THEOREM SlotsStayLive == Spec => []SlotsAreLive
<1>1. Inv => SlotsAreLive
  BY DEF Inv, SlotsInv, SlotsAreLive, LinkedChain, Linked
<1> QED
  BY <1>1, Inductive, PTL

-----------------------------------------------------------------------------
(* Depths: every action leaves the chain's frames as they are, puts one    *)
(* entry on top or takes the top off.                                      *)

IsFrameOf(e, s) == e.kind = "frame" /\ e.space = s

FramesOf(c, s) == {i \in 1 .. Len(c) : IsFrameOf(c[i], s)}

(* The first n entries are frames of the same spaces. *)
SameFrames(c, d, n) ==
  \A i \in 1 .. n : d[i].kind = c[i].kind /\ d[i].space = c[i].space

LEMMA FramesAreFinite ==
  ASSUME NEW c, NEW s, Len(c) \in Nat
  PROVE  /\ IsFiniteSet(FramesOf(c, s))
         /\ Cardinality(FramesOf(c, s)) \in Nat
<1>1. IsFiniteSet(1 .. Len(c))
  BY FS_Interval
<1>2. FramesOf(c, s) \in SUBSET (1 .. Len(c))
  BY DEF FramesOf
<1>3. IsFiniteSet(FramesOf(c, s))
  BY <1>1, <1>2, FS_Subset
<1> QED
  BY <1>3, FS_CardinalityType

(* The same frames are as many. *)
LEMMA FramesOfSame ==
  ASSUME NEW c, NEW d, NEW s, Len(c) \in Nat, Len(d) = Len(c),
         SameFrames(c, d, Len(c))
  PROVE  Cardinality(FramesOf(d, s)) = Cardinality(FramesOf(c, s))
<1>1. FramesOf(d, s) = FramesOf(c, s)
  BY DEF FramesOf, IsFrameOf, SameFrames
<1> QED
  BY <1>1

(* A chain that has one entry more than another has one frame more, if the *)
(* entry is a frame, in its space.                                         *)
LEMMA FramesOfLonger ==
  ASSUME NEW c, NEW d, NEW s, Len(c) \in Nat, Len(d) = Len(c) + 1,
         SameFrames(c, d, Len(c))
  PROVE  Cardinality(FramesOf(d, s)) =
           IF IsFrameOf(d[Len(d)], s) THEN Cardinality(FramesOf(c, s)) + 1
                                      ELSE Cardinality(FramesOf(c, s))
<1>1. FramesOf(d, s) =
        IF IsFrameOf(d[Len(d)], s) THEN FramesOf(c, s) \cup {Len(c) + 1}
                                   ELSE FramesOf(c, s)
  BY DEF FramesOf, IsFrameOf, SameFrames
<1>2. Len(c) + 1 \notin FramesOf(c, s)
  BY DEF FramesOf
<1>3. IsFiniteSet(FramesOf(c, s))
  BY FramesAreFinite
<1>4. Cardinality(FramesOf(c, s) \cup {Len(c) + 1}) =
        Cardinality(FramesOf(c, s)) + 1
  BY <1>2, <1>3, FS_AddElement
<1> QED
  BY <1>1, <1>4

-----------------------------------------------------------------------------
(* The actions *)

Depths(c, d) == \A s \in Spaces : d[s] = Cardinality(FramesOf(c, s))

LEMMA DepthIsDepths == DepthCountsFrames <=> Depths(chain, depth)
BY DEF DepthCountsFrames, Depths, FramesOf, IsFrameOf

(* An action that leaves the frames and the depths alone *)
LEMMA SameChainKeepsDepth ==
  ASSUME NEW c, NEW d, NEW m, Len(c) \in Nat, Len(d) = Len(c),
         SameFrames(c, d, Len(c)), Depths(c, m)
  PROVE  Depths(d, m)
BY FramesOfSame DEF Depths

(* A scope is put on top of d, or taken off. *)
LEMMA ScopeKeepsDepth ==
  ASSUME NEW c, NEW d, NEW m, Len(c) \in Nat, Len(d) = Len(c) + 1,
         SameFrames(c, d, Len(c)), d[Len(d)].kind = "scope"
  PROVE  Depths(c, m) <=> Depths(d, m)
<1>1. ASSUME NEW s \in Spaces
      PROVE  Cardinality(FramesOf(d, s)) = Cardinality(FramesOf(c, s))
  <2>1. ~ IsFrameOf(d[Len(d)], s)
    BY DEF IsFrameOf
  <2> QED
    BY <2>1, FramesOfLonger
<1> QED
  BY <1>1 DEF Depths

LEMMA ActivateKeepsDepth ==
  ASSUME Inv, DepthCountsFrames, NEW n \in Nat, NEW cache \in Caches,
         ActivateFrame(Frame(n, cache))
  PROVE  DepthCountsFrames'
<1>1. PICK f \in Entry : f = Frame(n, cache)
  BY FrameIsEntry DEF Inv
<1>2. f.kind = "frame" /\ f.space = current_space
  BY <1>1 DEF Frame
<1>3. /\ chain' = Append(chain, f)
      /\ depth' = [depth EXCEPT ![current_space] = @ + 1]
  BY <1>1, <1>2 DEF ActivateFrame
<1>4. /\ Len(chain) \in Nat /\ chain \in Seq(Entry)
      /\ depth \in [Spaces -> Nat] /\ current_space \in Spaces
  BY DEF Inv, TypeOK
<1>5. /\ Len(chain') = Len(chain) + 1
      /\ \A i \in 1 .. Len(chain) : chain'[i] = chain[i]
      /\ chain'[Len(chain')] = f
  BY <1>3, <1>4, GrownChain
<1>6. SameFrames(chain, chain', Len(chain))
  BY <1>5 DEF SameFrames
<1>7. ASSUME NEW s \in Spaces
      PROVE  depth'[s] = Cardinality(FramesOf(chain', s))
  <2>1. depth[s] = Cardinality(FramesOf(chain, s))
    BY DepthIsDepths DEF Depths
  <2>2. Cardinality(FramesOf(chain', s)) =
          IF s = current_space THEN depth[s] + 1 ELSE depth[s]
    BY <1>2, <1>4, <1>5, <1>6, <2>1, FramesOfLonger DEF IsFrameOf
  <2> QED
    BY <1>3, <1>4, <2>2
<1> QED
  BY <1>7 DEF DepthCountsFrames, FramesOf, IsFrameOf

LEMMA DeactivateKeepsDepth ==
  ASSUME Inv, Inv', DepthCountsFrames, OnTop("frame"), DeactivateFrame
  PROVE  DepthCountsFrames'
<1>1. PICK n \in Nat, f \in Entry, p \in Seq(Entry) :
        /\ Len(chain) = n + 1 /\ f = Top /\ p = Popped /\ Len(p) = n
        /\ \A i \in 1 .. n : p[i] = chain[i]
  BY TopLeaves DEF OnTop
<1>2. /\ f.kind = "frame" /\ f.space \in Spaces /\ chain[n + 1] = f
      /\ f.saved \in Slot /\ f.saved[1] \in Nat /\ f.saved[1] < n + 1
  <2>1. /\ f.kind = "frame" /\ chain[n + 1] = f /\ f.saved \in Slot
        /\ LiveSlot(chain, f.saved, n + 1)
    BY <1>1, TopLeaves DEF OnTop, Top
  <2>2. f.space \in Spaces /\ f.saved[1] \in Nat
    BY <1>1, <2>1 DEF Entry, Slot
  <2> QED
    BY <2>1, <2>2 DEF LiveSlot
<1>3. Len(chain') = n /\ SameShape(p, chain', n)
  <2>1. CASE f.saved[1] = 0
    BY <1>1, <2>1 DEF DeactivateFrame, SameShape
  <2>2. CASE f.saved[1] # 0
    <3>1. PICK k \in 1 .. n : k = f.saved[1]
      BY <1>2, <2>2
    <3>2. chain' = [p EXCEPT ![k].ordinal = Counted(@)]
      BY <1>1, <2>2, <3>1 DEF DeactivateFrame
    <3>3. p \in Seq(Entry) /\ Len(p) = n
      BY <1>1
    <3>4. k \in 1 .. Len(p)
      BY <3>3
    <3> QED
      BY <3>2, <3>3, <3>4, ChainIsCounted
  <2> QED
    BY <2>1, <2>2
<1>4. SameFrames(chain', chain, n)
  BY <1>1, <1>3 DEF SameShape, SameFrames
<1>5. depth' = [depth EXCEPT ![f.space] = Shallower(@)]
  BY <1>1 DEF DeactivateFrame
<1>6. depth \in [Spaces -> Nat]
  BY DEF Inv, TypeOK
<1>7. ASSUME NEW s \in Spaces
      PROVE  depth'[s] = Cardinality(FramesOf(chain', s))
  <2>1. depth[s] = Cardinality(FramesOf(chain, s))
    BY DepthIsDepths DEF Depths
  <2>2. Cardinality(FramesOf(chain', s)) \in Nat
    BY <1>3, FramesAreFinite
  <2>3. depth[s] = IF s = f.space
                     THEN Cardinality(FramesOf(chain', s)) + 1
                     ELSE Cardinality(FramesOf(chain', s))
    BY <1>1, <1>2, <1>3, <1>4, <2>1, FramesOfLonger DEF IsFrameOf
  <2> QED
    BY <1>2, <1>5, <1>6, <2>2, <2>3 DEF Shallower
<1> QED
  BY <1>7 DEF DepthCountsFrames, FramesOf, IsFrameOf

LEMMA StepKeepsDepth ==
  ASSUME Inv, DepthCountsFrames, Step
  PROVE  DepthCountsFrames'
<1>1. /\ Len(chain) \in Nat
      /\ Len(AtInstruction) = Len(chain)
      /\ SameShape(chain, AtInstruction, Len(chain))
  BY InstructionIsLinked DEF Step, BeginInstruction, Inv, TypeOK
<1>2. chain' = AtInstruction /\ depth' = depth
  BY DEF Step, BeginInstruction
<1>3. SameFrames(chain, chain', Len(chain))
  BY <1>1, <1>2 DEF SameShape, SameFrames
<1>4. Depths(chain', depth)
  BY <1>1, <1>2, <1>3, DepthIsDepths, SameChainKeepsDepth
<1> QED
  BY <1>2, <1>4 DEF DepthCountsFrames, Depths, FramesOf, IsFrameOf

(* A scope is entered from a chain that has the frames of this one. *)
LEMMA EnterSpaceKeepsDepth ==
  ASSUME Inv, DepthCountsFrames, NEW s \in Spaces, NEW c \in Seq(Entry),
         Len(c) = Len(chain), SameShape(chain, c, Len(chain)),
         NEW frame, EnterSpace(s, c, frame), depth' = depth
  PROVE  DepthCountsFrames'
<1>1. PICK e \in Entry : e.kind = "scope" /\ chain' = Append(c, e)
  <2>1. PICK local \in BOOLEAN : chain' = Append(c, Scope(s, local))
    BY DEF EnterSpace
  <2>2. Scope(s, local) \in Entry /\ Scope(s, local).kind = "scope"
    BY ScopeIsEntry DEF Inv, Scope
  <2> QED
    BY <2>1, <2>2
<1>2. /\ Len(chain') = Len(c) + 1
      /\ \A i \in 1 .. Len(c) : chain'[i] = c[i]
      /\ chain'[Len(chain')].kind = "scope"
      /\ Len(c) \in Nat
  BY <1>1, GrownChain
<1>3. SameFrames(chain, chain', Len(chain))
  BY <1>2 DEF SameShape, SameFrames
<1>4. Depths(chain', depth)
  BY <1>2, <1>3, DepthIsDepths, ScopeKeepsDepth
<1> QED
  BY <1>4 DEF DepthCountsFrames, Depths, FramesOf, IsFrameOf

LEMMA EnterCallbackKeepsDepth ==
  ASSUME Inv, DepthCountsFrames, EnterCallback
  PROVE  DepthCountsFrames'
<1>1. OnTop("frame") /\ DisabledSpace \in Spaces /\ depth' = depth
  BY CoordinatesAssumption DEF EnterCallback, BeginInstruction
<1>2. PICK c \in Seq(Entry) :
        /\ c = AtInstruction /\ Len(c) = Len(chain)
        /\ SameShape(chain, c, Len(chain))
  BY <1>1, InstructionIsLinked
<1>3. EnterSpace(DisabledSpace, c, Len(chain))
  BY <1>2 DEF EnterCallback
<1> QED
  BY <1>1, <1>2, <1>3, EnterSpaceKeepsDepth

LEMMA RunInSpaceKeepsDepth ==
  ASSUME Inv, DepthCountsFrames, NEW s \in Spaces, RunInSpace(s)
  PROVE  DepthCountsFrames'
<1>1. chain \in Seq(Entry) /\ SameShape(chain, chain, Len(chain))
  BY DEF Inv, TypeOK, SameShape
<1> QED
  BY <1>1, EnterSpaceKeepsDepth DEF RunInSpace

LEMMA LeaveSpaceKeepsDepth ==
  ASSUME Inv, DepthCountsFrames, LeaveSpace
  PROVE  DepthCountsFrames'
<1>1. PICK n \in Nat, p \in Seq(Entry) :
        /\ Len(chain) = n + 1 /\ p = Popped /\ Len(p) = n
        /\ \A i \in 1 .. n : p[i] = chain[i]
  BY TopLeaves DEF LeaveSpace, OnTop
<1>2. /\ chain' = p /\ depth' = depth
      /\ chain[Len(chain)].kind = "scope"
  BY <1>1 DEF LeaveSpace, OnTop, Top
<1>3. SameFrames(p, chain, n)
  BY <1>1 DEF SameFrames
<1>4. Depths(p, depth)
  BY <1>1, <1>2, <1>3, DepthIsDepths, ScopeKeepsDepth
<1> QED
  BY <1>2, <1>4 DEF DepthCountsFrames, Depths, FramesOf, IsFrameOf

LEMMA ThreadDeltaKeepsDepth ==
  ASSUME Inv, Inv', DepthCountsFrames, NEW s \in Spaces, ThreadDelta(s)
  PROVE  DepthCountsFrames'
<1>1. PICK n \in Nat : n = Len(chain)
  <2>1. chain \in Seq(Entry)
    BY DEF Inv, TypeOK
  <2>2. Len(chain) \in Nat
    BY <2>1, LenProperties
  <2> QED
    BY <2>2
<1>2. /\ \A i \in 1 .. n : chain[i] \in Entry
      /\ chain' \in Seq(Entry)
  BY <1>1, ElementOfSeq DEF Inv, TypeOK
<1> DEFINE told(e) == [e EXCEPT !.cache = <<s, e.counter, e.ordinal>>]
<1>3. /\ chain' = [i \in 1 .. n |->
            IF i <= ThreadStateFrame(s) /\ VisibleIn(chain[i], s)
              THEN told(chain[i]) ELSE chain[i]]
      /\ depth' = depth
  BY <1>1 DEF ThreadDelta, Remember
<1>4. \A e \in Entry : told(e).kind = e.kind /\ told(e).space = e.space
  BY DEF Entry
<1>5. Len(chain') = n
  <2>1. DOMAIN chain' = 1 .. n
    BY <1>3
  <2> QED
    BY <1>2, <2>1, LenProperties
<1>6. SameFrames(chain, chain', n)
  <2> HIDE DEF told
  <2> QED
    BY <1>2, <1>3, <1>4 DEF SameFrames
<1>7. Depths(chain', depth)
  BY <1>1, <1>5, <1>6, DepthIsDepths, SameChainKeepsDepth
<1> QED
  BY <1>3, <1>7 DEF DepthCountsFrames, Depths, FramesOf, IsFrameOf

-----------------------------------------------------------------------------
LEMMA InitHasDepth == Init => DepthCountsFrames
<1> SUFFICES ASSUME Init, NEW s \in Spaces
             PROVE  depth[s] = Cardinality(FramesOf(chain, s))
  BY DepthIsDepths DEF Depths
<1>1. FramesOf(chain, s) = {}
  BY DEF Init, FramesOf
<1> QED
  BY <1>1, FS_EmptySet DEF Init

LEMMA NextKeepsDepth ==
  Inv /\ Inv' /\ DepthCountsFrames /\ [Next]_vars => DepthCountsFrames'
<1> SUFFICES ASSUME Inv, Inv', DepthCountsFrames, [Next]_vars
             PROVE  DepthCountsFrames'
  OBVIOUS
<1>1. CASE Call
  <2>1. NoDelta \in Caches
    BY DEF Caches
  <2> QED
    BY <1>1, <2>1, ActivateKeepsDepth DEF Call
<1>2. ASSUME NEW g \in suspended, ResumeGenerator(g)
      PROVE  DepthCountsFrames'
  <2>1. g.counter \in Nat /\ g.cache \in Caches /\ NoDelta \in Caches
    BY DEF Inv, TypeOK, Caches, Suspended
  <2> QED
    BY <1>2, <2>1, ActivateKeepsDepth DEF ResumeGenerator
<1>3. CASE LeaveFrame
  BY <1>3, DeactivateKeepsDepth DEF LeaveFrame
<1>4. CASE Yield
  BY <1>4, DeactivateKeepsDepth DEF Yield, Suspend
<1>5. CASE CreateGenerator
  BY <1>5, DeactivateKeepsDepth DEF CreateGenerator, Suspend
<1>6. CASE Step
  BY <1>6, StepKeepsDepth
<1>7. ASSUME NEW s \in Spaces, RunInSpace(s) PROVE DepthCountsFrames'
  BY <1>7, RunInSpaceKeepsDepth
<1>8. CASE EnterCallback
  BY <1>8, EnterCallbackKeepsDepth
<1>9. CASE LeaveSpace
  BY <1>9, LeaveSpaceKeepsDepth
<1>10. ASSUME NEW s \in Spaces, ThreadDelta(s) PROVE DepthCountsFrames'
  BY <1>10, ThreadDeltaKeepsDepth
<1>11. CASE UNCHANGED vars
  BY <1>11 DEF vars, DepthCountsFrames
<1> QED
  BY <1>1, <1>2, <1>3, <1>4, <1>5, <1>6, <1>7, <1>8, <1>9, <1>10, <1>11
     DEF Next

(* space->depth is the number of the space's frames that are active,       *)
(* whatever is called, thrown, yielded, resumed or run in other spaces,    *)
(* for any spaces and any depth.                                           *)
THEOREM DepthsCount == Spec => []DepthCountsFrames
BY Inductive, InitHasDepth, NextKeepsDepth, PTL DEF Spec

-----------------------------------------------------------------------------
(* Parents: a callback breaks the rule for the frames that it starts, so   *)
(* the invariant speaks of the entries up to its scope, and says what the  *)
(* next frame will find once the scope is left.                            *)
(* The nearest visible frame of s among the first n entries *)
NearestIn(c, n, s) == Max({0} \cup {i \in 1 .. n : VisibleIn(c[i], s)})

(* The slot is where a frame of s belongs that starts above the first n    *)
(* entries.                                                                *)
Attached(c, n, slot, s) ==
  IF NearestIn(c, n, s) # 0
    THEN slot = <<NearestIn(c, n, s), s>>
    ELSE slot[1] = 0 \/ c[slot[1]].kind = "scope"

(* The entries that no callback has started *)
Limit == IF callback_frame = 0 THEN Len(chain) ELSE callback_frame + 1

EntriesAttached ==
  \A i \in 1 .. Limit :
    Attached(chain, i - 1, chain[i].saved, chain[i].outer)

PointerAttached ==
  callback_frame = 0 /\ ~ OnTop("frame") =>
    Attached(chain, Len(chain), call_ordinal_ptr, current_space)

(* What a frame starts hangs below it. *)
FramesFollow ==
  \A i \in 1 .. Len(chain) - 1 : chain[i].kind = "frame" =>
    /\ chain[i + 1].saved = <<i, chain[i].space>>
    /\ chain[i].counter > 0

TopFollows ==
  OnTop("frame") =>
    /\ call_ordinal_ptr = <<Len(chain), Top.space>>
    /\ Top.place = "running" => Top.counter > 0

ParentInv ==
  EntriesAttached /\ PointerAttached /\ FramesFollow /\ TopFollows

-----------------------------------------------------------------------------
(* Nearest frames *)

LEMMA NearestOfPrefix ==
  ASSUME NEW c \in Seq(Entry), NEW n \in 0 .. Len(c), NEW s
  PROVE  Nearest(SubSeq(c, 1, n), s) = NearestIn(c, n, s)
<1> DEFINE p == SubSeq(c, 1, n)
<1>1. Len(p) = n /\ \A i \in 1 .. n : p[i] = c[i]
  BY OldestEntries
<1> HIDE DEF p
<1>2. {i \in 1 .. Len(p) : VisibleIn(p[i], s)} =
        {i \in 1 .. n : VisibleIn(c[i], s)}
  BY <1>1
<1>3. Nearest(p, s) = NearestIn(c, n, s)
  BY <1>2 DEF Nearest, NearestIn
<1> QED
  BY <1>3 DEF p

LEMMA NearestIsFrame ==
  ASSUME NEW c, NEW n \in Nat, NEW s
  PROVE  /\ NearestIn(c, n, s) \in 0 .. n
         /\ NearestIn(c, n, s) # 0 => VisibleIn(c[NearestIn(c, n, s)], s)
         /\ \A i \in 1 .. n : VisibleIn(c[i], s) => NearestIn(c, n, s) >= i
<1> DEFINE S == {0} \cup {i \in 1 .. n : VisibleIn(c[i], s)}
<1>1. S \in SUBSET (0 .. n) /\ 0 \in S
  OBVIOUS
<1>2. Max(S) \in S /\ \A y \in S : Max(S) >= y
  <2> HIDE DEF S
  <2> QED
    BY <1>1, MaxIsMember
<1>3. NearestIn(c, n, s) = Max(S)
  BY DEF NearestIn
<1> QED
  BY <1>2, <1>3

(* One more entry is the nearest frame, or changes nothing. *)
LEMMA NearestAbove ==
  ASSUME NEW c, NEW n \in Nat, NEW s
  PROVE  NearestIn(c, n + 1, s) =
           IF VisibleIn(c[n + 1], s) THEN n + 1 ELSE NearestIn(c, n, s)
<1>1. CASE VisibleIn(c[n + 1], s)
  <2>1. /\ NearestIn(c, n + 1, s) \in 0 .. n + 1
        /\ NearestIn(c, n + 1, s) >= n + 1
    BY <1>1, NearestIsFrame
  <2> QED
    BY <1>1, <2>1
<1>2. CASE ~ VisibleIn(c[n + 1], s)
  <2>1. {i \in 1 .. n + 1 : VisibleIn(c[i], s)} =
          {i \in 1 .. n : VisibleIn(c[i], s)}
    BY <1>2
  <2> QED
    BY <1>2, <2>1 DEF NearestIn
<1> QED
  BY <1>1, <1>2

(* The first n entries agree in all that the rule is about. *)
Agree(c, d, n) ==
  \A i \in 1 .. n : /\ d[i].kind = c[i].kind
                    /\ d[i].space = c[i].space
                    /\ d[i].counter = c[i].counter
                    /\ d[i].saved = c[i].saved
                    /\ d[i].outer = c[i].outer

LEMMA AttachedStays ==
  ASSUME NEW c, NEW d, NEW n \in Nat, Agree(c, d, n), NEW s,
         NEW slot, slot[1] \in 0 .. n, Attached(c, n, slot, s)
  PROVE  Attached(d, n, slot, s)
<1>1. {i \in 1 .. n : VisibleIn(d[i], s)} = {i \in 1 .. n : VisibleIn(c[i], s)}
  BY DEF Agree, VisibleIn
<1>2. NearestIn(d, n, s) = NearestIn(c, n, s)
  BY <1>1 DEF NearestIn
<1>3. slot[1] # 0 => d[slot[1]].kind = c[slot[1]].kind
  BY DEF Agree
<1> QED
  BY <1>2, <1>3 DEF Attached

-----------------------------------------------------------------------------
(* The state *)

LEMMA SavedIsBelow ==
  ASSUME Inv, NEW i \in 1 .. Len(chain)
  PROVE  /\ chain[i] \in Entry
         /\ chain[i].saved[1] \in 0 .. i - 1
         /\ chain[i].kind = "frame" => chain[i].outer = chain[i].space
<1>1. chain[i] \in Entry
  BY ElementOfSeq DEF Inv, TypeOK
<1>2. LiveSlot(chain, chain[i].saved, i)
  BY DEF Inv, SlotsInv, LinkedChain, Linked, LiveEntry
<1>3. chain[i].saved[1] \in Nat
  BY <1>1 DEF Entry, Slot
<1>4. chain[i].saved[1] = 0 \/ chain[i].saved[1] < i
  BY <1>2 DEF LiveSlot
<1>5. chain[i].kind = "frame" => chain[i].outer = chain[i].space
  BY DEF Inv, SlotsInv, LinkedChain, Linked
<1>6. i \in Nat /\ i >= 1
  BY DEF Inv, TypeOK
<1> HIDE DEF Inv
<1> QED
  BY <1>1, <1>3, <1>4, <1>5, <1>6

(* In C code the pointer is where the next frame belongs. *)
LEMMA PointerIsAttached ==
  ASSUME Inv, ParentInv, InC, callback_frame = 0
  PROVE  Attached(chain, Len(chain), call_ordinal_ptr, current_space)
<1>1. CASE ~ OnTop("frame")
  BY <1>1 DEF ParentInv, PointerAttached
<1>2. CASE OnTop("frame")
  <2>1. PICK n \in Nat : Len(chain) = n + 1
    BY <1>2, TopLeaves DEF OnTop
  <2>2. /\ call_ordinal_ptr = <<n + 1, Top.space>>
        /\ Top.counter > 0 /\ Top.kind = "frame" /\ Top = chain[n + 1]
    BY <1>2, <2>1 DEF ParentInv, TopFollows, InC, OnTop, Top
  <2>3. Top.space = current_space
    BY <2>2 DEF Inv, SlotsInv
  <2>4. NearestIn(chain, n + 1, current_space) = n + 1
    BY <2>2, <2>3, NearestAbove DEF VisibleIn
  <2> QED
    BY <2>1, <2>2, <2>3, <2>4 DEF Attached
<1> QED
  BY <1>1, <1>2

(* Entries that agree stay attached. *)
LEMMA EntriesStay ==
  ASSUME Inv, ParentInv, NEW d, NEW n \in Nat, n <= Limit, n <= Len(chain),
         \A i \in 1 .. n : /\ d[i].saved = chain[i].saved
                           /\ d[i].outer = chain[i].outer,
         Agree(chain, d, n - 1)
  PROVE  \A i \in 1 .. n : Attached(d, i - 1, d[i].saved, d[i].outer)
<1> SUFFICES ASSUME NEW i \in 1 .. n
             PROVE  Attached(d, i - 1, chain[i].saved, chain[i].outer)
  OBVIOUS
<1>1. i - 1 \in Nat /\ i \in 1 .. Len(chain) /\ i \in 1 .. Limit
  BY DEF Inv, TypeOK, Limit
<1>2. Attached(chain, i - 1, chain[i].saved, chain[i].outer)
  BY <1>1 DEF ParentInv, EntriesAttached
<1>3. chain[i].saved[1] \in 0 .. i - 1
  BY <1>1, SavedIsBelow
<1>4. Agree(chain, d, i - 1)
  BY <1>1 DEF Agree
<1> QED
  BY <1>1, <1>2, <1>3, <1>4, AttachedStays

-----------------------------------------------------------------------------
(* One entry more, one entry less, or none *)

(* An entry is put on top; what was on top has started an instruction.     *)
LEMMA GrownKeepsEntries ==
  ASSUME Inv, ParentInv, NEW n \in Nat, Len(chain) = n, Len(chain') = n + 1,
         Agree(chain, chain', n - 1), SameShape(chain, chain', n),
         IF OnTop("frame") THEN chain'[n].counter > 0
                           ELSE Agree(chain, chain', n),
         chain'[n + 1].saved = call_ordinal_ptr,
         chain'[n + 1].outer = current_space,
         \/ callback_frame' = callback_frame
         \/ callback_frame = 0 /\ callback_frame' = n
  PROVE  EntriesAttached' /\ FramesFollow'
<1>1. OnTop("frame") =>
        /\ n \in 1 .. n /\ chain[n].kind = "frame"
        /\ call_ordinal_ptr = <<n, chain[n].space>>
        /\ chain[n].space = current_space
  <2> SUFFICES ASSUME OnTop("frame")
               PROVE  /\ n \in 1 .. n /\ chain[n].kind = "frame"
                      /\ call_ordinal_ptr = <<n, chain[n].space>>
                      /\ chain[n].space = current_space
    OBVIOUS
  <2>1. n # 0
    BY TopLeaves DEF OnTop
  <2> QED
    BY <2>1 DEF OnTop, Top, ParentInv, TopFollows, Inv, SlotsInv
<1>2. chain[n].kind = "frame" /\ n # 0 => OnTop("frame")
  BY DEF OnTop, Top
<1>3. callback_frame \in Nat /\ (callback_frame # 0 => callback_frame < n)
  BY DEF Inv, TypeOK, PinnedBelowScope
<1>4. ASSUME callback_frame = 0
      PROVE  Attached(chain', n, call_ordinal_ptr, current_space)
  <2>1. CASE OnTop("frame")
    <3>1. VisibleIn(chain'[n], current_space)
      BY <1>1, <2>1 DEF VisibleIn, SameShape
    <3>2. NearestIn(chain', n, current_space) = n
      BY <1>1, <2>1, <3>1, NearestIsFrame
    <3> QED
      BY <1>1, <2>1, <3>2 DEF Attached
  <2>2. CASE ~ OnTop("frame")
    <3>1. Attached(chain, n, call_ordinal_ptr, current_space)
      BY <1>4, <2>2 DEF ParentInv, PointerAttached
    <3>2. /\ call_ordinal_ptr \in Slot
          /\ LiveSlot(chain, call_ordinal_ptr, n + 1)
      BY DEF Inv, TypeOK, SlotsInv
    <3>3. call_ordinal_ptr[1] \in 0 .. n
      BY <3>2 DEF Slot, LiveSlot
    <3> QED
      BY <2>2, <3>1, <3>3, AttachedStays
  <2> QED
    BY <2>1, <2>2
<1>5. PICK m \in Nat : m = Limit /\ m <= n
                       /\ (callback_frame # 0 => Limit' = m)
                       /\ (callback_frame = 0 => m = n /\ Limit' = n + 1)
  BY <1>3 DEF Limit
<1>6. \A i \in 1 .. m :
        Attached(chain', i - 1, chain'[i].saved, chain'[i].outer)
  <2>1. 1 .. m \subseteq 1 .. n /\ 1 .. m - 1 \subseteq 1 .. n - 1
    BY <1>5
  <2>2. \A i \in 1 .. m : /\ chain'[i].saved = chain[i].saved
                          /\ chain'[i].outer = chain[i].outer
    BY <2>1 DEF SameShape
  <2>3. Agree(chain, chain', m - 1)
    BY <2>1 DEF Agree
  <2>4. m \in Nat /\ m <= Limit /\ m <= Len(chain)
    BY <1>5
  <2> DEFINE d == chain'
  <2> HIDE DEF d
  <2>5. /\ \A i \in 1 .. m : /\ d[i].saved = chain[i].saved
                            /\ d[i].outer = chain[i].outer
        /\ Agree(chain, d, m - 1)
    BY <2>2, <2>3 DEF d
  <2>6. \A i \in 1 .. m : Attached(d, i - 1, d[i].saved, d[i].outer)
    BY <2>4, <2>5, EntriesStay
  <2> QED
    BY <2>6 DEF d
<1>7. EntriesAttached'
  <2> SUFFICES ASSUME NEW i \in 1 .. Limit'
               PROVE  Attached(chain', i - 1, chain'[i].saved, chain'[i].outer)
    BY DEF EntriesAttached
  <2>1. CASE i \in 1 .. m
    BY <1>6, <2>1
  <2>2. CASE i \notin 1 .. m
    <3>1. callback_frame = 0 /\ i = n + 1 /\ i - 1 = n
      BY <1>5, <2>2
    <3> QED
      BY <1>4, <3>1
  <2> QED
    BY <2>1, <2>2
<1>8. FramesFollow'
  <2> SUFFICES ASSUME NEW i \in 1 .. n, chain'[i].kind = "frame"
               PROVE  /\ chain'[i + 1].saved = <<i, chain'[i].space>>
                      /\ chain'[i].counter > 0
    BY DEF FramesFollow
  <2>1. chain[i].kind = "frame" /\ chain'[i].space = chain[i].space
    BY DEF SameShape
  <2>2. CASE i = n
    <3>1. OnTop("frame")
      BY <1>2, <2>1, <2>2
    <3> QED
      BY <1>1, <2>1, <2>2, <3>1
  <2>3. CASE i # n
    <3>1. i \in 1 .. n - 1 /\ i + 1 \in 1 .. n
      BY <2>3
    <3>2. chain[i + 1].saved = <<i, chain[i].space>> /\ chain[i].counter > 0
      BY <2>1, <3>1 DEF ParentInv, FramesFollow
    <3> QED
      BY <2>1, <3>1, <3>2 DEF SameShape, Agree
  <2> QED
    BY <2>2, <2>3
<1> QED
  BY <1>7, <1>8

LEMMA Successor ==
  ASSUME NEW a \in Nat, NEW b \in Nat, a < b
  PROVE  a + 1 \in Nat /\ a + 1 <= b
OBVIOUS

(* The entry on top leaves and its slot is put back. *)
LEMMA ShrunkKeepsParents ==
  ASSUME Inv, Inv', ParentInv, NEW n \in Nat, Len(chain) = n + 1,
         Len(chain') = n, Agree(chain, chain', n),
         call_ordinal_ptr' = Top.saved, current_space' = Top.outer,
         \/ callback_frame' = callback_frame
         \/ callback_frame = n /\ callback_frame' = 0
  PROVE  ParentInv'
<1>1. /\ callback_frame \in Nat /\ callback_frame' \in Nat
      /\ callback_frame' # 0 => callback_frame' < n
  <2>1. callback_frame \in 0 .. n + 1
    BY DEF Inv, TypeOK
  <2>2. callback_frame' \in 0 .. n
    BY DEF Inv, TypeOK
  <2>3. callback_frame' # 0 => callback_frame' < n
    BY DEF Inv, PinnedBelowScope
  <2> QED
    BY <2>1, <2>2, <2>3
<1>2. PICK m \in Nat : /\ m = Limit' /\ m <= n /\ m <= Limit
                       /\ callback_frame' = 0 => Limit = n + 1
  <2>1. Limit = IF callback_frame = 0 THEN n + 1 ELSE callback_frame + 1
    BY DEF Limit
  <2>2. Limit' = IF callback_frame' = 0 THEN n ELSE callback_frame' + 1
    BY DEF Limit
  <2>3. CASE callback_frame' = 0
    <3>1. Limit' = n /\ Limit = n + 1
      BY <1>1, <2>1, <2>2, <2>3
    <3> QED
      BY <2>3, <3>1
  <2>4. CASE callback_frame' # 0
    <3>1. Limit' = callback_frame' + 1
      BY <2>2, <2>4
    <3>2. callback_frame = callback_frame'
      BY <2>4
    <3>3. Limit = callback_frame' + 1
      BY <2>1, <2>4, <3>2
    <3>4. callback_frame' + 1 \in Nat /\ callback_frame' + 1 <= n
      <4>1. callback_frame' \in Nat /\ callback_frame' < n
        BY <1>1, <2>4
      <4> QED
        BY <4>1, Successor
    <3> QED
      BY <2>4, <3>1, <3>3, <3>4
  <2> QED
    BY <2>3, <2>4
<1>3. EntriesAttached'
  <2>1. \A i \in 1 .. m : /\ chain'[i].saved = chain[i].saved
                          /\ chain'[i].outer = chain[i].outer
    BY <1>2 DEF Agree
  <2>2. Agree(chain, chain', m - 1) /\ m <= Len(chain)
    <3>1. m <= n
      BY <1>2
    <3>2. \A i \in 1 .. m - 1 : i \in 1 .. n
      BY <3>1
    <3> QED
      BY <3>1, <3>2 DEF Agree
  <2>3. \A i \in 1 .. m :
          Attached(chain', i - 1, chain'[i].saved, chain'[i].outer)
    BY <1>2, <2>1, <2>2, EntriesStay
  <2> QED
    BY <1>2, <2>3 DEF EntriesAttached
<1>4. Top = chain[n + 1] /\ n + 1 \in 1 .. Len(chain)
  BY DEF Top
<1>5. ASSUME callback_frame' = 0
      PROVE  Attached(chain', n, call_ordinal_ptr', current_space')
  <2>1. n + 1 \in 1 .. Limit /\ (n + 1) - 1 = n
    BY <1>2, <1>5
  <2>2. Attached(chain, n, chain[n + 1].saved, chain[n + 1].outer)
    BY <2>1 DEF ParentInv, EntriesAttached
  <2>3. chain[n + 1].saved[1] \in 0 .. n
    BY <1>4, <2>1, SavedIsBelow
  <2> QED
    BY <1>4, <2>2, <2>3, AttachedStays
<1>6. PointerAttached'
  BY <1>5 DEF PointerAttached
<1>7. \A i \in 1 .. n : chain[i].kind = "frame" =>
        /\ chain[i + 1].saved = <<i, chain[i].space>>
        /\ chain[i].counter > 0
  BY DEF ParentInv, FramesFollow
<1>8. FramesFollow'
  <2> SUFFICES ASSUME NEW i \in 1 .. n - 1, chain'[i].kind = "frame"
               PROVE  /\ chain'[i + 1].saved = <<i, chain'[i].space>>
                      /\ chain'[i].counter > 0
    BY DEF FramesFollow
  <2>1. i \in 1 .. n /\ i + 1 \in 1 .. n
    OBVIOUS
  <2> QED
    BY <1>7, <2>1 DEF Agree
<1>9. TopFollows'
  <2> SUFFICES ASSUME chain' # <<>>, chain'[n].kind = "frame"
               PROVE  /\ call_ordinal_ptr' = <<n, chain'[n].space>>
                      /\ chain'[n].counter > 0
    BY DEF TopFollows, OnTop, Top
  <2>1. n \in 1 .. n
    <3>1. chain' \in Seq(Entry)
      BY DEF Inv, TypeOK
    <3> QED
      BY <3>1, EmptySeq
  <2> QED
    BY <1>4, <1>7, <2>1 DEF Agree
<1> QED
  BY <1>3, <1>6, <1>8, <1>9 DEF ParentInv

-----------------------------------------------------------------------------
(* The actions *)

LEMMA ActivateKeepsParents ==
  ASSUME Inv, ParentInv, NEW k \in Nat, NEW cache \in Caches,
         ActivateFrame(Frame(k, cache))
  PROVE  ParentInv'
<1>1. PICK f \in Entry : f = Frame(k, cache)
  BY FrameIsEntry DEF Inv
<1>2. /\ f.kind = "frame" /\ f.space = current_space /\ f.place = "entry"
      /\ f.saved = call_ordinal_ptr /\ f.outer = current_space
  BY <1>1 DEF Frame
<1>3. PICK n \in Nat : n = Len(chain)
  BY DEF Inv, TypeOK
<1>4. /\ InC
      /\ chain' = Append(chain, f)
      /\ call_ordinal_ptr' = <<n + 1, f.space>>
      /\ callback_frame' = callback_frame
  BY <1>1, <1>3 DEF ActivateFrame
<1>5. /\ Len(chain') = n + 1
      /\ \A i \in 1 .. n : chain'[i] = chain[i]
      /\ chain'[n + 1] = f
  <2>1. chain \in Seq(Entry)
    BY DEF Inv, TypeOK
  <2> QED
    BY <1>3, <1>4, <2>1, GrownChain
<1>6. /\ Agree(chain, chain', n) /\ Agree(chain, chain', n - 1)
      /\ SameShape(chain, chain', n)
  BY <1>5 DEF Agree, SameShape
<1>7. OnTop("frame") => chain'[n].counter > 0
  <2> SUFFICES ASSUME OnTop("frame") PROVE chain'[n].counter > 0
    OBVIOUS
  <2>1. n \in 1 .. n
    BY <1>3, TopLeaves DEF OnTop
  <2>2. chain[n].counter > 0
    BY <1>3, <1>4 DEF ParentInv, TopFollows, InC, OnTop, Top
  <2> QED
    BY <1>5, <2>1, <2>2
<1>8. EntriesAttached' /\ FramesFollow'
  BY <1>2, <1>3, <1>4, <1>5, <1>6, <1>7, GrownKeepsEntries
<1>9. PointerAttached' /\ TopFollows'
  <2>1. chain' # <<>>
    <3>1. n + 1 # 0
      OBVIOUS
    <3> QED
      BY <1>5, <3>1
  <2>2. Top' = f
    BY <1>5 DEF Top
  <2> QED
    BY <1>2, <1>4, <1>5, <2>1, <2>2 DEF PointerAttached, TopFollows, OnTop
<1> QED
  BY <1>8, <1>9 DEF ParentInv

LEMMA DeactivateKeepsParents ==
  ASSUME Inv, Inv', ParentInv, OnTop("frame"), DeactivateFrame
  PROVE  ParentInv'
<1>1. PICK n \in Nat, f \in Entry, p \in Seq(Entry) :
        /\ Len(chain) = n + 1 /\ f = Top /\ p = Popped /\ Len(p) = n
        /\ \A i \in 1 .. n : p[i] = chain[i]
  BY TopLeaves DEF OnTop
<1>2. /\ f.kind = "frame" /\ f.outer = f.space
      /\ f.saved \in Slot /\ f.saved[1] \in Nat /\ f.saved[1] < n + 1
  <2>1. /\ f.kind = "frame" /\ f.outer = f.space /\ f.saved \in Slot
        /\ LiveSlot(chain, f.saved, n + 1)
    BY <1>1, TopLeaves DEF OnTop
  <2>2. f.saved[1] \in Nat
    BY <2>1 DEF Slot
  <2> QED
    BY <2>1, <2>2 DEF LiveSlot
<1>3. Len(chain') = n /\ Agree(chain, chain', n)
  <2>1. CASE f.saved[1] = 0
    BY <1>1, <2>1 DEF DeactivateFrame, Agree
  <2>2. CASE f.saved[1] # 0
    <3>1. PICK k \in 1 .. n : k = f.saved[1]
      BY <1>2, <2>2
    <3>2. chain' = [p EXCEPT ![k].ordinal = Counted(@)]
      BY <1>1, <2>2, <3>1 DEF DeactivateFrame
    <3>3. Len(chain') = n /\ SameShape(p, chain', n)
      <4>1. p \in Seq(Entry) /\ Len(p) = n
        BY <1>1
      <4>2. k \in 1 .. Len(p)
        BY <4>1
      <4> QED
        BY <3>2, <4>1, <4>2, ChainIsCounted
    <3>4. \A i \in 1 .. n : chain'[i].counter = p[i].counter
      <4>1. \A i \in 1 .. n : p[i] \in Entry
        BY <1>1, ElementOfSeq
      <4>2. p \in [1 .. n -> Entry]
        BY <1>1, LenProperties
      <4> QED
        BY <3>1, <3>2, <4>1, <4>2 DEF Entry
    <3> QED
      BY <1>1, <3>3, <3>4 DEF SameShape, Agree
  <2> QED
    BY <2>1, <2>2
<1>4. call_ordinal_ptr = <<n + 1, f.space>> /\ current_space = f.space
  BY <1>1 DEF ParentInv, TopFollows, Inv, SlotsInv
<1>5. /\ call_ordinal_ptr' = Top.saved /\ current_space' = Top.outer
      /\ callback_frame' = callback_frame
  BY <1>1, <1>2, <1>4 DEF DeactivateFrame
<1> QED
  BY <1>1, <1>3, <1>5, ShrunkKeepsParents

LEMMA LeaveSpaceKeepsParents ==
  ASSUME Inv, Inv', ParentInv, LeaveSpace
  PROVE  ParentInv'
<1>1. PICK n \in Nat, p \in Seq(Entry) :
        /\ Len(chain) = n + 1 /\ p = Popped /\ Len(p) = n
        /\ \A i \in 1 .. n : p[i] = chain[i]
  BY TopLeaves DEF LeaveSpace, OnTop
<1>2. /\ chain' = p /\ callback_frame' = PinAfter
      /\ call_ordinal_ptr' = Top.saved /\ current_space' = Top.outer
  BY <1>1 DEF LeaveSpace, SlotRestored
<1>3. Len(chain') = n /\ Agree(chain, chain', n)
  BY <1>1, <1>2 DEF Agree
<1>4. \/ callback_frame' = callback_frame
      \/ callback_frame = n /\ callback_frame' = 0
  <2>1. callback_frame \in Nat
    BY <1>1 DEF Inv, TypeOK
  <2> QED
    BY <1>1, <1>2, <2>1 DEF PinAfter
<1> QED
  BY <1>1, <1>2, <1>3, <1>4, ShrunkKeepsParents

(* A scope is entered from c, which is the chain or the chain with its top *)
(* frame at the next instruction.                                          *)
LEMMA EnterSpaceGrows ==
  ASSUME Inv, NEW s \in Spaces, NEW c \in Seq(Entry),
         NEW n \in Nat, Len(chain) = n, Len(c) = n,
         SameShape(chain, c, n), NEW frame, EnterSpace(s, c, frame)
  PROVE  /\ Len(chain') = n + 1
         /\ \A i \in 1 .. n : chain'[i] = c[i]
         /\ SameShape(chain, chain', n)
         /\ chain'[n + 1].kind = "scope"
         /\ chain'[n + 1].saved = call_ordinal_ptr
         /\ chain'[n + 1].outer = current_space
<1>1. PICK local \in BOOLEAN : chain' = Append(c, Scope(s, local))
  BY DEF EnterSpace
<1>2. PICK e \in Entry : e = Scope(s, local)
  BY ScopeIsEntry DEF Inv
<1>3. /\ e.kind = "scope" /\ e.saved = call_ordinal_ptr
      /\ e.outer = current_space
  BY <1>2 DEF Scope
<1>4. /\ Len(chain') = n + 1
      /\ \A i \in 1 .. n : chain'[i] = c[i]
      /\ chain'[n + 1] = e
  BY <1>1, <1>2, GrownChain
<1> QED
  BY <1>3, <1>4 DEF SameShape

LEMMA RunInSpaceKeepsParents ==
  ASSUME Inv, ParentInv, NEW s \in Spaces, RunInSpace(s)
  PROVE  ParentInv'
<1>1. PICK n \in Nat : n = Len(chain)
  BY DEF Inv, TypeOK
<1>2. /\ InC /\ EnterSpace(s, chain, CurrentThreadFrame)
      /\ callback_frame' = callback_frame
  BY DEF RunInSpace
<1>3. chain \in Seq(Entry) /\ SameShape(chain, chain, n)
  BY DEF Inv, TypeOK, SameShape
<1>4. /\ Len(chain') = n + 1
      /\ \A i \in 1 .. n : chain'[i] = chain[i]
      /\ SameShape(chain, chain', n)
      /\ chain'[n + 1].kind = "scope"
      /\ chain'[n + 1].saved = call_ordinal_ptr
      /\ chain'[n + 1].outer = current_space
  BY <1>1, <1>2, <1>3, EnterSpaceGrows
<1>5. Agree(chain, chain', n) /\ Agree(chain, chain', n - 1)
  BY <1>4 DEF Agree
<1>6. OnTop("frame") => chain'[n].counter > 0
  <2> SUFFICES ASSUME OnTop("frame") PROVE chain'[n].counter > 0
    OBVIOUS
  <2>1. n \in 1 .. n
    BY <1>1, TopLeaves DEF OnTop
  <2>2. chain[n].counter > 0
    BY <1>1, <1>2 DEF ParentInv, TopFollows, InC, OnTop, Top
  <2> QED
    BY <1>4, <2>1, <2>2
<1>7. EntriesAttached' /\ FramesFollow'
  BY <1>1, <1>2, <1>4, <1>5, <1>6, GrownKeepsEntries
<1>8. TopFollows'
  <2>1. Top'.kind = "scope"
    BY <1>4 DEF Top
  <2> QED
    BY <2>1 DEF TopFollows, OnTop
<1>9. ASSUME callback_frame = 0
      PROVE  Attached(chain', n + 1, call_ordinal_ptr', current_space')
  <2>1. PICK parent \in 0 .. n : parent = NearestIn(chain, n, s)
    BY NearestIsFrame
  <2>2. Parent(chain, CurrentThreadFrame, s) = parent
    <3>1. CurrentThreadFrame = n /\ n \in 0 .. Len(chain)
      BY <1>1, <1>9 DEF CurrentThreadFrame
    <3> QED
      BY <1>3, <2>1, <3>1, NearestOfPrefix DEF Parent
  <2>3. /\ call_ordinal_ptr' = <<IF parent = 0 THEN n + 1 ELSE parent, s>>
        /\ current_space' = s
    BY <1>1, <1>2, <2>2 DEF EnterSpace, ScopeSlot
  <2>4. NearestIn(chain', n + 1, s) = parent
    <3>1. ~ VisibleIn(chain'[n + 1], s)
      BY <1>4 DEF VisibleIn
    <3>2. NearestIn(chain', n + 1, s) = NearestIn(chain', n, s)
      BY <3>1, NearestAbove
    <3>3. {i \in 1 .. n : VisibleIn(chain'[i], s)} =
            {i \in 1 .. n : VisibleIn(chain[i], s)}
      BY <1>4
    <3>4. NearestIn(chain', n, s) = NearestIn(chain, n, s)
      BY <3>3 DEF NearestIn
    <3> QED
      BY <2>1, <3>2, <3>4
  <2>5. CASE parent = 0
    BY <1>4, <2>3, <2>4, <2>5 DEF Attached
  <2>6. CASE parent # 0
    BY <2>3, <2>4, <2>6 DEF Attached
  <2> QED
    BY <2>5, <2>6
<1>10. PointerAttached'
  BY <1>2, <1>4, <1>9 DEF PointerAttached
<1> QED
  BY <1>7, <1>8, <1>10 DEF ParentInv

(* The frame on top at its next instruction *)
LEMMA InstructionAgrees ==
  ASSUME Inv, OnTop("frame")
  PROVE  \E n \in Nat, c \in Seq(Entry) :
           /\ Len(chain) = n /\ c = AtInstruction /\ Len(c) = n /\ n > 0
           /\ Agree(chain, c, n - 1) /\ SameShape(chain, c, n)
           /\ c[n].counter > 0 /\ c[n].kind = "frame"
<1>1. PICK m \in Nat, e \in Entry, p \in Seq(Entry) :
        /\ Len(chain) = m + 1 /\ e = Top /\ p = Popped /\ Len(p) = m
        /\ \A i \in 1 .. m : p[i] = chain[i]
  <2>1. PICK m \in Nat : Len(chain) = m + 1
    BY TopLeaves DEF OnTop
  <2>2. /\ Top \in Entry /\ Popped \in Seq(Entry) /\ Len(Popped) = m
        /\ \A i \in 1 .. m : Popped[i] = chain[i]
    BY <2>1, TopLeaves DEF OnTop
  <2> QED
    BY <2>1, <2>2
<1>2. PICK f \in Entry : f = Advance(e)
  BY AdvanceIsEntry
<1>3. f.counter = e.counter + 1 /\ f.kind = "frame"
  BY <1>1, <1>2, AdvanceIsEntry DEF Advance, OnTop, Entry
<1>4. f.counter > 0
  BY <1>1, <1>3 DEF Entry
<1>5. PICK c \in Seq(Entry) :
        /\ c = AtInstruction /\ Len(c) = m + 1
        /\ SameShape(chain, c, m + 1)
  BY <1>1, InstructionIsLinked
<1>6. c = Append(p, f)
  BY <1>1, <1>2, <1>5 DEF AtInstruction
<1>7. c[m + 1] = f /\ \A i \in 1 .. m : c[i] = chain[i]
  BY <1>1, <1>2, <1>6, GrownChain
<1>8. Agree(chain, c, (m + 1) - 1)
  BY <1>7 DEF Agree
<1>9. m + 1 \in Nat /\ m + 1 > 0
  OBVIOUS
<1> QED
  BY <1>1, <1>3, <1>4, <1>5, <1>7, <1>8, <1>9

LEMMA EnterCallbackKeepsParents ==
  ASSUME Inv, ParentInv, EnterCallback
  PROVE  ParentInv'
<1>1. OnTop("frame") /\ DisabledSpace \in Spaces
  BY CoordinatesAssumption DEF EnterCallback, BeginInstruction
<1>2. PICK n \in Nat, c \in Seq(Entry) :
        /\ Len(chain) = n /\ c = AtInstruction /\ Len(c) = n /\ n > 0
        /\ Agree(chain, c, n - 1) /\ SameShape(chain, c, n)
        /\ c[n].counter > 0
  BY <1>1, InstructionAgrees
<1>3. /\ callback_frame = 0 /\ callback_frame' = n
      /\ EnterSpace(DisabledSpace, c, n)
  BY <1>2 DEF EnterCallback
<1>4. /\ Len(chain') = n + 1
      /\ \A i \in 1 .. n : chain'[i] = c[i]
      /\ SameShape(chain, chain', n)
      /\ chain'[n + 1].kind = "scope"
      /\ chain'[n + 1].saved = call_ordinal_ptr
      /\ chain'[n + 1].outer = current_space
  BY <1>1, <1>2, <1>3, EnterSpaceGrows
<1>5. Agree(chain, chain', n - 1) /\ chain'[n].counter > 0
  BY <1>2, <1>4 DEF Agree
<1>6. EntriesAttached' /\ FramesFollow'
  BY <1>1, <1>2, <1>3, <1>4, <1>5, GrownKeepsEntries
<1>7. TopFollows'
  <2>1. Top'.kind = "scope"
    BY <1>4 DEF Top
  <2> QED
    BY <2>1 DEF TopFollows, OnTop
<1>8. PointerAttached'
  <2>1. callback_frame' # 0
    BY <1>2, <1>3
  <2> QED
    BY <2>1 DEF PointerAttached
<1> QED
  BY <1>6, <1>7, <1>8 DEF ParentInv

(* The chain keeps its entries, but for what the top frame counts and what *)
(* the rule is not about.                                                  *)
LEMMA SameKeepsParents ==
  ASSUME Inv, ParentInv, NEW n \in Nat, Len(chain) = n, Len(chain') = n,
         Agree(chain, chain', n - 1), SameShape(chain, chain', n),
         \/ Agree(chain, chain', n) /\ chain'[n].place = chain[n].place
         \/ chain'[n].kind = "frame" /\ chain'[n].counter > 0,
         chain # <<>>,
         call_ordinal_ptr' = call_ordinal_ptr,
         current_space' = current_space, callback_frame' = callback_frame
  PROVE  ParentInv'
<1>1. n \in 1 .. n /\ Top = chain[n] /\ Top' = chain'[n] /\ chain' # <<>>
  <2>1. Len(chain) \in Nat \ {0}
    BY TopLeaves
  <2> QED
    BY <2>1 DEF Top
<1>2. PICK m \in Nat : m = Limit /\ m <= n /\ Limit' = m
  <2>1. callback_frame \in Nat /\ (callback_frame # 0 => callback_frame < n)
    BY DEF Inv, TypeOK, PinnedBelowScope
  <2> QED
    BY <2>1 DEF Limit
<1>3. EntriesAttached'
  <2>1. 1 .. m \subseteq 1 .. n /\ 1 .. m - 1 \subseteq 1 .. n - 1
    BY <1>2
  <2>2. \A i \in 1 .. m : /\ chain'[i].saved = chain[i].saved
                          /\ chain'[i].outer = chain[i].outer
    BY <2>1 DEF SameShape
  <2>3. Agree(chain, chain', m - 1)
    BY <2>1 DEF Agree
  <2>4. \A i \in 1 .. m :
          Attached(chain', i - 1, chain'[i].saved, chain'[i].outer)
    <3>1. m \in Nat /\ m <= Limit /\ m <= Len(chain)
      BY <1>2
    <3> DEFINE d == chain'
    <3> HIDE DEF d
    <3>2. /\ \A i \in 1 .. m : /\ d[i].saved = chain[i].saved
                              /\ d[i].outer = chain[i].outer
          /\ Agree(chain, d, m - 1)
      BY <2>2, <2>3 DEF d
    <3>3. \A i \in 1 .. m : Attached(d, i - 1, d[i].saved, d[i].outer)
      BY <3>1, <3>2, EntriesStay
    <3> QED
      BY <3>3 DEF d
  <2> QED
    BY <1>2, <2>4 DEF EntriesAttached
<1>4. PointerAttached'
  <2> SUFFICES ASSUME callback_frame = 0, ~ OnTop("frame")'
               PROVE  Attached(chain', n, call_ordinal_ptr, current_space)
    BY DEF PointerAttached
  <2>1. chain'[n].kind # "frame" /\ chain[n].kind # "frame"
    BY <1>1 DEF OnTop, SameShape
  <2>2. Agree(chain, chain', n)
    BY <2>1
  <2>3. Attached(chain, n, call_ordinal_ptr, current_space)
    BY <1>1, <2>1 DEF ParentInv, PointerAttached, OnTop
  <2>4. /\ call_ordinal_ptr \in Slot
        /\ LiveSlot(chain, call_ordinal_ptr, n + 1)
    BY DEF Inv, TypeOK, SlotsInv
  <2>5. call_ordinal_ptr[1] \in 0 .. n
    BY <2>4 DEF Slot, LiveSlot
  <2> QED
    BY <2>2, <2>3, <2>5, AttachedStays
<1>5. FramesFollow'
  <2> SUFFICES ASSUME NEW i \in 1 .. n - 1, chain'[i].kind = "frame"
               PROVE  /\ chain'[i + 1].saved = <<i, chain'[i].space>>
                      /\ chain'[i].counter > 0
    BY DEF FramesFollow
  <2>1. i \in 1 .. n /\ i + 1 \in 1 .. n
    OBVIOUS
  <2>2. chain[i + 1].saved = <<i, chain[i].space>> /\ chain[i].counter > 0
    BY <2>1 DEF ParentInv, FramesFollow, SameShape
  <2> QED
    BY <2>1, <2>2 DEF SameShape, Agree
<1>6. TopFollows'
  <2> SUFFICES ASSUME OnTop("frame")'
               PROVE  /\ call_ordinal_ptr = <<n, chain'[n].space>>
                      /\ chain'[n].place = "running" => chain'[n].counter > 0
    BY <1>1 DEF TopFollows
  <2>1. chain[n].kind = "frame" /\ chain'[n].space = chain[n].space
    BY <1>1 DEF OnTop, SameShape
  <2>2. /\ call_ordinal_ptr = <<n, chain[n].space>>
        /\ chain[n].place = "running" => chain[n].counter > 0
    BY <1>1, <2>1 DEF ParentInv, TopFollows, OnTop
  <2> QED
    BY <1>1, <2>1, <2>2 DEF Agree
<1> QED
  BY <1>3, <1>4, <1>5, <1>6 DEF ParentInv

LEMMA StepKeepsParents ==
  ASSUME Inv, ParentInv, Step
  PROVE  ParentInv'
<1>1. OnTop("frame") /\ chain # <<>>
  BY DEF Step, BeginInstruction, OnTop
<1>2. PICK n \in Nat, c \in Seq(Entry) :
        /\ Len(chain) = n /\ c = AtInstruction /\ Len(c) = n
        /\ Agree(chain, c, n - 1) /\ SameShape(chain, c, n)
        /\ c[n].counter > 0 /\ c[n].kind = "frame"
  BY <1>1, InstructionAgrees
<1>3. /\ chain' = c
      /\ call_ordinal_ptr' = call_ordinal_ptr
      /\ current_space' = current_space /\ callback_frame' = callback_frame
  BY <1>2 DEF Step
<1> QED
  BY <1>1, <1>2, <1>3, SameKeepsParents

LEMMA ThreadDeltaKeepsParents ==
  ASSUME Inv, Inv', ParentInv, NEW s \in Spaces, ThreadDelta(s)
  PROVE  ParentInv'
<1>1. PICK n \in Nat : n = Len(chain)
  <2>1. chain \in Seq(Entry)
    BY DEF Inv, TypeOK
  <2>2. Len(chain) \in Nat
    BY <2>1, LenProperties
  <2> QED
    BY <2>2
<1>2. /\ \A i \in 1 .. n : chain[i] \in Entry
      /\ chain \in Seq(Entry) /\ chain' \in Seq(Entry)
  BY <1>1, ElementOfSeq DEF Inv, TypeOK
<1> DEFINE told(e) == [e EXCEPT !.cache = <<s, e.counter, e.ordinal>>]
<1>3. /\ chain' = [i \in 1 .. n |->
            IF i <= ThreadStateFrame(s) /\ VisibleIn(chain[i], s)
              THEN told(chain[i]) ELSE chain[i]]
      /\ call_ordinal_ptr' = call_ordinal_ptr
      /\ current_space' = current_space /\ callback_frame' = callback_frame
  BY <1>1 DEF ThreadDelta, Remember, threadVars
<1>4. \A e \in Entry :
        /\ told(e).kind = e.kind /\ told(e).space = e.space
        /\ told(e).counter = e.counter /\ told(e).saved = e.saved
        /\ told(e).outer = e.outer /\ told(e).local = e.local
        /\ told(e).place = e.place
  BY DEF Entry
<1>5. Len(chain') = n
  <2>1. DOMAIN chain' = 1 .. n
    BY <1>3
  <2> QED
    BY <1>2, <2>1, LenProperties
<1>6. /\ Agree(chain, chain', n) /\ SameShape(chain, chain', n)
      /\ n \in 1 .. n => chain'[n].place = chain[n].place
  <2> HIDE DEF told
  <2> QED
    BY <1>2, <1>3, <1>4 DEF Agree, SameShape
<1>7. Agree(chain, chain', n - 1)
  BY <1>6 DEF Agree
<1>8. CASE chain # <<>>
  <2>1. n \in 1 .. n
    BY <1>1, <1>8, TopLeaves
  <2> QED
    BY <1>1, <1>3, <1>5, <1>6, <1>7, <1>8, <2>1, SameKeepsParents
<1>9. CASE chain = <<>>
  <2>1. n = 0
    BY <1>1, <1>9
  <2>2. chain' = <<>>
    BY <1>2, <1>5, <2>1, EmptySeq
  <2> QED
    BY <1>3, <1>9, <2>2 DEF ParentInv, EntriesAttached, PointerAttached,
       FramesFollow, TopFollows, Limit, OnTop, Top
<1> QED
  BY <1>8, <1>9

-----------------------------------------------------------------------------
LEMMA InitHasParents == Init => ParentInv
<1> SUFFICES ASSUME Init PROVE ParentInv
  OBVIOUS
<1>1. chain = <<>> /\ Len(chain) = 0 /\ callback_frame = 0
  BY DEF Init
<1>2. EntriesAttached
  BY <1>1 DEF EntriesAttached, Limit
<1>3. PointerAttached
  <2>1. NearestIn(chain, 0, current_space) = 0
    BY NearestIsFrame
  <2>2. call_ordinal_ptr[1] = 0
    BY DEF Init, RootSlot
  <2> QED
    BY <1>1, <2>1, <2>2 DEF PointerAttached, Attached
<1>4. FramesFollow /\ TopFollows
  BY <1>1 DEF FramesFollow, TopFollows, OnTop
<1> QED
  BY <1>2, <1>3, <1>4 DEF ParentInv

LEMMA NextKeepsParents ==
  Inv /\ Inv' /\ ParentInv /\ [Next]_vars => ParentInv'
<1> SUFFICES ASSUME Inv, Inv', ParentInv, [Next]_vars
             PROVE  ParentInv'
  OBVIOUS
<1>1. CASE Call
  <2>1. NoDelta \in Caches
    BY DEF Caches
  <2> QED
    BY <1>1, <2>1, ActivateKeepsParents DEF Call
<1>2. ASSUME NEW g \in suspended, ResumeGenerator(g)
      PROVE  ParentInv'
  <2>1. g.counter \in Nat /\ g.cache \in Caches /\ NoDelta \in Caches
    BY DEF Inv, TypeOK, Caches, Suspended
  <2> QED
    BY <1>2, <2>1, ActivateKeepsParents DEF ResumeGenerator
<1>3. CASE LeaveFrame
  BY <1>3, DeactivateKeepsParents DEF LeaveFrame
<1>4. CASE Yield
  BY <1>4, DeactivateKeepsParents DEF Yield, Suspend
<1>5. CASE CreateGenerator
  BY <1>5, DeactivateKeepsParents DEF CreateGenerator, Suspend
<1>6. CASE Step
  BY <1>6, StepKeepsParents
<1>7. ASSUME NEW s \in Spaces, RunInSpace(s) PROVE ParentInv'
  BY <1>7, RunInSpaceKeepsParents
<1>8. CASE EnterCallback
  BY <1>8, EnterCallbackKeepsParents
<1>9. CASE LeaveSpace
  BY <1>9, LeaveSpaceKeepsParents
<1>10. ASSUME NEW s \in Spaces, ThreadDelta(s) PROVE ParentInv'
  BY <1>10, ThreadDeltaKeepsParents
<1>11. CASE UNCHANGED vars
  BY <1>11 DEF vars, threadVars, ParentInv, EntriesAttached, PointerAttached,
               FramesFollow, TopFollows, Limit, OnTop, Top
<1> QED
  BY <1>1, <1>2, <1>3, <1>4, <1>5, <1>6, <1>7, <1>8, <1>9, <1>10, <1>11
     DEF Next

LEMMA ParentInvSuffices ==
  Inv /\ ParentInv => AttachesBelowNearestOutsideCallbacks
<1> SUFFICES ASSUME Inv, ParentInv, callback_frame = 0,
                    NEW i \in 1 .. Len(chain), chain[i].kind = "frame"
             PROVE  LET parent == Nearest(UpTo(i - 1), chain[i].space)
                        slot == chain[i].saved
                    IN IF parent # 0
                         THEN slot = <<parent, chain[i].space>>
                         ELSE slot[1] = 0 \/ chain[slot[1]].kind = "scope"
  BY DEF AttachesBelowNearestOutsideCallbacks, AttachesBelowNearest
<1>1. chain \in Seq(Entry) /\ Len(chain) \in Nat /\ i - 1 \in 0 .. Len(chain)
  BY DEF Inv, TypeOK
<1>2. Nearest(UpTo(i - 1), chain[i].space) =
        NearestIn(chain, i - 1, chain[i].space)
  BY <1>1, NearestOfPrefix DEF UpTo
<1>3. chain[i].outer = chain[i].space
  BY SavedIsBelow
<1>4. Attached(chain, i - 1, chain[i].saved, chain[i].space)
  BY <1>3 DEF ParentInv, EntriesAttached, Limit
<1> QED
  BY <1>2, <1>4 DEF Attached

(* The promise of space.run(): a frame attaches below the nearest active   *)
(* frame of its space, or below the root ordinal or an open scope's copy   *)
(* of it if there is none.  It holds when no callback runs, whatever the   *)
(* callbacks before have started and left, for any spaces and any depth.   *)
THEOREM ParentsAreNearest == Spec => []AttachesBelowNearestOutsideCallbacks
<1>1. Spec => [](Inv /\ ParentInv)
  BY Inductive, InitHasParents, NextKeepsParents, PTL DEF Spec
<1> QED
  BY <1>1, ParentInvSuffices, PTL
-----------------------------------------------------------------------------
(* The words of a chain *)

Places(c, s) == {i \in 1 .. Len(c) : VisibleIn(c[i], s)}

(* Word 2 * r - 1 and word 2 * r are those of frame r. *)
LEMMA PairOfWords ==
  ASSUME NEW r \in Nat, r > 0
  PROVE  /\ (2 * r - 1) % 2 = 1 /\ (2 * r) % 2 = 0
         /\ ((2 * r - 1) + 1) \div 2 = r /\ (2 * r) \div 2 = r
         /\ (2 * r + 1) \div 2 = r
OBVIOUS

LEMMA FrameOfWord ==
  ASSUME NEW w \in Nat, w > 0
  PROVE  \E r \in Nat : r > 0 /\ (w = 2 * r - 1 \/ w = 2 * r)
<1>1. CASE w % 2 = 1
  <2>1. (w + 1) \div 2 \in Nat /\ (w + 1) \div 2 > 0
        /\ w = 2 * ((w + 1) \div 2) - 1
    BY <1>1
  <2> QED
    BY <2>1
<1>2. CASE w % 2 # 1
  <2>1. w \div 2 \in Nat /\ w \div 2 > 0 /\ w = 2 * (w \div 2)
    BY <1>2
  <2> QED
    BY <2>1
<1> QED
  BY <1>1, <1>2

LEMMA FramesOfChain ==
  ASSUME NEW c \in Seq(Entry), NEW s
  PROVE  /\ VisibleFrames(c, s) \in Seq(Entry)
         /\ Consists(c, Places(c, s), VisibleFrames(c, s), Len(c))
         /\ Len(VisibleFrames(c, s)) = Rank(Places(c, s), Len(c))
         /\ Rank(Places(c, s), Len(c)) \in Nat
<1>1. VisibleFrames(c, s) = Selected(c, Places(c, s))
  BY DEF VisibleFrames, Places
<1>2. /\ VisibleFrames(c, s) \in Seq(Entry)
      /\ Consists(c, Places(c, s), VisibleFrames(c, s), Len(c))
  BY <1>1, SelectedElements
<1>3. Rank(Places(c, s), Len(c)) \in Nat
  <2>1. Len(c) \in Nat
    BY LenProperties
  <2> QED
    BY <2>1, RankIsNatural
<1> QED
  BY <1>2, <1>3 DEF Consists

(* The frame at place i of the chain has two of the words, at its rank.    *)
LEMMA WordsOfFrame ==
  ASSUME NEW c \in Seq(Entry), NEW s, NEW i \in Places(c, s)
  PROVE  LET r == Rank(Places(c, s), i)
         IN /\ r \in Nat /\ r > 0 /\ r <= Rank(Places(c, s), Len(c))
            /\ Words(c, s)[2 * r - 1] = c[i].counter
            /\ Words(c, s)[2 * r] = c[i].ordinal
<1>1. PICK q \in Seq(Entry) :
        /\ q = VisibleFrames(c, s)
        /\ Consists(c, Places(c, s), q, Len(c))
        /\ Len(q) \in Nat /\ Len(q) = Rank(Places(c, s), Len(c))
  BY FramesOfChain
<1>2. i \in 1 .. Len(c)
  BY DEF Places
<1>3. PICK r \in Nat : /\ r = Rank(Places(c, s), i)
                       /\ r > 0 /\ r <= Len(q) /\ q[r] = c[i]
  BY <1>1, <1>2 DEF Consists
<1>4. Words(c, s) = [w \in 1 .. 2 * Len(q) |->
        IF w % 2 = 1 THEN q[(w + 1) \div 2].counter ELSE q[w \div 2].ordinal]
  BY <1>1 DEF Words
<1>5. 2 * r - 1 \in 1 .. 2 * Len(q) /\ 2 * r \in 1 .. 2 * Len(q)
  BY <1>1, <1>3
<1>6. /\ (2 * r - 1) % 2 = 1 /\ (2 * r) % 2 = 0
      /\ ((2 * r - 1) + 1) \div 2 = r /\ (2 * r) \div 2 = r
  BY <1>3, PairOfWords
<1>7. Words(c, s)[2 * r - 1] = c[i].counter
  BY <1>3, <1>4, <1>5, <1>6
<1>8. Words(c, s)[2 * r] = c[i].ordinal
  <2>1. PICK w \in 1 .. 2 * Len(q) :
          w = 2 * r /\ w % 2 # 1 /\ w \div 2 = r
    BY <1>5, <1>6
  <2>2. Words(c, s)[w] = q[w \div 2].ordinal
    BY <1>4, <2>1
  <2> QED
    BY <1>3, <2>1, <2>2
<1> QED
  BY <1>1, <1>3, <1>7, <1>8

(* There are no other words. *)
LEMMA WordsOfChain ==
  ASSUME NEW c \in Seq(Entry), NEW s
  PROVE  /\ Words(c, s) \in Seq(Nat)
         /\ Len(Words(c, s)) = 2 * Rank(Places(c, s), Len(c))
         /\ DOMAIN Words(c, s) = 1 .. 2 * Rank(Places(c, s), Len(c))
         /\ \A w \in 1 .. 2 * Rank(Places(c, s), Len(c)) :
              \E i \in Places(c, s) : \/ w = 2 * Rank(Places(c, s), i) - 1
                                      \/ w = 2 * Rank(Places(c, s), i)
<1>1. PICK q \in Seq(Entry) :
        /\ q = VisibleFrames(c, s)
        /\ Consists(c, Places(c, s), q, Len(c))
        /\ Len(q) \in Nat /\ Len(q) = Rank(Places(c, s), Len(c))
  BY FramesOfChain
<1>2. Words(c, s) = [w \in 1 .. 2 * Len(q) |->
        IF w % 2 = 1 THEN q[(w + 1) \div 2].counter ELSE q[w \div 2].ordinal]
  BY <1>1 DEF Words
<1>3. ASSUME NEW w \in 1 .. 2 * Len(q)
      PROVE  \E i \in Places(c, s) : \/ w = 2 * Rank(Places(c, s), i) - 1
                                     \/ w = 2 * Rank(Places(c, s), i)
  <2>1. PICK r \in Nat : r > 0 /\ (w = 2 * r - 1 \/ w = 2 * r)
    <3>1. w \in Nat /\ w > 0
      BY <1>1
    <3> QED
      BY <3>1, FrameOfWord
  <2>2. r \in 1 .. Len(q)
    BY <1>1, <2>1
  <2>3. PICK i \in 1 .. Len(c) : i \in Places(c, s) /\ Rank(Places(c, s), i) = r
    BY <1>1, <2>2 DEF Consists
  <2> QED
    BY <2>1, <2>3
<1>4. ASSUME NEW w \in 1 .. 2 * Len(q) PROVE Words(c, s)[w] \in Nat
  <2>1. PICK i \in Places(c, s) : \/ w = 2 * Rank(Places(c, s), i) - 1
                                  \/ w = 2 * Rank(Places(c, s), i)
    BY <1>3
  <2>2. c[i] \in Entry
    BY ElementOfSeq DEF Places
  <2>3. c[i].counter \in Nat /\ c[i].ordinal \in Nat
    BY <2>2 DEF Entry
  <2> QED
    BY <2>1, <2>3, WordsOfFrame
<1>5. DOMAIN Words(c, s) = 1 .. 2 * Len(q)
  BY <1>2
<1>6. Words(c, s) \in [1 .. 2 * Len(q) -> Nat]
  <2>1. Words(c, s) = [w \in 1 .. 2 * Len(q) |-> Words(c, s)[w]]
    BY <1>2
  <2> QED
    BY <1>4, <2>1
<1>7. 2 * Len(q) \in Nat
  BY <1>1
<1>8. Words(c, s) \in Seq(Nat)
  BY <1>6, <1>7, SeqDef
<1>9. Len(Words(c, s)) = 2 * Len(q)
  BY <1>5, <1>7, <1>8, LenProperties
<1> QED
  BY <1>1, <1>3, <1>5, <1>8, <1>9

-----------------------------------------------------------------------------
(* Two chains that begin alike *)

Matches(c, d, s, m) ==
  \A i \in 1 .. m :
    /\ VisibleIn(c[i], s) <=> VisibleIn(d[i], s)
    /\ VisibleIn(c[i], s) => /\ d[i].counter = c[i].counter
                             /\ d[i].ordinal = c[i].ordinal

NoneAbove(c, s, m) == \A i \in 1 .. Len(c) : i > m => ~ VisibleIn(c[i], s)

LEMMA RanksOfMatching ==
  ASSUME NEW c \in Seq(Entry), NEW d \in Seq(Entry), NEW s, NEW m \in Nat,
         m <= Len(c), m <= Len(d), Matches(c, d, s, m), NEW i \in 0 .. m
  PROVE  Rank(Places(c, s), i) = Rank(Places(d, s), i)
<1>1. Places(c, s) \cap (1 .. i) = Places(d, s) \cap (1 .. i)
  BY LenProperties DEF Places, Matches
<1> QED
  BY <1>1 DEF Rank

LEMMA WordsOfMatching ==
  ASSUME NEW c \in Seq(Entry), NEW d \in Seq(Entry), NEW s, NEW m \in Nat,
         m <= Len(c), m <= Len(d), Matches(c, d, s, m),
         NEW w \in 1 .. 2 * Rank(Places(c, s), m)
  PROVE  /\ w \in 1 .. 2 * Rank(Places(c, s), Len(c))
         /\ Words(d, s)[w] = Words(c, s)[w]
<1>1. Len(c) \in Nat /\ Len(d) \in Nat
  BY LenProperties
<1>2. /\ Rank(Places(c, s), m) \in Nat /\ Rank(Places(c, s), Len(c)) \in Nat
      /\ Rank(Places(c, s), m) <= Rank(Places(c, s), Len(c))
  BY <1>1, RankIsNatural, RanksGrow
<1>3. w \in 1 .. 2 * Rank(Places(c, s), Len(c))
  BY <1>2
<1>4. PICK i \in Places(c, s) : \/ w = 2 * Rank(Places(c, s), i) - 1
                                \/ w = 2 * Rank(Places(c, s), i)
  BY <1>3, WordsOfChain
<1>5. i \in 1 .. Len(c) /\ VisibleIn(c[i], s)
  BY DEF Places
<1>6. i \in 1 .. m
  <2> SUFFICES ASSUME m < i PROVE FALSE
    BY <1>1, <1>5
  <2>1. i \in Nat
    BY <1>5
  <2>2. Rank(Places(c, s), m) < Rank(Places(c, s), i)
    BY <2>1, RanksGrow
  <2>3. Rank(Places(c, s), i) \in Nat
    BY <2>1, RankIsNatural
  <2> QED
    BY <1>2, <1>4, <2>2, <2>3
<1>7. /\ i \in Places(d, s)
      /\ d[i].counter = c[i].counter /\ d[i].ordinal = c[i].ordinal
  BY <1>1, <1>5, <1>6 DEF Matches, Places
<1>8. Rank(Places(c, s), i) = Rank(Places(d, s), i)
  <2>1. i \in 0 .. m
    BY <1>6
  <2> QED
    BY <2>1, RanksOfMatching
<1>9. PICK r : r = Rank(Places(c, s), i)
  OBVIOUS
<1>10. /\ Words(c, s)[2 * r - 1] = c[i].counter
       /\ Words(c, s)[2 * r] = c[i].ordinal
       /\ Words(d, s)[2 * r - 1] = d[i].counter
       /\ Words(d, s)[2 * r] = d[i].ordinal
  BY <1>7, <1>8, <1>9, WordsOfFrame
<1> QED
  BY <1>3, <1>4, <1>7, <1>9, <1>10

LEMMA RankOfNoneAbove ==
  ASSUME NEW c \in Seq(Entry), NEW s, NEW m \in Nat, m <= Len(c),
         NoneAbove(c, s, m)
  PROVE  Rank(Places(c, s), Len(c)) = Rank(Places(c, s), m)
<1>1. Places(c, s) \cap (1 .. Len(c)) = Places(c, s) \cap (1 .. m)
  BY LenProperties DEF Places, NoneAbove
<1> QED
  BY <1>1 DEF Rank

(* The same frames have the same words. *)
LEMMA SameWords ==
  ASSUME NEW c \in Seq(Entry), NEW d \in Seq(Entry), NEW s, NEW m \in Nat,
         m <= Len(c), m <= Len(d), Matches(c, d, s, m),
         NoneAbove(c, s, m), NoneAbove(d, s, m)
  PROVE  Words(d, s) = Words(c, s)
<1>1. Rank(Places(d, s), m) = Rank(Places(c, s), m)
  <2>1. m \in 0 .. m
    OBVIOUS
  <2> QED
    BY <2>1, RanksOfMatching
<1>2. PICK n : n = 2 * Rank(Places(c, s), m)
  OBVIOUS
<1>3. /\ DOMAIN Words(c, s) = 1 .. n /\ DOMAIN Words(d, s) = 1 .. n
  BY <1>1, <1>2, RankOfNoneAbove, WordsOfChain
<1>4. \A w \in 1 .. n : Words(d, s)[w] = Words(c, s)[w]
  BY <1>2, WordsOfMatching
<1>5. /\ Words(c, s) = [w \in 1 .. n |-> Words(c, s)[w]]
      /\ Words(d, s) = [w \in 1 .. n |-> Words(d, s)[w]]
  <2>1. Words(c, s) = [w \in DOMAIN Words(c, s) |-> Words(c, s)[w]]
    BY DEF Words
  <2>2. Words(d, s) = [w \in DOMAIN Words(d, s) |-> Words(d, s)[w]]
    BY DEF Words
  <2> QED
    BY <1>3, <2>1, <2>2
<1> QED
  BY <1>4, <1>5

(* More frames come later. *)
LEMMA LongerComesLater ==
  ASSUME NEW c \in Seq(Entry), NEW d \in Seq(Entry), NEW s, NEW m \in Nat,
         m <= Len(c), m <= Len(d), Matches(c, d, s, m),
         NoneAbove(c, s, m), ~ NoneAbove(d, s, m)
  PROVE  Precedes(Words(c, s), Words(d, s))
<1>1. PICK k \in 1 .. Len(d) : k > m /\ VisibleIn(d[k], s)
  BY DEF NoneAbove
<1>2. k \in Nat /\ k <= Len(d) /\ Len(d) \in Nat /\ k \in Places(d, s)
  BY <1>1, LenProperties DEF Places
<1>3. Rank(Places(d, s), m) < Rank(Places(d, s), Len(d))
  <2>1. Rank(Places(d, s), m) < Rank(Places(d, s), k)
    BY <1>1, <1>2, RanksGrow
  <2>2. Rank(Places(d, s), k) <= Rank(Places(d, s), Len(d))
    BY <1>2, RanksGrow
  <2> QED
    BY <1>2, <2>1, <2>2, RankIsNatural
<1>4. Rank(Places(d, s), m) = Rank(Places(c, s), m)
  <2>1. m \in 0 .. m
    OBVIOUS
  <2> QED
    BY <2>1, RanksOfMatching
<1>5. PICK n \in Nat : /\ n = 2 * Rank(Places(c, s), m)
                       /\ Len(Words(c, s)) = n /\ n < Len(Words(d, s))
  BY <1>2, <1>3, <1>4, RankIsNatural, RankOfNoneAbove, WordsOfChain
<1>6. \A w \in 1 .. n : Words(c, s)[w] = Words(d, s)[w]
  BY <1>5, WordsOfMatching
<1> QED
  BY <1>5, <1>6 DEF Precedes

(* A frame that is further on, or has counted more in the same             *)
(* instruction, comes later, whatever frames there are above it.           *)
LEMMA FurtherComesLater ==
  ASSUME NEW c \in Seq(Entry), NEW d \in Seq(Entry), NEW s, NEW m \in Nat,
         m + 1 <= Len(c), m + 1 <= Len(d), Matches(c, d, s, m),
         VisibleIn(c[m + 1], s), VisibleIn(d[m + 1], s),
         \/ c[m + 1].counter < d[m + 1].counter
         \/ /\ c[m + 1].counter = d[m + 1].counter
            /\ c[m + 1].ordinal < d[m + 1].ordinal
  PROVE  Precedes(Words(c, s), Words(d, s))
<1>1. /\ Len(c) \in Nat /\ Len(d) \in Nat /\ m <= Len(c) /\ m <= Len(d)
      /\ m + 1 \in Places(c, s) /\ m + 1 \in Places(d, s)
  BY LenProperties DEF Places
<1>2. PICK r \in Nat : r = Rank(Places(c, s), m) /\ r = Rank(Places(d, s), m)
  <2>1. m \in 0 .. m
    OBVIOUS
  <2> QED
    BY <1>1, <2>1, RanksOfMatching, RankIsNatural
<1>3. Rank(Places(c, s), m + 1) = r + 1 /\ Rank(Places(d, s), m + 1) = r + 1
  BY <1>1, <1>2, RankOfNext
<1>4. PICK n \in Nat : n = 2 * r
  BY <1>2
<1>5. 2 * (r + 1) - 1 = n + 1 /\ 2 * (r + 1) = n + 2
  BY <1>4
<1>6. /\ Words(c, s)[n + 1] = c[m + 1].counter
      /\ Words(c, s)[n + 2] = c[m + 1].ordinal
      /\ r + 1 <= Rank(Places(c, s), Len(c))
  BY <1>1, <1>3, <1>5, WordsOfFrame
<1>7. /\ Words(d, s)[n + 1] = d[m + 1].counter
      /\ Words(d, s)[n + 2] = d[m + 1].ordinal
      /\ r + 1 <= Rank(Places(d, s), Len(d))
  BY <1>1, <1>3, <1>5, WordsOfFrame
<1>8. n + 2 <= Len(Words(c, s)) /\ n + 2 <= Len(Words(d, s))
  <2>1. /\ Rank(Places(c, s), Len(c)) \in Nat
        /\ Rank(Places(d, s), Len(d)) \in Nat
    BY <1>1, RankIsNatural
  <2>2. /\ n + 2 <= 2 * Rank(Places(c, s), Len(c))
        /\ n + 2 <= 2 * Rank(Places(d, s), Len(d))
    BY <1>4, <1>6, <1>7, <2>1
  <2> QED
    BY <2>2, WordsOfChain
<1>9. \A w \in 1 .. n : Words(c, s)[w] = Words(d, s)[w]
  <2>1. n = 2 * Rank(Places(c, s), m)
    BY <1>2, <1>4
  <2> QED
    BY <1>1, <2>1, WordsOfMatching
<1>10. Len(Words(c, s)) \in Nat /\ Len(Words(d, s)) \in Nat
  BY WordsOfChain, LenProperties
<1>11. CASE c[m + 1].counter < d[m + 1].counter
  <2>1. n + 1 \in 1 .. Len(Words(c, s)) /\ n + 1 <= Len(Words(d, s))
    BY <1>8, <1>10
  <2>2. Words(c, s)[n + 1] < Words(d, s)[n + 1]
    BY <1>6, <1>7, <1>11
  <2>3. \A w \in 1 .. (n + 1) - 1 : Words(c, s)[w] = Words(d, s)[w]
    BY <1>9
  <2> QED
    BY <2>1, <2>2, <2>3 DEF Precedes
<1>12. CASE /\ c[m + 1].counter = d[m + 1].counter
            /\ c[m + 1].ordinal < d[m + 1].ordinal
  <2>1. n + 2 \in 1 .. Len(Words(c, s)) /\ n + 2 <= Len(Words(d, s))
    BY <1>8, <1>10
  <2>2. Words(c, s)[n + 2] < Words(d, s)[n + 2]
    BY <1>6, <1>7, <1>12
  <2>3. \A w \in 1 .. (n + 2) - 1 : Words(c, s)[w] = Words(d, s)[w]
    <3>1. \A w \in 1 .. (n + 2) - 1 : w \in 1 .. n \/ w = n + 1
      OBVIOUS
    <3>2. Words(c, s)[n + 1] = Words(d, s)[n + 1]
      BY <1>6, <1>7, <1>12
    <3> QED
      BY <1>9, <3>1, <3>2
  <2> QED
    BY <2>1, <2>2, <2>3 DEF Precedes
<1> QED
  BY <1>11, <1>12

-----------------------------------------------------------------------------
(* What the actions do to the chain *)

(* The fields that an action may not touch unless it says so *)
SameButOrdinal(e, f) ==
  /\ f.kind = e.kind /\ f.space = e.space /\ f.counter = e.counter
  /\ f.saved = e.saved /\ f.outer = e.outer /\ f.local = e.local
  /\ f.place = e.place /\ f.cache = e.cache /\ f.initial = e.initial

(* A frame is put on top. *)
LEMMA ActivateGrows ==
  ASSUME Inv, NEW k \in Nat, NEW cache \in Caches,
         ActivateFrame(Frame(k, cache))
  PROVE  \E n \in Nat, f \in Entry :
           /\ Len(chain) = n /\ Len(chain') = n + 1
           /\ f = Frame(k, cache)
           /\ \A i \in 1 .. n : chain'[i] = chain[i]
           /\ chain'[n + 1] = f
           /\ f.kind = "frame" /\ f.space = current_space /\ f.counter = k
           /\ f.ordinal = 0 /\ f.saved = call_ordinal_ptr
           /\ f.outer = current_space /\ f.place = "entry" /\ f.cache = cache
           /\ ~ f.local
<1>1. PICK f \in Entry : f = Frame(k, cache)
  BY FrameIsEntry DEF Inv
<1>2. /\ f.kind = "frame" /\ f.space = current_space /\ f.counter = k
      /\ f.ordinal = 0 /\ f.saved = call_ordinal_ptr
      /\ f.outer = current_space /\ f.place = "entry" /\ f.cache = cache
      /\ ~ f.local
  BY <1>1 DEF Frame
<1>3. chain' = Append(chain, f) /\ chain \in Seq(Entry)
  BY <1>1 DEF ActivateFrame, Inv, TypeOK
<1>4. /\ Len(chain) \in Nat /\ Len(chain') = Len(chain) + 1
      /\ \A i \in 1 .. Len(chain) : chain'[i] = chain[i]
      /\ chain'[Len(chain) + 1] = f
  BY <1>3, GrownChain
<1> QED
  BY <1>1, <1>2, <1>4

(* A frame of the current space is taken off and counted. *)
LEMMA DeactivateShrinks ==
  ASSUME Inv, ParentInv, OnTop("frame"), DeactivateFrame
  PROVE  \E n \in Nat, k \in Nat :
           /\ Len(chain) = n + 1 /\ Len(chain') = n /\ k <= n
           /\ chain[n + 1] = Top /\ Top \in Entry
           /\ k = Top.saved[1]
           /\ Top.space = current_space /\ Top.outer = current_space
           /\ call_ordinal_ptr = <<n + 1, current_space>>
           /\ call_ordinal_ptr' = Top.saved
           /\ \A i \in 1 .. n : i # k => chain'[i] = chain[i]
           /\ k # 0 => /\ chain[k].space = current_space
                       /\ SameButOrdinal(chain[k], chain'[k])
                       /\ chain'[k].ordinal = chain[k].ordinal + 1
                       /\ root_call_ordinal' = root_call_ordinal
           /\ k = 0 => root_call_ordinal' =
                [root_call_ordinal EXCEPT ![current_space] = @ + 1]
<1>1. PICK n \in Nat, f \in Entry, p \in Seq(Entry) :
        /\ Len(chain) = n + 1 /\ f = Top /\ p = Popped /\ Len(p) = n
        /\ \A i \in 1 .. n : p[i] = chain[i]
  <2>1. PICK n \in Nat : Len(chain) = n + 1
    BY TopLeaves DEF OnTop
  <2>2. /\ Top \in Entry /\ Popped \in Seq(Entry) /\ Len(Popped) = n
        /\ \A i \in 1 .. n : Popped[i] = chain[i]
    BY <2>1, TopLeaves DEF OnTop
  <2> QED
    BY <2>1, <2>2
<1>2. /\ f.kind = "frame" /\ f.outer = f.space /\ f.saved[2] = f.outer
      /\ f.saved \in Slot /\ LiveSlot(chain, f.saved, n + 1)
  BY <1>1, TopLeaves DEF OnTop
<1>3. call_ordinal_ptr = <<n + 1, f.space>> /\ current_space = f.space
  BY <1>1 DEF ParentInv, TopFollows, Inv, SlotsInv
<1>4. PICK k \in 0 .. n : k = f.saved[1]
  <2>1. f.saved[1] \in Nat
    BY <1>2 DEF Slot
  <2> QED
    BY <1>2, <2>1 DEF LiveSlot
<1>5. k # 0 => chain[k].space = current_space
  BY <1>2, <1>3, <1>4 DEF LiveSlot
<1>6. call_ordinal_ptr' = f.saved
  BY <1>1, <1>3 DEF DeactivateFrame
<1>7. CASE k = 0
  <2>1. /\ chain' = p
        /\ root_call_ordinal' =
             [root_call_ordinal EXCEPT ![f.saved[2]] = Counted(@)]
    BY <1>1, <1>4, <1>7 DEF DeactivateFrame
  <2>2. root_call_ordinal' = [root_call_ordinal EXCEPT ![current_space] = @ + 1]
    BY <1>2, <1>3, <2>1 DEF Counted
  <2>3. \A i \in 1 .. n : i # k => chain'[i] = chain[i]
    BY <1>1, <2>1
  <2>4. Len(chain') = n /\ chain[n + 1] = Top /\ Top \in Entry
    BY <1>1, <2>1 DEF Top
  <2> QED
    BY <1>1, <1>2, <1>3, <1>4, <1>6, <1>7, <2>2, <2>3, <2>4
<1>8. CASE k # 0
  <2>1. /\ chain' = [p EXCEPT ![k].ordinal = Counted(@)]
        /\ root_call_ordinal' = root_call_ordinal
    BY <1>1, <1>4, <1>8 DEF DeactivateFrame
  <2>2. k \in 1 .. n /\ p \in [1 .. n -> Entry]
    BY <1>1, <1>4, <1>8, LenProperties
  <2>3. PICK e \in Entry : e = p[k]
    BY <2>2
  <2>4. chain' = [p EXCEPT ![k] = [e EXCEPT !.ordinal = e.ordinal + 1]]
    BY <2>1, <2>2, <2>3 DEF Counted
  <2>5. \A i \in 1 .. n : i # k => chain'[i] = chain[i]
    BY <1>1, <2>2, <2>4
  <2>6. chain'[k] = [e EXCEPT !.ordinal = e.ordinal + 1] /\ chain[k] = e
    BY <1>1, <2>2, <2>3, <2>4
  <2>7. /\ SameButOrdinal(chain[k], chain'[k])
        /\ chain'[k].ordinal = chain[k].ordinal + 1
    BY <2>3, <2>6 DEF SameButOrdinal, Entry
  <2>8. Len(chain') = n
    <3>1. e.ordinal + 1 \in Nat
      BY <2>3 DEF Entry
    <3>2. [e EXCEPT !.ordinal = e.ordinal + 1] \in Entry
      BY <3>1, EntryWithOrdinal
    <3>3. p \in Seq(Entry) /\ Len(p) = n
      BY <1>1
    <3>4. k \in 1 .. Len(p)
      BY <2>2, <3>3
    <3>5. PICK counted \in Entry : counted = [e EXCEPT !.ordinal = e.ordinal + 1]
      BY <3>2
    <3>6. chain' = [p EXCEPT ![k] = counted]
      BY <2>4, <3>5
    <3> QED
      BY <3>3, <3>4, <3>6, ExceptSeq
  <2>9. /\ Len(chain) = n + 1 /\ chain[n + 1] = f /\ f = Top
        /\ f.space = current_space /\ f.outer = current_space
    BY <1>1, <1>2, <1>3 DEF Top
  <2>10. /\ k \in Nat /\ k <= n /\ k = f.saved[1] /\ k # 0
         /\ call_ordinal_ptr = <<n + 1, current_space>>
         /\ call_ordinal_ptr' = f.saved
    BY <1>3, <1>4, <1>6, <1>8
  <2>11. /\ chain[k].space = current_space
         /\ root_call_ordinal' = root_call_ordinal
    BY <1>5, <1>8, <2>1
  <2>12. \A i \in 1 .. n : i # k => chain'[i] = chain[i]
    BY <2>5
  <2> QED
    BY <2>7, <2>8, <2>9, <2>10, <2>11, <2>12
<1> QED
  BY <1>7, <1>8

(* The frame on top starts an instruction. *)
LEMMA InstructionMoves ==
  ASSUME Inv, ParentInv, OnTop("frame")
  PROVE  \E n \in Nat, c \in Seq(Entry) :
           /\ Len(chain) = n + 1 /\ c = AtInstruction /\ Len(c) = n + 1
           /\ chain[n + 1] = Top /\ Top \in Entry
           /\ Top.kind = "frame" /\ Top.space = current_space
           /\ call_ordinal_ptr = <<n + 1, current_space>>
           /\ \A i \in 1 .. n : c[i] = chain[i]
           /\ c[n + 1].kind = "frame" /\ c[n + 1].space = current_space
           /\ c[n + 1].counter = Top.counter + 1 /\ c[n + 1].ordinal = 0
           /\ c[n + 1].place = "running" /\ c[n + 1].cache = Top.cache
           /\ c[n + 1].saved = Top.saved /\ c[n + 1].outer = Top.outer
           /\ c[n + 1].local = Top.local
<1>1. PICK n \in Nat : Len(chain) = n + 1
  BY TopLeaves DEF OnTop
<1>2. PICK e \in Entry, p \in Seq(Entry) :
        /\ e = Top /\ p = Popped /\ Len(p) = n
        /\ \A i \in 1 .. n : p[i] = chain[i]
  BY <1>1, TopLeaves DEF OnTop
<1>3. PICK f \in Entry : f = Advance(e)
  BY AdvanceIsEntry
<1>4. /\ f.kind = e.kind /\ f.space = e.space /\ f.saved = e.saved
      /\ f.outer = e.outer /\ f.local = e.local
  BY <1>3, AdvanceIsEntry
<1>5. /\ f.counter = e.counter + 1 /\ f.ordinal = 0 /\ f.place = "running"
      /\ f.cache = e.cache
  BY <1>3 DEF Advance, Entry
<1>6. PICK c \in Seq(Entry) : c = Append(p, f)
  BY AppendProperties
<1>7. /\ Len(c) = n + 1 /\ c[n + 1] = f
      /\ \A i \in 1 .. n : c[i] = chain[i]
  BY <1>2, <1>6, GrownChain
<1>8. c = AtInstruction
  BY <1>2, <1>3, <1>6 DEF AtInstruction
<1>9. e.kind = "frame" /\ chain[n + 1] = e
  BY <1>1, <1>2 DEF OnTop, Top
<1>10. e.space = current_space /\ call_ordinal_ptr = <<n + 1, current_space>>
  BY <1>1, <1>2 DEF ParentInv, TopFollows, Inv, SlotsInv
<1> QED
  BY <1>1, <1>2, <1>4, <1>5, <1>7, <1>8, <1>9, <1>10

(* A scope is put on top. *)
LEMMA EnterGrows ==
  ASSUME Inv, NEW s \in Spaces, NEW c \in Seq(Entry),
         NEW n \in Nat, Len(c) = n, NEW frame \in 0 .. n,
         EnterSpace(s, c, frame)
  PROVE  /\ chain' \in Seq(Entry) /\ Len(chain') = n + 1
         /\ \A i \in 1 .. n : chain'[i] = c[i]
         /\ chain'[n + 1].kind = "scope" /\ chain'[n + 1].space = s
         /\ chain'[n + 1].saved = call_ordinal_ptr
         /\ chain'[n + 1].outer = current_space
         /\ chain'[n + 1].local = (NearestIn(c, frame, s) = 0)
         /\ chain'[n + 1].cache = NoDelta
         /\ call_ordinal_ptr' =
              <<IF NearestIn(c, frame, s) = 0 THEN n + 1
                                              ELSE NearestIn(c, frame, s), s>>
         /\ current_space' = s
<1>1. Parent(c, frame, s) = NearestIn(c, frame, s)
  BY NearestOfPrefix DEF Parent
<1>2. PICK parent : parent = NearestIn(c, frame, s)
  OBVIOUS
<1>3. PICK e \in Entry : e = Scope(s, parent = 0)
  BY ScopeIsEntry DEF Inv
<1>4. /\ e.kind = "scope" /\ e.space = s /\ e.saved = call_ordinal_ptr
      /\ e.outer = current_space /\ e.local = (parent = 0)
      /\ e.cache = NoDelta
  BY <1>3 DEF Scope
<1>5. /\ chain' = Append(c, e)
      /\ call_ordinal_ptr' = ScopeSlot(parent, n + 1, s)
      /\ current_space' = s
  BY <1>1, <1>2, <1>3 DEF EnterSpace
<1>6. /\ chain' \in Seq(Entry) /\ Len(chain') = n + 1
      /\ \A i \in 1 .. n : chain'[i] = c[i]
      /\ chain'[n + 1] = e
  BY <1>5, GrownChain
<1> QED
  BY <1>2, <1>4, <1>5, <1>6 DEF ScopeSlot

(* The scope on top is taken off. *)
LEMMA LeaveShrinks ==
  ASSUME Inv, LeaveSpace
  PROVE  \E n \in Nat :
           /\ Len(chain) = n + 1 /\ Len(chain') = n
           /\ chain[n + 1] = Top /\ Top \in Entry /\ Top.kind = "scope"
           /\ \A i \in 1 .. n : chain'[i] = chain[i]
           /\ call_ordinal_ptr' = Top.saved /\ current_space' = Top.outer
           /\ \A s \in Spaces \ {Top.space} :
                root_call_ordinal'[s] = root_call_ordinal[s]
<1>1. PICK n \in Nat : Len(chain) = n + 1
  BY TopLeaves DEF LeaveSpace, OnTop
<1>2. /\ Top \in Entry /\ Len(Popped) = n
      /\ \A i \in 1 .. n : Popped[i] = chain[i]
  BY <1>1, TopLeaves DEF LeaveSpace, OnTop
<1>3. /\ chain' = Popped /\ Top.kind = "scope"
      /\ call_ordinal_ptr' = Top.saved /\ current_space' = Top.outer
  BY DEF LeaveSpace, OnTop, SlotRestored
<1>4. \A s \in Spaces \ {Top.space} :
        root_call_ordinal'[s] = root_call_ordinal[s]
  BY DEF LeaveSpace, Inv, TypeOK
<1> QED
  BY <1>1, <1>2, <1>3, <1>4 DEF Top

(* thread_delta() writes caches only. *)
LEMMA DeltaStays ==
  ASSUME Inv, NEW s \in Spaces, ThreadDelta(s)
  PROVE  \E n \in Nat :
           /\ Len(chain) = n /\ Len(chain') = n
           /\ \A i \in 1 .. n :
                /\ chain'[i].kind = chain[i].kind
                /\ chain'[i].space = chain[i].space
                /\ chain'[i].counter = chain[i].counter
                /\ chain'[i].ordinal = chain[i].ordinal
                /\ chain'[i].saved = chain[i].saved
                /\ chain'[i].outer = chain[i].outer
                /\ chain'[i].local = chain[i].local
                /\ chain'[i].place = chain[i].place
                /\ IF i <= ThreadStateFrame(s) /\ VisibleIn(chain[i], s)
                     THEN chain'[i].cache =
                            <<s, chain[i].counter, chain[i].ordinal>>
                     ELSE chain'[i].cache = chain[i].cache
<1>1. PICK n \in Nat : n = Len(chain)
  BY DEF Inv, TypeOK
<1>2. chain \in Seq(Entry) /\ \A i \in 1 .. n : chain[i] \in Entry
  BY <1>1, ElementOfSeq DEF Inv, TypeOK
<1> DEFINE told(e) == [e EXCEPT !.cache = <<s, e.counter, e.ordinal>>]
<1>3. chain' = [i \in 1 .. n |->
            IF i <= ThreadStateFrame(s) /\ VisibleIn(chain[i], s)
              THEN told(chain[i]) ELSE chain[i]]
  BY <1>1 DEF ThreadDelta, Remember
<1>4. ASSUME NEW e \in Entry
      PROVE  /\ told(e) \in Entry
             /\ told(e).kind = e.kind /\ told(e).space = e.space
             /\ told(e).counter = e.counter /\ told(e).ordinal = e.ordinal
             /\ told(e).saved = e.saved /\ told(e).outer = e.outer
             /\ told(e).local = e.local /\ told(e).place = e.place
             /\ told(e).cache = <<s, e.counter, e.ordinal>>
  <2>1. e.counter \in Nat /\ e.ordinal \in Nat
    BY DEF Entry
  <2>2. PICK new \in Caches : new = <<s, e.counter, e.ordinal>>
    BY <2>1 DEF Caches
  <2>3. [e EXCEPT !.cache = new] \in Entry
    BY SMTT(60) DEF Entry
  <2> QED
    BY <2>2, <2>3 DEF Entry
<1> HIDE DEF told
<1>5. chain' \in [1 .. n -> Entry]
  BY <1>2, <1>3, <1>4
<1>6. Len(chain') = n
  <2>1. chain' \in Seq(Entry) /\ DOMAIN chain' = 1 .. n
    BY <1>5, SeqDef
  <2> QED
    BY <2>1, LenProperties
<1>7. \A i \in 1 .. n :
        IF i <= ThreadStateFrame(s) /\ VisibleIn(chain[i], s)
          THEN chain'[i] = told(chain[i]) ELSE chain'[i] = chain[i]
  BY <1>3
<1> QED
  BY <1>1, <1>2, <1>4, <1>6, <1>7

-----------------------------------------------------------------------------
(* Isolation: the current space is that of the entry on top, and every     *)
(* entry goes back to the space of the one below it.                       *)

Nested ==
  /\ chain # <<>> => Top.space = current_space
  /\ \A i \in 1 .. Len(chain) - 1 : chain[i + 1].outer = chain[i].space

SameSpaces(n) ==
  \A i \in 1 .. n : /\ chain'[i].space = chain[i].space
                    /\ chain'[i].outer = chain[i].outer

LEMMA NestedStays ==
  ASSUME Inv, Inv', Nested, NEW n \in Nat, Len(chain) = n, Len(chain') = n,
         SameSpaces(n), current_space' = current_space
  PROVE  Nested'
<1>1. ASSUME chain' # <<>> PROVE Top'.space = current_space'
  <2>1. n \in 1 .. n
    BY <1>1, EmptySeq DEF Inv, TypeOK
  <2>2. chain # <<>>
    BY <2>1, EmptySeq
  <2> QED
    BY <2>1, <2>2 DEF Nested, Top, SameSpaces
<1>2. ASSUME NEW i \in 1 .. n - 1 PROVE chain'[i + 1].outer = chain'[i].space
  <2>1. i \in 1 .. n /\ i + 1 \in 1 .. n
    OBVIOUS
  <2> QED
    BY <2>1 DEF Nested, SameSpaces
<1> QED
  BY <1>1, <1>2 DEF Nested

LEMMA NestedGrows ==
  ASSUME Nested, NEW n \in Nat, Len(chain) = n, Len(chain') = n + 1,
         SameSpaces(n), chain'[n + 1].outer = current_space,
         chain'[n + 1].space = current_space'
  PROVE  Nested'
<1>1. Top'.space = current_space'
  BY DEF Top
<1>2. ASSUME NEW i \in 1 .. n PROVE chain'[i + 1].outer = chain'[i].space
  <2>1. CASE i = n
    <3>1. chain # <<>>
      BY <2>1, EmptySeq
    <3> QED
      BY <2>1, <3>1 DEF Nested, Top, SameSpaces
  <2>2. CASE i # n
    <3>1. i \in 1 .. n - 1 /\ i + 1 \in 1 .. n
      BY <2>2
    <3> QED
      BY <3>1 DEF Nested, SameSpaces
  <2> QED
    BY <2>1, <2>2
<1> QED
  BY <1>1, <1>2 DEF Nested

LEMMA NestedShrinks ==
  ASSUME Inv', Nested, NEW n \in Nat, Len(chain) = n + 1, Len(chain') = n,
         SameSpaces(n), current_space' = chain[n + 1].outer
  PROVE  Nested'
<1>1. ASSUME chain' # <<>> PROVE Top'.space = current_space'
  <2>1. n \in 1 .. n
    BY <1>1, EmptySeq DEF Inv, TypeOK
  <2> QED
    BY <2>1 DEF Nested, Top, SameSpaces
<1>2. ASSUME NEW i \in 1 .. n - 1 PROVE chain'[i + 1].outer = chain'[i].space
  <2>1. i \in 1 .. n /\ i + 1 \in 1 .. n
    OBVIOUS
  <2> QED
    BY <2>1 DEF Nested, SameSpaces
<1> QED
  BY <1>1, <1>2 DEF Nested

-----------------------------------------------------------------------------
(* When a stream stays as it is *)

LEMMA StreamStays ==
  ASSUME Inv, Inv', NEW s, NEW n \in Nat, Len(chain) = n, Len(chain') = n,
         Matches(chain, chain', s, n)
  PROVE  Stream(s)' = Stream(s)
<1>1. chain \in Seq(Entry) /\ chain' \in Seq(Entry)
  BY DEF Inv, TypeOK
<1>2. NoneAbove(chain, s, n) /\ NoneAbove(chain', s, n)
  BY DEF NoneAbove
<1> QED
  BY <1>1, <1>2, SameWords DEF Stream

LEMMA StreamGrowsNot ==
  ASSUME Inv, Inv', NEW s, NEW n \in Nat, Len(chain) = n, Len(chain') = n + 1,
         Matches(chain, chain', s, n), ~ VisibleIn(chain'[n + 1], s)
  PROVE  Stream(s)' = Stream(s)
<1>1. chain \in Seq(Entry) /\ chain' \in Seq(Entry)
  BY DEF Inv, TypeOK
<1>2. NoneAbove(chain, s, n)
  BY DEF NoneAbove
<1>3. NoneAbove(chain', s, n)
  <2>1. \A i \in 1 .. n + 1 : i > n => i = n + 1
    OBVIOUS
  <2> QED
    BY <2>1 DEF NoneAbove
<1> QED
  BY <1>1, <1>2, <1>3, SameWords DEF Stream

LEMMA StreamShrinksNot ==
  ASSUME Inv, Inv', NEW s, NEW n \in Nat, Len(chain) = n + 1, Len(chain') = n,
         Matches(chain, chain', s, n), ~ VisibleIn(chain[n + 1], s)
  PROVE  Stream(s)' = Stream(s)
<1>1. chain \in Seq(Entry) /\ chain' \in Seq(Entry)
  BY DEF Inv, TypeOK
<1>2. NoneAbove(chain', s, n)
  BY DEF NoneAbove
<1>3. NoneAbove(chain, s, n)
  <2>1. \A i \in 1 .. n + 1 : i > n => i = n + 1
    OBVIOUS
  <2> QED
    BY <2>1 DEF NoneAbove
<1> QED
  BY <1>1, <1>2, <1>3, SameWords DEF Stream

(* Scopes and deltas leave every stream as it is. *)
LEMMA RunInSpaceStays ==
  ASSUME Inv, Inv', NEW s \in Spaces, RunInSpace(s), NEW r \in Spaces
  PROVE  Stream(r)' = Stream(r)
<1>1. PICK n \in Nat : n = Len(chain)
  BY LenProperties DEF Inv, TypeOK
<1>2. /\ EnterSpace(s, chain, CurrentThreadFrame)
      /\ CurrentThreadFrame \in 0 .. n
      /\ chain \in Seq(Entry)
  BY <1>1 DEF RunInSpace, CurrentThreadFrame, Inv, TypeOK
<1>3. /\ Len(chain') = n + 1
      /\ \A i \in 1 .. n : chain'[i] = chain[i]
      /\ chain'[n + 1].kind = "scope"
  BY <1>1, <1>2, EnterGrows
<1>4. Matches(chain, chain', r, n) /\ ~ VisibleIn(chain'[n + 1], r)
  BY <1>3 DEF Matches, VisibleIn
<1> QED
  BY <1>1, <1>3, <1>4, StreamGrowsNot

LEMMA LeaveSpaceStays ==
  ASSUME Inv, Inv', LeaveSpace, NEW r \in Spaces
  PROVE  Stream(r)' = Stream(r)
<1>1. PICK n \in Nat :
        /\ Len(chain) = n + 1 /\ Len(chain') = n
        /\ chain[n + 1] = Top /\ Top.kind = "scope"
        /\ \A i \in 1 .. n : chain'[i] = chain[i]
  BY LeaveShrinks
<1>2. Matches(chain, chain', r, n) /\ ~ VisibleIn(chain[n + 1], r)
  BY <1>1 DEF Matches, VisibleIn
<1> QED
  BY <1>1, <1>2, StreamShrinksNot

LEMMA ThreadDeltaStays ==
  ASSUME Inv, Inv', NEW s \in Spaces, ThreadDelta(s), NEW r \in Spaces
  PROVE  Stream(r)' = Stream(r)
<1>1. PICK n \in Nat :
        /\ Len(chain) = n /\ Len(chain') = n
        /\ \A i \in 1 .. n : /\ chain'[i].kind = chain[i].kind
                             /\ chain'[i].space = chain[i].space
                             /\ chain'[i].counter = chain[i].counter
                             /\ chain'[i].ordinal = chain[i].ordinal
  BY DeltaStays
<1>2. Matches(chain, chain', r, n)
  BY <1>1 DEF Matches, VisibleIn
<1> QED
  BY <1>1, <1>2, StreamStays

-----------------------------------------------------------------------------
(* No action of one space changes the stream or the root of another. *)

Isolated ==
  \A s \in Spaces : s \notin {current_space, current_space'} =>
    /\ Stream(s)' = Stream(s)
    /\ root_call_ordinal'[s] = root_call_ordinal[s]

LEMMA ActivateIsolates ==
  ASSUME Inv, Inv', Nested, NEW k \in Nat, NEW cache \in Caches,
         ActivateFrame(Frame(k, cache))
  PROVE  Nested' /\ Isolated
<1>1. PICK n \in Nat :
        /\ Len(chain) = n /\ Len(chain') = n + 1
        /\ \A i \in 1 .. n : chain'[i] = chain[i]
        /\ chain'[n + 1].space = current_space
        /\ chain'[n + 1].outer = current_space
  BY ActivateGrows
<1>2. /\ current_space' = current_space
      /\ root_call_ordinal' = root_call_ordinal
  BY DEF ActivateFrame
<1>3. Nested'
  BY <1>1, <1>2, NestedGrows DEF SameSpaces
<1>4. ASSUME NEW s \in Spaces, s # current_space PROVE Stream(s)' = Stream(s)
  <2>1. Matches(chain, chain', s, n)
    BY <1>1 DEF Matches
  <2>2. ~ VisibleIn(chain'[n + 1], s)
    BY <1>1, <1>4 DEF VisibleIn
  <2> QED
    BY <1>1, <2>1, <2>2, StreamGrowsNot
<1> QED
  BY <1>2, <1>3, <1>4 DEF Isolated

LEMMA DeactivateIsolates ==
  ASSUME Inv, Inv', ParentInv, Nested, OnTop("frame"), DeactivateFrame
  PROVE  Nested' /\ Isolated
<1>1. PICK n \in Nat, k \in Nat :
        /\ Len(chain) = n + 1 /\ Len(chain') = n /\ k <= n
        /\ chain[n + 1].space = current_space
        /\ chain[n + 1].outer = current_space
        /\ \A i \in 1 .. n : i # k => chain'[i] = chain[i]
        /\ k # 0 => /\ chain[k].space = current_space
                    /\ SameButOrdinal(chain[k], chain'[k])
                    /\ root_call_ordinal' = root_call_ordinal
        /\ k = 0 => root_call_ordinal' =
             [root_call_ordinal EXCEPT ![current_space] = @ + 1]
  BY DeactivateShrinks
<1>2. current_space' = current_space /\ root_call_ordinal \in [Spaces -> Nat]
  BY DEF DeactivateFrame, Inv, TypeOK
<1>3. SameSpaces(n)
  BY <1>1 DEF SameSpaces, SameButOrdinal
<1>4. Nested'
  BY <1>1, <1>2, <1>3, NestedShrinks
<1>5. ASSUME NEW s \in Spaces, s # current_space
      PROVE  /\ Stream(s)' = Stream(s)
             /\ root_call_ordinal'[s] = root_call_ordinal[s]
  <2>1. Matches(chain, chain', s, n)
    <3> SUFFICES ASSUME NEW i \in 1 .. n
                 PROVE  /\ VisibleIn(chain[i], s) <=> VisibleIn(chain'[i], s)
                        /\ VisibleIn(chain[i], s) =>
                             /\ chain'[i].counter = chain[i].counter
                             /\ chain'[i].ordinal = chain[i].ordinal
      BY DEF Matches
    <3>1. CASE i # k
      BY <1>1, <3>1
    <3>2. CASE i = k
      <4>1. k # 0
        BY <3>2
      <4> QED
        BY <1>1, <1>5, <3>2, <4>1 DEF VisibleIn, SameButOrdinal
    <3> QED
      BY <3>1, <3>2
  <2>2. ~ VisibleIn(chain[n + 1], s)
    BY <1>1, <1>5 DEF VisibleIn
  <2>3. Stream(s)' = Stream(s)
    BY <1>1, <2>1, <2>2, StreamShrinksNot
  <2> QED
    BY <1>1, <1>2, <1>5, <2>3
<1> QED
  BY <1>4, <1>5 DEF Isolated

LEMMA StepIsolates ==
  ASSUME Inv, Inv', ParentInv, Nested, Step
  PROVE  Nested' /\ Isolated
<1>1. /\ OnTop("frame") /\ chain' = AtInstruction
      /\ current_space' = current_space
      /\ root_call_ordinal' = root_call_ordinal
  BY DEF Step, BeginInstruction
<1>2. PICK n \in Nat :
        /\ Len(chain) = n + 1 /\ Len(chain') = n + 1
        /\ \A i \in 1 .. n : chain'[i] = chain[i]
        /\ chain[n + 1] = Top /\ Top.space = current_space
        /\ chain'[n + 1].space = current_space
        /\ chain'[n + 1].outer = Top.outer
  BY <1>1, InstructionMoves
<1>3. SameSpaces(n + 1)
  <2>1. \A i \in 1 .. n + 1 : i \in 1 .. n \/ i = n + 1
    OBVIOUS
  <2> QED
    BY <1>2, <2>1 DEF SameSpaces
<1>4. n + 1 \in Nat
  OBVIOUS
<1>5. Nested'
  BY <1>1, <1>2, <1>3, <1>4, NestedStays
<1>6. ASSUME NEW s \in Spaces, s # current_space PROVE Stream(s)' = Stream(s)
  <2>1. Matches(chain, chain', s, n + 1)
    <3>1. \A i \in 1 .. n + 1 : i \in 1 .. n \/ i = n + 1
      OBVIOUS
    <3> QED
      BY <1>2, <1>6, <3>1 DEF Matches, VisibleIn
  <2> QED
    BY <1>2, <1>4, <2>1, StreamStays
<1> QED
  BY <1>1, <1>5, <1>6 DEF Isolated

LEMMA EnterIsolates ==
  ASSUME Inv, Inv', Nested, NEW n \in Nat, Len(chain) = n, Len(chain') = n + 1,
         \A i \in 1 .. n : /\ chain'[i].space = chain[i].space
                           /\ chain'[i].outer = chain[i].outer
                           /\ \/ chain'[i] = chain[i]
                              \/ chain[i].space = current_space,
         chain'[n + 1].kind = "scope", chain'[n + 1].outer = current_space,
         chain'[n + 1].space = current_space',
         root_call_ordinal' = root_call_ordinal
  PROVE  Nested' /\ Isolated
<1>1. Nested'
  BY NestedGrows DEF SameSpaces
<1>2. ASSUME NEW s \in Spaces, s # current_space PROVE Stream(s)' = Stream(s)
  <2>1. Matches(chain, chain', s, n)
    BY <1>2 DEF Matches, VisibleIn
  <2>2. ~ VisibleIn(chain'[n + 1], s)
    BY DEF VisibleIn
  <2> QED
    BY <2>1, <2>2, StreamGrowsNot
<1> QED
  BY <1>1, <1>2 DEF Isolated

LEMMA RunInSpaceIsolates ==
  ASSUME Inv, Inv', Nested, NEW s \in Spaces, RunInSpace(s)
  PROVE  Nested' /\ Isolated
<1>1. PICK n \in Nat : n = Len(chain)
  BY LenProperties DEF Inv, TypeOK
<1>2. /\ EnterSpace(s, chain, CurrentThreadFrame)
      /\ CurrentThreadFrame \in 0 .. n
      /\ root_call_ordinal' = root_call_ordinal
      /\ chain \in Seq(Entry)
  BY <1>1 DEF RunInSpace, CurrentThreadFrame, Inv, TypeOK
<1>3. /\ Len(chain') = n + 1
      /\ \A i \in 1 .. n : chain'[i] = chain[i]
      /\ chain'[n + 1].kind = "scope" /\ chain'[n + 1].space = s
      /\ chain'[n + 1].outer = current_space
      /\ current_space' = s
  BY <1>1, <1>2, EnterGrows
<1> QED
  BY <1>1, <1>2, <1>3, EnterIsolates

LEMMA EnterCallbackIsolates ==
  ASSUME Inv, Inv', ParentInv, Nested, EnterCallback
  PROVE  Nested' /\ Isolated
<1>1. OnTop("frame") /\ DisabledSpace \in Spaces
  BY CoordinatesAssumption DEF EnterCallback, BeginInstruction
<1>2. PICK m \in Nat, c \in Seq(Entry) :
        /\ Len(chain) = m + 1 /\ c = AtInstruction /\ Len(c) = m + 1
        /\ chain[m + 1] = Top /\ Top.space = current_space
        /\ \A i \in 1 .. m : c[i] = chain[i]
        /\ c[m + 1].space = current_space
        /\ c[m + 1].outer = Top.outer
  BY <1>1, InstructionMoves
<1>3. PICK n \in Nat : n = m + 1
  OBVIOUS
<1>4. /\ EnterSpace(DisabledSpace, c, n) /\ n \in 0 .. n
      /\ root_call_ordinal' = root_call_ordinal
  BY <1>2, <1>3 DEF EnterCallback, BeginInstruction
<1>5. /\ Len(chain') = n + 1
      /\ \A i \in 1 .. n : chain'[i] = c[i]
      /\ chain'[n + 1].kind = "scope" /\ chain'[n + 1].space = DisabledSpace
      /\ chain'[n + 1].outer = current_space
      /\ current_space' = DisabledSpace
  BY <1>1, <1>2, <1>3, <1>4, EnterGrows
<1>6. \A i \in 1 .. n : /\ chain'[i].space = chain[i].space
                        /\ chain'[i].outer = chain[i].outer
                        /\ \/ chain'[i] = chain[i]
                           \/ chain[i].space = current_space
  <2>1. \A i \in 1 .. n : i \in 1 .. m \/ i = m + 1
    BY <1>3
  <2> QED
    BY <1>2, <1>5, <2>1
<1> QED
  BY <1>2, <1>3, <1>4, <1>5, <1>6, EnterIsolates

LEMMA LeaveSpaceIsolates ==
  ASSUME Inv, Inv', Nested, LeaveSpace
  PROVE  Nested' /\ Isolated
<1>1. PICK n \in Nat :
        /\ Len(chain) = n + 1 /\ Len(chain') = n
        /\ chain[n + 1] = Top /\ Top.kind = "scope"
        /\ \A i \in 1 .. n : chain'[i] = chain[i]
        /\ current_space' = Top.outer
        /\ \A s \in Spaces \ {Top.space} :
             root_call_ordinal'[s] = root_call_ordinal[s]
  BY LeaveShrinks
<1>2. Nested'
  BY <1>1, NestedShrinks DEF SameSpaces
<1>3. Top.space = current_space
  <2>1. chain # <<>>
    BY DEF LeaveSpace, OnTop
  <2> QED
    BY <2>1 DEF Nested
<1>4. \A s \in Spaces : Stream(s)' = Stream(s)
  BY LeaveSpaceStays
<1> QED
  BY <1>1, <1>2, <1>3, <1>4 DEF Isolated

LEMMA ThreadDeltaIsolates ==
  ASSUME Inv, Inv', Nested, NEW r \in Spaces, ThreadDelta(r)
  PROVE  Nested' /\ Isolated
<1>1. PICK n \in Nat :
        /\ Len(chain) = n /\ Len(chain') = n
        /\ \A i \in 1 .. n : /\ chain'[i].kind = chain[i].kind
                             /\ chain'[i].space = chain[i].space
                             /\ chain'[i].outer = chain[i].outer
  BY DeltaStays
<1>2. /\ current_space' = current_space
      /\ root_call_ordinal' = root_call_ordinal
  BY DEF ThreadDelta, Remember, threadVars
<1>3. Nested'
  BY <1>1, <1>2, NestedStays DEF SameSpaces
<1>4. \A s \in Spaces : Stream(s)' = Stream(s)
  BY ThreadDeltaStays
<1> QED
  BY <1>2, <1>3, <1>4 DEF Isolated

-----------------------------------------------------------------------------
(* Order: a frame that leaves is counted at a frame of its space, if there *)
(* is one that the scopes below it could find.                             *)

(* If s has a frame among the first m entries, the slot is a frame's. *)
HasFrame(c, m, slot, s) ==
  NearestIn(c, m, s) # 0 => slot[1] # 0 /\ VisibleIn(c[slot[1]], s)

CallbackFinds ==
  callback_frame # 0 =>
    /\ \A i \in callback_frame + 2 .. Len(chain) :
         HasFrame(chain, callback_frame, chain[i].saved, chain[i].outer)
    /\ ~ OnTop("frame") =>
         HasFrame(chain, callback_frame, call_ordinal_ptr, current_space)

SameVisible(c, d, n) ==
  \A i \in 1 .. n : /\ d[i].kind = c[i].kind
                    /\ d[i].space = c[i].space
                    /\ d[i].counter = c[i].counter

LEMMA HasFrameStays ==
  ASSUME NEW c, NEW d, NEW n \in Nat, NEW m \in 0 .. n,
         SameVisible(c, d, n), NEW slot, slot[1] \in 0 .. n, NEW s,
         HasFrame(c, m, slot, s)
  PROVE  HasFrame(d, m, slot, s)
<1>1. {i \in 1 .. m : VisibleIn(d[i], s)} = {i \in 1 .. m : VisibleIn(c[i], s)}
  BY DEF SameVisible, VisibleIn
<1>2. NearestIn(d, m, s) = NearestIn(c, m, s)
  BY <1>1 DEF NearestIn
<1>3. slot[1] # 0 => (VisibleIn(d[slot[1]], s) <=> VisibleIn(c[slot[1]], s))
  BY DEF SameVisible, VisibleIn
<1> QED
  BY <1>2, <1>3 DEF HasFrame

(* In C code the pointer is such a slot. *)
LEMMA PointerHasFrame ==
  ASSUME Inv, ParentInv, CallbackFinds, InC, callback_frame # 0
  PROVE  HasFrame(chain, callback_frame, call_ordinal_ptr, current_space)
<1>1. CASE ~ OnTop("frame")
  BY <1>1 DEF CallbackFinds
<1>2. CASE OnTop("frame")
  <2>1. PICK n \in Nat : Len(chain) = n + 1
    BY <1>2, TopLeaves DEF OnTop
  <2>2. /\ call_ordinal_ptr = <<n + 1, Top.space>> /\ Top = chain[n + 1]
        /\ Top.counter > 0 /\ Top.kind = "frame"
    BY <1>2, <2>1 DEF ParentInv, TopFollows, InC, OnTop, Top
  <2>3. Top.space = current_space
    BY <2>2 DEF Inv, SlotsInv
  <2> QED
    BY <2>2, <2>3 DEF HasFrame, VisibleIn
<1> QED
  BY <1>1, <1>2

(* An entry is put on top that saves the pointer. *)
LEMMA FindsGrown ==
  ASSUME Inv, ParentInv, CallbackFinds, InC, callback_frame # 0,
         callback_frame' = callback_frame,
         NEW n \in Nat, Len(chain) = n, Len(chain') = n + 1,
         \A i \in 1 .. n : chain'[i] = chain[i],
         chain'[n + 1].saved = call_ordinal_ptr,
         chain'[n + 1].outer = current_space
  PROVE  /\ \A i \in callback_frame + 2 .. n + 1 :
              HasFrame(chain', callback_frame, chain'[i].saved, chain'[i].outer)
         /\ callback_frame \in 0 .. n
<1>1. /\ callback_frame \in 0 .. n
      /\ SameVisible(chain, chain', n)
  BY DEF Inv, TypeOK, SameVisible
<1>2. call_ordinal_ptr[1] \in 0 .. n
  BY DEF Inv, TypeOK, SlotsInv, Slot, LiveSlot
<1>3. ASSUME NEW i \in callback_frame + 2 .. n + 1
      PROVE  HasFrame(chain', callback_frame, chain'[i].saved, chain'[i].outer)
  <2>1. CASE i = n + 1
    BY <1>1, <1>2, <2>1, PointerHasFrame, HasFrameStays
  <2>2. CASE i # n + 1
    <3>1. i \in 1 .. n /\ i \in callback_frame + 2 .. n
      BY <1>1, <2>2
    <3>2. HasFrame(chain, callback_frame, chain[i].saved, chain[i].outer)
      BY <3>1 DEF CallbackFinds
    <3>3. chain[i].saved[1] \in 0 .. i - 1
      BY <3>1, SavedIsBelow
    <3>4. chain[i].saved[1] \in 0 .. n
      BY <3>1, <3>3
    <3> QED
      BY <1>1, <3>1, <3>2, <3>4, HasFrameStays
  <2> QED
    BY <2>1, <2>2
<1> QED
  BY <1>1, <1>3

LEMMA AbovePin ==
  ASSUME NEW m \in Nat, NEW n \in Nat, m < n
  PROVE  /\ n + 1 \in m + 2 .. n + 1
         /\ \A i \in m + 2 .. n : i \in 1 .. n /\ i \in m + 2 .. n + 1
OBVIOUS

(* The entry on top leaves and its slot is put back. *)
LEMMA FindsShrunk ==
  ASSUME Inv, Inv', CallbackFinds,
         NEW n \in Nat, Len(chain) = n + 1, Len(chain') = n,
         SameVisible(chain, chain', n),
         \A i \in 1 .. n : /\ chain'[i].saved = chain[i].saved
                           /\ chain'[i].outer = chain[i].outer,
         call_ordinal_ptr' = chain[n + 1].saved,
         current_space' = chain[n + 1].outer,
         callback_frame' \in {callback_frame, 0}
  PROVE  CallbackFinds'
<1> SUFFICES ASSUME callback_frame' # 0 PROVE CallbackFinds'
  BY DEF CallbackFinds
<1>1. PICK m \in Nat : /\ m = callback_frame /\ m = callback_frame'
                       /\ m # 0 /\ m < n
  <2>1. callback_frame' = callback_frame /\ callback_frame' # 0
    OBVIOUS
  <2>2. callback_frame' \in 0 .. n
    BY DEF Inv, TypeOK
  <2>3. callback_frame' < n
    BY DEF Inv, PinnedBelowScope
  <2> QED
    BY <2>1, <2>2, <2>3
<1>2. ASSUME NEW i \in m + 2 .. n + 1
      PROVE  HasFrame(chain', m, chain[i].saved, chain[i].outer)
  <2>1. i \in 1 .. Len(chain) /\ i \in callback_frame + 2 .. Len(chain)
    BY <1>1
  <2>2. HasFrame(chain, m, chain[i].saved, chain[i].outer)
    BY <1>1, <2>1 DEF CallbackFinds
  <2>3. chain[i].saved[1] \in 0 .. i - 1
    BY <2>1, SavedIsBelow
  <2>4. chain[i].saved[1] \in 0 .. n /\ m \in 0 .. n
    BY <1>1, <2>3
  <2> QED
    BY <2>2, <2>4, HasFrameStays
<1>3. HasFrame(chain', m, call_ordinal_ptr', current_space')
  <2>1. n + 1 \in m + 2 .. n + 1
    BY <1>1, AbovePin
  <2> QED
    BY <1>2, <2>1
<1>4. \A i \in m + 2 .. n :
        HasFrame(chain', m, chain'[i].saved, chain'[i].outer)
  <2>1. \A i \in m + 2 .. n : i \in 1 .. n /\ i \in m + 2 .. n + 1
    BY <1>1, AbovePin
  <2> QED
    BY <1>2, <2>1
<1> QED
  BY <1>1, <1>3, <1>4 DEF CallbackFinds

(* The chain keeps its entries, but for the counter of a frame on top. *)
LEMMA FindsStays ==
  ASSUME Inv, CallbackFinds,
         NEW n \in Nat, Len(chain) = n, Len(chain') = n,
         SameVisible(chain, chain', n - 1),
         \A i \in 1 .. n : /\ chain'[i].kind = chain[i].kind
                           /\ chain'[i].saved = chain[i].saved
                           /\ chain'[i].outer = chain[i].outer,
         SameVisible(chain, chain', n) \/ chain'[n].kind = "frame",
         call_ordinal_ptr' = call_ordinal_ptr,
         current_space' = current_space, callback_frame' = callback_frame
  PROVE  CallbackFinds'
<1> SUFFICES ASSUME callback_frame # 0 PROVE CallbackFinds'
  BY DEF CallbackFinds
<1>1. PICK m \in Nat : m = callback_frame /\ m # 0 /\ m < n
  BY DEF Inv, TypeOK, PinnedBelowScope
<1>2. PICK k \in Nat : k = n - 1 /\ m \in 0 .. k /\ n = k + 1
  BY <1>1
<1>3. ASSUME NEW i \in m + 2 .. n
      PROVE  HasFrame(chain', m, chain'[i].saved, chain'[i].outer)
  <2>1. i \in 1 .. n /\ i \in callback_frame + 2 .. n
    BY <1>1
  <2>2. HasFrame(chain, m, chain[i].saved, chain[i].outer)
    BY <1>1, <2>1 DEF CallbackFinds
  <2>3. chain[i].saved[1] \in 0 .. i - 1
    BY <2>1, SavedIsBelow
  <2>4. chain[i].saved[1] \in 0 .. k
    BY <1>2, <2>1, <2>3
  <2> QED
    BY <1>2, <2>1, <2>2, <2>4, HasFrameStays
<1>4. ASSUME ~ OnTop("frame")'
      PROVE  HasFrame(chain', m, call_ordinal_ptr, current_space)
  <2>1. chain'[n].kind # "frame" /\ chain # <<>>
    <3>1. chain' # <<>> /\ chain # <<>>
      BY <1>1
    <3> QED
      BY <1>4, <3>1 DEF OnTop, Top
  <2>2. SameVisible(chain, chain', n) /\ ~ OnTop("frame")
    <3>1. n \in 1 .. n
      BY <1>1
    <3> QED
      BY <2>1, <3>1 DEF OnTop, Top
  <2>3. HasFrame(chain, m, call_ordinal_ptr, current_space)
    BY <1>1, <2>2 DEF CallbackFinds
  <2>4. call_ordinal_ptr[1] \in 0 .. n /\ m \in 0 .. n
    BY <1>1 DEF Inv, TypeOK, SlotsInv, Slot, LiveSlot
  <2> QED
    BY <2>2, <2>3, <2>4, HasFrameStays
<1> QED
  BY <1>1, <1>3, <1>4 DEF CallbackFinds

(* What StreamsAdvance says of one step *)
Forward ==
  \A s \in Spaces :
    /\ FindsFrame(s)
    /\ depth[s] > 0 /\ depth'[s] > 0
    /\ Stream(s)' # Stream(s)
    => Precedes(Stream(s), Stream(s)')

LEMMA ActivateFinds ==
  ASSUME Inv, ParentInv, CallbackFinds, NEW k \in Nat, NEW cache \in Caches,
         ActivateFrame(Frame(k, cache))
  PROVE  CallbackFinds'
<1>1. PICK n \in Nat :
        /\ Len(chain) = n /\ Len(chain') = n + 1
        /\ \A i \in 1 .. n : chain'[i] = chain[i]
        /\ chain'[n + 1].kind = "frame"
        /\ chain'[n + 1].saved = call_ordinal_ptr
        /\ chain'[n + 1].outer = current_space
  BY ActivateGrows
<1>2. callback_frame' = callback_frame /\ InC
  BY DEF ActivateFrame
<1>3. OnTop("frame")'
  <2>1. chain' # <<>>
    BY <1>1
  <2> QED
    BY <1>1, <2>1 DEF OnTop, Top
<1>4. callback_frame # 0 =>
        \A i \in callback_frame + 2 .. n + 1 :
          HasFrame(chain', callback_frame, chain'[i].saved, chain'[i].outer)
  BY <1>1, <1>2, FindsGrown
<1> QED
  BY <1>1, <1>2, <1>3, <1>4 DEF CallbackFinds

LEMMA ActivateForward ==
  ASSUME Inv, Inv', Nested, NEW k \in Nat, NEW cache \in Caches,
         ActivateFrame(Frame(k, cache))
  PROVE  Forward
<1>1. PICK n \in Nat :
        /\ Len(chain) = n /\ Len(chain') = n + 1
        /\ \A i \in 1 .. n : chain'[i] = chain[i]
  BY ActivateGrows
<1>2. chain \in Seq(Entry) /\ chain' \in Seq(Entry)
  BY DEF Inv, TypeOK
<1>3. ASSUME NEW s \in Spaces, Stream(s)' # Stream(s)
      PROVE  Precedes(Stream(s), Stream(s)')
  <2>1. Matches(chain, chain', s, n)
    BY <1>1 DEF Matches
  <2>2. VisibleIn(chain'[n + 1], s)
    BY <1>1, <1>3, <2>1, StreamGrowsNot
  <2>3. NoneAbove(chain, s, n)
    BY <1>1 DEF NoneAbove
  <2>4. ~ NoneAbove(chain', s, n)
    <3>1. n + 1 \in 1 .. Len(chain') /\ n + 1 > n
      BY <1>1
    <3> QED
      BY <2>2, <3>1 DEF NoneAbove
  <2>5. n <= Len(chain) /\ n <= Len(chain')
    BY <1>1
  <2>6. Precedes(Words(chain, s), Words(chain', s))
    BY <1>2, <2>1, <2>3, <2>4, <2>5, LongerComesLater
  <2> QED
    BY <2>6 DEF Stream
<1> QED
  BY <1>3 DEF Forward

LEMMA DeactivateFinds ==
  ASSUME Inv, Inv', ParentInv, CallbackFinds, OnTop("frame"), DeactivateFrame
  PROVE  CallbackFinds'
<1>1. PICK n \in Nat, k \in Nat :
        /\ Len(chain) = n + 1 /\ Len(chain') = n
        /\ chain[n + 1] = Top
        /\ Top.outer = current_space
        /\ call_ordinal_ptr' = Top.saved
        /\ \A i \in 1 .. n : i # k => chain'[i] = chain[i]
        /\ k # 0 => SameButOrdinal(chain[k], chain'[k])
  BY DeactivateShrinks
<1>2. current_space' = current_space /\ callback_frame' = callback_frame
  BY DEF DeactivateFrame
<1>3. /\ SameVisible(chain, chain', n)
      /\ \A i \in 1 .. n : /\ chain'[i].saved = chain[i].saved
                           /\ chain'[i].outer = chain[i].outer
  BY <1>1 DEF SameVisible, SameButOrdinal
<1> QED
  BY <1>1, <1>2, <1>3, FindsShrunk

(* There is a frame to count the leaving one at: if the space keeps a      *)
(* frame, the slot is a visible frame's.                                   *)
LEMMA LeavingCountsAtFrame ==
  ASSUME Inv, ParentInv, CallbackFinds, OnTop("frame"), FindsFrame(Top.space),
         NEW n \in Nat, Len(chain) = n + 1, Top = chain[n + 1],
         Top.outer = Top.space,
         NEW j \in 1 .. n, chain[j].kind = "frame",
         chain[j].space = Top.space
  PROVE  Top.saved[1] # 0 /\ VisibleIn(chain[Top.saved[1]], Top.space)
<1>1. VisibleIn(chain[j], Top.space)
  BY DEF ParentInv, FramesFollow, VisibleIn
<1>2. /\ NearestIn(chain, n, Top.space) \in 0 .. n
      /\ NearestIn(chain, n, Top.space) # 0
      /\ VisibleIn(chain[NearestIn(chain, n, Top.space)], Top.space)
  BY <1>1, NearestIsFrame
<1>3. CASE callback_frame = 0
  <2>1. n + 1 \in 1 .. Limit /\ (n + 1) - 1 = n
    BY <1>3 DEF Limit
  <2>2. Attached(chain, n, Top.saved, Top.outer)
    BY <2>1 DEF ParentInv, EntriesAttached
  <2>3. Top.saved = <<NearestIn(chain, n, Top.space), Top.space>>
    BY <1>2, <2>2 DEF Attached
  <2> QED
    BY <1>2, <2>3
<1>4. CASE callback_frame # 0
  <2>1. PICK m \in Nat : /\ m = callback_frame /\ m < n + 1
                         /\ chain[m + 1].kind = "scope"
    BY <1>4 DEF Inv, TypeOK, PinnedBelowScope
  <2>2. m + 1 # n + 1
    BY <2>1 DEF OnTop
  <2>3. n + 1 \in callback_frame + 2 .. Len(chain)
    BY <2>1, <2>2
  <2>4. HasFrame(chain, callback_frame, Top.saved, Top.space)
    BY <1>4, <2>3 DEF CallbackFinds
  <2>5. Nearest(UpTo(m), Top.space) = NearestIn(chain, m, Top.space)
    <3>1. chain \in Seq(Entry) /\ m \in 0 .. Len(chain)
      BY <2>1 DEF Inv, TypeOK
    <3> QED
      BY <3>1, NearestOfPrefix DEF UpTo
  <2>6. NearestIn(chain, callback_frame, Top.space) # 0
    BY <1>4, <2>1, <2>5 DEF FindsFrame
  <2> QED
    BY <2>4, <2>6 DEF HasFrame
<1> QED
  BY <1>3, <1>4

LEMMA DeactivateForward ==
  ASSUME Inv, Inv', ParentInv, Nested, CallbackFinds,
         DepthCountsFrames', OnTop("frame"), DeactivateFrame
  PROVE  Forward
<1>1. PICK n \in Nat, k \in Nat :
        /\ Len(chain) = n + 1 /\ Len(chain') = n /\ k <= n
        /\ chain[n + 1] = Top /\ k = Top.saved[1]
        /\ Top.space = current_space /\ Top.outer = current_space
        /\ \A i \in 1 .. n : i # k => chain'[i] = chain[i]
        /\ k # 0 => /\ SameButOrdinal(chain[k], chain'[k])
                    /\ chain'[k].ordinal = chain[k].ordinal + 1
  BY DeactivateShrinks
<1>2. /\ chain \in Seq(Entry) /\ chain' \in Seq(Entry)
      /\ current_space' = current_space
  BY DEF Inv, TypeOK, DeactivateFrame
<1>3. Isolated
  BY DeactivateIsolates
<1> SUFFICES ASSUME NEW s \in Spaces, FindsFrame(s), depth'[s] > 0,
                    Stream(s)' # Stream(s)
             PROVE  Precedes(Stream(s), Stream(s)')
  BY DEF Forward
<1>4. s = current_space
  BY <1>2, <1>3 DEF Isolated
<1>5. PICK j \in 1 .. n : chain'[j].kind = "frame" /\ chain'[j].space = s
  <2>1. depth'[s] = Cardinality(FramesOf(chain', s))
    BY DEF DepthCountsFrames, FramesOf, IsFrameOf
  <2>2. PICK j : j \in FramesOf(chain', s)
    BY <2>1, FS_EmptySet
  <2>3. j \in 1 .. Len(chain') /\ IsFrameOf(chain'[j], s)
    BY <2>2 DEF FramesOf
  <2> QED
    BY <1>1, <2>3 DEF IsFrameOf
<1>6. chain[j].kind = "frame" /\ chain[j].space = s
  <2>1. chain'[j] = chain[j] \/ SameButOrdinal(chain[j], chain'[j])
    BY <1>1
  <2> QED
    BY <1>5, <2>1 DEF SameButOrdinal
<1>7. k # 0 /\ VisibleIn(chain[k], s)
  BY <1>1, <1>4, <1>6, LeavingCountsAtFrame
<1>8. PICK m \in Nat : k = m + 1
  <2>1. k - 1 \in Nat /\ k = (k - 1) + 1
    BY <1>7
  <2> QED
    BY <2>1
<1>9. VisibleIn(chain'[k], s) /\ chain'[k].counter = chain[k].counter
  BY <1>1, <1>7 DEF VisibleIn, SameButOrdinal
<1>10. chain[k].ordinal < chain'[k].ordinal
  <2>1. chain[k] \in Entry
    BY <1>1, <1>2, <1>7, ElementOfSeq
  <2> QED
    BY <1>1, <1>7, <2>1 DEF Entry
<1>11. Matches(chain, chain', s, m)
  <2>1. \A i \in 1 .. m : i \in 1 .. n /\ i # k
    BY <1>1, <1>8
  <2> QED
    BY <1>1, <2>1 DEF Matches
<1>12. m + 1 <= Len(chain) /\ m + 1 <= Len(chain')
  BY <1>1, <1>8
<1>13. Precedes(Words(chain, s), Words(chain', s))
  BY <1>2, <1>7, <1>8, <1>9, <1>10, <1>11, <1>12, FurtherComesLater
<1> QED
  BY <1>13 DEF Stream

(* The top frame starts an instruction, with or without a callback's scope *)
(* above it.                                                               *)
LEMMA InstructionForward ==
  ASSUME Inv, Inv', ParentInv, OnTop("frame"), NEW n \in Nat,
         Len(chain) = n + 1, n + 1 <= Len(chain'),
         \A i \in 1 .. n : chain'[i] = chain[i],
         chain'[n + 1].kind = "frame",
         chain'[n + 1].space = Top.space,
         chain'[n + 1].counter = Top.counter + 1,
         NEW s \in Spaces, Stream(s)' # Stream(s), s = Top.space
  PROVE  Precedes(Stream(s), Stream(s)')
<1>1. chain \in Seq(Entry) /\ chain' \in Seq(Entry)
  BY DEF Inv, TypeOK
<1>2. Top = chain[n + 1] /\ Top.kind = "frame" /\ Top.counter \in Nat
  <2>1. Top \in Entry
    BY TopLeaves DEF OnTop
  <2> QED
    BY <2>1 DEF OnTop, Top, Entry
<1>3. Matches(chain, chain', s, n) /\ n <= Len(chain) /\ n <= Len(chain')
  <2>1. Len(chain') \in Nat
    BY <1>1, LenProperties
  <2> QED
    BY <2>1 DEF Matches
<1>4. VisibleIn(chain'[n + 1], s)
  BY <1>2 DEF VisibleIn
<1>5. Precedes(Words(chain, s), Words(chain', s))
  <2>1. CASE Top.counter > 0
    <3>1. VisibleIn(chain[n + 1], s)
      BY <1>2, <2>1 DEF VisibleIn
    <3>2. chain[n + 1].counter < chain'[n + 1].counter
      BY <1>2
    <3>3. n + 1 <= Len(chain) /\ n + 1 <= Len(chain')
      OBVIOUS
    <3> QED
      BY <1>1, <1>3, <1>4, <3>1, <3>2, <3>3, FurtherComesLater
  <2>2. CASE Top.counter = 0
    <3>1. NoneAbove(chain, s, n)
      <4>1. ~ VisibleIn(chain[n + 1], s)
        BY <1>2, <2>2 DEF VisibleIn
      <4>2. \A i \in 1 .. n + 1 : i > n => i = n + 1
        OBVIOUS
      <4> QED
        BY <4>1, <4>2 DEF NoneAbove
    <3>2. ~ NoneAbove(chain', s, n)
      <4>1. n + 1 \in 1 .. Len(chain') /\ n + 1 > n
        <5>1. Len(chain') \in Nat
          BY <1>1, LenProperties
        <5> QED
          BY <5>1
      <4> QED
        BY <1>4, <4>1 DEF NoneAbove
    <3> QED
      BY <1>1, <1>3, <3>1, <3>2, LongerComesLater
  <2> QED
    BY <1>2, <2>1, <2>2
<1> QED
  BY <1>5 DEF Stream

LEMMA StepFinds ==
  ASSUME Inv, Inv', ParentInv, Nested, CallbackFinds, Step
  PROVE  CallbackFinds' /\ Forward
<1>1. /\ OnTop("frame") /\ chain' = AtInstruction
      /\ call_ordinal_ptr' = call_ordinal_ptr
      /\ current_space' = current_space /\ callback_frame' = callback_frame
  BY DEF Step, BeginInstruction
<1>2. PICK m \in Nat :
        /\ Len(chain) = m + 1 /\ Len(chain') = m + 1
        /\ chain[m + 1] = Top /\ Top.kind = "frame"
        /\ Top.space = current_space
        /\ \A i \in 1 .. m : chain'[i] = chain[i]
        /\ chain'[m + 1].kind = "frame"
        /\ chain'[m + 1].space = current_space
        /\ chain'[m + 1].counter = Top.counter + 1
        /\ chain'[m + 1].saved = Top.saved
        /\ chain'[m + 1].outer = Top.outer
  BY <1>1, InstructionMoves
<1>3. CallbackFinds'
  <2>1. PICK n \in Nat : n = m + 1 /\ n - 1 = m
    OBVIOUS
  <2>2. \A i \in 1 .. n : i \in 1 .. m \/ i = m + 1
    BY <2>1
  <2>3. /\ SameVisible(chain, chain', n - 1)
        /\ \A i \in 1 .. n : /\ chain'[i].kind = chain[i].kind
                             /\ chain'[i].saved = chain[i].saved
                             /\ chain'[i].outer = chain[i].outer
    BY <1>2, <2>1, <2>2 DEF SameVisible
  <2> QED
    BY <1>1, <1>2, <2>1, <2>3, FindsStays
<1>4. ASSUME NEW s \in Spaces, Stream(s)' # Stream(s)
      PROVE  Precedes(Stream(s), Stream(s)')
  <2>1. s = Top.space
    BY <1>1, <1>2, <1>4, StepIsolates DEF Isolated
  <2>2. m + 1 <= Len(chain')
    BY <1>2
  <2> QED
    BY <1>1, <1>2, <1>4, <2>1, <2>2, InstructionForward
<1> QED
  BY <1>3, <1>4 DEF Forward

LEMMA EnterCallbackFinds ==
  ASSUME Inv, Inv', ParentInv, Nested, CallbackFinds, EnterCallback
  PROVE  CallbackFinds' /\ Forward
<1>1. OnTop("frame") /\ DisabledSpace \in Spaces /\ callback_frame = 0
  BY CoordinatesAssumption DEF EnterCallback, BeginInstruction
<1>2. PICK m \in Nat, c \in Seq(Entry) :
        /\ Len(chain) = m + 1 /\ c = AtInstruction /\ Len(c) = m + 1
        /\ chain[m + 1] = Top /\ Top.space = current_space
        /\ \A i \in 1 .. m : c[i] = chain[i]
        /\ c[m + 1].kind = "frame" /\ c[m + 1].space = current_space
        /\ c[m + 1].counter = Top.counter + 1
  BY <1>1, InstructionMoves
<1>3. PICK n \in Nat : n = m + 1 /\ n \in 0 .. n
  OBVIOUS
<1>4. EnterSpace(DisabledSpace, c, n) /\ callback_frame' = n
  BY <1>2, <1>3 DEF EnterCallback
<1>5. PICK parent : parent = NearestIn(c, n, DisabledSpace)
  OBVIOUS
<1>6. /\ Len(chain') = n + 1
      /\ \A i \in 1 .. n : chain'[i] = c[i]
      /\ chain'[n + 1].kind = "scope"
      /\ call_ordinal_ptr' =
           <<IF parent = 0 THEN n + 1 ELSE parent, DisabledSpace>>
      /\ current_space' = DisabledSpace
  BY <1>1, <1>2, <1>3, <1>4, <1>5, EnterGrows
<1>7. NearestIn(chain', n, DisabledSpace) = parent
  <2>1. {i \in 1 .. n : VisibleIn(chain'[i], DisabledSpace)} =
          {i \in 1 .. n : VisibleIn(c[i], DisabledSpace)}
    BY <1>6
  <2> QED
    BY <1>5, <2>1 DEF NearestIn
<1>8. CallbackFinds'
  <2>1. HasFrame(chain', n, call_ordinal_ptr', current_space')
    <3>1. parent # 0 => VisibleIn(chain'[parent], DisabledSpace)
      BY <1>7, NearestIsFrame
    <3> QED
      BY <1>6, <1>7, <3>1 DEF HasFrame
  <2>2. n + 2 .. n + 1 = {}
    OBVIOUS
  <2> QED
    BY <1>4, <1>6, <2>1, <2>2 DEF CallbackFinds
<1>9. ASSUME NEW s \in Spaces, Stream(s)' # Stream(s)
      PROVE  Precedes(Stream(s), Stream(s)')
  <2>1. n + 1 <= Len(chain') /\ m + 1 <= Len(chain')
    BY <1>3, <1>6
  <2>2. \A i \in 1 .. m : i \in 1 .. n
    BY <1>3
  <2>3. \A i \in 1 .. m : chain'[i] = chain[i]
    BY <1>2, <1>6, <2>2
  <2>4. chain'[m + 1] = c[m + 1]
    BY <1>3, <1>6
  <2>5. s = Top.space
    <3> SUFFICES ASSUME s # Top.space PROVE FALSE
      OBVIOUS
    <3>1. Matches(chain, chain', s, n)
      <4>1. \A i \in 1 .. n : i \in 1 .. m \/ i = m + 1
        BY <1>3
      <4> QED
        BY <1>2, <2>3, <2>4, <4>1 DEF Matches, VisibleIn
    <3>2. ~ VisibleIn(chain'[n + 1], s)
      BY <1>6 DEF VisibleIn
    <3> QED
      BY <1>2, <1>3, <1>6, <1>9, <3>1, <3>2, StreamGrowsNot
  <2> QED
    BY <1>1, <1>2, <1>9, <2>1, <2>3, <2>4, <2>5, InstructionForward
<1> QED
  BY <1>8, <1>9 DEF Forward

LEMMA RunInSpaceFinds ==
  ASSUME Inv, Inv', ParentInv, CallbackFinds, NEW s \in Spaces, RunInSpace(s)
  PROVE  CallbackFinds' /\ Forward
<1>1. Forward
  BY RunInSpaceStays DEF Forward
<1>2. callback_frame' = callback_frame /\ InC
  BY DEF RunInSpace
<1> SUFFICES ASSUME callback_frame # 0 PROVE CallbackFinds'
  BY <1>1, <1>2 DEF CallbackFinds
<1>3. PICK n \in Nat : n = Len(chain)
  BY LenProperties DEF Inv, TypeOK
<1>4. PICK m \in Nat, f \in Nat :
        /\ m = callback_frame /\ f = CurrentThreadFrame /\ m <= f /\ f <= n
        /\ f \in 0 .. n
  <2>1. callback_frame \in 0 .. n /\ n \in Nat
    BY <1>3 DEF Inv, TypeOK
  <2>2. CurrentThreadFrame = callback_frame \/ CurrentThreadFrame = n
    BY <1>3 DEF CurrentThreadFrame
  <2> QED
    BY <2>1, <2>2
<1>5. EnterSpace(s, chain, f) /\ chain \in Seq(Entry)
  BY <1>4 DEF RunInSpace, Inv, TypeOK
<1>6. PICK parent : parent = NearestIn(chain, f, s)
  OBVIOUS
<1>7. /\ Len(chain') = n + 1
      /\ \A i \in 1 .. n : chain'[i] = chain[i]
      /\ chain'[n + 1].saved = call_ordinal_ptr
      /\ chain'[n + 1].outer = current_space
      /\ call_ordinal_ptr' = <<IF parent = 0 THEN n + 1 ELSE parent, s>>
      /\ current_space' = s
  <2>1. /\ Len(chain') = n + 1
        /\ \A i \in 1 .. n : chain'[i] = chain[i]
        /\ chain'[n + 1].saved = call_ordinal_ptr
        /\ chain'[n + 1].outer = current_space
        /\ call_ordinal_ptr' =
             <<IF NearestIn(chain, f, s) = 0 THEN n + 1
                                             ELSE NearestIn(chain, f, s), s>>
        /\ current_space' = s
    BY <1>3, <1>4, <1>5, EnterGrows
  <2> QED
    BY <1>6, <2>1
<1>8. \A i \in m + 2 .. n + 1 :
        HasFrame(chain', m, chain'[i].saved, chain'[i].outer)
  BY <1>2, <1>3, <1>4, <1>7, FindsGrown
<1>9. HasFrame(chain', m, call_ordinal_ptr', current_space')
  <2>1. /\ parent \in 0 .. f
        /\ parent # 0 => VisibleIn(chain[parent], s)
        /\ \A i \in 1 .. f : VisibleIn(chain[i], s) => parent >= i
    BY <1>6, NearestIsFrame
  <2>2. SUFFICES ASSUME NearestIn(chain', m, s) # 0
                 PROVE  /\ call_ordinal_ptr'[1] # 0
                        /\ VisibleIn(chain'[call_ordinal_ptr'[1]], s)
    BY <1>7 DEF HasFrame
  <2>3. PICK j \in 1 .. m : VisibleIn(chain'[j], s)
    <3>1. /\ NearestIn(chain', m, s) \in 0 .. m
          /\ VisibleIn(chain'[NearestIn(chain', m, s)], s)
      BY <2>2, NearestIsFrame
    <3> QED
      BY <2>2, <3>1
  <2>4. j \in 1 .. f /\ j \in 1 .. n
    BY <1>4
  <2>5. parent >= j
    BY <1>7, <2>1, <2>3, <2>4
  <2>6. parent # 0 /\ parent \in 1 .. n
    BY <1>4, <2>1, <2>5
  <2> QED
    BY <1>7, <2>1, <2>6
<1> QED
  BY <1>2, <1>4, <1>7, <1>8, <1>9 DEF CallbackFinds

LEMMA LeaveSpaceFinds ==
  ASSUME Inv, Inv', CallbackFinds, LeaveSpace
  PROVE  CallbackFinds' /\ Forward
<1>1. PICK n \in Nat :
        /\ Len(chain) = n + 1 /\ Len(chain') = n
        /\ chain[n + 1] = Top
        /\ \A i \in 1 .. n : chain'[i] = chain[i]
        /\ call_ordinal_ptr' = Top.saved /\ current_space' = Top.outer
  BY LeaveShrinks
<1>2. callback_frame' \in {callback_frame, 0}
  BY DEF LeaveSpace, PinAfter
<1>3. SameVisible(chain, chain', n)
  BY <1>1 DEF SameVisible
<1>4. CallbackFinds'
  BY <1>1, <1>2, <1>3, FindsShrunk
<1> QED
  BY <1>4, LeaveSpaceStays DEF Forward

LEMMA ThreadDeltaFinds ==
  ASSUME Inv, Inv', CallbackFinds, NEW s \in Spaces, ThreadDelta(s)
  PROVE  CallbackFinds' /\ Forward
<1>1. PICK n \in Nat :
        /\ Len(chain) = n /\ Len(chain') = n
        /\ \A i \in 1 .. n : /\ chain'[i].kind = chain[i].kind
                             /\ chain'[i].space = chain[i].space
                             /\ chain'[i].counter = chain[i].counter
                             /\ chain'[i].saved = chain[i].saved
                             /\ chain'[i].outer = chain[i].outer
  BY DeltaStays
<1>2. /\ call_ordinal_ptr' = call_ordinal_ptr
      /\ current_space' = current_space /\ callback_frame' = callback_frame
  BY DEF ThreadDelta, Remember, threadVars
<1>3. SameVisible(chain, chain', n) /\ SameVisible(chain, chain', n - 1)
  <2>1. \A i \in 1 .. n - 1 : i \in 1 .. n
    OBVIOUS
  <2> QED
    BY <1>1, <2>1 DEF SameVisible
<1>4. CallbackFinds'
  BY <1>1, <1>2, <1>3, FindsStays
<1> QED
  BY <1>4, ThreadDeltaStays DEF Forward

-----------------------------------------------------------------------------
(* The theorems *)

OrderInv == Nested /\ CallbackFinds

LEMMA InitHasOrder == Init => OrderInv
<1> SUFFICES ASSUME Init PROVE OrderInv
  OBVIOUS
<1>1. chain = <<>> /\ Len(chain) = 0 /\ callback_frame = 0
  BY DEF Init
<1> QED
  BY <1>1 DEF OrderInv, Nested, CallbackFinds

LEMMA NextKeepsOrder ==
  ASSUME Inv, Inv', ParentInv, DepthCountsFrames', OrderInv, Next
  PROVE  OrderInv' /\ Isolated /\ Forward
<1>1. Nested /\ CallbackFinds
  BY DEF OrderInv
<1>2. ASSUME NEW k \in Nat, NEW cache \in Caches,
             ActivateFrame(Frame(k, cache))
      PROVE  OrderInv' /\ Isolated /\ Forward
  BY <1>1, <1>2, ActivateIsolates, ActivateFinds, ActivateForward
     DEF OrderInv
<1>3. ASSUME OnTop("frame"), DeactivateFrame
      PROVE  OrderInv' /\ Isolated /\ Forward
  BY <1>1, <1>3, DeactivateIsolates, DeactivateFinds, DeactivateForward
     DEF OrderInv
<1>4. CASE Call
  <2>1. NoDelta \in Caches
    BY DEF Caches
  <2> QED
    BY <1>2, <1>4, <2>1 DEF Call
<1>5. ASSUME NEW g \in suspended, ResumeGenerator(g)
      PROVE  OrderInv' /\ Isolated /\ Forward
  <2>1. g.counter \in Nat /\ g.cache \in Caches /\ NoDelta \in Caches
    BY DEF Inv, TypeOK, Caches, Suspended
  <2> QED
    BY <1>2, <1>5, <2>1 DEF ResumeGenerator
<1>6. CASE LeaveFrame
  BY <1>3, <1>6 DEF LeaveFrame
<1>7. CASE Yield
  BY <1>3, <1>7 DEF Yield, Suspend
<1>8. CASE CreateGenerator
  BY <1>3, <1>8 DEF CreateGenerator, Suspend
<1>9. CASE Step
  BY <1>1, <1>9, StepIsolates, StepFinds DEF OrderInv
<1>10. ASSUME NEW s \in Spaces, RunInSpace(s)
       PROVE  OrderInv' /\ Isolated /\ Forward
  BY <1>1, <1>10, RunInSpaceIsolates, RunInSpaceFinds DEF OrderInv
<1>11. CASE EnterCallback
  BY <1>1, <1>11, EnterCallbackIsolates, EnterCallbackFinds DEF OrderInv
<1>12. CASE LeaveSpace
  BY <1>1, <1>12, LeaveSpaceIsolates, LeaveSpaceFinds DEF OrderInv
<1>13. ASSUME NEW s \in Spaces, ThreadDelta(s)
       PROVE  OrderInv' /\ Isolated /\ Forward
  BY <1>1, <1>13, ThreadDeltaIsolates, ThreadDeltaFinds DEF OrderInv
<1> QED
  BY <1>4, <1>5, <1>6, <1>7, <1>8, <1>9, <1>10, <1>11, <1>12, <1>13 DEF Next

StateInv == Inv /\ ParentInv /\ DepthCountsFrames /\ OrderInv

LEMMA StateInvKept == StateInv /\ [Next]_vars => StateInv'
<1> SUFFICES ASSUME StateInv, [Next]_vars PROVE StateInv'
  OBVIOUS
<1>1. /\ Inv' /\ ParentInv' /\ DepthCountsFrames'
  BY NextKeepsInv, NextKeepsParents, NextKeepsDepth DEF StateInv
<1>2. CASE Next
  BY <1>1, <1>2, NextKeepsOrder DEF StateInv
<1>3. CASE UNCHANGED vars
  <2>1. OrderInv'
    BY <1>3 DEF StateInv, OrderInv, Nested, CallbackFinds, Top, OnTop, vars,
                threadVars
  <2> QED
    BY <1>1, <2>1 DEF StateInv
<1> QED
  BY <1>2, <1>3

(* The invariant of a thread's frames, scopes and spaces: Inv, the depths, *)
(* where frames attach, how spaces nest, and where the frames of a         *)
(* callback are counted.                                                   *)
THEOREM StateInvariant == Spec => []StateInv
<1>1. Init => StateInv
  BY InitHasInv, InitHasParents, InitHasDepth, InitHasOrder DEF StateInv
<1> QED
  BY <1>1, StateInvKept, PTL DEF Spec

(* Running in one space leaves the coordinate stream and the root ordinal  *)
(* of every other space as they were, whatever is called, thrown, yielded, *)
(* interrupted or reported, for any spaces and any depth.                  *)
THEOREM RunningIsolates == Spec => SpacesAreIsolated
<1>1. StateInv /\ StateInv' /\ [Next]_vars =>
        [\A s \in Spaces : s \notin {current_space, current_space'} =>
           /\ Stream(s)' = Stream(s)
           /\ root_call_ordinal'[s] = root_call_ordinal[s]]_vars
  BY NextKeepsOrder DEF StateInv, Isolated
<1> QED
  BY <1>1, StateInvariant, PTL DEF Spec, SpacesAreIsolated

(* A space's stream only moves forward while the space keeps a frame: no   *)
(* coordinate that call_at has passed comes back.  In callbacks it holds   *)
(* in the spaces of the frames that they interrupted.                      *)
THEOREM StreamsGoForward == Spec => StreamsAdvance
<1>1. StateInv /\ StateInv' /\ [Next]_vars =>
        [\A s \in Spaces :
           /\ FindsFrame(s)
           /\ depth[s] > 0 /\ depth'[s] > 0
           => \A now \in {Stream(s)}, later \in {Stream(s)'} :
                later # now => Precedes(now, later)]_vars
  <2>1. ASSUME Forward, NEW s \in Spaces, FindsFrame(s),
               depth[s] > 0, depth'[s] > 0,
               NEW now \in {Stream(s)}, NEW later \in {Stream(s)'},
               later # now
        PROVE  Precedes(now, later)
    <3>1. Stream(s)' # Stream(s) => Precedes(Stream(s), Stream(s)')
      BY <2>1 DEF Forward
    <3>2. now = Stream(s) /\ later = Stream(s)'
      OBVIOUS
    <3> QED
      BY <2>1, <3>1, <3>2
  <2> QED
    BY <2>1, NextKeepsOrder DEF StateInv
<1> QED
  BY <1>1, StateInvariant, PTL DEF Spec, StreamsAdvance

-----------------------------------------------------------------------------
(* Deltas: a frame's cache tells what the last report said of it, as far   *)
(* as a query from any space reads, whenever the frames below have not     *)
(* changed since and its own counter has not.                              *)

(* Every query reads at least these entries. *)
Reach == IF callback_frame = 0 THEN Len(chain) ELSE callback_frame

(* The frame has not started an instruction since it was reported. *)
Hit(e, s) == e.cache # NoDelta /\ e.cache[1] = s /\ e.cache[2] = e.counter

(* Nor has it counted a call. *)
Matched(e, s) == Hit(e, s) /\ e.cache[3] = e.ordinal

AllMatched(c, s, m) ==
  \A j \in 1 .. m : VisibleIn(c[j], s) => Matched(c[j], s)

Trusted(c, s, i) ==
  /\ VisibleIn(c[i], s) /\ c[i].place = "running" /\ Hit(c[i], s)
  /\ AllMatched(c, s, i - 1)

(* What the cache says are the frame's words in the stream told. *)
Told(c, s, i, told) ==
  LET r == Rank(Places(c, s), i)
  IN /\ 2 * r <= Len(told)
     /\ told[2 * r - 1] = c[i].cache[2]
     /\ told[2 * r] = c[i].cache[3]

CachesTell(s) ==
  last_delta_root[s] = root_call_ordinal[s] =>
    \A i \in 1 .. Reach : Trusted(chain, s, i) => Told(chain, s, i, reported[s])

(* A cache is never ahead of its frame, but for the ordinal of a resumed   *)
(* generator, which is 0 again before its next instruction.                *)
Behind(e) ==
  e.kind = "frame" /\ e.cache # NoDelta =>
    /\ e.cache[2] <= e.counter
    /\ e.place = "running" /\ e.cache[2] = e.counter => e.cache[3] <= e.ordinal

CachesBehind ==
  /\ \A i \in 1 .. Len(chain) : Behind(chain[i])
  /\ \A g \in suspended : g.cache # NoDelta => g.cache[2] <= g.counter

BelowRuns == \A i \in 1 .. Len(chain) - 1 : chain[i].place = "running"

(* Only the oldest entry is counted at a root ordinal. *)
RootIsBelow ==
  /\ call_ordinal_ptr[1] = 0 => Len(chain) = 0
  /\ \A i \in 2 .. Len(chain) : chain[i].saved[1] # 0

(* A scope with a copy of the root ordinal has no frame of its space below *)
(* it, so that no delta needs what its end writes to the root ordinal.     *)
LocalIsAlone ==
  \A j \in 1 .. Len(chain) : chain[j].kind = "scope" /\ chain[j].local =>
    \A i \in 1 .. Reach : i < j => ~ VisibleIn(chain[i], chain[j].space)

DeltaInv ==
  /\ reported \in [Spaces -> Seq(Nat)]
  /\ CachesBehind /\ BelowRuns /\ RootIsBelow /\ LocalIsAlone
  /\ \A s \in Spaces : CachesTell(s)

-----------------------------------------------------------------------------
(* What the caches say, word by word *)

LEMMA CachedOfFrame ==
  ASSUME NEW c \in Seq(Entry), NEW s, NEW i \in Places(c, s)
  PROVE  LET r == Rank(Places(c, s), i)
             hit == c[i].cache # NoDelta /\ c[i].cache[1] = s
         IN /\ Cached(c, s)[2 * r - 1] = IF hit THEN c[i].cache[2] ELSE Unset
            /\ Cached(c, s)[2 * r] = IF hit THEN c[i].cache[3] ELSE Unset
<1>1. PICK q \in Seq(Entry) :
        /\ q = VisibleFrames(c, s)
        /\ Consists(c, Places(c, s), q, Len(c))
        /\ Len(q) \in Nat /\ Len(q) = Rank(Places(c, s), Len(c))
  BY FramesOfChain
<1>2. i \in 1 .. Len(c)
  BY DEF Places
<1>3. PICK r \in Nat : /\ r = Rank(Places(c, s), i)
                       /\ r > 0 /\ r <= Len(q) /\ q[r] = c[i]
  BY <1>1, <1>2 DEF Consists
<1> DEFINE word(w, f) == IF ~ (f.cache # NoDelta /\ f.cache[1] = s) THEN Unset
                         ELSE IF w % 2 = 1 THEN f.cache[2] ELSE f.cache[3]
<1>4. Cached(c, s) =
        [w \in 1 .. 2 * Len(q) |-> word(w, q[(w + 1) \div 2])]
  BY <1>1 DEF Cached
<1>5. 2 * r - 1 \in 1 .. 2 * Len(q) /\ 2 * r \in 1 .. 2 * Len(q)
  BY <1>1, <1>3
<1>6. /\ (2 * r - 1) % 2 = 1 /\ (2 * r) % 2 = 0
      /\ ((2 * r - 1) + 1) \div 2 = r /\ (2 * r + 1) \div 2 = r
  BY <1>3, PairOfWords
<1>7. \A w \in 1 .. 2 * Len(q) :
        (w + 1) \div 2 = r => Cached(c, s)[w] = word(w, c[i])
  BY <1>3, <1>4
<1>8. /\ Cached(c, s)[2 * r - 1] = word(2 * r - 1, c[i])
      /\ Cached(c, s)[2 * r] = word(2 * r, c[i])
  <2> HIDE DEF word
  <2> QED
    BY <1>5, <1>6, <1>7
<1> QED
  BY <1>3, <1>6, <1>8

-----------------------------------------------------------------------------
(* What the caches said they still say. *)

(* The entry has not come to match its cache. *)
NotNewer(e, f, s) ==
  /\ VisibleIn(f, s) <=> VisibleIn(e, s)
  /\ VisibleIn(f, s) => /\ f.cache = e.cache
                        /\ f.place = "running" => e.place = "running"
                        /\ Hit(f, s) => Hit(e, s)
                        /\ Matched(f, s) => Matched(e, s)

LEMMA RanksOfNotNewer ==
  ASSUME NEW c, NEW d, NEW s, NEW n \in Nat, NEW i \in 0 .. n,
         n <= Len(c), n <= Len(d), Len(c) \in Nat, Len(d) \in Nat,
         \A j \in 1 .. n : NotNewer(c[j], d[j], s)
  PROVE  Rank(Places(c, s), i) = Rank(Places(d, s), i)
<1>1. Places(c, s) \cap (1 .. i) = Places(d, s) \cap (1 .. i)
  BY DEF Places, NotNewer
<1> QED
  BY <1>1 DEF Rank

LEMMA CachesStillTell ==
  ASSUME NEW s, CachesTell(s), NEW n \in Nat, n <= Len(chain),
         n <= Len(chain'), Len(chain) \in Nat, Len(chain') \in Nat,
         Reach \in Nat, Reach' \in Nat,
         \A j \in 1 .. n : NotNewer(chain[j], chain'[j], s),
         \A i \in 1 .. Reach' :
           \/ i <= n /\ i <= Reach
           \/ ~ Trusted(chain', s, i),
         last_delta_root'[s] = root_call_ordinal'[s] =>
           last_delta_root[s] = root_call_ordinal[s],
         reported'[s] = reported[s]
  PROVE  CachesTell(s)'
<1> SUFFICES ASSUME last_delta_root[s] = root_call_ordinal[s],
                    NEW i \in 1 .. Reach', Trusted(chain', s, i)
             PROVE  Told(chain', s, i, reported[s])
  BY DEF CachesTell
<1>1. i \in 1 .. n /\ i \in 1 .. Reach /\ i \in 0 .. n
  OBVIOUS
<1>2. NotNewer(chain[i], chain'[i], s)
  BY <1>1
<1>3. AllMatched(chain, s, i - 1)
  <2>1. \A j \in 1 .. i - 1 : j \in 1 .. n
    BY <1>1
  <2> QED
    BY <2>1 DEF Trusted, AllMatched, NotNewer
<1>4. Trusted(chain, s, i) /\ chain'[i].cache = chain[i].cache
  BY <1>2, <1>3 DEF Trusted, NotNewer
<1>5. Told(chain, s, i, reported[s])
  BY <1>1, <1>4 DEF CachesTell
<1>6. Rank(Places(chain, s), i) = Rank(Places(chain', s), i)
  BY <1>1, RanksOfNotNewer
<1> QED
  BY <1>4, <1>5, <1>6 DEF Told

(* An entry is put on top that saves the pointer. *)
LEMMA DeltasGrow ==
  ASSUME Inv, Inv', DeltaInv, InC, NEW n \in Nat,
         Len(chain) = n, Len(chain') = n + 1,
         \A i \in 1 .. n : chain'[i] = chain[i],
         chain'[n + 1].saved = call_ordinal_ptr,
         chain'[n + 1].kind = "frame" =>
           chain'[n + 1].place = "entry" /\ Behind(chain'[n + 1]),
         chain'[n + 1].kind = "scope" /\ chain'[n + 1].local =>
           \A i \in 1 .. Reach : ~ VisibleIn(chain[i], chain'[n + 1].space),
         call_ordinal_ptr'[1] # 0, callback_frame' = callback_frame,
         root_call_ordinal' = root_call_ordinal, UNCHANGED deltaVars,
         suspended' \subseteq suspended
  PROVE  DeltaInv'
<1> DEFINE e == chain'[n + 1]
<1>1. \A i \in 1 .. n + 1 : i \in 1 .. n \/ i = n + 1
  OBVIOUS
<1>2. /\ last_delta_root' = last_delta_root /\ reported' = reported
      /\ e.kind \in {"frame", "scope"}
  <2>1. e \in Entry
    <3>1. n + 1 \in 1 .. Len(chain')
      OBVIOUS
    <3> QED
      BY <3>1, ElementOfSeq DEF Inv, TypeOK
  <2> QED
    BY <2>1 DEF deltaVars, Entry
<1>3. /\ Reach \in 0 .. n /\ Reach' \in 0 .. n + 1
      /\ \A i \in 1 .. Reach' : i \in 1 .. Reach \/ i = n + 1
  <2>1. callback_frame \in 0 .. n
    BY DEF Inv, TypeOK
  <2> QED
    BY <2>1 DEF Reach
<1>4. CachesBehind'
  <2>1. Behind(e)
    BY <1>2 DEF Behind
  <2> QED
    BY <1>1, <2>1 DEF DeltaInv, CachesBehind
<1>5. BelowRuns'
  <2>1. \A i \in 1 .. n : chain[i].place = "running"
    <3>1. \A i \in 1 .. n : i \in 1 .. n - 1 \/ i = n
      OBVIOUS
    <3>2. n > 0 => chain[n].place = "running"
      BY DEF InC, Top
    <3> QED
      BY <3>1, <3>2 DEF DeltaInv, BelowRuns
  <2> QED
    BY <2>1 DEF BelowRuns
<1>6. RootIsBelow'
  <2>1. \A i \in 2 .. n + 1 : \/ i \in 2 .. n
                              \/ i = n + 1 /\ n # 0
    OBVIOUS
  <2>2. \A i \in 2 .. n : chain'[i] = chain[i]
    OBVIOUS
  <2> QED
    BY <2>1, <2>2 DEF DeltaInv, RootIsBelow
<1>7. LocalIsAlone'
  <2> SUFFICES ASSUME NEW j \in 1 .. n + 1, chain'[j].kind = "scope",
                      chain'[j].local, NEW i \in 1 .. Reach', i < j
               PROVE  ~ VisibleIn(chain'[i], chain'[j].space)
    BY DEF LocalIsAlone
  <2>1. i \in 1 .. n /\ i \in 1 .. Reach
    BY <1>3
  <2>2. CASE j = n + 1
    BY <2>1, <2>2
  <2>3. CASE j \in 1 .. n
    BY <2>1, <2>3 DEF DeltaInv, LocalIsAlone
  <2> QED
    BY <1>1, <2>2, <2>3
<1>8. ASSUME NEW s \in Spaces PROVE CachesTell(s)'
  <2>1. CachesTell(s)
    BY DEF DeltaInv
  <2>2. \A j \in 1 .. n : NotNewer(chain[j], chain'[j], s)
    BY DEF NotNewer
  <2>3. ~ Trusted(chain', s, n + 1)
    BY <1>2 DEF Trusted, VisibleIn
  <2>4. \A i \in 1 .. Reach' : \/ i <= n /\ i <= Reach
                               \/ ~ Trusted(chain', s, i)
    BY <1>3, <2>3
  <2> QED
    BY <1>2, <1>3, <2>1, <2>2, <2>4, CachesStillTell
<1> QED
  BY <1>2, <1>4, <1>5, <1>6, <1>7, <1>8 DEF DeltaInv

(* The entry on top leaves and its slot is put back. *)
LEMMA DeltasShrink ==
  ASSUME Inv, Inv', DeltaInv, NEW n \in Nat,
         Len(chain) = n + 1, Len(chain') = n,
         call_ordinal_ptr' = chain[n + 1].saved,
         \A i \in 1 .. n :
           /\ SameButOrdinal(chain[i], chain'[i])
           /\ chain'[i].kind = "frame" =>
                chain'[i].ordinal \in {chain[i].ordinal, chain[i].ordinal + 1},
         \A i \in 1 .. Reach' : i \in 1 .. Reach,
         \A s \in Spaces : \/ root_call_ordinal'[s] = root_call_ordinal[s]
                           \/ \A i \in 1 .. Reach' : ~ VisibleIn(chain'[i], s),
         UNCHANGED deltaVars,
         \A g \in suspended' :
           g \in suspended \/ (g.cache # NoDelta => g.cache[2] <= g.counter)
  PROVE  DeltaInv'
<1>1. last_delta_root' = last_delta_root /\ reported' = reported
  BY DEF deltaVars
<1>2. Reach \in 0 .. n + 1 /\ Reach' \in 0 .. n
  BY DEF Reach, Inv, TypeOK
<1>3. \A i \in 1 .. n : i \in 1 .. n + 1 /\ i \in 1 .. (n + 1) - 1
  OBVIOUS
<1>4. \A i \in 1 .. n :
        /\ chain[i] \in Entry /\ chain'[i] \in Entry /\ Behind(chain[i])
        /\ chain[i].place = "running"
  <2>1. BelowRuns /\ CachesBehind
    BY DEF DeltaInv
  <2>2. \A i \in 1 .. n : Behind(chain[i]) /\ chain[i].place = "running"
    BY <1>3, <2>1 DEF CachesBehind, BelowRuns
  <2>3. chain \in Seq(Entry) /\ chain' \in Seq(Entry)
    BY DEF Inv, TypeOK
  <2> QED
    BY <1>3, <2>2, <2>3, ElementOfSeq
<1>5. CachesBehind'
  <2>1. ASSUME NEW i \in 1 .. n PROVE Behind(chain'[i])
    <3>1. SameButOrdinal(chain[i], chain'[i])
      OBVIOUS
    <3>2. SUFFICES ASSUME chain'[i].kind = "frame", chain'[i].cache # NoDelta
                   PROVE  /\ chain'[i].cache[2] <= chain'[i].counter
                          /\ chain'[i].cache[2] = chain'[i].counter =>
                               chain'[i].cache[3] <= chain'[i].ordinal
      BY DEF Behind
    <3>3. /\ chain[i].ordinal \in Nat /\ chain[i].cache \in Spaces \X Nat \X Nat
          /\ chain'[i].ordinal \in {chain[i].ordinal, chain[i].ordinal + 1}
      BY <1>4, <3>1, <3>2 DEF Entry, Caches, SameButOrdinal
    <3>4. /\ chain[i].cache[2] <= chain[i].counter
          /\ chain[i].cache[2] = chain[i].counter =>
               chain[i].cache[3] <= chain[i].ordinal
      BY <1>4, <3>1, <3>2 DEF Behind, SameButOrdinal
    <3>5. chain[i].cache[3] \in Nat
      BY <3>3
    <3> QED
      BY <3>1, <3>3, <3>4, <3>5 DEF SameButOrdinal
  <2> QED
    BY <2>1 DEF DeltaInv, CachesBehind
<1>6. BelowRuns'
  <2>1. \A i \in 1 .. n - 1 : i \in 1 .. n
    OBVIOUS
  <2> QED
    BY <1>4, <2>1 DEF BelowRuns, SameButOrdinal
<1>7. RootIsBelow'
  <2>1. \A i \in 2 .. n : i \in 1 .. n /\ i \in 2 .. n + 1
    OBVIOUS
  <2>2. n # 0 => chain[n + 1].saved[1] # 0
    <3>1. n # 0 => n + 1 \in 2 .. Len(chain)
      OBVIOUS
    <3> QED
      BY <3>1 DEF DeltaInv, RootIsBelow
  <2> QED
    BY <2>1, <2>2 DEF DeltaInv, RootIsBelow, SameButOrdinal
<1>8. LocalIsAlone'
  <2> SUFFICES ASSUME NEW j \in 1 .. n, chain'[j].kind = "scope",
                      chain'[j].local, NEW i \in 1 .. Reach', i < j
               PROVE  ~ VisibleIn(chain'[i], chain'[j].space)
    BY DEF LocalIsAlone
  <2>1. i \in 1 .. n /\ i \in 1 .. Reach
    BY <1>2
  <2>2. ~ VisibleIn(chain[i], chain[j].space)
    BY <1>3, <2>1 DEF DeltaInv, LocalIsAlone, SameButOrdinal
  <2> QED
    BY <2>1, <2>2 DEF VisibleIn, SameButOrdinal
<1>9. ASSUME NEW s \in Spaces PROVE CachesTell(s)'
  <2>1. CASE \A i \in 1 .. Reach' : ~ VisibleIn(chain'[i], s)
    BY <2>1 DEF CachesTell, Trusted
  <2>2. CASE root_call_ordinal'[s] = root_call_ordinal[s]
    <3>1. CachesTell(s)
      BY DEF DeltaInv
    <3>2. ASSUME NEW j \in 1 .. n PROVE NotNewer(chain[j], chain'[j], s)
      <4>1. SameButOrdinal(chain[j], chain'[j])
        OBVIOUS
      <4>2. ASSUME VisibleIn(chain'[j], s), Matched(chain'[j], s)
            PROVE  Matched(chain[j], s)
        <5>1. /\ chain[j].kind = "frame" /\ chain'[j].kind = "frame"
              /\ Hit(chain[j], s) /\ chain[j].cache[3] = chain'[j].ordinal
          BY <4>1, <4>2 DEF VisibleIn, Matched, Hit, SameButOrdinal
        <5>2. chain[j].cache[3] <= chain[j].ordinal
          BY <1>4, <5>1 DEF Behind, Hit
        <5>3. /\ chain[j].ordinal \in Nat
              /\ chain'[j].ordinal \in {chain[j].ordinal, chain[j].ordinal + 1}
          BY <1>4, <5>1 DEF Entry
        <5> QED
          BY <5>1, <5>2, <5>3 DEF Matched
      <4> QED
        BY <4>1, <4>2 DEF NotNewer, SameButOrdinal, VisibleIn, Hit
    <3>3. \A i \in 1 .. Reach' : i <= n /\ i <= Reach
      BY <1>2
    <3> QED
      BY <1>1, <1>2, <2>2, <3>1, <3>2, <3>3, CachesStillTell
  <2> QED
    BY <2>1, <2>2
<1> QED
  BY <1>1, <1>5, <1>6, <1>7, <1>8, <1>9 DEF DeltaInv

(* The frame on top starts an instruction, and a callback may enter its    *)
(* scope before it runs.                                                   *)
LEMMA DeltasMove ==
  ASSUME Inv, Inv', DeltaInv, NEW m \in Nat, Len(chain) = m + 1,
         \A i \in 1 .. m : chain'[i] = chain[i],
         chain[m + 1].kind = "frame", chain'[m + 1].kind = "frame",
         chain'[m + 1].counter = chain[m + 1].counter + 1,
         chain'[m + 1].place = "running",
         chain'[m + 1].cache = chain[m + 1].cache,
         chain'[m + 1].saved = chain[m + 1].saved,
         \/ /\ Len(chain') = m + 1 /\ callback_frame' = callback_frame
            /\ call_ordinal_ptr' = call_ordinal_ptr
         \/ /\ Len(chain') = m + 2 /\ chain'[m + 2].kind = "scope"
            /\ callback_frame = 0 /\ callback_frame' = m + 1
            /\ chain'[m + 2].saved = call_ordinal_ptr
            /\ chain'[m + 2].local => \A i \in 1 .. m + 1 :
                 ~ VisibleIn(chain'[i], chain'[m + 2].space)
            /\ call_ordinal_ptr'[1] # 0,
         root_call_ordinal' = root_call_ordinal, UNCHANGED deltaVars,
         suspended' = suspended
  PROVE  DeltaInv'
<1>1. last_delta_root' = last_delta_root /\ reported' = reported
  BY DEF deltaVars
<1>2. /\ Len(chain') \in Nat /\ m + 1 <= Len(chain')
      /\ \A i \in 1 .. Len(chain') :
           \/ i \in 1 .. m
           \/ i = m + 1
           \/ i = m + 2 /\ chain'[i].kind = "scope"
  <2>1. PICK l \in Nat : l = Len(chain') /\ l \in {m + 1, m + 2}
    OBVIOUS
  <2>2. l = m + 2 => chain'[m + 2].kind = "scope"
    <3>1. m + 1 # m + 2
      OBVIOUS
    <3> QED
      BY <2>1, <3>1
  <2>3. /\ m + 1 <= l
        /\ \A i \in 1 .. l : \/ i \in 1 .. m
                             \/ i = m + 1
                             \/ i = m + 2 /\ l = m + 2
    BY <2>1
  <2> QED
    BY <2>1, <2>2, <2>3
<1>3. Reach \in 0 .. m + 1 /\ Reach' = Reach
  <2>1. callback_frame \in 0 .. m + 1
    BY DEF Inv, TypeOK
  <2> QED
    BY <2>1 DEF Reach
<1>4. /\ chain[m + 1] \in Entry /\ Behind(chain[m + 1])
      /\ m + 1 \in 1 .. Len(chain)
  <2>1. m + 1 \in 1 .. Len(chain)
    OBVIOUS
  <2> QED
    BY <2>1, ElementOfSeq DEF Inv, TypeOK, DeltaInv, CachesBehind
<1>5. \A s : ~ Hit(chain'[m + 1], s) /\ Behind(chain'[m + 1])
  <2>1. CASE chain[m + 1].cache = NoDelta
    BY <2>1 DEF Hit, Behind
  <2>2. CASE chain[m + 1].cache # NoDelta
    <3>1. /\ chain[m + 1].cache \in Spaces \X Nat \X Nat
          /\ chain[m + 1].counter \in Nat
      BY <1>4, <2>2 DEF Entry, Caches
    <3>2. chain[m + 1].cache[2] <= chain[m + 1].counter
      BY <1>4, <2>2 DEF Behind
    <3>3. chain[m + 1].cache[2] \in Nat
      BY <3>1
    <3> QED
      BY <3>1, <3>2, <3>3 DEF Hit, Behind
  <2> QED
    BY <2>1, <2>2
<1>6. CachesBehind'
  <2>1. ASSUME NEW i \in 1 .. Len(chain') PROVE Behind(chain'[i])
    <3>1. CASE i \in 1 .. m
      BY <3>1 DEF DeltaInv, CachesBehind
    <3>2. CASE i = m + 1
      BY <1>5, <3>2
    <3>3. CASE chain'[i].kind = "scope"
      BY <3>3 DEF Behind
    <3> QED
      BY <1>2, <3>1, <3>2, <3>3
  <2> QED
    BY <2>1 DEF DeltaInv, CachesBehind
<1>7. BelowRuns'
  <2>1. \A i \in 1 .. m : i \in 1 .. Len(chain) - 1
    OBVIOUS
  <2>2. \A i \in 1 .. Len(chain') - 1 : i \in 1 .. m \/ i = m + 1
    OBVIOUS
  <2> QED
    BY <2>1, <2>2 DEF DeltaInv, BelowRuns
<1>8. RootIsBelow'
  <2>1. call_ordinal_ptr[1] # 0
    BY DEF DeltaInv, RootIsBelow
  <2>2. ASSUME NEW i \in 2 .. Len(chain') PROVE chain'[i].saved[1] # 0
    <3>1. i \in 1 .. Len(chain') /\ (i \in 1 .. m + 1 => i \in 2 .. Len(chain))
      OBVIOUS
    <3>2. CASE i \in 1 .. m + 1
      <4>1. i \in 1 .. m \/ i = m + 1
        BY <3>2
      <4>2. chain'[i].saved = chain[i].saved
        BY <4>1
      <4> QED
        BY <3>1, <3>2, <4>2 DEF DeltaInv, RootIsBelow
    <3>3. CASE i \notin 1 .. m + 1
      <4>1. i = m + 2 /\ chain'[i].saved = call_ordinal_ptr
        BY <1>2, <3>3
      <4> QED
        BY <2>1, <4>1
    <3> QED
      BY <3>2, <3>3
  <2>3. call_ordinal_ptr'[1] # 0
    BY <2>1
  <2> QED
    BY <2>2, <2>3 DEF RootIsBelow
<1>9. LocalIsAlone'
  <2> SUFFICES ASSUME NEW j \in 1 .. Len(chain'), chain'[j].kind = "scope",
                      chain'[j].local, NEW i \in 1 .. Reach', i < j
               PROVE  ~ VisibleIn(chain'[i], chain'[j].space)
    BY DEF LocalIsAlone
  <2>1. i \in 1 .. m + 1 /\ i \in 1 .. Reach
    BY <1>3
  <2>2. CASE j = m + 2
    BY <2>1, <2>2
  <2>3. CASE j \in 1 .. m
    <3>1. i \in 1 .. m /\ j \in 1 .. Len(chain)
      BY <2>1, <2>3
    <3> QED
      BY <2>1, <2>3, <3>1 DEF DeltaInv, LocalIsAlone
  <2> QED
    BY <1>2, <2>2, <2>3
<1>10. ASSUME NEW s \in Spaces PROVE CachesTell(s)'
  <2>1. CachesTell(s)
    BY DEF DeltaInv
  <2>2. \A j \in 1 .. m : NotNewer(chain[j], chain'[j], s)
    BY DEF NotNewer
  <2>3. ~ Trusted(chain', s, m + 1)
    BY <1>5 DEF Trusted
  <2>4. \A i \in 1 .. Reach' : \/ i <= m /\ i <= Reach
                               \/ ~ Trusted(chain', s, i)
    <3>1. \A i \in 1 .. Reach' : \/ i <= m /\ i <= Reach
                                 \/ i = m + 1
      BY <1>3
    <3> QED
      BY <2>3, <3>1
  <2>5. m <= Len(chain) /\ m <= Len(chain') /\ Reach \in Nat /\ Reach' \in Nat
    BY <1>2, <1>3
  <2>6. Len(chain) \in Nat
    OBVIOUS
  <2>7. last_delta_root'[s] = root_call_ordinal'[s] =>
          last_delta_root[s] = root_call_ordinal[s]
    BY <1>1
  <2>8. reported'[s] = reported[s]
    BY <1>1
  <2> QED
    BY <1>2, <2>1, <2>2, <2>4, <2>5, <2>6, <2>7, <2>8, CachesStillTell
<1> QED
  BY <1>1, <1>6, <1>7, <1>8, <1>9, <1>10 DEF DeltaInv

(* The words of the chain up to a frame that a query reads at *)
LEMMA WordsUpTo ==
  ASSUME Inv, NEW s, NEW n \in Nat, n <= Len(chain), NEW i \in 1 .. n,
         VisibleIn(chain[i], s)
  PROVE  LET r == Rank(Places(chain, s), i)
             c == UpTo(n)
         IN /\ r = Rank(Places(c, s), i) /\ i \in Places(c, s)
            /\ c \in Seq(Entry) /\ c[i] = chain[i]
            /\ r \in Nat /\ r > 0 /\ 2 * r <= Len(Words(c, s))
            /\ Words(c, s)[2 * r - 1] = chain[i].counter
            /\ Words(c, s)[2 * r] = chain[i].ordinal
<1>1. chain \in Seq(Entry) /\ n \in 0 .. Len(chain)
  BY LenProperties DEF Inv, TypeOK
<1>2. PICK c \in Seq(Entry) : /\ c = UpTo(n) /\ Len(c) = n
                              /\ \A j \in 1 .. n : c[j] = chain[j]
  BY <1>1, OldestEntries DEF UpTo
<1>3. Matches(chain, c, s, n)
  BY <1>2 DEF Matches
<1>4. i \in 0 .. n /\ i \in Places(c, s) /\ n <= Len(c)
  BY <1>2 DEF Places
<1>5. Rank(Places(chain, s), i) = Rank(Places(c, s), i)
  BY <1>1, <1>3, <1>4, RanksOfMatching
<1>6. PICK r \in Nat : r = Rank(Places(c, s), i)
  BY <1>4, WordsOfFrame
<1>7. /\ r > 0 /\ r <= Rank(Places(c, s), Len(c))
      /\ Words(c, s)[2 * r - 1] = chain[i].counter
      /\ Words(c, s)[2 * r] = chain[i].ordinal
  BY <1>2, <1>4, <1>6, WordsOfFrame
<1>8. 2 * r <= Len(Words(c, s))
  <2>1. Rank(Places(c, s), Len(c)) \in Nat
    BY <1>2, RankIsNatural
  <2> QED
    BY <1>7, <2>1, WordsOfChain
<1> QED
  BY <1>2, <1>4, <1>5, <1>6, <1>7, <1>8

(* thread_delta() makes the caches tell what it reports. *)
LEMMA DeltasTell ==
  ASSUME Inv, Inv', DeltaInv, NEW t \in Spaces, ThreadDelta(t)
  PROVE  DeltaInv'
<1>1. PICK n \in Nat :
        /\ Len(chain) = n /\ Len(chain') = n
        /\ \A i \in 1 .. n :
             /\ chain'[i].kind = chain[i].kind
             /\ chain'[i].space = chain[i].space
             /\ chain'[i].counter = chain[i].counter
             /\ chain'[i].ordinal = chain[i].ordinal
             /\ chain'[i].saved = chain[i].saved
             /\ chain'[i].outer = chain[i].outer
             /\ chain'[i].local = chain[i].local
             /\ chain'[i].place = chain[i].place
             /\ IF i <= ThreadStateFrame(t) /\ VisibleIn(chain[i], t)
                  THEN chain'[i].cache =
                         <<t, chain[i].counter, chain[i].ordinal>>
                  ELSE chain'[i].cache = chain[i].cache
  BY DeltaStays
<1>2. /\ root_call_ordinal' = root_call_ordinal
      /\ call_ordinal_ptr' = call_ordinal_ptr
      /\ callback_frame' = callback_frame /\ suspended' = suspended
      /\ last_delta_root' =
           [last_delta_root EXCEPT ![t] = root_call_ordinal[t]]
      /\ reported' = [reported EXCEPT ![t] = Words(Entries(t), t)]
  BY DEF ThreadDelta, Remember, threadVars
<1>3. /\ Reach \in 0 .. n /\ Reach' = Reach
      /\ ThreadStateFrame(t) \in 0 .. n /\ Reach <= ThreadStateFrame(t)
  <2>1. callback_frame \in 0 .. n
    BY <1>1 DEF Inv, TypeOK
  <2> QED
    BY <1>1, <1>2, <2>1 DEF Reach, ThreadStateFrame
<1>4. Words(Entries(t), t) \in Seq(Nat)
  <2>1. Entries(t) \in Seq(Entry)
    BY <1>1, <1>3, OldestEntries DEF Entries, UpTo, Inv, TypeOK
  <2> QED
    BY <2>1, WordsOfChain
<1>5. reported' \in [Spaces -> Seq(Nat)]
  BY <1>2, <1>4 DEF DeltaInv
<1>6. CachesBehind'
  <2>1. ASSUME NEW i \in 1 .. n PROVE Behind(chain'[i])
    <3>1. CASE i <= ThreadStateFrame(t) /\ VisibleIn(chain[i], t)
      <4>1. chain[i] \in Entry
        BY <1>1, ElementOfSeq DEF Inv, TypeOK
      <4>2. chain[i].counter \in Nat /\ chain[i].ordinal \in Nat
        BY <4>1 DEF Entry
      <4> QED
        BY <1>1, <3>1, <4>2 DEF Behind
    <3>2. CASE ~ (i <= ThreadStateFrame(t) /\ VisibleIn(chain[i], t))
      <4>1. Behind(chain[i])
        BY <1>1 DEF DeltaInv, CachesBehind
      <4> QED
        BY <1>1, <3>2, <4>1 DEF Behind
    <3> QED
      BY <3>1, <3>2
  <2> QED
    BY <1>1, <1>2, <2>1 DEF DeltaInv, CachesBehind
<1>7. BelowRuns'
  <2>1. \A i \in 1 .. n - 1 : i \in 1 .. n
    OBVIOUS
  <2> QED
    BY <1>1, <2>1 DEF DeltaInv, BelowRuns
<1>8. RootIsBelow'
  <2>1. \A i \in 2 .. n : i \in 1 .. n
    OBVIOUS
  <2> QED
    BY <1>1, <1>2, <2>1 DEF DeltaInv, RootIsBelow
<1>9. LocalIsAlone'
  <2> SUFFICES ASSUME NEW j \in 1 .. n, chain[j].kind = "scope", chain[j].local,
                      NEW i \in 1 .. n, i \in 1 .. Reach, i < j
               PROVE  ~ VisibleIn(chain'[i], chain'[j].space)
    BY <1>1, <1>3 DEF LocalIsAlone
  <2>1. ~ VisibleIn(chain[i], chain[j].space)
    BY <1>1 DEF DeltaInv, LocalIsAlone
  <2>2. /\ chain'[i].kind = chain[i].kind /\ chain'[i].space = chain[i].space
        /\ chain'[i].counter = chain[i].counter
        /\ chain'[j].space = chain[j].space
    BY <1>1
  <2> QED
    BY <2>1, <2>2 DEF VisibleIn
<1>10. CachesTell(t)'
  <2> SUFFICES ASSUME NEW i \in 1 .. Reach', VisibleIn(chain'[i], t)
               PROVE  Told(chain', t, i, Words(Entries(t), t))
    BY <1>2 DEF CachesTell, Trusted, DeltaInv
  <2>1. i \in 1 .. ThreadStateFrame(t) /\ i \in 1 .. n /\ i \in 0 .. n
    BY <1>3
  <2>2. VisibleIn(chain[i], t)
    BY <1>1, <2>1 DEF VisibleIn
  <2>3. chain'[i].cache = <<t, chain[i].counter, chain[i].ordinal>>
    BY <1>1, <2>1, <2>2
  <2>4. PICK r : /\ r = Rank(Places(chain, t), i)
                 /\ 2 * r <= Len(Words(Entries(t), t))
                 /\ Words(Entries(t), t)[2 * r - 1] = chain[i].counter
                 /\ Words(Entries(t), t)[2 * r] = chain[i].ordinal
    <3>1. ThreadStateFrame(t) \in Nat /\ ThreadStateFrame(t) <= Len(chain)
      BY <1>1, <1>3
    <3> QED
      BY <2>1, <2>2, <3>1, WordsUpTo DEF Entries
  <2>5. Rank(Places(chain', t), i) = r
    <3>1. Matches(chain, chain', t, n)
      BY <1>1 DEF Matches, VisibleIn
    <3>2. /\ n <= Len(chain) /\ n <= Len(chain')
          /\ chain \in Seq(Entry) /\ chain' \in Seq(Entry)
      BY <1>1 DEF Inv, TypeOK
    <3> QED
      BY <2>1, <2>4, <3>1, <3>2, RanksOfMatching
  <2> QED
    BY <2>3, <2>4, <2>5 DEF Told
<1>11. ASSUME NEW s \in Spaces, s # t PROVE CachesTell(s)'
  <2>1. CachesTell(s)
    BY DEF DeltaInv
  <2>2. \A j \in 1 .. n : NotNewer(chain[j], chain'[j], s)
    BY <1>1, <1>11 DEF NotNewer, VisibleIn, Hit, Matched
  <2>3. \A i \in 1 .. Reach' : i <= n /\ i <= Reach
    BY <1>3
  <2>4. /\ last_delta_root'[s] = last_delta_root[s]
        /\ reported'[s] = reported[s]
    BY <1>2, <1>11 DEF Inv, TypeOK
  <2>5. n <= Len(chain) /\ n <= Len(chain') /\ Reach \in Nat /\ Reach' \in Nat
    BY <1>1, <1>3
  <2> QED
    BY <1>1, <1>2, <2>1, <2>2, <2>3, <2>4, <2>5, CachesStillTell
<1> QED
  BY <1>5, <1>6, <1>7, <1>8, <1>9, <1>10, <1>11 DEF DeltaInv

LEMMA ActivateTells ==
  ASSUME Inv, Inv', DeltaInv, NEW k \in Nat, NEW cache \in Caches,
         cache # NoDelta => cache[2] <= k, ActivateFrame(Frame(k, cache)),
         suspended' \subseteq suspended
  PROVE  DeltaInv'
<1>1. PICK n \in Nat, f \in Entry :
        /\ Len(chain) = n /\ Len(chain') = n + 1
        /\ \A i \in 1 .. n : chain'[i] = chain[i]
        /\ chain'[n + 1] = f
        /\ f.kind = "frame" /\ f.counter = k /\ f.saved = call_ordinal_ptr
        /\ f.place = "entry" /\ f.cache = cache
  <2>1. \E n \in Nat, f \in Entry :
          /\ Len(chain) = n /\ Len(chain') = n + 1
          /\ f = Frame(k, cache)
          /\ \A i \in 1 .. n : chain'[i] = chain[i]
          /\ chain'[n + 1] = f
          /\ f.kind = "frame" /\ f.space = current_space /\ f.counter = k
          /\ f.ordinal = 0 /\ f.saved = call_ordinal_ptr
          /\ f.outer = current_space /\ f.place = "entry" /\ f.cache = cache
          /\ ~ f.local
    BY ActivateGrows
  <2> QED
    BY <2>1
<1>2. /\ InC /\ callback_frame' = callback_frame
      /\ root_call_ordinal' = root_call_ordinal /\ UNCHANGED deltaVars
      /\ call_ordinal_ptr'[1] = n + 1
  BY <1>1 DEF ActivateFrame
<1>3. Behind(chain'[n + 1])
  BY <1>1 DEF Behind
<1>4. call_ordinal_ptr'[1] # 0
  BY <1>2
<1> QED
  BY <1>1, <1>2, <1>3, <1>4, DeltasGrow

LEMMA DeactivateTells ==
  ASSUME Inv, Inv', ParentInv, DeltaInv, OnTop("frame"), DeactivateFrame,
         \A g \in suspended' :
           g \in suspended \/ (g.cache # NoDelta => g.cache[2] <= g.counter)
  PROVE  DeltaInv'
<1>1. PICK n \in Nat, k \in Nat :
        /\ Len(chain) = n + 1 /\ Len(chain') = n /\ k <= n
        /\ chain[n + 1] = Top
        /\ k = Top.saved[1]
        /\ call_ordinal_ptr' = Top.saved
        /\ \A i \in 1 .. n : i # k => chain'[i] = chain[i]
        /\ k # 0 => /\ SameButOrdinal(chain[k], chain'[k])
                    /\ chain'[k].ordinal = chain[k].ordinal + 1
                    /\ root_call_ordinal' = root_call_ordinal
  <2>1. \E n \in Nat, k \in Nat :
          /\ Len(chain) = n + 1 /\ Len(chain') = n /\ k <= n
          /\ chain[n + 1] = Top /\ Top \in Entry
          /\ k = Top.saved[1]
          /\ Top.space = current_space /\ Top.outer = current_space
          /\ call_ordinal_ptr = <<n + 1, current_space>>
          /\ call_ordinal_ptr' = Top.saved
          /\ \A i \in 1 .. n : i # k => chain'[i] = chain[i]
          /\ k # 0 => /\ chain[k].space = current_space
                      /\ SameButOrdinal(chain[k], chain'[k])
                      /\ chain'[k].ordinal = chain[k].ordinal + 1
                      /\ root_call_ordinal' = root_call_ordinal
          /\ k = 0 => root_call_ordinal' =
               [root_call_ordinal EXCEPT ![current_space] = @ + 1]
    BY DeactivateShrinks
  <2> QED
    BY <2>1
<1>2. callback_frame' = callback_frame /\ UNCHANGED deltaVars
  BY DEF DeactivateFrame
<1>3. \A i \in 1 .. n :
        /\ SameButOrdinal(chain[i], chain'[i])
        /\ chain'[i].ordinal \in {chain[i].ordinal, chain[i].ordinal + 1}
  <2> SUFFICES ASSUME NEW i \in 1 .. n
               PROVE  /\ SameButOrdinal(chain[i], chain'[i])
                      /\ \/ chain'[i].ordinal = chain[i].ordinal
                         \/ chain'[i].ordinal = chain[i].ordinal + 1
    OBVIOUS
  <2>1. CASE i = k
    <3>1. k # 0
      BY <2>1
    <3> QED
      BY <1>1, <2>1, <3>1
  <2>2. CASE i # k
    <3>1. chain'[i] = chain[i]
      BY <1>1, <2>2
    <3> QED
      BY <3>1 DEF SameButOrdinal
  <2> QED
    BY <2>1, <2>2
<1>4. \A i \in 1 .. Reach' : i \in 1 .. n /\ i \in 1 .. Reach
  <2>1. callback_frame' \in 0 .. n
    BY <1>1 DEF Inv, TypeOK
  <2> QED
    BY <1>1, <1>2, <2>1 DEF Reach
<1>5. k = 0 => n = 0
  <2>1. n # 0 => n + 1 \in 2 .. Len(chain)
    BY <1>1
  <2> QED
    BY <1>1, <2>1 DEF DeltaInv, RootIsBelow
<1>6. \A s \in Spaces : \/ root_call_ordinal'[s] = root_call_ordinal[s]
                        \/ \A i \in 1 .. Reach' : ~ VisibleIn(chain'[i], s)
  BY <1>1, <1>4, <1>5
<1>7. \A i \in 1 .. Reach' : i \in 1 .. Reach
  BY <1>4
<1> QED
  BY <1>1, <1>2, <1>3, <1>6, <1>7, DeltasShrink

LEMMA StepTells ==
  ASSUME Inv, Inv', ParentInv, DeltaInv, Step
  PROVE  DeltaInv'
<1>1. /\ OnTop("frame") /\ chain' = AtInstruction
      /\ call_ordinal_ptr' = call_ordinal_ptr
      /\ callback_frame' = callback_frame
      /\ root_call_ordinal' = root_call_ordinal
      /\ UNCHANGED deltaVars /\ suspended' = suspended
  BY DEF Step, BeginInstruction
<1>2. PICK m \in Nat :
        /\ Len(chain) = m + 1 /\ Len(chain') = m + 1
        /\ chain[m + 1].kind = "frame"
        /\ \A i \in 1 .. m : chain'[i] = chain[i]
        /\ chain'[m + 1].kind = "frame"
        /\ chain'[m + 1].counter = chain[m + 1].counter + 1
        /\ chain'[m + 1].place = "running"
        /\ chain'[m + 1].cache = chain[m + 1].cache
        /\ chain'[m + 1].saved = chain[m + 1].saved
  BY <1>1, InstructionMoves
<1> QED
  BY <1>1, <1>2, DeltasMove

LEMMA EnterCallbackTells ==
  ASSUME Inv, Inv', ParentInv, DeltaInv, EnterCallback
  PROVE  DeltaInv'
<1>1. /\ OnTop("frame") /\ DisabledSpace \in Spaces /\ callback_frame = 0
      /\ root_call_ordinal' = root_call_ordinal
      /\ UNCHANGED deltaVars /\ suspended' = suspended
  BY CoordinatesAssumption DEF EnterCallback, BeginInstruction
<1>2. PICK m \in Nat, c \in Seq(Entry) :
        /\ Len(chain) = m + 1 /\ c = AtInstruction /\ Len(c) = m + 1
        /\ chain[m + 1].kind = "frame"
        /\ \A i \in 1 .. m : c[i] = chain[i]
        /\ c[m + 1].kind = "frame"
        /\ c[m + 1].counter = chain[m + 1].counter + 1
        /\ c[m + 1].place = "running"
        /\ c[m + 1].cache = chain[m + 1].cache
        /\ c[m + 1].saved = chain[m + 1].saved
  BY <1>1, InstructionMoves
<1>3. PICK n \in Nat : n = m + 1 /\ n \in 0 .. n
  OBVIOUS
<1>4. EnterSpace(DisabledSpace, c, n) /\ callback_frame' = n
  BY <1>2, <1>3 DEF EnterCallback
<1>5. PICK parent : parent = NearestIn(c, n, DisabledSpace)
  OBVIOUS
<1>6. /\ Len(chain') = n + 1
      /\ \A i \in 1 .. n : chain'[i] = c[i]
      /\ chain'[n + 1].kind = "scope" /\ chain'[n + 1].space = DisabledSpace
      /\ chain'[n + 1].saved = call_ordinal_ptr
      /\ chain'[n + 1].local = (parent = 0)
      /\ call_ordinal_ptr' =
           <<IF parent = 0 THEN n + 1 ELSE parent, DisabledSpace>>
  BY <1>1, <1>2, <1>3, <1>4, <1>5, EnterGrows
<1>7. \A i \in 1 .. n : VisibleIn(chain'[i], DisabledSpace) => parent # 0
  <2>1. \A i \in 1 .. n : VisibleIn(c[i], DisabledSpace) => parent >= i
    BY <1>5, NearestIsFrame
  <2>2. parent \in 0 .. n
    BY <1>5, NearestIsFrame
  <2> QED
    BY <1>6, <2>1, <2>2
<1>8. /\ Len(chain') = m + 2 /\ chain'[m + 2].kind = "scope"
      /\ chain'[m + 2].saved = call_ordinal_ptr /\ callback_frame' = m + 1
      /\ chain'[m + 2].local => \A i \in 1 .. m + 1 :
           ~ VisibleIn(chain'[i], chain'[m + 2].space)
  <2>1. m + 2 = n + 1
    BY <1>3
  <2> QED
    BY <1>3, <1>4, <1>6, <1>7, <2>1
<1>9. call_ordinal_ptr'[1] # 0
  BY <1>6
<1>10. (\A i \in 1 .. m : chain'[i] = chain[i]) /\ chain'[m + 1] = c[m + 1]
  <2>1. (\A i \in 1 .. m : i \in 1 .. n) /\ m + 1 \in 1 .. n
    BY <1>3
  <2> QED
    BY <1>2, <1>6, <2>1
<1>11. /\ chain'[m + 1].kind = "frame"
       /\ chain'[m + 1].counter = chain[m + 1].counter + 1
       /\ chain'[m + 1].place = "running"
       /\ chain'[m + 1].cache = chain[m + 1].cache
       /\ chain'[m + 1].saved = chain[m + 1].saved
  BY <1>2, <1>10
<1> QED
  BY <1>1, <1>2, <1>8, <1>9, <1>10, <1>11, DeltasMove

LEMMA RunInSpaceTells ==
  ASSUME Inv, Inv', DeltaInv, NEW s \in Spaces, RunInSpace(s)
  PROVE  DeltaInv'
<1>1. /\ InC /\ callback_frame' = callback_frame
      /\ root_call_ordinal' = root_call_ordinal
      /\ UNCHANGED deltaVars /\ suspended' = suspended
  BY DEF RunInSpace
<1>2. PICK n \in Nat : n = Len(chain)
  BY LenProperties DEF Inv, TypeOK
<1>3. PICK f \in 0 .. n : f = CurrentThreadFrame /\ Reach \in 0 .. f
  <2>1. callback_frame \in 0 .. n
    BY <1>2 DEF Inv, TypeOK
  <2> QED
    BY <1>2, <2>1 DEF CurrentThreadFrame, Reach
<1>4. EnterSpace(s, chain, f) /\ chain \in Seq(Entry)
  BY <1>3 DEF RunInSpace, Inv, TypeOK
<1>5. PICK parent : parent = NearestIn(chain, f, s)
  OBVIOUS
<1>6. /\ Len(chain') = n + 1
      /\ \A i \in 1 .. n : chain'[i] = chain[i]
      /\ chain'[n + 1].kind = "scope" /\ chain'[n + 1].space = s
      /\ chain'[n + 1].saved = call_ordinal_ptr
      /\ chain'[n + 1].local = (parent = 0)
      /\ call_ordinal_ptr' = <<IF parent = 0 THEN n + 1 ELSE parent, s>>
  BY <1>2, <1>3, <1>4, <1>5, EnterGrows
<1>7. parent = 0 => \A i \in 1 .. Reach : ~ VisibleIn(chain[i], s)
  <2>1. \A i \in 1 .. f : VisibleIn(chain[i], s) => parent >= i
    BY <1>3, <1>5, NearestIsFrame
  <2>2. \A i \in 1 .. Reach : i \in 1 .. f
    BY <1>3
  <2> QED
    BY <2>1, <2>2
<1>8. call_ordinal_ptr'[1] # 0
  BY <1>6
<1> QED
  BY <1>1, <1>2, <1>6, <1>7, <1>8, DeltasGrow

LEMMA LeaveSpaceTells ==
  ASSUME Inv, Inv', DeltaInv, LeaveSpace
  PROVE  DeltaInv'
<1>1. PICK n \in Nat :
        /\ Len(chain) = n + 1 /\ Len(chain') = n
        /\ chain[n + 1] = Top /\ Top.kind = "scope"
        /\ \A i \in 1 .. n : chain'[i] = chain[i]
        /\ call_ordinal_ptr' = Top.saved
        /\ \A s \in Spaces \ {Top.space} :
             root_call_ordinal'[s] = root_call_ordinal[s]
  BY LeaveShrinks
<1>2. /\ UNCHANGED deltaVars /\ suspended' = suspended
      /\ callback_frame' = PinAfter
      /\ ~ Top.local => root_call_ordinal' = root_call_ordinal
  BY DEF LeaveSpace
<1>3. \A i \in 1 .. n :
        /\ SameButOrdinal(chain[i], chain'[i])
        /\ chain'[i].ordinal = chain[i].ordinal
  BY <1>1 DEF SameButOrdinal
<1>4. \A i \in 1 .. Reach' : i \in 1 .. n /\ i \in 1 .. Reach
  <2>1. callback_frame \in 0 .. n + 1 /\ callback_frame' \in 0 .. n
    BY <1>1 DEF Inv, TypeOK
  <2> QED
    BY <1>1, <1>2, <2>1 DEF Reach, PinAfter
<1>5. \A s \in Spaces : \/ root_call_ordinal'[s] = root_call_ordinal[s]
                        \/ \A i \in 1 .. Reach' : ~ VisibleIn(chain'[i], s)
  <2> SUFFICES ASSUME Top.local, NEW i \in 1 .. Reach'
               PROVE  ~ VisibleIn(chain'[i], Top.space)
    BY <1>1, <1>2
  <2>1. n + 1 \in 1 .. Len(chain) /\ i \in 1 .. Reach /\ i < n + 1
    BY <1>1, <1>4
  <2>2. ~ VisibleIn(chain[i], Top.space)
    BY <1>1, <2>1 DEF DeltaInv, LocalIsAlone
  <2> QED
    BY <1>1, <1>4, <2>2
<1>6. \A i \in 1 .. Reach' : i \in 1 .. Reach
  BY <1>4
<1> QED
  BY <1>1, <1>2, <1>3, <1>5, <1>6, DeltasShrink

LEMMA InitHasDeltas == Init => DeltaInv
<1> SUFFICES ASSUME Init PROVE DeltaInv
  OBVIOUS
<1>1. Len(chain) = 0 /\ callback_frame = 0 /\ suspended = {}
  BY DEF Init
<1>2. reported \in [Spaces -> Seq(Nat)]
  BY EmptySeq DEF Init
<1>3. Reach = 0
  BY <1>1 DEF Reach
<1> QED
  BY <1>1, <1>2, <1>3 DEF DeltaInv, CachesBehind, BelowRuns, RootIsBelow,
                          LocalIsAlone, CachesTell

LEMMA NextKeepsDeltas ==
  ASSUME Inv, Inv', ParentInv, DeltaInv, [Next]_vars
  PROVE  DeltaInv'
<1>1. ASSUME NEW k \in Nat, NEW cache \in Caches,
             cache # NoDelta => cache[2] <= k, suspended' \subseteq suspended,
             ActivateFrame(Frame(k, cache))
      PROVE  DeltaInv'
  BY <1>1, ActivateTells
<1>2. NoDelta \in Caches
  BY DEF Caches
<1>3. CASE Call
  BY <1>1, <1>2, <1>3 DEF Call
<1>4. ASSUME NEW g \in suspended, ResumeGenerator(g) PROVE DeltaInv'
  <2>1. g.counter \in Nat /\ g.cache \in Caches
    BY DEF Inv, TypeOK, Suspended
  <2>2. g.cache # NoDelta => g.cache[2] <= g.counter
    BY DEF DeltaInv, CachesBehind
  <2>3. suspended' \subseteq suspended
    BY <1>4 DEF ResumeGenerator
  <2> QED
    BY <1>1, <1>2, <1>4, <2>1, <2>2, <2>3 DEF ResumeGenerator
<1>5. CASE LeaveFrame
  BY <1>5, DeactivateTells DEF LeaveFrame
<1>6. CASE Yield
  <2>1. /\ OnTop("frame") /\ DeactivateFrame
        /\ suspended' = suspended \cup
             {[counter |-> Top.counter, cache |-> Top.cache]}
    BY <1>6 DEF Yield, Suspend
  <2>2. Behind(Top) /\ Top.kind = "frame"
    <3>1. Len(chain) \in 1 .. Len(chain)
      BY <2>1, TopLeaves DEF OnTop
    <3> QED
      BY <2>1, <3>1 DEF DeltaInv, CachesBehind, Top, OnTop
  <2> QED
    BY <2>1, <2>2, DeactivateTells DEF Behind
<1>7. CASE CreateGenerator
  BY <1>7, DeactivateTells DEF CreateGenerator, Suspend
<1>8. CASE Step
  BY <1>8, StepTells
<1>9. ASSUME NEW s \in Spaces, RunInSpace(s) PROVE DeltaInv'
  BY <1>9, RunInSpaceTells
<1>10. CASE EnterCallback
  BY <1>10, EnterCallbackTells
<1>11. CASE LeaveSpace
  BY <1>11, LeaveSpaceTells
<1>12. ASSUME NEW s \in Spaces, ThreadDelta(s) PROVE DeltaInv'
  BY <1>12, DeltasTell
<1>13. CASE UNCHANGED vars
  BY <1>13 DEF DeltaInv, CachesBehind, BelowRuns, RootIsBelow, LocalIsAlone,
               CachesTell, Reach, vars, deltaVars, threadVars
<1> QED
  BY <1>3, <1>4, <1>5, <1>6, <1>7, <1>8, <1>9, <1>10, <1>11, <1>12, <1>13
     DEF Next

(* A word that is reported as unchanged is one that was reported.          *)
LEMMA UnchangedWord ==
  ASSUME Inv, DeltaInv, InC, NEW s \in Spaces, ReadInFull(s),
         last_delta_root[s] = root_call_ordinal[s],
         NEW n \in Nat, n <= Len(Words(Entries(s), s)),
         \A w \in 1 .. n : Cached(Entries(s), s)[w] = Words(Entries(s), s)[w],
         NEW w \in 1 .. n
  PROVE  /\ w <= Len(reported[s])
         /\ reported[s][w] = Words(Entries(s), s)[w]
<1>1. PICK m \in Nat, t \in Nat : /\ m = Len(chain) /\ t = ThreadStateFrame(s)
                                  /\ t <= m /\ t \in 0 .. m
  <2>1. Len(chain) \in Nat /\ callback_frame \in 0 .. Len(chain)
    BY LenProperties DEF Inv, TypeOK
  <2>2. ThreadStateFrame(s) \in 0 .. Len(chain)
    BY <2>1 DEF ThreadStateFrame
  <2> QED
    BY <2>1, <2>2
<1>2. PICK c \in Seq(Entry) : /\ c = Entries(s) /\ Len(c) = t
                              /\ \A i \in 1 .. t : c[i] = chain[i]
  BY <1>1, OldestEntries DEF Entries, UpTo, Inv, TypeOK
<1>3. ASSUME NEW i \in 1 .. t, VisibleIn(chain[i], s)
      PROVE  i \in 1 .. Reach /\ chain[i].place = "running"
  <2>1. i \in 1 .. m
    BY <1>1
  <2>2. i \in 1 .. Reach
    <3>1. CASE callback_frame = 0
      BY <1>1, <2>1, <3>1 DEF Reach
    <3>2. CASE callback_frame # 0
      <4>1. Nearest(chain, s) = NearestIn(chain, m, s)
        BY <1>1 DEF Nearest, NearestIn
      <4>2. NearestIn(chain, m, s) >= i /\ NearestIn(chain, m, s) \in 0 .. m
        BY <1>3, <2>1, NearestIsFrame
      <4>3. callback_frame \in 0 .. m
        BY <1>1 DEF Inv, TypeOK
      <4> QED
        BY <3>2, <4>1, <4>2, <4>3 DEF ReadInFull, Reach
    <3> QED
      BY <3>1, <3>2
  <2>3. i \in 1 .. m - 1 \/ i = m
    BY <2>1
  <2>4. chain # <<>>
    BY <1>1, <2>1, EmptySeq
  <2>5. chain[i].place = "running"
    BY <1>1, <2>3, <2>4 DEF DeltaInv, BelowRuns, InC, Top
  <2> QED
    BY <2>2, <2>5
<1> DEFINE r(i) == Rank(Places(chain, s), i)
<1>4. ASSUME NEW i \in 1 .. t, VisibleIn(chain[i], s)
      PROVE  /\ r(i) = Rank(Places(c, s), i)
             /\ r(i) \in Nat /\ r(i) > 0 /\ c[i] = chain[i]
             /\ i \in Places(c, s)
             /\ Words(c, s)[2 * r(i) - 1] = chain[i].counter
             /\ Words(c, s)[2 * r(i)] = chain[i].ordinal
  BY <1>1, <1>2, <1>4, WordsUpTo DEF Entries
<1>5. \A v \in 1 .. n : Cached(c, s)[v] = Words(c, s)[v]
  BY <1>2
<1> HIDE DEF r
<1>6. ASSUME NEW i \in 1 .. t, VisibleIn(chain[i], s), 2 * r(i) - 1 <= n
      PROVE  /\ Hit(chain[i], s)
             /\ 2 * r(i) <= n => Matched(chain[i], s)
  <2>1. PICK k \in Nat : /\ k = r(i) /\ k = Rank(Places(c, s), i) /\ k > 0
                         /\ i \in Places(c, s)
                         /\ Words(c, s)[2 * k - 1] = chain[i].counter
                         /\ Words(c, s)[2 * k] = chain[i].ordinal
    BY <1>4, <1>6
  <2> DEFINE hit == chain[i].cache # NoDelta /\ chain[i].cache[1] = s
  <2>2. /\ Cached(c, s)[2 * k - 1] = IF hit THEN chain[i].cache[2] ELSE Unset
        /\ Cached(c, s)[2 * k] = IF hit THEN chain[i].cache[3] ELSE Unset
    <3>1. chain[i] = c[i]
      BY <1>4, <1>6
    <3>2. /\ Cached(c, s)[2 * k - 1] =
               IF c[i].cache # NoDelta /\ c[i].cache[1] = s
                 THEN c[i].cache[2] ELSE Unset
          /\ Cached(c, s)[2 * k] =
               IF c[i].cache # NoDelta /\ c[i].cache[1] = s
                 THEN c[i].cache[3] ELSE Unset
      BY <2>1, CachedOfFrame
    <3> QED
      BY <3>1, <3>2
  <2>3. 2 * k - 1 \in 1 .. n /\ (2 * k <= n => 2 * k \in 1 .. n)
    BY <1>6, <2>1
  <2>4. chain[i].counter \in Nat
    <3>1. chain[i] \in Entry
      BY <1>1, ElementOfSeq DEF Inv, TypeOK
    <3> QED
      BY <3>1 DEF Entry
  <2>5. hit /\ chain[i].cache[2] = chain[i].counter
    <3>1. Cached(c, s)[2 * k - 1] = chain[i].counter
      BY <1>5, <2>1, <2>3
    <3>2. Unset # chain[i].counter
      BY <2>4 DEF Unset
    <3> QED
      BY <2>2, <3>1, <3>2
  <2>6. 2 * k <= n => chain[i].cache[3] = chain[i].ordinal
    BY <1>5, <2>1, <2>2, <2>3, <2>5
  <2> QED
    BY <2>1, <2>5, <2>6 DEF Hit, Matched
<1>7. PICK i \in 1 .. t : /\ VisibleIn(chain[i], s)
                          /\ w = 2 * r(i) - 1 \/ w = 2 * r(i)
  <2>1. Rank(Places(c, s), Len(c)) \in Nat
    BY <1>1, <1>2, RankIsNatural
  <2>2. w \in 1 .. 2 * Rank(Places(c, s), Len(c))
    BY <1>2, <2>1, WordsOfChain
  <2>3. PICK i \in Places(c, s) : \/ w = 2 * Rank(Places(c, s), i) - 1
                                  \/ w = 2 * Rank(Places(c, s), i)
    BY <2>2, WordsOfChain
  <2>4. i \in 1 .. t /\ VisibleIn(chain[i], s)
    BY <1>2 DEF Places
  <2> QED
    BY <1>4, <2>3, <2>4
<1>8. r(i) \in Nat /\ r(i) > 0 /\ 2 * r(i) - 1 <= n
  BY <1>4, <1>7
<1>9. Hit(chain[i], s) /\ (2 * r(i) <= n => Matched(chain[i], s))
  BY <1>6, <1>7, <1>8
<1>10. AllMatched(chain, s, i - 1)
  <2> SUFFICES ASSUME NEW j \in 1 .. i - 1, VisibleIn(chain[j], s)
               PROVE  Matched(chain[j], s)
    BY DEF AllMatched
  <2>1. j \in 1 .. t /\ j \in Nat /\ i \in Nat /\ j < i
    BY <1>1
  <2>2. r(j) < r(i)
    <3>1. i \in Places(chain, s)
      BY <1>1, <1>7 DEF Places
    <3> QED
      BY <2>1, <3>1, RanksGrow DEF r
  <2>3. r(j) \in Nat /\ r(j) > 0
    BY <1>4, <2>1
  <2>4. 2 * r(j) <= n /\ 2 * r(j) - 1 <= n
    BY <1>8, <2>2, <2>3
  <2> QED
    BY <1>6, <2>1, <2>4
<1>11. Told(chain, s, i, reported[s])
  BY <1>3, <1>7, <1>9, <1>10 DEF Trusted, DeltaInv, CachesTell
<1>12. PICK k \in Nat : /\ k = r(i) /\ k > 0 /\ 2 * k <= Len(reported[s])
                        /\ reported[s][2 * k - 1] = chain[i].cache[2]
                        /\ reported[s][2 * k] = chain[i].cache[3]
                        /\ Words(c, s)[2 * k - 1] = chain[i].counter
                        /\ Words(c, s)[2 * k] = chain[i].ordinal
  BY <1>4, <1>7, <1>8, <1>11 DEF Told, r
<1>13. Len(reported[s]) \in Nat
  BY LenProperties DEF DeltaInv
<1>14. CASE w = 2 * k - 1
  BY <1>2, <1>9, <1>12, <1>13, <1>14 DEF Hit
<1>15. CASE w = 2 * k
  <2>1. Matched(chain[i], s)
    BY <1>9, <1>12, <1>15
  <2> QED
    BY <1>2, <1>12, <1>13, <1>15, <2>1 DEF Matched
<1> QED
  BY <1>7, <1>12, <1>14, <1>15

LEMMA DeltaInvSuffices ==
  ASSUME Inv, DeltaInv
  PROVE  DeltasReconstruct
<1> SUFFICES ASSUME InC, NEW s \in seen, ReadInFull(s)
             PROVE  /\ CommonCount(s) <= Len(reported[s])
                    /\ \A w \in 1 .. CommonCount(s) :
                         Words(Entries(s), s)[w] = reported[s][w]
  BY DEF DeltasReconstruct
<1>1. s \in Spaces /\ Len(reported[s]) \in Nat
  BY LenProperties DEF Inv, TypeOK, DeltaInv
<1>2. CASE last_delta_root[s] # root_call_ordinal[s]
  <2>1. CommonCount(s) = 0
    BY <1>2 DEF CommonCount
  <2> QED
    BY <1>1, <2>1
<1>3. CASE last_delta_root[s] = root_call_ordinal[s]
  <2> DEFINE same(n) == \A w \in 1 .. n : Cached(Entries(s), s)[w] =
                                          Words(Entries(s), s)[w]
             S == {n \in 0 .. Len(Words(Entries(s), s)) : same(n)}
  <2>1. CommonCount(s) = Max(S)
    BY <1>3 DEF CommonCount
  <2>2. Len(Words(Entries(s), s)) \in Nat
    <3>1. callback_frame \in 0 .. Len(chain) /\ Len(chain) \in Nat
      BY LenProperties DEF Inv, TypeOK
    <3>2. ThreadStateFrame(s) \in 0 .. Len(chain)
      BY <3>1 DEF ThreadStateFrame
    <3>3. Entries(s) \in Seq(Entry)
      BY <3>2, OldestEntries DEF Entries, UpTo, Inv, TypeOK
    <3> QED
      BY <3>3, WordsOfChain, LenProperties
  <2>3. 0 \in S
    BY <2>2
  <2>4. Max(S) \in S
    <3>1. S \in SUBSET (0 .. Len(Words(Entries(s), s)))
      OBVIOUS
    <3> HIDE DEF S
    <3> QED
      BY <2>2, <2>3, <3>1, MaxIsMember
  <2>5. PICK n \in Nat : /\ n = CommonCount(s)
                         /\ n <= Len(Words(Entries(s), s)) /\ same(n)
    <3>1. CommonCount(s) \in S
      BY <2>1, <2>4
    <3>2. /\ CommonCount(s) \in 0 .. Len(Words(Entries(s), s))
          /\ same(CommonCount(s))
      BY <3>1
    <3> HIDE DEF same
    <3> QED
      BY <2>2, <3>2
  <2>6. \A w \in 1 .. n : /\ w <= Len(reported[s])
                          /\ reported[s][w] = Words(Entries(s), s)[w]
    BY <1>1, <1>3, <2>5, UnchangedWord
  <2>7. n <= Len(reported[s])
    <3>1. n = 0 \/ n \in 1 .. n
      OBVIOUS
    <3> QED
      BY <1>1, <2>6, <3>1
  <2> QED
    BY <2>5, <2>6, <2>7
<1> QED
  BY <1>2, <1>3

(* What thread_delta() reports as unchanged was reported, for any spaces,  *)
(* any depth and whatever the thread did since the last report.            *)
THEOREM DeltasAreSound == Spec => []DeltasReconstruct
<1>1. Init => DeltaInv
  BY InitHasDeltas
<1>2. /\ StateInv /\ StateInv' /\ DeltaInv /\ [Next]_vars => DeltaInv'
      /\ StateInv /\ DeltaInv => DeltasReconstruct
  BY NextKeepsDeltas, DeltaInvSuffices DEF StateInv
<1> QED
  BY <1>1, <1>2, StateInvariant, PTL DEF Spec
=============================================================================
