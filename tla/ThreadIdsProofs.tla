-------------------------- MODULE ThreadIdsProofs --------------------------
(* Proofs about ThreadIds, for any number of threads and spaces: living    *)
(* threads have different ids, and a thread whose line of starts is        *)
(* unambiguous has the id that the starts say.                             *)
EXTENDS ThreadIds, TLAPS

(* How an id comes about: creators are made first, and each thread has one *)
(* of the candidates of its own seed.                                      *)
Given(t) ==
  /\ t \in Threads
  /\ creator[t] # NoThread => creator[t] \in DOMAIN id
  /\ \E n \in Nat : id[t] = Candidate(SpaceOf(t), Seed(t), n)

GivenInv ==
  /\ creator \in [Threads -> Threads \cup {NoThread}]
  /\ creator[Main] = NoThread
  /\ Main \in living
  /\ living \subseteq DOMAIN id
  /\ id[Main] = Composed(RootSpace, <<"root">>)
  /\ \A t \in DOMAIN id : Given(t)

(* The main thread and the steady ones: a set closed under creators.       *)
Known(t) == t = Main \/ Steady(t)

(* The invariant behind determinism: no thread, living or gone, has the id *)
(* of a known one.                                                         *)
KnownIdsAreUnique ==
  \A t, u \in DOMAIN id : Known(t) /\ id[u] = id[t] => u = t

Inv == GivenInv /\ LivingIdsDiffer /\ KnownIdsAreUnique
                /\ SteadyIdsAreDeterministic

-----------------------------------------------------------------------------
(* Terms *)

(* The three kinds of hashes differ, and two starts of one hash have the   *)
(* same id of a creator and the same frames.                               *)
LEMMA Terms ==
  /\ \A a, b : <<"root">> # <<"start", a, b>>
  /\ \A a, b, c : <<"root">> # <<"again", a, b, c>>
  /\ \A a, b, c, d, e : <<"start", a, b>> # <<"again", c, d, e>>
  /\ \A a, b, c, d : <<"start", a, b>> = <<"start", c, d>> => a = c /\ b = d
<1>1. \A a, b : <<"root">> # <<"start", a, b>>
  OBVIOUS
<1>2. \A a, b, c : <<"root">> # <<"again", a, b, c>>
  OBVIOUS
<1>3. \A a, b, c, d, e : <<"start", a, b>> # <<"again", c, d, e>>
  OBVIOUS
<1>4. \A a, b, c, d : <<"start", a, b>> = <<"start", c, d>> => a = c /\ b = d
  OBVIOUS
<1> QED BY <1>1, <1>2, <1>3, <1>4

(* If a candidate of t is the first choice of s, both are started by       *)
(* threads of one id, with the same frames, under the same prefix.         *)
LEMMA SameChoice ==
  ASSUME NEW s \in Threads, creator[s] # NoThread,
         NEW t \in Threads, NEW n \in Nat,
         Candidate(SpaceOf(t), Seed(t), n) = Composed(SpaceOf(s), Seed(s))
  PROVE  /\ creator[t] # NoThread
         /\ id[creator[t]] = id[creator[s]]
         /\ cursor[t].frames = cursor[s].frames
         /\ Prefix[SpaceOf(t)] = Prefix[SpaceOf(s)]
<1> DEFINE hash == IF n = 0 THEN Seed(t)
                            ELSE <<"again", Prefix[SpaceOf(t)], Seed(t), n>>
<1>1. hash = Seed(s) /\ Prefix[SpaceOf(t)] = Prefix[SpaceOf(s)]
  BY DEF Candidate, Composed
<1>2. Seed(s) = <<"start", id[creator[s]], cursor[s].frames>>
  BY DEF Seed
<1>3. n = 0
  BY <1>1, <1>2, Terms
<1>4. Seed(t) = Seed(s)
  BY <1>1, <1>3
<1>5. creator[t] # NoThread
  BY <1>2, <1>4, Terms DEF Seed
<1>6. Seed(t) = <<"start", id[creator[t]], cursor[t].frames>>
  BY <1>5 DEF Seed
<1> HIDE DEF hash
<1> QED BY <1>1, <1>2, <1>4, <1>5, <1>6, Terms

(* A steady thread was alone, and its creator is the main thread or steady. *)
LEMMA SteadyLine ==
  ASSUME NEW t \in Threads, t # Main, Steady(t)
  PROVE  Alone(t) /\ Known(creator[t])
<1>1. PICK line \in SUBSET Threads :
        /\ t \in line
        /\ \A u \in line : u = Main \/ (Alone(u) /\ creator[u] \in line)
  BY DEF Steady
<1>2. Alone(t) /\ creator[t] \in line
  BY <1>1
<1>3. Steady(creator[t])
  BY <1>1, <1>2 DEF Steady
<1> QED BY <1>2, <1>3 DEF Known

(* Nobody but a steady thread itself has, or is offered, its first choice. *)
LEMMA FirstChoiceIsFree ==
  ASSUME Inv,
         NEW s \in Threads, s # Main, Steady(s), creator[s] \in DOMAIN id,
         NEW t \in Threads, creator[t] # NoThread => creator[t] \in DOMAIN id,
         NEW n \in Nat,
         Candidate(SpaceOf(t), Seed(t), n) = Composed(SpaceOf(s), Seed(s))
  PROVE  t = s
<1>1. Alone(s) /\ Known(creator[s])
  BY SteadyLine
<1>2. creator[s] # NoThread
  BY <1>1 DEF Alone
<1>3. /\ creator[t] # NoThread
      /\ id[creator[t]] = id[creator[s]]
      /\ cursor[t].frames = cursor[s].frames
      /\ Prefix[SpaceOf(t)] = Prefix[SpaceOf(s)]
  BY <1>2, SameChoice
<1>4. creator[t] = creator[s]
  BY <1>1, <1>3 DEF Inv, KnownIdsAreUnique
<1> QED BY <1>1, <1>3, <1>4 DEF Alone

-----------------------------------------------------------------------------
(* The invariant *)

LEMMA InvInit == Init => Inv
<1> SUFFICES ASSUME Init PROVE Inv
  OBVIOUS
<1> USE ThreadIdsAssumption DEF Threads, Main
<1>1. /\ DOMAIN id = {Main} /\ living = {Main}
      /\ id[Main] = Composed(RootSpace, <<"root">>)
  BY DEF Init
<1>2. /\ creator \in [Threads -> Threads \cup {NoThread}]
      /\ creator[Main] = NoThread
  BY DEF Init, Programs
<1>3. id[Main] = Candidate(SpaceOf(Main), Seed(Main), 0)
  BY <1>1, <1>2 DEF Candidate, SpaceOf, Seed
<1>4. Given(Main)
  BY <1>2, <1>3 DEF Given
<1>5. GivenInv
  BY <1>1, <1>2, <1>4 DEF GivenInv
<1>6. LivingIdsDiffer /\ KnownIdsAreUnique
  BY <1>1 DEF LivingIdsDiffer, KnownIdsAreUnique
<1>7. SteadyIdsAreDeterministic
  BY <1>1 DEF SteadyIdsAreDeterministic, Made
<1> QED BY <1>5, <1>6, <1>7 DEF Inv

LEMMA ExitKeepsInv ==
  ASSUME Inv, NEW t \in Threads, Exit(t)
  PROVE  Inv'
<1>1. /\ living' = living \ {t} /\ t # Main
      /\ UNCHANGED <<creator, cursor, id>>
  BY DEF Exit, program
<1>2. GivenInv'
  <2>1. \A u \in DOMAIN id : Given(u)' = Given(u)
    BY <1>1 DEF Given, Candidate, Composed, SpaceOf, Seed
  <2> QED BY <1>1, <2>1 DEF Inv, GivenInv
<1>3. LivingIdsDiffer'
  BY <1>1 DEF Inv, LivingIdsDiffer
<1>4. KnownIdsAreUnique'
  BY <1>1 DEF Inv, KnownIdsAreUnique, Known, Steady, Alone, SpaceOf
<1>5. SteadyIdsAreDeterministic'
  BY <1>1 DEF Inv, SteadyIdsAreDeterministic, Made, Steady, Alone, SpaceOf,
              Composed, Seed
<1> QED BY <1>2, <1>3, <1>4, <1>5 DEF Inv

LEMMA StartKeepsInv ==
  ASSUME Inv, NEW t \in Threads, Start(t)
  PROVE  Inv'
<1> DEFINE choice(n) == Candidate(SpaceOf(t), Seed(t), n)
<1>1. PICK n \in 0 .. N :
        /\ FirstFree(t, n)
        /\ id' = [u \in DOMAIN id \cup {t} |->
                    IF u = t THEN choice(n) ELSE id[u]]
  BY DEF Start
<1>2. /\ t \notin DOMAIN id
      /\ creator[t] # NoThread => creator[t] \in DOMAIN id
      /\ living' = living \cup {t}
      /\ UNCHANGED <<creator, cursor>>
  BY DEF Start, Made, program, Inv, GivenInv
<1>3. /\ DOMAIN id' = DOMAIN id \cup {t}
      /\ id'[t] = choice(n)
      /\ \A u \in DOMAIN id : id'[u] = id[u] /\ u # t
  BY <1>1, <1>2
<1>4. n \in Nat /\ t # Main
  BY <1>2, ThreadIdsAssumption DEF Inv, GivenInv
<1>5. /\ \A u \in DOMAIN id : Seed(u)' = Seed(u) /\ u \in Threads
      /\ Seed(t)' = Seed(t)
      /\ \A u : SpaceOf(u)' = SpaceOf(u)
      /\ \A u : Steady(u)' = Steady(u) /\ Known(u)' = Known(u)
  <2>1. \A u \in DOMAIN id : creator[u] # NoThread => creator[u] \in DOMAIN id
    BY DEF Inv, GivenInv, Given
  <2>2. \A u \in DOMAIN id : Seed(u)' = Seed(u) /\ u \in Threads
    BY <1>2, <1>3, <2>1 DEF Seed, Inv, GivenInv, Given
  <2>3. Seed(t)' = Seed(t)
    BY <1>2, <1>3 DEF Seed
  <2>4. \A u : SpaceOf(u)' = SpaceOf(u)
    BY <1>2 DEF SpaceOf
  <2>5. \A u : Steady(u)' = Steady(u)
    BY <1>2 DEF Steady, Alone, SpaceOf
  <2> QED BY <2>2, <2>3, <2>4, <2>5 DEF Known
<1>6. \A u \in living : id[u] # choice(n)
  BY <1>1 DEF FirstFree, Taken
<1>7. Steady(t) => n = 0 /\ creator[t] \in DOMAIN id
  <2> SUFFICES ASSUME Steady(t) PROVE n = 0 /\ creator[t] \in DOMAIN id
    OBVIOUS
  <2>1. creator[t] \in DOMAIN id
    BY <1>2, <1>4, SteadyLine DEF Alone
  <2>2. ASSUME n # 0 PROVE FALSE
    <3>1. 0 \in 0 .. n - 1
      BY <1>4, <2>2
    <3>2. Taken(choice(0))
      BY <1>1, <3>1 DEF FirstFree
    <3>3. PICK u \in living : id[u] = choice(0)
      BY <3>2 DEF Taken
    <3>4. choice(0) = Composed(SpaceOf(t), Seed(t))
      BY DEF Candidate
    <3>5. u \in DOMAIN id /\ Given(u)
      BY DEF Inv, GivenInv
    <3>6. PICK m \in Nat : id[u] = Candidate(SpaceOf(u), Seed(u), m)
      BY <3>5 DEF Given
    <3>7. u = t
      BY <1>4, <2>1, <3>3, <3>4, <3>5, <3>6, FirstChoiceIsFree DEF Given
    <3> QED BY <1>2, <3>5, <3>7
  <2> QED BY <2>1, <2>2
<1>8. GivenInv'
  <2>1. Given(t)'
    BY <1>2, <1>3, <1>4, <1>5 DEF Given, Candidate, Composed
  <2>2. \A u \in DOMAIN id : Given(u)'
    <3> TAKE u \in DOMAIN id
    <3>1. PICK m \in Nat : id[u] = Candidate(SpaceOf(u), Seed(u), m)
      BY DEF Inv, GivenInv, Given
    <3>2. id'[u] = Candidate(SpaceOf(u), Seed(u), m)'
      BY <1>3, <1>5, <3>1 DEF Candidate, Composed
    <3>3. u \in Threads /\ (creator[u] # NoThread => creator[u] \in DOMAIN id)
      BY DEF Inv, GivenInv, Given
    <3> QED BY <1>2, <1>3, <3>2, <3>3 DEF Given
  <2>3. id'[Main] = id[Main] /\ Composed(RootSpace, <<"root">>)' =
                                 Composed(RootSpace, <<"root">>)
    BY <1>3 DEF Composed, Inv, GivenInv
  <2> QED BY <1>2, <1>3, <2>1, <2>2, <2>3 DEF Inv, GivenInv
<1>9. LivingIdsDiffer'
  BY <1>2, <1>3, <1>6 DEF Inv, GivenInv, LivingIdsDiffer
<1>10. SteadyIdsAreDeterministic'
  <2> SUFFICES ASSUME NEW u \in Threads \ {Main}, u \in DOMAIN id', Steady(u)
               PROVE  id'[u] = Composed(SpaceOf(u), Seed(u))'
    BY <1>5 DEF SteadyIdsAreDeterministic, Made
  <2>1. CASE u = t
    <3>1. id'[t] = Composed(SpaceOf(t), Seed(t))
      BY <1>3, <1>7, <2>1 DEF Candidate
    <3> QED BY <1>5, <2>1, <3>1 DEF Composed
  <2>2. CASE u # t
    <3>1. u \in DOMAIN id /\ id[u] = Composed(SpaceOf(u), Seed(u))
      BY <1>3, <2>2 DEF Inv, SteadyIdsAreDeterministic, Made
    <3> QED BY <1>3, <1>5, <3>1 DEF Composed
  <2> QED BY <2>1, <2>2
<1>11. KnownIdsAreUnique'
  <2>1. ASSUME NEW s \in DOMAIN id, Known(s), id[s] = choice(n)
        PROVE  FALSE
    <3>1. CASE s = Main
      BY <1>6, <2>1, <3>1 DEF Inv, GivenInv
    <3>2. CASE s # Main
      <4>1. Steady(s) /\ s \in Threads /\ Given(s)
        BY <2>1, <3>2 DEF Known, Inv, GivenInv, Given
      <4>2. creator[s] \in DOMAIN id
        BY <3>2, <4>1, SteadyLine DEF Given, Alone
      <4>3. id[s] = Composed(SpaceOf(s), Seed(s))
        BY <3>2, <4>1 DEF Inv, SteadyIdsAreDeterministic, Made
      <4>4. t = s
        BY <1>2, <1>4, <2>1, <3>2, <4>1, <4>2, <4>3, FirstChoiceIsFree
      <4> QED BY <1>2, <4>4
    <3> QED BY <3>1, <3>2
  <2>2. ASSUME Known(t), NEW u \in DOMAIN id, id[u] = choice(n)
        PROVE  FALSE
    <3>1. Steady(t)
      BY <1>4, <2>2 DEF Known
    <3>2. choice(n) = Composed(SpaceOf(t), Seed(t))
      BY <1>7, <3>1 DEF Candidate
    <3>3. PICK m \in Nat : id[u] = Candidate(SpaceOf(u), Seed(u), m)
      BY DEF Inv, GivenInv, Given
    <3>4. u \in Threads /\ (creator[u] # NoThread => creator[u] \in DOMAIN id)
      BY DEF Inv, GivenInv, Given
    <3>5. u = t
      BY <1>4, <1>7, <2>2, <3>1, <3>2, <3>3, <3>4, FirstChoiceIsFree
    <3> QED BY <1>2, <3>5
  <2> QED BY <1>3, <1>5, <2>1, <2>2 DEF Inv, KnownIdsAreUnique
<1> QED BY <1>8, <1>9, <1>10, <1>11 DEF Inv

LEMMA InvNext == Inv /\ [Next]_vars => Inv'
<1> SUFFICES ASSUME Inv, [Next]_vars PROVE Inv'
  OBVIOUS
<1>1. CASE Next
  BY <1>1, StartKeepsInv, ExitKeepsInv DEF Next
<1>2. CASE UNCHANGED vars
  <2>1. UNCHANGED <<creator, cursor, id, living>>
    BY <1>2 DEF vars, program
  <2> QED BY <2>1 DEF Inv, GivenInv, Given, Candidate, Composed, SpaceOf, Seed,
                      LivingIdsDiffer, KnownIdsAreUnique, Known, Steady, Alone,
                      SteadyIdsAreDeterministic, Made
<1> QED BY <1>1, <1>2

(* The invariant holds in every reachable state.                           *)
THEOREM InvHolds == Spec => []Inv
BY InvInit, InvNext, PTL DEF Spec

-----------------------------------------------------------------------------
(* Results *)

(* Types, and the prefix that docs/probe-abi.md promises.                  *)
THEOREM TypesHold == Spec => []TypeOK
<1>1. Inv => TypeOK
  BY DEF Inv, GivenInv, Given, Candidate, Composed, TypeOK
<1> QED BY <1>1, InvHolds, PTL

(* No two living threads share an id.                                      *)
THEOREM LivingThreadsDiffer == Spec => []LivingIdsDiffer
<1>1. Inv => LivingIdsDiffer
  BY DEF Inv
<1> QED BY <1>1, InvHolds, PTL

(* However starts and exits are timed, a thread in whose line every start  *)
(* was alone has the id that the starts say.                               *)
THEOREM SteadyIds == Spec => []SteadyIdsAreDeterministic
<1>1. Inv => SteadyIdsAreDeterministic
  BY DEF Inv
<1> QED BY <1>1, InvHolds, PTL
=============================================================================
