----------------------------- MODULE ThreadIds -----------------------------
(***************************************************************************)
(* The public ids of threads.  A thread state gets its id when it is made: *)
(* a hash of its creator's id and of where the creator is, under a prefix  *)
(* for the space it is created in, and hashed again as long as a living    *)
(* thread has the same id.                                                 *)
(*                                                                         *)
(* What the threads do is given: who starts whom, where.  An execution is  *)
(* an order of starts and exits, so that what holds of every execution     *)
(* does not depend on timing.  A hash is the term that is mixed into it:   *)
(* Mix64 is taken not to collide.                                          *)
(***************************************************************************)
EXTENDS Naturals

CONSTANTS N,          \* the thread states that are ever made
          NoThread,   \* the creator of those that C code makes
          Spaces, RootSpace,
          Prefix,     \* the upper 16 bits of an id, per space
          Cursors     \* where a thread may be when it starts another

Threads == 1 .. N
Main == 1

ASSUME ThreadIdsAssumption ==
  /\ N \in Nat \ {0}
  /\ NoThread \notin Threads
  /\ RootSpace \in Spaces
  /\ Prefix \in [Spaces -> Nat]
  /\ Cursors \subseteq [space : Spaces, root : Nat, frames : Nat]

VARIABLES creator,   \* who starts each thread
          cursor,    \* where its creator is then
          id,        \* thread_id of each thread state made so far
          living     \* the thread states in interp->threads
program == <<creator, cursor>>
vars == <<program, id, living>>

Made(t) == t \in DOMAIN id

(* A cursor is the root ordinal and the frames of the creator's current    *)
(* space; it does not go back.                                             *)
NotAfter(c, d) ==
  c.space = d.space =>
    c.root < d.root \/ (c.root = d.root /\ c.frames <= d.frames)

(* The threads that t's creator starts before t *)
Before(t) ==
  {u \in Threads : u < t /\ creator[u] = creator[t] /\ creator[t] # NoThread}

Programs ==
  /\ creator \in [Threads -> Threads \cup {NoThread}]
  /\ cursor \in [Threads -> Cursors]
  /\ creator[Main] = NoThread
  /\ \A t \in Threads : creator[t] # NoThread => creator[t] < t
  /\ \A t \in Threads : \A u \in Before(t) : NotAfter(cursor[u], cursor[t])

-----------------------------------------------------------------------------
(* Ids *)

Composed(s, hash) == [prefix |-> Prefix[s], hash |-> hash]

(* What a thread state inherits from nobody is the root space. *)
SpaceOf(t) == IF creator[t] = NoThread THEN RootSpace ELSE cursor[t].space

(* The root ordinal of the creator is not mixed in. *)
Seed(t) ==
  IF creator[t] = NoThread THEN <<"root">>
  ELSE <<"start", id[creator[t]], cursor[t].frames>>

(* Mutant: only the hashes are compared. *)
SameHash(i) == \E u \in living : id[u].hash = i.hash

Taken(i) == \E u \in living : id[u] = i

(* Mutant: a retry is a hash of all 64 bits. *)
Retried(s, seed, n) ==
  IF n = 0 THEN Composed(s, seed)
           ELSE [prefix |-> 1, hash |-> <<"again", Prefix[s], seed, n>>]

(* The id that is tried n-th for a thread: the id before it, which has its *)
(* prefix, is mixed with a count.                                          *)
Candidate(s, seed, n) ==
  Composed(s, IF n = 0 THEN seed ELSE <<"again", Prefix[s], seed, n>>)

(* Mutant: the second candidate is taken unseen. *)
SecondBest(t, n) ==
  n = IF Taken(Candidate(SpaceOf(t), Seed(t), 0)) THEN 1 ELSE 0

(* UniqueThreadId: the first candidate that no living thread has *)
FirstFree(t, n) ==
  /\ ~ Taken(Candidate(SpaceOf(t), Seed(t), n))
  /\ \A m \in 0 .. n - 1 : Taken(Candidate(SpaceOf(t), Seed(t), m))

-----------------------------------------------------------------------------
Init ==
  /\ Programs
  /\ id = [t \in {Main} |-> Composed(RootSpace, <<"root">>)]
  /\ living = {Main}

(* new_threadstate() and SeedThreadState, under the head lock *)
Start(t) ==
  /\ ~ Made(t)
  /\ creator[t] # NoThread => creator[t] \in living
  /\ \A u \in Before(t) : Made(u)
  /\ \E n \in 0 .. N :
       /\ FirstFree(t, n)
       /\ id' = [u \in DOMAIN id \cup {t} |->
                   IF u = t THEN Candidate(SpaceOf(t), Seed(t), n) ELSE id[u]]
  /\ living' = living \cup {t}
  /\ UNCHANGED program

(* tstate_delete_common(); the main thread outlives the others. *)
Exit(t) ==
  /\ t \in living \ {Main}
  /\ living' = living \ {t}
  /\ UNCHANGED <<program, id>>

Next == \E t \in Threads : Start(t) \/ Exit(t)

Spec == Init /\ [][Next]_vars

-----------------------------------------------------------------------------
(* Properties *)

(* The types; and, as docs/probe-abi.md has it, "Active-id collision        *)
(* retries remix only the lower 48 hash bits while preserving the space    *)
(* prefix": the prefix of an id is that of the space its thread was        *)
(* created in, retried or not.                                             *)
TypeOK ==
  /\ Main \in living
  /\ living \subseteq DOMAIN id
  /\ DOMAIN id \subseteq Threads
  /\ \A t \in DOMAIN id : id[t].prefix = Prefix[SpaceOf(t)]

(* A target, a transfer or a signal for an id means one living thread.     *)
LivingIdsDiffer == \A t, u \in living : id[t] = id[u] => t = u

(* No other start looks like t's: from the same thread, with the same      *)
(* frames, under the same prefix.                                          *)
Alone(t) ==
  /\ creator[t] # NoThread
  /\ \A u \in Threads \ {t} :
       ~ /\ creator[u] = creator[t]
         /\ cursor[u].frames = cursor[t].frames
         /\ Prefix[SpaceOf(u)] = Prefix[SpaceOf(t)]

(* So it is for t, its creator, its creator's creator, up to the main one. *)
Steady(t) ==
  \E line \in SUBSET Threads :
    /\ t \in line
    /\ \A u \in line : u = Main \/ (Alone(u) /\ creator[u] \in line)

(* docs/index.md: "Deterministic thread identities".  A thread in whose    *)
(* line every start was alone has the id that the starts say, whichever    *)
(* threads had exited by then and whatever ids they had.                   *)
SteadyIdsAreDeterministic ==
  \A t \in Threads \ {Main} : Made(t) /\ Steady(t) =>
    id[t] = Composed(SpaceOf(t), Seed(t))
=============================================================================
