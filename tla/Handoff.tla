------------------------------- MODULE Handoff -------------------------------
(***************************************************************************)
(* One _retrace.ThreadHandoff object and the threads of one interpreter    *)
(* that call its methods.  to(target) grants a permit to the target's      *)
(* entry and parks the caller on its own gate; close() wakes the sleepers. *)
(* Three locks interact: the GIL, the object's own lock, and one gate per  *)
(* entry, a lock created held that a waker releases and a sleeper acquires *)
(* with the GIL dropped, possibly giving up after a timeout.               *)
(*                                                                         *)
(* A step of a thread that holds the GIL ends where the C code takes or    *)
(* releases a lock.  What the threads do between calls is not modelled.    *)
(***************************************************************************)
EXTENDS Naturals, FiniteSets

CONSTANTS Threads,      \* thread ids that use the object; one entry each
          NoThread,     \* the owner of a free lock
          CountingGate  \* whether releasing a free lock is remembered

(***************************************************************************)
(* A PyThread lock is a semaphore on some builds, where a second release   *)
(* is counted, and a mutex with a condition on others, where it is not.    *)
(***************************************************************************)
ASSUME HandoffAssumption ==
  /\ Threads # {}
  /\ NoThread \notin Threads
  /\ CountingGate \in BOOLEAN

VARIABLES gil,          \* the thread that holds the GIL, or NoThread
          lock,         \* the thread that holds self->lock, or NoThread
          has_timeout,  \* self->has_timeout
          object,       \* open, closed (self->closed), or freed (deallocated)
          entries,      \* the ids that have an entry in self->entries
          permit,       \* entry->permit
          waiting,      \* entry->waiting
          gate,         \* how often entry->gate can be acquired at once
          pc,           \* where each thread is
          target,       \* the argument of the to() a thread is in
          status        \* what the last acquisition of the gate returned

objectVars == <<has_timeout, object, entries, permit, waiting, gate>>
vars == <<gil, lock, objectVars, pc, target, status>>

Places == {"python",    \* outside the object's methods
           "calling",   \* in to(), about to acquire self->lock
           "inside",    \* in to(), self->lock held
           "parking",   \* self->lock released, about to drop the GIL
           "asleep",    \* acquiring its gate, without the GIL
           "waking",    \* back from the gate: needs the GIL, then self->lock
           "relocked",  \* self->lock held again, status not yet looked at
           "exited"}

TypeOK ==
  /\ gil \in Threads \cup {NoThread}
  /\ lock \in Threads \cup {NoThread}
  /\ has_timeout \in BOOLEAN
  /\ object \in {"open", "closed", "freed"}
  /\ entries \subseteq Threads
  /\ permit \in [Threads -> BOOLEAN]
  /\ waiting \in [Threads -> BOOLEAN]
  /\ gate \in [Threads -> Nat]
  /\ pc \in [Threads -> Places]
  /\ target \in [Threads -> Threads]
  /\ status \in [Threads -> {"acquired", "failure"}]

Init ==
  /\ gil = NoThread
  /\ lock = NoThread
  /\ has_timeout \in BOOLEAN
  /\ object = "open"
  /\ entries = {}
  /\ permit = [t \in Threads |-> FALSE]
  /\ waiting = [t \in Threads |-> FALSE]
  /\ gate = [t \in Threads |-> 0]
  /\ pc = [t \in Threads |-> "python"]
  /\ target = [t \in Threads |-> t]
  /\ status = [t \in Threads |-> "acquired"]

-----------------------------------------------------------------------------
(* The GIL *)

At(t, place) == gil = t /\ pc[t] = place

TakeGil(t) ==
  /\ gil = NoThread
  /\ pc[t] \in {"python", "waking"}
  /\ gil' = t
  /\ UNCHANGED <<lock, objectVars, pc, target, status>>

(* The eval loop gives way to another thread; C code of the object does not. *)
DropGil(t) ==
  /\ At(t, "python")
  /\ gil' = NoThread
  /\ UNCHANGED <<lock, objectVars, pc, target, status>>

Exit(t) ==
  /\ At(t, "python")
  /\ gil' = NoThread
  /\ pc' = [pc EXCEPT ![t] = "exited"]
  /\ UNCHANGED <<lock, objectVars, target, status>>

(* A running thread starts one that is given the id of a thread that has   *)
(* exited.  The entry made for that id is still there, with its permit and *)
(* its gate as they were left.                                             *)
Start(t) ==
  /\ pc[t] = "exited"
  /\ \E u \in Threads : At(u, "python")
  /\ pc' = [pc EXCEPT ![t] = "python"]
  /\ UNCHANGED <<gil, lock, objectVars, target, status>>

-----------------------------------------------------------------------------
(* to(target) up to the point where the caller sleeps *)

Call(t, u) ==
  /\ At(t, "python")
  /\ object # "freed"
  /\ pc' = [pc EXCEPT ![t] = "calling"]
  /\ target' = [target EXCEPT ![t] = u]
  /\ UNCHANGED <<gil, lock, objectVars, status>>

AcquireLock(t) ==
  /\ At(t, "calling")
  /\ lock = NoThread
  /\ lock' = t
  /\ pc' = [pc EXCEPT ![t] = "inside"]
  /\ UNCHANGED <<gil, objectVars, target, status>>

(* Leaving to(): the lock is released, the GIL kept. *)
Return(t) ==
  /\ lock' = NoThread
  /\ pc' = [pc EXCEPT ![t] = "python"]
  /\ UNCHANGED <<gil, target, status>>

RejectClosed(t) ==
  /\ At(t, "inside")
  /\ object = "closed"
  /\ Return(t)
  /\ UNCHANGED objectVars

TransferToSelf(t) ==
  /\ At(t, "inside")
  /\ object = "open"
  /\ target[t] = t
  /\ Return(t)
  /\ UNCHANGED objectVars

(* No memory for the target's entry, or, with the target's made, for its own. *)
OutOfMemory(t) ==
  /\ At(t, "inside")
  /\ object = "open"
  /\ target[t] # t
  /\ \/ target[t] \notin entries /\ UNCHANGED entries
     \/ t \notin entries /\ entries' = entries \cup {target[t]}
  /\ Return(t)
  /\ UNCHANGED <<has_timeout, object, permit, waiting, gate>>

Released(n) == IF CountingGate THEN n + 1 ELSE 1

(* Mutants: the permit is set before it is tested; the permit is not tested. *)
NeedsWakeAfterGrant(u) == waiting[u] /\ permit[u]
NeedsWakeAlways(u) == waiting[u]

(* An entry that sleeps without a permit has its gate opened. *)
NeedsWake(u) == waiting[u] /\ ~permit[u]

(* Mutant: the caller keeps a permit that it was given while it ran. *)
TransferKeepingPermit(t) ==
  LET u == target[t] IN
  /\ At(t, "inside")
  /\ object = "open"
  /\ u # t
  /\ entries' = entries \cup {t, u}
  /\ permit' = [permit EXCEPT ![u] = TRUE]
  /\ gate' = IF NeedsWake(u) THEN [gate EXCEPT ![u] = Released(@)] ELSE gate
  /\ waiting' = [waiting EXCEPT ![t] = TRUE]
  /\ lock' = NoThread
  /\ pc' = [pc EXCEPT ![t] = "parking"]
  /\ UNCHANGED <<gil, has_timeout, object, target, status>>

(***************************************************************************)
(* The caller's own permit is thrown away before the target's is set, so   *)
(* the caller always waits.                                                *)
(***************************************************************************)
Transfer(t) ==
  LET u == target[t] IN
  /\ At(t, "inside")
  /\ object = "open"
  /\ u # t
  /\ entries' = entries \cup {t, u}
  /\ permit' = [permit EXCEPT ![t] = FALSE, ![u] = TRUE]
  /\ gate' = IF NeedsWake(u) THEN [gate EXCEPT ![u] = Released(@)] ELSE gate
  /\ waiting' = [waiting EXCEPT ![t] = TRUE]
  /\ lock' = NoThread
  /\ pc' = [pc EXCEPT ![t] = "parking"]
  /\ UNCHANGED <<gil, has_timeout, object, target, status>>

Park(t) ==
  /\ At(t, "parking")
  /\ gil' = NoThread
  /\ pc' = [pc EXCEPT ![t] = "asleep"]
  /\ UNCHANGED <<lock, objectVars, target, status>>

-----------------------------------------------------------------------------
(* Sleeping and waking up *)

(* Mutant: a wakeup without a token is taken for an acquisition. *)
AcquireGateSpuriously(t) ==
  /\ pc[t] = "asleep"
  /\ gate' = [gate EXCEPT ![t] = @ - 1]
  /\ status' = [status EXCEPT ![t] = "acquired"]
  /\ pc' = [pc EXCEPT ![t] = "waking"]
  /\ UNCHANGED <<gil, lock, has_timeout, object, entries, permit, waiting, target>>

AcquireGate(t) ==
  /\ pc[t] = "asleep"
  /\ gate[t] > 0
  /\ gate' = [gate EXCEPT ![t] = @ - 1]
  /\ status' = [status EXCEPT ![t] = "acquired"]
  /\ pc' = [pc EXCEPT ![t] = "waking"]
  /\ UNCHANGED <<gil, lock, has_timeout, object, entries, permit, waiting, target>>

TimeOut(t) ==
  /\ has_timeout
  /\ pc[t] = "asleep"
  /\ gate[t] = 0
  /\ status' = [status EXCEPT ![t] = "failure"]
  /\ pc' = [pc EXCEPT ![t] = "waking"]
  /\ UNCHANGED <<gil, lock, objectVars, target>>

Relock(t) ==
  /\ At(t, "waking")
  /\ lock = NoThread
  /\ lock' = t
  /\ pc' = [pc EXCEPT ![t] = "relocked"]
  /\ UNCHANGED <<gil, objectVars, target, status>>

(* Mutant: only close() ends the wait. *)
MayResumeWhenClosed(t) == object = "closed"

(* The condition that ends the wait. *)
MayResume(t) == object = "closed" \/ permit[t]

(* Mutant: the error return forgets to release self->lock. *)
RaiseTimeoutHoldingLock(t) ==
  /\ At(t, "relocked")
  /\ status[t] = "failure"
  /\ waiting' = [waiting EXCEPT ![t] = FALSE]
  /\ pc' = [pc EXCEPT ![t] = "python"]
  /\ UNCHANGED <<gil, lock, has_timeout, object, entries, permit, gate, target, status>>

RaiseTimeout(t) ==
  /\ At(t, "relocked")
  /\ status[t] = "failure"
  /\ waiting' = [waiting EXCEPT ![t] = FALSE]
  /\ Return(t)
  /\ UNCHANGED <<has_timeout, object, entries, permit, gate>>

Resume(t) ==
  /\ At(t, "relocked")
  /\ status[t] = "acquired"
  /\ MayResume(t)
  /\ waiting' = [waiting EXCEPT ![t] = FALSE]
  /\ permit' = [permit EXCEPT ![t] = FALSE]
  /\ Return(t)
  /\ UNCHANGED <<has_timeout, object, entries, gate>>

(* Mutant: the wait loop goes back to sleep with self->lock held. *)
SleepAgainHoldingLock(t) ==
  /\ At(t, "relocked")
  /\ status[t] = "acquired"
  /\ ~MayResume(t)
  /\ pc' = [pc EXCEPT ![t] = "parking"]
  /\ UNCHANGED <<gil, lock, objectVars, target, status>>

SleepAgain(t) ==
  /\ At(t, "relocked")
  /\ status[t] = "acquired"
  /\ ~MayResume(t)
  /\ lock' = NoThread
  /\ pc' = [pc EXCEPT ![t] = "parking"]
  /\ UNCHANGED <<gil, objectVars, target, status>>

-----------------------------------------------------------------------------
(* close() and deallocation *)

(* Mutant: close() only marks the object. *)
CloseWithoutWaking == UNCHANGED gate

CloseLocked ==
  gate' = IF object = "open"
          THEN [u \in Threads |-> IF u \in entries /\ NeedsWake(u)
                                  THEN Released(gate[u])
                                  ELSE gate[u]]
          ELSE gate

Close(t) ==
  /\ At(t, "python")
  /\ object # "freed"
  /\ lock = NoThread
  /\ CloseLocked
  /\ object' = "closed"
  /\ UNCHANGED <<gil, lock, has_timeout, entries, permit, waiting, pc, target, status>>

(* The last reference goes away; a thread inside a method holds one. *)
Dealloc(t) ==
  /\ At(t, "python")
  /\ object # "freed"
  /\ lock = NoThread
  /\ \A u \in Threads : pc[u] \in {"python", "exited"}
  /\ CloseLocked
  /\ object' = "freed"
  /\ entries' = {}
  /\ UNCHANGED <<gil, lock, has_timeout, permit, waiting, pc, target, status>>

-----------------------------------------------------------------------------
(* Steps of C code that runs with the GIL held and always goes on. *)
CStep(t) ==
  \/ AcquireLock(t) \/ RejectClosed(t) \/ TransferToSelf(t) \/ OutOfMemory(t)
  \/ Transfer(t) \/ Park(t) \/ Relock(t)
  \/ RaiseTimeout(t) \/ Resume(t) \/ SleepAgain(t)

Step(t) ==
  \/ TakeGil(t) \/ DropGil(t) \/ Exit(t) \/ Start(t)
  \/ \E u \in Threads : Call(t, u)
  \/ CStep(t)
  \/ AcquireGate(t) \/ TimeOut(t)
  \/ Close(t) \/ Dealloc(t)

Next == \E t \in Threads : Step(t)

Spec == Init /\ [][Next]_vars

(***************************************************************************)
(* C code runs on; a free gate is acquired; an expired wait is noticed; a  *)
(* thread that runs Python code gives up the GIL when others ask for it;   *)
(* and a thread that keeps asking for the GIL gets it.                     *)
(***************************************************************************)
Fairness ==
  \A t \in Threads : /\ WF_vars(CStep(t))
                     /\ WF_vars(AcquireGate(t))
                     /\ WF_vars(TimeOut(t))
                     /\ SF_vars(DropGil(t))
                     /\ SF_vars(TakeGil(t))

FairSpec == Spec /\ Fairness

-----------------------------------------------------------------------------
(* Properties *)

InCall(t) == pc[t] \notin {"python", "exited"}

(***************************************************************************)
(* No lost wakeup: a thread asleep on its gate whose wait has been granted *)
(* or ended by close() finds the gate open.                                *)
(***************************************************************************)
NoLostWakeup ==
  \A t \in Threads : pc[t] = "asleep" /\ MayResume(t) => gate[t] > 0

(***************************************************************************)
(* A thread that holds the GIL never blocks on self->lock: a holder of the *)
(* lock that waited for the GIL would deadlock the interpreter.            *)
(***************************************************************************)
LockNeverBlocksGilHolder ==
  \A t \in Threads : At(t, "python") \/ At(t, "calling") \/ At(t, "waking")
                     => lock = NoThread

(***************************************************************************)
(* Unused wakeups do not pile up: a timeout that races a transfer leaves   *)
(* one gate token behind, and at most one more is ever added to it.        *)
(***************************************************************************)
GateBounded == \A t \in Threads : gate[t] <= 2

(***************************************************************************)
(* While every thread lives, they are never all asleep with shut gates:    *)
(* whoever parks has woken, or left running, somebody else.                *)
(***************************************************************************)
NeverAllAsleep ==
  (\A t \in Threads : pc[t] # "exited") =>
     \E t \in Threads : pc[t] # "asleep" \/ gate[t] > 0

(***************************************************************************)
(* The handoff implements the baton: entries that wait are parked, or      *)
(* runnable once they have a permit.  What an entry was left with by an    *)
(* earlier thread of the same id makes no difference.                      *)
(***************************************************************************)
ModeOf(t) == CASE pc[t] = "exited"         -> "gone"
               [] waiting[t] /\ permit[t]  -> "runnable"
               [] waiting[t] /\ ~permit[t] -> "parked"
               [] OTHER                    -> "running"

Mode == [t \in Threads |-> ModeOf(t)]

B == INSTANCE Baton WITH timed <- has_timeout, mode <- Mode, closed <- (object # "open")

ImplementsBaton == B!Spec

(***************************************************************************)
(* A thread that has been handed the baton while it waits returns from     *)
(* to(), and so does every waiter of a closed gate.                        *)
(***************************************************************************)
GrantedReturns ==
  \A t \in Threads : (waiting[t] /\ permit[t]) ~> ~waiting[t]

CloseWakesAll ==
  \A t \in Threads : (waiting[t] /\ object = "closed") ~> ~waiting[t]

(***************************************************************************)
(* With a timeout, nobody stays in to() for ever.                          *)
(***************************************************************************)
WaitsEnd ==
  \A t \in Threads : (has_timeout /\ InCall(t)) ~> ~InCall(t)
=============================================================================
