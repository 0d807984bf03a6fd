---------------------------- MODULE HandoffProofs ----------------------------
(***************************************************************************)
(* What Handoff guarantees for any number of threads, with or without a    *)
(* timeout, on both kinds of lock.  The inductive invariant IInv adds to   *)
(* the checked invariants who holds which lock at each place of the code,  *)
(* that waiting is set exactly from the transfer to the end of the wait,   *)
(* and how many gate tokens can be left at each place.                     *)
(***************************************************************************)
EXTENDS Handoff, TLAPS

(* Places between the transfer and the end of the wait *)
WaitPlaces == {"parking", "asleep", "waking", "relocked"}

LocksInv ==
  \A t \in Threads :
    /\ pc[t] \in {"inside", "relocked"} <=> lock = t
    /\ pc[t] \in {"calling", "inside", "parking", "relocked"} => gil = t
    /\ pc[t] \in {"asleep", "exited"} => gil # t

WaitInv ==
  \A t \in Threads :
    /\ waiting[t] <=> pc[t] \in WaitPlaces
    /\ waiting[t] => t \in entries /\ object # "freed"
    /\ pc[t] \in {"calling", "inside"} => object # "freed"
    /\ pc[t] = "parking" => ~MayResume(t)

TimeoutInv == \A t \in Threads : status[t] = "failure" => has_timeout

TokensInv ==
  \A t \in Threads :
    gate[t] <= CASE pc[t] = "asleep" -> IF MayResume(t) THEN 2 ELSE 1
                 [] pc[t] \in {"waking", "relocked"} -> IF MayResume(t) THEN 1 ELSE 0
                 [] OTHER -> 1

IInv == /\ TypeOK
        /\ LocksInv
        /\ WaitInv
        /\ TimeoutInv
        /\ NoLostWakeup
        /\ TokensInv

-----------------------------------------------------------------------------
(* Type correctness *)

LEMMA TypeStep ==
  ASSUME TypeOK, NEW t \in Threads, Step(t)
  PROVE  TypeOK'
<1> USE HandoffAssumption DEF TypeOK, Places, At, objectVars
<1>1. CASE TakeGil(t)
  BY <1>1 DEF TakeGil
<1>2. CASE DropGil(t)
  BY <1>2 DEF DropGil
<1>3. CASE Exit(t) \/ Start(t)
  BY <1>3 DEF Exit, Start
<1>4. CASE \E u \in Threads : Call(t, u)
  BY <1>4 DEF Call
<1>5. CASE AcquireLock(t)
  BY <1>5 DEF AcquireLock
<1>6. CASE RejectClosed(t)
  BY <1>6 DEF RejectClosed, Return
<1>7. CASE TransferToSelf(t)
  BY <1>7 DEF TransferToSelf, Return
<1>8. CASE OutOfMemory(t)
  BY <1>8 DEF OutOfMemory, Return
<1>9. CASE Transfer(t)
  <2>1. gate' \in [Threads -> Nat]
    <3>1. Released(gate[target[t]]) \in Nat
      BY DEF Released
    <3>2. QED
      BY <1>9, <3>1 DEF Transfer
  <2>2. QED
    BY <1>9, <2>1 DEF Transfer
<1>10. CASE Park(t)
  BY <1>10 DEF Park
<1>11. CASE Relock(t)
  BY <1>11 DEF Relock
<1>12. CASE RaiseTimeout(t)
  BY <1>12 DEF RaiseTimeout, Return, MayResume
<1>13. CASE Resume(t)
  BY <1>13 DEF Resume, Return, MayResume
<1>14. CASE SleepAgain(t)
  BY <1>14 DEF SleepAgain, MayResume
<1>15. CASE AcquireGate(t)
  BY <1>15 DEF AcquireGate
<1>16. CASE TimeOut(t)
  BY <1>16 DEF TimeOut
<1>17. CASE Close(t)
  BY <1>17 DEF Close, CloseLocked, Released, NeedsWake
<1>18. CASE Dealloc(t)
  BY <1>18 DEF Dealloc, CloseLocked, Released, NeedsWake
<1>19. QED
  BY <1>1, <1>2, <1>3, <1>4, <1>5, <1>6, <1>7, <1>8, <1>9, <1>10, <1>11, <1>12, <1>13, <1>14, <1>15, <1>16, <1>17, <1>18 DEF Step, CStep

(***************************************************************************)
(* Every variable keeps its type for every set of threads.                 *)
(***************************************************************************)
THEOREM TypeCorrect == Spec => []TypeOK
<1>1. Init => TypeOK
  BY HandoffAssumption DEF Init, TypeOK, Places
<1>2. TypeOK /\ [Next]_vars => TypeOK'
  <2> SUFFICES ASSUME TypeOK, [Next]_vars PROVE TypeOK'
    OBVIOUS
  <2>1. CASE Next
    BY <2>1, TypeStep DEF Next
  <2>2. CASE UNCHANGED vars
    BY <2>2 DEF vars, objectVars, TypeOK
  <2>3. QED
    BY <2>1, <2>2
<1>3. QED
  BY <1>1, <1>2, PTL DEF Spec

-----------------------------------------------------------------------------
LEMMA LocksStep ==
  ASSUME IInv, NEW t \in Threads, Step(t)
  PROVE  LocksInv'
<1> USE HandoffAssumption DEF IInv, TypeOK, LocksInv, At, objectVars
<1>1. CASE TakeGil(t)
  BY <1>1 DEF TakeGil
<1>2. CASE DropGil(t)
  BY <1>2 DEF DropGil
<1>3. CASE Exit(t) \/ Start(t)
  BY <1>3 DEF Exit, Start
<1>4. CASE \E u \in Threads : Call(t, u)
  BY <1>4 DEF Call
<1>5. CASE AcquireLock(t)
  BY <1>5 DEF AcquireLock
<1>6. CASE RejectClosed(t)
  BY <1>6 DEF RejectClosed, Return
<1>7. CASE TransferToSelf(t)
  BY <1>7 DEF TransferToSelf, Return
<1>8. CASE OutOfMemory(t)
  BY <1>8 DEF OutOfMemory, Return
<1>9. CASE Transfer(t)
  BY <1>9 DEF Transfer, Released, NeedsWake
<1>10. CASE Park(t)
  BY <1>10 DEF Park
<1>11. CASE Relock(t)
  BY <1>11 DEF Relock
<1>12. CASE RaiseTimeout(t)
  BY <1>12 DEF RaiseTimeout, Return, MayResume
<1>13. CASE Resume(t)
  BY <1>13 DEF Resume, Return, MayResume
<1>14. CASE SleepAgain(t)
  BY <1>14 DEF SleepAgain, MayResume
<1>15. CASE AcquireGate(t)
  BY <1>15 DEF AcquireGate
<1>16. CASE TimeOut(t)
  BY <1>16 DEF TimeOut
<1>17. CASE Close(t)
  BY <1>17 DEF Close, CloseLocked, Released, NeedsWake
<1>18. CASE Dealloc(t)
  BY <1>18 DEF Dealloc, CloseLocked, Released, NeedsWake
<1>19. QED
  BY <1>1, <1>2, <1>3, <1>4, <1>5, <1>6, <1>7, <1>8, <1>9, <1>10, <1>11, <1>12, <1>13, <1>14, <1>15, <1>16, <1>17, <1>18 DEF Step, CStep

-----------------------------------------------------------------------------
LEMMA WaitStep ==
  ASSUME IInv, NEW t \in Threads, Step(t)
  PROVE  WaitInv'
<1> USE HandoffAssumption DEF IInv, TypeOK, LocksInv, WaitInv, WaitPlaces, MayResume, At, objectVars
<1>1. CASE TakeGil(t)
  BY <1>1 DEF TakeGil
<1>2. CASE DropGil(t)
  BY <1>2 DEF DropGil
<1>3. CASE Exit(t) \/ Start(t)
  BY <1>3 DEF Exit, Start
<1>4. CASE \E u \in Threads : Call(t, u)
  BY <1>4 DEF Call
<1>5. CASE AcquireLock(t)
  BY <1>5 DEF AcquireLock
<1>6. CASE RejectClosed(t)
  BY <1>6 DEF RejectClosed, Return
<1>7. CASE TransferToSelf(t)
  BY <1>7 DEF TransferToSelf, Return
<1>8. CASE OutOfMemory(t)
  BY <1>8 DEF OutOfMemory, Return
<1>9. CASE Transfer(t)
  BY <1>9 DEF Transfer, Released, NeedsWake
<1>10. CASE Park(t)
  BY <1>10 DEF Park
<1>11. CASE Relock(t)
  BY <1>11 DEF Relock
<1>12. CASE RaiseTimeout(t)
  BY <1>12 DEF RaiseTimeout, Return, MayResume
<1>13. CASE Resume(t)
  BY <1>13 DEF Resume, Return, MayResume
<1>14. CASE SleepAgain(t)
  BY <1>14 DEF SleepAgain, MayResume
<1>15. CASE AcquireGate(t)
  BY <1>15 DEF AcquireGate
<1>16. CASE TimeOut(t)
  BY <1>16 DEF TimeOut
<1>17. CASE Close(t)
  BY <1>17 DEF Close, CloseLocked, Released, NeedsWake
<1>18. CASE Dealloc(t)
  BY <1>18 DEF Dealloc, CloseLocked, Released, NeedsWake
<1>19. QED
  BY <1>1, <1>2, <1>3, <1>4, <1>5, <1>6, <1>7, <1>8, <1>9, <1>10, <1>11, <1>12, <1>13, <1>14, <1>15, <1>16, <1>17, <1>18 DEF Step, CStep

-----------------------------------------------------------------------------
LEMMA WakeupStep ==
  ASSUME IInv, NEW t \in Threads, Step(t)
  PROVE  NoLostWakeup'
<1> USE HandoffAssumption DEF IInv, TypeOK, LocksInv, WaitInv, WaitPlaces, NoLostWakeup, MayResume, At, objectVars
<1>1. CASE TakeGil(t)
  BY <1>1 DEF TakeGil
<1>2. CASE DropGil(t)
  BY <1>2 DEF DropGil
<1>3. CASE Exit(t) \/ Start(t)
  BY <1>3 DEF Exit, Start
<1>4. CASE \E u \in Threads : Call(t, u)
  BY <1>4 DEF Call
<1>5. CASE AcquireLock(t)
  BY <1>5 DEF AcquireLock
<1>6. CASE RejectClosed(t)
  BY <1>6 DEF RejectClosed, Return
<1>7. CASE TransferToSelf(t)
  BY <1>7 DEF TransferToSelf, Return
<1>8. CASE OutOfMemory(t)
  BY <1>8 DEF OutOfMemory, Return
<1>9. CASE Transfer(t)
  BY <1>9 DEF Transfer, Released, NeedsWake
<1>10. CASE Park(t)
  BY <1>10 DEF Park
<1>11. CASE Relock(t)
  BY <1>11 DEF Relock
<1>12. CASE RaiseTimeout(t)
  BY <1>12 DEF RaiseTimeout, Return, MayResume
<1>13. CASE Resume(t)
  BY <1>13 DEF Resume, Return, MayResume
<1>14. CASE SleepAgain(t)
  BY <1>14 DEF SleepAgain, MayResume
<1>15. CASE AcquireGate(t)
  BY <1>15 DEF AcquireGate
<1>16. CASE TimeOut(t)
  BY <1>16 DEF TimeOut
<1>17. CASE Close(t)
  BY <1>17 DEF Close, CloseLocked, Released, NeedsWake
<1>18. CASE Dealloc(t)
  BY <1>18 DEF Dealloc, CloseLocked, Released, NeedsWake
<1>19. QED
  BY <1>1, <1>2, <1>3, <1>4, <1>5, <1>6, <1>7, <1>8, <1>9, <1>10, <1>11, <1>12, <1>13, <1>14, <1>15, <1>16, <1>17, <1>18 DEF Step, CStep

-----------------------------------------------------------------------------
LEMMA TokensStep ==
  ASSUME IInv, NEW t \in Threads, Step(t)
  PROVE  TokensInv'
<1> USE HandoffAssumption DEF IInv, TypeOK, LocksInv, WaitInv, WaitPlaces, TokensInv, MayResume, At, objectVars
<1>1. CASE TakeGil(t)
  BY <1>1 DEF TakeGil
<1>2. CASE DropGil(t)
  BY <1>2 DEF DropGil
<1>3. CASE Exit(t) \/ Start(t)
  BY <1>3 DEF Exit, Start
<1>4. CASE \E u \in Threads : Call(t, u)
  BY <1>4 DEF Call
<1>5. CASE AcquireLock(t)
  BY <1>5 DEF AcquireLock
<1>6. CASE RejectClosed(t)
  BY <1>6 DEF RejectClosed, Return
<1>7. CASE TransferToSelf(t)
  BY <1>7 DEF TransferToSelf, Return
<1>8. CASE OutOfMemory(t)
  BY <1>8 DEF OutOfMemory, Return
<1>9. CASE Transfer(t)
  BY <1>9 DEF Transfer, Released, NeedsWake
<1>10. CASE Park(t)
  BY <1>10 DEF Park
<1>11. CASE Relock(t)
  BY <1>11 DEF Relock
<1>12. CASE RaiseTimeout(t)
  BY <1>12 DEF RaiseTimeout, Return, MayResume
<1>13. CASE Resume(t)
  BY <1>13 DEF Resume, Return, MayResume
<1>14. CASE SleepAgain(t)
  BY <1>14 DEF SleepAgain, MayResume
<1>15. CASE AcquireGate(t)
  BY <1>15 DEF AcquireGate
<1>16. CASE TimeOut(t)
  BY <1>16 DEF TimeOut
<1>17. CASE Close(t)
  BY <1>17 DEF Close, CloseLocked, Released, NeedsWake
<1>18. CASE Dealloc(t)
  BY <1>18 DEF Dealloc, CloseLocked, Released, NeedsWake
<1>19. QED
  BY <1>1, <1>2, <1>3, <1>4, <1>5, <1>6, <1>7, <1>8, <1>9, <1>10, <1>11, <1>12, <1>13, <1>14, <1>15, <1>16, <1>17, <1>18 DEF Step, CStep

-----------------------------------------------------------------------------
(* The inductive invariant *)

LEMMA IInvInit == Init => IInv
BY HandoffAssumption
   DEF Init, IInv, TypeOK, Places, LocksInv, WaitInv, TimeoutInv, WaitPlaces, MayResume,
       NoLostWakeup, TokensInv

LEMMA IInvStep == IInv /\ [Next]_vars => IInv'
<1> SUFFICES ASSUME IInv, [Next]_vars PROVE IInv'
  OBVIOUS
<1>1. CASE Next
  <2>1. PICK t \in Threads : Step(t)
    BY <1>1 DEF Next
  <2>2. TypeOK'
    BY <2>1, TypeStep DEF IInv
  <2>3. LocksInv' /\ WaitInv'
    BY <2>1, LocksStep, WaitStep
  <2>4. NoLostWakeup' /\ TokensInv'
    BY <2>1, WakeupStep, TokensStep
  <2>5. TimeoutInv'
    BY <2>1 DEF IInv, TypeOK, TimeoutInv, Step, CStep, TakeGil, DropGil, Exit, Start, Call,
                AcquireLock, RejectClosed, TransferToSelf, OutOfMemory, Transfer,
                Park, Relock, RaiseTimeout, Resume, SleepAgain, AcquireGate,
                TimeOut, Close, Dealloc, Return, objectVars
  <2>6. QED
    BY <2>2, <2>3, <2>4, <2>5 DEF IInv
<1>2. CASE UNCHANGED vars
  BY <1>2 DEF vars, objectVars, IInv, TypeOK, LocksInv, WaitInv, TimeoutInv, MayResume,
              NoLostWakeup, TokensInv
<1>3. QED
  BY <1>1, <1>2

THEOREM Inductive == Spec => []IInv
<1>1. QED
  BY IInvInit, IInvStep, PTL DEF Spec

(***************************************************************************)
(* No wakeup is ever lost: neither a transfer nor close() leaves its       *)
(* target asleep on a shut gate.                                           *)
(***************************************************************************)
THEOREM NoWakeupIsLost == Spec => []NoLostWakeup
<1>1. IInv => NoLostWakeup
  BY DEF IInv
<1>2. QED
  BY <1>1, Inductive, PTL

(***************************************************************************)
(* self->lock is always free when a thread that holds the GIL takes it.    *)
(***************************************************************************)
THEOREM LockIsFreeUnderGil == Spec => []LockNeverBlocksGilHolder
<1>1. IInv => LockNeverBlocksGilHolder
  BY HandoffAssumption DEF IInv, TypeOK, LocksInv, LockNeverBlocksGilHolder, At
<1>2. QED
  BY <1>1, Inductive, PTL

(***************************************************************************)
(* At most two tokens are ever pending on a gate.                          *)
(***************************************************************************)
THEOREM TokensAreBounded == Spec => []GateBounded
<1>1. IInv => GateBounded
  BY DEF IInv, TypeOK, TokensInv, GateBounded
<1>2. QED
  BY <1>1, Inductive, PTL

-----------------------------------------------------------------------------
(* The handoff implements the baton *)

LEMMA BatonStep ==
  ASSUME IInv, IInv', NEW t \in Threads, Step(t)
  PROVE  [B!Next]_(B!vars)
<1> USE DEF IInv, TypeOK, LocksInv, WaitInv, WaitPlaces, TimeoutInv, At, objectVars
<1>1. CASE TakeGil(t)
  <2>1. \A u \in Threads : ModeOf(u)' = ModeOf(u)
    BY <1>1 DEF ModeOf, TakeGil
  <2>2. UNCHANGED B!vars
    BY <1>1, <2>1 DEF B!vars, Mode, TakeGil
  <2>3. QED
    BY <2>2
<1>2. CASE DropGil(t)
  <2>1. \A u \in Threads : ModeOf(u)' = ModeOf(u)
    BY <1>2 DEF ModeOf, DropGil
  <2>2. UNCHANGED B!vars
    BY <1>2, <2>1 DEF B!vars, Mode, DropGil
  <2>3. QED
    BY <2>2
<1>3. CASE Exit(t)
  <2>1. \A u \in Threads \ {t} : ModeOf(u)' = ModeOf(u)
    BY <1>3 DEF ModeOf, Exit
  <2>2. ModeOf(t) \in {"running"} /\ ModeOf(t)' = "gone"
    BY <1>3 DEF ModeOf, Exit
  <2>3. Mode' = [Mode EXCEPT ![t] = "gone"]
    BY <2>1, <2>2 DEF Mode
  <2>4. Mode[t] = ModeOf(t) /\ UNCHANGED <<has_timeout, object # "open">>
    BY <1>3 DEF Mode, Exit
  <2>5. B!Leave(t)
    BY <1>3, <2>1, <2>2, <2>3, <2>4 DEF B!Leave, Exit
  <2>6. QED
    BY <2>5 DEF B!Next
<1>20. CASE Start(t)
  <2>1. \A u \in Threads \ {t} : ModeOf(u)' = ModeOf(u)
    BY <1>20 DEF ModeOf, Start
  <2>2. ModeOf(t) = "gone" /\ ModeOf(t)' = "running"
    BY <1>20 DEF ModeOf, Start
  <2>3. Mode' = [Mode EXCEPT ![t] = "running"]
    BY <2>1, <2>2 DEF Mode
  <2>4. Mode[t] = "gone" /\ UNCHANGED <<has_timeout, object # "open">>
    BY <1>20, <2>2 DEF Mode, Start
  <2>5. \E u \in Threads : Mode[u] = "running"
    BY <1>20 DEF Mode, ModeOf, Start
  <2>6. B!Join(t)
    BY <2>3, <2>4, <2>5 DEF B!Join
  <2>7. QED
    BY <2>6 DEF B!Next
<1>4. CASE \E u \in Threads : Call(t, u)
  <2>1. \A u \in Threads : ModeOf(u)' = ModeOf(u)
    BY <1>4 DEF ModeOf, Call
  <2>2. UNCHANGED B!vars
    BY <1>4, <2>1 DEF B!vars, Mode, Call
  <2>3. QED
    BY <2>2
<1>5. CASE AcquireLock(t)
  <2>1. \A u \in Threads : ModeOf(u)' = ModeOf(u)
    BY <1>5 DEF ModeOf, AcquireLock
  <2>2. UNCHANGED B!vars
    BY <1>5, <2>1 DEF B!vars, Mode, AcquireLock
  <2>3. QED
    BY <2>2
<1>6. CASE RejectClosed(t)
  <2>1. \A u \in Threads : ModeOf(u)' = ModeOf(u)
    BY <1>6 DEF ModeOf, RejectClosed, Return
  <2>2. UNCHANGED B!vars
    BY <1>6, <2>1 DEF B!vars, Mode, RejectClosed, Return
  <2>3. QED
    BY <2>2
<1>7. CASE TransferToSelf(t)
  <2>1. \A u \in Threads : ModeOf(u)' = ModeOf(u)
    BY <1>7 DEF ModeOf, TransferToSelf, Return
  <2>2. UNCHANGED B!vars
    BY <1>7, <2>1 DEF B!vars, Mode, TransferToSelf, Return
  <2>3. QED
    BY <2>2
<1>8. CASE OutOfMemory(t)
  <2>1. \A u \in Threads : ModeOf(u)' = ModeOf(u)
    BY <1>8 DEF ModeOf, OutOfMemory, Return
  <2>2. UNCHANGED B!vars
    BY <1>8, <2>1 DEF B!vars, Mode, OutOfMemory, Return
  <2>3. QED
    BY <2>2
<1>9. CASE Transfer(t)
  <2>1. PICK v \in Threads : v = target[t] /\ v # t
    BY <1>9 DEF Transfer
  <2>2. /\ \A u \in Threads \ {t, v} : ModeOf(u)' = ModeOf(u)
        /\ ModeOf(t) = "running" /\ ModeOf(t)' = "parked"
        /\ ModeOf(v)' = IF ModeOf(v) = "parked" THEN "runnable" ELSE ModeOf(v)
    BY <1>9, <2>1 DEF ModeOf, Transfer
  <2>3. Mode' = [Mode EXCEPT ![t] = "parked",
                             ![v] = IF @ = "parked" THEN "runnable" ELSE @]
    BY <2>1, <2>2 DEF Mode
  <2>4. Mode[t] = "running" /\ UNCHANGED <<has_timeout, object # "open">>
    BY <1>9, <2>2 DEF Mode, Transfer
  <2>5. B!Transfer(t, v)
    BY <1>9, <2>1, <2>3, <2>4 DEF B!Transfer, Transfer
  <2>6. QED
    BY <2>5 DEF B!Next
<1>10. CASE Park(t)
  <2>1. \A u \in Threads : ModeOf(u)' = ModeOf(u)
    BY <1>10 DEF ModeOf, Park
  <2>2. UNCHANGED B!vars
    BY <1>10, <2>1 DEF B!vars, Mode, Park
  <2>3. QED
    BY <2>2
<1>11. CASE Relock(t)
  <2>1. \A u \in Threads : ModeOf(u)' = ModeOf(u)
    BY <1>11 DEF ModeOf, Relock
  <2>2. UNCHANGED B!vars
    BY <1>11, <2>1 DEF B!vars, Mode, Relock
  <2>3. QED
    BY <2>2
<1>12. CASE RaiseTimeout(t)
  <2>1. \A u \in Threads \ {t} : ModeOf(u)' = ModeOf(u)
    BY <1>12 DEF ModeOf, RaiseTimeout, Return
  <2>2. ModeOf(t) \in {"parked", "runnable"} /\ ModeOf(t)' = "running"
    BY <1>12 DEF ModeOf, RaiseTimeout, Return
  <2>3. Mode' = [Mode EXCEPT ![t] = "running"]
    BY <2>1, <2>2 DEF Mode
  <2>4. Mode[t] = ModeOf(t) /\ UNCHANGED <<has_timeout, object # "open">>
    BY <1>12 DEF Mode, RaiseTimeout, Return
  <2>5. B!Expire(t)
    BY <1>12, <2>1, <2>2, <2>3, <2>4 DEF B!Expire, RaiseTimeout, Return
  <2>6. QED
    BY <2>5 DEF B!Next
<1>13. CASE Resume(t)
  <2>1. \A u \in Threads \ {t} : ModeOf(u)' = ModeOf(u)
    BY <1>13 DEF ModeOf, Resume, Return, MayResume
  <2>2. /\ \/ ModeOf(t) = "runnable"
           \/ ModeOf(t) = "parked" /\ object # "open"
          /\ ModeOf(t)' = "running"
    BY <1>13 DEF ModeOf, Resume, Return, MayResume
  <2>3. Mode' = [Mode EXCEPT ![t] = "running"]
    BY <2>1, <2>2 DEF Mode
  <2>4. Mode[t] = ModeOf(t) /\ UNCHANGED <<has_timeout, object # "open">>
    BY <1>13 DEF Mode, Resume, Return, MayResume
  <2>5. B!Resume(t)
    BY <1>13, <2>1, <2>2, <2>3, <2>4 DEF B!Resume, Resume, Return, MayResume
  <2>6. QED
    BY <2>5 DEF B!Next
<1>14. CASE SleepAgain(t)
  <2>1. \A u \in Threads : ModeOf(u)' = ModeOf(u)
    BY <1>14 DEF ModeOf, SleepAgain
  <2>2. UNCHANGED B!vars
    BY <1>14, <2>1 DEF B!vars, Mode, SleepAgain
  <2>3. QED
    BY <2>2
<1>15. CASE AcquireGate(t)
  <2>1. \A u \in Threads : ModeOf(u)' = ModeOf(u)
    BY <1>15 DEF ModeOf, AcquireGate
  <2>2. UNCHANGED B!vars
    BY <1>15, <2>1 DEF B!vars, Mode, AcquireGate
  <2>3. QED
    BY <2>2
<1>16. CASE TimeOut(t)
  <2>1. \A u \in Threads : ModeOf(u)' = ModeOf(u)
    BY <1>16 DEF ModeOf, TimeOut
  <2>2. UNCHANGED B!vars
    BY <1>16, <2>1 DEF B!vars, Mode, TimeOut
  <2>3. QED
    BY <2>2
<1>17. CASE Close(t)
  <2>1. B!Close
    BY <1>17 DEF Mode, ModeOf, B!Close, Close
  <2>2. QED
    BY <2>1 DEF B!Next
<1>18. CASE Dealloc(t)
  <2>1. B!Close
    BY <1>18 DEF Mode, ModeOf, B!Close, Dealloc
  <2>2. QED
    BY <2>1 DEF B!Next
<1>19. QED
  BY <1>1, <1>2, <1>3, <1>4, <1>5, <1>6, <1>7, <1>8, <1>9, <1>10, <1>11, <1>12, <1>13, <1>14, <1>15, <1>16, <1>17, <1>18,
     <1>20 DEF Step, CStep

(***************************************************************************)
(* Every behaviour of the locks and gates is a behaviour of the baton.     *)
(***************************************************************************)
THEOREM HandoffImplementsBaton == Spec => ImplementsBaton
<1>1. Init => B!Init
  BY DEF Init, B!Init, Mode, ModeOf
<1>2. IInv /\ IInv' /\ [Next]_vars => [B!Next]_(B!vars)
  <2> SUFFICES ASSUME IInv, IInv', [Next]_vars PROVE [B!Next]_(B!vars)
    OBVIOUS
  <2>1. CASE Next
    BY <2>1, BatonStep DEF Next
  <2>2. CASE UNCHANGED vars
    BY <2>2 DEF vars, objectVars, B!vars, Mode, ModeOf
  <2>3. QED
    BY <2>1, <2>2
<1>3. QED
  BY <1>1, <1>2, Inductive, PTL DEF Spec, ImplementsBaton, B!Spec

(***************************************************************************)
(* The baton is never lost while every thread lives.                       *)
(***************************************************************************)
THEOREM BatonIsKept == B!Spec => []B!SomebodyHasBaton
<1> DEFINE BInv == B!TypeOK /\ B!SomebodyHasBaton
<1> USE DEF B!TypeOK, B!Modes, B!SomebodyHasBaton
<1>1. B!Init => BInv
  BY HandoffAssumption DEF B!Init
<1>2. BInv /\ [B!Next]_(B!vars) => BInv'
  <2> SUFFICES ASSUME BInv, [B!Next]_(B!vars) PROVE BInv'
    OBVIOUS
  <2>1. CASE \E t, u \in Threads : B!Transfer(t, u)
    BY <2>1 DEF B!Transfer
  <2>2. CASE \E t \in Threads : B!Resume(t)
    BY <2>2 DEF B!Resume
  <2>3. CASE \E t \in Threads : B!Expire(t)
    BY <2>3 DEF B!Expire
  <2>4. CASE \E t \in Threads : B!Leave(t)
    BY <2>4 DEF B!Leave
  <2>8. CASE \E t \in Threads : B!Join(t)
    BY <2>8 DEF B!Join
  <2>5. CASE B!Close
    BY <2>5 DEF B!Close
  <2>6. CASE UNCHANGED B!vars
    BY <2>6 DEF B!vars
  <2>7. QED
    BY <2>1, <2>2, <2>3, <2>4, <2>5, <2>6, <2>8 DEF B!Next
<1>3. BInv => B!SomebodyHasBaton
  OBVIOUS
<1>4. QED
  BY <1>1, <1>2, <1>3, PTL DEF B!Spec

(***************************************************************************)
(* Threads that only hand the baton around never all fall asleep.          *)
(***************************************************************************)
THEOREM SomeThreadIsAwake == Spec => []NeverAllAsleep
<1>1. IInv /\ B!SomebodyHasBaton => NeverAllAsleep
  BY HandoffAssumption
     DEF IInv, WaitInv, WaitPlaces, NoLostWakeup, MayResume,
         B!SomebodyHasBaton, NeverAllAsleep, TypeOK, Mode, ModeOf
<1>2. QED
  BY <1>1, Inductive, HandoffImplementsBaton, BatonIsKept, PTL DEF ImplementsBaton
=============================================================================
