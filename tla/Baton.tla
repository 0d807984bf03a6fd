-------------------------------- MODULE Baton --------------------------------
(***************************************************************************)
(* What a ThreadHandoff promises to the replay scheduler that uses it: a   *)
(* transfer makes its target runnable if the target is parked, and parks   *)
(* the caller; a parked thread goes on only because somebody handed it the *)
(* baton, because the gate was closed, or because its timeout expired.     *)
(* The detailed specification, with locks and gates, is Handoff.tla.       *)
(***************************************************************************)
EXTENDS FiniteSets

CONSTANT Threads   \* the threads that share one handoff object

VARIABLES timed,   \* whether the object was created with a timeout
          mode,    \* what each thread does, as the scheduler sees it
          closed   \* whether the gate has been closed

vars == <<timed, mode, closed>>

Modes == {"running", "parked", "runnable", "gone"}

TypeOK == /\ timed \in BOOLEAN
          /\ mode \in [Threads -> Modes]
          /\ closed \in BOOLEAN

Init == /\ timed \in BOOLEAN
        /\ mode = [t \in Threads |-> "running"]
        /\ closed = FALSE

(***************************************************************************)
(* Handing the baton to a thread that is not parked is not remembered.     *)
(***************************************************************************)
Transfer(t, u) ==
  /\ t # u
  /\ ~closed
  /\ mode[t] = "running"
  /\ mode' = [mode EXCEPT ![t] = "parked",
                          ![u] = IF @ = "parked" THEN "runnable" ELSE @]
  /\ UNCHANGED <<timed, closed>>

Resume(t) ==
  /\ \/ mode[t] = "runnable"
     \/ mode[t] = "parked" /\ closed
  /\ mode' = [mode EXCEPT ![t] = "running"]
  /\ UNCHANGED <<timed, closed>>

(***************************************************************************)
(* A timeout that expired may be noticed after a transfer has arrived.     *)
(***************************************************************************)
Expire(t) ==
  /\ timed
  /\ mode[t] \in {"parked", "runnable"}
  /\ mode' = [mode EXCEPT ![t] = "running"]
  /\ UNCHANGED <<timed, closed>>

Leave(t) ==
  /\ mode[t] = "running"
  /\ mode' = [mode EXCEPT ![t] = "gone"]
  /\ UNCHANGED <<timed, closed>>

(* A running thread starts one that takes over the id of one that has left. *)
Join(t) ==
  /\ mode[t] = "gone"
  /\ \E u \in Threads : mode[u] = "running"
  /\ mode' = [mode EXCEPT ![t] = "running"]
  /\ UNCHANGED <<timed, closed>>

Close ==
  /\ \E t \in Threads : mode[t] = "running"
  /\ closed' = TRUE
  /\ UNCHANGED <<timed, mode>>

Next == \/ \E t \in Threads : \/ Resume(t)
                              \/ Expire(t)
                              \/ Leave(t)
                              \/ Join(t)
                              \/ \E u \in Threads : Transfer(t, u)
        \/ Close

Spec == Init /\ [][Next]_vars

-----------------------------------------------------------------------------
(***************************************************************************)
(* As long as no thread has left, handing the baton around never parks     *)
(* everybody: somebody runs or can run, or the gate is closed.             *)
(***************************************************************************)
SomebodyHasBaton ==
  (\A t \in Threads : mode[t] # "gone") =>
     \/ closed
     \/ \E t \in Threads : mode[t] \in {"running", "runnable"}
=============================================================================
