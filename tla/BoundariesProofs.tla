-------------------------- MODULE BoundariesProofs --------------------------
(***************************************************************************)
(* Proofs about Boundaries for any threads, spaces, targets and bounds.    *)
(*                                                                         *)
(* Inv says of the pointers to thread states that they point to threads    *)
(* that have not exited.  A step takes a pointer to the thread that makes  *)
(* it, which is running or in a callback, or drops it; only Exit makes a   *)
(* thread exit, and it drops every pointer to it.  FullInv adds what is    *)
(* known of the cursors, and BoundaryInv of the entries, flags and         *)
(* targets.                                                                *)
(***************************************************************************)
EXTENDS Boundaries, SelectionsProofs

PhaseOK == phase \in [Threads -> Phases]

PointersOK ==
  /\ last_bytecode_thread \in Threads \cup {NoThread}
  /\ cursor \in [Spaces -> Threads \cup {NoThread}]

Alive(t) == t # NoThread => phase[t] # "exited"

PointersLive ==
  /\ Alive(last_bytecode_thread)
  /\ \A s \in Spaces : Alive(cursor[s])

Inv == PhaseOK /\ PointersOK /\ PointersLive

-----------------------------------------------------------------------------
(* What the frames, entries and targets do is of no concern here: a step   *)
(* keeps or takes a pointer, or is an exit.                                *)

(* A thread that has not exited keeps or takes a pointer. *)
Pointed(old, t) == {old, t, NoThread}

Kept(t) ==
  /\ phase[t] # "exited"
  /\ phase' \in {[phase EXCEPT ![t] = p] : p \in Phases \ {"exited"}}
                  \cup {phase}
  /\ last_bytecode_thread' \in Pointed(last_bytecode_thread, t)
  /\ \/ cursor' = cursor
     \/ \E s \in Spaces, u \in {t, NoThread} : cursor' = [cursor EXCEPT ![s] = u]

Gone(t) ==
  /\ phase' = [phase EXCEPT ![t] = "exited"]
  /\ last_bytecode_thread' = IF last_bytecode_thread = t THEN NoThread
                                                  ELSE last_bytecode_thread
  /\ cursor' = [s \in Spaces |-> Forgotten(cursor[s], t)]

LEMMA KeptKeepsInv ==
  ASSUME Inv, NEW t \in Threads, Kept(t)
  PROVE  Inv'
<1> USE BoundariesAssumption
<1>1. phase[t] \in Phases \ {"exited"}
  BY DEF Kept, Inv, PhaseOK
<1>2. PICK p \in Phases \ {"exited"} : phase' = [phase EXCEPT ![t] = p]
  <2>1. CASE phase' = phase
    <3>1. phase = [phase EXCEPT ![t] = phase[t]]
      BY DEF Inv, PhaseOK
    <3> QED BY <1>1, <2>1, <3>1
  <2>2. CASE phase' # phase
    BY <2>2 DEF Kept
  <2> QED BY <2>1, <2>2
<1>3. PhaseOK'
  BY <1>2 DEF Inv, PhaseOK
<1>4. phase'[t] # "exited" /\ \A u \in Threads : phase[u] # "exited" => phase'[u] # "exited"
  BY <1>2 DEF Inv, PhaseOK
<1>5. PointersOK'
  BY DEF Kept, Pointed, Inv, PointersOK
<1>6. Alive(last_bytecode_thread)'
  BY <1>4 DEF Kept, Pointed, Inv, PointersOK, PointersLive, Alive
<1>7. ASSUME NEW s \in Spaces
      PROVE  Alive(cursor[s])'
  <2>1. cursor'[s] \in Pointed(cursor[s], t)
    BY DEF Kept, Pointed, Inv, PointersOK
  <2> QED BY <1>4, <2>1 DEF Pointed, Inv, PointersOK, PointersLive, Alive
<1> QED BY <1>3, <1>5, <1>6, <1>7 DEF Inv, PointersLive

LEMMA GoneKeepsInv ==
  ASSUME Inv, NEW t \in Threads, Gone(t)
  PROVE  Inv'
<1> USE BoundariesAssumption
<1>1. PhaseOK'
  BY DEF Gone, Inv, PhaseOK, Phases
<1>2. \A u \in Threads \ {t} : phase'[u] = phase[u]
  BY DEF Gone, Inv, PhaseOK
<1>3. PointersOK'
  BY DEF Gone, Forgotten, Inv, PointersOK
<1>4. Alive(last_bytecode_thread)'
  BY <1>2 DEF Gone, Inv, PointersOK, PointersLive, Alive
<1>5. ASSUME NEW s \in Spaces
      PROVE  Alive(cursor[s])'
  BY <1>2 DEF Gone, Forgotten, Inv, PointersOK, PointersLive, Alive
<1> QED BY <1>1, <1>3, <1>4, <1>5 DEF Inv, PointersLive

(* The end of a boundary moves the pointers to its own thread. *)
LEMMA CheckSwitchKeeps ==
  ASSUME Inv, NEW t \in Threads, phase[t] # "exited",
         NEW outcome \in Outcomes, CheckSwitch(t, outcome)
  PROVE  Kept(t)
<1> DEFINE s == TopSpace(t)
           told == SwitchDue(t, s) /\ cursor[s] # NoThread /\ outcome = "told"
           moved == SwitchDue(t, s) /\ outcome # "no delta"
<1>1. phase' = [phase EXCEPT ![t] = IF told THEN "switch" ELSE "running"]
  BY DEF CheckSwitch
<1>2. last_bytecode_thread' = IF told THEN last_bytecode_thread ELSE t
  BY DEF CheckSwitch
<1>3. cursor' = IF moved THEN [cursor EXCEPT ![s] = t] ELSE cursor
  BY DEF CheckSwitch, Advanced, Inv, PointersOK
<1>4. s \notin Spaces => [cursor EXCEPT ![s] = t] = cursor
  BY DEF Inv, PointersOK
<1> HIDE DEF s, told, moved
<1>5. cursor' = cursor \/ \E r \in Spaces : cursor' = [cursor EXCEPT ![r] = t]
  BY <1>3, <1>4
<1> QED BY <1>1, <1>2, <1>5 DEF Kept, Pointed, Phases

(* A thread that starts has no pointer to it. *)
LEMMA StartKeepsInv ==
  ASSUME Inv, NEW t \in Threads, Start(t)
  PROVE  Inv' /\ last_bytecode_thread # t
<1>1. /\ phase[t] = "exited"
      /\ phase' = [phase EXCEPT ![t] = "running"]
      /\ UNCHANGED <<last_bytecode_thread, cursor>>
  BY DEF Start, switchVars
<1>2. PhaseOK' /\ \A u \in Threads : phase[u] # "exited" => phase'[u] # "exited"
  BY <1>1 DEF Inv, PhaseOK, Phases
<1>3. PointersOK'
  BY <1>1 DEF Inv, PointersOK
<1>4. PointersLive'
  BY <1>1, <1>2 DEF Inv, PointersOK, PointersLive, Alive
<1>5. last_bytecode_thread # t
  BY <1>1, BoundariesAssumption DEF Inv, PointersLive, Alive
<1> QED BY <1>2, <1>3, <1>4, <1>5 DEF Inv

-----------------------------------------------------------------------------
(* The steps *)

LEMMA InitInv == Init => Inv
BY BoundariesAssumption
   DEF Init, Inv, PhaseOK, PointersOK, PointersLive, Alive, Phases

(* Steps that leave phases and pointers alone *)
LEMMA UntouchedKeeps ==
  ASSUME Inv, UNCHANGED <<phase, last_bytecode_thread, cursor>>
  PROVE  Inv'
BY DEF Inv, PhaseOK, PointersOK, PointersLive, Alive

LEMMA StepKeepsInv ==
  ASSUME Inv, NEW t \in Threads, Step(t)
  PROVE  Inv'
<1> USE DEF frameVars, switchVars, slotVars, callbackVars
<1>1. CASE \E s \in Spaces : Enter(t, s)
  BY <1>1, UntouchedKeeps DEF Enter
<1>2. CASE Leave(t)
  BY <1>2, UntouchedKeeps DEF Leave
<1>3. CASE Include(t)
  BY <1>3, UntouchedKeeps DEF Include
<1>4. CASE \E s \in Spaces : ClearCallAt(t, s)
  BY <1>4, UntouchedKeeps DEF ClearCallAt
<1>5. CASE \E u \in Threads, target \in Targets : CallAt(t, u, target)
  BY <1>5, UntouchedKeeps DEF CallAt
<1>14. CASE \E u \in Threads, target \in Targets : CallAtFails(t, u, target)
  BY <1>14, UntouchedKeeps DEF CallAtFails
<1>6. CASE \E s \in Spaces : SetThreadSwitchCallback(t, s)
  <2>1. PICK s \in Spaces : SetThreadSwitchCallback(t, s)
    BY <1>6
  <2>2. phase[t] # "exited"
    BY <2>1 DEF SetThreadSwitchCallback, Instructed, InCallback, In
  <2>3. /\ UNCHANGED <<phase, last_bytecode_thread>>
        /\ \E u \in {t, NoThread} : cursor' = [cursor EXCEPT ![s] = u]
    BY <2>1 DEF SetThreadSwitchCallback
  <2>4. Kept(t)
    BY <2>2, <2>3 DEF Kept, Pointed
  <2> QED BY <2>4, KeptKeepsInv
<1>7. CASE \E s \in Spaces : ClearThreadSwitchCallback(t, s)
  <2>1. PICK s \in Spaces : ClearThreadSwitchCallback(t, s)
    BY <1>7
  <2>2. phase[t] # "exited"
    BY <2>1 DEF ClearThreadSwitchCallback, Instructed, InCallback, In
  <2>3. /\ UNCHANGED <<phase, last_bytecode_thread>>
        /\ cursor' = [cursor EXCEPT ![s] = NoThread]
    BY <2>1 DEF ClearThreadSwitchCallback
  <2>4. Kept(t)
    BY <2>2, <2>3 DEF Kept, Pointed
  <2> QED BY <2>4, KeptKeepsInv
<1>8. ASSUME NEW outcome \in Outcomes, Begin(t, outcome) PROVE Inv'
  <2>1. phase[t] # "exited"
    BY <1>8 DEF Begin, In
  <2>2. CASE /\ phase' = [phase EXCEPT ![t] = "call_at"]
             /\ UNCHANGED <<last_bytecode_thread, cursor>>
    <3>1. Kept(t)
      BY <2>1, <2>2 DEF Kept, Pointed, Phases
    <3> QED BY <3>1, KeptKeepsInv
  <2>3. CASE CheckSwitch(t, outcome)
    BY <2>1, <2>3, CheckSwitchKeeps, KeptKeepsInv
  <2> QED BY <1>8, <2>2, <2>3 DEF Begin
<1>9. CASE BeginPrologue(t)
  <2>1. Kept(t)
    BY <1>9 DEF BeginPrologue, In, Kept, Pointed
  <2> QED BY <2>1, KeptKeepsInv
<1>10. ASSUME NEW outcome \in Outcomes, FinishCallAt(t, outcome) PROVE Inv'
  <2>1. phase[t] # "exited" /\ CheckSwitch(t, outcome)
    BY <1>10 DEF FinishCallAt, In
  <2> QED BY <2>1, CheckSwitchKeeps, KeptKeepsInv
<1>11. CASE FailCallAt(t)
  <2>1. Kept(t)
    BY <1>11 DEF FailCallAt, In, Kept, Pointed, Phases
  <2> QED BY <2>1, KeptKeepsInv
<1>12. CASE FinishSwitch(t)
  <2>1. Kept(t)
    BY <1>12 DEF FinishSwitch, In, Kept, Pointed, Phases
  <2> QED BY <2>1, KeptKeepsInv
<1>13. CASE Exit(t)
  <2>1. Gone(t)
    BY <1>13 DEF Exit, Gone
  <2> QED BY <2>1, GoneKeepsInv
<1>15. CASE Start(t)
  BY <1>15, StartKeepsInv
<1> QED
  BY <1>1, <1>2, <1>3, <1>4, <1>5, <1>6, <1>7, <1>8, <1>9, <1>10, <1>11,
     <1>12, <1>13, <1>14, <1>15 DEF Step

(* No pointer that the interpreter or an entry keeps to a thread state is  *)
(* left behind when the thread exits, for any threads and spaces.          *)
THEOREM PointersAreLive == Spec => []NoDanglingThread
<1>1. Inv /\ [Next]_vars => Inv'
  <2> SUFFICES ASSUME Inv, [Next]_vars
               PROVE  Inv'
    OBVIOUS
  <2>1. CASE Next
    BY <2>1, StepKeepsInv DEF Next
  <2>2. CASE UNCHANGED vars
    BY <2>2, UntouchedKeeps DEF vars, switchVars
  <2> QED BY <2>1, <2>2
<1>2. Inv => NoDanglingThread
  BY DEF Inv, PointersLive, Alive, NoDanglingThread
<1> QED BY InitInv, <1>1, <1>2, PTL DEF Spec

-----------------------------------------------------------------------------
(***************************************************************************)
(* Why the follower of a space knows who runs in it.  While the history is *)
(* straight a thread stays in one space, so that the interpreter's pointer *)
(* and the cursor of the space move together, and at most one thread is in *)
(* a switch callback, where the cursor is ahead.                           *)
(***************************************************************************)

FrameTypes ==
  /\ stack \in [Threads -> Seq(Spaces)]
  /\ fresh \subseteq Threads
  /\ position \in [Threads -> [Spaces -> Nat]]
  /\ seen \in [Threads -> SUBSET Spaces]
  /\ ran \in [Spaces -> Threads \cup {NoThread}]
  /\ thread_switch_callback \subseteq Spaces
  /\ straight \in BOOLEAN

(* A frame's space was seen by its thread, and the thread has a place in   *)
(* it once the frame is through its prologue.                              *)
FrameOK(t, i) ==
  /\ stack[t][i] \in seen[t]
  /\ t \notin fresh \/ i < Len(stack[t]) => position[t][stack[t][i]] > 0

ThreadOK(t) ==
  /\ t \in fresh => stack[t] # <<>> /\ phase[t] = "running"
  /\ phase[t] \in {"call_at", "switch"} => stack[t] # <<>>
  /\ phase[t] = "exited" => stack[t] = <<>>
  /\ \A i \in 1 .. Len(stack[t]) : FrameOK(t, i)

FramesInv ==
  /\ \A t \in Threads : ThreadOK(t)
  /\ last_bytecode_thread # NoThread => seen[last_bytecode_thread] # {}
  /\ thread_switch_armed <=> thread_switch_callback # {}

(* t has frames in s, or had and in no other space. *)
Mine(t, s) ==
  seen[t] = {s} \/ \E i \in 1 .. Len(stack[t]) : stack[t][i] = s

OneSpace ==
  \A t \in Threads : \A i, j \in 1 .. Len(stack[t]) : stack[t][i] = stack[t][j]

InSwitch(t) == phase[t] = "switch"

OneSwitch ==
  /\ \A t, u \in Threads : InSwitch(t) /\ InSwitch(u) => t = u
  /\ \A t \in Threads : InSwitch(t) =>
       /\ last_bytecode_thread \notin {t, NoThread}
       /\ TopSpace(t) \in thread_switch_callback => cursor[TopSpace(t)] = t

Ahead(s) ==
  cursor[s] # NoThread /\ InSwitch(cursor[s]) /\ TopSpace(cursor[s]) = s

CursorsFollow ==
  \A s \in thread_switch_callback : cursor[s] = ran[s] \/ Ahead(s)

PointersTogether ==
  (\A u \in Threads : ~ InSwitch(u)) =>
    \A s \in thread_switch_callback :
      /\ last_bytecode_thread # NoThread
      /\ Mine(last_bytecode_thread, s) => cursor[s] = last_bytecode_thread

SomeoneRan == last_bytecode_thread = NoThread => thread_switch_callback = {}

StraightInv ==
  straight => OneSpace /\ OneSwitch /\ CursorsFollow /\ PointersTogether
                       /\ SomeoneRan

FullInv == Inv /\ FrameTypes /\ FramesInv /\ StraightInv

LEMMA InitFullInv == Init => FullInv
<1> SUFFICES ASSUME Init PROVE FullInv
  OBVIOUS
<1>1. FrameTypes
  BY DEF Init, FrameTypes
<1>2. FramesInv
  BY BoundariesAssumption DEF Init, FramesInv, ThreadOK, FrameOK
<1>3. StraightInv
  BY DEF Init, StraightInv, OneSpace, OneSwitch, InSwitch, CursorsFollow,
         PointersTogether, SomeoneRan
<1> QED BY <1>1, <1>2, <1>3, InitInv DEF FullInv

(* The older frames of a stack *)
LEMMA FrontOfStack ==
  ASSUME NEW f \in Seq(Spaces), f # <<>>
  PROVE  /\ Front(f) \in Seq(Spaces)
         /\ Len(Front(f)) = Len(f) - 1
         /\ \A i \in 1 .. Len(f) - 1 : Front(f)[i] = f[i]
         /\ Len(f) \in 1 .. Len(f)
<1> DEFINE n == Len(f) - 1
<1>1. n \in Nat /\ Len(f) = n + 1
  OBVIOUS
<1>2. /\ SubSeq(f, 1, n) \in Seq(Spaces)
      /\ Len(SubSeq(f, 1, n)) = n
      /\ \A i \in 1 .. n : SubSeq(f, 1, n)[i] = f[i]
  <2> HIDE DEF n
  <2>1. SubSeq(f, 1, n) = [i \in 1 .. n |-> f[i]]
    BY <1>1
  <2>2. \A i \in 1 .. n : f[i] \in Spaces
    BY <1>1
  <2>3. [i \in 1 .. n |-> f[i]] \in [1 .. n -> Spaces]
    BY <2>2
  <2>4. [i \in 1 .. n |-> f[i]] \in Seq(Spaces) /\ Len([i \in 1 .. n |-> f[i]]) = n
    BY <1>1, <2>3
  <2> QED BY <2>1, <2>4
<1> QED BY <1>1, <1>2 DEF Front

LEMMA TopOfStack ==
  ASSUME FrameTypes, NEW t \in Threads, stack[t] # <<>>
  PROVE  /\ TopSpace(t) = stack[t][Len(stack[t])]
         /\ TopSpace(t) \in Spaces
         /\ Len(stack[t]) \in 1 .. Len(stack[t])
<1>1. stack[t] \in Seq(Spaces)
  BY DEF FrameTypes
<1> QED BY <1>1, FrontOfStack DEF TopSpace, Last

-----------------------------------------------------------------------------
(* Types and frames *)

LEMMA TypesKept ==
  ASSUME FullInv, NEW t \in Threads, Step(t)
  PROVE  FrameTypes'
<1> USE BoundariesAssumption
<1> USE DEF frameVars, switchVars, slotVars, callbackVars
<1>0. FrameTypes /\ PointersOK
  BY DEF FullInv, Inv
<1>1. ASSUME NEW s \in Spaces, Enter(t, s) PROVE FrameTypes'
  BY <1>0, <1>1 DEF Enter, FrameTypes
<1>2. CASE Leave(t)
  <2>1. stack[t] \in Seq(Spaces) /\ stack[t] # <<>>
    BY <1>0, <1>2 DEF Leave, FrameTypes
  <2>2. stack' = [stack EXCEPT ![t] = Front(stack[t])]
    BY <1>2 DEF Leave
  <2>3. stack' \in [Threads -> Seq(Spaces)]
    BY <1>0, <2>1, <2>2, FrontOfStack DEF FrameTypes
  <2>4. Moved(t, TopSpace(t)) \in Nat
    <3>1. TopSpace(t) \in Spaces
      BY <2>1, FrontOfStack DEF TopSpace, Last
    <3>2. position[t][TopSpace(t)] \in Nat
      BY <1>0, <3>1 DEF FrameTypes
    <3> QED BY <3>2 DEF Moved
  <2>5. position' \in [Threads -> [Spaces -> Nat]]
    BY <1>0, <1>2, <2>4 DEF Leave, FrameTypes
  <2> QED BY <1>0, <1>2, <2>3, <2>5 DEF Leave, FrameTypes
<1>3. CASE Include(t)
  <2>1. Moved(t, RootSpace) \in Nat
    BY <1>0 DEF Moved, FrameTypes
  <2>2. position' \in [Threads -> [Spaces -> Nat]]
    BY <1>0, <1>3, <2>1 DEF Include, FrameTypes
  <2>3. seen' \in [Threads -> SUBSET Spaces]
    BY <1>0, <1>3 DEF Include, FrameTypes
  <2> QED BY <1>0, <1>3, <2>2, <2>3 DEF Include, FrameTypes
<1>4. ASSUME NEW s \in Spaces, ClearCallAt(t, s) PROVE FrameTypes'
  BY <1>0, <1>4 DEF ClearCallAt, FrameTypes
<1>5. ASSUME NEW u \in Threads, NEW target \in Targets, CallAt(t, u, target)
      PROVE  FrameTypes'
  BY <1>0, <1>5 DEF CallAt, FrameTypes
<1>14. ASSUME NEW u \in Threads, NEW target \in Targets,
              CallAtFails(t, u, target)
       PROVE  FrameTypes'
  BY <1>0, <1>14 DEF CallAtFails, FrameTypes
<1>6. ASSUME NEW s \in Spaces, SetThreadSwitchCallback(t, s) PROVE FrameTypes'
  BY <1>0, <1>6 DEF SetThreadSwitchCallback, FrameTypes
<1>7. ASSUME NEW s \in Spaces, ClearThreadSwitchCallback(t, s)
      PROVE  FrameTypes'
  BY <1>0, <1>7 DEF ClearThreadSwitchCallback, FrameTypes
<1>8. ASSUME NEW outcome \in Outcomes, Begin(t, outcome) PROVE FrameTypes'
  <2>1. position' \in [Threads -> [Spaces -> Nat]]
    <3>1. position' = [position EXCEPT ![t][TopSpace(t)] = @ + 1]
      BY <1>8 DEF Begin
    <3>2. position[t][TopSpace(t)] + 1 \in Nat
      BY <1>0, <1>8, TopOfStack DEF Begin, FrameTypes
    <3> QED BY <1>0, <3>1, <3>2 DEF FrameTypes
  <2>2. ran' \in [Spaces -> Threads \cup {NoThread}]
    BY <1>0, <1>8 DEF Begin, CheckSwitch, FrameTypes
  <2> QED BY <1>0, <1>8, <2>1, <2>2 DEF Begin, FrameTypes
<1>9. CASE BeginPrologue(t)
  BY <1>0, <1>9 DEF BeginPrologue, FrameTypes
<1>10. ASSUME NEW outcome \in Outcomes, FinishCallAt(t, outcome)
       PROVE  FrameTypes'
  BY <1>0, <1>10 DEF FinishCallAt, CheckSwitch, FrameTypes
<1>11. CASE FailCallAt(t)
  BY <1>0, <1>11 DEF FailCallAt, FrameTypes
<1>12. CASE FinishSwitch(t)
  BY <1>0, <1>12 DEF FinishSwitch, FrameTypes
<1>13. CASE Exit(t)
  BY <1>0, <1>13 DEF Exit, FrameTypes
<1>15. CASE Start(t)
  BY <1>0, <1>15 DEF Start, FrameTypes
<1> QED
  BY <1>1, <1>2, <1>3, <1>4, <1>5, <1>6, <1>7, <1>8, <1>9, <1>10, <1>11,
     <1>12, <1>13, <1>14, <1>15 DEF Step

(* A thread that a step leaves alone stays as it should be. *)
LEMMA BystanderOK ==
  ASSUME NEW u \in Threads, ThreadOK(u),
         stack'[u] = stack[u], seen'[u] = seen[u],
         position'[u] = position[u], phase'[u] = phase[u],
         u \in fresh' <=> u \in fresh
  PROVE  ThreadOK(u)'
BY DEF ThreadOK, FrameOK

LEMMA ThreadsKept ==
  ASSUME FullInv, NEW t \in Threads, Step(t)
  PROVE  \A u \in Threads : ThreadOK(u)'
<1> USE BoundariesAssumption
<1> USE DEF frameVars, switchVars, slotVars, callbackVars
<1>0. FrameTypes /\ PhaseOK /\ \A u \in Threads : ThreadOK(u)
  BY DEF FullInv, FramesInv, Inv
<1>a. stack[t] \in Seq(Spaces)
  BY <1>0 DEF FrameTypes
<1>b. ASSUME UNCHANGED <<frameVars, phase>>
      PROVE  \A u \in Threads : ThreadOK(u)'
  BY <1>0, <1>b, BystanderOK
<1>1. ASSUME NEW s \in Spaces, Enter(t, s)
      PROVE  \A u \in Threads : ThreadOK(u)'
  <2>1. /\ stack' = [stack EXCEPT ![t] = Append(stack[t], s)]
        /\ fresh' = fresh \cup {t} /\ t \notin fresh
        /\ seen' = [seen EXCEPT ![t] = seen[t] \cup {s}]
        /\ position' = position /\ phase' = phase /\ phase[t] = "running"
    BY <1>1 DEF Enter, In
  <2>2. /\ stack'[t] = Append(stack[t], s)
        /\ seen'[t] = seen[t] \cup {s}
    BY <1>0, <2>1 DEF FrameTypes
  <2>3. /\ Len(stack'[t]) = Len(stack[t]) + 1
        /\ stack'[t][Len(stack[t]) + 1] = s
        /\ \A i \in 1 .. Len(stack[t]) : stack'[t][i] = stack[t][i]
        /\ Len(stack[t]) \in Nat
        /\ stack'[t] # <<>>
    BY <1>a, <2>2
  <2>4. ThreadOK(t)'
    <3>1. \A i \in 1 .. Len(stack[t]) : FrameOK(t, i)
      BY <1>0 DEF ThreadOK
    <3>2. ASSUME NEW i \in 1 .. Len(stack'[t])
          PROVE  FrameOK(t, i)'
      <4>1. CASE i = Len(stack[t]) + 1
        BY <2>1, <2>2, <2>3, <4>1 DEF FrameOK
      <4>2. CASE i # Len(stack[t]) + 1
        <5>1. i \in 1 .. Len(stack[t])
          BY <2>3, <4>2
        <5>2. FrameOK(t, i)
          BY <3>1, <5>1
        <5> QED BY <2>1, <2>2, <2>3, <5>1, <5>2 DEF FrameOK
      <4> QED BY <4>1, <4>2
    <3> QED BY <2>1, <2>3, <3>2 DEF ThreadOK
  <2>5. ASSUME NEW u \in Threads, u # t PROVE ThreadOK(u)'
    BY <1>0, <2>1, <2>5, BystanderOK DEF FrameTypes
  <2> QED BY <2>4, <2>5
<1>2. CASE Leave(t)
  <2> DEFINE top == TopSpace(t)
             moved == Moved(t, top)
  <2>1. /\ stack' = [stack EXCEPT ![t] = Front(stack[t])]
        /\ fresh' = fresh /\ t \notin fresh /\ seen' = seen
        /\ position' = [position EXCEPT ![t][top] = moved]
        /\ phase' = phase /\ phase[t] = "running"
        /\ stack[t] # <<>>
    BY <1>2 DEF Leave, In
  <2>2. /\ stack'[t] = Front(stack[t])
        /\ Len(stack'[t]) = Len(stack[t]) - 1
        /\ \A i \in 1 .. Len(stack[t]) - 1 : stack'[t][i] = stack[t][i]
        /\ Len(stack[t]) \in Nat
        /\ Len(stack'[t]) \in Nat
        /\ stack'[t] \in Seq(Spaces)
    <3>1. stack'[t] = Front(stack[t])
      BY <1>0, <2>1 DEF FrameTypes
    <3>2. /\ Front(stack[t]) \in Seq(Spaces)
          /\ Len(Front(stack[t])) = Len(stack[t]) - 1
          /\ \A i \in 1 .. Len(stack[t]) - 1 : Front(stack[t])[i] = stack[t][i]
      <4>1. stack[t] # <<>>
        BY <2>1
      <4> HIDE <1>0
      <4> QED BY <1>a, <4>1, FrontOfStack, Zenon
    <3>3. Len(stack[t]) \in Nat
      BY <1>a
    <3>4. Len(Front(stack[t])) \in Nat
      BY <3>2
    <3> HIDE <1>0, <2>1
    <3> QED BY <3>1, <3>2, <3>3, <3>4, Zenon
  <2>3. ASSUME NEW i \in 1 .. Len(stack'[t])
        PROVE  FrameOK(t, i)'
    <3>1. i \in 1 .. Len(stack[t]) /\ stack'[t][i] = stack[t][i]
      BY <2>2
    <3>2. FrameOK(t, i)
      BY <1>0, <3>1 DEF ThreadOK
    <3>3. stack[t][i] \in Spaces /\ top \in Spaces
      BY <1>0, <1>a, <2>1, <3>1, TopOfStack
    <3>4. position'[t][stack[t][i]] > 0
      <4>1. CASE stack[t][i] = top
        <5>1. top \in Range(stack'[t])
          BY <2>2, <3>1, <4>1 DEF Range
        <5>2. moved = position[t][top] + 1
          BY <5>1 DEF Moved
        <5>3. position'[t][top] = moved
          BY <1>0, <2>1, <3>3 DEF FrameTypes
        <5>4. position[t][top] \in Nat
          BY <1>0, <3>3 DEF FrameTypes
        <5> HIDE DEF top, moved
        <5> QED BY <4>1, <5>2, <5>3, <5>4
      <4>2. CASE stack[t][i] # top
        <5>1. position'[t][stack[t][i]] = position[t][stack[t][i]]
          BY <1>0, <2>1, <3>3, <4>2 DEF FrameTypes
        <5> QED BY <2>1, <3>2, <5>1 DEF FrameOK
      <4> QED BY <4>1, <4>2
    <3> QED BY <2>1, <3>1, <3>2, <3>4 DEF FrameOK
  <2>4. ThreadOK(t)'
    BY <1>0, <2>1, <2>3 DEF ThreadOK
  <2>5. ASSUME NEW u \in Threads, u # t PROVE ThreadOK(u)'
    <3>1. stack'[u] = stack[u] /\ position'[u] = position[u]
      BY <1>0, <2>1, <2>5 DEF FrameTypes
    <3> QED BY <1>0, <2>1, <3>1, BystanderOK
  <2> QED BY <2>4, <2>5
<1>3. CASE Include(t)
  <2> DEFINE moved == Moved(t, RootSpace)
  <2>1. /\ stack' = stack /\ fresh' = fresh /\ phase' = phase
        /\ seen' = [seen EXCEPT ![t] = seen[t] \cup {RootSpace}]
        /\ position' = [position EXCEPT ![t][RootSpace] = moved]
        /\ fresh \subseteq {t} /\ phase[t] \in {"call_at", "switch"}
    BY <1>3 DEF Include, InCallback, In
  <2>2. ASSUME NEW i \in 1 .. Len(stack[t])
        PROVE  FrameOK(t, i)'
    <3>1. FrameOK(t, i) /\ t \notin fresh
      BY <1>0, <2>1 DEF ThreadOK
    <3>2. stack[t][i] \in Spaces
      BY <1>a
    <3>3. position'[t][stack[t][i]] > 0
      <4>1. CASE stack[t][i] = RootSpace
        <5>1. RootSpace \in Range(stack'[t])
          BY <1>a, <2>1, <4>1 DEF Range
        <5>2. moved = position[t][RootSpace] + 1
          BY <5>1 DEF Moved
        <5>3. position'[t][RootSpace] = moved
          BY <1>0, <2>1 DEF FrameTypes
        <5>4. position[t][RootSpace] \in Nat
          BY <1>0 DEF FrameTypes
        <5> HIDE DEF moved
        <5> QED BY <4>1, <5>2, <5>3, <5>4
      <4>2. CASE stack[t][i] # RootSpace
        <5>1. position'[t][stack[t][i]] = position[t][stack[t][i]]
          BY <1>0, <2>1, <3>2, <4>2 DEF FrameTypes
        <5> QED BY <3>1, <5>1 DEF FrameOK
      <4> QED BY <4>1, <4>2
    <3>4. stack[t][i] \in seen'[t]
      BY <1>0, <2>1, <3>1 DEF FrameOK, FrameTypes
    <3> QED BY <2>1, <3>3, <3>4 DEF FrameOK
  <2>3. ThreadOK(t)'
    BY <1>0, <2>1, <2>2 DEF ThreadOK
  <2>4. ASSUME NEW u \in Threads, u # t PROVE ThreadOK(u)'
    <3>1. seen'[u] = seen[u] /\ position'[u] = position[u]
      BY <1>0, <2>1, <2>4 DEF FrameTypes
    <3> QED BY <1>0, <2>1, <3>1, BystanderOK
  <2> QED BY <2>3, <2>4
<1>4. ASSUME NEW s \in Spaces, ClearCallAt(t, s)
      PROVE  \A u \in Threads : ThreadOK(u)'
  BY <1>4, <1>b DEF ClearCallAt
<1>5. ASSUME NEW w \in Threads, NEW target \in Targets, CallAt(t, w, target)
      PROVE  \A u \in Threads : ThreadOK(u)'
  BY <1>5, <1>b DEF CallAt
<1>16. ASSUME NEW w \in Threads, NEW target \in Targets,
              CallAtFails(t, w, target)
       PROVE  \A u \in Threads : ThreadOK(u)'
  BY <1>16, <1>b DEF CallAtFails
<1>6. ASSUME NEW s \in Spaces, SetThreadSwitchCallback(t, s)
      PROVE  \A u \in Threads : ThreadOK(u)'
  BY <1>6, <1>b DEF SetThreadSwitchCallback
<1>7. ASSUME NEW s \in Spaces, ClearThreadSwitchCallback(t, s)
      PROVE  \A u \in Threads : ThreadOK(u)'
  BY <1>7, <1>b DEF ClearThreadSwitchCallback
<1>8. ASSUME NEW outcome \in Outcomes, Begin(t, outcome)
      PROVE  \A u \in Threads : ThreadOK(u)'
  <2> DEFINE top == TopSpace(t)
  <2>1. /\ stack' = stack /\ fresh' = fresh \ {t} /\ seen' = seen
        /\ position' = [position EXCEPT ![t][top] = position[t][top] + 1]
        /\ stack[t] # <<>> /\ fresh \subseteq {t}
    BY <1>8 DEF Begin, In
  <2>2. /\ \A u \in Threads \ {t} : phase'[u] = phase[u]
        /\ phase'[t] # "exited"
    BY <1>0, <1>8 DEF Begin, CheckSwitch, PhaseOK
  <2>3. top \in Spaces /\ top = stack[t][Len(stack[t])]
    BY <1>0, <2>1, TopOfStack
  <2>4. ASSUME NEW i \in 1 .. Len(stack[t])
        PROVE  FrameOK(t, i)'
    <3>1. FrameOK(t, i)
      BY <1>0 DEF ThreadOK
    <3>2. stack[t][i] \in Spaces /\ Len(stack[t]) \in Nat
      BY <1>a
    <3>3. position'[t][stack[t][i]] > 0
      <4>1. CASE stack[t][i] = top
        <5>1. position'[t][top] = position[t][top] + 1
          BY <1>0, <2>1, <2>3 DEF FrameTypes
        <5>2. position[t][top] \in Nat
          BY <1>0, <2>3 DEF FrameTypes
        <5> HIDE DEF top
        <5> QED BY <4>1, <5>1, <5>2
      <4>2. CASE stack[t][i] # top
        <5>1. position'[t][stack[t][i]] = position[t][stack[t][i]]
          BY <1>0, <2>1, <3>2, <4>2 DEF FrameTypes
        <5>2. i < Len(stack[t])
          BY <2>3, <3>2, <4>2
        <5> QED BY <3>1, <5>1, <5>2 DEF FrameOK
      <4> QED BY <4>1, <4>2
    <3> QED BY <2>1, <3>1, <3>3 DEF FrameOK
  <2>5. ThreadOK(t)'
    BY <2>1, <2>2, <2>4 DEF ThreadOK
  <2>6. ASSUME NEW u \in Threads, u # t PROVE ThreadOK(u)'
    <3>1. position'[u] = position[u]
      BY <1>0, <2>1, <2>6 DEF FrameTypes
    <3> QED BY <1>0, <2>1, <2>2, <2>6, <3>1, BystanderOK
  <2> QED BY <2>5, <2>6
<1>9. CASE BeginPrologue(t)
  BY <1>9, <1>b DEF BeginPrologue
<1>10. ASSUME UNCHANGED frameVars, stack[t] # <<>>, t \notin fresh,
              phase'[t] # "exited",
              \A u \in Threads \ {t} : phase'[u] = phase[u]
       PROVE  \A u \in Threads : ThreadOK(u)'
  <2>1. ThreadOK(t)'
    BY <1>0, <1>10 DEF ThreadOK, FrameOK
  <2>2. ASSUME NEW u \in Threads, u # t PROVE ThreadOK(u)'
    BY <1>0, <1>10, <2>2, BystanderOK
  <2> QED BY <2>1, <2>2
<1>11. ASSUME phase[t] \in {"call_at", "switch"}
       PROVE  stack[t] # <<>> /\ t \notin fresh
  BY <1>0, <1>11 DEF ThreadOK
<1>12. ASSUME NEW outcome \in Outcomes, FinishCallAt(t, outcome)
       PROVE  \A u \in Threads : ThreadOK(u)'
  <2>1. UNCHANGED frameVars /\ phase[t] = "call_at"
    BY <1>12 DEF FinishCallAt, In
  <2>2. /\ phase'[t] # "exited"
        /\ \A u \in Threads \ {t} : phase'[u] = phase[u]
    BY <1>0, <1>12 DEF FinishCallAt, CheckSwitch, PhaseOK
  <2> QED BY <2>1, <2>2, <1>10, <1>11
<1>13. CASE FailCallAt(t)
  <2>1. UNCHANGED frameVars /\ phase[t] = "call_at"
    BY <1>13 DEF FailCallAt, In
  <2>2. /\ phase'[t] # "exited"
        /\ \A u \in Threads \ {t} : phase'[u] = phase[u]
    BY <1>0, <1>13 DEF FailCallAt, PhaseOK
  <2> QED BY <2>1, <2>2, <1>10, <1>11
<1>14. CASE FinishSwitch(t)
  <2>1. UNCHANGED frameVars /\ phase[t] = "switch"
    BY <1>14 DEF FinishSwitch, In
  <2>2. /\ phase'[t] # "exited"
        /\ \A u \in Threads \ {t} : phase'[u] = phase[u]
    BY <1>0, <1>14 DEF FinishSwitch, PhaseOK
  <2> QED BY <2>1, <2>2, <1>10, <1>11
<1>15. CASE Exit(t)
  <2>1. /\ UNCHANGED frameVars /\ phase[t] = "running" /\ stack[t] = <<>>
        /\ phase' = [phase EXCEPT ![t] = "exited"]
    BY <1>15 DEF Exit, In
  <2>2. phase'[t] = "exited" /\ \A u \in Threads \ {t} : phase'[u] = phase[u]
    BY <1>0, <2>1 DEF PhaseOK
  <2>3. ThreadOK(t)'
    BY <1>0, <2>1, <2>2 DEF ThreadOK, FrameOK
  <2>4. ASSUME NEW u \in Threads, u # t PROVE ThreadOK(u)'
    BY <1>0, <2>1, <2>2, <2>4, BystanderOK
  <2> QED BY <2>3, <2>4
<1>17. CASE Start(t)
  <2>1. /\ UNCHANGED <<stack, fresh, position>>
        /\ seen' = [seen EXCEPT ![t] = {}]
        /\ phase' = [phase EXCEPT ![t] = "running"]
        /\ stack[t] = <<>> /\ t \notin fresh
    BY <1>0, <1>17 DEF Start, ThreadOK
  <2>2. ThreadOK(t)'
    BY <1>0, <2>1 DEF ThreadOK, FrameOK, PhaseOK
  <2>3. ASSUME NEW u \in Threads, u # t PROVE ThreadOK(u)'
    <3>1. seen'[u] = seen[u] /\ phase'[u] = phase[u]
      BY <1>0, <2>1, <2>3 DEF FrameTypes, PhaseOK
    <3> QED BY <1>0, <2>1, <2>3, <3>1, BystanderOK
  <2> QED BY <2>2, <2>3
<1> QED
  BY <1>1, <1>2, <1>3, <1>4, <1>5, <1>6, <1>7, <1>8, <1>9, <1>12, <1>13,
     <1>14, <1>15, <1>16, <1>17 DEF Step

(* A thread with frames has seen a space. *)
LEMMA FramesAreSeen ==
  ASSUME FrameTypes, NEW t \in Threads, ThreadOK(t), stack[t] # <<>>
  PROVE  TopSpace(t) \in seen[t]
<1>1. FrameOK(t, Len(stack[t]))
  BY TopOfStack DEF ThreadOK
<1> QED BY <1>1, TopOfStack DEF FrameOK

LEMMA FramesInvKept ==
  ASSUME FullInv, NEW t \in Threads, Step(t)
  PROVE  FramesInv'
<1> USE BoundariesAssumption
<1> USE DEF frameVars, switchVars, slotVars, callbackVars
<1>0. FrameTypes /\ FramesInv /\ PointersOK /\ PhaseOK
  BY DEF FullInv, Inv
<1>1. \A u \in Threads : ThreadOK(u)'
  BY ThreadsKept
<1>a. CASE Start(t)
  <2>1. /\ UNCHANGED <<last_bytecode_thread, callbackVars>>
        /\ seen' = [seen EXCEPT ![t] = {}]
    BY <1>a DEF Start
  <2>2. last_bytecode_thread # t
    BY <1>a, StartKeepsInv DEF FullInv
  <2>3. last_bytecode_thread' # NoThread => seen'[last_bytecode_thread'] # {}
    BY <1>0, <2>1, <2>2 DEF FrameTypes, FramesInv, PointersOK
  <2>4. (thread_switch_armed <=> thread_switch_callback # {})'
    BY <1>0, <2>1 DEF FramesInv
  <2> QED BY <1>1, <2>3, <2>4 DEF FramesInv
<1> SUFFICES ASSUME ~ Start(t) PROVE FramesInv'
  BY <1>a
<1>2. last_bytecode_thread' = last_bytecode_thread
        \/ (last_bytecode_thread' = t /\ stack[t] # <<>>)
        \/ last_bytecode_thread' = NoThread
  <2>0. phase[t] \in {"call_at", "switch"} => stack[t] # <<>>
    BY <1>0 DEF FramesInv, ThreadOK
  <2>1. CASE \E outcome \in Outcomes : FinishCallAt(t, outcome)
    BY <2>0, <2>1 DEF FinishCallAt, CheckSwitch, In
  <2>2. CASE FinishSwitch(t)
    BY <2>0, <2>2 DEF FinishSwitch, In
  <2>3. CASE BeginPrologue(t)
    BY <1>0, <2>3 DEF BeginPrologue, FramesInv, ThreadOK
  <2>4. CASE \E outcome \in Outcomes : Begin(t, outcome)
    BY <2>4 DEF Begin, CheckSwitch
  <2> QED
    BY <2>1, <2>2, <2>3, <2>4 DEF Step, Enter, Leave, Include, ClearCallAt,
       CallAt, CallAtFails, SetThreadSwitchCallback, ClearThreadSwitchCallback, FailCallAt,
       Exit
<1>3. \A u \in Threads : seen[u] \subseteq seen'[u]
  <2>0. seen \in [Threads -> SUBSET Spaces]
    BY <1>0 DEF FrameTypes
  <2>1. ASSUME NEW s \in Spaces, seen' = [seen EXCEPT ![t] = @ \cup {s}]
        PROVE  \A u \in Threads : seen[u] \subseteq seen'[u]
    BY <2>0, <2>1
  <2>2. CASE \E s \in Spaces : Enter(t, s)
    BY <2>1, <2>2 DEF Enter
  <2>3. CASE Include(t)
    BY <2>1, <2>3 DEF Include
  <2>4. CASE seen' = seen
    BY <2>4
  <2> QED
    BY <2>2, <2>3, <2>4 DEF Step, Leave, ClearCallAt, CallAt, CallAtFails,
       SetThreadSwitchCallback, ClearThreadSwitchCallback, Begin,
       BeginPrologue, FinishCallAt, FailCallAt, FinishSwitch, Exit
<1>4. stack[t] # <<>> => seen[t] # {}
  BY <1>0, FramesAreSeen DEF FramesInv
<1>5. last_bytecode_thread' # NoThread => seen'[last_bytecode_thread'] # {}
  <2>1. CASE last_bytecode_thread' = last_bytecode_thread
    BY <1>0, <1>3, <2>1 DEF FramesInv, PointersOK
  <2>2. CASE last_bytecode_thread' = t /\ stack[t] # <<>>
    BY <1>3, <1>4, <2>2
  <2> QED BY <1>2, <2>1, <2>2
<1>6. (thread_switch_armed <=> thread_switch_callback # {})'
  <2>1. CASE \E s \in Spaces : SetThreadSwitchCallback(t, s)
    BY <2>1 DEF SetThreadSwitchCallback
  <2>2. CASE \E s \in Spaces : ClearThreadSwitchCallback(t, s)
    BY <2>2 DEF ClearThreadSwitchCallback
  <2>3. CASE UNCHANGED callbackVars
    BY <1>0, <2>3 DEF FramesInv
  <2> QED
    BY <2>1, <2>2, <2>3 DEF Step, Enter, Leave, Include, ClearCallAt, CallAt, CallAtFails,
       Begin, BeginPrologue, FinishCallAt, FailCallAt, FinishSwitch, Exit
<1> QED BY <1>1, <1>5, <1>6 DEF FramesInv

-----------------------------------------------------------------------------
(* The straight history *)

(* While the history is straight t stays in the space of its frames. *)
LEMMA MineIsTop ==
  ASSUME FrameTypes, OneSpace, NEW t \in Threads, ThreadOK(t),
         stack[t] # <<>>, NEW s \in Spaces, Mine(t, s)
  PROVE  s = TopSpace(t)
<1>1. CASE seen[t] = {s}
  BY <1>1, FramesAreSeen
<1>2. CASE \E i \in 1 .. Len(stack[t]) : stack[t][i] = s
  BY <1>2, TopOfStack DEF OneSpace
<1> QED BY <1>1, <1>2 DEF Mine

(* The end of a boundary, when nobody is in a switch callback: either t    *)
(* goes into the callback, with the cursor of its space ahead, or it goes  *)
(* on and the pointer, the cursor and the history all say t.               *)
LEMMA CheckSwitchFollows ==
  ASSUME FullInv, straight, NEW t \in Threads, stack[t] # <<>>,
         \A u \in Threads : ~ InSwitch(u),
         CheckSwitch(t, "told"),
         UNCHANGED <<stack, seen, thread_switch_callback>>
  PROVE  OneSpace' /\ OneSwitch' /\ CursorsFollow' /\ PointersTogether'
           /\ SomeoneRan'
<1> USE BoundariesAssumption
<1> DEFINE top == TopSpace(t)
           due == SwitchDue(t, top)
           reported == due /\ cursor[top] # NoThread
<1>0. /\ FrameTypes /\ PointersOK /\ PhaseOK /\ FramesInv
      /\ OneSpace /\ CursorsFollow /\ PointersTogether /\ SomeoneRan
      /\ ThreadOK(t)
  BY DEF FullInv, Inv, StraightInv, FramesInv
<1>1. top \in Spaces
  BY <1>0, TopOfStack
<1>2. /\ cursor' = IF due THEN [cursor EXCEPT ![top] = t] ELSE cursor
      /\ phase' = [phase EXCEPT ![t] = IF reported THEN "switch" ELSE "running"]
      /\ last_bytecode_thread' = IF reported THEN last_bytecode_thread ELSE t
      /\ ran' = IF reported THEN ran ELSE [ran EXCEPT ![top] = t]
  BY DEF CheckSwitch, Advanced
<1>3. due <=> /\ last_bytecode_thread \notin {t, NoThread}
              /\ top \in thread_switch_callback
              /\ cursor[top] # t
  BY <1>0 DEF SwitchDue, FramesInv
<1>4. \A s \in thread_switch_callback : cursor[s] = ran[s] /\ s \in Spaces
  BY <1>0 DEF CursorsFollow, Ahead, FrameTypes, PointersOK
<1>5. top \in thread_switch_callback => cursor'[top] = t
  <2>1. CASE top \in thread_switch_callback /\ last_bytecode_thread = t
    <3>1. Mine(t, top)
      BY <1>0, TopOfStack DEF Mine
    <3>2. cursor[top] = t
      BY <1>0, <2>1, <3>1 DEF PointersTogether
    <3> QED BY <1>2, <1>3, <3>2
  <2>2. CASE top \in thread_switch_callback /\ last_bytecode_thread # t
    <3>1. last_bytecode_thread # NoThread
      BY <1>0, <2>2 DEF SomeoneRan
    <3> HIDE DEF top, due, reported
    <3> QED BY <1>0, <1>1, <1>2, <1>3, <2>2, <3>1 DEF PointersOK
  <2> QED BY <2>1, <2>2
<1>6. \A s \in thread_switch_callback \ {top} :
        cursor'[s] = cursor[s] /\ ran'[s] = ran[s]
  <2> HIDE DEF top, due, reported
  <2> QED BY <1>0, <1>1, <1>2, <1>4 DEF PointersOK, FrameTypes
<1>7. TopSpace(t)' = top
  BY DEF TopSpace
<1>8. \A u \in Threads : u # t => phase'[u] = phase[u]
  BY <1>0, <1>2 DEF PhaseOK
<1>9. phase'[t] = IF reported THEN "switch" ELSE "running"
  BY <1>0, <1>2 DEF PhaseOK
<1>10. OneSpace'
  BY <1>0 DEF OneSpace
<1>11. SomeoneRan'
  <2> HIDE DEF top, due, reported
  <2> QED BY <1>0, <1>2 DEF SomeoneRan
<1> SUFFICES OneSwitch' /\ CursorsFollow' /\ PointersTogether'
  BY <1>10, <1>11
<1>12. CASE reported
  <2>1. OneSwitch'
    <3>1. \A u \in Threads : InSwitch(u)' => u = t
      BY <1>8 DEF InSwitch
    <3>2. last_bytecode_thread' \notin {t, NoThread}
      BY <1>2, <1>3, <1>12
    <3> QED BY <1>5, <1>7, <3>1, <3>2 DEF OneSwitch
  <2>2. CursorsFollow'
    <3>1. ASSUME NEW s \in thread_switch_callback
          PROVE  cursor'[s] = ran'[s] \/ Ahead(s)'
      <4>1. CASE s = top
        BY <1>5, <1>7, <1>9, <1>12, <4>1 DEF Ahead, InSwitch
      <4>2. CASE s # top
        BY <1>4, <1>6, <4>2
      <4> QED BY <4>1, <4>2
    <3> QED BY <3>1 DEF CursorsFollow
  <2>3. PointersTogether'
    BY <1>9, <1>12 DEF PointersTogether, InSwitch
  <2> QED BY <2>1, <2>2, <2>3
<1>13. CASE ~ reported
  <2>1. last_bytecode_thread' = t /\ ran' = [ran EXCEPT ![top] = t]
    BY <1>2, <1>13
  <2>2. OneSwitch'
    BY <1>8, <1>9, <1>13 DEF OneSwitch, InSwitch
  <2>3. CursorsFollow'
    <3>1. ran'[top] = t
      BY <1>0, <1>1, <2>1 DEF FrameTypes
    <3>2. \A s \in thread_switch_callback : cursor'[s] = ran'[s]
      BY <1>4, <1>5, <1>6, <3>1
    <3> QED BY <3>2 DEF CursorsFollow
  <2>4. PointersTogether'
    <3>1. ASSUME NEW s \in thread_switch_callback, Mine(t, s)'
          PROVE  cursor'[s] = t
      <4>1. Mine(t, s)
        BY <3>1 DEF Mine
      <4>2. s = top
        BY <1>0, <1>4, <4>1, MineIsTop
      <4> QED BY <1>5, <4>2
    <3> QED BY <2>1, <3>1 DEF PointersTogether
  <2> QED BY <2>2, <2>3, <2>4
<1> QED BY <1>12, <1>13

Straight == OneSpace /\ OneSwitch /\ CursorsFollow /\ PointersTogether
              /\ SomeoneRan

(* A step that moves no pointer, that nobody enters or leaves a switch     *)
(* callback by, and after which the last thread has no other space.        *)
LEMMA PointersAside ==
  ASSUME Straight, PointersOK, FrameTypes,
         UNCHANGED <<switchVars, thread_switch_callback>>,
         \A u \in Threads : InSwitch(u)' <=> InSwitch(u),
         \A u \in Threads : InSwitch(u) => stack'[u] = stack[u],
         OneSpace',
         ASSUME NEW u \in Threads, u = last_bytecode_thread,
                NEW s \in Spaces, Mine(u, s)'
         PROVE  Mine(u, s)
  PROVE  Straight'
<1> USE DEF switchVars
<1>1. OneSwitch'
  BY DEF Straight, OneSwitch, TopSpace
<1>2. CursorsFollow'
  <2>1. ASSUME NEW s \in thread_switch_callback, Ahead(s)
        PROVE  Ahead(s)'
    <3>1. cursor[s] \in Threads /\ InSwitch(cursor[s])
      BY <2>1 DEF PointersOK, FrameTypes, Ahead
    <3> QED BY <2>1, <3>1 DEF Ahead, TopSpace
  <2> QED BY <2>1 DEF Straight, CursorsFollow
<1>3. PointersTogether'
  <2> SUFFICES ASSUME \A u \in Threads : ~ InSwitch(u)',
                      NEW s \in thread_switch_callback'
               PROVE  /\ last_bytecode_thread' # NoThread
                      /\ Mine(last_bytecode_thread, s)'
                           => cursor'[s] = last_bytecode_thread'
    BY DEF PointersTogether
  <2>1. \A u \in Threads : ~ InSwitch(u)
    OBVIOUS
  <2>2. /\ last_bytecode_thread # NoThread
        /\ Mine(last_bytecode_thread, s) => cursor[s] = last_bytecode_thread
    BY <2>1 DEF Straight, PointersTogether
  <2>3. s \in Spaces /\ last_bytecode_thread \in Threads
    BY <2>2 DEF FrameTypes, PointersOK
  <2>4. CASE Mine(last_bytecode_thread, s)'
    <3>1. PICK u \in Threads : u = last_bytecode_thread
      BY <2>3
    <3>2. Mine(u, s)'
      BY <2>4, <3>1 DEF Mine, switchVars
    <3> QED BY <2>2, <2>3, <3>1, <3>2
  <2> QED BY <2>2, <2>4
<1>4. SomeoneRan'
  BY DEF Straight, SomeoneRan
<1> QED BY <1>1, <1>2, <1>3, <1>4 DEF Straight

LEMMA StraightEnter ==
  ASSUME FullInv, Straight, NEW t \in Threads, NEW s \in Spaces,
         Enter(t, s), seen[t] \subseteq {s}
  PROVE  Straight'
<1> USE BoundariesAssumption
<1>0. /\ FrameTypes /\ PointersOK /\ PhaseOK /\ FramesInv /\ ThreadOK(t)
      /\ OneSpace
  BY DEF FullInv, Inv, FramesInv, Straight
<1>1. /\ stack' = [stack EXCEPT ![t] = Append(stack[t], s)]
      /\ seen' = [seen EXCEPT ![t] = seen[t] \cup {s}]
      /\ UNCHANGED <<phase, switchVars, thread_switch_callback>>
      /\ phase[t] = "running"
  BY DEF Enter, In, callbackVars
<1>2. \A u \in Threads \ {t} : stack'[u] = stack[u] /\ seen'[u] = seen[u]
  BY <1>0, <1>1 DEF FrameTypes
<1>3. stack'[t] = Append(stack[t], s) /\ seen'[t] = {s}
  BY <1>0, <1>1 DEF FrameTypes
<1>4. \A i \in 1 .. Len(stack'[t]) : stack'[t][i] = s
  <2>1. stack[t] \in Seq(Spaces)
    BY <1>0 DEF FrameTypes
  <2>2. \A i \in 1 .. Len(stack[t]) : stack[t][i] = s
    BY <1>0 DEF ThreadOK, FrameOK
  <2> QED BY <1>3, <2>1, <2>2
<1>5. OneSpace'
  BY <1>0, <1>2, <1>4 DEF OneSpace
<1>6. ASSUME NEW u \in Threads, u = last_bytecode_thread,
             NEW r \in Spaces, Mine(u, r)'
      PROVE  Mine(u, r)
  <2>1. CASE u # t
    BY <1>2, <1>6, <2>1 DEF Mine
  <2>2. CASE u = t
    <3>1. seen[t] = {s}
      BY <1>0, <1>6, <2>2 DEF FramesInv
    <3>2. r = s
      <4>1. CASE seen'[t] = {r}
        BY <1>3, <4>1
      <4>2. CASE \E i \in 1 .. Len(stack'[t]) : stack'[t][i] = r
        BY <1>4, <4>2
      <4>3. Mine(t, r)'
        BY <1>6, <2>2
      <4> QED BY <4>1, <4>2, <4>3 DEF Mine
    <3> QED BY <2>2, <3>1, <3>2 DEF Mine
  <2> QED BY <2>1, <2>2
<1>7. \A u \in Threads : InSwitch(u)' <=> InSwitch(u)
  BY <1>1 DEF InSwitch
<1>8. \A u \in Threads : InSwitch(u) => stack'[u] = stack[u]
  BY <1>1, <1>2 DEF InSwitch
<1> QED BY <1>0, <1>1, <1>5, <1>6, <1>7, <1>8, PointersAside

LEMMA StraightLeave ==
  ASSUME FullInv, Straight, NEW t \in Threads, Leave(t)
  PROVE  Straight'
<1>0. FrameTypes /\ PointersOK /\ OneSpace
  BY DEF FullInv, Inv, Straight
<1>1. /\ stack' = [stack EXCEPT ![t] = Front(stack[t])]
      /\ UNCHANGED <<seen, phase, switchVars, thread_switch_callback>>
      /\ phase[t] = "running" /\ stack[t] # <<>>
  BY DEF Leave, In, callbackVars
<1>2. \A u \in Threads \ {t} : stack'[u] = stack[u]
  BY <1>0, <1>1 DEF FrameTypes
<1>3. \A i \in 1 .. Len(stack'[t]) :
        i \in 1 .. Len(stack[t]) /\ stack'[t][i] = stack[t][i]
  <2>1. stack[t] \in Seq(Spaces) /\ stack'[t] = Front(stack[t])
    BY <1>0, <1>1 DEF FrameTypes
  <2> QED BY <1>1, <2>1, FrontOfStack
<1>4. OneSpace'
  BY <1>0, <1>2, <1>3 DEF OneSpace
<1>5. ASSUME NEW u \in Threads, u = last_bytecode_thread,
             NEW r \in Spaces, Mine(u, r)'
      PROVE  Mine(u, r)
  BY <1>1, <1>2, <1>3, <1>5 DEF Mine
<1>6. \A u \in Threads : InSwitch(u)' <=> InSwitch(u)
  BY <1>1 DEF InSwitch
<1>7. \A u \in Threads : InSwitch(u) => stack'[u] = stack[u]
  BY <1>1, <1>2 DEF InSwitch
<1> QED BY <1>0, <1>1, <1>4, <1>5, <1>6, <1>7, PointersAside

LEMMA StraightInclude ==
  ASSUME FullInv, Straight, NEW t \in Threads, Include(t)
  PROVE  Straight'
<1> USE BoundariesAssumption
<1>0. FrameTypes /\ PointersOK /\ OneSpace /\ FramesInv /\ ThreadOK(t)
  BY DEF FullInv, Inv, Straight, FramesInv
<1>1. /\ stack' = stack
      /\ seen' = [seen EXCEPT ![t] = seen[t] \cup {RootSpace}]
      /\ UNCHANGED <<phase, switchVars, thread_switch_callback>>
      /\ phase[t] \in {"call_at", "switch"}
  BY DEF Include, InCallback, In, callbackVars
<1>2. stack[t] # <<>>
  BY <1>0, <1>1 DEF ThreadOK
<1>3. OneSpace'
  BY <1>0, <1>1 DEF OneSpace
<1>4. ASSUME NEW u \in Threads, u = last_bytecode_thread,
             NEW r \in Spaces, Mine(u, r)'
      PROVE  Mine(u, r)
  <2>1. CASE u # t
    BY <1>0, <1>1, <1>4, <2>1 DEF Mine, FrameTypes
  <2>2. CASE u = t /\ seen'[t] = {r}
    <3>1. TopSpace(t) \in seen[t] /\ seen[t] \subseteq seen'[t]
      BY <1>0, <1>1, <1>2, FramesAreSeen DEF FrameTypes
    <3>2. TopSpace(t) = r
      BY <2>2, <3>1
    <3> QED BY <1>0, <1>2, <2>2, <3>2, TopOfStack DEF Mine
  <2> QED BY <1>1, <1>4, <2>1, <2>2 DEF Mine
<1>5. \A u \in Threads : InSwitch(u)' <=> InSwitch(u)
  BY <1>1 DEF InSwitch
<1> QED BY <1>0, <1>1, <1>3, <1>4, <1>5, PointersAside

LEMMA StraightSet ==
  ASSUME FullInv, Straight, NEW t \in Threads, NEW s \in Spaces,
         SetThreadSwitchCallback(t, s), last_bytecode_thread = t,
         ~ Interrupts(t)
  PROVE  Straight'
<1> USE BoundariesAssumption
<1> DEFINE visible == IF position[t][s] > 0 THEN t ELSE NoThread
<1>0. /\ FrameTypes /\ PointersOK /\ FramesInv /\ ThreadOK(t)
      /\ OneSpace /\ OneSwitch /\ CursorsFollow /\ PointersTogether
  BY DEF FullInv, Inv, Straight, FramesInv
<1>1. /\ cursor' = [cursor EXCEPT ![s] = visible]
      /\ ran' = [ran EXCEPT ![s] = visible]
      /\ thread_switch_callback' = thread_switch_callback \cup {s}
      /\ UNCHANGED <<stack, seen, phase, last_bytecode_thread>>
  BY DEF SetThreadSwitchCallback, frameVars
<1>2. \A u \in Threads : ~ InSwitch(u)
  BY <1>0 DEF Interrupts, InSwitch, OneSwitch
<1>3. /\ cursor'[s] = visible /\ ran'[s] = visible
      /\ \A r \in Spaces \ {s} : cursor'[r] = cursor[r] /\ ran'[r] = ran[r]
  <2> HIDE DEF visible
  <2> QED BY <1>0, <1>1 DEF FrameTypes, PointersOK
<1>4. thread_switch_callback \subseteq Spaces
  BY <1>0 DEF FrameTypes
<1>5. OneSpace' /\ OneSwitch' /\ SomeoneRan'
  BY <1>0, <1>1, <1>2 DEF OneSpace, OneSwitch, InSwitch, SomeoneRan
<1>6. CursorsFollow'
  <2> HIDE DEF visible
  <2>1. \A r \in thread_switch_callback : cursor[r] = ran[r]
    BY <1>0, <1>2, <1>4 DEF CursorsFollow, Ahead, PointersOK
  <2> QED BY <1>1, <1>3, <1>4, <2>1 DEF CursorsFollow
<1>7. ASSUME Mine(t, s)
      PROVE  visible = t
  <2>1. stack[t] # <<>> /\ t \notin fresh
    BY <1>0 DEF SetThreadSwitchCallback, Instructed, InCallback, In, ThreadOK
  <2>2. s = TopSpace(t)
    BY <1>0, <1>7, <2>1, MineIsTop
  <2>3. FrameOK(t, Len(stack[t])) /\ s = stack[t][Len(stack[t])]
    BY <1>0, <2>1, <2>2, TopOfStack DEF ThreadOK
  <2>4. position[t][s] > 0
    BY <2>1, <2>3 DEF FrameOK
  <2> QED BY <2>4
<1>8. PointersTogether'
  <2> HIDE DEF visible
  <2>1. ASSUME NEW r \in thread_switch_callback', Mine(t, r)'
        PROVE  cursor'[r] = t
    <3>1. Mine(t, r)
      BY <1>1, <2>1 DEF Mine
    <3>2. CASE r = s
      BY <1>3, <1>7, <3>1, <3>2
    <3>3. CASE r # s
      BY <1>0, <1>1, <1>2, <1>3, <1>4, <2>1, <3>1, <3>3 DEF PointersTogether
    <3> QED BY <3>2, <3>3
  <2> QED BY <1>1, <2>1 DEF PointersTogether
<1> QED BY <1>5, <1>6, <1>8 DEF Straight

LEMMA StraightClear ==
  ASSUME FullInv, Straight, NEW t \in Threads, NEW s \in Spaces,
         ClearThreadSwitchCallback(t, s)
  PROVE  Straight'
<1>0. /\ FrameTypes /\ PointersOK
      /\ OneSpace /\ OneSwitch /\ CursorsFollow /\ PointersTogether
      /\ SomeoneRan
  BY DEF FullInv, Inv, Straight
<1>1. /\ cursor' = [cursor EXCEPT ![s] = NoThread]
      /\ ran' = [ran EXCEPT ![s] = NoThread]
      /\ thread_switch_callback' = thread_switch_callback \ {s}
      /\ UNCHANGED <<stack, seen, phase, last_bytecode_thread>>
  BY DEF ClearThreadSwitchCallback, frameVars
<1>2. \A r \in thread_switch_callback' :
        cursor'[r] = cursor[r] /\ ran'[r] = ran[r]
          /\ r \in thread_switch_callback
  BY <1>0, <1>1 DEF FrameTypes, PointersOK
<1>3. OneSpace' /\ SomeoneRan'
  BY <1>0, <1>1 DEF OneSpace, SomeoneRan
<1>4. OneSwitch'
  BY <1>0, <1>1, <1>2 DEF OneSwitch, InSwitch, TopSpace
<1>5. CursorsFollow'
  <2>1. ASSUME NEW r \in thread_switch_callback'
        PROVE  cursor'[r] = ran'[r] \/ Ahead(r)'
    <3>1. cursor[r] = ran[r] \/ Ahead(r)
      BY <1>0, <1>2, <2>1 DEF CursorsFollow
    <3> QED BY <1>1, <1>2, <2>1, <3>1 DEF Ahead, InSwitch, TopSpace
  <2> QED BY <2>1 DEF CursorsFollow
<1>6. PointersTogether'
  BY <1>0, <1>1, <1>2 DEF PointersTogether, InSwitch, Mine
<1> QED BY <1>3, <1>4, <1>5, <1>6 DEF Straight

LEMMA StraightFinish ==
  ASSUME FullInv, Straight, NEW t \in Threads, FinishSwitch(t)
  PROVE  Straight'
<1> USE BoundariesAssumption
<1> DEFINE top == TopSpace(t)
<1>0. /\ FrameTypes /\ PointersOK /\ PhaseOK /\ FramesInv /\ ThreadOK(t)
      /\ OneSpace /\ OneSwitch /\ CursorsFollow /\ PointersTogether
  BY DEF FullInv, Inv, Straight, FramesInv
<1>1. /\ phase' = [phase EXCEPT ![t] = "running"]
      /\ last_bytecode_thread' = t
      /\ ran' = [ran EXCEPT ![top] = t]
      /\ UNCHANGED <<stack, seen, cursor, thread_switch_callback>>
      /\ phase[t] = "switch"
  BY DEF FinishSwitch, In, frameVars, callbackVars
<1>2. stack[t] # <<>> /\ top \in Spaces
  BY <1>0, <1>1, TopOfStack DEF ThreadOK
<1>3. \A u \in Threads : ~ InSwitch(u)'
  BY <1>0, <1>1 DEF OneSwitch, InSwitch, PhaseOK
<1>4. top \in thread_switch_callback => cursor[top] = t
  BY <1>0, <1>1 DEF OneSwitch, InSwitch
<1>5. OneSpace' /\ OneSwitch' /\ SomeoneRan'
  BY <1>0, <1>1, <1>3 DEF OneSpace, OneSwitch, SomeoneRan
<1>6. CursorsFollow'
  <2>1. ASSUME NEW s \in thread_switch_callback
        PROVE  cursor[s] = ran'[s]
    <3>0. s \in Spaces
      BY <1>0 DEF FrameTypes
    <3>1. CASE s = top
      <4>1. ran'[top] = t
        BY <1>0, <1>1, <1>2 DEF FrameTypes
      <4> QED BY <1>4, <3>1, <4>1
    <3>2. CASE s # top
      <4>1. ran'[s] = ran[s]
        BY <1>0, <1>1, <3>0, <3>2 DEF FrameTypes
      <4>2. cursor[s] \in Threads \cup {NoThread}
        BY <1>0, <3>0 DEF PointersOK
      <4>3. ~ Ahead(s)
        BY <1>0, <1>1, <3>2, <4>2 DEF Ahead, InSwitch, OneSwitch
      <4> QED BY <1>0, <4>1, <4>3 DEF CursorsFollow
    <3> QED BY <3>1, <3>2
  <2> QED BY <1>1, <2>1 DEF CursorsFollow
<1>7. PointersTogether'
  <2>1. ASSUME NEW s \in thread_switch_callback, Mine(t, s)'
        PROVE  cursor[s] = t
    <3>1. Mine(t, s) /\ s \in Spaces
      BY <1>0, <1>1, <2>1 DEF Mine, FrameTypes
    <3> QED BY <1>0, <1>2, <1>4, <3>1, MineIsTop
  <2> QED BY <1>1, <2>1 DEF PointersTogether
<1> QED BY <1>5, <1>6, <1>7 DEF Straight

(* What is left moves no pointer, or ends a boundary. *)
LEMMA StraightBoundary ==
  ASSUME FullInv, Straight, straight, NEW t \in Threads,
         stack[t] # <<>>, phase[t] \in {"running", "call_at"},
         UNCHANGED <<stack, seen, thread_switch_callback>>,
         \/ /\ CheckSwitch(t, "told")
            /\ ~ Interrupts(t)
         \/ /\ \E where \in {"running", "call_at"} :
                 phase' = [phase EXCEPT ![t] = where]
            /\ UNCHANGED switchVars
  PROVE  Straight'
<1>0. FrameTypes /\ PointersOK /\ PhaseOK /\ OneSpace
  BY DEF FullInv, Inv, Straight
<1>1. CASE CheckSwitch(t, "told") /\ ~ Interrupts(t)
  <2>1. \A u \in Threads : ~ InSwitch(u)
    BY <1>1 DEF Interrupts, InSwitch
  <2> QED BY <1>1, <2>1, CheckSwitchFollows DEF Straight
<1>2. CASE /\ \E where \in {"running", "call_at"} :
                phase' = [phase EXCEPT ![t] = where]
           /\ UNCHANGED switchVars
  <2>1. \A u \in Threads : InSwitch(u)' <=> InSwitch(u)
    BY <1>0, <1>2 DEF InSwitch, PhaseOK
  <2>2. OneSpace'
    BY <1>0 DEF OneSpace
  <2>3. ASSUME NEW u \in Threads, u = last_bytecode_thread,
               NEW r \in Spaces, Mine(u, r)'
        PROVE  Mine(u, r)
    BY <2>3 DEF Mine
  <2> QED BY <1>0, <1>2, <2>1, <2>2, <2>3, PointersAside
<1> QED BY <1>1, <1>2

LEMMA StraightInvKept ==
  ASSUME FullInv, NEW t \in Threads, Step(t)
  PROVE  StraightInv'
<1> SUFFICES ASSUME straight' PROVE Straight'
  BY DEF StraightInv, Straight
<1> USE DEF frameVars, callbackVars
<1>0. /\ straight => Straight
      /\ PointersOK
      /\ FramesInv /\ ThreadOK(t)
  BY DEF FullInv, Inv, StraightInv, Straight, FramesInv
<1>1. ASSUME NEW s \in Spaces, Enter(t, s) PROVE Straight'
  <2>1. straight /\ seen[t] \subseteq {s}
    BY <1>1 DEF Enter
  <2> QED BY <1>0, <1>1, <2>1, StraightEnter
<1>2. CASE Leave(t)
  <2>1. straight
    BY <1>2 DEF Leave
  <2> QED BY <1>0, <1>2, <2>1, StraightLeave
<1>3. CASE Include(t)
  <2>1. straight
    BY <1>3 DEF Include
  <2> QED BY <1>0, <1>3, <2>1, StraightInclude
<1>4. ASSUME straight,
             UNCHANGED <<stack, seen, phase, switchVars,
                         thread_switch_callback>>
      PROVE  Straight'
  <2>1. OneSpace' /\ \A u \in Threads : InSwitch(u)' <=> InSwitch(u)
    BY <1>0, <1>4 DEF OneSpace, InSwitch, Straight
  <2>2. ASSUME NEW u \in Threads, u = last_bytecode_thread,
               NEW r \in Spaces, Mine(u, r)'
        PROVE  Mine(u, r)
    BY <1>4, <2>2 DEF Mine
  <2>3. FrameTypes /\ PointersOK /\ Straight
    BY <1>0, <1>4 DEF FullInv, Inv
  <2> QED BY <1>4, <2>1, <2>2, <2>3, PointersAside
<1>5. ASSUME NEW s \in Spaces, ClearCallAt(t, s) PROVE Straight'
  BY <1>4, <1>5 DEF ClearCallAt
<1>6. ASSUME NEW u \in Threads, NEW target \in Targets, CallAt(t, u, target)
      PROVE  Straight'
  BY <1>4, <1>6 DEF CallAt
<1>16. ASSUME NEW u \in Threads, NEW target \in Targets,
              CallAtFails(t, u, target)
       PROVE  Straight'
  BY <1>4, <1>16 DEF CallAtFails
<1>7. ASSUME NEW s \in Spaces, SetThreadSwitchCallback(t, s) PROVE Straight'
  <2>1. straight /\ last_bytecode_thread = t /\ ~ Interrupts(t)
    BY <1>7 DEF SetThreadSwitchCallback
  <2> QED BY <1>0, <1>7, <2>1, StraightSet
<1>8. ASSUME NEW s \in Spaces, ClearThreadSwitchCallback(t, s)
      PROVE  Straight'
  <2>1. straight
    BY <1>8 DEF ClearThreadSwitchCallback
  <2> QED BY <1>0, <1>8, <2>1, StraightClear
<1>9. ASSUME NEW outcome \in Outcomes, Begin(t, outcome) PROVE Straight'
  <2>1. /\ straight /\ ~ Interrupts(t)
        /\ stack[t] # <<>> /\ phase[t] = "running"
        /\ UNCHANGED <<stack, seen, thread_switch_callback>>
        /\ CheckSwitch(t, "told")
             \/ (/\ phase' = [phase EXCEPT ![t] = "call_at"]
                 /\ UNCHANGED switchVars)
    BY <1>9 DEF Begin, In
  <2> QED BY <1>0, <2>1, StraightBoundary
<1>10. CASE BeginPrologue(t)
  BY <1>10 DEF BeginPrologue
<1>11. ASSUME phase[t] \in {"call_at", "switch"} PROVE stack[t] # <<>>
  BY <1>0, <1>11 DEF ThreadOK
<1>12. ASSUME NEW outcome \in Outcomes, FinishCallAt(t, outcome)
       PROVE  Straight'
  <2>1. /\ straight /\ ~ Interrupts(t) /\ phase[t] = "call_at"
        /\ UNCHANGED <<stack, seen, thread_switch_callback>>
        /\ CheckSwitch(t, "told")
    BY <1>12 DEF FinishCallAt, In
  <2> QED BY <1>0, <1>11, <2>1, StraightBoundary
<1>13. CASE FailCallAt(t)
  <2>1. /\ straight /\ phase[t] = "call_at"
        /\ UNCHANGED <<stack, seen, thread_switch_callback, switchVars>>
        /\ phase' = [phase EXCEPT ![t] = "running"]
    BY <1>13 DEF FailCallAt, In
  <2> QED BY <1>0, <1>11, <2>1, StraightBoundary
<1>14. CASE FinishSwitch(t)
  <2>1. straight
    BY <1>14 DEF FinishSwitch
  <2> QED BY <1>0, <1>14, <2>1, StraightFinish
<1>15. CASE Exit(t)
  BY <1>15 DEF Exit
<1>17. CASE Start(t)
  BY <1>17 DEF Start
<1> QED
  BY <1>1, <1>2, <1>3, <1>5, <1>6, <1>7, <1>8, <1>9, <1>10, <1>12, <1>13,
     <1>14, <1>15, <1>16, <1>17 DEF Step

LEMMA FullInvKept == FullInv /\ [Next]_vars => FullInv'
<1>1. ASSUME FullInv, UNCHANGED vars PROVE FullInv'
  <2> USE <1>1 DEF vars, frameVars, switchVars, slotVars, callbackVars
  <2>1. Inv'
    BY UntouchedKeeps DEF FullInv
  <2>2. FrameTypes'
    BY DEF FullInv, FrameTypes
  <2>3. FramesInv'
    BY DEF FullInv, FramesInv, ThreadOK, FrameOK
  <2>4. StraightInv'
    BY DEF FullInv, StraightInv, OneSpace, OneSwitch, InSwitch, TopSpace,
           CursorsFollow, Ahead, PointersTogether, Mine, SomeoneRan
  <2> QED BY <2>1, <2>2, <2>3, <2>4 DEF FullInv
<1>2. ASSUME FullInv, NEW t \in Threads, Step(t) PROVE FullInv'
  BY <1>2, StepKeepsInv, TypesKept, FramesInvKept, StraightInvKept
     DEF FullInv
<1> QED BY <1>1, <1>2 DEF Next

(* The cursor of a space is the thread that last ran in it, or a thread    *)
(* that is about to be reported, for any number of threads and spaces,     *)
(* while the history is straight.                                          *)
THEOREM RunnersKnown == Spec => []RunnersAreToldWhenStraight
<1>1. FullInv => RunnersAreToldWhenStraight
  BY DEF FullInv, StraightInv, CursorsFollow, Ahead, InSwitch,
         RunnersAreToldWhenStraight
<1> QED BY InitFullInv, FullInvKept, <1>1, PTL DEF Spec

-----------------------------------------------------------------------------
(* The targets *)

ArmedInv == call_at \in [Spaces -> Target \cup {NoTarget}]

(* Clearing slots, whichever, touches no other target. *)
LEMMA ClearedSlots ==
  ASSUME ArmedInv, NEW gone, ClearSlots(gone)
  PROVE  /\ ArmedInv'
         /\ \A s \in Spaces : call_at'[s] # call_at[s] =>
              s \in gone /\ call_at'[s] = NoTarget
BY DEF ArmedInv, ClearSlots

(* Arming one touches no other target. *)
LEMMA ArmedSlot ==
  ASSUME ArmedInv, NEW t \in Threads, NEW u \in Threads,
         NEW target \in Targets, CallAt(t, u, target)
  PROVE  /\ ArmedInv'
         /\ \A s \in Spaces : call_at'[s] # call_at[s] => s = target.space
<1>1. /\ target \in [space : Spaces, at : 1 .. MaxPosition,
                      overshoot : BOOLEAN]
      /\ call_at' = [call_at EXCEPT ![target.space] =
           [thread |-> u, at |-> target.at, overshoot |-> target.overshoot]]
  BY BoundariesAssumption DEF CallAt
<1>2. [thread |-> u, at |-> target.at, overshoot |-> target.overshoot]
        \in Target
  BY <1>1 DEF Target
<1> QED BY <1>1, <1>2 DEF ArmedInv

(* What a step may do to the targets *)
Rearmed(t) ==
  \A s \in Spaces : call_at[s] # NoTarget /\ call_at'[s] # call_at[s] =>
    \/ /\ call_at[s].thread = t
       /\ call_at'[s] = NoTarget
       /\ \E r \in Spaces : Advances(t, r)
       /\ call_at[s].at <= position'[t][s] \/ s \notin seen[t]
    \/ \E u \in Threads : ClearCallAt(u, s)
    \/ \E u, w \in Threads, target \in Targets :
         /\ target.space = s
         /\ CallAt(u, w, target) \/ CallAtFails(u, w, target)

LEMMA StepRearms ==
  ASSUME FullInv, ArmedInv, NEW t \in Threads, Step(t)
  PROVE  ArmedInv' /\ Rearmed(t)
<1> USE DEF frameVars, switchVars, slotVars, callbackVars
<1>0. FrameTypes
  BY DEF FullInv
<1>1. CASE call_at' = call_at
  BY <1>1 DEF ArmedInv, Rearmed
<1>2. ASSUME NEW s \in Spaces, ClearCallAt(t, s) PROVE ArmedInv' /\ Rearmed(t)
  BY <1>2, ClearedSlots DEF ClearCallAt, Rearmed
<1>3. ASSUME NEW u \in Threads, NEW target \in Targets, CallAt(t, u, target)
      PROVE  ArmedInv' /\ Rearmed(t)
  BY <1>3, ArmedSlot DEF Rearmed
<1>4. ASSUME NEW u \in Threads, NEW target \in Targets,
             CallAtFails(t, u, target)
      PROVE  ArmedInv' /\ Rearmed(t)
  <2>1. ArmedInv' /\ \A s \in Spaces : call_at'[s] # call_at[s] =>
          s = target.space
    BY <1>4, ClearedSlots DEF CallAtFails
  <2> QED BY <1>4, <2>1 DEF Rearmed
<1>5. ASSUME NEW outcome \in Outcomes, Begin(t, outcome)
      PROVE  ArmedInv' /\ Rearmed(t)
  <2>1. /\ ClearSlots(Taken(t))
        /\ stack[t] # <<>>
        /\ position' = [position EXCEPT ![t][TopSpace(t)] = @ + 1]
    BY <1>5 DEF Begin
  <2>2. ArmedInv' /\ \A s \in Spaces : call_at'[s] # call_at[s] =>
          s \in Taken(t) /\ call_at'[s] = NoTarget
    BY <2>1, ClearedSlots
  <2>3. \A s \in Taken(t) : Due(t, s)
    BY DEF Taken
  <2>4. \E r \in Spaces : Advances(t, r)
    <3>1. TopSpace(t) \in Spaces /\ position[t][TopSpace(t)] \in Nat
      BY <1>0, <2>1, TopOfStack DEF FrameTypes
    <3>2. position'[t][TopSpace(t)] = position[t][TopSpace(t)] + 1
      BY <1>0, <2>1, <3>1 DEF FrameTypes
    <3> QED BY <3>1, <3>2 DEF Advances
  <2> QED BY <2>2, <2>3, <2>4 DEF Rearmed, Due
<1> QED
  BY <1>1, <1>2, <1>3, <1>4, <1>5 DEF Step, Enter, Leave, Include,
     SetThreadSwitchCallback, ClearThreadSwitchCallback, BeginPrologue,
     FinishCallAt, FailCallAt, FinishSwitch, Exit, Start

(* Nothing but a call about its space, or its own thread at a boundary,    *)
(* takes an armed target off, for any number of threads, spaces and        *)
(* targets.                                                                *)
THEOREM TargetsKept == Spec => TargetsAreKept
<1>1. Init => ArmedInv
  BY DEF Init, ArmedInv
<1>2. FullInv /\ ArmedInv /\ [Next]_vars => ArmedInv'
  <2>1. ASSUME ArmedInv, UNCHANGED vars PROVE ArmedInv'
    BY <2>1 DEF ArmedInv, vars, slotVars
  <2> QED BY <2>1, StepRearms DEF Next
<1>3. ASSUME FullInv, ArmedInv, [Next]_vars
      PROVE  [\A s \in Spaces :
               call_at[s] # NoTarget /\ call_at'[s] # call_at[s] =>
                 \/ LET t == call_at[s].thread
                    IN /\ call_at'[s] = NoTarget
                       /\ \E r \in Spaces : Advances(t, r)
                       /\ call_at[s].at <= position'[t][s] \/ s \notin seen[t]
                 \/ \E t \in Threads : ClearCallAt(t, s)
                 \/ \E t, u \in Threads, target \in Targets :
                      /\ target.space = s
                      /\ CallAt(t, u, target) \/ CallAtFails(t, u, target)]_vars
  <2>1. CASE UNCHANGED vars
    BY <2>1
  <2>2. ASSUME NEW t \in Threads, Step(t)
        PROVE  Rearmed(t)
    BY <1>3, <2>2, StepRearms
  <2> QED BY <1>3, <2>1, <2>2 DEF Next, Rearmed
<1>4. Spec => []FullInv
  BY InitFullInv, FullInvKept, PTL DEF Spec
<1> QED BY <1>1, <1>2, <1>3, <1>4, PTL DEF Spec, TargetsAreKept

-----------------------------------------------------------------------------
(***************************************************************************)
(* The entries: a space has one as long as something needs it, and one     *)
(* only.                                                                   *)
(***************************************************************************)

(* q lists the elements of S, each once. *)
Lists(q, S) == IsInjective(q) /\ Range(q) = S

LEMMA OnlyLists ==
  ASSUME NEW T, NEW q \in Seq(T), NEW S, Lists(q, S), NEW kept
  PROVE  Only(q, kept) \in Seq(T) /\ Lists(Only(q, kept), S \cap kept)
<1> DEFINE places == {i \in DOMAIN q : q[i] \in kept}
<1>1. PICK p \in Seq(T) : /\ p = Only(q, kept)
                          /\ Consists(q, places, p, Len(q))
  BY SelectedElements DEF Only
<1>2. DOMAIN q = 1 .. Len(q) /\ DOMAIN p = 1 .. Len(p)
  BY LenProperties
<1>3. /\ Len(q) \in Nat /\ Len(p) \in Nat
      /\ \A i \in places : i \in 1 .. Len(q) /\ q[i] \in kept
      /\ \A i \in 1 .. Len(q) : q[i] \in kept => i \in places
  BY <1>2, LenProperties
<1> HIDE DEF places
<1>4. ASSUME NEW j \in 1 .. Len(p)
      PROVE  \E i \in places : Rank(places, i) = j /\ p[j] = q[i]
  <2>1. PICK i \in 1 .. Len(q) : i \in places /\ Rank(places, i) = j
    BY <1>1 DEF Consists
  <2> QED
    BY <1>1, <2>1 DEF Consists
<1>5. Range(p) = S \cap kept
  <2>1. ASSUME NEW x \in Range(p) PROVE x \in S \cap kept
    <3>1. PICK j \in 1 .. Len(p) : x = p[j]
      BY <1>2 DEF Range
    <3>2. PICK i \in places : x = q[i]
      BY <1>4, <3>1
    <3> QED
      BY <1>2, <1>3, <3>2 DEF Lists, Range
  <2>2. ASSUME NEW x \in S \cap kept PROVE x \in Range(p)
    <3>1. PICK i \in 1 .. Len(q) : x = q[i] /\ i \in places
      BY <1>2, <1>3 DEF Lists, Range
    <3>2. Rank(places, i) \in 1 .. Len(p) /\ p[Rank(places, i)] = x
      BY <1>1, <3>1 DEF Consists
    <3> QED
      BY <1>2, <3>2 DEF Range
  <2> QED
    BY <2>1, <2>2
<1>6. IsInjective(p)
  <2> SUFFICES ASSUME NEW j \in 1 .. Len(p), NEW k \in 1 .. Len(p),
                      p[j] = p[k]
               PROVE  j = k
    BY <1>2 DEF IsInjective
  <2>1. PICK i \in places : Rank(places, i) = j /\ p[j] = q[i]
    BY <1>4
  <2>2. PICK h \in places : Rank(places, h) = k /\ p[k] = q[h]
    BY <1>4
  <2>3. i = h
    BY <1>2, <1>3, <2>1, <2>2 DEF Lists, IsInjective
  <2> QED
    BY <2>1, <2>2, <2>3
<1> QED
  BY <1>1, <1>5, <1>6 DEF Lists

LEMMA EnsuredLists ==
  ASSUME NEW T, NEW q \in Seq(T), NEW S, Lists(q, S), NEW s \in T
  PROVE  Ensured(q, s) \in Seq(T) /\ Lists(Ensured(q, s), S \cup {s})
<1>1. CASE s \in Range(q)
  BY <1>1 DEF Ensured, Lists
<1>2. CASE s \notin Range(q)
  <2>1. PICK n \in Nat : n = Len(q) /\ DOMAIN q = 1 .. n
    BY LenProperties
  <2>2. PICK p : p = <<s>> \o q
    OBVIOUS
  <2>3. /\ p \in Seq(T) /\ Len(p) = n + 1 /\ DOMAIN p = 1 .. n + 1
        /\ \A i \in 1 .. n + 1 : p[i] = IF i = 1 THEN s ELSE q[i - 1]
    <3>1. <<s>> \in Seq(T) /\ Len(<<s>>) = 1 /\ <<s>>[1] = s
      OBVIOUS
    <3>2. /\ p \in Seq(T) /\ Len(p) = n + 1
          /\ \A i \in 1 .. n + 1 :
               p[i] = IF i <= 1 THEN <<s>>[i] ELSE q[i - 1]
      BY <2>1, <2>2, <3>1, ConcatProperties
    <3>3. DOMAIN p = 1 .. n + 1
      BY <2>1, <3>2, LenProperties
    <3>4. \A i \in 1 .. n + 1 : i <= 1 <=> i = 1
      BY <2>1
    <3> QED
      BY <3>1, <3>2, <3>3, <3>4
  <2>4. \A x : x \in Range(p) <=> x = s \/ x \in Range(q)
    <3>1. ASSUME NEW x, x \in Range(p) PROVE x = s \/ x \in Range(q)
      <4>1. PICK i \in 1 .. n + 1 : x = p[i]
        BY <2>3, <3>1 DEF Range
      <4>2. i # 1 => i - 1 \in 1 .. n
        BY <2>1
      <4> QED
        BY <2>1, <2>3, <4>1, <4>2 DEF Range
    <3>2. s \in Range(p)
      <4>1. 1 \in 1 .. n + 1
        BY <2>1
      <4> QED
        BY <2>3, <4>1 DEF Range
    <3>3. ASSUME NEW x \in Range(q) PROVE x \in Range(p)
      <4>1. PICK i \in 1 .. n : x = q[i]
        BY <2>1 DEF Range
      <4>2. i + 1 \in 1 .. n + 1 /\ i + 1 # 1 /\ (i + 1) - 1 = i
        BY <2>1
      <4> QED
        BY <2>3, <4>1, <4>2 DEF Range
    <3> QED
      BY <3>1, <3>2, <3>3
  <2>5. IsInjective(p)
    <3> SUFFICES ASSUME NEW i \in 1 .. n + 1, NEW j \in 1 .. n + 1,
                        p[i] = p[j], i < j
                 PROVE  FALSE
      <4>1. \A i, j \in 1 .. n + 1 : i < j \/ j < i \/ i = j
        BY <2>1
      <4> QED
        BY <2>3, <4>1 DEF IsInjective
    <3>1. j # 1 /\ j - 1 \in 1 .. n /\ p[j] = q[j - 1]
      BY <2>1, <2>3
    <3>2. CASE i = 1
      BY <1>2, <2>1, <2>3, <3>1, <3>2 DEF Range
    <3>3. CASE i # 1
      <4>1. i - 1 \in 1 .. n /\ p[i] = q[i - 1] /\ i - 1 # j - 1
        BY <2>1, <2>3, <3>3
      <4> QED
        BY <2>1, <3>1, <4>1 DEF Lists, IsInjective
    <3> QED
      BY <3>2, <3>3
  <2> QED
    BY <1>2, <2>2, <2>3, <2>4, <2>5 DEF Ensured, Lists
<1> QED
  BY <1>1, <1>2

InUse == {s \in Spaces : Needed(s, thread_switch_callback, call_at)}

SomeArmed == \E s \in Spaces \ {RootSpace} : call_at[s] # NoTarget

EntriesInv ==
  /\ thread_switch_callback \subseteq Spaces
  /\ space_callbacks \in Seq(Spaces) /\ Lists(space_callbacks, InUse)
  /\ call_at_extra_armed \in BOOLEAN
  /\ call_at_extra_armed <=> SomeArmed
  /\ thread_switch_armed \in BOOLEAN
  /\ thread_switch_armed <=> thread_switch_callback # {}

LEMMA ClearedEntries ==
  ASSUME EntriesInv, ArmedInv, NEW gone, ClearSlots(gone),
         UNCHANGED callbackVars
  PROVE  EntriesInv'
<1>1. /\ thread_switch_callback' = thread_switch_callback
      /\ thread_switch_armed' = thread_switch_armed
  BY DEF callbackVars
<1>2. \A s \in Spaces :
        call_at'[s] = IF s \in gone THEN NoTarget ELSE call_at[s]
  BY DEF ClearSlots
<1>3. CASE gone \subseteq {RootSpace}
  <2>1. /\ space_callbacks' = space_callbacks
        /\ call_at_extra_armed' = call_at_extra_armed
    BY <1>3 DEF ClearSlots
  <2>2. \A s \in Spaces \ {RootSpace} : call_at'[s] = call_at[s]
    BY <1>2, <1>3
  <2>3. SomeArmed' <=> SomeArmed
    BY <2>2 DEF SomeArmed
  <2>4. InUse' = InUse
    BY <1>1, <2>2 DEF InUse, Needed
  <2> QED
    BY <1>1, <2>1, <2>3, <2>4 DEF EntriesInv
<1>4. CASE ~ (gone \subseteq {RootSpace})
  <2> DEFINE kept == {s \in Spaces : \/ s \notin gone
                                     \/ Needed(s, thread_switch_callback,
                                               call_at')}
  <2>1. /\ space_callbacks' = Only(space_callbacks, kept)
        /\ call_at_extra_armed' = ExtraArmed(space_callbacks, call_at')
    BY <1>4 DEF ClearSlots
  <2>2. InUse' = InUse \cap kept
    BY <1>1, <1>2 DEF InUse, Needed
  <2> HIDE DEF kept
  <2>3. /\ space_callbacks' \in Seq(Spaces)
        /\ Lists(space_callbacks', InUse')
    BY <2>1, <2>2, OnlyLists DEF EntriesInv
  <2>4. call_at_extra_armed' <=> SomeArmed'
    <3>1. Range(space_callbacks) = InUse
      BY DEF EntriesInv, Lists
    <3>2. ASSUME NEW s \in Spaces \ {RootSpace}, call_at'[s] # NoTarget
          PROVE  s \in InUse
      BY <1>2, <3>2 DEF InUse, Needed
    <3> QED
      BY <2>1, <3>1, <3>2 DEF ExtraArmed, SomeArmed, InUse
  <2>5. call_at_extra_armed' \in BOOLEAN
    BY <2>1 DEF ExtraArmed
  <2> QED
    BY <1>1, <2>3, <2>4, <2>5 DEF EntriesInv
<1> QED
  BY <1>3, <1>4

LEMMA ArmedEntries ==
  ASSUME EntriesInv, ArmedInv, NEW t \in Threads, NEW u \in Threads,
         NEW target \in Targets, CallAt(t, u, target)
  PROVE  EntriesInv'
<1> DEFINE s == target.space
           armed == [thread |-> u, at |-> target.at,
                     overshoot |-> target.overshoot]
<1>1. /\ thread_switch_callback' = thread_switch_callback
      /\ thread_switch_armed' = thread_switch_armed
      /\ call_at' = [call_at EXCEPT ![s] = armed]
      /\ s \in Spaces
  BY BoundariesAssumption DEF CallAt, callbackVars
<1>2. /\ call_at'[s] # NoTarget
      /\ \A r \in Spaces \ {s} : call_at'[r] = call_at[r]
  <2>1. armed # NoTarget
    <3>1. armed.thread # NoTarget.thread
      BY BoundariesAssumption DEF NoTarget
    <3> QED
      BY <3>1
  <2> HIDE DEF armed, s
  <2> QED
    BY <1>1, <2>1 DEF ArmedInv
<1>3. CASE s = RootSpace
  <2>1. /\ space_callbacks' = space_callbacks
        /\ call_at_extra_armed' = call_at_extra_armed
    BY <1>3 DEF CallAt
  <2>2. \A r \in Spaces \ {RootSpace} : call_at'[r] = call_at[r]
    BY <1>2, <1>3
  <2>3. SomeArmed' <=> SomeArmed
    BY <2>2 DEF SomeArmed
  <2>4. InUse' = InUse
    BY <1>1, <2>2 DEF InUse, Needed
  <2> QED
    BY <1>1, <2>1, <2>3, <2>4 DEF EntriesInv
<1>4. CASE s # RootSpace
  <2> DEFINE kept == (Spaces \ {s}) \cup thread_switch_callback
  <2>1. /\ space_callbacks' = Ensured(Only(space_callbacks, kept), s)
        /\ call_at_extra_armed' = TRUE
    BY <1>4 DEF CallAt
  <2>2. InUse' = (InUse \cap kept) \cup {s}
    BY <1>1, <1>2, <1>4 DEF InUse, Needed
  <2> HIDE DEF kept, s
  <2>3. /\ Only(space_callbacks, kept) \in Seq(Spaces)
        /\ Lists(Only(space_callbacks, kept), InUse \cap kept)
    BY OnlyLists DEF EntriesInv
  <2>4. /\ space_callbacks' \in Seq(Spaces)
        /\ Lists(space_callbacks', InUse')
    BY <1>1, <2>1, <2>2, <2>3, EnsuredLists
  <2>5. SomeArmed'
    BY <1>1, <1>2, <1>4 DEF SomeArmed
  <2> QED
    BY <1>1, <2>1, <2>4, <2>5 DEF EntriesInv
<1> QED
  BY <1>3, <1>4

LEMMA SetEntries ==
  ASSUME EntriesInv, NEW t \in Threads, NEW s \in Spaces,
         SetThreadSwitchCallback(t, s)
  PROVE  EntriesInv'
<1>1. /\ thread_switch_callback' = thread_switch_callback \cup {s}
      /\ thread_switch_armed' = TRUE
      /\ space_callbacks' = Ensured(space_callbacks, s)
      /\ call_at' = call_at /\ call_at_extra_armed' = call_at_extra_armed
  BY DEF SetThreadSwitchCallback
<1>2. InUse' = InUse \cup {s}
  BY <1>1 DEF InUse, Needed
<1>3. /\ space_callbacks' \in Seq(Spaces)
      /\ Lists(space_callbacks', InUse')
  BY <1>1, <1>2, EnsuredLists DEF EntriesInv
<1>4. SomeArmed' <=> SomeArmed
  BY <1>1 DEF SomeArmed
<1> QED
  BY <1>1, <1>3, <1>4 DEF EntriesInv

LEMMA ClearEntries ==
  ASSUME EntriesInv, NEW t \in Threads, NEW s \in Spaces,
         ClearThreadSwitchCallback(t, s)
  PROVE  EntriesInv'
<1> DEFINE kept == {r \in Spaces : \/ r # s
                                   \/ Needed(r, thread_switch_callback',
                                             call_at')}
<1>1. /\ thread_switch_callback' = thread_switch_callback \ {s}
      /\ thread_switch_armed' = (thread_switch_callback' # {})
      /\ space_callbacks' = Only(space_callbacks, kept)
      /\ call_at' = call_at /\ call_at_extra_armed' = call_at_extra_armed
  BY DEF ClearThreadSwitchCallback, Pruned
<1>2. InUse' = InUse \cap kept
  BY <1>1 DEF InUse, Needed
<1> HIDE DEF kept
<1>3. /\ space_callbacks' \in Seq(Spaces)
      /\ Lists(space_callbacks', InUse')
  BY <1>1, <1>2, OnlyLists DEF EntriesInv
<1>4. SomeArmed' <=> SomeArmed
  BY <1>1 DEF SomeArmed
<1> QED
  BY <1>1, <1>3, <1>4 DEF EntriesInv

LEMMA EntriesAside ==
  ASSUME EntriesInv, UNCHANGED <<slotVars, callbackVars>>
  PROVE  EntriesInv'
BY DEF EntriesInv, Lists, InUse, Needed, SomeArmed, slotVars, callbackVars

LEMMA InitEntries == Init => EntriesInv
<1> SUFFICES ASSUME Init PROVE EntriesInv
  OBVIOUS
<1>1. /\ space_callbacks = <<>> /\ thread_switch_callback = {}
      /\ ~ call_at_extra_armed /\ call_at_extra_armed \in BOOLEAN
      /\ ~ thread_switch_armed /\ thread_switch_armed \in BOOLEAN
      /\ \A s \in Spaces : call_at[s] = NoTarget
  BY DEF Init
<1>2. InUse = {} /\ ~ SomeArmed
  BY <1>1 DEF InUse, Needed, SomeArmed
<1>3. space_callbacks \in Seq(Spaces) /\ Lists(space_callbacks, {})
  <2>1. space_callbacks \in Seq(Spaces) /\ DOMAIN space_callbacks = {}
    BY <1>1
  <2> QED
    BY <2>1 DEF Lists, IsInjective, Range
<1> QED
  BY <1>1, <1>2, <1>3 DEF EntriesInv

LEMMA StepKeepsEntries ==
  ASSUME EntriesInv, ArmedInv, NEW t \in Threads, Step(t)
  PROVE  EntriesInv'
<1>1. ASSUME NEW s \in Spaces, ClearCallAt(t, s) PROVE EntriesInv'
  BY <1>1, ClearedEntries DEF ClearCallAt
<1>2. ASSUME NEW u \in Threads, NEW target \in Targets, CallAt(t, u, target)
      PROVE  EntriesInv'
  BY <1>2, ArmedEntries
<1>3. ASSUME NEW u \in Threads, NEW target \in Targets,
             CallAtFails(t, u, target)
      PROVE  EntriesInv'
  BY <1>3, ClearedEntries DEF CallAtFails
<1>4. ASSUME NEW s \in Spaces, SetThreadSwitchCallback(t, s)
      PROVE  EntriesInv'
  BY <1>4, SetEntries
<1>5. ASSUME NEW s \in Spaces, ClearThreadSwitchCallback(t, s)
      PROVE  EntriesInv'
  BY <1>5, ClearEntries
<1>6. ASSUME NEW outcome \in Outcomes, Begin(t, outcome) PROVE EntriesInv'
  BY <1>6, ClearedEntries DEF Begin
<1>7. CASE UNCHANGED <<slotVars, callbackVars>>
  BY <1>7, EntriesAside
<1> QED
  BY <1>1, <1>2, <1>3, <1>4, <1>5, <1>6, <1>7 DEF Step, Enter, Leave,
     Include, BeginPrologue, FinishCallAt, FailCallAt, FinishSwitch, Exit,
     Start

-----------------------------------------------------------------------------
(* The bound on positions *)

BoundedInv == position \in [Threads -> [Spaces -> 0 .. MaxPosition]]

LEMMA StepIsBounded ==
  ASSUME FullInv, BoundedInv, NEW t \in Threads, Step(t)
  PROVE  BoundedInv'
<1>1. MaxPosition \in Nat /\ RootSpace \in Spaces /\ FrameTypes
  BY BoundariesAssumption DEF FullInv
<1>2. ASSUME NEW s \in Spaces, position[t][s] < MaxPosition
      PROVE  /\ position[t][s] + 1 \in 0 .. MaxPosition
             /\ Moved(t, s) \in 0 .. MaxPosition
  <2>1. position[t][s] \in 0 .. MaxPosition
    BY DEF BoundedInv
  <2> QED
    BY <1>1, <1>2, <2>1 DEF Moved
<1>3. ASSUME NEW s \in Spaces, NEW p \in 0 .. MaxPosition,
             position' = [position EXCEPT ![t][s] = p]
      PROVE  BoundedInv'
  BY <1>3 DEF BoundedInv
<1>4. CASE Leave(t)
  <2>1. /\ TopSpace(t) \in Spaces /\ position[t][TopSpace(t)] < MaxPosition
        /\ position' =
             [position EXCEPT ![t][TopSpace(t)] = Moved(t, TopSpace(t))]
    BY <1>1, <1>4, TopOfStack DEF Leave
  <2> QED
    BY <1>2, <1>3, <2>1
<1>5. CASE Include(t)
  <2>1. /\ position[t][RootSpace] < MaxPosition
        /\ position' = [position EXCEPT ![t][RootSpace] = Moved(t, RootSpace)]
    BY <1>5 DEF Include
  <2> QED
    BY <1>1, <1>2, <1>3, <2>1
<1>6. ASSUME NEW outcome \in Outcomes, Begin(t, outcome) PROVE BoundedInv'
  <2>1. /\ TopSpace(t) \in Spaces /\ position[t][TopSpace(t)] < MaxPosition
        /\ position' = [position EXCEPT ![t][TopSpace(t)] = @ + 1]
    BY <1>1, <1>6, TopOfStack DEF Begin
  <2>2. PICK p : p = position[t][TopSpace(t)] + 1
    OBVIOUS
  <2>3. position' = [position EXCEPT ![t][TopSpace(t)] = p]
    BY <2>1, <2>2
  <2> QED
    BY <1>2, <1>3, <2>1, <2>2, <2>3
<1>7. CASE position' = position
  BY <1>7 DEF BoundedInv
<1> QED
  BY <1>4, <1>5, <1>6, <1>7 DEF Step, Enter, ClearCallAt, CallAt,
     CallAtFails, SetThreadSwitchCallback, ClearThreadSwitchCallback,
     BeginPrologue, FinishCallAt, FailCallAt, FinishSwitch, Exit, Start,
     frameVars

-----------------------------------------------------------------------------
(* A boundary looks at every target of its thread. *)

LEMMA AllDueAreTaken ==
  ASSUME NEW t, NEW n \in Nat, n = Len(Slots),
         \A r \in Taken(t) : ~ HasCallback(t, r),
         NEW i \in 1 .. n, Due(t, Slots[i])
  PROVE  Slots[i] \in Taken(t)
<1> DEFINE S == {j \in 1 .. n : Due(t, Slots[j]) /\ HasCallback(t, Slots[j])}
<1>1. S = {}
  <2> SUFFICES ASSUME S # {} PROVE FALSE
    OBVIOUS
  <2>1. S \in SUBSET Nat
    OBVIOUS
  <2>2. PICK j \in S : \A k \in S : j <= k
    <3> HIDE DEF S
    <3> QED
      BY <2>1, Smallest
  <2>3. \A k \in 1 .. j - 1 : Due(t, Slots[k]) => ~ HasCallback(t, Slots[k])
    <3> SUFFICES ASSUME NEW k \in 1 .. j - 1, k \in S PROVE FALSE
      OBVIOUS
    <3> QED
      BY <2>2
  <2>4. Slots[j] \in Taken(t)
    BY <2>2, <2>3 DEF Taken
  <2> QED
    BY <2>2, <2>4
<1>2. \A j \in 1 .. i - 1 : j \in 1 .. n
  OBVIOUS
<1> QED
  BY <1>1, <1>2 DEF Taken

(* An armed target is in the slots. *)
LEMMA ArmedIsInSlots ==
  ASSUME EntriesInv, NEW s \in Spaces, call_at[s] # NoTarget
  PROVE  \E n \in Nat, i \in Nat :
           n = Len(Slots) /\ i \in 1 .. n /\ Slots[i] = s
<1> DEFINE others == Only(space_callbacks, Spaces \ {RootSpace})
           rest == IF call_at_extra_armed THEN others ELSE <<>>
<1>1. /\ others \in Seq(Spaces)
      /\ Lists(others, InUse \cap (Spaces \ {RootSpace}))
  BY OnlyLists DEF EntriesInv
<1> HIDE DEF others
<1>2. rest \in Seq(Spaces)
  BY <1>1
<1>3. PICK m \in Nat : m = Len(rest) /\ DOMAIN rest = 1 .. m
  BY <1>2, LenProperties
<1> HIDE DEF rest
<1>4. /\ Len(Slots) = m + 1 /\ Slots[1] = RootSpace
      /\ \A i \in 1 .. m : Slots[i + 1] = rest[i]
  <2>1. Slots = <<RootSpace>> \o rest
    BY DEF Slots, rest, others
  <2>2. /\ <<RootSpace>> \in Seq(Spaces) /\ Len(<<RootSpace>>) = 1
        /\ <<RootSpace>>[1] = RootSpace
    BY BoundariesAssumption
  <2>3. /\ Len(Slots) = m + 1
        /\ \A i \in 1 .. m + 1 :
             Slots[i] = IF i <= 1 THEN <<RootSpace>>[i] ELSE rest[i - 1]
    BY <1>2, <1>3, <2>1, <2>2, ConcatProperties
  <2>4. /\ 1 \in 1 .. m + 1
        /\ \A i \in 1 .. m :
             i + 1 \in 1 .. m + 1 /\ ~ (i + 1 <= 1) /\ (i + 1) - 1 = i
    BY <1>3
  <2> QED
    BY <2>2, <2>3, <2>4
<1>5. CASE s = RootSpace
  <2>1. 1 \in 1 .. m + 1 /\ m + 1 \in Nat /\ 1 \in Nat
    BY <1>3
  <2> QED
    BY <1>4, <1>5, <2>1
<1>6. CASE s # RootSpace
  <2>1. s \in InUse /\ call_at_extra_armed
    BY <1>6 DEF EntriesInv, SomeArmed, InUse, Needed
  <2>2. rest = others
    BY <2>1 DEF rest
  <2>3. PICK j \in 1 .. m : rest[j] = s
    BY <1>1, <1>3, <1>6, <2>1, <2>2 DEF Lists, Range
  <2>4. j + 1 \in 1 .. m + 1 /\ m + 1 \in Nat /\ j + 1 \in Nat
    BY <1>3
  <2> QED
    BY <1>4, <2>3, <2>4
<1> QED
  BY <1>5, <1>6

LEMMA BeginLeavesNoneDue ==
  ASSUME FullInv, ArmedInv, EntriesInv, BoundedInv, BoundedInv',
         NEW t \in Threads, NEW outcome \in Outcomes, Begin(t, outcome),
         phase'[t] # "call_at",
         NEW s \in Spaces, call_at'[s].thread = t
  PROVE  call_at'[s].at > position'[t][s]
<1>1. ClearSlots(Taken(t)) /\ \A r \in Taken(t) : ~ HasCallback(t, r)
  <2>1. phase \in [Threads -> Phases]
    BY DEF FullInv, Inv, PhaseOK
  <2>2. phase' # [phase EXCEPT ![t] = "call_at"]
    BY <2>1
  <2> QED
    BY <2>2 DEF Begin
<1>2. call_at'[s] # NoTarget
  BY BoundariesAssumption DEF NoTarget
<1>3. call_at'[s] = call_at[s] /\ s \notin Taken(t)
  BY <1>1, <1>2 DEF ClearSlots
<1>4. call_at[s] \in Target /\ call_at[s].at \in Nat
  <2>1. call_at[s] \in Target
    BY <1>2, <1>3 DEF ArmedInv
  <2> QED
    BY <2>1, BoundariesAssumption DEF Target
<1>5. position'[t][s] \in Nat
  BY BoundariesAssumption DEF BoundedInv
<1> SUFFICES ASSUME call_at[s].at <= position'[t][s] PROVE FALSE
  BY <1>3, <1>4, <1>5
<1>6. Due(t, s)
  BY <1>2, <1>3 DEF Due
<1>7. PICK n \in Nat, i \in Nat :
        n = Len(Slots) /\ i \in 1 .. n /\ Slots[i] = s
  BY <1>2, <1>3, ArmedIsInSlots
<1>8. Slots[i] \in Taken(t)
  BY <1>1, <1>6, <1>7, AllDueAreTaken
<1> QED
  BY <1>3, <1>7, <1>8

(* Only a boundary keeps the frames and moves a thread that runs. *)
LEMMA MovedByBegin ==
  ASSUME FullInv, NEW t \in Threads, Step(t), NEW u \in Threads,
         phase[u] = "running", stack' = stack, position'[u] # position[u]
  PROVE  u = t /\ \E outcome \in Outcomes : Begin(t, outcome)
<1>0. FrameTypes
  BY DEF FullInv
<1>1. CASE Leave(t)
  <2>1. /\ stack[t] \in Seq(Spaces) /\ stack[t] # <<>>
        /\ stack' = [stack EXCEPT ![t] = Front(stack[t])]
    BY <1>0, <1>1 DEF Leave, FrameTypes
  <2>2. Front(stack[t]) = stack[t]
    BY <1>0, <2>1 DEF FrameTypes
  <2>3. Len(stack[t]) = Len(stack[t]) - 1 /\ Len(stack[t]) \in 1 .. Len(stack[t])
    BY <2>1, <2>2, FrontOfStack
  <2> QED
    BY <2>3
<1>2. CASE Include(t)
  <2>1. phase[t] # "running"
    BY <1>2 DEF Include, InCallback, In
  <2>2. position'[u] = position[u]
    BY <1>0, <1>2, <2>1 DEF Include, FrameTypes
  <2> QED
    BY <2>2
<1>3. ASSUME NEW outcome \in Outcomes, Begin(t, outcome) PROVE u = t
  BY <1>0, <1>3 DEF Begin, FrameTypes
<1>4. position' # position
  OBVIOUS
<1> QED
  BY <1>1, <1>2, <1>3, <1>4 DEF Step, Enter, ClearCallAt, CallAt,
     CallAtFails, SetThreadSwitchCallback, ClearThreadSwitchCallback,
     BeginPrologue, FinishCallAt, FailCallAt, FinishSwitch, Exit, Start,
     frameVars

-----------------------------------------------------------------------------
(* The theorems *)

BoundaryInv == FullInv /\ ArmedInv /\ EntriesInv /\ BoundedInv

LEMMA InitBoundaryInv == Init => BoundaryInv
<1> SUFFICES ASSUME Init PROVE BoundaryInv
  OBVIOUS
<1>1. ArmedInv
  BY DEF Init, ArmedInv
<1>2. BoundedInv
  <2>1. 0 \in 0 .. MaxPosition
    BY BoundariesAssumption
  <2> QED
    BY <2>1 DEF Init, BoundedInv
<1> QED
  BY <1>1, <1>2, InitFullInv, InitEntries DEF BoundaryInv

LEMMA BoundaryInvKept == BoundaryInv /\ [Next]_vars => BoundaryInv'
<1>1. ASSUME BoundaryInv, NEW t \in Threads, Step(t)
      PROVE  ArmedInv' /\ EntriesInv' /\ BoundedInv'
  BY <1>1, StepRearms, StepKeepsEntries, StepIsBounded DEF BoundaryInv
<1>2. ASSUME BoundaryInv, UNCHANGED vars
      PROVE  ArmedInv' /\ EntriesInv' /\ BoundedInv'
  BY <1>2, EntriesAside
     DEF BoundaryInv, ArmedInv, BoundedInv, vars, frameVars, slotVars
<1> QED
  BY <1>1, <1>2, FullInvKept DEF BoundaryInv, Next

(* The invariant of the boundaries of all threads *)
THEOREM BoundariesInvariant == Spec => []BoundaryInv
BY InitBoundaryInv, BoundaryInvKept, PTL DEF Spec

(* The state keeps its types; in particular a space has one entry.         *)
THEOREM BoundaryTypes == Spec => []TypeOK
<1>1. BoundaryInv => TypeOK
  BY DEF BoundaryInv, FullInv, Inv, PhaseOK, PointersOK, FrameTypes,
         ArmedInv, EntriesInv, BoundedInv, Lists, TypeOK
<1> QED
  BY <1>1, BoundariesInvariant, PTL

(* The flags that let the eval loop skip the list of entries agree with    *)
(* it, and every target and callback has an entry, for any number of       *)
(* threads, spaces and targets.                                            *)
THEOREM FlagsAreRight == Spec => []FlagsAgree
<1>1. BoundaryInv => FlagsAgree
  BY DEF BoundaryInv, EntriesInv, Lists, InUse, SomeArmed, FlagsAgree
<1> QED
  BY <1>1, BoundariesInvariant, PTL

(* A boundary that delivers no target leaves none that is due, in any      *)
(* space, for any number of threads, spaces and targets.                   *)
THEOREM NoneIsPassedOver == Spec => NoneDueIsPassedOver
<1>1. ASSUME BoundaryInv, BoundaryInv', [Next]_vars
      PROVE  [\A t \in Threads :
                /\ phase[t] = "running" /\ phase'[t] # "call_at"
                /\ stack' = stack /\ position'[t] # position[t]
                => \A s \in Spaces : call_at'[s].thread = t =>
                                      call_at'[s].at > position'[t][s]]_vars
  <2> SUFFICES ASSUME NEW u \in Threads, Step(u), NEW t \in Threads,
                      phase[t] = "running", phase'[t] # "call_at",
                      stack' = stack, position'[t] # position[t],
                      NEW s \in Spaces, call_at'[s].thread = t
               PROVE  call_at'[s].at > position'[t][s]
    BY <1>1 DEF Next
  <2>1. PICK outcome \in Outcomes : t = u /\ Begin(t, outcome)
    BY <1>1, MovedByBegin DEF BoundaryInv
  <2> QED
    BY <1>1, <2>1, BeginLeavesNoneDue DEF BoundaryInv
<1> QED
  BY <1>1, BoundariesInvariant, PTL DEF Spec, NoneDueIsPassedOver
=============================================================================
