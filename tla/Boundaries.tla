----------------------------- MODULE Boundaries -----------------------------
(***************************************************************************)
(* What an interpreter does between two instructions: before an            *)
(* instruction starts, _PyRetrace_BeginInstruction delivers the call_at    *)
(* targets that the thread has reached or passed and then, if another      *)
(* thread ran before, the thread switch of the instruction's space.        *)
(*                                                                         *)
(* A step of a thread is what it does under the GIL between two points     *)
(* where it may lose it.  A callback is Python code, so other threads may  *)
(* run before it ends; its own instructions are delivered nothing.         *)
(*                                                                         *)
(* The coordinate stream of a thread in a space is abstracted to its place *)
(* in the order in which call_at compares streams, 0 while it is empty     *)
(* (Coordinates!StreamsAdvance: it grows while the space has frames).      *)
(***************************************************************************)
EXTENDS FiniteSets, Selections, SequencesExt

CONSTANTS Threads, NoThread,
          Spaces, RootSpace,
          Watched,      \* the spaces for which a switch callback may be set
          Targets,      \* the targets that call_at may be asked for
          MaxDepth,     \* bound on a thread's frames
          MaxPosition   \* bound on a position

ASSUME BoundariesAssumption ==
  /\ NoThread \notin Threads
  /\ RootSpace \in Spaces
  /\ Watched \subseteq Spaces
  /\ MaxDepth \in Nat /\ MaxPosition \in Nat
  /\ Targets \subseteq [space : Spaces, at : 1 .. MaxPosition,
                        overshoot : BOOLEAN]

VARIABLES stack,        \* per thread: the spaces of its frames, oldest first
          fresh,        \* the thread whose newest frame is in its prologue
          position,     \* per thread and space: the place of its stream
          seen,         \* per thread: the spaces it ever had a frame in
          phase,        \* per thread: in which callback it is, if any
          last_bytecode_thread,
          space_callbacks,         \* the spaces with an entry, newest first
          thread_switch_callback,  \* the spaces whose entry has a callback
          cursor,       \* last_bytecode_thread per entry
          call_at,      \* per space: the armed target
          thread_switch_armed,
          call_at_extra_armed,
          ran,          \* history: per space, the thread that last ran in it
          straight      \* history: nothing yet that the cursors do not follow
frameVars == <<stack, fresh, position, seen>>
switchVars == <<last_bytecode_thread, cursor, ran>>
slotVars == <<space_callbacks, call_at, call_at_extra_armed>>
callbackVars == <<thread_switch_callback, thread_switch_armed>>
vars == <<frameVars, phase, switchVars, slotVars, callbackVars, straight>>

NoTarget == [thread |-> NoThread, at |-> 0, overshoot |-> FALSE]
Target == [thread : Threads, at : 1 .. MaxPosition, overshoot : BOOLEAN]
Aimed == {target.space : target \in Targets}

Phases == {"running", "call_at", "switch", "exited"}

(* What becomes of a report that is due: it is told; its delta cannot be   *)
(* built; or, with the delta there, the callback cannot be called.         *)
Outcomes == {"told", "no delta", "not called"}

TypeOK ==
  /\ stack \in [Threads -> Seq(Spaces)]
  /\ fresh \subseteq Threads
  /\ position \in [Threads -> [Spaces -> 0 .. MaxPosition]]
  /\ seen \in [Threads -> SUBSET Spaces]
  /\ phase \in [Threads -> Phases]
  /\ last_bytecode_thread \in Threads \cup {NoThread}
  /\ space_callbacks \in Seq(Spaces) /\ IsInjective(space_callbacks)
  /\ thread_switch_callback \subseteq Spaces
  /\ cursor \in [Spaces -> Threads \cup {NoThread}]
  /\ call_at \in [Spaces -> Target \cup {NoTarget}]
  /\ thread_switch_armed \in BOOLEAN
  /\ call_at_extra_armed \in BOOLEAN
  /\ ran \in [Spaces -> Threads \cup {NoThread}]
  /\ straight \in BOOLEAN

Init ==
  /\ stack = [t \in Threads |-> <<>>]
  /\ fresh = {}
  /\ position = [t \in Threads |-> [s \in Spaces |-> 0]]
  /\ seen = [t \in Threads |-> {}]
  /\ phase = [t \in Threads |-> "running"]
  /\ last_bytecode_thread = NoThread
  /\ space_callbacks = <<>>
  /\ thread_switch_callback = {}
  /\ cursor = [s \in Spaces |-> NoThread]
  /\ call_at = [s \in Spaces |-> NoTarget]
  /\ thread_switch_armed = FALSE
  /\ call_at_extra_armed = FALSE
  /\ ran = [s \in Spaces |-> NoThread]
  /\ straight = TRUE

-----------------------------------------------------------------------------
(* Frames *)

(* A prologue does not lose the GIL. *)
In(t, where) == phase[t] = where /\ fresh \subseteq {t}

InCallback(t) == In(t, "call_at") \/ In(t, "switch")

(* An instruction of t, or of a callback that runs on t, is in progress. *)
Instructed(t) ==
  InCallback(t) \/ (In(t, "running") /\ stack[t] # <<>> /\ t \notin fresh)

TopSpace(t) == Last(stack[t])

(* A call, perhaps through space.run().  The frame starts in its prologue, *)
(* the instructions before RESUME, which not every code has.               *)
Enter(t, s) ==
  /\ In(t, "running") /\ t \notin fresh
  /\ Len(stack[t]) < MaxDepth
  /\ stack' = [stack EXCEPT ![t] = Append(@, s)]
  /\ fresh' = fresh \cup {t}
  /\ seen' = [seen EXCEPT ![t] = @ \cup {s}]
  /\ straight' = (straight /\ seen[t] \subseteq {s})
  /\ UNCHANGED <<position, phase, switchVars, slotVars, callbackVars>>

(* Where a stream is after one of its frames left, or a step was added to  *)
(* it that no instruction of this thread waits for.                        *)
Moved(t, s) ==
  IF s \in Range(stack'[t]) THEN position[t][s] + 1 ELSE 0

Leave(t) ==
  /\ In(t, "running") /\ t \notin fresh
  /\ stack[t] # <<>>
  /\ position[t][TopSpace(t)] < MaxPosition
  /\ stack' = [stack EXCEPT ![t] = Front(@)]
  /\ position' = [position EXCEPT ![t][TopSpace(t)] = Moved(t, TopSpace(t))]
  /\ UNCHANGED <<fresh, seen, phase, switchVars, slotVars, callbackVars,
                 straight>>

(* A callback runs include()d code in the root space; it comes back having *)
(* moved the root stream, and nothing was delivered on the way.            *)
Include(t) ==
  /\ InCallback(t)
  /\ position[t][RootSpace] < MaxPosition
  /\ stack' = stack
  /\ position' = [position EXCEPT ![t][RootSpace] = Moved(t, RootSpace)]
  /\ seen' = [seen EXCEPT ![t] = @ \cup {RootSpace}]
  /\ UNCHANGED <<fresh, phase, switchVars, slotVars, callbackVars, straight>>

-----------------------------------------------------------------------------
(* Entries and flags *)

(* An entry is dropped when neither a switch callback nor an armed target  *)
(* needs it; the root space's target is kept elsewhere.                    *)
Needed(s, callbacks, targets) ==
  s \in callbacks \/ (s # RootSpace /\ targets[s] # NoTarget)

Pruned(s) ==
  Only(space_callbacks,
       {r \in Spaces : r # s \/ Needed(r, thread_switch_callback', call_at')})

(* Mutant: an entry is added without a look for the one that is there. *)
Pushed(entries, s) == <<s>> \o entries

Ensured(entries, s) ==
  IF s \in Range(entries) THEN entries ELSE <<s>> \o entries

(* Mutant: the flag stays set. *)
ExtraArmedKept(entries, targets) == call_at_extra_armed

ExtraArmed(entries, targets) ==
  \E s \in Range(entries) : s # RootSpace /\ targets[s] # NoTarget

(* The targets of the spaces in gone are cleared. *)
ClearSlots(gone) ==
  /\ call_at' = [s \in Spaces |-> IF s \in gone THEN NoTarget ELSE call_at[s]]
  /\ IF gone \subseteq {RootSpace}
       THEN UNCHANGED <<space_callbacks, call_at_extra_armed>>
       ELSE /\ space_callbacks' = Only(space_callbacks,
                 {s \in Spaces : s \notin gone
                                  \/ Needed(s, thread_switch_callback, call_at')})
            /\ call_at_extra_armed' = ExtraArmed(space_callbacks, call_at')

-----------------------------------------------------------------------------
(* The application's calls; they are made by t. *)

ClearCallAt(t, s) ==
  /\ Instructed(t)
  /\ s \in Aimed
  /\ ClearSlots({s} \cap (Range(space_callbacks) \cup {RootSpace}))
  /\ UNCHANGED <<frameVars, phase, switchVars, callbackVars, straight>>

(* call_at(u, coordinates, callback, overshoot_callback, space); the place *)
(* of the coordinates and whether there is an overshoot callback, and the  *)
(* space, are those of target.                                             *)
Armable(t, u, target) ==
  /\ Instructed(t)
  /\ phase[u] # "exited"
  /\ target.space \in seen[u]
  /\ target.at < position[u][target.space] => target.overshoot

CallAt(t, u, target) ==
  LET s == target.space
  IN /\ Armable(t, u, target)
     /\ call_at' = [call_at EXCEPT ![s] =
          [thread |-> u, at |-> target.at, overshoot |-> target.overshoot]]
     /\ IF s = RootSpace
          THEN UNCHANGED <<space_callbacks, call_at_extra_armed>>
          ELSE /\ space_callbacks' = Ensured(
                    Only(space_callbacks,
                         (Spaces \ {s}) \cup thread_switch_callback), s)
               /\ call_at_extra_armed' = TRUE
     /\ UNCHANGED <<frameVars, phase, switchVars, callbackVars, straight>>

(* There is no memory for the entry: the target that was there is gone.    *)
CallAtFails(t, u, target) ==
  LET s == target.space
  IN /\ Armable(t, u, target)
     /\ s # RootSpace
     /\ s \notin thread_switch_callback
     /\ ClearSlots({s} \cap Range(space_callbacks))
     /\ UNCHANGED <<frameVars, phase, switchVars, callbackVars, straight>>

(* Another thread's switch callback is still running. *)
Interrupts(t) == \E u \in Threads \ {t} : phase[u] = "switch"

(* set_thread_switch_callback(callback or None, s) *)
SetThreadSwitchCallback(t, s) ==
  LET visible == IF position[t][s] > 0 THEN t ELSE NoThread
  IN /\ Instructed(t)
     /\ s \in Watched
     /\ thread_switch_callback' = thread_switch_callback \cup {s}
     /\ thread_switch_armed' = TRUE
     /\ space_callbacks' = Ensured(space_callbacks, s)
     /\ cursor' = [cursor EXCEPT ![s] = visible]
     /\ ran' = [ran EXCEPT ![s] = visible]
     /\ straight' = (straight /\ last_bytecode_thread = t /\ ~ Interrupts(t))
     /\ UNCHANGED <<frameVars, phase, last_bytecode_thread, call_at,
                    call_at_extra_armed>>

ClearThreadSwitchCallback(t, s) ==
  /\ Instructed(t)
  /\ s \in Range(space_callbacks)
  /\ thread_switch_callback' = thread_switch_callback \ {s}
  /\ thread_switch_armed' = (thread_switch_callback' # {})
  /\ cursor' = [cursor EXCEPT ![s] = NoThread]
  /\ ran' = [ran EXCEPT ![s] = NoThread]
  /\ call_at' = call_at
  /\ space_callbacks' = Pruned(s)
  /\ UNCHANGED <<frameVars, phase, last_bytecode_thread,
                 call_at_extra_armed, straight>>

-----------------------------------------------------------------------------
(* The boundary *)

(* Mutant: the cursor stays at the previous thread. *)
NotAdvanced(last, t) == last

Advanced(last, t) == t

SwitchDue(t, s) ==
  /\ last_bytecode_thread \notin {t, NoThread}
  /\ thread_switch_armed
  /\ s \in thread_switch_callback
  /\ cursor[s] # t

(* DeliverThreadSwitchCallback and the end of BeginInstruction; the thread *)
(* is left in the callback, if one is called, or goes on.                  *)
CheckSwitch(t, outcome) ==
  LET s == TopSpace(t)
      due == SwitchDue(t, s)
      told == due /\ cursor[s] # NoThread /\ outcome = "told"
  IN /\ outcome # "told" => due /\ cursor[s] # NoThread
     /\ cursor' = IF due /\ outcome # "no delta"
                    THEN [cursor EXCEPT ![s] = Advanced(@, t)] ELSE cursor
     /\ phase' = [phase EXCEPT ![t] = IF told THEN "switch" ELSE "running"]
     /\ last_bytecode_thread' = IF told THEN last_bytecode_thread ELSE t
     /\ ran' = IF told THEN ran ELSE [ran EXCEPT ![s] = t]

(* Mutant: whichever thread it is. *)
DueForAnyone(t, s) == call_at[s] # NoTarget /\ call_at[s].at <= position'[t][s]

(* The second case is that of a target that was armed for an earlier       *)
(* thread of the same id.                                                  *)
Due(t, s) ==
  /\ call_at[s] # NoTarget
  /\ call_at[s].thread = t
  /\ call_at[s].at <= position'[t][s] \/ s \notin seen[t]

(* A target that was passed without an overshoot callback is dropped, and  *)
(* so is one of a space that the thread was never in.                      *)
HasCallback(t, s) ==
  /\ s \in seen[t]
  /\ call_at[s].at = position'[t][s] \/ call_at[s].overshoot

(* The slots in the order in which they are looked at, the root's first *)
Slots ==
  LET others == Only(space_callbacks, Spaces \ {RootSpace})
  IN <<RootSpace>> \o (IF call_at_extra_armed THEN others ELSE <<>>)

(* Mutant: the walk ends at the first slot that is due. *)
TakenFirst(t) ==
  {Slots[i] : i \in {i \in 1 .. Len(Slots) :
     Due(t, Slots[i]) /\ \A j \in 1 .. i - 1 : ~ Due(t, Slots[j])}}

(* The slots that are cleared: those that are due, up to the one whose     *)
(* callback is called.                                                     *)
Taken(t) ==
  {Slots[i] : i \in {i \in 1 .. Len(Slots) :
     /\ Due(t, Slots[i])
     /\ \A j \in 1 .. i - 1 :
          Due(t, Slots[j]) => ~ HasCallback(t, Slots[j])}}

(* BeginInstruction in a frame whose prologue is over *)
Begin(t, outcome) ==
  LET s == TopSpace(t)
  IN /\ In(t, "running") /\ stack[t] # <<>>
     /\ position[t][s] < MaxPosition
     /\ position' = [position EXCEPT ![t][s] = @ + 1]
     /\ fresh' = fresh \ {t}
     /\ ClearSlots(Taken(t))
     /\ IF \E r \in Taken(t) : HasCallback(t, r)
          THEN /\ phase' = [phase EXCEPT ![t] = "call_at"]
               /\ outcome = "told"
               /\ UNCHANGED switchVars
          ELSE CheckSwitch(t, outcome)
     /\ straight' = (straight /\ ~ Interrupts(t) /\ outcome = "told")
     /\ UNCHANGED <<stack, seen, callbackVars>>

(* BeginInstruction in a prologue: the frame is not visible. *)
BeginPrologue(t) ==
  /\ In(t, "running") /\ t \in fresh
  /\ last_bytecode_thread # t
  /\ last_bytecode_thread' = t
  /\ straight' = FALSE
  /\ UNCHANGED <<frameVars, phase, cursor, ran, slotVars, callbackVars>>

(* The call_at callback returned None. *)
FinishCallAt(t, outcome) ==
  /\ In(t, "call_at")
  /\ CheckSwitch(t, outcome)
  /\ straight' = (straight /\ ~ Interrupts(t) /\ outcome = "told")
  /\ UNCHANGED <<frameVars, slotVars, callbackVars>>

(* It raised, and so does the instruction. *)
FailCallAt(t) ==
  /\ In(t, "call_at")
  /\ phase' = [phase EXCEPT ![t] = "running"]
  /\ UNCHANGED <<frameVars, switchVars, slotVars, callbackVars, straight>>

FinishSwitch(t) ==
  /\ In(t, "switch")
  /\ phase' = [phase EXCEPT ![t] = "running"]
  /\ last_bytecode_thread' = t
  /\ ran' = [ran EXCEPT ![TopSpace(t)] = t]
  /\ UNCHANGED <<frameVars, cursor, slotVars, callbackVars, straight>>

(* Mutant: the entries are not looked at. *)
Remembered(thread, t) == thread

(* ClearThreadState *)
Forgotten(thread, t) == IF thread = t THEN NoThread ELSE thread

Exit(t) ==
  /\ In(t, "running") /\ stack[t] = <<>>
  /\ phase' = [phase EXCEPT ![t] = "exited"]
  /\ last_bytecode_thread' = IF last_bytecode_thread = t THEN NoThread
                                                  ELSE last_bytecode_thread
  /\ cursor' = [s \in Spaces |-> Forgotten(cursor[s], t)]
  /\ ran' = [s \in Spaces |-> IF ran[s] = t THEN NoThread ELSE ran[s]]
  /\ straight' = FALSE
  /\ UNCHANGED <<frameVars, slotVars, callbackVars>>

(* A new thread is given the id of one that has exited, and so the targets *)
(* that are still armed for it.                                            *)
Start(t) ==
  /\ phase[t] = "exited"
  /\ phase' = [phase EXCEPT ![t] = "running"]
  /\ seen' = [seen EXCEPT ![t] = {}]
  /\ straight' = FALSE
  /\ UNCHANGED <<stack, fresh, position, switchVars, slotVars, callbackVars>>

-----------------------------------------------------------------------------
Step(t) ==
  \/ \E s \in Spaces : Enter(t, s)
  \/ Leave(t)
  \/ Include(t)
  \/ \E s \in Spaces : ClearCallAt(t, s)
  \/ \E u \in Threads, target \in Targets : CallAt(t, u, target)
  \/ \E u \in Threads, target \in Targets : CallAtFails(t, u, target)
  \/ \E s \in Spaces : SetThreadSwitchCallback(t, s)
  \/ \E s \in Spaces : ClearThreadSwitchCallback(t, s)
  \/ \E outcome \in Outcomes : Begin(t, outcome)
  \/ BeginPrologue(t)
  \/ \E outcome \in Outcomes : FinishCallAt(t, outcome)
  \/ FailCallAt(t)
  \/ FinishSwitch(t)
  \/ Exit(t)
  \/ Start(t)

Next == \E t \in Threads : Step(t)

Spec == Init /\ [][Next]_vars

-----------------------------------------------------------------------------
(* Properties *)

(* The flags that let the eval loop skip the list of entries agree with    *)
(* the list, and an armed target or a set callback has an entry on it, in  *)
(* whatever order callbacks are set, targets armed, hit, passed, cleared   *)
(* and entries dropped: none of them goes unseen.                          *)
FlagsAgree ==
  /\ thread_switch_armed <=> thread_switch_callback # {}
  /\ call_at_extra_armed <=> \E s \in Spaces \ {RootSpace} :
                               call_at[s] # NoTarget
  /\ \A s \in Spaces :
       s \in Range(space_callbacks)
         <=> Needed(s, thread_switch_callback, call_at)

(* The threads that the interpreter and its entries will take a delta of   *)
(* have not exited: their thread states are still there.                   *)
NoDanglingThread ==
  \A t \in {last_bytecode_thread} \cup {cursor[s] : s \in Spaces} :
    t # NoThread => phase[t] # "exited"

(* Whoever follows the reports of a space knows which thread ran in it     *)
(* last, as long as no thread uses a second space, none exits, none is     *)
(* switched to in a prologue, no switch callback is interrupted and none   *)
(* fails to be called.                                                     *)
RunnersAreToldWhenStraight ==
  straight => \A s \in thread_switch_callback :
    cursor[s] = ran[s] \/ (cursor[s] # NoThread /\ phase[cursor[s]] = "switch")

(* README.md: "For each registered coordinate space, Retrace tracks the    *)
(* last thread that executed visible bytecode in that space."  Once it has *)
(* seen a thread run in a space, it knows which one ran there last.        *)
RunnersAreTold ==
  \A s \in thread_switch_callback :
    cursor[s] # NoThread =>
      cursor[s] = ran[s] \/ phase[cursor[s]] = "switch"

Advances(t, s) == position'[t][s] > position[t][s]

(* A target is taken off only by a call about its space, or at a boundary  *)
(* of its own thread, when the thread is at it or past it, or when it is   *)
(* another thread of the same id that was never in the target's space;     *)
(* nothing else that the interpreter does with entries and callbacks loses *)
(* a target.                                                               *)
TargetsAreKept ==
  [][\A s \in Spaces :
       call_at[s] # NoTarget /\ call_at'[s] # call_at[s] =>
         \/ LET t == call_at[s].thread
            IN /\ call_at'[s] = NoTarget
               /\ \E r \in Spaces : Advances(t, r)
               /\ call_at[s].at <= position'[t][s] \/ s \notin seen[t]
         \/ \E t \in Threads : ClearCallAt(t, s)
         \/ \E t, u \in Threads, target \in Targets :
              /\ target.space = s
              /\ CallAt(t, u, target) \/ CallAtFails(t, u, target)]_vars

(* A boundary delivers one callback.  One that delivers no target leaves   *)
(* no target armed that its thread has reached, whichever space it is of,  *)
(* when it was armed and what was delivered instead of it before: what is  *)
(* left at a boundary is looked at again at the next one.                  *)
NoneDueIsPassedOver ==
  [][\A t \in Threads :
       /\ phase[t] = "running" /\ phase'[t] # "call_at"
       /\ stack' = stack /\ position'[t] # position[t]
       => \A s \in Spaces : call_at'[s].thread = t =>
                             call_at'[s].at > position'[t][s]]_vars
=============================================================================
