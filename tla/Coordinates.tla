---------------------------- MODULE Coordinates ----------------------------
(***************************************************************************)
(* The execution coordinates of one thread: the frames it runs, the        *)
(* coordinate spaces it runs them in, and the call ordinals that tell      *)
(* apart the children of one instruction.                                  *)
(*                                                                         *)
(* An ordinal is incremented through a pointer.  The thread holds a        *)
(* pointer to the ordinal of whatever starts the next frame, and every     *)
(* frame and every scope entered by space.run() saves the one it found     *)
(* and puts it back.  A slot <<i, s>> stands for such a pointer: entry i   *)
(* of the chain, or for i = 0 the root ordinal of the thread's state for   *)
(* s; s is the space of what it points to, which the C pointer leaves out. *)
(*                                                                         *)
(* The chain interleaves what CPython links through frame->previous and    *)
(* the RetraceSpaceScope structures on the C stack between them.           *)
(***************************************************************************)
EXTENDS FiniteSetsExt, Selections

CONSTANTS Spaces, RootSpace, DisabledSpace,
          Callbacks,     \* whether a call_at or thread-switch callback may run
          Reporting,     \* the spaces whose thread_delta() is asked for
          MaxDepth,      \* bound on the chain
          MaxCounter,    \* bound on a frame's instruction counter
          MaxOrdinal,    \* bound on a frame's call ordinal
          MaxRoot,       \* bound on a root ordinal
          MaxSuspended   \* bound on the suspended generators

ASSUME CoordinatesAssumption ==
  /\ {RootSpace, DisabledSpace} \subseteq Spaces
  /\ RootSpace # DisabledSpace
  /\ Callbacks \in BOOLEAN
  /\ Reporting \subseteq Spaces
  /\ {MaxDepth, MaxCounter, MaxOrdinal, MaxRoot, MaxSuspended} \subseteq Nat

VARIABLES chain,              \* active frames and open scopes, oldest first
          current_space,
          call_ordinal_ptr,   \* where the next frame will be counted
          root_call_ordinal,  \* per space
          depth,              \* per space: active frames
          seen,               \* the spaces that ever had a frame
          callback_frame,     \* index of the frame a callback is pinned to, or 0
          suspended,          \* generators that wait to be resumed
          last_delta_root,    \* last_delta_root_call_ordinal per space
          reported            \* history: the stream at the last thread_delta()
threadVars == <<current_space, call_ordinal_ptr, root_call_ordinal>>
deltaVars == <<last_delta_root, reported>>
vars == <<chain, threadVars, depth, seen, callback_frame, suspended,
          deltaVars>>

Slot == Nat \X Spaces
RootSlot(s) == <<0, s>>

Unset == -1               \* a root ordinal that no delta has reported
NoDelta == <<>>           \* a frame that no delta has reported
Caches == {NoDelta} \cup (Spaces \X Nat \X Nat)

(* counter is coordinate_bias + f_lasti, counting from 1 at the first     *)
(* instruction after the prologue; a frame at 0 is incomplete, hence not   *)
(* visible.  It grows from one instruction to the next: FrameCounter says  *)
(* when the code's does.  place: whether it has started an instruction     *)
(* since then.                                                             *)
Frame(counter, cache) ==
  [kind |-> "frame", space |-> current_space, counter |-> counter,
   ordinal |-> 0, saved |-> call_ordinal_ptr, place |-> "entry",
   cache |-> cache, outer |-> current_space, initial |-> 0, local |-> FALSE]

(* A RetraceSpaceScope; ordinal is its local_root_call_ordinal. *)
Scope(s, local) ==
  [kind |-> "scope", space |-> s, counter |-> 0,
   ordinal |-> root_call_ordinal[s], saved |-> call_ordinal_ptr,
   place |-> "running", cache |-> NoDelta, outer |-> current_space,
   initial |-> root_call_ordinal[s], local |-> local]

Entry == [kind : {"frame", "scope"}, space : Spaces, counter : Nat,
          ordinal : Nat, saved : Slot, place : {"entry", "running"},
          cache : Caches, outer : Spaces, initial : Nat, local : BOOLEAN]
Suspended == [counter : Nat, cache : Caches]

TypeOK ==
  /\ chain \in Seq(Entry)
  /\ current_space \in Spaces
  /\ call_ordinal_ptr \in Slot
  /\ root_call_ordinal \in [Spaces -> Nat]
  /\ depth \in [Spaces -> Nat]
  /\ seen \subseteq Spaces
  /\ callback_frame \in 0 .. Len(chain)
  /\ suspended \subseteq Suspended
  /\ last_delta_root \in [Spaces -> Nat \cup {Unset}]
  /\ DOMAIN reported = Spaces

(* A thread starts in the space its creator was in. *)
Init ==
  /\ chain = <<>>
  /\ current_space \in Spaces
  /\ call_ordinal_ptr = RootSlot(current_space)
  /\ root_call_ordinal = [s \in Spaces |-> 0]
  /\ depth = [s \in Spaces |-> 0]
  /\ seen = {}
  /\ callback_frame = 0
  /\ suspended = {}
  /\ last_delta_root = [s \in Spaces |-> Unset]
  /\ reported = [s \in Spaces |-> <<>>]

-----------------------------------------------------------------------------
(* Reading the chain *)

Top == chain[Len(chain)]
UpTo(i) == SubSeq(chain, 1, i)
Popped == UpTo(Len(chain) - 1)

VisibleIn(e, s) == e.kind = "frame" /\ e.counter > 0 /\ e.space = s

(* NearestVisibleFrameInSpace, from the end of the given chain; 0 if none *)
Nearest(entries, s) ==
  Max({0} \cup {i \in 1 .. Len(entries) : VisibleIn(entries[i], s)})

VisibleFrames(entries, s) ==
  Selected(entries, {i \in 1 .. Len(entries) : VisibleIn(entries[i], s)})

(* The coordinate stream: two words for each visible frame of the space. *)
Words(entries, s) ==
  LET frames == VisibleFrames(entries, s)
  IN [w \in 1 .. 2 * Len(frames) |->
        IF w % 2 = 1 THEN frames[(w + 1) \div 2].counter
                     ELSE frames[w \div 2].ordinal]

Stream(s) == Words(chain, s)

(* While a callback runs, the thread is read at the frame it interrupted:  *)
(* by CurrentThreadFrame except from the root space, and by the queries    *)
(* except for the space the thread is in.                                  *)
CurrentThreadFrame ==
  IF callback_frame # 0 /\ current_space # RootSpace THEN callback_frame
                                                     ELSE Len(chain)
ThreadStateFrame(s) ==
  IF callback_frame # 0 /\ current_space # s THEN callback_frame
                                             ELSE Len(chain)

(* The bounds leave room to count the next frame at the slot. *)
CountsBelow(slot) ==
  CASE slot[1] = 0 -> root_call_ordinal[slot[2]] < MaxRoot
    [] slot[1] # 0 -> chain[slot[1]].ordinal <
                        IF chain[slot[1]].kind = "frame" THEN MaxOrdinal
                                                         ELSE MaxRoot

(* C code, called by an instruction or from outside Python, is running and *)
(* may start frames, enter scopes and query.                               *)
InC == chain # <<>> => Top.place = "running"
HasRoom == Len(chain) < MaxDepth

OnTop(kind) == chain # <<>> /\ Top.kind = kind

-----------------------------------------------------------------------------
(* Frames *)

ActivateFrame(frame) ==
  /\ InC
  /\ HasRoom
  /\ CountsBelow(call_ordinal_ptr)
  /\ chain' = Append(chain, frame)
  /\ call_ordinal_ptr' = <<Len(chain) + 1, frame.space>>
  /\ seen' = seen \cup {frame.space}
  /\ depth' = [depth EXCEPT ![frame.space] = @ + 1]
  /\ UNCHANGED <<current_space, root_call_ordinal, callback_frame, deltaVars>>

Call == ActivateFrame(Frame(0, NoDelta)) /\ UNCHANGED suspended

(* An inlined resumption keeps the delta cache; one that enters the        *)
(* evaluator through C resets it.                                          *)
ResumeGenerator(g) ==
  /\ \/ ActivateFrame(Frame(g.counter, NoDelta))
     \/ OnTop("frame") /\ ActivateFrame(Frame(g.counter, g.cache))
  /\ suspended' = suspended \ {g}

(* Mutant: a frame that leaves is not counted. *)
Uncounted(ordinal) == ordinal

Counted(ordinal) == ordinal + 1

(* Mutant: the depth keeps the frames that left. *)
DepthKept(n) == n

Shallower(n) == IF n > 0 THEN n - 1 ELSE 0

(* The frame on top leaves and its caller's slot counts it. *)
DeactivateFrame ==
  /\ IF Top.saved[1] = 0
       THEN /\ root_call_ordinal' =
                 [root_call_ordinal EXCEPT ![Top.saved[2]] = Counted(@)]
            /\ chain' = Popped
       ELSE /\ chain' = [Popped EXCEPT ![Top.saved[1]].ordinal = Counted(@)]
            /\ UNCHANGED root_call_ordinal
  /\ call_ordinal_ptr' = IF call_ordinal_ptr = <<Len(chain), Top.space>>
                           THEN Top.saved ELSE call_ordinal_ptr
  /\ depth' = [depth EXCEPT ![Top.space] = Shallower(@)]
  /\ UNCHANGED <<current_space, seen, callback_frame, deltaVars>>

(* A return, or an exception, which may also hit a resumed generator       *)
(* before its next instruction.                                            *)
LeaveFrame ==
  /\ OnTop("frame")
  /\ Top.place = "running" \/ Top.counter > 0
  /\ DeactivateFrame
  /\ UNCHANGED suspended

Suspend(g) ==
  /\ OnTop("frame")
  /\ Cardinality(suspended \cup {g}) <= MaxSuspended
  /\ DeactivateFrame
  /\ suspended' = suspended \cup {g}

Yield == OnTop("frame") /\ Top.place = "running"
         /\ Suspend([counter |-> Top.counter, cache |-> Top.cache])

(* RETURN_GENERATOR: the generator's own frame is a copy with fresh state. *)
CreateGenerator == OnTop("frame") /\ Top.counter = 0
                   /\ Suspend([counter |-> 1, cache |-> NoDelta])

(* Starting an instruction of the frame on top. *)
Advance(f) ==
  [f EXCEPT !.counter = @ + 1, !.ordinal = 0, !.place = "running"]

AtInstruction == Append(Popped, Advance(Top))

BeginInstruction ==
  /\ OnTop("frame")
  /\ Top.counter < MaxCounter
  /\ UNCHANGED <<root_call_ordinal, depth, seen, suspended, deltaVars>>

Step ==
  /\ BeginInstruction
  /\ chain' = AtInstruction
  /\ UNCHANGED <<current_space, call_ordinal_ptr, callback_frame>>

-----------------------------------------------------------------------------
(* Scopes *)

(* Mutant: the frames that the space has on the chain are not looked for. *)
NoParent(entries, frame, s) == 0

Parent(entries, frame, s) == Nearest(SubSeq(entries, 1, frame), s)

(* Mutant: a scope without a parent counts where its caller counts. *)
CallersSlot(parent, scope, s) ==
  IF parent = 0 THEN call_ordinal_ptr ELSE <<parent, s>>

ScopeSlot(parent, scope, s) == <<IF parent = 0 THEN scope ELSE parent, s>>

(* enter_space, when the chain is entries and CurrentThreadFrame its entry *)
(* number frame                                                            *)
EnterSpace(s, entries, frame) ==
  LET parent == Parent(entries, frame, s)
  IN /\ HasRoom
     /\ parent = 0 => root_call_ordinal[s] < MaxRoot
     /\ chain' = Append(entries, Scope(s, parent = 0))
     /\ call_ordinal_ptr' = ScopeSlot(parent, Len(entries) + 1, s)
     /\ current_space' = s

RunInSpace(s) ==
  /\ InC
  /\ EnterSpace(s, chain, CurrentThreadFrame)
  /\ UNCHANGED <<root_call_ordinal, depth, seen, callback_frame, suspended,
                 deltaVars>>

(* A call_at or thread-switch callback, before the instruction runs. *)
EnterCallback ==
  /\ Callbacks
  /\ callback_frame = 0
  /\ BeginInstruction
  /\ callback_frame' = Len(chain)
  /\ EnterSpace(DisabledSpace, AtInstruction, Len(chain))

(* What leave_space leaves in the root ordinal of its space. *)
WrittenBack(scope) ==
  IF scope.ordinal = scope.initial THEN scope.ordinal + 1 ELSE scope.ordinal

(* Mutant: leaving a scope keeps the scope's own slot. *)
SlotKept == call_ordinal_ptr

SlotRestored == Top.saved

(* Mutant: the pinned frame stays set after the callback. *)
PinKept == callback_frame

PinAfter == IF Len(chain) = callback_frame + 1 THEN 0 ELSE callback_frame

LeaveSpace ==
  /\ OnTop("scope")
  /\ root_call_ordinal' =
       IF Top.local
         THEN [root_call_ordinal EXCEPT ![Top.space] = WrittenBack(Top)]
         ELSE root_call_ordinal
  /\ current_space' = Top.outer
  /\ call_ordinal_ptr' = SlotRestored
  /\ chain' = Popped
  /\ callback_frame' = PinAfter
  /\ UNCHANGED <<depth, seen, suspended, deltaVars>>

-----------------------------------------------------------------------------
(* thread_delta() *)

Entries(s) == UpTo(ThreadStateFrame(s))

(* The words the frames' caches hold, Unset where they hold none.  *)
Cached(entries, s) ==
  LET frames == VisibleFrames(entries, s)
      hit(f) == f.cache # NoDelta /\ f.cache[1] = s
  IN [w \in 1 .. 2 * Len(frames) |->
        LET f == frames[(w + 1) \div 2]
        IN IF ~hit(f) THEN Unset
           ELSE IF w % 2 = 1 THEN f.cache[2] ELSE f.cache[3]]

(* Mutant: a frame counts as unchanged if its first word is. *)
CommonCountOfFrames(s) ==
  LET words == Words(Entries(s), s)
      cached == Cached(Entries(s), s)
  IN IF last_delta_root[s] # root_call_ordinal[s] THEN 0
     ELSE Max({n \in 0 .. Len(words) :
                 \A w \in 1 .. n : w % 2 = 1 => cached[w] = words[w]})

(* The length of the prefix that is reported as unchanged *)
CommonCount(s) ==
  LET words == Words(Entries(s), s)
      cached == Cached(Entries(s), s)
  IN IF last_delta_root[s] # root_call_ordinal[s] THEN 0
     ELSE Max({n \in 0 .. Len(words) :
                 \A w \in 1 .. n : cached[w] = words[w]})

(* The caches are made to hold what the frames have now. *)
Remember(s) ==
  /\ s \in Reporting
  /\ InC
  /\ s \in seen
  /\ chain' = [i \in 1 .. Len(chain) |->
       IF i <= ThreadStateFrame(s) /\ VisibleIn(chain[i], s)
         THEN [chain[i] EXCEPT !.cache = <<s, chain[i].counter,
                                           chain[i].ordinal>>]
         ELSE chain[i]]
  /\ last_delta_root' = [last_delta_root EXCEPT ![s] = root_call_ordinal[s]]
  /\ UNCHANGED <<threadVars, depth, seen, callback_frame, suspended>>

ThreadDelta(s) ==
  Remember(s) /\ reported' = [reported EXCEPT ![s] = Words(Entries(s), s)]

(* There is no memory for the tuple: MemoryError is raised in its place. *)
ThreadDeltaFails(s) == Remember(s) /\ UNCHANGED reported

-----------------------------------------------------------------------------
Next ==
  \/ Call
  \/ \E g \in suspended : ResumeGenerator(g)
  \/ LeaveFrame
  \/ Yield
  \/ CreateGenerator
  \/ Step
  \/ \E s \in Spaces : RunInSpace(s)
  \/ EnterCallback
  \/ LeaveSpace
  \/ \E s \in Spaces : ThreadDelta(s)

Spec == Init /\ [][Next]_vars

(* Memory may run out for a report.  The properties are about Spec. *)
SpecWithFailures ==
  Init /\ [][Next \/ \E s \in Spaces : ThreadDeltaFails(s)]_vars

-----------------------------------------------------------------------------
(* Properties *)

LiveSlot(entries, slot, above) ==
  \/ slot[1] = 0
  \/ /\ slot[1] < above
     /\ entries[slot[1]].space = slot[2]
     /\ entries[slot[1]].kind = "frame" \/ entries[slot[1]].local

LiveEntry(entries, i) ==
  /\ LiveSlot(entries, entries[i].saved, i)
  /\ entries[i].saved[2] = entries[i].outer

(* Every ordinal pointer that will be dereferenced points at a frame that  *)
(* is still active, a scope still open, or a root ordinal, and at one of   *)
(* the space that the frame it counts belongs to: whatever was entered,    *)
(* yielded, thrown or left in between, no pointer outlives its slot and no *)
(* child is counted in another space.                                      *)
SlotsAreLive ==
  /\ LiveSlot(chain, call_ordinal_ptr, Len(chain) + 1)
  /\ call_ordinal_ptr[2] = current_space
  /\ \A i \in 1 .. Len(chain) : LiveEntry(chain, i)

(* space->depth is the number of the space's active frames, across scopes, *)
(* generators and callbacks.                                               *)
DepthCountsFrames ==
  \A s \in Spaces :
    depth[s] = Cardinality({i \in 1 .. Len(chain) :
                              chain[i].kind = "frame" /\ chain[i].space = s})

(* The promise of space.run(): a frame attaches below the nearest active   *)
(* frame of its space, however many frames of other spaces lie between,    *)
(* and below the root ordinal or an open scope's copy of it if there is    *)
(* none.                                                                   *)
AttachesBelowNearest ==
  \A i \in 1 .. Len(chain) : chain[i].kind = "frame" =>
    LET parent == Nearest(UpTo(i - 1), chain[i].space)
        slot == chain[i].saved
    IN IF parent # 0 THEN slot = <<parent, chain[i].space>>
                     ELSE slot[1] = 0 \/ chain[slot[1]].kind = "scope"

(* It holds whenever no callback is running. *)
AttachesBelowNearestOutsideCallbacks ==
  callback_frame = 0 => AttachesBelowNearest

(* The query reads the whole chain as far as s goes: no callback runs, or  *)
(* it has no frame of s above the one it interrupted.                      *)
ReadInFull(s) == callback_frame = 0 \/ Nearest(chain, s) <= callback_frame

(* What thread_delta() reports as unchanged is a prefix of the stream it   *)
(* reported last, although it keeps no copy of that stream and only        *)
(* compares each frame with what that frame reported last; a consumer that *)
(* keeps the prefix and appends the suffix holds the current stream.  In a *)
(* callback too, but for the frames that it puts on top in s itself: asked *)
(* from another space, the report leaves them out, and their caches do not *)
(* know.                                                                   *)
DeltasReconstruct ==
  InC =>
    \A s \in seen : ReadInFull(s) =>
      LET n == CommonCount(s)
          words == Words(Entries(s), s)
      IN /\ n <= Len(reported[s])
         /\ \A w \in 1 .. n : words[w] = reported[s][w]

(* Running in one space leaves the stream and the root ordinal of every    *)
(* other space of the thread as they were.                                 *)
SpacesAreIsolated ==
  [][\A s \in Spaces : s \notin {current_space, current_space'} =>
       /\ Stream(s)' = Stream(s)
       /\ root_call_ordinal'[s] = root_call_ordinal[s]]_vars

(* The order of retrace_compare_target_to_frame *)
Precedes(a, b) ==
  \/ \E n \in 1 .. Len(a) : /\ n <= Len(b)
                            /\ a[n] < b[n]
                            /\ \A w \in 1 .. n - 1 : a[w] = b[w]
  \/ /\ Len(a) < Len(b)
     /\ \A w \in 1 .. Len(a) : a[w] = b[w]

(* A scope of s is given a frame of s to count at, if there is one: no     *)
(* callback runs, or s has a frame among those that it interrupted, which  *)
(* is where it looks.                                                      *)
FindsFrame(s) == callback_frame = 0 \/ Nearest(UpTo(callback_frame), s) # 0

(* While a space keeps an active frame its stream only moves forward: a    *)
(* coordinate that call_at has passed does not come back, whatever is      *)
(* called, yielded, thrown or run in other spaces in between.  During      *)
(* callbacks too, in the spaces of the frames that they interrupted.  (The *)
(* bound variables have TLC work out each stream once.)                    *)
StreamsAdvance ==
  [][\A s \in Spaces :
       /\ FindsFrame(s)
       /\ depth[s] > 0 /\ depth'[s] > 0
       => \A now \in {Stream(s)}, later \in {Stream(s)'} :
            later # now => Precedes(now, later)]_vars

(* docs/coordinate-spaces.md: "Once a thread uses a space, that thread     *)
(* keeps per-space state, including the root ordinal, until thread exit."  *)
RootOrdinalsAreKept ==
  [][\A s \in Spaces : root_call_ordinal'[s] >= root_call_ordinal[s]]_vars
=============================================================================
