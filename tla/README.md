# Retrace for CPython: a verification project

Retrace adds *execution coordinates* to CPython, so that a recorded execution
can be replayed: every instruction that a thread starts has an address that is
the same in every run, threads can be switched at an address, and what used to
depend on memory addresses (thread ids, identity hashes) is derived from
addresses. This directory models the C code that keeps those coordinates and
hands control between threads, checks it with TLC and proves its central
properties with TLAPS.

The source of the overlay is `src/cpython-overlay/`:

| short | file |
| --- | --- |
| M | `Modules/retracemodule.c`: the module `_retrace`, the queries, callbacks and `ThreadHandoff` |
| H | `Include/internal/pycore_retrace.h`: hooks called by the patched interpreter |
| I | `Include/internal/pycore_retrace_identity_hash.h`: the identity hash table |
| S | `Include/cpython/retrace_state.h`: the structures |
| P | `Lib/retrace.py`: the public module |

`src/patches/3.1x/` calls the hooks from CPython. Where the versions differ the
models follow 3.12, except for `FrameCounter`, which has the jumps of all of
them. `PROJECT.json` maps every definition to the lines it
stands for.

## 1. Inventory

### Frames and coordinate spaces (H, S, M 780-1180, patches 0001 and 0010)

*State.* Per interpreter frame: an instruction counter (`coordinate_bias` +
`f_lasti`), a call ordinal (how many children its present instruction has had),
the space it runs in, the ordinal pointer it found when it was activated, and a
cache of what `thread_delta()` last reported of it. Per thread: the current
space, a pointer to the ordinal that counts the next frame, and a list of
per-space records (root ordinal, depth, last root ordinal reported). On the C
stack: a `RetraceSpaceScope` for each `space.run()` in progress.

*Operations.* Activate, suspend, resume and leave a frame; begin an
instruction; enter and leave a space; exclude a callback from its
interrupted code.

*Hard.* The ordinal pointer is raw and points into a frame, into a scope on
the C stack or into the thread. Frames, scopes and generators save and restore
it in an order nobody wrote down; a generator is resumed under another parent
than the one it was suspended under.

*Correct if* no pointer outlives what it points to or counts in another space;
a frame hangs below the nearest frame of its space; spaces do not disturb each
other; and the coordinate of a space only grows.

### Delta stream (M 200-290)

*State.* One cache per frame and one reported root ordinal per space: no copy
of the stream that was sent. *Operation.* `thread_delta()` returns the length
of the unchanged prefix and the words after it. *Hard.* Caches survive
suspension and move with generators; a query in a callback sees only part of the
chain. *Correct if* the prefix it calls unchanged is one that the consumer has.

### Instruction counter (H 120-160, patch 0001)

*State.* Per frame a bias; the counter is the bias plus `f_lasti`.
*Operations.* Every jump of the evaluator, and the way to an exception handler,
moves the bias. *Hard.* The evaluator jumps for reasons of its own (inline
caches, fused instructions), and may raise, call or lose the GIL after it has
jumped; each release does it differently. `RERAISE` sets the instruction pointer
back to an older instruction before the way to a handler. *Correct if* every instruction that a
frame starts has a larger counter than those before, and nobody who reads the
counter in between finds it ahead.

### call_at targets (M 300-380, 560-660, 1180-1360, 1845-1990)

*State.* One armed target for the root space and one per entry of the
interpreter's list of space callbacks; a flag `call_at_extra_armed`.
*Operations.* `call_at`, which arms or (with `None`) clears, and the check
before every visible instruction, which hits, passes (overshoot) or drops a
target. *Hard.* The list
is shared with switch callbacks and edited while it is walked; callbacks are
Python code; only one is called at a boundary; ids are given again. *Correct if*
flags and entries agree, no target is lost, and none that is due stays behind.

### Thread switch callbacks (M 560-780, 1700-1845, H 880-935)

*State.* The interpreter's `last_bytecode_thread`, one cursor per entry, a
flag. *Operations.* Setting and clearing a callback, the check before each
instruction, forgetting a thread that exits. *Hard.* A pointer for the whole
interpreter lets most instructions skip a check that is per space; a callback is
interrupted by other threads before the pointer is set; pointers name thread
states that are freed. *Correct if* the follower of a space knows which thread
ran in it last, and no pointer dangles.

### ThreadHandoff (M 1365-1650)

*State.* A lock, a closed flag, a timeout, and per thread a permit, a waiting
flag and a gate (a lock that the sleeper acquires and a waker releases).
*Operations.* `to(target)`, `close()`, deallocation. *Hard.* Three kinds of
locks; transfers that reach a running thread; timeouts that race transfers;
close racing both. *Correct if* no wakeup is lost, nobody holds the object's
lock while waiting for the GIL, and a granted thread returns.

### Thread ids (H 60-84, 490-680)

*State.* An id per thread state. *Operations.* Seed an id from the creator's
id and place, remix it while a living thread has it, scope it to a space.
*Hard.* Uniqueness among the living, reuse after exit, and determinism although
retries depend on who is alive.

### Identity hash table (I)

*State.* A robin-hood table from objects to hashes; the distance of an entry
from its first slot sits, saturated, in the low bits of the pointer.
*Operations.* Lookup, insert, grow, delete with backward shift, clear. *Hard.*
Probes stop early, by an order that displacement and deletion must keep.
*Correct if* it is a map.

### Pointer hashes (H 780-860, patch 0008)

*State.* The table's entry for each address. *Operations.* `_Py_HashPointer`
looks an object up, or gives it the hash of the thread's coordinate and keeps
that; `_Py_Dealloc` deletes the entry after the deallocator has returned.
*Hard.* Finalizers hash and resurrect their object; an address may have another
object by the time its entry is deleted; deallocators are also called without
`_Py_Dealloc`. *Correct if* a living object keeps its hash and no object
inherits another one's.

### Parts with little state of their own

Coordinate hash, queries of coordinates, space
id allocation and wrappers, the public module, the freeze-time stub, the patch
series, packaging, tests and documents: see `components` in `PROJECT.json` for
what each is and why it is, or is not yet, modelled.

### How they interact

The patched eval loop calls H before each instruction and at each activation
and departure of a frame. H moves the counters and, when an interpreter flag
says that somebody may care, calls M, which compares the thread's stream with
the armed targets and looks for a switch. A callback is run in the disabled
space, pinned to the instruction it interrupted. A replay scheduler calls
`call_at` to stop a thread at an address and `handoff.to()` to run another one.
Identity hashes and thread ids are derived from the stream of the thread that
asks for them. Nearly everything runs under the GIL; what interleaves is what
happens where the GIL may be dropped: between instructions, in callbacks, and in
the waits of `ThreadHandoff`.

## 2. Modules

| module | what it is |
| --- | --- |
| `Baton` | what `ThreadHandoff` promises, abstractly |
| `Handoff` | `ThreadHandoff` with the GIL, the lock and the gates; implements `Baton` |
| `HandoffProofs` | its proofs |
| `Coordinates` | frames, spaces, scopes, callbacks' view and the delta stream of one thread |
| `CoordinatesProofs` | its proofs: types, slots, depths, where frames attach, and the streams: isolation, order and deltas |
| `Boundaries` | call_at targets and switch callbacks of an interpreter's threads |
| `BoundariesProofs` | its proofs |
| `FrameCounter` | the arithmetic of one frame's instruction counter |
| `FrameCounterProofs` | its proofs |
| `ThreadIds` | seeding and remixing of thread ids |
| `ThreadIdsProofs` | its proofs |
| `IdentityHashes` | a map from objects to hashes |
| `IdentityHashTable` | the robin-hood table; implements `IdentityHashes` |
| `IdentityHashTableProofs` | proofs of `IdentityHashTable` and `PointerTable` |
| `ObjectLives` | the lives of the objects at each address |
| `PointerHashes` | hashing by identity: `ObjectLives` over `IdentityHashes` |
| `PointerHashesProofs` | its proofs |
| `PointerTable` | `ObjectLives` over `IdentityHashTable`; implements `PointerHashes` |
| `Selections`, `SelectionsProofs` | the elements of a sequence at chosen places, and what is known of them |
| `MC*` | the instances for TLC |

`Boundaries` abstracts a stream to its place in the order of streams; that
streams have such an order and move forward in it is `Coordinates!StreamsAdvance`.
`Coordinates` in turn takes a frame's counter to grow from one instruction to the
next. `FrameCounter` says when it does; in a frame whose counter falls or repeats
(section 4, differences 3 and 5) so does the stream, and what is shown of streams,
positions and targets is of frames to which that does not happen. `PointerHashes` takes the table to be
the map that `IdentityHashTable` implements, and `PointerTable` puts the table in
its place: the same lives, with probes, growth and shifting back under them.

### Handoff

| model | code |
| --- | --- |
| `gil`, `TakeGil`, `DropGil` | the interpreter's GIL; a thread takes it when it wants to run or comes back from a gate |
| `lock` | `self->lock` |
| `permit`, `waiting`, `gate` | the fields of `RetraceThreadHandoffEntry` |
| `Call`, `AcquireLock`, `RejectClosed`, `TransferToSelf`, `OutOfMemory`, `Transfer`, `Park` | `to()` up to the wait, one action per way out |
| `AcquireGate`, `TimeOut`, `Relock`, `RaiseTimeout`, `Resume`, `SleepAgain` | the wait loop |
| `Close`, `Dealloc` | `close()`, `tp_dealloc` |
| `Start` | a new thread is given the id of one that has exited, and finds its entry |

A step ends where the C code takes or releases a lock, so every interleaving
that can be observed is there. A gate is a PyThread lock: on semaphore builds a
second release is counted, on others not (`CountingGate`). The checks of the
arguments are left out.

### Coordinates

`chain` holds the frames and scopes of a thread, oldest first. A pointer to an
ordinal is a *slot* `<<i, s>>`: entry `i`, or the root ordinal of space `s` if
`i` is 0. `s` is not in the C pointer: it is there to say that a pointer counts
in the right space.

| model | code |
| --- | --- |
| `Call`, `ResumeGenerator` | `ActivateFrame`, inlined and through C |
| `LeaveFrame`, `Yield`, `CreateGenerator` | `DeactivateFrame` and the suspension hooks |
| `Step` | `BeginInstruction` without a callback |
| `RunInSpace`, `LeaveSpace` | `enter_space`, `leave_space`; `disable`, `enable`, `include`, `exclude` and their wrappers come down to them |
| `EnterCallback` | a callback at a boundary: it sets the frame and enters the disabled space |
| `ThreadDelta`, `ThreadDeltaFails` | `thread_delta()` of the own thread; without memory for its result |

The instruction counter is abstract: it grows by one at each instruction. A
frame whose counter is 0 has not finished its prologue and is not visible, as
`_PyFrame_IsIncomplete` has it.

### FrameCounter

`bias`, `lasti` and `next` are `coordinate_bias`, `f_lasti` and `next_instr`, in
code units. `host` is the release, and `course` how the instruction in progress has
gone so far: straight on, through a jump, by raising (again, or from outside), or to
a handler of which tools are being told. `MayRaise` says from where the evaluator
may go to a handler. `Handlers` is the exception table, looked up with the unit
before `next_instr` as the evaluator does.

| model | code |
| --- | --- |
| `Coordinate` | `_PyFrame_RetraceCoordinate` |
| `BeginInstruction` | the boundary: `f_lasti` moves to the instruction |
| `Jump`, `Raise` | `JUMPBY`, `JUMPTO`, the way to a handler, all through `_PyFrame_RetraceCoordinateJump` |
| `Reraise` | `RERAISE` with an oparg: `f_lasti` goes back to an offset that a handler has kept (`kept`) |
| a second `Raise` from `course = "handler"` | `monitor_handled` fails and the exception is unwound again |
| `Skip`, `CallInline`, `Dispatch` | the evaluator between two boundaries |
| `Suspend`, `Resume`, `Throw` | a generator; `ActivateFrame` keeps the bias |
| `Read` | a query, or a delta for a switch, in the middle of an instruction |

Three variables are history: `boundary` is the counter at the last boundary;
`observed` the counter when it was last read before the instruction had jumped;
`again` says that the frame has jumped to a handler, or forwards, from a place from
which it had jumped so before, and that no boundary has come since whose counter is
not below zero.

### Boundaries

A thread has a stack of spaces (one per frame), a *position* in each space,
and a phase. `Begin` is the whole of `_PyRetrace_BeginInstruction` in a visible
frame up to the call of a callback: the position grows, the slots are compared in
the code's order (root first, then the entries, newest first), those passed
without an overshoot callback are dropped, and the first that has a callback
puts the thread in phase `call_at`. Without one, `CheckSwitch` looks for a
switch and may leave the thread in phase `switch`. `FinishCallAt` goes on with
that check, `FailCallAt` is a callback that raised, `FinishSwitch` sets the
interpreter's pointer. A report comes out in one of three ways (`Outcomes`): it
is told, its delta cannot be built, or the callback cannot be called.
`CallAtFails` is a `call_at` that found no memory for the entry. While a thread
is in a callback other threads run, and it may itself arm, clear and set
anything. `BeginPrologue` is the same function in a frame that is not yet
visible. `Exit` is `ClearThreadState`, and `Start` a new thread with the id of
one that has exited, which the targets still armed for that id are compared
with.

`ran` and `straight` are history: who last ran in a space, and whether anything
has happened that the code does not follow.

### ThreadIds

`creator` and `cursor` say who starts whom and where; they never change, so a
behaviour is one timing of a given program. `Start` seeds an id from the
creator's id and frames, and takes the first candidate that no living thread
has. `Exit` frees it. A hash is the term that is mixed, so different inputs give
different hashes. The root ordinal of the creator is not in the seed, because
it is not in the code's.

### IdentityHashTable

`slots` is the array, `used` its count, `capacity` 0 while there is none. The
distance is kept saturated as in the pointer's low bits. `HashPointer` inserts
after a failed lookup, slot by slot (`Walked`), and grows when the code does; `Delete` shifts the run
after the hole back by one; `Clear` drops the table. An operation is one step,
since it does not leave the GIL.

### ObjectLives, PointerHashes and PointerTable

`life` says what is at an address: nothing, a
living object, one in a deallocator that `_Py_Dealloc` called (`dying`) or that
was called directly (`leaving`), or one in the trashcan (`deferred`). `open`
counts the calls of `_Py_Dealloc` for the address that have not yet deleted its
entry: between the deallocator's `Free` and `DeleteObjectIdentityHash` other
threads run and may be given the address. `told` is the last hash the object was
given, `frail` and `unclean` the objects and addresses of which less is promised.
The life of objects is CPython's and external.

| model | code |
| --- | --- |
| `HashPointer`; `PointerTable!Hash` | `_PyRetrace_HashPointer`: the lookup, and the insertion if it fails |
| `DeleteObjectIdentityHash` | the call at the end of `_Py_Dealloc`; in `PointerTable` a probe that may find nothing |
| `ClearIdentityHashTable` | the call when the interpreter is cleared |
| `Unseen` | what CPython does with objects in between |

In `PointerHashes` the table is the map `hash`; in `PointerTable` it is the array of
`IdentityHashTable`, and a hash that is not kept (`kept` false) is one for which the
table has to grow and there is no memory.

## 3. Runs

Symmetry is used where all properties are invariants or `[][A]_vars` and the
symmetric constants are interchangeable.

| run | instance | distinct states | shows |
| --- | --- | --- | --- |
| `handoff_safety` | 3 threads, counting gates | 487,774 | `NoLostWakeup`, `LockNeverBlocksGilHolder`, `GateBounded`, `NeverAllAsleep`, refinement of `Baton` |
| `handoff_live` | 2 threads, fair | 8,264 | `GrantedReturns`, `CloseWakesAll`, `WaitsEnd` |
| `coordinates` | 2 spaces, callbacks, deltas of one space, depth 4, one suspended generator | 1,144,275 | `SlotsAreLive`, `DepthCountsFrames`, `AttachesBelowNearestOutsideCallbacks`, `DeltasReconstruct`, `SpacesAreIsolated`, `StreamsAdvance` |
| `root_ordinals` | depth 4 | violation | a root ordinal goes back |
| `failed_delta` | no callbacks | violation | a report that fails counts as sent |
| `frame_counter` | 3 releases, 5 code units, 2 handlers, counters up to 9 | 1,534,344 | `BoundariesAdvanceAfterSingleJumps`, `ReadingsAdvanceBeforeJumps` |
| `reraise` | releases 3.12 and 3.13, a try in a try, no tools | violation | a handler's counter goes back |
| `boundaries` | 2 threads, 2 spaces, a target in each | 821,720 | `FlagsAgree`, `NoDanglingThread`, `RunnersAreToldWhenStraight`, `TargetsAreKept`, `NoneDueIsPassedOver` |
| `missed_switch` | the same, no targets | violation | a switch is not reported |
| `identity_hashes` | 6 objects, 2 hashes, tables of 8 and 16 | 585 | `WellPlaced`, `RoomIsLeft`, refinement of `IdentityHashes` |
| `pointer_hashes` | 2 addresses that collide, 2 hashes, 2 open deallocations of each, tables of 2 and 4 | 24,974 | `HashesAreSteady`, `NoEntryIsLeft`, `NothingLeaks`, refinement of `PointerHashes` |
| `thread_ids` | 4 threads, 5 places in 3 spaces | 444,660 | `LivingIdsDiffer`, `SteadyIdsAreDeterministic` |

Deadlock checking is off where the system really may stop: threads may all
exit, or park behind one that has exited; a bound on counters, depth or
positions may leave a thread or a frame nothing to do; all threads that are to be
made may have been made and have exited. `identity_hashes` and `pointer_hashes`
check for deadlock.

### Why the bounds are enough

* *Handoff*: a race needs a sleeper, a granter and a third party that closes,
  times out or also grants. Two tokens are the most a gate ever holds, and the
  theorems hold for any number of threads.
* *Coordinates*: depth 4 gives a frame, a callback's scope, a scope in it and a
  frame there, and also a caller, a generator and its child; one suspended
  generator can be resumed under another parent with the cache it had. A frame
  of a space below a frame of the other below a frame of the first, with the
  scopes between, is deeper: that case is the theorems', which hold for any depth.
  Two spaces suffice because each rule compares a space with "the others", and one
  that reports because a report reads and changes nothing of another's. Two
  instructions per frame tell a new instruction, which starts its ordinals anew,
  from the one before; an ordinal of 1 tells the first child from the next.
* *FrameCounter*: five code units hold an instruction with a cache, a jump over
  it, a loop, and two handlers that guard each other, one behind the code that it
  guards and one before. Two kept offsets are those of a cleanup and of one in it. A
  counter of 9 is enough for a loop to run more than once. The theorems hold for any
  size and any exception table. `reraise` has the table of a `try` in a `try`.
* *Boundaries*: one thread acts while another is in a callback. Two targets,
  one in the root's slot and one in an entry, one with and one without an
  overshoot callback, cover the four ways a target goes, and both can be due at
  one boundary. Position 2 lets a thread be before, at and past a target at 1.
* *IdentityHashTable*: four objects share the last slot of eight, so runs wrap
  round the end; the sixth object makes the table grow. The code starts with 16
  slots and keeps distances up to 7; the instance starts with 8 and keeps them up
  to 2, so that both the growth and the saturated distances happen.
* *PointerTable*: two open deallocations of one address are the least in which one
  that is late deletes the entry of an object that is in use. Two addresses with
  one first slot, the last of four, make an entry wrap round and come back when the
  other is deleted; a table of two slots has to grow for the second. Six objects in
  one table are `identity_hashes`' matter.
* *ThreadIds*: two threads started at one place, and a child of either or a
  thread from C code; two spaces whose ids agree in the 16 bits that a thread id
  keeps of them, and one that differs.

### Fairness (`handoff_live` only)

C code goes on (`WF` of its steps); a free gate is acquired and an expired wait
is noticed (`WF`); a thread that runs Python drops the GIL when others ask for
it, which the eval loop does at its next check (`SF DropGil`); and a thread that
keeps asking for the GIL gets it. The last (`SF TakeGil`) is assumed of the
operating system's lock: CPython makes the holder wait for a switch when
another thread has asked for it, but does not say which thread wins.

## 4. Where the code and its documents differ

Four differences are shown by a run whose property TLC finds violated:

1. *Root ordinals go back* (`root_ordinals`). `leave_space` writes back the
   scope's copy of the root ordinal. If the space was entered again inside,
   without a frame, the inner runs counted in the record and the outer one
   overwrites it with an older number; the coordinates hashed from it repeat.
2. *A switch is missed* (`missed_switch`). A boundary in a prologue, or in
   another space, moves the interpreter's pointer; the thread's later
   instructions in a watched space are then not looked at.
3. *A handler's counter goes back* (`reraise`). The way to a handler is rebased from
   the instruction pointer (3.13/0001:75, and likewise in the other releases).
   `RERAISE` with an oparg, which ends the cleanup of a block, has set that
   pointer back to the offset A of the instruction that raised first. If A had
   counter c, a cleanup at C > A has c + 1 and more, and the handler outside gets
   c + 2 + A - C: one that was used, or less, down to 0, where the clamp holds it. An
   exception that leaves an `except`, `finally` or `with` block for another one of
   the same function is enough. Include/cpython/retrace_state.h:32 says that the
   bias makes the counter "monotonic across jumps".
4. *A failed report counts as sent* (`failed_delta`). `thread_delta()` brings the
   caches up to date and makes its tuple afterwards. If there is no memory for it
   the caller gets `MemoryError`, and the next report calls words unchanged that
   were never sent; docs/probe-abi.md:67 speaks of the caller's previous stack.
   `ThreadDeltaFails` is in `SpecWithFailures` only, so that the theorem about
   deltas is about reports that arrive.

The others follow from reading the actions and have no run of their own:

5. *Counted twice from one place.* On 3.11 the evaluator skips inline caches with
   `JUMPBY`, so an instruction that skips its caches and then takes a fused branch,
   or raises, is rebased twice from one place and loses the first jump. From 3.12 on
   the same happens at a handler if a tool that is told of it fails
   (`monitor_handled`, 3.13/0001:78): the bias has been moved for it, and the next
   handler is counted from the same instruction again. With `Hosts = {"3.11"}`, or
   with `Monitored = TRUE`, TLC finds `BoundariesAdvance` violated by these in five
   steps. `again` is set by these two and by difference 3, and by nothing else:
   `BoundariesAdvanceAfterSingleJumps` and its theorem say that they are the only
   ways in which a boundary fails to advance.
6. *Readings out of place.* What reads the counter after an instruction has jumped
   finds that instruction with the target's bias: ahead of the next boundary after a
   jump backwards (3.11 and 3.12 then look at pending requests, and a thread that
   takes the GIL or a signal handler reads), behind its own boundary after one
   forwards (`SEND` drops its operand after `JUMPBY`, on every release) or to a
   handler (tools are told of it). A tool that is told of a `RERAISE` reads the older
   instruction's. README.md:498 says that the coordinate remains monotonic over
   branches; `ReadingsAdvanceBeforeJumps` is about readings before the jump.
7. *Durable tokens.* README.md:197 says that transfer tokens are durable. `to()`
   clears the caller's own permit before it waits (`Handoff!Transfer`), so a token
   that arrives while a thread runs is lost, and the thread parks. `Baton` says
   what is kept.
8. *Callbacks' frames are passed over.* In a callback, `space.run()` looks for the
   parent below the interrupted frame and misses frames that the callback itself
   has on the chain; docs/coordinate-spaces.md:165 speaks of the nearest one.
   Hence `AttachesBelowNearestOutsideCallbacks`, and the condition `ReadInFull` of
   `DeltasReconstruct`.
9. *A hit in mid-instruction.* A target armed at the present coordinate is hit at
   the first instruction of what that instruction calls;
   docs/coordinate-spaces.md:79 says that it has not started yet.
10. *Passed in silence.* Of two targets due at one boundary the second is met at
   the next one, where it is past: without an overshoot callback it is dropped.

## 5. Proofs

All theorems are of the form `Spec => ...` (`SpecPointers => ...` for `PointerTable`)
for every value of the constants that satisfies the named `ASSUME` of the module.
`PointerHashes` has `ConstantsOK` in place of one, a hypothesis of its theorems that
is proved from the assumptions of `PointerTable` where they are used.

**Handoff.** `IInv` adds to `NoLostWakeup` what makes it inductive: who holds
which lock at which place (`LocksInv`), that `waiting` is set exactly from the
transfer to the end of the wait and that an entry about to park has nothing to
resume for (`WaitInv`), that only objects with a timeout time out, and how many
tokens a gate may hold at each place (`TokensInv`: two only while its thread is
asleep and may resume). The last is what bounds the gates: the waker opens a
gate only if its entry has no permit, and then gives it one.
`HandoffImplementsBaton` maps each step to one of `Baton` or to a stutter.
`BatonIsKept` shows of `Baton` that somebody runs or can run; with the
refinement and `NoLostWakeup` it gives `NeverAllAsleep`.

**Coordinates.** `SlotsAreLive` becomes inductive when it is said of every
entry of the chain that the pointer it saved is live *below that entry*, and
when a callback is said to be pinned to the frame directly below its scope
(`PinnedBelowScope`): a frame that leaves can then only be the top, nobody below
points to it, and the pointer it restores is live in what remains. The proof
needs that `Max` of a bounded set of indices is a member of it, which is derived
from the well-foundedness of the naturals.

`DepthsCount`: every action leaves the frames on the chain as they are, puts one
entry on top or takes the top off, and the number of the frames of a space
changes by one exactly if that entry is one of them. `ParentsAreNearest`: a
callback starts frames that break the rule, so `ParentInv` says it of the
entries up to the callback's scope (`Limit`), and of every entry with the space
it goes back to, so that it tells, when the entry leaves, where the next one
belongs. For a frame on top the thread's pointer leads to that frame
(`TopFollows`) and what is above a frame hangs below it (`FramesFollow`): an
entry is only ever put on a frame that has started an instruction and is
therefore visible.

*Streams.* A stream is what the visible frames of a space contribute, and a
selection of a sequence is described by the rank of each chosen place
(`SelectionsProofs`). Every action changes one entry of the chain, or puts one on
top, or takes the top off, so that each stream changes in the words of one
frame, or by one frame at its end, or not at all. `RunningIsolates` needs only
that the entry concerned, and the ordinal that the thread's pointer leads to,
belong to the space that runs: `SlotsAreLive`. `StreamsGoForward` needs more: when
a frame ends its words go, and the stream is larger than before only because the
ordinal of the frame below has been counted. That the pointer leads to the
nearest frame of the space, and not to a root ordinal, is `ParentInv` outside
callbacks. In a callback it is `CallbackFinds`: a frame or scope above the
callback's scope was given a frame to count at if the space has one among those
that the callback interrupted. `Nested` says that an entry goes back to the space
of the one below it.

The second half fails without the condition `FindsFrame` of `StreamsAdvance`. An
attempt to prove it without showed that it was false, at a depth that the run
does not reach, and TLC found the behaviour at depth 7: a callback interrupts a
thread that has no frame of the root space; it starts one; in it a disabled scope
and in that a root scope look for a frame from the interrupted one downwards, find
none, and count the next frame in the scope; and when that frame is gone the
stream of the root space is what it was before it came. It is difference 8 of
section 4 seen from the streams.

*Deltas.* No copy of the reported stream is kept, so the caches of the frames
must tell what it was. `CachesTell` says: if the root ordinal is the one last
reported and the caches of all visible frames below a running frame agree with
those frames' words, then that frame's own cache has its words in the report. It
is kept because a cache is never ahead of its frame (`CachesBehind`), so that a
frame which has moved on never comes to agree with its cache again, and because
whatever replaces a frame on the chain, a generator with an old cache included,
is put on one that has been counted since (`RootIsBelow`, `LocalIsAlone`: at the
bottom it is the root ordinal that has been). A frame that does not run is on top
(`BelowRuns`).

**Boundaries.** `PointersAreLive`: each step either moves a pointer to the
thread that takes it, which runs, or drops one, and `Exit` drops all of its
thread. `RunnersKnown`: while the history is straight a thread uses one space,
a switch is reported before the next one starts, and the interpreter's pointer
moves together with the cursor of the space; that is the invariant
`StraightInv`, which needs to know of the frames that their spaces are seen
(`FramesInv`). `TargetsKept` goes through the actions that touch a slot: only a
call about its space or a boundary clears it, and a boundary clears those that
are `Due`.

`EntriesInv` says that the list of entries has exactly one for each space that
has a callback or a target, and that the two flags say whether there is a
callback and whether there is an armed target in an entry. It is inductive,
because adding an entry and dropping those that are not needed are described by
what they do to the spaces in the list (`EnsuredLists`, `OnlyLists`). With it,
`NoneIsPassedOver`: a boundary takes the slots that are due up to the first with
a callback; if none has one, all that are due are taken; and an armed target has
a slot because its space is in the list.

**FrameCounter.** The counter at the next boundary is `bias + next`. `ReadingInv`
says that, while no place has been jumped from again, this is larger than all that
was read in place since the last boundary and there; and that until the instruction
in progress jumps forwards or to a handler its own counter is not behind that
either, so that a handler, one after it, is ahead. It needs `StraightInv`, that an
instruction that runs straight on has `next` ahead of it. Both theorems follow
from it, for every release, code and exception table.

**PointerHashes.** The two properties become inductive with `NoneIsOpen`: no
deallocation is open of the address of a living object that is not frail, so the
deletion of its entry can only be that of its own deallocation.

**PointerTable.** Every step of it is a step of the table, or none, and a step of
`PointerHashes` (`NextAsPromised`): what a hashing or a deletion does to the lookups
is what `IdentityHashTableProofs` says of the table, and the rest of the step is the
same. So `TableInv` holds, and the invariant of `PointerHashes` holds of what is
looked up, by its own proof instantiated with the lookups for the map.
`NothingLeaks` joins the two: probes come to every entry, so each has an owner
(`EntriesAreOwned`), and no two have the same.

**ThreadIds.** A retry depends on who is alive, so an id is determined only if
nobody can be in its way. Call a thread steady if no other start looks like its
own and so on up its line of creators. The invariant says that no thread, living
or gone, has the id of a steady one (`KnownIdsAreUnique`): an equal id has an
equal term, which names a creator with the id of the steady thread's creator,
which is therefore the same creator, and a place and a prefix that are the same,
which being alone rules out. So the first candidate is free at its start, and the
id is what the starts say.

**IdentityHashTable.** `WellPlaced` says what order does for a probe: an entry that
is not at its own first slot has an entry in the slot before it, at least as far
from home less one. So all slots from an entry's first slot to the entry are
taken by entries that are as far as a probe would be there (`WayToEntry`, from
the entry backwards), and the probe does not stop before it (`ProbeFinds`); where
the object is not in the table the empty slot that `RoomIsLeft` leaves ends it
(`ProbeEnds`). `TableInv` adds one thing to the properties of the run, that no
key is kept twice: without it a lookup may find either, and a deletion leaves one.

An insertion carries an entry from slot to slot. What it keeps is that the table
is in order but for the carried entry, whose distance is exact and not more than
the slots walked, and that the slot before would hold it in order. An entry that
is displaced takes this over, with the distance worked out again if it was kept
saturated (`WalkDisplaces`). The walk meets an empty slot before it is round, so
nothing is still carried at its end (`PlacedInserts`), and a growth is insertions
into an empty table that becomes twice as large (`GrownKeeps`).
A deletion moves the run after the hole back by one. The run ends because a slot
is empty (`RunEnds`); each slot of the new table has the entry of one slot of the
old one, its `Source`, nearer by one if it was moved (`ShiftedSlot`), and no two
have the same (`SourceTells`).

`TableImplementsHashes` is the refinement: lookups are those of the map, an
insertion, with or without growth, adds one object and forgets none, a deletion
forgets only its own. Walks
and growths are recursive functions; the proofs first show that a function with
these equations exists, and then go by induction over the set of steps for which
the claim holds.

**Only model-checked.** The liveness of `handoff_live`: leads-to under fairness is
beyond the prover, which has no `ENABLED`. All other properties of the passing
runs are theorems. What is said of the composed program stops at the modules:
that `PointerHashes` may take the table for the map is `PointersImplement`,
but that streams move forward is a theorem of `Coordinates` and an abstraction of
`Boundaries`, and no proof joins the two.

## 6. What is left out

* *The coordinate hash* and the 64-bit mixing: collisions are out of reach, and
  what is mixed is sequential code. Two things are visible without a model: the
  field `coordinate_hash` of a frame is written and never read, and `hash()`
  mixes in a root ordinal that `coordinates()` does not return.
* *Trace functions that move the line* (3.11 has a hook for them, the other releases
  none), and overflow of 64-bit counters.
* *Failures of memory* other than those of `to()`, `call_at`, a delta and the
  identity table.
* *Destructors that call back.* A callback's destructor runs while its entry is
  cleared; one that arms the same space again loses what it armed.
* Argument checks and errors that change no state.
* `Boundaries` treats `include()`d code in a callback as one step, since nothing
  is delivered in it, and lets no other thread run in a prologue.
* *Pointer hashes* of unaligned pointers, which are never kept, and which
  coordinate an object's hash comes from.
* The allocator of space ids and the per-thread list of spaces: `Spaces` is a
  fixed set.
* The public module, the freeze-time stub, packaging: no control of their own.
* Free-threaded builds, which the code does not support, and per-version
  differences of the hooks other than jumps.

## 7. Plan

1. Compose `Boundaries` with `Handoff`: a scheduler that stops threads at targets
   and hands control over must not park everybody.
2. `Boundaries` with destructors as steps of their own, and several entries.
3. The allocator of space ids and the list of spaces, with ids that wrap round.
4. Proofs of the compositions above: what their runs check.
