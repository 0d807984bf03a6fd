---------------------------- MODULE FrameCounter ----------------------------
(***************************************************************************)
(* The instruction counter of one frame.  It is not counted but computed,  *)
(* as coordinate_bias + f_lasti: running straight on moves f_lasti, and a  *)
(* jump moves the bias so that the target comes one after the instruction  *)
(* that jumped.                                                            *)
(*                                                                         *)
(* What an instruction does is CPython's and differs between the releases  *)
(* that are patched, the hosts.  The patches change JUMPBY and JUMPTO,     *)
(* whatever the evaluator uses them for: 3.11 also skips the inline caches *)
(* of an instruction with JUMPBY, before it may jump or raise, and 3.12    *)
(* before a call that it enters inline; both look at pending requests      *)
(* after a jump backwards, and may drop the GIL, run a signal handler or   *)
(* raise there; 3.13 and 3.14, here "3.13", look before they jump.         *)
(*                                                                         *)
(* A handler may keep the offset of the instruction that raised, and       *)
(* RERAISE sets f_lasti back to it: the jump to the next handler is then   *)
(* made from there.                                                        *)
(***************************************************************************)
EXTENDS Integers, FiniteSets

CONSTANTS Hosts,      \* the releases that may run the frame
          Monitored,  \* whether a tool is told of handled exceptions
          Size,       \* code units of the frame's code
          Handlers,   \* its exception table: <<code unit, handler>>
          MaxKept,    \* bound on the offsets that handlers keep
          MaxCounter  \* bound on the counter

Offsets == 0 .. Size - 1

ASSUME FrameCounterAssumption ==
  /\ Hosts \subseteq {"3.11", "3.12", "3.13"}
  /\ Monitored \in BOOLEAN
  /\ Size \in Nat /\ MaxKept \in Nat /\ MaxCounter \in Nat
  /\ Handlers \subseteq Offsets \X Offsets

VARIABLES host,
          bias,      \* coordinate_bias
          lasti,     \* f_lasti, in code units
          next,      \* next_instr
          place,     \* where the evaluator is with the frame
          course,    \* how the instruction in progress has gone so far
          kept,      \* the offsets that handlers have kept on the stack
          boundary,  \* history: the counter at the last boundary
          observed,  \* history: the counter when it was last read in place
          again      \* history: a place was jumped from a second time
vars == <<host, bias, lasti, next, place, course, kept, boundary, observed,
          again>>

TypeOK ==
  /\ host \in Hosts
  /\ bias \in Int
  /\ lasti \in -1 .. Size
  /\ next \in 0 .. Size
  /\ place \in {"between", "inside", "suspended"}
  /\ course \in {"straight", "back", "forward", "raising", "handler"}
  /\ kept \subseteq -1 .. Size
  /\ again \in BOOLEAN
  /\ {boundary, observed} \subseteq Nat \cup {-1}

(* A new frame, or a generator's copy of one *)
Init ==
  /\ host \in Hosts
  /\ bias = 0
  /\ lasti = IF host = "3.13" THEN 0 ELSE -1
  /\ next = 0
  /\ place = "between"
  /\ course = "straight"
  /\ kept = {}
  /\ boundary = -1
  /\ observed = -1
  /\ again = FALSE

(* Mutant: a counter below zero is not raised to it. *)
Unclamped(b, i) == b + i

Clamped(b, i) == IF b + i <= 0 THEN 0 ELSE b + i

Coordinate == Clamped(bias, lasti)

-----------------------------------------------------------------------------
(* The hooks *)

BeginInstruction ==
  /\ place = "between"
  /\ next \in Offsets
  /\ bias + next <= MaxCounter
  /\ lasti' = next
  /\ next' = next + 1
  /\ place' = "inside"
  /\ boundary' = Clamped(bias, next)
  /\ observed' = boundary'
  /\ again' = (again /\ bias + next < 0)
  /\ UNCHANGED <<host, bias, course, kept>>

(* Mutant: the target counts as the instruction that jumped. *)
Level(from, to) == bias + from - to

Rebased(from, to) == bias + from + 1 - to

CoordinateJump(to) ==
  /\ bias' = Rebased(lasti, to)
  /\ bias' \in -MaxCounter .. MaxCounter
  /\ next' = to
  /\ UNCHANGED <<host, lasti, boundary, observed>>

-----------------------------------------------------------------------------
(* The evaluator *)

Running == place = "inside" /\ course \notin {"raising", "handler"}

(* Whether the instruction may raise.  A handler does so if the tool that  *)
(* is told of it fails.                                                    *)
MayRaise ==
  /\ place = "inside"
  /\ \/ course \in {"straight", "raising"}
     \/ course = "back" /\ host \in {"3.11", "3.12"}
     \/ course = "forward" /\ host = "3.11"
     \/ course = "handler" /\ host # "3.11" /\ Monitored

(* Inline caches, a fused instruction, or what SEND leaves behind *)
Skip ==
  /\ Running
  /\ next < Size
  /\ next' = next + 1
  /\ UNCHANGED <<host, bias, lasti, place, course, kept, boundary, observed,
                 again>>

(* JUMPBY, JUMPTO and INSTRUMENTED_JUMP; 3.11 jumps from a jump when a     *)
(* comparison skips its caches and then takes the branch fused with it.    *)
Jump(to) ==
  /\ Running
  /\ course = "straight" \/ (course = "forward" /\ host = "3.11")
  /\ CoordinateJump(to)
  /\ course' = IF to > lasti THEN "forward" ELSE "back"
  /\ again' = (again \/ course = "forward")
  /\ UNCHANGED <<place, kept>>

(* Somebody reads the counter of the frame while its instruction is in     *)
(* progress and has not jumped: C code it called, a signal handler's       *)
(* frame, a tool, or the thread that took the GIL and reports a switch     *)
(* away from this one.  The history leaves out the readings after a jump,  *)
(* which show the old instruction with the target's bias.                  *)
Read ==
  /\ place = "inside"
  /\ course \in {"straight", "raising"}
  /\ observed' = Coordinate
  /\ UNCHANGED <<host, bias, lasti, next, place, course, kept, boundary,
                 again>>

(* A call of Python code is entered without leaving the evaluator, and the *)
(* callee reads the caller's counter.  Up to 3.12 f_lasti moves to where   *)
(* the caller will go on.                                                  *)
CallInline ==
  /\ Running
  /\ course = "straight" \/ (course = "forward" /\ host # "3.13")
  /\ lasti' = IF host = "3.13" THEN lasti ELSE next - 1
  /\ course' = "straight"
  /\ observed' = Clamped(bias, lasti')
  /\ UNCHANGED <<host, bias, next, place, kept, boundary, again>>

(* RERAISE with an offset that a handler has kept *)
Reraise(offset) ==
  /\ Running
  /\ course = "straight"
  /\ lasti' = offset
  /\ course' = "raising"
  /\ again' = TRUE
  /\ UNCHANGED <<host, bias, next, place, kept, boundary, observed>>

(* The handler for an instruction that raised: the stack is popped to its  *)
(* level, and it may keep the instruction's offset.  A tool may be told    *)
(* before the handler runs.                                                *)
Raise(handler) ==
  /\ MayRaise
  /\ <<next - 1, handler>> \in Handlers
  /\ CoordinateJump(handler)
  /\ course' = "handler"
  /\ kept' \in SUBSET (kept \cup {lasti})
  /\ Cardinality(kept') <= MaxKept
  /\ again' = (again \/ course \in {"forward", "handler"})
  /\ UNCHANGED place

Dispatch ==
  /\ place = "inside"
  /\ course # "raising"
  /\ place' = "between"
  /\ course' = "straight"
  /\ UNCHANGED <<host, bias, lasti, next, kept, boundary, observed, again>>

Suspend ==
  /\ Running
  /\ course = "straight"
  /\ lasti' = IF host = "3.13" THEN next ELSE next - 1
  /\ place' = "suspended"
  /\ UNCHANGED <<host, bias, next, course, kept, boundary, observed, again>>

(* Mutant: a frame that is resumed is set up afresh. *)
BiasLost == 0

BiasKept == bias

Resume ==
  /\ place = "suspended"
  /\ bias' = BiasKept
  /\ place' = "between"
  /\ UNCHANGED <<host, lasti, next, course, kept, boundary, observed, again>>

(* generator.throw() *)
Throw ==
  /\ place = "suspended"
  /\ bias' = BiasKept
  /\ place' = "inside"
  /\ course' = "raising"
  /\ UNCHANGED <<host, lasti, next, kept, boundary, observed, again>>

Next ==
  \/ BeginInstruction
  \/ Skip
  \/ \E to \in Offsets : Jump(to)
  \/ Read
  \/ CallInline
  \/ \E offset \in kept : Reraise(offset)
  \/ \E handler \in Offsets : Raise(handler)
  \/ Dispatch
  \/ Suspend
  \/ Resume
  \/ Throw

Spec == Init /\ [][Next]_vars

-----------------------------------------------------------------------------
(* Properties *)

Boundary == place = "between" /\ place' = "inside"

(* Include/cpython/retrace_state.h, of the bias: "makes bias + f_lasti     *)
(* monotonic across jumps".  Every boundary of a frame has a counter       *)
(* larger than that of the boundary before it.                             *)
BoundariesAdvance == [][Boundary => Coordinate' > boundary]_vars

(* It holds while no place is jumped from a second time: not by RERAISE,   *)
(* nor by a handler whose tool fails, nor on 3.11 by an instruction that   *)
(* skipped its caches with a jump.  Loops, branches, handlers, also of     *)
(* what is raised after a jump backwards, calls and suspensions may come   *)
(* in any order.  It holds again from the next boundary whose counter is   *)
(* not below zero.                                                         *)
BoundariesAdvanceAfterSingleJumps ==
  [][~ again /\ Boundary => Coordinate' > boundary]_vars

(* README.md: "so the logical coordinate remains monotonic across          *)
(* fallthrough and branch paths".  On the same condition, whoever reads    *)
(* the counter before the instruction jumps finds it where the frame is:   *)
(* not behind what was read so before, and not ahead of the next boundary. *)
ReadingsAdvanceBeforeJumps ==
  [][~ again => /\ observed' >= observed
                /\ Boundary => Coordinate' > observed]_vars
=============================================================================
