-------------------------- MODULE FrameCounterProofs --------------------------
(* Proofs about FrameCounter, for code and exception tables of any size. *)
EXTENDS FrameCounter, TLAPS

(* While no place is jumped from a second time, the next boundary will be  *)
(* ahead of all that was read.  Until the instruction in progress jumps    *)
(* forwards or to a handler, so would a handler of it be: it would come    *)
(* one after that instruction, which is not behind what was read of it.    *)
ReadingInv ==
  /\ place # "between" => observed >= 0
  /\ ~ again =>
       /\ observed >= boundary
       /\ course # "raising" => bias + next > observed
       /\ place # "between" /\ course \notin {"forward", "handler"}
            => bias + lasti >= observed

(* Straight on means forwards, and only an instruction in progress has a   *)
(* course of its own.                                                      *)
StraightInv ==
  /\ place # "inside" => course = "straight"
  /\ place = "inside" /\ course = "straight" => next > lasti

IInv == TypeOK /\ StraightInv /\ ReadingInv

LEMMA InitIInv == Init => IInv
<1> SUFFICES ASSUME Init PROVE IInv
  OBVIOUS
<1>. USE FrameCounterAssumption DEF Init
<1>1. TypeOK
  <2>1. lasti \in -1 .. Size /\ next \in 0 .. Size
    OBVIOUS
  <2>2. {boundary, observed} \subseteq Nat \cup {-1}
    OBVIOUS
  <2>3. bias \in Int /\ kept \subseteq -1 .. Size
    OBVIOUS
  <2>4. again \in BOOLEAN
    BY Zenon
  <2> QED
    BY <2>1, <2>2, <2>3, <2>4 DEF TypeOK
<1>2. ReadingInv
  BY DEF ReadingInv
<1>3. StraightInv
  BY DEF StraightInv
<1> QED
  BY <1>1, <1>2, <1>3 DEF IInv

(* A step of the evaluator leads from one good state to another. *)
LEMMA StepIInv == IInv /\ [Next]_vars => IInv'
<1> SUFFICES ASSUME IInv, [Next]_vars PROVE IInv'
  OBVIOUS
<1>. USE FrameCounterAssumption
     DEF IInv, TypeOK, Offsets, Clamped, StraightInv, Running
<1>1. CASE BeginInstruction
  <2>. USE <1>1 DEF BeginInstruction
  <2>1. TypeOK'
    OBVIOUS
  <2>2. StraightInv'
    OBVIOUS
  <2>3. ReadingInv'
    BY DEF ReadingInv
  <2> QED
    BY <2>1, <2>2, <2>3
<1>2. CASE Skip
  <2>. USE <1>2 DEF Skip
  <2>1. TypeOK'
    OBVIOUS
  <2>2. StraightInv'
    OBVIOUS
  <2>3. ReadingInv'
    BY DEF ReadingInv
  <2> QED
    BY <2>1, <2>2, <2>3
<1>3. ASSUME NEW to \in Offsets, Jump(to) PROVE IInv'
  <2>1. TypeOK' /\ StraightInv'
    BY <1>3 DEF Jump, CoordinateJump, Rebased
  <2>2. ASSUME ~ again'
        PROVE  ~ again /\ course # "forward"
    BY <1>3, <2>2 DEF Jump
  <2>3. ReadingInv'
    BY <1>3, <2>2 DEF Jump, CoordinateJump, Rebased, ReadingInv
  <2> QED
    BY <2>1, <2>3
<1>4. CASE Read
  <2>. USE <1>4 DEF Read, Coordinate
  <2>1. TypeOK'
    OBVIOUS
  <2>2. StraightInv'
    OBVIOUS
  <2>3. ReadingInv'
    BY DEF ReadingInv
  <2> QED
    BY <2>1, <2>2, <2>3
<1>5. CASE CallInline
  <2>. USE <1>5 DEF CallInline
  <2>1. TypeOK'
    OBVIOUS
  <2>2. StraightInv'
    OBVIOUS
  <2>3. ReadingInv'
    BY DEF ReadingInv
  <2> QED
    BY <2>1, <2>2, <2>3
<1>6. ASSUME NEW offset \in kept, Reraise(offset) PROVE IInv'
  <2>. USE <1>6 DEF Reraise
  <2>1. TypeOK'
    OBVIOUS
  <2>2. StraightInv'
    OBVIOUS
  <2>3. ReadingInv'
    BY DEF ReadingInv
  <2> QED
    BY <2>1, <2>2, <2>3
<1>7. ASSUME NEW handler \in Offsets, Raise(handler) PROVE IInv'
  <2>1. TypeOK' /\ StraightInv'
    BY <1>7 DEF Raise, MayRaise, CoordinateJump, Rebased
  <2>2. ASSUME ~ again'
        PROVE  ~ again /\ course \notin {"forward", "handler"}
    BY <1>7, <2>2 DEF Raise
  <2>3. ReadingInv'
    BY <1>7, <2>2 DEF Raise, MayRaise, CoordinateJump, Rebased, ReadingInv
  <2> QED
    BY <2>1, <2>3
<1>8. CASE Dispatch
  <2>. USE <1>8 DEF Dispatch
  <2>1. TypeOK'
    OBVIOUS
  <2>2. StraightInv'
    OBVIOUS
  <2>3. ReadingInv'
    BY DEF ReadingInv
  <2> QED
    BY <2>1, <2>2, <2>3
<1>9. CASE Suspend
  <2>. USE <1>9 DEF Suspend
  <2>1. TypeOK'
    OBVIOUS
  <2>2. StraightInv'
    OBVIOUS
  <2>3. ReadingInv'
    BY DEF ReadingInv
  <2> QED
    BY <2>1, <2>2, <2>3
<1>10. CASE Resume
  <2>. USE <1>10 DEF Resume, BiasKept
  <2>1. TypeOK'
    OBVIOUS
  <2>2. StraightInv'
    OBVIOUS
  <2>3. ReadingInv'
    BY DEF ReadingInv
  <2> QED
    BY <2>1, <2>2, <2>3
<1>11. CASE Throw
  <2>. USE <1>11 DEF Throw, BiasKept
  <2>1. TypeOK'
    OBVIOUS
  <2>2. StraightInv'
    OBVIOUS
  <2>3. ReadingInv'
    BY DEF ReadingInv
  <2> QED
    BY <2>1, <2>2, <2>3
<1>12. CASE UNCHANGED vars
  BY <1>12 DEF vars, ReadingInv
<1> QED
  BY <1>1, <1>2, <1>3, <1>4, <1>5, <1>6, <1>7, <1>8, <1>9, <1>10, <1>11,
     <1>12
  DEF Next

LEMMA AlwaysIInv == Spec => []IInv
<1> QED
  BY InitIInv, StepIInv, PTL DEF Spec

(* The types of the counter's parts, whatever the code does *)
THEOREM TypeCorrect == Spec => []TypeOK
<1>1. IInv => TypeOK
  BY DEF IInv
<1> QED
  BY AlwaysIInv, <1>1, PTL

(* Only one step leads to a boundary. *)
LEMMA BoundaryIsBegin ==
  ASSUME [Next]_vars, Boundary
  PROVE  BeginInstruction
<1>1. ~ Skip /\ ~ Read /\ ~ CallInline
  BY DEF Skip, Read, CallInline, Running, Boundary
<1>2. ~ Dispatch /\ ~ Suspend /\ ~ Resume /\ ~ Throw
  BY DEF Dispatch, Suspend, Resume, Throw, Running, Boundary
<1>3. \A to : ~ Jump(to) /\ ~ Reraise(to) /\ ~ Raise(to)
  BY DEF Jump, Reraise, Raise, MayRaise, Running, Boundary
<1>4. ~ UNCHANGED vars
  BY DEF vars, Boundary
<1> QED
  BY <1>1, <1>2, <1>3, <1>4 DEF Next

LEMMA BeginIsAhead ==
  ASSUME IInv, BeginInstruction, ~ again
  PROVE  /\ Coordinate' > boundary
         /\ Coordinate' > observed
<1>. USE FrameCounterAssumption
     DEF IInv, TypeOK, Offsets, StraightInv, BeginInstruction
<1>1. Coordinate' = Clamped(bias, next)
  BY DEF Coordinate, Clamped
<1>2. Coordinate' > observed
  BY <1>1 DEF Clamped, ReadingInv
<1>3. observed >= boundary
  BY DEF ReadingInv
<1>4. Coordinate' \in Int
  BY <1>1 DEF Clamped
<1> QED
  BY <1>2, <1>3, <1>4

(* Where no place is jumped from a second time, every boundary of a frame  *)
(* is ahead of the one before it, on every release.                        *)
THEOREM BoundariesAdvanceTheorem == Spec => BoundariesAdvanceAfterSingleJumps
<1>1. IInv /\ [Next]_vars =>
        (~ again /\ Boundary => Coordinate' > boundary)
  BY BoundaryIsBegin, BeginIsAhead
<1>2. IInv /\ [Next]_vars =>
        [~ again /\ Boundary => Coordinate' > boundary]_vars
  BY <1>1
<1> QED
  BY AlwaysIInv, <1>2, PTL DEF Spec, BoundariesAdvanceAfterSingleJumps

(* No step takes back what has been read. *)
LEMMA ReadingsDoNotFall ==
  ASSUME IInv, [Next]_vars, ~ again
  PROVE  observed' >= observed
<1>. USE FrameCounterAssumption DEF IInv, TypeOK, Offsets, StraightInv, Running
<1>1. CASE BeginInstruction
  BY <1>1 DEF BeginInstruction, ReadingInv, Clamped
<1>2. CASE Skip \/ Dispatch \/ Suspend \/ Resume \/ Throw \/ UNCHANGED vars
  BY <1>2 DEF Skip, Dispatch, Suspend, Resume, Throw, vars
<1>3. CASE Read
  BY <1>3 DEF Read, ReadingInv, Coordinate, Clamped
<1>4. CASE CallInline
  BY <1>4 DEF CallInline, ReadingInv, Clamped
<1>5. CASE \E to \in Offsets : Jump(to) \/ Raise(to)
  BY <1>5 DEF Jump, Raise, CoordinateJump
<1>6. CASE \E offset \in kept : Reraise(offset)
  BY <1>6 DEF Reraise
<1> QED
  BY <1>1, <1>2, <1>3, <1>4, <1>5, <1>6 DEF Next

(* On the same condition, what is read before the instruction in progress  *)
(* jumps is neither behind an earlier such reading nor ahead of the next   *)
(* boundary.                                                               *)
THEOREM ReadingsAdvanceTheorem == Spec => ReadingsAdvanceBeforeJumps
<1>1. IInv /\ [Next]_vars =>
        (~ again => /\ observed' >= observed
                    /\ Boundary => Coordinate' > observed)
  BY BoundaryIsBegin, BeginIsAhead, ReadingsDoNotFall
<1>2. IInv /\ [Next]_vars =>
        [~ again => /\ observed' >= observed
                    /\ Boundary => Coordinate' > observed]_vars
  BY <1>1
<1> QED
  BY AlwaysIInv, <1>2, PTL DEF Spec, ReadingsAdvanceBeforeJumps
=============================================================================
