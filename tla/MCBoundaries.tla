---------------------------- MODULE MCBoundaries ----------------------------
(* Small instances of Boundaries: the root space and one other. *)
EXTENDS Boundaries, TLC

CONSTANTS Root, Other, a, b

Symmetric == Permutations(Threads)

(* A target of each space, one of them with an overshoot callback *)
RootTarget == [space |-> Root, at |-> 1, overshoot |-> TRUE]
OtherTarget == [space |-> Other, at |-> 1, overshoot |-> FALSE]
OneOfEach == {RootTarget, OtherTarget}
OnlyRoot == {RootTarget}
=============================================================================
