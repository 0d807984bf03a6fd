------------------------ MODULE MCIdentityHashTable ------------------------
(* Six objects, four of which hash to the last slot of a table of eight,   *)
(* so that probes wrap; a sixth object makes the table grow.               *)
EXTENDS IdentityHashTable, TLC

CONSTANTS o1, o2, o3, o4, o5, o6, h1, h2

Colliding == {o1, o2, o3}

MixedOf ==
  (o4 :> 15) @@ (o5 :> 8) @@ (o6 :> 9) @@ [o \in Colliding |-> 7]

Symmetric == Permutations(Colliding) \cup Permutations(Hashes)
=============================================================================
