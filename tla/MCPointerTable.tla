--------------------------- MODULE MCPointerTable ---------------------------
(* Two addresses that hash to the last slot, in a table that starts with   *)
(* two slots and grows to four; an address may be freed and given to       *)
(* another object twice while deallocations of it are still open.          *)
EXTENDS PointerTable, TLC

CONSTANTS p, q, h1, h2

MixedOf == [o \in Objects |-> 3]

Symmetric == Permutations(Objects) \cup Permutations(Hashes)
=============================================================================
