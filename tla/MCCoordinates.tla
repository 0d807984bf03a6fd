--------------------------- MODULE MCCoordinates ---------------------------
(* Instances of Coordinates for TLC. *)
EXTENDS Coordinates

CONSTANTS Root, Disabled   \* model values for the two built-in spaces
=============================================================================
