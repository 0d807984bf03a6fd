--------------------------- MODULE MCFrameCounter ---------------------------
(* Five code units: an instruction with a cache, a loop and handlers. *)
EXTENDS FrameCounter

(* A handler behind the code it guards, and one before it *)
HandlersOnBothSides == ((0 .. 2) \X {3}) \cup ((3 .. 4) \X {1})

(* A try in a try: the handler at 2 guards what is before it, and the one  *)
(* at 4 guards that handler.                                               *)
NestedHandlers == ((0 .. 1) \X {2}) \cup ((2 .. 3) \X {4})
=============================================================================
