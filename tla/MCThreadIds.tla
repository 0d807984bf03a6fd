----------------------------- MODULE MCThreadIds -----------------------------
(* The main thread and three others, which start one another or come from  *)
(* C code, in three spaces.  Other and Alias stand for spaces whose ids    *)
(* agree in the 16 bits that thread ids keep of them.                      *)
EXTENDS ThreadIds, TLC

CONSTANTS Root, Other, Alias

PrefixOf == (Root :> 0) @@ (Other :> 2) @@ (Alias :> 2)

(* Two places in one run of the root space, the first again in another run *)
(* of it, and one in each of the other spaces                              *)
FewCursors ==
  {[space |-> s, root |-> r, frames |-> f] :
     <<s, r, f>> \in {<<Root, 0, 1>>, <<Root, 0, 2>>, <<Root, 1, 1>>,
                      <<Other, 0, 1>>, <<Alias, 0, 1>>}}
=============================================================================
