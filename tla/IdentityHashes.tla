--------------------------- MODULE IdentityHashes ---------------------------
(* What the identity hash table promises to HashPointer: an object's hash, *)
(* once remembered, is the same until the object or the interpreter goes.  *)

CONSTANTS Objects, Hashes, NoHash

VARIABLE hash

Init == hash = [o \in Objects |-> NoHash]

Remember(o, h) == hash[o] = NoHash /\ hash' = [hash EXCEPT ![o] = h]

Forget(o) == hash' = [hash EXCEPT ![o] = NoHash]

ForgetAll == hash' = [o \in Objects |-> NoHash]

Next ==
  \/ \E o \in Objects, h \in Hashes : Remember(o, h)
  \/ \E o \in Objects : Forget(o)
  \/ ForgetAll

Spec == Init /\ [][Next]_hash
=============================================================================
