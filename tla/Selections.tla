----------------------------- MODULE Selections -----------------------------
(* Some elements of a sequence, in their order: what SelectSeq does, for a *)
(* set of places instead of a test, and in a form to reason about.         *)
EXTENDS Integers, Sequences

Selected(seq, places) ==
  LET upTo[n \in 0 .. Len(seq)] ==
        IF n = 0 THEN <<>>
        ELSE IF n \in places THEN Append(upTo[n - 1], seq[n])
        ELSE upTo[n - 1]
  IN upTo[Len(seq)]

(* The elements that are in kept *)
Only(seq, kept) == Selected(seq, {i \in DOMAIN seq : seq[i] \in kept})
=============================================================================
