----------------------------- MODULE MCSlotLoop -----------------------------
(* Instances of SlotLoop for model checking. *)
EXTENDS SlotLoop, TLC

CONSTANTS s1, s2, r1, r2, c1, c2

Symmetry == Permutations({s1, s2}) \cup Permutations({c1, c2})
=============================================================================
