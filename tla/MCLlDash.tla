------------------------------ MODULE MCLlDash ------------------------------
(* LlDash for TLC: slots are interchangeable.                               *)
EXTENDS LlDash

Symmetry == Permutations(Subs)
=============================================================================
