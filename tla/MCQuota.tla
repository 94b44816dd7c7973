------------------------------ MODULE MCQuota ------------------------------
(* Model values for TLC: the turns and the companies are interchangeable. *)
EXTENDS Quota, TLC

Symmetry == Permutations(Turns) \cup Permutations(Companies)
=============================================================================
