------------------------------ MODULE MCBilling ------------------------------
(* Small instances of Billing for TLC.                                     *)
EXTENDS Billing, TLC

Symmetric == Permutations(Users) \cup Permutations(Subs) \cup Permutations(Plans)
=============================================================================
