----------------------------- MODULE MCMailbox -----------------------------
(* Small instances of Mailbox for TLC.                                     *)
EXTENDS Mailbox, TLC

Symmetric == Permutations(Web) \cup Permutations(Users)
=============================================================================
