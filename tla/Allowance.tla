----------------------------- MODULE Allowance ------------------------------
(***************************************************************************)
(* What a metered allowance promises: each holder takes one unit at a time *)
(* and never has more than Cap, until its window ends and it starts again. *)
(***************************************************************************)
EXTENDS Naturals

CONSTANTS Holders, Cap
VARIABLE taken

Init == taken = [h \in Holders |-> 0]
Take(h) == taken[h] < Cap /\ taken' = [taken EXCEPT ![h] = @ + 1]
Renew(h) == taken' = [taken EXCEPT ![h] = 0]
Next == \E h \in Holders : Take(h) \/ Renew(h)
Spec == Init /\ [][Next]_taken
=============================================================================
