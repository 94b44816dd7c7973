----------------------------- MODULE MCCampaign -----------------------------
(* Small instances of Campaign for TLC.                                    *)
EXTENDS Campaign, TLC

Symmetric == Permutations(Threads) \cup Permutations(Addresses)
             \cup Permutations(Prospects)
=============================================================================
