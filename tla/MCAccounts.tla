----------------------------- MODULE MCAccounts -----------------------------
EXTENDS Accounts

(* Bounds: two people, two requests at a time, two broadcasts, two tabs,   *)
(* two pipeline requests, two calls of a two-provider account, one slip of *)
(* a store.  Turns, Cap and Threshold are small enough to be passed.       *)
(* Mails: two recipients, one written in two ways; one template, so that a *)
(* second mail repeats the first; two workflows (a third in a race).       *)
MCAddresses == {"ann", "Ann", "bob"}
MCOwner == [a \in MCAddresses |-> IF a = "bob" THEN "bob" ELSE "ann"]
=============================================================================
