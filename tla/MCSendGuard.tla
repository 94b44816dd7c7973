---------------------------- MODULE MCSendGuard -----------------------------
EXTENDS SendGuard

(* Bounds: two recipients, one written in two ways; one template, so that  *)
(* a second mail repeats the first; a wording that costs nothing or more   *)
(* than half of what blocks; two workflows (a third in a race), enough for *)
(* the rates to count.                                                     *)
MCAddresses == {"ann", "Ann", "bob"}
MCOwner == [a \in MCAddresses |-> IF a = "bob" THEN "bob" ELSE "ann"]
=============================================================================
