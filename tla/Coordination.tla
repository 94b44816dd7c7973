---------------------------- MODULE Coordination ----------------------------
(***************************************************************************)
(* The shared counters and locks of automation/redis.py, as operators on   *)
(* their stores.  A counter whose window ended is 0, a lock that was       *)
(* released or whose TTL ran out is Unheld: time is the user's action      *)
(* (WindowOver, TtlOver).  Every operator is one step on either backend (a *)
(* Lua script, or one locked method of the in-memory store); up is FALSE   *)
(* when the call fails.                                                    *)
(***************************************************************************)
EXTENDS Naturals

CONSTANT Unheld

(* A counter only meets limits, so units above Ceiling are not told apart. *)
CONSTANT Ceiling

ASSUME CoordinationAssumption == Ceiling \in Nat

IncrExpiring(counts, key) ==
    [counts EXCEPT ![key] = IF @ < Ceiling THEN @ + 1 ELSE @]

(* incr_if_below counts what it admits and nothing else.                   *)
Admits(counts, key, cap) == counts[key] < cap
IncrIfBelow(counts, key, cap) ==
    IF Admits(counts, key, cap) THEN IncrExpiring(counts, key) ELSE counts

WindowOver(counts, key) == [counts EXCEPT ![key] = 0]

(* _over_limit counts first and compares then, and refuses when the        *)
(* counter cannot be reached.                                              *)
OverLimit(counts, key, limit, up) == up => IncrExpiring(counts, key)[key] > limit
Counted(counts, key, up) == IF up THEN IncrExpiring(counts, key) ELSE counts

(* SET NX EX, and a release that compares the token.                       *)
Acquirable(locks, name, up) == up /\ locks[name] = Unheld
Acquired(locks, name, token) == [locks EXCEPT ![name] = token]

(* Mutant of Released: whatever lock is there is deleted.                  *)
ReleasedBlindly(locks, name, token) == [locks EXCEPT ![name] = Unheld]

Released(locks, name, token) ==
    IF locks[name] = token THEN [locks EXCEPT ![name] = Unheld] ELSE locks
TtlOver(locks, name) == [locks EXCEPT ![name] = Unheld]
=============================================================================
