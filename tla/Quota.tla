------------------------------- MODULE Quota -------------------------------
(***************************************************************************)
(* The prospect allowance of one user (billing/usage.py and the quota      *)
(* helpers of chat/tools.py, with the hydration and the save of a turn in  *)
(* chat/agent.py).                                                         *)
(*                                                                         *)
(* Turns run at once, in several threads or browsers of the user.  A turn  *)
(* reads the plan's limit when it begins, claims a slot before it pays for *)
(* a company's research, gives it back if the research is of no use, and   *)
(* writes the user's _usage.json mirror when it ends.  The plan and the    *)
(* billing window move meanwhile, under the limit the turn has cached:     *)
(* window 0 is the Free lifetime window, window p > 0 a paid period        *)
(* (usage_period's anchor), and a limit of 0 is no limit.                  *)
(*                                                                         *)
(* record_prospect_use reads the window before its transaction.  A window  *)
(* that moves between the two is no behaviour of its own: the transaction  *)
(* touches only rows of the window read, so it commutes with the move.     *)
(***************************************************************************)
EXTENDS Integers, FiniteSets

CONSTANTS
    Companies,
    Turns,       (* turns that can be in progress at once                  *)
    FreeLimit,   (* PLAN_LIMITS of the Free plan                           *)
    PaidLimits,  (* PLAN_LIMITS of the paid ones; 0 is unlimited           *)
    MaxWindow,   (* bound: paid periods                                    *)
    MaxMoves,    (* bound: changes of the plan or the window               *)
    MaxTurns,    (* bound: turns begun                                     *)
    MaxCalls,    (* bound: tool calls that research                        *)
    MaxFaults    (* bound: turns that die, writes that fail                *)

ASSUME QuotaAssumption ==
    /\ IsFiniteSet(Companies)
    /\ {FreeLimit, MaxWindow, MaxMoves, MaxTurns, MaxCalls, MaxFaults} \subseteq Nat
    /\ MaxWindow > 0
    /\ PaidLimits \subseteq Nat /\ PaidLimits # {}

VARIABLES
    window,  (* the user's billing window now                              *)
    allowance, (* the limit of the user's plan now                         *)
    rows,    (* prospect_usage: <<window, key>>, unique                    *)
    file,    (* _usage.json                                                *)
    turn,    (* what each turn is doing                                    *)
    terms,   (* history: the limits enforced while each window was open    *)
    done,    (* history: <<window, key>> whose research was delivered      *)
    thin,    (* history: <<window, key>> metered in bulk for a research    *)
             (* that was of no use                                         *)
    kept,    (* history: of these, the ones that had claimed a new slot    *)
    left,    (* history: slots a dead turn or a failed release left behind *)
    astray,  (* history: a release that was not of the slot of its claim   *)
    moves, begun, calls, faults

plan == <<window, allowance, terms, moves>>
vars == <<plan, rows, file, turn, done, thin, kept, left, astray, begun, calls, faults>>

Windows == 0..MaxWindow

(* prospect_key: a company is its domain when a URL is known, else its     *)
(* name; the two never compare equal.                                      *)
Key == {"site", "name"} \X Companies
Site(c) == <<"site", c>>
Name(c) == <<"name", c>>

Mirror == [keys: SUBSET Key, migrated: BOOLEAN]
Used(w) == Cardinality({r \in rows : r[1] = w})

(* A turn: its step, the limit it cached, its copy of the mirror, the keys *)
(* under research, whether it claimed a new slot and in which window.      *)
Turn == [at: {"idle", "think", "search", "batch"}, limit: Nat, usage: Mirror,
         keys: SUBSET Key, new: BOOLEAN, in: Windows]
Idle == [at |-> "idle", limit |-> 0, usage |-> [keys |-> {}, migrated |-> FALSE],
         keys |-> {}, new |-> FALSE, in |-> 0]

Init ==
    /\ \/ window = 0 /\ allowance = FreeLimit
       \/ window = 1 /\ allowance \in PaidLimits
    /\ terms = [w \in Windows |-> IF w = window THEN {allowance} ELSE {}]
    /\ \E old \in {{}} \cup {{Site(c)} : c \in Companies} :
          /\ file = [keys |-> old, migrated |-> FALSE]
          /\ done = {<<0, k>> : k \in old}
    /\ rows = {}
    /\ turn = [t \in Turns |-> Idle]
    /\ thin = {} /\ kept = {} /\ left = {} /\ astray = FALSE
    /\ moves = 0 /\ begun = 0 /\ calls = 0 /\ faults = 0

-----------------------------------------------------------------------------

(* import_legacy_keys: the keys are recorded in the Free window, once.     *)
Imported(keys) == rows \cup {<<0, k>> : k \in keys}

(* _run_turn hydrates: keys of a mirror not marked as migrated are         *)
(* imported, always into the Free window; then the plan's limit is cached. *)
(* A subscription that cannot be read is taken for none (limit_for_user    *)
(* does not ask for a strict read): the Free limit, in a paid period too.  *)
Begin(t, limit) ==
    LET import == file.keys # {} /\ ~file.migrated
        mirror == [file EXCEPT !.migrated = @ \/ import]
    IN
    /\ turn[t].at = "idle" /\ begun < MaxTurns
    /\ begun' = begun + 1
    /\ \/ limit = allowance /\ UNCHANGED faults
       \/ limit = FreeLimit /\ faults < MaxFaults /\ faults' = faults + 1
    /\ terms' = [terms EXCEPT ![window] = @ \cup {limit}]
    /\ rows' = IF import THEN Imported(file.keys) ELSE rows
    /\ file' = mirror
    /\ turn' = [turn EXCEPT ![t] =
                   [Idle EXCEPT !.at = "think", !.limit = limit, !.usage = mirror]]
    /\ UNCHANGED <<window, allowance, moves, done, thin, kept, left, astray, calls>>

(* A limit of 0 is no limit.                                               *)
Metered(t) == turn[t].limit # 0

(* Mutant of Blocked: one slot too many.                                   *)
BlockedLate(t, k) ==
    Metered(t) /\ <<window, k>> \notin rows /\ Used(window) > turn[t].limit

Blocked(t, k) ==
    Metered(t) /\ <<window, k>> \notin rows /\ Used(window) >= turn[t].limit

(* Recording a key is idempotent.                                          *)
Recorded(k) == rows \cup {<<window, k>>}

(* research_company and deep_research claim before they pay: a key already *)
(* recorded is a duplicate and free, a new one takes a slot in the window. *)
(* The key is the company's site, or for deep_research the name, or the    *)
(* site of whatever company the thread is on.  Without a limit the answer  *)
(* is that a slot was claimed, and none was.                               *)
Claim(t, k) ==
    /\ turn[t].at = "think" /\ calls < MaxCalls
    /\ ~Blocked(t, k)
    /\ calls' = calls + 1
    /\ rows' = IF Metered(t) THEN Recorded(k) ELSE rows
    /\ turn' = [turn EXCEPT ![t].at = "search", ![t].keys = {k}, ![t].in = window,
                            ![t].new = Metered(t) => <<window, k>> \notin rows]
    /\ UNCHANGED <<plan, file, done, thin, kept, left, astray, begun, faults>>

(* Over the cap, or the store cannot be reached: no research.              *)
Refused(t, k) ==
    /\ turn[t].at = "think"
    /\ Blocked(t, k) \/ faults < MaxFaults
    /\ UNCHANGED vars

(* What this turn is researching, in the window it was claimed in.         *)
Slot(t) == {<<turn[t].in, k>> : k \in turn[t].keys}

(* It has a slot of its own there.                                         *)
Holds(t) == turn[t].new /\ Metered(t)

(* The in-thread mirror takes the key.                                     *)
Mirrored(u, keys) == [u EXCEPT !.keys = @ \cup keys]
Thinking(r) == [r EXCEPT !.at = "think", !.keys = {}, !.new = FALSE]

Usable(t) ==
    /\ turn[t].at = "search"
    /\ done' = done \cup Slot(t)
    /\ kept' = IF Holds(t) THEN kept \cup Slot(t) ELSE kept
    /\ turn' = [turn EXCEPT ![t] = [Thinking(turn[t]) EXCEPT !.usage = Mirrored(@, turn[t].keys)]]
    /\ UNCHANGED <<plan, rows, file, thin, left, astray, begun, calls, faults>>

(* release_prospect_use asks for the window again.                         *)
ReleasedBy(t) == {<<window, k>> : k \in turn[t].keys}

(* Whether that misses the slot of the claim: the window has moved, or     *)
(* there was no slot and the row of that key is somebody else's.           *)
Elsewhere(t) == IF Metered(t) THEN turn[t].in # window ELSE ReleasedBy(t) \cap rows # {}

(* Mutant of Unusable: a duplicate is released too.                        *)
UnusableReleasesAll(t) ==
    /\ turn[t].at = "search"
    /\ turn' = [turn EXCEPT ![t] = Thinking(@)]
    /\ rows' = rows \ ReleasedBy(t)
    /\ astray' = (astray \/ Elsewhere(t))
    /\ left' = IF Elsewhere(t) /\ Metered(t) THEN left \cup Slot(t) ELSE left
    /\ UNCHANGED <<plan, file, done, thin, kept, begun, calls, faults>>

(* Mutant of Unusable: a page too thin keeps the slot.                     *)
UnusableKeeps(t) ==
    /\ turn[t].at = "search"
    /\ turn' = [turn EXCEPT ![t] = Thinking(@)]
    /\ UNCHANGED <<plan, rows, file, done, thin, kept, left, astray, begun, calls, faults>>

(* An error, a page too thin or nothing found: a slot this turn claimed is *)
(* given back; a duplicate claimed nothing.  A turn without a limit thinks *)
(* it claimed one, and gives back whatever row there is.                   *)
Unusable(t) ==
    /\ turn[t].at = "search"
    /\ turn' = [turn EXCEPT ![t] = Thinking(@)]
    /\ rows' = IF turn[t].new THEN rows \ ReleasedBy(t) ELSE rows
    /\ astray' = (astray \/ (turn[t].new /\ Elsewhere(t)))
    /\ left' = IF Holds(t) /\ Elsewhere(t) THEN left \cup Slot(t) ELSE left
    /\ UNCHANGED <<plan, file, done, thin, kept, begun, calls, faults>>

(* The release is best effort: when it fails the row stays.                *)
ReleaseFails(t) ==
    /\ turn[t].at = "search" /\ turn[t].new /\ faults < MaxFaults
    /\ faults' = faults + 1
    /\ turn' = [turn EXCEPT ![t] = Thinking(@)]
    /\ left' = IF Metered(t) THEN left \cup Slot(t) ELSE left
    /\ UNCHANGED <<plan, rows, file, done, thin, kept, astray, begun, calls>>

(* _batch_quota, by the limit the turn cached.                             *)
Fits(t, lot) == Metered(t) => Cardinality(lot) <= turn[t].limit - Used(window)

(* research_prospects reads what remains and researches that many leads;   *)
(* nothing is claimed for them yet.  A run that gives no row ends there.   *)
Batch(t, lot) ==
    /\ turn[t].at = "think" /\ calls < MaxCalls
    /\ calls' = calls + 1
    /\ lot # {} /\ Fits(t, lot)
    /\ turn' = [turn EXCEPT ![t].at = "batch", ![t].keys = lot]
    /\ UNCHANGED <<plan, rows, file, done, thin, kept, left, astray, begun, faults>>

(* Then each is recorded under its name, whatever its research gave: a     *)
(* company that was skipped or failed takes a slot like any other.  One    *)
(* over the cap by now is refused, and one that cannot be written is not,  *)
(* and nobody looks at the answer: the mirror takes every key.             *)
RecordOne(t) ==
    /\ turn[t].at = "batch"
    /\ \E k \in turn[t].keys, useful \in BOOLEAN :
          /\ \/ rows' = (IF Blocked(t, k) THEN rows ELSE Recorded(k)) /\ UNCHANGED faults
             \/ rows' = rows /\ faults < MaxFaults /\ faults' = faults + 1
          /\ done' = IF useful THEN done \cup {<<window, k>>} ELSE done
          /\ thin' = IF useful THEN thin ELSE thin \cup {<<window, k>>}
          /\ turn' = [turn EXCEPT ![t] =
                         LET r == [turn[t] EXCEPT !.keys = @ \ {k}, !.usage = Mirrored(@, {k})]
                         IN IF r.keys = {} THEN Thinking(r) ELSE r]
    /\ UNCHANGED <<plan, file, kept, left, astray, begun, calls>>

(* _save: the mirror as this turn has it replaces the file.                *)
End(t) ==
    /\ turn[t].at = "think"
    /\ file' = turn[t].usage
    /\ turn' = [turn EXCEPT ![t] = Idle]
    /\ UNCHANGED <<plan, rows, done, thin, kept, left, astray, begun, calls, faults>>

(* The process dies under a turn: a slot it claimed is left behind.        *)
Die(t) ==
    /\ turn[t].at # "idle" /\ faults < MaxFaults
    /\ faults' = faults + 1
    /\ left' = IF Holds(t) THEN left \cup Slot(t) ELSE left
    /\ turn' = [turn EXCEPT ![t] = Idle]
    /\ UNCHANGED <<plan, rows, file, done, thin, kept, astray, begun, calls>>

(* The window and the plan change under the turns in progress, which go on *)
(* with the limits they cached.                                            *)
Carried == {turn[t].limit : t \in {u \in Turns : turn[u].at # "idle"}}
Moves(w, limit) ==
    /\ moves < MaxMoves /\ moves' = moves + 1
    /\ window' = w
    /\ allowance' = limit
    /\ terms' = [terms EXCEPT ![w] = @ \cup {limit} \cup Carried]
    /\ UNCHANGED <<rows, file, turn, done, thin, kept, left, astray, begun, calls, faults>>

(* Webhooks: a purchase or a renewal opens a period, or a lapsed one is    *)
(* resumed, on any plan; another plan in the same period; the end of a     *)
(* subscription goes back to the Free window and its limit.                *)
Renew ==
    \E w \in Windows, limit \in PaidLimits :
       /\ w > window
       /\ \A r \in rows : r[1] <= w
       /\ Moves(w, limit)

ChangePlan ==
    \E limit \in PaidLimits \ {allowance} :
       /\ window # 0
       /\ Moves(window, limit)

Lapse == window # 0 /\ Moves(0, FreeLimit)

Next ==
    \/ \E t \in Turns :
          \/ Begin(t, allowance) \/ Begin(t, FreeLimit) \/ Usable(t) \/ Unusable(t) \/ ReleaseFails(t)
          \/ RecordOne(t) \/ End(t) \/ Die(t)
          \/ \E k \in Key : Claim(t, k) \/ Refused(t, k)
          \/ \E lot \in SUBSET {Name(c) : c \in Companies} : Batch(t, lot)
    \/ Renew \/ ChangePlan \/ Lapse

Spec == Init /\ [][Next]_vars

-----------------------------------------------------------------------------

TypeOK ==
    /\ window \in Windows /\ allowance \in Nat
    /\ terms \in [Windows -> SUBSET Nat]
    /\ rows \subseteq Windows \X Key
    /\ file \in Mirror
    /\ turn \in [Turns -> Turn]
    /\ done \subseteq Windows \X Key /\ thin \subseteq Windows \X Key
    /\ left \subseteq Windows \X Key /\ kept \subseteq done
    /\ astray \in BOOLEAN
    /\ moves \in 0..MaxMoves /\ begun \in 0..MaxTurns
    /\ calls \in 0..MaxCalls /\ faults \in 0..MaxFaults

(* However many turns claim and meter at once, no paid period holds more   *)
(* prospects than some limit that was enforced in it: one of the user's    *)
(* plans of that period, or the one a turn begun before a renewal or a     *)
(* change of plan still carries (a smaller plan's cap is passed that way), *)
(* unless one of them was no limit (record_prospect_use).                  *)
PaidWindowsCapped ==
    \A w \in Windows \ {0} :
       Used(w) > 0 => \E n \in terms[w] : n = 0 \/ Used(w) <= n

(* A turn that claimed a slot has it while it researches, and keeps it     *)
(* once the research was delivered: no other turn's release takes it, as   *)
(* long as every release was of the slot of its own claim: made in the     *)
(* window of the claim, by a turn that has a limit (_release_prospect).    *)
OwnSlotStands ==
    ~astray =>
        /\ kept \subseteq rows
        /\ \A t \in Turns : turn[t].at = "search" /\ Holds(t) => Slot(t) \subseteq rows

(* The only research without a use that takes a slot is a batch's: every   *)
(* row is a research that was delivered, or under way, or one a death or a *)
(* failed release left, or a batch's row of a company skipped or failed,   *)
(* or (in the Free window) the import of a mirror of such rows.            *)
SlotsAreEarned ==
    \A r \in rows :
        \/ r \in done \cup thin \cup left
        \/ \E t \in Turns : Holds(t) /\ r \in Slot(t)
        \/ r[1] = 0 /\ \E w \in Windows : <<w, r[2]>> \in done \cup thin

(* What import_legacy_keys promises and the mirrors of paying users break: *)
(* the Free window counts Free research, not what a paid period has        *)
(* counted already.                                                        *)
FreeWindowIsFree ==
    \A r \in rows : r[1] = 0 => r \in done \cup thin \cup left \/ \E t \in Turns : r \in Slot(t)

(* What release_prospect_use and _release_prospect promise and the batch   *)
(* breaks: failed or thin research never permanently consumes quota.       *)
FailedResearchIsFree == rows \cap thin \subseteq done \cup left
=============================================================================
