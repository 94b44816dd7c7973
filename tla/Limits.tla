------------------------------- MODULE Limits -------------------------------
(***************************************************************************)
(* The cost safety of one account (limits/): every paid call of the user   *)
(* asks allow() first and is recorded when it succeeded, and a spike of    *)
(* the last hour pauses the account, which an operator may pause and       *)
(* resume.  The model client (services/claude_client.py) and the research  *)
(* providers (research/providers_common.py) are the callers; calls run in  *)
(* many threads at once, and nothing is locked.                            *)
(*                                                                         *)
(* The ledger is read as two sliding windows: a row leaves the hour, and   *)
(* later the day, in a step of its own.  The monthly ceiling has the shape *)
(* of the daily one and is left out.                                       *)
(***************************************************************************)
EXTENDS Naturals, FiniteSets

CONSTANTS
    Calls,          (* calls in progress at once                           *)
    Providers,
    Model,          (* the provider whose empty answers are asked again    *)
    CallCap,        (* provider_daily_cap                                  *)
    UsdCap,         (* LIMIT_DAILY_USD_PER_USER, every call costing one    *)
    SpikeFloor,     (* LIMIT_SPIKE_MIN_CALLS                               *)
    SpikeMultiple,  (* LIMIT_SPIKE_MULTIPLE                                *)
    SpikeCeiling,   (* LIMIT_SPIKE_ABS_CEILING                             *)
    Baselines,      (* medians the other users may have: 0 is that of none, *)
                    (* and of a median that cannot be read                 *)
    Retries,        (* EMPTY_RESPONSE_RETRIES                              *)
    Operators,      (* operator commands in progress at once               *)
    MaxCalls,       (* bound: calls begun                                  *)
    MaxCommands,    (* bound: operator commands                            *)
    MaxMisses       (* bound: store calls that fail                        *)

ASSUME LimitsAssumption ==
    /\ {CallCap, UsdCap, SpikeFloor, SpikeMultiple, SpikeCeiling, Retries, MaxCalls,
        MaxCommands, MaxMisses} \subseteq Nat
    /\ Baselines \subseteq Nat /\ 0 \in Baselines /\ SpikeFloor > 0
    /\ IsFiniteSet(Calls) /\ Calls # {}
    /\ Model \in Providers

VARIABLES
    day, hour,      (* the ledger's rows of the last day and hour          *)
    spend,          (* what the last day's rows cost together              *)
    account,        (* account_status                                      *)
    call,           (* what each call is doing                             *)
    command,        (* what each operator command is doing                 *)
    judged,         (* history: the thresholds the account was held to     *)
                    (* since its last call was metered                     *)
    undone,         (* history: how a pause was lost since: an operator    *)
                    (* resumed, or the pause's INSERT was refused          *)
    called, commands, misses

ledger == <<day, hour, spend>>
history == <<judged, undone>>
limitsVars == <<ledger, account, call, command, history, called, commands, misses>>

(* No row means active.                                                    *)
Account == {"no row", "active", "paused"}
Paused == account = "paused"

Call == [at: {"idle", "state", "caps", "out", "meter", "flag", "insert"},
         of: Providers, empty: BOOLEAN, tries: Nat]
Quiet == [at |-> "idle", of |-> Model, empty |-> FALSE, tries |-> 0]
Command == [at: {"idle", "insert"}, to: Account]

LimitsInit ==
    /\ day = [p \in Providers |-> 0] /\ hour = 0 /\ spend = 0
    /\ account = "no row"
    /\ call = [c \in Calls |-> Quiet]
    /\ command = [o \in Operators |-> [at |-> "idle", to |-> "active"]]
    /\ judged = {} /\ undone = {}
    /\ called = 0 /\ commands = 0 /\ misses = 0

Miss == misses < MaxMisses /\ misses' = misses + 1
NoMiss == misses' = misses
Goes(c, at) == call' = [call EXCEPT ![c].at = at]
Hangs(c) == call' = [call EXCEPT ![c] = Quiet]

-----------------------------------------------------------------------------

CallBegins(c, p) ==
    /\ call[c].at = "idle" /\ called < MaxCalls
    /\ called' = called + 1
    /\ call' = [call EXCEPT ![c] = [Quiet EXCEPT !.at = "state", !.of = p]]
    /\ UNCHANGED <<ledger, account, command, history, commands, misses>>

(* allow: the kill switch first; a state that cannot be read is active.    *)
AsksState(c) ==
    /\ call[c].at = "state"
    /\ \/ /\ IF Paused THEN Hangs(c) ELSE Goes(c, "caps")
          /\ NoMiss
       \/ Paused /\ Goes(c, "caps") /\ Miss
    /\ UNCHANGED <<ledger, account, command, history, called, commands>>

(* ... then the caps; a sum that cannot be read is zero.                   *)
OverCap(p) == day[p] >= CallCap \/ spend >= UsdCap
AsksCaps(c) ==
    /\ call[c].at = "caps"
    /\ \/ /\ IF OverCap(call[c].of) THEN Hangs(c) ELSE Goes(c, "out")
          /\ NoMiss
       \/ OverCap(call[c].of) /\ Goes(c, "out") /\ Miss
    /\ UNCHANGED <<ledger, account, command, history, called, commands>>

(* The provider answers; only an answer is metered, an empty one too.      *)
(* Transport faults are tried again on the same permission (_with_retry)   *)
(* and end the call when they last.                                        *)
Answered(c, empty) ==
    /\ call[c].at = "out"
    /\ empty => call[c].of = Model
    /\ call' = [call EXCEPT ![c].at = "meter", ![c].empty = empty]
    /\ UNCHANGED <<ledger, account, command, history, called, commands, misses>>

GaveUp(c) ==
    /\ call[c].at = "out"
    /\ Hangs(c)
    /\ UNCHANGED <<ledger, account, command, history, called, commands, misses>>

(* record: a row in the ledger ...                                         *)
Meters(c) ==
    /\ call[c].at = "meter"
    /\ Goes(c, "flag")
    /\ \/ /\ day' = [day EXCEPT ![call[c].of] = @ + 1]
          /\ hour' = hour + 1 /\ spend' = spend + 1
          /\ judged' = {} /\ undone' = {} /\ NoMiss
       \/ Miss /\ UNCHANGED <<ledger, history>>
    /\ UNCHANGED <<account, command, called, commands>>

(* Mutant of Asked: the next attempt runs on the permission of the first.  *)
AskedOnce(r) ==
    IF r.empty /\ r.tries < Retries
    THEN [Quiet EXCEPT !.at = "out", !.of = r.of, !.tries = r.tries + 1] ELSE Quiet

(* After an empty answer the model is asked again, from allow() on.        *)
Asked(r) ==
    IF r.empty /\ r.tries < Retries
    THEN [Quiet EXCEPT !.at = "state", !.of = r.of, !.tries = r.tries + 1] ELSE Quiet
Returns(c) == call' = [call EXCEPT ![c] = Asked(call[c])]

(* The median of the other users' hours, as it is when it is asked for.    *)
Threshold(baseline) ==
    IF baseline = 0 THEN SpikeCeiling
    ELSE LET scaled == SpikeMultiple * baseline
         IN IF scaled > SpikeFloor THEN scaled ELSE SpikeFloor

(* Mutant of Spikes: the call that reaches the threshold does not trip it. *)
SpikesLate(baseline) == hour >= SpikeFloor /\ hour > Threshold(baseline)

Spikes(baseline) == hour >= SpikeFloor /\ hour >= Threshold(baseline)

(* ... then _maybe_flag_spike, against the median of now: an UPDATE, and   *)
(* an INSERT if it met no row.  What cannot be read is no spike.           *)
Flags(c) ==
    /\ call[c].at = "flag"
    /\ \E baseline \in Baselines :
          /\ \/ /\ Spikes(baseline) /\ ~Paused /\ NoMiss
                /\ \/ account = "no row" /\ Goes(c, "insert") /\ account' = account
                   \/ account # "no row" /\ Returns(c) /\ account' = "paused"
             \/ /\ IF Spikes(baseline) /\ ~Paused THEN Miss ELSE NoMiss
                /\ Returns(c) /\ account' = account
          /\ judged' = judged \cup IF hour < SpikeFloor \/ Paused THEN {} ELSE {Threshold(baseline)}
    /\ UNCHANGED <<ledger, command, undone, called, commands>>

(* The INSERT fails when another one came first, and nobody hears of it.   *)
PauseInserts(c) ==
    /\ call[c].at = "insert"
    /\ Returns(c)
    /\ \/ /\ account' = IF account = "no row" THEN "paused" ELSE account
          /\ undone' = undone \cup IF account = "active" THEN {"refused"} ELSE {}
          /\ NoMiss
       \/ Miss /\ UNCHANGED <<account, undone>>
    /\ UNCHANGED <<ledger, command, judged, called, commands>>

-----------------------------------------------------------------------------

(* pause and resume of the admin routes and of python -m limits.           *)
Commands(o, to) ==
    /\ command[o].at = "idle" /\ commands < MaxCommands
    /\ commands' = commands + 1
    /\ IF account = "no row"
       THEN /\ command' = [command EXCEPT ![o] = [at |-> "insert", to |-> to]]
            /\ UNCHANGED <<account, undone>>
       ELSE /\ account' = to
            /\ undone' = undone \cup IF Paused /\ to = "active" THEN {"resumed"} ELSE {}
            /\ command' = command
    /\ UNCHANGED <<ledger, call, judged, called, misses>>

CommandInserts(o) ==
    /\ command[o].at = "insert"
    /\ command' = [command EXCEPT ![o].at = "idle", ![o].to = "active"]
    /\ account' = IF account = "no row" THEN command[o].to ELSE account
    /\ UNCHANGED <<ledger, call, history, called, commands, misses>>

LeavesHour ==
    /\ hour > 0
    /\ hour' = hour - 1
    /\ UNCHANGED <<day, spend, account, call, command, history, called, commands,
                   misses>>

LeavesDay(p) ==
    /\ day[p] > 0 /\ spend > hour
    /\ day' = [day EXCEPT ![p] = @ - 1] /\ spend' = spend - 1
    /\ UNCHANGED <<hour, account, call, command, history, called, commands, misses>>

LimitsNext ==
    \/ \E c \in Calls, p \in Providers : CallBegins(c, p)
    \/ \E c \in Calls :
          \/ AsksState(c)
          \/ AsksCaps(c)
          \/ \E empty \in BOOLEAN : Answered(c, empty)
          \/ GaveUp(c)
          \/ Meters(c)
          \/ Flags(c)
          \/ PauseInserts(c)
    \/ \E o \in Operators :
          \/ \E to \in {"active", "paused"} : Commands(o, to)
          \/ CommandInserts(o)
    \/ LeavesHour
    \/ \E p \in Providers : LeavesDay(p)

-----------------------------------------------------------------------------

LimitsTypeOK ==
    /\ day \in [Providers -> Nat] /\ hour \in Nat /\ spend \in Nat
    /\ account \in Account
    /\ call \in [Calls -> Call]
    /\ command \in [Operators -> Command]
    /\ judged \subseteq Nat /\ undone \subseteq {"resumed", "refused"}
    /\ {called, commands, misses} \subseteq Nat

(* allow() and record() are two calls with the provider in between, so the *)
(* caps are passed by the calls that were in progress, and by no more: one *)
(* less than the threads there are, and the reads that failed open.        *)
OvershootBounded ==
    LET slack == Cardinality(Calls) - 1 + misses IN
    /\ \A p \in Providers : day[p] <= CallCap + slack
    /\ spend <= UsdCap + slack

(* An account past the floor is paused as soon as no call is between its   *)
(* ledger row and its verdict, or was below every threshold it was held to *)
(* since its last call; unless an operator resumed it, an operator's row   *)
(* came before the pause's own, or the store failed (_maybe_flag_spike,    *)
(* set_state).                                                             *)
Judged == \A c \in Calls : call[c].at \notin {"flag", "insert"}
SpikeCaught ==
    Judged /\ hour >= SpikeFloor /\ undone = {} /\ misses = 0
        => Paused \/ (judged # {} /\ \A bar \in judged : hour < bar)

(* What it does not say: that a verdict still holds when the others'       *)
(* median has moved since, and that no pause is lost to an operator's row. *)
StillJustified ==
    Judged /\ undone = {} /\ misses = 0 => Paused \/ ~(\E baseline \in Baselines : Spikes(baseline))
PauseTakes == "refused" \notin undone
=============================================================================
