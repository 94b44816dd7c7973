------------------------------ MODULE Waitlist ------------------------------
(***************************************************************************)
(* The double opt-in waitlist (waitlist/, server/waitlist_api.py): the     *)
(* form, the links of the confirmation and of the launch email, and the    *)
(* launch broadcast, which an operator may run twice or kill at any point. *)
(*                                                                         *)
(* A visit is one request; it reads the row, and writes or sends in later  *)
(* steps.  Reads that fail answer like an absent row.                      *)
(***************************************************************************)
EXTENDS Coordination, FiniteSets

CONSTANTS
    People,          (* normalised addresses                               *)
    Nobody,
    Visits,          (* requests in progress at once                       *)
    Runs,            (* broadcasts in progress at once                     *)
    EmailLimit,      (* EMAIL_LIMIT                                        *)
    MaxVisits,       (* bound: requests begun                              *)
    MaxRuns,         (* bound: broadcasts begun                            *)
    MaxSlips         (* bound: store calls that fail, runs that are killed *)

ASSUME WaitlistAssumption ==
    /\ {EmailLimit, MaxVisits, MaxRuns, MaxSlips} \subseteq Nat
    /\ EmailLimit < Ceiling /\ Nobody \notin People

VARIABLES
    list,            (* the table                                          *)
    joins,           (* the per-address limit of the form                  *)
    visit,           (* what each request is doing                         *)
    run,             (* what each broadcast is doing                       *)
    linked,          (* people a confirmation reached                      *)
    launches,        (* history: launch emails each person was sent        *)
    visited, runs, slips

waitlistVars == <<list, joins, visit, run, linked, launches, visited, runs, slips>>

(* mark_bounced has no caller, so no row is ever bounced.                  *)
Status == {"absent", "unconfirmed", "subscribed", "unsubscribed"}
Row == [status: Status, notified: BOOLEAN]
Visit == [at: {"idle", "join", "create", "confirm", "leave"}, who: People \cup {Nobody},
          saw: Status]
Resting == [at |-> "idle", who |-> Nobody, saw |-> "absent"]
Run == [at: {"idle", "send", "stamp"}, queue: SUBSET People, who: People \cup {Nobody}]
Stopped == [at |-> "idle", queue |-> {}, who |-> Nobody]

WaitlistInit ==
    /\ list = [p \in People |-> [status |-> "absent", notified |-> FALSE]]
    /\ joins = [p \in People |-> 0]
    /\ visit = [v \in Visits |-> Resting]
    /\ run = [r \in Runs |-> Stopped]
    /\ linked = {} /\ launches = [p \in People |-> 0]
    /\ visited = 0 /\ runs = 0 /\ slips = 0

Slip == slips < MaxSlips /\ slips' = slips + 1
NoSlip == slips' = slips
Rest(v) == visit' = [visit EXCEPT ![v] = Resting]

(* create_unconfirmed: a first-seen address only.                          *)
Inserted(rows, p) ==
    IF rows[p].status = "absent" THEN [rows EXCEPT ![p].status = "unconfirmed"] ELSE rows

-----------------------------------------------------------------------------

(* POST /api/waitlist: over the address's limit it answers ok and stops.   *)
Submit(v, p) ==
    /\ visit[v].at = "idle" /\ visited < MaxVisits
    /\ visited' = visited + 1
    /\ \E up \in BOOLEAN :
          /\ IF up THEN NoSlip ELSE Slip
          /\ joins' = Counted(joins, p, up)
          /\ visit' = IF OverLimit(joins, p, EmailLimit, up) THEN visit
                      ELSE [visit EXCEPT ![v] = [Resting EXCEPT !.at = "join", !.who = p]]
    /\ UNCHANGED <<list, run, linked, launches, runs>>

LimitWindowEnds(p) ==
    /\ joins[p] > 0
    /\ joins' = WindowOver(joins, p)
    /\ UNCHANGED <<list, visit, run, linked, launches, visited, runs, slips>>

(* join reads the row for its status (a failed read sees no row) ...       *)
JoinReads(v) ==
    /\ visit[v].at = "join"
    /\ \E sees \in {list[visit[v].who].status, "absent"} :
          /\ IF sees = list[visit[v].who].status THEN NoSlip ELSE Slip
          /\ visit' = [visit EXCEPT ![v].at = "create", ![v].saw = sees]
    /\ UNCHANGED <<list, joins, run, linked, launches, visited, runs>>

(* ... and inserts it if it is still not there.  An insert that fails (the *)
(* store, or another request's row came first) ends the request; somebody  *)
(* on the list or off it for good is not mailed; the mail may fail.        *)
JoinCreates(v) ==
    LET p == visit[v].who IN
    /\ visit[v].at = "create"
    /\ Rest(v)
    /\ \/ /\ list' = Inserted(list, p) /\ NoSlip
          /\ \/ /\ visit[v].saw \notin {"subscribed", "unsubscribed"}
                /\ linked' = linked \cup {p}
             \/ linked' = linked
       \/ Slip /\ UNCHANGED <<list, linked>>
    /\ UNCHANGED <<joins, run, launches, visited, runs>>

(* The link of the confirmation, opened as often as they like.             *)
OpenConfirm(v, p) ==
    /\ visit[v].at = "idle" /\ visited < MaxVisits /\ p \in linked
    /\ visited' = visited + 1
    /\ visit' = IF list[p].status = "unconfirmed"
                THEN [visit EXCEPT ![v] = [Resting EXCEPT !.at = "confirm", !.who = p]]
                ELSE visit
    /\ UNCHANGED <<list, joins, run, linked, launches, runs, slips>>

(* Mutant of Confirmed: the UPDATE names the address only.                 *)
ConfirmedAnyway(rows, p) == [rows EXCEPT ![p].status = "subscribed"]

(* The UPDATE is guarded by the status it moves from.                      *)
Confirmed(rows, p) ==
    IF rows[p].status = "unconfirmed" THEN [rows EXCEPT ![p].status = "subscribed"] ELSE rows

Confirm(v) ==
    /\ visit[v].at = "confirm"
    /\ Rest(v)
    /\ \/ list' = Confirmed(list, visit[v].who) /\ NoSlip
       \/ Slip /\ list' = list
    /\ UNCHANGED <<joins, run, linked, launches, visited, runs>>

(* Only the launch email carries the unsubscribe link.                     *)
OpenUnsubscribe(v, p) ==
    /\ visit[v].at = "idle" /\ visited < MaxVisits /\ launches[p] > 0
    /\ visited' = visited + 1
    /\ visit' = IF list[p].status # "unsubscribed"
                THEN [visit EXCEPT ![v] = [Resting EXCEPT !.at = "leave", !.who = p]]
                ELSE visit
    /\ UNCHANGED <<list, joins, run, linked, launches, runs, slips>>

Unsubscribe(v) ==
    /\ visit[v].at = "leave"
    /\ Rest(v)
    /\ \/ list' = [list EXCEPT ![visit[v].who].status = "unsubscribed"] /\ NoSlip
       \/ Slip /\ list' = list
    /\ UNCHANGED <<joins, run, linked, launches, visited, runs>>

-----------------------------------------------------------------------------

PendingBroadcast == {p \in People : list[p].status = "subscribed" /\ ~list[p].notified}

(* The rows are read once, when the run begins.                            *)
BroadcastBegins(r) ==
    /\ run[r].at = "idle" /\ runs < MaxRuns
    /\ PendingBroadcast # {}
    /\ runs' = runs + 1
    /\ run' = [run EXCEPT ![r] = [Stopped EXCEPT !.at = "send", !.queue = PendingBroadcast]]
    /\ UNCHANGED <<list, joins, visit, linked, launches, visited, slips>>

(* One send; a refused one is left for the next run.                       *)
BroadcastSends(r) ==
    /\ run[r].at = "send"
    /\ \E p \in run[r].queue, accepted \in BOOLEAN :
          /\ launches' = IF accepted THEN [launches EXCEPT ![p] = @ + 1] ELSE launches
          /\ run' = [run EXCEPT ![r].at = IF accepted THEN "stamp" ELSE "send",
                                ![r].who = IF accepted THEN p ELSE Nobody,
                                ![r].queue = @ \ {p}]
    /\ UNCHANGED <<list, joins, visit, linked, visited, runs, slips>>

(* The stamp that takes the address out of the next run; it may fail.      *)
BroadcastStamps(r) ==
    /\ run[r].at = "stamp"
    /\ \/ list' = [list EXCEPT ![run[r].who].notified = TRUE] /\ NoSlip
       \/ Slip /\ list' = list
    /\ run' = [run EXCEPT ![r].at = "send", ![r].who = Nobody]
    /\ UNCHANGED <<joins, visit, linked, launches, visited, runs>>

BroadcastEnds(r) ==
    /\ run[r].at = "send" /\ run[r].queue = {}
    /\ run' = [run EXCEPT ![r] = Stopped]
    /\ UNCHANGED <<list, joins, visit, linked, launches, visited, runs, slips>>

BroadcastKilled(r) ==
    /\ run[r].at # "idle" /\ Slip
    /\ run' = [run EXCEPT ![r] = Stopped]
    /\ UNCHANGED <<list, joins, visit, linked, launches, visited, runs>>

WaitlistNext ==
    \/ \E v \in Visits, p \in People :
          \/ Submit(v, p)
          \/ OpenConfirm(v, p)
          \/ OpenUnsubscribe(v, p)
    \/ \E v \in Visits :
          \/ JoinReads(v)
          \/ JoinCreates(v)
          \/ Confirm(v)
          \/ Unsubscribe(v)
    \/ \E r \in Runs :
          \/ BroadcastBegins(r)
          \/ BroadcastSends(r)
          \/ BroadcastStamps(r)
          \/ BroadcastEnds(r)
          \/ BroadcastKilled(r)
    \/ \E p \in People : LimitWindowEnds(p)

WaitlistSpec == WaitlistInit /\ [][WaitlistNext]_waitlistVars

-----------------------------------------------------------------------------

WaitlistTypeOK ==
    /\ list \in [People -> Row]
    /\ joins \in [People -> Nat]
    /\ visit \in [Visits -> Visit]
    /\ run \in [Runs -> Run]
    /\ linked \subseteq People
    /\ launches \in [People -> Nat]
    /\ {visited, runs, slips} \subseteq Nat

(* An address that opted out stays out: a confirmation that read the row   *)
(* before the broadcast and the opt-out does not bring it back, nor does   *)
(* another submission of the form (waitlist.confirm, store.confirm, join). *)
OptOutStands ==
    [][\A p \in People :
          list[p].status = "unsubscribed" => list'[p].status = "unsubscribed"]_list

(* What the broadcast's own documentation says of it: "an interrupted run, *)
(* a crash, or simply running it twice will never double-send".            *)
BroadcastOnce == \A p \in People : launches[p] <= 1
=============================================================================
