------------------------------ MODULE Campaign ------------------------------
(***************************************************************************)
(* Campaigns: creating one, editing a recipient, launching it into one     *)
(* workflow per recipient, and pausing, resuming or cancelling them all    *)
(* (server/campaign_api.py over server/campaign_store.py).                 *)
(*                                                                         *)
(* Requests run in threads and share nothing but the row.  Only the claim  *)
(* of a launch is one conditional UPDATE; every other change loads the     *)
(* row, decides, and then calls update(), which reads the row once more    *)
(* and writes all of it.  The claim expires after 120 seconds, counted     *)
(* from the last write of the row.                                         *)
(*                                                                         *)
(* Of a campaign's prospects the model keeps the address each would be sent*)
(* to; of a workflow, whether it is paused or cancelled through its        *)
(* campaign (module Workflow has the rest).                                *)
(***************************************************************************)
EXTENDS Integers, FiniteSets

CONSTANTS
    Campaigns,   (* idempotency keys of one owner: a campaign each         *)
    Prospects,   (* the prospects of a campaign                            *)
    Addresses,   (* recipients                                             *)
    Threads,     (* request threads                                        *)
    NoAddress,   (* a prospect that cannot be launched                     *)
    NoRow,       (* a campaign that has not been created                   *)
    MaxClaims,   (* bound: launches claimed of one campaign                *)
    MaxRequests  (* bound: requests served                                 *)

ASSUME CampaignAssumption ==
    /\ NoAddress \notin Addresses
    /\ MaxClaims \in Nat
    /\ MaxRequests \in Nat

VARIABLES
    row,     (* the campaigns table                                        *)
    fresh,   (* whether the row was written in the last 120 seconds        *)
    wf,      (* what became of each workflow                               *)
    requests, (* how many requests were taken on                            *)
    claims,  (* how many launches were claimed: numbers their workflows    *)
    pc,      (* where each thread is                                       *)
    job,     (* what it works on                                           *)
    stale,   (* history: threads whose copy another thread has overwritten *)
    marks    (* history: what has gone wrong with a campaign               *)

vars == <<row, fresh, wf, requests, claims, pc, job, stale, marks>>

Statuses == {"blocked", "ready", "launching", "launched", "paused", "cancelled"}
Controls == {"pause", "resume", "cancel"}
Workflows == Campaigns \X (1..MaxClaims) \X Addresses
Results == [Prospects -> Addresses \cup {NoAddress}]

Row == [status: Statuses, result: Results, ids: SUBSET Workflows]

ASSUME NoRowAssumption == NoRow \notin Row

(* A thread's job: its campaign, the copy of the row it is going to write, *)
(* the status it loaded, what it serves, the number of its launch, and the *)
(* workflows a control has still to handle.                                *)
Nothing == [p \in Prospects |-> NoAddress]
Job(c, control, status, result) ==
    [at |-> c, control |-> control, before |-> status, launch |-> 0, todo |-> {},
     copy |-> [status |-> status, result |-> result, ids |-> {}]]
Blank(t) == Job(job[t].at, "none", "blocked", Nothing)

(* _launchable_emails: at most one per recipient.                          *)
Recipients(result) == {result[p] : p \in Prospects} \ {NoAddress}

StatusOf(result) == IF Recipients(result) = {} THEN "blocked" ELSE "ready"

Goto(t, label) == pc' = [pc EXCEPT ![t] = label]
Set(t, j) == job' = [job EXCEPT ![t] = j]

(* What t's write of its row would do wrong: overwrite what was written    *)
(* since it loaded the row; change the recipients under workflows that     *)
(* exist; take the claim from a launch under way.                          *)
Wrongs(t) ==
    LET j == job[t]
    IN  (IF t \in stale THEN {"lost"} ELSE {})
        \cup (IF j.control = "edit" /\ j.copy.ids # {} /\ j.before # "launched"
              THEN {"edited"} ELSE {})
        \cup (IF j.control # "launch" /\ row[j.at].status = "launching"
              THEN {"reset"} ELSE {})

(* The write of c's row by t.                                              *)
Write(t, c, r, why) ==
    /\ row' = [row EXCEPT ![c] = r]
    /\ fresh' = [fresh EXCEPT ![c] = TRUE]
    /\ stale' = (stale \ {t}) \cup
                {u \in Threads \ {t} : pc[u] # "idle" /\ job[u].at = c}
    /\ marks' = [marks EXCEPT ![c] = @ \cup why]

Done(t) == /\ Goto(t, "idle") /\ Set(t, Blank(t)) /\ stale' = stale \ {t}
Take == requests < MaxRequests /\ requests' = requests + 1
Load(t, c, label, j) ==
    /\ pc[t] = "idle" /\ row[c] # NoRow /\ Take
    /\ Goto(t, label) /\ Set(t, j)
    /\ stale' = stale \ {t}
    /\ UNCHANGED <<row, fresh, wf, claims, marks>>

-----------------------------------------------------------------------------
(* create_campaign: the pipeline runs between the look-up and the INSERT.  *)

CreateLooksUp(t, c) ==
    /\ pc[t] = "idle" /\ row[c] = NoRow /\ Take
    /\ Goto(t, "create") /\ Set(t, Job(c, "create", "blocked", Nothing))
    /\ UNCHANGED <<row, fresh, wf, claims, stale, marks>>

(* Mutant of CreateInserts: without UNIQUE(owner, idempotency_key).        *)
CreateOverwrites(t) ==
    /\ pc[t] = "create"
    /\ \E result \in Results :
          row' = [row EXCEPT ![job[t].at] =
                    [status |-> StatusOf(result), result |-> result, ids |-> {}]]
    /\ fresh' = [fresh EXCEPT ![job[t].at] = TRUE]
    /\ Done(t)
    /\ UNCHANGED <<requests, wf, claims, marks>>

(* The UNIQUE key refuses a second row; the request returns the first.     *)
CreateInserts(t) ==
    /\ pc[t] = "create"
    /\ \/ /\ row[job[t].at] = NoRow
          /\ \E result \in Results :
                row' = [row EXCEPT ![job[t].at] =
                          [status |-> StatusOf(result), result |-> result, ids |-> {}]]
          /\ fresh' = [fresh EXCEPT ![job[t].at] = TRUE]
       \/ /\ row[job[t].at] # NoRow
          /\ UNCHANGED <<row, fresh>>
    /\ Done(t)
    /\ UNCHANGED <<requests, wf, claims, marks>>

-----------------------------------------------------------------------------
(* CampaignStore.update: what the caller does not give is read from the    *)
(* row, and then all of it is written.                                     *)

UpdateReads(t) ==
    /\ pc[t] \in {"save", "release"}
    /\ Set(t, [job[t] EXCEPT
          !.copy.result = IF job[t].control = "edit" THEN @ ELSE row[job[t].at].result,
          !.copy.ids = row[job[t].at].ids])
    /\ Goto(t, "saving")
    /\ UNCHANGED <<requests, row, fresh, wf, claims, stale, marks>>

UpdateWrites(t) ==
    /\ pc[t] \in {"saving", "finishing"}
    /\ Write(t, job[t].at, job[t].copy, Wrongs(t))
    /\ IF pc[t] = "finishing" THEN Goto(t, "event") /\ UNCHANGED job
       ELSE Goto(t, "idle") /\ Set(t, Blank(t))
    /\ UNCHANGED <<requests, wf, claims>>

-----------------------------------------------------------------------------
(* update_prospect_recipient.                                              *)

(* The guard looks at the mail to the new address: the prospect can be     *)
(* launched with it, or no longer.                                         *)
Reassessed(a) == {a, NoAddress}
Edited(result, p, to) == [result EXCEPT ![p] = to]

(* Mutant of EditLoads: a launched campaign can be edited.                 *)
EditLoadsAny(t, c) ==
    /\ row[c] # NoRow
    /\ \E p \in Prospects, to \in UNION {Reassessed(a) : a \in Addresses} :
          LET result == Edited(row[c].result, p, to)
          IN  Load(t, c, "save", [Job(c, "edit", row[c].status, result)
                                     EXCEPT !.copy.status = StatusOf(result)])

EditLoads(t, c) ==
    /\ row[c] # NoRow /\ row[c].status # "launched"
    /\ \E p \in Prospects, to \in UNION {Reassessed(a) : a \in Addresses} :
          LET result == Edited(row[c].result, p, to)
          IN  Load(t, c, "save", [Job(c, "edit", row[c].status, result)
                                     EXCEPT !.copy.status = StatusOf(result)])

-----------------------------------------------------------------------------
(* launch_campaign.                                                        *)

(* Refused when it is launched already or has nobody to write to.          *)
LaunchLoads(t, c) ==
    /\ row[c] # NoRow
    /\ ~(row[c].status = "launched" /\ row[c].ids # {})
    /\ Recipients(row[c].result) # {}
    /\ Load(t, c, "claim", Job(c, "launch", row[c].status, row[c].result))

(* Mutant of Claim: whoever read that it is not launched goes on.          *)
ClaimAnyway(t) ==
    /\ pc[t] = "claim" /\ claims[job[t].at] < MaxClaims
    /\ LET c == job[t].at
       IN  /\ row[c].status # "launched"
           /\ claims' = [claims EXCEPT ![c] = @ + 1]
           /\ row' = [row EXCEPT ![c].status = "launching"]
           /\ fresh' = [fresh EXCEPT ![c] = TRUE]
           /\ Set(t, [job[t] EXCEPT !.launch = claims[c] + 1])
           /\ marks' = marks /\ stale' = stale
    /\ Goto(t, "creating")
    /\ UNCHANGED <<requests, wf>>

(* claim_launch: a conditional UPDATE.  The copy loaded before it is used  *)
(* on, so what was written in between still is overwritten.                *)
Claim(t) ==
    /\ pc[t] = "claim" /\ claims[job[t].at] < MaxClaims
    /\ LET c == job[t].at
       IN  /\ row[c].status # "launched"
           /\ row[c].status = "launching" => ~fresh[c]
           /\ claims' = [claims EXCEPT ![c] = @ + 1]
           /\ row' = [row EXCEPT ![c].status = "launching"]
           /\ fresh' = [fresh EXCEPT ![c] = TRUE]
           /\ Set(t, [job[t] EXCEPT !.launch = claims[c] + 1])
           /\ marks' = [marks EXCEPT ![c] = @
                 \cup (IF row[c].status = "launching" THEN {"retaken"} ELSE {})
                 \cup (IF row[c].ids # {} THEN {"relaunched"} ELSE {})]
           /\ stale' = stale \cup
                 {u \in Threads \ {t} : pc[u] # "idle" /\ job[u].at = c}
    /\ Goto(t, "creating")
    /\ UNCHANGED <<requests, wf>>

(* The loser returns the row as it is.                                     *)
ClaimLost(t) ==
    /\ pc[t] = "claim"
    /\ LET r == row[job[t].at]
       IN  r.status = "launched" \/ (r.status = "launching" /\ fresh[job[t].at])
    /\ Done(t)
    /\ UNCHANGED <<requests, row, fresh, wf, claims, marks>>

(* The workflows the launch of t has made.                                 *)
Made(t) == {w \in Workflows : w[1] = job[t].at /\ w[2] = job[t].launch /\ wf[w] # "none"}

(* engine.create_workflow, for one recipient.                              *)
CreateWorkflow(t) ==
    /\ pc[t] = "creating"
    /\ \E a \in Recipients(job[t].copy.result) :
          LET w == <<job[t].at, job[t].launch, a>>
          IN  wf[w] = "none" /\ wf' = [wf EXCEPT ![w] = "live"]
    /\ UNCHANGED <<requests, row, fresh, claims, pc, job, stale, marks>>

(* All are made: the row as it was loaded, launched, with their ids.       *)
LaunchDone(t) ==
    /\ pc[t] = "creating"
    /\ {w[3] : w \in Made(t)} = Recipients(job[t].copy.result)
    /\ Set(t, [job[t] EXCEPT !.copy.status = "launched", !.copy.ids = Made(t)])
    /\ Goto(t, "finishing")
    /\ UNCHANGED <<requests, row, fresh, wf, claims, stale, marks>>

AddEvent(t) ==
    /\ pc[t] = "event" /\ Done(t)
    /\ UNCHANGED <<requests, row, fresh, wf, claims, marks>>

(* Anything raised after the claim releases it: the status from before.    *)
LaunchFails(t) ==
    /\ pc[t] \in {"creating", "finishing", "event"}
    /\ Set(t, [job[t] EXCEPT !.copy.status = job[t].before])
    /\ marks' = [marks EXCEPT ![job[t].at] = @ \cup
                    (IF Made(t) # {} THEN {"released"} ELSE {})]
    /\ Goto(t, "release")
    /\ UNCHANGED <<requests, row, fresh, wf, claims, stale>>

-----------------------------------------------------------------------------
(* _control_campaign: pause, resume or cancel every workflow on record.    *)

After == [pause |-> "paused", resume |-> "launched", cancel |-> "cancelled"]

ControlLoads(t, c, k) ==
    /\ row[c] # NoRow /\ (row[c].ids # {} \/ k = "cancel")
    /\ Load(t, c, "control",
            [Job(c, k, row[c].status, Nothing) EXCEPT !.todo = row[c].ids,
                                                      !.copy.status = After[k]])

(* Mutant of ControlOne: only what is not paused is cancelled.             *)
ControlOneUnpaused(t) ==
    /\ pc[t] = "control"
    /\ \E w \in job[t].todo :
          /\ wf' = [wf EXCEPT ![w] =
                CASE job[t].control = "pause" /\ @ = "live"    -> "paused"
                  [] job[t].control = "resume" /\ @ = "paused" -> "live"
                  [] job[t].control = "cancel" /\ @ = "live"   -> "over"
                  [] OTHER -> @]
          /\ Set(t, [job[t] EXCEPT !.todo = @ \ {w}])
    /\ UNCHANGED <<requests, row, fresh, claims, pc, stale, marks>>

(* The engine pauses a workflow that is queued or waiting, not one that is *)
(* in the middle of a send; the campaign goes on to "paused" all the same. *)
ControlOne(t) ==
    /\ pc[t] = "control"
    /\ \E w \in job[t].todo :
          /\ wf' \in CASE job[t].control = "pause" /\ wf[w] = "live" ->
                             {wf, [wf EXCEPT ![w] = "paused"]}
                      [] job[t].control = "resume" /\ wf[w] = "paused" ->
                             {[wf EXCEPT ![w] = "live"]}
                      [] job[t].control = "cancel" -> {[wf EXCEPT ![w] = "over"]}
                      [] OTHER -> {wf}
          /\ Set(t, [job[t] EXCEPT !.todo = @ \ {w}])
    /\ UNCHANGED <<requests, row, fresh, claims, pc, stale, marks>>

ControlDone(t) ==
    /\ pc[t] = "control" /\ job[t].todo = {}
    /\ Goto(t, "save")
    /\ UNCHANGED <<requests, row, fresh, wf, claims, job, stale, marks>>

-----------------------------------------------------------------------------
(* A request fails half way, outside the part of a launch that is guarded; *)
(* the release of a claim may fail too.                                    *)
Aborts(t) ==
    /\ pc[t] \in {"create", "claim", "save", "release", "saving", "control"}
    /\ Done(t)
    /\ UNCHANGED <<requests, row, fresh, wf, claims, marks>>

(* The process that serves the requests dies.                              *)
Crash ==
    /\ \E t \in Threads : pc[t] # "idle"
    /\ marks' = [c \in Campaigns |->
          IF \E t \in Threads : /\ job[t].at = c /\ Made(t) # {}
                              /\ pc[t] \in {"creating", "finishing", "release"}
          THEN marks[c] \cup {"crashed"} ELSE marks[c]]
    /\ pc' = [t \in Threads |-> "idle"]
    /\ job' = [t \in Threads |-> Blank(t)]
    /\ stale' = {}
    /\ UNCHANGED <<requests, row, fresh, wf, claims>>

(* 120 seconds go by without a write of the row, a launch under way or not.*)
TimePasses(c) ==
    /\ fresh[c]
    /\ fresh' = [fresh EXCEPT ![c] = FALSE]
    /\ UNCHANGED <<requests, row, wf, claims, pc, job, stale, marks>>

-----------------------------------------------------------------------------
Init ==
    /\ row = [c \in Campaigns |-> NoRow]
    /\ fresh = [c \in Campaigns |-> FALSE]
    /\ wf = [w \in Workflows |-> "none"]
    /\ requests = 0
    /\ claims = [c \in Campaigns |-> 0]
    /\ pc = [t \in Threads |-> "idle"]
    /\ \E c \in Campaigns :
          job = [t \in Threads |-> Job(c, "none", "blocked", Nothing)]
    /\ stale = {}
    /\ marks = [c \in Campaigns |-> {}]

Request(t) ==
    \E c \in Campaigns :
        \/ CreateLooksUp(t, c) \/ EditLoads(t, c) \/ LaunchLoads(t, c)
        \/ \E k \in Controls : ControlLoads(t, c, k)

Step(t) ==
    \/ CreateInserts(t) \/ UpdateReads(t) \/ UpdateWrites(t)
    \/ Claim(t) \/ ClaimLost(t) \/ CreateWorkflow(t) \/ LaunchDone(t) \/ AddEvent(t)
    \/ ControlOne(t) \/ ControlDone(t)

Next ==
    \/ \E t \in Threads : Request(t) \/ Step(t) \/ LaunchFails(t) \/ Aborts(t)
    \/ Crash
    \/ \E c \in Campaigns : TimePasses(c)

Spec == Init /\ [][Next]_vars

-----------------------------------------------------------------------------
(* Properties.                                                             *)

JobType ==
    [at: Campaigns, control: Controls \cup {"none", "create", "edit", "launch"},
     before: Statuses, launch: 0..MaxClaims, todo: SUBSET Workflows, copy: Row]

(* Every variable has its type.                                            *)
TypeOK ==
    /\ row \in [Campaigns -> Row \cup {NoRow}]
    /\ fresh \in [Campaigns -> BOOLEAN]
    /\ wf \in [Workflows -> {"none", "live", "paused", "over"}]
    /\ requests \in 0..MaxRequests
    /\ claims \in [Campaigns -> 0..MaxClaims]
    /\ pc \in [Threads -> {"idle", "create", "save", "saving", "claim", "creating",
                           "finishing", "event", "release", "control"}]
    /\ job \in [Threads -> JobType]
    /\ stale \subseteq Threads
    /\ marks \in [Campaigns -> SUBSET {"lost", "edited", "reset", "retaken", "relaunched",
                                       "released", "crashed"}]

(* No recipient of a campaign gets two sequences, except where a launch was*)
(* given back half done, was taken over from a launcher that looked dead,  *)
(* was repeated on a campaign that had already run, or where the status    *)
(* that guards it was overwritten from an older copy of the row.           *)
OneSequence ==
    \A v, w \in Workflows :
        v[1] = w[1] /\ v[3] = w[3] /\ wf[v] # "none" /\ wf[w] # "none" /\ v # w
            => marks[v[1]] \cap {"lost", "reset", "retaken", "relaunched", "released"} # {}

(* Every workflow that can still send is on its campaign's row, where pause*)
(* and cancel find it, or in the hands of the launch that makes it.        *)
NoOrphan ==
    \A w \in Workflows :
        wf[w] \in {"live", "paused"} =>
            \/ row[w[1]] # NoRow /\ w \in row[w[1]].ids
            \/ \E t \in Threads : w \in Made(t)
            \/ marks[w[1]] # {}

(* A cancelled campaign sends nothing any more: none of its workflows is   *)
(* left running or paused, but those of a launch under way, unless an      *)
(* overwritten row hid them.                                               *)
CancelledIsSilent ==
    \A w \in Workflows :
        /\ row[w[1]] # NoRow /\ row[w[1]].status = "cancelled"
        /\ marks[w[1]] = {}
        => wf[w] \in {"none", "over"} \/ \E t \in Threads : w \in Made(t)

(* A launched campaign shows the recipients its workflows write to, unless *)
(* it was edited while it was paused or cancelled, or overwritten.         *)
ShownIsSent ==
    \A c \in Campaigns :
        row[c] # NoRow /\ row[c].status = "launched"
            /\ marks[c] \cap {"lost", "edited"} = {} =>
            Recipients(row[c].result) = {w[3] : w \in row[c].ids}

(* A claim of the source that the code does not keep: claim_launch says    *)
(* that a fully launched campaign is never claimed again.                  *)
NeverReclaimed ==
    [][\A c \in Campaigns :
          row[c] # NoRow /\ row[c].status # "launching" /\ row[c].ids # {}
              => row'[c].status # "launching"]_vars

=============================================================================
