----------------------------- MODULE SendGuard ------------------------------
(***************************************************************************)
(* Sending from a conversation: send_email of chat/tools.py, and the guard *)
(* it asks (guard/).  The guard adds up what speaks against an e-mail, in  *)
(* the thread's draft and in what the user's workflows tell of earlier     *)
(* ones; a mail it clears becomes a workflow of one step.                  *)
(*                                                                         *)
(* Other mails of the user come from campaigns (module Workflow has their  *)
(* steps), and replies come to any of them.  A text is the points its      *)
(* wording costs, whether that alone blocks it, and the template it reads  *)
(* like; two texts of one template are nearly identical.                   *)
(***************************************************************************)
EXTENDS Integers, Sequences, FiniteSets

CONSTANTS
    Addresses,       (* as they are written                                *)
    Owner,           (* the recipient _norm reads in each                  *)
    Unaddressed,     (* a draft without an address                         *)
    Templates,
    CopyPoints,      (* what the wording of a text may cost                *)
    Shares,          (* percent of a budget that may be spent              *)
    RateFloor,       (* _MIN_SENDS_FOR_RATES                               *)
    MaxPriors,       (* _MAX_PRIOR_BODIES                                  *)
    MaxMails         (* bound: workflows of the user                       *)

ASSUME SendGuardAssumption ==
    /\ DOMAIN Owner = Addresses /\ Unaddressed \notin Addresses
    /\ \A a \in Addresses : Owner[a] # Unaddressed
    /\ CopyPoints \subseteq 0..100 /\ Shares \subseteq Nat /\ Shares # {}
    /\ {RateFloor, MaxPriors, MaxMails} \subseteq Nat \ {0}

VARIABLES
    mails,     (* the user's workflows, the one updated last at the end    *)
    desk,      (* a send_email between the guard and the provider          *)
    answered   (* history: who replied, and whether a workflow took it     *)

guardVars == <<mails, desk, answered>>

Prospective == {Owner[a] : a \in Addresses}

(* Mutant of Norm: addresses are compared as they are written.             *)
AsWritten(to) == to
Norm(to) == IF to = Unaddressed THEN to ELSE Owner[to]

(* stopped by a reply, which nothing else does.                            *)
MailStates == {"queued", "waiting", "completed", "stopped", "failed"}
Mail == [to: Addresses, body: Templates, state: MailStates, sent: 0..2, bounced: BOOLEAN]
NoDesk == [at |-> "idle", to |-> Unaddressed, body |-> "none", knew |-> FALSE, reply |-> "none"]

GuardInit ==
    /\ mails = <<>> /\ desk = NoDesk
    /\ answered = [r \in Prospective |-> "none"]

-----------------------------------------------------------------------------
(* What the guard is told                                                  *)

(* _guard_input_from_workspace: a finished draft, whether its text alone   *)
(* blocks it, no company is on file or the lead was judged not to be sent  *)
(* to; and the thread's sequence, if there is one: the delays between its  *)
(* e-mails, the first one's included, and their texts.                     *)
Recipients == Addresses \cup {Unaddressed}
Workspaces(to, body) ==
    {w \in [to: {to}, body: {body}, points: CopyPoints,
            flaw: {"none", "stacked", "anonymous", "held"},
            gap: {"none", "instant", "tight", "spaced"}, priors: {{}} \cup {{b} : b \in Templates}] :
        w.gap = "none" <=> w.priors = {}}
Unread == [replied |-> FALSE, bounced |-> FALSE, sent |-> 0, replies |-> 0, bounces |-> 0]

SentMails == {i \in DOMAIN mails : mails[i].sent > 0}
Count(which(_)) == Cardinality({i \in DOMAIN mails : which(mails[i])})

(* What was sent to this recipient, else to anyone: the workflows come     *)
(* newest first, and are turned round before they are cut.                 *)
PriorBodies(to) ==
    LET scoped == {i \in SentMails : to = Unaddressed \/ Norm(mails[i].to) = Norm(to)}
        pool == IF scoped = {} THEN SentMails ELSE scoped
        oldest == {i \in pool : Cardinality({j \in pool : j < i}) < MaxPriors}
    IN {mails[i].body : i \in oldest}

(* build_context: the recipient's replies and bounces, the mailbox's rates *)
(* once there are enough sends, and earlier texts after the sequence's.    *)
History(to) ==
    LET known == {i \in DOMAIN mails : to # Unaddressed /\ Norm(mails[i].to) = Norm(to)}
        sent == Count(LAMBDA m : m.sent > 0) + Count(LAMBDA m : m.sent = 2)
    IN [replied |-> \E i \in known : mails[i].state = "stopped",
        bounced |-> \E i \in known : mails[i].bounced,
        sent |-> IF sent >= RateFloor THEN sent ELSE 0,
        replies |-> Count(LAMBDA m : m.state = "stopped"),
        bounces |-> Count(LAMBDA m : m.bounced)]
WithLive(w) == [w EXCEPT !.priors = @ \cup PriorBodies(w.to)]

(* live_cost_context: spend of the day and of the month, as shares of      *)
(* their budgets; 0 as well when there is none, or telemetry fails.        *)
Spending == [day: Shares, month: Shares]
Unmetered == [day |-> 0, month |-> 0]

-----------------------------------------------------------------------------
(* What it finds                                                           *)

(* cost.evaluate: the ladder of a budget.                                  *)
Ladder(share) == CASE share >= 95 -> 30 [] share >= 80 -> 18 [] share >= 50 -> 8 [] OTHER -> 0
CostBlocks(used) == used.day >= 100 \/ used.month >= 100
CostPoints(used) == Ladder(used.day) + Ladder(used.month)
CostWarns(used) == used.day >= 80 \/ used.month >= 80

(* The send state, the lead, an e-mail that is not complete; spam, tired   *)
(* phrases, banned wording, structure, format, length, a pitch that does   *)
(* not name the company.                                                   *)
SendState(h) == h.replied \/ h.bounced
PipelineBlocks(w) == w.flaw = "held"
Incomplete(w) == w.to = Unaddressed \/ w.flaw = "anonymous"
CopyBlocks(w) == w.flaw = "stacked"

Repetition(w) == IF w.body \in w.priors THEN 20 ELSE 0
ZeroSpacing(w) == w.gap = "instant"
TightSpacing(w) == IF w.gap = "tight" THEN 8 ELSE 0

BounceBlocks(h) == h.sent > 0 /\ 100 * h.bounces >= 8 * h.sent
Reputation(h, busy) ==
    (IF h.sent > 0 /\ 100 * h.bounces >= 3 * h.sent THEN 16 ELSE 0)
    + (IF h.sent > 0 /\ 100 * h.replies < h.sent /\ busy THEN 10 ELSE 0)

DeliverabilityBlocks(w, h) ==
    \/ SendState(h) \/ PipelineBlocks(w) \/ Incomplete(w) \/ CopyBlocks(w)
    \/ ZeroSpacing(w) \/ BounceBlocks(h)
DeliverabilityPoints(w, h, busy) ==
    w.points + Repetition(w) + TightSpacing(w) + Reputation(h, busy)

Clamp(n) == IF n > 100 THEN 100 ELSE n
(* A number of quarters, rounded half to even.                             *)
Round(q) == IF q % 4 > 2 \/ (q % 4 = 2 /\ (q \div 4) % 2 = 1) THEN q \div 4 + 1 ELSE q \div 4
Compound(a, b) == Clamp(Round(IF a > b THEN 4 * a + b ELSE 4 * b + a))

(* assess: a block in either section blocks; else the sections compound.   *)
Assess(w, h, used, busy) ==
    LET cost == Clamp(CostPoints(used))
        deliverability == Clamp(DeliverabilityPoints(w, h, busy))
        overall == Compound(cost, deliverability)
    IN IF DeliverabilityBlocks(w, h) \/ CostBlocks(used) \/ overall >= 80 THEN "BLOCK"
       ELSE IF overall >= 40 \/ CostWarns(used) \/ cost >= 25 \/ deliverability >= 25 THEN "WARN"
       ELSE "ALLOW"

(* _guard_input: the thread alone when the live data cannot be read.       *)
Alone(w) == Assess(w, Unread, Unmetered, FALSE)
Informed(w) ==
    LET h == History(w.to) live == WithLive(w)
    IN {decision \in {"BLOCK", "WARN", "ALLOW"} :
           \E used \in Spending, busy \in BOOLEAN : decision = Assess(live, h, used, busy)}

(* A draft to this address, from this template, may get past it.           *)
MayPass(to, body, live) ==
    \E w \in Workspaces(to, body) : (IF live THEN Informed(w) ELSE {Alone(w)}) # {"BLOCK"}

-----------------------------------------------------------------------------
(* A send                                                                  *)

(* send_email: to whom the user names, else to whom the draft does; the    *)
(* guard is asked about the draft, and a mail it blocks is not sent.       *)
SendEmail(to) ==
    /\ desk.at = "idle" /\ Len(mails) < MaxMails
    /\ \E asked \in Recipients, body \in Templates, live \in BOOLEAN :
          /\ MayPass(asked, body, live) = TRUE
          /\ desk' = [at |-> "cleared", to |-> to, body |-> body,
                      knew |-> live /\ Norm(asked) = Norm(to), reply |-> answered[Owner[to]]]
    /\ UNCHANGED <<mails, answered>>

New(to, body, state, sent, bounced) ==
    [to |-> to, body |-> body, state |-> state, sent |-> sent, bounced |-> bounced]

(* The mailbox is not connected; or a workflow of one step is made and     *)
(* advanced: it is sent, it waits to be tried again (and the user is told  *)
(* that it was not sent), or it failed for good, perhaps by a bounce.      *)
Dispatch ==
    /\ desk.at = "cleared"
    /\ mails' \in {mails} \cup
          {Append(mails, m) : m \in
             {New(desk.to, desk.body, "completed", 1, FALSE), New(desk.to, desk.body, "queued", 0, FALSE)}
             \cup {New(desk.to, desk.body, "failed", 0, bounced) : bounced \in BOOLEAN}}
    /\ desk' = NoDesk /\ UNCHANGED answered

-----------------------------------------------------------------------------
(* The user's other mails, and what comes back                             *)

(* A campaign sends the first of two e-mails.                              *)
CampaignSends(to) ==
    /\ Len(mails) < MaxMails
    /\ \E b \in Templates : mails' = Append(mails, New(to, b, "waiting", 1, FALSE))
    /\ UNCHANGED <<desk, answered>>

Updated(i, m) == SubSeq(mails, 1, i - 1) \o SubSeq(mails, i + 1, Len(mails)) \o <<m>>

(* The worker sends what waits, and completes the workflow, or gives up.   *)
WorkerSends(i) ==
    /\ mails[i].state \in {"queued", "waiting"}
    /\ \/ mails' = Updated(i, [mails[i] EXCEPT !.state = "completed", !.sent = @ + 1])
       \/ \E bounced \in BOOLEAN :
             mails' = Updated(i, [mails[i] EXCEPT !.state = "failed", !.bounced = bounced])
    /\ UNCHANGED <<desk, answered>>

(* ingest_reply: a reply stops a workflow that is not done; of one that is *)
(* done, as a mail of one step is once it was sent, nothing is recorded.   *)
ReplyArrives(i) ==
    /\ mails[i].sent > 0 /\ mails[i].state # "stopped"
    /\ LET open == mails[i].state # "completed"
           who == Owner[mails[i].to]
       IN /\ mails' = IF open THEN Updated(i, [mails[i] EXCEPT !.state = "stopped"]) ELSE mails
          /\ answered' = [answered EXCEPT ![who] = IF open \/ @ = "recorded" THEN "recorded"
                                                  ELSE "unrecorded"]
    /\ UNCHANGED desk

GuardNext ==
    \/ Dispatch
    \/ \E to \in Addresses : CampaignSends(to) \/ SendEmail(to)
    \/ \E i \in DOMAIN mails : WorkerSends(i) \/ ReplyArrives(i)

GuardSpec == GuardInit /\ [][GuardNext]_guardVars

-----------------------------------------------------------------------------

(* Once a reply was recorded, whatever workflow took it and however the    *)
(* address is written, no conversation gets another mail to its sender     *)
(* past a guard that was well asked.                                       *)
RecordedRepliesHold == desk.at = "cleared" /\ desk.reply = "recorded" => ~desk.knew

(* What the history adds never softens the verdict on a draft alone.       *)
Severity(decision) == CASE decision = "ALLOW" -> 0 [] decision = "WARN" -> 1 [] OTHER -> 2
HistoryOnlyAdds ==
    mails # <<>> => \A to \in Recipients, body \in Templates :
        \A w \in Workspaces(to, body) : Alone(w) # "BLOCK" =>
            \A decision \in Informed(w) : Severity(decision) >= Severity(Alone(w))

GuardHolds == RecordedRepliesHold /\ HistoryOnlyAdds

(* guard/context.py: a reply counts "even for single-step sends whose      *)
(* reply arrived post-complete", so its sender is never contacted again.   *)
RepliersLeftAlone == desk.at = "cleared" /\ desk.reply # "none" => ~desk.knew
=============================================================================
