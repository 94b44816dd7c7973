------------------------------ MODULE Writing -------------------------------
(***************************************************************************)
(* A campaign preview: _process_prospects() of server/campaign_api.py and  *)
(* the agents behind it.  Every prospect of the page is a task of a thread *)
(* pool: researched, qualified, given a strategy, written to, guarded, and *)
(* its follow-ups written.  The request collects what finishes until its   *)
(* deadline and answers with that; a thread that is late runs on.          *)
(*                                                                         *)
(* A draft is what the code looks at: whether it breaks a hard rule, reads *)
(* weak, and how machine-made it sounds.                                   *)
(***************************************************************************)
EXTENDS Integers, Sequences, FiniteSets

CONSTANTS
    Prospects,    (* the discovered companies                              *)
    Workers,      (* CAMPAIGN_PROSPECT_CONCURRENCY                         *)
    MaxRepairs    (* WRITER_MAX_REPAIRS                                    *)

ASSUME WritingAssumption ==
    /\ IsFiniteSet(Prospects) /\ Workers \in Nat \ {0} /\ MaxRepairs \in Nat

VARIABLES
    preview,   (* the request                                              *)
    jobs,      (* the task of each prospect                                *)
    answer     (* results: final_status of each prospect, once collected   *)

wvars == <<preview, jobs, answer>>

(* stacked: the wording or the structure the guard takes for a template.   *)
Voice == {"human", "stiff", "stacked"}
Machine(v) == CASE v = "human" -> 0 [] v = "stiff" -> 1 [] OTHER -> 2
Draft == [hard: BOOLEAN, weak: BOOLEAN, voice: Voice]

NoDraft == [hard |-> TRUE, weak |-> TRUE, voice |-> "stacked"]
Fresh == [at |-> "absent", status |-> "none", route |-> "none", draft |-> NoDraft, round |-> 0,
          slot |-> 0, attempt |-> 1, sent |-> <<>>]

WInit ==
    /\ preview = "idle" /\ jobs = [p \in Prospects |-> Fresh]
    /\ answer = [p \in Prospects |-> "none"]

Running == {"researching", "qualifying", "deciding", "drafting", "refining", "guarding", "following"}
Statuses == {"research_failed", "qualification_blocked", "strategy_hold", "writer_failed",
             "guard_blocked", "sendable", "route_only"}

Becomes(p, job) == jobs' = [jobs EXCEPT ![p] = job]
Finish(p, status) == Becomes(p, [Fresh EXCEPT !.at = "done", !.status = status])

-----------------------------------------------------------------------------
(* A prospect's thread                                                     *)

(* A thread of the pool takes the task.                                    *)
StartJob(p) ==
    /\ preview # "idle" /\ jobs[p].at = "queued"
    /\ Cardinality({q \in Prospects : jobs[q].at \in Running}) < Workers
    /\ Becomes(p, [jobs[p] EXCEPT !.at = "researching"])
    /\ UNCHANGED <<preview, answer>>

(* How the contact may be reached: not at all, by a page or a profile that *)
(* no mail goes to, or at an address that can receive mail.                *)
Routes == {"none", "page", "address"}

(* research_company answers with a status and, if ok, a route.  That the   *)
(* prospect is marked researched nothing here reads.                       *)
ResearchDone(p, status, route) ==
    /\ jobs[p].at = "researching"
    /\ IF status = "ok"
       THEN Becomes(p, [jobs[p] EXCEPT !.at = "qualifying", !.route = route])
       ELSE Finish(p, "research_failed")
    /\ UNCHANGED <<preview, answer>>

(* What qualify looks at: an exclusion, a profile too thin to judge, the   *)
(* signs of buying, and the score of fit, intent, evidence and reach.      *)
Dossier == [disqualified: BOOLEAN, thin: BOOLEAN, intent: BOOLEAN, score: {"poor", "fair", "high"}]
Recommendation(lead) ==
    IF lead.disqualified THEN "reject"
    ELSE IF lead.thin THEN "research_more"
    ELSE IF lead.score = "high" /\ lead.intent THEN "high_priority"
    ELSE IF lead.score # "poor" THEN "continue"
    ELSE "reject"

Qualify(p) ==
    /\ jobs[p].at = "qualifying"
    /\ \E lead \in Dossier :
          IF Recommendation(lead) \in {"continue", "high_priority"}
          THEN Becomes(p, [jobs[p] EXCEPT !.at = "deciding"])
          ELSE Finish(p, "qualification_blocked")
    /\ UNCHANGED <<preview, answer>>

(* What decide looks at of a qualified lead: a hook, whether there are     *)
(* several angles, and the confidence they give.                           *)
Grounds == [hook: BOOLEAN, angles: BOOLEAN, confidence: {"low", "fair", "high"}]
Move(g) ==
    IF ~g.hook THEN "hold"
    ELSE IF g.confidence = "low" THEN "enrich"
    ELSE IF g.confidence = "high" /\ g.angles THEN "sequence"
    ELSE "draft"

Decide(p) ==
    /\ jobs[p].at = "deciding"
    /\ \E g \in Grounds :
          IF Move(g) \in {"draft", "sequence"}
          THEN Becomes(p, [jobs[p] EXCEPT !.at = "drafting"])
          ELSE Finish(p, "strategy_hold")
    /\ UNCHANGED <<preview, answer>>

Regenerate(d, round) == (d.hard \/ d.weak) /\ round < MaxRepairs

(* _generate, repair, validate and review, once; while a hard rule is      *)
(* broken or the draft weak, once more within the repairs.                 *)
Write(p) ==
    /\ jobs[p].at = "drafting"
    /\ \E d \in Draft :
          IF Regenerate(d, jobs[p].round) THEN Becomes(p, [jobs[p] EXCEPT !.round = @ + 1])
          ELSE IF d.hard THEN Finish(p, "writer_failed")
          ELSE Becomes(p, [jobs[p] EXCEPT !.at = "refining", !.draft = d, !.round = 0])
    /\ UNCHANGED <<preview, answer>>

(* The model fails for good, or the profile is too thin to write from, or  *)
(* the qualification was not sure enough for the writer.                   *)
WriteFails(p) ==
    /\ jobs[p].at = "drafting"
    /\ Finish(p, "writer_failed")
    /\ UNCHANGED <<preview, answer>>

(* Mutant of Adopted: the editor's version is taken as it comes.           *)
AdoptedAsIs(draft, refined) == refined
(* The editor's version counts if it breaks no rule and sounds no more     *)
(* machine-made than the draft.                                            *)
Adopted(draft, refined) ==
    IF ~refined.hard /\ Machine(refined.voice) <= Machine(draft.voice) THEN refined ELSE draft

(* _maybe_refine: a draft that sounds machine-made earns the editor's call, *)
(* which may fail.                                                         *)
MaybeRefine(p) ==
    /\ jobs[p].at = "refining"
    /\ \E refined \in IF jobs[p].draft.voice = "human" /\ ~jobs[p].draft.weak
                      THEN {jobs[p].draft} ELSE Draft :
          Becomes(p, [jobs[p] EXCEPT !.at = "guarding",
                        !.draft = [Adopted(jobs[p].draft, refined) EXCEPT !.weak = FALSE]])
    /\ UNCHANGED <<preview, answer>>

(* deliverability.evaluate blocks what reads generated and what has nobody *)
(* to go to; assess blocks that, and whatever else its checks score.       *)
Blocked(draft, route) == draft.voice = "stacked" \/ route = "none"
Decisions(draft, route) ==
    IF Blocked(draft, route) THEN {"BLOCK"} ELSE {"ALLOW", "WARN", "BLOCK"}

Guard(p) ==
    /\ jobs[p].at = "guarding"
    /\ \E decision \in Decisions(jobs[p].draft, jobs[p].route) :
          IF decision = "BLOCK" THEN Finish(p, "guard_blocked")
          ELSE IF jobs[p].route = "address"
          THEN Becomes(p, [jobs[p] EXCEPT !.at = "following", !.slot = 2])
          ELSE Finish(p, "route_only")
    /\ UNCHANGED <<preview, answer>>

(* Mutant of Kept: after the second refusal the touch is kept.             *)
KeptInTheEnd(d, decision, attempt) == (~d.hard /\ decision # "BLOCK") \/ attempt = 2
Kept(d, decision, attempt) == ~d.hard /\ decision # "BLOCK"

(* Two attempts for a slot, then the touch is dropped; the last slot       *)
(* finishes the prospect.                                                  *)
AfterTouch(job, d, kept) ==
    LET sent == IF kept THEN Append(job.sent, [slot |-> job.slot, draft |-> d]) ELSE job.sent
        next == [job EXCEPT !.sent = sent, !.slot = @ + 1, !.attempt = 1]
    IN IF ~kept /\ job.attempt = 1 THEN [job EXCEPT !.attempt = 2]
       ELSE IF job.slot = 2 THEN next
       ELSE [next EXCEPT !.at = "done", !.status = "sendable"]

(* _followup_with_guard for slots 2 and 3.                                 *)
Followup(p) ==
    /\ jobs[p].at = "following"
    /\ \E d \in [hard: BOOLEAN, weak: {FALSE}, voice: {"human", "stacked"}] :
       \E decision \in Decisions(d, jobs[p].route) :
          Becomes(p, AfterTouch(jobs[p], d, Kept(d, decision, jobs[p].attempt)))
    /\ UNCHANGED <<preview, answer>>

(* _process_prospect_safely: an exception anywhere fails one prospect.     *)
Crashes(p) ==
    /\ jobs[p].at \in Running
    /\ Finish(p, "research_failed")
    /\ UNCHANGED <<preview, answer>>

-----------------------------------------------------------------------------
(* The request                                                             *)

Start(page) ==
    /\ preview = "idle" /\ preview' = "running"
    /\ jobs' = [p \in Prospects |-> IF p \in page THEN [Fresh EXCEPT !.at = "queued"] ELSE Fresh]
    /\ UNCHANGED answer

Awaited(p) == preview = "running" /\ answer[p] = "none"

Collect(p) ==
    /\ jobs[p].at = "done" /\ Awaited(p)
    /\ answer' = [answer EXCEPT ![p] = jobs[p].status]
    /\ UNCHANGED <<preview, jobs>>

Uncollected == {p \in Prospects : jobs[p].at # "absent" /\ answer[p] = "none"}

(* Mutant of OutOfTime: the pool is shut down waiting for its threads.     *)
WaitsForThreads == preview = "running" /\ \A p \in Prospects : jobs[p].at \notin Running
(* The wait ends with the last task, or with the deadline.                 *)
OutOfTime == preview = "running"

(* What is pending is cancelled if it was queued, and written off.         *)
Deadline ==
    /\ OutOfTime /\ Uncollected # {}
    /\ answer' = [p \in Prospects |-> IF p \in Uncollected THEN "timed_out" ELSE answer[p]]
    /\ jobs' = [p \in Prospects |-> IF jobs[p].at = "queued" THEN [jobs[p] EXCEPT !.at = "cancelled"]
                                    ELSE jobs[p]]
    /\ preview' = "answered"

Answer ==
    /\ preview = "running" /\ Uncollected = {}
    /\ preview' = "answered" /\ UNCHANGED <<jobs, answer>>

WriteNext ==
    \/ Deadline \/ Answer
    \/ \E p \in Prospects :
          \/ StartJob(p) \/ Qualify(p) \/ Decide(p) \/ Write(p) \/ WriteFails(p) \/ MaybeRefine(p)
          \/ Guard(p) \/ Followup(p) \/ Crashes(p) \/ Collect(p)

(* Time passes, and a task that is done is seen; a thread may hang.        *)
WFairness == WF_wvars(Deadline) /\ WF_wvars(Answer) /\ \A p \in Prospects : WF_wvars(Collect(p))

WTypeOK ==
    /\ preview \in {"idle", "running", "answered"}
    /\ \A p \in Prospects :
          /\ jobs[p].at \in Running \cup {"absent", "queued", "done", "cancelled"}
          /\ jobs[p].status \in Statuses \cup {"none"} /\ jobs[p].route \in Routes
          /\ jobs[p].draft \in Draft
          /\ jobs[p].round \in 0..MaxRepairs
    /\ answer \in [Prospects -> Statuses \cup {"none", "timed_out"}]

-----------------------------------------------------------------------------

(* What is offered for sending, the e-mail after the editor's pass and     *)
(* every follow-up kept, breaks no hard rule and is no template, and there *)
(* is an address to send it to.                                            *)
SendableIsClean ==
    \A p \in Prospects : answer[p] = "sendable" =>
        /\ jobs[p].route = "address"
        /\ ~jobs[p].draft.hard /\ jobs[p].draft.voice # "stacked"
        /\ \A i \in DOMAIN jobs[p].sent :
              ~jobs[p].sent[i].draft.hard /\ jobs[p].sent[i].draft.voice # "stacked"

(* A thread that outlives the deadline changes nothing in what the request *)
(* answered.                                                               *)
AnswerStands == [][preview = "answered" => UNCHANGED answer]_wvars

(* However long a site or a model keeps a thread, the request answers.     *)
PreviewEnds == preview = "running" ~> preview = "answered"
=============================================================================
