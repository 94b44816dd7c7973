-------------------------------- MODULE Chat -------------------------------
(***************************************************************************)
(* One conversation of the chat agent: its turns (chat/agent.py), its      *)
(* tools (chat/tools.py) and its file (chat/store.py).                     *)
(*                                                                         *)
(* A turn loads the conversation, lets the model call tools for a bounded  *)
(* number of hops, and saves the whole conversation when it ends, however  *)
(* it ends.  Turns of one conversation may overlap: nothing locks it.  The *)
(* tools share the workspace of their turn's copy.  Of each artifact in it *)
(* the model keeps which company it is about; of a draft, whom it is       *)
(* addressed to and whose material it was written from.  A research or a   *)
(* draft that gave nothing usable is as none on file: every reader asks    *)
(* for status "ok".                                                        *)
(*                                                                         *)
(* Companies are told apart by labels and domains, which the code compares *)
(* loosely: two of them may pass for one, in one of two ways.              *)
(*                                                                         *)
(* The model, the crawler, the writer and the guard are choices: a tool    *)
(* may answer anything its contract allows.  What a claim refused by the   *)
(* quota does to a tool is what a failed research does (module Quota has   *)
(* the claims).                                                            *)
(***************************************************************************)
EXTENDS Integers, FiniteSets

CONSTANTS
    Companies,
    Alike,      (* pairs whose labels contain one another: _labels_match   *)
    Mistaken,   (* <<q, c>>: who asks for q may be given c: _same_company  *)
    Turns,      (* turns that can be in progress at once                   *)
    None,       (* an empty field of the workspace                         *)
    MaxHops,    (* CHAT_MAX_TOOL_HOPS                                      *)
    MaxCalls,   (* bound: tools the model calls in one hop                 *)
    MaxTurns,   (* bound: turns begun                                      *)
    MaxFaults   (* bound: turns whose process dies, saves that fail        *)

ASSUME ChatAssumption ==
    /\ None \notin Companies
    /\ Alike \subseteq SUBSET Companies /\ Mistaken \subseteq Companies \X Companies
    /\ {MaxHops, MaxCalls, MaxTurns, MaxFaults} \subseteq Nat \ {0}

VARIABLES
    conv,    (* the conversation's file: its workspace and the turns in it *)
    turn,    (* what each turn is doing, and its copy of the conversation  *)
    begun,   (* how many turns were begun; a turn's number                 *)
    ended,   (* history: the turns that ended                              *)
    crossed, (* history: turns that overlapped another                     *)
    unsaved, (* history: turns whose save failed                           *)
    faults

vars == <<conv, turn, begun, ended, crossed, unsaved, faults>>

Named == Companies \cup {None}
Letter == [for: Companies, from: SUBSET Companies]
Draft == Letter \cup {None}
Workspace ==
    [company: Named, url: Named, research: Named, cache: SUBSET Companies,
     intel: Named, advice: SUBSET Companies, email: Draft]
Empty == [company |-> None, url |-> None, research |-> None, cache |-> {}, intel |-> None,
          advice |-> {}, email |-> None]

ASSUME NoneAssumption == None \notin Letter

(* _labels_match and _same_company: of two labels one contains the other;  *)
(* the domain asked for is that of the url on file, or else the name asked *)
(* for and the label contain one another or share their first word.        *)
LabelsMatch(p, q) == p = q \/ {p, q} \in Alike
SameCompany(q, ws) == ws.url = q \/ ws.company = q \/ <<q, ws.company>> \in Mistaken

(* A turn: where it is, hops and calls made, its copy, whether it showed a *)
(* draft, and whether the one just put on file had to switch companies.    *)
Idle == [at |-> "idle", hop |-> 0, call |-> 0, ws |-> Empty, has |-> {}, drafted |-> FALSE,
         switched |-> FALSE, num |-> 0]

Init ==
    /\ conv = [ws |-> Empty, has |-> {}]
    /\ turn = [t \in Turns |-> Idle]
    /\ begun = 0 /\ ended = {} /\ crossed = {} /\ unsaved = {} /\ faults = 0

-----------------------------------------------------------------------------
(* The turn: _run_turn                                                     *)

Busy == {t \in Turns : turn[t].at # "idle"}

Start(t) ==
    /\ turn[t].at = "idle" /\ begun < MaxTurns
    /\ begun' = begun + 1
    /\ turn' = [turn EXCEPT ![t] = [Idle EXCEPT !.at = "model", !.ws = conv.ws,
                                     !.has = conv.has \cup {begun'}, !.num = begun']]
    /\ crossed' = IF Busy = {} THEN crossed
                  ELSE crossed \cup {begun'} \cup {turn[o].num : o \in Busy}
    /\ UNCHANGED <<conv, ended, unsaved, faults>>

Silent(r) == [r EXCEPT !.switched = FALSE]
Local == UNCHANGED <<conv, begun, ended, crossed, unsaved, faults>>

(* The model asks for some tools; after the last hop it is not asked.      *)
ModelCalls(t) ==
    /\ turn[t].at = "model" /\ turn[t].hop < MaxHops
    /\ \E n \in 1..MaxCalls :
          turn' = [turn EXCEPT ![t] = [Silent(turn[t]) EXCEPT !.at = "tool", !.call = n,
                                                              !.hop = turn[t].hop + 1]]
    /\ Local

(* The client gives up: a notice, and the turn goes to its finally.  The   *)
(* same when the hops ran out.                                             *)
ModelFails(t) ==
    /\ turn[t].at = "model"
    /\ turn' = [turn EXCEPT ![t] = [Silent(turn[t]) EXCEPT !.at = "finally"]]
    /\ Local

(* An answer in prose.  If it promises a draft and none was shown, the     *)
(* agent writes one itself.                                                *)
ModelAnswers(t) ==
    /\ turn[t].at = "model" /\ turn[t].hop < MaxHops
    /\ \E promise \in BOOLEAN :
          turn' = [turn EXCEPT ![t] = [Silent(turn[t]) EXCEPT !.at =
                      IF promise /\ ~turn[t].drafted THEN "promise" ELSE "finally"]]
    /\ Local

(* The tool's answer goes into the workspace; the next call of the hop, or *)
(* the model again.  A promise is kept by one call.                        *)
After(r) == [r EXCEPT !.at = CASE r.at = "promise" -> "finally"
                               [] r.call > 1 -> "tool"
                               [] OTHER -> "model",
                      !.call = @ - 1]

(* Mutant of Answer: a tool that answers does not use up its call.         *)
AnswerAgain(t, ws) ==
    /\ turn' = [turn EXCEPT ![t] = [@ EXCEPT !.ws = ws, !.switched = FALSE]]
    /\ Local

Answer(t, ws) ==
    /\ turn' = [turn EXCEPT ![t] = After([@ EXCEPT !.ws = ws, !.switched = FALSE])]
    /\ Local

(* A tool that changes nothing on file: it raised, was refused, asked the  *)
(* user, or only read.                                                     *)
ToolSaysNo(t) ==
    /\ turn[t].at \in {"tool", "promise"}
    /\ Answer(t, turn[t].ws)

(* Mutant of End: a turn the model failed returns before it saves.         *)
EndEarly(t) ==
    /\ turn[t].at = "finally"
    /\ conv' = IF turn[t].hop = 0 THEN conv ELSE [ws |-> turn[t].ws, has |-> turn[t].has]
    /\ ended' = ended \cup {turn[t].num}
    /\ turn' = [turn EXCEPT ![t] = Idle]
    /\ UNCHANGED <<begun, crossed, unsaved, faults>>

(* The finally: the turn's whole copy replaces the file.  A save that      *)
(* raises is logged and the turn ends as if it had been saved.             *)
End(t) ==
    /\ turn[t].at = "finally"
    /\ \/ /\ conv' = [ws |-> turn[t].ws, has |-> turn[t].has]
          /\ UNCHANGED <<unsaved, faults>>
       \/ /\ faults < MaxFaults
          /\ faults' = faults + 1
          /\ unsaved' = unsaved \cup {turn[t].num}
          /\ UNCHANGED conv
    /\ ended' = ended \cup {turn[t].num}
    /\ turn' = [turn EXCEPT ![t] = Idle]
    /\ UNCHANGED <<begun, crossed>>

Die(t) ==
    /\ turn[t].at # "idle" /\ faults < MaxFaults
    /\ faults' = faults + 1
    /\ turn' = [turn EXCEPT ![t] = Idle]
    /\ UNCHANGED <<conv, begun, ended, crossed, unsaved>>

-----------------------------------------------------------------------------
(* The tools                                                               *)

Calling(t) == turn[t].at = "tool"

(* resolve_company puts the official site on file, and nothing else.       *)
ResolveCompany(t, q) ==
    /\ Calling(t)
    /\ Answer(t, [turn[t].ws EXCEPT !.url = q])

Current(ws, q) == ws.research # None /\ SameCompany(q, ws)
OnFile(ws, q) == [ws EXCEPT !.research = q, !.company = q, !.url = q]

(* research_company answers from the research on file if the ask is for    *)
(* the same company, else from the thread's cache, else it crawls.         *)
ReuseResearch(t, q) ==
    /\ Calling(t) /\ Current(turn[t].ws, q)
    /\ Answer(t, turn[t].ws)

SwitchBack(t, q) ==
    /\ Calling(t) /\ ~Current(turn[t].ws, q) /\ q \in turn[t].ws.cache
    /\ Answer(t, OnFile(turn[t].ws, q))

Research(t, q) ==
    /\ Calling(t)
    /\ \E ok \in BOOLEAN, refresh \in BOOLEAN :
          /\ refresh \/ (~Current(turn[t].ws, q) /\ q \notin turn[t].ws.cache)
          /\ Answer(t, [OnFile(turn[t].ws, q) EXCEPT
                           !.research = IF ok THEN q ELSE None,
                           !.cache = IF ok THEN @ \cup {q} ELSE @ \ {q}])

(* deep_research(q): intel beside the research, under the label it found.  *)
(* A site puts its url on file, a name leaves the url that is there.       *)
DeepResearch(t, q) ==
    /\ Calling(t)
    /\ \E ok \in BOOLEAN, site \in BOOLEAN :
          Answer(t, IF ok THEN [turn[t].ws EXCEPT !.intel = q, !.company = q,
                                                  !.url = IF site THEN q ELSE @]
                    ELSE [turn[t].ws EXCEPT !.intel = None])

(* _writer_source: the research with the intel laid over it, or the intel, *)
(* or the bare label.                                                      *)
Base(ws) == IF ws.research # None THEN ws.research
            ELSE IF ws.intel # None THEN ws.intel ELSE ws.company
Material(ws) == {Base(ws), ws.intel} \ {None}

(* plan_outreach and qualify_lead judge what is on file.                   *)
Advise(t) ==
    /\ Calling(t)
    /\ Answer(t, [turn[t].ws EXCEPT !.advice = Material(turn[t].ws)])

(* Mutant of Retargeted: the other company's artifacts stay.               *)
RetargetedKeeps(ws, q) == OnFile(ws, q)

(* _retarget_write: a company researched earlier in the thread is put on   *)
(* file and everything tied to the one before it is cleared.               *)
Retargeted(ws, q) == [OnFile(ws, q) EXCEPT !.intel = None, !.advice = {}, !.email = None]

(* Mutant of ForTarget: the draft is held against the url on file.         *)
ForUrl(ws, for) == ws.url = for

(* _target_invariant_error: whom the draft names, and the label on file.   *)
ForTarget(ws, for) == LabelsMatch(for, ws.company)

(* What the modes of write_email put on file: the draft or a revision of   *)
(* the one before, if the user gave guidance, or nothing usable; the first *)
(* of the variations; a follow-up of the one before.                       *)
Written(ws, before) == [for |-> Base(ws), from |-> Material(ws) \cup before]
Before(ws) == IF ws.email # None THEN ws.email.from ELSE {}

DoEmail(ws, switched) ==
    {None, Written(ws, {}), Written(ws, IF switched THEN {} ELSE Before(ws))}
DoVariations(ws) == {Written(ws, {})}
DoFollowup(ws) == IF ws.email # None THEN {Written(ws, Before(ws))} ELSE {}

(* A sequence is shown beside the draft and leaves it as it is.            *)
DoSequence(ws) == {ws.email}

(* What came back goes on file and is shown, unless it is for another      *)
(* company: then no draft is on file.                                      *)
PutDraft(t, ws, switched) ==
    /\ Base(ws) # None
    /\ \E email \in DoEmail(ws, switched) \cup DoVariations(ws) \cup DoFollowup(ws) \cup DoSequence(ws) :
          LET good == ForTarget(ws, Base(ws)) IN
          turn' = [turn EXCEPT ![t] =
                      After([turn[t] EXCEPT
                                !.ws = [ws EXCEPT !.email = IF good THEN email ELSE None],
                                !.switched = switched,
                                !.drafted = turn[t].drafted \/ (good /\ email # None)])]
    /\ Local

(* write_email: for the company on file, or for another one that the       *)
(* thread has usable research of; for any other it refuses (ToolSaysNo).   *)
WriteEmail(t, q) ==
    /\ Calling(t)
    /\ \/ /\ q = None \/ SameCompany(q, turn[t].ws)
          /\ PutDraft(t, turn[t].ws, FALSE)
       \/ /\ q # None /\ ~SameCompany(q, turn[t].ws) /\ q \in turn[t].ws.cache
          /\ PutDraft(t, Retargeted(turn[t].ws, q), TRUE)

(* _fulfil_email_promise: write_email with no company named; without one   *)
(* on file the agent asks instead (ToolSaysNo).                            *)
FulfilPromise(t) ==
    /\ turn[t].at = "promise"
    /\ PutDraft(t, turn[t].ws, FALSE)

(* send_email hands the draft on file to a workflow, if the guard and the  *)
(* mailbox let it; the workspace keeps only that it was sent.              *)
SendEmail(t) ==
    /\ Calling(t) /\ turn[t].ws.email # None
    /\ Answer(t, turn[t].ws)

(* Tools that leave the company on file and its artifacts as they are.     *)
LeavesOnFile(t) == Calling(t) /\ Answer(t, turn[t].ws)

FindProspects(t) == LeavesOnFile(t)
ResearchProspects(t) == LeavesOnFile(t)     (* its slots: module Quota          *)
Subjects(t) == Base(turn[t].ws) # None /\ LeavesOnFile(t)
Critique(t) == LeavesOnFile(t)
Compare(t) == turn[t].ws.email # None /\ LeavesOnFile(t)
DraftChannel(t) == LeavesOnFile(t)
SearchRecentPosts(t) == LeavesOnFile(t)
ReadsAccount(t) == LeavesOnFile(t)
CampaignAction(t) == LeavesOnFile(t)        (* its workflows: module Workflow   *)

Step(t) ==
    \/ ModelCalls(t) \/ ModelFails(t) \/ ModelAnswers(t) \/ ToolSaysNo(t) \/ End(t)
    \/ Advise(t) \/ FulfilPromise(t) \/ SendEmail(t)
    \/ FindProspects(t) \/ ResearchProspects(t) \/ Subjects(t) \/ Critique(t) \/ Compare(t)
    \/ DraftChannel(t) \/ SearchRecentPosts(t) \/ ReadsAccount(t) \/ CampaignAction(t)
    \/ \E q \in Companies :
          \/ ResolveCompany(t, q) \/ ReuseResearch(t, q) \/ SwitchBack(t, q)
          \/ Research(t, q) \/ DeepResearch(t, q)
    \/ \E q \in Named : WriteEmail(t, q)

Next == \E t \in Turns : Start(t) \/ Step(t) \/ Die(t)

(* The model client times out and a tool returns or raises, so a turn that *)
(* can go on goes on.                                                      *)
Fairness == \A t \in Turns : WF_vars(Step(t))

Spec == Init /\ [][Next]_vars
FairSpec == Spec /\ Fairness

-----------------------------------------------------------------------------

TypeOK ==
    /\ conv \in [ws: Workspace, has: SUBSET (1..MaxTurns)]
    /\ \A t \in Turns :
          /\ turn[t].at \in {"idle", "model", "tool", "promise", "finally"}
          /\ turn[t].hop \in 0..MaxHops
          /\ turn[t].ws \in Workspace
          /\ turn[t].at = "tool" => turn[t].call \in 1..MaxCalls
    /\ ended \cup crossed \cup unsaved \subseteq 1..MaxTurns

(* Asked for, researched, drafted and shown agree up to names             *)
(* (_tool_write_email): the company a new draft is addressed to and the    *)
(* one the thread is on have labels that match; and if a company was asked *)
(* for, the draft is addressed to it, or the one on file passed for it: by *)
(* the url, which resolve_company may have set alone, or by its name.      *)
DraftIsForCompany ==
    [][\A t \in Turns :
          LET ws == turn'[t].ws
              new == turn'[t].at # "idle" /\ turn[t].at # "idle"
                     /\ ws.email # turn[t].ws.email /\ ws.email # None
          IN new => /\ LabelsMatch(ws.email.for, ws.company)
                    /\ \A q \in Companies : WriteEmail(t, q) =>
                          q = ws.email.for \/ SameCompany(q, ws)]_vars

(* A draft that switched the thread to another company is written from     *)
(* that company's material alone, and no deep research or advice of the    *)
(* one before is left (its sequence, variations and history are).          *)
SwitchIsClean ==
    \A t \in Turns :
        LET ws == turn[t].ws IN
        turn[t].switched /\ ws.email # None =>
            /\ ws.email.from = {ws.company}
            /\ ws.intel = None /\ ws.advice = {}

(* Whatever way a turn ended, what it showed is in the file from then on,  *)
(* unless its save failed or another turn of the conversation overlapped   *)
(* it: no later turn, failure or death takes it out again.                 *)
EndedIsSaved == ended \ (crossed \cup unsaved) \subseteq conv.has

(* What the finally of _run_turn promises (agent.py:445-447) and a failing *)
(* save or an overlapping turn breaks: whatever a turn produced is         *)
(* persisted, on every path.                                               *)
EverythingIsSaved == ended \subseteq conv.has

(* Every turn ends: the hops are bounded, and no failure of the model or a *)
(* tool leaves it hanging.                                                 *)
TurnEnds == \A t \in Turns : turn[t].at # "idle" ~> turn[t].at = "idle"

(* What the comment in _same_company promises: research asked for one      *)
(* company is never answered with the research of another.                 *)
ResearchAnswersTheAsk ==
    [][\A t \in Turns, q \in Companies :
          ReuseResearch(t, q) => turn[t].ws.research = q]_vars
=============================================================================
