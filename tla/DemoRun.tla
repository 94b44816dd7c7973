------------------------------ MODULE DemoRun -------------------------------
(***************************************************************************)
(* One run of the public demo: run_demo() of demo/runner.py, a stream of   *)
(* events about the visitor's ask.  Companies are found, researched and    *)
(* qualified on a pool of threads until the deadline, shown as they land,  *)
(* ranked, and an opener is written for the best of them, if it is worth   *)
(* pursuing and the guard lets it pass.                                    *)
(*                                                                         *)
(* The stream waits for its threads and is driven by its reader; a thread  *)
(* waits for nobody.                                                       *)
(***************************************************************************)
EXTENDS Writing

VARIABLES
    stream,   (* where the run is, and how it ended                        *)
    seat,     (* the future of each company of the page                    *)
    card,     (* what the visitor was shown of it: its score, or why not   *)
    tally     (* timed_out and unreadable, as the run counts them          *)

mvars == <<stream, seat, card, tally>>

NoStream == [at |-> "idle", end |-> "none", page |-> {}, top |-> {}, tries |-> 0]
(* A card: the score, and the recommendation or why there is none.         *)
NoCard == [score |-> 0, rec |-> "none"]
NoTally == [late |-> 0, unread |-> 0]

MInit ==
    /\ stream = NoStream /\ tally = NoTally
    /\ seat = [p \in Prospects |-> [at |-> "absent", found |-> NoCard]]
    /\ card = [p \in Prospects |-> NoCard]

(* qualification_score of 100, and the recommendation.                     *)
Points == [poor |-> 20, fair |-> 55, high |-> 80]
Verdict(lead) == [score |-> Points[lead.score], rec |-> Recommendation(lead)]
Without(why) == [score |-> 0, rec |-> why]
Pursued == {"continue", "high_priority"}
Shown(rec) == {p \in stream.page : card[p].rec = rec}
Scored == stream.page \ (Shown("none") \cup Shown("late") \cup Shown("unread"))

Ends(how) == stream' = [stream EXCEPT !.at = "ended", !.end = how]

-----------------------------------------------------------------------------

(* The ask, or what the visitor's own site says of its customers: there    *)
(* may be nothing to search for.                                           *)
InferIcp ==
    /\ stream.at = "idle"
    /\ \/ stream' = [stream EXCEPT !.at = "discovering"]
       \/ Ends("empty")
    /\ UNCHANGED <<seat, card, tally>>

(* Discovery fails, finds nothing, or gives a page; its companies go to    *)
(* the pool.                                                               *)
FindCandidates ==
    /\ stream.at = "discovering"
    /\ \/ \E how \in {"error", "empty"} : Ends(how) /\ UNCHANGED seat
       \/ \E found \in SUBSET Prospects \ {{}} :
             /\ stream' = [stream EXCEPT !.at = "scoring", !.page = found]
             /\ seat' = [p \in Prospects |-> IF p \in found THEN [seat[p] EXCEPT !.at = "queued"]
                                             ELSE seat[p]]
    /\ UNCHANGED <<card, tally>>

(* A thread of the pool takes a company, whatever the stream is at.        *)
TakeSeat(p) ==
    /\ seat[p].at = "queued"
    /\ Cardinality({q \in Prospects : seat[q].at = "running"}) < Workers
    /\ seat' = [seat EXCEPT ![p] = [seat[p] EXCEPT !.at = "running"]]
    /\ UNCHANGED <<stream, card, tally>>

(* It is researched and qualified, or an exception ends that.              *)
Landed(p) ==
    /\ seat[p].at = "running"
    /\ \E found \in {Verdict(lead) : lead \in Dossier} \cup {Without("unread")} :
          seat' = [seat EXCEPT ![p] = [at |-> "done", found |-> found]]
    /\ UNCHANGED <<stream, card, tally>>

(* concurrent.futures.wait returns it: a card, or one more unreadable.     *)
ShowCard(p) ==
    /\ stream.at = "scoring" /\ seat[p].at = "done" /\ card[p] = NoCard
    /\ card' = [card EXCEPT ![p] = seat[p].found]
    /\ tally' = IF seat[p].found.rec = "unread" THEN [tally EXCEPT !.unread = @ + 1] ELSE tally
    /\ UNCHANGED <<stream, seat>>

(* Mutant of Pending: every future of the run.                             *)
EveryFuture == stream.page
Pending == Shown("none")

(* Mutant of TimeIsUp: the pool is left through its context manager.       *)
WaitsForPool == stream.at = "scoring" /\ \A p \in Prospects : seat[p].at # "running"
TimeIsUp == stream.at = "scoring"

Shutdown == [p \in Prospects |-> IF seat[p].at = "queued" THEN [seat[p] EXCEPT !.at = "cancelled"]
                                 ELSE seat[p]]

(* The deadline: what is pending is shown as timed out, queued futures are *)
(* cancelled, running threads abandoned.                                   *)
TimesOut ==
    /\ TimeIsUp /\ Pending # {}
    /\ card' = [p \in Prospects |-> IF p \in Pending THEN Without("late") ELSE card[p]]
    /\ tally' = [tally EXCEPT !.late = @ + Cardinality(Pending)]
    /\ seat' = Shutdown
    /\ stream' = [stream EXCEPT !.at = "ranking"]

EveryoneLanded ==
    /\ stream.at = "scoring" /\ Shown("none") = {}
    /\ stream' = [stream EXCEPT !.at = "ranking"]
    /\ UNCHANGED <<seat, card, tally>>

(* _rank_key: by score, then by recommendation.                            *)
Key(c) == 10 * c.score + (IF c.rec = "high_priority" THEN 2 ELSE IF c.rec = "continue" THEN 1 ELSE 0)

(* Mutant of Best: in the order they landed.                               *)
FirstLanded(p) == TRUE
Best(p) == \A q \in Scored : Key(card[p]) >= Key(card[q])

(* The best fit: without one the run says why, and without one that may be *)
(* pursued it says that and writes nothing.                                *)
RankAll ==
    /\ stream.at = "ranking"
    /\ IF Scored = {} THEN Ends("empty")
       ELSE \E p \in Scored :
               /\ Best(p)
               /\ stream' = IF card[p].rec \in Pursued
                            THEN [stream EXCEPT !.at = "writing", !.top = {p}]
                            ELSE [stream EXCEPT !.at = "ended", !.end = "no_pursue", !.top = {p}]
    /\ UNCHANGED <<seat, card, tally>>

(* The writer, asked once more if it did not finish; the guard blocks, or  *)
(* does not, or fails, which blocks nothing.                               *)
WriteOpener ==
    /\ stream.at = "writing"
    /\ \/ \E d \in {d \in Draft : ~d.hard} : \E decision \in Decisions(d, "page") \cup {"failed"} :
             Ends(IF decision = "BLOCK" THEN "draft_skip" ELSE "draft")
       \/ stream.tries = 0 /\ stream' = [stream EXCEPT !.tries = 1]
       \/ stream.tries = 1 /\ Ends("draft_skip")
    /\ UNCHANGED <<seat, card, tally>>

MNext ==
    \/ InferIcp \/ FindCandidates \/ TimesOut \/ EveryoneLanded \/ RankAll \/ WriteOpener
    \/ \E p \in Prospects : TakeSeat(p) \/ Landed(p) \/ ShowCard(p)
(* The generator is resumed by its reader, a model call returns or times   *)
(* out, and time passes; a thread of the pool may hang.                    *)
MFairness == WF_mvars(TimesOut) /\ WF_mvars(EveryoneLanded) /\ WF_mvars(RankAll) /\ WF_mvars(WriteOpener)

-----------------------------------------------------------------------------

(* An opener is shown for a company that may be pursued and that no other  *)
(* that was scored outscores; and by then each company of the page was     *)
(* settled once: scored, unreadable or out of time, as the run counts them. *)
OpenerIsEarned ==
    /\ stream.end = "draft" =>
          \E top \in Scored :
             /\ stream.top = {top} /\ card[top].rec \in Pursued
             /\ \A p \in Scored : card[p].score <= card[top].score
    /\ stream.at \in {"ranking", "writing", "ended"} =>
          /\ tally.late = Cardinality(Shown("late"))
          /\ tally.unread = Cardinality(Shown("unread"))
          /\ tally.late + tally.unread + Cardinality(Scored) = Cardinality(stream.page)

(* A thread that hangs does not keep the stream open.                      *)
StreamEnds == stream.at = "scoring" ~> stream.at = "ended"

(* "None of these cleared Saqua's pursue bar."                             *)
NoneCleared == stream.end = "no_pursue" => \A p \in Scored : card[p].rec \notin Pursued
=============================================================================
