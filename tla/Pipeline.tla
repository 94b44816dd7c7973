------------------------------ MODULE Pipeline ------------------------------
(***************************************************************************)
(* The ways through the research pipeline.  A campaign's preview: a page   *)
(* is discovered (Discovery), the site of one of its companies fetched     *)
(* (Fetch) and the company followed through its research (Research), and   *)
(* the page processed (Writing), where the followed company's research     *)
(* ends as it did and that of the others in any way.  The public demo,     *)
(* which goes the whole way in one stream (DemoRun).  And the lists of a   *)
(* chat (Listing).                                                         *)
(*                                                                         *)
(* The research of a company reads and writes nothing another thread does, *)
(* so its steps need no place among theirs; nor do its fetches, which      *)
(* depend on the crawl only for the pages they are asked for, and so come  *)
(* before it.  A part hands on what the next one reads, and is forgotten.  *)
(***************************************************************************)
EXTENDS Discovery, Fetch, Research, Listing

CONSTANT Followed    (* the company that is followed                       *)

ASSUME PipelineAssumption == Followed \in Domains /\ Prospects = Domains

VARIABLE stage

pvars == <<dvars, fvars, rvars, wvars, mvars, list, stage>>

PInit ==
    /\ DInit /\ FInit /\ RInit /\ WInit /\ MInit /\ LInit
    /\ stage \in {"discovery", "demo", "list"}

Demonstrating ==
    /\ stage = "demo" /\ MNext
    /\ UNCHANGED <<dvars, fvars, rvars, wvars, list, stage>>

ShowingLists ==
    /\ stage = "list" /\ LNext
    /\ UNCHANGED <<dvars, fvars, rvars, wvars, mvars, stage>>

Discovering ==
    /\ stage = "discovery" /\ DNext
    /\ UNCHANGED <<fvars, rvars, wvars, mvars, list, stage>>

(* The page goes to the pipeline.                                          *)
Follow ==
    /\ stage = "discovery" /\ search.at = "shown" /\ Followed \in OnPage
    /\ table' = {} /\ search' = NoSearch /\ shown' = {} /\ asks' = 0 /\ outages' = 0
    /\ stage' = "fetching" /\ UNCHANGED <<fvars, rvars, wvars, mvars, list>>

Fetching ==
    /\ stage = "fetching" /\ FNext
    /\ UNCHANGED <<dvars, rvars, wvars, mvars, list, stage>>

(* The crawl begins: with the homepage if there is one, and only then.     *)
Crawling ==
    /\ stage = "fetching" /\ visit.at = "over"
    /\ \/ /\ visit.home # "none"
          /\ Homepage /\ ("home" \in crawl'.kept <=> visit.home = "taken")
       \/ Unreachable
    /\ visit' = NoVisit /\ UNCHANGED <<fetched, browser, broken>>
    /\ stage' = "research" /\ UNCHANGED <<dvars, wvars, mvars, list>>

Researching ==
    /\ stage = "research" /\ RNext
    /\ UNCHANGED <<dvars, fvars, wvars, mvars, list, stage>>

(* What _process_prospect reads of a profile: whether it is usable, and    *)
(* whether it has an address; _recipient_email is the public one, which    *)
(* may turn out to be no address that can receive mail.                    *)
Preview ==
    /\ stage = "research" /\ crawl.at = "done"
    /\ \E page \in SUBSET Prospects : Followed \in page /\ Start(page)
    /\ crawl' = NoCrawl /\ raw' = NothingRead /\ extra' = {} /\ paid' = Unspent
    /\ report' = IF report.status # "ok" THEN NoReport
                 ELSE [NoReport EXCEPT !.status = "ok",
                          !.email = IF report.email = "none" THEN "none" ELSE "person"]
    /\ stage' = "writing" /\ UNCHANGED <<dvars, fvars, mvars, list>>

Processing ==
    /\ stage = "writing"
    /\ \/ /\ WriteNext /\ UNCHANGED report
       \/ /\ \E route \in IF report.email = "none" THEN {"none", "page"} ELSE {"page", "address"} :
                ResearchDone(Followed, report.status, route)
          /\ report' = NoReport
       \/ /\ \E p \in Prospects \ {Followed}, status \in {"ok", "skip"}, route \in Routes :
                ResearchDone(p, status, route)
          /\ UNCHANGED report
    /\ UNCHANGED <<dvars, fvars, crawl, raw, extra, paid, mvars, list, stage>>

PNext ==
    \/ Discovering \/ Follow \/ Fetching \/ Crawling \/ Researching \/ Preview \/ Processing
    \/ Demonstrating \/ ShowingLists

PSpec == PInit /\ [][PNext]_pvars /\ WFairness /\ MFairness

(* However long a site or a model keeps a thread, the request that waits   *)
(* for it is answered, a preview's and a demo's, and what a preview        *)
(* answered is not changed by the threads that outlive it.                 *)
VisitorsAreAnswered == PreviewEnds /\ AnswerStands /\ StreamEnds

(* What is presented as the best, the demo's opener or the first of a      *)
(* chat's list, is not outdone by what is presented below it, and what was *)
(* not researched is neither first nor recommended.                        *)
NothingOversold == OpenerIsEarned /\ ListIsHonest
=============================================================================
