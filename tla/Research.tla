------------------------------ MODULE Research ------------------------------
(***************************************************************************)
(* Research of one company: research_company() of research/pipeline.py,    *)
(* the verifier that grounds what the model extracts, the evidence ledger  *)
(* of gaps.py, the paid loop of evidence_loop.py, and the planner of       *)
(* supplemental sources that runs on the finished profile.                 *)
(*                                                                         *)
(* A page is its role on the site, a fact the node of the graph it fills.  *)
(* What an extraction finds on a page, and what a provider answers, is a   *)
(* choice; what is kept, how far the crawl goes and what is paid for is    *)
(* what the code decides.                                                  *)
(***************************************************************************)
EXTENDS Integers, Sequences, FiniteSets, FiniteSetsExt, Functions

CONSTANTS
    Linked,         (* pages the homepage or the sitemap links             *)
    Unlinked,       (* pages the site has and links nowhere                *)
    People,         (* pages that name people (is_person_source_page)      *)
    Stories,        (* pages about a customer (is_customer_story)          *)
    Readings,       (* for each page, the sets of facts it may be read as  *)
    Setups,         (* sets of configured providers                        *)
    PageBudget,     (* _page_budget: pages read, the homepage included     *)
    BatchSize,      (* PAGE_BATCH_SIZE                                     *)
    MaxActions,     (* EVIDENCE_MAX_ACTIONS                                *)
    MaxPerProvider  (* EVIDENCE_MAX_PER_PROVIDER                           *)

ASSUME ResearchAssumption ==
    /\ Linked \cap Unlinked = {} /\ IsFiniteSet(Linked)
    /\ {PageBudget, BatchSize, MaxActions, MaxPerProvider} \subseteq Nat \ {0}

VARIABLES
    crawl,   (* the crawl loop: where it is, pages left and kept, stall    *)
    raw,     (* raw_accum: the facts extracted, by the page they cite      *)
    extra,   (* slots a search provider filled in the graph                *)
    paid,    (* the evidence loop's budget, and the gaps a search closed   *)
    report   (* the profile handed on                                      *)

rvars == <<crawl, raw, extra, paid, report>>

(* gaps.SLOTS in the order of their weight, in hundredths.                 *)
Order == <<"what_they_do", "founder", "target_customer", "recent_signal", "positioning",
           "pricing", "customers", "product_depth", "funding", "hiring">>
Slots == {Order[i] : i \in 1..10}
Rank == [s \in Slots |-> CHOOSE i \in 1..10 : Order[i] = s]
Weight == [s \in Slots |-> <<18, 14, 12, 12, 10, 8, 8, 6, 6, 6>>[Rank[s]]]
Target == 72

(* What an extraction can fill; hiring is known to discovery alone.  An    *)
(* adviser is a person whose role names a customer; a conflict is a value  *)
(* that contradicts another of a singular field.  A hook may quote a price *)
(* or a figure that no field has.                                          *)
Facts == (Slots \ {"hiring"}) \cup {"business_model", "adviser", "conflict"}
Quotes == {"price_quote", "figure_quote"}

(* page_hints; the first of them is where a paid scrape is aimed.          *)
FirstHint == [s \in Slots |-> <<"about", "about", "customers", "blog", "product",
                                "pricing", "customers", "docs", "investors", "careers">>[Rank[s]]]
Hints == [s \in Slots |->
            {FirstHint[s]} \cup IF s \in {"what_they_do", "target_customer"} THEN {"product"} ELSE {}]

(* Pages read: the site's, the public web's, and a search's own results.   *)
Sites == Linked \cup Unlinked \cup {"home", "press", "elsewhere"}
NothingRead == [p \in Sites |-> {}]
Providers == {"firecrawl", "tavily", "x"}

Unspent == [spent |-> [k \in Providers |-> 0], calls |-> {}, barren |-> {},
            refusing |-> {}, closed |-> {}, avail |-> {}]
NoCrawl == [at |-> "idle", left |-> {}, kept |-> {}, stall |-> 0, founder |-> FALSE, why |-> "none"]
NoReport == [status |-> "none", known |-> {}, recent |-> FALSE, email |-> "none", send |-> "none"]

RInit ==
    /\ crawl = NoCrawl /\ raw = NothingRead /\ extra = {} /\ paid = Unspent /\ report = NoReport

-----------------------------------------------------------------------------
(* What is known (verifier.py, gaps.py)                                    *)

(* What a page may say of the company: a customer's story, whose it is,    *)
(* what that customer runs, and what set the company apart.                *)
StorySafe == {"customers", "product_depth", "positioning"}
Safe(p) == IF p \in Stories THEN StorySafe ELSE Facts

(* backfill_facts_from_hooks: a quote fills its field, from any page that  *)
(* was kept, a customer's story too.                                       *)
Backfill == [f \in {"pricing", "recent_signal"} |->
                IF f = "pricing" THEN "price_quote" ELSE "figure_quote"]
Quoted(read, p, f) == f \in DOMAIN Backfill /\ Backfill[f] \in read[p]
Tells(read, p, f) == (f \in read[p] /\ f \in Safe(p)) \/ Quoted(read, p, f)

(* _score_from_raw: a fact counts if a page that was kept tells it.        *)
Ground(read, kept) == {f \in Facts : \E p \in kept : Tells(read, p, f)}

(* A slot's satisfied(); a person whose role names a known customer is not *)
(* the company's own.                                                      *)
Has(known, s) ==
    CASE s = "pricing" -> known \cap {"pricing", "business_model"} # {}
      [] s = "founder" -> "founder" \in known \/ ("adviser" \in known /\ "customers" \notin known)
      [] OTHER -> s \in known

Missing(known) == {s \in Slots : ~Has(known, s)}
Confidence(known) ==
    LET sum == SumFunctionOnSet(Weight, Slots \ Missing(known))
    IN IF "conflict" \in known /\ sum > 0 THEN sum - 5 ELSE sum
Confident(known) == Confidence(known) >= Target

(* _goals: three goals, none of which satisfies another.                   *)
Understood(known) ==
    {"what_they_do", "target_customer", "positioning", "business_model"} \subseteq known
Recent(known) == known \cap {"recent_signal", "customers"} # {}
PersonFound(known) == Has(known, "founder")

Known == Ground(raw, crawl.kept) \cup extra

-----------------------------------------------------------------------------
(* The crawl (pipeline.py)                                                 *)

Room(c) == PageBudget - Cardinality(c.kept)
PersonSourcesLeft(c) == Room(c) > 0 /\ c.left \cap People # {}
(* Mutant of StopDecision: a company understood is enough.                 *)
StopWhenUnderstood(c, known) == Understood(known) /\ Recent(known)
(* _stop_decision: the goals are met, or only a person is missing and no   *)
(* page is left that names one.                                            *)
StopDecision(c, known) ==
    Understood(known) /\ Recent(known) /\ (PersonFound(known) \/ ~PersonSourcesLeft(c))
PersonHunt(known) == Understood(known) /\ Recent(known) /\ ~PersonFound(known)

(* _gap_ordered: pages that serve a missing slot come first.               *)
Serving(pages, known) == {p \in pages : \E s \in Missing(known) : p \in Hints[s]}
Batches(c, known) ==
    LET hunt == PersonHunt(known)
        pool == IF hunt THEN c.left \cap People ELSE c.left
        first == IF hunt THEN pool ELSE Serving(pool, known)
    IN {b \in SUBSET pool :
          /\ Cardinality(b) = Min({BatchSize, Room(c), Cardinality(pool)})
          /\ b \subseteq first \/ first \subseteq b}

(* Mutant of Stalled: a score that stands still ends a hunt for a person.  *)
StalledAlways(known, flat) == flat
Stalled(known, flat) == ~PersonHunt(known) /\ flat
(* The next page in the pool is aimed at a gap, and the picture is thin.   *)
WorthContinuing(c, known) == ~Confident(known) /\ Serving(c.left, known) # {}

(* Mutant of Merged: what a page says now replaces what it said before.    *)
MergedOver(read, found) == [p \in Sites |-> IF p \in DOMAIN found THEN found[p] ELSE read[p]]

Extractions(pages) ==
    {found \in [pages -> UNION {Readings[p] : p \in pages}] : \A p \in pages : found[p] \in Readings[p]}
Merged(read, found) == [p \in Sites |-> read[p] \cup (IF p \in DOMAIN found THEN found[p] ELSE {})]

(* The homepage is fetched through the whole chain and read.  If it cannot *)
(* be, public sources are read instead, and the profile is final at once.  *)
Homepage ==
    /\ crawl.at = "idle"
    /\ \E founder \in BOOLEAN, avail \in Setups, page \in {"home", "press"} : \E r \in Readings[page] :
          LET read == [NothingRead EXCEPT ![page] = r]
              start == [NoCrawl EXCEPT !.kept = {page}, !.founder = founder, !.left = Linked]
              stop == StopDecision(start, Ground(read, {page}))
          IN /\ raw' = read /\ paid' = [Unspent EXCEPT !.avail = avail]
             /\ crawl' = [start EXCEPT !.at = IF page = "press" THEN "finalizing"
                                              ELSE IF stop THEN "hunting" ELSE "crawling"]
    /\ UNCHANGED <<extra, report>>

(* Nothing could be fetched, or the extraction failed.                     *)
Unreachable ==
    /\ crawl.at = "idle"
    /\ crawl' = [crawl EXCEPT !.at = "done"] /\ report' = [report EXCEPT !.status = "error"]
    /\ UNCHANGED <<raw, extra, paid>>

(* The goals are met; or the score, flat, stalls for the second time, which *)
(* ends the crawl unless it is worth continuing.  A hunt does not stall.   *)
AfterBatch(c, known, flat) ==
    LET stalled == Stalled(known, flat)
        stall == IF stalled THEN c.stall + 1 ELSE IF PersonHunt(known) THEN c.stall ELSE 0
    IN IF StopDecision(c, known) THEN [c EXCEPT !.at = "hunting"]
       ELSE IF ~stalled \/ stall < 2 THEN [c EXCEPT !.stall = stall]
       ELSE IF WorthContinuing(c, known) THEN [c EXCEPT !.stall = 0]
       ELSE [c EXCEPT !.at = "hunting", !.stall = stall]

(* One iteration of the loop: a batch leaves the pool, some of it cannot   *)
(* be fetched, the rest is extracted together.                             *)
Crawl ==
    /\ crawl.at = "crawling" /\ crawl.left # {} /\ Room(crawl) > 0
    /\ \E batch \in Batches(crawl, Known) :
          LET tried == [crawl EXCEPT !.left = @ \ batch] IN
          /\ batch # {}
          /\ \/ /\ crawl' = tried /\ UNCHANGED raw
             \/ \E got \in SUBSET batch \ {{}} :
                \E found \in Extractions(got) :
                  LET read == Merged(raw, found)
                      c == [tried EXCEPT !.kept = @ \cup got]
                      known == Ground(read, c.kept)
                  IN /\ raw' = read
                     /\ \E flat \in IF known = Known THEN {TRUE} ELSE BOOLEAN :
                           crawl' = AfterBatch(c, known, flat)
    /\ UNCHANGED <<extra, paid, report>>

(* The extraction of a batch fails, before or after its answer was merged: *)
(* its pages are dropped and the loop is left.                             *)
ExtractFails ==
    /\ crawl.at = "crawling" /\ crawl.left # {} /\ Room(crawl) > 0
    /\ \E batch \in Batches(crawl, Known) :
          /\ batch # {}
          /\ crawl' = [crawl EXCEPT !.left = @ \ batch, !.at = "hunting", !.why = "failed"]
          /\ \/ UNCHANGED raw
             \/ \E found \in Extractions(batch) : raw' = Merged(raw, found)
    /\ UNCHANGED <<extra, paid, report>>

(* The pool is empty, or the budget spent, or a hunt has nowhere to go.    *)
CrawlEnds ==
    /\ crawl.at = "crawling"
    /\ crawl.left = {} \/ Room(crawl) <= 0 \/ (PersonHunt(Known) /\ crawl.left \cap People = {})
    /\ crawl' = [crawl EXCEPT !.at = "hunting"]
    /\ UNCHANGED <<raw, extra, paid, report>>

(* extract_names_only over the pages read, then over what a search finds.  *)
HuntPeople ==
    /\ crawl.at = "hunting"
    /\ LET where == IF crawl.kept \cap People # {} THEN crawl.kept \cap People
                    ELSE IF crawl.founder THEN crawl.kept ELSE {}
       IN \E names \in {{}} \cup (IF PersonFound(Known) THEN {} ELSE {{p} : p \in where}) :
             raw' = Merged(raw, [p \in names |-> {"founder"}])
    /\ crawl' = [crawl EXCEPT !.at = "asking"]
    /\ UNCHANGED <<extra, paid, report>>

AskForPeople ==
    /\ crawl.at = "asking"
    /\ \E named \in IF PersonFound(Known) THEN {FALSE} ELSE BOOLEAN :
          /\ raw' = IF named THEN Merged(raw, [p \in {"elsewhere"} |-> {"founder"}]) ELSE raw
          /\ crawl' = [NoCrawl EXCEPT !.at = "paying",
                          !.kept = crawl.kept \cup IF named THEN {"elsewhere"} ELSE {}]
    /\ UNCHANGED <<extra, paid, report>>

-----------------------------------------------------------------------------
(* The paid loop (evidence_loop.py)                                        *)

(* gaps.plan without candidates: for each gap the page that would have it, *)
(* then the first configured provider of that fact; twelve at most.        *)
Moves == <<<<"what_they_do", "firecrawl">>, <<"founder", "firecrawl">>, <<"founder", "tavily">>,
           <<"target_customer", "firecrawl">>, <<"target_customer", "exa">>,
           <<"recent_signal", "firecrawl">>, <<"recent_signal", "tavily">>, <<"recent_signal", "x">>,
           <<"positioning", "firecrawl">>, <<"pricing", "firecrawl">>,
           <<"customers", "firecrawl">>, <<"customers", "tavily">>, <<"product_depth", "firecrawl">>,
           <<"funding", "firecrawl">>, <<"funding", "tavily">>, <<"hiring", "firecrawl">>>>
PlanMoves(known, avail) ==
    LET open == {i \in DOMAIN Moves : /\ Moves[i][1] \in Missing(known) /\ Moves[i][2] \in avail
                                      /\ Moves[i][2] = "x" => "tavily" \notin avail}
    IN {i \in open : Cardinality({j \in open : j < i}) < 12}

ActionsLeft == MaxActions - (paid.spent["firecrawl"] + paid.spent["tavily"] + paid.spent["x"])
(* _reachable_gain: if the bar is out of reach, only a substantial gap.    *)
ReachableGain(known) ==
    LET gaps == Missing(known)
        best == {s \in gaps : Cardinality({t \in gaps : Rank[t] < Rank[s]}) < ActionsLeft}
    IN IF SumFunctionOnSet(Weight, best) < Target - Confidence(known) THEN 10 ELSE 5

(* _resolve_target: a page the site has, or one of a search's queries.     *)
Resolve(slot, kind) ==
    CASE kind = "firecrawl" -> IF FirstHint[slot] \in Linked \cup Unlinked THEN FirstHint[slot] ELSE "none"
      [] kind = "tavily" -> IF slot = "funding" THEN "funding round" ELSE "news"
      [] OTHER -> "posts"

(* Mutant of Unasked: a request made for another gap is made again.        *)
AskedAgain(slot, kind) == slot \notin paid.barren
(* One request may serve two gaps, so it is the request that is remembered *)
(* (that the gap was asked about, budget.tried, follows).                  *)
Unasked(slot, kind) == <<kind, Resolve(slot, kind)>> \notin paid.calls

Usable(mv, floor) ==
    LET slot == mv[1]
        kind == mv[2]
    IN /\ kind \in Providers \ paid.refusing
       /\ slot \notin paid.barren
       /\ Weight[slot] >= floor
       /\ Resolve(slot, kind) # "none"
       /\ Unasked(slot, kind)
       /\ paid.spent[kind] < MaxPerProvider
NextMove(known) ==
    LET floor == ReachableGain(known)
        ok == {i \in PlanMoves(known, paid.avail) : Usable(Moves[i], floor)}
    IN IF ActionsLeft <= 0 \/ Confident(known) THEN {}
       ELSE {Moves[i] : i \in {i \in ok : \A j \in ok : i <= j}}

Spend(slot, kind) ==
    [paid EXCEPT !.spent = [paid.spent EXCEPT ![kind] = @ + 1],
                 !.calls = paid.calls \cup {<<kind, Resolve(slot, kind)>>}]

(* The answer is empty, or the provider refused, or the call failed.       *)
PaidForNothing ==
    /\ crawl.at = "paying"
    /\ \E mv \in NextMove(Known), refused \in BOOLEAN :
          paid' = [Spend(mv[1], mv[2]) EXCEPT !.barren = @ \cup {mv[1]},
                      !.refusing = IF refused THEN @ \cup {mv[2]} ELSE @]
    /\ UNCHANGED <<crawl, raw, extra, report>>

(* _run_tavily, _run_x: the headline or the post fills the node.           *)
SearchPaysOff ==
    /\ crawl.at = "paying"
    /\ \E mv \in NextMove(Known) :
          /\ mv[2] \in {"tavily", "x"}
          /\ paid' = [Spend(mv[1], mv[2]) EXCEPT !.closed = @ \cup {mv[1]}]
          /\ extra' = extra \cup {mv[1]}
    /\ UNCHANGED <<crawl, raw, report>>

(* _run_firecrawl: the page is extracted like a crawled one, and the graph *)
(* rebuilt from the pages: what a search had filled is not among them.     *)
ScrapePaysOff ==
    /\ crawl.at = "paying"
    /\ \E mv \in NextMove(Known) : mv[2] = "firecrawl" /\ \E r \in Readings[Resolve(mv[1], mv[2])] :
          LET page == Resolve(mv[1], mv[2])
              read == Merged(raw, [p \in {page} |-> r])
              kept == crawl.kept \cup {page}
              new == Ground(read, kept) \ Known
          IN /\ paid' = [Spend(mv[1], mv[2]) EXCEPT !.barren = IF new = {} THEN @ \cup {mv[1]} ELSE @]
             /\ raw' = read /\ extra' = {} /\ crawl' = [crawl EXCEPT !.kept = kept]
    /\ UNCHANGED report

PayingEnds ==
    /\ crawl.at = "paying" /\ NextMove(Known) = {}
    /\ crawl' = [crawl EXCEPT !.at = "finalizing"]
    /\ UNCHANGED <<raw, extra, paid, report>>

-----------------------------------------------------------------------------
(* The profile (_finalize) and the supplemental sources                    *)

(* _build_output and the routes the pages show: no address, a role mailbox *)
(* or a person's.                                                          *)
Finalize ==
    /\ crawl.at = "finalizing"
    /\ \E email \in {"none", "generic", "person"} :
          report' = [report EXCEPT !.known = Known, !.recent = Known \cap {"recent_signal"} # {},
                                   !.email = email, !.send = email]
    /\ crawl' = [NoCrawl EXCEPT !.at = "planning"]
    /\ paid' = [Unspent EXCEPT !.avail = paid.avail]
    /\ raw' = NothingRead /\ extra' = {}

(* _apollo_step: a named contact without a specific address; an address    *)
(* found is the send route, and public only where there was none.          *)
Apollo ==
    /\ crawl.at = "planning"
    /\ \E match \in IF PersonFound(report.known) /\ report.email # "person" THEN BOOLEAN ELSE {FALSE} :
          report' = IF match THEN [report EXCEPT !.send = "verified",
                                      !.email = IF @ = "none" THEN "verified" ELSE @]
                    ELSE report
    /\ crawl' = [crawl EXCEPT !.at = "news"]
    /\ UNCHANGED <<raw, extra, paid>>

(* News only if the site shows nothing current, posts only if news did not *)
(* help and a founder is named.                                            *)
News ==
    /\ crawl.at = "news"
    /\ \E found \in IF report.recent \/ "tavily" \notin paid.avail THEN {FALSE} ELSE BOOLEAN :
          report' = [report EXCEPT !.recent = @ \/ found]
    /\ crawl' = [crawl EXCEPT !.at = "posts"]
    /\ UNCHANGED <<raw, extra, paid>>

Posts ==
    /\ crawl.at = "posts"
    /\ \E found \in IF ~report.recent /\ "founder" \in report.known /\ "x" \in paid.avail
                    THEN BOOLEAN ELSE {FALSE},
          status \in IF report.known = {} THEN {"skip"} ELSE {"ok", "skip"} :
          report' = [report EXCEPT !.recent = @ \/ found, !.status = status]
    /\ crawl' = [crawl EXCEPT !.at = "done"]
    /\ UNCHANGED <<raw, extra, paid>>

(* After the homepage.                                                     *)
RNext ==
    \/ Crawl \/ ExtractFails \/ CrawlEnds \/ HuntPeople \/ AskForPeople
    \/ PaidForNothing \/ SearchPaysOff \/ ScrapePaysOff \/ PayingEnds
    \/ Finalize \/ Apollo \/ News \/ Posts

RTypeOK ==
    /\ crawl.at \in {"idle", "crawling", "hunting", "asking", "paying", "finalizing", "planning",
                     "news", "posts", "done"}
    /\ crawl.left \subseteq Linked /\ crawl.kept \subseteq Sites /\ crawl.stall \in 0..2
    /\ raw \in [Sites -> SUBSET (Facts \cup Quotes)] /\ extra \subseteq Slots
    /\ paid.barren \cup paid.closed \subseteq Slots /\ report.known \subseteq Facts

-----------------------------------------------------------------------------
(* The properties                                                          *)

(* Whatever batches fail, people are hunted and pages bought, what a page  *)
(* told the run is not forgotten until the profile is handed on: a gap     *)
(* once closed opens again only if the person turns out to be a            *)
(* customer's, or a scrape rebuilds the graph without what a search had    *)
(* put into it (_score_from_raw, _merge_raw, _extract_into).  And of a     *)
(* customer's story the profile has nothing but what such a page may tell  *)
(* of its vendor, and the price or the figures that a hook quotes from it. *)
Working == crawl.at \in {"crawling", "hunting", "asking", "paying"}
Reopened == Missing(Known') \ Missing(Known)
Grounded ==
    [][/\ Working => \A s \in Reopened :
             \/ s = "founder" /\ "customers" \in Known' \ Known
             \/ s \in extra /\ extra' = {}
       /\ crawl.at = "finalizing" => \A f \in report'.known :
             \/ f \in extra
             \/ \E p \in crawl.kept \ Stories : f \in raw[p] \/ Quoted(raw, p, f)
             \/ \E p \in crawl.kept \cap Stories :
                   f \in {"pricing", "recent_signal"} \cup (raw[p] \cap StorySafe)]_rvars

(* What the comment in verifier.py promises: all but the allowlist that a  *)
(* customer's story says is the customer's, and is dropped.                *)
StoriesQuarantined ==
    [][crawl.at = "finalizing" => \A f \in report'.known :
          f \in extra \cup StorySafe \/ \E p \in crawl.kept \ Stories : Tells(raw, p, f)]_rvars

(* A crawl that lacks only a person ends when no page is left that could   *)
(* name one or the budget is spent, never because the score stood still.   *)
PeopleReadFirst ==
    [][crawl.at = "crawling" /\ crawl'.at = "hunting" /\ crawl'.why # "failed"
         => LET known == Ground(raw', crawl'.kept)
            IN PersonHunt(known) => ~PersonSourcesLeft(crawl')]_rvars

(* No request is paid for twice, however many gaps it could serve, and the *)
(* run keeps to its budget of actions.                                     *)
NeverPaysTwice ==
    /\ ActionsLeft = MaxActions - Cardinality(paid.calls)
    /\ ActionsLeft >= 0

(* evidence_loop._merge: the graph is the single source of truth, so a gap *)
(* that a search closed is closed in the profile.                          *)
GapsStayClosed ==
    [][crawl.at = "finalizing" => paid.closed \cap Missing(report'.known) = {}]_rvars
=============================================================================
