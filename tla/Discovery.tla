------------------------------ MODULE Discovery -----------------------------
(***************************************************************************)
(* Lead discovery for one owner: discover() of discovery/engine.py with    *)
(* the providers behind it, the classifiers of aggregators.py, the score,  *)
(* the display gate, the hard constraints and the table of prospects.      *)
(*                                                                         *)
(* A search makes passes over two kinds of provider, merges what they find *)
(* by domain, stops when the page is full of strong candidates or another  *)
(* pass did not help, verifies, gates, and saves the page it shows.  What  *)
(* a provider answers about a domain, and when, is a choice.               *)
(***************************************************************************)
EXTENDS Integers, FiniteSets, FiniteSetsExt

CONSTANTS
    Domains,      (* registrable domains of companies                      *)
    None,         (* a domain a search did not find                        *)
    Limit,        (* query.limit: companies on a page                      *)
    MinGain,      (* DISCOVERY_PASS_MIN_GAIN                               *)
    MaxAsks,      (* bound: searches of the owner                          *)
    MaxOutages    (* bound: reads and writes of the table that fail        *)

ASSUME DiscoveryAssumption ==
    /\ None \notin Domains
    /\ {Limit, MinGain, MaxAsks} \subseteq Nat \ {0} /\ MaxOutages \in Nat

VARIABLES
    table,    (* the owner's rows in prospects                             *)
    search,   (* the search in progress, or the last one                   *)
    shown,    (* history: domains shown by searches whose page was saved   *)
    asks,     (* searches made                                             *)
    outages

dvars == <<table, search, shown, asks, outages>>

(* aggregators.py: what a page or a domain is.  A board (job board, ATS,   *)
(* marketplace) is demoted; a media page or a directory is dropped, so it  *)
(* is no kind a candidate has.  Covers: a publisher, an association or an  *)
(* authority by its industry codes, which are AUTHORITATIVE_KINDS.         *)
Kinds == {"company", "board", "covers"}

(* hiring: the evidence a candidate carries.  title: found by the title of *)
(* a live posting; own: its careers page; any, role: Apollo's postings.    *)
Hiring == {"none", "title", "own", "any", "role"}

Candidate ==
    [tier: {"company", "fallback"}, kind: Kinds, apollo: BOOLEAN, web: BOOLEAN,
     hiring: Hiring, fit: BOOLEAN, clear: BOOLEAN, cited: BOOLEAN, apart: BOOLEAN]

(* The parsed plan: a role, a funding stage, or just a category.  The ask  *)
(* names a category in any case, so that there are three passes to make.   *)
Plan == [role: BOOLEAN, stage: BOOLEAN]

Nothing == [d \in Domains |-> None]
NoSearch == [at |-> "idle", plan |-> [role |-> FALSE, stage |-> FALSE], pass |-> 0, seen |-> {},
             merged |-> Nothing, covers |-> {}, page |-> {}, before |-> {}, blind |-> FALSE]

DInit ==
    /\ table = {} /\ search = NoSearch /\ shown = {} /\ asks = 0 /\ outages = 0

Hits(m) == {d \in Domains : m[d] # None}

-----------------------------------------------------------------------------
(* The score (scoring.py), in hundredths: fit, growth and evidence.        *)

IcpScore(c) == IF c.fit THEN 80 ELSE 35
BuyingScore(c) == (IF c.fit THEN 45 ELSE 0) + (IF c.hiring \in {"any", "role"} THEN 18 ELSE 0)
HiringScore(c, plan) ==
    CASE c.hiring = "role" -> 100
      [] c.hiring \in {"none", "title"} -> IF plan.role THEN 0 ELSE 50
      [] OTHER -> IF plan.role THEN 0 ELSE 35
Corroboration(c) == IF c.apollo /\ c.web THEN 70 ELSE 30

(* W_ICP 30, W_BUYING 25, W_HIRING 25, W_ACCESS 10, W_CORROBORATION 10.    *)
Score(c, plan) ==
    LET total == 30 * IcpScore(c) + 25 * BuyingScore(c) + 25 * HiringScore(c, plan)
                 + 10 * 40 + 10 * Corroboration(c)
    IN IF c.tier = "company" THEN total \div 100 ELSE (35 * total) \div 10000

Strong(c, plan) == c.tier = "company" /\ Score(c, plan) >= 55
StrongIn(m, plan) == {d \in Hits(m) : Strong(m[d], plan)}

(* _rank: companies before the demoted, then by score.                     *)
Outranks(c, e, plan) ==
    \/ c.tier = "company" /\ e.tier # "company"
    \/ c.tier = e.tier /\ Score(c, plan) > Score(e, plan)

-----------------------------------------------------------------------------
(* What the providers give                                                 *)

Lead(kind, tier) == [tier |-> tier, kind |-> kind, apollo |-> FALSE, web |-> FALSE, hiring |-> "none",
                     fit |-> FALSE, clear |-> TRUE, cited |-> FALSE, apart |-> FALSE]

(* search_apollo: staffing firms are dropped, boards demoted; a search by  *)
(* category also demotes by industry codes, one by posting titles does not. *)
FromApollo(titles) ==
    {[Lead("company", "company") EXCEPT !.apollo = TRUE, !.fit = f,
                                        !.hiring = IF titles THEN "title" ELSE "none"] : f \in BOOLEAN}
    \cup {[Lead("board", "fallback") EXCEPT !.apollo = TRUE]}
    \cup IF titles THEN {} ELSE {[Lead("covers", "fallback") EXCEPT !.apollo = TRUE]}

(* assess and _build: a page that is a company's, perhaps its careers page, *)
(* with or without the evidence the display gate asks for; or a board's.   *)
Assess == {"company", "board"}
Build(kind) ==
    IF kind = "board" THEN {[Lead("board", "fallback") EXCEPT !.web = TRUE]}
    ELSE {[Lead("company", "company") EXCEPT !.web = TRUE, !.hiring = h, !.clear = c]
             : h \in {"none", "own"}, c \in BOOLEAN}
FromWeb == UNION {Build(k) : k \in Assess}

(* _pass_plans: a role is searched by posting titles, then by category; a  *)
(* category in Apollo twice, then on the web alone.                        *)
Titles(plan, pass) == plan.role /\ pass < 3
UsesApollo(plan, pass) == plan.role \/ pass < 3

(* _merge, for a domain found twice: the tier may only be raised, unless   *)
(* the verdict against it has evidence; what is known is kept.             *)
Merge(a, b) ==
    IF a = None THEN b ELSE IF b = None THEN a
    ELSE LET up == a.tier # "company" /\ b.tier = "company" /\ a.kind # "covers" IN
         [a EXCEPT !.tier = IF up THEN "company" ELSE @, !.kind = IF up THEN b.kind ELSE @,
                   !.apollo = @ \/ b.apollo, !.web = @ \/ b.web,
                   !.fit = @ \/ b.fit, !.clear = @ \/ b.clear,
                   !.hiring = IF @ = "none" THEN b.hiring ELSE @]

Unseen(found, seen) == [d \in Domains |-> IF d \in seen THEN None ELSE found[d]]

-----------------------------------------------------------------------------
(* The search                                                              *)

(* seen_domains may fail: the search goes on without it.                   *)
Discover ==
    /\ search.at \in {"idle", "shown"} /\ asks < MaxAsks
    /\ asks' = asks + 1
    /\ \E plan \in Plan, blind \in BOOLEAN :
          /\ blind => outages < MaxOutages
          /\ outages' = outages + IF blind THEN 1 ELSE 0
          /\ search' = [NoSearch EXCEPT !.at = "searching", !.plan = plan, !.before = shown,
                           !.blind = blind, !.seen = IF blind THEN {} ELSE table]
    /\ UNCHANGED <<table, shown>>

Found(s, apollo, web) ==
    [d \in Domains |-> Merge(Merge(s.merged[d], Unseen(apollo, s.seen)[d]), Unseen(web, s.seen)[d])]

(* A pass is the last if the page is full of strong candidates, or if it   *)
(* added too few of them.                                                  *)
AfterPass(s, apollo, web) ==
    LET merged == Found(s, apollo, web)
        strong == Cardinality(StrongIn(merged, s.plan))
        gain == strong - Cardinality(StrongIn(s.merged, s.plan))
        last == strong >= Limit \/ (s.pass > 0 /\ gain < MinGain) \/ s.pass = 2
    IN [s EXCEPT !.pass = s.pass + 1, !.merged = merged,
           !.covers = s.covers \cup {d \in Domains : apollo[d] # None /\ apollo[d].kind = "covers"},
           !.at = IF last THEN "verifying" ELSE "searching"]

(* One pass of _search_until_good; a provider that is down finds nothing.  *)
(* At most one domain is new to each provider in a pass.                   *)
Pass ==
    /\ search.at = "searching" /\ search.pass < 3
    /\ \E da, dw \in Domains,
          a \in {None} \cup IF UsesApollo(search.plan, search.pass + 1)
                            THEN FromApollo(Titles(search.plan, search.pass + 1)) ELSE {},
          w \in {None} \cup FromWeb :
          search' = AfterPass(search, [Nothing EXCEPT ![da] = a], [Nothing EXCEPT ![dw] = w])
    /\ UNCHANGED <<table, shown, asks, outages>>

(* verify_hiring: Apollo's dated postings, for the finalists it knows; a   *)
(* lookup that fails leaves what the candidate has.                        *)
VerifyHiring ==
    /\ search.at = "verifying"
    /\ \E any, role \in SUBSET {d \in Hits(search.merged) : search.merged[d].apollo} :
          /\ any \cap role = {} /\ (role # {} => search.plan.role)
          /\ search' = [search EXCEPT !.at = "gating",
                !.merged = [d \in Domains |->
                    IF d \in role THEN [search.merged[d] EXCEPT !.hiring = "role"]
                    ELSE IF d \in any THEN [search.merged[d] EXCEPT !.hiring = "any"]
                    ELSE search.merged[d]]]
    /\ UNCHANGED <<table, shown, asks, outages>>

(* display_gate.evaluate: a company, clear evidence unless Apollo has it,  *)
(* and for a role the evidence that it hires.                              *)
Official(c) == c.hiring \in {"own", "title", "any", "role"} \/ c.apollo
Displayable(c, plan) ==
    /\ c.kind = "company" /\ c.tier = "company"
    /\ c.apollo \/ c.clear
    /\ plan.role => Official(c)

(* constraints.verify: a stage asked for must be cited, a role be backed   *)
(* officially, and nothing set the company apart from the industry, the    *)
(* place and the size asked for.                                           *)
Qualified(c, plan) == (plan.stage => c.cited) /\ (plan.role => Official(c)) /\ ~c.apart

(* The demoted that may fill a page that is short: none of them if a stage *)
(* was asked for.                                                          *)
PaddedAnyway(m, plan) == {d \in Hits(m) : m[d].tier # "company"}
Fallback(m, plan) == IF plan.stage THEN {} ELSE {d \in Hits(m) : m[d].tier # "company"}

Least(a, b) == IF a < b THEN a ELSE b

(* Mutant of Pages: the page is cut from all that ranked.                  *)
PagesOfAll(companies, fallback, m, plan) ==
    {p \in SUBSET (companies \cup fallback) :
        Cardinality(p) = Least(Limit, Cardinality(companies \cup fallback))}

(* The pages _rank allows: the best companies, then the best of the rest.  *)
Pages(companies, fallback, m, plan) ==
    {p \in SUBSET (companies \cup fallback) :
        /\ Cardinality(p) = Least(Limit, Cardinality(companies \cup fallback))
        /\ \A d \in p, e \in (companies \cup fallback) \ p :
              d \in fallback => e \in fallback
        /\ \A d \in p, e \in (companies \cup fallback) \ p : ~Outranks(m[e], m[d], plan)}

(* verify_funding, for a stage: the companies Apollo has a cited round of, *)
(* of those that passed the gate; a lookup that fails cites nothing.       *)
VerifyFunding(m, plan) ==
    IF plan.stage THEN SUBSET {d \in Hits(m) : Displayable(m[d], plan)} ELSE {{}}

Verified(m, cited, apart) ==
    [d \in Domains |-> IF d \in Hits(m) THEN [m[d] EXCEPT !.cited = d \in cited, !.apart = d \in apart]
                       ELSE m[d]]

(* The gate, the funding, the constraints, and the page.                   *)
Gate ==
    /\ search.at = "gating"
    /\ \E cited \in VerifyFunding(search.merged, search.plan), apart \in SUBSET Hits(search.merged) :
          LET m == Verified(search.merged, cited, apart)
              companies == {d \in Hits(m) : /\ Displayable(m[d], search.plan)
                                            /\ Qualified(m[d], search.plan)}
          IN \E page \in Pages(companies, Fallback(m, search.plan), m, search.plan) :
                search' = [search EXCEPT !.at = "saving", !.merged = m, !.page = page]
    /\ UNCHANGED <<table, shown, asks, outages>>

(* save_many, and the result; a save that fails shows the page all the same. *)
Save ==
    /\ search.at = "saving"
    /\ \E ok \in BOOLEAN :
          /\ ok \/ (search.page # {} /\ outages < MaxOutages)
          /\ outages' = outages + IF ok THEN 0 ELSE 1
          /\ table' = IF ok THEN table \cup search.page ELSE table
          /\ shown' = IF ok THEN shown \cup search.page ELSE shown
    /\ search' = [search EXCEPT !.at = "shown"]
    /\ UNCHANGED asks

(* The next turn may ask again.                                            *)
DNext == Discover \/ Pass \/ VerifyHiring \/ Gate \/ Save

DTypeOK ==
    /\ table \subseteq Domains /\ shown \subseteq Domains
    /\ search.at \in {"idle", "searching", "verifying", "gating", "saving", "shown"}
    /\ search.pass \in 0..3 /\ search.plan \in Plan
    /\ \A d \in Domains : search.merged[d] \in Candidate \cup {None}
    /\ search.page \subseteq Hits(search.merged)

OnPage == IF search.at \in {"saving", "shown"} THEN search.page ELSE {}

(* "Find another twenty" never shows a company again that an earlier page  *)
(* showed, unless that page could not be saved or the table not be read.   *)
NotShownAgain == search.blind \/ OnPage \cap search.before = {}

(* A page asked for by funding stage holds only companies whose round is   *)
(* cited: nothing demoted or unverified fills it up.                       *)
StageIsCited == search.plan.stage => \A d \in OnPage : search.merged[d].cited

(* A demoted result is on the page only when every company that passed the *)
(* gate and the constraints is.                                            *)
CompaniesFirst ==
    \A d \in OnPage : search.merged[d].tier # "company" =>
        \A e \in Hits(search.merged) :
            Displayable(search.merged[e], search.plan) /\ Qualified(search.merged[e], search.plan)
            => e \in OnPage

(* A place on the page is earned: by being new to the owner, by the        *)
(* citation asked for, or over the demoted.                                *)
PageIsEarned == NotShownAgain /\ StageIsCited /\ CompaniesFirst

(* What aggregators.py says of AUTHORITATIVE_KINDS: a domain that Apollo's *)
(* codes demote in a search is not shown as a company by it.               *)
VerdictStands == \A d \in OnPage \cap search.covers : search.merged[d].tier # "company"
=============================================================================
