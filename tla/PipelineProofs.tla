--------------------------- MODULE PipelineProofs ----------------------------
(***************************************************************************)
(* Proofs about Pipeline: for any companies, pages, providers, readings,   *)
(* budgets and pools, on whichever of the ways through it.                 *)
(***************************************************************************)
EXTENDS Pipeline, FiniteSetTheorems, SequenceTheorems, TLAPS

(* A step of the pipeline is a step of each part, its hand-over to the     *)
(* next, or leaves it alone.                                               *)
DPart == DNext \/ (table' = {} /\ search' = NoSearch /\ shown' = {}) \/ UNCHANGED dvars
FPart == FNext \/ (visit' = NoVisit /\ UNCHANGED <<fetched, browser, broken>>) \/ UNCHANGED fvars
Handed ==
    /\ crawl.at = "done"
    /\ crawl' = NoCrawl /\ raw' = NothingRead /\ extra' = {} /\ paid' = Unspent
    /\ report' = IF report.status # "ok" THEN NoReport
                 ELSE [NoReport EXCEPT !.status = "ok",
                          !.email = IF report.email = "none" THEN "none" ELSE "person"]
Read == UNCHANGED <<crawl, raw, extra, paid>> /\ report' = NoReport
RPart == Homepage \/ Unreachable \/ RNext \/ Handed \/ Read \/ UNCHANGED rvars
WPart ==
    \/ WriteNext \/ (\E page \in SUBSET Prospects : Start(page))
    \/ \E p \in Prospects, route \in Routes : \E status : ResearchDone(p, status, route)
    \/ UNCHANGED wvars

LEMMA Parts ==
    [PNext]_pvars => DPart /\ FPart /\ RPart /\ WPart /\ [MNext]_mvars
<1>. USE DEF DPart, FPart, RPart, WPart
<1>. SUFFICES ASSUME [PNext]_pvars PROVE DPart /\ FPart /\ RPart /\ WPart /\ [MNext]_mvars
  OBVIOUS
<1>1. CASE Discovering
  BY <1>1 DEF Discovering
<1>2. CASE Follow
  BY <1>2 DEF Follow
<1>3. CASE Fetching
  BY <1>3 DEF Fetching
<1>4. CASE Crawling
  BY <1>4 DEF Crawling, dvars, mvars
<1>5. CASE Researching
  BY <1>5 DEF Researching
<1>6. CASE Preview
  BY <1>6 DEF Preview, Handed
<1>7. CASE Processing
  <2>1. UNCHANGED <<dvars, fvars, mvars>> /\ (Read \/ UNCHANGED rvars)
    BY <1>7 DEF Processing, Read, rvars
  <2>2. WriteNext \/ \E p \in Prospects, route \in Routes : \E status : ResearchDone(p, status, route)
    BY <1>7, PipelineAssumption DEF Processing, Routes
  <2>. QED
    BY <2>1, <2>2
<1>8. CASE Demonstrating
  BY <1>8 DEF Demonstrating
<1>9. CASE ShowingLists
  BY <1>9 DEF ShowingLists
<1>10. CASE UNCHANGED pvars
  BY <1>10 DEF pvars
<1>. QED
  BY <1>1, <1>2, <1>3, <1>4, <1>5, <1>6, <1>7, <1>8, <1>9, <1>10 DEF PNext

-----------------------------------------------------------------------------
(* A page is fetched as well as the chain allows                           *)

Browsers == {"unlaunched", "open", "disabled"}
Given == Text \cup {NoText}
Ways == {"browser", "firecrawl", "jina"}
PageStates == {"unasked", "asked", "answered", "scrape", "read", "taken", "lost"}
PageState ==
    [at: PageStates, tries: Int, hops: Int, plain: Given, text: Given, asked: SUBSET Ways]

(* What holds of one page: the browser was asked before the readers, and   *)
(* the readers, one after the other, only for a homepage with no text.     *)
PageOK(p, f, gone) ==
    /\ f.at \in {"scrape", "read", "lost"} => "browser" \in f.asked \/ gone
    /\ f.at \in {"scrape", "read"} => p = "homepage" /\ f.plain = NoText
    /\ f.at = "read" => "firecrawl" \in f.asked
    /\ f.at = "lost" /\ p = "homepage" => {"firecrawl", "jina"} \subseteq f.asked
    /\ f.at = "taken" /\ f.plain # NoText => f.text \in Text /\ f.text >= f.plain

FInv ==
    /\ fetched \in [SitePages -> PageState]
    /\ browser \in Browsers /\ broken \in BOOLEAN
    /\ browser = "disabled" => broken
    /\ \A p \in SitePages : PageOK(p, fetched[p], broken)

(* What a render gives: text or none, and a browser that is gone only if   *)
(* it was, or could not be launched.                                       *)
Rendered(b, r) ==
    /\ r[1] \in Browsers /\ r[2] \in Given
    /\ r[1] = "disabled" => b \in {"disabled", "unlaunched"}
    /\ b = "disabled" => r[1] = "disabled"
    /\ r[1] = "unlaunched" => b = "unlaunched"

LEMMA RenderedOnce ==
    ASSUME NEW b \in Browsers, NEW r \in RenderOnce(b) PROVE Rendered(b, r)
BY DEF RenderOnce, Rendered, Browsers, Given

LEMMA RenderedTwice ==
    ASSUME NEW b \in Browsers, NEW r \in Render(b) PROVE Rendered(b, r)
<1>0. CASE r = <<b, NoText>>
  BY <1>0 DEF Rendered, Browsers, Given
<1>1. CASE r \in {s \in RenderOnce(b) : s[2] = NoText \/ ~Thin(s[2])}
  BY <1>1, RenderedOnce
<1>2. CASE r \in UNION {{<<again[1], Longer(first[2], again[2])>> : again \in RenderOnce(first[1])}
                : first \in {s \in RenderOnce(b) : s[2] # NoText /\ Thin(s[2])}}
  <2>1. PICK first \in RenderOnce(b) :
           r \in {<<again[1], Longer(first[2], again[2])>> : again \in RenderOnce(first[1])}
    BY <1>2
  <2>2. PICK again \in RenderOnce(first[1]) : r = <<again[1], Longer(first[2], again[2])>>
    BY <2>1
  <2>3. Rendered(b, first)
    BY RenderedOnce
  <2>4. Rendered(first[1], again)
    BY <2>3, RenderedOnce DEF Rendered, Browsers
  <2>5. r[1] = again[1] /\ r[2] \in {first[2], again[2]}
    BY <2>2 DEF Longer
  <2>. QED
    BY <2>3, <2>4, <2>5 DEF Rendered, Browsers
<1>. QED
  BY <1>0, <1>1, <1>2 DEF Render

(* A step that touches one page, and keeps what became of the browser.     *)
LEMMA OnePage ==
    ASSUME FInv, NEW p \in SitePages, NEW f \in PageState,
           fetched' = [fetched EXCEPT ![p] = f], browser' \in Browsers, broken' \in BOOLEAN,
           broken => broken', browser' = "disabled" => broken', PageOK(p, f, broken')
    PROVE FInv'
<1>1. fetched' \in [SitePages -> PageState]
  BY DEF FInv
<1>2. ASSUME NEW q \in SitePages PROVE PageOK(q, fetched'[q], broken')
  <2>1. CASE q = p
    BY <2>1 DEF FInv
  <2>2. CASE q # p
    <3>1. fetched'[q] = fetched[q]
      BY <2>2 DEF FInv
    <3>2. PageOK(q, fetched[q], broken)
      BY DEF FInv
    <3>. QED
      BY <3>1, <3>2 DEF PageOK
  <2>. QED
    BY <2>1, <2>2
<1>. QED
  BY <1>1, <1>2 DEF FInv

LEMMA FInvInit ==
    ASSUME FInit PROVE FInv
<1>. NoText \in Given
  BY DEF Given
<1>. Untouched \in PageState
  BY DEF Untouched, PageState, PageStates
<1>. QED
  BY DEF FInit, FInv, AllUntouched, Untouched, PageOK, Browsers

(* A new page is asked for, or none.                                       *)
LEMMA Afresh ==
    Untouched \in PageState /\ [Untouched EXCEPT !.at = "asked"] \in PageState
    /\ \A p \in SitePages, gone \in BOOLEAN :
          PageOK(p, Untouched, gone) /\ PageOK(p, [Untouched EXCEPT !.at = "asked"], gone)
<1>. NoText \in Given
  BY DEF Given
<1>. QED
  BY DEF Untouched, PageState, PageStates, PageOK

LEMMA FInvStep ==
    ASSUME FInv, FPart PROVE FInv'
<1>. USE FetchAssumption
<1>hp. "homepage" \in SitePages
  BY DEF SitePages
<1>1. CASE UNCHANGED <<fetched, browser, broken>>
  BY <1>1 DEF FInv, PageOK
<1>2. CASE SitemapsRead
  BY <1>2, <1>hp, Afresh, OnePage DEF SitemapsRead, FInv
<1>3. CASE Discovered
  BY <1>3, Afresh DEF Discovered, FInv, AllUntouched
<1>4. CASE NextBatch
  <2>1. PICK batch : fetched' = [p \in SitePages |->
                        IF p \in batch THEN [Untouched EXCEPT !.at = "asked"] ELSE Untouched]
    BY <1>4 DEF NextBatch
  <2>2. UNCHANGED <<browser, broken>>
    BY <1>4 DEF NextBatch
  <2>. QED
    BY <2>1, <2>2, Afresh DEF FInv
<1>5. CASE Close
  BY <1>5, Afresh DEF Close, FInv, AllUntouched, Browsers
<1>6. ASSUME NEW p \in SitePages, Redirected(p) \/ TriedAgain(p) \/ Answered(p) PROVE FInv'
  <2>. DEFINE f == fetched[p]
  <2>0. f \in PageState /\ f.at = "asked" /\ UNCHANGED <<browser, broken>>
    BY <1>6 DEF FInv, Redirected, TriedAgain, Answered
  <2>1. CASE Redirected(p)
    <3>0. PICK hops \in Int : hops = f.hops + 1
      BY <2>0 DEF PageState
    <3>1. PICK g : g = [f EXCEPT !.hops = hops]
      OBVIOUS
    <3>2. g \in PageState /\ g.at = "asked"
      BY <2>0, <3>1 DEF PageState
    <3>3. fetched' = [fetched EXCEPT ![p] = g]
      BY <2>1, <3>0, <3>1 DEF Redirected
    <3>. QED
      BY <2>0, <3>3, <3>1, <3>2, OnePage DEF FInv, PageOK
  <2>2. CASE TriedAgain(p)
    <3>0. PICK tries \in Int : tries = f.tries + 1
      BY <2>0 DEF PageState
    <3>h. PICK hops \in Int : hops = 0
      OBVIOUS
    <3>1. PICK g : g = [f EXCEPT !.tries = tries, !.hops = hops]
      OBVIOUS
    <3>2. g \in PageState /\ g.at = "asked"
      BY <2>0, <3>1 DEF PageState
    <3>3. fetched' = [fetched EXCEPT ![p] = g]
      BY <2>2, <3>0, <3>h, <3>1 DEF TriedAgain
    <3>. QED
      BY <2>0, <3>3, <3>1, <3>2, OnePage DEF FInv, PageOK
  <2>3. CASE Answered(p)
    <3>1. PICK plain \in Given : fetched' = [fetched EXCEPT ![p] =
                              [Untouched EXCEPT !.at = "answered", !.plain = plain]]
      BY <2>3 DEF Answered, Given
    <3>2. PICK g : g = [Untouched EXCEPT !.at = "answered", !.plain = plain]
      OBVIOUS
    <3>3. g \in PageState /\ g.at = "answered"
      BY <3>2, Afresh DEF PageState, PageStates, Untouched
    <3>. QED
      BY <2>0, <3>1, <3>2, <3>3, OnePage DEF FInv, PageOK
  <2>. QED
    BY <1>6, <2>1, <2>2, <2>3
<1>7. ASSUME NEW p \in SitePages, TakeRead(p) PROVE FInv'
  <2>. DEFINE f == fetched[p]
  <2>0. f \in PageState /\ f.at = "answered" /\ f.plain \in Text /\ browser \in Browsers
    BY <1>7 DEF FInv, TakeRead, ItsTurn, PageState, Given
  <2>1. CASE p \in TeamPages \/ Thin(f.plain)
    <3>1. PICK r \in Render(browser) :
             /\ Asks(p, r)
             /\ fetched' = Taken(p, IF Richer(f.plain, r[2]) THEN r[2] ELSE f.plain, {"browser"})
      BY <1>7, <2>1 DEF TakeRead
    <3>2. PICK text : text = IF Richer(f.plain, r[2]) THEN r[2] ELSE f.plain
      OBVIOUS
    <3>3. text \in Text /\ text >= f.plain
      BY <2>0, <3>2, RenderedTwice DEF Richer, Rendered, Given, Text
    <3>4. PICK g : g = [f EXCEPT !.at = "taken", !.text = text, !.asked = {"browser"}]
      OBVIOUS
    <3>5. g \in PageState /\ g.at = "taken" /\ g.text = text /\ g.plain = f.plain
      BY <2>0, <3>3, <3>4 DEF PageState, PageStates, Given, Ways
    <3>6. fetched' = [fetched EXCEPT ![p] = g]
      BY <3>1, <3>2, <3>4 DEF Taken, Leave
    <3>7. PageOK(p, g, broken')
      BY <3>3, <3>5 DEF PageOK
    <3>8. Rendered(browser, r)
      BY <2>0, RenderedTwice
    <3>9. browser' \in Browsers /\ broken' \in BOOLEAN
      BY <3>1, <3>8 DEF Asks, Rendered, Browsers, FInv
    <3>10. (broken => broken') /\ (browser' = "disabled" => broken')
      BY <3>1, <3>8 DEF Asks, Rendered, FInv
    <3>. QED
      BY <3>5, <3>6, <3>7, <3>9, <3>10, OnePage
  <2>2. CASE ~(p \in TeamPages \/ Thin(f.plain))
    <3>1. fetched' = Taken(p, f.plain, {}) /\ UNCHANGED <<browser, broken>>
      BY <1>7, <2>2 DEF TakeRead
    <3>2. PICK g : g = [f EXCEPT !.at = "taken", !.text = f.plain, !.asked = {}]
      OBVIOUS
    <3>3. g \in PageState /\ g.at = "taken" /\ g.text = f.plain /\ g.plain = f.plain
      BY <2>0, <3>2 DEF PageState, PageStates, Given
    <3>4. fetched' = [fetched EXCEPT ![p] = g]
      BY <3>1, <3>2 DEF Taken, Leave
    <3>5. PageOK(p, g, broken)
      BY <2>0, <3>3 DEF PageOK, Text
    <3>. QED
      BY <3>1, <3>3, <3>4, <3>5, OnePage DEF FInv
  <2>. QED
    BY <2>1, <2>2
<1>8. ASSUME NEW p \in SitePages, TakeRefused(p) PROVE FInv'
  <2>. DEFINE f == fetched[p]
  <2>0. f \in PageState /\ f.at = "answered" /\ f.plain = NoText /\ browser \in Browsers
    BY <1>8 DEF FInv, TakeRefused, ItsTurn
  <2>1. PICK r \in Render(browser) :
           /\ Asks(p, r)
           /\ fetched' = IF r[2] # NoText THEN Taken(p, r[2], {"browser"})
                         ELSE Leave(p, IF p = "homepage" THEN "scrape" ELSE "lost", NoText,
                                    IF browser = "disabled" THEN {} ELSE {"browser"})
    BY <1>8 DEF TakeRefused
  <2>2. Rendered(browser, r)
    BY <2>0, RenderedTwice
  <2>3. browser' \in Browsers /\ broken' \in BOOLEAN
    BY <2>1, <2>2 DEF Asks, Rendered, Browsers, FInv
  <2>4. (broken => broken') /\ (browser' = "disabled" => broken')
    BY <2>1, <2>2 DEF Asks, Rendered, FInv
  <2>5. PICK at, text, asked :
           /\ fetched' = Leave(p, at, text, asked)
           /\ \/ at = "taken" /\ text = r[2] /\ asked = {"browser"}
              \/ /\ at = (IF p = "homepage" THEN "scrape" ELSE "lost") /\ text = NoText
                 /\ asked = IF browser = "disabled" THEN {} ELSE {"browser"}
    BY <2>1 DEF Taken
  <2>6. PICK g : g = [f EXCEPT !.at = at, !.text = text, !.asked = asked]
    OBVIOUS
  <2>7. g \in PageState /\ g.at = at /\ g.text = text /\ g.plain = NoText /\ g.asked = asked
    BY <2>0, <2>2, <2>5, <2>6 DEF PageState, PageStates, Given, Ways, Rendered
  <2>8. fetched' = [fetched EXCEPT ![p] = g]
    BY <2>5, <2>6 DEF Leave
  <2>9. at # "taken" => "browser" \in asked \/ broken'
    BY <2>4, <2>5 DEF FInv
  <2>10. PageOK(p, g, broken')
    BY <2>5, <2>7, <2>9 DEF PageOK
  <2>. QED
    BY <2>3, <2>4, <2>7, <2>8, <2>10, OnePage
<1>9. CASE Firecrawl \/ Jina
  <2>. DEFINE f == fetched["homepage"]
  <2>0. f \in PageState /\ PageOK("homepage", f, broken) /\ UNCHANGED <<browser, broken>>
    BY <1>9, <1>hp DEF FInv, Firecrawl, Jina
  <2>1. f.plain = NoText /\ ("browser" \in f.asked \/ broken)
    BY <1>9, <2>0 DEF PageOK, Firecrawl, Jina
  <2>2. PICK at, text, asked :
           /\ fetched' = Leave("homepage", at, text, asked)
           /\ f.asked \subseteq asked /\ asked \subseteq f.asked \cup Ways
           /\ at \in {"read", "lost", "taken"} /\ text \in Given
           /\ at # "taken" => "firecrawl" \in asked
           /\ at = "lost" => "jina" \in asked
    <3>1. CASE Firecrawl
      <4>1. fetched' \in {Leave("homepage", "read", NoText, f.asked \cup {"firecrawl"}),
                          Leave("homepage", "taken", RichFrom, f.asked \cup {"firecrawl"})}
        BY <3>1 DEF Firecrawl, Taken
      <4>2. RichFrom \in Given /\ NoText \in Given
        BY DEF Given, Text
      <4>. QED
        BY <4>1, <4>2 DEF Ways
    <3>2. CASE Jina
      <4>1. fetched' \in {Leave("homepage", "lost", NoText, f.asked \cup {"jina"}),
                          Leave("homepage", "taken", RichFrom, f.asked \cup {"jina"})}
        BY <3>2 DEF Jina, Taken
      <4>2. RichFrom \in Given /\ NoText \in Given /\ "firecrawl" \in f.asked
        BY <2>0, <3>2 DEF Given, Text, Jina, PageOK
      <4>. QED
        BY <4>1, <4>2 DEF Ways
    <3>. QED
      BY <1>9, <3>1, <3>2
  <2>3. PICK g : g = [f EXCEPT !.at = at, !.text = text, !.asked = asked]
    OBVIOUS
  <2>4. g \in PageState /\ g.at = at /\ g.plain = NoText /\ g.asked = asked
    BY <2>0, <2>1, <2>2, <2>3 DEF PageState, PageStates
  <2>5. fetched' = [fetched EXCEPT !["homepage"] = g]
    BY <2>2, <2>3 DEF Leave
  <2>6. PageOK("homepage", g, broken)
    BY <2>1, <2>2, <2>4 DEF PageOK
  <2>. QED
    BY <1>hp, <2>0, <2>4, <2>5, <2>6, OnePage DEF FInv
<1>. QED
  BY <1>1, <1>2, <1>3, <1>4, <1>5, <1>6, <1>7, <1>8, <1>9
  DEF FPart, FNext, fvars, Begin, ReadSitemap

(* A page is given up only after each way open to it, and what is taken of *)
(* it is no less than its plain request gave, whatever the sites, the      *)
(* readers and the browser do (fetcher.fetch_with_fallbacks).              *)
THEOREM FetchedInFullHolds == PSpec => []FetchedInFull
<1>1. PInit => FInv
  BY FInvInit DEF PInit
<1>2. FInv /\ [PNext]_pvars => FInv'
  BY FInvStep, Parts
<1>3. FInv => FetchedInFull
  BY DEF FInv, FetchedInFull, LastResort, NeverThinner, PageOK
<1>. QED
  BY <1>1, <1>2, <1>3, PTL DEF PSpec

-----------------------------------------------------------------------------
(* The research of a company                                               *)

CrawlStates == {"idle", "crawling", "hunting", "asking", "paying", "finalizing", "planning",
                "news", "posts", "done"}
IsCrawl(c) ==
    /\ c \in [at: CrawlStates, left: SUBSET Linked, kept: SUBSET Sites, stall: Nat,
              founder: BOOLEAN, why: {"none", "failed"}]
    /\ IsFiniteSet(c.kept)
Addresses == {"none", "generic", "person", "verified"}
IsReport(r) ==
    r \in [status: {"none", "error", "ok", "skip"}, known: {r.known}, recent: BOOLEAN,
           email: Addresses, send: Addresses]

Sum(spent) == spent["firecrawl"] + spent["tavily"] + spent["x"]
(* What was spent is what was asked, each request once, within the budget. *)
IsPaid(p) ==
    /\ p \in [spent: [Providers -> Nat], calls: {p.calls}, barren: {p.barren},
              refusing: {p.refusing}, closed: {p.closed}, avail: {p.avail}]
    /\ IsFiniteSet(p.calls)
    /\ Sum(p.spent) = Cardinality(p.calls) /\ Sum(p.spent) <= MaxActions

RInv == IsCrawl(crawl) /\ IsReport(report) /\ IsPaid(paid)

LEMMA Nothing0 ==
    IsCrawl(NoCrawl) /\ IsReport(NoReport) /\ IsPaid(Unspent)
<1>1. IsCrawl(NoCrawl)
  BY FS_EmptySet DEF IsCrawl, NoCrawl, CrawlStates
<1>2. IsReport(NoReport)
  BY DEF IsReport, NoReport, Addresses
<1>3. IsPaid(Unspent)
  BY FS_EmptySet, ResearchAssumption DEF IsPaid, Unspent, Sum, Providers
<1>. QED
  BY <1>1, <1>2, <1>3

LEMMA PaidAgain ==
    ASSUME NEW p, IsPaid(p), NEW avail PROVE IsPaid([Unspent EXCEPT !.avail = avail])
BY Nothing0 DEF IsPaid, Unspent

(* The next move is one the budget has room for, not made before.          *)
LEMMA NextMoveIsNew ==
    ASSUME IsPaid(paid), NEW known, NEW mv \in NextMove(known)
    PROVE  /\ ActionsLeft > 0
           /\ mv[2] \in Providers
           /\ Resolve(mv[1], mv[2]) # "none"
           /\ <<mv[2], Resolve(mv[1], mv[2])>> \notin paid.calls
<1>1. ~(ActionsLeft <= 0) /\ \E floor : Usable(mv, floor)
  BY DEF NextMove
<1>2. ActionsLeft > 0
  BY <1>1, ResearchAssumption DEF IsPaid, ActionsLeft, Providers
<1>. QED
  BY <1>1, <1>2 DEF Usable, Unasked

LEMMA Spent ==
    ASSUME IsPaid(paid), NEW known, NEW mv \in NextMove(known)
    PROVE  IsPaid(Spend(mv[1], mv[2]))
<1>. DEFINE kind == mv[2]
            call == <<kind, Resolve(mv[1], kind)>>
<1>0. kind \in Providers /\ call \notin paid.calls /\ ActionsLeft > 0
  BY NextMoveIsNew
<1>1. PICK spent : spent = [paid.spent EXCEPT ![kind] = @ + 1]
  OBVIOUS
<1>2. spent \in [Providers -> Nat] /\ Sum(spent) = Sum(paid.spent) + 1
  BY <1>0, <1>1 DEF IsPaid, Sum, Providers
<1>3. PICK calls : calls = paid.calls \cup {call}
  OBVIOUS
<1>4. IsFiniteSet(calls) /\ Cardinality(calls) = Cardinality(paid.calls) + 1
  BY <1>0, <1>3, FS_AddElement DEF IsPaid
<1>5. Sum(spent) <= MaxActions
  BY <1>0, <1>2, ResearchAssumption DEF ActionsLeft, Sum, IsPaid, Providers
<1>6. PICK p : p = [paid EXCEPT !.spent = spent, !.calls = calls]
  OBVIOUS
<1>7. p = Spend(mv[1], mv[2])
  BY <1>1, <1>3, <1>6 DEF Spend
<1>8. IsPaid(p)
  BY <1>2, <1>4, <1>5, <1>6 DEF IsPaid
<1>. QED
  BY <1>7, <1>8

(* What is remembered of barren gaps, refusals and gaps closed is no part  *)
(* of the account.                                                         *)
LEMMA Remembered ==
    ASSUME NEW p, IsPaid(p), NEW b, NEW r, NEW c
    PROVE  IsPaid([p EXCEPT !.barren = b, !.refusing = r, !.closed = c])
<1>1. PICK q : q = [p EXCEPT !.barren = b, !.refusing = r, !.closed = c]
  OBVIOUS
<1>2. IsPaid(q)
  BY <1>1 DEF IsPaid
<1>. QED
  BY <1>1, <1>2

LEMMA Batched ==
    ASSUME NEW c, IsCrawl(c), NEW known, NEW batch \in Batches(c, known)
    PROVE  batch \subseteq c.left /\ IsFiniteSet(batch)
<1>1. batch \subseteq c.left
  BY DEF Batches
<1>2. IsFiniteSet(c.left)
  BY ResearchAssumption, FS_Subset DEF IsCrawl
<1>. QED
  BY <1>1, <1>2, FS_Subset

LEMMA RInvInit ==
    ASSUME RInit PROVE RInv
BY Nothing0 DEF RInit, RInv

(* How an iteration of the loop leaves it: a batch read, for now or for    *)
(* good, because the goals are met or, with no one hunted, it stalled.     *)
Advanced(c, known) ==
    \/ crawl' = [c EXCEPT !.at = "hunting"] /\ StopDecision(c, known)
    \/ \E stall \in Nat : crawl' = [c EXCEPT !.stall = stall]
    \/ \E stall \in Nat : crawl' = [c EXCEPT !.at = "hunting", !.stall = stall] /\ ~PersonHunt(known)

LEMMA Concluded ==
    ASSUME NEW c, IsCrawl(c), NEW known, NEW flat, crawl' = AfterBatch(c, known, flat)
    PROVE  Advanced(c, known)
<1>1. PICK stall : stall = IF Stalled(known, flat) THEN c.stall + 1
                           ELSE IF PersonHunt(known) THEN c.stall ELSE 0
  OBVIOUS
<1>2. stall \in Nat
  BY <1>1 DEF IsCrawl
<1>3. Stalled(known, flat) => ~PersonHunt(known)
  BY DEF Stalled
<1>4. crawl' = IF StopDecision(c, known) THEN [c EXCEPT !.at = "hunting"]
               ELSE IF ~Stalled(known, flat) \/ stall < 2 THEN [c EXCEPT !.stall = stall]
               ELSE IF WorthContinuing(c, known) THEN [c EXCEPT !.stall = 0]
               ELSE [c EXCEPT !.at = "hunting", !.stall = stall]
  BY <1>1 DEF AfterBatch
<1>. QED
  BY <1>2, <1>3, <1>4 DEF Advanced

LEMMA CrawlAdvances ==
    ASSUME IsCrawl(crawl), Crawl
    PROVE  \/ IsCrawl(crawl') /\ crawl'.at = "crawling"
           \/ \E c : IsCrawl(c) /\ c.at = "crawling" /\ Advanced(c, Ground(raw', c.kept))
<1>1. PICK batch \in Batches(crawl, Known) :
          LET tried == [crawl EXCEPT !.left = @ \ batch] IN
          \/ crawl' = tried /\ UNCHANGED raw
          \/ \E got \in SUBSET batch \ {{}} :
             \E found \in Extractions(got) :
                LET read == Merged(raw, found)
                    c == [tried EXCEPT !.kept = @ \cup got]
                    known == Ground(read, c.kept)
                IN /\ raw' = read
                   /\ \E flat \in IF known = Known THEN {TRUE} ELSE BOOLEAN :
                        crawl' = AfterBatch(c, known, flat)
  BY DEF Crawl
<1>2. batch \subseteq crawl.left /\ IsFiniteSet(batch)
  BY Batched
<1>3. PICK tried : tried = [crawl EXCEPT !.left = @ \ batch]
  OBVIOUS
<1>4. IsCrawl(tried) /\ tried.at = "crawling"
  BY <1>3 DEF IsCrawl, Crawl, CrawlStates
<1>5. CASE crawl' = tried
  BY <1>4, <1>5
<1>6. CASE crawl' # tried
  <2>1. PICK got, flat :
           got \in SUBSET batch /\
           LET c == [tried EXCEPT !.kept = @ \cup got]
           IN crawl' = AfterBatch(c, Ground(raw', c.kept), flat)
    BY <1>1, <1>3, <1>6
  <2>2. PICK c : c = [tried EXCEPT !.kept = @ \cup got]
    OBVIOUS
  <2>3. IsFiniteSet(got) /\ got \subseteq Linked
    BY <1>2, <2>1, FS_Subset DEF IsCrawl
  <2>4. PICK kept : kept = tried.kept \cup got
    OBVIOUS
  <2>5. IsFiniteSet(kept) /\ kept \subseteq Sites
    BY <1>4, <2>3, <2>4, FS_Union DEF IsCrawl, Sites
  <2>6. IsCrawl(c) /\ c.at = "crawling"
    BY <1>4, <2>2, <2>4, <2>5 DEF IsCrawl
  <2>7. PICK known : known = Ground(raw', c.kept)
    OBVIOUS
  <2>8. crawl' = AfterBatch(c, known, flat)
    BY <2>1, <2>2, <2>7
  <2>9. Advanced(c, known)
    BY <2>6, <2>8, Concluded
  <2>. QED
    BY <2>6, <2>7, <2>9
<1>. QED
  BY <1>5, <1>6

LEMMA CrawlStep ==
    ASSUME RInv, Crawl \/ ExtractFails \/ CrawlEnds PROVE IsCrawl(crawl')
<1>0. IsCrawl(crawl)
  BY DEF RInv
<1>1. CASE Crawl
  BY <1>0, <1>1, CrawlAdvances DEF Advanced, IsCrawl, CrawlStates
<1>2. CASE ExtractFails
  <2>1. PICK batch \in Batches(crawl, Known) :
           crawl' = [crawl EXCEPT !.left = @ \ batch, !.at = "hunting", !.why = "failed"]
    BY <1>2 DEF ExtractFails
  <2>. QED
    BY <1>0, <2>1 DEF IsCrawl, CrawlStates
<1>3. CASE CrawlEnds
  BY <1>0, <1>3 DEF CrawlEnds, IsCrawl, CrawlStates
<1>. QED
  BY <1>1, <1>2, <1>3

LEMMA RInvStep ==
    ASSUME RInv, RPart PROVE RInv'
<1>. USE DEF RInv
<1>1. CASE Homepage
  <2>1. PICK page \in {"home", "press"}, at \in CrawlStates, founder \in BOOLEAN :
           /\ \E avail : paid' = [Unspent EXCEPT !.avail = avail]
           /\ crawl' = [NoCrawl EXCEPT !.kept = {page}, !.founder = founder, !.left = Linked, !.at = at]
    BY <1>1 DEF Homepage, CrawlStates
  <2>2. IsCrawl(crawl')
    BY <2>1, FS_Singleton DEF IsCrawl, NoCrawl, Sites
  <2>3. IsPaid(paid')
    BY <2>1, Nothing0, PaidAgain
  <2>. QED
    BY <1>1, <2>2, <2>3 DEF Homepage, IsReport
<1>2. CASE Unreachable
  BY <1>2 DEF Unreachable, IsCrawl, CrawlStates, IsReport, IsPaid
<1>3. CASE Crawl \/ ExtractFails \/ CrawlEnds
  BY <1>3, CrawlStep DEF Crawl, ExtractFails, CrawlEnds, IsReport, IsPaid
<1>4. CASE HuntPeople
  BY <1>4 DEF HuntPeople, IsCrawl, CrawlStates, IsReport, IsPaid
<1>5. CASE AskForPeople
  <2>1. PICK more \in {{"elsewhere"}, {}} :
           crawl' = [NoCrawl EXCEPT !.at = "paying", !.kept = crawl.kept \cup more]
    BY <1>5 DEF AskForPeople
  <2>2. PICK kept : kept = crawl.kept \cup more
    OBVIOUS
  <2>3. kept \subseteq Sites /\ IsFiniteSet(kept)
    <3>1. CASE more = {}
      BY <2>2, <3>1 DEF IsCrawl
    <3>2. CASE more = {"elsewhere"}
      BY <2>2, <3>2, FS_AddElement DEF IsCrawl, Sites
    <3>. QED
      BY <3>1, <3>2
  <2>4. IsCrawl(crawl')
    BY <2>1, <2>2, <2>3 DEF IsCrawl, NoCrawl, CrawlStates
  <2>. QED
    BY <1>5, <2>4 DEF AskForPeople, IsReport, IsPaid
<1>6. CASE PaidForNothing
  <2>1. PICK mv \in NextMove(Known) : \E b, r :
           paid' = [Spend(mv[1], mv[2]) EXCEPT !.barren = b, !.refusing = r]
    BY <1>6 DEF PaidForNothing
  <2>2. IsPaid(paid')
    BY <2>1, Spent DEF IsPaid
  <2>. QED
    BY <1>6, <2>2 DEF PaidForNothing, IsCrawl, IsReport
<1>7. CASE SearchPaysOff
  <2>1. PICK mv \in NextMove(Known) :
           \E c : paid' = [Spend(mv[1], mv[2]) EXCEPT !.closed = c]
    BY <1>7 DEF SearchPaysOff
  <2>2. IsPaid(paid')
    BY <2>1, Spent DEF IsPaid
  <2>. QED
    BY <1>7, <2>2 DEF SearchPaysOff, IsCrawl, IsReport
<1>8. CASE ScrapePaysOff
  <2>1. PICK mv \in NextMove(Known) :
           /\ \E b : paid' = [Spend(mv[1], mv[2]) EXCEPT !.barren = b]
           /\ crawl' = [crawl EXCEPT !.kept = crawl.kept \cup {Resolve(mv[1], mv[2])}]
           /\ mv[2] = "firecrawl" /\ UNCHANGED report
    BY <1>8 DEF ScrapePaysOff
  <2>2. IsPaid(paid')
    BY <2>1, Spent DEF IsPaid
  <2>3. Resolve(mv[1], mv[2]) \in Sites
    BY <2>1, NextMoveIsNew DEF Resolve, Sites
  <2>4. PICK kept : kept = crawl.kept \cup {Resolve(mv[1], mv[2])}
    OBVIOUS
  <2>5. kept \subseteq Sites /\ IsFiniteSet(kept)
    BY <2>3, <2>4, FS_AddElement DEF IsCrawl
  <2>6. IsCrawl(crawl')
    BY <2>1, <2>4, <2>5 DEF IsCrawl
  <2>. QED
    BY <2>1, <2>2, <2>6 DEF IsReport
<1>9. CASE PayingEnds
  BY <1>9 DEF PayingEnds, IsCrawl, CrawlStates, IsReport, IsPaid
<1>10. CASE Finalize
  <2>1. PICK email \in Addresses :
           report' = [report EXCEPT !.known = Known, !.recent = Known \cap {"recent_signal"} # {},
                                    !.email = email, !.send = email]
    BY <1>10 DEF Finalize, Addresses
  <2>2. IsCrawl(crawl')
    BY <1>10, Nothing0 DEF Finalize, IsCrawl, CrawlStates
  <2>3. IsPaid(paid')
    BY <1>10, PaidAgain DEF Finalize
  <2>4. IsReport(report')
    BY <2>1 DEF IsReport
  <2>. QED
    BY <2>2, <2>3, <2>4
<1>11. CASE Apollo
  <2>1. PICK email \in Addresses, send \in Addresses :
           report' \in {report, [report EXCEPT !.send = send, !.email = email]}
    BY <1>11 DEF Apollo, IsReport, Addresses
  <2>2. IsReport(report')
    BY <2>1 DEF IsReport
  <2>. QED
    BY <1>11, <2>2 DEF Apollo, IsCrawl, CrawlStates, IsPaid
<1>12. CASE News
  <2>1. PICK recent \in BOOLEAN : report' = [report EXCEPT !.recent = recent]
    BY <1>12 DEF News, IsReport
  <2>2. IsReport(report')
    BY <2>1 DEF IsReport
  <2>. QED
    BY <1>12, <2>2 DEF News, IsCrawl, CrawlStates, IsPaid
<1>13. CASE Posts
  <2>1. PICK recent \in BOOLEAN, status \in {"ok", "skip"} :
           report' = [report EXCEPT !.recent = recent, !.status = status]
    BY <1>13 DEF Posts, IsReport
  <2>2. IsReport(report')
    BY <2>1 DEF IsReport
  <2>. QED
    BY <1>13, <2>2 DEF Posts, IsCrawl, CrawlStates, IsPaid
<1>14. CASE Handed
  <2>1. IsReport(report')
    BY <1>14, Nothing0 DEF Handed, IsReport, Addresses
  <2>. QED
    BY <1>14, <2>1, Nothing0 DEF Handed
<1>15. CASE Read
  BY <1>15, Nothing0 DEF Read, IsCrawl, IsPaid
<1>16. CASE UNCHANGED rvars
  BY <1>16 DEF rvars, IsCrawl, IsReport, IsPaid
<1>. QED
  BY <1>1, <1>2, <1>3, <1>4, <1>5, <1>6, <1>7, <1>8, <1>9, <1>10, <1>11, <1>12, <1>13, <1>14,
     <1>15, <1>16 DEF RPart, RNext

(* No request to a paid provider is made twice, and no more are made than  *)
(* EVIDENCE_MAX_ACTIONS, whatever pages, setups and answers                *)
(* (evidence_loop.run_evidence_loop).                                      *)
THEOREM NeverPaysTwiceHolds == PSpec => []NeverPaysTwice
<1>1. PInit => RInv
  BY RInvInit DEF PInit
<1>2. RInv /\ [PNext]_pvars => RInv'
  BY RInvStep, Parts
<1>3. RInv => NeverPaysTwice
  <2>. SUFFICES ASSUME IsPaid(paid) PROVE NeverPaysTwice
    BY DEF RInv
  <2>1. paid.spent["firecrawl"] \in Nat /\ paid.spent["tavily"] \in Nat /\ paid.spent["x"] \in Nat
    BY DEF IsPaid, Providers
  <2>2. Cardinality(paid.calls) = Sum(paid.spent) /\ Sum(paid.spent) <= MaxActions
    BY DEF IsPaid
  <2>. QED
    BY <2>1, <2>2, ResearchAssumption DEF NeverPaysTwice, ActionsLeft, Sum
<1>. QED
  BY <1>1, <1>2, <1>3, PTL DEF PSpec

(* Each part of the research that acts at a given place.                   *)
LEMMA Finalizing ==
    ASSUME RPart, crawl.at = "finalizing" PROVE Finalize \/ Read \/ UNCHANGED rvars
BY DEF Handed, RPart, RNext, Homepage, Unreachable, Crawl, ExtractFails, CrawlEnds, HuntPeople, AskForPeople,
       PaidForNothing, SearchPaysOff, ScrapePaysOff, PayingEnds, Apollo, News, Posts

(* A search fills slots of the graph, and nothing else.                    *)
GInv == extra \subseteq Slots

LEMMA MoveOfASlot ==
    ASSUME NEW known, NEW mv \in NextMove(known) PROVE mv[1] \in Slots
<1>1. PICK i \in PlanMoves(known, paid.avail) : mv = Moves[i]
  BY DEF NextMove
<1>2. Moves[i][1] \in Missing(known)
  BY <1>1 DEF PlanMoves
<1>. QED
  BY <1>1, <1>2 DEF Missing

LEMMA GInvStep == ASSUME GInv, RPart PROVE GInv'
<1>1. CASE SearchPaysOff
  <2>1. PICK mv \in NextMove(Known) : extra' = extra \cup {mv[1]}
    BY <1>1 DEF SearchPaysOff
  <2>. QED
    BY <2>1, MoveOfASlot DEF GInv
<1>2. UNCHANGED extra \/ extra' = {} \/ SearchPaysOff
  BY DEF RPart, RNext, Homepage, Unreachable, Crawl, ExtractFails, CrawlEnds, HuntPeople, AskForPeople,
         PaidForNothing, ScrapePaysOff, PayingEnds, Finalize, Apollo, News, Posts, Handed, Read, rvars
<1>. QED
  BY <1>1, <1>2 DEF GInv

LEMMA MergedGrows ==
    ASSUME NEW read, NEW found, NEW p \in Sites PROVE read[p] \subseteq Merged(read, found)[p]
BY DEF Merged

LEMMA GroundGrows ==
    ASSUME NEW read, NEW more, NEW kept, NEW wider, kept \subseteq wider,
           \A p \in kept : read[p] \subseteq more[p]
    PROVE  Ground(read, kept) \subseteq Ground(more, wider)
<1>. SUFFICES ASSUME NEW f \in Facts, NEW p \in kept, Tells(read, p, f)
              PROVE  Tells(more, p, f)
  BY DEF Ground
<1>. QED
  BY DEF Tells, Quoted

(* What is known but for a search's own finds loses a gap only to the      *)
(* customers, who make a person theirs.                                    *)
LEMMA OpensOnlySo ==
    ASSUME NEW k, NEW l, NEW e \in SUBSET Slots, k \ e \subseteq l, NEW s \in Missing(l) \ Missing(k)
    PROVE  (s = "founder" /\ "customers" \in l \ k) \/ s \in e
<1>1. "business_model" \notin Slots /\ "adviser" \notin Slots
  BY DEF Slots, Order
<1>2. Has(k, s) /\ ~ Has(l, s)
  BY DEF Missing
<1>3. CASE s = "pricing"
  BY <1>1, <1>2, <1>3 DEF Has
<1>4. CASE s = "founder"
  BY <1>1, <1>2, <1>4 DEF Has
<1>5. CASE s \notin {"pricing", "founder"}
  <2>1. s \in k /\ s \notin l
    BY <1>2, <1>5 DEF Has
  <2>. QED
    BY <2>1
<1>. QED
  BY <1>3, <1>4, <1>5

LEMMA KeptThrough ==
    ASSUME NEW c, IsCrawl(c), NEW known, NEW flat PROVE AfterBatch(c, known, flat).kept = c.kept
BY DEF AfterBatch, IsCrawl

(* While the run works, nothing read is lost, and a search's finds are     *)
(* kept or dropped together.                                               *)
Retained ==
    /\ crawl.kept \subseteq crawl'.kept
    /\ \A p \in crawl.kept : raw[p] \subseteq raw'[p]
    /\ extra \subseteq extra' \/ extra' = {}

LEMMA WorkRetains == ASSUME RInv, RPart, Working PROVE Retained
<1>0. IsCrawl(crawl) /\ crawl.kept \subseteq Sites
  BY DEF RInv, IsCrawl
<1>1. CASE Crawl
  <2>1. PICK batch \in Batches(crawl, Known) :
          LET tried == [crawl EXCEPT !.left = @ \ batch] IN
          \/ crawl' = tried /\ UNCHANGED raw
          \/ \E got \in SUBSET batch \ {{}} :
             \E found \in Extractions(got) :
                LET read == Merged(raw, found)
                    c == [tried EXCEPT !.kept = @ \cup got]
                    known == Ground(read, c.kept)
                IN /\ raw' = read
                   /\ \E flat \in IF known = Known THEN {TRUE} ELSE BOOLEAN :
                        crawl' = AfterBatch(c, known, flat)
    BY <1>1 DEF Crawl
  <2>2. PICK tried : tried = [crawl EXCEPT !.left = @ \ batch]
    OBVIOUS
  <2>3. batch \subseteq crawl.left /\ IsFiniteSet(batch)
    BY <1>0, Batched
  <2>4. IsCrawl(tried) /\ tried.kept = crawl.kept
    BY <1>0, <2>2 DEF IsCrawl
  <2>5. CASE crawl' = tried /\ UNCHANGED raw
    BY <1>1, <2>4, <2>5 DEF Retained, Crawl
  <2>6. CASE ~ (crawl' = tried /\ UNCHANGED raw)
    <3>1. PICK got, found, flat :
             /\ got \in SUBSET batch /\ raw' = Merged(raw, found)
             /\ crawl' = AfterBatch([tried EXCEPT !.kept = @ \cup got],
                                    Ground(Merged(raw, found), [tried EXCEPT !.kept = @ \cup got].kept), flat)
      BY <2>1, <2>2, <2>6
    <3>2. PICK kept : kept = crawl.kept \cup got
      OBVIOUS
    <3>3. PICK c : c = [tried EXCEPT !.kept = kept]
      OBVIOUS
    <3>4. IsFiniteSet(got) /\ got \subseteq Linked
      BY <1>0, <2>3, <3>1, FS_Subset DEF IsCrawl
    <3>5. IsFiniteSet(kept) /\ kept \subseteq Sites
      BY <1>0, <3>2, <3>4, FS_Union DEF IsCrawl, Sites
    <3>6. IsCrawl(c) /\ c.kept = kept
      BY <2>4, <3>3, <3>5 DEF IsCrawl
    <3>7. c = [tried EXCEPT !.kept = @ \cup got]
      BY <2>4, <3>2, <3>3
    <3>8. PICK known : known = Ground(Merged(raw, found), c.kept)
      OBVIOUS
    <3>9. crawl' = AfterBatch(c, known, flat)
      BY <3>1, <3>7, <3>8
    <3>10. crawl'.kept = kept
      BY <3>6, <3>9, KeptThrough
    <3>11. UNCHANGED extra
      BY <1>1 DEF Crawl
    <3>. QED
      BY <1>0, <3>1, <3>2, <3>10, <3>11, MergedGrows DEF Retained
  <2>. QED
    BY <2>5, <2>6
<1>2. CASE ExtractFails
  <2>1. PICK batch : crawl' = [crawl EXCEPT !.left = @ \ batch, !.at = "hunting", !.why = "failed"]
    BY <1>2 DEF ExtractFails
  <2>2. crawl'.kept = crawl.kept
    BY <1>0, <2>1 DEF IsCrawl
  <2>3. UNCHANGED extra /\ (UNCHANGED raw \/ \E found : raw' = Merged(raw, found))
    BY <1>2 DEF ExtractFails
  <2>. QED
    BY <1>0, <2>2, <2>3, MergedGrows DEF Retained
<1>3. CASE CrawlEnds \/ PayingEnds
  BY <1>0, <1>3 DEF CrawlEnds, PayingEnds, Retained, IsCrawl
<1>4. CASE HuntPeople
  <2>1. crawl'.kept = crawl.kept /\ UNCHANGED extra
    BY <1>0, <1>4 DEF HuntPeople, IsCrawl
  <2>2. \E found : raw' = Merged(raw, found)
    BY <1>4 DEF HuntPeople
  <2>. QED
    BY <1>0, <2>1, <2>2, MergedGrows DEF Retained
<1>5. CASE AskForPeople
  <2>1. PICK named : /\ raw' = IF named THEN Merged(raw, [p \in {"elsewhere"} |-> {"founder"}]) ELSE raw
                     /\ crawl' = [NoCrawl EXCEPT !.at = "paying",
                                    !.kept = crawl.kept \cup IF named THEN {"elsewhere"} ELSE {}]
    BY <1>5 DEF AskForPeople
  <2>2. crawl.kept \subseteq crawl'.kept
    BY <2>1 DEF NoCrawl
  <2>3. UNCHANGED raw \/ \E found : raw' = Merged(raw, found)
    BY <2>1
  <2>4. UNCHANGED extra
    BY <1>5 DEF AskForPeople
  <2>. QED
    BY <1>0, <2>2, <2>3, <2>4, MergedGrows DEF Retained
<1>6. CASE PaidForNothing
  BY <1>6 DEF PaidForNothing, Retained
<1>7. CASE SearchPaysOff
  <2>1. extra \subseteq extra'
    BY <1>7 DEF SearchPaysOff
  <2>. QED
    BY <1>7, <2>1 DEF SearchPaysOff, Retained
<1>8. CASE ScrapePaysOff
  <2>0. PICK page, r : LET read == Merged(raw, [p \in {page} |-> r])
                           kept == crawl.kept \cup {page}
                       IN raw' = read /\ extra' = {} /\ crawl' = [crawl EXCEPT !.kept = kept]
    BY <1>8 DEF ScrapePaysOff
  <2>1. PICK kept, found : /\ crawl' = [crawl EXCEPT !.kept = kept] /\ crawl.kept \subseteq kept
                           /\ raw' = Merged(raw, found) /\ extra' = {}
    BY <2>0
  <2>2. crawl'.kept = kept
    BY <1>0, <2>1 DEF IsCrawl
  <2>. QED
    BY <1>0, <2>1, <2>2, MergedGrows DEF Retained
<1>9. CASE Read \/ UNCHANGED rvars
  BY <1>9 DEF Read, rvars, Retained
<1>. QED
  BY <1>1, <1>2, <1>3, <1>4, <1>5, <1>6, <1>7, <1>8, <1>9
     DEF RPart, RNext, Working, Homepage, Unreachable, Finalize, Apollo, News, Posts, Handed

LEMMA ReopensOnlySo ==
    ASSUME RInv, GInv, RPart, Working, NEW s \in Reopened
    PROVE  (s = "founder" /\ "customers" \in Known' \ Known) \/ (s \in extra /\ extra' = {})
<1>1. Retained
  BY WorkRetains
<1>2. PICK k, l : k = Known /\ l = Known'
  OBVIOUS
<1>3. PICK read, more, kept, wider :
         read = raw /\ more = raw' /\ kept = crawl.kept /\ wider = crawl'.kept
  OBVIOUS
<1>4. Ground(read, kept) \subseteq Ground(more, wider)
  BY <1>1, <1>3, GroundGrows DEF Retained
<1>5. k = Ground(read, kept) \cup extra /\ l = Ground(more, wider) \cup extra'
  BY <1>2, <1>3 DEF Known
<1>6. s \in Missing(l) \ Missing(k)
  BY <1>2 DEF Reopened
<1>7. CASE extra' = {}
  BY <1>2, <1>4, <1>5, <1>6, <1>7, OpensOnlySo DEF GInv
<1>8. CASE extra \subseteq extra'
  <2>0. PICK nothing : nothing = {}
    OBVIOUS
  <2>1. nothing \in SUBSET Slots /\ k \ nothing \subseteq l
    BY <1>4, <1>5, <1>8, <2>0
  <2>2. s = "founder" /\ "customers" \in l \ k
    BY <1>6, <2>0, <2>1, OpensOnlySo
  <2>. QED
    BY <1>2, <2>2
<1>. QED
  BY <1>1, <1>7, <1>8 DEF Retained

(* What a page told a run is not forgotten while it works, and of a        *)
(* customer's story its profile has only what such a page may tell of its  *)
(* vendor and what a hook quotes from it (_merge_raw, verifier.verify,     *)
(* backfill_facts_from_hooks, _finalize).                                  *)
THEOREM GroundedHolds == PSpec => Grounded
<1>1. PInit => RInv /\ GInv
  BY RInvInit DEF PInit, RInit, GInv
<1>2. RInv /\ GInv /\ [PNext]_pvars => (RInv /\ GInv)'
  BY RInvStep, GInvStep, Parts
<1>3. RInv /\ GInv /\ [PNext]_pvars =>
      [/\ Working => \A s \in Reopened :
             \/ s = "founder" /\ "customers" \in Known' \ Known
             \/ s \in extra /\ extra' = {}
       /\ crawl.at = "finalizing" => \A f \in report'.known :
             \/ f \in extra
             \/ \E p \in crawl.kept \ Stories : f \in raw[p] \/ Quoted(raw, p, f)
             \/ \E p \in crawl.kept \cap Stories :
                   f \in {"pricing", "recent_signal"} \cup (raw[p] \cap StorySafe)]_rvars
  <2>. SUFFICES ASSUME RInv, GInv, RPart, ~ UNCHANGED rvars, crawl.at = "finalizing",
                       NEW f \in report'.known
                PROVE  \/ f \in extra
                       \/ \E p \in crawl.kept \ Stories : f \in raw[p] \/ Quoted(raw, p, f)
                       \/ \E p \in crawl.kept \cap Stories :
                             f \in {"pricing", "recent_signal"} \cup (raw[p] \cap StorySafe)
    BY Parts, ReopensOnlySo
  <2>1. CASE Finalize
    <3>1. PICK email : report' = [report EXCEPT !.known = Known,
                          !.recent = Known \cap {"recent_signal"} # {}, !.email = email, !.send = email]
      BY <2>1 DEF Finalize
    <3>2. f \in Known
      BY <3>1 DEF RInv, IsReport
    <3>3. CASE f \in extra
      BY <3>3
    <3>4. CASE f \notin extra
      <4>1. PICK p \in crawl.kept : Tells(raw, p, f)
        BY <3>2, <3>4 DEF Known, Ground
      <4>2. CASE p \notin Stories
        BY <4>1, <4>2 DEF Tells
      <4>3. CASE p \in Stories
        BY <4>1, <4>3 DEF Tells, Safe, Quoted, Backfill
      <4>. QED
        BY <4>2, <4>3
    <3>. QED
      BY <3>3, <3>4
  <2>2. CASE Read
    <3>1. report'.known = {}
      BY <2>2 DEF Read, NoReport
    <3>. QED
      BY <3>1
  <2>. QED
    BY <2>1, <2>2, Finalizing
<1>. QED
  BY <1>1, <1>2, <1>3, PTL DEF PSpec, Grounded

LEMMA Crawling0 ==
    ASSUME RPart, crawl.at = "crawling"
    PROVE  Crawl \/ ExtractFails \/ CrawlEnds \/ UNCHANGED crawl
BY DEF Handed, RPart, RNext, Homepage, Unreachable, HuntPeople, AskForPeople, PaidForNothing, SearchPaysOff,
       ScrapePaysOff, PayingEnds, Finalize, Apollo, News, Posts, Read, rvars

(* A crawl that lacks only a person ends with nowhere left to look for one *)
(* or no budget to look with, never because its score stood still          *)
(* (_stop_decision, _gap_ordered and the stall of _adaptive_research).     *)
THEOREM PeopleReadFirstHolds == PSpec => PeopleReadFirst
<1>1. PInit => RInv
  BY RInvInit DEF PInit
<1>2. RInv /\ [PNext]_pvars => RInv'
  BY RInvStep, Parts
<1>3. RInv /\ [PNext]_pvars =>
      [crawl.at = "crawling" /\ crawl'.at = "hunting" /\ crawl'.why # "failed"
         => LET known == Ground(raw', crawl'.kept)
            IN PersonHunt(known) => ~PersonSourcesLeft(crawl')]_rvars
  <2>. SUFFICES ASSUME RInv, RPart, crawl.at = "crawling", crawl'.at = "hunting", crawl'.why # "failed",
                       PersonHunt(Ground(raw', crawl'.kept))
                PROVE  ~PersonSourcesLeft(crawl')
    BY Parts
  <2>0. IsCrawl(crawl)
    BY DEF RInv
  <2>1. CASE Crawl
    <3>1. PICK c : IsCrawl(c) /\ c.at = "crawling" /\ Advanced(c, Ground(raw', c.kept))
      BY <2>0, <2>1, CrawlAdvances
    <3>2. crawl'.kept = c.kept /\ crawl'.left = c.left
      BY <3>1 DEF Advanced, IsCrawl
    <3>3. PICK known : known = Ground(raw', c.kept)
      OBVIOUS
    <3>4. PersonHunt(known)
      BY <3>2, <3>3
    <3>5. StopDecision(c, known)
      BY <3>1, <3>3, <3>4 DEF Advanced, IsCrawl
    <3>6. ~PersonSourcesLeft(c)
      BY <3>4, <3>5 DEF StopDecision, PersonHunt
    <3>. QED
      BY <3>2, <3>6 DEF PersonSourcesLeft, Room
  <2>2. CASE ExtractFails
    BY <2>0, <2>2 DEF ExtractFails, IsCrawl
  <2>3. CASE CrawlEnds
    <3>1. crawl'.kept = crawl.kept /\ crawl'.left = crawl.left /\ raw' = raw
      BY <2>0, <2>3 DEF CrawlEnds, IsCrawl
    <3>2. Room(crawl) \in Int
      BY <2>0, ResearchAssumption, FS_CardinalityType DEF IsCrawl, Room
    <3>3. crawl.left = {} \/ Room(crawl) <= 0 \/ crawl.left \cap People = {}
      BY <2>3 DEF CrawlEnds
    <3>4. ~PersonSourcesLeft(crawl)
      BY <3>2, <3>3 DEF PersonSourcesLeft
    <3>. QED
      BY <3>1, <3>4 DEF PersonSourcesLeft, Room
  <2>4. CASE Handed \/ UNCHANGED crawl
    BY <2>4 DEF Handed, NoCrawl
  <2>. QED
    BY <2>1, <2>2, <2>3, <2>4, Crawling0
<1>. QED
  BY <1>1, <1>2, <1>3, PTL DEF PSpec, PeopleReadFirst

-----------------------------------------------------------------------------
(* The writing of a preview                                                *)

Clean == {d \in Draft : ~d.hard /\ d.voice # "stacked"}
Touch == [slot: Nat, draft: Clean]
JobStates == Running \cup {"absent", "queued", "done", "cancelled"}
Job ==
    [at: JobStates, status: Statuses \cup {"none"}, route: Routes, draft: Draft,
     round: 0..MaxRepairs, slot: Nat, attempt: {1, 2}, sent: Seq(Touch)]

(* A draft on its way breaks no hard rule; once past the guard it is clean *)
(* and has an address, and stays so until the job is done.                 *)
JobOK(j) ==
    /\ j.at \in {"refining", "guarding"} => ~j.draft.hard
    /\ j.at = "following" \/ j.status = "sendable" => j.draft \in Clean /\ j.route = "address"
    /\ j.status = "sendable" => j.at = "done"

WInv ==
    /\ preview \in {"idle", "running", "answered"}
    /\ jobs \in [Prospects -> Job]
    /\ answer \in [Prospects -> Statuses \cup {"none", "timed_out"}]
    /\ \A p \in Prospects : JobOK(jobs[p])
    /\ \A p \in Prospects :
          answer[p] = "sendable" => jobs[p].at = "done" /\ jobs[p].status = "sendable"
    /\ preview = "idle" => \A p \in Prospects : answer[p] = "none"

LEMMA FreshJob ==
    /\ Fresh \in Job /\ Fresh.at = "absent" /\ Fresh.status = "none" /\ JobOK(Fresh)
    /\ [Fresh EXCEPT !.at = "queued"] \in Job /\ JobOK([Fresh EXCEPT !.at = "queued"])
    /\ \A status \in Statuses \ {"sendable"} :
          /\ [Fresh EXCEPT !.at = "done", !.status = status] \in Job
          /\ JobOK([Fresh EXCEPT !.at = "done", !.status = status])
<1>1. NoDraft \in Draft
  BY DEF NoDraft, Draft, Voice
<1>2. PICK none : none = <<>>
  OBVIOUS
<1>3. none \in Seq(Touch)
  BY <1>2
<1>4. 0 \in 0..MaxRepairs
  BY WritingAssumption
<1>5. Fresh \in Job
  BY <1>1, <1>2, <1>3, <1>4 DEF Fresh, Job, JobStates, Running, Routes
<1>6. Fresh.at = "absent" /\ Fresh.status = "none"
  BY DEF Fresh
<1>. QED
  BY <1>5, <1>6 DEF Job, JobStates, JobOK

(* A thread's step: one job that was not done, and nothing of the request. *)
LEMMA OneJob ==
    ASSUME WInv, NEW p \in Prospects, jobs[p].at # "done", NEW j \in Job, JobOK(j),
           jobs' = [jobs EXCEPT ![p] = j], UNCHANGED <<preview, answer>>
    PROVE  WInv'
<1>1. jobs' \in [Prospects -> Job]
  BY DEF WInv
<1>2. ASSUME NEW q \in Prospects
      PROVE  /\ JobOK(jobs'[q])
             /\ answer[q] = "sendable" => jobs'[q].at = "done" /\ jobs'[q].status = "sendable"
  BY DEF WInv
<1>. QED
  BY <1>1, <1>2 DEF WInv

LEMMA Finished ==
    ASSUME WInv, NEW p \in Prospects, jobs[p].at # "done", NEW status \in Statuses \ {"sendable"},
           Finish(p, status), UNCHANGED <<preview, answer>>
    PROVE  WInv'
BY FreshJob, OneJob DEF Finish, Becomes

LEMMA WInvInit ==
    ASSUME WInit PROVE WInv
BY FreshJob DEF WInit, WInv

LEMMA Touched ==
    ASSUME NEW job \in Job, job.at = "following", JobOK(job), NEW d \in Draft, NEW kept \in BOOLEAN,
           kept => d \in Clean
    PROVE  AfterTouch(job, d, kept) \in Job /\ JobOK(AfterTouch(job, d, kept))
<1>1. PICK sent : sent = IF kept THEN Append(job.sent, [slot |-> job.slot, draft |-> d]) ELSE job.sent
  OBVIOUS
<1>2. sent \in Seq(Touch)
  <2>1. kept => [slot |-> job.slot, draft |-> d] \in Touch
    BY DEF Touch, Job
  <2>2. job.sent \in Seq(Touch)
    BY DEF Job
  <2>3. CASE kept
    BY <1>1, <2>1, <2>2, <2>3
  <2>. QED
    BY <1>1, <2>2, <2>3
<1>3. PICK slot \in Nat : slot = job.slot + 1
  BY DEF Job
<1>4. PICK next : next = [job EXCEPT !.sent = sent, !.slot = slot, !.attempt = 1]
  OBVIOUS
<1>5. AfterTouch(job, d, kept) \in {[job EXCEPT !.attempt = 2], next,
                                    [next EXCEPT !.at = "done", !.status = "sendable"]}
  BY <1>1, <1>3, <1>4 DEF AfterTouch
<1>6. job.draft \in Clean /\ job.route = "address"
  BY DEF JobOK
<1>7. next \in Job /\ next.at = "following" /\ next.draft \in Clean /\ next.route = "address"
  BY <1>2, <1>4, <1>6 DEF Job
<1>8. next.status = job.status /\ JobOK(next)
  BY <1>4, <1>7 DEF JobOK, Job
<1>9. PICK last : last = [next EXCEPT !.at = "done", !.status = "sendable"]
  OBVIOUS
<1>10. last \in Job /\ JobOK(last)
  BY <1>7, <1>9 DEF Job, JobOK, JobStates, Statuses
<1>11. PICK again : again = [job EXCEPT !.attempt = 2]
  OBVIOUS
<1>12. again \in Job /\ JobOK(again)
  BY <1>11 DEF Job, JobOK
<1>. QED
  BY <1>5, <1>7, <1>8, <1>9, <1>10, <1>11, <1>12

LEMMA FollowupStep ==
    ASSUME WInv, NEW p \in Prospects, Followup(p) PROVE WInv'
<1>0. jobs[p] \in Job /\ JobOK(jobs[p]) /\ jobs[p].at = "following"
  BY DEF WInv, Followup
<1>1. PICK d \in [hard: BOOLEAN, weak: {FALSE}, voice: {"human", "stacked"}] :
         \E decision \in Decisions(d, jobs[p].route) :
            Becomes(p, AfterTouch(jobs[p], d, Kept(d, decision, jobs[p].attempt)))
  BY DEF Followup
<1>2. PICK decision \in Decisions(d, jobs[p].route) :
         Becomes(p, AfterTouch(jobs[p], d, Kept(d, decision, jobs[p].attempt)))
  BY <1>1
<1>3. PICK kept \in BOOLEAN : kept = Kept(d, decision, jobs[p].attempt)
  BY DEF Kept
<1>4. d \in Draft
  BY DEF Draft, Voice
<1>5. kept => d \in Clean
  BY <1>2, <1>3, <1>4 DEF Kept, Clean, Decisions, Blocked
<1>6. PICK j : j = AfterTouch(jobs[p], d, kept)
  OBVIOUS
<1>7. j \in Job /\ JobOK(j)
  BY <1>0, <1>4, <1>5, <1>6, Touched
<1>. QED
  BY <1>0, <1>2, <1>3, <1>6, <1>7, OneJob DEF Becomes, Followup

LEMMA WriteStep ==
    ASSUME WInv, NEW p \in Prospects, Write(p) PROVE WInv'
<1>0. jobs[p] \in Job /\ jobs[p].at = "drafting" /\ UNCHANGED <<preview, answer>>
  BY DEF WInv, Write
<1>00. JobOK(jobs[p])
  BY DEF WInv
<1>1. PICK d \in Draft :
          IF Regenerate(d, jobs[p].round) THEN Becomes(p, [jobs[p] EXCEPT !.round = @ + 1])
          ELSE IF d.hard THEN Finish(p, "writer_failed")
          ELSE Becomes(p, [jobs[p] EXCEPT !.at = "refining", !.draft = d, !.round = 0])
  BY DEF Write
<1>2. CASE Regenerate(d, jobs[p].round)
  <2>1. PICK round \in 0..MaxRepairs : round = jobs[p].round + 1
    BY <1>0, <1>2, WritingAssumption DEF Job, Regenerate
  <2>2. PICK j : j = [jobs[p] EXCEPT !.round = round]
    OBVIOUS
  <2>3. j \in Job /\ JobOK(j)
    BY <1>0, <1>00, <2>2 DEF Job, JobOK
  <2>. QED
    BY <1>0, <1>1, <1>2, <2>1, <2>2, <2>3, OneJob DEF Becomes
<1>3. CASE ~Regenerate(d, jobs[p].round) /\ d.hard
  BY <1>0, <1>1, <1>3, Finished DEF Statuses
<1>4. CASE ~Regenerate(d, jobs[p].round) /\ ~d.hard
  <2>0. PICK round \in 0..MaxRepairs : round = 0
    BY WritingAssumption
  <2>1. PICK j : j = [jobs[p] EXCEPT !.at = "refining", !.draft = d, !.round = round]
    OBVIOUS
  <2>2. j \in Job /\ j.at = "refining" /\ j.draft = d /\ j.status = jobs[p].status
    BY <1>0, <2>1 DEF Job, JobStates, Running
  <2>3. jobs[p].status # "sendable"
    BY <1>0, <1>00 DEF JobOK
  <2>. QED
    BY <1>0, <1>1, <1>4, <2>0, <2>1, <2>2, <2>3, OneJob DEF Becomes, JobOK
<1>. QED
  BY <1>2, <1>3, <1>4

LEMMA RefineStep ==
    ASSUME WInv, NEW p \in Prospects, MaybeRefine(p) PROVE WInv'
<1>0. jobs[p] \in Job /\ JobOK(jobs[p]) /\ jobs[p].at = "refining" /\ UNCHANGED <<preview, answer>>
  BY DEF WInv, MaybeRefine
<1>1. jobs[p].draft \in Draft /\ ~jobs[p].draft.hard
  BY <1>0 DEF Job, JobOK
<1>2. PICK refined \in Draft :
         Becomes(p, [jobs[p] EXCEPT !.at = "guarding",
                        !.draft = [Adopted(jobs[p].draft, refined) EXCEPT !.weak = FALSE]])
  BY <1>1 DEF MaybeRefine
<1>3. PICK adopted : adopted = Adopted(jobs[p].draft, refined)
  OBVIOUS
<1>4. adopted \in Draft /\ ~adopted.hard
  BY <1>1, <1>3 DEF Adopted
<1>5. PICK d : d = [adopted EXCEPT !.weak = FALSE]
  OBVIOUS
<1>6. d \in Draft /\ ~d.hard
  BY <1>4, <1>5 DEF Draft
<1>7. PICK j : j = [jobs[p] EXCEPT !.at = "guarding", !.draft = d]
  OBVIOUS
<1>8. j \in Job /\ j.at = "guarding" /\ j.draft = d /\ j.status = jobs[p].status
  BY <1>0, <1>6, <1>7 DEF Job, JobStates, Running
<1>9. JobOK(j)
  BY <1>0, <1>6, <1>8 DEF JobOK
<1>. QED
  BY <1>0, <1>2, <1>3, <1>5, <1>7, <1>8, <1>9, OneJob DEF Becomes

LEMMA GuardStep ==
    ASSUME WInv, NEW p \in Prospects, Guard(p) PROVE WInv'
<1>0. jobs[p] \in Job /\ JobOK(jobs[p]) /\ jobs[p].at = "guarding" /\ UNCHANGED <<preview, answer>>
  BY DEF WInv, Guard
<1>1. PICK decision \in Decisions(jobs[p].draft, jobs[p].route) :
          IF decision = "BLOCK" THEN Finish(p, "guard_blocked")
          ELSE IF jobs[p].route = "address"
          THEN Becomes(p, [jobs[p] EXCEPT !.at = "following", !.slot = 2])
          ELSE Finish(p, "route_only")
  BY DEF Guard
<1>2. CASE decision = "BLOCK" \/ jobs[p].route # "address"
  BY <1>0, <1>1, <1>2, Finished DEF Statuses
<1>3. CASE decision # "BLOCK" /\ jobs[p].route = "address"
  <2>1. jobs[p].draft \in Clean
    BY <1>0, <1>1, <1>3 DEF Decisions, Blocked, Clean, Job, JobOK
  <2>2. PICK j : j = [jobs[p] EXCEPT !.at = "following", !.slot = 2]
    OBVIOUS
  <2>3. j \in Job /\ j.at = "following" /\ j.status = jobs[p].status
    BY <1>0, <2>2 DEF Job, JobStates, Running
  <2>4. j.draft = jobs[p].draft /\ j.route = jobs[p].route
    BY <1>0, <2>2 DEF Job
  <2>5. JobOK(j)
    BY <1>0, <1>3, <2>1, <2>3, <2>4 DEF JobOK
  <2>. QED
    BY <1>0, <1>1, <1>3, <2>2, <2>3, <2>5, OneJob DEF Becomes
<1>. QED
  BY <1>2, <1>3

(* A job that moves on with its draft, or with none yet.                   *)
LEMMA OnItsWay ==
    ASSUME WInv, NEW p \in Prospects, jobs[p].at \in {"queued", "researching", "qualifying", "deciding"},
           NEW at \in {"researching", "qualifying", "deciding", "drafting"}, NEW route \in Routes,
           jobs' = [jobs EXCEPT ![p] = [jobs[p] EXCEPT !.at = at, !.route = route]],
           UNCHANGED <<preview, answer>>
    PROVE  WInv'
<1>0. jobs[p] \in Job /\ JobOK(jobs[p])
  BY DEF WInv
<1>1. PICK j : j = [jobs[p] EXCEPT !.at = at, !.route = route]
  OBVIOUS
<1>2. j \in Job /\ j.at = at /\ j.status = jobs[p].status
  BY <1>0, <1>1 DEF Job, JobStates, Running
<1>3. JobOK(j)
  BY <1>0, <1>2 DEF JobOK
<1>. QED
  BY <1>1, <1>2, <1>3, OneJob

LEMMA OnItsWay1 ==
    ASSUME WInv, NEW p \in Prospects, jobs[p].at \in {"queued", "researching", "qualifying", "deciding"},
           NEW at \in {"researching", "qualifying", "deciding", "drafting"},
           Becomes(p, [jobs[p] EXCEPT !.at = at]),
           UNCHANGED <<preview, answer>>
    PROVE  WInv'
<1>1. jobs[p] \in Job
  BY DEF WInv
<1>2. [jobs[p] EXCEPT !.at = at] = [jobs[p] EXCEPT !.at = at, !.route = jobs[p].route]
  BY <1>1 DEF Job
<1>3. jobs[p].route \in Routes
  BY <1>1 DEF Job
<1>. QED
  BY <1>2, <1>3, OnItsWay DEF Becomes

LEMMA ResearchStep ==
    ASSUME WInv, NEW p \in Prospects, NEW route \in Routes, NEW status, ResearchDone(p, status, route)
    PROVE  WInv'
<1>0. jobs[p].at = "researching" /\ UNCHANGED <<preview, answer>>
  BY DEF ResearchDone
<1>1. CASE status = "ok"
  BY <1>0, <1>1, OnItsWay DEF ResearchDone, Becomes
<1>2. CASE status # "ok"
  BY <1>0, <1>2, Finished DEF ResearchDone, Statuses
<1>. QED
  BY <1>1, <1>2

LEMMA ThreadStep ==
    ASSUME WInv, NEW p \in Prospects,
           \/ StartJob(p) \/ Qualify(p) \/ Decide(p) \/ Write(p) \/ WriteFails(p) \/ MaybeRefine(p)
           \/ Guard(p) \/ Followup(p) \/ Crashes(p)
    PROVE  WInv'
<1>1. CASE StartJob(p)
  BY <1>1, OnItsWay1 DEF StartJob
<1>2. CASE Qualify(p)
  BY <1>2, OnItsWay1, Finished DEF Qualify, Statuses
<1>3. CASE Decide(p)
  BY <1>3, OnItsWay1, Finished DEF Decide, Statuses
<1>4. CASE WriteFails(p) \/ Crashes(p)
  BY <1>4, Finished DEF WriteFails, Crashes, Statuses, Running
<1>. QED
  BY <1>1, <1>2, <1>3, <1>4, WriteStep, RefineStep, GuardStep, FollowupStep

(* The request: it starts, collects what is done, and answers.             *)
LEMMA RequestStep ==
    ASSUME WInv,
           \/ \E page \in SUBSET Prospects : Start(page)
           \/ \E p \in Prospects : Collect(p)
           \/ Deadline \/ Answer
    PROVE  WInv'
<1>1. ASSUME NEW page \in SUBSET Prospects, Start(page) PROVE WInv'
  <2>1. jobs' = [p \in Prospects |-> IF p \in page THEN [Fresh EXCEPT !.at = "queued"] ELSE Fresh]
    BY <1>1 DEF Start
  <2>2. jobs' \in [Prospects -> Job] /\ \A p \in Prospects : JobOK(jobs'[p])
    BY <2>1, FreshJob
  <2>3. preview' = "running" /\ answer' = answer /\ \A p \in Prospects : answer[p] = "none"
    BY <1>1 DEF Start, WInv
  <2>. QED
    BY <2>2, <2>3 DEF WInv
<1>2. ASSUME NEW p \in Prospects, Collect(p) PROVE WInv'
  <2>1. jobs[p].status \in Statuses \cup {"none"}
    BY DEF WInv, Job
  <2>2. PICK status : status = jobs[p].status
    OBVIOUS
  <2>3. answer' = [answer EXCEPT ![p] = status] /\ UNCHANGED <<preview, jobs>>
    BY <1>2, <2>2 DEF Collect
  <2>4. jobs[p].at = "done" /\ preview = "running"
    BY <1>2 DEF Collect, Awaited
  <2>5. answer' \in [Prospects -> Statuses \cup {"none", "timed_out"}]
    BY <2>1, <2>2, <2>3 DEF WInv
  <2>. QED
    BY <2>2, <2>3, <2>4, <2>5 DEF WInv
<1>3. CASE Deadline
  <2>1. /\ answer' = [p \in Prospects |-> IF p \in Uncollected THEN "timed_out" ELSE answer[p]]
        /\ jobs' = [p \in Prospects |-> IF jobs[p].at = "queued"
                                        THEN [jobs[p] EXCEPT !.at = "cancelled"] ELSE jobs[p]]
        /\ preview' = "answered"
    BY <1>3 DEF Deadline
  <2>2. ASSUME NEW p \in Prospects
        PROVE  jobs'[p] \in Job /\ JobOK(jobs'[p])
    <3>0. jobs[p] \in Job /\ JobOK(jobs[p])
      BY DEF WInv
    <3>1. CASE jobs[p].at = "queued"
      <4>1. PICK j : j = [jobs[p] EXCEPT !.at = "cancelled"]
        OBVIOUS
      <4>2. j \in Job /\ j.at = "cancelled" /\ j.status = jobs[p].status
        BY <3>0, <4>1 DEF Job, JobStates
      <4>3. JobOK(j)
        BY <3>0, <3>1, <4>2 DEF JobOK
      <4>. QED
        BY <2>1, <3>1, <4>1, <4>2, <4>3
    <3>. QED
      BY <2>1, <3>0, <3>1
  <2>3. ASSUME NEW p \in Prospects, answer'[p] = "sendable"
        PROVE  jobs'[p].at = "done" /\ jobs'[p].status = "sendable"
    BY <2>1, <2>3 DEF WInv
  <2>4. answer' \in [Prospects -> Statuses \cup {"none", "timed_out"}]
    BY <2>1 DEF WInv
  <2>5. jobs' \in [Prospects -> Job]
    BY <2>1, <2>2
  <2>. QED
    BY <2>1, <2>2, <2>3, <2>4, <2>5 DEF WInv
<1>4. CASE Answer
  BY <1>4 DEF Answer, WInv
<1>. QED
  BY <1>1, <1>2, <1>3, <1>4

LEMMA WInvStep ==
    ASSUME WInv, WPart PROVE WInv'
<1>1. CASE UNCHANGED wvars
  BY <1>1 DEF wvars, WInv
<1>. QED
  BY <1>1, ThreadStep, RequestStep, ResearchStep DEF WPart, WriteNext

(* What is offered for sending is clean, the e-mail and every follow-up    *)
(* kept, and has an address, whatever the model writes, the editor returns *)
(* and the guard decides, and however the request's deadline falls         *)
(* (_process_prospect, _followup_with_guard).                              *)
THEOREM SendableIsCleanHolds == PSpec => []SendableIsClean
<1>1. PInit => WInv
  BY WInvInit DEF PInit
<1>2. WInv /\ [PNext]_pvars => WInv'
  BY WInvStep, Parts
<1>3. WInv => SendableIsClean
  <2>. SUFFICES ASSUME WInv, NEW p \in Prospects, answer[p] = "sendable"
                PROVE  /\ jobs[p].route = "address"
                       /\ ~jobs[p].draft.hard /\ jobs[p].draft.voice # "stacked"
                       /\ \A i \in DOMAIN jobs[p].sent :
                             /\ ~jobs[p].sent[i].draft.hard
                             /\ jobs[p].sent[i].draft.voice # "stacked"
    BY DEF SendableIsClean
  <2>1. jobs[p].draft \in Clean /\ jobs[p].route = "address"
    BY DEF WInv, JobOK
  <2>2. jobs[p].sent \in Seq(Touch)
    BY DEF WInv, Job
  <2>3. ASSUME NEW i \in DOMAIN jobs[p].sent PROVE jobs[p].sent[i] \in Touch
    BY <2>2
  <2>. QED
    BY <2>1, <2>3 DEF Clean, Touch
<1>. QED
  BY <1>1, <1>2, <1>3, PTL DEF PSpec

(* A thread that outlives the deadline changes nothing in what the request *)
(* answered (_process_prospects collects only until its deadline).         *)
THEOREM AnswerStandsHolds == PSpec => AnswerStands
<1>1. [PNext]_pvars => [preview = "answered" => UNCHANGED answer]_wvars
  BY Parts DEF WPart, WriteNext, Start, ResearchDone, StartJob, Qualify, Decide, Write, WriteFails,
     MaybeRefine, Guard, Followup, Crashes, Collect, Awaited, Deadline, OutOfTime, Answer, wvars
<1>. QED
  BY <1>1, PTL DEF PSpec, AnswerStands

-----------------------------------------------------------------------------
(* The page of a search                                                    *)

IsSearch(s) ==
    s \in [at: {s.at}, plan: Plan, pass: Nat, seen: SUBSET Domains, merged: {s.merged},
           covers: {s.covers}, page: {s.page}, before: {s.before}, blind: BOOLEAN]

(* Only what is new to the owner is merged, as far as the table was read.  *)
OnlyNew(s) ==
    /\ ~s.blind => s.before \subseteq s.seen
    /\ \A d \in s.seen : s.merged[d] = None

Fits(page, m, plan) ==
    /\ page \subseteq Hits(m)
    /\ plan.stage => \A d \in page : m[d].cited
    /\ \A d \in page : m[d].tier # "company" =>
          \A e \in Hits(m) : Displayable(m[e], plan) /\ Qualified(m[e], plan) => e \in page

DInv ==
    /\ shown \subseteq table /\ table \subseteq Domains
    /\ IsSearch(search) /\ OnlyNew(search)
    /\ search.at \in {"saving", "shown"} => Fits(search.page, search.merged, search.plan)

LEMMA NoSearchFits ==
    IsSearch(NoSearch) /\ OnlyNew(NoSearch) /\ NoSearch.at = "idle"
BY DEF IsSearch, OnlyNew, NoSearch, Plan, Nothing

LEMMA DInvInit ==
    ASSUME DInit PROVE DInv
BY NoSearchFits DEF DInit, DInv

(* A page _rank allows fits.                                               *)
LEMMA PageFits ==
    ASSUME NEW m, NEW plan, NEW companies,
           companies = {d \in Hits(m) : Displayable(m[d], plan) /\ Qualified(m[d], plan)},
           NEW page \in Pages(companies, Fallback(m, plan), m, plan)
    PROVE  Fits(page, m, plan)
<1>. DEFINE fallback == Fallback(m, plan)
<1>1. page \subseteq companies \cup fallback
  BY DEF Pages
<1>2. \A d \in page, e \in (companies \cup fallback) \ page : d \in fallback => e \in fallback
  BY DEF Pages
<1>3. \A d \in companies : m[d].tier = "company"
  BY DEF Displayable
<1>4. \A d \in fallback : d \in Hits(m) /\ m[d].tier # "company" /\ ~plan.stage
  BY DEF Fallback
<1>5. page \subseteq Hits(m)
  BY <1>1, <1>4
<1>6. ASSUME plan.stage, NEW d \in page PROVE m[d].cited
  BY <1>1, <1>4, <1>6 DEF Qualified
<1>7. ASSUME NEW d \in page, m[d].tier # "company", NEW e \in Hits(m),
             Displayable(m[e], plan), Qualified(m[e], plan)
      PROVE  e \in page
  BY <1>1, <1>2, <1>3, <1>4, <1>7
<1>. QED
  BY <1>5, <1>6, <1>7 DEF Fits

LEMMA PassStep ==
    ASSUME DInv, Pass PROVE DInv'
<1>0. PICK apollo, web : search' = AfterPass(search, apollo, web)
  BY DEF Pass
<1>m. PICK merged : merged = Found(search, apollo, web)
  OBVIOUS
<1>1. PICK covers, at :
         /\ search' = [search EXCEPT !.pass = search.pass + 1, !.merged = merged, !.covers = covers,
                          !.at = at]
         /\ at \in {"searching", "verifying"}
  BY <1>0, <1>m DEF AfterPass
<1>2. ASSUME NEW d \in search.seen PROVE merged[d] = None
  <2>1. d \in Domains /\ search.merged[d] = None
    BY DEF DInv, IsSearch, OnlyNew
  <2>2. Unseen(apollo, search.seen)[d] = None /\ Unseen(web, search.seen)[d] = None
    BY <2>1 DEF Unseen
  <2>3. Merge(None, None) = None
    BY DEF Merge
  <2>. QED
    BY <1>m, <2>1, <2>2, <2>3 DEF Found
<1>3. PICK pass \in Nat : pass = search.pass + 1
  BY DEF DInv, IsSearch
<1>4. search' = [search EXCEPT !.pass = pass, !.merged = merged, !.covers = covers, !.at = at]
  BY <1>1, <1>3
<1>5. IsSearch(search') /\ OnlyNew(search') /\ search'.at = at
  BY <1>2, <1>4 DEF DInv, IsSearch, OnlyNew
<1>. QED
  BY <1>1, <1>5 DEF DInv, Pass

LEMMA DInvStep ==
    ASSUME DInv, DPart PROVE DInv'
<1>1. CASE Discover
  <2>0. PICK plan \in Plan, blind \in BOOLEAN :
           search' = [NoSearch EXCEPT !.at = "searching", !.plan = plan, !.before = shown,
                         !.blind = blind, !.seen = IF blind THEN {} ELSE table]
    BY <1>1 DEF Discover
  <2>1. PICK seen :
           /\ seen = IF blind THEN {} ELSE table
           /\ search' = [NoSearch EXCEPT !.at = "searching", !.plan = plan, !.before = shown,
                            !.blind = blind, !.seen = seen]
    BY <2>0
  <2>2. IsSearch(search') /\ search'.at = "searching"
    BY <2>1, NoSearchFits DEF IsSearch, DInv
  <2>3. \A d \in Domains : NoSearch.merged[d] = None
    BY DEF NoSearch, Nothing
  <2>4. OnlyNew(search')
    BY <2>1, <2>3, NoSearchFits DEF IsSearch, DInv, OnlyNew
  <2>. QED
    BY <1>1, <2>2, <2>4 DEF DInv, Discover
<1>2. CASE Pass
  BY <1>2, PassStep
<1>3. CASE VerifyHiring
  <2>1. PICK any, role :
           /\ any \subseteq Hits(search.merged) /\ role \subseteq Hits(search.merged)
           /\ search' = [search EXCEPT !.at = "gating",
                !.merged = [d \in Domains |->
                    IF d \in role THEN [search.merged[d] EXCEPT !.hiring = "role"]
                    ELSE IF d \in any THEN [search.merged[d] EXCEPT !.hiring = "any"]
                    ELSE search.merged[d]]]
    BY <1>3 DEF VerifyHiring
  <2>2. PICK m : m = [d \in Domains |->
                    IF d \in role THEN [search.merged[d] EXCEPT !.hiring = "role"]
                    ELSE IF d \in any THEN [search.merged[d] EXCEPT !.hiring = "any"]
                    ELSE search.merged[d]]
    OBVIOUS
  <2>3. \A d \in search.seen : m[d] = None
    BY <2>1, <2>2 DEF DInv, OnlyNew, Hits, IsSearch
  <2>4. IsSearch(search') /\ search'.at = "gating" /\ OnlyNew(search')
    BY <2>1, <2>2, <2>3 DEF DInv, IsSearch, OnlyNew
  <2>. QED
    BY <1>3, <2>4 DEF DInv, VerifyHiring
<1>4. CASE Gate
  <2>1. PICK cited, apart :
          LET m == Verified(search.merged, cited, apart)
              companies == {d \in Hits(m) : /\ Displayable(m[d], search.plan)
                                            /\ Qualified(m[d], search.plan)}
          IN \E page \in Pages(companies, Fallback(m, search.plan), m, search.plan) :
                search' = [search EXCEPT !.at = "saving", !.merged = m, !.page = page]
    BY <1>4 DEF Gate
  <2>2. PICK m : m = Verified(search.merged, cited, apart)
    OBVIOUS
  <2>3. PICK companies : companies = {d \in Hits(m) : /\ Displayable(m[d], search.plan)
                                                      /\ Qualified(m[d], search.plan)}
    OBVIOUS
  <2>4. PICK page \in Pages(companies, Fallback(m, search.plan), m, search.plan) :
           search' = [search EXCEPT !.at = "saving", !.merged = m, !.page = page]
    BY <2>1, <2>2, <2>3
  <2>5. Fits(page, m, search.plan)
    BY <2>3, PageFits
  <2>7. \A d \in search.seen : m[d] = None
    BY <2>2 DEF DInv, OnlyNew, Hits, IsSearch, Verified
  <2>8. IsSearch(search') /\ OnlyNew(search')
    BY <2>4, <2>7 DEF DInv, IsSearch, OnlyNew
  <2>9. search'.page = page /\ search'.merged = m /\ search'.plan = search.plan
    BY <2>4 DEF DInv, IsSearch
  <2>. QED
    BY <1>4, <2>5, <2>8, <2>9 DEF DInv, Gate
<1>5. CASE Save
  <2>1. search' = [search EXCEPT !.at = "shown"] /\ search.at = "saving"
    BY <1>5 DEF Save
  <2>2. IsSearch(search') /\ OnlyNew(search')
    BY <2>1 DEF DInv, IsSearch, OnlyNew
  <2>3. search'.page = search.page /\ search'.merged = search.merged /\ search'.plan = search.plan
    BY <2>1 DEF DInv, IsSearch
  <2>4. Fits(search'.page, search'.merged, search'.plan)
    BY <2>1, <2>3 DEF DInv
  <2>5. shown' \subseteq table' /\ table' \subseteq Domains
    BY <1>5, <2>1 DEF DInv, Save, Fits, Hits
  <2>. QED
    BY <2>2, <2>4, <2>5 DEF DInv
<1>6. CASE table' = {} /\ search' = NoSearch /\ shown' = {}
  BY <1>6, NoSearchFits DEF DInv
<1>7. CASE UNCHANGED dvars
  BY <1>7 DEF dvars, DInv
<1>. QED
  BY <1>1, <1>2, <1>3, <1>4, <1>5, <1>6, <1>7 DEF DPart, DNext

(* A place on the page is earned: by being new to the owner, by the        *)
(* citation that was asked for, or over the demoted, for any providers,    *)
(* plans and failures of the table (engine.discover, constraints.verify).  *)
THEOREM PageIsEarnedHolds == PSpec => []PageIsEarned
<1>1. PInit => DInv
  BY DInvInit DEF PInit
<1>2. DInv /\ [PNext]_pvars => DInv'
  BY DInvStep, Parts
<1>3. DInv => PageIsEarned
  <2>. SUFFICES ASSUME DInv PROVE PageIsEarned
    OBVIOUS
  <2>1. CASE search.at \in {"saving", "shown"}
    <3>1. Fits(search.page, search.merged, search.plan)
      BY <2>1 DEF DInv
    <3>2. search.page \cap search.seen = {}
      BY <3>1 DEF DInv, OnlyNew, Fits, Hits
    <3>3. NotShownAgain
      BY <2>1, <3>2 DEF DInv, OnlyNew, NotShownAgain, OnPage
    <3>4. StageIsCited /\ CompaniesFirst
      BY <2>1, <3>1 DEF Fits, StageIsCited, CompaniesFirst, OnPage
    <3>. QED
      BY <3>3, <3>4 DEF PageIsEarned
  <2>2. CASE search.at \notin {"saving", "shown"}
    BY <2>2 DEF PageIsEarned, NotShownAgain, StageIsCited, CompaniesFirst, OnPage
  <2>. QED
    BY <2>1, <2>2
<1>. QED
  BY <1>1, <1>2, <1>3, PTL DEF PSpec

-----------------------------------------------------------------------------
(* The public demo                                                         *)

Judged == {"reject", "research_more", "high_priority", "continue", "unread"}
Card == [score: {0, 20, 55, 80}, rec: Judged \cup {"none", "late"}]
Seat == [at: {"absent", "queued", "running", "done", "cancelled"}, found: Card]
Stream ==
    [at: {"idle", "discovering", "scoring", "ranking", "writing", "ended"},
     end: {"none", "empty", "error", "no_pursue", "draft", "draft_skip"},
     page: SUBSET Prospects, top: SUBSET Prospects, tries: {0, 1}]

ShownOf(page, cards, rec) == {p \in page : cards[p].rec = rec}
ScoredOf(page, cards) ==
    page \ (ShownOf(page, cards, "none") \cup ShownOf(page, cards, "late")
            \cup ShownOf(page, cards, "unread"))
(* The tally is what was shown.                                            *)
Tallied(t, page, cards) ==
    /\ t \in [late: Nat, unread: Nat]
    /\ t.late = Cardinality(ShownOf(page, cards, "late"))
    /\ t.unread = Cardinality(ShownOf(page, cards, "unread"))
TopOf(t, page, cards) ==
    \E top \in ScoredOf(page, cards) :
       /\ t = {top} /\ cards[top].rec \in Pursued
       /\ \A p \in ScoredOf(page, cards) : cards[p].score <= cards[top].score

SeatOK(f) == f \in Seat /\ (f.at = "done" => f.found.rec \in Judged)
(* Who has no seat has no card.                                            *)
Seated(page, seats, cards) ==
    /\ seats \in [Prospects -> Seat] /\ cards \in [Prospects -> Card]
    /\ \A p \in Prospects : SeatOK(seats[p])
    /\ \A p \in Prospects \ page : seats[p].at = "absent" /\ cards[p].rec = "none"
Staged(s, cards) ==
    /\ s \in Stream
    /\ s.at \in {"idle", "discovering"} => s.page = {}
    /\ s.at \in {"idle", "discovering", "scoring"} => ShownOf(s.page, cards, "late") = {}
    /\ s.at \in {"ranking", "writing", "ended"} => ShownOf(s.page, cards, "none") = {}
    /\ s.end # "none" => s.at = "ended"
    /\ s.at = "writing" \/ s.end = "draft" => TopOf(s.top, s.page, cards)

MInv ==
    /\ Staged(stream, card)
    /\ Seated(stream.page, seat, card)
    /\ Tallied(tally, stream.page, card)

LEMMA MInvInit ==
    ASSUME MInit PROVE MInv
<1>1. NoStream \in Stream /\ NoStream.page = {} /\ NoStream.at = "idle" /\ NoStream.end = "none"
  BY DEF NoStream, Stream
<1>2. NoCard \in Card /\ NoCard.rec = "none"
  BY DEF NoCard, Card, Judged
<1>3. PICK f : f = [at |-> "absent", found |-> NoCard]
  OBVIOUS
<1>4. SeatOK(f) /\ f.at = "absent"
  BY <1>2, <1>3 DEF SeatOK, Seat
<1>5. Staged(stream, card)
  BY <1>1 DEF MInit, Staged, ShownOf
<1>6. Seated(stream.page, seat, card)
  BY <1>2, <1>3, <1>4 DEF MInit, Seated, SeatOK
<1>7. NoTally \in [late: Nat, unread: Nat] /\ NoTally.late = 0 /\ NoTally.unread = 0
  BY DEF NoTally
<1>8. ShownOf(stream.page, card, "late") = {} /\ ShownOf(stream.page, card, "unread") = {}
  BY <1>1 DEF MInit, ShownOf
<1>9. Tallied(tally, stream.page, card)
  BY <1>7, <1>8, FS_EmptySet DEF MInit, Tallied
<1>. QED
  BY <1>5, <1>6, <1>9 DEF MInv

(* A thread touches its own seat, and the stream is none of its business.  *)
LEMMA OneSeat ==
    ASSUME MInv, NEW p \in Prospects, seat[p].at # "absent", NEW f, SeatOK(f),
           seat' = [seat EXCEPT ![p] = f], UNCHANGED <<stream, card, tally>>
    PROVE  MInv'
<1>1. p \in stream.page
  BY DEF MInv, Seated
<1>2. Seated(stream.page, seat', card)
  BY <1>1 DEF MInv, Seated, SeatOK
<1>. QED
  BY <1>2 DEF MInv

(* The stream moves on, and shows nothing new.                             *)
LEMMA StreamMoves ==
    ASSUME MInv, NEW s, stream' = s, Staged(s, card), s.page = stream.page,
           UNCHANGED <<seat, card, tally>>
    PROVE  MInv'
BY DEF MInv

LEMMA Judgement ==
    ASSUME NEW lead \in Dossier
    PROVE  Verdict(lead) \in Card /\ Verdict(lead).rec \in Judged
<1>1. Recommendation(lead) \in Judged
  BY DEF Recommendation, Judged
<1>2. Points[lead.score] \in {0, 20, 55, 80}
  BY DEF Points, Dossier
<1>. QED
  BY <1>1, <1>2 DEF Verdict, Card

LEMMA SeatStep ==
    ASSUME MInv, NEW p \in Prospects, TakeSeat(p) \/ Landed(p)
    PROVE  MInv'
<1>0. SeatOK(seat[p]) /\ seat[p].at # "absent" /\ UNCHANGED <<stream, card, tally>>
  BY DEF MInv, Seated, TakeSeat, Landed
<1>1. CASE TakeSeat(p)
  <2>1. PICK f : f = [seat[p] EXCEPT !.at = "running"]
    OBVIOUS
  <2>2. SeatOK(f)
    BY <1>0, <2>1 DEF SeatOK, Seat
  <2>. QED
    BY <1>0, <1>1, <2>1, <2>2, OneSeat DEF TakeSeat
<1>2. CASE Landed(p)
  <2>1. PICK found \in {Verdict(lead) : lead \in Dossier} \cup {Without("unread")} :
           seat' = [seat EXCEPT ![p] = [at |-> "done", found |-> found]]
    BY <1>2 DEF Landed
  <2>2. found \in Card /\ found.rec \in Judged
    BY <2>1, Judgement DEF Without, Card, Judged
  <2>3. PICK f : f = [at |-> "done", found |-> found]
    OBVIOUS
  <2>4. SeatOK(f)
    BY <2>2, <2>3 DEF SeatOK, Seat
  <2>. QED
    BY <1>0, <2>1, <2>3, <2>4, OneSeat
<1>. QED
  BY <1>1, <1>2

LEMMA StreamStep ==
    ASSUME MInv, InferIcp \/ EveryoneLanded \/ RankAll \/ WriteOpener
    PROVE  MInv'
<1>0. Staged(stream, card) /\ stream \in Stream
  BY DEF MInv, Staged
<1>u. UNCHANGED <<seat, card, tally>>
  BY DEF InferIcp, EveryoneLanded, RankAll, WriteOpener
<1>1. CASE InferIcp
  <2>1. PICK s : s = [stream EXCEPT !.at = "discovering"]
    OBVIOUS
  <2>2. PICK e : e = [stream EXCEPT !.at = "ended", !.end = "empty"]
    OBVIOUS
  <2>3. Staged(s, card) /\ s.page = stream.page
    BY <1>0, <1>1, <2>1 DEF InferIcp, Staged, Stream
  <2>4. Staged(e, card) /\ e.page = stream.page
    BY <1>0, <1>1, <2>2 DEF InferIcp, Staged, Stream, ShownOf
  <2>. QED
    BY <1>1, <1>u, <2>1, <2>2, <2>3, <2>4, StreamMoves DEF InferIcp, Ends
<1>2. CASE EveryoneLanded
  <2>1. PICK s : s = [stream EXCEPT !.at = "ranking"]
    OBVIOUS
  <2>2. ShownOf(stream.page, card, "none") = {}
    BY <1>2 DEF EveryoneLanded, Shown, ShownOf
  <2>3. Staged(s, card) /\ s.page = stream.page
    BY <1>0, <1>2, <2>1, <2>2 DEF EveryoneLanded, Staged, Stream
  <2>. QED
    BY <1>2, <1>u, <2>1, <2>3, StreamMoves DEF EveryoneLanded
<1>3. CASE RankAll
  <2>0. stream.at = "ranking" /\ Scored = ScoredOf(stream.page, card)
    BY <1>3 DEF RankAll, Scored, Shown, ScoredOf, ShownOf
  <2>1. CASE Scored = {}
    <3>1. PICK s : s = [stream EXCEPT !.at = "ended", !.end = "empty"]
      OBVIOUS
    <3>2. Staged(s, card) /\ s.page = stream.page
      BY <1>0, <2>0, <3>1 DEF Staged, Stream
    <3>. QED
      BY <1>3, <1>u, <2>1, <3>1, <3>2, StreamMoves DEF RankAll, Ends
  <2>2. CASE Scored # {}
    <3>1. PICK p \in Scored :
             /\ Best(p)
             /\ stream' = IF card[p].rec \in Pursued
                          THEN [stream EXCEPT !.at = "writing", !.top = {p}]
                          ELSE [stream EXCEPT !.at = "ended", !.end = "no_pursue", !.top = {p}]
      BY <1>3, <2>2 DEF RankAll
    <3>2. \A q \in Scored : card[q].score <= card[p].score
      <4>. TAKE q \in Scored
      <4>1. card[p] \in Card /\ card[q] \in Card
        BY <2>0, <3>1 DEF MInv, Seated, ScoredOf, Staged, Stream
      <4>2. Key(card[p]) >= Key(card[q])
        BY <3>1 DEF Best
      <4>3. PICK a \in {0, 20, 55, 80}, b \in {0, 20, 55, 80} : a = card[p].score /\ b = card[q].score
        BY <4>1 DEF Card
      <4>4. PICK x \in 0..2, y \in 0..2 : 10 * a + x >= 10 * b + y
        BY <4>2, <4>3 DEF Key
      <4>5. a \in Int /\ b \in Int /\ x \in Int /\ y \in Int /\ x <= 2 /\ y >= 0
        <5>1. a \in Int /\ b \in Int
          OBVIOUS
        <5>. QED
          BY <5>1
      <4>6. b <= a
        BY <4>4, <4>5
      <4>. QED
        BY <4>3, <4>6
    <3>3. p \in Prospects
      BY <1>0, <2>0, <3>1 DEF ScoredOf, Stream
    <3>4. CASE card[p].rec \in Pursued
      <4>1. PICK s : s = [stream EXCEPT !.at = "writing", !.top = {p}]
        OBVIOUS
      <4>2. TopOf(s.top, stream.page, card)
        BY <1>0, <2>0, <3>1, <3>2, <3>4, <4>1 DEF TopOf, Stream
      <4>3. Staged(s, card) /\ s.page = stream.page
        BY <1>0, <2>0, <3>3, <4>1, <4>2 DEF Staged, Stream
      <4>. QED
        BY <1>u, <3>1, <3>4, <4>1, <4>3, StreamMoves
    <3>5. CASE card[p].rec \notin Pursued
      <4>1. PICK s : s = [stream EXCEPT !.at = "ended", !.end = "no_pursue", !.top = {p}]
        OBVIOUS
      <4>2. Staged(s, card) /\ s.page = stream.page
        BY <1>0, <2>0, <3>3, <4>1 DEF Staged, Stream
      <4>. QED
        BY <1>u, <3>1, <3>5, <4>1, <4>2, StreamMoves
    <3>. QED
      BY <3>4, <3>5
  <2>. QED
    BY <2>1, <2>2
<1>4. CASE WriteOpener
  <2>0. stream.at = "writing"
    BY <1>4 DEF WriteOpener
  <2>1. CASE stream' = [stream EXCEPT !.tries = 1]
    <3>1. PICK s : s = [stream EXCEPT !.tries = 1]
      OBVIOUS
    <3>2. Staged(s, card) /\ s.page = stream.page
      BY <1>0, <2>0, <3>1 DEF Staged, Stream
    <3>. QED
      BY <1>u, <2>1, <3>1, <3>2, StreamMoves
  <2>2. CASE \E how \in {"draft", "draft_skip"} : Ends(how)
    <3>0. PICK how \in {"draft", "draft_skip"} : Ends(how)
      BY <2>2
    <3>1. PICK s : s = [stream EXCEPT !.at = "ended", !.end = how]
      OBVIOUS
    <3>2. Staged(s, card) /\ s.page = stream.page
      BY <1>0, <2>0, <3>0, <3>1 DEF Staged, Stream
    <3>. QED
      BY <1>u, <3>0, <3>1, <3>2, StreamMoves DEF Ends
  <2>. QED
    BY <1>4, <2>1, <2>2 DEF WriteOpener
<1>. QED
  BY <1>1, <1>2, <1>3, <1>4

LEMMA FindStep ==
    ASSUME MInv, FindCandidates
    PROVE  MInv'
<1>0. /\ Staged(stream, card) /\ Seated(stream.page, seat, card) /\ Tallied(tally, stream.page, card)
      /\ stream \in Stream /\ stream.at = "discovering" /\ stream.page = {} /\ UNCHANGED <<card, tally>>
  BY DEF MInv, Staged, FindCandidates
<1>1. CASE \E how \in {"error", "empty"} : Ends(how) /\ UNCHANGED seat
  <2>0. PICK how \in {"error", "empty"} : Ends(how) /\ UNCHANGED seat
    BY <1>1
  <2>1. PICK s : s = [stream EXCEPT !.at = "ended", !.end = how]
    OBVIOUS
  <2>2. Staged(s, card) /\ s.page = stream.page
    BY <1>0, <2>0, <2>1 DEF Staged, Stream, ShownOf
  <2>. QED
    BY <1>0, <2>0, <2>1, <2>2, StreamMoves DEF Ends
<1>2. CASE \E found \in SUBSET Prospects \ {{}} :
             /\ stream' = [stream EXCEPT !.at = "scoring", !.page = found]
             /\ seat' = [p \in Prospects |-> IF p \in found THEN [seat[p] EXCEPT !.at = "queued"]
                                             ELSE seat[p]]
  <2>1. PICK found \in SUBSET Prospects \ {{}} :
             /\ stream' = [stream EXCEPT !.at = "scoring", !.page = found]
             /\ seat' = [p \in Prospects |-> IF p \in found THEN [seat[p] EXCEPT !.at = "queued"]
                                             ELSE seat[p]]
    BY <1>2
  <2>2. PICK s : s = [stream EXCEPT !.at = "scoring", !.page = found]
    OBVIOUS
  <2>3. \A rec \in {"late", "unread"} : ShownOf(found, card, rec) = {} /\ ShownOf({}, card, rec) = {}
    BY <1>0 DEF Seated, ShownOf
  <2>4. Staged(s, card) /\ s.page = found
    BY <1>0, <2>2, <2>3 DEF Staged, Stream
  <2>5. ASSUME NEW p \in Prospects
        PROVE  SeatOK(seat'[p]) /\ (p \notin found => seat'[p].at = "absent" /\ card[p].rec = "none")
    <3>1. SeatOK(seat[p]) /\ seat[p].at = "absent" /\ card[p].rec = "none"
      BY <1>0 DEF Seated
    <3>2. PICK f : f = [seat[p] EXCEPT !.at = "queued"]
      OBVIOUS
    <3>3. SeatOK(f)
      BY <3>1, <3>2 DEF SeatOK, Seat
    <3>. QED
      BY <2>1, <3>1, <3>2, <3>3
  <2>6. Seated(found, seat', card)
    BY <1>0, <2>1, <2>5 DEF Seated, SeatOK
  <2>7. Tallied(tally, found, card)
    BY <1>0, <2>3 DEF Tallied
  <2>. QED
    BY <1>0, <2>1, <2>2, <2>4, <2>6, <2>7 DEF MInv
<1>. QED
  BY <1>1, <1>2 DEF FindCandidates

(* A card is dealt to one company of the page that had none.               *)
LEMMA ShowStep ==
    ASSUME MInv, NEW p \in Prospects, ShowCard(p)
    PROVE  MInv'
<1>. USE WritingAssumption
<1>0. /\ Staged(stream, card) /\ Seated(stream.page, seat, card) /\ Tallied(tally, stream.page, card)
      /\ stream \in Stream /\ stream.at = "scoring" /\ UNCHANGED <<stream, seat>>
  BY DEF MInv, Staged, ShowCard
<1>1. PICK page, t, c : page = stream.page /\ t = tally /\ c = seat[p].found
  OBVIOUS
<1>2. c \in Card /\ c.rec \in Judged /\ p \in page
  BY <1>0, <1>1 DEF Seated, SeatOK, Seat, ShowCard
<1>3. PICK cards : cards = [card EXCEPT ![p] = c]
  OBVIOUS
<1>4. card' = cards /\ card[p].rec = "none"
  BY <1>1, <1>3 DEF ShowCard, NoCard
<1>5. Seated(page, seat, cards)
  BY <1>0, <1>1, <1>2, <1>3 DEF Seated
<1>6. ShownOf(page, cards, "late") = ShownOf(page, card, "late")
  BY <1>0, <1>2, <1>3, <1>4 DEF ShownOf, Judged, Seated
<1>7. Staged(stream, cards)
  BY <1>0, <1>1, <1>6 DEF Staged, Stream
<1>8. IsFiniteSet(ShownOf(page, card, "unread")) /\ page \subseteq Prospects
  BY <1>0, <1>1, FS_Subset DEF ShownOf, Stream
<1>9. Tallied(tally', page, cards)
  <2>1. CASE c.rec = "unread"
    <3>1. ShownOf(page, cards, "unread") = ShownOf(page, card, "unread") \cup {p}
      BY <1>0, <1>2, <1>3, <1>8, <2>1 DEF ShownOf, Seated
    <3>2. p \notin ShownOf(page, card, "unread")
      BY <1>4 DEF ShownOf
    <3>3. Cardinality(ShownOf(page, cards, "unread")) = t.unread + 1
      BY <1>0, <1>1, <1>8, <3>1, <3>2, FS_AddElement DEF Tallied
    <3>4. PICK n \in Nat : n = t.unread + 1
      BY <1>0, <1>1 DEF Tallied
    <3>5. tally' = [t EXCEPT !.unread = n]
      BY <1>1, <2>1, <3>4 DEF ShowCard
    <3>. QED
      BY <1>0, <1>1, <1>6, <3>3, <3>4, <3>5 DEF Tallied
  <2>2. CASE c.rec # "unread"
    <3>1. ShownOf(page, cards, "unread") = ShownOf(page, card, "unread")
      BY <1>0, <1>2, <1>3, <1>4, <1>8, <2>2 DEF ShownOf, Seated
    <3>2. tally' = tally
      BY <1>1, <2>2 DEF ShowCard
    <3>. QED
      BY <1>0, <1>1, <1>6, <3>1, <3>2 DEF Tallied
  <2>. QED
    BY <2>1, <2>2
<1>. QED
  BY <1>0, <1>1, <1>4, <1>5, <1>7, <1>9 DEF MInv

(* What is pending at the deadline is shown as late, and counted so.       *)
LEMMA LateStep ==
    ASSUME MInv, TimesOut
    PROVE  MInv'
<1>. USE WritingAssumption
<1>0. /\ Staged(stream, card) /\ Seated(stream.page, seat, card) /\ Tallied(tally, stream.page, card)
      /\ stream \in Stream /\ stream.at = "scoring"
  BY DEF MInv, Staged, TimesOut, TimeIsUp
<1>1. PICK page, t, pending : page = stream.page /\ t = tally /\ pending = ShownOf(page, card, "none")
  OBVIOUS
<1>2. Pending = pending /\ page \subseteq Prospects
  BY <1>0, <1>1 DEF Pending, Shown, ShownOf, Stream
<1>3. PICK late : late = [score |-> 0, rec |-> "late"]
  OBVIOUS
<1>4. late \in Card /\ late.rec = "late"
  BY <1>3 DEF Card
<1>5. PICK cards : cards = [p \in Prospects |-> IF p \in pending THEN late ELSE card[p]]
  OBVIOUS
<1>6. card' = cards
  BY <1>2, <1>3, <1>5 DEF TimesOut, Without
<1>7. /\ ShownOf(page, cards, "none") = {}
      /\ ShownOf(page, cards, "late") = pending
      /\ ShownOf(page, cards, "unread") = ShownOf(page, card, "unread")
  <2>1. ShownOf(page, card, "late") = {}
    BY <1>0, <1>1 DEF Staged
  <2>. QED
    BY <1>1, <1>2, <1>4, <1>5, <2>1 DEF ShownOf
<1>8. PICK s : s = [stream EXCEPT !.at = "ranking"]
  OBVIOUS
<1>9. Staged(s, cards) /\ s.page = page
  BY <1>0, <1>1, <1>7, <1>8 DEF Staged, Stream
<1>10. ASSUME NEW p \in Prospects
       PROVE  SeatOK(seat'[p]) /\ (p \notin page => seat'[p].at = "absent" /\ cards[p].rec = "none")
  <2>1. seat'[p] = IF seat[p].at = "queued" THEN [seat[p] EXCEPT !.at = "cancelled"] ELSE seat[p]
    BY DEF TimesOut, Shutdown
  <2>2. SeatOK(seat[p])
    BY <1>0 DEF Seated
  <2>3. PICK f : f = [seat[p] EXCEPT !.at = "cancelled"]
    OBVIOUS
  <2>4. SeatOK(f)
    BY <2>2, <2>3 DEF SeatOK, Seat
  <2>5. SeatOK(seat'[p])
    BY <2>1, <2>2, <2>3, <2>4
  <2>6. p \notin page => seat[p].at = "absent" /\ cards[p].rec = "none"
    BY <1>0, <1>1, <1>5 DEF Seated, ShownOf
  <2>. QED
    BY <2>1, <2>5, <2>6
<1>11. Seated(page, seat', cards)
  <2>1. \E g : seat' = [p \in Prospects |-> g[p]]
    BY DEF TimesOut, Shutdown
  <2>2. \A p \in Prospects : cards[p] \in Card
    BY <1>0, <1>4, <1>5 DEF Seated
  <2>. QED
    BY <1>5, <1>10, <2>1, <2>2 DEF Seated, SeatOK
<1>12. IsFiniteSet(pending) /\ Cardinality(pending) \in Nat
  BY <1>1, <1>2, FS_Subset, FS_CardinalityType DEF ShownOf
<1>13. t.late = 0
  BY <1>0, <1>1, FS_EmptySet DEF Tallied, Staged
<1>14. PICK n \in Nat : n = t.late + Cardinality(pending)
  BY <1>12, <1>13
<1>15. tally' = [t EXCEPT !.late = n]
  BY <1>1, <1>2, <1>14 DEF TimesOut
<1>16. Tallied(tally', page, cards)
  BY <1>0, <1>1, <1>7, <1>12, <1>13, <1>14, <1>15 DEF Tallied
<1>17. stream' = s
  BY <1>8 DEF TimesOut
<1>. QED
  BY <1>6, <1>9, <1>11, <1>16, <1>17 DEF MInv

LEMMA MInvStep ==
    ASSUME MInv, [MNext]_mvars PROVE MInv'
<1>1. CASE UNCHANGED mvars
  BY <1>1 DEF mvars, MInv
<1>. QED
  BY <1>1, SeatStep, StreamStep, FindStep, ShowStep, LateStep DEF MNext

(* The opener of a demo is for a company that may be pursued and that no   *)
(* other outscores, and each company of the page was settled once, as the  *)
(* run counts them, whatever the threads find and when (run_demo).         *)
THEOREM OpenerIsEarnedHolds == PSpec => []OpenerIsEarned
<1>1. PInit => MInv
  BY MInvInit DEF PInit
<1>2. MInv /\ [PNext]_pvars => MInv'
  BY MInvStep, Parts
<1>3. MInv => OpenerIsEarned
  <2>. SUFFICES ASSUME MInv PROVE OpenerIsEarned
    OBVIOUS
  <2>. USE WritingAssumption
  <2>0. /\ Staged(stream, card) /\ Tallied(tally, stream.page, card) /\ stream \in Stream
        /\ IsFiniteSet(stream.page)
    BY FS_Subset DEF MInv, Staged, Stream
  <2>1. Scored = ScoredOf(stream.page, card) /\ \A rec : Shown(rec) = ShownOf(stream.page, card, rec)
    BY DEF Scored, ScoredOf, Shown, ShownOf
  <2>2. ASSUME stream.end = "draft"
        PROVE  \E top \in Scored :
                  /\ stream.top = {top} /\ card[top].rec \in Pursued
                  /\ \A p \in Scored : card[p].score <= card[top].score
    BY <2>0, <2>1, <2>2 DEF Staged, TopOf
  <2>3. ASSUME stream.at \in {"ranking", "writing", "ended"}
        PROVE  tally.late + tally.unread + Cardinality(Scored) = Cardinality(stream.page)
    <3>1. PICK page, late, unread, scored :
             /\ page = stream.page /\ late = Shown("late") /\ unread = Shown("unread")
             /\ scored = Scored
      OBVIOUS
    <3>2. Shown("none") = {}
      BY <2>0, <2>1, <2>3 DEF Staged
    <3>3. /\ page = (late \cup unread) \cup scored
          /\ late \cap unread = {} /\ (late \cup unread) \cap scored = {}
      BY <3>1, <3>2 DEF Scored, Shown
    <3>4. IsFiniteSet(late) /\ IsFiniteSet(unread) /\ IsFiniteSet(scored) /\ IsFiniteSet(late \cup unread)
      BY <2>0, <3>1, <3>3, FS_Subset
    <3>5. /\ Cardinality(late) \in Nat /\ Cardinality(unread) \in Nat /\ Cardinality(scored) \in Nat
          /\ Cardinality(late \cup unread) \in Nat
      BY <3>4, FS_CardinalityType
    <3>6. Cardinality(late \cup unread) = Cardinality(late) + Cardinality(unread)
      BY <3>3, <3>4, <3>5, FS_Union, FS_EmptySet
    <3>7. Cardinality(page) = Cardinality(late \cup unread) + Cardinality(scored)
      <4>1. PICK both : both = late \cup unread
        OBVIOUS
      <4>2. Cardinality(both \cup scored) = Cardinality(both) + Cardinality(scored) - Cardinality({})
        BY <3>3, <3>4, <4>1, FS_Union
      <4>. QED
        BY <3>3, <3>5, <4>1, <4>2, FS_EmptySet
    <3>8. tally.late = Cardinality(late) /\ tally.unread = Cardinality(unread)
      BY <2>0, <2>1, <3>1 DEF Tallied
    <3>. QED
      BY <3>1, <3>5, <3>6, <3>7, <3>8
  <2>4. tally.late = Cardinality(Shown("late")) /\ tally.unread = Cardinality(Shown("unread"))
    BY <2>0, <2>1 DEF Tallied
  <2>. QED
    BY <2>2, <2>3, <2>4 DEF OpenerIsEarned
<1>. QED
  BY <1>1, <1>2, <1>3, PTL DEF PSpec

(* The request, its tasks and its results stay of their types.             *)
THEOREM WTypeOKHolds == PSpec => []WTypeOK
<1>1. PInit => WInv
  BY WInvInit DEF PInit
<1>2. WInv /\ [PNext]_pvars => WInv'
  BY WInvStep, Parts
<1>3. WInv => WTypeOK
  BY DEF WInv, WTypeOK, Job, JobStates
<1>. QED
  BY <1>1, <1>2, <1>3, PTL DEF PSpec

-----------------------------------------------------------------------------
(* A list shows what was found, best first                                 *)

(* A row of a scored list: only what was researched is recommended.        *)
AnyRow == UNION {RowsOf(lead) : lead \in ListedLead}
RowOK(row) ==
    /\ row.score \in Nat
    /\ row.rec \in Pursued => row.status = "ok"

LEMMA RowsAreOK ==
    ASSUME NEW lead \in ListedLead, NEW row \in RowsOf(lead)
    PROVE  row \in AnyRow /\ row.lead = lead /\ RowOK(row)
<1>1. row \in AnyRow
  BY DEF AnyRow
<1>2. CASE \E name, status, person, verdict :
               row = Row(lead, name, status, verdict, person) /\ verdict \in Unjudged
  BY <1>1, <1>2 DEF Row, Unjudged, Without, RowOK, Pursued
<1>3. CASE \E name, person, verdict :
               /\ row = Row(lead, name, "ok", verdict, person)
               /\ verdict \in {Verdict(d) : d \in Dossier} \cup {Without("none")}
  <2>1. PICK name, person, verdict :
           /\ row = Row(lead, name, "ok", verdict, person)
           /\ verdict \in {Verdict(d) : d \in Dossier} \cup {Without("none")}
    BY <1>3
  <2>2. verdict.score \in Nat
    BY <2>1 DEF Verdict, Without, Dossier, Points
  <2>. QED
    BY <1>1, <2>1, <2>2 DEF Row, RowOK
<1>. QED
  BY <1>2, <1>3 DEF RowsOf

(* Of two rows one comes before the other, and what comes before another   *)
(* row has fewer rows before it.                                           *)
Before(rows, i) ==
    {j \in DOMAIN rows : \/ Rated(rows[j]) > Rated(rows[i])
                         \/ Rated(rows[j]) = Rated(rows[i]) /\ j < i}

LEMMA Numbered == ASSUME NEW n \in Nat PROVE IsFiniteSet(1..n) /\ Cardinality(1..n) = n
<1>1. 1 \in Int /\ n \in Int
  OBVIOUS
<1>2. IsFiniteSet(1..n) /\ Cardinality(1..n) = IF 1 > n THEN 0 ELSE n - 1 + 1
  BY <1>1, FS_Interval
<1>. QED
  BY <1>2

LEMMA Places ==
    ASSUME NEW rows \in Seq(AnyRow), NEW n \in Nat, n = Len(rows)
    PROVE  /\ \A i \in 1..n : Rated(rows[i]) \in Nat /\ Place(rows, i) \in 1..n
           /\ \A i, j \in 1..n : j \in Before(rows, i) => Place(rows, j) < Place(rows, i)
           /\ \A i, j \in 1..n : i = j \/ i \in Before(rows, j) \/ j \in Before(rows, i)
<1>1. DOMAIN rows = 1..n /\ IsFiniteSet(1..n) /\ Cardinality(1..n) = n
  BY Numbered
<1>2. \A i \in 1..n : RowOK(rows[i])
  BY RowsAreOK DEF AnyRow
<1>3. \A i \in 1..n : Rated(rows[i]) \in Nat
  BY <1>2 DEF Rated, RowOK
<1>4. \A i \in 1..n : /\ IsFiniteSet(Before(rows, i)) /\ Cardinality(Before(rows, i)) \in Nat
                      /\ Place(rows, i) = 1 + Cardinality(Before(rows, i))
  BY <1>1, FS_Subset, FS_CardinalityType DEF Before, Place
<1>5. ASSUME NEW i \in 1..n PROVE Place(rows, i) \in 1..n
  <2>1. Before(rows, i) \subseteq (1..n) \ {i}
    BY <1>1, <1>3 DEF Before
  <2>2. IsFiniteSet((1..n) \ {i}) /\ Cardinality((1..n) \ {i}) = n - 1
    BY <1>1, FS_RemoveElement
  <2>3. Cardinality(Before(rows, i)) <= n - 1
    BY <2>1, <2>2, FS_Subset
  <2>. QED
    BY <1>4, <2>3
<1>6. ASSUME NEW i \in 1..n, NEW j \in 1..n, j \in Before(rows, i)
      PROVE  Place(rows, j) < Place(rows, i)
  <2>1. j \notin Before(rows, j) /\ Before(rows, j) \cup {j} \subseteq Before(rows, i)
    BY <1>1, <1>3, <1>6 DEF Before
  <2>2. Cardinality(Before(rows, j) \cup {j}) = Cardinality(Before(rows, j)) + 1
    BY <1>4, <2>1, FS_AddElement
  <2>3. Cardinality(Before(rows, j) \cup {j}) <= Cardinality(Before(rows, i))
    BY <1>4, <2>1, FS_Subset
  <2>. QED
    BY <1>4, <2>2, <2>3
<1>7. \A i, j \in 1..n : i = j \/ i \in Before(rows, j) \/ j \in Before(rows, i)
  BY <1>1, <1>3 DEF Before
<1>. QED
  BY <1>3, <1>5, <1>6, <1>7

(* Sorting gives every row a place of its own, and the better one the      *)
(* earlier.                                                                *)
LEMMA Sorting ==
    ASSUME NEW rows \in Seq(AnyRow), NEW n \in Nat, n = Len(rows)
    PROVE  \E g \in Bijection(1..n, 1..n) :
              /\ BestFirst(rows) = [k \in 1..n |-> rows[g[k]]]
              /\ \A k, l \in 1..n : k < l => Rated(rows[g[k]]) >= Rated(rows[g[l]])
<1>1. DOMAIN rows = 1..n /\ IsFiniteSet(1..n)
  BY Numbered
<1>. DEFINE p == [i \in 1..n |-> Place(rows, i)]
            g == [k \in 1..n |-> CHOOSE i \in 1..n : Place(rows, i) = k]
<1>2. p \in Injection(1..n, 1..n)
  <2>1. p \in [1..n -> 1..n]
    BY Places
  <2>2. ASSUME NEW i \in 1..n, NEW j \in 1..n, i # j PROVE p[i] # p[j]
    <3>1. PICK a, b \in 1..n : a = Place(rows, i) /\ b = Place(rows, j)
      BY Places
    <3>2. a < b \/ b < a
      BY <2>2, <3>1, Places
    <3>. QED
      BY <3>1, <3>2
  <2>. QED
    BY <2>1, <2>2 DEF Injection, IsInjective
<1>3. p \in Surjection(1..n, 1..n)
  BY <1>1, <1>2, FS_Injection
<1>4. \A k \in 1..n : g[k] \in 1..n /\ Place(rows, g[k]) = k
  BY <1>3 DEF Surjection
<1>5. \A i \in 1..n : Place(rows, i) \in 1..n /\ g[Place(rows, i)] = i
  <2>1. SUFFICES ASSUME NEW i \in 1..n PROVE Place(rows, i) \in 1..n /\ g[Place(rows, i)] = i
    OBVIOUS
  <2>2. PICK k \in 1..n : k = Place(rows, i)
    BY Places
  <2>3. g[k] \in 1..n /\ Place(rows, g[k]) = Place(rows, i)
    BY <1>4, <2>2
  <2>4. p[g[k]] = p[i]
    BY <2>3
  <2>5. g[k] = i
    BY <1>2, <2>3, <2>4 DEF Injection, IsInjective
  <2>. QED
    BY <2>2, <2>5
<1>6. g \in Bijection(1..n, 1..n)
  <2>1. g \in [1..n -> 1..n] /\ IsInjective(g)
    BY <1>4 DEF IsInjective
  <2>2. \A i \in 1..n : \E k \in 1..n : g[k] = i
    BY <1>5
  <2>. QED
    BY <2>1, <2>2 DEF Bijection, Injection, Surjection
<1>7. BestFirst(rows) = [k \in 1..n |-> rows[g[k]]]
  BY <1>1 DEF BestFirst
<1>8. ASSUME NEW k \in 1..n, NEW l \in 1..n, k < l
      PROVE  Rated(rows[g[k]]) >= Rated(rows[g[l]])
  <2>1. PICK i, j \in 1..n : i = g[k] /\ j = g[l] /\ Place(rows, i) = k /\ Place(rows, j) = l
    BY <1>4
  <2>2. i \in Before(rows, j)
    <3>1. i # j /\ ~(l < k)
      BY <1>8, <2>1
    <3>2. j \notin Before(rows, i)
      BY <2>1, <3>1, Places
    <3>. QED
      BY <3>1, <3>2, Places
  <2>3. Rated(rows[i]) \in Nat /\ Rated(rows[j]) \in Nat
    BY Places
  <2>. QED
    BY <1>1, <2>1, <2>2, <2>3 DEF Before
<1>. QED
  BY <1>6, <1>7, <1>8

(* Sorting changes how many rows a company has no more than their number.  *)
RowsFor(rows, n, lead) == {i \in 1..n : rows[i].lead = lead}

LEMMA SortedCount ==
    ASSUME NEW rows \in Seq(AnyRow), NEW n \in Nat, n = Len(rows),
           NEW g \in Bijection(1..n, 1..n), NEW lead, NEW best,
           best = [k \in 1..n |-> rows[g[k]]]
    PROVE  Cardinality(RowsFor(best, n, lead)) = Cardinality(RowsFor(rows, n, lead))
<1>. DEFINE S == {k \in 1..n : rows[g[k]].lead = lead}
            T == {i \in 1..n : rows[i].lead = lead}
            h == [k \in S |-> g[k]]
<1>1. g \in [1..n -> 1..n] /\ IsInjective(g) /\ \A i \in 1..n : \E k \in 1..n : g[k] = i
  BY DEF Bijection, Injection, Surjection
<1>2. h \in [S -> T]
  BY <1>1
<1>3. IsInjective(h)
  BY <1>1 DEF IsInjective
<1>4. \A i \in T : \E k \in S : h[k] = i
  BY <1>1
<1>5. h \in Bijection(S, T)
  BY <1>2, <1>3, <1>4 DEF Bijection, Injection, Surjection
<1>6. IsFiniteSet(S)
  BY Numbered, FS_Subset
<1>7. RowsFor(best, n, lead) = S /\ RowsFor(rows, n, lead) = T
  BY DEF RowsFor
<1>8. Cardinality(T) = Cardinality(S)
  <2>. HIDE DEF S, T, h
  <2>1. ExistsBijection(S, T)
    BY <1>5 DEF ExistsBijection
  <2>. QED
    BY <1>6, <2>1, FS_Bijection
<1>. QED
  BY <1>7, <1>8

(* A list is begun with what the account has left, and its rows are those  *)
(* of the companies asked for, in turn.                                    *)
InHand(left, asked, rows) ==
    /\ left \in Nat /\ asked \in Seq(ListedLead) /\ Len(asked) <= left
    /\ rows \in Seq(AnyRow) /\ Len(rows) <= Len(asked)
    /\ \A i \in 1..Len(rows) : rows[i].lead = asked[i] /\ RowOK(rows[i])
AsListed(l) ==
    /\ \A lead \in ListedLead :
          Cardinality({i \in DOMAIN l.rows : l.rows[i].lead = lead})
            = Cardinality({i \in DOMAIN l.asked : l.asked[i] = lead})
    /\ \A i, j \in DOMAIN l.rows :
          i < j /\ l.rows[j].status = "ok"
            => l.rows[i].status = "ok" /\ l.rows[i].score >= l.rows[j].score
    /\ \A i \in DOMAIN l.rows :
          l.rows[i].rec \in Pursued => l.rows[i].status = "ok"
    /\ Cardinality(l.spent) <= l.left
AsFound(l) ==
    /\ \A i \in DOMAIN l.rows : l.rows[i].name \in Prospects /\ l.rows[i].tier = "company"
    /\ Cardinality(l.last) >= Cardinality(DOMAIN l.rows)
IsList(l) ==
    l = [at |-> l.at, left |-> l.left, asked |-> l.asked, rows |-> l.rows,
         spent |-> l.spent, last |-> l.last]
LInv ==
    /\ IsList(list)
    /\ list.at = "idle" => list = NoList
    /\ list.at = "researching" => InHand(list.left, list.asked, list.rows)
    /\ list.at = "listed" => AsListed(list)
    /\ list.at = "found" => AsFound(list)

LEMMA LInvInit == LInit => LInv
  BY DEF LInit, LInv, NoList, IsList

LEMMA UptoFits ==
    ASSUME NEW S, NEW s \in Seq(S), NEW n \in Nat
    PROVE  Upto(s, n) \in Seq(S) /\ Len(Upto(s, n)) <= n
<1>1. PICK m \in Nat : m = IF Len(s) < n THEN Len(s) ELSE n
  OBVIOUS
<1>2. \A i \in 1..m : s[i] \in S
  BY <1>1
<1>3. SubSeq(s, 1, m) \in Seq(S) /\ Len(SubSeq(s, 1, m)) = IF 1 <= m THEN m - 1 + 1 ELSE 0
  BY <1>2, SubSeqProperties
<1>. QED
  BY <1>1, <1>3 DEF Upto

LEMMA FoundIsHonest == ASSUME LInv, FindProspects PROVE LInv'
<1>1. PICK rows \in Sequences2(Finding) :
         list' = [list EXCEPT !.at = "found", !.rows = [i \in OnCard(rows) |-> rows[i]],
                     !.last = {i \in DOMAIN rows :
                                 \E k \in OnCard(rows) : rows[k].name = rows[i].name}]
  BY DEF FindProspects
<1>2. PICK card0, last : /\ card0 = [i \in OnCard(rows) |-> rows[i]]
                         /\ last = {i \in DOMAIN rows :
                                      \E k \in OnCard(rows) : rows[k].name = rows[i].name}
  OBVIOUS
<1>3. /\ list'.at = "found" /\ list'.rows = card0 /\ list'.last = last /\ IsList(list')
  BY <1>1, <1>2 DEF LInv, IsList
<1>4. DOMAIN rows \subseteq 1..2 /\ \A i \in DOMAIN rows : rows[i] \in Finding
  BY DEF Sequences2
<1>5. \A i \in OnCard(rows) : /\ i \in DOMAIN rows /\ rows[i].name \in Prospects
                              /\ rows[i].tier = "company"
  BY <1>4 DEF OnCard, Qualifying, Entries, Malformed, Band, Finding
<1>6. OnCard(rows) \subseteq last /\ last \subseteq 1..2
  BY <1>2, <1>4, <1>5
<1>7. IsFiniteSet(1..2)
  BY Numbered
<1>8. IsFiniteSet(last) /\ IsFiniteSet(OnCard(rows))
      /\ Cardinality(last) \in Nat /\ Cardinality(OnCard(rows)) \in Nat
  BY <1>6, <1>7, FS_Subset, FS_CardinalityType
<1>9. Cardinality(OnCard(rows)) <= Cardinality(last)
  BY <1>6, <1>8, FS_Subset
<1>10. AsFound(list')
  BY <1>2, <1>3, <1>5, <1>8, <1>9 DEF AsFound
<1>. QED
  BY <1>3, <1>10 DEF LInv

LEMMA AskedIsInHand == ASSUME LInv, ResearchProspects PROVE LInv'
<1>1. PICK leads \in Sequences2(ListedLead), left \in 0..2 :
         list' = IF leads = <<>> \/ left = 0 THEN [list EXCEPT !.at = "refused"]
                 ELSE [list EXCEPT !.at = "researching", !.left = left,
                         !.asked = Upto(Upto(leads, left), ListMax)]
  BY DEF ResearchProspects
<1>2. list = NoList /\ IsList(list)
  BY DEF LInv, ResearchProspects
<1>3. CASE leads = <<>> \/ left = 0
  BY <1>1, <1>2, <1>3 DEF LInv, IsList, NoList
<1>4. CASE ~(leads = <<>> \/ left = 0)
  <2>1. leads \in Seq(ListedLead) /\ left \in Nat
    <3>1. ASSUME NEW a \in ListedLead, leads = <<a>> PROVE leads \in Seq(ListedLead)
      BY <3>1
    <3>2. ASSUME NEW a \in ListedLead, NEW b \in ListedLead, leads = <<a, b>>
          PROVE  leads \in Seq(ListedLead)
      BY <3>2
    <3>3. leads \in Seq(ListedLead)
      BY <1>4, <3>1, <3>2 DEF Sequences2
    <3>. QED
      BY <3>3
  <2>2. PICK asked : asked = Upto(Upto(leads, left), ListMax)
    OBVIOUS
  <2>3. asked \in Seq(ListedLead) /\ Len(asked) <= left
    <3>1. PICK some : some = Upto(leads, left)
      OBVIOUS
    <3>2. some \in Seq(ListedLead) /\ Len(some) <= left
      BY <2>1, <3>1, UptoFits
    <3>3. asked \in Seq(ListedLead)
      BY <2>2, <3>1, <3>2, UptoFits, ListingAssumption
    <3>4. Len(asked) <= Len(some)
      <4>1. PICK m \in Nat : m = IF Len(some) < ListMax THEN Len(some) ELSE ListMax
        BY <3>2, ListingAssumption
      <4>2. Len(SubSeq(some, 1, m)) = IF 1 <= m THEN m - 1 + 1 ELSE 0
        <5>1. \A i \in 1..m : some[i] \in ListedLead
          BY <3>2, <4>1, ListingAssumption
        <5>. QED
          BY <5>1, SubSeqProperties
      <4>. QED
        BY <2>2, <3>1, <3>2, <4>1, <4>2, ListingAssumption DEF Upto
    <3>. QED
      BY <2>1, <3>2, <3>3, <3>4
  <2>4. list' = [NoList EXCEPT !.at = "researching", !.left = left, !.asked = asked]
    BY <1>1, <1>2, <1>4, <2>2
  <2>5. /\ list'.at = "researching" /\ list'.left = left /\ list'.asked = asked
        /\ list'.rows = <<>> /\ IsList(list')
    BY <2>4 DEF NoList, IsList
  <2>6. InHand(left, asked, <<>>)
    BY <2>1, <2>3 DEF InHand
  <2>. QED
    BY <2>5, <2>6 DEF LInv
<1>. QED
  BY <1>3, <1>4

LEMMA OneMoreInHand == ASSUME LInv, ResearchOne PROVE LInv'
<1>1. PICK left, asked, rows : left = list.left /\ asked = list.asked /\ rows = list.rows
  OBVIOUS
<1>2. InHand(left, asked, rows) /\ IsList(list) /\ list.at = "researching" /\ Len(rows) < Len(asked)
  BY <1>1 DEF LInv, ResearchOne
<1>3. PICK row \in RowsOf(asked[Len(rows) + 1]) : list' = [list EXCEPT !.rows = Append(@, row)]
  BY <1>1 DEF ResearchOne
<1>4. asked[Len(rows) + 1] \in ListedLead
  BY <1>2 DEF InHand
<1>5. row \in AnyRow /\ row.lead = asked[Len(rows) + 1] /\ RowOK(row)
  BY <1>4, RowsAreOK
<1>6. PICK next : next = Append(rows, row)
  OBVIOUS
<1>7. /\ next \in Seq(AnyRow) /\ Len(next) = Len(rows) + 1
      /\ \A i \in 1..Len(rows) : next[i] = rows[i]
      /\ next[Len(rows) + 1] = row
  BY <1>2, <1>5, <1>6 DEF InHand
<1>8. InHand(left, asked, next)
  BY <1>2, <1>5, <1>7 DEF InHand
<1>9. /\ list'.at = "researching" /\ list'.left = left /\ list'.asked = asked /\ list'.rows = next
      /\ IsList(list')
  BY <1>1, <1>2, <1>3, <1>6 DEF IsList
<1>. QED
  BY <1>8, <1>9 DEF LInv

LEMMA ShownIsHonest == ASSUME LInv, ShowList PROVE LInv'
<1>1. PICK left, asked, rows, n :
         left = list.left /\ asked = list.asked /\ rows = list.rows /\ n = Len(rows)
  OBVIOUS
<1>2. InHand(left, asked, rows) /\ IsList(list) /\ Len(asked) = n /\ n \in Nat
  BY <1>1 DEF LInv, ShowList, InHand
<1>3. PICK spent : spent = {rows[i].name : i \in DOMAIN rows}
  OBVIOUS
<1>4. PICK g \in Bijection(1..n, 1..n) :
         /\ BestFirst(rows) = [k \in 1..n |-> rows[g[k]]]
         /\ \A k, l \in 1..n : k < l => Rated(rows[g[k]]) >= Rated(rows[g[l]])
  BY <1>1, <1>2, Sorting DEF InHand
<1>5. PICK best : best = [k \in 1..n |-> rows[g[k]]]
  OBVIOUS
<1>6. /\ list'.at = "listed" /\ list'.left = left /\ list'.asked = asked
      /\ list'.rows = best /\ list'.spent = spent /\ IsList(list')
  BY <1>1, <1>2, <1>3, <1>4, <1>5 DEF ShowList, IsList
<1>7. /\ g \in [1..n -> 1..n] /\ DOMAIN best = 1..n /\ DOMAIN asked = 1..n /\ DOMAIN rows = 1..n
      /\ \A i \in 1..n : rows[i].lead = asked[i] /\ RowOK(rows[i]) /\ best[i] = rows[g[i]]
  BY <1>1, <1>2, <1>4, <1>5 DEF InHand, Bijection, Injection
<1>8. \A lead \in ListedLead : Cardinality({i \in DOMAIN best : best[i].lead = lead})
                                 = Cardinality({i \in DOMAIN asked : asked[i] = lead})
  <2>1. SUFFICES ASSUME NEW lead \in ListedLead
                 PROVE  Cardinality({i \in DOMAIN best : best[i].lead = lead})
                          = Cardinality({i \in DOMAIN asked : asked[i] = lead})
    OBVIOUS
  <2>2. rows \in Seq(AnyRow) /\ n \in Nat /\ n = Len(rows)
    BY <1>1, <1>2 DEF InHand
  <2>3. Cardinality(RowsFor(best, n, lead)) = Cardinality(RowsFor(rows, n, lead))
    BY <1>5, <2>2, SortedCount
  <2>4. /\ {i \in DOMAIN best : best[i].lead = lead} = RowsFor(best, n, lead)
        /\ {i \in DOMAIN asked : asked[i] = lead} = RowsFor(rows, n, lead)
    BY <1>7 DEF RowsFor
  <2>. QED
    BY <2>3, <2>4
<1>9. \A i, j \in DOMAIN best :
         i < j /\ best[j].status = "ok"
           => best[i].status = "ok" /\ best[i].score >= best[j].score
  <2>1. SUFFICES ASSUME NEW i \in 1..n, NEW j \in 1..n, i < j, best[j].status = "ok"
                 PROVE  best[i].status = "ok" /\ best[i].score >= best[j].score
    BY <1>7
  <2>2. PICK a, b : a = best[i] /\ b = best[j]
    OBVIOUS
  <2>3. RowOK(a) /\ RowOK(b) /\ Rated(a) >= Rated(b) /\ b.status = "ok"
    BY <1>4, <1>7, <2>1, <2>2
  <2>4. a.status = "ok" /\ a.score >= b.score
    BY <2>3 DEF Rated, RowOK
  <2>. QED
    BY <2>2, <2>4
<1>10. \A i \in DOMAIN best :
          best[i].rec \in Pursued => best[i].status = "ok"
  BY <1>7 DEF RowOK
<1>11. Cardinality(spent) <= left
  <2>. DEFINE f == [i \in 1..n |-> rows[i].name]
  <2>1. f \in Surjection(1..n, spent)
    BY <1>3, <1>7 DEF Surjection
  <2>2. Cardinality(spent) <= n
    BY <1>2, <2>1, FS_SurjCardinalityBound DEF ExistsSurjection
  <2>3. IsFiniteSet(spent) /\ Cardinality(spent) \in Nat
    BY <1>2, <2>1, Numbered, FS_Surjection, FS_CardinalityType
  <2>. QED
    BY <1>2, <2>2, <2>3 DEF InHand
<1>. QED
  BY <1>6, <1>8, <1>9, <1>10, <1>11 DEF LInv, AsListed

LEMMA LInvStep == ASSUME LInv, LNext \/ UNCHANGED list PROVE LInv'
<1>1. CASE UNCHANGED list
  BY <1>1 DEF LInv
<1>. QED
  BY <1>1, FoundIsHonest, AskedIsInHand, OneMoreInHand, ShownIsHonest DEF LNext

(* A scored list has one row for each company asked for, none above one    *)
(* that is better, none recommended that was not researched, and costs the *)
(* account no more than it had; a search's card shows companies only.      *)
THEOREM ListIsHonestHolds == PSpec => []ListIsHonest
<1>1. PInit => LInv
  BY LInvInit DEF PInit
<1>2. LInv /\ [PNext]_pvars => LInv'
  <2>. SUFFICES ASSUME LInv, [PNext]_pvars PROVE LInv'
    OBVIOUS
  <2>1. LNext \/ UNCHANGED list
    BY DEF PNext, pvars, Discovering, Follow, Fetching, Crawling, Researching, Preview, Processing,
           Demonstrating, ShowingLists
  <2>. QED
    BY <2>1, LInvStep
<1>3. LInv => ListIsHonest
  BY DEF LInv, AsListed, AsFound, ListIsHonest
<1>. QED
  BY <1>1, <1>2, <1>3, PTL DEF PSpec

(* Neither the demo's opener nor a chat's list puts first what is          *)
(* outdone, or was not researched.                                         *)
THEOREM NothingOversoldHolds == PSpec => []NothingOversold
<1>1. OpenerIsEarned /\ ListIsHonest => NothingOversold
  BY DEF NothingOversold
<1>. QED
  BY <1>1, OpenerIsEarnedHolds, ListIsHonestHolds, PTL
=============================================================================
