------------------------------- MODULE Fetch --------------------------------
(***************************************************************************)
(* How a company's site is read: fetcher.py, the sitemaps and candidates   *)
(* of crawler.py, and the calls research/pipeline.py makes of them.  A     *)
(* page is asked for by a plain request, tried again after a passing       *)
(* failure; by a headless browser, one for the run; and, for the homepage, *)
(* by two paid readers.  The plain requests of a batch run at once, what   *)
(* follows them is done page by page.                                      *)
(*                                                                         *)
(* What a page gives is how much text is read from it, below RichFrom too  *)
(* little (JS_RENDER_TEXT_THRESHOLD), or None.                             *)
(***************************************************************************)
EXTENDS Integers, FiniteSets

CONSTANTS
    Subpages,      (* pages that can be candidates                         *)
    TeamPages,     (* of these, is_people_page: rendered whatever they say *)
    SectionOf,     (* the first segment of a page's path                      *)
    MaxPerSection, (* MAX_PER_SECTION                                      *)
    MaxExtra,      (* MAX_EXTRA_PAGES                                      *)
    MaxDocs,       (* sitemap documents read, 3                            *)
    MaxTries,      (* HTTP_MAX_RETRIES                                     *)
    MaxHops,       (* MAX_REDIRECTS                                        *)
    FetchBatch,    (* PAGE_BATCH_SIZE                                      *)
    MaxText, RichFrom, NoText

ASSUME FetchAssumption ==
    /\ IsFiniteSet(Subpages) /\ TeamPages \subseteq Subpages
    /\ {MaxPerSection, MaxExtra, MaxDocs, FetchBatch} \subseteq Nat \ {0}
    /\ {MaxTries, MaxHops, MaxText} \subseteq Nat /\ RichFrom \in 0..MaxText
    /\ NoText \notin 0..MaxText

VARIABLES
    visit,      (* the run: where it is, sitemaps to read, candidates left *)
    fetched,    (* what became of each page                                *)
    browser,    (* unlaunched, open or disabled                            *)
    broken      (* history: the browser could not be launched              *)

fvars == <<visit, fetched, browser, broken>>

Text == 0..MaxText
SitePages == Subpages \cup {"homepage"}

(* at: asked for, answered, taken or given up; tries and hops of the plain *)
(* request; what it gave, what was taken, and who else was asked.          *)
Untouched == [at |-> "unasked", tries |-> 0, hops |-> 0, plain |-> NoText, text |-> NoText,
             asked |-> {}]
NoVisit == [at |-> "idle", tops |-> 0, kids |-> 0, docs |-> 0, mapped |-> {}, left |-> {},
            home |-> "none"]
AllUntouched == [p \in SitePages |-> Untouched]

FInit ==
    /\ visit = NoVisit /\ fetched = AllUntouched
    /\ browser = "unlaunched" /\ broken = FALSE

-----------------------------------------------------------------------------
(* Which pages                                                             *)

(* _rank_and_cap: at most so many of a section, and as many as there may be. *)
RankAndCap(found) ==
    {kept \in SUBSET found :
        /\ \A p \in kept : Cardinality({q \in kept : SectionOf[q] = SectionOf[p]}) <= MaxPerSection
        /\ Cardinality(kept) <= MaxExtra
        /\ \A p \in found \ kept :
              \/ Cardinality({q \in kept : SectionOf[q] = SectionOf[p]}) = MaxPerSection
              \/ Cardinality(kept) = MaxExtra}

(* ordered_candidates: what the homepage links, then what the sitemaps add *)
(* (the cap of a section holds for each of the two alone).                 *)
OrderedCandidates(linked, mapped) ==
    {c \in SUBSET (linked \cup mapped) :
        \/ Cardinality(c) = MaxExtra
        \/ Cardinality(c) < MaxExtra /\ c = linked \cup mapped}

-----------------------------------------------------------------------------
(* The run                                                                 *)

(* validate_url refuses the address, or robots.txt names the sitemaps.     *)
Begin ==
    /\ visit.at = "idle"
    /\ \/ visit' = [visit EXCEPT !.at = "over"]
       \/ \E named \in 1..MaxDocs : visit' = [visit EXCEPT !.at = "maps", !.tops = named]
    /\ UNCHANGED <<fetched, browser, broken>>

(* One sitemap; an index names others, of which two are read.  Nothing may *)
(* come of it, and enough may have come of it.                             *)
ReadSitemap ==
    /\ visit.at = "maps" /\ visit.docs < MaxDocs /\ visit.kids + visit.tops > 0
    /\ \E kids \in IF visit.kids > 0 THEN {visit.kids - 1} ELSE 0..2, enough \in BOOLEAN :
          visit' = [visit EXCEPT !.docs = @ + 1, !.kids = kids,
                       !.tops = IF enough /\ kids = 0 THEN 0
                                ELSE IF visit.kids > 0 THEN @ ELSE @ - 1]
    /\ UNCHANGED <<fetched, browser, broken>>

(* The homepage is asked for.                                              *)
SitemapsRead ==
    /\ visit.at = "maps" /\ (visit.docs = MaxDocs \/ visit.kids + visit.tops = 0)
    /\ \E found \in SUBSET Subpages : \E mapped \in RankAndCap(found) :
          visit' = [NoVisit EXCEPT !.at = "home", !.mapped = mapped]
    /\ fetched' = [fetched EXCEPT !["homepage"] = [Untouched EXCEPT !.at = "asked"]]
    /\ UNCHANGED <<browser, broken>>

(* The homepage is there: its links, and those of the sitemaps.            *)
Discovered ==
    /\ visit.at = "home" /\ fetched["homepage"].at = "taken"
    /\ \E found \in SUBSET Subpages : \E linked \in RankAndCap(found) :
       \E candidates \in OrderedCandidates(linked, visit.mapped) :
          visit' = [NoVisit EXCEPT !.at = "crawl", !.left = candidates, !.home = "taken"]
    /\ fetched' = AllUntouched
    /\ UNCHANGED <<browser, broken>>

Open == {p \in SitePages : fetched[p].at \in {"asked", "answered", "scrape", "read"}}

(* _fetch_static_batch: the next pages of the pool are asked for at once.  *)
NextBatch ==
    /\ visit.at = "crawl" /\ Open = {}
    /\ \E batch \in SUBSET visit.left \ {{}} :
          /\ Cardinality(batch) <= FetchBatch
          /\ visit' = [visit EXCEPT !.left = @ \ batch]
          /\ fetched' = [p \in SitePages |-> IF p \in batch THEN [Untouched EXCEPT !.at = "asked"]
                                             ELSE Untouched]
    /\ UNCHANGED <<browser, broken>>

(* The crawl wants no more, or there is no homepage: the browser is closed. *)
Close ==
    /\ \/ visit.at = "crawl" /\ Open = {}
          /\ visit' = [NoVisit EXCEPT !.at = "over", !.home = "taken"]
       \/ visit.at = "home" /\ fetched["homepage"].at = "lost"
          /\ visit' = [NoVisit EXCEPT !.at = "over", !.home = "lost"]
    /\ fetched' = AllUntouched /\ browser' = "unlaunched" /\ broken' = FALSE

-----------------------------------------------------------------------------
(* One page                                                                *)

(* _fetch_static_once, hop by hop; each hop is validated.                  *)
Redirected(p) ==
    /\ fetched[p].at = "asked" /\ fetched[p].hops < MaxHops
    /\ fetched' = [fetched EXCEPT ![p] = [fetched[p] EXCEPT !.hops = @ + 1]]
    /\ UNCHANGED <<visit, browser, broken>>

(* A timeout, a dropped connection or the server's own error is tried      *)
(* again from the first address.                                           *)
TriedAgain(p) ==
    /\ fetched[p].at = "asked" /\ fetched[p].tries < MaxTries
    /\ fetched' = [fetched EXCEPT ![p] = [fetched[p] EXCEPT !.tries = @ + 1, !.hops = 0]]
    /\ UNCHANGED <<visit, browser, broken>>

(* The text, cut at its cap of bytes or time; or a refusal, the last       *)
(* failure, one redirect too many.                                         *)
Answered(p) ==
    /\ fetched[p].at = "asked"
    /\ \E plain \in Text \cup {NoText} :
          fetched' = [fetched EXCEPT ![p] = [Untouched EXCEPT !.at = "answered", !.plain = plain]]
    /\ UNCHANGED <<visit, browser, broken>>

Thin(text) == text < RichFrom
Longer(a, b) == IF b # NoText /\ b > a THEN b ELSE a

(* Mutant of RenderOnce: a page that fails takes the browser with it.      *)
RenderOnceOrNever(b) ==
    IF b = "disabled" THEN {<<b, NoText>>}
    ELSE {<<"disabled", NoText>>} \cup {<<"open", t>> : t \in Text}

(* _render_once: the browser is launched for the first page; if it cannot  *)
(* be, the run has none.  A page that fails is only that.                  *)
RenderOnce(b) ==
    IF b = "disabled" THEN {<<b, NoText>>}
    ELSE {<<"open", t>> : t \in Text \cup {NoText}}
         \cup IF b = "unlaunched" THEN {<<"disabled", NoText>>} ELSE {}

(* render: nothing, if the address is refused by now; once more, if the    *)
(* text is still thin, and the longer one counts.                          *)
Render(b) ==
    {<<b, NoText>>} \cup {r \in RenderOnce(b) : r[2] = NoText \/ ~Thin(r[2])}
    \cup UNION {{<<again[1], Longer(first[2], again[2])>> : again \in RenderOnce(first[1])}
                : first \in {r \in RenderOnce(b) : r[2] # NoText /\ Thin(r[2])}}

Asks(p, r) ==
    /\ browser' = r[1]
    /\ broken' = (broken \/ (browser = "unlaunched" /\ r[1] = "disabled"))

(* The pages of a batch are taken up one by one, when all have answered.   *)
ItsTurn(p) == fetched[p].at = "answered" /\ \A q \in SitePages : fetched[q].at # "asked"

(* Mutant of Richer: what the browser shows replaces what was read.        *)
RicherAnyway(plain, shown) == shown # NoText
Richer(plain, shown) == shown # NoText /\ shown > plain

Leave(p, at, text, asked) ==
    [fetched EXCEPT ![p] = [fetched[p] EXCEPT !.at = at, !.text = text, !.asked = asked]]
Taken(p, text, asked) == Leave(p, "taken", text, asked)

(* fetch_with_fallbacks for a page that was read: a people page, or one    *)
(* with little text, is shown to the browser too.                          *)
TakeRead(p) ==
    /\ ItsTurn(p) /\ fetched[p].plain # NoText
    /\ IF p \in TeamPages \/ Thin(fetched[p].plain)
       THEN \E r \in Render(browser) :
               /\ Asks(p, r)
               /\ fetched' = Taken(p, IF Richer(fetched[p].plain, r[2]) THEN r[2] ELSE fetched[p].plain,
                                {"browser"})
       ELSE /\ fetched' = Taken(p, fetched[p].plain, {})
            /\ UNCHANGED <<browser, broken>>
    /\ UNCHANGED visit

(* ... and for one that was not: the browser, and for the homepage the     *)
(* paid readers.                                                           *)
TakeRefused(p) ==
    /\ ItsTurn(p) /\ fetched[p].plain = NoText
    /\ \E r \in Render(browser) :
          /\ Asks(p, r)
          /\ fetched' = IF r[2] # NoText THEN Taken(p, r[2], {"browser"})
                        ELSE Leave(p, IF p = "homepage" THEN "scrape" ELSE "lost", NoText,
                                   IF browser = "disabled" THEN {} ELSE {"browser"})
    /\ UNCHANGED visit

(* A reader is not configured, fails, or gives next to nothing; or helps.  *)
Firecrawl ==
    /\ fetched["homepage"].at = "scrape"
    /\ LET asked == fetched["homepage"].asked \cup {"firecrawl"} IN
       fetched' \in {Leave("homepage", "read", NoText, asked), Taken("homepage", RichFrom, asked)}
    /\ UNCHANGED <<visit, browser, broken>>

Jina ==
    /\ fetched["homepage"].at = "read"
    /\ LET asked == fetched["homepage"].asked \cup {"jina"} IN
       fetched' \in {Leave("homepage", "lost", NoText, asked), Taken("homepage", RichFrom, asked)}
    /\ UNCHANGED <<visit, browser, broken>>

FNext ==
    \/ Begin \/ ReadSitemap \/ SitemapsRead \/ Discovered \/ NextBatch \/ Close
    \/ \E p \in SitePages : Redirected(p) \/ TriedAgain(p) \/ Answered(p) \/ TakeRead(p) \/ TakeRefused(p)
    \/ Firecrawl \/ Jina

-----------------------------------------------------------------------------

(* A page is given up only when each way open to it was tried: the browser *)
(* unless it could not be launched at all, whatever became of other pages, *)
(* and both paid readers for the homepage, which no run can do without.  A *)
(* render whose address is refused by then was tried.                      *)
LastResort ==
    \A p \in SitePages : fetched[p].at = "lost" =>
        /\ "browser" \in fetched[p].asked \/ broken
        /\ p = "homepage" => {"firecrawl", "jina"} \subseteq fetched[p].asked

(* What is taken of a page is no less than its plain request gave.         *)
NeverThinner ==
    \A p \in SitePages : fetched[p].at = "taken" /\ fetched[p].plain # NoText
        => fetched[p].text >= fetched[p].plain

(* A page is fetched as well as the chain allows.                          *)
FetchedInFull == LastResort /\ NeverThinner
=============================================================================
