------------------------------ MODULE Listing -------------------------------
(***************************************************************************)
(* The lists of companies a chat shows: the card of a search               *)
(* (find_prospects of chat/tools.py) and the scored list of a research     *)
(* (research_prospects and chat/research_pipeline.py), in which each of    *)
(* the companies named, or found, is researched and qualified in turn,     *)
(* within what the account has left, and the list sorted best first.       *)
(***************************************************************************)
EXTENDS DemoRun

CONSTANTS
    ListMax,      (* RESEARCH_LIST_MAX                                     *)
    DisplayMax    (* _FIND_DISPLAY_MAX                                     *)

ASSUME ListingAssumption == ListMax \in Nat \ {0} /\ DisplayMax \in Nat \ {0}

VARIABLE list

(* left: what the plan still allows; asked: the leads to be researched;    *)
(* spent: the names counted against the account; last: prospects_last.     *)
NoList == [at |-> "idle", left |-> 0, asked |-> <<>>, rows |-> <<>>, spent |-> {}, last |-> {}]

LInit == list = NoList

Upto(s, n) == SubSeq(s, 1, IF Len(s) < n THEN Len(s) ELSE n)
Sequences2(S) == {<<>>} \cup {<<a>> : a \in S} \cup {<<a, b>> : a, b \in S}

-----------------------------------------------------------------------------
(* The card of a search                                                    *)

(* A discovered row: its name, or words that name no company; company, or  *)
(* the job board or aggregator it stands for; the match; the verified      *)
(* hiring, for the role asked for or for another.                          *)
Finding == [name: Prospects \cup {"generic"}, tier: {"company", "fallback"},
            match: {"low", "fair", "high"}, hiring: {"none", "role", "other"}]
Malformed(row) == row.name = "generic"
Band(row) ==
    IF row.tier = "fallback" \/ row.match = "low" THEN "weak"
    ELSE IF row.match = "fair" \/ row.hiring = "other" THEN "possible" ELSE "strong"

(* The places, in what was found, of the rows that name a company, of      *)
(* those that qualify, and of the first of these, which fit the card.      *)
Entries(rows) == {i \in DOMAIN rows : ~Malformed(rows[i])}
Qualifying(rows) == {i \in Entries(rows) : Band(rows[i]) # "weak"}
OnCard(rows) ==
    {i \in Qualifying(rows) : Cardinality({j \in Qualifying(rows) : j < i}) < DisplayMax}

(* The best rows that qualify are shown, in the order they were found; the *)
(* rows of the shown companies are remembered, a row of the same name with *)
(* them.                                                                   *)
FindProspects ==
    /\ list.at = "idle"
    /\ \E rows \in Sequences2(Finding) :
          list' = [list EXCEPT !.at = "found", !.rows = [i \in OnCard(rows) |-> rows[i]],
                     !.last = {i \in DOMAIN rows :
                                 \E k \in OnCard(rows) : rows[k].name = rows[i].name}]

-----------------------------------------------------------------------------
(* The scored list                                                         *)

(* A company, with its website or only by name.                            *)
ListedLead == [name: Prospects, site: BOOLEAN]

(* The companies the user listed, whatever repeats, or those a search      *)
(* found, each with its site; at most what the account has left, which     *)
(* nothing holds until it is recorded, and at most a list.                 *)
ResearchProspects ==
    /\ list.at = "idle"
    /\ \E leads \in Sequences2(ListedLead), left \in 0..2 :
          list' = IF leads = <<>> \/ left = 0 THEN [list EXCEPT !.at = "refused"]
                  ELSE [list EXCEPT !.at = "researching", !.left = left,
                          !.asked = Upto(Upto(leads, left), ListMax)]

(* resolve_company_name: the hits that bear the company's name, or else    *)
(* all; several are for the user to choose from.                           *)
Candidates(hits, bearing) == IF bearing = {} THEN hits ELSE bearing

(* _default_resolve asks nobody: the candidate ranked first is the site,   *)
(* which may be another company's, or there is none.                       *)
SitesOf(lead) ==
    IF lead.site THEN {lead.name}
    ELSE {"none"} \cup UNION {Candidates(hits, bearing) : hits, bearing \in SUBSET Prospects}

(* The people a profile names, in the order they are considered, and who   *)
(* of them has a role that buys.                                           *)
PersonSlots == <<"founder", "contact", "member">>
DecisionMaker(buyers) ==
    IF buyers = {} THEN "nobody"
    ELSE PersonSlots[CHOOSE i \in 1..3 : PersonSlots[i] \in buyers /\ \A j \in 1..(i - 1) : PersonSlots[j] \notin buyers]

(* A profile that was filled: what the company calls itself, if it says,   *)
(* which may not be the name asked for, and a person, whatever the status. *)
NamesOf(lead) == {lead.name} \cup (SitesOf(lead) \ {"none"})
Persons == {DecisionMaker(buyers) : buyers \in SUBSET {PersonSlots[i] : i \in 1..3}}

Row(lead, name, status, verdict, person) ==
    [lead |-> lead, name |-> name, status |-> status,
     score |-> verdict.score, rec |-> verdict.rec, person |-> person]

(* _research_one and _entry: without a site nothing is researched; an      *)
(* exception of the research is the row's, not the list's; a profile too   *)
(* thin or unsure is skipped, with all that it found.  What was not        *)
(* researched, or skipped, is judged on nothing and asks for more; a       *)
(* qualification that fails gives no verdict.                              *)
Unjudged == {Without("research_more"), Without("none")}
RowsOf(lead) ==
    {Row(lead, lead.name, status, verdict, "nobody") :
        status \in {"skip", "error"}, verdict \in Unjudged}
    \cup {Row(lead, name, "skip", verdict, person) :
             name \in NamesOf(lead), verdict \in Unjudged, person \in Persons}
    \cup {Row(lead, name, "ok", verdict, person) :
             name \in NamesOf(lead), person \in Persons,
             verdict \in {Verdict(d) : d \in Dossier} \cup {Without("none")}}

(* Mutant of Rated: by score alone.                                        *)
ByScore(row) == row.score
(* The researched first, and by score.                                     *)
Rated(row) == IF row.status = "ok" THEN 1 + row.score ELSE 0
(* A stable sort, best first.                                              *)
Place(rows, i) ==
    1 + Cardinality({j \in DOMAIN rows :
                        \/ Rated(rows[j]) > Rated(rows[i])
                        \/ Rated(rows[j]) = Rated(rows[i]) /\ j < i})
BestFirst(rows) == [k \in DOMAIN rows |-> rows[CHOOSE i \in DOMAIN rows : Place(rows, i) = k]]

ResearchOne ==
    /\ list.at = "researching" /\ Len(list.rows) < Len(list.asked)
    /\ \E row \in RowsOf(list.asked[Len(list.rows) + 1]) :
          list' = [list EXCEPT !.rows = Append(@, row)]

(* The list is sorted, and every row's name counted, researched or not.    *)
ShowList ==
    /\ list.at = "researching" /\ Len(list.rows) = Len(list.asked)
    /\ list' = [list EXCEPT !.at = "listed", !.rows = BestFirst(@),
                  !.spent = {list.rows[i].name : i \in DOMAIN list.rows}]

LNext == FindProspects \/ ResearchProspects \/ ResearchOne \/ ShowList

-----------------------------------------------------------------------------

(* A scored list has one row for each lead it was asked for, whatever its  *)
(* research came to, no researched row below one that was not or that      *)
(* scored less, none recommended that was not researched, and counts no    *)
(* more against the account than the account had left.  A card of a search has  *)
(* no row that is weak or no company, and all its rows are remembered.     *)
ListIsHonest ==
    /\ list.at = "listed" =>
          /\ \A lead \in ListedLead :
                Cardinality({i \in DOMAIN list.rows : list.rows[i].lead = lead})
                  = Cardinality({i \in DOMAIN list.asked : list.asked[i] = lead})
          /\ \A i, j \in DOMAIN list.rows :
                i < j /\ list.rows[j].status = "ok"
                  => list.rows[i].status = "ok" /\ list.rows[i].score >= list.rows[j].score
          /\ \A i \in DOMAIN list.rows :
                list.rows[i].rec \in Pursued => list.rows[i].status = "ok"
          /\ Cardinality(list.spent) <= list.left
    /\ list.at = "found" =>
          /\ \A i \in DOMAIN list.rows :
                list.rows[i].name \in Prospects /\ list.rows[i].tier = "company"
          /\ Cardinality(list.last) >= Cardinality(DOMAIN list.rows)
=============================================================================
