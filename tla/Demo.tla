-------------------------------- MODULE Demo --------------------------------
(***************************************************************************)
(* The public demo of one network of visitors (server/demo_api.py,         *)
(* server/demo_session.py): its admission gate, the sessions a browser     *)
(* holds as a signed cookie, the chat turns an email address is allowed,   *)
(* and the pipeline runs, one at a time per network, that the gate, a lock *)
(* and a daily count admit.  The gate signs the visitor up to the waitlist *)
(* (Waitlist's list and linked).                                           *)
(*                                                                         *)
(* Every counter and lock has a TTL; time passes for each on its own, so   *)
(* a run may outlive its lock (a client that reads its stream slowly).     *)
(***************************************************************************)
EXTENDS Waitlist

CONSTANTS
    Browsers,
    Tabs,           (* chat requests in progress at once                   *)
    Requests,       (* pipeline requests in progress at once               *)
    Turns,          (* DEMO_SESSION_TURNS                                  *)
    Budget,         (* DEMO_DAILY_BUDGET_USD, in units of one run's cost   *)
    GlobalRuns,     (* DEMO_GLOBAL_DAILY_RUNS                              *)
    EmailDaily,     (* DEMO_EMAIL_DAILY, DEMO_SESSION_EMAIL_DAILY          *)
    NetworkDaily,   (* the per-IP limits                                   *)
    MaxIds,         (* bound: demo principals minted                       *)
    MaxMoves,       (* bound: sessions, turns and runs asked for           *)
    MaxLapses       (* bound: locks whose TTL ran out                      *)

ASSUME DemoAssumption ==
    /\ {Turns, Budget, GlobalRuns, EmailDaily, NetworkDaily, MaxIds, MaxMoves, MaxLapses}
          \subseteq Nat
    /\ {Turns, GlobalRuns + 1, EmailDaily + 1, NetworkDaily + 1} \subseteq 0..Ceiling
    /\ Unheld \notin Requests

VARIABLES
    counts,         (* the counters of the gate and the daily run count    *)
    turnsUsed,      (* demo:turns:<subject>                                *)
    locks,          (* lock:demo:run:<ip>                                  *)
    spent,          (* units of the last day in the demo's ledger          *)
    cookie,         (* the token each browser holds                        *)
    tab,            (* what each chat request is doing                     *)
    req,            (* what each pipeline request is doing                 *)
    served,         (* history: turns each address was served since its    *)
                    (* counter was last armed                              *)
    lapsed,         (* history: requests that outlived their lock          *)
    ids, moves, lapses

demoVars == <<counts, turnsUsed, locks, spent, cookie, tab, req, served, lapsed, ids, moves, lapses>>

Network == "network"
EveryRun == <<"all", Network>>
Daily(profile, p) == <<profile, p>>
Keys == {EveryRun} \cup ({"run", "session"} \X (People \cup {Network}))

(* A token names the principal, the address it was minted for (its keyed   *)
(* hash) or, when minted before tokens had one, nobody.  Id 0 is such an   *)
(* old session.                                                            *)
Token == [id: 0..MaxIds, tag: People \cup {Nobody}]
NoToken == [id |-> MaxIds + 1, tag |-> Nobody]
Holds(b) == cookie[b] # NoToken

Subjects == People \cup 0..MaxIds

(* Mutant of QuotaSubject: the quota is the session's.                     *)
QuotaSubjectById(t) == t.id

(* quota_subject: the address if the token has one, the session if not.    *)
QuotaSubject(t) == IF t.tag = Nobody THEN t.id ELSE t.tag

NoTab == [at |-> "idle", token |-> NoToken]
NoReq == [at |-> "idle"]

DemoInit ==
    /\ counts = [k \in Keys |-> 0]
    /\ turnsUsed = [s \in Subjects |-> 0]
    /\ locks = [n \in {Network} |-> Unheld]
    /\ spent \in 0..Budget
    /\ cookie \in {[b \in Browsers |-> NoToken]} \cup
                  {[b \in Browsers |-> IF b = old THEN [id |-> 0, tag |-> Nobody]
                                       ELSE NoToken] : old \in Browsers}
    /\ tab = [t \in Tabs |-> NoTab]
    /\ req = [r \in Requests |-> NoReq]
    /\ served = [p \in People |-> 0]
    /\ lapsed = {} /\ ids = 1 /\ moves = 0 /\ lapses = 0

Moves == moves < MaxMoves /\ moves' = moves + 1

(* A ledger that cannot be read counts as not spent.                       *)
BudgetReached(readable) == readable /\ spent >= Budget
Metered == spent' = IF spent < Budget THEN spent + 1 ELSE spent

-----------------------------------------------------------------------------

(* _gate, for a valid personal address: the budget first, then the         *)
(* network's buckets and the address's, each counted as it is compared.    *)
GateKeys(profile, p) == {Daily(profile, Network), Daily(profile, p)}
LimitOf(k) == IF k[2] = Network THEN NetworkDaily ELSE EmailDaily
NetworkPasses(profile, up) == ~OverLimit(counts, Daily(profile, Network), NetworkDaily, up)
GatePasses(profile, p, up, readable) ==
    /\ ~BudgetReached(readable)
    /\ \A k \in GateKeys(profile, p) : ~OverLimit(counts, k, LimitOf(k), up)
GateCounts(profile, p, up, readable) ==
    IF BudgetReached(readable) THEN counts
    ELSE LET network == Counted(counts, Daily(profile, Network), up)
         IN IF NetworkPasses(profile, up) THEN Counted(network, Daily(profile, p), up)
            ELSE network

(* ... and the soft waitlist add of whoever passes, which may mail them.   *)
SoftJoin(p) ==
    /\ list' = Inserted(list, p)
    /\ \/ list[p].status \notin {"subscribed", "unsubscribed"} /\ linked' = linked \cup {p}
       \/ linked' = linked

OthersOfWaitlist == UNCHANGED <<joins, visit, run, launches, visited, runs>>

(* POST /api/demo/session: the browser's principal is kept if its token is *)
(* for this address, or for none; otherwise a fresh one is minted.         *)
Mint(b, p) ==
    \E up, readable \in BOOLEAN :
       /\ Moves
       /\ IF up /\ readable THEN NoSlip ELSE Slip
       /\ counts' = GateCounts("session", p, up, readable)
       /\ IF GatePasses("session", p, up, readable)
          THEN /\ SoftJoin(p)
               /\ LET keeps == Holds(b) /\ cookie[b].tag \in {Nobody, p} IN
                  /\ keeps \/ ids <= MaxIds
                  /\ cookie' = [cookie EXCEPT ![b] =
                                   [id |-> IF keeps THEN @.id ELSE ids, tag |-> p]]
                  /\ ids' = IF keeps THEN ids ELSE ids + 1
          ELSE UNCHANGED <<list, linked, cookie, ids>>
       /\ OthersOfWaitlist
       /\ UNCHANGED <<turnsUsed, locks, spent, tab, req, served, lapsed, lapses>>

(* DELETE /api/demo/session, or the token's expiry.                        *)
SessionEnds(b) ==
    /\ Holds(b)
    /\ cookie' = [cookie EXCEPT ![b] = NoToken]
    /\ UNCHANGED waitlistVars
    /\ UNCHANGED <<counts, turnsUsed, locks, spent, tab, req, served, lapsed, ids, moves, lapses>>

(* A chat turn: the shared budget is asked, then a turn is reserved.       *)
AskTurn(t, b) ==
    /\ tab[t].at = "idle" /\ Holds(b) /\ Moves
    /\ \E readable \in BOOLEAN :
          /\ IF readable THEN NoSlip ELSE Slip
          /\ tab' = IF BudgetReached(readable) THEN tab
                    ELSE [tab EXCEPT ![t] = [at |-> "reserve", token |-> cookie[b]]]
    /\ UNCHANGED <<list, linked>> /\ OthersOfWaitlist
    /\ UNCHANGED <<counts, turnsUsed, locks, spent, cookie, req, served, lapsed, ids, lapses>>

(* One atomic step admits the turn below the cap and counts it; a counter  *)
(* that cannot be reached admits nothing; what was admitted is metered.    *)
ReserveTurn(t) ==
    LET s == QuotaSubject(tab[t].token) IN
    /\ tab[t].at = "reserve"
    /\ tab' = [tab EXCEPT ![t] = NoTab]
    /\ \/ /\ Admits(turnsUsed, s, Turns)
          /\ turnsUsed' = IncrIfBelow(turnsUsed, s, Turns)
          /\ served' = [p \in People |-> IF p = tab[t].token.tag THEN served[p] + 1
                                          ELSE served[p]]
          /\ Metered /\ NoSlip
       \/ ~Admits(turnsUsed, s, Turns) /\ NoSlip /\ UNCHANGED <<turnsUsed, served, spent>>
       \/ Slip /\ UNCHANGED <<turnsUsed, served, spent>>
    /\ UNCHANGED <<list, linked>> /\ OthersOfWaitlist
    /\ UNCHANGED <<counts, locks, cookie, req, lapsed, ids, moves,
                   lapses>>

TurnWindowEnds(s) ==
    /\ turnsUsed[s] > 0
    /\ turnsUsed' = WindowOver(turnsUsed, s)
    /\ served' = [p \in People |-> IF p = s THEN 0 ELSE served[p]]
    /\ UNCHANGED waitlistVars
    /\ UNCHANGED <<counts, locks, spent, cookie, tab, req, lapsed, ids, moves,
                   lapses>>

-----------------------------------------------------------------------------

(* POST /api/demo/run: gate, lock, daily count, meter, stream.             *)
AskRun(r, p) ==
    \E up, readable \in BOOLEAN :
       /\ req[r].at = "idle" /\ Moves
       /\ IF up /\ readable THEN NoSlip ELSE Slip
       /\ counts' = GateCounts("run", p, up, readable)
       /\ IF GatePasses("run", p, up, readable)
          THEN SoftJoin(p) /\ req' = [req EXCEPT ![r].at = "lock"]
          ELSE UNCHANGED <<list, linked, req>>
       /\ OthersOfWaitlist
       /\ UNCHANGED <<turnsUsed, locks, spent, cookie, tab, served, lapsed, ids, lapses>>

LockRun(r) ==
    /\ req[r].at = "lock"
    /\ \/ /\ Acquirable(locks, Network, TRUE) /\ NoSlip
          /\ locks' = Acquired(locks, Network, r)
          /\ req' = [req EXCEPT ![r].at = "count"]
       \/ /\ IF Acquirable(locks, Network, TRUE) THEN Slip ELSE NoSlip
          /\ locks' = locks
          /\ req' = [req EXCEPT ![r].at = "idle"]
    /\ UNCHANGED <<list, linked>> /\ OthersOfWaitlist
    /\ UNCHANGED <<counts, turnsUsed, spent, cookie, tab, served, lapsed, ids, moves,
                   lapses>>

(* The count that stops every run of the day, though the ledger be down.   *)
CountRun(r) ==
    \E up \in BOOLEAN :
       /\ req[r].at = "count"
       /\ IF up THEN NoSlip ELSE Slip
       /\ counts' = Counted(counts, EveryRun, up)
       /\ IF OverLimit(counts, EveryRun, GlobalRuns, up)
          THEN /\ locks' = Released(locks, Network, r)
               /\ req' = [req EXCEPT ![r].at = "idle"]
               /\ lapsed' = lapsed \ {r}
               /\ spent' = spent
          ELSE /\ Metered
               /\ req' = [req EXCEPT ![r].at = "stream"]
               /\ UNCHANGED <<locks, lapsed>>
       /\ UNCHANGED <<list, linked>> /\ OthersOfWaitlist
       /\ UNCHANGED <<turnsUsed, cookie, tab, served, ids, moves,
                   lapses>>

(* The stream ends, crashes or is abandoned: the lock is released if it is *)
(* still this run's; the release may fail, and the TTL frees the lock.     *)
RunEnds(r) ==
    /\ req[r].at = "stream"
    /\ \/ locks' = Released(locks, Network, r) /\ NoSlip
       \/ Slip /\ locks' = locks
    /\ req' = [req EXCEPT ![r].at = "idle"]
    /\ lapsed' = lapsed \ {r}
    /\ UNCHANGED <<list, linked>> /\ OthersOfWaitlist
    /\ UNCHANGED <<counts, turnsUsed, spent, cookie, tab, served, ids, moves,
                   lapses>>

LockLapses ==
    /\ locks[Network] # Unheld /\ lapses < MaxLapses
    /\ lapses' = lapses + 1
    /\ lapsed' = lapsed \cup {r \in Requests : req[r].at \in {"count", "stream"}
                                              /\ locks[Network] = r}
    /\ locks' = TtlOver(locks, Network)
    /\ UNCHANGED waitlistVars
    /\ UNCHANGED <<counts, turnsUsed, spent, cookie, tab, req, served, ids, moves>>

DayEnds ==
    /\ \E k \in Keys : counts[k] > 0
    /\ counts' = [k \in Keys |-> 0] /\ spent' = 0
    /\ UNCHANGED waitlistVars
    /\ UNCHANGED <<turnsUsed, locks, cookie, tab, req, served, lapsed, ids, moves,
                   lapses>>

SessionsNext ==
    \/ \E b \in Browsers, p \in People : Mint(b, p)
    \/ \E b \in Browsers : SessionEnds(b)
    \/ \E t \in Tabs, b \in Browsers : AskTurn(t, b)
    \/ \E t \in Tabs : ReserveTurn(t)
    \/ \E s \in Subjects : TurnWindowEnds(s)
    \/ DayEnds

RunsNext ==
    \/ \E r \in Requests, p \in People : AskRun(r, p)
    \/ \E r \in Requests : LockRun(r) \/ CountRun(r) \/ RunEnds(r)
    \/ LockLapses
    \/ DayEnds

-----------------------------------------------------------------------------

(* One run per network at a time: of the runs in progress at most one has  *)
(* not outlived its lock, whoever ends, fails or is late (acquire_lock,    *)
(* release_lock with the run's own token, _event_stream's finally).        *)
InProgress(r) == req[r].at \in {"count", "stream"} /\ r \notin lapsed
OneRunPerNetwork == \A r, s \in Requests : InProgress(r) /\ InProgress(s) => r = s

(* The turns an address is served are an allowance of its own: no exit, no *)
(* re-entry, no second browser and no two tabs at once get one more, until *)
(* the counter's own window ends (quota_subject, incr_if_below).           *)
Granted == INSTANCE Allowance WITH Holders <- People, Cap <- Turns, taken <- served
TurnsAreAllowance == Granted!Spec
=============================================================================
