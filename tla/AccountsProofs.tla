--------------------------- MODULE AccountsProofs ----------------------------
(***************************************************************************)
(* Proofs about Accounts: for any people, requests, sessions, calls,       *)
(* decisions, mails and limits, in whichever of the parts a behaviour runs.*)
(***************************************************************************)
EXTENDS Accounts, FiniteSetTheorems, SequenceTheorems, TLAPS

(* A step of the service is a step of one part, and keeps the others.      *)
PeopleStep ==
    \/ WaitlistNext /\ UNCHANGED demoVars
    \/ SessionsNext
    \/ RunsNext
    \/ UNCHANGED <<waitlistVars, demoVars>>

LEMMA Parts ==
    [Next]_vars => PeopleStep /\ [LimitsNext]_limitsVars /\ [AccessNext]_accessVars
                   /\ [GuardNext]_guardVars
  BY DEF Next, vars, PeopleStep

-----------------------------------------------------------------------------
(* Soft-launch access                                                      *)

LEMMA AccessTyped == Spec => []AccessTypeOK
<1>1. Init => AccessTypeOK
  BY AccessAssumption DEF Init, AccessInit, AccessTypeOK, Entry, Ask, Decide, Answered403, NoDecision
<1>2. AccessTypeOK /\ [Next]_vars => AccessTypeOK'
  <2>. SUFFICES ASSUME AccessTypeOK, [AccessNext]_accessVars PROVE AccessTypeOK'
    BY Parts
  <2>. USE DEF AccessTypeOK
  <2>1. ASSUME NEW r \in Asks, NEW u \in Members, CheckAccess(r, u) PROVE AccessTypeOK'
    BY <2>1 DEF CheckAccess, Failure, NoFailure, Ask
  <2>2. ASSUME NEW r \in Asks, FirstSight(r) PROVE AccessTypeOK'
    BY <2>2 DEF FirstSight, Failure, NoFailure, Filed, Ask, Answered403, Entry
  <2>3. ASSUME NEW d \in Deciders, NEW u \in Members, NEW to \in {"approved", "denied"},
               SetStatus(d, u, to)
        PROVE AccessTypeOK'
    BY <2>3 DEF SetStatus, Took, Drops, Failure, NoFailure, Decide, Entry
  <2>4. ASSUME NEW d \in Deciders, SetStatusInserts(d) PROVE AccessTypeOK'
    BY <2>4 DEF SetStatusInserts, Took, Drops, Failure, NoFailure, Decide, Entry, NoDecision
  <2>5. CASE UNCHANGED accessVars
    BY <2>5 DEF accessVars
  <2>. QED
    BY <2>1, <2>2, <2>3, <2>4, <2>5 DEF AccessNext
<1>. QED
  BY <1>1, <1>2, PTL DEF Spec

(* What was decided last is what the table says, however many requests and *)
(* decisions are in progress, unless that decision wrote nothing; and then *)
(* the user has a row of another, or a statement has failed.               *)
THEOREM DecisionsStand == Spec => []DecisionStands
<1>1. Init => DecisionStands
  BY DEF Init, AccessInit, DecisionStands
<1>2. AccessTypeOK /\ DecisionStands /\ [Next]_vars => DecisionStands'
  <2>. SUFFICES ASSUME AccessTypeOK, DecisionStands, [AccessNext]_accessVars
                PROVE  DecisionStands'
    BY Parts
  <2>. USE DEF AccessTypeOK, DecisionStands
  <2>1. ASSUME NEW r \in Asks, NEW u \in Members, CheckAccess(r, u) PROVE DecisionStands'
    BY <2>1 DEF CheckAccess, Failure, NoFailure
  <2>2. ASSUME NEW r \in Asks, FirstSight(r) PROVE DecisionStands'
    BY <2>2 DEF FirstSight, Filed, Failure, NoFailure
  <2>3. ASSUME NEW d \in Deciders, NEW u \in Members, NEW to \in {"approved", "denied"},
               SetStatus(d, u, to)
        PROVE DecisionStands'
    BY <2>3 DEF SetStatus, Took, Drops, Failure, NoFailure
  <2>4. ASSUME NEW d \in Deciders, SetStatusInserts(d) PROVE DecisionStands'
    BY <2>4 DEF SetStatusInserts, Took, Drops, Failure, NoFailure
  <2>5. CASE UNCHANGED accessVars
    BY <2>5 DEF accessVars
  <2>. QED
    BY <2>1, <2>2, <2>3, <2>4, <2>5 DEF AccessNext
<1>. QED
  BY <1>1, <1>2, AccessTyped, PTL DEF Spec

-----------------------------------------------------------------------------
(* The waitlist, which the demo signs its visitors up to                   *)

ListTyped == list \in [People -> Row]

LEMMA RowOperators ==
    ASSUME ListTyped, NEW p \in People
    PROVE  /\ Inserted(list, p) \in [People -> Row]
           /\ Confirmed(list, p) \in [People -> Row]
           /\ [list EXCEPT ![p].status = "unsubscribed"] \in [People -> Row]
           /\ [list EXCEPT ![p].notified = TRUE] \in [People -> Row]
           /\ \A q \in People : list[q].status = "unsubscribed" =>
                 /\ Inserted(list, p)[q].status = "unsubscribed"
                 /\ Confirmed(list, p)[q].status = "unsubscribed"
                 /\ [list EXCEPT ![p].status = "unsubscribed"][q].status = "unsubscribed"
                 /\ [list EXCEPT ![p].notified = TRUE][q].status = "unsubscribed"
  BY DEF ListTyped, Row, Status, Inserted, Confirmed

(* What the requests and the broadcasts in progress are about.             *)
VisitsTyped ==
    /\ visit \in [Visits -> Visit]
    /\ \A v \in Visits : visit[v].at # "idle" => visit[v].who \in People
RunsTyped ==
    /\ run \in [Runs -> Run]
    /\ \A r \in Runs : run[r].at = "stamp" => run[r].who \in People

(* The only writes to the list.                                            *)
ListWritten ==
    \/ list' = list
    \/ \E p \in People : \/ list' = Inserted(list, p)
                         \/ list' = Confirmed(list, p)
                         \/ list' = [list EXCEPT ![p].status = "unsubscribed"]
                         \/ list' = [list EXCEPT ![p].notified = TRUE]

LEMMA VisitsStep == ListTyped /\ VisitsTyped /\ [Next]_vars => VisitsTyped'
<1>. SUFFICES ASSUME ListTyped, VisitsTyped, PeopleStep PROVE VisitsTyped'
  BY Parts
<1>. USE DEF ListTyped, VisitsTyped
<1>1. CASE visit' = visit
  BY <1>1
<1>2. ASSUME NEW v \in Visits, NEW p \in People,
             Submit(v, p) \/ OpenConfirm(v, p) \/ OpenUnsubscribe(v, p)
      PROVE  VisitsTyped'
  <2>. DEFINE Begun(at) == [Resting EXCEPT !.at = at, !.who = p]
  <2>1. PICK at \in {"join", "confirm", "leave"} :
           visit' = visit \/ visit' = [visit EXCEPT ![v] = Begun(at)]
    BY <1>2 DEF Submit, OpenConfirm, OpenUnsubscribe
  <2>2. Resting \in Visit
    BY DEF Resting, Visit, Status
  <2>3. Begun(at) \in Visit /\ Begun(at).who = p
    BY <2>2 DEF Visit
  <2>. HIDE DEF Begun
  <2>. QED
    BY <2>1, <2>3
<1>3. ASSUME NEW v \in Visits, JoinReads(v) PROVE VisitsTyped'
  <2>1. PICK sees \in {list[visit[v].who].status, "absent"} :
           visit' = [visit EXCEPT ![v].at = "create", ![v].saw = sees]
    BY <1>3 DEF JoinReads
  <2>2. visit[v].who \in People
    BY <1>3 DEF JoinReads
  <2>3. sees \in Status
    BY <2>1, <2>2 DEF Row, Status
  <2>. QED
    BY <2>1, <2>2, <2>3 DEF Visit
<1>4. ASSUME NEW v \in Visits, JoinCreates(v) \/ Confirm(v) \/ Unsubscribe(v)
      PROVE  VisitsTyped'
  BY <1>4 DEF JoinCreates, Confirm, Unsubscribe, Rest, Resting, Visit, Status
<1>5. WaitlistNext => VisitsTyped' \/ visit' = visit
  BY <1>2, <1>3, <1>4 DEF WaitlistNext, BroadcastBegins, BroadcastSends, BroadcastStamps,
        BroadcastEnds, BroadcastKilled, LimitWindowEnds
<1>6. SessionsNext \/ RunsNext => visit' = visit
  BY DEF SessionsNext, RunsNext, Mint, SessionEnds, AskTurn, ReserveTurn, TurnWindowEnds, DayEnds,
        AskRun, LockRun, CountRun, RunEnds, LockLapses, OthersOfWaitlist, waitlistVars
<1>. QED
  BY <1>1, <1>5, <1>6 DEF PeopleStep, waitlistVars

LEMMA RunsStep == ListTyped /\ RunsTyped /\ [Next]_vars => RunsTyped'
<1>. SUFFICES ASSUME ListTyped, RunsTyped, PeopleStep PROVE RunsTyped'
  BY Parts
<1>. USE DEF ListTyped, RunsTyped
<1>1. CASE run' = run
  BY <1>1
<1>2. ASSUME NEW r \in Runs, BroadcastBegins(r) \/ BroadcastEnds(r) \/ BroadcastKilled(r)
      PROVE  RunsTyped'
  <2>. DEFINE Begun == [Stopped EXCEPT !.at = "send", !.queue = PendingBroadcast]
  <2>1. run' = [run EXCEPT ![r] = Begun] \/ run' = [run EXCEPT ![r] = Stopped]
    BY <1>2 DEF BroadcastBegins, BroadcastEnds, BroadcastKilled
  <2>2. Stopped \in Run /\ Stopped.at = "idle"
    BY DEF Run, Stopped
  <2>3. PendingBroadcast \subseteq People
    BY DEF PendingBroadcast
  <2>4. Begun \in Run /\ Begun.at = "send"
    BY <2>2, <2>3 DEF Run
  <2>. HIDE DEF Begun
  <2>. QED
    BY <2>1, <2>2, <2>4
<1>3. ASSUME NEW r \in Runs, BroadcastSends(r) PROVE RunsTyped'
  <2>1. PICK p \in run[r].queue, accepted \in BOOLEAN :
           run' = [run EXCEPT ![r].at = IF accepted THEN "stamp" ELSE "send",
                              ![r].who = IF accepted THEN p ELSE Nobody,
                              ![r].queue = @ \ {p}]
    BY <1>3 DEF BroadcastSends
  <2>2. p \in People
    BY DEF Run
  <2>. QED
    BY <2>1, <2>2 DEF Run
<1>4. ASSUME NEW r \in Runs, BroadcastStamps(r) PROVE RunsTyped'
  <2>1. run' = [run EXCEPT ![r].at = "send", ![r].who = Nobody]
    BY <1>4 DEF BroadcastStamps
  <2>. QED
    BY <2>1 DEF Run
<1>5. WaitlistNext => RunsTyped' \/ run' = run
  BY <1>2, <1>3, <1>4 DEF WaitlistNext, Submit, OpenConfirm, OpenUnsubscribe, JoinReads,
        JoinCreates, Confirm, Unsubscribe, LimitWindowEnds
<1>6. SessionsNext \/ RunsNext => run' = run
  BY DEF SessionsNext, RunsNext, Mint, SessionEnds, AskTurn, ReserveTurn, TurnWindowEnds, DayEnds,
        AskRun, LockRun, CountRun, RunEnds, LockLapses, OthersOfWaitlist, waitlistVars
<1>. QED
  BY <1>1, <1>5, <1>6 DEF PeopleStep, waitlistVars

LEMMA ListStep == VisitsTyped /\ RunsTyped /\ [Next]_vars => ListWritten
<1>. SUFFICES ASSUME VisitsTyped, RunsTyped, PeopleStep PROVE ListWritten
  BY Parts
<1>1. WaitlistNext => ListWritten
  BY DEF ListWritten, VisitsTyped, RunsTyped, WaitlistNext, Submit, OpenConfirm, OpenUnsubscribe,
        JoinReads, JoinCreates, Confirm, Unsubscribe, BroadcastBegins, BroadcastSends,
        BroadcastStamps, BroadcastEnds, BroadcastKilled, LimitWindowEnds
<1>2. SessionsNext \/ RunsNext => ListWritten
  BY DEF ListWritten, SessionsNext, RunsNext, Mint, SessionEnds, AskTurn, ReserveTurn,
        TurnWindowEnds, DayEnds, AskRun, LockRun, CountRun, RunEnds, LockLapses, SoftJoin,
        waitlistVars
<1>. QED
  BY <1>1, <1>2 DEF PeopleStep, waitlistVars, ListWritten

WaitlistInv == ListTyped /\ VisitsTyped /\ RunsTyped

LEMMA WaitlistTyped == Spec => []WaitlistInv
<1>1. Init => WaitlistInv
  BY DEF Init, WaitlistInit, WaitlistInv, ListTyped, VisitsTyped, RunsTyped, Row, Status, Resting,
        Visit, Stopped, Run
<1>2. WaitlistInv /\ [Next]_vars => ListTyped'
  <2>. SUFFICES ASSUME WaitlistInv, [Next]_vars PROVE ListTyped'
    OBVIOUS
  <2>1. ListTyped /\ ListWritten
    BY ListStep DEF WaitlistInv
  <2>2. CASE list' = list
    BY <2>1, <2>2 DEF ListTyped
  <2>3. ASSUME NEW p \in People,
               \/ list' = Inserted(list, p)
               \/ list' = Confirmed(list, p)
               \/ list' = [list EXCEPT ![p].status = "unsubscribed"]
               \/ list' = [list EXCEPT ![p].notified = TRUE]
        PROVE  ListTyped'
    <3>1. list' \in [People -> Row]
      BY <2>1, <2>3 DEF ListTyped, Inserted, Confirmed, Row, Status
    <3>. QED
      BY <3>1 DEF ListTyped
  <2>. QED
    BY <2>1, <2>2, <2>3 DEF ListWritten
<1>3. WaitlistInv /\ [Next]_vars => WaitlistInv'
  BY <1>2, VisitsStep, RunsStep DEF WaitlistInv
<1>. QED
  BY <1>1, <1>3, PTL DEF Spec

(* An address that opted out stays out: no confirmation that read the row  *)
(* before, no form, no broadcast and no demo brings it back.               *)
THEOREM OptOutsStand == Spec => OptOutStands
<1>. DEFINE Kept == \A p \in People :
                       list[p].status = "unsubscribed" => list'[p].status = "unsubscribed"
<1>1. WaitlistInv /\ [Next]_vars => [Kept]_list
  BY ListStep, RowOperators DEF WaitlistInv, ListWritten
<1>. QED
  BY <1>1, WaitlistTyped, PTL DEF Spec, OptOutStands

-----------------------------------------------------------------------------
(* The demo's runs                                                         *)

(* Whoever runs and has not outlived the lock is the one who holds it.     *)
RunsLocked ==
    /\ req \in [Requests -> [at: {"idle", "lock", "count", "stream"}]]
    /\ locks \in [{Network} -> Requests \cup {Unheld}]
    /\ \A r \in Requests : InProgress(r) => locks[Network] = r

(* The lock and the requests, the rest of the demo left aside.             *)
KeepsRuns == UNCHANGED <<req, locks, lapsed>>

LEMMA RunsLockedStep == RunsLocked /\ [Next]_vars => RunsLocked'
<1>. SUFFICES ASSUME RunsLocked, PeopleStep PROVE RunsLocked'
  BY Parts
<1>. USE DemoAssumption DEF RunsLocked, InProgress
<1>1. CASE KeepsRuns
  BY <1>1 DEF KeepsRuns
<1>2. ASSUME NEW r \in Requests, NEW p \in People, AskRun(r, p) PROVE RunsLocked'
  BY <1>2 DEF AskRun
<1>3. ASSUME NEW r \in Requests, LockRun(r) PROVE RunsLocked'
  BY <1>3 DEF LockRun, Acquirable, Acquired
<1>4. ASSUME NEW r \in Requests, CountRun(r) PROVE RunsLocked'
  BY <1>4 DEF CountRun, Released
<1>5. ASSUME NEW r \in Requests, RunEnds(r) PROVE RunsLocked'
  BY <1>5 DEF RunEnds, Released
<1>6. CASE LockLapses
  BY <1>6 DEF LockLapses, TtlOver
<1>7. WaitlistNext /\ UNCHANGED demoVars => KeepsRuns
  BY DEF KeepsRuns, demoVars
<1>8. SessionsNext => KeepsRuns
  BY DEF KeepsRuns, SessionsNext, Mint, SessionEnds, AskTurn, ReserveTurn, TurnWindowEnds, DayEnds
<1>9. DayEnds => KeepsRuns
  BY DEF KeepsRuns, DayEnds
<1>. QED
  BY <1>1, <1>2, <1>3, <1>4, <1>5, <1>6, <1>7, <1>8, <1>9 DEF PeopleStep, RunsNext, demoVars, KeepsRuns

(* One run per network at a time, whoever ends, fails or is late.          *)
THEOREM OneRun == Spec => []OneRunPerNetwork
<1>1. Init => RunsLocked
  BY DEF Init, DemoInit, RunsLocked, InProgress, NoReq
<1>2. RunsLocked => OneRunPerNetwork
  BY DEF RunsLocked, OneRunPerNetwork
<1>. QED
  BY <1>1, <1>2, RunsLockedStep, PTL DEF Spec

-----------------------------------------------------------------------------
(* The demo's turns                                                        *)

(* The counter admits by what it counted, and what it counted is no less   *)
(* than what an address was served.                                        *)
TurnsCounted ==
    /\ turnsUsed \in [Subjects -> Nat]
    /\ served \in [People -> Nat]
    /\ \A p \in People : served[p] <= turnsUsed[p]

TokensTyped ==
    /\ ids \in Nat
    /\ cookie \in [Browsers -> Token \cup {NoToken}]
    /\ tab \in [Tabs -> [at: {"idle", "reserve"}, token: Token \cup {NoToken}]]
    /\ \A t \in Tabs : tab[t].at = "reserve" => tab[t].token \in Token

KeepsTurns == UNCHANGED <<turnsUsed, served>>

LEMMA DemoBounds ==
    /\ Turns \in Nat /\ MaxIds \in Nat /\ Ceiling \in Nat /\ Turns <= Ceiling
  BY DemoAssumption, CoordinationAssumption

LEMMA TokensStep == TokensTyped /\ [Next]_vars => TokensTyped'
<1>. SUFFICES ASSUME TokensTyped, PeopleStep PROVE TokensTyped'
  BY Parts
<1>. USE DemoBounds DEF TokensTyped
<1>1. CASE UNCHANGED <<ids, cookie, tab>>
  BY <1>1
<1>2. ASSUME NEW b \in Browsers, NEW p \in People, Mint(b, p) PROVE TokensTyped'
  BY <1>2 DEF Mint, Token, NoToken, Holds
<1>3. ASSUME NEW b \in Browsers, SessionEnds(b) PROVE TokensTyped'
  BY <1>3 DEF SessionEnds
<1>4. ASSUME NEW t \in Tabs, NEW b \in Browsers, AskTurn(t, b) PROVE TokensTyped'
  BY <1>4 DEF AskTurn, Holds
<1>5. ASSUME NEW t \in Tabs, ReserveTurn(t) PROVE TokensTyped'
  BY <1>5 DEF ReserveTurn, NoTab
<1>6. ASSUME NEW s \in Subjects, TurnWindowEnds(s) PROVE TokensTyped'
  BY <1>6 DEF TurnWindowEnds
<1>7. CASE DayEnds
  BY <1>7 DEF DayEnds
<1>8. RunsNext => UNCHANGED <<ids, cookie, tab>>
  BY DEF RunsNext, AskRun, LockRun, CountRun, RunEnds, LockLapses, DayEnds
<1>. QED
  BY <1>1, <1>2, <1>3, <1>4, <1>5, <1>6, <1>7, <1>8 DEF PeopleStep, SessionsNext, demoVars

(* A step serves one address one turn below its cap, or starts an address  *)
(* again, or serves nobody.                                                *)
LEMMA TurnsStep ==
    TokensTyped /\ TurnsCounted /\ [Next]_vars => TurnsCounted' /\ [Granted!Next]_served
<1>. SUFFICES ASSUME TokensTyped, TurnsCounted, PeopleStep
              PROVE  TurnsCounted' /\ [Granted!Next]_served
  BY Parts
<1>. USE DemoBounds DEF TurnsCounted
<1>1. CASE KeepsTurns
  BY <1>1 DEF KeepsTurns
<1>2. ASSUME NEW t \in Tabs, ReserveTurn(t) PROVE TurnsCounted' /\ [Granted!Next]_served
  <2>. DEFINE token == tab[t].token
              s == QuotaSubject(token)
  <2>1. token \in Token
    BY <1>2 DEF ReserveTurn, TokensTyped
  <2>2. s \in Subjects /\ (token.tag \in People => s = token.tag)
    BY <2>1, WaitlistAssumption DEF QuotaSubject, Subjects, Token
  <2>3. CASE KeepsTurns
    BY <2>3 DEF KeepsTurns
  <2>4. CASE /\ Admits(turnsUsed, s, Turns)
             /\ turnsUsed' = IncrIfBelow(turnsUsed, s, Turns)
             /\ served' = [p \in People |-> IF p = token.tag THEN served[p] + 1 ELSE served[p]]
    <3>. HIDE DEF token, s
    <3>1. turnsUsed' = [turnsUsed EXCEPT ![s] = turnsUsed[s] + 1] /\ turnsUsed[s] < Turns
      <4>1. turnsUsed[s] \in Nat /\ turnsUsed[s] < Turns /\ turnsUsed[s] < Ceiling
        BY <2>2, <2>4 DEF Admits
      <4>2. turnsUsed' = IncrExpiring(turnsUsed, s)
        BY <2>4 DEF IncrIfBelow
      <4>. QED
        BY <4>1, <4>2 DEF IncrExpiring
    <3>2. TurnsCounted'
      BY <2>2, <2>4, <3>1 DEF Subjects
    <3>3. CASE token.tag \in People
      <4>1. served[token.tag] < Turns
        BY <2>2, <3>1, <3>3
      <4>2. served' = [served EXCEPT ![token.tag] = served[token.tag] + 1]
        BY <2>4, <3>3
      <4>. QED
        BY <3>2, <3>3, <4>1, <4>2 DEF Granted!Next, Granted!Take
    <3>4. CASE token.tag \notin People
      BY <2>4, <3>2, <3>4
    <3>. QED
      BY <3>3, <3>4
  <2>. QED
    BY <1>2, <2>3, <2>4 DEF ReserveTurn, KeepsTurns
<1>3. ASSUME NEW s \in Subjects, TurnWindowEnds(s) PROVE TurnsCounted' /\ [Granted!Next]_served
  <2>1. /\ turnsUsed' = [turnsUsed EXCEPT ![s] = 0]
        /\ served' = [p \in People |-> IF p = s THEN 0 ELSE served[p]]
    BY <1>3 DEF TurnWindowEnds, WindowOver
  <2>2. CASE s \in People
    <3>1. served' = [served EXCEPT ![s] = 0]
      BY <2>1, <2>2
    <3>. QED
      BY <2>1, <2>2, <3>1 DEF Granted!Next, Granted!Renew, Subjects
  <2>3. CASE s \notin People
    BY <2>1, <2>3 DEF Subjects
  <2>. QED
    BY <2>2, <2>3
<1>4. SessionsNext =>
         \/ KeepsTurns
         \/ \E t \in Tabs : ReserveTurn(t)
         \/ \E s \in Subjects : TurnWindowEnds(s)
  BY DEF SessionsNext, Mint, SessionEnds, AskTurn, DayEnds, KeepsTurns
<1>5. RunsNext => KeepsTurns
  BY DEF RunsNext, AskRun, LockRun, CountRun, RunEnds, LockLapses, DayEnds, KeepsTurns
<1>. QED
  BY <1>1, <1>2, <1>3, <1>4, <1>5 DEF PeopleStep, demoVars, KeepsTurns

(* The demo's turns implement an allowance of Turns for each address: no   *)
(* exit, re-entry, second browser or second tab gets one more.             *)
THEOREM TurnsImplementAllowance == Spec => TurnsAreAllowance
<1>1. Init => TokensTyped /\ TurnsCounted /\ Granted!Init
  BY DemoBounds DEF Init, DemoInit, TokensTyped, TurnsCounted, Granted!Init, Token, NoToken, NoTab,
        Subjects
<1>. QED
  BY <1>1, TokensStep, TurnsStep, PTL DEF Spec, TurnsAreAllowance, Granted!Spec

-----------------------------------------------------------------------------
(* An account's limits                                                     *)

LEMMA LimitsBounds ==
    /\ CallCap \in Nat /\ UsdCap \in Nat /\ SpikeFloor \in Nat /\ SpikeMultiple \in Nat
    /\ SpikeCeiling \in Nat /\ Retries \in Nat /\ MaxCalls \in Nat /\ MaxCommands \in Nat
    /\ MaxMisses \in Nat /\ Baselines \subseteq Nat /\ Model \in Providers
    /\ IsFiniteSet(Calls) /\ Calls # {} /\ SpikeFloor > 0
  BY LimitsAssumption

(* What a call is while it begins, is asked again or ends.                 *)
Begun(p) == [Quiet EXCEPT !.at = "state", !.of = p]

LEMMA CallOperators ==
    /\ Quiet \in Call /\ Quiet.at = "idle"
    /\ \A p \in Providers : Begun(p) \in Call /\ Begun(p).at = "state"
    /\ \A r \in Call : Asked(r) \in Call /\ Asked(r).at \in {"idle", "state"}
<1>1. Quiet \in Call /\ Quiet.at = "idle"
  BY LimitsBounds DEF Quiet, Call
<1>2. ASSUME NEW p \in Providers PROVE Begun(p) \in Call /\ Begun(p).at = "state"
  BY <1>1 DEF Begun, Call
<1>3. ASSUME NEW r \in Call PROVE Asked(r) \in Call /\ Asked(r).at \in {"idle", "state"}
  <2>1. r.of \in Providers /\ r.tries + 1 \in Nat
    BY DEF Call
  <2>2. [Quiet EXCEPT !.at = "state", !.of = r.of, !.tries = r.tries + 1] \in Call
    BY <1>1, <2>1 DEF Call
  <2>3. [Quiet EXCEPT !.at = "state", !.of = r.of, !.tries = r.tries + 1].at = "state"
    BY <1>1 DEF Call
  <2>. QED
    BY <1>1, <2>2, <2>3 DEF Asked
<1>. QED
  BY <1>1, <1>2, <1>3

(* A step of a call moves that call alone.                                 *)
CallMoved(c) == \E r \in Call : call' = [call EXCEPT ![c] = r]

LEMMA CallsStep ==
    LimitsTypeOK /\ LimitsNext =>
       \/ call' = call
       \/ \E c \in Calls : CallMoved(c)
<1>. SUFFICES ASSUME LimitsTypeOK, LimitsNext
              PROVE  call' = call \/ \E c \in Calls : CallMoved(c)
  OBVIOUS
<1>. USE CallOperators DEF CallMoved, LimitsTypeOK
<1>1. ASSUME NEW c \in Calls,
             NEW at \in {"idle", "state", "caps", "out", "meter", "flag", "insert"}, Goes(c, at)
      PROVE  CallMoved(c)
  <2>1. [call[c] EXCEPT !.at = at] \in Call /\ call' = [call EXCEPT ![c] = [call[c] EXCEPT !.at = at]]
    BY <1>1 DEF Goes, Call
  <2>. QED
    BY <2>1
<1>2. ASSUME NEW c \in Calls, Hangs(c) \/ Returns(c) PROVE CallMoved(c)
  <2>1. Asked(call[c]) \in Call
    BY CallOperators
  <2>. QED
    BY <1>2, <2>1 DEF Hangs, Returns
<1>3. ASSUME NEW c \in Calls, NEW p \in Providers, CallBegins(c, p) PROVE CallMoved(c)
  <2>1. call' = [call EXCEPT ![c] = Begun(p)]
    BY <1>3 DEF CallBegins, Begun
  <2>. QED
    BY <2>1
<1>4. ASSUME NEW c \in Calls, NEW empty \in BOOLEAN, Answered(c, empty) PROVE CallMoved(c)
  <2>1. call' = [call EXCEPT ![c] = [call[c] EXCEPT !.at = "meter", !.empty = empty]]
    BY <1>4 DEF Answered
  <2>2. [call[c] EXCEPT !.at = "meter", !.empty = empty] \in Call
    BY DEF Call
  <2>. QED
    BY <2>1, <2>2
<1>5. ASSUME NEW c \in Calls,
             \/ AsksState(c) \/ AsksCaps(c) \/ GaveUp(c) \/ Meters(c) \/ Flags(c) \/ PauseInserts(c)
      PROVE  CallMoved(c)
  <2>1. Hangs(c) \/ Returns(c) \/ Goes(c, "caps") \/ Goes(c, "out") \/ Goes(c, "flag")
           \/ Goes(c, "insert")
    BY <1>5 DEF AsksState, AsksCaps, GaveUp, Meters, Flags, PauseInserts
  <2>. QED
    BY <1>1, <1>2, <2>1
<1>. QED
  BY <1>3, <1>4, <1>5 DEF LimitsNext, Commands, CommandInserts, LeavesHour, LeavesDay

LEMMA LimitsTyped == Spec => []LimitsTypeOK
<1>. USE LimitsBounds, CallOperators
<1>1. Init => LimitsTypeOK
  <2>. SUFFICES ASSUME LimitsInit PROVE LimitsTypeOK
    BY DEF Init
  <2>1. command \in [Operators -> Command] /\ call \in [Calls -> Call]
    BY DEF LimitsInit, Account, Command
  <2>2. day \in [Providers -> Nat] /\ account \in Account
    BY DEF LimitsInit, Account
  <2>. QED
    BY <2>1, <2>2 DEF LimitsInit, LimitsTypeOK
<1>2. LimitsTypeOK /\ [Next]_vars => LimitsTypeOK'
  <2>. SUFFICES ASSUME LimitsTypeOK, [LimitsNext]_limitsVars PROVE LimitsTypeOK'
    BY Parts
  <2>1. CASE UNCHANGED limitsVars
    BY <2>1 DEF limitsVars, ledger, history, LimitsTypeOK
  <2>2. CASE LimitsNext
    <3>1. call' \in [Calls -> Call]
      BY <2>2, CallsStep DEF CallMoved, LimitsTypeOK
    <3>2. /\ day' \in [Providers -> Nat] /\ hour' \in Nat /\ spend' \in Nat
      <4>1. ASSUME NEW c \in Calls, Meters(c)
            PROVE  day' \in [Providers -> Nat] /\ hour' \in Nat /\ spend' \in Nat
        <5>1. call[c].of \in Providers
          BY DEF LimitsTypeOK, Call
        <5>. QED
          BY <4>1, <5>1 DEF Meters, ledger, LimitsTypeOK
      <4>2. ASSUME NEW p \in Providers, LeavesDay(p)
            PROVE  day' \in [Providers -> Nat] /\ hour' \in Nat /\ spend' \in Nat
        BY <4>2 DEF LeavesDay, LimitsTypeOK
      <4>3. CASE LeavesHour
        BY <4>3 DEF LeavesHour, LimitsTypeOK
      <4>. QED
        BY <2>2, <4>1, <4>2, <4>3 DEF LimitsNext, CallBegins, AsksState, AsksCaps, Answered, GaveUp,
              Flags, PauseInserts, Commands, CommandInserts, ledger, LimitsTypeOK
    <3>3. account' \in Account /\ command' \in [Operators -> Command]
      <4>1. ASSUME NEW o \in Operators, NEW to \in {"active", "paused"}, Commands(o, to)
            PROVE  account' \in Account /\ command' \in [Operators -> Command]
        <5>1. [at |-> "insert", to |-> to] \in Command
          BY DEF Command, Account
        <5>2. command' \in {command, [command EXCEPT ![o] = [at |-> "insert", to |-> to]]}
          BY <4>1 DEF Commands
        <5>3. command' \in [Operators -> Command]
          BY <5>1, <5>2 DEF LimitsTypeOK
        <5>. QED
          BY <4>1, <5>3 DEF Commands, LimitsTypeOK, Account
      <4>2. ASSUME NEW o \in Operators, CommandInserts(o)
            PROVE  account' \in Account /\ command' \in [Operators -> Command]
        BY <4>2 DEF CommandInserts, LimitsTypeOK, Account, Command
      <4>4. \/ command' = command /\ account' \in {account, "paused"}
            \/ \E o \in Operators :
                  CommandInserts(o) \/ \E to \in {"active", "paused"} : Commands(o, to)
        BY <2>2 DEF LimitsNext, CallBegins, AsksState, AsksCaps, Answered, GaveUp, Meters, Flags,
              PauseInserts, LeavesHour, LeavesDay
      <4>. QED
        BY <4>1, <4>2, <4>4 DEF LimitsTypeOK, Account
    <3>4. judged' \subseteq Nat /\ undone' \subseteq {"resumed", "refused"}
      <4>1. \A baseline \in Baselines : Threshold(baseline) \in Nat
        BY DEF Threshold
      <4>2. ASSUME NEW c \in Calls, Flags(c) PROVE judged' \subseteq Nat /\ UNCHANGED undone
        BY <4>1, <4>2 DEF Flags, LimitsTypeOK
      <4>3. \/ \E c \in Calls : Flags(c)
            \/ /\ judged' \in {judged, {}}
               /\ undone' \subseteq undone \cup {"resumed", "refused"}
        BY <2>2 DEF LimitsNext, CallBegins, AsksState, AsksCaps, Answered, GaveUp, Meters,
              PauseInserts, Commands, CommandInserts, LeavesHour, LeavesDay, history
      <4>. QED
        BY <4>2, <4>3 DEF LimitsTypeOK
    <3>5. called' \in Nat /\ commands' \in Nat /\ misses' \in Nat
      <4>1. called' \in {called, called + 1} /\ commands' \in {commands, commands + 1}
        BY <2>2 DEF LimitsNext, CallBegins, AsksState, AsksCaps, Answered, GaveUp, Meters, Flags,
              PauseInserts, Commands, CommandInserts, LeavesHour, LeavesDay
      <4>2. misses' \in {misses, misses + 1}
        BY <2>2 DEF LimitsNext, CallBegins, AsksState, AsksCaps, Answered, GaveUp, Meters, Flags,
              PauseInserts, Commands, CommandInserts, LeavesHour, LeavesDay, Miss, NoMiss
      <4>. QED
        BY <4>1, <4>2 DEF LimitsTypeOK
    <3>. QED
      BY <3>1, <3>2, <3>3, <3>4, <3>5 DEF LimitsTypeOK
  <2>. QED
    BY <2>1, <2>2
<1>. QED
  BY <1>1, <1>2, PTL DEF Spec

(* The calls that have their permission and no row yet, to some providers. *)
PastCaps(calls, P) == {c \in Calls : calls[c].at \in {"out", "meter"} /\ calls[c].of \in P}

(* Rows and calls past the caps together stay within the overshoot.        *)
Within(rows, calls, P, cap, failed) ==
    rows + Cardinality(PastCaps(calls, P)) <= cap + Cardinality(Calls) - 1 + failed
Overshoot ==
    /\ \A p \in Providers : Within(day[p], call, {p}, CallCap, misses)
    /\ Within(spend, call, Providers, UsdCap, misses)

LEMMA Counting ==
    ASSUME NEW A \in SUBSET Calls, NEW B \in SUBSET Calls, NEW c \in Calls
    PROVE  /\ Cardinality(A) \in Nat /\ Cardinality(B) \in Nat /\ Cardinality(Calls) \in Nat \ {0}
           /\ Cardinality(B) <= Cardinality(Calls)
           /\ B \subseteq A => Cardinality(B) <= Cardinality(A)
           /\ B \subseteq A \cup {c} => Cardinality(B) <= Cardinality(A) + 1
           /\ c \in A /\ B \subseteq A \ {c} => Cardinality(B) <= Cardinality(A) - 1
<1>1. IsFiniteSet(Calls) /\ IsFiniteSet(A) /\ IsFiniteSet(B)
  BY LimitsBounds, FS_Subset
<1>2. Cardinality(A) \in Nat /\ Cardinality(B) \in Nat /\ Cardinality(Calls) \in Nat
  BY <1>1, FS_CardinalityType
<1>3. Cardinality(Calls) # 0
  BY <1>1, FS_EmptySet, LimitsBounds
<1>4. Cardinality(B) <= Cardinality(Calls)
  BY <1>1, FS_Subset
<1>5. B \subseteq A => Cardinality(B) <= Cardinality(A)
  BY <1>1, FS_Subset
<1>6. ASSUME B \subseteq A \cup {c} PROVE Cardinality(B) <= Cardinality(A) + 1
  <2>1. IsFiniteSet(A \cup {c}) /\ Cardinality(A \cup {c}) \in {Cardinality(A), Cardinality(A) + 1}
    BY <1>1, FS_AddElement
  <2>2. Cardinality(B) <= Cardinality(A \cup {c})
    BY <1>6, <2>1, FS_Subset
  <2>. QED
    BY <1>2, <2>1, <2>2
<1>7. ASSUME c \in A, B \subseteq A \ {c} PROVE Cardinality(B) <= Cardinality(A) - 1
  <2>1. IsFiniteSet(A \ {c}) /\ Cardinality(A \ {c}) = Cardinality(A) - 1
    BY <1>1, <1>7, FS_RemoveElement
  <2>2. Cardinality(B) <= Cardinality(A \ {c})
    BY <1>7, <2>1, FS_Subset
  <2>. QED
    BY <1>2, <2>1, <2>2
<1>. QED
  BY <1>2, <1>3, <1>4, <1>5, <1>6, <1>7

(* A call takes its permission, a call is metered, or no row is added and  *)
(* no permission given.                                                    *)
Permitted(c) ==
    /\ call[c].at = "caps" /\ call' = [call EXCEPT ![c].at = "out"]
    /\ UNCHANGED ledger
    /\ \/ misses' = misses + 1
       \/ misses' = misses /\ ~OverCap(call[c].of)
Metering(c) ==
    /\ call[c].at = "meter" /\ call' = [call EXCEPT ![c].at = "flag"]
    /\ day' = [day EXCEPT ![call[c].of] = @ + 1] /\ spend' = spend + 1
    /\ misses' = misses
Receding ==
    /\ \A c \in Calls : call'[c].at \in {"out", "meter"} =>
          call[c].at \in {"out", "meter"} /\ call'[c].of = call[c].of
    /\ \A p \in Providers : day'[p] <= day[p]
    /\ spend' <= spend /\ misses' >= misses

LEMMA CapsStep ==
    LimitsTypeOK /\ [LimitsNext]_limitsVars =>
       Receding \/ \E c \in Calls : Permitted(c) \/ Metering(c)
<1>. SUFFICES ASSUME LimitsTypeOK, [LimitsNext]_limitsVars
              PROVE  Receding \/ \E c \in Calls : Permitted(c) \/ Metering(c)
  OBVIOUS
<1>. USE DEF LimitsTypeOK
<1>. DEFINE Quietly == (\A p \in Providers : day'[p] <= day[p]) /\ spend' <= spend /\ misses' >= misses
<1>1. ASSUME NEW c \in Calls, NEW r \in Call, call' = [call EXCEPT ![c] = r],
             r.at \notin {"out", "meter"}, Quietly
      PROVE  Receding
  BY <1>1 DEF Receding
<1>2. ASSUME call' = call, Quietly PROVE Receding
  BY <1>2 DEF Receding
<1>3. UNCHANGED ledger /\ misses' \in {misses, misses + 1} => Quietly
  BY DEF ledger
<1>4. ASSUME NEW c \in Calls, NEW p \in Providers, CallBegins(c, p) PROVE Receding
  <2>1. call' = [call EXCEPT ![c] = Begun(p)]
    BY <1>4 DEF CallBegins, Begun
  <2>. QED
    BY <1>1, <1>3, <1>4, <2>1, CallOperators DEF CallBegins
<1>5. ASSUME NEW c \in Calls, NEW at \in {"state", "caps", "flag", "insert"}, Goes(c, at), Quietly
      PROVE  Receding
  BY <1>5 DEF Goes, Receding, Call
<1>6. ASSUME NEW c \in Calls, Hangs(c) \/ Returns(c), Quietly PROVE Receding
  <2>1. Quiet \in Call /\ Quiet.at = "idle"
    BY CallOperators
  <2>2. Asked(call[c]) \in Call /\ Asked(call[c]).at \notin {"out", "meter"}
    BY CallOperators
  <2>. QED
    BY <1>1, <1>6, <2>1, <2>2 DEF Hangs, Returns
<1>7. ASSUME NEW c \in Calls, AsksState(c) \/ GaveUp(c) \/ Flags(c) \/ PauseInserts(c) PROVE Receding
  <2>1. UNCHANGED ledger /\ misses' \in {misses, misses + 1}
    BY <1>7 DEF AsksState, GaveUp, Flags, PauseInserts, Miss, NoMiss
  <2>2. Hangs(c) \/ Returns(c) \/ Goes(c, "caps") \/ Goes(c, "insert")
    BY <1>7 DEF AsksState, GaveUp, Flags, PauseInserts
  <2>. QED
    BY <1>3, <1>5, <1>6, <2>1, <2>2
<1>8. ASSUME NEW c \in Calls, AsksCaps(c) PROVE Receding \/ Permitted(c)
  <2>1. UNCHANGED ledger /\ misses' \in {misses, misses + 1}
    BY <1>8 DEF AsksCaps, Miss, NoMiss
  <2>2. Hangs(c) \/ Permitted(c)
    BY <1>8 DEF AsksCaps, Permitted, Goes, Miss, NoMiss
  <2>. QED
    BY <1>3, <1>6, <2>1, <2>2
<1>9. ASSUME NEW c \in Calls, NEW empty \in BOOLEAN, Answered(c, empty) PROVE Receding
  <2>1. call' = [call EXCEPT ![c].at = "meter", ![c].empty = empty] /\ call[c].at = "out" /\ Quietly
    BY <1>3, <1>9 DEF Answered
  <2>. QED
    BY <2>1 DEF Receding, Call
<1>10. ASSUME NEW c \in Calls, Meters(c) PROVE Receding \/ Metering(c)
  <2>1. CASE Miss /\ UNCHANGED <<ledger, history>>
    BY <1>3, <1>5, <1>10, <2>1 DEF Meters, Miss
  <2>2. CASE ~(Miss /\ UNCHANGED <<ledger, history>>)
    BY <1>10, <2>2 DEF Meters, Metering, Goes, NoMiss
  <2>. QED
    BY <2>1, <2>2
<1>11. ASSUME \/ \E o \in Operators : CommandInserts(o) \/ \E to \in {"active", "paused"} : Commands(o, to)
              \/ LeavesHour
       PROVE  Receding
  <2>1. call' = call /\ misses' = misses /\ spend' = spend /\ day' = day
    BY <1>11 DEF CommandInserts, Commands, LeavesHour, ledger
  <2>2. Quietly
    BY <2>1
  <2>. QED
    BY <1>2, <2>1, <2>2
<1>12. ASSUME NEW p \in Providers, LeavesDay(p) PROVE Receding
  <2>1. call' = call /\ misses' = misses /\ spend' = spend - 1 /\ day' = [day EXCEPT ![p] = day[p] - 1]
    BY <1>12 DEF LeavesDay
  <2>2. Quietly
    BY <2>1
  <2>. QED
    BY <1>2, <2>1, <2>2
<1>13. CASE UNCHANGED limitsVars
  BY <1>2, <1>3, <1>13 DEF limitsVars
<1>. QED
  BY <1>4, <1>7, <1>8, <1>9, <1>10, <1>11, <1>12, <1>13 DEF LimitsNext

LEMMA WithinStep ==
    ASSUME LimitsTypeOK, misses' \in Nat, NEW P, NEW rows \in Nat, NEW rowsNext \in Nat, NEW cap \in Nat,
           Within(rows, call, P, cap, misses),
           \/ Receding /\ rowsNext <= rows
           \/ \E c \in Calls : /\ Permitted(c) /\ rowsNext = rows
                               /\ misses' = misses /\ call[c].of \in P => rows < cap
           \/ \E c \in Calls : /\ Metering(c)
                               /\ rowsNext = IF call[c].of \in P THEN rows + 1 ELSE rows
    PROVE  Within(rowsNext, call', P, cap, misses')
<1>. DEFINE N == Cardinality(Calls)
            A == PastCaps(call, P)
            B == PastCaps(call', P)
<1>1. A \in SUBSET Calls /\ B \in SUBSET Calls
  BY DEF PastCaps
<1>2. misses \in Nat /\ rows + Cardinality(A) <= cap + N - 1 + misses
  BY DEF LimitsTypeOK, Within
<1>3. SUFFICES rowsNext + Cardinality(B) <= cap + N - 1 + misses'
  BY DEF Within
<1>4. CASE Receding /\ rowsNext <= rows
  <2>1. PICK c : c \in Calls
    BY LimitsBounds
  <2>2. B \subseteq A
    BY <1>4 DEF Receding, PastCaps
  <2>. HIDE DEF A, B
  <2>3. Cardinality(B) <= Cardinality(A) /\ Cardinality(A) \in Nat /\ Cardinality(B) \in Nat /\ N \in Nat
    BY <1>1, <2>1, <2>2, Counting
  <2>. QED
    BY <1>2, <1>4, <2>3 DEF Receding
<1>5. ASSUME NEW c \in Calls, Permitted(c), rowsNext = rows,
             misses' = misses /\ call[c].of \in P => rows < cap
      PROVE  rowsNext + Cardinality(B) <= cap + N - 1 + misses'
  <2>1. B \subseteq A \cup {c} /\ (call[c].of \notin P => B \subseteq A)
    BY <1>5 DEF Permitted, PastCaps, LimitsTypeOK, Call
  <2>2. misses' = misses + 1 \/ misses' = misses
    BY <1>5 DEF Permitted
  <2>. HIDE DEF A, B
  <2>3. /\ Cardinality(B) <= Cardinality(A) + 1 /\ Cardinality(B) <= N
        /\ call[c].of \notin P => Cardinality(B) <= Cardinality(A)
        /\ Cardinality(A) \in Nat /\ Cardinality(B) \in Nat /\ N \in Nat
    BY <1>1, <2>1, Counting
  <2>. HIDE DEF N
  <2>. QED
    BY <1>2, <1>5, <2>2, <2>3
<1>6. ASSUME NEW c \in Calls, Metering(c), rowsNext = IF call[c].of \in P THEN rows + 1 ELSE rows
      PROVE  rowsNext + Cardinality(B) <= cap + N - 1 + misses'
  <2>1. B \subseteq A \ {c} /\ (call[c].of \in P => c \in A)
    BY <1>6 DEF Metering, PastCaps, LimitsTypeOK, Call
  <2>2. misses' = misses
    BY <1>6 DEF Metering
  <2>. HIDE DEF A, B
  <2>3. /\ Cardinality(B) <= Cardinality(A)
        /\ call[c].of \in P => Cardinality(B) <= Cardinality(A) - 1
        /\ Cardinality(A) \in Nat /\ Cardinality(B) \in Nat /\ N \in Nat
    BY <1>1, <2>1, Counting
  <2>. HIDE DEF N
  <2>. QED
    BY <1>2, <1>6, <2>2, <2>3
<1>. QED
  BY <1>4, <1>5, <1>6

LEMMA OvershootStep ==
    LimitsTypeOK /\ LimitsTypeOK' /\ Overshoot /\ [Next]_vars => Overshoot'
<1>. SUFFICES ASSUME LimitsTypeOK, LimitsTypeOK', Overshoot, [LimitsNext]_limitsVars PROVE Overshoot'
  BY Parts
<1>1. misses' \in Nat /\ spend \in Nat /\ spend' \in Nat /\ CallCap \in Nat /\ UsdCap \in Nat
  BY LimitsBounds DEF LimitsTypeOK
<1>2. \A c \in Calls : call[c].of \in Providers
  BY DEF LimitsTypeOK, Call
<1>3. ASSUME NEW p \in Providers PROVE Within(day'[p], call', {p}, CallCap, misses')
  <2>1. day[p] \in Nat /\ day'[p] \in Nat /\ Within(day[p], call, {p}, CallCap, misses)
    BY DEF LimitsTypeOK, Overshoot
  <2>2. CASE Receding
    <3>1. day'[p] <= day[p]
      BY <2>2 DEF Receding
    <3>. QED
      BY <1>1, <2>1, <2>2, <3>1, WithinStep
  <2>3. ASSUME NEW c \in Calls, Permitted(c) PROVE Within(day'[p], call', {p}, CallCap, misses')
    <3>1. day'[p] = day[p] /\ (misses' = misses /\ call[c].of \in {p} => day[p] < CallCap)
      BY <1>1, <2>1, <2>3 DEF Permitted, ledger, OverCap, LimitsTypeOK
    <3>. QED
      BY <1>1, <2>1, <2>3, <3>1, WithinStep
  <2>4. ASSUME NEW c \in Calls, Metering(c) PROVE Within(day'[p], call', {p}, CallCap, misses')
    <3>1. day'[p] = IF call[c].of \in {p} THEN day[p] + 1 ELSE day[p]
      BY <1>2, <2>4 DEF Metering, LimitsTypeOK
    <3>. QED
      BY <1>1, <2>1, <2>4, <3>1, WithinStep
  <2>. QED
    BY <2>2, <2>3, <2>4, CapsStep
<1>4. Within(spend', call', Providers, UsdCap, misses')
  <2>1. Within(spend, call, Providers, UsdCap, misses)
    BY DEF Overshoot
  <2>2. CASE Receding
    <3>1. spend' <= spend
      BY <2>2 DEF Receding
    <3>. QED
      BY <1>1, <2>1, <2>2, <3>1, WithinStep
  <2>3. ASSUME NEW c \in Calls, Permitted(c) PROVE Within(spend', call', Providers, UsdCap, misses')
    <3>1. spend' = spend /\ (misses' = misses /\ call[c].of \in Providers => spend < UsdCap)
      BY <1>1, <2>1, <2>3 DEF Permitted, ledger, OverCap, LimitsTypeOK
    <3>. QED
      BY <1>1, <2>1, <2>3, <3>1, WithinStep
  <2>4. ASSUME NEW c \in Calls, Metering(c) PROVE Within(spend', call', Providers, UsdCap, misses')
    <3>1. spend' = IF call[c].of \in Providers THEN spend + 1 ELSE spend
      BY <1>2, <2>4 DEF Metering
    <3>. QED
      BY <1>1, <2>1, <2>4, <3>1, WithinStep
  <2>. QED
    BY <2>2, <2>3, <2>4, CapsStep
<1>. QED
  BY <1>3, <1>4 DEF Overshoot

(* The caps are passed by the calls in progress and the failed reads only. *)
THEOREM OvershootIsBounded == Spec => []OvershootBounded
<1>1. Init => Overshoot
  <2>. SUFFICES ASSUME LimitsInit PROVE Overshoot
    BY DEF Init
  <2>1. ASSUME NEW P PROVE PastCaps(call, P) = {}
    BY DEF PastCaps, LimitsInit, Quiet
  <2>2. Cardinality({}) = 0 /\ Cardinality(Calls) \in Nat \ {0}
    BY Counting, LimitsBounds, FS_EmptySet
  <2>. QED
    <3>1. ASSUME NEW P, NEW cap \in Nat PROVE Within(0, call, P, cap, 0)
      <4>1. Cardinality(PastCaps(call, P)) = 0
        BY <2>1, <2>2
      <4>2. Cardinality(Calls) >= 1 /\ Cardinality(Calls) \in Nat
        BY <2>2
      <4>. QED
        BY <4>1, <4>2 DEF Within
    <3>. QED
      BY <3>1, LimitsBounds DEF Overshoot, LimitsInit
<1>2. LimitsTypeOK /\ Overshoot => OvershootBounded
  <2>. SUFFICES ASSUME LimitsTypeOK, Overshoot PROVE OvershootBounded
    OBVIOUS
  <2>1. ASSUME NEW P PROVE Cardinality(PastCaps(call, P)) \in Nat /\ Cardinality(Calls) \in Nat
    <3>1. PastCaps(call, P) \in SUBSET Calls
      BY DEF PastCaps
    <3>. QED
      BY <3>1, Counting, LimitsBounds
  <2>. QED
    <3>1. ASSUME NEW rows \in Nat, NEW P, NEW cap \in Nat, Within(rows, call, P, cap, misses)
          PROVE  rows <= cap + (Cardinality(Calls) - 1 + misses)
      BY <2>1, <3>1 DEF Within, LimitsTypeOK
    <3>. QED
      BY <3>1, LimitsBounds DEF Overshoot, OvershootBounded, LimitsTypeOK
<1>. QED
  BY <1>1, <1>2, OvershootStep, LimitsTyped, PTL DEF Spec

(* A pause that was decided is there, or on its way, until it is undone; a *)
(* row without a verdict has a call that will judge it.                    *)
Flagging == \E c \in Calls : call[c].at = "flag"
Pausing == Paused \/ \E c \in Calls : call[c].at = "insert"
Excused == undone # {} \/ misses # 0
SpikePending ==
    hour >= SpikeFloor /\ ~Excused =>
       /\ Pausing \/ Flagging \/ judged # {}
       /\ (\E bar \in judged : hour >= bar) => Pausing

LEMMA PausingStands ==
    ASSUME LimitsTypeOK, LimitsNext \/ UNCHANGED limitsVars, Pausing, ~Excused',
           ~ \E c \in Calls : Meters(c)
    PROVE  Pausing'
<1>1. undone' = {} /\ misses' = 0
  BY DEF Excused
<1>2. ASSUME account' = account,
             \A c \in Calls : call[c].at = "insert" => call'[c].at = "insert"
      PROVE  Pausing'
  BY <1>2 DEF Pausing, Paused
<1>3. ASSUME NEW c \in Calls, Flags(c) PROVE Pausing'
  <2>1. CASE account' = "paused"
    BY <2>1 DEF Pausing, Paused
  <2>2. CASE account' # "paused"
    <3>1. account' = account
      BY <1>3, <2>2 DEF Flags
    <3>2. PICK d \in Calls : call[d].at = "insert"
      BY <2>2, <3>1 DEF Pausing, Paused
    <3>3. d # c /\ call'[d] = call[d]
      BY <1>3, <3>2 DEF Flags, Goes, Returns, LimitsTypeOK
    <3>. QED
      BY <3>2, <3>3 DEF Pausing
  <2>. QED
    BY <2>1, <2>2
<1>4. ASSUME NEW c \in Calls, PauseInserts(c) PROVE Pausing'
  <2>1. ~Miss
    BY <1>1 DEF Miss, LimitsTypeOK
  <2>2. account # "active"
    BY <1>1, <1>4, <2>1 DEF PauseInserts
  <2>3. account' = "paused"
    BY <1>4, <2>1, <2>2 DEF PauseInserts, LimitsTypeOK, Account
  <2>. QED
    BY <2>3 DEF Pausing, Paused
<1>5. ASSUME NEW o \in Operators, NEW to \in {"active", "paused"}, Commands(o, to) PROVE Pausing'
  <2>1. call' = call /\ (Paused => account' = "paused")
    BY <1>1, <1>5 DEF Commands, Paused
  <2>. QED
    BY <2>1 DEF Pausing, Paused
<1>6. ASSUME NEW o \in Operators, CommandInserts(o) PROVE Pausing'
  <2>1. call' = call /\ (Paused => account' = "paused")
    BY <1>6 DEF CommandInserts, Paused
  <2>. QED
    BY <2>1 DEF Pausing, Paused
<1>7. ASSUME NEW c \in Calls, NEW p \in Providers, CallBegins(c, p) PROVE Pausing'
  BY <1>2, <1>7 DEF CallBegins, LimitsTypeOK
<1>8. ASSUME NEW c \in Calls, NEW empty \in BOOLEAN, Answered(c, empty) PROVE Pausing'
  BY <1>2, <1>8 DEF Answered, LimitsTypeOK
<1>9. ASSUME NEW c \in Calls, AsksState(c) \/ AsksCaps(c) \/ GaveUp(c) PROVE Pausing'
  BY <1>2, <1>9 DEF AsksState, AsksCaps, GaveUp, Goes, Hangs, LimitsTypeOK
<1>10. ASSUME LeavesHour \/ (\E p \in Providers : LeavesDay(p)) \/ UNCHANGED limitsVars PROVE Pausing'
  BY <1>2, <1>10 DEF LeavesHour, LeavesDay, limitsVars
<1>. QED
  BY <1>3, <1>4, <1>5, <1>6, <1>7, <1>8, <1>9, <1>10 DEF LimitsNext

(* A verdict: a pause, or a threshold that the hour stays below.           *)
LEMMA VerdictStep ==
    ASSUME LimitsTypeOK, SpikePending, hour >= SpikeFloor, ~Excused, ~Excused',
           NEW c \in Calls, Flags(c)
    PROVE  /\ Pausing' \/ judged' # {}
           /\ (\E bar \in judged' : hour >= bar) => Pausing'
<1>1. PICK baseline \in Baselines :
          /\ \/ /\ Spikes(baseline) /\ ~Paused /\ NoMiss
                /\ \/ account = "no row" /\ Goes(c, "insert") /\ account' = account
                   \/ account # "no row" /\ Returns(c) /\ account' = "paused"
             \/ /\ IF Spikes(baseline) /\ ~Paused THEN Miss ELSE NoMiss
                /\ Returns(c) /\ account' = account
          /\ judged' = judged \cup IF hour < SpikeFloor \/ Paused THEN {} ELSE {Threshold(baseline)}
  BY DEF Flags
<1>2. CASE Paused
  BY <1>1, <1>2 DEF Pausing, Paused
<1>3. CASE ~Paused /\ Spikes(baseline)
  <2>1. ~Miss
    BY DEF Miss, Excused, LimitsTypeOK
  <2>2. Goes(c, "insert") \/ account' = "paused"
    BY <1>1, <1>3, <2>1
  <2>3. Goes(c, "insert") => call'[c].at = "insert"
    BY DEF Goes, LimitsTypeOK, Call
  <2>. QED
    BY <2>2, <2>3 DEF Pausing, Paused
<1>4. CASE ~Paused /\ ~Spikes(baseline)
  <2>1. Threshold(baseline) \in Nat /\ hour \in Nat /\ SpikeFloor \in Nat
    BY LimitsBounds DEF Threshold, LimitsTypeOK
  <2>2. judged' = judged \cup {Threshold(baseline)} /\ ~(hour >= Threshold(baseline))
    <3>1. ~(hour < SpikeFloor \/ Paused)
      BY <1>4, <2>1
    <3>2. judged' = judged \cup IF hour < SpikeFloor \/ Paused THEN {} ELSE {Threshold(baseline)}
      BY <1>1
    <3>3. ~(hour >= Threshold(baseline))
      BY <1>4 DEF Spikes
    <3>. QED
      BY <3>1, <3>2, <3>3
  <2>3. ASSUME NEW bar \in judged', hour >= bar PROVE Pausing'
    <3>1. bar \in judged
      BY <2>2, <2>3
    <3>2. Pausing
      BY <2>3, <3>1 DEF SpikePending
    <3>3. ~ \E d \in Calls : Meters(d)
      <4>1. hour' = hour /\ hour \in Nat /\ misses \in Nat /\ misses' = 0
        BY DEF Flags, ledger, LimitsTypeOK, Excused
      <4>. QED
        BY <4>1 DEF Meters, Miss
    <3>. QED
      BY <3>2, <3>3, PausingStands DEF LimitsNext, Excused
  <2>. QED
    BY <2>2, <2>3
<1>. QED
  BY <1>2, <1>3, <1>4

LEMMA SpikeStep == LimitsTypeOK /\ LimitsTypeOK' /\ SpikePending /\ [Next]_vars => SpikePending'
<1>. SUFFICES ASSUME LimitsTypeOK, LimitsTypeOK', SpikePending, LimitsNext \/ UNCHANGED limitsVars,
                     hour' >= SpikeFloor, ~Excused'
              PROVE  /\ Pausing' \/ Flagging' \/ judged' # {}
                     /\ (\E bar \in judged' : hour' >= bar) => Pausing'
  BY Parts DEF SpikePending
<1>1. misses = 0
  <2>1. misses' \in {misses, misses + 1} /\ misses \in Nat /\ misses' = 0
    BY DEF LimitsTypeOK, LimitsNext, CallBegins, AsksState, AsksCaps, Answered, GaveUp, Meters,
          Flags, PauseInserts, Commands, CommandInserts, LeavesHour, LeavesDay, Miss, NoMiss,
          limitsVars, Excused
  <2>. QED
    BY <2>1
<1>2. ASSUME NEW c \in Calls, Meters(c)
      PROVE  Flagging' /\ judged' = {}
  <2>1. ~Miss
    BY <1>1 DEF Excused, Miss, LimitsTypeOK
  <2>2. call'[c].at = "flag" /\ judged' = {}
    BY <1>2, <2>1 DEF Meters, Goes, LimitsTypeOK, Call
  <2>. QED
    BY <2>2 DEF Flagging
<1>. SUFFICES ASSUME ~(\E c \in Calls : Meters(c))
              PROVE  /\ Pausing' \/ Flagging' \/ judged' # {}
                     /\ (\E bar \in judged' : hour' >= bar) => Pausing'
  BY <1>2
<1>3. hour' \in {hour, hour - 1} /\ undone \subseteq undone'
  BY DEF LimitsNext, CallBegins, AsksState, AsksCaps, Answered, GaveUp, Flags, PauseInserts,
        Commands, CommandInserts, LeavesHour, LeavesDay, limitsVars, ledger, history
<1>4. hour' <= hour /\ hour >= SpikeFloor /\ ~Excused /\ undone' = {}
  <2>1. hour \in Nat /\ SpikeFloor \in Nat /\ hour' \in Nat
    BY LimitsBounds DEF LimitsTypeOK
  <2>2. hour' <= hour /\ hour >= SpikeFloor
    BY <1>3, <2>1
  <2>3. undone' = {}
    BY DEF Excused
  <2>. QED
    BY <1>1, <1>3, <2>2, <2>3 DEF Excused
<1>5. ASSUME NEW c \in Calls, Flags(c)
      PROVE  /\ Pausing' \/ judged' # {}
             /\ (\E bar \in judged' : hour' >= bar) => Pausing'
  <2>1. hour' = hour
    BY <1>5 DEF Flags, ledger
  <2>. QED
    BY <1>4, <1>5, <2>1, VerdictStep
<1>6. CASE ~ \E c \in Calls : Flags(c)
  <2>1. judged' = judged
    BY <1>6 DEF LimitsNext, CallBegins, AsksState, AsksCaps, Answered, GaveUp, PauseInserts,
          Commands, CommandInserts, LeavesHour, LeavesDay, limitsVars, history
  <2>2. Pausing => Pausing'
    BY <1>4, PausingStands
  <2>3. ASSUME NEW c \in Calls, call[c].at = "flag" PROVE call'[c].at = "flag"
    BY <1>6, <2>3 DEF LimitsNext, CallBegins, AsksState, AsksCaps, Answered, GaveUp, PauseInserts,
          Commands, CommandInserts, LeavesHour, LeavesDay, limitsVars, Goes, Hangs, Returns, LimitsTypeOK
  <2>4. ASSUME NEW bar \in judged', hour' >= bar PROVE Pausing'
    <3>1. bar \in judged /\ hour >= bar
      BY <1>4, <2>1, <2>4 DEF LimitsTypeOK
    <3>. QED
      BY <1>4, <2>2, <3>1 DEF SpikePending
  <2>5. Pausing \/ Flagging \/ judged # {}
    BY <1>4 DEF SpikePending
  <2>6. Flagging => Flagging'
    BY <2>3 DEF Flagging
  <2>. QED
    BY <2>1, <2>2, <2>4, <2>5, <2>6
<1>. QED
  BY <1>5, <1>6

(* An account past the floor is paused as soon as no call is between its   *)
(* row and its verdict, or was below each threshold it was held to since   *)
(* its last call, whatever the other users' median does meanwhile.         *)
THEOREM SpikesAreCaught == Spec => []SpikeCaught
<1>1. Init => SpikePending
  <2>. SUFFICES ASSUME LimitsInit, hour >= SpikeFloor PROVE FALSE
    BY DEF Init, SpikePending
  <2>1. hour = 0
    BY DEF LimitsInit
  <2>. QED
    BY <2>1, LimitsBounds
<1>2. LimitsTypeOK /\ SpikePending => SpikeCaught
  <2>. SUFFICES ASSUME LimitsTypeOK, SpikePending, Judged, hour >= SpikeFloor, ~Excused, ~Paused
                PROVE  judged # {} /\ \A bar \in judged : hour < bar
    BY DEF SpikeCaught, Excused
  <2>1. ~Pausing /\ ~Flagging
    BY DEF Judged, Pausing, Flagging
  <2>. QED
    BY <2>1 DEF SpikePending, LimitsTypeOK
<1>. QED
  BY <1>1, <1>2, SpikeStep, LimitsTyped, PTL DEF Spec

-----------------------------------------------------------------------------
(* The guard before a send                                                 *)

Letter == [to: Addresses, body: Templates, state: MailStates, sent: Nat, bounced: BOOLEAN]

(* The user's workflows, and what is known of who replied: a reply that    *)
(* was recorded left a stopped workflow, which nothing changes any more.   *)
MailsTyped ==
    /\ mails \in Seq(Letter)
    /\ desk.at = "cleared" => desk.to \in Addresses /\ desk.body \in Templates
    /\ answered \in [Prospective -> {"none", "recorded", "unrecorded"}]
Stopping(m, r) == m.state = "stopped" /\ Owner[m.to] = r
RecordedStopped ==
    \A r \in Prospective : answered[r] = "recorded" =>
        \E i \in DOMAIN mails : Stopping(mails[i], r)

LEMMA UpdatedMails ==
    ASSUME mails \in Seq(Letter), NEW i \in DOMAIN mails, NEW m \in Letter
    PROVE  /\ Updated(i, m) \in Seq(Letter)
           /\ \E k \in DOMAIN Updated(i, m) : Updated(i, m)[k] = m
           /\ \A j \in DOMAIN mails \ {i} : \E k \in DOMAIN Updated(i, m) : Updated(i, m)[k] = mails[j]
<1>. DEFINE n == Len(mails)
            A == SubSeq(mails, 1, i - 1)
            B == SubSeq(mails, i + 1, n)
<1>1. n \in Nat /\ i \in 1..n /\ DOMAIN mails = 1..n
  OBVIOUS
<1>2. A \in Seq(Letter) /\ Len(A) = i - 1 /\ \A j \in 1..(i - 1) : A[j] = mails[j]
  BY <1>1
<1>3. B \in Seq(Letter) /\ Len(B) = n - i /\ \A j \in 1..(n - i) : B[j] = mails[i + j]
  BY <1>1
<1>4. Updated(i, m) = A \o B \o <<m>>
  BY DEF Updated
<1>. HIDE DEF A, B, n
<1>5. A \o B \in Seq(Letter) /\ Len(A \o B) = n - 1
  <2>1. A \o B \in Seq(Letter) /\ Len(A \o B) = Len(A) + Len(B)
    BY <1>2, <1>3, ConcatProperties
  <2>. QED
    BY <1>1, <1>2, <1>3, <2>1
<1>6. /\ Updated(i, m) \in Seq(Letter) /\ Len(Updated(i, m)) = n
      /\ Updated(i, m)[n] = m /\ \A k \in 1..(n - 1) : Updated(i, m)[k] = (A \o B)[k]
  BY <1>1, <1>4, <1>5
<1>7. ASSUME NEW j \in 1..n, j # i PROVE \E k \in 1..n : Updated(i, m)[k] = mails[j]
  <2>1. CASE j < i
    <3>1. (A \o B)[j] = mails[j] /\ j \in 1..(n - 1)
      BY <1>1, <1>2, <1>3, <2>1
    <3>. QED
      BY <1>1, <1>6, <3>1
  <2>2. CASE j > i
    <3>1. j - 1 \in 1..(n - 1) /\ j - 1 \in 1..n /\ j - i \in 1..(n - i) /\ i + (j - i) = j
      BY <1>1, <2>2
    <3>2. (A \o B)[j - 1] = B[j - i]
      BY <1>1, <1>2, <1>3, <2>2, <3>1
    <3>3. B[j - i] = mails[j]
      BY <1>3, <3>1
    <3>. QED
      BY <1>6, <3>1, <3>2, <3>3
  <2>. QED
    BY <1>1, <1>7, <2>1, <2>2
<1>8. DOMAIN Updated(i, m) = 1..n
  BY <1>1, <1>6
<1>. QED
  BY <1>1, <1>6, <1>7, <1>8

(* A guard that knows of a reply lets nothing pass.                        *)
LEMMA RepliedBlocks ==
    ASSUME NEW w, NEW h, NEW used, NEW busy, h.replied = TRUE
    PROVE  Assess(w, h, used, busy) = "BLOCK"
  BY DEF Assess, DeliverabilityBlocks, SendState

LEMMA KnownReplyBlocks ==
    ASSUME MailsTyped, NEW about \in Recipients, NEW body \in Templates, NEW to \in Addresses,
           Norm(about) = Norm(to), NEW i \in DOMAIN mails, Stopping(mails[i], Owner[to])
    PROVE  ~MayPass(about, body, TRUE)
<1>1. about # Unaddressed
  BY SendGuardAssumption DEF Norm
<1>2. mails[i].to \in Addresses /\ mails[i].to # Unaddressed
  <2>1. mails[i] \in Letter
    BY DEF MailsTyped
  <2>. QED
    BY <2>1, SendGuardAssumption DEF Letter
<1>3. Norm(mails[i].to) = Norm(about)
  BY <1>2, SendGuardAssumption DEF Norm, Stopping
<1>4. History(about).replied = TRUE
  BY <1>1, <1>3 DEF History, Stopping
<1>5. ASSUME NEW w \in Workspaces(about, body) PROVE Informed(w) = {"BLOCK"}
  <2>1. w.to = about
    BY DEF Workspaces
  <2>2. \A d \in Informed(w) : d = "BLOCK"
    <3>1. \A used, busy : Assess(WithLive(w), History(w.to), used, busy) = "BLOCK"
      BY <1>4, <2>1, RepliedBlocks
    <3>. QED
      BY <3>1 DEF Informed
  <2>3. Informed(w) # {}
    <3>1. PICK s : s \in Shares
      BY SendGuardAssumption
    <3>2. [day |-> s, month |-> s] \in Spending
      BY <3>1 DEF Spending
    <3>3. Assess(WithLive(w), History(w.to), [day |-> s, month |-> s], TRUE) = "BLOCK"
      BY <1>4, <2>1, RepliedBlocks
    <3>4. "BLOCK" \in Informed(w)
      BY <3>2, <3>3 DEF Informed
    <3>. QED
      BY <3>4
  <2>. QED
    BY <2>2, <2>3
<1>. QED
  BY <1>5 DEF MayPass

(* What the history adds never takes a point away.                         *)
LEMMA CompoundOfOne == ASSUME NEW b \in 0..100 PROVE Compound(0, b) = b
<1>1. ~(0 > b) /\ 4 * b + 0 = 4 * b /\ 4 * b \in Nat
  OBVIOUS
<1>2. (4 * b) % 4 = 0 /\ (4 * b) \div 4 = b
  OBVIOUS
<1>3. Round(4 * b) = b
  BY <1>2 DEF Round
<1>. QED
  BY <1>1, <1>3 DEF Compound, Clamp

LEMMA HistoryAdds ==
    ASSUME NEW to \in Recipients, NEW body \in Templates, NEW w \in Workspaces(to, body),
           NEW h, NEW used, NEW busy, Alone(w) = "WARN"
    PROVE  Assess(WithLive(w), h, used, busy) # "ALLOW"
<1>. DEFINE live == WithLive(w)
            alone == DeliverabilityPoints(w, Unread, FALSE)
            informed == DeliverabilityPoints(live, h, busy)
<1>1. w.points \in 0..100
  BY SendGuardAssumption DEF Workspaces
<1>2. Repetition(w) \in {0, 20} /\ TightSpacing(w) \in {0, 8} /\ Reputation(Unread, FALSE) = 0
  BY DEF Repetition, TightSpacing, Reputation, Unread
<1>3. alone = w.points + Repetition(w) + TightSpacing(w) + 0
  BY <1>2 DEF DeliverabilityPoints
<1>4. live.points = w.points /\ TightSpacing(live) = TightSpacing(w)
  BY DEF WithLive, TightSpacing, Workspaces
<1>5. Repetition(live) \in {0, 20} /\ (Repetition(w) = 20 => Repetition(live) = 20)
  BY DEF Repetition, WithLive, Workspaces
<1>6. Reputation(h, busy) \in {0, 10, 16, 26}
  BY DEF Reputation
<1>7. informed = live.points + Repetition(live) + TightSpacing(live) + Reputation(h, busy)
  BY DEF DeliverabilityPoints
<1>. HIDE DEF live, alone, informed
<1>8. alone \in Nat /\ informed \in Nat /\ informed >= alone
  BY <1>1, <1>2, <1>3, <1>4, <1>5, <1>6, <1>7
<1>9. Clamp(alone) \in 0..100
  BY <1>8 DEF Clamp
<1>10. Clamp(alone) >= 25
  <2>1. CostPoints(Unmetered) = 0 /\ ~CostWarns(Unmetered) /\ Clamp(0) = 0
    BY DEF CostPoints, CostWarns, Ladder, Unmetered, Clamp
  <2>2. Compound(Clamp(CostPoints(Unmetered)), Clamp(alone)) = Clamp(alone)
    BY <1>9, <2>1, CompoundOfOne
  <2>3. Clamp(alone) >= 40 \/ 0 >= 25 \/ Clamp(alone) >= 25
    BY <2>1, <2>2 DEF Alone, Assess, alone
  <2>. QED
    BY <1>9, <2>3
<1>11. Clamp(informed) >= 25
  BY <1>8, <1>10 DEF Clamp
<1>. QED
  BY <1>11 DEF Assess, live, informed

LEMMA HistoryOnlyAddsAlways == HistoryOnlyAdds
<1>. SUFFICES ASSUME NEW to \in Recipients, NEW body \in Templates, NEW w \in Workspaces(to, body),
                     Alone(w) # "BLOCK", NEW decision \in Informed(w)
              PROVE  Severity(decision) >= Severity(Alone(w))
  BY DEF HistoryOnlyAdds
<1>1. PICK used, busy : decision = Assess(WithLive(w), History(w.to), used, busy)
  BY DEF Informed
<1>2. Severity(decision) \in 0..2 /\ (decision # "ALLOW" => Severity(decision) >= 1)
  BY DEF Severity
<1>3. Alone(w) \in {"ALLOW", "WARN"}
  BY DEF Alone, Assess
<1>4. CASE Alone(w) = "ALLOW"
  BY <1>2, <1>4 DEF Severity
<1>5. CASE Alone(w) = "WARN"
  BY <1>1, <1>2, <1>5, HistoryAdds DEF Severity
<1>. QED
  BY <1>3, <1>4, <1>5

LEMMA NewTyped ==
    ASSUME NEW to \in Addresses, NEW body \in Templates, NEW state \in MailStates,
           NEW sent \in {0, 1}, NEW bounced \in BOOLEAN
    PROVE  New(to, body, state, sent, bounced) \in Letter
  BY DEF New, Letter

(* A step appends one mail, or writes one that is not stopped again, and   *)
(* records at most its reply.                                              *)
MailWritten ==
    \/ mails' = mails /\ \A r \in Prospective : answered'[r] = "recorded" => answered[r] = "recorded"
    \/ \E m \in Letter : mails' = Append(mails, m) /\ answered' = answered
    \/ \E i \in DOMAIN mails, m \in Letter :
          /\ mails[i].state # "stopped" /\ mails' = Updated(i, m)
          /\ \A r \in Prospective : answered'[r] = "recorded" => answered[r] = "recorded" \/ Stopping(m, r)

LEMMA MailsStep == MailsTyped /\ [GuardNext]_guardVars => MailsTyped' /\ MailWritten
<1>. SUFFICES ASSUME MailsTyped, [GuardNext]_guardVars PROVE MailsTyped' /\ MailWritten
  OBVIOUS
<1>. DEFINE Deliver == /\ mails' \in Seq(Letter)
                       /\ answered' \in [Prospective -> {"none", "recorded", "unrecorded"}]
                       /\ MailWritten
<1>1. ASSUME NEW m \in Letter, mails' \in {mails, Append(mails, m)}, answered' = answered PROVE Deliver
  BY <1>1 DEF MailsTyped, MailWritten
<1>2. CASE Dispatch
  <2>1. desk.to \in Addresses /\ desk.body \in Templates
    BY <1>2 DEF Dispatch, MailsTyped
  <2>2. ASSUME NEW m, mails' = Append(mails, m),
               m \in {New(desk.to, desk.body, "completed", 1, FALSE),
                      New(desk.to, desk.body, "queued", 0, FALSE)}
                     \cup {New(desk.to, desk.body, "failed", 0, bounced) : bounced \in BOOLEAN}
        PROVE  Deliver
    <3>1. m \in Letter
      BY <2>1, <2>2, NewTyped DEF MailStates
    <3>. QED
      BY <1>1, <1>2, <2>2, <3>1 DEF Dispatch
  <2>3. ASSUME mails' = mails PROVE Deliver
    BY <1>2, <2>3 DEF Dispatch, MailsTyped, MailWritten
  <2>. HIDE DEF Deliver
  <2>4. Deliver
    BY <1>2, <2>2, <2>3 DEF Dispatch
  <2>. USE DEF Deliver
  <2>. QED
    BY <1>2, <2>4 DEF Dispatch, NoDesk, MailsTyped
<1>3. ASSUME NEW to \in Addresses, CampaignSends(to) PROVE MailsTyped' /\ MailWritten
  <2>1. PICK b \in Templates : mails' = Append(mails, New(to, b, "waiting", 1, FALSE))
    BY <1>3 DEF CampaignSends
  <2>2. New(to, b, "waiting", 1, FALSE) \in Letter
    BY NewTyped DEF MailStates
  <2>3. Deliver
    BY <1>1, <1>3, <2>1, <2>2 DEF CampaignSends
  <2>. QED
    BY <1>3, <2>3 DEF CampaignSends, MailsTyped
<1>4. ASSUME NEW to \in Addresses, SendEmail(to) PROVE MailsTyped' /\ MailWritten
  <2>1. PICK about \in Recipients, body \in Templates, live \in BOOLEAN :
           desk' = [at |-> "cleared", to |-> to, body |-> body,
                    knew |-> live /\ Norm(about) = Norm(to), reply |-> answered[Owner[to]]]
    BY <1>4 DEF SendEmail
  <2>2. desk'.to = to /\ desk'.body = body
    BY <2>1
  <2>. QED
    BY <1>4, <2>2 DEF SendEmail, MailsTyped, MailWritten
<1>5. ASSUME NEW i \in DOMAIN mails, WorkerSends(i) PROVE MailsTyped' /\ MailWritten
  <2>1. mails[i] \in Letter
    BY DEF MailsTyped
  <2>2. PICK m \in Letter : mails' = Updated(i, m)
    <3>1. [mails[i] EXCEPT !.state = "completed", !.sent = @ + 1] \in Letter
      <4>1. mails[i].sent + 1 \in Nat /\ "completed" \in MailStates
        BY <2>1 DEF Letter, MailStates
      <4>. QED
        BY <2>1, <4>1 DEF Letter
    <3>2. \A bounced \in BOOLEAN : [mails[i] EXCEPT !.state = "failed", !.bounced = bounced] \in Letter
      BY <2>1 DEF Letter, MailStates
    <3>. QED
      BY <1>5, <3>1, <3>2 DEF WorkerSends
  <2>3. mails' \in Seq(Letter)
    BY <2>2, UpdatedMails DEF MailsTyped
  <2>. QED
    BY <1>5, <2>2, <2>3 DEF WorkerSends, MailsTyped, MailWritten
<1>6. ASSUME NEW i \in DOMAIN mails, ReplyArrives(i) PROVE MailsTyped' /\ MailWritten
  <2>. DEFINE m == [mails[i] EXCEPT !.state = "stopped"]
              who == Owner[mails[i].to]
              open == mails[i].state # "completed"
  <2>1. mails[i] \in Letter /\ mails[i].state # "stopped"
    BY <1>6 DEF MailsTyped, ReplyArrives
  <2>2. m \in Letter /\ Stopping(m, who)
    BY <2>1 DEF Letter, MailStates, Stopping
  <2>3. who \in Prospective
    BY <2>1 DEF Letter, Prospective
  <2>4. /\ mails' = IF open THEN Updated(i, m) ELSE mails
        /\ answered' = [answered EXCEPT ![who] =
                           IF open \/ answered[who] = "recorded" THEN "recorded" ELSE "unrecorded"]
        /\ desk' = desk
    BY <1>6 DEF ReplyArrives
  <2>. HIDE DEF m, who, open
  <2>5. Updated(i, m) \in Seq(Letter)
    BY <2>2, UpdatedMails DEF MailsTyped
  <2>6. MailsTyped'
    BY <2>3, <2>4, <2>5 DEF MailsTyped
  <2>7. MailWritten
    BY <2>1, <2>2, <2>3, <2>4 DEF MailsTyped, MailWritten
  <2>. QED
    BY <2>6, <2>7
<1>7. CASE UNCHANGED guardVars
  BY <1>7 DEF guardVars, MailsTyped, MailWritten
<1>. QED
  BY <1>2, <1>3, <1>4, <1>5, <1>6, <1>7 DEF GuardNext

LEMMA RecordedStep == MailsTyped /\ RecordedStopped /\ MailWritten => RecordedStopped'
<1>. SUFFICES ASSUME MailsTyped, RecordedStopped, MailWritten,
                     NEW r \in Prospective, answered'[r] = "recorded"
              PROVE  \E k \in DOMAIN mails' : Stopping(mails'[k], r)
  BY DEF RecordedStopped, Stopping
<1>1. CASE mails' = mails /\ answered[r] = "recorded"
  BY <1>1 DEF RecordedStopped
<1>2. ASSUME NEW m \in Letter, mails' = Append(mails, m), answered' = answered
      PROVE  \E k \in DOMAIN mails' : Stopping(mails'[k], r)
  <2>1. PICK j \in DOMAIN mails : Stopping(mails[j], r)
    BY <1>2 DEF RecordedStopped
  <2>2. j \in DOMAIN mails' /\ mails'[j] = mails[j]
    BY <1>2 DEF MailsTyped
  <2>. QED
    BY <2>1, <2>2
<1>3. ASSUME NEW i \in DOMAIN mails, NEW m \in Letter, mails[i].state # "stopped",
             mails' = Updated(i, m), answered[r] = "recorded" \/ Stopping(m, r)
      PROVE  \E k \in DOMAIN mails' : Stopping(mails'[k], r)
  <2>1. CASE Stopping(m, r)
    BY <1>3, <2>1, UpdatedMails DEF MailsTyped
  <2>2. CASE answered[r] = "recorded"
    <3>1. PICK j \in DOMAIN mails : Stopping(mails[j], r)
      BY <2>2 DEF RecordedStopped
    <3>2. j # i
      BY <1>3, <3>1 DEF Stopping
    <3>. QED
      BY <1>3, <3>1, <3>2, UpdatedMails DEF MailsTyped
  <2>. QED
    BY <1>3, <2>1, <2>2
<1>. QED
  BY <1>1, <1>2, <1>3 DEF MailWritten

GuardInv == MailsTyped /\ RecordedStopped /\ RecordedRepliesHold

(* Whoever is recorded to have replied, whatever workflow took the reply   *)
(* and however the address is written, gets no mail past a guard that was  *)
(* asked about them with the live data; and no history softens a verdict.  *)
THEOREM GuardIsHeld == Spec => []GuardHolds
<1>1. Init => GuardInv
  BY DEF Init, GuardInit, GuardInv, MailsTyped, RecordedStopped, RecordedRepliesHold, NoDesk
<1>2. GuardInv /\ [Next]_vars => GuardInv'
  <2>. SUFFICES ASSUME GuardInv, [GuardNext]_guardVars PROVE GuardInv'
    BY Parts
  <2>1. MailsTyped' /\ RecordedStopped'
    BY MailsStep, RecordedStep DEF GuardInv
  <2>2. RecordedRepliesHold'
    <3>1. ASSUME NEW to \in Addresses, SendEmail(to) PROVE RecordedRepliesHold'
      <4>1. PICK about \in Recipients, body \in Templates, live \in BOOLEAN :
              /\ MayPass(about, body, live) = TRUE
              /\ desk' = [at |-> "cleared", to |-> to, body |-> body,
                          knew |-> live /\ Norm(about) = Norm(to), reply |-> answered[Owner[to]]]
        BY <3>1 DEF SendEmail
      <4>2. SUFFICES ASSUME answered[Owner[to]] = "recorded", live = TRUE, Norm(about) = Norm(to)
                     PROVE  FALSE
        BY <4>1 DEF RecordedRepliesHold
      <4>3. PICK i \in DOMAIN mails : Stopping(mails[i], Owner[to])
        BY <4>2 DEF GuardInv, RecordedStopped, Prospective
      <4>. QED
        BY <4>1, <4>2, <4>3, KnownReplyBlocks DEF GuardInv
    <3>2. CASE Dispatch
      BY <3>2 DEF Dispatch, NoDesk, RecordedRepliesHold
    <3>3. CASE desk' = desk
      BY <3>3 DEF GuardInv, RecordedRepliesHold
    <3>. QED
      BY <3>1, <3>2, <3>3 DEF GuardNext, guardVars, CampaignSends, WorkerSends, ReplyArrives
  <2>. QED
    BY <2>1, <2>2 DEF GuardInv
<1>3. GuardInv => GuardHolds
  BY HistoryOnlyAddsAlways DEF GuardInv, GuardHolds
<1>. QED
  BY <1>1, <1>2, <1>3, PTL DEF Spec
=============================================================================
