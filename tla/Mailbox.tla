------------------------------ MODULE Mailbox ------------------------------
(***************************************************************************)
(* Connected Gmail mailboxes: consent, token refresh, the watch on the     *)
(* inbox, and the pushes that turn new messages into detected replies      *)
(* (automation/tokens.py, automation/push.py, the maintenance beat of      *)
(* automation/worker.py, server/oauth_api.py).                             *)
(*                                                                         *)
(* Web requests and the worker are threads over one table of accounts.     *)
(* Nothing locks an account: a thread reads its row, waits for Google, and *)
(* writes what it has.  A refresh token may rotate (the old one is then    *)
(* refused), a call may fail, a thread may die between any two steps, and  *)
(* a push may be lost, repeated or late.                                   *)
(*                                                                         *)
(* History ids count the messages of the mailbox.  Of a watch state the    *)
(* model keeps the id watch() answered (seed) and the id the pushes track; *)
(* whether a watch is due for renewal is left to chance.                   *)
(***************************************************************************)
EXTENDS Integers, FiniteSets, FiniteSetsExt

CONSTANTS
    Users,       (* users that connect the mailbox                         *)
    Web,         (* request threads                                        *)
    Worker,      (* the automation worker's thread                         *)
    NoRow,       (* a user that has no account row                         *)
    Rotates,     (* whether a refresh replaces the refresh token           *)
    PageSize,    (* messages of one answer of users.history.list           *)
    MaxMessages, (* bound: messages that arrive                            *)
    MaxTokens,   (* bound: refresh tokens issued                           *)
    MaxRuns,     (* bound: operations begun                                *)
    MaxCrashes   (* bound: threads that die, answers nobody can read       *)

ASSUME MailboxAssumption ==
    /\ Worker \notin Web
    /\ Rotates \in BOOLEAN
    /\ {PageSize, MaxMessages, MaxTokens} \subseteq Nat \ {0}
    /\ {MaxRuns, MaxCrashes} \subseteq Nat
    /\ "nobody" \notin Users

VARIABLES
    row,       (* the oauth_accounts table                                 *)
    ledger,    (* history ids marked processed                             *)
    found,     (* replies handed to ingest_reply and matched               *)
    th,        (* what each thread is doing                                *)
    inbox,     (* whose reply each message is                              *)
    good,      (* refresh tokens the provider accepts                      *)
    issued,    (* how many it has issued                                   *)
    consented, (* history: users with an account they have not deleted     *)
    passed,    (* history: messages a history id was set beyond, and why   *)
    runs, crashes

vars == <<row, ledger, found, th, inbox, good, issued, consented, passed,
          runs, crashes>>

Threads == Web \cup {Worker}
Nobody == "nobody"
Ids == 0..MaxMessages
Head == Cardinality(DOMAIN inbox)
Tokens == 0..MaxTokens            (* 0: no refresh token *)
Watch == [seed: Ids, tracked: Ids]
Null == [seed |-> 0, tracked |-> 0]
Row == [refresh: Tokens, fresh: BOOLEAN, status: {"connected", "reconnect"}, watch: Watch]

Connected == {u \in Users : row[u] # NoRow /\ row[u].status = "connected"}
Expiring == {u \in Connected : ~row[u].fresh}
Unwatched == {u \in Connected : row[u].watch = Null}
SetStatus(u, status) == [row EXCEPT ![u] = IF @ = NoRow THEN @ ELSE [@ EXCEPT !.status = status]]
SetWatch(u, w) == [row EXCEPT ![u] = IF @ = NoRow THEN @ ELSE [@ EXCEPT !.watch = w]]

(* Mutant of Upsert: the refresh token that came back is not kept.         *)
UpsertKeeps(u, refresh) ==
    [row EXCEPT ![u] =
        [refresh |-> IF @ # NoRow THEN @.refresh ELSE refresh,
         fresh |-> TRUE, status |-> "connected",
         watch |-> IF @ = NoRow THEN Null ELSE @.watch]]

Upsert(u, refresh) ==
    [row EXCEPT ![u] =
        [refresh |-> IF refresh = 0 /\ @ # NoRow THEN @.refresh ELSE refresh,
         fresh |-> TRUE, status |-> "connected",
         watch |-> IF @ = NoRow THEN Null ELSE @.watch]]

(* A thread: where it is and why, the accounts it has still to handle and  *)
(* the watch states it read with them, the account in hand, the history id *)
(* of the push and the id it will save, the messages listed, the token.    *)
Idle == [pc |-> "idle", why |-> "none", todo |-> {}, seen |-> [u \in Users |-> Null],
         user |-> Nobody, hist |-> 0, upto |-> 0, msgs |-> {}, token |-> 0]
To(p, label) == th' = [th EXCEPT ![p].pc = label]
Become(p, t) == th' = [th EXCEPT ![p] = t]
At(p, label) == th[p].pc = label

(* On to the next account, and to idle after the last unless it is a sweep.*)
Again(p) ==
    Become(p, IF th[p].todo = {} /\ th[p].why \notin {"refresh", "renew"} THEN Idle
              ELSE [Idle EXCEPT !.pc = "next", !.why = th[p].why, !.todo = th[p].todo,
                                !.seen = th[p].seen, !.hist = th[p].hist])
Begin(p, t) ==
    /\ At(p, "idle") /\ runs < MaxRuns
    /\ runs' = runs + 1
    /\ Become(p, t)

Start(w, h) == IF w.tracked # 0 THEN w.tracked ELSE IF w.seed # 0 THEN w.seed ELSE h
Skipped(n) == {m \in 1..n : inbox[m] # Nobody /\ <<inbox[m], m>> \notin found}

(* How a reply nobody has looked at is left behind: it came before the     *)
(* watch, a renewal's answer replaced the id the pushes track, or it was   *)
(* beyond the page a listing read.                                         *)
Causes == {"start", "renewal", "page"}
Passing(cause, ms) == {<<cause, m>> : m \in ms}

-----------------------------------------------------------------------------
(* Pushes.  The ledger is written first, then the accounts are read.       *)

Push(p, h) ==
    /\ p \in Web /\ h \in DOMAIN inbox \ ledger
    /\ ledger' = ledger \cup {h}
    /\ Begin(p, [Idle EXCEPT !.pc = "accounts", !.why = "push", !.hist = h])
    /\ UNCHANGED <<row, found, inbox, good, issued, consented, passed, crashes>>

AccountsByEmail(p) ==
    /\ At(p, "accounts")
    /\ Become(p, [th[p] EXCEPT !.pc = "next", !.todo = Connected,
                  !.seen = [u \in Users |-> IF u \in Connected THEN row[u].watch ELSE Null]])
    /\ UNCHANGED <<row, ledger, found, inbox, good, issued, consented, passed,
                   runs, crashes>>

(* list_history: one request, so the first page of the messages added      *)
(* since; the id it returns is the mailbox's, whatever the page holds      *)
(* (nextPageToken is not read).                                            *)
Listed(from) == {m \in 1..Head : from < m /\ m <= from + PageSize}

(* Mutant of ListHistory: after a failure the push's own id is saved.      *)
ListHistoryGivesUp(p) ==
    /\ At(p, "have") /\ th[p].why = "push"
    /\ Become(p, [th[p] EXCEPT !.pc = "ingest", !.upto = th[p].hist, !.msgs = {}])
    /\ UNCHANGED <<row, ledger, found, inbox, good, issued, consented, passed, runs, crashes>>

ListHistory(p) ==
    /\ At(p, "have") /\ th[p].why = "push"
    /\ LET w == th[p].seen[th[p].user]
           from == Start(w, th[p].hist)
       IN \/ /\ Become(p, [th[p] EXCEPT !.pc = "ingest", !.upto = Head, !.msgs = Listed(from)])
             /\ passed' = passed \cup Passing("page", Skipped(Head) \ (1..(from + PageSize)))
                           \cup (IF w = Null THEN Passing("start", Skipped(from)) ELSE {})
          \/ /\ Again(p)
             /\ UNCHANGED passed
    /\ UNCHANGED <<row, ledger, found, inbox, good, issued, consented, runs, crashes>>

(* ingest_reply: the message counts for the user whose thread it is in.    *)
Ingest(p) ==
    /\ At(p, "ingest") /\ th[p].msgs # {}
    /\ LET m == Min(th[p].msgs)
       IN /\ th' = [th EXCEPT ![p].msgs = @ \ {m}]
          /\ found' = IF inbox[m] = th[p].user THEN found \cup {<<th[p].user, m>>} ELSE found
    /\ UNCHANGED <<row, ledger, inbox, good, issued, consented, passed, runs, crashes>>

SaveHistory(p) ==
    /\ At(p, "ingest") /\ th[p].msgs = {}
    /\ row' = SetWatch(th[p].user, [th[p].seen[th[p].user] EXCEPT !.tracked = th[p].upto])
    /\ Again(p)
    /\ UNCHANGED <<ledger, found, inbox, good, issued, consented, passed, runs, crashes>>

-----------------------------------------------------------------------------
(* One account after the other; the worker goes on to its next sweep.      *)

NextAccount(p) ==
    /\ At(p, "next")
    /\ \E u \in th[p].todo :
          Become(p, [th[p] EXCEPT !.pc = "token", !.user = u, !.todo = @ \ {u}])
    /\ UNCHANGED <<row, ledger, found, inbox, good, issued, consented, passed,
                   runs, crashes>>

SweepDone(p) ==
    /\ At(p, "next") /\ th[p].todo = {}
    /\ \/ /\ th[p].why = "refresh"
          /\ \E due \in SUBSET {u \in Connected : row[u].watch # Null} :
                Become(p, [Idle EXCEPT !.pc = "next", !.why = "renew", !.todo = due])
       \/ /\ th[p].why = "renew"
          /\ Become(p, [Idle EXCEPT !.pc = "next", !.why = "arm",
                        !.todo = Unwatched])
       \/ /\ th[p].why \notin {"refresh", "renew"}
          /\ Become(p, Idle)
    /\ UNCHANGED <<row, ledger, found, inbox, good, issued, consented, passed,
                   runs, crashes>>

Maintenance ==
    /\ Begin(Worker, [Idle EXCEPT !.pc = "next", !.why = "refresh",
                      !.todo = Expiring])
    /\ UNCHANGED <<row, ledger, found, inbox, good, issued, consented, passed, crashes>>

(* A send, or the route that arms the watch, works on one account.         *)
ForOne(p, u) ==
    /\ \E why \in {"send", "arm_route"} :
          /\ IF why = "send" THEN p = Worker ELSE p \in Web /\ row[u] # NoRow
          /\ Begin(p, [Idle EXCEPT !.pc = "token", !.why = why, !.user = u])
    /\ UNCHANGED <<row, ledger, found, inbox, good, issued, consented, passed, crashes>>

-----------------------------------------------------------------------------
(* valid_access_token, and what follows it.                                *)

ValidAccessToken(p) ==
    /\ At(p, "token")
    /\ LET u == th[p].user
           r == row[u]
       IN IF r = NoRow \/ u \notin Connected
          THEN Again(p) /\ UNCHANGED row
          ELSE \/ r.fresh /\ To(p, "have") /\ UNCHANGED row
               \/ /\ ~r.fresh /\ r.refresh = 0
                  /\ row' = SetStatus(u, "reconnect")
                  /\ Again(p)
               \/ /\ ~r.fresh /\ r.refresh # 0
                  /\ Become(p, [th[p] EXCEPT !.pc = "refresh", !.token = r.refresh])
                  /\ UNCHANGED row
    /\ UNCHANGED <<ledger, found, inbox, good, issued, consented, passed, runs, crashes>>

(* The provider: it may be unreachable, before or after it has rotated.    *)
(* An answer of status 200 that is no JSON raises what nobody catches on   *)
(* the way out of valid_access_token: the account is not marked; a sweep   *)
(* goes on to the next one, a push is over.                                *)
Unreadable(p) ==
    /\ At(p, "refresh") /\ crashes < MaxCrashes
    /\ crashes' = crashes + 1
    /\ \/ UNCHANGED <<good, issued>>
       \/ /\ Rotates /\ th[p].token \in good
          /\ good' = good \ {th[p].token}
          /\ UNCHANGED issued
    /\ IF th[p].why = "push" THEN Become(p, Idle) ELSE Again(p)
    /\ UNCHANGED <<row, ledger, found, inbox, consented, passed, runs>>

Refresh(p) ==
    /\ At(p, "refresh")
    /\ \/ /\ To(p, "refused")
          /\ UNCHANGED <<good, issued>>
       \/ /\ th[p].token \in good
          /\ IF Rotates
             THEN /\ issued < MaxTokens
                  /\ issued' = issued + 1
                  /\ good' = (good \ {th[p].token}) \cup {issued'}
                  /\ \/ To(p, "refused")
                     \/ Become(p, [th[p] EXCEPT !.pc = "refreshed", !.token = issued'])
             ELSE /\ Become(p, [th[p] EXCEPT !.pc = "refreshed", !.token = 0])
                  /\ UNCHANGED <<good, issued>>
    /\ UNCHANGED <<row, ledger, found, inbox, consented, passed, runs, crashes>>

MarkReconnect(p) ==
    /\ At(p, "refused")
    /\ row' = SetStatus(th[p].user, "reconnect")
    /\ Again(p)
    /\ UNCHANGED <<ledger, found, inbox, good, issued, consented, passed, runs, crashes>>

SaveRefresh(p) ==
    /\ At(p, "refreshed")
    /\ row' = Upsert(th[p].user, th[p].token)
    /\ To(p, "have")
    /\ UNCHANGED <<ledger, found, inbox, good, issued, consented, passed, runs, crashes>>

(* enable_gmail_watch and the renewal: watch() answers the current id, and *)
(* the answer replaces the stored state.                                   *)
CallWatch(p) ==
    /\ At(p, "have") /\ th[p].why \notin {"push", "refresh", "send"}
    /\ \/ Become(p, [th[p] EXCEPT !.pc = "watched", !.upto = Head])
       \/ Again(p)
    /\ UNCHANGED <<row, ledger, found, inbox, good, issued, consented, passed,
                   runs, crashes>>

SaveWatch(p) ==
    /\ At(p, "watched")
    /\ row' = SetWatch(th[p].user, [seed |-> th[p].upto, tracked |-> 0])
    /\ LET before == row[th[p].user]
           cause == IF before # NoRow /\ before.watch # Null THEN "renewal" ELSE "start"
       IN passed' = passed \cup Passing(cause, Skipped(th[p].upto))
    /\ Again(p)
    /\ UNCHANGED <<ledger, found, inbox, good, issued, consented, runs, crashes>>

TokenUsed(p) ==
    /\ At(p, "have") /\ th[p].why \in {"refresh", "send"}
    /\ Again(p)
    /\ UNCHANGED <<row, ledger, found, inbox, good, issued, consented, passed,
                   runs, crashes>>

-----------------------------------------------------------------------------
(* Consent and disconnecting.  A callback carries a state that login made  *)
(* and consume_state takes, and a code the provider may not accept.        *)

Callback(p, u) ==
    /\ p \in Web
    /\ Begin(p, [Idle EXCEPT !.pc = "exchange", !.why = "connect", !.user = u])
    /\ UNCHANGED <<row, ledger, found, inbox, good, issued, consented, passed, crashes>>

Exchange(p) ==
    /\ At(p, "exchange")
    /\ \/ /\ issued < MaxTokens
          /\ issued' = issued + 1
          /\ good' = good \cup {issued'}
          /\ Become(p, [th[p] EXCEPT !.pc = "connect", !.token = issued'])
       \/ /\ Become(p, Idle)
          /\ UNCHANGED <<good, issued>>
    /\ UNCHANGED <<row, ledger, found, inbox, consented, passed, runs, crashes>>

Connect(p) ==
    /\ At(p, "connect")
    /\ row' = Upsert(th[p].user, th[p].token)
    /\ consented' = consented \cup {th[p].user}
    /\ To(p, "token")
    /\ UNCHANGED <<ledger, found, inbox, good, issued, passed, runs, crashes>>

Disconnect(p, u) ==
    /\ p \in Web /\ row[u] # NoRow
    /\ Begin(p, [Idle EXCEPT !.pc = "revoke", !.why = "disconnect", !.user = u,
                 !.token = row[u].refresh])
    /\ UNCHANGED <<row, ledger, found, inbox, good, issued, consented, passed, crashes>>

Revoke(p) ==
    /\ At(p, "revoke")
    /\ good' \in {good, good \ {th[p].token}}
    /\ To(p, "delete")
    /\ UNCHANGED <<row, ledger, found, inbox, issued, consented, passed, runs, crashes>>

Delete(p) ==
    /\ At(p, "delete")
    /\ row' = [row EXCEPT ![th[p].user] = NoRow]
    /\ consented' = consented \ {th[p].user}
    /\ Become(p, Idle)
    /\ UNCHANGED <<ledger, found, inbox, good, issued, passed, runs, crashes>>

-----------------------------------------------------------------------------
(* The world: mail arrives, tokens age, threads die.                       *)

MailArrives ==
    /\ Head < MaxMessages
    /\ \E of \in Users \cup {Nobody} : inbox' = [m \in 1..(Head + 1) |->
                                                   IF m <= Head THEN inbox[m] ELSE of]
    /\ UNCHANGED <<row, ledger, found, th, good, issued, consented, passed, runs, crashes>>

TokenAges(u) ==
    /\ row[u] # NoRow /\ row[u].fresh
    /\ row' = [row EXCEPT ![u].fresh = FALSE]
    /\ UNCHANGED <<ledger, found, th, inbox, good, issued, consented, passed, runs, crashes>>

Crash(p) ==
    /\ ~At(p, "idle") /\ crashes < MaxCrashes
    /\ crashes' = crashes + 1
    /\ Become(p, Idle)
    /\ UNCHANGED <<row, ledger, found, inbox, good, issued, consented, passed, runs>>

(* One account has been connected and its watch armed, or none.            *)
Init ==
    /\ consented \in {{}} \cup {{u} : u \in Users}
    /\ row = [u \in Users |->
                IF u \in consented
                THEN [refresh |-> 1, fresh |-> TRUE, status |-> "connected",
                      watch |-> [seed |-> 1, tracked |-> 0]]
                ELSE NoRow]
    /\ good = IF consented = {} THEN {} ELSE {1}
    /\ ledger = {} /\ found = {} /\ passed = {}
    /\ th = [p \in Threads |-> Idle]
    /\ inbox = [m \in 1..1 |-> Nobody]
    /\ issued = Cardinality(good) /\ runs = 0 /\ crashes = 0

Thread(p) ==
    \/ AccountsByEmail(p) \/ ListHistory(p) \/ Ingest(p) \/ SaveHistory(p)
    \/ NextAccount(p) \/ SweepDone(p) \/ ValidAccessToken(p) \/ Refresh(p) \/ Unreadable(p)
    \/ MarkReconnect(p) \/ SaveRefresh(p) \/ CallWatch(p) \/ SaveWatch(p) \/ TokenUsed(p)
    \/ Exchange(p) \/ Connect(p) \/ Revoke(p) \/ Delete(p)

Next ==
    \/ \E p \in Threads : Thread(p) \/ Crash(p) \/ \E h \in Ids : Push(p, h)
    \/ \E p \in Threads, u \in Users : ForOne(p, u) \/ Callback(p, u) \/ Disconnect(p, u)
    \/ Maintenance \/ MailArrives
    \/ \E u \in Users : TokenAges(u)

Spec == Init /\ [][Next]_vars

-----------------------------------------------------------------------------
(* Rows, threads and messages have their shapes.                           *)
TypeOK ==
    /\ row \in [Users -> Row \cup {NoRow}]
    /\ ledger \subseteq Ids /\ passed \subseteq Causes \X Ids
    /\ found \subseteq Users \X Ids
    /\ good \subseteq Tokens /\ issued \in Tokens
    /\ consented \subseteq Users
    /\ \A p \in Threads :
          /\ th[p].todo \subseteq Users /\ th[p].user \in Users \cup {Nobody}
          /\ th[p].msgs \subseteq Ids /\ th[p].token \in Tokens
          /\ {th[p].hist, th[p].upto} \subseteq Ids

(* The id the next push will list from passes a reply nobody has looked at *)
(* in three ways only, each a history of its own: the reply came before    *)
(* the watch was started, a renewal's answer jumped over it, or it was     *)
(* beyond the first page of a listing.  No failed listing, no crash after  *)
(* the ledger's mark, no stale watch state written back and no             *)
(* reconnection is a fourth (handle_gmail_pubsub, Worker._renew_watches).  *)
NothingSkipped ==
    \A u \in Users : row[u] # NoRow =>
        \A m \in 1..Start(row[u].watch, 0) :
            inbox[m] = u => <<u, m>> \in found \/ \E c \in Causes : <<c, m>> \in passed

(* What list_history says of itself (gmail.py:103-105) and push.py:115 of  *)
(* the id it stores, and a second page breaks: a listing gives the changed *)
(* messages since the id.                                                  *)
NoPageSkipped == \A m \in Ids : <<"page", m>> \notin passed

(* When nothing is under way, no thread has died and every answer of the   *)
(* token endpoint could be read, an account the user has consented to and  *)
(* that shows as connected can be refreshed: two refreshes with one        *)
(* rotating token leave the row with the token that works or flagged       *)
(* (valid_access_token).                                                   *)
ConnectedIsUsable ==
    (\A p \in Threads : At(p, "idle")) /\ crashes = 0 =>
        \A u \in Connected \cap consented : row[u].refresh \in good \cup {0}

(* server/oauth_api.py:9 "revoke + delete": once an account is deleted it  *)
(* is not there until the user consents again.                             *)
DisconnectIsFinal == \A u \in Users : row[u] # NoRow => u \in consented

=============================================================================
