---------------------------- MODULE MailboxProofs ----------------------------
(***************************************************************************)
(* Proofs about Mailbox: for any users, threads, messages and tokens.      *)
(***************************************************************************)
EXTENDS Mailbox, FiniteSetTheorems, TLAPS

(***************************************************************************)
(* Types                                                                   *)
(***************************************************************************)

Labels == {"idle", "accounts", "next", "token", "have", "refresh", "refused", "refreshed", "ingest",
           "watched", "exchange", "connect", "revoke", "delete"}
Reasons == {"none", "push", "refresh", "renew", "arm", "send", "arm_route", "connect", "disconnect"}
Task == [pc: Labels, why: Reasons, todo: SUBSET Users, seen: [Users -> Watch],
         user: Users \cup {Nobody}, hist: Ids, upto: Ids, msgs: SUBSET Ids, token: Tokens]

(* Only a thread between two accounts has none in hand.                    *)
InHand(t) == t.pc \in {"idle", "accounts", "next"} \/ t.user \in Users
RowsTyped == row \in [Users -> Row \cup {NoRow}]
ThreadsTyped == th \in [Threads -> Task] /\ \A p \in Threads : InHand(th[p])
InboxTyped == \E n \in 1..MaxMessages : inbox \in [1..n -> Users \cup {Nobody}]
TypeInv == RowsTyped /\ ThreadsTyped /\ InboxTyped /\ issued \in Tokens

(***************************************************************************)
(* The watch.  Every id from which some thread or row could make the next  *)
(* push list is reached by the inbox and leaves no reply unread behind it; *)
(* a push that is ingesting has the unread ones in hand.                   *)
(***************************************************************************)

World == [inbox |-> inbox, found |-> found, passed |-> passed]
Read(u, m, W) == <<u, m>> \in W.found \/ \E c \in Causes : <<c, m>> \in W.passed
Length(W) == Cardinality(DOMAIN W.inbox)
Behind(u, n, W) == \A m \in 1..n : W.inbox[m] = u => Read(u, m, W)
Covers(u, w, W) == w.seed <= Length(W) /\ w.tracked <= Length(W) /\ Behind(u, Start(w, 0), W)
SeenCovers(t, W) == \A u \in Users : Covers(u, t.seen[u], W)
Ingesting(t, W) ==
    t.pc = "ingest" =>
        /\ t.upto \in 1..Length(W)
        /\ \A m \in 1..t.upto : W.inbox[m] = t.user => Read(t.user, m, W) \/ m \in t.msgs
Watching(t, W) == t.pc = "watched" => t.upto <= Length(W)
Careful(t, W) == SeenCovers(t, W) /\ Ingesting(t, W) /\ Watching(t, W)
RowCovers == \A u \in Users : row[u] # NoRow => Covers(u, row[u].watch, World)
ThreadCovers == \A p \in Threads : Careful(th[p], World)
SkipInv == RowCovers /\ ThreadCovers

(***************************************************************************)
(* Tokens.  One that a thread is about to save works and nobody else has   *)
(* it; one that a thread read is in no other user's row; a row whose token *)
(* no longer works is flagged or about to be, or is about to be deleted.   *)
(***************************************************************************)

Has(r, x) == r # NoRow /\ r.refresh = x
Saves(t) == t.pc \in {"refreshed", "connect"} /\ t.token # 0
Reads(t) == t.pc \in {"refresh", "revoke"} /\ t.token # 0
Spent == /\ crashes \in Nat
         /\ good \subseteq 1..issued
         /\ \A u \in Users : row[u] # NoRow => row[u].refresh <= issued
         /\ \A p \in Threads : th[p].token <= issued
SavesAlone ==
    \A p \in Threads : Saves(th[p]) =>
        /\ th[p].token \in good
        /\ \A u \in Users : ~Has(row[u], th[p].token)
        /\ \A q \in Threads \ {p} : Saves(th[q]) \/ Reads(th[q]) => th[q].token # th[p].token
Rotated ==
    \A p \in Threads : /\ th[p].pc = "connect" => th[p].token # 0
                       /\ th[p].pc = "refreshed" => (Rotates <=> th[p].token # 0)
ReadsOwn ==
    \A p \in Threads : Reads(th[p]) =>
        \A u \in Users \ {th[p].user} : ~Has(row[u], th[p].token)
OwnTokens ==
    \A u, v \in Users : \A x \in 1..MaxTokens : Has(row[u], x) /\ Has(row[v], x) => u = v
Pending(u) ==
    \/ \E q \in Threads : th[q].user = u /\ th[q].pc = "delete"
    \/ Rotates /\ \/ row[u].status = "reconnect"
                  \/ \E q \in Threads : th[q].user = u /\ th[q].pc \in {"refused", "refreshed"}
Broken(u) == row[u] # NoRow /\ row[u].refresh \notin good \cup {0}
Flagged == crashes = 0 => \A u \in Users : Broken(u) => Pending(u)
TokenInv == Spent /\ SavesAlone /\ Rotated /\ ReadsOwn /\ OwnTokens /\ Flagged

LEMMA Bounds ==
    /\ MaxMessages \in Nat \ {0} /\ MaxTokens \in Nat \ {0} /\ PageSize \in Nat
    /\ 0 \in Ids /\ 1 \in Ids /\ 0 \in Tokens /\ 1 \in Tokens
    /\ Worker \notin Web /\ Rotates \in BOOLEAN /\ Nobody \notin Users
  BY MailboxAssumption DEF Ids, Tokens, Nobody

LEMMA HeadIsLength ==
    ASSUME NEW n \in Nat, NEW S, inbox \in [1..n -> S]
    PROVE  Head = n /\ DOMAIN inbox = 1..n
<1>1. DOMAIN inbox = 1..n
  OBVIOUS
<1>2. Cardinality(1..n) = n
  BY FS_Interval
<1>. QED
  BY <1>1, <1>2 DEF Head

LEMMA HeadTyped ==
    InboxTyped => /\ Head \in 1..MaxMessages /\ Head \in Ids
                  /\ DOMAIN inbox = 1..Head
                  /\ inbox \in [1..Head -> Users \cup {Nobody}]
<1>. SUFFICES ASSUME InboxTyped
              PROVE  /\ Head \in 1..MaxMessages /\ Head \in Ids
                     /\ DOMAIN inbox = 1..Head
                     /\ inbox \in [1..Head -> Users \cup {Nobody}]
  OBVIOUS
<1>1. PICK n \in 1..MaxMessages : inbox \in [1..n -> Users \cup {Nobody}]
  BY DEF InboxTyped
<1>2. n \in Nat /\ n \in Ids
  BY Bounds DEF Ids
<1>3. Head = n /\ DOMAIN inbox = 1..n
  BY <1>1, <1>2, HeadIsLength
<1>. QED
  BY <1>1, <1>2, <1>3

LEMMA IdleTyped ==
    /\ Idle \in Task /\ InHand(Idle)
    /\ Idle.pc = "idle" /\ Idle.seen = [u \in Users |-> Null] /\ Idle.token = 0
  BY Bounds DEF Idle, Task, Labels, Reasons, Watch, Null, InHand

(* A thread that lets go of an account has no token and reads no new watch.*)
Rests(p, t) ==
    /\ t \in Task /\ t.pc \in {"idle", "next"} /\ t.token = 0
    /\ t.seen \in {Idle.seen, th[p].seen}

LEMMA AgainRests ==
    ASSUME ThreadsTyped, NEW p \in Threads, Again(p)
    PROVE  \E t : Rests(p, t) /\ th' = [th EXCEPT ![p] = t]
<1>. DEFINE on == [Idle EXCEPT !.pc = "next", !.why = th[p].why, !.todo = th[p].todo,
                              !.seen = th[p].seen, !.hist = th[p].hist]
            t == IF th[p].todo = {} /\ th[p].why \notin {"refresh", "renew"} THEN Idle ELSE on
<1>1. th' = [th EXCEPT ![p] = t]
  BY DEF Again, Become
<1>2. th[p] \in Task
  BY DEF ThreadsTyped
<1>3. on \in Task /\ on.pc = "next" /\ on.token = 0 /\ on.seen = th[p].seen
  BY <1>2, IdleTyped DEF Task, Labels
<1>4. Rests(p, t)
  BY <1>3, IdleTyped DEF Rests
<1>. QED
  BY <1>1, <1>4

LEMMA BecomeTyped ==
    ASSUME ThreadsTyped, NEW p \in Threads, NEW t \in Task, InHand(t),
           th' = [th EXCEPT ![p] = t]
    PROVE  ThreadsTyped'
  BY DEF ThreadsTyped

LEMMA AgainTyped ==
    ASSUME ThreadsTyped, NEW p \in Threads, Again(p)
    PROVE  ThreadsTyped'
<1>1. PICK t : Rests(p, t) /\ th' = [th EXCEPT ![p] = t]
  BY AgainRests
<1>. QED
  BY <1>1, BecomeTyped DEF Rests, InHand

LEMMA RowWritten ==
    ASSUME RowsTyped, NEW u \in Users
    PROVE  /\ \A status \in {"connected", "reconnect"} :
                SetStatus(u, status) \in [Users -> Row \cup {NoRow}]
           /\ \A w \in Watch : SetWatch(u, w) \in [Users -> Row \cup {NoRow}]
           /\ \A x \in Tokens : Upsert(u, x) \in [Users -> Row \cup {NoRow}]
<1>1. row[u] \in Row \cup {NoRow} /\ row \in [Users -> Row \cup {NoRow}]
  BY DEF RowsTyped
<1>2. Null \in Watch
  BY Bounds DEF Null, Watch
<1>3. ASSUME NEW status \in {"connected", "reconnect"}
      PROVE  SetStatus(u, status) \in [Users -> Row \cup {NoRow}]
  BY <1>1 DEF SetStatus, Row
<1>4. ASSUME NEW w \in Watch
      PROVE  SetWatch(u, w) \in [Users -> Row \cup {NoRow}]
  BY <1>1 DEF SetWatch, Row
<1>5. ASSUME NEW x \in Tokens
      PROVE  Upsert(u, x) \in [Users -> Row \cup {NoRow}]
  BY <1>1, <1>2 DEF Upsert, Row
<1>. QED
  BY <1>3, <1>4, <1>5

(* Every step keeps the types: one case per action of a thread.            *)
LEMMA ThreadTyped ==
    ASSUME TypeInv, NEW p \in Threads, Thread(p)
    PROVE  TypeInv'
<1>. USE Bounds
<1>. DEFINE t == th[p]
<1>1. /\ RowsTyped /\ ThreadsTyped /\ InboxTyped /\ issued \in Tokens
      /\ t \in Task /\ InHand(t)
      /\ Head \in 1..MaxMessages /\ Head \in Ids
  BY HeadTyped DEF TypeInv, ThreadsTyped
<1>2. /\ t.todo \in SUBSET Users /\ t.msgs \in SUBSET Ids /\ t.token \in Tokens
      /\ t.user \in Users \cup {Nobody} /\ t.seen \in [Users -> Watch]
      /\ t.pc \notin {"idle", "accounts", "next"} => t.user \in Users
  BY <1>1 DEF Task, InHand
<1>. HIDE DEF t
<1>3. ASSUME NEW label \in Labels \ {"idle", "accounts", "next"}, t.user \in Users, To(p, label)
      PROVE  ThreadsTyped'
  <2>1. [t EXCEPT !.pc = label] \in Task /\ InHand([t EXCEPT !.pc = label])
    BY <1>1, <1>3 DEF Task, InHand
  <2>2. th' = [th EXCEPT ![p] = [t EXCEPT !.pc = label]]
    BY <1>3, <1>1 DEF To, t, ThreadsTyped
  <2>. QED
    BY <2>1, <2>2, <1>1, BecomeTyped
<1>4. ASSUME NEW s \in Task, InHand(s), Become(p, s)
      PROVE  ThreadsTyped'
  BY <1>1, <1>4, BecomeTyped DEF Become
<1>5. Again(p) => ThreadsTyped'
  BY <1>1, AgainTyped
<1>6. UNCHANGED row => RowsTyped'
  BY <1>1 DEF RowsTyped
<1>7. UNCHANGED inbox => InboxTyped'
  BY <1>1 DEF InboxTyped
<1>8. CASE AccountsByEmail(p)
  <2>. DEFINE s == [t EXCEPT !.pc = "next", !.todo = Connected,
                  !.seen = [u \in Users |-> IF u \in Connected THEN row[u].watch ELSE Null]]
  <2>1. [u \in Users |-> IF u \in Connected THEN row[u].watch ELSE Null] \in [Users -> Watch]
    BY <1>1 DEF RowsTyped, Connected, Row, Null, Watch
  <2>2. s \in Task /\ InHand(s)
    BY <1>1, <2>1 DEF Task, Labels, InHand, Connected
  <2>3. Become(p, s)
    BY <1>8 DEF AccountsByEmail, t
  <2>. QED
    BY <1>8, <1>1, <2>2, <2>3, <1>4, <1>6, <1>7 DEF AccountsByEmail, TypeInv
<1>9. CASE ListHistory(p)
  <2>. DEFINE from == Start(t.seen[t.user], t.hist)
              s == [t EXCEPT !.pc = "ingest", !.upto = Head, !.msgs = Listed(from)]
  <2>1. t.user \in Users
    BY <1>9, <1>2 DEF ListHistory, At, t
  <2>2. from \in Ids
    BY <2>1, <1>1, <1>2 DEF Start, Watch, Task
  <2>3. Listed(from) \in SUBSET Ids
    BY <2>2, <1>1 DEF Listed, Ids
  <2>4. s \in Task /\ InHand(s)
    BY <1>1, <2>1, <2>3 DEF Task, Labels, InHand
  <2>5. Become(p, s) \/ Again(p)
    BY <1>9 DEF ListHistory, t
  <2>. QED
    BY <1>9, <1>1, <2>4, <2>5, <1>4, <1>5, <1>6, <1>7 DEF ListHistory, TypeInv
<1>10. CASE Ingest(p)
  <2>. DEFINE s == [t EXCEPT !.msgs = t.msgs \ {Min(t.msgs)}]
  <2>1. s \in Task /\ InHand(s)
    BY <1>1, <1>2, <1>10 DEF Task, InHand
  <2>2. Become(p, s)
    BY <1>10, <1>1 DEF Ingest, Become, t, ThreadsTyped
  <2>. QED
    BY <1>10, <1>1, <2>1, <2>2, <1>4, <1>6, <1>7 DEF Ingest, TypeInv
<1>11. CASE SaveHistory(p)
  <2>. DEFINE w == [t.seen[t.user] EXCEPT !.tracked = t.upto]
  <2>1. t.user \in Users
    BY <1>11, <1>2 DEF SaveHistory, At, t
  <2>2. w \in Watch
    BY <2>1, <1>1, <1>2 DEF Watch, Task
  <2>3. row' = SetWatch(t.user, w) /\ Again(p)
    BY <1>11 DEF SaveHistory, t
  <2>4. RowsTyped'
    BY <2>1, <2>2, <2>3, <1>1, RowWritten DEF RowsTyped
  <2>. QED
    BY <1>11, <1>1, <2>3, <2>4, <1>5, <1>7 DEF SaveHistory, TypeInv
<1>12. CASE NextAccount(p)
  <2>1. PICK u \in t.todo : Become(p, [t EXCEPT !.pc = "token", !.user = u, !.todo = t.todo \ {u}])
    BY <1>12, <1>1 DEF NextAccount, t, Become, ThreadsTyped
  <2>. DEFINE s == [t EXCEPT !.pc = "token", !.user = u, !.todo = t.todo \ {u}]
  <2>2. s \in Task /\ InHand(s)
    BY <1>1, <1>2 DEF Task, Labels, InHand
  <2>. QED
    BY <1>12, <1>1, <2>1, <2>2, <1>4, <1>6, <1>7 DEF NextAccount, TypeInv
<1>13. CASE SweepDone(p)
  <2>1. PICK s : Become(p, s) /\ s \in Task /\ InHand(s)
    <3>1. \A d \in SUBSET Users, y \in {"renew", "arm"} :
             LET x == [Idle EXCEPT !.pc = "next", !.why = y, !.todo = d]
             IN x \in Task /\ InHand(x)
      BY IdleTyped DEF Task, Labels, Reasons, InHand
    <3>2. CASE t.why = "refresh"
      <4>1. PICK due \in SUBSET {u \in Connected : row[u].watch # Null} :
               Become(p, [Idle EXCEPT !.pc = "next", !.why = "renew", !.todo = due])
        BY <1>13, <3>2 DEF SweepDone, t
      <4>2. due \in SUBSET Users
        BY DEF Connected
      <4>. QED
        BY <4>1, <4>2, <3>1
    <3>3. CASE t.why = "renew"
      <4>1. Unwatched \in SUBSET Users
        BY DEF Unwatched, Connected
      <4>. QED
        BY <1>13, <3>3, <4>1, <3>1 DEF SweepDone, t
    <3>4. CASE t.why \notin {"refresh", "renew"}
      BY <1>13, <3>4, IdleTyped DEF SweepDone, t
    <3>. QED
      BY <3>2, <3>3, <3>4
  <2>. QED
    BY <1>13, <1>1, <2>1, <1>4, <1>6, <1>7 DEF SweepDone, TypeInv
<1>14. CASE ValidAccessToken(p)
  <2>1. t.user \in Users
    BY <1>14, <1>2 DEF ValidAccessToken, At, t
  <2>2. \/ Again(p) /\ UNCHANGED row
        \/ To(p, "have") /\ UNCHANGED row
        \/ Again(p) /\ row' = SetStatus(t.user, "reconnect")
        \/ /\ row[t.user] \in Row /\ UNCHANGED row
           /\ Become(p, [t EXCEPT !.pc = "refresh", !.token = row[t.user].refresh])
    BY <1>14, <2>1, <1>1 DEF ValidAccessToken, t, RowsTyped
  <2>3. ThreadsTyped'
    <3>1. ASSUME row[t.user] \in Row
          PROVE  LET s == [t EXCEPT !.pc = "refresh", !.token = row[t.user].refresh]
                 IN s \in Task /\ InHand(s)
      BY <3>1, <1>1, <2>1 DEF Task, Labels, InHand, Row
    <3>2. "have" \in Labels \ {"idle", "accounts", "next"}
      BY DEF Labels
    <3>. QED
      BY <2>1, <2>2, <3>1, <3>2, <1>3, <1>4, <1>5
  <2>4. RowsTyped'
    BY <2>1, <2>2, <1>1, <1>6, RowWritten DEF RowsTyped
  <2>. QED
    BY <1>14, <1>1, <2>3, <2>4, <1>7 DEF ValidAccessToken, TypeInv
<1>15. CASE Refresh(p)
  <2>1. t.user \in Users
    BY <1>15, <1>2 DEF Refresh, At, t
  <2>2. issued' \in Tokens
    BY <1>15, <1>1 DEF Refresh, Tokens
  <2>3. /\ issued' \in Tokens
        /\ \/ To(p, "refused")
           \/ \E x \in Tokens : Become(p, [t EXCEPT !.pc = "refreshed", !.token = x])
    BY <1>15, <2>2 DEF Refresh, t
  <2>4. ASSUME NEW x \in Tokens
        PROVE  LET s == [t EXCEPT !.pc = "refreshed", !.token = x] IN s \in Task /\ InHand(s)
    BY <1>1, <2>1 DEF Task, Labels, InHand
  <2>5. "refused" \in Labels \ {"idle", "accounts", "next"}
    BY DEF Labels
  <2>. QED
    BY <1>15, <1>1, <2>1, <2>3, <2>4, <2>5, <1>3, <1>4, <1>6, <1>7 DEF Refresh, TypeInv
<1>16. CASE MarkReconnect(p)
  <2>1. t.user \in Users
    BY <1>16, <1>2 DEF MarkReconnect, At, t
  <2>2. row' = SetStatus(t.user, "reconnect") /\ Again(p)
    BY <1>16 DEF MarkReconnect, t
  <2>3. RowsTyped'
    BY <2>1, <2>2, <1>1, RowWritten DEF RowsTyped
  <2>. QED
    BY <1>16, <1>1, <2>2, <2>3, <1>5, <1>7 DEF MarkReconnect, TypeInv
<1>17. CASE SaveRefresh(p) \/ Connect(p)
  <2>1. t.user \in Users
    BY <1>17, <1>2 DEF SaveRefresh, Connect, At, t
  <2>2. row' = Upsert(t.user, t.token) /\ (To(p, "have") \/ To(p, "token"))
    BY <1>17 DEF SaveRefresh, Connect, t
  <2>3. RowsTyped'
    BY <2>1, <2>2, <1>1, <1>2, RowWritten DEF RowsTyped
  <2>4. {"have", "token"} \subseteq Labels \ {"idle", "accounts", "next"}
    BY DEF Labels
  <2>. QED
    BY <1>17, <1>1, <2>1, <2>2, <2>3, <2>4, <1>3, <1>7 DEF SaveRefresh, Connect, TypeInv
<1>18. CASE CallWatch(p)
  <2>1. t.user \in Users
    BY <1>18, <1>2 DEF CallWatch, At, t
  <2>2. Become(p, [t EXCEPT !.pc = "watched", !.upto = Head]) \/ Again(p)
    BY <1>18 DEF CallWatch, t
  <2>3. LET s == [t EXCEPT !.pc = "watched", !.upto = Head] IN s \in Task /\ InHand(s)
    BY <1>1, <2>1 DEF Task, Labels, InHand
  <2>. QED
    BY <1>18, <1>1, <2>2, <2>3, <1>4, <1>5, <1>6, <1>7 DEF CallWatch, TypeInv
<1>19. CASE SaveWatch(p)
  <2>1. t.user \in Users
    BY <1>19, <1>2 DEF SaveWatch, At, t
  <2>2. row' = SetWatch(t.user, [seed |-> t.upto, tracked |-> 0]) /\ Again(p)
    BY <1>19 DEF SaveWatch, t
  <2>3. [seed |-> t.upto, tracked |-> 0] \in Watch
    BY <1>1 DEF Watch, Task
  <2>4. RowsTyped'
    BY <2>1, <2>2, <2>3, <1>1, RowWritten DEF RowsTyped
  <2>. QED
    BY <1>19, <1>1, <2>2, <2>4, <1>5, <1>7 DEF SaveWatch, TypeInv
<1>20. CASE TokenUsed(p)
  BY <1>20, <1>1, <1>5, <1>6, <1>7 DEF TokenUsed, TypeInv
<1>21. CASE Exchange(p)
  <2>1. t.user \in Users
    BY <1>21, <1>2 DEF Exchange, At, t
  <2>2. issued' \in Tokens
    BY <1>21, <1>1 DEF Exchange, Tokens
  <2>3. Become(p, [t EXCEPT !.pc = "connect", !.token = issued']) \/ Become(p, Idle)
    BY <1>21 DEF Exchange, t
  <2>4. LET s == [t EXCEPT !.pc = "connect", !.token = issued'] IN s \in Task /\ InHand(s)
    BY <1>1, <2>1, <2>2 DEF Task, Labels, InHand
  <2>. QED
    BY <1>21, <1>1, <2>2, <2>3, <2>4, IdleTyped, <1>4, <1>6, <1>7 DEF Exchange, TypeInv
<1>22. CASE Revoke(p)
  <2>1. t.user \in Users /\ "delete" \in Labels \ {"idle", "accounts", "next"}
    BY <1>22, <1>2 DEF Revoke, At, t, Labels
  <2>. QED
    BY <1>22, <1>1, <2>1, <1>3, <1>6, <1>7 DEF Revoke, TypeInv
<1>23. CASE Delete(p)
  <2>1. RowsTyped'
    BY <1>23, <1>1 DEF Delete, RowsTyped
  <2>. QED
    BY <1>23, <1>1, <2>1, IdleTyped, <1>4, <1>7 DEF Delete, TypeInv
<1>24. CASE Unreadable(p)
  BY <1>24, <1>1, IdleTyped, <1>4, <1>5, <1>6, <1>7 DEF Unreadable, TypeInv
<1>. QED
  BY <1>8, <1>9, <1>10, <1>11, <1>12, <1>13, <1>14, <1>15, <1>16, <1>17, <1>18, <1>19, <1>20,
     <1>21, <1>22, <1>23, <1>24 DEF Thread

LEMMA MailArrivesTyped ==
    ASSUME TypeInv, MailArrives
    PROVE  /\ InboxTyped' /\ Head' = Head + 1
           /\ \A m \in 1..Head : inbox'[m] = inbox[m]
<1>1. /\ Head \in 1..MaxMessages /\ Head < MaxMessages
      /\ inbox \in [1..Head -> Users \cup {Nobody}]
  BY HeadTyped DEF TypeInv, MailArrives
<1>2. PICK of \in Users \cup {Nobody} :
         inbox' = [m \in 1..(Head + 1) |-> IF m <= Head THEN inbox[m] ELSE of]
  BY DEF MailArrives
<1>. DEFINE n == Head
            mails == [m \in 1..(n + 1) |-> IF m <= n THEN inbox[m] ELSE of]
<1>3. n + 1 \in 1..MaxMessages /\ n \in Nat /\ n + 1 \in Nat
  BY <1>1, Bounds
<1>4. mails \in [1..(n + 1) -> Users \cup {Nobody}] /\ DOMAIN mails = 1..(n + 1)
  BY <1>1, <1>3
<1>5. Cardinality(1..(n + 1)) = n + 1
  BY <1>3, FS_Interval
<1>6. InboxTyped'
  BY <1>2, <1>3, <1>4 DEF InboxTyped
<1>7. Head' = n + 1
  BY <1>2, <1>4, <1>5 DEF Head
<1>8. \A m \in 1..n : mails[m] = inbox[m]
  BY <1>3
<1>. QED
  BY <1>2, <1>6, <1>7, <1>8

(* A request or a sweep that begins was idle, and begins with no more than *)
(* the account and the token it was asked about.                           *)
Fresh(t) ==
    /\ t \in Task /\ InHand(t) /\ t.seen = Idle.seen
    /\ t.pc \in {"accounts", "next", "token", "exchange", "revoke"}
    /\ t.pc # "revoke" => t.token = 0
Starts(p) ==
    \E t : /\ Fresh(t) /\ t.pc # "revoke" /\ At(p, "idle") /\ Become(p, t)
           /\ UNCHANGED <<row, found, inbox, good, issued, consented, passed, crashes>>

LEMMA Starting ==
    ASSUME TypeInv, NEW p \in Threads
    PROVE  /\ \A h \in Ids : Push(p, h) => Starts(p)
           /\ \A u \in Users : ForOne(p, u) \/ Callback(p, u) => Starts(p)
           /\ p = Worker /\ Maintenance => Starts(p)
<1>1. ASSUME NEW h \in Ids, Push(p, h)
      PROVE  Starts(p)
  <2>. DEFINE t == [Idle EXCEPT !.pc = "accounts", !.why = "push", !.hist = h]
  <2>1. Fresh(t) /\ t.pc # "revoke"
    BY IdleTyped DEF Fresh, Task, Labels, Reasons, InHand
  <2>. QED
    BY <1>1, <2>1 DEF Push, Begin, Starts
<1>2. ASSUME NEW u \in Users, ForOne(p, u)
      PROVE  Starts(p)
  <2>1. PICK why \in {"send", "arm_route"} :
           Begin(p, [Idle EXCEPT !.pc = "token", !.why = why, !.user = u])
    BY <1>2 DEF ForOne
  <2>. DEFINE t == [Idle EXCEPT !.pc = "token", !.why = why, !.user = u]
  <2>2. Fresh(t) /\ t.pc # "revoke"
    BY IdleTyped DEF Fresh, Task, Labels, Reasons, InHand
  <2>. QED
    BY <1>2, <2>1, <2>2 DEF ForOne, Begin, Starts
<1>3. ASSUME NEW u \in Users, Callback(p, u)
      PROVE  Starts(p)
  <2>. DEFINE t == [Idle EXCEPT !.pc = "exchange", !.why = "connect", !.user = u]
  <2>1. Fresh(t) /\ t.pc # "revoke"
    BY IdleTyped DEF Fresh, Task, Labels, Reasons, InHand
  <2>. QED
    BY <1>3, <2>1 DEF Callback, Begin, Starts
<1>4. ASSUME p = Worker, Maintenance
      PROVE  Starts(p)
  <2>. DEFINE t == [Idle EXCEPT !.pc = "next", !.why = "refresh", !.todo = Expiring]
  <2>1. Expiring \in SUBSET Users
    BY DEF Expiring, Connected
  <2>2. Fresh(t) /\ t.pc # "revoke"
    BY <2>1, IdleTyped DEF Fresh, Task, Labels, Reasons, InHand
  <2>. QED
    BY <1>4, <2>2 DEF Maintenance, Begin, Starts
<1>. QED
  BY <1>1, <1>2, <1>3, <1>4

LEMMA Disconnecting ==
    ASSUME TypeInv, NEW p \in Threads, NEW u \in Users, Disconnect(p, u)
    PROVE  LET t == [Idle EXCEPT !.pc = "revoke", !.why = "disconnect", !.user = u,
                                 !.token = row[u].refresh]
           IN Fresh(t) /\ At(p, "idle") /\ Become(p, t) /\ row[u] # NoRow /\ row[u] \in Row
<1>1. row[u] # NoRow /\ row[u] \in Row /\ row[u].refresh \in Tokens
  BY DEF Disconnect, TypeInv, RowsTyped, Row
<1>2. Fresh([Idle EXCEPT !.pc = "revoke", !.why = "disconnect", !.user = u,
                         !.token = row[u].refresh])
  BY <1>1, IdleTyped DEF Fresh, Task, Labels, Reasons, InHand
<1>. QED
  BY <1>1, <1>2 DEF Disconnect, Begin

(* The steps of Next: a thread goes on, begins, asks to disconnect or dies,*)
(* a message arrives, a token ages.                                        *)
LEMMA Steps ==
    ASSUME TypeInv, Next
    PROVE  \/ \E p \in Threads : \/ Thread(p) \/ Starts(p) \/ Crash(p)
                                 \/ \E u \in Users : Disconnect(p, u)
           \/ MailArrives
           \/ \E u \in Users : TokenAges(u)
  BY Starting DEF Next, Threads

LEMMA TypeStep == TypeInv /\ [Next]_vars => TypeInv'
<1>. SUFFICES ASSUME TypeInv, [Next]_vars
              PROVE  TypeInv'
  OBVIOUS
<1>1. RowsTyped /\ ThreadsTyped /\ InboxTyped /\ issued \in Tokens
  BY DEF TypeInv
<1>2. UNCHANGED row => RowsTyped'
  BY <1>1 DEF RowsTyped
<1>3. UNCHANGED inbox => InboxTyped'
  BY <1>1 DEF InboxTyped
<1>4. UNCHANGED th => ThreadsTyped'
  BY <1>1 DEF ThreadsTyped
<1>5. ASSUME NEW p \in Threads, Starts(p)
      PROVE  TypeInv'
  BY <1>1, <1>2, <1>3, <1>5, BecomeTyped DEF Starts, Fresh, Become, TypeInv
<1>6. ASSUME NEW p \in Threads, Crash(p)
      PROVE  TypeInv'
  BY <1>1, <1>2, <1>3, <1>6, BecomeTyped, IdleTyped DEF Crash, Become, TypeInv
<1>7. ASSUME NEW p \in Threads, NEW u \in Users, Disconnect(p, u)
      PROVE  TypeInv'
  <2>1. PICK t : Fresh(t) /\ Become(p, t)
    BY <1>7, Disconnecting
  <2>. QED
    BY <1>1, <1>2, <1>3, <1>7, <2>1, BecomeTyped DEF Disconnect, Fresh, Become, TypeInv
<1>8. CASE MailArrives
  BY <1>1, <1>2, <1>4, <1>8, MailArrivesTyped DEF MailArrives, TypeInv
<1>9. ASSUME NEW u \in Users, TokenAges(u)
      PROVE  TypeInv'
  <2>1. RowsTyped'
    BY <1>1, <1>9 DEF TokenAges, RowsTyped, Row
  <2>. QED
    BY <1>1, <1>3, <1>4, <1>9, <2>1 DEF TokenAges, TypeInv
<1>10. CASE UNCHANGED vars
  BY <1>1, <1>2, <1>3, <1>4, <1>10 DEF vars, TypeInv
<1>. QED
  BY <1>5, <1>6, <1>7, <1>8, <1>9, <1>10, Steps, ThreadTyped

LEMMA TypeInit == Init => TypeInv
<1>. SUFFICES ASSUME Init
              PROVE  TypeInv
  OBVIOUS
<1>. USE Bounds
<1>1. RowsTyped
  <2>1. [refresh |-> 1, fresh |-> TRUE, status |-> "connected",
         watch |-> [seed |-> 1, tracked |-> 0]] \in Row
    BY DEF Row, Watch
  <2>. QED
    BY <2>1 DEF Init, RowsTyped
<1>2. ThreadsTyped
  BY IdleTyped DEF Init, ThreadsTyped
<1>3. InboxTyped
  BY DEF Init, InboxTyped
<1>4. issued \in Tokens
  BY FS_EmptySet, FS_Singleton DEF Init
<1>. QED
  BY <1>1, <1>2, <1>3, <1>4 DEF TypeInv

(***************************************************************************)
(* NothingSkipped                                                          *)
(***************************************************************************)

LEMMA WorldFields ==
    /\ World.inbox = inbox /\ World.found = found /\ World.passed = passed
    /\ Length(World) = Head
    /\ World'.inbox = inbox' /\ World'.found = found' /\ World'.passed = passed'
    /\ Length(World') = Head'
  BY DEF World, Length, Head

(* What a world has read stays read in a later one.                        *)
Later ==
    /\ Head \in Nat /\ Head' \in Nat /\ Head <= Head'
    /\ \A m \in 1..Head : inbox'[m] = inbox[m]
    /\ found \subseteq found' /\ passed \subseteq passed'

LEMMA CoversLater ==
    ASSUME Later, NEW u, NEW w \in Watch, Covers(u, w, World)
    PROVE  Covers(u, w, World')
<1>1. w.seed \in Nat /\ w.tracked \in Nat /\ Head \in Nat /\ Head' \in Nat /\ Head <= Head'
  BY Bounds DEF Watch, Ids, Later
<1>2. w.seed <= Head /\ w.tracked <= Head
  BY WorldFields DEF Covers
<1>3. w.seed <= Head' /\ w.tracked <= Head'
  BY <1>1, <1>2
<1>4. ASSUME NEW m \in 1..Start(w, 0), inbox'[m] = u
      PROVE  Read(u, m, World')
  <2>1. m \in 1..Head
    BY <1>1, <1>2 DEF Start
  <2>2. Read(u, m, World)
    BY <2>1, <1>4, WorldFields DEF Later, Covers, Behind
  <2>. QED
    BY <2>2, WorldFields DEF Read, Later
<1>. QED
  BY <1>3, <1>4, WorldFields DEF Covers, Behind

LEMMA CarefulLater ==
    ASSUME Later, NEW t \in Task, Careful(t, World)
    PROVE  Careful(t, World')
<1>1. SeenCovers(t, World')
  BY CoversLater DEF Careful, SeenCovers, Task
<1>2. ASSUME t.pc = "ingest"
      PROVE  /\ t.upto \in 1..Head'
             /\ \A m \in 1..t.upto :
                   inbox'[m] = t.user => Read(t.user, m, World') \/ m \in t.msgs
  <2>1. /\ t.upto \in 1..Head
        /\ \A m \in 1..t.upto : inbox[m] = t.user => Read(t.user, m, World) \/ m \in t.msgs
    BY <1>2, WorldFields DEF Careful, Ingesting
  <2>2. t.upto \in 1..Head'
    BY <2>1 DEF Later
  <2>3. ASSUME NEW m \in 1..t.upto, inbox'[m] = t.user
        PROVE  Read(t.user, m, World') \/ m \in t.msgs
    <3>1. m \in 1..Head
      BY <2>1 DEF Later
    <3>2. Read(t.user, m, World) \/ m \in t.msgs
      BY <2>1, <2>3, <3>1 DEF Later
    <3>. QED
      BY <3>2, WorldFields DEF Read, Later
  <2>. QED
    BY <2>2, <2>3
<1>3. t.pc = "watched" => t.upto <= Head'
  BY WorldFields, Bounds DEF Careful, Watching, Later, Task, Ids
<1>. QED
  BY <1>1, <1>2, <1>3, WorldFields DEF Careful, Ingesting, Watching

LEMMA NullCovers ==
    ASSUME NEW u, NEW W, Length(W) \in Nat
    PROVE  Covers(u, Null, W)
  BY DEF Covers, Null, Start, Behind

(* The rows of a step that starts no watch and tracks no id.               *)
KeepsWatch ==
    \A u \in Users : row'[u] # NoRow =>
        \/ row'[u].watch = Null
        \/ row[u] # NoRow /\ row'[u].watch = row[u].watch

LEMMA RowsKept ==
    ASSUME RowsTyped, RowCovers, Later, KeepsWatch
    PROVE  RowCovers'
<1>. SUFFICES ASSUME NEW u \in Users, row'[u] # NoRow
              PROVE  Covers(u, row'[u].watch, World')
  BY DEF RowCovers
<1>1. CASE row'[u].watch = Null
  BY <1>1, NullCovers, WorldFields DEF Later
<1>2. CASE row[u] # NoRow /\ row'[u].watch = row[u].watch
  <2>1. row[u].watch \in Watch /\ Covers(u, row[u].watch, World)
    BY <1>2 DEF RowsTyped, Row, RowCovers
  <2>. QED
    BY <1>2, <2>1, CoversLater
<1>. QED
  BY <1>1, <1>2 DEF KeepsWatch

LEMMA WritesKeepWatch ==
    ASSUME RowsTyped, NEW u \in Users,
           \/ UNCHANGED row
           \/ \E status : row' = SetStatus(u, status)
           \/ \E x : row' = Upsert(u, x)
           \/ row' = [row EXCEPT ![u] = NoRow]
    PROVE  KeepsWatch
<1>. USE DEF RowsTyped
<1>1. CASE UNCHANGED row
  BY <1>1 DEF KeepsWatch
<1>2. ASSUME NEW status, row' = SetStatus(u, status)
      PROVE  KeepsWatch
  BY <1>2 DEF KeepsWatch, SetStatus, Row
<1>3. ASSUME NEW x, row' = Upsert(u, x)
      PROVE  KeepsWatch
  BY <1>3 DEF KeepsWatch, Upsert, Row
<1>4. CASE row' = [row EXCEPT ![u] = NoRow]
  BY <1>4 DEF KeepsWatch
<1>. QED
  BY <1>1, <1>2, <1>3, <1>4

(* The thread of a step that has read no new watch and lists nothing.      *)
Plain(p, t) ==
    /\ t \in Task /\ t.pc \notin {"ingest", "watched"}
    /\ t.seen \in {Idle.seen, th[p].seen}

LEMMA ThreadsKept ==
    ASSUME ThreadsTyped, ThreadCovers, Later, NEW p \in Threads, NEW t,
           th' = [th EXCEPT ![p] = t],
           \/ Plain(p, t)
           \/ t \in Task /\ Careful(t, World')
    PROVE  ThreadCovers'
<1>1. th \in [Threads -> Task] /\ \A q \in Threads : th[q] \in Task /\ Careful(th[q], World)
  BY DEF ThreadsTyped, ThreadCovers
<1>2. ASSUME Plain(p, t)
      PROVE  Careful(t, World')
  <2>1. SeenCovers(th[p], World')
    BY <1>1, CarefulLater DEF Careful
  <2>2. SeenCovers(Idle, World')
    BY IdleTyped, NullCovers, WorldFields DEF SeenCovers, Later
  <2>3. SeenCovers(t, World')
    BY <1>2, <2>1, <2>2 DEF Plain, SeenCovers
  <2>. QED
    BY <1>2, <2>3 DEF Plain, Careful, Ingesting, Watching
<1>3. ASSUME NEW q \in Threads
      PROVE  Careful(th'[q], World')
  <2>1. CASE q = p
    BY <2>1, <1>1, <1>2
  <2>2. CASE q # p
    BY <2>2, <1>1, CarefulLater
  <2>. QED
    BY <2>1, <2>2
<1>. QED
  BY <1>3 DEF ThreadCovers

LEMMA RestsPlain ==
    ASSUME ThreadsTyped, NEW p \in Threads, Again(p)
    PROVE  \E t : Plain(p, t) /\ th' = [th EXCEPT ![p] = t]
  BY AgainRests DEF Rests, Plain

LEMMA PlainMoves ==
    ASSUME TypeInv, TypeInv', NEW p \in Threads,
           \/ NextAccount(p) \/ SweepDone(p) \/ ValidAccessToken(p) \/ Refresh(p) \/ Unreadable(p)
           \/ MarkReconnect(p) \/ SaveRefresh(p) \/ TokenUsed(p) \/ Exchange(p)
           \/ Connect(p) \/ Revoke(p) \/ Delete(p)
    PROVE  \E t : Plain(p, t) /\ th' = [th EXCEPT ![p] = t]
<1>1. ThreadsTyped /\ ThreadsTyped' /\ th \in [Threads -> Task] /\ th' \in [Threads -> Task]
  BY DEF TypeInv, ThreadsTyped
<1>2. th[p] \in Task /\ DOMAIN th[p].seen = Users
  BY <1>1 DEF Task
<1>3. Again(p) => \E t : Plain(p, t) /\ th' = [th EXCEPT ![p] = t]
  BY <1>1, RestsPlain
<1>4. ASSUME NEW t, th' = [th EXCEPT ![p] = t], t.pc \notin {"ingest", "watched"},
             t.seen \in {Idle.seen, th[p].seen}
      PROVE  \E s : Plain(p, s) /\ th' = [th EXCEPT ![p] = s]
  <2>1. t \in Task
    BY <1>1, <1>4
  <2>. QED
    BY <1>4, <2>1 DEF Plain
<1>5. ASSUME NEW label \in {"have", "token", "refused", "delete"}, To(p, label)
      PROVE  \E s : Plain(p, s) /\ th' = [th EXCEPT ![p] = s]
  <2>1. LET t == [th[p] EXCEPT !.pc = label]
        IN th' = [th EXCEPT ![p] = t] /\ t.pc = label /\ t.seen = th[p].seen
    BY <1>1, <1>2, <1>5 DEF To, Task
  <2>. QED
    BY <2>1, <1>4
<1>6. ASSUME NEW label \in {"token", "refresh", "refreshed", "connect", "next"}, NEW t,
             Become(p, [t EXCEPT !.pc = label]), t.seen \in {Idle.seen, th[p].seen}, t \in Task
      PROVE  \E s : Plain(p, s) /\ th' = [th EXCEPT ![p] = s]
  BY <1>6, <1>4 DEF Become, Task
<1>7. Become(p, Idle) => \E s : Plain(p, s) /\ th' = [th EXCEPT ![p] = s]
  BY IdleTyped DEF Become, Plain
<1>8. CASE NextAccount(p)
  <2>1. PICK u : Become(p, [th[p] EXCEPT !.pc = "token", !.user = u, !.todo = @ \ {u}])
    BY <1>8 DEF NextAccount
  <2>. DEFINE t == [th[p] EXCEPT !.pc = "token", !.user = u, !.todo = @ \ {u}]
  <2>2. t.pc = "token" /\ t.seen = th[p].seen
    BY <1>2 DEF Task
  <2>. QED
    BY <2>1, <2>2, <1>4 DEF Become
<1>9. CASE SweepDone(p)
  <2>1. \/ Become(p, Idle)
        \/ \E due, y : Become(p, [Idle EXCEPT !.pc = "next", !.why = y, !.todo = due])
    BY <1>9 DEF SweepDone
  <2>2. \A due, y : LET t == [Idle EXCEPT !.pc = "next", !.why = y, !.todo = due]
                    IN t.pc = "next" /\ t.seen = Idle.seen
    BY DEF Idle
  <2>. QED
    BY <2>1, <2>2, <1>4, <1>7 DEF Become
<1>10. CASE ValidAccessToken(p)
  <2>1. \/ Again(p) \/ To(p, "have")
        \/ \E x : Become(p, [th[p] EXCEPT !.pc = "refresh", !.token = x])
    BY <1>10 DEF ValidAccessToken
  <2>2. \A x : LET t == [th[p] EXCEPT !.pc = "refresh", !.token = x]
               IN t.pc = "refresh" /\ t.seen = th[p].seen
    BY <1>2 DEF Task
  <2>. QED
    BY <2>1, <2>2, <1>3, <1>4, <1>5 DEF Become
<1>11. CASE Refresh(p)
  <2>1. \/ To(p, "refused")
        \/ \E x : Become(p, [th[p] EXCEPT !.pc = "refreshed", !.token = x])
    BY <1>11 DEF Refresh
  <2>2. \A x : LET t == [th[p] EXCEPT !.pc = "refreshed", !.token = x]
               IN t.pc = "refreshed" /\ t.seen = th[p].seen
    BY <1>2 DEF Task
  <2>. QED
    BY <2>1, <2>2, <1>4, <1>5 DEF Become
<1>12. CASE MarkReconnect(p) \/ TokenUsed(p) \/ Unreadable(p)
  BY <1>12, <1>3, <1>7 DEF MarkReconnect, TokenUsed, Unreadable
<1>13. CASE SaveRefresh(p) \/ Connect(p) \/ Revoke(p)
  BY <1>13, <1>5 DEF SaveRefresh, Connect, Revoke
<1>14. CASE Exchange(p)
  <2>1. \/ Become(p, Idle)
        \/ \E x : Become(p, [th[p] EXCEPT !.pc = "connect", !.token = x])
    BY <1>14 DEF Exchange
  <2>2. \A x : LET t == [th[p] EXCEPT !.pc = "connect", !.token = x]
               IN t.pc = "connect" /\ t.seen = th[p].seen
    BY <1>2 DEF Task
  <2>. QED
    BY <2>1, <2>2, <1>4, <1>7 DEF Become
<1>15. CASE Delete(p)
  BY <1>15, <1>7 DEF Delete
<1>. QED
  BY <1>8, <1>9, <1>10, <1>11, <1>12, <1>13, <1>14, <1>15

LEMMA SkipThread ==
    ASSUME TypeInv, TypeInv', SkipInv, NEW p \in Threads, Thread(p)
    PROVE  SkipInv'
<1>. USE Bounds
<1>. DEFINE t == th[p]
<1>1. /\ RowsTyped /\ ThreadsTyped /\ InboxTyped /\ RowCovers /\ ThreadCovers
      /\ t \in Task /\ InHand(t) /\ Careful(t, World)
      /\ Head \in 1..MaxMessages /\ Head \in Ids /\ Head \in Nat /\ th \in [Threads -> Task]
  BY HeadTyped DEF TypeInv, ThreadsTyped, SkipInv, ThreadCovers
<1>2. inbox' = inbox
  BY DEF Thread, AccountsByEmail, ListHistory, Ingest, SaveHistory, NextAccount, SweepDone,
         ValidAccessToken, Refresh, Unreadable, MarkReconnect, SaveRefresh, CallWatch, SaveWatch, TokenUsed,
         Exchange, Connect, Revoke, Delete
<1>3. found \subseteq found' /\ passed \subseteq passed'
  BY DEF Thread, AccountsByEmail, ListHistory, Ingest, SaveHistory, NextAccount, SweepDone,
         ValidAccessToken, Refresh, Unreadable, MarkReconnect, SaveRefresh, CallWatch, SaveWatch, TokenUsed,
         Exchange, Connect, Revoke, Delete
<1>4. Later /\ Head' = Head
  BY <1>1, <1>2, <1>3 DEF Later, Head
<1>. HIDE DEF t
<1>5. ASSUME NEW s \in Task, Careful(s, World'), Become(p, s), UNCHANGED row
      PROVE  SkipInv'
  BY <1>1, <1>4, <1>5, ThreadsKept, RowsKept DEF Become, SkipInv, KeepsWatch
<1>6. ASSUME Again(p)
      PROVE  ThreadCovers'
  <2>1. PICK s : Plain(p, s) /\ th' = [th EXCEPT ![p] = s]
    BY <1>1, <1>6, RestsPlain
  <2>. QED
    BY <2>1, <1>1, <1>4, ThreadsKept
<1>7. KeepsWatch => RowCovers'
  BY <1>1, <1>4, RowsKept
<1>8. ASSUME NEW w \in Watch, row' = SetWatch(t.user, w), t.user \in Users,
             Covers(t.user, w, World')
      PROVE  RowCovers'
  <2>. SUFFICES ASSUME NEW u \in Users, row'[u] # NoRow
                PROVE  Covers(u, row'[u].watch, World')
    BY DEF RowCovers
  <2>1. CASE u = t.user
    <3>1. row'[u].watch = w
      BY <1>8, <2>1, <1>1 DEF SetWatch, RowsTyped, Row
    <3>. QED
      BY <3>1, <2>1, <1>8
  <2>2. CASE u # t.user
    <3>1. row'[u] = row[u] /\ row[u].watch \in Watch /\ Covers(u, row[u].watch, World)
      BY <1>8, <2>2, <1>1 DEF SetWatch, RowsTyped, Row, RowCovers
    <3>. QED
      BY <3>1, <1>4, CoversLater
  <2>. QED
    BY <2>1, <2>2
<1>9. CASE AccountsByEmail(p)
  <2>. DEFINE seen == [u \in Users |-> IF u \in Connected THEN row[u].watch ELSE Null]
              s == [t EXCEPT !.pc = "next", !.todo = Connected, !.seen = seen]
  <2>1. Become(p, s) /\ UNCHANGED row
    BY <1>9 DEF AccountsByEmail, t
  <2>2. s.pc = "next" /\ s.seen = seen
    BY <1>1 DEF Task
  <2>3. s \in Task
    BY <2>1, <1>1 DEF TypeInv, ThreadsTyped, Become
  <2>4. ASSUME NEW u \in Users
        PROVE  Covers(u, seen[u], World')
    <3>1. CASE u \in Connected
      <4>1. row[u] # NoRow /\ row[u].watch \in Watch /\ Covers(u, row[u].watch, World)
        BY <3>1, <1>1 DEF Connected, RowsTyped, Row, RowCovers
      <4>. QED
        BY <3>1, <4>1, <1>4, CoversLater
    <3>2. CASE u \notin Connected
      BY <3>2, <1>4, NullCovers, WorldFields DEF Later
    <3>. QED
      BY <3>1, <3>2
  <2>5. Careful(s, World')
    BY <2>2, <2>4 DEF Careful, SeenCovers, Ingesting, Watching
  <2>. QED
    BY <2>1, <2>3, <2>5, <1>5
<1>10. CASE ListHistory(p)
  <2>. DEFINE w == t.seen[t.user]
              from == Start(w, t.hist)
              s == [t EXCEPT !.pc = "ingest", !.upto = Head, !.msgs = Listed(from)]
              late == Passing("page", Skipped(Head) \ (1..(from + PageSize)))
              early == IF w = Null THEN Passing("start", Skipped(from)) ELSE {}
  <2>1. t.user \in Users /\ UNCHANGED <<row, found>>
    BY <1>10, <1>1 DEF ListHistory, At, t, InHand
  <2>2. \/ Again(p)
        \/ /\ Become(p, s)
           /\ passed' = passed \cup late \cup early
    BY <1>10 DEF ListHistory, t
  <2>3. CASE Again(p)
    BY <2>1, <2>3, <1>6, <1>7 DEF KeepsWatch, SkipInv
  <2>4. CASE Become(p, s) /\ passed' = passed \cup late \cup early
    <3>1. s \in Task
      BY <2>4, <1>1 DEF TypeInv, ThreadsTyped, Become
    <3>2. /\ s.pc = "ingest" /\ s.upto = Head /\ s.msgs = Listed(from) /\ s.seen = t.seen
          /\ s.user = t.user
      BY <1>1 DEF Task
    <3>3. w \in Watch /\ Covers(t.user, w, World) /\ from \in Nat
      BY <1>1, <2>1 DEF Task, Careful, SeenCovers, Start, Watch, Ids
    <3>4. SeenCovers(s, World')
      BY <3>2, <1>1, <1>4, CarefulLater DEF Careful, SeenCovers
    <3>5. ASSUME NEW m \in 1..Head, inbox'[m] = t.user, m \notin Listed(from)
          PROVE  Read(t.user, m, World')
      <4>1. /\ m \in 1..from \/ (m \in 1..Head /\ m \notin 1..(from + PageSize))
            /\ inbox[m] = t.user /\ t.user # Nobody
        BY <2>1, <3>3, <3>5, <1>1, <1>2 DEF Listed
      <4>2. CASE m \in 1..Head /\ m \notin 1..(from + PageSize)
        <5>1. <<t.user, m>> \in found \/ m \in Skipped(Head) \ (1..(from + PageSize))
          BY <4>1, <4>2 DEF Skipped
        <5>2. <<t.user, m>> \in found \/ <<"page", m>> \in late
          BY <5>1 DEF Passing
        <5>. QED
          BY <5>2, <2>1, <2>4, WorldFields DEF Read, Causes
      <4>3. CASE m \in 1..from /\ w = Null
        <5>1. <<t.user, m>> \in found \/ m \in Skipped(from)
          BY <4>1, <4>3 DEF Skipped
        <5>2. <<t.user, m>> \in found \/ <<"start", m>> \in early
          BY <5>1, <4>3 DEF Passing
        <5>. QED
          BY <5>2, <2>1, <2>4, WorldFields DEF Read, Causes
      <4>4. CASE m \in 1..from /\ w # Null
        <5>1. from = Start(w, 0)
          BY <4>4, <3>3 DEF Watch, Null, Start
        <5>2. Read(t.user, m, World)
          BY <3>3, <4>1, <4>4, <5>1, WorldFields DEF Covers, Behind
        <5>. QED
          BY <5>2, <1>3, WorldFields DEF Read
      <4>. QED
        BY <4>1, <4>2, <4>3, <4>4
    <3>6. Careful(s, World')
      BY <3>2, <3>4, <3>5, <1>1, <1>4, WorldFields DEF Careful, Ingesting, Watching
    <3>. QED
      BY <2>1, <2>4, <3>1, <3>6, <1>5
  <2>. QED
    BY <2>2, <2>3, <2>4
<1>11. CASE Ingest(p)
  <2>. DEFINE m == Min(t.msgs)
              s == [t EXCEPT !.msgs = t.msgs \ {m}]
  <2>1. /\ Become(p, s) /\ UNCHANGED row /\ t.pc = "ingest"
        /\ found' = IF inbox[m] = t.user THEN found \cup {<<t.user, m>>} ELSE found
    BY <1>11, <1>1 DEF Ingest, t, Become, At
  <2>. HIDE DEF m
  <2>2. s \in Task
    BY <2>1, <1>1 DEF TypeInv, ThreadsTyped, Become
  <2>3. s.pc = t.pc /\ s.upto = t.upto /\ s.user = t.user /\ s.seen = t.seen /\ s.msgs = t.msgs \ {m}
    BY <1>1 DEF Task
  <2>4. Careful(t, World')
    BY <1>1, <1>4, CarefulLater
  <2>5. ASSUME NEW k \in 1..t.upto, inbox'[k] = t.user
        PROVE  Read(t.user, k, World') \/ k \in s.msgs
    <3>1. Read(t.user, k, World') \/ k \in t.msgs
      BY <2>1, <2>4, <2>5, WorldFields DEF Careful, Ingesting
    <3>2. k = m => Read(t.user, k, World')
      BY <2>1, <2>5, <1>2, WorldFields DEF Read
    <3>. QED
      BY <3>1, <3>2, <2>3
  <2>6. Careful(s, World')
    BY <2>1, <2>3, <2>4, <2>5, WorldFields DEF Careful, SeenCovers, Ingesting, Watching
  <2>. QED
    BY <2>1, <2>2, <2>6, <1>5
<1>12. CASE SaveHistory(p)
  <2>. DEFINE v == t.seen[t.user]
              w == [v EXCEPT !.tracked = t.upto]
  <2>1. /\ t.user \in Users /\ t.pc = "ingest" /\ t.msgs = {}
        /\ row' = SetWatch(t.user, w) /\ Again(p)
    BY <1>12, <1>1 DEF SaveHistory, At, t, InHand
  <2>2. /\ v \in Watch /\ v.seed <= Head
        /\ t.upto \in 1..Head /\ t.upto \in Ids
        /\ \A m \in 1..t.upto : inbox[m] = t.user => Read(t.user, m, World)
    BY <2>1, <1>1, WorldFields DEF Careful, SeenCovers, Covers, Ingesting, Task
  <2>3. w \in Watch /\ w.seed = v.seed /\ w.tracked = t.upto /\ Start(w, 0) = t.upto
    BY <2>2 DEF Watch, Start
  <2>4. Covers(t.user, w, World)
    BY <2>2, <2>3, WorldFields DEF Covers, Behind
  <2>5. Covers(t.user, w, World')
    BY <2>3, <2>4, <1>4, CoversLater
  <2>. QED
    BY <2>1, <2>3, <2>5, <1>6, <1>8 DEF SkipInv
<1>13. CASE CallWatch(p)
  <2>. DEFINE s == [t EXCEPT !.pc = "watched", !.upto = Head]
  <2>1. UNCHANGED row /\ (Become(p, s) \/ Again(p))
    BY <1>13 DEF CallWatch, t
  <2>2. CASE Again(p)
    BY <2>1, <2>2, <1>6, <1>7 DEF KeepsWatch, SkipInv
  <2>3. CASE Become(p, s)
    <3>1. s \in Task
      BY <2>3, <1>1 DEF TypeInv, ThreadsTyped, Become
    <3>2. s.pc = "watched" /\ s.upto = Head /\ s.seen = t.seen
      BY <1>1 DEF Task
    <3>3. Careful(s, World')
      BY <3>2, <1>1, <1>4, CarefulLater, WorldFields
         DEF Careful, SeenCovers, Ingesting, Watching
    <3>. QED
      BY <2>1, <2>3, <3>1, <3>3, <1>5
  <2>. QED
    BY <2>1, <2>2, <2>3
<1>14. CASE SaveWatch(p)
  <2>. DEFINE w == [seed |-> t.upto, tracked |-> 0]
  <2>1. /\ t.user \in Users /\ t.pc = "watched" /\ row' = SetWatch(t.user, w) /\ Again(p)
        /\ \E c \in Causes : passed' = passed \cup Passing(c, Skipped(t.upto))
        /\ UNCHANGED found
    BY <1>14, <1>1 DEF SaveWatch, At, t, InHand, Causes
  <2>2. t.upto \in Ids /\ t.upto <= Head
    BY <2>1, <1>1, WorldFields DEF Careful, Watching, Task
  <2>3. w \in Watch /\ w.seed = t.upto /\ w.tracked = 0 /\ Start(w, 0) = t.upto
    BY <2>2 DEF Watch, Start
  <2>. HIDE DEF w
  <2>4. ASSUME NEW m \in 1..t.upto, inbox'[m] = t.user
        PROVE  Read(t.user, m, World')
    <3>1. t.user # Nobody
      BY <2>1
    <3>2. <<t.user, m>> \in found \/ m \in Skipped(t.upto)
      BY <2>4, <3>1, <1>2 DEF Skipped
    <3>3. PICK c \in Causes : passed' = passed \cup Passing(c, Skipped(t.upto))
      BY <2>1
    <3>4. <<t.user, m>> \in found \/ <<c, m>> \in passed'
      BY <3>2, <3>3 DEF Passing
    <3>. QED
      BY <3>4, <2>1, WorldFields DEF Read
  <2>5. Covers(t.user, w, World')
    BY <2>2, <2>3, <2>4, <1>1, <1>4, WorldFields DEF Covers, Behind, Ids
  <2>. QED
    BY <2>1, <2>3, <2>5, <1>6, <1>8 DEF SkipInv
<1>15. CASE \/ NextAccount(p) \/ SweepDone(p) \/ ValidAccessToken(p) \/ Refresh(p) \/ Unreadable(p)
            \/ MarkReconnect(p) \/ SaveRefresh(p) \/ TokenUsed(p) \/ Exchange(p)
            \/ Connect(p) \/ Revoke(p) \/ Delete(p)
  <2>1. ThreadCovers'
    <3>1. PICK s : Plain(p, s) /\ th' = [th EXCEPT ![p] = s]
      BY <1>15, PlainMoves
    <3>. QED
      BY <3>1, <1>1, <1>4, ThreadsKept
  <2>2. KeepsWatch
    <3>1. UNCHANGED row => KeepsWatch
      BY DEF KeepsWatch
    <3>2. ASSUME ~UNCHANGED row
          PROVE  /\ t.user \in Users
                 /\ \/ \E status : row' = SetStatus(t.user, status)
                    \/ \E x : row' = Upsert(t.user, x)
                    \/ row' = [row EXCEPT ![t.user] = NoRow]
      <4>1. t.pc \notin {"idle", "accounts", "next"}
        BY <1>15, <3>2 DEF NextAccount, SweepDone, ValidAccessToken, Refresh, Unreadable, MarkReconnect,
               SaveRefresh, TokenUsed, Exchange, Connect, Revoke, Delete, At, t
      <4>2. t.user \in Users
        BY <4>1, <1>1 DEF InHand
      <4>. QED
        BY <1>15, <3>2, <4>2 DEF NextAccount, SweepDone, ValidAccessToken, Refresh, Unreadable, MarkReconnect,
               SaveRefresh, TokenUsed, Exchange, Connect, Revoke, Delete, t
    <3>. QED
      BY <3>1, <3>2, <1>1, WritesKeepWatch
  <2>. QED
    BY <2>1, <2>2, <1>7 DEF SkipInv
<1>. QED
  BY <1>9, <1>10, <1>11, <1>12, <1>13, <1>14, <1>15 DEF Thread

LEMMA SkipStep == TypeInv /\ SkipInv /\ [Next]_vars => SkipInv'
<1>. SUFFICES ASSUME TypeInv, SkipInv, [Next]_vars
              PROVE  SkipInv'
  OBVIOUS
<1>. USE Bounds
<1>1. /\ TypeInv' /\ RowsTyped /\ ThreadsTyped /\ InboxTyped /\ RowCovers /\ ThreadCovers
      /\ Head \in Nat
  BY HeadTyped, TypeStep DEF TypeInv, SkipInv
<1>2. UNCHANGED <<inbox, found, passed>> => Later
  BY <1>1 DEF Later, Head
<1>3. ASSUME NEW p \in Threads, NEW t, Fresh(t) \/ t = Idle, Become(p, t), Later, UNCHANGED row
      PROVE  SkipInv'
  <2>1. Plain(p, t)
    BY <1>3, IdleTyped DEF Fresh, Plain
  <2>2. ThreadCovers'
    BY <1>1, <1>3, <2>1, ThreadsKept DEF Become
  <2>3. RowCovers'
    BY <1>1, <1>3, RowsKept DEF KeepsWatch
  <2>. QED
    BY <2>2, <2>3 DEF SkipInv
<1>4. ASSUME Later, UNCHANGED th, KeepsWatch
      PROVE  SkipInv'
  <2>1. ASSUME NEW p \in Threads
        PROVE  Careful(th'[p], World')
    BY <1>1, <1>4, CarefulLater DEF ThreadsTyped, ThreadCovers
  <2>2. RowCovers'
    BY <1>1, <1>4, RowsKept
  <2>. QED
    BY <2>1, <2>2 DEF SkipInv, ThreadCovers
<1>5. ASSUME NEW p \in Threads, Starts(p)
      PROVE  SkipInv'
  BY <1>2, <1>3, <1>5 DEF Starts
<1>6. ASSUME NEW p \in Threads, Crash(p)
      PROVE  SkipInv'
  BY <1>2, <1>3, <1>6 DEF Crash
<1>7. ASSUME NEW p \in Threads, NEW u \in Users, Disconnect(p, u)
      PROVE  SkipInv'
  <2>1. PICK t : Fresh(t) /\ Become(p, t)
    BY <1>7, Disconnecting
  <2>. QED
    BY <1>2, <1>3, <1>7, <2>1 DEF Disconnect
<1>8. CASE MailArrives
  <2>1. Later
    BY <1>1, <1>8, MailArrivesTyped DEF Later, MailArrives
  <2>. QED
    BY <1>4, <1>8, <2>1 DEF MailArrives, KeepsWatch
<1>9. ASSUME NEW u \in Users, TokenAges(u)
      PROVE  SkipInv'
  <2>1. KeepsWatch
    BY <1>1, <1>9 DEF TokenAges, KeepsWatch, RowsTyped, Row
  <2>. QED
    BY <1>2, <1>4, <1>9, <2>1 DEF TokenAges
<1>10. CASE UNCHANGED vars
  BY <1>2, <1>4, <1>10 DEF vars, KeepsWatch
<1>. QED
  BY <1>1, <1>5, <1>6, <1>7, <1>8, <1>9, <1>10, Steps, SkipThread

LEMMA SkipInit == Init => SkipInv
<1>. SUFFICES ASSUME Init
              PROVE  SkipInv
  OBVIOUS
<1>. USE Bounds
<1>1. inbox \in [1..1 -> {Nobody}] /\ inbox[1] = Nobody
  BY DEF Init
<1>2. Head = 1
  BY <1>1, HeadIsLength
<1>3. ASSUME NEW u \in Users
      PROVE  Covers(u, [seed |-> 1, tracked |-> 0], World)
  BY <1>1, <1>2, WorldFields DEF Covers, Start, Behind
<1>4. RowCovers
  BY <1>3 DEF RowCovers, Init
<1>5. SeenCovers(Idle, World)
  BY <1>2, IdleTyped, NullCovers, WorldFields DEF SeenCovers
<1>6. ThreadCovers
  BY <1>5, IdleTyped DEF Init, ThreadCovers, Careful, Ingesting, Watching
<1>. QED
  BY <1>4, <1>6 DEF SkipInv

(* The rows and threads keep their shapes.                                 *)
THEOREM TypeCorrect == Spec => []TypeInv
<1>. QED
  BY TypeInit, TypeStep, PTL DEF Spec

(* However pushes, renewals, reconnections and crashes interleave and      *)
(* whichever listing fails, the id the next push lists from passes a reply *)
(* nobody has looked at only for one of the three causes that are named:   *)
(* the start of a watch, a renewal's answer, the end of a listing's page   *)
(* (automation/push.py process_notification, gmail.py list_history).       *)
THEOREM NoReplySkipped == Spec => []NothingSkipped
<1>1. SkipInv => NothingSkipped
  BY WorldFields DEF SkipInv, RowCovers, Covers, Behind, Read, NothingSkipped
<1>. QED
  BY <1>1, TypeInit, TypeStep, SkipInit, SkipStep, PTL DEF Spec

(***************************************************************************)
(* ConnectedIsUsable                                                       *)
(***************************************************************************)

Moved(p, t) == t \in Task /\ th' = [th EXCEPT ![p] = t]
TokenLabels == {"refresh", "revoke", "refreshed", "connect"}
Owing == {"delete", "refused", "refreshed"}

(* Rows lose nothing but their standing.                                   *)
RowsStand ==
    \A u \in Users : row'[u] # NoRow =>
        /\ row[u] # NoRow /\ row'[u].refresh = row[u].refresh
        /\ row'[u].status \in {row[u].status, "reconnect"}

LEMMA Facts ==
    ASSUME TypeInv, Spent
    PROVE  /\ th \in [Threads -> Task] /\ RowsTyped /\ issued \in Nat /\ crashes \in Nat
           /\ good \subseteq Nat /\ good \subseteq 1..issued /\ 1..issued \subseteq 1..MaxTokens
           /\ \A u \in Users : row[u] # NoRow =>
                 row[u].refresh \in Nat /\ row[u].refresh <= issued /\ row[u].refresh \in Tokens
           /\ \A p \in Threads : /\ th[p] \in Task /\ th[p].token \in Nat /\ th[p].token <= issued
                                 /\ th[p].token \in Tokens
<1>1. Tokens \subseteq Nat /\ issued \in Tokens /\ issued <= MaxTokens
  BY Bounds DEF TypeInv, Tokens
<1>2. ASSUME NEW u \in Users, row[u] # NoRow
      PROVE  row[u].refresh \in Tokens
  BY <1>2 DEF TypeInv, RowsTyped, Row
<1>3. ASSUME NEW p \in Threads
      PROVE  th[p] \in Task /\ th[p].token \in Tokens
  BY DEF TypeInv, ThreadsTyped, Task
<1>4. th \in [Threads -> Task] /\ RowsTyped
  BY DEF TypeInv, ThreadsTyped
<1>5. 1..issued \subseteq 1..MaxTokens
  BY <1>1, Bounds
<1>. QED
  <2>1. /\ crashes \in Nat /\ good \subseteq 1..issued
        /\ \A u \in Users : row[u] # NoRow => row[u].refresh <= issued
        /\ \A p \in Threads : th[p].token <= issued
    BY DEF Spent
  <2>2. issued \in Nat /\ 1..issued \subseteq Nat
    BY <1>1
  <2>3. good \subseteq Nat
    BY <2>1, <2>2
  <2>. QED
    BY <1>1, <1>2, <1>3, <1>4, <1>5, <2>1, <2>2, <2>3

(* A thread that owes its row a flag or its end leaves after it.           *)
Settles(p) ==
    LET r == row'[th[p].user]
    IN \/ th[p].pc \notin Owing
       \/ th[p].pc = "refused" /\ (r # NoRow => r.status = "reconnect")
       \/ th[p].pc = "delete" /\ r = NoRow

(* Steps that read and save no token.                                      *)
Quiet(p, t) ==
    /\ Moved(p, t) /\ t.pc \notin TokenLabels /\ t.token <= issued
    /\ \/ Settles(p) /\ UNCHANGED crashes
       \/ crashes' = crashes + 1
    /\ UNCHANGED <<good, issued>> /\ RowsStand

LEMMA QuietKeeps ==
    ASSUME TypeInv, TypeInv', TokenInv, NEW p \in Threads, NEW t, Quiet(p, t)
    PROVE  TokenInv'
<1>. USE Bounds
<1>1. /\ Spent /\ SavesAlone /\ Rotated /\ ReadsOwn /\ OwnTokens /\ Flagged
      /\ th \in [Threads -> Task]
  BY Facts DEF TokenInv
<1>2. /\ th'[p] = t /\ \A q \in Threads \ {p} : th'[q] = th[q]
      /\ t.pc \notin TokenLabels /\ t.token <= issued
      /\ good' = good /\ issued' = issued /\ RowsStand
      /\ crashes' \in Nat /\ (crashes' = 0 => crashes = 0 /\ Settles(p))
  BY <1>1, Facts DEF Quiet, Moved
<1>3. /\ ~Saves(t) /\ ~Reads(t) /\ t.pc # "connect" /\ t.pc # "refreshed"
  BY <1>2 DEF Saves, Reads, TokenLabels
<1>4. ASSUME NEW q \in Threads, Saves(th'[q]) \/ Reads(th'[q]) \/ th'[q].pc \in {"connect", "refreshed"}
      PROVE  q # p /\ th'[q] = th[q]
  BY <1>2, <1>3, <1>4
<1>5. ASSUME NEW u \in Users, NEW x, Has(row'[u], x)
      PROVE  Has(row[u], x)
  BY <1>2, <1>5 DEF RowsStand, Has
<1>6. Spent'
  BY <1>1, <1>2 DEF Spent, RowsStand
<1>7. SavesAlone'
  BY <1>1, <1>2, <1>4, <1>5 DEF SavesAlone
<1>8. Rotated'
  BY <1>1, <1>4 DEF Rotated
<1>9. ReadsOwn'
  BY <1>1, <1>4, <1>5 DEF ReadsOwn
<1>10. OwnTokens'
  BY <1>1, <1>5 DEF OwnTokens
<1>11. ASSUME crashes' = 0, NEW u \in Users, Broken(u)'
       PROVE  Pending(u)'
  <2>1. Broken(u) /\ row'[u].status \in {row[u].status, "reconnect"}
    BY <1>2, <1>11 DEF Broken, RowsStand
  <2>2. Pending(u)
    BY <1>1, <1>2, <1>11, <2>1 DEF Flagged
  <2>3. ASSUME NEW q \in Threads, th[q].user = u, th[q].pc \in Owing
        PROVE  \/ th'[q] = th[q]
               \/ th[q].pc = "refused" /\ row'[u].status = "reconnect"
    BY <1>2, <1>11, <2>3 DEF Settles, Broken
  <2>. QED
    BY <2>1, <2>2, <2>3 DEF Pending, Owing
<1>12. Flagged'
  BY <1>11 DEF Flagged
<1>. QED
  BY <1>6, <1>7, <1>8, <1>9, <1>10, <1>12 DEF TokenInv

(* Steps that read the token of a row, to refresh or to revoke it.         *)
LEMMA TakesKeeps ==
    ASSUME TypeInv, TypeInv', TokenInv, NEW p \in Threads, NEW t, NEW v \in Users,
           Moved(p, t), t.pc \in {"refresh", "revoke"}, t.user = v,
           row[v] # NoRow, t.token = row[v].refresh, th[p].pc \notin Owing,
           UNCHANGED <<row, good, issued, crashes>>
    PROVE  TokenInv'
<1>. USE Bounds
<1>1. /\ Spent /\ SavesAlone /\ Rotated /\ ReadsOwn /\ OwnTokens /\ Flagged
      /\ th \in [Threads -> Task] /\ row[v].refresh <= issued /\ row[v].refresh \in Tokens
  BY Facts DEF TokenInv
<1>2. /\ th'[p] = t /\ \A q \in Threads \ {p} : th'[q] = th[q]
      /\ row' = row /\ good' = good /\ issued' = issued /\ crashes' = crashes
  BY <1>1 DEF Moved
<1>3. /\ ~Saves(t) /\ t.pc # "connect" /\ t.pc # "refreshed" /\ Has(row[v], t.token)
  BY DEF Saves, Has
<1>4. \A u, x : Has(row'[u], x) <=> Has(row[u], x)
  BY <1>2 DEF Has
<1>5. Spent'
  BY <1>1, <1>2 DEF Spent
<1>6. SavesAlone'
  <2>. SUFFICES ASSUME NEW q \in Threads, Saves(th'[q])
                PROVE  /\ th'[q].token \in good
                       /\ \A u \in Users : ~Has(row[u], th'[q].token)
                       /\ \A r \in Threads \ {q} :
                             Saves(th'[r]) \/ Reads(th'[r]) => th'[r].token # th'[q].token
    BY <1>2, <1>4 DEF SavesAlone
  <2>1. q # p /\ th'[q] = th[q] /\ Saves(th[q])
    BY <1>2, <1>3
  <2>2. t.token # th[q].token
    BY <1>1, <1>3, <2>1 DEF SavesAlone
  <2>. QED
    BY <1>1, <1>2, <2>1, <2>2 DEF SavesAlone
<1>7. Rotated'
  BY <1>1, <1>2, <1>3 DEF Rotated
<1>8. ReadsOwn'
  <2>1. ASSUME Reads(t), NEW u \in Users \ {v}
        PROVE  ~Has(row[u], t.token)
    <3>1. t.token \in 1..MaxTokens
      BY <1>1, <2>1 DEF Reads, Tokens
    <3>. QED
      BY <1>1, <1>3, <2>1, <3>1 DEF OwnTokens
  <2>. QED
    BY <1>1, <1>2, <1>4, <2>1 DEF ReadsOwn
<1>9. OwnTokens'
  BY <1>1, <1>4 DEF OwnTokens
<1>10. ASSUME crashes' = 0, NEW u \in Users, Broken(u)'
       PROVE  Pending(u)'
  <2>1. Pending(u)
    BY <1>1, <1>2, <1>10 DEF Flagged, Broken
  <2>2. ASSUME NEW q \in Threads, th[q].pc \in {"delete", "refused", "refreshed"}
        PROVE  th'[q] = th[q]
    BY <1>2, <2>2 DEF Owing
  <2>. QED
    BY <1>2, <2>1, <2>2 DEF Pending
<1>11. Flagged'
  BY <1>10 DEF Flagged
<1>. QED
  BY <1>5, <1>6, <1>7, <1>8, <1>9, <1>11 DEF TokenInv

(* Steps of the provider: a rotation, a refresh that keeps the token, an   *)
(* exchange.  The token of the thread may stop working, a new one works.   *)
Answered(p, t) ==
    /\ th[p].pc = "refresh" /\ t.user = th[p].user
    /\ IF Rotates
       THEN /\ issued' = issued + 1 /\ good' = (good \ {th[p].token}) \cup {issued'}
            /\ \/ t.pc = "refused" /\ t.token = th[p].token
               \/ t.pc = "refreshed" /\ t.token = issued'
       ELSE t.pc = "refreshed" /\ t.token = 0 /\ UNCHANGED <<good, issued>>
Exchanged(t) ==
    /\ t.pc = "connect" /\ issued' = issued + 1 /\ good' = good \cup {issued'}
    /\ t.token = issued'

LEMMA AnswerKeeps ==
    ASSUME TypeInv, TypeInv', TokenInv, NEW p \in Threads, NEW t, Moved(p, t),
           th[p].pc \notin Owing, UNCHANGED <<row, crashes>>,
           Answered(p, t) \/ Exchanged(t)
    PROVE  TokenInv'
<1>. USE Bounds
<1>1. /\ Spent /\ SavesAlone /\ Rotated /\ ReadsOwn /\ OwnTokens /\ Flagged
      /\ th \in [Threads -> Task]
      /\ issued \in Nat /\ crashes \in Nat /\ good \subseteq Nat /\ good \subseteq 1..issued
      /\ \A u \in Users : row[u] # NoRow => row[u].refresh \in Nat /\ row[u].refresh <= issued
      /\ \A q \in Threads : th[q].token \in Nat /\ th[q].token <= issued
  BY Facts DEF TokenInv
<1>2. /\ th'[p] = t /\ \A q \in Threads \ {p} : th'[q] = th[q]
      /\ row' = row /\ crashes' = crashes
  BY <1>1 DEF Moved
<1>3. \A u, x : Has(row'[u], x) <=> Has(row[u], x)
  BY <1>2 DEF Has
<1>4. issued' \in Nat /\ issued <= issued'
  BY <1>1 DEF Answered, Exchanged
<1>5. good \ {th[p].token} \subseteq good' \/ good' = good
  BY DEF Answered, Exchanged
<1>6. /\ Saves(t) => t.token = issued + 1 /\ issued' = issued + 1 /\ t.token \in good'
      /\ ~Reads(t)
  BY DEF Answered, Exchanged, Saves, Reads
<1>7. Spent'
  <2>1. good' \subseteq 1..issued'
    <3>1. 1..issued \subseteq 1..issued' /\ (issued' = issued + 1 => issued' \in 1..issued')
      BY <1>1, <1>4
    <3>2. good' \subseteq good \cup {issued'} /\ (good' = good \/ issued' = issued + 1)
      BY DEF Answered, Exchanged
    <3>. QED
      BY <1>1, <3>1, <3>2
  <2>2. t.token <= issued'
    BY <1>1, <1>4 DEF Answered, Exchanged
  <2>3. \A u \in Users : row'[u] # NoRow => row'[u].refresh <= issued'
    BY <1>1, <1>2, <1>4
  <2>4. \A q \in Threads : th'[q].token <= issued'
    BY <1>1, <1>2, <1>4, <2>2
  <2>. QED
    BY <1>1, <1>2, <2>1, <2>3, <2>4 DEF Spent
<1>8. ASSUME NEW q \in Threads \ {p}, Saves(th[q])
      PROVE  /\ th[q].token \in good' /\ th[q].token <= issued
             /\ \A u \in Users : ~Has(row[u], th[q].token)
             /\ \A r \in Threads \ {q} :
                   Saves(th[r]) \/ Reads(th[r]) => th[r].token # th[q].token
  <2>1. /\ th[q].token \in good
        /\ \A u \in Users : ~Has(row[u], th[q].token)
        /\ \A r \in Threads \ {q} :
              Saves(th[r]) \/ Reads(th[r]) => th[r].token # th[q].token
    BY <1>1, <1>8 DEF SavesAlone
  <2>2. CASE Exchanged(t)
    BY <1>1, <2>1, <2>2 DEF Exchanged
  <2>3. CASE Answered(p, t)
    <3>1. th[p].token # th[q].token
      BY <2>1, <2>3, <1>8 DEF Answered, Reads, Saves
    <3>. QED
      BY <1>1, <2>1, <2>3, <3>1 DEF Answered
  <2>. QED
    BY <2>2, <2>3
<1>9. SavesAlone'
  <2>. SUFFICES ASSUME NEW q \in Threads, Saves(th'[q])
                PROVE  /\ th'[q].token \in good'
                       /\ \A u \in Users : ~Has(row[u], th'[q].token)
                       /\ \A r \in Threads \ {q} :
                             Saves(th'[r]) \/ Reads(th'[r]) => th'[r].token # th'[q].token
    BY <1>3 DEF SavesAlone
  <2>1. CASE q = p
    <3>1. th'[q].token = issued + 1 /\ th'[q].token \in good'
      BY <1>2, <1>6, <2>1
    <3>2. \A u \in Users : ~Has(row[u], th'[q].token)
      BY <3>1, <1>1 DEF Has
    <3>3. \A r \in Threads \ {q} : th'[r].token # th'[q].token
      BY <3>1, <1>1, <1>2, <2>1
    <3>. QED
      BY <3>1, <3>2, <3>3
  <2>2. CASE q # p
    <3>1. th'[q] = th[q] /\ Saves(th[q])
      BY <1>2, <2>2
    <3>2. Saves(t) => t.token # th[q].token
      BY <3>1, <2>2, <1>1, <1>6, <1>8
    <3>. QED
      BY <1>2, <1>6, <1>8, <2>2, <3>1, <3>2
  <2>. QED
    BY <2>1, <2>2
<1>10. Rotated'
  <2>1. /\ t.pc = "connect" => t.token # 0
        /\ t.pc = "refreshed" => (Rotates <=> t.token # 0)
    BY <1>1 DEF Answered, Exchanged
  <2>. QED
    BY <1>1, <1>2, <2>1 DEF Rotated
<1>11. ReadsOwn'
  BY <1>1, <1>2, <1>3, <1>6 DEF ReadsOwn
<1>12. OwnTokens'
  BY <1>1, <1>3 DEF OwnTokens
<1>13. ASSUME crashes' = 0, NEW u \in Users, Broken(u)'
       PROVE  Pending(u)'
  <2>1. ASSUME NEW q \in Threads, th[q].pc \in {"delete", "refused", "refreshed"}
        PROVE  th'[q] = th[q]
    BY <1>2, <2>1 DEF Owing
  <2>2. CASE Broken(u)
    <3>1. Pending(u)
      BY <1>1, <1>2, <1>13, <2>2 DEF Flagged
    <3>. QED
      BY <1>2, <2>1, <3>1 DEF Pending
  <2>3. CASE ~Broken(u)
    <3>1. row[u].refresh \in good \ good' /\ row[u].refresh # 0 /\ row[u] # NoRow
      BY <1>1, <1>2, <1>13, <2>3 DEF Broken
    <3>2. Answered(p, t) /\ Rotates /\ row[u].refresh = th[p].token
      BY <3>1 DEF Answered, Exchanged
    <3>3. Has(row[u], th[p].token) /\ Reads(th[p])
      BY <3>1, <3>2 DEF Has, Reads, Answered
    <3>4. th[p].user = u
      BY <1>1, <3>3 DEF ReadsOwn
    <3>. QED
      BY <1>2, <3>2, <3>4 DEF Pending, Answered
  <2>. QED
    BY <2>2, <2>3
<1>14. Flagged'
  BY <1>13 DEF Flagged
<1>. QED
  BY <1>7, <1>9, <1>10, <1>11, <1>12, <1>14 DEF TokenInv

(* Steps that save a token: the thread's own works and becomes the row's.  *)
LEMMA SavingKeeps ==
    ASSUME TypeInv, TypeInv', TokenInv, NEW p \in Threads, NEW t, Moved(p, t),
           th[p].pc \in {"refreshed", "connect"}, t.pc \notin TokenLabels, t.token = th[p].token,
           row' = Upsert(th[p].user, th[p].token), UNCHANGED <<good, issued, crashes>>
    PROVE  TokenInv'
<1>. USE Bounds
<1>. DEFINE v == th[p].user
            x == th[p].token
<1>1. /\ Spent /\ SavesAlone /\ Rotated /\ ReadsOwn /\ OwnTokens /\ Flagged
      /\ th \in [Threads -> Task] /\ RowsTyped /\ x \in Nat /\ x <= issued /\ issued \in Nat
  BY Facts DEF TokenInv
<1>2. v \in Users
  BY DEF TypeInv, ThreadsTyped, InHand
<1>3. /\ th'[p] = t /\ \A q \in Threads \ {p} : th'[q] = th[q]
      /\ good' = good /\ issued' = issued /\ crashes' = crashes
  BY <1>1 DEF Moved
<1>4. ~Saves(t) /\ ~Reads(t) /\ t.pc \notin {"refreshed", "connect"}
  BY DEF Saves, Reads, TokenLabels
<1>5. /\ \A u \in Users \ {v} : row'[u] = row[u]
      /\ row'[v] # NoRow => row'[v].refresh = IF x = 0 /\ row[v] # NoRow THEN row[v].refresh ELSE x
      /\ row'[v].status = "connected"
  BY <1>1, <1>2 DEF Upsert, RowsTyped
<1>6. x = 0 \/ Saves(th[p])
  BY DEF Saves
<1>7. ASSUME NEW u \in Users, NEW y, Has(row'[u], y)
      PROVE  \/ Has(row[u], y)
             \/ u = v /\ y = x
  BY <1>5, <1>7 DEF Has
<1>. HIDE DEF v, x
<1>8. Spent'
  BY <1>1, <1>2, <1>3, <1>5 DEF Spent, x
<1>9. SavesAlone'
  <2>. SUFFICES ASSUME NEW q \in Threads, Saves(th'[q])
                PROVE  /\ th'[q].token \in good
                       /\ \A u \in Users : ~Has(row'[u], th'[q].token)
                       /\ \A r \in Threads \ {q} :
                             Saves(th'[r]) \/ Reads(th'[r]) => th'[r].token # th'[q].token
    BY <1>3 DEF SavesAlone, Has
  <2>1. q # p /\ th'[q] = th[q] /\ Saves(th[q])
    BY <1>3, <1>4
  <2>2. th[q].token # x
    BY <1>1, <1>6, <2>1 DEF SavesAlone, Saves, x
  <2>3. \A u \in Users : ~Has(row'[u], th'[q].token)
    BY <1>1, <1>7, <2>1, <2>2 DEF SavesAlone
  <2>. QED
    BY <1>1, <1>3, <1>4, <2>1, <2>3 DEF SavesAlone
<1>10. Rotated'
  BY <1>1, <1>3, <1>4 DEF Rotated
<1>11. ReadsOwn'
  <2>. SUFFICES ASSUME NEW q \in Threads, Reads(th'[q]), NEW u \in Users \ {th'[q].user}
                PROVE  ~Has(row'[u], th'[q].token)
    BY DEF ReadsOwn
  <2>1. q # p /\ th'[q] = th[q] /\ Reads(th[q])
    BY <1>3, <1>4
  <2>2. th[q].token # x
    BY <1>1, <1>6, <2>1 DEF SavesAlone, Reads, x
  <2>. QED
    BY <1>1, <1>7, <2>1, <2>2 DEF ReadsOwn
<1>12. OwnTokens'
  <2>. SUFFICES ASSUME NEW u \in Users, NEW w \in Users, NEW y \in 1..MaxTokens, Has(row'[u], y), Has(row'[w], y)
                PROVE  u = w
    BY DEF OwnTokens, Has
  <2>1. y = x => u = v /\ w = v
    <3>1. x # 0 => \A z \in Users : ~Has(row[z], x)
      BY <1>1, <1>6 DEF SavesAlone, x
    <3>. QED
      BY <3>1, <1>7
  <2>. QED
    BY <1>1, <1>7, <2>1 DEF OwnTokens
<1>13. ASSUME crashes' = 0, NEW u \in Users, Broken(u)'
       PROVE  Pending(u)'
  <2>1. CASE u # v
    <3>1. Pending(u)
      BY <1>1, <1>3, <1>5, <1>13, <2>1 DEF Flagged, Broken
    <3>2. ASSUME NEW q \in Threads, th[q].user = u
          PROVE  th'[q] = th[q]
      BY <1>3, <2>1, <3>2 DEF v
    <3>. QED
      BY <1>3, <1>5, <2>1, <3>1, <3>2 DEF Pending
  <2>2. CASE u = v
    <3>1. x = 0 /\ row[v] # NoRow /\ row'[v].refresh = row[v].refresh
      <4>1. x # 0 => x \in good
        BY <1>1, <1>6 DEF SavesAlone, x
      <4>. QED
        BY <4>1, <1>3, <1>5, <1>13, <2>2 DEF Broken
    <3>2. ~Rotates
      BY <1>1, <3>1 DEF Rotated, x
    <3>3. Pending(u)
      BY <1>1, <1>3, <1>13, <2>2, <3>1 DEF Flagged, Broken
    <3>. QED
      BY <1>3, <3>2, <3>3 DEF Pending
  <2>. QED
    BY <2>1, <2>2
<1>14. Flagged'
  BY <1>13 DEF Flagged
<1>. QED
  BY <1>8, <1>9, <1>10, <1>11, <1>12, <1>14 DEF TokenInv

LEMMA RevokeKeeps ==
    ASSUME TypeInv, TypeInv', TokenInv, NEW p \in Threads, NEW t, Moved(p, t),
           th[p].pc = "revoke", t.pc = "delete", t.user = th[p].user, t.token = th[p].token,
           good' \in {good, good \ {th[p].token}}, UNCHANGED <<row, issued, crashes>>
    PROVE  TokenInv'
<1>. USE Bounds
<1>1. /\ Spent /\ SavesAlone /\ Rotated /\ ReadsOwn /\ OwnTokens /\ Flagged
      /\ th \in [Threads -> Task]
  BY Facts DEF TokenInv
<1>2. /\ th'[p] = t /\ \A q \in Threads \ {p} : th'[q] = th[q]
      /\ row' = row /\ issued' = issued /\ crashes' = crashes
  BY <1>1 DEF Moved
<1>3. ~Saves(t) /\ ~Reads(t)
  BY DEF Saves, Reads
<1>4. Spent'
  BY <1>1, <1>2 DEF Spent
<1>5. SavesAlone'
  <2>. SUFFICES ASSUME NEW q \in Threads, Saves(th'[q])
                PROVE  /\ th'[q].token \in good'
                       /\ \A u \in Users : ~Has(row[u], th'[q].token)
                       /\ \A r \in Threads \ {q} :
                             Saves(th'[r]) \/ Reads(th'[r]) => th'[r].token # th'[q].token
    BY <1>2 DEF SavesAlone
  <2>1. q # p /\ th'[q] = th[q] /\ Saves(th[q])
    BY <1>2, <1>3
  <2>2. th[p].token # th[q].token
    BY <1>1, <2>1 DEF SavesAlone, Saves, Reads
  <2>. QED
    BY <1>1, <1>2, <1>3, <2>1, <2>2 DEF SavesAlone
<1>6. Rotated'
  BY <1>1, <1>2 DEF Rotated
<1>7. ReadsOwn'
  BY <1>1, <1>2, <1>3 DEF ReadsOwn
<1>8. OwnTokens'
  BY <1>1, <1>2 DEF OwnTokens
<1>9. ASSUME crashes' = 0, NEW u \in Users, Broken(u)'
      PROVE  Pending(u)'
  <2>1. ASSUME NEW q \in Threads, th[q].pc \in {"delete", "refused", "refreshed"}
        PROVE  th'[q] = th[q]
    BY <1>2, <2>1
  <2>2. CASE Broken(u)
    <3>1. Pending(u)
      BY <1>1, <1>2, <1>9, <2>2 DEF Flagged
    <3>. QED
      BY <1>2, <2>1, <3>1 DEF Pending
  <2>3. CASE ~Broken(u)
    <3>1. row[u].refresh = th[p].token /\ row[u].refresh # 0 /\ row[u] # NoRow
      BY <1>1, <1>2, <1>9, <2>3 DEF Broken
    <3>2. th[p].user = u
      BY <1>1, <3>1 DEF ReadsOwn, Reads, Has
    <3>. QED
      BY <1>2, <3>2 DEF Pending
  <2>. QED
    BY <2>2, <2>3
<1>10. Flagged'
  BY <1>9 DEF Flagged
<1>. QED
  BY <1>4, <1>5, <1>6, <1>7, <1>8, <1>10 DEF TokenInv

(* An answer nobody can read may have used the token up.                   *)
LEMMA UnreadKeeps ==
    ASSUME TypeInv, TypeInv', TokenInv, NEW p \in Threads, NEW t, Moved(p, t),
           th[p].pc = "refresh", t.pc \notin TokenLabels, t.token = 0,
           good' \in {good, good \ {th[p].token}}, UNCHANGED <<row, issued>>,
           crashes' = crashes + 1
    PROVE  TokenInv'
<1>. USE Bounds
<1>1. /\ Spent /\ SavesAlone /\ Rotated /\ ReadsOwn /\ OwnTokens
      /\ th \in [Threads -> Task] /\ crashes \in Nat /\ issued \in Nat
  BY Facts DEF TokenInv
<1>2. /\ th'[p] = t /\ \A q \in Threads \ {p} : th'[q] = th[q]
      /\ row' = row /\ issued' = issued
  BY <1>1 DEF Moved
<1>3. ~Saves(t) /\ ~Reads(t) /\ t.pc \notin {"connect", "refreshed"}
  BY DEF Saves, Reads, TokenLabels
<1>4. Spent'
  BY <1>1, <1>2 DEF Spent
<1>5. SavesAlone'
  <2>. SUFFICES ASSUME NEW q \in Threads, Saves(th'[q])
                PROVE  /\ th'[q].token \in good'
                       /\ \A u \in Users : ~Has(row[u], th'[q].token)
                       /\ \A r \in Threads \ {q} :
                             Saves(th'[r]) \/ Reads(th'[r]) => th'[r].token # th'[q].token
    BY <1>2 DEF SavesAlone
  <2>1. q # p /\ th'[q] = th[q] /\ Saves(th[q])
    BY <1>2, <1>3
  <2>2. th[p].token # th[q].token
    BY <1>1, <2>1 DEF SavesAlone, Saves, Reads
  <2>. QED
    BY <1>1, <1>2, <1>3, <2>1, <2>2 DEF SavesAlone
<1>6. Rotated'
  BY <1>1, <1>2, <1>3 DEF Rotated
<1>7. ReadsOwn'
  BY <1>1, <1>2, <1>3 DEF ReadsOwn
<1>8. OwnTokens'
  BY <1>1, <1>2 DEF OwnTokens
<1>9. Flagged'
  BY <1>1 DEF Flagged
<1>. QED
  BY <1>4, <1>5, <1>6, <1>7, <1>8, <1>9 DEF TokenInv

LEMMA WritesStand ==
    ASSUME RowsTyped, NEW u \in Users,
           \/ UNCHANGED row
           \/ row' = SetStatus(u, "reconnect")
           \/ \E w : row' = SetWatch(u, w)
           \/ row' = [row EXCEPT ![u] = NoRow]
    PROVE  RowsStand
<1>. USE DEF RowsTyped
<1>1. CASE UNCHANGED row
  BY <1>1 DEF RowsStand
<1>2. CASE row' = SetStatus(u, "reconnect")
  BY <1>2 DEF RowsStand, SetStatus, Row
<1>3. ASSUME NEW w, row' = SetWatch(u, w)
      PROVE  RowsStand
  BY <1>3 DEF RowsStand, SetWatch, Row
<1>4. CASE row' = [row EXCEPT ![u] = NoRow]
  BY <1>4 DEF RowsStand
<1>. QED
  BY <1>1, <1>2, <1>3, <1>4

LEMMA TokenThread ==
    ASSUME TypeInv, TypeInv', TokenInv, NEW p \in Threads, Thread(p)
    PROVE  TokenInv'
<1>. USE Bounds
<1>. DEFINE t == th[p]
            s == th'[p]
<1>1. /\ th \in [Threads -> Task] /\ th' \in [Threads -> Task] /\ ThreadsTyped /\ RowsTyped
      /\ t \in Task /\ InHand(t) /\ s \in Task
      /\ issued \in Nat /\ t.token <= issued /\ 0 <= issued
      /\ \A u \in Users : row[u] # NoRow => row[u].refresh <= issued
  BY Facts DEF TypeInv, ThreadsTyped, TokenInv
<1>2. t.pc \notin {"idle", "accounts", "next"} => t.user \in Users
  BY <1>1 DEF InHand
<1>3. ASSUME NEW x, th' = [th EXCEPT ![p] = x]
      PROVE  Moved(p, x) /\ s = x
  BY <1>1, <1>3 DEF Moved
<1>4. ASSUME Again(p)
      PROVE  Moved(p, s) /\ s.pc \notin TokenLabels /\ s.token = 0
  <2>1. PICK x : Rests(p, x) /\ th' = [th EXCEPT ![p] = x]
    BY <1>1, <1>4, AgainRests
  <2>. QED
    BY <1>3, <2>1 DEF Rests, TokenLabels
<1>5. ASSUME Become(p, Idle)
      PROVE  Moved(p, s) /\ s.pc \notin TokenLabels /\ s.token = 0
  BY <1>3, <1>5, IdleTyped DEF Become, TokenLabels
<1>6. ASSUME NEW label, To(p, label)
      PROVE  Moved(p, s) /\ s.pc = label /\ s.token = t.token /\ s.user = t.user
  <2>1. th' = [th EXCEPT ![p] = [t EXCEPT !.pc = label]]
    BY <1>1, <1>6 DEF To
  <2>. QED
    BY <2>1, <1>1, <1>3 DEF Task
<1>7. UNCHANGED row => RowsStand
  BY DEF RowsStand
<1>a. ASSUME NEW label, NEW x, th' = [th EXCEPT ![p] = [t EXCEPT !.pc = label, !.token = x]]
       PROVE  Moved(p, s) /\ s.pc = label /\ s.token = x /\ s.user = t.user
  BY <1>1, <1>3, <1>a DEF Task
<1>b. ASSUME NEW label \in Labels \ TokenLabels, NEW upto, NEW msgs,
              \/ th' = [th EXCEPT ![p] = [t EXCEPT !.pc = label, !.upto = upto, !.msgs = msgs]]
              \/ th' = [th EXCEPT ![p] = [t EXCEPT !.pc = label, !.upto = upto]]
       PROVE  Moved(p, s) /\ s.pc \notin TokenLabels /\ s.token = t.token
  BY <1>1, <1>3, <1>b DEF Task
<1>. HIDE DEF t, s
<1>8. ASSUME Moved(p, s), s.pc \notin TokenLabels, s.token <= issued,
             UNCHANGED <<good, issued, crashes>>, RowsStand, Settles(p)
      PROVE  TokenInv'
  BY <1>8, QuietKeeps DEF Quiet
<1>9. CASE AccountsByEmail(p)
  <2>1. \E todo, seen : th' = [th EXCEPT ![p] = [t EXCEPT !.pc = "next", !.todo = todo, !.seen = seen]]
    BY <1>9 DEF AccountsByEmail, Become, t
  <2>2. Moved(p, s) /\ s.pc = "next" /\ s.token = t.token
    BY <2>1, <1>1, <1>3 DEF Task
  <2>. QED
    BY <1>9, <2>2, <1>1, <1>7, <1>8 DEF AccountsByEmail, At, Settles, Owing, TokenLabels
<1>10. CASE ListHistory(p) \/ CallWatch(p)
  <2>1. \/ Again(p)
        \/ \E upto, msgs :
              th' = [th EXCEPT ![p] = [t EXCEPT !.pc = "ingest", !.upto = upto, !.msgs = msgs]]
        \/ \E upto : th' = [th EXCEPT ![p] = [t EXCEPT !.pc = "watched", !.upto = upto]]
    BY <1>10 DEF ListHistory, CallWatch, Become, t
  <2>2. {"ingest", "watched"} \subseteq Labels \ TokenLabels
    BY DEF Labels, TokenLabels
  <2>3. Moved(p, s) /\ s.pc \notin TokenLabels /\ s.token \in {0, t.token}
    <3>1. CASE Again(p)
      BY <3>1, <1>4
    <3>2. CASE ~Again(p)
      <4>1. ASSUME NEW upto, NEW msgs,
                   th' = [th EXCEPT ![p] = [t EXCEPT !.pc = "ingest", !.upto = upto, !.msgs = msgs]]
            PROVE  Moved(p, s) /\ s.pc \notin TokenLabels /\ s.token = t.token
        BY <4>1, <2>2, <1>b, Zenon
      <4>2. ASSUME NEW upto, th' = [th EXCEPT ![p] = [t EXCEPT !.pc = "watched", !.upto = upto]]
            PROVE  Moved(p, s) /\ s.pc \notin TokenLabels /\ s.token = t.token
        BY <4>2, <2>2, <1>b, Zenon
      <4>. QED
        BY <2>1, <3>2, <4>1, <4>2, Zenon
    <3>. QED
      BY <3>1, <3>2
  <2>. QED
    BY <1>10, <2>3, <1>1, <1>7, <1>8 DEF ListHistory, CallWatch, At, Settles, Owing, TokenLabels
<1>11. CASE Ingest(p)
  <2>1. \E msgs : th' = [th EXCEPT ![p] = [t EXCEPT !.msgs = msgs]]
    BY <1>11, <1>1 DEF Ingest, t
  <2>2. Moved(p, s) /\ s.pc = t.pc /\ s.token = t.token
    BY <2>1, <1>1, <1>3 DEF Task
  <2>. QED
    BY <1>11, <2>2, <1>1, <1>7, <1>8 DEF Ingest, At, Settles, Owing, TokenLabels, t
<1>12. CASE SaveHistory(p) \/ SaveWatch(p)
  <2>1. /\ \E w : row' = SetWatch(t.user, w)
        /\ Again(p) /\ t.pc \notin Owing /\ t.user \in Users
        /\ UNCHANGED <<good, issued, crashes>>
    BY <1>12, <1>2 DEF SaveHistory, SaveWatch, At, t, Owing
  <2>. QED
    BY <2>1, <1>1, <1>4, <1>8, WritesStand DEF Settles, t
<1>13. CASE NextAccount(p)
  <2>1. \E u, todo : th' = [th EXCEPT ![p] = [t EXCEPT !.pc = "token", !.user = u, !.todo = todo]]
    BY <1>13, <1>1 DEF NextAccount, Become, t
  <2>2. Moved(p, s) /\ s.pc = "token" /\ s.token = t.token
    <3>1. PICK u, todo : th' = [th EXCEPT ![p] = [t EXCEPT !.pc = "token", !.user = u, !.todo = todo]]
      BY <2>1
    <3>2. PICK x : x = [t EXCEPT !.pc = "token", !.user = u, !.todo = todo]
      OBVIOUS
    <3>3. Moved(p, x) /\ s = x
      BY <1>3, <3>1, <3>2
    <3>4. x.pc = "token" /\ x.token = t.token
      BY <1>1, <3>2 DEF Task
    <3>. QED
      BY <3>3, <3>4
  <2>. QED
    BY <1>13, <2>2, <1>1, <1>7, <1>8 DEF NextAccount, At, Settles, Owing, TokenLabels
<1>14. CASE SweepDone(p)
  <2>1. \/ Become(p, Idle)
        \/ \E due, y : th' = [th EXCEPT ![p] = [Idle EXCEPT !.pc = "next", !.why = y, !.todo = due]]
    BY <1>14 DEF SweepDone, Become
  <2>2. \A due, y : LET x == [Idle EXCEPT !.pc = "next", !.why = y, !.todo = due]
                    IN x.pc = "next" /\ x.token = 0
    BY DEF Idle
  <2>3. Moved(p, s) /\ s.pc \notin TokenLabels /\ s.token = 0
    BY <2>1, <2>2, <1>3, <1>5 DEF TokenLabels
  <2>. QED
    BY <1>14, <2>3, <1>1, <1>7, <1>8 DEF SweepDone, At, Settles, Owing
<1>15. CASE ValidAccessToken(p)
  <2>1. /\ t.user \in Users /\ t.pc = "token" /\ UNCHANGED <<good, issued, crashes>>
        /\ \/ Again(p) /\ UNCHANGED row
           \/ To(p, "have") /\ UNCHANGED row
           \/ Again(p) /\ row' = SetStatus(t.user, "reconnect")
           \/ /\ row[t.user] # NoRow /\ UNCHANGED row
              /\ th' = [th EXCEPT ![p] = [t EXCEPT !.pc = "refresh", !.token = row[t.user].refresh]]
    BY <1>15, <1>2 DEF ValidAccessToken, At, t, Become
  <2>2. Settles(p) /\ t.pc \notin Owing
    BY <2>1 DEF Settles, Owing, t
  <2>3. CASE \/ Again(p) /\ UNCHANGED row
             \/ To(p, "have") /\ UNCHANGED row
             \/ Again(p) /\ row' = SetStatus(t.user, "reconnect")
    <3>1. Moved(p, s) /\ s.pc \notin TokenLabels /\ s.token \in {0, t.token}
      BY <2>3, <1>4, <1>6 DEF TokenLabels
    <3>2. RowsStand
      BY <2>1, <2>3, <1>1, WritesStand
    <3>. QED
      BY <2>1, <2>2, <3>1, <3>2, <1>1, <1>8
  <2>4. CASE /\ row[t.user] # NoRow /\ UNCHANGED row
             /\ th' = [th EXCEPT ![p] = [t EXCEPT !.pc = "refresh", !.token = row[t.user].refresh]]
    <3>1. /\ Moved(p, s) /\ s.pc = "refresh" /\ s.token = row[t.user].refresh /\ s.user = t.user
      BY <2>4, <1>a, Zenon
    <3>. QED
      BY <2>1, <2>2, <2>4, <3>1, TakesKeeps DEF t
  <2>. QED
    BY <2>1, <2>3, <2>4
<1>16. CASE Refresh(p)
  <2>1. /\ t.pc = "refresh" /\ t.pc \notin Owing /\ UNCHANGED <<row, crashes>>
        /\ \/ To(p, "refused") /\ UNCHANGED <<good, issued>>
           \/ /\ Rotates /\ issued' = issued + 1
              /\ good' = (good \ {t.token}) \cup {issued'}
              /\ \/ To(p, "refused")
                 \/ th' = [th EXCEPT ![p] = [t EXCEPT !.pc = "refreshed", !.token = issued']]
           \/ /\ ~Rotates /\ UNCHANGED <<good, issued>>
              /\ th' = [th EXCEPT ![p] = [t EXCEPT !.pc = "refreshed", !.token = 0]]
    BY <1>16 DEF Refresh, At, t, Become, Owing
  <2>2. CASE To(p, "refused") /\ UNCHANGED <<good, issued>>
    BY <2>1, <2>2, <1>1, <1>6, <1>7, <1>8 DEF Settles, TokenLabels, t
  <2>3. CASE ~(To(p, "refused") /\ UNCHANGED <<good, issued>>)
    <3>1. ASSUME Rotates
          PROVE  Moved(p, s) /\ Answered(p, s)
      <4>1. /\ issued' = issued + 1 /\ good' = (good \ {t.token}) \cup {issued'}
            /\ \/ To(p, "refused")
               \/ th' = [th EXCEPT ![p] = [t EXCEPT !.pc = "refreshed", !.token = issued']]
        BY <2>1, <2>3, <3>1
      <4>2. CASE To(p, "refused")
        BY <2>1, <3>1, <4>1, <4>2, <1>6 DEF Answered, t
      <4>3. CASE th' = [th EXCEPT ![p] = [t EXCEPT !.pc = "refreshed", !.token = issued']]
        <5>1. Moved(p, s) /\ s.pc = "refreshed" /\ s.token = issued' /\ s.user = t.user
          BY <4>3, <1>a, Zenon
        <5>. QED
          BY <2>1, <3>1, <4>1, <5>1 DEF Answered, t
      <4>. QED
        BY <4>1, <4>2, <4>3
    <3>2. ASSUME ~Rotates
          PROVE  Moved(p, s) /\ Answered(p, s)
      <4>1. /\ UNCHANGED <<good, issued>>
            /\ th' = [th EXCEPT ![p] = [t EXCEPT !.pc = "refreshed", !.token = 0]]
        BY <2>1, <2>3, <3>2
      <4>2. Moved(p, s) /\ s.pc = "refreshed" /\ s.token = 0 /\ s.user = t.user
        BY <4>1, <1>a, Zenon
      <4>. QED
        BY <2>1, <3>2, <4>1, <4>2 DEF Answered, t
    <3>3. Moved(p, s) /\ Answered(p, s)
      BY <3>1, <3>2
    <3>. QED
      BY <2>1, <3>3, AnswerKeeps DEF t
  <2>. QED
    BY <2>2, <2>3
<1>17. CASE MarkReconnect(p)
  <2>1. /\ t.pc = "refused" /\ t.user \in Users /\ row' = SetStatus(t.user, "reconnect") /\ Again(p)
        /\ UNCHANGED <<good, issued, crashes>>
    BY <1>17, <1>2 DEF MarkReconnect, At, t
  <2>2. row'[t.user] # NoRow => row'[t.user].status = "reconnect"
    BY <2>1, <1>1 DEF SetStatus, RowsTyped, Row
  <2>3. RowsStand
    BY <2>1, <1>1, WritesStand
  <2>4. Settles(p)
    BY <2>1, <2>2 DEF Settles, t
  <2>. QED
    BY <2>1, <2>3, <2>4, <1>1, <1>4, <1>8
<1>18. CASE SaveRefresh(p) \/ Connect(p)
  <2>1. /\ t.pc \in {"refreshed", "connect"} /\ row' = Upsert(t.user, t.token)
        /\ UNCHANGED <<good, issued, crashes>> /\ (To(p, "have") \/ To(p, "token"))
    BY <1>18 DEF SaveRefresh, Connect, At, t
  <2>2. Moved(p, s) /\ s.pc \notin TokenLabels /\ s.token = t.token
    BY <2>1, <1>6 DEF TokenLabels
  <2>. QED
    BY <2>1, <2>2, SavingKeeps DEF t
<1>19. CASE TokenUsed(p)
  <2>1. t.pc = "have" /\ Again(p) /\ UNCHANGED <<row, good, issued, crashes>>
    BY <1>19 DEF TokenUsed, At, t
  <2>. QED
    BY <2>1, <1>1, <1>4, <1>7, <1>8 DEF Settles, Owing, t
<1>20. CASE Exchange(p)
  <2>1. /\ t.pc = "exchange" /\ t.pc \notin Owing /\ UNCHANGED <<row, crashes>>
        /\ \/ /\ issued' = issued + 1 /\ good' = good \cup {issued'}
              /\ th' = [th EXCEPT ![p] = [t EXCEPT !.pc = "connect", !.token = issued']]
           \/ Become(p, Idle) /\ UNCHANGED <<good, issued>>
    BY <1>20 DEF Exchange, At, t, Become, Owing
  <2>2. CASE Become(p, Idle) /\ UNCHANGED <<good, issued>>
    BY <2>1, <2>2, <1>1, <1>5, <1>7, <1>8 DEF Settles, t
  <2>3. CASE /\ issued' = issued + 1 /\ good' = good \cup {issued'}
             /\ th' = [th EXCEPT ![p] = [t EXCEPT !.pc = "connect", !.token = issued']]
    <3>1. Moved(p, s) /\ s.pc = "connect" /\ s.token = issued'
      BY <2>3, <1>a, Zenon
    <3>2. Moved(p, s) /\ Exchanged(s)
      BY <2>3, <3>1 DEF Exchanged
    <3>. QED
      BY <2>1, <3>2, AnswerKeeps DEF t
  <2>. QED
    BY <2>1, <2>2, <2>3
<1>21. CASE Revoke(p)
  <2>1. /\ t.pc = "revoke" /\ good' \in {good, good \ {t.token}} /\ To(p, "delete")
        /\ UNCHANGED <<row, issued, crashes>>
    BY <1>21 DEF Revoke, At, t
  <2>. QED
    BY <2>1, <1>6, RevokeKeeps DEF t
<1>22. CASE Delete(p)
  <2>1. /\ t.pc = "delete" /\ t.user \in Users /\ row' = [row EXCEPT ![t.user] = NoRow]
        /\ Become(p, Idle) /\ UNCHANGED <<good, issued, crashes>>
    BY <1>22, <1>2 DEF Delete, At, t
  <2>2. RowsStand /\ row'[t.user] = NoRow
    BY <2>1, <1>1, WritesStand DEF RowsTyped
  <2>3. Settles(p)
    BY <2>1, <2>2 DEF Settles, t
  <2>. QED
    BY <2>1, <2>2, <2>3, <1>1, <1>5, <1>8
<1>23. CASE Unreadable(p)
  <2>1. /\ t.pc = "refresh" /\ good' \in {good, good \ {t.token}}
        /\ UNCHANGED <<row, issued>> /\ crashes' = crashes + 1
        /\ Become(p, Idle) \/ Again(p)
    BY <1>23 DEF Unreadable, At, t
  <2>2. Moved(p, s) /\ s.pc \notin TokenLabels /\ s.token = 0
    BY <2>1, <1>4, <1>5
  <2>. QED
    BY <2>1, <2>2, UnreadKeeps DEF t
<1>. QED
  BY <1>9, <1>10, <1>11, <1>12, <1>13, <1>14, <1>15, <1>16, <1>17, <1>18, <1>19, <1>20,
     <1>21, <1>22, <1>23 DEF Thread

LEMMA TokenStep == TypeInv /\ TokenInv /\ [Next]_vars => TokenInv'
<1>. SUFFICES ASSUME TypeInv, TokenInv, [Next]_vars
              PROVE  TokenInv'
  OBVIOUS
<1>. USE Bounds
<1>1. TypeInv' /\ RowsTyped
  BY TypeStep DEF TypeInv
<1>2. /\ th \in [Threads -> Task] /\ issued \in Nat /\ 0 <= issued /\ Worker \in Threads
      /\ \A p \in Threads : th[p].token <= issued
  BY Facts DEF TokenInv, Threads
<1>3. ASSUME NEW p \in Threads, Starts(p)
      PROVE  TokenInv'
  <2>1. PICK t : /\ Fresh(t) /\ t.pc # "revoke" /\ At(p, "idle") /\ Become(p, t)
                 /\ UNCHANGED <<row, good, issued, crashes>>
    BY <1>3 DEF Starts
  <2>2. RowsStand /\ Settles(p)
    BY <2>1 DEF RowsStand, Settles, At, Owing
  <2>3. Quiet(p, t)
    BY <1>2, <2>1, <2>2 DEF Quiet, Moved, Become, Fresh, TokenLabels
  <2>. QED
    BY <1>1, <2>3, QuietKeeps
<1>4. ASSUME NEW p \in Threads, Crash(p)
      PROVE  TokenInv'
  <2>1. Quiet(p, Idle)
    BY <1>2, <1>4, IdleTyped DEF Crash, Become, Quiet, Moved, RowsStand, TokenLabels
  <2>. QED
    BY <1>1, <2>1, QuietKeeps
<1>5. ASSUME NEW p \in Threads, NEW u \in Users, Disconnect(p, u)
      PROVE  TokenInv'
  <2>. DEFINE t == [Idle EXCEPT !.pc = "revoke", !.why = "disconnect", !.user = u,
                                !.token = row[u].refresh]
  <2>1. Fresh(t) /\ At(p, "idle") /\ Become(p, t) /\ row[u] # NoRow
    BY <1>5, Disconnecting
  <2>2. t.pc = "revoke" /\ t.user = u /\ t.token = row[u].refresh
    BY DEF Idle
  <2>. HIDE DEF t
  <2>3. Moved(p, t) /\ th[p].pc \notin Owing
    BY <2>1 DEF Moved, Fresh, Become, At, Owing
  <2>. QED
    BY <1>1, <1>5, <2>1, <2>2, <2>3, TakesKeeps DEF Disconnect
<1>6. ASSUME UNCHANGED <<th, good, issued, crashes>>, RowsStand
      PROVE  TokenInv'
  <2>1. \A u \in Users : \A x : Has(row'[u], x) => Has(row[u], x)
    BY <1>6 DEF Has, RowsStand
  <2>2. Spent' /\ Rotated'
    BY <1>6 DEF TokenInv, Spent, Rotated, RowsStand
  <2>3. SavesAlone' /\ ReadsOwn' /\ OwnTokens'
    BY <1>6, <2>1 DEF TokenInv, SavesAlone, ReadsOwn, OwnTokens
  <2>4. Flagged'
    BY <1>6 DEF TokenInv, Flagged, Broken, Pending, RowsStand
  <2>. QED
    BY <2>2, <2>3, <2>4 DEF TokenInv
<1>7. CASE MailArrives \/ UNCHANGED vars
  BY <1>6, <1>7 DEF MailArrives, vars, RowsStand
<1>8. ASSUME NEW u \in Users, TokenAges(u)
      PROVE  TokenInv'
  <2>1. RowsStand
    BY <1>1, <1>8 DEF TokenAges, RowsTyped, Row, RowsStand
  <2>. QED
    BY <1>6, <1>8, <2>1 DEF TokenAges
<1>. QED
  BY <1>1, <1>3, <1>4, <1>5, <1>7, <1>8, Steps, TokenThread

LEMMA TokenInit == Init => TokenInv
<1>. SUFFICES ASSUME Init
              PROVE  TokenInv
  OBVIOUS
<1>. USE Bounds
<1>1. PICK one : /\ consented \subseteq {one}
                 /\ good = IF consented = {} THEN {} ELSE {1}
                 /\ issued = Cardinality(good) /\ crashes = 0
  BY DEF Init
<1>2. \A u \in Users : row[u] # NoRow =>
         u = one /\ row[u].refresh = 1 /\ good = {1} /\ issued = 1
  BY <1>1, FS_Singleton DEF Init
<1>3. \A p \in Threads : th[p] = Idle
  BY DEF Init
<1>4. Spent
  <2>1. issued \in {0, 1} /\ good \subseteq 1..issued
    BY <1>1, FS_EmptySet, FS_Singleton
  <2>2. \A p \in Threads : th[p].token <= issued
    BY <1>3, <2>1, IdleTyped
  <2>3. \A u \in Users : row[u] # NoRow => row[u].refresh <= issued
    BY <1>2
  <2>. QED
    BY <1>1, <2>1, <2>2, <2>3 DEF Spent
<1>5. SavesAlone /\ Rotated /\ ReadsOwn
  BY <1>3, IdleTyped DEF SavesAlone, Rotated, ReadsOwn, Saves, Reads
<1>6. OwnTokens
  BY <1>2 DEF OwnTokens, Has
<1>7. Flagged
  BY <1>2 DEF Flagged, Broken
<1>. QED
  BY <1>4, <1>5, <1>6, <1>7 DEF TokenInv

(* Two refreshes with one rotating token, a reconnection, a disconnection  *)
(* in the middle: once nothing is under way, and if no thread died, an     *)
(* account the user consented to that shows as connected has a token the   *)
(* provider accepts (automation/tokens.py valid_access_token).             *)
THEOREM ConnectedWorks == Spec => []ConnectedIsUsable
<1>1. TypeInv /\ TokenInv => ConnectedIsUsable
  <2>. SUFFICES ASSUME TokenInv, \A p \in Threads : At(p, "idle"), crashes = 0,
                       NEW u \in Connected
                PROVE  row[u].refresh \in good \cup {0}
    BY DEF ConnectedIsUsable
  <2>1. u \in Users /\ row[u] # NoRow /\ row[u].status = "connected"
    BY DEF Connected
  <2>2. ~Pending(u)
    BY <2>1 DEF Pending, At
  <2>. QED
    BY <2>1, <2>2 DEF TokenInv, Flagged, Broken
<1>. QED
  BY <1>1, TypeInit, TypeStep, TokenInit, TokenStep, PTL DEF Spec
=============================================================================
