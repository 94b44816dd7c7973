---------------------------- MODULE BillingProofs ----------------------------
(***************************************************************************)
(* Proofs about Billing: for any users, customers, subscriptions and plans,*)
(* any number of periods and events, of crashes and of failed writes.      *)
(***************************************************************************)
EXTENDS Billing, SequenceTheorems, TLAPS

(***************************************************************************)
(* Types                                                                   *)
(***************************************************************************)

Labels == {"idle", "customer", "subscription", "access", "status", "invoice", "mark", "answer"}
ProviderTyped ==
    /\ psub \in [Subs -> ProviderSub \cup {NoRow}]
    /\ events \in Seq(Event) /\ Len(events) <= MaxEvents /\ now \in Periods
QueueTyped == outbox \subseteq DOMAIN events /\ ledger \subseteq DOMAIN events
TablesTyped ==
    /\ row \in [Subs -> Row \cup {NoRow}]
    /\ invoice \in [Invoices -> {"none", "open", "paid"}]
    /\ customer \in [Users -> Customers \cup {NoCustomer}]
    /\ approved \subseteq Users
HandlerTyped ==
    /\ pc \in Labels
    /\ ev \in 0..MaxEvents /\ (pc # "idle" => ev \in DOMAIN events)
    /\ who \in Users \cup {NoUser} /\ faults \in 0..MaxFaults
HistoryTyped == latest \in [Targets -> 0..MaxEvents] /\ disordered \subseteq Targets
TypeInv == ProviderTyped /\ QueueTyped /\ TablesTyped /\ HandlerTyped /\ HistoryTyped

(***************************************************************************)
(* What the provider says: the events of a subscription that a row follows,*)
(* each one period ahead of the one before it or level with it, and the    *)
(* last one level with the subscription.                                   *)
(***************************************************************************)

RowTypes == SubUpsert \cup SubStatus
            \cup {"subscription_payment_failed", "subscription_payment_recovered"}
RowEvents(s) == {n \in DOMAIN events : events[n].sub = s /\ events[n].type \in RowTypes}
PayOf(i) == {n \in DOMAIN events : /\ events[n].type \in PayEvents
                                   /\ events[n].sub = i[1] /\ events[n].end = i[2]}
Fails(x) == x.type = "subscription_payment_failed"

(* The end that a row has once x is applied to it in its turn.             *)
Told(x) == IF x.type \in {"subscription_payment_failed", "subscription_payment_recovered"}
           THEN x.end - 1 ELSE x.end

Sold(s) == psub[s] # NoRow /\ psub[s].status # "checkout"
Follows(p, n, s) == p < n /\ \A q \in RowEvents(s) : ~(p < q /\ q < n)

Born == \A s \in Subs : Sold(s) => psub[s].born < psub[s].end /\ RowEvents(s) # {}
HonestEvent(x) ==
    /\ Sold(x.sub) /\ 1 <= x.end
    /\ x.type \in RowTypes \ SubUpsert => StatusOf(x) = x.status
    /\ Fails(x) => x.end <= psub[x.sub].end + 1
    /\ ~Fails(x) => x.end <= psub[x.sub].end
    /\ x.type = "subscription_created" => x.end = psub[x.sub].born + 1
Honest == \A n \in DOMAIN events : HonestEvent(events[n])
Chain(s) ==
    \A n \in RowEvents(s) :
        /\ events[n].type = "subscription_created" <=> \A p \in RowEvents(s) : n <= p
        /\ \A p \in RowEvents(s) : Follows(p, n, s) =>
              \/ Told(events[n]) = Told(events[p])
              \/ /\ Told(events[n]) = Told(events[p]) + 1
                 /\ events[n].type \in SubUpsert
Chained == \A s \in Subs : Chain(s)
Last(s) ==
    \A n \in RowEvents(s) : (\A p \in RowEvents(s) : p <= n) =>
        events[n].status = psub[s].status /\ Told(events[n]) = psub[s].end
Tip == \A s \in Subs : Last(s)
Billed(i) ==
    \E m \in PayOf(i) : ~Fails(events[m]) /\ \A n \in PayOf(i) : n <= m
Settled ==
    \A s \in Subs : Sold(s) => \A k \in psub[s].born + 2 .. psub[s].end : Billed(<<s, k>>)
Story == Born /\ Honest /\ Chained /\ Tip /\ Settled

(***************************************************************************)
(* What the tables say of it.                                              *)
(***************************************************************************)

Reached(t, n) == n <= latest[t] /\ (n < latest[t] => t \in disordered)
Handling ==
    /\ pc \in {"customer", "subscription", "access", "invoice"} => who \in Users
    /\ pc = "customer" => e.type \in SubUpsert \cup {"order_created"}
    /\ pc \in {"subscription", "access"} => e.type \in SubUpsert
    /\ pc = "invoice" => e.type \in PayEvents
    /\ pc = "status" => e.type \in RowTypes \ SubUpsert
    /\ pc \in {"access", "mark"} =>
          /\ e.type \in SubUpsert => row[e.sub] # NoRow
          /\ e.type \in RowTypes => Reached(e.sub, ev)
    /\ pc \in {"status", "mark"} /\ e.type \in PayEvents /\ psub[e.sub].custom =>
          Reached(<<e.sub, e.end>>, ev)
Entered(n) ==
    LET x == events[n]
    IN  /\ x.type \in SubUpsert => row[x.sub] # NoRow
        /\ x.type \in RowTypes => n <= latest[x.sub]
        /\ x.type \in PayEvents /\ psub[x.sub].custom => n <= latest[<<x.sub, x.end>>]
Ledgered == \A n \in ledger : Entered(n)
LatestIs ==
    /\ \A s \in Subs : latest[s] # 0 => latest[s] \in RowEvents(s)
    /\ \A i \in Invoices : latest[i] # 0 => latest[i] \in PayOf(i)

(* An event was passed over, and is not ledgered yet.                      *)
Gap(s) == \E n \in RowEvents(s) : n < latest[s] /\ n \notin ledger
RowIs(s, x) == /\ row[s] # NoRow /\ row[s].status = x.status
               /\ row[s].end = Told(x) /\ row[s].start = Told(x) - 1
Exact(s) == s \in disordered \/ latest[s] = 0 \/ Gap(s) \/ RowIs(s, events[latest[s]])
RowExact == \A s \in Subs : Exact(s)
InvoiceIs(i) ==
    \/ i \in disordered \/ latest[i] = 0
    \/ invoice[i] = IF Fails(events[latest[i]]) THEN "open" ELSE "paid"
InvoiceExact == \A i \in Invoices : InvoiceIs(i)

Bought(u, c) == \E t \in Subs : psub[t] # NoRow /\ psub[t].user = u /\ psub[t].customer = c
Buyer(u, s) == (psub[s].custom => u = psub[s].user) /\ Bought(u, psub[s].customer)
WhoBuys == pc # "idle" /\ who # NoUser => Buyer(who, e.sub)
Buyers ==
    /\ WhoBuys
    /\ \A u \in Users : customer[u] # NoCustomer => Bought(u, customer[u])
    /\ \A s \in Subs : row[s] # NoRow => Buyer(row[s].user, s)
    /\ \A u \in approved : \E s \in Subs : psub[s] # NoRow /\ psub[s].user = u
Windows == \A s \in Subs : row[s] # NoRow => Sold(s) /\ row[s].start < psub[s].end
Kept == Handling /\ Ledgered /\ LatestIs /\ RowExact /\ InvoiceExact /\ Buyers /\ Windows

Inv == TypeInv /\ Story /\ Kept

(***************************************************************************)
(* Facts about the constants.                                              *)
(***************************************************************************)

LEMMA Bounds ==
    /\ NoUser \notin Users /\ NoCustomer \notin Customers
    /\ MaxPeriod \in Nat /\ MaxPeriod # 0 /\ MaxEvents \in Nat /\ MaxPending \in Nat
    /\ MaxFaults \in Nat /\ NoRow \notin Row /\ NoRow \notin ProviderSub
    /\ Subs \cap Invoices = {}
    /\ 0 \in Periods /\ 0 \in 0..MaxEvents /\ 0 \in 0..MaxFaults
  BY BillingAssumption, NamesAssumption DEF Periods

LEMMA EventTyped ==
    ASSUME ProviderTyped, NEW n \in DOMAIN events
    PROVE  /\ events[n] \in Event /\ events[n].sub \in Subs /\ events[n].type \in EventTypes
           /\ events[n].status \in Statuses /\ events[n].end \in Periods
           /\ events[n].end \in Int /\ events[n].plan \in Plans
           /\ n \in Int /\ 1 <= n /\ n <= Len(events) /\ n \in 0..MaxEvents /\ n # 0
           /\ DOMAIN events = 1..Len(events) /\ Len(events) \in Nat
<1>1. DOMAIN events = 1..Len(events) /\ Len(events) \in Nat /\ events[n] \in Event
  BY DEF ProviderTyped
<1>2. n \in 0..MaxEvents
  BY <1>1, Bounds DEF ProviderTyped
<1>. QED
  BY <1>1, <1>2, Bounds DEF Event, Periods

LEMMA SubTyped ==
    ASSUME ProviderTyped, NEW s \in Subs, psub[s] # NoRow
    PROVE  /\ psub[s] \in ProviderSub /\ psub[s].status \in Statuses \cup {"checkout"}
           /\ psub[s].end \in Periods /\ psub[s].end \in Int /\ psub[s].born \in Periods
           /\ psub[s].born \in Int /\ psub[s].user \in Users /\ psub[s].customer \in Customers
           /\ psub[s].custom \in BOOLEAN /\ psub[s].plan \in Plans /\ psub[s].stamped \in Plans
<1>1. psub[s] \in ProviderSub
  BY DEF ProviderTyped
<1>. QED
  BY <1>1, Bounds DEF ProviderSub, Periods

LEMMA InvoiceOf ==
    ASSUME ProviderTyped, NEW n \in DOMAIN events, 1 <= events[n].end
    PROVE  /\ <<events[n].sub, events[n].end>> \in Invoices
           /\ <<events[n].sub, events[n].end>> \in Targets /\ events[n].sub \in Targets
<1>1. events[n].sub \in Subs /\ events[n].end \in 1..MaxPeriod
  BY EventTyped, Bounds DEF Periods
<1>. QED
  BY <1>1 DEF Invoices, Targets

(***************************************************************************)
(* The steps that write no table: what is told stands, and what the tables *)
(* say of it.                                                              *)
(***************************************************************************)

LEMMA StoryStands ==
    ASSUME Story, UNCHANGED <<psub, events>>
    PROVE  Story'
<1>1. /\ \A s \in Subs : RowEvents(s)' = RowEvents(s) /\ (Sold(s)' <=> Sold(s))
      /\ \A i : PayOf(i)' = PayOf(i)
  BY DEF RowEvents, PayOf, Sold
<1>2. Born' /\ Honest'
  <2>1. Born'
    BY <1>1 DEF Story, Born
  <2>2. Honest'
    BY DEF Story, Honest, HonestEvent, Sold
  <2>. QED
    BY <2>1, <2>2
<1>3. Chained' /\ Tip'
  BY <1>1 DEF Story, Chained, Chain, Follows, Tip, Last
<1>4. Settled'
  BY <1>1 DEF Story, Settled, Billed
<1>. QED
  BY <1>2, <1>3, <1>4 DEF Story

(* The event in hand may be entered in the ledger.                         *)
Enters(n) ==
    /\ Entered(n)
    /\ events[n].type \in RowTypes /\ n < latest[events[n].sub] => events[n].sub \in disordered

LEMMA ClaimsStand ==
    ASSUME Inv, UNCHANGED <<psub, events, row, invoice, latest, disordered>>,
           ledger \subseteq ledger', \A n \in ledger' : n \notin ledger => Enters(n),
           Handling', Buyers'
    PROVE  Kept'
<1>1. \A s \in Subs : RowEvents(s)' = RowEvents(s) /\ (Sold(s)' <=> Sold(s))
  BY DEF RowEvents, Sold
<1>2. Ledgered'
  BY DEF Inv, Kept, Ledgered, Enters, Entered
<1>3. LatestIs' /\ InvoiceExact'
  BY DEF Inv, Kept, LatestIs, InvoiceExact, InvoiceIs, RowEvents, PayOf
<1>4. RowExact'
  <2>1. ASSUME NEW s \in Subs PROVE Exact(s)'
    <3>1. Exact(s)
      BY DEF Inv, Kept, RowExact
    <3>2. CASE s \in disordered \/ latest[s] = 0
      BY <3>2 DEF Exact
    <3>3. CASE RowIs(s, events[latest[s]])
      BY <3>3 DEF Exact, RowIs
    <3>4. ASSUME Gap(s), s \notin disordered PROVE Exact(s)'
      <4>1. PICK n \in RowEvents(s) : n < latest[s] /\ n \notin ledger
        BY <3>4 DEF Gap
      <4>2. events[n].sub = s /\ events[n].type \in RowTypes
        BY <4>1 DEF RowEvents
      <4>3. n \notin ledger'
        BY <3>4, <4>1, <4>2 DEF Enters
      <4>4. Gap(s)'
        BY <1>1, <4>1, <4>3 DEF Gap
      <4>. QED
        BY <4>4 DEF Exact
    <3>. QED
      BY <3>1, <3>2, <3>3, <3>4 DEF Exact
  <2>. QED
    BY <2>1 DEF RowExact
<1>5. Windows'
  BY <1>1 DEF Inv, Kept, Windows
<1>. QED
  BY <1>2, <1>3, <1>4, <1>5 DEF Kept

LEMMA TablesStand ==
    ASSUME Inv, UNCHANGED <<psub, events, row, invoice, customer, approved, latest, disordered>>,
           ledger \subseteq ledger', \A n \in ledger' : n \notin ledger => Enters(n),
           Handling', WhoBuys'
    PROVE  Kept'
<1>1. Buyers'
  BY DEF Inv, Kept, Buyers, Buyer, Bought
<1>. QED
  BY <1>1, ClaimsStand

LEMMA ReceiveKeeps ==
    ASSUME Inv, NEW n \in outbox, Receive(n)
    PROVE  Inv'
<1>1. /\ pc = "idle" /\ ev' = n /\ who' \in Resolved(events[n])
      /\ pc' = IF n \in ledger THEN "answer" ELSE FirstStep(events[n], who')
      /\ UNCHANGED <<psub, events, now, outbox, row, invoice, customer, approved, ledger,
                     faults, latest, disordered>>
  BY DEF Receive, provider, tables
<1>2. n \in DOMAIN events
  BY DEF Inv, TypeInv, QueueTyped
<1>. DEFINE x == events[n]
<1>3. /\ x.type \in EventTypes /\ n \in 0..MaxEvents /\ x.sub \in Subs /\ Sold(x.sub)
      /\ e' = x
  BY <1>1, <1>2, EventTyped DEF Inv, TypeInv, Story, Honest, HonestEvent, e
<1>4. psub[x.sub] # NoRow /\ psub[x.sub].user \in Users /\ psub[x.sub].customer \in Customers
  BY <1>3, SubTyped DEF Sold, Inv, TypeInv
<1>5. who' \in Users \cup {NoUser} /\ (who' # NoUser => Buyer(who', x.sub))
  <2>1. CASE CustomUser(x) # NoUser
    <3>1. who' = psub[x.sub].user
      BY <1>1, <2>1 DEF Resolved, CustomUser
    <3>. QED
      BY <1>3, <1>4, <3>1 DEF Buyer, Bought
  <2>2. CASE CustomUser(x) = NoUser
    <3>1. who' # NoUser => x.type # "order_created"
      BY <1>1, <2>2 DEF Resolved
    <3>2. who' # NoUser => ~psub[x.sub].custom
      BY <1>4, <2>2, <3>1, Bounds DEF CustomUser
    <3>3. who' = NoUser \/ (who' \in Users /\ customer[who'] = psub[x.sub].customer)
      BY <1>1, <2>2 DEF Resolved
    <3>4. who' # NoUser => Bought(who', psub[x.sub].customer)
      BY <1>4, <3>3, Bounds DEF Inv, Kept, Buyers
    <3>. QED
      BY <3>2, <3>3, <3>4 DEF Buyer
  <2>. QED
    BY <2>1, <2>2
<1>6. pc' \in Labels /\ pc' # "idle"
  BY <1>1 DEF FirstStep, Labels
<1>7. x.type \in PayEvents /\ psub[x.sub].custom => who' \in Users
  <2>1. x.type \in PayEvents /\ psub[x.sub].custom => CustomUser(x) = psub[x.sub].user
    BY DEF CustomUser, PayEvents
  <2>. QED
    BY <1>1, <1>4, <2>1, Bounds DEF Resolved
<1>8. n \notin ledger =>
      /\ pc' \in {"customer", "invoice", "status", "mark", "answer"}
      /\ pc' = "customer" => x.type \in SubUpsert \cup {"order_created"} /\ who' \in Users
      /\ pc' = "invoice" => x.type \in PayEvents /\ who' \in Users
      /\ pc' = "status" => /\ x.type \in RowTypes \ SubUpsert
                           /\ x.type \in PayEvents => who' = NoUser
      /\ pc' = "mark" => /\ x.type \in {"subscription_payment_success", "order_created"}
                         /\ x.type \in PayEvents => who' = NoUser
  BY <1>1, <1>3, <1>5 DEF FirstStep, EventTypes, SubUpsert, SubStatus, PayEvents, RowTypes
<1>9. Handling'
  <2>1. CASE n \in ledger
    BY <1>1, <2>1 DEF Handling
  <2>2. CASE n \notin ledger
    <3>1. pc' = "mark" => x.type \notin SubUpsert /\ x.type \notin RowTypes
      BY <1>8, <2>2 DEF SubUpsert, RowTypes, SubStatus
    <3>2. pc' \in {"status", "mark"} /\ x.type \in PayEvents => ~psub[x.sub].custom
      BY <1>7, <1>8, <2>2, Bounds
    <3>. QED
      BY <1>1, <1>3, <1>8, <2>2, <3>1, <3>2 DEF Handling
  <2>. QED
    BY <2>1, <2>2
<1>10. TypeInv'
  BY <1>1, <1>2, <1>3, <1>5, <1>6 DEF Inv, TypeInv, ProviderTyped, QueueTyped, TablesTyped,
                                      HandlerTyped, HistoryTyped
<1>11. Story'
  BY <1>1, StoryStands DEF Inv
<1>12. WhoBuys'
  BY <1>1, <1>3, <1>5 DEF WhoBuys, Buyer, Bought
<1>13. Kept'
  BY <1>1, <1>9, <1>12, TablesStand
<1>. QED
  BY <1>10, <1>11, <1>13 DEF Inv

LEMMA MarkKeeps ==
    ASSUME Inv, MarkProcessed
    PROVE  Inv'
<1>1. /\ pc = "mark" /\ ledger' = ledger \cup {ev} /\ pc' = "answer"
      /\ UNCHANGED <<psub, events, now, outbox, row, invoice, customer, approved, ev, who,
                     faults, latest, disordered>>
  BY DEF MarkProcessed, provider, tables
<1>2. ev \in DOMAIN events
  BY <1>1 DEF Inv, TypeInv, HandlerTyped
<1>3. Enters(ev)
  BY <1>1 DEF Inv, Kept, Handling, Enters, Entered, Reached, e
<1>4. Handling'
  BY <1>1 DEF Handling
<1>5. TypeInv'
  BY <1>1, <1>2 DEF Inv, TypeInv, ProviderTyped, QueueTyped, TablesTyped, HandlerTyped,
                    HistoryTyped, Labels
<1>6. WhoBuys'
  BY <1>1 DEF Inv, Kept, Buyers, WhoBuys, Buyer, Bought, e
<1>7. Kept'
  BY <1>1, <1>3, <1>4, <1>6, TablesStand
<1>. QED
  BY <1>1, <1>5, <1>7, StoryStands DEF Inv

(* The handler is done with its event, one way or another.                 *)
LEMMA IdleKeeps ==
    ASSUME Inv, Idle, faults' \in 0..MaxFaults, outbox' \subseteq outbox,
           UNCHANGED <<psub, events, now, row, invoice, customer, approved, ledger, latest,
                       disordered>>
    PROVE  Inv'
<1>1. pc' = "idle" /\ ev' = 0 /\ who' = NoUser
  BY DEF Idle
<1>2. Handling'
  BY <1>1 DEF Handling
<1>3. TypeInv'
  BY <1>1, Bounds DEF Inv, TypeInv, ProviderTyped, QueueTyped, TablesTyped, HandlerTyped,
                      HistoryTyped, Labels
<1>4. Kept'
  BY <1>1, <1>2, TablesStand DEF WhoBuys
<1>. QED
  BY <1>3, <1>4, StoryStands DEF Inv

LEMMA FaultBound == ASSUME TypeInv, Fault PROVE faults' \in 0..MaxFaults
  BY Bounds DEF TypeInv, HandlerTyped, Fault

LEMMA RestKeeps == Inv /\ (Answer \/ HandlerFails \/ Crash) => Inv'
<1>. SUFFICES ASSUME Inv, Answer \/ HandlerFails \/ Crash PROVE Inv'
  OBVIOUS
<1>1. /\ Idle /\ outbox' \subseteq outbox
      /\ UNCHANGED <<psub, events, now, row, invoice, customer, approved, ledger, latest,
                     disordered>>
  BY DEF Answer, HandlerFails, Crash, provider, tables
<1>2. faults' \in 0..MaxFaults
  <2>1. Answer => faults' = faults
    BY DEF Answer
  <2>2. HandlerFails \/ Crash => Fault
    BY DEF HandlerFails, Crash
  <2>. QED
    BY <2>1, <2>2, FaultBound DEF Inv, TypeInv, HandlerTyped
<1>. QED
  BY <1>1, <1>2, IdleKeeps

LEMMA ResendKeeps ==
    ASSUME Inv, NEW n \in DOMAIN events, Resend(n)
    PROVE  Inv'
<1>1. /\ outbox' = {n}
      /\ UNCHANGED <<psub, events, now, row, invoice, customer, approved, ledger, pc, ev, who,
                     faults, latest, disordered>>
  BY DEF Resend, provider, tables, handler
<1>2. Handling'
  BY <1>1 DEF Inv, Kept, Handling, Reached, e
<1>3. TypeInv'
  BY <1>1 DEF Inv, TypeInv, ProviderTyped, QueueTyped, TablesTyped, HandlerTyped, HistoryTyped
<1>4. WhoBuys'
  BY <1>1 DEF Inv, Kept, Buyers, WhoBuys, Buyer, Bought, e
<1>5. Kept'
  BY <1>1, <1>2, <1>4, TablesStand
<1>. QED
  BY <1>1, <1>3, <1>5, StoryStands DEF Inv

LEMMA RememberCustomerKeeps == Inv /\ RememberCustomer => Inv'
<1>. SUFFICES ASSUME Inv, RememberCustomer PROVE Inv'
  OBVIOUS
<1>1. /\ pc = "customer"
      /\ customer' = [customer EXCEPT ![who] = psub[e.sub].customer]
      /\ pc' = IF e.type = "order_created" THEN "mark" ELSE "subscription"
      /\ UNCHANGED <<psub, events, now, outbox, row, invoice, approved, ledger, ev, who, faults,
                     latest, disordered>>
  BY DEF RememberCustomer, Keep, provider
<1>2. /\ who \in Users /\ who # NoUser /\ e.type \in SubUpsert \cup {"order_created"}
      /\ ev \in DOMAIN events /\ e' = e
  BY <1>1, Bounds DEF Inv, TypeInv, HandlerTyped, Kept, Handling, e
<1>3. e.sub \in Subs /\ psub[e.sub] # NoRow /\ psub[e.sub].customer \in Customers
  <2>1. e.sub \in Subs /\ Sold(e.sub)
    BY <1>2, EventTyped DEF Inv, TypeInv, Story, Honest, HonestEvent, e
  <2>. QED
    BY <2>1, SubTyped DEF Sold, Inv, TypeInv
<1>4. Handling'
  <2>1. e.type = "order_created" => e.type \notin RowTypes \cup PayEvents
    BY DEF RowTypes, SubUpsert, SubStatus, PayEvents
  <2>2. "order_created" \notin SubUpsert
    BY DEF SubUpsert
  <2>. QED
    BY <1>1, <1>2, <2>1, <2>2 DEF Handling
<1>5. TypeInv'
  BY <1>1, <1>2, <1>3 DEF Inv, TypeInv, ProviderTyped, QueueTyped, TablesTyped, HandlerTyped,
                          HistoryTyped, Labels
<1>6. Buyers'
  <2>1. Buyer(who, e.sub)
    BY <1>1, <1>2 DEF Inv, Kept, Buyers, WhoBuys
  <2>2. WhoBuys'
    BY <1>1, <1>2, <2>1 DEF WhoBuys, Buyer, Bought
  <2>3. ASSUME NEW u \in Users, customer'[u] # NoCustomer PROVE Bought(u, customer[u])'
    <3>1. CASE u = who
      <4>1. customer'[u] = psub[e.sub].customer
        BY <1>1, <3>1 DEF Inv, TypeInv, TablesTyped
      <4>. QED
        BY <1>1, <2>1, <3>1, <4>1 DEF Buyer, Bought
    <3>2. CASE u # who
      BY <1>1, <2>3, <3>2 DEF Inv, Kept, Buyers, Bought, TypeInv, TablesTyped
    <3>. QED
      BY <3>1, <3>2
  <2>4. \A s \in Subs : row'[s] # NoRow => Buyer(row[s].user, s)'
    BY <1>1 DEF Inv, Kept, Buyers, Buyer, Bought
  <2>. QED
    BY <1>1, <2>2, <2>3, <2>4 DEF Inv, Kept, Buyers
<1>7. Kept'
  BY <1>1, <1>4, <1>6, ClaimsStand
<1>. QED
  BY <1>1, <1>5, <1>7, StoryStands DEF Inv

LEMMA GrantAccessKeeps == Inv /\ GrantAccess => Inv'
<1>. SUFFICES ASSUME Inv, GrantAccess PROVE Inv'
  OBVIOUS
<1>1. /\ pc = "access" /\ pc' = "mark"
      /\ approved \subseteq approved' /\ approved' \subseteq approved \cup {who}
      /\ UNCHANGED <<psub, events, now, outbox, row, invoice, customer, ledger, ev, who,
                     latest, disordered>>
  BY DEF GrantAccess, provider
<1>2. faults' \in 0..MaxFaults
  <2>1. faults' = faults \/ Fault
    BY DEF GrantAccess
  <2>. QED
    BY <2>1, FaultBound DEF Inv, TypeInv, HandlerTyped
<1>3. /\ who \in Users /\ who # NoUser /\ e.type \in SubUpsert /\ row[e.sub] # NoRow
      /\ e.type \in RowTypes => Reached(e.sub, ev)
      /\ e' = e
  BY <1>1, Bounds DEF Inv, Kept, Handling, e
<1>4. e.type \notin PayEvents
  BY <1>3 DEF SubUpsert, PayEvents
<1>5. Handling'
  BY <1>1, <1>3, <1>4 DEF Handling, Reached
<1>6. TypeInv'
  BY <1>1, <1>2, <1>3 DEF Inv, TypeInv, ProviderTyped, QueueTyped, TablesTyped, HandlerTyped,
                          HistoryTyped, Labels
<1>7. Buyers'
  <2>1. Buyer(who, e.sub)
    BY <1>1, <1>3 DEF Inv, Kept, Buyers, WhoBuys
  <2>2. WhoBuys'
    BY <1>1, <1>3, <2>1 DEF WhoBuys, Buyer, Bought
  <2>3. \E s \in Subs : psub[s] # NoRow /\ psub[s].user = who
    BY <2>1 DEF Buyer, Bought
  <2>4. \A u \in approved' : \E s \in Subs : psub'[s] # NoRow /\ psub'[s].user = u
    BY <1>1, <2>3 DEF Inv, Kept, Buyers
  <2>5. \A s \in Subs : row'[s] # NoRow => Buyer(row[s].user, s)'
    BY <1>1 DEF Inv, Kept, Buyers, Buyer, Bought
  <2>6. \A u \in Users : customer'[u] # NoCustomer => Bought(u, customer[u])'
    BY <1>1 DEF Inv, Kept, Buyers, Bought
  <2>. QED
    BY <2>2, <2>4, <2>5, <2>6 DEF Buyers
<1>8. Kept'
  BY <1>1, <1>5, <1>7, ClaimsStand
<1>. QED
  BY <1>1, <1>6, <1>8, StoryStands DEF Inv

(***************************************************************************)
(* A write of a row applies an event.                                      *)
(***************************************************************************)

(* Applied(t), of event n.                                                 *)
Applies(n, t) ==
    /\ latest' = [latest EXCEPT ![t] = IF n > latest[t] THEN n ELSE latest[t]]
    /\ disordered' = IF n < latest[t] THEN disordered \cup {t} ELSE disordered

LEMMA AppliesIs ==
    ASSUME Inv, NEW n \in DOMAIN events, NEW t \in Targets, Applies(n, t)
    PROVE  /\ HistoryTyped' /\ Reached(t, n)'
           /\ latest'[t] = n \/ (latest'[t] = latest[t] /\ n < latest[t])
           /\ n < latest[t] => t \in disordered'
           /\ n >= latest[t] => latest'[t] = n /\ disordered' = disordered
           /\ latest'[t] >= latest[t]
           /\ disordered \subseteq disordered' /\ disordered' \subseteq disordered \cup {t}
           /\ \A u \in Targets : u # t => latest'[u] = latest[u]
<1>1. n \in 0..MaxEvents /\ n \in Int /\ latest[t] \in Int
      /\ latest \in [Targets -> 0..MaxEvents] /\ disordered \subseteq Targets
  BY EventTyped DEF Inv, TypeInv, HistoryTyped
<1>2. HistoryTyped'
  BY <1>1 DEF Applies, HistoryTyped
<1>3. latest'[t] = IF n > latest[t] THEN n ELSE latest[t]
  BY <1>1 DEF Applies
<1>. QED
  BY <1>1, <1>2, <1>3 DEF Applies, Reached

LEMMA RowWriteKeeps ==
    ASSUME Inv, NEW n \in DOMAIN events, NEW s \in Subs, n \in RowEvents(s), Applies(n, s),
           UNCHANGED <<psub, events, invoice, ledger>>,
           \A d \in Subs : d # s => row'[d] = row[d],
           row[s] # NoRow => row'[s] # NoRow,
           events[n].type = "subscription_created" => RowIs(s, events[n])',
           RowIs(s, events[n]) => RowIs(s, events[n])',
           \A p \in RowEvents(s) :
              /\ RowIs(s, events[p])
              /\ \/ Told(events[n]) = Told(events[p])
                 \/ /\ Told(events[n]) = Told(events[p]) + 1
                    /\ events[n].type \in SubUpsert
              => RowIs(s, events[n])'
    PROVE  Ledgered' /\ LatestIs' /\ RowExact' /\ InvoiceExact'
<1>1. s \in Targets /\ (\A d \in Subs : d \in Targets) /\ (\A i \in Invoices : i \in Targets /\ i # s)
  BY Bounds DEF Targets
<1>2. /\ latest'[s] = n \/ (latest'[s] = latest[s] /\ n < latest[s])
      /\ n < latest[s] => s \in disordered'
      /\ n >= latest[s] => latest'[s] = n /\ disordered' = disordered
      /\ latest'[s] >= latest[s]
      /\ disordered \subseteq disordered'
      /\ \A u \in Targets : u # s => latest'[u] = latest[u]
  BY <1>1, AppliesIs
<1>3. n \in Int /\ 1 <= n /\ latest[s] \in Int /\ 0 <= latest[s]
      /\ \A q \in DOMAIN events : q \in Int /\ 1 <= q
  BY <1>1, EventTyped DEF Inv, TypeInv, HistoryTyped
<1>4. /\ \A d \in Subs : RowEvents(d)' = RowEvents(d)
      /\ \A i \in Invoices : PayOf(i)' = PayOf(i)
  BY DEF RowEvents, PayOf
<1>5. Ledgered'
  <2>1. ASSUME NEW q \in ledger PROVE Entered(q)'
    <3>. DEFINE x == events[q]
    <3>1. q \in DOMAIN events /\ Entered(q)
      BY DEF Inv, TypeInv, QueueTyped, Kept, Ledgered
    <3>2. x.sub \in Subs /\ 1 <= x.end
      BY <3>1, EventTyped DEF Inv, TypeInv, Story, Honest, HonestEvent
    <3>3. <<x.sub, x.end>> \in Invoices
      BY <3>1, <3>2, InvoiceOf DEF Inv, TypeInv
    <3>4. latest'[x.sub] >= latest[x.sub]
      <4>1. latest[x.sub] \in Int
        BY <1>1, <3>2 DEF Inv, TypeInv, HistoryTyped
      <4>. QED
        BY <1>1, <1>2, <3>2, <4>1
    <3>5. latest'[<<x.sub, x.end>>] = latest[<<x.sub, x.end>>]
      BY <1>1, <1>2, <3>3
    <3>6. latest[x.sub] \in Int /\ latest'[x.sub] \in Int /\ q \in Int
      BY <1>1, <1>2, <1>3, <3>1, <3>2 DEF Inv, TypeInv, HistoryTyped
    <3>7. x.type \in RowTypes => q <= latest'[x.sub]
      BY <3>1, <3>4, <3>6 DEF Entered
    <3>8. x.type \in SubUpsert => row'[x.sub] # NoRow
      BY <3>1, <3>2 DEF Entered
    <3>. QED
      BY <3>1, <3>5, <3>7, <3>8 DEF Entered
  <2>. QED
    BY <2>1 DEF Ledgered
<1>6. LatestIs'
  <2>1. ASSUME NEW d \in Subs, latest'[d] # 0 PROVE latest'[d] \in RowEvents(d)
    BY <1>1, <1>2, <2>1 DEF Inv, Kept, LatestIs
  <2>2. ASSUME NEW i \in Invoices, latest'[i] # 0 PROVE latest'[i] \in PayOf(i)
    BY <1>1, <1>2, <2>2 DEF Inv, Kept, LatestIs
  <2>. QED
    BY <1>4, <2>1, <2>2 DEF LatestIs
<1>7. InvoiceExact'
  BY <1>1, <1>2 DEF Inv, Kept, InvoiceExact, InvoiceIs
<1>8. ASSUME NEW d \in Subs, d # s PROVE Exact(d)'
  <2>1. Exact(d) /\ latest'[d] = latest[d] /\ row'[d] = row[d]
    BY <1>1, <1>2, <1>8 DEF Inv, Kept, RowExact
  <2>. QED
    BY <1>2, <1>4, <2>1 DEF Exact, Gap, RowIs
<1>9. Exact(s)'
  <2>. SUFFICES ASSUME s \notin disordered', ~Gap(s)' PROVE RowIs(s, events[n])'
    BY <1>2 DEF Exact
  <2>1. latest'[s] = n /\ s \notin disordered /\ n >= latest[s]
    BY <1>2, <1>3
  <2>2. ASSUME NEW q \in RowEvents(s), q < n PROVE q \in ledger /\ q <= latest[s]
    <3>1. q \in ledger
      BY <1>4, <2>1, <2>2 DEF Gap
    <3>. QED
      BY <3>1 DEF Inv, Kept, Ledgered, Entered, RowEvents
  <2>3. Exact(s) /\ Chain(s)
    BY DEF Inv, Kept, RowExact, Story, Chained
  <2>4. CASE latest[s] = 0
    <3>1. \A p \in RowEvents(s) : n <= p
      <4>1. ASSUME NEW p \in RowEvents(s), ~(n <= p) PROVE FALSE
        <5>1. p \in Int /\ 1 <= p
          BY <1>3 DEF RowEvents
        <5>2. p <= latest[s]
          BY <1>3, <2>2, <4>1, <5>1
        <5>. QED
          BY <2>4, <5>1, <5>2
      <4>. QED
        BY <4>1
    <3>2. events[n].type = "subscription_created"
      BY <2>3, <3>1 DEF Chain
    <3>. QED
      BY <3>2
  <2>5. CASE latest[s] # 0
    <3>1. latest[s] \in RowEvents(s)
      BY <2>5 DEF Inv, Kept, LatestIs
    <3>2. ~Gap(s)
      BY <1>3, <2>1, <2>2 DEF Gap, RowEvents
    <3>3. RowIs(s, events[latest[s]])
      BY <2>1, <2>3, <2>5, <3>2 DEF Exact
    <3>4. CASE latest[s] = n
      BY <3>3, <3>4
    <3>5. CASE latest[s] < n
      <4>1. Follows(latest[s], n, s)
        <5>1. ASSUME NEW q \in RowEvents(s), latest[s] < q, q < n PROVE FALSE
          BY <1>3, <2>2, <5>1 DEF RowEvents
        <5>. QED
          BY <3>5, <5>1 DEF Follows
      <4>. QED
        BY <2>3, <3>1, <3>3, <4>1 DEF Chain
    <3>. QED
      BY <1>3, <2>1, <3>4, <3>5
  <2>. QED
    BY <2>4, <2>5
<1>10. RowExact'
  BY <1>8, <1>9 DEF RowExact
<1>. QED
  BY <1>5, <1>6, <1>7, <1>10

LEMMA UpsertKeeps ==
    ASSUME Inv, UpsertSubscription, NEW n \in DOMAIN events, n = ev, NEW s \in Subs, s = e.sub,
           NEW x, x = events[n]
    PROVE  Inv'
<1>. DEFINE r == [user |-> who, plan |-> PlanFrom(e), status |-> e.status,
                  start |-> NewStart(e), end |-> e.end]
<1>1. /\ pc = "subscription" /\ row' = [row EXCEPT ![s] = r] /\ Applies(n, s)
      /\ pc' = IF x.status = "active" THEN "access" ELSE "mark"
      /\ UNCHANGED <<psub, events, now, outbox, invoice, customer, approved, ledger, ev, who,
                     faults>>
  BY DEF UpsertSubscription, Keep, Applied, Applies, provider, e
<1>2. /\ who \in Users /\ who # NoUser /\ e = x /\ e' = x /\ x.type \in SubUpsert
      /\ x.type \in RowTypes /\ x.type \notin PayEvents /\ n \in RowEvents(s) /\ s = x.sub
  BY <1>1, Bounds DEF Inv, Kept, Handling, e, RowTypes, SubUpsert, PayEvents, RowEvents
<1>3. /\ psub[s] # NoRow /\ psub[s].born \in Int /\ psub[s].born \in Periods
      /\ psub[s].plan \in Plans /\ psub[s].stamped \in Plans /\ psub[s].end \in Int
      /\ Sold(s) /\ psub[s].born < psub[s].end
  <2>1. Sold(s)
    BY <1>2 DEF Inv, Story, Honest, HonestEvent
  <2>. QED
    BY <2>1, SubTyped DEF Sold, Inv, TypeInv, Story, Born
<1>4. /\ x.status \in Statuses /\ x.end \in Periods /\ x.end \in Int /\ 1 <= x.end
      /\ x.plan \in Plans /\ x.end <= psub[s].end
      /\ x.type = "subscription_created" => x.end = psub[s].born + 1
  <2>1. ~Fails(x)
    BY <1>2 DEF Fails, SubUpsert
  <2>. QED
    BY <1>2, <2>1, EventTyped DEF Inv, TypeInv, Story, Honest, HonestEvent
<1>5. row[s] # NoRow => /\ row[s].end \in Periods /\ row[s].end \in Int
                        /\ row[s].start \in Periods /\ row[s].start \in Int
                        /\ row[s].start < psub[s].end
  <2>1. row[s] # NoRow => row[s] \in Row
    BY DEF Inv, TypeInv, TablesTyped
  <2>. QED
    BY <2>1, Bounds DEF Row, Periods, Inv, Kept, Windows
<1>6. NewStart(x) \in Periods /\ NewStart(x) < psub[s].end
  <2>1. CASE x.type = "subscription_created"
    BY <1>2, <1>3, <2>1 DEF NewStart
  <2>2. CASE x.type # "subscription_created" /\ row[s] = NoRow
    <3>1. NewStart(x) = x.end - 1 /\ x.end - 1 \in Periods
      BY <1>2, <1>4, <2>2, Bounds DEF NewStart, Periods
    <3>. QED
      BY <1>3, <1>4, <3>1
  <2>3. CASE x.type # "subscription_created" /\ row[s] # NoRow
    BY <1>2, <1>3, <1>4, <1>5, <2>3 DEF NewStart
  <2>. QED
    BY <2>1, <2>2, <2>3
<1>7. PlanFrom(x) \in Plans
  BY <1>2, <1>3, <1>4 DEF PlanFrom
<1>8. r \in Row
  BY <1>2, <1>4, <1>6, <1>7 DEF Row
<1>9. /\ r.user = who /\ r.status = x.status /\ r.start = NewStart(x) /\ r.end = x.end
      /\ r # NoRow
  BY <1>2, <1>8, Bounds
<1>. HIDE DEF r
<1>10. row'[s] = r /\ (\A d \in Subs : d # s => row'[d] = row[d])
       /\ row' \in [Subs -> Row \cup {NoRow}]
  BY <1>1, <1>8 DEF Inv, TypeInv, TablesTyped
<1>11. s \in Targets
  BY DEF Targets
<1>12. Reached(s, n)' /\ HistoryTyped'
  BY <1>1, <1>11, AppliesIs
<1>13. Told(x) = x.end
  BY <1>2 DEF Told, SubUpsert
<1>14. x.type = "subscription_created" => RowIs(s, x)'
  BY <1>2, <1>3, <1>4, <1>9, <1>10, <1>13 DEF RowIs, NewStart
<1>15. ASSUME RowIs(s, x) PROVE RowIs(s, x)'
  <2>1. row[s] # NoRow /\ row[s].end = x.end /\ row[s].start = x.end - 1
    BY <1>13, <1>15 DEF RowIs
  <2>2. NewStart(x) = x.end - 1
    BY <1>2, <1>3, <1>4, <2>1 DEF NewStart
  <2>. QED
    BY <1>9, <1>10, <1>13, <2>2 DEF RowIs
<1>16. ASSUME NEW p \in RowEvents(s), RowIs(s, events[p]),
              Told(x) = Told(events[p]) \/ Told(x) = Told(events[p]) + 1
       PROVE  RowIs(s, x)'
  <2>1. row[s] # NoRow /\ row[s].end = Told(events[p]) /\ row[s].start = row[s].end - 1
    BY <1>16 DEF RowIs
  <2>2. row[s].end \in Int
    BY <1>5, <2>1
  <2>3. NewStart(x) = x.end - 1
    BY <1>2, <1>3, <1>4, <1>13, <1>16, <2>1, <2>2 DEF NewStart
  <2>. QED
    BY <1>9, <1>10, <1>13, <2>3 DEF RowIs
<1>17. Ledgered' /\ LatestIs' /\ RowExact' /\ InvoiceExact'
  BY <1>1, <1>2, <1>9, <1>10, <1>14, <1>15, <1>16, RowWriteKeeps
<1>18. Handling'
  BY <1>1, <1>2, <1>9, <1>10, <1>12 DEF Handling, Reached
<1>19. TypeInv'
  BY <1>1, <1>10, <1>12 DEF Inv, TypeInv, ProviderTyped, QueueTyped, TablesTyped, HandlerTyped, Labels
<1>20. Buyers'
  <2>1. Buyer(who, s)
    BY <1>1, <1>2 DEF Inv, Kept, Buyers, WhoBuys
  <2>2. WhoBuys'
    BY <1>1, <1>2, <2>1 DEF WhoBuys, Buyer, Bought
  <2>3. \A u \in approved' : \E d \in Subs : psub'[d] # NoRow /\ psub'[d].user = u
    BY <1>1 DEF Inv, Kept, Buyers
  <2>4. ASSUME NEW d \in Subs, row'[d] # NoRow PROVE Buyer(row[d].user, d)'
    BY <1>1, <1>9, <1>10, <2>1, <2>4 DEF Inv, Kept, Buyers, Buyer, Bought
  <2>5. \A u \in Users : customer'[u] # NoCustomer => Bought(u, customer[u])'
    BY <1>1 DEF Inv, Kept, Buyers, Bought
  <2>. QED
    BY <2>2, <2>3, <2>4, <2>5 DEF Buyers
<1>21. Windows'
  <2>1. ASSUME NEW d \in Subs, row'[d] # NoRow PROVE Sold(d)' /\ row'[d].start < psub'[d].end
    <3>1. CASE d = s
      BY <1>1, <1>3, <1>6, <1>9, <1>10, <3>1 DEF Sold
    <3>2. CASE d # s
      BY <1>1, <1>10, <2>1, <3>2 DEF Sold, Inv, Kept, Windows
    <3>. QED
      BY <3>1, <3>2
  <2>. QED
    BY <2>1 DEF Windows
<1>. QED
  BY <1>1, <1>17, <1>18, <1>19, <1>20, <1>21, StoryStands DEF Inv, Kept

LEMMA SetStatusKeeps ==
    ASSUME Inv, SetStatus, NEW n \in DOMAIN events, n = ev, NEW s \in Subs, s = e.sub,
           NEW x, x = events[n]
    PROVE  Inv'
<1>. DEFINE ends == x.type \in {"subscription_cancelled", "subscription_expired"}
            end == IF ends THEN x.end ELSE row[s].end
            r == [row[s] EXCEPT !.status = StatusOf(x), !.end = end]
<1>1. /\ pc = "status" /\ row' = (IF row[s] = NoRow THEN row ELSE [row EXCEPT ![s] = r])
      /\ Applies(n, s) /\ pc' = "mark"
      /\ UNCHANGED <<psub, events, now, outbox, invoice, customer, approved, ledger, ev, who,
                     faults>>
  BY DEF SetStatus, Keep, Applied, Applies, provider, e
<1>2. /\ e = x /\ e' = x /\ x.type \in RowTypes \ SubUpsert /\ n \in RowEvents(s) /\ s = x.sub
      /\ x.type # "subscription_created"
      /\ x.type \in PayEvents /\ psub[s].custom => Reached(<<s, x.end>>, n)
  BY <1>1 DEF Inv, Kept, Handling, e, SubUpsert, RowEvents
<1>3. Sold(s) /\ StatusOf(x) = x.status /\ 1 <= x.end
  BY <1>2 DEF Inv, Story, Honest, HonestEvent
<1>4. x.status \in Statuses /\ x.end \in Periods /\ x.end \in Int
  BY EventTyped DEF Inv, TypeInv
<1>5. row[s] # NoRow => row[s] \in Row
  BY DEF Inv, TypeInv, TablesTyped
<1>6. row[s] # NoRow => /\ r \in Row /\ r.user = row[s].user /\ r.start = row[s].start
                        /\ r.status = x.status /\ r.end = end
  BY <1>3, <1>4, <1>5 DEF Row
<1>. HIDE DEF r
<1>7. row' \in [Subs -> Row \cup {NoRow}]
  BY <1>1, <1>6 DEF Inv, TypeInv, TablesTyped
<1>8. \A d \in Subs : (d # s => row'[d] = row[d]) /\ (row[d] = NoRow <=> row'[d] = NoRow)
  BY <1>1, <1>6, Bounds DEF Inv, TypeInv, TablesTyped
<1>9. row[s] # NoRow => /\ row'[s].user = row[s].user /\ row'[s].start = row[s].start
                        /\ row'[s].status = x.status /\ row'[s].end = end
  BY <1>1, <1>6 DEF Inv, TypeInv, TablesTyped
<1>10. ASSUME RowIs(s, x) PROVE RowIs(s, x)'
  <2>1. row[s] # NoRow /\ row[s].end = Told(x) /\ row[s].start = Told(x) - 1
    BY <1>10 DEF RowIs
  <2>2. end = Told(x)
    BY <2>1 DEF Told
  <2>. QED
    BY <1>8, <1>9, <2>1, <2>2 DEF RowIs
<1>11. ASSUME NEW p \in RowEvents(s), RowIs(s, events[p]), Told(x) = Told(events[p])
       PROVE  RowIs(s, x)'
  <2>1. row[s] # NoRow /\ row[s].end = Told(x) /\ row[s].start = Told(x) - 1
    BY <1>11 DEF RowIs
  <2>2. end = Told(x)
    BY <2>1 DEF Told
  <2>. QED
    BY <1>8, <1>9, <2>1, <2>2 DEF RowIs
<1>12. Ledgered' /\ LatestIs' /\ RowExact' /\ InvoiceExact'
  BY <1>1, <1>2, <1>8, <1>10, <1>11, RowWriteKeeps
<1>13. s \in Targets
  BY DEF Targets
<1>14. Reached(s, n)' /\ HistoryTyped'
  BY <1>1, <1>13, AppliesIs
<1>15. x.type \in PayEvents /\ psub[s].custom => Reached(<<s, x.end>>, n)'
  <2>. DEFINE i == <<s, x.end>>
  <2>1. i \in Invoices /\ i \in Targets
    BY <1>2, <1>3, InvoiceOf DEF Inv, TypeInv
  <2>2. i # s
    BY <2>1, Bounds
  <2>3. latest'[i] = latest[i] /\ disordered \subseteq disordered'
    BY <1>1, <1>13, <2>1, <2>2, AppliesIs
  <2>. QED
    BY <1>2, <2>3 DEF Reached
<1>16. Handling'
  BY <1>1, <1>2, <1>14, <1>15 DEF Handling
<1>17. TypeInv'
  BY <1>1, <1>7, <1>14 DEF Inv, TypeInv, ProviderTyped, QueueTyped, TablesTyped, HandlerTyped, Labels
<1>18. Buyers'
  <2>2. WhoBuys'
    BY <1>1, <1>2 DEF Inv, Kept, Buyers, WhoBuys, Buyer, Bought
  <2>3. \A u \in approved' : \E d \in Subs : psub'[d] # NoRow /\ psub'[d].user = u
    BY <1>1 DEF Inv, Kept, Buyers
  <2>4. ASSUME NEW d \in Subs, row'[d] # NoRow PROVE Buyer(row[d].user, d)'
    <3>1. row[d] # NoRow /\ row'[d].user = row[d].user
      BY <1>8, <1>9, <2>4
    <3>2. Buyer(row[d].user, d)
      BY <3>1 DEF Inv, Kept, Buyers
    <3>. QED
      BY <1>1, <3>1, <3>2 DEF Buyer, Bought
  <2>5. \A u \in Users : customer'[u] # NoCustomer => Bought(u, customer[u])'
    BY <1>1 DEF Inv, Kept, Buyers, Bought
  <2>. QED
    BY <2>2, <2>3, <2>4, <2>5 DEF Buyers
<1>19. Windows'
  <2>1. ASSUME NEW d \in Subs, row'[d] # NoRow PROVE Sold(d)' /\ row'[d].start < psub'[d].end
    <3>1. row[d] # NoRow /\ row'[d].start = row[d].start
      BY <1>8, <1>9, <2>1
    <3>. QED
      BY <1>1, <3>1 DEF Sold, Inv, Kept, Windows
  <2>. QED
    BY <2>1 DEF Windows
<1>. QED
  BY <1>1, <1>12, <1>16, <1>17, <1>18, <1>19, StoryStands DEF Inv, Kept

LEMMA RecordInvoiceKeeps ==
    ASSUME Inv, RecordInvoice, NEW n \in DOMAIN events, n = ev, NEW s \in Subs, s = e.sub,
           NEW i, i = <<e.sub, e.end>>, NEW x, x = events[n]
    PROVE  Inv'
<1>. DEFINE paid == IF Fails(x) THEN "open" ELSE "paid"
<1>1. /\ pc = "invoice" /\ invoice' = [invoice EXCEPT ![i] = paid] /\ Applies(n, i)
      /\ pc' = IF x.type = "subscription_payment_success" THEN "mark" ELSE "status"
      /\ UNCHANGED <<psub, events, now, outbox, row, customer, approved, ledger, ev, who,
                     faults>>
  BY DEF RecordInvoice, Keep, Applied, Applies, provider, e, Fails
<1>2. who \in Users /\ who # NoUser /\ e = x /\ e' = x /\ x.type \in PayEvents /\ s = x.sub
  BY <1>1, Bounds DEF Inv, Kept, Handling, e
<1>3. 1 <= x.end /\ x.end \in Int
  BY EventTyped DEF Inv, TypeInv, Story, Honest, HonestEvent
<1>4. i \in Invoices /\ i \in Targets /\ i = <<s, x.end>> /\ i[1] = s /\ i[2] = x.end
  BY <1>2, <1>3, InvoiceOf DEF Inv, TypeInv
<1>5. /\ HistoryTyped' /\ Reached(i, n)'
      /\ latest'[i] = n \/ (latest'[i] = latest[i] /\ n < latest[i])
      /\ n < latest[i] => i \in disordered'
      /\ n >= latest[i] => latest'[i] = n /\ disordered' = disordered
      /\ latest'[i] >= latest[i]
      /\ disordered \subseteq disordered'
      /\ \A u \in Targets : u # i => latest'[u] = latest[u]
  BY <1>1, <1>4, AppliesIs
<1>6. n \in PayOf(i)
  BY <1>2, <1>4 DEF PayOf
<1>7. (\A d \in Subs : d # i /\ d \in Targets) /\ (\A j \in Invoices : j \in Targets)
  BY <1>4, Bounds DEF Targets
<1>8. /\ \A d \in Subs : RowEvents(d)' = RowEvents(d)
      /\ \A j \in Invoices : PayOf(j)' = PayOf(j)
  BY <1>1 DEF RowEvents, PayOf
<1>9. \A d \in Subs : latest'[d] = latest[d]
  BY <1>5, <1>7
<1>10. Ledgered'
  <2>1. ASSUME NEW q \in ledger PROVE Entered(q)'
    <3>. DEFINE y == events[q]
    <3>1. q \in DOMAIN events /\ Entered(q)
      BY DEF Inv, TypeInv, QueueTyped, Kept, Ledgered
    <3>2. y.sub \in Subs /\ 1 <= y.end /\ q \in Int
      BY <3>1, EventTyped DEF Inv, TypeInv, Story, Honest, HonestEvent
    <3>3. <<y.sub, y.end>> \in Targets
      BY <3>1, <3>2, InvoiceOf DEF Inv, TypeInv
    <3>4. latest[<<y.sub, y.end>>] \in Int /\ latest'[<<y.sub, y.end>>] \in Int
      BY <1>5, <3>3 DEF Inv, TypeInv, HistoryTyped
    <3>5. latest'[<<y.sub, y.end>>] >= latest[<<y.sub, y.end>>]
      BY <1>5, <3>3, <3>4
    <3>6. y.type \in PayEvents /\ psub[y.sub].custom => q <= latest'[<<y.sub, y.end>>]
      BY <3>1, <3>2, <3>4, <3>5 DEF Entered
    <3>. QED
      BY <1>1, <1>9, <3>1, <3>2, <3>6 DEF Entered
  <2>. QED
    BY <1>1, <2>1 DEF Ledgered
<1>11. LatestIs'
  <2>1. ASSUME NEW d \in Subs, latest'[d] # 0 PROVE latest'[d] \in RowEvents(d)
    BY <1>9, <2>1 DEF Inv, Kept, LatestIs
  <2>2. ASSUME NEW j \in Invoices, latest'[j] # 0 PROVE latest'[j] \in PayOf(j)
    BY <1>5, <1>6, <1>7, <2>2 DEF Inv, Kept, LatestIs
  <2>. QED
    BY <1>8, <2>1, <2>2 DEF LatestIs
<1>12. RowExact'
  BY <1>1, <1>5, <1>8, <1>9 DEF Inv, Kept, RowExact, Exact, Gap, RowIs
<1>13. invoice'[i] = paid /\ (\A j \in Invoices : j # i => invoice'[j] = invoice[j])
       /\ invoice' \in [Invoices -> {"none", "open", "paid"}]
  BY <1>1, <1>4 DEF Inv, TypeInv, TablesTyped
<1>14. InvoiceExact'
  <2>1. ASSUME NEW j \in Invoices PROVE InvoiceIs(j)'
    <3>1. CASE j = i
      BY <1>1, <1>5, <1>13, <3>1 DEF InvoiceIs
    <3>2. CASE j # i
      BY <1>1, <1>5, <1>7, <1>13, <3>2 DEF Inv, Kept, InvoiceExact, InvoiceIs
    <3>. QED
      BY <3>1, <3>2
  <2>. QED
    BY <2>1 DEF InvoiceExact
<1>15. Handling'
  <2>1. x.type \notin SubUpsert
    BY <1>2 DEF SubUpsert, PayEvents
  <2>2. pc' = "mark" => x.type \notin RowTypes
    BY <1>1, <2>1 DEF RowTypes, SubUpsert, SubStatus
  <2>3. pc' = "status" => x.type \in RowTypes \ SubUpsert
    BY <1>1, <1>2, <2>1 DEF RowTypes, PayEvents
  <2>. QED
    BY <1>1, <1>2, <1>4, <1>5, <2>1, <2>2, <2>3 DEF Handling
<1>16. TypeInv'
  BY <1>1, <1>5, <1>13 DEF Inv, TypeInv, ProviderTyped, QueueTyped, TablesTyped, HandlerTyped, Labels
<1>17. Buyers'
  <2>1. WhoBuys'
    BY <1>1, <1>2 DEF Inv, Kept, Buyers, WhoBuys, Buyer, Bought
  <2>. QED
    BY <1>1, <2>1 DEF Inv, Kept, Buyers, Buyer, Bought
<1>18. Windows'
  BY <1>1 DEF Sold, Inv, Kept, Windows
<1>. QED
  BY <1>1, <1>10, <1>11, <1>12, <1>14, <1>15, <1>16, <1>17, <1>18, StoryStands DEF Inv, Kept

(***************************************************************************)
(* The provider's steps.                                                   *)
(***************************************************************************)

Telling(s, p, type) ==
    [type |-> type, sub |-> s, status |-> p.status, plan |-> p.plan,
     end |-> IF type = "subscription_payment_failed" THEN p.end + 1 ELSE p.end]

(* What a change of s to p adds to the events.                             *)
Adds(s, p, types) ==
    /\ DOMAIN events' = 1..(Len(events) + Len(types))
    /\ \A n \in DOMAIN events : n \in DOMAIN events' /\ events'[n] = events[n]
    /\ \A i \in 1..Len(types) : events'[Len(events) + i] = Telling(s, p, types[i])

LEMMA SayAdds ==
    ASSUME TypeInv, NEW s \in Subs, NEW p \in ProviderSub, NEW types \in Seq(EventTypes),
           p.status # "checkout",
           \A i \in 1..Len(types) : types[i] = "subscription_payment_failed" => p.end < MaxPeriod,
           Say(s, p, types)
    PROVE  TypeInv' /\ Adds(s, p, types)
<1>1. /\ Len(events) + Len(types) <= MaxEvents
      /\ psub' = [psub EXCEPT ![s] = p]
      /\ outbox' = outbox \cup (Len(events) + 1 .. Len(events) + Len(types))
      /\ UNCHANGED <<now, row, invoice, customer, approved, ledger, pc, ev, who, faults, latest,
                     disordered>>
  BY DEF Say, tables, handler
<1>. DEFINE more == [i \in DOMAIN types |-> Telling(s, p, types[i])]
<1>2. events' = events \o more
  BY DEF Say, Telling
<1>3. /\ events \in Seq(Event) /\ Len(events) \in Nat /\ DOMAIN events = 1..Len(events)
      /\ Len(types) \in Nat /\ DOMAIN types = 1..Len(types)
  BY DEF TypeInv, ProviderTyped
<1>4. ASSUME NEW i \in 1..Len(types) PROVE Telling(s, p, types[i]) \in Event
  <2>1. p.status \in Statuses /\ p.plan \in Plans /\ p.end \in 0..MaxPeriod
    BY DEF ProviderSub, Periods
  <2>2. types[i] \in EventTypes
    BY <1>3
  <2>3. types[i] = "subscription_payment_failed" => p.end + 1 \in 0..MaxPeriod
    BY <2>1, Bounds
  <2>. QED
    BY <2>1, <2>2, <2>3 DEF Telling, Event, Periods
<1>5. more \in Seq(Event) /\ Len(more) = Len(types) /\ \A i \in 1..Len(types) : more[i] = Telling(s, p, types[i])
  BY <1>3, <1>4
<1>. HIDE DEF more
<1>6. /\ events' \in Seq(Event) /\ Len(events') = Len(events) + Len(types)
      /\ \A i \in 1..Len(events) + Len(types) :
            events'[i] = IF i <= Len(events) THEN events[i] ELSE more[i - Len(events)]
  <2>1. ASSUME NEW a \in Seq(Event), NEW b \in Seq(Event)
        PROVE  /\ a \o b \in Seq(Event) /\ Len(a \o b) = Len(a) + Len(b)
               /\ \A i \in 1..Len(a) + Len(b) :
                     (a \o b)[i] = IF i <= Len(a) THEN a[i] ELSE b[i - Len(a)]
    BY ConcatProperties
  <2>2. events \in Seq(Event) /\ more \in Seq(Event) /\ Len(more) = Len(types)
    BY <1>3, <1>5
  <2>3. /\ events \o more \in Seq(Event) /\ Len(events \o more) = Len(events) + Len(types)
        /\ \A i \in 1..Len(events) + Len(types) :
              (events \o more)[i] = IF i <= Len(events) THEN events[i] ELSE more[i - Len(events)]
    BY <2>1, <2>2, Zenon
  <2>. QED
    BY <1>2, <2>3, Zenon
<1>7. DOMAIN events' = 1..(Len(events) + Len(types))
  BY <1>6
<1>8. \A n \in DOMAIN events : n \in DOMAIN events' /\ events'[n] = events[n]
  BY <1>3, <1>6, <1>7
<1>9. ASSUME NEW i \in 1..Len(types) PROVE events'[Len(events) + i] = Telling(s, p, types[i])
  <2>1. Len(events) + i \in 1..Len(events) + Len(types) /\ ~(Len(events) + i <= Len(events))
        /\ Len(events) + i - Len(events) = i
    BY <1>3
  <2>. QED
    BY <1>5, <1>6, <2>1
<1>10. ProviderTyped'
  BY <1>1, <1>6 DEF TypeInv, ProviderTyped
<1>11. QueueTyped'
  BY <1>1, <1>3, <1>7, <1>8 DEF TypeInv, QueueTyped
<1>12. HandlerTyped'
  BY <1>1, <1>8 DEF TypeInv, HandlerTyped
<1>. QED
  BY <1>1, <1>7, <1>8, <1>9, <1>10, <1>11, <1>12 DEF Adds, TypeInv, TablesTyped, HistoryTyped

(* The tables say of what was told before what they said.                  *)
Grows ==
    /\ \A n \in DOMAIN events : n \in DOMAIN events' /\ events'[n] = events[n]
    /\ \A d \in Subs : psub[d] # NoRow =>
          /\ psub'[d] # NoRow /\ psub'[d].user = psub[d].user
          /\ psub'[d].customer = psub[d].customer /\ psub'[d].custom = psub[d].custom
          /\ Sold(d) => Sold(d)' /\ psub[d].end <= psub'[d].end

LEMMA GrowsKeeps ==
    ASSUME Inv, TypeInv', Grows,
           UNCHANGED <<row, invoice, customer, approved, ledger, pc, ev, who, latest, disordered>>
    PROVE  Kept'
<1>1. /\ \A d \in Subs : RowEvents(d) \subseteq RowEvents(d)'
      /\ \A i \in Invoices : PayOf(i) \subseteq PayOf(i)'
  BY DEF Grows, RowEvents, PayOf
<1>2. ASSUME NEW n \in DOMAIN events
      PROVE  /\ events'[n] = events[n] /\ events[n].sub \in Subs
             /\ psub[events[n].sub] # NoRow
             /\ psub'[events[n].sub].custom = psub[events[n].sub].custom
             /\ psub'[events[n].sub].user = psub[events[n].sub].user
             /\ psub'[events[n].sub].customer = psub[events[n].sub].customer
  <2>1. events[n].sub \in Subs /\ Sold(events[n].sub)
    BY EventTyped DEF Inv, TypeInv, Story, Honest, HonestEvent
  <2>. QED
    BY <2>1 DEF Grows, Sold
<1>3. pc # "idle" => /\ ev \in DOMAIN events /\ e' = e /\ e.sub \in Subs /\ psub[e.sub] # NoRow
                     /\ psub'[e.sub].custom = psub[e.sub].custom
                     /\ psub'[e.sub].user = psub[e.sub].user
                     /\ psub'[e.sub].customer = psub[e.sub].customer
  BY <1>2 DEF Inv, TypeInv, HandlerTyped, e
<1>4. Handling'
  BY <1>3 DEF Inv, Kept, Handling, Reached
<1>5. Ledgered'
  <2>1. ASSUME NEW n \in ledger PROVE Entered(n)'
    <3>1. n \in DOMAIN events /\ Entered(n)
      BY DEF Inv, TypeInv, QueueTyped, Kept, Ledgered
    <3>. QED
      BY <1>2, <3>1 DEF Entered
  <2>. QED
    BY <2>1 DEF Ledgered
<1>6. LatestIs'
  BY <1>1 DEF Inv, Kept, LatestIs
<1>7. RowExact'
  <2>1. ASSUME NEW d \in Subs PROVE Exact(d)'
    <3>1. Exact(d) /\ (latest[d] # 0 => latest[d] \in DOMAIN events)
      BY DEF Inv, Kept, RowExact, LatestIs, RowEvents
    <3>2. Gap(d) => Gap(d)'
      BY <1>1 DEF Gap
    <3>3. latest[d] # 0 => (RowIs(d, events[latest[d]]) => RowIs(d, events[latest[d]])')
      BY <1>2, <3>1 DEF RowIs
    <3>. QED
      BY <3>1, <3>2, <3>3 DEF Exact
  <2>. QED
    BY <2>1 DEF RowExact
<1>8. InvoiceExact'
  <2>1. ASSUME NEW i \in Invoices PROVE InvoiceIs(i)'
    <3>1. InvoiceIs(i) /\ (latest[i] # 0 => latest[i] \in DOMAIN events)
      BY DEF Inv, Kept, InvoiceExact, LatestIs, PayOf
    <3>. QED
      BY <1>2, <3>1 DEF InvoiceIs
  <2>. QED
    BY <2>1 DEF InvoiceExact
<1>9. ASSUME NEW u, NEW c, Bought(u, c)
      PROVE  Bought(u, c)'
  BY <1>9 DEF Bought, Grows
<1>10. Buyers'
  <2>1. WhoBuys'
    <3>1. ASSUME pc # "idle", who # NoUser PROVE Buyer(who, e.sub)'
      <4>1. Buyer(who, e.sub)
        BY <3>1 DEF Inv, Kept, Buyers, WhoBuys
      <4>. QED
        BY <1>3, <1>9, <3>1, <4>1 DEF Buyer
    <3>. QED
      BY <3>1 DEF WhoBuys
  <2>2. ASSUME NEW d \in Subs, row[d] # NoRow PROVE Buyer(row[d].user, d)'
    <3>1. Buyer(row[d].user, d) /\ psub[d] # NoRow
      BY <2>2 DEF Inv, Kept, Buyers, Windows, Sold
    <3>2. psub'[d].user = psub[d].user /\ psub'[d].customer = psub[d].customer
          /\ psub'[d].custom = psub[d].custom
      BY <3>1 DEF Grows
    <3>. QED
      BY <1>9, <3>1, <3>2 DEF Buyer
  <2>3. \A u \in Users : customer[u] # NoCustomer => Bought(u, customer[u])'
    BY <1>9 DEF Inv, Kept, Buyers
  <2>4. \A u \in approved : \E d \in Subs : psub'[d] # NoRow /\ psub'[d].user = u
    BY DEF Inv, Kept, Buyers, Grows
  <2>. QED
    BY <2>1, <2>2, <2>3, <2>4 DEF Buyers
<1>11. Windows'
  <2>1. ASSUME NEW d \in Subs, row[d] # NoRow PROVE Sold(d)' /\ row[d].start < psub'[d].end
    <3>1. Sold(d) /\ row[d].start < psub[d].end /\ psub[d] # NoRow
      BY <2>1 DEF Inv, Kept, Windows, Sold
    <3>2. Sold(d)' /\ psub[d].end <= psub'[d].end
      BY <3>1 DEF Grows
    <3>3. psub'[d] # NoRow
      BY <3>1 DEF Grows
    <3>4. row[d].start \in Int /\ psub[d].end \in Int /\ psub'[d].end \in Int
      <4>1. row[d] \in Row
        BY <2>1 DEF Inv, TypeInv, TablesTyped
      <4>2. psub'[d] \in ProviderSub
        BY <3>3 DEF TypeInv, ProviderTyped
      <4>. QED
        BY <3>1, <4>1, <4>2, SubTyped, Bounds DEF Row, Periods, Inv, TypeInv, ProviderSub
    <3>. QED
      BY <3>1, <3>2, <3>4
  <2>. QED
    BY <2>1 DEF Windows
<1>. QED
  BY <1>4, <1>5, <1>6, <1>7, <1>8, <1>10, <1>11 DEF Kept

LEMMA CheckoutKeeps ==
    ASSUME Inv, NEW s \in Subs, NEW u \in Users, NEW c \in Customers, NEW plan \in Plans,
           NEW named \in BOOLEAN, NEW custom \in BOOLEAN, Checkout(s, u, c, plan, named, custom)
    PROVE  Inv'
<1>. DEFINE p == [status |-> "checkout", born |-> 0, end |-> 0, plan |-> plan, stamped |-> plan,
                  user |-> u, customer |-> c, named |-> named, custom |-> custom]
<1>1. /\ psub[s] = NoRow /\ psub' = [psub EXCEPT ![s] = p]
      /\ faults' = faults \/ Fault
      /\ UNCHANGED <<events, now, outbox, row, invoice, customer, approved, ledger, pc, ev, who,
                     latest, disordered>>
  BY DEF Checkout, tables
<1>2. p \in ProviderSub /\ p # NoRow /\ p.status = "checkout"
  BY Bounds DEF ProviderSub
<1>. HIDE DEF p
<1>3. psub'[s] = p /\ (\A d \in Subs : d # s => psub'[d] = psub[d])
      /\ psub' \in [Subs -> ProviderSub \cup {NoRow}]
  BY <1>1, <1>2 DEF Inv, TypeInv, ProviderTyped
<1>4. TypeInv'
  <2>1. faults' \in 0..MaxFaults
    BY <1>1, Bounds DEF Fault, Inv, TypeInv, HandlerTyped
  <2>. QED
    BY <1>1, <1>3, <2>1 DEF Inv, TypeInv, ProviderTyped, QueueTyped, TablesTyped, HandlerTyped, HistoryTyped
<1>5. ~Sold(s) /\ ~Sold(s)' /\ (\A d \in Subs : Sold(d)' <=> Sold(d))
      /\ (\A d \in Subs : d # s => psub'[d] = psub[d])
  BY <1>1, <1>2, <1>3 DEF Sold
<1>6. \A n \in DOMAIN events : events[n].sub \in Subs /\ events[n].sub # s
  BY <1>5, EventTyped DEF Inv, TypeInv, Story, Honest, HonestEvent
<1>7. /\ \A d \in Subs : RowEvents(d)' = RowEvents(d)
      /\ \A i : PayOf(i)' = PayOf(i)
      /\ RowEvents(s) = {}
  BY <1>1, <1>6 DEF RowEvents, PayOf
<1>8. Story'
  <2>1. Born'
    BY <1>5, <1>7 DEF Inv, Story, Born
  <2>2. Honest'
    <3>1. ASSUME NEW n \in DOMAIN events PROVE HonestEvent(events[n])'
      <4>1. HonestEvent(events[n]) /\ Sold(events[n].sub)'
            /\ psub'[events[n].sub] = psub[events[n].sub]
        BY <1>1, <1>5, <1>6 DEF Inv, Story, Honest, HonestEvent
      <4>. QED
        BY <1>1, <4>1 DEF HonestEvent
    <3>. QED
      BY <1>1, <3>1 DEF Honest
  <2>3. Chained'
    BY <1>1, <1>7 DEF Inv, Story, Chained, Chain, Follows
  <2>4. Tip'
    BY <1>1, <1>5, <1>7 DEF Inv, Story, Tip, Last
  <2>5. Settled'
    BY <1>1, <1>5, <1>7 DEF Inv, Story, Settled, Billed
  <2>. QED
    BY <2>1, <2>2, <2>3, <2>4, <2>5 DEF Story
<1>9. Grows
  BY <1>1, <1>5, SubTyped DEF Grows, Inv, TypeInv
<1>10. Kept'
  BY <1>1, <1>4, <1>9, GrowsKeeps
<1>. QED
  BY <1>4, <1>8, <1>10 DEF Inv

LEMMA TimePassesKeeps ==
    ASSUME Inv, TimePasses
    PROVE  Inv'
<1>1. /\ now < MaxPeriod /\ now' = now + 1
      /\ UNCHANGED <<psub, events, outbox, row, invoice, customer, approved, ledger, pc, ev, who,
                     faults, latest, disordered>>
  BY DEF TimePasses, tables, handler
<1>2. now' \in Periods
  BY <1>1, Bounds DEF Inv, TypeInv, ProviderTyped, Periods
<1>3. TypeInv'
  BY <1>1, <1>2 DEF Inv, TypeInv, ProviderTyped, QueueTyped, TablesTyped, HandlerTyped, HistoryTyped
<1>4. Grows
  BY <1>1, SubTyped DEF Grows, Sold, Inv, TypeInv
<1>5. Kept'
  BY <1>1, <1>3, <1>4, GrowsKeeps
<1>. QED
  BY <1>1, <1>3, <1>5, StoryStands DEF Inv

(* What is told of one subscription leaves the story of the others.        *)
StoryOf(s) ==
    /\ Sold(s) => psub[s].born < psub[s].end /\ RowEvents(s) # {}
    /\ \A n \in DOMAIN events : events[n].sub = s => HonestEvent(events[n])
    /\ Chain(s) /\ Last(s)
    /\ Sold(s) => \A k \in psub[s].born + 2 .. psub[s].end : Billed(<<s, k>>)

LEMMA OthersStand ==
    ASSUME Inv, NEW s \in Subs, NEW p, NEW types \in Seq(EventTypes),
           psub' = [psub EXCEPT ![s] = p], Adds(s, p, types), StoryOf(s)', ProviderTyped'
    PROVE  Story'
<1>1. psub \in [Subs -> ProviderSub \cup {NoRow}] /\ DOMAIN events = 1..Len(events)
      /\ Len(events) \in Nat /\ Len(types) \in Nat
  BY DEF Inv, TypeInv, ProviderTyped
<1>2. ASSUME NEW n \in DOMAIN events', n \notin DOMAIN events
      PROVE  events'[n].sub = s
  <2>1. n - Len(events) \in 1..Len(types) /\ Len(events) + (n - Len(events)) = n
    BY <1>1, <1>2 DEF Adds
  <2>2. events'[n] = Telling(s, p, types[n - Len(events)])
    BY <2>1 DEF Adds
  <2>. QED
    BY <2>2 DEF Telling
<1>3. \A n \in DOMAIN events : n \in DOMAIN events' /\ events'[n] = events[n]
  BY DEF Adds
<1>4. ASSUME NEW d \in Subs, d # s
      PROVE  /\ RowEvents(d)' = RowEvents(d) /\ psub'[d] = psub[d] /\ (Sold(d)' <=> Sold(d))
             /\ \A k : PayOf(<<d, k>>)' = PayOf(<<d, k>>)
  <2>1. psub'[d] = psub[d]
    BY <1>1, <1>4
  <2>. QED
    BY <1>2, <1>3, <1>4, <2>1 DEF RowEvents, PayOf, Sold
<1>5. Born'
  BY <1>4 DEF Inv, Story, Born, StoryOf
<1>6. Honest'
  <2>1. ASSUME NEW n \in DOMAIN events' PROVE HonestEvent(events[n])'
    <3>1. CASE events'[n].sub = s
      BY <3>1 DEF StoryOf
    <3>2. CASE events'[n].sub # s
      <4>1. n \in DOMAIN events /\ events'[n] = events[n] /\ events[n].sub \in Subs
            /\ HonestEvent(events[n])
        BY <1>2, <1>3, <3>2, EventTyped DEF Inv, TypeInv, Story, Honest
      <4>2. (Sold(events[n].sub)' <=> Sold(events[n].sub))
            /\ psub'[events[n].sub] = psub[events[n].sub]
        BY <1>4, <3>2, <4>1
      <4>. QED
        BY <4>1, <4>2 DEF HonestEvent, Sold
    <3>. QED
      BY <3>1, <3>2
  <2>. QED
    BY <2>1 DEF Honest
<1>7. Chained'
  <2>1. ASSUME NEW d \in Subs PROVE Chain(d)'
    <3>1. CASE d = s
      BY <3>1 DEF StoryOf
    <3>2. CASE d # s
      BY <1>3, <1>4, <3>2 DEF Inv, Story, Chained, Chain, Follows, RowEvents
    <3>. QED
      BY <3>1, <3>2
  <2>. QED
    BY <2>1 DEF Chained
<1>8. Tip'
  <2>1. ASSUME NEW d \in Subs PROVE Last(d)'
    <3>1. CASE d = s
      BY <3>1 DEF StoryOf
    <3>2. CASE d # s
      BY <1>3, <1>4, <3>2 DEF Inv, Story, Tip, Last, RowEvents
    <3>. QED
      BY <3>1, <3>2
  <2>. QED
    BY <2>1 DEF Tip
<1>9. Settled'
  <2>1. ASSUME NEW d \in Subs, Sold(d)', NEW k \in psub'[d].born + 2 .. psub'[d].end
        PROVE  Billed(<<d, k>>)'
    <3>1. CASE d = s
      BY <2>1, <3>1 DEF StoryOf
    <3>2. CASE d # s
      <4>1. Billed(<<d, k>>)
        BY <1>4, <2>1, <3>2 DEF Inv, Story, Settled
      <4>2. PayOf(<<d, k>>)' = PayOf(<<d, k>>)
        BY <1>4, <3>2
      <4>3. \A n \in PayOf(<<d, k>>) : events'[n] = events[n]
        BY <1>3 DEF PayOf
      <4>. QED
        BY <4>1, <4>2, <4>3 DEF Billed
    <3>. QED
      BY <3>1, <3>2
  <2>. QED
    BY <2>1 DEF Settled
<1>. QED
  BY <1>5, <1>6, <1>7, <1>8, <1>9 DEF Story

(* A subscription goes on: the events a and b, or a alone, are told of it, *)
(* the first level with the end it had or one period ahead.                *)
LEMMA ChainMore ==
    ASSUME Inv, NEW s \in Subs, Sold(s), NEW a \in Nat, NEW b \in Nat,
           \A n \in DOMAIN events : n \in DOMAIN events' /\ events'[n] = events[n],
           Len(events) < a, a <= b, RowEvents(s)' = RowEvents(s) \cup {a, b},
           events'[a].type # "subscription_created", events'[b].type # "subscription_created",
           \/ Told(events'[a]) = psub[s].end
           \/ Told(events'[a]) = psub[s].end + 1 /\ events'[a].type \in SubUpsert,
           a # b => \/ Told(events'[b]) = Told(events'[a])
                    \/ Told(events'[b]) = Told(events'[a]) + 1 /\ events'[b].type \in SubUpsert,
           events'[b].status = psub'[s].status, Told(events'[b]) = psub'[s].end
    PROVE  Chain(s)' /\ Last(s)'
<1>1. DOMAIN events = 1..Len(events) /\ Len(events) \in Nat
  BY DEF Inv, TypeInv, ProviderTyped
<1>2. \A n \in RowEvents(s) : /\ n \in Int /\ n < a /\ n < b /\ events'[n] = events[n]
                              /\ n \in RowEvents(s)'
  BY <1>1 DEF RowEvents
<1>3. a \in RowEvents(s)' /\ b \in RowEvents(s)'
  OBVIOUS
<1>4. PICK q \in RowEvents(s) : TRUE
  BY DEF Inv, Story, Born
<1>5. \A n \in RowEvents(s)' : n \in RowEvents(s) \/ n = a \/ n = b
  OBVIOUS
<1>6. Chain(s) /\ Last(s)
  BY DEF Inv, Story, Chained, Tip
<1>7. ASSUME NEW n \in RowEvents(s)'
      PROVE  events'[n].type = "subscription_created" <=> \A p \in RowEvents(s)' : n <= p
  <2>1. CASE n \in RowEvents(s)
    <3>1. (\A p \in RowEvents(s)' : n <= p) <=> (\A p \in RowEvents(s) : n <= p)
      BY <1>2, <1>5, <2>1
    <3>. QED
      BY <1>2, <1>6, <2>1, <3>1 DEF Chain
  <2>2. CASE n = a \/ n = b
    BY <1>2, <1>4, <2>2
  <2>. QED
    BY <1>5, <2>1, <2>2
<1>8. ASSUME NEW n \in RowEvents(s)', NEW p \in RowEvents(s)', Follows(p, n, s)'
      PROVE  \/ Told(events'[n]) = Told(events'[p])
             \/ Told(events'[n]) = Told(events'[p]) + 1 /\ events'[n].type \in SubUpsert
  <2>1. p < n /\ \A r \in RowEvents(s)' : ~(p < r /\ r < n)
    BY <1>8 DEF Follows
  <2>2. CASE n \in RowEvents(s)
    <3>1. p \in RowEvents(s)
      BY <1>2, <1>5, <2>1, <2>2
    <3>2. Follows(p, n, s)
      BY <1>2, <2>1 DEF Follows
    <3>. QED
      BY <1>2, <1>6, <2>2, <3>1, <3>2 DEF Chain
  <2>3. CASE n = a
    <3>1. p \in RowEvents(s)
      BY <1>5, <2>1, <2>3
    <3>2. \A r \in RowEvents(s) : r <= p
      BY <1>2, <2>1, <2>3, <3>1
    <3>3. Told(events[p]) = psub[s].end /\ events'[p] = events[p]
      BY <1>2, <1>6, <3>1, <3>2 DEF Last
    <3>. QED
      BY <2>3, <3>3
  <2>4. CASE n = b /\ a # b
    <3>1. p = a
      BY <1>2, <1>3, <1>5, <2>1, <2>4
    <3>. QED
      BY <2>4, <3>1
  <2>. QED
    BY <1>5, <2>2, <2>3, <2>4
<1>9. Chain(s)'
  BY <1>7, <1>8 DEF Chain
<1>10. ASSUME NEW n \in RowEvents(s)', \A p \in RowEvents(s)' : p <= n
       PROVE  n = b
  BY <1>2, <1>3, <1>5, <1>10
<1>11. Last(s)'
  BY <1>10 DEF Last
<1>. QED
  BY <1>9, <1>11

(* What it has been billed for stays billed.                               *)
LEMMA BilledMore ==
    ASSUME Inv, NEW s \in Subs, Sold(s), NEW k \in Int,
           psub[s].born + 2 <= k, k <= psub[s].end,
           \A n \in DOMAIN events : n \in DOMAIN events' /\ events'[n] = events[n],
           \A n \in DOMAIN events' : n \notin DOMAIN events /\ events'[n].type \in PayEvents =>
                psub[s].end < events'[n].end
    PROVE  Billed(<<s, k>>)'
<1>1. psub[s].end \in Int /\ psub[s].born \in Int
  BY SubTyped DEF Inv, TypeInv, Sold
<1>2. Billed(<<s, k>>)
  BY <1>1 DEF Inv, Story, Settled
<1>3. PayOf(<<s, k>>)' = PayOf(<<s, k>>)
  <2>1. \A n \in DOMAIN events' : n \notin DOMAIN events => n \notin PayOf(<<s, k>>)'
    BY <1>1 DEF PayOf
  <2>. QED
    BY <2>1 DEF PayOf
<1>4. \A n \in PayOf(<<s, k>>) : events'[n] = events[n]
  BY DEF PayOf
<1>. QED
  BY <1>2, <1>3, <1>4 DEF Billed

(* The events of a subscription stay honest, and so are the ones it adds.  *)
LEMMA HonestMore ==
    ASSUME Inv, NEW s \in Subs, Sold(s), NEW p \in ProviderSub, p.status # "checkout",
           p.born = psub[s].born, psub[s].end <= p.end,
           NEW types \in Seq(EventTypes), psub' = [psub EXCEPT ![s] = p], Adds(s, p, types),
           \A i \in 1..Len(types) :
              /\ types[i] # "subscription_created"
              /\ types[i] \in RowTypes \ SubUpsert => StatusOf(Telling(s, p, types[i])) = p.status
    PROVE  \A n \in DOMAIN events' : events'[n].sub = s => HonestEvent(events[n])'
<1>1. /\ DOMAIN events = 1..Len(events) /\ Len(events) \in Nat /\ Len(types) \in Nat
      /\ psub[s].born \in Int /\ psub[s].end \in Int /\ psub[s].born < psub[s].end
      /\ psub[s].born \in Periods
  BY SubTyped DEF Inv, TypeInv, ProviderTyped, Sold, Story, Born
<1>2. psub'[s] = p /\ p # NoRow /\ p.end \in Int
  BY Bounds DEF Inv, TypeInv, ProviderTyped, ProviderSub, Periods
<1>3. ASSUME NEW n \in DOMAIN events', events'[n].sub = s
      PROVE  HonestEvent(events[n])'
  <2>1. CASE n \in DOMAIN events
    <3>1. events'[n] = events[n] /\ HonestEvent(events[n]) /\ events[n].end \in Int
      BY <2>1, EventTyped DEF Adds, Inv, TypeInv, Story, Honest
    <3>. QED
      BY <1>1, <1>2, <1>3, <3>1 DEF HonestEvent, Sold, Fails
  <2>2. CASE n \notin DOMAIN events
    <3>. DEFINE i == n - Len(events)
    <3>1. i \in 1..Len(types) /\ Len(events) + i = n
      BY <1>1, <2>2 DEF Adds
    <3>2. events'[n] = Telling(s, p, types[i]) /\ types[i] \in EventTypes
      BY <3>1 DEF Adds
    <3>. HIDE DEF i
    <3>3. /\ events'[n].type = types[i] /\ events'[n].sub = s
          /\ events'[n].status = p.status
          /\ events'[n].end = IF types[i] = "subscription_payment_failed" THEN p.end + 1 ELSE p.end
      BY <3>2 DEF Telling
    <3>4. events'[n].type \in RowTypes \ SubUpsert => StatusOf(events'[n]) = p.status
      BY <3>1, <3>2, <3>3
    <3>5. 1 <= events'[n].end
      BY <1>1, <1>2, <3>3, Bounds DEF Periods
    <3>. QED
      BY <1>1, <1>2, <3>1, <3>3, <3>4, <3>5 DEF HonestEvent, Sold, Fails
  <2>. QED
    BY <2>1, <2>2
<1>. QED
  BY <1>3

(* A subscription that was sold goes on and tells of it: a and b are the   *)
(* places of the events a row follows.                                     *)
Same(s, p) ==
    /\ p.status # "checkout" /\ p.born = psub[s].born /\ p.user = psub[s].user
    /\ p.customer = psub[s].customer /\ p.custom = psub[s].custom
Tells(s, p, types) ==
    \A i \in 1..Len(types) :
       /\ types[i] # "subscription_created"
       /\ types[i] \in RowTypes \ SubUpsert => StatusOf(Telling(s, p, types[i])) = p.status
       /\ types[i] = "subscription_payment_failed" => p.end < MaxPeriod
       /\ types[i] \in PayEvents => psub[s].end < Telling(s, p, types[i]).end
Places(types, a, b) ==
    /\ a \in 1..Len(types) /\ b \in 1..Len(types) /\ a <= b
    /\ \A i \in 1..Len(types) : types[i] \in RowTypes <=> i \in {a, b}
Levels(s, p, types, a, b) ==
    /\ \/ Told(Telling(s, p, types[a])) = psub[s].end
       \/ Told(Telling(s, p, types[a])) = psub[s].end + 1 /\ types[a] \in SubUpsert
    /\ a # b => \/ Told(Telling(s, p, types[b])) = Told(Telling(s, p, types[a]))
                \/ /\ Told(Telling(s, p, types[b])) = Told(Telling(s, p, types[a])) + 1
                   /\ types[b] \in SubUpsert
    /\ Told(Telling(s, p, types[b])) = p.end
PaidFor(s, p, types) ==
    \/ p.end = psub[s].end
    \/ /\ p.end = psub[s].end + 1
       /\ \E m \in 1..Len(types) :
             /\ types[m] \in PayEvents /\ types[m] # "subscription_payment_failed"
             /\ \A i \in 1..Len(types) : types[i] \in PayEvents => i <= m

LEMMA GoesOn ==
    ASSUME Inv, NEW s \in Subs, Sold(s), NEW p \in ProviderSub, NEW types \in Seq(EventTypes),
           NEW a, NEW b, Say(s, p, types), Same(s, p), Tells(s, p, types), Places(types, a, b),
           Levels(s, p, types, a, b), PaidFor(s, p, types)
    PROVE  Inv'
<1>. USE DEF Same, Tells, Places, Levels, PaidFor
<1>. DEFINE L == Len(events)
<1>1. TypeInv' /\ Adds(s, p, types)
  BY SayAdds DEF Inv
<1>2. /\ psub' = [psub EXCEPT ![s] = p]
      /\ UNCHANGED <<now, row, invoice, customer, approved, ledger, pc, ev, who, faults, latest,
                     disordered>>
  BY DEF Say, tables, handler
<1>3. /\ DOMAIN events = 1..L /\ L \in Nat /\ Len(types) \in Nat /\ DOMAIN events' = 1..(L + Len(types))
      /\ \A n \in DOMAIN events : n \in DOMAIN events' /\ events'[n] = events[n]
      /\ psub[s] # NoRow
  BY <1>1 DEF Inv, TypeInv, ProviderTyped, Adds, Sold
<1>4. /\ psub'[s] = p /\ p # NoRow /\ p.end \in Int /\ psub[s].end \in Int /\ psub[s].born \in Int
      /\ psub[s].born < psub[s].end
      /\ \A d \in Subs : d # s => psub'[d] = psub[d]
  BY <1>2, SubTyped, Bounds DEF Inv, TypeInv, ProviderTyped, ProviderSub, Periods, Sold, Story, Born
<1>5. psub[s].end <= p.end
  BY <1>4
<1>6. ASSUME NEW i \in 1..Len(types)
      PROVE  /\ L + i \in DOMAIN events' /\ L + i \notin DOMAIN events
             /\ events'[L + i] = Telling(s, p, types[i])
             /\ events'[L + i].type = types[i] /\ events'[L + i].sub = s
             /\ events'[L + i].status = p.status
             /\ events'[L + i].end = Telling(s, p, types[i]).end
             /\ types[i] # "subscription_payment_failed" => events'[L + i].end = p.end
             /\ L + i \in Int /\ i \in Int
  <2>1. events'[L + i] = Telling(s, p, types[i])
    BY <1>1 DEF Adds
  <2>. QED
    BY <1>3, <2>1 DEF Telling
<1>7. ASSUME NEW n \in DOMAIN events', n \notin DOMAIN events
      PROVE  \E i \in 1..Len(types) : n = L + i
  <2>1. n - L \in 1..Len(types) /\ n = L + (n - L)
    BY <1>3, <1>7
  <2>. QED
    BY <2>1
<1>. HIDE DEF L
<1>8. RowEvents(s)' = RowEvents(s) \cup {L + a, L + b}
  <2>1. ASSUME NEW n \in DOMAIN events', n \notin DOMAIN events
        PROVE  n \in RowEvents(s)' <=> n \in {L + a, L + b}
    <3>1. PICK i \in 1..Len(types) : n = L + i
      BY <1>7, <2>1
    <3>2. n \in RowEvents(s)' <=> types[i] \in RowTypes
      BY <1>6, <3>1 DEF RowEvents
    <3>3. n \in {L + a, L + b} <=> i \in {a, b}
      BY <1>3, <3>1
    <3>. QED
      BY <3>2, <3>3
  <2>2. \A n \in DOMAIN events : n \in RowEvents(s)' <=> n \in RowEvents(s)
    BY <1>3 DEF RowEvents
  <2>3. L + a \in DOMAIN events' \ DOMAIN events /\ L + b \in DOMAIN events' \ DOMAIN events
    BY <1>6
  <2>4. RowEvents(s)' \subseteq DOMAIN events' /\ RowEvents(s) \subseteq DOMAIN events
    BY DEF RowEvents
  <2>. QED
    BY <1>3, <2>1, <2>2, <2>3, <2>4
<1>9. Chain(s)' /\ Last(s)'
  <2>1. L + a \in Nat /\ L + b \in Nat /\ Len(events) < L + a /\ L + a <= L + b
        /\ (L + a # L + b => a # b)
    BY <1>3 DEF L
  <2>2. /\ events'[L + a] = Telling(s, p, types[a]) /\ events'[L + b] = Telling(s, p, types[b])
        /\ events'[L + a].type = types[a] /\ events'[L + b].type = types[b]
        /\ events'[L + b].status = psub'[s].status
    BY <1>4, <1>6
  <2>. QED
    BY <1>3, <1>4, <1>8, <2>1, <2>2, ChainMore
<1>10. ASSUME NEW k \in psub'[s].born + 2 .. psub'[s].end PROVE Billed(<<s, k>>)'
  <2>1. k \in Int /\ psub[s].born + 2 <= k /\ k <= p.end
    BY <1>4
  <2>2. CASE k <= psub[s].end
    <3>1. ASSUME NEW n \in DOMAIN events', n \notin DOMAIN events, events'[n].type \in PayEvents
          PROVE  psub[s].end < events'[n].end
      <4>1. PICK i \in 1..Len(types) : n = L + i
        BY <1>7, <3>1
      <4>. QED
        BY <1>6, <3>1, <4>1
    <3>. QED
      BY <1>3, <2>1, <2>2, <3>1, BilledMore
  <2>3. CASE k > psub[s].end
    <3>1. k = p.end
      BY <1>4, <2>1, <2>3
    <3>2. PICK m \in 1..Len(types) :
             /\ types[m] \in PayEvents /\ types[m] # "subscription_payment_failed"
             /\ \A i \in 1..Len(types) : types[i] \in PayEvents => i <= m
      BY <1>4, <2>3, <3>1
    <3>3. L + m \in PayOf(<<s, k>>)' /\ ~Fails(events'[L + m])
      BY <1>6, <3>1, <3>2 DEF PayOf, Fails
    <3>4. ASSUME NEW n \in PayOf(<<s, k>>)' PROVE n <= L + m
      <4>1. n \in DOMAIN events' /\ events'[n].type \in PayEvents
        BY DEF PayOf
      <4>2. CASE n \in DOMAIN events
        BY <1>3, <4>2 DEF L
      <4>3. CASE n \notin DOMAIN events
        <5>1. PICK i \in 1..Len(types) : n = L + i
          BY <1>7, <4>1, <4>3
        <5>2. i <= m
          BY <1>6, <3>2, <4>1, <5>1
        <5>. QED
          BY <1>3, <5>1, <5>2
      <4>. QED
        BY <4>2, <4>3
    <3>. QED
      BY <3>3, <3>4 DEF Billed
  <2>. QED
    BY <1>4, <2>1, <2>2, <2>3
<1>11. \A n \in DOMAIN events' : events'[n].sub = s => HonestEvent(events[n])'
  BY <1>1, <1>2, <1>5, HonestMore
<1>12. Sold(s)' /\ psub'[s].born < psub'[s].end /\ RowEvents(s)' # {}
  BY <1>4, <1>5, <1>8 DEF Sold
<1>13. StoryOf(s)'
  BY <1>9, <1>10, <1>11, <1>12 DEF StoryOf
<1>14. Story'
  BY <1>1, <1>2, <1>13, OthersStand DEF TypeInv
<1>15. Grows
  <2>1. ASSUME NEW d \in Subs, psub[d] # NoRow
        PROVE  /\ psub'[d] # NoRow /\ psub'[d].user = psub[d].user
               /\ psub'[d].customer = psub[d].customer /\ psub'[d].custom = psub[d].custom
               /\ Sold(d) => Sold(d)' /\ psub[d].end <= psub'[d].end
    <3>1. CASE d = s
      BY <1>4, <1>5, <1>12, <3>1
    <3>2. CASE d # s
      BY <1>4, <2>1, <3>2, SubTyped DEF Sold, Inv, TypeInv
    <3>. QED
      BY <3>1, <3>2
  <2>. QED
    BY <1>3, <2>1 DEF Grows
<1>16. Kept'
  BY <1>1, <1>2, <1>15, GrowsKeeps
<1>. QED
  BY <1>1, <1>14, <1>16 DEF Inv

LEMMA OneMore ==
    ASSUME Inv, NEW s \in Subs, Sold(s), NEW p \in ProviderSub, p.status # "checkout",
           p.born = psub[s].born, p.user = psub[s].user, p.customer = psub[s].customer,
           p.custom = psub[s].custom, p.end = psub[s].end,
           NEW type \in RowTypes, Say(s, p, <<type>>),
           type \notin {"subscription_created", "subscription_payment_recovered"},
           type \in RowTypes \ SubUpsert => StatusOf(Telling(s, p, type)) = p.status,
           type = "subscription_payment_failed" => p.end < MaxPeriod
    PROVE  Inv'
<1>. DEFINE types == <<type>>
<1>1. type \in EventTypes
  BY DEF RowTypes, EventTypes, PayEvents
<1>2. types \in Seq(EventTypes) /\ Len(types) = 1 /\ types[1] = type
  BY <1>1
<1>3. Say(s, p, types)
  OBVIOUS
<1>. HIDE DEF types
<1>4. 1..Len(types) = {1} /\ 1 \in 1..Len(types)
  BY <1>2
<1>5. p.end \in Int
  BY SubTyped DEF Sold, Inv, TypeInv
<1>6. /\ Telling(s, p, type).type = type
      /\ Telling(s, p, type).end = IF type = "subscription_payment_failed" THEN p.end + 1 ELSE p.end
  BY DEF Telling
<1>7. Told(Telling(s, p, type)) = p.end
  BY <1>5, <1>6 DEF Told
<1>8. type \in PayEvents => psub[s].end < Telling(s, p, type).end
  BY <1>5, <1>6 DEF RowTypes, PayEvents, SubUpsert, SubStatus
<1>9. \A i \in 1..Len(types) :
         /\ types[i] # "subscription_created"
         /\ types[i] \in RowTypes \ SubUpsert => StatusOf(Telling(s, p, types[i])) = p.status
         /\ types[i] = "subscription_payment_failed" => p.end < MaxPeriod
         /\ types[i] \in PayEvents => psub[s].end < Telling(s, p, types[i]).end
  BY <1>2, <1>4, <1>8
<1>10. \A i \in 1..Len(types) : types[i] \in RowTypes <=> i \in {1, 1}
  BY <1>2, <1>4
<1>11. Told(Telling(s, p, types[1])) = psub[s].end /\ Told(Telling(s, p, types[1])) = p.end
  BY <1>2, <1>7
<1>12. Same(s, p) /\ Tells(s, p, types) /\ PaidFor(s, p, types)
  BY <1>9 DEF Same, Tells, PaidFor
<1>13. Places(types, 1, 1) /\ Levels(s, p, types, 1, 1)
  BY <1>4, <1>10, <1>11 DEF Places, Levels
<1>. QED
  BY <1>2, <1>3, <1>12, <1>13, GoesOn

(* What the portal and the clock do to a subscription within its period.   *)
LEMMA ChangesKeep ==
    ASSUME Inv, NEW s \in Subs,
           \/ RenewalFails(s) \/ CancelSubscription(s) \/ ResumeSubscription(s)
           \/ PauseSubscription(s) \/ UnpauseSubscription(s) \/ Expires(s) \/ ChangePlan(s)
    PROVE  Inv'
<1>1. Sold(s)
  BY DEF RenewalFails, CancelSubscription, ResumeSubscription, PauseSubscription,
         UnpauseSubscription, Expires, ChangePlan, Is, Sold
<1>2. psub[s] \in ProviderSub
  BY <1>1, SubTyped DEF Sold, Inv, TypeInv
<1>3. ASSUME NEW status \in Statuses, NEW type \in RowTypes, Change(s, status, <<type>>),
             type \notin {"subscription_created", "subscription_payment_recovered"},
             type \in RowTypes \ SubUpsert => \A x : x.type = type => StatusOf(x) = status,
             type = "subscription_payment_failed" => psub[s].end < MaxPeriod
      PROVE  Inv'
  <2>. DEFINE p == [psub[s] EXCEPT !.status = status]
  <2>1. /\ p \in ProviderSub /\ p.status = status /\ p.born = psub[s].born
        /\ p.user = psub[s].user /\ p.customer = psub[s].customer
        /\ p.custom = psub[s].custom /\ p.end = psub[s].end
    BY <1>2 DEF ProviderSub
  <2>2. Say(s, p, <<type>>)
    BY <1>3 DEF Change
  <2>. HIDE DEF p
  <2>3. p.status # "checkout"
    BY <2>1 DEF Statuses
  <2>4. Telling(s, p, type).type = type
    BY DEF Telling
  <2>. QED
    BY <1>1, <1>3, <2>1, <2>2, <2>3, <2>4, OneMore
<1>4. CASE RenewalFails(s)
  <2>1. Change(s, "past_due", <<"subscription_payment_failed">>) /\ psub[s].end < MaxPeriod
    BY <1>4 DEF RenewalFails
  <2>2. \A x : x.type = "subscription_payment_failed" => StatusOf(x) = "past_due"
    BY DEF StatusOf
  <2>. QED
    BY <1>3, <2>1, <2>2 DEF Statuses, RowTypes
<1>5. CASE CancelSubscription(s)
  <2>1. Change(s, "cancelled", <<"subscription_cancelled">>)
    BY <1>5 DEF CancelSubscription
  <2>2. \A x : x.type = "subscription_cancelled" => StatusOf(x) = "cancelled"
    BY DEF StatusOf
  <2>. QED
    BY <1>3, <2>1, <2>2 DEF Statuses, RowTypes, SubStatus
<1>6. CASE ResumeSubscription(s)
  <2>1. Change(s, "active", <<"subscription_resumed">>)
    BY <1>6 DEF ResumeSubscription
  <2>. QED
    BY <1>3, <2>1 DEF Statuses, RowTypes, SubUpsert
<1>7. CASE PauseSubscription(s)
  <2>1. Change(s, "paused", <<"subscription_paused">>)
    BY <1>7 DEF PauseSubscription
  <2>2. \A x : x.type = "subscription_paused" => StatusOf(x) = "paused"
    BY DEF StatusOf
  <2>. QED
    BY <1>3, <2>1, <2>2 DEF Statuses, RowTypes, SubStatus
<1>8. CASE UnpauseSubscription(s)
  <2>1. Change(s, "active", <<"subscription_unpaused">>)
    BY <1>8 DEF UnpauseSubscription
  <2>. QED
    BY <1>3, <2>1 DEF Statuses, RowTypes, SubUpsert
<1>9. CASE Expires(s)
  <2>1. Change(s, "expired", <<"subscription_expired">>)
    BY <1>9 DEF Expires
  <2>2. \A x : x.type = "subscription_expired" => StatusOf(x) = "expired"
    BY DEF StatusOf
  <2>. QED
    BY <1>3, <2>1, <2>2 DEF Statuses, RowTypes, SubStatus
<1>10. CASE ChangePlan(s)
  <2>1. PICK plan \in Plans : /\ Is(s, "active")
                              /\ Say(s, [psub[s] EXCEPT !.plan = plan], <<"subscription_updated">>)
    BY <1>10 DEF ChangePlan
  <2>. DEFINE p == [psub[s] EXCEPT !.plan = plan]
  <2>2. /\ p \in ProviderSub /\ p.status = "active" /\ p.born = psub[s].born
        /\ p.user = psub[s].user /\ p.customer = psub[s].customer
        /\ p.custom = psub[s].custom /\ p.end = psub[s].end
    BY <1>2, <2>1 DEF ProviderSub, Is
  <2>3. Say(s, p, <<"subscription_updated">>)
    BY <2>1
  <2>. HIDE DEF p
  <2>4. "subscription_updated" \in RowTypes /\ "subscription_updated" \in SubUpsert
    BY DEF RowTypes, SubUpsert
  <2>. QED
    BY <1>1, <2>2, <2>3, <2>4, OneMore
<1>. QED
  BY <1>4, <1>5, <1>6, <1>7, <1>8, <1>9, <1>10

(* A period more, paid for: by a renewal or by a payment that recovers.    *)
LEMMA ExtendKeeps ==
    ASSUME Inv, NEW s \in Subs, Renew(s) \/ PaymentRecovers(s)
    PROVE  Inv'
<1>. DEFINE p == [psub[s] EXCEPT !.status = "active", !.end = @ + 1]
<1>1. Sold(s) /\ psub[s].end < MaxPeriod
  BY DEF Renew, PaymentRecovers, Is, Sold, Extend
<1>2. psub[s] \in ProviderSub /\ psub[s].end \in Int /\ psub[s].end \in 0..MaxPeriod
  BY <1>1, SubTyped DEF Sold, Inv, TypeInv, Periods
<1>3. psub[s].end + 1 \in Periods
  BY <1>1, <1>2, Bounds DEF Periods
<1>4. /\ p \in ProviderSub /\ p.status = "active" /\ p.born = psub[s].born
      /\ p.user = psub[s].user /\ p.customer = psub[s].customer
      /\ p.custom = psub[s].custom /\ p.end = psub[s].end + 1
  BY <1>2, <1>3 DEF ProviderSub, Statuses
<1>5. /\ Renew(s) => Say(s, p, <<"subscription_updated", "subscription_payment_success">>)
      /\ PaymentRecovers(s) =>
            Say(s, p, <<"subscription_payment_recovered", "subscription_updated">>)
  BY DEF Renew, PaymentRecovers, Extend
<1>. HIDE DEF p
<1>6. ASSUME NEW x, x.type = "subscription_payment_recovered" PROVE StatusOf(x) = "active"
  BY <1>6 DEF StatusOf
<1>7. ASSUME NEW type \in EventTypes, type # "subscription_payment_failed"
      PROVE  /\ Telling(s, p, type).type = type /\ Telling(s, p, type).end = p.end
             /\ psub[s].end < Telling(s, p, type).end
             /\ Told(Telling(s, p, type)) =
                   IF type = "subscription_payment_recovered" THEN psub[s].end ELSE p.end
  BY <1>2, <1>4, <1>7 DEF Telling, Told
<1>8. CASE Renew(s)
  <2>. DEFINE types == <<"subscription_updated", "subscription_payment_success">>
  <2>1. types \in Seq(EventTypes) /\ Len(types) = 2 /\ Say(s, p, types)
        /\ types[1] = "subscription_updated" /\ types[2] = "subscription_payment_success"
    BY <1>5, <1>8 DEF EventTypes, SubUpsert, PayEvents
  <2>. HIDE DEF types
  <2>2. 1..Len(types) = {1, 2} /\ 1 \in 1..Len(types) /\ 2 \in 1..Len(types)
        /\ types[1] \in EventTypes /\ types[2] \in EventTypes
    BY <2>1 DEF EventTypes, SubUpsert, PayEvents
  <2>3. /\ types[1] \in RowTypes /\ types[1] \in SubUpsert /\ types[1] \notin PayEvents
        /\ types[2] \notin RowTypes /\ types[2] \in PayEvents
    BY <2>1 DEF RowTypes, SubUpsert, SubStatus, PayEvents
  <2>4. \A i \in 1..Len(types) :
           /\ types[i] # "subscription_created"
           /\ types[i] \in RowTypes \ SubUpsert => StatusOf(Telling(s, p, types[i])) = p.status
           /\ types[i] = "subscription_payment_failed" => p.end < MaxPeriod
           /\ types[i] \in PayEvents => psub[s].end < Telling(s, p, types[i]).end
    BY <1>7, <2>1, <2>2, <2>3
  <2>5. \A i \in 1..Len(types) : types[i] \in RowTypes <=> i \in {1, 1}
    BY <2>2, <2>3
  <2>6. Told(Telling(s, p, types[1])) = psub[s].end + 1 /\ Told(Telling(s, p, types[1])) = p.end
    BY <1>4, <1>7, <2>1, <2>2
  <2>7. \E m \in 1..Len(types) :
           /\ types[m] \in PayEvents /\ types[m] # "subscription_payment_failed"
           /\ \A i \in 1..Len(types) : types[i] \in PayEvents => i <= m
    <3>1. \A i \in 1..Len(types) : types[i] \in PayEvents => i <= 2
      BY <2>2
    <3>. QED
      BY <2>1, <2>2, <2>3, <3>1
  <2>8. Same(s, p) /\ Tells(s, p, types) /\ PaidFor(s, p, types)
    BY <1>4, <2>4, <2>7 DEF Same, Tells, PaidFor
  <2>9. Places(types, 1, 1) /\ Levels(s, p, types, 1, 1)
    BY <2>2, <2>3, <2>5, <2>6 DEF Places, Levels
  <2>. QED
    BY <1>1, <1>4, <2>1, <2>8, <2>9, GoesOn
<1>9. CASE PaymentRecovers(s)
  <2>. DEFINE types == <<"subscription_payment_recovered", "subscription_updated">>
  <2>1. types \in Seq(EventTypes) /\ Len(types) = 2 /\ Say(s, p, types)
        /\ types[1] = "subscription_payment_recovered" /\ types[2] = "subscription_updated"
    BY <1>5, <1>9 DEF EventTypes, SubUpsert, PayEvents
  <2>. HIDE DEF types
  <2>2. 1..Len(types) = {1, 2} /\ 1 \in 1..Len(types) /\ 2 \in 1..Len(types)
        /\ types[1] \in EventTypes /\ types[2] \in EventTypes
    BY <2>1 DEF EventTypes, SubUpsert, PayEvents
  <2>3. /\ types[1] \in RowTypes /\ types[1] \notin SubUpsert /\ types[1] \in PayEvents
        /\ types[2] \in RowTypes /\ types[2] \in SubUpsert /\ types[2] \notin PayEvents
    BY <2>1 DEF RowTypes, SubUpsert, SubStatus, PayEvents
  <2>4. \A i \in 1..Len(types) :
           /\ types[i] # "subscription_created"
           /\ types[i] \in RowTypes \ SubUpsert => StatusOf(Telling(s, p, types[i])) = p.status
           /\ types[i] = "subscription_payment_failed" => p.end < MaxPeriod
           /\ types[i] \in PayEvents => psub[s].end < Telling(s, p, types[i]).end
    BY <1>4, <1>6, <1>7, <2>1, <2>2, <2>3
  <2>5. \A i \in 1..Len(types) : types[i] \in RowTypes <=> i \in {1, 2}
    BY <2>2, <2>3
  <2>6. Told(Telling(s, p, types[1])) = psub[s].end
        /\ Told(Telling(s, p, types[2])) = psub[s].end + 1 /\ Told(Telling(s, p, types[2])) = p.end
    BY <1>4, <1>7, <2>1, <2>2
  <2>7. \E m \in 1..Len(types) :
           /\ types[m] \in PayEvents /\ types[m] # "subscription_payment_failed"
           /\ \A i \in 1..Len(types) : types[i] \in PayEvents => i <= m
    <3>1. \A i \in 1..Len(types) : types[i] \in PayEvents => i <= 1
      BY <2>2, <2>3
    <3>. QED
      BY <2>1, <2>2, <2>3, <3>1
  <2>8. Same(s, p) /\ Tells(s, p, types) /\ PaidFor(s, p, types)
    BY <1>4, <2>4, <2>7 DEF Same, Tells, PaidFor
  <2>9. Places(types, 1, 2) /\ Levels(s, p, types, 1, 2)
    BY <2>2, <2>3, <2>5, <2>6 DEF Places, Levels
  <2>. QED
    BY <1>1, <1>4, <2>1, <2>8, <2>9, GoesOn
<1>. QED
  BY <1>8, <1>9

LEMMA BuyKeeps ==
    ASSUME Inv, NEW s \in Subs, Buy(s)
    PROVE  Inv'
<1>. DEFINE p == [psub[s] EXCEPT !.status = "active", !.born = now, !.end = now + 1]
            types == <<"order_created", "subscription_created">>
<1>1. psub[s] # NoRow /\ psub[s].status = "checkout" /\ now < MaxPeriod /\ Say(s, p, types)
  BY DEF Buy, Is
<1>2. psub[s] \in ProviderSub /\ now \in Periods /\ now \in Int /\ 0 <= now
  BY <1>1, SubTyped, Bounds DEF Inv, TypeInv, ProviderTyped, Periods
<1>3. now + 1 \in Periods
  BY <1>1, <1>2, Bounds DEF Periods
<1>4. /\ p \in ProviderSub /\ p.status = "active" /\ p.born = now /\ p.end = now + 1
      /\ p.user = psub[s].user /\ p.customer = psub[s].customer /\ p.custom = psub[s].custom
      /\ p # NoRow
  BY <1>2, <1>3, Bounds DEF ProviderSub, Statuses
<1>5. types \in Seq(EventTypes) /\ Len(types) = 2
      /\ types[1] = "order_created" /\ types[2] = "subscription_created"
  BY DEF EventTypes, SubUpsert
<1>. HIDE DEF p, types
<1>6. 1..Len(types) = {1, 2}
  BY <1>5
<1>7. TypeInv' /\ Adds(s, p, types)
  BY <1>1, <1>4, <1>5, <1>6, SayAdds DEF Inv
<1>8. /\ psub' = [psub EXCEPT ![s] = p]
      /\ UNCHANGED <<now, row, invoice, customer, approved, ledger, pc, ev, who, faults, latest,
                     disordered>>
  BY <1>1 DEF Say, tables, handler
<1>9. psub'[s] = p /\ (\A d \in Subs : d # s => psub'[d] = psub[d])
  BY <1>8 DEF Inv, TypeInv, ProviderTyped
<1>. DEFINE L == Len(events)
<1>10. /\ DOMAIN events = 1..L /\ L \in Nat /\ DOMAIN events' = 1..(L + 2)
       /\ \A n \in DOMAIN events : n \in DOMAIN events' /\ events'[n] = events[n]
  BY <1>5, <1>7 DEF Inv, TypeInv, ProviderTyped, Adds
<1>11. events'[L + 1] = Telling(s, p, "order_created")
       /\ events'[L + 2] = Telling(s, p, "subscription_created")
  BY <1>5, <1>6, <1>7 DEF Adds
<1>12. /\ events'[L + 1].type = "order_created" /\ events'[L + 1].sub = s
       /\ events'[L + 1].end = p.end
       /\ events'[L + 2].type = "subscription_created" /\ events'[L + 2].sub = s
       /\ events'[L + 2].end = p.end /\ events'[L + 2].status = "active"
  BY <1>4, <1>11 DEF Telling
<1>. HIDE DEF L
<1>13. ~Sold(s) /\ Sold(s)'
  BY <1>1, <1>4, <1>9 DEF Sold
<1>14. \A n \in DOMAIN events : events[n].sub # s
  BY <1>13 DEF Inv, Story, Honest, HonestEvent
<1>15. \A n \in DOMAIN events' : events'[n].sub = s => n = L + 1 \/ n = L + 2
  BY <1>10, <1>14
<1>16. RowEvents(s)' = {L + 2}
  <2>1. "order_created" \notin RowTypes /\ "subscription_created" \in RowTypes
    BY DEF RowTypes, SubUpsert, SubStatus
  <2>2. L + 2 \in DOMAIN events'
    BY <1>10
  <2>. QED
    BY <1>12, <1>15, <2>1, <2>2 DEF RowEvents
<1>17. \A n \in DOMAIN events' : events'[n].sub = s => HonestEvent(events[n])'
  <2>1. ASSUME NEW n \in DOMAIN events', events'[n].sub = s PROVE HonestEvent(events[n])'
    <3>1. n = L + 1 \/ n = L + 2
      BY <1>15, <2>1
    <3>2. events'[n].type \in {"order_created", "subscription_created"} /\ events'[n].end = now + 1
          /\ events'[n].sub = s
      BY <1>4, <1>12, <3>1
    <3>3. events'[n].type \notin RowTypes \ SubUpsert /\ ~Fails(events'[n])
      BY <3>2 DEF RowTypes, SubUpsert, SubStatus, Fails
    <3>4. 1 <= events'[n].end /\ events'[n].end <= psub'[s].end
          /\ events'[n].end = psub'[s].born + 1
      BY <1>2, <1>4, <1>9, <3>2
    <3>. QED
      BY <1>13, <3>2, <3>3, <3>4 DEF HonestEvent, Fails
  <2>. QED
    BY <2>1
<1>18. Chain(s)'
  BY <1>10, <1>12, <1>16 DEF Chain, Follows
<1>19. Last(s)'
  BY <1>4, <1>9, <1>12, <1>16 DEF Last, Told
<1>20. psub'[s].born < psub'[s].end /\ psub'[s].born + 2 .. psub'[s].end = {}
  BY <1>2, <1>4, <1>9
<1>21. StoryOf(s)'
  BY <1>16, <1>17, <1>18, <1>19, <1>20 DEF StoryOf
<1>22. Story'
  BY <1>5, <1>7, <1>8, <1>21, OthersStand DEF TypeInv
<1>23. Grows
  <2>1. ASSUME NEW d \in Subs, psub[d] # NoRow
        PROVE  /\ psub'[d] # NoRow /\ psub'[d].user = psub[d].user
               /\ psub'[d].customer = psub[d].customer /\ psub'[d].custom = psub[d].custom
               /\ Sold(d) => Sold(d)' /\ psub[d].end <= psub'[d].end
    <3>1. CASE d = s
      BY <1>4, <1>9, <1>13, <3>1
    <3>2. CASE d # s
      BY <1>9, <2>1, <3>2, SubTyped DEF Sold, Inv, TypeInv
    <3>. QED
      BY <3>1, <3>2
  <2>. QED
    BY <1>10, <2>1 DEF Grows
<1>24. Kept'
  BY <1>7, <1>8, <1>23, GrowsKeeps
<1>. QED
  BY <1>7, <1>22, <1>24 DEF Inv

(***************************************************************************)
(* The invariant                                                           *)
(***************************************************************************)

LEMMA InvInit == Init => Inv
<1>. SUFFICES ASSUME Init PROVE Inv
  OBVIOUS
<1>1. DOMAIN events = {} /\ Len(events) = 0 /\ events \in Seq(Event)
  BY DEF Init
<1>2. TypeInv
  BY <1>1, Bounds DEF Init, TypeInv, ProviderTyped, QueueTyped, TablesTyped, HandlerTyped,
                      HistoryTyped, Labels
<1>3. /\ \A s \in Subs : ~Sold(s) /\ RowEvents(s) = {} /\ row[s] = NoRow /\ psub[s] = NoRow
      /\ \A s \in Subs : latest[s] = 0
      /\ \A i \in Invoices : latest[i] = 0
  BY <1>1 DEF Init, Sold, RowEvents, Targets
<1>4. Story
  BY <1>1, <1>3 DEF Story, Born, Honest, Chained, Chain, Tip, Last, Settled
<1>5. Handling /\ Ledgered /\ LatestIs /\ RowExact /\ InvoiceExact
  BY <1>3 DEF Init, Handling, Ledgered, LatestIs, RowExact, Exact, InvoiceExact, InvoiceIs
<1>6. Buyers /\ Windows
  BY <1>3 DEF Init, Buyers, WhoBuys, Windows
<1>. QED
  BY <1>2, <1>4, <1>5, <1>6 DEF Inv, Kept

LEMMA HandleKeeps == Inv /\ Handle => Inv'
<1>. SUFFICES ASSUME Inv, Handle PROVE Inv'
  OBVIOUS
<1>1. ASSUME NEW n \in outbox, Receive(n) PROVE Inv'
  BY <1>1, ReceiveKeeps
<1>2. pc # "idle" => ev \in DOMAIN events /\ e.sub \in Subs
  BY EventTyped DEF Inv, TypeInv, HandlerTyped, e
<1>3. CASE UpsertSubscription
  <2>1. PICK n \in DOMAIN events : n = ev
    BY <1>2, <1>3 DEF UpsertSubscription
  <2>2. PICK s \in Subs : s = e.sub
    BY <1>2, <1>3 DEF UpsertSubscription
  <2>3. PICK x : x = events[n]
    OBVIOUS
  <2>. QED
    BY <1>3, <2>1, <2>2, <2>3, UpsertKeeps
<1>4. CASE SetStatus
  <2>1. PICK n \in DOMAIN events : n = ev
    BY <1>2, <1>4 DEF SetStatus
  <2>2. PICK s \in Subs : s = e.sub
    BY <1>2, <1>4 DEF SetStatus
  <2>3. PICK x : x = events[n]
    OBVIOUS
  <2>. QED
    BY <1>4, <2>1, <2>2, <2>3, SetStatusKeeps
<1>5. CASE RecordInvoice
  <2>1. PICK n \in DOMAIN events : n = ev
    BY <1>2, <1>5 DEF RecordInvoice
  <2>2. PICK s \in Subs : s = e.sub
    BY <1>2, <1>5 DEF RecordInvoice
  <2>3. PICK i : i = <<e.sub, e.end>>
    OBVIOUS
  <2>4. PICK x : x = events[n]
    OBVIOUS
  <2>. QED
    BY <1>5, <2>1, <2>2, <2>3, <2>4, RecordInvoiceKeeps
<1>6. CASE RememberCustomer
  BY <1>6, RememberCustomerKeeps
<1>7. CASE GrantAccess
  BY <1>7, GrantAccessKeeps
<1>8. CASE MarkProcessed
  BY <1>8, MarkKeeps
<1>9. CASE Answer
  BY <1>9, RestKeeps
<1>. QED
  BY <1>1, <1>3, <1>4, <1>5, <1>6, <1>7, <1>8, <1>9 DEF Handle

LEMMA ProviderKeeps == Inv /\ Provider => Inv'
<1>. SUFFICES ASSUME Inv, Provider PROVE Inv'
  OBVIOUS
<1>1. ASSUME NEW s \in Subs, NEW u \in Users, NEW c \in Customers, NEW p \in Plans,
             NEW named \in BOOLEAN, NEW custom \in BOOLEAN, Checkout(s, u, c, p, named, custom)
      PROVE  Inv'
  BY <1>1, CheckoutKeeps
<1>2. ASSUME NEW s \in Subs,
             \/ Buy(s) \/ Renew(s) \/ RenewalFails(s) \/ PaymentRecovers(s)
             \/ CancelSubscription(s) \/ ResumeSubscription(s) \/ PauseSubscription(s)
             \/ UnpauseSubscription(s) \/ Expires(s) \/ ChangePlan(s)
      PROVE  Inv'
  BY <1>2, BuyKeeps, ExtendKeeps, ChangesKeep
<1>3. ASSUME NEW n \in DOMAIN events, Resend(n) PROVE Inv'
  BY <1>3, ResendKeeps
<1>4. CASE TimePasses
  BY <1>4, TimePassesKeeps
<1>. QED
  BY <1>1, <1>2, <1>3, <1>4 DEF Provider

LEMMA NothingChanges == Inv /\ UNCHANGED vars => Inv'
<1>. SUFFICES ASSUME Inv, UNCHANGED vars PROVE Inv'
  OBVIOUS
<1>1. UNCHANGED <<psub, events, now, outbox, row, invoice, customer, approved, ledger, pc, ev, who,
                  faults, latest, disordered>>
  BY DEF vars, provider, tables, handler
<1>2. TypeInv'
  BY <1>1 DEF Inv, TypeInv, ProviderTyped, QueueTyped, TablesTyped, HandlerTyped, HistoryTyped
<1>3. Grows
  BY <1>1, SubTyped DEF Grows, Sold, Inv, TypeInv
<1>4. Kept'
  BY <1>1, <1>2, <1>3, GrowsKeeps
<1>. QED
  BY <1>1, <1>2, <1>4, StoryStands DEF Inv

LEMMA InvStep == Inv /\ [Next]_vars => Inv'
  BY HandleKeeps, RestKeeps, ProviderKeeps, NothingChanges DEF Next

LEMMA InvHolds == Spec => []Inv
  BY InvInit, InvStep, PTL DEF Spec

(***************************************************************************)
(* What it says                                                            *)
(***************************************************************************)

(* Every variable of the provider, of the tables and of the handler keeps  *)
(* its type, whatever is delivered, fails or dies.                         *)
THEOREM TypeCorrect == Spec => []TypeOK
<1>1. Inv => TypeOK
  BY DEF Inv, TypeInv, ProviderTyped, QueueTyped, TablesTyped, HandlerTyped, HistoryTyped, Labels,
         TypeOK
<1>. QED
  BY <1>1, InvHolds, PTL

(* Once every event of a subscription is in the ledger, its row and its    *)
(* invoices say what the provider says, whatever was delivered twice, lost *)
(* to a crash or resent by hand, unless a newer event was applied first.   *)
THEOREM TablesTellTheStory == Spec => []LedgeredMeansApplied
<1>1. ASSUME Inv, NEW s \in Subs, EventsOf(s) # {}, EventsOf(s) \subseteq ledger
      PROVE  /\ \/ s \in disordered
                \/ /\ row[s] # NoRow
                   /\ row[s].status = psub[s].status
                   /\ row[s].end = psub[s].end /\ row[s].start = psub[s].end - 1
             /\ \A k \in psub[s].born + 2 .. psub[s].end :
                   psub[s].custom => <<s, k>> \in disordered \/ invoice[<<s, k>>] = "paid"
  <2>1. Sold(s) /\ RowEvents(s) # {} /\ RowEvents(s) \subseteq ledger
    <3>1. Sold(s)
      BY <1>1 DEF EventsOf, Inv, Story, Honest, HonestEvent
    <3>. QED
      BY <1>1, <3>1 DEF EventsOf, RowEvents, Inv, Story, Born
  <2>2. /\ psub[s].end \in Int /\ psub[s].born \in Int /\ 0 <= psub[s].born
        /\ psub[s].end <= MaxPeriod /\ MaxPeriod \in Int
    BY <1>1, <2>1, SubTyped, Bounds DEF Inv, TypeInv, Sold, Periods
  <2>3. ASSUME NEW n \in RowEvents(s) PROVE n <= latest[s] /\ n \in Int /\ 1 <= n
    <3>1. n \in DOMAIN events /\ events[n].sub = s /\ events[n].type \in RowTypes /\ n \in ledger
      BY <2>1 DEF RowEvents
    <3>2. Entered(n)
      BY <1>1, <3>1 DEF Inv, Kept, Ledgered
    <3>. QED
      BY <1>1, <3>1, <3>2, EventTyped DEF Entered, Inv, TypeInv
  <2>4. s \in Targets /\ latest[s] \in Int /\ latest[s] # 0
    <3>1. latest[s] \in 0..MaxEvents
      BY <1>1 DEF Inv, TypeInv, HistoryTyped, Targets
    <3>. QED
      BY <2>1, <2>3, <3>1, Bounds DEF Targets
  <2>5. s \in disordered \/ RowIs(s, events[latest[s]])
    <3>1. ~Gap(s)
      BY <2>1 DEF Gap
    <3>. QED
      BY <1>1, <2>4, <3>1 DEF Inv, Kept, RowExact, Exact
  <2>6. events[latest[s]].status = psub[s].status /\ Told(events[latest[s]]) = psub[s].end
    <3>1. latest[s] \in RowEvents(s)
      BY <1>1, <2>4 DEF Inv, Kept, LatestIs
    <3>. QED
      BY <1>1, <2>3, <3>1 DEF Inv, Story, Tip, Last
  <2>7. ASSUME NEW k \in psub[s].born + 2 .. psub[s].end, psub[s].custom,
               <<s, k>> \notin disordered
        PROVE  invoice[<<s, k>>] = "paid"
    <3>1. PICK i : i = <<s, k>>
      OBVIOUS
    <3>2. i \in Invoices /\ i[1] = s /\ i[2] = k
      BY <2>2, <2>7, <3>1 DEF Invoices
    <3>3. PICK m \in PayOf(i) : ~Fails(events[m]) /\ \A n \in PayOf(i) : n <= m
      BY <1>1, <2>1, <2>7, <3>1 DEF Inv, Story, Settled, Billed
    <3>4. /\ m \in DOMAIN events /\ events[m].sub = s /\ events[m].end = k
          /\ events[m].type \in PayEvents /\ m \in ledger
      BY <1>1, <3>2, <3>3 DEF PayOf, EventsOf
    <3>5. m <= latest[i] /\ m \in Int /\ 1 <= m
      BY <1>1, <2>7, <3>1, <3>4, EventTyped DEF Inv, TypeInv, Kept, Ledgered, Entered
    <3>6. latest[i] \in 0..MaxEvents
      BY <1>1, <3>2 DEF Inv, TypeInv, HistoryTyped, Targets
    <3>7. latest[i] # 0
      BY <3>5, <3>6
    <3>8. latest[i] \in PayOf(i)
      BY <1>1, <3>2, <3>7 DEF Inv, Kept, LatestIs
    <3>9. latest[i] = m
      BY <3>3, <3>5, <3>6, <3>8, Bounds
    <3>10. InvoiceIs(i)
      BY <1>1, <3>2 DEF Inv, Kept, InvoiceExact
    <3>. QED
      BY <2>7, <3>1, <3>3, <3>7, <3>9, <3>10 DEF InvoiceIs
  <2>. QED
    BY <2>5, <2>6, <2>7 DEF RowIs
<1>2. Inv => LedgeredMeansApplied
  BY <1>1 DEF LedgeredMeansApplied
<1>. QED
  BY <1>2, InvHolds, PTL

(* An event that named nobody is never entered in the ledger while its     *)
(* subscription has no row, so a Resend can still apply it.                *)
THEOREM DeferredIsNotLost == Spec => []DeferredStaysOut
<1>1. Inv => DeferredStaysOut
  BY DEF Inv, Kept, Ledgered, Entered, DeferredStaysOut
<1>. QED
  BY <1>1, InvHolds, PTL

(* No usage window opens before the provider has billed the period that    *)
(* starts there, in whatever order events reach the row.                   *)
THEOREM NoUnpaidWindow == Spec => []WindowIsPaidFor
<1>1. Inv => WindowIsPaidFor
  BY DEF Inv, Kept, Windows, WindowIsPaidFor
<1>. QED
  BY <1>1, InvHolds, PTL

(* A row, and the access that follows from it, goes to a user who bought.  *)
THEOREM BuyerOwnsRow == Spec => []RowBelongsToBuyer
<1>1. Inv => RowBelongsToBuyer
  BY DEF Inv, Kept, Buyers, Buyer, Bought, RowBelongsToBuyer
<1>. QED
  BY <1>1, InvHolds, PTL
=============================================================================
