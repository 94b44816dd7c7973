------------------------------- MODULE Billing -------------------------------
(***************************************************************************)
(* Billing: the Lemon Squeezy webhook (billing/webhook.py), the tables it  *)
(* keeps (billing/store.py) and the checkout that precedes it              *)
(* (server/billing_api.py).                                                *)
(*                                                                         *)
(* The provider is external.  It bills subscriptions and tells the story of*)
(* each in events; it delivers an event again until it gets an answer, and *)
(* nothing says that it delivers them in order.  The handler is the only   *)
(* writer of the tables and one server process runs it, one event at a     *)
(* time (an async route that never awaits), but each of its writes commits *)
(* on its own: the process may die, or the database fail, between any two. *)
(*                                                                         *)
(* Time is counted in billing periods: period k runs from k - 1 to k.      *)
(***************************************************************************)
EXTENDS Integers, Sequences, FiniteSets

CONSTANTS
    Users,       (* internal user ids                                      *)
    Customers,   (* the provider's customer ids                            *)
    Subs,        (* the provider's subscription ids                        *)
    Plans,       (* what can be bought                                     *)
    NoUser,      (* no user id could be resolved                           *)
    NoCustomer,  (* no customer id is on record                            *)
    NoRow,       (* a subscription without a row                           *)
    MaxPeriod,   (* bound: periods                                         *)
    MaxEvents,   (* bound: events the provider sends                       *)
    MaxPending,  (* bound: events that wait for an answer                  *)
    MaxFaults    (* bound: crashes and failed reads or writes              *)

ASSUME BillingAssumption ==
    /\ NoUser \notin Users
    /\ NoCustomer \notin Customers
    /\ MaxPeriod \in Nat \ {0}
    /\ MaxEvents \in Nat
    /\ MaxPending \in Nat /\ MaxFaults \in Nat

VARIABLES
    psub,       (* the provider's subscriptions                            *)
    events,     (* every event it sent, oldest first                       *)
    outbox,     (* the events it still delivers                            *)
    now,        (* the clock                                               *)
    row,        (* billing_subscriptions, keyed by the provider's id       *)
    invoice,    (* billing_invoices, keyed by the provider's id            *)
    customer,   (* billing_customers, unique per user                      *)
    ledger,     (* billing_events                                          *)
    approved,   (* users the soft-launch gate lets in                      *)
    pc,         (* where the handler is                                    *)
    ev,         (* the event it handles; 0 before the first                *)
    who,        (* the user it resolved                                    *)
    faults,     (* history: crashes and failed reads or writes so far      *)
    latest,     (* history: the newest event applied to a row or invoice   *)
    disordered  (* history: rows and invoices an older event was applied to*)

provider == <<psub, events, now>>
tables == <<row, invoice, customer, approved>>
handler == <<pc, ev, who, faults>>
vars == <<provider, outbox, tables, ledger, handler, latest, disordered>>

Periods == 0..MaxPeriod
Invoices == Subs \X (1..MaxPeriod)
Targets == Subs \cup Invoices

-----------------------------------------------------------------------------
(* Statuses and events.                                                    *)

Statuses == {"active", "past_due", "cancelled", "paused", "expired"}
OpenStatuses == {"active", "past_due", "paused"}

SubUpsert == {"subscription_created", "subscription_updated",
              "subscription_resumed", "subscription_unpaused"}
SubStatus == {"subscription_cancelled", "subscription_expired",
              "subscription_paused"}
PayEvents == {"subscription_payment_success", "subscription_payment_recovered",
              "subscription_payment_failed"}
EventTypes == SubUpsert \cup SubStatus \cup PayEvents \cup {"order_created"}

Row == [user: Users, plan: Plans, status: Statuses, start: Periods, end: Periods]
Event == [type: EventTypes, sub: Subs, status: Statuses, end: Periods, plan: Plans]
ProviderSub ==
    [status: Statuses \cup {"checkout"}, end: Periods, plan: Plans,
     born: Periods, user: Users, customer: Customers, stamped: Plans,
     named: BOOLEAN,      (* its order carries the user id of the checkout  *)
     custom: BOOLEAN]     (* ... and so do all its other events             *)

ASSUME NamesAssumption ==
    /\ Subs \cap Invoices = {}
    /\ NoRow \notin Row \cup ProviderSub

e == events[ev]   (* the event in hand *)
EventsOf(s) == {n \in DOMAIN events : events[n].sub = s}

(* custom_data.user_id: what was bought out of band comes without it.      *)
CustomUser(x) ==
    LET carries == IF x.type = "order_created" THEN psub[x.sub].named ELSE psub[x.sub].custom
    IN  IF carries THEN psub[x.sub].user ELSE NoUser

(* Mutant of Resolved: the customer map is asked first.                    *)
ResolvedByMap(x) ==
    LET known == {u \in Users : customer[u] = psub[x.sub].customer}
    IN  IF known = {} THEN {CustomUser(x)} ELSE known

(* _resolve_user: custom_data first, else any user with that customer id.  *)
(* An order asks its custom_data alone.                                    *)
Resolved(x) ==
    LET known == {u \in Users : customer[u] = psub[x.sub].customer}
    IN  IF CustomUser(x) # NoUser \/ x.type = "order_created" THEN {CustomUser(x)}
        ELSE IF known = {} THEN {NoUser} ELSE known

(* _plan_from_attrs: the plan stamped at checkout, else that of the variant*)
PlanFrom(x) == IF psub[x.sub].custom THEN psub[x.sub].stamped ELSE x.plan

(* Mutant of NewStart: a renewal starts its window at the new end.         *)
NewStartAtEnd(x) ==
    IF x.type = "subscription_created" THEN psub[x.sub].born
    ELSE IF row[x.sub] = NoRow THEN x.end - 1
    ELSE IF x.end > row[x.sub].end THEN x.end
    ELSE row[x.sub].start

(* upsert_subscription: created_at on creation; the old end once the end   *)
(* advances; otherwise what it was.                                        *)
NewStart(x) ==
    IF x.type = "subscription_created" THEN psub[x.sub].born
    ELSE IF row[x.sub] = NoRow THEN x.end - 1
    ELSE IF x.end > row[x.sub].end THEN row[x.sub].end
    ELSE row[x.sub].start

(* The status a status event or a payment event writes.                    *)
StatusOf(x) ==
    CASE x.type = "subscription_cancelled"         -> "cancelled"
      [] x.type = "subscription_expired"           -> "expired"
      [] x.type = "subscription_paused"            -> "paused"
      [] x.type = "subscription_payment_failed"    -> "past_due"
      [] x.type = "subscription_payment_recovered" -> "active"

-----------------------------------------------------------------------------
(* The handler, one write at a time.                                       *)

(* The write that just happened applied an older event than an earlier one.*)
Applied(t) ==
    /\ latest' = [latest EXCEPT ![t] = IF ev > @ THEN ev ELSE @]
    /\ disordered' = IF ev < latest[t] THEN disordered \cup {t} ELSE disordered

Keep == UNCHANGED <<provider, outbox, ledger, ev, who, faults>>
Fault == faults < MaxFaults /\ faults' = faults + 1
Idle == pc' = "idle" /\ ev' = 0 /\ who' = NoUser

(* The first write an event leads to.  An order that names nobody leads to *)
(* none; a subscription nobody can be named for is deferred: answered, and *)
(* left out of the ledger.                                                 *)
FirstStep(x, u) ==
    CASE x.type = "order_created"             -> IF u # NoUser THEN "customer" ELSE "mark"
      [] x.type \in SubUpsert /\ u # NoUser   -> "customer"
      [] x.type \in SubUpsert /\ u = NoUser   -> "answer"
      [] x.type \in PayEvents /\ u # NoUser   -> "invoice"
      [] x.type = "subscription_payment_success" /\ u = NoUser -> "mark"
      [] OTHER                                -> "status"

(* A delivery: a duplicate is answered at once.                            *)
Receive(n) ==
    /\ pc = "idle" /\ n \in outbox
    /\ ev' = n
    /\ who' \in Resolved(events[n])
    /\ pc' = IF n \in ledger THEN "answer" ELSE FirstStep(events[n], who')
    /\ UNCHANGED <<provider, outbox, tables, ledger, faults, latest, disordered>>

(* upsert_customer: a user has one customer id, the last one seen.         *)
RememberCustomer ==
    /\ pc = "customer"
    /\ customer' = [customer EXCEPT ![who] = psub[e.sub].customer]
    /\ pc' = IF e.type = "order_created" THEN "mark" ELSE "subscription"
    /\ Keep /\ UNCHANGED <<row, invoice, approved, latest, disordered>>

UpsertSubscription ==
    /\ pc = "subscription"
    /\ row' = [row EXCEPT ![e.sub] =
                  [user |-> who, plan |-> PlanFrom(e), status |-> e.status,
                   start |-> NewStart(e), end |-> e.end]]
    /\ Applied(e.sub)
    /\ pc' = IF e.status = "active" THEN "access" ELSE "mark"
    /\ Keep /\ UNCHANGED <<invoice, customer, approved>>

(* _grant_access: an error is swallowed.                                   *)
GrantAccess ==
    /\ pc = "access"
    /\ \/ approved' = approved \cup {who} /\ UNCHANGED faults
       \/ Fault /\ UNCHANGED approved
    /\ pc' = "mark"
    /\ UNCHANGED <<provider, outbox, ledger, ev, who, row, invoice, customer,
                   latest, disordered>>

(* set_subscription_status: a subscription without a row is left alone, and*)
(* the event is ledgered all the same.                                     *)
SetStatus ==
    /\ pc = "status"
    /\ row' = IF row[e.sub] = NoRow THEN row
              ELSE [row EXCEPT ![e.sub].status = StatusOf(e),
                               ![e.sub].end = IF e.type \in
                                   {"subscription_cancelled", "subscription_expired"}
                                   THEN e.end ELSE @]
    /\ Applied(e.sub)
    /\ pc' = "mark"
    /\ Keep /\ UNCHANGED <<invoice, customer, approved>>

(* Mutant of RecordInvoice: a failed payment leaves the status to the      *)
(* subscription_updated that may never come.                               *)
RecordInvoiceAlone ==
    /\ pc = "invoice"
    /\ invoice' = [invoice EXCEPT ![<<e.sub, e.end>>] =
                      IF e.type = "subscription_payment_failed" THEN "open" ELSE "paid"]
    /\ Applied(<<e.sub, e.end>>)
    /\ pc' = IF e.type = "subscription_payment_recovered" THEN "status" ELSE "mark"
    /\ Keep /\ UNCHANGED <<row, customer, approved>>

(* record_invoice: one row per invoice id, updated when it is there.       *)
RecordInvoice ==
    /\ pc = "invoice"
    /\ invoice' = [invoice EXCEPT ![<<e.sub, e.end>>] =
                      IF e.type = "subscription_payment_failed" THEN "open" ELSE "paid"]
    /\ Applied(<<e.sub, e.end>>)
    /\ pc' = IF e.type = "subscription_payment_success" THEN "mark" ELSE "status"
    /\ Keep /\ UNCHANGED <<row, customer, approved>>

MarkProcessed ==
    /\ pc = "mark"
    /\ ledger' = ledger \cup {ev}
    /\ pc' = "answer"
    /\ UNCHANGED <<provider, outbox, tables, ev, who, faults, latest, disordered>>

(* Mutant of Answer: what was deferred is ledgered too.                    *)
AnswerMarks ==
    /\ pc = "answer"
    /\ ledger' = ledger \cup {ev}
    /\ outbox' = outbox \ {ev} /\ Idle
    /\ UNCHANGED <<provider, tables, faults, latest, disordered>>

(* 200: the provider stops delivering the event.                           *)
Answer ==
    /\ pc = "answer"
    /\ outbox' = outbox \ {ev} /\ Idle
    /\ UNCHANGED <<provider, tables, ledger, faults, latest, disordered>>

(* A write raises: 200 all the same, and the event stays out of the ledger.*)
HandlerFails ==
    /\ pc \in {"customer", "subscription", "status", "invoice", "mark"}
    /\ outbox' = outbox \ {ev} /\ Idle /\ Fault
    /\ UNCHANGED <<provider, tables, ledger, latest, disordered>>

(* The process dies: no answer, so the event is delivered again.           *)
Crash ==
    /\ pc # "idle" /\ Idle /\ Fault
    /\ UNCHANGED <<provider, outbox, tables, ledger, latest, disordered>>

-----------------------------------------------------------------------------
(* The provider and its customers.                                         *)

(* A change of subscription s to p, and the events that tell of it.        *)
Say(s, p, types) ==
    /\ Len(events) + Len(types) <= MaxEvents
    /\ Cardinality(outbox) + Len(types) <= MaxPending
    /\ psub' = [psub EXCEPT ![s] = p]
    /\ events' = events \o [i \in DOMAIN types |->
          [type |-> types[i], sub |-> s, status |-> p.status, plan |-> p.plan,
           end |-> IF types[i] = "subscription_payment_failed" THEN p.end + 1
                   ELSE p.end]]
    /\ outbox' = outbox \cup (Len(events) + 1 .. Len(events) + Len(types))
    /\ UNCHANGED <<now, tables, ledger, handler, latest, disordered>>

Is(s, status) == psub[s] # NoRow /\ psub[s].status = status
Change(s, status, types) == Say(s, [psub[s] EXCEPT !.status = status], types)
Extend(s, types) == /\ psub[s].end < MaxPeriod
                    /\ Say(s, [psub[s] EXCEPT !.status = "active", !.end = @ + 1], types)

(* open_subscription: a row of the user in a status that can bill again.   *)
OpenSubscription(u) ==
    \E s \in Subs : /\ row[s] # NoRow
                    /\ row[s].user = u /\ row[s].status \in OpenStatuses

(* start_checkout: refused while a subscription of the user is open; what  *)
(* cannot be read is no open subscription.                                 *)
Checkout(s, u, c, p, named, custom) ==
    /\ psub[s] = NoRow /\ (custom => named)
    /\ IF OpenSubscription(u) THEN Fault ELSE faults' = faults
    /\ psub' = [psub EXCEPT ![s] =
          [status |-> "checkout", born |-> 0, end |-> 0, plan |-> p, stamped |-> p,
           user |-> u, customer |-> c, named |-> named, custom |-> custom]]
    /\ UNCHANGED <<events, now, outbox, tables, ledger, pc, ev, who, latest, disordered>>

(* The first payment is left to the renewals: its event is like theirs.    *)
Buy(s) ==
    /\ Is(s, "checkout") /\ now < MaxPeriod
    /\ Say(s, [psub[s] EXCEPT !.status = "active", !.born = now, !.end = now + 1],
           <<"order_created", "subscription_created">>)

Renew(s) ==
    /\ Is(s, "active") /\ psub[s].end = now
    /\ Extend(s, <<"subscription_updated", "subscription_payment_success">>)

(* The subscription_updated that says the same may be lost.                *)
RenewalFails(s) ==
    /\ Is(s, "active") /\ psub[s].end = now /\ now < MaxPeriod
    /\ Change(s, "past_due", <<"subscription_payment_failed">>)

PaymentRecovers(s) ==
    /\ Is(s, "past_due")
    /\ Extend(s, <<"subscription_payment_recovered", "subscription_updated">>)

CancelSubscription(s) ==
    /\ Is(s, "active") \/ Is(s, "past_due")
    /\ Change(s, "cancelled", <<"subscription_cancelled">>)

ResumeSubscription(s) ==
    /\ Is(s, "cancelled") /\ now < psub[s].end
    /\ Change(s, "active", <<"subscription_resumed">>)

PauseSubscription(s) ==
    Is(s, "active") /\ Change(s, "paused", <<"subscription_paused">>)

UnpauseSubscription(s) ==
    /\ Is(s, "paused") /\ now < psub[s].end
    /\ Change(s, "active", <<"subscription_unpaused">>)

Expires(s) ==
    /\ Is(s, "past_due") \/ Is(s, "cancelled")
    /\ psub[s].end <= now
    /\ Change(s, "expired", <<"subscription_expired">>)

(* In the customer portal: another variant of the same subscription.       *)
ChangePlan(s) ==
    \E p \in Plans : /\ Is(s, "active") /\ psub[s].plan # p
                     /\ Say(s, [psub[s] EXCEPT !.plan = p], <<"subscription_updated">>)

(* A Resend by hand of an event that is not ledgered, once things are quiet*)
Resend(n) ==
    /\ outbox = {}
    /\ n \in DOMAIN events \ ledger
    /\ outbox' = {n}
    /\ UNCHANGED <<provider, tables, ledger, handler, latest, disordered>>

(* A renewal is settled one way or the other before the clock goes on.  It *)
(* moves as long as some period that was bought is running.                *)
TimePasses ==
    /\ now < MaxPeriod /\ \E s \in Subs : psub[s] # NoRow /\ now < psub[s].end
    /\ \A s \in Subs : Is(s, "active") \/ Is(s, "past_due") => now < psub[s].end
    /\ now' = now + 1
    /\ UNCHANGED <<psub, events, outbox, tables, ledger, handler, latest, disordered>>

-----------------------------------------------------------------------------
Init ==
    /\ psub = [s \in Subs |-> NoRow]
    /\ events = <<>> /\ outbox = {} /\ now = 0
    /\ row = [s \in Subs |-> NoRow]
    /\ invoice = [i \in Invoices |-> "none"]
    /\ customer = [u \in Users |-> NoCustomer]
    /\ ledger = {} /\ approved = {}
    /\ pc = "idle" /\ ev = 0 /\ who = NoUser /\ faults = 0
    /\ latest = [t \in Targets |-> 0] /\ disordered = {}

Handle ==
    \/ \E n \in outbox : Receive(n)
    \/ RememberCustomer \/ UpsertSubscription \/ GrantAccess \/ SetStatus
    \/ RecordInvoice \/ MarkProcessed \/ Answer

Provider ==
    \/ \E s \in Subs, u \in Users, c \in Customers, p \in Plans, named, custom \in BOOLEAN :
          Checkout(s, u, c, p, named, custom)
    \/ \E s \in Subs :
          \/ Buy(s) \/ Renew(s) \/ RenewalFails(s) \/ PaymentRecovers(s)
          \/ CancelSubscription(s) \/ ResumeSubscription(s) \/ PauseSubscription(s)
          \/ UnpauseSubscription(s) \/ Expires(s) \/ ChangePlan(s)
    \/ \E n \in DOMAIN events : Resend(n)
    \/ TimePasses

Next == Handle \/ HandlerFails \/ Crash \/ Provider

Spec == Init /\ [][Next]_vars

-----------------------------------------------------------------------------
(* Properties.                                                             *)

(* Every variable has its type.                                            *)
TypeOK ==
    /\ psub \in [Subs -> ProviderSub \cup {NoRow}]
    /\ events \in Seq(Event) /\ Len(events) <= MaxEvents
    /\ outbox \subseteq DOMAIN events /\ ledger \subseteq DOMAIN events
    /\ now \in Periods
    /\ row \in [Subs -> Row \cup {NoRow}]
    /\ invoice \in [Invoices -> {"none", "open", "paid"}]
    /\ customer \in [Users -> Customers \cup {NoCustomer}]
    /\ approved \subseteq Users
    /\ pc \in {"idle", "customer", "subscription", "access", "status", "invoice",
               "mark", "answer"}
    /\ ev \in 0..MaxEvents /\ (pc # "idle" => ev \in DOMAIN events)
    /\ who \in Users \cup {NoUser} /\ faults \in 0..MaxFaults
    /\ latest \in [Targets -> 0..MaxEvents]
    /\ disordered \subseteq Targets

(* Once every event of a subscription is in the ledger, its row and its    *)
(* invoices say what the provider says: after crashes, failed writes,      *)
(* redeliveries and resends, in whatever order, as long as no event was    *)
(* applied after a newer one.                                              *)
LedgeredMeansApplied ==
    \A s \in Subs :
        psub[s] # NoRow /\ EventsOf(s) # {} /\ EventsOf(s) \subseteq ledger =>
            /\ \/ s \in disordered
               \/ /\ row[s] # NoRow
                  /\ row[s].status = psub[s].status
                  /\ row[s].end = psub[s].end /\ row[s].start = psub[s].end - 1
            /\ \A k \in psub[s].born + 2 .. psub[s].end :
                  psub[s].custom =>
                      <<s, k>> \in disordered \/ invoice[<<s, k>>] = "paid"

(* A subscription event that named nobody stays out of the ledger, so that *)
(* a Resend can still apply it.                                            *)
DeferredStaysOut ==
    \A n \in ledger : events[n].type \in SubUpsert => row[events[n].sub] # NoRow

(* Every usage window that opens was paid for: whatever is redelivered,    *)
(* resent or reordered, the prospects of a user are not counted from a new *)
(* start before the provider has billed the period that starts there.      *)
WindowIsPaidFor ==
    \A s \in Subs : row[s] # NoRow => row[s].start < psub[s].end

(* A row, and with it the entitlement and the quota, belongs to the user   *)
(* who bought; events without a user id go to somebody who bought with the *)
(* same customer id; and nobody is let in who bought nothing.              *)
RowBelongsToBuyer ==
    /\ \A s \in Subs : row[s] # NoRow =>
          /\ psub[s].custom => row[s].user = psub[s].user
          /\ \E t \in Subs : /\ psub[t] # NoRow /\ psub[t].user = row[s].user
                             /\ psub[t].customer = psub[s].customer
    /\ \A u \in approved : \E s \in Subs : psub[s] # NoRow /\ psub[s].user = u

(* Claims of the source that the code does not keep.                       *)

(* store.py: plan changes go through the customer portal.                  *)
PlanFollowsPortal ==
    \A s \in Subs :
        /\ psub[s] # NoRow /\ EventsOf(s) # {} /\ EventsOf(s) \subseteq ledger
        /\ s \notin disordered
        => row[s].plan = psub[s].plan

(* billing_api.py: the flow cannot create two subscriptions.               *)
OneOpenSubscription ==
    \A s, t \in Subs :
        /\ psub[s] # NoRow /\ psub[s].status \in OpenStatuses
        /\ psub[t] # NoRow /\ psub[t].status \in OpenStatuses
        /\ psub[s].user = psub[t].user
        => s = t

=============================================================================
