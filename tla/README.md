# Saqua: TLA+ models and proofs

Saqua researches companies, writes cold emails, launches them as sequences of up
to five touches per recipient, watches the connected mailbox for replies, and
sells all this by subscription. It is a Python server (FastAPI, uvicorn with one
worker process, threads per synchronous route) beside worker processes that
share one SQL database and, where configured, one Redis.

This directory holds the TLA+ modules that model the parts of it where order,
concurrency and failure decide whether it is right, the TLC configurations that
check them, and TLAPS proofs. `PROJECT.json` is the machine-readable index:
which definition models which lines, which run checks which property, which
mutation of the model breaks it, and the hazards of the code at their lines.

    tlc -workers 2 -config WorkflowWorkers.cfg MCWorkflow.tla
    tlapm WorkflowProofs.tla

The proofs about a module `M` are in `MProofs`.

## 1. The system

| Component | State it keeps | Operations | What is hard | Here |
|---|---|---|---|---|
| Automation engine (`automation/engine.py`, `store.py`, `states.py`, `worker.py`, `server/automation_api.py`) | one row per workflow (state, current step, step statuses, `next_run_at`, retry count), the ledger of processed replies | create, tick, advance, send, retry, run, pause, resume, cancel, force-retry, force-complete, ingest a reply, recover at start | whole-row saves by ticks and unlocked requests; a lock with a TTL; a crash at every save; a provider that does not deduplicate | `Workflow` |
| Coordination (`automation/redis.py`) | locks, counters, rate windows in Redis or in memory | acquire, release, incr, rate_allow | expiry while held; a store that is down | `Coordination`; the tick's lock in `Workflow` |
| Mail providers (`automation/providers/`) | none | send, watch, list_history, get_message | accepted but timed out | outcomes in `Workflow`, `Mailbox` |
| Mailbox connections and push (`automation/tokens.py`, `push.py`, `oauth.py`, `server/oauth_api.py`) | OAuth account rows: tokens, status, watch state | connect, disconnect, refresh, arm and renew watches, handle pushes | refresh races with rotating tokens; watch state read, awaited, written back; ledger before effect | `Mailbox` |
| Billing (`billing/webhook.py`, `store.py`, `server/billing_api.py`) | subscriptions, customers, invoices, event ledger | handle an event, start a checkout, portal | events out of order, twice, never; crashes between writes | `Billing` |
| Prospect quota (`billing/usage.py`, `chat/tools.py`) | usage rows keyed by user, period anchor, prospect; a JSON mirror | claim, release, record in bulk, import, mirror | the anchor moves under a claim; leaks; turns at once | `Quota` |
| Campaigns (`server/campaign_api.py`, `campaign_store.py`) | campaign rows: status, result, workflow ids | create, edit a recipient, launch, pause, resume, cancel | load, decide, write back the whole row, in threads; a claim that expires; a launch half done | `Campaign` |
| Chat agent (`chat/`) | conversations, their workspace | a turn of model and tool calls; lists of companies | whole-conversation saves; bounded tool hops; artifacts of two companies in one workspace | `Chat`, `Listing` |
| Lead discovery (`discovery/`) | the owner's table of prospects | search in passes, merge, verify, gate, page | providers in any order; what was shown is not shown again | `Discovery` |
| Research (`research/`) | the profile and its evidence graph, per company | fetch, crawl, extract, verify, buy evidence | budgets, stalls, failed batches, facts without a page | `Fetch`, `Research` |
| Writing agents and preview (`agents/`, `server/campaign_api.py`) | a preview's tasks and results | qualify, strategise, write, repair, edit, guard, follow up | a deadline over a pool of threads; edits after validation | `Writing`, `Pipeline` |
| Demo (`demo/`, `server/demo_api.py`, `demo_session.py`) | sessions, allowances, locks, counters; the stream of a run | gate, enter, talk, run | a lock that expires under its holder; one allowance through many doors | `Demo`, `Allowance`, `DemoRun` |
| Account limits and model client (`limits/`, `services/claude_client.py`) | usage ledger, account state | allow, record, retry, pause, resume | check before, record after, in many threads | `Limits` |
| Access and waitlist (`access/`, `waitlist/`) | one row per user or address | first request, decide; join, confirm, opt out, broadcast | UPDATE then INSERT; a broadcast killed or run twice | `Access`, `Waitlist` |
| Spend and deliverability guard (`guard/`) | none; reads the workflows | assess an e-mail before it is sent | judged on a history read before | `SendGuard`, the preview's in `Writing` |
| Telemetry, error log, web front ends, evaluation | append-only or none | | never feeds back into the server | not modelled |

How they interact: a search, a campaign preview and the demo all go the way
discovery, fetch, research, qualify, write, guard. A campaign launch calls
`engine.create_workflow` once per recipient and remembers the ids; the
campaign's pause, resume and cancel call the engine's for every id; a chat's
send makes a workflow of one step, after the guard read the others. Worker
processes tick the engine; a tick asks the mailbox component for a token and the
provider to send. Pushes from Gmail are resolved to messages by the mailbox
component and handed to `engine.ingest_reply`. Lemon Squeezy calls the billing
webhook; the row it writes decides the plan, and its period's start is the
anchor the quota counts against; an active plan also approves the user in the
access store. Every paid call asks the limits first. Everything meets in the
database: no component holds authoritative state in memory.

## 2. The plan

Order: what the product must never get wrong first (an email sent twice, in the
wrong order, after a reply or after a cancellation), then money, then the rest.

1. `Workflow`, with proofs: done.
2. `Billing`, `Campaign`: modelled and checked.
3. `Quota`, `Mailbox`, `Chat`: modelled and checked.
4. The pipeline: `Discovery`, `Fetch`, `Research`, `Writing`, `DemoRun`,
   `Listing`, composed in `Pipeline`: modelled and checked.
5. The accounts: `Coordination`, `Waitlist`, `Demo` (which implements
   `Allowance`), `Limits`, `Access`, `SendGuard`, composed in `Accounts`:
   modelled and checked.
6. Proofs: `Workflow`, `Quota`, `Accounts` (with `Demo`'s refinement of
   `Allowance`), `Mailbox`, `Campaign`, `Billing`, `Chat` and `Pipeline`: done.
   Every safety property a passing run checks is a theorem (section 4).

Every module takes its sets and bounds as constants under a named assumption,
has one action per operation or per stretch of code between two accesses to
shared state, and states its invariants as named conjuncts, so the module that
TLC checks is the one the proofs are about. No module uses a recursive operator.
The type invariants (`TypeOK`, and `LimitsTypeOK`, `AccessTypeOK`,
`WaitlistTypeOK`, `DTypeOK`, `RTypeOK`, `WTypeOK` of modules that are composed)
are in no run: where a module has proofs they are theorems or parts of its
inductive invariant.

## 3. Workflow: the automation engine

**State.** `row` is the workflows table, `ledger` the processed replies, `lock`
the Redis keys. Each process (a worker that ticks, a handler that serves one
request) has a program counter `pc`, the workflow it works on, the rest of its
batch and `mem`, its own copies of rows. `store.save` writes every column, so
each save is one step that replaces the row with the copy, and anything may
happen between two saves. Histories: `accepted` counts what the provider took,
`stale` says whose copy was overwritten since it was loaded, `marks` says what
has gone wrong with a workflow (a lost update, a recovery, a lost answer, an
expired lease, an unlocked run, a claim without its effect).

**Actions.** `Scan`, `Pick`, `Load`, `Release` and `EndTick` are `tick()`; the
actions of `Advance` follow `advance_workflow` from save to save; the provider
call ends in one of four outcomes (accepted, accepted but the answer lost,
transient, permanent); `Control` and its successors are the requests, which take
no lock; `Recovery` is `recover()`; `Crash` clears a process; `Expire` is the
lock's TTL; `TimePasses` makes scheduled times due.

**Abstractions.** A timestamp is none, later or due, and the copies of a row age
with it. The retry count stops at `MaxRetries`, where it stops mattering.
Subject, body and thread ids are data. The lock is that of a shared Redis.
Branches whose guards `RowIsTruthful` shows to be false are left out: the reply
test in `advance` and `_after_wait`, the "already sent" test of
`_try_send_current`, a current step of None, READY and DRAFT (left before the
only save of `create_workflow`), and `recover`'s test of the step. Left out:
an exception that aborts the rest of a tick's batch; a reply with an empty
message id (it claims nothing in the ledger); `force=True`.

**Runs.**

| Run | Shows | Distinct states |
|---|---|---|
| `workflow_workers` | two workers tick, crash, recover and outlive leases: `NoUnexplainedResend`, `LockedCopyIsFresh`, `TicksExclude`, `RowIsTruthful` | 1.24 million |
| `workflow_requests` | one worker against every request, in a thread that may die: `SequenceOrder`, `ClaimedReplyStops`, `TerminalLeftOnlyByLostUpdate` | 2.43 million |
| `workflow_liveness` | `NeverStuckInQueue` with crashes, retries, rate limits and an unlocked run | small |
| `workflow_sent_once` | finds `SentOnce` violated: crash after acceptance, recovery, second send | |

**Bounds.** One workflow (workflows share no state but the batch), two emails
(the smallest sequence with an order, a wait and an end), two workers or one
worker with one handler (every race is between two saves of two processes),
`MaxRetries` 1 or 2 (a retry and the dead letter), `MaxSends` 2 (a second
acceptance is the event of interest; 0 in the liveness run, which does not need
the count). The proofs remove these bounds. No deadlock check: a workflow that
has ended leaves nothing to do.

**Fairness.** Weak on `Advance` of each process (a thread that is not dead runs
on), on `Tick` and `Recovery` of each worker (its loop, and the supervisor that
restarts it), on `Expire` (Redis ends every key with a TTL) and on `TimePasses`;
strong on `BeginSend`, because the rate limiter's window of 60 seconds resets
and a send that is due again and again is let through once. Nothing is assumed
of requests. `NeverStuckInQueue` holds once crashes and new requests have ended
(`Quietens`); without that a process could crash for ever.

**Noticed and not stated as properties.** A send begun from FAILED saves QUEUED
with no next time, so a crash just there strands the row. An unlocked `run`
resets the retry count by a lost update. A rate-limited `run` on a dead letter
puts it back in the queue. Rows that stay due without being advanced (PAUSED, or
stranded in SENT) keep their places in the batch's LIMIT.

## 4. What is proved

Every theorem below is of the module TLC checks, for every value of its
constants: any number of processes, companies, users, events, steps and faults.
The runs of the other sections show the same properties on small instances;
each inductive invariant was also checked by TLC on the instance of its run.

### Workflow

For any sets of workflows, workers, handlers and replies, any number of steps,
retries and batch size (`WorkflowAssumption`), TLAPS checks in `WorkflowProofs`:

- `TypeCorrect`: `Spec => []TypeOK`.
- `LockedCopies`: `LockedCopyIsFresh`. `MutualExclusion`: `TicksExclude`.
- `TransitionsValid`: `NoInvalidTransition`.
- `TerminalStays`: `TerminalLeftOnlyByLostUpdate`, an action property.
- `EmailsInOrder`: `SequenceOrder`. `RowsTruthful`: `RowIsTruthful` (both for
  `MaxSends > 0`: acceptances must be counted to be spoken of).
- `ResendsExplained`: `NoUnexplainedResend`. `RepliesStop`: `ClaimedReplyStops`.

The argument. None of these is inductive. A process between two saves holds a
copy that may differ from the row, so the invariant speaks of both. `IInv` is
`TypeOK` with: `Shape`, the state a process's copy must have at each `pc`, and
which kind of process can be there; `Forms`, what the columns of any row or copy
say of each other (all emails before the current one sent, a waiting row has a
next email, a paused row remembers from where); `Fresh`, a copy nobody has
overwritten equals the row, but for the step marked "sending" in memory only;
`Leased`, a ticking worker holds the lock unless its lease ran out; and
`LockedCopyIsFresh` itself. Every step of a process either writes the row it
holds or only reads (`ProcessStep`), and the environment touches locks and
clocks; preservation is proved once per class (`WriteKeeps`, `ReadKeeps`,
`EnvironmentKeeps`), not once per action and conjunct. A second
invariant relates rows to the provider. `Deliveries`: an email marked sent in any row
or copy was accepted. `CleanSends`: while no update was lost, nothing re-queued
and no answer lost, an accepted email is marked sent, or being sent, or its
workflow is over, and only one process sends it. `EndsKnown`: a copy of a
workflow that is over says so, unless an update was lost.

`TypeOK` and `NoInvalidTransition` are proved and in no run: TLC agreed with them
before they were, and the proofs say more.

### Billing (`BillingProofs`)

`TablesTellTheStory` (`LedgeredMeansApplied`), `DeferredIsNotLost`
(`DeferredStaysOut`), `NoUnpaidWindow` (`WindowIsPaidFor`), `BuyerOwnsRow`
(`RowBelongsToBuyer`), `TypeCorrect`. What a row should say is what the provider
said, so the invariant has two halves. `Story` is about the events alone: a
subscription that was sold has events (`Born`), an event tells of its own
subscription truthfully (`Honest`), consecutive events a row follows differ by at
most a period (`Chained`), the last one agrees with the provider's present state
(`Tip`), and an invoice is paid or not as its last event says (`Settled`).
`Kept` is about the tables: what the handler holds while it is between two
writes (`Handling`), what an entry of the ledger implies (`Ledgered`), that the
row and the invoice are exactly what their newest applied event says, unless
disordered or with a gap still to be redelivered (`RowExact`, `InvoiceExact`),
`Buyers` and `Windows`. A step of the handler keeps `Story` because it sends
nothing; a step of the provider keeps `Kept` because the tables speak of events
that only grow.

### Campaign (`CampaignProofs`)

`OneLaunchHolds` (`OneSequence`), `NothingOrphaned` (`NoOrphan`),
`CancelSilences` (`CancelledIsSilent`), `SentIsShown` (`ShownIsSent`),
`TypeCorrect`. A request writes back a row it loaded earlier, so the invariant
follows each thread's copy: `JobsFit` and `JobsKnown` (what a job holds at each
label), `CopiesFresh` (a copy nobody overtook is the row), `SoloLaunch` (while no
named event has spoilt a campaign, one launch holds its claim and made every
workflow it has), `Found`, `Silent` and `Shown` (where each workflow is recorded,
on the row or in the launch that makes it). The proof is by what a step writes:
its own copy only, a workflow, or the row, the last with the threads it overtakes.

### Mailbox (`MailboxProofs`)

`NoReplySkipped` (`NothingSkipped`), `ConnectedWorks` (`ConnectedIsUsable`),
`TypeCorrect` (of `TypeInv`; that what is found and listed is in `Ids`, as
`Mailbox.TypeOK` says, needs that every finite set of ids has a minimum, an
induction). `SkipInv` says of every
row and of every copy a thread read before its await that no reply lies behind
its history id except by one of the three causes in `passed`, and of a push that
is ingesting that it has the others in hand: an older state written back is then
harmless.
`TokenInv` says that a token about to be saved works and is in one thread's
hands only, that a token a thread read is in no other user's row, and that a row
whose token no longer works is flagged, or some thread is about to flag, replace
or delete it.

### Quota (`QuotaProofs`)

`CapHolds` (`PaidWindowsCapped`), `OwnSlots` (`OwnSlotStands`), `Earned`
(`SlotsAreEarned`), `TypeCorrect`. `LimitsCached`: the plan's limit and every
limit a turn in progress carries are on the record of the open window (`terms`),
which only grows (`LimitsStep`); a count under such a limit is under the cap
(`RecordingKeepsCap`). `TurnForms` and `SlotsApart`: claimed slots are rows, of
one turn each, until a release was not of the slot of its claim.
`MirrorsDelivered`: a mirror holds only keys that were delivered or metered in
bulk. The lemmas about finite windows (`RowsIn`) are what the count in
`record_prospect_use` rests on.

### Chat (`ChatProofs`)

`SwitchTakesNothing` (`SwitchIsClean`), `NothingEndedIsLost` (`EndedIsSaved`),
`DraftsStayOnCompany` (`DraftIsForCompany`, an action property), `TypeCorrect`.
`StepGoesOn` reduces the twenty-odd tools to one class, a turn that goes on with
a draft that is the one before, none, or one with a label that matches the
company on file; `SaveInv` adds to `EndedIsSaved` that every copy in progress has
what ended alone and was saved, and that turns in progress together have crossed.
`AskStep` follows what was asked for through both branches of `write_email`.

### Accounts (`AccountsProofs`)

One theorem per part, of the composition: `DecisionsStand` (`DecisionStands`),
`OptOutsStand` (`OptOutStands`), `OneRun` (`OneRunPerNetwork`),
`TurnsImplementAllowance` (`TurnsAreAllowance`), `OvershootIsBounded`
(`OvershootBounded`), `SpikesAreCaught` (`SpikeCaught`), `GuardIsHeld`
(`GuardHolds`). A lemma splits a step into the parts that may have moved; each
invariant is kept by its own part and untouched by the rest. `TurnsCounted` ties
what the counter admitted to what an address was served, and from it every step
of the demo is a step of `Allowance` or a stutter. `Overshoot` counts rows and
calls past their check together, so that a call moves from one to the other
without changing the sum. `SpikePending` says who will catch a spike not caught
yet: a call with its verdict still to pass, or a pause that is on its way
(`PausingStands`), unless the account was below every threshold asked about. `RecordedStopped` says that a recorded reply left a stopped workflow, which
is what the guard reads.

### Pipeline (`PipelineProofs`)

`Parts` reduces a step of the composition to a step of each part, the moment the
part is handed over and forgotten, or a stutter, so each part has an invariant of
its own.

- `PageIsEarnedHolds` (`DInv`). `OnlyNew`: nothing a search has seen is in its
  merged candidates, and unless the table failed it has seen all that was shown
  before it. `Fits`: a company's fallback stands on a page only beside every
  candidate that passed the gate, and each was cited where the plan asks for it.
- `FetchedInFullHolds` (`FInv`). A page between two attempts keeps which ways it
  has tried (`PageOK`), so that being given up implies the last of them.
- `NeverPaysTwiceHolds`, `GroundedHolds`, `PeopleReadFirstHolds` (`RInv`).
  `IsPaid` ties the counters of the providers to the set of requests made: what
  was spent is how many different ones there are, and stays within
  `MaxActions`. The other two are action properties. `Grounded`: `WorkRetains`
  shows, action by action, that pages kept and what they said only grow
  (`MergedGrows`, `GroundGrows`) and that a search's finds (`GInv`: slots of the
  graph) are kept or dropped together; `OpensOnlySo` then tells which gaps that
  can reopen. `PeopleReadFirst`: how a crawl may leave its pages.
- `SendableIsCleanHolds`, `AnswerStandsHolds`, `WTypeOKHolds` (`WInv`). `JobOK`
  follows a draft through repairs and the guard: from the first edit that passed
  to the follow-up, it breaks no rule; whoever runs after the answer changes
  their task only.
- `NothingOversoldHolds` (`MInv` for the demo, `LInv` for the lists). `Staged`
  (who leads once the cards are ranked), `Seated` and `Tallied` (every company of
  the page is late, unreadable or scored, and counted once). For the list,
  `Sorting` shows that a stable sort is a bijection of the rows with no better
  row below a worse one: a row has fewer before it than any it precedes, so places
  differ, and as many different places as rows are all of them. What is counted for
  each company and against the account follows (`SortedCount`). A row's person
  and name are whatever the research filled, skipped or not (`RowsAreOK`).

### Assumptions

Constants that stand for "no row", "no user", "nobody", "no holder" or "no
address" are not values of the kind they are missing from (`NoRow`, `NoUser`,
`NoCustomer`, `NoMember`, `Nobody`, `Unheld`, `None` of `Chat`); subscription ids
and invoice ids are different ids; limits and bounds are natural numbers. `Quota`
assumes finitely many companies and at least one paid plan, of any limits;
`Limits` finitely many calls, at least one, a spike floor above 0, and that the
others may have no calls (a median of 0); `Research`
finitely many linked pages, `Fetch` finitely many subpages, `Writing` finitely
many companies; the
counters of `Demo` and `Waitlist` assume that `Ceiling`, where the model stops
counting, is above every limit it is compared with; `SendGuard` that there is
some share of similar text. Each is an `ASSUME` of its module, evaluated by the
run that extends it.

### Only model-checked

`NeverStuckInQueue`, `TurnEnds` and `VisitorsAreAnswered`: liveness under
fairness needs ENABLED, which is out of the prover's reach (the safety conjunct
of the last, `AnswerStands`, is proved). The two violations, which are
counterexamples.

## 5. Billing: events of the payment provider

**State.** `row`, `invoice`, `customer`, `ledger` and `approved` are the billing
tables and the access approval; `psub` is what Lemon Squeezy holds of each
subscription (external, modelled from the fields the webhook reads); `events`
are all events it has sent, each with the state at that moment, and `outbox`
those not answered yet. One event is handled at a time: `ls_webhook` is an async
route that never awaits between reading the body and answering, and uvicorn runs
one process. Its database calls are separate steps (`RememberCustomer`,
`UpsertSubscription`, `GrantAccess`, `SetStatus`, `RecordInvoice`,
`MarkProcessed`, `Answer`), so it may crash between any two, and any of them may
raise (`HandlerFails`: answered 200, never delivered again unless resent).

**Provider.** Buys, renews, fails to renew, recovers, cancels, resumes, pauses,
expires, changes the plan in the portal; delivers the events in any order and
again until they are answered; an operator may resend one that is not in the
ledger. Some purchases carry no custom data at all (bought outside the checkout),
some on their order only: an order that names nobody leads to no write and is
ledgered, a subscription event that names nobody is looked up by customer id.

**Runs.** `billing` (2.54 million states): two users who may share a customer
id, two subscriptions, two plans, two periods, five events, two of them
undelivered at a time, one fault. Five events allow buy, fail, recover, renew,
cancel on one subscription or two intertwined purchases; two in flight is the
least that can overtake; one fault is a crash, a failed write, or the read of a
checkout that takes no answer for no open subscription. Checked:
`LedgeredMeansApplied` (when every event is in the ledger the tables say what the
provider says, unless an older event was applied over a newer one),
`DeferredStaysOut`, `WindowIsPaidFor` (no usage window opens before it is paid),
`RowBelongsToBuyer`.

**Left out.** Two server processes at once during a deploy (provider ids have no
UNIQUE key, so both could insert); the event of the first payment and the status
update that accompanies a failed payment (the handler's effect is that of events
that are modelled); on_trial and unpaid, folded into active and past_due; the
30-day default window when no start is known; denial of access by an operator.

## 6. Campaign: launching and controlling a campaign

**State.** `row` is the campaigns table: status, the address each prospect would
be written to (`NoAddress` when it cannot be launched), the workflow ids.
`fresh` says whether `updated_at` is within the claim's 120 seconds. `wf` is
what the campaign's calls made of each workflow, named by campaign, number of
the launch and recipient. Request threads share nothing but the row: each loads
it, decides, and calls `update()`, which reads it again for what the caller did
not give and then writes all of it (`UpdateReads`, `UpdateWrites`). Only `Claim`
is a conditional UPDATE. A launch makes its workflows one by one, saves, records
an event; anything raised after the claim releases it (`LaunchFails`); a request
may fail half way (`Aborts`) and the process may die (`Crash`).

**Runs.** `campaign` (343 thousand states): one campaign, two prospects and two
addresses (so recipients may coincide, and a launch can be half done), two
threads, four requests, two launches. Four requests are create, launch and any
two against each other. Checked: `OneSequence` (no recipient gets two sequences,
but after one of five named events), `NoOrphan` (every workflow that can send is
where pause and cancel find it), `CancelledIsSilent`, `ShownIsSent`. The named
exceptions are the history `marks`; each is a line of the hazards, and the
properties say these are all there are.

**Left out.** The pipeline that fills a campaign (any result may come out of
it; `Pipeline` has it); campaign events and warnings; that a prospect counted as launchable may
still be refused for its address at launch; what a worker does to a workflow
while it is cancelled, which is `Workflow`'s subject, so `CancelledIsSilent` is
about the cancellation reaching every workflow, not about its being overwritten.
Campaigns share nothing, so one is enough.

## 7. Mailbox: connections, watches and pushes

**State.** `row` is the accounts table (status, refresh token, the watch's seed
and the history id the pushes track), `ledger` the pushes marked processed; of
Google the model keeps the mailbox's messages and which refresh tokens work.
Web requests and the worker are threads with a copy of the row each. Consent,
refresh (`fresh_access_token`), arming and renewing a watch, disconnecting and
handling a push are taken step by step, from one access to the row to the next,
with the provider's call between; any call may fail, a thread may die anywhere,
a push may be lost, late or repeated, an answer of the token endpoint may be no
JSON (`Unreadable`, which marks nothing). `Expiring` and `Unwatched` are the
selections of the worker's maintenance beat; `Listed` is the first page of the
history, whose other pages the code does not ask for although the id it gets and
stores is the mailbox's latest. `passed` is a history: the replies an id was set
beyond, with the cause.

**Run.** `mailbox` (3.81 million states): one mailbox, one request thread and
the worker, three messages, pages of one message, three refresh tokens, three
operations, one death or unreadable answer. Two threads are the least that race
on a row, three tokens a rotation by each, and with pages of one two unseen
messages overflow a listing. `NothingSkipped`: the stored history id passes an
unseen reply for three causes only: it came before the watch was started, a
renewal's answer jumped over it, or it was beyond the page. The second and the
third are losses the code does have; the property says there is no fourth.
`ConnectedIsUsable`: at rest, a connected account has a token that works, if no
thread died and every answer could be read.

**Left out.** Outlook's notifications: the watch state they are matched with is
never written, so they reach no account. Reading and deleting an OAuth state are
two statements; a state used twice at once is not modelled. Only Gmail's fields.

## 8. Quota: the prospect allowance

**State.** `window` is the user's billing window (0 is the Free lifetime one),
`allowance` the limit of the plan the user is on, `rows` the usage table, `file`
the `_usage.json` mirror, `turn` what each turn is doing with the limit it
cached. The actions are a turn's: begin and hydrate (with the legacy import,
`Imported`, and the limit, the Free one if the subscription cannot be read),
claim (a transaction: `INSERT` under the count), research, deliver or release,
record in bulk (`RecordOne`), mirror at the end; the subscription is renewed on any
paid plan, changed to another within its period, lapses and is resumed
meanwhile. A turn may die, a release and a bulk record may fail. A limit of 0 is
no limit (`Metered`): such a turn claims nothing, is told that it did, and gives
back whatever row its key has if the research fails.

**Run.** `quota` (2.71 million states): two companies, two turns at a time of
three, no limit on Free and paid plans of 1 and 2, two paid periods, one change
of plan or window, one fault. A limit of 2 is met with two companies; three turns
let one begin under the old limit, one under the new, and one after; one change
is enough to leave a turn with the limit, or the window, of before it.
Checked:

- `PaidWindowsCapped`: what a paid period holds is within some limit that was
  enforced in it. That is less than the plan's cap, and all the code gives: the
  limit is cached when a turn begins (`agent.py:303-305`) and the window is asked
  for again, so a turn begun on a plan of 100 fills a period of the plan of 50
  that follows it up to 100. `terms` records which limits those are.
- `OwnSlotStands`: no other turn's release takes a slot in use or delivered, as
  long as every release was of the slot of its own claim. The two ways in which
  one is not, a window that moved (`usage.py:238`) and a turn without a limit
  (`tools.py:257`), set `astray`, after which nothing is claimed: that such a
  release takes another turn's slot is true of the code and no property denies it.
- `SlotsAreEarned`: a slot is spent on a delivered research, on one a death or a
  failed release left behind, or on a company a batch could not research (`thin`,
  see section 12), and on nothing else.

**Not stated.** A concurrent duplicate relies on a slot whose claimer may release
it (`tools.py:345`). The batch path records under the NAME key. Two batches read
one `remaining`. `deep_research` of a company whose URL is another's is free. A
paid subscription without a period's dates would share window 0.

## 9. Chat: a conversation's turns

**State.** `conv` is the file, `turn` each turn's place (model, tool, end) and its
copy of the workspace: of each artifact, the company it is about; of the draft,
whom it is addressed to and whose material it was written from. A research or a
draft that gave nothing usable is as none on file, for every reader asks for
status "ok". The actions are the loop of `agent.py` and every tool of `tools.py`
by its effect on the workspace; what a model or a tool answers is a choice. A
turn saves the whole conversation however it ends, unless the save raises, which
is logged and no more, and may die before. The code compares companies loosely:
by labels of which one contains the other (`Alike`, for `_labels_match`) and by
a name asked for that passes for the label on file (`Mistaken`, for
`_same_company`); both relations are constants, and the proofs hold for any.

**Run.** `chat` (368 thousand states): three companies, two with labels that
match, one taken for another of a different label (so that a draft can stray
in either way, and be stopped); two turns, two hops, one tool per hop, one fault,
a death or a failed save. Two hops let a tool follow a tool; what needs three is
reached through a second turn, which starts from the file. `SwitchIsClean`;
`DraftIsForCompany` (an action property), which says how far a draft may stray
from the ask: not beyond what the two comparisons let pass; `EndedIsSaved` (but
for turns that overlapped or whose save failed), `TurnEnds` under weak fairness
of `Step`: the model client times out and tools return or raise, so a turn that
can go on does.

**Left out.** Prompts, prose, streaming. The companion `Listing` (checked in
`pipeline`) has the two lists a chat shows: the card of a search and the scored
list of a research, with who counts against the quota. Noticed there: a search
saves its whole page as seen but shows ten, so what qualified beyond is never
offered again although the reply says more are available; rows are remembered by
name, so a second row of a shown name goes too; the top of a list may be a
rejected or a too-thin company; a bare name may resolve to another company's
site. In the chat: retargeting a draft keeps sequence, variations and history.

## 10. Pipeline: from a search to what may be sent

`Pipeline` composes six modules over the same companies; a behaviour is a
campaign preview, a demo run, or a chat's list. A part hands on what the next
one reads and is then forgotten, which is sound because a company's research
reads and writes nothing another thread does.

| Module | Code | State and actions |
|---|---|---|
| `Discovery` | `discovery/engine.py`, `sources.py`, `intent.py`, `aggregators.py`, `store.py` | `table` of seen prospects, `search` in passes; ask providers, merge by domain, score, verify, gate, save the page; the table may fail |
| `Fetch` | `research/fetcher.py`, the candidates of `crawler.py` | `visit`, `fetched`, `browser`; plain request with redirects and retries, the one browser of a run, two paid readers, sitemaps and the cap per section |
| `Research` | `research/pipeline.py`, `evidence_loop.py`, `gaps.py`, the verifier | `crawl`, `raw` facts by page, `paid` budget, `report`; batches in crawl order, goals, stalls, grounding, the paid loop and its gaps, supplemental sources |
| `Writing` | `server/campaign_api.py`, `agents/` | a task per company on a pool; research, qualify, strategy, write and repair, edit, guard, follow up; deadline and answer of the request |
| `DemoRun` | `demo/runner.py` | the stream, the futures, the cards; find, score on the pool, deadline, rank, opener through the guard |
| `Listing` | `chat/tools.py`, `chat/research_pipeline.py` | the card of a search, the scored list |

**Run.** `pipeline` (663 thousand states): two companies, one followed; a page
of one (so a place is contested), two searches (what was shown is not shown
again), one outage; five linked pages and one unlinked, a budget of four in
batches of two (a crawl can stall, run out, or end at a goal); three paid
actions, two per provider, two sets of providers; a pool of one thread (so
queueing and the deadline meet); one repair; three subpages in two sections,
one retry, one redirect. `MCReadings` lets the homepage explain the company or
not, a blog contradict another page, an adviser turn out to be a customer's, a
customer's story say what it may not and quote a figure, and a price be in a hook
only. `Grounded`: nothing a page told is lost while the run works, and a story
supports only the fields the verifier's allowlist names (`StorySafe`) and what
`backfill_facts_from_hooks` copies from its quotes.
Checked: `PageIsEarned`, `FetchedInFull`, `PeopleReadFirst`, `Grounded`,
`NeverPaysTwice`, `SendableIsClean`, `NothingOversold` (of demo and list),
`VisitorsAreAnswered` (preview and demo end, and late threads change no answer).

**Fairness.** Weak, on `Deadline`, `Answer`, `Collect` of the preview and
`TimesOut`, `EveryoneLanded`, `RankAll`, `WriteOpener` of the demo's stream: time
passes, a finished future is seen, and a model call of the stream itself returns
or times out. Nothing is assumed of the pool's threads: they may hang for ever,
and the request is answered all the same. A reader that stops reading its
stream suspends the generator past any deadline; the model's reader reads.

**Abstractions.** Fetches come before the crawl that asks for them. A text is its
length against `RichFrom`; a fact is the slot it fills; a draft is whether it
breaks a hard rule, reads weak and reads like a machine. Scores are kept to the
bands the code compares.

**Noticed and not stated.** The section cap is not applied again when links and
sitemap merge. A batch failure ends the crawl with "crawled all". A candidate
whose research raises yields no event in the demo, and a run that is empty or
failed ends without "done". A guard that raises lets the demo's draft through.
`lstrip("www.")` strips letters. A verified address is not the address sent to.
Cost is charged for calls that were short-circuited. Late threads mark their
company researched and go on spending. The demo researches its own site and
searches before its deadline begins to count.

## 11. Accounts: who may use what, how much, and mail whom

`Accounts` composes six parts that share little: the demo signs its visitors up
to the waitlist and its sessions and runs share the day's ledger; the others
share nothing, so a behaviour exercises one (`focus`).

| Module | Code | State and actions |
|---|---|---|
| `Coordination` | `automation/redis.py` | operators on counters with a window and locks with a TTL; no state |
| `Waitlist` | `waitlist/`, `server/waitlist_api.py` | the table; join, confirm and opt out read and then write; a broadcast sends and then stamps, may be killed or run twice |
| `Allowance` | the promise of `demo_session.py` | units taken per holder, never above a cap in a window |
| `Demo` | `server/demo_api.py`, `demo_session.py` | gate, sessions as cookies, turns, runs under lock, counters and budget |
| `Limits` | `limits/`, `services/claude_client.py`, `research/providers_common.py` | ledger in two windows and what it cost, account state; allow, call (with retries), record, spike, operator's commands |
| `Access` | `access/`, `server/api.py` | `entry`; first request, decision, the webhook's approval, each statement by itself |
| `SendGuard` | `guard/`, `send_email` of `chat/tools.py` | the draft, the workflows of the user; edit, assess, confirm, send, replies and bounces meanwhile |

**Refinement.** `TurnsAreAllowance` is the specification of `Allowance`, instantiated
with the turns an address was granted: through exit, re-entry, a cleared cookie,
a second tab and a failed chat, the sessions do what the abstract allowance does
or nothing.

**Run.** `accounts` (1.5 million states): two people, two requests and two
broadcasts at a time, four visits; two browsers and tabs, one turn; two pipeline
requests, one expired lock; two calls of a two-provider account with caps of 2
and 3 (so a cap is passed by a race), one operator; two members, two deciders;
two recipients, one written in two ways, and two workflows. Checked:
`OptOutStands`, `TurnsAreAllowance`, `OneRunPerNetwork`, `OvershootBounded`,
`SpikeCaught`, `DecisionStands`, `GuardHolds`. The caps are passed by the calls in
progress and by no more; the bound is stated, not wished away. The median of the
other users is any of `Baselines` each time it is asked for, so a verdict may be
passed against another threshold than the one before: `SpikeCaught` holds an
account to all the thresholds asked about since its last metered call (`judged`),
and excepts a pause that was undone (`undone`: an operator resumed, or another row
came before the pause's INSERT). `DecisionStands` records a decision when it is
answered, written or not; one that wrote nothing is `dropped`, and only a failed
statement or another's row that came in first drops one.
`guard_recontact` is the guard's part alone, and finds `RepliersLeftAlone`
violated. No fairness: these are safety properties. No deadlock check: bounded
requests run out.

**Left out.** The monthly ceiling (one more cap), the burst limit of an address,
the honeypot, the Gmail-only check, bounces of the waitlist (nothing calls
`mark_bounced`), the guard's cost section, auth and usage caps (no caller fills
them).

**Noticed and not stated.** `require_approved_user` passes no address, so an address on
`ACCESS_AUTO_APPROVE` never matches. The guard judges the draft's address and
the mail goes to the tool's argument. After `write_sequence` the first email's
delay of 0 days blocks every send. The twenty prior bodies kept are the oldest.
After a transient failure the user reads "NOT sent" while the worker sends later,
unguarded. When its key's TTL runs out a visitor's allowance begins again, which
the docs say it cannot.

## 12. Where the code and its documentation disagree

Two runs show a disagreement by a counterexample; `PROJECT.json` quotes the lines.

- `workflow_sent_once`: a recovered send may go out twice, for Gmail ignores the
  idempotency key the engine's comments count on (`SentOnce`).
- `guard_recontact`: a reply to a completed one-step send is dropped, and the
  guard clears the next send to its author (`RepliersLeftAlone`).

The others were met while modelling. The modules state what the code or its docs
say under these names, next to the properties that do hold; TLC violates them,
and no run repeats it.

- `Workflow.TerminalIsFinal`: requests save without the lock, so a cancellation
  can be overwritten. `Workflow.RestartPicksUp`: a restart does not pick up a row
  left in SENT, CHECKING_REPLY or FOLLOW_UP.
- `Billing.PlanFollowsPortal`: a plan changed in the portal is overwritten with
  the one stamped at checkout. `Billing.OneOpenSubscription`: two checkouts
  before the first event, a checkout that cannot read the first one's row, or
  resuming a cancelled one, leave two open.
- `Campaign.NeverReclaimed`: a campaign that has workflows can be launched again
  once its status is no longer exactly "launched".
- `Mailbox.DisconnectIsFinal`: a refresh that answers late inserts the account
  again as connected (`tokens.py:204`). `Mailbox.NoPageSkipped`: the listing is
  said to give the changed messages since the id (`gmail.py:103-105`), but a
  second page is never read and the latest id is stored (`push.py:115-120`).
- `Quota.FreeWindowIsFree`: the import of the mirror may charge the Free window
  with what a paid one held (`agent.py:288`, `usage.py:247-251`).
  `Quota.FailedResearchIsFree`: "a failed/too-thin research never permanently
  consumes quota" (`usage.py:230`, `tools.py:276`), but a batch meters every
  entry it gets back, skipped and failed ones too (`tools.py:1695-1697`).
- `Chat.EverythingIsSaved`: whatever a turn produced is said to be persisted
  "on every path" (`agent.py:445-447`), but a save that fails is swallowed
  (`agent.py:493-498`) and overlapping turns replace each other's file.
- `Chat.ResearchAnswersTheAsk`: a name resolved to one company may be answered
  with another's research (`tools.py:386`).
- `Waitlist.BroadcastOnce`: a broadcast killed between the mail and its stamp
  mails again (`broadcast.py:63`).
- `Access.DecisionTakes`: access is said to be granted the moment a subscription
  goes active (`server/api.py:755-756`), but if the buyer's first request files
  them between the two statements of `set_status`, the INSERT is refused, the
  refusal swallowed, and they stay pending (`access/store.py:93-99`).
- `Limits.PauseTakes`, `Limits.StillJustified`: "an abnormal hourly spike pauses
  the account" (`limits/__init__.py:23`), but the pause's INSERT may be refused the
  same way, and an hour that becomes abnormal because the others' median falls is
  judged by the account's next call only.
- `DemoRun.NoneCleared`: a company that may not be pursued keeps its score and
  can outrank one that may, so a run says none cleared the bar although one did
  (`runner.py:363`).
- `Research.GapsStayClosed`: a later scrape rebuilds the graph and opens a gap a
  search had closed (`evidence_loop.py:385-393`).
- `Research.StoriesQuarantined`: all but the allowlist that a customer's story
  says "belongs to the customer and is dropped" (`verifier.py:34-39`), but a hook
  of a story fills the vendor's pricing or figures (`hooks.py:101-116`). And the
  backfill is documented as "Run AFTER research_score" (`hooks.py:85-86`), but
  runs before it (`pipeline.py:645-646`).
- `Discovery.VerdictStands`: a domain that Apollo's industry codes demote in a
  search can be shown as a company by the same search, when it asked for titles.

## 13. Not modelled

Parsing of pages, wording of prompts and prose, formats of providers' requests,
telemetry, the error log, the front ends and the evaluation scripts: text
processing, I/O or append-only records on which no other component's state
depends. Authentication and the HTTP layer's rate limits guard the operations
modelled here and do not change them. Deep research (the orchestrator and its
sources) is one step of `Chat`: its sources only append to a dossier. Of the
engine, an exception that aborts the rest of a tick's batch, and rows that stay
due without being advanced and fill the batch's LIMIT, are hazards without a
property: a scan of the model picks any due workflow, which is what a batch of
unknown order comes to.
