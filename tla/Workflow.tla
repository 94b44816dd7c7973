------------------------------ MODULE Workflow ------------------------------
(***************************************************************************)
(* The automation engine: the durable workflow rows of automation/store.py,*)
(* the machine of automation/states.py and the code that advances it:      *)
(*   - worker processes (automation/worker.py) that recover() on start and *)
(*     then tick(): scan the due rows, lock each one, reload it, advance   *)
(*     it, release the lock;                                               *)
(*   - request handlers (server/automation_api.py) that run, cancel,       *)
(*     pause, resume, force-retry or force-complete a workflow, or ingest  *)
(*     a reply, all without the lock.                                      *)
(* Every process works on an in-memory copy of a row and store.save writes *)
(* the whole row back, so each save is one step here and anything may run  *)
(* between two of them.                                                    *)
(*                                                                         *)
(* Time is abstract: a timestamp of a row is "none", "later" or "due".     *)
(***************************************************************************)
EXTENDS Integers, FiniteSets

CONSTANTS
    Workflows,    (* workflow ids                                          *)
    NumSteps,     (* emails in a sequence                                  *)
    Workers,      (* processes that tick                                   *)
    Handlers,     (* threads of the API that serve one request at a time   *)
    Controls,     (* the requests the handlers serve                       *)
    Replies,      (* ids of inbound messages                               *)
    MaxRetries,   (* AUTOMATION_MAX_RETRIES                                *)
    Batch,        (* AUTOMATION_TICK_BATCH                                 *)
    MaxSends,     (* bound: acceptances of one email are counted up to it  *)
    Crashable,    (* the processes that may crash                          *)
    LeaseMayEnd,  (* whether a lock may expire while its holder runs       *)
    Nobody        (* the value of a lock key that is not set               *)

AllControls == {"run", "cancel", "pause", "resume", "force_retry",
                "force_complete", "reply"}

ASSUME WorkflowAssumption ==
    /\ NumSteps \in Nat \ {0}
    /\ MaxRetries \in Nat \ {0}
    /\ MaxSends \in Nat
    /\ Batch \in Nat \ {0}
    /\ Workers \cap Handlers = {}
    /\ Controls \subseteq AllControls
    /\ Crashable \subseteq Workers \cup Handlers
    /\ LeaseMayEnd \in BOOLEAN
    /\ Nobody \notin Workers \cup Handlers

VARIABLES
    row,       (* the row of each workflow in the store                    *)
    ledger,    (* the processed table: replies claimed, and for which row  *)
    lock,      (* the Redis key lock:<workflow>: its holder or Nobody      *)
    pc,        (* where each process is                                    *)
    at,        (* the workflow each process works on                       *)
    todo,      (* workflows left in the batch of a tick or of recover()    *)
    mem,       (* the copy of each row each process holds                  *)
    msg,       (* the inbound message a handler ingests                    *)
    accepted,  (* history: how often the provider accepted each email      *)
    stale,     (* history: copies that another process has overwritten     *)
    marks      (* history: what has gone wrong with a workflow             *)

stored == <<row, stale, marks>>
local == <<pc, at, todo, mem, msg>>
vars == <<row, ledger, lock, pc, at, todo, mem, msg, accepted, stale, marks>>

Processes == Workers \cup Handlers
Steps == 1..NumSteps

-----------------------------------------------------------------------------
(* The state machine of automation/states.py.                              *)

Terminal == {"COMPLETED", "STOPPED", "CANCELLED"}
Pausable == {"QUEUED", "WAITING"}
States == Terminal \cup Pausable \cup
          {"SENDING", "SENT", "CHECKING_REPLY", "FOLLOW_UP", "FAILED", "PAUSED"}
StepStates == {"pending", "queued", "sending", "sent", "failed", "skipped"}
Times == {"none", "later", "due"}

(* TRANSITIONS, without DRAFT and READY, which create_workflow leaves      *)
(* before its only save.                                                   *)
Transitions ==
    [s \in States |->
        CASE s = "QUEUED"         -> {"SENDING", "PAUSED", "CANCELLED", "FAILED",
                                      "COMPLETED"}
          [] s = "SENDING"        -> {"SENT", "FAILED", "QUEUED"}
          [] s = "SENT"           -> {"WAITING", "COMPLETED", "STOPPED"}
          [] s = "WAITING"        -> {"CHECKING_REPLY", "PAUSED", "CANCELLED",
                                      "STOPPED"}
          [] s = "CHECKING_REPLY" -> {"FOLLOW_UP", "COMPLETED", "STOPPED", "WAITING"}
          [] s = "FOLLOW_UP"      -> {"QUEUED", "COMPLETED"}
          [] s = "FAILED"         -> {"QUEUED", "CANCELLED", "STOPPED", "FAILED"}
          [] s = "PAUSED"         -> {"QUEUED", "WAITING", "CANCELLED"}
          [] OTHER                -> {}]

(* assert_transition, as _transition calls it: only a change is checked.   *)
CanTransition(src, dst) == src = dst \/ dst \in Transitions[src]

-----------------------------------------------------------------------------
(* What each handler of the engine makes of a row.  cur is current_index+1;*)
(* sched is the scheduled_at of the step the row waits for; retries is the *)
(* retry_count of the current step, which stops mattering at MaxRetries.   *)

Row == [state: States, cur: Steps, steps: [Steps -> StepStates], next: Times,
        sched: {"later", "due"}, reply: BOOLEAN, from: States,
        retries: 0..MaxRetries]

(* create_workflow: step 1 is due at start_at plus its own delay.          *)
NewRow(t) == [state |-> "QUEUED", cur |-> 1, steps |-> [i \in Steps |-> "pending"],
              next |-> t, sched |-> t, reply |-> FALSE, from |-> "QUEUED",
              retries |-> 0]
BlankRow == NewRow("due")

IsDue(r) == r.state \notin Terminal /\ r.next = "due"
To(r, dst) == [r EXCEPT !.state = dst]
WithStep(r, s) == [r EXCEPT !.steps[r.cur] = s]

(* cancel, force_complete and _stop_for_reply: unsent steps are skipped.   *)
Halted(r, dst) ==
    [r EXCEPT !.state = dst, !.next = "none",
              !.steps = [i \in Steps |-> IF r.steps[i] \in {"pending", "queued"}
                                         THEN "skipped" ELSE r.steps[i]]]

(* _after_send: the next step's timer is re-anchored, or the end.          *)
AfterSend(r) == IF r.cur < NumSteps
                THEN [r EXCEPT !.state = "WAITING", !.next = "later",
                               !.sched = "later"]
                ELSE [r EXCEPT !.state = "COMPLETED", !.next = "none"]

(* Mutant of Failed: the dead letter moves on to the next step.            *)
FailedSkips(r, permanent) ==
    IF ~permanent /\ r.retries + 1 < MaxRetries
    THEN [WithStep(To(r, "QUEUED"), "queued") EXCEPT !.next = "later", !.retries = @ + 1]
    ELSE [WithStep(To(r, "FAILED"), "failed")
             EXCEPT !.next = "none", !.cur = IF @ < NumSteps THEN @ + 1 ELSE @]

(* _fail: one more retry with backoff, or the dead letter.                 *)
Failed(r, permanent) ==
    LET n == IF r.retries < MaxRetries THEN r.retries + 1 ELSE MaxRetries
    IN  IF ~permanent /\ n < MaxRetries
        THEN [WithStep(To(r, "QUEUED"), "queued") EXCEPT !.next = "later",
                                                         !.retries = n]
        ELSE [WithStep(To(r, "FAILED"), "failed") EXCEPT !.next = "none",
                                                         !.retries = n]

(* Mutant of Requeued: a send that was cut off is taken to have gone out.  *)
RequeuedAsSent(r) == [r EXCEPT !.state = "QUEUED", !.next = "due",
                               !.steps[r.cur] = "sent"]

(* recover: _transition is bypassed; a persisted step is never "sending".  *)
Requeued(r) ==
    [r EXCEPT !.state = "QUEUED", !.next = "due",
              !.steps[r.cur] = IF @ = "sending" THEN "queued" ELSE @]

ForceRetried(r) ==
    [r EXCEPT !.state = "QUEUED", !.next = "due",
              !.steps[r.cur] = IF @ = "failed" THEN "queued" ELSE @]

Resumed(r) == [r EXCEPT !.state = r.from, !.from = "QUEUED",
                        !.next = IF @ = "none" THEN "due" ELSE @]

-----------------------------------------------------------------------------
(* Saving, loading and finishing.                                          *)

(* The workflows process q holds a copy of and may still write.            *)
Copies(q) == CASE pc[q] \in {"idle", "pick", "load", "release", "down"} -> {}
               [] pc[q] = "recover" -> todo[q]
               [] OTHER -> {at[q]}

(* Process p is between its fresh load of w under the lock and the release.*)
Ticking(p, w) == /\ p \in Workers /\ at[p] = w
                 /\ pc[p] \notin {"idle", "pick", "load", "release", "down", "recover"}

(* store.save: the whole row of w is replaced by r.  Copies that others    *)
(* hold become stale; writing a stale copy back loses their update.        *)
Save(p, w, r, why) ==
    /\ row' = [row EXCEPT ![w] = r]
    /\ stale' = [q \in Processes |->
                    IF q = p THEN stale[q] \ {w}
                    ELSE IF w \in Copies(q) THEN stale[q] \cup {w} ELSE stale[q]]
    /\ marks' = [marks EXCEPT ![w] = @ \cup why
                    \cup (IF w \in stale[p] THEN {"lost"} ELSE {})
                    \cup (IF Ticking(p, w) THEN {} ELSE {"unlocked"})]

Hold(p, r) == mem' = [mem EXCEPT ![p][at[p]] = r]
Goto(p, label) == pc' = [pc EXCEPT ![p] = label]

(* The copy process p works on, and its end of work on it.                 *)
Copy(p) == mem[p][at[p]]
Finish(p) == Goto(p, IF p \in Workers THEN "release" ELSE "idle")
Forget(p) == mem' = [mem EXCEPT ![p] = [w \in Workflows |-> BlankRow]]

(* _transition(wf, store, dst) in the middle of a handler.                 *)
Transit(p, dst, r, label) ==
    /\ CanTransition(Copy(p).state, dst)
    /\ Save(p, at[p], To(r, dst), {})
    /\ Hold(p, To(r, dst))
    /\ Goto(p, label)
    /\ UNCHANGED <<ledger, lock, at, todo, msg, accepted>>

(* The last save of a handler.                                             *)
SaveAndFinish(p, r, why) ==
    /\ Save(p, at[p], r, why)
    /\ Finish(p)
    /\ Forget(p)
    /\ UNCHANGED <<ledger, lock, at, todo, msg, accepted>>

-----------------------------------------------------------------------------
(* tick: scan, lock, reload, advance, release.                             *)

(* due_workflows: at most Batch due rows.  Which of the due rows come      *)
(* first is left open.                                                     *)
Scan(p) ==
    /\ pc[p] = "idle" /\ p \in Workers
    /\ LET due == {w \in Workflows : IsDue(row[w])}
       IN \E s \in SUBSET due :
            /\ Cardinality(s) = IF Cardinality(due) < Batch THEN Cardinality(due)
                                ELSE Batch
            /\ s # {}
            /\ todo' = [todo EXCEPT ![p] = s]
    /\ Goto(p, "pick")
    /\ UNCHANGED <<ledger, lock, at, mem, msg, accepted, stored>>

(* Mutant of Pick: SET without NX.                                         *)
PickLocked(p) ==
    /\ pc[p] = "pick" /\ todo[p] # {}
    /\ \E w \in todo[p] :
        /\ todo' = [todo EXCEPT ![p] = @ \ {w}]
        /\ lock' = [lock EXCEPT ![w] = p]
        /\ at' = [at EXCEPT ![p] = w]
    /\ Goto(p, "load")
    /\ UNCHANGED <<ledger, mem, msg, accepted, stored>>

(* The next workflow of the batch: SET NX, or skip it when it is locked.   *)
Pick(p) ==
    /\ pc[p] = "pick" /\ todo[p] # {}
    /\ \E w \in todo[p] :
        /\ todo' = [todo EXCEPT ![p] = @ \ {w}]
        /\ \/ /\ lock[w] = Nobody
              /\ lock' = [lock EXCEPT ![w] = p]
              /\ at' = [at EXCEPT ![p] = w]
              /\ Goto(p, "load")
           \/ /\ lock[w] # Nobody
              /\ UNCHANGED <<lock, at, pc>>
    /\ UNCHANGED <<ledger, mem, msg, accepted, stored>>

EndTick(p) ==
    /\ pc[p] = "pick" /\ todo[p] = {}
    /\ Goto(p, "idle")
    /\ UNCHANGED <<ledger, lock, at, todo, mem, msg, accepted, stored>>

(* The fresh load under the lock.                                          *)
Load(p) ==
    /\ pc[p] = "load"
    /\ Hold(p, row[at[p]])
    /\ stale' = [stale EXCEPT ![p] = @ \ {at[p]}]
    /\ Goto(p, "advance")
    /\ UNCHANGED <<row, ledger, lock, at, todo, msg, accepted, marks>>

(* release_lock: compare and delete, so a lock that expired and was taken  *)
(* by another process is left alone.                                       *)
Release(p) ==
    /\ pc[p] = "release"
    /\ lock' = IF lock[at[p]] = p THEN [lock EXCEPT ![at[p]] = Nobody] ELSE lock
    /\ Goto(p, "pick")
    /\ UNCHANGED <<ledger, at, todo, mem, msg, accepted, stored>>

(* The TTL of a lock.  It always ends the lock of a process that is gone;  *)
(* it ends that of a running one when the work outlasts the TTL.           *)
Expire(w) ==
    /\ lock[w] # Nobody
    /\ LET live == /\ at[lock[w]] = w
                   /\ pc[lock[w]] \notin {"idle", "pick", "down", "recover"}
       IN  /\ live => LeaseMayEnd
           /\ marks' = IF live THEN [marks EXCEPT ![w] = @ \cup {"expired"}]
                       ELSE marks
    /\ lock' = [lock EXCEPT ![w] = Nobody]
    /\ UNCHANGED <<row, ledger, local, accepted, stale>>

-----------------------------------------------------------------------------
(* advance_workflow on the copy of process p.                              *)

CanSend(r) == r.state \in {"QUEUED", "FAILED"} /\ r.sched = "due"

(* Nothing to do: terminal, paused, waiting, or a state only a process     *)
(* that died could leave behind.                                           *)
AdvanceNothing(p) ==
    /\ pc[p] = "advance"
    /\ \/ Copy(p).state \notin {"QUEUED", "FAILED", "WAITING"}
       \/ Copy(p).state = "WAITING" /\ Copy(p).next # "due"
    /\ Finish(p) /\ Forget(p)
    /\ stale' = [stale EXCEPT ![p] = @ \ {at[p]}]
    /\ UNCHANGED <<row, ledger, lock, at, todo, msg, accepted, marks>>

(* Mutant of AdvanceNotDue: tested before the states, saved without        *)
(* _transition.                                                            *)
AdvanceNotDueFirst(p) ==
    /\ pc[p] = "advance" /\ Copy(p).sched = "later"
    /\ SaveAndFinish(p, [To(Copy(p), "QUEUED") EXCEPT !.next = "later"], {})

(* The current step is scheduled for later.                                *)
AdvanceNotDue(p) ==
    /\ pc[p] = "advance"
    /\ Copy(p).state \in {"QUEUED", "FAILED"} /\ Copy(p).sched = "later"
    /\ CanTransition(Copy(p).state, "QUEUED")
    /\ SaveAndFinish(p, [To(Copy(p), "QUEUED") EXCEPT !.next = "later"], {})

(* The user's send budget of this minute is used up.                       *)
RateLimited(p) ==
    /\ pc[p] = "advance" /\ CanSend(Copy(p))
    /\ SaveAndFinish(p, [Copy(p) EXCEPT !.next = "later"], {})

(* FAILED is normalised to QUEUED by a save of its own.                    *)
BeginQueue(p) ==
    /\ pc[p] = "advance" /\ CanSend(Copy(p)) /\ Copy(p).state # "QUEUED"
    /\ Transit(p, "QUEUED", Copy(p), "queued")

(* Mutant of BeginSend: the lock is given up for the time of the call.     *)
BeginSendUnlocked(p) ==
    /\ \/ pc[p] = "advance" /\ CanSend(Copy(p)) /\ Copy(p).state = "QUEUED"
       \/ pc[p] = "queued"
    /\ Save(p, at[p], To(Copy(p), "SENDING"), {})
    /\ Hold(p, WithStep(To(Copy(p), "SENDING"), "sending"))
    /\ Goto(p, "sending")
    /\ lock' = [lock EXCEPT ![at[p]] = Nobody]
    /\ UNCHANGED <<ledger, at, todo, msg, accepted>>

(* SENDING is saved before the in-memory step becomes "sending".           *)
BeginSend(p) ==
    /\ \/ pc[p] = "advance" /\ CanSend(Copy(p)) /\ Copy(p).state = "QUEUED"
       \/ pc[p] = "queued"
    /\ CanTransition(Copy(p).state, "SENDING")
    /\ Save(p, at[p], To(Copy(p), "SENDING"), {})
    /\ Hold(p, WithStep(To(Copy(p), "SENDING"), "sending"))
    /\ Goto(p, "sending")
    /\ UNCHANGED <<ledger, lock, at, todo, msg, accepted>>

Accept(w, i) == accepted' = [accepted EXCEPT ![w][i] =
                    IF @ < MaxSends THEN @ + 1 ELSE @]

(* Mutant of ProviderAccepts: an exception after the call, inside the same *)
(* try, is taken for a failed send.                                        *)
ProviderAcceptsThenRaises(p) ==
    /\ pc[p] = "sending"
    /\ Accept(at[p], Copy(p).cur)
    /\ \E label \in {"accepted", "failing"} : Goto(p, label)
    /\ UNCHANGED <<ledger, lock, at, todo, mem, msg, stored>>

(* provider.send: accepted; refused; refused for good; or accepted while   *)
(* the answer is lost, which the provider client reports as an error.      *)
ProviderAccepts(p) ==
    /\ pc[p] = "sending"
    /\ Accept(at[p], Copy(p).cur)
    /\ Goto(p, "accepted")
    /\ UNCHANGED <<ledger, lock, at, todo, mem, msg, stored>>

ProviderRefuses(p) ==
    /\ pc[p] = "sending"
    /\ \/ Goto(p, "failing")
       \/ Goto(p, "failing_for_good")
    /\ UNCHANGED <<ledger, lock, at, todo, mem, msg, accepted, stored>>

AnswerLost(p) ==
    /\ pc[p] = "sending"
    /\ Accept(at[p], Copy(p).cur)
    /\ Goto(p, "failing")
    /\ marks' = [marks EXCEPT ![at[p]] = @ \cup {"ambiguous"}]
    /\ UNCHANGED <<row, ledger, lock, at, todo, mem, msg, stale>>

RecordSent(p) ==
    /\ pc[p] = "accepted"
    /\ Transit(p, "SENT", WithStep(Copy(p), "sent"), "sent")

RecordFailure(p) ==
    /\ pc[p] \in {"failing", "failing_for_good"}
    /\ LET r == Failed(Copy(p), pc[p] = "failing_for_good")
       IN  /\ CanTransition(Copy(p).state, r.state)
           /\ SaveAndFinish(p, r, {})

AfterSending(p) ==
    /\ pc[p] = "sent"
    /\ CanTransition(Copy(p).state, AfterSend(Copy(p)).state)
    /\ SaveAndFinish(p, AfterSend(Copy(p)), {})

(* _after_wait: three saves.                                               *)
CheckReply(p) ==
    /\ pc[p] = "advance" /\ Copy(p).state = "WAITING" /\ Copy(p).next = "due"
    /\ Transit(p, "CHECKING_REPLY", Copy(p), "checking")

FollowUp(p) ==
    /\ pc[p] = "checking"
    /\ Copy(p).cur < NumSteps
    /\ Transit(p, "FOLLOW_UP", [Copy(p) EXCEPT !.cur = @ + 1, !.retries = 0],
               "follow_up")

QueueNext(p) ==
    /\ pc[p] = "follow_up"
    /\ CanTransition(Copy(p).state, "QUEUED")
    /\ SaveAndFinish(p, [To(Copy(p), "QUEUED") EXCEPT !.next = Copy(p).sched], {})

-----------------------------------------------------------------------------
(* Request handlers: load, decide, save, without the lock.                 *)

Allowed(c, r) ==
    CASE c \in {"cancel", "force_complete"} -> r.state \notin Terminal
      [] c = "pause"       -> r.state \in Pausable
      [] c = "resume"      -> r.state = "PAUSED"
      [] c = "force_retry" -> r.state = "FAILED"
      [] c = "run"         -> TRUE
      [] OTHER             -> FALSE

(* The load of a control.  A request the loaded row does not allow returns *)
(* without a trace and has no step here.                                   *)
Request(p, w, c) ==
    /\ pc[p] = "idle" /\ p \in Handlers
    /\ c \in Controls /\ Allowed(c, row[w])
    /\ at' = [at EXCEPT ![p] = w]
    /\ mem' = [mem EXCEPT ![p][w] = row[w]]
    /\ stale' = [stale EXCEPT ![p] = @ \ {w}]
    /\ Goto(p, IF c = "run" THEN "advance" ELSE c)
    /\ UNCHANGED <<row, ledger, lock, todo, msg, accepted, marks>>

Cancel(p) ==
    /\ pc[p] = "cancel"
    /\ SaveAndFinish(p, Halted(Copy(p), "CANCELLED"), {})

ForceComplete(p) ==
    /\ pc[p] = "force_complete"
    /\ SaveAndFinish(p, Halted(Copy(p), "COMPLETED"), {})

Pause(p) ==
    /\ pc[p] = "pause" /\ CanTransition(Copy(p).state, "PAUSED")
    /\ SaveAndFinish(p, [To(Copy(p), "PAUSED") EXCEPT !.from = Copy(p).state], {})

Resume(p) ==
    /\ pc[p] = "resume" /\ CanTransition(Copy(p).state, Copy(p).from)
    /\ SaveAndFinish(p, Resumed(Copy(p)), {})

ForceRetry(p) ==
    /\ pc[p] = "force_retry" /\ CanTransition(Copy(p).state, "QUEUED")
    /\ SaveAndFinish(p, ForceRetried(Copy(p)), {})

Claimed(m) == \E w \in Workflows : <<w, m>> \in ledger

(* ingest_reply: match the row, then claim the message, then stop.         *)
ReplyArrives(p, w, m) ==
    /\ pc[p] = "idle" /\ p \in Handlers /\ "reply" \in Controls
    /\ \E i \in Steps : accepted[w][i] > 0
    /\ at' = [at EXCEPT ![p] = w]
    /\ mem' = [mem EXCEPT ![p][w] = row[w]]
    /\ msg' = [msg EXCEPT ![p] = m]
    /\ stale' = [stale EXCEPT ![p] = @ \ {w}]
    /\ Goto(p, "reply")
    /\ UNCHANGED <<row, ledger, lock, todo, accepted, marks>>

(* Mutant of ClaimReply: only a workflow that waits is stopped.            *)
ClaimReplyWaiting(p) ==
    /\ pc[p] = "reply"
    /\ IF ~Claimed(msg[p]) /\ Copy(p).state = "WAITING"
       THEN /\ Goto(p, "stop")
            /\ UNCHANGED <<mem, stale>>
       ELSE /\ Goto(p, "idle") /\ Forget(p)
            /\ stale' = [stale EXCEPT ![p] = {}]
    /\ ledger' = IF Claimed(msg[p]) THEN ledger ELSE ledger \cup {<<at[p], msg[p]>>}
    /\ UNCHANGED <<row, lock, at, todo, msg, accepted, marks>>

(* mark_processed, whose key is the message alone; a workflow that is over *)
(* is left alone.                                                          *)
ClaimReply(p) ==
    /\ pc[p] = "reply"
    /\ IF ~Claimed(msg[p]) /\ Copy(p).state \notin Terminal
       THEN /\ Goto(p, "stop")
            /\ UNCHANGED <<mem, stale>>
       ELSE /\ Goto(p, "idle") /\ Forget(p)
            /\ stale' = [stale EXCEPT ![p] = {}]
    /\ ledger' = IF Claimed(msg[p]) THEN ledger ELSE ledger \cup {<<at[p], msg[p]>>}
    /\ UNCHANGED <<row, lock, at, todo, msg, accepted, marks>>

StopForReply(p) ==
    /\ pc[p] = "stop"
    /\ SaveAndFinish(p, [Halted(Copy(p), "STOPPED") EXCEPT !.reply = TRUE], {})

-----------------------------------------------------------------------------
(* Crash and recovery.  A lock survives its holder until its TTL.          *)

Crash(p) ==
    /\ p \in Crashable /\ pc[p] \notin {"idle", "down"}
    /\ marks' = IF pc[p] = "stop"
                THEN [marks EXCEPT ![at[p]] = @ \cup {"claim_lost"}] ELSE marks
    /\ Goto(p, IF p \in Workers THEN "down" ELSE "idle")
    /\ Forget(p)
    /\ todo' = [todo EXCEPT ![p] = {}]
    /\ stale' = [stale EXCEPT ![p] = {}]
    /\ UNCHANGED <<row, ledger, lock, at, msg, accepted>>

(* Mutant of Restart: the worker starts without recover().                 *)
RestartOnly(p) ==
    /\ pc[p] = "down"
    /\ todo' = [todo EXCEPT ![p] = {}]
    /\ Goto(p, "recover")
    /\ UNCHANGED <<ledger, lock, at, mem, msg, accepted, stored>>

(* recover() loads every SENDING row, then saves them one by one.          *)
Restart(p) ==
    /\ pc[p] = "down"
    /\ LET caught == {w \in Workflows : row[w].state = "SENDING"}
       IN  /\ todo' = [todo EXCEPT ![p] = caught]
           /\ mem' = [mem EXCEPT ![p] = [w \in Workflows |->
                         IF w \in caught THEN row[w] ELSE BlankRow]]
    /\ Goto(p, "recover")
    /\ UNCHANGED <<ledger, lock, at, msg, accepted, stored>>

RecoverOne(p) ==
    /\ pc[p] = "recover"
    /\ \E w \in todo[p] :
        /\ Save(p, w, Requeued(mem[p][w]), {"requeued"})
        /\ mem' = [mem EXCEPT ![p][w] = BlankRow]
        /\ todo' = [todo EXCEPT ![p] = @ \ {w}]
    /\ UNCHANGED <<ledger, lock, pc, at, msg, accepted>>

EndRecover(p) ==
    /\ pc[p] = "recover" /\ todo[p] = {}
    /\ Goto(p, "idle")
    /\ UNCHANGED <<ledger, lock, at, todo, mem, msg, accepted, stored>>

(* The clock reaches the timestamps of a row, and of every copy of it.     *)
Aged(r) == [r EXCEPT !.next = IF @ = "later" THEN "due" ELSE @, !.sched = "due"]

TimePasses(w) ==
    /\ row[w] # Aged(row[w])
    /\ row' = [row EXCEPT ![w] = Aged(@)]
    /\ mem' = [p \in Processes |-> [mem[p] EXCEPT ![w] = Aged(@)]]
    /\ UNCHANGED <<ledger, lock, pc, at, todo, msg, accepted, stale, marks>>

-----------------------------------------------------------------------------
Init ==
    /\ row \in [Workflows -> {NewRow("later"), NewRow("due")}]
    /\ ledger = {}
    /\ lock = [w \in Workflows |-> Nobody]
    /\ pc = [p \in Processes |-> "idle"]
    /\ at \in [Processes -> Workflows]
    /\ todo = [p \in Processes |-> {}]
    /\ mem = [p \in Processes |-> [w \in Workflows |-> BlankRow]]
    /\ msg \in [Processes -> Replies]
    /\ accepted = [w \in Workflows |-> [i \in Steps |-> 0]]
    /\ stale = [p \in Processes |-> {}]
    /\ marks = [w \in Workflows |-> {}]

Tick(p) == Scan(p) \/ Pick(p) \/ EndTick(p) \/ Load(p) \/ Release(p)

Advance(p) ==
    \/ AdvanceNothing(p) \/ AdvanceNotDue(p) \/ RateLimited(p)
    \/ BeginQueue(p) \/ BeginSend(p)
    \/ ProviderAccepts(p) \/ ProviderRefuses(p) \/ AnswerLost(p)
    \/ RecordSent(p) \/ RecordFailure(p) \/ AfterSending(p)
    \/ CheckReply(p) \/ FollowUp(p) \/ QueueNext(p)

Control(p) ==
    \/ \E w \in Workflows, c \in Controls : Request(p, w, c)
    \/ \E w \in Workflows, m \in Replies : ReplyArrives(p, w, m)
    \/ Cancel(p) \/ ForceComplete(p) \/ Pause(p) \/ Resume(p) \/ ForceRetry(p)
    \/ ClaimReply(p) \/ StopForReply(p)

Recovery(p) == Restart(p) \/ RecoverOne(p) \/ EndRecover(p)

Environment == \E w \in Workflows : Expire(w) \/ TimePasses(w)

Next ==
    \/ \E p \in Processes :
          Tick(p) \/ Advance(p) \/ Control(p) \/ Recovery(p) \/ Crash(p)
    \/ Environment

Spec == Init /\ [][Next]_vars
-----------------------------------------------------------------------------
(* Fairness.  The worker thread of a process that does not crash keeps     *)
(* running, a supervisor restarts one that does, Redis ends every lock at  *)
(* its TTL and the clock moves.  Being rate limited for ever is excluded:  *)
(* the window of 60 seconds resets, so a send that is due again and again  *)
(* is admitted at some point (SF).  Nothing is assumed of the requests.    *)
FairSpec ==
    /\ Spec
    /\ \A p \in Processes : WF_vars(Advance(p)) /\ SF_vars(BeginSend(p))
    /\ \A p \in Workers : WF_vars(Tick(p)) /\ WF_vars(Recovery(p))
    /\ \A w \in Workflows : WF_vars(Expire(w)) /\ WF_vars(TimePasses(w))

-----------------------------------------------------------------------------
(* Properties.                                                             *)

Labels == {"idle", "pick", "load", "advance", "queued", "sending", "accepted",
           "failing", "failing_for_good", "sent", "checking", "follow_up",
           "release", "cancel", "force_complete", "pause", "resume",
           "force_retry", "reply", "stop", "down", "recover"}
Marks == {"lost", "unlocked", "requeued", "ambiguous", "expired", "claim_lost"}

(* Every variable has its type.                                            *)
TypeOK ==
    /\ row \in [Workflows -> Row]
    /\ ledger \subseteq Workflows \X Replies
    /\ lock \in [Workflows -> Processes \cup {Nobody}]
    /\ pc \in [Processes -> Labels]
    /\ at \in [Processes -> Workflows]
    /\ todo \in [Processes -> SUBSET Workflows]
    /\ mem \in [Processes -> [Workflows -> Row]]
    /\ msg \in [Processes -> Replies]
    /\ accepted \in [Workflows -> [Steps -> 0..MaxSends]]
    /\ stale \in [Processes -> SUBSET Workflows]
    /\ marks \in [Workflows -> SUBSET Marks]

(* A follow-up never goes out before the email it follows, whatever ticks, *)
(* requests, crashes and overwritten rows come together.                   *)
SequenceOrder ==
    \A w \in Workflows, i, j \in Steps :
        i < j /\ accepted[w][j] > 0 => accepted[w][i] > 0

(* The provider accepts an email twice only when one of three things has   *)
(* happened to its workflow: a stale copy of the row was written back,     *)
(* recover() put a SENDING row back in the queue, or the answer to a send  *)
(* that went out was lost.  Any other double send would be a new bug.      *)
NoUnexplainedResend ==
    \A w \in Workflows, i \in Steps :
        accepted[w][i] > 1 => marks[w] \cap {"lost", "requeued", "ambiguous"} # {}

(* The lock is all a tick has: the copy a tick works on is the stored row  *)
(* as long as the lease has not run out and nobody writes without the lock.*)
LockedCopyIsFresh ==
    \A p \in Workers, w \in Workflows :
        /\ Ticking(p, w)
        /\ marks[w] \cap {"expired", "unlocked"} = {}
        => w \notin stale[p]

(* Two ticks work on one workflow only after a lease has run out.          *)
TicksExclude ==
    \A p, q \in Workers, w \in Workflows :
        Ticking(p, w) /\ Ticking(q, w) /\ "expired" \notin marks[w] => p = q

(* _transition never raises InvalidTransition: in every interleaving the   *)
(* edge a handler is about to take is in the table.                        *)
NextState(p) ==
    CASE pc[p] = "queued"           -> "SENDING"
      [] pc[p] = "accepted"         -> "SENT"
      [] pc[p] = "failing"          -> Failed(Copy(p), FALSE).state
      [] pc[p] = "failing_for_good" -> Failed(Copy(p), TRUE).state
      [] pc[p] = "sent"             -> AfterSend(Copy(p)).state
      [] pc[p] = "checking"         -> "FOLLOW_UP"
      [] pc[p] = "follow_up"        -> "QUEUED"
      [] pc[p] = "pause"            -> "PAUSED"
      [] pc[p] = "resume"           -> Copy(p).from
      [] pc[p] = "force_retry"      -> "QUEUED"
      [] OTHER                      -> Copy(p).state

NoInvalidTransition ==
    \A p \in Processes : /\ CanTransition(Copy(p).state, NextState(p))
                         /\ pc[p] = "checking" => Copy(p).cur < NumSteps

(* What each stored row claims is true: an email marked sent was accepted, *)
(* all emails before the current one were sent, and the branches that test *)
(* for a sent current step or a detected reply are never needed.           *)
RowIsTruthful ==
    \A w \in Workflows :
        /\ \A i \in Steps : row[w].steps[i] = "sent" => accepted[w][i] > 0
        /\ \A i \in Steps : i < row[w].cur => row[w].steps[i] = "sent"
        /\ row[w].state \in {"QUEUED", "SENDING", "FAILED"}
               => row[w].steps[row[w].cur] # "sent"
        /\ row[w].reply => row[w].state = "STOPPED"

(* A row leaves a terminal state only when a stale copy is written back.   *)
TerminalLeftOnlyByLostUpdate ==
    [][\A w \in Workflows :
          row[w].state \in Terminal /\ row'[w].state \notin Terminal
              => "lost" \in marks'[w]]_vars

(* A reply that was claimed in the ledger has ended its workflow, or the   *)
(* handler is about to do so, unless the handler died in between or a      *)
(* stale copy was written back.                                            *)
ClaimedReplyStops ==
    \A w \in Workflows, m \in Replies :
        <<w, m>> \in ledger =>
            \/ row[w].state \in Terminal
            \/ \E p \in Handlers : at[p] = w /\ pc[p] = "stop"
            \/ marks[w] \cap {"lost", "claim_lost"} # {}

(* Liveness: once crashes and requests end, no workflow with a scheduled   *)
(* next action sits for ever in a state the worker is there to move on -   *)
(* not one whose row was overwritten, nor one whose send a crash cut off.  *)
Quietens ==
    <>[][\A p \in Processes : ~Crash(p) /\ (pc[p] = "idle" => ~Control(p))]_vars
NeverStuckInQueue ==
    Quietens => \A w \in Workflows :
                    []<>(\/ row[w].state \notin {"QUEUED", "SENDING", "WAITING"}
                         \/ row[w].next = "none")

(* Claims of the source that the code does not keep.                       *)

(* states.py: terminal states never transition again.                      *)
TerminalIsFinal ==
    [][\A w \in Workflows :
          row[w].state \in Terminal => row'[w].state \in Terminal]_vars

(* engine.py: a re-drive after a crash does not produce a second email.    *)
SentOnce == \A w \in Workflows, i \in Steps : accepted[w][i] < 2

(* worker.py: after a restart unfinished work is simply picked up again.   *)
RestartPicksUp ==
    Quietens => \A w \in Workflows :
        row[w].state \in {"SENT", "CHECKING_REPLY", "FOLLOW_UP"}
            ~> row[w].state \notin {"SENT", "CHECKING_REPLY", "FOLLOW_UP"}

=============================================================================
