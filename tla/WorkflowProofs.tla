--------------------------- MODULE WorkflowProofs ---------------------------
(***************************************************************************)
(* Proofs about the automation engine, for any set of workflows, workers   *)
(* and handlers and any length of the sequence.                            *)
(***************************************************************************)
EXTENDS Workflow, TLAPS

-----------------------------------------------------------------------------
(* The row operators stay inside Row.                                      *)

LEMMA NewRowType == ASSUME NEW t \in {"later", "due"} PROVE NewRow(t) \in Row
  BY WorkflowAssumption DEF NewRow, Row, States, Pausable, Steps, StepStates, Times

LEMMA RowOperators ==
  ASSUME NEW r \in Row
  PROVE  /\ \A s \in States : To(r, s) \in Row
         /\ \A s \in StepStates : WithStep(r, s) \in Row
         /\ \A s \in States : Halted(r, s) \in Row
         /\ AfterSend(r) \in Row
         /\ \A b \in BOOLEAN : Failed(r, b) \in Row
         /\ Requeued(r) \in Row
         /\ ForceRetried(r) \in Row
         /\ Resumed(r) \in Row
         /\ Aged(r) \in Row
         /\ \A t \in Times : [r EXCEPT !.next = t] \in Row
         /\ \A s \in States : [r EXCEPT !.from = s] \in Row
         /\ [r EXCEPT !.reply = TRUE] \in Row
  <1>. USE WorkflowAssumption DEF Row, Steps, Times
  <1>1. \A s \in States : To(r, s) \in Row
    BY DEF To
  <1>2. \A s \in StepStates : WithStep(r, s) \in Row
    BY DEF WithStep
  <1>3. \A s \in States : Halted(r, s) \in Row
    BY DEF Halted, StepStates
  <1>4. AfterSend(r) \in Row
    BY DEF AfterSend, States, Pausable, Terminal
  <1>5. ASSUME NEW b \in BOOLEAN PROVE Failed(r, b) \in Row
    <2>1. \A s \in {"QUEUED", "FAILED"}, t \in {"queued", "failed"} :
             WithStep(To(r, s), t) \in Row
      BY DEF To, WithStep, States, Pausable, StepStates
    <2>2. (IF r.retries < MaxRetries THEN r.retries + 1 ELSE MaxRetries) \in 0..MaxRetries
      OBVIOUS
    <2>. QED
      BY <2>1, <2>2 DEF Failed
  <1>6. Requeued(r) \in Row
    BY DEF Requeued, States, Pausable, StepStates
  <1>7. ForceRetried(r) \in Row
    BY DEF ForceRetried, States, Pausable, StepStates
  <1>8. Resumed(r) \in Row
    BY DEF Resumed, States, Pausable
  <1>9. Aged(r) \in Row
    BY DEF Aged
  <1>10. \A t \in Times : [r EXCEPT !.next = t] \in Row
    OBVIOUS
  <1>11. \A s \in States : [r EXCEPT !.from = s] \in Row
    OBVIOUS
  <1>12. [r EXCEPT !.reply = TRUE] \in Row
    OBVIOUS
  <1>. QED
    BY <1>1, <1>2, <1>3, <1>4, <1>5, <1>6, <1>7, <1>8, <1>9, <1>10, <1>11, <1>12

LEMMA SaveType ==
  ASSUME TypeOK, NEW p \in Processes, NEW w \in Workflows, NEW r \in Row,
         NEW why \in SUBSET Marks, Save(p, w, r, why)
  PROVE  /\ row' \in [Workflows -> Row]
         /\ stale' \in [Processes -> SUBSET Workflows]
         /\ marks' \in [Workflows -> SUBSET Marks]
  BY DEF TypeOK, Save, Marks

LEMMA FinishType ==
  ASSUME TypeOK, NEW p \in Processes
  PROVE  /\ Finish(p) => pc' \in [Processes -> Labels]
         /\ Forget(p) => mem' \in [Processes -> [Workflows -> Row]]
         /\ Copy(p) \in Row
         /\ at[p] \in Workflows
  <1>1. BlankRow \in Row
    BY NewRowType DEF BlankRow
  <1>2. Forget(p) => mem' \in [Processes -> [Workflows -> Row]]
    BY <1>1 DEF TypeOK, Forget
  <1>3. Finish(p) => pc' \in [Processes -> Labels]
    BY DEF TypeOK, Finish, Goto, Labels
  <1>4. Copy(p) \in Row /\ at[p] \in Workflows
    BY DEF TypeOK, Copy
  <1>. QED
    BY <1>2, <1>3, <1>4

LEMMA SaveAndFinishType ==
  ASSUME TypeOK, NEW p \in Processes, NEW r \in Row, SaveAndFinish(p, r, {})
  PROVE  TypeOK'
  <1>1. Save(p, at[p], r, {})
    BY DEF SaveAndFinish
  <1>2. QED
    BY <1>1, SaveType, FinishType DEF SaveAndFinish, TypeOK

LEMMA TransitType ==
  ASSUME TypeOK, NEW p \in Processes, NEW dst \in States, NEW r \in Row,
         NEW label \in Labels, Transit(p, dst, r, label)
  PROVE  TypeOK'
  <1>1. To(r, dst) \in Row
    BY RowOperators
  <1>2. Save(p, at[p], To(r, dst), {}) /\ at[p] \in Workflows
    BY FinishType DEF Transit
  <1>3. mem' \in [Processes -> [Workflows -> Row]]
    BY <1>1, <1>2 DEF Transit, Hold, TypeOK
  <1>4. pc' \in [Processes -> Labels]
    BY DEF Transit, Goto, TypeOK
  <1>5. /\ row' \in [Workflows -> Row]
        /\ stale' \in [Processes -> SUBSET Workflows]
        /\ marks' \in [Workflows -> SUBSET Marks]
    BY <1>1, <1>2, SaveType
  <1>. QED
    BY <1>3, <1>4, <1>5 DEF Transit, TypeOK

(* Every step of a process that is one save of Row values keeps the types. *)

LEMMA TypeTick ==
  ASSUME TypeOK, NEW p \in Processes, Tick(p)
  PROVE  TypeOK'
  <1>1. CASE Scan(p)
    BY <1>1 DEF TypeOK, Scan, Goto, Labels, stored
  <1>2. CASE Pick(p)
    <2>1. PICK w \in todo[p] :
            /\ todo' = [todo EXCEPT ![p] = @ \ {w}]
            /\ \/ /\ lock' = [lock EXCEPT ![w] = p]
                  /\ at' = [at EXCEPT ![p] = w]
                  /\ Goto(p, "load")
               \/ UNCHANGED <<lock, at, pc>>
      BY <1>2 DEF Pick
    <2>2. w \in Workflows
      BY <2>1 DEF TypeOK
    <2>3. todo' \in [Processes -> SUBSET Workflows]
      BY <2>1 DEF TypeOK
    <2>4. /\ lock' \in [Workflows -> Processes \cup {Nobody}]
          /\ at' \in [Processes -> Workflows]
      <3>1. CASE UNCHANGED <<lock, at, pc>>
        BY <3>1 DEF TypeOK
      <3>2. CASE /\ lock' = [lock EXCEPT ![w] = p]
                 /\ at' = [at EXCEPT ![p] = w]
        BY <2>2, <3>2 DEF TypeOK
      <3>. QED
        BY <2>1, <3>1, <3>2
    <2>5. pc' \in [Processes -> Labels]
      BY <2>1 DEF TypeOK, Goto, Labels
    <2>. QED
      BY <1>2, <2>3, <2>4, <2>5 DEF TypeOK, Pick, stored
  <1>3. CASE EndTick(p)
    BY <1>3 DEF TypeOK, EndTick, Goto, Labels, stored
  <1>4. CASE Load(p)
    BY <1>4 DEF TypeOK, Load, Goto, Hold, Labels
  <1>5. CASE Release(p)
    BY <1>5 DEF TypeOK, Release, Goto, Labels, stored
  <1>. QED
    BY <1>1, <1>2, <1>3, <1>4, <1>5 DEF Tick

LEMMA TypeAdvance ==
  ASSUME TypeOK, NEW p \in Processes, Advance(p)
  PROVE  TypeOK'
  <1>0. Copy(p) \in Row /\ at[p] \in Workflows
    BY FinishType
  <1>1. CASE AdvanceNothing(p)
    BY <1>1, FinishType DEF TypeOK, AdvanceNothing
  <1>2. CASE AdvanceNotDue(p)
    <2>1. [To(Copy(p), "QUEUED") EXCEPT !.next = "later"] \in Row
      BY <1>0, RowOperators DEF States, Pausable, Times
    <2>. QED
      BY <1>2, <2>1, SaveAndFinishType DEF AdvanceNotDue
  <1>3. CASE RateLimited(p)
    <2>1. [Copy(p) EXCEPT !.next = "later"] \in Row
      BY <1>0, RowOperators DEF Times
    <2>. QED
      BY <1>3, <2>1, SaveAndFinishType DEF RateLimited
  <1>4. CASE BeginQueue(p)
    BY <1>0, <1>4, TransitType DEF BeginQueue, States, Pausable, Labels
  <1>5. CASE BeginSend(p)
    <2>1. To(Copy(p), "SENDING") \in Row
      BY <1>0, RowOperators DEF States
    <2>2. WithStep(To(Copy(p), "SENDING"), "sending") \in Row
      BY <2>1, RowOperators DEF StepStates
    <2>3. Save(p, at[p], To(Copy(p), "SENDING"), {})
      BY <1>5 DEF BeginSend
    <2>4. /\ row' \in [Workflows -> Row]
          /\ stale' \in [Processes -> SUBSET Workflows]
          /\ marks' \in [Workflows -> SUBSET Marks]
      BY <1>0, <2>1, <2>3, SaveType
    <2>5. mem' \in [Processes -> [Workflows -> Row]]
      BY <1>0, <1>5, <2>2 DEF BeginSend, Hold, TypeOK
    <2>6. pc' \in [Processes -> Labels]
      BY <1>5 DEF BeginSend, Goto, TypeOK, Labels
    <2>. QED
      BY <1>5, <2>4, <2>5, <2>6 DEF BeginSend, TypeOK
  <1>6. ASSUME NEW w \in Workflows, NEW i \in Steps, Accept(w, i)
        PROVE  accepted' \in [Workflows -> [Steps -> 0..MaxSends]]
    BY <1>6, WorkflowAssumption DEF Accept, TypeOK
  <1>7. CASE ProviderAccepts(p)
    <2>1. accepted' \in [Workflows -> [Steps -> 0..MaxSends]]
      BY <1>0, <1>6, <1>7 DEF ProviderAccepts, Row
    <2>. QED
      BY <1>7, <2>1 DEF TypeOK, ProviderAccepts, Goto, Labels, stored
  <1>8. CASE ProviderRefuses(p)
    BY <1>8 DEF TypeOK, ProviderRefuses, Goto, Labels, stored
  <1>9. CASE AnswerLost(p)
    <2>1. accepted' \in [Workflows -> [Steps -> 0..MaxSends]]
      BY <1>0, <1>6, <1>9 DEF AnswerLost, Row
    <2>2. marks' \in [Workflows -> SUBSET Marks]
      BY <1>0, <1>9 DEF AnswerLost, TypeOK, Marks
    <2>. QED
      BY <1>9, <2>1, <2>2 DEF TypeOK, AnswerLost, Goto, Labels
  <1>10. CASE RecordSent(p)
    <2>1. WithStep(Copy(p), "sent") \in Row
      BY <1>0, RowOperators DEF StepStates
    <2>. QED
      BY <1>10, <2>1, TransitType DEF RecordSent, States, Labels
  <1>11. CASE RecordFailure(p)
    BY <1>0, <1>11, RowOperators, SaveAndFinishType DEF RecordFailure
  <1>12. CASE AfterSending(p)
    BY <1>0, <1>12, RowOperators, SaveAndFinishType DEF AfterSending
  <1>13. CASE CheckReply(p)
    BY <1>0, <1>13, TransitType DEF CheckReply, States, Labels
  <1>14. CASE FollowUp(p)
    <2>1. [Copy(p) EXCEPT !.cur = @ + 1, !.retries = 0] \in Row
      <3>1. Copy(p).cur \in Steps /\ Copy(p).cur < NumSteps
        BY <1>0, <1>14 DEF FollowUp, Row
      <3>2. Copy(p).cur + 1 \in Steps /\ 0 \in 0..MaxRetries
        BY <3>1, WorkflowAssumption DEF Steps
      <3>. QED
        BY <1>0, <3>2 DEF Row
    <2>. QED
      BY <1>14, <2>1, TransitType DEF FollowUp, States, Labels
  <1>15. CASE QueueNext(p)
    <2>1. Copy(p).sched \in Times
      BY <1>0 DEF Row, Times
    <2>2. [To(Copy(p), "QUEUED") EXCEPT !.next = Copy(p).sched] \in Row
      BY <1>0, <2>1, RowOperators DEF States, Pausable
    <2>. QED
      BY <1>15, <2>2, SaveAndFinishType DEF QueueNext
  <1>. QED
    BY <1>1, <1>2, <1>3, <1>4, <1>5, <1>7, <1>8, <1>9, <1>10, <1>11, <1>12,
       <1>13, <1>14, <1>15 DEF Advance

LEMMA TypeControl ==
  ASSUME TypeOK, NEW p \in Processes, Control(p)
  PROVE  TypeOK'
  <1>0. Copy(p) \in Row /\ at[p] \in Workflows
    BY FinishType
  <1>1. ASSUME NEW w \in Workflows, NEW c \in Controls, Request(p, w, c)
        PROVE  TypeOK'
    <2>1. (IF c = "run" THEN "advance" ELSE c) \in Labels
      BY <1>1 DEF Request, Allowed, Labels
    <2>. QED
      BY <1>1, <2>1 DEF Request, TypeOK, Goto
  <1>2. ASSUME NEW w \in Workflows, NEW m \in Replies, ReplyArrives(p, w, m)
        PROVE  TypeOK'
    BY <1>2 DEF ReplyArrives, TypeOK, Goto, Labels
  <1>3. CASE Cancel(p)
    BY <1>0, <1>3, RowOperators, SaveAndFinishType DEF Cancel, States, Terminal
  <1>4. CASE ForceComplete(p)
    BY <1>0, <1>4, RowOperators, SaveAndFinishType DEF ForceComplete, States, Terminal
  <1>5. CASE Pause(p)
    <2>1. To(Copy(p), "PAUSED") \in Row
      BY <1>0, RowOperators DEF States
    <2>2. [To(Copy(p), "PAUSED") EXCEPT !.from = Copy(p).state] \in Row
      <3>1. Copy(p).state \in States
        BY <1>0 DEF Row
      <3>. QED
        BY <2>1, <3>1, RowOperators
    <2>. QED
      BY <1>5, <2>2, SaveAndFinishType DEF Pause
  <1>6. CASE Resume(p)
    BY <1>0, <1>6, RowOperators, SaveAndFinishType DEF Resume
  <1>7. CASE ForceRetry(p)
    BY <1>0, <1>7, RowOperators, SaveAndFinishType DEF ForceRetry
  <1>8. CASE ClaimReply(p)
    <2>1. ledger' \subseteq Workflows \X Replies
      BY <1>0, <1>8 DEF ClaimReply, TypeOK
    <2>2. pc' \in [Processes -> Labels]
      <3>1. PICK label \in {"stop", "idle"} : Goto(p, label)
        BY <1>8 DEF ClaimReply
      <3>. QED
        BY <3>1 DEF TypeOK, Goto, Labels
    <2>3. mem' \in [Processes -> [Workflows -> Row]]
      BY <1>8, FinishType DEF ClaimReply, TypeOK
    <2>4. stale' \in [Processes -> SUBSET Workflows]
      BY <1>8 DEF ClaimReply, TypeOK
    <2>. QED
      BY <1>8, <2>1, <2>2, <2>3, <2>4 DEF ClaimReply, TypeOK
  <1>9. CASE StopForReply(p)
    <2>1. [Halted(Copy(p), "STOPPED") EXCEPT !.reply = TRUE] \in Row
      BY <1>0, RowOperators DEF States, Terminal
    <2>. QED
      BY <1>9, <2>1, SaveAndFinishType DEF StopForReply
  <1>. QED
    BY <1>1, <1>2, <1>3, <1>4, <1>5, <1>6, <1>7, <1>8, <1>9 DEF Control

LEMMA TypeRecovery ==
  ASSUME TypeOK, NEW p \in Processes, Recovery(p) \/ Crash(p)
  PROVE  TypeOK'
  <1>1. BlankRow \in Row
    BY NewRowType DEF BlankRow
  <1>2. CASE Restart(p)
    BY <1>1, <1>2 DEF Restart, TypeOK, Goto, Labels, stored
  <1>3. CASE RecoverOne(p)
    <2>1. PICK w \in todo[p] :
            /\ Save(p, w, Requeued(mem[p][w]), {"requeued"})
            /\ mem' = [mem EXCEPT ![p][w] = BlankRow]
            /\ todo' = [todo EXCEPT ![p] = @ \ {w}]
      BY <1>3 DEF RecoverOne
    <2>2. w \in Workflows /\ mem[p][w] \in Row
      BY <2>1 DEF TypeOK
    <2>3. Requeued(mem[p][w]) \in Row /\ {"requeued"} \in SUBSET Marks
      BY <2>2, RowOperators DEF Marks
    <2>4. /\ row' \in [Workflows -> Row]
          /\ stale' \in [Processes -> SUBSET Workflows]
          /\ marks' \in [Workflows -> SUBSET Marks]
      BY <2>1, <2>2, <2>3, SaveType
    <2>. QED
      BY <1>1, <1>3, <2>1, <2>2, <2>4 DEF RecoverOne, TypeOK
  <1>4. CASE EndRecover(p)
    BY <1>4 DEF EndRecover, TypeOK, Goto, Labels, stored
  <1>5. CASE Crash(p)
    <2>1. marks' \in [Workflows -> SUBSET Marks]
      BY <1>5 DEF Crash, TypeOK, Marks
    <2>2. pc' \in [Processes -> Labels]
      BY <1>5 DEF Crash, TypeOK, Goto, Labels
    <2>3. mem' \in [Processes -> [Workflows -> Row]]
      BY <1>5, FinishType DEF Crash
    <2>. QED
      BY <1>5, <2>1, <2>2, <2>3 DEF Crash, TypeOK
  <1>. QED
    BY <1>2, <1>3, <1>4, <1>5 DEF Recovery

LEMMA TypeEnvironment ==
  ASSUME TypeOK, NEW w \in Workflows, Expire(w) \/ TimePasses(w)
  PROVE  TypeOK'
  <1>1. CASE Expire(w)
    BY <1>1 DEF Expire, TypeOK, Marks, local
  <1>2. CASE TimePasses(w)
    <2>1. /\ Aged(row[w]) \in Row
          /\ \A p \in Processes : Aged(mem[p][w]) \in Row
      BY RowOperators DEF TypeOK
    <2>. QED
      BY <1>2, <2>1 DEF TimePasses, TypeOK
  <1>. QED
    BY <1>1, <1>2

LEMMA TypeStep == TypeOK /\ [Next]_vars => TypeOK'
  <1> SUFFICES ASSUME TypeOK, [Next]_vars PROVE TypeOK'
    OBVIOUS
  <1>1. ASSUME NEW p \in Processes,
               Tick(p) \/ Advance(p) \/ Control(p) \/ Recovery(p) \/ Crash(p)
        PROVE  TypeOK'
    BY <1>1, TypeTick, TypeAdvance, TypeControl, TypeRecovery
  <1>2. CASE Environment
    BY <1>2, TypeEnvironment DEF Environment
  <1>3. CASE UNCHANGED vars
    BY <1>3 DEF vars, TypeOK
  <1>. QED
    BY <1>1, <1>2, <1>3 DEF Next

LEMMA TypeInit == Init => TypeOK
  BY NewRowType, WorkflowAssumption DEF Init, TypeOK, BlankRow, Labels, Marks

(* Type correctness of the engine: the rows, the locks, the ledger and     *)
(* every process's copy keep their types in all behaviours.                *)
THEOREM TypeCorrect == Spec => []TypeOK
  BY TypeInit, TypeStep, PTL DEF Spec

-----------------------------------------------------------------------------
(* The inductive invariant.                                                *)

TickLabels == {"pick", "load", "release", "down", "recover"}
RequestLabels == {"cancel", "force_complete", "pause", "resume", "force_retry",
                  "reply", "stop"}
SendLabels == {"sending", "accepted", "failing", "failing_for_good"}

(* The state of a process's copy is the one its place in the code implies; *)
(* workers run no requests and handlers neither tick nor recover.          *)
ShapeAt(l, r) ==
    /\ l = "queued" => r.state = "QUEUED"
    /\ l \in SendLabels => r.state = "SENDING"
    /\ l = "sent" => r.state = "SENT"
    /\ l = "checking" => r.state = "CHECKING_REPLY"
    /\ l = "follow_up" => r.state = "FOLLOW_UP"
    /\ l = "pause" => r.state \in Pausable
    /\ l = "resume" => r.state = "PAUSED"
    /\ l = "force_retry" => r.state = "FAILED"
    /\ l \in {"cancel", "force_complete", "stop"} => r.state \notin Terminal

ShapeOf(p) == /\ ShapeAt(pc[p], Copy(p))
              /\ pc[p] = "recover" => \A w \in todo[p] : mem[p][w].state = "SENDING"
              /\ p \in Workers => pc[p] \notin RequestLabels
              /\ p \in Handlers => pc[p] \notin TickLabels

Shape == \A p \in Processes : ShapeOf(p)

(* What a row, or a copy, never contradicts, whoever writes it: everything *)
(* before the current step was sent, nothing after it was, and the state   *)
(* says whether the current one was.                                       *)
RowForm(r) ==
    /\ \A i \in Steps : i < r.cur => r.steps[i] = "sent"
    /\ \A i \in Steps : i > r.cur => r.steps[i] # "sent"
    /\ r.state \in {"QUEUED", "SENDING", "FOLLOW_UP", "FAILED"}
           => r.steps[r.cur] # "sent"
    /\ r.state \in {"SENT", "WAITING", "CHECKING_REPLY"} => r.steps[r.cur] = "sent"
    /\ r.state \in {"WAITING", "CHECKING_REPLY"} => r.cur < NumSteps
    /\ r.state = "PAUSED" =>
          \/ r.from = "QUEUED" /\ r.steps[r.cur] # "sent"
          \/ r.from = "WAITING" /\ r.steps[r.cur] = "sent" /\ r.cur < NumSteps
    /\ r.reply => r.state = "STOPPED"

Forms == /\ \A w \in Workflows : RowForm(row[w])
         /\ \A p \in Processes, w \in Workflows : RowForm(mem[p][w])

(* A copy nobody has overwritten is the stored row, except for the step    *)
(* that is marked "sending" in memory only.                                *)
Stored(p, w) == IF pc[p] \in SendLabels THEN WithStep(row[w], "sending") ELSE row[w]
Fresh == \A p \in Processes, w \in Workflows :
            w \in Copies(p) /\ w \notin stale[p] => mem[p][w] = Stored(p, w)

(* A worker whose lease has not run out holds the lock.                    *)
Leased == \A p \in Workers, w \in Workflows :
             /\ at[p] = w /\ pc[p] \notin {"idle", "pick", "down", "recover"}
             /\ "expired" \notin marks[w]
             => lock[w] = p

IInv == /\ TypeOK /\ Shape /\ Forms /\ Fresh /\ Leased
        /\ LockedCopyIsFresh

SentOf(r) == {i \in Steps : r.steps[i] = "sent"}

-----------------------------------------------------------------------------
(* Writing.  A save at label l of row r over a copy c is legal.            *)

Legal(l, c, r, why) ==
    /\ c.state \notin Terminal
    /\ r \in Row /\ RowForm(r)
    /\ SentOf(c) \subseteq SentOf(r)
    /\ \A i \in SentOf(r) \ SentOf(c) : l = "accepted" /\ i = c.cur
    /\ l = "accepted" => c.cur \in SentOf(r)
    /\ c.state = "SENDING" =>
          l \in SendLabels \/ r.state \in Terminal \/ "requeued" \in why
    /\ r.state = "SENDING" =>
          l \in {"advance", "queued"} /\ c.state = "QUEUED" /\ r.cur = c.cur

LEMMA RowWrites ==
  ASSUME NEW c \in Row
  PROVE  /\ To(WithStep(c, "sent"), "SENT") \in Row
         /\ To(c, "QUEUED") \in Row
         /\ [To(c, "QUEUED") EXCEPT !.next = "later"] \in Row
         /\ [To(c, "QUEUED") EXCEPT !.next = c.sched] \in Row
         /\ [c EXCEPT !.next = "later"] \in Row
         /\ c.cur < NumSteps =>
               To([c EXCEPT !.cur = @ + 1, !.retries = 0], "FOLLOW_UP") \in Row
         /\ \A dst \in {"CANCELLED", "COMPLETED", "STOPPED"} : Halted(c, dst) \in Row
         /\ [Halted(c, "STOPPED") EXCEPT !.reply = TRUE] \in Row
         /\ [To(c, "PAUSED") EXCEPT !.from = c.state] \in Row
  <1>1. c.state \in States /\ c.sched \in Times /\ c.cur \in Steps
    BY DEF Row, Times
  <1>2. \A s \in {"SENT", "QUEUED", "FOLLOW_UP", "PAUSED", "CANCELLED", "COMPLETED",
                  "STOPPED"} : s \in States
    BY DEF States, Terminal, Pausable
  <1>3. WithStep(c, "sent") \in Row
    BY RowOperators DEF StepStates
  <1>4. To(WithStep(c, "sent"), "SENT") \in Row
    BY <1>2, <1>3, RowOperators
  <1>5. \A t \in Times : [To(c, "QUEUED") EXCEPT !.next = t] \in Row
    <2>1. To(c, "QUEUED") \in Row
      BY <1>2, RowOperators
    <2>. QED
      BY <2>1, RowOperators
  <1>6. ASSUME c.cur < NumSteps
        PROVE  To([c EXCEPT !.cur = @ + 1, !.retries = 0], "FOLLOW_UP") \in Row
    <2>1. c.cur + 1 \in Steps /\ 0 \in 0..MaxRetries
      BY <1>1, <1>6, WorkflowAssumption DEF Steps
    <2>2. [c EXCEPT !.cur = @ + 1, !.retries = 0] \in Row
      BY <2>1 DEF Row
    <2>. QED
      BY <1>2, <2>2, RowOperators
  <1>7. [Halted(c, "STOPPED") EXCEPT !.reply = TRUE] \in Row
    <2>1. Halted(c, "STOPPED") \in Row
      BY <1>2, RowOperators
    <2>. QED
      BY <2>1, RowOperators
  <1>8. [To(c, "PAUSED") EXCEPT !.from = c.state] \in Row
    <2>1. To(c, "PAUSED") \in Row
      BY <1>2, RowOperators
    <2>. QED
      BY <1>1, <2>1, RowOperators
  <1>. QED
    BY <1>1, <1>2, <1>4, <1>5, <1>6, <1>7, <1>8, RowOperators DEF Times

LEMMA LegalWhileSending ==
  ASSUME NEW c \in Row, RowForm(c), NEW l, ShapeAt(l, c)
  PROVE  /\ l \in {"advance", "queued"} /\ c.state = "QUEUED" =>
              Legal(l, c, To(c, "SENDING"), {})
         /\ l = "accepted" =>
              Legal(l, c, To(WithStep(c, "sent"), "SENT"), {})
         /\ l \in SendLabels \ {"accepted"} =>
              \A b \in BOOLEAN : Legal(l, c, Failed(c, b), {})
         /\ l = "sent" => Legal(l, c, AfterSend(c), {})
  <1>. USE WorkflowAssumption DEF Steps
  <1>1. ASSUME l \in {"advance", "queued"}, c.state = "QUEUED"
        PROVE  Legal(l, c, To(c, "SENDING"), {})
    BY <1>1, RowOperators DEF Row, Legal, To, RowForm, SentOf, Terminal, States
  <1>2. ASSUME l = "accepted"
        PROVE  Legal(l, c, To(WithStep(c, "sent"), "SENT"), {})
    <2>1. To(WithStep(c, "sent"), "SENT") \in Row
      BY RowWrites
    <2>. QED
      BY <1>2, <2>1 DEF Row, Legal, To, WithStep, RowForm, SentOf, Terminal, SendLabels,
         ShapeAt
  <1>3. ASSUME l \in SendLabels \ {"accepted"}, NEW b \in BOOLEAN
        PROVE  Legal(l, c, Failed(c, b), {})
    <2>1. Failed(c, b) \in Row
      BY RowOperators
    <2>. QED
      BY <1>3, <2>1 DEF Row, Legal, Failed, To, WithStep, RowForm, SentOf, Terminal,
         SendLabels, ShapeAt
  <1>4. ASSUME l = "sent" PROVE Legal(l, c, AfterSend(c), {})
    <2>1. AfterSend(c) \in Row
      BY RowOperators
    <2>. QED
      BY <1>4, <2>1 DEF Row, Legal, AfterSend, RowForm, SentOf, Terminal, SendLabels,
         ShapeAt
  <1>. QED
    BY <1>1, <1>2, <1>3, <1>4

LEMMA LegalWhileWaiting ==
  ASSUME NEW c \in Row, RowForm(c), NEW l, ShapeAt(l, c)
  PROVE  /\ l = "advance" /\ c.state = "WAITING" =>
              Legal(l, c, To(c, "CHECKING_REPLY"), {})
         /\ l = "checking" /\ c.cur < NumSteps =>
              Legal(l, c, To([c EXCEPT !.cur = @ + 1, !.retries = 0], "FOLLOW_UP"), {})
         /\ l = "follow_up" =>
              Legal(l, c, [To(c, "QUEUED") EXCEPT !.next = c.sched], {})
         /\ l = "advance" /\ c.state \in {"QUEUED", "FAILED"} =>
              /\ Legal(l, c, To(c, "QUEUED"), {})
              /\ Legal(l, c, [To(c, "QUEUED") EXCEPT !.next = "later"], {})
              /\ Legal(l, c, [c EXCEPT !.next = "later"], {})
  <1>. USE WorkflowAssumption DEF Steps
  <1>1. ASSUME l = "advance", c.state = "WAITING"
        PROVE  Legal(l, c, To(c, "CHECKING_REPLY"), {})
    <2>. DEFINE d == To(c, "CHECKING_REPLY")
    <2>1. d \in Row
      BY RowOperators DEF States
    <2>2. d.cur = c.cur /\ d.steps = c.steps /\ d.state = "CHECKING_REPLY" /\ d.reply = c.reply
      BY DEF To, Row
    <2>3. RowForm(d)
      BY <1>1, <2>2 DEF RowForm
    <2>4. Legal(l, c, d, {})
      <3>. HIDE DEF d
      <3>1. SentOf(d) = SentOf(c)
        BY <2>2 DEF SentOf
      <3>. QED
        BY <1>1, <2>1, <2>2, <2>3, <3>1 DEF Legal, Terminal
    <2>. QED
      BY <2>4
  <1>2. ASSUME l = "checking", c.cur < NumSteps
        PROVE  Legal(l, c, To([c EXCEPT !.cur = @ + 1, !.retries = 0], "FOLLOW_UP"), {})
    <2>. DEFINE d == To([c EXCEPT !.cur = @ + 1, !.retries = 0], "FOLLOW_UP")
    <2>1. d \in Row
      BY <1>2, RowWrites
    <2>2. d.cur = c.cur + 1 /\ d.steps = c.steps /\ d.state = "FOLLOW_UP" /\ d.reply = c.reply
      BY DEF To
    <2>3. c.state = "CHECKING_REPLY"
      BY <1>2 DEF ShapeAt
    <2>4. RowForm(d)
      <3>. HIDE DEF d
      <3>. QED
        BY <1>2, <2>2, <2>3 DEF RowForm, Row
    <2>5. Legal(l, c, d, {})
      <3>. HIDE DEF d
      <3>1. SentOf(d) = SentOf(c)
        BY <2>2 DEF SentOf
      <3>. QED
        BY <1>2, <2>1, <2>2, <2>3, <2>4, <3>1 DEF Legal, Terminal
    <2>. QED
      BY <2>5
  <1>3. ASSUME l = "follow_up"
        PROVE  Legal(l, c, [To(c, "QUEUED") EXCEPT !.next = c.sched], {})
    <2>1. [To(c, "QUEUED") EXCEPT !.next = c.sched] \in Row
      BY RowWrites
    <2>. QED
      BY <1>3, <2>1 DEF Row, Legal, To, RowForm, SentOf, Terminal, SendLabels, ShapeAt
  <1>4. ASSUME l = "advance", c.state \in {"QUEUED", "FAILED"}
        PROVE  /\ Legal(l, c, To(c, "QUEUED"), {})
               /\ Legal(l, c, [To(c, "QUEUED") EXCEPT !.next = "later"], {})
               /\ Legal(l, c, [c EXCEPT !.next = "later"], {})
    <2>1. /\ To(c, "QUEUED") \in Row
          /\ [To(c, "QUEUED") EXCEPT !.next = "later"] \in Row
          /\ [c EXCEPT !.next = "later"] \in Row
      BY RowWrites
    <2>. QED
      BY <1>4, <2>1 DEF Row, Legal, To, RowForm, SentOf, Terminal, SendLabels
  <1>. QED
    BY <1>1, <1>2, <1>3, <1>4

LEMMA LegalOnRequest ==
  ASSUME NEW c \in Row, RowForm(c), NEW l, ShapeAt(l, c)
  PROVE  /\ l \in {"cancel", "force_complete"} =>
              \A dst \in {"CANCELLED", "COMPLETED"} : Legal(l, c, Halted(c, dst), {})
         /\ l = "stop" => Legal(l, c, [Halted(c, "STOPPED") EXCEPT !.reply = TRUE], {})
         /\ l = "pause" => Legal(l, c, [To(c, "PAUSED") EXCEPT !.from = c.state], {})
         /\ l = "resume" => Legal(l, c, Resumed(c), {})
         /\ l = "force_retry" => Legal(l, c, ForceRetried(c), {})
         /\ l = "recover" /\ c.state = "SENDING" => Legal(l, c, Requeued(c), {"requeued"})
  <1>. USE WorkflowAssumption DEF Steps
  <1>1. ASSUME l \in {"cancel", "force_complete"}, NEW dst \in {"CANCELLED", "COMPLETED"}
        PROVE  Legal(l, c, Halted(c, dst), {})
    <2>1. Halted(c, dst) \in Row
      BY RowWrites
    <2>. QED
      BY <1>1, <2>1 DEF Row, Legal, Halted, RowForm, SentOf, Terminal, ShapeAt
  <1>2. ASSUME l = "stop"
        PROVE  Legal(l, c, [Halted(c, "STOPPED") EXCEPT !.reply = TRUE], {})
    <2>1. [Halted(c, "STOPPED") EXCEPT !.reply = TRUE] \in Row
      BY RowWrites
    <2>. QED
      BY <1>2, <2>1 DEF Row, Legal, Halted, RowForm, SentOf, Terminal, ShapeAt
  <1>3. ASSUME l = "pause"
        PROVE  Legal(l, c, [To(c, "PAUSED") EXCEPT !.from = c.state], {})
    <2>1. [To(c, "PAUSED") EXCEPT !.from = c.state] \in Row
      BY RowWrites
    <2>. QED
      BY <1>3, <2>1 DEF Row, Legal, To, RowForm, SentOf, Terminal, Pausable, ShapeAt
  <1>4. ASSUME l = "resume" PROVE Legal(l, c, Resumed(c), {})
    <2>1. Resumed(c) \in Row
      BY RowOperators
    <2>. QED
      BY <1>4, <2>1 DEF Row, Legal, Resumed, RowForm, SentOf, Terminal, Pausable, ShapeAt
  <1>5. ASSUME l = "force_retry" PROVE Legal(l, c, ForceRetried(c), {})
    <2>1. ForceRetried(c) \in Row
      BY RowOperators
    <2>. QED
      BY <1>5, <2>1 DEF Row, Legal, ForceRetried, RowForm, SentOf, Terminal, ShapeAt
  <1>6. ASSUME l = "recover", c.state = "SENDING"
        PROVE  Legal(l, c, Requeued(c), {"requeued"})
    <2>1. Requeued(c) \in Row
      BY RowOperators
    <2>. QED
      BY <1>6, <2>1 DEF Row, Legal, Requeued, RowForm, SentOf, Terminal
  <1>. QED
    BY <1>1, <1>2, <1>3, <1>4, <1>5, <1>6

-----------------------------------------------------------------------------
(* A step of process p leaves the others alone.  It writes row r over the  *)
(* copy it holds of w and keeps that copy up to date or lets it go, or it  *)
(* leaves the rows alone, and the copies it holds afterwards are freshly   *)
(* loaded or were held before.                                             *)

Alone(p) == \A q \in Processes \ {p} :
               /\ pc'[q] = pc[q] /\ at'[q] = at[q]
               /\ todo'[q] = todo[q] /\ mem'[q] = mem[q]
Live(p) == pc[p] \notin {"idle", "pick", "down", "recover"}

Writes(p, w, r, why) ==
    /\ w \in Copies(p)
    /\ Legal(pc[p], mem[p][w], r, why)
    /\ Save(p, w, r, why)
    /\ UNCHANGED <<ledger, lock, at, msg, accepted>>
    /\ Alone(p)
    /\ ShapeOf(p)'
    /\ \A v \in Copies(p)' :
          v \in Copies(p) /\ (v # w => mem'[p][v] = mem[p][v])
    /\ w \in Copies(p)' => mem'[p][w] = Stored(p, w)'
    /\ \A v \in Workflows :
          \/ mem'[p][v] = mem[p][v]
          \/ mem'[p][v] = BlankRow
          \/ v = w /\ mem'[p][v] = Stored(p, w)'
    /\ pc'[p] \in SendLabels => pc'[p] = "sending" /\ r.state = "SENDING" /\ w = at[p]
    /\ pc[p] \in SendLabels => w = at[p]
    /\ r.state = "SENDING" => pc'[p] = "sending"
    /\ Live(p)' => Live(p)

LEMMA FinishWrites ==
  ASSUME TypeOK, Shape, NEW p \in Processes, NEW r,
         pc[p] \notin {"idle", "pick", "load", "release", "down", "recover"},
         Legal(pc[p], Copy(p), r, {}), r.state # "SENDING", SaveAndFinish(p, r, {})
  PROVE  Writes(p, at[p], r, {})
  <1>1. Copies(p) = {at[p]} /\ mem[p][at[p]] = Copy(p)
    BY DEF Copies, Copy
  <1>2. /\ Save(p, at[p], r, {})
        /\ UNCHANGED <<ledger, lock, at, todo, msg, accepted>>
        /\ pc' = [pc EXCEPT ![p] = IF p \in Workers THEN "release" ELSE "idle"]
        /\ mem' = [mem EXCEPT ![p] = [v \in Workflows |-> BlankRow]]
    BY DEF SaveAndFinish, Finish, Goto, Forget
  <1>3. Alone(p)
    BY <1>2 DEF Alone, TypeOK
  <1>4. pc'[p] \in {"release", "idle"} /\ (p \in Handlers => pc'[p] = "idle")
    BY <1>2, WorkflowAssumption DEF TypeOK
  <1>5. Copies(p)' = {}
    BY <1>4 DEF Copies
  <1>6. \A v \in Workflows : mem'[p][v] = BlankRow
    BY <1>2 DEF TypeOK
  <1>7. ShapeOf(p)'
    BY <1>4 DEF ShapeOf, ShapeAt, SendLabels, RequestLabels, TickLabels
  <1>8. pc'[p] \notin SendLabels /\ Live(p)
    BY <1>4 DEF SendLabels, Live
  <1>. QED
    BY <1>1, <1>2, <1>3, <1>5, <1>6, <1>7, <1>8 DEF Writes

LEMMA TransitWrites ==
  ASSUME TypeOK, Shape, NEW p \in Processes, NEW dst \in States \ {"SENDING"}, NEW r,
         NEW label \in {"queued", "sent", "checking", "follow_up"},
         pc[p] \notin {"idle", "pick", "load", "release", "down", "recover"},
         Legal(pc[p], Copy(p), To(r, dst), {}), To(r, dst).state = dst,
         ShapeAt(label, To(r, dst)), Transit(p, dst, r, label)
  PROVE  Writes(p, at[p], To(r, dst), {})
  <1>1. Copies(p) = {at[p]} /\ mem[p][at[p]] = Copy(p)
    BY DEF Copies, Copy
  <1>2. /\ Save(p, at[p], To(r, dst), {})
        /\ UNCHANGED <<ledger, lock, at, todo, msg, accepted>>
        /\ pc' = [pc EXCEPT ![p] = label]
        /\ mem' = [mem EXCEPT ![p][at[p]] = To(r, dst)]
    BY DEF Transit, Goto, Hold
  <1>3. Alone(p)
    BY <1>2 DEF Alone, TypeOK
  <1>4. pc'[p] = label
    BY <1>2 DEF TypeOK
  <1>5. Copies(p)' = {at[p]}
    BY <1>2, <1>4 DEF Copies
  <1>6. /\ mem'[p][at[p]] = To(r, dst)
        /\ \A v \in Workflows : v # at[p] => mem'[p][v] = mem[p][v]
    BY <1>2 DEF TypeOK
  <1>7. pc'[p] \notin SendLabels /\ Live(p) /\ at[p] \in Workflows
    BY <1>4 DEF SendLabels, Live, TypeOK
  <1>8. Stored(p, at[p])' = To(r, dst)
    BY <1>2, <1>7 DEF Stored, Save, TypeOK
  <1>9. ShapeOf(p)'
    BY <1>2, <1>4, <1>6 DEF ShapeOf, RequestLabels, TickLabels, Copy
  <1>. QED
    BY <1>1, <1>2, <1>3, <1>5, <1>6, <1>7, <1>8, <1>9 DEF Writes

WritesSomething(p) ==
    \E w \in Workflows, why \in SUBSET Marks : \E r \in Row : Writes(p, w, r, why)

LEMMA FinishWritesSomething ==
  ASSUME TypeOK, Shape, NEW p \in Processes, NEW r,
         pc[p] \notin {"idle", "pick", "load", "release", "down", "recover"},
         Legal(pc[p], Copy(p), r, {}), r.state # "SENDING", SaveAndFinish(p, r, {})
  PROVE  WritesSomething(p)
  <1>1. Writes(p, at[p], r, {})
    BY FinishWrites
  <1>2. at[p] \in Workflows /\ r \in Row
    BY DEF TypeOK, Legal
  <1>. QED
    BY <1>1, <1>2 DEF WritesSomething

LEMMA AdvanceWrites ==
  ASSUME TypeOK, Shape, Forms, NEW p \in Processes,
         \/ AdvanceNotDue(p) \/ RateLimited(p) \/ BeginQueue(p) \/ RecordSent(p)
         \/ RecordFailure(p) \/ AfterSending(p) \/ CheckReply(p) \/ FollowUp(p)
         \/ QueueNext(p)
  PROVE  WritesSomething(p)
  <1>0. /\ Copy(p) \in Row /\ at[p] \in Workflows
        /\ RowForm(Copy(p)) /\ ShapeAt(pc[p], Copy(p))
    BY FinishType DEF Forms, Shape, ShapeOf, Copy
  <1>. DEFINE l == pc[p]
              c == Copy(p)
  <1>1. CASE AdvanceNotDue(p)
    <2>1. Legal(l, c, [To(c, "QUEUED") EXCEPT !.next = "later"], {})
      BY <1>0, <1>1, LegalWhileWaiting DEF AdvanceNotDue
    <2>2. [To(c, "QUEUED") EXCEPT !.next = "later"].state # "SENDING"
      BY <1>0 DEF To, Row
    <2>. QED
      BY <1>1, <2>1, <2>2, FinishWritesSomething DEF AdvanceNotDue
  <1>2. CASE RateLimited(p)
    <2>1. Legal(l, c, [c EXCEPT !.next = "later"], {})
      BY <1>0, <1>2, LegalWhileWaiting DEF RateLimited, CanSend
    <2>2. [c EXCEPT !.next = "later"].state # "SENDING"
      BY <1>0, <1>2 DEF Row, RateLimited, CanSend
    <2>. QED
      BY <1>2, <2>1, <2>2, FinishWritesSomething DEF RateLimited
  <1>3. CASE BeginQueue(p)
    <2>1. Legal(l, c, To(c, "QUEUED"), {})
      BY <1>0, <1>3, LegalWhileWaiting DEF BeginQueue, CanSend
    <2>2. To(c, "QUEUED").state = "QUEUED"
      BY <1>0 DEF To, Row
    <2>. QED
      BY <1>0, <1>3, <2>1, <2>2, TransitWrites
      DEF BeginQueue, ShapeAt, SendLabels, WritesSomething, Legal, States, Pausable
  <1>4. CASE RecordSent(p)
    <2>1. Legal(l, c, To(WithStep(c, "sent"), "SENT"), {})
      BY <1>0, <1>4, LegalWhileSending DEF RecordSent
    <2>2. To(WithStep(c, "sent"), "SENT").state = "SENT"
      BY <1>0 DEF To, WithStep, Row
    <2>. QED
      BY <1>0, <1>4, <2>1, <2>2, TransitWrites
      DEF RecordSent, ShapeAt, SendLabels, WritesSomething, Legal, States
  <1>5. CASE RecordFailure(p)
    <2>. DEFINE r == Failed(c, l = "failing_for_good")
    <2>1. Legal(l, c, r, {})
      BY <1>0, <1>5, LegalWhileSending DEF RecordFailure, SendLabels
    <2>2. r.state # "SENDING"
      BY <1>0 DEF Failed, To, WithStep, Row
    <2>. QED
      BY <1>5, <2>1, <2>2, FinishWritesSomething DEF RecordFailure
  <1>6. CASE AfterSending(p)
    <2>1. Legal(l, c, AfterSend(c), {})
      BY <1>0, <1>6, LegalWhileSending DEF AfterSending
    <2>2. AfterSend(c).state # "SENDING"
      BY <1>0 DEF AfterSend, Row
    <2>. QED
      BY <1>6, <2>1, <2>2, FinishWritesSomething DEF AfterSending
  <1>7. CASE CheckReply(p)
    <2>1. Legal(l, c, To(c, "CHECKING_REPLY"), {})
      BY <1>0, <1>7, LegalWhileWaiting DEF CheckReply
    <2>2. To(c, "CHECKING_REPLY").state = "CHECKING_REPLY"
      BY <1>0 DEF To, Row
    <2>. QED
      BY <1>0, <1>7, <2>1, <2>2, TransitWrites
      DEF CheckReply, ShapeAt, SendLabels, WritesSomething, Legal, States
  <1>8. CASE FollowUp(p)
    <2>. DEFINE r == [c EXCEPT !.cur = @ + 1, !.retries = 0]
    <2>1. Legal(l, c, To(r, "FOLLOW_UP"), {})
      BY <1>0, <1>8, LegalWhileWaiting DEF FollowUp
    <2>2. To(r, "FOLLOW_UP").state = "FOLLOW_UP"
      BY <1>0 DEF To, Row
    <2>. QED
      BY <1>0, <1>8, <2>1, <2>2, TransitWrites
      DEF FollowUp, ShapeAt, SendLabels, WritesSomething, Legal, States
  <1>9. CASE QueueNext(p)
    <2>1. Legal(l, c, [To(c, "QUEUED") EXCEPT !.next = c.sched], {})
      BY <1>0, <1>9, LegalWhileWaiting DEF QueueNext
    <2>2. [To(c, "QUEUED") EXCEPT !.next = c.sched].state # "SENDING"
      BY <1>0 DEF To, Row
    <2>. QED
      BY <1>9, <2>1, <2>2, FinishWritesSomething DEF QueueNext
  <1>. QED
    BY <1>1, <1>2, <1>3, <1>4, <1>5, <1>6, <1>7, <1>8, <1>9

LEMMA RequestWrites ==
  ASSUME TypeOK, Shape, Forms, NEW p \in Processes,
         \/ Cancel(p) \/ ForceComplete(p) \/ Pause(p) \/ Resume(p) \/ ForceRetry(p)
         \/ StopForReply(p)
  PROVE  WritesSomething(p)
  <1>0. /\ Copy(p) \in Row /\ at[p] \in Workflows
        /\ RowForm(Copy(p)) /\ ShapeAt(pc[p], Copy(p))
    BY FinishType DEF Forms, Shape, ShapeOf, Copy
  <1>. DEFINE l == pc[p]
              c == Copy(p)
  <1>1. CASE Cancel(p)
    <2>1. Legal(l, c, Halted(c, "CANCELLED"), {}) /\ Halted(c, "CANCELLED").state # "SENDING"
      BY <1>0, <1>1, LegalOnRequest DEF Cancel, Halted, Row
    <2>. QED
      BY <1>1, <2>1, FinishWritesSomething DEF Cancel
  <1>2. CASE ForceComplete(p)
    <2>1. Legal(l, c, Halted(c, "COMPLETED"), {}) /\ Halted(c, "COMPLETED").state # "SENDING"
      BY <1>0, <1>2, LegalOnRequest DEF ForceComplete, Halted, Row
    <2>. QED
      BY <1>2, <2>1, FinishWritesSomething DEF ForceComplete
  <1>3. CASE Pause(p)
    <2>. DEFINE r == [To(c, "PAUSED") EXCEPT !.from = c.state]
    <2>1. Legal(l, c, r, {}) /\ r.state # "SENDING"
      BY <1>0, <1>3, LegalOnRequest DEF Pause, To, Row
    <2>. QED
      BY <1>3, <2>1, FinishWritesSomething DEF Pause
  <1>4. CASE Resume(p)
    <2>1. Legal(l, c, Resumed(c), {})
      BY <1>0, <1>4, LegalOnRequest DEF Resume
    <2>2. Resumed(c).state # "SENDING"
      BY <1>0, <1>4, <2>1 DEF Resume, Resumed, Row, RowForm, ShapeAt
    <2>. QED
      BY <1>4, <2>1, <2>2, FinishWritesSomething DEF Resume
  <1>5. CASE ForceRetry(p)
    <2>1. Legal(l, c, ForceRetried(c), {}) /\ ForceRetried(c).state # "SENDING"
      BY <1>0, <1>5, LegalOnRequest DEF ForceRetry, ForceRetried, Row
    <2>. QED
      BY <1>5, <2>1, FinishWritesSomething DEF ForceRetry
  <1>6. CASE StopForReply(p)
    <2>. DEFINE r == [Halted(c, "STOPPED") EXCEPT !.reply = TRUE]
    <2>1. Legal(l, c, r, {}) /\ r.state # "SENDING"
      BY <1>0, <1>6, LegalOnRequest DEF StopForReply, Halted, Row
    <2>. QED
      BY <1>6, <2>1, FinishWritesSomething DEF StopForReply
  <1>. QED
    BY <1>1, <1>2, <1>3, <1>4, <1>5, <1>6

LEMMA BeginSendWrites ==
  ASSUME TypeOK, Shape, Forms, NEW p \in Processes, BeginSend(p)
  PROVE  WritesSomething(p)
  <1>0. /\ Copy(p) \in Row /\ at[p] \in Workflows
        /\ RowForm(Copy(p)) /\ ShapeAt(pc[p], Copy(p))
    BY FinishType DEF Forms, Shape, ShapeOf, Copy
  <1>. DEFINE c == Copy(p)
              r == To(c, "SENDING")
  <1>1. pc[p] \in {"advance", "queued"} /\ c.state = "QUEUED"
    BY <1>0 DEF BeginSend, ShapeAt
  <1>2. Legal(pc[p], c, r, {}) /\ r.state = "SENDING"
    BY <1>0, <1>1, LegalWhileSending DEF To, Row
  <1>3. Copies(p) = {at[p]} /\ mem[p][at[p]] = c
    BY <1>1 DEF Copies, Copy
  <1>4. /\ Save(p, at[p], r, {})
        /\ UNCHANGED <<ledger, lock, at, todo, msg, accepted>>
        /\ pc' = [pc EXCEPT ![p] = "sending"]
        /\ mem' = [mem EXCEPT ![p][at[p]] = WithStep(r, "sending")]
    BY DEF BeginSend, Goto, Hold
  <1>5. Alone(p)
    BY <1>4 DEF Alone, TypeOK
  <1>6. pc'[p] = "sending"
    BY <1>4 DEF TypeOK
  <1>7. Copies(p)' = {at[p]}
    BY <1>4, <1>6 DEF Copies
  <1>8. /\ mem'[p][at[p]] = WithStep(r, "sending")
        /\ \A v \in Workflows : v # at[p] => mem'[p][v] = mem[p][v]
    BY <1>4 DEF TypeOK
  <1>9. Stored(p, at[p])' = WithStep(r, "sending")
    BY <1>0, <1>4, <1>6 DEF Stored, Save, SendLabels, TypeOK
  <1>10. ShapeOf(p)'
    <2>1. WithStep(r, "sending").state = "SENDING"
      BY <1>0 DEF WithStep, To, Row
    <2>2. Copy(p)' = WithStep(r, "sending")
      BY <1>4, <1>8 DEF Copy
    <2>. HIDE DEF r
    <2>. QED
      BY <1>6, <2>1, <2>2 DEF ShapeOf, ShapeAt, SendLabels, RequestLabels, TickLabels
  <1>11. Live(p)
    BY <1>1 DEF Live
  <1>12. Writes(p, at[p], r, {})
    BY <1>1, <1>2, <1>3, <1>4, <1>5, <1>6, <1>7, <1>8, <1>9, <1>10, <1>11 DEF Writes
  <1>. QED
    BY <1>0, <1>2, <1>12 DEF WritesSomething, Legal

LEMMA RecoverOneWrites ==
  ASSUME TypeOK, Shape, Forms, NEW p \in Processes, RecoverOne(p)
  PROVE  WritesSomething(p)
  <1>1. PICK w \in todo[p] :
          /\ Save(p, w, Requeued(mem[p][w]), {"requeued"})
          /\ mem' = [mem EXCEPT ![p][w] = BlankRow]
          /\ todo' = [todo EXCEPT ![p] = @ \ {w}]
    BY DEF RecoverOne
  <1>2. /\ pc[p] = "recover" /\ UNCHANGED <<ledger, lock, pc, at, msg, accepted>>
        /\ w \in Workflows /\ mem[p][w] \in Row /\ mem[p][w].state = "SENDING"
        /\ RowForm(mem[p][w])
    BY <1>1 DEF RecoverOne, TypeOK, Shape, ShapeOf, Forms
  <1>. DEFINE r == Requeued(mem[p][w])
  <1>3. Legal(pc[p], mem[p][w], r, {"requeued"}) /\ r.state # "SENDING"
    <2>1. ShapeAt("recover", mem[p][w])
      BY DEF ShapeAt, SendLabels
    <2>2. Legal("recover", mem[p][w], r, {"requeued"})
      BY <1>2, <2>1, LegalOnRequest
    <2>3. r.state = "QUEUED"
      BY <1>2 DEF Requeued, Row
    <2>. QED
      BY <1>2, <2>2, <2>3
  <1>4. Copies(p) = todo[p] /\ Copies(p)' = todo[p] \ {w}
    BY <1>1, <1>2 DEF Copies, TypeOK
  <1>5. Alone(p)
    BY <1>1, <1>2 DEF Alone, TypeOK
  <1>6. mem'[p][w] = BlankRow /\ \A v \in Workflows : v # w => mem'[p][v] = mem[p][v]
    BY <1>1, <1>2 DEF TypeOK
  <1>7. ShapeOf(p)'
    <2>1. \A v \in todo'[p] : mem'[p][v].state = "SENDING"
      BY <1>1, <1>2, <1>6 DEF TypeOK, Shape, ShapeOf
    <2>. QED
      BY <1>2, <2>1 DEF ShapeOf, ShapeAt, SendLabels, RequestLabels, TickLabels,
         Shape
  <1>8. pc[p] \notin SendLabels /\ ~Live(p)'
    BY <1>2 DEF SendLabels, Live
  <1>9. Writes(p, w, r, {"requeued"})
    BY <1>1, <1>2, <1>3, <1>4, <1>5, <1>6, <1>7, <1>8 DEF Writes, TypeOK
  <1>. QED
    BY <1>2, <1>3, <1>9 DEF WritesSomething, Legal, Marks

Reads(p) ==
    /\ UNCHANGED row
    /\ Alone(p)
    /\ \A q \in Processes \ {p} : stale'[q] = stale[q]
    /\ \A v \in Workflows : marks[v] \subseteq marks'[v]
    /\ ShapeOf(p)'
    /\ \A v \in Copies(p)' :
          \/ mem'[p][v] = row[v] /\ pc'[p] \notin SendLabels
          \/ /\ v \in Copies(p) /\ mem'[p][v] = mem[p][v]
             /\ v \in stale[p] => v \in stale'[p]
             /\ pc'[p] \in SendLabels <=> pc[p] \in SendLabels
    /\ \A v \in Workflows : mem'[p][v] \in {mem[p][v], row[v], BlankRow}
    /\ pc'[p] \in SendLabels =>
          pc[p] = "sending" /\ UNCHANGED <<at, mem, stale>>
    /\ \A v \in Workflows : Ticking(p, v)' =>
          \/ v \notin stale'[p]
          \/ Ticking(p, v) /\ (v \in stale'[p] => v \in stale[p])
    /\ \A v \in Workflows :
          /\ \A q \in Workers \ {p} : lock[v] = q => lock'[v] = q
          /\ p \in Workers /\ at'[p] = v /\ Live(p)' =>
                lock'[v] = p \/ (at[p] = v /\ Live(p) /\ lock'[v] = lock[v])

LEMMA TickReads ==
  ASSUME TypeOK, Shape, NEW p \in Processes,
         Tick(p)
  PROVE  Reads(p)
  <1>. USE WorkflowAssumption
           DEF Reads, Alone, Copies, Ticking, Copy, Goto, Hold, Finish, Forget, stored,
               TypeOK, Shape, ShapeOf, ShapeAt, SendLabels, RequestLabels, TickLabels, Live
  <1>1. CASE Scan(p)
    BY <1>1 DEF Scan
  <1>2. CASE Pick(p)
    BY <1>2 DEF Pick
  <1>3. CASE EndTick(p)
    BY <1>3 DEF EndTick
  <1>4. CASE Load(p)
    BY <1>4 DEF Load
  <1>5. CASE Release(p)
    BY <1>5 DEF Release
  <1>. QED
    BY <1>1, <1>2, <1>3, <1>4, <1>5 DEF Tick

LEMMA AdvanceReads ==
  ASSUME TypeOK, Shape, NEW p \in Processes,
         AdvanceNothing(p) \/ ProviderAccepts(p) \/ ProviderRefuses(p) \/ AnswerLost(p)
  PROVE  Reads(p)
  <1>. USE WorkflowAssumption
           DEF Reads, Alone, Copies, Ticking, Copy, Goto, Hold, Finish, Forget, stored,
               TypeOK, Shape, ShapeOf, ShapeAt, SendLabels, RequestLabels, TickLabels, Live
  <1>1. CASE AdvanceNothing(p)
    BY <1>1 DEF AdvanceNothing
  <1>2. CASE ProviderAccepts(p)
    BY <1>2 DEF ProviderAccepts
  <1>3. CASE ProviderRefuses(p)
    BY <1>3 DEF ProviderRefuses
  <1>4. CASE AnswerLost(p)
    BY <1>4 DEF AnswerLost
  <1>. QED
    BY <1>1, <1>2, <1>3, <1>4

LEMMA RecoveryReads ==
  ASSUME TypeOK, Shape, NEW p \in Processes,
         Crash(p) \/ Restart(p) \/ EndRecover(p)
  PROVE  Reads(p)
  <1>. USE WorkflowAssumption
           DEF Reads, Alone, Copies, Ticking, Copy, Goto, Hold, Finish, Forget, stored,
               TypeOK, Shape, ShapeOf, ShapeAt, SendLabels, RequestLabels, TickLabels, Live
  <1>1. CASE Crash(p)
    BY <1>1 DEF Crash
  <1>2. CASE Restart(p)
    BY <1>2 DEF Restart
  <1>3. CASE EndRecover(p)
    BY <1>3 DEF EndRecover
  <1>. QED
    BY <1>1, <1>2, <1>3

LEMMA RequestReads ==
  ASSUME TypeOK, Shape, NEW p \in Processes,
         \/ \E w \in Workflows, c \in Controls : Request(p, w, c)
         \/ \E w \in Workflows, m \in Replies : ReplyArrives(p, w, m)
         \/ ClaimReply(p)
  PROVE  Reads(p)
  <1>. USE WorkflowAssumption
           DEF Reads, Alone, Copies, Ticking, Copy, Goto, Hold, Finish, Forget, stored,
               TypeOK, Shape, ShapeOf, ShapeAt, SendLabels, RequestLabels, TickLabels, Live
  <1>1. ASSUME NEW w \in Workflows, NEW c \in Controls, Request(p, w, c)
        PROVE  Reads(p)
    BY <1>1 DEF Request, Allowed, Pausable, Terminal, AllControls
  <1>2. ASSUME NEW w \in Workflows, NEW m \in Replies, ReplyArrives(p, w, m)
        PROVE  Reads(p)
    BY <1>2 DEF ReplyArrives
  <1>3. CASE ClaimReply(p)
    BY <1>3 DEF ClaimReply
  <1>. QED
    BY <1>1, <1>2, <1>3

(* Every step writes, reads, or is the environment's.                      *)
LEMMA ProcessStep ==
  ASSUME TypeOK, Shape, Forms, NEW p \in Processes,
         Tick(p) \/ Advance(p) \/ Control(p) \/ Recovery(p) \/ Crash(p)
  PROVE  WritesSomething(p) \/ Reads(p)
  <1>1. CASE Tick(p)
    BY <1>1, TickReads
  <1>2. CASE Advance(p)
    BY <1>2, AdvanceWrites, BeginSendWrites, AdvanceReads DEF Advance
  <1>3. CASE Control(p)
    BY <1>3, RequestWrites, RequestReads DEF Control
  <1>4. CASE Recovery(p) \/ Crash(p)
    BY <1>4, RecoverOneWrites, RecoveryReads DEF Recovery
  <1>. QED
    BY <1>1, <1>2, <1>3, <1>4

-----------------------------------------------------------------------------
(* The inductive invariant is inductive.                                   *)

LEMMA BlankForm == RowForm(BlankRow) /\ RowForm(NewRow("later"))
  BY WorkflowAssumption DEF RowForm, BlankRow, NewRow, Steps

LEMMA WriteKeeps ==
  ASSUME IInv, TypeOK', NEW p \in Processes, WritesSomething(p)
  PROVE  Shape' /\ Forms' /\ Fresh' /\ Leased' /\ LockedCopyIsFresh'
  <1>. USE DEF IInv
  <1>1. PICK w \in Workflows, why \in SUBSET Marks, r \in Row : Writes(p, w, r, why)
    BY DEF WritesSomething
  <1>2. /\ row' = [row EXCEPT ![w] = r]
        /\ \A q \in Processes : stale'[q] =
              IF q = p THEN stale[q] \ {w}
              ELSE IF w \in Copies(q) THEN stale[q] \cup {w} ELSE stale[q]
        /\ \A v \in Workflows : marks[v] \subseteq marks'[v]
        /\ ~Ticking(p, w) => "unlocked" \in marks'[w]
    BY <1>1 DEF Writes, Save, TypeOK
  <1>3. RowForm(r) /\ \A v \in Workflows : RowForm(row'[v])
    BY <1>1, <1>2 DEF Writes, Legal, Forms, TypeOK
  <1>4. \A q \in Processes \ {p} :
           /\ pc'[q] = pc[q] /\ at'[q] = at[q] /\ todo'[q] = todo[q] /\ mem'[q] = mem[q]
           /\ Copies(q)' = Copies(q)
    BY <1>1 DEF Writes, Alone, Copies
  <1>5. Shape'
    BY <1>1, <1>4 DEF Writes, Shape, ShapeOf, Copy
  <1>6. Forms'
    <2>1. RowForm(BlankRow)
      BY BlankForm
    <2>2. pc'[p] \in SendLabels => RowForm(WithStep(r, "sending"))
      <3>1. pc'[p] \in SendLabels => r.state = "SENDING" /\ RowForm(r) /\ r \in Row
        BY <1>1, <1>3 DEF Writes
      <3>. QED
        BY <3>1 DEF RowForm, WithStep, Row, Steps
    <2>3. RowForm(Stored(p, w)')
      BY <1>2, <1>3, <2>2 DEF Stored, TypeOK
    <2>4. \A q \in Processes, v \in Workflows : RowForm(mem'[q][v])
      <3>1. \A v \in Workflows : RowForm(mem'[p][v])
        BY <1>1, <2>1, <2>3 DEF Writes, Forms
      <3>. QED
        BY <1>4, <3>1 DEF Forms
    <2>. QED
      BY <1>3, <2>4 DEF Forms
  <1>7. Fresh'
    <2>1. ASSUME NEW q \in Processes, q # p, NEW v \in Workflows,
                 v \in Copies(q)', v \notin stale'[q]
          PROVE  mem'[q][v] = Stored(q, v)'
      <3>1. v # w /\ v \notin stale[q] /\ row'[v] = row[v]
        BY <1>2, <1>4, <2>1 DEF TypeOK
      <3>2. Stored(q, v)' = Stored(q, v)
        BY <1>4, <2>1, <3>1 DEF Stored
      <3>. QED
        BY <1>4, <2>1, <3>1, <3>2 DEF Fresh
    <2>2. ASSUME NEW v \in Workflows, v \in Copies(p)', v \notin stale'[p], v # w
          PROVE  mem'[p][v] = Stored(p, v)'
      <3>1. pc[p] \notin SendLabels /\ pc'[p] \notin SendLabels
        BY <1>1, <2>2 DEF Writes, Copies, SendLabels
      <3>2. v \in Copies(p) /\ mem'[p][v] = mem[p][v] /\ v \notin stale[p]
        BY <1>1, <1>2, <2>2 DEF Writes
      <3>3. row'[v] = row[v]
        BY <1>2, <2>2 DEF TypeOK
      <3>. QED
        BY <3>1, <3>2, <3>3 DEF Fresh, Stored
    <2>3. w \in Copies(p)' => mem'[p][w] = Stored(p, w)'
      BY <1>1 DEF Writes
    <2>. QED
      BY <2>1, <2>2, <2>3 DEF Fresh
  <1>8. /\ \A q \in Processes : Live(q)' => Live(q)
        /\ UNCHANGED <<at, lock>>
    BY <1>1, <1>4 DEF Writes, Live
  <1>9. Leased'
    <2>. SUFFICES ASSUME NEW q \in Workers, NEW v \in Workflows, at'[q] = v, Live(q)',
                         "expired" \notin marks'[v]
                  PROVE  lock'[v] = q
      BY DEF Leased, Live
    <2>1. at[q] = v /\ Live(q) /\ "expired" \notin marks[v]
      BY <1>2, <1>8 DEF Processes
    <2>. QED
      BY <1>8, <2>1 DEF Leased, Live
  <1>10. ASSUME NEW q \in Workers, NEW v \in Workflows, Ticking(q, v)',
                marks'[v] \cap {"expired", "unlocked"} = {}
         PROVE  v \notin stale'[q]
    <2>1. CASE q = p
      <3>1. v = w
        BY <1>1, <1>8, <1>10, <2>1 DEF Writes, Ticking, Copies, Live
      <3>. QED
        BY <1>2, <2>1, <3>1
    <2>2. CASE q # p
      <3>1. q \in Processes /\ Ticking(q, v) /\ v \notin stale[q]
        BY <1>2, <1>4, <1>10, <2>2 DEF Ticking, LockedCopyIsFresh, Processes
      <3>2. v # w
        <4>. SUFFICES ASSUME v = w PROVE FALSE
          OBVIOUS
        <4>1. Ticking(p, w) /\ "expired" \notin marks[w]
          BY <1>2, <1>10
        <4>. QED
          BY <2>2, <3>1, <4>1 DEF Leased, Ticking
      <3>. QED
        BY <1>2, <2>2, <3>1, <3>2
    <2>. QED
      BY <2>1, <2>2
  <1>. QED
    BY <1>5, <1>6, <1>7, <1>9, <1>10 DEF LockedCopyIsFresh

LEMMA ReadKeeps ==
  ASSUME IInv, TypeOK', NEW p \in Processes, Reads(p)
  PROVE  Shape' /\ Forms' /\ Fresh' /\ Leased' /\ LockedCopyIsFresh'
  <1>. USE DEF IInv
  <1>1. \A q \in Processes \ {p} :
           /\ pc'[q] = pc[q] /\ at'[q] = at[q] /\ todo'[q] = todo[q] /\ mem'[q] = mem[q]
           /\ Copies(q)' = Copies(q) /\ stale'[q] = stale[q]
    BY DEF Reads, Alone, Copies
  <1>2. Shape'
    BY <1>1 DEF Reads, Shape, ShapeOf, Copy
  <1>3. Forms'
    BY <1>1, BlankForm DEF Reads, Forms
  <1>4. Fresh'
    <2>1. ASSUME NEW q \in Processes, q # p, NEW v \in Workflows,
                 v \in Copies(q)', v \notin stale'[q]
          PROVE  mem'[q][v] = Stored(q, v)'
      BY <1>1, <2>1 DEF Fresh, Stored, Reads
    <2>2. ASSUME NEW v \in Workflows, v \in Copies(p)', v \notin stale'[p]
          PROVE  mem'[p][v] = Stored(p, v)'
      BY <2>2 DEF Fresh, Stored, Reads
    <2>. QED
      BY <2>1, <2>2 DEF Fresh
  <1>5. Leased'
    <2>. SUFFICES ASSUME NEW q \in Workers, NEW v \in Workflows, at'[q] = v, Live(q)',
                         "expired" \notin marks'[v]
                  PROVE  lock'[v] = q
      BY DEF Leased, Live
    <2>1. q \in Processes /\ "expired" \notin marks[v]
      BY DEF Reads, Processes
    <2>2. CASE q = p
      BY <2>1, <2>2 DEF Leased, Live, Reads
    <2>3. CASE q # p
      BY <1>1, <2>1, <2>3 DEF Leased, Live, Reads
    <2>. QED
      BY <2>2, <2>3
  <1>6. LockedCopyIsFresh'
    <2>. SUFFICES ASSUME NEW q \in Workers, NEW v \in Workflows, Ticking(q, v)',
                         marks'[v] \cap {"expired", "unlocked"} = {}
                  PROVE  v \notin stale'[q]
      BY DEF LockedCopyIsFresh
    <2>1. q \in Processes /\ marks[v] \cap {"expired", "unlocked"} = {}
      BY DEF Reads, Processes
    <2>2. CASE q = p
      BY <2>1, <2>2 DEF LockedCopyIsFresh, Reads
    <2>3. CASE q # p
      BY <1>1, <2>1, <2>3 DEF LockedCopyIsFresh, Ticking
    <2>. QED
      BY <2>2, <2>3
  <1>. QED
    BY <1>2, <1>3, <1>4, <1>5, <1>6

LEMMA EnvironmentKeeps ==
  ASSUME IInv, TypeOK', NEW w \in Workflows, Expire(w) \/ TimePasses(w)
  PROVE  Shape' /\ Forms' /\ Fresh' /\ Leased' /\ LockedCopyIsFresh'
  <1>. USE DEF IInv
  <1>1. CASE Expire(w)
    <2>1. /\ UNCHANGED <<row, pc, at, todo, mem, stale>>
          /\ \A v \in Workflows : marks[v] \subseteq marks'[v]
      BY <1>1 DEF Expire, local, TypeOK
    <2>2. Shape' /\ Forms' /\ Fresh'
      BY <2>1 DEF Shape, ShapeOf, Copy, Forms, Fresh, Copies, Stored
    <2>3. Leased'
      BY <1>1, <2>1, WorkflowAssumption DEF Leased, Expire, TypeOK, Processes
    <2>4. LockedCopyIsFresh'
      BY <2>1 DEF LockedCopyIsFresh, Ticking
    <2>. QED
      BY <2>2, <2>3, <2>4
  <1>2. CASE TimePasses(w)
    <2>1. /\ row' = [row EXCEPT ![w] = Aged(@)]
          /\ UNCHANGED <<lock, pc, at, todo, stale, marks>>
          /\ \A q \in Processes : mem'[q] = [mem[q] EXCEPT ![w] = Aged(@)]
      BY <1>2 DEF TimePasses
    <2>2. ASSUME NEW r \in Row
          PROVE  /\ Aged(r).state = r.state
                 /\ RowForm(r) => RowForm(Aged(r))
                 /\ WithStep(Aged(r), "sending") = Aged(WithStep(r, "sending"))
      BY DEF Aged, RowForm, WithStep, Row
    <2>3. \A q \in Processes, v \in Workflows :
             /\ mem'[q][v] = IF v = w THEN Aged(mem[q][v]) ELSE mem[q][v]
             /\ row'[v] = IF v = w THEN Aged(row[v]) ELSE row[v]
             /\ mem[q][v] \in Row /\ row[v] \in Row
      BY <2>1 DEF TypeOK
    <2>4. Forms'
      <3>1. \A v \in Workflows : RowForm(row'[v])
        BY <2>1, <2>2 DEF Forms, TypeOK
      <3>2. ASSUME NEW q \in Processes, NEW v \in Workflows PROVE RowForm(mem'[q][v])
        BY <2>2, <2>3 DEF Forms
      <3>. QED
        BY <3>1, <3>2 DEF Forms
    <2>5. Shape'
      <3>. SUFFICES ASSUME NEW q \in Processes PROVE ShapeOf(q)'
        BY DEF Shape
      <3>1. mem'[q][at[q]].state = mem[q][at[q]].state /\ ShapeOf(q)
        BY <2>2, <2>3 DEF TypeOK, Shape
      <3>2. \A v \in todo[q] : mem'[q][v].state = mem[q][v].state
        BY <2>2, <2>3 DEF TypeOK
      <3>. QED
        BY <2>1, <3>1, <3>2 DEF ShapeOf, ShapeAt, Copy
    <2>6. Fresh'
      <3>. SUFFICES ASSUME NEW q \in Processes, NEW v \in Workflows,
                           v \in Copies(q)', v \notin stale'[q]
                    PROVE  mem'[q][v] = Stored(q, v)'
        BY DEF Fresh
      <3>1. mem[q][v] = Stored(q, v)
        BY <2>1 DEF Fresh, Copies
      <3>. QED
        BY <2>1, <2>2, <2>3, <3>1 DEF Stored
    <2>7. Leased' /\ LockedCopyIsFresh'
      BY <2>1 DEF Leased, LockedCopyIsFresh, Ticking
    <2>. QED
      BY <2>4, <2>5, <2>6, <2>7
  <1>. QED
    BY <1>1, <1>2

LEMMA InitIInv == Init => IInv
  <1>. SUFFICES ASSUME Init PROVE IInv
    OBVIOUS
  <1>1. TypeOK
    BY TypeInit
  <1>2. Forms
    BY BlankForm DEF Init, Forms, BlankRow
  <1>3. \A p \in Processes : pc[p] = "idle"
    BY DEF Init
  <1>4. Shape
    BY <1>3 DEF Shape, ShapeOf, ShapeAt, SendLabels, RequestLabels, TickLabels
  <1>5. Fresh /\ Leased /\ LockedCopyIsFresh
    BY <1>3 DEF Fresh, Copies, Leased, LockedCopyIsFresh, Ticking, Processes
  <1>. QED
    BY <1>1, <1>2, <1>4, <1>5 DEF IInv

LEMMA StepIInv == IInv /\ [Next]_vars => IInv'
  <1>. SUFFICES ASSUME IInv, [Next]_vars PROVE IInv'
    OBVIOUS
  <1>1. TypeOK'
    BY TypeStep DEF IInv
  <1>2. ASSUME NEW p \in Processes,
               Tick(p) \/ Advance(p) \/ Control(p) \/ Recovery(p) \/ Crash(p)
        PROVE  IInv'
    <2>1. WritesSomething(p) \/ Reads(p)
      BY <1>2, ProcessStep DEF IInv
    <2>. QED
      BY <1>1, <2>1, WriteKeeps, ReadKeeps DEF IInv
  <1>3. CASE Environment
    BY <1>1, <1>3, EnvironmentKeeps DEF Environment, IInv
  <1>4. CASE UNCHANGED vars
    BY <1>1, <1>4 DEF vars, IInv, Shape, ShapeOf, Copy, Forms, Fresh, Copies, Stored,
       Leased, LockedCopyIsFresh, Ticking
  <1>. QED
    BY <1>2, <1>3, <1>4 DEF Next

LEMMA Invariance == Spec => []IInv
  BY InitIInv, StepIInv, PTL DEF Spec

(* While its lease lasts and nobody writes without the lock, the copy a    *)
(* tick works on is the stored row (worker.py run_once, redis.py).         *)
THEOREM LockedCopies == Spec => []LockedCopyIsFresh
  <1>1. IInv => LockedCopyIsFresh
    BY DEF IInv
  <1>. QED
    BY <1>1, Invariance, PTL

(* Two ticks never work on one workflow before a lease has run out.        *)
THEOREM MutualExclusion == Spec => []TicksExclude
  <1>1. IInv => TicksExclude
    BY DEF IInv, Leased, TicksExclude, Ticking
  <1>. QED
    BY <1>1, Invariance, PTL

(* assert_transition never raises, whatever the interleaving.              *)
THEOREM TransitionsValid == Spec => []NoInvalidTransition
  <1>1. IInv => NoInvalidTransition
    <2>. SUFFICES ASSUME IInv, NEW p \in Processes
                  PROVE  /\ CanTransition(Copy(p).state, NextState(p))
                         /\ pc[p] = "checking" => Copy(p).cur < NumSteps
      BY DEF NoInvalidTransition
    <2>1. ShapeAt(pc[p], Copy(p)) /\ RowForm(Copy(p)) /\ Copy(p) \in Row
      BY FinishType DEF IInv, Shape, ShapeOf, Forms, TypeOK, Copy
    <2>2. \A b \in BOOLEAN : Failed(Copy(p), b).state \in {"QUEUED", "FAILED"}
      BY <2>1 DEF Failed, To, WithStep, Row
    <2>3. AfterSend(Copy(p)).state \in {"WAITING", "COMPLETED"}
      BY <2>1 DEF AfterSend, Row
    <2>4. CanTransition(Copy(p).state, NextState(p))
      <3>. USE DEF CanTransition, NextState, Transitions, ShapeAt, SendLabels, Pausable,
                   States, Terminal
      <3>1. CASE pc[p] \in {"queued", "accepted", "checking", "follow_up", "pause",
                            "force_retry"}
        BY <2>1, <3>1
      <3>2. CASE pc[p] \in {"failing", "failing_for_good"}
        BY <2>1, <2>2, <3>2
      <3>3. CASE pc[p] = "sent"
        BY <2>1, <2>3, <3>3
      <3>4. CASE pc[p] = "resume"
        BY <2>1, <3>4 DEF RowForm
      <3>. QED
        BY <3>1, <3>2, <3>3, <3>4
    <2>. QED
      BY <2>1, <2>4 DEF ShapeAt, RowForm
  <1>. QED
    BY <1>1, Invariance, PTL

LEMMA TerminalStep ==
  ASSUME IInv, [Next]_vars, NEW w \in Workflows,
         row[w].state \in Terminal, row'[w].state \notin Terminal
  PROVE  "lost" \in marks'[w]
  <1>. USE DEF IInv
  <1>1. ASSUME NEW p \in Processes,
               Tick(p) \/ Advance(p) \/ Control(p) \/ Recovery(p) \/ Crash(p)
        PROVE  "lost" \in marks'[w]
    <2>1. WritesSomething(p) \/ Reads(p)
      BY <1>1, ProcessStep
    <2>2. ~Reads(p)
      BY DEF Reads
    <2>3. PICK v \in Workflows, why \in SUBSET Marks, r \in Row : Writes(p, v, r, why)
      BY <2>1, <2>2 DEF WritesSomething
    <2>4. v = w
      BY <2>3 DEF Writes, Save, TypeOK
    <2>5. w \in stale[p]
      <3>1. mem[p][w].state \notin Terminal /\ w \in Copies(p)
        BY <2>3, <2>4 DEF Writes, Legal
      <3>2. Stored(p, w).state \in Terminal
        BY DEF Stored, WithStep, TypeOK, Row
      <3>. QED
        BY <3>1, <3>2 DEF Fresh
    <2>. QED
      BY <2>3, <2>4, <2>5 DEF Writes, Save, TypeOK
  <1>2. ~Environment /\ ~UNCHANGED vars
    <2>1. \A v \in Workflows : ~Expire(v)
      BY DEF Expire
    <2>2. \A v \in Workflows : ~TimePasses(v)
      <3>. SUFFICES ASSUME NEW v \in Workflows, TimePasses(v) PROVE FALSE
        OBVIOUS
      <3>1. row' = [row EXCEPT ![v] = Aged(@)]
        BY DEF TimePasses
      <3>2. row[v] \in Row
        BY DEF TypeOK
      <3>3. Aged(row[v]).state = row[v].state
        BY <3>2 DEF Aged, Row
      <3>. QED
        BY <3>1, <3>3 DEF TypeOK
    <2>. QED
      BY <2>1, <2>2 DEF Environment, vars
  <1>. QED
    BY <1>1, <1>2 DEF Next

(* A finished workflow is revived by a lost update only.                   *)
THEOREM TerminalStays == Spec => TerminalLeftOnlyByLostUpdate
  <1>1. IInv /\ [Next]_vars =>
          [\A w \in Workflows : row[w].state \in Terminal /\ row'[w].state \notin Terminal
              => "lost" \in marks'[w]]_vars
    BY TerminalStep
  <1>. QED
    BY <1>1, Invariance, PTL DEF Spec, TerminalLeftOnlyByLostUpdate

-----------------------------------------------------------------------------
(***************************************************************************)
(* What the provider has accepted, and claimed replies, on top of the      *)
(* inductive invariant above.                                              *)
(***************************************************************************)

-----------------------------------------------------------------------------
(* Which steps touch the history of acceptances.                           *)

Accepts(p) == /\ pc[p] = "sending"
              /\ Accept(at[p], Copy(p).cur)
              /\ UNCHANGED <<row, ledger, at, mem, stale>>
              /\ \/ pc'[p] = "accepted"
                 \/ pc'[p] = "failing" /\ "ambiguous" \in marks'[at[p]]
LeavesHistory(p) == /\ accepted' = accepted
                    /\ pc'[p] = "accepted" => pc[p] = "accepted" /\ UNCHANGED <<at, mem>>

LEMMA AcceptSteps ==
  ASSUME TypeOK, NEW p \in Processes,
         Tick(p) \/ Advance(p) \/ Control(p) \/ Recovery(p) \/ Crash(p)
  PROVE  Accepts(p) \/ LeavesHistory(p)
  <1>. USE DEF TypeOK, Goto
  <1>1. CASE Tick(p)
    BY <1>1 DEF Tick, Scan, Pick, EndTick, Load, Release, LeavesHistory
  <1>2. CASE Advance(p)
    <2>1. CASE ProviderAccepts(p)
      BY <2>1 DEF ProviderAccepts, Accepts, stored
    <2>2. CASE ProviderRefuses(p)
      BY <2>2 DEF ProviderRefuses, LeavesHistory
    <2>3. CASE AnswerLost(p)
      BY <2>3 DEF AnswerLost, Accepts
    <2>4. CASE \/ AdvanceNotDue(p) \/ RateLimited(p) \/ RecordFailure(p)
               \/ AfterSending(p) \/ QueueNext(p)
      BY <2>4 DEF AdvanceNotDue, RateLimited, RecordFailure, AfterSending, QueueNext,
         SaveAndFinish, Finish, LeavesHistory
    <2>5. CASE \/ BeginQueue(p) \/ RecordSent(p) \/ CheckReply(p) \/ FollowUp(p)
      BY <2>5 DEF BeginQueue, RecordSent, CheckReply, FollowUp, Transit, LeavesHistory
    <2>6. CASE AdvanceNothing(p) \/ BeginSend(p)
      BY <2>6 DEF AdvanceNothing, BeginSend, Finish, LeavesHistory
    <2>. QED
      BY <1>2, <2>1, <2>2, <2>3, <2>4, <2>5, <2>6 DEF Advance
  <1>3. CASE Control(p)
    <2>1. ASSUME NEW w \in Workflows, NEW c \in Controls, Request(p, w, c)
          PROVE  LeavesHistory(p)
      BY <2>1 DEF Request, Allowed, LeavesHistory
    <2>2. ASSUME NEW w \in Workflows, NEW m \in Replies, ReplyArrives(p, w, m)
          PROVE  LeavesHistory(p)
      BY <2>2 DEF ReplyArrives, LeavesHistory
    <2>3. CASE ClaimReply(p)
      BY <2>3 DEF ClaimReply, LeavesHistory
    <2>4. CASE \/ Cancel(p) \/ ForceComplete(p) \/ Pause(p) \/ Resume(p)
               \/ ForceRetry(p) \/ StopForReply(p)
      BY <2>4 DEF Cancel, ForceComplete, Pause, Resume, ForceRetry, StopForReply,
         SaveAndFinish, Finish, LeavesHistory
    <2>. QED
      BY <1>3, <2>1, <2>2, <2>3, <2>4 DEF Control
  <1>4. CASE Recovery(p) \/ Crash(p)
    BY <1>4 DEF Recovery, Restart, RecoverOne, EndRecover, Crash, LeavesHistory
  <1>. QED
    BY <1>1, <1>2, <1>3, <1>4

LEMMA AcceptCounts ==
  ASSUME TypeOK, NEW w \in Workflows, NEW i \in Steps, Accept(w, i)
  PROVE  /\ \A v \in Workflows, j \in Steps :
              /\ v # w \/ j # i => accepted'[v][j] = accepted[v][j]
              /\ accepted'[v][j] >= accepted[v][j]
         /\ MaxSends > 0 => accepted'[w][i] > 0
         /\ accepted[w][i] = 0 => accepted'[w][i] < 2
  BY WorkflowAssumption DEF Accept, TypeOK

-----------------------------------------------------------------------------
(* What the history adds: a step marked sent in a row or a copy was        *)
(* accepted, and so was the step a process is about to mark.               *)
Delivered(w) == {i \in Steps : accepted[w][i] > 0}
Deliveries ==
    \A w \in Workflows :
        /\ SentOf(row[w]) \subseteq Delivered(w)
        /\ \A p \in Processes :
              /\ SentOf(mem[p][w]) \subseteq Delivered(w)
              /\ at[p] = w /\ pc[p] = "accepted" => mem[p][w].cur \in Delivered(w)

(* As long as nothing has gone wrong with a workflow: an accepted step is  *)
(* marked sent, or being sent, or the workflow is over; only one process   *)
(* sends it, and what it sends or failed to send was not accepted before.  *)
Clean(w) == marks[w] \cap {"lost", "requeued", "ambiguous"} = {}
Sending(p, w) == at[p] = w /\ pc[p] \in SendLabels
Accounted(w) ==
    \A i \in Steps :
        /\ accepted[w][i] < 2
        /\ accepted[w][i] > 0 =>
              \/ i \in SentOf(row[w])
              \/ row[w].state = "SENDING" /\ row[w].cur = i
              \/ row[w].state \in Terminal
Sender(p, w) ==
    /\ \/ row[w].state = "SENDING" /\ w \notin stale[p]
       \/ row[w].state \in Terminal
    /\ pc[p] # "accepted" => accepted[w][mem[p][w].cur] = 0
    /\ \A q \in Processes : Sending(q, w) => p = q
CleanSends ==
    \A w \in Workflows : Clean(w) =>
        /\ Accounted(w)
        /\ \A p \in Processes : Sending(p, w) => Sender(p, w)

LEMMA SentOfRows ==
  ASSUME NEW r \in Row
  PROVE  /\ SentOf(BlankRow) = {}
         /\ SentOf(WithStep(r, "sending")) \subseteq SentOf(r)
         /\ SentOf(Aged(r)) = SentOf(r)
         /\ RowForm(r) /\ r.state = "SENDING" =>
               SentOf(WithStep(r, "sending")) = SentOf(r)
  BY DEF SentOf, BlankRow, NewRow, WithStep, Aged, Row, Steps, RowForm

LEMMA DeliveriesStep ==
  ASSUME MaxSends > 0, IInv, Deliveries, [Next]_vars
  PROVE  Deliveries'
  <1>. USE DEF IInv
  <1>0. IInv'
    BY StepIInv
  <1>1. ASSUME NEW p \in Processes,
               Tick(p) \/ Advance(p) \/ Control(p) \/ Recovery(p) \/ Crash(p)
        PROVE  Deliveries'
    <2>1. \A v \in Workflows : Delivered(v) \subseteq Delivered(v)'
      <3>1. Accepts(p) => \A v \in Workflows, j \in Steps : accepted'[v][j] >= accepted[v][j]
        BY AcceptCounts, FinishType DEF Accepts, Row
      <3>2. \A v \in Workflows, j \in Steps : accepted[v][j] \in Nat /\ accepted'[v][j] \in Nat
        BY <1>0, WorkflowAssumption DEF TypeOK
      <3>. QED
        BY <1>1, <3>1, <3>2, AcceptSteps DEF LeavesHistory, Delivered
    <2>2. CASE WritesSomething(p)
      <3>1. PICK w \in Workflows, why \in SUBSET Marks, r \in Row : Writes(p, w, r, why)
        BY <2>2 DEF WritesSomething
      <3>2. SentOf(r) \subseteq Delivered(w)
        BY <3>1 DEF Writes, Legal, Deliveries, SendLabels
      <3>3. row' = [row EXCEPT ![w] = r] /\ UNCHANGED <<at, accepted>>
        BY <3>1 DEF Writes, Save
      <3>4. \A v \in Workflows : SentOf(row'[v]) \subseteq Delivered(v)
        BY <3>2, <3>3 DEF Deliveries, TypeOK
      <3>5. SentOf(Stored(p, w)') \subseteq SentOf(r)
        BY <3>3, SentOfRows DEF Stored, TypeOK
      <3>6. \A v \in Workflows : SentOf(mem'[p][v]) \subseteq Delivered(v)
        BY <3>1, <3>2, <3>5, SentOfRows DEF Writes, Deliveries
      <3>7. pc'[p] # "accepted"
        BY <3>1 DEF Writes, SendLabels
      <3>8. \A q \in Processes \ {p} : mem'[q] = mem[q] /\ pc'[q] = pc[q]
        BY <3>1 DEF Writes, Alone
      <3>9. Delivered(w)' = Delivered(w) /\ \A v \in Workflows : Delivered(v)' = Delivered(v)
        BY <3>3 DEF Delivered
      <3>. QED
        BY <3>3, <3>4, <3>6, <3>7, <3>8, <3>9 DEF Deliveries
    <2>3. CASE Reads(p)
      <3>1. \A q \in Processes \ {p} : mem'[q] = mem[q] /\ pc'[q] = pc[q] /\ at'[q] = at[q]
        BY <2>3 DEF Reads, Alone
      <3>2. row' = row /\ \A v \in Workflows : mem'[p][v] \in {mem[p][v], row[v], BlankRow}
        BY <2>3 DEF Reads
      <3>3. ASSUME NEW v \in Workflows, at'[p] = v, pc'[p] = "accepted"
            PROVE  mem'[p][v].cur \in Delivered(v)'
        <4>1. CASE Accepts(p)
          <5>1. at[p] = v /\ mem'[p][v] = Copy(p) /\ Copy(p).cur \in Steps /\ Accept(v, Copy(p).cur)
            BY <3>3, <4>1, FinishType DEF Accepts, Copy, Row
          <5>. QED
            BY <5>1, AcceptCounts DEF Delivered
        <4>2. CASE LeavesHistory(p)
          BY <2>1, <3>3, <4>2 DEF LeavesHistory, Deliveries
        <4>. QED
          BY <1>1, <4>1, <4>2, AcceptSteps
      <3>4. \A v \in Workflows : SentOf(mem'[p][v]) \subseteq Delivered(v)
        BY <3>2, SentOfRows DEF Deliveries, TypeOK
      <3>. QED
        BY <2>1, <3>1, <3>2, <3>3, <3>4 DEF Deliveries
    <2>. QED
      BY <1>1, <2>2, <2>3, ProcessStep
  <1>2. ASSUME NEW w \in Workflows, Expire(w) PROVE Deliveries'
    BY <1>2 DEF Expire, local, Deliveries, Delivered
  <1>3. ASSUME NEW w \in Workflows, TimePasses(w) PROVE Deliveries'
    <2>1. /\ \A v \in Workflows : SentOf(row'[v]) = SentOf(row[v])
          /\ \A q \in Processes, v \in Workflows :
                SentOf(mem'[q][v]) = SentOf(mem[q][v]) /\ mem'[q][v].cur = mem[q][v].cur
      <3>1. row' = [row EXCEPT ![w] = Aged(@)]
            /\ \A q \in Processes : mem'[q] = [mem[q] EXCEPT ![w] = Aged(@)]
        BY <1>3 DEF TimePasses
      <3>2. \A r \in Row : SentOf(Aged(r)) = SentOf(r) /\ Aged(r).cur = r.cur
        BY SentOfRows DEF Aged, Row
      <3>3. \A v \in Workflows : row'[v] = IF v = w THEN Aged(row[v]) ELSE row[v]
        BY <3>1 DEF TypeOK
      <3>4. \A q \in Processes, v \in Workflows :
               mem'[q][v] = IF v = w THEN Aged(mem[q][v]) ELSE mem[q][v]
        <4>. TAKE q \in Processes, v \in Workflows
        <4>1. mem'[q] = [mem[q] EXCEPT ![w] = Aged(@)] /\ mem[q] \in [Workflows -> Row]
          BY <3>1 DEF TypeOK
        <4>. QED
          BY <4>1
      <3>5. /\ \A v \in Workflows : row[v] \in Row
            /\ \A q \in Processes, v \in Workflows : mem[q][v] \in Row
        BY DEF TypeOK
      <3>. QED
        BY <3>2, <3>3, <3>4, <3>5
    <2>2. UNCHANGED <<pc, at, accepted>>
      BY <1>3 DEF TimePasses
    <2>. QED
      BY <2>1, <2>2 DEF Deliveries, Delivered
  <1>4. CASE UNCHANGED vars
    BY <1>4 DEF vars, Deliveries, Delivered
  <1>. QED
    BY <1>1, <1>2, <1>3, <1>4 DEF Next, Environment

LEMMA OrderStep ==
  ASSUME MaxSends > 0, IInv, Deliveries, SequenceOrder, [Next]_vars
  PROVE  SequenceOrder'
  <1>. USE DEF IInv
  <1>1. CASE accepted' = accepted
    BY <1>1 DEF SequenceOrder
  <1>2. ASSUME NEW p \in Processes, Accepts(p)
        PROVE  SequenceOrder'
    <2>. DEFINE u == at[p]
                k == Copy(p).cur
    <2>1. u \in Workflows /\ k \in Steps /\ Accept(u, k)
      BY <1>2, FinishType DEF Accepts, Row
    <2>2. \A i \in Steps : i < k => accepted[u][i] > 0
      <3>1. \A i \in Steps : i < k => i \in SentOf(mem[p][u])
        BY DEF Forms, RowForm, SentOf, Copy, TypeOK
      <3>. QED
        BY <2>1, <3>1 DEF Deliveries, Delivered
    <2>3. ASSUME NEW w \in Workflows, NEW i \in Steps, NEW j \in Steps, i < j,
                 accepted'[w][j] > 0
          PROVE  accepted'[w][i] > 0
      <3>1. \/ accepted[w][j] > 0
            \/ w = u /\ j = k
        BY <2>1, <2>3, AcceptCounts
      <3>2. accepted[w][i] > 0
        BY <2>2, <2>3, <3>1 DEF SequenceOrder
      <3>3. accepted'[w][i] >= accepted[w][i]
        BY <2>1, AcceptCounts
      <3>4. accepted[w][i] \in Nat /\ accepted'[w][i] \in Nat
        BY StepIInv, WorkflowAssumption DEF TypeOK
      <3>. QED
        BY <3>2, <3>3, <3>4
    <2>. QED
      BY <2>3 DEF SequenceOrder
  <1>3. ASSUME NEW p \in Processes,
               Tick(p) \/ Advance(p) \/ Control(p) \/ Recovery(p) \/ Crash(p)
        PROVE  SequenceOrder'
    BY <1>1, <1>2, <1>3, AcceptSteps DEF LeavesHistory
  <1>4. CASE Environment \/ UNCHANGED vars
    <2>1. accepted' = accepted
      BY <1>4 DEF Environment, Expire, TimePasses, vars
    <2>. QED
      BY <1>1, <2>1
  <1>. QED
    BY <1>3, <1>4 DEF Next

LEMMA DeliveryInvariance ==
  ASSUME MaxSends > 0 PROVE Spec => [](IInv /\ Deliveries /\ SequenceOrder)
  <1>1. Init => Deliveries /\ SequenceOrder
    <2>. SUFFICES ASSUME Init PROVE Deliveries /\ SequenceOrder
      OBVIOUS
    <2>1. SentOf(NewRow("later")) = {} /\ SentOf(NewRow("due")) = {}
      BY DEF SentOf, NewRow
    <2>2. Deliveries
      BY <2>1 DEF Init, Deliveries, BlankRow
    <2>3. SequenceOrder
      BY DEF Init, SequenceOrder
    <2>. QED
      BY <2>2, <2>3
  <1>2. IInv /\ Deliveries /\ SequenceOrder /\ [Next]_vars
            => (IInv /\ Deliveries /\ SequenceOrder)'
    BY StepIInv, DeliveriesStep, OrderStep
  <1>. QED
    BY <1>1, <1>2, InitIInv, PTL DEF Spec

(* No follow-up is accepted before the email it follows, whatever ticks,   *)
(* requests, crashes and lost updates come together.                       *)
THEOREM EmailsInOrder == ASSUME MaxSends > 0 PROVE Spec => []SequenceOrder
  BY DeliveryInvariance, PTL

(* A stored row never claims what did not happen.                          *)
THEOREM RowsTruthful == ASSUME MaxSends > 0 PROVE Spec => []RowIsTruthful
  <1>1. IInv /\ Deliveries => RowIsTruthful
    BY DEF IInv, Forms, RowForm, Deliveries, SentOf, Delivered, RowIsTruthful
  <1>. QED
    BY <1>1, DeliveryInvariance, PTL

-----------------------------------------------------------------------------
(* No unexplained second send.                                             *)

LEMMA CleanSendsWrite ==
  ASSUME IInv, CleanSends, NEW p \in Processes, WritesSomething(p)
  PROVE  CleanSends'
  <1>. USE DEF IInv
  <1>1. PICK w \in Workflows, why \in SUBSET Marks, r \in Row : Writes(p, w, r, why)
    BY DEF WritesSomething
  <1>2. /\ row' = [row EXCEPT ![w] = r] /\ UNCHANGED <<at, accepted>>
        /\ \A q \in Processes : stale'[q] =
              IF q = p THEN stale[q] \ {w}
              ELSE IF w \in Copies(q) THEN stale[q] \cup {w} ELSE stale[q]
        /\ \A v \in Workflows : v # w => marks'[v] = marks[v]
        /\ marks'[w] = marks[w] \cup why \cup (IF w \in stale[p] THEN {"lost"} ELSE {})
                        \cup (IF Ticking(p, w) THEN {} ELSE {"unlocked"})
    BY <1>1 DEF Writes, Save, TypeOK
  <1>3. \A q \in Processes \ {p} : pc'[q] = pc[q] /\ mem'[q] = mem[q]
    BY <1>1 DEF Writes, Alone
  <1>4. ASSUME NEW v \in Workflows, v # w, Clean(v)'
        PROVE  /\ Accounted(v)'
               /\ \A q \in Processes : Sending(q, v)' => Sender(q, v)'
    <2>1. Clean(v) /\ row'[v] = row[v]
      BY <1>2, <1>4 DEF Clean, TypeOK
    <2>2. Accounted(v)'
      BY <1>2, <2>1 DEF CleanSends, Accounted
    <2>3. ASSUME NEW q \in Processes, Sending(q, v)'
          PROVE  q # p /\ Sending(q, v)
      BY <1>1, <1>2, <1>3, <1>4, <2>3 DEF Writes, Sending
    <2>4. ASSUME NEW q \in Processes, Sending(q, v)' PROVE Sender(q, v)'
      <3>1. q # p /\ Sender(q, v)
        BY <2>1, <2>3, <2>4 DEF CleanSends
      <3>. QED
        BY <1>2, <1>3, <1>4, <2>1, <2>3, <3>1 DEF Sender
    <2>. QED
      BY <2>2, <2>4
  <1>5. ASSUME Clean(w)'
        PROVE  /\ Accounted(w)'
               /\ \A q \in Processes : Sending(q, w)' => Sender(q, w)'
    <2>1. Clean(w) /\ w \notin stale[p] /\ "requeued" \notin why
      BY <1>2, <1>5 DEF Clean
    <2>. DEFINE c == mem[p][w]
    <2>2. c = Stored(p, w) /\ c.state = row[w].state /\ c.cur = row[w].cur
      <3>1. c = Stored(p, w)
        BY <1>1, <2>1 DEF Writes, Fresh
      <3>. QED
        BY <3>1 DEF Stored, WithStep, TypeOK, Row
    <2>3. Legal(pc[p], c, r, why) /\ c.state \notin Terminal
      BY <1>1 DEF Writes, Legal
    <2>4. pc[p] \in SendLabels => Sending(p, w) /\ c.state = "SENDING"
      BY <1>1 DEF Writes, Sending, Shape, ShapeOf, ShapeAt, Copy
    <2>5. SentOf(row[w]) = SentOf(c)
      <3>1. row[w] \in Row /\ RowForm(row[w])
        BY DEF TypeOK, Forms
      <3>. QED
        BY <2>2, <2>4, <3>1, SentOfRows DEF Stored
    <2>6. row'[w] = r
      BY <1>2 DEF TypeOK
    <2>7. Accounted(w)'
      <3>0. Accounted(w) /\ accepted' = accepted
        BY <1>2, <2>1 DEF CleanSends
      <3>1. ASSUME NEW i \in Steps, accepted[w][i] > 0, r.state \notin Terminal
            PROVE  i \in SentOf(r) \/ (r.state = "SENDING" /\ r.cur = i)
        <4>1. i \in SentOf(row[w]) \/ (c.state = "SENDING" /\ c.cur = i)
          BY <2>2, <2>3, <3>0, <3>1 DEF Accounted
        <4>2. CASE i \in SentOf(row[w])
          BY <2>3, <2>5, <4>2 DEF Legal
        <4>3. CASE c.state = "SENDING" /\ c.cur = i
          <5>1. pc[p] \in SendLabels
            BY <2>1, <2>3, <3>1, <4>3 DEF Legal
          <5>2. pc[p] = "accepted"
            BY <2>1, <2>4, <3>1, <4>3, <5>1 DEF CleanSends, Sender
          <5>. QED
            BY <2>3, <4>3, <5>2 DEF Legal
        <4>. QED
          BY <4>1, <4>2, <4>3
      <3>2. \A i \in Steps : accepted[w][i] < 2
        BY <3>0 DEF Accounted
      <3>3. ASSUME NEW i \in Steps
            PROVE  /\ accepted'[w][i] < 2
                   /\ accepted'[w][i] > 0 =>
                         \/ i \in SentOf(row'[w])
                         \/ row'[w].state = "SENDING" /\ row'[w].cur = i
                         \/ row'[w].state \in Terminal
        BY <2>6, <3>0, <3>1, <3>2
      <3>. QED
        BY <3>3 DEF Accounted
    <2>8. ASSUME NEW q \in Processes, q # p, Sending(q, w)'
          PROVE  r.state \in Terminal
      <3>1. Sending(q, w) /\ Sender(q, w)
        BY <1>2, <1>3, <2>1, <2>8 DEF Sending, CleanSends
      <3>2. c.state = "SENDING" /\ ~Sending(p, w)
        BY <2>2, <2>3, <2>8, <3>1 DEF Sender
      <3>. QED
        BY <2>1, <2>3, <2>4, <3>2 DEF Legal
    <2>9. ASSUME NEW q \in Processes, q # p, Sending(q, w)'
          PROVE  Sender(q, w)'
      <3>1. Sending(q, w) /\ Sender(q, w)
        BY <1>2, <1>3, <2>1, <2>9 DEF Sending, CleanSends
      <3>2. \A q2 \in Processes : Sending(q2, w)' => q2 # p
        BY <1>1, <2>8, <2>9 DEF Writes, Sending, Terminal
      <3>3. \A q2 \in Processes : Sending(q2, w)' => q = q2
        BY <1>2, <1>3, <3>1, <3>2 DEF Sender, Sending
      <3>. QED
        BY <1>2, <1>3, <2>6, <2>8, <2>9, <3>1, <3>3 DEF Sender
    <2>10. ASSUME Sending(p, w)' PROVE Sender(p, w)'
      <3>1. r.state = "SENDING" /\ c.state = "QUEUED" /\ r.cur = c.cur
        BY <1>1, <2>3, <2>10 DEF Writes, Sending, Legal
      <3>2. w \in Copies(p)' /\ mem'[p][w] = Stored(p, w)'
        BY <1>1, <1>2, <2>10 DEF Writes, Sending, SendLabels, Copies
      <3>3. mem'[p][w].cur = r.cur
        BY <2>6, <3>2 DEF Stored, WithStep, Row
      <3>4. r.cur \in Steps /\ r.cur \notin SentOf(row[w])
        <4>1. RowForm(row[w])
          BY DEF Forms
        <4>. QED
          BY <2>2, <3>1, <4>1 DEF RowForm, SentOf, Row
      <3>5. accepted[w][r.cur] = 0
        <4>1. ~(accepted[w][r.cur] > 0)
          BY <2>1, <2>2, <3>1, <3>4 DEF CleanSends, Accounted, Terminal
        <4>2. accepted[w][r.cur] \in Nat
          BY <3>4, WorkflowAssumption DEF TypeOK
        <4>. QED
          BY <4>1, <4>2
      <3>6. \A q \in Processes : Sending(q, w)' => p = q
        BY <2>8, <3>1 DEF Terminal
      <3>. QED
        BY <1>2, <2>6, <3>1, <3>3, <3>5, <3>6 DEF Sender
    <2>. QED
      BY <2>7, <2>9, <2>10
  <1>. QED
    BY <1>4, <1>5 DEF CleanSends

LEMMA CleanSendsRead ==
  ASSUME IInv, TypeOK', CleanSends, NEW p \in Processes, Reads(p),
         Accepts(p) \/ LeavesHistory(p)
  PROVE  CleanSends'
  <1>. USE DEF IInv
  <1>1. /\ row' = row
        /\ \A v \in Workflows : Clean(v)' => Clean(v)
        /\ \A q \in Processes \ {p} :
              /\ pc'[q] = pc[q] /\ at'[q] = at[q] /\ mem'[q] = mem[q]
              /\ stale'[q] = stale[q]
        /\ pc'[p] \in SendLabels => pc[p] = "sending" /\ UNCHANGED <<at, mem, stale>>
    BY DEF Reads, Alone, Clean
  <1>2. \A q \in Processes, v \in Workflows : Sending(q, v)' => Sending(q, v)
    BY <1>1 DEF Sending, SendLabels
  <1>3. ASSUME NEW v \in Workflows, Clean(v)', NEW q \in Processes, Sending(q, v)'
        PROVE  /\ Sender(q, v)
               /\ \/ row'[v].state = "SENDING" /\ v \notin stale'[q]
                  \/ row'[v].state \in Terminal
               /\ \A q2 \in Processes : Sending(q2, v)' => q = q2
               /\ mem'[q][v] = mem[q][v]
    <2>1. Sender(q, v)
      BY <1>1, <1>2, <1>3 DEF CleanSends
    <2>2. mem'[q] = mem[q] /\ stale'[q] = stale[q]
      BY <1>1, <1>3 DEF Sending
    <2>. QED
      BY <1>1, <1>2, <2>1, <2>2 DEF Sender
  <1>4. CASE LeavesHistory(p)
    <2>1. ASSUME NEW v \in Workflows, Clean(v)' PROVE Accounted(v)'
      BY <1>1, <1>4, <2>1 DEF CleanSends, Accounted, LeavesHistory
    <2>2. ASSUME NEW v \in Workflows, Clean(v)', NEW q \in Processes, Sending(q, v)'
          PROVE  Sender(q, v)'
      <3>1. pc'[q] # "accepted" => accepted'[v][mem'[q][v].cur] = 0
        BY <1>1, <1>3, <1>4, <2>2 DEF Sender, LeavesHistory, Sending
      <3>. QED
        BY <1>3, <2>2, <3>1 DEF Sender
    <2>. QED
      BY <2>1, <2>2 DEF CleanSends
  <1>5. CASE Accepts(p)
    <2>. DEFINE u == at[p]
                k == Copy(p).cur
    <2>1. /\ u \in Workflows /\ k \in Steps /\ Accept(u, k)
          /\ Sending(p, u) /\ mem[p][u].cur = k
      BY <1>5, FinishType DEF Accepts, Row, Sending, SendLabels, Copy
    <2>2. ASSUME NEW v \in Workflows, Clean(v)' PROVE Accounted(v)'
      <3>1. CASE v # u
        BY <1>1, <2>1, <2>2, <3>1, AcceptCounts DEF CleanSends, Accounted
      <3>2. CASE v = u
        <4>1. Sender(p, u) /\ Accounted(u)
          BY <1>1, <2>1, <2>2, <3>2 DEF CleanSends
        <4>2. accepted[u][k] = 0
          BY <1>5, <2>1, <4>1 DEF Sender, Accepts
        <4>3. u \notin stale[p] => row[u].cur = k
          <5>1. u \in Copies(p)
            BY <1>5 DEF Accepts, Copies
          <5>2. u \notin stale[p] => mem[p][u] = WithStep(row[u], "sending")
            BY <1>5, <2>1, <5>1 DEF Fresh, Stored, Accepts, SendLabels
          <5>3. WithStep(row[u], "sending").cur = row[u].cur
            BY <2>1 DEF WithStep, TypeOK, Row
          <5>. QED
            BY <2>1, <5>2, <5>3
        <4>4. /\ \A i \in Steps : i # k => accepted'[u][i] = accepted[u][i]
              /\ accepted'[u][k] < 2
          BY <2>1, <4>2, AcceptCounts
        <4>5. \/ row[u].state = "SENDING" /\ row[u].cur = k
              \/ row[u].state \in Terminal
          BY <4>1, <4>3 DEF Sender
        <4>. QED
          BY <1>1, <3>2, <4>1, <4>4, <4>5 DEF Accounted
      <3>. QED
        BY <3>1, <3>2
    <2>3. ASSUME NEW v \in Workflows, Clean(v)', NEW q \in Processes, Sending(q, v)'
          PROVE  Sender(q, v)'
      <3>1. pc'[q] # "accepted" => accepted'[v][mem'[q][v].cur] = 0
        <4>1. CASE q = p
          BY <1>5, <2>3, <4>1 DEF Accepts, Sending, Clean
        <4>2. CASE q # p
          <5>1. v # u
            BY <1>2, <1>3, <2>1, <2>3, <4>2 DEF Sender
          <5>2. mem[q][v].cur \in Steps /\ mem'[q] = mem[q] /\ pc'[q] = pc[q]
            BY <1>1, <2>3, <4>2 DEF TypeOK, Row
          <5>3. accepted'[v][mem[q][v].cur] = accepted[v][mem[q][v].cur]
            BY <2>1, <5>1, <5>2, AcceptCounts
          <5>. QED
            BY <1>3, <2>3, <5>2, <5>3 DEF Sender
        <4>. QED
          BY <4>1, <4>2
      <3>. QED
        BY <1>3, <2>3, <3>1 DEF Sender
    <2>. QED
      BY <2>2, <2>3 DEF CleanSends
  <1>. QED
    BY <1>4, <1>5

LEMMA CleanSendsStep ==
  ASSUME IInv, CleanSends, [Next]_vars
  PROVE  CleanSends'
  <1>. USE DEF IInv
  <1>0. TypeOK'
    BY TypeStep
  <1>1. ASSUME NEW p \in Processes,
               Tick(p) \/ Advance(p) \/ Control(p) \/ Recovery(p) \/ Crash(p)
        PROVE  CleanSends'
    BY <1>0, <1>1, ProcessStep, AcceptSteps, CleanSendsWrite, CleanSendsRead
  <1>2. ASSUME NEW w \in Workflows, Expire(w) PROVE CleanSends'
    <2>1. /\ UNCHANGED <<row, pc, at, mem, accepted, stale>>
          /\ \A v \in Workflows : Clean(v)' => Clean(v)
      BY <1>2 DEF Expire, local, Clean, TypeOK
    <2>. QED
      BY <2>1 DEF CleanSends, Accounted, Sender, Sending
  <1>3. ASSUME NEW w \in Workflows, TimePasses(w) PROVE CleanSends'
    <2>1. /\ UNCHANGED <<pc, at, accepted, stale, marks>>
          /\ row' = [row EXCEPT ![w] = Aged(@)]
          /\ mem' = [q \in Processes |-> [mem[q] EXCEPT ![w] = Aged(@)]]
      BY <1>3 DEF TimePasses
    <2>2. \A r \in Row : SentOf(Aged(r)) = SentOf(r) /\ Aged(r).cur = r.cur
                         /\ Aged(r).state = r.state
      BY SentOfRows DEF Aged, Row
    <2>3. ASSUME NEW v \in Workflows
          PROVE  /\ SentOf(row'[v]) = SentOf(row[v])
                 /\ row'[v].cur = row[v].cur /\ row'[v].state = row[v].state
      <3>1. row[v] \in Row /\ row'[v] = IF v = w THEN Aged(row[v]) ELSE row[v]
        BY <2>1 DEF TypeOK
      <3>. QED
        BY <2>2, <3>1
    <2>4. ASSUME NEW q \in Processes, NEW v \in Workflows
          PROVE  mem'[q][v].cur = mem[q][v].cur
      <3>1. mem[q] \in [Workflows -> Row] /\ mem'[q] = [mem[q] EXCEPT ![w] = Aged(@)]
        BY <2>1 DEF TypeOK
      <3>. QED
        BY <2>2, <3>1
    <2>5. ASSUME NEW v \in Workflows, Clean(v)
          PROVE  /\ Accounted(v)'
                 /\ \A q \in Processes : Sending(q, v)' => Sender(q, v)'
      <3>1. Accounted(v)'
        BY <2>1, <2>3, <2>5 DEF CleanSends, Accounted
      <3>2. ASSUME NEW q \in Processes, Sending(q, v)' PROVE Sender(q, v)'
        <4>1. Sender(q, v)
          BY <2>1, <2>5, <3>2 DEF CleanSends, Sending
        <4>. QED
          BY <2>1, <2>3, <2>4, <4>1 DEF Sender, Sending
      <3>. QED
        BY <3>1, <3>2
    <2>. QED
      BY <2>1, <2>5 DEF CleanSends, Clean
  <1>4. CASE UNCHANGED vars
    BY <1>4 DEF vars, CleanSends, Accounted, Sender, Sending, Clean
  <1>. QED
    BY <1>1, <1>2, <1>3, <1>4 DEF Next, Environment

(* Only a lost update, a re-queued row or a lost answer lets the provider  *)
(* accept an email twice.                                                  *)
THEOREM ResendsExplained == Spec => []NoUnexplainedResend
  <1>1. Init => CleanSends
    BY DEF Init, CleanSends, Accounted, Sending, SendLabels
  <1>2. IInv /\ CleanSends /\ [Next]_vars => (IInv /\ CleanSends)'
    BY StepIInv, CleanSendsStep
  <1>3. IInv /\ CleanSends => NoUnexplainedResend
    <2>. SUFFICES ASSUME IInv, CleanSends, NEW w \in Workflows, NEW i \in Steps,
                         accepted[w][i] > 1, Clean(w)
                  PROVE  FALSE
      BY DEF NoUnexplainedResend, Clean
    <2>1. accepted[w][i] < 2 /\ accepted[w][i] \in Nat
      BY WorkflowAssumption DEF CleanSends, Accounted, IInv, TypeOK
    <2>. QED
      BY <2>1
  <1>. QED
    BY <1>1, <1>2, <1>3, InitIInv, PTL DEF Spec

-----------------------------------------------------------------------------
(* Claimed replies.                                                        *)

(* A copy of a workflow that is over is right, or an update was lost.      *)
EndsKnown ==
    \A p \in Processes, w \in Workflows :
        w \in Copies(p) /\ mem[p][w].state \in Terminal
            => row[w].state \in Terminal \/ "lost" \in marks[w]

LEMMA MarksGrow ==
  ASSUME TypeOK, Shape, Forms, [Next]_vars, NEW v \in Workflows
  PROVE  marks[v] \subseteq marks'[v]
  <1>1. ASSUME NEW p \in Processes,
               Tick(p) \/ Advance(p) \/ Control(p) \/ Recovery(p) \/ Crash(p)
        PROVE  marks[v] \subseteq marks'[v]
    <2>1. CASE Reads(p)
      BY <2>1 DEF Reads
    <2>2. CASE WritesSomething(p)
      BY <2>2 DEF WritesSomething, Writes, Save, TypeOK
    <2>. QED
      BY <1>1, <2>1, <2>2, ProcessStep
  <1>2. CASE Environment \/ UNCHANGED vars
    <2>1. ASSUME NEW w \in Workflows, Expire(w) PROVE marks[v] \subseteq marks'[v]
      BY <2>1 DEF Expire, TypeOK
    <2>2. ASSUME NEW w \in Workflows, TimePasses(w) PROVE marks'[v] = marks[v]
      BY <2>2 DEF TimePasses
    <2>. QED
      BY <1>2, <2>1, <2>2 DEF Environment, vars
  <1>. QED
    BY <1>1, <1>2 DEF Next

LEMMA EndsKnownStep ==
  ASSUME IInv, EndsKnown, [Next]_vars
  PROVE  EndsKnown'
  <1>. USE DEF IInv
  <1>1. ASSUME NEW v \in Workflows, row[v].state \in Terminal \/ "lost" \in marks[v]
        PROVE  row'[v].state \in Terminal \/ "lost" \in marks'[v]
    BY <1>1, TerminalStep, MarksGrow
  <1>2. ASSUME NEW p \in Processes,
               Tick(p) \/ Advance(p) \/ Control(p) \/ Recovery(p) \/ Crash(p)
        PROVE  EndsKnown'
    <2>. SUFFICES ASSUME NEW q \in Processes, NEW v \in Workflows, v \in Copies(q)',
                         mem'[q][v].state \in Terminal
                  PROVE  row'[v].state \in Terminal \/ "lost" \in marks'[v]
      BY DEF EndsKnown
    <2>1. CASE v \in Copies(q) /\ mem'[q][v] = mem[q][v]
      BY <1>1, <2>1 DEF EndsKnown
    <2>2. CASE WritesSomething(p)
      <3>1. PICK w \in Workflows, why \in SUBSET Marks, r \in Row : Writes(p, w, r, why)
        BY <2>2 DEF WritesSomething
      <3>2. CASE q # p
        BY <2>1, <3>1, <3>2 DEF Writes, Alone, Copies
      <3>3. CASE q = p /\ v # w
        BY <2>1, <3>1, <3>3 DEF Writes
      <3>4. CASE q = p /\ v = w
        <4>1. row'[w] = r /\ mem'[p][w] = Stored(p, w)'
          BY <3>1, <3>4 DEF Writes, Save, TypeOK
        <4>2. mem'[p][w].state = r.state
          BY <4>1 DEF Stored, WithStep, Row
        <4>. QED
          BY <3>4, <4>1, <4>2
      <3>. QED
        BY <3>2, <3>3, <3>4
    <2>3. CASE Reads(p)
      <3>1. CASE q # p
        BY <2>1, <2>3, <3>1 DEF Reads, Alone, Copies
      <3>2. CASE q = p
        BY <2>1, <2>3, <3>2 DEF Reads
      <3>. QED
        BY <3>1, <3>2
    <2>. QED
      BY <1>2, <2>2, <2>3, ProcessStep
  <1>3. ASSUME NEW w \in Workflows, Expire(w) PROVE EndsKnown'
    <2>1. UNCHANGED <<row, pc, at, todo, mem>>
      BY <1>3 DEF Expire, local
    <2>. QED
      BY <1>1, <2>1 DEF EndsKnown, Copies
  <1>4. ASSUME NEW w \in Workflows, TimePasses(w) PROVE EndsKnown'
    <2>. SUFFICES ASSUME NEW q \in Processes, NEW v \in Workflows, v \in Copies(q)',
                         mem'[q][v].state \in Terminal
                  PROVE  row'[v].state \in Terminal \/ "lost" \in marks'[v]
      BY DEF EndsKnown
    <2>1. v \in Copies(q)
      BY <1>4 DEF TimePasses, Copies
    <2>2. mem'[q] = [mem[q] EXCEPT ![w] = Aged(@)] /\ mem[q] \in [Workflows -> Row]
      BY <1>4 DEF TimePasses, TypeOK
    <2>3. \A r \in Row : Aged(r).state = r.state
      BY DEF Aged, Row
    <2>4. mem'[q][v].state = mem[q][v].state
      BY <2>2, <2>3
    <2>. QED
      BY <1>1, <2>1, <2>4 DEF EndsKnown
  <1>5. CASE UNCHANGED vars
    BY <1>5 DEF vars, EndsKnown, Copies
  <1>. QED
    BY <1>2, <1>3, <1>4, <1>5 DEF Next, Environment

LEMMA LedgerSteps ==
  ASSUME TypeOK, NEW p \in Processes,
         Tick(p) \/ Advance(p) \/ Control(p) \/ Recovery(p) \/ Crash(p)
  PROVE  ledger' = ledger \/ ClaimReply(p)
  <1>. USE DEF SaveAndFinish, Transit
  <1>1. CASE Tick(p)
    BY <1>1 DEF Tick, Scan, Pick, EndTick, Load, Release
  <1>2. CASE Advance(p)
    BY <1>2 DEF Advance, AdvanceNothing, AdvanceNotDue, RateLimited, BeginQueue, BeginSend,
       ProviderAccepts, ProviderRefuses, AnswerLost, RecordSent, RecordFailure,
       AfterSending, CheckReply, FollowUp, QueueNext
  <1>3. CASE Control(p)
    BY <1>3 DEF Control, Request, ReplyArrives, Cancel, ForceComplete, Pause, Resume,
       ForceRetry, StopForReply
  <1>4. CASE Recovery(p) \/ Crash(p)
    BY <1>4 DEF Recovery, Restart, RecoverOne, EndRecover, Crash
  <1>. QED
    BY <1>1, <1>2, <1>3, <1>4

LEMMA StopSteps ==
  ASSUME TypeOK, NEW p \in Processes, pc[p] = "stop",
         Tick(p) \/ Advance(p) \/ Control(p) \/ Recovery(p) \/ Crash(p)
  PROVE  row'[at[p]].state = "STOPPED" \/ "claim_lost" \in marks'[at[p]]
  <1>1. ~Tick(p)
    BY DEF Tick, Scan, Pick, EndTick, Load, Release
  <1>2. ~Advance(p)
    BY DEF Advance, AdvanceNothing, AdvanceNotDue, RateLimited, BeginQueue, BeginSend,
       ProviderAccepts, ProviderRefuses, AnswerLost, RecordSent, RecordFailure,
       AfterSending, CheckReply, FollowUp, QueueNext
  <1>3. ~Recovery(p)
    BY DEF Recovery, Restart, RecoverOne, EndRecover
  <1>4. CASE Control(p)
    <2>1. StopForReply(p)
      BY <1>4 DEF Control, Request, ReplyArrives, Cancel, ForceComplete, Pause, Resume,
         ForceRetry, ClaimReply
    <2>2. row' = [row EXCEPT ![at[p]] = [Halted(Copy(p), "STOPPED") EXCEPT !.reply = TRUE]]
      BY <2>1 DEF StopForReply, SaveAndFinish, Save
    <2>3. Halted(Copy(p), "STOPPED").state = "STOPPED"
      BY FinishType DEF Halted, Row
    <2>4. Halted(Copy(p), "STOPPED") \in Row /\ at[p] \in Workflows
      BY FinishType, RowOperators DEF States, Terminal
    <2>5. [Halted(Copy(p), "STOPPED") EXCEPT !.reply = TRUE].state = "STOPPED"
      BY <2>3, <2>4 DEF Row
    <2>. QED
      BY <2>2, <2>4, <2>5 DEF TypeOK
  <1>5. CASE Crash(p)
    BY <1>5 DEF Crash, TypeOK
  <1>. QED
    BY <1>1, <1>2, <1>3, <1>4, <1>5

LEMMA ClaimedStep ==
  ASSUME IInv, EndsKnown, ClaimedReplyStops, [Next]_vars
  PROVE  ClaimedReplyStops'
  <1>. USE DEF IInv
  <1>1. \A v \in Workflows : marks[v] \subseteq marks'[v]
    BY MarksGrow
  <1>2. ASSUME NEW w \in Workflows, NEW m \in Replies, <<w, m>> \in ledger,
               \A q \in Processes : pc[q] = "stop" /\ at[q] = w =>
                  \/ pc'[q] = "stop" /\ at'[q] = w
                  \/ row'[w].state = "STOPPED" \/ "claim_lost" \in marks'[w]
        PROVE  \/ row'[w].state \in Terminal
               \/ \E p \in Handlers : at'[p] = w /\ pc'[p] = "stop"
               \/ marks'[w] \cap {"lost", "claim_lost"} # {}
    <2>1. CASE row[w].state \in Terminal
      BY <2>1, TerminalStep
    <2>2. CASE \E p \in Handlers : at[p] = w /\ pc[p] = "stop"
      BY <1>2, <2>2 DEF Terminal, Processes
    <2>3. CASE marks[w] \cap {"lost", "claim_lost"} # {}
      BY <1>1, <2>3
    <2>. QED
      BY <1>2, <2>1, <2>2, <2>3 DEF ClaimedReplyStops
  <1>3. ASSUME NEW p \in Processes,
               Tick(p) \/ Advance(p) \/ Control(p) \/ Recovery(p) \/ Crash(p)
        PROVE  ClaimedReplyStops'
    <2>1. Alone(p)
      BY <1>3, ProcessStep DEF WritesSomething, Writes, Reads
    <2>2. ASSUME NEW w \in Workflows, NEW q \in Processes, pc[q] = "stop", at[q] = w
          PROVE  \/ pc'[q] = "stop" /\ at'[q] = w
                 \/ row'[w].state = "STOPPED" \/ "claim_lost" \in marks'[w]
      BY <1>3, <2>1, <2>2, StopSteps DEF Alone
    <2>3. CASE ledger' = ledger
      BY <1>2, <2>2, <2>3 DEF ClaimedReplyStops
    <2>4. CASE ClaimReply(p)
      <3>1. /\ pc[p] = "reply" /\ at' = at /\ UNCHANGED <<row, marks>>
            /\ ledger' \subseteq ledger \cup {<<at[p], msg[p]>>}
            /\ ledger' # ledger => ~Claimed(msg[p])
        BY <2>4 DEF ClaimReply
      <3>2. at[p] \in Copies(p) /\ p \in Handlers
        BY <3>1 DEF Copies, Shape, ShapeOf, RequestLabels, Processes
      <3>3. ASSUME ~Claimed(msg[p])
            PROVE  \/ row'[at[p]].state \in Terminal
                   \/ \E q \in Handlers : at'[q] = at[p] /\ pc'[q] = "stop"
                   \/ marks'[at[p]] \cap {"lost", "claim_lost"} # {}
        <4>1. CASE Copy(p).state \in Terminal
          BY <3>1, <3>2, <4>1 DEF EndsKnown, Copy, TypeOK
        <4>2. CASE Copy(p).state \notin Terminal
          BY <2>4, <3>1, <3>2, <3>3, <4>2 DEF ClaimReply, Goto, TypeOK
        <4>. QED
          BY <4>1, <4>2
      <3>. SUFFICES ASSUME NEW w \in Workflows, NEW m \in Replies, <<w, m>> \in ledger'
                    PROVE  \/ row'[w].state \in Terminal
                           \/ \E q \in Handlers : at'[q] = w /\ pc'[q] = "stop"
                           \/ marks'[w] \cap {"lost", "claim_lost"} # {}
        BY DEF ClaimedReplyStops
      <3>4. CASE <<w, m>> \in ledger
        BY <1>2, <2>2, <3>4
      <3>5. CASE <<w, m>> \notin ledger
        <4>1. w = at[p] /\ m = msg[p] /\ ~Claimed(msg[p])
          BY <3>1, <3>5
        <4>. QED
          BY <3>3, <3>5, <4>1
      <3>. QED
        BY <3>4, <3>5
    <2>. QED
      BY <1>3, <2>3, <2>4, LedgerSteps
  <1>4. CASE Environment \/ UNCHANGED vars
    <2>1. UNCHANGED <<ledger, pc, at>>
      BY <1>4 DEF Environment, Expire, TimePasses, vars, local
    <2>. QED
      BY <1>2, <2>1 DEF ClaimedReplyStops
  <1>. QED
    BY <1>3, <1>4 DEF Next

(* A reply that was claimed in the ledger has ended its workflow, unless   *)
(* the handler died in between or the update was lost.                     *)
THEOREM RepliesStop == Spec => []ClaimedReplyStops
  <1>1. Init => EndsKnown /\ ClaimedReplyStops
    BY DEF Init, EndsKnown, Copies, ClaimedReplyStops
  <1>2. IInv /\ EndsKnown /\ ClaimedReplyStops /\ [Next]_vars
            => (IInv /\ EndsKnown /\ ClaimedReplyStops)'
    BY StepIInv, EndsKnownStep, ClaimedStep
  <1>. QED
    BY <1>1, <1>2, InitIInv, PTL DEF Spec
=============================================================================
