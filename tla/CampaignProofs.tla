--------------------------- MODULE CampaignProofs ---------------------------
(***************************************************************************)
(* Proofs about Campaign: for any campaigns, prospects, recipients and     *)
(* request threads, and any number of launches.                            *)
(***************************************************************************)
EXTENDS Campaign, TLAPS

(***************************************************************************)
(* Types.  A thread past its load works on a row that exists.              *)
(***************************************************************************)

Labels == {"idle", "create", "save", "saving", "claim", "creating", "finishing", "event",
           "release", "control"}
Reasons == Controls \cup {"none", "create", "edit", "launch"}
Troubles == {"lost", "edited", "reset", "retaken", "relaunched", "released", "crashed"}
States == {"none", "live", "paused", "over"}

RowsTyped == row \in [Campaigns -> Row \cup {NoRow}]
WorkflowsTyped == wf \in [Workflows -> States]
JobsTyped == pc \in [Threads -> Labels] /\ job \in [Threads -> JobType]
MarksTyped == marks \in [Campaigns -> SUBSET Troubles]
CountsTyped ==
    /\ fresh \in [Campaigns -> BOOLEAN] /\ requests \in 0..MaxRequests
    /\ claims \in [Campaigns -> 0..MaxClaims] /\ stale \subseteq Threads
Loaded == \A t \in Threads : pc[t] \notin {"idle", "create"} => row[job[t].at] # NoRow
TypeInv == RowsTyped /\ WorkflowsTyped /\ JobsTyped /\ MarksTyped /\ CountsTyped /\ Loaded

(***************************************************************************)
(* The inductive invariant.                                                *)
(***************************************************************************)

Real(w) == wf[w] # "none"
Of(c) == {w \in Workflows : w[1] = c /\ Real(w)}
Spoils == {"lost", "reset", "retaken", "relaunched", "released"}
Clean(c) == marks[c] \cap Spoils = {}
GivesBack(t) == pc[t] \in {"release", "saving"} /\ job[t].control = "launch"
Launches(t, c) == job[t].at = c /\ (pc[t] \in {"creating", "finishing"} \/ GivesBack(t))

(* What a thread's job is like where it is.                                *)
JobFits(l, j) ==
    /\ l \in {"claim", "creating", "finishing", "event", "release"} => j.control = "launch"
    /\ l = "control" => j.control \in Controls
    /\ l = "save" => j.control \in Controls \cup {"edit"}
    /\ l = "saving" => j.control \in Controls \cup {"edit", "launch"}
    /\ l # "control" => j.todo = {}
    /\ l \in {"save", "saving", "control"} /\ j.control \in Controls => j.copy.status = After[j.control]
    /\ l \in {"save", "saving"} /\ j.control = "edit" =>
          j.copy.status \in {"blocked", "ready"} /\ j.before # "launched"
    /\ l \in {"release", "saving"} /\ j.control = "launch" => j.copy.status = j.before
    /\ l \in {"claim", "creating"} => Recipients(j.copy.result) # {}
    /\ l = "finishing" => j.copy.status = "launched"
    /\ l \in {"finishing", "event"} =>
          /\ j.copy.ids # {} /\ {w[3] : w \in j.copy.ids} = Recipients(j.copy.result)
JobsFit == \A t \in Threads : JobFits(pc[t], job[t])

RowsKnown == \A c \in Campaigns : row[c] # NoRow => row[c].ids \subseteq Of(c)

JobKnown(t) ==
    /\ job[t].todo \cup job[t].copy.ids \subseteq Of(job[t].at)
    /\ pc[t] \in {"finishing", "event"} => job[t].copy.ids \subseteq Made(t)
JobsKnown == \A t \in Threads : JobKnown(t)

(* The copy of a thread nobody has overtaken is the row.                   *)
CopyFresh(t) ==
    LET r == row[job[t].at]
    IN  /\ pc[t] = "saving" =>
              /\ job[t].copy.ids = r.ids
              /\ job[t].control # "edit" => job[t].copy.result = r.result
        /\ pc[t] \in {"control", "save", "saving"} =>
              /\ job[t].control \in {"pause", "resume"} => r.ids # {}
              /\ job[t].control = "cancel" =>
                    \A w \in r.ids : w \in job[t].todo \/ wf[w] = "over"
CopiesFresh == \A t \in Threads \ stale : CopyFresh(t)

(* While nothing has spoilt a campaign, one launch at a time holds its     *)
(* claim, and made every workflow the campaign has.                        *)
Sole(t, c) ==
    /\ row[c].status = "launching"
    /\ Of(c) \subseteq Made(t)
    /\ \A u \in Threads \ {t} : ~Launches(u, c)
    /\ GivesBack(t) => Made(t) = {}
    /\ pc[t] = "finishing" => job[t].copy.ids = Made(t)
Recorded(c) ==
    Of(c) # {} => row[c] # NoRow /\ (row[c].status = "launching" \/ row[c].ids # {})
SoloLaunch ==
    \A c \in Campaigns : Clean(c) =>
        /\ \A t \in Threads : Launches(t, c) => Sole(t, c)
        /\ Recorded(c)
        /\ \A v, w \in Of(c) : v[2] = w[2]

(* Every workflow is on its row or held by the launch that makes it.       *)
Held(w) == \E t \in Threads : pc[t] \in {"creating", "finishing"} /\ w \in Made(t)
Found == \A c \in Campaigns : marks[c] = {} => \A w \in Of(c) : w \in row[c].ids \/ Held(w)

Silent ==
    \A c \in Campaigns : marks[c] = {} /\ row[c] # NoRow /\ row[c].status = "cancelled" =>
        \A w \in row[c].ids : wf[w] = "over"

RowShown(c) ==
    row[c] # NoRow /\ "lost" \notin marks[c] =>
        /\ row[c].status = "launched" => row[c].ids # {}
        /\ "edited" \notin marks[c] /\ row[c].ids # {} =>
              Recipients(row[c].result) = {w[3] : w \in row[c].ids}
Unlaunched(t) ==
    pc[t] # "idle" /\ job[t].control = "launch" /\ "lost" \notin marks[job[t].at]
        => job[t].before # "launched"
Shown == (\A c \in Campaigns : RowShown(c)) /\ (\A t \in Threads : Unlaunched(t))

Inv ==
    /\ TypeInv /\ JobsFit /\ RowsKnown /\ JobsKnown /\ CopiesFresh
    /\ SoloLaunch /\ Found /\ Silent /\ Shown

(***************************************************************************)
(* Types                                                                   *)
(***************************************************************************)

LEMMA Bounds ==
    /\ MaxClaims \in Nat /\ MaxRequests \in Nat
    /\ 0 \in 0..MaxClaims /\ 0 \in 0..MaxRequests
    /\ NoAddress \notin Addresses /\ NoRow \notin Row
  BY CampaignAssumption, NoRowAssumption

LEMMA JobTyped ==
    ASSUME NEW c \in Campaigns, NEW control \in Reasons, NEW status \in Statuses,
           NEW result \in Results
    PROVE  Job(c, control, status, result) \in JobType
  BY Bounds DEF Job, JobType, Row, Reasons

LEMMA NothingTyped ==
    /\ Nothing \in Results /\ {"blocked", "ready", "launched", "paused", "cancelled"} \subseteq Statuses
    /\ "none" \in Reasons /\ "create" \in Reasons /\ "edit" \in Reasons /\ "launch" \in Reasons
    /\ \A k \in Controls : k \in Reasons
    /\ \A k \in Controls : After[k] \in Statuses
    /\ \A result \in Results : StatusOf(result) \in {"blocked", "ready"}
  BY DEF Nothing, Results, Statuses, Reasons, Controls, After, StatusOf

LEMMA BlankTyped ==
    ASSUME TypeInv, NEW t \in Threads
    PROVE  /\ Blank(t) \in JobType /\ Blank(t).at = job[t].at /\ Blank(t).control = "none"
           /\ Blank(t).todo = {} /\ Blank(t).launch = 0 /\ Blank(t).copy.ids = {}
<1>1. job[t].at \in Campaigns
  BY DEF TypeInv, JobsTyped, JobType
<1>2. "none" \in Reasons /\ "blocked" \in Statuses /\ Nothing \in Results
  BY NothingTyped DEF Statuses
<1>3. Blank(t) \in JobType
  BY <1>1, <1>2, JobTyped DEF Blank
<1>. QED
  BY <1>3 DEF Blank, Job

(* The job of a thread, written by one action.                             *)
Works(t, label, j) == pc' = [pc EXCEPT ![t] = label] /\ job' = [job EXCEPT ![t] = j]

LEMMA WorksTyped ==
    ASSUME JobsTyped, NEW t \in Threads, NEW label \in Labels, NEW j \in JobType, Works(t, label, j)
    PROVE  /\ JobsTyped' /\ pc'[t] = label /\ job'[t] = j
           /\ \A u \in Threads \ {t} : pc'[u] = pc[u] /\ job'[u] = job[u]
  BY DEF JobsTyped, Works

(* What every step leaves: rows, workflows and marks do not go away.       *)
Stands ==
    /\ \A c \in Campaigns : row[c] # NoRow => row'[c] # NoRow
    /\ \A w \in Workflows : /\ wf[w] # "none" => wf'[w] # "none"
                            /\ wf[w] = "over" => wf'[w] = "over"
    /\ \A c \in Campaigns : marks[c] \subseteq marks'[c]

LEMMA LoadKeeps ==
    ASSUME TypeInv, NEW t \in Threads, NEW c \in Campaigns, NEW label \in Labels,
           NEW j \in JobType, j.at = c, Load(t, c, label, j)
    PROVE  TypeInv' /\ Stands /\ Works(t, label, j)
<1>1. Works(t, label, j)
  BY DEF Load, Goto, Set, Works
<1>2. JobsTyped' /\ RowsTyped' /\ WorkflowsTyped' /\ MarksTyped'
  BY <1>1, WorksTyped DEF Load, TypeInv, RowsTyped, WorkflowsTyped, MarksTyped
<1>3. CountsTyped'
  BY Bounds DEF Load, Take, TypeInv, CountsTyped
<1>4. Loaded'
  BY <1>1, WorksTyped DEF Load, TypeInv, Loaded
<1>5. Stands
  BY DEF Load, Stands
<1>. QED
  BY <1>1, <1>2, <1>3, <1>4, <1>5 DEF TypeInv

(* What each request loads.                                                *)
EditJob(c, result) ==
    [Job(c, "edit", row[c].status, result) EXCEPT !.copy.status = StatusOf(result)]
LaunchJob(c) == Job(c, "launch", row[c].status, row[c].result)
ControlJob(c, k) ==
    [Job(c, k, row[c].status, Nothing) EXCEPT !.todo = row[c].ids, !.copy.status = After[k]]

LEMMA LoadedJobs ==
    ASSUME TypeInv, NEW c \in Campaigns, row[c] # NoRow
    PROVE  /\ row[c] \in Row
           /\ LaunchJob(c) \in JobType /\ LaunchJob(c).at = c
           /\ \A result \in Results :
                 LET j == EditJob(c, result)
                 IN /\ j \in JobType /\ j.at = c /\ j.control = "edit" /\ j.todo = {}
                    /\ j.before = row[c].status /\ j.launch = 0
                    /\ j.copy = [status |-> StatusOf(result), result |-> result, ids |-> {}]
           /\ \A k \in Controls :
                 LET j == ControlJob(c, k)
                 IN /\ j \in JobType /\ j.at = c /\ j.control = k /\ j.todo = row[c].ids
                    /\ j.before = row[c].status /\ j.launch = 0
                    /\ j.copy = [status |-> After[k], result |-> Nothing, ids |-> {}]
<1>1. row[c] \in Row /\ row[c].status \in Statuses /\ row[c].result \in Results
      /\ row[c].ids \in SUBSET Workflows
  BY DEF TypeInv, RowsTyped, Row
<1>2. LaunchJob(c) \in JobType /\ LaunchJob(c).at = c
  <2>1. "launch" \in Reasons
    BY NothingTyped
  <2>2. LaunchJob(c) \in JobType
    BY <1>1, <2>1, JobTyped DEF LaunchJob
  <2>. QED
    BY <2>2 DEF LaunchJob, Job
<1>3. ASSUME NEW result \in Results
      PROVE  LET j == EditJob(c, result)
             IN /\ j \in JobType /\ j.at = c /\ j.control = "edit" /\ j.todo = {}
                /\ j.before = row[c].status /\ j.launch = 0
                /\ j.copy = [status |-> StatusOf(result), result |-> result, ids |-> {}]
  <2>. DEFINE b == Job(c, "edit", row[c].status, result)
  <2>1. /\ b \in JobType /\ b.at = c /\ b.control = "edit" /\ b.todo = {} /\ b.launch = 0
        /\ b.before = row[c].status
        /\ b.copy = [status |-> row[c].status, result |-> result, ids |-> {}]
    <3>1. b \in JobType
      BY <1>1, JobTyped, NothingTyped
    <3>. QED
      BY <3>1 DEF Job
  <2>2. StatusOf(result) \in Statuses
    BY NothingTyped
  <2>3. EditJob(c, result) = [b EXCEPT !.copy.status = StatusOf(result)]
    BY DEF EditJob
  <2>. HIDE DEF b
  <2>. QED
    BY <2>1, <2>2, <2>3 DEF JobType, Row
<1>4. ASSUME NEW k \in Controls
      PROVE  LET j == ControlJob(c, k)
             IN /\ j \in JobType /\ j.at = c /\ j.control = k /\ j.todo = row[c].ids
                /\ j.before = row[c].status /\ j.launch = 0
                /\ j.copy = [status |-> After[k], result |-> Nothing, ids |-> {}]
  <2>. DEFINE b == Job(c, k, row[c].status, Nothing)
  <2>1. /\ b \in JobType /\ b.at = c /\ b.control = k /\ b.todo = {} /\ b.launch = 0
        /\ b.before = row[c].status
        /\ b.copy = [status |-> row[c].status, result |-> Nothing, ids |-> {}]
    <3>1. b \in JobType
      BY <1>1, JobTyped, NothingTyped
    <3>. QED
      BY <3>1 DEF Job
  <2>2. After[k] \in Statuses
    BY NothingTyped
  <2>. DEFINE d == [b EXCEPT !.todo = row[c].ids]
  <2>3. ControlJob(c, k) = [d EXCEPT !.copy.status = After[k]]
    BY DEF ControlJob, Job
  <2>. HIDE DEF b
  <2>4. /\ d \in JobType /\ d.at = c /\ d.control = k /\ d.todo = row[c].ids /\ d.launch = 0
        /\ d.before = row[c].status
        /\ d.copy = [status |-> row[c].status, result |-> Nothing, ids |-> {}]
    BY <1>1, <2>1 DEF JobType
  <2>. HIDE DEF d
  <2>. QED
    BY <2>2, <2>3, <2>4 DEF JobType, Row
<1>. QED
  BY <1>1, <1>2, <1>3, <1>4

(***************************************************************************)
(* A step of one thread that touches neither a row nor a workflow: the     *)
(* invariant stands when it stands for that thread.                        *)
(***************************************************************************)

Apart(t) == \A u \in Threads \ {t} : pc'[u] = pc[u] /\ job'[u] = job[u]
Local(t) ==
    /\ UNCHANGED <<row, wf>> /\ Apart(t)
    /\ stale \ {t} \subseteq stale'
    /\ \A c \in Campaigns : marks[c] \subseteq marks'[c]

(* What t holds, it held before, or it says that it gave it up.            *)
Lets(t) ==
    /\ \A c \in Campaigns : Launches(t, c)' /\ Clean(c)' =>
          /\ Launches(t, c) /\ Made(t)' = Made(t)
          /\ GivesBack(t)' => Made(t)' = {}
          /\ pc'[t] = "finishing" => job'[t].copy.ids = Made(t)'
    /\ pc[t] \in {"creating", "finishing"} =>
          \/ pc'[t] \in {"creating", "finishing"} /\ Made(t)' = Made(t)
          \/ \A w \in Made(t) : marks'[w[1]] # {}

LEMMA LocalKeeps ==
    ASSUME Inv, TypeInv', NEW t \in Threads, Local(t), Lets(t),
           JobFits(pc'[t], job'[t]), JobKnown(t)', t \notin stale' => CopyFresh(t)', Unlaunched(t)'
    PROVE  Inv'
<1>1. /\ \A c \in Campaigns : Of(c)' = Of(c) /\ (Clean(c)' => Clean(c))
      /\ \A c \in Campaigns : marks'[c] = {} => marks[c] = {}
  BY DEF Local, Of, Real, Clean
<1>2. ASSUME NEW u \in Threads \ {t}
      PROVE  /\ pc'[u] = pc[u] /\ job'[u] = job[u] /\ Made(u)' = Made(u)
             /\ \A c \in Campaigns : Launches(u, c)' <=> Launches(u, c)
             /\ GivesBack(u)' <=> GivesBack(u)
             /\ u \notin stale' => u \notin stale
             /\ job[u].at \in Campaigns
  BY DEF Local, Apart, Made, Launches, GivesBack, Inv, TypeInv, JobsTyped, JobType
<1>3. JobsFit'
  BY <1>2 DEF Inv, JobsFit
<1>4. RowsKnown'
  BY <1>1 DEF Inv, RowsKnown, Local
<1>5. JobsKnown'
  <2>1. ASSUME NEW u \in Threads \ {t} PROVE JobKnown(u)'
    BY <1>1, <1>2 DEF Inv, JobsKnown, JobKnown
  <2>. QED
    BY <2>1 DEF JobsKnown
<1>6. CopiesFresh'
  <2>1. ASSUME NEW u \in Threads \ {t}, u \notin stale' PROVE CopyFresh(u)'
    <3>1. CopyFresh(u)
      BY <1>2, <2>1 DEF Inv, CopiesFresh
    <3>. QED
      BY <1>2, <3>1 DEF CopyFresh, Local
  <2>. QED
    BY <2>1 DEF CopiesFresh
<1>7. SoloLaunch'
  <2>. SUFFICES ASSUME NEW c \in Campaigns, Clean(c)'
                PROVE  /\ \A u \in Threads : Launches(u, c)' => Sole(u, c)'
                       /\ Recorded(c)' /\ \A v, w \in Of(c)' : v[2] = w[2]
    BY DEF SoloLaunch
  <2>1. Clean(c) /\ Of(c)' = Of(c) /\ row' = row
    BY <1>1 DEF Local
  <2>2. /\ \A u \in Threads : Launches(u, c) => Sole(u, c)
        /\ Recorded(c) /\ \A v, w \in Of(c) : v[2] = w[2]
    BY <2>1 DEF Inv, SoloLaunch
  <2>3. ASSUME NEW u \in Threads, Launches(u, c)' PROVE Sole(u, c)'
    <3>1. Launches(u, c) /\ Made(u)' = Made(u) /\ (GivesBack(u)' => Made(u)' = {})
          /\ (pc'[u] = "finishing" => job'[u].copy.ids = Made(u)')
      <4>1. CASE u = t
        BY <2>3, <4>1 DEF Lets
      <4>2. CASE u # t
        <5>1. Launches(u, c) /\ Made(u)' = Made(u) /\ (GivesBack(u)' => GivesBack(u))
              /\ pc'[u] = pc[u] /\ job'[u] = job[u]
          BY <1>2, <2>3, <4>2
        <5>. QED
          BY <2>2, <5>1 DEF Sole
      <4>. QED
        BY <4>1, <4>2
    <3>2. Sole(u, c)
      BY <2>2, <3>1
    <3>3. ASSUME NEW v \in Threads \ {u} PROVE ~Launches(v, c)'
      <4>1. ~Launches(v, c)
        BY <3>2 DEF Sole
      <4>2. CASE v = t
        BY <4>1, <4>2 DEF Lets
      <4>3. CASE v # t
        BY <1>2, <4>1, <4>3
      <4>. QED
        BY <4>2, <4>3
    <3>. QED
      BY <2>1, <3>1, <3>2, <3>3 DEF Sole
  <2>. QED
    BY <2>1, <2>2, <2>3 DEF Recorded
<1>8. Found'
  <2>. SUFFICES ASSUME NEW c \in Campaigns, marks'[c] = {}, NEW w \in Of(c)'
                PROVE  w \in row'[c].ids \/ Held(w)'
    BY DEF Found
  <2>1. w \in Of(c) /\ row' = row /\ (w \in row[c].ids \/ Held(w))
    BY <1>1 DEF Inv, Found, Local
  <2>2. w[1] = c
    BY <2>1 DEF Of
  <2>3. ASSUME NEW u \in Threads, pc[u] \in {"creating", "finishing"}, w \in Made(u)
        PROVE  Held(w)'
    <3>1. CASE u = t
      BY <2>2, <2>3, <3>1 DEF Held, Lets
    <3>2. CASE u # t
      BY <1>2, <2>3, <3>2 DEF Held
    <3>. QED
      BY <3>1, <3>2
  <2>. QED
    BY <2>1, <2>3 DEF Held
<1>9. Silent'
  BY <1>1 DEF Inv, Silent, Local
<1>10. Shown'
  <2>1. ASSUME NEW c \in Campaigns PROVE RowShown(c)'
    BY DEF Inv, Shown, RowShown, Local
  <2>2. ASSUME NEW u \in Threads \ {t} PROVE Unlaunched(u)'
    <3>1. marks[job[u].at] \subseteq marks'[job[u].at]
      BY <1>2 DEF Local
    <3>. QED
      BY <1>2, <3>1 DEF Inv, Shown, Unlaunched
  <2>. QED
    BY <2>1, <2>2 DEF Shown
<1>. QED
  BY <1>3, <1>4, <1>5, <1>6, <1>7, <1>8, <1>9, <1>10 DEF Inv

LEMMA LocalTyped ==
    ASSUME TypeInv, NEW t \in Threads, NEW label \in Labels, NEW j \in JobType,
           Works(t, label, j), UNCHANGED <<row, wf>>, MarksTyped', CountsTyped',
           label \notin {"idle", "create"} => row[j.at] # NoRow
    PROVE  TypeInv' /\ Apart(t) /\ pc'[t] = label /\ job'[t] = j
<1>1. JobsTyped' /\ pc'[t] = label /\ job'[t] = j /\ Apart(t)
  BY WorksTyped DEF TypeInv, Apart
<1>2. RowsTyped' /\ WorkflowsTyped'
  BY DEF TypeInv, RowsTyped, WorkflowsTyped
<1>3. Loaded'
  BY <1>1 DEF TypeInv, Loaded, Apart
<1>. QED
  BY <1>1, <1>2, <1>3 DEF TypeInv

LEMMA EmptyHanded ==
    ASSUME NEW t \in Threads, pc[t] \notin {"creating", "finishing"},
           pc'[t] \notin {"creating", "finishing"}, ~GivesBack(t)'
    PROVE  Lets(t)
  BY DEF Lets, Launches

(* A request that ends, outside the part of a launch that is guarded.      *)
LEMMA RestKeeps ==
    ASSUME Inv, NEW t \in Threads, pc[t] \notin {"creating", "finishing"}, Done(t),
           UNCHANGED <<requests, row, fresh, wf, claims, marks>>
    PROVE  Inv'
<1>1. Works(t, "idle", Blank(t)) /\ stale' = stale \ {t}
  BY DEF Done, Goto, Set, Works
<1>2. /\ Blank(t) \in JobType /\ Blank(t).at = job[t].at /\ Blank(t).control = "none"
      /\ Blank(t).todo = {} /\ Blank(t).launch = 0 /\ Blank(t).copy.ids = {}
  BY BlankTyped DEF Inv
<1>3. MarksTyped' /\ CountsTyped'
  BY <1>1 DEF Inv, TypeInv, MarksTyped, CountsTyped
<1>4. TypeInv' /\ Apart(t) /\ pc'[t] = "idle" /\ job'[t] = Blank(t)
  BY <1>1, <1>2, <1>3, LocalTyped DEF Inv, Labels
<1>5. Local(t)
  BY <1>1, <1>4 DEF Local
<1>6. Lets(t)
  BY <1>4, EmptyHanded DEF GivesBack
<1>7. JobFits(pc'[t], job'[t]) /\ JobKnown(t)' /\ CopyFresh(t)' /\ Unlaunched(t)'
  BY <1>2, <1>4 DEF JobFits, JobKnown, CopyFresh, Unlaunched
<1>. QED
  BY <1>4, <1>5, <1>6, <1>7, LocalKeeps

LEMMA CreateLooksUpKeeps ==
    ASSUME Inv, NEW t \in Threads, NEW c \in Campaigns, CreateLooksUp(t, c)
    PROVE  Inv'
<1>. DEFINE j == Job(c, "create", "blocked", Nothing)
<1>1. Works(t, "create", j)
  BY DEF CreateLooksUp, Goto, Set, Works
<1>2. j \in JobType
  BY JobTyped, NothingTyped
<1>3. j.at = c /\ j.control = "create" /\ j.todo = {} /\ j.copy.ids = {}
  BY DEF Job
<1>. HIDE DEF j
<1>4. MarksTyped' /\ CountsTyped'
  BY Bounds DEF CreateLooksUp, Take, Inv, TypeInv, MarksTyped, CountsTyped
<1>5. TypeInv' /\ Apart(t) /\ pc'[t] = "create" /\ job'[t] = j
  BY <1>1, <1>2, <1>4, LocalTyped DEF Inv, Labels, CreateLooksUp
<1>6. Local(t)
  BY <1>5 DEF Local, CreateLooksUp
<1>7. Lets(t)
  BY <1>5, EmptyHanded DEF GivesBack, CreateLooksUp
<1>8. JobFits(pc'[t], job'[t]) /\ JobKnown(t)' /\ CopyFresh(t)' /\ Unlaunched(t)'
  BY <1>3, <1>5 DEF JobFits, JobKnown, CopyFresh, Unlaunched
<1>. QED
  BY <1>5, <1>6, <1>7, <1>8, LocalKeeps

(* A request that loads the row, with the job it loads.                    *)
LEMMA LoadsKeep ==
    ASSUME Inv, NEW t \in Threads, NEW c \in Campaigns, NEW label \in {"save", "claim", "control"},
           NEW j \in JobType, j.at = c, Load(t, c, label, j),
           JobFits(label, j), j.todo \subseteq row[c].ids, j.copy.ids = {},
           j.control = "launch" /\ "lost" \notin marks[c] => j.before # "launched",
           label = "save" => j.control = "edit",
           j.control \in {"pause", "resume"} => row[c].ids # {},
           j.control = "cancel" => j.todo = row[c].ids
    PROVE  Inv'
<1>1. TypeInv' /\ Works(t, label, j)
  BY LoadKeeps DEF Inv, Labels
<1>2. pc'[t] = label /\ job'[t] = j /\ Apart(t)
  BY <1>1, WorksTyped DEF Inv, TypeInv, Apart, Labels
<1>3. Local(t) /\ row' = row /\ wf' = wf /\ marks' = marks /\ pc[t] = "idle" /\ row[c] # NoRow
  BY <1>2 DEF Local, Load
<1>4. Lets(t)
  BY <1>2, <1>3, EmptyHanded DEF GivesBack
<1>5. JobFits(pc'[t], job'[t])
  BY <1>2
<1>6. JobKnown(t)'
  <2>1. row[c].ids \subseteq Of(c)' /\ Of(c)' = Of(c)
    BY <1>3 DEF Inv, RowsKnown, Of, Real
  <2>. QED
    BY <1>2, <2>1 DEF JobKnown
<1>7. CopyFresh(t)'
  BY <1>2, <1>3 DEF CopyFresh
<1>8. Unlaunched(t)'
  BY <1>2, <1>3 DEF Unlaunched
<1>. QED
  BY <1>1, <1>3, <1>4, <1>5, <1>6, <1>7, <1>8, LocalKeeps

LEMMA EditLoadsKeeps ==
    ASSUME Inv, NEW t \in Threads, NEW c \in Campaigns, EditLoads(t, c)
    PROVE  Inv'
<1>1. PICK p \in Prospects, to \in UNION {Reassessed(a) : a \in Addresses} :
          Load(t, c, "save", EditJob(c, Edited(row[c].result, p, to)))
  BY DEF EditLoads, EditJob
<1>. DEFINE result == Edited(row[c].result, p, to)
            j == EditJob(c, result)
<1>2. row[c] # NoRow /\ row[c].status # "launched"
  BY DEF EditLoads
<1>3. result \in Results
  <2>1. row[c].result \in Results
    BY <1>2, LoadedJobs DEF Inv, Row
  <2>2. to \in Addresses \cup {NoAddress}
    BY DEF Reassessed
  <2>. QED
    BY <2>1, <2>2 DEF Edited, Results
<1>4. StatusOf(result) \in {"blocked", "ready"}
  BY <1>3, NothingTyped
<1>5. /\ j \in JobType /\ j.at = c /\ j.control = "edit" /\ j.todo = {}
      /\ j.before = row[c].status /\ j.launch = 0
      /\ j.copy = [status |-> StatusOf(result), result |-> result, ids |-> {}]
  BY <1>2, <1>3, LoadedJobs DEF Inv
<1>6. Load(t, c, "save", j)
  BY <1>1
<1>. HIDE DEF j, result
<1>7. JobFits("save", j)
  BY <1>2, <1>4, <1>5 DEF JobFits, Controls
<1>. QED
  BY <1>2, <1>5, <1>6, <1>7, LoadsKeep

LEMMA LaunchLoadsKeeps ==
    ASSUME Inv, NEW t \in Threads, NEW c \in Campaigns, LaunchLoads(t, c)
    PROVE  Inv'
<1>. DEFINE j == LaunchJob(c)
<1>1. /\ row[c] # NoRow /\ ~(row[c].status = "launched" /\ row[c].ids # {})
      /\ Recipients(row[c].result) # {} /\ Load(t, c, "claim", j)
  BY DEF LaunchLoads, LaunchJob
<1>2. j \in JobType /\ j.at = c
  BY <1>1, LoadedJobs DEF Inv
<1>3. /\ j.control = "launch" /\ j.before = row[c].status /\ j.todo = {}
      /\ j.copy = [status |-> row[c].status, result |-> row[c].result, ids |-> {}]
  BY DEF LaunchJob, Job
<1>. HIDE DEF j
<1>4. JobFits("claim", j)
  BY <1>1, <1>3 DEF JobFits, Controls
<1>5. "lost" \notin marks[c] => j.before # "launched"
  BY <1>1, <1>3 DEF Inv, Shown, RowShown
<1>. QED
  BY <1>1, <1>2, <1>3, <1>4, <1>5, LoadsKeep

LEMMA ControlLoadsKeeps ==
    ASSUME Inv, NEW t \in Threads, NEW c \in Campaigns, NEW k \in Controls, ControlLoads(t, c, k)
    PROVE  Inv'
<1>. DEFINE j == ControlJob(c, k)
<1>1. row[c] # NoRow /\ (row[c].ids # {} \/ k = "cancel") /\ Load(t, c, "control", j)
  BY DEF ControlLoads, ControlJob
<1>2. /\ j \in JobType /\ j.at = c /\ j.control = k /\ j.todo = row[c].ids
      /\ j.before = row[c].status /\ j.launch = 0
      /\ j.copy = [status |-> After[k], result |-> Nothing, ids |-> {}]
  BY <1>1, LoadedJobs DEF Inv
<1>. HIDE DEF j
<1>3. JobFits("control", j) /\ k # "launch"
  BY <1>2 DEF JobFits, Controls
<1>. QED
  BY <1>1, <1>2, <1>3, LoadsKeep

(***************************************************************************)
(* The steps of a request that change only its own copy.                   *)
(***************************************************************************)

LEMMA UpdateReadsKeeps ==
    ASSUME Inv, NEW t \in Threads, UpdateReads(t)
    PROVE  Inv'
<1>. DEFINE b == job[t]
            r == row[b.at]
            result == IF b.control = "edit" THEN b.copy.result ELSE r.result
            j == [b EXCEPT !.copy.result = result, !.copy.ids = r.ids]
<1>1. /\ pc[t] \in {"save", "release"} /\ Works(t, "saving", j)
      /\ UNCHANGED <<requests, row, fresh, wf, claims, stale, marks>>
  BY DEF UpdateReads, Works, Goto, Set
<1>2. b \in JobType /\ r \in Row
  <2>1. b \in JobType /\ b.at \in Campaigns /\ row[b.at] # NoRow
    BY <1>1 DEF Inv, TypeInv, JobsTyped, Loaded, JobType
  <2>. QED
    BY <2>1 DEF Inv, TypeInv, RowsTyped
<1>3. /\ j \in JobType /\ j.at = b.at /\ j.control = b.control /\ j.before = b.before
      /\ j.launch = b.launch /\ j.todo = b.todo /\ j.copy.status = b.copy.status
      /\ j.copy.result = result /\ j.copy.ids = r.ids
  <2>. DEFINE copy == [b.copy EXCEPT !.result = result, !.ids = r.ids]
  <2>1. /\ copy \in Row /\ copy.status = b.copy.status /\ copy.result = result
        /\ copy.ids = r.ids
    BY <1>2 DEF JobType, Row
  <2>2. j = [b EXCEPT !.copy = copy]
    BY <1>2 DEF JobType, Row
  <2>. HIDE DEF copy, j
  <2>. QED
    BY <1>2, <2>1, <2>2 DEF JobType
<1>4. JobFits("save", b) \/ JobFits("release", b)
  BY <1>1 DEF Inv, JobsFit
<1>5. row[b.at] # NoRow /\ b.at \in Campaigns
  BY <1>1, <1>2 DEF Inv, TypeInv, Loaded, JobType
<1>. HIDE DEF j
<1>6. MarksTyped' /\ CountsTyped'
  BY <1>1 DEF Inv, TypeInv, MarksTyped, CountsTyped
<1>7. TypeInv' /\ Apart(t) /\ pc'[t] = "saving" /\ job'[t] = j
  BY <1>1, <1>3, <1>5, <1>6, LocalTyped DEF Inv, Labels
<1>8. Local(t)
  BY <1>1, <1>7 DEF Local
<1>9. Made(t)' = Made(t)
  BY <1>1, <1>3, <1>7 DEF Made
<1>10. pc[t] = "release" => b.control = "launch"
  BY <1>4, <1>1 DEF Inv, JobsFit, JobFits
<1>11. pc[t] = "save" => b.control # "launch"
  BY <1>1 DEF Inv, JobsFit, JobFits, Controls
<1>12. Lets(t)
  <2>1. ASSUME NEW c \in Campaigns, Launches(t, c)', Clean(c)'
        PROVE  Launches(t, c) /\ GivesBack(t) /\ Made(t) = {}
    <3>1. b.at = c /\ b.control = "launch" /\ pc[t] = "release"
      BY <1>1, <1>3, <1>7, <1>11, <2>1 DEF Launches, GivesBack
    <3>2. Launches(t, c) /\ GivesBack(t) /\ Clean(c)
      BY <1>1, <2>1, <3>1 DEF Launches, GivesBack, Clean
    <3>. QED
      BY <3>2 DEF Inv, SoloLaunch, Sole
  <2>. QED
    BY <1>1, <1>7, <1>9, <2>1 DEF Lets
<1>13. JobFits(pc'[t], job'[t])
  <2>1. CASE pc[t] = "save"
    BY <1>3, <1>7, <2>1 DEF Inv, JobsFit, JobFits, Controls
  <2>2. CASE pc[t] = "release"
    <3>1. b.control = "launch" /\ b.copy.status = b.before
      BY <2>2 DEF Inv, JobsFit, JobFits
    <3>2. b.todo = {}
      BY <2>2 DEF Inv, JobsFit, JobFits
    <3>. QED
      BY <1>3, <1>7, <3>1, <3>2 DEF JobFits, Controls
  <2>. QED
    BY <1>1, <2>1, <2>2
<1>14. JobKnown(t)'
  <2>1. b.todo \subseteq Of(b.at) /\ r.ids \subseteq Of(b.at)
    BY <1>5 DEF Inv, JobsKnown, JobKnown, RowsKnown
  <2>2. \A c \in Campaigns : Of(c)' = Of(c)
    BY <1>1 DEF Of, Real
  <2>. QED
    BY <1>3, <1>5, <1>7, <2>1, <2>2 DEF JobKnown
<1>15. t \notin stale' => CopyFresh(t)'
  <2>1. SUFFICES ASSUME t \notin stale PROVE CopyFresh(t)'
    BY <1>1
  <2>2. CopyFresh(t)
    BY <2>1 DEF Inv, CopiesFresh
  <2>3. pc[t] = "release" => b.control \notin {"pause", "resume", "cancel"}
    BY <1>10
  <2>. QED
    BY <1>1, <1>3, <1>7, <2>2, <2>3 DEF CopyFresh
<1>16. Unlaunched(t)'
  BY <1>1, <1>3, <1>7 DEF Inv, Shown, Unlaunched
<1>. QED
  BY <1>7, <1>8, <1>12, <1>13, <1>14, <1>15, <1>16, LocalKeeps

LEMMA LaunchDoneKeeps ==
    ASSUME Inv, NEW t \in Threads, LaunchDone(t)
    PROVE  Inv'
<1>. DEFINE b == job[t]
            j == [b EXCEPT !.copy.status = "launched", !.copy.ids = Made(t)]
<1>1. /\ pc[t] = "creating" /\ Works(t, "finishing", j)
      /\ {w[3] : w \in Made(t)} = Recipients(b.copy.result)
      /\ UNCHANGED <<requests, row, fresh, wf, claims, stale, marks>>
  BY DEF LaunchDone, Works, Goto, Set
<1>2. b \in JobType /\ b.at \in Campaigns /\ row[b.at] # NoRow
  BY <1>1 DEF Inv, TypeInv, JobsTyped, Loaded, JobType
<1>3. /\ j \in JobType /\ j.at = b.at /\ j.control = b.control /\ j.before = b.before
      /\ j.launch = b.launch /\ j.todo = b.todo /\ j.copy.status = "launched"
      /\ j.copy.result = b.copy.result /\ j.copy.ids = Made(t)
  <2>. DEFINE copy == [b.copy EXCEPT !.status = "launched", !.ids = Made(t)]
  <2>1. Made(t) \subseteq Workflows
    BY DEF Made
  <2>2. /\ copy \in Row /\ copy.status = "launched" /\ copy.result = b.copy.result
        /\ copy.ids = Made(t)
    BY <1>2, <2>1 DEF JobType, Row, Statuses
  <2>3. j = [b EXCEPT !.copy = copy]
    BY <1>2 DEF JobType, Row
  <2>. HIDE DEF copy, j
  <2>. QED
    BY <1>2, <2>2, <2>3 DEF JobType
<1>4. b.control = "launch" /\ Recipients(b.copy.result) # {} /\ b.todo = {}
  BY <1>1 DEF Inv, JobsFit, JobFits
<1>. HIDE DEF j
<1>6. MarksTyped' /\ CountsTyped'
  BY <1>1 DEF Inv, TypeInv, MarksTyped, CountsTyped
<1>7. TypeInv' /\ Apart(t) /\ pc'[t] = "finishing" /\ job'[t] = j
  BY <1>1, <1>2, <1>3, <1>6, LocalTyped DEF Inv, Labels
<1>8. Local(t)
  BY <1>1, <1>7 DEF Local
<1>9. Made(t)' = Made(t)
  BY <1>1, <1>3, <1>7 DEF Made
<1>12. Lets(t)
  BY <1>1, <1>3, <1>7, <1>9 DEF Lets, Launches, GivesBack
<1>13. JobFits(pc'[t], job'[t])
  <2>1. Made(t) # {}
    BY <1>1, <1>4
  <2>. QED
    BY <1>1, <1>3, <1>4, <1>7, <2>1 DEF JobFits
<1>14. JobKnown(t)'
  <2>1. b.todo \subseteq Of(b.at) /\ Made(t) \subseteq Of(b.at)
    BY DEF Inv, JobsKnown, JobKnown, Made, Of, Real
  <2>2. \A c \in Campaigns : Of(c)' = Of(c)
    BY <1>1 DEF Of, Real
  <2>. QED
    BY <1>2, <1>3, <1>7, <1>9, <2>1, <2>2 DEF JobKnown
<1>15. CopyFresh(t)'
  BY <1>7 DEF CopyFresh
<1>16. Unlaunched(t)'
  BY <1>1, <1>3, <1>7 DEF Inv, Shown, Unlaunched
<1>. QED
  BY <1>7, <1>8, <1>12, <1>13, <1>14, <1>15, <1>16, LocalKeeps

LEMMA ControlDoneKeeps ==
    ASSUME Inv, NEW t \in Threads, ControlDone(t)
    PROVE  Inv'
<1>1. /\ pc[t] = "control" /\ job[t].todo = {} /\ pc' = [pc EXCEPT ![t] = "save"]
      /\ UNCHANGED <<requests, row, fresh, wf, claims, job, stale, marks>>
  BY DEF ControlDone, Goto
<1>2. job[t] \in JobType /\ job[t].at \in Campaigns /\ row[job[t].at] # NoRow
  BY <1>1 DEF Inv, TypeInv, JobsTyped, Loaded, JobType
<1>3. Works(t, "save", job[t])
  BY <1>1 DEF Works, Inv, TypeInv, JobsTyped
<1>4. MarksTyped' /\ CountsTyped'
  BY <1>1 DEF Inv, TypeInv, MarksTyped, CountsTyped
<1>5. TypeInv' /\ Apart(t) /\ pc'[t] = "save" /\ job'[t] = job[t]
  BY <1>1, <1>2, <1>3, <1>4, LocalTyped DEF Inv, Labels
<1>6. Local(t)
  BY <1>1, <1>5 DEF Local
<1>7. Lets(t)
  BY <1>1, <1>5, EmptyHanded DEF GivesBack
<1>8. job[t].control \in Controls \cup {"edit"}
      /\ (job[t].control \in Controls => job[t].copy.status = After[job[t].control])
  BY <1>1 DEF Inv, JobsFit, JobFits
<1>9. job[t].control # "edit"
  BY <1>1 DEF Inv, JobsFit, JobFits, Controls
<1>10. JobFits(pc'[t], job'[t])
  BY <1>1, <1>5, <1>8, <1>9 DEF JobFits
<1>11. JobKnown(t)'
  <2>1. Of(job[t].at)' = Of(job[t].at)
    BY <1>1 DEF Of, Real
  <2>. QED
    BY <1>5, <2>1 DEF Inv, JobsKnown, JobKnown
<1>12. t \notin stale' => CopyFresh(t)'
  BY <1>1, <1>5 DEF Inv, CopiesFresh, CopyFresh
<1>13. Unlaunched(t)'
  BY <1>1, <1>5 DEF Inv, Shown, Unlaunched
<1>. QED
  BY <1>5, <1>6, <1>7, <1>10, <1>11, <1>12, <1>13, LocalKeeps

LEMMA LaunchFailsKeeps ==
    ASSUME Inv, NEW t \in Threads, LaunchFails(t)
    PROVE  Inv'
<1>. DEFINE b == job[t]
            j == [b EXCEPT !.copy.status = b.before]
            why == IF Made(t) # {} THEN {"released"} ELSE {}
<1>1. /\ pc[t] \in {"creating", "finishing", "event"} /\ Works(t, "release", j)
      /\ marks' = [marks EXCEPT ![b.at] = @ \cup why]
      /\ UNCHANGED <<requests, row, fresh, wf, claims, stale>>
  BY DEF LaunchFails, Works, Goto, Set
<1>2. b \in JobType /\ b.at \in Campaigns /\ row[b.at] # NoRow
  BY <1>1 DEF Inv, TypeInv, JobsTyped, Loaded, JobType
<1>3. /\ j \in JobType /\ j.at = b.at /\ j.control = b.control /\ j.before = b.before
      /\ j.launch = b.launch /\ j.todo = b.todo /\ j.copy.status = b.before
      /\ j.copy.ids = b.copy.ids
  <2>. DEFINE copy == [b.copy EXCEPT !.status = b.before]
  <2>1. copy \in Row /\ copy.status = b.before /\ copy.ids = b.copy.ids
    BY <1>2 DEF JobType, Row
  <2>2. j = [b EXCEPT !.copy = copy]
    BY <1>2 DEF JobType, Row
  <2>. HIDE DEF copy, j
  <2>. QED
    BY <1>2, <2>1, <2>2 DEF JobType
<1>4. b.control = "launch" /\ b.todo = {}
  BY <1>1 DEF Inv, JobsFit, JobFits
<1>5. why \subseteq Troubles
  BY DEF Troubles
<1>. HIDE DEF j
<1>6. MarksTyped' /\ CountsTyped'
  BY <1>1, <1>2, <1>5 DEF Inv, TypeInv, MarksTyped, CountsTyped
<1>7. TypeInv' /\ Apart(t) /\ pc'[t] = "release" /\ job'[t] = j
  BY <1>1, <1>2, <1>3, <1>6, LocalTyped DEF Inv, Labels
<1>8. \A c \in Campaigns : marks[c] \subseteq marks'[c]
  BY <1>1 DEF Inv, TypeInv, MarksTyped
<1>9. Local(t)
  BY <1>1, <1>7, <1>8 DEF Local
<1>10. Made(t)' = Made(t)
  BY <1>1, <1>3, <1>7 DEF Made
<1>11. Made(t) # {} => "released" \in marks'[b.at]
  BY <1>1, <1>2 DEF Inv, TypeInv, MarksTyped
<1>12. Lets(t)
  <2>1. pc[t] = "event" => Made(t) # {}
    BY DEF Inv, JobsFit, JobFits, JobsKnown, JobKnown
  <2>2. ASSUME NEW c \in Campaigns, Launches(t, c)', Clean(c)'
        PROVE  Launches(t, c) /\ Made(t) = {}
    <3>1. b.at = c /\ Made(t) = {}
      BY <1>3, <1>7, <1>11, <2>2 DEF Launches, Clean, Spoils
    <3>. QED
      BY <1>1, <2>1, <3>1 DEF Launches
  <2>3. ASSUME NEW w \in Made(t) PROVE marks'[w[1]] # {}
    BY <1>11 DEF Made
  <2>. QED
    BY <1>7, <1>10, <2>2, <2>3 DEF Lets
<1>13. JobFits(pc'[t], job'[t])
  BY <1>3, <1>4, <1>7 DEF JobFits, Controls
<1>14. JobKnown(t)'
  <2>1. \A c \in Campaigns : Of(c)' = Of(c)
    BY <1>1 DEF Of, Real
  <2>. QED
    BY <1>2, <1>3, <1>7, <2>1 DEF Inv, JobsKnown, JobKnown
<1>15. CopyFresh(t)'
  BY <1>7 DEF CopyFresh
<1>16. Unlaunched(t)'
  BY <1>1, <1>2, <1>3, <1>7, <1>8 DEF Inv, Shown, Unlaunched
<1>. QED
  BY <1>7, <1>9, <1>12, <1>13, <1>14, <1>15, <1>16, LocalKeeps

(***************************************************************************)
(* The steps that make or control a workflow.                              *)
(***************************************************************************)

LEMMA CreateWorkflowKeeps ==
    ASSUME Inv, NEW t \in Threads, CreateWorkflow(t)
    PROVE  Inv'
<1>. DEFINE b == job[t]
<1>1. PICK a \in Recipients(b.copy.result) :
          wf[<<b.at, b.launch, a>>] = "none" /\ wf' = [wf EXCEPT ![<<b.at, b.launch, a>>] = "live"]
  BY DEF CreateWorkflow
<1>. DEFINE w == <<b.at, b.launch, a>>
<1>2. pc[t] = "creating" /\ UNCHANGED <<requests, row, fresh, claims, pc, job, stale, marks>>
  BY DEF CreateWorkflow
<1>3. b \in JobType /\ b.at \in Campaigns /\ row[b.at] # NoRow
  BY <1>2 DEF Inv, TypeInv, JobsTyped, Loaded, JobType
<1>4. w[1] = b.at /\ w[2] = b.launch
  OBVIOUS
<1>5. wf[w] = "none" /\ wf' = [wf EXCEPT ![w] = "live"]
  BY <1>1
<1>. HIDE DEF w
<1>6. \A v \in Workflows : \/ wf'[v] = wf[v]
                           \/ v = w /\ wf[v] = "none" /\ wf'[v] = "live"
  BY <1>5 DEF Inv, TypeInv, WorkflowsTyped
<1>7. TypeInv'
  <2>1. WorkflowsTyped'
    BY <1>5 DEF Inv, TypeInv, WorkflowsTyped, States
  <2>. QED
    BY <1>2, <2>1 DEF Inv, TypeInv, RowsTyped, JobsTyped, MarksTyped, CountsTyped, Loaded
<1>8. /\ \A c \in Campaigns : Of(c) \subseteq Of(c)' /\ Of(c)' \subseteq Of(c) \cup {w}
      /\ \A c \in Campaigns : c # b.at => Of(c)' = Of(c)
  BY <1>4, <1>6 DEF Of, Real
<1>9. /\ \A u \in Threads : Made(u) \subseteq Made(u)'
      /\ \A u \in Threads : job[u].at # b.at => Made(u)' = Made(u)
      /\ \A c \in Campaigns : \A v \in Of(c)' : v = w => v \in Made(t)'
  BY <1>2, <1>4, <1>6 DEF Made, Of, Real
<1>10. JobsFit'
  BY <1>2 DEF Inv, JobsFit
<1>11. RowsKnown'
  BY <1>2, <1>8 DEF Inv, RowsKnown
<1>12. JobsKnown'
  <2>1. ASSUME NEW u \in Threads PROVE JobKnown(u)'
    <3>1. job[u].at \in Campaigns
      BY DEF Inv, TypeInv, JobsTyped, JobType
    <3>2. Of(job[u].at) \subseteq Of(job[u].at)' /\ Made(u) \subseteq Made(u)' /\ JobKnown(u)
      BY <1>2, <1>8, <1>9, <3>1 DEF Inv, JobsKnown
    <3>. QED
      BY <1>2, <3>2 DEF JobKnown
  <2>. QED
    BY <2>1 DEF JobsKnown
<1>13. \A v \in Workflows : wf[v] = "over" => wf'[v] = "over"
  BY <1>6
<1>14. CopiesFresh'
  <2>1. ASSUME NEW u \in Threads \ stale, pc[u] \notin {"idle", "create"} PROVE CopyFresh(u)'
    <3>1. CopyFresh(u) /\ job[u].at \in Campaigns /\ row[job[u].at] # NoRow
      BY <2>1 DEF Inv, CopiesFresh, TypeInv, JobsTyped, JobType, Loaded
    <3>2. row[job[u].at].ids \subseteq Workflows
      BY <3>1 DEF Inv, RowsKnown, Of
    <3>. QED
      BY <1>2, <1>13, <3>1, <3>2 DEF CopyFresh
  <2>2. ASSUME NEW u \in Threads \ stale, pc[u] \in {"idle", "create"} PROVE CopyFresh(u)'
    BY <1>2, <2>2 DEF CopyFresh
  <2>. QED
    BY <1>2, <2>1, <2>2 DEF CopiesFresh
<1>15. SoloLaunch'
  <2>. SUFFICES ASSUME NEW c \in Campaigns, Clean(c)'
                PROVE  /\ \A u \in Threads : Launches(u, c)' => Sole(u, c)'
                       /\ Recorded(c)' /\ \A v, x \in Of(c)' : v[2] = x[2]
    BY DEF SoloLaunch
  <2>1. Clean(c) /\ \A u \in Threads : /\ Launches(u, c)' <=> Launches(u, c)
                                       /\ GivesBack(u)' <=> GivesBack(u)
    BY <1>2 DEF Clean, Launches, GivesBack
  <2>2. /\ \A u \in Threads : Launches(u, c) => Sole(u, c)
        /\ Recorded(c) /\ \A v, x \in Of(c) : v[2] = x[2]
    BY <2>1 DEF Inv, SoloLaunch
  <2>3. CASE c = b.at
    <3>1. Launches(t, c)
      BY <1>2, <2>3 DEF Launches
    <3>2. Sole(t, c)
      BY <2>2, <3>1
    <3>3. Of(c)' \subseteq Made(t)'
      BY <1>8, <1>9, <2>3, <3>2 DEF Sole
    <3>4. Sole(t, c)'
      BY <1>2, <2>1, <3>2, <3>3 DEF Sole, GivesBack
    <3>5. \A u \in Threads \ {t} : ~Launches(u, c)'
      BY <3>4 DEF Sole
    <3>6. Recorded(c)'
      BY <1>2, <1>3, <2>3, <3>2 DEF Recorded, Sole
    <3>7. \A v \in Of(c)' : v[2] = b.launch
      BY <1>2, <3>3 DEF Made
    <3>. QED
      BY <3>4, <3>5, <3>6, <3>7
  <2>4. CASE c # b.at
    <3>1. Of(c)' = Of(c)
      BY <1>8, <2>4
    <3>2. ASSUME NEW u \in Threads, Launches(u, c)' PROVE Sole(u, c)'
      <4>1. Launches(u, c) /\ Sole(u, c)
        BY <2>1, <2>2, <3>2
      <4>2. Made(u)' = Made(u)
        BY <1>9, <2>4, <4>1 DEF Launches
      <4>. QED
        BY <1>2, <2>1, <3>1, <4>1, <4>2 DEF Sole
    <3>3. Recorded(c)'
      BY <1>2, <2>2, <3>1 DEF Recorded
    <3>. QED
      BY <2>2, <3>1, <3>2, <3>3
  <2>. QED
    BY <2>3, <2>4
<1>16. Found'
  <2>. SUFFICES ASSUME NEW c \in Campaigns, marks'[c] = {}, NEW v \in Of(c)'
                PROVE  v \in row'[c].ids \/ Held(v)'
    BY DEF Found
  <2>1. CASE v \in Of(c)
    <3>1. v \in row[c].ids \/ Held(v)
      BY <1>2, <2>1 DEF Inv, Found
    <3>. QED
      BY <1>2, <1>9, <3>1 DEF Held
  <2>2. CASE v \notin Of(c)
    <3>1. v = w /\ c = b.at
      BY <1>8, <2>2
    <3>. QED
      BY <1>2, <1>9, <3>1 DEF Held
  <2>. QED
    BY <2>1, <2>2
<1>17. Silent'
  <2>1. \A c \in Campaigns : row[c] # NoRow => row[c].ids \subseteq Workflows
    BY DEF Inv, RowsKnown, Of
  <2>. QED
    BY <1>2, <1>13, <2>1 DEF Inv, Silent
<1>18. Shown'
  BY <1>2 DEF Inv, Shown, RowShown, Unlaunched
<1>. QED
  BY <1>7, <1>10, <1>11, <1>12, <1>14, <1>15, <1>16, <1>17, <1>18 DEF Inv

LEMMA ControlOneKeeps ==
    ASSUME Inv, NEW t \in Threads, ControlOne(t)
    PROVE  Inv'
<1>. DEFINE b == job[t]
<1>1. PICK w \in b.todo :
          /\ wf' \in CASE b.control = "pause" /\ wf[w] = "live" ->
                             {wf, [wf EXCEPT ![w] = "paused"]}
                      [] b.control = "resume" /\ wf[w] = "paused" ->
                             {[wf EXCEPT ![w] = "live"]}
                      [] b.control = "cancel" -> {[wf EXCEPT ![w] = "over"]}
                      [] OTHER -> {wf}
          /\ job' = [job EXCEPT ![t] = [b EXCEPT !.todo = b.todo \ {w}]]
  BY DEF ControlOne, Set
<1>. DEFINE j == [b EXCEPT !.todo = b.todo \ {w}]
<1>2. pc[t] = "control" /\ UNCHANGED <<requests, row, fresh, claims, pc, stale, marks>>
  BY DEF ControlOne
<1>3. b \in JobType /\ b.at \in Campaigns /\ row[b.at] # NoRow
  BY <1>2 DEF Inv, TypeInv, JobsTyped, Loaded, JobType
<1>4. b.todo \subseteq Of(b.at) /\ b.control \in Controls
  BY <1>2 DEF Inv, JobsKnown, JobKnown, JobsFit, JobFits
<1>5. w \in Workflows /\ wf[w] # "none"
  BY <1>4 DEF Of, Real
<1>6. /\ WorkflowsTyped'
      /\ \A v \in Workflows : wf'[v] = "none" <=> wf[v] = "none"
      /\ \A v \in Workflows : wf[v] = "over" => wf'[v] = "over"
      /\ b.control = "cancel" => wf'[w] = "over"
  <2>1. wf \in [Workflows -> States] /\ {"none", "live", "paused", "over"} \subseteq States
    BY DEF Inv, TypeInv, WorkflowsTyped, States
  <2>2. CASE wf' = wf /\ b.control # "cancel"
    BY <2>1, <2>2 DEF WorkflowsTyped
  <2>3. CASE wf[w] = "live" /\ wf' = [wf EXCEPT ![w] = "paused"] /\ b.control # "cancel"
    BY <1>5, <2>1, <2>3 DEF WorkflowsTyped
  <2>4. CASE wf[w] = "paused" /\ wf' = [wf EXCEPT ![w] = "live"] /\ b.control # "cancel"
    BY <1>5, <2>1, <2>4 DEF WorkflowsTyped
  <2>5. CASE b.control = "cancel" /\ wf' = [wf EXCEPT ![w] = "over"]
    BY <1>5, <2>1, <2>5 DEF WorkflowsTyped
  <2>6. CASE b.control = "pause"
    BY <1>1, <2>2, <2>3, <2>6
  <2>7. CASE b.control = "resume"
    BY <1>1, <2>2, <2>4, <2>7
  <2>8. CASE b.control = "cancel"
    BY <1>1, <2>5, <2>8
  <2>. QED
    BY <1>4, <2>6, <2>7, <2>8 DEF Controls
<1>7. /\ j \in JobType /\ j.at = b.at /\ j.control = b.control /\ j.before = b.before
      /\ j.launch = b.launch /\ j.todo = b.todo \ {w} /\ j.copy = b.copy
  BY <1>3 DEF JobType
<1>8. job' = [job EXCEPT ![t] = j]
  BY <1>1
<1>. HIDE DEF j
<1>9. job'[t] = j /\ JobsTyped' /\ \A u \in Threads \ {t} : job'[u] = job[u]
  BY <1>2, <1>7, <1>8 DEF Inv, TypeInv, JobsTyped
<1>10. \A u \in Threads : /\ job'[u].at = job[u].at /\ job'[u].control = job[u].control
                          /\ job'[u].before = job[u].before /\ job'[u].launch = job[u].launch
                          /\ job'[u].copy = job[u].copy /\ job'[u].todo \subseteq job[u].todo
                          /\ job[u].at \in Campaigns
  <2>1. \A u \in Threads : job[u].at \in Campaigns
    BY DEF Inv, TypeInv, JobsTyped, JobType
  <2>. QED
    BY <1>7, <1>9, <2>1
<1>11. TypeInv'
  <2>1. Loaded'
    BY <1>2, <1>10 DEF Inv, TypeInv, Loaded
  <2>. QED
    BY <1>2, <1>6, <1>9, <2>1 DEF Inv, TypeInv, RowsTyped, MarksTyped, CountsTyped
<1>12. /\ \A c \in Campaigns : Of(c)' = Of(c)
       /\ \A u \in Threads : Made(u)' = Made(u)
  BY <1>6, <1>10 DEF Of, Real, Made
<1>13. \A u \in Threads : /\ GivesBack(u)' <=> GivesBack(u)
                          /\ \A c \in Campaigns : Launches(u, c)' <=> Launches(u, c)
  BY <1>2, <1>10 DEF Launches, GivesBack
<1>14. JobsFit'
  <2>1. JobFits(pc'[t], job'[t])
    BY <1>2, <1>7, <1>9 DEF Inv, JobsFit, JobFits
  <2>2. \A u \in Threads \ {t} : JobFits(pc'[u], job'[u])
    BY <1>2, <1>9 DEF Inv, JobsFit
  <2>. QED
    BY <2>1, <2>2 DEF JobsFit
<1>15. RowsKnown'
  BY <1>2, <1>12 DEF Inv, RowsKnown
<1>16. JobsKnown'
  <2>1. ASSUME NEW u \in Threads PROVE JobKnown(u)'
    <3>1. JobKnown(u)
      BY <1>10 DEF Inv, JobsKnown
    <3>. QED
      BY <1>2, <1>10, <1>12, <3>1 DEF JobKnown
  <2>. QED
    BY <2>1 DEF JobsKnown
<1>17. CopiesFresh'
  <2>1. ASSUME NEW u \in Threads \ stale, pc[u] \notin {"idle", "create"} PROVE CopyFresh(u)'
    <3>1. CopyFresh(u) /\ row[job[u].at] # NoRow /\ row[job[u].at].ids \subseteq Workflows
      BY <1>10, <2>1 DEF Inv, CopiesFresh, TypeInv, Loaded, RowsKnown, Of
    <3>2. CASE u # t
      BY <1>2, <1>6, <1>9, <3>1, <3>2 DEF CopyFresh
    <3>3. CASE u = t
      BY <1>2, <1>6, <1>7, <1>9, <3>1, <3>3 DEF CopyFresh
    <3>. QED
      BY <3>2, <3>3
  <2>2. ASSUME NEW u \in Threads \ stale, pc[u] \in {"idle", "create"} PROVE CopyFresh(u)'
    BY <1>2, <2>2 DEF CopyFresh
  <2>. QED
    BY <1>2, <2>1, <2>2 DEF CopiesFresh
<1>18. SoloLaunch'
  <2>. SUFFICES ASSUME NEW c \in Campaigns, Clean(c)'
                PROVE  /\ \A u \in Threads : Launches(u, c)' => Sole(u, c)'
                       /\ Recorded(c)' /\ \A v, x \in Of(c)' : v[2] = x[2]
    BY DEF SoloLaunch
  <2>1. Clean(c)
    BY <1>2 DEF Clean
  <2>2. /\ \A u \in Threads : Launches(u, c) => Sole(u, c)
        /\ Recorded(c) /\ \A v, x \in Of(c) : v[2] = x[2]
    BY <2>1 DEF Inv, SoloLaunch
  <2>3. ASSUME NEW u \in Threads, Launches(u, c)' PROVE Sole(u, c)'
    <3>1. Sole(u, c)
      BY <1>13, <2>2, <2>3
    <3>. QED
      BY <1>2, <1>10, <1>12, <1>13, <3>1 DEF Sole
  <2>. QED
    BY <1>2, <1>12, <2>2, <2>3 DEF Recorded
<1>19. Found'
  BY <1>2, <1>12 DEF Inv, Found, Held
<1>20. Silent'
  <2>1. \A c \in Campaigns : row[c] # NoRow => row[c].ids \subseteq Workflows
    BY DEF Inv, RowsKnown, Of
  <2>. QED
    BY <1>2, <1>6, <2>1 DEF Inv, Silent
<1>21. Shown'
  BY <1>2, <1>10 DEF Inv, Shown, RowShown, Unlaunched
<1>. QED
  BY <1>11, <1>14, <1>15, <1>16, <1>17, <1>18, <1>19, <1>20, <1>21 DEF Inv

(***************************************************************************)
(* The steps that write a row.                                             *)
(***************************************************************************)

(* The threads that a write of c's row overtakes.                          *)
Overtaken(t, c) == {u \in Threads \ {t} : pc[u] \notin {"idle", "create"} /\ job[u].at = c}

(* A write of c's row by t, workflows as they are: what is left to show is *)
(* what concerns t and c.                                                  *)
Rewrites(t, c) ==
    /\ wf' = wf /\ Apart(t) /\ job'[t].at = c /\ job[t].at = c
    /\ \A d \in Campaigns \ {c} : row'[d] = row[d] /\ marks'[d] = marks[d]
    /\ marks[c] \subseteq marks'[c] /\ row'[c] # NoRow
    /\ (stale \ {t}) \cup Overtaken(t, c) \subseteq stale'

LEMMA RewriteKeeps ==
    ASSUME Inv, TypeInv', NEW t \in Threads, NEW c \in Campaigns, Rewrites(t, c),
           JobFits(pc'[t], job'[t]), JobKnown(t)', CopyFresh(t)', Unlaunched(t)',
           row'[c].ids \subseteq Of(c), RowShown(c)',
           Clean(c)' => /\ \A u \in Threads : Launches(u, c)' => Sole(u, c)'
                        /\ Recorded(c)'
                        /\ \A v, w \in Of(c) : v[2] = w[2],
           marks'[c] = {} => \A w \in Of(c) : w \in row'[c].ids \/ Held(w)',
           marks'[c] = {} /\ row'[c].status = "cancelled" => \A w \in row'[c].ids : wf[w] = "over"
    PROVE  Inv'
<1>1. /\ \A d \in Campaigns : Of(d)' = Of(d)
      /\ \A d \in Campaigns \ {c} : row'[d] = row[d] /\ marks'[d] = marks[d]
                                    /\ (Clean(d)' <=> Clean(d))
  BY DEF Rewrites, Of, Real, Clean
<1>2. ASSUME NEW u \in Threads \ {t}
      PROVE  /\ pc'[u] = pc[u] /\ job'[u] = job[u] /\ Made(u)' = Made(u)
             /\ \A d \in Campaigns : Launches(u, d)' <=> Launches(u, d)
             /\ GivesBack(u)' <=> GivesBack(u)
             /\ u \notin stale' => /\ u \notin stale
                                   /\ job[u].at = c => pc[u] \in {"idle", "create"}
             /\ job[u].at \in Campaigns
  BY DEF Rewrites, Apart, Made, Launches, GivesBack, Overtaken, Inv, TypeInv, JobsTyped, JobType
<1>3. JobsFit'
  BY <1>2 DEF Inv, JobsFit
<1>4. RowsKnown'
  BY <1>1 DEF Inv, RowsKnown
<1>5. JobsKnown'
  <2>1. ASSUME NEW u \in Threads \ {t} PROVE JobKnown(u)'
    BY <1>1, <1>2 DEF Inv, JobsKnown, JobKnown
  <2>. QED
    BY <2>1 DEF JobsKnown
<1>6. CopiesFresh'
  <2>1. ASSUME NEW u \in Threads \ {t}, u \notin stale' PROVE CopyFresh(u)'
    <3>1. CASE pc[u] \in {"idle", "create"}
      BY <1>2, <3>1 DEF CopyFresh
    <3>2. CASE pc[u] \notin {"idle", "create"}
      <4>1. CopyFresh(u) /\ job[u].at \in Campaigns \ {c}
        BY <1>2, <2>1, <3>2 DEF Inv, CopiesFresh
      <4>. QED
        BY <1>1, <1>2, <4>1 DEF CopyFresh, Rewrites
    <3>. QED
      BY <3>1, <3>2
  <2>. QED
    BY <2>1 DEF CopiesFresh
<1>7. SoloLaunch'
  <2>. SUFFICES ASSUME NEW d \in Campaigns \ {c}, Clean(d)'
                PROVE  /\ \A u \in Threads : Launches(u, d)' => Sole(u, d)'
                       /\ Recorded(d)' /\ \A v, w \in Of(d)' : v[2] = w[2]
    BY <1>1 DEF SoloLaunch
  <2>1. /\ \A u \in Threads : Launches(u, d) => Sole(u, d)
        /\ Recorded(d) /\ \A v, w \in Of(d) : v[2] = w[2]
    BY <1>1 DEF Inv, SoloLaunch
  <2>2. ~Launches(t, d)' /\ ~Launches(t, d)
    BY DEF Launches, Rewrites
  <2>3. ASSUME NEW u \in Threads, Launches(u, d)' PROVE Sole(u, d)'
    <3>1. u # t /\ Launches(u, d) /\ Sole(u, d)
      BY <1>2, <2>1, <2>2, <2>3
    <3>2. \A v \in Threads \ {u} : ~Launches(v, d)'
      BY <1>2, <2>2, <3>1 DEF Sole
    <3>. QED
      BY <1>1, <1>2, <3>1, <3>2 DEF Sole
  <2>. QED
    BY <1>1, <2>1, <2>3 DEF Recorded
<1>8. Found'
  <2>. SUFFICES ASSUME NEW d \in Campaigns \ {c}, marks'[d] = {}, NEW w \in Of(d)'
                PROVE  w \in row'[d].ids \/ Held(w)'
    BY <1>1 DEF Found
  <2>1. w \in Of(d) /\ (w \in row[d].ids \/ Held(w)) /\ w[1] = d
    BY <1>1 DEF Inv, Found, Of
  <2>2. w \notin Made(t)
    BY <2>1 DEF Made, Rewrites
  <2>. QED
    BY <1>1, <1>2, <2>1, <2>2 DEF Held
<1>9. Silent'
  BY <1>1 DEF Inv, Silent, Rewrites
<1>10. Shown'
  <2>1. ASSUME NEW d \in Campaigns \ {c} PROVE RowShown(d)'
    BY <1>1 DEF Inv, Shown, RowShown
  <2>2. ASSUME NEW u \in Threads \ {t} PROVE Unlaunched(u)'
    <3>1. marks[job[u].at] \subseteq marks'[job[u].at]
      BY <1>1, <1>2 DEF Rewrites
    <3>. QED
      BY <1>2, <3>1 DEF Inv, Shown, Unlaunched
  <2>. QED
    BY <2>1, <2>2 DEF Shown
<1>. QED
  BY <1>3, <1>4, <1>5, <1>6, <1>7, <1>8, <1>9, <1>10 DEF Inv

LEMMA CreateInsertsKeeps ==
    ASSUME Inv, NEW t \in Threads, NEW c \in Campaigns, c = job[t].at, CreateInserts(t)
    PROVE  Inv'
<1>1. pc[t] = "create" /\ Done(t) /\ UNCHANGED <<requests, wf, claims, marks>>
  BY DEF CreateInserts
<1>2. CASE row[c] # NoRow
  <2>1. UNCHANGED <<requests, row, fresh, wf, claims, marks>>
    BY <1>1, <1>2 DEF CreateInserts
  <2>. QED
    BY <1>1, <2>1, RestKeeps
<1>3. CASE row[c] = NoRow
  <2>1. PICK result \in Results :
            row' = [row EXCEPT ![c] = [status |-> StatusOf(result), result |-> result, ids |-> {}]]
    BY <1>3 DEF CreateInserts
  <2>. DEFINE r == [status |-> StatusOf(result), result |-> result, ids |-> {}]
  <2>2. fresh' = [fresh EXCEPT ![c] = TRUE]
    BY <1>3 DEF CreateInserts
  <2>3. c \in Campaigns
    BY DEF Inv, TypeInv, JobsTyped, JobType
  <2>4. StatusOf(result) \in {"blocked", "ready"} /\ r \in Row
    BY NothingTyped DEF Row
  <2>5. r.status \in {"blocked", "ready"} /\ r.ids = {}
    BY <2>4
  <2>6. row' = [row EXCEPT ![c] = r]
    BY <2>1
  <2>. HIDE DEF r
  <2>7. row'[c] = r /\ RowsTyped' /\ \A d \in Campaigns \ {c} : row'[d] = row[d]
    BY <2>3, <2>4, <2>6 DEF Inv, TypeInv, RowsTyped
  <2>8. row'[c] # NoRow
    BY <2>4, <2>7, Bounds
  <2>9. Works(t, "idle", Blank(t)) /\ stale' = stale \ {t}
    BY <1>1 DEF Done, Goto, Set, Works
  <2>10. /\ Blank(t) \in JobType /\ Blank(t).at = job[t].at /\ Blank(t).control = "none"
         /\ Blank(t).todo = {} /\ Blank(t).launch = 0 /\ Blank(t).copy.ids = {}
    BY BlankTyped DEF Inv
  <2>11. JobsTyped' /\ pc'[t] = "idle" /\ job'[t] = Blank(t) /\ Apart(t)
    BY <2>9, <2>10, WorksTyped DEF Inv, TypeInv, Apart, Labels
  <2>12. TypeInv'
    <3>1. WorkflowsTyped' /\ MarksTyped'
      BY <1>1 DEF Inv, TypeInv, WorkflowsTyped, MarksTyped
    <3>2. CountsTyped'
      BY <1>1, <2>2, <2>9 DEF Inv, TypeInv, CountsTyped
    <3>3. \A d \in Campaigns : row[d] # NoRow => row'[d] # NoRow
      BY <2>7, <2>8
    <3>4. \A u \in Threads : job[u].at \in Campaigns
      BY DEF Inv, TypeInv, JobsTyped, JobType
    <3>5. Loaded'
      BY <2>11, <3>3, <3>4 DEF Inv, TypeInv, Loaded, Apart
    <3>. QED
      BY <2>7, <2>11, <3>1, <3>2, <3>5 DEF TypeInv
  <2>13. \A u \in Threads : job[u].at = c => pc[u] \in {"idle", "create"}
    BY <1>3 DEF Inv, TypeInv, Loaded
  <2>14. Rewrites(t, c)
    BY <1>1, <2>7, <2>8, <2>9, <2>10, <2>11, <2>13 DEF Rewrites, Overtaken
  <2>15. JobFits(pc'[t], job'[t]) /\ JobKnown(t)' /\ CopyFresh(t)' /\ Unlaunched(t)'
    BY <2>10, <2>11 DEF JobFits, JobKnown, CopyFresh, Unlaunched
  <2>16. row'[c].ids \subseteq Of(c) /\ RowShown(c)'
    BY <2>5, <2>7 DEF RowShown
  <2>17. \A u \in Threads : ~Launches(u, c)' /\ (pc[u] \in {"creating", "finishing"} => job[u].at # c)
    BY <2>11, <2>13 DEF Launches, GivesBack, Apart
  <2>18. Of(c)' = Of(c)
    BY <1>1 DEF Of, Real
  <2>19. Clean(c)' => Of(c) = {}
    BY <1>1, <1>3, <2>3 DEF Inv, SoloLaunch, Recorded, Clean
  <2>20. marks'[c] = {} => Clean(c)'
    BY DEF Clean
  <2>21. Clean(c)' => Recorded(c)'
    BY <2>18, <2>19 DEF Recorded
  <2>. QED
    BY <2>3, <2>5, <2>7, <2>12, <2>14, <2>15, <2>16, <2>17, <2>18, <2>19, <2>20, <2>21, RewriteKeeps
<1>. QED
  BY <1>2, <1>3

LEMMA ClaimKeeps ==
    ASSUME Inv, NEW t \in Threads, NEW c \in Campaigns, c = job[t].at, Claim(t)
    PROVE  Inv'
<1>. DEFINE b == job[t]
            r == [row[c] EXCEPT !.status = "launching"]
            n == claims[c] + 1
            j == [b EXCEPT !.launch = n]
            why == (IF row[c].status = "launching" THEN {"retaken"} ELSE {})
                   \cup (IF row[c].ids # {} THEN {"relaunched"} ELSE {})
<1>1. /\ pc[t] = "claim" /\ claims[c] < MaxClaims
      /\ claims' = [claims EXCEPT ![c] = n]
      /\ row' = [row EXCEPT ![c] = r]
      /\ fresh' = [fresh EXCEPT ![c] = TRUE]
      /\ UNCHANGED <<requests, wf>>
  BY DEF Claim
<1>2. /\ marks' = [marks EXCEPT ![c] = marks[c] \cup why]
      /\ stale' = stale \cup {u \in Threads \ {t} : pc[u] # "idle" /\ job[u].at = c}
  BY DEF Claim
<1>3. Works(t, "creating", j)
  BY DEF Claim, Goto, Set, Works
<1>4. b \in JobType /\ c \in Campaigns /\ row[c] # NoRow /\ row[c] \in Row
  <2>1. b \in JobType /\ c \in Campaigns
    BY DEF Inv, TypeInv, JobsTyped, JobType
  <2>. QED
    BY <1>1, <2>1 DEF Inv, TypeInv, Loaded, RowsTyped
<1>5. n \in 0..MaxClaims
  BY <1>1, <1>4, Bounds DEF Inv, TypeInv, CountsTyped
<1>6. /\ j \in JobType /\ j.at = c /\ j.control = b.control /\ j.before = b.before
      /\ j.todo = b.todo /\ j.copy = b.copy /\ j.launch = n
  BY <1>4, <1>5 DEF JobType
<1>7. r \in Row /\ r.status = "launching" /\ r.ids = row[c].ids /\ r.result = row[c].result
  BY <1>4 DEF Row, Statuses
<1>8. /\ why \subseteq Troubles
      /\ row[c].status = "launching" \/ row[c].ids # {} => why \cap Spoils # {}
  BY DEF Troubles, Spoils
<1>9. (row[c].status = "launching" => "retaken" \in why) /\ (row[c].ids # {} => "relaunched" \in why)
  OBVIOUS
<1>. HIDE DEF j, r, why, n
<1>10. row'[c] = r /\ RowsTyped' /\ \A d \in Campaigns \ {c} : row'[d] = row[d]
  BY <1>1, <1>4, <1>7 DEF Inv, TypeInv, RowsTyped
<1>11. r # NoRow
  BY <1>7, Bounds
<1>12. /\ marks'[c] = marks[c] \cup why /\ MarksTyped'
       /\ \A d \in Campaigns \ {c} : marks'[d] = marks[d]
  BY <1>2, <1>4, <1>8 DEF Inv, TypeInv, MarksTyped
<1>13. JobsTyped' /\ pc'[t] = "creating" /\ job'[t] = j /\ Apart(t)
  BY <1>3, <1>6, WorksTyped DEF Inv, TypeInv, Apart, Labels
<1>14. TypeInv'
  <2>1. WorkflowsTyped'
    BY <1>1 DEF Inv, TypeInv, WorkflowsTyped
  <2>2. CountsTyped'
    BY <1>1, <1>2, <1>4, <1>5 DEF Inv, TypeInv, CountsTyped
  <2>3. \A d \in Campaigns : row[d] # NoRow => row'[d] # NoRow
    BY <1>10, <1>11
  <2>4. \A u \in Threads : job[u].at \in Campaigns
    BY DEF Inv, TypeInv, JobsTyped, JobType
  <2>5. Loaded'
    BY <1>4, <1>6, <1>13, <2>3, <2>4 DEF Inv, TypeInv, Loaded, Apart
  <2>. QED
    BY <1>10, <1>12, <1>13, <2>1, <2>2, <2>5 DEF TypeInv
<1>15. Rewrites(t, c)
  BY <1>1, <1>2, <1>6, <1>10, <1>11, <1>12, <1>13 DEF Rewrites, Overtaken
<1>16. JobFits(pc'[t], job'[t])
  BY <1>1, <1>6, <1>13 DEF Inv, JobsFit, JobFits
<1>17. Of(c)' = Of(c) /\ \A d \in Campaigns : Of(d)' = Of(d)
  BY <1>1, <1>6, <1>13 DEF Of, Real
<1>18. JobKnown(t)'
  BY <1>4, <1>6, <1>13, <1>17 DEF Inv, JobsKnown, JobKnown
<1>19. CopyFresh(t)'
  BY <1>13 DEF CopyFresh
<1>20. Unlaunched(t)'
  BY <1>1, <1>6, <1>12, <1>13 DEF Inv, Shown, Unlaunched
<1>21. row'[c].ids \subseteq Of(c)
  BY <1>4, <1>7, <1>10 DEF Inv, RowsKnown
<1>22. RowShown(c)'
  BY <1>4, <1>7, <1>10, <1>12 DEF Inv, Shown, RowShown
<1>23. Clean(c)' => Of(c) = {} /\ \A u \in Threads \ {t} : ~Launches(u, c)'
  <2>. SUFFICES ASSUME Clean(c)'
                PROVE  Of(c) = {} /\ \A u \in Threads \ {t} : ~Launches(u, c)'
    OBVIOUS
  <2>1. (marks[c] \cup why) \cap Spoils = {}
    BY <1>6, <1>12, <1>13 DEF Clean
  <2>2. Clean(c) /\ row[c].status # "launching" /\ row[c].ids = {}
    BY <1>9, <2>1 DEF Clean, Spoils
  <2>3. Recorded(c) /\ \A u \in Threads : Launches(u, c) => Sole(u, c)
    BY <1>4, <2>2 DEF Inv, SoloLaunch
  <2>4. Of(c) = {} /\ \A u \in Threads : ~Launches(u, c)
    BY <2>2, <2>3 DEF Recorded, Sole
  <2>. QED
    BY <1>6, <1>13, <2>4 DEF Launches, GivesBack, Apart
<1>24. Clean(c)' => /\ \A u \in Threads : Launches(u, c)' => Sole(u, c)'
                    /\ Recorded(c)'
                    /\ \A v, w \in Of(c) : v[2] = w[2]
  <2>1. Clean(c)' => Sole(t, c)'
    BY <1>6, <1>7, <1>10, <1>13, <1>17, <1>23 DEF Sole, GivesBack
  <2>2. Clean(c)' => Recorded(c)'
    BY <1>6, <1>13, <1>17, <1>23 DEF Recorded
  <2>. QED
    BY <1>23, <2>1, <2>2
<1>25. marks'[c] = {} => Clean(c)'
  BY <1>6, <1>13 DEF Clean
<1>26. row'[c].status # "cancelled"
  BY <1>7, <1>10
<1>. QED
  BY <1>4, <1>14, <1>15, <1>16, <1>18, <1>19, <1>20, <1>21, <1>22, <1>23, <1>24, <1>25, <1>26, RewriteKeeps

(* The write of a copy that may be out of date.                            *)
LEMMA UpdateWritesKeeps ==
    ASSUME Inv, NEW t \in Threads, NEW c \in Campaigns, c = job[t].at,
           NEW b \in JobType, b = job[t], NEW r \in Row, r = b.copy, UpdateWrites(t)
    PROVE  Inv'
<1>. DEFINE why == Wrongs(t)
<1>1. /\ pc[t] \in {"saving", "finishing"}
      /\ row' = [row EXCEPT ![c] = r] /\ fresh' = [fresh EXCEPT ![c] = TRUE]
      /\ stale' = (stale \ {t}) \cup {u \in Threads \ {t} : pc[u] # "idle" /\ job[u].at = c}
      /\ marks' = [marks EXCEPT ![c] = marks[c] \cup why]
      /\ UNCHANGED <<requests, wf, claims>>
  BY DEF UpdateWrites, Write
<1>2. /\ pc[t] = "finishing" => Works(t, "event", b)
      /\ pc[t] = "saving" => Works(t, "idle", Blank(t))
  <2>1. CASE pc[t] = "finishing"
    <3>1. pc' = [pc EXCEPT ![t] = "event"] /\ job' = job
      BY <2>1 DEF UpdateWrites, Goto
    <3>. QED
      BY <2>1, <3>1 DEF Works, Inv, TypeInv, JobsTyped
  <2>2. CASE pc[t] = "saving"
    BY <2>2 DEF UpdateWrites, Works, Goto, Set
  <2>. QED
    BY <1>1, <2>1, <2>2
<1>3. /\ t \in stale => "lost" \in why
      /\ b.control = "edit" /\ r.ids # {} /\ b.before # "launched" => "edited" \in why
      /\ b.control # "launch" /\ row[c].status = "launching" => "reset" \in why
      /\ why \subseteq Troubles
  BY DEF Wrongs, Troubles
<1>. HIDE DEF why
<1>4. row[c] # NoRow
  BY <1>1 DEF Inv, TypeInv, Loaded
<1>5. row'[c] = r /\ RowsTyped' /\ r # NoRow /\ \A d \in Campaigns \ {c} : row'[d] = row[d]
  BY <1>1, Bounds DEF Inv, TypeInv, RowsTyped
<1>6. /\ marks'[c] = marks[c] \cup why /\ MarksTyped'
      /\ \A d \in Campaigns \ {c} : marks'[d] = marks[d]
  BY <1>1, <1>3 DEF Inv, TypeInv, MarksTyped
<1>7. /\ Blank(t) \in JobType /\ Blank(t).at = c /\ Blank(t).control = "none"
      /\ Blank(t).todo = {} /\ Blank(t).launch = 0 /\ Blank(t).copy.ids = {}
  BY BlankTyped DEF Inv
<1>8. /\ JobsTyped' /\ Apart(t) /\ job'[t].at = c
      /\ \/ pc[t] = "finishing" /\ pc'[t] = "event" /\ job'[t] = b
         \/ pc[t] = "saving" /\ pc'[t] = "idle" /\ job'[t] = Blank(t)
  <2>1. CASE pc[t] = "finishing"
    BY <1>2, <2>1, WorksTyped DEF Inv, TypeInv, Apart, Labels
  <2>2. CASE pc[t] = "saving"
    BY <1>2, <1>7, <2>2, WorksTyped DEF Inv, TypeInv, Apart, Labels
  <2>. QED
    BY <1>1, <2>1, <2>2
<1>9. TypeInv'
  <2>1. WorkflowsTyped' /\ CountsTyped'
    BY <1>1 DEF Inv, TypeInv, WorkflowsTyped, CountsTyped
  <2>2. \A d \in Campaigns : row[d] # NoRow => row'[d] # NoRow
    BY <1>5
  <2>3. \A u \in Threads : job[u].at \in Campaigns
    BY DEF Inv, TypeInv, JobsTyped, JobType
  <2>4. Loaded'
    BY <1>5, <1>8, <2>2, <2>3 DEF Inv, TypeInv, Loaded, Apart
  <2>. QED
    BY <1>5, <1>6, <1>8, <2>1, <2>4 DEF TypeInv
<1>10. Rewrites(t, c)
  BY <1>1, <1>5, <1>6, <1>8 DEF Rewrites, Overtaken
<1>11. JobFits(pc[t], b) /\ JobKnown(t) /\ Unlaunched(t) /\ RowShown(c)
  BY DEF Inv, JobsFit, JobsKnown, Shown
<1>12. JobFits(pc'[t], job'[t])
  BY <1>7, <1>8, <1>11 DEF JobFits
<1>13. \A d \in Campaigns : Of(d)' = Of(d)
  BY <1>1 DEF Of, Real
<1>14. JobKnown(t)'
  <2>1. CASE pc[t] = "finishing"
    <3>1. Made(t)' = Made(t)
      BY <1>1, <1>8, <2>1 DEF Made
    <3>. QED
      BY <1>8, <1>11, <1>13, <2>1, <3>1 DEF JobKnown
  <2>2. CASE pc[t] = "saving"
    BY <1>7, <1>8, <2>2 DEF JobKnown
  <2>. QED
    BY <1>8, <2>1, <2>2
<1>15. CopyFresh(t)' /\ Unlaunched(t)'
  <2>1. CopyFresh(t)'
    BY <1>8 DEF CopyFresh
  <2>2. CASE pc[t] = "finishing"
    BY <1>6, <1>8, <1>11, <2>1, <2>2 DEF Unlaunched
  <2>3. CASE pc[t] = "saving"
    BY <1>8, <2>1, <2>3 DEF Unlaunched
  <2>. QED
    BY <1>8, <2>1, <2>2, <2>3
<1>16. row'[c].ids \subseteq Of(c)
  BY <1>5, <1>11 DEF JobKnown
<1>17. t \notin stale => CopyFresh(t)
  BY DEF Inv, CopiesFresh
<1>18. RowShown(c)'
  <2>. SUFFICES ASSUME t \notin stale, "lost" \notin marks[c]
                PROVE  /\ r.status = "launched" => r.ids # {}
                       /\ "edited" \notin why /\ "edited" \notin marks[c] /\ r.ids # {} =>
                             Recipients(r.result) = {w[3] : w \in r.ids}
    BY <1>3, <1>5, <1>6 DEF RowShown
  <2>1. CASE pc[t] = "finishing"
    BY <1>11, <2>1 DEF JobFits
  <2>2. CASE pc[t] = "saving"
    <3>1. r.ids = row[c].ids /\ (b.control # "edit" => r.result = row[c].result)
      BY <1>17, <2>2 DEF CopyFresh
    <3>2. CASE b.control = "edit"
      BY <1>3, <1>11, <2>2, <3>2 DEF JobFits
    <3>3. CASE b.control = "launch"
      BY <1>4, <1>11, <2>2, <3>1, <3>3 DEF JobFits, Unlaunched, RowShown
    <3>4. CASE b.control \in Controls
      <4>1. r.status = After[b.control]
        BY <1>11, <2>2, <3>4 DEF JobFits
      <4>2. r.status = "launched" => r.ids # {}
        BY <1>17, <2>2, <3>1, <3>4, <4>1 DEF CopyFresh, Controls, After
      <4>. QED
        BY <1>4, <1>11, <3>1, <3>4, <4>2 DEF RowShown, Controls
    <3>. QED
      BY <1>11, <2>2, <3>2, <3>3, <3>4 DEF JobFits
  <2>. QED
    BY <1>1, <2>1, <2>2
<1>19. ASSUME Clean(c)'
       PROVE  /\ Clean(c) /\ t \notin stale
              /\ b.control # "launch" => row[c].status # "launching"
              /\ \A u \in Threads : Launches(u, c) => Sole(u, c)
              /\ Recorded(c) /\ \A v, w \in Of(c) : v[2] = w[2]
  <2>1. (marks[c] \cup why) \cap Spoils = {}
    BY <1>6, <1>19 DEF Clean
  <2>2. Clean(c) /\ "lost" \notin why /\ "reset" \notin why
    BY <2>1 DEF Clean, Spoils
  <2>. QED
    BY <1>3, <2>2 DEF Inv, SoloLaunch
(* Who writes an unspoilt campaign holds its claim, or finds it free.      *)
<1>20. ASSUME Clean(c)'
       PROVE  /\ \A u \in Threads \ {t} : ~Launches(u, c)
              /\ Of(c) # {} => r.ids # {}
              /\ Of(c) \subseteq r.ids \/ (pc[t] = "saving" /\ r.ids = row[c].ids)
  <2>1. CASE pc[t] = "finishing"
    <3>1. Launches(t, c)
      BY <2>1 DEF Launches
    <3>2. Sole(t, c)
      BY <1>19, <1>20, <3>1
    <3>. QED
      BY <2>1, <3>2 DEF Sole
  <2>2. CASE pc[t] = "saving"
    <3>1. r.ids = row[c].ids
      BY <1>17, <1>19, <1>20, <2>2 DEF CopyFresh
    <3>2. CASE b.control = "launch"
      <4>1. GivesBack(t) /\ Launches(t, c)
        BY <2>2, <3>2 DEF Launches, GivesBack
      <4>2. Sole(t, c) /\ Of(c) = {}
        BY <1>19, <1>20, <4>1 DEF Sole
      <4>. QED
        BY <4>2 DEF Sole
    <3>3. CASE b.control # "launch"
      BY <1>19, <1>20, <2>2, <3>1, <3>3 DEF Sole, Recorded, Launches, GivesBack
    <3>. QED
      BY <3>2, <3>3
  <2>. QED
    BY <1>1, <2>1, <2>2
<1>21. \A u \in Threads : u # t => (Launches(u, c)' <=> Launches(u, c))
  BY <1>8 DEF Launches, GivesBack, Apart
<1>22. ~Launches(t, c)'
  BY <1>8 DEF Launches, GivesBack
<1>23. Clean(c)' => /\ \A u \in Threads : Launches(u, c)' => Sole(u, c)'
                    /\ Recorded(c)'
                    /\ \A v, w \in Of(c) : v[2] = w[2]
  <2>1. Clean(c)' => Recorded(c)'
    BY <1>5, <1>13, <1>20 DEF Recorded
  <2>. QED
    BY <1>19, <1>20, <1>21, <1>22, <2>1
<1>24. marks'[c] = {} => marks[c] = {} /\ Clean(c)'
  BY <1>6 DEF Clean
<1>25. marks'[c] = {} => \A w \in Of(c) : w \in row'[c].ids \/ Held(w)'
  <2>. SUFFICES ASSUME marks'[c] = {}, NEW w \in Of(c), w \notin r.ids PROVE Held(w)'
    BY <1>5
  <2>1. Clean(c)' /\ pc[t] = "saving" /\ w \notin row[c].ids
    BY <1>20, <1>24
  <2>2. PICK u \in Threads : pc[u] \in {"creating", "finishing"} /\ w \in Made(u)
    BY <1>24, <2>1 DEF Inv, Found, Held
  <2>3. Launches(u, c) /\ u # t
    BY <2>1, <2>2 DEF Made, Of, Launches
  <2>. QED
    BY <1>20, <2>1, <2>3
<1>26. marks'[c] = {} /\ row'[c].status = "cancelled" => \A w \in row'[c].ids : wf[w] = "over"
  <2>. SUFFICES ASSUME marks'[c] = {}, r.status = "cancelled", NEW w \in r.ids PROVE wf[w] = "over"
    BY <1>5
  <2>1. marks[c] = {} /\ t \notin stale /\ Clean(c)'
    BY <1>19, <1>24
  <2>2. pc[t] = "saving" /\ r.ids = row[c].ids
    BY <1>1, <1>11, <1>17, <2>1 DEF CopyFresh, JobFits
  <2>3. CASE b.control = "launch"
    <3>1. GivesBack(t) /\ Launches(t, c)
      BY <2>2, <2>3 DEF Launches, GivesBack
    <3>2. Of(c) = {}
      BY <1>19, <2>1, <3>1 DEF Sole
    <3>. QED
      BY <1>5, <1>16, <3>2
  <2>4. CASE b.control = "edit"
    BY <1>11, <2>2, <2>4 DEF JobFits
  <2>5. CASE b.control \in Controls
    <3>1. b.control = "cancel" /\ b.todo = {}
      BY <1>11, <2>2, <2>5 DEF JobFits, Controls, After
    <3>. QED
      BY <1>17, <2>1, <2>2, <3>1 DEF CopyFresh
  <2>. QED
    BY <1>11, <2>2, <2>3, <2>4, <2>5 DEF JobFits
<1>. QED
  BY <1>9, <1>10, <1>12, <1>14, <1>15, <1>16, <1>18, <1>23, <1>25, <1>26, RewriteKeeps

LEMMA CrashKeeps ==
    ASSUME Inv, Crash
    PROVE  Inv'
<1>1. UNCHANGED <<requests, row, fresh, wf, claims>> /\ stale' = {}
  BY DEF Crash
<1>2. ASSUME NEW t \in Threads
      PROVE  /\ pc'[t] = "idle" /\ job'[t] = Blank(t) /\ job[t].at \in Campaigns
             /\ Blank(t) \in JobType /\ Blank(t).todo = {} /\ Blank(t).copy.ids = {}
  <2>1. Blank(t) \in JobType /\ Blank(t).todo = {} /\ Blank(t).copy.ids = {}
    BY BlankTyped DEF Inv
  <2>2. pc'[t] = "idle" /\ job'[t] = Blank(t)
    BY DEF Crash
  <2>. QED
    BY <2>1, <2>2 DEF Inv, TypeInv, JobsTyped, JobType
<1>3. TypeInv'
  <2>1. JobsTyped'
    BY <1>2 DEF Crash, JobsTyped, Labels
  <2>2. MarksTyped'
    BY DEF Crash, Inv, TypeInv, MarksTyped, Troubles
  <2>3. Loaded'
    BY <1>2 DEF Loaded
  <2>. QED
    BY <1>1, <2>1, <2>2, <2>3 DEF Inv, TypeInv, RowsTyped, WorkflowsTyped, CountsTyped
<1>4. ASSUME NEW c \in Campaigns
      PROVE  /\ Of(c)' = Of(c) /\ marks[c] \subseteq marks'[c] /\ (Clean(c)' => Clean(c))
             /\ marks'[c] = {} => /\ marks[c] = {} /\ Clean(c)
                                  /\ \A w \in Of(c) : ~Held(w)
  <2>1. Of(c)' = Of(c)
    BY <1>1 DEF Of, Real
  <2>2. marks'[c] = IF \E t \in Threads : /\ job[t].at = c /\ Made(t) # {}
                                          /\ pc[t] \in {"creating", "finishing", "release"}
                    THEN marks[c] \cup {"crashed"} ELSE marks[c]
    BY DEF Crash
  <2>3. ASSUME marks'[c] = {}, NEW w \in Of(c), Held(w) PROVE FALSE
    BY <2>2, <2>3 DEF Held, Of, Made
  <2>. QED
    BY <2>1, <2>2, <2>3 DEF Clean
<1>5. JobsFit' /\ JobsKnown' /\ CopiesFresh'
  BY <1>2 DEF JobsFit, JobFits, JobsKnown, JobKnown, CopiesFresh, CopyFresh
<1>6. RowsKnown'
  BY <1>1, <1>4 DEF Inv, RowsKnown
<1>7. SoloLaunch'
  <2>1. \A c \in Campaigns, t \in Threads : ~Launches(t, c)'
    BY <1>2 DEF Launches, GivesBack
  <2>2. \A c \in Campaigns : Recorded(c) => Recorded(c)'
    BY <1>1, <1>4 DEF Recorded
  <2>. QED
    BY <1>4, <2>1, <2>2 DEF Inv, SoloLaunch
<1>8. Found'
  BY <1>1, <1>4 DEF Inv, Found
<1>9. Silent'
  BY <1>1, <1>4 DEF Inv, Silent
<1>10. Shown'
  <2>1. ASSUME NEW c \in Campaigns PROVE RowShown(c)'
    BY <1>1, <1>4 DEF Inv, Shown, RowShown
  <2>. QED
    BY <1>2, <2>1 DEF Shown, Unlaunched
<1>. QED
  BY <1>3, <1>5, <1>6, <1>7, <1>8, <1>9, <1>10 DEF Inv

(* Nothing the invariant speaks of changes.                                *)
LEMMA NothingChanges ==
    ASSUME Inv, UNCHANGED <<row, wf, pc, job, stale, marks>>, TypeInv'
    PROVE  Inv'
<1>1. JobsFit' /\ RowsKnown' /\ JobsKnown' /\ CopiesFresh'
  BY DEF Inv, JobsFit, RowsKnown, JobsKnown, JobKnown, CopiesFresh, CopyFresh, Of, Real, Made
<1>2. SoloLaunch'
  BY DEF Inv, SoloLaunch, Sole, Recorded, Clean, Launches, GivesBack, Of, Real, Made
<1>3. Found' /\ Silent' /\ Shown'
  BY DEF Inv, Found, Held, Silent, Shown, RowShown, Unlaunched, Of, Real, Made
<1>. QED
  BY <1>1, <1>2, <1>3 DEF Inv

LEMMA InvInit == Init => Inv
<1>. SUFFICES ASSUME Init PROVE Inv
  OBVIOUS
<1>1. PICK c \in Campaigns : job = [t \in Threads |-> Job(c, "none", "blocked", Nothing)]
  BY DEF Init
<1>2. Job(c, "none", "blocked", Nothing) \in JobType
  BY JobTyped, NothingTyped
<1>3. \A t \in Threads : pc[t] = "idle" /\ job[t].todo = {} /\ job[t].copy.ids = {}
  BY <1>1 DEF Init, Job
<1>4. TypeInv
  <2>1. JobsTyped
    BY <1>1, <1>2 DEF Init, JobsTyped, Labels
  <2>2. RowsTyped /\ WorkflowsTyped /\ MarksTyped
    BY DEF Init, RowsTyped, WorkflowsTyped, MarksTyped, States
  <2>3. CountsTyped
    BY Bounds DEF Init, CountsTyped
  <2>. QED
    BY <1>3, <2>1, <2>2, <2>3 DEF TypeInv, Loaded
<1>5. \A c_1 \in Campaigns : Of(c_1) = {} /\ row[c_1] = NoRow
  BY DEF Init, Of, Real
<1>6. JobsFit /\ JobsKnown /\ CopiesFresh
  BY <1>3 DEF JobsFit, JobFits, JobsKnown, JobKnown, CopiesFresh, CopyFresh
<1>7. RowsKnown /\ Found /\ Silent /\ Shown
  BY <1>3, <1>5 DEF RowsKnown, Found, Silent, Shown, RowShown, Unlaunched
<1>8. SoloLaunch
  BY <1>3, <1>5 DEF SoloLaunch, Recorded, Launches, GivesBack
<1>. QED
  BY <1>4, <1>6, <1>7, <1>8 DEF Inv

LEMMA InvStep == Inv /\ [Next]_vars => Inv'
<1>. SUFFICES ASSUME Inv, [Next]_vars PROVE Inv'
  OBVIOUS
<1>1. ASSUME NEW t \in Threads, Request(t) PROVE Inv'
  BY <1>1, CreateLooksUpKeeps, EditLoadsKeeps, LaunchLoadsKeeps, ControlLoadsKeeps DEF Request
<1>2. ASSUME NEW t \in Threads, Step(t) PROVE Inv'
  <2>1. PICK c \in Campaigns, b \in JobType, r \in Row : c = job[t].at /\ b = job[t] /\ r = b.copy
    BY DEF Inv, TypeInv, JobsTyped, JobType
  <2>2. CASE CreateInserts(t)
    BY <2>1, <2>2, CreateInsertsKeeps
  <2>3. CASE UpdateReads(t)
    BY <2>3, UpdateReadsKeeps
  <2>4. CASE UpdateWrites(t)
    BY <2>1, <2>4, UpdateWritesKeeps
  <2>5. CASE Claim(t)
    BY <2>1, <2>5, ClaimKeeps
  <2>6. CASE ClaimLost(t)
    BY <2>6, RestKeeps DEF ClaimLost
  <2>7. CASE CreateWorkflow(t)
    BY <2>7, CreateWorkflowKeeps
  <2>8. CASE LaunchDone(t)
    BY <2>8, LaunchDoneKeeps
  <2>9. CASE AddEvent(t)
    BY <2>9, RestKeeps DEF AddEvent
  <2>10. CASE ControlOne(t)
    BY <2>10, ControlOneKeeps
  <2>11. CASE ControlDone(t)
    BY <2>11, ControlDoneKeeps
  <2>. QED
    BY <1>2, <2>2, <2>3, <2>4, <2>5, <2>6, <2>7, <2>8, <2>9, <2>10, <2>11 DEF Step
<1>3. ASSUME NEW t \in Threads, LaunchFails(t) PROVE Inv'
  BY <1>3, LaunchFailsKeeps
<1>4. ASSUME NEW t \in Threads, Aborts(t) PROVE Inv'
  BY <1>4, RestKeeps DEF Aborts
<1>5. CASE Crash
  BY <1>5, CrashKeeps
<1>6. ASSUME NEW c \in Campaigns, TimePasses(c) PROVE Inv'
  <2>1. UNCHANGED <<requests, row, wf, claims, pc, job, stale, marks>>
        /\ fresh' = [fresh EXCEPT ![c] = FALSE]
    BY <1>6 DEF TimePasses
  <2>2. TypeInv'
    BY <2>1 DEF Inv, TypeInv, RowsTyped, WorkflowsTyped, JobsTyped, MarksTyped, CountsTyped, Loaded
  <2>. QED
    BY <2>1, <2>2, NothingChanges
<1>7. CASE UNCHANGED vars
  <2>1. TypeInv'
    BY <1>7 DEF vars, Inv, TypeInv, RowsTyped, WorkflowsTyped, JobsTyped, MarksTyped,
                CountsTyped, Loaded
  <2>. QED
    BY <1>7, <2>1, NothingChanges DEF vars
<1>. QED
  BY <1>1, <1>2, <1>3, <1>4, <1>5, <1>6, <1>7 DEF Next

(***************************************************************************)
(* What follows.                                                           *)
(***************************************************************************)

(* Every variable of the model has its type in every reachable state.      *)
THEOREM TypeCorrect == Spec => []TypeOK
<1>1. Inv => TypeOK
  BY DEF Inv, TypeInv, TypeOK, RowsTyped, WorkflowsTyped, JobsTyped, MarksTyped, CountsTyped,
         Labels, States, Troubles
<1>. QED
  BY <1>1, InvInit, InvStep, PTL DEF Spec

(* launch_campaign never starts two sequences to one recipient of a        *)
(* campaign, unless a launch was given back half done, retaken or repeated,*)
(* or a stale update() put the row back.                                   *)
THEOREM OneLaunchHolds == Spec => []OneSequence
<1>1. ASSUME Inv, NEW v \in Workflows, NEW w \in Workflows, v[1] = w[1], v[3] = w[3],
             wf[v] # "none", wf[w] # "none", Clean(v[1])
      PROVE  v = w
  <2>1. v[1] \in Campaigns /\ v \in Of(v[1]) /\ w \in Of(v[1])
    BY <1>1 DEF Workflows, Of, Real
  <2>2. v[2] = w[2]
    BY <1>1, <2>1 DEF Inv, SoloLaunch
  <2>. QED
    BY <1>1, <2>2 DEF Workflows
<1>2. Inv => OneSequence
  BY <1>1 DEF OneSequence, Clean, Spoils
<1>. QED
  BY <1>2, InvInit, InvStep, PTL DEF Spec

(* Every workflow that can still send is on its campaign's row, where      *)
(* _control_campaign finds it, or held by the launch that makes it.        *)
THEOREM NothingOrphaned == Spec => []NoOrphan
<1>1. ASSUME Inv, NEW w \in Workflows, wf[w] # "none", marks[w[1]] = {}
      PROVE  row[w[1]] # NoRow /\ (w \in row[w[1]].ids \/ \E t \in Threads : w \in Made(t))
  <2>1. w[1] \in Campaigns /\ w \in Of(w[1]) /\ Clean(w[1])
    BY <1>1 DEF Workflows, Of, Real, Clean
  <2>2. row[w[1]] # NoRow
    BY <1>1, <2>1 DEF Inv, SoloLaunch, Recorded
  <2>. QED
    BY <1>1, <2>1, <2>2 DEF Inv, Found, Held
<1>2. Inv => NoOrphan
  BY <1>1 DEF NoOrphan
<1>. QED
  BY <1>2, InvInit, InvStep, PTL DEF Spec

(* A cancelled campaign's workflows are over, but those of a launch under  *)
(* way, unless an overwritten row hid them from the cancel.                *)
THEOREM CancelSilences == Spec => []CancelledIsSilent
<1>1. ASSUME Inv, NEW w \in Workflows, row[w[1]] # NoRow, row[w[1]].status = "cancelled",
             marks[w[1]] = {}
      PROVE  wf[w] \in {"none", "over"} \/ \E t \in Threads : w \in Made(t)
  <2>1. w[1] \in Campaigns
    BY DEF Workflows
  <2>2. CASE wf[w] = "none"
    BY <2>2
  <2>3. CASE wf[w] # "none"
    <3>1. w \in Of(w[1])
      BY <2>3 DEF Of, Real
    <3>. QED
      BY <1>1, <2>1, <3>1 DEF Inv, Found, Held, Silent
  <2>. QED
    BY <2>2, <2>3
<1>2. Inv => CancelledIsSilent
  BY <1>1 DEF CancelledIsSilent
<1>. QED
  BY <1>2, InvInit, InvStep, PTL DEF Spec

(* A launched campaign shows the recipients its workflows write to.        *)
THEOREM SentIsShown == Spec => []ShownIsSent
<1>1. Inv => ShownIsSent
  BY DEF Inv, Shown, RowShown, ShownIsSent
<1>. QED
  BY <1>1, InvInit, InvStep, PTL DEF Spec
=============================================================================
