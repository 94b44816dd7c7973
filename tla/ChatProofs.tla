----------------------------- MODULE ChatProofs ------------------------------
(***************************************************************************)
(* Proofs about Chat: for any companies and turns, any number of hops, of  *)
(* tools called in one, of turns that die and of saves that fail.          *)
(***************************************************************************)
EXTENDS Chat, TLAPS

(***************************************************************************)
(* Types                                                                   *)
(***************************************************************************)

Places == {"idle", "model", "tool", "promise", "finally"}
Turn == [at: Places, hop: 0..MaxHops, call: -1..MaxCalls, ws: Workspace, has: SUBSET (1..MaxTurns),
         drafted: BOOLEAN, switched: BOOLEAN, num: 0..MaxTurns]
ConvTyped == conv \in [ws: Workspace, has: SUBSET (1..MaxTurns)]
TurnsTyped ==
    /\ turn \in [Turns -> Turn]
    /\ \A t \in Turns : /\ turn[t].at = "tool" => turn[t].call \in 1..MaxCalls
                        /\ turn[t].at \in {"model", "promise"} => turn[t].call = 0
                        /\ turn[t].at # "idle" => turn[t].num \in 1..MaxTurns
CountsTyped == begun \in 0..MaxTurns /\ ended \cup crossed \cup unsaved \subseteq 1..MaxTurns
TypeInv == ConvTyped /\ TurnsTyped /\ CountsTyped

(***************************************************************************)
(* What a turn ended with is in every copy: turns in progress at once have *)
(* crossed, and a turn that is alone has what was saved before it.         *)
(***************************************************************************)

OwnTurn == \A t \in Busy : turn[t].num \in turn[t].has
Overlaps == \A t, o \in Busy : t # o => turn[t].num \in crossed
CopiesSaved == \A t \in Busy : ended \ (crossed \cup unsaved) \subseteq turn[t].has
SaveInv == OwnTurn /\ Overlaps /\ CopiesSaved /\ EndedIsSaved

LEMMA Bounds ==
    /\ None \notin Companies /\ MaxHops \in Nat /\ MaxHops > 0 /\ MaxCalls \in Nat /\ MaxCalls > 0
    /\ MaxTurns \in Nat /\ MaxTurns > 0 /\ 0 \in 0..MaxHops /\ 0 \in -1..MaxCalls /\ 0 \in 0..MaxTurns
    /\ None \notin Letter /\ None \in Named /\ Companies \subseteq Named
  BY ChatAssumption, NoneAssumption DEF Named

LEMMA EmptyTyped == Empty \in Workspace
  BY DEF Empty, Workspace, Named, Draft

LEMMA IdleTyped == Idle \in Turn /\ Idle.at = "idle" /\ Idle.switched = FALSE
  BY Bounds, EmptyTyped DEF Idle, Turn, Places

LEMMA WorkspaceTyped ==
    ASSUME NEW ws \in Workspace
    PROVE  /\ ws.company \in Named /\ ws.url \in Named /\ ws.research \in Named
           /\ ws.cache \in SUBSET Companies /\ ws.intel \in Named
           /\ ws.advice \in SUBSET Companies /\ ws.email \in Draft
  BY DEF Workspace

LEMMA MaterialTyped ==
    ASSUME NEW ws \in Workspace
    PROVE  /\ Base(ws) \in Named /\ Material(ws) \in SUBSET Companies
           /\ Before(ws) \in SUBSET Companies
<1>1. Base(ws) \in Named
  BY WorkspaceTyped, Bounds DEF Base
<1>2. Material(ws) \in SUBSET Companies
  BY <1>1, WorkspaceTyped, Bounds DEF Material, Named
<1>3. Before(ws) \in SUBSET Companies
  BY WorkspaceTyped DEF Before, Draft, Letter
<1>. QED
  BY <1>1, <1>2, <1>3

LEMMA OnFileTyped ==
    ASSUME NEW ws \in Workspace, NEW q \in Companies
    PROVE  /\ OnFile(ws, q) \in Workspace /\ OnFile(ws, q).email = ws.email
           /\ OnFile(ws, q).research = q /\ OnFile(ws, q).company = q
           /\ OnFile(ws, q).cache = ws.cache
  BY Bounds DEF OnFile, Workspace

LEMMA RetargetedTyped ==
    ASSUME NEW ws \in Workspace, NEW q \in Companies
    PROVE  /\ Retargeted(ws, q) \in Workspace /\ Retargeted(ws, q).email = None
           /\ Retargeted(ws, q).research = q
           /\ Retargeted(ws, q).company = q /\ Retargeted(ws, q).intel = None
           /\ Retargeted(ws, q).advice = {}
  BY OnFileTyped DEF Retargeted, Workspace, Named, Draft

(* The material of a company that was just put on file.                    *)
LEMMA RetargetedMaterial ==
    ASSUME NEW ws \in Workspace, NEW q \in Companies
    PROVE  Base(Retargeted(ws, q)) = q /\ Material(Retargeted(ws, q)) = {q}
<1>1. PICK w : w = Retargeted(ws, q)
  OBVIOUS
<1>2. w.intel = None /\ w.research = q /\ q # None
  BY <1>1, RetargetedTyped, Bounds
<1>3. Base(w) = q
  BY <1>2 DEF Base
<1>4. Material(w) = {q}
  BY <1>2, <1>3 DEF Material
<1>. QED
  BY <1>1, <1>3, <1>4

(***************************************************************************)
(* The steps of a turn, by what they leave.                                *)
(***************************************************************************)

(* The turn t becomes r and stays the turn it was.                         *)
Becomes(t, r) == /\ turn' = [turn EXCEPT ![t] = r] /\ Local
                 /\ turn[t].at # "idle" /\ r.at # "idle"
                 /\ r.num = turn[t].num /\ r.has = turn[t].has
                 /\ r.at = "tool" => r.call \in 1..MaxCalls
                 /\ r.at \in {"model", "promise"} => r.call = 0

LEMMA TurnTyped ==
    ASSUME TypeInv, NEW t \in Turns
    PROVE  /\ turn[t] \in Turn /\ turn[t].ws \in Workspace /\ turn[t].at \in Places
           /\ turn[t].hop \in 0..MaxHops /\ turn[t].call \in -1..MaxCalls
           /\ turn[t].at = "tool" => turn[t].call \in 1..MaxCalls
           /\ turn[t].at \in {"model", "promise"} => turn[t].call = 0
  BY DEF TypeInv, TurnsTyped, Turn

LEMMA SilentTyped ==
    ASSUME NEW r \in Turn
    PROVE  /\ Silent(r) \in Turn /\ Silent(r).switched = FALSE /\ Silent(r).at = r.at
           /\ Silent(r).ws = r.ws /\ Silent(r).num = r.num /\ Silent(r).has = r.has
           /\ Silent(r).call = r.call /\ Silent(r).hop = r.hop /\ Silent(r).drafted = r.drafted
  BY Bounds DEF Silent, Turn

LEMMA AfterTyped ==
    ASSUME NEW r \in Turn, r.at \in {"tool", "promise"}, r.at = "tool" => r.call \in 1..MaxCalls,
           r.at = "promise" => r.call = 0
    PROVE  /\ After(r) \in Turn /\ After(r).at # "idle" /\ After(r).ws = r.ws
           /\ After(r).num = r.num /\ After(r).has = r.has /\ After(r).switched = r.switched
           /\ After(r).at = "tool" => After(r).call \in 1..MaxCalls
           /\ After(r).at \in {"model", "promise"} => After(r).call = 0
<1>. DEFINE where == CASE r.at = "promise" -> "finally"
                       [] r.call > 1 -> "tool"
                       [] OTHER -> "model"
<1>1. \/ r.at = "promise" /\ where = "finally"
      \/ r.at = "tool" /\ r.call > 1 /\ where = "tool"
      \/ r.at = "tool" /\ r.call = 1 /\ where = "model"
  BY Bounds
<1>2. After(r) = [r EXCEPT !.at = where, !.call = r.call - 1]
  BY DEF After
<1>. HIDE DEF where
<1>3. PICK place \in Places : place = where
  BY <1>1 DEF Places
<1>4. PICK c \in -1..MaxCalls : c = r.call - 1
  BY Bounds
<1>5. PICK m : m = After(r)
  OBVIOUS
<1>6. m = [r EXCEPT !.at = place, !.call = c]
  BY <1>2, <1>3, <1>4, <1>5
<1>7. /\ m \in Turn /\ m.at = place /\ m.call = c /\ m.ws = r.ws /\ m.num = r.num
      /\ m.has = r.has /\ m.switched = r.switched
  BY <1>6 DEF Turn
<1>8. place = "tool" => c \in 1..MaxCalls
  BY <1>1, <1>3, <1>4, Bounds
<1>9. place \in {"model", "promise"} => c = 0
  BY <1>1, <1>3, <1>4
<1>. QED
  BY <1>1, <1>3, <1>5, <1>7, <1>8, <1>9

LEMMA AnswerBecomes ==
    ASSUME TypeInv, NEW t \in Turns, turn[t].at \in {"tool", "promise"}, NEW ws \in Workspace,
           Answer(t, ws)
    PROVE  \E r \in Turn : Becomes(t, r) /\ r.ws = ws /\ r.switched = FALSE
<1>. DEFINE a == [turn[t] EXCEPT !.ws = ws, !.switched = FALSE]
<1>1. turn' = [turn EXCEPT ![t] = After(a)] /\ Local
  BY DEF Answer
<1>2. /\ a \in Turn /\ a.at = turn[t].at /\ a.call = turn[t].call /\ a.ws = ws
      /\ a.num = turn[t].num /\ a.has = turn[t].has /\ a.switched = FALSE
  BY TurnTyped DEF Turn
<1>. HIDE DEF a
<1>3. a.at = "tool" => a.call \in 1..MaxCalls
  BY <1>2, TurnTyped
<1>4. a.at = "promise" => a.call = 0
  BY <1>2, TurnTyped
<1>5. /\ After(a) \in Turn /\ After(a).at # "idle" /\ After(a).ws = ws
      /\ After(a).num = turn[t].num /\ After(a).has = turn[t].has /\ After(a).switched = FALSE
      /\ After(a).at = "tool" => After(a).call \in 1..MaxCalls
      /\ After(a).at \in {"model", "promise"} => After(a).call = 0
  BY <1>2, <1>3, <1>4, AfterTyped
<1>. QED
  BY <1>1, <1>5 DEF Becomes

(* What a step of a turn that does not end leaves: the draft on file is    *)
(* the one before, none, or one whose label matches the company on file;   *)
(* and a draft that had to switch companies is clean.                      *)
Clean(r) ==
    r.switched /\ r.ws.email # None =>
        /\ r.ws.email.from = {r.ws.company}
        /\ r.ws.intel = None /\ r.ws.advice = {}
Proper(r, email) == r.ws.email = email \/ r.ws.email = None \/ LabelsMatch(r.ws.email.for, r.ws.company)
GoesOn(t) == \E r \in Turn : Becomes(t, r) /\ Clean(r) /\ Proper(r, turn[t].ws.email)

LEMMA ModelGoesOn ==
    ASSUME TypeInv, NEW t \in Turns, ModelCalls(t) \/ ModelFails(t) \/ ModelAnswers(t)
    PROVE  GoesOn(t)
<1>1. turn[t].at = "model" /\ turn[t].call = 0 /\ Local
  BY TurnTyped DEF ModelCalls, ModelFails, ModelAnswers
<1>. DEFINE b == Silent(turn[t])
<1>2. /\ b \in Turn /\ b.switched = FALSE /\ b.ws = turn[t].ws
      /\ b.num = turn[t].num /\ b.has = turn[t].has /\ b.call = 0 /\ b.hop = turn[t].hop
  BY <1>1, SilentTyped, TurnTyped
<1>3. CASE ModelCalls(t)
  <2>1. PICK n \in 1..MaxCalls :
           turn' = [turn EXCEPT ![t] = [b EXCEPT !.at = "tool", !.call = n,
                                                 !.hop = turn[t].hop + 1]]
    BY <1>3 DEF ModelCalls
  <2>0. turn[t].hop < MaxHops /\ turn[t].hop \in 0..MaxHops
    BY <1>3, TurnTyped DEF ModelCalls
  <2>2. PICK h \in 0..MaxHops : h = turn[t].hop + 1
    BY <2>0, Bounds
  <2>. HIDE DEF b
  <2>3. PICK r : r = [b EXCEPT !.at = "tool", !.call = n, !.hop = h]
    OBVIOUS
  <2>4. turn' = [turn EXCEPT ![t] = r]
    BY <2>1, <2>2, <2>3
  <2>5. n \in -1..MaxCalls
    BY Bounds
  <2>6. /\ r \in Turn /\ r.at = "tool" /\ r.call = n /\ r.ws = turn[t].ws /\ r.num = turn[t].num
        /\ r.has = turn[t].has /\ r.switched = FALSE
    BY <1>2, <2>3, <2>5 DEF Turn, Places
  <2>. QED
    BY <1>1, <2>4, <2>6 DEF GoesOn, Becomes, Clean, Proper
<1>4. CASE ModelFails(t) \/ ModelAnswers(t)
  <2>1. \E place \in {"promise", "finally"} : turn' = [turn EXCEPT ![t] = [b EXCEPT !.at = place]]
    BY <1>4 DEF ModelFails, ModelAnswers
  <2>2. PICK place \in {"promise", "finally"} : turn' = [turn EXCEPT ![t] = [b EXCEPT !.at = place]]
    BY <2>1
  <2>. HIDE DEF b
  <2>3. PICK r : r = [b EXCEPT !.at = place]
    OBVIOUS
  <2>4. /\ r \in Turn /\ r.at = place /\ r.call = 0 /\ r.ws = turn[t].ws /\ r.num = turn[t].num
        /\ r.has = turn[t].has /\ r.switched = FALSE
    BY <1>2, <2>3 DEF Turn, Places
  <2>. QED
    BY <1>1, <2>2, <2>3, <2>4 DEF GoesOn, Becomes, Clean, Proper
<1>. QED
  BY <1>3, <1>4

(* A tool that leaves the draft alone.                                     *)
LEMMA ToolGoesOn ==
    ASSUME TypeInv, NEW t \in Turns, turn[t].at \in {"tool", "promise"}, NEW ws \in Workspace,
           ws.email = turn[t].ws.email, Answer(t, ws)
    PROVE  GoesOn(t)
<1>1. PICK r \in Turn : Becomes(t, r) /\ r.ws = ws /\ r.switched = FALSE
  BY AnswerBecomes
<1>. QED
  BY <1>1 DEF GoesOn, Clean, Proper

LEMMA ReadingGoesOn ==
    ASSUME TypeInv, NEW t \in Turns,
           \/ ToolSaysNo(t) \/ SendEmail(t)
           \/ FindProspects(t) \/ ResearchProspects(t) \/ Subjects(t) \/ Critique(t) \/ Compare(t)
           \/ DraftChannel(t) \/ SearchRecentPosts(t) \/ ReadsAccount(t) \/ CampaignAction(t)
    PROVE  GoesOn(t)
<1>1. turn[t].at \in {"tool", "promise"} /\ Answer(t, turn[t].ws)
  BY DEF ToolSaysNo, SendEmail, FindProspects, ResearchProspects, Subjects, Critique, Compare,
         DraftChannel, SearchRecentPosts, ReadsAccount, CampaignAction, LeavesOnFile, Calling
<1>. QED
  BY <1>1, TurnTyped, Bounds, ToolGoesOn

LEMMA ResearchGoesOn ==
    ASSUME TypeInv, NEW t \in Turns, NEW q \in Companies,
           \/ ResolveCompany(t, q) \/ ReuseResearch(t, q) \/ SwitchBack(t, q)
           \/ Research(t, q) \/ DeepResearch(t, q)
    PROVE  GoesOn(t)
<1>1. turn[t].at = "tool" /\ turn[t].at \in {"tool", "promise"}
  BY DEF ResolveCompany, ReuseResearch, SwitchBack, Research, DeepResearch, Calling
<1>. DEFINE ws == turn[t].ws
<1>2. ws \in Workspace /\ q \in Named /\ None \in Named
  BY TurnTyped, Bounds
<1>3. CASE ResolveCompany(t, q)
  <2>1. [ws EXCEPT !.url = q] \in Workspace /\ [ws EXCEPT !.url = q].email = ws.email
    BY <1>2 DEF Workspace
  <2>. QED
    BY <1>1, <1>2, <1>3, <2>1, ToolGoesOn DEF ResolveCompany
<1>4. CASE ReuseResearch(t, q)
  BY <1>1, <1>2, <1>4, ToolGoesOn DEF ReuseResearch
<1>5. CASE SwitchBack(t, q)
  <2>1. Answer(t, OnFile(ws, q))
    BY <1>5 DEF SwitchBack
  <2>. QED
    BY <1>1, <1>2, <2>1, OnFileTyped, ToolGoesOn
<1>6. CASE Research(t, q)
  <2>1. PICK ok \in BOOLEAN :
           Answer(t, [OnFile(ws, q) EXCEPT !.research = IF ok THEN q ELSE None,
                         !.cache = IF ok THEN @ \cup {q} ELSE @ \ {q}])
    BY <1>6 DEF Research
  <2>2. PICK o \in Workspace : o = OnFile(ws, q)
    BY <1>2, OnFileTyped
  <2>3. o.email = ws.email
    BY <1>2, <2>2, OnFileTyped
  <2>4. PICK c \in SUBSET Companies : c = IF ok THEN o.cache \cup {q} ELSE o.cache \ {q}
    BY WorkspaceTyped
  <2>5. PICK f \in Named : f = IF ok THEN q ELSE None
    BY Bounds
  <2>6. Answer(t, [o EXCEPT !.research = f, !.cache = c])
    BY <2>1, <2>2, <2>4, <2>5
  <2>7. PICK w : w = [o EXCEPT !.research = f, !.cache = c]
    OBVIOUS
  <2>8. w \in Workspace /\ w.email = ws.email
    BY <2>3, <2>7 DEF Workspace
  <2>9. Answer(t, w)
    BY <2>6, <2>7
  <2>. QED
    BY <1>1, <1>2, <2>8, <2>9, ToolGoesOn
<1>7. CASE DeepResearch(t, q)
  <2>1. PICK ok \in BOOLEAN, site \in BOOLEAN :
           Answer(t, IF ok THEN [ws EXCEPT !.intel = q, !.company = q,
                                           !.url = IF site THEN q ELSE @]
                     ELSE [ws EXCEPT !.intel = None])
    BY <1>7 DEF DeepResearch
  <2>3. PICK u \in Named : u = IF site THEN q ELSE ws.url
    BY <1>2, WorkspaceTyped
  <2>4. PICK w : w = IF ok THEN [ws EXCEPT !.intel = q, !.company = q, !.url = u]
                     ELSE [ws EXCEPT !.intel = None]
    OBVIOUS
  <2>5. Answer(t, w)
    <3>1. CASE ok = TRUE
      BY <2>1, <2>3, <2>4, <3>1
    <3>2. CASE ok = FALSE
      BY <2>1, <2>4, <3>2
    <3>. QED
      BY <3>1, <3>2
  <2>6. w \in Workspace /\ w.email = ws.email
    BY <1>2, <2>4, Bounds DEF Workspace
  <2>. QED
    BY <1>1, <1>2, <2>5, <2>6, ToolGoesOn
<1>. QED
  BY <1>3, <1>4, <1>5, <1>6, <1>7

(* What a mode of write_email gives: a draft written from the material on  *)
(* file, and from the draft before if there is one; or what is on file.    *)
Drafts(ws, switched) ==
    DoEmail(ws, switched) \cup DoVariations(ws) \cup DoFollowup(ws) \cup DoSequence(ws)
Fresh(ws, email) ==
    email # None /\ email.for = Base(ws) /\ (ws.email = None => email.from = Material(ws))

LEMMA WrittenTyped ==
    ASSUME NEW ws \in Workspace, Base(ws) # None, NEW before \in SUBSET Companies,
           ws.email = None => before = {}
    PROVE  Written(ws, before) \in Letter /\ Fresh(ws, Written(ws, before))
<1>1. Base(ws) \in Companies /\ Material(ws) \cup before \in SUBSET Companies
  BY MaterialTyped DEF Named
<1>2. Written(ws, before) \in Letter
  BY <1>1 DEF Written, Letter
<1>3. /\ Written(ws, before) # None /\ Written(ws, before).for = Base(ws)
      /\ Written(ws, before).from = Material(ws) \cup before
  BY <1>2, Bounds DEF Written
<1>. QED
  BY <1>2, <1>3 DEF Fresh

LEMMA DraftsTyped ==
    ASSUME NEW ws \in Workspace, Base(ws) # None, NEW switched \in BOOLEAN,
           NEW email \in Drafts(ws, switched)
    PROVE  email \in Draft /\ (email = None \/ email = ws.email \/ Fresh(ws, email))
<1>1. Before(ws) \in SUBSET Companies /\ (ws.email = None => Before(ws) = {})
  BY MaterialTyped DEF Before
<1>2. \/ \E before \in SUBSET Companies :
            email = Written(ws, before) /\ (ws.email = None => before = {})
      \/ email = ws.email \/ email = None
  <2>1. CASE email \in DoEmail(ws, switched)
    BY <1>1, <2>1 DEF DoEmail
  <2>2. CASE email \in DoVariations(ws)
    BY <2>2 DEF DoVariations
  <2>3. CASE email \in DoFollowup(ws)
    BY <1>1, <2>3 DEF DoFollowup
  <2>4. CASE email \in DoSequence(ws)
    BY <2>4 DEF DoSequence
  <2>. QED
    BY <2>1, <2>2, <2>3, <2>4 DEF Drafts
<1>3. CASE email = ws.email
  BY <1>3, WorkspaceTyped
<1>4. CASE email # ws.email /\ email # None
  <2>1. PICK before \in SUBSET Companies :
           email = Written(ws, before) /\ (ws.email = None => before = {})
    BY <1>2, <1>4
  <2>. QED
    BY <2>1, WrittenTyped DEF Draft
<1>5. CASE email = None
  BY <1>5 DEF Draft
<1>. QED
  BY <1>3, <1>4, <1>5

(* The workspace a switch to another company hands the writer.             *)
Cleared(ws) == /\ ws.email = None /\ ws.intel = None /\ ws.advice = {}
               /\ Material(ws) = {ws.company}

LEMMA RetargetedCleared ==
    ASSUME NEW ws \in Workspace, NEW q \in Companies
    PROVE  Retargeted(ws, q) \in Workspace /\ Cleared(Retargeted(ws, q))
<1>1. PICK w : w = Retargeted(ws, q)
  OBVIOUS
<1>2. w \in Workspace /\ w.email = None /\ w.company = q /\ w.intel = None /\ w.advice = {}
  BY <1>1, RetargetedTyped
<1>3. Material(w) = {q}
  BY <1>1, RetargetedMaterial
<1>. QED
  BY <1>1, <1>2, <1>3 DEF Cleared

LEMMA DraftGives ==
    ASSUME TypeInv, NEW t \in Turns, turn[t].at \in {"tool", "promise"}, NEW ws \in Workspace,
           NEW switched \in BOOLEAN, PutDraft(t, ws, switched), switched => Cleared(ws)
    PROVE  \E r \in Turn :
              /\ Becomes(t, r) /\ Clean(r)
              /\ r.ws.company = ws.company /\ r.ws.url = ws.url
              /\ \/ r.ws.email = None \/ r.ws.email = ws.email
                 \/ r.ws.email.for = Base(ws) /\ ForTarget(ws, Base(ws))
<1>. DEFINE b == turn[t]
            good == ForTarget(ws, Base(ws))
<1>1. PICK email \in Drafts(ws, switched) :
         turn' = [turn EXCEPT ![t] =
                     After([b EXCEPT !.ws = [ws EXCEPT !.email = IF good THEN email ELSE None],
                                     !.switched = switched,
                                     !.drafted = turn[t].drafted \/ (good /\ email # None)])]
  BY DEF PutDraft, Drafts
<1>2. Base(ws) # None /\ Local
  BY DEF PutDraft
<1>3. email \in Draft /\ (email = None \/ email = ws.email \/ Fresh(ws, email))
  BY <1>1, <1>2, DraftsTyped
<1>4. /\ b \in Turn /\ b.at = turn[t].at /\ b.call = turn[t].call
      /\ b.num = turn[t].num /\ b.has = turn[t].has
  BY TurnTyped
<1>5. PICK kept : kept = IF good THEN email ELSE None
  OBVIOUS
<1>6. /\ kept \in Draft
      /\ kept = None \/ kept = ws.email \/ (Fresh(ws, kept) /\ ForTarget(ws, Base(ws)))
  BY <1>3, <1>5 DEF Draft
<1>7. PICK w : w = [ws EXCEPT !.email = kept]
  OBVIOUS
<1>8. /\ w \in Workspace /\ w.email = kept /\ w.company = ws.company /\ w.url = ws.url /\ w.intel = ws.intel
      /\ w.advice = ws.advice
  BY <1>6, <1>7 DEF Workspace
<1>9. PICK drafted \in BOOLEAN : drafted = (turn[t].drafted \/ (good /\ email # None))
  OBVIOUS
<1>10. PICK a : a = [b EXCEPT !.ws = w, !.switched = switched, !.drafted = drafted]
  OBVIOUS
<1>11. turn' = [turn EXCEPT ![t] = After(a)]
  BY <1>1, <1>5, <1>7, <1>9, <1>10
<1>. HIDE DEF b, good
<1>12. /\ a \in Turn /\ a.at = turn[t].at /\ a.call = turn[t].call /\ a.ws = w
       /\ a.num = turn[t].num /\ a.has = turn[t].has /\ a.switched = switched
  BY <1>4, <1>8, <1>10 DEF Turn
<1>13. PICK r \in Turn : r = After(a)
  BY <1>12, TurnTyped, AfterTyped
<1>14. /\ r.at # "idle" /\ r.ws = w /\ r.num = turn[t].num /\ r.has = turn[t].has
       /\ r.switched = switched
       /\ r.at = "tool" => r.call \in 1..MaxCalls
       /\ r.at \in {"model", "promise"} => r.call = 0
  BY <1>12, <1>13, TurnTyped, AfterTyped
<1>15. Becomes(t, r)
  BY <1>2, <1>11, <1>13, <1>14 DEF Becomes
<1>16. Clean(r)
  <2>1. SUFFICES ASSUME switched, kept # None
                 PROVE  kept.from = {ws.company} /\ ws.intel = None /\ ws.advice = {}
    BY <1>8, <1>14 DEF Clean
  <2>2. Fresh(ws, kept) /\ Cleared(ws)
    BY <1>6, <2>1 DEF Cleared
  <2>. QED
    BY <2>2 DEF Cleared, Fresh
<1>17. \/ r.ws.email = None \/ r.ws.email = ws.email
       \/ r.ws.email.for = Base(ws) /\ ForTarget(ws, Base(ws))
  BY <1>6, <1>8, <1>14 DEF Fresh
<1>. QED
  BY <1>8, <1>14, <1>15, <1>16, <1>17

LEMMA DraftGoesOn ==
    ASSUME TypeInv, NEW t \in Turns, turn[t].at \in {"tool", "promise"}, NEW ws \in Workspace,
           NEW switched \in BOOLEAN, PutDraft(t, ws, switched),
           switched => Cleared(ws), ~switched => ws.email = turn[t].ws.email
    PROVE  GoesOn(t)
<1>1. PICK r \in Turn :
         /\ Becomes(t, r) /\ Clean(r) /\ r.ws.company = ws.company
         /\ \/ r.ws.email = None \/ r.ws.email = ws.email
            \/ r.ws.email.for = Base(ws) /\ ForTarget(ws, Base(ws))
  BY DraftGives
<1>2. Proper(r, turn[t].ws.email)
  BY <1>1 DEF Proper, Cleared, ForTarget
<1>. QED
  BY <1>1, <1>2 DEF GoesOn

LEMMA WritingGoesOn ==
    ASSUME TypeInv, NEW t \in Turns,
           FulfilPromise(t) \/ Advise(t) \/ \E q \in Named : WriteEmail(t, q)
    PROVE  GoesOn(t)
<1>. DEFINE ws == turn[t].ws
<1>1. ws \in Workspace
  BY TurnTyped
<1>2. CASE FulfilPromise(t)
  BY <1>1, <1>2, DraftGoesOn DEF FulfilPromise
<1>3. CASE Advise(t)
  <2>1. PICK w : w = [ws EXCEPT !.advice = Material(ws)]
    OBVIOUS
  <2>2. w \in Workspace /\ w.email = ws.email
    BY <1>1, <2>1, MaterialTyped DEF Workspace
  <2>3. Answer(t, w) /\ turn[t].at = "tool"
    BY <1>3, <2>1 DEF Advise, Calling
  <2>. QED
    BY <2>2, <2>3, Bounds, ToolGoesOn
<1>4. CASE \E q \in Named : WriteEmail(t, q)
  <2>1. PICK q \in Named : WriteEmail(t, q)
    BY <1>4
  <2>2. turn[t].at = "tool"
    BY <2>1 DEF WriteEmail, Calling
  <2>3. CASE PutDraft(t, ws, FALSE)
    BY <1>1, <2>2, <2>3, DraftGoesOn
  <2>4. CASE q \in Companies /\ PutDraft(t, Retargeted(ws, q), TRUE)
    <3>1. Retargeted(ws, q) \in Workspace /\ Cleared(Retargeted(ws, q))
      BY <1>1, <2>4, RetargetedCleared
    <3>. QED
      BY <2>2, <2>4, <3>1, DraftGoesOn
  <2>. QED
    BY <2>1, <2>3, <2>4 DEF WriteEmail, Named
<1>. QED
  BY <1>2, <1>3, <1>4

LEMMA StepGoesOn ==
    ASSUME TypeInv, NEW t \in Turns, Step(t)
    PROVE  GoesOn(t) \/ End(t)
<1>1. \/ End(t) \/ ModelCalls(t) \/ ModelFails(t) \/ ModelAnswers(t)
      \/ ToolSaysNo(t) \/ SendEmail(t)
      \/ FindProspects(t) \/ ResearchProspects(t) \/ Subjects(t) \/ Critique(t) \/ Compare(t)
      \/ DraftChannel(t) \/ SearchRecentPosts(t) \/ ReadsAccount(t) \/ CampaignAction(t)
      \/ Advise(t) \/ FulfilPromise(t) \/ \E q \in Named : WriteEmail(t, q)
      \/ \E q \in Companies : \/ ResolveCompany(t, q) \/ ReuseResearch(t, q) \/ SwitchBack(t, q)
                              \/ Research(t, q) \/ DeepResearch(t, q)
  BY DEF Step
<1>2. CASE ModelCalls(t) \/ ModelFails(t) \/ ModelAnswers(t)
  BY <1>2, ModelGoesOn
<1>3. CASE \/ ToolSaysNo(t) \/ SendEmail(t)
           \/ FindProspects(t) \/ ResearchProspects(t) \/ Subjects(t) \/ Critique(t) \/ Compare(t)
           \/ DraftChannel(t) \/ SearchRecentPosts(t) \/ ReadsAccount(t) \/ CampaignAction(t)
  BY <1>3, ReadingGoesOn
<1>4. CASE FulfilPromise(t) \/ Advise(t) \/ \E q \in Named : WriteEmail(t, q)
  BY <1>4, WritingGoesOn
<1>5. CASE \E q \in Companies : \/ ResolveCompany(t, q) \/ ReuseResearch(t, q) \/ SwitchBack(t, q)
                                \/ Research(t, q) \/ DeepResearch(t, q)
  BY <1>5, ResearchGoesOn
<1>. QED
  BY <1>1, <1>2, <1>3, <1>4, <1>5

(***************************************************************************)
(* The invariants: the types, that a draft that switched companies is      *)
(* clean, and that what ended alone is in the file and in every copy.      *)
(***************************************************************************)

AllClean == \A t \in Turns : Clean(turn[t])
Inv == TypeInv /\ AllClean /\ SaveInv

LEMMA EndGives ==
    ASSUME TypeInv, NEW t \in Turns, End(t)
    PROVE  /\ t \in Busy /\ turn[t].num \in 1..MaxTurns /\ turn[t].has \in SUBSET (1..MaxTurns)
           /\ turn' = [turn EXCEPT ![t] = Idle] /\ turn[t].ws \in Workspace
           /\ ended' = ended \cup {turn[t].num} /\ begun' = begun /\ crossed' = crossed
           /\ \/ /\ conv'.has = turn[t].has /\ unsaved' = unsaved
                 /\ conv' \in [ws: Workspace, has: SUBSET (1..MaxTurns)]
              \/ conv' = conv /\ unsaved' = unsaved \cup {turn[t].num}
<1>1. turn[t] \in Turn /\ turn[t].at # "idle"
  BY TurnTyped DEF End
<1>2. turn[t].ws \in Workspace /\ turn[t].has \in SUBSET (1..MaxTurns)
  BY <1>1 DEF Turn
<1>. QED
  BY <1>1, <1>2 DEF End, Busy, TypeInv, TurnsTyped

(* The copy a turn starts from: the file, and itself.                      *)
LEMMA StartGives ==
    ASSUME TypeInv, NEW t \in Turns, Start(t)
    PROVE  \E r \in Turn :
              /\ turn' = [turn EXCEPT ![t] = r] /\ r.at = "model" /\ r.call = 0
              /\ r.num = begun + 1 /\ r.num \in 1..MaxTurns /\ r.has = conv.has \cup {r.num}
              /\ r.switched = FALSE /\ begun' = r.num /\ turn[t].at = "idle"
              /\ crossed' = IF Busy = {} THEN crossed
                            ELSE crossed \cup {r.num} \cup {turn[o].num : o \in Busy}
              /\ UNCHANGED <<conv, ended, unsaved>>
<1>1. begun < MaxTurns /\ begun \in 0..MaxTurns
  BY DEF Start, TypeInv, CountsTyped
<1>2. PICK n \in 1..MaxTurns : n = begun + 1
  BY <1>1, Bounds
<1>3. begun' = n
  BY <1>2 DEF Start
<1>4. PICK has \in SUBSET (1..MaxTurns) : has = conv.has \cup {n}
  BY DEF TypeInv, ConvTyped
<1>5. PICK ws \in Workspace : ws = conv.ws
  BY DEF TypeInv, ConvTyped
<1>6. PICK r : r = [Idle EXCEPT !.at = "model", !.ws = ws, !.has = has, !.num = n]
  OBVIOUS
<1>7. turn' = [turn EXCEPT ![t] = r]
  BY <1>3, <1>4, <1>5, <1>6 DEF Start
<1>8. n \in 0..MaxTurns
  BY Bounds
<1>9. r \in Turn /\ r.at = "model" /\ r.call = 0 /\ r.num = n /\ r.has = has /\ r.switched = FALSE
  <2>1. Idle \in Turn /\ Idle.call = 0 /\ Idle.switched = FALSE
    BY IdleTyped DEF Idle
  <2>. QED
    BY <1>6, <1>8, <2>1 DEF Turn, Places
<1>. QED
  BY <1>2, <1>3, <1>4, <1>7, <1>9 DEF Start

LEMMA TypeInit == Init => TypeInv
<1>. SUFFICES ASSUME Init PROVE TypeInv
  OBVIOUS
<1>1. ConvTyped
  BY EmptyTyped DEF Init, ConvTyped
<1>2. TurnsTyped
  BY IdleTyped DEF Init, TurnsTyped
<1>3. CountsTyped
  BY Bounds DEF Init, CountsTyped
<1>. QED
  BY <1>1, <1>2, <1>3 DEF TypeInv

LEMMA TypeStep == TypeInv /\ [Next]_vars => TypeInv'
<1>. SUFFICES ASSUME TypeInv, [Next]_vars PROVE TypeInv'
  OBVIOUS
<1>1. CASE \E t \in Turns : Start(t)
  <2>1. PICK t \in Turns : Start(t)
    BY <1>1
  <2>2. PICK r \in Turn :
           /\ turn' = [turn EXCEPT ![t] = r] /\ r.at = "model" /\ r.call = 0
           /\ r.num \in 1..MaxTurns /\ begun' = r.num
           /\ crossed' = IF Busy = {} THEN crossed
                         ELSE crossed \cup {r.num} \cup {turn[o].num : o \in Busy}
           /\ UNCHANGED <<conv, ended, unsaved>>
    BY <2>1, StartGives
  <2>3. TurnsTyped'
    BY <2>2 DEF TypeInv, TurnsTyped
  <2>4. begun' \in 0..MaxTurns
    BY <2>2, Bounds
  <2>5. {turn[o].num : o \in Busy} \subseteq 1..MaxTurns
    BY DEF TypeInv, TurnsTyped, Busy
  <2>6. ended' \cup crossed' \cup unsaved' \subseteq 1..MaxTurns
    BY <2>2, <2>5 DEF TypeInv, CountsTyped
  <2>. QED
    BY <2>2, <2>3, <2>4, <2>6 DEF TypeInv, ConvTyped, CountsTyped
<1>2. CASE \E t \in Turns : Step(t)
  <2>1. PICK t \in Turns : GoesOn(t) \/ End(t)
    BY <1>2, StepGoesOn
  <2>2. CASE GoesOn(t)
    <3>1. PICK r \in Turn : Becomes(t, r)
      BY <2>2 DEF GoesOn
    <3>2. TurnsTyped'
      BY <3>1 DEF TypeInv, TurnsTyped, Becomes
    <3>. QED
      BY <3>1, <3>2 DEF TypeInv, ConvTyped, CountsTyped, Becomes, Local
  <2>3. CASE End(t)
    <3>1. TurnsTyped'
      BY <2>3, IdleTyped, EndGives DEF TypeInv, TurnsTyped
    <3>2. CountsTyped' /\ ConvTyped'
      BY <2>3, EndGives DEF TypeInv, CountsTyped, ConvTyped
    <3>. QED
      BY <3>1, <3>2 DEF TypeInv
  <2>. QED
    BY <2>1, <2>2, <2>3
<1>3. CASE \E t \in Turns : Die(t)
  <2>1. PICK t \in Turns : Die(t)
    BY <1>3
  <2>2. TurnsTyped'
    BY <2>1, IdleTyped DEF Die, TypeInv, TurnsTyped
  <2>. QED
    BY <2>1, <2>2 DEF Die, TypeInv, ConvTyped, CountsTyped
<1>4. CASE UNCHANGED vars
  BY <1>4 DEF vars, TypeInv, ConvTyped, TurnsTyped, CountsTyped
<1>. QED
  BY <1>1, <1>2, <1>3, <1>4 DEF Next

LEMMA CleanStep == TypeInv /\ AllClean /\ [Next]_vars => AllClean'
<1>. SUFFICES ASSUME TypeInv, AllClean, [Next]_vars PROVE AllClean'
  OBVIOUS
<1>1. Clean(Idle)
  BY IdleTyped DEF Clean
<1>2. \/ UNCHANGED turn
      \/ \E t \in Turns, r \in Turn : turn' = [turn EXCEPT ![t] = r] /\ Clean(r)
  <2>1. ASSUME NEW t \in Turns, Start(t)
        PROVE  \E r \in Turn : turn' = [turn EXCEPT ![t] = r] /\ Clean(r)
    BY <2>1, StartGives DEF Clean
  <2>2. ASSUME NEW t \in Turns, Step(t)
        PROVE  \E r \in Turn : turn' = [turn EXCEPT ![t] = r] /\ Clean(r)
    <3>1. CASE GoesOn(t)
      BY <3>1 DEF GoesOn, Becomes
    <3>2. CASE End(t)
      BY <1>1, <3>2, IdleTyped, EndGives
    <3>. QED
      BY <2>2, <3>1, <3>2, StepGoesOn
  <2>3. ASSUME NEW t \in Turns, Die(t)
        PROVE  \E r \in Turn : turn' = [turn EXCEPT ![t] = r] /\ Clean(r)
    BY <1>1, <2>3, IdleTyped DEF Die
  <2>. QED
    BY <2>1, <2>2, <2>3 DEF Next, vars
<1>3. CASE UNCHANGED turn
  BY <1>3 DEF AllClean, Clean
<1>4. CASE \E t \in Turns, r \in Turn : turn' = [turn EXCEPT ![t] = r] /\ Clean(r)
  <2>1. PICK t \in Turns, r \in Turn : turn' = [turn EXCEPT ![t] = r] /\ Clean(r)
    BY <1>4
  <2>2. turn \in [Turns -> Turn]
    BY DEF TypeInv, TurnsTyped
  <2>. QED
    BY <2>1, <2>2 DEF AllClean, Clean
<1>. QED
  BY <1>2, <1>3, <1>4

(* A step changes the turns in progress as one of these.                   *)
LEMMA BusyBecomes ==
    ASSUME TypeInv, NEW t \in Turns, NEW r, turn' = [turn EXCEPT ![t] = r]
    PROVE  /\ r.at # "idle" => Busy' = Busy \cup {t}
           /\ r.at = "idle" => Busy' = Busy \ {t}
           /\ turn'[t] = r
           /\ \A o \in Turns : o # t => turn'[o] = turn[o]
<1>1. turn'[t] = r /\ \A o \in Turns : o # t => turn'[o] = turn[o]
  BY DEF TypeInv, TurnsTyped
<1>. QED
  BY <1>1 DEF Busy

LEMMA SaveStep == TypeInv /\ SaveInv /\ [Next]_vars => SaveInv'
<1>. SUFFICES ASSUME TypeInv, SaveInv, [Next]_vars PROVE SaveInv'
  OBVIOUS
<1>. USE DEF SaveInv, OwnTurn, Overlaps, CopiesSaved, EndedIsSaved
<1>1. ASSUME NEW t \in Turns, Start(t)
      PROVE  SaveInv'
  <2>1. PICK r \in Turn :
           /\ turn' = [turn EXCEPT ![t] = r] /\ r.at = "model"
           /\ r.has = conv.has \cup {r.num} /\ turn[t].at = "idle"
           /\ crossed' = IF Busy = {} THEN crossed
                         ELSE crossed \cup {r.num} \cup {turn[o].num : o \in Busy}
           /\ UNCHANGED <<conv, ended, unsaved>>
    BY <1>1, StartGives
  <2>2. /\ Busy' = Busy \cup {t} /\ turn'[t] = r /\ t \notin Busy /\ Busy \subseteq Turns
        /\ \A o \in Busy : turn'[o] = turn[o]
    BY <2>1, BusyBecomes DEF Busy
  <2>3. OwnTurn'
    BY <2>1, <2>2
  <2>4. Overlaps'
    <3>1. CASE Busy = {}
      BY <2>2, <3>1
    <3>2. CASE Busy # {}
      <4>1. \A o \in Busy' : turn'[o].num \in crossed'
        BY <2>1, <2>2, <3>2
      <4>. QED
        BY <4>1
    <3>. QED
      BY <3>1, <3>2
  <2>5. crossed \subseteq crossed'
    BY <2>1
  <2>6. CopiesSaved' /\ EndedIsSaved'
    BY <2>1, <2>2, <2>5
  <2>. QED
    BY <2>3, <2>4, <2>6
<1>2. ASSUME NEW t \in Turns, GoesOn(t)
      PROVE  SaveInv'
  <2>1. PICK r \in Turn : Becomes(t, r)
    BY <1>2 DEF GoesOn
  <2>2. /\ turn' = [turn EXCEPT ![t] = r] /\ r.at # "idle" /\ t \in Busy
        /\ r.num = turn[t].num /\ r.has = turn[t].has /\ UNCHANGED <<conv, ended, crossed, unsaved>>
    BY <2>1 DEF Becomes, Local, Busy
  <2>3. /\ Busy' = Busy
        /\ \A o \in Busy : turn'[o].num = turn[o].num /\ turn'[o].has = turn[o].has
    BY <2>2, BusyBecomes DEF Busy
  <2>. QED
    BY <2>2, <2>3
<1>3. ASSUME NEW t \in Turns, End(t)
      PROVE  SaveInv'
  <2>1. /\ t \in Busy /\ turn' = [turn EXCEPT ![t] = Idle]
        /\ ended' = ended \cup {turn[t].num} /\ crossed' = crossed
        /\ \/ conv'.has = turn[t].has /\ unsaved' = unsaved
           \/ conv' = conv /\ unsaved' = unsaved \cup {turn[t].num}
    BY <1>3, EndGives
  <2>2. Busy' = Busy \ {t} /\ \A o \in Busy' : o # t /\ turn'[o] = turn[o]
    BY <2>1, IdleTyped, BusyBecomes DEF Busy
  <2>3. EndedIsSaved'
    BY <2>1
  <2>4. \A o \in Busy' : turn[t].num \in crossed
    BY <2>1, <2>2
  <2>5. CopiesSaved'
    BY <2>1, <2>2, <2>4
  <2>6. OwnTurn' /\ Overlaps'
    BY <2>1, <2>2
  <2>. QED
    BY <2>3, <2>5, <2>6
<1>4. ASSUME NEW t \in Turns, Die(t)
      PROVE  SaveInv'
  <2>1. turn' = [turn EXCEPT ![t] = Idle] /\ UNCHANGED <<conv, ended, crossed, unsaved>>
    BY <1>4 DEF Die
  <2>2. Busy' = Busy \ {t} /\ \A o \in Busy' : turn'[o] = turn[o]
    BY <2>1, IdleTyped, BusyBecomes DEF Busy
  <2>. QED
    BY <2>1, <2>2
<1>5. CASE UNCHANGED vars
  BY <1>5 DEF vars, Busy
<1>. QED
  BY <1>1, <1>2, <1>3, <1>4, <1>5, StepGoesOn DEF Next

LEMMA InvInit == Init => Inv
<1>. SUFFICES ASSUME Init PROVE Inv
  OBVIOUS
<1>1. AllClean
  BY IdleTyped DEF Init, AllClean, Clean
<1>2. Busy = {} /\ ended = {}
  BY IdleTyped DEF Init, Busy
<1>3. SaveInv
  BY <1>2 DEF SaveInv, OwnTurn, Overlaps, CopiesSaved, EndedIsSaved
<1>. QED
  BY <1>1, <1>3, TypeInit DEF Inv

LEMMA InvStep == Inv /\ [Next]_vars => Inv'
  BY TypeStep, CleanStep, SaveStep DEF Inv

LEMMA InvAlways == Spec => []Inv
  BY InvInit, InvStep, PTL DEF Spec

(* Every field of the conversation, of its turns and of their copies stays *)
(* in its range: above all the hops and the calls left of one.             *)
THEOREM TypeCorrect == Spec => []TypeOK
<1>1. Inv => TypeOK
  BY DEF Inv, TypeInv, ConvTyped, TurnsTyped, CountsTyped, Turn, Places, TypeOK
<1>. QED
  BY <1>1, InvAlways, PTL

(* A draft that switched the thread to another company takes nothing of    *)
(* the company before along, whatever the tools had put on file.           *)
THEOREM SwitchTakesNothing == Spec => []SwitchIsClean
<1>1. Inv => SwitchIsClean
  BY DEF Inv, AllClean, Clean, SwitchIsClean
<1>. QED
  BY <1>1, InvAlways, PTL

(* What a turn ended with that nothing overlapped and whose save took stays *)
(* in the file, over any number of turns, however they end, whichever die  *)
(* and whatever later saves fail.                                          *)
THEOREM NothingEndedIsLost == Spec => []EndedIsSaved
<1>1. Inv => EndedIsSaved
  BY DEF Inv, SaveInv
<1>. QED
  BY <1>1, InvAlways, PTL

(* The draft a step puts on file has a label that matches the company's.   *)
LEMMA DraftStep ==
    ASSUME TypeInv, [Next]_vars, NEW o \in Turns,
           turn'[o].ws.email # turn[o].ws.email, turn'[o].ws.email # None,
           turn'[o].at # "idle", turn[o].at # "idle"
    PROVE  LabelsMatch(turn'[o].ws.email.for, turn'[o].ws.company)
<1>1. \E t \in Turns : Start(t) \/ Step(t) \/ Die(t)
  BY DEF Next, vars
<1>2. PICK t \in Turns : Start(t) \/ GoesOn(t) \/ End(t) \/ Die(t)
  BY <1>1, StepGoesOn
<1>3. ~Start(t)
  <2>1. SUFFICES ASSUME Start(t) PROVE FALSE
    OBVIOUS
  <2>2. PICK r \in Turn : turn' = [turn EXCEPT ![t] = r] /\ turn[t].at = "idle"
    BY <2>1, StartGives
  <2>. QED
    BY <2>2, BusyBecomes
<1>4. ~End(t) /\ ~Die(t)
  <2>1. SUFFICES ASSUME End(t) \/ Die(t) PROVE FALSE
    OBVIOUS
  <2>2. turn' = [turn EXCEPT ![t] = Idle]
    BY <2>1 DEF End, Die
  <2>. QED
    BY <2>2, IdleTyped, BusyBecomes
<1>5. PICK r \in Turn : Becomes(t, r) /\ Proper(r, turn[t].ws.email)
  BY <1>2, <1>3, <1>4 DEF GoesOn
<1>6. turn'[t] = r /\ (o # t => turn'[o] = turn[o])
  BY <1>5, BusyBecomes DEF Becomes
<1>7. o = t
  BY <1>6
<1>. QED
  BY <1>5, <1>6, <1>7 DEF Proper

(* A draft that was asked for by name is addressed to that company, or to  *)
(* the one on file that passed for it.                                     *)
LEMMA AskStep ==
    ASSUME TypeInv, NEW o \in Turns, NEW q \in Companies, WriteEmail(o, q),
           turn'[o].ws.email # turn[o].ws.email, turn'[o].ws.email # None
    PROVE  q = turn'[o].ws.email.for \/ SameCompany(q, turn'[o].ws)
<1>. DEFINE ws == turn[o].ws
<1>1. ws \in Workspace /\ turn[o].at = "tool" /\ q # None
  BY TurnTyped, Bounds DEF WriteEmail, Calling
<1>2. CASE SameCompany(q, ws) /\ PutDraft(o, ws, FALSE)
  <2>1. PICK r \in Turn : Becomes(o, r) /\ r.ws.company = ws.company /\ r.ws.url = ws.url
    BY <1>1, <1>2, DraftGives
  <2>2. turn'[o] = r
    BY <2>1, BusyBecomes DEF Becomes
  <2>. QED
    BY <1>2, <2>1, <2>2 DEF SameCompany
<1>3. CASE PutDraft(o, Retargeted(ws, q), TRUE)
  <2>1. PICK w \in Workspace : w = Retargeted(ws, q) /\ Cleared(w)
    BY <1>1, RetargetedCleared
  <2>2. Base(w) = q /\ w.email = None
    BY <1>1, <2>1, RetargetedMaterial DEF Cleared
  <2>3. PICK r \in Turn :
           /\ Becomes(o, r)
           /\ \/ r.ws.email = None \/ r.ws.email = w.email
              \/ r.ws.email.for = Base(w) /\ ForTarget(w, Base(w))
    BY <1>1, <1>3, <2>1, DraftGives
  <2>4. turn'[o] = r
    BY <2>3, BusyBecomes DEF Becomes
  <2>. QED
    BY <2>2, <2>3, <2>4
<1>. QED
  BY <1>1, <1>2, <1>3 DEF WriteEmail

(* A draft that appears during a turn has a label that matches the         *)
(* company of the thread, whichever tools set the company and the material *)
(* before, and is addressed to the company it was asked for, or to the one *)
(* that passed for it.                                                     *)
THEOREM DraftsStayOnCompany == Spec => DraftIsForCompany
<1>1. TypeInv /\ [Next]_vars
      => [\A t \in Turns :
             LET ws == turn'[t].ws
                 new == turn'[t].at # "idle" /\ turn[t].at # "idle"
                        /\ ws.email # turn[t].ws.email /\ ws.email # None
             IN new => /\ LabelsMatch(ws.email.for, ws.company)
                       /\ \A q \in Companies : WriteEmail(t, q) =>
                             q = ws.email.for \/ SameCompany(q, ws)]_vars
  BY DraftStep, AskStep
<1>2. Inv => TypeInv
  BY DEF Inv
<1>. QED
  BY <1>1, <1>2, InvAlways, PTL DEF Spec, DraftIsForCompany
=============================================================================
