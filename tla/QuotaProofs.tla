---------------------------- MODULE QuotaProofs -----------------------------
(***************************************************************************)
(* Proofs about Quota: whatever turns run at once and whatever the billing *)
(* window does, for any number of companies, turns, periods and faults.    *)
(***************************************************************************)
EXTENDS Quota, FiniteSetTheorems, TLAPS

(***************************************************************************)
(* The inductive invariants                                                *)
(***************************************************************************)

(* What a turn is doing says what it holds: only a search holds a claim,   *)
(* and of one key.                                                         *)
TurnForms ==
    \A t \in Turns :
       /\ turn[t].at = "search" => \E k \in Key : turn[t].keys = {k}
       /\ turn[t].new => turn[t].at = "search"

(* The limits in force and those the turns carry are on record.            *)
LimitsCached ==
    /\ allowance \in terms[window]
    /\ \A t \in Turns : turn[t].at # "idle" => turn[t].limit \in terms[window]

(* Own slots, as long as no release looked elsewhere: claimed slots are    *)
(* rows, of one turn each, and not slots whose research was delivered.     *)
SlotsApart ==
    ~astray =>
       /\ \A t \in Turns : Holds(t) => Slot(t) \cap kept = {}
       /\ \A s, t \in Turns : Holds(s) /\ Holds(t) /\ s # t => Slot(s) \cap Slot(t) = {}

(* A mirror holds keys whose research was delivered in some window, or     *)
(* metered in bulk.                                                        *)
Delivered(keys, slots) == \A k \in keys : \E w \in Windows : <<w, k>> \in slots
MirrorsDelivered ==
    /\ Delivered(file.keys, done \cup thin)
    /\ \A t \in Turns : Delivered(turn[t].usage.keys, done \cup thin)

-----------------------------------------------------------------------------

LEMMA Bounds ==
    /\ FreeLimit \in Nat /\ PaidLimits \subseteq Nat /\ MaxMoves \in Nat
    /\ MaxWindow \in Nat /\ 0 \in Windows /\ 1 \in Windows
    /\ MaxTurns \in Nat /\ MaxCalls \in Nat /\ MaxFaults \in Nat
  BY QuotaAssumption DEF Windows

(* The rows of a window are finite in number, and one more row is at most  *)
(* one more used.                                                          *)
RowsIn(R, w) == {r \in R : r[1] = w}

LEMMA KeysFinite == IsFiniteSet(Key)
<1>1. IsFiniteSet({"site", "name"})
  <2>1. IsFiniteSet({"site"})
    BY FS_Singleton
  <2>. QED
    BY <2>1, FS_AddElement, {"site"} \cup {"name"} = {"site", "name"}
<1>. QED
  BY <1>1, FS_Product, QuotaAssumption DEF Key

LEMMA UsedFinite ==
    ASSUME NEW R \in SUBSET (Windows \X Key), NEW w
    PROVE  /\ IsFiniteSet(RowsIn(R, w))
           /\ Cardinality(RowsIn(R, w)) \in Nat
<1>1. IsFiniteSet(Windows)
  BY FS_Interval, QuotaAssumption DEF Windows
<1>2. IsFiniteSet(Windows \X Key)
  BY <1>1, KeysFinite, FS_Product
<1>3. IsFiniteSet(RowsIn(R, w))
  BY <1>2, FS_Subset DEF RowsIn
<1>. QED
  BY <1>3, FS_CardinalityType

LEMMA UsedAfterAdding ==
    ASSUME NEW R \in SUBSET (Windows \X Key), NEW v \in Windows, NEW k \in Key, NEW w
    PROVE  Cardinality(RowsIn(R \cup {<<v, k>>}, w))
              <= Cardinality(RowsIn(R, w)) + (IF v = w THEN 1 ELSE 0)
<1>. DEFINE A == RowsIn(R, w)
            B == RowsIn(R \cup {<<v, k>>}, w)
<1>1. IsFiniteSet(A) /\ Cardinality(A) \in Nat
  BY UsedFinite
<1>2. CASE v = w
  <2>1. B = A \cup {<<v, k>>}
    BY <1>2 DEF RowsIn
  <2>. HIDE DEF A, B
  <2>2. Cardinality(A \cup {<<v, k>>}) = IF <<v, k>> \in A THEN Cardinality(A)
                                          ELSE Cardinality(A) + 1
    BY <1>1, FS_AddElement
  <2>. QED
    <3>1. Cardinality(B) <= Cardinality(A) + 1
      BY <1>1, <2>1, <2>2
    <3>. QED
      BY <3>1, <1>2 DEF A, B
<1>3. CASE v # w
  <2>1. B = A
    BY <1>3 DEF RowsIn
  <2>. HIDE DEF A, B
  <2>2. Cardinality(B) <= Cardinality(A) + 0
    BY <2>1, <1>1
  <2>. QED
    BY <2>2, <1>3 DEF A, B
<1>. QED
  BY <1>2, <1>3

LEMMA UsedOfSubset ==
    ASSUME NEW R \in SUBSET (Windows \X Key), NEW Q \in SUBSET R, NEW w
    PROVE  Cardinality(RowsIn(Q, w)) <= Cardinality(RowsIn(R, w))
<1>. DEFINE A == RowsIn(R, w)
            B == RowsIn(Q, w)
<1>1. IsFiniteSet(A) /\ B \in SUBSET A
  BY UsedFinite DEF RowsIn
<1>. HIDE DEF A, B
<1>2. Cardinality(B) <= Cardinality(A)
  BY <1>1, FS_Subset
<1>. QED
  BY <1>2 DEF A, B

-----------------------------------------------------------------------------

(* The operators on a turn's record keep its type.                         *)
LEMMA TurnOperators ==
    ASSUME NEW r \in Turn
    PROVE  /\ r.usage \in Mirror /\ r.keys \in SUBSET Key /\ r.in \in Windows
           /\ Thinking(r) \in Turn
           /\ \A u \in Mirror, K \in SUBSET Key : Mirrored(u, K) \in Mirror
           /\ \A u \in Mirror : [r EXCEPT !.usage = u] \in Turn
           /\ \A u \in Mirror, K \in SUBSET Key : [r EXCEPT !.keys = K, !.usage = u] \in Turn
           /\ \A a \in {"search", "batch"}, K \in SUBSET Key, b \in BOOLEAN, w \in Windows :
                 /\ [r EXCEPT !.at = a, !.keys = K] \in Turn
                 /\ [r EXCEPT !.at = a, !.keys = K, !.new = b, !.in = w] \in Turn
<1>1. \A u \in Mirror, K \in SUBSET Key : Mirrored(u, K) \in Mirror
  BY DEF Mirror, Mirrored
<1>. QED
  BY <1>1 DEF Turn, Thinking

LEMMA IdleTyped ==
    /\ Idle \in Turn
    /\ \A u \in Mirror, n \in Nat : [Idle EXCEPT !.at = "think", !.limit = n, !.usage = u] \in Turn
<1>1. [keys |-> {}, migrated |-> FALSE] \in Mirror
  BY DEF Mirror
<1>2. 0 \in Windows
  BY Bounds
<1>. QED
  BY <1>1, <1>2 DEF Idle, Turn

(* Slots of a turn's keys are slots of the table.                          *)
LEMMA SlotsTyped ==
    ASSUME TypeOK, NEW t \in Turns
    PROVE  /\ turn[t] \in Turn
           /\ Slot(t) \subseteq Windows \X Key
           /\ ReleasedBy(t) \subseteq Windows \X Key
<1>1. turn[t] \in Turn
  BY DEF TypeOK
<1>. QED
  <2>1. turn[t].keys \subseteq Key /\ turn[t].in \in Windows /\ window \in Windows
    BY <1>1, TurnOperators DEF TypeOK
  <2>. QED
    BY <1>1, <2>1 DEF Slot, ReleasedBy

(* A step keeps every type.                                                *)
LEMMA TypeStep == TypeOK /\ [Next]_vars => TypeOK'
<1>. USE Bounds
<1>. SUFFICES ASSUME TypeOK, [Next]_vars PROVE TypeOK'
  OBVIOUS
<1>. USE DEF TypeOK
<1>1. ASSUME NEW t \in Turns, NEW n \in {allowance, FreeLimit}, Begin(t, n) PROVE TypeOK'
  <2>1. file' \in Mirror /\ file.keys \in SUBSET Key
    BY <1>1 DEF Begin, Mirror
  <2>2. rows' \subseteq Windows \X Key
    BY <1>1, <2>1 DEF Begin, Imported, Windows
  <2>3. n \in Nat
    OBVIOUS
  <2>4. turn' = [turn EXCEPT ![t] =
                 [Idle EXCEPT !.at = "think", !.limit = n, !.usage = file']]
    BY <1>1 DEF Begin
  <2>5. turn' \in [Turns -> Turn]
    BY <2>1, <2>3, <2>4, IdleTyped
  <2>6. terms' = [terms EXCEPT ![window] = terms[window] \cup {n}]
    BY <1>1 DEF Begin
  <2>7. terms' \in [Windows -> SUBSET Nat]
    BY <2>3, <2>6
  <2>8. faults' \in 0..MaxFaults /\ begun' \in 0..MaxTurns
    BY <1>1 DEF Begin
  <2>. QED
    BY <1>1, <2>1, <2>2, <2>5, <2>7, <2>8 DEF Begin, plan
<1>2. ASSUME NEW t \in Turns, Usable(t) PROVE TypeOK'
  <2>. DEFINE r == Thinking(turn[t])
  <2>1. r \in Turn /\ Mirrored(r.usage, turn[t].keys) \in Mirror
    BY SlotsTyped, TurnOperators
  <2>2. turn' = [turn EXCEPT ![t] = [r EXCEPT !.usage = Mirrored(r.usage, turn[t].keys)]]
    BY <1>2 DEF Usable
  <2>. HIDE DEF r
  <2>3. turn' \in [Turns -> Turn]
    BY <2>1, <2>2, TurnOperators
  <2>. QED
    BY <1>2, <2>3, SlotsTyped DEF Usable, plan
<1>3. ASSUME NEW t \in Turns, Unusable(t) PROVE TypeOK'
  <2>1. turn' \in [Turns -> Turn]
    BY <1>3, SlotsTyped, TurnOperators DEF Unusable
  <2>. QED
    BY <1>3, <2>1, SlotsTyped, TurnOperators DEF Unusable, plan
<1>4. ASSUME NEW t \in Turns, ReleaseFails(t) PROVE TypeOK'
  <2>1. turn' \in [Turns -> Turn]
    BY <1>4, SlotsTyped, TurnOperators DEF ReleaseFails
  <2>. QED
    BY <1>4, <2>1, SlotsTyped DEF ReleaseFails, plan
<1>5. ASSUME NEW t \in Turns, RecordOne(t) PROVE TypeOK'
  <2>1. PICK k \in turn[t].keys :
           /\ rows' \in {rows, Recorded(k)}
           /\ done' \in {done, done \cup {<<window, k>>}}
           /\ thin' \in {thin, thin \cup {<<window, k>>}}
           /\ faults' = faults \/ (faults < MaxFaults /\ faults' = faults + 1)
           /\ turn' = [turn EXCEPT ![t] =
                       LET r == [turn[t] EXCEPT !.keys = @ \ {k}, !.usage = Mirrored(@, {k})]
                       IN IF r.keys = {} THEN Thinking(r) ELSE r]
    BY <1>5 DEF RecordOne
  <2>2. k \in Key
    BY SlotsTyped, TurnOperators
  <2>. DEFINE r == [turn[t] EXCEPT !.keys = @ \ {k}, !.usage = Mirrored(@, {k})]
  <2>3. r \in Turn
    BY <2>2, SlotsTyped, TurnOperators
  <2>4. turn' = [turn EXCEPT ![t] = IF r.keys = {} THEN Thinking(r) ELSE r]
    BY <2>1
  <2>. HIDE DEF r
  <2>5. turn' \in [Turns -> Turn]
    BY <2>3, <2>4, TurnOperators
  <2>. QED
    BY <1>5, <2>1, <2>2, <2>5 DEF RecordOne, Recorded, plan
<1>6. ASSUME NEW t \in Turns, End(t) PROVE TypeOK'
  BY <1>6, SlotsTyped, TurnOperators, IdleTyped DEF End, plan
<1>7. ASSUME NEW t \in Turns, Die(t) PROVE TypeOK'
  <2>1. turn' \in [Turns -> Turn]
    BY <1>7, IdleTyped DEF Die
  <2>2. left' = left \cup Slot(t) \/ left' = left
    BY <1>7 DEF Die
  <2>3. left' \subseteq Windows \X Key
    BY <2>2, SlotsTyped
  <2>. QED
    BY <1>7, <2>1, <2>3 DEF Die, plan
<1>8. ASSUME NEW t \in Turns, NEW k \in Key, Claim(t, k) PROVE TypeOK'
  <2>. DEFINE b == Metered(t) => <<window, k>> \notin rows
  <2>1. turn' = [turn EXCEPT ![t] = [turn[t] EXCEPT !.at = "search", !.keys = {k},
                                      !.new = b, !.in = window]]
    BY <1>8 DEF Claim
  <2>2. b \in BOOLEAN
    OBVIOUS
  <2>. HIDE DEF b
  <2>3. turn' \in [Turns -> Turn]
    BY <2>1, <2>2, SlotsTyped, TurnOperators
  <2>. QED
    BY <1>8, <2>3 DEF Claim, Recorded, plan
<1>9. ASSUME NEW t \in Turns, NEW lot \in SUBSET {Name(c) : c \in Companies}, Batch(t, lot)
      PROVE  TypeOK'
  <2>1. lot \in SUBSET Key
    BY DEF Name, Key
  <2>2. turn' = [turn EXCEPT ![t] = [turn[t] EXCEPT !.at = "batch", !.keys = lot]]
    BY <1>9 DEF Batch
  <2>3. turn' \in [Turns -> Turn]
    BY <2>1, <2>2, SlotsTyped, TurnOperators
  <2>. QED
    BY <1>9, <2>3 DEF Batch, plan
<1>10. ASSUME NEW w \in Windows, NEW n \in Nat, Moves(w, n) PROVE TypeOK'
  <2>1. Carried \subseteq Nat
    BY DEF Carried, Turn
  <2>2. terms' = [terms EXCEPT ![w] = terms[w] \cup {n} \cup Carried]
    BY <1>10 DEF Moves
  <2>3. terms' \in [Windows -> SUBSET Nat]
    BY <2>1, <2>2
  <2>4. moves' \in 0..MaxMoves
    BY <1>10 DEF Moves
  <2>. QED
    BY <1>10, <2>3, <2>4 DEF Moves
<1>11. ASSUME UNCHANGED vars PROVE TypeOK'
  BY <1>11 DEF vars, plan
<1>. QED
  BY <1>1, <1>2, <1>3, <1>4, <1>5, <1>6, <1>7, <1>8, <1>9, <1>10, <1>11
     DEF Next, Refused, Renew, ChangePlan, Lapse, Windows

(* Every state is of the declared types (the state of usage.py's tables    *)
(* and of a turn's hydrated session).                                      *)
THEOREM TypeCorrect == Spec => []TypeOK
<1>. USE Bounds
<1>1. Init => TypeOK
  <2>. SUFFICES ASSUME Init PROVE TypeOK
    OBVIOUS
  <2>1. PICK old \in {{}} \cup {{Site(c)} : c \in Companies} :
           file = [keys |-> old, migrated |-> FALSE] /\ done = {<<0, k>> : k \in old}
    BY DEF Init
  <2>2. old \subseteq Key
    BY DEF Site, Key
  <2>3. file \in Mirror
    BY <2>1, <2>2 DEF Mirror
  <2>4. 0 \in Windows /\ window \in Windows
    BY DEF Init
  <2>. QED
    <3>1. done \subseteq Windows \X Key
      BY <2>1, <2>2
    <3>2. turn \in [Turns -> Turn]
      BY IdleTyped DEF Init
    <3>3. /\ rows = {} /\ thin = {} /\ kept = {} /\ left = {} /\ astray = FALSE
          /\ moves = 0 /\ begun = 0 /\ calls = 0 /\ faults = 0
      BY DEF Init
    <3>4. /\ rows \subseteq Windows \X Key /\ left \subseteq Windows \X Key
          /\ thin \subseteq Windows \X Key
      BY <3>3
    <3>10. allowance \in Nat
      BY DEF Init
    <3>11. terms \in [Windows -> SUBSET Nat]
      BY <3>10 DEF Init
    <3>12. moves \in 0..MaxMoves
      BY <3>3
    <3>5. kept \subseteq done
      BY <3>3
    <3>6. astray \in BOOLEAN
      BY <3>3
    <3>7. begun \in 0..MaxTurns
      BY <3>3
    <3>8. calls \in 0..MaxCalls
      BY <3>3
    <3>9. faults \in 0..MaxFaults
      BY <3>3
    <3>. QED
      BY <2>3, <2>4, <3>1, <3>2, <3>4, <3>5, <3>6, <3>7, <3>8, <3>9,
         <3>10, <3>11, <3>12 DEF TypeOK
<1>2. TypeOK /\ [Next]_vars => TypeOK'
  BY TypeStep
<1>. QED
  BY <1>1, <1>2, PTL DEF Spec

-----------------------------------------------------------------------------

(***************************************************************************)
(* The cap                                                                 *)
(***************************************************************************)

(* The record of limits only grows, and takes in what a turn caches and    *)
(* what the turns carry over.                                              *)
LEMMA LimitsStep ==
    TypeOK /\ LimitsCached /\ [Next]_vars
       => LimitsCached' /\ \A w \in Windows : terms[w] \subseteq terms'[w]
<1>. SUFFICES ASSUME TypeOK, LimitsCached, [Next]_vars
              PROVE  LimitsCached' /\ \A w \in Windows : terms[w] \subseteq terms'[w]
  OBVIOUS
<1>0. /\ turn \in [Turns -> Turn] /\ window \in Windows
      /\ terms \in [Windows -> SUBSET Nat]
      /\ allowance \in terms[window]
      /\ \A s \in Turns : turn[s].at # "idle" => turn[s].limit \in terms[window]
  BY DEF TypeOK, LimitsCached
<1>1. ASSUME NEW t \in Turns, NEW n, Begin(t, n)
      PROVE  LimitsCached' /\ \A w \in Windows : terms[w] \subseteq terms'[w]
  <2>1. /\ terms' = [terms EXCEPT ![window] = terms[window] \cup {n}]
        /\ window' = window /\ allowance' = allowance
        /\ turn'[t].limit = n /\ \A s \in Turns \ {t} : turn'[s] = turn[s]
    BY <1>0, <1>1 DEF Begin, Idle
  <2>. QED
    BY <1>0, <2>1 DEF LimitsCached
<1>2. ASSUME NEW w \in Windows, NEW n, Moves(w, n)
      PROVE  LimitsCached' /\ \A v \in Windows : terms[v] \subseteq terms'[v]
  <2>1. /\ terms' = [terms EXCEPT ![w] = terms[w] \cup {n} \cup Carried]
        /\ window' = w /\ allowance' = n /\ turn' = turn
    BY <1>2 DEF Moves
  <2>2. \A s \in Turns : turn[s].at # "idle" => turn[s].limit \in Carried
    BY DEF Carried
  <2>. QED
    BY <1>0, <2>1, <2>2 DEF LimitsCached
<1>3. ASSUME UNCHANGED plan,
             \A s \in Turns : turn'[s].at # "idle" =>
                turn[s].at # "idle" /\ turn'[s].limit = turn[s].limit
      PROVE  LimitsCached' /\ \A w \in Windows : terms[w] \subseteq terms'[w]
  BY <1>0, <1>3 DEF LimitsCached, plan
<1>4. ASSUME NEW t \in Turns, Usable(t) \/ Unusable(t) \/ ReleaseFails(t) \/ RecordOne(t)
                                \/ End(t) \/ Die(t)
      PROVE  /\ UNCHANGED plan
             /\ \A s \in Turns : turn'[s].at # "idle" =>
                   turn[s].at # "idle" /\ turn'[s].limit = turn[s].limit
  <2>1. CASE Usable(t)
    BY <1>0, <2>1 DEF Usable, Thinking, Turn
  <2>2. CASE Unusable(t) \/ ReleaseFails(t)
    <3>1. turn' = [turn EXCEPT ![t] = Thinking(turn[t])] /\ UNCHANGED plan
      BY <2>2 DEF Unusable, ReleaseFails
    <3>2. turn[t].at # "idle"
      BY <2>2 DEF Unusable, ReleaseFails
    <3>. QED
      BY <1>0, <3>1, <3>2 DEF Thinking, Turn
  <2>3. CASE RecordOne(t)
    BY <1>0, <2>3 DEF RecordOne, Thinking, Turn
  <2>4. CASE End(t) \/ Die(t)
    BY <1>0, <2>4 DEF End, Die, Idle
  <2>. QED
    BY <1>4, <2>1, <2>2, <2>3, <2>4
<1>5. ASSUME NEW t \in Turns, NEW k, NEW lot, Claim(t, k) \/ Batch(t, lot)
      PROVE  /\ UNCHANGED plan
             /\ \A s \in Turns : turn'[s].at # "idle" =>
                   turn[s].at # "idle" /\ turn'[s].limit = turn[s].limit
  BY <1>0, <1>5 DEF Claim, Batch, Turn
<1>6. CASE UNCHANGED vars
  BY <1>3, <1>6 DEF vars
<1>7. CASE Renew \/ ChangePlan \/ Lapse
  <2>1. \E w \in Windows, n \in Nat : Moves(w, n)
    BY <1>0, <1>7, Bounds DEF Renew, ChangePlan, Lapse
  <2>. QED
    BY <1>2, <2>1
<1>8. CASE \E t \in Turns : \/ Usable(t) \/ Unusable(t) \/ ReleaseFails(t)
                           \/ RecordOne(t) \/ End(t) \/ Die(t)
  BY <1>3, <1>4, <1>8
<1>9. CASE \E t \in Turns : \/ \E k \in Key : Claim(t, k)
                           \/ \E lot \in SUBSET {Name(c) : c \in Companies} : Batch(t, lot)
  BY <1>3, <1>5, <1>9
<1>. QED
  BY <1>1, <1>6, <1>7, <1>8, <1>9 DEF Next, Refused

(* Some limit on record covers what a window holds.                        *)
CappedIn(R, w, limits) ==
    LET used == Cardinality(RowsIn(R, w)) IN used > 0 => \E n \in limits : n = 0 \/ used <= n

(* More limits on record, or fewer rows, keep a window's cap.              *)
LEMMA CapIsMonotone ==
    ASSUME NEW R \in SUBSET (Windows \X Key), NEW Q \in SUBSET R, NEW w,
           NEW L \in SUBSET Nat, NEW M \in SUBSET Nat, L \subseteq M, CappedIn(R, w, L)
    PROVE  CappedIn(Q, w, M)
<1>. DEFINE used == Cardinality(RowsIn(R, w))
            less == Cardinality(RowsIn(Q, w))
<1>1. used \in Nat /\ less \in Nat /\ less <= used
  BY UsedFinite, UsedOfSubset
<1>2. used > 0 => \E n \in L : n = 0 \/ used <= n
  BY DEF CappedIn
<1>. HIDE DEF used, less
<1>3. less > 0 => \E n \in M : n = 0 \/ less <= n
  BY <1>1, <1>2
<1>. QED
  BY <1>3 DEF CappedIn, less

(* Recording a key that is not blocked keeps the window's cap.             *)
LEMMA RecordingKeepsCap ==
    ASSUME TypeOK, LimitsCached, NEW t \in Turns, turn[t].at # "idle", NEW k \in Key,
           ~Blocked(t, k), NEW w \in Windows, CappedIn(rows, w, terms[w])
    PROVE  CappedIn(Recorded(k), w, terms[w])
<1>1. /\ rows \in SUBSET (Windows \X Key) /\ window \in Windows
      /\ turn[t] \in Turn /\ turn[t].limit \in terms[window] /\ turn[t].limit \in Nat
  BY DEF TypeOK, LimitsCached, Turn
<1>. DEFINE used == Cardinality(RowsIn(rows, w))
            more == Cardinality(RowsIn(rows \cup {<<window, k>>}, w))
            n == turn[t].limit
<1>2. used \in Nat /\ more \in Nat
  BY <1>1, UsedFinite, rows \cup {<<window, k>>} \in SUBSET (Windows \X Key)
<1>3. more <= used + (IF window = w THEN 1 ELSE 0)
  BY <1>1, UsedAfterAdding
<1>4. CASE <<window, k>> \in rows
  <2>1. rows \cup {<<window, k>>} = rows
    BY <1>4
  <2>. QED
    BY <2>1 DEF Recorded
<1>5. CASE w # window
  <2>1. RowsIn(rows \cup {<<window, k>>}, w) = RowsIn(rows, w)
    BY <1>5 DEF RowsIn
  <2>. QED
    BY <2>1 DEF Recorded, CappedIn
<1>6. CASE w = window /\ <<window, k>> \notin rows
  <2>1. Used(window) = used
    BY <1>6 DEF Used, RowsIn
  <2>2. n = 0 \/ ~(used >= n)
    BY <1>6, <2>1 DEF Blocked, Metered
  <2>. HIDE DEF used, more
  <2>3. n = 0 \/ more <= n
    BY <1>1, <1>2, <1>3, <1>6, <2>2
  <2>. QED
    BY <1>1, <1>6, <2>3 DEF CappedIn, Recorded, more
<1>. QED
  BY <1>4, <1>5, <1>6

(* However many turns claim and meter at once, no paid period holds more   *)
(* prospects than some limit that was enforced in it, the user's plan's or *)
(* the one a turn carried into it, unless that was no limit                *)
(* (record_prospect_use's count and insert, under the limit cached at      *)
(* _run_turn and over a moving usage_period).                              *)
THEOREM CapHolds == Spec => []PaidWindowsCapped
<1>. DEFINE Capped == \A w \in Windows \ {0} : CappedIn(rows, w, terms[w])
<1>0. Capped <=> PaidWindowsCapped
  BY DEF CappedIn, PaidWindowsCapped, Used, RowsIn
<1>1. Init => LimitsCached /\ Capped
  <2>. SUFFICES ASSUME Init PROVE LimitsCached /\ Capped
    OBVIOUS
  <2>1. LimitsCached
    <3>1. window \in Windows
      BY Bounds DEF Init
    <3>. QED
      BY <3>1 DEF Init, LimitsCached, Idle
  <2>2. \A w : RowsIn(rows, w) = {}
    BY DEF Init, RowsIn
  <2>3. \A w : Cardinality(RowsIn(rows, w)) = 0
    BY <2>2, FS_EmptySet
  <2>. QED
    BY <2>1, <2>3 DEF CappedIn
<1>2. TypeOK /\ LimitsCached /\ Capped /\ [Next]_vars => Capped'
  <2>. SUFFICES ASSUME TypeOK, LimitsCached, Capped, [Next]_vars, NEW w \in Windows \ {0}
                PROVE  CappedIn(rows, w, terms[w])'
    OBVIOUS
  <2>0. /\ rows \in SUBSET (Windows \X Key) /\ terms[w] \in SUBSET Nat
        /\ terms'[w] \in SUBSET Nat /\ terms[w] \subseteq terms'[w]
        /\ CappedIn(rows, w, terms[w])
    <3>1. TypeOK'
      BY TypeStep
    <3>. QED
      BY <3>1, LimitsStep DEF TypeOK
  <2>1. ASSUME NEW R, R \in SUBSET rows, rows' = R PROVE CappedIn(rows, w, terms[w])'
    <3>1. CappedIn(R, w, terms'[w])
      BY <2>0, <2>1, CapIsMonotone
    <3>. QED
      BY <2>1, <3>1 DEF CappedIn, RowsIn
  <2>2. ASSUME NEW t \in Turns, turn[t].at # "idle", NEW k \in Key, ~Blocked(t, k),
               rows' = Recorded(k)
        PROVE  CappedIn(rows, w, terms[w])'
    <3>. DEFINE R == Recorded(k)
    <3>1. CappedIn(R, w, terms[w])
      BY <2>0, <2>2, RecordingKeepsCap
    <3>2. R \in SUBSET (Windows \X Key)
      BY <2>0 DEF Recorded, TypeOK
    <3>. HIDE DEF R
    <3>3. CappedIn(R, w, terms'[w])
      BY <2>0, <3>1, <3>2, CapIsMonotone
    <3>. QED
      BY <2>2, <3>3 DEF CappedIn, RowsIn, R
  <2>3. ASSUME NEW t \in Turns, NEW n, Begin(t, n) PROVE CappedIn(rows, w, terms[w])'
    <3>. DEFINE R == IF file.keys # {} /\ ~file.migrated THEN Imported(file.keys) ELSE rows
    <3>1. rows' = R
      BY <2>3 DEF Begin
    <3>2. RowsIn(R, w) = RowsIn(rows, w)
      BY DEF RowsIn, Imported
    <3>. HIDE DEF R
    <3>3. CappedIn(R, w, terms[w])
      BY <2>0, <3>2 DEF CappedIn
    <3>4. CappedIn(rows, w, terms'[w])
      BY <2>0, CapIsMonotone
    <3>. QED
      BY <3>1, <3>2, <3>4 DEF CappedIn, RowsIn
  <2>4. ASSUME NEW t \in Turns, NEW k \in Key, Claim(t, k) PROVE CappedIn(rows, w, terms[w])'
    <3>1. turn[t].at # "idle" /\ ~Blocked(t, k) /\ (rows' = Recorded(k) \/ rows' = rows)
      BY <2>4 DEF Claim
    <3>. QED
      BY <2>1, <2>2, <3>1
  <2>5. ASSUME NEW t \in Turns, RecordOne(t) PROVE CappedIn(rows, w, terms[w])'
    <3>1. PICK k \in turn[t].keys : rows' = rows \/ (~Blocked(t, k) /\ rows' = Recorded(k))
      BY <2>5 DEF RecordOne
    <3>2. k \in Key /\ turn[t].at # "idle"
      BY <2>5, SlotsTyped, TurnOperators DEF RecordOne
    <3>. QED
      BY <2>1, <2>2, <3>1, <3>2
  <2>6. ASSUME NEW t \in Turns, Unusable(t) PROVE CappedIn(rows, w, terms[w])'
    <3>1. rows' = rows \/ rows' = rows \ ReleasedBy(t)
      BY <2>6 DEF Unusable
    <3>. QED
      BY <2>1, <3>1
  <2>7. ASSUME UNCHANGED rows PROVE CappedIn(rows, w, terms[w])'
    BY <2>1, <2>7
  <2>. QED
    BY <2>3, <2>4, <2>5, <2>6, <2>7
       DEF Next, Refused, Usable, ReleaseFails, End, Die, Batch, Renew, ChangePlan, Lapse,
           Moves, vars
<1>. QED
  BY <1>0, <1>1, <1>2, LimitsStep, TypeCorrect, PTL DEF Spec

-----------------------------------------------------------------------------

(***************************************************************************)
(* Slots of one's own                                                      *)
(***************************************************************************)

(* Only a search holds a claim, and of one key.                            *)
LEMMA FormsStep == TypeOK /\ TurnForms /\ [Next]_vars => TurnForms'
<1>. SUFFICES ASSUME TypeOK, TurnForms, [Next]_vars, NEW s \in Turns
              PROVE  /\ turn'[s].at = "search" => \E k \in Key : turn'[s].keys = {k}
                     /\ turn'[s].new => turn'[s].at = "search"
  BY DEF TurnForms
<1>. DEFINE Form(r) == /\ r.at = "search" => \E k \in Key : r.keys = {k}
                       /\ r.new => r.at = "search"
<1>0. turn \in [Turns -> Turn] /\ Form(turn[s])
  BY DEF TypeOK, TurnForms
<1>1. ASSUME NEW t \in Turns, NEW n, Begin(t, n) PROVE Form(turn'[s])
  BY <1>0, <1>1 DEF Begin, Idle
<1>2. ASSUME NEW t \in Turns, Usable(t) PROVE Form(turn'[s])
  BY <1>0, <1>2 DEF Usable, Thinking, Turn
<1>3. ASSUME NEW t \in Turns, Unusable(t) \/ ReleaseFails(t) PROVE Form(turn'[s])
  <2>1. turn' = [turn EXCEPT ![t] = Thinking(turn[t])]
    BY <1>3 DEF Unusable, ReleaseFails
  <2>. QED
    BY <1>0, <2>1 DEF Thinking, Turn
<1>4. ASSUME NEW t \in Turns, RecordOne(t) PROVE Form(turn'[s])
  BY <1>0, <1>4 DEF RecordOne, Thinking, Turn
<1>5. ASSUME NEW t \in Turns, End(t) \/ Die(t) PROVE Form(turn'[s])
  BY <1>0, <1>5 DEF End, Die, Idle
<1>6. ASSUME NEW t \in Turns, NEW k \in Key, Claim(t, k) PROVE Form(turn'[s])
  BY <1>0, <1>6 DEF Claim, Turn
<1>7. ASSUME NEW t \in Turns, NEW lot, Batch(t, lot) PROVE Form(turn'[s])
  <2>1. ~turn[t].new
    BY <1>7 DEF Batch, TurnForms
  <2>. QED
    BY <1>0, <1>7, <2>1 DEF Batch, Turn
<1>8. ASSUME UNCHANGED turn PROVE Form(turn'[s])
  BY <1>0, <1>8
<1>. QED
  BY <1>1, <1>2, <1>3, <1>4, <1>5, <1>6, <1>7, <1>8
     DEF Next, Refused, Renew, ChangePlan, Lapse, Moves, vars

(* A turn that gives up what it did, while no row goes and nothing is      *)
(* delivered, takes no slot from anybody.                                  *)
LEMMA GivingUpKeepsSlots ==
    ASSUME TypeOK, OwnSlotStands, SlotsApart, TurnForms, NEW t \in Turns,
           \A s \in Turns \ {t} : turn'[s] = turn[s],
           ~turn'[t].new, rows \subseteq rows', kept' = kept, astray' = astray
    PROVE  OwnSlotStands' /\ SlotsApart'
<1>1. \A s \in Turns \ {t} : Slot(s)' = Slot(s) /\ Holds(s)' = Holds(s)
  BY DEF Slot, Holds, Metered
<1>2. ~Holds(t)'
  BY DEF Holds
<1>. QED
  BY <1>1, <1>2 DEF OwnSlotStands, SlotsApart

(* A slot that is released in the window of its claim is nobody else's.    *)
LEMMA ReleaseKeepsSlots ==
    ASSUME TypeOK, OwnSlotStands, SlotsApart, TurnForms, NEW t \in Turns, Unusable(t)
    PROVE  OwnSlotStands' /\ SlotsApart'
<1>1. /\ turn \in [Turns -> Turn] /\ astray \in BOOLEAN
      /\ turn' = [turn EXCEPT ![t] = Thinking(turn[t])] /\ kept' = kept
  BY DEF TypeOK, Unusable
<1>2. ~turn'[t].new /\ \A s \in Turns \ {t} : turn'[s] = turn[s]
  BY <1>1 DEF Thinking, Turn
<1>3. CASE ~turn[t].new
  BY <1>1, <1>2, <1>3, GivingUpKeepsSlots DEF Unusable
<1>4. CASE turn[t].new /\ Elsewhere(t)
  <2>1. astray'
    BY <1>4 DEF Unusable
  <2>. QED
    BY <2>1 DEF OwnSlotStands, SlotsApart
<1>5. CASE Holds(t) /\ ~Elsewhere(t)
  <2>. SUFFICES ASSUME ~astray' PROVE OwnSlotStands' /\ SlotsApart'
    BY DEF OwnSlotStands, SlotsApart
  <2>1. ~astray /\ rows' = rows \ Slot(t)
    BY <1>5 DEF Unusable, ReleasedBy, Slot, Elsewhere, Holds
  <2>2. \A s \in Turns \ {t} : Slot(s)' = Slot(s) /\ Holds(s)' = Holds(s)
    BY <1>2 DEF Slot, Holds, Metered
  <2>3. ~Holds(t)'
    BY <1>2 DEF Holds
  <2>4. \A s \in Turns : Holds(s) => turn[s].at = "search"
    BY DEF Holds, TurnForms
  <2>. QED
    BY <1>1, <1>2, <1>5, <2>1, <2>2, <2>3, <2>4 DEF OwnSlotStands, SlotsApart
<1>6. CASE turn[t].new /\ ~Metered(t) /\ ~Elsewhere(t)
  <2>1. rows' = rows /\ astray' = astray
    BY <1>1, <1>6 DEF Unusable, Elsewhere
  <2>. QED
    BY <1>1, <1>2, <2>1, GivingUpKeepsSlots
<1>. QED
  BY <1>3, <1>4, <1>5, <1>6 DEF Holds

(* A new claim is of a slot nobody has.                                    *)
LEMMA ClaimKeepsSlots ==
    ASSUME TypeOK, OwnSlotStands, SlotsApart, TurnForms,
           NEW t \in Turns, NEW k \in Key, Claim(t, k)
    PROVE  OwnSlotStands' /\ SlotsApart'
<1>. SUFFICES ASSUME ~astray' PROVE OwnSlotStands' /\ SlotsApart'
  BY DEF OwnSlotStands, SlotsApart
<1>1. /\ turn \in [Turns -> Turn] /\ ~astray /\ kept' = kept
      /\ rows' = rows \cup (IF Metered(t) THEN {<<window, k>>} ELSE {})
  BY DEF TypeOK, Claim, Recorded
<1>2. \A s \in Turns \ {t} :
         turn'[s] = turn[s] /\ Slot(s)' = Slot(s) /\ Holds(s)' = Holds(s)
  BY <1>1 DEF Claim, Slot, Holds, Metered
<1>3. /\ Slot(t)' = {<<window, k>>}
      /\ Holds(t)' => Metered(t) /\ <<window, k>> \notin rows
  BY <1>1 DEF Claim, Slot, Turn, Holds, Metered
<1>4. kept \subseteq rows /\ \A s \in Turns : Holds(s) => Slot(s) \subseteq rows
  BY <1>1 DEF OwnSlotStands, TurnForms, Holds
<1>. QED
  BY <1>1, <1>2, <1>3, <1>4 DEF OwnSlotStands, SlotsApart

(* A slot whose research is delivered was this turn's and stays.           *)
LEMMA DeliveryKeepsSlots ==
    ASSUME TypeOK, OwnSlotStands, SlotsApart, TurnForms, NEW t \in Turns, Usable(t)
    PROVE  OwnSlotStands' /\ SlotsApart'
<1>. SUFFICES ASSUME ~astray' PROVE OwnSlotStands' /\ SlotsApart'
  BY DEF OwnSlotStands, SlotsApart
<1>1. turn \in [Turns -> Turn] /\ ~astray /\ rows' = rows
  BY DEF TypeOK, Usable
<1>2. \A s \in Turns \ {t} :
         turn'[s] = turn[s] /\ Slot(s)' = Slot(s) /\ Holds(s)' = Holds(s)
  BY <1>1 DEF Usable, Slot, Holds, Metered
<1>3. ~Holds(t)'
  BY <1>1 DEF Usable, Thinking, Turn, Holds
<1>4. kept' = kept \/ (kept' = kept \cup Slot(t) /\ Holds(t))
  <2>1. kept' = IF Holds(t) THEN kept \cup Slot(t) ELSE kept
    BY DEF Usable
  <2>. QED
    BY <2>1
<1>5. \A s \in Turns : Holds(s) => turn[s].at = "search"
  BY DEF Holds, TurnForms
<1>. QED
  BY <1>1, <1>2, <1>3, <1>4, <1>5 DEF OwnSlotStands, SlotsApart

(* A turn that claimed a slot has it while it researches, and keeps it     *)
(* once the research was delivered: no other turn's release takes it, as   *)
(* long as every release was of the slot of its own claim                  *)
(* (_release_prospect, release_prospect_use).                              *)
THEOREM OwnSlots == Spec => []OwnSlotStands
<1>1. Init => TurnForms /\ OwnSlotStands /\ SlotsApart
  BY DEF Init, TurnForms, OwnSlotStands, SlotsApart, Idle, Holds
<1>2. TypeOK /\ TurnForms /\ OwnSlotStands /\ SlotsApart /\ [Next]_vars
         => OwnSlotStands' /\ SlotsApart'
  <2>. SUFFICES ASSUME TypeOK, TurnForms, OwnSlotStands, SlotsApart, [Next]_vars
                PROVE  OwnSlotStands' /\ SlotsApart'
    OBVIOUS
  <2>0. turn \in [Turns -> Turn]
    BY DEF TypeOK
  <2>1. ASSUME NEW t \in Turns, NEW n, Begin(t, n) PROVE OwnSlotStands' /\ SlotsApart'
    BY <2>0, <2>1, GivingUpKeepsSlots DEF Begin, Imported, Idle
  <2>2. ASSUME NEW t \in Turns, ReleaseFails(t) PROVE OwnSlotStands' /\ SlotsApart'
    BY <2>0, <2>2, GivingUpKeepsSlots DEF ReleaseFails, Thinking, Turn
  <2>3. ASSUME NEW t \in Turns, RecordOne(t) PROVE OwnSlotStands' /\ SlotsApart'
    <3>1. ~turn'[t].new
      BY <2>0, <2>3 DEF RecordOne, TurnForms, Thinking, Turn
    <3>. QED
      BY <2>0, <2>3, <3>1, GivingUpKeepsSlots DEF RecordOne, Recorded
  <2>4. ASSUME NEW t \in Turns, End(t) \/ Die(t) PROVE OwnSlotStands' /\ SlotsApart'
    BY <2>0, <2>4, GivingUpKeepsSlots DEF End, Die, Idle
  <2>5. ASSUME NEW t \in Turns, NEW lot, Batch(t, lot) PROVE OwnSlotStands' /\ SlotsApart'
    <3>1. ~turn'[t].new
      BY <2>0, <2>5 DEF Batch, TurnForms, Turn
    <3>. QED
      BY <2>0, <2>5, <3>1, GivingUpKeepsSlots DEF Batch
  <2>6. ASSUME UNCHANGED <<rows, turn, kept, astray>> PROVE OwnSlotStands' /\ SlotsApart'
    BY <2>6 DEF OwnSlotStands, SlotsApart, Slot, Holds, Metered
  <2>. QED
    BY <2>1, <2>2, <2>3, <2>4, <2>5, <2>6, ReleaseKeepsSlots, ClaimKeepsSlots,
       DeliveryKeepsSlots DEF Next, Refused, Renew, ChangePlan, Lapse, Moves, vars
<1>. QED
  BY <1>1, <1>2, FormsStep, TypeCorrect, PTL DEF Spec

-----------------------------------------------------------------------------

(***************************************************************************)
(* Nothing for nothing                                                     *)
(***************************************************************************)

(* What was delivered stays delivered, and mirrors take only that.         *)
LEMMA MirrorsStep == TypeOK /\ TurnForms /\ MirrorsDelivered /\ [Next]_vars => MirrorsDelivered'
<1>. SUFFICES ASSUME TypeOK, TurnForms, MirrorsDelivered, [Next]_vars PROVE MirrorsDelivered'
  OBVIOUS
<1>0. turn \in [Turns -> Turn] /\ window \in Windows
  BY DEF TypeOK
<1>1. done \cup thin \subseteq done' \cup thin'
  <2>1. ASSUME NEW t \in Turns, Usable(t) \/ RecordOne(t) PROVE done \cup thin \subseteq done' \cup thin'
    BY <2>1 DEF Usable, RecordOne
  <2>2. ASSUME UNCHANGED <<done, thin>> PROVE done \cup thin \subseteq done' \cup thin'
    BY <2>2
  <2>. QED
    BY <2>1, <2>2 DEF Next, Begin, Unusable, ReleaseFails, End, Die, Claim, Refused, Batch,
       Renew, ChangePlan, Lapse, Moves, vars
<1>2. /\ Delivered(file.keys, done' \cup thin')
      /\ \A s \in Turns : Delivered(turn[s].usage.keys, done' \cup thin')
      /\ \A K, L : Delivered(K, done' \cup thin') /\ Delivered(L, done' \cup thin') => Delivered(K \cup L, done' \cup thin')
  BY <1>1 DEF Delivered, MirrorsDelivered
<1>3. ASSUME NEW t \in Turns, turn' = [turn EXCEPT ![t] = turn'[t]],
             Delivered(file'.keys, done' \cup thin'), Delivered(turn'[t].usage.keys, done' \cup thin')
      PROVE  MirrorsDelivered'
  BY <1>0, <1>2, <1>3 DEF MirrorsDelivered
<1>4. ASSUME NEW t \in Turns, NEW n, Begin(t, n) PROVE MirrorsDelivered'
  <2>1. file'.keys = file.keys /\ turn'[t].usage = file' /\ turn' = [turn EXCEPT ![t] = turn'[t]]
    BY <1>0, <1>4 DEF Begin, TypeOK, Mirror, Idle
  <2>. QED
    BY <1>2, <1>3, <2>1
<1>5. ASSUME NEW t \in Turns, Usable(t) PROVE MirrorsDelivered'
  <2>1. /\ turn'[t].usage.keys = turn[t].usage.keys \cup turn[t].keys
        /\ turn' = [turn EXCEPT ![t] = turn'[t]] /\ file' = file
    BY <1>0, <1>5 DEF Usable, Thinking, Mirrored, Turn, Mirror
  <2>2. Delivered(turn[t].keys, done' \cup thin')
    <3>1. turn[t].in \in Windows
      BY SlotsTyped, TurnOperators
    <3>. QED
      BY <1>5, <3>1 DEF Usable, Slot, Delivered
  <2>. QED
    BY <1>2, <1>3, <2>1, <2>2
<1>6. ASSUME NEW t \in Turns, RecordOne(t) PROVE MirrorsDelivered'
  <2>1. PICK k \in turn[t].keys :
           /\ <<window, k>> \in done' \cup thin'
           /\ turn' = [turn EXCEPT ![t] =
                       LET r == [turn[t] EXCEPT !.keys = @ \ {k}, !.usage = Mirrored(@, {k})]
                       IN IF r.keys = {} THEN Thinking(r) ELSE r]
    BY <1>6 DEF RecordOne
  <2>2. turn'[t].usage.keys = turn[t].usage.keys \cup {k}
    BY <1>0, <2>1 DEF Thinking, Mirrored, Turn, Mirror
  <2>3. Delivered({k}, done' \cup thin')
    BY <1>0, <2>1 DEF Delivered
  <2>4. turn' = [turn EXCEPT ![t] = turn'[t]] /\ file' = file
    BY <1>0, <1>6, <2>1 DEF RecordOne
  <2>. QED
    BY <1>2, <1>3, <2>2, <2>3, <2>4
<1>7. ASSUME NEW t \in Turns, End(t) PROVE MirrorsDelivered'
  <2>1. /\ turn'[t].usage.keys = {} /\ turn' = [turn EXCEPT ![t] = turn'[t]]
        /\ file' = turn[t].usage
    BY <1>0, <1>7 DEF End, Idle
  <2>. QED
    BY <1>2, <1>3, <2>1 DEF Delivered
<1>8. ASSUME NEW t \in Turns, Die(t) PROVE MirrorsDelivered'
  <2>1. turn'[t].usage.keys = {} /\ turn' = [turn EXCEPT ![t] = turn'[t]] /\ file' = file
    BY <1>0, <1>8 DEF Die, Idle
  <2>. QED
    BY <1>2, <1>3, <2>1 DEF Delivered
<1>9. ASSUME NEW t \in Turns, Unusable(t) \/ ReleaseFails(t) PROVE MirrorsDelivered'
  <2>1. turn' = [turn EXCEPT ![t] = Thinking(turn[t])] /\ file' = file
    BY <1>9 DEF Unusable, ReleaseFails
  <2>2. turn'[t].usage = turn[t].usage /\ turn' = [turn EXCEPT ![t] = turn'[t]]
    BY <1>0, <2>1 DEF Thinking, Turn
  <2>. QED
    BY <1>2, <1>3, <2>1, <2>2
<1>10. ASSUME NEW t \in Turns, NEW k, NEW lot, Claim(t, k) \/ Batch(t, lot)
       PROVE  MirrorsDelivered'
  <2>1. turn'[t].usage = turn[t].usage /\ turn' = [turn EXCEPT ![t] = turn'[t]] /\ file' = file
    BY <1>0, <1>10 DEF Claim, Batch, Turn
  <2>. QED
    BY <1>2, <1>3, <2>1
<1>11. ASSUME UNCHANGED <<turn, file>> PROVE MirrorsDelivered'
  BY <1>2, <1>11 DEF MirrorsDelivered
<1>. QED
  BY <1>4, <1>5, <1>6, <1>7, <1>8, <1>9, <1>10, <1>11 DEF Next, Refused, Renew, ChangePlan,
     Lapse, Moves, vars

(* A row that was earned stays earned while what was delivered or left     *)
(* behind only grows, and the turns that claim go on.                      *)
LEMMA EarnedStays ==
    ASSUME SlotsAreEarned, left \subseteq left',
           done \cup thin \subseteq done' \cup thin',
           \A t \in Turns : Holds(t) =>
              \/ Holds(t)' /\ Slot(t) \subseteq Slot(t)'
              \/ Slot(t) \cap rows' \subseteq done' \cup left',
           \A r \in rows' \ rows :
              \/ r \in done' \cup thin'
              \/ \E t \in Turns : Holds(t)' /\ r \in Slot(t)'
              \/ r[1] = 0 /\ \E w \in Windows : <<w, r[2]>> \in done' \cup thin'
    PROVE  SlotsAreEarned'
<1>. SUFFICES ASSUME NEW r \in rows, r \in rows',
                     ~(r \in done' \cup thin' \cup left')
              PROVE  \/ \E t \in Turns : Holds(t)' /\ r \in Slot(t)'
                     \/ r[1] = 0 /\ \E w \in Windows : <<w, r[2]>> \in done' \cup thin'
  BY DEF SlotsAreEarned
<1>. QED
  BY DEF SlotsAreEarned

(* The only research without a use that takes a slot is a batch's: every   *)
(* row is a research that was delivered, or under way, or one a death or a *)
(* failed release left, or a batch's row of a company skipped or failed,   *)
(* or the import of a mirror of such rows (the ways out of research in     *)
(* chat/tools.py with their releases, and _record_prospect).               *)
THEOREM Earned == Spec => []SlotsAreEarned
<1>1. Init => TurnForms /\ MirrorsDelivered /\ SlotsAreEarned
  <2>. SUFFICES ASSUME Init PROVE TurnForms /\ MirrorsDelivered /\ SlotsAreEarned
    OBVIOUS
  <2>1. TurnForms /\ SlotsAreEarned
    BY DEF Init, TurnForms, SlotsAreEarned, Idle, Holds
  <2>2. Delivered(file.keys, done \cup thin)
    BY Bounds DEF Init, Delivered
  <2>3. \A t \in Turns : Delivered(turn[t].usage.keys, done \cup thin)
    BY DEF Init, Delivered, Idle
  <2>. QED
    BY <2>1, <2>2, <2>3 DEF MirrorsDelivered
<1>2. TypeOK /\ TurnForms /\ MirrorsDelivered /\ SlotsAreEarned /\ [Next]_vars => SlotsAreEarned'
  <2>. SUFFICES ASSUME TypeOK, TurnForms, MirrorsDelivered, SlotsAreEarned, [Next]_vars
                PROVE  SlotsAreEarned'
    OBVIOUS
  <2>0. turn \in [Turns -> Turn] /\ window \in Windows
    BY DEF TypeOK
  <2>1. ASSUME NEW t \in Turns, \A s \in Turns \ {t} : turn'[s] = turn[s]
        PROVE  \A s \in Turns \ {t} : Slot(s)' = Slot(s) /\ Holds(s)' = Holds(s)
    BY <2>1 DEF Slot, Holds, Metered
  <2>2. ASSUME NEW t \in Turns, NEW n, Begin(t, n) PROVE SlotsAreEarned'
    <3>1. \A s \in Turns \ {t} : turn'[s] = turn[s]
      BY <2>0, <2>2 DEF Begin
    <3>2. ~Holds(t)
      BY <2>2 DEF Begin, TurnForms, Holds
    <3>3. \A r \in rows' \ rows : r[1] = 0 /\ r[2] \in file.keys
      BY <2>2 DEF Begin, Imported
    <3>4. \A r \in rows' \ rows : r[1] = 0 /\ \E w \in Windows : <<w, r[2]>> \in done \cup thin
      BY <3>3 DEF MirrorsDelivered, Delivered
    <3>. QED
      BY <2>1, <2>2, <3>1, <3>2, <3>4, EarnedStays DEF Begin
  <2>3. ASSUME NEW t \in Turns, Usable(t) PROVE SlotsAreEarned'
    <3>1. \A s \in Turns \ {t} : turn'[s] = turn[s]
      BY <2>0, <2>3 DEF Usable
    <3>. QED
      BY <2>1, <2>3, <3>1, EarnedStays DEF Usable, Holds
  <2>4. ASSUME NEW t \in Turns, Unusable(t) PROVE SlotsAreEarned'
    <3>1. \A s \in Turns \ {t} : turn'[s] = turn[s]
      BY <2>0, <2>4 DEF Unusable
    <3>2. Holds(t) => Slot(t) \cap rows' \subseteq left'
      <4>1. CASE Holds(t) /\ ~Elsewhere(t)
        BY <2>4, <4>1 DEF Unusable, ReleasedBy, Slot, Elsewhere, Holds
      <4>2. CASE Holds(t) /\ Elsewhere(t)
        BY <2>4, <4>2 DEF Unusable
      <4>. QED
        BY <4>1, <4>2
    <3>3. rows' \subseteq rows /\ left \subseteq left' /\ done' = done /\ thin' = thin
      BY <2>4 DEF Unusable
    <3>. QED
      BY <2>1, <3>1, <3>2, <3>3, EarnedStays
  <2>5. ASSUME NEW t \in Turns, ReleaseFails(t) PROVE SlotsAreEarned'
    <3>1. \A s \in Turns \ {t} : turn'[s] = turn[s]
      BY <2>0, <2>5 DEF ReleaseFails
    <3>. QED
      BY <2>1, <2>5, <3>1, EarnedStays DEF ReleaseFails, Holds
  <2>6. ASSUME NEW t \in Turns, RecordOne(t) PROVE SlotsAreEarned'
    <3>1. \A s \in Turns \ {t} : turn'[s] = turn[s]
      BY <2>0, <2>6 DEF RecordOne
    <3>2. ~Holds(t)
      BY <2>6 DEF RecordOne, TurnForms, Holds
    <3>3. /\ left' = left /\ done \cup thin \subseteq done' \cup thin'
          /\ \A r \in rows' \ rows : r \in done' \cup thin'
      BY <2>6 DEF RecordOne, Recorded
    <3>. QED
      BY <2>1, <3>1, <3>2, <3>3, EarnedStays
  <2>7. ASSUME NEW t \in Turns, End(t) PROVE SlotsAreEarned'
    <3>1. \A s \in Turns \ {t} : turn'[s] = turn[s]
      BY <2>0, <2>7 DEF End
    <3>2. ~Holds(t)
      BY <2>7 DEF End, TurnForms, Holds
    <3>. QED
      BY <2>1, <2>7, <3>1, <3>2, EarnedStays DEF End
  <2>8. ASSUME NEW t \in Turns, Die(t) PROVE SlotsAreEarned'
    <3>1. \A s \in Turns \ {t} : turn'[s] = turn[s]
      BY <2>0, <2>8 DEF Die
    <3>2. Holds(t) => left' = left \cup Slot(t)
      BY <2>8 DEF Die
    <3>3. rows' = rows /\ done' = done /\ thin' = thin /\ left \subseteq left'
      BY <2>8 DEF Die
    <3>. QED
      BY <2>1, <3>1, <3>2, <3>3, EarnedStays
  <2>9. ASSUME NEW t \in Turns, NEW k \in Key, Claim(t, k) PROVE SlotsAreEarned'
    <3>1. \A s \in Turns \ {t} : turn'[s] = turn[s]
      BY <2>0, <2>9 DEF Claim
    <3>2. ~Holds(t)
      BY <2>9 DEF Claim, TurnForms, Holds
    <3>3. /\ Slot(t)' = {<<window, k>>}
          /\ Holds(t)' <=> (Metered(t) /\ <<window, k>> \notin rows)
          /\ rows' = rows \cup (IF Metered(t) THEN {<<window, k>>} ELSE {})
          /\ left' = left /\ done' = done /\ thin' = thin
      BY <2>0, <2>9 DEF Claim, Recorded, Slot, Turn, Holds, Metered
    <3>4. \A r \in rows' \ rows : Holds(t)' /\ r \in Slot(t)'
      BY <3>3
    <3>. QED
      BY <2>1, <3>1, <3>2, <3>3, <3>4, EarnedStays
  <2>10. ASSUME NEW t \in Turns, NEW lot, Batch(t, lot) PROVE SlotsAreEarned'
    <3>1. \A s \in Turns \ {t} : turn'[s] = turn[s]
      BY <2>0, <2>10 DEF Batch
    <3>2. ~Holds(t)
      BY <2>10 DEF Batch, TurnForms, Holds
    <3>. QED
      BY <2>1, <2>10, <3>1, <3>2, EarnedStays DEF Batch
  <2>11. ASSUME UNCHANGED <<rows, turn, done, thin, left>> PROVE SlotsAreEarned'
    BY <2>11 DEF SlotsAreEarned, Slot, Holds, Metered
  <2>. QED
    BY <2>2, <2>3, <2>4, <2>5, <2>6, <2>7, <2>8, <2>9, <2>10, <2>11
       DEF Next, Refused, Renew, ChangePlan, Lapse, Moves, vars
<1>. QED
  BY <1>1, <1>2, FormsStep, MirrorsStep, TypeCorrect, PTL DEF Spec

=============================================================================
