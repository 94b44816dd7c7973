------------------------------- MODULE Access -------------------------------
(***************************************************************************)
(* Soft-launch access (access/, require_approved_user): a user's first     *)
(* gated request files them as pending, and an operator, or the webhook of *)
(* a paid subscription, decides.  Reads, inserts and updates are separate  *)
(* statements; a failed one is swallowed, and a failed read sees no row.   *)
(***************************************************************************)
EXTENDS Naturals

CONSTANTS
    Members,        (* user ids                                            *)
    NoMember,
    Listed,         (* ACCESS_AUTO_APPROVE                                 *)
    Asks,           (* gated requests in progress at once                  *)
    Deciders,       (* decisions in progress at once                       *)
    MaxAsks,        (* bound: gated requests                               *)
    MaxDecisions,   (* bound: decisions                                    *)
    MaxFailures     (* bound: statements that fail                         *)

ASSUME AccessAssumption ==
    /\ Listed \subseteq Members /\ NoMember \notin Members
    /\ {MaxAsks, MaxDecisions, MaxFailures} \subseteq Nat

VARIABLES
    entry,          (* pending_users                                       *)
    ask, decide,    (* what each request and decision is doing             *)
    decided,        (* history: the last decision that was answered        *)
    dropped,        (* history: the users whose last decision wrote nothing *)
    asked, decisions, failures

accessVars == <<entry, ask, decide, decided, dropped, asked, decisions, failures>>

Entry == {"absent", "pending", "approved", "denied"}
Ask == [at: {"idle", "file"}, who: Members \cup {NoMember}]
Decide == [at: {"idle", "insert"}, who: Members \cup {NoMember}, to: Entry]
Answered403 == [at |-> "idle", who |-> NoMember]
NoDecision == [at |-> "idle", who |-> NoMember, to |-> "absent"]

AccessInit ==
    /\ entry = [u \in Members |-> "absent"]
    /\ ask = [r \in Asks |-> Answered403]
    /\ decide = [d \in Deciders |-> NoDecision]
    /\ decided = [u \in Members |-> "absent"] /\ dropped = {}
    /\ asked = 0 /\ decisions = 0 /\ failures = 0

Failure == failures < MaxFailures /\ failures' = failures + 1
NoFailure == failures' = failures

-----------------------------------------------------------------------------

(* check_access: a row answers for itself, and one that cannot be read is  *)
(* taken for a user never seen.                                            *)
CheckAccess(r, u) ==
    /\ ask[r].at = "idle" /\ asked < MaxAsks
    /\ asked' = asked + 1
    /\ \/ entry[u] # "absent" /\ NoFailure /\ ask' = ask
       \/ /\ IF entry[u] = "absent" THEN NoFailure ELSE Failure
          /\ ask' = [ask EXCEPT ![r] = [at |-> "file", who |-> u]]
    /\ UNCHANGED <<entry, decide, decided, dropped, decisions>>

(* Mutant of Filed: the insert replaces the row that came in between.      *)
FiledOver(rows, u, status) == [rows EXCEPT ![u] = status]

(* create_pending looks again, and the primary key refuses a second row.   *)
Filed(rows, u, status) == IF rows[u] = "absent" THEN [rows EXCEPT ![u] = status] ELSE rows

FirstSight(r) ==
    LET u == ask[r].who IN
    /\ ask[r].at = "file"
    /\ ask' = [ask EXCEPT ![r] = Answered403]
    /\ \/ entry' = Filed(entry, u, IF u \in Listed THEN "approved" ELSE "pending") /\ NoFailure
       \/ Failure /\ entry' = entry
    /\ UNCHANGED <<decide, decided, dropped, asked, decisions>>

(* A decision is answered alike whether it was written or not.             *)
Took(u, to) ==
    /\ entry' = [entry EXCEPT ![u] = to]
    /\ decided' = [decided EXCEPT ![u] = to] /\ dropped' = dropped \ {u}
Drops(u, to) ==
    /\ entry' = entry
    /\ decided' = [decided EXCEPT ![u] = to] /\ dropped' = dropped \cup {u}

(* set_status: an UPDATE ...                                               *)
SetStatus(d, u, to) ==
    /\ decide[d].at = "idle" /\ decisions < MaxDecisions
    /\ decisions' = decisions + 1
    /\ \/ /\ entry[u] # "absent" /\ NoFailure
          /\ Took(u, to) /\ decide' = decide
       \/ /\ entry[u] = "absent" /\ NoFailure
          /\ decide' = [decide EXCEPT ![d] = [at |-> "insert", who |-> u, to |-> to]]
          /\ UNCHANGED <<entry, decided, dropped>>
       \/ Failure /\ Drops(u, to) /\ decide' = decide
    /\ UNCHANGED <<ask, asked>>

(* ... and an INSERT if it met no row: if the row came in between it fails *)
(* and the decision is dropped without a word.                             *)
SetStatusInserts(d) ==
    LET u == decide[d].who IN
    /\ decide[d].at = "insert"
    /\ decide' = [decide EXCEPT ![d] = NoDecision]
    /\ \/ entry[u] = "absent" /\ NoFailure /\ Took(u, decide[d].to)
       \/ /\ IF entry[u] = "absent" THEN Failure ELSE NoFailure
          /\ Drops(u, decide[d].to)
    /\ UNCHANGED <<ask, asked, decisions>>

AccessNext ==
    \/ \E r \in Asks, u \in Members : CheckAccess(r, u)
    \/ \E r \in Asks : FirstSight(r)
    \/ \E d \in Deciders, u \in Members, to \in {"approved", "denied"} : SetStatus(d, u, to)
    \/ \E d \in Deciders : SetStatusInserts(d)

-----------------------------------------------------------------------------

AccessTypeOK ==
    /\ entry \in [Members -> Entry]
    /\ ask \in [Asks -> Ask]
    /\ decide \in [Deciders -> Decide]
    /\ decided \in [Members -> Entry] /\ dropped \subseteq Members \cup {NoMember}
    /\ {asked, decisions, failures} \subseteq Nat

(* What an operator or a payment decided last is what the table says: a    *)
(* request that saw no row before does not file the user as pending over   *)
(* it (check_access, create_pending).  The one exception is a decision     *)
(* that wrote nothing, because a statement failed or because the user's    *)
(* first row came in between its two statements (set_status).              *)
DecisionStands ==
    \A u \in Members :
       /\ decided[u] # "absent" => entry[u] = decided[u] \/ u \in dropped
       /\ u \in dropped => entry[u] # "absent" \/ failures > 0

(* What it does not say: that no decision is dropped.  server/api.py has   *)
(* access granted the moment a subscription goes active.                   *)
DecisionTakes == failures = 0 => dropped = {}
=============================================================================
