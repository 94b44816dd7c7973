------------------------------ MODULE Accounts ------------------------------
(***************************************************************************)
(* Who may use the service, how much of it, and which mails they may send: *)
(* the waitlist, the demo in front of it, soft-launch access, the limits   *)
(* of an account and the guard before a send.  The demo signs its visitors *)
(* up to the waitlist; access, limits and guard share no state with each   *)
(* other or with these two.  The demo's sessions and its runs share the    *)
(* day's ledger only, so either begins with whatever the other spent.      *)
(* A behaviour exercises one of the six parts.                             *)
(***************************************************************************)
EXTENDS Demo, Limits, Access, SendGuard

VARIABLE focus

vars == <<focus, waitlistVars, demoVars, limitsVars, accessVars, guardVars>>

Init ==
    /\ focus \in {"waitlist", "sessions", "runs", "limits", "access", "mail"}
    /\ WaitlistInit /\ DemoInit /\ LimitsInit /\ AccessInit /\ GuardInit
    /\ focus # "sessions" => \A b \in Browsers : ~Holds(b)
    /\ focus \notin {"sessions", "runs"} => spent = 0

Next ==
    /\ focus' = focus
    /\ \/ /\ focus = "waitlist" /\ WaitlistNext
          /\ UNCHANGED <<demoVars, limitsVars, accessVars, guardVars>>
       \/ /\ \/ focus = "sessions" /\ SessionsNext
             \/ focus = "runs" /\ RunsNext
          /\ UNCHANGED <<limitsVars, accessVars, guardVars>>
       \/ /\ focus = "limits" /\ LimitsNext
          /\ UNCHANGED <<waitlistVars, demoVars, accessVars, guardVars>>
       \/ /\ focus = "access" /\ AccessNext
          /\ UNCHANGED <<waitlistVars, demoVars, limitsVars, guardVars>>
       \/ /\ focus = "mail" /\ GuardNext
          /\ UNCHANGED <<waitlistVars, demoVars, limitsVars, accessVars>>

Spec == Init /\ [][Next]_vars
=============================================================================
