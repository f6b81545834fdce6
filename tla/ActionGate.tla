----------------------------- MODULE ActionGate -----------------------------
(***************************************************************************)
(* What the daemon's shared runtime promises about executing the actions   *)
(* of rules, without saying how: at most one file's actions run at a time, *)
(* they run for the rule set and in the mode (live or dry-run) that were   *)
(* current when they started, neither is replaced while they run, and once *)
(* the gate is shut nothing runs any more.  Runtime implements it with a   *)
(* read-write lock, a copied flag and a cancelled context.                 *)
(***************************************************************************)
CONSTANT RuleSets

VARIABLES
  rules,    \* the rule set in force
  dry,      \* TRUE when actions are only described, never executed
  acting,   \* TRUE while the actions of a rule are executing
  shut      \* TRUE once the connections that actions use are closed

gateVars == <<rules, dry, acting, shut>>

Init ==
  /\ rules \in RuleSets
  /\ dry \in BOOLEAN
  /\ acting = FALSE
  /\ shut = FALSE

\* The user switches the mode, or a new configuration is installed.
Replace(r, d) ==
  /\ ~acting
  /\ rules' = r
  /\ dry' = d
  /\ UNCHANGED <<acting, shut>>

Start ==
  /\ ~acting /\ ~dry /\ ~shut
  /\ acting' = TRUE
  /\ UNCHANGED <<rules, dry, shut>>

Finish ==
  /\ acting
  /\ acting' = FALSE
  /\ UNCHANGED <<rules, dry, shut>>

Shut ==
  /\ ~acting
  /\ shut' = TRUE
  /\ UNCHANGED <<rules, dry, acting>>

Next ==
  \/ \E r \in RuleSets, d \in BOOLEAN : Replace(r, d)
  \/ Start
  \/ Finish
  \/ Shut

Spec == Init /\ [][Next]_gateVars
=============================================================================
