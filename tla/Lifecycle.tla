----------------------------- MODULE Lifecycle -----------------------------
(***************************************************************************)
(* The published transition tables of plans and steps (lifecycle.cpp).     *)
(*                                                                         *)
(* Each table is kept by event: the states the event is legal in, and the  *)
(* state it leads to.  A pair that is absent is denied.  Three events do   *)
(* not lead to one state: RECOVER keeps some states, REVALIDATE_FAIL keeps *)
(* both of its states, and STEP_FAILED depends on an input; they are       *)
(* operators below.  ROLLBACK_STEP_COMPLETED and ROLLBACK_FAILED are in    *)
(* the table, and no code raises them.                                     *)
(***************************************************************************)

PlanLifecycle ==
  {"DECLARED", "VALIDATING", "READY", "EXECUTING", "PAUSED",
   "REVALIDATION_REQUIRED", "ROLLBACK_REQUIRED", "ROLLING_BACK",
   "COMPLETED", "SUPERSEDED", "REVOKED", "RETIRED"}

StepLifecycle ==
  {"PENDING", "READY", "DISPATCHED", "COMPLETED", "FAILED", "STALE",
   "SKIPPED", "ROLLBACK_PENDING", "ROLLED_BACK",
   "RECONCILIATION_REQUIRED", "RETIRED"}

TerminalLifecycle == {"COMPLETED", "SUPERSEDED", "REVOKED", "RETIRED"}

Open == PlanLifecycle \ TerminalLifecycle

\* The states each plan event is legal in.
PlanFrom ==
  [DECLARE            |-> {"DECLARED"},
   VALIDATE_OK        |-> {"VALIDATING"},
   DISPATCH           |-> {"READY", "EXECUTING"},
   STEP_FAILED        |-> {"EXECUTING"},
   STEP_AMBIGUOUS     |-> {"EXECUTING"},
   ALL_STEPS_TERMINAL |-> {"EXECUTING"},
   PAUSE              |-> {"VALIDATING", "READY", "EXECUTING"},
   INVALIDATE         |-> {"VALIDATING", "READY", "EXECUTING", "PAUSED"},
   REVALIDATE_OK      |-> {"VALIDATING", "REVALIDATION_REQUIRED", "PAUSED"},
   REQUIRE_ROLLBACK   |-> {"VALIDATING", "READY", "EXECUTING", "PAUSED",
                           "REVALIDATION_REQUIRED"},
   BEGIN_ROLLBACK     |-> {"ROLLBACK_REQUIRED"},
   ROLLBACK_COMPLETED |-> {"ROLLING_BACK"},
   SUPERSEDE          |-> Open,
   REVOKE             |-> Open \ {"ROLLING_BACK"},
   RETIRE             |-> {"DECLARED", "PAUSED", "REVALIDATION_REQUIRED",
                           "ROLLBACK_REQUIRED"}
                            \cup (TerminalLifecycle \ {"RETIRED"})]

\* The state each plan event with a single result leads to.
PlanTo ==
  [DECLARE            |-> "VALIDATING",
   VALIDATE_OK        |-> "READY",
   DISPATCH           |-> "EXECUTING",
   STEP_AMBIGUOUS     |-> "PAUSED",
   ALL_STEPS_TERMINAL |-> "COMPLETED",
   PAUSE              |-> "PAUSED",
   INVALIDATE         |-> "REVALIDATION_REQUIRED",
   REVALIDATE_OK      |-> "READY",
   REQUIRE_ROLLBACK   |-> "ROLLBACK_REQUIRED",
   BEGIN_ROLLBACK     |-> "ROLLING_BACK",
   ROLLBACK_COMPLETED |-> "SUPERSEDED",
   SUPERSEDE          |-> "SUPERSEDED",
   REVOKE             |-> "REVOKED",
   RETIRE             |-> "RETIRED"]

\* apply_plan_event as every caller but one uses it: take the transition
\* when it is legal, and leave the plan where it is otherwise.
Take(event, life) == IF life \in PlanFrom[event] THEN PlanTo[event] ELSE life

\* (Fault, for the mutation runs: the plan takes the step's state.)
StepFailedState(life, rollbackRequired) ==
  IF life \notin PlanFrom.STEP_FAILED THEN life
  ELSE IF rollbackRequired THEN "FAILED" ELSE "PAUSED"

\* STEP_FAILED: a failure that cannot be retried asks for a rollback.
AfterStepFailed(life, rollbackRequired) ==
  IF life \notin PlanFrom.STEP_FAILED THEN life
  ELSE IF rollbackRequired THEN "ROLLBACK_REQUIRED" ELSE "PAUSED"

\* RECOVER on a plan: running plans must be revalidated, the others stay.
RecoveredPlan(life) ==
  IF life = "DECLARED" THEN "VALIDATING"
  ELSE IF life \in {"READY", "EXECUTING"} THEN "REVALIDATION_REQUIRED" ELSE life

\* RECOVER on a step: work in flight is unknown, stale work is re-armed.
RecoveredStep(st) ==
  IF st = "DISPATCHED" THEN "RECONCILIATION_REQUIRED"
  ELSE IF st = "STALE" THEN "PENDING" ELSE st

\* The step states SKIP and RETIRE are legal in.
Skippable == {"PENDING", "READY", "FAILED"}
Retirable == {"COMPLETED", "SKIPPED", "ROLLED_BACK", "STALE", "FAILED"}

\* The step states that satisfy a dependent's prerequisite.
SatisfiedState == {"COMPLETED", "SKIPPED"}

\* The step states that keep a plan from completing.
BlockingState ==
  {"DISPATCHED", "RECONCILIATION_REQUIRED", "ROLLBACK_PENDING", "STALE"}
=============================================================================
