-------------------------- MODULE MCPlanExecution --------------------------
(***************************************************************************)
(* Small instances of PlanExecution for TLC.                               *)
(***************************************************************************)
EXTENDS PlanExecution, TLC

CONSTANTS s1, s2, s3, b1, b2, p1, p2

\* A route that is at the source (1), at the target (2), at the target but
\* with its path or one of its groups no longer authorized, or newer (3).
MCObservations ==
  {[generation |-> 1, authorized |-> TRUE],
   [generation |-> 2, authorized |-> TRUE],
   [generation |-> 2, authorized |-> FALSE],
   [generation |-> 3, authorized |-> TRUE]}

\* One of each kind: IDEMPOTENT is handled as APPLIED, and UNSUPPORTED and
\* STALE as PERMANENT_FAILURE.
MCOutcomes ==
  {"APPLIED", "AMBIGUOUS", "RETRYABLE_FAILURE", "PERMANENT_FAILURE"}

\* Prerequisites: one step after another, or two before one.
Chain == (s1 :> {}) @@ (s2 :> {s1})
Join == (s1 :> {}) @@ (s2 :> {}) @@ (s3 :> {s1, s2})

OnePublisher == (b1 :> p1) @@ (b2 :> p1)
TwoPublishers == (b1 :> p1) @@ (b2 :> p2)
=============================================================================
