--------------------------- MODULE PlanExecution ---------------------------
(***************************************************************************)
(* The execution of one convergence plan by the governor: dispatch of its  *)
(* steps to workers, completion evidence, ambiguity and reconciliation,    *)
(* and everything that invalidates work in flight - fencing, epochs,       *)
(* upstream changes, pause, supersession, revocation, rollback, retirement *)
(* and a coordinator restart (governor_mutate.cpp, governor_control.cpp,   *)
(* governor_core.cpp, and decode_state of governor_codec.cpp).             *)
(*                                                                         *)
(* Each mutation of the governor runs under its exclusive lock, so it is   *)
(* one action.  What the model leaves out:                                 *)
(*                                                                         *)
(*  - A mutation consumes a newer epoch before it does anything else; here *)
(*    AdvanceEpoch takes that step, and the rest of the mutation follows.  *)
(*  - A rejected mutation (bad authority, replay, conflict, missing plan   *)
(*    or step) leaves this state alone: it is a stuttering step.  Attempt  *)
(*    memory only turns mutations into such rejections.                    *)
(*  - The route, path and group observations are one pair: the observed    *)
(*    generation, and whether all the rest of it is authorized.  Checks of *)
(*    a rollback's source path may fail at any time (a stuttering step).   *)
(*  - The plan's currentness causes are recomputed before each use and     *)
(*    only their verdict, PlanCurrent, decides anything.                   *)
(*  - Other plans of the route appear as the actions they take on this     *)
(*    one: Superseded and RollbackPlanCompleted.                           *)
(*                                                                         *)
(* MaxEpoch, MaxGeneration and MaxConvergence bound the 64-bit counters.   *)
(***************************************************************************)
EXTENDS Integers, Lifecycle

CONSTANTS
  Steps,             \* the steps of the plan
  DependsOn,         \* the prerequisites of each step
  Mandatory,         \* the steps that must be satisfied to complete
  Idempotent,        \* the steps a retry may re-arm
  Outcomes,          \* what a backend may report
  RetryBound,        \* min of the policy's and the configured retry bounds
  IsRollback,        \* whether the plan compensates another
  SourceGeneration,  \* the route generation the plan starts from
  TargetGeneration,  \* the route generation it converges to
  Observations,      \* what the upstream route may look like
  Boots,             \* worker boots (processes)
  Publishers,        \* worker identities
  PublisherOf,       \* the publisher each boot registers as
  NoBoot,            \* no worker boot
  MaxEpoch, MaxGeneration, MaxConvergence

BackendOutcome ==
  {"APPLIED", "IDEMPOTENT", "RETRYABLE_FAILURE", "PERMANENT_FAILURE",
   "AMBIGUOUS", "UNSUPPORTED", "STALE"}

\* validate_graph: prerequisites are steps of the plan, and there is no cycle.
ASSUME GraphAssumption ==
  /\ DependsOn \in [Steps -> SUBSET Steps]
  /\ \A S \in SUBSET Steps : S # {} => \E s \in S : DependsOn[s] \cap S = {}
  /\ Mandatory \subseteq Steps
  /\ Idempotent \subseteq Steps

ASSUME WorkerAssumption ==
  /\ PublisherOf \in [Boots -> Publishers]
  /\ NoBoot \notin Boots

ASSUME ValueAssumption ==
  /\ Outcomes \subseteq BackendOutcome
  /\ RetryBound \in Nat
  /\ IsRollback \in BOOLEAN
  /\ SourceGeneration \in Nat
  /\ TargetGeneration \in Nat
  /\ Observations \subseteq [generation : Nat, authorized : BOOLEAN]
  /\ MaxEpoch \in Nat /\ MaxGeneration \in Nat /\ MaxConvergence \in Nat

VARIABLES
  epoch,              \* the coordinator epoch the governor has consumed
  convergence,        \* the governor-wide convergence generation
  registered,         \* the boot each publisher registered last
  live,               \* the publishers whose registration is live
  fencedBoots,        \* the boots fenced permanently
  observed,           \* the upstream route as an observation would find it
  policyCurrent,      \* the plan's policy is the registered generation of it
  lifecycle,          \* the plan's lifecycle, or "ABSENT" before it exists
  boundEpoch,         \* the epoch the plan is bound to
  watermark,          \* its invalidation watermark
  state,              \* the state of each step
  generation,         \* the generation of each step; 1 + its dispatches
  evidence,           \* the generation whose evidence was accepted last, or 0
  dispatchBoot,       \* the boot each step was dispatched to last
  dispatchWatermark,  \* the watermark each step was dispatched under
  dispatches          \* the dispatch replies handed to workers so far

authorityVars == <<epoch, convergence, registered, live, fencedBoots>>
upstreamVars == <<observed, policyCurrent>>
planVars == <<lifecycle, boundEpoch, watermark>>
recordVars == <<generation, evidence, dispatchBoot, dispatchWatermark,
                dispatches>>
vars == <<authorityVars, upstreamVars, planVars, state, recordVars>>

----------------------------------------------------------------------------
\* State predicates

\* worker_live_locked, and the part of authorize that can end a boot's say.
WorkerLive(b) ==
  /\ b \notin fencedBoots
  /\ registered[PublisherOf[b]] = b
  /\ PublisherOf[b] \in live

\* Somebody holds the authority to ask for a mutation.
Authorized == \E b \in Boots : WorkerLive(b)

\* The route is at the generation this kind of plan needs it at: a forward
\* plan its target, a rollback the state it compensates.
TargetCurrent ==
  /\ observed.generation = IF IsRollback THEN SourceGeneration
                                         ELSE TargetGeneration
  /\ observed.authorized

\* recompute_currentness, for a plan bound to the epoch "bound".
CurrentUnder(bound) ==
  /\ TargetCurrent
  /\ bound = epoch
  /\ policyCurrent
  /\ lifecycle # "SUPERSEDED"

PlanCurrent == CurrentUnder(boundEpoch)

Satisfied(st, S) == \A s \in S : st[s] \in SatisfiedState

\* The bound on the convergence generation, a guard of all that advances it.
Room == convergence < MaxConvergence

----------------------------------------------------------------------------
\* The effects that several mutations share

\* (Faults, for the mutation runs: readiness that is not refreshed, and that
\* takes a prerequisite that has started for one that is satisfied.)
RefreshNothing(st) == st
RefreshStarted(st) ==
  [s \in Steps |-> IF /\ st[s] = "PENDING"
                      /\ \A d \in DependsOn[s] : st[d] \notin {"PENDING", "READY"}
                   THEN "READY" ELSE st[s]]

\* Pending steps whose prerequisites are all satisfied become ready.  No step
\* becomes satisfied on the way, so one pass is the fixed point of the loop.
RefreshReady(st) ==
  [s \in Steps |-> IF st[s] = "PENDING" /\ Satisfied(st, DependsOn[s])
                   THEN "READY" ELSE st[s]]

\* (Faults: no step goes stale, and a step in doubt does as well.)
StaleNothing(st) == st
StaleDoubtful(st) ==
  [s \in Steps |-> IF st[s] \in {"DISPATCHED", "RECONCILIATION_REQUIRED"}
                   THEN "STALE" ELSE st[s]]

\* stale_in_flight_steps.
StaleInFlight(st) ==
  [s \in Steps |-> IF st[s] = "DISPATCHED" THEN "STALE" ELSE st[s]]

\* (Fault: the plan's watermark is forgotten.)
AdvanceConvergenceOnly(conv) == convergence' = conv + 1 /\ UNCHANGED watermark

\* The convergence generation advances past conv, and the plan's watermark
\* with it.
AdvanceWatermark(conv) ==
  /\ convergence' = conv + 1
  /\ watermark' = conv + 1

\* invalidate_plan, on step states st, when the governor is at conv.
Invalidate(st, conv) ==
  /\ lifecycle' = Take("INVALIDATE", lifecycle)
  /\ AdvanceWatermark(conv)
  /\ state' = StaleInFlight(st)

\* (Fault: the lifecycle is not asked.)
SupersedeAnyway ==
  /\ lifecycle' = "SUPERSEDED"
  /\ AdvanceWatermark(convergence)
  /\ state' = StaleInFlight(state)

\* supersede_entry.
Supersede ==
  /\ lifecycle \in PlanFrom.SUPERSEDE
  /\ lifecycle' = "SUPERSEDED"
  /\ AdvanceWatermark(convergence)
  /\ state' = StaleInFlight(state)

\* (Fault: the index only finds what was dispatched under this watermark.)
IndexedInFlightOf(b) ==
  {s \in Steps : /\ state[s] = "DISPATCHED" /\ dispatchBoot[s] = b
                 /\ dispatchWatermark[s] = watermark}

\* stale_in_flight_steps_of_boot: the steps boot b holds go stale, and losing
\* one invalidates the plan unless it is terminal.
InFlightOf(b) ==
  {s \in Steps : state[s] = "DISPATCHED" /\ dispatchBoot[s] = b}

StaleStepsOfBoot(b, conv) ==
  LET lost == [s \in Steps |-> IF s \in InFlightOf(b) THEN "STALE" ELSE state[s]]
  IN IF InFlightOf(b) = {} \/ lifecycle \in TerminalLifecycle
     THEN /\ state' = lost
          /\ convergence' = conv
          /\ UNCHANGED <<lifecycle, watermark>>
     ELSE Invalidate(lost, conv)

----------------------------------------------------------------------------
\* The worker registry

\* register_worker, a publisher seen for the first time.
RegisterWorker(b) ==
  /\ b \notin fencedBoots
  /\ registered[PublisherOf[b]] = NoBoot
  /\ registered' = [registered EXCEPT ![PublisherOf[b]] = b]
  /\ live' = live \cup {PublisherOf[b]}
  /\ UNCHANGED <<epoch, convergence, fencedBoots, upstreamVars, planVars,
                 state, recordVars>>

\* register_worker, the same boot again: it revives a session-loss fence.
ReviveWorker(b) ==
  /\ b \notin fencedBoots
  /\ registered[PublisherOf[b]] = b
  /\ live' = live \cup {PublisherOf[b]}
  /\ UNCHANGED <<epoch, convergence, registered, fencedBoots, upstreamVars,
                 planVars, state, recordVars>>

\* register_worker, a reincarnation: the previous boot is fenced first.
ReincarnateWorker(b) ==
  LET previous == registered[PublisherOf[b]]
  IN /\ b \notin fencedBoots
     /\ previous \notin {b, NoBoot}
     /\ Room
     /\ fencedBoots' = fencedBoots \cup {previous}
     /\ registered' = [registered EXCEPT ![PublisherOf[b]] = b]
     /\ live' = live \cup {PublisherOf[b]}
     /\ StaleStepsOfBoot(previous, convergence + 1)
     /\ UNCHANGED <<epoch, upstreamVars, boundEpoch, recordVars>>

\* fence_session_loss.
LoseSession(b) ==
  /\ WorkerLive(b)
  /\ Room
  /\ live' = live \ {PublisherOf[b]}
  /\ StaleStepsOfBoot(b, convergence)
  /\ UNCHANGED <<epoch, registered, fencedBoots, upstreamVars, boundEpoch,
                 recordVars>>

\* fence_worker.
FenceWorker(b) ==
  /\ Authorized
  /\ Room
  /\ fencedBoots' = fencedBoots \cup {b}
  /\ live' = live \ {p \in Publishers : registered[p] = b}
  /\ StaleStepsOfBoot(b, convergence + 1)
  /\ UNCHANGED <<epoch, registered, upstreamVars, boundEpoch, recordVars>>

----------------------------------------------------------------------------
\* Epochs, the upstream and policies

\* (Fault: the plans are not told.)
AdvanceEpochOnly ==
  /\ epoch < MaxEpoch
  /\ Room
  /\ epoch' = epoch + 1
  /\ convergence' = convergence + 1
  /\ UNCHANGED <<registered, live, fencedBoots, upstreamVars, planVars, state,
                 recordVars>>

\* apply_epoch: by note_epoch_change, sync_epoch, the first mutation to see a
\* newer epoch, or a restart with a newer configured epoch.
AdvanceEpoch ==
  /\ epoch < MaxEpoch
  /\ Room
  /\ epoch' = epoch + 1
  /\ IF lifecycle \in Open
     THEN Invalidate(state, convergence)
     ELSE /\ convergence' = convergence + 1
          /\ UNCHANGED <<lifecycle, watermark, state>>
  /\ UNCHANGED <<registered, live, fencedBoots, upstreamVars, boundEpoch,
                 recordVars>>

\* The upstream owners publish something else.
ChangeUpstream ==
  /\ \E o \in Observations \ {observed} : observed' = o
  /\ UNCHANGED <<authorityVars, policyCurrent, planVars, state, recordVars>>

\* define_policy: a next generation of the plan's policy is registered.
DefinePolicy ==
  /\ Authorized
  /\ policyCurrent
  /\ policyCurrent' = FALSE
  /\ UNCHANGED <<authorityVars, observed, planVars, state, recordVars>>

\* note_route_change.
NoteRouteChange ==
  /\ Authorized
  /\ Room
  /\ lifecycle \in Open
  /\ \/ /\ observed.generation > TargetGeneration
        /\ Supersede
     \/ /\ observed.generation = TargetGeneration
        /\ ~PlanCurrent
        /\ Invalidate(state, convergence)
  /\ UNCHANGED <<epoch, registered, live, fencedBoots, upstreamVars,
                 boundEpoch, recordVars>>

\* note_path_change, and a dispatch of a plan that is no longer current.
RefuseStalePlan ==
  /\ Authorized
  /\ Room
  /\ lifecycle \in Open
  /\ ~PlanCurrent
  /\ Invalidate(state, convergence)
  /\ UNCHANGED <<epoch, registered, live, fencedBoots, upstreamVars,
                 boundEpoch, recordVars>>

----------------------------------------------------------------------------
\* Creation, and the execution of steps

\* create_plan, or for a rollback the tail of begin_rollback, which does not
\* consult the policy registry.
CreatePlan ==
  /\ Authorized
  /\ lifecycle = "ABSENT"
  /\ TargetCurrent
  /\ policyCurrent \/ IsRollback
  /\ lifecycle' = "READY"
  /\ boundEpoch' = epoch
  /\ watermark' = convergence
  /\ state' = RefreshReady(state)
  /\ UNCHANGED <<authorityVars, upstreamVars, recordVars>>

\* Every dispatch is of a new step generation.
NextGeneration(s) == generation[s] + 1

\* dispatch_step to boot b; the reply is what evidence is made from.
DispatchStep(b, s) ==
  /\ WorkerLive(b)
  /\ lifecycle \in PlanFrom.DISPATCH
  /\ PlanCurrent
  /\ state[s] = "READY"
  /\ generation[s] < MaxGeneration
  /\ lifecycle' = "EXECUTING"
  /\ state' = [state EXCEPT ![s] = "DISPATCHED"]
  /\ generation' = [generation EXCEPT ![s] = NextGeneration(s)]
  /\ dispatchBoot' = [dispatchBoot EXCEPT ![s] = b]
  /\ dispatchWatermark' = [dispatchWatermark EXCEPT ![s] = watermark]
  /\ dispatches' = dispatches \cup
       {[step |-> s, generation |-> NextGeneration(s), boot |-> b,
         epoch |-> epoch, watermark |-> watermark]}
  /\ UNCHANGED <<authorityVars, upstreamVars, boundEpoch, watermark, evidence>>

\* (Fault: the evidence's generation is not compared.)
EvidenceOfAnyGeneration(e) ==
  LET s == e.step
  IN /\ state[s] = "DISPATCHED"
     /\ e.epoch = epoch
     /\ e.boot = dispatchBoot[s] /\ WorkerLive(e.boot)
     /\ e.watermark = dispatchWatermark[s] /\ dispatchWatermark[s] = watermark

\* The refusals of apply_completion that leave the plan alone, negated.
EvidenceHolds(e) ==
  LET s == e.step
  IN /\ state[s] = "DISPATCHED"
     /\ e.generation = generation[s]
     /\ e.epoch = epoch
     /\ e.boot = dispatchBoot[s]
     /\ WorkerLive(e.boot)
     /\ e.watermark = dispatchWatermark[s]
     /\ dispatchWatermark[s] = watermark

\* (Fault: the mandatory steps are not asked.)
NothingBlocks(st) == \A s \in Steps : st[s] \notin BlockingState

\* mandatory_steps_complete and not plan_has_blocking_step.
Finished(st) ==
  /\ Satisfied(st, Mandatory)
  /\ \A s \in Steps : st[s] \notin BlockingState

SkipRest(st) ==
  [s \in Steps |-> IF st[s] \in Skippable THEN "SKIPPED" ELSE st[s]]

\* The step's effect is established.  The last mandatory one of an executing
\* plan completes the plan, and closing the lineage (complete_lineage) may
\* advance the convergence generation once for the predecessor.
CommitApplied(s) ==
  LET committed == RefreshReady([state EXCEPT ![s] = "COMPLETED"])
  IN IF lifecycle = "EXECUTING" /\ Finished(committed)
     THEN /\ lifecycle' = "COMPLETED"
          /\ state' = SkipRest(committed)
          /\ \/ UNCHANGED convergence
             \/ Room /\ convergence' = convergence + 1
     ELSE /\ state' = committed
          /\ UNCHANGED <<lifecycle, convergence>>

\* Nobody knows: the plan waits for a reconciliation.
CommitAmbiguous(s) ==
  /\ state' = [state EXCEPT ![s] = "RECONCILIATION_REQUIRED"]
  /\ lifecycle' = Take("STEP_AMBIGUOUS", lifecycle)
  /\ UNCHANGED convergence

\* A failure re-arms the step when it may be retried, and otherwise pauses
\* the plan or asks for its rollback.  A step has one attempt per dispatch.
CommitFailure(s, outcome) ==
  LET retryable == outcome = "RETRYABLE_FAILURE"
      attempts == generation[s] - 1
      rearmed == retryable /\ s \in Idempotent /\ attempts <= RetryBound
  IN /\ state' = [state EXCEPT ![s] = IF rearmed THEN "READY" ELSE "FAILED"]
     /\ lifecycle' = IF rearmed THEN lifecycle
                     ELSE AfterStepFailed(lifecycle, ~retryable)
     /\ UNCHANGED convergence

Commit(s, outcome) ==
  \/ outcome \in {"APPLIED", "IDEMPOTENT"} /\ CommitApplied(s)
  \/ outcome = "AMBIGUOUS" /\ CommitAmbiguous(s)
  \/ outcome \notin {"APPLIED", "IDEMPOTENT", "AMBIGUOUS"}
       /\ CommitFailure(s, outcome)

\* apply_completion: evidence that holds is committed, unless the plan is no
\* longer current, which invalidates the plan.
ApplyCompletion(e, outcome) ==
  /\ Authorized
  /\ EvidenceHolds(e)
  /\ \/ /\ PlanCurrent
        /\ Commit(e.step, outcome)
        /\ evidence' = [evidence EXCEPT ![e.step] = e.generation]
        /\ UNCHANGED watermark
     \/ /\ ~PlanCurrent
        /\ Room
        /\ Invalidate(state, convergence)
        /\ UNCHANGED evidence
  /\ UNCHANGED <<epoch, registered, live, fencedBoots, upstreamVars, boundEpoch,
                 generation, dispatchBoot, dispatchWatermark, dispatches>>

\* complete_step: a worker's evidence for a dispatch, which may be old.
CompleteStep(e, outcome) == ApplyCompletion(e, outcome)

\* fail_step: boot b reports on whatever dispatch of s is the current one.
FailStep(b, s, outcome) ==
  /\ WorkerLive(b)
  /\ ApplyCompletion([step |-> s, generation |-> generation[s], boot |-> b,
                      epoch |-> epoch, watermark |-> dispatchWatermark[s]],
                     outcome)

\* reconcile_step; it consults neither the plan's lifecycle nor the upstream.
ReconcileStep(s, applied) ==
  /\ Authorized
  /\ state[s] = "RECONCILIATION_REQUIRED"
  /\ state' = RefreshReady([state EXCEPT ![s] = IF applied THEN "COMPLETED"
                                                           ELSE "READY"])
  /\ UNCHANGED <<authorityVars, upstreamVars, planVars, recordVars>>

----------------------------------------------------------------------------
\* Control of the plan

\* (Fault: what completed is re-armed with what went stale.)
RearmAll(st) ==
  [s \in Steps |-> IF st[s] \in {"STALE", "COMPLETED"} THEN "PENDING" ELSE st[s]]

\* (Fault: what went stale stays so.)
RearmNothing(st) == st

\* Revalidation re-arms the steps that went stale.
Rearm(st) == [s \in Steps |-> IF st[s] = "STALE" THEN "PENDING" ELSE st[s]]

\* revalidate_plan, when everything it checks is current again.  In a
\* lifecycle that cannot become READY only the epoch binding moves.
RevalidateOk ==
  /\ Authorized
  /\ lifecycle \notin {"ABSENT", "RETIRED"}
  /\ CurrentUnder(epoch)
  /\ boundEpoch' = epoch
  /\ lifecycle' = Take("REVALIDATE_OK", lifecycle)
  /\ state' = IF lifecycle \in PlanFrom.REVALIDATE_OK
              THEN RefreshReady(Rearm(state)) ELSE state
  /\ UNCHANGED <<authorityVars, upstreamVars, watermark, recordVars>>

\* revalidate_plan, when something is not: a newer generation supersedes the
\* plan, anything else advances its watermark and keeps it where it is.
RevalidateFail ==
  /\ Authorized
  /\ Room
  /\ lifecycle \notin {"ABSENT", "RETIRED"}
  /\ ~CurrentUnder(epoch)
  /\ IF observed.generation > TargetGeneration
     THEN Supersede
     ELSE AdvanceWatermark(convergence) /\ UNCHANGED <<lifecycle, state>>
  /\ UNCHANGED <<epoch, registered, live, fencedBoots, upstreamVars,
                 boundEpoch, recordVars>>

\* pause_plan.
PausePlan ==
  /\ Authorized
  /\ lifecycle \in PlanFrom.PAUSE
  /\ lifecycle' = "PAUSED"
  /\ UNCHANGED <<authorityVars, upstreamVars, boundEpoch, watermark, state,
                 recordVars>>

\* revoke_plan.
RevokePlan ==
  /\ Authorized
  /\ Room
  /\ lifecycle \in PlanFrom.REVOKE
  /\ lifecycle' = "REVOKED"
  /\ AdvanceWatermark(convergence)
  /\ state' = StaleInFlight(state)
  /\ UNCHANGED <<epoch, registered, live, fencedBoots, upstreamVars,
                 boundEpoch, recordVars>>

\* retire_plan: only the steps RETIRE is legal for are retired.
RetirePlan ==
  /\ Authorized
  /\ Room
  /\ lifecycle \in PlanFrom.RETIRE
  /\ lifecycle' = "RETIRED"
  /\ AdvanceWatermark(convergence)
  /\ state' = [s \in Steps |-> IF state[s] \in Retirable THEN "RETIRED"
                                                         ELSE state[s]]
  /\ UNCHANGED <<epoch, registered, live, fencedBoots, upstreamVars,
                 boundEpoch, recordVars>>

\* begin_rollback, once its checks have passed: work in flight is fenced, and
\* the plan waits for its compensating plan, unless the route never left the
\* source and there is nothing to compensate.
BeginRollback ==
  /\ Authorized
  /\ Room
  /\ lifecycle \in PlanFrom.REQUIRE_ROLLBACK \cup PlanFrom.BEGIN_ROLLBACK
  /\ observed.generation <= TargetGeneration
  /\ lifecycle' = IF observed.generation = SourceGeneration
                  THEN PlanTo.ROLLBACK_COMPLETED
                  ELSE PlanTo.BEGIN_ROLLBACK
  /\ AdvanceWatermark(convergence)
  /\ state' = StaleInFlight(state)
  /\ UNCHANGED <<epoch, registered, live, fencedBoots, upstreamVars,
                 boundEpoch, recordVars>>

\* complete_lineage of the compensating plan, when that plan completes.
RollbackPlanCompleted ==
  /\ Authorized
  /\ Room
  /\ lifecycle \in PlanFrom.ROLLBACK_COMPLETED
  /\ lifecycle' = "SUPERSEDED"
  /\ AdvanceWatermark(convergence)
  /\ UNCHANGED <<epoch, registered, live, fencedBoots, upstreamVars,
                 boundEpoch, state, recordVars>>

\* supersede_entry on this plan, by a create_plan of the same key or by a
\* successor that completes.
Superseded ==
  /\ Authorized
  /\ Room
  /\ Supersede
  /\ UNCHANGED <<epoch, registered, live, fencedBoots, upstreamVars,
                 boundEpoch, recordVars>>

----------------------------------------------------------------------------
\* decode_state: the coordinator restarts on its last saved image.  Replies
\* leave after the image is saved, so a mutation that was not saved is one
\* nobody heard of; the image is the state of the last one that was.  An image
\* with a completed step that has no evidence is rejected.  Workers, fences and
\* attempts are not restored.
Restart ==
  /\ Room
  /\ \A s \in Steps : state[s] = "COMPLETED" => evidence[s] # 0
  /\ convergence' = convergence + 1
  /\ registered' = [p \in Publishers |-> NoBoot]
  /\ live' = {}
  /\ fencedBoots' = {}
  /\ IF lifecycle = "ABSENT"
     THEN UNCHANGED <<lifecycle, watermark, state>>
     ELSE /\ lifecycle' = RecoveredPlan(lifecycle)
          /\ watermark' = convergence + 1
          /\ state' = RefreshReady([s \in Steps |-> RecoveredStep(state[s])])
  /\ UNCHANGED <<epoch, upstreamVars, boundEpoch, recordVars>>

----------------------------------------------------------------------------
Init ==
  /\ epoch = 1
  /\ convergence = 1
  /\ registered = [p \in Publishers |-> NoBoot]
  /\ live = {}
  /\ fencedBoots = {}
  /\ observed \in Observations
  /\ policyCurrent = TRUE
  /\ lifecycle = "ABSENT"
  /\ boundEpoch = 0
  /\ watermark = 0
  /\ state = [s \in Steps |-> "PENDING"]
  /\ generation = [s \in Steps |-> 1]
  /\ evidence = [s \in Steps |-> 0]
  /\ dispatchBoot = [s \in Steps |-> NoBoot]
  /\ dispatchWatermark = [s \in Steps |-> 0]
  /\ dispatches = {}

RegistryStep ==
  \E b \in Boots : \/ RegisterWorker(b)
                   \/ ReviveWorker(b)
                   \/ ReincarnateWorker(b)
                   \/ LoseSession(b)
                   \/ FenceWorker(b)

UpstreamStep ==
  AdvanceEpoch \/ ChangeUpstream \/ DefinePolicy \/ NoteRouteChange
    \/ RefuseStalePlan

ExecutionStep ==
  \/ CreatePlan
  \/ \E b \in Boots, s \in Steps : DispatchStep(b, s)
  \/ \E e \in dispatches, outcome \in Outcomes : CompleteStep(e, outcome)
  \/ \E b \in Boots, s \in Steps, outcome \in Outcomes : FailStep(b, s, outcome)
  \/ \E s \in Steps, applied \in BOOLEAN : ReconcileStep(s, applied)

ControlStep ==
  RevalidateOk \/ RevalidateFail \/ PausePlan \/ RevokePlan \/ RetirePlan
    \/ BeginRollback \/ RollbackPlanCompleted \/ Superseded

Next == RegistryStep \/ UpstreamStep \/ ExecutionStep \/ ControlStep \/ Restart

Spec == Init /\ [][Next]_vars

----------------------------------------------------------------------------
\* Invariants

\* Every variable holds a value of its kind, and a counter never passes what
\* it counts towards.
TypeOK ==
  /\ epoch \in Nat \ {0}
  /\ convergence \in Nat \ {0}
  /\ registered \in [Publishers -> Boots \cup {NoBoot}]
  /\ live \subseteq Publishers
  /\ fencedBoots \subseteq Boots
  /\ observed \in Observations
  /\ policyCurrent \in BOOLEAN
  /\ lifecycle \in PlanLifecycle \cup {"ABSENT"}
  /\ boundEpoch \in Nat
  /\ watermark \in Nat
  /\ state \in [Steps -> StepLifecycle]
  /\ generation \in [Steps -> Nat \ {0}]
  /\ evidence \in [Steps -> Nat]
  /\ dispatchBoot \in [Steps -> Boots \cup {NoBoot}]
  /\ dispatchWatermark \in [Steps -> Nat]
  /\ dispatches \subseteq
       [step : Steps, generation : Nat, boot : Boots, epoch : Nat,
        watermark : Nat]

\* A step that was ever ready, and has not been retired, has all of its
\* prerequisites satisfied: whatever is invalidated, re-armed or recovered in
\* between, a step is never worked on ahead of them (test_property.cpp, 1).
PrerequisitesSatisfied ==
  \A s \in Steps :
    state[s] \notin {"PENDING", "SKIPPED", "RETIRED"} /\ lifecycle # "RETIRED"
      => Satisfied(state, DependsOn[s])

\* No mutation leaves behind a pending step that nothing holds back: the code
\* refreshes readiness after every change that can release a step, and no
\* later call would.
NoForgottenStep ==
  \A s \in Steps :
    lifecycle # "ABSENT" /\ state[s] = "PENDING"
      => ~Satisfied(state, DependsOn[s])

\* Work in flight belongs to a boot that is registered, live and not fenced:
\* every way to lose a boot finds all the steps it holds, through the index of
\* steps by boot (stale_in_flight_steps_of_boot).
InFlightHeldByLiveWorker ==
  \A s \in Steps :
    state[s] = "DISPATCHED"
      => dispatchBoot[s] \in Boots /\ WorkerLive(dispatchBoot[s])

\* A plan that waits for revalidation, rolls back or is over has no work in
\* flight, except that retirement does not fence (test_property.cpp, 478).
SuspendedPlanHoldsNoWork ==
  lifecycle \in {"REVALIDATION_REQUIRED", "ROLLING_BACK", "COMPLETED",
                 "SUPERSEDED", "REVOKED"}
    => \A s \in Steps : state[s] # "DISPATCHED"

\* A completed plan has established every mandatory step, skipped the rest of
\* what it did not, and has nothing in flight or in doubt (test_property.cpp, 2).
CompletedPlanIsComplete ==
  lifecycle = "COMPLETED" =>
    /\ \A s \in Mandatory : state[s] = "COMPLETED"
    /\ \A s \in Steps : state[s] \in SatisfiedState

\* A plan that may run, or that a resume would let run, is bound to the epoch
\* the governor is in: an advance finds every one of them (apply_epoch).
RunnableBoundToEpoch ==
  lifecycle \in {"READY", "EXECUTING", "PAUSED"} => boundEpoch = epoch

\* Evidence that could still be committed was issued in the current epoch and
\* under no newer watermark than the plan's: the watermark alone, without the
\* epoch in the evidence, already refuses what an older epoch dispatched.
CommittableIsCurrent ==
  \A e \in dispatches :
    (/\ state[e.step] = "DISPATCHED"
     /\ e.generation = generation[e.step]
     /\ e.watermark = watermark)
      => e.epoch = epoch /\ boundEpoch = epoch

\* The steps of a running plan never wait for nothing but one another: what is
\* left of it and does not wait for a step that was given up has, among it, a
\* step with all of its prerequisites that can be dispatched, that can be
\* reconciled, or that is in flight, which its report or the loss of its boot
\* ends.  revalidate_plan lets a plan run again only with its stale steps
\* re-armed, and validate_graph has refused the cycles.  A step whose retries
\* are used up, or that must not be retried, stays FAILED, and what waits for it
\* waits until the plan is rolled back, revoked, superseded or retired
\* (GivenUpIsFinal).
PlanCanMove ==
  lifecycle \in {"READY", "EXECUTING"} =>
    \A S \in SUBSET {s \in Steps : state[s] \notin SatisfiedState \cup {"FAILED"}} :
      S # {} /\ (\A s \in S : Satisfied(state, DependsOn[s] \ S)) =>
        \E s \in S :
          /\ Satisfied(state, DependsOn[s])
          /\ state[s] \in {"READY", "DISPATCHED", "RECONCILIATION_REQUIRED"}

\* What the invariants above need to be inductive.
\* Step states follow the plan's: before it exists nothing has moved, only
\* completion skips, only retirement retires, and no step is rolled back.
StepsFollowLifecycle ==
  /\ lifecycle \notin {"DECLARED", "VALIDATING"}
  /\ \A s \in Steps :
       /\ lifecycle = "ABSENT" => state[s] = "PENDING"
       /\ state[s] = "SKIPPED" => lifecycle \in {"COMPLETED", "RETIRED"}
       /\ state[s] = "RETIRED" => lifecycle = "RETIRED"
       /\ state[s] \notin {"ROLLBACK_PENDING", "ROLLED_BACK"}

\* Steps go stale when their plan stops running, and are re-armed before it
\* runs again.
RunningPlanIsFresh ==
  lifecycle \in {"READY", "EXECUTING"} => \A s \in Steps : state[s] # "STALE"

\* A dispatch is recorded as it was answered, nothing is recorded from the
\* future, and what a plan that is not terminal has in flight is of this epoch.
RecordsAgree ==
  /\ boundEpoch <= epoch /\ watermark <= convergence
  /\ \A s \in Steps :
       /\ dispatchWatermark[s] <= watermark
       /\ evidence[s] <= generation[s]
       /\ state[s] = "DISPATCHED" =>
            /\ evidence[s] < generation[s]
            /\ lifecycle \in Open => boundEpoch = epoch
            /\ lifecycle = "RETIRED" => dispatchWatermark[s] < watermark
  /\ \A e \in dispatches :
       /\ e.generation <= generation[e.step]
       /\ e.generation = generation[e.step] =>
            /\ e.watermark = dispatchWatermark[e.step]
            /\ state[e.step] = "DISPATCHED" /\ lifecycle \in Open
                 => e.epoch = epoch

InductiveInvariant ==
  /\ TypeOK
  /\ StepsFollowLifecycle
  /\ RunningPlanIsFresh
  /\ RecordsAgree
  /\ PrerequisitesSatisfied
  /\ NoForgottenStep
  /\ InFlightHeldByLiveWorker
  /\ SuspendedPlanHoldsNoWork
  /\ CompletedPlanIsComplete
  /\ RunnableBoundToEpoch

----------------------------------------------------------------------------
\* Action properties

\* A step becomes completed in two ways only: by accepted evidence of its
\* current dispatch, held by a live worker, under the plan's watermark and
\* epoch, on a plan that is not terminal - apply_completion does not look at
\* the lifecycle - or by settling a doubt (test_property.cpp, 3 to 6 and 13).
CommitIsFenced ==
  [][\A s \in Steps :
       state[s] # "COMPLETED" /\ state'[s] = "COMPLETED" =>
         \/ state[s] = "RECONCILIATION_REQUIRED"
         \/ /\ state[s] = "DISPATCHED"
            /\ lifecycle \in Open
            /\ evidence'[s] = generation[s]
            /\ WorkerLive(dispatchBoot[s])
            /\ dispatchWatermark[s] = watermark
            /\ boundEpoch = epoch]_vars

\* What is completed stays so until the plan is retired: no invalidation,
\* revalidation or recovery re-arms it.
CompletionIsKept ==
  [][\A s \in Steps :
       state[s] = "COMPLETED" =>
         \/ state'[s] = "COMPLETED"
         \/ state'[s] = "RETIRED" /\ lifecycle' = "RETIRED"]_vars

\* What was given up stays so until completion skips it or retirement ends it:
\* neither revalidation nor a restart arms it again, so a retry that was refused
\* is not made after a suspension either (README.md, 251-259).
GivenUpIsFinal ==
  [][\A s \in Steps :
       state[s] = "FAILED" => state'[s] \in {"FAILED", "SKIPPED", "RETIRED"}]_vars

\* A step in doubt leaves that state only through a reconciliation of its own.
DoubtOnlyReconciled ==
  [][\A s \in Steps :
       state[s] = "RECONCILIATION_REQUIRED" /\ state'[s] # state[s] =>
         \E applied \in BOOLEAN : ReconcileStep(s, applied)]_vars

\* Only retirement leaves a terminal lifecycle, and nothing leaves RETIRED
\* (test_property.cpp, 7).
TerminalIsFinal ==
  [][lifecycle' \in {lifecycle, "RETIRED"} \/ lifecycle \notin TerminalLifecycle]_vars

\* Generations, watermarks and epochs never decrease, over restarts too, and
\* the work a step is given is always of a new generation.
GenerationsNeverDecrease ==
  [][/\ epoch' >= epoch
     /\ boundEpoch' >= boundEpoch
     /\ convergence' >= convergence
     /\ watermark' >= watermark
     /\ \A s \in Steps :
          /\ generation'[s] >= generation[s]
          /\ evidence'[s] >= evidence[s]
          /\ state'[s] = "DISPATCHED" /\ state[s] # "DISPATCHED"
               => generation'[s] > generation[s]]_vars

\* What takes work in flight from a plan that is not terminal also advances
\* the plan's watermark, a restart included, so the evidence is refused even
\* if the step is dispatched again to the same boot.
FencingAdvancesWatermark ==
  [][\A s \in Steps :
       (/\ lifecycle \in Open
        /\ state[s] = "DISPATCHED"
        /\ state'[s] \in {"STALE", "RECONCILIATION_REQUIRED"}
        /\ evidence'[s] = evidence[s])
         => watermark' > dispatchWatermark[s]]_vars

----------------------------------------------------------------------------
\* The plan's execution implements OrderedCommit.  A plan is given up once it
\* rolls back, is superseded or is revoked; a retired plan has no record.
InState(S) ==
  IF lifecycle = "RETIRED" THEN {} ELSE {s \in Steps : state[s] \in S}

Status ==
  CASE lifecycle = "ABSENT"                                   -> "absent"
    [] lifecycle = "COMPLETED"                                -> "converged"
    [] lifecycle = "RETIRED"                                  -> "retired"
    [] lifecycle \in {"ROLLING_BACK", "SUPERSEDED", "REVOKED"} -> "abandoned"
    [] lifecycle \in Open \ {"ROLLING_BACK"}                  -> "open"

Promise ==
  INSTANCE OrderedCommit WITH
    status <- Status,
    working <- InState({"DISPATCHED"}),
    doubtful <- InState({"RECONCILIATION_REQUIRED"}),
    established <- InState({"COMPLETED"})

ImplementsOrderedCommit == Promise!Spec
=============================================================================
