------------------------ MODULE PlanExecutionProofs ------------------------
(***************************************************************************)
(* What holds of PlanExecution for every plan, every set of workers and    *)
(* every bound.                                                            *)
(***************************************************************************)
EXTENDS PlanExecution, TLAPS

----------------------------------------------------------------------------
\* The shared effects

\* The plan transitions used below lead from a lifecycle to a lifecycle.
LEMMA PlanTable ==
  /\ PlanFrom.INVALIDATE = {"VALIDATING", "READY", "EXECUTING", "PAUSED"}
  /\ PlanFrom.SUPERSEDE = Open
  /\ PlanFrom.DISPATCH = {"READY", "EXECUTING"}
  /\ PlanFrom.STEP_FAILED = {"EXECUTING"}
  /\ PlanFrom.STEP_AMBIGUOUS = {"EXECUTING"}
  /\ PlanFrom.PAUSE = {"VALIDATING", "READY", "EXECUTING"}
  /\ PlanFrom.REVALIDATE_OK = {"VALIDATING", "REVALIDATION_REQUIRED", "PAUSED"}
  /\ PlanFrom.REQUIRE_ROLLBACK =
       {"VALIDATING", "READY", "EXECUTING", "PAUSED", "REVALIDATION_REQUIRED"}
  /\ PlanFrom.BEGIN_ROLLBACK = {"ROLLBACK_REQUIRED"}
  /\ PlanFrom.ROLLBACK_COMPLETED = {"ROLLING_BACK"}
  /\ PlanFrom.REVOKE = Open \ {"ROLLING_BACK"}
  /\ PlanFrom.RETIRE =
       {"DECLARED", "PAUSED", "REVALIDATION_REQUIRED", "ROLLBACK_REQUIRED",
        "COMPLETED", "SUPERSEDED", "REVOKED"}
  /\ PlanTo.ROLLBACK_COMPLETED = "SUPERSEDED"
  /\ PlanTo.BEGIN_ROLLBACK = "ROLLING_BACK"
BY DEF PlanFrom, PlanTo, TerminalLifecycle

\* Take, event by event.
LEMMA TakeTable ==
  ASSUME NEW life
  PROVE  /\ Take("INVALIDATE", life) =
              IF life \in {"VALIDATING", "READY", "EXECUTING", "PAUSED"}
              THEN "REVALIDATION_REQUIRED" ELSE life
         /\ Take("STEP_AMBIGUOUS", life) =
              IF life = "EXECUTING" THEN "PAUSED" ELSE life
         /\ Take("REVALIDATE_OK", life) =
              IF life \in {"VALIDATING", "REVALIDATION_REQUIRED", "PAUSED"}
              THEN "READY" ELSE life
BY DEF Take, PlanFrom, PlanTo

\* The effects keep the step states well typed.
LEMMA EffectType ==
  ASSUME NEW st \in [Steps -> StepLifecycle]
  PROVE  /\ RefreshReady(st) \in [Steps -> StepLifecycle]
         /\ StaleInFlight(st) \in [Steps -> StepLifecycle]
         /\ Rearm(st) \in [Steps -> StepLifecycle]
         /\ SkipRest(st) \in [Steps -> StepLifecycle]
         /\ [s \in Steps |-> RecoveredStep(st[s])] \in [Steps -> StepLifecycle]
BY DEF RefreshReady, StaleInFlight, Rearm, SkipRest, RecoveredStep, StepLifecycle

\* What losing boot b does to the step states, whatever happens to the plan.
LEMMA StaleStepsOfBootType ==
  ASSUME TypeOK, NEW b \in Boots, NEW conv \in Nat \ {0}, StaleStepsOfBoot(b, conv)
  PROVE  /\ state' \in [Steps -> StepLifecycle]
         /\ lifecycle' \in PlanLifecycle \cup {"ABSENT"}
         /\ convergence' \in Nat \ {0}
         /\ watermark' \in Nat
<1> DEFINE lost == [s \in Steps |-> IF s \in InFlightOf(b) THEN "STALE" ELSE state[s]]
<1>1. lost \in [Steps -> StepLifecycle]
  BY DEF TypeOK, StepLifecycle
<1>2. CASE InFlightOf(b) = {} \/ lifecycle \in TerminalLifecycle
  BY <1>1, <1>2 DEF StaleStepsOfBoot, TypeOK
<1>3. CASE ~(InFlightOf(b) = {} \/ lifecycle \in TerminalLifecycle)
  <2>1. Invalidate(lost, conv)
    BY <1>3 DEF StaleStepsOfBoot
  <2> QED
    BY <1>1, <2>1, EffectType, TakeTable
       DEF Invalidate, AdvanceWatermark, TypeOK, PlanLifecycle
<1> QED
  BY <1>2, <1>3

\* Evidence, of whatever dispatch, keeps the types.
Evidence ==
  [step : Steps, generation : Nat, boot : Boots, epoch : Nat, watermark : Nat]

LEMMA CommitType ==
  ASSUME TypeOK, NEW s \in Steps, NEW outcome, Commit(s, outcome)
  PROVE  /\ state' \in [Steps -> StepLifecycle]
         /\ lifecycle' \in PlanLifecycle \cup {"ABSENT"}
         /\ convergence' \in Nat \ {0}
<1> USE DEF TypeOK
<1>1. CASE CommitApplied(s)
  <2> DEFINE committed == RefreshReady([state EXCEPT ![s] = "COMPLETED"])
  <2>1. /\ committed \in [Steps -> StepLifecycle]
        /\ SkipRest(committed) \in [Steps -> StepLifecycle]
    BY EffectType DEF StepLifecycle
  <2>2. CASE lifecycle = "EXECUTING" /\ Finished(committed)
    <3>1. /\ lifecycle' = "COMPLETED"
          /\ state' = SkipRest(committed)
          /\ convergence' \in {convergence, convergence + 1}
      BY <1>1, <2>2 DEF CommitApplied
    <3>2. state' \in [Steps -> StepLifecycle]
      BY <2>1, <3>1
    <3>3. lifecycle' \in PlanLifecycle \cup {"ABSENT"}
      BY <3>1 DEF PlanLifecycle
    <3>4. convergence' \in Nat \ {0}
      BY <3>1
    <3> QED
      BY <3>2, <3>3, <3>4
  <2>3. CASE ~(lifecycle = "EXECUTING" /\ Finished(committed))
    BY <1>1, <2>1, <2>3 DEF CommitApplied
  <2> QED
    BY <2>2, <2>3
<1>2. CASE CommitAmbiguous(s)
  BY <1>2, TakeTable DEF CommitAmbiguous, PlanLifecycle, StepLifecycle
<1>3. CASE CommitFailure(s, outcome)
  BY <1>3 DEF CommitFailure, AfterStepFailed, PlanLifecycle, StepLifecycle
<1> QED
  BY <1>1, <1>2, <1>3 DEF Commit

LEMMA ApplyCompletionType ==
  ASSUME TypeOK, NEW e \in Evidence, NEW outcome, ApplyCompletion(e, outcome)
  PROVE  TypeOK'
<1> USE DEF TypeOK, Evidence
<1>1. CASE PlanCurrent /\ Commit(e.step, outcome)
             /\ evidence' = [evidence EXCEPT ![e.step] = e.generation]
             /\ UNCHANGED watermark
  BY <1>1, CommitType DEF ApplyCompletion, upstreamVars
<1>2. CASE ~PlanCurrent /\ Room /\ Invalidate(state, convergence)
             /\ UNCHANGED evidence
  BY <1>2, EffectType, TakeTable
     DEF ApplyCompletion, Invalidate, AdvanceWatermark, upstreamVars, PlanLifecycle
<1> QED
  BY <1>1, <1>2 DEF ApplyCompletion

LEMMA InitType == Init => TypeOK
BY GraphAssumption, WorkerAssumption
   DEF Init, TypeOK, StepLifecycle, PlanLifecycle

LEMMA TypeStep == TypeOK /\ [Next]_vars => TypeOK'
<1> SUFFICES ASSUME TypeOK, [Next]_vars PROVE TypeOK'
  OBVIOUS
<1> USE DEF TypeOK
<1>1. ASSUME NEW b \in Boots, RegisterWorker(b) PROVE TypeOK'
  BY <1>1, WorkerAssumption DEF RegisterWorker, upstreamVars, planVars, recordVars
<1>2. ASSUME NEW b \in Boots, ReviveWorker(b) PROVE TypeOK'
  BY <1>2, WorkerAssumption DEF ReviveWorker, upstreamVars, planVars, recordVars
<1>3. ASSUME NEW b \in Boots, ReincarnateWorker(b) PROVE TypeOK'
  BY <1>3, WorkerAssumption, StaleStepsOfBootType
     DEF ReincarnateWorker, upstreamVars, planVars, recordVars
<1>4. ASSUME NEW b \in Boots, LoseSession(b) PROVE TypeOK'
  BY <1>4, WorkerAssumption, StaleStepsOfBootType
     DEF LoseSession, upstreamVars, recordVars
<1>5. ASSUME NEW b \in Boots, FenceWorker(b) PROVE TypeOK'
  BY <1>5, WorkerAssumption, StaleStepsOfBootType
     DEF FenceWorker, upstreamVars, recordVars
<1>6. CASE AdvanceEpoch
  BY <1>6, EffectType, TakeTable
     DEF AdvanceEpoch, Invalidate, AdvanceWatermark, upstreamVars, planVars,
         recordVars, PlanLifecycle
<1>7. CASE ChangeUpstream
  BY <1>7 DEF ChangeUpstream, authorityVars, planVars, recordVars
<1>8. CASE DefinePolicy
  BY <1>8 DEF DefinePolicy, authorityVars, planVars, recordVars
<1>9. CASE NoteRouteChange
  BY <1>9, EffectType, TakeTable
     DEF NoteRouteChange, Supersede, Invalidate, AdvanceWatermark, upstreamVars,
         recordVars, PlanLifecycle
<1>10. CASE RefuseStalePlan
  BY <1>10, EffectType, TakeTable
     DEF RefuseStalePlan, Invalidate, AdvanceWatermark, upstreamVars,
         recordVars, PlanLifecycle
<1>11. CASE CreatePlan
  BY <1>11, EffectType DEF CreatePlan, authorityVars, upstreamVars, recordVars, PlanLifecycle
<1>12. ASSUME NEW b \in Boots, NEW s \in Steps, DispatchStep(b, s) PROVE TypeOK'
  BY <1>12
     DEF DispatchStep, NextGeneration, authorityVars, upstreamVars, PlanLifecycle,
         StepLifecycle
<1>13. ASSUME NEW s \in Steps, NEW applied \in BOOLEAN, ReconcileStep(s, applied)
       PROVE TypeOK'
  BY <1>13, EffectType
     DEF ReconcileStep, authorityVars, upstreamVars, planVars, recordVars, StepLifecycle
<1>14. CASE RevalidateOk
  BY <1>14, EffectType, TakeTable
     DEF RevalidateOk, authorityVars, upstreamVars, recordVars, PlanLifecycle
<1>15. CASE RevalidateFail
  BY <1>15, EffectType
     DEF RevalidateFail, Supersede, AdvanceWatermark, upstreamVars, recordVars,
         PlanLifecycle
<1>16. CASE PausePlan
  BY <1>16 DEF PausePlan, authorityVars, upstreamVars, recordVars, PlanLifecycle
<1>17. CASE RevokePlan
  BY <1>17, EffectType
     DEF RevokePlan, AdvanceWatermark, upstreamVars, recordVars, PlanLifecycle
<1>18. CASE RetirePlan
  BY <1>18
     DEF RetirePlan, AdvanceWatermark, upstreamVars, recordVars, PlanLifecycle,
         StepLifecycle
<1>19. CASE BeginRollback
  BY <1>19, EffectType, PlanTable
     DEF BeginRollback, AdvanceWatermark, upstreamVars, recordVars, PlanLifecycle
<1>20. CASE RollbackPlanCompleted
  BY <1>20
     DEF RollbackPlanCompleted, AdvanceWatermark, upstreamVars, recordVars,
         PlanLifecycle
<1>21. CASE Superseded
  BY <1>21, EffectType
     DEF Superseded, Supersede, AdvanceWatermark, upstreamVars, recordVars,
         PlanLifecycle
<1>22. CASE Restart
  <2>1. RefreshReady([s \in Steps |-> RecoveredStep(state[s])])
          \in [Steps -> StepLifecycle]
    BY EffectType
  <2> QED
    BY <1>22, <2>1
       DEF Restart, RecoveredPlan, upstreamVars, recordVars, PlanLifecycle
<1>23. ASSUME NEW e \in dispatches, NEW outcome \in Outcomes, CompleteStep(e, outcome)
       PROVE TypeOK'
  BY <1>23, ApplyCompletionType DEF CompleteStep, Evidence
<1>24. ASSUME NEW b \in Boots, NEW s \in Steps, NEW outcome \in Outcomes,
              FailStep(b, s, outcome)
       PROVE TypeOK'
  <2> DEFINE e == [step |-> s, generation |-> generation[s], boot |-> b,
                   epoch |-> epoch, watermark |-> dispatchWatermark[s]]
  <2>1. e \in Evidence /\ ApplyCompletion(e, outcome)
    BY <1>24 DEF FailStep, Evidence
  <2> QED
    BY <2>1, ApplyCompletionType
<1>25. CASE UNCHANGED vars
  BY <1>25
     DEF vars, authorityVars, upstreamVars, planVars, recordVars
<1> QED
  BY <1>1, <1>2, <1>3, <1>4, <1>5, <1>6, <1>7, <1>8, <1>9, <1>10, <1>11, <1>12,
     <1>13, <1>14, <1>15, <1>16, <1>17, <1>18, <1>19, <1>20, <1>21, <1>22, <1>23,
     <1>24, <1>25
     DEF Next, RegistryStep, UpstreamStep, ExecutionStep, ControlStep

\* Every reachable state is well typed.
THEOREM TypeCorrect == Spec => []TypeOK
BY InitType, TypeStep, PTL DEF Spec

----------------------------------------------------------------------------
\* The invariants that relate the lifecycle of the plan to its steps

PlanInvariant ==
  /\ StepsFollowLifecycle
  /\ PrerequisitesSatisfied
  /\ NoForgottenStep
  /\ SuspendedPlanHoldsNoWork
  /\ CompletedPlanIsComplete

\* The order of the steps, and the readiness of those nothing holds back, as
\* predicates of the step states.
Ordered(st) ==
  \A s \in Steps :
    st[s] \notin {"PENDING", "SKIPPED", "RETIRED"} => Satisfied(st, DependsOn[s])

Released(st) ==
  \A s \in Steps : st[s] = "PENDING" => ~Satisfied(st, DependsOn[s])

\* refresh_ready_steps keeps the order, releases whatever it can, and moves
\* nothing else.
LEMMA RefreshReadyPlan ==
  ASSUME NEW st \in [Steps -> StepLifecycle]
  PROVE  /\ Ordered(st) => Ordered(RefreshReady(st))
         /\ Released(RefreshReady(st))
         /\ \A s \in Steps :
              \/ RefreshReady(st)[s] = st[s]
              \/ st[s] = "PENDING" /\ RefreshReady(st)[s] = "READY"
<1> DEFINE r == RefreshReady(st)
<1>1. r \in [Steps -> StepLifecycle]
  BY EffectType
<1>2. \A s \in Steps :
        r[s] = IF st[s] = "PENDING" /\ Satisfied(st, DependsOn[s])
               THEN "READY" ELSE st[s]
  BY DEF RefreshReady
<1>3. \A S \in SUBSET Steps : Satisfied(r, S) <=> Satisfied(st, S)
  BY <1>2 DEF Satisfied, SatisfiedState
<1> HIDE DEF r
<1>4. \A s \in Steps : DependsOn[s] \in SUBSET Steps
  BY GraphAssumption
<1>5. Ordered(st) => Ordered(r)
  BY <1>2, <1>3, <1>4 DEF Ordered
<1>6. Released(r)
  BY <1>2, <1>3, <1>4 DEF Released
<1>7. \A s \in Steps : r[s] = st[s] \/ (st[s] = "PENDING" /\ r[s] = "READY")
  BY <1>2
<1> QED
  BY <1>5, <1>6, <1>7 DEF r

\* The order survives what unsatisfies no step, and sets none to work that
\* was not.
LEMMA OrderKept ==
  ASSUME NEW st, NEW new, Ordered(st),
         \A s \in Steps : st[s] \in SatisfiedState => new[s] \in SatisfiedState,
         \A s \in Steps :
           \/ new[s] \in {"PENDING", "SKIPPED", "RETIRED"}
           \/ st[s] \notin {"PENDING", "SKIPPED", "RETIRED"}
  PROVE  Ordered(new)
BY GraphAssumption DEF Ordered, Satisfied

LEMMA PlanOrder ==
  ASSUME PlanInvariant
  PROVE  /\ lifecycle # "RETIRED" => Ordered(state)
         /\ lifecycle # "ABSENT" => Released(state)
BY DEF PlanInvariant, PrerequisitesSatisfied, NoForgottenStep, Ordered, Released

\* Giving up the work in flight, when the plan is not completed by it.
LEMMA FencePlan ==
  ASSUME TypeOK, PlanInvariant, lifecycle # "ABSENT",
         state' = StaleInFlight(state),
         \/ lifecycle' = lifecycle
         \/ /\ lifecycle \in Open
            /\ lifecycle' \in {"REVALIDATION_REQUIRED", "ROLLING_BACK",
                               "SUPERSEDED", "REVOKED"}
  PROVE  PlanInvariant'
<1>1. \A s \in Steps :
        state'[s] = IF state[s] = "DISPATCHED" THEN "STALE" ELSE state[s]
  BY DEF StaleInFlight
<1>2. lifecycle' # "ABSENT" /\ (lifecycle' = "RETIRED" <=> lifecycle = "RETIRED")
  BY DEF Open, TerminalLifecycle
<1>3. lifecycle' = "COMPLETED" => lifecycle = "COMPLETED"
  OBVIOUS
<1>4. StepsFollowLifecycle'
  BY <1>1, <1>2
     DEF StepsFollowLifecycle, PlanInvariant, Open, TerminalLifecycle
<1>5. PrerequisitesSatisfied'
  BY <1>1, <1>2, GraphAssumption
     DEF PrerequisitesSatisfied, PlanInvariant, Satisfied, SatisfiedState
<1>6. NoForgottenStep'
  BY <1>1, GraphAssumption
     DEF NoForgottenStep, PlanInvariant, Satisfied, SatisfiedState
<1>7. SuspendedPlanHoldsNoWork'
  BY <1>1 DEF SuspendedPlanHoldsNoWork
<1>8. CompletedPlanIsComplete'
  BY <1>1, <1>3, GraphAssumption
     DEF CompletedPlanIsComplete, PlanInvariant, SatisfiedState
<1> QED
  BY <1>4, <1>5, <1>6, <1>7, <1>8 DEF PlanInvariant

LEMMA InvalidatePlan ==
  ASSUME TypeOK, PlanInvariant, lifecycle # "ABSENT", NEW conv,
         Invalidate(state, conv)
  PROVE  PlanInvariant'
<1>1. /\ state' = StaleInFlight(state)
      /\ lifecycle' = Take("INVALIDATE", lifecycle)
  BY DEF Invalidate
<1>2. \/ lifecycle' = lifecycle
      \/ lifecycle \in Open /\ lifecycle' = "REVALIDATION_REQUIRED"
  BY <1>1, TakeTable DEF Open, TerminalLifecycle, PlanLifecycle
<1> QED
  BY <1>1, <1>2, FencePlan

LEMMA SupersedePlan ==
  ASSUME TypeOK, PlanInvariant, Supersede
  PROVE  PlanInvariant'
BY FencePlan, PlanTable DEF Supersede, Open, PlanLifecycle

LEMMA LosePlan ==
  ASSUME TypeOK, PlanInvariant, NEW b \in Boots, NEW conv, StaleStepsOfBoot(b, conv)
  PROVE  PlanInvariant'
<1> DEFINE lost == [s \in Steps |-> IF s \in InFlightOf(b) THEN "STALE" ELSE state[s]]
<1>1. CASE InFlightOf(b) = {} 
  <2>1. UNCHANGED <<lifecycle, state>>
    BY <1>1 DEF StaleStepsOfBoot, TypeOK
  <2> QED
    BY <2>1
       DEF PlanInvariant, StepsFollowLifecycle, PrerequisitesSatisfied,
           NoForgottenStep, SuspendedPlanHoldsNoWork, CompletedPlanIsComplete
<1>2. CASE lifecycle \in TerminalLifecycle
  <2>1. UNCHANGED lifecycle /\ state' = lost
    BY <1>2 DEF StaleStepsOfBoot
  <2> QED
    BY <1>2, <2>1, GraphAssumption
       DEF InFlightOf, TypeOK, PlanInvariant, StepsFollowLifecycle, PrerequisitesSatisfied,
           NoForgottenStep, SuspendedPlanHoldsNoWork, CompletedPlanIsComplete,
           Satisfied, SatisfiedState, TerminalLifecycle
<1>3. CASE InFlightOf(b) # {} /\ lifecycle \notin TerminalLifecycle
  <2>1. Invalidate(lost, conv)
    BY <1>3 DEF StaleStepsOfBoot
  <2>2. StaleInFlight(lost) = StaleInFlight(state)
    BY DEF StaleInFlight, InFlightOf, TypeOK
  <2>3. lifecycle # "ABSENT"
    BY <1>3 DEF InFlightOf, PlanInvariant, StepsFollowLifecycle
  <2> QED
    BY <2>1, <2>2, <2>3, InvalidatePlan DEF Invalidate
<1> QED
  BY <1>1, <1>2, <1>3

\* A step in flight or in doubt comes to rest, and others may become ready.
LEMMA SettlePlan ==
  ASSUME TypeOK, PlanInvariant, NEW s \in Steps,
         state[s] \in {"DISPATCHED", "RECONCILIATION_REQUIRED"},
         NEW x \in {"COMPLETED", "READY", "FAILED", "RECONCILIATION_REQUIRED"},
         \/ state' = RefreshReady([state EXCEPT ![s] = x])
         \/ x # "COMPLETED" /\ state' = [state EXCEPT ![s] = x],
         \/ lifecycle' = lifecycle
         \/ lifecycle = "EXECUTING" /\ lifecycle' \in {"PAUSED", "ROLLBACK_REQUIRED"}
  PROVE  PlanInvariant'
<1> DEFINE base == [state EXCEPT ![s] = x]
<1>1. base \in [Steps -> StepLifecycle]
  BY DEF TypeOK, StepLifecycle
<1>2. \A q \in Steps : base[q] = IF q = s THEN x ELSE state[q]
  BY DEF TypeOK
<1>3. Ordered(state) => Ordered(base)
  <2>1. \A q \in Steps : state[q] \in SatisfiedState => base[q] \in SatisfiedState
    BY <1>2 DEF SatisfiedState
  <2>2. \A q \in Steps :
          \/ base[q] \in {"PENDING", "SKIPPED", "RETIRED"}
          \/ state[q] \notin {"PENDING", "SKIPPED", "RETIRED"}
    BY <1>2
  <2> HIDE DEF base
  <2> QED
    BY <2>1, <2>2, OrderKept
<1>4. /\ Ordered(state) => Ordered(state')
      /\ lifecycle # "ABSENT" => Released(state')
      /\ \A q \in Steps :
           \/ state'[q] = base[q]
           \/ base[q] = "PENDING" /\ state'[q] = "READY"
  <2>1. CASE state' = RefreshReady(base)
    BY <1>1, <1>3, <2>1, RefreshReadyPlan
  <2>2. CASE x # "COMPLETED" /\ state' = base
    <3>1. lifecycle # "ABSENT" => Released(base)
      BY <1>2, <2>2, PlanOrder, GraphAssumption
         DEF Released, Satisfied, SatisfiedState
    <3> QED
      BY <1>3, <2>2, <3>1
  <2> QED
    BY <2>1, <2>2
<1> HIDE DEF base
<1>5. lifecycle \notin {"ABSENT", "COMPLETED"}
  BY DEF PlanInvariant, StepsFollowLifecycle, CompletedPlanIsComplete, SatisfiedState
<1>6. StepsFollowLifecycle'
  BY <1>2, <1>4, <1>5 DEF StepsFollowLifecycle, PlanInvariant
<1>7. PrerequisitesSatisfied'
  BY <1>4, PlanOrder DEF PrerequisitesSatisfied, Ordered
<1>8. NoForgottenStep'
  BY <1>4, <1>5 DEF NoForgottenStep, Released
<1>9. SuspendedPlanHoldsNoWork'
  BY <1>2, <1>4 DEF SuspendedPlanHoldsNoWork, PlanInvariant
<1>10. CompletedPlanIsComplete'
  BY <1>5 DEF CompletedPlanIsComplete
<1> QED
  BY <1>6, <1>7, <1>8, <1>9, <1>10 DEF PlanInvariant

\* The last step of an executing plan completes it.
LEMMA CompletePlan ==
  ASSUME TypeOK, PlanInvariant, NEW s \in Steps, NEW committed,
         state[s] = "DISPATCHED",
         committed = RefreshReady([state EXCEPT ![s] = "COMPLETED"]),
         lifecycle = "EXECUTING", Finished(committed),
         lifecycle' = "COMPLETED", state' = SkipRest(committed)
  PROVE  PlanInvariant'
<1> DEFINE base == [state EXCEPT ![s] = "COMPLETED"]
<1>1. base \in [Steps -> StepLifecycle]
  BY DEF TypeOK, StepLifecycle
<1>2. \A q \in Steps : base[q] = IF q = s THEN "COMPLETED" ELSE state[q]
  BY DEF TypeOK
<1>3. /\ committed \in [Steps -> StepLifecycle]
      /\ \A q \in Steps :
           committed[q] = base[q] \/ (base[q] = "PENDING" /\ committed[q] = "READY")
  BY <1>1, RefreshReadyPlan, EffectType
<1> HIDE DEF base
<1>4. \A q \in Steps :
        committed[q] \in {"PENDING", "READY", "FAILED", "COMPLETED"}
  <2> SUFFICES ASSUME NEW q \in Steps
               PROVE  committed[q] \in {"PENDING", "READY", "FAILED", "COMPLETED"}
    OBVIOUS
  <2>1. committed[q] \notin BlockingState /\ committed[q] \in StepLifecycle
    BY <1>3 DEF Finished
  <2>2. committed[q] \notin {"SKIPPED", "RETIRED", "ROLLED_BACK"}
    BY <1>2, <1>3 DEF PlanInvariant, StepsFollowLifecycle
  <2> QED
    BY <2>1, <2>2 DEF BlockingState, StepLifecycle
<1>5. \A q \in Steps :
        state'[q] = IF committed[q] = "COMPLETED" THEN "COMPLETED" ELSE "SKIPPED"
  BY <1>4 DEF SkipRest, Skippable
<1>6. \A q \in Mandatory : q \in Steps /\ committed[q] = "COMPLETED"
  BY <1>4, GraphAssumption DEF Finished, Satisfied, SatisfiedState
<1>7. CompletedPlanIsComplete'
  BY <1>5, <1>6 DEF CompletedPlanIsComplete, SatisfiedState
<1>8. \A q \in Steps : state'[q] \in SatisfiedState
  BY <1>5 DEF SatisfiedState
<1>9. StepsFollowLifecycle' /\ NoForgottenStep' /\ SuspendedPlanHoldsNoWork'
  BY <1>5 DEF StepsFollowLifecycle, NoForgottenStep, SuspendedPlanHoldsNoWork
<1>10. PrerequisitesSatisfied'
  BY <1>8, GraphAssumption DEF PrerequisitesSatisfied, Satisfied
<1> QED
  BY <1>7, <1>9, <1>10 DEF PlanInvariant

LEMMA CommitPlan ==
  ASSUME TypeOK, PlanInvariant, NEW s \in Steps, NEW outcome,
         state[s] = "DISPATCHED", Commit(s, outcome)
  PROVE  PlanInvariant'
<1>1. CASE CommitApplied(s)
  <2> DEFINE committed == RefreshReady([state EXCEPT ![s] = "COMPLETED"])
  <2>1. CASE lifecycle = "EXECUTING" /\ Finished(committed)
    <3>1. lifecycle' = "COMPLETED" /\ state' = SkipRest(committed)
      BY <1>1, <2>1 DEF CommitApplied
    <3> QED
      BY <2>1, <3>1, CompletePlan
  <2>2. CASE ~(lifecycle = "EXECUTING" /\ Finished(committed))
    <3>1. state' = committed /\ lifecycle' = lifecycle
      BY <1>1, <2>2 DEF CommitApplied
    <3> QED
      BY <3>1, SettlePlan
  <2> QED
    BY <2>1, <2>2
<1>2. CASE CommitAmbiguous(s)
  <2>1. lifecycle' = lifecycle \/ (lifecycle = "EXECUTING" /\ lifecycle' = "PAUSED")
    BY <1>2, TakeTable DEF CommitAmbiguous
  <2>2. state' = [state EXCEPT ![s] = "RECONCILIATION_REQUIRED"]
    BY <1>2 DEF CommitAmbiguous
  <2> QED
    BY <2>1, <2>2, SettlePlan
<1>3. CASE CommitFailure(s, outcome)
  <2>1. \/ lifecycle' = lifecycle
        \/ lifecycle = "EXECUTING" /\ lifecycle' \in {"PAUSED", "ROLLBACK_REQUIRED"}
    BY <1>3, PlanTable DEF CommitFailure, AfterStepFailed
  <2>2. \E x \in {"READY", "FAILED"} : state' = [state EXCEPT ![s] = x]
    BY <1>3 DEF CommitFailure
  <2> QED
    BY <2>1, <2>2, SettlePlan
<1> QED
  BY <1>1, <1>2, <1>3 DEF Commit

LEMMA ApplyCompletionPlan ==
  ASSUME TypeOK, PlanInvariant, NEW e \in Evidence, NEW outcome,
         ApplyCompletion(e, outcome)
  PROVE  PlanInvariant'
<1>1. e.step \in Steps /\ state[e.step] = "DISPATCHED"
  BY DEF Evidence, ApplyCompletion, EvidenceHolds
<1>2. CASE PlanCurrent /\ Commit(e.step, outcome)
  BY <1>1, <1>2, CommitPlan
<1>3. CASE Invalidate(state, convergence)
  BY <1>1, <1>3, InvalidatePlan DEF PlanInvariant, StepsFollowLifecycle
<1> QED
  BY <1>2, <1>3 DEF ApplyCompletion

\* The step states a plan recovers with.
LEMMA RecoverPlan ==
  ASSUME TypeOK, PlanInvariant, Restart
  PROVE  PlanInvariant'
<1>1. CASE lifecycle = "ABSENT"
  <2>1. UNCHANGED <<lifecycle, state>>
    BY <1>1 DEF Restart
  <2> QED
    BY <2>1
       DEF PlanInvariant, StepsFollowLifecycle, PrerequisitesSatisfied,
           NoForgottenStep, SuspendedPlanHoldsNoWork, CompletedPlanIsComplete
<1>2. CASE lifecycle # "ABSENT"
  <2> DEFINE base == [s \in Steps |-> RecoveredStep(state[s])]
  <2>1. base \in [Steps -> StepLifecycle] /\ state' = RefreshReady(base)
    BY <1>2, EffectType DEF Restart, TypeOK
  <2>2. lifecycle' = RecoveredPlan(lifecycle)
    BY <1>2 DEF Restart
  <2>3. \A s \in Steps : base[s] = RecoveredStep(state[s])
    OBVIOUS
  <2>4. Ordered(state) => Ordered(base)
    <3>1. \A s \in Steps : state[s] \in SatisfiedState => base[s] \in SatisfiedState
      BY <2>3 DEF RecoveredStep, SatisfiedState
    <3>2. \A s \in Steps :
            \/ base[s] \in {"PENDING", "SKIPPED", "RETIRED"}
            \/ state[s] \notin {"PENDING", "SKIPPED", "RETIRED"}
      BY <2>3 DEF RecoveredStep
    <3> HIDE DEF base
    <3> QED
      BY <3>1, <3>2, OrderKept
  <2>5. /\ Ordered(state) => Ordered(state')
        /\ Released(state')
        /\ \A s \in Steps :
             state'[s] = base[s] \/ (base[s] = "PENDING" /\ state'[s] = "READY")
    BY <2>1, <2>4, RefreshReadyPlan
  <2> HIDE DEF base
  <2>6. \A s \in Steps : state'[s] # "DISPATCHED"
    BY <2>3, <2>5 DEF RecoveredStep
  <2>7. StepsFollowLifecycle'
    BY <1>2, <2>2, <2>3, <2>5
       DEF StepsFollowLifecycle, PlanInvariant, RecoveredPlan, RecoveredStep
  <2>8. PrerequisitesSatisfied'
    BY <2>2, <2>5, PlanOrder DEF PrerequisitesSatisfied, Ordered, RecoveredPlan
  <2>9. NoForgottenStep'
    BY <2>5 DEF NoForgottenStep, Released
  <2>10. SuspendedPlanHoldsNoWork'
    BY <2>6 DEF SuspendedPlanHoldsNoWork
  <2>11. CompletedPlanIsComplete'
    BY <2>2, <2>3, <2>5, GraphAssumption
       DEF CompletedPlanIsComplete, PlanInvariant, RecoveredPlan, RecoveredStep,
           SatisfiedState
  <2> QED
    BY <2>7, <2>8, <2>9, <2>10, <2>11 DEF PlanInvariant
<1> QED
  BY <1>1, <1>2

\* The step states a plan resumes with.
LEMMA RevalidatePlan ==
  ASSUME TypeOK, PlanInvariant, RevalidateOk
  PROVE  PlanInvariant'
<1>1. CASE lifecycle \notin PlanFrom.REVALIDATE_OK
  <2>1. UNCHANGED <<lifecycle, state>>
    BY <1>1 DEF RevalidateOk, Take
  <2> QED
    BY <2>1
       DEF PlanInvariant, StepsFollowLifecycle, PrerequisitesSatisfied,
           NoForgottenStep, SuspendedPlanHoldsNoWork, CompletedPlanIsComplete
<1>2. CASE lifecycle \in PlanFrom.REVALIDATE_OK
  <2> DEFINE base == Rearm(state)
  <2>1. base \in [Steps -> StepLifecycle] /\ state' = RefreshReady(base)
    BY <1>2, EffectType DEF RevalidateOk, TypeOK
  <2>2. lifecycle' = "READY" /\ lifecycle \notin {"ABSENT", "COMPLETED", "RETIRED"}
    BY <1>2, PlanTable, TakeTable DEF RevalidateOk
  <2>3. \A s \in Steps : base[s] = IF state[s] = "STALE" THEN "PENDING" ELSE state[s]
    BY DEF Rearm
  <2>4. Ordered(base)
    <3>1. \A s \in Steps : state[s] \in SatisfiedState => base[s] \in SatisfiedState
      BY <2>3 DEF SatisfiedState
    <3>2. \A s \in Steps :
            \/ base[s] \in {"PENDING", "SKIPPED", "RETIRED"}
            \/ state[s] \notin {"PENDING", "SKIPPED", "RETIRED"}
      BY <2>3
    <3>3. Ordered(state)
      BY <2>2, PlanOrder
    <3> HIDE DEF base
    <3> QED
      BY <3>1, <3>2, <3>3, OrderKept
  <2>5. /\ Ordered(state') /\ Released(state')
        /\ \A s \in Steps :
             state'[s] = base[s] \/ (base[s] = "PENDING" /\ state'[s] = "READY")
    BY <2>1, <2>4, RefreshReadyPlan
  <2> HIDE DEF base
  <2>6. StepsFollowLifecycle'
    BY <2>2, <2>3, <2>5 DEF StepsFollowLifecycle, PlanInvariant
  <2>7. PrerequisitesSatisfied' /\ NoForgottenStep'
    BY <2>5 DEF PrerequisitesSatisfied, NoForgottenStep, Ordered, Released
  <2>8. SuspendedPlanHoldsNoWork' /\ CompletedPlanIsComplete'
    BY <2>2 DEF SuspendedPlanHoldsNoWork, CompletedPlanIsComplete
  <2> QED
    BY <2>6, <2>7, <2>8 DEF PlanInvariant
<1> QED
  BY <1>1, <1>2

LEMMA CreationPlan ==
  ASSUME TypeOK, PlanInvariant, CreatePlan
  PROVE  PlanInvariant'
<1>1. /\ lifecycle = "ABSENT" /\ lifecycle' = "READY"
      /\ state' = RefreshReady(state) /\ state \in [Steps -> StepLifecycle]
  BY DEF CreatePlan, TypeOK
<1>2. \A s \in Steps : state[s] = "PENDING"
  BY <1>1 DEF PlanInvariant, StepsFollowLifecycle
<1>3. Ordered(state)
  BY <1>2 DEF Ordered
<1>4. /\ Ordered(state') /\ Released(state')
      /\ \A s \in Steps : state'[s] \in {"PENDING", "READY"}
  BY <1>1, <1>2, <1>3, RefreshReadyPlan
<1> QED
  BY <1>1, <1>4
     DEF PlanInvariant, StepsFollowLifecycle, PrerequisitesSatisfied, Ordered,
         NoForgottenStep, Released, SuspendedPlanHoldsNoWork, CompletedPlanIsComplete

LEMMA DispatchPlan ==
  ASSUME TypeOK, PlanInvariant, NEW b \in Boots, NEW s \in Steps, DispatchStep(b, s)
  PROVE  PlanInvariant'
<1>1. /\ lifecycle \in {"READY", "EXECUTING"} /\ lifecycle' = "EXECUTING"
      /\ state[s] = "READY"
      /\ \A q \in Steps : state'[q] = IF q = s THEN "DISPATCHED" ELSE state[q]
  BY PlanTable DEF DispatchStep, TypeOK
<1>2. \A q \in Steps : state'[q] \in SatisfiedState <=> state[q] \in SatisfiedState
  BY <1>1 DEF SatisfiedState
<1>3. StepsFollowLifecycle'
  BY <1>1 DEF PlanInvariant, StepsFollowLifecycle
<1>4. PrerequisitesSatisfied'
  BY <1>1, <1>2, GraphAssumption DEF PlanInvariant, PrerequisitesSatisfied, Satisfied
<1>5. NoForgottenStep'
  BY <1>1, <1>2, GraphAssumption DEF PlanInvariant, NoForgottenStep, Satisfied
<1> QED
  BY <1>1, <1>3, <1>4, <1>5
     DEF PlanInvariant, SuspendedPlanHoldsNoWork, CompletedPlanIsComplete

LEMMA RetirementPlan ==
  ASSUME TypeOK, PlanInvariant, RetirePlan
  PROVE  PlanInvariant'
<1>1. /\ lifecycle # "ABSENT" /\ lifecycle' = "RETIRED"
      /\ \A s \in Steps :
           state'[s] = IF state[s] \in Retirable THEN "RETIRED" ELSE state[s]
  BY PlanTable DEF RetirePlan
<1>2. StepsFollowLifecycle'
  BY <1>1 DEF PlanInvariant, StepsFollowLifecycle
<1>3. \A s \in Steps : state'[s] \in SatisfiedState => state[s] \in SatisfiedState
  BY <1>1 DEF SatisfiedState
<1>4. NoForgottenStep'
  BY <1>1, <1>3, GraphAssumption DEF PlanInvariant, NoForgottenStep, Satisfied
<1> QED
  BY <1>1, <1>2, <1>4
     DEF PlanInvariant, PrerequisitesSatisfied, SuspendedPlanHoldsNoWork,
         CompletedPlanIsComplete

LEMMA InitPlan == Init => PlanInvariant
BY DEF Init, PlanInvariant, StepsFollowLifecycle, PrerequisitesSatisfied,
       NoForgottenStep, SuspendedPlanHoldsNoWork, CompletedPlanIsComplete

LEMMA PlanStep == TypeOK /\ PlanInvariant /\ [Next]_vars => PlanInvariant'
<1> SUFFICES ASSUME TypeOK, PlanInvariant, [Next]_vars PROVE PlanInvariant'
  OBVIOUS
<1>1. CASE UNCHANGED <<lifecycle, state>>
  BY <1>1
     DEF PlanInvariant, StepsFollowLifecycle, PrerequisitesSatisfied,
         NoForgottenStep, SuspendedPlanHoldsNoWork, CompletedPlanIsComplete
<1>2. ASSUME NEW b \in Boots, RegisterWorker(b) \/ ReviveWorker(b)
      PROVE PlanInvariant'
  BY <1>1, <1>2 DEF RegisterWorker, ReviveWorker, planVars
<1>3. ASSUME NEW b \in Boots, ReincarnateWorker(b) PROVE PlanInvariant'
  <2>1. registered[PublisherOf[b]] \in Boots
    BY <1>3, WorkerAssumption DEF ReincarnateWorker, TypeOK
  <2> QED
    BY <1>3, <2>1, LosePlan DEF ReincarnateWorker
<1>4. ASSUME NEW b \in Boots, LoseSession(b) \/ FenceWorker(b) PROVE PlanInvariant'
  BY <1>4, LosePlan DEF LoseSession, FenceWorker
<1>5. CASE AdvanceEpoch
  <2>1. CASE lifecycle \in Open
    BY <1>5, <2>1, InvalidatePlan DEF AdvanceEpoch, Open, PlanLifecycle
  <2>2. CASE lifecycle \notin Open
    BY <1>1, <1>5, <2>2 DEF AdvanceEpoch
  <2> QED
    BY <2>1, <2>2
<1>6. CASE ChangeUpstream \/ DefinePolicy
  BY <1>1, <1>6 DEF ChangeUpstream, DefinePolicy, planVars
<1>7. CASE NoteRouteChange \/ RefuseStalePlan
  BY <1>7, SupersedePlan, InvalidatePlan
     DEF NoteRouteChange, RefuseStalePlan, Open, PlanLifecycle
<1>8. CASE CreatePlan
  BY <1>8, CreationPlan
<1>9. ASSUME NEW b \in Boots, NEW s \in Steps, DispatchStep(b, s) PROVE PlanInvariant'
  BY <1>9, DispatchPlan
<1>10. ASSUME NEW e \in dispatches, NEW outcome \in Outcomes, CompleteStep(e, outcome)
       PROVE PlanInvariant'
  BY <1>10, ApplyCompletionPlan DEF CompleteStep, Evidence, TypeOK
<1>11. ASSUME NEW b \in Boots, NEW s \in Steps, NEW outcome \in Outcomes,
              FailStep(b, s, outcome)
       PROVE PlanInvariant'
  <2> DEFINE e == [step |-> s, generation |-> generation[s], boot |-> b,
                   epoch |-> epoch, watermark |-> dispatchWatermark[s]]
  <2>1. e \in Evidence /\ ApplyCompletion(e, outcome)
    BY <1>11 DEF FailStep, Evidence, TypeOK
  <2> QED
    BY <2>1, ApplyCompletionPlan
<1>12. ASSUME NEW s \in Steps, NEW applied \in BOOLEAN, ReconcileStep(s, applied)
       PROVE PlanInvariant'
  <2>1. PICK x \in {"COMPLETED", "READY"} :
          state' = RefreshReady([state EXCEPT ![s] = x])
    BY <1>12 DEF ReconcileStep
  <2>2. state[s] = "RECONCILIATION_REQUIRED" /\ lifecycle' = lifecycle
    BY <1>12 DEF ReconcileStep, planVars
  <2> QED
    BY <2>1, <2>2, SettlePlan
<1>13. CASE RevalidateOk
  BY <1>13, RevalidatePlan
<1>14. CASE RevalidateFail
  BY <1>1, <1>14, SupersedePlan DEF RevalidateFail
<1>15. CASE PausePlan
  BY <1>15, PlanTable
     DEF PausePlan, PlanInvariant, StepsFollowLifecycle, PrerequisitesSatisfied,
         NoForgottenStep, SuspendedPlanHoldsNoWork, CompletedPlanIsComplete
<1>16. CASE RevokePlan
  BY <1>16, FencePlan, PlanTable DEF RevokePlan, Open, PlanLifecycle
<1>17. CASE RetirePlan
  BY <1>17, RetirementPlan
<1>18. CASE BeginRollback
  BY <1>18, FencePlan, PlanTable DEF BeginRollback, Open, PlanLifecycle, TerminalLifecycle
<1>19. CASE RollbackPlanCompleted
  BY <1>19, PlanTable
     DEF RollbackPlanCompleted, PlanInvariant, StepsFollowLifecycle,
         PrerequisitesSatisfied, NoForgottenStep, SuspendedPlanHoldsNoWork,
         CompletedPlanIsComplete
<1>20. CASE Superseded
  BY <1>20, SupersedePlan DEF Superseded
<1>21. CASE Restart
  BY <1>21, RecoverPlan
<1>22. CASE UNCHANGED vars
  BY <1>1, <1>22 DEF vars, planVars
<1> QED
  BY <1>2, <1>3, <1>4, <1>5, <1>6, <1>7, <1>8, <1>9, <1>10, <1>11, <1>12, <1>13,
     <1>14, <1>15, <1>16, <1>17, <1>18, <1>19, <1>20, <1>21, <1>22
     DEF Next, RegistryStep, UpstreamStep, ExecutionStep, ControlStep

\* Steps are ordered, none is forgotten, a suspended plan holds no work and a
\* completed one is complete.
THEOREM PlanInvariance == Spec => []PlanInvariant
BY InitType, TypeStep, InitPlan, PlanStep, PTL DEF Spec

----------------------------------------------------------------------------
\* What no step does, but a dispatch and an epoch

Steady ==
  /\ UNCHANGED <<epoch, generation, dispatchBoot, dispatchWatermark, dispatches>>
  /\ boundEpoch' \in {boundEpoch, epoch}
  /\ convergence' >= convergence
  /\ watermark' >= watermark /\ watermark' <= convergence'
  /\ lifecycle \in TerminalLifecycle => lifecycle' \in {lifecycle, "RETIRED"}
  /\ lifecycle' = "RETIRED" => lifecycle = "RETIRED" \/ watermark' > convergence
  /\ lifecycle' \in {"READY", "EXECUTING", "PAUSED"} =>
       \/ boundEpoch' = epoch
       \/ boundEpoch' = boundEpoch /\ lifecycle \in {"READY", "EXECUTING", "PAUSED"}
  /\ \A s \in Steps :
       /\ \/ evidence'[s] = evidence[s]
          \/ evidence'[s] = generation[s] /\ state'[s] # "DISPATCHED"
       /\ state'[s] = "DISPATCHED" => state[s] = "DISPATCHED"
       /\ state[s] = "COMPLETED" =>
            \/ state'[s] = "COMPLETED"
            \/ state'[s] = "RETIRED" /\ lifecycle' = "RETIRED"
       /\ (/\ state[s] = "DISPATCHED" /\ lifecycle \in Open
           /\ state'[s] \in {"STALE", "RECONCILIATION_REQUIRED"})
            => watermark' > convergence \/ evidence'[s] = generation[s]

\* Losing a boot, when the governor is at conv.
LEMMA LoseEffect ==
  ASSUME TypeOK, NEW b \in Boots, NEW conv \in Nat \ {0}, StaleStepsOfBoot(b, conv)
  PROVE  /\ \/ UNCHANGED <<lifecycle, watermark>> /\ convergence' = conv
            \/ /\ convergence' = conv + 1 /\ watermark' = conv + 1
               /\ lifecycle \notin TerminalLifecycle
               /\ lifecycle' = Take("INVALIDATE", lifecycle)
         /\ \A s \in Steps :
              /\ state'[s] = "DISPATCHED" => state[s] = "DISPATCHED" /\ dispatchBoot[s] # b
              /\ state[s] # "DISPATCHED" => state'[s] = state[s]
              /\ state[s] = "DISPATCHED" => state'[s] \in {"DISPATCHED", "STALE"}
              /\ state[s] = "DISPATCHED" /\ state'[s] = "STALE"
                   => lifecycle \in TerminalLifecycle \/ watermark' = conv + 1
<1> DEFINE lost == [s \in Steps |-> IF s \in InFlightOf(b) THEN "STALE" ELSE state[s]]
<1>1. CASE InFlightOf(b) = {} \/ lifecycle \in TerminalLifecycle
  <2>1. state' = lost /\ UNCHANGED <<lifecycle, watermark>> /\ convergence' = conv
    BY <1>1 DEF StaleStepsOfBoot
  <2> QED
    BY <1>1, <2>1 DEF InFlightOf
<1>2. CASE ~(InFlightOf(b) = {} \/ lifecycle \in TerminalLifecycle)
  <2>1. Invalidate(lost, conv)
    BY <1>2 DEF StaleStepsOfBoot
  <2>2. \A s \in Steps :
          state'[s] = IF state[s] = "DISPATCHED" THEN "STALE" ELSE state[s]
    BY <2>1 DEF Invalidate, StaleInFlight, InFlightOf
  <2> QED
    BY <1>2, <2>1, <2>2 DEF Invalidate, AdvanceWatermark
<1> QED
  BY <1>1, <1>2

LEMMA FenceSteady ==
  ASSUME TypeOK, RecordsAgree, AdvanceWatermark(convergence),
         state' = StaleInFlight(state), lifecycle' # "RETIRED",
         lifecycle \in TerminalLifecycle => lifecycle' = lifecycle,
         lifecycle' \in {"READY", "EXECUTING", "PAUSED"} => lifecycle' = lifecycle,
         UNCHANGED <<epoch, boundEpoch, recordVars>>
  PROVE  Steady
BY DEF Steady, TypeOK, RecordsAgree, AdvanceWatermark, StaleInFlight, recordVars

LEMMA InvalidateSteady ==
  ASSUME TypeOK, RecordsAgree, Invalidate(state, convergence),
         lifecycle # "RETIRED", UNCHANGED <<epoch, boundEpoch, recordVars>>
  PROVE  Steady
<1>1. /\ lifecycle' # "RETIRED"
      /\ lifecycle \in TerminalLifecycle => lifecycle' = lifecycle
      /\ lifecycle' \in {"READY", "EXECUTING", "PAUSED"} => lifecycle' = lifecycle
  BY TakeTable DEF Invalidate, TerminalLifecycle
<1> QED
  BY <1>1, FenceSteady DEF Invalidate

LEMMA SupersedeSteady ==
  ASSUME TypeOK, RecordsAgree, Supersede, UNCHANGED <<epoch, boundEpoch, recordVars>>
  PROVE  Steady
BY FenceSteady, PlanTable DEF Supersede, Open

LEMMA LoseSteady ==
  ASSUME TypeOK, RecordsAgree, NEW b \in Boots, NEW conv \in {convergence, convergence + 1},
         StaleStepsOfBoot(b, conv), UNCHANGED <<epoch, boundEpoch, recordVars>>
  PROVE  Steady
<1>1. conv \in Nat \ {0} /\ conv >= convergence
  BY DEF TypeOK
<1>2. lifecycle' \in {lifecycle, "REVALIDATION_REQUIRED"}
  BY <1>1, LoseEffect, TakeTable
<1>3. /\ convergence' >= convergence
      /\ watermark' >= watermark /\ watermark' <= convergence'
  BY <1>1, LoseEffect DEF TypeOK, RecordsAgree
<1>4. lifecycle \in TerminalLifecycle => lifecycle' = lifecycle
  BY <1>1, LoseEffect
<1>5. \A s \in Steps :
        /\ state'[s] = "DISPATCHED" => state[s] = "DISPATCHED"
        /\ state[s] = "COMPLETED" => state'[s] = "COMPLETED"
        /\ (/\ state[s] = "DISPATCHED" /\ lifecycle \in Open
            /\ state'[s] \in {"STALE", "RECONCILIATION_REQUIRED"})
             => watermark' > convergence
  BY <1>1, LoseEffect DEF Open, TypeOK
<1>6. /\ UNCHANGED <<epoch, generation, dispatchBoot, dispatchWatermark, dispatches>>
      /\ boundEpoch' = boundEpoch /\ evidence' = evidence
  BY DEF recordVars
<1>7. /\ lifecycle' = "RETIRED" => lifecycle = "RETIRED"
      /\ lifecycle' \in {"READY", "EXECUTING", "PAUSED"}
           => lifecycle \in {"READY", "EXECUTING", "PAUSED"}
  BY <1>2
<1> QED
  BY <1>3, <1>4, <1>5, <1>6, <1>7 DEF Steady

\* Committing the evidence of a step.
LEMMA CommitEffect ==
  ASSUME TypeOK, NEW s \in Steps, NEW outcome, state[s] = "DISPATCHED", Commit(s, outcome)
  PROVE  /\ convergence' \in Nat /\ convergence' >= convergence
         /\ state'[s] # "DISPATCHED"
         /\ \A q \in Steps \ {s} : state'[q] = state[q] \/ state'[q] \in {"READY", "SKIPPED"}
         /\ \A q \in Steps : state[q] = "COMPLETED" => state'[q] = "COMPLETED"
         /\ lifecycle' # lifecycle =>
              /\ lifecycle = "EXECUTING"
              /\ lifecycle' \in {"COMPLETED", "PAUSED", "ROLLBACK_REQUIRED"}
<1>1. CASE CommitApplied(s)
  <2> DEFINE committed == RefreshReady([state EXCEPT ![s] = "COMPLETED"])
  <2>1. \A q \in Steps :
          /\ committed[q] = state[q] \/ q = s \/ committed[q] = "READY"
          /\ state[q] = "COMPLETED" => committed[q] = "COMPLETED"
          /\ committed[s] = "COMPLETED"
    BY DEF RefreshReady, TypeOK
  <2>2. CASE lifecycle = "EXECUTING" /\ Finished(committed)
    <3>1. lifecycle' = "COMPLETED" /\ state' = SkipRest(committed)
      BY <1>1, <2>2 DEF CommitApplied
    <3>2. \A q \in Steps :
            \/ state'[q] = committed[q]
            \/ state'[q] = "SKIPPED" /\ committed[q] # "COMPLETED"
      BY <3>1 DEF SkipRest, Skippable
    <3>3. convergence' \in Nat /\ convergence' >= convergence
      BY <1>1, <2>2 DEF CommitApplied, TypeOK
    <3> HIDE DEF committed
    <3>4. state'[s] # "DISPATCHED"
      BY <2>1, <3>2
    <3>5. \A q \in Steps \ {s} : state'[q] = state[q] \/ state'[q] \in {"READY", "SKIPPED"}
      BY <2>1, <3>2
    <3>6. \A q \in Steps : state[q] = "COMPLETED" => state'[q] = "COMPLETED"
      BY <2>1, <3>2
    <3>7. lifecycle = "EXECUTING"
      BY <2>2
    <3> QED
      BY <3>1, <3>3, <3>4, <3>5, <3>6, <3>7
  <2>3. CASE ~(lifecycle = "EXECUTING" /\ Finished(committed))
    <3>1. state' = committed /\ UNCHANGED <<lifecycle, convergence>>
      BY <1>1, <2>3 DEF CommitApplied
    <3>2. convergence' \in Nat /\ convergence' >= convergence
      BY <3>1 DEF TypeOK
    <3> HIDE DEF committed
    <3> QED
      BY <2>1, <3>1, <3>2
  <2> QED
    BY <2>2, <2>3
<1>2. CASE CommitAmbiguous(s)
  BY <1>2, TakeTable DEF CommitAmbiguous, TypeOK
<1>3. CASE CommitFailure(s, outcome)
  BY <1>3, PlanTable DEF CommitFailure, AfterStepFailed, TypeOK
<1> QED
  BY <1>1, <1>2, <1>3 DEF Commit

LEMMA CommitSteady ==
  ASSUME TypeOK, RecordsAgree, NEW e \in Evidence, NEW outcome, ApplyCompletion(e, outcome)
  PROVE  Steady
<1> DEFINE s == e.step
<1>1. /\ s \in Steps /\ state[s] = "DISPATCHED" /\ e.generation = generation[s]
      /\ UNCHANGED <<epoch, boundEpoch, generation, dispatchBoot, dispatchWatermark,
                     dispatches>>
  BY DEF ApplyCompletion, EvidenceHolds, Evidence
<1>2. CASE /\ Commit(s, outcome) /\ UNCHANGED watermark
           /\ evidence' = [evidence EXCEPT ![s] = e.generation]
  <2>1. /\ convergence' \in Nat /\ convergence' >= convergence
        /\ state'[s] # "DISPATCHED"
        /\ \A q \in Steps \ {s} : state'[q] = state[q] \/ state'[q] \in {"READY", "SKIPPED"}
        /\ \A q \in Steps : state[q] = "COMPLETED" => state'[q] = "COMPLETED"
        /\ lifecycle' # lifecycle =>
             /\ lifecycle = "EXECUTING"
             /\ lifecycle' \in {"COMPLETED", "PAUSED", "ROLLBACK_REQUIRED"}
    BY <1>1, <1>2, CommitEffect
  <2>2. \A q \in Steps : evidence'[q] = IF q = s THEN generation[s] ELSE evidence[q]
    BY <1>1, <1>2 DEF TypeOK
  <2>3. watermark' <= convergence'
    BY <1>2, <2>1 DEF RecordsAgree, TypeOK
  <2>4. /\ lifecycle \in TerminalLifecycle => lifecycle' = lifecycle
        /\ lifecycle' = "RETIRED" => lifecycle = "RETIRED"
        /\ lifecycle' \in {"READY", "EXECUTING", "PAUSED"}
             => lifecycle \in {"READY", "EXECUTING", "PAUSED"}
    BY <2>1 DEF TerminalLifecycle
  <2> QED
    BY <1>1, <1>2, <2>1, <2>2, <2>3, <2>4 DEF Steady, TypeOK
<1>3. CASE Invalidate(state, convergence) /\ UNCHANGED evidence
  <2>1. dispatchWatermark[s] = watermark /\ watermark \in Nat
    BY DEF ApplyCompletion, EvidenceHolds, TypeOK
  <2>2. lifecycle # "RETIRED"
    BY <1>1, <2>1 DEF RecordsAgree
  <2> QED
    BY <1>1, <1>3, <2>2, InvalidateSteady DEF recordVars
<1> QED
  BY <1>1, <1>2, <1>3 DEF ApplyCompletion

LEMMA SteadyStep ==
  ASSUME TypeOK, PlanInvariant, RecordsAgree, [Next]_vars
  PROVE  Steady \/ AdvanceEpoch \/ \E b \in Boots, s \in Steps : DispatchStep(b, s)
<1>1. ASSUME UNCHANGED <<epoch, convergence, planVars, state, recordVars>> PROVE Steady
  <2>1. UNCHANGED <<epoch, convergence, lifecycle, boundEpoch, watermark, state, generation,
                    evidence, dispatchBoot, dispatchWatermark, dispatches>>
    BY <1>1 DEF planVars, recordVars
  <2>2. /\ convergence' >= convergence
        /\ watermark' >= watermark /\ watermark' <= convergence'
    BY <2>1 DEF TypeOK, RecordsAgree
  <2> QED
    BY <2>1, <2>2 DEF Steady
<1>2. ASSUME NEW b \in Boots, RegisterWorker(b) \/ ReviveWorker(b) PROVE Steady
  BY <1>1, <1>2 DEF RegisterWorker, ReviveWorker
<1>3. ASSUME NEW b \in Boots, ReincarnateWorker(b) PROVE Steady
  <2> DEFINE previous == registered[PublisherOf[b]]
  <2>1. previous \in Boots
    BY <1>3, WorkerAssumption DEF ReincarnateWorker, TypeOK
  <2>2. /\ StaleStepsOfBoot(previous, convergence + 1)
        /\ UNCHANGED <<epoch, boundEpoch, recordVars>>
    BY <1>3 DEF ReincarnateWorker
  <2> HIDE DEF previous
  <2> QED
    BY <2>1, <2>2, LoseSteady
<1>4. ASSUME NEW b \in Boots, LoseSession(b) \/ FenceWorker(b) PROVE Steady
  BY <1>4, LoseSteady DEF LoseSession, FenceWorker
<1>5. CASE ChangeUpstream \/ DefinePolicy
  BY <1>1, <1>5 DEF ChangeUpstream, DefinePolicy, authorityVars
<1>6. CASE NoteRouteChange \/ RefuseStalePlan
  BY <1>6, SupersedeSteady, InvalidateSteady
     DEF NoteRouteChange, RefuseStalePlan, Open, TerminalLifecycle
<1>7. CASE CreatePlan
  <2>1. /\ state \in [Steps -> StepLifecycle]
        /\ state' = RefreshReady(state)
        /\ \A s \in Steps : state'[s] \in {"READY", state[s]}
    BY <1>7 DEF CreatePlan, RefreshReady, TypeOK
  <2>2. \A s \in Steps : state[s] = "PENDING"
    BY <1>7 DEF CreatePlan, PlanInvariant, StepsFollowLifecycle
  <2>3. /\ UNCHANGED <<epoch, convergence, generation, dispatchBoot, dispatchWatermark,
                       dispatches, evidence>>
        /\ lifecycle = "ABSENT" /\ lifecycle' = "READY" /\ boundEpoch' = epoch
        /\ watermark' = convergence
    BY <1>7 DEF CreatePlan, authorityVars, recordVars
  <2>4. /\ convergence' >= convergence
        /\ watermark' >= watermark /\ watermark' <= convergence'
    BY <2>3 DEF RecordsAgree, TypeOK
  <2> QED
    BY <2>1, <2>2, <2>3, <2>4 DEF Steady, TerminalLifecycle
<1>8. ASSUME NEW e \in dispatches, NEW outcome \in Outcomes, CompleteStep(e, outcome)
      PROVE Steady
  BY <1>8, CommitSteady DEF CompleteStep, Evidence, TypeOK
<1>9. ASSUME NEW b \in Boots, NEW s \in Steps, NEW outcome \in Outcomes,
             FailStep(b, s, outcome)
      PROVE Steady
  <2> DEFINE e == [step |-> s, generation |-> generation[s], boot |-> b,
                   epoch |-> epoch, watermark |-> dispatchWatermark[s]]
  <2>1. e \in Evidence /\ ApplyCompletion(e, outcome)
    BY <1>9 DEF FailStep, Evidence, TypeOK
  <2> QED
    BY <2>1, CommitSteady
<1>10. ASSUME NEW s \in Steps, NEW applied \in BOOLEAN, ReconcileStep(s, applied)
       PROVE Steady
  <2>1. UNCHANGED <<epoch, convergence, planVars, recordVars>>
    BY <1>10 DEF ReconcileStep, authorityVars
  <2>2. \A q \in Steps :
          state'[q] = state[q] \/ state'[q] = "READY" \/ (q = s /\ state'[q] = "COMPLETED")
    BY <1>10 DEF ReconcileStep, RefreshReady, TypeOK
  <2>3. \A q \in Steps : state[q] = "COMPLETED" => state'[q] = "COMPLETED"
    BY <1>10 DEF ReconcileStep, RefreshReady, TypeOK
  <2> QED
    BY <2>1, <2>2, <2>3 DEF Steady, planVars, recordVars, TypeOK, RecordsAgree
<1>11. CASE RevalidateOk
  <2>1. UNCHANGED <<epoch, convergence, watermark, recordVars>> /\ boundEpoch' = epoch
    BY <1>11 DEF RevalidateOk, authorityVars
  <2>2. lifecycle' \in {lifecycle, "READY"} /\ (lifecycle' # lifecycle => lifecycle \in Open)
    BY <1>11, TakeTable DEF RevalidateOk, Open, TerminalLifecycle, PlanLifecycle
  <2>3. \A s \in Steps :
          /\ state'[s] \in {state[s], "PENDING", "READY"}
          /\ state[s] = "COMPLETED" => state'[s] = "COMPLETED"
    BY <1>11 DEF RevalidateOk, RefreshReady, Rearm
  <2> QED
    BY <2>1, <2>2, <2>3 DEF Steady, recordVars, TypeOK, RecordsAgree, Open
<1>12. CASE RevalidateFail
  <2>1. CASE Supersede
    BY <1>12, <2>1, SupersedeSteady DEF RevalidateFail
  <2>2. CASE AdvanceWatermark(convergence) /\ UNCHANGED <<lifecycle, state>>
    BY <1>12, <2>2
       DEF RevalidateFail, AdvanceWatermark, Steady, TypeOK, RecordsAgree, recordVars
  <2> QED
    BY <1>12, <2>1, <2>2 DEF RevalidateFail
<1>13. CASE PausePlan
  BY <1>13, PlanTable
     DEF PausePlan, Steady, TypeOK, RecordsAgree, recordVars, authorityVars,
         TerminalLifecycle, PlanInvariant, StepsFollowLifecycle
<1>14. CASE RevokePlan
  BY <1>14, FenceSteady, PlanTable DEF RevokePlan, Open
<1>15. CASE RetirePlan
  BY <1>15
     DEF RetirePlan, Retirable, AdvanceWatermark, Steady, TypeOK, RecordsAgree,
         recordVars
<1>16. CASE BeginRollback
  BY <1>16, FenceSteady, PlanTable DEF BeginRollback, TerminalLifecycle
<1>17. CASE RollbackPlanCompleted
  BY <1>17, PlanTable
     DEF RollbackPlanCompleted, AdvanceWatermark, Steady, TypeOK, RecordsAgree,
         recordVars, TerminalLifecycle
<1>18. CASE Superseded
  BY <1>18, SupersedeSteady DEF Superseded
<1>19. CASE Restart
  <2>1. CASE lifecycle = "ABSENT"
    BY <1>19, <2>1
       DEF Restart, Steady, TypeOK, RecordsAgree, recordVars, TerminalLifecycle
  <2>2. CASE lifecycle # "ABSENT"
    <3>1. \A s \in Steps :
            /\ state'[s] # "DISPATCHED"
            /\ state[s] = "COMPLETED" => state'[s] = "COMPLETED"
      BY <1>19, <2>2 DEF Restart, RefreshReady, RecoveredStep
    <3>2. /\ lifecycle' = RecoveredPlan(lifecycle)
          /\ watermark' = convergence + 1 /\ convergence' = convergence + 1
          /\ UNCHANGED <<epoch, boundEpoch, recordVars>>
      BY <1>19, <2>2 DEF Restart
    <3>3. /\ convergence' >= convergence /\ watermark' > convergence
          /\ watermark' >= watermark /\ watermark' <= convergence'
      BY <3>2 DEF TypeOK, RecordsAgree
    <3> QED
      BY <3>1, <3>2, <3>3
         DEF Steady, recordVars, RecoveredPlan, TerminalLifecycle
  <2> QED
    BY <2>1, <2>2
<1>20. CASE UNCHANGED vars
  BY <1>1, <1>20 DEF vars, authorityVars
<1> QED
  BY <1>2, <1>3, <1>4, <1>5, <1>6, <1>7, <1>8, <1>9, <1>10, <1>11, <1>12, <1>13,
     <1>14, <1>15, <1>16, <1>17, <1>18, <1>19, <1>20
     DEF Next, RegistryStep, UpstreamStep, ExecutionStep, ControlStep

----------------------------------------------------------------------------
\* The records of dispatches, and the epoch the plan is bound to

LEMMA InitRecords == Init => RecordsAgree
BY DEF Init, RecordsAgree

LEMMA RecordsStep ==
  TypeOK /\ PlanInvariant /\ RecordsAgree /\ [Next]_vars => RecordsAgree'
<1> SUFFICES ASSUME TypeOK, PlanInvariant, RecordsAgree, [Next]_vars
             PROVE  RecordsAgree'
  OBVIOUS
<1>1. CASE Steady
  <2>1. \A s \in Steps :
          state'[s] = "DISPATCHED" =>
            /\ state[s] = "DISPATCHED" /\ evidence'[s] = evidence[s]
            /\ lifecycle' \in Open => lifecycle \in Open /\ boundEpoch' = epoch
    BY <1>1
       DEF Steady, RecordsAgree, PlanInvariant, StepsFollowLifecycle, TypeOK, Open,
           TerminalLifecycle
  <2>2. boundEpoch' <= epoch' /\ watermark' <= convergence'
    BY <1>1 DEF Steady, RecordsAgree, TypeOK
  <2>3. watermark \in Nat /\ watermark' \in Nat /\ convergence \in Nat
    BY TypeStep DEF TypeOK
  <2>4. ASSUME NEW s \in Steps
        PROVE  /\ dispatchWatermark'[s] <= watermark'
               /\ evidence'[s] <= generation'[s]
               /\ state'[s] = "DISPATCHED" =>
                    /\ evidence'[s] < generation'[s]
                    /\ lifecycle' \in Open => boundEpoch' = epoch'
                    /\ lifecycle' = "RETIRED" => dispatchWatermark'[s] < watermark'
    <3>1. dispatchWatermark'[s] <= watermark'
      BY <1>1, <2>3 DEF Steady, RecordsAgree, TypeOK
    <3>2. evidence'[s] <= generation'[s]
      BY <1>1 DEF Steady, RecordsAgree, TypeOK
    <3>3. state'[s] = "DISPATCHED" =>
            /\ evidence'[s] < generation'[s]
            /\ lifecycle' \in Open => boundEpoch' = epoch'
      BY <1>1, <2>1 DEF Steady, RecordsAgree
    <3>4. state'[s] = "DISPATCHED" /\ lifecycle' = "RETIRED"
            => dispatchWatermark'[s] < watermark'
      BY <1>1, <2>1, <2>3 DEF Steady, RecordsAgree, TypeOK
    <3> QED
      BY <3>1, <3>2, <3>3, <3>4
  <2>5. ASSUME NEW e \in dispatches'
        PROVE  /\ e.generation <= generation'[e.step]
               /\ e.generation = generation'[e.step] =>
                    /\ e.watermark = dispatchWatermark'[e.step]
                    /\ state'[e.step] = "DISPATCHED" /\ lifecycle' \in Open
                         => e.epoch = epoch'
    <3>1. e \in dispatches /\ e.step \in Steps
      BY <1>1 DEF Steady, TypeOK
    <3> QED
      BY <1>1, <2>1, <3>1 DEF Steady, RecordsAgree
  <2> QED
    BY <2>2, <2>4, <2>5 DEF RecordsAgree
<1>2. CASE AdvanceEpoch
  <2>1. /\ epoch' = epoch + 1 /\ UNCHANGED <<boundEpoch, recordVars>>
        /\ convergence' = convergence + 1
        /\ watermark' \in {watermark, convergence + 1}
    BY <1>2 DEF AdvanceEpoch, Invalidate, AdvanceWatermark
  <2>2. \/ \A s \in Steps : state'[s] # "DISPATCHED"
        \/ lifecycle \notin Open /\ UNCHANGED <<lifecycle, watermark, state>>
    BY <1>2 DEF AdvanceEpoch, Invalidate, StaleInFlight
  <2>3. boundEpoch' <= epoch' /\ watermark' <= convergence' /\ watermark' >= watermark
    BY <2>1 DEF RecordsAgree, TypeOK
  <2>4. \A s \in Steps : dispatchWatermark'[s] <= watermark'
    BY <2>1 DEF RecordsAgree, TypeOK, recordVars
  <2>5. \A e \in dispatches : e.step \in Steps
    BY DEF TypeOK
  <2> QED
    BY <2>1, <2>2, <2>3, <2>4, <2>5 DEF RecordsAgree, recordVars
<1>3. ASSUME NEW b \in Boots, NEW s \in Steps, DispatchStep(b, s) PROVE RecordsAgree'
  <2> DEFINE new == [step |-> s, generation |-> generation[s] + 1, boot |-> b,
                     epoch |-> epoch, watermark |-> watermark]
  <2>1. /\ UNCHANGED <<epoch, convergence, boundEpoch, watermark, evidence>>
        /\ boundEpoch = epoch /\ lifecycle \in Open /\ lifecycle' = "EXECUTING"
        /\ dispatches' = dispatches \cup {new}
    BY <1>3, PlanTable
       DEF DispatchStep, PlanCurrent, CurrentUnder, NextGeneration, authorityVars, Open,
           PlanLifecycle, TerminalLifecycle
  <2>2. \A q \in Steps :
          /\ generation'[q] = IF q = s THEN generation[s] + 1 ELSE generation[q]
          /\ dispatchWatermark'[q] = IF q = s THEN watermark ELSE dispatchWatermark[q]
          /\ state'[q] = IF q = s THEN "DISPATCHED" ELSE state[q]
    BY <1>3 DEF DispatchStep, NextGeneration, TypeOK
  <2>3. ASSUME NEW q \in Steps
        PROVE  /\ dispatchWatermark'[q] <= watermark'
               /\ evidence'[q] <= generation'[q]
               /\ state'[q] = "DISPATCHED" =>
                    /\ evidence'[q] < generation'[q]
                    /\ lifecycle' \in Open => boundEpoch' = epoch'
                    /\ lifecycle' = "RETIRED" => dispatchWatermark'[q] < watermark'
    BY <2>1, <2>2 DEF RecordsAgree, TypeOK
  <2>4. ASSUME NEW e \in dispatches
        PROVE  /\ e.generation <= generation'[e.step]
               /\ e.generation = generation'[e.step] =>
                    /\ e.watermark = dispatchWatermark'[e.step]
                    /\ state'[e.step] = "DISPATCHED" => e.epoch = epoch'
    <3>1. e.step \in Steps /\ e.generation \in Nat /\ e.generation <= generation[e.step]
      BY DEF TypeOK, RecordsAgree
    <3>2. CASE e.step = s
      BY <2>2, <3>1, <3>2 DEF TypeOK
    <3>3. CASE e.step # s
      BY <2>1, <2>2, <3>1, <3>3 DEF RecordsAgree
    <3> QED
      BY <3>2, <3>3
  <2>5. /\ new.generation <= generation'[s] /\ new.watermark = dispatchWatermark'[s]
        /\ new.epoch = epoch' /\ new.step = s
    BY <2>1, <2>2 DEF TypeOK
  <2>6. boundEpoch' <= epoch' /\ watermark' <= convergence'
    BY <2>1 DEF RecordsAgree
  <2> HIDE DEF new
  <2> QED
    BY <2>1, <2>3, <2>4, <2>5, <2>6 DEF RecordsAgree
<1> QED
  BY <1>1, <1>2, <1>3, SteadyStep

LEMMA InitRunnable == Init => RunnableBoundToEpoch
BY DEF Init, RunnableBoundToEpoch

LEMMA RunnableStep ==
  ASSUME TypeOK, PlanInvariant, RecordsAgree, RunnableBoundToEpoch, [Next]_vars
  PROVE  RunnableBoundToEpoch'
<1>1. CASE Steady
  BY <1>1 DEF Steady, RunnableBoundToEpoch
<1>2. CASE AdvanceEpoch
  <2>1. CASE lifecycle \in Open
    BY <1>2, <2>1, TakeTable
       DEF AdvanceEpoch, Invalidate, RunnableBoundToEpoch
  <2>2. CASE lifecycle \notin Open
    BY <1>2, <2>2
       DEF AdvanceEpoch, RunnableBoundToEpoch, Open, PlanLifecycle, TerminalLifecycle
  <2> QED
    BY <2>1, <2>2
<1>3. ASSUME NEW b \in Boots, NEW s \in Steps, DispatchStep(b, s)
      PROVE  RunnableBoundToEpoch'
  BY <1>3
     DEF DispatchStep, PlanCurrent, CurrentUnder, authorityVars, RunnableBoundToEpoch
<1> QED
  BY <1>1, <1>2, <1>3, SteadyStep

----------------------------------------------------------------------------
\* Who holds the work in flight

LEMMA InitHeld == Init => InFlightHeldByLiveWorker
BY DEF Init, InFlightHeldByLiveWorker

\* Losing boot b takes every step it holds, so whoever else keeps authority
\* keeps its steps.
LEMMA LoseHeld ==
  ASSUME TypeOK, InFlightHeldByLiveWorker, NEW b \in Boots,
         NEW conv \in Nat \ {0}, StaleStepsOfBoot(b, conv),
         UNCHANGED dispatchBoot,
         \A c \in Boots : c # b /\ WorkerLive(c) => WorkerLive(c)'
  PROVE  InFlightHeldByLiveWorker'
<1> SUFFICES ASSUME NEW s \in Steps, state'[s] = "DISPATCHED"
             PROVE  dispatchBoot[s] \in Boots /\ WorkerLive(dispatchBoot[s])'
  BY DEF InFlightHeldByLiveWorker, WorkerLive
<1>1. state[s] = "DISPATCHED" /\ dispatchBoot[s] # b
  BY LoseEffect
<1>2. dispatchBoot[s] \in Boots /\ WorkerLive(dispatchBoot[s])
  BY <1>1 DEF InFlightHeldByLiveWorker
<1> DEFINE c == dispatchBoot[s]
<1>3. c \in Boots /\ c # b /\ WorkerLive(c)
  BY <1>1, <1>2
<1>4. c' = c
  OBVIOUS
<1> QED
  BY <1>3, <1>4 DEF WorkerLive

\* The actions that do not touch the registry.
LEMMA KeepHeld ==
  ASSUME TypeOK, InFlightHeldByLiveWorker, UNCHANGED <<registered, live, fencedBoots>>,
         \A s \in Steps :
           state'[s] = "DISPATCHED"
             => state[s] = "DISPATCHED" /\ dispatchBoot'[s] = dispatchBoot[s]
  PROVE  InFlightHeldByLiveWorker'
BY DEF InFlightHeldByLiveWorker, WorkerLive

LEMMA HeldStep ==
  ASSUME TypeOK, PlanInvariant, RecordsAgree, InFlightHeldByLiveWorker, [Next]_vars
  PROVE  InFlightHeldByLiveWorker'
<1>1. ASSUME NEW b \in Boots, RegisterWorker(b) PROVE InFlightHeldByLiveWorker'
  <2>1. UNCHANGED <<state, dispatchBoot>>
    BY <1>1 DEF RegisterWorker, recordVars
  <2>2. ASSUME NEW c \in Boots, WorkerLive(c) PROVE WorkerLive(c)'
    BY <1>1, <2>2, WorkerAssumption DEF RegisterWorker, WorkerLive, TypeOK
  <2> QED
    BY <2>1, <2>2 DEF InFlightHeldByLiveWorker, WorkerLive
<1>2. ASSUME NEW b \in Boots, ReviveWorker(b) PROVE InFlightHeldByLiveWorker'
  <2>1. UNCHANGED <<state, dispatchBoot>>
    BY <1>2 DEF ReviveWorker, recordVars
  <2>2. ASSUME NEW c \in Boots, WorkerLive(c) PROVE WorkerLive(c)'
    BY <1>2, <2>2 DEF ReviveWorker, WorkerLive
  <2> QED
    BY <2>1, <2>2 DEF InFlightHeldByLiveWorker, WorkerLive
<1>3. ASSUME NEW b \in Boots, ReincarnateWorker(b) PROVE InFlightHeldByLiveWorker'
  <2> DEFINE previous == registered[PublisherOf[b]]
  <2>1. previous \in Boots
    BY <1>3, WorkerAssumption DEF ReincarnateWorker, TypeOK
  <2>2. StaleStepsOfBoot(previous, convergence + 1) /\ UNCHANGED dispatchBoot
    BY <1>3 DEF ReincarnateWorker, recordVars
  <2>3. ASSUME NEW c \in Boots, c # previous, WorkerLive(c) PROVE WorkerLive(c)'
    BY <1>3, <2>3, WorkerAssumption DEF ReincarnateWorker, WorkerLive, TypeOK
  <2>4. convergence + 1 \in Nat \ {0}
    BY DEF TypeOK
  <2> HIDE DEF previous
  <2> QED
    BY <2>1, <2>2, <2>3, <2>4, LoseHeld
<1>4. ASSUME NEW b \in Boots, LoseSession(b) PROVE InFlightHeldByLiveWorker'
  <2>1. ASSUME NEW c \in Boots, c # b, WorkerLive(c) PROVE WorkerLive(c)'
    BY <1>4, <2>1 DEF LoseSession, WorkerLive
  <2>2. StaleStepsOfBoot(b, convergence) /\ UNCHANGED dispatchBoot
    BY <1>4 DEF LoseSession, recordVars
  <2>3. convergence \in Nat \ {0}
    BY DEF TypeOK
  <2> QED
    BY <2>1, <2>2, <2>3, LoseHeld
<1>5. ASSUME NEW b \in Boots, FenceWorker(b) PROVE InFlightHeldByLiveWorker'
  <2>1. ASSUME NEW c \in Boots, c # b, WorkerLive(c) PROVE WorkerLive(c)'
    BY <1>5, <2>1 DEF FenceWorker, WorkerLive
  <2>2. StaleStepsOfBoot(b, convergence + 1) /\ UNCHANGED dispatchBoot
    BY <1>5 DEF FenceWorker, recordVars
  <2>3. convergence + 1 \in Nat \ {0}
    BY DEF TypeOK
  <2> QED
    BY <2>1, <2>2, <2>3, LoseHeld
<1>6. CASE AdvanceEpoch
  BY <1>6, KeepHeld DEF AdvanceEpoch, Invalidate, StaleInFlight, recordVars
<1>7. ASSUME NEW b \in Boots, NEW s \in Steps, DispatchStep(b, s)
      PROVE  InFlightHeldByLiveWorker'
  <2>1. UNCHANGED <<registered, live, fencedBoots>>
    BY <1>7 DEF DispatchStep, authorityVars
  <2>2. \A q \in Steps :
          /\ state'[q] = IF q = s THEN "DISPATCHED" ELSE state[q]
          /\ dispatchBoot'[q] = IF q = s THEN b ELSE dispatchBoot[q]
    BY <1>7 DEF DispatchStep, TypeOK
  <2>3. WorkerLive(b)
    BY <1>7 DEF DispatchStep
  <2> QED
    BY <2>1, <2>2, <2>3 DEF InFlightHeldByLiveWorker, WorkerLive
<1>8. CASE Restart
  <2>1. lifecycle # "ABSENT" => \A s \in Steps : state'[s] # "DISPATCHED"
    BY <1>8 DEF Restart, RefreshReady, RecoveredStep
  <2>2. lifecycle = "ABSENT" => \A s \in Steps : state'[s] = "PENDING"
    BY <1>8 DEF Restart, PlanInvariant, StepsFollowLifecycle
  <2> QED
    BY <2>1, <2>2 DEF InFlightHeldByLiveWorker
<1>9. ASSUME Steady, UNCHANGED <<registered, live, fencedBoots>>
      PROVE  InFlightHeldByLiveWorker'
  BY <1>9, KeepHeld DEF Steady
<1>10. CASE UpstreamStep
  <2>1. AdvanceEpoch \/ UNCHANGED <<registered, live, fencedBoots>>
    BY <1>10
       DEF UpstreamStep, ChangeUpstream, DefinePolicy, NoteRouteChange,
           RefuseStalePlan, authorityVars
  <2> QED
    BY <1>6, <1>7, <1>9, <2>1, SteadyStep
<1>11. CASE ExecutionStep
  <2>1. \/ UNCHANGED <<registered, live, fencedBoots>>
        \/ \E b \in Boots, s \in Steps : DispatchStep(b, s)
    BY <1>11
       DEF ExecutionStep, CreatePlan, CompleteStep, FailStep, ApplyCompletion,
           ReconcileStep, authorityVars
  <2> QED
    BY <1>6, <1>7, <1>9, <2>1, SteadyStep
<1>12. CASE ControlStep
  <2>1. ASSUME RevalidateOk \/ PausePlan
        PROVE  UNCHANGED <<registered, live, fencedBoots>>
    BY <2>1 DEF RevalidateOk, PausePlan, authorityVars
  <2>2. ASSUME RevalidateFail \/ RevokePlan \/ RetirePlan \/ BeginRollback
        PROVE  UNCHANGED <<registered, live, fencedBoots>>
    BY <2>2 DEF RevalidateFail, RevokePlan, RetirePlan, BeginRollback
  <2>3. ASSUME RollbackPlanCompleted \/ Superseded
        PROVE  UNCHANGED <<registered, live, fencedBoots>>
    BY <2>3 DEF RollbackPlanCompleted, Superseded
  <2>4. UNCHANGED <<registered, live, fencedBoots>>
    BY <1>12, <2>1, <2>2, <2>3 DEF ControlStep
  <2> QED
    BY <1>6, <1>7, <1>9, <2>4, SteadyStep
<1>13. CASE UNCHANGED vars
  BY <1>13, KeepHeld DEF vars, authorityVars, recordVars
<1> QED
  BY <1>1, <1>2, <1>3, <1>4, <1>5, <1>8, <1>10, <1>11, <1>12, <1>13
     DEF Next, RegistryStep

----------------------------------------------------------------------------
\* How a step is settled

\* Nothing is completed, and nothing in doubt is settled.
Unsettled ==
  \A s \in Steps :
    /\ state'[s] = "COMPLETED" => state[s] = "COMPLETED"
    /\ state[s] = "RECONCILIATION_REQUIRED" => state'[s] = "RECONCILIATION_REQUIRED"

\* The evidence that may complete a step in flight.
Fenced(s) ==
  /\ state[s] = "DISPATCHED"
  /\ lifecycle \in Open
  /\ evidence'[s] = generation[s]
  /\ WorkerLive(dispatchBoot[s])
  /\ dispatchWatermark[s] = watermark
  /\ boundEpoch = epoch

LEMMA KeptUnsettled == ASSUME state' = state PROVE Unsettled
BY DEF Unsettled

LEMMA FenceUnsettled ==
  ASSUME state' = StaleInFlight(state) PROVE Unsettled
BY DEF Unsettled, StaleInFlight

LEMMA LoseUnsettled ==
  ASSUME TypeOK, NEW b \in Boots, NEW conv \in Nat \ {0}, StaleStepsOfBoot(b, conv)
  PROVE  Unsettled
BY LoseEffect DEF Unsettled

\* Work that was issued under the plan's watermark is of an open plan.
LEMMA IssuedOpen ==
  ASSUME TypeOK, PlanInvariant, RecordsAgree, NEW s \in Steps,
         state[s] = "DISPATCHED", dispatchWatermark[s] = watermark
  PROVE  lifecycle \in Open
<1>1. lifecycle # "ABSENT" /\ lifecycle # "RETIRED" /\ watermark \in Nat
  BY DEF PlanInvariant, StepsFollowLifecycle, RecordsAgree, TypeOK
<1>2. lifecycle \notin {"COMPLETED", "SUPERSEDED", "REVOKED"}
  BY DEF PlanInvariant, SuspendedPlanHoldsNoWork
<1> QED
  BY <1>1, <1>2 DEF Open, TerminalLifecycle, TypeOK

\* Committing evidence settles the step it is about and no other.
LEMMA CommitSettles ==
  ASSUME TypeOK, NEW s \in Steps, NEW outcome, state[s] = "DISPATCHED", Commit(s, outcome)
  PROVE  \A q \in Steps \ {s} :
           /\ state'[q] = "COMPLETED" => state[q] = "COMPLETED"
           /\ state[q] = "RECONCILIATION_REQUIRED" => state'[q] = "RECONCILIATION_REQUIRED"
<1>1. CASE CommitApplied(s)
  <2> DEFINE committed == RefreshReady([state EXCEPT ![s] = "COMPLETED"])
  <2>1. \A q \in Steps \ {s} :
          /\ committed[q] = "COMPLETED" => state[q] = "COMPLETED"
          /\ state[q] = "RECONCILIATION_REQUIRED"
               => committed[q] = "RECONCILIATION_REQUIRED"
    BY DEF RefreshReady, TypeOK
  <2>2. state' = committed \/ state' = SkipRest(committed)
    BY <1>1 DEF CommitApplied
  <2>3. \A q \in Steps :
          \/ state'[q] = committed[q]
          \/ state'[q] = "SKIPPED" /\ committed[q] # "RECONCILIATION_REQUIRED"
    BY <2>2 DEF SkipRest, Skippable
  <2> HIDE DEF committed
  <2> QED
    BY <2>1, <2>3
<1>2. CASE CommitAmbiguous(s) \/ CommitFailure(s, outcome)
  BY <1>2 DEF CommitAmbiguous, CommitFailure, TypeOK
<1> QED
  BY <1>1, <1>2 DEF Commit

LEMMA CompletionSettles ==
  ASSUME TypeOK, PlanInvariant, RecordsAgree, NEW e \in Evidence, NEW outcome,
         ApplyCompletion(e, outcome), NEW q \in Steps
  PROVE  /\ state[q] # "COMPLETED" /\ state'[q] = "COMPLETED" => Fenced(q)
         /\ state[q] = "RECONCILIATION_REQUIRED" => state'[q] = "RECONCILIATION_REQUIRED"
<1> DEFINE s == e.step
<1>1. /\ s \in Steps /\ state[s] = "DISPATCHED" /\ e.generation = generation[s]
      /\ WorkerLive(dispatchBoot[s]) /\ dispatchWatermark[s] = watermark
  BY DEF ApplyCompletion, EvidenceHolds, Evidence
<1>2. lifecycle \in Open
  BY <1>1, IssuedOpen
<1>3. CASE /\ PlanCurrent /\ Commit(s, outcome)
           /\ evidence' = [evidence EXCEPT ![s] = e.generation]
  <2>1. boundEpoch = epoch
    BY <1>3 DEF PlanCurrent, CurrentUnder
  <2>2. evidence'[s] = generation[s]
    BY <1>1, <1>3 DEF TypeOK
  <2>3. Fenced(s)
    BY <1>1, <1>2, <2>1, <2>2 DEF Fenced
  <2>4. CASE q = s
    BY <1>1, <2>3, <2>4
  <2>5. CASE q # s
    BY <1>1, <1>3, <2>5, CommitSettles
  <2> QED
    BY <2>4, <2>5
<1>4. CASE Invalidate(state, convergence)
  BY <1>4, FenceUnsettled DEF Invalidate, Unsettled
<1> QED
  BY <1>3, <1>4 DEF ApplyCompletion

LEMMA SettledStep ==
  ASSUME TypeOK, PlanInvariant, RecordsAgree, [Next]_vars, NEW q \in Steps
  PROVE  /\ state[q] # "COMPLETED" /\ state'[q] = "COMPLETED"
              => state[q] = "RECONCILIATION_REQUIRED" \/ Fenced(q)
         /\ state[q] = "RECONCILIATION_REQUIRED" /\ state'[q] # state[q]
              => \E applied \in BOOLEAN : ReconcileStep(q, applied)
<1> DEFINE Goal ==
      /\ state[q] # "COMPLETED" /\ state'[q] = "COMPLETED"
           => state[q] = "RECONCILIATION_REQUIRED" \/ Fenced(q)
      /\ state[q] = "RECONCILIATION_REQUIRED" /\ state'[q] # state[q]
           => \E applied \in BOOLEAN : ReconcileStep(q, applied)
<1> SUFFICES Goal
  OBVIOUS
<1>1. Unsettled => Goal
  BY DEF Unsettled
<1>2. ASSUME NEW b \in Boots, RegisterWorker(b) \/ ReviveWorker(b) PROVE Unsettled
  BY <1>2, KeptUnsettled DEF RegisterWorker, ReviveWorker
<1>3. ASSUME NEW b \in Boots, ReincarnateWorker(b) PROVE Unsettled
  <2> DEFINE previous == registered[PublisherOf[b]]
  <2>1. previous \in Boots /\ convergence + 1 \in Nat \ {0}
    BY <1>3, WorkerAssumption DEF ReincarnateWorker, TypeOK
  <2>2. StaleStepsOfBoot(previous, convergence + 1)
    BY <1>3 DEF ReincarnateWorker
  <2> HIDE DEF previous
  <2> QED
    BY <2>1, <2>2, LoseUnsettled
<1>4. ASSUME NEW b \in Boots, LoseSession(b) \/ FenceWorker(b) PROVE Unsettled
  <2>1. convergence \in Nat \ {0} /\ convergence + 1 \in Nat \ {0}
    BY DEF TypeOK
  <2> QED
    BY <1>4, <2>1, LoseUnsettled DEF LoseSession, FenceWorker
<1>5. CASE UpstreamStep
  <2>1. state' = state \/ state' = StaleInFlight(state)
    BY <1>5
       DEF UpstreamStep, AdvanceEpoch, ChangeUpstream, DefinePolicy, NoteRouteChange,
           RefuseStalePlan, Invalidate, Supersede
  <2> QED
    BY <1>1, <2>1, KeptUnsettled, FenceUnsettled
<1>6. CASE CreatePlan
  BY <1>1, <1>6 DEF CreatePlan, RefreshReady, Unsettled, TypeOK
<1>7. ASSUME NEW b \in Boots, NEW s \in Steps, DispatchStep(b, s) PROVE Unsettled
  BY <1>7 DEF DispatchStep, Unsettled, TypeOK
<1>8. ASSUME NEW e \in dispatches, NEW outcome \in Outcomes, CompleteStep(e, outcome)
      PROVE  Goal
  <2>1. e \in Evidence /\ ApplyCompletion(e, outcome)
    BY <1>8 DEF CompleteStep, Evidence, TypeOK
  <2> QED
    BY <2>1, CompletionSettles
<1>9. ASSUME NEW b \in Boots, NEW s \in Steps, NEW outcome \in Outcomes,
             FailStep(b, s, outcome)
      PROVE  Goal
  <2> DEFINE e == [step |-> s, generation |-> generation[s], boot |-> b,
                   epoch |-> epoch, watermark |-> dispatchWatermark[s]]
  <2>1. e \in Evidence /\ ApplyCompletion(e, outcome)
    BY <1>9 DEF FailStep, Evidence, TypeOK
  <2> HIDE DEF e
  <2> QED
    BY <2>1, CompletionSettles
<1>10. ASSUME NEW s \in Steps, NEW applied \in BOOLEAN, ReconcileStep(s, applied)
       PROVE  Goal
  <2>1. q # s => /\ state'[q] = "COMPLETED" => state[q] = "COMPLETED"
                 /\ state[q] = "RECONCILIATION_REQUIRED" => state'[q] = state[q]
    BY <1>10 DEF ReconcileStep, RefreshReady, TypeOK
  <2>2. state[s] = "RECONCILIATION_REQUIRED"
    BY <1>10 DEF ReconcileStep
  <2>3. q = s => \E a \in BOOLEAN : ReconcileStep(q, a)
    BY <1>10
  <2> QED
    BY <2>1, <2>2, <2>3
<1>11. CASE RevalidateOk
  BY <1>1, <1>11 DEF RevalidateOk, RefreshReady, Rearm, Unsettled
<1>12. CASE RevalidateFail \/ PausePlan \/ RevokePlan
  BY <1>1, <1>12, KeptUnsettled, FenceUnsettled
     DEF RevalidateFail, PausePlan, RevokePlan, Supersede
<1>13. CASE RetirePlan
  BY <1>1, <1>13 DEF RetirePlan, Retirable, Unsettled
<1>14. CASE BeginRollback \/ RollbackPlanCompleted \/ Superseded
  BY <1>1, <1>14, KeptUnsettled, FenceUnsettled
     DEF BeginRollback, RollbackPlanCompleted, Superseded, Supersede
<1>15. CASE Restart
  <2>1. CASE lifecycle = "ABSENT"
    BY <1>1, <1>15, <2>1, KeptUnsettled DEF Restart
  <2>2. CASE lifecycle # "ABSENT"
    BY <1>1, <1>15, <2>2 DEF Restart, RefreshReady, RecoveredStep, Unsettled
  <2> QED
    BY <2>1, <2>2
<1>16. CASE UNCHANGED vars
  BY <1>1, <1>16, KeptUnsettled DEF vars
<1> HIDE DEF Goal
<1> QED
  BY <1>1, <1>2, <1>3, <1>4, <1>5, <1>6, <1>7, <1>8, <1>9, <1>10, <1>11, <1>12, <1>13,
     <1>14, <1>15, <1>16
     DEF Next, RegistryStep, ExecutionStep, ControlStep

----------------------------------------------------------------------------
\* A running plan has no stale steps

LEMMA InitFresh == Init => RunningPlanIsFresh
BY DEF Init, RunningPlanIsFresh

\* Work in flight goes stale only as the plan stops running.
LEMMA StoppedFresh ==
  ASSUME lifecycle' \notin {"READY", "EXECUTING"}
  PROVE  RunningPlanIsFresh'
BY DEF RunningPlanIsFresh

LEMMA InvalidateFresh ==
  ASSUME NEW st, NEW conv, Invalidate(st, conv)
  PROVE  RunningPlanIsFresh'
BY TakeTable, StoppedFresh DEF Invalidate

\* A plan is not stopped by the loss of a boot that holds none of its steps.
LEMMA LoseFresh ==
  ASSUME TypeOK, RunningPlanIsFresh, NEW b \in Boots, NEW conv, StaleStepsOfBoot(b, conv)
  PROVE  RunningPlanIsFresh'
<1>1. CASE lifecycle \in TerminalLifecycle
  BY <1>1, StoppedFresh DEF StaleStepsOfBoot, TerminalLifecycle
<1>2. CASE InFlightOf(b) = {} /\ lifecycle \notin TerminalLifecycle
  BY <1>2 DEF StaleStepsOfBoot, RunningPlanIsFresh, TypeOK
<1>3. CASE InFlightOf(b) # {} /\ lifecycle \notin TerminalLifecycle
  BY <1>3, InvalidateFresh DEF StaleStepsOfBoot
<1> QED
  BY <1>1, <1>2, <1>3

\* No evidence makes a step stale: a backend that reports STALE has failed.
LEMMA CommitFresh ==
  ASSUME TypeOK, RunningPlanIsFresh, NEW s \in Steps, NEW outcome, Commit(s, outcome)
  PROVE  RunningPlanIsFresh'
<1>1. CASE CommitApplied(s)
  <2> DEFINE committed == RefreshReady([state EXCEPT ![s] = "COMPLETED"])
  <2>1. \A q \in Steps : committed[q] = "STALE" => state[q] = "STALE"
    BY DEF RefreshReady, TypeOK
  <2>2. \/ lifecycle' = "COMPLETED"
        \/ state' = committed /\ lifecycle' = lifecycle
    BY <1>1 DEF CommitApplied
  <2> HIDE DEF committed
  <2> QED
    BY <2>1, <2>2 DEF RunningPlanIsFresh
<1>2. CASE CommitAmbiguous(s)
  BY <1>2, TakeTable DEF CommitAmbiguous, RunningPlanIsFresh, TypeOK
<1>3. CASE CommitFailure(s, outcome)
  BY <1>3, PlanTable DEF CommitFailure, AfterStepFailed, RunningPlanIsFresh, TypeOK
<1> QED
  BY <1>1, <1>2, <1>3 DEF Commit

LEMMA FreshStep ==
  ASSUME TypeOK, PlanInvariant, RunningPlanIsFresh, [Next]_vars
  PROVE  RunningPlanIsFresh'
<1>1. CASE UNCHANGED <<lifecycle, state>>
  BY <1>1 DEF RunningPlanIsFresh
<1>2. ASSUME NEW b \in Boots, RegisterWorker(b) \/ ReviveWorker(b)
      PROVE RunningPlanIsFresh'
  BY <1>1, <1>2 DEF RegisterWorker, ReviveWorker, planVars
<1>3. ASSUME NEW b \in Boots, ReincarnateWorker(b) PROVE RunningPlanIsFresh'
  <2>1. registered[PublisherOf[b]] \in Boots
    BY <1>3, WorkerAssumption DEF ReincarnateWorker, TypeOK
  <2> QED
    BY <1>3, <2>1, LoseFresh DEF ReincarnateWorker
<1>4. ASSUME NEW b \in Boots, LoseSession(b) \/ FenceWorker(b)
      PROVE RunningPlanIsFresh'
  BY <1>4, LoseFresh DEF LoseSession, FenceWorker
<1>5. CASE AdvanceEpoch
  BY <1>1, <1>5, InvalidateFresh DEF AdvanceEpoch
<1>6. CASE ChangeUpstream \/ DefinePolicy
  BY <1>1, <1>6 DEF ChangeUpstream, DefinePolicy, planVars
<1>7. CASE NoteRouteChange \/ RefuseStalePlan \/ Superseded
  BY <1>7, InvalidateFresh, StoppedFresh
     DEF NoteRouteChange, RefuseStalePlan, Superseded, Supersede
<1>8. CASE CreatePlan
  BY <1>8 DEF CreatePlan, RefreshReady, RunningPlanIsFresh, PlanInvariant,
              StepsFollowLifecycle
<1>9. ASSUME NEW b \in Boots, NEW s \in Steps, DispatchStep(b, s)
      PROVE RunningPlanIsFresh'
  BY <1>9, PlanTable DEF DispatchStep, RunningPlanIsFresh, TypeOK
<1>10. ASSUME NEW e \in Evidence, NEW outcome, ApplyCompletion(e, outcome)
       PROVE RunningPlanIsFresh'
  BY <1>10, CommitFresh, InvalidateFresh DEF ApplyCompletion, Evidence
<1>11. ASSUME NEW e \in dispatches, NEW outcome \in Outcomes, CompleteStep(e, outcome)
       PROVE RunningPlanIsFresh'
  BY <1>10, <1>11 DEF CompleteStep, Evidence, TypeOK
<1>12. ASSUME NEW b \in Boots, NEW s \in Steps, NEW outcome \in Outcomes,
              FailStep(b, s, outcome)
       PROVE RunningPlanIsFresh'
  <2> DEFINE e == [step |-> s, generation |-> generation[s], boot |-> b,
                   epoch |-> epoch, watermark |-> dispatchWatermark[s]]
  <2>1. e \in Evidence /\ ApplyCompletion(e, outcome)
    BY <1>12 DEF FailStep, Evidence, TypeOK
  <2> QED
    BY <1>10, <2>1
<1>13. ASSUME NEW s \in Steps, NEW applied \in BOOLEAN, ReconcileStep(s, applied)
       PROVE RunningPlanIsFresh'
  BY <1>13 DEF ReconcileStep, RefreshReady, RunningPlanIsFresh, TypeOK, planVars
<1>14. CASE RevalidateOk
  <2>1. CASE lifecycle \in PlanFrom.REVALIDATE_OK
    BY <1>14, <2>1 DEF RevalidateOk, RefreshReady, Rearm, RunningPlanIsFresh, TypeOK
  <2>2. CASE lifecycle \notin PlanFrom.REVALIDATE_OK
    BY <1>1, <1>14, <2>2 DEF RevalidateOk, Take
  <2> QED
    BY <2>1, <2>2
<1>15. CASE RevalidateFail
  BY <1>1, <1>15, StoppedFresh DEF RevalidateFail, Supersede
<1>16. CASE PausePlan \/ RevokePlan \/ RetirePlan \/ RollbackPlanCompleted
  BY <1>16, StoppedFresh DEF PausePlan, RevokePlan, RetirePlan, RollbackPlanCompleted
<1>17. CASE BeginRollback
  BY <1>17, PlanTable, StoppedFresh DEF BeginRollback
<1>18. CASE Restart
  <2>1. lifecycle' = lifecycle \/ lifecycle' = "REVALIDATION_REQUIRED"
           \/ lifecycle' = "VALIDATING"
    BY <1>18 DEF Restart, RecoveredPlan
  <2>2. lifecycle \notin {"READY", "EXECUTING"} => lifecycle' \notin {"READY", "EXECUTING"}
    BY <2>1
  <2>3. lifecycle \in {"READY", "EXECUTING"} => lifecycle' = "REVALIDATION_REQUIRED"
    BY <1>18 DEF Restart, RecoveredPlan
  <2> QED
    BY <2>2, <2>3, StoppedFresh
<1>19. CASE UNCHANGED vars
  BY <1>1, <1>19 DEF vars, planVars
<1> QED
  BY <1>2, <1>3, <1>4, <1>5, <1>6, <1>7, <1>8, <1>9, <1>11, <1>12, <1>13, <1>14,
     <1>15, <1>16, <1>17, <1>18, <1>19
     DEF Next, RegistryStep, UpstreamStep, ExecutionStep, ControlStep

----------------------------------------------------------------------------
\* The invariants of PlanExecution

LEMMA InitInductive == Init => InductiveInvariant
BY InitType, InitPlan, InitFresh, InitRecords, InitHeld, InitRunnable
   DEF InductiveInvariant, PlanInvariant

LEMMA InductiveStep == InductiveInvariant /\ [Next]_vars => InductiveInvariant'
<1> SUFFICES ASSUME InductiveInvariant, [Next]_vars PROVE InductiveInvariant'
  OBVIOUS
<1>1. /\ TypeOK /\ PlanInvariant /\ RunningPlanIsFresh /\ RecordsAgree
      /\ InFlightHeldByLiveWorker /\ RunnableBoundToEpoch
  BY DEF InductiveInvariant, PlanInvariant
<1>2. /\ TypeOK' /\ PlanInvariant' /\ RunningPlanIsFresh' /\ RecordsAgree'
      /\ InFlightHeldByLiveWorker' /\ RunnableBoundToEpoch'
  BY <1>1, TypeStep, PlanStep, FreshStep, RecordsStep, HeldStep, RunnableStep
<1> QED
  BY <1>2 DEF InductiveInvariant, PlanInvariant

\* The conjunction that is preserved by every step holds in every state: types,
\* step order, what a lifecycle allows, who holds work, and the records that
\* the evidence check of apply_completion compares.
THEOREM Inductive == Spec => []InductiveInvariant
<1>1. Init => InductiveInvariant
  BY InitInductive
<1>2. InductiveInvariant /\ [Next]_vars => InductiveInvariant'
  BY InductiveStep
<1> QED
  BY <1>1, <1>2, PTL DEF Spec

\* No step is worked on ahead of its prerequisites, for every acyclic plan
\* (refresh_ready_steps, and every path that invalidates or re-arms).
THEOREM OrderSafe == Spec => []PrerequisitesSatisfied
<1>1. InductiveInvariant => PrerequisitesSatisfied
  BY DEF InductiveInvariant
<1> QED
  BY <1>1, Inductive, PTL

\* No step that could be ready is left pending (refresh_ready_steps is called
\* by every mutation that releases a step).
THEOREM NothingForgotten == Spec => []NoForgottenStep
<1>1. InductiveInvariant => NoForgottenStep
  BY DEF InductiveInvariant
<1> QED
  BY <1>1, Inductive, PTL

\* Steps that only wait for each other cannot be all that is left of a running
\* plan, apart from what was given up: one of them has its prerequisites, so it is
\* not pending, and the plan runs, so it is not stale.
LEMMA InductiveCanMove == InductiveInvariant => PlanCanMove
<1> SUFFICES ASSUME InductiveInvariant, lifecycle \in {"READY", "EXECUTING"},
                    NEW S \in SUBSET {s \in Steps :
                                         state[s] \notin SatisfiedState \cup {"FAILED"}},
                    S # {}, \A s \in S : Satisfied(state, DependsOn[s] \ S)
             PROVE  \E s \in S :
                      /\ Satisfied(state, DependsOn[s])
                      /\ state[s] \in {"READY", "DISPATCHED", "RECONCILIATION_REQUIRED"}
  BY DEF PlanCanMove
<1>1. PICK s \in S : DependsOn[s] \cap S = {}
  BY GraphAssumption
<1>2. Satisfied(state, DependsOn[s])
  BY <1>1 DEF Satisfied
<1>3. state[s] \notin {"PENDING", "STALE"}
  BY <1>2 DEF InductiveInvariant, NoForgottenStep, RunningPlanIsFresh
<1>4. state[s] \notin {"RETIRED", "ROLLBACK_PENDING", "ROLLED_BACK"}
  BY DEF InductiveInvariant, StepsFollowLifecycle
<1>5. state[s] \in StepLifecycle \ {"COMPLETED", "SKIPPED", "FAILED"}
  BY DEF InductiveInvariant, TypeOK, SatisfiedState
<1> QED
  BY <1>2, <1>3, <1>4, <1>5 DEF StepLifecycle

\* In a running plan every part of what is left that waits for no given-up step
\* has a step that is ready, in doubt or in flight (refresh_ready_steps,
\* revalidate_plan, validate_graph).
THEOREM NothingWaitsForItself == Spec => []PlanCanMove
BY InductiveCanMove, Inductive, PTL

\* Whatever is in flight is held by a live boot that is not fenced
\* (stale_in_flight_steps_of_boot, register_worker, fence_worker).
THEOREM WorkIsHeld == Spec => []InFlightHeldByLiveWorker
<1>1. InductiveInvariant => InFlightHeldByLiveWorker
  BY DEF InductiveInvariant
<1> QED
  BY <1>1, Inductive, PTL

\* A plan that is suspended or over has nothing in flight (invalidate_plan,
\* supersede_entry, revoke_plan, begin_rollback).
THEOREM SuspensionFences == Spec => []SuspendedPlanHoldsNoWork
<1>1. InductiveInvariant => SuspendedPlanHoldsNoWork
  BY DEF InductiveInvariant
<1> QED
  BY <1>1, Inductive, PTL

\* A plan completes only when its mandatory steps are completed and nothing
\* blocks (apply_completion, mandatory_steps_complete, plan_has_blocking_step).
THEOREM CompletionIsEarned == Spec => []CompletedPlanIsComplete
<1>1. InductiveInvariant => CompletedPlanIsComplete
  BY DEF InductiveInvariant
<1> QED
  BY <1>1, Inductive, PTL

\* A plan that may run is bound to the epoch the governor is in (apply_epoch,
\* revalidate_plan).
THEOREM EpochBinding == Spec => []RunnableBoundToEpoch
<1>1. InductiveInvariant => RunnableBoundToEpoch
  BY DEF InductiveInvariant
<1> QED
  BY <1>1, Inductive, PTL

\* The watermark alone refuses what an older epoch dispatched: evidence of a
\* step in flight, of its current generation and under the plan's watermark,
\* is of the current epoch (apply_completion, apply_epoch).
THEOREM WatermarkSuffices == Spec => []CommittableIsCurrent
<1>1. InductiveInvariant => CommittableIsCurrent
  <2> SUFFICES ASSUME InductiveInvariant, NEW e \in dispatches,
                      state[e.step] = "DISPATCHED",
                      e.generation = generation[e.step],
                      e.watermark = watermark
               PROVE  e.epoch = epoch /\ boundEpoch = epoch
    BY DEF CommittableIsCurrent
  <2>1. TypeOK /\ PlanInvariant /\ RecordsAgree /\ e.step \in Steps
    BY DEF InductiveInvariant, PlanInvariant, TypeOK
  <2>2. e.watermark = dispatchWatermark[e.step]
    BY <2>1 DEF RecordsAgree
  <2>3. lifecycle \in Open
    BY <2>1, <2>2, IssuedOpen
  <2> QED
    BY <2>1, <2>3 DEF RecordsAgree
<1> QED
  BY <1>1, Inductive, PTL

----------------------------------------------------------------------------
\* The action properties of PlanExecution

\* What every step of the specification is, in a state it reaches.
LEMMA ReachedStep ==
  InductiveInvariant /\ [Next]_vars =>
    /\ TypeOK /\ TypeOK' /\ PlanInvariant /\ RecordsAgree
    /\ \/ Steady
       \/ AdvanceEpoch
       \/ \E b \in Boots, s \in Steps : DispatchStep(b, s)
<1> SUFFICES ASSUME InductiveInvariant, [Next]_vars
             PROVE  /\ TypeOK /\ TypeOK' /\ PlanInvariant /\ RecordsAgree
                    /\ \/ Steady
                       \/ AdvanceEpoch
                       \/ \E b \in Boots, s \in Steps : DispatchStep(b, s)
  OBVIOUS
<1>1. TypeOK /\ PlanInvariant /\ RecordsAgree
  BY DEF InductiveInvariant, PlanInvariant
<1>2. TypeOK'
  BY <1>1, TypeStep
<1> QED
  BY <1>1, <1>2, SteadyStep

\* An advance of the epoch, step by step.
LEMMA EpochEffect ==
  ASSUME TypeOK, AdvanceEpoch
  PROVE  /\ epoch' >= epoch /\ UNCHANGED <<boundEpoch, generation, evidence>>
         /\ convergence' = convergence + 1
         /\ watermark' \in {watermark, convergence + 1}
         /\ lifecycle \in Open => watermark' = convergence + 1
         /\ lifecycle \notin Open => lifecycle' = lifecycle
         /\ \A s \in Steps :
              \/ state'[s] = state[s]
              \/ state[s] = "DISPATCHED" /\ state'[s] = "STALE"
<1>1. epoch' >= epoch
  BY DEF AdvanceEpoch, TypeOK
<1>2. CASE lifecycle \in Open
  BY <1>1, <1>2 DEF AdvanceEpoch, Invalidate, AdvanceWatermark, StaleInFlight, recordVars
<1>3. CASE lifecycle \notin Open
  BY <1>1, <1>3 DEF AdvanceEpoch, recordVars
<1> QED
  BY <1>2, <1>3

\* A step completes only by fenced evidence or by settling a doubt
\* (apply_completion, reconcile_step).
THEOREM Fencing == Spec => CommitIsFenced
<1> DEFINE A == \A s \in Steps :
       state[s] # "COMPLETED" /\ state'[s] = "COMPLETED" =>
         \/ state[s] = "RECONCILIATION_REQUIRED"
         \/ /\ state[s] = "DISPATCHED"
            /\ lifecycle \in Open
            /\ evidence'[s] = generation[s]
            /\ WorkerLive(dispatchBoot[s])
            /\ dispatchWatermark[s] = watermark
            /\ boundEpoch = epoch
<1>1. InductiveInvariant /\ [Next]_vars => A
  BY ReachedStep, SettledStep DEF Fenced
<1> HIDE DEF A
<1>2. InductiveInvariant /\ [Next]_vars => [A]_vars
  BY <1>1
<1>3. Spec => [][A]_vars
  BY <1>2, Inductive, PTL DEF Spec
<1> QED
  BY <1>3 DEF A, CommitIsFenced

\* A step in doubt leaves that state only by a reconciliation of its own:
\* neither recovery nor revalidation nor retirement decides for it.
THEOREM DoubtIsKept == Spec => DoubtOnlyReconciled
<1> DEFINE A == \A s \in Steps :
       state[s] = "RECONCILIATION_REQUIRED" /\ state'[s] # state[s] =>
         \E applied \in BOOLEAN : ReconcileStep(s, applied)
<1>1. InductiveInvariant /\ [Next]_vars => A
  BY ReachedStep, SettledStep
<1> HIDE DEF A
<1>2. InductiveInvariant /\ [Next]_vars => [A]_vars
  BY <1>1
<1>3. Spec => [][A]_vars
  BY <1>2, Inductive, PTL DEF Spec
<1> QED
  BY <1>3 DEF A, DoubtOnlyReconciled

\* What is completed stays so until the plan is retired.
THEOREM CompletedIsKept == Spec => CompletionIsKept
<1> DEFINE A == \A s \in Steps :
       state[s] = "COMPLETED" =>
         \/ state'[s] = "COMPLETED"
         \/ state'[s] = "RETIRED" /\ lifecycle' = "RETIRED"
<1>1. Steady => A
  BY DEF Steady
<1>2. TypeOK /\ AdvanceEpoch => A
  BY EpochEffect
<1>3. ASSUME TypeOK, NEW b \in Boots, NEW s \in Steps, DispatchStep(b, s) PROVE A
  BY <1>3 DEF DispatchStep, TypeOK
<1> HIDE DEF A
<1>4. InductiveInvariant /\ [Next]_vars => [A]_vars
  BY <1>1, <1>2, <1>3, ReachedStep
<1>5. Spec => [][A]_vars
  BY <1>4, Inductive, PTL DEF Spec
<1> QED
  BY <1>5 DEF A, CompletionIsKept

\* A step that failed is not touched by what takes work, gives it back or
\* completes another step.
LEMMA FailedStays ==
  ASSUME TypeOK, [Next]_vars
  PROVE  \A s \in Steps :
           state[s] = "FAILED" => state'[s] \in {"FAILED", "SKIPPED", "RETIRED"}
<1> DEFINE A == \A s \in Steps :
       state[s] = "FAILED" => state'[s] \in {"FAILED", "SKIPPED", "RETIRED"}
<1>1. CASE UNCHANGED state
  BY <1>1
<1>2. ASSUME NEW st, NEW conv, Invalidate(st, conv),
             \A s \in Steps : state[s] = "FAILED" => st[s] = "FAILED"
      PROVE A
  BY <1>2 DEF Invalidate, StaleInFlight, AdvanceWatermark
<1>3. ASSUME NEW b \in Boots, NEW conv, StaleStepsOfBoot(b, conv) PROVE A
  BY <1>2, <1>3 DEF StaleStepsOfBoot, InFlightOf
<1>4. CASE RegistryStep
  BY <1>1, <1>3, <1>4, WorkerAssumption
     DEF RegistryStep, RegisterWorker, ReviveWorker, ReincarnateWorker, LoseSession,
         FenceWorker, TypeOK
<1>5. CASE UpstreamStep
  BY <1>1, <1>2, <1>5
     DEF UpstreamStep, AdvanceEpoch, ChangeUpstream, DefinePolicy, NoteRouteChange,
         RefuseStalePlan, Supersede, StaleInFlight
<1>6. ASSUME NEW e, e.step \in Steps, NEW outcome, ApplyCompletion(e, outcome) PROVE A
  <2>1. state[e.step] = "DISPATCHED"
    BY <1>6 DEF ApplyCompletion, EvidenceHolds
  <2>2. CASE Commit(e.step, outcome)
    <3>1. CASE CommitApplied(e.step)
      BY <2>1, <3>1 DEF CommitApplied, RefreshReady, SkipRest, Skippable, TypeOK
    <3>2. CASE CommitAmbiguous(e.step)
      BY <2>1, <3>2 DEF CommitAmbiguous, TypeOK
    <3>3. CASE CommitFailure(e.step, outcome)
      BY <2>1, <3>3 DEF CommitFailure, TypeOK
    <3> QED
      BY <2>2, <3>1, <3>2, <3>3 DEF Commit
  <2> QED
    BY <1>2, <1>6, <2>2 DEF ApplyCompletion
<1>7. CASE ExecutionStep
  <2>1. ASSUME NEW b \in Boots, NEW s \in Steps, DispatchStep(b, s) PROVE A
    BY <2>1 DEF DispatchStep, TypeOK
  <2>2. ASSUME NEW e \in dispatches, NEW outcome \in Outcomes, CompleteStep(e, outcome)
        PROVE A
    BY <1>6, <2>2 DEF CompleteStep, TypeOK
  <2>3. ASSUME NEW b \in Boots, NEW s \in Steps, NEW outcome \in Outcomes,
               FailStep(b, s, outcome)
        PROVE A
    BY <1>6, <2>3 DEF FailStep
  <2>4. ASSUME NEW s \in Steps, NEW applied \in BOOLEAN, ReconcileStep(s, applied)
        PROVE A
    BY <2>4 DEF ReconcileStep, RefreshReady, TypeOK
  <2>5. CASE CreatePlan
    BY <2>5 DEF CreatePlan, RefreshReady, TypeOK
  <2> QED
    BY <1>7, <2>1, <2>2, <2>3, <2>4, <2>5 DEF ExecutionStep
<1>8. CASE ControlStep
  BY <1>8
     DEF ControlStep, RevalidateOk, RefreshReady, Rearm, RevalidateFail, Supersede,
         PausePlan, RevokePlan, RetirePlan, Retirable, BeginRollback,
         RollbackPlanCompleted, Superseded, StaleInFlight, TypeOK
<1>9. CASE Restart
  BY <1>9 DEF Restart, RecoveredStep, RefreshReady, TypeOK
<1>10. CASE UNCHANGED vars
  BY <1>1, <1>10 DEF vars
<1> QED
  BY <1>4, <1>5, <1>7, <1>8, <1>9, <1>10 DEF Next

\* What was given up stays so until completion or retirement: a refused retry is
\* refused for good (apply_completion, revalidate_plan, decode_state).
THEOREM RefusedRetryIsFinal == Spec => GivenUpIsFinal
<1> DEFINE A == \A s \in Steps :
       state[s] = "FAILED" => state'[s] \in {"FAILED", "SKIPPED", "RETIRED"}
<1>1. InductiveInvariant /\ [Next]_vars => A
  BY FailedStays DEF InductiveInvariant
<1> HIDE DEF A
<1>2. InductiveInvariant /\ [Next]_vars => [A]_vars
  BY <1>1
<1>3. Spec => [][A]_vars
  BY <1>2, Inductive, PTL DEF Spec
<1> QED
  BY <1>3 DEF A, GivenUpIsFinal

\* Only retirement leaves a terminal lifecycle.
THEOREM TerminalIsKept == Spec => TerminalIsFinal
<1> DEFINE A == lifecycle' \in {lifecycle, "RETIRED"} \/ lifecycle \notin TerminalLifecycle
<1>1. Steady => A
  BY DEF Steady
<1>2. TypeOK /\ AdvanceEpoch => A
  BY EpochEffect DEF Open
<1>3. ASSUME NEW b \in Boots, NEW s \in Steps, DispatchStep(b, s) PROVE A
  BY <1>3, PlanTable DEF DispatchStep, TerminalLifecycle
<1> HIDE DEF A
<1>4. InductiveInvariant /\ [Next]_vars => [A]_vars
  BY <1>1, <1>2, <1>3, ReachedStep
<1>5. Spec => [][A]_vars
  BY <1>4, Inductive, PTL DEF Spec
<1> QED
  BY <1>5 DEF A, TerminalIsFinal

\* Epochs, convergence generations, watermarks and step generations never
\* decrease, and new work is of a new generation (dispatch_step, restart).
THEOREM Monotonicity == Spec => GenerationsNeverDecrease
<1> DEFINE A ==
      /\ epoch' >= epoch
      /\ boundEpoch' >= boundEpoch
      /\ convergence' >= convergence
      /\ watermark' >= watermark
      /\ \A s \in Steps :
           /\ generation'[s] >= generation[s]
           /\ evidence'[s] >= evidence[s]
           /\ state'[s] = "DISPATCHED" /\ state[s] # "DISPATCHED"
                => generation'[s] > generation[s]
<1>1. TypeOK /\ RecordsAgree /\ Steady => A
  BY DEF Steady, TypeOK, RecordsAgree
<1>2. TypeOK /\ RecordsAgree /\ AdvanceEpoch => A
  BY EpochEffect DEF TypeOK, RecordsAgree
<1>3. ASSUME TypeOK, NEW b \in Boots, NEW s \in Steps, DispatchStep(b, s) PROVE A
  <2>1. /\ UNCHANGED <<epoch, convergence, boundEpoch, watermark, evidence>>
        /\ \A q \in Steps :
             /\ generation'[q] = IF q = s THEN generation[q] + 1 ELSE generation[q]
             /\ state'[q] = IF q = s THEN "DISPATCHED" ELSE state[q]
    BY <1>3 DEF DispatchStep, NextGeneration, authorityVars, TypeOK
  <2> QED
    BY <1>3, <2>1 DEF TypeOK
<1> HIDE DEF A
<1>4. InductiveInvariant /\ [Next]_vars => [A]_vars
  BY <1>1, <1>2, <1>3, ReachedStep
<1>5. Spec => [][A]_vars
  BY <1>4, Inductive, PTL DEF Spec
<1> QED
  BY <1>5 DEF A, GenerationsNeverDecrease

\* Taking work in flight from an open plan moves the plan's watermark past the
\* one the work was issued under (invalidate_plan and its callers, decode_state).
THEOREM FencingAdvances == Spec => FencingAdvancesWatermark
<1> DEFINE A == \A s \in Steps :
       (/\ lifecycle \in Open
        /\ state[s] = "DISPATCHED"
        /\ state'[s] \in {"STALE", "RECONCILIATION_REQUIRED"}
        /\ evidence'[s] = evidence[s])
         => watermark' > dispatchWatermark[s]
<1>1. TypeOK /\ TypeOK' /\ RecordsAgree /\ Steady => A
  BY DEF Steady, TypeOK, RecordsAgree
<1>2. TypeOK /\ RecordsAgree /\ AdvanceEpoch => A
  BY EpochEffect DEF TypeOK, RecordsAgree
<1>3. ASSUME TypeOK, NEW b \in Boots, NEW s \in Steps, DispatchStep(b, s) PROVE A
  BY <1>3 DEF DispatchStep, TypeOK
<1> HIDE DEF A
<1>4. InductiveInvariant /\ [Next]_vars => [A]_vars
  BY <1>1, <1>2, <1>3, ReachedStep
<1>5. Spec => [][A]_vars
  BY <1>4, Inductive, PTL DEF Spec
<1> QED
  BY <1>5 DEF A, FencingAdvancesWatermark

(***************************************************************************)
(* PlanExecution implements OrderedCommit, for every plan, every set of    *)
(* workers and every bound: each mutation of the governor is one step of   *)
(* the abstract plan or none.                                              *)
(***************************************************************************)
Working == InState({"DISPATCHED"})
Doubtful == InState({"RECONCILIATION_REQUIRED"})
Established == InState({"COMPLETED"})

\* The abstract step, or none.
Maps == [Promise!Next]_(Promise!vars)

LEMMA StatusValue ==
  ASSUME lifecycle \in PlanLifecycle \cup {"ABSENT"}
  PROVE  /\ lifecycle = "ABSENT" => Status = "absent"
         /\ lifecycle = "COMPLETED" => Status = "converged"
         /\ lifecycle = "RETIRED" => Status = "retired"
         /\ lifecycle \in {"ROLLING_BACK", "SUPERSEDED", "REVOKED"} => Status = "abandoned"
         /\ lifecycle \in Open \ {"ROLLING_BACK"} => Status = "open"
BY DEF Status, Open, PlanLifecycle, TerminalLifecycle

LEMMA StatusValueNext ==
  ASSUME lifecycle' \in PlanLifecycle \cup {"ABSENT"}
  PROVE  /\ lifecycle' = "ABSENT" => Status' = "absent"
         /\ lifecycle' = "COMPLETED" => Status' = "converged"
         /\ lifecycle' = "RETIRED" => Status' = "retired"
         /\ lifecycle' \in {"ROLLING_BACK", "SUPERSEDED", "REVOKED"} => Status' = "abandoned"
         /\ lifecycle' \in Open \ {"ROLLING_BACK"} => Status' = "open"
BY DEF Status, Open, PlanLifecycle, TerminalLifecycle

LEMMA StutterMaps ==
  ASSUME Status' = Status, Working' = Working, Doubtful' = Doubtful,
         Established' = Established
  PROVE  Maps
BY DEF Maps, Promise!vars, Working, Doubtful, Established

LEMMA FenceAbstract ==
  ASSUME Status = "open", Status' \in {"open", "abandoned"}, Working' = {},
         Doubtful' = Doubtful, Established' = Established
  PROVE  Maps
BY DEF Maps, Promise!Next, Promise!Fence, Working, Doubtful, Established

\* A step that is none of working, doubtful and established counts for nothing.
Idle == StepLifecycle \ {"DISPATCHED", "RECONCILIATION_REQUIRED", "COMPLETED"}

\* Nothing but a lifecycle of the same status, and steps that do not count.
LEMMA QuietMaps ==
  ASSUME TypeOK, TypeOK',
         \/ lifecycle' = lifecycle
         \/ lifecycle \in Open \ {"ROLLING_BACK"} /\ lifecycle' \in Open \ {"ROLLING_BACK"}
         \/ /\ lifecycle \in {"ROLLING_BACK", "SUPERSEDED", "REVOKED"}
            /\ lifecycle' \in {"ROLLING_BACK", "SUPERSEDED", "REVOKED"},
         \A s \in Steps :
           \/ state'[s] = state[s]
           \/ lifecycle = "RETIRED"
           \/ state[s] \in Idle /\ state'[s] \in Idle
  PROVE  Maps
<1>1. Status' = Status
  <2>1. lifecycle \in PlanLifecycle \cup {"ABSENT"}
        /\ lifecycle' \in PlanLifecycle \cup {"ABSENT"}
    BY DEF TypeOK
  <2>2. CASE lifecycle' = lifecycle
    BY <2>2 DEF Status
  <2>3. CASE lifecycle \in Open \ {"ROLLING_BACK"} /\ lifecycle' \in Open \ {"ROLLING_BACK"}
    BY <2>1, <2>3, StatusValue, StatusValueNext
  <2>4. CASE /\ lifecycle \in {"ROLLING_BACK", "SUPERSEDED", "REVOKED"}
             /\ lifecycle' \in {"ROLLING_BACK", "SUPERSEDED", "REVOKED"}
    BY <2>1, <2>4, StatusValue, StatusValueNext
  <2> QED
    BY <2>2, <2>3, <2>4
<1>2. lifecycle' = "RETIRED" <=> lifecycle = "RETIRED"
  BY DEF Open, TerminalLifecycle
<1>3. \A s \in Steps :
        \/ state'[s] = state[s]
        \/ lifecycle = "RETIRED"
        \/ /\ state[s] \notin {"DISPATCHED", "RECONCILIATION_REQUIRED", "COMPLETED"}
           /\ state'[s] \notin {"DISPATCHED", "RECONCILIATION_REQUIRED", "COMPLETED"}
  BY DEF Idle
<1>4. Working' = Working /\ Doubtful' = Doubtful /\ Established' = Established
  BY <1>2, <1>3 DEF Working, Doubtful, Established, InState
<1> QED
  BY <1>1, <1>4, StutterMaps

\* A plan that is not retired, and whose status is not open, has no work.
LEMMA ClosedIdle ==
  ASSUME PlanInvariant, TypeOK, NEW s \in Steps, state[s] = "DISPATCHED"
  PROVE  lifecycle = "RETIRED" \/ lifecycle \in Open \ {"ROLLING_BACK"}
BY DEF PlanInvariant, StepsFollowLifecycle, SuspendedPlanHoldsNoWork, TypeOK, Open,
       TerminalLifecycle

\* All work goes stale, and the plan stays in its status or is given up.
LEMMA FenceMaps ==
  ASSUME PlanInvariant, TypeOK, TypeOK', lifecycle # "RETIRED",
         \A s \in Steps : state'[s] = IF state[s] = "DISPATCHED" THEN "STALE" ELSE state[s],
         \/ lifecycle' = lifecycle
         \/ /\ lifecycle \in Open
            /\ lifecycle' \in {"SUPERSEDED", "REVOKED"}
         \/ /\ lifecycle \in Open \ {"ROLLING_BACK"}
            /\ lifecycle' \in Open \cup {"SUPERSEDED"}
  PROVE  Maps
<1>1. lifecycle \in PlanLifecycle \cup {"ABSENT"}
      /\ lifecycle' \in PlanLifecycle \cup {"ABSENT"}
  BY DEF TypeOK
<1>2. CASE lifecycle \in Open \ {"ROLLING_BACK"}
  <2>1. lifecycle' \in (Open \ {"ROLLING_BACK"}) \cup {"ROLLING_BACK", "SUPERSEDED", "REVOKED"}
    BY <1>2
  <2>2. Status = "open" /\ Status' \in {"open", "abandoned"}
    BY <1>1, <1>2, <2>1, StatusValue, StatusValueNext
  <2>3. lifecycle' # "RETIRED"
    BY <2>1 DEF Open, TerminalLifecycle
  <2>4. Working' = {}
    BY <2>3 DEF Working, InState
  <2>5. Doubtful' = Doubtful
    BY <2>3 DEF Doubtful, InState
  <2>6. Established' = Established
    BY <2>3 DEF Established, InState
  <2> QED
    BY <2>2, <2>4, <2>5, <2>6, FenceAbstract
<1>3. CASE lifecycle \notin Open \ {"ROLLING_BACK"}
  <2>1. \A s \in Steps : state'[s] = state[s]
    BY <1>3, ClosedIdle
  <2>2. \/ lifecycle' = lifecycle
        \/ /\ lifecycle \in {"ROLLING_BACK", "SUPERSEDED", "REVOKED"}
           /\ lifecycle' \in {"ROLLING_BACK", "SUPERSEDED", "REVOKED"}
    BY <1>3
  <2> QED
    BY <2>1, <2>2, QuietMaps
<1> QED
  BY <1>2, <1>3

LEMMA InvalidateMaps ==
  ASSUME PlanInvariant, TypeOK, TypeOK', lifecycle # "RETIRED",
         Invalidate(state, convergence)
  PROVE  Maps
<1>1. \A s \in Steps : state'[s] = IF state[s] = "DISPATCHED" THEN "STALE" ELSE state[s]
  BY DEF Invalidate, StaleInFlight
<1>2. \/ lifecycle' = lifecycle
      \/ lifecycle \in Open \ {"ROLLING_BACK"} /\ lifecycle' \in Open
  BY TakeTable DEF Invalidate, Open, PlanLifecycle, TerminalLifecycle
<1> QED
  BY <1>1, <1>2, FenceMaps

LEMMA SupersedeMaps ==
  ASSUME PlanInvariant, TypeOK, TypeOK', Supersede
  PROVE  Maps
<1>1. \A s \in Steps : state'[s] = IF state[s] = "DISPATCHED" THEN "STALE" ELSE state[s]
  BY DEF Supersede, StaleInFlight
<1>2. lifecycle \in Open /\ lifecycle' = "SUPERSEDED"
  BY PlanTable DEF Supersede
<1>3. lifecycle # "RETIRED"
  BY <1>2 DEF Open, TerminalLifecycle
<1> QED
  BY <1>1, <1>2, <1>3, FenceMaps

LEMMA LoseMaps ==
  ASSUME PlanInvariant, TypeOK, TypeOK', NEW b \in Boots, NEW conv \in Nat \ {0},
         StaleStepsOfBoot(b, conv)
  PROVE  Maps
<1>1. CASE lifecycle \in TerminalLifecycle
  <2>1. lifecycle' = lifecycle
    BY <1>1 DEF StaleStepsOfBoot
  <2>2. \A s \in Steps : state[s] # "DISPATCHED" \/ lifecycle = "RETIRED"
    BY <1>1, ClosedIdle DEF Open
  <2>3. \A s \in Steps : state'[s] = state[s] \/ lifecycle = "RETIRED"
    BY <2>2, LoseEffect
  <2> QED
    BY <2>1, <2>3, QuietMaps
<1>2. CASE lifecycle \notin TerminalLifecycle /\ InFlightOf(b) # {}
  <2> DEFINE lost == [s \in Steps |-> IF s \in InFlightOf(b) THEN "STALE" ELSE state[s]]
  <2>1. Invalidate(lost, conv)
    BY <1>2 DEF StaleStepsOfBoot
  <2>2. \A s \in Steps : state'[s] = IF state[s] = "DISPATCHED" THEN "STALE" ELSE state[s]
    BY <2>1 DEF Invalidate, StaleInFlight, InFlightOf
  <2>3. lifecycle # "RETIRED"
    BY <1>2 DEF TerminalLifecycle
  <2>4. \/ lifecycle' = lifecycle
        \/ lifecycle \in Open \ {"ROLLING_BACK"} /\ lifecycle' \in Open
    BY <2>1, TakeTable DEF Invalidate, Open, PlanLifecycle, TerminalLifecycle
  <2> QED
    BY <2>2, <2>3, <2>4, FenceMaps
<1>3. CASE InFlightOf(b) = {}
  <2>1. lifecycle' = lifecycle /\ \A s \in Steps : state'[s] = state[s]
    BY <1>3 DEF StaleStepsOfBoot
  <2> QED
    BY <2>1, QuietMaps
<1> QED
  BY <1>1, <1>2, <1>3

\* A plan that is open, in the terms of the abstract plan.
LEMMA OpenStatus ==
  ASSUME TypeOK, lifecycle \in Open \ {"ROLLING_BACK"}
  PROVE  /\ Status = "open"
         /\ Working = {s \in Steps : state[s] = "DISPATCHED"}
         /\ Doubtful = {s \in Steps : state[s] = "RECONCILIATION_REQUIRED"}
         /\ Established = {s \in Steps : state[s] = "COMPLETED"}
<1>1. Status = "open"
  BY StatusValue DEF TypeOK
<1>2. lifecycle # "RETIRED"
  BY DEF Open, TerminalLifecycle
<1> QED
  BY <1>1, <1>2 DEF Working, Doubtful, Established, InState

LEMMA OpenStatusNext ==
  ASSUME TypeOK', lifecycle' \in Open \ {"ROLLING_BACK"}
  PROVE  /\ Status' = "open"
         /\ Working' = {s \in Steps : state'[s] = "DISPATCHED"}
         /\ Doubtful' = {s \in Steps : state'[s] = "RECONCILIATION_REQUIRED"}
         /\ Established' = {s \in Steps : state'[s] = "COMPLETED"}
<1>1. Status' = "open"
  BY StatusValueNext DEF TypeOK
<1>2. lifecycle' # "RETIRED"
  BY DEF Open, TerminalLifecycle
<1> QED
  BY <1>1, <1>2 DEF Working, Doubtful, Established, InState

LEMMA CreateMaps ==
  ASSUME PlanInvariant, TypeOK, TypeOK', CreatePlan
  PROVE  Maps
<1>1. lifecycle = "ABSENT" /\ lifecycle' = "READY"
  BY DEF CreatePlan
<1>2. \A s \in Steps : state[s] = "PENDING" /\ state'[s] \in {"PENDING", "READY"}
  BY DEF CreatePlan, RefreshReady, PlanInvariant, StepsFollowLifecycle
<1>3. Status = "absent" /\ Status' = "open"
  BY <1>1, StatusValue, StatusValueNext DEF Open, PlanLifecycle, TerminalLifecycle
<1>4. Working' = Working /\ Doubtful' = Doubtful /\ Established' = Established
  BY <1>1, <1>2 DEF Working, Doubtful, Established, InState
<1>5. Promise!Create
  BY <1>3, <1>4 DEF Promise!Create, Working, Doubtful, Established
<1> QED
  BY <1>5 DEF Maps, Promise!Next

LEMMA DispatchMaps ==
  ASSUME PlanInvariant, TypeOK, TypeOK', NEW b \in Boots, NEW s \in Steps,
         DispatchStep(b, s)
  PROVE  Maps
<1>1. /\ lifecycle \in {"READY", "EXECUTING"} /\ lifecycle' = "EXECUTING"
      /\ state[s] = "READY"
      /\ \A q \in Steps : state'[q] = IF q = s THEN "DISPATCHED" ELSE state[q]
  BY PlanTable DEF DispatchStep, TypeOK
<1>2. /\ lifecycle \in Open \ {"ROLLING_BACK"}
      /\ lifecycle' \in Open \ {"ROLLING_BACK"}
  BY <1>1 DEF Open, PlanLifecycle, TerminalLifecycle
<1>3. Status = "open" /\ Status' = "open"
  BY <1>2, OpenStatus, OpenStatusNext
<1>4. Working' = Working \cup {s} /\ Doubtful' = Doubtful /\ Established' = Established
  BY <1>1, <1>2, OpenStatus, OpenStatusNext
<1>5. s \notin Working \cup Doubtful \cup Established
  BY <1>1, <1>2, OpenStatus
<1>6. DependsOn[s] \subseteq Established
  <2>1. Satisfied(state, DependsOn[s]) /\ DependsOn[s] \subseteq Steps
    BY <1>1, GraphAssumption DEF PlanInvariant, PrerequisitesSatisfied
  <2>2. \A d \in Steps : state[d] # "SKIPPED"
    BY <1>1 DEF PlanInvariant, StepsFollowLifecycle
  <2> QED
    BY <1>2, <2>1, <2>2, OpenStatus DEF Satisfied, SatisfiedState
<1>7. Promise!Start(s)
  BY <1>3, <1>4, <1>5, <1>6 DEF Promise!Start, Working, Doubtful, Established
<1> QED
  BY <1>7 DEF Maps, Promise!Next

LEMMA CommitMaps ==
  ASSUME PlanInvariant, TypeOK, TypeOK', NEW s \in Steps, NEW outcome,
         state[s] = "DISPATCHED", lifecycle \in Open, Commit(s, outcome)
  PROVE  Maps
<1>1. lifecycle \in Open \ {"ROLLING_BACK"}
  BY ClosedIdle DEF Open, TerminalLifecycle
<1>2. Status = "open" /\ s \in Working
  BY <1>1, OpenStatus
<1>3. CASE CommitApplied(s)
  <2> DEFINE committed == RefreshReady([state EXCEPT ![s] = "COMPLETED"])
  <2>1. \A q \in Steps :
          \/ q = s /\ committed[q] = "COMPLETED"
          \/ q # s /\ committed[q] = state[q]
          \/ q # s /\ state[q] = "PENDING" /\ committed[q] = "READY"
    BY DEF RefreshReady, TypeOK
  <2>2. CASE lifecycle = "EXECUTING" /\ Finished(committed)
    <3>1. lifecycle' = "COMPLETED" /\ state' = SkipRest(committed)
      BY <1>3, <2>2 DEF CommitApplied
    <3>2. \A q \in Steps :
            \/ state'[q] = committed[q]
            \/ state'[q] = "SKIPPED" /\ committed[q] \in {"PENDING", "READY", "FAILED"}
      BY <3>1 DEF SkipRest, Skippable
    <3>3. /\ \A q \in Steps : committed[q] \notin {"DISPATCHED", "RECONCILIATION_REQUIRED"}
          /\ \A q \in Mandatory : committed[q] \in {"COMPLETED", "SKIPPED"}
      BY <2>2 DEF Finished, BlockingState, Satisfied, SatisfiedState
    <3>4. \A q \in Steps : state[q] # "SKIPPED"
      BY <2>2 DEF PlanInvariant, StepsFollowLifecycle
    <3> HIDE DEF committed
    <3>5. Status' = "converged"
      BY <3>1, StatusValueNext DEF TypeOK
    <3>6. /\ Working' = {q \in Steps : state'[q] = "DISPATCHED"}
          /\ Doubtful' = {q \in Steps : state'[q] = "RECONCILIATION_REQUIRED"}
          /\ Established' = {q \in Steps : state'[q] = "COMPLETED"}
      BY <3>1 DEF Working, Doubtful, Established, InState
    <3>7. Working' = {} /\ Doubtful' = {}
      BY <3>2, <3>3, <3>6
    <3>8. Working \ {s} = {} /\ Doubtful = {}
      BY <1>1, <2>1, <3>3, OpenStatus
    <3>9. Established' = Established \cup {s}
      BY <1>1, <2>1, <3>2, <3>6, OpenStatus
    <3>10. Mandatory \subseteq Established'
      BY <2>1, <3>2, <3>3, <3>4, <3>6, GraphAssumption
    <3>11. Promise!Report(s)
      BY <1>2, <3>5, <3>7, <3>8, <3>9, <3>10
         DEF Promise!Report, Working, Doubtful, Established
    <3> QED
      BY <3>11 DEF Maps, Promise!Next
  <2>3. CASE ~(lifecycle = "EXECUTING" /\ Finished(committed))
    <3>1. state' = committed /\ lifecycle' = lifecycle
      BY <1>3, <2>3 DEF CommitApplied
    <3> HIDE DEF committed
    <3>2. Status' = Status /\ lifecycle' \in Open \ {"ROLLING_BACK"}
      BY <1>1, <3>1 DEF Status
    <3>3. /\ Working' = Working \ {s} /\ Doubtful' = Doubtful
          /\ Established' = Established \cup {s}
      BY <1>1, <2>1, <3>1, <3>2, OpenStatus, OpenStatusNext
    <3>4. Promise!Report(s)
      BY <1>2, <3>2, <3>3 DEF Promise!Report, Working, Doubtful, Established
    <3> QED
      BY <3>4 DEF Maps, Promise!Next
  <2> QED
    BY <2>2, <2>3
<1>4. CASE CommitAmbiguous(s)
  <2>1. lifecycle' \in {lifecycle, "PAUSED"}
    BY <1>4, TakeTable DEF CommitAmbiguous
  <2>2. lifecycle' \in Open \ {"ROLLING_BACK"}
    BY <1>1, <2>1 DEF Open, PlanLifecycle, TerminalLifecycle
  <2>3. \A q \in Steps :
          state'[q] = IF q = s THEN "RECONCILIATION_REQUIRED" ELSE state[q]
    BY <1>4 DEF CommitAmbiguous, TypeOK
  <2>4. /\ Status' = "open" /\ Working' = Working \ {s}
        /\ Doubtful' = Doubtful \cup {s} /\ Established' = Established
    BY <1>1, <2>2, <2>3, OpenStatus, OpenStatusNext
  <2>5. Promise!Report(s)
    BY <1>2, <2>4 DEF Promise!Report, Working, Doubtful, Established
  <2> QED
    BY <2>5 DEF Maps, Promise!Next
<1>5. CASE CommitFailure(s, outcome)
  <2>1. lifecycle' \in {lifecycle, "PAUSED", "ROLLBACK_REQUIRED"}
    BY <1>5 DEF CommitFailure, AfterStepFailed
  <2>2. lifecycle' \in Open \ {"ROLLING_BACK"}
    BY <1>1, <2>1 DEF Open, PlanLifecycle, TerminalLifecycle
  <2>3. \A q \in Steps :
          IF q = s THEN state'[q] \in {"READY", "FAILED"} ELSE state'[q] = state[q]
    BY <1>5 DEF CommitFailure, TypeOK
  <2>4. /\ Status' = "open" /\ Working' = Working \ {s}
        /\ Doubtful' = Doubtful /\ Established' = Established
    BY <1>1, <2>2, <2>3, OpenStatus, OpenStatusNext
  <2>5. Promise!Report(s)
    BY <1>2, <2>4 DEF Promise!Report, Working, Doubtful, Established
  <2> QED
    BY <2>5 DEF Maps, Promise!Next
<1> QED
  BY <1>3, <1>4, <1>5 DEF Commit

LEMMA CompletionMaps ==
  ASSUME PlanInvariant, RecordsAgree, TypeOK, TypeOK', NEW e \in Evidence, NEW outcome,
         ApplyCompletion(e, outcome)
  PROVE  Maps
<1> DEFINE s == e.step
<1>1. s \in Steps /\ state[s] = "DISPATCHED" /\ dispatchWatermark[s] = watermark
  BY DEF ApplyCompletion, EvidenceHolds, Evidence
<1>2. lifecycle \in Open
  BY <1>1, IssuedOpen
<1>3. CASE Commit(s, outcome)
  BY <1>1, <1>2, <1>3, CommitMaps
<1>4. CASE Invalidate(state, convergence)
  BY <1>2, <1>4, InvalidateMaps DEF Open, TerminalLifecycle
<1> QED
  BY <1>3, <1>4 DEF ApplyCompletion

\* Settling a doubt; on a retired plan, which has no record, it is no step.
LEMMA SettleMaps ==
  ASSUME PlanInvariant, TypeOK, TypeOK', NEW s \in Steps, NEW applied \in BOOLEAN,
         ReconcileStep(s, applied)
  PROVE  Maps
<1>1. /\ lifecycle' = lifecycle /\ state[s] = "RECONCILIATION_REQUIRED"
      /\ state'[s] \in {"COMPLETED", "READY"}
      /\ \A q \in Steps \ {s} :
           \/ state'[q] = state[q]
           \/ state[q] = "PENDING" /\ state'[q] = "READY"
  BY DEF ReconcileStep, RefreshReady, planVars, TypeOK
<1>2. CASE lifecycle = "RETIRED"
  BY <1>1, <1>2, QuietMaps
<1>3. CASE lifecycle # "RETIRED"
  <2>1. lifecycle \notin {"ABSENT", "COMPLETED"}
    BY <1>1
       DEF PlanInvariant, StepsFollowLifecycle, CompletedPlanIsComplete, SatisfiedState
  <2>2. Status \in {"open", "abandoned"} /\ Status' = Status
    <3>1. \/ lifecycle \in {"ROLLING_BACK", "SUPERSEDED", "REVOKED"}
          \/ lifecycle \in Open \ {"ROLLING_BACK"}
      BY <1>3, <2>1 DEF TypeOK, Open, TerminalLifecycle
    <3>2. Status \in {"open", "abandoned"}
      BY <3>1, StatusValue DEF TypeOK
    <3>3. Status' = Status
      BY <1>1 DEF Status
    <3> QED
      BY <3>2, <3>3
  <2>3. /\ s \in Doubtful /\ Doubtful' = Doubtful \ {s} /\ Working' = Working
        /\ Established' \in {Established, Established \cup {s}}
    <3>1. s \in Doubtful /\ Doubtful' = Doubtful \ {s}
      BY <1>1, <1>3 DEF Doubtful, InState
    <3>2. Working' = Working
      BY <1>1, <1>3 DEF Working, InState
    <3>3. CASE state'[s] = "COMPLETED"
      <4>1. Established' = Established \cup {s}
        BY <1>1, <1>3, <3>3 DEF Established, InState
      <4> QED
        BY <3>1, <3>2, <4>1
    <3>4. CASE state'[s] = "READY"
      <4>1. Established' = Established
        BY <1>1, <1>3, <3>4 DEF Established, InState
      <4> QED
        BY <3>1, <3>2, <4>1
    <3> QED
      BY <1>1, <3>3, <3>4
  <2>4. Promise!Settle(s)
    BY <2>2, <2>3 DEF Promise!Settle, Working, Doubtful, Established
  <2> QED
    BY <2>4 DEF Maps, Promise!Next
<1> QED
  BY <1>2, <1>3

LEMMA RetireMaps ==
  ASSUME PlanInvariant, TypeOK, TypeOK', RetirePlan
  PROVE  Maps
<1>1. lifecycle \in {"DECLARED", "PAUSED", "REVALIDATION_REQUIRED", "ROLLBACK_REQUIRED",
                    "COMPLETED", "SUPERSEDED", "REVOKED"}
      /\ lifecycle' = "RETIRED"
  BY PlanTable DEF RetirePlan
<1>2. \/ lifecycle = "COMPLETED"
      \/ lifecycle \in {"SUPERSEDED", "REVOKED"}
      \/ lifecycle \in Open \ {"ROLLING_BACK"}
  BY <1>1 DEF Open, PlanLifecycle, TerminalLifecycle
<1>3. Status \in {"open", "abandoned", "converged"}
  BY <1>2, StatusValue DEF TypeOK
<1>4. Status' = "retired"
  BY <1>1, StatusValueNext DEF TypeOK
<1>5. Working' = {} /\ Doubtful' = {} /\ Established' = {}
  BY <1>1 DEF Working, Doubtful, Established, InState
<1>6. Promise!Retire
  BY <1>3, <1>4, <1>5 DEF Promise!Retire, Working, Doubtful, Established
<1> QED
  BY <1>6 DEF Maps, Promise!Next

\* A restart puts the work of an open plan in doubt, and no other plan has any.
LEMMA RestartMaps ==
  ASSUME PlanInvariant, TypeOK, TypeOK', Restart
  PROVE  Maps
<1>1. CASE lifecycle = "ABSENT"
  BY <1>1, QuietMaps DEF Restart
<1>2. CASE lifecycle # "ABSENT"
  <2>1. lifecycle' = RecoveredPlan(lifecycle)
    BY <1>2 DEF Restart
  <2>2. \A s \in Steps :
          \/ state[s] = "DISPATCHED" /\ state'[s] = "RECONCILIATION_REQUIRED"
          \/ state[s] # "DISPATCHED" /\ state'[s] = state[s]
          \/ state[s] \in {"STALE", "PENDING"} /\ state'[s] \in {"PENDING", "READY"}
    BY <1>2 DEF Restart, RefreshReady, RecoveredStep
  <2>3. CASE lifecycle \in Open \ {"ROLLING_BACK"}
    <3>1. lifecycle' \in Open \ {"ROLLING_BACK"}
      BY <2>1, <2>3 DEF RecoveredPlan, Open, PlanLifecycle, TerminalLifecycle
    <3>2. Status = "open" /\ Status' = "open"
      BY <2>3, <3>1, OpenStatus, OpenStatusNext
    <3>3. Working' = {}
      BY <2>2, <3>1, OpenStatusNext
    <3>4. Doubtful' = Doubtful \cup Working
      BY <2>2, <2>3, <3>1, OpenStatus, OpenStatusNext
    <3>5. Established' = Established
      BY <2>2, <2>3, <3>1, OpenStatus, OpenStatusNext
    <3>6. Promise!Crash
      BY <3>2, <3>3, <3>4, <3>5 DEF Promise!Crash, Working, Doubtful, Established
    <3> QED
      BY <3>6 DEF Maps, Promise!Next
  <2>4. CASE lifecycle \notin Open \ {"ROLLING_BACK"}
    <3>1. lifecycle' = lifecycle
      BY <2>1, <2>4 DEF RecoveredPlan, Open, PlanLifecycle, TerminalLifecycle
    <3>2. \A s \in Steps :
            \/ state'[s] = state[s]
            \/ lifecycle = "RETIRED"
            \/ state[s] \in {"STALE", "PENDING"} /\ state'[s] \in {"PENDING", "READY"}
      BY <2>2, <2>4, ClosedIdle
    <3>3. \A s \in Steps :
            \/ state'[s] = state[s]
            \/ lifecycle = "RETIRED"
            \/ state[s] \in Idle /\ state'[s] \in Idle
      BY <3>2 DEF Idle, StepLifecycle
    <3> QED
      BY <3>1, <3>3, QuietMaps
  <2> QED
    BY <2>3, <2>4
<1> QED
  BY <1>1, <1>2

LEMMA ControlMaps ==
  ASSUME PlanInvariant, TypeOK, TypeOK', ControlStep
  PROVE  Maps
<1>1. CASE RevalidateOk
  <2>1. \/ lifecycle' = lifecycle
        \/ lifecycle \in Open \ {"ROLLING_BACK"} /\ lifecycle' \in Open \ {"ROLLING_BACK"}
    BY <1>1, TakeTable DEF RevalidateOk, Open, PlanLifecycle, TerminalLifecycle
  <2>2. \A s \in Steps :
          \/ state'[s] = state[s]
          \/ state[s] \in {"STALE", "PENDING"} /\ state'[s] \in {"PENDING", "READY"}
    BY <1>1 DEF RevalidateOk, RefreshReady, Rearm
  <2>3. \A s \in Steps :
          state'[s] = state[s] \/ (state[s] \in Idle /\ state'[s] \in Idle)
    BY <2>2 DEF Idle, StepLifecycle
  <2> QED
    BY <2>1, <2>3, QuietMaps
<1>2. CASE RevalidateFail
  <2>1. CASE Supersede
    BY <2>1, SupersedeMaps
  <2>2. CASE UNCHANGED <<lifecycle, state>>
    BY <2>2, QuietMaps
  <2> QED
    BY <1>2, <2>1, <2>2 DEF RevalidateFail
<1>3. CASE PausePlan
  <2>1. /\ lifecycle \in Open \ {"ROLLING_BACK"} /\ lifecycle' \in Open \ {"ROLLING_BACK"}
        /\ state' = state
    BY <1>3, PlanTable DEF PausePlan, Open, PlanLifecycle, TerminalLifecycle
  <2> QED
    BY <2>1, QuietMaps
<1>4. CASE RevokePlan
  <2>1. lifecycle \in Open /\ lifecycle' = "REVOKED" /\ lifecycle # "RETIRED"
    BY <1>4, PlanTable DEF RevokePlan, Open, TerminalLifecycle
  <2>2. \A s \in Steps : state'[s] = IF state[s] = "DISPATCHED" THEN "STALE" ELSE state[s]
    BY <1>4 DEF RevokePlan, StaleInFlight
  <2> QED
    BY <2>1, <2>2, FenceMaps
<1>5. CASE RetirePlan
  BY <1>5, RetireMaps
<1>6. CASE BeginRollback
  <2>1. /\ lifecycle \in {"VALIDATING", "READY", "EXECUTING", "PAUSED",
                          "REVALIDATION_REQUIRED", "ROLLBACK_REQUIRED"}
        /\ lifecycle' \in {"SUPERSEDED", "ROLLING_BACK"}
    BY <1>6, PlanTable DEF BeginRollback
  <2>2. /\ lifecycle \in Open \ {"ROLLING_BACK"} /\ lifecycle # "RETIRED"
        /\ lifecycle' \in Open \cup {"SUPERSEDED"}
    BY <2>1 DEF Open, PlanLifecycle, TerminalLifecycle
  <2>3. \A s \in Steps : state'[s] = IF state[s] = "DISPATCHED" THEN "STALE" ELSE state[s]
    BY <1>6 DEF BeginRollback, StaleInFlight
  <2> QED
    BY <2>2, <2>3, FenceMaps
<1>7. CASE RollbackPlanCompleted
  <2>1. lifecycle = "ROLLING_BACK" /\ lifecycle' = "SUPERSEDED" /\ state' = state
    BY <1>7, PlanTable DEF RollbackPlanCompleted
  <2> QED
    BY <2>1, QuietMaps
<1>8. CASE Superseded
  BY <1>8, SupersedeMaps DEF Superseded
<1> QED
  BY <1>1, <1>2, <1>3, <1>4, <1>5, <1>6, <1>7, <1>8 DEF ControlStep

LEMMA MapsStep ==
  ASSUME InductiveInvariant, [Next]_vars
  PROVE  Maps
<1>1. /\ TypeOK /\ TypeOK' /\ PlanInvariant /\ RecordsAgree
      /\ convergence \in Nat \ {0} /\ convergence + 1 \in Nat \ {0}
  BY ReachedStep DEF TypeOK
<1>2. ASSUME UNCHANGED <<lifecycle, state>> PROVE Maps
  BY <1>1, <1>2, QuietMaps
<1>3. ASSUME NEW b \in Boots, RegisterWorker(b) \/ ReviveWorker(b) PROVE Maps
  BY <1>2, <1>3 DEF RegisterWorker, ReviveWorker, planVars
<1>4. ASSUME NEW b \in Boots, ReincarnateWorker(b) PROVE Maps
  <2> DEFINE previous == registered[PublisherOf[b]]
  <2>1. previous \in Boots /\ StaleStepsOfBoot(previous, convergence + 1)
    BY <1>1, <1>4, WorkerAssumption DEF ReincarnateWorker, TypeOK
  <2> HIDE DEF previous
  <2> QED
    BY <1>1, <2>1, LoseMaps
<1>5. ASSUME NEW b \in Boots, LoseSession(b) \/ FenceWorker(b) PROVE Maps
  BY <1>1, <1>5, LoseMaps DEF LoseSession, FenceWorker
<1>6. CASE AdvanceEpoch
  <2>1. CASE lifecycle \in Open
    BY <1>1, <1>6, <2>1, InvalidateMaps DEF AdvanceEpoch, Open, TerminalLifecycle
  <2>2. CASE lifecycle \notin Open
    BY <1>2, <1>6, <2>2 DEF AdvanceEpoch
  <2> QED
    BY <2>1, <2>2
<1>7. CASE ChangeUpstream \/ DefinePolicy
  BY <1>2, <1>7 DEF ChangeUpstream, DefinePolicy, planVars
<1>8. CASE NoteRouteChange \/ RefuseStalePlan
  BY <1>1, <1>8, InvalidateMaps, SupersedeMaps
     DEF NoteRouteChange, RefuseStalePlan, Open, TerminalLifecycle
<1>9. CASE CreatePlan
  BY <1>1, <1>9, CreateMaps
<1>10. ASSUME NEW b \in Boots, NEW s \in Steps, DispatchStep(b, s) PROVE Maps
  BY <1>1, <1>10, DispatchMaps
<1>11. ASSUME NEW e \in dispatches, NEW outcome \in Outcomes, CompleteStep(e, outcome)
       PROVE  Maps
  BY <1>1, <1>11, CompletionMaps DEF CompleteStep, Evidence, TypeOK
<1>12. ASSUME NEW b \in Boots, NEW s \in Steps, NEW outcome \in Outcomes,
              FailStep(b, s, outcome)
       PROVE  Maps
  <2> DEFINE e == [step |-> s, generation |-> generation[s], boot |-> b,
                   epoch |-> epoch, watermark |-> dispatchWatermark[s]]
  <2>1. e \in Evidence /\ ApplyCompletion(e, outcome)
    BY <1>1, <1>12 DEF FailStep, Evidence, TypeOK
  <2> HIDE DEF e
  <2> QED
    BY <1>1, <2>1, CompletionMaps
<1>13. ASSUME NEW s \in Steps, NEW applied \in BOOLEAN, ReconcileStep(s, applied)
       PROVE  Maps
  BY <1>1, <1>13, SettleMaps
<1>14. CASE ControlStep
  BY <1>1, <1>14, ControlMaps
<1>15. CASE Restart
  BY <1>1, <1>15, RestartMaps
<1>16. CASE UNCHANGED vars
  BY <1>2, <1>16 DEF vars, planVars
<1> QED
  BY <1>3, <1>4, <1>5, <1>6, <1>7, <1>8, <1>9, <1>10, <1>11, <1>12, <1>13, <1>14,
     <1>15, <1>16
     DEF Next, RegistryStep, UpstreamStep, ExecutionStep

\* Every behaviour of the governor on a plan is, through the mapping, a
\* behaviour of the abstract plan: what it promises holds whatever the workers,
\* the epochs, the upstream and restarts do.
THEOREM Refinement == Spec => ImplementsOrderedCommit
<1>1. Init => Promise!Init
  <2> SUFFICES ASSUME Init PROVE Promise!Init
    OBVIOUS
  <2>1. Status = "absent"
    BY StatusValue DEF Init
  <2>2. InState({"DISPATCHED"}) = {} /\ InState({"RECONCILIATION_REQUIRED"}) = {}
        /\ InState({"COMPLETED"}) = {}
    BY DEF Init, InState
  <2> QED
    BY <2>1, <2>2 DEF Promise!Init
<1>2. InductiveInvariant /\ [Next]_vars => [Promise!Next]_(Promise!vars)
  BY MapsStep DEF Maps
<1> QED
  BY <1>1, <1>2, Inductive, PTL DEF Spec, ImplementsOrderedCommit, Promise!Spec
=============================================================================
