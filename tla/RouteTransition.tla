-------------------------- MODULE RouteTransition --------------------------
(***************************************************************************)
(* A generated plan and the plan that rolls it back, executed by workers   *)
(* on the data plane: which routes are installed, which paths are active   *)
(* and which groups exist (governor_mutate.cpp, begin_rollback and         *)
(* revalidate_plan of governor_control.cpp, the step kinds of step.hpp,    *)
(* and decode_state of governor_codec.cpp).                                *)
(*                                                                         *)
(* PlanExecution has every mutation of one plan with its generations,      *)
(* epochs and watermarks.  Here these are taken as given: a report counts  *)
(* only for the current dispatch of a step.  What is added is what the     *)
(* steps do: a command a worker was given may be executed at any later     *)
(* moment, once, also after its plan has fenced it, or never.  Workers and *)
(* operators tell the truth: a step is reported, or reconciled, as applied *)
(* only if it was.  The upstream still publishes the target; pause,        *)
(* revocation, supersession and retirement are left to PlanExecution.      *)
(*                                                                         *)
(* transition.faults bounds the failures, doubts, invalidations and        *)
(* restarts of an execution; transition.retries is the smaller of the      *)
(* policy's and the configured bound on retries.                           *)
(***************************************************************************)
EXTENDS PlanGeneration, Lifecycle

CONSTANTS
  Transitions,   \* source and target bindings, policy, bounds on retries, faults
  Limits         \* the configured bounds

\* A route has a path, and may have no group (RouteBinding::is_well_formed).
RouteBinding == [generation : Nat, path : Nat \ {0}, group : Nat]

\* A plan is from one generation of its route to another
\* (PlanKey::is_well_formed), and its policy is coherent (create_plan).
ASSUME TransitionsAssumption ==
  \A t \in Transitions :
    /\ t.source \in RouteBinding /\ t.target \in RouteBinding
    /\ t.source.generation # t.target.generation
    /\ t.policy.parallel \in Nat /\ Coherent(t.policy)
    /\ t.retries \in Nat

\* ConvergenceLimits::is_coherent.
ASSUME LimitsAssumption == Limits.parallel \in Nat \ {0}

Plans == {"forward", "rollback"}

VARIABLES
  transition,    \* the one under way
  life,          \* the lifecycle of each plan, or "ABSENT"
  steps,         \* the steps of each plan, in the order of generation
  at,            \* the state of each step
  sent,          \* how often each step was dispatched
  wire,          \* commands that may still be executed
  journal,       \* commands that were
  plane,         \* what is in the data plane
  known,         \* a rollback began with no command of the forward plan
                 \* unreported (an observer; nothing reads it)
  faults

planVars == <<life, steps, at, sent>>
worldVars == <<wire, journal, plane>>
vars == <<transition, planVars, worldVars, known, faults>>

----------------------------------------------------------------------------
\* The data plane

Route(binding) == <<"route", binding.generation>>
Path(binding) == <<"path", binding.path>>
Group(binding) == <<"group", binding.group>>

Facts(binding) ==
  {Route(binding), Path(binding)} \cup When(binding.group # NoGroup, Group(binding))

Old(plan) == IF plan = "forward" THEN transition.source ELSE transition.target
New(plan) == IF plan = "forward" THEN transition.target ELSE transition.source

\* What a step kind does, in the roles of its plan (StepKind).
Effect(plan, kind) ==
  CASE kind = "INSTALL_NEW_GROUP" -> plane \cup {Group(New(plan))}
    [] kind = "INSTALL_NEW_ROUTE" -> plane \cup {Route(New(plan))}
    [] kind = "ACTIVATE_NEW_PATH" -> plane \cup {Path(New(plan))}
    [] kind = "DEACTIVATE_OLD_PATH" -> plane \ {Path(Old(plan))}
    [] kind = "WITHDRAW_OLD_ROUTE" -> plane \ {Route(Old(plan))}
    [] OTHER -> plane

Forwards(binding) == Facts(binding) \subseteq plane

----------------------------------------------------------------------------
Command(plan, p) == <<plan, p, sent[plan][p]>>
Executed(plan, p) == \E n \in 1 .. sent[plan][p] : <<plan, p, n>> \in journal
Outstanding(plan) == \E c \in wire : c[1] = plan

\* What is kept of a graph: the kind of each step and the steps it waits for.
Shape(graph) ==
  [p \in DOMAIN graph |-> [kind |-> graph[p].kind, waits |-> Predecessors(graph, p)]]

\* (Fault, for the mutation runs: what is under way counts as done.)
RefreshedEarly(st, work) ==
  [p \in DOMAIN st |->
     IF st[p] = "PENDING" /\
          \A q \in work[p].waits : st[q] \in SatisfiedState \cup {"DISPATCHED"}
     THEN "READY" ELSE st[p]]

\* refresh_ready_steps.
Refreshed(st, work) ==
  [p \in DOMAIN st |->
     IF st[p] = "PENDING" /\ \A q \in work[p].waits : st[q] \in SatisfiedState
     THEN "READY" ELSE st[p]]

Fresh(work) == Refreshed([p \in DOMAIN work |-> "PENDING"], work)
Stale(st) == [p \in DOMAIN st |-> IF st[p] = "DISPATCHED" THEN "STALE" ELSE st[p]]

\* A fault is one of finitely many.
Fault == faults < transition.faults /\ faults' = faults + 1

SetAt(plan, st) == at' = [at EXCEPT ![plan] = st]

----------------------------------------------------------------------------
\* dispatch_step: the worker has a command from now on.
Dispatch(plan, p) ==
  /\ life[plan] \in PlanFrom.DISPATCH
  /\ at[plan][p] = "READY"
  /\ life' = [life EXCEPT ![plan] = PlanTo.DISPATCH]
  /\ SetAt(plan, [at[plan] EXCEPT ![p] = "DISPATCHED"])
  /\ sent' = [sent EXCEPT ![plan][p] = @ + 1]
  /\ wire' = wire \cup {<<plan, p, sent[plan][p] + 1>>}
  /\ UNCHANGED <<transition, steps, journal, plane, known, faults>>

\* A worker executes a command; nothing in it asks whether it is still wanted.
Execute(c) ==
  /\ c \in wire
  /\ wire' = wire \ {c}
  /\ journal' = journal \cup {c}
  /\ plane' = Effect(c[1], steps[c[1]][c[2]].kind)
  /\ UNCHANGED <<transition, planVars, known, faults>>

\* A command nobody waits for is lost with its worker.
Lose(c) ==
  /\ c \in wire
  /\ at[c[1]][c[2]] # "DISPATCHED" \/ c # Command(c[1], c[2])
  /\ wire' = wire \ {c}
  /\ UNCHANGED <<transition, planVars, journal, plane, known, faults>>

\* complete_lineage of a rollback plan.
Lineage(plan, done) ==
  [life EXCEPT ![plan] = done,
               !.forward = IF plan = "rollback" /\ done = "COMPLETED"
                           THEN Take("ROLLBACK_COMPLETED", @)
                           ELSE IF plan = "forward" THEN done ELSE @]

\* apply_completion, applied: the last step of an executing plan completes it.
Complete(plan, p) ==
  LET committed == Refreshed([at[plan] EXCEPT ![p] = "COMPLETED"], steps[plan])
      done == life[plan] = "EXECUTING"
                /\ \A q \in DOMAIN committed : committed[q] \in SatisfiedState
  IN /\ at[plan][p] = "DISPATCHED"
     /\ Command(plan, p) \in journal
     /\ SetAt(plan, committed)
     /\ life' = Lineage(plan, IF done THEN PlanTo.ALL_STEPS_TERMINAL ELSE life[plan])
     /\ UNCHANGED <<transition, steps, sent, worldVars, known, faults>>

\* apply_completion, ambiguous: the acknowledgement was lost.
ReportDoubt(plan, p) ==
  /\ Fault
  /\ at[plan][p] = "DISPATCHED"
  /\ SetAt(plan, [at[plan] EXCEPT ![p] = "RECONCILIATION_REQUIRED"])
  /\ life' = [life EXCEPT ![plan] = Take("STEP_AMBIGUOUS", @)]
  /\ UNCHANGED <<transition, steps, sent, worldVars, known>>

\* apply_completion, a failure: the command had no effect.  The step is armed
\* again while its attempts are within the bound (each generated step may be
\* retried).  Otherwise it stays FAILED: the plan pauses if the failure was
\* retryable and asks for a rollback if not, in either case only if it runs.
Fail(plan, p, retryable) ==
  LET rearmed == retryable /\ sent[plan][p] <= transition.retries
  IN /\ Fault
     /\ at[plan][p] = "DISPATCHED"
     /\ Command(plan, p) \in wire
     /\ wire' = wire \ {Command(plan, p)}
     /\ SetAt(plan, [at[plan] EXCEPT ![p] = IF rearmed THEN "READY" ELSE "FAILED"])
     /\ life' = [life EXCEPT ![plan] = IF rearmed THEN @
                                       ELSE AfterStepFailed(@, ~retryable)]
     /\ UNCHANGED <<transition, steps, sent, journal, plane, known>>

\* invalidate_plan: a worker, the epoch or the path's authority is lost.
Invalidate(plan) ==
  /\ Fault
  /\ life[plan] \in PlanFrom.INVALIDATE
  /\ life' = [life EXCEPT ![plan] = PlanTo.INVALIDATE]
  /\ SetAt(plan, Stale(at[plan]))
  /\ UNCHANGED <<transition, steps, sent, worldVars, known>>

\* (Fault, for the mutation runs: stale steps are not armed again.)
RevalidateUnarmed(plan) ==
  /\ life[plan] \in PlanFrom.REVALIDATE_OK
  /\ life' = [life EXCEPT ![plan] = PlanTo.REVALIDATE_OK]
  /\ SetAt(plan, Refreshed(at[plan], steps[plan]))
  /\ UNCHANGED <<transition, steps, sent, worldVars, known, faults>>

\* revalidate_plan.
Revalidate(plan) ==
  /\ life[plan] \in PlanFrom.REVALIDATE_OK
  /\ life' = [life EXCEPT ![plan] = PlanTo.REVALIDATE_OK]
  /\ SetAt(plan, Refreshed([p \in DOMAIN at[plan] |->
                              IF at[plan][p] = "STALE" THEN "PENDING" ELSE at[plan][p]],
                           steps[plan]))
  /\ UNCHANGED <<transition, steps, sent, worldVars, known, faults>>

\* (Fault: a doubt is settled as applied without looking.)
ReconcileUnseen(plan, p) ==
  /\ at[plan][p] = "RECONCILIATION_REQUIRED"
  /\ SetAt(plan, Refreshed([at[plan] EXCEPT ![p] = "COMPLETED"], steps[plan]))
  /\ UNCHANGED <<transition, life, steps, sent, worldVars, known, faults>>

\* reconcile_step, as the backend observes the effect (observes_applied).
Reconcile(plan, p) ==
  /\ at[plan][p] = "RECONCILIATION_REQUIRED"
  /\ SetAt(plan, Refreshed([at[plan] EXCEPT ![p] = IF Executed(plan, p)
                                                   THEN "COMPLETED" ELSE "READY"],
                           steps[plan]))
  /\ UNCHANGED <<transition, life, steps, sent, worldVars, known, faults>>

\* decode_state: the coordinator restarts.
Restart ==
  /\ Fault
  /\ life' = [plan \in Plans |-> IF life[plan] = "ABSENT" THEN "ABSENT"
                                 ELSE RecoveredPlan(life[plan])]
  /\ at' = [plan \in Plans |->
              Refreshed([p \in DOMAIN at[plan] |-> RecoveredStep(at[plan][p])],
                        steps[plan])]
  /\ UNCHANGED <<transition, steps, sent, worldVars, known>>

----------------------------------------------------------------------------
\* applied_mutations: what the governor knows to be done.
AppliedMutations ==
  {steps.forward[p].kind : p \in {q \in DOMAIN at.forward : at.forward[q] = "COMPLETED"}}
    \ (ObservationKind \cup {"FINALIZE"})

\* Every command of the forward plan was executed and reported, or is gone.
ForwardIsKnown ==
  /\ ~Outstanding("forward")
  /\ \A p \in DOMAIN at.forward :
       Executed("forward", p) => at.forward[p] = "COMPLETED"

\* The forward plan is fenced, and moves to ROLLING_BACK.
FenceForward ==
  /\ life.forward \in PlanFrom.REQUIRE_ROLLBACK \cup PlanFrom.BEGIN_ROLLBACK
  /\ known' = ForwardIsKnown

\* begin_rollback creates the compensating plan, or refuses the graph it has
\* generated after it has moved the forward plan.
BeginRollback ==
  /\ FenceForward
  /\ \E compensation \in
         {Shape(RollbackSteps(transition.target, transition.source,
                              transition.policy, Limits, AppliedMutations))} :
       /\ life' = [forward |-> PlanTo.BEGIN_ROLLBACK,
                   rollback |-> IF compensation = <<>> THEN "ABSENT"
                                ELSE PlanTo.VALIDATE_OK]
       /\ steps' = [steps EXCEPT !.rollback = compensation]
       /\ at' = [forward |-> Stale(at.forward), rollback |-> Fresh(compensation)]
       /\ sent' = [sent EXCEPT !.rollback = [p \in DOMAIN compensation |-> 0]]
  /\ UNCHANGED <<transition, worldVars, faults>>

----------------------------------------------------------------------------
\* create_plan accepts what is generated if it conforms and is in bounds.
AcceptedSteps(t) ==
  LET whole == GenerateSteps(t.source, t.target, t.policy, Limits)
  IN IF ConformanceDefects(whole, t.policy, Limits) = {} THEN Shape(whole) ELSE <<>>

Init ==
  /\ transition \in Transitions
  /\ steps = [forward |-> AcceptedSteps(transition), rollback |-> <<>>]
  /\ life = [forward |-> IF steps.forward = <<>> THEN "ABSENT" ELSE PlanTo.VALIDATE_OK,
             rollback |-> "ABSENT"]
  /\ at = [forward |-> Fresh(steps.forward), rollback |-> <<>>]
  /\ sent = [forward |-> [p \in DOMAIN steps.forward |-> 0], rollback |-> <<>>]
  /\ wire = {} /\ journal = {}
  /\ plane = Facts(transition.source)
  /\ known = TRUE
  /\ faults = 0

WorkStep(plan, p) == Dispatch(plan, p) \/ Complete(plan, p)

FaultStep(plan, p) ==
  ReportDoubt(plan, p) \/ \E retryable \in BOOLEAN : Fail(plan, p, retryable)

Next ==
  \/ \E plan \in Plans :
       \/ \E p \in DOMAIN at[plan] :
            WorkStep(plan, p) \/ FaultStep(plan, p) \/ Reconcile(plan, p)
       \/ Invalidate(plan)
       \/ Revalidate(plan)
  \/ \E c \in wire : Execute(c) \/ Lose(c)
  \/ Restart
  \/ BeginRollback

Spec == Init /\ [][Next]_vars

\* Workers ask for ready steps, execute what they are given and report it; the
\* operator revalidates what is current again, and settles doubts.  (A step is
\* one or the other's at a time: it is in doubt, or it is not.)
Fairness ==
  /\ \A plan \in Plans :
       /\ \A p \in 1 .. Len(Kinds) :
            WF_vars(p \in DOMAIN at[plan] /\ (WorkStep(plan, p) \/ Reconcile(plan, p)))
       /\ WF_vars(Revalidate(plan))
  /\ WF_vars(\E c \in wire : Execute(c))

FairSpec == Spec /\ Fairness

----------------------------------------------------------------------------
MakeFirst == transition.policy.ordering = "MAKE_BEFORE_BREAK"

\* Under make-before-break the route always has a binding that carries it:
\* whatever is lost, repeated or late, and while it is rolled back as well if
\* the rollback began with nothing unreported (README.md, 160-172).
NeverDark ==
  MakeFirst /\ known => Forwards(transition.source) \/ Forwards(transition.target)

\* Under break-before-make the two bindings never overlap (README.md, 174-184).
NeverOverlaps ==
  ~MakeFirst /\ known =>
    /\ ~({Route(transition.source), Route(transition.target)} \subseteq plane)
    /\ transition.source.path # transition.target.path =>
         ~({Path(transition.source), Path(transition.target)} \subseteq plane)

\* Only the binding is left, with the paths and routes of the other gone.
Only(binding, other) ==
  /\ Forwards(binding)
  /\ Route(other) \notin plane
  /\ binding.path # other.path => Path(other) \notin plane

\* A completed plan has converged: the target carries the route, and nothing
\* of the source is left, whatever duplicates are still on their way.
CompletedHasConverged ==
  life.forward = "COMPLETED" => Only(transition.target, transition.source)

\* A completed rollback has restored the source, if it began with nothing of
\* the forward plan unreported: pruning drops no compensation that is needed.
RollbackRestores ==
  life.rollback = "COMPLETED" /\ known => Only(transition.source, transition.target)

\* The claim without the condition: a rollback plan has exactly the steps whose
\* effect the forward plan established (README.md, 281-287).
RollbackUndoesWhatWasDone ==
  life.rollback = "COMPLETED" => Only(transition.source, transition.target)

Untouched ==
  faults = 0 /\ life.forward \in {"ABSENT", "READY"} /\ life.rollback = "ABSENT"

\* Pruning keeps the order of what it keeps, whatever was applied: one kept step
\* waits for another exactly if it did before (README.md, 285-287).
PruningKeepsOrder ==
  Untouched =>
    LET whole == GenerateSteps(transition.target, transition.source,
                               transition.policy, Limits)
        kinds == {whole[p].kind : p \in DOMAIN whole} \cap (MakeKind \cup BreakKind)
        before == [p \in DOMAIN whole |-> Ancestors(whole, KeyOf(whole[p]))]
    IN \A applied \in SUBSET kinds :
         LET pruned == PruneRollbackSteps(whole, applied)
             kept == {KeyOf(pruned[p]) : p \in DOMAIN pruned}
         IN \A p \in DOMAIN whole :
              KeyOf(whole[p]) \in kept =>
                Ancestors(pruned, KeyOf(whole[p])) = before[p] \cap kept

\* Every generated plan conforms to its policy: create_plan and begin_rollback
\* never refuse for the order what the generator made, only for the bounds.
GeneratedConforms ==
  Untouched =>
    \A back \in BOOLEAN :
      LET whole == GenerateSteps(New(IF back THEN "forward" ELSE "rollback"),
                                 Old(IF back THEN "forward" ELSE "rollback"),
                                 transition.policy, Limits)
      IN ConformanceDefects(whole, transition.policy, Limits)
           \subseteq {"STEP_LIMIT", "DEPENDENCY_LIMIT", "TOTAL_DEPENDENCY_LIMIT"}

\* What is left of a plan is what was given up, and what waits for it: each
\* step that is not established is FAILED or waits for one that is not (no
\* generated plan has a cycle).
OnlyGivenUpIsLeft(plan) ==
  \A p \in DOMAIN at[plan] :
    \/ at[plan][p] \in SatisfiedState \cup {"FAILED"}
    \/ \E q \in steps[plan][p].waits : at[plan][q] \notin SatisfiedState

\* The work comes to an end: with finitely many faults, in the end each plan is
\* rolled back or waits for the decision to be, or has established all of its
\* steps but those that were given up and those that wait for them
\* (revalidate_plan, reconcile_step, refresh_ready_steps).
WorkSettles ==
  <>[](\A plan \in Plans :
         \/ life[plan] \in {"ABSENT", "ROLLBACK_REQUIRED", "ROLLING_BACK", "SUPERSEDED"}
         \/ OnlyGivenUpIsLeft(plan))
=============================================================================
