---------------------------- MODULE PlanLineage ----------------------------
(***************************************************************************)
(* The plans of one route as records: who supersedes, rolls back and       *)
(* succeeds whom, and whether the digest stored with each record still     *)
(* describes it, which decides whether a saved store can be loaded again   *)
(* (touch_plan, supersede_entry, invalidate_plan and recompute_currentness *)
(* of governor_core.cpp, the mutations of governor_mutate.cpp and          *)
(* governor_control.cpp, and decode_state of governor_codec.cpp).          *)
(*                                                                         *)
(* A mutation writes a record and seals it (touch_plan) at exact places:   *)
(* what is written before a seal is covered by the digest, and what is     *)
(* written after it, or before an early return, is not.  Refused mutations *)
(* are here for what they have written by then.                            *)
(*                                                                         *)
(* PlanExecution has the evidence checks.  Here the steps of a plan are a  *)
(* chain, so at most one is in flight; workers are authorized; a watermark *)
(* is the answer to one question, whether it has moved since the dispatch; *)
(* all upstream conditions but the route's generation are one.             *)
(***************************************************************************)
EXTENDS Integers, Sequences, FiniteSets, Lifecycle

CONSTANTS
  Forwards,      \* identities of the plans that may be asked for
  Length,        \* their number of steps
  Observations,  \* what the upstream route may look like
  MaxEpoch, MaxRestarts,
  MaxEvents      \* plans asked for and disturbances in one behaviour

Nil == [source |-> 0, target |-> 0, structure |-> 0]

\* A well-formed key has generations from one on (plan.cpp, 96-99), and no plan
\* has the identity that stands for none.
ASSUME IdentityAssumption ==
  Nil \notin Forwards /\ \A o \in Observations : o.generation # 0
ASSUME BoundAssumption ==
  /\ Length \in Nat \ {0} /\ MaxEpoch \in Nat \ {0}
  /\ MaxRestarts \in Nat /\ MaxEvents \in Nat

VARIABLES
  plans,     \* the record of each plan that was created
  byKey,     \* the plan that the index by key names
  observed,  \* the upstream route: generation, legal, restorable (the source)
  epoch,
  restarts,
  events,
  taken      \* identities created a second time (an observer)

vars == <<plans, byKey, observed, epoch, restarts, events, taken>>

\* An identity is a digest of key and structure (derive_plan_id); the structure
\* of a compensating plan is how many mutating steps it has to undo.
Key(id) == <<id.source, id.target>>
StepCount(id) == IF id \in Forwards THEN Length ELSE id.structure + 1

Terminal(p) == p.now.lifecycle \in TerminalLifecycle

----------------------------------------------------------------------------
\* touch_plan: the digest is that of the content now, under a new generation
\* if the content has changed.  "moved" stands for the numbers that never come
\* back: watermark, authority and step generations.
Touch(p) ==
  LET settled == [p.now EXCEPT !.moved = FALSE]
  IN [p EXCEPT !.now = settled, !.sealed = settled]

\* What a mutation writes, and seals.
Seal(p, content) == Touch([p EXCEPT !.now = content])

Sealed(p) == p.sealed = p.now

\* What decode_plan asks of a record beyond its form.
Loadable(p) ==
  /\ Sealed(p)
  /\ \A i \in DOMAIN p.now.at : p.now.at[i] = "COMPLETED" => i \in p.now.evidence

Refreshed(at) ==
  [i \in DOMAIN at |-> IF at[i] = "PENDING" /\ (i > 1 => at[i - 1] \in SatisfiedState)
                       THEN "READY" ELSE at[i]]

Stale(at) == [i \in DOMAIN at |-> IF at[i] = "DISPATCHED" THEN "STALE" ELSE at[i]]

\* A moved watermark, and work in flight that becomes stale.
Fenced(now) == [now EXCEPT !.moved = TRUE, !.fresh = FALSE, !.at = Stale(@)]

\* supersede_entry.
SupersedeEntry(p, successor) ==
  IF p.now.lifecycle \notin PlanFrom.SUPERSEDE THEN p
  ELSE Seal(p, Fenced([p.now EXCEPT !.lifecycle = PlanTo.SUPERSEDE,
                                    !.succ = IF successor = Nil THEN @ ELSE successor,
                                    !.causes = @ \cup {"SUPERSEDED"},
                                    !.required = FALSE]))

\* invalidate_plan.
InvalidatePlan(p, cause) ==
  IF Terminal(p) THEN p
  ELSE Seal(p, Fenced([p.now EXCEPT !.lifecycle = Take("INVALIDATE", @),
                                    !.causes = @ \cup {cause}]))

\* recompute_currentness writes the causes it finds.
Causes(p) ==
  LET need == IF p.compensates THEN p.id.source ELSE p.id.target
  IN {c \in {"SUPERSEDED"} : p.now.lifecycle = "SUPERSEDED"}
       \cup {c \in {"UPSTREAM"} : observed.generation # need \/ ~observed.legal}
       \cup {c \in {"EPOCH"} : p.now.bound # epoch}
       \cup (p.now.causes \cap {"REVALIDATE"})

Recomputed(p) == [p EXCEPT !.now.causes = Causes(p)]
Current(p) == Causes(p) \subseteq {"REVALIDATE"}

\* What a mutation and a notice do to a plan that turns out not to be current.
Checked(p) == IF Current(p) THEN Recomputed(p) ELSE InvalidatePlan(Recomputed(p), "REVALIDATE")

\* (Fault: a compensating plan does not name its predecessor.)
FreshUnlinked(id, compensates, predecessor) ==
  LET now == [lifecycle |-> PlanTo.VALIDATE_OK, causes |-> {}, bound |-> epoch,
              succ |-> Nil, rollback |-> Nil, required |-> FALSE, evidence |-> {},
              at |-> Refreshed([i \in 1 .. StepCount(id) |-> "PENDING"]),
              moved |-> FALSE, fresh |-> FALSE]
  IN [id |-> id, compensates |-> compensates, pred |-> IF compensates THEN Nil ELSE predecessor,
      now |-> now, sealed |-> now]

Fresh(id, compensates, predecessor) ==
  LET now == [lifecycle |-> PlanTo.VALIDATE_OK, causes |-> {}, bound |-> epoch,
              succ |-> Nil, rollback |-> Nil, required |-> FALSE, evidence |-> {},
              at |-> Refreshed([i \in 1 .. StepCount(id) |-> "PENDING"]),
              moved |-> FALSE, fresh |-> FALSE]
  IN [id |-> id, compensates |-> compensates, pred |-> predecessor,
      now |-> now, sealed |-> now]

Put(p) == plans' = [plans EXCEPT ![p.id] = p]

\* emplace: a record that is there already stays, and is sealed again.
Emplace(ps, p) ==
  [id \in DOMAIN ps \cup {p.id} |->
     IF id = p.id THEN Touch(IF id \in DOMAIN ps THEN ps[id] ELSE p) ELSE ps[id]]

NoteTaken(id) == taken' = IF id \in DOMAIN plans THEN taken \cup {id} ELSE taken

\* (Fault: a key that is in the index keeps its plan.)
IndexOnce(id) == byKey' = [k \in DOMAIN byKey \cup {Key(id)} |->
                             IF k \in DOMAIN byKey THEN byKey[k] ELSE id]

Index(id) == byKey' = [k \in DOMAIN byKey \cup {Key(id)} |->
                         IF k = Key(id) THEN id ELSE byKey[k]]

----------------------------------------------------------------------------
\* create_plan, for a target that is published and legal.

\* The plan a new one succeeds: the one the key's index names, or else some plan
\* of the route that is not retired, in the order of digests.
Predecessors(id) ==
  IF Key(id) \in DOMAIN byKey THEN {byKey[Key(id)]}
  ELSE LET alive == {q \in DOMAIN plans : plans[q].now.lifecycle # "RETIRED"}
       IN IF alive = {} THEN {Nil} ELSE alive

Told(p, successor) == [p EXCEPT !.now = [p.now EXCEPT !.succ = successor]]

\* (Fault, for the mutation runs: a running plan is not superseded.)
DisplaceIdle(ps, id, pred) ==
  IF Key(id) \notin DOMAIN byKey THEN ps
  ELSE [ps EXCEPT ![pred] = IF @.now.lifecycle = "EXECUTING" THEN @
                            ELSE Told(SupersedeEntry(@, id), id)]

\* A plan of the same key is superseded, and told its successor in any case.
Displace(ps, id, pred) ==
  IF Key(id) \notin DOMAIN byKey THEN ps
  ELSE [ps EXCEPT ![pred] = Told(SupersedeEntry(ps[pred], id), id)]

\* Lineage is recorded on both sides: at whoever the stored plan succeeds.
Link(ps, id) ==
  LET pred == ps[id].pred
  IN IF pred = Nil \/ ps[pred].now.succ # Nil THEN ps
     ELSE [ps EXCEPT ![pred] = Seal(ps[pred], [ps[pred].now EXCEPT !.succ = id])]

CreatePlan(id) ==
  /\ observed.legal /\ observed.generation = id.target
  /\ Key(id) \in DOMAIN byKey => byKey[Key(id)] # id
  /\ \E pred \in Predecessors(id) :
       plans' = Link(Emplace(Displace(plans, id, pred), Fresh(id, FALSE, pred)), id)
  /\ Index(id)
  /\ NoteTaken(id)
  /\ UNCHANGED <<observed, epoch, restarts>>

----------------------------------------------------------------------------
\* dispatch_step
Dispatch(p, i) ==
  LET q == Recomputed(p)
  IN /\ ~Terminal(p) /\ Current(p)
     /\ p.now.lifecycle \in PlanFrom.DISPATCH
     /\ p.now.at[i] = "READY"
     /\ Put(Seal(q, [q.now EXCEPT !.lifecycle = PlanTo.DISPATCH, !.at[i] = "DISPATCHED",
                                  !.moved = TRUE, !.fresh = TRUE]))
     /\ UNCHANGED <<byKey, observed, epoch, restarts, taken>>

\* A dispatch that is refused has recomputed the causes, or invalidated.
RefuseDispatch(p, i) ==
  /\ ~Terminal(p)
  /\ \/ ~Current(p)
     \/ p.now.lifecycle \notin PlanFrom.DISPATCH
     \/ p.now.at[i] # "READY"
  /\ Put(Checked(p))
  /\ UNCHANGED <<byKey, observed, epoch, restarts, taken>>

\* (Fault: a compensating plan closes nothing.)
CompleteReplaced(ps, p, replaces) ==
  IF p.pred = Nil \/ ~replaces THEN ps
  ELSE [ps EXCEPT ![p.pred] = SupersedeEntry(@, p.id)]

\* What completes a rollback closes the plan p that rolls back, and names its
\* successor q.
RolledBack(p, q) ==
  IF ~q.compensates \/ p.now.lifecycle # "ROLLING_BACK" THEN p
  ELSE Seal(p, [p.now EXCEPT !.lifecycle = PlanTo.ROLLBACK_COMPLETED, !.succ = q.id,
                             !.causes = @ \cup {"SUPERSEDED"}, !.required = FALSE,
                             !.moved = TRUE, !.fresh = FALSE])

Replaced(p, q, replaces) ==
  IF replaces THEN SupersedeEntry(RolledBack(p, q), q.id) ELSE RolledBack(p, q)

\* complete_lineage of a plan that has just completed, under a policy that does
\* or does not supersede_predecessor_on_success.
CompleteLineage(ps, p, replaces) ==
  IF p.pred = Nil THEN ps
  ELSE [ps EXCEPT ![p.pred] = Replaced(ps[p.pred], p, replaces)]

\* (Fault: the completed plan is not sealed again.)
CompleteUnsealed(p) ==
  IF p.now.lifecycle = "EXECUTING"
       /\ \A i \in DOMAIN p.now.at : p.now.at[i] \in SatisfiedState
  THEN [p EXCEPT !.now.lifecycle = PlanTo.ALL_STEPS_TERMINAL] ELSE p

\* The last step of a running plan completes it, and the record is sealed again.
CompletePlan(p) ==
  IF p.now.lifecycle = "EXECUTING"
       /\ \A i \in DOMAIN p.now.at : p.now.at[i] \in SatisfiedState
  THEN Seal(p, [p.now EXCEPT !.lifecycle = PlanTo.ALL_STEPS_TERMINAL]) ELSE p

\* Evidence of the dispatch under way; what arrives later is refused unseen.
Awaited(p, i) == p.now.at[i] = "DISPATCHED" /\ p.now.fresh

\* apply_completion, applied: seal, refresh, seal, complete, seal.
CommitApplied(p, i) ==
  LET q == Recomputed(p)
      step == Seal(q, [q.now EXCEPT !.at[i] = "COMPLETED", !.evidence = @ \cup {i}])
      done == CompletePlan(Seal(step, [step.now EXCEPT !.at = Refreshed(@)]))
      stored == [plans EXCEPT ![p.id] = done]
  IN /\ Awaited(p, i) /\ Current(p)
     /\ \E replaces \in BOOLEAN :
          plans' = IF done.now.lifecycle = "COMPLETED"
                   THEN CompleteLineage(stored, done, replaces) ELSE stored
     /\ UNCHANGED <<byKey, observed, epoch, restarts, taken>>

\* apply_completion, ambiguous.
CommitAmbiguous(p, i) ==
  /\ Awaited(p, i) /\ Current(p)
  /\ Put(Seal(p, [p.now EXCEPT !.at[i] = "RECONCILIATION_REQUIRED",
                               !.evidence = @ \cup {i},
                               !.lifecycle = Take("STEP_AMBIGUOUS", @),
                               !.causes = Causes(p) \cup {"REVALIDATE"}]))
  /\ UNCHANGED <<byKey, observed, epoch, restarts, taken>>

\* apply_completion, a failure that is retried, or pauses the plan, or asks for
\* a rollback.
CommitFailure(p, i) ==
  LET failed(life) == [p.now EXCEPT !.at[i] = "FAILED", !.evidence = @ \cup {i},
                                    !.causes = Causes(p), !.lifecycle = life,
                                    !.required = @ \/ life = "ROLLBACK_REQUIRED"]
      outcomes == {[failed(p.now.lifecycle) EXCEPT !.at[i] = "READY"]}
                    \cup {failed(AfterStepFailed(p.now.lifecycle, r)) : r \in BOOLEAN}
  IN /\ Awaited(p, i) /\ Current(p)
     /\ \E now \in outcomes : Put(Seal(p, now))
     /\ UNCHANGED <<byKey, observed, epoch, restarts, taken>>

\* apply_completion, of a plan that is no longer current.
CommitInvalidates(p, i) ==
  /\ Awaited(p, i) /\ ~Current(p)
  /\ Put(Checked(p))
  /\ UNCHANGED <<byKey, observed, epoch, restarts, taken>>

\* reconcile_step seals before it refreshes.
ReconcileStep(p, i) ==
  /\ p.now.at[i] = "RECONCILIATION_REQUIRED"
  /\ \E settled \in {"COMPLETED", "READY"} :
       LET q == Seal(p, [p.now EXCEPT !.at[i] = settled, !.causes = @ \ {"REVALIDATE"}])
       IN Put([q EXCEPT !.now = [q.now EXCEPT !.at = Refreshed(@)]])
  /\ UNCHANGED <<byKey, observed, epoch, restarts, taken>>

----------------------------------------------------------------------------
\* revalidate_plan binds the plan to the current epoch before it looks.
Rebound(p) ==
  Recomputed([p EXCEPT !.now = [p.now EXCEPT !.bound = epoch, !.causes = @ \ {"EPOCH"}]])

Armed(at) == Refreshed([i \in DOMAIN at |-> IF at[i] = "STALE" THEN "PENDING" ELSE at[i]])

RevalidateOk(p) ==
  LET q == Rebound(p)
  IN /\ Current(q)
     /\ p.now.lifecycle \in PlanFrom.REVALIDATE_OK
     /\ Put(Seal(q, [q.now EXCEPT !.lifecycle = PlanTo.REVALIDATE_OK, !.at = Armed(@),
                                  !.causes = {}, !.moved = TRUE]))
     /\ UNCHANGED <<byKey, observed, epoch, restarts, taken>>

\* Refused for the lifecycle, when binding and causes have been written.
RefuseRevalidate(p) ==
  LET q == Rebound(p)
  IN /\ Current(q)
     /\ p.now.lifecycle \notin PlanFrom.REVALIDATE_OK \cup {"RETIRED"}
     /\ Put([q EXCEPT !.now.causes = {}])
     /\ UNCHANGED <<byKey, observed, epoch, restarts, taken>>

\* The target is not current: the plan is superseded, or stays suspended.
RevalidateFail(p) ==
  LET q == [p EXCEPT !.now = [p.now EXCEPT !.causes = Rebound(p).now.causes \cup {"EPOCH"}]]
  IN /\ ~Current(Rebound(p))
     /\ p.now.lifecycle # "RETIRED"
     /\ Put(IF observed.generation > p.id.target THEN SupersedeEntry(q, Nil)
            ELSE Seal(q, [q.now EXCEPT !.moved = TRUE, !.fresh = FALSE]))
     /\ UNCHANGED <<byKey, observed, epoch, restarts, taken>>

PausePlan(p) ==
  /\ p.now.lifecycle \in PlanFrom.PAUSE
  /\ Put(Seal(p, [p.now EXCEPT !.lifecycle = PlanTo.PAUSE]))
  /\ UNCHANGED <<byKey, observed, epoch, restarts, taken>>

RevokePlan(p) ==
  /\ p.now.lifecycle \in PlanFrom.REVOKE
  /\ Put(Seal(p, Fenced([p.now EXCEPT !.lifecycle = PlanTo.REVOKE, !.required = FALSE])))
  /\ UNCHANGED <<byKey, observed, epoch, restarts, taken>>

Retired(at) == [i \in DOMAIN at |-> IF at[i] \in Retirable THEN "RETIRED" ELSE at[i]]

\* retire_plan leaves work in flight where it is.
RetirePlan(p) ==
  /\ p.now.lifecycle \in PlanFrom.RETIRE
  /\ Put(Seal(p, [p.now EXCEPT !.lifecycle = PlanTo.RETIRE, !.required = FALSE,
                               !.moved = TRUE, !.fresh = FALSE, !.at = Retired(@)]))
  /\ UNCHANGED <<byKey, observed, epoch, restarts, taken>>

----------------------------------------------------------------------------
\* begin_rollback

Rollbackable(p) ==
  ~Terminal(p) /\ ~(p.now.lifecycle = "ROLLING_BACK" /\ p.now.rollback # Nil)

\* Refused as unsafe: a flag has been written.
RefuseRollback(p) ==
  /\ Rollbackable(p)
  /\ observed.generation > p.id.target \/ ~observed.restorable \/ ~observed.legal
  /\ Put([p EXCEPT !.now.required = TRUE])
  /\ UNCHANGED <<byKey, observed, epoch, restarts, taken>>

\* The forward plan is fenced first.
RollingBack(p) ==
  Fenced([p.now EXCEPT !.lifecycle = PlanTo.BEGIN_ROLLBACK, !.required = TRUE])

RollbackAllowed(p) ==
  /\ Rollbackable(p)
  /\ observed.generation <= p.id.target /\ observed.restorable /\ observed.legal
  /\ p.now.lifecycle \in PlanFrom.REQUIRE_ROLLBACK \cup PlanFrom.BEGIN_ROLLBACK

\* The source is what is published: there is nothing to undo.
RollbackAtOnce(p) ==
  /\ RollbackAllowed(p) /\ observed.generation = p.id.source
  /\ Put(Seal(p, [RollingBack(p) EXCEPT !.lifecycle = PlanTo.ROLLBACK_COMPLETED,
                                        !.required = FALSE]))
  /\ UNCHANGED <<byKey, observed, epoch, restarts, taken>>

\* What has to be undone: the completed steps that mutate, all but the first.
Applied(p) == Cardinality({i \in DOMAIN p.now.at : i > 1 /\ p.now.at[i] = "COMPLETED"})

BeginRollback(p) ==
  LET id == [source |-> observed.generation, target |-> p.id.source,
             structure |-> Applied(p)]
  IN /\ RollbackAllowed(p) /\ observed.generation # p.id.source
     /\ plans' = [Emplace(plans, Fresh(id, TRUE, p.id)) EXCEPT
                    ![p.id] = Seal(p, [RollingBack(p) EXCEPT !.rollback = id, !.succ = id])]
     /\ Index(id)
     /\ NoteTaken(id)
     /\ UNCHANGED <<observed, epoch, restarts>>

----------------------------------------------------------------------------
\* Notices, epochs and workers

\* Every open plan of the route is replaced.
ChangeOpen(changed) ==
  plans' = [id \in DOMAIN plans |-> IF Terminal(plans[id]) THEN plans[id] ELSE changed[id]]

Noted(p) == IF Current(p) THEN Touch(Recomputed(p)) ELSE Checked(p)

NoteRouteChange ==
  /\ ChangeOpen([id \in DOMAIN plans |->
                   IF observed.generation > id.target THEN SupersedeEntry(plans[id], Nil)
                   ELSE IF observed.generation = id.target THEN Noted(plans[id])
                   ELSE plans[id]])
  /\ UNCHANGED <<byKey, observed, epoch, restarts, taken>>

NotePathChange ==
  /\ ChangeOpen([id \in DOMAIN plans |-> Noted(plans[id])])
  /\ UNCHANGED <<byKey, observed, epoch, restarts, taken>>

\* apply_epoch.
AdvanceEpoch ==
  /\ epoch < MaxEpoch
  /\ epoch' = epoch + 1
  /\ ChangeOpen([id \in DOMAIN plans |-> InvalidatePlan(plans[id], "EPOCH")])
  /\ UNCHANGED <<byKey, observed, restarts, taken>>

\* stale_in_flight_steps_of_boot: of a closed plan the steps only.
LoseWorker(p) ==
  /\ \E i \in DOMAIN p.now.at : p.now.at[i] = "DISPATCHED"
  /\ Put(InvalidatePlan([p EXCEPT !.now = [p.now EXCEPT !.at = Stale(@)]], "FENCED"))
  /\ UNCHANGED <<byKey, observed, epoch, restarts, taken>>

ChangeUpstream ==
  /\ observed' \in Observations \ {observed}
  /\ UNCHANGED <<plans, byKey, epoch, restarts, taken>>

RecoveredSteps(at) == Refreshed([i \in DOMAIN at |-> RecoveredStep(at[i])])

\* decode_state of the records as they are: recovered, sealed, and only then
\* given the new watermark.  The index by key is filled in the order of digests,
\* so of several plans of one key any may be the last.
Recovered(p) ==
  LET q == Seal(p, [p.now EXCEPT !.lifecycle = RecoveredPlan(@), !.at = RecoveredSteps(@)])
  IN [q EXCEPT !.now = [q.now EXCEPT !.moved = TRUE, !.fresh = FALSE]]

Restart ==
  /\ restarts < MaxRestarts /\ restarts' = restarts + 1
  /\ \A id \in DOMAIN plans : Loadable(plans[id])
  /\ plans' = [id \in DOMAIN plans |-> Recovered(plans[id])]
  /\ byKey' \in {index \in [DOMAIN byKey -> DOMAIN plans] :
                   \A k \in DOMAIN byKey : Key(index[k]) = k}
  /\ UNCHANGED <<observed, epoch, taken>>

----------------------------------------------------------------------------
Init ==
  /\ plans = <<>> /\ byKey = <<>>
  /\ observed \in Observations
  /\ epoch = 1 /\ restarts = 0 /\ events = 0
  /\ taken = {}

StepAction(p, i) ==
  \/ Dispatch(p, i)
  \/ CommitApplied(p, i)
  \/ CommitInvalidates(p, i)
  \/ ReconcileStep(p, i)

PlanAction(p) ==
  \/ \E i \in DOMAIN p.now.at : StepAction(p, i)
  \/ RevalidateOk(p)
  \/ RevalidateFail(p)
  \/ RefuseRollback(p)
  \/ RollbackAtOnce(p)
  \/ BeginRollback(p)

\* What a failing step, a refused request or an operator may do at any time.
Disturb(p) ==
  \/ \E i \in DOMAIN p.now.at : \/ RefuseDispatch(p, i)
                               \/ CommitAmbiguous(p, i)
                               \/ CommitFailure(p, i)
  \/ RefuseRevalidate(p)
  \/ PausePlan(p)
  \/ RevokePlan(p)
  \/ RetirePlan(p)
  \/ LoseWorker(p)

Ordinary ==
  \/ \E id \in DOMAIN plans : PlanAction(plans[id])
  \/ NoteRouteChange
  \/ NotePathChange

Outside ==
  \/ \E id \in Forwards : CreatePlan(id)
  \/ \E id \in DOMAIN plans : Disturb(plans[id])
  \/ AdvanceEpoch
  \/ ChangeUpstream
  \/ Restart

Next ==
  \/ Ordinary /\ UNCHANGED events
  \/ Outside /\ events < MaxEvents /\ events' = events + 1

Spec == Init /\ [][Next]_vars

----------------------------------------------------------------------------
PlanCause == {"SUPERSEDED", "UPSTREAM", "EPOCH", "FENCED", "REVALIDATE"}

Content(steps, last, ids) ==
  [lifecycle : PlanLifecycle, causes : SUBSET PlanCause, bound : 1 .. last,
   succ : ids \cup {Nil}, rollback : ids \cup {Nil}, required : BOOLEAN,
   evidence : SUBSET (1 .. steps), at : [1 .. steps -> StepLifecycle],
   moved : BOOLEAN, fresh : BOOLEAN]

PlanRecord(id, last, ids) ==
  [id : {id}, compensates : BOOLEAN, pred : ids \cup {Nil},
   now : Content(StepCount(id), last, ids), sealed : Content(StepCount(id), last, ids)]

\* The records, sealed and unsealed, the index and the counters are well typed,
\* and the index names a plan of the key.
TypeOK ==
  /\ Nil \notin DOMAIN plans
  /\ \A id \in DOMAIN plans : plans[id] \in PlanRecord(id, epoch, DOMAIN plans)
  /\ DOMAIN byKey = {Key(id) : id \in DOMAIN plans}
  /\ \A k \in DOMAIN byKey : byKey[k] \in DOMAIN plans /\ Key(byKey[k]) = k
  /\ observed \in Observations
  /\ epoch \in 1 .. MaxEpoch /\ restarts \in 0 .. MaxRestarts
  /\ events \in 0 .. MaxEvents
  /\ taken \subseteq DOMAIN plans

\* What the digest covers at any moment, however many mutations were refused,
\* interrupted or recovered since: the lifecycle, what is completed, in flight
\* or in doubt of an open plan, and the evidence (the comment of touch_plan,
\* and governor_mutate.cpp, 351-354).
OutcomeIsSealed ==
  \A id \in DOMAIN plans :
    LET now == plans[id].now
        sealed == plans[id].sealed
    IN /\ now.lifecycle = sealed.lifecycle
       /\ now.evidence = sealed.evidence
       /\ \A i \in DOMAIN now.at :
            now.at[i] # sealed.at[i] =>
              \/ sealed.at[i] = "PENDING" /\ now.at[i] = "READY"
              \/ now.lifecycle \in TerminalLifecycle /\ now.at[i] = "STALE"

\* A plan that names a successor is named as its predecessor, unless the
\* successor's identity had been taken before (README.md, 277-279).
LineageIsMutual ==
  \A id \in DOMAIN plans :
    LET succ == plans[id].now.succ
    IN succ # Nil /\ succ \notin taken => plans[succ].pred = id

\* A completed compensating plan has closed the plan it compensates, unless its
\* identity had been taken before (README.md, 289-293).
RollbackCloses ==
  \A id \in DOMAIN plans :
    LET undo == plans[id].now.rollback
    IN undo # Nil /\ undo \notin taken /\ plans[undo].now.lifecycle = "COMPLETED" =>
         plans[id].now.lifecycle # "ROLLING_BACK"

\* A rollback to the key was begun: its compensating plan took the index.
Retargeted(key) ==
  \E id \in DOMAIN plans :
    plans[id].now.rollback # Nil /\ Key(plans[id].now.rollback) = key

\* A key has one open plan, as long as no restart has rebuilt the index in the
\* order of digests, and no rollback to that key was begun (README.md, 100-104).
OneOpenPlanPerKey ==
  restarts = 0 =>
    \A p, q \in DOMAIN plans :
      /\ Key(p) = Key(q) /\ ~Retargeted(Key(p))
      /\ ~Terminal(plans[p]) /\ ~Terminal(plans[q])
      => p = q

\* A plan whose rollback was begun rolls back or is closed, and its compensating
\* plan, unless its identity had been taken before, names it.
RollbackIsNamed ==
  \A id \in DOMAIN plans :
    LET undo == plans[id].now.rollback
    IN undo # Nil =>
         /\ Terminal(plans[id]) \/ plans[id].now.lifecycle = "ROLLING_BACK"
         /\ undo \notin taken => plans[undo].pred = id /\ plans[undo].compensates

\* An open plan is the one the index names, or a rollback has taken its key.
IndexNamesTheOpen ==
  restarts = 0 =>
    \A id \in DOMAIN plans :
      Terminal(plans[id]) \/ byKey[Key(id)] = id \/ Retargeted(Key(id))

\* What supersession and rollback rely on: typed records, compensating plans that
\* name what they compensate, and an index that leads to the open plan of a key.
LineageInvariant == TypeOK /\ RollbackIsNamed /\ IndexNamesTheOpen

\* The claim that every image can be loaded again (README.md, 336; the comment
\* of touch_plan, governor_core.cpp, 354-358).
StoreCanBeLoaded == \A id \in DOMAIN plans : Loadable(plans[id])

\* The claim that a plan which is created can be executed: the transitions from
\* DECLARED to READY were taken (governor_mutate.cpp, 844-845).
CreatedPlanIsReady ==
  [][\A id \in Forwards : CreatePlan(id) => plans'[id].now.lifecycle = "READY"]_vars
=============================================================================
