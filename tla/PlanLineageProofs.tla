------------------------- MODULE PlanLineageProofs -------------------------
(***************************************************************************)
(* What holds of PlanLineage for any set of plans that may be asked for,   *)
(* any number of steps, and whatever the upstream route looks like.        *)
(***************************************************************************)
EXTENDS PlanLineage, TLAPS

----------------------------------------------------------------------------
\* The lifecycle table

\* The rows of the published table that the actions on a plan take.
LEMMA PlanTable ==
  /\ PlanFrom.DISPATCH = {"READY", "EXECUTING"} /\ PlanTo.DISPATCH = "EXECUTING"
  /\ PlanFrom.REVALIDATE_OK = {"VALIDATING", "REVALIDATION_REQUIRED", "PAUSED"}
  /\ PlanTo.REVALIDATE_OK = "READY"
  /\ PlanFrom.PAUSE = {"VALIDATING", "READY", "EXECUTING"} /\ PlanTo.PAUSE = "PAUSED"
  /\ PlanFrom.REVOKE = Open \ {"ROLLING_BACK"} /\ PlanTo.REVOKE = "REVOKED"
  /\ PlanTo.RETIRE = "RETIRED" /\ PlanTo.ROLLBACK_COMPLETED = "SUPERSEDED"
  /\ PlanFrom.SUPERSEDE = Open /\ PlanTo.SUPERSEDE = "SUPERSEDED"
  /\ PlanFrom.REQUIRE_ROLLBACK =
       {"VALIDATING", "READY", "EXECUTING", "PAUSED", "REVALIDATION_REQUIRED"}
  /\ PlanFrom.BEGIN_ROLLBACK = {"ROLLBACK_REQUIRED"}
  /\ PlanTo.BEGIN_ROLLBACK = "ROLLING_BACK"
  /\ PlanTo.ALL_STEPS_TERMINAL = "COMPLETED" /\ PlanTo.VALIDATE_OK = "READY"
BY DEF PlanFrom, PlanTo

\* Where a plan may go, whatever happens to it, unless it completes or its
\* rollback begins: a closed plan stays closed, and a plan that rolls back rolls
\* back until it is closed.
Onward(a, b) ==
  /\ a \in TerminalLifecycle => b \in TerminalLifecycle
  /\ a = "ROLLING_BACK" => b \in TerminalLifecycle \cup {"ROLLING_BACK"}
  /\ b = "COMPLETED" => a = "COMPLETED"

\* Where an event leads is onward.
LEMMA TakeOnward ==
  ASSUME NEW life \in PlanLifecycle
  PROVE  /\ Take("INVALIDATE", life) \in PlanLifecycle
         /\ Onward(life, Take("INVALIDATE", life))
         /\ Take("STEP_AMBIGUOUS", life) \in PlanLifecycle
         /\ Onward(life, Take("STEP_AMBIGUOUS", life))
BY DEF Take, PlanFrom, PlanTo, Onward, PlanLifecycle, TerminalLifecycle

\* So is where a failed step leads,
LEMMA FailedOnward ==
  ASSUME NEW life \in PlanLifecycle, NEW r \in BOOLEAN
  PROVE  /\ AfterStepFailed(life, r) \in PlanLifecycle
         /\ Onward(life, AfterStepFailed(life, r))
BY DEF AfterStepFailed, PlanFrom, Onward, PlanLifecycle, TerminalLifecycle

\* and what a recovery makes of a plan.
LEMMA RecoveredOnward ==
  ASSUME NEW life \in PlanLifecycle
  PROVE  RecoveredPlan(life) \in PlanLifecycle /\ Onward(life, RecoveredPlan(life))
BY DEF RecoveredPlan, Onward, PlanLifecycle, TerminalLifecycle

----------------------------------------------------------------------------
\* Records

\* What OutcomeIsSealed says of one record.
Covered(p) ==
  /\ p.now.lifecycle = p.sealed.lifecycle
  /\ p.now.evidence = p.sealed.evidence
  /\ \A i \in DOMAIN p.now.at :
       p.now.at[i] # p.sealed.at[i] =>
         \/ p.sealed.at[i] = "PENDING" /\ p.now.at[i] = "READY"
         \/ p.now.lifecycle \in TerminalLifecycle /\ p.now.at[i] = "STALE"

\* q is what a mutation that is not about lineage makes of p.
Follows(p, q, last, ids) ==
  /\ q \in PlanRecord(p.id, last, ids) /\ Covered(q)
  /\ q.pred = p.pred /\ q.compensates = p.compensates
  /\ q.now.succ = p.now.succ /\ q.now.rollback = p.now.rollback
  /\ Onward(p.now.lifecycle, q.now.lifecycle)

\* The parts of a record.
LEMMA RecordParts ==
  ASSUME NEW id, NEW last, NEW ids, NEW p \in PlanRecord(id, last, ids)
  PROVE  /\ p.id = id /\ p.compensates \in BOOLEAN /\ p.pred \in ids \cup {Nil}
         /\ p.now \in Content(StepCount(id), last, ids)
         /\ p.sealed \in Content(StepCount(id), last, ids)
BY DEF PlanRecord

\* The parts of a content.
LEMMA ContentParts ==
  ASSUME NEW n, NEW last, NEW ids, NEW c \in Content(n, last, ids)
  PROVE  /\ c.lifecycle \in PlanLifecycle /\ c.causes \in SUBSET PlanCause
         /\ c.bound \in 1 .. last /\ c.succ \in ids \cup {Nil}
         /\ c.rollback \in ids \cup {Nil} /\ c.required \in BOOLEAN
         /\ c.evidence \in SUBSET (1 .. n) /\ c.at \in [1 .. n -> StepLifecycle]
         /\ c.moved \in BOOLEAN /\ c.fresh \in BOOLEAN
BY DEF Content

\* A larger set of plans and a later epoch.
LEMMA RecordGrows ==
  ASSUME NEW id, NEW last \in Nat, NEW ids, NEW p \in PlanRecord(id, last, ids),
         NEW later \in Nat, last <= later, NEW more, ids \subseteq more
  PROVE  p \in PlanRecord(id, later, more)
<1>1. ASSUME NEW c \in Content(StepCount(id), last, ids)
      PROVE  c \in Content(StepCount(id), later, more)
  <2>1. c.bound \in 1 .. later
    BY ContentParts
  <2> QED
    BY <2>1 DEF Content
<1> QED
  BY <1>1 DEF PlanRecord

\* A record with another content.
LEMMA Rewritten ==
  ASSUME NEW id, NEW last, NEW ids, NEW p \in PlanRecord(id, last, ids),
         NEW c \in Content(StepCount(id), last, ids)
  PROVE  /\ [p EXCEPT !.now = c] \in PlanRecord(id, last, ids)
         /\ [p EXCEPT !.now = c].now = c
         /\ [p EXCEPT !.now = c].sealed = p.sealed
         /\ [p EXCEPT !.now = c].id = p.id
         /\ [p EXCEPT !.now = c].pred = p.pred
         /\ [p EXCEPT !.now = c].compensates = p.compensates
BY DEF PlanRecord

\* touch_plan covers the content it is given.
LEMMA TouchRecord ==
  ASSUME NEW id, NEW last, NEW ids, NEW p \in PlanRecord(id, last, ids)
  PROVE  /\ Touch(p) \in PlanRecord(id, last, ids) /\ Covered(Touch(p))
         /\ Touch(p).pred = p.pred /\ Touch(p).compensates = p.compensates
         /\ Touch(p).now.lifecycle = p.now.lifecycle
         /\ Touch(p).now.succ = p.now.succ /\ Touch(p).now.rollback = p.now.rollback
         /\ Touch(p).now.at = p.now.at
         /\ Touch(p).sealed = Touch(p).now
<1> DEFINE c == [p.now EXCEPT !.moved = FALSE]
<1>1. p.now \in Content(StepCount(id), last, ids)
  BY RecordParts
<1>2. /\ c \in Content(StepCount(id), last, ids)
      /\ c.lifecycle = p.now.lifecycle /\ c.succ = p.now.succ
      /\ c.rollback = p.now.rollback /\ c.at = p.now.at
  BY <1>1 DEF Content
<1> HIDE DEF c
<1>3. Touch(p) = [p EXCEPT !.now = c, !.sealed = c]
  BY DEF Touch, c
<1>4. /\ Touch(p) \in PlanRecord(id, last, ids)
      /\ Touch(p).now = c /\ Touch(p).sealed = c
      /\ Touch(p).pred = p.pred /\ Touch(p).compensates = p.compensates
  BY <1>2, <1>3 DEF PlanRecord
<1> QED
  BY <1>2, <1>4 DEF Covered

\* A content that is written and sealed.
LEMMA SealRecord ==
  ASSUME NEW id, NEW last, NEW ids, NEW p \in PlanRecord(id, last, ids),
         NEW c \in Content(StepCount(id), last, ids)
  PROVE  /\ Seal(p, c) \in PlanRecord(id, last, ids) /\ Covered(Seal(p, c))
         /\ Seal(p, c).pred = p.pred /\ Seal(p, c).compensates = p.compensates
         /\ Seal(p, c).now.lifecycle = c.lifecycle
         /\ Seal(p, c).now.succ = c.succ /\ Seal(p, c).now.rollback = c.rollback
         /\ Seal(p, c).now.at = c.at
         /\ Seal(p, c).sealed = Seal(p, c).now
<1> DEFINE q == [p EXCEPT !.now = c]
<1>1. /\ q \in PlanRecord(id, last, ids) /\ q.now = c
      /\ q.pred = p.pred /\ q.compensates = p.compensates
  BY Rewritten
<1>2. Seal(p, c) = Touch(q)
  BY DEF Seal
<1> HIDE DEF q
<1> QED
  BY <1>1, <1>2, TouchRecord

\* A mutation that seals what it writes.
LEMMA Seals ==
  ASSUME NEW id, NEW last, NEW ids, NEW p \in PlanRecord(id, last, ids),
         NEW c \in Content(StepCount(id), last, ids),
         c.succ = p.now.succ, c.rollback = p.now.rollback,
         Onward(p.now.lifecycle, c.lifecycle)
  PROVE  Follows(p, Seal(p, c), last, ids)
BY SealRecord, RecordParts DEF Follows

\* A mutation that writes without a seal, and changes no outcome.
LEMMA Writes ==
  ASSUME NEW id, NEW last, NEW ids, NEW p \in PlanRecord(id, last, ids), Covered(p),
         NEW c \in Content(StepCount(id), last, ids),
         c.succ = p.now.succ, c.rollback = p.now.rollback,
         c.lifecycle = p.now.lifecycle, c.evidence = p.now.evidence,
         \A i \in DOMAIN c.at :
           \/ c.at[i] = p.now.at[i]
           \/ c.at[i] = "READY" /\ p.sealed.at[i] = "PENDING"
           \/ c.at[i] = "STALE" /\ p.now.lifecycle \in TerminalLifecycle
  PROVE  Follows(p, [p EXCEPT !.now = c], last, ids)
<1> DEFINE q == [p EXCEPT !.now = c]
<1>1. /\ q \in PlanRecord(id, last, ids) /\ q.now = c /\ q.sealed = p.sealed
      /\ q.pred = p.pred /\ q.compensates = p.compensates /\ p.id = id
  BY Rewritten, RecordParts
<1> HIDE DEF q
<1>2. DOMAIN c.at = DOMAIN p.now.at
  BY RecordParts, ContentParts
<1>3. Covered(q)
  BY <1>1, <1>2 DEF Covered
<1>4. Onward(p.now.lifecycle, c.lifecycle)
  BY DEF Onward
<1>5. Follows(p, q, last, ids)
  BY <1>1, <1>3, <1>4 DEF Follows
<1> QED
  BY <1>5 DEF q

\* One mutation after another is a mutation.
LEMMA FollowsAgain ==
  ASSUME NEW p, NEW q, NEW r, NEW last, NEW ids,
         Follows(p, q, last, ids), Follows(q, r, last, ids), q.id = p.id
  PROVE  Follows(p, r, last, ids)
BY DEF Follows, Onward

----------------------------------------------------------------------------
\* The mutations of one record

\* What the mutations make of the steps are steps, and how they may differ.
LEMMA StepsTyped ==
  ASSUME NEW n, NEW at \in [1 .. n -> StepLifecycle]
  PROVE  /\ Refreshed(at) \in [1 .. n -> StepLifecycle]
         /\ Armed(at) \in [1 .. n -> StepLifecycle]
         /\ \A i \in 1 .. n :
              Refreshed(at)[i] # at[i] => Refreshed(at)[i] = "READY" /\ at[i] = "PENDING"
         /\ \A i \in 1 .. n, s \in StepLifecycle :
              [at EXCEPT ![i] = s] \in [1 .. n -> StepLifecycle]
<1>1. ASSUME NEW a \in [1 .. n -> StepLifecycle]
      PROVE  Refreshed(a) \in [1 .. n -> StepLifecycle]
  BY DEF Refreshed, StepLifecycle
<1>2. [i \in DOMAIN at |-> IF at[i] = "STALE" THEN "PENDING" ELSE at[i]]
        \in [1 .. n -> StepLifecycle]
  BY DEF StepLifecycle
<1>3. \A i \in 1 .. n :
        Refreshed(at)[i] # at[i] => Refreshed(at)[i] = "READY" /\ at[i] = "PENDING"
  BY DEF Refreshed
<1> QED
  BY <1>1, <1>2, <1>3 DEF Armed

\* Work in flight becomes stale.
LEMMA StaleTyped ==
  ASSUME NEW n, NEW at \in [1 .. n -> StepLifecycle]
  PROVE  /\ Stale(at) \in [1 .. n -> StepLifecycle]
         /\ \A i \in 1 .. n : Stale(at)[i] # at[i] => Stale(at)[i] = "STALE"
BY DEF Stale, StepLifecycle

\* What retire_plan makes of the steps.
LEMMA RetiredTyped ==
  ASSUME NEW n, NEW at \in [1 .. n -> StepLifecycle]
  PROVE  Retired(at) \in [1 .. n -> StepLifecycle]
BY DEF Retired, StepLifecycle

\* What decode_state makes of the steps.
LEMMA RecoveredTyped ==
  ASSUME NEW n, NEW at \in [1 .. n -> StepLifecycle]
  PROVE  RecoveredSteps(at) \in [1 .. n -> StepLifecycle]
<1> DEFINE b == [i \in DOMAIN at |-> RecoveredStep(at[i])]
<1>1. b \in [1 .. n -> StepLifecycle]
  BY DEF RecoveredStep, StepLifecycle
<1>2. RecoveredSteps(at) = Refreshed(b)
  BY DEF RecoveredSteps
<1> HIDE DEF b
<1> QED
  BY <1>1, <1>2, StepsTyped

\* What recompute_currentness finds.
LEMMA CausesTyped ==
  ASSUME NEW id, NEW last, NEW ids, NEW p \in PlanRecord(id, last, ids)
  PROVE  Causes(p) \in SUBSET PlanCause
BY DEF Causes, PlanCause

\* recompute_currentness writes no more than causes.
LEMMA Recomputes ==
  ASSUME NEW id, NEW last, NEW ids, NEW p \in PlanRecord(id, last, ids), Covered(p)
  PROVE  /\ Follows(p, Recomputed(p), last, ids)
         /\ Recomputed(p).id = id
         /\ Recomputed(p).now.lifecycle = p.now.lifecycle
         /\ Recomputed(p).now.at = p.now.at
<1> DEFINE c == [p.now EXCEPT !.causes = Causes(p)]
<1>1. p.now \in Content(StepCount(id), last, ids) /\ Causes(p) \in SUBSET PlanCause
  BY RecordParts, CausesTyped
<1>2. /\ c \in Content(StepCount(id), last, ids)
      /\ c.succ = p.now.succ /\ c.rollback = p.now.rollback
      /\ c.lifecycle = p.now.lifecycle /\ c.evidence = p.now.evidence /\ c.at = p.now.at
  BY <1>1 DEF Content
<1>3. Recomputed(p) = [p EXCEPT !.now = c]
  BY DEF Recomputed
<1> HIDE DEF c
<1>4. Follows(p, [p EXCEPT !.now = c], last, ids)
  BY <1>2, Writes
<1>5. Recomputed(p).now = c /\ Recomputed(p).id = id
  BY <1>2, <1>3, Rewritten, RecordParts
<1> QED
  BY <1>2, <1>3, <1>4, <1>5

\* supersede_entry closes the plan, and names a successor if it has one.
LEMMA Supersedes ==
  ASSUME NEW id, NEW last, NEW ids, NEW p \in PlanRecord(id, last, ids), Covered(p),
         NEW s \in ids \cup {Nil}
  PROVE  LET q == SupersedeEntry(p, s)
         IN /\ q \in PlanRecord(id, last, ids) /\ Covered(q) /\ Terminal(q)
            /\ q.pred = p.pred /\ q.compensates = p.compensates
            /\ q.now.rollback = p.now.rollback
            /\ q.now.succ \in {p.now.succ, s} /\ (s = Nil => q.now.succ = p.now.succ)
            /\ Onward(p.now.lifecycle, q.now.lifecycle)
<1> DEFINE q == SupersedeEntry(p, s)
<1>1. /\ p.now \in Content(StepCount(id), last, ids) /\ p.now.lifecycle \in PlanLifecycle
      /\ p.now.at \in [1 .. StepCount(id) -> StepLifecycle]
  BY RecordParts, ContentParts
<1>2. CASE p.now.lifecycle \in TerminalLifecycle
  <2>1. q = p
    BY <1>2, PlanTable DEF SupersedeEntry, Open
  <2> QED
    BY <1>2, <2>1 DEF Terminal, Onward
<1>3. CASE p.now.lifecycle \notin TerminalLifecycle
  <2> DEFINE b == [p.now EXCEPT !.lifecycle = "SUPERSEDED",
                                !.succ = IF s = Nil THEN p.now.succ ELSE s,
                                !.causes = p.now.causes \cup {"SUPERSEDED"},
                                !.required = FALSE]
             c == [b EXCEPT !.moved = TRUE, !.fresh = FALSE, !.at = Stale(b.at)]
  <2>1. /\ b \in Content(StepCount(id), last, ids)
        /\ b.lifecycle = "SUPERSEDED" /\ b.rollback = p.now.rollback
        /\ b.succ = (IF s = Nil THEN p.now.succ ELSE s)
    BY <1>1 DEF Content, PlanCause, PlanLifecycle
  <2>2. q = Seal(p, c)
    BY <1>1, <1>3, PlanTable DEF SupersedeEntry, Fenced, Open
  <2> HIDE DEF b
  <2>3. Stale(b.at) \in [1 .. StepCount(id) -> StepLifecycle]
    BY <2>1, ContentParts, StaleTyped
  <2>4. /\ c \in Content(StepCount(id), last, ids)
        /\ c.lifecycle = b.lifecycle /\ c.rollback = b.rollback /\ c.succ = b.succ
    BY <2>1, <2>3 DEF Content
  <2> HIDE DEF c, q
  <2>6. /\ q \in PlanRecord(id, last, ids) /\ Covered(q)
        /\ q.pred = p.pred /\ q.compensates = p.compensates
        /\ q.now.lifecycle = "SUPERSEDED"
        /\ q.now.succ = c.succ /\ q.now.rollback = p.now.rollback
    BY <2>1, <2>2, <2>4, SealRecord
  <2>7. Terminal(q) /\ Onward(p.now.lifecycle, q.now.lifecycle)
    BY <2>6 DEF Terminal, Onward, TerminalLifecycle
  <2> QED
    BY <2>1, <2>4, <2>6, <2>7 DEF q
<1> QED
  BY <1>2, <1>3

\* invalidate_plan.
LEMMA Invalidates ==
  ASSUME NEW id, NEW last, NEW ids, NEW p \in PlanRecord(id, last, ids), Covered(p),
         NEW cause \in PlanCause
  PROVE  Follows(p, InvalidatePlan(p, cause), last, ids)
<1>1. /\ p.now \in Content(StepCount(id), last, ids) /\ p.now.lifecycle \in PlanLifecycle
      /\ p.now.at \in [1 .. StepCount(id) -> StepLifecycle] /\ p.id = id
  BY RecordParts, ContentParts
<1>2. CASE Terminal(p)
  BY <1>1, <1>2 DEF InvalidatePlan, Follows, Onward
<1>3. CASE ~Terminal(p)
  <2> DEFINE life == Take("INVALIDATE", p.now.lifecycle)
             b == [p.now EXCEPT !.lifecycle = life, !.causes = p.now.causes \cup {cause}]
             c == [b EXCEPT !.moved = TRUE, !.fresh = FALSE, !.at = Stale(b.at)]
  <2>1. InvalidatePlan(p, cause) = Seal(p, c)
    BY <1>3 DEF InvalidatePlan, Fenced
  <2>2. life \in PlanLifecycle /\ Onward(p.now.lifecycle, life)
    BY <1>1, TakeOnward
  <2> HIDE DEF life
  <2>3. /\ b \in Content(StepCount(id), last, ids)
        /\ b.lifecycle = life /\ b.rollback = p.now.rollback /\ b.succ = p.now.succ
    BY <1>1, <2>2 DEF Content
  <2> HIDE DEF b
  <2>4. Stale(b.at) \in [1 .. StepCount(id) -> StepLifecycle]
    BY <2>3, ContentParts, StaleTyped
  <2>5. /\ c \in Content(StepCount(id), last, ids)
        /\ c.lifecycle = b.lifecycle /\ c.rollback = b.rollback /\ c.succ = b.succ
    BY <2>3, <2>4 DEF Content
  <2> HIDE DEF c
  <2> QED
    BY <2>1, <2>2, <2>3, <2>5, Seals
<1> QED
  BY <1>2, <1>3

\* What a refused mutation and a notice make of a plan.
LEMMA Checks ==
  ASSUME NEW id, NEW last, NEW ids, NEW p \in PlanRecord(id, last, ids), Covered(p)
  PROVE  Follows(p, Checked(p), last, ids) /\ Follows(p, Noted(p), last, ids)
<1> DEFINE q == Recomputed(p)
<1>0. p.id = id
  BY RecordParts
<1>1. Follows(p, q, last, ids) /\ q.id = id
  BY Recomputes
<1>2. q \in PlanRecord(id, last, ids) /\ Covered(q)
  BY <1>0, <1>1 DEF Follows
<1> HIDE DEF q
<1>3. Follows(q, InvalidatePlan(q, "REVALIDATE"), last, ids)
  BY <1>2, Invalidates DEF PlanCause
<1>4. Follows(q, Touch(q), last, ids)
  BY <1>1, <1>2, TouchRecord DEF Follows, Onward
<1>5. /\ Checked(p) \in {q, InvalidatePlan(q, "REVALIDATE")}
      /\ Noted(p) \in {Touch(q), Checked(p)}
  BY DEF Checked, Noted, q
<1> QED
  BY <1>0, <1>1, <1>3, <1>4, <1>5, FollowsAgain

----------------------------------------------------------------------------
\* Actions on one plan

\* What an action that is not about lineage makes of the record of a plan.
Mutates(id) ==
  \E q : Put(q) /\ Follows(plans[id], q, epoch, DOMAIN plans)

\* What is known of the record of a plan in a state of the invariants.
LEMMA KnownRecord ==
  ASSUME TypeOK, OutcomeIsSealed, NEW id \in DOMAIN plans
  PROVE  /\ plans[id] \in PlanRecord(id, epoch, DOMAIN plans) /\ Covered(plans[id])
         /\ plans[id].id = id /\ id # Nil
         /\ plans[id].now \in Content(StepCount(id), epoch, DOMAIN plans)
         /\ plans[id].now.lifecycle \in PlanLifecycle
         /\ plans[id].now.at \in [1 .. StepCount(id) -> StepLifecycle]
         /\ plans[id].now.evidence \in SUBSET (1 .. StepCount(id))
<1>1. plans[id] \in PlanRecord(id, epoch, DOMAIN plans)
  BY DEF TypeOK
<1>2. Covered(plans[id])
  BY DEF OutcomeIsSealed, Covered
<1>3. plans[id].now \in Content(StepCount(id), epoch, DOMAIN plans) /\ plans[id].id = id
  BY <1>1, RecordParts
<1>4. id # Nil
  BY DEF TypeOK
<1> QED
  BY <1>1, <1>2, <1>3, <1>4, ContentParts

\* dispatch_step seals what it writes.
LEMMA DispatchMutates ==
  ASSUME TypeOK, OutcomeIsSealed, NEW id \in DOMAIN plans,
         NEW i \in DOMAIN plans[id].now.at, Dispatch(plans[id], i)
  PROVE  Mutates(id)
<1> DEFINE p == plans[id]
           q == Recomputed(p)
           c == [q.now EXCEPT !.lifecycle = PlanTo.DISPATCH, !.at[i] = "DISPATCHED",
                              !.moved = TRUE, !.fresh = TRUE]
<1>1. Put(Seal(q, c)) /\ p.now.lifecycle \in PlanFrom.DISPATCH
  BY DEF Dispatch
<1>2. p \in PlanRecord(id, epoch, DOMAIN plans) /\ Covered(p) /\ p.id = id
  BY KnownRecord
<1>3. Follows(p, q, epoch, DOMAIN plans) /\ q.id = id /\ q.now.lifecycle = p.now.lifecycle
  BY <1>2, Recomputes
<1>4. q \in PlanRecord(id, epoch, DOMAIN plans)
  BY <1>2, <1>3 DEF Follows
<1> HIDE DEF p, q
<1>5. q.now \in Content(StepCount(id), epoch, DOMAIN plans)
  BY <1>4, RecordParts
<1>6. /\ c \in Content(StepCount(id), epoch, DOMAIN plans)
      /\ c.succ = q.now.succ /\ c.rollback = q.now.rollback /\ c.lifecycle = "EXECUTING"
  BY <1>5, PlanTable DEF Content, PlanLifecycle, StepLifecycle
<1>7. Onward(q.now.lifecycle, "EXECUTING")
  BY <1>1, <1>3, PlanTable DEF Onward, TerminalLifecycle
<1> HIDE DEF c
<1>8. Follows(q, Seal(q, c), epoch, DOMAIN plans)
  BY <1>4, <1>6, <1>7, Seals
<1>9. Follows(p, Seal(q, c), epoch, DOMAIN plans)
  BY <1>2, <1>3, <1>8, FollowsAgain
<1> QED
  BY <1>1, <1>9 DEF Mutates, p

\* An action that seals one content into the record of the plan.
LEMMA SealMutates ==
  ASSUME TypeOK, OutcomeIsSealed, NEW id \in DOMAIN plans,
         NEW c \in Content(StepCount(id), epoch, DOMAIN plans),
         c.succ = plans[id].now.succ, c.rollback = plans[id].now.rollback,
         Onward(plans[id].now.lifecycle, c.lifecycle), Put(Seal(plans[id], c))
  PROVE  Mutates(id)
<1>1. Follows(plans[id], Seal(plans[id], c), epoch, DOMAIN plans)
  BY KnownRecord, Seals
<1> QED
  BY <1>1 DEF Mutates

\* apply_completion, ambiguous.
LEMMA AmbiguousMutates ==
  ASSUME TypeOK, OutcomeIsSealed, NEW id \in DOMAIN plans,
         NEW i \in DOMAIN plans[id].now.at, CommitAmbiguous(plans[id], i)
  PROVE  Mutates(id)
<1> DEFINE now == plans[id].now
           life == Take("STEP_AMBIGUOUS", now.lifecycle)
           causes == Causes(plans[id]) \cup {"REVALIDATE"}
           c == [now EXCEPT !.at[i] = "RECONCILIATION_REQUIRED",
                            !.evidence = now.evidence \cup {i},
                            !.lifecycle = life, !.causes = causes]
<1>1. Put(Seal(plans[id], c))
  BY DEF CommitAmbiguous
<1>2. /\ now \in Content(StepCount(id), epoch, DOMAIN plans) /\ i \in 1 .. StepCount(id)
      /\ now.lifecycle \in PlanLifecycle
  BY KnownRecord
<1>3. life \in PlanLifecycle /\ Onward(now.lifecycle, life)
  BY <1>2, TakeOnward
<1>4. causes \in SUBSET PlanCause
  BY KnownRecord, CausesTyped DEF PlanCause
<1> HIDE DEF life, causes
<1>5. /\ c \in Content(StepCount(id), epoch, DOMAIN plans)
      /\ c.succ = now.succ /\ c.rollback = now.rollback /\ c.lifecycle = life
  <2>1. /\ [now.at EXCEPT ![i] = "RECONCILIATION_REQUIRED"]
             \in [1 .. StepCount(id) -> StepLifecycle]
        /\ now.evidence \cup {i} \in SUBSET (1 .. StepCount(id))
    BY <1>2, KnownRecord DEF StepLifecycle
  <2> QED
    BY <1>2, <1>3, <1>4, <2>1 DEF Content
<1> HIDE DEF c
<1> QED
  BY <1>1, <1>3, <1>5, SealMutates

\* apply_completion, of a failure.
LEMMA FailureMutates ==
  ASSUME TypeOK, OutcomeIsSealed, NEW id \in DOMAIN plans,
         NEW i \in DOMAIN plans[id].now.at, CommitFailure(plans[id], i)
  PROVE  Mutates(id)
<1> DEFINE now == plans[id].now
           causes == Causes(plans[id])
           failed(life) == [now EXCEPT !.at[i] = "FAILED", !.evidence = now.evidence \cup {i},
                                       !.causes = causes, !.lifecycle = life,
                                       !.required = now.required \/ life = "ROLLBACK_REQUIRED"]
<1>1. /\ now \in Content(StepCount(id), epoch, DOMAIN plans) /\ i \in 1 .. StepCount(id)
      /\ now.lifecycle \in PlanLifecycle
  BY KnownRecord
<1>2. causes \in SUBSET PlanCause
  BY KnownRecord, CausesTyped
<1>3. PICK c : /\ Put(Seal(plans[id], c))
               /\ \/ c = [failed(now.lifecycle) EXCEPT !.at[i] = "READY"]
                  \/ \E r \in BOOLEAN : c = failed(AfterStepFailed(now.lifecycle, r))
  BY DEF CommitFailure
<1> HIDE DEF causes
<1>4. ASSUME NEW life \in PlanLifecycle
      PROVE  /\ failed(life) \in Content(StepCount(id), epoch, DOMAIN plans)
             /\ failed(life).succ = now.succ /\ failed(life).rollback = now.rollback
             /\ failed(life).lifecycle = life
  <2>1. /\ [now.at EXCEPT ![i] = "FAILED"] \in [1 .. StepCount(id) -> StepLifecycle]
        /\ now.evidence \cup {i} \in SUBSET (1 .. StepCount(id))
        /\ (now.required \/ life = "ROLLBACK_REQUIRED") \in BOOLEAN
    BY <1>1, KnownRecord DEF StepLifecycle
  <2> QED
    BY <1>1, <1>2, <2>1 DEF Content
<1> HIDE DEF failed
<1>5. CASE c = [failed(now.lifecycle) EXCEPT !.at[i] = "READY"]
  <2> DEFINE f == failed(now.lifecycle)
  <2>1. /\ f \in Content(StepCount(id), epoch, DOMAIN plans)
        /\ f.succ = now.succ /\ f.rollback = now.rollback /\ f.lifecycle = now.lifecycle
    BY <1>1, <1>4
  <2>2. c = [f EXCEPT !.at = [f.at EXCEPT ![i] = "READY"]]
    BY <1>5
  <2> HIDE DEF f
  <2>3. [f.at EXCEPT ![i] = "READY"] \in [1 .. StepCount(id) -> StepLifecycle]
    BY <1>1, <2>1, ContentParts DEF StepLifecycle
  <2>4. /\ c \in Content(StepCount(id), epoch, DOMAIN plans)
        /\ c.succ = f.succ /\ c.rollback = f.rollback /\ c.lifecycle = f.lifecycle
    BY <2>1, <2>2, <2>3 DEF Content
  <2>5. Onward(now.lifecycle, c.lifecycle)
    BY <2>1, <2>4 DEF Onward
  <2> QED
    BY <1>3, <2>1, <2>4, <2>5, SealMutates
<1>6. ASSUME NEW r \in BOOLEAN, c = failed(AfterStepFailed(now.lifecycle, r))
      PROVE  Mutates(id)
  BY <1>1, <1>3, <1>4, <1>6, FailedOnward, SealMutates
<1> QED
  BY <1>3, <1>5, <1>6

\* reconcile_step refreshes the steps after it has sealed them.
LEMMA ReconcileMutates ==
  ASSUME TypeOK, OutcomeIsSealed, NEW id \in DOMAIN plans,
         NEW i \in DOMAIN plans[id].now.at, ReconcileStep(plans[id], i)
  PROVE  Mutates(id)
<1> DEFINE now == plans[id].now
<1>1. /\ now \in Content(StepCount(id), epoch, DOMAIN plans) /\ i \in 1 .. StepCount(id)
      /\ plans[id] \in PlanRecord(id, epoch, DOMAIN plans) /\ plans[id].id = id
      /\ Covered(plans[id])
  BY KnownRecord
<1>2. PICK settled \in {"COMPLETED", "READY"} :
        LET q == Seal(plans[id], [now EXCEPT !.at[i] = settled,
                                             !.causes = now.causes \ {"REVALIDATE"}])
        IN Put([q EXCEPT !.now = [q.now EXCEPT !.at = Refreshed(q.now.at)]])
  BY DEF ReconcileStep
<1> DEFINE c == [now EXCEPT !.at[i] = settled, !.causes = now.causes \ {"REVALIDATE"}]
           q == Seal(plans[id], c)
           b == q.now
           d == [b EXCEPT !.at = Refreshed(b.at)]
<1>3. /\ c \in Content(StepCount(id), epoch, DOMAIN plans)
      /\ c.succ = now.succ /\ c.rollback = now.rollback /\ c.lifecycle = now.lifecycle
  <2>1. [now.at EXCEPT ![i] = settled] \in [1 .. StepCount(id) -> StepLifecycle]
    BY <1>1, KnownRecord DEF StepLifecycle
  <2>2. now.causes \ {"REVALIDATE"} \in SUBSET PlanCause
    BY <1>1, ContentParts
  <2> QED
    BY <1>1, <2>1, <2>2 DEF Content
<1>4. Put([q EXCEPT !.now = d])
  BY <1>2
<1> HIDE DEF c
<1>5. /\ Follows(plans[id], q, epoch, DOMAIN plans)
      /\ q \in PlanRecord(id, epoch, DOMAIN plans) /\ Covered(q)
      /\ q.sealed = q.now
  BY <1>1, <1>3, Seals, SealRecord DEF Onward
<1> HIDE DEF q
<1>6. /\ b \in Content(StepCount(id), epoch, DOMAIN plans) /\ q.id = id
      /\ b.at \in [1 .. StepCount(id) -> StepLifecycle] /\ b = q.now
  BY <1>5, RecordParts, ContentParts
<1> HIDE DEF b
<1>7. Refreshed(b.at) \in [1 .. StepCount(id) -> StepLifecycle]
  BY <1>6, StepsTyped
<1>8. /\ d \in Content(StepCount(id), epoch, DOMAIN plans)
      /\ d.succ = b.succ /\ d.rollback = b.rollback
      /\ d.lifecycle = b.lifecycle /\ d.evidence = b.evidence
      /\ d.at = Refreshed(b.at)
  BY <1>6, <1>7 DEF Content
<1> HIDE DEF d
<1>9. \A j \in DOMAIN d.at :
        \/ d.at[j] = b.at[j]
        \/ d.at[j] = "READY" /\ q.sealed.at[j] = "PENDING"
  <2>1. ASSUME NEW j \in 1 .. StepCount(id)
        PROVE  Refreshed(b.at)[j] # b.at[j] =>
                 Refreshed(b.at)[j] = "READY" /\ b.at[j] = "PENDING"
    BY <1>6, StepsTyped
  <2>2. DOMAIN d.at = 1 .. StepCount(id)
    BY <1>7, <1>8
  <2>3. q.sealed.at = b.at
    BY <1>5, <1>6
  <2> QED
    BY <1>8, <2>1, <2>2, <2>3
<1>10. Follows(q, [q EXCEPT !.now = d], epoch, DOMAIN plans)
  BY <1>5, <1>6, <1>8, <1>9, Writes
<1> DEFINE r == [q EXCEPT !.now = d]
<1>11. Put(r) /\ Follows(q, r, epoch, DOMAIN plans)
  BY <1>4, <1>10
<1> HIDE DEF r
<1>12. Follows(plans[id], r, epoch, DOMAIN plans)
  BY <1>1, <1>5, <1>6, <1>11, FollowsAgain
<1> QED
  BY <1>11, <1>12 DEF Mutates

\* An action that seals one content into a record it has written before.
LEMMA SealAgainMutates ==
  ASSUME TypeOK, OutcomeIsSealed, NEW id \in DOMAIN plans,
         NEW q, Follows(plans[id], q, epoch, DOMAIN plans),
         NEW c \in Content(StepCount(id), epoch, DOMAIN plans),
         c.succ = q.now.succ, c.rollback = q.now.rollback,
         Onward(q.now.lifecycle, c.lifecycle), Put(Seal(q, c))
  PROVE  Mutates(id)
<1>1. plans[id].id = id
  BY KnownRecord
<1>2. q \in PlanRecord(id, epoch, DOMAIN plans) /\ q.id = id
  BY <1>1, RecordParts DEF Follows
<1>3. Follows(q, Seal(q, c), epoch, DOMAIN plans)
  BY <1>2, Seals
<1>4. Follows(plans[id], Seal(q, c), epoch, DOMAIN plans)
  BY <1>1, <1>2, <1>3, FollowsAgain
<1> QED
  BY <1>4 DEF Mutates

\* A refused dispatch, and a completion of a plan that is no longer current.
LEMMA CheckMutates ==
  ASSUME TypeOK, OutcomeIsSealed, NEW id \in DOMAIN plans, Put(Checked(plans[id]))
  PROVE  Mutates(id)
BY KnownRecord, Checks DEF Mutates

\* revalidate_plan has bound the plan when it looks,
LEMMA Rebinds ==
  ASSUME TypeOK, OutcomeIsSealed, NEW id \in DOMAIN plans
  PROVE  /\ Follows(plans[id], Rebound(plans[id]), epoch, DOMAIN plans)
         /\ Rebound(plans[id]).id = id
         /\ Rebound(plans[id]) \in PlanRecord(id, epoch, DOMAIN plans)
         /\ Covered(Rebound(plans[id]))
         /\ Rebound(plans[id]).now.lifecycle = plans[id].now.lifecycle
         /\ Rebound(plans[id]).now.at = plans[id].now.at
<1> DEFINE now == plans[id].now
           c == [now EXCEPT !.bound = epoch, !.causes = now.causes \ {"EPOCH"}]
           q == [plans[id] EXCEPT !.now = c]
<1>1. /\ plans[id] \in PlanRecord(id, epoch, DOMAIN plans) /\ plans[id].id = id
      /\ Covered(plans[id]) /\ now \in Content(StepCount(id), epoch, DOMAIN plans)
  BY KnownRecord
<1>2. epoch \in 1 .. epoch
  BY BoundAssumption DEF TypeOK
<1>3. now.causes \ {"EPOCH"} \in SUBSET PlanCause
  BY <1>1, ContentParts
<1>4. /\ c \in Content(StepCount(id), epoch, DOMAIN plans)
      /\ c.succ = now.succ /\ c.rollback = now.rollback
      /\ c.lifecycle = now.lifecycle /\ c.evidence = now.evidence /\ c.at = now.at
  BY <1>1, <1>2, <1>3 DEF Content
<1>5. Rebound(plans[id]) = Recomputed(q)
  BY DEF Rebound
<1> HIDE DEF c
<1>6. q.now = c /\ q.id = id
  BY <1>1, <1>4, Rewritten
<1>7. Follows(plans[id], q, epoch, DOMAIN plans)
  BY <1>1, <1>4, Writes
<1> HIDE DEF q
<1>8. q \in PlanRecord(id, epoch, DOMAIN plans) /\ Covered(q)
  BY <1>1, <1>7 DEF Follows
<1> DEFINE r == Recomputed(q)
<1>9. /\ Follows(q, r, epoch, DOMAIN plans) /\ r.id = id
      /\ r.now.lifecycle = q.now.lifecycle /\ r.now.at = q.now.at
  BY <1>8, Recomputes
<1> HIDE DEF r
<1>10. Follows(plans[id], r, epoch, DOMAIN plans)
  BY <1>1, <1>6, <1>7, <1>9, FollowsAgain
<1>11. r \in PlanRecord(id, epoch, DOMAIN plans) /\ Covered(r)
  BY <1>6, <1>9 DEF Follows
<1> QED
  BY <1>4, <1>5, <1>6, <1>9, <1>10, <1>11 DEF r

\* arms it again if it is current,
LEMMA RevalidateOkMutates ==
  ASSUME TypeOK, OutcomeIsSealed, NEW id \in DOMAIN plans, RevalidateOk(plans[id])
  PROVE  Mutates(id)
<1> DEFINE q == Rebound(plans[id])
           b == q.now
           c == [b EXCEPT !.lifecycle = PlanTo.REVALIDATE_OK, !.at = Armed(b.at),
                          !.causes = {}, !.moved = TRUE]
<1>1. Put(Seal(q, c)) /\ plans[id].now.lifecycle \in PlanFrom.REVALIDATE_OK
  BY DEF RevalidateOk
<1>2. /\ Follows(plans[id], q, epoch, DOMAIN plans) /\ q.id = id
      /\ q \in PlanRecord(id, epoch, DOMAIN plans)
      /\ q.now.lifecycle = plans[id].now.lifecycle
  BY Rebinds
<1> HIDE DEF q
<1>3. b \in Content(StepCount(id), epoch, DOMAIN plans) /\ b = q.now
  BY <1>2, RecordParts
<1> HIDE DEF b
<1>4. Armed(b.at) \in [1 .. StepCount(id) -> StepLifecycle]
  BY <1>3, ContentParts, StepsTyped
<1>5. /\ c \in Content(StepCount(id), epoch, DOMAIN plans)
      /\ c.succ = b.succ /\ c.rollback = b.rollback /\ c.lifecycle = "READY"
  BY <1>3, <1>4, PlanTable DEF Content, PlanLifecycle
<1> HIDE DEF c
<1>6. Onward(b.lifecycle, c.lifecycle)
  BY <1>1, <1>2, <1>3, <1>5, PlanTable DEF Onward, TerminalLifecycle
<1> QED
  BY <1>1, <1>2, <1>3, <1>5, <1>6, SealAgainMutates

\* leaves what it has written if the lifecycle forbids it,
LEMMA RefuseRevalidateMutates ==
  ASSUME TypeOK, OutcomeIsSealed, NEW id \in DOMAIN plans, RefuseRevalidate(plans[id])
  PROVE  Mutates(id)
<1> DEFINE q == Rebound(plans[id])
           b == q.now
           c == [b EXCEPT !.causes = {}]
           r == [q EXCEPT !.now = c]
<1>1. Put(r)
  BY DEF RefuseRevalidate
<1>2. /\ Follows(plans[id], q, epoch, DOMAIN plans) /\ q.id = id
      /\ q \in PlanRecord(id, epoch, DOMAIN plans) /\ Covered(q) /\ plans[id].id = id
  BY Rebinds, KnownRecord
<1> HIDE DEF q
<1>3. b \in Content(StepCount(id), epoch, DOMAIN plans) /\ b = q.now
  BY <1>2, RecordParts
<1> HIDE DEF b
<1>4. /\ c \in Content(StepCount(id), epoch, DOMAIN plans)
      /\ c.succ = b.succ /\ c.rollback = b.rollback
      /\ c.lifecycle = b.lifecycle /\ c.evidence = b.evidence /\ c.at = b.at
  BY <1>3 DEF Content
<1> HIDE DEF c
<1>5. Follows(q, r, epoch, DOMAIN plans)
  BY <1>2, <1>3, <1>4, Writes
<1> HIDE DEF r
<1>6. Follows(plans[id], r, epoch, DOMAIN plans)
  BY <1>2, <1>5, FollowsAgain
<1> QED
  BY <1>1, <1>6 DEF Mutates

\* and supersedes or suspends it otherwise.
LEMMA RevalidateFailMutates ==
  ASSUME TypeOK, OutcomeIsSealed, NEW id \in DOMAIN plans, RevalidateFail(plans[id])
  PROVE  Mutates(id)
<1> DEFINE now == plans[id].now
           causes == Rebound(plans[id]).now.causes \cup {"EPOCH"}
           c == [now EXCEPT !.causes = causes]
           q == [plans[id] EXCEPT !.now = c]
           d == [q.now EXCEPT !.moved = TRUE, !.fresh = FALSE]
<1>1. Put(SupersedeEntry(q, Nil)) \/ Put(Seal(q, d))
  BY DEF RevalidateFail
<1>2. /\ plans[id] \in PlanRecord(id, epoch, DOMAIN plans) /\ plans[id].id = id
      /\ Covered(plans[id]) /\ now \in Content(StepCount(id), epoch, DOMAIN plans)
  BY KnownRecord
<1>3. causes \in SUBSET PlanCause
  BY Rebinds, RecordParts, ContentParts DEF PlanCause
<1> HIDE DEF causes
<1>4. /\ c \in Content(StepCount(id), epoch, DOMAIN plans)
      /\ c.succ = now.succ /\ c.rollback = now.rollback
      /\ c.lifecycle = now.lifecycle /\ c.evidence = now.evidence /\ c.at = now.at
  BY <1>2, <1>3 DEF Content
<1> HIDE DEF c
<1>5. q.now = c /\ q.id = id /\ Follows(plans[id], q, epoch, DOMAIN plans)
  BY <1>2, <1>4, Rewritten, Writes
<1> HIDE DEF q
<1>6. q \in PlanRecord(id, epoch, DOMAIN plans) /\ Covered(q)
  BY <1>2, <1>5 DEF Follows
<1>7. ASSUME Put(SupersedeEntry(q, Nil))
      PROVE  Mutates(id)
  <2>1. Follows(q, SupersedeEntry(q, Nil), epoch, DOMAIN plans)
    BY <1>5, <1>6, Supersedes DEF Follows
  <2>2. Follows(plans[id], SupersedeEntry(q, Nil), epoch, DOMAIN plans)
    BY <1>2, <1>5, <2>1, FollowsAgain
  <2> QED
    BY <1>7, <2>2 DEF Mutates
<1>8. ASSUME Put(Seal(q, d))
      PROVE  Mutates(id)
  <2>1. /\ d \in Content(StepCount(id), epoch, DOMAIN plans)
        /\ d.succ = q.now.succ /\ d.rollback = q.now.rollback
        /\ d.lifecycle = q.now.lifecycle
    BY <1>4, <1>5 DEF Content
  <2> HIDE DEF d
  <2> QED
    BY <1>5, <1>8, <2>1, SealAgainMutates DEF Onward
<1> QED
  BY <1>1, <1>7, <1>8

\* A content that is fenced.
LEMMA FencedContent ==
  ASSUME NEW n, NEW last, NEW ids, NEW c \in Content(n, last, ids)
  PROVE  /\ Fenced(c) \in Content(n, last, ids)
         /\ Fenced(c).succ = c.succ /\ Fenced(c).rollback = c.rollback
         /\ Fenced(c).lifecycle = c.lifecycle
<1>1. Stale(c.at) \in [1 .. n -> StepLifecycle]
  BY ContentParts, StaleTyped
<1> DEFINE f == [c EXCEPT !.moved = TRUE, !.fresh = FALSE, !.at = Stale(c.at)]
<1>2. /\ f \in Content(n, last, ids)
      /\ f.succ = c.succ /\ f.rollback = c.rollback /\ f.lifecycle = c.lifecycle
  BY <1>1 DEF Content
<1>3. Fenced(c) = f
  BY DEF Fenced
<1> HIDE DEF f
<1> QED
  BY <1>2, <1>3

\* Pausing, revoking and retiring a plan, and a rollback with nothing to undo.
LEMMA OperatorMutates ==
  ASSUME TypeOK, OutcomeIsSealed, NEW id \in DOMAIN plans,
         \/ PausePlan(plans[id]) \/ RevokePlan(plans[id])
         \/ RetirePlan(plans[id]) \/ RollbackAtOnce(plans[id])
  PROVE  Mutates(id)
<1> DEFINE now == plans[id].now
<1>1. /\ now \in Content(StepCount(id), epoch, DOMAIN plans)
      /\ now.lifecycle \in PlanLifecycle
      /\ now.at \in [1 .. StepCount(id) -> StepLifecycle]
  BY KnownRecord
<1>2. ASSUME PausePlan(plans[id])
      PROVE  Mutates(id)
  <2> DEFINE c == [now EXCEPT !.lifecycle = PlanTo.PAUSE]
  <2>1. Put(Seal(plans[id], c)) /\ now.lifecycle \in PlanFrom.PAUSE
    BY <1>2 DEF PausePlan
  <2>2. /\ c \in Content(StepCount(id), epoch, DOMAIN plans)
        /\ c.succ = now.succ /\ c.rollback = now.rollback /\ c.lifecycle = "PAUSED"
    BY <1>1, PlanTable DEF Content, PlanLifecycle
  <2> HIDE DEF c
  <2>3. Onward(now.lifecycle, c.lifecycle)
    BY <2>1, <2>2, PlanTable DEF Onward, TerminalLifecycle
  <2> QED
    BY <2>1, <2>2, <2>3, SealMutates
<1>3. ASSUME RevokePlan(plans[id])
      PROVE  Mutates(id)
  <2> DEFINE b == [now EXCEPT !.lifecycle = PlanTo.REVOKE, !.required = FALSE]
             c == Fenced(b)
  <2>1. Put(Seal(plans[id], c))
    BY <1>3 DEF RevokePlan
  <2>2. /\ b \in Content(StepCount(id), epoch, DOMAIN plans)
        /\ b.succ = now.succ /\ b.rollback = now.rollback /\ b.lifecycle = "REVOKED"
    BY <1>1, PlanTable DEF Content, PlanLifecycle
  <2> HIDE DEF b
  <2>3. /\ c \in Content(StepCount(id), epoch, DOMAIN plans)
        /\ c.succ = b.succ /\ c.rollback = b.rollback /\ c.lifecycle = b.lifecycle
    BY <2>2, FencedContent
  <2> HIDE DEF c
  <2>4. Onward(now.lifecycle, c.lifecycle)
    BY <2>2, <2>3 DEF Onward, TerminalLifecycle
  <2> QED
    BY <2>1, <2>2, <2>3, <2>4, SealMutates
<1>4. ASSUME RetirePlan(plans[id])
      PROVE  Mutates(id)
  <2> DEFINE c == [now EXCEPT !.lifecycle = PlanTo.RETIRE, !.required = FALSE,
                              !.moved = TRUE, !.fresh = FALSE, !.at = Retired(now.at)]
  <2>1. Put(Seal(plans[id], c))
    BY <1>4 DEF RetirePlan
  <2>2. Retired(now.at) \in [1 .. StepCount(id) -> StepLifecycle]
    BY <1>1, RetiredTyped
  <2>3. /\ c \in Content(StepCount(id), epoch, DOMAIN plans)
        /\ c.succ = now.succ /\ c.rollback = now.rollback /\ c.lifecycle = "RETIRED"
    BY <1>1, <2>2, PlanTable DEF Content, PlanLifecycle
  <2> HIDE DEF c
  <2>4. Onward(now.lifecycle, c.lifecycle)
    BY <2>3 DEF Onward, TerminalLifecycle
  <2> QED
    BY <2>1, <2>3, <2>4, SealMutates
<1>5. ASSUME RollbackAtOnce(plans[id])
      PROVE  Mutates(id)
  <2> DEFINE b == [now EXCEPT !.lifecycle = PlanTo.BEGIN_ROLLBACK, !.required = TRUE]
             f == Fenced(b)
             c == [f EXCEPT !.lifecycle = PlanTo.ROLLBACK_COMPLETED, !.required = FALSE]
  <2>1. Put(Seal(plans[id], c))
    BY <1>5 DEF RollbackAtOnce, RollingBack
  <2>2. /\ b \in Content(StepCount(id), epoch, DOMAIN plans)
        /\ b.succ = now.succ /\ b.rollback = now.rollback
    BY <1>1, PlanTable DEF Content, PlanLifecycle
  <2> HIDE DEF b
  <2>3. /\ f \in Content(StepCount(id), epoch, DOMAIN plans)
        /\ f.succ = b.succ /\ f.rollback = b.rollback
    BY <2>2, FencedContent
  <2> HIDE DEF f
  <2>4. /\ c \in Content(StepCount(id), epoch, DOMAIN plans)
        /\ c.succ = f.succ /\ c.rollback = f.rollback /\ c.lifecycle = "SUPERSEDED"
    BY <2>3, PlanTable DEF Content, PlanLifecycle
  <2> HIDE DEF c
  <2>5. Onward(now.lifecycle, c.lifecycle)
    BY <2>4 DEF Onward, TerminalLifecycle
  <2> QED
    BY <2>1, <2>2, <2>3, <2>4, <2>5, SealMutates
<1> QED
  BY <1>2, <1>3, <1>4, <1>5

\* A refused rollback has written a flag that no seal covers.
LEMMA RefuseRollbackMutates ==
  ASSUME TypeOK, OutcomeIsSealed, NEW id \in DOMAIN plans, RefuseRollback(plans[id])
  PROVE  Mutates(id)
<1> DEFINE now == plans[id].now
           c == [now EXCEPT !.required = TRUE]
           q == [plans[id] EXCEPT !.now = c]
<1>1. Put(q)
  BY DEF RefuseRollback
<1>2. /\ plans[id] \in PlanRecord(id, epoch, DOMAIN plans) /\ Covered(plans[id])
      /\ now \in Content(StepCount(id), epoch, DOMAIN plans)
  BY KnownRecord
<1>3. /\ c \in Content(StepCount(id), epoch, DOMAIN plans)
      /\ c.succ = now.succ /\ c.rollback = now.rollback
      /\ c.lifecycle = now.lifecycle /\ c.evidence = now.evidence /\ c.at = now.at
  BY <1>2 DEF Content
<1> HIDE DEF c
<1>4. Follows(plans[id], q, epoch, DOMAIN plans)
  BY <1>2, <1>3, Writes
<1> HIDE DEF q
<1> QED
  BY <1>1, <1>4 DEF Mutates

\* The steps of a closed plan that become stale are not sealed.
LEMMA LoseWorkerMutates ==
  ASSUME TypeOK, OutcomeIsSealed, NEW id \in DOMAIN plans, LoseWorker(plans[id])
  PROVE  Mutates(id)
<1> DEFINE now == plans[id].now
           c == [now EXCEPT !.at = Stale(now.at)]
           q == [plans[id] EXCEPT !.now = c]
<1>1. Put(InvalidatePlan(q, "FENCED"))
  BY DEF LoseWorker
<1>2. /\ plans[id] \in PlanRecord(id, epoch, DOMAIN plans) /\ Covered(plans[id])
      /\ plans[id].id = id /\ now.lifecycle \in PlanLifecycle
      /\ now \in Content(StepCount(id), epoch, DOMAIN plans)
      /\ now.at \in [1 .. StepCount(id) -> StepLifecycle]
  BY KnownRecord
<1>3. Stale(now.at) \in [1 .. StepCount(id) -> StepLifecycle]
  BY <1>2, StaleTyped
<1>4. /\ c \in Content(StepCount(id), epoch, DOMAIN plans)
      /\ c.succ = now.succ /\ c.rollback = now.rollback
      /\ c.lifecycle = now.lifecycle /\ c.evidence = now.evidence /\ c.at = Stale(now.at)
  BY <1>2, <1>3 DEF Content
<1> HIDE DEF c
<1>5. /\ q \in PlanRecord(id, epoch, DOMAIN plans) /\ q.now = c /\ q.id = id
      /\ q.pred = plans[id].pred /\ q.compensates = plans[id].compensates
  BY <1>2, <1>4, Rewritten
<1>6. ASSUME Terminal(plans[id])
      PROVE  Mutates(id)
  <2>1. \A i \in DOMAIN c.at :
          \/ c.at[i] = now.at[i]
          \/ c.at[i] = "STALE" /\ now.lifecycle \in TerminalLifecycle
    <3>1. ASSUME NEW i \in 1 .. StepCount(id)
          PROVE  Stale(now.at)[i] # now.at[i] => Stale(now.at)[i] = "STALE"
      BY <1>2, StaleTyped
    <3> QED
      BY <1>3, <1>4, <1>6, <3>1 DEF Terminal
  <2>2. Follows(plans[id], q, epoch, DOMAIN plans)
    BY <1>2, <1>4, <2>1, Writes
  <2>3. InvalidatePlan(q, "FENCED") = q
    BY <1>4, <1>5, <1>6 DEF InvalidatePlan, Terminal
  <2> HIDE DEF q
  <2> QED
    BY <1>1, <2>2, <2>3 DEF Mutates
<1>7. ASSUME ~Terminal(plans[id])
      PROVE  Mutates(id)
  <2> HIDE DEF q
  <2> DEFINE life == Take("INVALIDATE", c.lifecycle)
             b == [c EXCEPT !.lifecycle = life, !.causes = c.causes \cup {"FENCED"}]
             r == Seal(q, Fenced(b))
  <2>1. InvalidatePlan(q, "FENCED") = r
    BY <1>4, <1>5, <1>7 DEF InvalidatePlan, Terminal
  <2>2. life \in PlanLifecycle /\ Onward(now.lifecycle, life)
    BY <1>2, <1>4, TakeOnward
  <2> HIDE DEF life
  <2>3. c.causes \cup {"FENCED"} \in SUBSET PlanCause
    BY <1>4, ContentParts DEF PlanCause
  <2>4. /\ b \in Content(StepCount(id), epoch, DOMAIN plans)
        /\ b.succ = now.succ /\ b.rollback = now.rollback /\ b.lifecycle = life
    BY <1>4, <2>2, <2>3 DEF Content
  <2> HIDE DEF b
  <2>5. /\ Fenced(b) \in Content(StepCount(id), epoch, DOMAIN plans)
        /\ Fenced(b).succ = now.succ /\ Fenced(b).rollback = now.rollback
        /\ Fenced(b).lifecycle = life
    BY <2>4, FencedContent
  <2>6. /\ r \in PlanRecord(id, epoch, DOMAIN plans) /\ Covered(r)
        /\ r.pred = q.pred /\ r.compensates = q.compensates
        /\ r.now.lifecycle = life
        /\ r.now.succ = now.succ /\ r.now.rollback = now.rollback
    BY <1>5, <2>5, SealRecord
  <2> HIDE DEF r
  <2>7. Follows(plans[id], r, epoch, DOMAIN plans)
    BY <1>2, <1>5, <2>2, <2>6 DEF Follows
  <2> QED
    BY <1>1, <2>1, <2>7 DEF Mutates
<1> QED
  BY <1>6, <1>7

----------------------------------------------------------------------------
\* What any step may do to the lineage

\* A closed plan stays closed, a plan that rolls back goes on to, its place in
\* the lineage and the rollback that it began stay.
PlanKept(p, q) ==
  /\ q.pred = p.pred /\ q.compensates = p.compensates
  /\ Terminal(p) => Terminal(q)
  /\ p.now.lifecycle = "ROLLING_BACK" => Terminal(q) \/ q.now.lifecycle = "ROLLING_BACK"
  /\ p.now.rollback # Nil => q.now.rollback = p.now.rollback

\* A successor that is new names the plan.
SuccessorIsTold(x) ==
  LET succ == plans'[x].now.succ
  IN \/ succ = Nil \/ succ \in taken'
     \/ plans'[succ].pred = x
     \/ x \in DOMAIN plans /\ succ = plans[x].now.succ

\* A rollback that is new has its own compensating plan, which has not completed.
RollbackIsBegun(x) ==
  LET undo == plans'[x].now.rollback
  IN \/ undo = Nil
     \/ x \in DOMAIN plans /\ undo = plans[x].now.rollback
     \/ /\ plans'[x].now.lifecycle = "ROLLING_BACK"
        /\ \/ undo \in taken'
           \/ /\ plans'[undo].pred = x /\ plans'[undo].compensates
              /\ plans'[undo].now.lifecycle # "COMPLETED"

\* A compensating plan that completes now has closed what it compensates.
CompletionCloses(x) ==
  /\ plans'[x].now.lifecycle = "COMPLETED" /\ plans[x].now.lifecycle # "COMPLETED"
  /\ plans'[x].compensates /\ plans'[x].pred # Nil
  => plans'[plans'[x].pred].now.lifecycle # "ROLLING_BACK"

LineageStep ==
  /\ DOMAIN plans \subseteq DOMAIN plans' /\ Nil \notin DOMAIN plans'
  /\ taken \subseteq taken'
  /\ \A x \in DOMAIN plans' :
       /\ plans'[x] \in PlanRecord(x, epoch', DOMAIN plans') /\ Covered(plans'[x])
       /\ SuccessorIsTold(x) /\ RollbackIsBegun(x)
  /\ \A x \in DOMAIN plans : PlanKept(plans[x], plans'[x]) /\ CompletionCloses(x)

Lineage == OutcomeIsSealed /\ LineageIsMutual /\ RollbackIsNamed /\ RollbackCloses

\* Such a step keeps what the lineage relies on.
LEMMA StepKeepsLineage ==
  ASSUME TypeOK, Lineage, LineageStep
  PROVE  Lineage'
<1>0. ASSUME NEW x \in DOMAIN plans
      PROVE  /\ plans[x].now.succ \in DOMAIN plans \cup {Nil}
             /\ plans[x].now.rollback \in DOMAIN plans \cup {Nil}
  BY KnownRecord, ContentParts DEF Lineage
<1>1. OutcomeIsSealed'
  BY DEF LineageStep, Covered, OutcomeIsSealed
<1>2. LineageIsMutual'
  <2> SUFFICES ASSUME NEW x \in DOMAIN plans', plans'[x].now.succ # Nil,
                      plans'[x].now.succ \notin taken'
               PROVE  plans'[plans'[x].now.succ].pred = x
    BY DEF LineageIsMutual
  <2>1. \/ plans'[plans'[x].now.succ].pred = x
        \/ x \in DOMAIN plans /\ plans'[x].now.succ = plans[x].now.succ
    BY DEF LineageStep, SuccessorIsTold
  <2>2. ASSUME x \in DOMAIN plans, plans'[x].now.succ = plans[x].now.succ
        PROVE  plans'[plans'[x].now.succ].pred = x
    <3> DEFINE s == plans[x].now.succ
    <3>1. s \in DOMAIN plans /\ s \notin taken
      BY <1>0, <2>2 DEF LineageStep
    <3>2. plans[s].pred = x
      BY <2>2, <3>1 DEF Lineage, LineageIsMutual
    <3> QED
      BY <2>2, <3>1, <3>2 DEF LineageStep, PlanKept
  <2> QED
    BY <2>1, <2>2
<1>3. ASSUME NEW x \in DOMAIN plans', plans'[x].now.rollback # Nil
      PROVE  LET undo == plans'[x].now.rollback
             IN /\ Terminal(plans'[x]) \/ plans'[x].now.lifecycle = "ROLLING_BACK"
                /\ undo \notin taken' => plans'[undo].pred = x /\ plans'[undo].compensates
                /\ undo \notin taken' /\ plans'[undo].now.lifecycle = "COMPLETED" =>
                     plans'[x].now.lifecycle # "ROLLING_BACK"
  <2> DEFINE undo == plans'[x].now.rollback
  <2>1. CASE x \in DOMAIN plans /\ undo = plans[x].now.rollback
    <3>1. /\ Terminal(plans[x]) \/ plans[x].now.lifecycle = "ROLLING_BACK"
          /\ undo \notin taken => plans[undo].pred = x /\ plans[undo].compensates
      BY <1>3, <2>1 DEF Lineage, RollbackIsNamed
    <3>2. Terminal(plans'[x]) \/ plans'[x].now.lifecycle = "ROLLING_BACK"
      BY <2>1, <3>1 DEF LineageStep, PlanKept
    <3>3. ASSUME undo \notin taken'
          PROVE  /\ plans'[undo].pred = x /\ plans'[undo].compensates
                 /\ plans'[undo].now.lifecycle = "COMPLETED" =>
                      plans'[x].now.lifecycle # "ROLLING_BACK"
      <4>1. undo \in DOMAIN plans /\ undo \notin taken
        BY <1>0, <1>3, <2>1, <3>3 DEF LineageStep
      <4>2. plans'[undo].pred = x /\ plans'[undo].compensates
        BY <3>1, <4>1 DEF LineageStep, PlanKept
      <4>3. CASE plans[undo].now.lifecycle = "COMPLETED"
        <5>1. plans[x].now.lifecycle # "ROLLING_BACK"
          BY <1>3, <2>1, <4>1, <4>3 DEF Lineage, RollbackCloses
        <5>2. Terminal(plans'[x])
          BY <2>1, <3>1, <5>1 DEF LineageStep, PlanKept
        <5> QED
          BY <4>2, <5>2 DEF Terminal, TerminalLifecycle
      <4>4. CASE plans[undo].now.lifecycle # "COMPLETED"
        <5>1. CompletionCloses(undo) /\ x # Nil
          BY <4>1 DEF LineageStep
        <5> QED
          BY <4>2, <4>4, <5>1 DEF CompletionCloses
      <4> QED
        BY <4>3, <4>4
    <3> QED
      BY <3>2, <3>3
  <2>2. CASE ~(x \in DOMAIN plans /\ undo = plans[x].now.rollback)
    BY <1>3, <2>2 DEF LineageStep, RollbackIsBegun
  <2> QED
    BY <2>1, <2>2
<1>4. RollbackIsNamed'
  BY <1>3 DEF RollbackIsNamed, Terminal
<1>5. RollbackCloses'
  BY <1>3 DEF RollbackCloses
<1> QED
  BY <1>1, <1>2, <1>4, <1>5 DEF Lineage

\* A step that is not about lineage, whatever the plans it changes.
LEMMA EveryPlanFollows ==
  ASSUME TypeOK, DOMAIN plans' = DOMAIN plans, UNCHANGED taken,
         \A x \in DOMAIN plans : Follows(plans[x], plans'[x], epoch', DOMAIN plans)
  PROVE  /\ LineageStep
         /\ \A x \in DOMAIN plans : plans'[x].now.rollback = plans[x].now.rollback
<1>1. ASSUME NEW x \in DOMAIN plans
      PROVE  /\ plans'[x] \in PlanRecord(x, epoch', DOMAIN plans) /\ Covered(plans'[x])
             /\ SuccessorIsTold(x) /\ RollbackIsBegun(x)
             /\ PlanKept(plans[x], plans'[x]) /\ CompletionCloses(x)
             /\ plans'[x].now.rollback = plans[x].now.rollback
  <2>1. Follows(plans[x], plans'[x], epoch', DOMAIN plans) /\ plans[x].id = x
    BY RecordParts DEF TypeOK
  <2>2. /\ plans'[x] \in PlanRecord(x, epoch', DOMAIN plans) /\ Covered(plans'[x])
        /\ plans'[x].pred = plans[x].pred /\ plans'[x].compensates = plans[x].compensates
        /\ plans'[x].now.succ = plans[x].now.succ
        /\ plans'[x].now.rollback = plans[x].now.rollback
        /\ Onward(plans[x].now.lifecycle, plans'[x].now.lifecycle)
    BY <2>1 DEF Follows
  <2>3. SuccessorIsTold(x) /\ RollbackIsBegun(x)
    BY <2>2 DEF SuccessorIsTold, RollbackIsBegun
  <2>4. PlanKept(plans[x], plans'[x]) /\ CompletionCloses(x)
    BY <2>2 DEF PlanKept, CompletionCloses, Terminal, Onward
  <2> QED
    BY <2>2, <2>3, <2>4
<1>2. Nil \notin DOMAIN plans'
  BY DEF TypeOK
<1> QED
  BY <1>1, <1>2 DEF LineageStep

----------------------------------------------------------------------------
\* Steps that are not about lineage

\* The index is as it was, and so are the plans that there are.
QuietStep ==
  /\ DOMAIN plans' = DOMAIN plans
  /\ LineageStep
  /\ \A x \in DOMAIN plans : plans'[x].now.rollback = plans[x].now.rollback

\* A plan that is left alone follows itself.
LEMMA FollowsItself ==
  ASSUME NEW id, NEW last, NEW ids, NEW p \in PlanRecord(id, last, ids), Covered(p)
  PROVE  Follows(p, p, last, ids)
BY RecordParts DEF Follows, Onward

\* An action on one plan is such a step,
LEMMA MutatesQuietly ==
  ASSUME TypeOK, OutcomeIsSealed, NEW id \in DOMAIN plans, Mutates(id),
         UNCHANGED <<epoch, taken>>
  PROVE  QuietStep
<1>1. PICK q : Put(q) /\ Follows(plans[id], q, epoch, DOMAIN plans)
  BY DEF Mutates
<1>2. q.id = id
  BY <1>1, KnownRecord, RecordParts DEF Follows
<1>3. plans' = [plans EXCEPT ![id] = q]
  BY <1>1, <1>2 DEF Put
<1>4. DOMAIN plans' = DOMAIN plans
  BY <1>3
<1>5. ASSUME NEW x \in DOMAIN plans
      PROVE  Follows(plans[x], plans'[x], epoch', DOMAIN plans)
  <2>1. CASE x = id
    BY <1>1, <1>3, <2>1
  <2>2. CASE x # id
    <3>1. plans'[x] = plans[x]
      BY <1>3, <2>2
    <3> QED
      BY <3>1, KnownRecord, FollowsItself
  <2> QED
    BY <2>1, <2>2
<1> QED
  BY <1>4, <1>5, EveryPlanFollows DEF QuietStep

\* and so are the notices of the route
LEMMA RouteChangeIsQuiet ==
  ASSUME TypeOK, OutcomeIsSealed, NoteRouteChange
  PROVE  QuietStep
<1> DEFINE changed(x) == IF observed.generation > x.target THEN SupersedeEntry(plans[x], Nil)
                         ELSE IF observed.generation = x.target THEN Noted(plans[x])
                         ELSE plans[x]
<1>1. /\ DOMAIN plans' = DOMAIN plans
      /\ \A x \in DOMAIN plans :
           plans'[x] = IF Terminal(plans[x]) THEN plans[x] ELSE changed(x)
  BY DEF NoteRouteChange, ChangeOpen
<1>2. ASSUME NEW x \in DOMAIN plans
      PROVE  Follows(plans[x], plans'[x], epoch', DOMAIN plans)
  <2>1. plans[x] \in PlanRecord(x, epoch, DOMAIN plans) /\ Covered(plans[x])
        /\ plans[x].id = x
    BY KnownRecord
  <2>2. Follows(plans[x], SupersedeEntry(plans[x], Nil), epoch, DOMAIN plans)
    BY <2>1, Supersedes DEF Follows
  <2>3. Follows(plans[x], Noted(plans[x]), epoch, DOMAIN plans)
    BY <2>1, Checks
  <2>4. Follows(plans[x], plans[x], epoch, DOMAIN plans)
    BY <2>1, FollowsItself
  <2>5. plans'[x] \in {SupersedeEntry(plans[x], Nil), Noted(plans[x]), plans[x]}
    BY <1>1
  <2>6. epoch' = epoch
    BY DEF NoteRouteChange
  <2> QED
    BY <2>2, <2>3, <2>4, <2>5, <2>6
<1>3. UNCHANGED taken
  BY DEF NoteRouteChange
<1> QED
  BY <1>1, <1>2, <1>3, EveryPlanFollows DEF QuietStep

\* and of its path,
LEMMA PathChangeIsQuiet ==
  ASSUME TypeOK, OutcomeIsSealed, NotePathChange
  PROVE  QuietStep
<1>1. /\ DOMAIN plans' = DOMAIN plans
      /\ \A x \in DOMAIN plans : plans'[x] \in {plans[x], Noted(plans[x])}
      /\ UNCHANGED <<epoch, taken>>
  BY DEF NotePathChange, ChangeOpen
<1>2. ASSUME NEW x \in DOMAIN plans
      PROVE  Follows(plans[x], plans'[x], epoch', DOMAIN plans)
  <2>1. plans[x] \in PlanRecord(x, epoch, DOMAIN plans) /\ Covered(plans[x])
    BY KnownRecord
  <2>2. Follows(plans[x], Noted(plans[x]), epoch, DOMAIN plans)
    BY <2>1, Checks
  <2>3. Follows(plans[x], plans[x], epoch, DOMAIN plans)
    BY <2>1, FollowsItself
  <2> QED
    BY <1>1, <2>2, <2>3
<1> QED
  BY <1>1, <1>2, EveryPlanFollows DEF QuietStep

\* a new epoch,
LEMMA EpochIsQuiet ==
  ASSUME TypeOK, OutcomeIsSealed, AdvanceEpoch
  PROVE  QuietStep
<1>1. /\ DOMAIN plans' = DOMAIN plans
      /\ \A x \in DOMAIN plans : plans'[x] \in {plans[x], InvalidatePlan(plans[x], "EPOCH")}
      /\ UNCHANGED taken /\ epoch' = epoch + 1
  BY DEF AdvanceEpoch, ChangeOpen
<1>2. epoch \in Nat /\ epoch' \in Nat /\ epoch <= epoch'
  BY <1>1, BoundAssumption DEF TypeOK
<1>3. ASSUME NEW x \in DOMAIN plans
      PROVE  Follows(plans[x], plans'[x], epoch', DOMAIN plans)
  <2>1. plans[x] \in PlanRecord(x, epoch, DOMAIN plans) /\ Covered(plans[x])
    BY KnownRecord
  <2>2. plans[x] \in PlanRecord(x, epoch', DOMAIN plans)
    BY <1>2, <2>1, RecordGrows
  <2>3. Follows(plans[x], InvalidatePlan(plans[x], "EPOCH"), epoch', DOMAIN plans)
    BY <2>1, <2>2, Invalidates DEF PlanCause
  <2>4. Follows(plans[x], plans[x], epoch', DOMAIN plans)
    BY <2>1, <2>2, FollowsItself
  <2> QED
    BY <1>1, <2>3, <2>4
<1> QED
  BY <1>1, <1>3, EveryPlanFollows DEF QuietStep

\* A plan that is loaded again.
LEMMA Recovers ==
  ASSUME NEW id, NEW last, NEW ids, NEW p \in PlanRecord(id, last, ids)
  PROVE  Follows(p, Recovered(p), last, ids)
<1> DEFINE life == RecoveredPlan(p.now.lifecycle)
           at == RecoveredSteps(p.now.at)
           c == [p.now EXCEPT !.lifecycle = life, !.at = at]
           q == Seal(p, c)
           b == q.now
           d == [b EXCEPT !.moved = TRUE, !.fresh = FALSE]
<1>1. /\ p.now \in Content(StepCount(id), last, ids) /\ p.now.lifecycle \in PlanLifecycle
      /\ p.now.at \in [1 .. StepCount(id) -> StepLifecycle] /\ p.id = id
  BY RecordParts, ContentParts
<1>2. Recovered(p) = [q EXCEPT !.now = d]
  BY DEF Recovered
<1>3. life \in PlanLifecycle /\ Onward(p.now.lifecycle, life)
  BY <1>1, RecoveredOnward
<1>4. at \in [1 .. StepCount(id) -> StepLifecycle]
  BY <1>1, RecoveredTyped
<1> HIDE DEF life, at
<1>5. /\ c \in Content(StepCount(id), last, ids)
      /\ c.succ = p.now.succ /\ c.rollback = p.now.rollback /\ c.lifecycle = life
  BY <1>1, <1>3, <1>4 DEF Content
<1> HIDE DEF c
<1>6. /\ q \in PlanRecord(id, last, ids) /\ Covered(q)
      /\ Follows(p, q, last, ids)
  BY <1>3, <1>5, SealRecord, Seals
<1> HIDE DEF q
<1>7. b \in Content(StepCount(id), last, ids) /\ b = q.now /\ q.id = id
  BY <1>6, RecordParts
<1> HIDE DEF b
<1>8. /\ d \in Content(StepCount(id), last, ids)
      /\ d.succ = b.succ /\ d.rollback = b.rollback
      /\ d.lifecycle = b.lifecycle /\ d.evidence = b.evidence /\ d.at = b.at
  BY <1>7 DEF Content
<1> HIDE DEF d
<1>9. Follows(q, [q EXCEPT !.now = d], last, ids)
  BY <1>6, <1>7, <1>8, Writes
<1> QED
  BY <1>1, <1>2, <1>6, <1>7, <1>9, FollowsAgain

\* A restart changes every plan, and no lineage.
LEMMA RestartIsQuiet ==
  ASSUME TypeOK, OutcomeIsSealed, Restart
  PROVE  QuietStep
<1>1. /\ DOMAIN plans' = DOMAIN plans
      /\ \A x \in DOMAIN plans : plans'[x] = Recovered(plans[x])
      /\ UNCHANGED <<epoch, taken>>
  BY DEF Restart
<1>2. ASSUME NEW x \in DOMAIN plans
      PROVE  Follows(plans[x], plans'[x], epoch', DOMAIN plans)
  BY <1>1, KnownRecord, Recovers
<1> QED
  BY <1>1, <1>2, EveryPlanFollows DEF QuietStep

----------------------------------------------------------------------------
\* The completion of a step, and of the plan

\* The lifecycle after the last step of a running plan; everything else follows.
LEMMA CompletesPlan ==
  ASSUME NEW id, NEW last, NEW ids, NEW p \in PlanRecord(id, last, ids), Covered(p)
  PROVE  LET q == CompletePlan(p)
         IN /\ q \in PlanRecord(id, last, ids) /\ Covered(q)
            /\ q.pred = p.pred /\ q.compensates = p.compensates
            /\ q.now.succ = p.now.succ /\ q.now.rollback = p.now.rollback
            /\ \/ q.now.lifecycle = p.now.lifecycle
               \/ p.now.lifecycle = "EXECUTING" /\ q.now.lifecycle = "COMPLETED"
<1> DEFINE c == [p.now EXCEPT !.lifecycle = PlanTo.ALL_STEPS_TERMINAL]
<1>1. p.now \in Content(StepCount(id), last, ids)
  BY RecordParts
<1>2. /\ c \in Content(StepCount(id), last, ids)
      /\ c.succ = p.now.succ /\ c.rollback = p.now.rollback /\ c.lifecycle = "COMPLETED"
  BY <1>1, PlanTable DEF Content, PlanLifecycle
<1>3. \/ CompletePlan(p) = p
      \/ p.now.lifecycle = "EXECUTING" /\ CompletePlan(p) = Seal(p, c)
  BY DEF CompletePlan
<1> HIDE DEF c
<1>4. /\ Seal(p, c) \in PlanRecord(id, last, ids) /\ Covered(Seal(p, c))
      /\ Seal(p, c).pred = p.pred /\ Seal(p, c).compensates = p.compensates
      /\ Seal(p, c).now.succ = p.now.succ /\ Seal(p, c).now.rollback = p.now.rollback
      /\ Seal(p, c).now.lifecycle = "COMPLETED"
  BY <1>2, SealRecord
<1> QED
  BY <1>3, <1>4

\* The record of the plan whose step was completed: it follows what it was, but
\* that it may be completed now.
LEMMA CompletesStep ==
  ASSUME TypeOK, OutcomeIsSealed, NEW id \in DOMAIN plans,
         NEW i \in DOMAIN plans[id].now.at
  PROVE  LET q == Recomputed(plans[id])
             step == Seal(q, [q.now EXCEPT !.at[i] = "COMPLETED",
                                           !.evidence = q.now.evidence \cup {i}])
             done == CompletePlan(Seal(step, [step.now EXCEPT !.at = Refreshed(step.now.at)]))
         IN /\ done \in PlanRecord(id, epoch, DOMAIN plans) /\ Covered(done)
            /\ done.pred = plans[id].pred /\ done.compensates = plans[id].compensates
            /\ done.now.succ = plans[id].now.succ
            /\ done.now.rollback = plans[id].now.rollback
            /\ \/ done.now.lifecycle = plans[id].now.lifecycle
               \/ /\ plans[id].now.lifecycle = "EXECUTING"
                  /\ done.now.lifecycle = "COMPLETED"
<1> DEFINE p == plans[id]
           q == Recomputed(p)
           a == q.now
           b == [a EXCEPT !.at[i] = "COMPLETED", !.evidence = a.evidence \cup {i}]
           step == Seal(q, b)
           d == step.now
           c == [d EXCEPT !.at = Refreshed(d.at)]
           full == Seal(step, c)
           done == CompletePlan(full)
<1>1. /\ p \in PlanRecord(id, epoch, DOMAIN plans) /\ Covered(p) /\ p.id = id
      /\ i \in 1 .. StepCount(id)
  BY KnownRecord
<1>2. /\ q \in PlanRecord(id, epoch, DOMAIN plans)
      /\ q.pred = p.pred /\ q.compensates = p.compensates
      /\ q.now.succ = p.now.succ /\ q.now.rollback = p.now.rollback
      /\ q.now.lifecycle = p.now.lifecycle
  BY <1>1, Recomputes DEF Follows
<1> HIDE DEF q
<1>3. /\ a \in Content(StepCount(id), epoch, DOMAIN plans) /\ a = q.now
      /\ a.at \in [1 .. StepCount(id) -> StepLifecycle]
      /\ a.evidence \cup {i} \in SUBSET (1 .. StepCount(id))
  BY <1>1, <1>2, RecordParts, ContentParts
<1> HIDE DEF a
<1>4. [a.at EXCEPT ![i] = "COMPLETED"] \in [1 .. StepCount(id) -> StepLifecycle]
  BY <1>1, <1>3 DEF StepLifecycle
<1>5. /\ b \in Content(StepCount(id), epoch, DOMAIN plans)
      /\ b.succ = a.succ /\ b.rollback = a.rollback /\ b.lifecycle = a.lifecycle
  BY <1>3, <1>4 DEF Content
<1> HIDE DEF b
<1>6. /\ step \in PlanRecord(id, epoch, DOMAIN plans)
      /\ step.pred = p.pred /\ step.compensates = p.compensates
      /\ step.now.succ = p.now.succ /\ step.now.rollback = p.now.rollback
      /\ step.now.lifecycle = p.now.lifecycle
  BY <1>2, <1>3, <1>5, SealRecord
<1> HIDE DEF step
<1>7. /\ d \in Content(StepCount(id), epoch, DOMAIN plans) /\ d = step.now
      /\ d.at \in [1 .. StepCount(id) -> StepLifecycle]
  BY <1>6, RecordParts, ContentParts
<1> HIDE DEF d
<1>8. Refreshed(d.at) \in [1 .. StepCount(id) -> StepLifecycle]
  BY <1>7, StepsTyped
<1>9. /\ c \in Content(StepCount(id), epoch, DOMAIN plans)
      /\ c.succ = d.succ /\ c.rollback = d.rollback /\ c.lifecycle = d.lifecycle
  BY <1>7, <1>8 DEF Content
<1> HIDE DEF c
<1>10. /\ full \in PlanRecord(id, epoch, DOMAIN plans) /\ Covered(full)
       /\ full.pred = p.pred /\ full.compensates = p.compensates
       /\ full.now.succ = p.now.succ /\ full.now.rollback = p.now.rollback
       /\ full.now.lifecycle = p.now.lifecycle
  BY <1>6, <1>7, <1>9, SealRecord
<1> HIDE DEF full
<1>11. /\ done \in PlanRecord(id, epoch, DOMAIN plans) /\ Covered(done)
       /\ done.pred = p.pred /\ done.compensates = p.compensates
       /\ done.now.succ = p.now.succ /\ done.now.rollback = p.now.rollback
       /\ \/ done.now.lifecycle = p.now.lifecycle
          \/ p.now.lifecycle = "EXECUTING" /\ done.now.lifecycle = "COMPLETED"
  BY <1>10, CompletesPlan
<1> HIDE DEF done, p
<1> QED
  BY <1>11 DEF done, full, c, d, step, b, a, q, p

\* What the completion of a plan makes of its predecessor.
LEMMA ClosesPredecessor ==
  ASSUME NEW id, NEW last, NEW ids, NEW f \in PlanRecord(id, last, ids), Covered(f),
         NEW p, p.id \in ids \cup {Nil}, NEW replaces \in BOOLEAN
  PROVE  LET g == Replaced(f, p, replaces)
         IN /\ g \in PlanRecord(id, last, ids) /\ Covered(g)
            /\ g.pred = f.pred /\ g.compensates = f.compensates
            /\ g.now.rollback = f.now.rollback
            /\ g.now.succ \in {f.now.succ, p.id}
            /\ Onward(f.now.lifecycle, g.now.lifecycle)
            /\ p.compensates => g.now.lifecycle # "ROLLING_BACK"
<1> DEFINE c == [f.now EXCEPT !.lifecycle = PlanTo.ROLLBACK_COMPLETED, !.succ = p.id,
                              !.causes = f.now.causes \cup {"SUPERSEDED"},
                              !.required = FALSE, !.moved = TRUE, !.fresh = FALSE]
           r == RolledBack(f, p)
           s == SupersedeEntry(r, p.id)
<1>1. f.now \in Content(StepCount(id), last, ids)
  BY RecordParts
<1>2. f.now.causes \cup {"SUPERSEDED"} \in SUBSET PlanCause
  BY <1>1, ContentParts DEF PlanCause
<1>3. /\ c \in Content(StepCount(id), last, ids)
      /\ c.succ = p.id /\ c.rollback = f.now.rollback /\ c.lifecycle = "SUPERSEDED"
  BY <1>1, <1>2, PlanTable DEF Content, PlanLifecycle
<1>4. r = IF ~p.compensates \/ f.now.lifecycle # "ROLLING_BACK" THEN f ELSE Seal(f, c)
  BY DEF RolledBack
<1> HIDE DEF c, r
<1>5. /\ Seal(f, c) \in PlanRecord(id, last, ids) /\ Covered(Seal(f, c))
      /\ Seal(f, c).pred = f.pred /\ Seal(f, c).compensates = f.compensates
      /\ Seal(f, c).now.rollback = f.now.rollback /\ Seal(f, c).now.succ = p.id
      /\ Seal(f, c).now.lifecycle = "SUPERSEDED"
  BY <1>3, SealRecord
<1>6. /\ r \in PlanRecord(id, last, ids) /\ Covered(r)
      /\ r.pred = f.pred /\ r.compensates = f.compensates
      /\ r.now.rollback = f.now.rollback /\ r.now.succ \in {f.now.succ, p.id}
      /\ Onward(f.now.lifecycle, r.now.lifecycle)
      /\ p.compensates => r.now.lifecycle # "ROLLING_BACK"
  BY <1>4, <1>5 DEF Onward, TerminalLifecycle
<1>7. /\ s \in PlanRecord(id, last, ids) /\ Covered(s) /\ Terminal(s)
      /\ s.pred = r.pred /\ s.compensates = r.compensates
      /\ s.now.rollback = r.now.rollback /\ s.now.succ \in {r.now.succ, p.id}
      /\ Onward(r.now.lifecycle, s.now.lifecycle)
  BY <1>6, Supersedes
<1>8. Replaced(f, p, replaces) = IF replaces THEN s ELSE r
  BY DEF Replaced, r
<1> HIDE DEF s
<1> QED
  BY <1>6, <1>7, <1>8 DEF Onward, Terminal, TerminalLifecycle

\* A completed step may complete its plan, and closes the plan's predecessor.
LEMMA AppliedIsQuiet ==
  ASSUME TypeOK, OutcomeIsSealed, NEW id \in DOMAIN plans,
         NEW i \in DOMAIN plans[id].now.at, CommitApplied(plans[id], i)
  PROVE  QuietStep
<1> DEFINE p == plans[id]
           q == Recomputed(p)
           step == Seal(q, [q.now EXCEPT !.at[i] = "COMPLETED",
                                         !.evidence = q.now.evidence \cup {i}])
           done == CompletePlan(Seal(step, [step.now EXCEPT !.at = Refreshed(step.now.at)]))
           stored == [plans EXCEPT ![id] = done]
<1>1. /\ p \in PlanRecord(id, epoch, DOMAIN plans) /\ Covered(p) /\ p.id = id /\ id # Nil
      /\ p.pred \in DOMAIN plans \cup {Nil}
  BY KnownRecord, RecordParts
<1>2. /\ UNCHANGED <<epoch, taken>>
      /\ \E replaces \in BOOLEAN :
           plans' = IF done.now.lifecycle = "COMPLETED"
                    THEN CompleteLineage(stored, done, replaces) ELSE stored
  BY <1>1 DEF CommitApplied
<1>3. /\ done \in PlanRecord(id, epoch, DOMAIN plans) /\ Covered(done)
      /\ done.pred = p.pred /\ done.compensates = p.compensates
      /\ done.now.succ = p.now.succ /\ done.now.rollback = p.now.rollback
      /\ \/ done.now.lifecycle = p.now.lifecycle
         \/ p.now.lifecycle = "EXECUTING" /\ done.now.lifecycle = "COMPLETED"
  BY CompletesStep
<1> HIDE DEF done
<1>4. done.id = id
  BY <1>3, RecordParts
<1>5. PICK replaces \in BOOLEAN :
        plans' = IF done.now.lifecycle = "COMPLETED"
                 THEN CompleteLineage(stored, done, replaces) ELSE stored
  BY <1>2
<1> DEFINE f == stored[p.pred]
           g == Replaced(f, done, replaces)
<1>6. \/ /\ plans' = stored
         /\ done.now.lifecycle = "COMPLETED" => p.pred = Nil
      \/ /\ plans' = [stored EXCEPT ![p.pred] = g]
         /\ p.pred # Nil /\ done.now.lifecycle = "COMPLETED"
  BY <1>3, <1>5 DEF CompleteLineage
<1>7. ASSUME NEW x \in DOMAIN plans
      PROVE  stored[x] \in PlanRecord(x, epoch, DOMAIN plans) /\ Covered(stored[x])
  BY <1>3, KnownRecord
<1>8. ASSUME p.pred # Nil
      PROVE  /\ g \in PlanRecord(p.pred, epoch, DOMAIN plans) /\ Covered(g)
             /\ g.pred = f.pred /\ g.compensates = f.compensates
             /\ g.now.rollback = f.now.rollback
             /\ g.now.succ \in {f.now.succ, id}
             /\ Onward(f.now.lifecycle, g.now.lifecycle)
             /\ done.compensates => g.now.lifecycle # "ROLLING_BACK"
  <2>1. f \in PlanRecord(p.pred, epoch, DOMAIN plans) /\ Covered(f)
    BY <1>1, <1>7, <1>8
  <2> HIDE DEF f
  <2>2. done.id \in DOMAIN plans \cup {Nil}
    BY <1>4
  <2>3. /\ g \in PlanRecord(p.pred, epoch, DOMAIN plans) /\ Covered(g)
        /\ g.pred = f.pred /\ g.compensates = f.compensates
        /\ g.now.rollback = f.now.rollback
        /\ g.now.succ \in {f.now.succ, done.id}
        /\ Onward(f.now.lifecycle, g.now.lifecycle)
        /\ done.compensates => g.now.lifecycle # "ROLLING_BACK"
    BY <2>1, <2>2, ClosesPredecessor
  <2> QED
    BY <1>4, <2>3
<1> HIDE DEF g

\* What is stored of a plan, before its lineage is closed.
<1>9. ASSUME NEW x \in DOMAIN plans
      PROVE  /\ stored[x].pred = plans[x].pred
             /\ stored[x].compensates = plans[x].compensates
             /\ stored[x].now.rollback = plans[x].now.rollback
             /\ stored[x].now.succ = plans[x].now.succ
             /\ Terminal(plans[x]) => Terminal(stored[x])
             /\ plans[x].now.lifecycle = "ROLLING_BACK" =>
                  stored[x].now.lifecycle = "ROLLING_BACK"
             /\ stored[x].now.lifecycle = "COMPLETED" =>
                  x = id \/ plans[x].now.lifecycle = "COMPLETED"
  BY <1>3 DEF Terminal, TerminalLifecycle
<1>10. DOMAIN stored = DOMAIN plans /\ stored[id] = done
  OBVIOUS
<1> HIDE DEF stored
<1>11. DOMAIN plans' = DOMAIN plans
  BY <1>6, <1>10
<1>12. ASSUME NEW x \in DOMAIN plans
       PROVE  /\ plans'[x] \in PlanRecord(x, epoch, DOMAIN plans) /\ Covered(plans'[x])
              /\ plans'[x].pred = plans[x].pred
              /\ plans'[x].compensates = plans[x].compensates
              /\ plans'[x].now.rollback = plans[x].now.rollback
              /\ \/ plans'[x].now.succ = plans[x].now.succ
                 \/ plans'[x].now.succ = id /\ x = p.pred
              /\ Terminal(plans[x]) => Terminal(plans'[x])
              /\ plans[x].now.lifecycle = "ROLLING_BACK" =>
                   Terminal(plans'[x]) \/ plans'[x].now.lifecycle = "ROLLING_BACK"
              /\ plans'[x].now.lifecycle = "COMPLETED" =>
                   x = id \/ plans[x].now.lifecycle = "COMPLETED"
  <2>1. CASE plans'[x] = stored[x]
    BY <1>7, <1>9, <2>1
  <2>2. CASE x = p.pred /\ plans'[x] = g /\ p.pred # Nil
    BY <1>8, <1>9, <2>2 DEF Onward, Terminal
  <2> QED
    BY <1>6, <1>10, <2>1, <2>2
<1>13. ASSUME NEW x \in DOMAIN plans
       PROVE  SuccessorIsTold(x)
  BY <1>1, <1>12 DEF SuccessorIsTold
<1>14. ASSUME NEW x \in DOMAIN plans
       PROVE  RollbackIsBegun(x) /\ PlanKept(plans[x], plans'[x])
  BY <1>12 DEF RollbackIsBegun, PlanKept
<1>15. ASSUME NEW x \in DOMAIN plans
       PROVE  CompletionCloses(x)
  <2> SUFFICES ASSUME plans'[x].now.lifecycle = "COMPLETED",
                      plans[x].now.lifecycle # "COMPLETED",
                      plans'[x].compensates, plans'[x].pred # Nil
               PROVE  plans'[plans'[x].pred].now.lifecycle # "ROLLING_BACK"
    BY DEF CompletionCloses
  <2>1. x = id /\ plans'[x].pred = p.pred /\ p.pred \in DOMAIN plans /\ done.compensates
    BY <1>1, <1>3, <1>12
  <2>2. CASE plans' = stored
    <3>1. done.now.lifecycle = "COMPLETED"
      BY <1>10, <2>1, <2>2
    <3>2. plans' = [stored EXCEPT ![p.pred] = g]
      BY <1>6, <2>1, <3>1
    <3> QED
      BY <1>8, <1>10, <2>1, <3>2
  <2>3. CASE plans' = [stored EXCEPT ![p.pred] = g]
    BY <1>8, <1>10, <2>1, <2>3
  <2> QED
    BY <1>6, <2>2, <2>3
<1>16. Nil \notin DOMAIN plans
  BY DEF TypeOK
<1> QED
  BY <1>2, <1>11, <1>12, <1>13, <1>14, <1>15, <1>16 DEF QuietStep, LineageStep

----------------------------------------------------------------------------
\* Plans that are created

\* What creating a plan makes of another, whose successor may be told.
Carries(p, q, id, last, ids) ==
  /\ q \in PlanRecord(id, last, ids) /\ Covered(q)
  /\ q.pred = p.pred /\ q.compensates = p.compensates
  /\ q.now.rollback = p.now.rollback
  /\ Onward(p.now.lifecycle, q.now.lifecycle)

\* One after another.
LEMMA CarriesAgain ==
  ASSUME NEW p, NEW q, NEW r, NEW id, NEW last, NEW ids,
         Carries(p, q, id, last, ids), Carries(q, r, id, last, ids)
  PROVE  Carries(p, r, id, last, ids)
BY DEF Carries, Onward

\* A plan that is left alone.
LEMMA CarriesItself ==
  ASSUME NEW id, NEW last, NEW ids, NEW p \in PlanRecord(id, last, ids), Covered(p)
  PROVE  Carries(p, p, id, last, ids)
BY DEF Carries, Onward

\* The results of the three operators, named so that what holds of them can be
\* cited.
IsFresh(f, id, compensates, pred) == f = Fresh(id, compensates, pred)
IsEmplaced(e, ps, f) == e = Emplace(ps, f)
IsLinked(l, ps, id) == l = Link(ps, id)

\* A new record is sealed, and has neither a successor nor a rollback.
LEMMA FreshParts ==
  ASSUME NEW f, NEW id, NEW compensates, NEW pred, IsFresh(f, id, compensates, pred)
  PROVE  /\ f.id = id /\ f.pred = pred /\ f.compensates = compensates
         /\ f.now.succ = Nil /\ f.now.rollback = Nil /\ f.now.lifecycle = "READY"
BY PlanTable DEF IsFresh, Fresh

\* It is well typed among the plans it names.
LEMMA FreshRecord ==
  ASSUME TypeOK, NEW f, NEW id, NEW ids, NEW compensates, NEW pred,
         IsFresh(f, id, compensates, pred),
         compensates \in BOOLEAN, pred \in ids \cup {Nil}
  PROVE  f \in PlanRecord(id, epoch, ids)
<1> DEFINE blank == [i \in 1 .. StepCount(id) |-> "PENDING"]
           at == Refreshed(blank)
           now == [lifecycle |-> PlanTo.VALIDATE_OK, causes |-> {}, bound |-> epoch,
                   succ |-> Nil, rollback |-> Nil, required |-> FALSE, evidence |-> {},
                   at |-> at, moved |-> FALSE, fresh |-> FALSE]
           r == [id |-> id, compensates |-> compensates, pred |-> pred,
                 now |-> now, sealed |-> now]
<1>1. f = r
  BY DEF IsFresh, Fresh
<1>2. blank \in [1 .. StepCount(id) -> StepLifecycle]
  BY DEF StepLifecycle
<1> HIDE DEF blank
<1>3. at \in [1 .. StepCount(id) -> StepLifecycle]
  BY <1>2, StepsTyped
<1> HIDE DEF at
<1>4. epoch \in 1 .. epoch
  BY BoundAssumption DEF TypeOK
<1>5. now \in Content(StepCount(id), epoch, ids)
  BY <1>3, <1>4, PlanTable DEF Content, PlanLifecycle
<1> HIDE DEF now
<1>6. r \in PlanRecord(id, epoch, ids)
  BY <1>5 DEF PlanRecord
<1> HIDE DEF r
<1> QED
  BY <1>1, <1>6

\* A record that is emplaced, or was there already; the others stay.
LEMMA EmplaceParts ==
  ASSUME NEW e, NEW ps, NEW f, NEW id, IsEmplaced(e, ps, f), f.id = id
  PROVE  /\ \A x : x \in DOMAIN e <=> x \in DOMAIN ps \/ x = id
         /\ id \notin DOMAIN ps => e[id] = Touch(f)
         /\ \A x \in DOMAIN ps : e[x] \in {ps[x], Touch(ps[x])}
BY DEF IsEmplaced, Emplace

\* Emplacing carries every plan that there is.
LEMMA EmplaceKeeps ==
  ASSUME NEW e, NEW ps, NEW f, NEW x, NEW last, NEW ids,
         IsEmplaced(e, ps, f), x \in DOMAIN ps, ps[x] \in PlanRecord(x, last, ids), Covered(ps[x])
  PROVE  Carries(ps[x], e[x], x, last, ids) /\ e[x].now.succ = ps[x].now.succ
<1>1. /\ Carries(ps[x], Touch(ps[x]), x, last, ids)
      /\ Touch(ps[x]).now.succ = ps[x].now.succ
  BY TouchRecord DEF Carries, Onward
<1>2. Carries(ps[x], ps[x], x, last, ids)
  BY CarriesItself
<1>3. e[x] \in {ps[x], Touch(ps[x])}
  BY EmplaceParts
<1> QED
  BY <1>1, <1>2, <1>3

\* The plan of the same key is superseded, and names its successor.
LEMMA Displaces ==
  ASSUME TypeOK, OutcomeIsSealed, NEW id, NEW pred, NEW ids,
         DOMAIN plans \subseteq ids, id \in ids, Key(id) \in DOMAIN byKey => pred \in DOMAIN plans
  PROVE  LET d == Displace(plans, id, pred)
         IN /\ DOMAIN d = DOMAIN plans
            /\ \A x \in DOMAIN plans :
                 /\ Carries(plans[x], d[x], x, epoch, ids)
                 /\ \/ d[x].now.succ = plans[x].now.succ
                    \/ d[x].now.succ = id /\ x = pred
            /\ Key(id) \in DOMAIN byKey => Terminal(d[pred])
<1> DEFINE d == Displace(plans, id, pred)
           p == plans[pred]
           s == SupersedeEntry(p, id)
           b == s.now
           c == [b EXCEPT !.succ = id]
           q == [s EXCEPT !.now = c]
<1>1. ASSUME NEW x \in DOMAIN plans
      PROVE  plans[x] \in PlanRecord(x, epoch, ids) /\ Covered(plans[x])
  <2>1. plans[x] \in PlanRecord(x, epoch, DOMAIN plans) /\ Covered(plans[x])
    BY KnownRecord
  <2>2. epoch \in Nat /\ epoch <= epoch
    BY BoundAssumption DEF TypeOK
  <2> QED
    BY <2>1, <2>2, RecordGrows
<1>2. CASE Key(id) \notin DOMAIN byKey
  <2>1. Displace(plans, id, pred) = plans
    BY <1>2 DEF Displace
  <2> QED
    BY <1>1, <1>2, <2>1, CarriesItself
<1>3. CASE Key(id) \in DOMAIN byKey
  <2>1. d = [plans EXCEPT ![pred] = q]
    BY <1>3 DEF Displace, Told
  <2>2. p \in PlanRecord(pred, epoch, ids) /\ Covered(p)
    BY <1>1, <1>3
  <2>3. /\ s \in PlanRecord(pred, epoch, ids) /\ Covered(s) /\ Terminal(s)
        /\ s.pred = p.pred /\ s.compensates = p.compensates
        /\ s.now.rollback = p.now.rollback
        /\ Onward(p.now.lifecycle, s.now.lifecycle)
    BY <2>2, Supersedes
  <2> HIDE DEF s
  <2>4. b \in Content(StepCount(pred), epoch, ids) /\ b = s.now
    BY <2>3, RecordParts
  <2> HIDE DEF b
  <2>5. /\ c \in Content(StepCount(pred), epoch, ids)
        /\ c.succ = id /\ c.rollback = b.rollback /\ c.lifecycle = b.lifecycle
        /\ c.evidence = b.evidence /\ c.at = b.at
    BY <2>4 DEF Content
  <2> HIDE DEF c
  <2>6. /\ q \in PlanRecord(pred, epoch, ids) /\ q.now = c /\ q.sealed = s.sealed
        /\ q.pred = s.pred /\ q.compensates = s.compensates
    BY <2>3, <2>5, Rewritten
  <2> HIDE DEF q
  <2>7. Covered(q)
    BY <2>3, <2>4, <2>5, <2>6 DEF Covered
  <2>8. Carries(p, q, pred, epoch, ids) /\ q.now.succ = id /\ Terminal(q)
    BY <2>3, <2>4, <2>5, <2>6, <2>7 DEF Carries, Terminal
  <2> HIDE DEF p
  <2>9. ASSUME NEW x \in DOMAIN plans
        PROVE  /\ Carries(plans[x], d[x], x, epoch, ids)
               /\ \/ d[x].now.succ = plans[x].now.succ
                  \/ d[x].now.succ = id /\ x = pred
    <3>1. CASE x = pred
      BY <1>3, <2>1, <2>8, <3>1 DEF p
    <3>2. CASE x # pred
      <4>1. d[x] = plans[x]
        BY <2>1, <3>2
      <4> QED
        BY <1>1, <4>1, CarriesItself
    <3> QED
      BY <3>1, <3>2
  <2>10. DOMAIN d = DOMAIN plans /\ d[pred] = q
    BY <1>3, <2>1
  <2> QED
    BY <2>8, <2>9, <2>10
<1> QED
  BY <1>2, <1>3

\* Whoever the plan succeeds names it as its successor, unless it names one.
LEMMA LinkParts ==
  ASSUME NEW l, NEW ps, NEW id, IsLinked(l, ps, id)
  PROVE  /\ DOMAIN l = DOMAIN ps
         /\ \A x \in DOMAIN ps :
              \/ l[x] = ps[x]
              \/ /\ x = ps[id].pred
                 /\ l[x] = Seal(ps[x], [ps[x].now EXCEPT !.succ = id])
BY DEF IsLinked, Link

\* Linking carries every plan.
LEMMA LinkKeeps ==
  ASSUME NEW l, NEW ps, NEW id, NEW x, NEW last, NEW ids,
         IsLinked(l, ps, id), x \in DOMAIN ps, id \in ids,
         ps[x] \in PlanRecord(x, last, ids), Covered(ps[x])
  PROVE  /\ Carries(ps[x], l[x], x, last, ids)
         /\ \/ l[x].now.succ = ps[x].now.succ
            \/ l[x].now.succ = id /\ x = ps[id].pred
<1> DEFINE p == ps[x]
           b == p.now
           c == [b EXCEPT !.succ = id]
<1>1. \/ l[x] = p
      \/ x = ps[id].pred /\ l[x] = Seal(p, c)
  BY LinkParts
<1>2. b \in Content(StepCount(x), last, ids) /\ b = p.now
  BY RecordParts
<1>3. p \in PlanRecord(x, last, ids) /\ Carries(p, p, x, last, ids)
  BY CarriesItself
<1> HIDE DEF p, b
<1>4. /\ c \in Content(StepCount(x), last, ids)
      /\ c.succ = id /\ c.rollback = b.rollback /\ c.lifecycle = b.lifecycle
  BY <1>2 DEF Content
<1> HIDE DEF c
<1>5. Carries(p, Seal(p, c), x, last, ids) /\ Seal(p, c).now.succ = id
  BY <1>2, <1>3, <1>4, SealRecord DEF Carries, Onward
<1> QED
  BY <1>1, <1>3, <1>5 DEF p

\* The step that adds a plan, or meets one that has the identity.
GrowsBy(id) ==
  /\ DOMAIN plans' = DOMAIN plans \cup {id}
  /\ Index(id) /\ NoteTaken(id)
  /\ LineageStep

\* create_plan, whose predecessor of the same key is closed afterwards.
LEMMA CreateGrows ==
  ASSUME TypeOK, OutcomeIsSealed, NEW id \in Forwards, CreatePlan(id)
  PROVE  /\ GrowsBy(id)
         /\ Key(id) \in DOMAIN byKey => Terminal(plans'[byKey[Key(id)]])
<1> DEFINE ids == DOMAIN plans \cup {id}
<1>1. PICK pred \in Predecessors(id) :
        plans' = Link(Emplace(Displace(plans, id, pred), Fresh(id, FALSE, pred)), id)
  BY DEF CreatePlan
<1> DEFINE f == Fresh(id, FALSE, pred)
           d == Displace(plans, id, pred)
           e == Emplace(d, f)
<1>0. IsLinked(plans', e, id)
  BY <1>1 DEF IsLinked
<1>2. /\ Key(id) \in DOMAIN byKey => pred = byKey[Key(id)] /\ pred # id
      /\ pred \in DOMAIN plans \cup {Nil}
      /\ Key(id) \in DOMAIN byKey => pred \in DOMAIN plans
      /\ id \in DOMAIN plans => Key(id) \in DOMAIN byKey
      /\ id # Nil /\ Nil \notin DOMAIN plans
  BY IdentityAssumption DEF CreatePlan, Predecessors, TypeOK
<1>3. /\ f \in PlanRecord(id, epoch, ids) /\ f.id = id /\ f.pred = pred
      /\ f.now.succ = Nil /\ f.now.rollback = Nil
  <2>1. IsFresh(f, id, FALSE, pred)
    BY DEF IsFresh
  <2> HIDE DEF f
  <2> QED
    BY <1>2, <2>1, FreshRecord, FreshParts
<1>4. /\ DOMAIN d = DOMAIN plans
      /\ \A x \in DOMAIN plans :
           /\ Carries(plans[x], d[x], x, epoch, ids)
           /\ \/ d[x].now.succ = plans[x].now.succ
              \/ d[x].now.succ = id /\ x = pred
      /\ Key(id) \in DOMAIN byKey => Terminal(d[pred])
  BY <1>2, Displaces
<1> HIDE DEF f, d
<1>5. \A x \in DOMAIN d : d[x] \in PlanRecord(x, epoch, ids) /\ Covered(d[x])
  BY <1>4 DEF Carries
<1>6. /\ DOMAIN e = ids
      /\ \A x \in DOMAIN plans : /\ Carries(d[x], e[x], x, epoch, ids)
                                 /\ e[x].now.succ = d[x].now.succ
      /\ id \notin DOMAIN plans =>
           /\ e[id] \in PlanRecord(id, epoch, ids) /\ Covered(e[id])
           /\ e[id].pred = pred
           /\ e[id].now.succ = Nil /\ e[id].now.rollback = Nil
  <2>0. IsEmplaced(e, d, f)
    BY DEF IsEmplaced
  <2> HIDE DEF e
  <2>1. DOMAIN e = ids
    BY <1>3, <1>4, <2>0, EmplaceParts
  <2> HIDE DEF ids
  <2>2. ASSUME NEW x \in DOMAIN plans
        PROVE  /\ Carries(d[x], e[x], x, epoch, ids)
               /\ e[x].now.succ = d[x].now.succ
    BY <1>4, <1>5, <2>0, EmplaceKeeps
  <2>3. id \notin DOMAIN plans => e[id] = Touch(f)
    BY <1>3, <1>4, <2>0, EmplaceParts
  <2> QED
    BY <1>3, <2>1, <2>2, <2>3, TouchRecord
<1> HIDE DEF e
<1>7. ASSUME NEW x \in ids
      PROVE  e[x] \in PlanRecord(x, epoch, ids) /\ Covered(e[x])
  BY <1>6 DEF Carries
<1>8. id \in ids
  OBVIOUS
<1>9. /\ DOMAIN plans' = ids
      /\ \A x \in ids :
           /\ Carries(e[x], plans'[x], x, epoch, ids)
           /\ \/ plans'[x].now.succ = e[x].now.succ
              \/ plans'[x].now.succ = id /\ x = e[id].pred
  <2> HIDE DEF ids
  <2>1. DOMAIN plans' = ids
    BY <1>0, <1>6, LinkParts
  <2>2. ASSUME NEW x \in ids
        PROVE  /\ Carries(e[x], plans'[x], x, epoch, ids)
               /\ \/ plans'[x].now.succ = e[x].now.succ
                  \/ plans'[x].now.succ = id /\ x = e[id].pred
    BY <1>0, <1>6, <1>7, <1>8, LinkKeeps
  <2> QED
    BY <2>1, <2>2
<1>10. Index(id) /\ NoteTaken(id) /\ UNCHANGED epoch
  BY DEF CreatePlan
<1>11. taken \subseteq taken' /\ (id \in DOMAIN plans => id \in taken')
  BY <1>10 DEF NoteTaken
<1>12. plans'[id].pred = e[id].pred
  BY <1>8, <1>9 DEF Carries
<1>13. ASSUME NEW x \in DOMAIN plans
       PROVE  /\ Carries(plans[x], plans'[x], x, epoch, ids)
              /\ \/ plans'[x].now.succ = plans[x].now.succ
                 \/ plans'[x].now.succ = id /\ (id \in taken' \/ plans'[id].pred = x)
  <2>1. Carries(plans[x], plans'[x], x, epoch, ids)
    <3>1. /\ Carries(plans[x], d[x], x, epoch, ids) /\ Carries(d[x], e[x], x, epoch, ids)
          /\ Carries(e[x], plans'[x], x, epoch, ids)
      BY <1>4, <1>6, <1>9
    <3> QED
      BY <3>1, CarriesAgain
  <2>2. \/ plans'[x].now.succ = plans[x].now.succ
        \/ plans'[x].now.succ = id /\ x \in {pred, e[id].pred}
    BY <1>4, <1>6, <1>9
  <2>3. id \notin DOMAIN plans => e[id].pred = pred
    BY <1>6
  <2> QED
    BY <1>11, <1>12, <2>1, <2>2, <2>3
<1>14. ASSUME NEW x \in DOMAIN plans
       PROVE  /\ SuccessorIsTold(x) /\ RollbackIsBegun(x)
              /\ PlanKept(plans[x], plans'[x]) /\ CompletionCloses(x)
  <2>1. plans'[x].now.rollback = plans[x].now.rollback /\ RollbackIsBegun(x)
    BY <1>13 DEF Carries, RollbackIsBegun
  <2>2. SuccessorIsTold(x)
    BY <1>13 DEF SuccessorIsTold
  <2>3. PlanKept(plans[x], plans'[x]) /\ CompletionCloses(x)
    BY <1>13 DEF Carries, PlanKept, CompletionCloses, Onward, Terminal
  <2> QED
    BY <2>1, <2>2, <2>3
<1>15. ASSUME id \notin DOMAIN plans
       PROVE  SuccessorIsTold(id) /\ RollbackIsBegun(id)
  <2>1. plans'[id].now.rollback = Nil
    BY <1>6, <1>9, <1>15 DEF Carries
  <2>2. e[id].pred # id
    BY <1>2, <1>6, <1>15
  <2>3. plans'[id].now.succ = Nil
    BY <1>6, <1>9, <1>15, <2>2
  <2> QED
    BY <2>1, <2>3 DEF SuccessorIsTold, RollbackIsBegun
<1>16. ASSUME NEW x \in DOMAIN plans'
       PROVE  /\ plans'[x] \in PlanRecord(x, epoch', DOMAIN plans') /\ Covered(plans'[x])
              /\ SuccessorIsTold(x) /\ RollbackIsBegun(x)
  BY <1>9, <1>10, <1>14, <1>15 DEF Carries
<1>17. Nil \notin DOMAIN plans' /\ DOMAIN plans \subseteq DOMAIN plans'
  BY <1>2, <1>9
<1>18. LineageStep
  BY <1>11, <1>14, <1>16, <1>17 DEF LineageStep
<1>19. Key(id) \in DOMAIN byKey => Terminal(plans'[byKey[Key(id)]])
  <2> SUFFICES ASSUME Key(id) \in DOMAIN byKey
               PROVE  Terminal(plans'[pred])
    BY <1>2
  <2>1. pred \in DOMAIN plans /\ Terminal(d[pred])
    BY <1>2, <1>4
  <2>2. Carries(d[pred], e[pred], pred, epoch, ids) /\ Carries(e[pred], plans'[pred], pred, epoch, ids)
    BY <1>6, <1>9, <2>1
  <2> QED
    BY <2>1, <2>2 DEF Carries, Onward, Terminal
<1> QED
  BY <1>9, <1>10, <1>18, <1>19 DEF GrowsBy

\* begin_rollback adds the compensating plan, or meets one that has the identity,
\* and the plan rolls back under its name.
LEMMA BeginGrows ==
  ASSUME TypeOK, Lineage, NEW id \in DOMAIN plans, BeginRollback(plans[id])
  PROVE  \E undo : /\ GrowsBy(undo) /\ undo # id
                   /\ plans'[id].now.rollback = undo /\ undo # Nil
<1> DEFINE p == plans[id]
           undo == [source |-> observed.generation, target |-> id.source,
                    structure |-> Applied(p)]
           ids == DOMAIN plans \cup {undo}
           f == Fresh(undo, TRUE, id)
           e == Emplace(plans, f)
           b == [p.now EXCEPT !.lifecycle = PlanTo.BEGIN_ROLLBACK, !.required = TRUE]
           a == Fenced(b)
           c == [a EXCEPT !.rollback = undo, !.succ = undo]
           q == Seal(p, c)
<1>1. /\ p \in PlanRecord(id, epoch, DOMAIN plans) /\ Covered(p) /\ p.id = id /\ id # Nil
      /\ p.now \in Content(StepCount(id), epoch, DOMAIN plans)
      /\ Nil \notin DOMAIN plans
  BY KnownRecord DEF Lineage, TypeOK
<1>2. /\ plans' = [e EXCEPT ![id] = q]
      /\ Index(undo) /\ NoteTaken(undo) /\ UNCHANGED epoch
      /\ observed.generation # id.source /\ Rollbackable(p)
  BY <1>1 DEF BeginRollback, RollingBack, RollbackAllowed
<1>3. undo # Nil /\ undo # id
  <2>1. observed.generation # 0
    BY IdentityAssumption DEF TypeOK
  <2> QED
    BY <1>2, <2>1 DEF Nil
<1>4. p.now.rollback = Nil /\ ~Terminal(p)
  BY <1>2 DEF Lineage, RollbackIsNamed, Rollbackable
<1> HIDE DEF undo
<1>5. epoch \in Nat /\ epoch <= epoch
  BY BoundAssumption DEF TypeOK
<1>6. ASSUME NEW x \in DOMAIN plans
      PROVE  plans[x] \in PlanRecord(x, epoch, ids) /\ Covered(plans[x])
  <2>1. plans[x] \in PlanRecord(x, epoch, DOMAIN plans) /\ Covered(plans[x])
    BY KnownRecord DEF Lineage
  <2> QED
    BY <1>5, <2>1, RecordGrows
<1>7. /\ f \in PlanRecord(undo, epoch, ids) /\ f.id = undo /\ f.pred = id
      /\ f.compensates
      /\ f.now.succ = Nil /\ f.now.rollback = Nil /\ f.now.lifecycle = "READY"
  <2>1. IsFresh(f, undo, TRUE, id)
    BY DEF IsFresh
  <2> HIDE DEF f
  <2> QED
    BY <2>1, FreshRecord, FreshParts
<1> HIDE DEF f
<1>8. /\ DOMAIN e = ids
      /\ \A x \in DOMAIN plans : /\ Carries(plans[x], e[x], x, epoch, ids)
                                 /\ e[x].now.succ = plans[x].now.succ
      /\ undo \notin DOMAIN plans =>
           /\ e[undo] \in PlanRecord(undo, epoch, ids) /\ Covered(e[undo])
           /\ e[undo].pred = id /\ e[undo].compensates
           /\ e[undo].now.succ = Nil /\ e[undo].now.rollback = Nil
           /\ e[undo].now.lifecycle = "READY"
  <2>0. IsEmplaced(e, plans, f)
    BY DEF IsEmplaced
  <2> HIDE DEF e
  <2>1. DOMAIN e = ids
    BY <1>7, <2>0, EmplaceParts
  <2> HIDE DEF ids
  <2>2. ASSUME NEW x \in DOMAIN plans
        PROVE  /\ Carries(plans[x], e[x], x, epoch, ids)
               /\ e[x].now.succ = plans[x].now.succ
    BY <1>6, <2>0, EmplaceKeeps
  <2>3. undo \notin DOMAIN plans => e[undo] = Touch(f)
    BY <1>7, <2>0, EmplaceParts
  <2> QED
    BY <1>7, <2>1, <2>2, <2>3, TouchRecord
<1> HIDE DEF e
<1>9. p \in PlanRecord(id, epoch, ids) /\ p.now \in Content(StepCount(id), epoch, ids)
  BY <1>6, RecordParts
<1>10. b \in Content(StepCount(id), epoch, ids) /\ b.lifecycle = "ROLLING_BACK"
  BY <1>9, PlanTable DEF Content, PlanLifecycle
<1> HIDE DEF b
<1>11. a \in Content(StepCount(id), epoch, ids) /\ a.lifecycle = "ROLLING_BACK"
  BY <1>10, FencedContent
<1> HIDE DEF a
<1>12. /\ c \in Content(StepCount(id), epoch, ids)
       /\ c.lifecycle = "ROLLING_BACK" /\ c.rollback = undo /\ c.succ = undo
  BY <1>11 DEF Content
<1> HIDE DEF c
<1>13. /\ q \in PlanRecord(id, epoch, ids) /\ Covered(q)
       /\ q.pred = p.pred /\ q.compensates = p.compensates
       /\ q.now.lifecycle = "ROLLING_BACK" /\ q.now.rollback = undo /\ q.now.succ = undo
  BY <1>9, <1>12, SealRecord
<1> HIDE DEF q
<1>14. /\ DOMAIN plans' = ids /\ plans'[id] = q
       /\ \A x \in ids : x # id => plans'[x] = e[x]
  BY <1>2, <1>8
<1>15. taken \subseteq taken' /\ (undo \in DOMAIN plans => undo \in taken')
  BY <1>2 DEF NoteTaken
<1>16. undo \in taken' \/ /\ plans'[undo].pred = id /\ plans'[undo].compensates
                          /\ plans'[undo].now.lifecycle # "COMPLETED"
  BY <1>3, <1>8, <1>14, <1>15
<1>17. ASSUME NEW x \in DOMAIN plans
       PROVE  /\ SuccessorIsTold(x) /\ RollbackIsBegun(x)
              /\ PlanKept(plans[x], plans'[x]) /\ CompletionCloses(x)
              /\ plans'[x] \in PlanRecord(x, epoch, ids) /\ Covered(plans'[x])
  <2>1. CASE x = id
    <3>1. SuccessorIsTold(x) /\ RollbackIsBegun(x)
      BY <1>13, <1>14, <1>16, <2>1 DEF SuccessorIsTold, RollbackIsBegun
    <3>2. PlanKept(plans[x], plans'[x]) /\ CompletionCloses(x)
      BY <1>4, <1>13, <1>14, <2>1 DEF PlanKept, CompletionCloses
    <3> QED
      BY <1>13, <1>14, <2>1, <3>1, <3>2
  <2>2. CASE x # id
    <3>1. /\ Carries(plans[x], plans'[x], x, epoch, ids)
          /\ plans'[x].now.succ = plans[x].now.succ
      BY <1>8, <1>14, <2>2
    <3>2. SuccessorIsTold(x) /\ RollbackIsBegun(x)
      BY <3>1 DEF SuccessorIsTold, RollbackIsBegun, Carries
    <3>3. PlanKept(plans[x], plans'[x]) /\ CompletionCloses(x)
      BY <3>1 DEF Carries, PlanKept, CompletionCloses, Onward, Terminal
    <3> QED
      BY <3>1, <3>2, <3>3 DEF Carries
  <2> QED
    BY <2>1, <2>2
<1>18. ASSUME undo \notin DOMAIN plans
       PROVE  /\ SuccessorIsTold(undo) /\ RollbackIsBegun(undo)
              /\ plans'[undo] \in PlanRecord(undo, epoch, ids) /\ Covered(plans'[undo])
  BY <1>3, <1>8, <1>14, <1>18 DEF SuccessorIsTold, RollbackIsBegun
<1>19. LineageStep
  <2>1. \A x \in DOMAIN plans' :
          /\ plans'[x] \in PlanRecord(x, epoch', DOMAIN plans') /\ Covered(plans'[x])
          /\ SuccessorIsTold(x) /\ RollbackIsBegun(x)
    BY <1>2, <1>14, <1>17, <1>18
  <2>2. Nil \notin DOMAIN plans' /\ DOMAIN plans \subseteq DOMAIN plans'
    BY <1>1, <1>3, <1>14
  <2> QED
    BY <1>15, <1>17, <2>1, <2>2 DEF LineageStep
<1> QED
  BY <1>2, <1>3, <1>13, <1>14, <1>19 DEF GrowsBy

----------------------------------------------------------------------------
\* The inductive invariant

\* What the records hold, what the lineage of the plans relies on, and that the
\* index leads to the open plan of a key.
IInv == TypeOK /\ Lineage /\ IndexNamesTheOpen

IndexTyped ==
  /\ \A k : k \in DOMAIN byKey <=> \E x \in DOMAIN plans : k = Key(x)
  /\ \A k \in DOMAIN byKey : byKey[k] \in DOMAIN plans /\ Key(byKey[k]) = k

CountersTyped ==
  /\ observed \in Observations
  /\ epoch \in 1 .. MaxEpoch /\ restarts \in 0 .. MaxRestarts
  /\ events \in 0 .. MaxEvents

\* TypeOK, with its index and its counters named.
LEMMA TypeParts ==
  TypeOK <=> /\ Nil \notin DOMAIN plans
             /\ \A x \in DOMAIN plans : plans[x] \in PlanRecord(x, epoch, DOMAIN plans)
             /\ IndexTyped /\ CountersTyped /\ taken \subseteq DOMAIN plans
BY DEF TypeOK, IndexTyped, CountersTyped

\* A key that was taken by a rollback stays so.
LEMMA RetargetedStays ==
  ASSUME LineageStep, NEW k, Retargeted(k)
  PROVE  Retargeted(k)'
<1>1. PICK x \in DOMAIN plans :
        plans[x].now.rollback # Nil /\ Key(plans[x].now.rollback) = k
  BY DEF Retargeted
<1>2. x \in DOMAIN plans' /\ plans'[x].now.rollback = plans[x].now.rollback
  BY <1>1 DEF LineageStep, PlanKept
<1> QED
  BY <1>1, <1>2 DEF Retargeted

\* A closed plan stays closed.
LEMMA TerminalStays ==
  ASSUME LineageStep, NEW x \in DOMAIN plans, Terminal(plans[x])
  PROVE  Terminal(plans'[x])
BY DEF LineageStep, PlanKept

\* A step that leaves the index, or loads the plans again.
LEMMA QuietInvariant ==
  ASSUME IInv, QuietStep, UNCHANGED taken, CountersTyped',
         \/ UNCHANGED <<byKey, restarts>>
         \/ /\ restarts' # 0
            /\ byKey' \in [DOMAIN byKey -> DOMAIN plans]
            /\ \A k \in DOMAIN byKey : Key(byKey'[k]) = k
  PROVE  IInv'
<1>1. /\ TypeOK /\ Lineage /\ IndexNamesTheOpen /\ LineageStep
      /\ DOMAIN plans' = DOMAIN plans
  BY DEF IInv, QuietStep
<1>2. Lineage'
  BY <1>1, StepKeepsLineage
<1>3. IndexTyped /\ taken \subseteq DOMAIN plans
  BY <1>1, TypeParts
<1>4. IndexTyped'
  <2>1. CASE UNCHANGED <<byKey, restarts>>
    BY <1>1, <1>3, <2>1 DEF IndexTyped
  <2>2. CASE /\ byKey' \in [DOMAIN byKey -> DOMAIN plans]
             /\ \A k \in DOMAIN byKey : Key(byKey'[k]) = k
    BY <1>1, <1>3, <2>2 DEF IndexTyped
  <2> QED
    BY <2>1, <2>2
<1>5. TypeOK'
  <2>1. /\ Nil \notin DOMAIN plans'
        /\ \A x \in DOMAIN plans' : plans'[x] \in PlanRecord(x, epoch', DOMAIN plans')
    BY <1>1 DEF LineageStep
  <2> QED
    BY <1>1, <1>3, <1>4, <2>1 DEF TypeOK, IndexTyped, CountersTyped
<1>6. IndexNamesTheOpen'
  <2> SUFFICES ASSUME restarts' = 0, NEW x \in DOMAIN plans'
               PROVE  \/ Terminal(plans'[x]) \/ byKey'[Key(x)] = x
                      \/ Retargeted(Key(x))'
    BY DEF IndexNamesTheOpen, Terminal
  <2>1. x \in DOMAIN plans /\ UNCHANGED <<byKey, restarts>>
    BY <1>1
  <2>2. Terminal(plans[x]) \/ byKey[Key(x)] = x \/ Retargeted(Key(x))
    BY <1>1, <2>1 DEF IndexNamesTheOpen
  <2> QED
    BY <1>1, <2>1, <2>2, RetargetedStays, TerminalStays
<1> QED
  BY <1>2, <1>5, <1>6 DEF IInv

\* A step that adds a plan: the one that had the key is closed, or a rollback has
\* taken the key.
LEMMA GrowsInvariant ==
  ASSUME IInv, NEW id, GrowsBy(id), CountersTyped', UNCHANGED restarts,
         \/ Key(id) \in DOMAIN byKey => Terminal(plans'[byKey[Key(id)]])
         \/ Retargeted(Key(id))'
  PROVE  IInv'
<1>1. /\ TypeOK /\ Lineage /\ IndexNamesTheOpen /\ LineageStep
      /\ DOMAIN plans' = DOMAIN plans \cup {id} /\ Index(id) /\ NoteTaken(id)
  BY DEF IInv, GrowsBy
<1>2. Lineage'
  BY <1>1, StepKeepsLineage
<1>3. IndexTyped /\ taken \subseteq DOMAIN plans
  BY <1>1, TypeParts
<1>4. /\ DOMAIN byKey' = DOMAIN byKey \cup {Key(id)}
      /\ byKey'[Key(id)] = id
      /\ \A k \in DOMAIN byKey : k # Key(id) => byKey'[k] = byKey[k]
  BY <1>1 DEF Index
<1>5. IndexTyped'
  BY <1>1, <1>3, <1>4 DEF IndexTyped
<1>6. taken' \subseteq DOMAIN plans'
  BY <1>1, <1>3 DEF NoteTaken
<1>7. TypeOK'
  <2>1. /\ Nil \notin DOMAIN plans'
        /\ \A x \in DOMAIN plans' : plans'[x] \in PlanRecord(x, epoch', DOMAIN plans')
    BY <1>1 DEF LineageStep
  <2> QED
    BY <1>5, <1>6, <2>1 DEF TypeOK, IndexTyped, CountersTyped
<1>8. IndexNamesTheOpen'
  <2> SUFFICES ASSUME restarts' = 0, NEW x \in DOMAIN plans'
               PROVE  \/ Terminal(plans'[x]) \/ byKey'[Key(x)] = x
                      \/ Retargeted(Key(x))'
    BY DEF IndexNamesTheOpen, Terminal
  <2>1. CASE x = id
    BY <1>4, <2>1
  <2>2. CASE x \in DOMAIN plans
    <3>1. Terminal(plans[x]) \/ byKey[Key(x)] = x \/ Retargeted(Key(x))
      BY <1>1, <2>2 DEF IndexNamesTheOpen
    <3>2. ASSUME byKey[Key(x)] = x
          PROVE  \/ Terminal(plans'[x]) \/ byKey'[Key(x)] = x
                 \/ Retargeted(Key(x))'
      <4>1. Key(x) \in DOMAIN byKey
        BY <1>3, <2>2 DEF IndexTyped
      <4>2. CASE Key(x) # Key(id)
        BY <1>4, <3>2, <4>1, <4>2
      <4>3. CASE Key(x) = Key(id)
        BY <3>2, <4>1, <4>3
      <4> QED
        BY <4>2, <4>3
    <3> QED
      BY <1>1, <2>2, <3>1, <3>2, RetargetedStays, TerminalStays
  <2> QED
    BY <1>1, <2>1, <2>2
<1> QED
  BY <1>2, <1>7, <1>8 DEF IInv

\* The initial state has no plan.
LEMMA StartsTrue == Init => IInv
<1> SUFFICES ASSUME Init
             PROVE  IInv
  OBVIOUS
<1>1. DOMAIN plans = {} /\ DOMAIN byKey = {}
  BY DEF Init
<1>2. TypeOK
  <2>1. CountersTyped /\ taken = {}
    BY BoundAssumption DEF Init, CountersTyped
  <2>2. IndexTyped
    BY <1>1 DEF IndexTyped
  <2> QED
    BY <1>1, <2>1, <2>2, TypeParts
<1>3. Lineage /\ IndexNamesTheOpen
  BY <1>1 DEF Lineage, OutcomeIsSealed, LineageIsMutual, RollbackIsNamed, RollbackCloses,
              IndexNamesTheOpen
<1> QED
  BY <1>2, <1>3 DEF IInv

\* A step that changes no plan.
LEMMA UnchangedIsQuiet ==
  ASSUME TypeOK, OutcomeIsSealed, UNCHANGED <<plans, epoch, taken>>
  PROVE  QuietStep
<1>1. ASSUME NEW x \in DOMAIN plans
      PROVE  Follows(plans[x], plans'[x], epoch', DOMAIN plans)
  BY KnownRecord, FollowsItself
<1> QED
  BY <1>1, EveryPlanFollows DEF QuietStep

----------------------------------------------------------------------------
\* The inductive invariant

\* The counters keep within their bounds.
LEMMA CountersStayTyped ==
  ASSUME CountersTyped, [Next]_vars
  PROVE  CountersTyped'
<1>1. /\ observed \in Observations
      /\ epoch \in 1 .. MaxEpoch /\ restarts \in 0 .. MaxRestarts
      /\ events \in 0 .. MaxEvents
  BY DEF CountersTyped
<1>2. CASE Ordinary /\ UNCHANGED events
  <2>1. UNCHANGED <<observed, epoch, restarts>>
    <3>1. ASSUME NEW p, PlanAction(p)
          PROVE  UNCHANGED <<observed, epoch, restarts>>
      BY <3>1 DEF PlanAction, StepAction, Dispatch, CommitApplied, CommitInvalidates,
                  ReconcileStep, RevalidateOk, RevalidateFail, RefuseRollback,
                  RollbackAtOnce, BeginRollback
    <3>2. ASSUME NoteRouteChange \/ NotePathChange
          PROVE  UNCHANGED <<observed, epoch, restarts>>
      BY <3>2 DEF NoteRouteChange, NotePathChange
    <3> QED
      BY <1>2, <3>1, <3>2 DEF Ordinary
  <2> QED
    BY <1>1, <1>2, <2>1 DEF CountersTyped
<1>3. CASE Outside /\ events < MaxEvents /\ events' = events + 1
  <2>1. events' \in 0 .. MaxEvents
    BY <1>1, <1>3, BoundAssumption
  <2>2. ASSUME NEW id \in Forwards, CreatePlan(id)
        PROVE  UNCHANGED <<observed, epoch, restarts>>
    BY <2>2 DEF CreatePlan
  <2>3. ASSUME NEW p, Disturb(p)
        PROVE  UNCHANGED <<observed, epoch, restarts>>
    BY <2>3 DEF Disturb, RefuseDispatch, CommitAmbiguous, CommitFailure, RefuseRevalidate,
                PausePlan, RevokePlan, RetirePlan, LoseWorker
  <2>4. ASSUME AdvanceEpoch
        PROVE  epoch' \in 1 .. MaxEpoch /\ UNCHANGED <<observed, restarts>>
    BY <1>1, <2>4, BoundAssumption DEF AdvanceEpoch
  <2>5. ASSUME ChangeUpstream
        PROVE  observed' \in Observations /\ UNCHANGED <<epoch, restarts>>
    BY <2>5 DEF ChangeUpstream
  <2>6. ASSUME Restart
        PROVE  restarts' \in 0 .. MaxRestarts /\ UNCHANGED <<observed, epoch>>
    BY <1>1, <2>6, BoundAssumption DEF Restart
  <2> QED
    BY <1>1, <1>3, <2>1, <2>2, <2>3, <2>4, <2>5, <2>6 DEF Outside, CountersTyped
<1>4. CASE UNCHANGED vars
  BY <1>1, <1>4 DEF vars, CountersTyped
<1> QED
  BY <1>2, <1>3, <1>4 DEF Next

\* An action on one plan that leaves its lineage.
LEMMA MutationInvariant ==
  ASSUME IInv, CountersTyped', NEW id \in DOMAIN plans, Mutates(id),
         UNCHANGED <<byKey, epoch, restarts, taken>>
  PROVE  IInv'
<1>1. TypeOK /\ OutcomeIsSealed
  BY DEF IInv, Lineage
<1>2. QuietStep
  BY <1>1, MutatesQuietly
<1> QED
  BY <1>2, QuietInvariant

\* The actions on one plan that make progress,
LEMMA PlanActionInvariant ==
  ASSUME IInv, CountersTyped', NEW id \in DOMAIN plans, PlanAction(plans[id])
  PROVE  IInv'
<1>0. TypeOK /\ Lineage /\ OutcomeIsSealed
  BY DEF IInv, Lineage
<1>1. ASSUME NEW i \in DOMAIN plans[id].now.at, Dispatch(plans[id], i)
      PROVE  IInv'
  BY <1>0, <1>1, DispatchMutates, MutationInvariant DEF Dispatch
<1>2. ASSUME NEW i \in DOMAIN plans[id].now.at, CommitApplied(plans[id], i)
      PROVE  IInv'
  <2>1. QuietStep
    BY <1>0, <1>2, AppliedIsQuiet
  <2> QED
    BY <1>2, <2>1, QuietInvariant DEF CommitApplied
<1>3. ASSUME NEW i \in DOMAIN plans[id].now.at, CommitInvalidates(plans[id], i)
      PROVE  IInv'
  BY <1>0, <1>3, CheckMutates, MutationInvariant DEF CommitInvalidates
<1>4. ASSUME NEW i \in DOMAIN plans[id].now.at, ReconcileStep(plans[id], i)
      PROVE  IInv'
  BY <1>0, <1>4, ReconcileMutates, MutationInvariant DEF ReconcileStep
<1>5. CASE RevalidateOk(plans[id])
  BY <1>0, <1>5, RevalidateOkMutates, MutationInvariant DEF RevalidateOk
<1>6. CASE RevalidateFail(plans[id])
  BY <1>0, <1>6, RevalidateFailMutates, MutationInvariant DEF RevalidateFail
<1>7. CASE RefuseRollback(plans[id])
  BY <1>0, <1>7, RefuseRollbackMutates, MutationInvariant DEF RefuseRollback
<1>8. CASE RollbackAtOnce(plans[id])
  BY <1>0, <1>8, OperatorMutates, MutationInvariant DEF RollbackAtOnce
<1>9. CASE BeginRollback(plans[id])
  <2>1. PICK undo : /\ GrowsBy(undo) /\ undo # id
                    /\ plans'[id].now.rollback = undo /\ undo # Nil
    BY <1>0, <1>9, BeginGrows
  <2>2. id \in DOMAIN plans'
    BY <2>1 DEF GrowsBy
  <2>3. Retargeted(Key(undo))'
    BY <2>1, <2>2 DEF Retargeted
  <2>4. UNCHANGED restarts
    BY <1>9 DEF BeginRollback
  <2> QED
    BY <2>1, <2>3, <2>4, GrowsInvariant
<1> QED
  BY <1>1, <1>2, <1>3, <1>4, <1>5, <1>6, <1>7, <1>8, <1>9 DEF PlanAction, StepAction

\* and those that disturb it.
LEMMA DisturbInvariant ==
  ASSUME IInv, CountersTyped', NEW id \in DOMAIN plans, Disturb(plans[id])
  PROVE  IInv'
<1>0. TypeOK /\ OutcomeIsSealed
  BY DEF IInv, Lineage
<1>1. ASSUME NEW i \in DOMAIN plans[id].now.at, RefuseDispatch(plans[id], i)
      PROVE  IInv'
  BY <1>0, <1>1, CheckMutates, MutationInvariant DEF RefuseDispatch
<1>2. ASSUME NEW i \in DOMAIN plans[id].now.at, CommitAmbiguous(plans[id], i)
      PROVE  IInv'
  BY <1>0, <1>2, AmbiguousMutates, MutationInvariant DEF CommitAmbiguous
<1>3. ASSUME NEW i \in DOMAIN plans[id].now.at, CommitFailure(plans[id], i)
      PROVE  IInv'
  BY <1>0, <1>3, FailureMutates, MutationInvariant DEF CommitFailure
<1>4. CASE RefuseRevalidate(plans[id])
  BY <1>0, <1>4, RefuseRevalidateMutates, MutationInvariant DEF RefuseRevalidate
<1>5. CASE PausePlan(plans[id])
  BY <1>0, <1>5, OperatorMutates, MutationInvariant DEF PausePlan
<1>6. CASE RevokePlan(plans[id])
  BY <1>0, <1>6, OperatorMutates, MutationInvariant DEF RevokePlan
<1>7. CASE RetirePlan(plans[id])
  BY <1>0, <1>7, OperatorMutates, MutationInvariant DEF RetirePlan
<1>8. CASE LoseWorker(plans[id])
  BY <1>0, <1>8, LoseWorkerMutates, MutationInvariant DEF LoseWorker
<1> QED
  BY <1>1, <1>2, <1>3, <1>4, <1>5, <1>6, <1>7, <1>8 DEF Disturb

\* Every step keeps the invariant.
LEMMA StepInvariant == IInv /\ [Next]_vars => IInv'
<1> SUFFICES ASSUME IInv, [Next]_vars
             PROVE  IInv'
  OBVIOUS
<1>1. TypeOK /\ OutcomeIsSealed
  BY DEF IInv, Lineage
<1>2. CountersTyped'
  BY <1>1, TypeParts, CountersStayTyped
<1>3. ASSUME NEW id \in DOMAIN plans, PlanAction(plans[id])
      PROVE  IInv'
  BY <1>2, <1>3, PlanActionInvariant
<1>4. CASE NoteRouteChange
  BY <1>1, <1>2, <1>4, RouteChangeIsQuiet, QuietInvariant DEF NoteRouteChange
<1>5. CASE NotePathChange
  BY <1>1, <1>2, <1>5, PathChangeIsQuiet, QuietInvariant DEF NotePathChange
<1>6. ASSUME NEW id \in Forwards, CreatePlan(id)
      PROVE  IInv'
  <2>1. /\ GrowsBy(id)
        /\ Key(id) \in DOMAIN byKey => Terminal(plans'[byKey[Key(id)]])
    BY <1>1, <1>6, CreateGrows
  <2>2. UNCHANGED restarts
    BY <1>6 DEF CreatePlan
  <2> QED
    BY <1>2, <2>1, <2>2, GrowsInvariant
<1>7. ASSUME NEW id \in DOMAIN plans, Disturb(plans[id])
      PROVE  IInv'
  BY <1>2, <1>7, DisturbInvariant
<1>8. CASE AdvanceEpoch
  BY <1>1, <1>2, <1>8, EpochIsQuiet, QuietInvariant DEF AdvanceEpoch
<1>9. CASE ChangeUpstream
  <2>1. UNCHANGED <<plans, byKey, epoch, restarts, taken>>
    BY <1>9 DEF ChangeUpstream
  <2>2. QuietStep
    BY <1>1, <2>1, UnchangedIsQuiet
  <2> QED
    BY <1>2, <2>1, <2>2, QuietInvariant
<1>10. CASE Restart
  <2>1. QuietStep
    BY <1>1, <1>10, RestartIsQuiet
  <2>2. restarts' # 0
    <3>1. restarts \in 0 .. MaxRestarts /\ restarts' = restarts + 1
      BY <1>1, <1>10, TypeParts DEF CountersTyped, Restart
    <3> QED
      BY <3>1, BoundAssumption
  <2>3. /\ byKey' \in [DOMAIN byKey -> DOMAIN plans]
        /\ \A k \in DOMAIN byKey : Key(byKey'[k]) = k
    BY <1>10 DEF Restart
  <2>4. UNCHANGED taken
    BY <1>10 DEF Restart
  <2> QED
    BY <1>2, <2>1, <2>2, <2>3, <2>4, QuietInvariant
<1>11. CASE UNCHANGED vars
  <2>1. UNCHANGED <<plans, byKey, epoch, restarts, taken>>
    BY <1>11 DEF vars
  <2>2. QuietStep
    BY <1>1, <2>1, UnchangedIsQuiet
  <2> QED
    BY <1>2, <2>1, <2>2, QuietInvariant
<1> QED
  BY <1>3, <1>4, <1>5, <1>6, <1>7, <1>8, <1>9, <1>10, <1>11 DEF Next, Ordinary, Outside

\* It holds in every reachable state.
LEMMA AlwaysIInv == Spec => []IInv
BY StartsTrue, StepInvariant, PTL DEF Spec

----------------------------------------------------------------------------
\* The results

\* The records, sealed and unsealed, stay well typed, a compensating plan names
\* the plan whose rollback it is, and until a restart the index by key leads to
\* every open plan whose key no rollback has taken (create_plan, begin_rollback
\* and decode_state).
THEOREM LineageHolds == Spec => []LineageInvariant
<1>1. IInv => LineageInvariant
  BY DEF IInv, Lineage, LineageInvariant
<1> QED
  BY <1>1, AlwaysIInv, PTL

\* The digest of a record covers its lifecycle, its evidence and what its steps
\* have come to, whichever mutations were refused or interrupted between
\* touch_plan and their return (governor_core.cpp, touch_plan).
THEOREM OutcomesStaySealed == Spec => []OutcomeIsSealed
<1>1. IInv => OutcomeIsSealed
  BY DEF IInv, Lineage
<1> QED
  BY <1>1, AlwaysIInv, PTL

\* Whoever is named as a successor names its predecessor, unless an earlier plan
\* had its identity (create_plan, begin_rollback and complete_lineage).
THEOREM LineageStaysMutual == Spec => []LineageIsMutual
<1>1. IInv => LineageIsMutual
  BY DEF IInv, Lineage
<1> QED
  BY <1>1, AlwaysIInv, PTL

\* A compensating plan that has completed has closed the plan it compensates
\* (complete_lineage), also when notices, fences, epochs and restarts fell
\* between its beginning and its end.
THEOREM RollbacksClose == Spec => []RollbackCloses
<1>1. IInv => RollbackCloses
  BY DEF IInv, Lineage
<1> QED
  BY <1>1, AlwaysIInv, PTL

\* Until a restart, a key to which no rollback was begun has at most one open
\* plan (create_plan supersedes the plan that the index names).
THEOREM OneOpenPlan == Spec => []OneOpenPlanPerKey
<1>1. IndexNamesTheOpen => OneOpenPlanPerKey
  BY DEF IndexNamesTheOpen, OneOpenPlanPerKey
<1>2. IInv => OneOpenPlanPerKey
  BY <1>1 DEF IInv
<1> QED
  BY <1>2, AlwaysIInv, PTL

=============================================================================
