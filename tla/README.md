# Route Convergence: the verification project

Route Convergence is a control plane that moves a network route from one
generation to the next. A *plan* is a graph of steps; the *governor* hands the
steps that are ready to *workers*, which apply them to a backend and report
evidence. Most of the program is about what may not count: evidence of a worker
that was fenced, of an epoch that is over, of a dispatch that was superseded, of
a plan whose target has moved.

This directory models that, checks the models with TLC on small instances, and
proves what matters most with TLAPS for every instance.

## What is where

| file | what it is |
|---|---|
| `Lifecycle.tla` | the published transition tables of plans and steps |
| `PlanExecution.tla` | the execution of one plan by the governor |
| `OrderedCommit.tla` | what the execution promises, without workers, epochs, watermarks and generations |
| `PlanLineage.tla` | the plans of one route as records: who supersedes, compensates and succeeds whom, and which records still fit their digest |
| `StepGraph.tla` | steps as a dependency graph: order, layers, transitive dependence, defects |
| `TopologicalOrder.tla` | the sort as it runs, and what the graph algorithms promise |
| `PlanGeneration.tla` | the steps of a plan from two bindings and a policy; the pruning of a rollback |
| `RouteTransition.tla` | generated plans and their rollback, executed by workers on a data plane |
| `CoordinatorSessions.tla` | session threads, the boots they registered, and the memory of attempts |
| `WireFormat.tla` | frames and every body that crosses the wire, as written and as read |
| `DurableStore.tla` | the coordinator's threads saving the governor, and the file they replace |
| `MC*.tla`, `*.cfg` | the instances TLC checks; a module without an `MC` one needs only constants |
| `PlanExecutionProofs.tla`, `PlanLineageProofs.tla`, `CoordinatorSessionsProofs.tla`, `DurableStoreProofs.tla`, `StepGraphProofs.tla`, `TopologicalOrderProofs.tla`, `RouteTransitionProofs.tla`, `WireFormatProofs.tla` | what TLAPS proves |
| `PROJECT.json` | components, runs, mutants, map to the source, findings, hazards, theorems |

How they build on each other:

```
Lifecycle <- PlanExecution  (implements OrderedCommit)
Lifecycle <- PlanLineage
StepGraph <- TopologicalOrder
StepGraph <- PlanGeneration <- RouteTransition -> Lifecycle
CoordinatorSessions      DurableStore      WireFormat
```

To check one run: `tlc -config chain.cfg MCPlanExecution`, with the names from the table
of runs below. To check the proofs of a module: `tlapm PlanExecutionProofs.tla`.

## Inventory of the system

Paths are below the repository's root.

**Transition tables** (`src/lifecycle.cpp`). Pure: `apply_plan_event` and
`apply_step_event`. Correct when nothing is legal that would reopen a terminal
plan or repeat a completed step.

**Governor** (`include/rc/convergence.hpp`, `src/governor_*.cpp`). State: plans by
identifier, and indexes by key, route, lifecycle and boot; the worker registry and
the fenced boots; the policy registry; attempt memory; the epoch and the
convergence generation. One mutex: queries share it, each mutation holds it alone.
Operations: `define_policy`, `register_worker`, `fence_worker`,
`fence_session_loss`, `create_plan`, `dispatch_step`, `complete_step`,
`fail_step`, `reconcile_step`, `revalidate_plan`, `pause_plan`, `revoke_plan`,
`retire_plan`, `begin_rollback`, `note_route_change`, `note_path_change`,
`note_epoch_change`, `sync_epoch`, `save`, `load`. Hard: each mutation is atomic,
but what it acts on is old by then - evidence of an earlier dispatch, an
observation of a route that has moved, a boot that is gone. Correct when old
things never count, nothing in flight is lost track of, a plan completes only when
it is done, and a restart loses neither what is completed nor a doubt.

**Step generation and graph** (`src/generator.cpp`, `src/graph.cpp`,
`src/step.cpp`). Pure: make-before-break and break-before-make plans, serialised to
the parallel bound, checked for conformance, validated for cycles. Correct when
every generated graph is acyclic, bounded and ordered as its mode says.

**Persistence** (`src/persistence.cpp`, `src/governor_codec.cpp`). The image is
encoded under the lock and written, without it, to a file by replacement. Plans carry digests
that are checked at load. Hard: kills at any system call, and saves that overlap. Correct
when every image that is saved can be loaded, and no answered mutation is lost.

**Coordinator server** (`src/server.cpp`, `app/coordinator_main.cpp`). A thread per
session: read a request, call the governor, save, answer. Remembers the boot of each
session and fences it when the session ends. Hard: sessions end late and saves
overlap.

**Worker and backend** (`app/worker_main.cpp`, `src/backend.cpp`). Registers, asks
for ready steps, dispatches one to itself, applies it, reports. The journal backend
makes applying a step twice visible.

**Upstream** (`include/rc/upstream.hpp`, `src/synthetic.cpp`). The owners of routes,
paths, groups and epochs, read by the governor; the repository has a synthetic one
for tests.

**Wire protocol, transport and client** (`src/protocol.cpp`, `src/transport.cpp`,
`src/client.cpp`). A frame carries one body; encoder and decoder of each body are
separate code, with bounds of their own. A connection is all the state there is. Correct
when nothing is read as what it was not sent as, and what is sent can be read.

**Queries** (`src/governor_query.cpp`). They write nothing; what they answer must fit the
wire.

**Command line, processes** (`app/cli_main.cpp`, `src/process.cpp`). Arguments, printing,
child processes.

How they interact: a worker's request comes over its session to the server, which
calls the governor under its lock; the governor reads the upstream owners and its own
plans; the server saves the governor's image before it answers; a session that ends
fences its boot; a restart decodes the last image.

## PlanExecution

One plan, its steps, and what decides about them:

| variable | in the code |
|---|---|
| `epoch`, `convergence` | `GovernorState::epoch`, `::convergence` |
| `registered`, `live`, `fencedBoots` | `workers` (boot and `live`), `fenced_boots` |
| `observed`, `policyCurrent` | what the upstream owners and the policy registry would answer |
| `lifecycle`, `boundEpoch`, `watermark` | `ConvergencePlan::lifecycle`, `::epoch`, `::watermark` |
| `state`, `generation` | `TransitionStep::state`, `::generation` |
| `evidence` | `TransitionStep::last_evidence`, as the generation it was of, 0 for none |
| `dispatchBoot`, `dispatchWatermark` | `TransitionStep::dispatch_boot`, `::dispatch_watermark` |
| `dispatches` | the dispatch replies in workers' hands, any of which may come back at any time, any number of times |

Each mutation is one action, for it holds the lock from its first check to its last
write. Its guard is what must hold for it to change anything; a mutation that is
refused changes nothing here and is a stuttering step, with the exceptions the code
makes: a dispatch or a completion that finds the plan no longer current invalidates
it (`RefuseStalePlan`, and the second disjunct of `ApplyCompletion`).

Three choices keep the model small, and each is an over-approximation:

- A mutation first consumes a newer epoch (`apply_epoch_locked`). `AdvanceEpoch`
  takes that step by itself, so other actions may come in between.
- The observation of the upstream is one pair: the route's generation, and whether
  all the rest (path, groups, next hops) is authorized. `ChangeUpstream` replaces it
  at any time; nothing notices until a mutation looks.
- Other plans of the route act on this one by `Superseded` (a new plan of the key,
  or a successor that completes) and `RollbackPlanCompleted`. They may occur whenever
  their guards hold.

What steps do to the data plane is not in this module but in `RouteTransition`, and what
the other plans of the route are is in `PlanLineage`.

`Restart` is `decode_state` on the state of the last action: the server saves before
it answers, so a mutation whose image was lost is one that nobody heard of - while no
two saves overlap, which is what `DurableStore` is about.

The faults the mutation runs use stand beside the operators they replace, each
marked "Fault": what a plausible error in that function would be.

## DurableStore

Every session thread dispatches a request, saves the governor, and only then replies.
`save` encodes under the shared lock and writes without any lock, always to the same
temporary path; the main thread saves once more when the server has stopped.

| variable | in the code |
|---|---|
| `running` | whether the process is up, has joined its sessions (`stopping`), or is down |
| `version` | the governor's state, as the number of mutations it has taken |
| `at`, `seen`, `image` | where a thread is in `serve_connection`, `save` and `write_store_file_atomic`; the state its response speaks of; the image it has encoded |
| `handle` | the file a thread's `ofstream` has open: the temporary one, what has been renamed to the store since, or one that no path names |
| `temporary`, `store` | the files at the two paths: absent, empty, torn, or an image |
| `answered` | the newest state a client was told of |
| `overlapped` | observes that two saves were between encoding and rename at once |

Each system call is an action, so a kill (`Crash`) and the other threads come in
anywhere. An image written over what another thread wrote may leave the rest of a longer
one (`Written`). A refused image, a file that cannot be opened and a full disk end the
save; a lost reply ends the session. The kernel survives a kill - the code never
syncs, so nothing is said about a loss of power - and a rename fails only when its source
is gone. Without `--recover` a start ignores the store; the model always recovers.

## PlanLineage

All plans of one key and their successors and rollbacks, each as the record the store
would hold.

| variable | in the code |
|---|---|
| `plans[id].now` | what a plan's digest covers: lifecycle, causes and flags, epoch, lineage, state and evidence of its steps |
| `plans[id].sealed` | the content at the last `touch_plan`, which is when the digest was taken |
| `plans[id].fresh` | whether the watermark is still that of the dispatch in flight |
| `byKey` | `GovernorState::by_key` of the key |
| `observed`, `epoch` | the route as upstream has it, and the epoch |
| `taken` | observes that an identity was created a second time |

A mutation writes a record and seals it at exact places, and what comes after the seal, or
before an early return, is not covered. So refused mutations are actions here, for what they
have written by then (`RefuseDispatch`, ...). Numbers that never come back (watermark,
authority and step generations) are one mark, `moved`, that a seal clears. The steps of a
plan are a chain, so that at most one is in flight; the workers are authorized. The index by
key is rebuilt at a restart in the order of digests, which is an arbitrary one: `Restart`
may choose any plan of the key.

## StepGraph, TopologicalOrder and PlanGeneration

Pure algorithms. `StepGraph` translates `graph.cpp`: a graph is a sequence of steps, a
subject a number in the order of the texts. Each loop of the code - the sort, the layers, the
search for transitive prerequisites, the counting of edges - is one round (`Taken`,
`Deepened`, `Visited`) and the recursive function that iterates it (`Sorting`, `Deepening`,
`Search`, `Counting`), so that theorems can be stated about them. `TopologicalOrder` runs the
sort one step at a time on every graph of a set, and states what is promised without the
algorithms: with sets of steps and chains of prerequisites (`Chain`, `Acyclic`, `Height`).

`PlanGeneration` translates both generators, `serialise_to_bound`, conformance and the
pruning of rollbacks. A binding is its route generation, path and group. There is no
reference definition of a good plan in this module: that is what executing it in
`RouteTransition` is for.

## RouteTransition

| variable | in the code |
|---|---|
| `transition` | the source and target bindings, and the policy, of `create_plan` |
| `life`, `steps`, `at` | lifecycle, generated graph and step states, of the forward plan and of its rollback |
| `sent` | `TransitionStep::generation`: how often a step was dispatched |
| `wire`, `journal` | commands that a worker has and may still execute; those it has executed (`JournalBackend`) |
| `plane` | what is in the data plane: routes, paths, groups |
| `known` | observes that a rollback began with nothing of the forward plan unreported |

A command may be executed at any moment after its dispatch, also when its plan has long
fenced it, or never. `PlanExecution` has established that a report counts only for the
current dispatch; here that is taken as given, and what is added is what the commands do.
Workers and operators tell the truth: a step is reported, or reconciled, as applied only if
it was. The upstream owners still publish the target. `transition.faults` bounds failures,
lost acknowledgements, invalidations and restarts. `transition.retries` is the smaller of the
policy's and the configured bound on retries: a failure (`Fail`) arms the step again while
its attempts are within it, and otherwise leaves it `FAILED`, with the plan paused if the
failure was retryable and asking for a rollback if not. All steps that the generator makes may
be retried; `PlanExecution` has steps that must not be, too.

## CoordinatorSessions

| variable | in the code |
|---|---|
| `link`, `owner`, `asked`, `sent` | a client's connections, whose they are, what it waits for |
| `thread` | `serve_connection`: where it is, `session_boot`, what it has read |
| `current` | `session_connection`, a variable of the server that all threads share |
| `byBoot` | `by_boot`, the connection that a fence notice for a boot is sent over |
| `workers`, `fenced` | the governor's registry |
| `attempts` | `attempt_order` with its records |
| `executed`, `forgotten`, `raced` | observers: applications of each mutation, evictions, two threads in `dispatch` at once |

A session thread receives, dispatches, saves and answers in steps that others can come
between; each call of the governor is atomic under its lock, and `session_connection` has
none. Clients ask one thing at a time, may disappear at any point, and may send a request
again under the same attempt, over another connection too. Of the plans only one thing is left: a
mutation is applied or refused. Saving is `DurableStore`'s subject; here it may fail, which ends
the session.

## WireFormat

Every body has two layouts, `...Out` from its encoder and `...In` from its decoder. An
enumeration, a text and a list are numbers (value, length, length); a field that is only
carried is a token that remembers which field was written, so a field read in another's place
shows. A layout is a sequence of fields, each with the parts it is in and the lists and
optional parts it is an item of; the items of a list are alike and stand once. `Write` and
`Read` are one field of an encoder and of a decoder: the decoder knows only what it has read so
far. An exchange is `Ask`, `Harm` (the frame is cut, changed, declares too much, or is from
another protocol), `Serve` or `RefuseFrame`, `Hear`, `Again`; what the server answers depends
on `world`, which is what `governor_query.cpp` finds: a plan's steps, dependencies and history,
the policies and plans there are. Digests do not collide. Sizes in bytes are computed where
they decide: a body over `MaxFrame` has no frame.

## What is checked

| run | module | instance | what it shows |
|---|---|---|---|
| `chain` | `MCPlanExecution` | s1 before s2, one publisher with two boots, two epochs | `CommittableIsCurrent`, `SuspendedPlanHoldsNoWork`, `CommitIsFenced`, `DoubtOnlyReconciled`, `CompletionIsKept`, `FencingAdvancesWatermark`, `ImplementsOrderedCommit` |
| `join` | `MCPlanExecution` | a rollback plan: s3 after s1 and s2, of which only s1 is mandatory, two publishers | `InductiveInvariant` (which has the type invariant), `PrerequisitesSatisfied`, `NoForgottenStep`, `PlanCanMove`, `InFlightHeldByLiveWorker`, `CompletedPlanIsComplete`, `TerminalIsFinal` |
| `lineage` | `MCPlanLineage` | two structures of one key, a successor, all their rollbacks; two epochs, a restart | `LineageInvariant` (which has the type invariant), `OutcomeIsSealed`, `LineageIsMutual`, `RollbackCloses`, `OneOpenPlanPerKey` |
| `graphs` | `MCTopologicalOrder` | all graphs of four steps in two conflicting pairs; all of two steps with missing, repeated and self-referring prerequisites | `SortInvariant`, `RefusalsAreExact`, `OrderIsCanonical`, `DependenceIsAChain` |
| `transition` | `MCRouteTransition` | path, group, both or generation only; both orderings; verified or not; one or two steps at a time | `NeverDark`, `NeverOverlaps`, `CompletedHasConverged`, `RollbackRestores`, `PruningKeepsOrder`, `GeneratedConforms`, `WorkSettles` |
| `sessions` | `MCCoordinatorSessions` | two connections, two boots of one worker and an operator, four requests, memory of one attempt | `AtMostOnce`, `SessionInvariant`, `FencedDoNothing`, `SessionLossFences` |
| `wire` | `MCWireFormat` | every message at the default limits, with sizes on both sides of each bound | `NothingIsMisread`, `OnlyKnownGaps` |
| `saves` | `DurableStore` | two sessions and the main thread, two mutations | `TypeOK`, `DurableUnlessOverlapped`, `StoreIsWhole`, `StoreNeverRegresses` |

*Bounds.*

- `PlanExecution`: `MaxGeneration` lets a step be dispatched twice or three times: the
  second dispatch is what old evidence could be mistaken for. `MaxConvergence` allows two or
  three fencings, restarts or epoch advances; each hazard needs at most two (one that takes
  work away, one that gives it back and takes it again). Two epochs are an old one and a new
  one; two boots are one that is lost and one that is not, or one that replaces the other.
  The outcomes are one of each kind that `apply_completion` tells apart.
- `PlanLineage`: `MaxEvents` is three requests or disturbances: create, supersede, and one
  more to come back. `Length` of two has a plan that is half done. The two structures of one
  key are interchangeable, so the run takes them as symmetric.
- `RouteTransition`: 48 transitions without faults, where the workers' order, lateness and
  the moment of the rollback are free; a new path, one step at a time, with a fault, in both
  orderings; and a new group, two steps at a time, with two: a failure and that of its
  retry, or one step in doubt when the other fails.
  Configured limits are those of the longest plan.
- `CoordinatorSessions`: four requests are a registration, a pair and its repetition. A memory of
  one attempt makes every second one an eviction.
- `WireFormat`: the numbers are the program's own; a world has each of them at the last value
  that is accepted and the first that is not.
- `DurableStore`: two sessions are two saves that may overlap or take turns, two mutations
  an older image and a newer one; restarts are not bounded.

Deadlock is checked in `wire`. Elsewhere the model really stops: its counters are at
their bounds, all connections are used, or the plans are over.

*Fairness.* `RouteTransition` states weak fairness for each step (its worker
dispatches it, executes it and reports it, or somebody settles its doubt) and for
`Revalidate`, with finitely many faults. The
governor has no thread of its own: what moves a plan is workers that poll for ready steps
(`worker_main.cpp`) and an operator who revalidates suspended plans and settles doubts, so
`WorkSettles` says what the system owes those who do. It leaves out what was given up: a
step whose retries are used up stays `FAILED`, its plan is paused and may be revalidated, and
no code arms the step again, so it and what waits for it are not done until somebody decides
to roll back, revoke or supersede. Decisions (to roll back) are not fair:
nobody has to take them. `CoordinatorSessions` states weak fairness for each session thread:
threads are scheduled and a receive has a deadline, which is how a silent connection ends.
The other specifications state no fairness and have no liveness property.

*Mutants.* `PROJECT.json` gives for each property an error in the code that breaks it. The
mutated forms stand beside the operators they replace, each marked "Fault".

### What the documents say and the code does not do

Four runs end with a counterexample, each a defect:

- `overlap`: saves of two sessions share the temporary file and no lock, so one
  session replies while the other has truncated what it renamed; the other then removes
  the store, for there is nothing left to rename. README.md 387: a coordinator killed after
  answering "loses nothing it told a client it had accepted". In the
  counterexample the store is empty, which README.md 322 excludes too ("never a mixture").
  The model also has the other order: the thread that encoded first renames last, and an
  older image replaces an answered one.
- `undone`: `begin_rollback` compensates what is `COMPLETED` at that moment. A step in
  flight becomes `STALE`, and what its command did, or does later, is not undone; the
  rollback completes all the same. README.md 285: "exactly the steps whose effect the
  forward plan actually established". `NeverDark` and `RollbackRestores` therefore assume,
  by `known`, that nothing was unreported when the rollback began.
- `unsealed`: `decode_state` seals each recovered plan and then sets its watermark, which
  the digest covers. The image saved next is refused by the load after it, until something
  touches the plan again, which nothing does to a terminal one. The built program does this
  too: create a plan, save, load, save, and the second load answers `STORE_ERROR`. The same
  run would find two smaller cases: a refused mutation that has written before it returned,
  and a step in flight at a restart that is reconciled as applied, which completes without
  the evidence that README.md 267 promises and `load` insists on.
- `recreated`: a request that repeats a plan which was superseded finds its identity taken: the
  key's open plan is superseded, nothing is created, and the answer is `PLAN_CREATED`.

Read while modelling, and kept as the code has them:

- `lifecycle.hpp` 15 says that a paused plan "is waiting for a dependency to return", and
  `governor_mutate.cpp` 276 that pause does not mean "this attempt failed". A failure past
  the retry bound pauses the plan all the same, with the step `FAILED` and no rollback
  required. `revalidate_plan` then takes it to `READY`, and it never goes on: only `PENDING`
  steps become ready (`governor_core.cpp` 400) and only `STALE` ones are re-armed
  (`governor_control.cpp` 230). The same happens after a permanent failure if the plan is not
  `EXECUTING` then, because another step is in doubt: `STEP_FAILED` is legal in `EXECUTING`
  only, so the plan does not ask for the rollback. `transition` reaches both states, and
  `WorkSettles` holds because it leaves out what was given up.
- `note_route_change` applies to a rollback plan that is current the forward rule from which
  `recompute_currentness` exempts it (`governor_control.cpp` 688, `governor_core.cpp` 506); the
  superseded rollback leaves its plan in `ROLLING_BACK`.
- `retire_plan` leaves the steps that have not ended as they are; README.md 305 says it
  retires them.
- `begin_rollback` enters its compensating plan into `by_key`, under the key from the
  observed generation to the plan's source (`governor_control.cpp` 617). When that plan is rolled
  back itself, after the route owner has gone back to the source, its own compensating plan
  has the key of the first forward plan and takes its place, and the next plan of that key
  supersedes the compensating plan only: two forward plans of one key are open, where
  README.md 102-105 has the earlier one superseded. `OneOpenPlanPerKey` excludes the keys that a
  rollback was begun to (`Retargeted`); without that, `lineage` finds it with
  `MaxEvents = 6`.
- Fenced boots are not in the image; `governor_state.hpp` 134 says a boot is fenced for
  the life of the store.
- README.md 382 ("Session loss fences the boot", "Fencing is permanent") against `ReviveWorker`,
  which `register_worker` documents.
- README.md 550 ("refused without mutating convergence state") against the second disjunct
  of `ApplyCompletion`, which invalidates.
- README.md 239-243 lists reconciliation among the mutations whose attempts are remembered;
  `reconcile_step` has no attempt gate.
- A session that times out is closed without the `PEER_TIMEOUT` of README.md 375-378. The
  deadline is per receive, and the time a worker takes to apply a step counts as its
  silence.
- `session_connection` is written by every thread without a lock. When two threads are in
  `dispatch` at once, one may enter its boot in `by_boot` under the other's connection, or under
  none; a later fence notice goes to the wrong process, or dereferences nothing.
  `IndexNamesItsBoot` holds while that has not happened.

What the wire cannot carry, by `OnlyKnownGaps` in `wire` (each is sent, after the mutation
was applied where there is one, and not understood):

- `GRAPH_INVALID` is code 93, and the decoder accepts codes up to 92 (`protocol.cpp` 42);
- conditions about a key of more than 128 bytes, and a detail of 129 to 256 bytes that a
  reconciliation or failure carries, which comes back as the subject of a condition;
- the snapshot of an unknown plan, whose placeholder has a policy of generation 0;
- more than 4096 policies in a list;
- a snapshot over 262144 bytes: a plan of 64 steps with 28 prerequisites each and subjects of 128
  bytes is created by a frame of 261905 bytes and has a snapshot of 262746, so asking for
  it ends the session, and fences its boot.

Decoded and dropped: whether conditions were truncated; never set: `last_outcome`.

## What is proved

For every set of steps and acyclic dependency relation, every set of boots and
publishers, every bound, forward and rollback plans alike, from the assumptions that
`PlanExecution` states about its constants (`GraphAssumption`, `WorkerAssumption`,
`ValueAssumption`):

- `PlanExecutionProofs`: `Spec => []P` for each invariant `P` of the runs, and each
  action property; and the refinement, `Spec => ImplementsOrderedCommit`.

For any number of sessions and mutations (`ThreadAssumption`, `BoundAssumption`):

- `DurableStoreProofs`: every property of `saves`. Together with `overlap` this says that
  overlapping saves are the only way to lose an answer, as far as the model's assumptions
  about the kernel go: a lock held from the encoding
  to the rename would make `AnsweredIsDurable` hold without a condition.

For every graph in `Seq(Step)`, of any number of steps and whatever the limits
(`GraphsAssumption`, `LimitsAssumption`):

- `TopologicalOrderProofs`: every invariant of `graphs`. The sort as it runs:
  `SortInvariant` (a step is taken once, after all of its prerequisites, and indegrees and
  ready steps are what they stand for), and from it `LeftoversAreCyclic` (what it leaves out
  waits for something it leaves out). And what the algorithms of `StepGraph` compute: the defects found are
  the defects there are (`RefusalsAreExact`), the search for transitive prerequisites finds
  the ends of chains and nothing else (`DependenceIsAChain`), and a graph with its steps
  in another order is sorted to the same sequence and the same layers
  (`OrderIsCanonical`), which the digests of plans and the order of execution rely on.
- `StepGraphProofs`: the lemmas, about any graph.

For any boots, connections, requests and size of the attempt memory (`RequestAssumption`,
`AttemptAssumption`, `NoneAssumption`):

- `CoordinatorSessionsProofs`: `SessionInvariant`, `AtMostOnce` and `FencedDoNothing`.

For any plans that may be asked for, any number of steps, whatever the upstream route looks
like and however often it changes (`IdentityAssumption`, `BoundAssumption`):

- `PlanLineageProofs`: every invariant of `lineage`.

For any two bindings of a route, whichever of path and group they share, under any policy and
limits, with any number of faults (`TransitionsAssumption`: the two generations of a plan's
key differ, a bound path is not nil, the policy is coherent; `LimitsAssumption`: the
configured bound on parallel steps is not 0):

- `RouteTransitionProofs`: `NeverDark`, `NeverOverlaps`, `CompletedHasConverged` and
  `RollbackRestores`, each for the generated plan together with the rollback plan that is
  generated and pruned from what it has applied; and of the plans themselves
  `PruningKeepsOrder` (pruning neither loses nor adds order between the steps it keeps) and
  `GeneratedConforms` (a generated plan is a graph the validation accepts, its layers are no
  wider than the bound, and its sides are in the order of its mode).

Whatever a coordinator holds, whatever the limits and the sizes of lists and texts (no
assumptions):

- `WireFormatProofs`: `NothingIsMisread`; and `RefusedForItsNumbers`, of every request and
  every answer that arrives whole: a decoder refuses it exactly if a number that was written
  is out of its bounds.

*The argument.* None of the interesting invariants is inductive alone.
`PrerequisitesSatisfied` needs that a satisfied step stays satisfied, and that a
skipped step means a completed or retired plan (`StepsFollowLifecycle`);
`CompletedPlanIsComplete` needs both and that a plan which is suspended or over has
no work (`SuspendedPlanHoldsNoWork`). `CommittableIsCurrent` needs what the records
say of each other: `RecordsAgree` relates the replies in workers' hands to the steps'
own records, those to the plan's watermark, and the watermark to the convergence
generation. `PlanCanMove` (what is left of a running plan and waits for no
given-up step has a step among it that can be dispatched or reconciled, or is in flight) needs that steps go stale only as the plan stops
running, and are re-armed before it runs again (`RunningPlanIsFresh`): as prerequisites are
acyclic, some such step waits for no other, so it is neither pending, by
`NoForgottenStep`, nor stale. A step in flight ends by its report or by the loss of its boot,
which `InFlightHeldByLiveWorker` says is a live one. A `FAILED` step ends by nothing of the
kind (`GivenUpIsFinal`, proved as `RefusedRetryIsFinal`). `InductiveInvariant` is their conjunction, and `join` checks it.

The proof goes by components. `TypeStep`: types. `PlanStep`: order, readiness and
lifecycle, with a lemma for each shared effect (`FencePlan`, `LosePlan`, `CommitPlan`,
...). `SteadyStep`: every action but a dispatch and an epoch advance is `Steady` -
counters grow, records stay, work in flight only leaves - and from it `RecordsStep`,
`RunnableStep` and most action properties. `HeldStep`: losing a boot takes its work.
`SettledStep`: how a step can complete, and how a doubt can end. The refinement maps
each action to one abstract step or none, by lemmas named for what is mapped
(`FenceMaps`, `CommitMaps`, `SettleMaps`, `RestartMaps`, ...), and uses the inductive
invariant where an action could otherwise do more than the abstract plan allows.

`DurableStore` needs `SaveInvariant`: while no saves have overlapped, there is at most one
save (`OneSave`); its image is no older than the store and than what its thread will say,
and no newer than memory; and the temporary file is its image from the write on
(`ThreadAgrees`). So the rename never fails, never goes back, and covers the reply.

`SortInvariant` is inductive as it stands: the indegree of a step is the number of its
prerequisites not taken yet, and a step is ready when that is 0 and it was not taken. Taking
a step lowers the indegree of its successors by one, and `SuccessorsOfPredecessors` says that
these are the steps whose count of prerequisites shrinks (`CountTaken`).

What the recursive functions of `StepGraph` compute is proved by induction over rounds.
`Induction` derives it for a set of numbers from the least number that is not in it, and
`Iteration` shows once that a function which iterates a round exists; each loop then has an
invariant of its rounds. After n rounds the search has met exactly the ends of chains of at
most n links, and a chain with more links than there are steps repeats one and can be cut
(`ChainCut`), so as many rounds as there are steps are enough (`SearchIsDependence`). The sort
takes every step exactly if the graph is linked and acyclic: `Sorts` says where a taken step
stands, `TakenSorts` that a round keeps that, `SortedEnds` that the sort ends with every
step or with leftovers that wait for one another. A depth is one more than the deepest
prerequisite (`DepthIsRight`); depths fall along a chain, so they bound its length, and each
is the length of some chain (`DepthsBoundChains`, `DepthsAreChains`): that is the `Height`
of the reference definition (`HeightIsDepth`). For `OrderIsCanonical` two sorts run side by
side (`MovedRound`): the ready steps are determined by what has been taken, and keys
are unique, so both take the same step in each round.

`SessionInvariant` is inductive together with `AtMostOnce`. What a thread remembers of its boot,
the registry and the index by connection have to agree (`SessionsAgree`, `IndexAgrees`), and
the entries of the attempt memory have to be those that were applied and not yet evicted
(`MemoryAgrees`): `executed` may exceed one only by what was forgotten.

In `PlanLineage` most actions are not about lineage, so the proof first shows what they make of
the record of a plan: it `Follows` the old one - typed, with a digest that covers its
outcome, under the same lineage, and no closed plan is opened again nor a rollback given up
(`Onward`). A seal always leads there (`Seals`); a write without one does if it changes no
outcome (`Writes`), which is where the order of the writes in each mutation counts. The four
actions that are about lineage - a completion, a creation, the beginning of a rollback, and a restart
- are shown to be a `LineageStep`: what is named as a successor or a rollback names the plan
back, and what completes has closed what it compensates. That step keeps the invariant.
`RollbackCloses` needs `RollbackIsNamed` (a compensating plan names the plan that it
was begun for), and `OneOpenPlanPerKey` needs `IndexNamesTheOpen`, which says why there is only one:
create_plan finds it through the index. The attempt to prove it without the exception for
`Retargeted` keys is what found the displaced plan above.

In `RouteTransition` the plans are computed, so the proof begins with what the computations
return. The generators: a plan has each kind of `PresentKinds` once (`KindSet`,
`GeneratedIs`). Each kind has a rank (`PlanRank`), and a step waits for every step of a lower
rank, directly or through others (`MakesFollow`, `BreaksFollow`, `RanksFollow`). Waiting is
said with sets: `Follows` if any set of steps that has the prerequisites of the one, and with
each step its prerequisites, has the other. In this form serialisation keeps it, for it only
adds prerequisites (`GeneratedIsOrderly`), and so does the contraction of pruning, once its
rounds are known to have settled (`RoundsSettle`, `ThroughSettles`): a closed set of the
pruned graph, with the steps dropped above it, is one of the whole graph (`PrunedIs`).
What `begin_rollback` chooses has what undoes every step applied, and no second side before
the first (`CompensationIs`).

`Follows` and the search for transitive prerequisites agree (`AncestorsAreFollowed`: both are
chains, by the lemmas of `StepGraphProofs`), so `PruningKeepsOrder` is `PrunedIs` in both
directions (`PruningKeepsAncestors`). For `GeneratedConforms`: what follows a step is deeper
(`FollowersAreDeeper`), so a layer holds steps of one rank only. Two kinds share a rank, and
they do not conflict (`LayersDoNotConflict`). Where the policy takes one step at a time the
plan is serialised: depths grow with the place in canonical order, and each layer is a single
step (`LayersAreBounded`).

`ExecutionInvariant` then relates plans, journal and data plane. A completed step has been
executed, and a step is sent only when what it waits for is complete (`StepsAreBacked`), so
with the order above the second side is executed only when the first has been
(`LastSideWaits`); once a rollback began with nothing unreported, no command of the forward
plan is left (`Fenced`); the rollback plan has what undoes the forward plan (`Complements`);
and for each route and path there is a formula, in the kinds the two plans have executed, for
whether it is there (`PlaneIs`). Each action has its lemma (`...Keeps`), most of them by
`ProgressKeeps`, which is about any step that executes nothing. The four properties follow
from the invariant without another induction. TLC found this invariant to hold on every
state of the `transition` instance before it was proved; `InOrder`, which is about all
closed sets of a plan, was evaluated for each plan it has.

In `WireFormat` an encoder and its decoder match if their layouts have the same fields in the
same order - type, name and the lists above - whatever the bounds (`Matches`); fields match,
and what is put together from parts that match does (`JoinedMatch`, `WithinMatches`,
`ListsMatch`, `OptionsMatch`), so each of the bodies does (`ConditionsMatches`, ...,
`RequestsMatch`, `AnswersMatch`). Where they match, the decoder follows the encoder field by
field (`FollowsOneMore`): it stands where the encoder stood, and knows of each list and
optional part whether it has items, so that it reads a field exactly if that was written
(`ReadIfSent`, for which the number of a list has to stand before its items, `Nested`). It has
taken each field for itself, or refused the body for a number (`RoundTrip`). The exchange
adds that a harmed frame is never taken for whole, and that after a harmed request the only
answer is an error; this is the
`InductiveInvariant` of the module, which TLC found to hold on the `wire` instance.

*Only model-checked:*

- `OnlyKnownGaps`: which bodies are refused or do not fit depends on the default limits and
  on sums of bytes for worlds at the edges, which is what the `wire` run enumerates.
- `WorkSettles` and `SessionLossFences`, which are liveness, and the counterexamples.

## What is not modelled

- The command line, the child processes of the tests, the examples and the benchmark hold no
  state of the control plane; the synthetic upstream is a test double.
- Hashing, which the models take as injective; statistics and timestamps, which nothing reads
  back; the index by lifecycle, which only a query reads.
- Accepting connections up to `max_sessions`, socket options, reconnection.
- The decoder's form checks of a store, which refuse images that no save has written.
- The single causes of `recompute_currentness` and the matching of authority scopes: an
  observation of the upstream is current or not.
- Memory below the locks: the data race on `session_connection` is modelled as reads and
  writes that interleave.

## What is left

1. The plans of `RouteTransition` as implementations of `OrderedCommit`, which would carry
   the evidence rules of `PlanExecution` over to it. The steps of `OrderedCommit` are a constant,
   those of `RouteTransition` depend on what the rollback has to undo: it would need an
   `OrderedCommit` over variable steps.
2. A single specification of save and session together, so that `unsealed` and `overlap` are
   seen by a client that retries after a restart.
