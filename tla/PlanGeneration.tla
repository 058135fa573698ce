--------------------------- MODULE PlanGeneration ---------------------------
(***************************************************************************)
(* The steps of a plan: generation from two bindings of a route under a    *)
(* policy, serialisation to the parallel bound, conformance to the policy  *)
(* (generator.cpp, policy.cpp), and the pruning of a rollback plan         *)
(* (governor_control.cpp).                                                 *)
(*                                                                         *)
(* A binding is its route generation, path and group, where NoGroup stands *)
(* for nil identities, and a group for the exact multipath, ECMP and       *)
(* weighted identities and generations.  The two bindings of a plan are of *)
(* one route and well formed; the caller's refusals of others are left out.*)
(***************************************************************************)
EXTENDS StepGraph

NoGroup == 0

\* Subjects that are no path or group; paths and groups are numbers above.
TargetSubject == 1
PlanSubject == 2
RouteSubject == 3

\* ConvergencePolicy::is_coherent.
Coherent(policy) ==
  /\ IF policy.ordering = "MAKE_BEFORE_BREAK" THEN policy.overlap
     ELSE policy.breakBeforeMake /\ ~policy.overlap
  /\ policy.parallel # 0

\* The bound on a layer: the policy's, within the configured one.
ParallelBound(policy, limits) ==
  IF policy.parallel < limits.parallel THEN policy.parallel ELSE limits.parallel

----------------------------------------------------------------------------
\* What a generated step is about, which domain it touches, and what the two
\* generators declare of it.
SubjectOf(kind, source, target) ==
  CASE kind = "VALIDATE_TARGET" -> TargetSubject
    [] kind = "FINALIZE" -> PlanSubject
    [] kind \in {"PREPARE_NEW_STATE", "ACTIVATE_NEW_PATH", "VERIFY_NEW_STATE"} -> target.path
    [] kind = "INSTALL_NEW_GROUP" -> target.group
    [] kind = "DEACTIVATE_OLD_PATH" -> source.path
    [] kind \in {"INSTALL_NEW_ROUTE", "WITHDRAW_OLD_ROUTE", "VERIFY_REMOVAL"} -> RouteSubject

DomainOf(kind) ==
  CASE kind \in ObservationKind \cup {"FINALIZE"} -> "TARGET_STATE"
    [] kind = "INSTALL_NEW_GROUP" -> "GROUP_STATE"
    [] kind \in {"INSTALL_NEW_ROUTE", "WITHDRAW_OLD_ROUTE"} -> "ROUTE_TABLE"
    [] OTHER -> "PATH_STATE"

\* The kinds a plan from source to target has.
PresentKinds(source, target, policy) ==
  LET absent(condition, kinds) == IF condition THEN {} ELSE kinds
  IN StepKind
       \ (absent(source.path # target.path,
                 {"ACTIVATE_NEW_PATH", "DEACTIVATE_OLD_PATH"})
          \cup absent(policy.verify, {"VERIFY_NEW_STATE", "VERIFY_REMOVAL"})
          \cup absent(target.group # NoGroup /\ target.group # source.group,
                      {"INSTALL_NEW_GROUP"}))

\* The last of the kinds that is there.
LastOf(kinds, present) ==
  {kinds[i] : i \in {j \in DOMAIN kinds :
     /\ kinds[j] \in present
     /\ \A m \in DOMAIN kinds : kinds[m] \in present => m <= j}}

\* The items that are in S, in their order.  (A recursive function, so that it
\* can be reasoned about.)
Picked(items, S, n, picked) ==
  IF items[n] \in S THEN Append(picked, items[n]) ELSE picked

Selecting(items, S) ==
  LET loop[n \in 0 .. Len(items)] ==
        IF n = 0 THEN <<>> ELSE Picked(items, S, n, loop[n - 1])
  IN loop

Selected(items, S) == Selecting(items, S)[Len(items)]

\* generate_make_before_break: what each kind waits for, if it is there.
MakeBeforeBreak(kind, present) ==
  CASE kind = "VALIDATE_TARGET" -> {}
    [] kind \in {"PREPARE_NEW_STATE", "INSTALL_NEW_GROUP"} -> {"VALIDATE_TARGET"}
    [] kind = "INSTALL_NEW_ROUTE" -> {"PREPARE_NEW_STATE", "INSTALL_NEW_GROUP"}
    [] kind = "ACTIVATE_NEW_PATH" -> {"INSTALL_NEW_ROUTE"}
    [] kind = "VERIFY_NEW_STATE" ->
         LastOf(<<"INSTALL_NEW_ROUTE", "ACTIVATE_NEW_PATH">>, present)
    [] kind = "DEACTIVATE_OLD_PATH" ->
         LastOf(<<"INSTALL_NEW_ROUTE", "ACTIVATE_NEW_PATH", "VERIFY_NEW_STATE">>, present)
    [] kind = "WITHDRAW_OLD_ROUTE" ->
         LastOf(<<"INSTALL_NEW_ROUTE", "VERIFY_NEW_STATE", "DEACTIVATE_OLD_PATH">>, present)
    [] kind = "VERIFY_REMOVAL" -> {"WITHDRAW_OLD_ROUTE"}
    [] kind = "FINALIZE" -> present \ {"FINALIZE"}

\* generate_break_before_make.
BreakBeforeMake(kind, present) ==
  LET removed == LastOf(<<"WITHDRAW_OLD_ROUTE", "VERIFY_REMOVAL">>, present)
  IN CASE kind = "VALIDATE_TARGET" -> {}
       [] kind = "DEACTIVATE_OLD_PATH" -> {"VALIDATE_TARGET"}
       [] kind = "WITHDRAW_OLD_ROUTE" ->
            LastOf(<<"VALIDATE_TARGET", "DEACTIVATE_OLD_PATH">>, present)
       [] kind = "VERIFY_REMOVAL" -> {"WITHDRAW_OLD_ROUTE"}
       [] kind \in {"PREPARE_NEW_STATE", "INSTALL_NEW_GROUP"} -> removed
       [] kind = "INSTALL_NEW_ROUTE" -> {"PREPARE_NEW_STATE", "INSTALL_NEW_GROUP"}
       [] kind = "ACTIVATE_NEW_PATH" -> {"INSTALL_NEW_ROUTE"}
       [] kind = "VERIFY_NEW_STATE" ->
            LastOf(<<"INSTALL_NEW_ROUTE", "ACTIVATE_NEW_PATH">>, present)
       [] kind = "FINALIZE" -> present \ {"FINALIZE"}

BreakFirstKinds ==
  <<"VALIDATE_TARGET", "DEACTIVATE_OLD_PATH", "WITHDRAW_OLD_ROUTE",
    "VERIFY_REMOVAL", "PREPARE_NEW_STATE", "INSTALL_NEW_GROUP",
    "INSTALL_NEW_ROUTE", "ACTIVATE_NEW_PATH", "VERIFY_NEW_STATE", "FINALIZE">>

\* (Fault, for the mutation runs: a layer may be one wider than the bound.)
SerialisedWider(steps, bound) ==
  LET order == SortedSteps(steps)
      before(p) == KeyOf(steps[order[(CHOOSE i \in DOMAIN order : order[i] = p) - 1]])
  IN IF \A layer \in Layers(steps) : Cardinality(layer) <= bound + 1 THEN steps
     ELSE [p \in DOMAIN steps |->
             IF p = order[1] \/ before(p) \in Prerequisites(steps[p]) THEN steps[p]
             ELSE [steps[p] EXCEPT !.deps = Append(@, before(p))]]

\* serialise_to_bound: if a layer is too wide, each step waits for the one
\* before it in the canonical order.
Serialised(steps, bound) ==
  LET order == SortedSteps(steps)
      before(p) == KeyOf(steps[order[(CHOOSE i \in DOMAIN order : order[i] = p) - 1]])
  IN IF \A layer \in Layers(steps) : Cardinality(layer) <= bound THEN steps
     ELSE [p \in DOMAIN steps |->
             IF p = order[1] \/ before(p) \in Prerequisites(steps[p]) THEN steps[p]
             ELSE [steps[p] EXCEPT !.deps = Append(@, before(p))]]

\* The kinds of a plan in the order of generation, and what each waits for.
PlanKinds(policy, present) ==
  Selected(IF policy.ordering = "MAKE_BEFORE_BREAK" THEN Kinds ELSE BreakFirstKinds,
           present)

WaitKinds(kind, policy, present) ==
  present \cap IF policy.ordering = "MAKE_BEFORE_BREAK" THEN MakeBeforeBreak(kind, present)
               ELSE BreakBeforeMake(kind, present)

\* Before serialisation.
UnboundedSteps(source, target, policy) ==
  LET present == PresentKinds(source, target, policy)
      kinds == PlanKinds(policy, present)
      key(kind) == Key(kind, SubjectOf(kind, source, target))
      keys(S) == LET sorted == Selected(Kinds, S)
                 IN [i \in DOMAIN sorted |-> key(sorted[i])]
  IN [i \in DOMAIN kinds |->
        [kind |-> kinds[i],
         subject |-> SubjectOf(kinds[i], source, target),
         deps |-> keys(WaitKinds(kinds[i], policy, present)),
         domains |-> {DomainOf(kinds[i])},
         mandatory |-> TRUE, irreversible |-> FALSE]]

\* generate_steps, for a coherent policy and a bound that is not 0.
GenerateSteps(source, target, policy, limits) ==
  Serialised(UnboundedSteps(source, target, policy), ParallelBound(policy, limits))

----------------------------------------------------------------------------
\* validate_policy_conformance

KindPositions(steps, kind) == {p \in DOMAIN steps : steps[p].kind = kind}
FirstOfKind(steps, kind) ==
  CHOOSE p \in KindPositions(steps, kind) :
    \A q \in KindPositions(steps, kind) : p <= q

\* The step that the other side of the transition must follow: the last word
\* on the first side that the plan has.
AnchorKinds(policy) ==
  IF policy.ordering = "MAKE_BEFORE_BREAK"
  THEN <<"INSTALL_NEW_ROUTE", "ACTIVATE_NEW_PATH", "VERIFY_NEW_STATE">>
  ELSE <<"DEACTIVATE_OLD_PATH", "WITHDRAW_OLD_ROUTE", "VERIFY_REMOVAL">>

FollowsAnchor(steps, policy, p) ==
  \E kind \in LastOf(AnchorKinds(policy), {steps[q].kind : q \in DOMAIN steps}) :
    DependsTransitivelyOn(steps, KeyOf(steps[p]),
                          KeyOf(steps[FirstOfKind(steps, kind)]))

ConformanceDefects(steps, policy, limits) ==
  LET second == IF policy.ordering = "MAKE_BEFORE_BREAK" THEN BreakKind ELSE MakeKind
      awaited == Ancestors(steps, KeyOf(steps[FirstOfKind(steps, "FINALIZE")]))
  IN GraphDefects(steps, limits) \cup
     IF ~Coherent(policy) THEN {"POLICY_INCOHERENT"}
     ELSE When(policy.rollback /\ \E p \in DOMAIN steps : steps[p].irreversible,
               "ROLLBACK_IRREVERSIBLE")
          \cup
          IF KindPositions(steps, "VALIDATE_TARGET") = {}
               \/ KindPositions(steps, "FINALIZE") = {}
          THEN {"DEPENDENCY_MISSING"}
          ELSE When(\E p \in DOMAIN steps :
                      steps[p].kind \in second /\ ~FollowsAnchor(steps, policy, p),
                    "BREAK_BEFORE_MAKE_NOT_PERMITTED")
               \cup When(\E p \in DOMAIN steps :
                           /\ steps[p].mandatory /\ steps[p].kind # "FINALIZE"
                           /\ KeyOf(steps[p]) \notin awaited,
                         "PREREQUISITE_INCOMPLETE")
               \cup When(HasOrder(steps) /\ \E layer \in Layers(steps) :
                           Cardinality(layer) > ParallelBound(policy, limits),
                         "PARALLELISM_LIMIT")

----------------------------------------------------------------------------
\* The pruning of a rollback plan, given the kinds the forward plan applied

\* (Fault: a route is taken out only if its path was activated too.)
KeepWholeKind(kind, applied, kept) ==
  CASE kind \in {"VALIDATE_TARGET", "FINALIZE"} -> TRUE
    [] kind = "PREPARE_NEW_STATE" -> applied \cap BreakKind # {}
    [] kind = "INSTALL_NEW_GROUP" -> kind \in applied
    [] kind = "INSTALL_NEW_ROUTE" -> "WITHDRAW_OLD_ROUTE" \in applied
    [] kind = "ACTIVATE_NEW_PATH" -> "DEACTIVATE_OLD_PATH" \in applied
    [] kind = "VERIFY_NEW_STATE" -> kept \cap MakeKind # {}
    [] kind = "DEACTIVATE_OLD_PATH" -> "ACTIVATE_NEW_PATH" \in applied
    [] kind = "WITHDRAW_OLD_ROUTE" ->
         {"INSTALL_NEW_ROUTE", "ACTIVATE_NEW_PATH"} \subseteq applied
    [] kind = "VERIFY_REMOVAL" -> "WITHDRAW_OLD_ROUTE" \in kept

\* keep_rollback_kind.
KeepKind(kind, applied, kept) ==
  CASE kind \in {"VALIDATE_TARGET", "FINALIZE"} -> TRUE
    [] kind = "PREPARE_NEW_STATE" -> applied \cap BreakKind # {}
    [] kind = "INSTALL_NEW_GROUP" -> kind \in applied
    [] kind = "INSTALL_NEW_ROUTE" -> "WITHDRAW_OLD_ROUTE" \in applied
    [] kind = "ACTIVATE_NEW_PATH" -> "DEACTIVATE_OLD_PATH" \in applied
    [] kind = "VERIFY_NEW_STATE" -> kept \cap MakeKind # {}
    [] kind = "DEACTIVATE_OLD_PATH" -> "ACTIVATE_NEW_PATH" \in applied
    [] kind = "WITHDRAW_OLD_ROUTE" -> "INSTALL_NEW_ROUTE" \in applied
    [] kind = "VERIFY_REMOVAL" -> "WITHDRAW_OLD_ROUTE" \in kept

\* The observations follow what they observe, so two rounds settle it.
KeptKinds(steps, applied) ==
  LET present == {steps[p].kind : p \in DOMAIN steps}
      once == {k \in present : KeepKind(k, applied, {})}
  IN {k \in present : KeepKind(k, applied, once)}

\* (Fault: what a dropped step waited for is dropped with it.)
DroppedThrough(steps, removed, p) ==
  {key \in Prerequisites(steps[p]) :
     \A q \in removed : KeyOf(steps[q]) # key}

\* The kept prerequisites of p, through removed ones.
Passed(steps, removed, found) ==
  found \cup {q \in removed : \E r \in found :
                KeyOf(steps[q]) \in Prerequisites(steps[r])}

Through(steps, removed, p) ==
  LET through[n \in 0 .. Len(steps)] ==
        IF n = 0 THEN {p} ELSE Passed(steps, removed, through[n - 1])
  IN through

ContractedThrough(steps, removed, p) ==
  (UNION {Prerequisites(steps[q]) : q \in Through(steps, removed, p)[Len(steps)]})
    \ {KeyOf(steps[q]) : q \in removed \cup {p}}

\* Some keys, at most one of a kind, in the order of their kinds.
SortedKeys(S) ==
  LET kinds == Selected(Kinds, {key[1] : key \in S})
  IN [i \in DOMAIN kinds |-> CHOOSE key \in S : key[1] = kinds[i]]

\* prune_rollback_steps.
PruneRollbackSteps(steps, applied) ==
  LET kept == KeptKinds(steps, applied)
      removed == {p \in DOMAIN steps : steps[p].kind \notin kept}
      left == Selected([p \in DOMAIN steps |-> p], DOMAIN steps \ removed)
  IN IF removed = {} THEN steps
     ELSE [i \in DOMAIN left |->
             [steps[left[i]] EXCEPT
                !.deps = SortedKeys(ContractedThrough(steps, removed, left[i]))]]

\* The steps of a compensating plan, back from observed to source: pruned, or
\* whole if that is what conforms; none if neither does (begin_rollback).
RollbackSteps(observed, source, policy, limits, applied) ==
  LET whole == GenerateSteps(observed, source, policy, limits)
      pruned == PruneRollbackSteps(whole, applied)
  IN IF ConformanceDefects(pruned, policy, limits) = {} THEN pruned
     ELSE IF ConformanceDefects(whole, policy, limits) = {} THEN whole
     ELSE <<>>
=============================================================================
