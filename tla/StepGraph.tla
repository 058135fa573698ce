----------------------------- MODULE StepGraph -----------------------------
(***************************************************************************)
(* Transition steps as a dependency graph (step.hpp, step.cpp, graph.cpp): *)
(* the canonical order, its layers, transitive dependence, and the defects *)
(* for which a graph is refused.                                           *)
(*                                                                         *)
(* A graph is a sequence of steps, each a record of its kind, subject,     *)
(* prerequisites (a sequence of keys), conflict domains, and whether it is *)
(* mandatory and irreversible.  A subject is a number, in the order of the *)
(* texts it stands for; 0 is the empty one.                                *)
(***************************************************************************)
EXTENDS Naturals, Sequences, FiniteSets, Functions

\* StepKind, in the order of its values.
Kinds ==
  <<"VALIDATE_TARGET", "PREPARE_NEW_STATE", "INSTALL_NEW_GROUP",
    "INSTALL_NEW_ROUTE", "ACTIVATE_NEW_PATH", "VERIFY_NEW_STATE",
    "DEACTIVATE_OLD_PATH", "WITHDRAW_OLD_ROUTE", "VERIFY_REMOVAL", "FINALIZE">>

StepKind == Range(Kinds)
KindRank == [k \in StepKind |-> CHOOSE i \in DOMAIN Kinds : Kinds[i] = k]

ConflictDomain == {"ROUTE_TABLE", "PATH_STATE", "GROUP_STATE", "TARGET_STATE"}

Step ==
  [kind : StepKind, subject : Nat, deps : Seq(StepKind \X Nat),
   domains : SUBSET ConflictDomain, mandatory : BOOLEAN, irreversible : BOOLEAN]

ObservationKind == {"VALIDATE_TARGET", "VERIFY_NEW_STATE", "VERIFY_REMOVAL"}
MakeKind == {"PREPARE_NEW_STATE", "INSTALL_NEW_GROUP", "INSTALL_NEW_ROUTE",
             "ACTIVATE_NEW_PATH"}
BreakKind == {"DEACTIVATE_OLD_PATH", "WITHDRAW_OLD_ROUTE"}

\* StepKey, ordered by kind and then by subject.
Key(kind, subject) == <<kind, subject>>
KeyOf(step) == Key(step.kind, step.subject)
KeyLess(a, b) ==
  \/ KindRank[a[1]] < KindRank[b[1]]
  \/ a[1] = b[1] /\ a[2] < b[2]

Prerequisites(step) == Range(step.deps)

\* index_steps: the position each key is found at, which is its first.
Positions(steps, key) == {p \in DOMAIN steps : KeyOf(steps[p]) = key}
PositionOf(steps, key) ==
  CHOOSE p \in Positions(steps, key) : \A q \in Positions(steps, key) : p <= q
Duplicated(steps) ==
  \E p, q \in DOMAIN steps : p # q /\ KeyOf(steps[p]) = KeyOf(steps[q])

\* What canonical_topological_order refuses before it starts.
Linked(steps) ==
  /\ ~Duplicated(steps)
  /\ \A p \in DOMAIN steps : \A key \in Prerequisites(steps[p]) :
       Positions(steps, key) # {} /\ key # KeyOf(steps[p])

Successors(steps, p) ==
  {q \in DOMAIN steps : KeyOf(steps[p]) \in Prerequisites(steps[q])}
Predecessors(steps, q) ==
  {p \in DOMAIN steps : KeyOf(steps[p]) \in Prerequisites(steps[q])}

----------------------------------------------------------------------------
\* canonical_topological_order: take the least ready step, release its
\* successors, until none is ready.
Unsorted(steps) ==
  LET indegree == [p \in DOMAIN steps |-> Cardinality(Predecessors(steps, p))]
  IN [indegree |-> indegree,
      ready |-> {p \in DOMAIN steps : indegree[p] = 0},
      order |-> <<>>]

\* (Fault, for the mutation runs: steps are taken as they were inserted.)
IsInsertedFirst(steps, ready, p) == \A q \in ready : p <= q
IsLeast(steps, ready, p) ==
  \A q \in ready \ {p} : KeyLess(KeyOf(steps[p]), KeyOf(steps[q]))

\* (Fault: a successor is released by the first of its prerequisites.)
TakenEarly(steps, sort, p) ==
  LET released == {q \in Successors(steps, p) : sort.indegree[q] > 0}
  IN [indegree |-> [q \in DOMAIN steps |-> IF q \in released THEN 0
                                           ELSE sort.indegree[q]],
      ready |-> (sort.ready \ {p}) \cup released,
      order |-> Append(sort.order, p)]

Taken(steps, sort, p) ==
  LET released == {q \in Successors(steps, p) : sort.indegree[q] > 0}
  IN [indegree |-> [q \in DOMAIN steps |-> IF q \in released
                                           THEN sort.indegree[q] - 1
                                           ELSE sort.indegree[q]],
      ready |-> (sort.ready \ {p}) \cup {q \in released : sort.indegree[q] = 1},
      order |-> Append(sort.order, p)]

Least(steps, ready) == CHOOSE p \in ready : IsLeast(steps, ready, p)

\* The whole loop, after n rounds; it has an order only if it took every step.
Resorted(steps, sort) ==
  IF sort.ready = {} THEN sort ELSE Taken(steps, sort, Least(steps, sort.ready))

Sorting(steps) ==
  LET loop[n \in 0 .. Len(steps)] ==
        IF n = 0 THEN Unsorted(steps) ELSE Resorted(steps, loop[n - 1])
  IN loop

SortedSteps(steps) == Sorting(steps)[Len(steps)].order

HasOrder(steps) == Linked(steps) /\ Len(SortedSteps(steps)) = Len(steps)

\* canonical_layers: in that order, a step is one deeper than the deepest of
\* its prerequisites.
Deepened(steps, depth, p) ==
  LET below == {depth[q] + 1 : q \in Predecessors(steps, p)} \cup {0}
  IN [depth EXCEPT ![p] = CHOOSE d \in below : \A e \in below : e <= d]

Deepening(steps, order) ==
  LET loop[n \in 0 .. Len(order)] ==
        IF n = 0 THEN [p \in DOMAIN steps |-> 0]
        ELSE Deepened(steps, loop[n - 1], order[n])
  IN loop

Depths(steps) ==
  LET order == SortedSteps(steps)
  IN Deepening(steps, order)[Len(order)]

Layers(steps) ==
  LET depth == Depths(steps)
  IN {{p \in DOMAIN steps : depth[p] = d} : d \in Range(depth)}

\* (Fault: what a prerequisite waits for is not visited.)
VisitedFirst(steps, target) ==
  IF Positions(steps, target) = {} THEN {} ELSE {PositionOf(steps, target)}

\* depends_transitively_on: a search from the target, which ends as soon as it
\* meets the candidate among the prerequisites of what it visits.
Met(steps, seen) ==
  seen \cup {PositionOf(steps, key) : key \in
               {k \in UNION {Prerequisites(steps[p]) : p \in seen} : Positions(steps, k) # {}}}

Search(steps, target) ==
  LET search[n \in 0 .. Len(steps)] ==
        IF n = 0 THEN {PositionOf(steps, target)}
        ELSE Met(steps, search[n - 1])
  IN search

Visited(steps, target) ==
  IF Positions(steps, target) = {} THEN {} ELSE Search(steps, target)[Len(steps)]

Ancestors(steps, target) ==
  UNION {Prerequisites(steps[p]) : p \in Visited(steps, target)}

DependsTransitivelyOn(steps, target, candidate) ==
  candidate \in Ancestors(steps, target)

----------------------------------------------------------------------------
\* validate_dependency_graph

\* Two steps of one layer that touch the same domain of the same subject.
Conflict(a, b) == a.domains \cap b.domains # {} /\ a.subject = b.subject

\* (Fault: only neighbours in a layer are compared.)
NeighboursConflict(steps) ==
  \E layer \in Layers(steps) : \E p \in layer :
    p + 1 \in layer /\ Conflict(steps[p], steps[p + 1])
LayersConflict(steps) ==
  \E layer \in Layers(steps) : \E p, q \in layer :
    p # q /\ Conflict(steps[p], steps[q])

Counting(steps, P) ==
  LET count[n \in 0 .. Len(steps)] ==
        IF n = 0 THEN 0
        ELSE count[n - 1] + IF n \in P THEN Len(steps[n].deps) ELSE 0
  IN count

Dependencies(steps, P) == Counting(steps, P)[Len(steps)]

When(condition, code) == IF condition THEN {code} ELSE {}

\* The codes of the defects found; a step without a subject is looked at no
\* further.  A graph is accepted if there are none.
GraphDefects(steps, limits) ==
  LET named == {p \in DOMAIN steps : steps[p].subject # 0}
      found ==
        When(Len(steps) > limits.steps, "STEP_LIMIT")
        \cup When(Duplicated(steps), "DUPLICATE_STEP")
        \cup When(named # DOMAIN steps, "MALFORMED_SUBJECT")
        \cup When(\E p \in named : Len(steps[p].deps) > limits.perStep,
                  "DEPENDENCY_LIMIT")
        \cup When(\E p \in named : ~IsInjective(steps[p].deps),
                  "DEPENDENCY_DUPLICATE")
        \cup When(\E p \in named : KeyOf(steps[p]) \in Prerequisites(steps[p]),
                  "DEPENDENCY_SELF")
        \cup When(\E p \in named : \E key \in Prerequisites(steps[p]) :
                    key # KeyOf(steps[p]) /\ Positions(steps, key) = {},
                  "DEPENDENCY_MISSING")
        \cup When(Dependencies(steps, named) > limits.total,
                  "TOTAL_DEPENDENCY_LIMIT")
      cyclic == \E p \in DOMAIN steps :
                  DependsTransitivelyOn(steps, KeyOf(steps[p]), KeyOf(steps[p]))
  IN found \cup
     IF HasOrder(steps)
     THEN When(LayersConflict(steps), "CONFLICT_DOMAIN_OVERLAP")
     ELSE When(cyclic \/ found = {}, "DEPENDENCY_CYCLE")

----------------------------------------------------------------------------
\* What the algorithms are about

\* Every nonempty set of steps has one that waits for none of them.
Acyclic(steps) ==
  \A S \in SUBSET DOMAIN steps :
    S # {} => \E p \in S : Predecessors(steps, p) \cap S = {}

\* There is a chain of n prerequisites from p to q.
Chain(steps, p, q, n) ==
  \E c \in [0 .. n -> DOMAIN steps] :
    /\ c[0] = p /\ c[n] = q
    /\ \A i \in 1 .. n : c[i - 1] \in Predecessors(steps, c[i])

\* The length of the longest chain to q.
Height(steps, q) ==
  CHOOSE n \in 0 .. Len(steps) :
    /\ \E p \in DOMAIN steps : Chain(steps, p, q, n)
    /\ \A m \in n + 1 .. Len(steps) - 1 : \A p \in DOMAIN steps : ~Chain(steps, p, q, m)
=============================================================================
