-------------------------- MODULE TopologicalOrder --------------------------
(***************************************************************************)
(* canonical_topological_order (graph.cpp) as it runs, one step taken at a *)
(* time, on every graph of a given set, and what the validation of a graph *)
(* and the search for transitive prerequisites promise, stated without the *)
(* algorithms: in terms of sets of steps and of chains of prerequisites.   *)
(***************************************************************************)
EXTENDS StepGraph

CONSTANTS
  Graphs,   \* the graphs to sort
  Limits    \* the configured bounds: steps, perStep, total

ASSUME GraphsAssumption == Graphs \subseteq Seq(Step)
ASSUME LimitsAssumption == {Limits.steps, Limits.perStep, Limits.total} \subseteq Nat

VARIABLES
  steps,    \* the graph
  sort      \* indegrees, ready steps and the order so far

vars == <<steps, sort>>

Init == steps \in Graphs /\ sort = Unsorted(steps)

TakeLeast ==
  /\ Linked(steps)
  /\ \E p \in sort.ready :
       IsLeast(steps, sort.ready, p) /\ sort' = Taken(steps, sort, p)
  /\ UNCHANGED steps

Next == TakeLeast

Spec == Init /\ [][Next]_vars

----------------------------------------------------------------------------
Done == ~Linked(steps) \/ sort.ready = {}
Ordered == Range(sort.order)

\* The sort holds positions of the graph, and counts.
TypeOK ==
  /\ steps \in Graphs
  /\ sort.order \in Seq(DOMAIN steps)
  /\ sort.ready \subseteq DOMAIN steps
  /\ sort.indegree \in [DOMAIN steps -> Nat]

\* A step is taken once, after all of its prerequisites: the order is one a
\* plan may be executed in, whatever prefix of it was taken.
PrerequisitesFirst ==
  \A i \in DOMAIN sort.order :
    /\ \A j \in DOMAIN sort.order : sort.order[i] = sort.order[j] => i = j
    /\ \A p \in Predecessors(steps, sort.order[i]) :
         \E j \in 1 .. i - 1 : sort.order[j] = p

\* If the sort ends without a step, that step waits for another that was not
\* taken: only a graph with a cycle is refused for the lack of an order.
LeftoversAreCyclic ==
  sort.ready = {} =>
    \A q \in DOMAIN steps \ Ordered : Predecessors(steps, q) \ Ordered # {}

\* The indegree of a step counts the prerequisites still to be taken, and the
\* ready steps are those that wait for none.
SortInvariant ==
  /\ TypeOK
  /\ \A q \in DOMAIN steps :
       sort.indegree[q] = Cardinality(Predecessors(steps, q) \ Ordered)
  /\ sort.ready = {q \in DOMAIN steps \ Ordered : sort.indegree[q] = 0}
  /\ PrerequisitesFirst

----------------------------------------------------------------------------
\* What the algorithms promise

\* What README.md lists of a plan's graph, and that every step has a subject.
SoundGraph ==
  /\ \A p \in DOMAIN steps : steps[p].subject # 0
  /\ \A p, q \in DOMAIN steps : KeyOf(steps[p]) = KeyOf(steps[q]) => p = q
  /\ \A p \in DOMAIN steps :
       /\ \A i, j \in DOMAIN steps[p].deps :
            steps[p].deps[i] = steps[p].deps[j] => i = j
       /\ \A key \in Prerequisites(steps[p]) :
            \E q \in DOMAIN steps \ {p} : KeyOf(steps[q]) = key
       /\ Len(steps[p].deps) <= Limits.perStep
  /\ Len(steps) <= Limits.steps
  /\ Dependencies(steps, DOMAIN steps) <= Limits.total
  /\ Acyclic(steps)
  /\ \A p, q \in DOMAIN steps :
       p # q /\ Conflict(steps[p], steps[q]) => Height(steps, p) # Height(steps, q)

\* A graph is refused exactly if it is not sound: no defect goes unseen, and
\* none is reported of a graph that has none (README.md, 143-150).
RefusalsAreExact ==
  Done => (GraphDefects(steps, Limits) = {} <=> SoundGraph)

\* The order of the keys, and the layers, do not depend on the order in which
\* the steps were given (README.md, 152-156).
OrderIsCanonical ==
  Done /\ HasOrder(steps) =>
    \A places \in {f \in [DOMAIN steps -> DOMAIN steps] : IsInjective(f)} :
      LET moved == [p \in DOMAIN steps |-> steps[places[p]]]
          keys(s) == [i \in DOMAIN SortedSteps(s) |-> KeyOf(s[SortedSteps(s)[i]])]
      IN /\ keys(moved) = keys(steps)
         /\ {{places[p] : p \in layer} : layer \in Layers(moved)} = Layers(steps)

\* One step depends transitively on another exactly if a chain of
\* prerequisites leads there, cycles included: the conformance of a plan to
\* its policy rests on this search.
DependenceIsAChain ==
  Done /\ Linked(steps) =>
    \A p, q \in DOMAIN steps :
      DependsTransitivelyOn(steps, KeyOf(steps[q]), KeyOf(steps[p]))
        <=> \E n \in 1 .. Len(steps) : Chain(steps, p, q, n)
=============================================================================
