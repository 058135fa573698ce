----------------------- MODULE TopologicalOrderProofs -----------------------
(***************************************************************************)
(* The canonical sort is sound for every graph: what it has taken respects *)
(* the prerequisites, and what it leaves behind waits for itself.  And the *)
(* algorithms keep their promises for every graph: the validation refuses  *)
(* exactly what is not sound, the order and the layers are canonical, and  *)
(* the search for transitive prerequisites is exact.                       *)
(***************************************************************************)
EXTENDS TopologicalOrder, StepGraphProofs

\* The invariant is the one of the sort, of the graph that is sorted.
LEMMA InvariantOfTheSort == SortInvariant <=> steps \in Graphs /\ Sorts(steps, sort)
BY DEF SortInvariant, TypeOK, Sorts, PrerequisitesFirst, Executable, Ordered

\* The sort starts with nothing taken.
LEMMA InitSort == Init => SortInvariant
<1> SUFFICES ASSUME Init PROVE SortInvariant
  OBVIOUS
<1>1. steps \in Seq(Step) /\ steps \in Graphs /\ sort = Unsorted(steps)
  BY GraphsAssumption DEF Init
<1>2. Sorts(steps, sort)
  BY <1>1, UnsortedSorts
<1> QED
  BY <1>1, <1>2, InvariantOfTheSort

\* Taking a ready step keeps the counts, the ready steps and the order right.
LEMMA TakeSort == SortInvariant /\ [Next]_vars => SortInvariant'
<1> SUFFICES ASSUME SortInvariant, [Next]_vars PROVE SortInvariant'
  OBVIOUS
<1>1. CASE UNCHANGED vars
  BY <1>1 DEF SortInvariant, TypeOK, PrerequisitesFirst, Ordered, vars
<1>2. CASE Next
  <2>1. PICK p \in sort.ready : sort' = Taken(steps, sort, p)
    BY <1>2 DEF Next, TakeLeast
  <2>2. steps' = steps
    BY <1>2 DEF Next, TakeLeast
  <2>3. steps \in Seq(Step) /\ steps \in Graphs /\ Sorts(steps, sort)
    BY GraphsAssumption, InvariantOfTheSort
  <2>4. Sorts(steps', sort')
    BY <2>1, <2>2, <2>3, TakenSorts
  <2> QED
    BY <2>2, <2>3, <2>4
       DEF SortInvariant, TypeOK, Sorts, PrerequisitesFirst, Executable, Ordered
<1> QED
  BY <1>1, <1>2 DEF Next

\* The inductive invariant of the sort, for every set of graphs: the order so
\* far can be executed, and the counts and ready steps are exact.
THEOREM SortIsSound == Spec => []SortInvariant
<1>1. Init => SortInvariant
  BY InitSort
<1>2. SortInvariant /\ [Next]_vars => SortInvariant'
  BY TakeSort
<1> QED
  BY <1>1, <1>2, PTL DEF Spec

\* A graph is left without an order only if it has a cycle: each step left
\* behind has a prerequisite that is left behind as well (graph.cpp, 201).
THEOREM OnlyCyclesAreLeft == Spec => []LeftoversAreCyclic
<1>1. SortInvariant => LeftoversAreCyclic
  <2> SUFFICES ASSUME SortInvariant, sort.ready = {},
                      NEW q \in DOMAIN steps \ Ordered
               PROVE  Predecessors(steps, q) \ Ordered # {}
    BY DEF LeftoversAreCyclic
  <2>1. steps \in Seq(Step)
    BY GraphsAssumption DEF SortInvariant, TypeOK
  <2>2. sort.indegree[q] # 0
    BY DEF SortInvariant
  <2>3. Cardinality(Predecessors(steps, q) \ Ordered) # 0
    BY <2>2 DEF SortInvariant
  <2> QED
    BY <2>3, FS_EmptySet
<1> QED
  BY <1>1, SortIsSound, PTL

----------------------------------------------------------------------------
LEMMA GraphTyped == SortInvariant => steps \in Seq(Step)
BY GraphsAssumption DEF SortInvariant, TypeOK

\* The search for transitive prerequisites is exact, for every graph, cycles
\* included: it follows each chain, and what it finds is at the end of one
\* (depends_transitively_on, graph.cpp).
THEOREM SearchIsExact == Spec => []DependenceIsAChain
<1>1. SortInvariant => DependenceIsAChain
  BY GraphTyped, SearchIsDependence DEF DependenceIsAChain
<1> QED
  BY <1>1, SortIsSound, PTL

\* The validation of a graph refuses exactly what is not sound, whatever the
\* graph and the limits (validate_dependency_graph, graph.cpp).
THEOREM ValidationIsExact == Spec => []RefusalsAreExact
<1>1. SortInvariant => RefusalsAreExact
  <2> SUFFICES ASSUME SortInvariant
               PROVE  GraphDefects(steps, Limits) = {} <=> SoundGraph
    BY DEF RefusalsAreExact
  <2> DEFINE named == {p \in DOMAIN steps : steps[p].subject # 0}
  <2>1. steps \in Seq(Step)
    BY GraphTyped
  <2>2. /\ Limits.steps \in Nat /\ Limits.perStep \in Nat /\ Limits.total \in Nat
        /\ Len(steps) \in Nat
        /\ Dependencies(steps, DOMAIN steps) \in Nat
        /\ \A p \in DOMAIN steps : Len(steps[p].deps) \in Nat
    <3>1. \A p \in DOMAIN steps : steps[p].deps \in Seq(StepKind \X Nat)
      <4>1. \A p \in DOMAIN steps : steps[p] \in Step
        BY <2>1
      <4> QED
        BY <4>1 DEF Step
    <3> QED
      BY <2>1, <3>1, LimitsAssumption, DependenciesAreCounted
  <2>3. GraphDefects(steps, Limits) = {} <=>
          /\ ~(Len(steps) > Limits.steps)
          /\ ~Duplicated(steps)
          /\ named = DOMAIN steps
          /\ \A p \in named : ~(Len(steps[p].deps) > Limits.perStep)
          /\ \A p \in named : IsInjective(steps[p].deps)
          /\ \A p \in named : KeyOf(steps[p]) \notin Prerequisites(steps[p])
          /\ \A p \in named : \A key \in Prerequisites(steps[p]) :
               key # KeyOf(steps[p]) => Positions(steps, key) # {}
          /\ ~(Dependencies(steps, named) > Limits.total)
          /\ HasOrder(steps)
          /\ ~LayersConflict(steps)
    BY <2>1, NoDefects
  <2> DEFINE Distinct == \A p, q \in DOMAIN steps : KeyOf(steps[p]) = KeyOf(steps[q]) => p = q
             Named == \A p \in DOMAIN steps : steps[p].subject # 0
             Once == \A p \in DOMAIN steps : \A i, j \in DOMAIN steps[p].deps :
                       steps[p].deps[i] = steps[p].deps[j] => i = j
             There == \A p \in DOMAIN steps : \A key \in Prerequisites(steps[p]) :
                        \E q \in DOMAIN steps \ {p} : KeyOf(steps[q]) = key
             Apart == \A p, q \in DOMAIN steps : p # q /\ Conflict(steps[p], steps[q])
                        => Height(steps, p) # Height(steps, q)
             Few == /\ \A p \in DOMAIN steps : Len(steps[p].deps) <= Limits.perStep
                    /\ Len(steps) <= Limits.steps
                    /\ Dependencies(steps, DOMAIN steps) <= Limits.total
  <2>4. SoundGraph <=> Named /\ Distinct /\ Once /\ There /\ Few /\ Acyclic(steps) /\ Apart
    BY DEF SoundGraph
  <2>5. Named <=> named = DOMAIN steps
    OBVIOUS
  <2>6. Distinct <=> ~Duplicated(steps)
    BY DEF Duplicated
  <2>7. Once <=> \A p \in DOMAIN steps : IsInjective(steps[p].deps)
    BY DEF IsInjective
  <2>8. ASSUME ~Duplicated(steps)
        PROVE  There <=> Linked(steps)
    <3>1. \A p \in DOMAIN steps : \A key :
            (\E q \in DOMAIN steps \ {p} : KeyOf(steps[q]) = key)
              <=> Positions(steps, key) # {} /\ key # KeyOf(steps[p])
      BY <2>8 DEF Positions, Duplicated
    <3> QED
      BY <2>8, <3>1 DEF Linked
  <2>9. HasOrder(steps) <=> Linked(steps) /\ Acyclic(steps)
    BY <2>1, OrderedIsAcyclic
  <2>10. HasOrder(steps) => (~LayersConflict(steps) <=> Apart)
    BY <2>1, ConflictsAreAtHeights
  <2>11. Few <=> /\ \A p \in DOMAIN steps : ~(Len(steps[p].deps) > Limits.perStep)
                 /\ ~(Len(steps) > Limits.steps)
                 /\ ~(Dependencies(steps, DOMAIN steps) > Limits.total)
    BY <2>2
  <2>12. Linked(steps) =>
           /\ \A p \in DOMAIN steps : KeyOf(steps[p]) \notin Prerequisites(steps[p])
           /\ \A p \in DOMAIN steps : \A key \in Prerequisites(steps[p]) :
                Positions(steps, key) # {}
    BY DEF Linked
  <2> HIDE DEF named, Distinct, Named, Once, There, Apart, Few
  <2>13. ASSUME GraphDefects(steps, Limits) = {}
         PROVE  SoundGraph
    <3>1. named = DOMAIN steps
      BY <2>3, <2>13
    <3>2. /\ Named /\ Distinct /\ Once /\ Few
      BY <2>3, <2>5, <2>6, <2>7, <2>11, <2>13, <3>1
    <3>3. HasOrder(steps) /\ ~LayersConflict(steps) /\ ~Duplicated(steps)
      BY <2>3, <2>13
    <3> QED
      BY <2>4, <2>8, <2>9, <2>10, <3>2, <3>3
  <2>14. ASSUME SoundGraph
         PROVE  GraphDefects(steps, Limits) = {}
    <3>1. Named /\ Distinct /\ Once /\ There /\ Few /\ Acyclic(steps) /\ Apart
      BY <2>4, <2>14
    <3>2. named = DOMAIN steps /\ ~Duplicated(steps)
      BY <2>5, <2>6, <3>1
    <3>3. HasOrder(steps) /\ ~LayersConflict(steps) /\ Linked(steps)
      BY <2>8, <2>9, <2>10, <3>1, <3>2
    <3> QED
      BY <2>3, <2>7, <2>11, <2>12, <3>1, <3>2, <3>3
  <2> QED
    BY <2>13, <2>14
<1> QED
  BY <1>1, SortIsSound, PTL

\* The order of the keys and the layers do not depend on where the steps were
\* given (canonical_topological_order and canonical_layers, graph.cpp).
THEOREM SortIsCanonical == Spec => []OrderIsCanonical
<1>1. SortInvariant => OrderIsCanonical
  <2> SUFFICES ASSUME SortInvariant, HasOrder(steps),
                      NEW f \in [DOMAIN steps -> DOMAIN steps], IsInjective(f)
               PROVE  LET moved == [p \in DOMAIN steps |-> steps[f[p]]]
                          keys(s) == [i \in DOMAIN SortedSteps(s) |->
                                        KeyOf(s[SortedSteps(s)[i]])]
                      IN /\ keys(moved) = keys(steps)
                         /\ {{f[p] : p \in layer} : layer \in Layers(moved)} = Layers(steps)
    BY DEF OrderIsCanonical
  <2> DEFINE g == steps
             h == [p \in DOMAIN steps |-> steps[f[p]]]
             o == SortedSteps(g)
             m == SortedSteps(h)
             d == Depths(g)
             e == Depths(h)
  <2>1. g \in Seq(Step) /\ Linked(g)
    BY GraphTyped DEF HasOrder
  <2>2. Moves(g, h, f)
    <3>1. DOMAIN g = 1 .. Len(g) /\ Len(g) \in Nat /\ \A p \in DOMAIN g : g[p] \in Step
      BY <2>1
    <3>2. h \in [1 .. Len(g) -> Step]
      BY <3>1
    <3>3. h \in Seq(Step) /\ Len(h) = Len(g)
      BY <3>1, <3>2
    <3> QED
      BY <2>1, <3>3 DEF Moves
  <2>3. \A p \in DOMAIN g : h[p] = g[f[p]]
    OBVIOUS
  <2> HIDE DEF g, h
  <2>4. HasOrder(g)
    BY DEF g
  <2>5. DOMAIN h = DOMAIN g /\ h \in Seq(Step) /\ Linked(h)
    BY <2>1, <2>2, MovedLinks, MovedIsLinked DEF Moves
  <2>6. o \in Seq(DOMAIN g) /\ m \in Seq(DOMAIN g)
    BY <2>1, <2>5, SortedEnds
  <2>7. SameOrder(f, o, m)
    BY <2>1, <2>2, MovedSort
  <2>8. /\ e \in [DOMAIN g -> Nat]
        /\ \A p \in DOMAIN g : e[p] = d[f[p]]
    BY <2>2, <2>4, MovedDepths
  <2>9. d \in [DOMAIN g -> Nat]
    BY <2>1, <2>4, DepthsAreRight
  <2>10. /\ \A q \in DOMAIN g : \E p \in DOMAIN g : f[p] = q
         /\ \A p \in DOMAIN g : f[p] \in DOMAIN g
    BY <2>2, MovedLinks
  <2>11. Layers(g) = {{p \in DOMAIN g : d[p] = k} : k \in Range(d)}
    BY DEF Layers
  <2>12. Layers(h) = {{p \in DOMAIN g : e[p] = k} : k \in Range(e)}
    BY <2>5 DEF Layers
  <2> HIDE DEF o, m, d, e
  <2>13. [i \in DOMAIN m |-> KeyOf(h[m[i]])] = [i \in DOMAIN o |-> KeyOf(g[o[i]])]
    <3>1. DOMAIN m = DOMAIN o /\ \A i \in DOMAIN o : m[i] \in DOMAIN g /\ o[i] = f[m[i]]
      BY <2>6, <2>7 DEF SameOrder
    <3>2. \A i \in DOMAIN o : KeyOf(h[m[i]]) = KeyOf(g[o[i]])
      BY <2>3, <3>1
    <3> QED
      BY <3>1, <3>2
  <2>14. {{f[p] : p \in layer} : layer \in Layers(h)} = Layers(g)
    <3> DEFINE low(k) == {p \in DOMAIN g : d[p] = k}
               moved(k) == {p \in DOMAIN g : e[p] = k}
    <3>1. ASSUME NEW k
          PROVE  {f[p] : p \in moved(k)} = low(k)
      <4>1. ASSUME NEW p \in moved(k)
            PROVE  f[p] \in low(k)
        BY <2>8, <2>10
      <4>2. ASSUME NEW q \in low(k)
            PROVE  \E p \in moved(k) : f[p] = q
        BY <2>8, <2>10
      <4> QED
        BY <4>1, <4>2
    <3>2. \A k : k \in Range(e) <=> k \in Range(d)
      <4>1. \A k : k \in Range(e) <=> \E p \in DOMAIN g : e[p] = k
        BY <2>8 DEF Range
      <4>2. \A k : k \in Range(d) <=> \E q \in DOMAIN g : d[q] = k
        BY <2>9 DEF Range
      <4>3. ASSUME NEW k, NEW p \in DOMAIN g, e[p] = k
            PROVE  \E q \in DOMAIN g : d[q] = k
        BY <2>8, <2>10, <4>3
      <4>4. ASSUME NEW k, NEW q \in DOMAIN g, d[q] = k
            PROVE  \E p \in DOMAIN g : e[p] = k
        <5>1. PICK p \in DOMAIN g : f[p] = q
          BY <2>10
        <5> QED
          BY <2>8, <4>4, <5>1
      <4> QED
        BY <4>1, <4>2, <4>3, <4>4
    <3> HIDE DEF low, moved
    <3>3. Layers(g) = {low(k) : k \in Range(d)} /\ Layers(h) = {moved(k) : k \in Range(e)}
      BY <2>11, <2>12 DEF low, moved
    <3> QED
      BY <3>1, <3>2, <3>3
  <2> QED
    BY <2>13, <2>14 DEF g, h, o, m
<1> QED
  BY <1>1, SortIsSound, PTL
=============================================================================
