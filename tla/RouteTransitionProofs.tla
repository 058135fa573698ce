----------------------- MODULE RouteTransitionProofs -----------------------
(***************************************************************************)
(* What the execution of a generated plan and of its rollback does to the  *)
(* data plane, for any bindings, policies and faults.                      *)
(***************************************************************************)
EXTENDS RouteTransition, StepGraphProofs

----------------------------------------------------------------------------
\* Selection

\* What the first n items leave.
LEMMA SelectingItems ==
  ASSUME NEW K, NEW items \in Seq(K), NEW S
  PROVE  /\ Selecting(items, S)[0] = <<>>
         /\ \A n \in 1 .. Len(items) :
              Selecting(items, S)[n] = Picked(items, S, n, Selecting(items, S)[n - 1])
<1> DEFINE D == Seq(K)
           G == [z \in Nat \X D |-> IF z[1] \in 1 .. Len(items)
                                    THEN Picked(items, S, z[1], z[2]) ELSE z[2]]
<1>1. Len(items) \in Nat /\ \A n \in 1 .. Len(items) : items[n] \in K
  OBVIOUS
<1>2. <<>> \in D
  OBVIOUS
<1>3. \A n \in 1 .. Len(items), o \in D : Picked(items, S, n, o) \in D
  BY <1>1 DEF Picked
<1>4. G \in [Nat \X D -> D]
  BY <1>3
<1>5. \A n \in 1 .. Len(items), o \in D : G[<<n, o>>] = Picked(items, S, n, o)
  BY <1>1
<1> HIDE DEF G, D
<1>6. PICK f : Iterates(f, Len(items), D, <<>>, G)
  BY <1>1, <1>2, <1>4, Iteration
<1>7. f = [n \in 0 .. Len(items) |-> IF n = 0 THEN <<>> ELSE Picked(items, S, n, f[n - 1])]
  <2>1. /\ f \in [0 .. Len(items) -> D] /\ f[0] = <<>>
        /\ \A n \in 1 .. Len(items) : f[n] = G[<<n, f[n - 1]>>]
    BY <1>6 DEF Iterates
  <2>2. ASSUME NEW n \in 1 .. Len(items)
        PROVE  f[n] = Picked(items, S, n, f[n - 1])
    <3>1. f[n - 1] \in D
      BY <1>1, <2>1
    <3> QED
      BY <1>5, <2>1, <3>1
  <2> QED
    BY <1>1, <2>1, <2>2
<1>8. Selecting(items, S)
        = [n \in 0 .. Len(items) |-> IF n = 0 THEN <<>>
                                     ELSE Picked(items, S, n, Selecting(items, S)[n - 1])]
  BY <1>7 DEF Selecting
<1> QED
  BY <1>1, <1>8

\* A selection has the items that are wanted, once each.
LEMMA SelectedItems ==
  ASSUME NEW K, NEW items \in Seq(K), IsInjective(items), NEW S
  PROVE  /\ Selected(items, S) \in Seq(K)
         /\ Range(Selected(items, S)) = Range(items) \cap S
         /\ IsInjective(Selected(items, S))
<1> DEFINE N == Len(items)
           loop == Selecting(items, S)
           first(n) == {items[i] : i \in 1 .. n}
           right(n) == /\ loop[n] \in Seq(K)
                       /\ Range(loop[n]) = first(n) \cap S
                       /\ IsInjective(loop[n])
           held == {n \in 0 .. N : right(n)}
<1>1. N \in Nat /\ DOMAIN items = 1 .. N /\ \A n \in 1 .. N : items[n] \in K
  OBVIOUS
<1>2. /\ loop[0] = <<>>
      /\ \A n \in 1 .. N : loop[n] = IF items[n] \in S THEN Append(loop[n - 1], items[n])
                                     ELSE loop[n - 1]
  BY SelectingItems DEF Picked
<1> HIDE DEF loop, N
<1>3. 0 \in held
  <2>1. loop[0] \in Seq(K) /\ Range(loop[0]) = {} /\ IsInjective(loop[0])
    BY <1>2 DEF Range, IsInjective
  <2>2. first(0) = {} /\ 0 \in 0 .. N
    BY <1>1
  <2> QED
    BY <2>1, <2>2
<1>4. ASSUME NEW n \in 1 .. N, n - 1 \in held
      PROVE  n \in held
  <2>1. /\ loop[n - 1] \in Seq(K) /\ Range(loop[n - 1]) = first(n - 1) \cap S
        /\ IsInjective(loop[n - 1])
    BY <1>4
  <2>2. first(n) = first(n - 1) \cup {items[n]}
    BY <1>1
  <2>3. items[n] \in K /\ items[n] \notin first(n - 1)
    BY <1>1 DEF IsInjective
  <2> HIDE DEF first
  <2>4. CASE items[n] \in S
    <3> DEFINE o == loop[n - 1]
    <3>1. loop[n] = Append(o, items[n])
      BY <1>2, <2>4
    <3>2. /\ Append(o, items[n]) \in Seq(K)
          /\ DOMAIN Append(o, items[n]) = 1 .. Len(o) + 1
          /\ DOMAIN o = 1 .. Len(o) /\ Len(o) \in Nat
          /\ \A i \in 1 .. Len(o) : Append(o, items[n])[i] = o[i]
          /\ Append(o, items[n])[Len(o) + 1] = items[n]
          /\ Range(Append(o, items[n])) = Range(o) \cup {items[n]}
      BY <2>1, <2>3, OrderGrows
    <3>3. items[n] \notin Range(o)
      BY <2>1, <2>3
    <3> HIDE DEF o
    <3>4. Range(loop[n]) = first(n) \cap S
      BY <2>1, <2>2, <2>4, <3>1, <3>2 DEF o
    <3>5. IsInjective(loop[n])
      <4> SUFFICES ASSUME NEW i \in 1 .. Len(o) + 1, NEW j \in 1 .. Len(o) + 1,
                          Append(o, items[n])[i] = Append(o, items[n])[j]
                   PROVE  i = j
        BY <3>1, <3>2 DEF IsInjective
      <4>1. \A k \in 1 .. Len(o) : o[k] # items[n]
        BY <3>2, <3>3 DEF Range
      <4>2. \A k, l \in 1 .. Len(o) : o[k] = o[l] => k = l
        BY <2>1, <3>2 DEF IsInjective, o
      <4> QED
        BY <3>2, <4>1, <4>2
    <3>6. loop[n] \in Seq(K)
      BY <3>1, <3>2
    <3> QED
      BY <1>1, <3>4, <3>5, <3>6
  <2>5. CASE items[n] \notin S
    <3>1. loop[n] = loop[n - 1] /\ first(n) \cap S = first(n - 1) \cap S
      BY <1>2, <2>2, <2>5
    <3> QED
      BY <1>1, <2>1, <3>1
  <2> QED
    BY <2>4, <2>5
<1> HIDE DEF held
<1>5. 0 .. N \subseteq held
  BY <1>1, <1>3, <1>4, BoundedInduction
<1>6. right(N)
  <2>1. N \in held
    BY <1>1, <1>5
  <2> QED
    BY <2>1 DEF held
<1>7. first(N) = Range(items)
  BY <1>1 DEF Range
<1> QED
  BY <1>6, <1>7 DEF Selected, loop, N

----------------------------------------------------------------------------
\* The generated graphs

\* The kinds, listed.
LEMMA KindSet ==
  /\ StepKind = {"VALIDATE_TARGET", "PREPARE_NEW_STATE", "INSTALL_NEW_GROUP",
                 "INSTALL_NEW_ROUTE", "ACTIVATE_NEW_PATH", "VERIFY_NEW_STATE",
                 "DEACTIVATE_OLD_PATH", "WITHDRAW_OLD_ROUTE", "VERIFY_REMOVAL",
                 "FINALIZE"}
  /\ Kinds \in Seq(StepKind) /\ Range(Kinds) = StepKind /\ IsInjective(Kinds)
  /\ BreakFirstKinds \in Seq(StepKind) /\ Range(BreakFirstKinds) = StepKind
  /\ IsInjective(BreakFirstKinds)
<1>1. /\ DOMAIN Kinds = 1 .. 10
      /\ Kinds[1] = "VALIDATE_TARGET" /\ Kinds[2] = "PREPARE_NEW_STATE"
      /\ Kinds[3] = "INSTALL_NEW_GROUP" /\ Kinds[4] = "INSTALL_NEW_ROUTE"
      /\ Kinds[5] = "ACTIVATE_NEW_PATH" /\ Kinds[6] = "VERIFY_NEW_STATE"
      /\ Kinds[7] = "DEACTIVATE_OLD_PATH" /\ Kinds[8] = "WITHDRAW_OLD_ROUTE"
      /\ Kinds[9] = "VERIFY_REMOVAL" /\ Kinds[10] = "FINALIZE"
  BY DEF Kinds
<1>2. \A i \in 1 .. 10 : i = 1 \/ i = 2 \/ i = 3 \/ i = 4 \/ i = 5 \/ i = 6 \/ i = 7
                        \/ i = 8 \/ i = 9 \/ i = 10
  OBVIOUS
<1>3. StepKind = {"VALIDATE_TARGET", "PREPARE_NEW_STATE", "INSTALL_NEW_GROUP",
                  "INSTALL_NEW_ROUTE", "ACTIVATE_NEW_PATH", "VERIFY_NEW_STATE",
                  "DEACTIVATE_OLD_PATH", "WITHDRAW_OLD_ROUTE", "VERIFY_REMOVAL",
                  "FINALIZE"}
  <2> DEFINE listed == {"VALIDATE_TARGET", "PREPARE_NEW_STATE", "INSTALL_NEW_GROUP",
                        "INSTALL_NEW_ROUTE", "ACTIVATE_NEW_PATH", "VERIFY_NEW_STATE",
                        "DEACTIVATE_OLD_PATH", "WITHDRAW_OLD_ROUTE", "VERIFY_REMOVAL",
                        "FINALIZE"}
  <2>1. \A i \in 1 .. 10 : Kinds[i] \in listed
    BY <1>1, <1>2
  <2>2. \A k \in listed : \E i \in 1 .. 10 : Kinds[i] = k
    BY <1>1
  <2> HIDE DEF listed
  <2> QED
    BY <1>1, <2>1, <2>2 DEF StepKind, Range, listed
<1>4. Kinds \in Seq(StepKind)
  BY <1>3 DEF Kinds
<1>5. IsInjective(Kinds)
  BY <1>1, <1>2 DEF IsInjective
<1>6. /\ DOMAIN BreakFirstKinds = 1 .. 10
      /\ BreakFirstKinds[1] = "VALIDATE_TARGET" /\ BreakFirstKinds[2] = "DEACTIVATE_OLD_PATH"
      /\ BreakFirstKinds[3] = "WITHDRAW_OLD_ROUTE" /\ BreakFirstKinds[4] = "VERIFY_REMOVAL"
      /\ BreakFirstKinds[5] = "PREPARE_NEW_STATE" /\ BreakFirstKinds[6] = "INSTALL_NEW_GROUP"
      /\ BreakFirstKinds[7] = "INSTALL_NEW_ROUTE" /\ BreakFirstKinds[8] = "ACTIVATE_NEW_PATH"
      /\ BreakFirstKinds[9] = "VERIFY_NEW_STATE" /\ BreakFirstKinds[10] = "FINALIZE"
  BY DEF BreakFirstKinds
<1>7. BreakFirstKinds \in Seq(StepKind)
  BY <1>3 DEF BreakFirstKinds
<1>8. IsInjective(BreakFirstKinds)
  BY <1>2, <1>6 DEF IsInjective
<1>9. Range(BreakFirstKinds) = StepKind
  <2>1. \A i \in 1 .. 10 : BreakFirstKinds[i] \in StepKind
    BY <1>2, <1>3, <1>6
  <2>2. \A k \in StepKind : \E i \in 1 .. 10 : BreakFirstKinds[i] = k
    BY <1>3, <1>6
  <2> QED
    BY <1>6, <2>1, <2>2 DEF Range
<1> QED
  BY <1>3, <1>4, <1>5, <1>7, <1>8, <1>9 DEF StepKind

\* The kinds of a plan.
LEMMA Presence ==
  ASSUME NEW source, NEW target, NEW policy
  PROVE  LET present == PresentKinds(source, target, policy)
         IN /\ present \subseteq StepKind
            /\ {"VALIDATE_TARGET", "PREPARE_NEW_STATE", "INSTALL_NEW_ROUTE",
                "WITHDRAW_OLD_ROUTE", "FINALIZE"} \subseteq present
            /\ "ACTIVATE_NEW_PATH" \in present <=> source.path # target.path
            /\ "DEACTIVATE_OLD_PATH" \in present <=> source.path # target.path
            /\ "INSTALL_NEW_GROUP" \in present
                 <=> target.group # NoGroup /\ target.group # source.group
            /\ "VERIFY_NEW_STATE" \in present <=> "VERIFY_REMOVAL" \in present
BY KindSet DEF PresentKinds

\* A graph with one step of each of its kinds, named by s, whose prerequisites
\* are among them.
KindsOf(g) == {g[p].kind : p \in DOMAIN g}

Named(g, s) ==
  /\ g \in Seq(Step)
  /\ \A p, q \in DOMAIN g : g[p].kind = g[q].kind => p = q
  /\ \A p \in DOMAIN g :
       /\ g[p].subject = s[g[p].kind]
       /\ \A key \in Prerequisites(g[p]) : key[1] \in KindsOf(g) /\ key = <<key[1], s[key[1]]>>

\* The kinds that a step of kind k waits for.
WaitsOf(g, k) ==
  {l \in StepKind : \E p \in DOMAIN g : g[p].kind = k /\ \E key \in Prerequisites(g[p]) : key[1] = l}

LEMMA WaitsAreKinds ==
  ASSUME NEW g, NEW s, Named(g, s), NEW p \in DOMAIN g
  PROVE  /\ \A q \in DOMAIN g : q \in Predecessors(g, p) <=> g[q].kind \in WaitsOf(g, g[p].kind)
         /\ WaitsOf(g, g[p].kind) \subseteq KindsOf(g)
         /\ \A l \in WaitsOf(g, g[p].kind) : <<l, s[l]>> \in Prerequisites(g[p])
<1>1. /\ \A q, r \in DOMAIN g : g[q].kind = g[r].kind => q = r
      /\ \A q \in DOMAIN g : g[q] \in Step /\ g[q].kind \in StepKind /\ g[q].subject = s[g[q].kind]
      /\ \A key \in Prerequisites(g[p]) : key[1] \in KindsOf(g) /\ key = <<key[1], s[key[1]]>>
  <2>1. g \in Seq(Step)
    BY DEF Named
  <2>2. \A q \in DOMAIN g : g[q] \in Step
    BY <2>1
  <2>3. \A q \in DOMAIN g : g[q].kind \in StepKind
    BY <2>2 DEF Step
  <2> QED
    BY <2>2, <2>3 DEF Named
<1>2. \A l \in WaitsOf(g, g[p].kind) : \E key \in Prerequisites(g[p]) : key[1] = l
  BY <1>1 DEF WaitsOf
<1>3. \A l \in WaitsOf(g, g[p].kind) : l \in KindsOf(g) /\ <<l, s[l]>> \in Prerequisites(g[p])
  BY <1>1, <1>2
<1>4. ASSUME NEW q \in DOMAIN g, q \in Predecessors(g, p)
      PROVE  g[q].kind \in WaitsOf(g, g[p].kind)
  <2>1. KeyOf(g[q]) \in Prerequisites(g[p]) /\ KeyOf(g[q])[1] = g[q].kind
    BY <1>4 DEF Predecessors, KeyOf, Key
  <2> QED
    BY <1>1, <2>1 DEF WaitsOf
<1>5. ASSUME NEW q \in DOMAIN g, g[q].kind \in WaitsOf(g, g[p].kind)
      PROVE  q \in Predecessors(g, p)
  BY <1>1, <1>3, <1>5 DEF Predecessors, KeyOf, Key
<1> QED
  BY <1>3, <1>4, <1>5

\* What a kind waits for is a kind of the plan.
LEMMA LastIsThere ==
  ASSUME NEW kinds, NEW present
  PROVE  LastOf(kinds, present) \subseteq present
BY DEF LastOf

\* What the generators declare of a step.
Declared(g) ==
  \A p \in DOMAIN g :
    /\ g[p].domains = {DomainOf(g[p].kind)}
    /\ g[p].mandatory = TRUE /\ g[p].irreversible = FALSE
    /\ IsInjective(g[p].deps)

\* The graph before serialisation.
Subjects(source, target) == [k \in StepKind |-> SubjectOf(k, source, target)]

LEMMA UnboundedIs ==
  ASSUME NEW source \in RouteBinding, NEW target \in RouteBinding, NEW policy
  PROVE  LET present == PresentKinds(source, target, policy)
             g == UnboundedSteps(source, target, policy)
         IN /\ Named(g, Subjects(source, target))
            /\ KindsOf(g) = present
            /\ \A k \in present : WaitsOf(g, k) = WaitKinds(k, policy, present)
            /\ Declared(g)
<1> DEFINE present == PresentKinds(source, target, policy)
           g == UnboundedSteps(source, target, policy)
           kinds == PlanKinds(policy, present)
           s == Subjects(source, target)
           key(kind) == Key(kind, SubjectOf(kind, source, target))
           keys(S) == LET sorted == Selected(Kinds, S)
                      IN [i \in DOMAIN sorted |-> key(sorted[i])]
           waits(k) == WaitKinds(k, policy, present)
<1>1. present \subseteq StepKind
  BY Presence
<1>2. kinds \in Seq(StepKind) /\ Range(kinds) = present /\ IsInjective(kinds)
  <2>1. CASE policy.ordering = "MAKE_BEFORE_BREAK"
    <3>1. kinds = Selected(Kinds, present)
      BY <2>1 DEF PlanKinds
    <3>2. /\ Selected(Kinds, present) \in Seq(StepKind)
          /\ Range(Selected(Kinds, present)) = Range(Kinds) \cap present
          /\ IsInjective(Selected(Kinds, present))
      BY KindSet, SelectedItems
    <3> QED
      BY <1>1, <3>1, <3>2, KindSet
  <2>2. CASE policy.ordering # "MAKE_BEFORE_BREAK"
    <3>1. kinds = Selected(BreakFirstKinds, present)
      BY <2>2 DEF PlanKinds
    <3>2. /\ Selected(BreakFirstKinds, present) \in Seq(StepKind)
          /\ Range(Selected(BreakFirstKinds, present)) = Range(BreakFirstKinds) \cap present
          /\ IsInjective(Selected(BreakFirstKinds, present))
      BY KindSet, SelectedItems
    <3> QED
      BY <1>1, <3>1, <3>2, KindSet
  <2> QED
    BY <2>1, <2>2
<1>3. \A k \in StepKind : SubjectOf(k, source, target) \in Nat
  BY KindSet DEF SubjectOf, RouteBinding, TargetSubject, PlanSubject, RouteSubject
<1>4. \A k \in StepKind : s[k] = SubjectOf(k, source, target) /\ s[k] \in Nat
  BY <1>3 DEF Subjects
<1>5. ASSUME NEW S, S \subseteq StepKind
      PROVE  /\ keys(S) \in Seq(StepKind \X Nat)
             /\ Range(keys(S)) = {<<k, s[k]>> : k \in S}
             /\ IsInjective(keys(S))
  <2> DEFINE o == Selected(Kinds, S)
  <2>1. o \in Seq(StepKind) /\ Range(o) = S /\ IsInjective(o)
    <3>1. o \in Seq(StepKind) /\ Range(o) = Range(Kinds) \cap S /\ IsInjective(o)
      BY KindSet, SelectedItems
    <3> QED
      BY <1>5, <3>1, KindSet
  <2>2. keys(S) = [i \in DOMAIN o |-> <<o[i], s[o[i]]>>]
    <3>1. \A i \in DOMAIN o : key(o[i]) = <<o[i], s[o[i]]>>
      BY <1>4, <2>1 DEF Key
    <3> QED
      BY <3>1
  <2> HIDE DEF o, s
  <2>3. DOMAIN o = 1 .. Len(o) /\ Len(o) \in Nat /\ \A i \in DOMAIN o : o[i] \in StepKind
    BY <2>1
  <2>4. keys(S) \in Seq(StepKind \X Nat)
    <3>1. \A i \in 1 .. Len(o) : <<o[i], s[o[i]]>> \in StepKind \X Nat
      BY <1>4, <2>3
    <3>2. keys(S) = [i \in 1 .. Len(o) |-> <<o[i], s[o[i]]>>]
      BY <2>2, <2>3
    <3> QED
      BY <2>3, <3>1, <3>2
  <2>5. Range(keys(S)) = {<<k, s[k]>> : k \in Range(o)}
    BY <2>2 DEF Range
  <2>6. IsInjective(keys(S))
    BY <2>1, <2>2 DEF IsInjective
  <2> QED
    BY <2>1, <2>4, <2>5, <2>6
<1>6. \A k : waits(k) \subseteq present
  BY DEF WaitKinds
<1>7. DOMAIN kinds = 1 .. Len(kinds) /\ Len(kinds) \in Nat
      /\ \A i \in DOMAIN kinds : kinds[i] \in present
  BY <1>2 DEF Range
<1>8. g = [i \in DOMAIN kinds |->
             [kind |-> kinds[i], subject |-> SubjectOf(kinds[i], source, target),
              deps |-> keys(waits(kinds[i])), domains |-> {DomainOf(kinds[i])},
              mandatory |-> TRUE, irreversible |-> FALSE]]
  BY DEF UnboundedSteps
<1> HIDE DEF g, kinds, s, keys, waits, present
<1>9. ASSUME NEW i \in DOMAIN kinds
      PROVE  /\ g[i].kind = kinds[i] /\ g[i].subject = s[kinds[i]]
             /\ g[i].deps = keys(waits(kinds[i]))
             /\ g[i] \in Step
  <2>1. /\ g[i].kind = kinds[i] /\ g[i].subject = SubjectOf(kinds[i], source, target)
        /\ g[i].deps = keys(waits(kinds[i])) /\ g[i].domains = {DomainOf(kinds[i])}
        /\ g[i] = [kind |-> kinds[i], subject |-> SubjectOf(kinds[i], source, target),
                   deps |-> keys(waits(kinds[i])), domains |-> {DomainOf(kinds[i])},
                   mandatory |-> TRUE, irreversible |-> FALSE]
    BY <1>8
  <2>2. kinds[i] \in StepKind /\ waits(kinds[i]) \subseteq StepKind
    BY <1>1, <1>6, <1>7
  <2>3. keys(waits(kinds[i])) \in Seq(StepKind \X Nat)
    BY <1>5, <2>2
  <2>4. {DomainOf(kinds[i])} \in SUBSET ConflictDomain
    <3> DEFINE k == kinds[i]
    <3> HIDE DEF k
    <3>1. ASSUME k \in ObservationKind \cup {"FINALIZE"}
          PROVE  DomainOf(k) = "TARGET_STATE"
      <4>1. ~(k = "INSTALL_NEW_GROUP") /\ ~(k \in {"INSTALL_NEW_ROUTE", "WITHDRAW_OLD_ROUTE"})
        BY <3>1 DEF ObservationKind
      <4> QED
        BY <3>1, <4>1 DEF DomainOf
    <3>2. ASSUME k \notin ObservationKind \cup {"FINALIZE"}
          PROVE  DomainOf(k) \in {"GROUP_STATE", "ROUTE_TABLE", "PATH_STATE"}
      BY <3>2 DEF DomainOf
    <3>3. DomainOf(k) \in ConflictDomain
      BY <3>1, <3>2 DEF ConflictDomain
    <3> QED
      BY <3>3 DEF k
  <2>5. g[i] \in Step
    BY <1>3, <2>1, <2>2, <2>3, <2>4 DEF Step
  <2> QED
    BY <1>4, <2>1, <2>2, <2>5
<1>10. DOMAIN g = DOMAIN kinds /\ g \in Seq(Step)
  <2>1. DOMAIN g = DOMAIN kinds
    BY <1>8
  <2>2. g = [i \in 1 .. Len(kinds) |-> g[i]]
    BY <1>7, <1>8
  <2>3. \A i \in 1 .. Len(kinds) : g[i] \in Step
    BY <1>7, <1>9
  <2> QED
    BY <1>7, <2>1, <2>2, <2>3
<1>11. KindsOf(g) = present
  <2>1. \A k \in present : \E i \in DOMAIN kinds : kinds[i] = k
    BY <1>2 DEF Range
  <2> QED
    BY <1>7, <1>9, <1>10, <2>1 DEF KindsOf
<1>12. ASSUME NEW i \in DOMAIN kinds
       PROVE  Prerequisites(g[i]) = {<<k, s[k]>> : k \in waits(kinds[i])}
  <2>1. waits(kinds[i]) \subseteq StepKind
    BY <1>1, <1>6
  <2> QED
    BY <1>5, <1>9, <2>1 DEF Prerequisites
<1>13. Named(g, s)
  <2>1. \A p, q \in DOMAIN g : g[p].kind = g[q].kind => p = q
    BY <1>2, <1>9, <1>10 DEF IsInjective
  <2>2. ASSUME NEW p \in DOMAIN g
        PROVE  /\ g[p].subject = s[g[p].kind]
               /\ \A k \in Prerequisites(g[p]) : k[1] \in KindsOf(g) /\ k = <<k[1], s[k[1]]>>
    <3>1. g[p].kind = kinds[p] /\ g[p].subject = s[kinds[p]]
      BY <1>9, <1>10
    <3>2. ASSUME NEW k \in Prerequisites(g[p])
          PROVE  k[1] \in KindsOf(g) /\ k = <<k[1], s[k[1]]>>
      <4>1. PICK l \in waits(kinds[p]) : k = <<l, s[l]>>
        BY <1>10, <1>12
      <4> QED
        BY <1>6, <1>11, <4>1
    <3> QED
      BY <3>1, <3>2
  <2> QED
    BY <1>10, <2>1, <2>2 DEF Named
<1>14. ASSUME NEW k \in present
       PROVE  WaitsOf(g, k) = waits(k)
  <2>1. PICK p \in DOMAIN g : g[p].kind = k
    BY <1>11 DEF KindsOf
  <2>2. kinds[p] = k /\ Prerequisites(g[p]) = {<<l, s[l]>> : l \in waits(k)}
    BY <1>9, <1>10, <1>12, <2>1
  <2>3. ASSUME NEW l \in WaitsOf(g, k)
        PROVE  l \in waits(k)
    <3>1. PICK q \in DOMAIN g : g[q].kind = k /\ \E d \in Prerequisites(g[q]) : d[1] = l
      BY DEF WaitsOf
    <3>2. q = p
      BY <1>13, <2>1, <3>1 DEF Named
    <3>3. PICK d \in Prerequisites(g[p]) : d[1] = l
      BY <3>1, <3>2
    <3> QED
      BY <2>2, <3>3
  <2>4. ASSUME NEW l \in waits(k)
        PROVE  l \in WaitsOf(g, k)
    <3>1. l \in StepKind /\ <<l, s[l]>> \in Prerequisites(g[p]) /\ <<l, s[l]>>[1] = l
      BY <1>1, <1>6, <2>2
    <3> QED
      BY <2>1, <3>1 DEF WaitsOf
  <2> QED
    BY <2>3, <2>4
<1>15. Declared(g)
  <2>1. ASSUME NEW p \in DOMAIN g
        PROVE  /\ g[p].domains = {DomainOf(g[p].kind)}
               /\ g[p].mandatory = TRUE /\ g[p].irreversible = FALSE
               /\ IsInjective(g[p].deps)
    <3>1. IsInjective(keys(waits(kinds[p])))
      BY <1>1, <1>5, <1>6
    <3>2. p \in DOMAIN kinds
      BY <1>10
    <3>3. g[p].deps = keys(waits(kinds[p]))
      BY <1>9, <3>2
    <3>4. /\ g[p].domains = {DomainOf(g[p].kind)}
          /\ g[p].mandatory = TRUE /\ g[p].irreversible = FALSE
      BY <1>8, <3>2
    <3> QED
      BY <3>1, <3>3, <3>4
  <2> QED
    BY <2>1 DEF Declared
<1> QED
  BY <1>11, <1>13, <1>14, <1>15 DEF g, s, present, waits

\* Prerequisites of a lower rank are no cycle.
LEMMA RankedHasOrder ==
  ASSUME NEW g, NEW s, Named(g, s), NEW r \in [StepKind -> Nat],
         \A k \in KindsOf(g) : \A l \in WaitsOf(g, k) : r[l] < r[k]
  PROVE  HasOrder(g)
<1>1. /\ g \in Seq(Step)
      /\ \A p, q \in DOMAIN g : g[p].kind = g[q].kind => p = q
      /\ \A p \in DOMAIN g : \A key \in Prerequisites(g[p]) :
           key[1] \in KindsOf(g) /\ key = <<key[1], s[key[1]]>>
      /\ \A p \in DOMAIN g : g[p].subject = s[g[p].kind]
  BY DEF Named
<1>2. \A p \in DOMAIN g : g[p].kind \in StepKind /\ g[p].kind \in KindsOf(g)
  <2>1. \A p \in DOMAIN g : g[p] \in Step
    BY <1>1
  <2> QED
    BY <2>1 DEF Step, KindsOf
<1>3. \A p \in DOMAIN g : KeyOf(g[p]) = <<g[p].kind, s[g[p].kind]>>
  BY <1>1 DEF KeyOf, Key
<1>4. ~Duplicated(g)
  BY <1>1, <1>3 DEF Duplicated
<1>5. ASSUME NEW p \in DOMAIN g, NEW key \in Prerequisites(g[p])
      PROVE  Positions(g, key) # {} /\ key # KeyOf(g[p])
  <2>1. PICK q \in DOMAIN g : g[q].kind = key[1]
    BY <1>1 DEF KindsOf
  <2>2. key = KeyOf(g[q])
    BY <1>1, <1>3, <2>1
  <2>3. q \in Predecessors(g, p)
    BY <2>2 DEF Predecessors
  <2>4. r[g[q].kind] < r[g[p].kind]
    BY <1>2, <2>3, WaitsAreKinds
  <2>5. p # q
    <3>1. r[g[p].kind] \in Nat
      BY <1>2
    <3> QED
      BY <2>4, <3>1
  <2>6. KeyOf(g[q]) # KeyOf(g[p])
    BY <1>4, <2>5 DEF Duplicated
  <2> QED
    BY <2>2, <2>6 DEF Positions
<1>6. Linked(g)
  BY <1>4, <1>5 DEF Linked
<1>7. ASSUME NEW S \in SUBSET DOMAIN g, S # {}
      PROVE  \E p \in S : Predecessors(g, p) \cap S = {}
  <2> DEFINE ranks == {r[g[p].kind] : p \in S}
  <2>1. ranks \in SUBSET Nat /\ ranks # {}
    BY <1>2, <1>7
  <2>2. PICK m \in ranks : \A n \in ranks : m <= n
    BY <2>1, LeastNatural
  <2>3. PICK p \in S : r[g[p].kind] = m
    BY <2>2
  <2>4. ASSUME NEW q \in Predecessors(g, p), q \in S
        PROVE  FALSE
    <3>1. q \in DOMAIN g /\ p \in DOMAIN g
      BY <2>4
    <3>2. r[g[q].kind] < r[g[p].kind]
      BY <1>2, <3>1, WaitsAreKinds
    <3>3. r[g[q].kind] \in ranks /\ r[g[q].kind] \in Nat /\ m \in Nat
      BY <1>2, <2>1, <2>4, <3>1
    <3>4. m <= r[g[q].kind] /\ r[g[q].kind] < m
      BY <2>2, <2>3, <3>2, <3>3
    <3> HIDE DEF ranks
    <3> QED
      BY <3>3, <3>4
  <2> QED
    BY <2>4
<1>8. Acyclic(g)
  BY <1>7 DEF Acyclic
<1> QED
  BY <1>1, <1>6, <1>8, OrderedIsAcyclic

\* Serialisation adds prerequisites, and nothing else.
LEMMA SerialisedIs ==
  ASSUME NEW g, NEW s, Named(g, s), HasOrder(g), NEW bound
  PROVE  LET h == Serialised(g, bound)
         IN /\ Named(h, s)
            /\ KindsOf(h) = KindsOf(g)
            /\ \A k : WaitsOf(g, k) \subseteq WaitsOf(h, k)
<1> DEFINE h == Serialised(g, bound)
           o == SortedSteps(g)
           place(p) == CHOOSE i \in DOMAIN o : o[i] = p
           before(p) == KeyOf(g[o[place(p) - 1]])
<1>1. /\ g \in Seq(Step)
      /\ \A p, q \in DOMAIN g : g[p].kind = g[q].kind => p = q
      /\ \A p \in DOMAIN g : \A key \in Prerequisites(g[p]) :
           key[1] \in KindsOf(g) /\ key = <<key[1], s[key[1]]>>
      /\ \A p \in DOMAIN g : g[p].subject = s[g[p].kind]
  BY DEF Named
<1>2. CASE h = g
  BY <1>2
<1>3. CASE h # g
  <2>1. h = [p \in DOMAIN g |->
               IF p = o[1] \/ before(p) \in Prerequisites(g[p]) THEN g[p]
               ELSE [g[p] EXCEPT !.deps = Append(@, before(p))]]
    BY <1>3 DEF Serialised
  <2>2. o \in Seq(DOMAIN g) /\ Range(o) = DOMAIN g
    BY <1>1, SortedEnds DEF HasOrder
  <2> HIDE DEF h, o
  <2>3. ASSUME NEW p \in DOMAIN g, p # o[1]
        PROVE  \E q \in DOMAIN g : before(p) = KeyOf(g[q])
    <3>1. \E i \in DOMAIN o : o[i] = p
      BY <2>2 DEF Range
    <3>2. place(p) \in DOMAIN o /\ o[place(p)] = p
      BY <3>1
    <3> HIDE DEF place
    <3>3. DOMAIN o = 1 .. Len(o) /\ Len(o) \in Nat
      BY <2>2
    <3>4. place(p) # 1
      BY <2>3, <3>2
    <3>5. place(p) - 1 \in DOMAIN o
      BY <3>2, <3>3, <3>4
    <3> QED
      BY <2>2, <3>5
  <2> HIDE DEF before
  <2>4. ASSUME NEW p \in DOMAIN g
        PROVE  /\ h[p] \in Step /\ h[p].kind = g[p].kind /\ h[p].subject = g[p].subject
               /\ Prerequisites(g[p]) \subseteq Prerequisites(h[p])
               /\ \A key \in Prerequisites(h[p]) \ Prerequisites(g[p]) :
                    \E q \in DOMAIN g : key = KeyOf(g[q])
    <3>1. CASE p = o[1] \/ before(p) \in Prerequisites(g[p])
      <4>1. h[p] = g[p] /\ g[p] \in Step
        BY <1>1, <2>1, <3>1
      <4> QED
        BY <4>1
    <3>2. CASE ~(p = o[1] \/ before(p) \in Prerequisites(g[p]))
      <4> DEFINE d == g[p].deps
      <4>1. h[p] = [g[p] EXCEPT !.deps = Append(d, before(p))] /\ g[p] \in Step
        BY <1>1, <2>1, <3>2
      <4>2. PICK q \in DOMAIN g : before(p) = KeyOf(g[q])
        BY <2>3, <3>2
      <4>3. KeyOf(g[q]) \in StepKind \X Nat
        <5>1. g[q] \in Step
          BY <1>1
        <5> QED
          BY <5>1 DEF Step, KeyOf, Key
      <4>4. d \in Seq(StepKind \X Nat)
        BY <4>1 DEF Step
      <4>5. /\ h[p].kind = g[p].kind /\ h[p].subject = g[p].subject
            /\ h[p].deps = Append(d, before(p))
        BY <4>1 DEF Step
      <4>6. /\ Append(d, before(p)) \in Seq(StepKind \X Nat)
            /\ Range(Append(d, before(p))) = Range(d) \cup {before(p)}
        BY <4>2, <4>3, <4>4, OrderGrows
      <4>7. h[p] \in Step
        <5> HIDE DEF d
        <5> DEFINE e == Append(d, before(p))
        <5>1. e \in Seq(StepKind \X Nat)
          BY <4>6
        <5>2. h[p] = [g[p] EXCEPT !.deps = e]
          BY <4>1
        <5> HIDE DEF e
        <5> QED
          BY <4>1, <5>1, <5>2 DEF Step
      <4>8. Prerequisites(h[p]) = Prerequisites(g[p]) \cup {before(p)}
        BY <4>5, <4>6 DEF Prerequisites
      <4> QED
        BY <4>2, <4>5, <4>7, <4>8
    <3> QED
      BY <3>1, <3>2
  <2>5. DOMAIN h = DOMAIN g /\ h \in Seq(Step)
    <3>1. DOMAIN h = DOMAIN g /\ h = [p \in 1 .. Len(g) |-> h[p]] /\ Len(g) \in Nat
          /\ DOMAIN g = 1 .. Len(g)
      BY <1>1, <2>1
    <3> QED
      BY <2>4, <3>1
  <2>6. KindsOf(h) = KindsOf(g)
    BY <2>4, <2>5 DEF KindsOf
  <2>7. ASSUME NEW p \in DOMAIN g, NEW key \in Prerequisites(h[p])
        PROVE  key[1] \in KindsOf(h) /\ key = <<key[1], s[key[1]]>>
    <3>1. CASE key \in Prerequisites(g[p])
      BY <1>1, <2>6, <3>1
    <3>2. CASE key \notin Prerequisites(g[p])
      <4>1. PICK q \in DOMAIN g : key = KeyOf(g[q])
        BY <2>4, <3>2
      <4>2. key = <<g[q].kind, s[g[q].kind]>> /\ g[q].kind \in KindsOf(g)
        BY <1>1, <4>1 DEF KeyOf, Key, KindsOf
      <4> QED
        BY <2>6, <4>2
    <3> QED
      BY <3>1, <3>2
  <2>8. Named(h, s)
    BY <1>1, <2>4, <2>5, <2>7 DEF Named
  <2>9. \A k : WaitsOf(g, k) \subseteq WaitsOf(h, k)
    BY <2>4, <2>5 DEF WaitsOf
  <2> QED
    BY <2>6, <2>8, <2>9 DEF h
<1> QED
  BY <1>2, <1>3

\* The place of a step in the canonical order.
Place(g, p) == CHOOSE i \in DOMAIN SortedSteps(g) : SortedSteps(g)[i] = p

\* Each step has one, and no step waits for a later one.
LEMMA Places ==
  ASSUME NEW g \in Seq(Step), HasOrder(g)
  PROVE  LET o == SortedSteps(g)
         IN /\ Len(o) = Len(g) /\ Len(g) \in Nat /\ DOMAIN g = 1 .. Len(g)
            /\ DOMAIN o = DOMAIN g
            /\ \A p \in DOMAIN g : Place(g, p) \in 1 .. Len(g) /\ o[Place(g, p)] = p
            /\ \A i \in 1 .. Len(g) : o[i] \in DOMAIN g /\ Place(g, o[i]) = i
            /\ \A p, q \in DOMAIN g : q \in Predecessors(g, p) => Place(g, q) < Place(g, p)
<1> DEFINE o == SortedSteps(g)
<1>1. /\ o \in Seq(DOMAIN g) /\ Executable(g, o) /\ Range(o) = DOMAIN g /\ Len(o) = Len(g)
  BY SortedEnds DEF HasOrder
<1>2. \A p : Place(g, p) = CHOOSE i \in DOMAIN o : o[i] = p
  BY DEF Place
<1> HIDE DEF o
<1>3. /\ DOMAIN o = 1 .. Len(g) /\ Len(g) \in Nat /\ DOMAIN g = 1 .. Len(g)
      /\ \A i \in 1 .. Len(g) : o[i] \in DOMAIN g
  BY <1>1
<1>4. \A i, j \in DOMAIN o : o[i] = o[j] => i = j
  BY <1>1 DEF Executable
<1>5. \A p \in DOMAIN g : Place(g, p) \in DOMAIN o /\ o[Place(g, p)] = p
  <2>1. \A p \in DOMAIN g : \E i \in DOMAIN o : o[i] = p
    BY <1>1 DEF Range
  <2> QED
    BY <1>2, <2>1
<1>6. \A i \in 1 .. Len(g) : Place(g, o[i]) = i
  BY <1>3, <1>4, <1>5
<1>7. ASSUME NEW p \in DOMAIN g, NEW q \in DOMAIN g, q \in Predecessors(g, p)
      PROVE  Place(g, q) < Place(g, p)
  <2> DEFINE i == Place(g, p)
  <2>1. i \in 1 .. Len(g) /\ o[i] = p
    BY <1>3, <1>5
  <2> HIDE DEF i
  <2>2. PICK j \in 1 .. i - 1 : o[j] = q
    BY <1>1, <1>3, <1>7, <2>1 DEF Executable
  <2>3. j \in 1 .. Len(g) /\ j < i
    BY <1>3, <2>1, <2>2
  <2>4. Place(g, q) = j
    BY <1>6, <2>2, <2>3
  <2> QED
    BY <2>3, <2>4 DEF i
<1> QED
  BY <1>1, <1>3, <1>5, <1>6, <1>7 DEF o

\* serialise_to_bound, step by step: if a layer is too wide, a step waits for
\* the one before it as well, and else for nothing more.
TooWide(g, bound) == \E layer \in Layers(g) : ~(Cardinality(layer) <= bound)

LEMMA SerialisedSteps ==
  ASSUME NEW g, NEW s, Named(g, s), HasOrder(g), NEW bound
  PROVE  LET h == Serialised(g, bound)
         IN /\ DOMAIN h = DOMAIN g
            /\ ~TooWide(g, bound) => h = g
            /\ \A p \in DOMAIN g :
                 /\ h[p].kind = g[p].kind /\ h[p].subject = g[p].subject
                 /\ h[p].domains = g[p].domains /\ h[p].mandatory = g[p].mandatory
                 /\ h[p].irreversible = g[p].irreversible
                 /\ IsInjective(g[p].deps) => IsInjective(h[p].deps)
            /\ \A p, q \in DOMAIN g :
                 q \in Predecessors(h, p) <=>
                   \/ q \in Predecessors(g, p)
                   \/ TooWide(g, bound) /\ Place(g, q) + 1 = Place(g, p)
<1> DEFINE h == Serialised(g, bound)
           o == SortedSteps(g)
           before(p) == KeyOf(g[o[(CHOOSE i \in DOMAIN o : o[i] = p) - 1]])
<1>1. /\ g \in Seq(Step)
      /\ \A p, q \in DOMAIN g : g[p].kind = g[q].kind => p = q
      /\ \A p \in DOMAIN g : g[p] \in Step
  BY DEF Named
<1>2. CASE ~TooWide(g, bound)
  <2>1. h = g
    BY <1>2 DEF Serialised, TooWide
  <2> QED
    BY <1>2, <2>1
<1>3. CASE TooWide(g, bound)
  <2>1. h = [p \in DOMAIN g |->
               IF p = o[1] \/ before(p) \in Prerequisites(g[p]) THEN g[p]
               ELSE [g[p] EXCEPT !.deps = Append(@, before(p))]]
    BY <1>3 DEF Serialised, TooWide
  <2>2. \A p : before(p) = KeyOf(g[o[Place(g, p) - 1]])
    BY DEF Place
  <2>3. /\ Len(g) \in Nat /\ DOMAIN g = 1 .. Len(g)
        /\ \A p \in DOMAIN g : Place(g, p) \in 1 .. Len(g) /\ o[Place(g, p)] = p
        /\ \A i \in 1 .. Len(g) : o[i] \in DOMAIN g /\ Place(g, o[i]) = i
    BY <1>1, Places
  <2> HIDE DEF h, o, before
  <2>4. ASSUME NEW p \in DOMAIN g, p # o[1]
        PROVE  LET q == o[Place(g, p) - 1]
               IN q \in DOMAIN g /\ before(p) = KeyOf(g[q]) /\ Place(g, q) + 1 = Place(g, p)
    <3> DEFINE i == Place(g, p)
    <3>1. i \in 1 .. Len(g) /\ o[i] = p
      BY <2>3
    <3> HIDE DEF i
    <3>2. i - 1 \in 1 .. Len(g)
      BY <2>3, <2>4, <3>1
    <3>3. o[i - 1] \in DOMAIN g /\ Place(g, o[i - 1]) = i - 1
      BY <2>3, <3>2
    <3>4. before(p) = KeyOf(g[o[i - 1]])
      BY <2>2 DEF i
    <3> QED
      BY <2>3, <3>1, <3>3, <3>4 DEF i
  <2>5. \A p, q \in DOMAIN g : KeyOf(g[p]) = KeyOf(g[q]) => p = q
    BY <1>1 DEF KeyOf, Key
  <2>6. \A p, q \in DOMAIN g : Place(g, p) = Place(g, q) => p = q
    BY <2>3
  <2>7. ASSUME NEW p \in DOMAIN g
        PROVE  /\ h[p].kind = g[p].kind /\ h[p].subject = g[p].subject
               /\ h[p].domains = g[p].domains /\ h[p].mandatory = g[p].mandatory
               /\ h[p].irreversible = g[p].irreversible
               /\ IsInjective(g[p].deps) => IsInjective(h[p].deps)
               /\ p = o[1] => Prerequisites(h[p]) = Prerequisites(g[p])
               /\ p # o[1] => Prerequisites(h[p]) = Prerequisites(g[p]) \cup {before(p)}
    <3>1. CASE p = o[1] \/ before(p) \in Prerequisites(g[p])
      <4>1. h[p] = g[p]
        BY <2>1, <3>1
      <4> QED
        BY <3>1, <4>1
    <3>2. CASE ~(p = o[1] \/ before(p) \in Prerequisites(g[p]))
      <4> DEFINE d == g[p].deps
                 e == Append(d, before(p))
      <4>1. h[p] = [g[p] EXCEPT !.deps = e] /\ g[p] \in Step
        BY <1>1, <2>1, <3>2
      <4>2. PICK q \in DOMAIN g : before(p) = KeyOf(g[q])
        BY <2>4, <3>2
      <4>3. before(p) \in StepKind \X Nat
        <5>1. g[q] \in Step
          BY <1>1
        <5> QED
          BY <4>2, <5>1 DEF Step, KeyOf, Key
      <4>4. d \in Seq(StepKind \X Nat)
        BY <4>1 DEF Step
      <4>5. /\ Range(e) = Range(d) \cup {before(p)} /\ e \in Seq(StepKind \X Nat)
            /\ DOMAIN e = 1 .. Len(d) + 1 /\ DOMAIN d = 1 .. Len(d) /\ Len(d) \in Nat
            /\ \A i \in 1 .. Len(d) : e[i] = d[i]
            /\ e[Len(d) + 1] = before(p)
        BY <4>3, <4>4, OrderGrows
      <4>6. \A i \in 1 .. Len(d) : d[i] # before(p)
        BY <3>2, <4>5 DEF Prerequisites, Range
      <4>7. /\ h[p].kind = g[p].kind /\ h[p].subject = g[p].subject
            /\ h[p].domains = g[p].domains /\ h[p].mandatory = g[p].mandatory
            /\ h[p].irreversible = g[p].irreversible /\ h[p].deps = e
        <5> HIDE DEF e
        <5> QED
          BY <4>1 DEF Step
      <4> HIDE DEF d, e
      <4>8. IsInjective(d) => IsInjective(e)
        <5> SUFFICES ASSUME IsInjective(d), NEW i \in 1 .. Len(d) + 1, NEW j \in 1 .. Len(d) + 1,
                            e[i] = e[j]
                     PROVE  i = j
          BY <4>5 DEF IsInjective
        <5>1. \A k, l \in 1 .. Len(d) : d[k] = d[l] => k = l
          BY <4>5 DEF IsInjective
        <5>2. /\ i \in 1 .. Len(d) \/ i = Len(d) + 1
              /\ j \in 1 .. Len(d) \/ j = Len(d) + 1
          BY <4>5
        <5>3. /\ \A k \in 1 .. Len(d) : e[k] = d[k] /\ e[k] # before(p)
              /\ e[Len(d) + 1] = before(p)
          BY <4>5, <4>6
        <5> QED
          BY <5>1, <5>2, <5>3
      <4>9. Prerequisites(h[p]) = Prerequisites(g[p]) \cup {before(p)}
        BY <4>5, <4>7 DEF Prerequisites, d
      <4> QED
        BY <3>2, <4>7, <4>8, <4>9 DEF d
    <3> QED
      BY <3>1, <3>2
  <2>8. DOMAIN h = DOMAIN g
    BY <2>1
  <2>9. ASSUME NEW p \in DOMAIN g, NEW q \in DOMAIN g
        PROVE  q \in Predecessors(h, p) <=>
                 q \in Predecessors(g, p) \/ Place(g, q) + 1 = Place(g, p)
    <3>1. KeyOf(h[q]) = KeyOf(g[q])
      BY <2>7 DEF KeyOf, Key
    <3>2. CASE p = o[1]
      <4>1. Place(g, p) = 1 /\ Place(g, q) \in 1 .. Len(g)
        BY <2>3, <3>2
      <4> QED
        BY <2>7, <2>8, <3>1, <3>2, <4>1 DEF Predecessors
    <3>3. CASE p # o[1]
      <4> DEFINE r == o[Place(g, p) - 1]
      <4>1. r \in DOMAIN g /\ before(p) = KeyOf(g[r]) /\ Place(g, r) + 1 = Place(g, p)
        BY <2>4, <3>3
      <4> HIDE DEF r
      <4>2. KeyOf(g[q]) = before(p) <=> q = r
        BY <2>5, <4>1
      <4>3. Place(g, q) + 1 = Place(g, p) <=> q = r
        BY <2>3, <2>6, <4>1
      <4>4. q \in Predecessors(h, p) <=> KeyOf(g[q]) \in Prerequisites(g[p]) \cup {before(p)}
        BY <2>7, <2>8, <3>1, <3>3 DEF Predecessors
      <4> QED
        BY <4>2, <4>3, <4>4 DEF Predecessors
    <3> QED
      BY <3>2, <3>3
  <2> QED
    BY <1>3, <2>7, <2>8, <2>9 DEF h
<1> QED
  BY <1>2, <1>3

\* so it has an order, too.
LEMMA SerialisedHasOrder ==
  ASSUME NEW g, NEW s, Named(g, s), HasOrder(g), NEW bound
  PROVE  HasOrder(Serialised(g, bound))
<1> DEFINE h == Serialised(g, bound)
           step(k) == CHOOSE p \in DOMAIN g : g[p].kind = k
           r == [k \in StepKind |-> IF k \in KindsOf(g) THEN Place(g, step(k)) ELSE 0]
<1>1. Named(h, s) /\ KindsOf(h) = KindsOf(g)
  BY SerialisedIs
<1>2. /\ DOMAIN h = DOMAIN g
      /\ \A p \in DOMAIN g : h[p].kind = g[p].kind
      /\ \A p, q \in DOMAIN g :
           q \in Predecessors(h, p) <=>
             \/ q \in Predecessors(g, p)
             \/ TooWide(g, bound) /\ Place(g, q) + 1 = Place(g, p)
  BY SerialisedSteps
<1>3. /\ g \in Seq(Step) /\ \A p, q \in DOMAIN g : g[p].kind = g[q].kind => p = q
  BY DEF Named
<1>4. /\ Len(g) \in Nat
      /\ \A p \in DOMAIN g : Place(g, p) \in 1 .. Len(g)
      /\ \A p, q \in DOMAIN g : q \in Predecessors(g, p) => Place(g, q) < Place(g, p)
  BY <1>3, Places
<1>5. \A p \in DOMAIN g : g[p].kind \in StepKind
  <2>1. \A p \in DOMAIN g : g[p] \in Step
    BY <1>3
  <2> QED
    BY <2>1 DEF Step
<1> HIDE DEF h
<1>6. \A p \in DOMAIN g : step(g[p].kind) = p
  BY <1>3
<1>7. \A k \in KindsOf(g) : step(k) \in DOMAIN g /\ g[step(k)].kind = k
  BY DEF KindsOf
<1> HIDE DEF step
<1>8. r \in [StepKind -> Nat]
  BY <1>4, <1>7
<1>9. \A p \in DOMAIN g : r[g[p].kind] = Place(g, p)
  BY <1>5, <1>6 DEF KindsOf
<1> HIDE DEF r
<1>10. ASSUME NEW k \in KindsOf(h), NEW l \in WaitsOf(h, k)
       PROVE  r[l] < r[k]
  <2>1. PICK p \in DOMAIN h : h[p].kind = k
    BY DEF KindsOf
  <2>2. l \in KindsOf(h)
    BY <1>1, <2>1, WaitsAreKinds
  <2>3. PICK q \in DOMAIN h : h[q].kind = l
    BY <2>2 DEF KindsOf
  <2>4. q \in Predecessors(h, p)
    BY <1>1, <2>1, <2>3, WaitsAreKinds
  <2>5. Place(g, q) < Place(g, p)
    <3>1. Place(g, q) \in Nat /\ Place(g, p) \in Nat
      BY <1>2, <1>4
    <3>2. q \in Predecessors(g, p) \/ Place(g, q) + 1 = Place(g, p)
      BY <1>2, <2>4
    <3> QED
      BY <1>2, <1>4, <3>1, <3>2
  <2> QED
    BY <1>2, <1>9, <2>1, <2>3, <2>5
<1>11. HasOrder(h)
  BY <1>1, <1>8, <1>10, RankedHasOrder
<1> QED
  BY <1>11 DEF h

\* The last of two or three kinds.
LEMMA LastOfTwo ==
  ASSUME NEW a, NEW b, NEW S
  PROVE  /\ b \in S => b \in LastOf(<<a, b>>, S)
         /\ b \notin S /\ a \in S => a \in LastOf(<<a, b>>, S)
         /\ LastOf(<<a, b>>, S) \subseteq {a, b}
<1> DEFINE t == <<a, b>>
<1>1. DOMAIN t = 1 .. 2 /\ t[1] = a /\ t[2] = b
  OBVIOUS
<1>2. \A i \in 1 .. 2 : i = 1 \/ i = 2
  OBVIOUS
<1> HIDE DEF t
<1>3. \A l : l \in LastOf(t, S)
               <=> \E j \in 1 .. 2 : /\ l = t[j] /\ t[j] \in S
                                     /\ \A m \in 1 .. 2 : t[m] \in S => m <= j
  BY <1>1 DEF LastOf
<1>4. b \in S => b \in LastOf(t, S)
  <2>1. \A m \in 1 .. 2 : m <= 2
    OBVIOUS
  <2> QED
    BY <1>1, <1>3, <2>1
<1>5. b \notin S /\ a \in S => a \in LastOf(t, S)
  <2>1. b \notin S => \A m \in 1 .. 2 : t[m] \in S => m <= 1
    BY <1>1, <1>2
  <2> QED
    BY <1>1, <1>3, <2>1
<1>6. LastOf(t, S) \subseteq {a, b}
  BY <1>1, <1>2, <1>3
<1> QED
  BY <1>4, <1>5, <1>6 DEF t

LEMMA LastOfThree ==
  ASSUME NEW a, NEW b, NEW c, NEW S
  PROVE  /\ c \in S => c \in LastOf(<<a, b, c>>, S)
         /\ c \notin S /\ b \in S => b \in LastOf(<<a, b, c>>, S)
         /\ c \notin S /\ b \notin S /\ a \in S => a \in LastOf(<<a, b, c>>, S)
         /\ LastOf(<<a, b, c>>, S) \subseteq {a, b, c}
<1> DEFINE t == <<a, b, c>>
<1>1. DOMAIN t = 1 .. 3 /\ t[1] = a /\ t[2] = b /\ t[3] = c
  OBVIOUS
<1>2. \A i \in 1 .. 3 : i = 1 \/ i = 2 \/ i = 3
  OBVIOUS
<1> HIDE DEF t
<1>3. \A l : l \in LastOf(t, S)
               <=> \E j \in 1 .. 3 : /\ l = t[j] /\ t[j] \in S
                                     /\ \A m \in 1 .. 3 : t[m] \in S => m <= j
  BY <1>1 DEF LastOf
<1>4. c \in S => c \in LastOf(t, S)
  <2>1. \A m \in 1 .. 3 : m <= 3
    OBVIOUS
  <2> QED
    BY <1>1, <1>3, <2>1
<1>5. c \notin S /\ b \in S => b \in LastOf(t, S)
  <2>1. c \notin S => \A m \in 1 .. 3 : t[m] \in S => m <= 2
    BY <1>1, <1>2
  <2> QED
    BY <1>1, <1>3, <2>1
<1>6. c \notin S /\ b \notin S /\ a \in S => a \in LastOf(t, S)
  <2>1. c \notin S /\ b \notin S => \A m \in 1 .. 3 : t[m] \in S => m <= 1
    BY <1>1, <1>2
  <2> QED
    BY <1>1, <1>3, <2>1
<1>7. LastOf(t, S) \subseteq {a, b, c}
  BY <1>1, <1>2, <1>3
<1> QED
  BY <1>4, <1>5, <1>6, <1>7 DEF t

\* The generators declare only what is generated before.
MakeRank ==
  [k \in StepKind |->
     IF k = "VALIDATE_TARGET" THEN 0
     ELSE IF k \in {"PREPARE_NEW_STATE", "INSTALL_NEW_GROUP"} THEN 1
     ELSE IF k = "INSTALL_NEW_ROUTE" THEN 2
     ELSE IF k = "ACTIVATE_NEW_PATH" THEN 3
     ELSE IF k = "VERIFY_NEW_STATE" THEN 4
     ELSE IF k = "DEACTIVATE_OLD_PATH" THEN 5
     ELSE IF k = "WITHDRAW_OLD_ROUTE" THEN 6
     ELSE IF k = "VERIFY_REMOVAL" THEN 7 ELSE 8]

BreakRank ==
  [k \in StepKind |->
     IF k = "VALIDATE_TARGET" THEN 0
     ELSE IF k = "DEACTIVATE_OLD_PATH" THEN 1
     ELSE IF k = "WITHDRAW_OLD_ROUTE" THEN 2
     ELSE IF k = "VERIFY_REMOVAL" THEN 3
     ELSE IF k \in {"PREPARE_NEW_STATE", "INSTALL_NEW_GROUP"} THEN 4
     ELSE IF k = "INSTALL_NEW_ROUTE" THEN 5
     ELSE IF k = "ACTIVATE_NEW_PATH" THEN 6
     ELSE IF k = "VERIFY_NEW_STATE" THEN 7 ELSE 8]

LEMMA MakesDescend ==
  ASSUME NEW present \in SUBSET StepKind, NEW k \in StepKind,
         NEW l \in present \cap MakeBeforeBreak(k, present)
  PROVE  MakeRank[l] < MakeRank[k]
<1>1. LastOf(<<"INSTALL_NEW_ROUTE", "ACTIVATE_NEW_PATH">>, present)
        \subseteq {"INSTALL_NEW_ROUTE", "ACTIVATE_NEW_PATH"}
  BY LastOfTwo
<1>2. LastOf(<<"INSTALL_NEW_ROUTE", "ACTIVATE_NEW_PATH", "VERIFY_NEW_STATE">>, present)
        \subseteq {"INSTALL_NEW_ROUTE", "ACTIVATE_NEW_PATH", "VERIFY_NEW_STATE"}
  BY LastOfThree
<1>3. LastOf(<<"INSTALL_NEW_ROUTE", "VERIFY_NEW_STATE", "DEACTIVATE_OLD_PATH">>, present)
        \subseteq {"INSTALL_NEW_ROUTE", "VERIFY_NEW_STATE", "DEACTIVATE_OLD_PATH"}
  BY LastOfThree
<1>4. l \in StepKind /\ l \in MakeBeforeBreak(k, present)
  OBVIOUS
<1>5. \A m \in StepKind : MakeRank[m] =
     IF m = "VALIDATE_TARGET" THEN 0
     ELSE IF m \in {"PREPARE_NEW_STATE", "INSTALL_NEW_GROUP"} THEN 1
     ELSE IF m = "INSTALL_NEW_ROUTE" THEN 2
     ELSE IF m = "ACTIVATE_NEW_PATH" THEN 3
     ELSE IF m = "VERIFY_NEW_STATE" THEN 4
     ELSE IF m = "DEACTIVATE_OLD_PATH" THEN 5
     ELSE IF m = "WITHDRAW_OLD_ROUTE" THEN 6
     ELSE IF m = "VERIFY_REMOVAL" THEN 7 ELSE 8
  BY DEF MakeRank
<1>6. CASE k = "VALIDATE_TARGET"
  BY <1>4, <1>6 DEF MakeBeforeBreak
<1>7. CASE k \in {"PREPARE_NEW_STATE", "INSTALL_NEW_GROUP"}
  <2>1. l = "VALIDATE_TARGET"
    BY <1>4, <1>7 DEF MakeBeforeBreak
  <2> QED
    BY <1>4, <1>5, <1>7, <2>1
<1>8. CASE k = "INSTALL_NEW_ROUTE"
  <2>1. l \in {"PREPARE_NEW_STATE", "INSTALL_NEW_GROUP"}
    BY <1>4, <1>8 DEF MakeBeforeBreak
  <2> QED
    BY <1>4, <1>5, <1>8, <2>1
<1>9. CASE k = "ACTIVATE_NEW_PATH"
  <2>1. l = "INSTALL_NEW_ROUTE"
    BY <1>4, <1>9 DEF MakeBeforeBreak
  <2> QED
    BY <1>4, <1>5, <1>9, <2>1
<1>10. CASE k = "VERIFY_NEW_STATE"
  <2>1. l \in {"INSTALL_NEW_ROUTE", "ACTIVATE_NEW_PATH"}
    BY <1>1, <1>4, <1>10 DEF MakeBeforeBreak
  <2> QED
    BY <1>4, <1>5, <1>10, <2>1
<1>11. CASE k = "DEACTIVATE_OLD_PATH"
  <2>1. l \in {"INSTALL_NEW_ROUTE", "ACTIVATE_NEW_PATH", "VERIFY_NEW_STATE"}
    BY <1>2, <1>4, <1>11 DEF MakeBeforeBreak
  <2> QED
    BY <1>4, <1>5, <1>11, <2>1
<1>12. CASE k = "WITHDRAW_OLD_ROUTE"
  <2>1. l \in {"INSTALL_NEW_ROUTE", "VERIFY_NEW_STATE", "DEACTIVATE_OLD_PATH"}
    BY <1>3, <1>4, <1>12 DEF MakeBeforeBreak
  <2> QED
    BY <1>4, <1>5, <1>12, <2>1
<1>13. CASE k = "VERIFY_REMOVAL"
  <2>1. l = "WITHDRAW_OLD_ROUTE"
    BY <1>4, <1>13 DEF MakeBeforeBreak
  <2> QED
    BY <1>4, <1>5, <1>13, <2>1
<1>14. CASE k = "FINALIZE"
  <2>1. l # "FINALIZE"
    BY <1>4, <1>14 DEF MakeBeforeBreak
  <2> QED
    BY <1>4, <1>5, <1>14, <2>1, KindSet
<1> QED
  BY <1>6, <1>7, <1>8, <1>9, <1>10, <1>11, <1>12, <1>13, <1>14, KindSet

LEMMA BreaksDescend ==
  ASSUME NEW present \in SUBSET StepKind, NEW k \in StepKind,
         NEW l \in present \cap BreakBeforeMake(k, present)
  PROVE  BreakRank[l] < BreakRank[k]
<1>1. LastOf(<<"INSTALL_NEW_ROUTE", "ACTIVATE_NEW_PATH">>, present)
        \subseteq {"INSTALL_NEW_ROUTE", "ACTIVATE_NEW_PATH"}
  BY LastOfTwo
<1>2. LastOf(<<"WITHDRAW_OLD_ROUTE", "VERIFY_REMOVAL">>, present)
        \subseteq {"WITHDRAW_OLD_ROUTE", "VERIFY_REMOVAL"}
  BY LastOfTwo
<1>3. LastOf(<<"VALIDATE_TARGET", "DEACTIVATE_OLD_PATH">>, present)
        \subseteq {"VALIDATE_TARGET", "DEACTIVATE_OLD_PATH"}
  BY LastOfTwo
<1>4. l \in StepKind /\ l \in BreakBeforeMake(k, present)
  OBVIOUS
<1>5. \A m \in StepKind : BreakRank[m] =
     IF m = "VALIDATE_TARGET" THEN 0
     ELSE IF m = "DEACTIVATE_OLD_PATH" THEN 1
     ELSE IF m = "WITHDRAW_OLD_ROUTE" THEN 2
     ELSE IF m = "VERIFY_REMOVAL" THEN 3
     ELSE IF m \in {"PREPARE_NEW_STATE", "INSTALL_NEW_GROUP"} THEN 4
     ELSE IF m = "INSTALL_NEW_ROUTE" THEN 5
     ELSE IF m = "ACTIVATE_NEW_PATH" THEN 6
     ELSE IF m = "VERIFY_NEW_STATE" THEN 7 ELSE 8
  BY DEF BreakRank
<1>6. CASE k = "VALIDATE_TARGET"
  BY <1>4, <1>6 DEF BreakBeforeMake
<1>7. CASE k \in {"PREPARE_NEW_STATE", "INSTALL_NEW_GROUP"}
  <2>1. l \in {"WITHDRAW_OLD_ROUTE", "VERIFY_REMOVAL"}
    BY <1>2, <1>4, <1>7 DEF BreakBeforeMake
  <2> QED
    BY <1>4, <1>5, <1>7, <2>1
<1>8. CASE k = "INSTALL_NEW_ROUTE"
  <2>1. l \in {"PREPARE_NEW_STATE", "INSTALL_NEW_GROUP"}
    BY <1>4, <1>8 DEF BreakBeforeMake
  <2> QED
    BY <1>4, <1>5, <1>8, <2>1
<1>9. CASE k = "ACTIVATE_NEW_PATH"
  <2>1. l = "INSTALL_NEW_ROUTE"
    BY <1>4, <1>9 DEF BreakBeforeMake
  <2> QED
    BY <1>4, <1>5, <1>9, <2>1
<1>10. CASE k = "VERIFY_NEW_STATE"
  <2>1. l \in {"INSTALL_NEW_ROUTE", "ACTIVATE_NEW_PATH"}
    BY <1>1, <1>4, <1>10 DEF BreakBeforeMake
  <2> QED
    BY <1>4, <1>5, <1>10, <2>1
<1>11. CASE k = "DEACTIVATE_OLD_PATH"
  <2>1. l = "VALIDATE_TARGET"
    BY <1>4, <1>11 DEF BreakBeforeMake
  <2> QED
    BY <1>4, <1>5, <1>11, <2>1
<1>12. CASE k = "WITHDRAW_OLD_ROUTE"
  <2>1. l \in {"VALIDATE_TARGET", "DEACTIVATE_OLD_PATH"}
    BY <1>3, <1>4, <1>12 DEF BreakBeforeMake
  <2> QED
    BY <1>4, <1>5, <1>12, <2>1
<1>13. CASE k = "VERIFY_REMOVAL"
  <2>1. l = "WITHDRAW_OLD_ROUTE"
    BY <1>4, <1>13 DEF BreakBeforeMake
  <2> QED
    BY <1>4, <1>5, <1>13, <2>1
<1>14. CASE k = "FINALIZE"
  <2>1. l # "FINALIZE"
    BY <1>4, <1>14 DEF BreakBeforeMake
  <2> QED
    BY <1>4, <1>5, <1>14, <2>1, KindSet
<1> QED
  BY <1>6, <1>7, <1>8, <1>9, <1>10, <1>11, <1>12, <1>13, <1>14, KindSet

\* Before serialisation the steps can be put in order.
LEMMA UnboundedHasOrder ==
  ASSUME NEW source \in RouteBinding, NEW target \in RouteBinding, NEW policy
  PROVE  HasOrder(UnboundedSteps(source, target, policy))
<1> DEFINE present == PresentKinds(source, target, policy)
           g == UnboundedSteps(source, target, policy)
           s == Subjects(source, target)
<1>1. /\ Named(g, s) /\ KindsOf(g) = present
      /\ \A k \in present : WaitsOf(g, k) = WaitKinds(k, policy, present)
  BY UnboundedIs
<1>2. present \in SUBSET StepKind
  BY Presence
<1> HIDE DEF g, s, present
<1>3. CASE policy.ordering = "MAKE_BEFORE_BREAK"
  <2>1. MakeRank \in [StepKind -> Nat]
    BY DEF MakeRank
  <2>2. \A k : WaitKinds(k, policy, present) = present \cap MakeBeforeBreak(k, present)
    BY <1>3 DEF WaitKinds
  <2>3. \A k \in KindsOf(g) : \A l \in WaitsOf(g, k) : MakeRank[l] < MakeRank[k]
    BY <1>1, <1>2, <2>2, MakesDescend
  <2>4. HasOrder(g)
    BY <1>1, <2>1, <2>3, RankedHasOrder
  <2> QED
    BY <2>4 DEF g
<1>4. CASE policy.ordering # "MAKE_BEFORE_BREAK"
  <2>1. BreakRank \in [StepKind -> Nat]
    BY DEF BreakRank
  <2>2. \A k : WaitKinds(k, policy, present) = present \cap BreakBeforeMake(k, present)
    BY <1>4 DEF WaitKinds
  <2>3. \A k \in KindsOf(g) : \A l \in WaitsOf(g, k) : BreakRank[l] < BreakRank[k]
    BY <1>1, <1>2, <2>2, BreaksDescend
  <2>4. HasOrder(g)
    BY <1>1, <2>1, <2>3, RankedHasOrder
  <2> QED
    BY <2>4 DEF g
<1> QED
  BY <1>3, <1>4

\* What is generated: one step for each kind of the plan, which waits at least
\* for what its generator declares, and a canonical order of them.
LEMMA GeneratedIs ==
  ASSUME NEW source \in RouteBinding, NEW target \in RouteBinding, NEW policy, NEW limits
  PROVE  LET present == PresentKinds(source, target, policy)
             g == GenerateSteps(source, target, policy, limits)
         IN /\ Named(g, Subjects(source, target))
            /\ KindsOf(g) = present
            /\ \A k \in present : WaitKinds(k, policy, present) \subseteq WaitsOf(g, k)
            /\ HasOrder(g) /\ Declared(g)
<1> DEFINE present == PresentKinds(source, target, policy)
           g == UnboundedSteps(source, target, policy)
           s == Subjects(source, target)
           h == Serialised(g, ParallelBound(policy, limits))
<1>1. /\ Named(g, s) /\ KindsOf(g) = present /\ HasOrder(g) /\ Declared(g)
      /\ \A k \in present : WaitsOf(g, k) = WaitKinds(k, policy, present)
  BY UnboundedIs, UnboundedHasOrder
<1>2. h = GenerateSteps(source, target, policy, limits)
  BY DEF GenerateSteps
<1> HIDE DEF g, s, present
<1>3. /\ Named(h, s) /\ KindsOf(h) = present /\ HasOrder(h)
      /\ \A k : WaitsOf(g, k) \subseteq WaitsOf(h, k)
  BY <1>1, SerialisedIs, SerialisedHasOrder
<1>5. Declared(h)
  BY <1>1, SerialisedSteps DEF Declared
<1> HIDE DEF h
<1>4. \A k \in present : WaitKinds(k, policy, present) \subseteq WaitsOf(h, k)
  BY <1>1, <1>3
<1> QED
  BY <1>2, <1>3, <1>4, <1>5 DEF s, present

\* A step of kind k waits, by way of others, for the one of kind l: whatever is
\* closed under prerequisites and has those of k has l.
Closed(g, D) == \A m \in D : WaitsOf(g, m) \subseteq D

Follows(g, k, l) ==
  \A D \in SUBSET KindsOf(g) : WaitsOf(g, k) \subseteq D /\ Closed(g, D) => l \in D

\* A chain of prerequisites makes its end follow its beginning,
LEMMA ChainsFollow ==
  ASSUME NEW g, NEW s, Named(g, s), NEW q \in DOMAIN g
  PROVE  \A n \in Nat : n > 0 =>
           \A p \in DOMAIN g : Chain(g, p, q, n) => Follows(g, g[q].kind, g[p].kind)
<1> DEFINE S == {n \in Nat : n > 0 =>
                   \A p \in DOMAIN g : Chain(g, p, q, n) => Follows(g, g[q].kind, g[p].kind)}
<1>1. 0 \in S
  OBVIOUS
<1>2. ASSUME NEW n \in Nat, n \in S
      PROVE  n + 1 \in S
  <2> SUFFICES ASSUME NEW p \in DOMAIN g, Chain(g, p, q, n + 1),
                      NEW D \in SUBSET KindsOf(g),
                      WaitsOf(g, g[q].kind) \subseteq D, Closed(g, D)
               PROVE  g[p].kind \in D
    BY DEF Follows
  <2>1. PICK r \in DOMAIN g : p \in Predecessors(g, r) /\ Chain(g, r, q, n)
    <3>1. n + 1 \in Nat /\ n + 1 > 0 /\ (n + 1) - 1 = n
      OBVIOUS
    <3> QED
      BY <3>1, ChainTail
  <2>2. g[p].kind \in WaitsOf(g, g[r].kind)
    BY <2>1, WaitsAreKinds
  <2>3. CASE n = 0
    <3>1. r = q
      BY <2>1, <2>3, ChainEnds
    <3> QED
      BY <2>2, <3>1
  <2>4. CASE n # 0
    <3>1. Follows(g, g[q].kind, g[r].kind)
      BY <1>2, <2>1, <2>4
    <3>2. g[r].kind \in D
      BY <3>1 DEF Follows
    <3> QED
      BY <2>2, <3>2 DEF Closed
  <2> QED
    BY <2>3, <2>4
<1> HIDE DEF S
<1>3. Nat \subseteq S
  BY <1>1, <1>2, Induction
<1> QED
  BY <1>3 DEF S

\* and there is no other way to follow.
LEMMA FollowersHaveChains ==
  ASSUME NEW g, NEW s, Named(g, s), NEW p \in DOMAIN g, NEW q \in DOMAIN g,
         Follows(g, g[q].kind, g[p].kind)
  PROVE  \E n \in 1 .. Len(g) : Chain(g, p, q, n)
<1> DEFINE reached == {r \in DOMAIN g : \E n \in 1 .. Len(g) : Chain(g, r, q, n)}
           D == {g[r].kind : r \in reached}
<1>1. /\ g \in Seq(Step) /\ Len(g) \in Nat /\ DOMAIN g = 1 .. Len(g)
      /\ \A a, b \in DOMAIN g : g[a].kind = g[b].kind => a = b
  BY DEF Named
<1>2. D \in SUBSET KindsOf(g)
  BY DEF KindsOf
<1>3. ASSUME NEW r \in DOMAIN g, NEW n \in 0 .. Len(g), Chain(g, r, q, n)
      PROVE  WaitsOf(g, g[r].kind) \subseteq D
  <2> SUFFICES ASSUME NEW w \in WaitsOf(g, g[r].kind)
               PROVE  w \in D
    OBVIOUS
  <2>1. w \in KindsOf(g)
    BY WaitsAreKinds
  <2>2. PICK m \in DOMAIN g : g[m].kind = w
    BY <2>1 DEF KindsOf
  <2>3. m \in Predecessors(g, r)
    BY <2>2, WaitsAreKinds
  <2>0. n \in Nat /\ (n = Len(g) \/ n + 1 \in 1 .. Len(g))
    <3>1. Len(g) \in Nat
      BY <1>1
    <3> QED
      BY <3>1
  <2>4. Chain(g, m, q, n + 1)
    BY <1>3, <2>0, <2>3, ChainBefore
  <2>5. \E i \in 1 .. Len(g) : Chain(g, m, q, i)
    <3>1. CASE n = Len(g)
      BY <1>1, <2>0, <2>4, <3>1, ChainCut
    <3>2. CASE n # Len(g)
      <4>1. n + 1 \in 1 .. Len(g)
        BY <2>0, <3>2
      <4> QED
        BY <2>4, <4>1
    <3> QED
      BY <3>1, <3>2
  <2> QED
    BY <2>2, <2>5
<1>4. WaitsOf(g, g[q].kind) \subseteq D
  <2>1. 0 \in 0 .. Len(g) /\ Chain(g, q, q, 0)
    BY <1>1, EmptyChain
  <2> QED
    BY <1>3, <2>1
<1>5. Closed(g, D)
  <2>1. ASSUME NEW r \in reached
        PROVE  WaitsOf(g, g[r].kind) \subseteq D
    <3>1. PICK n \in 1 .. Len(g) : Chain(g, r, q, n)
      OBVIOUS
    <3>2. n \in 0 .. Len(g) /\ r \in DOMAIN g
      BY <1>1
    <3> HIDE DEF D
    <3> QED
      BY <1>3, <3>1, <3>2
  <2> QED
    BY <2>1 DEF Closed
<1>6. g[p].kind \in D
  <2> HIDE DEF D
  <2> QED
    BY <1>2, <1>4, <1>5 DEF Follows
<1>7. PICK r \in reached : g[r].kind = g[p].kind
  BY <1>6
<1>8. r = p
  BY <1>1, <1>7
<1> QED
  BY <1>7, <1>8

\* depends_transitively_on finds just the steps that a step follows.
LEMMA AncestorsAreFollowed ==
  ASSUME NEW g, NEW s, Named(g, s), Linked(g), NEW q \in DOMAIN g
  PROVE  /\ \A p \in DOMAIN g : KeyOf(g[p]) \in Ancestors(g, KeyOf(g[q]))
                                  <=> Follows(g, g[q].kind, g[p].kind)
         /\ \A key \in Ancestors(g, KeyOf(g[q])) : \E p \in DOMAIN g : key = KeyOf(g[p])
<1>1. g \in Seq(Step) /\ ~Duplicated(g)
  BY DEF Named, Linked
<1>2. ASSUME NEW p \in DOMAIN g
      PROVE  KeyOf(g[p]) \in Ancestors(g, KeyOf(g[q])) <=> Follows(g, g[q].kind, g[p].kind)
  <2>1. KeyOf(g[p]) \in Ancestors(g, KeyOf(g[q])) <=> \E n \in 1 .. Len(g) : Chain(g, p, q, n)
    BY <1>1, SearchIsDependence DEF DependsTransitivelyOn
  <2>2. ASSUME NEW n \in 1 .. Len(g), Chain(g, p, q, n)
        PROVE  Follows(g, g[q].kind, g[p].kind)
    <3>1. n \in Nat /\ n > 0
      BY <1>1
    <3> QED
      BY <2>2, <3>1, ChainsFollow
  <2>3. Follows(g, g[q].kind, g[p].kind) => \E n \in 1 .. Len(g) : Chain(g, p, q, n)
    BY FollowersHaveChains
  <2> QED
    BY <2>1, <2>2, <2>3
<1>3. ASSUME NEW key \in Ancestors(g, KeyOf(g[q]))
      PROVE  \E p \in DOMAIN g : key = KeyOf(g[p])
  <2>1. Positions(g, KeyOf(g[q])) # {}
    BY <1>1, FoundByKey
  <2>2. Search(g, KeyOf(g[q])) \in [0 .. Len(g) -> SUBSET DOMAIN g] /\ Len(g) \in Nat
    BY <1>1, <2>1, SearchRuns
  <2>3. Visited(g, KeyOf(g[q])) \subseteq DOMAIN g
    BY <2>1, <2>2 DEF Visited
  <2>4. PICK r \in Visited(g, KeyOf(g[q])) : key \in Prerequisites(g[r])
    BY <1>3 DEF Ancestors
  <2>5. Positions(g, key) # {}
    BY <2>3, <2>4 DEF Linked
  <2> QED
    BY <2>5 DEF Positions
<1> QED
  BY <1>2, <1>3

\* Who follows is in a deeper layer,
LEMMA FollowersAreDeeper ==
  ASSUME NEW g, NEW s, Named(g, s), HasOrder(g), NEW p \in DOMAIN g, NEW q \in DOMAIN g,
         Follows(g, g[q].kind, g[p].kind)
  PROVE  /\ Depths(g) \in [DOMAIN g -> Nat]
         /\ Depths(g)[p] < Depths(g)[q]
<1>1. PICK n \in 1 .. Len(g) : Chain(g, p, q, n)
  BY FollowersHaveChains
<1>2. g \in Seq(Step)
  BY DEF Named
<1>3. Depths(g) \in [DOMAIN g -> Nat] /\ \A r \in DOMAIN g : DepthIsRight(g, Depths(g), r)
  BY <1>2, DepthsAreRight
<1> DEFINE d == Depths(g)
<1> HIDE DEF d
<1>4. n \in Nat /\ n > 0 /\ d[p] \in Nat /\ d[q] \in Nat
  BY <1>2, <1>3 DEF d
<1>5. d[p] + n <= d[q]
  BY <1>1, <1>3, <1>4, DepthsBoundChains DEF d
<1>6. d[p] < d[q]
  BY <1>4, <1>5
<1> QED
  BY <1>3, <1>6 DEF d

\* so no step follows itself.
LEMMA NothingFollowsItself ==
  ASSUME NEW g, NEW s, Named(g, s), HasOrder(g), NEW k \in KindsOf(g)
  PROVE  ~Follows(g, k, k)
<1> SUFFICES ASSUME Follows(g, k, k)
             PROVE  FALSE
  OBVIOUS
<1>1. PICK p \in DOMAIN g : g[p].kind = k
  BY DEF KindsOf
<1>2. Depths(g) \in [DOMAIN g -> Nat] /\ Depths(g)[p] < Depths(g)[p]
  BY <1>1, FollowersAreDeeper
<1> QED
  BY <1>2

\* One side of a transition follows the other.
LastKinds(policy) ==
  IF policy.ordering = "MAKE_BEFORE_BREAK" THEN BreakKind ELSE MakeKind
FirstKinds(policy) ==
  IF policy.ordering = "MAKE_BEFORE_BREAK" THEN MakeKind ELSE BreakKind

Orderly(g, policy) ==
  \A k \in LastKinds(policy) \cap KindsOf(g), l \in FirstKinds(policy) \cap KindsOf(g) :
    Follows(g, k, l)

\* The rank of a kind in its plan.
PlanRank(policy) == IF policy.ordering = "MAKE_BEFORE_BREAK" THEN MakeRank ELSE BreakRank

LEMMA Ranks ==
  /\ MakeRank["VALIDATE_TARGET"] = 0 /\ MakeRank["PREPARE_NEW_STATE"] = 1
  /\ MakeRank["INSTALL_NEW_GROUP"] = 1 /\ MakeRank["INSTALL_NEW_ROUTE"] = 2
  /\ MakeRank["ACTIVATE_NEW_PATH"] = 3 /\ MakeRank["VERIFY_NEW_STATE"] = 4
  /\ MakeRank["DEACTIVATE_OLD_PATH"] = 5 /\ MakeRank["WITHDRAW_OLD_ROUTE"] = 6
  /\ MakeRank["VERIFY_REMOVAL"] = 7 /\ MakeRank["FINALIZE"] = 8
  /\ BreakRank["VALIDATE_TARGET"] = 0 /\ BreakRank["DEACTIVATE_OLD_PATH"] = 1
  /\ BreakRank["WITHDRAW_OLD_ROUTE"] = 2 /\ BreakRank["VERIFY_REMOVAL"] = 3
  /\ BreakRank["PREPARE_NEW_STATE"] = 4 /\ BreakRank["INSTALL_NEW_GROUP"] = 4
  /\ BreakRank["INSTALL_NEW_ROUTE"] = 5 /\ BreakRank["ACTIVATE_NEW_PATH"] = 6
  /\ BreakRank["VERIFY_NEW_STATE"] = 7 /\ BreakRank["FINALIZE"] = 8
  /\ MakeRank \in [StepKind -> 0 .. 8] /\ BreakRank \in [StepKind -> 0 .. 8]
BY KindSet DEF MakeRank, BreakRank

\* generate_make_before_break: a step follows, by way of others, every step of a
\* lower rank.
LEMMA MakesFollow ==
  ASSUME NEW source \in RouteBinding, NEW target \in RouteBinding, NEW policy,
         policy.ordering = "MAKE_BEFORE_BREAK",
         NEW g, KindsOf(g) = PresentKinds(source, target, policy),
         \A k \in KindsOf(g) : WaitKinds(k, policy, KindsOf(g)) \subseteq WaitsOf(g, k)
  PROVE  \A k, l \in KindsOf(g) : MakeRank[l] < MakeRank[k] => Follows(g, k, l)
<1> DEFINE P == KindsOf(g)
<1>1. \A k : WaitKinds(k, policy, P) = P \cap MakeBeforeBreak(k, P)
  BY DEF WaitKinds
<1>2. /\ P \subseteq StepKind
      /\ {"VALIDATE_TARGET", "PREPARE_NEW_STATE", "INSTALL_NEW_ROUTE",
          "WITHDRAW_OLD_ROUTE", "FINALIZE"} \subseteq P
      /\ "ACTIVATE_NEW_PATH" \in P <=> "DEACTIVATE_OLD_PATH" \in P
  BY Presence
<1> HIDE DEF P
<1> SUFFICES ASSUME NEW k \in P, NEW D \in SUBSET P, WaitsOf(g, k) \subseteq D, Closed(g, D)
             PROVE  \A l \in P : MakeRank[l] < MakeRank[k] => l \in D
  BY DEF Follows, P
<1> DEFINE has(m) == P \cap MakeBeforeBreak(m, P) \subseteq D
           d2 == /\ "VALIDATE_TARGET" \in D /\ "PREPARE_NEW_STATE" \in D
                 /\ "INSTALL_NEW_GROUP" \in P => "INSTALL_NEW_GROUP" \in D
           d3 == d2 /\ "INSTALL_NEW_ROUTE" \in D
           d4 == d3 /\ ("ACTIVATE_NEW_PATH" \in P => "ACTIVATE_NEW_PATH" \in D)
           d5 == d4 /\ ("VERIFY_NEW_STATE" \in P => "VERIFY_NEW_STATE" \in D)
           d6 == d5 /\ ("DEACTIVATE_OLD_PATH" \in P => "DEACTIVATE_OLD_PATH" \in D)
           d7 == d6 /\ "WITHDRAW_OLD_ROUTE" \in D
<1>3. has(k) /\ \A m \in D : has(m)
  <2>1. \A m \in P : P \cap MakeBeforeBreak(m, P) \subseteq WaitsOf(g, m)
    BY <1>1 DEF P
  <2> QED
    BY <2>1 DEF Closed
<1>4. \A m \in {"PREPARE_NEW_STATE", "INSTALL_NEW_GROUP"} : has(m) => "VALIDATE_TARGET" \in D
  <2>1. \A m \in {"PREPARE_NEW_STATE", "INSTALL_NEW_GROUP"} :
          MakeBeforeBreak(m, P) = {"VALIDATE_TARGET"}
    BY DEF MakeBeforeBreak
  <2> QED
    BY <1>2, <2>1
<1>5. has("INSTALL_NEW_ROUTE") => d2
  <2>1. MakeBeforeBreak("INSTALL_NEW_ROUTE", P) = {"PREPARE_NEW_STATE", "INSTALL_NEW_GROUP"}
    BY DEF MakeBeforeBreak
  <2>2. has("INSTALL_NEW_ROUTE") =>
          /\ "PREPARE_NEW_STATE" \in D
          /\ "INSTALL_NEW_GROUP" \in P => "INSTALL_NEW_GROUP" \in D
    BY <1>2, <2>1
  <2> QED
    BY <1>3, <1>4, <2>2
<1>6. has("ACTIVATE_NEW_PATH") => d3
  <2>1. MakeBeforeBreak("ACTIVATE_NEW_PATH", P) = {"INSTALL_NEW_ROUTE"}
    BY DEF MakeBeforeBreak
  <2>2. has("ACTIVATE_NEW_PATH") => "INSTALL_NEW_ROUTE" \in D
    BY <1>2, <2>1
  <2> QED
    BY <1>3, <1>5, <2>2
<1>7. has("VERIFY_NEW_STATE") => d4
  <2> DEFINE last == LastOf(<<"INSTALL_NEW_ROUTE", "ACTIVATE_NEW_PATH">>, P)
  <2>1. MakeBeforeBreak("VERIFY_NEW_STATE", P) = last
    BY DEF MakeBeforeBreak
  <2>2. /\ "ACTIVATE_NEW_PATH" \in P => "ACTIVATE_NEW_PATH" \in last
        /\ "ACTIVATE_NEW_PATH" \notin P => "INSTALL_NEW_ROUTE" \in last
    BY <1>2, LastOfTwo
  <2> HIDE DEF last
  <2>3. has("VERIFY_NEW_STATE") =>
          IF "ACTIVATE_NEW_PATH" \in P THEN "ACTIVATE_NEW_PATH" \in D ELSE "INSTALL_NEW_ROUTE" \in D
    BY <1>2, <2>1, <2>2
  <2> QED
    BY <1>3, <1>5, <1>6, <2>3
<1>8. has("DEACTIVATE_OLD_PATH") => d5
  <2> DEFINE last == LastOf(<<"INSTALL_NEW_ROUTE", "ACTIVATE_NEW_PATH", "VERIFY_NEW_STATE">>, P)
  <2>1. MakeBeforeBreak("DEACTIVATE_OLD_PATH", P) = last
    BY DEF MakeBeforeBreak
  <2>2. /\ "VERIFY_NEW_STATE" \in P => "VERIFY_NEW_STATE" \in last
        /\ "VERIFY_NEW_STATE" \notin P /\ "ACTIVATE_NEW_PATH" \in P => "ACTIVATE_NEW_PATH" \in last
        /\ "VERIFY_NEW_STATE" \notin P /\ "ACTIVATE_NEW_PATH" \notin P
             => "INSTALL_NEW_ROUTE" \in last
    BY <1>2, LastOfThree
  <2> HIDE DEF last
  <2>3. has("DEACTIVATE_OLD_PATH") =>
          IF "VERIFY_NEW_STATE" \in P THEN "VERIFY_NEW_STATE" \in D
          ELSE IF "ACTIVATE_NEW_PATH" \in P THEN "ACTIVATE_NEW_PATH" \in D
          ELSE "INSTALL_NEW_ROUTE" \in D
    BY <1>2, <2>1, <2>2
  <2> QED
    BY <1>3, <1>5, <1>6, <1>7, <2>3
<1>9. has("WITHDRAW_OLD_ROUTE") => d6
  <2> DEFINE last == LastOf(<<"INSTALL_NEW_ROUTE", "VERIFY_NEW_STATE", "DEACTIVATE_OLD_PATH">>, P)
  <2>1. MakeBeforeBreak("WITHDRAW_OLD_ROUTE", P) = last
    BY DEF MakeBeforeBreak
  <2>2. /\ "DEACTIVATE_OLD_PATH" \in P => "DEACTIVATE_OLD_PATH" \in last
        /\ "DEACTIVATE_OLD_PATH" \notin P /\ "VERIFY_NEW_STATE" \in P => "VERIFY_NEW_STATE" \in last
        /\ "DEACTIVATE_OLD_PATH" \notin P /\ "VERIFY_NEW_STATE" \notin P
             => "INSTALL_NEW_ROUTE" \in last
    BY <1>2, LastOfThree
  <2> HIDE DEF last
  <2>3. has("WITHDRAW_OLD_ROUTE") =>
          IF "DEACTIVATE_OLD_PATH" \in P THEN "DEACTIVATE_OLD_PATH" \in D
          ELSE IF "VERIFY_NEW_STATE" \in P THEN "VERIFY_NEW_STATE" \in D
          ELSE "INSTALL_NEW_ROUTE" \in D
    BY <1>2, <2>1, <2>2
  <2> QED
    BY <1>2, <1>3, <1>5, <1>7, <1>8, <2>3
<1>10. has("VERIFY_REMOVAL") => d7
  <2>1. MakeBeforeBreak("VERIFY_REMOVAL", P) = {"WITHDRAW_OLD_ROUTE"}
    BY DEF MakeBeforeBreak
  <2>2. has("VERIFY_REMOVAL") => "WITHDRAW_OLD_ROUTE" \in D
    BY <1>2, <2>1
  <2> QED
    BY <1>3, <1>9, <2>2
<1>11. has("FINALIZE") => P \ {"FINALIZE"} \subseteq D
  <2>1. MakeBeforeBreak("FINALIZE", P) = P \ {"FINALIZE"}
    BY DEF MakeBeforeBreak
  <2> QED
    BY <2>1
<1>12. \A m \in P : m \in {"VALIDATE_TARGET", "PREPARE_NEW_STATE", "INSTALL_NEW_GROUP",
                           "INSTALL_NEW_ROUTE", "ACTIVATE_NEW_PATH", "VERIFY_NEW_STATE",
                           "DEACTIVATE_OLD_PATH", "WITHDRAW_OLD_ROUTE", "VERIFY_REMOVAL",
                           "FINALIZE"}
  BY <1>2, KindSet
<1> HIDE DEF has
<1> SUFFICES ASSUME NEW l \in P, MakeRank[l] < MakeRank[k]
             PROVE  l \in D
  OBVIOUS
<1>13. CASE k \in {"VALIDATE_TARGET", "PREPARE_NEW_STATE", "INSTALL_NEW_GROUP"}
  BY <1>3, <1>4, <1>12, <1>13, Ranks
<1>14. CASE k \in {"INSTALL_NEW_ROUTE", "ACTIVATE_NEW_PATH", "VERIFY_NEW_STATE"}
  BY <1>3, <1>5, <1>6, <1>7, <1>12, <1>14, Ranks
<1>15. CASE k \in {"DEACTIVATE_OLD_PATH", "WITHDRAW_OLD_ROUTE", "VERIFY_REMOVAL"}
  BY <1>3, <1>8, <1>9, <1>10, <1>12, <1>15, Ranks
<1>16. CASE k = "FINALIZE"
  BY <1>3, <1>11, <1>12, <1>16, Ranks
<1> QED
  BY <1>12, <1>13, <1>14, <1>15, <1>16

\* generate_break_before_make: the same.
LEMMA BreaksFollow ==
  ASSUME NEW source \in RouteBinding, NEW target \in RouteBinding, NEW policy,
         policy.ordering # "MAKE_BEFORE_BREAK",
         NEW g, KindsOf(g) = PresentKinds(source, target, policy),
         \A k \in KindsOf(g) : WaitKinds(k, policy, KindsOf(g)) \subseteq WaitsOf(g, k)
  PROVE  \A k, l \in KindsOf(g) : BreakRank[l] < BreakRank[k] => Follows(g, k, l)
<1> DEFINE P == KindsOf(g)
<1>1. \A k : WaitKinds(k, policy, P) = P \cap BreakBeforeMake(k, P)
  BY DEF WaitKinds
<1>2. /\ P \subseteq StepKind
      /\ {"VALIDATE_TARGET", "PREPARE_NEW_STATE", "INSTALL_NEW_ROUTE",
          "WITHDRAW_OLD_ROUTE", "FINALIZE"} \subseteq P
  BY Presence
<1> HIDE DEF P
<1> SUFFICES ASSUME NEW k \in P, NEW D \in SUBSET P, WaitsOf(g, k) \subseteq D, Closed(g, D)
             PROVE  \A l \in P : BreakRank[l] < BreakRank[k] => l \in D
  BY DEF Follows, P
<1> DEFINE has(m) == P \cap BreakBeforeMake(m, P) \subseteq D
           d2 == /\ "VALIDATE_TARGET" \in D
                 /\ "DEACTIVATE_OLD_PATH" \in P => "DEACTIVATE_OLD_PATH" \in D
           d3 == d2 /\ "WITHDRAW_OLD_ROUTE" \in D
           d4 == d3 /\ ("VERIFY_REMOVAL" \in P => "VERIFY_REMOVAL" \in D)
           d5 == /\ d4 /\ "PREPARE_NEW_STATE" \in D
                 /\ "INSTALL_NEW_GROUP" \in P => "INSTALL_NEW_GROUP" \in D
           d6 == d5 /\ "INSTALL_NEW_ROUTE" \in D
           d7 == d6 /\ ("ACTIVATE_NEW_PATH" \in P => "ACTIVATE_NEW_PATH" \in D)
<1>3. has(k) /\ \A m \in D : has(m)
  <2>1. \A m \in P : P \cap BreakBeforeMake(m, P) \subseteq WaitsOf(g, m)
    BY <1>1 DEF P
  <2> QED
    BY <2>1 DEF Closed
<1>4. has("DEACTIVATE_OLD_PATH") => "VALIDATE_TARGET" \in D
  <2>1. BreakBeforeMake("DEACTIVATE_OLD_PATH", P) = {"VALIDATE_TARGET"}
    BY DEF BreakBeforeMake
  <2> QED
    BY <1>2, <2>1
<1>5. has("WITHDRAW_OLD_ROUTE") => d2
  <2> DEFINE last == LastOf(<<"VALIDATE_TARGET", "DEACTIVATE_OLD_PATH">>, P)
  <2>1. BreakBeforeMake("WITHDRAW_OLD_ROUTE", P) = last
    BY DEF BreakBeforeMake
  <2>2. /\ "DEACTIVATE_OLD_PATH" \in P => "DEACTIVATE_OLD_PATH" \in last
        /\ "DEACTIVATE_OLD_PATH" \notin P => "VALIDATE_TARGET" \in last
    BY <1>2, LastOfTwo
  <2> HIDE DEF last
  <2>3. has("WITHDRAW_OLD_ROUTE") =>
          IF "DEACTIVATE_OLD_PATH" \in P THEN "DEACTIVATE_OLD_PATH" \in D ELSE "VALIDATE_TARGET" \in D
    BY <1>2, <2>1, <2>2
  <2> QED
    BY <1>3, <1>4, <2>3
<1>6. has("VERIFY_REMOVAL") => d3
  <2>1. BreakBeforeMake("VERIFY_REMOVAL", P) = {"WITHDRAW_OLD_ROUTE"}
    BY DEF BreakBeforeMake
  <2>2. has("VERIFY_REMOVAL") => "WITHDRAW_OLD_ROUTE" \in D
    BY <1>2, <2>1
  <2> QED
    BY <1>3, <1>5, <2>2
<1>7. \A m \in {"PREPARE_NEW_STATE", "INSTALL_NEW_GROUP"} : has(m) => d4
  <2> DEFINE last == LastOf(<<"WITHDRAW_OLD_ROUTE", "VERIFY_REMOVAL">>, P)
  <2>1. \A m \in {"PREPARE_NEW_STATE", "INSTALL_NEW_GROUP"} : BreakBeforeMake(m, P) = last
    BY DEF BreakBeforeMake
  <2>2. /\ "VERIFY_REMOVAL" \in P => "VERIFY_REMOVAL" \in last
        /\ "VERIFY_REMOVAL" \notin P => "WITHDRAW_OLD_ROUTE" \in last
    BY <1>2, LastOfTwo
  <2> HIDE DEF last
  <2>3. \A m \in {"PREPARE_NEW_STATE", "INSTALL_NEW_GROUP"} : has(m) =>
          IF "VERIFY_REMOVAL" \in P THEN "VERIFY_REMOVAL" \in D ELSE "WITHDRAW_OLD_ROUTE" \in D
    BY <1>2, <2>1, <2>2
  <2> QED
    BY <1>3, <1>5, <1>6, <2>3
<1>8. has("INSTALL_NEW_ROUTE") => d5
  <2>1. BreakBeforeMake("INSTALL_NEW_ROUTE", P) = {"PREPARE_NEW_STATE", "INSTALL_NEW_GROUP"}
    BY DEF BreakBeforeMake
  <2>2. has("INSTALL_NEW_ROUTE") =>
          /\ "PREPARE_NEW_STATE" \in D
          /\ "INSTALL_NEW_GROUP" \in P => "INSTALL_NEW_GROUP" \in D
    BY <1>2, <2>1
  <2> QED
    BY <1>3, <1>7, <2>2
<1>9. has("ACTIVATE_NEW_PATH") => d6
  <2>1. BreakBeforeMake("ACTIVATE_NEW_PATH", P) = {"INSTALL_NEW_ROUTE"}
    BY DEF BreakBeforeMake
  <2>2. has("ACTIVATE_NEW_PATH") => "INSTALL_NEW_ROUTE" \in D
    BY <1>2, <2>1
  <2> QED
    BY <1>3, <1>8, <2>2
<1>10. has("VERIFY_NEW_STATE") => d7
  <2> DEFINE last == LastOf(<<"INSTALL_NEW_ROUTE", "ACTIVATE_NEW_PATH">>, P)
  <2>1. BreakBeforeMake("VERIFY_NEW_STATE", P) = last
    BY DEF BreakBeforeMake
  <2>2. /\ "ACTIVATE_NEW_PATH" \in P => "ACTIVATE_NEW_PATH" \in last
        /\ "ACTIVATE_NEW_PATH" \notin P => "INSTALL_NEW_ROUTE" \in last
    BY <1>2, LastOfTwo
  <2> HIDE DEF last
  <2>3. has("VERIFY_NEW_STATE") =>
          IF "ACTIVATE_NEW_PATH" \in P THEN "ACTIVATE_NEW_PATH" \in D ELSE "INSTALL_NEW_ROUTE" \in D
    BY <1>2, <2>1, <2>2
  <2> QED
    BY <1>3, <1>8, <1>9, <2>3
<1>11. has("FINALIZE") => P \ {"FINALIZE"} \subseteq D
  <2>1. BreakBeforeMake("FINALIZE", P) = P \ {"FINALIZE"}
    BY DEF BreakBeforeMake
  <2> QED
    BY <2>1
<1>12. \A m \in P : m \in {"VALIDATE_TARGET", "PREPARE_NEW_STATE", "INSTALL_NEW_GROUP",
                           "INSTALL_NEW_ROUTE", "ACTIVATE_NEW_PATH", "VERIFY_NEW_STATE",
                           "DEACTIVATE_OLD_PATH", "WITHDRAW_OLD_ROUTE", "VERIFY_REMOVAL",
                           "FINALIZE"}
  BY <1>2, KindSet
<1> HIDE DEF has
<1> SUFFICES ASSUME NEW l \in P, BreakRank[l] < BreakRank[k]
             PROVE  l \in D
  OBVIOUS
<1>13. CASE k \in {"VALIDATE_TARGET", "DEACTIVATE_OLD_PATH", "WITHDRAW_OLD_ROUTE"}
  BY <1>3, <1>4, <1>5, <1>12, <1>13, Ranks
<1>14. CASE k \in {"VERIFY_REMOVAL", "PREPARE_NEW_STATE", "INSTALL_NEW_GROUP"}
  BY <1>3, <1>6, <1>7, <1>12, <1>14, Ranks
<1>15. CASE k \in {"INSTALL_NEW_ROUTE", "ACTIVATE_NEW_PATH", "VERIFY_NEW_STATE"}
  BY <1>3, <1>8, <1>9, <1>10, <1>12, <1>15, Ranks
<1>16. CASE k = "FINALIZE"
  BY <1>3, <1>11, <1>12, <1>16, Ranks
<1> QED
  BY <1>12, <1>13, <1>14, <1>15, <1>16

\* So a generated step follows every step of a lower rank,
LEMMA RanksFollow ==
  ASSUME NEW source \in RouteBinding, NEW target \in RouteBinding, NEW policy, NEW limits
  PROVE  LET g == GenerateSteps(source, target, policy, limits)
         IN \A k, l \in KindsOf(g) :
              PlanRank(policy)[l] < PlanRank(policy)[k] => Follows(g, k, l)
<1> DEFINE g == GenerateSteps(source, target, policy, limits)
           P == PresentKinds(source, target, policy)
<1>1. /\ KindsOf(g) = P
      /\ \A k \in P : WaitKinds(k, policy, P) \subseteq WaitsOf(g, k)
  BY GeneratedIs
<1>2. \A k \in KindsOf(g) : WaitKinds(k, policy, KindsOf(g)) \subseteq WaitsOf(g, k)
  BY <1>1
<1> HIDE DEF g
<1>3. CASE policy.ordering = "MAKE_BEFORE_BREAK"
  <2>1. \A k, l \in KindsOf(g) : MakeRank[l] < MakeRank[k] => Follows(g, k, l)
    BY <1>1, <1>2, <1>3, MakesFollow
  <2> QED
    BY <1>3, <2>1 DEF PlanRank, g
<1>4. CASE policy.ordering # "MAKE_BEFORE_BREAK"
  <2>1. \A k, l \in KindsOf(g) : BreakRank[l] < BreakRank[k] => Follows(g, k, l)
    BY <1>1, <1>2, <1>4, BreaksFollow
  <2> QED
    BY <1>4, <2>1 DEF PlanRank, g
<1> QED
  BY <1>3, <1>4

\* and one side of the transition the other.
LEMMA GeneratedIsOrderly ==
  ASSUME NEW source \in RouteBinding, NEW target \in RouteBinding, NEW policy, NEW limits
  PROVE  Orderly(GenerateSteps(source, target, policy, limits), policy)
<1> DEFINE g == GenerateSteps(source, target, policy, limits)
<1>1. \A k, l \in KindsOf(g) :
        PlanRank(policy)[l] < PlanRank(policy)[k] => Follows(g, k, l)
  BY RanksFollow
<1> HIDE DEF g
<1>2. \A k \in LastKinds(policy), l \in FirstKinds(policy) :
        PlanRank(policy)[l] < PlanRank(policy)[k]
  BY Ranks DEF LastKinds, FirstKinds, MakeKind, BreakKind, PlanRank
<1>3. Orderly(g, policy)
  BY <1>1, <1>2 DEF Orderly
<1> QED
  BY <1>3 DEF g

----------------------------------------------------------------------------
\* Conformance

\* The layers are finite sets of steps of one depth.
LEMMA LayersAre ==
  ASSUME NEW g \in Seq(Step), NEW layer \in Layers(g)
  PROVE  /\ layer \subseteq DOMAIN g
         /\ IsFiniteSet(layer) /\ Cardinality(layer) \in Nat
         /\ \A p, q \in layer : Depths(g)[p] = Depths(g)[q]
<1>1. layer \subseteq DOMAIN g /\ \A p, q \in layer : Depths(g)[p] = Depths(g)[q]
  BY DEF Layers
<1>2. IsFiniteSet(DOMAIN g)
  BY UpTo
<1>3. IsFiniteSet(layer)
  BY <1>1, <1>2, FS_Subset
<1> QED
  BY <1>1, <1>3, FS_CardinalityType

\* Serialisation keeps the layers within the bound.
LEMMA LayersAreBounded ==
  ASSUME NEW g, NEW s, Named(g, s), HasOrder(g), NEW bound \in Nat \ {0}
  PROVE  \A layer \in Layers(Serialised(g, bound)) : ~(Cardinality(layer) > bound)
<1> DEFINE h == Serialised(g, bound)
           d == Depths(h)
<1>1. g \in Seq(Step) /\ h \in Seq(Step) /\ HasOrder(h)
  BY SerialisedIs, SerialisedHasOrder DEF Named
<1>2. /\ DOMAIN h = DOMAIN g
      /\ ~TooWide(g, bound) => h = g
      /\ \A p, q \in DOMAIN g :
           TooWide(g, bound) /\ Place(g, q) + 1 = Place(g, p) => q \in Predecessors(h, p)
  BY SerialisedSteps
<1>3. d \in [DOMAIN h -> Nat] /\ \A p \in DOMAIN h : DepthIsRight(h, d, p)
  BY <1>1, DepthsAreRight
<1>4. /\ Len(g) \in Nat
      /\ \A p \in DOMAIN g : Place(g, p) \in 1 .. Len(g) /\ SortedSteps(g)[Place(g, p)] = p
      /\ \A i \in 1 .. Len(g) : SortedSteps(g)[i] \in DOMAIN g /\ Place(g, SortedSteps(g)[i]) = i
  BY <1>1, Places
<1> SUFFICES ASSUME NEW layer \in Layers(h)
             PROVE  ~(Cardinality(layer) > bound)
  OBVIOUS
<1>5. /\ layer \subseteq DOMAIN g
      /\ IsFiniteSet(layer) /\ Cardinality(layer) \in Nat
      /\ \A p, q \in layer : d[p] = d[q]
  BY <1>1, <1>2, LayersAre
<1>6. CASE ~TooWide(g, bound)
  <2>1. Cardinality(layer) <= bound
    BY <1>2, <1>6 DEF TooWide
  <2> QED
    BY <1>5, <2>1
<1>7. CASE TooWide(g, bound)
  <2> DEFINE S == {n \in Nat : \A p, q \in DOMAIN g :
                                 Place(g, q) = Place(g, p) + (n + 1) => d[p] < d[q]}
  <2> HIDE DEF h, d
  <2>1. \A p, q \in DOMAIN g : Place(g, q) = Place(g, p) + 1 => d[p] < d[q]
    BY <1>2, <1>3, <1>4, <1>7 DEF DepthIsRight
  <2>2. 0 \in S
    BY <2>1
  <2>3. ASSUME NEW n \in Nat, n \in S
        PROVE  n + 1 \in S
    <3> SUFFICES ASSUME NEW p \in DOMAIN g, NEW q \in DOMAIN g,
                        Place(g, q) = Place(g, p) + (n + 2)
                 PROVE  d[p] < d[q]
      OBVIOUS
    <3>1. PICK r \in DOMAIN g : Place(g, r) = Place(g, p) + (n + 1)
      <4>1. Place(g, p) + (n + 1) \in 1 .. Len(g)
        BY <1>4
      <4> QED
        BY <1>4, <4>1
    <3>2. d[p] < d[r] /\ d[r] < d[q]
      <4>1. Place(g, q) = Place(g, r) + 1
        BY <1>4, <3>1
      <4> QED
        BY <2>1, <2>3, <3>1, <4>1
    <3> QED
      BY <1>2, <1>3, <3>2
  <2> HIDE DEF S
  <2>4. Nat \subseteq S
    BY <2>2, <2>3, Induction
  <2>5. \A p, q \in DOMAIN g : Place(g, p) < Place(g, q) => d[p] < d[q]
    <3> SUFFICES ASSUME NEW p \in DOMAIN g, NEW q \in DOMAIN g, Place(g, p) < Place(g, q)
                 PROVE  d[p] < d[q]
      OBVIOUS
    <3> DEFINE n == Place(g, q) - Place(g, p) - 1
    <3>1. n \in Nat /\ Place(g, q) = Place(g, p) + (n + 1)
      BY <1>4
    <3> QED
      BY <2>4, <3>1 DEF S
  <2>6. \A p, q \in layer : p = q
    <3> SUFFICES ASSUME NEW p \in layer, NEW q \in layer, p # q
                 PROVE  FALSE
      OBVIOUS
    <3>1. Place(g, p) < Place(g, q) \/ Place(g, q) < Place(g, p)
      BY <1>4, <1>5
    <3>2. d[p] \in Nat /\ d[q] \in Nat /\ d[p] = d[q]
      BY <1>2, <1>3, <1>5
    <3> QED
      BY <1>5, <2>5, <3>1, <3>2
  <2>7. Cardinality(layer) <= 1
    <3>1. CASE layer = {}
      BY <3>1, FS_EmptySet
    <3>2. CASE layer # {}
      <4>1. PICK p \in layer : layer = {p}
        BY <2>6, <3>2
      <4> QED
        BY <4>1, FS_Singleton
    <3> QED
      BY <3>1, <3>2
  <2> QED
    BY <1>5, <2>7
<1> QED
  BY <1>6, <1>7

\* Two steps of one layer touch different domains.
LEMMA LayersDoNotConflict ==
  ASSUME NEW source \in RouteBinding, NEW target \in RouteBinding, NEW policy, NEW limits
  PROVE  ~LayersConflict(GenerateSteps(source, target, policy, limits))
<1> DEFINE g == GenerateSteps(source, target, policy, limits)
           s == Subjects(source, target)
           rank == PlanRank(policy)
<1>1. Named(g, s) /\ HasOrder(g) /\ KindsOf(g) \subseteq StepKind /\ Declared(g)
  BY GeneratedIs, Presence
<1>2. \A k, l \in KindsOf(g) : rank[l] < rank[k] => Follows(g, k, l)
  BY RanksFollow
<1>3. rank \in [StepKind -> 0 .. 8]
  BY Ranks DEF PlanRank
<1>4. \A k, l \in StepKind :
        rank[k] = rank[l] /\ k # l => DomainOf(k) # DomainOf(l)
  <2>1. \A k, l \in StepKind :
          rank[k] = rank[l] /\ k # l => {k, l} = {"PREPARE_NEW_STATE", "INSTALL_NEW_GROUP"}
    <3>1. CASE rank = MakeRank
      BY <3>1, KindSet, Ranks
    <3>2. CASE rank = BreakRank
      BY <3>2, KindSet, Ranks
    <3> QED
      BY <3>1, <3>2 DEF PlanRank
  <2>2. DomainOf("PREPARE_NEW_STATE") = "PATH_STATE" /\ DomainOf("INSTALL_NEW_GROUP") = "GROUP_STATE"
    BY DEF DomainOf, ObservationKind
  <2>3. "PATH_STATE" # "GROUP_STATE"
    OBVIOUS
  <2> QED
    BY <2>1, <2>2, <2>3
<1> HIDE DEF g, s, rank
<1>5. ASSUME NEW layer \in Layers(g), NEW p \in layer, NEW q \in layer, p # q
      PROVE  ~Conflict(g[p], g[q])
  <2>1. g \in Seq(Step) /\ \A a, b \in DOMAIN g : g[a].kind = g[b].kind => a = b
    BY <1>1 DEF Named
  <2>2. p \in DOMAIN g /\ q \in DOMAIN g /\ Depths(g)[p] = Depths(g)[q]
    BY <2>1, LayersAre
  <2>3. g[p].kind \in KindsOf(g) /\ g[q].kind \in KindsOf(g) /\ g[p].kind # g[q].kind
    BY <1>5, <2>1, <2>2 DEF KindsOf
  <2>4. ~Follows(g, g[p].kind, g[q].kind) /\ ~Follows(g, g[q].kind, g[p].kind)
    <3>1. Depths(g) \in [DOMAIN g -> Nat]
      BY <1>1, <2>1, DepthsAreRight
    <3>2. ~(Depths(g)[p] < Depths(g)[q]) /\ ~(Depths(g)[q] < Depths(g)[p])
      BY <2>2, <3>1
    <3> QED
      BY <1>1, <2>2, <3>2, FollowersAreDeeper
  <2>5. rank[g[p].kind] = rank[g[q].kind]
    <3>1. rank[g[p].kind] \in 0 .. 8 /\ rank[g[q].kind] \in 0 .. 8
      BY <1>1, <1>3, <2>3
    <3>2. ~(rank[g[p].kind] < rank[g[q].kind]) /\ ~(rank[g[q].kind] < rank[g[p].kind])
      BY <1>2, <2>3, <2>4
    <3> QED
      BY <3>1, <3>2
  <2>6. DomainOf(g[p].kind) # DomainOf(g[q].kind)
    BY <1>1, <1>4, <2>3, <2>5
  <2>7. g[p].domains \cap g[q].domains = {}
    BY <1>1, <2>2, <2>6 DEF Declared
  <2> QED
    BY <2>7 DEF Conflict
<1>6. ~LayersConflict(g)
  BY <1>5 DEF LayersConflict
<1> QED
  BY <1>6 DEF g

\* A generated graph has none of the defects of a graph, but for the bounds.
LEMMA GeneratedIsAccepted ==
  ASSUME NEW source \in RouteBinding, NEW target \in RouteBinding, NEW policy, NEW limits
  PROVE  GraphDefects(GenerateSteps(source, target, policy, limits), limits)
           \subseteq {"STEP_LIMIT", "DEPENDENCY_LIMIT", "TOTAL_DEPENDENCY_LIMIT"}
<1> DEFINE g == GenerateSteps(source, target, policy, limits)
           s == Subjects(source, target)
           P == PresentKinds(source, target, policy)
<1>1. Named(g, s) /\ HasOrder(g) /\ KindsOf(g) = P /\ Declared(g)
  BY GeneratedIs
<1>2. ~LayersConflict(g)
  BY LayersDoNotConflict
<1>3. \A k \in P : s[k] # 0
  <2>1. P \subseteq StepKind
    BY Presence
  <2>2. ASSUME NEW k \in P
        PROVE  SubjectOf(k, source, target) # 0
    <3>1. source.path # 0 /\ target.path # 0
      BY DEF RouteBinding
    <3>2. k = "INSTALL_NEW_GROUP" => target.group # 0
      BY Presence DEF NoGroup
    <3>3. k \in StepKind
      BY <2>1
    <3> HIDE DEF P
    <3> QED
      BY <3>1, <3>2, <3>3, KindSet DEF SubjectOf, TargetSubject, PlanSubject, RouteSubject
  <2> QED
    BY <2>1, <2>2 DEF Subjects
<1> HIDE DEF g, s, P
<1>4. DOMAIN g = {p \in DOMAIN g : g[p].subject # 0}
  <2>1. \A p \in DOMAIN g : g[p].subject = s[g[p].kind]
    BY <1>1 DEF Named
  <2>2. \A p \in DOMAIN g : g[p].kind \in P
    BY <1>1 DEF KindsOf
  <2> QED
    BY <1>3, <2>1, <2>2
<1>5. /\ ~Duplicated(g)
      /\ \A p \in DOMAIN g : \A key \in Prerequisites(g[p]) :
           Positions(g, key) # {} /\ key # KeyOf(g[p])
  BY <1>1 DEF HasOrder, Linked
<1>6. \A p \in DOMAIN g : IsInjective(g[p].deps)
  BY <1>1 DEF Declared
<1>7. GraphDefects(g, limits) \subseteq {"STEP_LIMIT", "DEPENDENCY_LIMIT", "TOTAL_DEPENDENCY_LIMIT"}
  BY <1>1, <1>2, <1>4, <1>5, <1>6 DEF GraphDefects, When
<1> QED
  BY <1>7 DEF g

\* The first step of a kind is the only one.
LEMMA FirstIsIt ==
  ASSUME NEW g, NEW s, Named(g, s), NEW q \in DOMAIN g
  PROVE  FirstOfKind(g, g[q].kind) = q
<1>1. DOMAIN g \subseteq Nat /\ KindPositions(g, g[q].kind) = {q}
  BY DEF Named, KindPositions
<1>2. q <= q
  BY <1>1
<1> QED
  BY <1>1, <1>2 DEF FirstOfKind

\* The other side of a transition waits for the last word on the first,
LEMMA LastSideFollowsAnchor ==
  ASSUME NEW source \in RouteBinding, NEW target \in RouteBinding, NEW policy, NEW limits
  PROVE  LET g == GenerateSteps(source, target, policy, limits)
         IN \A p \in DOMAIN g : g[p].kind \in LastKinds(policy) => FollowsAnchor(g, policy, p)
<1> DEFINE g == GenerateSteps(source, target, policy, limits)
           s == Subjects(source, target)
           anchors == LastOf(AnchorKinds(policy), KindsOf(g))
<1>1. Named(g, s) /\ HasOrder(g)
  BY GeneratedIs
<1>2. \A k, l \in KindsOf(g) : PlanRank(policy)[l] < PlanRank(policy)[k] => Follows(g, k, l)
  BY RanksFollow
<1>3. {"INSTALL_NEW_ROUTE", "WITHDRAW_OLD_ROUTE"} \subseteq KindsOf(g)
  BY GeneratedIs, Presence
<1> HIDE DEF g, s
<1>4. PICK l \in anchors :
        l \in KindsOf(g) /\ \A k \in LastKinds(policy) : PlanRank(policy)[l] < PlanRank(policy)[k]
  <2>1. CASE policy.ordering = "MAKE_BEFORE_BREAK"
    <3> DEFINE three == LastOf(<<"INSTALL_NEW_ROUTE", "ACTIVATE_NEW_PATH", "VERIFY_NEW_STATE">>,
                               KindsOf(g))
    <3>1. anchors = three
      BY <2>1 DEF AnchorKinds
    <3>2. /\ three # {}
          /\ three \subseteq {"INSTALL_NEW_ROUTE", "ACTIVATE_NEW_PATH", "VERIFY_NEW_STATE"}
          /\ three \subseteq KindsOf(g)
      BY <1>3, LastOfThree, LastIsThere
    <3> HIDE DEF three, anchors
    <3>3. \A l \in three, k \in LastKinds(policy) : PlanRank(policy)[l] < PlanRank(policy)[k]
      BY <2>1, <3>2, Ranks DEF LastKinds, BreakKind, PlanRank
    <3> QED
      BY <3>1, <3>2, <3>3
  <2>2. CASE policy.ordering # "MAKE_BEFORE_BREAK"
    <3> DEFINE three == LastOf(<<"DEACTIVATE_OLD_PATH", "WITHDRAW_OLD_ROUTE", "VERIFY_REMOVAL">>,
                               KindsOf(g))
    <3>1. anchors = three
      BY <2>2 DEF AnchorKinds
    <3>2. /\ three # {}
          /\ three \subseteq {"DEACTIVATE_OLD_PATH", "WITHDRAW_OLD_ROUTE", "VERIFY_REMOVAL"}
          /\ three \subseteq KindsOf(g)
      BY <1>3, LastOfThree, LastIsThere
    <3> HIDE DEF three, anchors
    <3>3. \A l \in three, k \in LastKinds(policy) : PlanRank(policy)[l] < PlanRank(policy)[k]
      BY <2>2, <3>2, Ranks DEF LastKinds, MakeKind, PlanRank
    <3> QED
      BY <3>1, <3>2, <3>3
  <2> QED
    BY <2>1, <2>2
<1>5. PICK q \in DOMAIN g : g[q].kind = l
  BY <1>4 DEF KindsOf
<1>7. FirstOfKind(g, l) = q
  BY <1>1, <1>5, FirstIsIt
<1>6. ASSUME NEW p \in DOMAIN g, g[p].kind \in LastKinds(policy)
      PROVE  FollowsAnchor(g, policy, p)
  <2>1. Follows(g, g[p].kind, g[q].kind)
    BY <1>2, <1>4, <1>5, <1>6 DEF KindsOf
  <2>2. KeyOf(g[q]) \in Ancestors(g, KeyOf(g[p]))
    BY <1>1, <2>1, AncestorsAreFollowed DEF HasOrder
  <2> QED
    BY <1>5, <1>7, <2>2 DEF FollowsAnchor, DependsTransitivelyOn, KindsOf
<1> QED
  BY <1>6 DEF g

\* and the last step for all the others.
LEMMA FinalStepAwaitsAll ==
  ASSUME NEW source \in RouteBinding, NEW target \in RouteBinding, NEW policy, NEW limits
  PROVE  LET g == GenerateSteps(source, target, policy, limits)
         IN \A p \in DOMAIN g : g[p].kind # "FINALIZE" =>
              KeyOf(g[p]) \in Ancestors(g, KeyOf(g[FirstOfKind(g, "FINALIZE")]))
<1> DEFINE g == GenerateSteps(source, target, policy, limits)
           s == Subjects(source, target)
<1>1. Named(g, s) /\ HasOrder(g)
  BY GeneratedIs
<1>2. \A k, l \in KindsOf(g) : PlanRank(policy)[l] < PlanRank(policy)[k] => Follows(g, k, l)
  BY RanksFollow
<1>3. "FINALIZE" \in KindsOf(g) /\ KindsOf(g) \subseteq StepKind
  BY GeneratedIs, Presence
<1> HIDE DEF g, s
<1>4. \A l \in StepKind \ {"FINALIZE"} : PlanRank(policy)[l] < PlanRank(policy)["FINALIZE"]
  <2>1. /\ \A l \in StepKind \ {"FINALIZE"} : MakeRank[l] < MakeRank["FINALIZE"]
        /\ \A l \in StepKind \ {"FINALIZE"} : BreakRank[l] < BreakRank["FINALIZE"]
    BY KindSet, Ranks
  <2> QED
    BY <2>1 DEF PlanRank
<1>5. PICK q \in DOMAIN g : g[q].kind = "FINALIZE"
  BY <1>3 DEF KindsOf
<1>6. FirstOfKind(g, "FINALIZE") = q
  BY <1>1, <1>5, FirstIsIt
<1>7. ASSUME NEW p \in DOMAIN g, g[p].kind # "FINALIZE"
      PROVE  KeyOf(g[p]) \in Ancestors(g, KeyOf(g[q]))
  <2>1. g[p].kind \in KindsOf(g) /\ g[p].kind \in StepKind \ {"FINALIZE"}
    BY <1>3, <1>7 DEF KindsOf
  <2>2. Follows(g, g[q].kind, g[p].kind)
    BY <1>2, <1>3, <1>4, <1>5, <2>1
  <2> QED
    BY <1>1, <2>2, AncestorsAreFollowed DEF HasOrder
<1> QED
  BY <1>6, <1>7 DEF g

\* So the graph conforms, but for the bounds on its steps and dependencies.
LEMMA GeneratedIsConform ==
  ASSUME NEW source \in RouteBinding, NEW target \in RouteBinding,
         NEW policy, policy.parallel \in Nat, Coherent(policy),
         NEW limits, limits.parallel \in Nat \ {0}
  PROVE  ConformanceDefects(GenerateSteps(source, target, policy, limits), policy, limits)
           \subseteq {"STEP_LIMIT", "DEPENDENCY_LIMIT", "TOTAL_DEPENDENCY_LIMIT"}
<1> DEFINE g == GenerateSteps(source, target, policy, limits)
           h == UnboundedSteps(source, target, policy)
           s == Subjects(source, target)
           bound == ParallelBound(policy, limits)
           excused == {"STEP_LIMIT", "DEPENDENCY_LIMIT", "TOTAL_DEPENDENCY_LIMIT"}
<1>1. Declared(g) /\ {"VALIDATE_TARGET", "FINALIZE"} \subseteq KindsOf(g)
  BY GeneratedIs, Presence
<1>2. GraphDefects(g, limits) \subseteq excused
  BY GeneratedIsAccepted
<1>3. \A p \in DOMAIN g : g[p].kind \in LastKinds(policy) => FollowsAnchor(g, policy, p)
  BY LastSideFollowsAnchor
<1>4. \A p \in DOMAIN g : g[p].kind # "FINALIZE" =>
        KeyOf(g[p]) \in Ancestors(g, KeyOf(g[FirstOfKind(g, "FINALIZE")]))
  BY FinalStepAwaitsAll
<1>5. \A layer \in Layers(g) : ~(Cardinality(layer) > bound)
  <2>1. Named(h, s) /\ HasOrder(h)
    BY UnboundedIs, UnboundedHasOrder
  <2>2. bound \in Nat \ {0}
    BY DEF Coherent, ParallelBound
  <2>3. g = Serialised(h, bound)
    BY DEF GenerateSteps
  <2> HIDE DEF g, h, s, bound
  <2> QED
    BY <2>1, <2>2, <2>3, LayersAreBounded
<1> HIDE DEF g
<1>6. KindPositions(g, "VALIDATE_TARGET") # {} /\ KindPositions(g, "FINALIZE") # {}
  BY <1>1 DEF KindPositions, KindsOf
<1>7. \A p \in DOMAIN g : g[p].irreversible = FALSE
  BY <1>1 DEF Declared
<1>8. LastKinds(policy) = IF policy.ordering = "MAKE_BEFORE_BREAK" THEN BreakKind ELSE MakeKind
  BY DEF LastKinds
<1>9. ConformanceDefects(g, policy, limits) \subseteq excused
  BY <1>2, <1>3, <1>4, <1>5, <1>6, <1>7, <1>8 DEF ConformanceDefects, When
<1> QED
  BY <1>9 DEF g

----------------------------------------------------------------------------
\* Pruning

\* Rounds that only add settle after as many rounds as there are things to add.
LEMMA RoundsSettle ==
  ASSUME NEW N \in Nat, NEW F \in [SUBSET (1 .. N) -> SUBSET (1 .. N)],
         \A S \in SUBSET (1 .. N) : S \subseteq F[S],
         NEW f \in [0 .. N -> SUBSET (1 .. N)], f[0] # {},
         \A n \in 1 .. N : f[n] = F[f[n - 1]]
  PROVE  F[f[N]] = f[N]
<1> DEFINE held == {n \in 0 .. N : F[f[n]] = f[n] \/ Cardinality(f[n]) >= n + 1}
<1>1. IsFiniteSet(1 .. N) /\ Cardinality(1 .. N) = N
  BY UpTo
<1>2. \A n \in 0 .. N :
        /\ f[n] \in SUBSET (1 .. N) /\ IsFiniteSet(f[n])
        /\ Cardinality(f[n]) \in Nat /\ Cardinality(f[n]) <= N
  BY <1>1, FS_Subset, FS_CardinalityType
<1>3. 0 \in held
  <2>1. 0 \in 0 .. N /\ Cardinality(f[0]) # 0
    BY <1>2, FS_EmptySet
  <2>2. Cardinality(f[0]) >= 0 + 1
    BY <1>2, <2>1
  <2> QED
    BY <2>1, <2>2
<1>4. ASSUME NEW n \in 1 .. N, n - 1 \in held
      PROVE  n \in held
  <2> DEFINE a == f[n - 1]
             b == f[n]
  <2>1. n - 1 \in 0 .. N /\ n \in 0 .. N /\ b = F[a] /\ a \subseteq b
    <3>1. n - 1 \in 0 .. N /\ n \in 0 .. N
      OBVIOUS
    <3>2. a \in SUBSET (1 .. N)
      BY <1>2, <3>1
    <3>3. a \subseteq F[a]
      BY <3>2
    <3> QED
      BY <3>1, <3>3
  <2>2. CASE F[a] = a
    <3>1. F[b] = b
      BY <2>1, <2>2
    <3> QED
      BY <2>1, <3>1
  <2>3. CASE F[a] # a
    <3>1. Cardinality(a) >= n
      BY <1>4, <2>3
    <3>2. IsFiniteSet(b) /\ a \in SUBSET b /\ a # b
      BY <1>2, <2>1, <2>3
    <3>3. Cardinality(a) < Cardinality(b)
      <4> HIDE DEF a, b
      <4> QED
        BY <3>2, FS_Subset, FS_CardinalityType
    <3>4. Cardinality(a) \in Nat /\ Cardinality(b) \in Nat
      BY <1>2, <2>1
    <3>5. Cardinality(b) >= n + 1
      BY <3>1, <3>3, <3>4
    <3> QED
      BY <2>1, <3>5
  <2> QED
    BY <2>2, <2>3
<1> HIDE DEF held
<1>5. N \in held
  <2>1. 0 .. N \subseteq held
    BY <1>3, <1>4, BoundedInduction
  <2> QED
    BY <2>1
<1>6. F[f[N]] = f[N] \/ Cardinality(f[N]) >= N + 1
  BY <1>5 DEF held
<1> QED
  BY <1>2, <1>6

\* The rounds in which the prune looks through the removed steps.
LEMMA ThroughRuns ==
  ASSUME NEW g \in Seq(Step), NEW removed \in SUBSET DOMAIN g, NEW p \in DOMAIN g
  PROVE  LET loop == Through(g, removed, p)
         IN /\ loop \in [0 .. Len(g) -> SUBSET DOMAIN g]
            /\ loop[0] = {p}
            /\ \A n \in 1 .. Len(g) : loop[n] = Passed(g, removed, loop[n - 1])
<1> DEFINE N == Len(g)
           D == SUBSET DOMAIN g
           loop == Through(g, removed, p)
           F == [S \in D |-> Passed(g, removed, S)]
           G == [z \in Nat \X D |-> F[z[2]]]
<1>1. N \in Nat /\ DOMAIN g = 1 .. N
  OBVIOUS
<1>2. F \in [D -> D] /\ \A S \in D : F[S] = Passed(g, removed, S)
  BY DEF Passed
<1>3. {p} \in D
  OBVIOUS
<1> HIDE DEF F
<1>4. G \in [Nat \X D -> D] /\ \A n \in Nat, S \in D : G[<<n, S>>] = Passed(g, removed, S)
  BY <1>2
<1> HIDE DEF D, G, N
<1>5. PICK f : Iterates(f, N, D, {p}, G)
  BY <1>1, <1>3, <1>4, Iteration
<1>6. /\ f \in [0 .. N -> D] /\ f[0] = {p}
      /\ \A n \in 1 .. N : f[n] = G[<<n, f[n - 1]>>]
  BY <1>5 DEF Iterates
<1>7. ASSUME NEW n \in 1 .. N
      PROVE  f[n] = Passed(g, removed, f[n - 1])
  <2>1. f[n - 1] \in D /\ n \in Nat
    BY <1>1, <1>6
  <2> QED
    BY <1>4, <1>6, <2>1
<1>8. f = [n \in 0 .. N |-> IF n = 0 THEN {p} ELSE Passed(g, removed, f[n - 1])]
  BY <1>1, <1>6, <1>7
<1>9. loop = [n \in 0 .. N |-> IF n = 0 THEN {p} ELSE Passed(g, removed, loop[n - 1])]
  BY <1>8 DEF Through, N
<1> HIDE DEF loop
<1>10. loop[0] = {p} /\ \A n \in 1 .. N : loop[n] = Passed(g, removed, loop[n - 1])
  BY <1>1, <1>9
<1> DEFINE held == {n \in 0 .. N : loop[n] \in D}
<1>11. 0 \in held
  <2>1. 0 \in 0 .. N /\ loop[0] \in D
    BY <1>1, <1>3, <1>10
  <2> QED
    BY <2>1
<1>12. ASSUME NEW n \in 1 .. N, n - 1 \in held
       PROVE  n \in held
  <2>1. loop[n - 1] \in D /\ n \in 0 .. N
    BY <1>1, <1>12
  <2>2. loop[n] \subseteq loop[n - 1] \cup removed
    BY <1>10 DEF Passed
  <2> QED
    BY <2>1, <2>2 DEF D
<1> HIDE DEF held
<1>13. 0 .. N \subseteq held
  BY <1>1, <1>11, <1>12, BoundedInduction
<1>14. loop \in [0 .. N -> D]
  BY <1>9, <1>13 DEF held
<1> QED
  BY <1>10, <1>14 DEF loop, N, D

\* What a step waits for by way of removed ones: it, and the removed steps that
\* one of these waits for.
LEMMA ThroughSettles ==
  ASSUME NEW g \in Seq(Step), NEW removed \in SUBSET DOMAIN g, NEW p \in DOMAIN g
  PROVE  LET all == Through(g, removed, p)[Len(g)]
         IN /\ p \in all /\ all \subseteq removed \cup {p}
            /\ \A q \in removed, r \in all :
                 KeyOf(g[q]) \in Prerequisites(g[r]) => q \in all
<1> DEFINE N == Len(g)
           D == SUBSET DOMAIN g
           loop == Through(g, removed, p)
           F == [S \in D |-> Passed(g, removed, S)]
           right(S) == p \in S /\ S \subseteq removed \cup {p}
           held == {n \in 0 .. N : right(loop[n])}
<1>1. N \in Nat /\ DOMAIN g = 1 .. N
  OBVIOUS
<1>2. F \in [D -> D] /\ \A S \in D : S \subseteq F[S] /\ F[S] = Passed(g, removed, S)
  BY DEF Passed
<1>3. /\ loop \in [0 .. N -> D] /\ loop[0] = {p}
      /\ \A n \in 1 .. N : loop[n] = Passed(g, removed, loop[n - 1])
  BY ThroughRuns
<1> HIDE DEF F, D, N, loop
<1>4. 0 \in held
  BY <1>1, <1>3
<1>5. ASSUME NEW n \in 1 .. N, n - 1 \in held
      PROVE  n \in held
  <2>1. right(loop[n - 1]) /\ n \in 0 .. N
    BY <1>1, <1>5
  <2>2. loop[n] \subseteq loop[n - 1] \cup removed /\ loop[n - 1] \subseteq loop[n]
    BY <1>3 DEF Passed
  <2> QED
    BY <2>1, <2>2
<1> HIDE DEF held
<1>6. 0 .. N \subseteq held
  BY <1>1, <1>4, <1>5, BoundedInduction
<1>7. right(loop[N])
  BY <1>1, <1>6 DEF held
<1>8. Passed(g, removed, loop[N]) = loop[N]
  <2>1. \A n \in 1 .. N : loop[n] = F[loop[n - 1]]
    BY <1>1, <1>2, <1>3
  <2>2. loop[0] # {}
    BY <1>3
  <2>3. F \in [SUBSET (1 .. N) -> SUBSET (1 .. N)] /\ loop \in [0 .. N -> SUBSET (1 .. N)]
        /\ \A S \in SUBSET (1 .. N) : S \subseteq F[S]
    BY <1>1, <1>2, <1>3 DEF D
  <2>4. F[loop[N]] = loop[N]
    BY <1>1, <2>1, <2>2, <2>3, RoundsSettle
  <2> QED
    BY <1>1, <1>2, <1>3, <2>4
<1>9. \A q \in removed, r \in loop[N] :
        KeyOf(g[q]) \in Prerequisites(g[r]) => q \in loop[N]
  BY <1>8 DEF Passed
<1> QED
  BY <1>7, <1>9 DEF loop, N

\* It follows each of these.
LEMMA ThroughIsFollowed ==
  ASSUME NEW g, NEW s, Named(g, s), NEW removed \in SUBSET DOMAIN g, NEW p \in DOMAIN g,
         NEW D, WaitsOf(g, g[p].kind) \subseteq D, Closed(g, D)
  PROVE  \A q \in Through(g, removed, p)[Len(g)] : WaitsOf(g, g[q].kind) \subseteq D
<1> DEFINE N == Len(g)
           loop == Through(g, removed, p)
           right(S) == \A q \in S : WaitsOf(g, g[q].kind) \subseteq D
           held == {n \in 0 .. N : right(loop[n])}
<1>1. g \in Seq(Step) /\ N \in Nat
  BY DEF Named
<1>2. /\ loop \in [0 .. N -> SUBSET DOMAIN g] /\ loop[0] = {p}
      /\ \A n \in 1 .. N : loop[n] = Passed(g, removed, loop[n - 1])
  BY <1>1, ThroughRuns
<1> HIDE DEF N, loop
<1>3. 0 \in held
  BY <1>1, <1>2
<1>4. ASSUME NEW n \in 1 .. N, n - 1 \in held
      PROVE  n \in held
  <2>1. right(loop[n - 1]) /\ n \in 0 .. N /\ loop[n - 1] \subseteq DOMAIN g
    BY <1>1, <1>2, <1>4
  <2>2. ASSUME NEW q \in loop[n]
        PROVE  WaitsOf(g, g[q].kind) \subseteq D
    <3>1. CASE q \in loop[n - 1]
      BY <2>1, <3>1
    <3>2. CASE q \notin loop[n - 1]
      <4>1. PICK r \in loop[n - 1] : q \in removed /\ KeyOf(g[q]) \in Prerequisites(g[r])
        BY <1>2, <3>2 DEF Passed
      <4>2. r \in DOMAIN g /\ q \in DOMAIN g
        BY <2>1, <4>1
      <4>3. g[q].kind \in WaitsOf(g, g[r].kind)
        BY <4>1, <4>2, WaitsAreKinds DEF Predecessors
      <4>4. g[q].kind \in D
        BY <2>1, <4>3
      <4> QED
        BY <4>4 DEF Closed
    <3> QED
      BY <3>1, <3>2
  <2> QED
    BY <2>1, <2>2
<1> HIDE DEF held
<1>5. 0 .. N \subseteq held
  BY <1>1, <1>3, <1>4, BoundedInduction
<1>6. right(loop[N])
  BY <1>1, <1>5 DEF held
<1> QED
  BY <1>6 DEF loop, N

\* Sorting keys keeps them.
LEMMA SortedKeysAre ==
  ASSUME NEW s, NEW S \in SUBSET (StepKind \X Nat), \A key \in S : key = <<key[1], s[key[1]]>>
  PROVE  SortedKeys(S) \in Seq(StepKind \X Nat) /\ Range(SortedKeys(S)) = S
<1> DEFINE o == Selected(Kinds, {key[1] : key \in S})
           d == SortedKeys(S)
<1>1. \A key \in S : key[1] \in StepKind
  OBVIOUS
<1>2. o \in Seq(StepKind) /\ Range(o) = {key[1] : key \in S}
  <2>1. /\ o \in Seq(StepKind)
        /\ Range(o) = Range(Kinds) \cap {key[1] : key \in S}
    BY KindSet, SelectedItems
  <2> QED
    BY <1>1, <2>1, KindSet
<1>3. d = [i \in DOMAIN o |-> CHOOSE key \in S : key[1] = o[i]]
  BY DEF SortedKeys
<1> HIDE DEF o, d
<1>4. DOMAIN o = 1 .. Len(o) /\ Len(o) \in Nat
  BY <1>2
<1>5. ASSUME NEW i \in DOMAIN o
      PROVE  d[i] \in S /\ d[i][1] = o[i]
  <2>1. \E key \in S : key[1] = o[i]
    BY <1>2 DEF Range
  <2> QED
    BY <1>3, <2>1
<1>6. d \in Seq(StepKind \X Nat)
  <2>1. d = [i \in 1 .. Len(o) |-> d[i]]
    BY <1>3, <1>4
  <2>2. \A i \in 1 .. Len(o) : d[i] \in StepKind \X Nat
    BY <1>4, <1>5
  <2> QED
    BY <1>4, <2>1, <2>2
<1>7. ASSUME NEW key \in S
      PROVE  \E i \in DOMAIN o : d[i] = key
  <2>1. PICK i \in DOMAIN o : o[i] = key[1]
    BY <1>2 DEF Range
  <2> QED
    BY <1>5, <2>1
<1>8. Range(d) = S
  <2>1. DOMAIN d = DOMAIN o
    BY <1>3
  <2> QED
    BY <1>5, <1>7, <2>1 DEF Range
<1> QED
  BY <1>6, <1>8 DEF d

\* prune_rollback_steps, step by step: what is kept, waiting for the kept steps
\* that it waited for by way of removed ones.
Removed(g, applied) == {p \in DOMAIN g : g[p].kind \notin KeptKinds(g, applied)}

Contracted(h, i, g, p, removed) ==
  /\ h[i].kind = g[p].kind /\ h[i].subject = g[p].subject
  /\ Prerequisites(h[i]) = ContractedThrough(g, removed, p)

\* These are the steps of the graph, by their names.
LEMMA NamedSteps ==
  ASSUME NEW g, NEW s, Named(g, s)
  PROVE  /\ g \in Seq(Step) /\ ~Duplicated(g)
         /\ \A p, q \in DOMAIN g : g[p].kind = g[q].kind => p = q
         /\ \A p \in DOMAIN g :
              /\ g[p] \in Step /\ g[p].kind \in StepKind /\ g[p].kind \in KindsOf(g)
              /\ g[p].subject = s[g[p].kind]
              /\ KeyOf(g[p]) = <<g[p].kind, s[g[p].kind]>>
              /\ Prerequisites(g[p]) \subseteq StepKind \X Nat
              /\ \A key \in Prerequisites(g[p]) :
                   /\ key = <<key[1], s[key[1]]>>
                   /\ \E q \in DOMAIN g : key = KeyOf(g[q])
<1>1. /\ g \in Seq(Step)
      /\ \A p, q \in DOMAIN g : g[p].kind = g[q].kind => p = q
      /\ \A p \in DOMAIN g : g[p].subject = s[g[p].kind]
      /\ \A p \in DOMAIN g : \A key \in Prerequisites(g[p]) :
           key[1] \in KindsOf(g) /\ key = <<key[1], s[key[1]]>>
  BY DEF Named
<1>2. \A p \in DOMAIN g : g[p] \in Step
  BY <1>1
<1>3. \A p \in DOMAIN g :
        /\ g[p].kind \in StepKind /\ g[p].kind \in KindsOf(g)
        /\ Prerequisites(g[p]) \subseteq StepKind \X Nat
  BY <1>2 DEF Step, KindsOf, Prerequisites, Range
<1>4. \A p \in DOMAIN g : KeyOf(g[p]) = <<g[p].kind, s[g[p].kind]>>
  BY <1>1 DEF KeyOf, Key
<1>5. ~Duplicated(g)
  BY <1>1, <1>4 DEF Duplicated
<1>6. ASSUME NEW p \in DOMAIN g, NEW key \in Prerequisites(g[p])
      PROVE  \E q \in DOMAIN g : key = KeyOf(g[q])
  <2>1. PICK q \in DOMAIN g : g[q].kind = key[1]
    BY <1>1 DEF KindsOf
  <2> QED
    BY <1>1, <1>4, <2>1
<1> QED
  BY <1>1, <1>2, <1>3, <1>4, <1>5, <1>6

\* The keys of a contraction are those of kept steps, and not the step's own.
LEMMA ContractedKeys ==
  ASSUME NEW g, NEW s, Named(g, s), NEW removed \in SUBSET DOMAIN g, NEW p \in DOMAIN g
  PROVE  LET keys == ContractedThrough(g, removed, p)
             all == Through(g, removed, p)[Len(g)]
         IN /\ keys \in SUBSET (StepKind \X Nat)
            /\ \A key \in keys : key = <<key[1], s[key[1]]>>
            /\ \A q \in DOMAIN g :
                 KeyOf(g[q]) \in keys
                   <=> /\ q \notin removed /\ q # p
                       /\ \E r \in all : KeyOf(g[q]) \in Prerequisites(g[r])
            /\ \A key \in keys : \E q \in DOMAIN g : key = KeyOf(g[q])
<1> DEFINE keys == ContractedThrough(g, removed, p)
           all == Through(g, removed, p)[Len(g)]
<1>1. g \in Seq(Step)
  BY DEF Named
<1>2. p \in all /\ all \subseteq removed \cup {p}
  BY <1>1, ThroughSettles
<1>3. all \subseteq DOMAIN g
  BY <1>2
<1>4. \A key : key \in keys <=> /\ \E r \in all : key \in Prerequisites(g[r])
                                /\ \A q \in removed \cup {p} : key # KeyOf(g[q])
  BY DEF ContractedThrough
<1> HIDE DEF keys, all
<1>5. \A key \in keys :
        /\ key \in StepKind \X Nat /\ key = <<key[1], s[key[1]]>>
        /\ \E q \in DOMAIN g : key = KeyOf(g[q])
  BY <1>3, <1>4, NamedSteps
<1>6. \A q, r \in DOMAIN g : KeyOf(g[q]) = KeyOf(g[r]) => q = r
  BY NamedSteps DEF Duplicated
<1>7. ASSUME NEW q \in DOMAIN g
      PROVE  KeyOf(g[q]) \in keys
               <=> /\ q \notin removed /\ q # p
                   /\ \E r \in all : KeyOf(g[q]) \in Prerequisites(g[r])
  <2>1. (\A m \in removed \cup {p} : KeyOf(g[q]) # KeyOf(g[m])) <=> q \notin removed /\ q # p
    BY <1>6
  <2> QED
    BY <1>4, <2>1
<1> QED
  BY <1>5, <1>7 DEF keys, all

LEMMA PrunedSteps ==
  ASSUME NEW g, NEW s, Named(g, s), Linked(g), NEW applied
  PROVE  LET h == PruneRollbackSteps(g, applied)
             removed == Removed(g, applied)
         IN /\ h \in Seq(Step)
            /\ \A i, j \in DOMAIN h : h[i].kind = h[j].kind => i = j
            /\ \A i \in DOMAIN h : \E p \in DOMAIN g \ removed : Contracted(h, i, g, p, removed)
            /\ \A p \in DOMAIN g \ removed : \E i \in DOMAIN h : Contracted(h, i, g, p, removed)
<1> DEFINE h == PruneRollbackSteps(g, applied)
           removed == Removed(g, applied)
           left == Selected([p \in DOMAIN g |-> p], DOMAIN g \ removed)
           keys(p) == ContractedThrough(g, removed, p)
<1>1. /\ g \in Seq(Step)
      /\ \A p, q \in DOMAIN g : g[p].kind = g[q].kind => p = q
      /\ \A p \in DOMAIN g : g[p] \in Step
  BY NamedSteps
<1>2. removed \in SUBSET DOMAIN g
  BY DEF Removed
<1>3. CASE removed = {}
  <2>1. h = g
    BY <1>3 DEF PruneRollbackSteps, Removed
  <2>2. ASSUME NEW p \in DOMAIN g
        PROVE  Contracted(g, p, g, p, removed)
    <3> DEFINE all == Through(g, removed, p)[Len(g)]
    <3>0. p \in all /\ all \subseteq removed \cup {p}
      <4> HIDE DEF removed
      <4> QED
        BY <1>1, <1>2, ThroughSettles
    <3> HIDE DEF all
    <3>1. all = {p}
      BY <1>3, <3>0
    <3>2. KeyOf(g[p]) \notin Prerequisites(g[p])
      BY DEF Linked
    <3>3. keys(p) = Prerequisites(g[p])
      BY <1>3, <3>1, <3>2 DEF ContractedThrough, all
    <3> QED
      BY <3>3 DEF Contracted
  <2> HIDE DEF removed, h
  <2>3. \A i \in DOMAIN g : \E p \in DOMAIN g \ removed : Contracted(g, i, g, p, removed)
    BY <1>3, <2>2
  <2>4. \A p \in DOMAIN g \ removed : \E i \in DOMAIN g : Contracted(g, i, g, p, removed)
    BY <2>2
  <2> QED
    BY <1>1, <2>1, <2>3, <2>4 DEF h, removed
<1>4. CASE removed # {}
  <2>1. h = [i \in DOMAIN left |-> [g[left[i]] EXCEPT !.deps = SortedKeys(keys(left[i]))]]
    BY <1>4 DEF PruneRollbackSteps, Removed
  <2>2. left \in Seq(DOMAIN g) /\ Range(left) = DOMAIN g \ removed /\ IsInjective(left)
    <3> DEFINE places == [p \in DOMAIN g |-> p]
    <3>1. DOMAIN g = 1 .. Len(g) /\ Len(g) \in Nat
      BY <1>1
    <3>2. places \in Seq(DOMAIN g) /\ IsInjective(places) /\ Range(places) = DOMAIN g
      BY <3>1 DEF IsInjective, Range
    <3> HIDE DEF places, removed
    <3>3. /\ Selected(places, DOMAIN g \ removed) \in Seq(DOMAIN g)
          /\ Range(Selected(places, DOMAIN g \ removed)) = Range(places) \cap (DOMAIN g \ removed)
          /\ IsInjective(Selected(places, DOMAIN g \ removed))
      BY <3>2, SelectedItems
    <3> QED
      BY <3>2, <3>3 DEF places
  <2> HIDE DEF h, left, removed
  <2>3. /\ DOMAIN left = 1 .. Len(left) /\ Len(left) \in Nat
        /\ \A i \in DOMAIN left : left[i] \in DOMAIN g \ removed
    BY <2>2 DEF Range
  <2>4. ASSUME NEW i \in DOMAIN left
        PROVE  h[i] \in Step /\ Contracted(h, i, g, left[i], removed)
    <3> DEFINE p == left[i]
               e == SortedKeys(keys(p))
    <3>1. p \in DOMAIN g /\ g[p] \in Step
      BY <1>1, <2>3
    <3>2. h[i] = [g[p] EXCEPT !.deps = e]
      BY <2>1
    <3> HIDE DEF p
    <3>3. keys(p) \in SUBSET (StepKind \X Nat) /\ \A key \in keys(p) : key = <<key[1], s[key[1]]>>
      BY <1>2, <3>1, ContractedKeys
    <3> HIDE DEF keys
    <3>4. e \in Seq(StepKind \X Nat) /\ Range(e) = keys(p)
      BY <3>3, SortedKeysAre
    <3> HIDE DEF e
    <3>5. h[i] \in Step /\ h[i].kind = g[p].kind /\ h[i].subject = g[p].subject /\ h[i].deps = e
      BY <3>1, <3>2, <3>4 DEF Step
    <3> QED
      BY <3>4, <3>5 DEF Contracted, Prerequisites, keys, p
  <2>5. DOMAIN h = DOMAIN left /\ h \in Seq(Step)
    <3>1. DOMAIN h = DOMAIN left /\ h = [i \in 1 .. Len(left) |-> h[i]]
      BY <2>1, <2>3
    <3>2. \A i \in 1 .. Len(left) : h[i] \in Step
      BY <2>3, <2>4
    <3> QED
      BY <2>3, <3>1, <3>2
  <2>6. ASSUME NEW i \in DOMAIN h, NEW j \in DOMAIN h, h[i].kind = h[j].kind
        PROVE  i = j
    <3>1. left[i] \in DOMAIN g /\ left[j] \in DOMAIN g /\ g[left[i]].kind = g[left[j]].kind
      BY <2>3, <2>4, <2>5, <2>6 DEF Contracted
    <3>2. left[i] = left[j]
      BY <1>1, <3>1
    <3> QED
      BY <2>2, <2>5, <3>2 DEF IsInjective
  <2>7. \A p \in DOMAIN g \ removed : \E i \in DOMAIN h : Contracted(h, i, g, p, removed)
    BY <2>2, <2>4, <2>5 DEF Range
  <2>8. \A i \in DOMAIN h : \E p \in DOMAIN g \ removed : Contracted(h, i, g, p, removed)
    BY <2>3, <2>4, <2>5
  <2> QED
    BY <2>5, <2>6, <2>7, <2>8 DEF h, removed
<1> QED
  BY <1>3, <1>4

\* What is kept, and that a step follows in the pruned graph just what it
\* followed in the whole one.
LEMMA PrunedIs ==
  ASSUME NEW g, NEW s, Named(g, s), Linked(g), NEW applied
  PROVE  LET h == PruneRollbackSteps(g, applied)
             kept == KeptKinds(g, applied)
         IN /\ Named(h, s)
            /\ Linked(h)
            /\ KindsOf(h) = kept
            /\ \A k, l \in kept : k # l /\ Follows(g, k, l) => Follows(h, k, l)
            /\ \A k, l \in kept : Follows(h, k, l) => Follows(g, k, l)
<1> DEFINE h == PruneRollbackSteps(g, applied)
           kept == KeptKinds(g, applied)
           removed == Removed(g, applied)
           all(p) == Through(g, removed, p)[Len(g)]
           keys(p) == ContractedThrough(g, removed, p)
<1>1. /\ g \in Seq(Step)
      /\ \A p, q \in DOMAIN g : g[p].kind = g[q].kind => p = q
      /\ \A p \in DOMAIN g :
           /\ g[p].kind \in StepKind /\ g[p].kind \in KindsOf(g)
           /\ g[p].subject = s[g[p].kind]
           /\ KeyOf(g[p]) = <<g[p].kind, s[g[p].kind]>>
  BY NamedSteps
<1>2. kept \subseteq KindsOf(g)
  BY DEF KeptKinds, KindsOf
<1>3. removed \in SUBSET DOMAIN g /\ \A p \in DOMAIN g : p \in removed <=> g[p].kind \notin kept
  BY DEF Removed
<1>4. /\ h \in Seq(Step)
      /\ \A i, j \in DOMAIN h : h[i].kind = h[j].kind => i = j
      /\ \A i \in DOMAIN h : \E p \in DOMAIN g \ removed : Contracted(h, i, g, p, removed)
      /\ \A p \in DOMAIN g \ removed : \E i \in DOMAIN h : Contracted(h, i, g, p, removed)
  BY PrunedSteps
<1> HIDE DEF h, removed, kept, keys
<1>5. KindsOf(h) = kept
  <2>1. \A k \in kept : \E i \in DOMAIN h : h[i].kind = k
    <3> SUFFICES ASSUME NEW k \in kept
                 PROVE  \E i \in DOMAIN h : h[i].kind = k
      OBVIOUS
    <3>1. PICK p \in DOMAIN g : g[p].kind = k
      BY <1>2 DEF KindsOf
    <3> QED
      BY <1>3, <1>4, <3>1 DEF Contracted
  <2>2. \A i \in DOMAIN h : h[i].kind \in kept
    BY <1>3, <1>4 DEF Contracted
  <2> QED
    BY <2>1, <2>2 DEF KindsOf
<1>6. ASSUME NEW p \in DOMAIN g \ removed
      PROVE  /\ \A key \in keys(p) : key = <<key[1], s[key[1]]>>
             /\ \A key \in keys(p) : \E q \in DOMAIN g \ removed : q # p /\ key = KeyOf(g[q])
             /\ \A q \in DOMAIN g \ removed :
                  KeyOf(g[q]) \in keys(p)
                    <=> q # p /\ \E r \in all(p) : KeyOf(g[q]) \in Prerequisites(g[r])
  <2> HIDE DEF all
  <2>1. /\ \A key \in keys(p) : key = <<key[1], s[key[1]]>>
        /\ \A q \in DOMAIN g :
             KeyOf(g[q]) \in keys(p)
               <=> /\ q \notin removed /\ q # p
                   /\ \E r \in all(p) : KeyOf(g[q]) \in Prerequisites(g[r])
        /\ \A key \in keys(p) : \E q \in DOMAIN g : key = KeyOf(g[q])
    BY <1>3, ContractedKeys DEF keys, all
  <2> QED
    BY <2>1
<1>7. Named(h, s)
  <2>1. ASSUME NEW i \in DOMAIN h
        PROVE  /\ h[i].subject = s[h[i].kind]
               /\ \A key \in Prerequisites(h[i]) :
                    key[1] \in KindsOf(h) /\ key = <<key[1], s[key[1]]>>
    <3>1. PICK p \in DOMAIN g \ removed : Contracted(h, i, g, p, removed)
      BY <1>4
    <3>2. ASSUME NEW key \in keys(p)
          PROVE  key[1] \in KindsOf(h) /\ key = <<key[1], s[key[1]]>>
      <4>1. PICK q \in DOMAIN g \ removed : key = KeyOf(g[q])
        BY <1>6, <3>2
      <4>2. key[1] = g[q].kind /\ g[q].kind \in kept
        BY <1>1, <1>3, <4>1
      <4> QED
        BY <1>5, <1>6, <3>2, <4>2
    <3> QED
      BY <1>1, <3>1, <3>2 DEF Contracted, keys
  <2> QED
    BY <1>4, <2>1 DEF Named
<1>8. Linked(h)
  <2>1. ~Duplicated(h) /\ \A i \in DOMAIN h : KeyOf(h[i]) = <<h[i].kind, s[h[i].kind]>>
    BY <1>7, NamedSteps
  <2>2. ASSUME NEW i \in DOMAIN h, NEW key \in Prerequisites(h[i])
        PROVE  Positions(h, key) # {} /\ key # KeyOf(h[i])
    <3>1. \E j \in DOMAIN h : key = KeyOf(h[j])
      BY <1>7, NamedSteps
    <3>2. PICK p \in DOMAIN g \ removed : Contracted(h, i, g, p, removed)
      BY <1>4
    <3>3. KeyOf(h[i]) = KeyOf(g[p]) /\ key \in keys(p)
      BY <3>2 DEF Contracted, KeyOf, keys
    <3>4. KeyOf(g[p]) \notin keys(p)
      BY <1>6
    <3> QED
      BY <3>1, <3>3, <3>4 DEF Positions
  <2> QED
    BY <2>1, <2>2 DEF Linked
<1>9. ASSUME NEW p \in DOMAIN g \ removed, NEW q \in DOMAIN g \ removed
      PROVE  g[q].kind \in WaitsOf(h, g[p].kind)
               <=> q # p /\ \E r \in all(p) : KeyOf(g[q]) \in Prerequisites(g[r])
  <2> HIDE DEF all
  <2>1. PICK i \in DOMAIN h : Contracted(h, i, g, p, removed)
    BY <1>4
  <2>2. PICK j \in DOMAIN h : Contracted(h, j, g, q, removed)
    BY <1>4
  <2>3. h[i].kind = g[p].kind /\ h[j].kind = g[q].kind /\ KeyOf(h[j]) = KeyOf(g[q])
    BY <2>1, <2>2 DEF Contracted, KeyOf
  <2>4. j \in Predecessors(h, i) <=> g[q].kind \in WaitsOf(h, g[p].kind)
    BY <1>7, <2>3, WaitsAreKinds
  <2>5. j \in Predecessors(h, i) <=> KeyOf(g[q]) \in keys(p)
    BY <2>1, <2>3 DEF Predecessors, Contracted, keys
  <2> QED
    BY <1>6, <2>4, <2>5
<1>10. ASSUME NEW p \in DOMAIN g
       PROVE  /\ p \in all(p) /\ all(p) \subseteq removed \cup {p} /\ all(p) \subseteq DOMAIN g
              /\ \A q \in removed, r \in all(p) :
                   KeyOf(g[q]) \in Prerequisites(g[r]) => q \in all(p)
  <2>1. /\ p \in all(p) /\ all(p) \subseteq removed \cup {p}
        /\ \A q \in removed, r \in all(p) :
             KeyOf(g[q]) \in Prerequisites(g[r]) => q \in all(p)
    BY <1>1, <1>3, ThroughSettles
  <2> HIDE DEF all
  <2> QED
    BY <1>3, <2>1
<1>11. ASSUME NEW p \in DOMAIN g, NEW D, WaitsOf(g, g[p].kind) \subseteq D, Closed(g, D),
              NEW r \in all(p)
       PROVE  WaitsOf(g, g[r].kind) \subseteq D
  BY <1>3, <1>11, ThroughIsFollowed
<1> HIDE DEF all
<1>12. ASSUME NEW k \in kept, NEW l \in kept, k # l, Follows(g, k, l)
       PROVE  Follows(h, k, l)
  <2> SUFFICES ASSUME NEW E \in SUBSET KindsOf(h), WaitsOf(h, k) \subseteq E, Closed(h, E)
               PROVE  l \in E
    BY DEF Follows
  <2> DEFINE X == E \cup {k}
             R == {r \in removed : \E p \in DOMAIN g : g[p].kind \in X /\ r \in all(p)}
             D == X \cup {g[r].kind : r \in R}
  <2>1. X \subseteq kept
    BY <1>5
  <2>2. ASSUME NEW p \in DOMAIN g, g[p].kind \in X, NEW r \in all(p),
               NEW q \in DOMAIN g, KeyOf(g[q]) \in Prerequisites(g[r])
        PROVE  g[q].kind \in D
    <3>1. CASE q \in removed
      <4>1. q \in all(p)
        BY <1>10, <2>2, <3>1
      <4>2. q \in R
        BY <2>2, <3>1, <4>1
      <4> QED
        BY <4>2
    <3>2. CASE q = p
      BY <2>2, <3>2
    <3>3. CASE q \notin removed /\ q # p
      <4>1. p \in DOMAIN g \ removed /\ q \in DOMAIN g \ removed
        BY <1>3, <2>1, <2>2, <3>3
      <4>2. g[q].kind \in WaitsOf(h, g[p].kind)
        BY <1>9, <2>2, <3>3, <4>1
      <4>3. g[q].kind \in E
        BY <2>2, <4>2 DEF Closed
      <4> QED
        BY <4>3
    <3> QED
      BY <3>1, <3>2, <3>3
  <2>3. D \in SUBSET KindsOf(g)
    <3>1. \A r \in R : g[r].kind \in KindsOf(g)
      BY <1>1, <1>3
    <3> QED
      BY <1>2, <2>1, <3>1
  <2>4. \A m \in D : \E p \in DOMAIN g, r \in DOMAIN g :
          g[p].kind \in X /\ r \in all(p) /\ g[r].kind = m
    <3>1. ASSUME NEW m \in X
          PROVE  \E p \in DOMAIN g, r \in DOMAIN g :
                   g[p].kind \in X /\ r \in all(p) /\ g[r].kind = m
      <4>1. PICK p \in DOMAIN g : g[p].kind = m
        BY <1>2, <2>1 DEF KindsOf
      <4> QED
        BY <1>10, <4>1
    <3> QED
      BY <1>3, <3>1
  <2>5. ASSUME NEW m \in D
        PROVE  WaitsOf(g, m) \subseteq D
    <3> SUFFICES ASSUME NEW w \in WaitsOf(g, m)
                 PROVE  w \in D
      OBVIOUS
    <3>1. PICK p \in DOMAIN g, r \in DOMAIN g :
            g[p].kind \in X /\ r \in all(p) /\ g[r].kind = m
      BY <2>4
    <3>2. w \in KindsOf(g) /\ <<w, s[w]>> \in Prerequisites(g[r])
      BY <3>1, WaitsAreKinds
    <3>3. PICK q \in DOMAIN g : g[q].kind = w
      BY <3>2 DEF KindsOf
    <3>4. KeyOf(g[q]) = <<w, s[w]>>
      BY <1>1, <3>3
    <3> HIDE DEF D
    <3> QED
      BY <2>2, <3>1, <3>2, <3>3, <3>4
  <2>6. l \in D
    <3>1. k \in D
      OBVIOUS
    <3> HIDE DEF D
    <3> QED
      BY <1>12, <2>3, <2>5, <3>1 DEF Follows, Closed
  <2>7. \A r \in R : g[r].kind \notin kept
    BY <1>3
  <2> QED
    BY <1>12, <2>6, <2>7
<1>13. ASSUME NEW k \in kept, NEW l \in kept, Follows(h, k, l)
       PROVE  Follows(g, k, l)
  <2> SUFFICES ASSUME NEW D \in SUBSET KindsOf(g), WaitsOf(g, k) \subseteq D, Closed(g, D)
               PROVE  l \in D
    BY DEF Follows
  <2> DEFINE E == D \cap kept
  <2>1. ASSUME NEW m \in kept, WaitsOf(g, m) \subseteq D
        PROVE  WaitsOf(h, m) \subseteq E
    <3> SUFFICES ASSUME NEW w \in WaitsOf(h, m)
                 PROVE  w \in D /\ w \in kept
      OBVIOUS
    <3>1. PICK p \in DOMAIN g : g[p].kind = m
      BY <1>2 DEF KindsOf
    <3>2. p \in DOMAIN g \ removed
      BY <1>3, <3>1
    <3>3. w \in KindsOf(h)
      <4>1. PICK i \in DOMAIN h : h[i].kind = m
        BY <1>5 DEF KindsOf
      <4> QED
        BY <1>7, <4>1, WaitsAreKinds
    <3>4. PICK q \in DOMAIN g : g[q].kind = w
      BY <1>2, <1>5, <3>3 DEF KindsOf
    <3>5. q \in DOMAIN g \ removed
      BY <1>3, <1>5, <3>3, <3>4
    <3>6. PICK r \in all(p) : KeyOf(g[q]) \in Prerequisites(g[r])
      BY <1>9, <3>1, <3>2, <3>4, <3>5
    <3>7. r \in DOMAIN g /\ WaitsOf(g, g[r].kind) \subseteq D
      BY <1>10, <1>11, <2>1, <3>1
    <3>8. g[q].kind \in WaitsOf(g, g[r].kind)
      BY <3>6, <3>7, WaitsAreKinds DEF Predecessors
    <3> QED
      BY <1>5, <3>3, <3>4, <3>7, <3>8
  <2>2. E \in SUBSET KindsOf(h)
    BY <1>5
  <2>3. WaitsOf(h, k) \subseteq E
    BY <2>1
  <2>4. Closed(h, E)
    BY <2>1 DEF Closed
  <2>5. l \in E
    <3> HIDE DEF E
    <3> QED
      BY <1>13, <2>2, <2>3, <2>4 DEF Follows
  <2> QED
    BY <2>5
<1> QED
  BY <1>5, <1>7, <1>8, <1>12, <1>13 DEF h, kept

\* So for a graph that can be ordered, the ancestors that a kept step has among
\* the kept ones are those it had before.
LEMMA PruningKeepsAncestors ==
  ASSUME NEW g, NEW s, Named(g, s), HasOrder(g), NEW applied, NEW p \in DOMAIN g
  PROVE  LET h == PruneRollbackSteps(g, applied)
             kept == {KeyOf(h[i]) : i \in DOMAIN h}
         IN KeyOf(g[p]) \in kept =>
              Ancestors(h, KeyOf(g[p])) = Ancestors(g, KeyOf(g[p])) \cap kept
<1> DEFINE h == PruneRollbackSteps(g, applied)
           kept == {KeyOf(h[i]) : i \in DOMAIN h}
           K == KeptKinds(g, applied)
<1>1. Linked(g)
  BY DEF HasOrder
<1>2. /\ Named(h, s) /\ Linked(h) /\ KindsOf(h) = K
      /\ \A k, l \in K : k # l /\ Follows(g, k, l) => Follows(h, k, l)
      /\ \A k, l \in K : Follows(h, k, l) => Follows(g, k, l)
  BY <1>1, PrunedIs
<1>3. K \subseteq KindsOf(g)
  BY DEF KeptKinds, KindsOf
<1>4. \A k \in K : ~Follows(g, k, k)
  BY <1>3, NothingFollowsItself
<1> HIDE DEF h, K
<1>5. \A q \in DOMAIN g : KeyOf(g[q]) = <<g[q].kind, s[g[q].kind]>>
  BY NamedSteps
<1>6. \A i \in DOMAIN h : /\ KeyOf(h[i]) = <<h[i].kind, s[h[i].kind]>>
                          /\ h[i].kind \in K
  BY <1>2, NamedSteps
<1> SUFFICES ASSUME KeyOf(g[p]) \in kept
             PROVE  Ancestors(h, KeyOf(g[p])) = Ancestors(g, KeyOf(g[p])) \cap kept
  BY DEF h
<1>7. PICK i \in DOMAIN h : KeyOf(h[i]) = KeyOf(g[p])
  BY DEF kept
<1>8. h[i].kind = g[p].kind
  BY <1>5, <1>6, <1>7
<1>9. Ancestors(h, KeyOf(g[p])) \subseteq kept
  BY <1>2, <1>7, AncestorsAreFollowed
<1>10. ASSUME NEW j \in DOMAIN h
       PROVE  KeyOf(h[j]) \in Ancestors(h, KeyOf(g[p]))
                <=> KeyOf(h[j]) \in Ancestors(g, KeyOf(g[p]))
  <2>1. PICK q \in DOMAIN g : g[q].kind = h[j].kind
    BY <1>3, <1>6 DEF KindsOf
  <2>2. KeyOf(g[q]) = KeyOf(h[j])
    BY <1>5, <1>6, <2>1
  <2>3. KeyOf(h[j]) \in Ancestors(h, KeyOf(h[i])) <=> Follows(h, h[i].kind, h[j].kind)
    BY <1>2, AncestorsAreFollowed
  <2>4. KeyOf(g[q]) \in Ancestors(g, KeyOf(g[p])) <=> Follows(g, g[p].kind, g[q].kind)
    BY <1>1, AncestorsAreFollowed
  <2>5. Follows(h, h[i].kind, h[j].kind) <=> Follows(g, g[p].kind, g[q].kind)
    BY <1>2, <1>4, <1>6, <1>8, <2>1
  <2> QED
    BY <1>7, <2>2, <2>3, <2>4, <2>5
<1>11. \A key \in kept : key \in Ancestors(h, KeyOf(g[p])) <=> key \in Ancestors(g, KeyOf(g[p]))
  BY <1>10
<1> HIDE DEF kept
<1> QED
  BY <1>9, <1>11

----------------------------------------------------------------------------
\* The work of a plan

\* The order of a graph, kept by its shape: what is closed under the waits and
\* has those of a step of the last side has every step of the first.
WorkKinds(work) == {work[p].kind : p \in DOMAIN work}

InOrder(work, policy) ==
  \A p, q \in DOMAIN work :
    work[p].kind \in LastKinds(policy) /\ work[q].kind \in FirstKinds(policy) =>
      \A C \in SUBSET DOMAIN work :
        work[p].waits \subseteq C /\ (\A r \in C : work[r].waits \subseteq C) => q \in C

Sound(work, policy) ==
  /\ work \in [DOMAIN work -> [kind : StepKind, waits : SUBSET DOMAIN work]]
  /\ InOrder(work, policy)

\* A rollback plan has what undoes each of the kinds.
Compensates(work, applied) ==
  /\ "INSTALL_NEW_ROUTE" \in applied => "WITHDRAW_OLD_ROUTE" \in WorkKinds(work)
  /\ "ACTIVATE_NEW_PATH" \in applied => "DEACTIVATE_OLD_PATH" \in WorkKinds(work)
  /\ "DEACTIVATE_OLD_PATH" \in applied => "ACTIVATE_NEW_PATH" \in WorkKinds(work)
  /\ "WITHDRAW_OLD_ROUTE" \in applied => "INSTALL_NEW_ROUTE" \in WorkKinds(work)

\* The shape of a graph keeps its kinds and its order.
LEMMA ShapeIs ==
  ASSUME NEW g, NEW s, Named(g, s), NEW policy, Orderly(g, policy)
  PROVE  Sound(Shape(g), policy) /\ WorkKinds(Shape(g)) = KindsOf(g)
<1> DEFINE w == Shape(g)
<1>1. w = [p \in DOMAIN g |-> [kind |-> g[p].kind, waits |-> Predecessors(g, p)]]
  BY DEF Shape
<1> HIDE DEF w
<1>2. \A p \in DOMAIN g : w[p].kind = g[p].kind /\ w[p].waits = Predecessors(g, p)
  BY <1>1
<1>3. DOMAIN w = DOMAIN g
  BY <1>1
<1>4. \A p \in DOMAIN g : g[p].kind \in StepKind
  <2>1. g \in Seq(Step)
    BY DEF Named
  <2>2. \A p \in DOMAIN g : g[p] \in Step
    BY <2>1
  <2> QED
    BY <2>2 DEF Step
<1>5. \A p \in DOMAIN g : Predecessors(g, p) \subseteq DOMAIN g
  BY DEF Predecessors
<1>6. w \in [DOMAIN w -> [kind : StepKind, waits : SUBSET DOMAIN w]]
  BY <1>1, <1>4, <1>5
<1>7. WorkKinds(w) = KindsOf(g)
  BY <1>2, <1>3 DEF WorkKinds, KindsOf
<1>8. InOrder(w, policy)
  <2> SUFFICES ASSUME NEW p \in DOMAIN w, NEW q \in DOMAIN w,
                      w[p].kind \in LastKinds(policy), w[q].kind \in FirstKinds(policy),
                      NEW C \in SUBSET DOMAIN w, w[p].waits \subseteq C,
                      \A r \in C : w[r].waits \subseteq C
               PROVE  q \in C
    BY DEF InOrder
  <2> DEFINE D == {g[r].kind : r \in C}
  <2>1. D \in SUBSET KindsOf(g)
    BY <1>3 DEF KindsOf
  <2>2. ASSUME NEW r \in DOMAIN g, Predecessors(g, r) \subseteq C
        PROVE  WaitsOf(g, g[r].kind) \subseteq D
    <3> SUFFICES ASSUME NEW m \in WaitsOf(g, g[r].kind)
                 PROVE  m \in D
      OBVIOUS
    <3>1. m \in KindsOf(g)
      BY WaitsAreKinds
    <3>2. PICK o \in DOMAIN g : g[o].kind = m
      BY <3>1 DEF KindsOf
    <3>3. o \in Predecessors(g, r)
      BY <3>2, WaitsAreKinds
    <3> QED
      BY <2>2, <3>2, <3>3
  <2>3. WaitsOf(g, g[p].kind) \subseteq D
    BY <1>2, <1>3, <2>2
  <2>4. \A m \in D : WaitsOf(g, m) \subseteq D
    <3>1. \A r \in C : WaitsOf(g, g[r].kind) \subseteq D
      BY <1>2, <1>3, <2>2
    <3> QED
      BY <3>1
  <2>5. Follows(g, g[p].kind, g[q].kind)
    <3>1. g[p].kind \in LastKinds(policy) \cap KindsOf(g)
          /\ g[q].kind \in FirstKinds(policy) \cap KindsOf(g)
      BY <1>2, <1>3 DEF KindsOf
    <3> QED
      BY <3>1 DEF Orderly
  <2>6. g[q].kind \in D
    <3> HIDE DEF D
    <3> QED
      BY <2>1, <2>3, <2>4, <2>5 DEF Follows, Closed
  <2>7. PICK r \in C : g[r].kind = g[q].kind
    BY <2>6
  <2>8. r = q
    BY <1>3, <2>7 DEF Named
  <2> QED
    BY <2>7, <2>8
<1> QED
  BY <1>6, <1>7, <1>8 DEF Sound, w

\* Without steps there is nothing to be done.
LEMMA NoWork ==
  ASSUME NEW policy
  PROVE  /\ Shape(<<>>) = <<>> /\ DOMAIN <<>> = {}
         /\ Sound(<<>>, policy) /\ WorkKinds(<<>>) = {}
<1>1. DOMAIN <<>> = {}
  OBVIOUS
<1>2. Shape(<<>>) = <<>>
  BY <1>1 DEF Shape
<1>3. Sound(<<>>, policy)
  BY <1>1 DEF Sound, InOrder
<1> QED
  BY <1>1, <1>2, <1>3 DEF WorkKinds

\* What create_plan accepts.
LEMMA AcceptedIs ==
  ASSUME NEW t \in Transitions
  PROVE  LET w == AcceptedSteps(t)
         IN /\ Sound(w, t.policy)
            /\ WorkKinds(w) \subseteq PresentKinds(t.source, t.target, t.policy)
            /\ w # <<>> => WorkKinds(w) = PresentKinds(t.source, t.target, t.policy)
<1> DEFINE g == GenerateSteps(t.source, t.target, t.policy, Limits)
<1>1. t.source \in RouteBinding /\ t.target \in RouteBinding
  BY TransitionsAssumption
<1>2. /\ Named(g, Subjects(t.source, t.target))
      /\ KindsOf(g) = PresentKinds(t.source, t.target, t.policy)
  BY <1>1, GeneratedIs
<1>3. Orderly(g, t.policy)
  BY <1>1, GeneratedIsOrderly
<1>4. AcceptedSteps(t) = Shape(g) \/ AcceptedSteps(t) = <<>>
  BY DEF AcceptedSteps
<1> HIDE DEF g
<1>5. Sound(Shape(g), t.policy)
      /\ WorkKinds(Shape(g)) = PresentKinds(t.source, t.target, t.policy)
  BY <1>2, <1>3, ShapeIs
<1>6. Sound(<<>>, t.policy) /\ WorkKinds(<<>>) = {}
  BY NoWork
<1> QED
  BY <1>4, <1>5, <1>6

\* The two directions of a transition have the same paths to change.
LEMMA BothWays ==
  ASSUME NEW source, NEW target, NEW policy, NEW k \in {"ACTIVATE_NEW_PATH", "DEACTIVATE_OLD_PATH"}
  PROVE  k \in PresentKinds(source, target, policy) <=> source.path # target.path
BY Presence

\* What begin_rollback accepts.
LEMMA CompensationIs ==
  ASSUME NEW source \in RouteBinding, NEW target \in RouteBinding, NEW policy,
         NEW applied \in SUBSET PresentKinds(source, target, policy)
  PROVE  LET w == Shape(RollbackSteps(target, source, policy, Limits, applied))
         IN /\ Sound(w, policy)
            /\ WorkKinds(w) \subseteq PresentKinds(target, source, policy)
            /\ w # <<>> => Compensates(w, applied)
<1> DEFINE g == GenerateSteps(target, source, policy, Limits)
           h == PruneRollbackSteps(g, applied)
           s == Subjects(target, source)
           P == PresentKinds(target, source, policy)
           kept == KeptKinds(g, applied)
<1>1. Named(g, s) /\ KindsOf(g) = P /\ Linked(g)
  BY GeneratedIs DEF HasOrder
<1>2. Orderly(g, policy)
  BY GeneratedIsOrderly
<1>3. /\ "INSTALL_NEW_ROUTE" \in P /\ "WITHDRAW_OLD_ROUTE" \in P
      /\ \A k \in {"ACTIVATE_NEW_PATH", "DEACTIVATE_OLD_PATH"} : k \in P <=> target.path # source.path
      /\ \A k \in {"ACTIVATE_NEW_PATH", "DEACTIVATE_OLD_PATH"} :
           k \in applied => source.path # target.path
  BY Presence, BothWays
<1>4. RollbackSteps(target, source, policy, Limits, applied) \in {g, h, <<>>}
  BY DEF RollbackSteps
<1> HIDE DEF g, s, P
<1>5. /\ Named(h, s) /\ KindsOf(h) = kept
      /\ \A k, l \in kept : k # l /\ Follows(g, k, l) => Follows(h, k, l)
  BY <1>1, PrunedIs
<1>6. kept \subseteq P
  BY <1>1 DEF KeptKinds, KindsOf
<1>7. /\ "INSTALL_NEW_ROUTE" \in applied => "WITHDRAW_OLD_ROUTE" \in kept
      /\ "ACTIVATE_NEW_PATH" \in applied => "DEACTIVATE_OLD_PATH" \in kept
      /\ "DEACTIVATE_OLD_PATH" \in applied => "ACTIVATE_NEW_PATH" \in kept
      /\ "WITHDRAW_OLD_ROUTE" \in applied => "INSTALL_NEW_ROUTE" \in kept
  <2>1. \A once : /\ KeepKind("WITHDRAW_OLD_ROUTE", applied, once)
                       <=> "INSTALL_NEW_ROUTE" \in applied
                  /\ KeepKind("DEACTIVATE_OLD_PATH", applied, once)
                       <=> "ACTIVATE_NEW_PATH" \in applied
                  /\ KeepKind("ACTIVATE_NEW_PATH", applied, once)
                       <=> "DEACTIVATE_OLD_PATH" \in applied
                  /\ KeepKind("INSTALL_NEW_ROUTE", applied, once)
                       <=> "WITHDRAW_OLD_ROUTE" \in applied
    BY DEF KeepKind
  <2>2. \A k \in P : (\A once : KeepKind(k, applied, once)) => k \in kept
    BY <1>1 DEF KeptKinds, KindsOf
  <2> HIDE DEF kept
  <2> QED
    BY <1>3, <2>1, <2>2
<1> HIDE DEF h, kept
<1>8. Orderly(h, policy)
  <2>1. LastKinds(policy) \cap FirstKinds(policy) = {}
    BY DEF LastKinds, FirstKinds, MakeKind, BreakKind
  <2> QED
    BY <1>1, <1>2, <1>5, <1>6, <2>1 DEF Orderly
<1>9. Sound(Shape(g), policy) /\ WorkKinds(Shape(g)) = P
  BY <1>1, <1>2, ShapeIs
<1>10. Sound(Shape(h), policy) /\ WorkKinds(Shape(h)) = kept
  BY <1>5, <1>8, ShapeIs
<1>11. Compensates(Shape(g), applied) /\ Compensates(Shape(h), applied)
  BY <1>3, <1>7, <1>9, <1>10 DEF Compensates
<1>12. /\ Sound(Shape(<<>>), policy) /\ WorkKinds(Shape(<<>>)) = {} /\ Shape(<<>>) = <<>>
  BY NoWork
<1> QED
  BY <1>4, <1>6, <1>9, <1>10, <1>11, <1>12 DEF P

----------------------------------------------------------------------------
\* The invariant of an execution

StepsAt == {"PENDING", "READY", "DISPATCHED", "COMPLETED", "FAILED", "STALE",
            "RECONCILIATION_REQUIRED"}

IsCommand(c) ==
  \E plan \in Plans : \E p \in DOMAIN steps[plan] : \E n \in 1 .. sent[plan][p] :
    c = <<plan, p, n>>

Typed ==
  /\ transition \in Transitions
  /\ life \in [Plans -> PlanLifecycle \cup {"ABSENT"}]
  /\ DOMAIN steps = Plans /\ DOMAIN at = Plans /\ DOMAIN sent = Plans
  /\ \A plan \in Plans : /\ Sound(steps[plan], transition.policy)
                         /\ at[plan] \in [DOMAIN steps[plan] -> StepsAt]
                         /\ sent[plan] \in [DOMAIN steps[plan] -> Nat]
  /\ \A c \in wire \cup journal : IsCommand(c)

\* What is taken as done was done, and nothing is sent before what it waits for.
StepsAreBacked ==
  \A plan \in Plans : \A p \in DOMAIN steps[plan] :
    /\ at[plan][p] = "COMPLETED" => Executed(plan, p)
    /\ at[plan][p] # "PENDING" \/ sent[plan][p] > 0 =>
         \A q \in steps[plan][p].waits : at[plan][q] = "COMPLETED"

\* The kinds whose effect a plan has had.
Done(plan) == {steps[plan][p].kind : p \in {q \in DOMAIN steps[plan] : Executed(plan, q)}}

RollsBack == life.forward \in {"ROLLING_BACK", "SUPERSEDED"}

Fenced ==
  /\ ~RollsBack => life.rollback = "ABSENT" /\ known
  /\ life.forward = "ABSENT" => DOMAIN steps.forward = {}
  /\ life.rollback = "ABSENT" => DOMAIN steps.rollback = {}
  /\ RollsBack /\ known => \A c \in wire : c[1] # "forward"

Complements ==
  /\ WorkKinds(steps.forward)
       \subseteq PresentKinds(transition.source, transition.target, transition.policy)
  /\ WorkKinds(steps.rollback)
       \subseteq PresentKinds(transition.target, transition.source, transition.policy)
  /\ life.forward # "ABSENT" =>
       PresentKinds(transition.source, transition.target, transition.policy)
         \subseteq WorkKinds(steps.forward)
  /\ known /\ life.rollback # "ABSENT" => Compensates(steps.rollback, Done("forward"))

CompletedIsDone ==
  \A plan \in Plans :
    life[plan] = "COMPLETED" => \A p \in DOMAIN steps[plan] : at[plan][p] = "COMPLETED"

\* What is in the data plane, by what the two plans have done.
PlaneIs ==
  LET S == transition.source
      T == transition.target
      fwd(kind) == kind \in Done("forward")
      back(kind) == kind \in Done("rollback")
  IN /\ Route(S) \in plane <=> ~fwd("WITHDRAW_OLD_ROUTE") \/ back("INSTALL_NEW_ROUTE")
     /\ Route(T) \in plane <=> fwd("INSTALL_NEW_ROUTE") /\ ~back("WITHDRAW_OLD_ROUTE")
     /\ S.path # T.path =>
          /\ Path(S) \in plane <=> ~fwd("DEACTIVATE_OLD_PATH") \/ back("ACTIVATE_NEW_PATH")
          /\ Path(T) \in plane <=> fwd("ACTIVATE_NEW_PATH") /\ ~back("DEACTIVATE_OLD_PATH")
     /\ S.path = T.path => Path(S) \in plane
     /\ S.group # NoGroup => Group(S) \in plane
     /\ fwd("INSTALL_NEW_GROUP") => Group(T) \in plane

ExecutionInvariant ==
  /\ Typed /\ StepsAreBacked /\ Fenced /\ Complements /\ CompletedIsDone
  /\ known => PlaneIs

\* refresh_ready_steps arms the pending steps whose waits are completed.
LEMMA RefreshedIs ==
  ASSUME NEW policy, NEW work, Sound(work, policy), NEW st \in [DOMAIN work -> StepsAt]
  PROVE  /\ Refreshed(st, work) \in [DOMAIN work -> StepsAt]
         /\ \A p \in DOMAIN work :
              /\ Refreshed(st, work)[p] = "COMPLETED" <=> st[p] = "COMPLETED"
              /\ Refreshed(st, work)[p] = "DISPATCHED" => st[p] = "DISPATCHED"
              /\ Refreshed(st, work)[p] # "PENDING" =>
                   st[p] # "PENDING" \/ \A q \in work[p].waits : st[q] = "COMPLETED"
<1> DEFINE r == Refreshed(st, work)
<1>1. /\ DOMAIN r = DOMAIN work
      /\ \A p \in DOMAIN work :
           r[p] = IF st[p] = "PENDING" /\ \A q \in work[p].waits : st[q] \in SatisfiedState
                  THEN "READY" ELSE st[p]
      /\ r = [p \in DOMAIN work |-> r[p]]
  BY DEF Refreshed
<1>2. \A p \in DOMAIN work : st[p] \in StepsAt
  OBVIOUS
<1>3. \A p \in DOMAIN work : st[p] \in SatisfiedState => st[p] = "COMPLETED"
  BY <1>2 DEF StepsAt, SatisfiedState
<1>4. \A p \in DOMAIN work : work[p].waits \subseteq DOMAIN work
  <2>1. \A p \in DOMAIN work : work[p] \in [kind : StepKind, waits : SUBSET DOMAIN work]
    BY DEF Sound
  <2> QED
    BY <2>1
<1> HIDE DEF r
<1>5. \A p \in DOMAIN work : r[p] \in StepsAt
  BY <1>1, <1>2 DEF StepsAt
<1>6. r \in [DOMAIN work -> StepsAt]
  BY <1>1, <1>5
<1>7. ASSUME NEW p \in DOMAIN work
      PROVE  /\ r[p] = "COMPLETED" <=> st[p] = "COMPLETED"
             /\ r[p] = "DISPATCHED" => st[p] = "DISPATCHED"
             /\ r[p] # "PENDING" =>
                  st[p] # "PENDING" \/ \A q \in work[p].waits : st[q] = "COMPLETED"
  <2>1. CASE st[p] = "PENDING" /\ \A q \in work[p].waits : st[q] \in SatisfiedState
    <3>1. r[p] = "READY"
      BY <1>1, <2>1
    <3> QED
      BY <1>3, <1>4, <2>1, <3>1
  <2>2. CASE ~(st[p] = "PENDING" /\ \A q \in work[p].waits : st[q] \in SatisfiedState)
    <3>1. r[p] = st[p]
      BY <1>1, <2>2
    <3> QED
      BY <2>2, <3>1 DEF SatisfiedState
  <2> QED
    BY <2>1, <2>2
<1> QED
  BY <1>6, <1>7 DEF r

\* What a plan has done is what is in the journal.
LEMMA ExecutedIs ==
  ASSUME Typed, NEW plan \in Plans, NEW p \in DOMAIN steps[plan]
  PROVE  /\ Executed(plan, p) <=> \E n \in Nat : <<plan, p, n>> \in journal
         /\ Executed(plan, p) => sent[plan][p] > 0
         /\ sent[plan][p] \in Nat
         /\ \A n : <<plan, p, n>> \in wire \cup journal => n \in 1 .. sent[plan][p]
<1>1. sent[plan][p] \in Nat
  BY DEF Typed
<1>2. ASSUME NEW n, <<plan, p, n>> \in wire \cup journal
      PROVE  n \in 1 .. sent[plan][p]
  BY <1>2 DEF Typed, IsCommand
<1>3. Executed(plan, p) <=> \E n \in Nat : <<plan, p, n>> \in journal
  <2>1. \A n \in 1 .. sent[plan][p] : n \in Nat
    BY <1>1
  <2>2. \A n : <<plan, p, n>> \in journal => n \in 1 .. sent[plan][p]
    BY <1>2
  <2> QED
    BY <2>1, <2>2 DEF Executed
<1>4. Executed(plan, p) => sent[plan][p] > 0
  BY <1>1 DEF Executed
<1> QED
  BY <1>1, <1>2, <1>3, <1>4

\* The steps that only move plans and steps: what they must keep to.
Progress(plan) ==
  /\ at'[plan] \in [DOMAIN steps[plan] -> StepsAt]
  /\ \A p \in DOMAIN steps[plan] :
       /\ at[plan][p] = "COMPLETED" => at'[plan][p] = "COMPLETED"
       /\ at'[plan][p] = "COMPLETED" => at[plan][p] = "COMPLETED" \/ Executed(plan, p)
       /\ at'[plan][p] # "PENDING" =>
            at[plan][p] # "PENDING" \/ \A q \in steps[plan][p].waits : at'[plan][q] = "COMPLETED"
  /\ life'[plan] = "ABSENT" <=> life[plan] = "ABSENT"
  /\ life'[plan] = "COMPLETED" =>
       life[plan] = "COMPLETED" \/ \A p \in DOMAIN steps[plan] : at'[plan][p] = "COMPLETED"

Progresses ==
  /\ life' \in [Plans -> PlanLifecycle \cup {"ABSENT"}]
  /\ DOMAIN at' = Plans /\ \A plan \in Plans : Progress(plan)
  /\ RollsBack' <=> RollsBack
  /\ wire' \subseteq wire
  /\ UNCHANGED <<transition, steps, sent, journal, plane, known>>

LEMMA ProgressKeeps ==
  ASSUME ExecutionInvariant, Progresses
  PROVE  ExecutionInvariant'
<1>1. /\ Typed /\ StepsAreBacked /\ Fenced /\ Complements /\ CompletedIsDone
      /\ known => PlaneIs
  BY DEF ExecutionInvariant
<1>2. /\ transition' = transition /\ steps' = steps /\ sent' = sent /\ journal' = journal
      /\ plane' = plane /\ known' = known /\ wire' \subseteq wire
  BY DEF Progresses
<1>3. \A plan \in Plans : Progress(plan)
  BY DEF Progresses
<1>4. \A plan, p : Executed(plan, p)' <=> Executed(plan, p)
  BY <1>2 DEF Executed
<1>5. Typed'
  <2>1. \A c : IsCommand(c)' <=> IsCommand(c)
    BY <1>2 DEF IsCommand
  <2>2. \A plan \in Plans : at'[plan] \in [DOMAIN steps[plan] -> StepsAt]
    BY <1>3 DEF Progress
  <2>3. \A c \in (wire \cup journal)' : IsCommand(c)'
    BY <1>1, <1>2, <2>1 DEF Typed
  <2> QED
    BY <1>1, <1>2, <2>2, <2>3 DEF Typed, Progresses
<1>6. StepsAreBacked'
  <2> SUFFICES ASSUME NEW plan \in Plans, NEW p \in DOMAIN steps[plan]
               PROVE  /\ at'[plan][p] = "COMPLETED" => Executed(plan, p)
                      /\ at'[plan][p] # "PENDING" \/ sent[plan][p] > 0 =>
                           \A q \in steps[plan][p].waits : at'[plan][q] = "COMPLETED"
    BY <1>2, <1>4 DEF StepsAreBacked
  <2>1. /\ at[plan][p] = "COMPLETED" => Executed(plan, p)
        /\ at[plan][p] # "PENDING" \/ sent[plan][p] > 0 =>
             \A q \in steps[plan][p].waits : at[plan][q] = "COMPLETED"
    BY <1>1 DEF StepsAreBacked
  <2>2. steps[plan][p].waits \subseteq DOMAIN steps[plan]
    <3>1. steps[plan] \in
            [DOMAIN steps[plan] -> [kind : StepKind, waits : SUBSET DOMAIN steps[plan]]]
      BY <1>1 DEF Typed, Sound
    <3> QED
      BY <3>1
  <2> QED
    BY <1>3, <2>1, <2>2 DEF Progress
<1>7. \A plan \in Plans : Done(plan)' = Done(plan)
  BY <1>2, <1>4 DEF Done
<1>8. Fenced'
  BY <1>1, <1>2, <1>3 DEF Fenced, Progress, Progresses, Plans
<1>9. Complements'
  <2>1. \A plan \in Plans : life'[plan] = "ABSENT" <=> life[plan] = "ABSENT"
    BY <1>3 DEF Progress
  <2>2. /\ life'.forward = "ABSENT" <=> life.forward = "ABSENT"
        /\ life'.rollback = "ABSENT" <=> life.rollback = "ABSENT"
    BY <2>1 DEF Plans
  <2> QED
    BY <1>1, <1>2, <1>7, <2>2 DEF Complements, Plans
<1>10. CompletedIsDone'
  BY <1>1, <1>2, <1>3 DEF CompletedIsDone, Progress
<1>11. known' => PlaneIs'
  BY <1>1, <1>2, <1>7 DEF PlaneIs, Plans, Route, Path, Group
<1> QED
  BY <1>5, <1>6, <1>8, <1>9, <1>10, <1>11 DEF ExecutionInvariant

----------------------------------------------------------------------------
\* The steps that only move plans and steps

\* The other plan is where it was.
LEMMA UntouchedPlan ==
  ASSUME ExecutionInvariant, NEW plan \in Plans,
         at'[plan] = at[plan], life'[plan] = life[plan]
  PROVE  Progress(plan)
<1>1. at[plan] \in [DOMAIN steps[plan] -> StepsAt]
  BY DEF ExecutionInvariant, Typed
<1> QED
  BY <1>1 DEF Progress

\* A state machine has the types it is given.
LEMMA PlanStates ==
  ASSUME Typed, NEW plan \in Plans
  PROVE  /\ life[plan] \in PlanLifecycle \cup {"ABSENT"}
         /\ at[plan] \in [DOMAIN steps[plan] -> StepsAt]
         /\ DOMAIN at[plan] = DOMAIN steps[plan]
         /\ Sound(steps[plan], transition.policy)
BY DEF Typed

\* Refreshing a plan whose steps have moved on.
LEMMA RefreshProgresses ==
  ASSUME ExecutionInvariant, NEW plan \in Plans,
         NEW st \in [DOMAIN steps[plan] -> StepsAt],
         at'[plan] = Refreshed(st, steps[plan]),
         \A p \in DOMAIN steps[plan] :
           /\ at[plan][p] = "COMPLETED" => st[p] = "COMPLETED"
           /\ st[p] = "COMPLETED" => at[plan][p] = "COMPLETED" \/ Executed(plan, p)
           /\ st[p] # "PENDING" => at[plan][p] # "PENDING",
         life'[plan] = "ABSENT" <=> life[plan] = "ABSENT",
         life'[plan] = "COMPLETED" =>
           life[plan] = "COMPLETED" \/ \A p \in DOMAIN steps[plan] : at'[plan][p] = "COMPLETED"
  PROVE  Progress(plan)
<1> DEFINE r == Refreshed(st, steps[plan])
<1>1. Sound(steps[plan], transition.policy)
  BY DEF ExecutionInvariant, Typed
<1>2. /\ r \in [DOMAIN steps[plan] -> StepsAt]
      /\ \A p \in DOMAIN steps[plan] :
           /\ r[p] = "COMPLETED" <=> st[p] = "COMPLETED"
           /\ r[p] # "PENDING" =>
                st[p] # "PENDING" \/ \A q \in steps[plan][p].waits : st[q] = "COMPLETED"
  BY <1>1, RefreshedIs
<1>3. \A p \in DOMAIN steps[plan] : steps[plan][p].waits \subseteq DOMAIN steps[plan]
  <2>1. \A p \in DOMAIN steps[plan] :
          steps[plan][p] \in [kind : StepKind, waits : SUBSET DOMAIN steps[plan]]
    BY <1>1 DEF Sound
  <2> QED
    BY <2>1
<1> HIDE DEF r
<1>4. \A p \in DOMAIN steps[plan] :
        r[p] # "PENDING" =>
          at[plan][p] # "PENDING" \/ \A q \in steps[plan][p].waits : r[q] = "COMPLETED"
  BY <1>2, <1>3
<1>5. at'[plan] = r
  BY DEF r
<1> QED
  BY <1>2, <1>4, <1>5 DEF Progress

\* A step that moves one plan, by way of a refresh, and no other.
LEMMA OnePlanMoves ==
  ASSUME ExecutionInvariant, NEW plan \in Plans, NEW to \in PlanLifecycle \cup {"ABSENT"},
         life' = [life EXCEPT ![plan] = to], DOMAIN at' = Plans,
         \A other \in Plans : other # plan => at'[other] = at[other],
         Progress(plan),
         to # life[plan] => to \notin {"ROLLING_BACK", "SUPERSEDED"}
                            /\ life[plan] \notin {"ROLLING_BACK", "SUPERSEDED"},
         wire' \subseteq wire, UNCHANGED <<transition, steps, sent, journal, plane, known>>
  PROVE  Progresses
<1>1. life \in [Plans -> PlanLifecycle \cup {"ABSENT"}]
  BY DEF ExecutionInvariant, Typed
<1>2. /\ life'[plan] = to /\ \A other \in Plans : other # plan => life'[other] = life[other]
      /\ life' \in [Plans -> PlanLifecycle \cup {"ABSENT"}]
  BY <1>1
<1>3. \A other \in Plans : Progress(other)
  BY <1>2, UntouchedPlan
<1>4. RollsBack' <=> RollsBack
  <2>1. life'.forward = IF plan = "forward" THEN to ELSE life.forward
    BY <1>2 DEF Plans
  <2> QED
    BY <2>1 DEF RollsBack
<1> QED
  BY <1>2, <1>3, <1>4 DEF Progresses

\* Moving steps on without a refresh.
LEMMA MoveProgresses ==
  ASSUME ExecutionInvariant, NEW plan \in Plans,
         NEW st \in [DOMAIN steps[plan] -> StepsAt], at'[plan] = st,
         \A p \in DOMAIN steps[plan] :
           /\ at[plan][p] = "COMPLETED" <=> st[p] = "COMPLETED"
           /\ st[p] # "PENDING" => at[plan][p] # "PENDING",
         life'[plan] = "ABSENT" <=> life[plan] = "ABSENT",
         life'[plan] = "COMPLETED" => life[plan] = "COMPLETED"
  PROVE  Progress(plan)
BY DEF Progress

LEMMA LoseKeeps ==
  ASSUME ExecutionInvariant, NEW c, Lose(c)
  PROVE  ExecutionInvariant'
<1>1. UNCHANGED <<transition, planVars, journal, plane, known, faults>> /\ wire' \subseteq wire
  BY DEF Lose
<1>2. /\ transition' = transition /\ life' = life /\ steps' = steps /\ at' = at /\ sent' = sent
      /\ journal' = journal /\ plane' = plane /\ known' = known
  BY <1>1 DEF planVars
<1>3. \A plan \in Plans : Progress(plan)
  BY <1>2, UntouchedPlan
<1>4. Progresses
  BY <1>1, <1>2, <1>3 DEF Progresses, RollsBack, ExecutionInvariant, Typed
<1> QED
  BY <1>4, ProgressKeeps

LEMMA ReportDoubtKeeps ==
  ASSUME ExecutionInvariant, NEW plan \in Plans, NEW p \in DOMAIN at[plan], ReportDoubt(plan, p)
  PROVE  ExecutionInvariant'
<1> DEFINE st == [at[plan] EXCEPT ![p] = "RECONCILIATION_REQUIRED"]
           to == Take("STEP_AMBIGUOUS", life[plan])
<1>1. /\ at[plan][p] = "DISPATCHED" /\ at' = [at EXCEPT ![plan] = st]
      /\ life' = [life EXCEPT ![plan] = to]
      /\ UNCHANGED <<transition, steps, sent, worldVars, known>>
  BY DEF ReportDoubt, SetAt
<1>2. /\ life[plan] \in PlanLifecycle \cup {"ABSENT"} /\ DOMAIN at = Plans
      /\ life \in [Plans -> PlanLifecycle \cup {"ABSENT"}]
      /\ at[plan] \in [DOMAIN steps[plan] -> StepsAt] /\ DOMAIN at[plan] = DOMAIN steps[plan]
  BY PlanStates DEF ExecutionInvariant, Typed
<1>3. to = IF life[plan] = "EXECUTING" THEN "PAUSED" ELSE life[plan]
  BY DEF Take, PlanFrom, PlanTo
<1>4. st \in [DOMAIN steps[plan] -> StepsAt]
  BY <1>2 DEF StepsAt
<1>5. \A q \in DOMAIN steps[plan] :
        /\ at[plan][q] = "COMPLETED" <=> st[q] = "COMPLETED"
        /\ st[q] # "PENDING" => at[plan][q] # "PENDING"
  BY <1>1, <1>2
<1>6. to \in PlanLifecycle \cup {"ABSENT"}
  BY <1>2, <1>3 DEF PlanLifecycle
<1> HIDE DEF st, to
<1>7. Progress(plan)
  <2>1. at'[plan] = st /\ life'[plan] = to
    BY <1>1, <1>2
  <2> QED
    BY <1>3, <1>4, <1>5, <2>1, MoveProgresses
<1>8. Progresses
  <2>1. DOMAIN at' = Plans /\ \A other \in Plans : other # plan => at'[other] = at[other]
    BY <1>1, <1>2
  <2> QED
    BY <1>1, <1>3, <1>6, <1>7, <2>1, OnePlanMoves DEF worldVars
<1> QED
  BY <1>8, ProgressKeeps

LEMMA FailKeeps ==
  ASSUME ExecutionInvariant, NEW plan \in Plans, NEW p \in DOMAIN at[plan],
         NEW retryable \in BOOLEAN, Fail(plan, p, retryable)
  PROVE  ExecutionInvariant'
<1> DEFINE rearmed == retryable /\ sent[plan][p] <= transition.retries
           st == [at[plan] EXCEPT ![p] = IF rearmed THEN "READY" ELSE "FAILED"]
           to == IF rearmed THEN life[plan] ELSE AfterStepFailed(life[plan], ~retryable)
<1>1. /\ at[plan][p] = "DISPATCHED" /\ at' = [at EXCEPT ![plan] = st]
      /\ life' = [life EXCEPT ![plan] = IF rearmed THEN @ ELSE AfterStepFailed(@, ~retryable)]
      /\ wire' \subseteq wire
      /\ UNCHANGED <<transition, steps, sent, journal, plane, known>>
  BY DEF Fail, SetAt
<1>2. /\ life[plan] \in PlanLifecycle \cup {"ABSENT"} /\ DOMAIN at = Plans
      /\ life \in [Plans -> PlanLifecycle \cup {"ABSENT"}]
      /\ at[plan] \in [DOMAIN steps[plan] -> StepsAt] /\ DOMAIN at[plan] = DOMAIN steps[plan]
  BY PlanStates DEF ExecutionInvariant, Typed
<1>3. /\ to \in {life[plan], "ROLLBACK_REQUIRED", "PAUSED"}
      /\ to # life[plan] => life[plan] = "EXECUTING"
  BY DEF AfterStepFailed, PlanFrom
<1>4. st \in [DOMAIN steps[plan] -> StepsAt]
  BY <1>2 DEF StepsAt
<1>5. \A q \in DOMAIN steps[plan] :
        /\ at[plan][q] = "COMPLETED" <=> st[q] = "COMPLETED"
        /\ st[q] # "PENDING" => at[plan][q] # "PENDING"
  BY <1>1, <1>2
<1>6. to \in PlanLifecycle \cup {"ABSENT"}
  BY <1>2, <1>3 DEF PlanLifecycle
<1>7. life' = [life EXCEPT ![plan] = to]
  BY <1>1, <1>2
<1> HIDE DEF rearmed, st, to
<1>8. Progress(plan)
  <2>1. at'[plan] = st /\ life'[plan] = to
    BY <1>1, <1>2, <1>7
  <2> QED
    BY <1>3, <1>4, <1>5, <2>1, MoveProgresses
<1>9. Progresses
  <2>1. DOMAIN at' = Plans /\ \A other \in Plans : other # plan => at'[other] = at[other]
    BY <1>1, <1>2
  <2> QED
    BY <1>1, <1>3, <1>6, <1>7, <1>8, <2>1, OnePlanMoves
<1> QED
  BY <1>9, ProgressKeeps

LEMMA InvalidateKeeps ==
  ASSUME ExecutionInvariant, NEW plan \in Plans, Invalidate(plan)
  PROVE  ExecutionInvariant'
<1> DEFINE st == Stale(at[plan])
           to == "REVALIDATION_REQUIRED"
<1>1. /\ life[plan] \in {"VALIDATING", "READY", "EXECUTING", "PAUSED"}
      /\ at' = [at EXCEPT ![plan] = st] /\ life' = [life EXCEPT ![plan] = to]
      /\ UNCHANGED <<transition, steps, sent, worldVars, known>>
  BY DEF Invalidate, SetAt, PlanFrom, PlanTo
<1>2. /\ DOMAIN at = Plans /\ life \in [Plans -> PlanLifecycle \cup {"ABSENT"}]
      /\ at[plan] \in [DOMAIN steps[plan] -> StepsAt] /\ DOMAIN at[plan] = DOMAIN steps[plan]
  BY PlanStates DEF ExecutionInvariant, Typed
<1>3. st = [q \in DOMAIN steps[plan] |->
              IF at[plan][q] = "DISPATCHED" THEN "STALE" ELSE at[plan][q]]
  BY <1>2 DEF Stale
<1>4. st \in [DOMAIN steps[plan] -> StepsAt]
  BY <1>2, <1>3 DEF StepsAt
<1>5. \A q \in DOMAIN steps[plan] :
        /\ at[plan][q] = "COMPLETED" <=> st[q] = "COMPLETED"
        /\ st[q] # "PENDING" => at[plan][q] # "PENDING"
  BY <1>3
<1>6. to \in PlanLifecycle \cup {"ABSENT"}
  BY DEF PlanLifecycle
<1> HIDE DEF st
<1>7. Progress(plan)
  <2>1. at'[plan] = st /\ life'[plan] = to
    BY <1>1, <1>2
  <2> QED
    BY <1>1, <1>4, <1>5, <2>1, MoveProgresses
<1>8. Progresses
  <2>1. DOMAIN at' = Plans /\ \A other \in Plans : other # plan => at'[other] = at[other]
    BY <1>1, <1>2
  <2> QED
    BY <1>1, <1>6, <1>7, <2>1, OnePlanMoves DEF worldVars
<1> QED
  BY <1>8, ProgressKeeps

LEMMA RevalidateKeeps ==
  ASSUME ExecutionInvariant, NEW plan \in Plans, Revalidate(plan)
  PROVE  ExecutionInvariant'
<1> DEFINE st == [q \in DOMAIN at[plan] |->
                    IF at[plan][q] = "STALE" THEN "PENDING" ELSE at[plan][q]]
           to == "READY"
<1>1. /\ life[plan] \in {"VALIDATING", "REVALIDATION_REQUIRED", "PAUSED"}
      /\ at' = [at EXCEPT ![plan] = Refreshed(st, steps[plan])]
      /\ life' = [life EXCEPT ![plan] = to]
      /\ UNCHANGED <<transition, steps, sent, worldVars, known>>
  BY DEF Revalidate, SetAt, PlanFrom, PlanTo
<1>2. /\ DOMAIN at = Plans /\ life \in [Plans -> PlanLifecycle \cup {"ABSENT"}]
      /\ at[plan] \in [DOMAIN steps[plan] -> StepsAt] /\ DOMAIN at[plan] = DOMAIN steps[plan]
  BY PlanStates DEF ExecutionInvariant, Typed
<1>3. st \in [DOMAIN steps[plan] -> StepsAt]
  BY <1>2 DEF StepsAt
<1>4. \A q \in DOMAIN steps[plan] :
        /\ at[plan][q] = "COMPLETED" <=> st[q] = "COMPLETED"
        /\ st[q] # "PENDING" => at[plan][q] # "PENDING"
  BY <1>2
<1>5. to \in PlanLifecycle \cup {"ABSENT"}
  BY DEF PlanLifecycle
<1> HIDE DEF st
<1>6. Progress(plan)
  <2>1. at'[plan] = Refreshed(st, steps[plan]) /\ life'[plan] = to
    BY <1>1, <1>2
  <2> QED
    BY <1>1, <1>3, <1>4, <2>1, RefreshProgresses
<1>7. Progresses
  <2>1. DOMAIN at' = Plans /\ \A other \in Plans : other # plan => at'[other] = at[other]
    BY <1>1, <1>2
  <2> QED
    BY <1>1, <1>5, <1>6, <2>1, OnePlanMoves DEF worldVars
<1> QED
  BY <1>7, ProgressKeeps

LEMMA ReconcileKeeps ==
  ASSUME ExecutionInvariant, NEW plan \in Plans, NEW p \in DOMAIN at[plan], Reconcile(plan, p)
  PROVE  ExecutionInvariant'
<1> DEFINE st == [at[plan] EXCEPT ![p] = IF Executed(plan, p) THEN "COMPLETED" ELSE "READY"]
<1>1. /\ at[plan][p] = "RECONCILIATION_REQUIRED"
      /\ at' = [at EXCEPT ![plan] = Refreshed(st, steps[plan])]
      /\ life' = life /\ UNCHANGED <<transition, steps, sent, worldVars, known>>
  BY DEF Reconcile, SetAt
<1>2. /\ DOMAIN at = Plans /\ life \in [Plans -> PlanLifecycle \cup {"ABSENT"}]
      /\ at[plan] \in [DOMAIN steps[plan] -> StepsAt] /\ DOMAIN at[plan] = DOMAIN steps[plan]
  BY PlanStates DEF ExecutionInvariant, Typed
<1>3. st \in [DOMAIN steps[plan] -> StepsAt]
  BY <1>2 DEF StepsAt
<1>4. \A q \in DOMAIN steps[plan] :
        /\ at[plan][q] = "COMPLETED" => st[q] = "COMPLETED"
        /\ st[q] = "COMPLETED" => at[plan][q] = "COMPLETED" \/ Executed(plan, q)
        /\ st[q] # "PENDING" => at[plan][q] # "PENDING"
  BY <1>1, <1>2
<1> HIDE DEF st
<1>5. Progress(plan)
  <2>1. at'[plan] = Refreshed(st, steps[plan]) /\ life'[plan] = life[plan]
    BY <1>1, <1>2
  <2> QED
    BY <1>3, <1>4, <2>1, RefreshProgresses
<1>6. Progresses
  <2>1. DOMAIN at' = Plans /\ \A other \in Plans : other # plan => at'[other] = at[other]
    BY <1>1, <1>2
  <2>2. life' = [life EXCEPT ![plan] = life[plan]] /\ life[plan] \in PlanLifecycle \cup {"ABSENT"}
    BY <1>1, <1>2
  <2> QED
    BY <1>1, <1>5, <2>1, <2>2, OnePlanMoves DEF worldVars
<1> QED
  BY <1>6, ProgressKeeps

LEMMA RestartKeeps ==
  ASSUME ExecutionInvariant, Restart
  PROVE  ExecutionInvariant'
<1>1. /\ life' = [plan \in Plans |-> IF life[plan] = "ABSENT" THEN "ABSENT"
                                     ELSE RecoveredPlan(life[plan])]
      /\ at' = [plan \in Plans |->
                  Refreshed([p \in DOMAIN at[plan] |-> RecoveredStep(at[plan][p])], steps[plan])]
      /\ UNCHANGED <<transition, steps, sent, worldVars, known>>
  BY DEF Restart
<1>2. ASSUME NEW plan \in Plans
      PROVE  /\ life'[plan] \in PlanLifecycle \cup {"ABSENT"}
             /\ life'[plan] = "ABSENT" <=> life[plan] = "ABSENT"
             /\ life'[plan] \in {"COMPLETED", "ROLLING_BACK", "SUPERSEDED"}
                  \/ life[plan] \in {"COMPLETED", "ROLLING_BACK", "SUPERSEDED"}
                  => life'[plan] = life[plan]
  <2>1. life[plan] \in PlanLifecycle \cup {"ABSENT"}
    BY PlanStates DEF ExecutionInvariant
  <2>2. life'[plan] = IF life[plan] = "ABSENT" THEN "ABSENT"
                      ELSE IF life[plan] = "DECLARED" THEN "VALIDATING"
                      ELSE IF life[plan] \in {"READY", "EXECUTING"}
                      THEN "REVALIDATION_REQUIRED" ELSE life[plan]
    BY <1>1 DEF RecoveredPlan
  <2> QED
    BY <2>1, <2>2 DEF PlanLifecycle
<1>3. ASSUME NEW plan \in Plans
      PROVE  Progress(plan)
  <2> DEFINE st == [p \in DOMAIN at[plan] |-> RecoveredStep(at[plan][p])]
  <2>1. /\ at[plan] \in [DOMAIN steps[plan] -> StepsAt] /\ DOMAIN at[plan] = DOMAIN steps[plan]
    BY PlanStates DEF ExecutionInvariant
  <2>2. st = [p \in DOMAIN steps[plan] |->
                IF at[plan][p] = "DISPATCHED" THEN "RECONCILIATION_REQUIRED"
                ELSE IF at[plan][p] = "STALE" THEN "PENDING" ELSE at[plan][p]]
    BY <2>1 DEF RecoveredStep
  <2>3. st \in [DOMAIN steps[plan] -> StepsAt]
    BY <2>1, <2>2 DEF StepsAt
  <2>4. \A q \in DOMAIN steps[plan] :
          /\ at[plan][q] = "COMPLETED" <=> st[q] = "COMPLETED"
          /\ st[q] # "PENDING" => at[plan][q] # "PENDING"
    BY <2>2
  <2>5. at'[plan] = Refreshed(st, steps[plan])
    BY <1>1
  <2> HIDE DEF st
  <2> QED
    BY <1>2, <2>3, <2>4, <2>5, RefreshProgresses
<1>4. RollsBack' <=> RollsBack
  BY <1>2 DEF RollsBack, Plans
<1>5. life' \in [Plans -> PlanLifecycle \cup {"ABSENT"}]
  <2>1. life' = [plan \in Plans |-> life'[plan]]
    BY <1>1
  <2> QED
    BY <1>2, <2>1
<1>6. Progresses
  <2>1. DOMAIN at' = Plans
    BY <1>1
  <2> QED
    BY <1>1, <1>3, <1>4, <1>5, <2>1 DEF Progresses, worldVars
<1> QED
  BY <1>6, ProgressKeeps

LEMMA CompleteKeeps ==
  ASSUME ExecutionInvariant, NEW plan \in Plans, NEW p \in DOMAIN at[plan], Complete(plan, p)
  PROVE  ExecutionInvariant'
<1> DEFINE st == [at[plan] EXCEPT ![p] = "COMPLETED"]
           r == Refreshed(st, steps[plan])
           done == life[plan] = "EXECUTING" /\ \A q \in DOMAIN r : r[q] \in SatisfiedState
           to == IF done THEN "COMPLETED" ELSE life[plan]
<1>1. /\ at[plan][p] = "DISPATCHED" /\ Command(plan, p) \in journal
      /\ at' = [at EXCEPT ![plan] = r]
      /\ life' = Lineage(plan, to)
      /\ UNCHANGED <<transition, steps, sent, worldVars, known>>
  BY DEF Complete, SetAt, PlanTo
<1>2. /\ DOMAIN at = Plans /\ life \in [Plans -> PlanLifecycle \cup {"ABSENT"}]
      /\ at[plan] \in [DOMAIN steps[plan] -> StepsAt] /\ DOMAIN at[plan] = DOMAIN steps[plan]
      /\ Sound(steps[plan], transition.policy)
  BY PlanStates DEF ExecutionInvariant, Typed
<1>3. st \in [DOMAIN steps[plan] -> StepsAt]
  BY <1>2 DEF StepsAt
<1>4. Executed(plan, p)
  <2>1. sent[plan][p] \in Nat
    BY <1>2, ExecutedIs DEF ExecutionInvariant
  <2> QED
    BY <1>1, <1>2, <2>1, ExecutedIs DEF ExecutionInvariant, Command
<1>5. \A q \in DOMAIN steps[plan] :
        /\ at[plan][q] = "COMPLETED" => st[q] = "COMPLETED"
        /\ st[q] = "COMPLETED" => at[plan][q] = "COMPLETED" \/ Executed(plan, q)
        /\ st[q] # "PENDING" => at[plan][q] # "PENDING"
  BY <1>1, <1>2, <1>4
<1>6. r \in [DOMAIN steps[plan] -> StepsAt]
  <2> HIDE DEF st
  <2> QED
    BY <1>2, <1>3, RefreshedIs
<1> HIDE DEF st, r
<1>7. done => \A q \in DOMAIN steps[plan] : r[q] = "COMPLETED"
  <2>1. \A q \in DOMAIN steps[plan] : r[q] \in StepsAt
    BY <1>6
  <2> QED
    BY <1>6, <2>1 DEF SatisfiedState, StepsAt
<1>8. /\ to \in PlanLifecycle \cup {"ABSENT"}
      /\ to # life[plan] => to = "COMPLETED" /\ life[plan] = "EXECUTING" /\ done
  BY <1>2 DEF PlanLifecycle
<1> HIDE DEF done, to
<1>9. CASE plan = "forward"
  <2>1. life' = [life EXCEPT ![plan] = to]
    BY <1>1, <1>2, <1>9 DEF Lineage, Plans
  <2>2. life'[plan] = to /\ at'[plan] = r
    BY <1>1, <1>2, <2>1
  <2>3. Progress(plan)
    BY <1>3, <1>5, <1>7, <1>8, <2>2, RefreshProgresses DEF r
  <2>4. DOMAIN at' = Plans /\ \A other \in Plans : other # plan => at'[other] = at[other]
    BY <1>1, <1>2
  <2>5. Progresses
    BY <1>1, <1>8, <2>1, <2>3, <2>4, OnePlanMoves DEF worldVars
  <2> QED
    BY <2>5, ProgressKeeps
<1>10. CASE plan = "rollback"
  <2> DEFINE back == IF to = "COMPLETED" /\ life["forward"] = "ROLLING_BACK" THEN "SUPERSEDED"
                     ELSE life["forward"]
  <2>1. life' = [life EXCEPT !["rollback"] = to, !["forward"] = back]
    BY <1>1, <1>2, <1>10 DEF Lineage, Plans, Take, PlanFrom, PlanTo
  <2>2. back \in PlanLifecycle \cup {"ABSENT"}
    BY <1>2 DEF PlanLifecycle, Plans
  <2> HIDE DEF back
  <2>3. life'["rollback"] = to /\ life'["forward"] = back
        /\ life' \in [Plans -> PlanLifecycle \cup {"ABSENT"}]
    BY <1>2, <1>8, <2>1, <2>2 DEF Plans
  <2>4. at'["rollback"] = r /\ at'["forward"] = at["forward"] /\ DOMAIN at' = Plans
    BY <1>1, <1>2, <1>10 DEF Plans
  <2>5. Progress("rollback")
    BY <1>3, <1>5, <1>7, <1>8, <1>10, <2>3, <2>4, RefreshProgresses DEF r
  <2>6. Progress("forward")
    <3>1. at["forward"] \in [DOMAIN steps["forward"] -> StepsAt]
      BY DEF ExecutionInvariant, Typed, Plans
    <3> QED
      BY <2>3, <2>4, <3>1 DEF Progress, back
  <2>7. RollsBack' <=> RollsBack
    BY <2>3 DEF RollsBack, back
  <2>8. Progresses
    BY <1>1, <2>3, <2>4, <2>5, <2>6, <2>7 DEF Progresses, worldVars, Plans
  <2> QED
    BY <2>8, ProgressKeeps
<1> QED
  BY <1>9, <1>10 DEF Plans

----------------------------------------------------------------------------
\* The steps that reach the world

LEMMA DispatchKeeps ==
  ASSUME ExecutionInvariant, NEW plan \in Plans, NEW p \in DOMAIN at[plan], Dispatch(plan, p)
  PROVE  ExecutionInvariant'
<1> DEFINE st == [at[plan] EXCEPT ![p] = "DISPATCHED"]
           c == <<plan, p, sent[plan][p] + 1>>
<1>1. /\ life[plan] \in {"READY", "EXECUTING"} /\ at[plan][p] = "READY"
      /\ life' = [life EXCEPT ![plan] = "EXECUTING"]
      /\ at' = [at EXCEPT ![plan] = st]
      /\ sent' = [sent EXCEPT ![plan][p] = sent[plan][p] + 1]
      /\ wire' = wire \cup {c}
      /\ transition' = transition /\ steps' = steps /\ journal' = journal /\ plane' = plane
      /\ known' = known
  BY DEF Dispatch, SetAt, PlanFrom, PlanTo
<1>2. /\ Typed /\ StepsAreBacked /\ Fenced /\ Complements /\ CompletedIsDone
      /\ known => PlaneIs
  BY DEF ExecutionInvariant
<1>3. /\ DOMAIN at = Plans /\ life \in [Plans -> PlanLifecycle \cup {"ABSENT"}]
      /\ DOMAIN sent = Plans
      /\ \A q \in Plans : /\ at[q] \in [DOMAIN steps[q] -> StepsAt]
                          /\ sent[q] \in [DOMAIN steps[q] -> Nat]
      /\ DOMAIN at[plan] = DOMAIN steps[plan]
  BY <1>2 DEF Typed
<1>4. /\ sent'[plan] = [sent[plan] EXCEPT ![p] = sent[plan][p] + 1]
      /\ DOMAIN sent' = Plans /\ \A q \in Plans : q # plan => sent'[q] = sent[q]
  BY <1>1, <1>3
<1>5. \A q \in Plans : sent'[q] \in [DOMAIN steps[q] -> Nat]
  BY <1>3, <1>4
<1>6. \A q \in Plans : \A s \in DOMAIN steps[q] :
        sent'[q][s] = IF q = plan /\ s = p THEN sent[q][s] + 1 ELSE sent[q][s]
  BY <1>3, <1>4
<1>7. ASSUME NEW q \in Plans, NEW s \in DOMAIN steps[q]
      PROVE  Executed(q, s)' <=> Executed(q, s)
  <2>1. sent[q][s] \in Nat /\ \A n : <<q, s, n>> \in journal => n \in 1 .. sent[q][s]
    BY <1>2, ExecutedIs
  <2>2. \A n : n \in 1 .. sent[q][s] => n \in 1 .. sent'[q][s]
    BY <1>6, <2>1
  <2>3. Executed(q, s)' <=> \E n \in 1 .. sent'[q][s] : <<q, s, n>> \in journal
    BY <1>1 DEF Executed
  <2> QED
    BY <2>1, <2>2, <2>3 DEF Executed
<1>8. \A q \in Plans : Done(q)' = Done(q)
  <2> SUFFICES ASSUME NEW q \in Plans
               PROVE  Done(q)' = Done(q)
    OBVIOUS
  <2>1. \A s \in DOMAIN steps[q] : Executed(q, s)' <=> Executed(q, s)
    BY <1>7
  <2> QED
    BY <1>1, <2>1 DEF Done
<1>9. \A q \in Plans : \A s \in DOMAIN steps[q] :
        at'[q][s] = IF q = plan /\ s = p THEN "DISPATCHED" ELSE at[q][s]
  BY <1>1, <1>3
<1>10. DOMAIN at' = Plans /\ \A q \in Plans : at'[q] \in [DOMAIN steps[q] -> StepsAt]
  BY <1>1, <1>3 DEF StepsAt
<1>11. life' \in [Plans -> PlanLifecycle \cup {"ABSENT"}]
       /\ \A q \in Plans : life'[q] = IF q = plan THEN "EXECUTING" ELSE life[q]
  BY <1>1, <1>3 DEF PlanLifecycle
<1> HIDE DEF st
<1>12. Typed'
  <2>1. ASSUME NEW d \in (wire \cup journal)'
        PROVE  IsCommand(d)'
    <3>1. CASE d = c
      <4>1. sent'[plan][p] = sent[plan][p] + 1 /\ sent[plan][p] \in Nat
        BY <1>3, <1>6
      <4>2. sent[plan][p] + 1 \in 1 .. sent'[plan][p]
        BY <4>1
      <4> QED
        BY <1>1, <1>3, <3>1, <4>2 DEF IsCommand
    <3>2. CASE d # c
      <4>1. IsCommand(d)
        BY <1>1, <1>2, <3>2 DEF Typed
      <4>2. PICK q \in Plans : \E s \in DOMAIN steps[q] : \E n \in 1 .. sent[q][s] :
                                d = <<q, s, n>>
        BY <4>1 DEF IsCommand
      <4>3. PICK s \in DOMAIN steps[q] : \E n \in 1 .. sent[q][s] : d = <<q, s, n>>
        BY <4>2
      <4>4. \A n : n \in 1 .. sent[q][s] => n \in 1 .. sent'[q][s]
        BY <1>3, <1>6
      <4> QED
        BY <1>1, <4>3, <4>4 DEF IsCommand
    <3> QED
      BY <3>1, <3>2
  <2> QED
    BY <1>1, <1>2, <1>4, <1>5, <1>10, <1>11, <2>1 DEF Typed
<1>13. StepsAreBacked'
  <2> SUFFICES ASSUME NEW q \in Plans, NEW s \in DOMAIN steps[q]
               PROVE  /\ at'[q][s] = "COMPLETED" => Executed(q, s)
                      /\ at'[q][s] # "PENDING" \/ sent'[q][s] > 0 =>
                           \A o \in steps[q][s].waits : at'[q][o] = "COMPLETED"
    BY <1>1, <1>7 DEF StepsAreBacked
  <2>1. /\ at[q][s] = "COMPLETED" => Executed(q, s)
        /\ at[q][s] # "PENDING" \/ sent[q][s] > 0 =>
             \A o \in steps[q][s].waits : at[q][o] = "COMPLETED"
    BY <1>2 DEF StepsAreBacked
  <2>2. steps[q][s].waits \subseteq DOMAIN steps[q]
    <3>1. steps[q] \in [DOMAIN steps[q] -> [kind : StepKind, waits : SUBSET DOMAIN steps[q]]]
      BY <1>2 DEF Typed, Sound
    <3> QED
      BY <3>1
  <2>3. \A o \in DOMAIN steps[q] : at[q][o] = "COMPLETED" => at'[q][o] = "COMPLETED"
    BY <1>1, <1>9
  <2>4. at'[q][s] = "COMPLETED" => at[q][s] = "COMPLETED"
    BY <1>9
  <2>5. at'[q][s] # "PENDING" \/ sent'[q][s] > 0 => at[q][s] # "PENDING" \/ sent[q][s] > 0
    BY <1>1, <1>6, <1>9
  <2> QED
    BY <2>1, <2>2, <2>3, <2>4, <2>5
<1>14. Fenced'
  <2>1. /\ life'["forward"] = IF plan = "forward" THEN "EXECUTING" ELSE life["forward"]
        /\ life'["rollback"] = IF plan = "rollback" THEN "EXECUTING" ELSE life["rollback"]
    BY <1>11 DEF Plans
  <2>2. RollsBack' <=> RollsBack
    BY <1>1, <2>1 DEF RollsBack
  <2>3. plan = "rollback" => RollsBack
    BY <1>1, <1>2 DEF Fenced
  <2>4. RollsBack => plan # "forward"
    BY <1>1 DEF RollsBack
  <2>5. c[1] = plan
    OBVIOUS
  <2> HIDE DEF c
  <2> QED
    BY <1>1, <1>2, <2>1, <2>2, <2>3, <2>4, <2>5 DEF Fenced
<1>15. Complements'
  <2>1. /\ life'["forward"] = "ABSENT" <=> life["forward"] = "ABSENT"
        /\ life'["rollback"] = "ABSENT" <=> life["rollback"] = "ABSENT"
    BY <1>1, <1>11 DEF Plans
  <2>2. Done("forward")' = Done("forward")
    BY <1>8 DEF Plans
  <2> QED
    BY <1>1, <1>2, <2>1, <2>2 DEF Complements
<1>16. CompletedIsDone'
  BY <1>1, <1>2, <1>9, <1>11 DEF CompletedIsDone
<1>17. known' => PlaneIs'
  <2>1. Done("forward")' = Done("forward") /\ Done("rollback")' = Done("rollback")
    BY <1>8 DEF Plans
  <2> QED
    BY <1>1, <1>2, <2>1 DEF PlaneIs, Route, Path, Group
<1> QED
  BY <1>12, <1>13, <1>14, <1>15, <1>16, <1>17 DEF ExecutionInvariant

\* The facts of a binding are told apart.
LEMMA FactsDiffer ==
  ASSUME Typed
  PROVE  LET S == transition.source
             T == transition.target
         IN /\ S \in RouteBinding /\ T \in RouteBinding
            /\ Route(S) # Route(T)
            /\ S.path # T.path => Path(S) # Path(T)
            /\ S.path = T.path => Path(S) = Path(T)
            /\ \A a, b \in {S, T} : Route(a) # Path(b) /\ Route(a) # Group(b) /\ Path(a) # Group(b)
<1>1. transition \in Transitions
  BY DEF Typed
<1>2. /\ transition.source \in RouteBinding /\ transition.target \in RouteBinding
      /\ transition.source.generation # transition.target.generation
  BY <1>1, TransitionsAssumption
<1> QED
  BY <1>2 DEF Route, Path, Group

\* What the execution of one step adds to what a plan has done.
LEMMA ExecuteKeeps ==
  ASSUME ExecutionInvariant, NEW c \in wire, Execute(c)
  PROVE  ExecutionInvariant'
<1>1. /\ Typed /\ StepsAreBacked /\ Fenced /\ Complements /\ CompletedIsDone
      /\ known => PlaneIs
  BY DEF ExecutionInvariant
<1>2. /\ wire' = wire \ {c} /\ journal' = journal \cup {c}
      /\ plane' = Effect(c[1], steps[c[1]][c[2]].kind)
      /\ transition' = transition /\ life' = life /\ steps' = steps /\ at' = at /\ sent' = sent
      /\ known' = known
  BY DEF Execute, planVars
<1>3. PICK plan \in Plans : \E p \in DOMAIN steps[plan] : \E n \in 1 .. sent[plan][p] :
                              c = <<plan, p, n>>
  BY <1>1 DEF Typed, IsCommand
<1>4. PICK p \in DOMAIN steps[plan] : \E n \in 1 .. sent[plan][p] : c = <<plan, p, n>>
  BY <1>3
<1>5. PICK m \in 1 .. sent[plan][p] : c = <<plan, p, m>>
  BY <1>4
<1> DEFINE kind == steps[plan][p].kind
<1>6. ASSUME NEW q \in Plans, NEW s \in DOMAIN steps[q]
      PROVE  Executed(q, s)' <=> Executed(q, s) \/ (q = plan /\ s = p)
  BY <1>2, <1>5 DEF Executed
<1>7. ASSUME NEW q \in Plans
      PROVE  \A k : k \in Done(q)' <=> k \in Done(q) \/ (q = plan /\ k = kind)
  <2>1. \A k : k \in Done(q)' <=> \E s \in DOMAIN steps[q] : Executed(q, s)' /\ steps[q][s].kind = k
    BY <1>2 DEF Done
  <2>2. \A k : k \in Done(q) <=> \E s \in DOMAIN steps[q] : Executed(q, s) /\ steps[q][s].kind = k
    BY DEF Done
  <2> QED
    BY <1>6, <2>1, <2>2
<1>8. Typed'
  <2>1. ASSUME NEW d \in (wire \cup journal)'
        PROVE  IsCommand(d)'
    <3>1. d \in wire \cup journal
      BY <1>2
    <3>2. IsCommand(d)
      BY <1>1, <3>1 DEF Typed
    <3> QED
      BY <1>2, <3>2 DEF IsCommand
  <2> QED
    BY <1>1, <1>2, <2>1 DEF Typed
<1>9. StepsAreBacked'
  BY <1>1, <1>2, <1>6 DEF StepsAreBacked
<1>10. Fenced'
  BY <1>1, <1>2 DEF Fenced, RollsBack
<1>11. known /\ RollsBack => plan # "forward"
  BY <1>1, <1>5 DEF Fenced
<1>12. plan = "rollback" => life["rollback"] # "ABSENT"
  BY <1>1, <1>4 DEF Fenced
<1>13. plan = "forward" /\ known => life["rollback"] = "ABSENT" /\ DOMAIN steps["rollback"] = {}
  BY <1>1, <1>11 DEF Fenced
<1>14. Complements'
  <2>1. known /\ life["rollback"] # "ABSENT" => \A k : k \in Done("forward")' <=> k \in Done("forward")
    BY <1>7, <1>13 DEF Plans
  <2>2. known /\ life["rollback"] # "ABSENT" => Compensates(steps["rollback"], Done("forward")')
    BY <1>1, <2>1 DEF Complements, Compensates
  <2> QED
    BY <1>1, <1>2, <2>2 DEF Complements
<1>15. CompletedIsDone'
  BY <1>1, <1>2 DEF CompletedIsDone
<1>16. ASSUME known
       PROVE  PlaneIs'
  <2> DEFINE S == transition.source
             T == transition.target
             fwd(k) == k \in Done("forward")
             back(k) == k \in Done("rollback")
  <2>1. /\ Route(S) # Route(T)
        /\ S.path # T.path => Path(S) # Path(T)
        /\ S.path = T.path => Path(S) = Path(T)
        /\ \A a, b \in {S, T} : Route(a) # Path(b) /\ Route(a) # Group(b) /\ Path(a) # Group(b)
    BY <1>1, FactsDiffer
  <2>2. /\ Route(S) \in plane <=> ~fwd("WITHDRAW_OLD_ROUTE") \/ back("INSTALL_NEW_ROUTE")
        /\ Route(T) \in plane <=> fwd("INSTALL_NEW_ROUTE") /\ ~back("WITHDRAW_OLD_ROUTE")
        /\ S.path # T.path =>
             /\ Path(S) \in plane <=> ~fwd("DEACTIVATE_OLD_PATH") \/ back("ACTIVATE_NEW_PATH")
             /\ Path(T) \in plane <=> fwd("ACTIVATE_NEW_PATH") /\ ~back("DEACTIVATE_OLD_PATH")
        /\ S.path = T.path => Path(S) \in plane
        /\ S.group # NoGroup => Group(S) \in plane
        /\ fwd("INSTALL_NEW_GROUP") => Group(T) \in plane
    BY <1>1, <1>16 DEF PlaneIs
  <2>3. kind \in {"ACTIVATE_NEW_PATH", "DEACTIVATE_OLD_PATH"} => S.path # T.path
    <3>1. kind \in PresentKinds(S, T, transition.policy)
            \/ kind \in PresentKinds(T, S, transition.policy)
      BY <1>1 DEF Complements, WorkKinds, Plans
    <3> QED
      BY <3>1, BothWays
  <2>4. plane' = Effect(plan, kind)
    BY <1>2, <1>5
  <2>5. CASE plan = "forward"
    <3>1. \A k : ~back(k) /\ ~(k \in Done("rollback")')
      BY <1>2, <1>13, <1>16, <2>5 DEF Done
    <3>2. \A k : k \in Done("forward")' <=> fwd(k) \/ k = kind
      BY <1>7, <2>5 DEF Plans
    <3>3. /\ kind = "INSTALL_NEW_GROUP" => plane' = plane \cup {Group(T)}
          /\ kind = "INSTALL_NEW_ROUTE" => plane' = plane \cup {Route(T)}
          /\ kind = "ACTIVATE_NEW_PATH" => plane' = plane \cup {Path(T)}
          /\ kind = "DEACTIVATE_OLD_PATH" => plane' = plane \ {Path(S)}
          /\ kind = "WITHDRAW_OLD_ROUTE" => plane' = plane \ {Route(S)}
          /\ kind \notin {"INSTALL_NEW_GROUP", "INSTALL_NEW_ROUTE", "ACTIVATE_NEW_PATH",
                          "DEACTIVATE_OLD_PATH", "WITHDRAW_OLD_ROUTE"} => plane' = plane
      BY <2>4, <2>5 DEF Effect, New, Old
    <3> HIDE DEF kind, S, T, fwd, back
    <3>4. /\ Route(S) \in plane' <=> Route(S) \in plane /\ kind # "WITHDRAW_OLD_ROUTE"
          /\ Route(T) \in plane' <=> Route(T) \in plane \/ kind = "INSTALL_NEW_ROUTE"
      BY <2>1, <3>3
    <3>5. S.path # T.path =>
            /\ Path(S) \in plane' <=> Path(S) \in plane /\ kind # "DEACTIVATE_OLD_PATH"
            /\ Path(T) \in plane' <=> Path(T) \in plane \/ kind = "ACTIVATE_NEW_PATH"
      BY <2>1, <3>3
    <3>6. S.path = T.path => Path(S) \in plane'
      BY <2>1, <2>2, <2>3, <3>3
    <3>7. /\ Group(S) \in plane => Group(S) \in plane'
          /\ Group(T) \in plane \/ kind = "INSTALL_NEW_GROUP" => Group(T) \in plane'
      BY <2>1, <3>3
    <3>8. transition' = transition
      BY <1>2
    <3> QED
      BY <2>2, <3>1, <3>2, <3>4, <3>5, <3>6, <3>7, <3>8
      DEF PlaneIs, S, T, fwd, back, Route, Path, Group
  <2>6. CASE plan = "rollback"
    <3>1. \A k : k \in Done("forward")' <=> fwd(k)
      BY <1>7, <2>6 DEF Plans
    <3>2. \A k : k \in Done("rollback")' <=> back(k) \/ k = kind
      BY <1>7, <2>6 DEF Plans
    <3>3. /\ kind = "INSTALL_NEW_GROUP" => plane' = plane \cup {Group(S)}
          /\ kind = "INSTALL_NEW_ROUTE" => plane' = plane \cup {Route(S)}
          /\ kind = "ACTIVATE_NEW_PATH" => plane' = plane \cup {Path(S)}
          /\ kind = "DEACTIVATE_OLD_PATH" => plane' = plane \ {Path(T)}
          /\ kind = "WITHDRAW_OLD_ROUTE" => plane' = plane \ {Route(T)}
          /\ kind \notin {"INSTALL_NEW_GROUP", "INSTALL_NEW_ROUTE", "ACTIVATE_NEW_PATH",
                          "DEACTIVATE_OLD_PATH", "WITHDRAW_OLD_ROUTE"} => plane' = plane
      BY <2>4, <2>6 DEF Effect, New, Old
    <3> HIDE DEF kind, S, T, fwd, back
    <3>4. /\ Route(S) \in plane' <=> Route(S) \in plane \/ kind = "INSTALL_NEW_ROUTE"
          /\ Route(T) \in plane' <=> Route(T) \in plane /\ kind # "WITHDRAW_OLD_ROUTE"
      BY <2>1, <3>3
    <3>5. S.path # T.path =>
            /\ Path(S) \in plane' <=> Path(S) \in plane \/ kind = "ACTIVATE_NEW_PATH"
            /\ Path(T) \in plane' <=> Path(T) \in plane /\ kind # "DEACTIVATE_OLD_PATH"
      BY <2>1, <3>3
    <3>6. S.path = T.path => Path(S) \in plane'
      BY <2>1, <2>2, <2>3, <3>3
    <3>7. /\ Group(S) \in plane => Group(S) \in plane'
          /\ Group(T) \in plane => Group(T) \in plane'
      BY <2>1, <3>3
    <3>8. transition' = transition
      BY <1>2
    <3> QED
      BY <2>2, <3>1, <3>2, <3>4, <3>5, <3>6, <3>7, <3>8
      DEF PlaneIs, S, T, fwd, back, Route, Path, Group
  <2> QED
    BY <2>5, <2>6 DEF Plans
<1>17. known' => PlaneIs'
  BY <1>2, <1>16
<1> QED
  BY <1>8, <1>9, <1>10, <1>14, <1>15, <1>17 DEF ExecutionInvariant

LEMMA BeginRollbackKeeps ==
  ASSUME ExecutionInvariant, BeginRollback
  PROVE  ExecutionInvariant'
<1> DEFINE S == transition.source
           T == transition.target
           policy == transition.policy
           applied == AppliedMutations
<1>1. /\ Typed /\ StepsAreBacked /\ Fenced /\ Complements /\ CompletedIsDone
      /\ known => PlaneIs
  BY DEF ExecutionInvariant
<1>2. PICK w \in {Shape(RollbackSteps(T, S, policy, Limits, applied))} :
        /\ life' = [forward |-> "ROLLING_BACK",
                    rollback |-> IF w = <<>> THEN "ABSENT" ELSE "READY"]
        /\ steps' = [steps EXCEPT !.rollback = w]
        /\ at' = [forward |-> Stale(at.forward), rollback |-> Fresh(w)]
        /\ sent' = [sent EXCEPT !.rollback = [p \in DOMAIN w |-> 0]]
  BY DEF BeginRollback, PlanTo
<1>3. /\ life["forward"] \notin {"ROLLING_BACK", "SUPERSEDED"}
      /\ known' = ForwardIsKnown
      /\ transition' = transition /\ wire' = wire /\ journal' = journal /\ plane' = plane
  BY DEF BeginRollback, FenceForward, PlanFrom, worldVars
<1>4. life["rollback"] = "ABSENT" /\ known /\ DOMAIN steps["rollback"] = {}
  BY <1>1, <1>3 DEF Fenced, RollsBack
<1>5. /\ DOMAIN steps = Plans /\ DOMAIN sent = Plans
      /\ Sound(steps["forward"], policy)
      /\ at["forward"] \in [DOMAIN steps["forward"] -> StepsAt]
      /\ sent["forward"] \in [DOMAIN steps["forward"] -> Nat]
      /\ S \in RouteBinding /\ T \in RouteBinding
  BY <1>1, FactsDiffer DEF Typed, Plans
<1>6. /\ life'["forward"] = "ROLLING_BACK"
      /\ life'["rollback"] = IF w = <<>> THEN "ABSENT" ELSE "READY"
      /\ life' \in [Plans -> PlanLifecycle \cup {"ABSENT"}]
  BY <1>2 DEF Plans, PlanLifecycle
<1>7. /\ DOMAIN steps' = Plans /\ steps'["forward"] = steps["forward"] /\ steps'["rollback"] = w
  BY <1>2, <1>5 DEF Plans
<1>8. /\ DOMAIN sent' = Plans /\ sent'["forward"] = sent["forward"]
      /\ sent'["rollback"] = [p \in DOMAIN w |-> 0]
  BY <1>2, <1>5 DEF Plans
<1>9. /\ DOMAIN at' = Plans /\ at'["forward"] = Stale(at["forward"]) /\ at'["rollback"] = Fresh(w)
  BY <1>2 DEF Plans
<1>10. applied \in SUBSET PresentKinds(S, T, policy)
  <2>1. applied \subseteq WorkKinds(steps["forward"])
    BY <1>5 DEF AppliedMutations, WorkKinds
  <2> QED
    BY <1>1, <2>1 DEF Complements
<1> HIDE DEF applied
<1>11. /\ Sound(w, policy)
       /\ WorkKinds(w) \subseteq PresentKinds(T, S, policy)
       /\ w # <<>> => Compensates(w, applied)
  BY <1>5, <1>10, CompensationIs
<1>12. w = <<>> => DOMAIN w = {}
  BY NoWork
<1> DEFINE stale == Stale(at["forward"])
           fresh == Fresh(w)
<1>13. /\ stale \in [DOMAIN steps["forward"] -> StepsAt]
       /\ \A p \in DOMAIN steps["forward"] :
            /\ stale[p] = "COMPLETED" <=> at["forward"][p] = "COMPLETED"
            /\ stale[p] # "PENDING" => at["forward"][p] # "PENDING"
  <2>1. stale = [p \in DOMAIN steps["forward"] |->
                   IF at["forward"][p] = "DISPATCHED" THEN "STALE" ELSE at["forward"][p]]
    BY <1>5 DEF Stale
  <2> QED
    BY <1>5, <2>1 DEF StepsAt
<1>14. /\ fresh \in [DOMAIN w -> StepsAt]
       /\ \A p \in DOMAIN w :
            /\ fresh[p] # "COMPLETED"
            /\ fresh[p] # "PENDING" => w[p].waits = {}
  <2> DEFINE st == [p \in DOMAIN w |-> "PENDING"]
  <2>1. st \in [DOMAIN w -> StepsAt] /\ \A p \in DOMAIN w : st[p] = "PENDING"
    BY DEF StepsAt
  <2> HIDE DEF st
  <2>2. /\ Refreshed(st, w) \in [DOMAIN w -> StepsAt]
        /\ \A p \in DOMAIN w :
             /\ Refreshed(st, w)[p] = "COMPLETED" <=> st[p] = "COMPLETED"
             /\ Refreshed(st, w)[p] # "PENDING" =>
                  st[p] # "PENDING" \/ \A q \in w[p].waits : st[q] = "COMPLETED"
    BY <1>11, <2>1, RefreshedIs
  <2>3. \A p \in DOMAIN w : w[p].waits \subseteq DOMAIN w
    <3>1. \A p \in DOMAIN w : w[p] \in [kind : StepKind, waits : SUBSET DOMAIN w]
      BY <1>11 DEF Sound
    <3> QED
      BY <3>1
  <2>4. fresh = Refreshed(st, w)
    BY DEF Fresh, st
  <2> HIDE DEF fresh
  <2> QED
    BY <2>1, <2>2, <2>3, <2>4
<1> HIDE DEF stale, fresh
<1>15. at'["forward"] = stale /\ at'["rollback"] = fresh
  BY <1>9 DEF stale, fresh
<1>16. ASSUME NEW p \in DOMAIN steps["forward"]
       PROVE  Executed("forward", p)' <=> Executed("forward", p)
  BY <1>3, <1>8 DEF Executed
<1>17. ASSUME NEW p \in DOMAIN w
       PROVE  ~Executed("rollback", p)'
  BY <1>8 DEF Executed
<1>18. Done("forward")' = Done("forward") /\ Done("rollback")' = {} /\ Done("rollback") = {}
  <2>1. Done("forward")' = Done("forward")
    BY <1>7, <1>16 DEF Done
  <2>2. Done("rollback")' = {}
    BY <1>7, <1>17 DEF Done
  <2>3. Done("rollback") = {}
    BY <1>4 DEF Done
  <2> QED
    BY <2>1, <2>2, <2>3
<1>19. Typed'
  <2>1. ASSUME NEW d \in (wire \cup journal)'
        PROVE  IsCommand(d)'
    <3>1. IsCommand(d)
      BY <1>1, <1>3 DEF Typed
    <3>2. PICK q \in Plans : \E s \in DOMAIN steps[q] : \E n \in 1 .. sent[q][s] :
                               d = <<q, s, n>>
      BY <3>1 DEF IsCommand
    <3>3. q = "forward"
      BY <1>4, <3>2 DEF Plans
    <3> QED
      BY <1>7, <1>8, <3>2, <3>3 DEF IsCommand
  <2>2. sent'["rollback"] \in [DOMAIN steps'["rollback"] -> Nat]
    BY <1>7, <1>8
  <2>3. ASSUME NEW q \in Plans
        PROVE  /\ Sound(steps'[q], policy)
               /\ at'[q] \in [DOMAIN steps'[q] -> StepsAt]
               /\ sent'[q] \in [DOMAIN steps'[q] -> Nat]
    <3>1. CASE q = "forward"
      BY <1>5, <1>7, <1>8, <1>13, <1>15, <3>1
    <3>2. CASE q = "rollback"
      BY <1>7, <1>11, <1>14, <1>15, <2>2, <3>2
    <3> QED
      BY <3>1, <3>2 DEF Plans
  <2> QED
    BY <1>1, <1>3, <1>6, <1>7, <1>8, <1>9, <2>1, <2>3 DEF Typed
<1>20. StepsAreBacked'
  <2> SUFFICES ASSUME NEW q \in Plans, NEW p \in DOMAIN steps'[q]
               PROVE  /\ at'[q][p] = "COMPLETED" => Executed(q, p)'
                      /\ at'[q][p] # "PENDING" \/ sent'[q][p] > 0 =>
                           \A o \in steps'[q][p].waits : at'[q][o] = "COMPLETED"
    BY DEF StepsAreBacked
  <2>1. CASE q = "forward"
    <3>1. /\ at["forward"][p] = "COMPLETED" => Executed("forward", p)
          /\ at["forward"][p] # "PENDING" \/ sent["forward"][p] > 0 =>
               \A o \in steps["forward"][p].waits : at["forward"][o] = "COMPLETED"
      BY <1>1, <1>7, <2>1 DEF StepsAreBacked, Plans
    <3>2. p \in DOMAIN steps["forward"] /\ steps["forward"][p].waits \subseteq DOMAIN steps["forward"]
      <4>1. p \in DOMAIN steps["forward"]
        BY <1>7, <2>1
      <4>2. steps["forward"][p] \in [kind : StepKind, waits : SUBSET DOMAIN steps["forward"]]
        BY <1>5, <4>1 DEF Sound
      <4> QED
        BY <4>1, <4>2
    <3> QED
      BY <1>7, <1>8, <1>13, <1>15, <1>16, <2>1, <3>1, <3>2
  <2>2. CASE q = "rollback"
    <3>1. p \in DOMAIN w /\ sent'[q][p] = 0
      BY <1>7, <1>8, <2>2
    <3> QED
      BY <1>7, <1>14, <1>15, <2>2, <3>1
  <2> QED
    BY <2>1, <2>2 DEF Plans
<1>21. Fenced'
  <2>1. RollsBack'
    BY <1>6 DEF RollsBack
  <2>2. known' => \A c \in wire : c[1] # "forward"
    BY <1>3 DEF ForwardIsKnown, Outstanding
  <2> QED
    BY <1>3, <1>6, <1>7, <1>12, <2>1, <2>2 DEF Fenced
<1>22. Complements'
  <2>1. ASSUME known', w # <<>>
        PROVE  Compensates(w, Done("forward"))
    <3>1. \A p \in DOMAIN steps["forward"] :
            Executed("forward", p) => at["forward"][p] = "COMPLETED"
      BY <1>3, <1>5, <2>1 DEF ForwardIsKnown
    <3>2. \A k \in {"INSTALL_NEW_ROUTE", "ACTIVATE_NEW_PATH", "DEACTIVATE_OLD_PATH",
                    "WITHDRAW_OLD_ROUTE"} : k \in Done("forward") => k \in applied
      BY <1>5, <3>1 DEF Done, applied, AppliedMutations, ObservationKind
    <3> QED
      BY <1>11, <2>1, <3>2 DEF Compensates
  <2>2. /\ WorkKinds(steps["forward"]) \subseteq PresentKinds(S, T, policy)
        /\ life["forward"] # "ABSENT" => PresentKinds(S, T, policy) \subseteq WorkKinds(steps["forward"])
    BY <1>1 DEF Complements
  <2>3. life["forward"] # "ABSENT"
    BY DEF BeginRollback, FenceForward, PlanFrom
  <2> QED
    BY <1>3, <1>6, <1>7, <1>11, <1>18, <2>1, <2>2, <2>3 DEF Complements
<1>23. CompletedIsDone'
  BY <1>6 DEF CompletedIsDone, Plans
<1>24. known' => PlaneIs'
  BY <1>1, <1>3, <1>4, <1>18 DEF PlaneIs, Route, Path, Group
<1> QED
  BY <1>19, <1>20, <1>21, <1>22, <1>23, <1>24 DEF ExecutionInvariant

LEMMA ExecutionStarts ==
  ASSUME Init
  PROVE  ExecutionInvariant
<1> DEFINE S == transition.source
           T == transition.target
           w == AcceptedSteps(transition)
<1>1. /\ transition \in Transitions
      /\ steps = [forward |-> w, rollback |-> <<>>]
      /\ life = [forward |-> IF steps.forward = <<>> THEN "ABSENT" ELSE "READY",
                 rollback |-> "ABSENT"]
      /\ at = [forward |-> Fresh(steps.forward), rollback |-> <<>>]
      /\ sent = [forward |-> [p \in DOMAIN steps.forward |-> 0], rollback |-> <<>>]
      /\ wire = {} /\ journal = {} /\ plane = Facts(S) /\ known = TRUE
  BY DEF Init, PlanTo
<1>2. /\ DOMAIN steps = Plans /\ steps["forward"] = w /\ steps["rollback"] = <<>>
  BY <1>1 DEF Plans
<1>3. /\ life["forward"] = IF w = <<>> THEN "ABSENT" ELSE "READY"
      /\ life["rollback"] = "ABSENT"
      /\ life \in [Plans -> PlanLifecycle \cup {"ABSENT"}]
  BY <1>1 DEF Plans, PlanLifecycle
<1>4. /\ DOMAIN at = Plans /\ at["forward"] = Fresh(w) /\ at["rollback"] = <<>>
      /\ DOMAIN sent = Plans /\ sent["forward"] = [p \in DOMAIN w |-> 0] /\ sent["rollback"] = <<>>
  BY <1>1 DEF Plans
<1>5. /\ Sound(w, transition.policy)
      /\ WorkKinds(w) \subseteq PresentKinds(S, T, transition.policy)
      /\ w # <<>> => WorkKinds(w) = PresentKinds(S, T, transition.policy)
  BY <1>1, AcceptedIs
<1>6. /\ DOMAIN <<>> = {} /\ Sound(<<>>, transition.policy) /\ WorkKinds(<<>>) = {}
  BY NoWork
<1> HIDE DEF w
<1> DEFINE fresh == Fresh(w)
<1>7. /\ fresh \in [DOMAIN w -> StepsAt]
      /\ \A p \in DOMAIN w :
           /\ fresh[p] # "COMPLETED"
           /\ fresh[p] # "PENDING" => w[p].waits = {}
  <2> DEFINE st == [p \in DOMAIN w |-> "PENDING"]
  <2>1. st \in [DOMAIN w -> StepsAt] /\ \A p \in DOMAIN w : st[p] = "PENDING"
    BY DEF StepsAt
  <2> HIDE DEF st
  <2>2. /\ Refreshed(st, w) \in [DOMAIN w -> StepsAt]
        /\ \A p \in DOMAIN w :
             /\ Refreshed(st, w)[p] = "COMPLETED" <=> st[p] = "COMPLETED"
             /\ Refreshed(st, w)[p] # "PENDING" =>
                  st[p] # "PENDING" \/ \A q \in w[p].waits : st[q] = "COMPLETED"
    BY <1>5, <2>1, RefreshedIs
  <2>3. \A p \in DOMAIN w : w[p].waits \subseteq DOMAIN w
    <3>1. \A p \in DOMAIN w : w[p] \in [kind : StepKind, waits : SUBSET DOMAIN w]
      BY <1>5 DEF Sound
    <3> QED
      BY <3>1
  <2>4. fresh = Refreshed(st, w)
    BY DEF Fresh, st
  <2> HIDE DEF fresh
  <2> QED
    BY <2>1, <2>2, <2>3, <2>4
<1> HIDE DEF fresh
<1>8. at["forward"] = fresh
  BY <1>4 DEF fresh
<1>9. Typed
  <2>1. at["rollback"] \in [DOMAIN steps["rollback"] -> StepsAt]
        /\ sent["rollback"] \in [DOMAIN steps["rollback"] -> Nat]
    BY <1>2, <1>4, <1>6
  <2>2. sent["forward"] \in [DOMAIN steps["forward"] -> Nat]
    BY <1>2, <1>4
  <2>3. \A plan \in Plans : /\ Sound(steps[plan], transition.policy)
                            /\ at[plan] \in [DOMAIN steps[plan] -> StepsAt]
                            /\ sent[plan] \in [DOMAIN steps[plan] -> Nat]
    BY <1>2, <1>5, <1>6, <1>7, <1>8, <2>1, <2>2 DEF Plans
  <2>4. \A c \in wire \cup journal : IsCommand(c)
    BY <1>1
  <2> QED
    BY <1>1, <1>2, <1>3, <1>4, <2>3, <2>4 DEF Typed
<1>10. StepsAreBacked
  <2> SUFFICES ASSUME NEW plan \in Plans, NEW p \in DOMAIN steps[plan]
               PROVE  /\ at[plan][p] = "COMPLETED" => Executed(plan, p)
                      /\ at[plan][p] # "PENDING" \/ sent[plan][p] > 0 =>
                           \A q \in steps[plan][p].waits : at[plan][q] = "COMPLETED"
    BY DEF StepsAreBacked
  <2>1. plan = "forward"
    BY <1>2, <1>6 DEF Plans
  <2>2. sent["forward"][p] = 0
    BY <1>2, <1>4, <2>1
  <2> QED
    BY <1>2, <1>7, <1>8, <2>1, <2>2
<1>11. Done("forward") = {} /\ Done("rollback") = {}
  BY <1>1 DEF Done, Executed
<1>12. Fenced
  BY <1>1, <1>2, <1>3, <1>6 DEF Fenced, RollsBack
<1>13. Complements
  BY <1>2, <1>3, <1>5, <1>6 DEF Complements
<1>14. CompletedIsDone
  BY <1>3 DEF CompletedIsDone, Plans
<1>15. PlaneIs
  <2>1. /\ Route(S) # Route(T)
        /\ S.path # T.path => Path(S) # Path(T)
        /\ \A a, b \in {S, T} : Route(a) # Path(b) /\ Route(a) # Group(b) /\ Path(a) # Group(b)
    BY <1>9, FactsDiffer
  <2>2. /\ Route(S) \in plane /\ Path(S) \in plane
        /\ S.group # NoGroup => Group(S) \in plane
        /\ \A f : f \in plane => f \in {Route(S), Path(S), Group(S)}
    BY <1>1 DEF Facts, When
  <2>3. Route(T) \notin plane
    BY <2>1, <2>2
  <2>4. S.path # T.path => Path(T) \notin plane
    BY <2>1, <2>2
  <2> QED
    BY <1>11, <2>2, <2>3, <2>4 DEF PlaneIs
<1> QED
  BY <1>9, <1>10, <1>12, <1>13, <1>14, <1>15 DEF ExecutionInvariant

LEMMA ExecutionContinues ==
  ASSUME ExecutionInvariant, Next
  PROVE  ExecutionInvariant'
<1>1. CASE \E plan \in Plans : \E p \in DOMAIN at[plan] :
             WorkStep(plan, p) \/ FaultStep(plan, p) \/ Reconcile(plan, p)
  <2>1. PICK plan \in Plans : \E p \in DOMAIN at[plan] :
               WorkStep(plan, p) \/ FaultStep(plan, p) \/ Reconcile(plan, p)
    BY <1>1
  <2>2. PICK p \in DOMAIN at[plan] :
               WorkStep(plan, p) \/ FaultStep(plan, p) \/ Reconcile(plan, p)
    BY <2>1
  <2>3. CASE WorkStep(plan, p)
    BY <2>3, DispatchKeeps, CompleteKeeps DEF WorkStep
  <2>4. CASE FaultStep(plan, p)
    BY <2>4, ReportDoubtKeeps, FailKeeps DEF FaultStep
  <2>5. CASE Reconcile(plan, p)
    BY <2>5, ReconcileKeeps
  <2> QED
    BY <2>2, <2>3, <2>4, <2>5
<1>2. CASE \E plan \in Plans : Invalidate(plan) \/ Revalidate(plan)
  BY <1>2, InvalidateKeeps, RevalidateKeeps
<1>3. CASE \E c \in wire : Execute(c) \/ Lose(c)
  BY <1>3, ExecuteKeeps, LoseKeeps
<1>4. CASE Restart
  BY <1>4, RestartKeeps
<1>5. CASE BeginRollback
  BY <1>5, BeginRollbackKeeps
<1> QED
  BY <1>1, <1>2, <1>3, <1>4, <1>5 DEF Next

\* Without a step all stays as it is.
LEMMA ExecutionRests ==
  ASSUME ExecutionInvariant, UNCHANGED vars
  PROVE  ExecutionInvariant'
<1>1. /\ transition' = transition /\ life' = life /\ steps' = steps /\ at' = at /\ sent' = sent
      /\ wire' = wire /\ journal' = journal /\ plane' = plane /\ known' = known
  BY DEF vars, planVars, worldVars
<1>2. \A plan \in Plans : Progress(plan)
  BY <1>1, UntouchedPlan
<1>3. Progresses
  BY <1>1, <1>2 DEF Progresses, RollsBack, ExecutionInvariant, Typed
<1> QED
  BY <1>3, ProgressKeeps

----------------------------------------------------------------------------
\* What the invariant says of the data plane

\* A plan that has done a step of its last side has done all of the first.
LEMMA LastSideWaits ==
  ASSUME ExecutionInvariant, NEW plan \in Plans,
         NEW k \in Done(plan) \cap LastKinds(transition.policy)
  PROVE  FirstKinds(transition.policy) \cap WorkKinds(steps[plan]) \subseteq Done(plan)
<1>1. Typed /\ StepsAreBacked
  BY DEF ExecutionInvariant
<1>2. PICK p \in DOMAIN steps[plan] : Executed(plan, p) /\ steps[plan][p].kind = k
  BY DEF Done
<1> DEFINE C == {q \in DOMAIN steps[plan] : at[plan][q] = "COMPLETED"}
<1>3. \A q \in DOMAIN steps[plan] : steps[plan][q].waits \subseteq DOMAIN steps[plan]
  <2>1. \A q \in DOMAIN steps[plan] :
          steps[plan][q] \in [kind : StepKind, waits : SUBSET DOMAIN steps[plan]]
    BY <1>1 DEF Typed, Sound
  <2> QED
    BY <2>1
<1>4. steps[plan][p].waits \subseteq C
  <2>1. sent[plan][p] > 0
    BY <1>1, <1>2, ExecutedIs
  <2> QED
    BY <1>1, <1>3, <2>1 DEF StepsAreBacked
<1>5. \A r \in C : steps[plan][r].waits \subseteq C
  <2>1. \A r \in C : at[plan][r] # "PENDING"
    OBVIOUS
  <2> QED
    BY <1>1, <1>3, <2>1 DEF StepsAreBacked
<1>6. \A q \in C : Executed(plan, q)
  BY <1>1 DEF StepsAreBacked
<1>7. C \in SUBSET DOMAIN steps[plan]
  OBVIOUS
<1> HIDE DEF C
<1> SUFFICES ASSUME NEW q \in DOMAIN steps[plan],
                    steps[plan][q].kind \in FirstKinds(transition.policy)
             PROVE  Executed(plan, q)
  BY DEF WorkKinds, Done
<1>8. InOrder(steps[plan], transition.policy)
  BY <1>1 DEF Typed, Sound
<1>9. q \in C
  BY <1>2, <1>4, <1>5, <1>7, <1>8 DEF InOrder
<1> QED
  BY <1>6, <1>9

\* What there is of the forward plan and of the rollback plan.
LEMMA WhatIsThere ==
  ASSUME ExecutionInvariant
  PROVE  LET S == transition.source
             T == transition.target
             all == {"INSTALL_NEW_ROUTE", "WITHDRAW_OLD_ROUTE"}
                      \cup (IF S.path = T.path THEN {}
                            ELSE {"ACTIVATE_NEW_PATH", "DEACTIVATE_OLD_PATH"})
                      \cup (IF T.group = NoGroup \/ T.group = S.group THEN {}
                            ELSE {"INSTALL_NEW_GROUP"})
         IN /\ Done("forward") # {} \/ life.forward = "COMPLETED" =>
                 all \subseteq WorkKinds(steps.forward)
            /\ known /\ Done("rollback") # {} => Compensates(steps.rollback, Done("forward"))
            /\ Done("rollback") \subseteq WorkKinds(steps.rollback)
<1> DEFINE S == transition.source
           T == transition.target
           P == PresentKinds(S, T, transition.policy)
<1>1. Fenced /\ Complements
  BY DEF ExecutionInvariant
<1>2. Done("forward") # {} \/ life["forward"] = "COMPLETED" => life["forward"] # "ABSENT"
  BY <1>1 DEF Fenced, Done
<1>3. /\ "INSTALL_NEW_ROUTE" \in P /\ "WITHDRAW_OLD_ROUTE" \in P
      /\ "ACTIVATE_NEW_PATH" \in P <=> S.path # T.path
      /\ "DEACTIVATE_OLD_PATH" \in P <=> S.path # T.path
      /\ "INSTALL_NEW_GROUP" \in P <=> T.group # NoGroup /\ T.group # S.group
  BY Presence
<1>4. life["forward"] # "ABSENT" => P \subseteq WorkKinds(steps["forward"])
  BY <1>1 DEF Complements
<1>5. Done("rollback") # {} => life["rollback"] # "ABSENT"
  BY <1>1 DEF Fenced, Done
<1>6. Done("rollback") \subseteq WorkKinds(steps["rollback"])
  BY DEF Done, WorkKinds
<1> HIDE DEF P
<1> QED
  BY <1>1, <1>2, <1>3, <1>4, <1>5, <1>6 DEF Complements

LEMMA PlaneFacts ==
  ASSUME NEW binding, Route(binding) \in plane, Path(binding) \in plane,
         binding.group # NoGroup => Group(binding) \in plane
  PROVE  Forwards(binding)
BY DEF Forwards, Facts, When

LEMMA InvariantIsLit ==
  ASSUME ExecutionInvariant
  PROVE  NeverDark
<1> DEFINE S == transition.source
           T == transition.target
           fwd(kind) == kind \in Done("forward")
           back(kind) == kind \in Done("rollback")
           first == FirstKinds(transition.policy)
<1> SUFFICES ASSUME MakeFirst, known
             PROVE  Forwards(S) \/ Forwards(T)
  BY DEF NeverDark
<1>1. LastKinds(transition.policy) = BreakKind /\ first = MakeKind
  BY DEF MakeFirst, LastKinds, FirstKinds
<1> HIDE DEF first
<1>2. PlaneIs
  BY DEF ExecutionInvariant
<1>3. /\ Route(S) \in plane <=> ~fwd("WITHDRAW_OLD_ROUTE") \/ back("INSTALL_NEW_ROUTE")
      /\ Route(T) \in plane <=> fwd("INSTALL_NEW_ROUTE") /\ ~back("WITHDRAW_OLD_ROUTE")
      /\ S.path # T.path =>
           /\ Path(S) \in plane <=> ~fwd("DEACTIVATE_OLD_PATH") \/ back("ACTIVATE_NEW_PATH")
           /\ Path(T) \in plane <=> fwd("ACTIVATE_NEW_PATH") /\ ~back("DEACTIVATE_OLD_PATH")
      /\ S.path = T.path => Path(S) \in plane
      /\ S.group # NoGroup => Group(S) \in plane
      /\ fwd("INSTALL_NEW_GROUP") => Group(T) \in plane
  BY <1>2 DEF PlaneIs
<1>4. CASE back("WITHDRAW_OLD_ROUTE") \/ back("DEACTIVATE_OLD_PATH")
  <2>1. MakeKind \cap WorkKinds(steps["rollback"]) \subseteq Done("rollback")
    BY <1>1, <1>4, LastSideWaits DEF BreakKind, Plans, first
  <2>2. Compensates(steps["rollback"], Done("forward"))
    BY <1>4, WhatIsThere
  <2>3. /\ fwd("WITHDRAW_OLD_ROUTE") => back("INSTALL_NEW_ROUTE")
        /\ fwd("DEACTIVATE_OLD_PATH") => back("ACTIVATE_NEW_PATH")
    BY <2>1, <2>2 DEF Compensates, MakeKind
  <2>4. Route(S) \in plane /\ Path(S) \in plane
    BY <1>3, <2>3
  <2> QED
    BY <1>3, <2>4, PlaneFacts
<1>5. CASE /\ ~back("WITHDRAW_OLD_ROUTE") /\ ~back("DEACTIVATE_OLD_PATH")
           /\ fwd("WITHDRAW_OLD_ROUTE") \/ fwd("DEACTIVATE_OLD_PATH")
  <2>1. MakeKind \cap WorkKinds(steps["forward"]) \subseteq Done("forward")
    BY <1>1, <1>5, LastSideWaits DEF BreakKind, Plans, first
  <2>2. Done("forward") # {}
    BY <1>5
  <2>3. /\ "INSTALL_NEW_ROUTE" \in WorkKinds(steps["forward"])
        /\ S.path # T.path => "ACTIVATE_NEW_PATH" \in WorkKinds(steps["forward"])
        /\ T.group # NoGroup /\ T.group # S.group =>
             "INSTALL_NEW_GROUP" \in WorkKinds(steps["forward"])
    BY <2>2, WhatIsThere
  <2>4. /\ fwd("INSTALL_NEW_ROUTE")
        /\ S.path # T.path => fwd("ACTIVATE_NEW_PATH")
        /\ T.group # NoGroup /\ T.group # S.group => fwd("INSTALL_NEW_GROUP")
    BY <2>1, <2>3 DEF MakeKind
  <2>5. Route(T) \in plane /\ Path(T) \in plane
    BY <1>3, <1>5, <2>4 DEF Path
  <2>6. T.group # NoGroup => Group(T) \in plane
    BY <1>3, <2>4 DEF Group
  <2> QED
    BY <2>5, <2>6, PlaneFacts
<1>6. CASE ~fwd("WITHDRAW_OLD_ROUTE") /\ ~fwd("DEACTIVATE_OLD_PATH")
  <2>1. Route(S) \in plane /\ Path(S) \in plane
    BY <1>3, <1>6
  <2> QED
    BY <1>3, <2>1, PlaneFacts
<1> QED
  BY <1>4, <1>5, <1>6

LEMMA InvariantIsApart ==
  ASSUME ExecutionInvariant
  PROVE  NeverOverlaps
<1> DEFINE S == transition.source
           T == transition.target
           fwd(kind) == kind \in Done("forward")
           back(kind) == kind \in Done("rollback")
           first == FirstKinds(transition.policy)
<1> SUFFICES ASSUME ~MakeFirst, known
             PROVE  /\ ~(Route(S) \in plane /\ Route(T) \in plane)
                    /\ S.path # T.path => ~(Path(S) \in plane /\ Path(T) \in plane)
  BY DEF NeverOverlaps
<1>1. LastKinds(transition.policy) = MakeKind /\ first = BreakKind
  BY DEF MakeFirst, LastKinds, FirstKinds
<1> HIDE DEF first
<1>2. PlaneIs
  BY DEF ExecutionInvariant
<1>3. /\ Route(S) \in plane <=> ~fwd("WITHDRAW_OLD_ROUTE") \/ back("INSTALL_NEW_ROUTE")
      /\ Route(T) \in plane <=> fwd("INSTALL_NEW_ROUTE") /\ ~back("WITHDRAW_OLD_ROUTE")
      /\ S.path # T.path =>
           /\ Path(S) \in plane <=> ~fwd("DEACTIVATE_OLD_PATH") \/ back("ACTIVATE_NEW_PATH")
           /\ Path(T) \in plane <=> fwd("ACTIVATE_NEW_PATH") /\ ~back("DEACTIVATE_OLD_PATH")
  BY <1>2 DEF PlaneIs
<1>4. ASSUME fwd("INSTALL_NEW_ROUTE") \/ fwd("ACTIVATE_NEW_PATH")
      PROVE  /\ fwd("WITHDRAW_OLD_ROUTE")
             /\ S.path # T.path => fwd("DEACTIVATE_OLD_PATH")
  <2>1. BreakKind \cap WorkKinds(steps["forward"]) \subseteq Done("forward")
    BY <1>1, <1>4, LastSideWaits DEF MakeKind, Plans, first
  <2>2. Done("forward") # {}
    BY <1>4
  <2>3. /\ "WITHDRAW_OLD_ROUTE" \in WorkKinds(steps["forward"])
        /\ S.path # T.path => "DEACTIVATE_OLD_PATH" \in WorkKinds(steps["forward"])
    BY <2>2, WhatIsThere
  <2> QED
    BY <2>1, <2>3 DEF BreakKind
<1>5. ASSUME back("INSTALL_NEW_ROUTE") \/ back("ACTIVATE_NEW_PATH")
      PROVE  /\ fwd("INSTALL_NEW_ROUTE") => back("WITHDRAW_OLD_ROUTE")
             /\ fwd("ACTIVATE_NEW_PATH") => back("DEACTIVATE_OLD_PATH")
  <2>1. BreakKind \cap WorkKinds(steps["rollback"]) \subseteq Done("rollback")
    BY <1>1, <1>5, LastSideWaits DEF MakeKind, Plans, first
  <2>2. Compensates(steps["rollback"], Done("forward"))
    BY <1>5, WhatIsThere
  <2> QED
    BY <2>1, <2>2 DEF Compensates, BreakKind
<1> QED
  BY <1>3, <1>4, <1>5

LEMMA InvariantIsConverged ==
  ASSUME ExecutionInvariant
  PROVE  CompletedHasConverged
<1> DEFINE S == transition.source
           T == transition.target
           fwd(kind) == kind \in Done("forward")
<1> SUFFICES ASSUME life["forward"] = "COMPLETED"
             PROVE  Only(T, S)
  BY DEF CompletedHasConverged
<1>1. known /\ life["rollback"] = "ABSENT" /\ DOMAIN steps["rollback"] = {}
  BY DEF ExecutionInvariant, Fenced, RollsBack
<1>2. WorkKinds(steps["forward"]) = Done("forward")
  <2>1. \A p \in DOMAIN steps["forward"] : Executed("forward", p)
    BY DEF ExecutionInvariant, CompletedIsDone, StepsAreBacked, Plans
  <2> QED
    BY <2>1 DEF WorkKinds, Done
<1>3. \A k : k \notin Done("rollback")
  BY <1>1 DEF Done
<1>4. PlaneIs
  BY <1>1 DEF ExecutionInvariant
<1>5. /\ Route(S) \in plane <=> ~fwd("WITHDRAW_OLD_ROUTE")
      /\ Route(T) \in plane <=> fwd("INSTALL_NEW_ROUTE")
      /\ S.path # T.path =>
           /\ Path(S) \in plane <=> ~fwd("DEACTIVATE_OLD_PATH")
           /\ Path(T) \in plane <=> fwd("ACTIVATE_NEW_PATH")
      /\ S.path = T.path => Path(S) \in plane
      /\ S.group # NoGroup => Group(S) \in plane
      /\ fwd("INSTALL_NEW_GROUP") => Group(T) \in plane
  BY <1>3, <1>4 DEF PlaneIs
<1>6. /\ fwd("INSTALL_NEW_ROUTE") /\ fwd("WITHDRAW_OLD_ROUTE")
      /\ S.path # T.path => fwd("ACTIVATE_NEW_PATH") /\ fwd("DEACTIVATE_OLD_PATH")
      /\ T.group # NoGroup /\ T.group # S.group => fwd("INSTALL_NEW_GROUP")
  BY <1>2, WhatIsThere
<1>7. Route(T) \in plane /\ Path(T) \in plane /\ (T.group # NoGroup => Group(T) \in plane)
  BY <1>5, <1>6 DEF Path, Group
<1>8. Forwards(T)
  BY <1>7, PlaneFacts
<1> QED
  BY <1>5, <1>6, <1>8 DEF Only

LEMMA InvariantIsRestored ==
  ASSUME ExecutionInvariant
  PROVE  RollbackRestores
<1> DEFINE S == transition.source
           T == transition.target
           fwd(kind) == kind \in Done("forward")
           back(kind) == kind \in Done("rollback")
<1> SUFFICES ASSUME life["rollback"] = "COMPLETED", known
             PROVE  Only(S, T)
  BY DEF RollbackRestores
<1>1. WorkKinds(steps["rollback"]) = Done("rollback")
  <2>1. \A p \in DOMAIN steps["rollback"] : Executed("rollback", p)
    BY DEF ExecutionInvariant, CompletedIsDone, StepsAreBacked, Plans
  <2> QED
    BY <2>1 DEF WorkKinds, Done
<1>2. Compensates(steps["rollback"], Done("forward"))
  BY DEF ExecutionInvariant, Complements
<1>3. PlaneIs
  BY DEF ExecutionInvariant
<1>4. /\ Route(S) \in plane <=> ~fwd("WITHDRAW_OLD_ROUTE") \/ back("INSTALL_NEW_ROUTE")
      /\ Route(T) \in plane <=> fwd("INSTALL_NEW_ROUTE") /\ ~back("WITHDRAW_OLD_ROUTE")
      /\ S.path # T.path =>
           /\ Path(S) \in plane <=> ~fwd("DEACTIVATE_OLD_PATH") \/ back("ACTIVATE_NEW_PATH")
           /\ Path(T) \in plane <=> fwd("ACTIVATE_NEW_PATH") /\ ~back("DEACTIVATE_OLD_PATH")
      /\ S.path = T.path => Path(S) \in plane
      /\ S.group # NoGroup => Group(S) \in plane
  BY <1>3 DEF PlaneIs
<1>5. /\ fwd("INSTALL_NEW_ROUTE") => back("WITHDRAW_OLD_ROUTE")
      /\ fwd("ACTIVATE_NEW_PATH") => back("DEACTIVATE_OLD_PATH")
      /\ fwd("DEACTIVATE_OLD_PATH") => back("ACTIVATE_NEW_PATH")
      /\ fwd("WITHDRAW_OLD_ROUTE") => back("INSTALL_NEW_ROUTE")
  BY <1>1, <1>2 DEF Compensates
<1>6. Route(S) \in plane /\ Path(S) \in plane
  BY <1>4, <1>5
<1>7. Forwards(S)
  BY <1>4, <1>6, PlaneFacts
<1> QED
  BY <1>4, <1>5, <1>7 DEF Only

LEMMA InvariantIsExact ==
  ASSUME ExecutionInvariant
  PROVE  PruningKeepsOrder
<1> DEFINE whole == GenerateSteps(transition.target, transition.source,
                                  transition.policy, Limits)
           s == Subjects(transition.target, transition.source)
<1>1. transition \in Transitions
  BY DEF ExecutionInvariant, Typed
<1>2. transition.source \in RouteBinding /\ transition.target \in RouteBinding
  BY <1>1, TransitionsAssumption
<1>3. Named(whole, s) /\ HasOrder(whole)
  BY <1>2, GeneratedIs
<1>4. PruningKeepsOrder <=>
        (Untouched =>
           LET kinds == {whole[p].kind : p \in DOMAIN whole} \cap (MakeKind \cup BreakKind)
               before == [p \in DOMAIN whole |-> Ancestors(whole, KeyOf(whole[p]))]
           IN \A applied \in SUBSET kinds :
                LET pruned == PruneRollbackSteps(whole, applied)
                    kept == {KeyOf(pruned[p]) : p \in DOMAIN pruned}
                IN \A p \in DOMAIN whole :
                     KeyOf(whole[p]) \in kept =>
                       Ancestors(pruned, KeyOf(whole[p])) = before[p] \cap kept)
  BY DEF PruningKeepsOrder
<1> HIDE DEF whole, s
<1>5. \A applied, p : p \in DOMAIN whole =>
        LET pruned == PruneRollbackSteps(whole, applied)
            kept == {KeyOf(pruned[i]) : i \in DOMAIN pruned}
        IN KeyOf(whole[p]) \in kept =>
             Ancestors(pruned, KeyOf(whole[p])) = Ancestors(whole, KeyOf(whole[p])) \cap kept
  BY <1>3, PruningKeepsAncestors
<1> QED
  BY <1>4, <1>5

LEMMA InvariantConforms ==
  ASSUME ExecutionInvariant
  PROVE  GeneratedConforms
<1>1. transition \in Transitions
  BY DEF ExecutionInvariant, Typed
<1>2. /\ transition.source \in RouteBinding /\ transition.target \in RouteBinding
      /\ transition.policy.parallel \in Nat /\ Coherent(transition.policy)
  BY <1>1, TransitionsAssumption
<1>3. Limits.parallel \in Nat \ {0}
  BY LimitsAssumption
<1>4. \A back \in BOOLEAN :
        /\ New(IF back THEN "forward" ELSE "rollback") \in RouteBinding
        /\ Old(IF back THEN "forward" ELSE "rollback") \in RouteBinding
  BY <1>2 DEF New, Old
<1>5. \A a, b \in RouteBinding :
        ConformanceDefects(GenerateSteps(a, b, transition.policy, Limits),
                           transition.policy, Limits)
          \subseteq {"STEP_LIMIT", "DEPENDENCY_LIMIT", "TOTAL_DEPENDENCY_LIMIT"}
  BY <1>2, <1>3, GeneratedIsConform
<1> QED
  BY <1>4, <1>5 DEF GeneratedConforms

----------------------------------------------------------------------------
\* The theorems

\* The plans and the data plane agree in every state that an execution reaches:
\* what is taken as done was done, a step is sent only after what it waits for,
\* the rollback plan has what undoes the forward plan, and the data plane has
\* what the two have made and not what they have broken (governor_mutate.cpp,
\* begin_rollback).
THEOREM ExecutionHolds == Spec => []ExecutionInvariant
<1>1. Init => ExecutionInvariant
  BY ExecutionStarts
<1>2. ExecutionInvariant /\ [Next]_vars => ExecutionInvariant'
  BY ExecutionContinues, ExecutionRests
<1> QED
  BY <1>1, <1>2, PTL DEF Spec

\* Under make-before-break the route is carried at every moment, for any two
\* bindings, any policy and any number of faults (README.md, 160-172).
THEOREM RouteIsNeverDark == Spec => []NeverDark
<1>1. ExecutionInvariant => NeverDark
  BY InvariantIsLit
<1> QED
  BY <1>1, ExecutionHolds, PTL

\* Under break-before-make the two bindings are never there together
\* (README.md, 174-184).
THEOREM BindingsNeverOverlap == Spec => []NeverOverlaps
<1>1. ExecutionInvariant => NeverOverlaps
  BY InvariantIsApart
<1> QED
  BY <1>1, ExecutionHolds, PTL

\* A completed plan has left the target, and nothing of the source.
THEOREM CompletionConverges == Spec => []CompletedHasConverged
<1>1. ExecutionInvariant => CompletedHasConverged
  BY InvariantIsConverged
<1> QED
  BY <1>1, ExecutionHolds, PTL

\* A completed rollback that began with nothing unreported has restored the
\* source: what pruning drops was not needed (governor_control.cpp, 91-158).
THEOREM RollbackIsComplete == Spec => []RollbackRestores
<1>1. ExecutionInvariant => RollbackRestores
  BY InvariantIsRestored
<1> QED
  BY <1>1, ExecutionHolds, PTL

\* Pruning loses no order among the steps it keeps and adds none: a kept step
\* waits for another, by way of whatever is between them, exactly if it did in
\* the whole plan, for every choice of applied kinds (prune_rollback_steps,
\* governor_control.cpp, 91-147; README.md, 285-287).
THEOREM PruningIsExact == Spec => []PruningKeepsOrder
<1>1. ExecutionInvariant => PruningKeepsOrder
  BY InvariantIsExact
<1> QED
  BY <1>1, ExecutionHolds, PTL

\* Every plan that is generated, forward or back, conforms to its policy, under
\* any bindings and coherent policy: only the configured bounds on steps and
\* dependencies can refuse it.  No cycle, no two steps of a layer on one domain,
\* no step before the other side's last word, none that FINALIZE does not
\* await, no layer over the bound (validate_dependency_graph,
\* validate_policy_conformance, serialise_to_bound).
THEOREM GeneratedPlansConform == Spec => []GeneratedConforms
<1>1. ExecutionInvariant => GeneratedConforms
  BY InvariantConforms
<1> QED
  BY <1>1, ExecutionHolds, PTL
=============================================================================
