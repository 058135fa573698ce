-------------------------- MODULE StepGraphProofs --------------------------
(***************************************************************************)
(* What the algorithms on a graph of steps compute, for every graph: the   *)
(* sort, the depths, the search and the counts are iterations, and their   *)
(* results are proved by induction over the rounds.                        *)
(*                                                                         *)
(* Induction is over the members of a set of numbers: its least number     *)
(* that is missing would be a counterexample.                              *)
(***************************************************************************)
EXTENDS StepGraph, FiniteSetTheorems, WellFoundedInduction, TLAPS

\* Some numbers have a least one.
LEMMA LeastNatural ==
  ASSUME NEW S \in SUBSET Nat, S # {}
  PROVE  \E m \in S : \A n \in S : m <= n
<1>1. IsWellFoundedOn(OpToRel(<, Nat), Nat)
  BY NatLessThanWellFounded
<1>2. PICK m \in S : \A n \in S : ~(<<n, m>> \in OpToRel(<, Nat))
  BY <1>1, WFMin
<1>3. \A n \in S : ~(n < m)
  BY <1>2 DEF OpToRel
<1> QED
  BY <1>3

\* Induction over the members of a set.
LEMMA Induction ==
  ASSUME NEW S, 0 \in S, \A n \in Nat : n \in S => n + 1 \in S
  PROVE  Nat \subseteq S
<1>1. SUFFICES ASSUME Nat \ S # {}
               PROVE  FALSE
  OBVIOUS
<1>2. PICK m \in Nat \ S : \A n \in Nat \ S : m <= n
  BY <1>1, LeastNatural
<1>3. m - 1 \in Nat /\ m - 1 \in S
  BY <1>2
<1> QED
  BY <1>2, <1>3

\* Induction up to a bound.
LEMMA BoundedInduction ==
  ASSUME NEW N \in Nat, NEW S, 0 \in S, \A n \in 1 .. N : n - 1 \in S => n \in S
  PROVE  0 .. N \subseteq S
<1> DEFINE T == {n \in Nat : n \in S \/ n > N}
<1>1. 0 \in T
  OBVIOUS
<1>2. ASSUME NEW n \in Nat, n \in T
      PROVE  n + 1 \in T
  <2>1. CASE n + 1 \in 1 .. N
    BY <1>2, <2>1
  <2>2. CASE n + 1 > N
    BY <2>2
  <2> QED
    BY <2>1, <2>2
<1> HIDE DEF T
<1>3. Nat \subseteq T
  BY <1>1, <1>2, Induction
<1> QED
  BY <1>3 DEF T

\* The numbers up to n are n.
LEMMA UpTo ==
  ASSUME NEW n \in Nat
  PROVE  IsFiniteSet(1 .. n) /\ Cardinality(1 .. n) = n
<1>1. 1 \in Int /\ n \in Int /\ (1 > n => n = 0) /\ n - 1 + 1 = n
  OBVIOUS
<1> QED
  BY <1>1, FS_Interval

\* The iteration of a function: f is its first n values after a.
Iterates(f, n, D, a, G) ==
  /\ f \in [0 .. n -> D] /\ f[0] = a
  /\ \A i \in 1 .. n : f[i] = G[<<i, f[i - 1]>>]

\* A function can be iterated any number of times.
LEMMA Iteration ==
  ASSUME NEW N \in Nat, NEW D, NEW a \in D, NEW G \in [Nat \X D -> D]
  PROVE  \E f : Iterates(f, N, D, a, G)
<1> DEFINE S == {n \in Nat : \E f : Iterates(f, n, D, a, G)}
<1>1. 0 \in S
  <2> DEFINE f == [i \in 0 .. 0 |-> a]
  <2>1. Iterates(f, 0, D, a, G)
    BY DEF Iterates
  <2> QED
    BY <2>1
<1>2. ASSUME NEW n \in Nat, n \in S
      PROVE  n + 1 \in S
  <2>1. PICK f : Iterates(f, n, D, a, G)
    BY <1>2
  <2>2. /\ f \in [0 .. n -> D] /\ f[0] = a
        /\ \A i \in 1 .. n : f[i] = G[<<i, f[i - 1]>>]
    BY <2>1 DEF Iterates
  <2> DEFINE next == G[<<n + 1, f[n]>>]
             h == [i \in 0 .. n + 1 |-> IF i = n + 1 THEN next ELSE f[i]]
  <2>3. next \in D
    BY <2>2
  <2>4. h \in [0 .. n + 1 -> D] /\ h[0] = a
    BY <2>2, <2>3
  <2>5. h[n + 1] = next /\ \A i \in 0 .. n : h[i] = f[i]
    OBVIOUS
  <2> HIDE DEF h
  <2>6. ASSUME NEW i \in 1 .. n + 1
        PROVE  h[i] = G[<<i, h[i - 1]>>]
    <3>1. CASE i = n + 1
      <4>1. i - 1 = n /\ h[n] = f[n]
        BY <3>1, <2>5
      <4>2. h[i - 1] = f[n]
        BY <4>1
      <4>3. h[i] = G[<<i, f[n]>>]
        BY <2>5, <3>1
      <4> QED
        BY <4>2, <4>3
    <3>2. CASE i # n + 1
      BY <2>2, <2>5, <3>2
    <3> QED
      BY <3>1, <3>2
  <2>7. Iterates(h, n + 1, D, a, G)
    BY <2>4, <2>6 DEF Iterates
  <2> QED
    BY <2>7
<1> HIDE DEF S
<1>3. N \in S
  BY <1>1, <1>2, Induction
<1>4. PICK f : Iterates(f, N, D, a, G)
  BY <1>3 DEF S
<1> QED
  BY <1>4

\* The position a key is found at is the first one that has it.
LEMMA PositionFound ==
  ASSUME NEW g \in Seq(Step), NEW key, Positions(g, key) # {}
  PROVE  /\ PositionOf(g, key) \in DOMAIN g
         /\ KeyOf(g[PositionOf(g, key)]) = key
         /\ ~Duplicated(g) => \A p \in DOMAIN g : KeyOf(g[p]) = key => p = PositionOf(g, key)
<1>1. Positions(g, key) \in SUBSET Nat
  BY DEF Positions
<1>2. \E p \in Positions(g, key) : \A q \in Positions(g, key) : p <= q
  BY <1>1, LeastNatural
<1>3. PositionOf(g, key) \in Positions(g, key)
  BY <1>2 DEF PositionOf
<1> QED
  BY <1>3 DEF Positions, Duplicated

\* The rounds of the search for transitive prerequisites.
LEMMA SearchRuns ==
  ASSUME NEW g \in Seq(Step), NEW target, Positions(g, target) # {}
  PROVE  /\ Search(g, target) \in [0 .. Len(g) -> SUBSET DOMAIN g]
         /\ Search(g, target)[0] = {PositionOf(g, target)}
         /\ \A n \in 1 .. Len(g) :
              Search(g, target)[n] = Met(g, Search(g, target)[n - 1])
<1> DEFINE D == SUBSET DOMAIN g
           a == {PositionOf(g, target)}
           G == [z \in Nat \X D |-> Met(g, z[2])]
<1>1. a \in D
  BY PositionFound
<1>2. \A S \in D : Met(g, S) \in D
  <2> SUFFICES ASSUME NEW S \in D, NEW p \in Met(g, S)
               PROVE  p \in DOMAIN g
    OBVIOUS
  <2>1. CASE p \in S
    BY <2>1
  <2>2. CASE \E key : Positions(g, key) # {} /\ p = PositionOf(g, key)
    BY <2>2, PositionFound
  <2> QED
    BY <2>1, <2>2 DEF Met
<1>3. G \in [Nat \X D -> D]
  BY <1>2
<1>4. Len(g) \in Nat
  OBVIOUS
<1>5. \A n \in Nat, S \in D : G[<<n, S>>] = Met(g, S)
  OBVIOUS
<1> HIDE DEF G, D, a
<1>6. PICK f : Iterates(f, Len(g), D, a, G)
  BY <1>1, <1>3, <1>4, Iteration
<1>7. f = [n \in 0 .. Len(g) |-> IF n = 0 THEN a ELSE Met(g, f[n - 1])]
  <2>1. /\ f \in [0 .. Len(g) -> D] /\ f[0] = a
        /\ \A n \in 1 .. Len(g) : f[n] = G[<<n, f[n - 1]>>]
    BY <1>6 DEF Iterates
  <2>2. ASSUME NEW n \in 1 .. Len(g)
        PROVE  f[n] = Met(g, f[n - 1])
    <3>1. f[n - 1] \in D /\ n \in Nat
      BY <1>4, <2>1
    <3> QED
      BY <1>5, <2>1, <3>1
  <2> QED
    BY <1>4, <2>1, <2>2
<1>8. Search(g, target)
        = [n \in 0 .. Len(g) |-> IF n = 0 THEN a ELSE Met(g, Search(g, target)[n - 1])]
  BY <1>7 DEF Search, a
<1>9. /\ Search(g, target)[0] = a
      /\ \A n \in 1 .. Len(g) : Search(g, target)[n] = Met(g, Search(g, target)[n - 1])
      /\ DOMAIN Search(g, target) = 0 .. Len(g)
  BY <1>4, <1>8
<1> DEFINE held == {n \in 0 .. Len(g) : Search(g, target)[n] \in D}
<1>10. 0 \in held
  BY <1>1, <1>4, <1>9
<1>11. \A n \in 1 .. Len(g) : n - 1 \in held => n \in held
  BY <1>2, <1>4, <1>9
<1> HIDE DEF held
<1>12. 0 .. Len(g) \subseteq held
  BY <1>4, <1>10, <1>11, BoundedInduction
<1>13. Search(g, target) \in [0 .. Len(g) -> D]
  BY <1>8, <1>12 DEF held
<1> QED
  BY <1>9, <1>13 DEF a, D

\* A step is found by its own key if no key is used twice.
LEMMA FoundByKey ==
  ASSUME NEW g \in Seq(Step), ~Duplicated(g), NEW p \in DOMAIN g
  PROVE  Positions(g, KeyOf(g[p])) # {} /\ PositionOf(g, KeyOf(g[p])) = p
<1>1. p \in Positions(g, KeyOf(g[p]))
  BY DEF Positions
<1> QED
  BY <1>1, PositionFound

\* A round of the search adds the prerequisites of what it has.
LEMMA MetSteps ==
  ASSUME NEW g \in Seq(Step), Linked(g), NEW S \in SUBSET DOMAIN g
  PROVE  \A p : p \in Met(g, S) <=> p \in S \/ \E q \in S : p \in Predecessors(g, q)
<1>1. ~Duplicated(g)
  BY DEF Linked
<1>2. ASSUME NEW p, p \in Met(g, S), p \notin S
      PROVE  \E q \in S : p \in Predecessors(g, q)
  <2>1. PICK q \in S : \E key \in Prerequisites(g[q]) :
                         Positions(g, key) # {} /\ p = PositionOf(g, key)
    BY <1>2 DEF Met
  <2>2. p \in DOMAIN g /\ KeyOf(g[p]) \in Prerequisites(g[q])
    BY <2>1, PositionFound
  <2> QED
    BY <2>1, <2>2 DEF Predecessors
<1>3. ASSUME NEW q \in S, NEW p \in Predecessors(g, q)
      PROVE  p \in Met(g, S)
  <2>1. p \in DOMAIN g /\ KeyOf(g[p]) \in Prerequisites(g[q])
    BY DEF Predecessors
  <2>2. Positions(g, KeyOf(g[p])) # {} /\ PositionOf(g, KeyOf(g[p])) = p
    BY <1>1, <2>1, FoundByKey
  <2> QED
    BY <2>1, <2>2 DEF Met
<1>4. S \subseteq Met(g, S)
  BY DEF Met
<1> QED
  BY <1>2, <1>3, <1>4

----------------------------------------------------------------------------
\* Chains of prerequisites

\* A chain of length 0 stays where it is.
LEMMA EmptyChain ==
  ASSUME NEW g, NEW q \in DOMAIN g
  PROVE  Chain(g, q, q, 0)
<1> DEFINE c == [i \in 0 .. 0 |-> q]
<1>1. c \in [0 .. 0 -> DOMAIN g] /\ c[0] = q
  OBVIOUS
<1>2. \A i \in 1 .. 0 : c[i - 1] \in Predecessors(g, c[i])
  OBVIOUS
<1> HIDE DEF c
<1> QED
  BY <1>1, <1>2 DEF Chain

\* A chain ends at steps of the graph, and one of length 0 where it starts.
LEMMA ChainEnds ==
  ASSUME NEW g, NEW p, NEW q, NEW n \in Nat, Chain(g, p, q, n)
  PROVE  p \in DOMAIN g /\ q \in DOMAIN g /\ (n = 0 => p = q)
BY DEF Chain

\* A chain is made longer at its start,
LEMMA ChainBefore ==
  ASSUME NEW g, NEW r, NEW q, NEW n \in Nat, Chain(g, r, q, n), NEW p \in Predecessors(g, r)
  PROVE  Chain(g, p, q, n + 1)
<1>1. PICK c \in [0 .. n -> DOMAIN g] :
        /\ c[0] = r /\ c[n] = q
        /\ \A i \in 1 .. n : c[i - 1] \in Predecessors(g, c[i])
  BY DEF Chain
<1>2. p \in DOMAIN g
  BY DEF Predecessors
<1> DEFINE h == [i \in 0 .. n + 1 |-> IF i = 0 THEN p ELSE c[i - 1]]
<1>3. h \in [0 .. n + 1 -> DOMAIN g]
  BY <1>1, <1>2
<1>4. h[0] = p /\ \A i \in 1 .. n + 1 : h[i] = c[i - 1]
  OBVIOUS
<1> HIDE DEF h
<1>5. h[n + 1] = q
  BY <1>1, <1>4
<1>6. ASSUME NEW i \in 1 .. n + 1
      PROVE  h[i - 1] \in Predecessors(g, h[i])
  <2>1. CASE i = 1
    BY <1>1, <1>4, <2>1
  <2>2. CASE i # 1
    <3>1. i - 1 \in 1 .. n /\ h[i] = c[i - 1] /\ h[i - 1] = c[(i - 1) - 1]
      BY <1>4, <2>2
    <3> QED
      BY <1>1, <3>1
  <2> QED
    BY <2>1, <2>2
<1> QED
  BY <1>3, <1>4, <1>5, <1>6 DEF Chain

\* or at its end,
LEMMA ChainAfter ==
  ASSUME NEW g, NEW p, NEW r, NEW n \in Nat, Chain(g, p, r, n),
         NEW q \in DOMAIN g, r \in Predecessors(g, q)
  PROVE  Chain(g, p, q, n + 1)
<1>1. PICK c \in [0 .. n -> DOMAIN g] :
        /\ c[0] = p /\ c[n] = r
        /\ \A i \in 1 .. n : c[i - 1] \in Predecessors(g, c[i])
  BY DEF Chain
<1> DEFINE h == [i \in 0 .. n + 1 |-> IF i = n + 1 THEN q ELSE c[i]]
<1>2. h \in [0 .. n + 1 -> DOMAIN g]
  BY <1>1
<1>3. h[n + 1] = q /\ \A i \in 0 .. n : h[i] = c[i]
  OBVIOUS
<1> HIDE DEF h
<1>4. ASSUME NEW i \in 1 .. n + 1
      PROVE  h[i - 1] \in Predecessors(g, h[i])
  <2>1. CASE i = n + 1
    BY <1>1, <1>3, <2>1
  <2>2. CASE i # n + 1
    BY <1>1, <1>3, <2>2
  <2> QED
    BY <2>1, <2>2
<1> QED
  BY <1>1, <1>2, <1>3, <1>4 DEF Chain

\* and loses its first step.
LEMMA ChainTail ==
  ASSUME NEW g, NEW p, NEW q, NEW n \in Nat, n > 0, Chain(g, p, q, n)
  PROVE  \E r \in DOMAIN g : p \in Predecessors(g, r) /\ Chain(g, r, q, n - 1)
<1>1. PICK c \in [0 .. n -> DOMAIN g] :
        /\ c[0] = p /\ c[n] = q
        /\ \A i \in 1 .. n : c[i - 1] \in Predecessors(g, c[i])
  BY DEF Chain
<1> DEFINE h == [i \in 0 .. n - 1 |-> c[i + 1]]
<1>2. h \in [0 .. n - 1 -> DOMAIN g]
  BY <1>1
<1>3. h[0] = c[1] /\ h[n - 1] = q
  BY <1>1
<1>4. ASSUME NEW i \in 1 .. n - 1
      PROVE  h[i - 1] \in Predecessors(g, h[i])
  <2>1. h[i - 1] = c[i] /\ h[i] = c[i + 1] /\ i + 1 \in 1 .. n /\ (i + 1) - 1 = i
    OBVIOUS
  <2> QED
    BY <1>1, <2>1
<1> HIDE DEF h
<1>5. Chain(g, c[1], q, n - 1)
  BY <1>2, <1>3, <1>4 DEF Chain
<1>6. 1 \in 1 .. n /\ 1 - 1 = 0
  OBVIOUS
<1>7. p \in Predecessors(g, c[1]) /\ c[1] \in DOMAIN g
  BY <1>1, <1>6
<1> QED
  BY <1>5, <1>7

\* A chain with more links than there are steps passes one of them twice, and
\* is as good without what is between.
LEMMA ChainCut ==
  ASSUME NEW g \in Seq(Step), NEW p, NEW q, Chain(g, p, q, Len(g) + 1)
  PROVE  \E m \in 1 .. Len(g) : Chain(g, p, q, m)
<1> DEFINE N == Len(g)
<1>1. N \in Nat
  OBVIOUS
<1> HIDE DEF N
<1>2. PICK c \in [0 .. N + 1 -> DOMAIN g] :
        /\ c[0] = p /\ c[N + 1] = q
        /\ \A i \in 1 .. N + 1 : c[i - 1] \in Predecessors(g, c[i])
  BY DEF Chain, N
<1>3. \E i, j \in 0 .. N : i < j /\ c[i] = c[j]
  <2> DEFINE f == [i \in 0 .. N |-> c[i]]
  <2>1. f \in [0 .. N -> DOMAIN g]
    <3>1. \A i \in 0 .. N : i \in 0 .. N + 1
      BY <1>1
    <3> QED
      BY <1>2, <3>1
  <2>2. /\ IsFiniteSet(0 .. N) /\ Cardinality(0 .. N) = N + 1
        /\ IsFiniteSet(DOMAIN g) /\ Cardinality(DOMAIN g) = N
    <3>1. DOMAIN g = 1 .. N
      BY DEF N
    <3> QED
      BY <1>1, <3>1, FS_Interval
  <2>3. Cardinality(DOMAIN g) < Cardinality(0 .. N)
    BY <1>1, <2>2
  <2> DEFINE S == 0 .. N
             T == DOMAIN g
  <2> HIDE DEF f
  <2>4. \E i, j \in S : i # j /\ f[i] = f[j]
    <3>1. /\ f \in [S -> T] /\ IsFiniteSet(S) /\ IsFiniteSet(T)
          /\ Cardinality(T) < Cardinality(S)
      BY <2>1, <2>2, <2>3
    <3> HIDE DEF S, T
    <3> QED
      BY ONLY <3>1, FS_PigeonHole
  <2>5. \A i \in 0 .. N : f[i] = c[i]
    BY DEF f
  <2>6. PICK i \in 0 .. N, j \in 0 .. N : i # j /\ c[i] = c[j]
    BY <2>4, <2>5
  <2>7. i < j \/ j < i
    BY <1>1, <2>6
  <2> QED
    BY <2>6, <2>7
<1>4. PICK i \in 0 .. N, j \in 0 .. N : i < j /\ c[i] = c[j]
  BY <1>3
<1>5. PICK d \in 1 .. N : j = i + d
  <2>1. j - i \in 1 .. N /\ j = i + (j - i)
    BY <1>1, <1>4
  <2> QED
    BY <2>1
<1> DEFINE m == (N + 1) - d
           h == [k \in 0 .. m |-> IF k <= i THEN c[k] ELSE c[k + d]]
<1>6. m \in 1 .. N /\ m \in Nat /\ i < m /\ m + d = N + 1
  BY <1>1, <1>4, <1>5
<1> HIDE DEF m
<1>7. \A k \in 0 .. m : k \in 0 .. N + 1 /\ k + d \in 0 .. N + 1
  BY <1>1, <1>5, <1>6
<1>8. h \in [0 .. m -> DOMAIN g]
  BY <1>2, <1>7
<1>9. \A k \in 0 .. m : h[k] = IF k <= i THEN c[k] ELSE c[k + d]
  OBVIOUS
<1> HIDE DEF h
<1>10. h[0] = p /\ h[m] = q
  <2>1. 0 \in 0 .. m /\ m \in 0 .. m /\ 0 <= i /\ ~(m <= i)
    BY <1>6
  <2>2. h[0] = c[0] /\ h[m] = c[m + d]
    BY <1>9, <2>1
  <2> QED
    BY <1>2, <1>6, <2>2
<1>11. ASSUME NEW k \in 1 .. m
       PROVE  h[k - 1] \in Predecessors(g, h[k])
  <2>1. k \in 0 .. m /\ k - 1 \in 0 .. m
    BY <1>6
  <2>2. h[k] = (IF k <= i THEN c[k] ELSE c[k + d])
    BY <1>9, <2>1
  <2>3. h[k - 1] = (IF k - 1 <= i THEN c[k - 1] ELSE c[(k - 1) + d])
    BY <1>9, <2>1
  <2>4. CASE k <= i
    <3>1. k \in 1 .. N + 1 /\ k - 1 <= i
      BY <1>1, <1>6, <2>4
    <3> QED
      BY <1>2, <2>2, <2>3, <2>4, <3>1
  <2>5. CASE k = i + 1
    <3>1. h[k - 1] = c[j]
      BY <1>4, <2>3, <2>5
    <3>2. h[k] = c[j + 1]
      <4>1. ~(k <= i) /\ k + d = j + 1
        BY <1>5, <2>5
      <4> QED
        BY <2>2, <4>1
    <3>3. j + 1 \in 1 .. N + 1 /\ (j + 1) - 1 = j
      BY <1>1
    <3> QED
      BY <1>2, <3>1, <3>2, <3>3
  <2>6. CASE k > i + 1
    <3>1. k + d \in 1 .. N + 1 /\ (k + d) - 1 = (k - 1) + d
      BY <1>1, <1>5, <1>6
    <3>2. h[k] = c[k + d] /\ h[k - 1] = c[(k + d) - 1]
      BY <2>2, <2>3, <2>6, <3>1
    <3> QED
      BY <1>2, <3>1, <3>2
  <2> QED
    BY <1>4, <1>6, <2>4, <2>5, <2>6
<1>12. Chain(g, p, q, m)
  BY <1>8, <1>10, <1>11 DEF Chain
<1> QED
  BY <1>6, <1>12 DEF N

----------------------------------------------------------------------------
\* The search, round by round: what has been visited after n rounds are the
\* steps from which a chain of at most n prerequisites leads to the target.
LEMMA SearchFollowsChains ==
  ASSUME NEW g \in Seq(Step), Linked(g), NEW q \in DOMAIN g
  PROVE  \A n \in 0 .. Len(g) : \A p :
           p \in Search(g, KeyOf(g[q]))[n] <=> \E m \in 0 .. n : Chain(g, p, q, m)
<1> DEFINE seen == Search(g, KeyOf(g[q]))
           exact(n) == \A p : p \in seen[n] <=> \E m \in 0 .. n : Chain(g, p, q, m)
           S == {n \in Nat : exact(n)}
<1>1. ~Duplicated(g) /\ Len(g) \in Nat
  BY DEF Linked
<1>2. Positions(g, KeyOf(g[q])) # {} /\ PositionOf(g, KeyOf(g[q])) = q
  BY <1>1, FoundByKey
<1>3. /\ seen \in [0 .. Len(g) -> SUBSET DOMAIN g]
      /\ seen[0] = {q}
      /\ \A n \in 1 .. Len(g) : seen[n] = Met(g, seen[n - 1])
  BY <1>2, SearchRuns
<1> HIDE DEF seen
<1>4. 0 \in S
  <2>1. ASSUME NEW p
        PROVE  p = q <=> \E m \in 0 .. 0 : Chain(g, p, q, m)
    BY EmptyChain, ChainEnds
  <2> QED
    BY <1>3, <2>1
<1>5. ASSUME NEW n \in 1 .. Len(g), n - 1 \in S
      PROVE  n \in S
  <2>1. n \in Nat /\ n - 1 \in Nat /\ n - 1 \in 0 .. Len(g)
    BY <1>1
  <2>2. exact(n - 1)
    BY <1>5
  <2>3. \A p : p \in seen[n] <=>
          p \in seen[n - 1] \/ \E r \in seen[n - 1] : p \in Predecessors(g, r)
    <3>1. seen[n - 1] \in SUBSET DOMAIN g /\ seen[n] = Met(g, seen[n - 1])
      BY <1>3, <2>1
    <3> QED
      BY <3>1, MetSteps
  <2>4. ASSUME NEW p, p \in seen[n]
        PROVE  \E m \in 0 .. n : Chain(g, p, q, m)
    <3>1. CASE p \in seen[n - 1]
      BY <2>1, <2>2, <3>1
    <3>2. CASE \E r \in seen[n - 1] : p \in Predecessors(g, r)
      <4>1. PICK r \in seen[n - 1] : p \in Predecessors(g, r)
        BY <3>2
      <4>2. PICK m \in 0 .. n - 1 : Chain(g, r, q, m)
        BY <2>2, <4>1
      <4>3. m \in Nat /\ m + 1 \in 0 .. n
        BY <2>1
      <4>4. Chain(g, p, q, m + 1)
        BY <4>1, <4>2, <4>3, ChainBefore
      <4> QED
        BY <4>3, <4>4
    <3> QED
      BY <2>3, <2>4, <3>1, <3>2
  <2>5. ASSUME NEW p, NEW m \in 0 .. n, Chain(g, p, q, m)
        PROVE  p \in seen[n]
    <3>1. CASE m \in 0 .. n - 1
      BY <2>2, <2>3, <2>5, <3>1
    <3>2. CASE m = n
      <4>1. PICK r \in DOMAIN g : p \in Predecessors(g, r) /\ Chain(g, r, q, n - 1)
        BY <2>1, <2>5, <3>2, ChainTail
      <4>2. r \in seen[n - 1]
        BY <2>1, <2>2, <4>1
      <4> QED
        BY <2>3, <4>1, <4>2
    <3> QED
      BY <2>1, <3>1, <3>2
  <2>6. exact(n)
    BY <2>4, <2>5
  <2> QED
    BY <2>1, <2>6
<1> HIDE DEF S
<1>6. 0 .. Len(g) \subseteq S
  BY <1>1, <1>4, <1>5, BoundedInduction
<1> QED
  BY <1>6 DEF S, seen

\* depends_transitively_on finds a chain of prerequisites, and every one.
LEMMA SearchIsDependence ==
  ASSUME NEW g \in Seq(Step), Linked(g), NEW p \in DOMAIN g, NEW q \in DOMAIN g
  PROVE  DependsTransitivelyOn(g, KeyOf(g[q]), KeyOf(g[p]))
           <=> \E n \in 1 .. Len(g) : Chain(g, p, q, n)
<1> DEFINE N == Len(g)
           found == Search(g, KeyOf(g[q]))[N]
<1>1. ~Duplicated(g) /\ N \in Nat
  BY DEF Linked
<1>2. Positions(g, KeyOf(g[q])) # {}
  BY <1>1, FoundByKey
<1>3. \A r : r \in found <=> \E m \in 0 .. N : Chain(g, r, q, m)
  BY <1>1, SearchFollowsChains
<1>4. found \subseteq DOMAIN g
  BY <1>1, <1>2, SearchRuns
<1>5. DependsTransitivelyOn(g, KeyOf(g[q]), KeyOf(g[p]))
        <=> \E r \in found : p \in Predecessors(g, r)
  BY <1>2, <1>4 DEF DependsTransitivelyOn, Ancestors, Visited, Predecessors
<1> HIDE DEF found
<1>6. ASSUME NEW r \in found, p \in Predecessors(g, r)
      PROVE  \E n \in 1 .. N : Chain(g, p, q, n)
  <2>1. PICK m \in 0 .. N : Chain(g, r, q, m)
    BY <1>3
  <2>2. m \in Nat
    BY <1>1
  <2>3. Chain(g, p, q, m + 1)
    BY <1>6, <2>1, <2>2, ChainBefore
  <2>4. CASE m + 1 \in 1 .. N
    BY <2>3, <2>4
  <2>5. CASE m = N
    BY <2>3, <2>5, ChainCut
  <2> QED
    BY <1>1, <2>4, <2>5
<1>7. ASSUME NEW n \in 1 .. N, Chain(g, p, q, n)
      PROVE  \E r \in found : p \in Predecessors(g, r)
  <2>1. n \in Nat /\ n > 0 /\ n - 1 \in 0 .. N
    BY <1>1
  <2>2. PICK r \in DOMAIN g : p \in Predecessors(g, r) /\ Chain(g, r, q, n - 1)
    BY <1>7, <2>1, ChainTail
  <2> QED
    BY <1>3, <2>1, <2>2
<1> QED
  BY <1>5, <1>6, <1>7

----------------------------------------------------------------------------
\* The sort

\* An order of steps that a plan may be executed in, prefix by prefix.
Executable(g, o) ==
  \A i \in DOMAIN o :
    /\ \A j \in DOMAIN o : o[i] = o[j] => i = j
    /\ \A p \in Predecessors(g, o[i]) : \E j \in 1 .. i - 1 : o[j] = p

\* What the sort keeps true: an indegree counts the prerequisites still to be
\* taken, and the ready steps are those that wait for none.
Sorts(g, s) ==
  /\ s.order \in Seq(DOMAIN g)
  /\ s.ready \subseteq DOMAIN g
  /\ s.indegree \in [DOMAIN g -> Nat]
  /\ \A q \in DOMAIN g :
       s.indegree[q] = Cardinality(Predecessors(g, q) \ Range(s.order))
  /\ s.ready = {q \in DOMAIN g \ Range(s.order) : s.indegree[q] = 0}
  /\ Executable(g, s.order)

\* The prerequisites of a step are finitely many (graph.cpp, index_steps).
LEMMA FinitePredecessors ==
  ASSUME NEW g \in Seq(Step), NEW q
  PROVE  /\ IsFiniteSet(Predecessors(g, q))
         /\ Predecessors(g, q) \subseteq DOMAIN g
<1>1. DOMAIN g = 1 .. Len(g) /\ Len(g) \in Nat
  OBVIOUS
<1>2. IsFiniteSet(DOMAIN g)
  BY <1>1, FS_Interval
<1>3. Predecessors(g, q) \subseteq DOMAIN g
  BY DEF Predecessors
<1> QED
  BY <1>2, <1>3, FS_Subset

\* A step is among the successors of exactly its prerequisites.
LEMMA SuccessorsOfPredecessors ==
  ASSUME NEW g, NEW p \in DOMAIN g, NEW q \in DOMAIN g
  PROVE  q \in Successors(g, p) <=> p \in Predecessors(g, q)
  BY DEF Successors, Predecessors

\* What is counted shrinks by the one that is taken.
LEMMA CountTaken ==
  ASSUME NEW S, IsFiniteSet(S), NEW T, NEW p
  PROVE  /\ Cardinality(S \ T) \in Nat
         /\ p \in S \ T => Cardinality(S \ (T \cup {p})) = Cardinality(S \ T) - 1
         /\ p \in S \ T => Cardinality(S \ T) > 0
         /\ p \notin S \ T => S \ (T \cup {p}) = S \ T
<1>1. IsFiniteSet(S \ T)
  BY FS_Subset
<1>2. Cardinality(S \ T) \in Nat
  BY <1>1, FS_CardinalityType
<1>3. ASSUME p \in S \ T
      PROVE  /\ Cardinality(S \ (T \cup {p})) = Cardinality(S \ T) - 1
             /\ Cardinality(S \ T) > 0
  <2>1. S \ (T \cup {p}) = (S \ T) \ {p}
    OBVIOUS
  <2>2. Cardinality((S \ T) \ {p}) = Cardinality(S \ T) - 1
    BY <1>1, <1>3, FS_RemoveElement
  <2>3. S \ T # {}
    BY <1>3
  <2>4. Cardinality(S \ T) # 0
    BY <1>1, <2>3, FS_EmptySet
  <2> QED
    BY <2>1, <2>2, <2>4, <1>2
<1>4. ASSUME p \notin S \ T
      PROVE  S \ (T \cup {p}) = S \ T
  BY <1>4
<1> QED
  BY <1>2, <1>3, <1>4

\* Taking a step appends it to the order.
LEMMA OrderGrows ==
  ASSUME NEW S, NEW o \in Seq(S), NEW p \in S
  PROVE  /\ Append(o, p) \in Seq(S)
         /\ Len(Append(o, p)) = Len(o) + 1
         /\ DOMAIN Append(o, p) = 1 .. Len(o) + 1
         /\ DOMAIN o = 1 .. Len(o)
         /\ Len(o) \in Nat
         /\ \A i \in 1 .. Len(o) : Append(o, p)[i] = o[i]
         /\ Append(o, p)[Len(o) + 1] = p
         /\ Range(Append(o, p)) = Range(o) \cup {p}
<1>1. /\ Append(o, p) \in Seq(S)
      /\ Len(Append(o, p)) = Len(o) + 1
      /\ DOMAIN Append(o, p) = 1 .. Len(o) + 1
      /\ DOMAIN o = 1 .. Len(o)
      /\ Len(o) \in Nat
      /\ \A i \in 1 .. Len(o) : Append(o, p)[i] = o[i]
      /\ Append(o, p)[Len(o) + 1] = p
  OBVIOUS
<1>2. Range(Append(o, p)) = Range(o) \cup {p}
  BY <1>1 DEF Range
<1> QED
  BY <1>1, <1>2

\* The sort starts with nothing taken,
LEMMA UnsortedSorts ==
  ASSUME NEW g \in Seq(Step)
  PROVE  Sorts(g, Unsorted(g))
<1> DEFINE count == [p \in DOMAIN g |-> Cardinality(Predecessors(g, p))]
           s == Unsorted(g)
<1>1. /\ s.indegree = count
      /\ s.ready = {p \in DOMAIN g : count[p] = 0}
      /\ s.order = <<>>
  BY DEF Unsorted
<1>2. \A p \in DOMAIN g : Cardinality(Predecessors(g, p)) \in Nat
  BY FinitePredecessors, FS_CardinalityType
<1>3. Range(s.order) = {}
  BY <1>1 DEF Range
<1> HIDE DEF s
<1>4. \A q \in DOMAIN g : Predecessors(g, q) \ Range(s.order) = Predecessors(g, q)
  BY <1>3
<1>5. /\ \A q \in DOMAIN g :
           s.indegree[q] = Cardinality(Predecessors(g, q) \ Range(s.order))
      /\ s.ready = {q \in DOMAIN g \ Range(s.order) : s.indegree[q] = 0}
  BY <1>1, <1>3, <1>4
<1>6. s.indegree \in [DOMAIN g -> Nat] /\ s.ready \subseteq DOMAIN g
  BY <1>1, <1>2
<1>7. s.order \in Seq(DOMAIN g) /\ Executable(g, s.order)
  BY <1>1 DEF Executable
<1> QED
  BY <1>5, <1>6, <1>7 DEF Sorts, s

\* and taking a ready step keeps the counts, the ready steps and the order
\* right.
LEMMA TakenSorts ==
  ASSUME NEW g \in Seq(Step), NEW s, Sorts(g, s), NEW p \in s.ready
  PROVE  Sorts(g, Taken(g, s, p))
<1> DEFINE after == Taken(g, s, p)
<1>4. /\ p \in DOMAIN g
      /\ p \notin Range(s.order)
      /\ s.indegree[p] = 0
      /\ s.order \in Seq(DOMAIN g)
      /\ s.indegree \in [DOMAIN g -> Nat]
      /\ s.ready = {q \in DOMAIN g \ Range(s.order) : s.indegree[q] = 0}
      /\ \A q \in DOMAIN g :
           s.indegree[q] = Cardinality(Predecessors(g, q) \ Range(s.order))
  BY DEF Sorts
<1> DEFINE released == {q \in Successors(g, p) : s.indegree[q] > 0}
<1>5. /\ after.indegree = [q \in DOMAIN g |-> IF q \in released
                                                THEN s.indegree[q] - 1
                                                ELSE s.indegree[q]]
      /\ after.ready = (s.ready \ {p})
                         \cup {q \in released : s.indegree[q] = 1}
      /\ after.order = Append(s.order, p)
  BY DEF Taken
<1> HIDE DEF after
<1>6. Range(after.order) = Range(s.order) \cup {p}
  BY <1>4, <1>5, OrderGrows
<1>7. \A q \in DOMAIN g :
        /\ q \in released <=> p \in Predecessors(g, q)
        /\ after.indegree[q] = Cardinality(Predecessors(g, q) \ Range(after.order))
        /\ after.indegree[q] \in Nat
  <2> SUFFICES ASSUME NEW q \in DOMAIN g
               PROVE  /\ q \in released <=> p \in Predecessors(g, q)
                      /\ after.indegree[q]
                           = Cardinality(Predecessors(g, q) \ Range(after.order))
                      /\ after.indegree[q] \in Nat
    OBVIOUS
  <2> DEFINE P == Predecessors(g, q)
  <2>1. IsFiniteSet(P)
    BY FinitePredecessors
  <2>2. /\ Cardinality(P \ Range(s.order)) \in Nat
        /\ p \in P \ Range(s.order) =>
             Cardinality(P \ (Range(s.order) \cup {p})) = Cardinality(P \ Range(s.order)) - 1
        /\ p \in P \ Range(s.order) => Cardinality(P \ Range(s.order)) > 0
        /\ p \notin P \ Range(s.order) => P \ (Range(s.order) \cup {p}) = P \ Range(s.order)
    BY <2>1, CountTaken
  <2>3. q \in Successors(g, p) <=> p \in P
    BY <1>4, SuccessorsOfPredecessors
  <2>4. q \in released <=> p \in P
    BY <1>4, <2>2, <2>3
  <2> HIDE DEF P
  <2>5. CASE p \in P
    BY <2>5, <2>4, <2>2, <1>4, <1>5, <1>6 DEF P
  <2>6. CASE p \notin P
    BY <2>6, <2>4, <2>2, <1>4, <1>5, <1>6 DEF P
  <2> QED
    BY <2>4, <2>5, <2>6 DEF P
<1> HIDE DEF released
<1>8. \A q \in released : q \in DOMAIN g
  BY DEF released, Successors
<1>9. after.ready = {q \in DOMAIN g \ Range(after.order) : after.indegree[q] = 0}
  <2>1. p \notin released
    BY <1>4 DEF released
  <2>2. \A q \in released : s.indegree[q] > 0
    BY DEF released
  <2>3. \A q \in DOMAIN g :
          q \in after.ready
            <=> q \in DOMAIN g \ Range(after.order) /\ after.indegree[q] = 0
    <3> SUFFICES ASSUME NEW q \in DOMAIN g
                 PROVE  q \in after.ready
                          <=> q \notin Range(after.order) /\ after.indegree[q] = 0
      OBVIOUS
    <3>1. CASE q = p
      BY <3>1, <2>1, <1>5, <1>6
    <3>2. CASE q # p /\ q \in released
      <4>1. q \notin Range(s.order)
        <5> SUFFICES ASSUME q \in Range(s.order) PROVE FALSE
          OBVIOUS
        <5>1. PICK i \in DOMAIN s.order : s.order[i] = q
          BY DEF Range
        <5>2. p \in Predecessors(g, q)
          BY <3>2, <1>7
        <5>3. PICK j \in 1 .. i - 1 : s.order[j] = p
          BY <5>1, <5>2 DEF Sorts, Executable
        <5>4. j \in DOMAIN s.order
          BY <5>1, <5>3, <1>4, OrderGrows
        <5> QED
          BY <5>3, <5>4, <1>4 DEF Range
      <4> QED
        BY <3>2, <4>1, <2>2, <1>4, <1>5, <1>6
    <3>3. CASE q # p /\ q \notin released
      BY <3>3, <1>4, <1>5, <1>6
    <3> QED
      BY <3>1, <3>2, <3>3
  <2>4. after.ready \subseteq DOMAIN g
    BY <1>4, <1>5, <1>8
  <2> QED
    BY <2>3, <2>4
<1>10. /\ after.order \in Seq(DOMAIN g)
       /\ after.indegree \in [DOMAIN g -> Nat]
       /\ after.ready \subseteq DOMAIN g
  <2>1. after.order \in Seq(DOMAIN g)
    BY <1>4, <1>5, OrderGrows
  <2>2. after.indegree \in [DOMAIN g -> Nat]
    BY <1>5, <1>7
  <2>3. after.ready \subseteq DOMAIN g
    BY <1>9
  <2> QED
    BY <2>1, <2>2, <2>3
<1>11. Executable(g, after.order)
  <2> DEFINE o == s.order  n == Len(s.order)
  <2>1. /\ DOMAIN o = 1 .. n /\ n \in Nat
        /\ DOMAIN after.order = 1 .. n + 1
        /\ \A i \in 1 .. n : after.order[i] = o[i]
        /\ after.order[n + 1] = p
    BY <1>4, <1>5, OrderGrows
  <2>2. \A i \in 1 .. n : o[i] # p
    BY <2>1, <1>4 DEF Range
  <2>3. \A r \in Predecessors(g, p) : \E j \in 1 .. n : o[j] = r
    <3> SUFFICES ASSUME NEW r \in Predecessors(g, p)
                 PROVE  r \in Range(s.order)
      BY <2>1 DEF Range
    <3>1. IsFiniteSet(Predecessors(g, p))
      BY FinitePredecessors
    <3>2. Cardinality(Predecessors(g, p) \ Range(s.order)) = 0
      BY <1>4
    <3>3. r \in Predecessors(g, p) \ Range(s.order) =>
            Cardinality(Predecessors(g, p) \ Range(s.order)) > 0
      BY <3>1, CountTaken
    <3> QED
      BY <3>2, <3>3
  <2>4. /\ \A i, j \in 1 .. n : o[i] = o[j] => i = j
        /\ \A i \in 1 .. n : \A r \in Predecessors(g, o[i]) :
             \E j \in 1 .. i - 1 : o[j] = r
    BY <2>1 DEF Sorts, Executable
  <2> HIDE DEF o, n
  <2>5. ASSUME NEW i \in 1 .. n + 1, NEW j \in 1 .. n + 1,
               after.order[i] = after.order[j]
        PROVE  i = j
    BY <2>1, <2>2, <2>4, <2>5
  <2>6. ASSUME NEW i \in 1 .. n + 1, NEW r \in Predecessors(g, after.order[i])
        PROVE  \E j \in 1 .. i - 1 : after.order[j] = r
    <3>1. CASE i = n + 1
      <4>1. r \in Predecessors(g, p) /\ i - 1 = n
        BY <3>1, <2>1, <2>6
      <4>2. PICK j \in 1 .. n : o[j] = r
        BY <2>3, <4>1
      <4> QED
        BY <4>1, <4>2, <2>1
    <3>2. CASE i \in 1 .. n
      <4>1. PICK j \in 1 .. i - 1 : o[j] = r
        BY <3>2, <2>1, <2>4, <2>6
      <4> QED
        BY <4>1, <3>2, <2>1
    <3> QED
      BY <3>1, <3>2, <2>1
  <2> QED
    BY <2>1, <2>5, <2>6 DEF Executable
<1> QED
  BY <1>7, <1>9, <1>10, <1>11 DEF Sorts, after

\* Kinds are ranked, each by a number of its own.
LEMMA Ranked ==
  /\ \A k \in StepKind : KindRank[k] \in Nat
  /\ \A k, l \in StepKind : KindRank[k] = KindRank[l] => k = l
<1>1. DOMAIN Kinds \subseteq Nat
  BY DEF Kinds
<1>2. ASSUME NEW k \in StepKind
      PROVE  KindRank[k] \in DOMAIN Kinds /\ Kinds[KindRank[k]] = k
  <2>1. \E i \in DOMAIN Kinds : Kinds[i] = k
    BY DEF StepKind, Range
  <2> QED
    BY <2>1 DEF KindRank
<1> QED
  BY <1>1, <1>2

\* A ready step is preferred by its kind, then by its subject.
LEMMA Preference ==
  ASSUME NEW g \in Seq(Step), NEW p \in DOMAIN g, NEW q \in DOMAIN g
  PROVE  /\ g[p].kind \in StepKind /\ g[p].subject \in Nat
         /\ KeyOf(g[p]) = KeyOf(g[q])
              <=> g[p].kind = g[q].kind /\ g[p].subject = g[q].subject
         /\ KeyLess(KeyOf(g[p]), KeyOf(g[q])) <=>
              \/ KindRank[g[p].kind] < KindRank[g[q].kind]
              \/ g[p].kind = g[q].kind /\ g[p].subject < g[q].subject
<1>1. g[p] \in Step /\ g[q] \in Step
  OBVIOUS
<1>2. g[p].kind \in StepKind /\ g[p].subject \in Nat
  BY <1>1 DEF Step
<1> QED
  BY <1>2 DEF KeyOf, Key, KeyLess

\* Of some steps with different keys exactly one is the least.
LEMMA OneLeast ==
  ASSUME NEW g \in Seq(Step), ~Duplicated(g), NEW R \in SUBSET DOMAIN g, R # {}
  PROVE  /\ Least(g, R) \in R
         /\ IsLeast(g, R, Least(g, R))
         /\ \A p \in R : IsLeast(g, R, p) => p = Least(g, R)
<1> DEFINE rank(p) == KindRank[g[p].kind]
           ranks == {rank(p) : p \in R}
<1>1. \A p \in R : /\ p \in DOMAIN g /\ g[p].kind \in StepKind
                   /\ g[p].subject \in Nat /\ rank(p) \in Nat
  BY Preference, Ranked
<1>2. ranks \in SUBSET Nat /\ ranks # {}
  BY <1>1
<1>3. PICK r \in ranks : \A n \in ranks : r <= n
  BY <1>2, LeastNatural
<1> DEFINE first == {p \in R : rank(p) = r}
           subjects == {g[p].subject : p \in first}
<1>4. subjects \in SUBSET Nat /\ subjects # {}
  BY <1>1, <1>3
<1>5. PICK s \in subjects : \A n \in subjects : s <= n
  BY <1>4, LeastNatural
<1>6. PICK p \in first : g[p].subject = s
  BY <1>5
<1>7. p \in R /\ rank(p) = r
  BY <1>6
<1>8. ASSUME NEW q \in R \ {p}
      PROVE  KeyLess(KeyOf(g[p]), KeyOf(g[q]))
  <2>1. rank(p) <= rank(q)
    BY <1>3, <1>7
  <2>2. CASE rank(p) # rank(q)
    <3>1. rank(p) < rank(q)
      BY <1>1, <1>7, <2>1, <2>2
    <3> QED
      BY <1>1, <1>7, <3>1, Preference
  <2>3. CASE rank(p) = rank(q)
    <3>1. g[p].kind = g[q].kind
      BY <1>1, <1>7, <2>3, Ranked
    <3>2. g[p].subject <= g[q].subject
      <4>1. q \in first
        BY <1>7, <2>3
      <4> QED
        BY <1>5, <1>6, <4>1
    <3>3. g[p].subject # g[q].subject
      <4>1. KeyOf(g[p]) # KeyOf(g[q])
        BY <1>1, <1>7 DEF Duplicated
      <4> QED
        BY <1>1, <1>7, <3>1, <4>1, Preference
    <3> QED
      BY <1>1, <1>7, <3>1, <3>2, <3>3, Preference
  <2> QED
    BY <2>2, <2>3
<1>9. IsLeast(g, R, p)
  BY <1>8 DEF IsLeast
<1>10. Least(g, R) \in R /\ IsLeast(g, R, Least(g, R))
  BY <1>7, <1>9 DEF Least
<1>11. ASSUME NEW a \in R, NEW b \in R, IsLeast(g, R, a), IsLeast(g, R, b), a # b
       PROVE  FALSE
  <2>1. KeyLess(KeyOf(g[a]), KeyOf(g[b])) /\ KeyLess(KeyOf(g[b]), KeyOf(g[a]))
    BY <1>11 DEF IsLeast
  <2>2. rank(a) < rank(b) \/ (rank(a) = rank(b) /\ g[a].subject < g[b].subject)
    BY <1>1, <2>1, Preference
  <2>3. rank(b) < rank(a) \/ (rank(a) = rank(b) /\ g[b].subject < g[a].subject)
    BY <1>1, <2>1, Preference
  <2> QED
    BY <1>1, <2>2, <2>3
<1> QED
  BY <1>10, <1>11

\* What the sort works on.
SortState(g) ==
  [indegree : [DOMAIN g -> Nat], ready : SUBSET DOMAIN g, order : Seq(DOMAIN g)]

\* Each round resorts what the round before it left, and the sort keeps its
\* invariant.
LEMMA SortRuns ==
  ASSUME NEW g \in Seq(Step), Linked(g)
  PROVE  /\ Sorting(g)[0] = Unsorted(g)
         /\ \A n \in 1 .. Len(g) : Sorting(g)[n] = Resorted(g, Sorting(g)[n - 1])
         /\ \A n \in 0 .. Len(g) : Sorts(g, Sorting(g)[n])
<1> DEFINE D == {s \in SortState(g) : Sorts(g, s)}
           a == Unsorted(g)
           G == [z \in Nat \X D |-> Resorted(g, z[2])]
<1>1. ASSUME NEW s, Sorts(g, s), s = [indegree |-> s.indegree, ready |-> s.ready, order |-> s.order]
      PROVE  s \in D
  <2>1. /\ s.indegree \in [DOMAIN g -> Nat] /\ s.ready \in SUBSET DOMAIN g
        /\ s.order \in Seq(DOMAIN g)
    BY <1>1 DEF Sorts
  <2>2. [indegree |-> s.indegree, ready |-> s.ready, order |-> s.order] \in SortState(g)
    BY <2>1 DEF SortState
  <2> QED
    BY <1>1, <2>2
<1>2. a \in D
  <2>1. Sorts(g, a)
    BY UnsortedSorts
  <2>2. a = [indegree |-> a.indegree, ready |-> a.ready, order |-> a.order]
    BY DEF Unsorted
  <2> HIDE DEF a, D
  <2> QED
    BY <1>1, <2>1, <2>2
<1>3. ASSUME NEW s \in D
      PROVE  Resorted(g, s) \in D
  <2>1. Sorts(g, s)
    OBVIOUS
  <2>2. CASE s.ready = {}
    BY <2>2 DEF Resorted
  <2>3. CASE s.ready # {}
    <3> DEFINE p == Least(g, s.ready)
               after == Taken(g, s, p)
    <3>1. s.ready \in SUBSET DOMAIN g
      BY <2>1 DEF Sorts
    <3>2. ~Duplicated(g)
      BY DEF Linked
    <3>3. p \in s.ready
      BY <2>3, <3>1, <3>2, OneLeast
    <3> HIDE DEF p
    <3>4. Sorts(g, after)
      BY <2>1, <3>3, TakenSorts
    <3>5. after = [indegree |-> after.indegree, ready |-> after.ready, order |-> after.order]
      BY DEF Taken
    <3>6. Resorted(g, s) = after
      BY <2>3 DEF Resorted, p
    <3> HIDE DEF after, D
    <3> QED
      BY <1>1, <3>4, <3>5, <3>6
  <2> QED
    BY <2>2, <2>3
<1>4. Len(g) \in Nat
  OBVIOUS
<1>5. G \in [Nat \X D -> D]
  BY <1>3
<1>6. \A n \in Nat, s \in D : G[<<n, s>>] = Resorted(g, s)
  OBVIOUS
<1> HIDE DEF G, D, a
<1>7. PICK f : Iterates(f, Len(g), D, a, G)
  BY <1>2, <1>4, <1>5, Iteration
<1>8. f = [n \in 0 .. Len(g) |-> IF n = 0 THEN a ELSE Resorted(g, f[n - 1])]
  <2>1. /\ f \in [0 .. Len(g) -> D] /\ f[0] = a
        /\ \A n \in 1 .. Len(g) : f[n] = G[<<n, f[n - 1]>>]
    BY <1>7 DEF Iterates
  <2>2. ASSUME NEW n \in 1 .. Len(g)
        PROVE  f[n] = Resorted(g, f[n - 1])
    <3>1. f[n - 1] \in D /\ n \in Nat
      BY <1>4, <2>1
    <3> QED
      BY <1>6, <2>1, <3>1
  <2> QED
    BY <1>4, <2>1, <2>2
<1>9. Sorting(g)
        = [n \in 0 .. Len(g) |-> IF n = 0 THEN a ELSE Resorted(g, Sorting(g)[n - 1])]
  BY <1>8 DEF Sorting, a
<1> DEFINE loop == Sorting(g)
<1>10. /\ loop[0] = a
       /\ \A n \in 1 .. Len(g) : loop[n] = Resorted(g, loop[n - 1])
  BY <1>4, <1>9
<1> HIDE DEF loop
<1> DEFINE held == {n \in 0 .. Len(g) : loop[n] \in D}
<1>11. 0 \in held
  BY <1>2, <1>4, <1>10
<1>12. \A n \in 1 .. Len(g) : n - 1 \in held => n \in held
  BY <1>3, <1>4, <1>10
<1> HIDE DEF held
<1>13. 0 .. Len(g) \subseteq held
  BY <1>4, <1>11, <1>12, BoundedInduction
<1>14. \A n \in 0 .. Len(g) : Sorts(g, loop[n])
  BY <1>13 DEF held, D
<1> QED
  BY <1>10, <1>14 DEF loop, a

\* An order has every step exactly if it is as long as the graph.
LEMMA OrderCounts ==
  ASSUME NEW g \in Seq(Step), NEW o \in Seq(DOMAIN g), Executable(g, o)
  PROVE  Len(o) = Len(g) <=> Range(o) = DOMAIN g
<1>1. /\ Len(o) \in Nat /\ Len(g) \in Nat
      /\ DOMAIN o = 1 .. Len(o) /\ DOMAIN g = 1 .. Len(g)
      /\ o \in [1 .. Len(o) -> DOMAIN g]
  OBVIOUS
<1>2. o \in Injection(1 .. Len(o), DOMAIN g)
  <2>1. \A i, j \in DOMAIN o : o[i] = o[j] => i = j
    BY DEF Executable
  <2> QED
    BY <1>1, <2>1 DEF Injection, IsInjective
<1>3. /\ IsFiniteSet(DOMAIN g)
      /\ Cardinality(DOMAIN g) = Len(g) /\ Cardinality(1 .. Len(o)) = Len(o)
  BY <1>1, UpTo
<1>4. Len(o) = Len(g) <=> o \in Surjection(1 .. Len(o), DOMAIN g)
  BY <1>2, <1>3, FS_Injection
<1>5. o \in Surjection(1 .. Len(o), DOMAIN g)
        <=> \A p \in DOMAIN g : \E i \in 1 .. Len(o) : o[i] = p
  BY <1>1 DEF Surjection
<1>6. Range(o) = DOMAIN g <=> \A p \in DOMAIN g : \E i \in 1 .. Len(o) : o[i] = p
  BY <1>1 DEF Range
<1> QED
  BY <1>4, <1>5, <1>6

\* A round of the sort takes the least ready step, if there is one.
LEMMA RoundTakes ==
  ASSUME NEW g \in Seq(Step), Linked(g), NEW n \in 1 .. Len(g)
  PROVE  LET s == Sorting(g)[n - 1]
             p == Least(g, s.ready)
         IN /\ s.ready = {} => Sorting(g)[n] = s
            /\ s.ready # {} =>
                 /\ p \in s.ready /\ p \in DOMAIN g
                 /\ Sorting(g)[n] = Taken(g, s, p)
                 /\ Sorting(g)[n].order = Append(s.order, p)
<1> DEFINE s == Sorting(g)[n - 1]
           p == Least(g, s.ready)
<1>1. n - 1 \in 0 .. Len(g) /\ ~Duplicated(g)
  BY DEF Linked
<1>2. Sorting(g)[n] = Resorted(g, s) /\ Sorts(g, s)
  BY <1>1, SortRuns
<1> HIDE DEF s
<1>3. s.ready \in SUBSET DOMAIN g
  BY <1>2 DEF Sorts
<1>4. ASSUME s.ready # {}
      PROVE  /\ p \in s.ready /\ p \in DOMAIN g
             /\ Sorting(g)[n] = Taken(g, s, p)
             /\ Sorting(g)[n].order = Append(s.order, p)
  <2>1. p \in s.ready /\ p \in DOMAIN g
    BY <1>1, <1>3, <1>4, OneLeast
  <2>2. Sorting(g)[n] = Taken(g, s, p)
    BY <1>2, <1>4 DEF Resorted
  <2>3. Sorting(g)[n].order = Append(s.order, p)
    BY <2>2 DEF Taken
  <2> QED
    BY <2>1, <2>2, <2>3
<1>5. s.ready = {} => Sorting(g)[n] = s
  BY <1>2 DEF Resorted
<1> QED
  BY <1>4, <1>5 DEF s

\* After as many rounds as there are steps no step is ready.
LEMMA SortEnds ==
  ASSUME NEW g \in Seq(Step), Linked(g)
  PROVE  Sorting(g)[Len(g)].ready = {}
<1> DEFINE N == Len(g)
           loop == Sorting(g)
           held == {n \in 0 .. N : loop[n].ready = {} \/ Len(loop[n].order) = n}
<1>1. N \in Nat
  OBVIOUS
<1>2. loop[0] = Unsorted(g) /\ \A n \in 0 .. N : Sorts(g, loop[n])
  BY SortRuns
<1>3. 0 \in held
  BY <1>1, <1>2 DEF Unsorted
<1>4. ASSUME NEW n \in 1 .. N, n - 1 \in held
      PROVE  n \in held
  <2>1. n - 1 \in 0 .. N /\ n \in 0 .. N
    BY <1>1
  <2>2. CASE loop[n - 1].ready = {}
    <3>1. loop[n] = loop[n - 1]
      BY <2>2, RoundTakes
    <3> QED
      BY <2>1, <2>2, <3>1
  <2>3. CASE loop[n - 1].ready # {}
    <3> DEFINE p == Least(g, loop[n - 1].ready)
               o == loop[n - 1].order
    <3>1. p \in DOMAIN g /\ loop[n].order = Append(o, p)
      BY <2>3, RoundTakes
    <3>2. o \in Seq(DOMAIN g) /\ Len(o) = n - 1
      BY <1>2, <1>4, <2>1, <2>3 DEF Sorts
    <3> HIDE DEF p, o
    <3>3. Len(loop[n].order) = (n - 1) + 1
      BY <3>1, <3>2
    <3>4. (n - 1) + 1 = n
      BY <1>1
    <3> QED
      BY <2>1, <3>3, <3>4
  <2> QED
    BY <2>2, <2>3
<1> HIDE DEF held
<1>5. 0 .. N \subseteq held
  BY <1>1, <1>3, <1>4, BoundedInduction
<1>6. loop[N].ready = {} \/ Len(loop[N].order) = N
  BY <1>1, <1>5 DEF held
<1>7. /\ loop[N].order \in Seq(DOMAIN g) /\ Executable(g, loop[N].order)
      /\ loop[N].ready = {q \in DOMAIN g \ Range(loop[N].order) : loop[N].indegree[q] = 0}
  BY <1>1, <1>2 DEF Sorts
<1>8. Len(loop[N].order) = N => Range(loop[N].order) = DOMAIN g
  BY <1>7, OrderCounts
<1> QED
  BY <1>6, <1>7, <1>8

\* The order the sort arrives at can be executed; a step is missing from it
\* only if it waits for another that is missing.
LEMMA SortedEnds ==
  ASSUME NEW g \in Seq(Step), Linked(g)
  PROVE  /\ SortedSteps(g) \in Seq(DOMAIN g)
         /\ Executable(g, SortedSteps(g))
         /\ HasOrder(g) <=> Range(SortedSteps(g)) = DOMAIN g
         /\ \A q \in DOMAIN g \ Range(SortedSteps(g)) :
              Predecessors(g, q) \ Range(SortedSteps(g)) # {}
<1> DEFINE s == Sorting(g)[Len(g)]
<1>1. Len(g) \in Nat /\ Len(g) \in 0 .. Len(g)
  OBVIOUS
<1>2. Sorts(g, s) /\ s.ready = {}
  BY <1>1, SortRuns, SortEnds
<1>3. SortedSteps(g) = s.order
  BY DEF SortedSteps
<1> HIDE DEF s
<1>4. s.order \in Seq(DOMAIN g) /\ Executable(g, s.order)
  BY <1>2 DEF Sorts
<1>5. HasOrder(g) <=> Range(s.order) = DOMAIN g
  BY <1>3, <1>4, OrderCounts DEF HasOrder
<1>6. ASSUME NEW q \in DOMAIN g \ Range(s.order)
      PROVE  Predecessors(g, q) \ Range(s.order) # {}
  <2>1. s.indegree[q] # 0
    BY <1>2 DEF Sorts
  <2>2. Cardinality(Predecessors(g, q) \ Range(s.order)) # 0
    BY <1>2, <2>1 DEF Sorts
  <2> QED
    BY <2>2, FS_EmptySet
<1> QED
  BY <1>3, <1>4, <1>5, <1>6

\* canonical_topological_order has an order of exactly the graphs whose
\* prerequisites are there and form no cycle.
LEMMA OrderedIsAcyclic ==
  ASSUME NEW g \in Seq(Step)
  PROVE  HasOrder(g) <=> Linked(g) /\ Acyclic(g)
<1> SUFFICES ASSUME Linked(g)
             PROVE  HasOrder(g) <=> Acyclic(g)
  BY DEF HasOrder
<1> DEFINE o == SortedSteps(g)
<1>1. /\ o \in Seq(DOMAIN g) /\ Executable(g, o)
      /\ HasOrder(g) <=> Range(o) = DOMAIN g
      /\ \A q \in DOMAIN g \ Range(o) : Predecessors(g, q) \ Range(o) # {}
  BY SortedEnds
<1> HIDE DEF o
<1>2. ASSUME Acyclic(g)
      PROVE  Range(o) = DOMAIN g
  <2> DEFINE S == DOMAIN g \ Range(o)
  <2>1. Range(o) \subseteq DOMAIN g
    BY <1>1 DEF Range
  <2>2. ASSUME S # {}
        PROVE  FALSE
    <3>1. PICK p \in S : Predecessors(g, p) \cap S = {}
      BY <1>2, <2>2 DEF Acyclic
    <3>2. PICK r \in Predecessors(g, p) : r \notin Range(o)
      BY <1>1, <3>1
    <3>3. r \in S
      BY <3>2 DEF Predecessors
    <3> QED
      BY <3>1, <3>2, <3>3
  <2> QED
    BY <2>1, <2>2
<1>3. ASSUME Range(o) = DOMAIN g
      PROVE  Acyclic(g)
  <2> SUFFICES ASSUME NEW S \in SUBSET DOMAIN g, S # {}
               PROVE  \E p \in S : Predecessors(g, p) \cap S = {}
    BY DEF Acyclic
  <2> DEFINE at == {i \in DOMAIN o : o[i] \in S}
  <2>1. DOMAIN o \subseteq Nat
    BY <1>1
  <2>2. at \in SUBSET Nat /\ at # {}
    <3>1. PICK p \in S : TRUE
      OBVIOUS
    <3>2. \E i \in DOMAIN o : o[i] = p
      BY <1>3, <3>1 DEF Range
    <3> QED
      BY <2>1, <3>2
  <2>3. PICK i \in at : \A j \in at : i <= j
    BY <2>2, LeastNatural
  <2>4. i \in DOMAIN o /\ o[i] \in S /\ i \in Nat
    BY <2>1, <2>3
  <2>5. ASSUME NEW p \in Predecessors(g, o[i]), p \in S
        PROVE  FALSE
    <3>1. PICK j \in 1 .. i - 1 : o[j] = p
      BY <1>1, <2>4 DEF Executable
    <3>2. j \in DOMAIN o
      BY <1>1, <2>4
    <3>3. j \in at
      BY <2>5, <3>1, <3>2
    <3>4. i <= j /\ j <= i - 1 /\ j \in Nat
      BY <2>3, <2>4, <3>3
    <3> QED
      BY <2>4, <3>4
  <2> QED
    BY <2>4, <2>5
<1> QED
  BY <1>1, <1>2, <1>3

----------------------------------------------------------------------------
\* Depths and layers

\* Bounded numbers have a greatest one,
LEMMA GreatestNatural ==
  ASSUME NEW S \in SUBSET Nat, S # {}, NEW B \in Nat, \A n \in S : n <= B
  PROVE  \E m \in S : \A n \in S : n <= m
<1> DEFINE T == {b \in Nat : \A n \in S : n <= b}
<1>1. T \in SUBSET Nat /\ T # {}
  OBVIOUS
<1>2. PICK m \in T : \A b \in T : m <= b
  BY <1>1, LeastNatural
<1>3. m \in Nat /\ \A n \in S : n <= m
  BY <1>2
<1>4. ASSUME m \notin S
      PROVE  FALSE
  <2>1. \A n \in S : n < m
    BY <1>3, <1>4
  <2>2. m - 1 \in Nat /\ \A n \in S : n <= m - 1
    <3>1. PICK s \in S : s \in Nat /\ s < m
      BY <2>1
    <3>2. m - 1 \in Nat
      BY <1>3, <3>1
    <3>3. \A n \in Nat : n < m => n <= m - 1
      BY <1>3
    <3> QED
      BY <2>1, <3>2, <3>3
  <2>3. m - 1 \in T
    BY <2>2
  <2> HIDE DEF T
  <2>4. m <= m - 1
    BY <1>2, <2>3
  <2> QED
    BY <1>3, <2>4
<1> QED
  BY <1>3, <1>4

\* and the depths of the steps of a graph are bounded.
LEMMA DepthsBounded ==
  ASSUME NEW g \in Seq(Step), NEW d \in [DOMAIN g -> Nat]
  PROVE  \E B \in Nat : \A p \in DOMAIN g : d[p] <= B
<1> DEFINE N == Len(g)
           S == {n \in Nat : \E B \in Nat : \A p \in 1 .. n : p \in 1 .. N => d[p] <= B}
<1>1. N \in Nat /\ DOMAIN g = 1 .. N
  OBVIOUS
<1> HIDE DEF N
<1>2. 0 \in S
  OBVIOUS
<1>3. ASSUME NEW n \in 1 .. N, n - 1 \in S
      PROVE  n \in S
  <2>1. PICK B \in Nat : \A p \in 1 .. n - 1 : p \in 1 .. N => d[p] <= B
    BY <1>3
  <2>2. d[n] \in Nat
    BY <1>1
  <2>3. \A p \in 1 .. n : p \in 1 .. N => d[p] \in Nat /\ (p = n \/ p \in 1 .. n - 1)
    BY <1>1
  <2>4. B + d[n] \in Nat
    BY <2>2
  <2>5. \A p \in 1 .. n : p \in 1 .. N => d[p] <= B + d[n]
    BY <2>1, <2>2, <2>3
  <2>6. n \in Nat
    BY <1>1
  <2> QED
    BY <2>4, <2>5, <2>6
<1> HIDE DEF S
<1>4. 0 .. N \subseteq S
  BY <1>1, <1>2, <1>3, BoundedInduction
<1>5. N \in S
  BY <1>1, <1>4
<1> QED
  BY <1>1, <1>5 DEF S

\* What makes a depth right: the step is below all of its prerequisites, and
\* just below one of them if it has any.
DepthIsRight(g, d, p) ==
  /\ \A q \in Predecessors(g, p) : d[q] + 1 <= d[p]
  /\ d[p] = 0 \/ \E q \in Predecessors(g, p) : d[p] = d[q] + 1

\* canonical_layers gives a step its right depth, and leaves the others alone.
LEMMA DeepenedIsRight ==
  ASSUME NEW g \in Seq(Step), NEW d \in [DOMAIN g -> Nat], NEW p \in DOMAIN g
  PROVE  /\ Deepened(g, d, p) \in [DOMAIN g -> Nat]
         /\ \A q \in DOMAIN g : q # p => Deepened(g, d, p)[q] = d[q]
         /\ p \notin Predecessors(g, p) => DepthIsRight(g, Deepened(g, d, p), p)
<1> DEFINE below == {d[q] + 1 : q \in Predecessors(g, p)} \cup {0}
           deepest == CHOOSE m \in below : \A e \in below : e <= m
           after == Deepened(g, d, p)
<1>1. Predecessors(g, p) \subseteq DOMAIN g
  BY DEF Predecessors
<1>2. \A q \in Predecessors(g, p) : d[q] \in Nat
  BY <1>1
<1>3. below \in SUBSET Nat /\ below # {}
  BY <1>2
<1>4. \E m \in below : \A e \in below : e <= m
  <2>1. PICK B \in Nat : \A q \in DOMAIN g : d[q] <= B
    BY DepthsBounded
  <2>2. B + 1 \in Nat /\ \A e \in below : e <= B + 1
    BY <1>1, <1>2, <2>1
  <2> HIDE DEF below
  <2> QED
    BY <1>3, <2>2, GreatestNatural
<1>5. deepest \in below /\ \A e \in below : e <= deepest
  BY <1>4
<1>6. after = [d EXCEPT ![p] = deepest]
  BY DEF Deepened
<1> HIDE DEF deepest, after
<1>7. deepest \in Nat
  BY <1>3, <1>5
<1>8. /\ after \in [DOMAIN g -> Nat] /\ after[p] = deepest
      /\ \A q \in DOMAIN g : q # p => after[q] = d[q]
  BY <1>6, <1>7
<1>9. ASSUME p \notin Predecessors(g, p)
      PROVE  DepthIsRight(g, after, p)
  <2>1. \A q \in Predecessors(g, p) : after[q] = d[q] /\ d[q] + 1 \in below
    BY <1>1, <1>8, <1>9
  <2>2. deepest = 0 \/ \E q \in Predecessors(g, p) : deepest = d[q] + 1
    BY <1>5
  <2> HIDE DEF below
  <2> QED
    BY <1>5, <1>8, <2>1, <2>2 DEF DepthIsRight
<1> QED
  BY <1>8, <1>9 DEF after

\* The depths round by round.
LEMMA DepthRuns ==
  ASSUME NEW g \in Seq(Step), NEW o \in Seq(DOMAIN g)
  PROVE  /\ Deepening(g, o)[0] = [p \in DOMAIN g |-> 0]
         /\ \A n \in 1 .. Len(o) :
              Deepening(g, o)[n] = Deepened(g, Deepening(g, o)[n - 1], o[n])
         /\ \A n \in 0 .. Len(o) : Deepening(g, o)[n] \in [DOMAIN g -> Nat]
<1> DEFINE N == Len(o)
           D == [DOMAIN g -> Nat]
           a == [p \in DOMAIN g |-> 0]
           G == [z \in Nat \X D |-> IF z[1] \in 1 .. N THEN Deepened(g, z[2], o[z[1]])
                                    ELSE z[2]]
<1>1. N \in Nat /\ \A n \in 1 .. N : o[n] \in DOMAIN g
  OBVIOUS
<1>2. a \in D
  OBVIOUS
<1>3. \A n \in 1 .. N, d \in D : Deepened(g, d, o[n]) \in D
  BY <1>1, DeepenedIsRight
<1>4. G \in [Nat \X D -> D]
  <2>1. ASSUME NEW z \in Nat \X D
        PROVE  (IF z[1] \in 1 .. N THEN Deepened(g, z[2], o[z[1]]) ELSE z[2]) \in D
    <3>1. z[2] \in D
      OBVIOUS
    <3> HIDE DEF D, N
    <3> QED
      BY <1>3, <3>1
  <2> HIDE DEF D, N
  <2> QED
    BY <2>1
<1>5. \A n \in 1 .. N, d \in D : G[<<n, d>>] = Deepened(g, d, o[n])
  BY <1>1
<1> HIDE DEF G, D, a
<1>6. PICK f : Iterates(f, N, D, a, G)
  BY <1>1, <1>2, <1>4, Iteration
<1>7. f = [n \in 0 .. N |-> IF n = 0 THEN a ELSE Deepened(g, f[n - 1], o[n])]
  <2>1. /\ f \in [0 .. N -> D] /\ f[0] = a
        /\ \A n \in 1 .. N : f[n] = G[<<n, f[n - 1]>>]
    BY <1>6 DEF Iterates
  <2>2. ASSUME NEW n \in 1 .. N
        PROVE  f[n] = Deepened(g, f[n - 1], o[n])
    <3>1. f[n - 1] \in D
      BY <1>1, <2>1
    <3> QED
      BY <1>5, <2>1, <3>1
  <2> QED
    BY <1>1, <2>1, <2>2
<1>8. Deepening(g, o)
        = [n \in 0 .. N |-> IF n = 0 THEN a ELSE Deepened(g, Deepening(g, o)[n - 1], o[n])]
  BY <1>7 DEF Deepening, a
<1> DEFINE loop == Deepening(g, o)
<1>9. /\ loop[0] = a
      /\ \A n \in 1 .. N : loop[n] = Deepened(g, loop[n - 1], o[n])
  BY <1>1, <1>8
<1> HIDE DEF loop
<1> DEFINE held == {n \in 0 .. N : loop[n] \in D}
<1>10. 0 \in held
  BY <1>1, <1>2, <1>9
<1>11. \A n \in 1 .. N : n - 1 \in held => n \in held
  BY <1>1, <1>3, <1>9
<1> HIDE DEF held
<1>12. 0 .. N \subseteq held
  BY <1>1, <1>10, <1>11, BoundedInduction
<1>13. \A n \in 0 .. N : loop[n] \in D
  BY <1>12 DEF held
<1> QED
  BY <1>9, <1>13 DEF loop, a, D

\* Once every step has been given its depth, all depths are right.
LEMMA DepthsAreRight ==
  ASSUME NEW g \in Seq(Step), HasOrder(g)
  PROVE  /\ Depths(g) \in [DOMAIN g -> Nat]
         /\ \A p \in DOMAIN g : DepthIsRight(g, Depths(g), p)
<1> DEFINE o == SortedSteps(g)
           N == Len(o)
           loop == Deepening(g, o)
<1>1. /\ o \in Seq(DOMAIN g) /\ Executable(g, o) /\ Range(o) = DOMAIN g
  BY SortedEnds DEF HasOrder
<1> HIDE DEF o
<1>2. /\ N \in Nat /\ DOMAIN o = 1 .. N
      /\ \A n \in 1 .. N : o[n] \in DOMAIN g
      /\ \A i, j \in 1 .. N : o[i] = o[j] => i = j
      /\ \A i \in 1 .. N : \A p \in Predecessors(g, o[i]) : \E j \in 1 .. i - 1 : o[j] = p
  BY <1>1 DEF Executable
<1>3. /\ \A n \in 1 .. N : loop[n] = Deepened(g, loop[n - 1], o[n])
      /\ \A n \in 0 .. N : loop[n] \in [DOMAIN g -> Nat]
  BY <1>1, DepthRuns
<1> HIDE DEF loop, N
<1> DEFINE held == {n \in 0 .. N : \A i \in 1 .. n : DepthIsRight(g, loop[n], o[i])}
<1>4. 0 \in held
  BY <1>2
<1>5. ASSUME NEW n \in 1 .. N, n - 1 \in held
      PROVE  n \in held
  <2>1. n \in 0 .. N /\ n - 1 \in 0 .. N
    BY <1>2
  <2>2. /\ loop[n - 1] \in [DOMAIN g -> Nat] /\ o[n] \in DOMAIN g
        /\ loop[n] = Deepened(g, loop[n - 1], o[n])
    BY <1>2, <1>3, <2>1
  <2>3. o[n] \notin Predecessors(g, o[n])
    <3> SUFFICES ASSUME o[n] \in Predecessors(g, o[n]) PROVE FALSE
      OBVIOUS
    <3>1. PICK j \in 1 .. n - 1 : o[j] = o[n]
      BY <1>2
    <3> QED
      BY <1>2, <3>1
  <2>4. /\ \A q \in DOMAIN g : q # o[n] => loop[n][q] = loop[n - 1][q]
        /\ DepthIsRight(g, loop[n], o[n])
    <3> DEFINE d == loop[n - 1]  p == o[n]
    <3>1. d \in [DOMAIN g -> Nat] /\ p \in DOMAIN g /\ p \notin Predecessors(g, p)
      BY <2>2, <2>3
    <3> HIDE DEF d, p, held
    <3>2. /\ \A q \in DOMAIN g : q # p => Deepened(g, d, p)[q] = d[q]
          /\ DepthIsRight(g, Deepened(g, d, p), p)
      BY <3>1, DeepenedIsRight
    <3> QED
      BY <2>2, <3>2 DEF d, p
  <2>5. ASSUME NEW i \in 1 .. n - 1
        PROVE  DepthIsRight(g, loop[n], o[i])
    <3>1. i \in 1 .. N /\ i # n
      BY <1>2
    <3>2. DepthIsRight(g, loop[n - 1], o[i])
      BY <1>5
    <3>3. o[i] # o[n] /\ o[i] \in DOMAIN g
      BY <1>2, <3>1
    <3>4. ASSUME NEW q \in Predecessors(g, o[i])
          PROVE  q # o[n] /\ q \in DOMAIN g
      <4>1. PICK j \in 1 .. i - 1 : o[j] = q
        BY <1>2, <3>1
      <4>2. j \in 1 .. N /\ j # n
        BY <1>2, <3>1
      <4> QED
        BY <1>2, <4>1, <4>2
    <3>5. loop[n][o[i]] = loop[n - 1][o[i]]
      BY <2>4, <3>3
    <3>6. \A q \in Predecessors(g, o[i]) : loop[n][q] = loop[n - 1][q]
      BY <2>4, <3>4
    <3> QED
      BY <3>2, <3>5, <3>6 DEF DepthIsRight
  <2> QED
    BY <1>2, <2>1, <2>4, <2>5
<1> HIDE DEF held
<1>6. 0 .. N \subseteq held
  BY <1>2, <1>4, <1>5, BoundedInduction
<1>7. \A i \in 1 .. N : DepthIsRight(g, loop[N], o[i])
  BY <1>2, <1>6 DEF held
<1>8. \A p \in DOMAIN g : \E i \in 1 .. N : o[i] = p
  BY <1>1, <1>2 DEF Range
<1>9. loop[N] \in [DOMAIN g -> Nat] /\ \A p \in DOMAIN g : DepthIsRight(g, loop[N], p)
  BY <1>2, <1>3, <1>7, <1>8
<1>10. Depths(g) = loop[N]
  BY DEF Depths, loop, N, o
<1> QED
  BY <1>9, <1>10

\* A chain goes down at least a layer with each of its links,
LEMMA DepthsBoundChains ==
  ASSUME NEW g, NEW d \in [DOMAIN g -> Nat], \A p \in DOMAIN g : DepthIsRight(g, d, p),
         NEW q \in DOMAIN g
  PROVE  \A n \in Nat : \A p : Chain(g, p, q, n) => d[p] + n <= d[q]
<1> DEFINE S == {n \in Nat : \A p : Chain(g, p, q, n) => d[p] + n <= d[q]}
<1>1. 0 \in S
  <2>1. ASSUME NEW p, Chain(g, p, q, 0)
        PROVE  d[p] + 0 <= d[q]
    <3>1. p = q
      BY <2>1, ChainEnds
    <3>2. d[q] \in Nat
      OBVIOUS
    <3> QED
      BY <3>1, <3>2
  <2> QED
    BY <2>1
<1>2. ASSUME NEW n \in Nat, n \in S
      PROVE  n + 1 \in S
  <2>1. ASSUME NEW p, Chain(g, p, q, n + 1)
        PROVE  d[p] + (n + 1) <= d[q]
    <3>1. n + 1 \in Nat /\ n + 1 > 0 /\ (n + 1) - 1 = n
      OBVIOUS
    <3>2. PICK r \in DOMAIN g : p \in Predecessors(g, r) /\ Chain(g, r, q, (n + 1) - 1)
      BY <2>1, <3>1, ChainTail
    <3>3. d[r] + n <= d[q]
      BY <1>2, <3>1, <3>2
    <3>4. d[p] + 1 <= d[r]
      BY <3>2 DEF DepthIsRight
    <3>5. d[p] \in Nat /\ d[r] \in Nat /\ d[q] \in Nat
      BY <3>2 DEF Predecessors
    <3> QED
      BY <3>3, <3>4, <3>5
  <2> QED
    BY <2>1
<1> HIDE DEF S
<1>3. Nat \subseteq S
  BY <1>1, <1>2, Induction
<1> QED
  BY <1>3 DEF S

\* and some chain goes down exactly a layer with each.
LEMMA DepthsAreChains ==
  ASSUME NEW g, NEW d \in [DOMAIN g -> Nat], \A p \in DOMAIN g : DepthIsRight(g, d, p)
  PROVE  \A q \in DOMAIN g : \E p \in DOMAIN g : Chain(g, p, q, d[q])
<1> DEFINE S == {n \in Nat : \A q \in DOMAIN g : d[q] = n =>
                               \E p \in DOMAIN g : Chain(g, p, q, n)}
<1>1. 0 \in S
  BY EmptyChain
<1>2. ASSUME NEW n \in Nat, n \in S
      PROVE  n + 1 \in S
  <2>1. ASSUME NEW q \in DOMAIN g, d[q] = n + 1
        PROVE  \E p \in DOMAIN g : Chain(g, p, q, n + 1)
    <3>1. PICK r \in Predecessors(g, q) : d[q] = d[r] + 1
      BY <2>1 DEF DepthIsRight
    <3>2. r \in DOMAIN g
      BY DEF Predecessors
    <3>3. d[r] = n
      BY <2>1, <3>1, <3>2
    <3>4. PICK p \in DOMAIN g : Chain(g, p, r, n)
      BY <1>2, <3>2, <3>3
    <3> QED
      BY <3>4, ChainAfter
  <2> QED
    BY <2>1
<1> HIDE DEF S
<1>3. Nat \subseteq S
  BY <1>1, <1>2, Induction
<1>4. \A q \in DOMAIN g : d[q] \in Nat
  OBVIOUS
<1> QED
  BY <1>3, <1>4 DEF S

\* There are fewer layers below a step than there are steps.
LEMMA DepthsAreFew ==
  ASSUME NEW g \in Seq(Step), NEW d \in [DOMAIN g -> Nat],
         \A p \in DOMAIN g : DepthIsRight(g, d, p), NEW q \in DOMAIN g
  PROVE  d[q] < Len(g)
<1> DEFINE n == d[q]
           S == {k \in Nat : k <= n => \E p \in DOMAIN g : d[p] = n - k}
<1>1. n \in Nat
  OBVIOUS
<1>2. 0 \in S
  BY <1>1
<1> HIDE DEF n
<1>3. ASSUME NEW k \in Nat, k \in S
      PROVE  k + 1 \in S
  <2>1. ASSUME k + 1 <= n
        PROVE  \E p \in DOMAIN g : d[p] = n - (k + 1)
    <3>1. PICK p \in DOMAIN g : d[p] = n - k
      BY <1>1, <1>3, <2>1
    <3>2. d[p] # 0
      BY <1>1, <2>1, <3>1
    <3>3. PICK r \in Predecessors(g, p) : d[p] = d[r] + 1
      BY <3>2 DEF DepthIsRight
    <3>4. r \in DOMAIN g /\ d[r] \in Nat
      BY DEF Predecessors
    <3>5. d[r] = n - (k + 1)
      BY <1>1, <3>1, <3>3, <3>4
    <3> QED
      BY <3>4, <3>5
  <2> QED
    BY <2>1
<1> HIDE DEF S
<1>4. Nat \subseteq S
  BY <1>2, <1>3, Induction
<1>5. 0 .. n \subseteq Range(d)
  <2> SUFFICES ASSUME NEW m \in 0 .. n PROVE m \in Range(d)
    OBVIOUS
  <2>1. n - m \in Nat /\ n - m <= n /\ n - (n - m) = m
    BY <1>1
  <2>2. PICK p \in DOMAIN g : d[p] = n - (n - m)
    BY <1>4, <2>1 DEF S
  <2> QED
    BY <2>1, <2>2 DEF Range
<1>6. IsFiniteSet(DOMAIN g) /\ Cardinality(DOMAIN g) = Len(g) /\ Len(g) \in Nat
  BY UpTo
<1>7. d \in Surjection(DOMAIN g, Range(d))
  BY DEF Surjection, Range
<1>8. IsFiniteSet(Range(d)) /\ Cardinality(Range(d)) <= Cardinality(DOMAIN g)
  BY <1>6, <1>7, FS_Surjection
<1>9. Cardinality(0 .. n) <= Cardinality(Range(d))
  BY <1>5, <1>8, FS_Subset
<1>10. Cardinality(0 .. n) = n + 1
  BY <1>1, FS_Interval
<1>11. Cardinality(Range(d)) \in Nat
  BY <1>8, FS_CardinalityType
<1> QED
  BY <1>1, <1>6, <1>8, <1>9, <1>10, <1>11 DEF n

\* The layer of a step is the length of the longest chain that leads to it.
LEMMA HeightIsDepth ==
  ASSUME NEW g \in Seq(Step), HasOrder(g), NEW q \in DOMAIN g
  PROVE  Height(g, q) = Depths(g)[q]
<1> DEFINE d == Depths(g)
           longest(n) == /\ \E p \in DOMAIN g : Chain(g, p, q, n)
                         /\ \A m \in n + 1 .. Len(g) - 1 : \A p \in DOMAIN g : ~Chain(g, p, q, m)
<1>1. d \in [DOMAIN g -> Nat] /\ \A p \in DOMAIN g : DepthIsRight(g, d, p)
  BY DepthsAreRight
<1> HIDE DEF d
<1>2. Len(g) \in Nat /\ d[q] \in Nat /\ d[q] < Len(g) /\ d[q] \in 0 .. Len(g)
  <2>1. d[q] \in Nat /\ d[q] < Len(g)
    BY <1>1, DepthsAreFew
  <2>2. Len(g) \in Nat
    OBVIOUS
  <2> QED
    BY <2>1, <2>2
<1>3. \A n \in Nat : \A p \in DOMAIN g : Chain(g, p, q, n) => n <= d[q]
  <2> SUFFICES ASSUME NEW n \in Nat, NEW p \in DOMAIN g, Chain(g, p, q, n)
               PROVE  n <= d[q]
    OBVIOUS
  <2>1. d[p] + n <= d[q]
    BY <1>1, DepthsBoundChains
  <2> QED
    BY <1>1, <1>2, <2>1
<1>4. \E p \in DOMAIN g : Chain(g, p, q, d[q])
  BY <1>1, DepthsAreChains
<1>5. longest(d[q])
  <2>1. \A m \in d[q] + 1 .. Len(g) - 1 : m \in Nat /\ ~(m <= d[q])
    BY <1>2
  <2> QED
    BY <1>3, <1>4, <2>1
<1>6. ASSUME NEW n \in 0 .. Len(g), longest(n)
      PROVE  n = d[q]
  <2>1. n \in Nat /\ n <= d[q]
    BY <1>2, <1>3, <1>6
  <2>2. ASSUME n < d[q]
        PROVE  FALSE
    <3>1. d[q] \in n + 1 .. Len(g) - 1
      BY <1>2, <2>1, <2>2
    <3> QED
      BY <1>4, <1>6, <3>1
  <2> QED
    BY <1>2, <2>1, <2>2
<1>7. Height(g, q) = CHOOSE n \in 0 .. Len(g) : longest(n)
  BY DEF Height
<1> HIDE DEF longest
<1> QED
  BY <1>2, <1>5, <1>6, <1>7 DEF d

----------------------------------------------------------------------------
\* The same steps in another order

\* Every place is taken when the steps of a graph are moved.
LEMMA EveryPlace ==
  ASSUME NEW g \in Seq(Step), NEW f \in [DOMAIN g -> DOMAIN g], IsInjective(f)
  PROVE  \A q \in DOMAIN g : \E p \in DOMAIN g : f[p] = q
<1>1. IsFiniteSet(DOMAIN g)
  BY UpTo
<1>2. f \in Injection(DOMAIN g, DOMAIN g)
  BY DEF Injection
<1>3. f \in Surjection(DOMAIN g, DOMAIN g)
  BY <1>1, <1>2, FS_Injection
<1> QED
  BY <1>3 DEF Surjection

\* h has the steps of g, each where f has it from.
Moves(g, h, f) ==
  /\ g \in Seq(Step) /\ h \in Seq(Step) /\ Len(h) = Len(g)
  /\ f \in [DOMAIN g -> DOMAIN g] /\ IsInjective(f)
  /\ \A p \in DOMAIN g : h[p] = g[f[p]]

\* The prerequisites are those of the same steps,
LEMMA MovedLinks ==
  ASSUME NEW g, NEW h, NEW f, Moves(g, h, f)
  PROVE  /\ DOMAIN h = DOMAIN g
         /\ \A p, q \in DOMAIN g : f[p] = f[q] => p = q
         /\ \A q \in DOMAIN g : \E p \in DOMAIN g : f[p] = q
         /\ \A p \in DOMAIN g : f[p] \in DOMAIN g
         /\ \A p, q \in DOMAIN g :
              p \in Predecessors(h, q) <=> f[p] \in Predecessors(g, f[q])
<1>1. DOMAIN h = DOMAIN g
  BY DEF Moves
<1>2. \A p, q \in DOMAIN g : f[p] = f[q] => p = q
  BY DEF Moves, IsInjective
<1>3. \A q \in DOMAIN g : \E p \in DOMAIN g : f[p] = q
  BY EveryPlace DEF Moves
<1>4. \A p \in DOMAIN g : f[p] \in DOMAIN g /\ h[p] = g[f[p]]
  BY DEF Moves
<1>5. \A p, q \in DOMAIN g : p \in Predecessors(h, q) <=> f[p] \in Predecessors(g, f[q])
  BY <1>1, <1>4 DEF Predecessors
<1> QED
  BY <1>1, <1>2, <1>3, <1>4, <1>5

\* and none of them is missing.
LEMMA MovedIsLinked ==
  ASSUME NEW g, NEW h, NEW f, Moves(g, h, f), Linked(g)
  PROVE  Linked(h)
<1>1. /\ DOMAIN h = DOMAIN g
      /\ \A p, q \in DOMAIN g : f[p] = f[q] => p = q
      /\ \A q \in DOMAIN g : \E p \in DOMAIN g : f[p] = q
      /\ \A p \in DOMAIN g : f[p] \in DOMAIN g
  BY MovedLinks
<1>2. \A p \in DOMAIN g : h[p] = g[f[p]]
  BY DEF Moves
<1>3. ~Duplicated(h)
  <2> SUFFICES ASSUME NEW p \in DOMAIN h, NEW q \in DOMAIN h,
                      p # q, KeyOf(h[p]) = KeyOf(h[q])
               PROVE  FALSE
    BY DEF Duplicated
  <2>1. KeyOf(g[f[p]]) = KeyOf(g[f[q]]) /\ f[p] # f[q]
    BY <1>1, <1>2
  <2>2. f[p] \in DOMAIN g /\ f[q] \in DOMAIN g
    BY <1>1
  <2> QED
    BY <2>1, <2>2 DEF Linked, Duplicated
<1>4. ASSUME NEW p \in DOMAIN g, NEW key \in Prerequisites(h[p])
      PROVE  Positions(h, key) # {} /\ key # KeyOf(h[p])
  <2>1. Positions(g, key) # {} /\ key # KeyOf(g[f[p]])
    BY <1>1, <1>2, <1>4 DEF Linked
  <2>2. PICK q \in DOMAIN g : KeyOf(g[q]) = key
    BY <2>1 DEF Positions
  <2>3. PICK r \in DOMAIN g : f[r] = q
    BY <1>1
  <2>4. KeyOf(h[r]) = key
    BY <1>2, <2>2, <2>3
  <2>5. r \in Positions(h, key)
    BY <1>1, <2>4 DEF Positions
  <2> QED
    BY <1>2, <2>1, <2>5
<1> QED
  BY <1>1, <1>3, <1>4 DEF Linked

\* A step is ready when it has not been taken, and what it waits for has.
LEMMA ReadySteps ==
  ASSUME NEW g \in Seq(Step), NEW s, Sorts(g, s)
  PROVE  \A q \in DOMAIN g :
           q \in s.ready <=> /\ q \notin Range(s.order)
                             /\ \A p \in Predecessors(g, q) : p \in Range(s.order)
<1> SUFFICES ASSUME NEW q \in DOMAIN g
             PROVE  q \in s.ready <=> /\ q \notin Range(s.order)
                                      /\ \A p \in Predecessors(g, q) : p \in Range(s.order)
  OBVIOUS
<1> DEFINE waits == Predecessors(g, q) \ Range(s.order)
<1>1. q \in s.ready <=> q \notin Range(s.order) /\ Cardinality(waits) = 0
  BY DEF Sorts
<1>2. IsFiniteSet(waits)
  <2>1. IsFiniteSet(Predecessors(g, q))
    BY FinitePredecessors
  <2> QED
    BY <2>1, FS_Subset
<1>3. Cardinality(waits) = 0 <=> waits = {}
  BY <1>2, FS_EmptySet
<1> QED
  BY <1>1, <1>3

\* Two orders take the same steps, one after the other.
SameOrder(f, o, moved) ==
  Len(moved) = Len(o) /\ \A i \in 1 .. Len(o) : o[i] = f[moved[i]]

\* After as many rounds they have taken the same steps.
LEMMA SameStepsTaken ==
  ASSUME NEW g, NEW h, NEW f, Moves(g, h, f),
         NEW o \in Seq(DOMAIN g), NEW m \in Seq(DOMAIN g), SameOrder(f, o, m)
  PROVE  \A p \in DOMAIN g : p \in Range(m) <=> f[p] \in Range(o)
<1>1. /\ DOMAIN o = 1 .. Len(o) /\ DOMAIN m = 1 .. Len(o)
      /\ \A i \in 1 .. Len(o) : o[i] = f[m[i]] /\ m[i] \in DOMAIN g
  BY DEF SameOrder
<1>2. \A p, q \in DOMAIN g : f[p] = f[q] => p = q
  BY MovedLinks
<1> QED
  BY <1>1, <1>2 DEF Range

\* Sorted in another order of insertion, the same steps are ready and the same
\* step is taken in each round.
LEMMA MovedRound ==
  ASSUME NEW g, NEW h, NEW f, Moves(g, h, f), Linked(g),
         NEW s, NEW t, Sorts(g, s), Sorts(h, t), SameOrder(f, s.order, t.order)
  PROVE  /\ t.ready = {} <=> s.ready = {}
         /\ t.ready # {} => f[Least(h, t.ready)] = Least(g, s.ready)
<1>1. g \in Seq(Step) /\ h \in Seq(Step) /\ ~Duplicated(g) /\ ~Duplicated(h)
  BY MovedIsLinked DEF Moves, Linked
<1>2. /\ DOMAIN h = DOMAIN g
      /\ \A p, q \in DOMAIN g : f[p] = f[q] => p = q
      /\ \A q \in DOMAIN g : \E p \in DOMAIN g : f[p] = q
      /\ \A p \in DOMAIN g : f[p] \in DOMAIN g
      /\ \A p, q \in DOMAIN g :
           p \in Predecessors(h, q) <=> f[p] \in Predecessors(g, f[q])
  BY MovedLinks
<1>3. \A p \in DOMAIN g : h[p] = g[f[p]]
  BY DEF Moves
<1>4. /\ s.order \in Seq(DOMAIN g) /\ s.ready \in SUBSET DOMAIN g
      /\ t.order \in Seq(DOMAIN g) /\ t.ready \in SUBSET DOMAIN g
  BY <1>2 DEF Sorts
<1>5. \A p \in DOMAIN g : p \in Range(t.order) <=> f[p] \in Range(s.order)
  BY <1>4, SameStepsTaken
<1>6. ASSUME NEW p \in DOMAIN g
      PROVE  p \in t.ready <=> f[p] \in s.ready
  <2>1. f[p] \in DOMAIN g /\ p \in DOMAIN h
    BY <1>2
  <2>2. p \in t.ready <=> /\ p \notin Range(t.order)
                          /\ \A q \in Predecessors(h, p) : q \in Range(t.order)
    BY <1>1, <2>1, ReadySteps
  <2>3. f[p] \in s.ready <=> /\ f[p] \notin Range(s.order)
                             /\ \A q \in Predecessors(g, f[p]) : q \in Range(s.order)
    BY <1>1, <2>1, ReadySteps
  <2>4. (\A q \in Predecessors(h, p) : q \in Range(t.order))
          <=> \A q \in Predecessors(g, f[p]) : q \in Range(s.order)
    <3>1. \A q : q \in Predecessors(h, p) => q \in DOMAIN g
      BY <1>2 DEF Predecessors
    <3>2. \A q : q \in Predecessors(g, f[p]) => q \in DOMAIN g
      BY DEF Predecessors
    <3>3. ASSUME \A q \in Predecessors(h, p) : q \in Range(t.order),
                 NEW r \in Predecessors(g, f[p])
          PROVE  r \in Range(s.order)
      <4>1. PICK q \in DOMAIN g : f[q] = r
        BY <1>2, <3>2, <3>3
      <4>2. q \in Predecessors(h, p)
        BY <1>2, <3>3, <4>1
      <4> QED
        BY <1>5, <3>3, <4>1, <4>2
    <3>4. ASSUME \A r \in Predecessors(g, f[p]) : r \in Range(s.order),
                 NEW q \in Predecessors(h, p)
          PROVE  q \in Range(t.order)
      <4>1. q \in DOMAIN g
        BY <3>1, <3>4
      <4>2. f[q] \in Predecessors(g, f[p])
        BY <1>2, <3>4, <4>1
      <4> QED
        BY <1>5, <3>4, <4>1, <4>2
    <3> QED
      BY <3>3, <3>4
  <2> QED
    BY <1>5, <2>2, <2>3, <2>4
<1>7. t.ready = {} <=> s.ready = {}
  <2>1. \A p \in t.ready : f[p] \in s.ready
    BY <1>4, <1>6
  <2>2. ASSUME NEW r \in s.ready
        PROVE  \E p : p \in t.ready
    <3>1. PICK p \in DOMAIN g : f[p] = r
      BY <1>2, <1>4
    <3> QED
      BY <1>6, <3>1
  <2> QED
    BY <2>1, <2>2
<1>8. ASSUME t.ready # {}
      PROVE  f[Least(h, t.ready)] = Least(g, s.ready)
  <2> DEFINE p == Least(h, t.ready)
  <2>1. p \in t.ready /\ IsLeast(h, t.ready, p)
    BY <1>1, <1>2, <1>4, <1>8, OneLeast
  <2> HIDE DEF p
  <2>2. p \in DOMAIN g /\ f[p] \in s.ready
    BY <1>4, <1>6, <2>1
  <2>3. ASSUME NEW r \in s.ready \ {f[p]}
        PROVE  KeyLess(KeyOf(g[f[p]]), KeyOf(g[r]))
    <3>1. PICK q \in DOMAIN g : f[q] = r
      BY <1>2, <1>4
    <3>2. q \in t.ready \ {p}
      BY <1>6, <3>1
    <3>3. KeyLess(KeyOf(h[p]), KeyOf(h[q]))
      BY <2>1, <3>2 DEF IsLeast
    <3> QED
      BY <1>3, <2>2, <3>1, <3>3
  <2>4. IsLeast(g, s.ready, f[p])
    BY <2>3 DEF IsLeast
  <2> DEFINE R == s.ready
             r == f[p]
  <2>5. R # {} /\ R \in SUBSET DOMAIN g /\ r \in R /\ IsLeast(g, R, r)
    BY <1>4, <2>2, <2>4
  <2> HIDE DEF R, r
  <2>6. \A q \in R : IsLeast(g, R, q) => q = Least(g, R)
    BY <1>1, <2>5, OneLeast
  <2>7. r = Least(g, R)
    BY <2>5, <2>6
  <2> QED
    BY <2>7 DEF p, r, R
<1> QED
  BY <1>7, <1>8

\* So the whole order is the same,
LEMMA MovedSort ==
  ASSUME NEW g, NEW h, NEW f, Moves(g, h, f), Linked(g)
  PROVE  SameOrder(f, SortedSteps(g), SortedSteps(h))
<1> DEFINE N == Len(g)
           a == Sorting(g)
           b == Sorting(h)
           held == {n \in 0 .. N : SameOrder(f, a[n].order, b[n].order)}
<1>1. /\ g \in Seq(Step) /\ h \in Seq(Step) /\ Linked(h)
      /\ N \in Nat /\ Len(h) = N /\ DOMAIN h = DOMAIN g
  <2>1. Linked(h) /\ DOMAIN h = DOMAIN g
    BY MovedIsLinked, MovedLinks
  <2>2. g \in Seq(Step) /\ h \in Seq(Step) /\ Len(h) = Len(g)
    BY DEF Moves
  <2>3. Len(g) \in Nat
    BY <2>2
  <2> QED
    BY <2>1, <2>2, <2>3
<1>2. /\ a[0] = Unsorted(g) /\ b[0] = Unsorted(h)
      /\ \A n \in 0 .. N : Sorts(g, a[n]) /\ Sorts(h, b[n])
  <2>1. a[0] = Unsorted(g) /\ \A n \in 0 .. N : Sorts(g, a[n])
    BY <1>1, SortRuns
  <2>2. b[0] = Unsorted(h) /\ \A n \in 0 .. Len(h) : Sorts(h, b[n])
    BY <1>1, SortRuns
  <2> QED
    BY <1>1, <2>1, <2>2
<1>3. 0 \in held
  <2>1. a[0].order = <<>> /\ b[0].order = <<>>
    BY <1>2 DEF Unsorted
  <2> QED
    BY <1>1, <2>1 DEF SameOrder
<1>4. ASSUME NEW n \in 1 .. N, n - 1 \in held
      PROVE  n \in held
  <2> DEFINE s == a[n - 1]
             t == b[n - 1]
  <2>1. n - 1 \in 0 .. N /\ n \in 0 .. N /\ n \in 1 .. Len(h)
    BY <1>1
  <2>2. Sorts(g, s) /\ Sorts(h, t) /\ SameOrder(f, s.order, t.order)
    BY <1>2, <1>4, <2>1
  <2>3. /\ t.ready = {} <=> s.ready = {}
        /\ t.ready # {} => f[Least(h, t.ready)] = Least(g, s.ready)
    <3> HIDE DEF s, t
    <3> QED
      BY <2>2, MovedRound
  <2>4. CASE s.ready = {}
    <3>1. a[n] = s
      BY <1>1, <2>4, RoundTakes
    <3>2. b[n] = t
      BY <1>1, <2>1, <2>3, <2>4, RoundTakes
    <3> QED
      BY <2>1, <2>2, <3>1, <3>2
  <2>5. CASE s.ready # {}
    <3> DEFINE p == Least(g, s.ready)
               q == Least(h, t.ready)
               o == s.order
               m == t.order
    <3>1. p \in DOMAIN g /\ a[n].order = Append(o, p)
      BY <1>1, <2>5, RoundTakes
    <3>2. q \in DOMAIN h /\ b[n].order = Append(m, q)
      BY <1>1, <2>1, <2>3, <2>5, RoundTakes
    <3>3. f[q] = p
      BY <2>3, <2>5
    <3>4. o \in Seq(DOMAIN g) /\ m \in Seq(DOMAIN h) /\ SameOrder(f, o, m)
      BY <2>2 DEF Sorts
    <3> HIDE DEF p, q, o, m
    <3>5. SameOrder(f, Append(o, p), Append(m, q))
      <4>1. Len(m) = Len(o) /\ \A i \in 1 .. Len(o) : o[i] = f[m[i]]
        BY <3>4 DEF SameOrder
      <4>2. /\ Len(Append(o, p)) = Len(o) + 1 /\ Len(o) \in Nat
            /\ \A i \in 1 .. Len(o) : Append(o, p)[i] = o[i]
            /\ Append(o, p)[Len(o) + 1] = p
        BY <3>1, <3>4, OrderGrows
      <4>3. /\ Len(Append(m, q)) = Len(m) + 1
            /\ \A i \in 1 .. Len(m) : Append(m, q)[i] = m[i]
            /\ Append(m, q)[Len(m) + 1] = q
        BY <3>2, <3>4, OrderGrows
      <4>4. \A i \in 1 .. Len(o) + 1 : i \in 1 .. Len(o) \/ i = Len(o) + 1
        BY <4>2
      <4> QED
        BY <3>3, <4>1, <4>2, <4>3, <4>4 DEF SameOrder
    <3> QED
      BY <2>1, <3>1, <3>2, <3>5
  <2> QED
    BY <2>4, <2>5
<1> HIDE DEF held
<1>5. 0 .. N \subseteq held
  BY <1>1, <1>3, <1>4, BoundedInduction
<1>6. SameOrder(f, a[N].order, b[N].order)
  BY <1>1, <1>5 DEF held
<1> QED
  BY <1>1, <1>6 DEF SortedSteps

\* a step is given the same depth,
LEMMA MovedDeepened ==
  ASSUME NEW g, NEW h, NEW f, Moves(g, h, f),
         NEW d \in [DOMAIN g -> Nat], NEW e \in [DOMAIN g -> Nat],
         \A p \in DOMAIN g : e[p] = d[f[p]], NEW x \in DOMAIN g
  PROVE  \A p \in DOMAIN g : Deepened(h, e, x)[p] = Deepened(g, d, f[x])[f[p]]
<1>1. /\ DOMAIN h = DOMAIN g
      /\ \A p, q \in DOMAIN g : f[p] = f[q] => p = q
      /\ \A q \in DOMAIN g : \E p \in DOMAIN g : f[p] = q
      /\ \A p \in DOMAIN g : f[p] \in DOMAIN g
      /\ \A p, q \in DOMAIN g :
           p \in Predecessors(h, q) <=> f[p] \in Predecessors(g, f[q])
  BY MovedLinks
<1> DEFINE below == {d[q] + 1 : q \in Predecessors(g, f[x])} \cup {0}
           under == {e[q] + 1 : q \in Predecessors(h, x)} \cup {0}
           deepest(S) == CHOOSE m \in S : \A n \in S : n <= m
<1>2. Predecessors(g, f[x]) \subseteq DOMAIN g /\ Predecessors(h, x) \subseteq DOMAIN g
  BY <1>1 DEF Predecessors
<1>3. under = below
  <2>1. ASSUME NEW q \in Predecessors(h, x)
        PROVE  e[q] + 1 \in below
    <3>1. q \in DOMAIN g /\ f[q] \in Predecessors(g, f[x]) /\ e[q] = d[f[q]]
      BY <1>1, <1>2
    <3> QED
      BY <3>1
  <2>2. ASSUME NEW r \in Predecessors(g, f[x])
        PROVE  d[r] + 1 \in under
    <3>1. PICK q \in DOMAIN g : f[q] = r
      BY <1>1, <1>2
    <3>2. q \in Predecessors(h, x) /\ e[q] = d[r]
      BY <1>1, <3>1
    <3> QED
      BY <3>2
  <2> QED
    BY <2>1, <2>2
<1>4. Deepened(g, d, f[x]) = [d EXCEPT ![f[x]] = deepest(below)]
  BY DEF Deepened
<1>5. Deepened(h, e, x) = [e EXCEPT ![x] = deepest(under)]
  BY DEF Deepened
<1> DEFINE after == deepest(below)
<1>6. Deepened(g, d, f[x]) = [d EXCEPT ![f[x]] = after]
  BY <1>4
<1>7. Deepened(h, e, x) = [e EXCEPT ![x] = after]
  BY <1>3, <1>5
<1> HIDE DEF below, under, deepest, after
<1>8. \A p \in DOMAIN g : p = x <=> f[p] = f[x]
  BY <1>1
<1> SUFFICES ASSUME NEW p \in DOMAIN g
             PROVE  Deepened(h, e, x)[p] = Deepened(g, d, f[x])[f[p]]
  OBVIOUS
<1>9. Deepened(h, e, x)[p] = (IF p = x THEN after ELSE e[p])
  BY <1>7
<1>10. Deepened(g, d, f[x])[f[p]] = (IF f[p] = f[x] THEN after ELSE d[f[p]])
  <2>1. f[p] \in DOMAIN g
    BY <1>1
  <2>2. \A q \in DOMAIN g : [d EXCEPT ![f[x]] = after][q] = (IF q = f[x] THEN after ELSE d[q])
    OBVIOUS
  <2> QED
    BY <1>6, <2>1, <2>2
<1> QED
  BY <1>8, <1>9, <1>10

\* and the layers hold the same steps.
LEMMA MovedDepths ==
  ASSUME NEW g, NEW h, NEW f, Moves(g, h, f), HasOrder(g)
  PROVE  /\ HasOrder(h)
         /\ Depths(h) \in [DOMAIN g -> Nat]
         /\ \A p \in DOMAIN g : Depths(h)[p] = Depths(g)[f[p]]
<1> DEFINE o == SortedSteps(g)
           m == SortedSteps(h)
           N == Len(o)
           a == Deepening(g, o)
           b == Deepening(h, m)
           held == {n \in 0 .. N : \A p \in DOMAIN g : b[n][p] = a[n][f[p]]}
<1>1. /\ g \in Seq(Step) /\ h \in Seq(Step) /\ Linked(g) /\ Linked(h)
      /\ Len(h) = Len(g) /\ DOMAIN h = DOMAIN g
      /\ \A p \in DOMAIN g : f[p] \in DOMAIN g
  BY MovedIsLinked, MovedLinks DEF Moves, HasOrder
<1>2. o \in Seq(DOMAIN g) /\ m \in Seq(DOMAIN g)
  BY <1>1, SortedEnds
<1>3. SameOrder(f, o, m)
  BY <1>1, MovedSort
<1>4. HasOrder(h)
  BY <1>1, <1>3 DEF HasOrder, SameOrder
<1> HIDE DEF o, m
<1>5. /\ a[0] = [p \in DOMAIN g |-> 0] /\ b[0] = [p \in DOMAIN g |-> 0]
      /\ \A n \in 1 .. N : a[n] = Deepened(g, a[n - 1], o[n])
      /\ \A n \in 1 .. N : b[n] = Deepened(h, b[n - 1], m[n])
      /\ \A n \in 0 .. N : a[n] \in [DOMAIN g -> Nat]
      /\ \A n \in 0 .. N : b[n] \in [DOMAIN g -> Nat]
  <2>1. /\ a[0] = [p \in DOMAIN g |-> 0]
        /\ \A n \in 1 .. N : a[n] = Deepened(g, a[n - 1], o[n])
        /\ \A n \in 0 .. N : a[n] \in [DOMAIN g -> Nat]
    BY <1>1, <1>2, DepthRuns
  <2>2. m \in Seq(DOMAIN h)
    BY <1>1, <1>2
  <2>3. /\ b[0] = [p \in DOMAIN h |-> 0]
        /\ \A n \in 1 .. Len(m) : b[n] = Deepened(h, b[n - 1], m[n])
        /\ \A n \in 0 .. Len(m) : b[n] \in [DOMAIN h -> Nat]
    BY <1>1, <2>2, DepthRuns
  <2>4. Len(m) = N
    BY <1>3 DEF SameOrder
  <2> HIDE DEF a, b, N
  <2> QED
    BY <1>1, <2>1, <2>3, <2>4
<1>6. N \in Nat /\ \A n \in 1 .. N : m[n] \in DOMAIN g /\ o[n] = f[m[n]]
  BY <1>2, <1>3 DEF SameOrder
<1> HIDE DEF a, b, N
<1>7. 0 \in held
  BY <1>1, <1>5, <1>6
<1>8. ASSUME NEW n \in 1 .. N, n - 1 \in held
      PROVE  n \in held
  <2> DEFINE d == a[n - 1]
             e == b[n - 1]
             x == m[n]
  <2>1. n \in 0 .. N /\ n - 1 \in 0 .. N
    BY <1>6
  <2>2. /\ d \in [DOMAIN g -> Nat] /\ e \in [DOMAIN g -> Nat] /\ x \in DOMAIN g
        /\ \A p \in DOMAIN g : e[p] = d[f[p]]
    BY <1>5, <1>6, <1>8, <2>1
  <2>3. a[n] = Deepened(g, d, f[x]) /\ b[n] = Deepened(h, e, x)
    BY <1>5, <1>6
  <2> HIDE DEF d, e, x
  <2>4. \A p \in DOMAIN g : Deepened(h, e, x)[p] = Deepened(g, d, f[x])[f[p]]
    BY <2>2, MovedDeepened
  <2> QED
    BY <2>1, <2>3, <2>4
<1> HIDE DEF held
<1>9. 0 .. N \subseteq held
  BY <1>6, <1>7, <1>8, BoundedInduction
<1>10. \A p \in DOMAIN g : b[N][p] = a[N][f[p]]
  BY <1>6, <1>9 DEF held
<1>11. b[N] \in [DOMAIN g -> Nat]
  BY <1>5, <1>6
<1>12. Depths(g) = a[N] /\ Depths(h) = b[N]
  BY <1>3 DEF Depths, a, b, N, o, m, SameOrder
<1> QED
  BY <1>4, <1>10, <1>11, <1>12

----------------------------------------------------------------------------
\* The validation of a graph

\* The dependencies of some steps add up to a number.
LEMMA DependenciesAreCounted ==
  ASSUME NEW g \in Seq(Step), NEW P
  PROVE  Dependencies(g, P) \in Nat
<1> DEFINE N == Len(g)
           more(n) == IF n \in P THEN Len(g[n].deps) ELSE 0
           G == [z \in Nat \X Nat |-> IF z[1] \in 1 .. N THEN z[2] + more(z[1]) ELSE z[2]]
<1>1. N \in Nat
  OBVIOUS
<1>2. ASSUME NEW n \in 1 .. N
      PROVE  more(n) \in Nat
  <2>1. g[n] \in Step
    OBVIOUS
  <2>2. g[n].deps \in Seq(StepKind \X Nat)
    BY <2>1 DEF Step
  <2>3. Len(g[n].deps) \in Nat
    BY <2>2
  <2> QED
    BY <2>3
<1> HIDE DEF more, N
<1>3. G \in [Nat \X Nat -> Nat]
  <2>1. ASSUME NEW z \in Nat \X Nat
        PROVE  (IF z[1] \in 1 .. N THEN z[2] + more(z[1]) ELSE z[2]) \in Nat
    <3>1. z[2] \in Nat
      OBVIOUS
    <3> QED
      BY <1>2, <3>1
  <2> QED
    BY <2>1
<1>4. \A n \in 1 .. N, d \in Nat : G[<<n, d>>] = d + more(n)
  BY <1>1
<1> HIDE DEF G
<1>5. PICK f : Iterates(f, N, Nat, 0, G)
  BY <1>1, <1>3, Iteration
<1>6. f = [n \in 0 .. N |-> IF n = 0 THEN 0 ELSE f[n - 1] + more(n)]
  <2>1. /\ f \in [0 .. N -> Nat] /\ f[0] = 0
        /\ \A n \in 1 .. N : f[n] = G[<<n, f[n - 1]>>]
    BY <1>5 DEF Iterates
  <2>2. ASSUME NEW n \in 1 .. N
        PROVE  f[n] = f[n - 1] + more(n)
    <3>1. f[n - 1] \in Nat
      BY <1>1, <2>1
    <3> QED
      BY <1>4, <2>1, <3>1
  <2> QED
    BY <1>1, <2>1, <2>2
<1>7. Counting(g, P)
        = [n \in 0 .. N |-> IF n = 0 THEN 0 ELSE Counting(g, P)[n - 1] + more(n)]
  BY <1>6 DEF Counting, more, N
<1> DEFINE loop == Counting(g, P)
<1>8. loop[0] = 0 /\ \A n \in 1 .. N : loop[n] = loop[n - 1] + more(n)
  BY <1>1, <1>7
<1> HIDE DEF loop
<1> DEFINE held == {n \in 0 .. N : loop[n] \in Nat}
<1>9. 0 \in held
  BY <1>1, <1>8
<1>10. \A n \in 1 .. N : n - 1 \in held => n \in held
  BY <1>1, <1>2, <1>8
<1> HIDE DEF held
<1>11. 0 .. N \subseteq held
  BY <1>1, <1>9, <1>10, BoundedInduction
<1>12. loop[N] \in Nat
  BY <1>1, <1>11 DEF held
<1> QED
  BY <1>12 DEF Dependencies, loop, N

\* Two steps of one layer are steps of one height.
LEMMA ConflictsAreAtHeights ==
  ASSUME NEW g \in Seq(Step), HasOrder(g)
  PROVE  LayersConflict(g) <=>
           \E p, q \in DOMAIN g :
             p # q /\ Conflict(g[p], g[q]) /\ Height(g, p) = Height(g, q)
<1> DEFINE d == Depths(g)
<1>1. d \in [DOMAIN g -> Nat] /\ \A p \in DOMAIN g : Height(g, p) = d[p]
  BY DepthsAreRight, HeightIsDepth
<1>2. \A layer : layer \in Layers(g) <=>
        \E r \in DOMAIN g : layer = {p \in DOMAIN g : d[p] = d[r]}
  BY <1>1 DEF Layers, Range
<1> HIDE DEF d
<1>3. ASSUME NEW layer \in Layers(g), NEW p \in layer, NEW q \in layer
      PROVE  p \in DOMAIN g /\ q \in DOMAIN g /\ d[p] = d[q]
  BY <1>2
<1>4. ASSUME NEW p \in DOMAIN g, NEW q \in DOMAIN g, d[p] = d[q]
      PROVE  \E layer \in Layers(g) : p \in layer /\ q \in layer
  <2> DEFINE layer == {r \in DOMAIN g : d[r] = d[p]}
  <2>1. p \in layer /\ q \in layer
    BY <1>4
  <2>2. layer \in Layers(g)
    BY <1>2
  <2> QED
    BY <2>1, <2>2
<1>5. LayersConflict(g) <=>
        \E layer \in Layers(g) : \E p, q \in layer : p # q /\ Conflict(g[p], g[q])
  BY DEF LayersConflict
<1> QED
  BY <1>1, <1>3, <1>4, <1>5

\* The validation finds nothing exactly if each of its checks does, there is
\* an order, and no two steps of a layer conflict.
LEMMA NoDefects ==
  ASSUME NEW g \in Seq(Step), NEW limits
  PROVE  LET named == {p \in DOMAIN g : g[p].subject # 0}
         IN GraphDefects(g, limits) = {} <=>
              /\ ~(Len(g) > limits.steps)
              /\ ~Duplicated(g)
              /\ named = DOMAIN g
              /\ \A p \in named : ~(Len(g[p].deps) > limits.perStep)
              /\ \A p \in named : IsInjective(g[p].deps)
              /\ \A p \in named : KeyOf(g[p]) \notin Prerequisites(g[p])
              /\ \A p \in named : \A key \in Prerequisites(g[p]) :
                   key # KeyOf(g[p]) => Positions(g, key) # {}
              /\ ~(Dependencies(g, named) > limits.total)
              /\ HasOrder(g)
              /\ ~LayersConflict(g)
BY DEF GraphDefects, When
=============================================================================
