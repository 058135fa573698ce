------------------------- MODULE MCRouteTransition -------------------------
(***************************************************************************)
(* Two bindings of one route that differ in path, in group, in both or     *)
(* only in their generation, under each ordering, with and without         *)
(* verification, and with room for one or two steps at a time.             *)
(***************************************************************************)
EXTENDS RouteTransition

Binding(generation, path, group) ==
  [generation |-> generation, path |-> path, group |-> group]

Policy(ordering, verify, parallel) ==
  [ordering |-> ordering, overlap |-> ordering = "MAKE_BEFORE_BREAK",
   breakBeforeMake |-> ordering # "MAKE_BEFORE_BREAK",
   verify |-> verify, parallel |-> parallel, rollback |-> TRUE]

Transition(source, target, policy, retries, bound) ==
  [source |-> source, target |-> target, policy |-> policy,
   retries |-> retries, faults |-> bound]

Orderings == {"MAKE_BEFORE_BREAK", "BREAK_BEFORE_MAKE"}

\* Verified, or unverified with two steps at a time, without faults: 48
\* transitions.
Faultless ==
  {Transition(Binding(1, 11, g), Binding(2, p, h), Policy(o, v, n), 0, 0) :
     g \in {NoGroup, 21}, h \in {NoGroup, 22}, p \in {11, 12},
     o \in Orderings, <<v, n>> \in (BOOLEAN \X (1 .. 2)) \ {<<FALSE, 1>>}}

\* A new path, one step at a time, and a fault: a failure is not retried.
Faulty ==
  {Transition(Binding(1, 11, NoGroup), Binding(2, 12, NoGroup),
              Policy(o, FALSE, 1), 0, 1) : o \in Orderings}

\* A new group, two steps at a time, and two faults: a failure and the failure
\* of its retry, or one step in doubt when the other fails.
FaultyPair ==
  Transition(Binding(1, 11, NoGroup), Binding(2, 11, 22),
             Policy("MAKE_BEFORE_BREAK", FALSE, 2), 1, 2)

MCTransitions == Faultless \cup Faulty \cup {FaultyPair}

MCLimits == [steps |-> 10, perStep |-> 10, total |-> 30, parallel |-> 2]
=============================================================================
