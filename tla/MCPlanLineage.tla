--------------------------- MODULE MCPlanLineage ---------------------------
(***************************************************************************)
(* Small instances of PlanLineage: plans from generation 1 to 2 of a       *)
(* route in two structures, and one from 2 to 3.                           *)
(***************************************************************************)
EXTENDS PlanLineage, TLC

CONSTANTS u, v, w  \* structures; nothing tells the first two apart

Plan(from, to, structure) == [source |-> from, target |-> to, structure |-> structure]
TwoStructures == {Plan(1, 2, u), Plan(1, 2, v)}
\* One more for the next generation of the route: its predecessor is looked for
\* among all plans of the route.
WithSuccessor == TwoStructures \cup {Plan(2, 3, w)}

Structures == Permutations({u, v})

Observed(generation, legal, restorable) ==
  [generation |-> generation, legal |-> legal, restorable |-> restorable]

TargetOnly == {Observed(2, TRUE, TRUE)}
Superseding == {Observed(2, TRUE, TRUE), Observed(1, TRUE, TRUE), Observed(3, TRUE, TRUE)}
=============================================================================
