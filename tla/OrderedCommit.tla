--------------------------- MODULE OrderedCommit ---------------------------
(***************************************************************************)
(* What the governor promises about one plan, whatever workers, epochs,    *)
(* the upstream and crashes do to it: steps are worked on in the order of  *)
(* their prerequisites; a step counts as established only when its own     *)
(* current work is reported, or when a doubt about it is settled; what is  *)
(* established stays so; a plan converges only when all of its mandatory   *)
(* steps are and nothing is under way or in doubt; and a plan that is      *)
(* closed holds no work and stays closed.                                  *)
(***************************************************************************)
CONSTANTS Steps, DependsOn, Mandatory

VARIABLES
  status,       \* "absent", "open", "abandoned", "converged" or "retired"
  working,      \* the steps whose work may still be reported
  doubtful,     \* the steps that may or may not have taken effect
  established   \* the steps that have

vars == <<status, working, doubtful, established>>

Closed == {"abandoned", "converged", "retired"}

Init ==
  /\ status = "absent"
  /\ working = {} /\ doubtful = {} /\ established = {}

\* The plan is created.
Create ==
  /\ status = "absent"
  /\ status' = "open"
  /\ UNCHANGED <<working, doubtful, established>>

\* A worker takes on a step, after its prerequisites.
Start(s) ==
  /\ status = "open"
  /\ s \notin working \cup doubtful \cup established
  /\ DependsOn[s] \subseteq established
  /\ working' = working \cup {s}
  /\ UNCHANGED <<status, doubtful, established>>

\* The work on a step is reported: it took effect, it did not, or it may
\* have.  The last one the plan waited for lets it converge.
Report(s) ==
  /\ status = "open"
  /\ s \in working
  /\ working' = working \ {s}
  /\ \/ /\ established' = established \cup {s}
        /\ UNCHANGED doubtful
        /\ \/ UNCHANGED status
           \/ /\ working' = {} /\ doubtful = {}
              /\ Mandatory \subseteq established'
              /\ status' = "converged"
     \/ UNCHANGED <<status, doubtful, established>>
     \/ /\ doubtful' = doubtful \cup {s}
        /\ UNCHANGED <<status, established>>

\* A doubt is settled, for or against, until the plan is forgotten.
Settle(s) ==
  /\ status \in {"open", "abandoned"}
  /\ s \in doubtful
  /\ doubtful' = doubtful \ {s}
  /\ established' \in {established, established \cup {s}}
  /\ UNCHANGED <<status, working>>

\* All work under way is fenced off; the plan may be given up with it.
Fence ==
  /\ status = "open"
  /\ working' = {}
  /\ status' \in {"open", "abandoned"}
  /\ UNCHANGED <<doubtful, established>>

\* A crash forgets who was working: all of that work is in doubt.
Crash ==
  /\ status = "open"
  /\ working' = {}
  /\ doubtful' = doubtful \cup working
  /\ UNCHANGED <<status, established>>

\* The plan is retired, and its record with it.
Retire ==
  /\ status \in {"open", "abandoned", "converged"}
  /\ status' = "retired"
  /\ working' = {} /\ doubtful' = {} /\ established' = {}

Next ==
  \/ Create \/ Fence \/ Crash \/ Retire
  \/ \E s \in Steps : Start(s) \/ Report(s) \/ Settle(s)

Spec == Init /\ [][Next]_vars
=============================================================================
