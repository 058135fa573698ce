------------------------ MODULE MCTopologicalOrder ------------------------
(***************************************************************************)
(* Every graph over four steps in pairs that conflict, and over two or     *)
(* three steps that may also miss, repeat or name themselves.              *)
(***************************************************************************)
EXTENDS TopologicalOrder

StepAt(key, deps) ==
  [kind |-> key[1], subject |-> key[2], deps |-> deps,
   domains |-> {IF key[1] \in {"PREPARE_NEW_STATE", "ACTIVATE_NEW_PATH"}
                THEN "PATH_STATE" ELSE "ROUTE_TABLE"},
   mandatory |-> TRUE, irreversible |-> FALSE]

MCKeys ==
  <<<<"WITHDRAW_OLD_ROUTE", 2>>, <<"PREPARE_NEW_STATE", 1>>,
    <<"ACTIVATE_NEW_PATH", 1>>, <<"INSTALL_NEW_ROUTE", 2>>>>

\* The prerequisites of one step among the other three.
Others(p) ==
  {SelectSeq(MCKeys, LAMBDA key : key \in S) :
     S \in SUBSET (Range(MCKeys) \ {MCKeys[p]})}

WellFormed ==
  {<<StepAt(MCKeys[1], a), StepAt(MCKeys[2], b), StepAt(MCKeys[3], c),
     StepAt(MCKeys[4], d)>> :
     a \in Others(1), b \in Others(2), c \in Others(3), d \in Others(4)}

\* Prerequisites that repeat, are missing, or are the step itself.
FewKeys == {<<"PREPARE_NEW_STATE", 1>>, <<"ACTIVATE_NEW_PATH", 1>>,
            <<"ACTIVATE_NEW_PATH", 0>>}
FewDeps == {<<>>} \cup {<<a>> : a \in FewKeys \cup {MCKeys[1]}}
                  \cup {<<a, b>> : a, b \in FewKeys}

Malformed ==
  {<<StepAt(j, a), StepAt(k, b)>> : j, k \in FewKeys, a, b \in FewDeps}

MCGraphs == WellFormed \cup Malformed
MCLimits == [steps |-> 4, perStep |-> 2, total |-> 5]
=============================================================================
