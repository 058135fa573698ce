---------------------------- MODULE MCWireFormat ----------------------------
(***************************************************************************)
(* The default limits, with what a coordinator holds at the edges of what  *)
(* a decoder accepts.                                                      *)
(***************************************************************************)
EXTENDS WireFormat

\* A step whose key is just short enough to be named in a condition, and one
\* whose key is just too long, for the shortest and the longest kind.
Keys ==
  {<<"FINALIZE", 1>>, <<"FINALIZE", 119>>, <<"FINALIZE", 120>>,
   <<"DEACTIVATE_OLD_PATH", 108>>, <<"DEACTIVATE_OLD_PATH", 109>>,
   <<"WITHDRAW_OLD_ROUTE", 128>>, <<"ACTIVATE_NEW_PATH", 128>>}

\* Steps with their prerequisites: a single step, and the largest plan.
Graphs == {<<1, 0>>, <<64, 28>>, <<64, 29>>}

\* Plans, policies, ready steps and changes up to and past their bounds.
Loads == {<<0, 0, 0, 1>>, <<256, 4096, 16, 64>>, <<257, 4097, 17, 64>>}

World(key, graph, load, known, done, named, registered, last) ==
  [kind |-> key[1], subject |-> key[2], steps |-> graph[1], dependencies |-> graph[2],
   plans |-> load[1], policies |-> load[2], ready |-> load[3], history |-> load[4],
   known |-> known, done |-> done, named |-> named, registered |-> registered,
   last |-> last]

\* A plan is known only if the request that creates it has a frame.
Creatable(w) ==
  Fits(Body("CREATE_PLAN", FALSE,
            [explicit_steps |-> w.steps, depends_on |-> w.dependencies,
             subject |-> w.subject], w))

SomeWorlds ==
  {w \in {World(key, graph, load, known, done, named, registered, last) :
            key \in Keys, graph \in Graphs, load \in Loads, known \in BOOLEAN,
            done \in BOOLEAN, named \in BOOLEAN, registered \in BOOLEAN, last \in 0..1} :
     w.known => Creatable(w)}
=============================================================================
