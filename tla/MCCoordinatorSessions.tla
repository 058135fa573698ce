----------------------- MODULE MCCoordinatorSessions -----------------------
(***************************************************************************)
(* Small instances of CoordinatorSessions: two boots of one worker, and an *)
(* operator who may fence the first.                                       *)
(***************************************************************************)
EXTENDS CoordinatorSessions

Request(kind, attempt, boot, target) ==
  [kind |-> kind, attempt |-> attempt, boot |-> boot, target |-> target]

Register(boot) == Request("REGISTER_WORKER", boot, boot, boot)
Pair == {Request("DISPATCH_STEP", "a", "w1", "w1"), Request("COMPLETE_STEP", "a", "w1", "w1")}

PublisherOfBoot == [b \in {"w1", "w2", "op"} |-> IF b = "op" THEN "operator" ELSE "worker"]

Everything == {Register(b) : b \in DOMAIN PublisherOfBoot} \cup Pair
                \cup {Request("FENCE_WORKER", "f", "op", "w1")}
=============================================================================
