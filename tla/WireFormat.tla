----------------------------- MODULE WireFormat -----------------------------
(***************************************************************************)
(* What a client and the coordinator understand of each other: the frame   *)
(* (encode_frame and decode_frame of protocol.cpp, read_frame and          *)
(* write_frame of transport.cpp), the encoder and the decoder of every     *)
(* body that crosses the wire, what the coordinator puts into an answer    *)
(* (dispatch of server.cpp, governor_query.cpp) and one exchange of a      *)
(* client (round_trip of client.cpp).                                      *)
(*                                                                         *)
(* The encoder and the decoder of a body are separate code, so each has    *)
(* its own layout here: ...Out is what is written, ...In what is read and  *)
(* within which bounds it is accepted.  A field that is only carried has   *)
(* no value: its token remembers which field was written, so that a field  *)
(* read in the place of another one shows.  Enumerations, the lengths of   *)
(* texts and of lists are numbers; the items of a list are all alike, and  *)
(* stand once in the stream, with how many times they are written.         *)
(*                                                                         *)
(* Both sides use the default limits.  Of a frame's header the model       *)
(* leaves out what no decoder looks at (sequence, epoch, publisher, boot,  *)
(* attempt); a mismatch of the tag is a difference between the frame and   *)
(* what was sealed, that is, the digest never collides.  Fencing and       *)
(* saving between the two frames are in CoordinatorSessions and            *)
(* DurableStore.                                                           *)
(***************************************************************************)
EXTENDS Integers, SequencesExt

CONSTANTS
  Worlds,      \* what a coordinator may hold when it is asked
  MaxSteps, MaxDependencies, MaxParallel, MaxBatch, MaxEntries, MaxFrame

(***************************************************************************)
(* Layouts.                                                                *)
(***************************************************************************)
Unbounded == 2^30

\* A field: its type, its name behind those of the parts it is in, the lists
\* and optional parts it is an item of, and between which numbers a decoder
\* accepts it.
Item(type, name, lo, hi) ==
  <<[type |-> type, path |-> <<name>>, under |-> {}, lo |-> lo, hi |-> hi]>>

Id(name) == Item("fixed16", name, 0, Unbounded)
Gen(name) == Item("u64", name, 0, Unbounded)
Word(name) == Item("u32", name, 0, Unbounded)
Flag(name) == Item("boolean", name, 0, Unbounded)
Hash(name) == Item("digest", name, 0, Unbounded)

\* The fields of a part, and of the items of a list.
Behind(name, path) == <<name>> \o path

Within(name, layout) ==
  [i \in DOMAIN layout |->
     [layout[i] EXCEPT !.path = Behind(name, @),
                       !.under = {Behind(name, path) : path \in @}]]
ItemsOf(name, layout) ==
  [i \in DOMAIN layout |->
     [Within(name, layout)[i] EXCEPT !.under = @ \cup {<<name>>}]]

\* Numbers: an enumeration of the values lo..hi, a generation, a text by its
\* length, a list by its length, a part that may be absent.
Enum(name, lo, hi) == Item("enum", name, lo, hi)
Stamp(name, lo) == Item("stamp", name, lo, Unbounded)
Text(name, lo, hi) == Item("text", name, lo, hi)
List(name, of, hi) == Item("list", name, 0, hi) \o ItemsOf(name, of)
Maybe(name, of) == Item("maybe", name, 0, 1) \o ItemsOf(name, of)

Numbers == {"enum", "stamp", "text", "list", "maybe"}
Repeats == {"list", "maybe"}

(***************************************************************************)
(* The encoder.  A shape gives the numbers of a body; a number it does not *)
(* give is 1, except an enumeration's, whose place in its range the shape  *)
(* chooses with "last".                                                    *)
(***************************************************************************)
Name(path) == path[Len(path)]

Count(shape, path) == IF Name(path) \in DOMAIN shape THEN shape[Name(path)] ELSE 1

NumberOf(shape, item) ==
  IF item.type \notin Numbers THEN 0
  ELSE IF item.type # "enum" \/ Name(item.path) \in DOMAIN shape
  THEN Count(shape, item.path)
  ELSE IF shape["last"] = 1 THEN item.hi ELSE item.lo

\* An item of empty lists is not written, and others as often as they say.
Sent(shape, item) == \A path \in item.under : Count(shape, path) > 0

Times(shape, item) == FoldSet(LAMBDA path, n : n * Count(shape, path), 1, item.under)

Token(shape, item) ==
  [type |-> item.type, of |-> item.path, number |-> NumberOf(shape, item),
   times |-> Times(shape, item)]

Write(shape, tokens, item) ==
  IF Sent(shape, item) THEN Append(tokens, Token(shape, item)) ELSE tokens

\* What is written after the first fields of a layout, and after all.
Writing(layout, shape) ==
  LET Written[i \in 0 .. Len(layout)] ==
        IF i = 0 THEN <<>> ELSE Write(shape, Written[i - 1], layout[i])
  IN Written

Encoded(layout, shape) == Writing(layout, shape)[Len(layout)]

Bytes(tokens) ==
  FoldSeq(LAMBDA token, sum : sum + token.times *
            CASE token.type = "fixed16" -> 16
              [] token.type = "digest" -> 32
              [] token.type \in {"u64", "stamp"} -> 8
              [] token.type \in {"u32", "enum", "list"} -> 4
              [] token.type \in {"boolean", "maybe"} -> 1
              [] token.type = "text" -> 4 + token.number,
          0, tokens)

(***************************************************************************)
(* The decoder.  A field is refused when something else was written there  *)
(* or its number is out of bounds, and then the whole body is.  The items  *)
(* of a list are read if the list was, and not as empty.                   *)
(***************************************************************************)
Start == [ok |-> TRUE, offset |-> 0, filled |-> {}, got |-> {}]
Refused == [ok |-> FALSE, offset |-> 0, filled |-> {}, got |-> {}]

Read(tokens, state, item) ==
  LET token == tokens[state.offset + 1] IN
  IF ~state.ok \/ ~(item.under \subseteq state.filled) THEN state
  ELSE IF \/ state.offset = Len(tokens)
          \/ token.type # item.type
          \/ token.number \notin item.lo .. item.hi
  THEN Refused
  ELSE [ok |-> TRUE, offset |-> state.offset + 1,
        filled |-> IF item.type \in Repeats /\ token.number > 0
                   THEN state.filled \cup {item.path} ELSE state.filled,
        got |-> state.got \cup {<<item.path, token.of>>}]

Decoding(layout, tokens) ==
  LET Reads[i \in 0 .. Len(layout)] ==
        IF i = 0 THEN Start ELSE Read(tokens, Reads[i - 1], layout[i])
  IN Reads

\* decode_payload: the body must end where the payload does.
Decoded(layout, tokens) ==
  LET all == Decoding(layout, tokens)[Len(layout)]
  IN IF Len(tokens) = all.offset THEN all ELSE Refused

(***************************************************************************)
(* The bodies that others are made of.                                     *)
(***************************************************************************)
ConditionsOut ==
  List("conditions", Enum("code", 0, 93) \o Text("about", 0, Unbounded)
                     \o Gen("observed") \o Gen("expected"), Unbounded)
  \o Flag("truncated")
ConditionsIn ==
  List("conditions", Enum("code", 0, 92) \o Text("about", 0, 128)
                     \o Gen("observed") \o Gen("expected"), MaxEntries)
  \o Flag("truncated")

PolicyOut ==
  Id("id") \o Stamp("policy_generation", 0) \o Enum("ordering", 1, 2)
  \o Enum("verification", 1, 2) \o Flag("allow_overlap")
  \o Flag("allow_break_before_make") \o Word("max_parallel_steps")
  \o Word("max_retries_per_step") \o Flag("require_rollback_capability")
  \o Flag("supersede_predecessor_on_success")
PolicyIn ==
  Id("id") \o Stamp("policy_generation", 1) \o Enum("ordering", 1, 2)
  \o Enum("verification", 1, 2) \o Flag("allow_overlap")
  \o Flag("allow_break_before_make") \o Word("max_parallel_steps")
  \o Word("max_retries_per_step") \o Flag("require_rollback_capability")
  \o Flag("supersede_predecessor_on_success")

SummaryOut ==
  Id("id") \o Id("route") \o Gen("source_generation") \o Gen("target_generation")
  \o Gen("key_policy_generation") \o Gen("generation") \o Enum("lifecycle", 1, 12)
  \o Enum("currentness", 0, 4095) \o Word("total_steps") \o Word("completed_steps")
  \o Word("ready_steps") \o Hash("digest")
SummaryIn ==
  Id("id") \o Id("route") \o Gen("source_generation") \o Gen("target_generation")
  \o Gen("key_policy_generation") \o Gen("generation") \o Enum("lifecycle", 1, 12)
  \o Enum("currentness", 0, 4095) \o Word("total_steps") \o Word("completed_steps")
  \o Word("ready_steps") \o Hash("digest")

BindingOut ==
  Id("route") \o Gen("generation") \o Id("path") \o Gen("path_authority_generation")
  \o Id("multipath_set") \o Gen("multipath_generation") \o Id("ecmp_group")
  \o Gen("ecmp_generation") \o Gen("assignment_generation") \o Id("weighted_set")
  \o Gen("weight_policy_generation") \o Flag("current") \o Flag("legal")
BindingIn ==
  Id("route") \o Gen("generation") \o Id("path") \o Gen("path_authority_generation")
  \o Id("multipath_set") \o Gen("multipath_generation") \o Id("ecmp_group")
  \o Gen("ecmp_generation") \o Gen("assignment_generation") \o Id("weighted_set")
  \o Gen("weight_policy_generation") \o Flag("current") \o Flag("legal")

LegalityOut == Id("path") \o Gen("generation") \o Flag("legal")
LegalityIn == Id("path") \o Gen("generation") \o Flag("legal")

KeyOut == Enum("kind", 1, 10) \o Text("subject", 0, Unbounded)
KeyIn == Enum("kind", 1, 10) \o Text("subject", 1, 128)

SpecOut ==
  KeyOut \o Enum("reversibility", 1, 3) \o Word("conflict_domains") \o Flag("mandatory")
  \o Flag("idempotent") \o Flag("verification") \o Id("path")
  \o Gen("path_authority_generation") \o Id("route") \o Gen("route_generation")
  \o Id("multipath_set") \o Gen("multipath_generation") \o Id("ecmp_group")
  \o Gen("ecmp_generation") \o Gen("assignment_generation") \o Id("weighted_set")
  \o Gen("weight_policy_generation") \o List("depends_on", KeyOut, Unbounded)
SpecIn ==
  KeyIn \o Enum("reversibility", 1, 3) \o Word("conflict_domains") \o Flag("mandatory")
  \o Flag("idempotent") \o Flag("verification") \o Id("path")
  \o Gen("path_authority_generation") \o Id("route") \o Gen("route_generation")
  \o Id("multipath_set") \o Gen("multipath_generation") \o Id("ecmp_group")
  \o Gen("ecmp_generation") \o Gen("assignment_generation") \o Id("weighted_set")
  \o Gen("weight_policy_generation") \o List("depends_on", KeyIn, MaxDependencies)

ScopeOut ==
  Enum("kind", 0, 4) \o Id("fabric") \o Id("routing_namespace") \o Id("route") \o Id("plan")
ScopeIn ==
  Enum("kind", 0, 4) \o Id("fabric") \o Id("routing_namespace") \o Id("route") \o Id("plan")

RegistrationOut ==
  Id("publisher") \o Id("worker_boot") \o Within("scope", ScopeOut)
  \o Word("capabilities") \o Id("provenance")
RegistrationIn ==
  Id("publisher") \o Id("worker_boot") \o Within("scope", ScopeIn)
  \o Word("capabilities") \o Id("provenance")

PlanRequestOut ==
  Enum("mode", 1, 2) \o Within("source", BindingOut) \o Within("target", BindingOut)
  \o Within("policy", PolicyOut) \o Gen("epoch") \o Id("provenance")
  \o Flag("accept_historical_source") \o List("explicit_steps", SpecOut, Unbounded)
PlanRequestIn ==
  Enum("mode", 1, 2) \o Within("source", BindingIn) \o Within("target", BindingIn)
  \o Within("policy", PolicyIn) \o Gen("epoch") \o Id("provenance")
  \o Flag("accept_historical_source") \o List("explicit_steps", SpecIn, MaxSteps)

ResultOut ==
  Enum("outcome", 1, 64) \o Id("plan") \o Id("step") \o Gen("plan_generation")
  \o Gen("step_generation") \o Gen("convergence_generation") \o Hash("digest")
  \o ConditionsOut
ResultIn ==
  Enum("outcome", 1, 64) \o Id("plan") \o Id("step") \o Gen("plan_generation")
  \o Gen("step_generation") \o Gen("convergence_generation") \o Hash("digest")
  \o ConditionsIn

StepSnapshotOut ==
  Within("key", KeyOut) \o Id("id") \o Gen("generation") \o Enum("state", 1, 11)
  \o Word("attempts") \o Flag("mandatory") \o Flag("idempotent") \o Flag("verification")
  \o Enum("reversibility", 1, 3) \o Word("conflict_domains") \o Id("last_evidence")
  \o Enum("last_outcome", 1, 7) \o Id("last_attempt") \o Gen("dispatch_watermark")
  \o Gen("dispatch_epoch") \o Id("dispatch_publisher") \o Id("dispatch_boot")
  \o List("depends_on", KeyOut, Unbounded) \o Flag("prerequisites_satisfied")
  \o Flag("executable")
StepSnapshotIn ==
  Within("key", KeyIn) \o Id("id") \o Gen("generation") \o Enum("state", 1, 11)
  \o Word("attempts") \o Flag("mandatory") \o Flag("idempotent") \o Flag("verification")
  \o Enum("reversibility", 1, 3) \o Word("conflict_domains") \o Id("last_evidence")
  \o Enum("last_outcome", 1, 7) \o Id("last_attempt") \o Gen("dispatch_watermark")
  \o Gen("dispatch_epoch") \o Id("dispatch_publisher") \o Id("dispatch_boot")
  \o List("depends_on", KeyIn, MaxDependencies) \o Flag("prerequisites_satisfied")
  \o Flag("executable")

SnapshotOut ==
  Id("id") \o Id("plan") \o Gen("plan_generation") \o Enum("lifecycle", 1, 12)
  \o Enum("currentness", 0, 4095) \o Within("policy", PolicyOut)
  \o Within("source", BindingOut) \o Within("target", BindingOut) \o Enum("mode", 1, 2)
  \o Gen("epoch") \o Gen("created_epoch") \o Id("owner_publisher") \o Id("owner_boot")
  \o Gen("authority_generation") \o Id("provenance") \o Gen("convergence_generation")
  \o Gen("watermark") \o Id("predecessor") \o Id("successor")
  \o Enum("supersession_reason", 1, 21) \o Id("rollback_plan") \o Flag("is_rollback")
  \o List("layers", List("width", Id("id"), Unbounded), Unbounded)
  \o List("steps", StepSnapshotOut, Unbounded) \o Hash("digest")
SnapshotIn ==
  Id("id") \o Id("plan") \o Gen("plan_generation") \o Enum("lifecycle", 1, 12)
  \o Enum("currentness", 0, 4095) \o Within("policy", PolicyIn)
  \o Within("source", BindingIn) \o Within("target", BindingIn) \o Enum("mode", 1, 2)
  \o Gen("epoch") \o Gen("created_epoch") \o Id("owner_publisher") \o Id("owner_boot")
  \o Gen("authority_generation") \o Id("provenance") \o Gen("convergence_generation")
  \o Gen("watermark") \o Id("predecessor") \o Id("successor")
  \o Enum("supersession_reason", 1, 21) \o Id("rollback_plan") \o Flag("is_rollback")
  \o List("layers", List("width", Id("id"), MaxSteps), MaxSteps)
  \o List("steps", StepSnapshotIn, MaxSteps) \o Hash("digest")

EntryOut ==
  Enum("kind", 1, 12) \o Gen("plan_generation") \o Gen("convergence_generation")
  \o Id("step") \o Text("reason", 0, Unbounded) \o Gen("observed") \o Gen("expected")
EntryIn ==
  Enum("kind", 1, 12) \o Gen("plan_generation") \o Gen("convergence_generation")
  \o Id("step") \o Text("reason", 0, 128) \o Gen("observed") \o Gen("expected")

DiffOut ==
  Id("plan") \o Gen("from_generation") \o Gen("to_generation")
  \o List("entries", EntryOut, Unbounded)
DiffIn ==
  Id("plan") \o Gen("from_generation") \o Gen("to_generation")
  \o List("entries", EntryIn, MaxEntries)

EvidenceOut ==
  Id("id") \o Id("plan") \o Id("step") \o Gen("step_generation") \o Id("attempt")
  \o Gen("epoch") \o Id("publisher") \o Id("worker_boot") \o Enum("outcome", 1, 7)
  \o Gen("applied_route_generation") \o Gen("observed_path_authority_generation")
  \o Gen("dispatch_watermark") \o Text("detail", 0, Unbounded)
EvidenceIn ==
  Id("id") \o Id("plan") \o Id("step") \o Gen("step_generation") \o Id("attempt")
  \o Gen("epoch") \o Id("publisher") \o Id("worker_boot") \o Enum("outcome", 1, 7)
  \o Gen("applied_route_generation") \o Gen("observed_path_authority_generation")
  \o Gen("dispatch_watermark") \o Text("detail", 0, 256)

\* A refused dispatch carries no step.
DispatchOut ==
  Enum("outcome", 1, 64) \o Id("plan") \o Id("step") \o Gen("step_generation")
  \o Gen("watermark") \o Gen("epoch") \o Maybe("spec", SpecOut) \o ConditionsOut
DispatchIn ==
  Enum("outcome", 1, 64) \o Id("plan") \o Id("step") \o Gen("step_generation")
  \o Gen("watermark") \o Gen("epoch") \o Maybe("spec", SpecIn) \o ConditionsIn

ReadyStepOut ==
  Id("plan") \o Id("step") \o Within("key", KeyOut) \o Gen("generation")
  \o Gen("watermark") \o Id("route") \o Within("spec", SpecOut)
\* Fault: the watermark is read before the generation.
WatermarkFirst ==
  Id("plan") \o Id("step") \o Within("key", KeyIn) \o Gen("watermark")
  \o Gen("generation") \o Id("route") \o Within("spec", SpecIn)

ReadyStepIn ==
  Id("plan") \o Id("step") \o Within("key", KeyIn) \o Gen("generation")
  \o Gen("watermark") \o Id("route") \o Within("spec", SpecIn)

NoticeOut ==
  Enum("outcome", 1, 64) \o Gen("epoch") \o Gen("convergence_generation")
  \o Word("plans_examined") \o Word("plans_invalidated") \o Word("plans_superseded")
  \o Word("steps_staled") \o ConditionsOut
NoticeIn ==
  Enum("outcome", 1, 64) \o Gen("epoch") \o Gen("convergence_generation")
  \o Word("plans_examined") \o Word("plans_invalidated") \o Word("plans_superseded")
  \o Word("steps_staled") \o ConditionsIn

(***************************************************************************)
(* The bodies of the messages.                                             *)
(***************************************************************************)
HelloOut ==
  Word("wire_version") \o Gen("epoch") \o Text("product", 0, Unbounded)
  \o Text("version", 0, Unbounded) \o Gen("convergence_generation")
HelloIn ==
  Word("wire_version") \o Gen("epoch") \o Text("product", 0, 64)
  \o Text("version", 0, 32) \o Gen("convergence_generation")

PlanListOut == List("plans", SummaryOut, Unbounded) \o Flag("list_truncated")
PlanListIn == List("plans", SummaryIn, MaxBatch) \o Flag("list_truncated")

ReadyListOut == List("ready", ReadyStepOut, Unbounded) \o Flag("list_truncated")
ReadyListIn == List("ready", ReadyStepIn, 2 * MaxParallel) \o Flag("list_truncated")

PlanQueryOut == Flag("found") \o Within("summary", SummaryOut)
PlanQueryIn == Flag("found") \o Within("summary", SummaryIn)

SnapshotBodyOut == Flag("found") \o Within("snapshot", SnapshotOut)
SnapshotBodyIn == Flag("found") \o Within("snapshot", SnapshotIn)

DiffRequestOut == Id("plan") \o Gen("from")
DiffRequestIn == Id("plan") \o Gen("from")

DiffBodyOut == Flag("found") \o Within("diff", DiffOut)
DiffBodyIn == Flag("found") \o Within("diff", DiffIn)

PolicyListOut == List("policies", PolicyOut, Unbounded)
PolicyListIn == List("policies", PolicyIn, 4096)

ExplainRequestOut == Id("plan") \o Id("step") \o Enum("explain", 1, 10)
ExplainRequestIn == Id("plan") \o Id("step") \o Enum("explain", 1, 10)

ExplainResponseOut ==
  Flag("found") \o Text("explained", 0, Unbounded) \o ConditionsOut
ExplainResponseIn == Flag("found") \o Text("explained", 0, 256) \o ConditionsIn

FailOut ==
  Id("plan") \o Id("step") \o Gen("step_generation") \o Enum("outcome", 1, 7)
  \o Text("detail", 0, Unbounded)
FailIn ==
  Id("plan") \o Id("step") \o Gen("step_generation") \o Enum("outcome", 1, 7)
  \o Text("detail", 0, 256)

ReconcileOut ==
  Id("plan") \o Id("step") \o Flag("applied") \o Text("detail", 0, Unbounded)
ReconcileIn == Id("plan") \o Id("step") \o Flag("applied") \o Text("detail", 0, 256)

PauseOut == Id("plan") \o Enum("cause", 0, 93)
PauseIn == Id("plan") \o Enum("cause", 0, 92)

DispatchStepOut == Id("plan") \o Id("step")
DispatchStepIn == Id("plan") \o Id("step")

RouteChangeOut == Within("binding", BindingOut) \o Id("provenance")
RouteChangeIn == Within("binding", BindingIn) \o Id("provenance")
PathChangeOut == Within("legality", LegalityOut) \o Id("provenance")
PathChangeIn == Within("legality", LegalityIn) \o Id("provenance")
EpochChangeOut == Gen("previous") \o Gen("current") \o Id("provenance")
EpochChangeIn == Gen("previous") \o Gen("current") \o Id("provenance")

ErrorOut ==
  Enum("code", 0, 93) \o Enum("outcome", 1, 64) \o Text("detail", 0, Unbounded)
ErrorIn == Enum("code", 0, 92) \o Enum("outcome", 0, 64) \o Text("detail", 0, 256)

(***************************************************************************)
(* The messages: which body the client and the coordinator write, and      *)
(* which the other one reads.                                              *)
(***************************************************************************)
Mutations ==
  {"REGISTER_WORKER", "FENCE_WORKER", "DEFINE_POLICY", "CREATE_PLAN",
   "COMPLETE_STEP", "FAIL_STEP", "RECONCILE_STEP", "REVALIDATE_PLAN",
   "BEGIN_ROLLBACK", "RETIRE_PLAN", "REVOKE_PLAN", "PAUSE_PLAN"}
Notices == {"ROUTE_CHANGE", "PATH_CHANGE", "EPOCH_CHANGE"}
Queries ==
  {"HELLO", "QUERY_PLAN", "LIST_PLANS", "STEP_READY", "DISPATCH_STEP", "SNAPSHOT",
   "DIFF", "EXPLAIN", "LIST_POLICIES"}

Messages == Mutations \cup Notices \cup Queries

RequestOut(message) ==
  CASE message \in {"HELLO", "LIST_PLANS", "LIST_POLICIES"} -> <<>>
    [] message = "REGISTER_WORKER" -> RegistrationOut
    [] message = "DEFINE_POLICY" -> PolicyOut
    [] message = "CREATE_PLAN" -> PlanRequestOut
    [] message = "COMPLETE_STEP" -> EvidenceOut
    [] message = "FAIL_STEP" -> FailOut
    [] message = "RECONCILE_STEP" -> ReconcileOut
    [] message = "PAUSE_PLAN" -> PauseOut
    [] message = "DISPATCH_STEP" -> DispatchStepOut
    [] message = "DIFF" -> DiffRequestOut
    [] message = "EXPLAIN" -> ExplainRequestOut
    [] message = "ROUTE_CHANGE" -> RouteChangeOut
    [] message = "PATH_CHANGE" -> PathChangeOut
    [] message = "EPOCH_CHANGE" -> EpochChangeOut
    [] message = "STEP_READY" -> Word("max_steps")
    [] OTHER -> Id("id")

RequestIn(message) ==
  CASE message \in {"HELLO", "LIST_PLANS", "LIST_POLICIES"} -> <<>>
    [] message = "REGISTER_WORKER" -> RegistrationIn
    [] message = "DEFINE_POLICY" -> PolicyIn
    [] message = "CREATE_PLAN" -> PlanRequestIn
    [] message = "COMPLETE_STEP" -> EvidenceIn
    [] message = "FAIL_STEP" -> FailIn
    [] message = "RECONCILE_STEP" -> ReconcileIn
    [] message = "PAUSE_PLAN" -> PauseIn
    [] message = "DISPATCH_STEP" -> DispatchStepIn
    [] message = "DIFF" -> DiffRequestIn
    [] message = "EXPLAIN" -> ExplainRequestIn
    [] message = "ROUTE_CHANGE" -> RouteChangeIn
    [] message = "PATH_CHANGE" -> PathChangeIn
    [] message = "EPOCH_CHANGE" -> EpochChangeIn
    [] message = "STEP_READY" -> Word("max_steps")
    [] OTHER -> Id("id")

AnswerOut(message) ==
  CASE message \in Mutations -> ResultOut
    [] message \in Notices -> NoticeOut
    [] message = "HELLO" -> HelloOut
    [] message = "QUERY_PLAN" -> PlanQueryOut
    [] message = "LIST_PLANS" -> PlanListOut
    [] message = "STEP_READY" -> ReadyListOut
    [] message = "DISPATCH_STEP" -> DispatchOut
    [] message = "SNAPSHOT" -> SnapshotBodyOut
    [] message = "DIFF" -> DiffBodyOut
    [] message = "EXPLAIN" -> ExplainResponseOut
    [] message = "LIST_POLICIES" -> PolicyListOut
    [] message = "ERROR" -> ErrorOut

AnswerIn(message) ==
  CASE message \in Mutations -> ResultIn
    [] message \in Notices -> NoticeIn
    [] message = "HELLO" -> HelloIn
    [] message = "QUERY_PLAN" -> PlanQueryIn
    [] message = "LIST_PLANS" -> PlanListIn
    [] message = "STEP_READY" -> ReadyListIn
    [] message = "DISPATCH_STEP" -> DispatchIn
    [] message = "SNAPSHOT" -> SnapshotBodyIn
    [] message = "DIFF" -> DiffBodyIn
    [] message = "EXPLAIN" -> ExplainResponseIn
    [] message = "LIST_POLICIES" -> PolicyListIn
    [] message = "ERROR" -> ErrorIn

(***************************************************************************)
(* What the coordinator answers, by the world it finds.  A plan's steps    *)
(* are all alike: of one kind, with subjects and prerequisites of one      *)
(* size, and all of them done or none.                                     *)
(***************************************************************************)
NameBytes ==
  [VALIDATE_TARGET |-> 15, PREPARE_NEW_STATE |-> 17, INSTALL_NEW_GROUP |-> 17,
   INSTALL_NEW_ROUTE |-> 17, ACTIVATE_NEW_PATH |-> 17, VERIFY_NEW_STATE |-> 16,
   DEACTIVATE_OLD_PATH |-> 19, WITHDRAW_OLD_ROUTE |-> 18, VERIFY_REMOVAL |-> 14,
   FINALIZE |-> 8]

IdBytes == 32

\* The codes matter by what a decoder makes of them: DUPLICATE_STEP is the last
\* one it accepts, GRAPH_INVALID the last one there is.
LastKnownCode == 92
GraphInvalid == 93

\* StepKey::render: the kind, a slash and the subject.
Render(w) == NameBytes[w.kind] + 1 + w.subject

\* Fault: one more entry than the bound.
AtMostAndOne(n, bound) == IF n > bound THEN bound + 1 ELSE n

AtMost(n, bound) == IF n > bound THEN bound ELSE n

\* A list of conditions keeps its first entries; of the subjects the longest.
Conditions(count, code, about) ==
  [conditions |-> AtMost(count, MaxEntries), code |-> code, about |-> about]

None == Conditions(0, 0, 0)

Unmet(w) == IF w.done THEN 0 ELSE w.dependencies

\* A snapshot of no plan is written out all the same, with a policy of
\* generation 0.
NoSnapshot == [policy_generation |-> 0, layers |-> 0, steps |-> 0]

\* What a mutation is answered: accepted, refused for a reason with a fixed
\* text or an identity, or for one that names a step.
Verdicts(message, w, asked) ==
  {None, Conditions(1, LastKnownCode, IdBytes)}
  \cup (IF message \in {"COMPLETE_STEP", "FAIL_STEP", "RECONCILE_STEP", "BEGIN_ROLLBACK"}
        THEN {Conditions(1, LastKnownCode, Render(w))} ELSE {})
  \cup (IF message = "RECONCILE_STEP" THEN {Conditions(1, 0, asked["detail"])} ELSE {})
  \cup (IF message = "BEGIN_ROLLBACK" THEN {Conditions(1, GraphInvalid, 14)} ELSE {})
  \cup (IF message = "CREATE_PLAN" THEN {Conditions(w.steps + 1, LastKnownCode, Render(w))} ELSE {})

Dispatches(w) ==
  {[spec |-> 1, depends_on |-> w.dependencies, subject |-> w.subject] @@ None,
   [spec |-> 0] @@ Conditions(1, LastKnownCode, IdBytes),
   [spec |-> 0] @@ Conditions(1 + Unmet(w), LastKnownCode, Render(w))}

\* Of a step: its state, and each prerequisite that is not met.
StepConditions(w) == Conditions(2 + Unmet(w), LastKnownCode, IF Unmet(w) > 0 THEN Render(w) ELSE 20)

Explain(kind, w, named) ==
  LET open == IF w.done THEN 0 ELSE w.steps
      Of(kinds) == IF w.kind \in kinds
                   THEN Conditions(3 + Unmet(w), LastKnownCode, Render(w))
                   ELSE Conditions(1, LastKnownCode, 12)
  IN CASE kind = "PLAN" -> Conditions(3, 0, 17)
       [] kind \in {"STEP", "PREREQUISITE"} ->
            IF named THEN StepConditions(w) ELSE Conditions(1, LastKnownCode, 4)
       [] kind = "READINESS" -> IF open > 0 THEN Conditions(open, LastKnownCode, Render(w)) ELSE None
       [] kind = "OLD_STATE_RETENTION" -> Of({"WITHDRAW_OLD_ROUTE"})
       [] kind = "TARGET_ACTIVATION" -> Of({"ACTIVATE_NEW_PATH", "INSTALL_NEW_ROUTE"})
       [] kind = "ROLLBACK" -> Conditions(3, 0, 17)
       [] kind = "STALENESS" -> Conditions(1, 0, 7)
       [] kind = "COMPLETION" ->
            IF open > 0 THEN Conditions(open, LastKnownCode, Render(w)) ELSE Conditions(1, LastKnownCode, 10)
       [] kind = "AUTHORITY" -> Conditions(5, 0, 22)

ExplainKinds ==
  <<"PLAN", "STEP", "READINESS", "PREREQUISITE", "OLD_STATE_RETENTION",
    "TARGET_ACTIVATION", "ROLLBACK", "STALENESS", "COMPLETION", "AUTHORITY">>

Listed(w) == {[plans |-> AtMost(w.plans, MaxBatch)]}

Offered(w, most) ==
  {[ready |-> AtMost(AtMost(w.ready, most), MaxParallel),
    depends_on |-> w.dependencies, subject |-> w.subject]}

Snapshots(w) ==
  IF w.known
  THEN {[layers |-> w.steps, steps |-> w.steps, depends_on |-> w.dependencies,
         subject |-> w.subject]}
  ELSE {NoSnapshot}

\* The changes of the plan that are newer than the generation asked for.
Diffs(w) == {[entries |-> IF w.known THEN w.history ELSE 0, reason |-> 28]}

Explanations(w, asked) ==
  LET step == asked["named"] = 1
      Unknown == [explained |-> IdBytes] @@ Conditions(1, LastKnownCode, IdBytes)
  IN IF ~w.known \/ (step /\ ~w.named) THEN {Unknown}
     ELSE {[explained |-> IF step THEN IdBytes + 1 + Render(w) ELSE IdBytes]
           @@ Explain(ExplainKinds[asked["explain"]], w, step)}

Policies(w) == {[policies |-> w.policies]}

\* The answers to a request that the coordinator could read.
Answers(w, message, asked) ==
  CASE message \in Mutations -> Verdicts(message, w, asked)
    [] message \in Notices -> {None, Conditions(1, LastKnownCode, 20)}
    [] message = "HELLO" -> {[product |-> 17, version |-> 5]}
    [] message = "QUERY_PLAN" -> {None}
    [] message = "LIST_PLANS" -> Listed(w)
    [] message = "STEP_READY" -> Offered(w, asked["max_steps"])
    [] message = "DISPATCH_STEP" -> Dispatches(w)
    [] message = "SNAPSHOT" -> Snapshots(w)
    [] message = "DIFF" -> Diffs(w)
    [] message = "EXPLAIN" -> Explanations(w, asked)
    [] message = "LIST_POLICIES" -> Policies(w)

\* The answer to a request whose body the coordinator could not read.
Malformed(message) ==
  CASE message \in {"QUERY_PLAN", "DIFF", "EXPLAIN"} ->
         [message |-> message, shape |-> [entries |-> 0, explained |-> 0] @@ None]
    [] message = "SNAPSHOT" -> [message |-> message, shape |-> NoSnapshot]
    [] message \in Notices ->
         [message |-> message, shape |-> Conditions(1, LastKnownCode, 20)]
    [] OTHER -> [message |-> "ERROR", shape |-> [detail |-> 27]]

(***************************************************************************)
(* The exchange.                                                           *)
(***************************************************************************)
Body(message, reply, shape, w) ==
  [message |-> message, reply |-> reply, shape |-> shape @@ [last |-> w.last]]

Payload(body) ==
  Encoded(IF body.reply THEN AnswerOut(body.message) ELSE RequestOut(body.message),
          body.shape)

Version == 1
Nobody == [message |-> "none", reply |-> FALSE, shape |-> [last |-> 0]]
NoFrame ==
  [version |-> 0, message |-> "none", flags |-> 0, declared |-> 0, arrived |-> 0,
   intact |-> TRUE]

\* encode_frame: a body that is too large has no frame.
Fits(body) == Bytes(Payload(body)) <= MaxFrame

Sealed(body) ==
  LET bytes == Bytes(Payload(body))
  IN [version |-> Version, message |-> body.message, flags |-> 0, declared |-> bytes,
      arrived |-> bytes, intact |-> TRUE]

\* What can have happened to a frame on its way, or to the peer that wrote it.
Harmed(f) ==
  {[f EXCEPT !.intact = FALSE, !.arrived = @ - 1],
   [f EXCEPT !.intact = FALSE, !.declared = @ + 1],
   [f EXCEPT !.intact = FALSE, !.declared = MaxFrame + 1],
   [f EXCEPT !.intact = FALSE, !.message = "unassigned"],
   [f EXCEPT !.intact = FALSE,
             !.message = IF @ = "RETIRE_PLAN" THEN "REVOKE_PLAN" ELSE "RETIRE_PLAN"],
   [f EXCEPT !.intact = FALSE, !.flags = 1],
   [f EXCEPT !.intact = FALSE, !.version = Version + 1]}

\* read_frame and decode_frame, in the order of their checks.  A frame with
\* less than it declares is waited for until the deadline.
Defect(f) ==
  CASE f.declared > MaxFrame -> "FRAME_TOO_LARGE"
    [] f.declared <= MaxFrame /\ f.arrived < f.declared -> "PEER_TIMEOUT"
    [] OTHER ->
         IF f.version # Version THEN "VERSION_MISMATCH"
         ELSE IF f.message \notin Messages \cup {"ERROR"} THEN "UNKNOWN_MESSAGE"
         ELSE IF f.flags # 0 THEN "RESERVED_NOT_ZERO"
         ELSE IF ~f.intact THEN "INTEGRITY_FAILURE"
         ELSE "NONE"

VARIABLES
  world,    \* what the coordinator holds
  stage,    \* where the exchange is
  request,  \* the body the client sent
  answer,   \* the body the coordinator sent
  frame,    \* the frame on its way
  harmed,   \* whether a frame of this exchange was harmed
  differs,  \* what a receiver accepted in another place than it was written
  verdict   \* what the client made of the exchange

vars == <<world, stage, request, answer, frame, harmed, differs, verdict>>

\* The requests a client makes; "named" is whether EXPLAIN names a step.
Asked(w, message) ==
  CASE message = "DEFINE_POLICY" -> {[policy_generation |-> g] : g \in 0..1}
    [] message = "CREATE_PLAN" ->
         {[explicit_steps |-> w.steps, depends_on |-> w.dependencies, subject |-> w.subject]}
    [] message \in {"COMPLETE_STEP", "FAIL_STEP", "RECONCILE_STEP"} ->
         {[detail |-> n] : n \in {0, 128, 129, 256, 257}}
    [] message = "PAUSE_PLAN" -> {[cause |-> c] : c \in {0, LastKnownCode, GraphInvalid}}
    [] message = "STEP_READY" -> {[max_steps |-> n] : n \in {0, MaxParallel + 1}}
    [] message = "EXPLAIN" -> {[explain |-> k, named |-> n] : k \in 1..10, n \in 0..1}
    [] OTHER -> {None}

Init ==
  /\ world \in Worlds
  /\ stage = "idle" /\ request = Nobody /\ answer = Nobody /\ frame = NoFrame
  /\ harmed = FALSE /\ differs = {} /\ verdict = "none"

\* A client seals its request, or cannot (round_trip, write_frame).
Ask ==
  /\ stage = "idle"
  /\ \E message \in Messages : \E shape \in Asked(world, message) :
       LET body == Body(message, FALSE, shape, world) IN
       /\ request' = body
       /\ IF Fits(body)
          THEN stage' = "request" /\ frame' = Sealed(body) /\ UNCHANGED verdict
          ELSE stage' = "end" /\ verdict' = "unsent" /\ UNCHANGED frame
  /\ UNCHANGED <<world, answer, harmed, differs>>

Harm ==
  /\ stage \in {"request", "answer"} /\ ~harmed
  /\ frame' \in Harmed(frame) /\ harmed' = TRUE
  /\ UNCHANGED <<world, stage, request, answer, differs, verdict>>

\* What a receiver takes the body for, and the fields that it got wrong: read
\* elsewhere, not read at all, or of another message.  Whether conditions were
\* left out is read and dropped (decode_conditions).
Reading(layout, body) == Decoded(layout, Payload(body))

Paths(tokens) == {tokens[i].of : i \in DOMAIN tokens}

Wrong(reading, body, as) ==
  {pair[1] : pair \in {p \in reading.got : p[1] # p[2]}}
  \cup (Paths(Payload(body)) \ {pair[1] : pair \in reading.got})
  \cup (IF as # body.message THEN {<<"message">>} ELSE {})

\* The coordinator sends what it has to say, or ends the session because it
\* has no frame for it.
Reply(body) ==
  /\ answer' = body
  /\ IF Fits(body)
     THEN stage' = "answer" /\ frame' = Sealed(body) /\ UNCHANGED verdict
     ELSE stage' = "end" /\ frame' = NoFrame /\ verdict' = "closed"

\* serve_connection refuses a frame that is not whole, and ends the session.
RefuseFrame ==
  /\ stage = "request" /\ Defect(frame) # "NONE"
  /\ IF Defect(frame) = "PEER_TIMEOUT"
     THEN stage' = "end" /\ verdict' = "closed" /\ frame' = NoFrame /\ UNCHANGED answer
     ELSE Reply(Body("ERROR", TRUE, [detail |-> 16], world))
  /\ UNCHANGED <<world, request, harmed, differs>>

\* dispatch: the answer to what was read, or to what could not be.
Serve ==
  /\ stage = "request" /\ Defect(frame) = "NONE"
  /\ LET as == frame.message
         reading == Reading(RequestIn(as), request)
     IN IF ~reading.ok
        THEN /\ Reply(Body(Malformed(as).message, TRUE, Malformed(as).shape, world))
             /\ UNCHANGED differs
        ELSE /\ differs' = Wrong(reading, request, as)
             /\ IF as = "STEP_READY" /\ ~world.registered
                THEN Reply(Body("ERROR", TRUE, [detail |-> 41], world))
                ELSE \E shape \in Answers(world, as, request.shape) :
                       Reply(Body(as, TRUE, shape, world))
  /\ UNCHANGED <<world, request, harmed>>

\* round_trip, and the decoding of the answer it expects.
Hear ==
  /\ stage = "answer"
  /\ stage' = "end" /\ frame' = NoFrame
  /\ LET as == frame.message
         reading == Reading(AnswerIn(as), answer)
     IN IF Defect(frame) # "NONE" THEN verdict' = "defect" /\ UNCHANGED differs
        ELSE IF as = "ERROR" THEN verdict' = "error" /\ UNCHANGED differs
        ELSE IF as # request.message THEN verdict' = "unexpected" /\ UNCHANGED differs
        ELSE IF ~reading.ok THEN verdict' = "unreadable" /\ UNCHANGED differs
        ELSE verdict' = "understood" /\ differs' = Wrong(reading, answer, as)
  /\ UNCHANGED <<world, request, answer, harmed>>

\* The next exchange, over a new session where the last one has ended.
Again ==
  /\ stage = "end"
  /\ stage' = "idle" /\ request' = Nobody /\ answer' = Nobody /\ frame' = NoFrame
  /\ harmed' = FALSE /\ differs' = {} /\ verdict' = "none"
  /\ UNCHANGED world

Next == Ask \/ Harm \/ RefuseFrame \/ Serve \/ Hear \/ Again

Spec == Init /\ [][Next]_vars

(***************************************************************************)
(* Properties.                                                             *)
(***************************************************************************)
\* Whatever a receiver accepts is what was sent: the coordinator acts on, and
\* the client reports, each field under the name it was written with, of the
\* message it was written for, and nothing of a frame that was harmed.
NothingIsMisread == differs = {} /\ (verdict = "understood" => ~harmed)

\* A frame has these parts.
IsFrame(f) ==
  f = [version |-> f.version, message |-> f.message, flags |-> f.flags,
       declared |-> f.declared, arrived |-> f.arrived, intact |-> f.intact]

\* A frame that is intact is the one its body was sealed in.
Carries(body, messages, reply) ==
  /\ body.message \in messages /\ body.reply = reply
  /\ frame.intact => frame.message = body.message

\* Why nothing is misread: a harmed frame is never intact, and once a request
\* was harmed the only answer that is sent is a refusal.
InductiveInvariant ==
  /\ NothingIsMisread
  /\ IsFrame(frame)
  /\ stage # "end" => verdict = "none"
  /\ stage = "idle" => ~harmed
  /\ stage = "request" => /\ Carries(request, Messages, FALSE)
                          /\ harmed => ~frame.intact
  /\ stage = "answer" => /\ Carries(answer, Messages \cup {"ERROR"}, TRUE)
                         /\ harmed /\ frame.intact => answer.message = "ERROR"

\* The bodies a decoder does not accept although a peer writes them: of
\* requests, a text or a code the client did not bound, or a policy of no
\* generation; of answers, the snapshot of an unknown plan, the last condition
\* code, conditions about a key or a detail of more than 128 bytes and too long
\* a list of policies.
RequestGap(body) ==
  LET shape == body.shape IN
  \/ body.message \in {"COMPLETE_STEP", "FAIL_STEP", "RECONCILE_STEP"}
     /\ shape["detail"] > 256
  \/ body.message = "PAUSE_PLAN" /\ shape["cause"] = GraphInvalid
  \/ body.message = "DEFINE_POLICY" /\ shape["policy_generation"] = 0

AnswerGap(body) ==
  LET shape == body.shape IN
  \/ body.message = "SNAPSHOT" /\ shape["steps"] = 0
  \/ body.message = "LIST_POLICIES" /\ shape["policies"] > 4096
  \/ /\ "conditions" \in DOMAIN shape /\ shape["conditions"] > 0
     /\ shape["code"] = GraphInvalid \/ shape["about"] > 128

\* An exchange whose frames arrive whole fails only through one of these gaps,
\* or because a plan that could be created has too large a snapshot: every
\* other answer, with every list and text at its limit, is understood.
OnlyKnownGaps ==
  (stage = "end" /\ ~harmed) =>
    CASE verdict = "error" ->
           RequestGap(request) \/ (request.message = "STEP_READY" /\ ~world.registered)
      [] verdict = "unreadable" -> AnswerGap(answer)
      [] verdict = "closed" -> request.message = "SNAPSHOT" /\ world.known
      [] verdict = "unsent" -> request.message = "CREATE_PLAN" /\ ~world.known
      [] verdict = "understood" -> ~AnswerGap(answer) /\ ~RequestGap(request)
      [] OTHER -> FALSE

====
