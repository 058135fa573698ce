------------------------ MODULE CoordinatorSessions ------------------------
(***************************************************************************)
(* The coordinator's sessions: one thread per connection, which takes a    *)
(* request, has the governor apply it, saves and answers, and which fences *)
(* the boot it registered when the connection ends (server.cpp), over the  *)
(* governor's worker registry and its memory of mutation attempts          *)
(* (governor_mutate.cpp, governor_core.cpp), for clients that ask one      *)
(* thing at a time, disappear, come back and retry (client.cpp,            *)
(* worker_main.cpp).                                                       *)
(*                                                                         *)
(* A thread's steps are cut where another thread can come between: the     *)
(* governor's operations are atomic under its lock, the shared variable    *)
(* session_connection has no lock.  Of the plans only this is left: a      *)
(* mutation is applied or refused.  The save before the answer is          *)
(* DurableStore's subject; here it may fail.                               *)
(***************************************************************************)
EXTENDS Integers, Sequences, FiniteSets, SequencesExt

CONSTANTS
  Connections,  \* connections, each used once
  Requests,     \* what clients may ask: kind, attempt, boot and target
  PublisherOf,  \* the publisher of each boot
  Remembered,   \* max_attempts_remembered
  MaxRequests,  \* requests sent in one behaviour
  None

Boots == DOMAIN PublisherOf
Attempts == {r.attempt : r \in Requests}

ASSUME RequestAssumption ==
  \A r \in Requests :
    /\ r.kind \in {"REGISTER_WORKER", "DISPATCH_STEP", "COMPLETE_STEP", "FENCE_WORKER"}
    /\ r.boot \in Boots /\ r.target \in Boots
\* A worker takes a new attempt for each step it dispatches (worker_main.cpp, 200).
ASSUME AttemptAssumption ==
  \A r, s \in Requests :
    r.kind = "DISPATCH_STEP" /\ s.kind = "DISPATCH_STEP" /\ r.attempt = s.attempt
      => r.target = s.target
ASSUME NoneAssumption == None \notin Boots /\ None \notin Connections /\ None \notin Requests
ASSUME BoundAssumption == Remembered \in Nat \ {0} /\ MaxRequests \in Nat

VARIABLES
  link,      \* of each connection: "NONE", "UP", or "DOWN" for its client
  owner,     \* the boot whose process opened it
  asked,     \* its request that is not answered yet
  sent,      \* how many requests were sent
  thread,    \* its session: where the thread is, session_boot, and its locals
  current,   \* session_connection
  byBoot,    \* by_boot: the connection to tell that a boot is fenced
  workers,   \* of each registered publisher: its boot, and whether it is live
  fenced,    \* fenced_boots
  attempts,  \* attempt_order, each with its record
  executed,  \* how often each mutation was applied (an observer)
  forgotten, \* how often each attempt left the memory (an observer)
  raced      \* whether two threads have ever been inside dispatch (an observer)

client == <<link, owner, asked, sent>>
governor == <<workers, fenced, attempts, executed, forgotten>>
server == <<thread, current, byBoot, raced>>
vars == <<client, governor, server>>

----------------------------------------------------------------------------
\* Attempt memory: check_attempt and record_attempt

Entry(r) == [attempt |-> r.attempt, kind |-> r.kind, target |-> r.target]

\* (Fault, for the mutation runs: a stored dispatch is fresh for any request.)
ReplaysButDispatch(r) == Entry(r) \in ToSet(attempts) /\ r.kind # "DISPATCH_STEP"

Replays(r) == Entry(r) \in ToSet(attempts)

\* A dispatch and the completion of its step may share an attempt.
Conflicts(r) ==
  \E e \in ToSet(attempts) :
    e.attempt = r.attempt /\ e # Entry(r) /\ e.kind # "DISPATCH_STEP"

\* A new record of an attempt keeps the place of the old one; the memory drops
\* the oldest attempt over its bound.
Record(r) ==
  IF \E i \in DOMAIN attempts : attempts[i].attempt = r.attempt
  THEN [i \in DOMAIN attempts |-> IF attempts[i].attempt = r.attempt THEN Entry(r)
                                  ELSE attempts[i]]
  ELSE LET all == Append(attempts, Entry(r))
       IN IF Len(all) > Remembered THEN Tail(all) ELSE all

Remember(memory) ==
  /\ attempts' = memory
  /\ forgotten' = [a \in Attempts |->
                     forgotten[a] + (IF /\ \E e \in ToSet(attempts) : e.attempt = a
                                        /\ \A e \in ToSet(memory) : e.attempt # a
                                     THEN 1 ELSE 0)]

----------------------------------------------------------------------------
\* Worker registry

Live(b) ==
  /\ b \notin fenced
  /\ PublisherOf[b] \in DOMAIN workers
  /\ workers[PublisherOf[b]] = [boot |-> b, live |-> TRUE]

\* (Fault: a request is trusted once it was received from a boot that was not
\* fenced.)
AuthorizedOnReceipt(r) == PublisherOf[r.boot] \in DOMAIN workers

\* authorize: the sender is the publisher's boot, live and not fenced.
Authorized(r) == Live(r.boot)

Registered(b, live) ==
  [p \in DOMAIN workers \cup {PublisherOf[b]} |->
     IF p = PublisherOf[b] THEN [boot |-> b, live |-> live] ELSE workers[p]]

\* A boot of the record is not live any more.
Unlive(b) ==
  [p \in DOMAIN workers |-> [workers[p] EXCEPT !.live = @ /\ workers[p].boot # b]]

----------------------------------------------------------------------------
\* Clients

Connect(c, b) ==
  /\ link[c] = "NONE"
  /\ link' = [link EXCEPT ![c] = "UP"]
  /\ owner' = [owner EXCEPT ![c] = b]
  /\ thread' = [thread EXCEPT ![c].at = "WAITING"]
  /\ UNCHANGED <<asked, sent, governor, current, byBoot, raced>>

\* A request, or one sent before and never answered: the attempt tells.
Send(c, r) ==
  /\ link[c] = "UP" /\ asked[c] = None
  /\ r.boot = owner[c]
  /\ sent < MaxRequests
  /\ asked' = [asked EXCEPT ![c] = r]
  /\ sent' = sent + 1
  /\ UNCHANGED <<link, owner, governor, server>>

Drop(c) ==
  /\ link[c] = "UP"
  /\ link' = [link EXCEPT ![c] = "DOWN"]
  /\ UNCHANGED <<owner, asked, sent, governor, server>>

----------------------------------------------------------------------------
\* serve_connection

Moves(c, place) == thread' = [thread EXCEPT ![c].at = place]

InDispatch(c) == thread[c].at \in {"POSTED", "LOOKED", "APPLIED", "ENLISTED"}

\* The frame is read, and refused if its boot is fenced; else the connection is
\* noted where registration will look for it.
Receive(c) ==
  /\ thread[c].at = "WAITING" /\ asked[c] # None
  /\ IF asked[c].boot \in fenced
     THEN /\ Moves(c, "LEAVING")
          /\ asked' = [asked EXCEPT ![c] = None]
          /\ UNCHANGED <<current, raced>>
     ELSE /\ Moves(c, "POSTED")
          /\ current' = c
          /\ raced' = (raced \/ \E d \in Connections : InDispatch(d))
          /\ UNCHANGED asked
  /\ UNCHANGED <<link, owner, sent, governor, byBoot>>

\* The connection ends, or nothing arrives within the deadline.
StopReceiving(c) ==
  /\ thread[c].at = "WAITING"
  /\ asked[c] = None \/ link[c] = "DOWN"
  /\ Moves(c, "LEAVING")
  /\ asked' = [asked EXCEPT ![c] = None]
  /\ UNCHANGED <<link, owner, sent, governor, current, byBoot, raced>>

\* Which boot does this registration replace?
LookUp(c) ==
  LET r == asked[c]
      p == PublisherOf[r.boot]
  IN /\ thread[c].at = "POSTED" /\ r.kind = "REGISTER_WORKER"
     /\ thread' = [thread EXCEPT ![c].at = "LOOKED",
                     ![c].previous = IF p \in DOMAIN workers /\ workers[p].boot # r.boot
                                     THEN workers[p].boot ELSE None]
     /\ UNCHANGED <<client, governor, current, byBoot, raced>>

Applied(c, accepted) ==
  thread' = [thread EXCEPT ![c].at = "APPLIED", ![c].accepted = accepted]

\* register_worker.
RegisterWorker(c) ==
  LET r == asked[c]
      p == PublisherOf[r.boot]
      existing == IF p \in DOMAIN workers THEN workers[p].boot ELSE None
      refused == r.boot \in fenced \/ Conflicts(r)
  IN /\ thread[c].at = "LOOKED"
     /\ Applied(c, ~refused)
     /\ IF refused \/ Replays(r) THEN UNCHANGED governor
        ELSE IF existing = r.boot
        THEN /\ workers' = Registered(r.boot, TRUE)
             /\ UNCHANGED <<fenced, attempts, executed, forgotten>>
        ELSE /\ workers' = Registered(r.boot, TRUE)
             /\ fenced' = fenced \cup ({existing} \ {None})
             /\ Remember(Record(r))
             /\ UNCHANGED executed
     /\ UNCHANGED <<client, current, byBoot, raced>>

\* dispatch_step and complete_step, which the state of the plan may refuse.
Mutate(c) ==
  LET r == asked[c]
  IN /\ thread[c].at = "POSTED" /\ r.kind \in {"DISPATCH_STEP", "COMPLETE_STEP"}
     /\ \/ /\ ~Authorized(r) \/ Conflicts(r) \/ ~Replays(r)
           /\ Applied(c, FALSE)
           /\ UNCHANGED governor
        \/ /\ Authorized(r) /\ Replays(r)
           /\ Applied(c, TRUE)
           /\ UNCHANGED governor
        \/ /\ Authorized(r) /\ ~Conflicts(r) /\ ~Replays(r)
           /\ Applied(c, TRUE)
           /\ executed' = [executed EXCEPT ![r] = @ + 1]
           /\ Remember(Record(r))
           /\ UNCHANGED <<workers, fenced>>
     /\ UNCHANGED <<client, current, byBoot, raced>>

\* fence_worker.
FenceWorker(c) ==
  LET r == asked[c]
      refused == ~Authorized(r) \/ Conflicts(r)
  IN /\ thread[c].at = "POSTED" /\ r.kind = "FENCE_WORKER"
     /\ Applied(c, ~refused)
     /\ IF refused \/ Replays(r) THEN UNCHANGED governor
        ELSE /\ fenced' = fenced \cup {r.target}
             /\ workers' = Unlive(r.target)
             /\ Remember(Record(r))
             /\ UNCHANGED executed
     /\ UNCHANGED <<client, current, byBoot, raced>>

Without(b) == [x \in DOMAIN byBoot \ {b} |-> byBoot[x]]

\* The coordinator ends and starts again; nothing of this is stored.
Ended ==
  /\ link' = [c \in Connections |-> IF link[c] = "NONE" THEN "NONE" ELSE "DOWN"]
  /\ asked' = [c \in Connections |-> None]
  /\ thread' = [c \in Connections |->
                  IF link[c] = "NONE" THEN thread[c]
                  ELSE [thread[c] EXCEPT !.at = "CLOSED", !.boot = None, !.previous = None,
                                         !.accepted = FALSE]]
  /\ current' = None
  /\ byBoot' = <<>> /\ workers' = <<>> /\ fenced' = {}
  /\ Remember(<<>>)
  /\ UNCHANGED <<owner, sent, executed, raced>>

\* notify_fence takes the entry of a fenced boot and writes to that connection;
\* an entry without a connection ends the process.  A registration then enters
\* its boot, with the connection that session_connection names by now.
Enlist(c) ==
  LET r == asked[c]
      whom == IF r.kind = "FENCE_WORKER" THEN r.target ELSE thread[c].previous
      rest == Without(whom)
  IN /\ thread[c].at = "APPLIED"
     /\ \/ r.kind = "REGISTER_WORKER" /\ thread[c].accepted
        \/ r.kind = "FENCE_WORKER"
     /\ IF whom \in DOMAIN byBoot /\ byBoot[whom] = None THEN Ended
        ELSE /\ byBoot' = IF r.kind = "FENCE_WORKER" THEN rest
                          ELSE [b \in DOMAIN rest \cup {r.boot} |->
                                  IF b = r.boot THEN current ELSE rest[b]]
             /\ Moves(c, "ENLISTED")
             /\ UNCHANGED <<client, governor, current, raced>>

\* (Fault: session_boot does not outlive the request.)
SessionBootOfRequest(c) ==
  IF asked[c].kind = "REGISTER_WORKER" THEN asked[c].boot ELSE None

\* A registration that was answered, accepted or not, names the session's boot.
SessionBoot(c) ==
  IF asked[c].kind = "REGISTER_WORKER" THEN asked[c].boot ELSE thread[c].boot

\* The save or the write may fail, and then the session ends.
Answer(c) ==
  /\ \/ thread[c].at = "ENLISTED"
     \/ /\ thread[c].at = "APPLIED"
        /\ \/ asked[c].kind \in {"DISPATCH_STEP", "COMPLETE_STEP"}
           \/ asked[c].kind = "REGISTER_WORKER" /\ ~thread[c].accepted
  /\ \E place \in {"WAITING", "LEAVING"} :
       thread' = [thread EXCEPT ![c] = [@ EXCEPT !.at = place, !.boot = SessionBoot(c),
                                                 !.previous = None, !.accepted = FALSE]]
  /\ current' = None
  /\ asked' = [asked EXCEPT ![c] = None]
  /\ UNCHANGED <<link, owner, sent, governor, byBoot, raced>>

\* (Fault: the entry is left where it is.)
ForgetNothing(c) == byBoot

\* forget: its own entry only.
Forgotten(c) ==
  LET b == thread[c].boot
  IN IF b \in DOMAIN byBoot /\ byBoot[b] = c THEN Without(b) ELSE byBoot

Forget(c) ==
  /\ thread[c].at = "LEAVING"
  /\ byBoot' = Forgotten(c)
  /\ Moves(c, "FORGOTTEN")
  /\ UNCHANGED <<client, governor, current, raced>>

\* fence_session_loss: the boot is not live any more, and may come back.
FenceSessionLoss(c) ==
  LET b == thread[c].boot
  IN /\ thread[c].at = "FORGOTTEN"
     /\ workers' = IF b # None /\ b \notin fenced THEN Unlive(b) ELSE workers
     /\ thread' = [thread EXCEPT ![c] = [@ EXCEPT !.at = "CLOSED", !.boot = None]]
     /\ link' = [link EXCEPT ![c] = "DOWN"]
     /\ UNCHANGED <<owner, asked, sent, fenced, attempts, executed, forgotten,
                    current, byBoot, raced>>

Restart == (\E c \in Connections : link[c] = "UP") /\ Ended

----------------------------------------------------------------------------
Idle == [at |-> "NONE", boot |-> None, previous |-> None, accepted |-> FALSE]

Init ==
  /\ link = [c \in Connections |-> "NONE"]
  /\ owner = [c \in Connections |-> None]
  /\ asked = [c \in Connections |-> None]
  /\ sent = 0
  /\ thread = [c \in Connections |-> Idle]
  /\ current = None /\ byBoot = <<>>
  /\ workers = <<>> /\ fenced = {} /\ attempts = <<>>
  /\ executed = [r \in Requests |-> 0]
  /\ forgotten = [a \in Attempts |-> 0]
  /\ raced = FALSE

\* What the thread of a session does when it is scheduled.
Serve(c) ==
  \/ Receive(c)
  \/ StopReceiving(c)
  \/ LookUp(c)
  \/ RegisterWorker(c)
  \/ Mutate(c)
  \/ FenceWorker(c)
  \/ Enlist(c)
  \/ Answer(c)
  \/ Forget(c)
  \/ FenceSessionLoss(c)

Next ==
  \/ \E c \in Connections, b \in Boots : Connect(c, b)
  \/ \E c \in Connections, r \in Requests : Send(c, r)
  \/ \E c \in Connections : Drop(c)
  \/ \E c \in Connections : Serve(c)
  \/ Restart

Spec == Init /\ [][Next]_vars

\* Every thread runs, and no receive outlasts its deadline.
FairSpec == Spec /\ \A c \in Connections : WF_vars(Serve(c))

----------------------------------------------------------------------------
Place == {"NONE", "WAITING", "POSTED", "LOOKED", "APPLIED", "ENLISTED", "LEAVING",
          "FORGOTTEN", "CLOSED"}

TypeOK ==
  /\ link \in [Connections -> {"NONE", "UP", "DOWN"}]
  /\ owner \in [Connections -> Boots \cup {None}]
  /\ asked \in [Connections -> Requests \cup {None}]
  /\ sent \in 0 .. MaxRequests
  /\ thread \in [Connections -> [at : Place, boot : Boots \cup {None},
                                 previous : Boots \cup {None}, accepted : BOOLEAN]]
  /\ current \in Connections \cup {None}
  /\ DOMAIN byBoot \subseteq Boots
  /\ byBoot \in [DOMAIN byBoot -> Connections \cup {None}]
  /\ workers \in [DOMAIN workers -> [boot : Boots, live : BOOLEAN]]
  /\ fenced \subseteq Boots
  /\ attempts \in Seq({Entry(r) : r \in Requests})
  /\ executed \in [Requests -> Nat] /\ forgotten \in [Attempts -> Nat]
  /\ raced \in BOOLEAN

\* A mutation is applied once, however often it is sent, over one connection or
\* several at a time; once more only for each time that its attempt fell out of
\* the bounded memory, or the coordinator was restarted (README.md, 239-244).
AtMostOnce ==
  \A r \in Requests : executed[r] <= 1 + forgotten[r.attempt]

\* A live boot has a session whose end will fence it, or a thread that is still
\* registering it (README.md, 380-381; server.cpp, 525-530).
LiveBootIsHeld ==
  \A b \in Boots : Live(b) =>
    \E c \in Connections :
      /\ owner[c] = b /\ thread[c].at \notin {"NONE", "CLOSED"}
      /\ thread[c].boot = b \/ (InDispatch(c) /\ asked[c].kind = "REGISTER_WORKER")

\* As long as no two threads were inside dispatch at once, the index that fence
\* notices are sent by has for a boot an open connection of that boot's process
\* (server.cpp, 54-91 and 489-491).
IndexNamesItsBoot ==
  ~raced =>
    \A b \in DOMAIN byBoot :
      /\ byBoot[b] # None
      /\ owner[byBoot[b]] = b
      /\ thread[byBoot[b]].at \notin {"FORGOTTEN", "CLOSED"}

\* A session speaks for the process that opened it: its request and its
\* session_boot are of that boot, and only a registration has looked a boot up.
SessionsAgree ==
  \A c \in Connections :
    /\ link[c] = "NONE" => /\ thread[c].at = "NONE" /\ thread[c].boot = None
                           /\ owner[c] = None /\ asked[c] = None
    /\ thread[c].at = "NONE" => link[c] = "NONE"
    /\ asked[c] # None => asked[c].boot = owner[c]
    /\ thread[c].boot \in {None, owner[c]}
    /\ InDispatch(c) => asked[c] # None
    /\ thread[c].at = "LOOKED" => asked[c].kind = "REGISTER_WORKER"

\* While no two threads were inside dispatch at once, session_connection is that
\* of the thread inside, and an entry of the index is one that its session will
\* take out again.
IndexAgrees ==
  ~raced =>
    /\ \A c, d \in Connections : InDispatch(c) /\ InDispatch(d) => c = d
    /\ \A c \in Connections : InDispatch(c) => current = c
    /\ \A b \in DOMAIN byBoot :
         \/ thread[byBoot[b]].boot = b
         \/ /\ thread[byBoot[b]].at = "ENLISTED"
            /\ asked[byBoot[b]].kind = "REGISTER_WORKER"

\* An attempt is remembered once, and as long as it is, a request of it that was
\* applied is either replayed or in conflict.
MemoryAgrees ==
  /\ Len(attempts) <= Remembered
  /\ \A i, j \in DOMAIN attempts : attempts[i].attempt = attempts[j].attempt => i = j
  /\ \A r \in Requests : executed[r] > forgotten[r.attempt] =>
       \E i \in DOMAIN attempts :
         /\ attempts[i].attempt = r.attempt
         /\ attempts[i] = Entry(r) \/ attempts[i].kind # "DISPATCH_STEP"

\* What the threads rely on of each other: every live boot has a session that
\* will fence it, the index leads to the session of a boot, and an attempt is
\* remembered while it may be repeated.
SessionInvariant ==
  /\ TypeOK
  /\ \A p \in DOMAIN workers : PublisherOf[workers[p].boot] = p
  /\ SessionsAgree
  /\ LiveBootIsHeld
  /\ IndexNamesItsBoot /\ IndexAgrees
  /\ MemoryAgrees

\* A boot that is fenced, after its request was received or before, has nothing
\* applied (README.md, 380-384).
FencedDoNothing ==
  [][\A r \in Requests : executed'[r] > executed[r] => r.boot \notin fenced]_vars

\* A boot is live although all its connections are gone.
Orphaned ==
  \E b \in Boots :
    Live(b) /\ \A c \in Connections : owner[c] = b => link[c] = "DOWN"

\* When the last connection of a boot is gone, the boot does not stay live
\* (README.md, 380-382).
SessionLossFences == Orphaned ~> ~Orphaned
=============================================================================
