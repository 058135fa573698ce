--------------------- MODULE CoordinatorSessionsProofs ---------------------
(***************************************************************************)
(* What holds of CoordinatorSessions for any number of connections, boots, *)
(* requests and any size of the memory of attempts.                        *)
(***************************************************************************)
EXTENDS CoordinatorSessions, SequenceTheorems, TLAPS

Memo == {Entry(r) : r \in Requests}

----------------------------------------------------------------------------
\* Attempt memory

LEMMA EntryFields ==
  ASSUME NEW r
  PROVE  /\ Entry(r).attempt = r.attempt
         /\ Entry(r).kind = r.kind
         /\ Entry(r).target = r.target
BY DEF Entry

\* What recording an attempt leaves in memory: the new entry, once, and of the
\* others what was there, in a memory that is not larger than its bound.
LEMMA RecordKeeps ==
  ASSUME TypeOK, MemoryAgrees, NEW r \in Requests
  PROVE  /\ Record(r) \in Seq(Memo)
         /\ Len(Record(r)) <= Remembered
         /\ \A i, j \in DOMAIN Record(r) :
              Record(r)[i].attempt = Record(r)[j].attempt => i = j
         /\ \E i \in DOMAIN Record(r) : Record(r)[i] = Entry(r)
         /\ \A i \in DOMAIN Record(r) :
              Record(r)[i].attempt # r.attempt =>
                \E j \in DOMAIN attempts : Record(r)[i] = attempts[j]
<1>1. attempts \in Seq(Memo) /\ Entry(r) \in Memo /\ Remembered \in Nat \ {0}
  BY BoundAssumption DEF TypeOK, Memo
<1>2. /\ Len(attempts) \in Nat /\ DOMAIN attempts = 1 .. Len(attempts)
      /\ Len(attempts) <= Remembered
      /\ \A i, j \in DOMAIN attempts : attempts[i].attempt = attempts[j].attempt => i = j
  BY <1>1, LenProperties DEF MemoryAgrees
<1>3. CASE \E i \in DOMAIN attempts : attempts[i].attempt = r.attempt
  <2>1. PICK k \in DOMAIN attempts : attempts[k].attempt = r.attempt
    BY <1>3
  <2>2. Record(r) = [attempts EXCEPT ![k] = Entry(r)]
    BY <1>2, <1>3, <2>1 DEF Record
  <2>3. /\ Record(r) \in Seq(Memo)
        /\ Len(Record(r)) = Len(attempts)
        /\ DOMAIN Record(r) = DOMAIN attempts
        /\ \A j \in DOMAIN attempts :
             Record(r)[j] = IF j = k THEN Entry(r) ELSE attempts[j]
    BY <1>1, <1>2, <2>1, <2>2, ExceptSeq
  <2> QED
    BY <1>2, <2>1, <2>3, EntryFields
<1>4. CASE ~ \E i \in DOMAIN attempts : attempts[i].attempt = r.attempt
  <2> DEFINE all == Append(attempts, Entry(r))
  <2>1. /\ all \in Seq(Memo) /\ Len(all) = Len(attempts) + 1
        /\ DOMAIN all = 1 .. Len(attempts) + 1
        /\ \A i \in 1 .. Len(attempts) : all[i] = attempts[i]
        /\ all[Len(attempts) + 1] = Entry(r)
    BY <1>1, <1>2, AppendProperties
  <2> HIDE DEF all
  <2>2. CASE Len(attempts) + 1 > Remembered
    <3>1. Record(r) = Tail(all) /\ all # <<>>
      BY <1>2, <1>4, <2>1, <2>2 DEF Record, all
    <3>2. /\ Record(r) \in Seq(Memo)
          /\ Len(Record(r)) = Len(attempts)
          /\ \A i \in 1 .. Len(attempts) : Record(r)[i] = all[i + 1]
      BY <1>2, <2>1, <3>1, HeadTailProperties
    <3>3. DOMAIN Record(r) = 1 .. Len(attempts)
      BY <3>2, LenProperties
    <3>4. Len(attempts) \in DOMAIN Record(r) /\ Record(r)[Len(attempts)] = Entry(r)
      BY <1>1, <1>2, <2>1, <2>2, <3>2, <3>3
    <3>5. \A i \in DOMAIN Record(r) :
            \/ i = Len(attempts)
            \/ i + 1 \in DOMAIN attempts /\ Record(r)[i] = attempts[i + 1]
      BY <1>2, <2>1, <3>2, <3>3
    <3>6. \A i, j \in DOMAIN Record(r) :
            Record(r)[i].attempt = Record(r)[j].attempt => i = j
      <4> SUFFICES ASSUME NEW i \in DOMAIN Record(r), NEW j \in DOMAIN Record(r),
                          Record(r)[i].attempt = Record(r)[j].attempt
                   PROVE  i = j
        OBVIOUS
      <4>1. i \in Nat /\ j \in Nat
        BY <1>2, <3>3
      <4>2. CASE i # Len(attempts) /\ j # Len(attempts)
        <5>1. i + 1 = j + 1
          BY <1>2, <3>5, <4>2
        <5> QED
          BY <4>1, <5>1
      <4>3. CASE i = Len(attempts) /\ j # Len(attempts)
        BY <1>4, <3>4, <3>5, <4>3, EntryFields
      <4>4. CASE i # Len(attempts) /\ j = Len(attempts)
        BY <1>4, <3>4, <3>5, <4>4, EntryFields
      <4> QED
        BY <4>2, <4>3, <4>4
    <3>7. \A i \in DOMAIN Record(r) :
            Record(r)[i].attempt # r.attempt =>
              \E j \in DOMAIN attempts : Record(r)[i] = attempts[j]
      BY <3>4, <3>5, EntryFields
    <3> QED
      BY <1>2, <3>2, <3>4, <3>6, <3>7
  <2>3. CASE ~(Len(attempts) + 1 > Remembered)
    <3>1. Record(r) = all
      BY <1>4, <2>1, <2>3 DEF Record, all
    <3>2. \A i \in DOMAIN Record(r) :
            \/ i = Len(attempts) + 1
            \/ i \in DOMAIN attempts /\ Record(r)[i] = attempts[i]
      BY <1>2, <2>1, <3>1
    <3> QED
      BY <1>1, <1>2, <1>4, <2>1, <2>3, <3>1, <3>2, EntryFields
  <2> QED
    BY <2>2, <2>3
<1> QED
  BY <1>3, <1>4

\* The number of times an attempt was forgotten counts what leaves the memory.
LEMMA Forgetting ==
  ASSUME TypeOK, NEW memory, Remember(memory)
  PROVE  /\ forgotten' \in [Attempts -> Nat]
         /\ \A r \in Requests : forgotten'[r.attempt] >= forgotten[r.attempt]
         /\ \A r \in Requests :
              /\ \E i \in DOMAIN attempts : attempts[i].attempt = r.attempt
              /\ ~ \E i \in DOMAIN memory : memory[i].attempt = r.attempt
              => forgotten'[r.attempt] = forgotten[r.attempt] + 1
<1> DEFINE
      Drops(a) == /\ \E e \in ToSet(attempts) : e.attempt = a
                  /\ \A e \in ToSet(memory) : e.attempt # a
<1>1. forgotten' = [a \in Attempts |-> forgotten[a] + (IF Drops(a) THEN 1 ELSE 0)]
  BY DEF Remember
<1> HIDE DEF Drops
<1>2. forgotten \in [Attempts -> Nat]
  BY DEF TypeOK
<1>3. \A r \in Requests : r.attempt \in Attempts
  BY DEF Attempts
<1>4. ASSUME NEW r \in Requests,
             \E i \in DOMAIN attempts : attempts[i].attempt = r.attempt,
             ~ \E i \in DOMAIN memory : memory[i].attempt = r.attempt
      PROVE  Drops(r.attempt)
  BY <1>4 DEF Drops, ToSet
<1> QED
  BY <1>1, <1>2, <1>3, <1>4

\* A request that was applied and whose attempt was not forgotten since is not
\* applied again.
LEMMA AppliedRepeats ==
  ASSUME MemoryAgrees, NEW r \in Requests, executed[r] > forgotten[r.attempt]
  PROVE  Replays(r) \/ Conflicts(r)
<1>1. PICK i \in DOMAIN attempts :
        /\ attempts[i].attempt = r.attempt
        /\ attempts[i] = Entry(r) \/ attempts[i].kind # "DISPATCH_STEP"
  BY DEF MemoryAgrees
<1>2. attempts[i] \in ToSet(attempts)
  BY DEF ToSet
<1> QED
  BY <1>1, <1>2 DEF Replays, Conflicts

\* What an operation on the memory keeps.
MemorySafe ==
  /\ MemoryAgrees /\ AtMostOnce
  /\ attempts \in Seq(Memo)
  /\ executed \in [Requests -> Nat] /\ forgotten \in [Attempts -> Nat]

\* A request that is neither replayed nor in conflict is recorded, and applied at
\* most once more.
LEMMA RecordStep ==
  ASSUME TypeOK, MemorySafe, NEW r \in Requests, ~Conflicts(r), ~Replays(r),
         Remember(Record(r)),
         executed' = executed \/ executed' = [executed EXCEPT ![r] = @ + 1]
  PROVE  MemorySafe'
<1> DEFINE memory == Record(r)
<1>1. /\ memory \in Seq(Memo)
      /\ Len(memory) <= Remembered
      /\ \A i, j \in DOMAIN memory : memory[i].attempt = memory[j].attempt => i = j
      /\ \E i \in DOMAIN memory : memory[i] = Entry(r)
      /\ \A i \in DOMAIN memory :
           memory[i].attempt # r.attempt => \E j \in DOMAIN attempts : memory[i] = attempts[j]
  BY RecordKeeps DEF MemorySafe
<1>2. attempts' = memory
  BY DEF Remember
<1>3. /\ forgotten' \in [Attempts -> Nat]
      /\ \A q \in Requests : forgotten'[q.attempt] >= forgotten[q.attempt]
      /\ \A q \in Requests :
           /\ \E i \in DOMAIN attempts : attempts[i].attempt = q.attempt
           /\ ~ \E i \in DOMAIN memory : memory[i].attempt = q.attempt
           => forgotten'[q.attempt] = forgotten[q.attempt] + 1
  BY Forgetting
<1> HIDE DEF memory
<1>4. /\ executed' \in [Requests -> Nat]
      /\ executed'[r] \in {executed[r], executed[r] + 1}
      /\ \A q \in Requests : q # r => executed'[q] = executed[q]
  BY DEF MemorySafe
<1>5. \A q \in Requests : /\ q.attempt \in Attempts
                         /\ executed[q] \in Nat /\ executed'[q] \in Nat
                         /\ forgotten[q.attempt] \in Nat
                         /\ forgotten'[q.attempt] \in Nat
                         /\ executed[q] <= 1 + forgotten[q.attempt]
  BY <1>3, <1>4 DEF MemorySafe, AtMostOnce, Attempts
<1>6. executed[r] <= forgotten[r.attempt]
  BY <1>5, AppliedRepeats DEF MemorySafe
<1>7. AtMostOnce'
  <2> SUFFICES ASSUME NEW q \in Requests
               PROVE  executed'[q] <= 1 + forgotten'[q.attempt]
    BY DEF AtMostOnce
  <2> QED
    BY <1>3, <1>4, <1>5, <1>6
<1>8. ASSUME NEW q \in Requests, executed'[q] > forgotten'[q.attempt]
      PROVE  \E i \in DOMAIN memory :
               /\ memory[i].attempt = q.attempt
               /\ memory[i] = Entry(q) \/ memory[i].kind # "DISPATCH_STEP"
  <2>1. ASSUME q # r
        PROVE  \E j \in DOMAIN attempts :
                 /\ attempts[j].attempt = q.attempt
                 /\ attempts[j] = Entry(q) \/ attempts[j].kind # "DISPATCH_STEP"
    <3>1. executed[q] > forgotten[q.attempt]
      BY <1>3, <1>4, <1>5, <1>8, <2>1
    <3> QED
      BY <3>1 DEF MemorySafe, MemoryAgrees
  <2>2. CASE q.attempt = r.attempt
    <3>1. PICK i \in DOMAIN memory : memory[i] = Entry(r)
      BY <1>1
    <3>2. CASE q = r \/ r.kind # "DISPATCH_STEP"
      BY <2>2, <3>1, <3>2, EntryFields
    <3>3. CASE q # r /\ r.kind = "DISPATCH_STEP"
      <4>1. PICK j \in DOMAIN attempts :
              /\ attempts[j].attempt = q.attempt
              /\ attempts[j] = Entry(q) \/ attempts[j].kind # "DISPATCH_STEP"
        BY <2>1, <3>3
      <4>2. attempts[j] \in ToSet(attempts)
        BY DEF ToSet
      <4>3. attempts[j].kind = "DISPATCH_STEP"
        BY <2>2, <3>3, <4>1, <4>2, EntryFields DEF Conflicts
      <4>4. q.kind = "DISPATCH_STEP" /\ q.target = r.target
        BY <2>2, <3>3, <4>1, <4>3, EntryFields, AttemptAssumption
      <4>5. Entry(q) = Entry(r)
        BY <2>2, <3>3, <4>4 DEF Entry
      <4> QED
        BY <2>2, <3>1, <4>5, EntryFields
    <3> QED
      BY <3>2, <3>3
  <2>3. CASE q.attempt # r.attempt
    <3>1. PICK j \in DOMAIN attempts :
            /\ attempts[j].attempt = q.attempt
            /\ attempts[j] = Entry(q) \/ attempts[j].kind # "DISPATCH_STEP"
      BY <2>1, <2>3
    <3>2. executed'[q] <= 1 + forgotten[q.attempt]
      BY <1>4, <1>5, <2>3
    <3>3. PICK i \in DOMAIN memory : memory[i].attempt = q.attempt
      BY <1>3, <1>5, <1>8, <3>1, <3>2
    <3>4. PICK k \in DOMAIN attempts : memory[i] = attempts[k]
      BY <1>1, <2>3, <3>3
    <3>5. k = j
      BY <3>1, <3>3, <3>4 DEF MemorySafe, MemoryAgrees
    <3> QED
      BY <3>1, <3>3, <3>4, <3>5
  <2> QED
    BY <2>2, <2>3
<1>9. MemoryAgrees'
  BY <1>1, <1>2, <1>8 DEF MemoryAgrees
<1> QED
  BY <1>1, <1>2, <1>3, <1>4, <1>7, <1>9 DEF MemorySafe

\* An end of the coordinator forgets every attempt.
LEMMA ForgetAllStep ==
  ASSUME TypeOK, MemorySafe, Remember(<<>>), UNCHANGED executed
  PROVE  MemorySafe'
<1>1. attempts' = <<>> /\ <<>> \in Seq(Memo) /\ Len(<<>>) = 0 /\ DOMAIN <<>> = {}
  BY EmptySeq DEF Remember
<1>2. /\ forgotten' \in [Attempts -> Nat]
      /\ \A q \in Requests : forgotten'[q.attempt] >= forgotten[q.attempt]
      /\ \A q \in Requests :
           (\E i \in DOMAIN attempts : attempts[i].attempt = q.attempt)
             => forgotten'[q.attempt] = forgotten[q.attempt] + 1
  BY <1>1, Forgetting
<1>3. \A q \in Requests : /\ executed[q] \in Nat
                         /\ forgotten[q.attempt] \in Nat
                         /\ forgotten'[q.attempt] \in Nat
                         /\ executed[q] <= 1 + forgotten[q.attempt]
  BY <1>2 DEF MemorySafe, AtMostOnce, Attempts
<1>4. \A q \in Requests : executed'[q] <= forgotten'[q.attempt]
  <2> TAKE q \in Requests
  <2>1. CASE executed[q] <= forgotten[q.attempt]
    BY <1>2, <1>3, <2>1
  <2>2. CASE executed[q] > forgotten[q.attempt]
    <3>1. \E i \in DOMAIN attempts : attempts[i].attempt = q.attempt
      BY <2>2 DEF MemorySafe, MemoryAgrees
    <3> QED
      BY <1>2, <1>3, <3>1
  <2> QED
    BY <1>3, <2>1, <2>2
<1>5. AtMostOnce'
  BY <1>2, <1>3, <1>4 DEF AtMostOnce
<1>6. MemoryAgrees'
  <2>1. \A q \in Requests : ~(executed'[q] > forgotten'[q.attempt])
    BY <1>2, <1>3, <1>4
  <2> QED
    BY <1>1, <2>1, BoundAssumption DEF MemoryAgrees
<1> QED
  BY <1>1, <1>2, <1>5, <1>6 DEF MemorySafe

----------------------------------------------------------------------------
\* The inductive invariant, step by step

\* Only these actions reach the governor, with a request that is in dispatch.
LEMMA GovernorActions ==
  ASSUME Next
  PROVE  \/ UNCHANGED governor
         \/ \E c \in Connections : RegisterWorker(c) \/ Mutate(c) \/ FenceWorker(c)
         \/ \E c \in Connections : FenceSessionLoss(c)
         \/ Ended
BY DEF Next, Serve, Connect, Send, Drop, Receive, StopReceiving, LookUp, Enlist, Answer,
       Forget, Restart

LEMMA AskedInDispatch ==
  ASSUME TypeOK, SessionsAgree, NEW c \in Connections, InDispatch(c)
  PROVE  asked[c] \in Requests /\ asked[c].boot \in Boots /\ asked[c].target \in Boots
BY RequestAssumption DEF TypeOK, SessionsAgree

\* The memory and the counts of what was applied.
LEMMA MemoryStep ==
  ASSUME TypeOK, SessionsAgree, MemorySafe, [Next]_vars
  PROVE  MemorySafe'
<1>1. CASE UNCHANGED <<attempts, executed, forgotten>>
  BY <1>1 DEF MemorySafe, MemoryAgrees, AtMostOnce
<1>2. ASSUME NEW c \in Connections, RegisterWorker(c)
      PROVE  MemorySafe'
  <2>1. asked[c] \in Requests
    BY <1>2, AskedInDispatch DEF RegisterWorker, InDispatch
  <2> QED
    BY <1>1, <1>2, <2>1, RecordStep DEF RegisterWorker, governor
<1>3. ASSUME NEW c \in Connections, Mutate(c)
      PROVE  MemorySafe'
  <2>1. asked[c] \in Requests
    BY <1>3, AskedInDispatch DEF Mutate, InDispatch
  <2> QED
    BY <1>1, <1>3, <2>1, RecordStep DEF Mutate, governor
<1>4. ASSUME NEW c \in Connections, FenceWorker(c)
      PROVE  MemorySafe'
  <2>1. asked[c] \in Requests
    BY <1>4, AskedInDispatch DEF FenceWorker, InDispatch
  <2> QED
    BY <1>1, <1>4, <2>1, RecordStep DEF FenceWorker, governor
<1>5. CASE Ended
  BY <1>5, ForgetAllStep DEF Ended
<1>6. ASSUME NEW c \in Connections, FenceSessionLoss(c)
      PROVE  MemorySafe'
  BY <1>1, <1>6 DEF FenceSessionLoss
<1> QED
  BY <1>1, <1>2, <1>3, <1>4, <1>5, <1>6, GovernorActions DEF vars, governor

LEMMA EmptyFunction == DOMAIN <<>> = {} /\ \A S : <<>> \in [{} -> S]
<1>1. ASSUME NEW S
      PROVE  <<>> \in Seq(S) /\ Len(<<>>) = 0
  BY EmptySeq
<1>2. ASSUME NEW S
      PROVE  <<>> \in [1 .. 0 -> S] /\ DOMAIN <<>> = 1 .. 0
  BY <1>1, LenProperties
<1>3. 1 .. 0 = {}
  OBVIOUS
<1> QED
  BY <1>2, <1>3

\* The registry: each publisher has a record of a boot of its own.
RegistryTyped ==
  /\ workers \in [DOMAIN workers -> [boot : Boots, live : BOOLEAN]]
  /\ \A p \in DOMAIN workers : PublisherOf[workers[p].boot] = p
  /\ fenced \subseteq Boots

LEMMA RegisteredTyped ==
  ASSUME RegistryTyped, NEW b \in Boots,
         workers' = Registered(b, TRUE) \/ workers' = Unlive(b)
  PROVE  /\ workers' \in [DOMAIN workers' -> [boot : Boots, live : BOOLEAN]]
         /\ \A p \in DOMAIN workers' : PublisherOf[workers'[p].boot] = p
<1>1. CASE workers' = Registered(b, TRUE)
  <2>1. DOMAIN workers' = DOMAIN workers \cup {PublisherOf[b]}
    BY <1>1 DEF Registered
  <2>2. \A p \in DOMAIN workers' :
          workers'[p] = IF p = PublisherOf[b] THEN [boot |-> b, live |-> TRUE] ELSE workers[p]
    BY <1>1, <2>1 DEF Registered
  <2>3. workers' = [p \in DOMAIN workers' |-> workers'[p]]
    BY <1>1 DEF Registered
  <2>4. \A p \in DOMAIN workers :
          workers[p] \in [boot : Boots, live : BOOLEAN] /\ PublisherOf[workers[p].boot] = p
    BY DEF RegistryTyped
  <2>5. ASSUME NEW p \in DOMAIN workers'
        PROVE  workers'[p] \in [boot : Boots, live : BOOLEAN] /\ PublisherOf[workers'[p].boot] = p
    <3>1. CASE p = PublisherOf[b]
      <4>1. workers'[p] = [boot |-> b, live |-> TRUE]
        BY <2>2, <3>1
      <4>2. workers'[p].boot = b
        BY <4>1
      <4>3. workers'[p] \in [boot : Boots, live : BOOLEAN]
        BY <4>1
      <4> QED
        BY <3>1, <4>2, <4>3
    <3>2. CASE p # PublisherOf[b]
      BY <2>1, <2>2, <2>4, <3>2
    <3> QED
      BY <3>1, <3>2
  <2> QED
    BY <2>3, <2>5
<1>2. CASE workers' = Unlive(b)
  <2>1. \A p \in DOMAIN workers :
          /\ workers[p] \in [boot : Boots, live : BOOLEAN]
          /\ workers'[p] \in [boot : Boots, live : BOOLEAN]
          /\ workers'[p].boot = workers[p].boot
    BY <1>2 DEF RegistryTyped, Unlive
  <2>2. workers' = [p \in DOMAIN workers |-> workers'[p]]
    BY <1>2 DEF Unlive
  <2> QED
    BY <2>1, <2>2 DEF RegistryTyped
<1> QED
  BY <1>1, <1>2

LEMMA RegistryStep ==
  ASSUME TypeOK, SessionsAgree, RegistryTyped, [Next]_vars
  PROVE  RegistryTyped'
<1>1. CASE UNCHANGED <<workers, fenced>>
  BY <1>1 DEF RegistryTyped
<1>2. ASSUME NEW c \in Connections, RegisterWorker(c)
      PROVE  RegistryTyped'
  <2>1. asked[c].boot \in Boots
    BY <1>2, AskedInDispatch DEF RegisterWorker, InDispatch
  <2>2. CASE UNCHANGED governor
    BY <1>1, <2>2 DEF governor
  <2>3. CASE workers' = Registered(asked[c].boot, TRUE)
    <3>1. \A p \in DOMAIN workers : workers[p].boot \in Boots
      BY DEF RegistryTyped
    <3>2. fenced' \subseteq Boots
      BY <1>2, <3>1 DEF RegisterWorker, RegistryTyped, governor
    <3> QED
      BY <2>1, <2>3, <3>2, RegisteredTyped DEF RegistryTyped
  <2> QED
    BY <1>2, <2>2, <2>3 DEF RegisterWorker
<1>3. ASSUME NEW c \in Connections, FenceWorker(c)
      PROVE  RegistryTyped'
  <2>1. asked[c].target \in Boots
    BY <1>3, AskedInDispatch DEF FenceWorker, InDispatch
  <2>2. CASE UNCHANGED governor
    BY <1>1, <2>2 DEF governor
  <2>3. CASE workers' = Unlive(asked[c].target) /\ fenced' = fenced \cup {asked[c].target}
    BY <2>1, <2>3, RegisteredTyped DEF RegistryTyped
  <2> QED
    BY <1>3, <2>2, <2>3 DEF FenceWorker
<1>4. ASSUME NEW c \in Connections, FenceSessionLoss(c)
      PROVE  RegistryTyped'
  <2>1. thread[c].boot \in Boots \cup {None}
    BY DEF TypeOK
  <2>2. workers' = workers \/ (thread[c].boot \in Boots /\ workers' = Unlive(thread[c].boot))
    BY <1>4, <2>1 DEF FenceSessionLoss
  <2>3. fenced' = fenced
    BY <1>4 DEF FenceSessionLoss
  <2> QED
    BY <1>1, <2>2, <2>3, RegisteredTyped DEF RegistryTyped
<1>5. CASE Ended
  <2>1. workers' = <<>> /\ fenced' = {}
    BY <1>5 DEF Ended
  <2>2. DOMAIN <<>> = {} /\ \A S : <<>> \in [{} -> S]
    BY EmptyFunction
  <2> QED
    BY <2>1, <2>2 DEF RegistryTyped
<1>6. ASSUME NEW c \in Connections, Mutate(c)
      PROVE  RegistryTyped'
  BY <1>1, <1>6 DEF Mutate, governor
<1> QED
  BY <1>1, <1>2, <1>3, <1>4, <1>5, <1>6, GovernorActions DEF vars, governor

\* The clients and the threads, whatever the governor does.
ClientsTyped ==
  /\ link \in [Connections -> {"NONE", "UP", "DOWN"}]
  /\ owner \in [Connections -> Boots \cup {None}]
  /\ asked \in [Connections -> Requests \cup {None}]
  /\ sent \in 0 .. MaxRequests

Session ==
  [at : Place, boot : Boots \cup {None}, previous : Boots \cup {None}, accepted : BOOLEAN]

ThreadsTyped ==
  /\ thread \in [Connections -> Session]
  /\ current \in Connections \cup {None}
  /\ raced \in BOOLEAN

IndexTyped ==
  /\ DOMAIN byBoot \subseteq Boots
  /\ byBoot \in [DOMAIN byBoot -> Connections \cup {None}]

LEMMA ClientsStep ==
  ASSUME TypeOK, [Next]_vars
  PROVE  ClientsTyped'
<1> USE DEF TypeOK, ClientsTyped
<1>1. CASE UNCHANGED client
  BY <1>1 DEF client
<1>2. ASSUME NEW c \in Connections, NEW b \in Boots, Connect(c, b)
      PROVE  ClientsTyped'
  BY <1>2 DEF Connect
<1>3. ASSUME NEW c \in Connections, NEW r \in Requests, Send(c, r)
      PROVE  ClientsTyped'
  BY <1>3, BoundAssumption DEF Send
<1>4. ASSUME NEW c \in Connections, Drop(c)
      PROVE  ClientsTyped'
  BY <1>4 DEF Drop
<1>5. ASSUME NEW c \in Connections, Receive(c) \/ StopReceiving(c) \/ Answer(c)
      PROVE  ClientsTyped'
  BY <1>5 DEF Receive, StopReceiving, Answer
<1>6. ASSUME NEW c \in Connections, FenceSessionLoss(c)
      PROVE  ClientsTyped'
  BY <1>6 DEF FenceSessionLoss
<1>7. CASE Ended
  BY <1>7 DEF Ended
<1>8. ASSUME NEW c \in Connections,
             \/ LookUp(c) \/ RegisterWorker(c) \/ Mutate(c) \/ FenceWorker(c)
             \/ Enlist(c) \/ Forget(c)
      PROVE  ClientsTyped'
  BY <1>1, <1>7, <1>8
     DEF LookUp, RegisterWorker, Mutate, FenceWorker, Enlist, Forget
<1>9. CASE UNCHANGED vars
  BY <1>1, <1>9 DEF vars
<1> QED
  BY <1>2, <1>3, <1>4, <1>5, <1>6, <1>7, <1>8, <1>9 DEF Next, Serve, Restart

\* What the actions make of a session's thread: where it is, and its boot.
Becomes(c, at, boot) ==
  /\ thread' \in [Connections -> Session]
  /\ thread'[c].at = at /\ thread'[c].boot = boot
  /\ \A d \in Connections \ {c} : thread'[d] = thread[d]

LEMMA ThreadBecomes ==
  ASSUME TypeOK, SessionsAgree, RegistryTyped, NEW c \in Connections
  PROVE  /\ \A place \in Place : Moves(c, place) => Becomes(c, place, thread[c].boot)
         /\ \A b \in Boots : Connect(c, b) => Becomes(c, "WAITING", thread[c].boot)
         /\ LookUp(c) => Becomes(c, "LOOKED", thread[c].boot)
         /\ RegisterWorker(c) \/ Mutate(c) \/ FenceWorker(c)
              => Becomes(c, "APPLIED", thread[c].boot)
         /\ Answer(c) => \E place \in {"WAITING", "LEAVING"} : Becomes(c, place, SessionBoot(c))
         /\ FenceSessionLoss(c) => Becomes(c, "CLOSED", None)
<1>1. thread \in [Connections -> Session] /\ thread[c] \in Session
  BY DEF TypeOK, Session
<1>2. ASSUME NEW t \in Session, thread' = [thread EXCEPT ![c] = t],
             NEW at, NEW boot, t.at = at, t.boot = boot
      PROVE  Becomes(c, at, boot)
  BY <1>1, <1>2 DEF Becomes
<1>3. ASSUME NEW place \in Place, Moves(c, place)
      PROVE  Becomes(c, place, thread[c].boot)
  <2> DEFINE t == [thread[c] EXCEPT !.at = place]
  <2>1. thread' = [thread EXCEPT ![c] = t]
    BY <1>3 DEF Moves
  <2>2. t \in Session /\ t.at = place /\ t.boot = thread[c].boot
    BY <1>1 DEF Session
  <2> HIDE DEF t
  <2> QED
    BY <1>2, <2>1, <2>2
<1>4. ASSUME NEW b \in Boots, Connect(c, b)
      PROVE  Becomes(c, "WAITING", thread[c].boot)
  BY <1>3, <1>4 DEF Connect, Moves, Place
<1>5. ASSUME LookUp(c)
      PROVE  Becomes(c, "LOOKED", thread[c].boot)
  <2>1. \A p \in DOMAIN workers : workers[p].boot \in Boots
    BY DEF RegistryTyped
  <2>2. PICK previous \in Boots \cup {None} :
          thread' = [thread EXCEPT ![c] =
                       [thread[c] EXCEPT !.at = "LOOKED", !.previous = previous]]
    BY <1>5, <2>1 DEF LookUp
  <2> DEFINE t == [thread[c] EXCEPT !.at = "LOOKED", !.previous = previous]
  <2>3. t \in Session /\ t.at = "LOOKED" /\ t.boot = thread[c].boot
    BY <1>1 DEF Session, Place
  <2>4. thread' = [thread EXCEPT ![c] = t]
    BY <2>2
  <2> HIDE DEF t
  <2> QED
    BY <1>2, <2>3, <2>4
<1>6. ASSUME NEW accepted \in BOOLEAN, Applied(c, accepted)
      PROVE  Becomes(c, "APPLIED", thread[c].boot)
  <2> DEFINE t == [thread[c] EXCEPT !.at = "APPLIED", !.accepted = accepted]
  <2>1. thread' = [thread EXCEPT ![c] = t]
    BY <1>6 DEF Applied
  <2>2. t \in Session /\ t.at = "APPLIED" /\ t.boot = thread[c].boot
    BY <1>1 DEF Session, Place
  <2> HIDE DEF t
  <2> QED
    BY <1>2, <2>1, <2>2
<1>7. ASSUME RegisterWorker(c) \/ Mutate(c) \/ FenceWorker(c)
      PROVE  Becomes(c, "APPLIED", thread[c].boot)
  BY <1>6, <1>7 DEF RegisterWorker, Mutate, FenceWorker
<1>8. ASSUME Answer(c)
      PROVE  \E place \in {"WAITING", "LEAVING"} : Becomes(c, place, SessionBoot(c))
  <2>1. SessionBoot(c) \in Boots \cup {None}
    BY <1>1, <1>8, AskedInDispatch DEF Answer, SessionBoot, InDispatch, Session
  <2>2. PICK place \in {"WAITING", "LEAVING"} :
          thread' = [thread EXCEPT ![c] =
                       [thread[c] EXCEPT !.at = place, !.boot = SessionBoot(c),
                                         !.previous = None, !.accepted = FALSE]]
    BY <1>8 DEF Answer
  <2> DEFINE boot == SessionBoot(c)
             t == [thread[c] EXCEPT !.at = place, !.boot = boot, !.previous = None,
                                    !.accepted = FALSE]
  <2>3. thread' = [thread EXCEPT ![c] = t]
    BY <2>2
  <2> HIDE DEF boot
  <2>4. t \in Session /\ t.at = place /\ t.boot = boot
    BY <1>1, <2>1 DEF Session, Place, boot
  <2> HIDE DEF t
  <2>5. Becomes(c, place, boot)
    BY <1>2, <2>3, <2>4
  <2> QED
    BY <2>5 DEF boot
<1>9. ASSUME FenceSessionLoss(c)
      PROVE  Becomes(c, "CLOSED", None)
  <2> DEFINE t == [thread[c] EXCEPT !.at = "CLOSED", !.boot = None]
  <2>1. thread' = [thread EXCEPT ![c] = t]
    BY <1>9 DEF FenceSessionLoss
  <2>2. t \in Session /\ t.at = "CLOSED" /\ t.boot = None
    BY <1>1 DEF Session, Place
  <2> HIDE DEF t
  <2> QED
    BY <1>2, <2>1, <2>2
<1> QED
  BY <1>3, <1>4, <1>5, <1>7, <1>8, <1>9

\* The end of the coordinator closes every session there is.
LEMMA EndedBecomes ==
  ASSUME TypeOK, Ended
  PROVE  /\ thread' \in [Connections -> Session]
         /\ \A c \in Connections :
              IF link[c] = "NONE" THEN thread'[c] = thread[c]
              ELSE thread'[c].at = "CLOSED" /\ thread'[c].boot = None
<1>1. thread \in [Connections -> Session] /\ "CLOSED" \in Place
  BY DEF TypeOK, Session, Place
<1>2. ASSUME NEW c \in Connections
      PROVE  /\ thread'[c] \in Session
             /\ IF link[c] = "NONE" THEN thread'[c] = thread[c]
                ELSE thread'[c].at = "CLOSED" /\ thread'[c].boot = None
  <2> DEFINE t == [thread[c] EXCEPT !.at = "CLOSED", !.boot = None, !.previous = None,
                                    !.accepted = FALSE]
  <2>1. thread'[c] = IF link[c] = "NONE" THEN thread[c] ELSE t
    BY DEF Ended
  <2>2. t \in Session /\ t.at = "CLOSED" /\ t.boot = None
    BY <1>1 DEF Session
  <2>3. thread[c] \in Session
    BY <1>1
  <2> HIDE DEF t
  <2> QED
    BY <2>1, <2>2, <2>3
<1>3. thread' = [c \in Connections |-> thread'[c]]
  BY DEF Ended
<1> QED
  BY <1>2, <1>3

LEMMA ThreadsStep ==
  ASSUME TypeOK, SessionsAgree, RegistryTyped, [Next]_vars
  PROVE  ThreadsTyped'
<1> USE DEF ThreadsTyped
<1>0. /\ thread \in [Connections -> Session] /\ current \in Connections \cup {None}
      /\ raced \in BOOLEAN
      /\ {"WAITING", "POSTED", "LEAVING", "ENLISTED", "FORGOTTEN"} \subseteq Place
  BY DEF TypeOK, Session, Place
<1>1. CASE UNCHANGED server
  BY <1>0, <1>1 DEF server
<1>2. ASSUME NEW c \in Connections, NEW b \in Boots, Connect(c, b)
      PROVE  ThreadsTyped'
  BY <1>0, <1>2, ThreadBecomes DEF Connect, Becomes
<1>3. ASSUME NEW c \in Connections, Receive(c) \/ StopReceiving(c)
      PROVE  ThreadsTyped'
  BY <1>0, <1>3, ThreadBecomes DEF Receive, StopReceiving, Becomes
<1>4. ASSUME NEW c \in Connections,
             LookUp(c) \/ RegisterWorker(c) \/ Mutate(c) \/ FenceWorker(c)
      PROVE  ThreadsTyped'
  BY <1>0, <1>4, ThreadBecomes DEF LookUp, RegisterWorker, Mutate, FenceWorker, Becomes
<1>5. CASE Ended
  BY <1>0, <1>5, EndedBecomes DEF Ended
<1>6. ASSUME NEW c \in Connections, Enlist(c)
      PROVE  ThreadsTyped'
  BY <1>0, <1>5, <1>6, ThreadBecomes DEF Enlist, Becomes
<1>7. ASSUME NEW c \in Connections, Answer(c) \/ Forget(c) \/ FenceSessionLoss(c)
      PROVE  ThreadsTyped'
  BY <1>0, <1>7, ThreadBecomes DEF Answer, Forget, FenceSessionLoss, Becomes
<1> QED
  BY <1>1, <1>2, <1>3, <1>4, <1>5, <1>6, <1>7
     DEF Next, Serve, Restart, vars, Send, Drop

LEMMA IndexTypeStep ==
  ASSUME TypeOK, SessionsAgree, [Next]_vars
  PROVE  IndexTyped'
<1> USE DEF TypeOK, IndexTyped
<1>1. CASE UNCHANGED byBoot
  BY <1>1
<1>2. CASE Ended
  BY <1>2, EmptyFunction DEF Ended
<1>3. ASSUME NEW c \in Connections, Enlist(c)
      PROVE  IndexTyped'
  <2> DEFINE b == asked[c].boot
             whom == IF asked[c].kind = "FENCE_WORKER" THEN asked[c].target
                     ELSE thread[c].previous
             rest == Without(whom)
  <2>1. b \in Boots
    BY <1>3, AskedInDispatch DEF Enlist, InDispatch
  <2>2. DOMAIN rest \subseteq Boots /\ rest \in [DOMAIN rest -> Connections \cup {None}]
    BY DEF Without
  <2>3. \/ Ended
        \/ byBoot' = rest
        \/ byBoot' = [x \in DOMAIN rest \cup {b} |-> IF x = b THEN current ELSE rest[x]]
    BY <1>3 DEF Enlist
  <2>4. current \in Connections \cup {None}
    OBVIOUS
  <2> HIDE DEF b, rest
  <2> QED
    BY <1>2, <2>1, <2>2, <2>3, <2>4
<1>4. ASSUME NEW c \in Connections, Forget(c)
      PROVE  IndexTyped'
  BY <1>4 DEF Forget, Forgotten, Without
<1> QED
  BY <1>1, <1>2, <1>3, <1>4
     DEF Next, Serve, Restart, vars, server, Connect, Send, Drop, Receive, StopReceiving,
         LookUp, RegisterWorker, Mutate, FenceWorker, Answer, FenceSessionLoss
LEMMA TypeStep ==
  ASSUME TypeOK, SessionsAgree, RegistryTyped, MemorySafe, [Next]_vars
  PROVE  TypeOK'
<1>1. ClientsTyped' /\ ThreadsTyped' /\ IndexTyped' /\ RegistryTyped' /\ MemorySafe'
  BY ClientsStep, ThreadsStep, IndexTypeStep, RegistryStep, MemoryStep
<1> QED
  BY <1>1 DEF TypeOK, ClientsTyped, ThreadsTyped, Session, IndexTyped, RegistryTyped,
              MemorySafe, Memo

----------------------------------------------------------------------------
\* What the sessions know of each other

\* The sessions of the other connections do not change.
Others(c) ==
  \A d \in Connections \ {c} :
    /\ link'[d] = link[d] /\ owner'[d] = owner[d] /\ asked'[d] = asked[d]
    /\ thread'[d] = thread[d]

\* Of one session, what SessionsAgree says.
Agrees(c) ==
  /\ link[c] = "NONE" => /\ thread[c].at = "NONE" /\ thread[c].boot = None
                         /\ owner[c] = None /\ asked[c] = None
  /\ thread[c].at = "NONE" => link[c] = "NONE"
  /\ asked[c] # None => asked[c].boot = owner[c]
  /\ thread[c].boot \in {None, owner[c]}
  /\ InDispatch(c) => asked[c] # None
  /\ thread[c].at = "LOOKED" => asked[c].kind = "REGISTER_WORKER"

LEMMA AgreesAll == SessionsAgree <=> \A c \in Connections : Agrees(c)
BY DEF SessionsAgree, Agrees

LEMMA OthersAgree ==
  ASSUME SessionsAgree, NEW c \in Connections, Others(c), Agrees(c)'
  PROVE  SessionsAgree'
<1>1. ASSUME NEW d \in Connections
      PROVE  Agrees(d)'
  <2>1. CASE d = c
    BY <2>1
  <2>2. CASE d # c
    <3>1. Agrees(d)
      BY AgreesAll
    <3> QED
      BY <2>2, <3>1 DEF Others, Agrees, InDispatch
  <2> QED
    BY <2>1, <2>2
<1> QED
  BY <1>1 DEF SessionsAgree, Agrees

LEMMA SessionsStep ==
  ASSUME TypeOK, SessionsAgree, RegistryTyped, [Next]_vars
  PROVE  SessionsAgree'
<1>0. /\ {"WAITING", "POSTED", "LEAVING", "ENLISTED", "FORGOTTEN"} \subseteq Place
      /\ \A c \in Connections : Agrees(c)
  BY AgreesAll DEF Place
<1>1. CASE UNCHANGED <<link, owner, asked, thread>>
  BY <1>1 DEF SessionsAgree, InDispatch
<1>2. ASSUME NEW c \in Connections, NEW b \in Boots, Connect(c, b)
      PROVE  SessionsAgree'
  <2>1. Becomes(c, "WAITING", thread[c].boot)
    BY <1>2, ThreadBecomes
  <2>2. Others(c)
    BY <1>2, <2>1 DEF Connect, Others, Becomes, TypeOK
  <2>3. /\ link'[c] = "UP" /\ owner'[c] = b /\ asked'[c] = None
        /\ thread'[c].at = "WAITING" /\ thread'[c].boot = None
    BY <1>0, <1>2, <2>1 DEF Connect, Becomes, Agrees, TypeOK
  <2>4. Agrees(c)'
    BY <2>3 DEF Agrees, InDispatch
  <2> QED
    BY <2>2, <2>4, OthersAgree
<1>3. ASSUME NEW c \in Connections, NEW r \in Requests, Send(c, r)
      PROVE  SessionsAgree'
  <2>1. Others(c) /\ asked'[c] = r /\ thread' = thread /\ owner' = owner /\ link' = link
    BY <1>3 DEF Send, Others, TypeOK, server
  <2>2. Agrees(c)'
    BY <1>0, <1>3, <2>1 DEF Send, Agrees, InDispatch
  <2> QED
    BY <2>1, <2>2, OthersAgree
<1>4. ASSUME NEW c \in Connections, Drop(c)
      PROVE  SessionsAgree'
  <2>1. /\ Others(c) /\ link'[c] = "DOWN"
        /\ asked' = asked /\ thread' = thread /\ owner' = owner
    BY <1>4 DEF Drop, Others, TypeOK, server
  <2>2. Agrees(c)'
    BY <1>0, <1>4, <2>1 DEF Drop, Agrees, InDispatch
  <2> QED
    BY <2>1, <2>2, OthersAgree
<1>5. ASSUME NEW c \in Connections, Receive(c)
      PROVE  SessionsAgree'
  <2>1. /\ \/ Becomes(c, "LEAVING", thread[c].boot) /\ asked' = [asked EXCEPT ![c] = None]
           \/ Becomes(c, "POSTED", thread[c].boot) /\ asked' = asked
        /\ link' = link /\ owner' = owner
    BY <1>0, <1>5, ThreadBecomes DEF Receive
  <2>2. Others(c)
    BY <2>1 DEF Others, Becomes, TypeOK
  <2>3. /\ thread'[c].boot = thread[c].boot
        /\ \/ thread'[c].at = "LEAVING" /\ asked'[c] = None
           \/ thread'[c].at = "POSTED" /\ asked'[c] = asked[c]
    BY <2>1 DEF Becomes, TypeOK
  <2>4. Agrees(c)'
    BY <1>0, <1>5, <2>1, <2>3 DEF Receive, Agrees, InDispatch
  <2> QED
    BY <2>2, <2>4, OthersAgree
<1>6. ASSUME NEW c \in Connections, StopReceiving(c)
      PROVE  SessionsAgree'
  <2>1. /\ Becomes(c, "LEAVING", thread[c].boot) /\ asked' = [asked EXCEPT ![c] = None]
        /\ link' = link /\ owner' = owner
    BY <1>0, <1>6, ThreadBecomes DEF StopReceiving
  <2>2. Others(c)
    BY <2>1 DEF Others, Becomes, TypeOK
  <2>3. thread'[c].boot = thread[c].boot /\ thread'[c].at = "LEAVING" /\ asked'[c] = None
    BY <2>1 DEF Becomes, TypeOK
  <2>4. Agrees(c)'
    BY <1>0, <1>6, <2>1, <2>3 DEF StopReceiving, Agrees, InDispatch
  <2> QED
    BY <2>2, <2>4, OthersAgree
<1>7. ASSUME NEW c \in Connections,
             LookUp(c) \/ RegisterWorker(c) \/ Mutate(c) \/ FenceWorker(c)
      PROVE  SessionsAgree'
  <2>1. /\ \/ Becomes(c, "LOOKED", thread[c].boot) /\ asked[c].kind = "REGISTER_WORKER"
           \/ Becomes(c, "APPLIED", thread[c].boot)
        /\ link' = link /\ owner' = owner /\ asked' = asked
        /\ InDispatch(c)
    BY <1>7, ThreadBecomes
       DEF LookUp, RegisterWorker, Mutate, FenceWorker, client, InDispatch
  <2>2. Others(c)
    BY <2>1 DEF Others, Becomes
  <2>3. /\ thread'[c].boot = thread[c].boot
        /\ \/ thread'[c].at = "LOOKED" /\ asked[c].kind = "REGISTER_WORKER"
           \/ thread'[c].at = "APPLIED"
    BY <2>1 DEF Becomes
  <2>4. Agrees(c)'
    BY <1>0, <2>1, <2>3 DEF Agrees, InDispatch
  <2> QED
    BY <2>2, <2>4, OthersAgree
<1>8. CASE Ended
  <2>1. ASSUME NEW c \in Connections
        PROVE  Agrees(c)'
    <3>1. /\ link'[c] = (IF link[c] = "NONE" THEN "NONE" ELSE "DOWN")
          /\ asked'[c] = None /\ owner'[c] = owner[c]
          /\ IF link[c] = "NONE" THEN thread'[c] = thread[c]
             ELSE thread'[c].at = "CLOSED" /\ thread'[c].boot = None
      BY <1>8, EndedBecomes DEF Ended
    <3> QED
      BY <1>0, <3>1 DEF Agrees, InDispatch
  <2> QED
    BY <2>1 DEF SessionsAgree, Agrees
<1>9. ASSUME NEW c \in Connections, Enlist(c), ~Ended
      PROVE  SessionsAgree'
  <2>1. /\ Becomes(c, "ENLISTED", thread[c].boot)
        /\ link' = link /\ owner' = owner /\ asked' = asked
        /\ InDispatch(c)
    BY <1>0, <1>9, ThreadBecomes DEF Enlist, client, InDispatch
  <2>2. Others(c) /\ thread'[c].boot = thread[c].boot /\ thread'[c].at = "ENLISTED"
    BY <2>1 DEF Others, Becomes
  <2>3. Agrees(c)'
    BY <1>0, <2>1, <2>2 DEF Agrees, InDispatch
  <2> QED
    BY <2>2, <2>3, OthersAgree
<1>10. ASSUME NEW c \in Connections, Answer(c)
       PROVE  SessionsAgree'
  <2>1. PICK place \in {"WAITING", "LEAVING"} : Becomes(c, place, SessionBoot(c))
    BY <1>10, ThreadBecomes
  <2>2. /\ InDispatch(c) /\ link' = link /\ owner' = owner
        /\ asked' = [asked EXCEPT ![c] = None]
    BY <1>10 DEF Answer, InDispatch
  <2>3. Others(c) /\ asked'[c] = None
    BY <2>1, <2>2 DEF Others, Becomes, TypeOK
  <2>4. SessionBoot(c) \in {None, owner[c]}
    BY <1>0, <2>2 DEF SessionBoot, Agrees
  <2>5. thread'[c].at = place /\ thread'[c].boot = SessionBoot(c)
    BY <2>1 DEF Becomes
  <2>6. Agrees(c)'
    BY <1>0, <2>2, <2>3, <2>4, <2>5 DEF Agrees, InDispatch
  <2> QED
    BY <2>3, <2>6, OthersAgree
<1>11. ASSUME NEW c \in Connections, Forget(c)
       PROVE  SessionsAgree'
  <2>1. /\ Becomes(c, "FORGOTTEN", thread[c].boot)
        /\ link' = link /\ owner' = owner /\ asked' = asked
    BY <1>0, <1>11, ThreadBecomes DEF Forget, client
  <2>2. Others(c) /\ thread'[c].boot = thread[c].boot /\ thread'[c].at = "FORGOTTEN"
    BY <2>1 DEF Others, Becomes
  <2>3. Agrees(c)'
    BY <1>0, <1>11, <2>1, <2>2 DEF Forget, Agrees, InDispatch
  <2> QED
    BY <2>2, <2>3, OthersAgree
<1>12. ASSUME NEW c \in Connections, FenceSessionLoss(c)
       PROVE  SessionsAgree'
  <2>1. /\ Becomes(c, "CLOSED", None)
        /\ link' = [link EXCEPT ![c] = "DOWN"] /\ owner' = owner /\ asked' = asked
    BY <1>12, ThreadBecomes DEF FenceSessionLoss
  <2>2. /\ Others(c) /\ thread'[c].boot = None /\ thread'[c].at = "CLOSED"
        /\ link'[c] = "DOWN"
    BY <2>1 DEF Others, Becomes, TypeOK
  <2>3. Agrees(c)'
    BY <1>0, <2>1, <2>2 DEF Agrees, InDispatch
  <2> QED
    BY <2>2, <2>3, OthersAgree
<1> QED
  BY <1>1, <1>2, <1>3, <1>4, <1>5, <1>6, <1>7, <1>8, <1>9, <1>10, <1>11, <1>12
     DEF Next, Serve, Restart, vars, client, server

----------------------------------------------------------------------------
\* Live boots

\* A session whose end will fence b, or which is registering it.
Holds(c, b) ==
  /\ owner[c] = b /\ thread[c].at \notin {"NONE", "CLOSED"}
  /\ thread[c].boot = b \/ (InDispatch(c) /\ asked[c].kind = "REGISTER_WORKER")

LEMMA UnliveIsNotLive ==
  ASSUME RegistryTyped, NEW b, NEW a, workers' = Unlive(a), fenced \subseteq fenced', Live(b)'
  PROVE  Live(b) /\ b # a
<1> DEFINE p == PublisherOf[b]
<1>1. /\ b \notin fenced /\ p \in DOMAIN workers
      /\ workers'[p] = [boot |-> b, live |-> TRUE]
      /\ workers'[p] = [workers[p] EXCEPT !.live = workers[p].live /\ workers[p].boot # a]
  BY DEF Live, Unlive
<1>2. workers[p] \in [boot : Boots, live : BOOLEAN]
  BY <1>1 DEF RegistryTyped
<1>3. workers'[p].boot = b /\ workers'[p].live = TRUE
  BY <1>1
<1>4. workers[p].boot = b /\ workers[p].live /\ workers[p].boot # a
  <2>1. workers'[p].boot = workers[p].boot
    BY <1>1, <1>2
  <2>2. workers'[p].live = (workers[p].live /\ workers[p].boot # a)
    BY <1>1, <1>2
  <2> QED
    BY <1>3, <2>1, <2>2
<1>5. workers[p] = [boot |-> b, live |-> TRUE]
  BY <1>2, <1>4
<1> QED
  BY <1>1, <1>4, <1>5 DEF Live

LEMMA RegisteredLive ==
  ASSUME RegistryTyped, NEW b, NEW a, workers' = Registered(a, TRUE),
         fenced \subseteq fenced', Live(b)', b # a
  PROVE  Live(b)
<1> DEFINE p == PublisherOf[b]
<1>1. /\ b \notin fenced /\ p \in DOMAIN workers \cup {PublisherOf[a]}
      /\ workers'[p] = [boot |-> b, live |-> TRUE]
      /\ workers'[p] = IF p = PublisherOf[a] THEN [boot |-> a, live |-> TRUE] ELSE workers[p]
  BY DEF Live, Registered
<1>2. p # PublisherOf[a]
  <2>1. [boot |-> b, live |-> TRUE].boot = b /\ [boot |-> a, live |-> TRUE].boot = a
    OBVIOUS
  <2> QED
    BY <1>1, <2>1
<1> QED
  BY <1>1, <1>2 DEF Live

\* Only a registration makes a boot live, and the thread that does it has its
\* request.
LEMMA BecomesLive ==
  ASSUME TypeOK, RegistryTyped, [Next]_vars, NEW b, Live(b)', ~Live(b)
  PROVE  \E c \in Connections : RegisterWorker(c) /\ asked[c].boot = b
<1>1. ASSUME UNCHANGED <<workers, fenced>>
      PROVE  FALSE
  BY <1>1 DEF Live
<1>2. ASSUME NEW c \in Connections, RegisterWorker(c)
      PROVE  asked[c].boot = b
  <2>1. CASE UNCHANGED governor
    BY <1>1, <2>1 DEF governor
  <2>2. CASE workers' = Registered(asked[c].boot, TRUE) /\ fenced \subseteq fenced'
    BY <2>2, RegisteredLive
  <2> QED
    BY <1>2, <2>1, <2>2 DEF RegisterWorker
<1>3. ASSUME NEW c \in Connections, Mutate(c)
      PROVE  FALSE
  BY <1>1, <1>3 DEF Mutate, governor
<1>4. ASSUME NEW c \in Connections, FenceWorker(c)
      PROVE  FALSE
  <2>1. CASE UNCHANGED governor
    BY <1>1, <2>1 DEF governor
  <2>2. CASE workers' = Unlive(asked[c].target) /\ fenced \subseteq fenced'
    BY <2>2, UnliveIsNotLive
  <2> QED
    BY <1>4, <2>1, <2>2 DEF FenceWorker
<1>5. ASSUME NEW c \in Connections, FenceSessionLoss(c)
      PROVE  FALSE
  <2>1. fenced' = fenced /\ (workers' = workers \/ workers' = Unlive(thread[c].boot))
    BY <1>5 DEF FenceSessionLoss
  <2> QED
    BY <1>1, <2>1, UnliveIsNotLive
<1>6. CASE Ended
  BY <1>6, EmptyFunction DEF Ended, Live
<1> QED
  BY <1>1, <1>2, <1>3, <1>4, <1>5, <1>6, GovernorActions DEF vars, governor

\* A session keeps hold of its boot until the boot is not live any more.
LEMMA HoldStep ==
  ASSUME TypeOK, SessionsAgree, RegistryTyped, [Next]_vars,
         NEW h \in Connections, NEW b \in Boots, Holds(h, b), Live(b)'
  PROVE  Holds(h, b)'
<1>0. /\ {"WAITING", "POSTED", "LEAVING", "ENLISTED", "FORGOTTEN"} \subseteq Place
      /\ \A c \in Connections : Agrees(c)
      /\ b # None
  BY AgreesAll, NoneAssumption DEF Place
<1>1. ASSUME UNCHANGED <<owner, asked>>, thread'[h] = thread[h]
      PROVE  Holds(h, b)'
  BY <1>1 DEF Holds, InDispatch
<1>2. ASSUME NEW c \in Connections, NEW x \in Boots, Connect(c, x)
      PROVE  Holds(h, b)'
  <2>1. c # h
    BY <1>0, <1>2 DEF Connect, Agrees, Holds
  <2>2. thread'[h] = thread[h] /\ owner'[h] = owner[h] /\ asked'[h] = asked[h]
    BY <1>2, <2>1, ThreadBecomes DEF Connect, Becomes, TypeOK
  <2> QED
    BY <2>2 DEF Holds, InDispatch
<1>3. ASSUME NEW c \in Connections, NEW r \in Requests, Send(c, r)
      PROVE  Holds(h, b)'
  <2>1. thread' = thread /\ owner' = owner /\ (c # h => asked'[h] = asked[h])
    BY <1>3 DEF Send, server, TypeOK
  <2>2. c = h => ~InDispatch(h)
    BY <1>0, <1>3 DEF Send, Agrees
  <2> QED
    BY <2>1, <2>2 DEF Holds, InDispatch
<1>4. ASSUME NEW c \in Connections, Drop(c)
      PROVE  Holds(h, b)'
  BY <1>1, <1>4 DEF Drop, server
<1>5. ASSUME NEW c \in Connections, Receive(c) \/ StopReceiving(c)
      PROVE  Holds(h, b)'
  <2>1. /\ \E place \in {"LEAVING", "POSTED"} : Becomes(c, place, thread[c].boot)
        /\ owner' = owner /\ (c # h => asked'[h] = asked[h])
        /\ ~InDispatch(c)
    BY <1>0, <1>5, ThreadBecomes DEF Receive, StopReceiving, TypeOK, InDispatch
  <2>2. /\ c = h => thread'[h].at \in {"LEAVING", "POSTED"} /\ thread'[h].boot = thread[h].boot
        /\ c # h => thread'[h] = thread[h]
    BY <2>1 DEF Becomes
  <2> QED
    BY <2>1, <2>2 DEF Holds, InDispatch
<1>6. ASSUME NEW c \in Connections,
             LookUp(c) \/ RegisterWorker(c) \/ Mutate(c) \/ FenceWorker(c)
      PROVE  Holds(h, b)'
  <2>1. /\ \E place \in {"LOOKED", "APPLIED"} : Becomes(c, place, thread[c].boot)
        /\ owner' = owner /\ asked' = asked
    BY <1>6, ThreadBecomes DEF LookUp, RegisterWorker, Mutate, FenceWorker, client
  <2>2. /\ c = h => thread'[h].at \in {"LOOKED", "APPLIED"} /\ thread'[h].boot = thread[h].boot
        /\ c # h => thread'[h] = thread[h]
    BY <2>1 DEF Becomes
  <2> QED
    BY <2>1, <2>2 DEF Holds, InDispatch
<1>7. CASE Ended
  BY <1>7, EmptyFunction DEF Ended, Live
<1>8. ASSUME NEW c \in Connections, Enlist(c), ~Ended
      PROVE  Holds(h, b)'
  <2>1. Becomes(c, "ENLISTED", thread[c].boot) /\ owner' = owner /\ asked' = asked
    BY <1>0, <1>8, ThreadBecomes DEF Enlist, client
  <2>2. /\ c = h => thread'[h].at = "ENLISTED" /\ thread'[h].boot = thread[h].boot
        /\ c # h => thread'[h] = thread[h]
    BY <2>1 DEF Becomes
  <2> QED
    BY <2>1, <2>2 DEF Holds, InDispatch
<1>9. ASSUME NEW c \in Connections, Answer(c)
      PROVE  Holds(h, b)'
  <2>1. PICK place \in {"WAITING", "LEAVING"} : Becomes(c, place, SessionBoot(c))
    BY <1>9, ThreadBecomes
  <2>2. owner' = owner /\ InDispatch(c) /\ (c # h => asked'[h] = asked[h])
    BY <1>9 DEF Answer, TypeOK, InDispatch
  <2>3. CASE c = h
    <3>1. thread'[h].at = place /\ thread'[h].boot = SessionBoot(h)
      BY <2>1, <2>3 DEF Becomes
    <3>2. SessionBoot(h) = b
      BY <1>0, <2>2, <2>3 DEF SessionBoot, Holds, Agrees
    <3> QED
      BY <2>2, <3>1, <3>2 DEF Holds
  <2>4. CASE c # h
    BY <2>1, <2>2, <2>4 DEF Becomes, Holds, InDispatch
  <2> QED
    BY <2>3, <2>4
<1>10. ASSUME NEW c \in Connections, Forget(c)
       PROVE  Holds(h, b)'
  <2>1. /\ Becomes(c, "FORGOTTEN", thread[c].boot) /\ owner' = owner /\ asked' = asked
        /\ ~InDispatch(c)
    BY <1>0, <1>10, ThreadBecomes DEF Forget, client, InDispatch
  <2>2. /\ c = h => thread'[h].at = "FORGOTTEN" /\ thread'[h].boot = thread[h].boot
        /\ c # h => thread'[h] = thread[h]
    BY <2>1 DEF Becomes
  <2> QED
    BY <2>1, <2>2 DEF Holds, InDispatch
<1>11. ASSUME NEW c \in Connections, FenceSessionLoss(c)
       PROVE  Holds(h, b)'
  <2>1. /\ Becomes(c, "CLOSED", None) /\ owner' = owner /\ asked' = asked
        /\ ~InDispatch(c) /\ fenced' = fenced
    BY <1>11, ThreadBecomes DEF FenceSessionLoss, InDispatch
  <2>2. c # h
    <3> SUFFICES ASSUME c = h
                 PROVE  FALSE
      OBVIOUS
    <3>1. thread[c].boot = b
      BY <2>1 DEF Holds
    <3>2. workers' = Unlive(b) \/ b \in fenced'
      BY <1>0, <1>11, <2>1, <3>1 DEF FenceSessionLoss
    <3>3. b \notin fenced'
      BY DEF Live
    <3> QED
      BY <2>1, <3>2, <3>3, UnliveIsNotLive
  <2> QED
    BY <2>1, <2>2 DEF Becomes, Holds, InDispatch
<1>12. CASE UNCHANGED vars
  BY <1>1, <1>12 DEF vars, client, server
<1> QED
  BY <1>2, <1>3, <1>4, <1>5, <1>6, <1>7, <1>8, <1>9, <1>10, <1>11, <1>12
     DEF Next, Serve, Restart

LEMMA LiveStep ==
  ASSUME TypeOK, SessionsAgree, RegistryTyped, LiveBootIsHeld, [Next]_vars
  PROVE  LiveBootIsHeld'
<1> SUFFICES ASSUME NEW b \in Boots, Live(b)'
             PROVE  \E c \in Connections : Holds(c, b)'
  BY DEF LiveBootIsHeld, Holds
<1>1. CASE Live(b)
  <2>1. \E c \in Connections : Holds(c, b)
    BY <1>1 DEF LiveBootIsHeld, Holds
  <2> QED
    BY <2>1, HoldStep
<1>2. CASE ~Live(b)
  <2>1. PICK c \in Connections : RegisterWorker(c) /\ asked[c].boot = b
    BY <1>2, BecomesLive
  <2>2. /\ Becomes(c, "APPLIED", thread[c].boot) /\ owner' = owner /\ asked' = asked
        /\ thread[c].at = "LOOKED"
    BY <2>1, ThreadBecomes DEF RegisterWorker, client
  <2>3. thread'[c].at = "APPLIED"
    BY <2>2 DEF Becomes
  <2>4. Agrees(c) /\ asked[c] # None
    BY <2>2, AgreesAll DEF Agrees, InDispatch
  <2>5. owner[c] = b /\ asked[c].kind = "REGISTER_WORKER"
    BY <2>1, <2>2, <2>4 DEF Agrees
  <2>6. Holds(c, b)'
    BY <2>2, <2>3, <2>5 DEF Holds, InDispatch
  <2> QED
    BY <2>6
<1> QED
  BY <1>1, <1>2

----------------------------------------------------------------------------
\* The index of fence notices

\* An entry of the index names an open session of its boot, which will take the
\* entry out again.
Enters(b) ==
  LET d == byBoot[b]
  IN /\ d # None /\ owner[d] = b
     /\ thread[d].at \notin {"FORGOTTEN", "CLOSED"}
     /\ \/ thread[d].boot = b
        \/ thread[d].at = "ENLISTED" /\ asked[d].kind = "REGISTER_WORKER"

Alone ==
  /\ \A c, d \in Connections : InDispatch(c) /\ InDispatch(d) => c = d
  /\ \A c \in Connections : InDispatch(c) => current = c

LEMMA IndexParts ==
  IndexNamesItsBoot /\ IndexAgrees <=> (~raced => Alone /\ \A b \in DOMAIN byBoot : Enters(b))
BY DEF IndexNamesItsBoot, IndexAgrees, Alone, Enters

\* An entry that stays as it is, and so does its session.
LEMMA EntryKept ==
  ASSUME NEW b, Enters(b), byBoot'[b] = byBoot[b],
         owner'[byBoot[b]] = owner[byBoot[b]], asked'[byBoot[b]] = asked[byBoot[b]],
         thread'[byBoot[b]] = thread[byBoot[b]]
  PROVE  Enters(b)'
BY DEF Enters

\* An entry whose session has its boot is kept until that session leaves.
LEMMA EntryMoves ==
  ASSUME NEW b, Enters(b), byBoot'[b] = byBoot[b],
         owner'[byBoot[b]] = owner[byBoot[b]],
         thread[byBoot[b]].at # "ENLISTED",
         thread'[byBoot[b]].boot = thread[byBoot[b]].boot,
         thread'[byBoot[b]].at \notin {"FORGOTTEN", "CLOSED"}
  PROVE  Enters(b)'
BY DEF Enters

\* One thread moves inside dispatch, or out of it.
LEMMA AloneStep ==
  ASSUME Alone, NEW c \in Connections, InDispatch(c),
         \A d \in Connections \ {c} : thread'[d] = thread[d],
         current' = current \/ ~InDispatch(c)'
  PROVE  Alone'
<1>1. \A d \in Connections \ {c} : ~InDispatch(d)'
  BY DEF Alone, InDispatch
<1>2. InDispatch(c)' => current' = c
  BY DEF Alone
<1> QED
  BY <1>1, <1>2 DEF Alone

\* Threads outside dispatch stay there.
LEMMA AloneKept ==
  ASSUME Alone, current' = current, \A c \in Connections : InDispatch(c)' => InDispatch(c)
  PROVE  Alone'
BY DEF Alone

LEMMA IndexStep ==
  ASSUME TypeOK, SessionsAgree, RegistryTyped, IndexNamesItsBoot, IndexAgrees, [Next]_vars
  PROVE  IndexNamesItsBoot' /\ IndexAgrees'
<1> SUFFICES ASSUME ~raced'
             PROVE  Alone' /\ \A b \in DOMAIN byBoot' : Enters(b)'
  BY DEF IndexNamesItsBoot, IndexAgrees, Alone, Enters
<1>a. ~raced
  BY DEF Next, Serve, Restart, vars, server, Connect, Send, Drop, Receive, StopReceiving,
         LookUp, RegisterWorker, Mutate, FenceWorker, Enlist, Answer, Forget,
         FenceSessionLoss, Ended
<1>b. Alone /\ \A b \in DOMAIN byBoot : Enters(b)
  BY <1>a, IndexParts
<1>0. /\ {"WAITING", "POSTED", "LEAVING", "ENLISTED", "FORGOTTEN"} \subseteq Place
      /\ \A c \in Connections : Agrees(c)
      /\ None \notin Boots /\ None \notin Connections
      /\ \A b \in DOMAIN byBoot : b \in Boots /\ byBoot[b] \in Connections
  BY <1>b, AgreesAll, NoneAssumption DEF Place, TypeOK, Enters
<1>1. CASE UNCHANGED <<owner, asked, thread, current, byBoot>>
  BY <1>1, <1>b DEF Alone, Enters, InDispatch
<1>2. ASSUME NEW c \in Connections, NEW x \in Boots, Connect(c, x)
      PROVE  Alone' /\ \A b \in DOMAIN byBoot' : Enters(b)'
  <2>1. /\ Becomes(c, "WAITING", thread[c].boot)
        /\ thread[c].at = "NONE" /\ thread[c].boot = None
        /\ byBoot' = byBoot /\ current' = current /\ asked' = asked
        /\ \A d \in Connections \ {c} : owner'[d] = owner[d]
    BY <1>0, <1>2, ThreadBecomes DEF Connect, Agrees, TypeOK
  <2>2. Alone'
    BY <1>b, <2>1, AloneKept DEF Becomes, InDispatch
  <2>3. ASSUME NEW b \in DOMAIN byBoot
        PROVE  Enters(b)'
    <3>1. byBoot[b] # c
      BY <1>0, <1>b, <2>1 DEF Enters
    <3> QED
      BY <1>0, <1>b, <2>1, <3>1, EntryKept DEF Becomes
  <2> QED
    BY <2>1, <2>2, <2>3
<1>3. ASSUME NEW c \in Connections, NEW r \in Requests, Send(c, r)
      PROVE  Alone' /\ \A b \in DOMAIN byBoot' : Enters(b)'
  <2>1. /\ UNCHANGED <<owner, thread, byBoot, current>>
        /\ \A d \in Connections \ {c} : asked'[d] = asked[d]
        /\ thread[c].at # "ENLISTED"
    BY <1>0, <1>3 DEF Send, server, TypeOK, Agrees, InDispatch
  <2>2. Alone'
    BY <1>b, <2>1 DEF Alone, InDispatch
  <2>3. ASSUME NEW b \in DOMAIN byBoot
        PROVE  Enters(b)'
    <3>1. CASE byBoot[b] = c
      BY <1>b, <2>1, <3>1, EntryMoves DEF Enters
    <3>2. CASE byBoot[b] # c
      BY <1>0, <1>b, <2>1, <3>2, EntryKept
    <3> QED
      BY <3>1, <3>2
  <2> QED
    BY <2>1, <2>2, <2>3
<1>4. ASSUME NEW c \in Connections, Drop(c)
      PROVE  Alone' /\ \A b \in DOMAIN byBoot' : Enters(b)'
  BY <1>1, <1>4 DEF Drop, server
<1>5. ASSUME NEW c \in Connections, Receive(c) \/ StopReceiving(c)
      PROVE  Alone' /\ \A b \in DOMAIN byBoot' : Enters(b)'
  <2>1. PICK place \in {"LEAVING", "POSTED"} : Becomes(c, place, thread[c].boot)
    BY <1>0, <1>5, ThreadBecomes DEF Receive, StopReceiving
  <2>2. /\ UNCHANGED <<owner, byBoot>>
        /\ \A d \in Connections \ {c} : asked'[d] = asked[d]
        /\ thread[c].at = "WAITING"
    BY <1>5 DEF Receive, StopReceiving, TypeOK
  <2>3. Alone'
    <3>1. CASE current' = c /\ raced' = (raced \/ \E d \in Connections : InDispatch(d))
      BY <2>1, <3>1 DEF Becomes, Alone, InDispatch
    <3>2. CASE Moves(c, "LEAVING") /\ current' = current
      <4>1. Becomes(c, "LEAVING", thread[c].boot)
        BY <1>0, <3>2, ThreadBecomes
      <4> QED
        BY <1>b, <3>2, <4>1, AloneKept DEF Becomes, InDispatch
    <3> QED
      BY <1>5, <3>1, <3>2 DEF Receive, StopReceiving
  <2>4. ASSUME NEW b \in DOMAIN byBoot
        PROVE  Enters(b)'
    <3>1. CASE byBoot[b] = c
      BY <1>b, <2>1, <2>2, <3>1, EntryMoves DEF Becomes
    <3>2. CASE byBoot[b] # c
      BY <1>0, <1>b, <2>1, <2>2, <3>2, EntryKept DEF Becomes
    <3> QED
      BY <3>1, <3>2
  <2> QED
    BY <2>2, <2>3, <2>4
<1>6. ASSUME NEW c \in Connections,
             LookUp(c) \/ RegisterWorker(c) \/ Mutate(c) \/ FenceWorker(c)
      PROVE  Alone' /\ \A b \in DOMAIN byBoot' : Enters(b)'
  <2>1. PICK place \in {"LOOKED", "APPLIED"} : Becomes(c, place, thread[c].boot)
    BY <1>6, ThreadBecomes DEF LookUp, RegisterWorker, Mutate, FenceWorker
  <2>2. /\ UNCHANGED <<owner, asked, byBoot, current>>
        /\ thread[c].at \in {"POSTED", "LOOKED"}
    BY <1>6 DEF LookUp, RegisterWorker, Mutate, FenceWorker, client
  <2>3. Alone'
    BY <1>b, <2>1, <2>2, AloneStep DEF Becomes, InDispatch
  <2>4. ASSUME NEW b \in DOMAIN byBoot
        PROVE  Enters(b)'
    <3>1. CASE byBoot[b] = c
      BY <1>b, <2>1, <2>2, <3>1, EntryMoves DEF Becomes
    <3>2. CASE byBoot[b] # c
      BY <1>0, <1>b, <2>1, <2>2, <3>2, EntryKept DEF Becomes
    <3> QED
      BY <3>1, <3>2
  <2> QED
    BY <2>2, <2>3, <2>4
<1>7. CASE Ended
  <2>1. DOMAIN byBoot' = {}
    BY <1>7, EmptyFunction DEF Ended
  <2>2. ASSUME NEW c \in Connections
        PROVE  ~InDispatch(c)'
    <3>1. thread'[c].at = "CLOSED" \/ (thread[c].at = "NONE" /\ thread'[c] = thread[c])
      BY <1>0, <1>7, EndedBecomes DEF Agrees
    <3> QED
      BY <3>1 DEF InDispatch
  <2> QED
    BY <2>1, <2>2 DEF Alone
<1>8. ASSUME NEW c \in Connections, Enlist(c), ~Ended
      PROVE  Alone' /\ \A b \in DOMAIN byBoot' : Enters(b)'
  <2> DEFINE r == asked[c]
             whom == IF r.kind = "FENCE_WORKER" THEN r.target ELSE thread[c].previous
             rest == Without(whom)
  <2>1. /\ Becomes(c, "ENLISTED", thread[c].boot)
        /\ UNCHANGED <<owner, asked, current>>
        /\ InDispatch(c) /\ thread[c].at = "APPLIED"
    BY <1>0, <1>8, ThreadBecomes DEF Enlist, client, InDispatch
  <2>2. Alone' /\ current = c
    BY <1>b, <2>1, AloneStep DEF Becomes, Alone
  <2>3. \/ byBoot' = rest
        \/ /\ byBoot' = [b \in DOMAIN rest \cup {r.boot} |-> IF b = r.boot THEN c ELSE rest[b]]
           /\ r.kind = "REGISTER_WORKER"
    BY <1>8, <2>2 DEF Enlist
  <2>4. \A b \in DOMAIN rest : b \in DOMAIN byBoot /\ rest[b] = byBoot[b]
    BY DEF Without
  <2> HIDE DEF rest
  <2>5. ASSUME NEW b \in DOMAIN byBoot, byBoot'[b] = byBoot[b]
        PROVE  Enters(b)'
    <3>1. CASE byBoot[b] = c
      BY <1>b, <2>1, <2>5, <3>1, EntryMoves DEF Becomes
    <3>2. CASE byBoot[b] # c
      BY <1>0, <1>b, <2>1, <2>5, <3>2, EntryKept DEF Becomes
    <3> QED
      BY <3>1, <3>2
  <2>6. CASE byBoot' = rest
    BY <2>2, <2>4, <2>5, <2>6
  <2>7. CASE /\ byBoot' = [b \in DOMAIN rest \cup {r.boot} |-> IF b = r.boot THEN c ELSE rest[b]]
             /\ r.kind = "REGISTER_WORKER"
    <3>1. /\ byBoot'[r.boot] = c /\ owner[c] = r.boot /\ c # None
          /\ thread'[c].at = "ENLISTED"
      BY <1>0, <2>1, <2>7 DEF Agrees, Becomes
    <3>2. ASSUME NEW b, b = r.boot
          PROVE  Enters(b)'
      BY <2>1, <2>7, <3>1, <3>2 DEF Enters
    <3>3. \A b \in DOMAIN byBoot' :
            b # r.boot => b \in DOMAIN byBoot /\ byBoot'[b] = byBoot[b]
      BY <2>4, <2>7
    <3> QED
      BY <2>2, <2>5, <3>2, <3>3
  <2> QED
    BY <2>3, <2>6, <2>7
<1>9. ASSUME NEW c \in Connections, Answer(c)
      PROVE  Alone' /\ \A b \in DOMAIN byBoot' : Enters(b)'
  <2>1. PICK place \in {"WAITING", "LEAVING"} : Becomes(c, place, SessionBoot(c))
    BY <1>9, ThreadBecomes
  <2>2. /\ UNCHANGED <<owner, byBoot>>
        /\ \A d \in Connections \ {c} : asked'[d] = asked[d]
        /\ InDispatch(c)
    BY <1>9 DEF Answer, TypeOK, InDispatch
  <2>3. ~InDispatch(c)'
    BY <2>1 DEF Becomes, InDispatch
  <2>4. Alone'
    BY <1>b, <2>1, <2>2, <2>3, AloneStep DEF Becomes
  <2>5. ASSUME NEW b \in DOMAIN byBoot
        PROVE  Enters(b)'
    <3>1. CASE byBoot[b] = c
      <4>1. thread'[c].at = place /\ thread'[c].boot = SessionBoot(c)
        BY <2>1 DEF Becomes
      <4>2. SessionBoot(c) = b
        BY <1>0, <1>b, <2>2, <3>1 DEF SessionBoot, Enters, Agrees
      <4> QED
        BY <1>b, <2>2, <3>1, <4>1, <4>2 DEF Enters
    <3>2. CASE byBoot[b] # c
      BY <1>0, <1>b, <2>1, <2>2, <3>2, EntryKept DEF Becomes
    <3> QED
      BY <3>1, <3>2
  <2> QED
    BY <2>2, <2>4, <2>5
<1>10. ASSUME NEW c \in Connections, Forget(c)
       PROVE  Alone' /\ \A b \in DOMAIN byBoot' : Enters(b)'
  <2>1. /\ Becomes(c, "FORGOTTEN", thread[c].boot)
        /\ UNCHANGED <<owner, asked, current>>
        /\ thread[c].at = "LEAVING" /\ byBoot' = Forgotten(c)
    BY <1>0, <1>10, ThreadBecomes DEF Forget, client
  <2>2. Alone'
    BY <1>b, <2>1, AloneKept DEF Becomes, InDispatch
  <2>3. ASSUME NEW b \in DOMAIN byBoot'
        PROVE  b \in DOMAIN byBoot /\ byBoot'[b] = byBoot[b] /\ byBoot[b] # c
    <3>1. b \in DOMAIN byBoot /\ byBoot'[b] = byBoot[b]
      BY <2>1, <2>3 DEF Forgotten, Without
    <3>2. ASSUME byBoot[b] = c
          PROVE  FALSE
      <4>1. thread[c].boot = b
        BY <1>b, <2>1, <3>1, <3>2 DEF Enters
      <4> QED
        BY <2>1, <2>3, <3>1, <3>2, <4>1 DEF Forgotten, Without
    <3> QED
      BY <3>1, <3>2
  <2>4. ASSUME NEW b \in DOMAIN byBoot'
        PROVE  Enters(b)'
    BY <1>0, <1>b, <2>1, <2>3, <2>4, EntryKept DEF Becomes
  <2> QED
    BY <2>2, <2>4
<1>11. ASSUME NEW c \in Connections, FenceSessionLoss(c)
       PROVE  Alone' /\ \A b \in DOMAIN byBoot' : Enters(b)'
  <2>1. /\ Becomes(c, "CLOSED", None)
        /\ UNCHANGED <<owner, asked, current, byBoot>>
        /\ thread[c].at = "FORGOTTEN"
    BY <1>11, ThreadBecomes DEF FenceSessionLoss
  <2>2. Alone'
    BY <1>b, <2>1, AloneKept DEF Becomes, InDispatch
  <2>3. ASSUME NEW b \in DOMAIN byBoot
        PROVE  Enters(b)'
    <3>1. byBoot[b] # c
      BY <1>b, <2>1 DEF Enters
    <3> QED
      BY <1>0, <1>b, <2>1, <3>1, EntryKept DEF Becomes
  <2> QED
    BY <2>1, <2>2, <2>3
<1> QED
  BY <1>1, <1>2, <1>3, <1>4, <1>5, <1>6, <1>7, <1>8, <1>9, <1>10, <1>11
     DEF Next, Serve, Restart, vars, client, server

----------------------------------------------------------------------------
\* The theorems

IInv == SessionInvariant /\ AtMostOnce

LEMMA Invariants ==
  ASSUME IInv
  PROVE  /\ TypeOK /\ SessionsAgree /\ RegistryTyped /\ MemorySafe
         /\ LiveBootIsHeld /\ IndexNamesItsBoot /\ IndexAgrees
BY DEF IInv, SessionInvariant, TypeOK, RegistryTyped, MemorySafe, Memo

LEMMA InitInvariants == Init => IInv
<1> SUFFICES ASSUME Init
             PROVE  IInv
  OBVIOUS
<1>0. /\ DOMAIN <<>> = {} /\ (\A S : <<>> \in [{} -> S])
      /\ \A S : <<>> \in Seq(S) /\ Len(<<>>) = 0
  BY EmptyFunction, EmptySeq
<1>1. TypeOK
  <2>1. Idle \in [at : Place, boot : Boots \cup {None}, previous : Boots \cup {None},
                  accepted : BOOLEAN]
    BY DEF Idle, Place
  <2>2. thread \in [Connections -> [at : Place, boot : Boots \cup {None},
                                    previous : Boots \cup {None}, accepted : BOOLEAN]]
    BY <2>1 DEF Init
  <2>3. /\ DOMAIN byBoot \subseteq Boots
        /\ byBoot \in [DOMAIN byBoot -> Connections \cup {None}]
        /\ workers \in [DOMAIN workers -> [boot : Boots, live : BOOLEAN]]
        /\ attempts \in Seq(Memo)
    <3>1. byBoot = <<>> /\ workers = <<>> /\ attempts = <<>>
      BY DEF Init
    <3>2. DOMAIN byBoot = {} /\ DOMAIN workers = {}
      BY <1>0, <3>1
    <3> QED
      BY <1>0, <3>1, <3>2
  <2>4. /\ link \in [Connections -> {"NONE", "UP", "DOWN"}]
        /\ owner \in [Connections -> Boots \cup {None}]
        /\ asked \in [Connections -> Requests \cup {None}]
        /\ sent \in 0 .. MaxRequests
        /\ current \in Connections \cup {None} /\ fenced \subseteq Boots
        /\ executed \in [Requests -> Nat] /\ forgotten \in [Attempts -> Nat]
        /\ raced \in BOOLEAN
    <3>1. /\ link = [c \in Connections |-> "NONE"]
          /\ owner = [c \in Connections |-> None]
          /\ asked = [c \in Connections |-> None]
          /\ sent = 0 /\ current = None /\ fenced = {} /\ raced = FALSE
          /\ executed = [r \in Requests |-> 0]
          /\ forgotten = [a \in Attempts |-> 0]
      BY DEF Init
    <3>2. 0 \in 0 .. MaxRequests
      BY BoundAssumption
    <3> QED
      BY <3>1, <3>2
  <2> QED
    BY <2>2, <2>3, <2>4 DEF TypeOK, Memo
<1>2. \A c \in Connections :
        /\ link[c] = "NONE" /\ owner[c] = None /\ asked[c] = None
        /\ thread[c].at = "NONE" /\ thread[c].boot = None /\ ~InDispatch(c)
  BY DEF Init, Idle, InDispatch
<1>3. SessionsAgree
  BY <1>2 DEF SessionsAgree
<1>4. DOMAIN workers = {} /\ DOMAIN byBoot = {}
  BY <1>0 DEF Init
<1>5. LiveBootIsHeld /\ IndexNamesItsBoot /\ IndexAgrees
  BY <1>2, <1>4 DEF LiveBootIsHeld, Live, IndexNamesItsBoot, IndexAgrees
<1>6. \A r \in Requests : executed[r] = 0 /\ forgotten[r.attempt] = 0
  BY DEF Init, Attempts
<1>7. MemoryAgrees
  BY <1>0, <1>6, BoundAssumption DEF MemoryAgrees, Init
<1>8. AtMostOnce
  BY <1>6 DEF AtMostOnce
<1> QED
  BY <1>1, <1>3, <1>4, <1>5, <1>7, <1>8 DEF IInv, SessionInvariant

LEMMA StepInvariants == IInv /\ [Next]_vars => IInv'
<1> SUFFICES ASSUME IInv, [Next]_vars
             PROVE  IInv'
  OBVIOUS
<1>1. /\ TypeOK /\ SessionsAgree /\ RegistryTyped /\ MemorySafe
      /\ LiveBootIsHeld /\ IndexNamesItsBoot /\ IndexAgrees
  BY Invariants
<1>2. TypeOK' /\ SessionsAgree' /\ RegistryTyped' /\ MemorySafe'
  BY <1>1, TypeStep, SessionsStep, RegistryStep, MemoryStep
<1>3. LiveBootIsHeld' /\ IndexNamesItsBoot' /\ IndexAgrees'
  BY <1>1, LiveStep, IndexStep
<1> QED
  BY <1>2, <1>3 DEF IInv, SessionInvariant, RegistryTyped, MemorySafe

LEMMA InvariantHolds == Spec => []IInv
BY InitInvariants, StepInvariants, PTL DEF Spec

\* Whatever the interleaving of sessions, restarts and retries: a session speaks
\* for the boot that opened it, every live boot has a session whose end will
\* fence it, or a thread that is registering it; unless two threads were inside
\* dispatch at once, fence notices go to a session of the fenced boot; and an
\* attempt is remembered as long as it may be repeated (server.cpp, 54-91,
\* 489-530; governor_core.cpp, check_attempt and record_attempt).
THEOREM SessionsHold == Spec => []SessionInvariant
<1>1. IInv => SessionInvariant
  BY DEF IInv
<1> QED
  BY <1>1, InvariantHolds, PTL

\* However often a mutation is sent, it is applied once more than its attempt was
\* forgotten, at most (README.md, 239-244).
THEOREM AppliedAtMostOnce == Spec => []AtMostOnce
<1>1. IInv => AtMostOnce
  BY DEF IInv
<1> QED
  BY <1>1, InvariantHolds, PTL

\* No step applies a mutation of a boot that is fenced at that time, though its
\* request may have been received before (README.md, 380-384; authorize).
THEOREM FencedAreIdle == Spec => FencedDoNothing
<1> DEFINE Idles == \A r \in Requests : executed'[r] > executed[r] => r.boot \notin fenced
<1>1. IInv /\ [Next]_vars => [Idles]_vars
  <2> SUFFICES ASSUME IInv, Next, NEW r \in Requests, executed'[r] > executed[r]
               PROVE  r.boot \notin fenced
    OBVIOUS
  <2>1. executed \in [Requests -> Nat]
    BY DEF IInv, SessionInvariant, TypeOK
  <2>2. executed' # executed
    BY <2>1
  <2>3. PICK c \in Connections : Mutate(c)
    BY <2>2, GovernorActions DEF governor, RegisterWorker, FenceWorker, FenceSessionLoss, Ended
  <2>4. Authorized(asked[c]) /\ executed' = [executed EXCEPT ![asked[c]] = @ + 1]
    BY <2>2, <2>3 DEF Mutate, governor
  <2>5. r = asked[c]
    BY <2>1, <2>4
  <2> QED
    BY <2>4, <2>5 DEF Authorized, Live
<1> QED
  BY <1>1, InvariantHolds, PTL DEF Spec, FencedDoNothing

=============================================================================
