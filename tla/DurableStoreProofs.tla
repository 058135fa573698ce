------------------------- MODULE DurableStoreProofs -------------------------
(***************************************************************************)
(* What holds of DurableStore for any number of sessions and mutations.    *)
(***************************************************************************)
EXTENDS DurableStore, TLAPS

\* Distinct kinds of file are distinct files.
LEMMA Kinds ==
  /\ Absent.is = "absent" /\ Empty.is = "empty" /\ Torn.is = "torn"
  /\ \A v : Image(v).is = "image" /\ Image(v).of = v
  /\ Absent.of = 0 /\ Empty.of = 0 /\ Torn.of = 0
BY DEF Absent, Empty, Torn, Image

\* A file of the store is one of four kinds, and holds a version.
LEMMA FileKinds ==
  ASSUME NEW f \in File
  PROVE  /\ f.is \in {"absent", "empty", "torn", "image"}
         /\ f.of \in 0..MaxVersion
BY BoundAssumption DEF File, Absent, Empty, Torn, Image

\* The steps that move one thread and leave everything else alone.
LEMMA GoType ==
  ASSUME TypeOK, NEW t \in Threads, NEW From, NEW to \in Stage, Go(t, From, to)
  PROVE  /\ at' \in [Threads -> Stage]
         /\ at[t] \in From
         /\ at'[t] = to
         /\ \A u \in Threads \ {t} : at'[u] = at[u]
BY DEF TypeOK, Go

-----------------------------------------------------------------------------
\* Types

\* The first state is well typed.
LEMMA TypeInit == Init => TypeOK
<1> SUFFICES ASSUME Init PROVE TypeOK
  OBVIOUS
<1>1. 0 \in 0..MaxVersion
  BY BoundAssumption
<1>2. at \in [Threads -> Stage] /\ \A t \in Threads : handle[t] = "none"
  BY DEF Init, Stage
<1> QED
  BY <1>1, <1>2 DEF Init, TypeOK, File

\* Every step keeps the types: one step of the proof per action.
LEMMA TypeStep == TypeOK /\ [Next]_vars => TypeOK'
<1> SUFFICES ASSUME TypeOK, [Next]_vars PROVE TypeOK'
  OBVIOUS
<1> USE BoundAssumption
<1>1. CASE UNCHANGED vars
  BY <1>1 DEF TypeOK, vars
<1>2. ASSUME NEW t \in Threads, Request(t) PROVE TypeOK'
  <2>1. at' \in [Threads -> Stage]
    BY <1>2, GoType DEF Request, Stage
  <2>2. \A u \in Threads : handle'[u] # "none" => at'[u] = "opened"
    BY <1>2 DEF TypeOK, Request, Go, files
  <2>3. version' \in 0..MaxVersion /\ seen' \in [Threads -> 0..MaxVersion]
    BY <1>2 DEF TypeOK, Request, Mutated
  <2> QED
    BY <1>2, <2>1, <2>2, <2>3 DEF TypeOK, Request, files
<1>3. ASSUME NEW t \in Threads, Encode(t) PROVE TypeOK'
  <2>1. at' \in [Threads -> Stage]
    BY <1>3, GoType DEF Encode, Stage
  <2>2. \A u \in Threads : handle'[u] # "none" => at'[u] = "opened"
    BY <1>3 DEF TypeOK, Encode, Go, files
  <2>3. overlapped' \in BOOLEAN
    BY <1>3 DEF TypeOK, Encode
  <2> QED
    BY <1>3, <2>1, <2>2, <2>3 DEF TypeOK, Encode, files
<1>4. ASSUME NEW t \in Threads, RefuseImage(t) \/ OpenFails(t) \/ ReplaceFails(t)
      PROVE  TypeOK'
  <2>1. at' \in [Threads -> Stage]
    BY <1>4, GoType DEF RefuseImage, OpenFails, ReplaceFails, Stage
  <2>2. \A u \in Threads : handle'[u] # "none" => at'[u] = "opened"
    BY <1>4 DEF TypeOK, RefuseImage, OpenFails, ReplaceFails, Go, files
  <2> QED
    BY <1>4, <2>1, <2>2 DEF TypeOK, RefuseImage, OpenFails, ReplaceFails, files
<1>5. ASSUME NEW t \in Threads, Open(t) PROVE TypeOK'
  <2>1. at' \in [Threads -> Stage]
    BY <1>5, GoType DEF Open, Stage
  <2>2. \A u \in Threads : handle'[u] # "none" => at'[u] = "opened"
    BY <1>5 DEF TypeOK, Open, Go
  <2> QED
    BY <1>5, <2>1, <2>2 DEF TypeOK, Open, File
<1>6. ASSUME NEW t \in Threads, Write(t) \/ WriteFails(t) PROVE TypeOK'
  <2>1. at' \in [Threads -> Stage]
    BY <1>6, GoType DEF Write, WriteFails, Stage
  <2>2. PICK contents \in File : PutAndClose(t, contents)
    <3>1. Opened(t) \in File /\ Torn \in File /\ Written(Opened(t), image[t]) \subseteq File
      BY DEF TypeOK, Opened, Written, File
    <3> QED
      BY <1>6, <3>1 DEF Write, WriteFails
  <2>3. \A u \in Threads : handle'[u] # "none" => at'[u] = "opened"
    BY <1>6, <2>2 DEF TypeOK, Write, WriteFails, PutAndClose, Go
  <2> QED
    BY <2>1, <2>2, <2>3 DEF TypeOK, PutAndClose
<1>7. ASSUME NEW t \in Threads, Replace(t) PROVE TypeOK'
  <2>1. at' \in [Threads -> Stage]
    BY <1>7, GoType DEF Replace, Stage
  <2>2. \A u \in Threads : handle'[u] # "none" => at'[u] = "opened"
    BY <1>7 DEF TypeOK, Replace, Rename, Renamed, Unlinked, Go
  <2>3. handle' \in [Threads -> {"none", "temporary", "store", "gone"}]
    BY <1>7 DEF TypeOK, Replace, Rename, Renamed, Unlinked
  <2> QED
    BY <1>7, <2>1, <2>2, <2>3 DEF TypeOK, Replace, Rename, File
<1>8. ASSUME NEW t \in Threads, RemoveStore(t) \/ RemoveTemporary(t) PROVE TypeOK'
  <2>1. at' \in [Threads -> Stage]
    BY <1>8, GoType DEF RemoveStore, RemoveTemporary, Stage
  <2>2. \A u \in Threads : handle'[u] # "none" => at'[u] = "opened"
    BY <1>8 DEF TypeOK, RemoveStore, RemoveTemporary, Unlinked, Go
  <2>3. handle' \in [Threads -> {"none", "temporary", "store", "gone"}]
    BY <1>8 DEF TypeOK, RemoveStore, RemoveTemporary, Unlinked
  <2> QED
    BY <1>8, <2>1, <2>2, <2>3 DEF TypeOK, RemoveStore, RemoveTemporary, File
<1>9. ASSUME NEW t \in Threads, Reply(t) \/ EndSession(t) PROVE TypeOK'
  <2>1. at' \in [Threads -> Stage]
    BY <1>9, GoType DEF Reply, EndSession, Stage
  <2>2. \A u \in Threads : handle'[u] # "none" => at'[u] = "opened"
    BY <1>9 DEF TypeOK, Reply, EndSession, Go, files
  <2> QED
    BY <1>9, <2>1, <2>2 DEF TypeOK, Reply, EndSession, Mutated, files
<1>10. CASE Stop
  <2>1. Main \in Threads
    BY DEF Threads
  <2>2. at' \in [Threads -> Stage]
    BY <1>10, <2>1, GoType DEF Stop, Stage
  <2>3. \A u \in Threads : handle'[u] # "none" => at'[u] = "opened"
    BY <1>10, <2>1 DEF TypeOK, Stop, Go, files
  <2> QED
    BY <1>10, <2>2, <2>3 DEF TypeOK, Stop, files
<1>11. CASE Exit \/ Crash
  BY <1>11 DEF TypeOK, Exit, Crash, End, Stage
<1>12. CASE Start
  <2>1. store.of \in 0..MaxVersion
    BY FileKinds DEF TypeOK
  <2> QED
    BY <1>12, <2>1 DEF TypeOK, Start, files
<1> QED
  BY <1>1, <1>2, <1>3, <1>4, <1>5, <1>6, <1>7, <1>8, <1>9, <1>10, <1>11, <1>12
     DEF Next, Thread

\* TypeOK, for every number of sessions and mutations.
THEOREM StoreTypeCorrect == Spec => []TypeOK
BY TypeInit, TypeStep, PTL DEF Spec

-----------------------------------------------------------------------------
\* The save invariant

\* A process that is down has no thread.
LEMMA NoThreadStep ==
  ASSUME TypeOK, NoThreadWhenDown, [Next]_vars
  PROVE  NoThreadWhenDown'
<1>1. CASE UNCHANGED vars
  BY <1>1 DEF NoThreadWhenDown, vars
<1>2. ASSUME NEW t \in Threads, Thread(t) PROVE NoThreadWhenDown'
  BY <1>2 DEF TypeOK, NoThreadWhenDown, Thread, Request, Encode, RefuseImage, Open,
              OpenFails, Write, WriteFails, PutAndClose, Replace, ReplaceFails,
              RemoveStore, RemoveTemporary, Reply, EndSession, Go
<1>3. CASE Stop \/ Exit \/ Crash \/ Start
  BY <1>3 DEF TypeOK, NoThreadWhenDown, Stop, Exit, Crash, Start, End
<1> QED
  BY <1>1, <1>2, <1>3 DEF Next

\* A save that goes on, or ends, is no second save.
LEMMA OneSaveKept ==
  ASSUME TypeOK, OneSave, NEW t \in Threads, NEW From, NEW to \in Stage,
         Go(t, From, to), to \in Saving => at[t] \in Saving
  PROVE  OneSave'
BY GoType DEF OneSave

\* Agreement, when thread t moves and leaves the files alone.
LEMMA QuietAgreement ==
  ASSUME TypeOK, TypeOK', Agreement, running # "down", NEW t \in Threads,
         NEW From, NEW to \in Stage, Go(t, From, to), to \notin Saving, to # "saved",
         version' >= version, UNCHANGED <<image, files, answered>>,
         \A u \in Threads \ {t} : seen'[u] = seen[u],
         t \in Sessions /\ to = "dispatched" => seen'[t] <= version'
  PROVE  Agreement'
<1>1. OneSave'
  BY OneSaveKept DEF Agreement
<1>2. \A u \in Threads : ThreadAgrees(u)'
  BY GoType DEF Agreement, ThreadAgrees, TypeOK, Saving, files
<1>3. store' = store /\ store.of \in 0..MaxVersion
  BY FileKinds DEF TypeOK, files
<1> QED
  BY <1>1, <1>2, <1>3 DEF Agreement, AnsweredIsDurable, TypeOK

\* Agreement, when thread t encodes the state and no other thread is saving.
LEMMA EncodeAgreement ==
  ASSUME TypeOK, TypeOK', Agreement, running # "down", NEW t \in Threads, Encode(t),
         ~overlapped'
  PROVE  Agreement'
<1>1. \A u \in Threads \ {t} : at[u] \notin Saving
  BY DEF Encode
<1>2. at'[t] = "encoded" /\ image'[t] = version
      /\ \A u \in Threads \ {t} : at'[u] = at[u] /\ image'[u] = image[u]
  BY DEF Encode, Go, TypeOK
<1>3. OneSave'
  BY <1>1, <1>2 DEF OneSave
<1>4. at[t] = "dispatched"
  BY DEF Encode, Go
<1>5. \A u \in Threads : ThreadAgrees(u)'
  BY <1>1, <1>2, <1>4 DEF Agreement, ThreadAgrees, Encode, Saving, files, TypeOK
<1> QED
  BY <1>3, <1>5 DEF Agreement, AnsweredIsDurable, Encode, files

\* Agreement, when the one thread that is saving writes the temporary file.
LEMMA WriteAgreement ==
  ASSUME TypeOK, TypeOK', Agreement, NEW t \in Threads,
         Open(t) \/ Write(t) \/ WriteFails(t)
  PROVE  Agreement'
<1>1. at[t] \in Saving /\ OneSave
  BY DEF Open, Write, WriteFails, Go, Saving, Agreement
<1>2. \A u \in Threads \ {t} : at[u] \notin Saving /\ at'[u] = at[u] /\ handle'[u] = handle[u]
  BY <1>1 DEF OneSave, Open, Write, WriteFails, PutAndClose, Go, TypeOK
<1>3. UNCHANGED <<running, version, seen, image, store, answered>>
  BY DEF Open, Write, WriteFails, PutAndClose, Go, Agreement, ThreadAgrees
<1>4. OneSave'
  BY <1>1, OneSaveKept DEF Open, Write, WriteFails, Stage, Saving
<1>5. \A u \in Threads \ {t} : ThreadAgrees(u)'
  BY <1>2, <1>3 DEF Agreement, ThreadAgrees, Saving
<1>6. ThreadAgrees(t)'
  <2>1. CASE Open(t)
    BY <2>1, <1>3 DEF Open, Go, TypeOK, Agreement, ThreadAgrees, Saving
  <2>2. CASE Write(t)
    <3>1. temporary' = Image(image[t])
      BY <2>2 DEF Write, Go, Written, Opened, PutAndClose, Agreement, ThreadAgrees
    <3> QED
      BY <2>2, <3>1, <1>3 DEF Write, Go, TypeOK, Agreement, ThreadAgrees, Saving
  <2>3. CASE WriteFails(t)
    BY <2>3, <1>3 DEF WriteFails, Go, TypeOK, Agreement, ThreadAgrees, Saving
  <2> QED
    BY <2>1, <2>2, <2>3
<1> QED
  BY <1>3, <1>4, <1>5, <1>6 DEF Agreement, AnsweredIsDurable

\* The one thread that is saving replaces the store by its own image, which is
\* no older than the store and than what the thread's response speaks of.
LEMMA ReplaceAgreement ==
  ASSUME TypeOK, TypeOK', Agreement, NEW t \in Threads, Replace(t)
  PROVE  Agreement' /\ store'.is = "image" /\ store'.of >= store.of
<1>1. at[t] = "written" /\ OneSave
  BY DEF Replace, Go, Agreement, ThreadAgrees
<1>2. \A u \in Threads \ {t} : at[u] \notin Saving /\ at'[u] = at[u]
  BY <1>1 DEF OneSave, Replace, Go, TypeOK, Saving
<1>3. UNCHANGED <<running, version, seen, image, answered>>
  BY DEF Replace
<1>4. /\ store' = Image(image[t])
      /\ store'.is = "image" /\ store'.of = image[t]
      /\ store.of <= image[t] /\ image[t] <= version
  BY <1>1, Kinds DEF Replace, Rename, Agreement, ThreadAgrees, Saving
<1>5. store.of \in 0..MaxVersion /\ image[t] \in 0..MaxVersion
      /\ answered \in 0..MaxVersion /\ seen \in [Threads -> 0..MaxVersion]
  BY FileKinds DEF TypeOK
<1>6. OneSave'
  BY <1>1, OneSaveKept DEF Replace, Stage, Saving
<1>7. \A u \in Threads \ {t} : ThreadAgrees(u)'
  BY <1>2, <1>3, <1>4, <1>5 DEF Agreement, ThreadAgrees, Saving
<1>8. ThreadAgrees(t)'
  BY <1>1, <1>3, <1>4, <1>5 DEF Replace, Go, TypeOK, Agreement, ThreadAgrees, Saving
<1> QED
  BY <1>3, <1>4, <1>5, <1>6, <1>7, <1>8 DEF Agreement, AnsweredIsDurable

\* A response that is sent speaks of no version newer than the store.
LEMMA ReplyAgreement ==
  ASSUME TypeOK, TypeOK', Agreement, NEW t \in Threads, Reply(t)
  PROVE  Agreement'
<1>1. OneSave'
  BY OneSaveKept DEF Reply, Agreement, Stage, Saving
<1>2. \A u \in Threads : ThreadAgrees(u)'
  BY DEF Reply, Go, TypeOK, Agreement, ThreadAgrees, Saving, files
<1>3. AnsweredIsDurable'
  <2>1. store.is = "image" /\ seen[t] <= store.of
    BY DEF Reply, Go, Agreement, ThreadAgrees
  <2>2. store.of \in 0..MaxVersion /\ seen[t] \in 0..MaxVersion
    BY FileKinds DEF TypeOK
  <2> QED
    BY <2>1, <2>2 DEF Reply, files, Agreement, AnsweredIsDurable, TypeOK
<1> QED
  BY <1>1, <1>2, <1>3 DEF Agreement, Reply, files

\* No thread is left when the process ends, and memory is the store when it
\* starts.
LEMMA ProcessAgreement ==
  ASSUME TypeOK, TypeOK', Agreement, NoThreadWhenDown, Exit \/ Crash \/ Start
  PROVE  Agreement'
<1>1. CASE Exit \/ Crash
  BY <1>1 DEF Exit, Crash, End, Agreement, OneSave, ThreadAgrees, Saving, AnsweredIsDurable
<1>2. CASE Start
  <2>1. \A t \in Threads : at'[t] = "idle"
    BY <1>2 DEF Start, NoThreadWhenDown
  <2>2. store' = store /\ version' = store.of /\ store.of \in 0..MaxVersion
    BY <1>2, FileKinds DEF Start, files, TypeOK
  <2> QED
    BY <1>2, <2>1, <2>2
       DEF Start, Agreement, OneSave, ThreadAgrees, Saving, AnsweredIsDurable, files
<1> QED
  BY <1>1, <1>2

\* Agreement is kept by every step after which no saves have overlapped.
LEMMA AgreementStep ==
  ASSUME TypeOK, TypeOK', SaveInvariant, [Next]_vars, ~overlapped'
  PROVE  Agreement'
<1>1. ~overlapped
  BY DEF TypeOK, Next, Thread, Request, Encode, RefuseImage, Open, OpenFails, Write,
         WriteFails, PutAndClose, Replace, ReplaceFails, RemoveStore, RemoveTemporary,
         Reply, EndSession, Stop, Exit, Crash, Start, End, vars
<1>2. Agreement /\ NoThreadWhenDown
  BY <1>1 DEF SaveInvariant
<1>3. CASE UNCHANGED vars
  BY <1>2, <1>3
     DEF vars, Agreement, OneSave, ThreadAgrees, AnsweredIsDurable
<1>4. ASSUME NEW t \in Threads, Thread(t) PROVE Agreement'
  <2>1. CASE Request(t)
    <3>1. running # "down" /\ version' >= version /\ seen'[t] <= version'
          /\ \A u \in Threads \ {t} : seen'[u] = seen[u]
      BY <2>1 DEF Request, Mutated, TypeOK
    <3> QED
      BY <1>2, <2>1, <3>1, QuietAgreement DEF Request, Stage, Saving
  <2>2. CASE Encode(t)
    BY <1>2, <2>2, EncodeAgreement DEF NoThreadWhenDown, Encode, Go
  <2>3. CASE RefuseImage(t) \/ OpenFails(t)
    <3>1. running # "down" /\ version' >= version
      BY <1>2, <2>3 DEF NoThreadWhenDown, RefuseImage, OpenFails, Go, TypeOK
    <3> QED
      BY <1>2, <2>3, <3>1, QuietAgreement DEF RefuseImage, OpenFails, Stage, Saving
  <2>4. CASE Open(t) \/ Write(t) \/ WriteFails(t)
    BY <1>2, <2>4, WriteAgreement
  <2>5. CASE Replace(t)
    BY <1>2, <2>5, ReplaceAgreement
  <2>6. CASE ReplaceFails(t) \/ RemoveStore(t) \/ RemoveTemporary(t)
    <3>1. ReplaceFails(t) /\ at[t] = "written"
      BY <1>2, <2>6
         DEF ReplaceFails, RemoveStore, RemoveTemporary, Go, Agreement, ThreadAgrees
    <3>2. temporary = Absent /\ temporary = Image(image[t])
      BY <1>2, <3>1 DEF ReplaceFails, Agreement, ThreadAgrees
    <3> QED
      BY <3>2, Kinds
  <2>7. CASE Reply(t)
    BY <1>2, <2>7, ReplyAgreement
  <2>8. CASE EndSession(t)
    <3>1. running # "down" /\ version' >= version
      BY <2>8 DEF EndSession, Mutated, TypeOK
    <3> QED
      BY <1>2, <2>8, <3>1, QuietAgreement DEF EndSession, Stage, Saving
  <2> QED
    BY <1>4, <2>1, <2>2, <2>3, <2>4, <2>5, <2>6, <2>7, <2>8 DEF Thread
<1>5. CASE Stop
  <2>1. Main \in Threads /\ Main \notin Sessions
    BY ThreadAssumption DEF Threads
  <2>2. running # "down" /\ version' >= version
    BY <1>5 DEF Stop, TypeOK
  <2> QED
    BY <1>2, <1>5, <2>1, <2>2, QuietAgreement DEF Stop, Stage, Saving
<1>6. CASE Exit \/ Crash \/ Start
  BY <1>2, <1>6, ProcessAgreement
<1> QED
  BY <1>3, <1>4, <1>5, <1>6 DEF Next

-----------------------------------------------------------------------------
\* The theorems

\* SaveInvariant, for every number of sessions and mutations.
THEOREM SavesAgree == Spec => []SaveInvariant
<1>1. Init => SaveInvariant
  BY Kinds DEF Init, SaveInvariant, NoThreadWhenDown, Agreement, OneSave, ThreadAgrees,
               Saving, AnsweredIsDurable, Absent
<1>2. TypeOK /\ TypeOK' /\ SaveInvariant /\ [Next]_vars => SaveInvariant'
  BY NoThreadStep, AgreementStep DEF SaveInvariant
<1> QED
  BY <1>1, <1>2, StoreTypeCorrect, PTL DEF Spec

\* DurableUnlessOverlapped: saving before the answer is enough, if saves take
\* turns, however many sessions there are and wherever the process is killed.
THEOREM AnswersSurvive == Spec => []DurableUnlessOverlapped
<1>1. SaveInvariant => DurableUnlessOverlapped
  BY DEF SaveInvariant, Agreement, DurableUnlessOverlapped
<1> QED
  BY <1>1, SavesAgree, PTL

\* StoreIsWhole: a kill leaves the old store or the new one, if saves take turns.
THEOREM NeverAMixture == Spec => []StoreIsWhole
<1>1. SaveInvariant => StoreIsWhole
  BY DEF SaveInvariant, Agreement, ThreadAgrees, StoreIsWhole
<1> QED
  BY <1>1, SavesAgree, PTL

\* StoreNeverRegresses: only an overlap replaces a store by an older one.
THEOREM StoreIsMonotone == Spec => StoreNeverRegresses
<1> DEFINE Kept == ~overlapped' /\ store.is = "image" =>
                     store'.is = "image" /\ store'.of >= store.of
<1>1. ASSUME TypeOK, TypeOK', SaveInvariant, [Next]_vars PROVE [Kept]_vars
  <2> SUFFICES ASSUME ~overlapped', store.is = "image"
               PROVE  store'.is = "image" /\ store'.of >= store.of
    OBVIOUS
  <2>1. Agreement
    BY <1>1 DEF SaveInvariant, TypeOK, Next, Thread, Request, Encode, RefuseImage, Open,
         OpenFails, Write, WriteFails, PutAndClose, Replace, ReplaceFails, RemoveStore,
         RemoveTemporary, Reply, EndSession, Stop, Exit, Crash, Start, End, vars
  <2>2. store.of \in 0..MaxVersion
    BY <1>1, FileKinds DEF TypeOK
  <2>3. CASE \E t \in Threads : Replace(t)
    BY <1>1, <2>1, <2>3, ReplaceAgreement
  <2>4. CASE store' = store
    BY <2>2, <2>4
  <2>5. CASE \E t \in Threads : RemoveStore(t)
    BY <2>1, <2>5 DEF RemoveStore, Go, Agreement, ThreadAgrees
  <2>6. CASE \E t \in Threads : Write(t) \/ WriteFails(t)
    BY <2>1, <2>4, <2>6 DEF Write, WriteFails, PutAndClose, Go, Agreement, ThreadAgrees
  <2> QED
    BY <1>1, <2>3, <2>4, <2>5, <2>6
       DEF Next, Thread, Request, Encode, RefuseImage, Open, OpenFails, ReplaceFails,
           RemoveTemporary, Reply, EndSession, Stop, Exit, Crash, Start, End, files, vars
<1> QED
  BY <1>1, StoreTypeCorrect, SavesAgree, PTL DEF Spec, StoreNeverRegresses
=============================================================================
