---------------------------- MODULE DurableStore ----------------------------
(***************************************************************************)
(* The durable store of the coordinator: every session thread answers a    *)
(* request only after it has saved the governor (serve_connection of       *)
(* server.cpp, save and load of governor_codec.cpp), by writing a          *)
(* temporary file and renaming it (write_store_file_atomic of              *)
(* persistence.cpp).  The process may be killed at any step.               *)
(*                                                                         *)
(* The governor's state is the number of mutations it has taken, and an    *)
(* image is that number at the moment of its encoding.  A file is what its *)
(* path names: a thread that has opened it keeps the file when the path    *)
(* is renamed or removed.  What the model leaves out:                      *)
(*                                                                         *)
(*  - The kernel survives: what was written is there after a kill (the     *)
(*    code never syncs), and a rename fails only when its source is gone.  *)
(*  - The coordinator is started with --recover and always has a store.    *)
(*  - Mutations that load itself makes (recovery, a newer configured       *)
(*    epoch) are not counted: nobody was told of them.                     *)
(*                                                                         *)
(* MaxVersion bounds the mutations of a behaviour.                         *)
(***************************************************************************)
EXTENDS Integers

CONSTANTS
  Sessions,    \* session threads of the server
  Main,        \* the main thread, which saves once more at the end
  MaxVersion

ASSUME ThreadAssumption == Main \notin Sessions

ASSUME BoundAssumption == MaxVersion \in Nat

Threads == Sessions \cup {Main}

VARIABLES
  running,     \* whether the process is up, stopping or down
  version,     \* the mutations in the governor's memory
  at,          \* where each thread is
  seen,        \* the version each thread's response speaks of
  image,       \* the image each thread has encoded
  handle,      \* the file each thread has open for writing
  temporary,   \* the file at the path of the store with .tmp appended
  store,       \* the file at the path of the store
  answered,    \* the newest version any client was told of
  overlapped   \* two saves have been under way at once

vars == <<running, version, at, seen, image, handle, temporary, store,
          answered, overlapped>>

files == <<handle, temporary, store>>

Stage ==
  {"idle", "dispatched", "encoded", "opened", "written", "removing", "retrying",
   "cleaning", "saved", "failed"}

\* From the encoding of the image to the end of write_store_file_atomic.
Saving == {"encoded", "opened", "written", "removing", "retrying", "cleaning"}

Absent == [is |-> "absent", of |-> 0]
Empty == [is |-> "empty", of |-> 0]
Torn == [is |-> "torn", of |-> 0]
Image(v) == [is |-> "image", of |-> v]
File == {Absent, Empty, Torn} \cup {Image(v) : v \in 0..MaxVersion}

Init ==
  /\ running = "up"
  /\ version = 0
  /\ at = [t \in Threads |-> "idle"]
  /\ seen = [t \in Threads |-> 0]
  /\ image = [t \in Threads |-> 0]
  /\ handle = [t \in Threads |-> "none"]
  /\ temporary = Absent
  /\ store = Absent
  /\ answered = 0
  /\ overlapped = FALSE

\* A call of the governor that may mutate it.
Mutated == {v \in {version, version + 1} : v <= MaxVersion}

\* Thread t goes from one of the stages in From to stage to.
Go(t, From, to) ==
  /\ at[t] \in From
  /\ at' = [at EXCEPT ![t] = to]

-----------------------------------------------------------------------------
\* A request, from its dispatch to its answer

\* dispatch: a query or a mutation, whose response waits for the save.
Request(t) ==
  /\ t \in Sessions
  /\ running = "up"
  /\ Go(t, {"idle"}, "dispatched")
  /\ \E v \in Mutated :
       /\ version' = v
       /\ seen' = [seen EXCEPT ![t] = v]
  /\ UNCHANGED <<running, image, files, answered, overlapped>>

\* Fault: the state is encoded as the request left it.
EncodeSeen(t) ==
  /\ Go(t, {"dispatched"}, "encoded")
  /\ image' = [image EXCEPT ![t] = seen[t]]
  /\ overlapped' = (overlapped \/ \E u \in Threads \ {t} : at[u] \in Saving)
  /\ UNCHANGED <<running, version, seen, files, answered>>

\* save encodes the state under the shared lock, and lets go of the lock.
Encode(t) ==
  /\ Go(t, {"dispatched"}, "encoded")
  /\ image' = [image EXCEPT ![t] = version]
  /\ overlapped' = (overlapped \/ \E u \in Threads \ {t} : at[u] \in Saving)
  /\ UNCHANGED <<running, version, seen, files, answered>>

\* save refuses a governor that is incoherent or too large for the store.
RefuseImage(t) ==
  /\ Go(t, {"dispatched"}, "failed")
  /\ UNCHANGED <<running, version, seen, image, files, answered, overlapped>>

\* Fault: the store is written in place.
OpenInPlace(t) ==
  /\ Go(t, {"encoded"}, "opened")
  /\ handle' = [handle EXCEPT ![t] = "store"]
  /\ store' = Empty
  /\ UNCHANGED <<running, version, seen, image, temporary, answered, overlapped>>

\* The temporary file is created, or truncated where it is.
Open(t) ==
  /\ Go(t, {"encoded"}, "opened")
  /\ handle' = [handle EXCEPT ![t] = "temporary"]
  /\ temporary' = Empty
  /\ UNCHANGED <<running, version, seen, image, store, answered, overlapped>>

OpenFails(t) ==
  /\ Go(t, {"encoded"}, "failed")
  /\ UNCHANGED <<running, version, seen, image, files, answered, overlapped>>

\* Writing v from the start of a file: over what another thread has written
\* there, the rest of a longer image may remain.
Written(file, v) == IF file = Empty THEN {Image(v)} ELSE {Image(v), Torn}

\* The contents of the file thread t has open; nobody sees those of a file
\* that no path names.
Opened(t) ==
  CASE handle[t] = "temporary" -> temporary
    [] handle[t] = "store" -> store
    [] OTHER -> Empty

\* Fault: the stream is not closed before the rename.
PutAndKeep(t, contents) ==
  /\ temporary' = IF handle[t] = "temporary" THEN contents ELSE temporary
  /\ store' = IF handle[t] = "store" THEN contents ELSE store
  /\ UNCHANGED <<running, version, seen, image, handle, answered, overlapped>>

\* Thread t gives the file it has open new contents, and closes it.
PutAndClose(t, contents) ==
  /\ temporary' = IF handle[t] = "temporary" THEN contents ELSE temporary
  /\ store' = IF handle[t] = "store" THEN contents ELSE store
  /\ handle' = [handle EXCEPT ![t] = "none"]
  /\ UNCHANGED <<running, version, seen, image, answered, overlapped>>

Write(t) ==
  /\ Go(t, {"opened"}, "written")
  /\ \E contents \in Written(Opened(t), image[t]) : PutAndClose(t, contents)

\* A full disk: a part of the image, or nothing, is written.
WriteFails(t) ==
  /\ Go(t, {"opened"}, "failed")
  /\ \E contents \in {Opened(t), Torn} : PutAndClose(t, contents)

\* The files that threads have open when the path of the store is unlinked,
\* and the path of the temporary file with it or not.
Unlinked(h) == IF h = "store" THEN "gone" ELSE h
Renamed(h) == IF h = "temporary" THEN "store" ELSE Unlinked(h)

Rename ==
  /\ temporary # Absent
  /\ store' = temporary
  /\ temporary' = Absent
  /\ handle' = [t \in Threads |-> Renamed(handle[t])]

\* The temporary file replaces the store.
Replace(t) ==
  /\ Go(t, {"written", "retrying"}, "saved")
  /\ Rename
  /\ UNCHANGED <<running, version, seen, image, answered, overlapped>>

\* It is gone: another thread has renamed or removed it.
ReplaceFails(t) ==
  /\ temporary = Absent
  /\ \/ Go(t, {"written"}, "removing")
     \/ Go(t, {"retrying"}, "cleaning")
  /\ UNCHANGED <<running, version, seen, image, files, answered, overlapped>>

\* The fallback removes the store before it tries the rename again.
RemoveStore(t) ==
  /\ Go(t, {"removing"}, "retrying")
  /\ store' = Absent
  /\ handle' = [u \in Threads |-> Unlinked(handle[u])]
  /\ UNCHANGED <<running, version, seen, image, temporary, answered, overlapped>>

RemoveTemporary(t) ==
  /\ Go(t, {"cleaning"}, "failed")
  /\ temporary' = Absent
  /\ handle' = [u \in Threads |-> IF handle[u] = "temporary" THEN "gone" ELSE handle[u]]
  /\ UNCHANGED <<running, version, seen, image, store, answered, overlapped>>

\* Fault: the response is sent whether the save succeeded or not.
ReplyAnyway(t) ==
  /\ t \in Sessions
  /\ Go(t, {"saved", "failed"}, "idle")
  /\ answered' = IF seen[t] > answered THEN seen[t] ELSE answered
  /\ UNCHANGED <<running, version, seen, image, files, overlapped>>

\* The response is sent.
Reply(t) ==
  /\ t \in Sessions
  /\ Go(t, {"saved"}, "idle")
  /\ answered' = IF seen[t] > answered THEN seen[t] ELSE answered
  /\ UNCHANGED <<running, version, seen, image, files, overlapped>>

\* A session ends between requests, when its save failed, or when its response
\* could not be sent; the boot it registered is fenced, and nothing is saved.
EndSession(t) ==
  /\ t \in Sessions
  /\ running = "up"
  /\ Go(t, {"idle", "saved", "failed"}, "idle")
  /\ version' \in Mutated
  /\ UNCHANGED <<running, seen, image, files, answered, overlapped>>

-----------------------------------------------------------------------------
\* The process

\* serve has joined every session, and the main thread saves once more.
Stop ==
  /\ running = "up"
  /\ \A t \in Sessions : at[t] = "idle"
  /\ running' = "stopping"
  /\ Go(Main, {"idle"}, "dispatched")
  /\ UNCHANGED <<version, seen, image, files, answered, overlapped>>

\* No thread and no open file is left; the files stay.
End ==
  /\ running' = "down"
  /\ at' = [t \in Threads |-> "idle"]
  /\ handle' = [t \in Threads |-> "none"]
  /\ UNCHANGED <<version, seen, image, temporary, store, answered, overlapped>>

Exit ==
  /\ running = "stopping"
  /\ at[Main] \in {"saved", "failed"}
  /\ End

Crash ==
  /\ running # "down"
  /\ End

\* A store that is not there is an empty one; one that does not decode keeps
\* the coordinator from starting.
Start ==
  /\ running = "down"
  /\ store.is \in {"absent", "image"}
  /\ running' = "up"
  /\ version' = store.of
  /\ UNCHANGED <<at, seen, image, files, answered, overlapped>>

Thread(t) ==
  \/ Request(t) \/ Encode(t) \/ RefuseImage(t) \/ Open(t) \/ OpenFails(t)
  \/ Write(t) \/ WriteFails(t) \/ Replace(t) \/ ReplaceFails(t)
  \/ RemoveStore(t) \/ RemoveTemporary(t) \/ Reply(t) \/ EndSession(t)

Next ==
  \/ \E t \in Threads : Thread(t)
  \/ Stop \/ Exit \/ Crash \/ Start

Spec == Init /\ [][Next]_vars

-----------------------------------------------------------------------------
\* Properties

\* Everything has its type, and a file is open only while it is written: the
\* stream of write_store_file_atomic is closed before the rename.
TypeOK ==
  /\ running \in {"up", "stopping", "down"}
  /\ version \in 0..MaxVersion
  /\ at \in [Threads -> Stage]
  /\ seen \in [Threads -> 0..MaxVersion]
  /\ image \in [Threads -> 0..MaxVersion]
  /\ handle \in [Threads -> {"none", "temporary", "store", "gone"}]
  /\ \A t \in Threads : handle[t] # "none" => at[t] = "opened"
  /\ temporary \in File
  /\ store \in File
  /\ answered \in 0..MaxVersion
  /\ overlapped \in BOOLEAN

\* A coordinator killed now loses nothing that it has told a client.
AnsweredIsDurable ==
  answered # 0 => store.is = "image" /\ store.of >= answered

\* It does not, as long as no two saves have been under way at once: whatever
\* the order of dispatches, saves and replies, and wherever it is killed.
DurableUnlessOverlapped == ~overlapped => AnsweredIsDurable

\* What a start finds is a whole store or none, the fallback that removes the
\* store is never needed, and a store once there is not replaced by an older
\* one or by none, unless saves overlap.
StoreIsWhole ==
  ~overlapped =>
    /\ store.is \in {"absent", "image"}
    /\ \A t \in Threads : at[t] \notin {"removing", "retrying", "cleaning"}

StoreNeverRegresses ==
  [][~overlapped' /\ store.is = "image" =>
       store'.is = "image" /\ store'.of >= store.of]_vars

-----------------------------------------------------------------------------
\* The inductive invariant behind them

\* One save at a time.
OneSave ==
  \A t, u \in Threads : at[t] \in Saving /\ at[u] \in Saving => t = u

\* What thread t knows of the version, its image and the files.
ThreadAgrees(t) ==
  /\ at[t] \notin {"removing", "retrying", "cleaning"}
  /\ at[t] = "opened" => handle[t] = "temporary" /\ temporary = Empty
  /\ at[t] = "written" => temporary = Image(image[t])
  /\ at[t] \in Saving => image[t] <= version /\ store.of <= image[t]
  /\ t \in Sessions =>
       /\ at[t] = "dispatched" => seen[t] <= version
       /\ at[t] \in Saving => seen[t] <= image[t]
       /\ at[t] = "saved" => store.is = "image" /\ seen[t] <= store.of

\* Threads, memory and files agree.
Agreement ==
  /\ OneSave
  /\ \A t \in Threads : ThreadAgrees(t)
  /\ store.is \in {"absent", "image"}
  /\ running # "down" => store.of <= version
  /\ AnsweredIsDurable

NoThreadWhenDown == running = "down" => \A t \in Threads : at[t] = "idle"

\* They do while no saves have overlapped: this says what the three properties
\* above need, and every step keeps it.
SaveInvariant ==
  /\ NoThreadWhenDown
  /\ ~overlapped => Agreement
=============================================================================
