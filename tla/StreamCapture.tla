--------------------------- MODULE StreamCapture ---------------------------
(***************************************************************************)
(* The capture of one output stream (frontend/capture.py) and its          *)
(* finalization within a deadline (frontend/finalization.py).              *)
(*                                                                         *)
(* Two threads share it.  The event loop counts and queues; the capture's  *)
(* executor has one thread, which opens, writes and syncs the file.  A     *)
(* coroutine that is cancelled while it awaits the executor withdraws its  *)
(* job from the queue, but cannot stop one that the thread has begun.      *)
(***************************************************************************)
EXTENDS Naturals, Sequences

CONSTANTS
  ChunkBytes,           \* bytes of a transport chunk
  MaxBytes,             \* bound: bytes a stream delivers
  TailBytes,            \* CaptureConfig.tail_bytes
  Destinations          \* what to configure: "file", "memory", "discard"

ASSUME CaptureAssumption ==
  /\ ChunkBytes \in Nat \ {0}
  /\ MaxBytes \in Nat /\ TailBytes \in Nat
  /\ Destinations \subseteq {"file", "memory", "discard"}

VARIABLES
  destination,          \* config.capture.directory and .discard
  received, written, committed,
  storage_error,        \* `error` is not None
  file,                 \* "none", "open", "closed"
  executor,             \* the executor exists
  jobs,                 \* its queue
  thread,               \* what its thread does
  feeding,              \* the pump's call of feed
  sealing,              \* the call of seal
  unread,               \* its argument `forced`
  evidence,             \* the OutputResult, once there is one
  durable               \* bytes of the file that a sync has put on the disk

thread_vars == <<written, committed, file, thread, durable>>
loop_vars   == <<received, storage_error, executor, feeding, sealing, unread, evidence>>
capture     == <<destination, jobs, thread_vars, loop_vars>>

NoEvidence == [received |-> 0, committed |-> 0, complete |-> FALSE,
               sealed |-> FALSE, unread_possible |-> FALSE, known |-> FALSE]

Fresh ==
  /\ received = 0 /\ written = 0 /\ committed = 0 /\ durable = 0
  /\ storage_error = FALSE /\ executor = FALSE /\ unread = FALSE
  /\ file = "none" /\ jobs = <<>> /\ thread = "idle"
  /\ feeding = "no" /\ sealing = "no" /\ evidence = NoEvidence

CaptureInit == destination \in Destinations /\ Fresh
-----------------------------------------------------------------------------
(* The event loop: feed, and its cancellation with the pump. *)

Submit(job) == jobs' = Append(jobs, job) /\ executor' = TRUE

\* Whoever submits a job waits for it: it is the only one in the queue.
Withdraw(withdrawn) ==
  jobs' = IF jobs # <<>> /\ Head(jobs) \in withdrawn THEN Tail(jobs) ELSE jobs

Feed ==
  /\ feeding = "no"
  /\ received + ChunkBytes <= MaxBytes
  /\ received' = received + ChunkBytes
  /\ IF destination = "file" /\ ~storage_error
     THEN Submit("write") /\ feeding' = "yes"
     ELSE UNCHANGED <<jobs, executor, feeding>>
  /\ UNCHANGED <<destination, thread_vars, storage_error, sealing, unread, evidence>>

\* The pump is cancelled, whatever it awaits: nobody feeds any more.
CancelFeed ==
  /\ feeding' = IF feeding = "yes" THEN "cancelled" ELSE feeding
  /\ Withdraw({"write"})
  /\ UNCHANGED <<destination, thread_vars, received, storage_error, executor, sealing, unread,
                 evidence>>
-----------------------------------------------------------------------------
(* The executor's thread: write_file and seal_file. *)

ThreadBegins ==
  /\ thread = "idle" /\ jobs # <<>>
  /\ thread' = Head(jobs) /\ jobs' = Tail(jobs)
  /\ UNCHANGED <<destination, written, committed, file, durable, loop_vars>>

\* A write that fails has opened the file or not, and written a part or nothing.
WriteFile(size, fails) ==
  /\ thread' = "idle"
  /\ \E n \in 0..size :
       /\ written' = written + n
       /\ IF fails
          THEN (size > 0 => n < size) /\ file' \in IF n = 0 THEN {file, "open"} ELSE {"open"}
          ELSE n = size /\ file' = "open"
  /\ UNCHANGED <<committed, durable>>

\* The result of a write reaches feed, unless feed was cancelled meanwhile.
ThreadWrites ==
  /\ thread = "write"
  /\ \E fails \in BOOLEAN :
       /\ WriteFile(ChunkBytes, fails)
       /\ storage_error' = (storage_error \/ (fails /\ feeding = "yes"))
  /\ feeding' = IF feeding = "yes" THEN "no" ELSE feeding
  /\ UNCHANGED <<destination, jobs, received, executor, sealing, unread, evidence>>

\* The empty chunk of a stream that delivered none; seal goes on with the file.
ThreadCreates ==
  /\ thread = "create"
  /\ \E fails \in BOOLEAN :
       /\ WriteFile(0, fails)
       /\ storage_error' = (storage_error \/ (fails /\ sealing = "creating"))
  /\ IF sealing = "creating"
     THEN sealing' = "sealing" /\ Submit("seal")
     ELSE UNCHANGED <<sealing, jobs, executor>>
  /\ UNCHANGED <<destination, received, feeding, unread, evidence>>

\* Mutant: bytes count as committed once the thread has written them.
SyncAfterCommit ==
  /\ thread = "seal" /\ file = "open"
  /\ thread' = "synced" /\ committed' = written
  /\ UNCHANGED <<destination, jobs, loop_vars, written, file, durable>>

ThreadSyncs ==
  /\ thread = "seal" /\ file = "open"
  /\ thread' = "synced" /\ durable' = written
  /\ UNCHANGED <<destination, jobs, loop_vars, written, committed, file>>

Kept == IF destination = "discard" THEN 0
        ELSE IF received < TailBytes THEN received ELSE TailBytes

\* Mutant: the evidence of a transport that was given up says nothing of it.
UnforcedEvidence(forced, error) ==
  [received |-> received, committed |-> committed', complete |-> ~error,
   sealed |-> ~error, unread_possible |-> forced, known |-> TRUE]

\* What seal returns.
Evidence(forced, error) ==
  [received |-> received, committed |-> committed',
   complete |-> ~(forced \/ error \/ (destination # "file" /\ received > Kept)),
   sealed |-> ~error, unread_possible |-> forced, known |-> TRUE]

SealReturns(error) ==
  /\ sealing' = "done"
  /\ storage_error' = (storage_error \/ error)
  /\ evidence' = Evidence(unread, storage_error \/ error)

\* The job ends: after the sync, with the close that follows it; or because the
\* sync failed, or there was no file.  Nobody may be waiting for it any more.
ThreadSeals ==
  /\ thread = "synced" \/ thread = "seal"
  /\ committed' = IF thread = "synced" THEN written ELSE committed
  /\ file' = IF file = "open" THEN "closed" ELSE file
  /\ thread' = "idle"
  /\ \E fails \in IF file = "none" THEN {FALSE}
                  ELSE IF thread = "seal" THEN {TRUE} ELSE BOOLEAN :
       IF sealing = "sealing"
       THEN SealReturns(fails)
       ELSE UNCHANGED <<sealing, storage_error, evidence>>
  /\ UNCHANGED <<destination, jobs, written, durable, received, executor, feeding, unread>>
-----------------------------------------------------------------------------
(* The event loop: seal_capture. *)

Seal(forced) ==
  /\ sealing = "no"
  /\ unread' = forced
  /\ UNCHANGED committed
  /\ \/ /\ executor
        /\ Submit("seal") /\ sealing' = "sealing"
        /\ UNCHANGED <<storage_error, evidence>>
     \/ /\ ~executor /\ destination = "file"
        /\ Submit("create") /\ sealing' = "creating"
        /\ UNCHANGED <<storage_error, evidence>>
     \/ /\ ~executor /\ destination # "file"
        /\ sealing' = "done"
        /\ evidence' = Evidence(forced, storage_error)
        /\ UNCHANGED <<jobs, executor, storage_error>>
  /\ UNCHANGED <<destination, written, file, thread, durable, received, feeding>>

\* The deadline expires; the thread may be anywhere, and goes on.
SealExpires ==
  /\ sealing \in {"creating", "sealing"}
  /\ sealing' = "done"
  /\ storage_error' = TRUE
  /\ Withdraw({"create", "seal"})
  /\ evidence' = [NoEvidence EXCEPT !.received = received, !.committed = committed,
                                    !.unread_possible = unread, !.known = TRUE]
  /\ UNCHANGED <<destination, thread_vars, received, executor, feeding, unread>>

\* The next command has captures of its own.
Renew ==
  /\ sealing = "done"
  /\ received' = 0 /\ written' = 0 /\ committed' = 0 /\ durable' = 0
  /\ storage_error' = FALSE /\ executor' = FALSE /\ unread' = FALSE
  /\ file' = "none" /\ jobs' = <<>> /\ thread' = "idle"
  /\ feeding' = "no" /\ sealing' = "no" /\ evidence' = NoEvidence
  /\ UNCHANGED destination

CaptureThread == ThreadBegins \/ ThreadWrites \/ ThreadCreates \/ ThreadSyncs \/ ThreadSeals

CaptureNext ==
  \/ sealing = "no" /\ Feed
  \/ sealing = "no" /\ CancelFeed
  \/ CaptureThread
  \* Only a transport that was given up cancels its pump.
  \/ \E forced \in BOOLEAN :
       feeding # "yes" /\ (feeding = "cancelled" => forced) /\ Seal(forced)
  \/ SealExpires
  \/ Renew

CaptureSpec == CaptureInit /\ [][CaptureNext]_capture
-----------------------------------------------------------------------------
CaptureTypeOK ==
  /\ destination \in Destinations
  /\ received \in Nat /\ written \in Nat /\ committed \in Nat /\ durable \in Nat
  /\ storage_error \in BOOLEAN /\ executor \in BOOLEAN /\ unread \in BOOLEAN
  /\ file \in {"none", "open", "closed"}
  /\ jobs \in {<<>>, <<"write">>, <<"create">>, <<"seal">>}
  /\ thread \in {"idle", "write", "create", "seal", "synced"}
  /\ feeding \in {"no", "yes", "cancelled"}
  /\ sealing \in {"no", "creating", "sealing", "done"}
  /\ evidence \in [received : Nat, committed : Nat, complete : BOOLEAN, sealed : BOOLEAN,
                   unread_possible : BOOLEAN, known : BOOLEAN]

\* The evidence never counts a byte as committed that is not on the disk, though
\* the deadline may find the thread anywhere (finalization.py:22-29).
CommittedIsDurable == evidence.committed <= durable /\ committed <= durable

\* Complete evidence means that the destination holds every byte received: in a
\* file, that all of them were written, synced and counted (capture.py:106-115).
CompleteIsKept ==
  evidence.complete =>
    /\ evidence.received = received
    /\ IF destination = "file"
       THEN durable = received /\ evidence.committed = received
       ELSE received = Kept
=============================================================================
