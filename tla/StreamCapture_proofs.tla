------------------------ MODULE StreamCapture_proofs ------------------------
(***************************************************************************)
(* Proofs about StreamCapture for every size of a chunk, of the tail and   *)
(* of the stream: what the evidence of a stream claims is true, however    *)
(* the capture's thread, a cancelled feed and the deadline interleave.     *)
(***************************************************************************)
EXTENDS StreamCapture, TLAPS

\* The one job that somebody waits for, or that nobody waits for any more, is in the
\* queue or in the thread.
OneJob ==
  /\ sealing = "no" =>
       \/ feeding = "no" /\ jobs = <<>> /\ thread = "idle"
       \/ feeding = "yes" /\ jobs = <<"write">> /\ thread = "idle"
       \/ feeding = "yes" /\ jobs = <<>> /\ thread = "write"
       \/ feeding = "cancelled" /\ jobs = <<>> /\ thread \in {"idle", "write"}
  /\ sealing = "creating" =>
       /\ feeding = "no"
       /\ \/ jobs = <<"create">> /\ thread = "idle"
          \/ jobs = <<>> /\ thread = "create"
  /\ sealing = "sealing" =>
       \/ feeding = "no" /\ jobs = <<"seal">> /\ thread = "idle"
       \/ feeding = "cancelled" /\ jobs = <<"seal">> /\ thread \in {"idle", "write"}
       \/ feeding # "yes" /\ jobs = <<>> /\ thread \in {"seal", "synced"}
  /\ sealing = "done" => feeding # "yes" /\ jobs = <<>>
  /\ thread = "write" => feeding # "no"
  /\ executor => destination = "file"
  /\ ~executor => jobs = <<>> /\ thread = "idle" /\ feeding = "no"

\* What the counters say of the file.
Accounted ==
  /\ committed <= durable /\ durable <= written /\ evidence.committed <= durable
  /\ thread = "synced" => durable = written
  /\ feeding = "yes" => ~storage_error /\ received = written + ChunkBytes
  /\ destination = "file" /\ ~executor => written = 0 /\ received = 0
  /\ storage_error => executor
  /\ destination = "file" /\ ~storage_error /\ feeding = "no" => written = received
  /\ executor /\ ~storage_error /\ feeding = "no" /\ sealing \in {"no", "sealing"} => file = "open"

\* Complete evidence comes from a job that had no trouble, and then nothing is left to do.
Honest ==
  /\ feeding = "cancelled" /\ sealing # "no" => unread
  /\ evidence.complete => sealing = "done" /\ thread = "idle"
  /\ sealing = "done" => evidence.received = received
  /\ CompleteIsKept

IInv == CaptureTypeOK /\ OneJob /\ Accounted /\ Honest

\* A queue of one job, as Submit fills it and the thread empties it.
LEMMA QueueOfOne ==
  ASSUME NEW job
  PROVE  /\ Append(<<>>, job) = <<job>>
         /\ <<job>> # <<>> /\ Head(<<job>>) = job /\ Tail(<<job>>) = <<>>
OBVIOUS

\* A fresh capture satisfies the invariant.
LEMMA InitEstablishes ==
  ASSUME CaptureInit
  PROVE  IInv
<1> USE CaptureAssumption DEF CaptureInit, Fresh, NoEvidence
<1>1. CaptureTypeOK
  BY DEF CaptureTypeOK
<1>2. OneJob
  BY DEF OneJob
<1>3. Accounted
  BY DEF Accounted
<1>4. Honest
  BY DEF Honest, CompleteIsKept
<1> QED BY <1>1, <1>2, <1>3, <1>4 DEF IInv

\* feed: no job was under way, and only a file's write that can succeed is queued.
LEMMA FeedPreserves ==
  ASSUME IInv, sealing = "no", Feed
  PROVE  IInv'
<1> USE CaptureAssumption DEF thread_vars, loop_vars
<1>1. jobs = <<>> /\ thread = "idle" /\ received' \in Nat /\ received' = received + ChunkBytes
  BY DEF IInv, CaptureTypeOK, OneJob, Feed
<1>2. CASE destination = "file" /\ ~storage_error
  <2>1. jobs' = <<"write">> /\ executor' = TRUE /\ feeding' = "yes"
    BY <1>1, <1>2, QueueOfOne DEF Feed, Submit
  <2>2. CaptureTypeOK'
    BY <1>1, <2>1 DEF IInv, CaptureTypeOK, Feed
  <2>3. OneJob'
    BY <1>1, <1>2, <2>1 DEF IInv, OneJob, Feed
  <2>4. Accounted'
    BY <1>1, <1>2, <2>1 DEF IInv, CaptureTypeOK, Accounted, Feed
  <2>5. Honest'
    BY <1>1, <2>1 DEF IInv, Honest, CompleteIsKept, Feed
  <2> QED BY <2>2, <2>3, <2>4, <2>5 DEF IInv
<1>3. CASE ~(destination = "file" /\ ~storage_error)
  <2>1. UNCHANGED <<jobs, executor, feeding>>
    BY <1>3 DEF Feed
  <2>2. CaptureTypeOK'
    BY <1>1, <2>1 DEF IInv, CaptureTypeOK, Feed
  <2>3. OneJob'
    BY <1>1, <2>1 DEF IInv, OneJob, Feed
  <2>4. destination' = "file" => storage_error' /\ executor'
    BY <1>3, <2>1 DEF IInv, CaptureTypeOK, OneJob, Accounted, Feed
  <2>5. Accounted'
    BY <1>1, <2>1, <2>4 DEF IInv, CaptureTypeOK, OneJob, Accounted, Feed
  <2>6. Honest'
    BY <1>1, <2>1 DEF IInv, Honest, CompleteIsKept, Feed
  <2> QED BY <2>2, <2>3, <2>5, <2>6 DEF IInv
<1> QED BY <1>2, <1>3

\* The pump is cancelled: a write is withdrawn, or goes on with nobody to hear of it.
LEMMA CancelFeedPreserves ==
  ASSUME IInv, sealing = "no", CancelFeed
  PROVE  IInv'
<1> USE CaptureAssumption DEF thread_vars, loop_vars
<1>1. jobs' = <<>> /\ (jobs = <<>> \/ jobs = <<"write">>)
  BY QueueOfOne DEF IInv, OneJob, CancelFeed, Withdraw
<1>2. CaptureTypeOK'
  BY <1>1 DEF IInv, CaptureTypeOK, CancelFeed
<1>3. OneJob'
  BY <1>1 DEF IInv, CaptureTypeOK, OneJob, CancelFeed
<1>4. Accounted'
  BY DEF IInv, CaptureTypeOK, Accounted, CancelFeed
<1>5. Honest'
  BY <1>1 DEF IInv, Honest, CompleteIsKept, Kept, CancelFeed
<1> QED BY <1>2, <1>3, <1>4, <1>5 DEF IInv

\* The thread takes the only job.
LEMMA ThreadBeginsPreserves ==
  ASSUME IInv, ThreadBegins
  PROVE  IInv'
<1> USE CaptureAssumption DEF thread_vars, loop_vars
<1>1. \E job \in {"write", "create", "seal"} : jobs = <<job>> /\ thread' = job /\ jobs' = <<>>
  BY QueueOfOne DEF IInv, CaptureTypeOK, ThreadBegins
<1>2. CaptureTypeOK'
  BY <1>1 DEF IInv, CaptureTypeOK, ThreadBegins
<1>3. OneJob'
  BY <1>1, QueueOfOne DEF IInv, CaptureTypeOK, OneJob, ThreadBegins
<1>4. Accounted'
  BY <1>1 DEF IInv, CaptureTypeOK, Accounted, ThreadBegins
<1>5. Honest'
  BY <1>1 DEF IInv, OneJob, Honest, CompleteIsKept, Kept, ThreadBegins
<1> QED BY <1>2, <1>3, <1>4, <1>5 DEF IInv

\* write_file ends: all of the chunk is in the file, or the capture has an error, or
\* nobody waited for it.
LEMMA ThreadWritesPreserves ==
  ASSUME IInv, ThreadWrites
  PROVE  IInv'
<1> USE CaptureAssumption DEF thread_vars, loop_vars
<1>1. PICK fails \in BOOLEAN :
        /\ WriteFile(ChunkBytes, fails)
        /\ storage_error' = (storage_error \/ (fails /\ feeding = "yes"))
  BY DEF ThreadWrites
<1>2. PICK n \in 0..ChunkBytes :
        /\ written' = written + n
        /\ IF fails
           THEN /\ ChunkBytes > 0 => n < ChunkBytes
                /\ file' \in IF n = 0 THEN {file, "open"} ELSE {"open"}
           ELSE n = ChunkBytes /\ file' = "open"
  BY <1>1 DEF WriteFile
<1>3. thread' = "idle" /\ committed' = committed /\ durable' = durable
  BY <1>1 DEF WriteFile
<1>4. written' \in Nat /\ written <= written' /\ (~fails => written' = written + ChunkBytes)
  BY <1>2 DEF IInv, CaptureTypeOK
<1>5. jobs = <<>> \/ jobs = <<"seal">>
  BY QueueOfOne DEF IInv, CaptureTypeOK, OneJob, ThreadWrites
<1>6. CaptureTypeOK'
  BY <1>1, <1>2, <1>3, <1>4 DEF IInv, CaptureTypeOK, ThreadWrites
<1>7. OneJob'
  BY <1>3, <1>5, QueueOfOne DEF IInv, CaptureTypeOK, OneJob, ThreadWrites
<1>8. Accounted'
  <2>1. committed' <= durable' /\ durable' <= written' /\ evidence.committed' <= durable'
    BY <1>3, <1>4 DEF IInv, CaptureTypeOK, Accounted, ThreadWrites
  <2>2. thread' # "synced" /\ feeding' # "yes"
    BY <1>3 DEF IInv, CaptureTypeOK, ThreadWrites
  <2>3. executor' /\ destination' = "file"
    BY DEF IInv, CaptureTypeOK, OneJob, ThreadWrites
  <2>4. feeding' = "no" => feeding = "yes"
    BY DEF IInv, CaptureTypeOK, OneJob, ThreadWrites
  <2>5. ~storage_error' /\ feeding' = "no" /\ feeding = "yes" => written' = received'
    BY <1>1, <1>4 DEF IInv, CaptureTypeOK, Accounted, ThreadWrites
  <2> QED BY <1>1, <1>2, <2>1, <2>2, <2>3, <2>4, <2>5 DEF Accounted
<1>9. Honest'
  BY <1>3 DEF IInv, OneJob, Honest, CompleteIsKept, Kept, ThreadWrites
<1> QED BY <1>6, <1>7, <1>8, <1>9 DEF IInv

\* The empty write of a stream without output: seal goes on, unless it has given up.
LEMMA ThreadCreatesPreserves ==
  ASSUME IInv, ThreadCreates
  PROVE  IInv'
<1> USE CaptureAssumption DEF thread_vars, loop_vars
<1>1. PICK fails \in BOOLEAN :
        /\ WriteFile(0, fails)
        /\ storage_error' = (storage_error \/ (fails /\ sealing = "creating"))
  BY DEF ThreadCreates
<1>2. /\ thread' = "idle" /\ committed' = committed /\ durable' = durable
      /\ written' = written /\ file' \in {file, "open"} /\ (~fails => file' = "open")
  BY <1>1 DEF WriteFile, IInv, CaptureTypeOK
<1>3. jobs = <<>> /\ executor
  BY QueueOfOne DEF IInv, CaptureTypeOK, OneJob, ThreadCreates
<1>4. \/ /\ sealing = "creating" /\ sealing' = "sealing" /\ jobs' = <<"seal">> /\ executor'
         /\ feeding = "no"
      \/ sealing # "creating" /\ UNCHANGED <<sealing, jobs, executor>>
  BY <1>3, QueueOfOne DEF IInv, OneJob, ThreadCreates, Submit
<1>5. CaptureTypeOK'
  <2>1. /\ UNCHANGED <<destination, received, feeding, unread, evidence>>
        /\ storage_error' \in BOOLEAN
    BY <1>1 DEF IInv, CaptureTypeOK, ThreadCreates
  <2>2. /\ sealing' \in {"no", "creating", "sealing", "done"} /\ executor' \in BOOLEAN
        /\ jobs' \in {<<>>, <<"seal">>}
    BY <1>3, <1>4 DEF IInv, CaptureTypeOK
  <2> QED BY <1>2, <2>1, <2>2 DEF IInv, CaptureTypeOK
<1>6. OneJob'
  BY <1>2, <1>3, <1>4 DEF IInv, CaptureTypeOK, OneJob, ThreadCreates
<1>7. Accounted'
  BY <1>1, <1>2, <1>3, <1>4 DEF IInv, CaptureTypeOK, OneJob, Accounted, ThreadCreates
<1>8. Honest'
  BY <1>2, <1>4 DEF IInv, OneJob, Honest, CompleteIsKept, Kept, ThreadCreates
<1> QED BY <1>5, <1>6, <1>7, <1>8 DEF IInv

\* The sync makes durable what is written; nobody counts it yet.
LEMMA ThreadSyncsPreserves ==
  ASSUME IInv, ThreadSyncs
  PROVE  IInv'
<1> USE CaptureAssumption DEF thread_vars, loop_vars
<1>1. CaptureTypeOK'
  BY DEF IInv, CaptureTypeOK, ThreadSyncs
<1>2. OneJob'
  BY DEF IInv, CaptureTypeOK, OneJob, ThreadSyncs
<1>3. Accounted'
  BY DEF IInv, CaptureTypeOK, OneJob, Accounted, ThreadSyncs
<1>4. Honest'
  BY DEF IInv, OneJob, Honest, CompleteIsKept, Kept, ThreadSyncs
<1> QED BY <1>1, <1>2, <1>3, <1>4 DEF IInv

\* What complete evidence, taken when nothing is left to do, rests on.
LEMMA CompleteEvidence ==
  ASSUME CaptureTypeOK, NEW forced \in BOOLEAN, NEW error \in BOOLEAN,
         committed' \in Nat, evidence' = Evidence(forced, error)
  PROVE  /\ evidence'.received = received /\ evidence'.committed = committed'
         /\ evidence'.complete = ~(forced \/ error \/ (destination # "file" /\ received > Kept))
         /\ evidence' \in [received : Nat, committed : Nat, complete : BOOLEAN, sealed : BOOLEAN,
                           unread_possible : BOOLEAN, known : BOOLEAN]
BY DEF Evidence, CaptureTypeOK

\* seal_file ends.  If seal still waits for it, what it returns as complete was written,
\* synced and counted: a feed that was cancelled before had been forced.
LEMMA ThreadSealsPreserves ==
  ASSUME IInv, ThreadSeals
  PROVE  IInv'
<1> USE CaptureAssumption DEF thread_vars, loop_vars
<1>1. PICK fails \in IF file = "none" THEN {FALSE}
                     ELSE IF thread = "seal" THEN {TRUE} ELSE BOOLEAN :
        IF sealing = "sealing"
        THEN SealReturns(fails)
        ELSE UNCHANGED <<sealing, storage_error, evidence>>
  BY DEF ThreadSeals
<1>2. fails \in BOOLEAN /\ executor /\ destination = "file" /\ jobs = <<>>
  BY <1>1 DEF IInv, CaptureTypeOK, OneJob, ThreadSeals
<1>3. /\ committed' \in Nat /\ committed' <= durable /\ committed <= committed'
      /\ thread = "synced" => committed' = written /\ durable = written
  BY DEF IInv, CaptureTypeOK, Accounted, ThreadSeals
<1>4. CASE sealing = "sealing"
  <2>1. /\ sealing' = "done" /\ storage_error' = (storage_error \/ fails)
        /\ evidence' = Evidence(unread, storage_error \/ fails)
    BY <1>1, <1>4 DEF SealReturns
  <2>2. /\ evidence'.received = received /\ evidence'.committed = committed'
        /\ evidence'.complete = ~(unread \/ storage_error \/ fails)
        /\ evidence' \in [received : Nat, committed : Nat, complete : BOOLEAN, sealed : BOOLEAN,
                          unread_possible : BOOLEAN, known : BOOLEAN]
    BY <1>2, <1>3, <2>1, CompleteEvidence DEF IInv, CaptureTypeOK
  <2>3. feeding \in {"no", "cancelled"}
    BY <1>4 DEF IInv, CaptureTypeOK, OneJob, ThreadSeals
  <2>4. CaptureTypeOK'
    BY <1>2, <1>3, <2>1, <2>2 DEF IInv, CaptureTypeOK, ThreadSeals
  <2>5. OneJob'
    BY <1>2, <2>1, <2>3 DEF IInv, OneJob, ThreadSeals
  <2>6. Accounted'
    BY <1>2, <1>3, <2>1, <2>2, <2>3 DEF IInv, CaptureTypeOK, Accounted, ThreadSeals
  <2>7. Honest'
    <3>1. feeding = "cancelled" => unread
      BY <1>4 DEF IInv, Honest
    <3>2. ASSUME ~unread, ~storage_error, ~fails
          PROVE  durable = received /\ committed' = received
      <4>1. feeding = "no" /\ written = received /\ file = "open"
        BY <1>2, <1>4, <2>3, <3>1, <3>2 DEF IInv, Accounted
      <4>2. thread = "synced"
        BY <1>1, <3>2, <4>1 DEF ThreadSeals
      <4> QED BY <1>3, <4>1, <4>2
    <3> QED BY <1>2, <2>1, <2>2, <3>1, <3>2 DEF Honest, CompleteIsKept, ThreadSeals
  <2> QED BY <2>4, <2>5, <2>6, <2>7 DEF IInv
<1>5. CASE sealing # "sealing"
  <2>1. UNCHANGED <<sealing, storage_error, evidence>>
    BY <1>1, <1>5
  <2>2. sealing = "done"
    BY <1>5 DEF IInv, CaptureTypeOK, OneJob, ThreadSeals
  <2>3. CaptureTypeOK'
    BY <1>3, <2>1 DEF IInv, CaptureTypeOK, ThreadSeals
  <2>4. OneJob'
    BY <1>2, <2>1, <2>2 DEF IInv, OneJob, ThreadSeals
  <2>5. Accounted'
    BY <1>2, <1>3, <2>1, <2>2 DEF IInv, CaptureTypeOK, Accounted, ThreadSeals
  <2>6. Honest'
    BY <2>1, <2>2 DEF IInv, Honest, CompleteIsKept, Kept, ThreadSeals
  <2> QED BY <2>3, <2>4, <2>5, <2>6 DEF IInv
<1> QED BY <1>4, <1>5

\* seal begins: with a file to sync, with one to create, or with the evidence at once.
LEMMA SealPreserves ==
  ASSUME IInv, NEW forced \in BOOLEAN, feeding # "yes", feeding = "cancelled" => forced,
         Seal(forced)
  PROVE  IInv'
<1> USE CaptureAssumption DEF thread_vars, loop_vars
<1>1. /\ sealing = "no" /\ jobs = <<>> /\ (thread = "idle" \/ thread = "write")
      /\ UNCHANGED <<destination, written, committed, file, thread, durable, received, feeding>>
      /\ unread' = forced /\ feeding \in {"no", "cancelled"}
  BY DEF IInv, CaptureTypeOK, OneJob, Seal
<1>2. CASE executor
  <2>1. /\ jobs' = <<"seal">> /\ executor' = TRUE /\ sealing' = "sealing"
        /\ UNCHANGED <<storage_error, evidence>>
    BY <1>1, <1>2, QueueOfOne DEF Seal, Submit
  <2>2. CaptureTypeOK'
    BY <1>1, <2>1 DEF IInv, CaptureTypeOK
  <2>3. OneJob'
    BY <1>1, <1>2, <2>1 DEF IInv, OneJob
  <2>4. Accounted'
    BY <1>1, <1>2, <2>1 DEF IInv, Accounted
  <2>5. Honest'
    BY <1>1, <2>1 DEF IInv, Honest, CompleteIsKept
  <2> QED BY <2>2, <2>3, <2>4, <2>5 DEF IInv
<1>3. CASE ~executor /\ destination = "file"
  <2>1. /\ jobs' = <<"create">> /\ executor' = TRUE /\ sealing' = "creating"
        /\ UNCHANGED <<storage_error, evidence>> /\ thread = "idle" /\ feeding = "no"
    BY <1>1, <1>3, QueueOfOne DEF IInv, OneJob, Seal, Submit
  <2>2. CaptureTypeOK'
    BY <1>1, <2>1 DEF IInv, CaptureTypeOK
  <2>3. OneJob'
    BY <1>1, <1>3, <2>1 DEF IInv, OneJob
  <2>4. Accounted'
    BY <1>1, <1>3, <2>1 DEF IInv, Accounted
  <2>5. Honest'
    BY <1>1, <2>1 DEF IInv, Honest, CompleteIsKept
  <2> QED BY <2>2, <2>3, <2>4, <2>5 DEF IInv
<1>4. CASE ~executor /\ destination # "file"
  <2>1. /\ sealing' = "done" /\ evidence' = Evidence(forced, storage_error)
        /\ UNCHANGED <<jobs, executor, storage_error>> /\ thread = "idle" /\ feeding = "no"
    BY <1>1, <1>4 DEF IInv, OneJob, Seal
  <2>2. /\ evidence'.received = received /\ evidence'.committed = committed
        /\ evidence'.complete = ~(forced \/ storage_error \/ received > Kept)
        /\ evidence' \in [received : Nat, committed : Nat, complete : BOOLEAN, sealed : BOOLEAN,
                          unread_possible : BOOLEAN, known : BOOLEAN]
    BY <1>1, <1>4, <2>1, CompleteEvidence DEF IInv, CaptureTypeOK
  <2>3. Kept \in Nat /\ Kept <= received /\ Kept' = Kept
    BY <1>1 DEF IInv, CaptureTypeOK, Kept
  <2>4. CaptureTypeOK'
    BY <1>1, <2>1, <2>2 DEF IInv, CaptureTypeOK
  <2>5. OneJob'
    BY <1>1, <1>4, <2>1 DEF IInv, OneJob
  <2>6. Accounted'
    BY <1>1, <1>4, <2>1, <2>2 DEF IInv, Accounted
  <2>7. Honest'
    BY <1>1, <1>4, <2>1, <2>2, <2>3 DEF IInv, CaptureTypeOK, Honest, CompleteIsKept
  <2> QED BY <2>4, <2>5, <2>6, <2>7 DEF IInv
<1> QED BY <1>2, <1>3, <1>4

\* The deadline expires: the evidence claims what was counted so far, and no more.
LEMMA SealExpiresPreserves ==
  ASSUME IInv, SealExpires
  PROVE  IInv'
<1> USE CaptureAssumption DEF thread_vars, loop_vars
<1>1. jobs \in {<<>>, <<"create">>, <<"seal">>} /\ executor /\ destination = "file"
  BY QueueOfOne DEF IInv, CaptureTypeOK, OneJob, SealExpires
<1>2. jobs' = <<>> /\ feeding \in {"no", "cancelled"}
  <2>1. jobs' = IF jobs # <<>> /\ Head(jobs) \in {"create", "seal"} THEN Tail(jobs) ELSE jobs
    BY DEF SealExpires, Withdraw
  <2>2. jobs' = <<>>
    BY <1>1, <2>1, QueueOfOne
  <2>3. feeding \in {"no", "cancelled"}
    BY DEF IInv, CaptureTypeOK, OneJob, SealExpires
  <2> QED BY <2>2, <2>3
<1>3. /\ evidence'.committed = committed /\ evidence'.complete = FALSE
      /\ evidence'.received = received
      /\ evidence' \in [received : Nat, committed : Nat, complete : BOOLEAN, sealed : BOOLEAN,
                        unread_possible : BOOLEAN, known : BOOLEAN]
  BY DEF IInv, CaptureTypeOK, SealExpires, NoEvidence
<1>4. CaptureTypeOK'
  BY <1>2, <1>3 DEF IInv, CaptureTypeOK, SealExpires
<1>5. OneJob'
  BY <1>1, <1>2 DEF IInv, CaptureTypeOK, OneJob, SealExpires
<1>6. Accounted'
  BY <1>1, <1>2, <1>3 DEF IInv, CaptureTypeOK, Accounted, SealExpires
<1>7. Honest'
  BY <1>3 DEF IInv, Honest, CompleteIsKept, SealExpires
<1> QED BY <1>4, <1>5, <1>6, <1>7 DEF IInv

\* A capture of the next command is as fresh as the first.
LEMMA RenewPreserves ==
  ASSUME IInv, Renew
  PROVE  IInv'
<1> USE CaptureAssumption DEF NoEvidence, Renew
<1>1. CaptureTypeOK'
  BY DEF IInv, CaptureTypeOK
<1>2. OneJob'
  BY DEF OneJob
<1>3. Accounted'
  BY DEF Accounted
<1>4. Honest'
  BY DEF Honest, CompleteIsKept
<1> QED BY <1>1, <1>2, <1>3, <1>4 DEF IInv

\* Every step of a capture preserves the invariant.
LEMMA NextPreserves ==
  ASSUME IInv, [CaptureNext]_capture
  PROVE  IInv'
<1>1. CASE sealing = "no" /\ Feed
  BY <1>1, FeedPreserves
<1>2. CASE sealing = "no" /\ CancelFeed
  BY <1>2, CancelFeedPreserves
<1>3. CASE CaptureThread
  BY <1>3, ThreadBeginsPreserves, ThreadWritesPreserves, ThreadCreatesPreserves,
     ThreadSyncsPreserves, ThreadSealsPreserves DEF CaptureThread
<1>4. CASE \E forced \in BOOLEAN :
             feeding # "yes" /\ (feeding = "cancelled" => forced) /\ Seal(forced)
  BY <1>4, SealPreserves
<1>5. CASE SealExpires
  BY <1>5, SealExpiresPreserves
<1>6. CASE Renew
  BY <1>6, RenewPreserves
<1>7. CASE UNCHANGED capture
  BY <1>7 DEF capture, thread_vars, loop_vars, IInv, CaptureTypeOK, OneJob, Accounted, Honest,
              CompleteIsKept, Kept
<1> QED BY <1>1, <1>2, <1>3, <1>4, <1>5, <1>6, <1>7 DEF CaptureNext

\* IInv is an inductive invariant of a capture.
THEOREM CaptureInvariant == CaptureSpec => []IInv
<1>1. CaptureInit => IInv
  BY InitEstablishes
<1>2. IInv /\ [CaptureNext]_capture => IInv'
  BY NextPreserves
<1> QED BY <1>1, <1>2, PTL DEF CaptureSpec

\* The variables keep their types, and a queue never holds two jobs.
THEOREM CaptureTypeCorrect == CaptureSpec => []CaptureTypeOK
<1>1. IInv => CaptureTypeOK
  BY DEF IInv
<1> QED BY <1>1, CaptureInvariant, PTL

\* The evidence counts no byte as committed that is not on the disk, wherever the
\* deadline finds the thread (finalization.py:22-29).
THEOREM CommittedStaysDurable == CaptureSpec => []CommittedIsDurable
<1>1. IInv => CommittedIsDurable
  BY DEF IInv, Accounted, CommittedIsDurable
<1> QED BY <1>1, CaptureInvariant, PTL

\* Complete evidence is true: the destination holds every byte (capture.py:106-115).
THEOREM CompleteStaysKept == CaptureSpec => []CompleteIsKept
<1>1. IInv => CompleteIsKept
  BY DEF IInv, Honest
<1> QED BY <1>1, CaptureInvariant, PTL

\* The evidence counts every byte that was received.
THEOREM EvidenceCounts == CaptureSpec => [](sealing = "done" => evidence.received = received)
<1>1. IInv => (sealing = "done" => evidence.received = received)
  BY DEF IInv, Honest
<1> QED BY <1>1, CaptureInvariant, PTL
=============================================================================
