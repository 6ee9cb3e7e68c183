------------------------- MODULE NativeDriver_proofs ------------------------
(***************************************************************************)
(* Proofs about NativeDriver for every plan, any number of attempts and    *)
(* cancellations, and streams of any size.                                 *)
(*                                                                         *)
(* The driver is shown to use the capture as CaptureSpec allows: every     *)
(* step of a session is a step of its capture or leaves it alone.  What    *)
(* holds of a capture therefore holds in every session; likewise of its    *)
(* process.                                                                *)
(*                                                                         *)
(* The safety of commands is one inductive invariant, SessionInv, in parts *)
(* that lean on each other: the lines in the control pipe are of the       *)
(* command that runs and are true (ControlInv); so an activation comes     *)
(* after the command has opened its output, the pump sees the real end,    *)
(* and an exit is one (OutputInv); and the supplier hears of the end only  *)
(* when no request can come any more (AuthInv).                            *)
(***************************************************************************)
EXTENDS NativeDriver, StreamCapture_proofs, SequenceTheorems

(***************************************************************************)
(* The process of a session that runs no command: types, and what a close  *)
(* without trouble leaves.  ClosedLeavesNothing speaks of the end of a     *)
(* session only.  What makes it true is who answers for a live shell at    *)
(* any time: the session, which has adopted it, or a start that still      *)
(* waits for its creation; unless that was lost to a second cancellation.  *)
(***************************************************************************)

\* Where start is before it has anything, and once nothing is being created.
Unowned == {"idle", "creating", "awaiting"}
Settled == {"failing", "started", "late", "failed"}

\* The part of the state that the invariant is about.
owned == <<starter, creation, shell, killed, process, directory, closing, troubled, session>>

OwnedTypes ==
  /\ starter \in {"handshaking"} \cup Unowned \cup Settled
  /\ creation \in {"none", "pending", "made", "done", "refused", "lost"}
  /\ shell \in {"absent", "alive", "dead"} /\ killed \in BOOLEAN
  /\ directory \in {"none", "owned", "left", "removed"}
  /\ closing \in [Closers -> {"no", "waiting", "returned", "raised"}]
  /\ process \in BOOLEAN /\ troubled \in BOOLEAN
  /\ session \in {"entering", "open", "stopping", "closing", "closed", "crashed"}

\* How far start is limits what there is, and what the session can be.
Progress ==
  /\ starter = "idle" => creation = "none" /\ directory = "none"
  /\ creation = "none" => starter = "idle"
  /\ creation \in {"pending", "made"} => starter \in {"creating", "awaiting"}
  /\ starter \in {"handshaking", "started", "late"} => creation = "done"
  /\ creation = "lost" => starter = "failed"
  /\ starter \in Unowned => ~process
  /\ process => creation = "done"
  /\ session = "open" => starter = "started"
  /\ starter = "late" => session \notin {"entering", "open"}

\* Who closes, and what he has done so far.
Calls ==
  /\ closing["start"] # "no" => starter = "failing"
  /\ closing["driver"] # "no" => starter = "started" \/ session = "closing"
  /\ \A by \in Closers : closing[by] = "waiting" => killed
  /\ closing["start"] \in {"returned", "raised"} => ~process

\* A live shell has an owner, unless a close had trouble with it or its creation was
\* lost; and what a start adopts after the close it closes or hands over itself.
Answered ==
  /\ creation \in {"none", "pending"} => shell = "absent"
  /\ shell = "alive" => creation \in {"made", "done", "lost"}
  /\ shell = "alive" /\ ~troubled /\ creation # "lost" =>
       process \/ starter \in {"creating", "awaiting"}
  /\ directory = "left" => troubled
  /\ closing["driver"] = "returned" \/ session = "closed" =>
       /\ directory # "owned"
       /\ process => \/ starter \in {"handshaking", "failing", "late"}
                     \/ starter = "failed" /\ killed

PInv == OwnedTypes /\ Progress /\ Calls /\ Answered

\* The session owns nothing before it is entered.
LEMMA ProcessInitEstablishes ==
  ASSUME ProcessInit
  PROVE  PInv
BY DEF ProcessInit, PInv, OwnedTypes, Progress, Calls, Answered, Unowned, Settled, Closers

\* Nothing else matters to the invariant.
LEMMA OwnedFrame ==
  ASSUME PInv, UNCHANGED owned
  PROVE  PInv'
BY DEF owned, PInv, OwnedTypes, Progress, Calls, Answered, Unowned, Settled

\* The handler of start adopts what a finished creation has made.
LEMMA HandlesPreserves ==
  ASSUME PInv, Handles, starter \in {"creating", "handshaking", "awaiting"},
         UNCHANGED <<creation, shell, killed, directory, closing, troubled, session>>
  PROVE  PInv'
<1>1. /\ starter' = "failing" /\ process' = (process \/ creation = "done")
      /\ creation \in {"done", "refused"}
  BY DEF Handles, Created
<1>2. OwnedTypes'
  BY <1>1 DEF PInv, OwnedTypes, Settled
<1>3. Progress'
  BY <1>1 DEF PInv, OwnedTypes, Progress, Unowned
<1>4. Calls'
  <2>1. closing["start"] = "no" /\ starter' = "failing"
    BY <1>1 DEF PInv, Calls
  <2>2. closing["driver"] # "no" => session = "closing"
    BY DEF PInv, Calls
  <2> QED BY <1>1, <2>1, <2>2 DEF PInv, Calls, Closers
<1>5. Answered'
  BY <1>1 DEF PInv, OwnedTypes, Progress, Answered
<1> QED BY <1>2, <1>3, <1>4, <1>5 DEF PInv

\* A cancelled start adopts or awaits what it creates; then its handler loses what the
\* creation has returned, or stops waiting for the close.
LEMMA CancelPreserves ==
  ASSUME PInv, CancelStart
  PROVE  PInv'
<1>1. UNCHANGED <<killed, directory, troubled, session>>
  BY DEF CancelStart
<1>2. CASE /\ starter \in {"creating", "handshaking"} /\ Handles
           /\ UNCHANGED <<creation, shell, closing>>
  BY <1>1, <1>2, HandlesPreserves
<1>3. CASE /\ starter \in {"creating", "handshaking"} /\ starter' = "awaiting" /\ ~Created
           /\ UNCHANGED <<process, creation, shell, closing>>
  <2>1. starter = "creating" /\ creation \in {"pending", "made"}
    BY <1>3 DEF Created, PInv, OwnedTypes, Progress
  <2> QED BY <1>1, <1>3, <2>1 DEF PInv, OwnedTypes, Progress, Calls, Answered, Unowned, Settled,
                                  Closers
<1>4. CASE CancelAwaiting
  <2>1. /\ starter = "awaiting" /\ starter' = "failed" /\ UNCHANGED <<process, closing>>
        /\ \/ creation = "done" /\ creation' = "lost" /\ UNCHANGED shell
           \/ /\ creation' = "refused" /\ creation # "done"
              /\ shell' = IF shell = "alive" THEN "dead" ELSE shell
    BY <1>4 DEF CancelAwaiting
  <2>2. ~process /\ closing["start"] = "no" /\ (closing["driver"] # "no" => session = "closing")
    BY <2>1 DEF PInv, Progress, Calls, Unowned
  <2>3. OwnedTypes' /\ Progress'
    BY <1>1, <2>1, <2>2 DEF PInv, OwnedTypes, Progress, Unowned, Settled
  <2>4. Calls'
    BY <1>1, <2>1, <2>2 DEF PInv, Calls, Closers
  <2>5. Answered'
    BY <1>1, <2>1, <2>2 DEF PInv, OwnedTypes, Answered
  <2> QED BY <2>3, <2>4, <2>5 DEF PInv
<1>5. CASE /\ starter = "failing" /\ closing["start"] = "waiting" /\ starter' = "failed"
           /\ closing' = [closing EXCEPT !["start"] = "no"]
           /\ UNCHANGED <<creation, shell, process>>
  <2>1. killed /\ closing'["start"] = "no" /\ closing'["driver"] = closing["driver"]
    BY <1>5 DEF PInv, OwnedTypes, Calls, Closers
  <2>2. OwnedTypes' /\ Progress'
    BY <1>1, <1>5 DEF PInv, OwnedTypes, Progress, Unowned, Settled
  <2>3. Calls'
    BY <1>1, <1>5, <2>1 DEF PInv, Calls, Closers
  <2>4. Answered'
    BY <1>1, <1>5, <2>1 DEF PInv, OwnedTypes, Answered
  <2> QED BY <2>2, <2>3, <2>4 DEF PInv
<1> QED BY <1>2, <1>3, <1>4, <1>5 DEF CancelStart

\* start and the system: what is created is adopted, or lost, whoever cancels meanwhile.
LEMMA StartPreserves ==
  ASSUME PInv,
         Start \/ Creation \/ CreationReturns \/ ShellGreets \/ Handshake \/ CancelStart
           \/ AdoptLate \/ StartFails
  PROVE  PInv'
<1> USE DEF os_vars, start_vars, close_vars
<1>1. CASE Start
  BY <1>1 DEF Start, PInv, OwnedTypes, Progress, Calls, Answered, Unowned, Settled, Closers
<1>2. CASE Creation
  BY <1>2 DEF Creation, PInv, OwnedTypes, Progress, Calls, Answered, Unowned, Settled, Closers
<1>3. CASE CreationReturns
  <2>1. starter = "creating" /\ UNCHANGED <<creation, shell, killed, directory, closing, troubled,
                                            session>>
    BY <1>3 DEF CreationReturns
  <2>2. CASE Handles
    BY <2>1, <2>2, HandlesPreserves
  <2>3. CASE creation = "done" /\ process' = TRUE /\ starter' = "handshaking"
    <3>1. OwnedTypes' /\ Progress'
      BY <2>1, <2>3 DEF PInv, OwnedTypes, Progress, Unowned, Settled
    <3>2. Calls'
      BY <2>1, <2>3 DEF PInv, Calls, Closers
    <3>3. Answered'
      BY <2>1, <2>3 DEF PInv, OwnedTypes, Answered
    <3> QED BY <3>1, <3>2, <3>3 DEF PInv
  <2> QED BY <1>3, <2>2, <2>3 DEF CreationReturns
<1>4. CASE ShellGreets
  BY <1>4, OwnedFrame DEF ShellGreets, owned
<1>5. CASE Handshake
  <2>1. /\ starter = "handshaking"
        /\ UNCHANGED <<creation, shell, killed, directory, closing, troubled>>
    BY <1>5 DEF Handshake
  <2>2. CASE Handles /\ UNCHANGED session
    BY <2>1, <2>2, HandlesPreserves
  <2>3. CASE /\ UNCHANGED process
             /\ IF session = "entering" THEN starter' = "started" /\ session' = "open"
                ELSE starter' = "late" /\ UNCHANGED session
    <3>1. OwnedTypes' /\ Progress'
      BY <2>1, <2>3 DEF PInv, OwnedTypes, Progress, Unowned, Settled
    <3>2. Calls'
      BY <2>1, <2>3 DEF PInv, Calls, Closers
    <3>3. Answered'
      BY <2>1, <2>3 DEF PInv, OwnedTypes, Progress, Calls, Answered
    <3> QED BY <3>1, <3>2, <3>3 DEF PInv
  <2> QED BY <1>5, <2>2, <2>3 DEF Handshake
<1>6. CASE CancelStart
  BY <1>6, CancelPreserves
<1>7. CASE AdoptLate
  BY <1>7, HandlesPreserves DEF AdoptLate
<1>8. CASE StartFails
  BY <1>8 DEF StartFails, CloseReturned, PInv, OwnedTypes, Progress, Calls, Answered, Unowned,
              Settled, Closers
<1> QED BY <1>1, <1>2, <1>3, <1>4, <1>5, <1>6, <1>7, <1>8

\* close ends: it forgets the process, which is dead, was never adopted, or gave trouble.
LEMMA CloseReturnsPreserves ==
  ASSUME PInv, NEW by \in Closers, NEW error \in BOOLEAN, NEW late \in BOOLEAN,
         CloseReturns(by, error, late),
         by = "start" => starter = "failing",
         by = "driver" => starter = "started" \/ session = "closing",
         shell # "dead" /\ process => error \/ late,
         UNCHANGED <<shell, killed, starter, creation, session>>
  PROVE  PInv'
<1>1. PICK stuck \in BOOLEAN :
        /\ stuck => directory = "owned"
        /\ directory' = IF directory = "owned" THEN IF stuck THEN "left" ELSE "removed"
                        ELSE directory
        /\ troubled' = (troubled \/ error \/ late \/ stuck)
  BY DEF CloseReturns
<1>2. closing' = [closing EXCEPT ![by] = "returned"] /\ process' = FALSE
  BY DEF CloseReturns
<1>3. OwnedTypes'
  BY <1>1, <1>2 DEF PInv, OwnedTypes
<1>4. Progress'
  BY <1>1, <1>2 DEF PInv, OwnedTypes, Progress, Unowned, Settled
<1>5. Calls'
  BY <1>2 DEF PInv, OwnedTypes, Calls, Closers
<1>6. Answered'
  BY <1>1, <1>2 DEF PInv, OwnedTypes, Progress, Answered, Unowned, Settled
<1> QED BY <1>3, <1>4, <1>5, <1>6 DEF PInv

\* Whoever closes, once nothing is being created for him.
LEMMA CloseBeginsPreserves ==
  ASSUME PInv, NEW by \in Closers, CloseBegins(by),
         by = "start" => starter = "failing",
         by = "driver" => starter = "started" \/ session = "closing"
  PROVE  PInv'
<1>1. UNCHANGED <<shell, starter, creation, session>>
  BY DEF CloseBegins, start_vars
<1>2. CASE /\ process /\ Terminate /\ closing' = [closing EXCEPT ![by] = "waiting"]
           /\ UNCHANGED <<process, directory, contained, troubled>>
  <2>1. killed' = TRUE
    BY <1>2 DEF Terminate
  <2>2. OwnedTypes' /\ Progress'
    BY <1>1, <1>2, <2>1 DEF PInv, OwnedTypes, Progress, Unowned, Settled
  <2>3. Calls'
    BY <1>1, <1>2, <2>1 DEF PInv, OwnedTypes, Calls, Closers
  <2>4. Answered'
    BY <1>1, <1>2, <2>1 DEF PInv, OwnedTypes, Calls, Answered, Closers
  <2> QED BY <2>2, <2>3, <2>4 DEF PInv
<1>3. CASE CloseReturns(by, TRUE, FALSE) /\ UNCHANGED killed
  BY <1>1, <1>3, CloseReturnsPreserves
<1>4. CASE ~process /\ CloseReturns(by, FALSE, FALSE) /\ UNCHANGED killed
  BY <1>1, <1>4, CloseReturnsPreserves
<1> QED BY <1>2, <1>3, <1>4 DEF CloseBegins

\* The wait for the shell ends with its death, or with an error.
LEMMA CloseEndsPreserves ==
  ASSUME PInv, NEW by \in Closers, CloseEnds(by)
  PROVE  PInv'
<1>1. /\ UNCHANGED <<shell, killed, starter, creation, session>>
      /\ by = "start" => starter = "failing"
      /\ by = "driver" => starter = "started" \/ session = "closing"
  BY DEF CloseEnds, os_vars, start_vars, PInv, Calls
<1>2. CASE shell = "dead" /\ CloseReturns(by, FALSE, FALSE)
  BY <1>1, <1>2, CloseReturnsPreserves
<1>3. CASE CloseReturns(by, FALSE, TRUE)
  BY <1>1, <1>3, CloseReturnsPreserves
<1>4. CASE /\ ~process /\ closing' = [closing EXCEPT ![by] = "raised"]
           /\ UNCHANGED <<process, directory, contained, troubled>>
  BY <1>1, <1>4 DEF PInv, OwnedTypes, Progress, Calls, Answered, Unowned, Settled, Closers
<1> QED BY <1>2, <1>3, <1>4 DEF CloseEnds

\* The session is left, and closes what it owns.
LEMMA SessionPreserves ==
  ASSUME PInv, NEW left \in BOOLEAN,
         Leave \/ SessionCloses(left) \/ SessionClosing \/ SessionClosed
  PROVE  PInv'
<1> USE DEF os_vars, start_vars, close_vars, Closers
<1>1. CASE Leave
  BY <1>1 DEF Leave, PInv, OwnedTypes, Progress, Calls, Answered, Unowned, Settled
<1>2. CASE SessionCloses(left)
  BY <1>2 DEF SessionCloses, PInv, OwnedTypes, Progress, Calls, Answered, Unowned, Settled
<1>3. CASE SessionClosing
  BY <1>3, CloseBeginsPreserves DEF SessionClosing
<1>4. CASE SessionClosed
  BY <1>4 DEF SessionClosed, CloseReturned, PInv, OwnedTypes, Progress, Calls, Answered, Unowned,
              Settled
<1> QED BY <1>1, <1>2, <1>3, <1>4

\* The shell may die at any time, and complain.
LEMMA ShellPreserves ==
  ASSUME PInv, ShellDies \/ ShellComplains
  PROVE  PInv'
BY DEF ShellDies, ShellComplains, PInv, OwnedTypes, Progress, Calls, Answered, Unowned, Settled,
       start_vars, close_vars

\* Every step of StartNext and CloseNext, whatever else a session does.
LEMMA EntryPreserves ==
  ASSUME PInv, StartNext \/ CloseNext
  PROVE  PInv'
<1>1. CASE StartCloses
  <2>1. starter = "failing" /\ CloseBegins("start")
    BY <1>1 DEF StartCloses
  <2> QED BY <2>1, CloseBeginsPreserves DEF Closers
<1>2. CASE StartNext /\ ~StartCloses
  BY <1>2, StartPreserves DEF StartNext
<1>3. CASE CloseNext
  BY <1>3, CloseEndsPreserves, SessionPreserves DEF CloseNext
<1> QED BY <1>1, <1>2, <1>3

\* Every step of a session that runs no command.
LEMMA ProcessNextPreserves ==
  ASSUME PInv, [ProcessNext]_native
  PROVE  PInv'
<1>1. CASE StartNext \/ CloseNext
  BY <1>1, EntryPreserves
<1>2. CASE ShellComplains \/ ShellDies
  BY <1>2, ShellPreserves
<1>3. CASE Leave \/ SessionCloses(FALSE)
  BY <1>3, SessionPreserves
<1>4. CASE UNCHANGED native
  BY <1>4, OwnedFrame DEF native, owned, os_vars, start_vars, close_vars
<1> QED BY <1>1, <1>2, <1>3, <1>4 DEF ProcessNext

\* What the invariant says of a closed session.
LEMMA ClosedIsClean ==
  ASSUME PInv
  PROVE  ClosedLeavesNothing
BY DEF PInv, OwnedTypes, Progress, Answered, Unowned, Settled, Ended, ClosedLeavesNothing

\* PInv is an inductive invariant of a session that runs no command.
THEOREM ProcessInvariant == ProcessSpec => []PInv
<1>1. ProcessInit => PInv
  BY ProcessInitEstablishes
<1>2. PInv /\ [ProcessNext]_native => PInv'
  BY ProcessNextPreserves
<1> QED BY <1>1, <1>2, PTL DEF ProcessSpec

\* A session that closed without trouble leaves no directory; and, once start has ended,
\* no shell but one that start adopted after the close, or one whose creation was lost to
\* a second cancellation: neither a first cancellation of start nor a close that overlaps
\* with it leaves any other (process.py:98-111, 145-184; session.py:311-318).
THEOREM ProcessLeavesNothing == ProcessSpec => []ClosedLeavesNothing
BY ProcessInvariant, ClosedIsClean, PTL

-----------------------------------------------------------------------------
(* The driver. *)

\* The runner has given its command up.
GivenUp == {"stopping", "forced", "gathering"}

\* Nothing is sealed while a command runs, only a pump waits for feed, and a feed is
\* cancelled only with a command that did not exit.
CaptureUse ==
  /\ at \notin {"idle", "sealing"} => sealing = "no"
  /\ at = "idle" => sealing \in {"no", "done"} /\ (sealing = "no" => feeding = "no")
  /\ at = "preparing" => feeding = "no"
  /\ at \in {"preparing", "executing", "draining"} => outcome = "none"
  /\ at \in GivenUp => outcome = "failed"
  /\ at = "finishing" => outcome = "exited" /\ pump # "reading"
  /\ pump = "reading" => at \in {"executing", "draining"} \cup GivenUp
  /\ feeding = "yes" => pump = "reading"
  /\ feeding = "cancelled" /\ sealing = "no" => outcome = "failed"

\* Whatever the thread does, it neither begins a call of seal nor ends one that has not
\* begun, and a feed that it ends is over.
LEMMA ThreadKeepsUse ==
  ASSUME CaptureThread
  PROVE  /\ sealing = "no" <=> sealing' = "no"
         /\ sealing = "done" => sealing' = "done"
         /\ feeding' = feeding \/ (feeding = "yes" /\ feeding' = "no")
BY DEF CaptureThread, ThreadBegins, ThreadWrites, ThreadCreates, ThreadSyncs, ThreadSeals,
       SealReturns, loop_vars

\* The processes of a command never touch the capture, nor what the runner does with it.
LEMMA CommandLeavesCapture ==
  ASSUME CommandNext
  PROVE  UNCHANGED capture /\ UNCHANGED runner_vars /\ UNCHANGED pump
BY DEF CommandNext, driver_vars

\* The tasks: only the pump feeds, while nothing is sealed.
LEMMA TaskUsesCapture ==
  ASSUME CaptureUse, TaskNext
  PROVE  CaptureUse' /\ [CaptureNext]_capture
<1> USE DEF GivenUp, runner_vars, capture, loop_vars, thread_vars
<1>1. CASE Activate
  BY <1>1 DEF Activate, CaptureUse
<1>2. CASE Pump
  <2>1. CASE Feed /\ UNCHANGED pump
    <3>1. sealing = "no"
      BY <1>2 DEF Pump, CaptureUse
    <3>2. CaptureNext
      BY <2>1, <3>1 DEF CaptureNext
    <3>3. CaptureUse'
      BY <1>2, <2>1, <3>1 DEF Pump, CaptureUse, Feed
    <3> QED BY <3>2, <3>3
  <2>2. CASE pump' = "eof" /\ UNCHANGED capture
    BY <1>2, <2>2 DEF Pump, CaptureUse
  <2> QED BY <1>2, <2>1, <2>2 DEF Pump
<1>3. CASE Supply
  BY <1>3 DEF Supply, CaptureUse
<1>4. CASE Captures
  BY <1>4, ThreadKeepsUse DEF Captures, CaptureNext, CaptureUse, driver_vars
<1> QED BY <1>1, <1>2, <1>3, <1>4 DEF TaskNext

\* Giving up cancels the pump of a drain, and no other.
LEMMA FailsUsesCapture ==
  ASSUME CaptureUse, at \in {"preparing", "executing", "draining"}, Fails
  PROVE  CaptureUse' /\ [CaptureNext]_capture
<1> USE DEF GivenUp, capture, loop_vars, thread_vars
<1>1. CASE CancelFeed /\ pump' = "cancelled"
  <2>1. sealing = "no" /\ sealing' = "no" /\ feeding' # "yes"
    BY <1>1 DEF CaptureUse, CancelFeed
  <2>2. CaptureNext
    BY <1>1, <2>1 DEF CaptureNext
  <2>3. CaptureUse'
    BY <1>1, <2>1 DEF CaptureUse, Fails
  <2> QED BY <2>2, <2>3
<1>2. CASE UNCHANGED <<capture, pump>>
  BY <1>2 DEF CaptureUse, Fails
<1> QED BY <1>1, <1>2 DEF Fails

\* The runner: it seals once, after the pump, and forces the capture of a command that
\* did not exit.
LEMMA RunnerUsesCapture ==
  ASSUME CaptureUse, RunnerNext
  PROVE  CaptureUse' /\ [CaptureNext]_capture
<1> USE DEF GivenUp, capture, loop_vars, thread_vars, driver_vars, runner_vars, runner_else
<1>1. CASE Prepare
  <2>1. CASE sealing = "done" /\ Renew
    BY <1>1, <2>1 DEF Prepare, CaptureUse, Renew, CaptureNext
  <2>2. CASE sealing # "done" /\ UNCHANGED capture
    BY <1>1, <2>2 DEF Prepare, CaptureUse
  <2> QED BY <1>1, <2>1, <2>2 DEF Prepare
<1>2. CASE Execute
  BY <1>2 DEF Execute, CaptureUse
<1>3. CASE ReadControl
  BY <1>3 DEF ReadControl, CaptureUse
<1>4. CASE LosesShell \/ Stopped \/ DrainExpires \/ Breaks
  BY <1>4, FailsUsesCapture DEF LosesShell, Stopped, DrainExpires, Breaks, Waiting
<1>5. CASE Drained
  BY <1>5 DEF Drained, CaptureUse
<1>6. CASE SoftStop
  BY <1>6 DEF SoftStop, CaptureUse
<1>7. CASE StopCloses
  BY <1>7 DEF StopCloses, CaptureUse
<1>8. CASE StopClosed
  BY <1>8 DEF StopClosed, CaptureUse
<1>9. CASE Finish
  <2>1. CASE pump = "reading" /\ CancelFeed
    <3>1. sealing = "no" /\ sealing' = "no" /\ feeding' # "yes" /\ outcome = "failed"
      BY <1>9, <2>1 DEF CaptureUse, CancelFeed, Finish
    <3>2. CaptureNext
      BY <2>1, <3>1 DEF CaptureNext
    <3>3. CaptureUse'
      BY <1>9, <2>1, <3>1 DEF CaptureUse, Finish
    <3> QED BY <3>2, <3>3
  <2>2. CASE pump # "reading" /\ UNCHANGED capture
    BY <1>9, <2>2 DEF Finish, CaptureUse
  <2> QED BY <1>9, <2>1, <2>2 DEF Finish
<1>10. CASE Finalize
  <2>1. at = "sealing" /\ at' = "sealing" /\ UNCHANGED <<outcome, pump>>
    BY <1>10 DEF Finalize
  <2>2. feeding # "yes"
    BY <2>1 DEF CaptureUse
  <2>3. CASE Seal(outcome # "exited")
    <3>1. sealing = "no" /\ sealing' # "no" /\ feeding' = feeding
      BY <2>3 DEF Seal
    <3>2. CaptureNext
      BY <2>2, <2>3, <3>1 DEF CaptureNext, CaptureUse
    <3>3. CaptureUse'
      BY <2>1, <2>2, <3>1 DEF CaptureUse
    <3> QED BY <3>2, <3>3
  <2>4. CASE SealExpires
    <3>1. sealing' = "done" /\ feeding' = feeding
      BY <2>4 DEF SealExpires
    <3> QED BY <2>1, <2>2, <2>4, <3>1 DEF CaptureUse, CaptureNext
  <2> QED BY <1>10, <2>3, <2>4 DEF Finalize
<1>11. CASE Settle
  BY <1>11 DEF Settle, CaptureUse
<1>12. CASE LeaveSession
  BY <1>12 DEF LeaveSession, CaptureUse
<1> QED BY <1>1, <1>2, <1>3, <1>4, <1>5, <1>6, <1>7, <1>8, <1>9, <1>10, <1>11, <1>12
        DEF RunnerNext

\* Every step of a session is one of its capture, or leaves it alone.
LEMMA NextUsesCapture ==
  ASSUME CaptureUse, [Next]_vars
  PROVE  CaptureUse' /\ [CaptureNext]_capture
<1>1. CASE CommandNext
  BY <1>1, CommandLeavesCapture
     DEF CaptureUse, capture, loop_vars, thread_vars, runner_vars
<1>2. CASE TaskNext
  BY <1>2, TaskUsesCapture
<1>3. CASE RunnerNext
  BY <1>3, RunnerUsesCapture
<1>4. CASE EntryNext \/ UNCHANGED vars
  BY <1>4 DEF EntryNext, vars, CaptureUse, capture, loop_vars, thread_vars, runner_vars,
              driver_vars
<1> QED BY <1>1, <1>2, <1>3, <1>4 DEF Next

\* A session starts with a capture that is configured and fresh.
LEMMA InitUsesCapture ==
  ASSUME Init
  PROVE  CaptureInit /\ CaptureUse
BY PlansAssumption DEF Init, CaptureInit, Fresh, CaptureUse, GivenUp

\* A native session implements the specification of its capture: execution.py and
\* driver.py keep the order on which capture.py relies.
THEOREM SessionImplementsCapture == Spec => CaptureSpec
<1>1. Init => CaptureInit /\ CaptureUse
  BY InitUsesCapture
<1>2. CaptureUse /\ [Next]_vars => CaptureUse' /\ [CaptureNext]_capture
  BY NextUsesCapture
<1> QED BY <1>1, <1>2, PTL DEF Spec, CaptureSpec

\* In every session, what the evidence counts as committed is on the disk.
THEOREM SessionCommitsDurably == Spec => []CommittedIsDurable
BY SessionImplementsCapture, CommittedStaysDurable, PTL

\* In every session, complete evidence is true.
THEOREM SessionKeepsComplete == Spec => []CompleteIsKept
BY SessionImplementsCapture, CompleteStaysKept, PTL
-----------------------------------------------------------------------------
(* The shell of a session that runs commands.                               *)

\* Commands run only in a shell that start has handed over.
ShellInv == PInv /\ (at # "idle" => starter = "started")

\* The commands do to the shell what it may do by itself.
LEMMA CommandKeepsShell ==
  ASSUME ShellInv, CommandNext
  PROVE  ShellInv'
<1> USE DEF process_else, start_vars, close_vars, os_vars
<1>1. UNCHANGED at
  BY DEF CommandNext, runner_vars
<1>2. CASE ShellEnds
  <2>1. starter' = starter
    BY <1>2 DEF ShellEnds, ShellDies
  <2> QED BY <1>1, <1>2, <2>1, ShellPreserves DEF ShellEnds, ShellInv
<1>3. CASE ShellComplains
  <2>1. starter' = starter
    BY <1>3 DEF ShellComplains
  <2> QED BY <1>1, <1>3, <2>1, ShellPreserves DEF ShellInv
<1>4. CASE JobBegins \/ JobCannotOpen \/ JobAuthenticates \/ JobAuthenticated
             \/ BridgeDies \/ ShellReports
  <2>1. UNCHANGED owned
    BY <1>4 DEF owned, JobBegins, JobCannotOpen, JobAuthenticates, JobAuthenticated, BridgeDies,
                ShellReports, Prints
  <2> QED BY <1>1, <2>1, OwnedFrame DEF ShellInv, owned
<1>5. CASE Authenticates \/ Writes \/ LeavesBehind \/ DescendantCloses \/ DescendantEnds
             \/ JobEnds
  <2>1. UNCHANGED owned
    BY <1>5 DEF owned, native, Authenticates, Writes, LeavesBehind, DescendantCloses,
                DescendantEnds, JobEnds
  <2> QED BY <1>1, <2>1, OwnedFrame DEF ShellInv, owned
<1> QED BY <1>2, <1>3, <1>4, <1>5 DEF CommandNext

\* The tasks do not touch the shell.
LEMMA TaskKeepsShell ==
  ASSUME ShellInv, TaskNext
  PROVE  ShellInv'
<1>1. UNCHANGED at /\ UNCHANGED owned
  BY DEF TaskNext, Activate, Pump, Supply, Captures, runner_vars, native, owned, os_vars,
         start_vars, close_vars
<1> QED BY <1>1, OwnedFrame DEF ShellInv, owned

\* The runner starts a command in an open session, and closes the shell to stop one.
LEMMA RunnerKeepsShell ==
  ASSUME ShellInv, RunnerNext
  PROVE  ShellInv'
<1> USE DEF process_else, start_vars, close_vars, os_vars, owned
<1>1. CASE Prepare
  <2>1. UNCHANGED owned /\ session = "open"
    BY <1>1 DEF Prepare
  <2>2. starter = "started"
    BY <2>1 DEF ShellInv, PInv, Progress
  <2> QED BY <2>1, <2>2, OwnedFrame DEF ShellInv
<1>2. CASE Execute \/ Drained \/ SoftStop \/ Finish \/ Finalize \/ Settle
  <2>1. UNCHANGED owned /\ at # "idle"
    BY <1>2 DEF Execute, Drained, SoftStop, Finish, Finalize, Settle, native
  <2> QED BY <2>1, OwnedFrame DEF ShellInv
<1>3. CASE ReadControl \/ LosesShell \/ Stopped \/ DrainExpires \/ Breaks
  <2>1. UNCHANGED owned /\ at # "idle"
    BY <1>3 DEF ReadControl, LosesShell, Stopped, DrainExpires, Breaks, Waiting, Fails
  <2> QED BY <2>1, OwnedFrame DEF ShellInv
<1>4. CASE StopCloses
  <2>1. at' = at /\ starter = "started" /\ starter' = starter
    BY <1>4 DEF StopCloses, ShellInv, runner_vars, CloseBegins, Terminate
  <2> QED BY <1>4, <2>1, CloseBeginsPreserves DEF StopCloses, ShellInv, Closers
<1>5. CASE StopClosed
  <2>1. PInv'
    BY <1>5 DEF StopClosed, CloseReturned, ShellInv, PInv, OwnedTypes, Progress, Calls, Answered,
                Unowned, Settled, Closers
  <2>2. starter' = starter /\ at # "idle"
    BY <1>5 DEF StopClosed
  <2> QED BY <2>1, <2>2 DEF ShellInv
<1>6. CASE LeaveSession
  <2>1. at' = at /\ starter' = starter /\ Leave
    BY <1>6 DEF LeaveSession, Leave
  <2> QED BY <2>1, SessionPreserves DEF ShellInv
<1> QED BY <1>1, <1>2, <1>3, <1>4, <1>5, <1>6 DEF RunnerNext

\* A start that is over does not change any more.
LEMMA EntryKeepsShell ==
  ASSUME ShellInv, EntryNext
  PROVE  ShellInv'
<1>1. at' = at
  BY DEF EntryNext, runner_vars
<1>2. starter = "started" => starter' = "started"
  BY DEF EntryNext, StartNext, CloseNext, Start, Creation, CreationReturns, ShellGreets, Handshake,
         CancelStart, CancelAwaiting, AdoptLate, StartCloses, StartFails, CloseEnds, SessionClosing,
         SessionClosed, SessionCloses, CloseBegins, Terminate, start_vars
<1>3. PInv'
  BY EntryPreserves, SessionPreserves DEF EntryNext, ShellInv
<1> QED BY <1>1, <1>2, <1>3 DEF ShellInv

\* ShellInv is an inductive invariant of a session that runs commands.
THEOREM ShellInvariant == Spec => []ShellInv
<1>1. Init => ShellInv
  BY ProcessInitEstablishes DEF Init, ShellInv
<1>2. ShellInv /\ [Next]_vars => ShellInv'
  <2>1. ASSUME ShellInv, UNCHANGED vars
        PROVE  ShellInv'
    BY <2>1, OwnedFrame DEF ShellInv, vars, runner_vars, native, owned, os_vars, start_vars,
                            close_vars
  <2> QED BY <2>1, CommandKeepsShell, TaskKeepsShell, RunnerKeepsShell, EntryKeepsShell DEF Next
<1> QED BY <1>1, <1>2, PTL DEF Spec

\* What a session that closed without trouble leaves is no more after its commands,
\* whatever they did to the shell and whoever stopped them (termination.py:14-42,
\* process.py:145-184).
THEOREM SessionLeavesNothing == Spec => []ClosedLeavesNothing
<1>1. ShellInv => ClosedLeavesNothing
  BY ClosedIsClean DEF ShellInv
<1> QED BY <1>1, ShellInvariant, PTL
-----------------------------------------------------------------------------
(* The control channel.                                                     *)

ProtocolLines ==
  {"session-ready", "auth_ready", "granted", "denied", "ready", "startup_failure", "status"}

\* A session is usable until it gives a command up, and only then is its group killed
\* while it is open.
Usability ==
  /\ at \in {"idle", "preparing", "executing", "draining", "finishing", "sealing"} \cup GivenUp
  /\ at \in {"preparing", "executing", "draining", "finishing"} => usable
  /\ at \in GivenUp => ~usable
  /\ starter # "started" => usable
  /\ killed => \/ ~usable \/ starter \in {"failing", "failed"}
               \/ session \in {"closing", "closed", "crashed"}

\* Between commands nothing runs, and nothing is read.
Between ==
  /\ at \in {"idle", "preparing", "sealing"} => job = "none" /\ pump = "none"
  /\ at \in {"draining", "finishing"} => job = "none"
  /\ at = "preparing" => /\ ~ready /\ sudo = "off" /\ keeper
                         /\ kind = "elevated" => auth_keeper

\* What the control pipe holds is true, is of the command that runs, and ends with its
\* status.
LinesInv ==
  /\ control \in Seq(ProtocolLines)
  /\ starter # "started" => control \in {<<>>, <<"session-ready">>}
  /\ starter = "started" /\ (at # "executing" \/ ~usable) => control = <<>>
  /\ job = "sourced" => /\ control = <<>> /\ ~ready /\ sudo = "off"
                        /\ kind = "elevated" => auth_keeper
  /\ authenticated => sudo = "granted"
  /\ \A i \in 1..Len(control) :
       /\ control[i] = "status" => i = Len(control) /\ job = "none"
       /\ control[i] = "granted" => sudo = "granted"

ControlInv == Usability /\ Between /\ LinesInv

\* What a command prints follows what the pipe holds.
LEMMA PrintsAppends ==
  ASSUME control \in Seq(ProtocolLines), NEW lines \in Seq(ProtocolLines), Prints(lines)
  PROVE  /\ control' \in Seq(ProtocolLines)
         /\ ~usable => control' = control
         /\ usable => /\ Len(control') = Len(control) + Len(lines)
                      /\ \A i \in 1..Len(control') :
                           control'[i] = IF i <= Len(control) THEN control[i]
                                         ELSE lines[i - Len(control)]
<1>1. CASE usable
  <2>1. control' = control \o lines
    BY <1>1 DEF Prints
  <2> QED BY <1>1, <2>1, ConcatProperties
<1>2. CASE ~usable
  BY <1>2 DEF Prints
<1> QED BY <1>1, <1>2

\* The lines of a command that goes on keep LinesInv, if they tell the truth.
LEMMA PrintsTruth ==
  ASSUME LinesInv, starter = "started", starter' = "started", job # "none", job' # "sourced",
         UNCHANGED <<at, usable, authenticated>>, usable => at = "executing",
         NEW lines \in Seq(ProtocolLines), Prints(lines),
         \A i \in 1..Len(lines) :
           /\ lines[i] = "status" => i = Len(lines) /\ job' = "none"
           /\ lines[i] = "granted" => sudo' = "granted",
         sudo = "granted" => sudo' = "granted"
  PROVE  LinesInv'
<1>1. /\ control' \in Seq(ProtocolLines) /\ Len(control) \in Nat /\ Len(lines) \in Nat
      /\ ~usable => control' = control
      /\ usable => /\ Len(control') = Len(control) + Len(lines)
                   /\ \A i \in 1..Len(control') :
                        control'[i] = IF i <= Len(control) THEN control[i]
                                      ELSE lines[i - Len(control)]
  BY PrintsAppends, LenProperties DEF LinesInv
<1>2. ASSUME NEW i \in 1..Len(control')
      PROVE  /\ control'[i] = "status" => i = Len(control') /\ job' = "none"
             /\ control'[i] = "granted" => sudo' = "granted"
  <2>1. CASE ~usable
    BY <1>1, <1>2, <2>1 DEF LinesInv
  <2>2. CASE usable /\ i <= Len(control)
    BY <1>1, <1>2, <2>2 DEF LinesInv
  <2>3. CASE usable /\ i > Len(control)
    <3>1. PICK j \in 1..Len(lines) : i = Len(control) + j /\ control'[i] = lines[j]
      <4>1. i \in Int /\ i - Len(control) \in 1..Len(lines)
        BY <1>1, <1>2, <2>3
      <4>2. control'[i] = lines[i - Len(control)] /\ i = Len(control) + (i - Len(control))
        BY <1>1, <1>2, <2>3, <4>1
      <4> QED BY <4>1, <4>2
    <3> QED BY <1>1, <2>3, <3>1
  <2> QED BY <1>1, <1>2, <2>1, <2>2, <2>3
<1> QED BY <1>1, <1>2 DEF LinesInv

\* Lines that promise nothing.
Plain(lines) ==
  /\ lines \in Seq(ProtocolLines)
  /\ \A i \in 1..Len(lines) : lines[i] \notin {"status", "granted"}

\* What a bridge prints of anything but a granted authentication and its status.
LEMMA PlainLines ==
  /\ Plain(<<>>) /\ Plain(<<"ready">>) /\ Plain(<<"auth_ready">>)
  /\ Plain(<<"ready", "startup_failure">>) /\ Plain(<<"denied", "ready">>)
<1> USE DEF Plain, ProtocolLines
<1>1. Plain(<<>>) /\ Plain(<<"ready">>) /\ Plain(<<"auth_ready">>)
  OBVIOUS
<1>2. Plain(<<"ready", "startup_failure">>)
  OBVIOUS
<1>3. Plain(<<"denied", "ready">>)
  OBVIOUS
<1> QED BY <1>1, <1>2, <1>3

\* What the command's processes do to the control channel.
LEMMA CommandKeepsControl ==
  ASSUME ControlInv, ShellInv, CommandNext
  PROVE  ControlInv'
<1> USE DEF process_else, start_vars, close_vars, os_vars, native, runner_vars, driver_vars,
            process_vars, authentication, bridge_vars, pipe_vars, supplier_vars
<1>a. UNCHANGED <<at, usable, kind, authenticated, ready, keeper, auth_keeper, pump>>
  BY DEF CommandNext
<1>b. job # "none" => starter = "started" /\ (usable => at = "executing")
  BY DEF ControlInv, Usability, Between, ShellInv
<1>p. ASSUME job # "none", job' \notin {"none", "sourced"}, NEW lines, Plain(lines), Prints(lines),
             UNCHANGED <<starter, session>>, sudo = "granted" => sudo' = "granted"
      PROVE  ControlInv'
  <2>1. LinesInv'
    BY <1>a, <1>b, <1>p, PrintsTruth DEF ControlInv, Plain
  <2> QED BY <1>a, <1>b, <1>p, <2>1 DEF ControlInv, Usability, Between, Prints
<1>1. CASE JobBegins
  BY <1>1, <1>p, PlainLines DEF JobBegins
<1>2. CASE JobCannotOpen
  <2>1. LinesInv'
    BY <1>a, <1>2 DEF JobCannotOpen, ControlInv, LinesInv
  <2> QED BY <1>a, <1>b, <1>2, <2>1 DEF JobCannotOpen, ControlInv, Usability, Between
<1>3. CASE JobAuthenticates
  <2>1. Plain(<<"auth_ready">>) /\ Plain(<<>>) /\ sudo = "off"
    BY <1>3, PlainLines DEF JobAuthenticates, ControlInv, LinesInv
  <2>2. CASE kind = "elevated"
    BY <1>3, <1>p, <2>1, <2>2 DEF JobAuthenticates
  <2>3. CASE kind # "elevated"
    BY <1>3, <1>p, <2>1, <2>3 DEF JobAuthenticates
  <2> QED BY <2>2, <2>3
<1>4. CASE JobAuthenticated
  <2>1. CASE sudo = "granted" /\ job' = "running" /\ Prints(<<"granted", "ready">>)
    <3>1. /\ <<"granted", "ready">> \in Seq(ProtocolLines) /\ Len(<<"granted", "ready">>) = 2
          /\ <<"granted", "ready">>[1] = "granted" /\ <<"granted", "ready">>[2] = "ready"
      BY DEF ProtocolLines
    <3>2. /\ \A i \in 1..Len(<<"granted", "ready">>) : <<"granted", "ready">>[i] # "status"
          /\ sudo' = "granted" /\ job # "none" /\ job' = "running" /\ starter' = starter
      BY <1>4, <2>1, <3>1 DEF JobAuthenticated
    <3>4. LinesInv'
      BY <1>a, <1>b, <2>1, <3>1, <3>2, PrintsTruth DEF ControlInv
    <3>3. UNCHANGED <<killed, starter, session, sudo>> /\ job # "none"
      BY <1>4, <2>1 DEF JobAuthenticated, Prints
    <3> QED BY <1>a, <1>b, <2>1, <3>3, <3>4 DEF ControlInv, Usability, Between
  <2>2. CASE /\ job' = "ended"
             /\ Prints(<<"denied", "ready">>) \/ Prints(<<"ready", "startup_failure">>)
    BY <1>4, <1>p, <2>2, PlainLines DEF JobAuthenticated
  <2> QED BY <1>4, <2>1, <2>2 DEF JobAuthenticated
<1>5. CASE Authenticates
  <2>1. sudo # "granted" /\ UNCHANGED <<job, control>> /\ job = "opened"
    BY <1>5 DEF Authenticates, SudoDecides, BridgeAsks, BridgeReads
  <2>2. LinesInv'
    BY <1>a, <1>5, <2>1 DEF Authenticates, ControlInv, LinesInv
  <2> QED BY <1>a, <1>b, <1>5, <2>1, <2>2 DEF Authenticates, ControlInv, Usability, Between
<1>6. CASE Writes \/ LeavesBehind \/ DescendantCloses \/ DescendantEnds
  BY <1>a, <1>6 DEF Writes, LeavesBehind, DescendantCloses, DescendantEnds, ControlInv, Usability,
                    Between, LinesInv
<1>7. CASE JobEnds \/ BridgeDies
  <2>1. /\ job # "none" /\ job' = "ended" /\ UNCHANGED <<sudo, control, starter, session, killed>>
    BY <1>7 DEF JobEnds, BridgeDies, JobLives
  <2>2. LinesInv'
    BY <1>a, <2>1 DEF ControlInv, LinesInv
  <2> QED BY <1>a, <1>b, <2>1, <2>2 DEF ControlInv, Usability, Between
<1>8. CASE ShellReports
  <2>1. /\ <<"status">> \in Seq(ProtocolLines) /\ Len(<<"status">>) = 1
        /\ <<"status">>[1] = "status"
    BY DEF ProtocolLines
  <2>2. /\ \A i \in 1..Len(<<"status">>) : i = 1 /\ <<"status">>[i] = "status"
        /\ job # "none" /\ job' = "none" /\ Prints(<<"status">>)
        /\ UNCHANGED <<starter, session, sudo>>
    BY <1>8, <2>1 DEF ShellReports
  <2>4. LinesInv'
    BY <1>a, <1>b, <2>1, <2>2, PrintsTruth DEF ControlInv
  <2>3. UNCHANGED <<killed, starter, session, sudo>> /\ job # "none" /\ job' = "none"
    BY <1>8 DEF ShellReports, Prints
  <2> QED BY <1>a, <1>b, <2>3, <2>4 DEF ControlInv, Usability, Between
<1>9. CASE ShellEnds
  <2>1. job' = job \/ (job # "none" /\ job' = "ended")
    BY <1>9 DEF ShellEnds, JobLives
  <2>2. UNCHANGED <<sudo, control, starter, session, killed>>
    BY <1>9 DEF ShellEnds, ShellDies
  <2>3. LinesInv'
    BY <1>a, <2>1, <2>2 DEF ControlInv, LinesInv
  <2> QED BY <1>a, <1>b, <2>1, <2>2, <2>3 DEF ControlInv, Usability, Between
<1>10. CASE ShellComplains /\ UNCHANGED <<process_vars, authentication>>
  BY <1>a, <1>10 DEF ShellComplains, ControlInv, Usability, Between, LinesInv
<1> QED BY <1>1, <1>2, <1>3, <1>4, <1>5, <1>6, <1>7, <1>8, <1>9, <1>10 DEF CommandNext

\* The tasks read nothing from the control pipe.
LEMMA TaskKeepsControl ==
  ASSUME ControlInv, CaptureUse, TaskNext
  PROVE  ControlInv'
<1> USE DEF native, os_vars, start_vars, close_vars, runner_vars, driver_vars, process_vars,
            authentication, bridge_vars, pipe_vars, supplier_vars
<1>1. CASE Activate
  <2>1. ready
    BY <1>1 DEF Activate
  <2> QED BY <1>1, <2>1 DEF Activate, ControlInv, Usability, Between, LinesInv
<1>2. CASE Pump
  BY <1>2 DEF Pump, ControlInv, Usability, Between, LinesInv, CaptureUse, GivenUp
<1>3. CASE Supply
  <2>1. UNCHANGED <<sudo, job, at, usable, kind, ready, keeper, auth_keeper, pump, control, starter,
                    killed, session>>
    BY <1>3 DEF Supply, SupplierReads, SupplierProvides, SupplierEnds
  <2>2. authenticated' => authenticated
    BY <1>3 DEF Supply
  <2> QED BY <2>1, <2>2 DEF ControlInv, Usability, Between, LinesInv
<1>4. CASE Captures
  BY <1>4 DEF Captures, ControlInv, Usability, Between, LinesInv
<1> QED BY <1>1, <1>2, <1>3, <1>4 DEF TaskNext

\* A command that was given up leaves nothing in the pipe.
LEMMA FailsKeepsControl ==
  ASSUME ControlInv, ShellInv, at \in {"preparing", "executing", "draining"}, Fails
  PROVE  ControlInv'
<1> USE DEF process_else, start_vars, close_vars, os_vars, authentication, bridge_vars,
            process_vars, GivenUp
<1>1. /\ at' = "stopping" /\ usable' = FALSE /\ control' = <<>> /\ starter = "started"
      /\ UNCHANGED <<killed, starter, session, sudo, job, kind, ready, keeper, auth_keeper,
                     authenticated>>
  BY DEF Fails, ShellInv
<1>2. LinesInv'
  <2>1. control' \in Seq(ProtocolLines) /\ Len(control') = 0
    BY <1>1
  <2> QED BY <1>1, <2>1 DEF ControlInv, LinesInv
<1> QED BY <1>1, <1>2 DEF ControlInv, Usability, Between

\* A line is read from the front.
LEMMA ReadControlKeepsControl ==
  ASSUME ControlInv, ShellInv, ReadControl
  PROVE  ControlInv'
<1> USE DEF process_else, start_vars, close_vars, os_vars, authentication, bridge_vars, process_vars
<1>1. /\ at = "executing" /\ usable /\ starter = "started" /\ control # <<>>
      /\ UNCHANGED <<usable, killed, starter, session, sudo, job, kind, pump, keeper>>
  BY DEF ReadControl, Reads, CanReadLine, ControlInv, Usability, ShellInv
<1>2. control' = Tail(control)
  BY DEF ReadControl, Reads
<1>3. /\ control' \in Seq(ProtocolLines) /\ Len(control) \in Nat \ {0}
      /\ Len(control') = Len(control) - 1 /\ Head(control) = control[1]
      /\ \A i \in 1..Len(control') : i + 1 \in 1..Len(control) /\ control'[i] = control[i + 1]
  BY <1>1, <1>2 DEF ControlInv, LinesInv
<1>4. \/ /\ at' = at /\ (authenticated' => authenticated \/ Head(control) = "granted")
      \/ at' = "draining" /\ Head(control) = "status" /\ UNCHANGED <<authenticated>>
  BY <1>1 DEF ReadControl, Reads
<1>5. job # "sourced"
  BY <1>1 DEF ControlInv, LinesInv
<1>6. ASSUME NEW i \in 1..Len(control')
      PROVE  /\ control'[i] = "status" => i = Len(control') /\ job' = "none"
             /\ control'[i] = "granted" => sudo' = "granted"
  BY <1>1, <1>3, <1>6 DEF ControlInv, LinesInv
<1>7. Head(control) = "granted" => sudo = "granted"
  BY <1>3 DEF ControlInv, LinesInv
<1>8. at' = "draining" => job = "none" /\ control' = <<>>
  <2>1. at' = "draining" => job = "none" /\ Len(control) = 1
    BY <1>1, <1>3, <1>4 DEF ControlInv, LinesInv
  <2>2. Len(control) = 1 => Len(control') = 0
    <3>1. Len(control') = Len(control) - 1
      BY <1>3
    <3> QED BY <3>1
  <2>3. control' # <<>> => Len(control') \in Nat \ {0}
    BY <1>3, EmptySeq
  <2> QED BY <2>1, <2>2, <2>3
<1>9. LinesInv'
  BY <1>1, <1>3, <1>4, <1>5, <1>6, <1>7, <1>8 DEF ControlInv, LinesInv
<1> QED BY <1>1, <1>4, <1>8, <1>9 DEF ControlInv, Usability, Between, GivenUp

\* The runner begins a command on an empty pipe, and ends it on one.
LEMMA RunnerKeepsControl ==
  ASSUME ControlInv, ShellInv, CaptureUse, RunnerNext
  PROVE  ControlInv'
<1> USE DEF native, process_else, os_vars, start_vars, close_vars, runner_vars, runner_else,
            driver_vars, process_vars, authentication, bridge_vars, pipe_vars, supplier_vars,
            GivenUp
<1>1. CASE Prepare
  <2>1. starter = "started" /\ control = <<>>
    BY <1>1 DEF Prepare, ShellInv, PInv, Progress, ControlInv, LinesInv
  <2>2. /\ control' = <<>> /\ job' = "none" /\ pump' = "none" /\ authenticated' = FALSE
        /\ UNCHANGED <<starter, usable, killed, session>> /\ usable
    BY <1>1, <2>1 DEF Prepare, ControlInv, Between
  <2>3. LinesInv'
    BY <2>1, <2>2 DEF ControlInv, LinesInv
  <2>4. Usability'
    BY <1>1, <2>1, <2>2 DEF Prepare, ControlInv, Usability
  <2>5. Between'
    BY <1>1, <2>2 DEF Prepare, Between
  <2> QED BY <2>3, <2>4, <2>5 DEF ControlInv
<1>2. CASE Execute
  <2>1. /\ starter = "started" /\ control = <<>>
        /\ UNCHANGED <<control, starter, sudo, ready, auth_keeper, kind, authenticated, usable,
                       killed, session>>
    BY <1>2 DEF Execute, ShellInv, ControlInv, LinesInv
  <2>2. LinesInv'
    BY <1>2, <2>1 DEF Execute, ControlInv, LinesInv, Between
  <2> QED BY <1>2, <2>1, <2>2 DEF Execute, ControlInv, Usability, Between
<1>3. CASE ReadControl
  BY <1>3, ReadControlKeepsControl
<1>4. CASE LosesShell \/ Stopped \/ DrainExpires \/ Breaks
  BY <1>4, FailsKeepsControl DEF LosesShell, Stopped, DrainExpires, Breaks, Waiting
<1>5. CASE Drained
  BY <1>5 DEF Drained, ControlInv, Usability, Between, LinesInv
<1>6. CASE SoftStop
  BY <1>6 DEF SoftStop, ControlInv, Usability, Between, LinesInv
<1>7. CASE StopCloses
  <2>1. ~usable /\ UNCHANGED <<control, starter, session>>
    BY <1>7 DEF StopCloses, CloseBegins, Terminate, ControlInv, Usability
  <2> QED BY <1>7, <2>1 DEF StopCloses, ControlInv, Usability, Between, LinesInv
<1>8. CASE StopClosed
  BY <1>8 DEF StopClosed, ControlInv, Usability, Between, LinesInv
<1>9. CASE Finish
  <2>1. job' = "none" /\ pump' = "none" /\ at' = "sealing"
    BY <1>9 DEF Finish, ControlInv, Usability, Between
  <2>2. /\ control = <<>>
        /\ UNCHANGED <<control, starter, sudo, usable, authenticated, killed, session>>
    BY <1>9 DEF Finish, ControlInv, Usability, LinesInv, ShellInv
  <2> QED BY <2>1, <2>2 DEF ControlInv, Usability, Between, LinesInv
<1>10. CASE Finalize
  BY <1>10 DEF Finalize, ControlInv, Usability, Between, LinesInv
<1>11. CASE Settle
  <2>1. starter = "started"
    BY <1>11 DEF Settle, ShellInv
  <2> QED BY <1>11, <2>1 DEF Settle, ControlInv, Usability, Between, LinesInv
<1>12. CASE LeaveSession
  <2>1. /\ UNCHANGED <<control, starter, killed>> /\ at' = at
        /\ session \in {"entering", "open"}
    BY <1>12 DEF LeaveSession, Leave
  <2> QED BY <1>12, <2>1 DEF LeaveSession, Leave, ControlInv, Usability, Between, LinesInv
<1> QED BY <1>1, <1>2, <1>3, <1>4, <1>5, <1>6, <1>7, <1>8, <1>9, <1>10, <1>11, <1>12
        DEF RunnerNext

\* A start hands over a pipe from which the shell's greeting was read.
LEMMA EntryKeepsControl ==
  ASSUME ControlInv, ShellInv, EntryNext
  PROVE  ControlInv'
<1> USE DEF os_vars, start_vars, close_vars, runner_vars, driver_vars, process_vars, authentication,
            bridge_vars, GivenUp
<1>a. UNCHANGED <<at, usable, kind, authenticated, ready, keeper, auth_keeper, pump, job, sudo>>
  BY DEF EntryNext
<1>1. CASE Start \/ Creation \/ CreationReturns \/ AdoptLate \/ StartFails \/ CancelStart
  <2>1. UNCHANGED <<control, killed, session>> /\ starter # "started" /\ starter' # "started"
    BY <1>1 DEF Start, Creation, CreationReturns, AdoptLate, Handles, StartFails, CancelStart,
                CancelAwaiting, CloseReturned, ShellInv, PInv, Progress
  <2>2. LinesInv'
    BY <1>a, <2>1 DEF ControlInv, LinesInv
  <2>3. Usability'
    BY <1>a, <1>1, <2>1 DEF Start, Creation, CreationReturns, AdoptLate, Handles, StartFails,
                            CancelStart, CancelAwaiting, ControlInv, Usability
  <2> QED BY <1>a, <2>2, <2>3 DEF ControlInv, Between
<1>2. CASE ShellGreets \/ Handshake
  <2>1. /\ control' \in {<<>>, <<"session-ready">>} /\ UNCHANGED killed /\ starter = "handshaking"
        /\ starter' = "started" => control' = <<>>
    BY <1>2, QueueOfOne DEF ShellGreets, Handshake, Handles, CanReadLine, ControlInv, LinesInv
  <2>2. /\ at = "idle" /\ usable /\ job = "none"
        /\ session' = session \/ session = "entering"
    BY <1>2, <2>1 DEF ShellGreets, Handshake, ShellInv, ControlInv, Usability, Between
  <2>3. /\ control' \in Seq(ProtocolLines)
        /\ \A i \in 1..Len(control') : control'[i] = "session-ready"
    <3>1. CASE control' = <<>>
      BY <3>1, EmptySeq
    <3>2. CASE control' = <<"session-ready">>
      <4>1. /\ <<"session-ready">> \in Seq(ProtocolLines) /\ Len(<<"session-ready">>) = 1
            /\ <<"session-ready">>[1] = "session-ready"
        BY DEF ProtocolLines
      <4> QED BY <3>2, <4>1
    <3> QED BY <2>1, <3>1, <3>2
  <2>4. LinesInv'
    BY <1>a, <2>1, <2>2, <2>3 DEF ControlInv, LinesInv
  <2>5. Usability'
    BY <1>a, <2>1, <2>2 DEF ControlInv, Usability
  <2> QED BY <1>a, <2>4, <2>5 DEF ControlInv, Between
<1>3. CASE StartCloses \/ SessionClosing
  <2>1. UNCHANGED <<control, starter, session>> /\ (starter = "failing" \/ session = "closing")
    BY <1>3 DEF StartCloses, SessionClosing, CloseBegins
  <2> QED BY <1>a, <2>1 DEF ControlInv, Usability, Between, LinesInv
<1>4. CASE (\E by \in Closers : CloseEnds(by)) \/ SessionClosed \/ SessionCloses(at # "idle")
  <2>1. UNCHANGED <<control, starter, killed>>
        /\ \/ session' = session /\ UNCHANGED <<session>>
           \/ session' \in {"closing", "closed", "crashed"}
    BY <1>4 DEF CloseEnds, SessionClosed, SessionCloses, CloseReturned
  <2> QED BY <1>a, <2>1 DEF ControlInv, Usability, Between, LinesInv
<1> QED BY <1>1, <1>2, <1>3, <1>4 DEF EntryNext, StartNext, CloseNext

\* Nothing happens to the shell in a stuttering step,
LEMMA ShellStutters ==
  ASSUME ShellInv, UNCHANGED vars
  PROVE  ShellInv'
BY OwnedFrame DEF ShellInv, vars, runner_vars, native, owned, os_vars, start_vars, close_vars

\* nor to the control channel.
LEMMA ControlStutters ==
  ASSUME ControlInv, UNCHANGED vars
  PROVE  ControlInv'
BY DEF vars, native, os_vars, start_vars, runner_vars, driver_vars, process_vars, authentication,
       bridge_vars, GivenUp, ControlInv, Usability, Between, LinesInv
-----------------------------------------------------------------------------
(* The authentication.                                                      *)

\* Who has asked and who has answered: while sudo waits for an answer, the request is in
\* its pipe, with the supplier, or answered.
Exchange ==
  \/ asks = 1 /\ answers = 0 /\ count = used /\ supplier \in {"reading", "cancelled"}
  \/ asks = 0 /\ answers = 0 /\ count = used /\ supplier \in {"providing", "failed", "cancelled"}
  \/ asks = 0 /\ answers = 1 /\ count = used + 1 /\ supplier \in {"reading", "ended", "cancelled"}

AuthInv ==
  /\ sudo \in {"off", "checking", "prompting", "answering", "granted", "denied", "broken"}
  /\ supplier \in {"none", "reading", "providing", "failed", "ended", "cancelled"}
  /\ used \in 0..Attempts /\ count \in 0..Attempts
  /\ sudo = "answering" => used < Attempts /\ Exchange
  /\ sudo # "answering" => asks = 0 /\ answers = 0 /\ supplier \notin {"providing", "failed"}
  /\ sudo \notin {"answering", "broken"} => count = used
  /\ sudo \in {"prompting", "answering"} => kind = "elevated"
  /\ supplier # "none" => kind = "elevated"
  /\ kind = "elevated" /\ job \in {"sourced", "opened"} =>
       supplier \in {"reading", "providing", "failed"}
  /\ at = "preparing" => supplier = "none"

\* The bridge and the supplier take turns.
LEMMA CommandKeepsAuthentication ==
  ASSUME AuthInv, ControlInv, CommandNext
  PROVE  AuthInv'
<1> USE AttemptsAssumption
    DEF native, process_else, runner_vars, driver_vars, process_vars, authentication, bridge_vars,
        pipe_vars, supplier_vars
<1>a. UNCHANGED <<at, kind>>
  BY DEF CommandNext
<1>1. CASE JobAuthenticates
  <2>1. sudo = "off" /\ job' = "opened" /\ job = "sourced" /\ sudo' = "checking"
        /\ UNCHANGED <<used, asks, answers, supplier, count>>
    BY <1>1 DEF JobAuthenticates, ControlInv, LinesInv
  <2> QED BY <1>a, <2>1 DEF AuthInv
<1>2. CASE Authenticates
  <2>1. job = "opened" /\ UNCHANGED job
    BY <1>2 DEF Authenticates
  <2>2. CASE SudoDecides(kind = "elevated")
    BY <1>a, <2>1, <2>2 DEF SudoDecides, AuthInv, Exchange
  <2>3. CASE BridgeAsks
    BY <1>a, <2>1, <2>3 DEF BridgeAsks, AuthInv, Exchange
  <2>4. CASE BridgeReads
    BY <1>a, <2>1, <2>4 DEF BridgeReads, AuthInv, Exchange
  <2> QED BY <1>2, <2>2, <2>3, <2>4 DEF Authenticates
<1>3. CASE \/ JobBegins \/ JobCannotOpen \/ JobAuthenticated \/ Writes \/ LeavesBehind
           \/ DescendantCloses \/ DescendantEnds \/ JobEnds \/ BridgeDies \/ ShellReports
           \/ ShellEnds
           \/ ShellComplains /\ UNCHANGED <<process_vars, authentication>>
  <2>1. UNCHANGED authentication /\ (job' = job \/ job' \notin {"sourced", "opened"})
    BY <1>3 DEF JobBegins, JobCannotOpen, JobAuthenticated, Writes, LeavesBehind, DescendantCloses,
                DescendantEnds, JobEnds, BridgeDies, ShellReports, ShellEnds
  <2> QED BY <1>a, <2>1 DEF AuthInv, Exchange
<1> QED BY <1>1, <1>2, <1>3 DEF CommandNext

\* The supplier, and a runner that begins and ends with no request in the pipes.
LEMMA OthersKeepAuthentication ==
  ASSUME AuthInv, ControlInv, TaskNext \/ RunnerNext \/ EntryNext \/ UNCHANGED vars
  PROVE  AuthInv'
<1> USE AttemptsAssumption
    DEF native, process_else, runner_vars, runner_else, driver_vars, process_vars, authentication,
        bridge_vars, pipe_vars, supplier_vars
<1>1. CASE Supply
  <2>1. UNCHANGED <<at, kind, job, sudo, used>>
    BY <1>1 DEF Supply, SupplierReads, SupplierProvides, SupplierEnds
  <2>2. CASE SupplierReads
    BY <2>1, <2>2 DEF SupplierReads, AuthInv, Exchange
  <2>3. CASE SupplierProvides(auth_keeper \/ job = "opened")
    BY <2>1, <2>3 DEF SupplierProvides, AuthInv, Exchange
  <2>4. CASE SupplierEnds(auth_keeper \/ job = "opened")
    <3>1. job # "opened" /\ (kind = "elevated" => job # "sourced")
      BY <2>4 DEF SupplierEnds, ControlInv, LinesInv
    <3> QED BY <2>1, <2>4, <3>1 DEF SupplierEnds, AuthInv, Exchange
  <2> QED BY <1>1, <2>2, <2>3, <2>4 DEF Supply
<1>2. CASE Prepare
  BY <1>2 DEF Prepare, AuthInv, ControlInv, Between
<1>3. CASE Execute
  BY <1>3 DEF Execute, AuthInv, ControlInv, Between
<1>4. CASE Finish
  <2>1. job' = "none" /\ at' = "sealing" /\ UNCHANGED <<kind, sudo, used, asks, answers, count>>
        /\ supplier' = IF supplier \in {"reading", "providing"} THEN "cancelled" ELSE supplier
    BY <1>4 DEF Finish, ControlInv, Usability, Between, GivenUp
  <2> QED BY <2>1 DEF AuthInv, Exchange
<1>5. CASE \/ Activate \/ Pump \/ Captures \/ ReadControl \/ LosesShell \/ Stopped \/ DrainExpires
           \/ Breaks \/ Drained \/ SoftStop \/ StopCloses \/ StopClosed \/ Finalize \/ Settle
           \/ LeaveSession \/ EntryNext \/ UNCHANGED vars
  <2>1. UNCHANGED <<kind, job, authentication>> /\ (at' = at \/ at' # "preparing")
    BY <1>5 DEF Activate, Pump, Captures, ReadControl, LosesShell, Stopped, DrainExpires, Breaks,
                Fails, Drained, SoftStop, StopCloses, StopClosed, Finalize, Settle, LeaveSession,
                EntryNext, vars
  <2> QED BY <2>1 DEF AuthInv, Exchange
<1> QED BY <1>1, <1>2, <1>3, <1>4, <1>5 DEF TaskNext, RunnerNext

-----------------------------------------------------------------------------
(* The output and the result.                                               *)

\* A pump runs from the start of a command to its end; the end of the output that it saw
\* is the end, and so is what a result of an exit rests on.
OutputInv ==
  /\ at \in {"executing", "draining"} => pump \in {"reading", "eof"}
  /\ pump = "reading" /\ ~keeper => ready
  /\ EndOfOutputIsFinal
  /\ at = "sealing" /\ outcome = "exited" => received = produced /\ "output" \notin holds
  /\ at = "finishing" => pump = "eof"
  /\ at \in {"idle", "preparing", "sealing"} /\ usable => "output" \notin holds
  /\ sealing # "no" /\ ~unread => received = produced /\ "output" \notin holds
  /\ sealing = "done" => evidence.unread_possible = unread
  /\ result.outcome = "exited" =>
       /\ at = "idle" /\ sealing = "done" /\ evidence.sealed
       /\ received = produced /\ "output" \notin holds
       /\ result.elevated => result.granted

\* Nobody writes to an output that has ended.
LEMMA CommandKeepsOutput ==
  ASSUME OutputInv, ControlInv, CaptureUse, CommandNext
  PROVE  OutputInv'
<1> USE DEF capture, loop_vars, runner_vars, driver_vars, process_vars
<1>a. UNCHANGED <<at, usable, pump, keeper, ready, outcome, result, sealing, unread, evidence,
                received>>
  BY DEF CommandNext
<1>b. at \notin {"idle", "sealing"} => sealing = "no"
  BY DEF CaptureUse
<1>1. CASE JobBegins \/ JobCannotOpen \/ JobAuthenticates
  <2>1. ~ready /\ job = "sourced" /\ UNCHANGED <<holds, produced>>
    BY <1>1 DEF JobBegins, JobCannotOpen, JobAuthenticates, ControlInv, LinesInv
  <2> QED BY <1>a, <2>1 DEF OutputInv, EndOfOutputIsFinal, JobLives, ControlInv, Between
<1>2. CASE JobAuthenticated \/ Authenticates \/ JobEnds \/ ShellReports \/ ShellEnds
            \/ (ShellComplains /\ UNCHANGED <<process_vars, authentication>>)
  <2>1. /\ UNCHANGED <<holds, produced>>
        /\ JobLives' => JobLives
    BY <1>2 DEF JobAuthenticated, Authenticates, JobEnds, ShellReports, ShellEnds, JobLives
  <2> QED BY <1>a, <2>1 DEF OutputInv, EndOfOutputIsFinal
<1>3. CASE Writes
  <2>1. JobLives \/ "output" \in holds
    BY <1>3 DEF Writes, JobLives
  <2>2. job = "running" => at \notin {"idle", "preparing", "sealing", "finishing"}
    BY DEF ControlInv, Between
  <2>3. UNCHANGED <<job, holds>>
    BY <1>3 DEF Writes
  <2>4. job = "running" \/ "output" \in holds
    BY <1>3 DEF Writes
  <2> QED BY <1>a, <1>b, <2>1, <2>2, <2>3, <2>4 DEF OutputInv, EndOfOutputIsFinal, JobLives
<1>4. CASE LeavesBehind \/ BridgeDies
  <2>1. JobLives /\ UNCHANGED produced /\ at \notin {"idle", "preparing", "sealing", "finishing"}
    BY <1>4 DEF LeavesBehind, BridgeDies, JobLives, ControlInv, Between
  <2> QED BY <1>a, <1>b, <2>1 DEF OutputInv, EndOfOutputIsFinal
<1>5. CASE DescendantCloses \/ DescendantEnds
  <2>1. UNCHANGED <<job, produced>> /\ ("output" \in holds' => "output" \in holds)
    BY <1>5 DEF DescendantCloses, DescendantEnds
  <2> QED BY <1>a, <2>1 DEF OutputInv, EndOfOutputIsFinal, JobLives
<1> QED BY <1>1, <1>2, <1>3, <1>4, <1>5 DEF CommandNext

\* The pump reports the end once nobody holds the output, and no command has yet to open it.
LEMMA TaskKeepsOutput ==
  ASSUME OutputInv, ControlInv, CaptureUse, TaskNext
  PROVE  OutputInv'
<1> USE DEF runner_vars, driver_vars, process_vars, capture, loop_vars
<1>1. CASE Activate
  BY <1>1 DEF Activate, OutputInv, EndOfOutputIsFinal, JobLives
<1>2. CASE Pump
  <2>1. at \notin {"idle", "sealing", "finishing"} /\ pump = "reading" /\ sealing = "no"
    BY <1>2 DEF Pump, CaptureUse, GivenUp
  <2>2. UNCHANGED <<at, usable, keeper, ready, outcome, result, job, holds, produced>>
    BY <1>2 DEF Pump
  <2>3. CASE Feed /\ UNCHANGED pump
    BY <2>1, <2>2, <2>3 DEF Feed, OutputInv, EndOfOutputIsFinal
  <2>4. CASE received = produced /\ ~OutputHeld /\ pump' = "eof" /\ UNCHANGED capture
    <3>1. ready /\ job # "sourced" /\ job \notin {"opened", "running"} /\ "output" \notin holds
      BY <2>1, <2>4 DEF OutputHeld, OutputInv, ControlInv, LinesInv
    <3> QED BY <2>1, <2>2, <2>4, <3>1 DEF OutputInv, EndOfOutputIsFinal, JobLives
  <2> QED BY <1>2, <2>3, <2>4 DEF Pump
<1>3. CASE Supply
  BY <1>3 DEF Supply, OutputInv, EndOfOutputIsFinal, JobLives
<1>4. CASE Captures
  <2>1. /\ received' = received /\ (sealing = "done" => sealing' = "done" /\ evidence' = evidence)
        /\ UNCHANGED <<at, usable, unread, pump, keeper, ready, outcome, result, job, holds,
                       produced>>
    BY <1>4 DEF Captures, CaptureThread, ThreadBegins, ThreadWrites, ThreadCreates, ThreadSyncs,
                ThreadSeals
  <2>2. sealing = "no" <=> sealing' = "no"
    BY <1>4, ThreadKeepsUse DEF Captures
  <2>3. sealing' = "done" => sealing = "done" \/ evidence'.unread_possible = unread
    <3>1. CASE ThreadSeals /\ sealing = "sealing"
      <4>1. \E error \in BOOLEAN : evidence' = Evidence(unread, error)
        BY <3>1 DEF ThreadSeals, SealReturns
      <4> QED BY <4>1 DEF Evidence
    <3>2. CASE ~(ThreadSeals /\ sealing = "sealing")
      BY <1>4, <3>2 DEF Captures, CaptureThread, ThreadBegins, ThreadWrites, ThreadCreates,
                        ThreadSyncs, ThreadSeals
    <3> QED BY <3>1, <3>2
  <2> QED BY <2>1, <2>2, <2>3 DEF OutputInv, EndOfOutputIsFinal, JobLives
<1> QED BY <1>1, <1>2, <1>3, <1>4 DEF TaskNext

\* The runner takes an exit only after the end of the output.
LEMMA RunnerKeepsOutput ==
  ASSUME OutputInv, ControlInv, CaptureUse, RunnerNext
  PROVE  OutputInv'
<1> USE DEF runner_vars, runner_else, driver_vars, process_vars, capture, loop_vars, GivenUp
<1>1. CASE Prepare
  <2>1. sealing' = "no"
    BY <1>1 DEF Prepare, Renew, CaptureUse
  <2> QED BY <1>1, <2>1 DEF Prepare, OutputInv, EndOfOutputIsFinal, ControlInv, Between, NoResult
<1>2. CASE Execute
  BY <1>2 DEF Execute, OutputInv, EndOfOutputIsFinal, ControlInv, Between
<1>3. CASE ReadControl
  BY <1>3 DEF ReadControl, OutputInv, EndOfOutputIsFinal, JobLives
<1>4. CASE LosesShell \/ Stopped \/ DrainExpires \/ Breaks
  <2>1. Fails /\ at \in {"preparing", "executing", "draining"} /\ received' = received
    BY <1>4 DEF LosesShell, Stopped, DrainExpires, Breaks, Waiting, Fails, CancelFeed
  <2>2. sealing' = "no"
    BY <2>1 DEF Fails, CancelFeed, CaptureUse
  <2> QED BY <2>1, <2>2 DEF Fails, OutputInv, EndOfOutputIsFinal, JobLives
<1>5. CASE Drained
  BY <1>5 DEF Drained, OutputInv, EndOfOutputIsFinal, JobLives
<1>6. CASE SoftStop \/ StopCloses \/ StopClosed \/ LeaveSession
  <2>1. /\ UNCHANGED <<usable, pump, keeper, ready, outcome, result, sealing, unread, evidence,
                       received, job, holds, produced>>
        /\ at' = at \/ (at \in GivenUp /\ at' \in GivenUp)
    BY <1>6 DEF SoftStop, StopCloses, StopClosed, LeaveSession
  <2> QED BY <2>1 DEF OutputInv, EndOfOutputIsFinal, JobLives
<1>7. CASE Finish
  <2>1. UNCHANGED <<received, produced>>
    BY <1>7 DEF Finish, CancelFeed
  <2>2. /\ at = "gathering" => outcome = "failed" /\ ~usable
        /\ at' = "sealing" /\ usable' = usable
    BY <1>7 DEF Finish, CaptureUse, ControlInv, Usability
  <2>3. "output" \in holds' => "output" \in holds
    BY <1>7 DEF Finish
  <2>4. sealing' = "no"
    BY <1>7 DEF Finish, CancelFeed, CaptureUse
  <2> QED BY <1>7, <2>1, <2>2, <2>3, <2>4 DEF Finish, OutputInv, EndOfOutputIsFinal
<1>8. CASE Finalize
  <2>1. received' = received /\ UNCHANGED <<at, usable, pump, keeper, ready, outcome, result, job,
                                            holds, produced>> /\ at = "sealing"
    BY <1>8 DEF Finalize, Seal, SealExpires
  <2>2. sealing = "no" /\ ~unread' => outcome = "exited"
    BY <1>8 DEF Finalize, Seal, SealExpires
  <2>3. sealing # "no" => unread' = unread
    BY <1>8 DEF Finalize, Seal, SealExpires
  <2>4. sealing' = "done" => evidence'.unread_possible = unread'
    <3>1. CASE SealExpires
      <4>1. evidence'.unread_possible = unread /\ unread' = unread
        BY <3>1 DEF SealExpires, NoEvidence
      <4> QED BY <4>1
    <3>2. CASE Seal(outcome # "exited")
      <4>1. sealing' = "done" => evidence' = Evidence(unread', storage_error)
        BY <3>2 DEF Seal
      <4> QED BY <4>1 DEF Evidence
    <3> QED BY <1>8, <3>1, <3>2 DEF Finalize
  <2> QED BY <2>1, <2>2, <2>3, <2>4 DEF OutputInv, EndOfOutputIsFinal, JobLives
<1>9. CASE Settle
  <2>1. /\ result'.outcome = Outcome /\ result'.elevated = Elevated
        /\ result'.granted = (sudo = "granted")
    BY <1>9 DEF Settle
  <2>2. result'.outcome = "exited" =>
          outcome = "exited" /\ evidence.sealed /\ (Elevated => sudo = "granted")
    BY <2>1 DEF Outcome, ControlInv, LinesInv
  <2> QED BY <1>9, <2>1, <2>2 DEF Settle, OutputInv, EndOfOutputIsFinal, JobLives
<1> QED BY <1>1, <1>2, <1>3, <1>4, <1>5, <1>6, <1>7, <1>8, <1>9 DEF RunnerNext

\* Nothing else concerns the output.
LEMMA OthersKeepOutput ==
  ASSUME OutputInv, EntryNext \/ UNCHANGED vars
  PROVE  OutputInv'
BY DEF EntryNext, vars, runner_vars, driver_vars, process_vars, capture, loop_vars, OutputInv,
       EndOfOutputIsFinal, JobLives

-----------------------------------------------------------------------------
(* The types, and all of it together.                                       *)

ShellTypes ==
  /\ cancels \in 0..Cancellations
  /\ killed \in BOOLEAN /\ containment \in BOOLEAN /\ diagnosed \in BOOLEAN
  /\ privileged_used \in BOOLEAN /\ contained \in BOOLEAN

RunnerTypes ==
  /\ plan \in Seq(Kinds) /\ kind \in Kinds \cup {"none"} /\ usable \in BOOLEAN
  /\ outcome \in {"none", "exited", "failed"}
  /\ result \in [outcome : {"none", "exited", "failed"}, elevated : BOOLEAN, granted : BOOLEAN]
  /\ stop_requested \in BOOLEAN /\ startup_failed \in BOOLEAN

DriverTypes ==
  /\ authenticated \in BOOLEAN
  /\ channels \in BOOLEAN /\ keeper \in BOOLEAN /\ auth_keeper \in BOOLEAN
  /\ ready \in BOOLEAN /\ activation \in {"none", "waiting", "done"}
  /\ pump \in {"none", "reading", "eof", "cancelled"}

ProcessTypes ==
  /\ job \in {"none", "sourced", "opened", "running", "ended"}
  /\ descendant \in {"none", "contained", "escaped"} /\ holds \subseteq {"output", "control"}
  /\ produced \in Nat

TypeInv == ShellTypes /\ RunnerTypes /\ DriverTypes /\ ProcessTypes

\* Every step keeps the types: those of a command's processes,
LEMMA CommandKeepsTypes ==
  ASSUME TypeInv, CommandNext
  PROVE  TypeInv'
<1> USE CaptureAssumption DEF TypeInv
<1>1. RunnerTypes' /\ DriverTypes'
  BY DEF CommandNext, RunnerTypes, DriverTypes, runner_vars, driver_vars
<1>2. ShellTypes'
  <2> USE DEF ShellTypes, native, os_vars, start_vars, close_vars, process_else
  <2>1. CASE JobBegins \/ JobAuthenticates \/ JobAuthenticated \/ ShellReports
    BY <2>1 DEF JobBegins, JobAuthenticates, JobAuthenticated, ShellReports, Prints
  <2>2. CASE JobCannotOpen \/ ShellEnds \/ ShellComplains
    BY <2>2 DEF JobCannotOpen, ShellEnds, ShellDies, ShellComplains
  <2>3. CASE \/ Authenticates \/ Writes \/ LeavesBehind \/ DescendantCloses \/ DescendantEnds
             \/ JobEnds
    BY <2>3 DEF Authenticates, Writes, LeavesBehind, DescendantCloses, DescendantEnds, JobEnds
  <2>4. CASE BridgeDies
    <3>1. (Running \/ diagnosed) \in BOOLEAN
      BY DEF Running
    <3> QED BY <2>4, <3>1 DEF BridgeDies
  <2> QED BY <2>1, <2>2, <2>3, <2>4 DEF CommandNext
<1>3. ProcessTypes'
  <2> USE DEF ProcessTypes, process_vars
  <2>1. CASE JobBegins \/ JobCannotOpen \/ JobAuthenticates \/ JobAuthenticated \/ Authenticates
    BY <2>1 DEF JobBegins, JobCannotOpen, JobAuthenticates, JobAuthenticated, Authenticates
  <2>2. CASE Writes \/ JobEnds
    <3>1. produced' \in Nat
      BY <2>2, CaptureAssumption DEF Writes, JobEnds
    <3> QED BY <2>2, <3>1 DEF Writes, JobEnds
  <2>5. CASE LeavesBehind
    BY <2>5 DEF LeavesBehind
  <2>4. CASE DescendantCloses \/ DescendantEnds
    BY <2>4 DEF DescendantCloses, DescendantEnds
  <2>3. CASE BridgeDies \/ ShellReports \/ ShellEnds
               \/ (ShellComplains /\ UNCHANGED <<process_vars, authentication>>)
    BY <2>3 DEF BridgeDies, ShellReports, ShellEnds
  <2> QED BY <2>1, <2>2, <2>3, <2>4, <2>5 DEF CommandNext
<1> QED BY <1>1, <1>2, <1>3

\* those of the tasks, and of a session that is entered and left,
LEMMA OthersKeepTypes ==
  ASSUME TypeInv, TaskNext \/ EntryNext \/ UNCHANGED vars
  PROVE  TypeInv'
<1> USE ProcessAssumption DEF TypeInv
<1>1. ASSUME TaskNext
      PROVE  TypeInv'
  <2>1. UNCHANGED native /\ UNCHANGED process_vars
    BY <1>1 DEF TaskNext, Activate, Pump, Supply, Captures
  <2>4. ShellTypes'
    BY <2>1 DEF ShellTypes, native, os_vars, start_vars, close_vars
  <2>5. ProcessTypes'
    BY <2>1 DEF ProcessTypes, process_vars
  <2>2. RunnerTypes'
    BY <1>1 DEF TaskNext, Activate, Pump, Supply, Captures, RunnerTypes, runner_vars
  <2>3. DriverTypes'
    <3>1. CASE Activate
      BY <3>1 DEF Activate, DriverTypes
    <3>2. CASE Pump
      BY <3>2 DEF Pump, DriverTypes
    <3>3. CASE Supply
      BY <3>3 DEF Supply, DriverTypes
    <3>4. CASE Captures
      BY <3>4 DEF Captures, DriverTypes, driver_vars
    <3> QED BY <1>1, <3>1, <3>2, <3>3, <3>4 DEF TaskNext
  <2> QED BY <2>2, <2>3, <2>4, <2>5
<1>2. ASSUME EntryNext
      PROVE  TypeInv'
  <2>1. RunnerTypes' /\ DriverTypes' /\ ProcessTypes'
    BY <1>2 DEF EntryNext, RunnerTypes, DriverTypes, ProcessTypes, runner_vars, driver_vars,
                process_vars
  <2>2. ShellTypes'
    <3> USE DEF ShellTypes, os_vars, start_vars, close_vars
    <3>1. CASE Start \/ Creation \/ CreationReturns \/ ShellGreets \/ Handshake \/ AdoptLate
                 \/ StartFails \/ SessionClosed \/ SessionCloses(at # "idle")
      BY <3>1 DEF Start, Creation, CreationReturns, ShellGreets, Handshake, AdoptLate, StartFails,
                  SessionClosed, SessionCloses
    <3>2. CASE CancelStart
      BY <3>2 DEF CancelStart
    <3>3. CASE StartCloses \/ SessionClosing
      <4>1. PICK by \in Closers : CloseBegins(by)
        BY <3>3 DEF StartCloses, SessionClosing, Closers
      <4>2. contained' \in BOOLEAN /\ killed' \in BOOLEAN
        BY <4>1 DEF CloseBegins, Terminate, CloseReturns
      <4> QED BY <4>1, <4>2 DEF CloseBegins
    <3>4. CASE \E by \in Closers : CloseEnds(by)
      <4>1. PICK by \in Closers : CloseEnds(by)
        BY <3>4
      <4>2. contained' \in BOOLEAN
        BY <4>1 DEF CloseEnds, CloseReturns
      <4> QED BY <4>1, <4>2 DEF CloseEnds
    <3> QED BY <1>2, <3>1, <3>2, <3>3, <3>4 DEF EntryNext, StartNext, CloseNext
  <2> QED BY <2>1, <2>2
<1>3. ASSUME UNCHANGED vars
      PROVE  TypeInv'
  BY <1>3 DEF vars, ShellTypes, RunnerTypes, DriverTypes, ProcessTypes, native, os_vars,
              start_vars, close_vars, runner_vars, driver_vars, process_vars
<1> QED BY <1>1, <1>2, <1>3

\* and those of the runner.
LEMMA RunnerKeepsTypes ==
  ASSUME TypeInv, RunnerNext
  PROVE  TypeInv'
<1> USE DEF TypeInv
<1>1. CASE Prepare
  <2>1. kind' \in Kinds /\ plan' \in Seq(Kinds)
    BY <1>1 DEF Prepare, RunnerTypes
  <2>2. RunnerTypes'
    BY <1>1, <2>1 DEF Prepare, RunnerTypes, NoResult
  <2>3. ShellTypes'
    BY <1>1 DEF Prepare, ShellTypes, os_vars, start_vars, close_vars
  <2>4. DriverTypes' /\ ProcessTypes'
    BY <1>1 DEF Prepare, DriverTypes, ProcessTypes
  <2> QED BY <2>2, <2>3, <2>4
<1>2. ShellTypes' \/ Prepare
  <2> USE DEF ShellTypes, native, process_else, os_vars, start_vars, close_vars
  <2>1. CASE Execute \/ ReadControl \/ Drained \/ SoftStop \/ Finish \/ Finalize \/ Settle
    BY <2>1 DEF Execute, ReadControl, Drained, SoftStop, Finish, Finalize, Settle
  <2>2. CASE LosesShell \/ Stopped \/ DrainExpires \/ Breaks
    BY <2>2 DEF LosesShell, Stopped, DrainExpires, Breaks, Fails
  <2>3. CASE StopCloses
    <3>1. contained' \in BOOLEAN /\ killed' \in BOOLEAN
      BY <2>3 DEF StopCloses, CloseBegins, Terminate, CloseReturns
    <3> QED BY <2>3, <3>1 DEF StopCloses, CloseBegins
  <2>4. CASE StopClosed \/ LeaveSession
    BY <2>4 DEF StopClosed, LeaveSession, Leave
  <2> QED BY <2>1, <2>2, <2>3, <2>4 DEF RunnerNext
<1>3. RunnerTypes' \/ Prepare
  <2> USE DEF RunnerTypes, runner_vars, runner_else
  <2>1. CASE Execute \/ ReadControl \/ Drained \/ SoftStop \/ Finish \/ Finalize
    BY <2>1 DEF Execute, ReadControl, Drained, SoftStop, Finish, Finalize
  <2>2. CASE LosesShell \/ Stopped \/ DrainExpires \/ Breaks
    BY <2>2 DEF LosesShell, Stopped, DrainExpires, Breaks, Fails
  <2>3. CASE StopCloses \/ StopClosed
    BY <2>3 DEF StopCloses, StopClosed
  <2>4. CASE LeaveSession
    BY <2>4 DEF LeaveSession
  <2>5. CASE Settle
    BY <2>5 DEF Settle, Outcome, Elevated
  <2> QED BY <2>1, <2>2, <2>3, <2>4, <2>5 DEF RunnerNext
<1>4. DriverTypes' \/ Prepare
  <2> USE DEF DriverTypes, driver_vars
  <2>1. CASE Execute \/ ReadControl \/ Drained \/ SoftStop \/ Finish \/ Finalize \/ Settle
    BY <2>1 DEF Execute, ReadControl, Drained, SoftStop, Finish, Finalize, Settle
  <2>2. CASE LosesShell \/ Stopped \/ DrainExpires \/ Breaks
    BY <2>2 DEF LosesShell, Stopped, DrainExpires, Breaks, Fails
  <2>3. CASE StopCloses \/ StopClosed \/ LeaveSession
    BY <2>3 DEF StopCloses, StopClosed, LeaveSession
  <2> QED BY <2>1, <2>2, <2>3 DEF RunnerNext
<1>5. ProcessTypes' \/ Prepare
  <2> USE DEF ProcessTypes, process_vars
  <2>1. CASE Execute \/ ReadControl \/ Drained \/ SoftStop \/ Finish \/ Finalize \/ Settle
    BY <2>1 DEF Execute, ReadControl, Drained, SoftStop, Finish, Finalize, Settle
  <2>2. CASE LosesShell \/ Stopped \/ DrainExpires \/ Breaks
    BY <2>2 DEF LosesShell, Stopped, DrainExpires, Breaks, Fails
  <2>3. CASE StopCloses \/ StopClosed \/ LeaveSession
    BY <2>3 DEF StopCloses, StopClosed, LeaveSession
  <2> QED BY <2>1, <2>2, <2>3 DEF RunnerNext
<1> QED BY <1>1, <1>2, <1>3, <1>4, <1>5

SessionInv == ShellInv /\ CaptureUse /\ ControlInv /\ AuthInv /\ OutputInv /\ TypeInv

\* The initial state satisfies all of it.
LEMMA SessionInitEstablishes ==
  ASSUME Init
  PROVE  SessionInv
<1> USE PlansAssumption, AttemptsAssumption, ProcessAssumption
    DEF Init, ProcessInit, Fresh, NoAuthentication, NoResult, GivenUp
<1>1. ShellInv
  BY ProcessInitEstablishes DEF ShellInv
<1>2. CaptureUse
  BY InitUsesCapture
<1>3. ControlInv
  <2>1. LinesInv
    BY EmptySeq DEF LinesInv
  <2> QED BY <2>1 DEF ControlInv, Usability, Between
<1>4. AuthInv
  BY DEF AuthInv
<1>5. OutputInv
  BY DEF OutputInv, EndOfOutputIsFinal
<1>6. TypeInv
  <2>1. PICK p \in Plans : plan = p.kinds
    OBVIOUS
  <2>2. plan \in Seq(Kinds)
    BY <2>1
  <2>3. RunnerTypes
    BY <2>2 DEF RunnerTypes
  <2>4. ShellTypes
    <3>1. cancels \in 0..Cancellations
      OBVIOUS
    <3> QED BY <3>1 DEF ShellTypes
  <2>5. DriverTypes
    BY DEF DriverTypes
  <2>6. ProcessTypes
    BY DEF ProcessTypes
  <2> QED BY <2>3, <2>4, <2>5, <2>6 DEF TypeInv
<1> QED BY <1>1, <1>2, <1>3, <1>4, <1>5, <1>6 DEF SessionInv

\* SessionInv is an inductive invariant of a native session.
THEOREM SessionInvariant == Spec => []SessionInv
<1>1. Init => SessionInv
  BY SessionInitEstablishes
<1>2. SessionInv /\ [Next]_vars => SessionInv'
  <2> SUFFICES ASSUME SessionInv, [Next]_vars
               PROVE  SessionInv'
    OBVIOUS
  <2>1. ShellInv /\ CaptureUse /\ ControlInv /\ AuthInv /\ OutputInv /\ TypeInv
    BY DEF SessionInv
  <2>2. CaptureUse'
    BY <2>1, NextUsesCapture
  <2>3. CASE CommandNext
    BY <2>1, <2>2, <2>3, CommandKeepsShell, CommandKeepsControl, CommandKeepsAuthentication,
       CommandKeepsOutput, CommandKeepsTypes DEF SessionInv
  <2>4. CASE TaskNext
    BY <2>1, <2>2, <2>4, TaskKeepsShell, TaskKeepsControl, OthersKeepAuthentication,
       TaskKeepsOutput, OthersKeepTypes DEF SessionInv
  <2>5. CASE RunnerNext
    BY <2>1, <2>2, <2>5, RunnerKeepsShell, RunnerKeepsControl, OthersKeepAuthentication,
       RunnerKeepsOutput, RunnerKeepsTypes DEF SessionInv
  <2>6. CASE EntryNext
    BY <2>1, <2>2, <2>6, EntryKeepsShell, EntryKeepsControl, OthersKeepAuthentication,
       OthersKeepOutput, OthersKeepTypes DEF SessionInv
  <2>7. CASE UNCHANGED vars
    BY <2>1, <2>2, <2>7, ShellStutters, ControlStutters, OthersKeepAuthentication,
       OthersKeepOutput, OthersKeepTypes DEF SessionInv
  <2> QED BY <2>3, <2>4, <2>5, <2>6, <2>7 DEF Next
<1> QED BY <1>1, <1>2, PTL DEF Spec

\* All variables of a session keep their types: no queue, pipe or counter grows beyond
\* what its protocol needs.
THEOREM SessionTypeCorrect == Spec => []TypeOK
<1>1. SessionInv /\ CaptureTypeOK => TypeOK
  BY DEF SessionInv, TypeOK, TypeInv, ShellTypes, RunnerTypes, DriverTypes, ProcessTypes,
         ProcessTypeOK, AuthenticationTypeOK, AuthInv, Exchange, ShellInv, PInv, OwnedTypes,
         Unowned, Settled, Ended, ControlInv, Usability, GivenUp
<1> QED BY <1>1, SessionInvariant, SessionImplementsCapture, CaptureTypeCorrect, PTL

\* The bridge and the supplier agree on the limit, and never wait for each other
\* (authentication.py:50-55, password_channel.py:27-34).
THEOREM AuthenticationAlwaysMeets == Spec => []AuthenticationMeets
<1>1. SessionInv => AuthenticationMeets
  BY DEF SessionInv, AuthInv, Exchange, AuthenticationMeets
<1> QED BY <1>1, SessionInvariant, PTL

\* The end of the output is reported once nobody can write to it (driver.py:69-88).
THEOREM EndOfOutputStaysFinal == Spec => []EndOfOutputIsFinal
<1>1. SessionInv => EndOfOutputIsFinal
  BY DEF SessionInv, OutputInv
<1> QED BY <1>1, SessionInvariant, PTL

\* A command that exited was authenticated if it had to be, and its output was read to the
\* end; and so was every output whose evidence does not warn of unread bytes
\* (execution.py:158-167, capture.py:106-115).
THEOREM ResultStaysEarned == Spec => []ResultIsEarned
<1>1. SessionInv /\ (sealing = "done" => evidence.received = received) => ResultIsEarned
  BY DEF SessionInv, OutputInv, ResultIsEarned
<1> QED BY <1>1, SessionInvariant, SessionImplementsCapture, EvidenceCounts, PTL

\* A session that takes another command starts it on a control channel that holds nothing
\* of the last one, in a shell that runs nothing of it and was not killed, and nobody can
\* write to the last one's output (execution.py:139, driver.py:136).
THEOREM ReuseIsClean == Spec => []ReusableIsClean
<1>1. SessionInv => ReusableIsClean
  BY DEF SessionInv, ShellInv, PInv, Progress, ControlInv, Usability, Between, LinesInv,
         OutputInv, ReusableIsClean
<1> QED BY <1>1, SessionInvariant, PTL
=============================================================================
