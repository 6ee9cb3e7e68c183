---------------------------- MODULE NativeProcess ----------------------------
(***************************************************************************)
(* The persistent shell of a native session and what contains it: start,   *)
(* read_control and close of backends/native/process.py, the process group *)
(* of backends/bash/containment.py, and who calls them when a session is   *)
(* entered and left (frontend/session.py).                                 *)
(*                                                                         *)
(* The shell is a process of the operating system.  It lives and dies by   *)
(* itself: the session knows of it what it reads, and owns it only from    *)
(* its adoption to the end of a close.  A session may be closed while it   *)
(* starts: then two calls of close can overlap, and each can forget the    *)
(* process under the other.                                                *)
(***************************************************************************)
EXTENDS Naturals, Sequences

CONSTANT Cancellations  \* bound: how often the starting task is cancelled

ASSUME ProcessAssumption == Cancellations \in Nat

VARIABLES
  starter,              \* where `start` is; at the end "started", "failed", or "late":
                        \* it returned to a session that had been left
  creation,             \* its task: "none", "pending", "made" (the process exists),
                        \* "done" (the task has returned it), "refused"; "lost" if
                        \* nobody took what it returned
  cancels,              \* how often it was cancelled
  shell,                \* "absent", "alive", "dead"
  killed,               \* its process group was sent a SIGKILL
  process, containment, \* self.process and self.containment are not None
  directory,            \* "none", "owned", "left" (its cleanup failed), "removed"
  control,              \* lines in the control pipe
  diagnosed,            \* protocol_failed
  privileged_used,
  closing,              \* the calls of close: "no", "waiting", "returned", "raised"
  contained,            \* of the driver's last CleanupReport
  troubled,             \* history: some close met an error
  session               \* "entering", "open"; once it is left, how far shutdown is:
                        \* "stopping", "closing", "closed", or "crashed"

\* Who calls close: the handler of start, and the driver for a command or a session.
Closers == {"start", "driver"}

os_vars    == <<shell, killed, control, diagnosed>>
start_vars == <<starter, creation, cancels>>
close_vars == <<process, directory, closing, contained, troubled>>
native     == <<os_vars, start_vars, close_vars, containment, privileged_used, session>>

ProcessInit ==
  /\ starter = "idle" /\ creation = "none" /\ cancels = 0
  /\ shell = "absent" /\ killed = FALSE /\ control = <<>> /\ diagnosed = FALSE
  /\ process = FALSE /\ containment = FALSE /\ directory = "none"
  /\ privileged_used = FALSE
  /\ closing = [by \in Closers |-> "no"] /\ contained = TRUE /\ troubled = FALSE
  /\ session = "entering"

Running == shell = "alive" /\ ~killed
-----------------------------------------------------------------------------
(* The operating system. *)

\* The creation takes its time: the process exists before its pipes are connected,
\* and the task that made it ends after that.
Creation ==
  /\ \/ creation = "pending" /\ creation' = "made" /\ shell' = "alive"
     \/ creation = "pending" /\ creation' = "refused" /\ UNCHANGED shell
     \/ creation = "made" /\ creation' = "done" /\ UNCHANGED shell
  /\ UNCHANGED <<killed, control, diagnosed, starter, cancels, close_vars, containment,
                 privileged_used, session>>

\* The shell answers the handshake; a wrong executable need not.
ShellGreets ==
  /\ Running /\ starter = "handshaking" /\ control = <<>>
  /\ control' = <<"session-ready">>
  /\ UNCHANGED <<shell, killed, diagnosed, start_vars, close_vars, containment,
                 privileged_used, session>>

\* It writes to its private diagnostic channel, which drain_control_errors reads.
ShellComplains ==
  /\ Running /\ process /\ ~diagnosed
  /\ diagnosed' = TRUE
  /\ UNCHANGED <<shell, killed, control, start_vars, close_vars, containment,
                 privileged_used, session>>

\* It exits, crashes, or dies of a signal.
ShellDies ==
  /\ shell = "alive"
  /\ shell' = "dead"
  /\ UNCHANGED <<killed, control, diagnosed, start_vars, close_vars, containment,
                 privileged_used, session>>
-----------------------------------------------------------------------------
(* start. *)

\* A session that was closed before is not entered.
Start ==
  /\ starter = "idle" /\ session = "entering"
  /\ starter' = "creating" /\ creation' = "pending" /\ directory' = "owned"
  /\ UNCHANGED <<os_vars, cancels, process, closing, contained, troubled, containment,
                 privileged_used, session>>

Created == creation \in {"done", "refused"}

\* The handler of start takes what a finished creation has made: what was never
\* adopted, or was, and another close has forgotten it since.  Then it closes.
Handles == Created /\ starter' = "failing" /\ process' = (process \/ creation = "done")

\* The shielded creation ends: the process is adopted, contained and asked for a
\* sign of life; or it failed, and so does start.
CreationReturns ==
  /\ starter = "creating"
  /\ \/ /\ creation = "done"
        /\ process' = TRUE /\ containment' = TRUE
        /\ starter' = "handshaking"
     \/ /\ creation = "refused"
        /\ Handles
        /\ UNCHANGED containment
  /\ UNCHANGED <<os_vars, creation, cancels, directory, closing, contained, troubled,
                 privileged_used, session>>

\* A line that read_control returns: diagnostics come first, whatever is in the pipe.
CanReadLine == control # <<>> /\ ~diagnosed

\* No line will come: diagnostics, or the end of a pipe that nobody holds open.
ControlLost(held) == diagnosed \/ (control = <<>> /\ shell = "dead" /\ ~held)

\* The greeting that was waited for, or none; the next call of read_control fails
\* when a close has forgotten the process.  That __aenter__ then writes OPEN into
\* a session that was left meanwhile is ShellSession's, and no command runs in it.
Handshake ==
  /\ starter = "handshaking"
  /\ \/ /\ CanReadLine /\ control' = Tail(control)
        /\ IF session = "entering"
           THEN starter' = "started" /\ session' = "open"
           ELSE starter' = "late" /\ UNCHANGED session
        /\ UNCHANGED process
     \/ /\ ControlLost(FALSE) \/ ~process
        /\ Handles
        /\ UNCHANGED <<control, session>>
  /\ UNCHANGED <<shell, killed, diagnosed, creation, cancels, directory, closing, contained,
                 troubled, containment, privileged_used>>

\* Mutant: a cancelled start closes what it owns, not what it is still creating.
CancelForgets ==
  /\ cancels < Cancellations /\ cancels' = cancels + 1
  /\ starter \in {"creating", "handshaking"} /\ starter' = "failing"
  /\ UNCHANGED <<os_vars, creation, close_vars, containment, privileged_used, session>>

\* A second cancellation ends the handler of start at the creation that it awaits:
\* asyncio passes it on to a task that still runs, and kills the process itself; what
\* a task has returned already is dropped.
CancelAwaiting ==
  /\ starter = "awaiting" /\ starter' = "failed"
  /\ \/ creation = "done" /\ creation' = "lost" /\ UNCHANGED shell
     \/ /\ creation # "done" /\ creation' = "refused"
        /\ shell' = IF shell = "alive" THEN "dead" ELSE shell
  /\ UNCHANGED <<process, closing>>

\* startup_timeout, or whoever waits for the session, cancels start.  Its handler goes
\* on, and waits for a creation that has not ended; a second cancellation ends the
\* handler where it is.
CancelStart ==
  /\ cancels < Cancellations /\ cancels' = cancels + 1
  /\ \/ /\ starter \in {"creating", "handshaking"}
        /\ Handles \/ (~Created /\ starter' = "awaiting" /\ UNCHANGED process)
        /\ UNCHANGED <<creation, shell, closing>>
     \/ CancelAwaiting
     \/ /\ starter = "failing" /\ closing["start"] = "waiting"
        /\ starter' = "failed" /\ closing' = [closing EXCEPT !["start"] = "no"]
        /\ UNCHANGED <<creation, shell, process>>
  /\ UNCHANGED <<killed, control, diagnosed, directory, contained, troubled, containment,
                 privileged_used, session>>

\* The handler still awaits the creation, and adopts what it made.
AdoptLate ==
  /\ starter = "awaiting" /\ Handles
  /\ UNCHANGED <<os_vars, creation, cancels, directory, closing, contained, troubled, containment,
                 privileged_used, session>>
-----------------------------------------------------------------------------
(* close. *)

\* The rest of close: it forgets the process and the directory, whatever went wrong.
\* Nobody looks at the report that start gets.
CloseReturns(by, error, late) ==
  /\ closing' = [closing EXCEPT ![by] = "returned"]
  /\ process' = FALSE
  /\ \E stuck \in BOOLEAN :
       /\ stuck => directory = "owned"
       /\ directory' = IF directory = "owned" THEN IF stuck THEN "left" ELSE "removed"
                       ELSE directory
       /\ troubled' = (troubled \/ error \/ late \/ stuck)
       /\ contained' = IF by = "start" THEN contained
                       ELSE ~(error \/ late \/ stuck \/ privileged_used)

\* SIGKILL to the interpreter's process group.  A group that is gone is no error.
Terminate == killed' = TRUE

\* Signal the group, or the process if nothing contains it; the system may refuse.
CloseBegins(by) ==
  /\ closing[by] = "no"
  /\ IF process
     THEN \/ /\ Terminate /\ closing' = [closing EXCEPT ![by] = "waiting"]
             /\ UNCHANGED <<process, directory, contained, troubled>>
          \/ CloseReturns(by, TRUE, FALSE) /\ UNCHANGED killed
     ELSE CloseReturns(by, FALSE, FALSE) /\ UNCHANGED killed
  /\ UNCHANGED <<shell, control, diagnosed, start_vars, containment, privileged_used, session>>

\* The wait ends.  If the other call has forgotten the process meanwhile, this one
\* fails on it, unless both were past that line.
CloseEnds(by) ==
  /\ closing[by] = "waiting"
  /\ \/ shell = "dead" /\ CloseReturns(by, FALSE, FALSE)
     \/ CloseReturns(by, FALSE, TRUE)
     \/ /\ ~process /\ closing' = [closing EXCEPT ![by] = "raised"]
        /\ UNCHANGED <<process, directory, contained, troubled>>
  /\ UNCHANGED <<os_vars, start_vars, containment, privileged_used, session>>

\* The caller goes on.
CloseReturned(by) ==
  /\ closing[by] \in {"returned", "raised"}
  /\ closing' = [closing EXCEPT ![by] = "no"]
-----------------------------------------------------------------------------
(* Who closes: a start that fails, and the session. *)

StartCloses == starter = "failing" /\ CloseBegins("start")

StartFails ==
  /\ starter = "failing" /\ starter' = "failed"
  /\ CloseReturned("start")
  /\ UNCHANGED <<os_vars, creation, cancels, process, directory, contained, troubled, containment,
                 privileged_used, session>>

\* aclose, by whoever has the session: its start may still be under way, or be over.
Leave ==
  /\ session \in {"entering", "open"}
  /\ session' = "stopping"
  /\ UNCHANGED <<os_vars, start_vars, close_vars, containment, privileged_used>>

\* Once no command is left, shutdown closes the driver.
SessionCloses(commands_left) ==
  /\ session = "stopping" /\ ~commands_left
  /\ session' = "closing"
  /\ UNCHANGED <<os_vars, start_vars, close_vars, containment, privileged_used>>

SessionClosing == session = "closing" /\ CloseBegins("driver")

\* An error that close raises leaves the session in CLOSING.
SessionClosed ==
  /\ session = "closing"
  /\ session' = IF closing["driver"] = "raised" THEN "crashed" ELSE "closed"
  /\ CloseReturned("driver")
  /\ UNCHANGED <<os_vars, start_vars, process, directory, contained, troubled, containment,
                 privileged_used>>

StartNext ==
  \/ Start \/ Creation \/ CreationReturns \/ ShellGreets \/ Handshake
  \/ CancelStart \/ AdoptLate \/ StartCloses \/ StartFails

CloseNext == (\E by \in Closers : CloseEnds(by)) \/ SessionClosing \/ SessionClosed

\* A session that runs no command.
ProcessNext ==
  \/ StartNext \/ CloseNext \/ ShellComplains \/ ShellDies
  \/ Leave \/ SessionCloses(FALSE)

ProcessSpec == ProcessInit /\ [][ProcessNext]_native
-----------------------------------------------------------------------------
Ended == {"idle", "started", "late", "failed"}

ProcessTypeOK ==
  /\ starter \in {"creating", "handshaking", "awaiting", "failing"} \cup Ended
  /\ creation \in {"none", "pending", "made", "done", "refused", "lost"}
  /\ cancels \in 0..Cancellations
  /\ shell \in {"absent", "alive", "dead"} /\ killed \in BOOLEAN
  /\ process \in BOOLEAN /\ containment \in BOOLEAN /\ diagnosed \in BOOLEAN
  /\ privileged_used \in BOOLEAN /\ troubled \in BOOLEAN
  /\ directory \in {"none", "owned", "left", "removed"}
  /\ closing \in [Closers -> {"no", "waiting", "returned", "raised"}]
  /\ contained \in BOOLEAN
  /\ session \in {"entering", "open", "stopping", "closing", "closed", "crashed"}

\* A session that closed without trouble leaves no directory behind.  Once its start has
\* ended it leaves no shell either, but for two that the code does leave: one whose
\* creation was lost to a second cancellation (process.py:105), and one that start adopted
\* after the close (session.py:100, 318), which was killed unless start succeeded all the
\* same.  Nothing else is excepted: neither a start that was cancelled before it owned the
\* process it was creating (process.py:102-108), nor two closes at once.
ClosedLeavesNothing ==
  session = "closed" /\ ~troubled /\ creation # "lost" =>
    /\ directory \in {"none", "removed"}
    /\ starter \in Ended =>
         /\ creation \in {"none", "done", "refused"}
         /\ shell = "alive" => process /\ (killed \/ starter = "late")

-----------------------------------------------------------------------------
(* What the repository says and the code does not keep. *)

\* results.py:82 says of `contained`: "The process containment unit was successfully
\* cleaned up."  The second close of a session has forgotten the process that the
\* first could not end (process.py:175, 182-184).  With Cancellations > 1 a creation that
\* was lost violates it as well: the close finds no process, and the shell is alive
\* (process.py:105), although docs/development/specification.md:283 says "Cancellation must
\* never cause the package to lose ownership of an operating-system process that was
\* successfully created."
ContainedMeansClean ==
  session = "closed" /\ starter = "failed" /\ contained => shell # "alive"
=============================================================================
