---------------------------- MODULE NativeDriver ----------------------------
(***************************************************************************)
(* The commands of a native session: execute, activate, pump, stop and     *)
(* finish of backends/native/driver.py and termination.py, called by       *)
(* run_owned (frontend/execution.py), against the processes that the shell *)
(* runs for them (backends/bash/syntax.py, backends/native/bridge.py), the *)
(* capture of their output (StreamCapture), their sudo authentication      *)
(* (SudoAuthentication) and the shell's own life (NativeProcess).          *)
(*                                                                         *)
(* Commands run one at a time, as ShellSession shows.  One output stream   *)
(* stands for the two: they share no state.  The platform is POSIX.        *)
(***************************************************************************)
EXTENDS StreamCapture, NativeProcess, SudoAuthentication

CONSTANT Plans         \* bound: sessions to look at, each with the kinds of its
                       \* commands, in order, and the destination of their output

Kinds == {"script", "process", "elevated", "noninteractive"}

ASSUME PlansAssumption ==
  Plans \subseteq [kinds : Seq(Kinds), destination : Destinations]

VARIABLES
  plan,                 \* the kinds of the commands to come
  at,                   \* where run_owned and the driver are
  kind,                 \* the command
  usable,               \* session.state is not BROKEN
  outcome,              \* as execute_owned leaves it
  result,               \* the CommandResult, once there is one
  stop_requested, startup_failed,
  authenticated,        \* handle.privilege.authenticated
  channels,             \* the command's pipes exist
  keeper, auth_keeper,  \* the bootstrap ends of its output, and its auth pipes
  ready,                \* driver.ready
  activation,           \* the task: "none", "waiting", "done"
  pump,                 \* the task: "none", "reading", "eof", "cancelled"
  job,                  \* the command in its shell or bridge
  descendant,           \* a process that it left behind: "contained" or "escaped"
  holds,                \* the pipes that this holds open: "output", "control"
  produced              \* bytes written to the output

runner_vars  == <<plan, at, kind, usable, outcome, result, stop_requested, startup_failed>>
driver_vars  == <<authenticated, channels, keeper, auth_keeper, ready, activation, pump>>
process_vars == <<job, descendant, holds, produced>>
vars == <<runner_vars, driver_vars, process_vars, capture, native, authentication>>

NoResult == [outcome |-> "none", elevated |-> FALSE, granted |-> FALSE]

Init ==
  /\ ProcessInit /\ Fresh /\ NoAuthentication
  /\ \E p \in Plans : plan = p.kinds /\ destination = p.destination
  /\ at = "idle" /\ kind = "none" /\ usable = TRUE
  /\ outcome = "none" /\ result = NoResult
  /\ stop_requested = FALSE /\ startup_failed = FALSE /\ authenticated = FALSE
  /\ channels = FALSE /\ keeper = FALSE /\ auth_keeper = FALSE
  /\ ready = FALSE /\ activation = "none" /\ pump = "none"
  /\ job = "none" /\ descendant = "none" /\ holds = {} /\ produced = 0

Elevated == kind \in {"elevated", "noninteractive"}
Bridged == kind # "script"
-----------------------------------------------------------------------------
(* The processes of a command.  A script runs in the shell itself, anything *)
(* else in a bridge, which holds the control pipe open as the shell does.   *)

JobLives == job \in {"sourced", "opened", "running"}
OutputHeld == keeper \/ job \in {"opened", "running"} \/ "output" \in holds
ControlHeld == (Bridged /\ JobLives) \/ "control" \in holds

\* Nobody reads the control pipe of a broken session: what it holds is left out.
Prints(lines) ==
  /\ control' = IF usable THEN control \o lines ELSE control
  /\ UNCHANGED <<shell, killed, diagnosed>>

process_else == <<start_vars, close_vars, containment, privileged_used, session>>

\* Redirected, or opened by the bridge; then the command is declared ready.
JobBegins ==
  /\ job = "sourced" /\ ~killed /\ ~Elevated
  /\ \/ job' = "running" /\ Prints(<<"ready">>)
     \/ Bridged /\ job' = "ended" /\ Prints(<<"ready", "startup_failure">>)
  /\ UNCHANGED <<descendant, holds, produced, process_else, authentication>>

\* The ends of the pipes cannot be opened: the complaint is the shell's own.
JobCannotOpen ==
  /\ job = "sourced" /\ ~killed
  /\ job' = "ended" /\ diagnosed' = TRUE
  /\ UNCHANGED <<shell, killed, control, descendant, holds, produced, process_else,
                 authentication>>

JobAuthenticates ==
  /\ job = "sourced" /\ ~killed /\ Elevated
  /\ job' = "opened"
  /\ sudo' = "checking"
  /\ Prints(IF kind = "elevated" THEN <<"auth_ready">> ELSE <<>>)
  /\ UNCHANGED <<descendant, holds, produced, process_else, used, pipe_vars, supplier_vars>>

\* What the bridge prints of the authentication, and whether it goes on.
JobAuthenticated ==
  /\ job = "opened" /\ ~killed /\ Decided
  /\ \/ sudo = "granted" /\ job' = "running" /\ Prints(<<"granted", "ready">>)
     \/ sudo = "denied"  /\ job' = "ended"   /\ Prints(<<"denied", "ready">>)
     \/ sudo = "broken"  /\ job' = "ended"   /\ Prints(<<"ready", "startup_failure">>)
  /\ UNCHANGED <<descendant, holds, produced, process_else, authentication>>

Authenticates ==
  /\ job = "opened" /\ ~killed
  /\ \/ SudoDecides(kind = "elevated")
     \/ BridgeAsks
     \/ BridgeReads
  /\ UNCHANGED <<process_vars, native>>

\* Output of the command, or of what it left behind.
Writes ==
  /\ \/ job = "running" /\ ~killed
     \/ "output" \in holds /\ (descendant = "contained" => ~killed)
  /\ channels /\ produced + ChunkBytes <= MaxBytes
  /\ produced' = produced + ChunkBytes
  /\ UNCHANGED <<job, descendant, holds, native, authentication>>

\* A background process keeps the output open, and the control pipe if it is a
\* script's, whose descriptor 9 it inherits.
LeavesBehind ==
  /\ job = "running" /\ ~killed /\ descendant = "none"
  /\ descendant' = IF Elevated THEN "escaped" ELSE "contained"
  /\ holds' = IF Bridged THEN {"output"} ELSE {"output", "control"}
  /\ UNCHANGED <<job, produced, native, authentication>>

\* Nobody sees what it does once the command's pipes are closed.
DescendantCloses ==
  /\ "output" \in holds /\ channels
  /\ holds' = holds \ {"output"}
  /\ UNCHANGED <<job, descendant, produced, native, authentication>>

DescendantEnds ==
  /\ descendant # "none" /\ channels
  /\ descendant' = "none" /\ holds' = {}
  /\ UNCHANGED <<job, produced, native, authentication>>

JobEnds ==
  /\ job = "running" /\ ~killed
  /\ job' = "ended"
  /\ UNCHANGED <<descendant, holds, produced, native, authentication>>

\* A bridge is killed; the privileged command that it waits for is not.
BridgeDies ==
  /\ Bridged /\ JobLives
  /\ job' = "ended"
  /\ IF Elevated /\ job = "running" /\ descendant = "none"
     THEN descendant' = "escaped" /\ holds' = {"output"}
     ELSE UNCHANGED <<descendant, holds>>
  /\ diagnosed' \in {diagnosed, Running \/ diagnosed}
  /\ UNCHANGED <<shell, killed, control, produced, process_else, authentication>>

\* The wrapper's last line.
ShellReports ==
  /\ job = "ended" /\ Running
  /\ job' = "none"
  /\ Prints(<<"status">>)
  /\ UNCHANGED <<descendant, holds, produced, process_else, authentication>>

\* With the shell goes the script that it runs.
ShellEnds ==
  /\ ShellDies
  /\ job' = IF ~Bridged /\ JobLives THEN "ended" ELSE job
  /\ UNCHANGED <<descendant, holds, produced, authentication>>

CommandNext ==
  /\ \/ JobBegins \/ JobCannotOpen \/ JobAuthenticates \/ JobAuthenticated \/ Authenticates
     \/ Writes \/ LeavesBehind \/ DescendantCloses \/ DescendantEnds \/ JobEnds
     \/ BridgeDies \/ ShellReports \/ ShellEnds
     \/ ShellComplains /\ at \in {"idle", "executing"} /\ UNCHANGED <<process_vars, authentication>>
  /\ UNCHANGED <<runner_vars, driver_vars, capture>>
-----------------------------------------------------------------------------
(* The tasks that execute starts: activation, pump, and supplier.           *)

\* Mutant: the bootstrap ends are released without waiting for the command.
ActivateEarly ==
  /\ activation = "waiting"
  /\ activation' = "done" /\ keeper' = FALSE /\ auth_keeper' = FALSE
  /\ UNCHANGED <<runner_vars, authenticated, channels, ready, pump, process_vars, capture,
                 native, authentication>>

Activate ==
  /\ activation = "waiting" /\ ready
  /\ activation' = "done" /\ keeper' = FALSE /\ auth_keeper' = FALSE
  /\ UNCHANGED <<runner_vars, authenticated, channels, ready, pump, process_vars, capture,
                 native, authentication>>

\* A chunk is read and fed to the capture; or the output has ended.
Pump ==
  /\ pump = "reading" /\ feeding = "no"
  /\ \/ received < produced /\ Feed /\ UNCHANGED pump
     \/ /\ received = produced /\ ~OutputHeld
        /\ pump' = "eof" /\ UNCHANGED capture
  /\ UNCHANGED <<runner_vars, authenticated, channels, keeper, auth_keeper, ready, activation,
                 process_vars, native, authentication>>

\* supply_passwords, and the callback that tells the command of its failure.
Supply ==
  /\ \/ SupplierReads
     \/ SupplierProvides(auth_keeper \/ job = "opened")
     \/ SupplierEnds(auth_keeper \/ job = "opened")
  /\ IF supplier' \in {"failed", "limited"}
     THEN startup_failed' = TRUE /\ authenticated' = FALSE /\ stop_requested' = TRUE
     ELSE UNCHANGED <<startup_failed, authenticated, stop_requested>>
  /\ UNCHANGED <<at, plan, kind, usable, outcome, result, channels, keeper, auth_keeper,
                 ready, activation, pump, process_vars, capture, native>>

\* The capture's thread goes on, whoever waits for it.
Captures ==
  /\ CaptureThread
  /\ UNCHANGED <<runner_vars, driver_vars, process_vars, native, authentication>>

TaskNext == Activate \/ Pump \/ Supply \/ Captures
-----------------------------------------------------------------------------
(* run_owned: prepare and execute.                                          *)

\* The lease is acquired and prepare_command called, for a new handle.  It creates
\* the pipes and files; a part of them is there if it fails.
Prepare ==
  /\ at = "idle" /\ session = "open" /\ usable /\ plan # <<>>
  /\ at' = "preparing" /\ kind' = Head(plan) /\ plan' = Tail(plan)
  /\ outcome' = "none" /\ result' = NoResult
  /\ stop_requested' = FALSE /\ startup_failed' = FALSE /\ authenticated' = FALSE
  /\ ready' = FALSE
  /\ privileged_used' = (privileged_used \/ kind' \in {"elevated", "noninteractive"})
  /\ channels' = TRUE /\ keeper' = TRUE /\ auth_keeper' = (kind' = "elevated")
  /\ sudo' = "off" /\ used' = 0 /\ asks' = 0 /\ answers' = 0 /\ supplier' = "none" /\ count' = 0
  /\ produced' = 0
  /\ IF sealing = "done" THEN Renew ELSE UNCHANGED capture
  /\ UNCHANGED <<usable, activation, pump, job, descendant, holds, os_vars, start_vars,
                 close_vars, containment, session>>

\* execute: its tasks, and the line that sources the wrapper.  Whether a dead shell
\* is noticed depends on what the transport has heard.
Execute ==
  /\ at = "preparing"
  /\ at' = "executing"
  /\ activation' = "waiting" /\ pump' = "reading"
  /\ supplier' = IF kind = "elevated" THEN "reading" ELSE "none"
  /\ job' = IF Running THEN "sourced" ELSE "none"
  /\ UNCHANGED <<plan, kind, usable, outcome, result, stop_requested, startup_failed,
                 authenticated, channels, keeper, auth_keeper, ready, descendant, holds, produced,
                 capture, native, bridge_vars, pipe_vars, count>>

\* A line of the control protocol.  The last one is the status: then the output is
\* drained.
Reads(line) == CanReadLine /\ Head(control) = line /\ control' = Tail(control)

ReadControl ==
  /\ at = "executing"
  /\ \/ /\ Reads("auth_ready") /\ auth_keeper' = FALSE
        /\ UNCHANGED <<at, authenticated, ready, startup_failed>>
     \/ /\ Reads("granted") /\ authenticated' = TRUE
        /\ UNCHANGED <<at, auth_keeper, ready, startup_failed>>
     \/ /\ Reads("denied") /\ authenticated' = FALSE
        /\ UNCHANGED <<at, auth_keeper, ready, startup_failed>>
     \/ /\ Reads("ready") /\ ready' = TRUE
        /\ UNCHANGED <<at, auth_keeper, authenticated, startup_failed>>
     \/ /\ Reads("startup_failure") /\ startup_failed' = TRUE
        /\ UNCHANGED <<at, auth_keeper, authenticated, ready>>
     \/ /\ Reads("status") /\ at' = "draining"
        /\ UNCHANGED <<auth_keeper, authenticated, ready, startup_failed>>
  /\ UNCHANGED <<plan, kind, usable, outcome, result, stop_requested, channels, keeper,
                 activation, pump, process_vars, capture, shell, killed, diagnosed, process_else,
                 authentication>>

\* Mutant: a failure leaves the session as it is.
FailsQuietly ==
  /\ outcome' = "failed" /\ at' = "stopping"
  /\ IF at = "draining" /\ pump = "reading"
     THEN CancelFeed /\ pump' = "cancelled"
     ELSE UNCHANGED <<capture, pump>>
  /\ UNCHANGED <<plan, kind, usable, result, stop_requested, startup_failed, authenticated,
                 channels, keeper, auth_keeper, ready, activation, process_vars, native,
                 authentication>>

\* Whatever ends execution otherwise breaks the session; which of the failures it was is
\* left out.  Cancelling a drain cancels what it gathers.
Fails ==
  /\ outcome' = "failed" /\ at' = "stopping" /\ usable' = FALSE /\ control' = <<>>
  /\ IF at = "draining" /\ pump = "reading"
     THEN CancelFeed /\ pump' = "cancelled"
     ELSE UNCHANGED <<capture, pump>>
  /\ UNCHANGED <<plan, kind, result, stop_requested, startup_failed, authenticated, channels,
                 keeper, auth_keeper, ready, activation, process_vars, shell, killed, diagnosed,
                 process_else, authentication>>

Waiting == at \in {"executing", "draining"}

\* The shell is lost: its pipe ends, it complains, or it cannot be written to.
LosesShell ==
  at = "executing" /\ ControlLost(ControlHeld) /\ Fails

Stopped ==
  Waiting /\ stop_requested /\ Fails

DrainExpires == at = "draining" /\ Fails

\* A deadline, an input plan that fails, a resource that cannot be created, or the line
\* to a dead shell that cannot be written.
Breaks ==
  /\ Waiting \/ at = "preparing"
  /\ Fails

Drained ==
  /\ at = "draining" /\ pump \in {"eof", "none"}
  /\ at' = "finishing" /\ outcome' = "exited"
  /\ UNCHANGED <<plan, kind, usable, result, stop_requested, startup_failed, driver_vars,
                 process_vars, capture, native, authentication>>
-----------------------------------------------------------------------------
(* stop_native, finish, and the finalization of the result.                 *)

runner_else == <<plan, kind, usable, outcome, result, stop_requested, startup_failed>>

\* Mutant: the soft stop waits as long as it takes.
SoftWaits ==
  /\ at = "stopping" /\ shell = "dead" /\ at' = "forced"
  /\ UNCHANGED <<runner_else, driver_vars, process_vars, capture, native, authentication>>

\* SIGTERM to the group, which may end any of it, as it may end at any time.  The wait
\* ends with the shell, with soft_stop, or at once if the signal cannot be sent.
SoftStop ==
  /\ at = "stopping" /\ at' = "forced"
  /\ UNCHANGED <<runner_else, driver_vars, process_vars, capture, native, authentication>>

StopCloses ==
  /\ at = "forced" /\ CloseBegins("driver")
  /\ UNCHANGED <<runner_vars, driver_vars, process_vars, capture, authentication>>

StopClosed ==
  /\ at = "forced" /\ CloseReturned("driver")
  /\ at' = "gathering"
  /\ UNCHANGED <<runner_else, driver_vars, process_vars, capture, os_vars, start_vars, process,
                 directory, contained, troubled, containment, privileged_used, session,
                 authentication>>

\* Mutant: the pumps are awaited without a deadline.
FinishWaits ==
  /\ at \in {"gathering", "finishing"} /\ pump # "reading" /\ at' = "sealing"
  /\ UNCHANGED <<runner_else, driver_vars, process_vars, capture, native, authentication>>

\* The pumps have ended, or the drain deadline has passed: finish cancels every task
\* and closes every channel.  What still runs of a command that was given up has no
\* effect from here on, and is left out.
Finish ==
  /\ at \in {"gathering", "finishing"} /\ at' = "sealing"
  /\ IF pump = "reading" THEN CancelFeed ELSE UNCHANGED capture
  /\ pump' = "none" /\ activation' = "none"
  /\ supplier' = IF supplier \in {"reading", "providing"} THEN "cancelled" ELSE supplier
  /\ channels' = FALSE /\ keeper' = FALSE /\ auth_keeper' = FALSE
  /\ IF usable THEN UNCHANGED <<job, descendant, holds>>
     ELSE job' = "none" /\ descendant' = "none" /\ holds' = {}
  /\ UNCHANGED <<runner_else, authenticated, ready, produced, native, bridge_vars, pipe_vars,
                 count>>

Finalize ==
  /\ at = "sealing"
  /\ \/ Seal(outcome # "exited")
     \/ SealExpires
  /\ UNCHANGED <<runner_vars, driver_vars, process_vars, native, authentication>>

\* Mutant: an authentication that failed does not change the outcome.
OutcomeOfStatus ==
  IF outcome = "exited" /\ evidence.sealed /\ ~startup_failed THEN "exited" ELSE "failed"

\* Of an execution that exited, an unsealed output, a command that could not start and
\* one that was not authenticated make a failure.
Outcome ==
  IF /\ outcome = "exited" /\ evidence.sealed /\ ~startup_failed
     /\ Elevated => authenticated
  THEN "exited" ELSE "failed"

Settle ==
  /\ at = "sealing" /\ sealing = "done"
  /\ at' = "idle"
  /\ result' = [outcome |-> Outcome, elevated |-> Elevated, granted |-> sudo = "granted"]
  /\ UNCHANGED <<plan, kind, usable, outcome, stop_requested, startup_failed, driver_vars,
                 process_vars, capture, native, authentication>>

\* The session is left, which stops its command as handle.stop would.
LeaveSession ==
  /\ Leave
  /\ stop_requested' = (at # "idle")
  /\ UNCHANGED <<at, plan, kind, usable, outcome, result, startup_failed, driver_vars,
                 process_vars, capture, authentication>>

EntryNext ==
  /\ StartNext \/ CloseNext \/ SessionCloses(at # "idle")
  /\ UNCHANGED <<runner_vars, driver_vars, process_vars, capture, authentication>>

RunnerNext ==
  \/ Prepare \/ Execute \/ ReadControl \/ LosesShell \/ Stopped \/ DrainExpires \/ Breaks
  \/ Drained \/ SoftStop \/ StopCloses \/ StopClosed \/ Finish
  \/ Finalize \/ Settle \/ LeaveSession

Next == CommandNext \/ TaskNext \/ RunnerNext \/ EntryNext

\* What the event loop does by itself, deadlines included.  Nothing is assumed of the
\* shell, the commands, the password provider, or the capture's thread.
LoopStep ==
  \/ Execute \/ ReadControl \/ LosesShell \/ Stopped \/ DrainExpires \/ Drained
  \/ SoftStop \/ StopCloses \/ StopClosed \/ Finish \/ Finalize \/ Settle
  \/ /\ CloseNext \/ SessionCloses(at # "idle")
     /\ UNCHANGED <<runner_vars, driver_vars, process_vars, capture, authentication>>

Spec == Init /\ [][Next]_vars
FairSpec == Spec /\ WF_vars(LoopStep)
-----------------------------------------------------------------------------
TypeOK ==
  /\ CaptureTypeOK /\ ProcessTypeOK /\ AuthenticationTypeOK
  /\ at \in {"idle", "preparing", "executing", "draining", "stopping", "forced",
             "gathering", "finishing", "sealing"}
  /\ plan \in Seq(Kinds) /\ kind \in Kinds \cup {"none"} /\ usable \in BOOLEAN
  /\ outcome \in {"none", "exited", "failed"}
  /\ result \in [outcome : {"none", "exited", "failed"}, elevated : BOOLEAN, granted : BOOLEAN]
  /\ stop_requested \in BOOLEAN /\ startup_failed \in BOOLEAN /\ authenticated \in BOOLEAN
  /\ channels \in BOOLEAN /\ keeper \in BOOLEAN /\ auth_keeper \in BOOLEAN
  /\ ready \in BOOLEAN /\ activation \in {"none", "waiting", "done"}
  /\ pump \in {"none", "reading", "eof", "cancelled"}
  /\ job \in {"none", "sourced", "opened", "running", "ended"}
  /\ descendant \in {"none", "contained", "escaped"} /\ holds \subseteq {"output", "control"}
  /\ produced \in Nat

\* The end of the output is not reported while somebody may still write: neither
\* before the command has opened its end, nor while a descendant keeps it
\* (driver.py:69-80, 88).
EndOfOutputIsFinal == pump = "eof" => ~JobLives /\ "output" \notin holds /\ received = produced

\* A command that the result says exited was authenticated, if it had to be, and its
\* output was read to the end (execution.py:158-167).  Evidence that does not warn of
\* unread bytes is of an output that was read to the end, whatever became of the command:
\* a stop may have cancelled the pumps that the drain gathered (driver.py:167,
\* capture.py:106-115).
ResultIsEarned ==
  /\ result.outcome = "exited" =>
       /\ result.elevated => result.granted
       /\ evidence.sealed /\ evidence.received = produced
  /\ sealing = "done" /\ ~evidence.unread_possible => evidence.received = produced

\* A session that takes another command starts it on a control channel that holds
\* nothing of the last one, in a shell that runs nothing of it and whose group was not
\* killed, and nobody holds the last one's output (execution.py:139).  Only a descendant
\* of a script may live on that has closed its output and kept the control descriptor.
ReusableIsClean ==
  at = "idle" /\ usable /\ session = "open" =>
    control = <<>> /\ job = "none" /\ ~killed /\ "output" \notin holds

\* Once a command cannot succeed, or has reported its status, its result comes within
\* the deadlines, whatever its processes, its password provider and its files do.
Doomed ==
  \/ at \notin {"idle", "preparing", "executing"}
  \/ at = "executing" /\ (stop_requested \/ diagnosed \/ (shell = "dead" /\ ~ControlHeld))
SettlesInTime == Doomed ~> at = "idle"
=============================================================================
