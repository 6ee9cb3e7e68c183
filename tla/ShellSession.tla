---------------------------- MODULE ShellSession ----------------------------
(***************************************************************************)
(* One session (frontend/session.py), the run_owned task of each submitted *)
(* command (frontend/execution.py) and its acquisition of the execution    *)
(* lease (frontend/lease.py), with the virtual state operations of a       *)
(* MockShellSession (backends/mock/state.py), which use the same lease.    *)
(*                                                                         *)
(* asyncio runs a task from one suspension to the next without letting     *)
(* another run, so an action is what a task does between two awaits:       *)
(* `at[c]` names the await at which run_owned of command c is suspended.   *)
(* What the driver, the shell and the timers do is nondeterministic.       *)
(* Commands are numbered in the order of their submission, which is also   *)
(* the order of the insertion-ordered dict `pending`.                      *)
(***************************************************************************)
EXTENDS Naturals, SequencesExt

CONSTANTS
  NumCommands,          \* commands submitted to the session
  Owners,               \* tasks that enter the session
  Shared,               \* any task may call aclose, at any time
  Policies,             \* the ConcurrencyPolicy values to configure
  Clocks,               \* the values of virtual_time: TRUE in a MockShellSession
  Accesses,             \* virtual state operations of a MockShellSession
  Budgeted,             \* commands with an acquisition budget
  DriverErrors          \* exceptions that preparation and execution raise

Commands == 1..NumCommands

\* The except clauses of run_owned.
OutcomeOf ==
  [TimeoutError                 |-> "TIMEOUT",
   InputError                   |-> "INPUT_FAILURE",
   CaptureError                 |-> "OUTPUT_FAILURE",
   MockExpectationError         |-> "INPUT_FAILURE",
   SessionProtocolError         |-> "SESSION_LOST",
   PrivilegeAuthenticationError |-> "STARTUP_FAILURE",
   OSError                      |-> "STARTUP_FAILURE",
   Exception                    |-> "INTERNAL_FAILURE"]

Outcomes == {OutcomeOf[e] : e \in DOMAIN OutcomeOf} \cup {"STOPPED", "EXITED"}

ASSUME SessionAssumption ==
  /\ NumCommands \in Nat
  /\ Shared \in BOOLEAN
  /\ Policies \subseteq {"REJECT", "QUEUE"}
  /\ Clocks \subseteq BOOLEAN
  /\ Accesses \cap Commands = {}
  /\ Budgeted \subseteq Commands
  /\ DriverErrors \subseteq DOMAIN OutcomeOf

VARIABLES
  concurrency,          \* session.config.concurrency
  virtual_time,         \* session.virtual_time
  state,                \* session.state
  entry,                \* how far each owner's `async with session` is
  close,                \* how far the close_task is
  gathered,             \* the commands whose tasks shutdown awaits
  pending,              \* session.pending
  stop_requested,       \* commands whose stop_requested event is set
  startup_failed,       \* commands whose startup_failed flag is set
  at,                   \* where run_owned of each command is suspended
  handle_state,         \* handle.state
  acquired,             \* commands whose `acquired` is true
  outcome,              \* the local `outcome`, in the end result.outcome
  forced,               \* commands whose `forced` is true
  started,              \* commands whose `started` was taken
  reusable,             \* commands whose result.session_reusable is true
  access,               \* where each state operation is
  earlier,              \* the commands that were pending when it was called
  locked, waiters, attempt   \* session.lease

configuration == <<concurrency, virtual_time>>
accesses  == <<access, earlier>>
lifecycle == <<configuration, accesses, entry, close, gathered>>
requests  == <<pending, stop_requested, startup_failed>>
evidence  == <<forced, started, reusable>>
owned     == <<at, handle_state, acquired, outcome, evidence>>
lease     == <<locked, waiters, attempt>>
vars      == <<state, lifecycle, requests, owned, lease>>

Lease == INSTANCE FairLock WITH Clients <- Commands \cup Accesses

Init ==
  /\ concurrency \in Policies
  /\ virtual_time \in Clocks
  /\ state = "NEW"
  /\ entry = [o \in Owners |-> "outside"]
  /\ close = "none"
  /\ gathered = {}
  /\ pending = {} /\ stop_requested = {} /\ startup_failed = {}
  /\ at = [c \in Commands |-> "nowhere"]
  /\ handle_state = [c \in Commands |-> "queued"]
  /\ outcome = [c \in Commands |-> "STOPPED"]
  /\ acquired = {} /\ forced = {} /\ started = {} /\ reusable = {}
  /\ access = [a \in Accesses |-> "outside"]
  /\ earlier = [a \in Accesses |-> {}]
  /\ Lease!Init
-----------------------------------------------------------------------------
(* The session's owners: __aenter__, __aexit__, aclose. *)

Enters(o, from, to) == entry[o] = from /\ entry' = [entry EXCEPT ![o] = to]

Enter(o) ==
  /\ Enters(o, "outside", IF state = "NEW" THEN "starting" ELSE "refused")
  /\ UNCHANGED <<configuration, accesses, state, close, gathered, requests, owned, lease>>

EnterReturns(o) ==
  /\ Enters(o, "starting", "inside")
  /\ state' = "OPEN"
  /\ UNCHANGED <<configuration, accesses, close, gathered, requests, owned, lease>>

\* aclose creates the close_task once.
RequestClose == close' = IF close = "none" THEN "scheduled" ELSE close

\* driver.start failed, timed out or was cancelled.
EnterRaises(o) ==
  /\ Enters(o, "starting", "raised")
  /\ RequestClose
  /\ UNCHANGED <<configuration, accesses, state, gathered, requests, owned, lease>>

Exit(o) ==
  /\ Enters(o, "inside", "left")
  /\ RequestClose
  /\ UNCHANGED <<configuration, accesses, state, gathered, requests, owned, lease>>

\* An explicit aclose: from the body of the scope, or by whoever shares the
\* session.
Aclose ==
  /\ close = "none"
  /\ Shared \/ \E o \in Owners : entry[o] = "inside"
  /\ RequestClose
  /\ UNCHANGED <<configuration, accesses, state, entry, gathered, requests, owned, lease>>
-----------------------------------------------------------------------------
(* The close_task: shutdown. *)

Closes(from, to) == close = from /\ close' = to

\* Mutant: the owned commands are awaited but not stopped.
ShutdownStopsNothing ==
  /\ Closes("scheduled", "gathering")
  /\ state' = "CLOSING"
  /\ gathered' = pending
  /\ UNCHANGED <<configuration, accesses, entry, requests, owned, lease>>

\* Mutant: only the commands that wait are stopped and awaited.
ShutdownForgetsActive ==
  /\ Closes("scheduled", "gathering")
  /\ state' = "CLOSING"
  /\ stop_requested' = stop_requested \cup pending
  /\ gathered' = {c \in pending : handle_state[c] = "queued"}
  /\ UNCHANGED <<configuration, accesses, entry, pending, startup_failed, owned, lease>>

ShutdownBegins ==
  /\ Closes("scheduled", "gathering")
  /\ state' = "CLOSING"
  /\ stop_requested' = stop_requested \cup pending
  /\ gathered' = pending
  /\ UNCHANGED <<configuration, accesses, entry, pending, startup_failed, owned, lease>>

ShutdownGathers ==
  /\ Closes("gathering", "closing_driver")
  /\ gathered \cap pending = {}
  /\ UNCHANGED <<configuration, accesses, state, entry, gathered, requests, owned, lease>>

ShutdownReturns ==
  /\ Closes("closing_driver", "closed")
  /\ state' = "CLOSED"
  /\ UNCHANGED <<configuration, accesses, entry, gathered, requests, owned, lease>>

\* driver.close raised: the session stays in the state it is in.
ShutdownRaises ==
  /\ Closes("closing_driver", "failed")
  /\ UNCHANGED <<configuration, accesses, state, entry, gathered, requests, owned, lease>>
-----------------------------------------------------------------------------
(* The callers: submit and stop. *)

\* validate_submission
Accepts == state = "OPEN" /\ (concurrency = "REJECT" => pending = {})

Submit(c) ==
  /\ at[c] = "nowhere"
  /\ \A d \in Commands : d < c => at[d] # "nowhere"
  /\ Accepts
  /\ pending' = pending \cup {c}
  /\ at' = [at EXCEPT ![c] = "scheduled"]
  /\ UNCHANGED <<state, lifecycle, stop_requested, startup_failed,
                 handle_state, acquired, outcome, evidence, lease>>

\* handle.stop, also by the cancelled owner of run() or of a command scope.
Stop(c) ==
  /\ c \in pending \ stop_requested
  /\ stop_requested' = stop_requested \cup {c}
  /\ UNCHANGED <<state, lifecycle, pending, startup_failed, owned, lease>>
-----------------------------------------------------------------------------
(* acquire_lease, and the tasks it creates. *)

Moves(c, from, to) == at[c] = from /\ at' = [at EXCEPT ![c] = to]

\* No earlier task was scheduled and still has to take its first step: the
\* loop starts tasks in the order of their creation.
FirstAt(c, stage) == \A d \in pending : d < c => at[d] # stage

IsFirstPending(c) == c \in pending /\ \A d \in pending : c <= d

\* Mutant: the session's state is not looked at again.
ProceedWhateverState(c, from) ==
  IF c \notin stop_requested
  THEN /\ Moves(c, from, "preparing")
       /\ handle_state' = [handle_state EXCEPT ![c] = "preparing"]
  ELSE /\ Moves(c, from, "releasing")
       /\ UNCHANGED handle_state

\* run_owned goes on with the lease: it prepares the command, or finishes
\* right away when it was stopped or the session is not open any more.
Proceed(c, from) ==
  IF c \notin stop_requested /\ state = "OPEN"
  THEN /\ Moves(c, from, "preparing")
       /\ handle_state' = [handle_state EXCEPT ![c] = "preparing"]
  ELSE /\ Moves(c, from, "releasing")
       /\ UNCHANGED handle_state

BeginStopped(c) ==
  /\ c \in stop_requested
  /\ Moves(c, "scheduled", "finalizing")
  /\ UNCHANGED <<handle_state, acquired, outcome, lease>>

\* The first pending command acquires a free lease in its own task: at once,
\* unless somebody was woken for it and is still to resume.
BeginAtOnce(c) ==
  /\ c \notin stop_requested
  /\ IsFirstPending(c) /\ ~locked
  /\ Lease!Acquire(c)
  /\ IF attempt'[c] = "held"
     THEN Proceed(c, "scheduled") /\ acquired' = acquired \cup {c}
     ELSE Moves(c, "scheduled", "queueing") /\ UNCHANGED <<handle_state, acquired>>
  /\ UNCHANGED outcome

\* In virtual time a budgeted acquisition that has to race expires at once.
BeginExpired(c) ==
  /\ c \notin stop_requested
  /\ ~(IsFirstPending(c) /\ ~locked)
  /\ virtual_time /\ c \in Budgeted
  /\ Moves(c, "scheduled", "finalizing")
  /\ outcome' = [outcome EXCEPT ![c] = "TIMEOUT"]
  /\ UNCHANGED <<handle_state, acquired, lease>>

\* The acquisition and the stop event get a task each.
BeginRace(c) ==
  /\ c \notin stop_requested
  /\ ~(IsFirstPending(c) /\ ~locked)
  /\ ~(virtual_time /\ c \in Budgeted)
  /\ Moves(c, "scheduled", "acquiring")
  /\ UNCHANGED <<handle_state, acquired, outcome, lease>>

Begin(c) ==
  /\ FirstAt(c, "scheduled")
  /\ BeginStopped(c) \/ BeginAtOnce(c) \/ BeginExpired(c) \/ BeginRace(c)
  /\ UNCHANGED <<state, lifecycle, requests, evidence>>

\* The lease is granted to the command that waits in its own task, which does
\* not look at the stop event before.
QueueingReturns(c) ==
  /\ Lease!Resume(c)
  /\ acquired' = acquired \cup {c}
  /\ Proceed(c, "queueing")
  /\ UNCHANGED <<state, lifecycle, requests, outcome, evidence>>

\* Its budget expires, and the cancelled acquisition ends.
QueueingExpires(c) ==
  /\ c \in Budgeted /\ at[c] = "queueing"
  /\ Lease!Cancel(c)
  /\ UNCHANGED <<state, lifecycle, requests, owned>>

QueueingRaises(c) ==
  /\ Lease!Unwind(c)
  /\ Moves(c, "queueing", "finalizing")
  /\ outcome' = [outcome EXCEPT ![c] = "TIMEOUT"]
  /\ UNCHANGED <<state, lifecycle, requests, handle_state, acquired, evidence>>

\* The acquisition task takes its first step.
AcquisitionBegins(c) ==
  /\ FirstAt(c, "acquiring")
  /\ Moves(c, "acquiring", "racing")
  /\ Lease!Acquire(c)
  /\ UNCHANGED <<state, lifecycle, requests, handle_state, acquired, outcome, evidence>>

\* The acquisition task resumes, woken or cancelled.
AcquisitionResumes(c) ==
  /\ at[c] \in {"racing", "leaving"}
  /\ Lease!Resume(c) \/ Lease!Unwind(c)
  /\ UNCHANGED <<state, lifecycle, requests, owned>>

\* Mutant: a queued command does not see its stop.
RaceIgnoresStop(c) ==
  /\ Moves(c, "racing", "leaving")
  /\ attempt[c] = "held"
  /\ acquired' = acquired \cup {c}
  /\ UNCHANGED <<state, lifecycle, requests, handle_state, outcome, evidence, lease>>

\* asyncio.wait returned; a lease that was granted in time wins over the stop.
\* The finally block cancels both tasks.
RaceReturns(c) ==
  /\ Moves(c, "racing", "leaving")
  /\ attempt[c] = "held" \/ c \in stop_requested
  /\ acquired' = IF attempt[c] = "held" THEN acquired \cup {c} ELSE acquired
  /\ attempt' = Lease!Cancelled(c)
  /\ UNCHANGED <<state, lifecycle, requests, handle_state, outcome, evidence, locked, waiters>>

\* The budget expired, if only while the granted lease had not been noticed.
RaceExpires(c) ==
  /\ c \in Budgeted
  /\ Moves(c, "racing", "leaving")
  /\ outcome' = [outcome EXCEPT ![c] = "TIMEOUT"]
  /\ attempt' = Lease!Cancelled(c)
  /\ UNCHANGED <<state, lifecycle, requests, handle_state, acquired, evidence, locked, waiters>>

\* Mutant: the lease is given back whether or not it was granted.
RaceFreesAnyway(c) ==
  /\ attempt[c] \in {"held", "cancelled"}
  /\ IF c \in acquired
     THEN Proceed(c, "leaving") /\ UNCHANGED lease
     ELSE Moves(c, "leaving", "finalizing") /\ Lease!Free(c) /\ UNCHANGED handle_state
  /\ UNCHANGED <<state, lifecycle, requests, acquired, outcome, evidence>>

\* Both tasks have ended: acquire_lease returns or raises, giving back a lease
\* that was granted and is not wanted, and run_owned goes on.
RaceEnds(c) ==
  /\ attempt[c] \in {"held", "cancelled"}
  /\ IF c \in acquired
     THEN Proceed(c, "leaving") /\ UNCHANGED lease
     ELSE /\ Moves(c, "leaving", "finalizing")
          /\ IF attempt[c] = "held" THEN Lease!Free(c) ELSE UNCHANGED lease
          /\ UNCHANGED handle_state
  /\ UNCHANGED <<state, lifecycle, requests, acquired, outcome, evidence>>
-----------------------------------------------------------------------------
(* run_owned with the lease: preparation, execute_owned, cleanup. *)

\* Mutant: the session keeps its state.
GiveUpQuietly(c, from, why) ==
  /\ Moves(c, from, "stopping")
  /\ outcome' = [outcome EXCEPT ![c] = why]
  /\ forced' = forced \cup {c}
  /\ UNCHANGED <<state, started, reusable>>

\* The command failed after it left the queue: whatever state the session is
\* in becomes BROKEN before the driver is stopped.
GiveUp(c, from, why) ==
  /\ Moves(c, from, "stopping")
  /\ outcome' = [outcome EXCEPT ![c] = why]
  /\ forced' = forced \cup {c}
  /\ state' = "BROKEN"
  /\ UNCHANGED <<started, reusable>>

PrepareReturns(c) ==
  /\ Moves(c, "preparing", "executing")
  /\ handle_state' = [handle_state EXCEPT ![c] = "running"]
  /\ started' = started \cup {c}
  /\ UNCHANGED <<state, lifecycle, requests, acquired, outcome, forced, reusable, lease>>

PrepareRaises(c) ==
  /\ \E e \in DriverErrors : GiveUp(c, "preparing", OutcomeOf[e])
  /\ UNCHANGED <<lifecycle, requests, handle_state, acquired, lease>>

\* execute_owned has its outcome and cancels what still runs.
Conclude(c, from, why) ==
  /\ Moves(c, from, "unwinding")
  /\ outcome' = [outcome EXCEPT ![c] = why]
  /\ UNCHANGED <<state, lifecycle, requests, handle_state, acquired, evidence, lease>>

\* The driver's done-callback on a failed sudo authentication.
AuthenticationFails(c) ==
  /\ at[c] \in {"executing", "draining"}
  /\ c \notin startup_failed
  /\ startup_failed' = startup_failed \cup {c}
  /\ stop_requested' = stop_requested \cup {c}
  /\ UNCHANGED <<state, lifecycle, pending, owned, lease>>

\* The stop event's task is done: it wins over all that is done at the same
\* time.  A stop that is requested as another task ends can go unnoticed.
ExecutionStopped(c) ==
  /\ c \in stop_requested
  /\ Conclude(c, "executing", IF c \in startup_failed THEN "STARTUP_FAILURE" ELSE "STOPPED")

\* The driver or the automatic input failed; or the deadline expired.
ExecutionRaises(c) ==
  \E e \in DriverErrors : Conclude(c, "executing", OutcomeOf[e])

DeadlineExpires(c) ==
  ~virtual_time /\ Conclude(c, "executing", "TIMEOUT")

\* driver.execute returned; the automatic input gets the drain budget.
ExecutionReturns(c) ==
  /\ Moves(c, "executing", "draining")
  /\ handle_state' = [handle_state EXCEPT ![c] = "finishing"]
  /\ UNCHANGED <<state, lifecycle, requests, acquired, outcome, evidence, lease>>

\* Draining ends the command as exited, or with unfinished automatic input,
\* or with the execution deadline, which still runs.
DrainEnds(c) ==
  \E why \in {"EXITED", "INPUT_FAILURE"} \cup (IF virtual_time THEN {} ELSE {"TIMEOUT"}) :
    Conclude(c, "draining", why)

ExecuteOwnedEnds(c) ==
  /\ IF outcome[c] = "EXITED"
     THEN Moves(c, "unwinding", "releasing") /\ UNCHANGED <<state, outcome, evidence>>
     ELSE GiveUp(c, "unwinding", outcome[c])
  /\ UNCHANGED <<lifecycle, requests, handle_state, acquired, lease>>

\* driver.stop returned or raised: either is evidence for the result.
DriverStopped(c) ==
  /\ Moves(c, "stopping", "releasing")
  /\ UNCHANGED <<state, lifecycle, requests, handle_state, acquired, outcome, evidence, lease>>

\* driver.finish returned or raised.
DriverFinished(c) ==
  /\ Moves(c, "releasing", "finalizing")
  /\ UNCHANGED <<state, lifecycle, requests, handle_state, acquired, outcome, evidence, lease>>

\* Mutant: a downgrade the result type does not know.
FinalOutcomeUnsealed(c, sealed, authenticated) ==
  IF outcome[c] = "EXITED" /\ ~sealed THEN "UNSEALED" ELSE outcome[c]

\* A command that exited is still downgraded by its evidence.
FinalOutcome(c, sealed, authenticated) ==
  IF outcome[c] # "EXITED" THEN outcome[c]
  ELSE IF ~sealed THEN "OUTPUT_FAILURE"
  ELSE IF c \in startup_failed \/ ~authenticated THEN "STARTUP_FAILURE"
  ELSE "EXITED"

\* Mutant: every command releases the lease.
SettleReleasesAlways(c) ==
  /\ Moves(c, "finalizing", "settled")
  /\ handle_state' = [handle_state EXCEPT ![c] = "finished"]
  /\ pending' = pending \ {c}
  /\ Lease!Free(c)
  /\ UNCHANGED <<state, lifecycle, stop_requested, startup_failed, acquired, outcome, evidence>>

\* Mutant: an interrupted command keeps the lease.
SettleKeepsLease(c) ==
  /\ Moves(c, "finalizing", "settled")
  /\ handle_state' = [handle_state EXCEPT ![c] = "finished"]
  /\ pending' = pending \ {c}
  /\ IF c \in acquired \ forced THEN Lease!Free(c) ELSE UNCHANGED lease
  /\ UNCHANGED <<state, lifecycle, stop_requested, startup_failed, acquired, outcome, evidence>>

\* finalize_output returned: the result is published, the lease given back
\* and the command forgotten in one step.
Settle(c) ==
  /\ Moves(c, "finalizing", "settled")
  /\ \E sealed, authenticated \in BOOLEAN :
       outcome' = [outcome EXCEPT ![c] = FinalOutcome(c, sealed, authenticated)]
  /\ reusable' = IF state = "OPEN" THEN reusable \cup {c} ELSE reusable
  /\ handle_state' = [handle_state EXCEPT ![c] = "finished"]
  /\ pending' = pending \ {c}
  /\ IF c \in acquired THEN Lease!Free(c) ELSE UNCHANGED lease
  /\ UNCHANGED <<state, lifecycle, stop_requested, startup_failed, acquired, forced, started>>
-----------------------------------------------------------------------------
(* state_access of a MockShellSession.  Its body does not suspend: the lease *)
(* is taken and released before another task runs.                           *)

Reaches(a, from, to) == access[a] = from /\ access' = [access EXCEPT ![a] = to]

AccessBegins(a) ==
  /\ virtual_time /\ Accepts
  /\ Reaches(a, "outside", "checkpoint")
  /\ earlier' = [earlier EXCEPT ![a] = pending]
  /\ UNCHANGED <<configuration, state, entry, close, gathered, requests, owned, lease>>

\* The lease is validated for once more as it is taken.
AccessLeaves(a, from) ==
  /\ Reaches(a, from, IF Accepts THEN "done" ELSE "refused")
  /\ UNCHANGED <<configuration, earlier, state, entry, close, gathered, requests, owned>>

\* Mutant: the operation does not let the earlier commands queue first.
AccessBarges(a) ==
  IF ~locked /\ Lease!NobodyAhead
  THEN Lease!Use(a) /\ AccessLeaves(a, "checkpoint")
  ELSE /\ Lease!Acquire(a)
       /\ Reaches(a, "checkpoint", "queued")
       /\ UNCHANGED <<configuration, earlier, state, entry, close, gathered, requests, owned>>

\* The checkpoint takes longer than the first steps of the earlier commands'
\* tasks and of the acquisition tasks they create.
AccessArrives(a) ==
  /\ \A c \in earlier[a] : at[c] \notin {"scheduled", "acquiring"}
  /\ IF ~locked /\ Lease!NobodyAhead
     THEN Lease!Use(a) /\ AccessLeaves(a, "checkpoint")
     ELSE /\ Lease!Acquire(a)
          /\ Reaches(a, "checkpoint", "queued")
          /\ UNCHANGED <<configuration, earlier, state, entry, close, gathered, requests, owned>>

\* Mutant: the operation keeps the lease it was woken for.
AccessKeepsLease(a) == Lease!Resume(a) /\ AccessLeaves(a, "queued")

AccessResumes(a) == Lease!ResumeUse(a) /\ AccessLeaves(a, "queued")

\* Whoever called the operation is cancelled.
AccessCancelled(a) ==
  /\ access[a] = "queued"
  /\ Lease!Cancel(a)
  /\ UNCHANGED <<state, lifecycle, requests, owned>>

AccessRaises(a) ==
  /\ Lease!Unwind(a)
  /\ Reaches(a, "queued", "cancelled")
  /\ UNCHANGED <<configuration, earlier, state, entry, close, gathered, requests, owned>>
-----------------------------------------------------------------------------
OwnerStep(o) == Enter(o) \/ EnterReturns(o) \/ EnterRaises(o) \/ Exit(o)

ShutdownStep == ShutdownBegins \/ ShutdownGathers \/ ShutdownReturns \/ ShutdownRaises

\* Steps the event loop takes by itself, or that a deadline bounds.
LoopStep(c) ==
  \/ Begin(c) \/ QueueingReturns(c) \/ QueueingRaises(c)
  \/ AcquisitionBegins(c) \/ AcquisitionResumes(c)
  \/ RaceReturns(c) \/ RaceEnds(c)
  \/ PrepareReturns(c) \/ PrepareRaises(c)
  \/ ExecutionStopped(c) \/ DrainEnds(c) \/ ExecuteOwnedEnds(c)
  \/ DriverStopped(c) \/ DriverFinished(c) \/ Settle(c)

\* Steps the shell, the timers and the callers may take or not.
OpenStep(c) ==
  \/ Submit(c) \/ Stop(c) \/ QueueingExpires(c) \/ RaceExpires(c)
  \/ AuthenticationFails(c) \/ ExecutionRaises(c) \/ DeadlineExpires(c)
  \/ ExecutionReturns(c)

AccessStep(a) == AccessArrives(a) \/ AccessResumes(a) \/ AccessRaises(a)

Next ==
  \/ \E o \in Owners : OwnerStep(o)
  \/ Aclose
  \/ ShutdownStep
  \/ \E c \in Commands : LoopStep(c) \/ OpenStep(c)
  \/ \E a \in Accesses : AccessStep(a) \/ AccessBegins(a) \/ AccessCancelled(a)

Spec == Init /\ [][Next]_vars

\* The loop runs every scheduled task; preparing, draining, stopping and
\* finalizing have deadlines (TimeoutPolicy) or are bounded by the driver's
\* own; a shell may run for ever, and nobody has to stop it.
FairSpec ==
  /\ Spec
  /\ WF_vars(ShutdownStep)
  /\ \A c \in Commands : WF_vars(LoopStep(c))
  /\ \A a \in Accesses : WF_vars(AccessStep(a))
-----------------------------------------------------------------------------
Stages ==
  {"nowhere", "scheduled", "queueing", "acquiring", "racing", "leaving", "preparing",
   "executing", "draining", "unwinding", "stopping", "releasing",
   "finalizing", "settled"}

SessionTypes ==
  /\ concurrency \in Policies
  /\ virtual_time \in Clocks
  /\ state \in {"NEW", "OPEN", "BROKEN", "CLOSING", "CLOSED"}
  /\ entry \in [Owners -> {"outside", "starting", "inside", "left", "raised", "refused"}]
  /\ close \in {"none", "scheduled", "gathering", "closing_driver", "closed", "failed"}
  /\ gathered \subseteq Commands
  /\ pending \subseteq Commands
  /\ stop_requested \subseteq Commands
  /\ startup_failed \subseteq Commands
  /\ at \in [Commands -> Stages]
  /\ handle_state \in [Commands -> {"queued", "preparing", "running", "finishing", "finished"}]
  /\ acquired \subseteq Commands
  /\ outcome \in [Commands -> Outcomes]
  /\ forced \subseteq Commands
  /\ started \subseteq Commands
  /\ reusable \subseteq Commands
  /\ access \in [Accesses -> {"outside", "checkpoint", "queued", "done", "refused", "cancelled"}]
  /\ earlier \in [Accesses -> SUBSET Commands]

TypeOK == SessionTypes /\ Lease!TypeOK

DriverStages ==
  {"preparing", "executing", "draining", "unwinding", "stopping", "releasing"}

UsesDriver(c) == at[c] \in DriverStages

\* The driver serves one command at a time.  It rests on every race between
\* the lease, the stop event and the acquisition budget.
ExclusiveDriver ==
  \A c, d \in Commands : UsesDriver(c) /\ UsesDriver(d) => c = d

\* A state operation sees the session as the commands submitted before it left
\* it: once it has run, none of them uses the driver, now or later.
AccessFollowsCommands ==
  \A a \in Accesses : access[a] \in {"done", "refused"} =>
    \A c \in earlier[a] : ~UsesDriver(c)

\* The fast path of acquire_lease does not race the stop event, so it must
\* never have to wait for a command: while a command waits on it, the lease is
\* free and only state operations, which do not suspend, are before it.
FastPathWaitsForNoCommand ==
  \A c \in Commands :
    at[c] = "queueing" /\ attempt[c] # "aborted" => ~locked /\ Lease!Ahead(c) \subseteq Accesses

\* A broken session runs nothing: whoever broke it was the only command past
\* the queue, and no command gets past it afterwards.
BrokenRunsNothing ==
  state = "BROKEN" =>
    \A c \in Commands : at[c] \notin {"preparing", "executing", "draining", "unwinding"}

\* Damage is permanent: once a command was interrupted the session is never
\* open again, and no later result reports it as reusable.
DamageIsPermanent ==
  [][forced # {} => state # "OPEN" /\ state' # "OPEN" /\ reusable' = reusable]_vars

\* No submitted command outlives the session: once shutdown turns to the
\* driver, everything submitted has its result, no command holds or waits for
\* the lease, and nothing more is accepted.
CloseFindsNobody ==
  close \in {"closing_driver", "closed", "failed"} =>
    /\ \A c \in Commands : at[c] \in {"nowhere", "settled"}
    /\ pending = {} /\ ~locked
    /\ \A i \in DOMAIN waiters : waiters[i] \in Accesses
    /\ state \in {"BROKEN", "CLOSING", "CLOSED"}

\* The session uses the lease as its contract asks: every release is by the
\* holder, every acquisition is made once.
UsesLease == Lease!Spec

\* What the session promises its callers.
Phase(c) ==
  IF at[c] = "nowhere" THEN "unknown"
  ELSE IF handle_state[c] = "queued" THEN "waiting"
  ELSE IF handle_state[c] # "finished" THEN "served"
  ELSE IF c \in forced THEN "damaged"
  ELSE IF c \in started THEN "intact"
  ELSE "dropped"

Service == INSTANCE CommandService WITH
  phase  <- [c \in Commands |-> Phase(c)],
  usable <- IF state = "NEW" THEN "not_yet"
            ELSE IF state = "OPEN" THEN "yes" ELSE "no_more"

\* The session implements CommandService: in order, one at a time, answered
\* once, and unusable before an interrupted command is answered.
KeepsPromise == Service!Spec

\* Stopping settles: a command whose stop is requested gets its result, queued
\* or running, whatever its predecessor does.
StopSettles ==
  \A c \in Commands : c \in stop_requested ~> at[c] = "settled"

\* Closing ends: a requested close ends every command and closes the driver.
CloseEnds == close # "none" ~> close \in {"closed", "failed"}

\* If shell commands end, every submitted command gets its result: no wake-up
\* of the lease is lost, and nobody waits for a predecessor that settled.
EverySubmissionSettles ==
  (\A c \in Commands : []<>(at[c] # "executing"))
    => \A c \in Commands : at[c] = "scheduled" ~> at[c] = "settled"
-----------------------------------------------------------------------------
(* What the repository says and the code does not keep. *)

\* errors.py on Outcome.STOPPED: "The caller requested command termination".
StoppedMeansRequested ==
  \A c \in Commands :
    at[c] = "settled" /\ outcome[c] = "STOPPED" => c \in stop_requested

\* session.py:298 on shutdown: "Prevent submissions".  When it has ended no command can be
\* submitted, but a start that it overtook opens the session all the same
\* (session.py:100-101).
ClosePreventsSubmissions == close = "closed" => state # "OPEN"
=============================================================================
