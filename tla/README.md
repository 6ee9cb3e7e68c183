# A TLA+ development of shell-next

shell-next runs commands in one persistent, hidden shell (bash, cmd,
PowerShell, or a scripted mock) for asyncio programs. This directory holds TLA+
models of its control, TLC configurations that check them on small instances,
and TLAPS proofs of the properties that matter most for every instance. All
paths below are relative to `src/src/shell_next/` unless they say otherwise.

## 1. The system

```
 callers ── submit / run / stop / aclose / snapshot / expect / write_input
    │
 frontend   ShellSession ─ pending: dict of owned commands, state, close_task
    │          │  one task run_owned per command ──► execution lease (asyncio.Lock)
    │          ▼
    │       CommandHandle ─ state, stop_requested, startup_failed, writer lock, result
    │          │
    │       OutputHub, OutputCapture ─ fan-out and durable capture of the output
    ▼
 driver     protocol.SessionDriver: start reserve prepare execute send close_stdin stop finish close
    ├── NativeDriver ─ control channel, stdin/stdout/stderr FIFOs or sockets, pumps
    │      └── NativeProcess ─ shell process, containment, soft and forced stop
    │             └── bash / cmd / PowerShell syntax, sudo authentication
    └── MockDriver ─ MockScenario, virtual state and time
```

| Component | State it keeps | Operations | What makes it correct |
|---|---|---|---|
| `frontend/session.py` | `state` (NEW, OPEN, BROKEN, CLOSING, CLOSED), `pending`, `close_task`, the lease | `__aenter__`, `__aexit__`, `submit`, `run`, `command`, `snapshot`, `aclose`, `shutdown` | damage is permanent; a close forgets no command and ends; REJECT never queues |
| `frontend/lease.py` | the waiters of the lease | `acquire_lease` | at most one holder, no lost wake-up, order of submission, a lease granted too late is given back |
| `frontend/execution.py` | per command: `outcome`, `acquired`, `forced`, `started` | `run_owned`, `execute_owned`, `automate_input` | one command on the driver, one result per command, session given up before an interrupted command is answered |
| `frontend/handle.py` | `state`, `stop_requested`, `startup_failed`, writer lock | `stop`, `wait`, `write_input`, `close_stdin`, `expect` | stopping settles; input reaches the command it was written for |
| `frontend/output.py` | subscribers with bounded queues, rolling windows, history | `publish`, `finish`, `events`, `expect` | events arrive in order or the loss is reported; a match is found once and never missed |
| `frontend/capture.py`, `finalization.py` | received, written and committed bytes; the capture thread and its queue | `feed`, `write_file`, `seal`, `seal_file`, `seal_capture`, `finalize_output` | the evidence never claims more than is durable; finalization is bounded |
| `frontend/operations.py`, `backends/mock/session.py` | `session.cwd`, `session.environment`, the copy of the shell's state that `snapshot` shows | `chdir`, `set_env`, `unset_env`, `get_cwd`, `get_env` | the cache is what the last operation left, and never becomes older |
| `backends/mock/*` | expectations, queued input, virtual time | `reserve`, `prepare`, `execute`, `receive`, `send`, `assert_consumed`, `virtual_wait` | expectations are used in order of submission; a verdict depends on the stream of input, not on its chunks; a finite wait expires for a reason |
| `backends/native/driver.py`, `channels.py`, `preparation.py` | the active command, its channels, the bootstrap ends that keep them open, activation and pumps | `prepare`, `activate`, `pump`, `execute`, `send`, `stop`, `finish` | the status is that of this command; its output is complete or said not to be; no channel outlives it |
| `backends/native/process.py`, `termination.py`, `containment.py` | the process and its containment, the control pipe, the directory | `start`, `read_control`, `drain_control_errors`, `stop_native`, `close` | what start created is owned, whoever cancels it or closes meanwhile; containment is claimed from evidence only |
| `backends/bash/authentication.py`, `password_channel.py` | attempts on either side, the two pipes | `authenticate`, `supply_passwords` | both count alike, and never wait for each other |
| `backends/*/syntax.py`, `models/`, `errors.py`, `backends/protocol.py` | none | quoting, validation, records | sequential; outside this development |

### How they interact, and what is hard

* Everything in the frontend is asyncio: a task runs undisturbed from one `await`
  to the next, and anything may happen at an `await`. The hard parts are checks
  before an `await` whose answer is used after it, tasks that complete in the
  same loop iteration, cancellation of a task whose future is already done, and
  the order in which the loop starts tasks.
* `acquire_lease` decides between a fast path in the command's own task and a race
  of two new tasks (acquisition, stop event) with an optional budget. Everything
  a command does to the driver rests on this race ending with exactly one owner.
* A command that fails after it left the queue damages the shell. The session is
  then BROKEN: those that wait must not run, the result must not be published
  before, and a close can be under way at the same time.
* Shutdown takes one snapshot of `pending`; the commands in it may be queued,
  running, stopping or finalizing.
* A mock session's virtual state operations use the lease of the commands without
  being commands.
* Native commands cross threads (capture), processes (shell, descendants, sudo
  bridge) and pipes; the bounds are deadlines of `TimeoutPolicy`.

`PROJECT.json` lists every such hazard with its line and the properties that
would catch it.

## 2. The modules

| Module | Models | Kind |
|---|---|---|
| `FairLock` | `asyncio.Lock`, from its use in `lease.py`, `mock/state.py`, `handle.py` (external code) | component |
| `CommandService` | what a session promises: in order, one at a time, one result, damage | abstract specification |
| `ShellSession` | `session.py`, `run_owned`, `execute_owned`, `acquire_lease`, `state_access` | component; composes `FairLock` |
| `OutputHub` | `output.py` and `handle.expect`: subscribers and expectations | component |
| `CommandStdin` | `handle.write_input`, `handle.close_stdin` and the driver's stdin channel | component |
| `StreamCapture` | `capture.py`, `finalization.py`: the event loop, the capture's thread, the deadline | component |
| `NativeProcess` | `native/process.py`, the POSIX process group, and who starts and closes it | component |
| `SudoAuthentication` | `bash/authentication.py` against `bash/password_channel.py` | component |
| `NativeDriver` | `native/driver.py`, `preparation.py`, `termination.py`, `bridge.py`, the shell's wrapper | composes the three above |
| `MockBackend` | `mock/driver.py`, `mock/scenario.py`, `observation.virtual_wait` | component |
| `SessionState` | `operations.py` and the operations of `mock/session.py`, with the cache | component |
| `MC*` | constants for TLC | instances |
| `FairLock_proofs`, `ShellSession_proofs`, `OutputHub_proofs`, `CommandStdin_proofs`, `StreamCapture_proofs`, `NativeDriver_proofs`, `SessionState_proofs`, `MockBackend_proofs` | section 4 | proofs |

### ShellSession and the code

An action is what one task does between two awaits. `at[c]` is the await at which
`run_owned` of command `c` is suspended:

| `at[c]` | suspended in | leaves by |
|---|---|---|
| `nowhere` | not submitted | `Submit` (`session.submit`, `validate_submission`) |
| `scheduled` | the task has not run | `BeginStopped`, `BeginAtOnce`, `BeginExpired`, `BeginRace` (`acquire_lease` to its first await) |
| `queueing` | `lease.acquire()` on the fast path, which has to wait | `QueueingReturns`, `QueueingExpires` + `QueueingRaises` |
| `acquiring` | the race, its acquisition task not started | `AcquisitionBegins` |
| `racing` | `asyncio.wait` over the acquisition and the stop event | `RaceReturns`, `RaceExpires` |
| `leaving` | the `finally` block of the race | `RaceEnds`, which gives back a lease granted too late |
| `preparing` | `driver.prepare` | `PrepareReturns`, `PrepareRaises` |
| `executing` | `asyncio.wait` in `execute_owned` | `ExecutionStopped`, `ExecutionRaises`, `DeadlineExpires`, `ExecutionReturns` |
| `draining` | the drain of the automatic input | `DrainEnds` |
| `unwinding` | cancelling what still runs | `ExecuteOwnedEnds`, which breaks the session unless the command exited |
| `stopping` | `driver.stop` | `DriverStopped` |
| `releasing` | `driver.finish` | `DriverFinished` |
| `finalizing` | `finalize_output` | `Settle`: result, release and departure from `pending` in one step |

The session's own tasks are `entry[o]` (`__aenter__`/`__aexit__` of an owner) and
`close` (`close_task`, `shutdown`). `access[a]` is a state operation of a mock
session. The lock's variables `locked`, `waiters` and `attempt` are those of
`FairLock`, used through `INSTANCE FairLock`; `session.lease` is touched by its
actions alone. `pending` is a set, because commands are numbered in the order of
their submission, which is the order of the dict.

The modules compose by what they take for granted of each other: `ShellSession` is
built on the lock's actions and implements `FairLock` and `CommandService`; `CommandStdin`
takes from `ExclusiveDriver` that commands hold the driver one at a time, and keeps
only their stages; `OutputHub` is one command's hub, which `run_owned` finishes;
`NativeDriver` runs one command after another for the same reason, on the variables of
`StreamCapture`, `NativeProcess` and `SudoAuthentication`, whose actions are the parts of its
own; `MockBackend` and `SessionState` take the order of execution for that of submission.

Abstractions. What the driver returns, raises, and when, is a free choice. So is
whether a stop that is requested while another task finishes is seen
(`ExecutionStopped` competes with the other endings). `automate_input` is its
outcome: finished, failed or late. Evidence for a downgrade (`sealed`,
`authenticated`) is a free choice in `FinalOutcome`. The text of a result, its
byte counts and times are left out.

### OutputHub and the code

`publish`, `finish` and one pass of the loop of `expect` do not suspend, so `Publish`,
`Finish` and `Scan` are one action each; `Subscribe`, `Take` and `Leave` are the steps of the
iterator of `events`. `changed` is cleared right before a scan and awaited right
after it, so its flag is never set when an expectation waits: the set of those
that `changed.set` wakes (`Woken`) is all there is to it. A window is the last
`MatchBytes` bytes of a stream and a cursor is an offset in the stream, which
`window.find(pattern, max(0, cursor - base))` turns into a place in the window
(`Hits`). The driver's pumps have ended when the hub is finished
(`NativeDriver.finish` precedes it), hence the guard of `Publish`. Two effects are by
design and no property speaks against them: a prompt can roll out of the window
before the task that waits for it runs again, and the loss that `finish` reports to
a full subscriber follows the events that are still queued.

### CommandStdin and the code

The driver's calls name no command: `driver.send` uses `channels["stdin"]`, whoever
it belongs to. `stdin` is the command that channel was opened for; `MayStart` stands
for the waits for `ready` and for the handle's `writer_lock`; `Write` and
`DrainReturns` hand one chunk each to the pipe and suspend in its drain. Between the
checks of the handle and the first chunk nothing suspends, but every later chunk,
and `close_stdin`, whose only check is `input.closed`, go to the pipe that is there by
then. Without a channel the lookup raises `KeyError` (stage `"crashed"`), where
`handle.py` otherwise raises `InputError`; the error leaves the lock and the
accounting as the model has them.

### StreamCapture and the code

The event loop and the capture's one-thread executor share a capture. `jobs` is the
executor's queue, `thread` what its thread does: `write_file` is `ThreadBegins` and
`ThreadWrites`, `seal_file` is `ThreadBegins`, `ThreadSyncs` and `ThreadSeals`, so that the
deadline can find it before the sync, between the sync and the count, or after. `Feed`
and `Seal` are the coroutines up to their `await`, `ThreadWrites` and `ThreadSeals` also what they
do with the job's result, unless they were cancelled meanwhile: `feeding` and
`sealing` say whether somebody still waits. A cancelled coroutine withdraws a job that
the thread has not begun (`Withdraw`), and cannot stop one that it has. A write that
fails has written a part. `durable` is history: the bytes that a sync has put on the
disk. The two streams of a command are sealed one by one with captures of their own,
so one stands for both.

### NativeProcess and the code

`starter` is where `NativeProcess.start` is. `creation` is its shielded task: `Creation` is the
operating system's side, which first makes the process ("made", the shell is alive) and
then ends the task ("done"), so that a cancellation can come between the two.
`CreationReturns` is the adoption. The handler of `start` adopts what a finished creation has
made (`Handles`), also when another close has forgotten it since, and waits for one that has
not ended (`AdoptLate`). `CancelStart` cancels the task at any of its awaits; at the handler's
await of the creation (`CancelAwaiting`) asyncio passes the cancellation on to a creation that
still runs, and kills its process, but what a finished one has returned is lost.
`control` and `diagnosed` are what `read_control` waits for: lines, or a byte on the
shell's diagnostic channel (`ShellComplains`).

`CloseBegins`, `CloseEnds` and `CloseReturns` are `close`, which signals, waits within its
deadline, and then forgets the process whatever came of it. The shell dies when it
likes; a signal may be refused, and a shell that was sent one may outlive the wait. `close`
has two callers (`Closers`), the handler of a start that fails and the driver, and
`closing` says how far each call is: anybody may call `aclose` (`Leave`) while start is under way,
and then the two can overlap, forget the process under each other, and one can fail
on it ("raised"; a session whose close raises stays CLOSING, here "crashed"). A start that
returns to a session which was left is "late": `__aenter__` then opens the session again. That
is `ShellSession`'s (`open_after_close`); the commands of such a session are left out.

### SudoAuthentication and the code

`sudo` is where `authenticate` is in the bridge, `supplier` where `supply_passwords` is in the
session. `asks` and `answers` count the lines in the two pipes; each side keeps its own
count of attempts (`used`, `count`). sudo may not start at all, decides when it likes, and asks again after a wrong
password; the provider answers, raises, or never returns; either side sees the end
of file when the other's last writer is gone, which is why `SupplierProvides` and `SupplierEnds` are
told whether the bridge, or the session's bootstrap ends (`auth_keeper`), hold the pipes.

### NativeDriver and the code

`at` is the await at which the command's `run_owned` is suspended in the driver:

| `at` | suspended in | leaves by |
|---|---|---|
| `idle` | no command, or the lease | `Prepare` (`prepare_command`) |
| `preparing` | `prepare_command` | `Execute` (the line that sources its wrapper is written), `Breaks` |
| `executing` | `read_control` | `ReadControl`, `LosesShell`, `Stopped`, `Breaks` (a deadline, a failing input plan, a dead shell) |
| `draining` | the gathering of the pumps | `Drained`, `DrainExpires`, `Stopped` |
| `stopping`, `forced` | `stop_native`'s SIGTERM and the close that follows it | `SoftStop`, `StopCloses`, `StopClosed` |
| `gathering`, `finishing` | `driver.finish` | `Finish` |
| `sealing` | `finalize_output` | `Finalize` (the captures are sealed), `Settle` (the result) |

The command itself (`job`) is sourced by the shell or run by a bridge, opens its pipes,
reports `ready`, is authenticated, writes, leaves a descendant behind, ends, and its
status is reported by the shell (`ShellReports`); each may be the last thing that
happens. `keeper` are the bootstrap ends that `activate` closes once `ready` is set;
`holds` is what a descendant keeps open, the output or an inherited control descriptor.

Abstractions. Every failure of `execute` is one outcome, "failed": which of them it was
is `ShellSession`'s. The lines of a session that was given up, and what its processes do
after `finish`, are left out: nothing reads them. SIGTERM is part of "may end at any
time". The platform is POSIX, with one process group; a process may leave it
(`docs/backends.md:57` excludes that from the guarantee).

### MockBackend and the code

The mock's driver suspends only in `receive` and in a password provider; from one
suspension to the next nothing else runs (`mode` is "running" and only the driver
steps). `Submit` reserves an expectation, `Prepare` adopts it, `Play*` are the kinds of steps,
`Send` is `write_input` or `close_stdin` of a caller, and `BeginWait`, `CheckWait` and `EndWait` are
`handle.wait` with a finite timeout: `virtual_wait` looks once, after a checkpoint, which
the model delays arbitrarily. `sent` is history. Changes of the simulated environment
go the way of `cwd` and are left out, as are recorded calls. `Expectation` and `Steps` are the
records of `scenario.py`: `Texts` are the commands, directories and inputs they may name,
and virtual seconds are whole numbers.

### SessionState and the code

An operation of a native session is a command of the shell: `Submit` is the part of
`state_operation` before its `await`, `Runs` what the command does to the shell, `Settle` its
result, `Answer` the rest, after the `await`. `settled` is the order in which the event loop
resumes the callers. An operation whose command fails, is interrupted, or whose
caller is cancelled (`Cancel`, which stops the command, maybe too late) caches nothing.
For a mock session the cached state is the state: `MockPerforms` changes it under the
lease, and its scripts change it as their expectations say. `ran` and `source` are
history. Paths are absolute and defaults do not elevate; see the end of section 3.

## 3. The runs

| Run | Instance | What it shows |
|---|---|---|
| `lock` | 4 clients | exclusion, no lost wake-up, service in order, every wait ends |
| `session` | 3 commands, native, REJECT and QUEUE, one with a budget | `ExclusiveDriver`, `BrokenRunsNothing`, `CloseFindsNobody`, `DamageIsPermanent`; refines `FairLock` (`UsesLease`) and `CommandService` (`KeepsPromise`) |
| `session_live` | 2 commands and a state operation, QUEUE, both clocks | `TypeOK`, `FastPathWaitsForNoCommand`, `AccessFollowsCommands`, and under `FairSpec` `StopSettles`, `CloseEnds`, `EverySubmissionSettles` |
| `hub` | 1 subscriber, 2 expectations, windows and queues of 2, 4 bytes of output | `NoSilentLoss`, `MatchesAreReal`, `SleepersHaveNothing`, and under `FairSpec` `FinishReleasesEveryone` |
| `stdin` | 2 commands, 5 operations on their handles | `SubmissionsAreWhole`, `FirstChunkIsOwn`, `ClosedIsFinal`, `SummaryIsHonest` |
| `native` | sessions of 1 or 2 commands of every kind, capture to a file or in memory | what a result claims is true: `EndOfOutputIsFinal`, `ResultIsEarned`, `CommittedIsDurable`, `CompleteIsKept`; `AuthenticationMeets`; what a command leaves to the next, and a session at its end: `ReusableIsClean`, `ClosedLeavesNothing`; and under `FairSpec` `SettlesInTime` |
| `mock` | 3 submissions against 3 scenarios | `OwnExpectation`, `VerdictIsOfStream`, `TimeoutsAreReal` |
| `state` | 3 calls of any operation, native and mock, both policies | `CacheIsCurrent`, `CacheOnlyAdvances` |
| `misdirected` | violation | closing the input of a command that was stopped in the queue closes the pipe of the one being prepared |
| `stopped_unasked` | violation | a result STOPPED that nobody requested |
| `open_after_close` | violation | a session closed while it starts is OPEN once its close has ended and its start returns |
| `contained` | violation | a repeated close reports a cleaned-up containment with the shell alive |

Bounds. Commands, owners and operations are the only unbounded sets; there are no
counters. Three commands are what the lease needs for its hardest case: one that
holds it, one that is woken or cancelled, and one behind it that has to inherit
the wake-up (four clients in `lock`, where a newcomer joins them). One owner
suffices because `entry` is touched by `__aenter__` alone and further closers
are `Shared`. A single exception stands for all in the passing runs, as
`run_owned` treats them alike but for the outcome; the violation runs have them all.
In `session_live` the policy is QUEUE: REJECT only removes submissions.

`hub` has one subscriber because every action touches the queue of its own
subscriber alone. Its chunks split the pattern, repeat its first byte, and exceed the
window of two bytes; four bytes of output overflow the queue of two events and
roll a match out of the window; one pattern is a prefix of the other, so the two
expectations compete for a byte through the shared cursor. `stdin` has submissions
of one and of two chunks and a `close_stdin` on each handle, which meet every
stage of the other command: a chunk after the first is where every hazard of the
drain is.

`native` has a chunk of two bytes and a stream of at most one chunk: a write can fail
in the middle, and a tail of one byte cannot hold it. One chunk is enough, because
`feed` has one job at a time and counts nothing but sums. Two commands are what it
takes for the first to leave something to the second; every kind of command comes
in some plan, a bridge's as second and as first. Two cancellations of the start hit
it before and in its cleanup, or in its wait for the creation and after it, and a close
may overtake it at every await. Two attempts are a wrong password and a last one.
`mock` has input that ends in a step, crosses it, or is cut short, a command that
needs more passwords than it has attempts, one that is given up, and one that uses its
virtual time up; `MaxSent` is one chunk more than the longest script reads. In `state`
three calls are two whose callers resume in some order and a third behind them,
with one variable beside the directory.

Fairness. `FairSpec` asks for weak fairness of the steps of each command
(`LoopStep`), of the close and of state operations. The event loop runs every
ready task, and the deadlines of `TimeoutPolicy` (`models/config.py:31-60`:
prepare, soft stop, force stop, drain, finalize) are always finite, so
preparing, draining, stopping and finalizing end. The execution timeout may be
None: nothing makes a shell command end or a caller stop it, hence no fairness
for `OpenStep`, and `EverySubmissionSettles` assumes that commands do end.

In `OutputHub` the loop runs the expectations it wakes (`WF` of `Scan`), and a reader goes on
reading (`WF` of `Take`); nothing makes output, its end, or a deadline happen, so
`FinishReleasesEveryone` starts from `closed`.

In `NativeDriver`, `FairSpec` is weak fairness of `LoopStep`: what the event loop does by itself,
the deadlines of `prepare`, drain, stop and finalization included. Nothing is assumed of the
shell, its commands and their descendants, the password provider, or the capture's thread.
`SettlesInTime` therefore starts from commands that cannot succeed any more, or have
reported their status: a stop was requested, the shell is dead, or complained.

Findings. `misdirected`: `close_stdin` on the handle of a command that was stopped in
the queue, or has finished, passes its only check and closes the pipe that the driver
has open for another command, although `channels.py` calls the pipes command-specific; the
run shows it for a command that is being prepared. A
submission of several chunks can go astray in the same way when its command ends
in a drain. `stopped_unasked`: `run_owned` starts with `Outcome.STOPPED` and skips the
execution when the session is not OPEN, so a queued command behind one that
broke the session is answered as if its termination had been requested.
`open_after_close`: `__aenter__` writes OPEN after
`driver.start`, whatever happened to the session meanwhile, also over the CLOSED of a
shutdown that has ended. `contained`:
`close` forgets the process
also when its termination failed, so that the next close, which finds none, reports
`contained=True`.

Two shells that a close leaves without trouble are excepted by name in `ClosedLeavesNothing`,
for the code does leave them. A second cancellation of start ends its handler at the await
of the creation (`process.py:105`); if the creation has ended just then, its process is dropped
without a signal, which `docs/development/specification.md:283` rules out. The session's
close then finds no process and reports `contained=True`: with `Cancellations = 2` in
`Contained.cfg`, `ContainedMeansClean` is violated in this way too. And the start of
`open_after_close`, in a native session: `shutdown` closed a driver that had no process yet, start
adopts it after that (`creation` is "done", `starter` becomes "late"), and no later `aclose`
closes again.

Observed while modelling, without a run. (a) A descendant that inherited the control
descriptor (`bash/syntax.py:15-30`) and outlives the shell keeps `read_control` from its end
of file: a command without an execution timeout then waits, which is why `SettlesInTime`
asks for `~ControlHeld`. (b) A stop during the drain cancels the pumps that the drain
gathers; what they had not read is lost, and said to be (`unread_possible`, which
`ResultIsEarned` checks: evidence that does not say so is of an output read to its end). (c) A provider
that fails replaces the privilege report by `PrivilegeReport(True, False)`, and with it the
attempts that were made. (d) `virtual_wait` looks once: a mock command that blocks
after its check makes the finite wait wait for ever. (e) A stop before `ready` is set costs
the whole drain deadline, for the bootstrap ends are still open. (f) Input that arrives
after a mock command's verdict is accepted and never compared. (g) A native `chdir` caches the path
as it was given: after `chdir("sub")`, twice, `snapshot().cwd` is "sub", where a mock session
has the normalized absolute path; and with `SessionConfig.defaults` that elevate, as
`docs/usage.md:232` suggests, `chdir` and `set_env` run in a separate elevated shell
(`docs/backends.md:31`), change nothing, and are cached all the same. (h) `snapshot` takes the
first key of `pending` for the active command, which can be a stopped one in its
finalization while a later one executes. (i) `Receive(b"")`, which a scenario may hold, waits for
a chunk of input that it does not read, and takes the end of input for unexpected, although
there is nothing to wait for (`mock/driver.py:140-161`).

## 4. The proofs

Every safety invariant and action property of the passing runs is a theorem for every value
of the constants, under the named assumptions of the modules alone unless a hypothesis is
stated. Liveness, at the end of this section, is model-checked only.

`FairLock_proofs`. `MutualExclusion` is not inductive: that a woken client takes the
lock without looking again is right only because at most the first in the
queue is woken, and only while nobody else took the lock. The invariant `IInv`
adds that the waiters are distinct, that exactly the sleeping clients queue, and
that a woken or abandoned client is the first of the queue, while the lock is free.
From it: `TypeCorrectness`, `Exclusion`, `LockedExactlyWhileHeld`, `WakeupsAreKept`, and
`ServiceInOrder` (`NoOvertaking`): a newcomer gets the lock only past clients that
were cancelled. `Before` and its lemmas say how a step changes who queues before whom,
for the users of the lock.

`ShellSession_proofs` goes in three steps. First `Held`: what acquired the lease holds it
until it settles, and only such a command is at a stage that uses the driver. With
it every step of the session is a step of `FairLock` or leaves the lock alone
(`LeaseRefinement`: `Spec => UsesLease`; the delicate cases are the releases in `RaceEnds` and
`Settle`, which have to be by the holder). So the lock's theorems hold for the
session, two commands on the driver would be two holders (`DriverExclusion`), and
`TypeCorrectness` proves `TypeOK`.

Then the order. `Queue` says that the stage of a command and of its attempt at the lease
go together (`AttemptFits`), so do its handle and its history (`HandleFits`), `pending` is
who was submitted and has not settled, and (`CommandsInOrder`) an earlier command is
submitted, started and queued before a later one, which has held the lease only if the
earlier one is through with it; a state operation queues behind the commands before it
(`AccessFits`). The event loop's order of starting tasks and the lock's order of
service are both needed: each alone lets a command overtake. `QueueInvariance` proves it,
and `FastPathNeedsNoStop`, `AccessesFollow` and `BrokenStandsStill` follow: a broken session
runs nothing, for the only command that can break it is the one that runs.
All this holds for any number of commands, owners and state operations.

Last, what depends on who enters and closes a session. `OneOwner`: one task enters it.
With two that enter at once, the second to return from `__aenter__` opens a session that
the first may have used, broken or closed. Under `OneOwner`, `DamageStays` proves
`DamageIsPermanent` from `EnteredOnce`: before the owner has entered nothing is submitted,
and what was forced to end has left a session that is not open. `EntersFirst`: any task
may close the session, but none before its owner has entered; `open_after_close` shows
what happens otherwise. Under both, `ClosedOnce` (`shutdown` gathers all that is pending, and
nothing is submitted after it began) gives `CloseLeavesNobody` (`CloseFindsNobody`), and
`PromiseKept`: the session implements `CommandService`. The mapping of a command to its
phase depends on where it is and on how it ran (`PhaseAt`); each step of a command is a step
of the service or a stutter, and `CommandsInOrder` is what its `Serve` asks for. The sessions of
the runs are closed by their owner (`~Shared`), which implies `EntersFirst`
(`OwnerEntersFirst`): `OwnCloseLeavesNobody` and `OwnPromiseKept` are the theorems for them.

`CommandStdin_proofs`. The invariant `Lives` says that the driver serves one command
(`ServedAlone`), that its channel is that command's (`PipeOfServed`), that a handle in
the state "running" is served, and that a suspended writer holds its handle's lock
with its input open (`DrainingHolds`). The lemma `StepWrites` then says what any step
can write: the first chunk of an operation, on its own command's pipe, or the
next chunk of one that is suspended. `FirstChunk` and `EndOfInput` follow at once. For
`OneWriter`, `SubmissionsAreWhole` is not inductive: it needs `LogIsOrdered`, that whoever
another operation of its command followed is not suspended any more. For `HonestSummary`,
`SummaryIsHonest` holds between operations only: while one is suspended, a chunk is written
and not counted yet, and the rest of its chunks are accepted and not written (`Accounts`).

`OutputHub_proofs`. `Sleep` is type correctness, which carries the bounds of the windows and
queues, with `SleepersHaveNothing`. Output and its end wake all who sleep; what is
left is that a competitor's match, which moves the shared cursor, only takes
candidates away from those who sleep (`HitsAreAhead`, `ScanTypes`). `NothingLostSilently` needs
`Followed`: while `publish` fills its queue, a subscriber's events and its queue continue each
other up to the last event; one that is left alone with its queue has the end
or the loss in it. `MatchesOccur` needs `Real`: a window is the end of its stream (`Shown`), and
every match lies before the cursor of its stream, so that a later one, which
begins at the cursor or after it, cannot overlap. `HubAssumption` is all it takes: bounds are
positive, chunks are not empty, and a pattern fits the window, as `expect` validates.

`StreamCapture_proofs`. That committed bytes are durable needs what the thread's place says
of the counters, and complete evidence needs that no job is left that nobody waits
for. `OneJob` relates the coroutine, the queue and the thread: at most one job is queued or
under way, except that a cancelled write may still run while the seal is queued behind it.
`Accounted` is the order committed <= durable <= written with the moments at which they agree;
`Honest` that complete evidence is of a capture at rest. Theorems: `CommittedStaysDurable`,
`CompleteStaysKept`, for every size of chunks, every stream and every destination.

`NativeDriver_proofs`, about `NativeProcess` and `NativeDriver`. `Answered` says that a living
shell has an owner: the session, or the creation that start still waits for; or that
some close met an error, or that a second cancellation lost the creation. `Calls` says
how far the two callers of `close` are, and that who waits has killed the group; with it
a process that the driver's close has not found is start's, which closes it or hands it over.
`ProcessLeavesNothing` follows, for any number of cancellations. It says what
`ClosedLeavesNothing` says and no more: the shell that start adopts after the close and the one
it loses are excepted there by name; section 3 tells how they come about.

A session is a user of its capture and of its shell. `CaptureUse` is what
it must know to use the capture as `CaptureSpec` allows (a new one only after the last is
sealed, a seal only without a pump that feeds, forced if the pump was cancelled). With it
every step is a capture's step or leaves it alone: `SessionImplementsCapture`, `Spec => CaptureSpec`, and
the theorems above hold of a session (`SessionCommitsDurably`, `SessionKeepsComplete`).
`SessionLeavesNothing` is the same for the shell, with the same exceptions, when `stop_native`
may close it as well.

The rest of the `native` run's safety is about commands, and one chain of
invariants. `ControlInv`: the control pipe holds true lines of the command that runs, its
status last, and nothing while no command reads it; a session is usable until it gives a
command up, and its shell's group is killed only after that. `OutputInv`: as long as a
command may still open its end, the bootstrap end is open or the command has reported
`ready`; so a pump that ends has seen the last writer go, nobody holds the output of a
command that left the session usable, and evidence without a warning is of all of it. `AuthInv` (`Exchange`) counts the lines of
both pipes against the attempts of both sides. Together, as `SessionInv`, they are inductive, and
`AuthenticationAlwaysMeets`, `EndOfOutputStaysFinal`, `ResultStaysEarned`, `ReuseIsClean` and `SessionTypeCorrect` follow, from
`CaptureAssumption`, `ProcessAssumption`, `AttemptsAssumption` and `PlansAssumption`. So every safety invariant of
the `native` run holds for any plan, any number of attempts and cancellations, and any stream.
`ReuseIsClean` leaves one thing of the last command: a script's descendant that has closed the
output may live on, with the control descriptor that it inherited; see (a) in section 3.

`SessionState_proofs`. `CacheIsCurrent` is about an operation whose caller has resumed; it is
kept by what happens between its command and its caller. `InTurn`: callers resume in the
order in which their commands touched the state, and none twice, although a cancelled
or withdrawn one leaves the line from its middle (`LeavesLine`, with lemmas about `RemoveAt`).
`NativeCache`: what the last operation on a part will remember is the value of that part;
`MockCache`: a mock session's cache is its state. Together, as `Inv`, they are inductive.
`CacheStaysTrue` follows, and so does `CacheMovesOn`: whoever resumes later saw or set a later
value (`CacheOnlyAdvances`). They hold for any number of calls, variables and values.

`MockBackend_proofs`. `Shape` and `Current` are the types and where the driver is in its script;
`Time` bounds virtual time by the deadlines of the commands that have run. `Ledger` says who
reserved what: a strict scenario's cursor counts the accepted submissions, and a
reservation is the expectation at its command's place among them, whatever became of the
commands before it. `Flagged`: a command is marked as blocked while it waits for input
and none has come, or when it came to no end of its own. From these, `TypeInvariance`,
`ExpectationsAreOwn` and `WaitsAreHonest`, for every scenario that `MockAssumption` admits.

The verdict is the hard part. `VerdictIsOfStream` compares what the driver did chunk by chunk
with recursions over the whole script and the whole input (`Advanced`, `Reads`, `FlattenSeq`),
whose values for any length need induction. The library's induction theorems take a predicate,
which the provers cannot instantiate, but `WFMin` (a set of numbers has a least one) takes a
set: `LeastOfSet`, `SetInduction`. `Recursion` shows that some function solves a recursive
equation, so that `CHOOSE` picks one that does (`AdvancedEquation`, `ReadsEquation`,
`FlattenEquation`), and `Cat` hides concatenation, of which only four facts are used.
`FlattenAppend` and `FlattenTail` are the input as a queue sees it; `PrefixDiffers` says that
streams with a common beginning which differ after it are no prefix of each other, whatever
follows.

The invariant is `Stream`. Its heart is `Position`: on step n with o bytes of it read, nothing
before n ends the script, the time used is what the steps before n advance, and what was
sent is what the steps before n read, the o bytes, and the queue. Receiving a chunk keeps it
in three ways: the step is finished and the rest of the chunk put back (`PositionReceives`), part
of the step is read (`PositionMoves`), or the streams differ for good (`StreamsDiffer`, with
`EofDiffers` for the end of input, which is a piece of its own and the last: `Clean`).
`ScriptRaises`, `ScriptEnds` and `WaitsForMore` read the verdicts off it. `VerdictFollowsStream` holds for
every script, every chunking and every deadline, under one hypothesis: `ReceivesInput`, that
every Receive of the scenarios asks for something. The code does not insist on it, and without
it the property is false; see (i) in section 3. `MCMock` assumes it of its scenarios, where TLC
evaluates it.

What stays with TLC is liveness under fairness, which is beyond the prover: `EveryWaitEnds`,
`StopSettles`, `CloseEnds`, `EverySubmissionSettles`, `FinishReleasesEveryone`, `SettlesInTime`. The safety
they rest on is proved: that no wake-up is lost and that the queue moves forward
(`WakeupsAreKept`, `ServiceInOrder`), that nobody sleeps once a hub is finished
(`SleepersHaveNothing`), that a close forgets no command (`CloseFindsNobody`), and that the two
sides of an authentication never wait for each other (`AuthenticationMeets`). What is left is
that the steps the event loop owes are taken.

## 5. The plan

1. Done: `FairLock`, `CommandService`, `ShellSession`, `OutputHub`, `CommandStdin`.
2. Done: `StreamCapture`, `NativeProcess`, `SudoAuthentication`, `NativeDriver`, `MockBackend`, `SessionState`.
3. Done: the safety of all of them, and both refinements, as theorems.
4. Done: the verdict of the mock, by induction over scripts and chunks.
5. Left: liveness as theorems, for a prover with `ENABLED`; the parts in section 6.

## 6. Not modelled

Quoting and generated shell text (`*/syntax.py`, `driver.ps1`) is character data. Windows:
named pipes, job objects and their limits, the cmd and PowerShell variants of the
control protocol. Records, validation and exception types are sequential and are the
constants of the modules. Build, documentation, tests and examples are not part of the
program. Within the modelled files: the scopes that detect reentrancy (`command`, `run`
inside a scope), the text, byte tails and times of results, the stderr stream beside
stdout, and relative directories and elevated defaults in `SessionState`. Two callers that
enter the same session at once both succeed in the model as in the code; no document
says what should happen.
