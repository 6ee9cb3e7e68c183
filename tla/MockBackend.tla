---------------------------- MODULE MockBackend ----------------------------
(***************************************************************************)
(* The mock backend: expectations that commands reserve when they are      *)
(* submitted (backends/mock/scenario.py), a driver that plays the steps of *)
(* one at a time against the input it is sent (backends/mock/driver.py),   *)
(* and finite waits without real time (handle.wait, observation.py).       *)
(*                                                                         *)
(* The driver suspends only where it waits for input.  Until then nothing  *)
(* else runs: `mode` is "running" and only the driver takes steps.         *)
(* Commands run one at a time in the order of submission, as ShellSession  *)
(* shows.  The bytes of input are members of a small set, and the end of   *)
(* input is a byte of its own.                                             *)
(***************************************************************************)
EXTENDS Naturals, SequencesExt

CONSTANTS
  Texts,                \* commands, paths and bytes of input
  Submissions,          \* the commands that are submitted, in order
  Elevated,             \* those that ask for privileges
  Attempts,             \* their PrivilegeRequest.attempts
  Deadline,             \* their timeouts.execution, in virtual seconds
  Scenarios,            \* what a test may expect: sequences of expectations
  Chunks,               \* transport chunks of input: sequences of bytes
  Watched,              \* bound: the commands somebody waits for
  MaxSent               \* bound: chunks sent to a command

Commands == DOMAIN Submissions
Eof == <<"eof">>
Bytes == Texts \ {"eof"}
NoExpectation == [command |-> "", steps |-> <<>>, cwd |-> "", prompts |-> 0,
                  authenticated |-> TRUE]

\* What a scenario may hold (scenario.py).
Steps == [kind : {"emit"}] \cup [kind : {"receive"}, data : Seq(Bytes) \cup {Eof}]
           \cup [kind : {"advance"}, seconds : Nat]
           \cup [kind : {"failure"}, failure : {"input", "output", "startup", "session"}]
Expectation == [command : Texts, steps : Seq(Steps), cwd : Texts, prompts : Nat,
                authenticated : BOOLEAN]

ASSUME MockAssumption ==
  /\ "" \in Texts /\ Submissions \in Seq(Texts) /\ Watched \subseteq Commands
  /\ Attempts \in Nat /\ Deadline \in Nat /\ MaxSent \in Nat
  /\ \A scenario \in Scenarios : scenario \in Seq(Expectation)
  /\ Chunks \subseteq Seq(Bytes) \ {<<>>}

VARIABLES
  expectations, strict, \* the scenario
  cursor,               \* how many expectations are reserved
  elapsed,              \* its virtual time
  stage,                \* of each command: "unknown", "refused", "queued",
                        \* "active", "ending", "finished"
  reservation,          \* handle.reservation
  ready,                \* the commands whose handle.ready is set
  outcome,              \* of each command; while it is active, what execute raised or returned
  broken,               \* session.state is BROKEN
  left,                 \* __aexit__: "no", "closing", "consumed", "unconsumed"
  cwd,                  \* session.cwd
  active,               \* the command of driver.handle, 0 without one
  playing,              \* driver.active
  mode,                 \* driver.execute: "off", "asking", "running", "blocked", "ended",
                        \* and "over" once the command is being finalized
  asked,                \* its calls of the password provider
  step, offset, spent,  \* its step, the offset in receive, the virtual time used
  inputs,               \* driver.inputs
  storage_error,        \* the capture of the active command failed
  virtual_blocked,      \* the commands whose flag is set
  sent,                 \* history: the input of the active command until its verdict
  wait                  \* the finite wait for each watched command

scenario_vars == <<expectations, strict, cursor, reservation>>
session_vars  == <<stage, broken, left, cwd>>
play_vars     == <<active, playing, asked, step, offset, spent, storage_error, elapsed>>
input_vars    == <<inputs, sent>>
flags         == <<ready, virtual_blocked>>
vars == <<scenario_vars, session_vars, play_vars, input_vars, flags, outcome, mode, wait>>

Init ==
  /\ expectations \in Scenarios /\ strict \in BOOLEAN
  /\ cursor = 0 /\ elapsed = 0
  /\ stage = [c \in Commands |-> "unknown"]
  /\ reservation = [c \in Commands |-> NoExpectation]
  /\ outcome = [c \in Commands |-> "none"]
  /\ ready = {} /\ virtual_blocked = {}
  /\ broken = FALSE /\ left = "no" /\ cwd = "initial"
  /\ active = 0 /\ playing = NoExpectation /\ mode = "off"
  /\ asked = 0 /\ step = 0 /\ offset = 0 /\ spent = 0
  /\ inputs = <<>> /\ storage_error = FALSE
  /\ sent = <<>>
  /\ wait = [c \in Watched |-> "none"]

Pending == {c \in Commands : stage[c] \in {"queued", "active", "ending"}}
First(c) == c \in Pending /\ \A d \in Pending : c <= d

\* The event loop is free to run something else than the driver.
Free == mode # "running"

Moves(c, to) == stage' = [stage EXCEPT ![c] = to]
Yields(verdict) == outcome' = [outcome EXCEPT ![active] = verdict]
-----------------------------------------------------------------------------
(* Submission and the scenario. *)

\* The expectation that a command reserves: the next one, if it is its; a permissive
\* scenario makes up an empty one.
Matches(c) ==
  cursor < Len(expectations) /\ expectations[cursor + 1].command = Submissions[c]

Reserved(c) ==
  IF Matches(c) THEN expectations[cursor + 1]
  ELSE [NoExpectation EXCEPT !.command = Submissions[c]]

Submit(c) ==
  /\ Free /\ stage[c] = "unknown" /\ ~broken /\ left = "no"
  /\ \A d \in 1..(c - 1) : stage[d] # "unknown"
  /\ IF Matches(c) \/ ~strict
     THEN /\ Moves(c, "queued")
          /\ reservation' = [reservation EXCEPT ![c] = Reserved(c)]
          /\ cursor' = IF Matches(c) THEN cursor + 1 ELSE cursor
     ELSE Moves(c, "refused") /\ UNCHANGED <<reservation, cursor>>
  /\ UNCHANGED <<expectations, strict, broken, left, cwd, play_vars, input_vars, flags, outcome,
                 mode, wait>>

\* A queued command that is stopped, or finds the session broken, never runs; its
\* expectation stays reserved.
Skip(c) ==
  /\ Free /\ stage[c] = "queued"
  /\ Moves(c, "ending")
  /\ outcome' = [outcome EXCEPT ![c] = "stopped"]
  /\ ready' = ready \union {c}
  /\ UNCHANGED <<scenario_vars, broken, left, cwd, play_vars, input_vars, virtual_blocked, mode,
                 wait>>

\* Leaving the session stops what is pending, then asks whether everything was expected.
Leave ==
  /\ Free /\ left = "no"
  /\ left' = "closing"
  /\ UNCHANGED <<scenario_vars, stage, broken, cwd, play_vars, input_vars, flags, outcome, mode,
                 wait>>

Left ==
  /\ left = "closing" /\ Pending = {}
  /\ left' = IF strict /\ cursor # Len(expectations) THEN "unconsumed" ELSE "consumed"
  /\ inputs' = <<>>
  /\ UNCHANGED <<scenario_vars, stage, broken, cwd, play_vars, sent, flags, outcome, mode, wait>>
-----------------------------------------------------------------------------
(* The driver: prepare, authentication, and the steps. *)

\* Mutant: the expectation is taken from the scenario when the command runs.
AdoptNext(c) ==
  LET n == Cardinality({d \in Commands : outcome[d] \notin {"none", "stopped"}}) + 1
  IN IF n <= Len(expectations) THEN expectations[n] ELSE reservation[c]

Adopt(c) == reservation[c]

Prepare(c) ==
  /\ mode = "off" /\ stage[c] = "queued" /\ ~broken /\ left = "no"
  /\ \A d \in Commands : d < c => stage[d] # "queued"
  /\ Moves(c, "active")
  /\ active' = c /\ playing' = Adopt(c)
  /\ inputs' = <<>>
  /\ asked' = 0 /\ step' = 1 /\ offset' = 0 /\ spent' = 0 /\ storage_error' = FALSE
  /\ IF Submissions[c] \in Elevated
     THEN mode' = "asking" /\ ready' = ready
     ELSE mode' = "running" /\ ready' = ready \union {c}
  /\ UNCHANGED <<scenario_vars, broken, left, cwd, elapsed, sent, virtual_blocked, outcome, wait>>

\* The provider answers, or raises: then nothing is authenticated.
Asks ==
  /\ mode = "asking" /\ asked < playing.prompts /\ asked < Attempts
  /\ asked' = asked + 1
  /\ \/ UNCHANGED <<mode, outcome>>
     \/ mode' = "ended" /\ Yields("provider_failure")
  /\ UNCHANGED <<scenario_vars, session_vars, active, playing, step, offset, spent, storage_error,
                 elapsed, input_vars, flags, wait>>

Authenticated ==
  /\ mode = "asking" /\ (asked >= playing.prompts \/ asked >= Attempts)
  /\ ready' = ready \union {active}
  /\ IF playing.authenticated
     THEN mode' = "running" /\ UNCHANGED outcome
     ELSE mode' = "ended" /\ Yields("startup_failure")
  /\ UNCHANGED <<scenario_vars, session_vars, play_vars, input_vars, virtual_blocked, wait>>

Playing(kind) ==
  /\ mode = "running" /\ step <= Len(playing.steps)
  /\ playing.steps[step].kind = kind

Raises(verdict) == mode' = "ended" /\ Yields(verdict)

\* An Emit step feeds the capture and the hub, which OutputHub and StreamCapture model.
PlayEmit ==
  /\ Playing("emit")
  /\ step' = step + 1
  /\ UNCHANGED <<scenario_vars, session_vars, active, playing, asked, offset, spent,
                 storage_error, elapsed, input_vars, flags, outcome, mode, wait>>

\* Mutant: the deadline is noticed by the next step.
AdvancesPastDeadline ==
  LET seconds == playing.steps[step].seconds
  IN /\ Playing("advance")
     /\ IF spent >= Deadline
        THEN Raises("timeout") /\ UNCHANGED <<elapsed, step, spent>>
        ELSE /\ elapsed' = elapsed + seconds /\ spent' = spent + seconds
             /\ step' = step + 1 /\ UNCHANGED <<outcome, mode>>
     /\ UNCHANGED <<scenario_vars, session_vars, active, playing, asked, offset, storage_error,
                    input_vars, flags, wait>>

PlayAdvance ==
  LET seconds == playing.steps[step].seconds
  IN /\ Playing("advance")
     /\ IF spent + seconds >= Deadline
        THEN /\ elapsed' = elapsed + (Deadline - spent)
             /\ Raises("timeout") /\ UNCHANGED <<step, spent>>
        ELSE /\ elapsed' = elapsed + seconds /\ spent' = spent + seconds
             /\ step' = step + 1 /\ UNCHANGED <<outcome, mode>>
     /\ UNCHANGED <<scenario_vars, session_vars, active, playing, asked, offset, storage_error,
                    input_vars, flags, wait>>

PlayFailure ==
  LET failure == playing.steps[step].failure
  IN /\ Playing("failure")
     /\ IF failure = "output"
        THEN storage_error' = TRUE /\ step' = step + 1 /\ UNCHANGED <<outcome, mode>>
        ELSE Raises(failure) /\ UNCHANGED <<storage_error, step>>
     /\ UNCHANGED <<scenario_vars, session_vars, active, playing, asked, offset, spent, elapsed,
                    input_vars, flags, wait>>

\* Mutant: what a chunk holds beyond the expected bytes is lost with the chunk.
PushBackNothing(expected, actual) == Tail(inputs)

PushBack(expected, actual) ==
  IF Len(actual) > Len(expected)
  THEN <<SubSeq(actual, Len(expected) + 1, Len(actual))>> \o Tail(inputs)
  ELSE Tail(inputs)

\* receive: it compares the bytes that one chunk and what is still expected have in common.
PlayReceive ==
  LET expected == SubSeq(playing.steps[step].data, offset + 1, Len(playing.steps[step].data))
      actual == Head(inputs)
      agree == \A i \in DOMAIN expected \intersect DOMAIN actual : expected[i] = actual[i]
  IN /\ Playing("receive")
     /\ IF inputs = <<>>
        THEN /\ virtual_blocked' = virtual_blocked \union {active}
             /\ mode' = "blocked"
             /\ UNCHANGED <<inputs, step, offset, outcome>>
        ELSE /\ inputs' = PushBack(expected, actual)
             /\ IF ~agree \/ ((expected = Eof) # (actual = Eof))
                THEN Raises("unexpected_input") /\ UNCHANGED <<step, offset>>
                ELSE /\ IF Len(actual) >= Len(expected)
                        THEN step' = step + 1 /\ offset' = 0
                        ELSE offset' = offset + Len(actual) /\ UNCHANGED step
                     /\ UNCHANGED <<outcome, mode>>
             /\ UNCHANGED virtual_blocked
     /\ UNCHANGED <<scenario_vars, session_vars, active, playing, asked, spent, storage_error,
                    elapsed, sent, ready, wait>>

\* After the last step the directory changes (and the environment likewise), then input that
\* nobody expected is refused; an unread end of input is not.
PlayEnds ==
  /\ mode = "running" /\ step > Len(playing.steps)
  /\ cwd' = IF playing.cwd = "" THEN cwd ELSE playing.cwd
  /\ Raises(IF \E i \in DOMAIN inputs : inputs[i] # Eof THEN "unexpected_input" ELSE "exited")
  /\ UNCHANGED <<scenario_vars, stage, broken, left, play_vars, input_vars, flags, wait>>

Resume ==
  /\ mode = "blocked" /\ inputs # <<>>
  /\ mode' = "running"
  /\ UNCHANGED <<scenario_vars, session_vars, play_vars, input_vars, flags, outcome, wait>>
-----------------------------------------------------------------------------
(* Input, termination and finalization of the active command. *)

\* handle.write_input and close_stdin look at handle.state, which stays "running" until the
\* outcome is taken, and while a command that did not exit is being finalized.
TakesInput(chunk) ==
  /\ \/ mode \in {"blocked", "ended"}
     \/ mode = "over" /\ outcome[active] \notin {"exited", "startup_failure", "output_failure"}
  /\ active \in ready
  /\ Len(sent) < MaxSent /\ Len(inputs) < MaxSent
  /\ ~Contains(sent, Eof) /\ ~Contains(inputs, Eof)

\* Mutant: the command stays marked as blocked until it runs again.
StaysBlocked(chunk) ==
  /\ TakesInput(chunk)
  /\ inputs' = Append(inputs, chunk)
  /\ sent' = IF mode = "blocked" THEN Append(sent, chunk) ELSE sent
  /\ UNCHANGED <<scenario_vars, session_vars, play_vars, flags, outcome, mode, wait>>

\* Input that comes after the verdict is accepted, and nobody compares it.
Send(chunk) ==
  /\ TakesInput(chunk)
  /\ inputs' = Append(inputs, chunk)
  /\ sent' = IF mode = "blocked" THEN Append(sent, chunk) ELSE sent
  /\ virtual_blocked' = virtual_blocked \ {active}
  /\ UNCHANGED <<scenario_vars, session_vars, play_vars, ready, outcome, mode, wait>>

\* A stop wins over what execute returned, as long as run_owned has not seen it.
Stop ==
  /\ mode \in {"asking", "blocked", "ended"}
  /\ Raises("stopped")
  /\ UNCHANGED <<scenario_vars, session_vars, play_vars, input_vars, flags, wait>>

\* The outcomes after which the session goes on: execute returned.
Returned == outcome[active] \in {"exited", "startup_failure"}

Finalize ==
  /\ mode = "ended"
  /\ mode' = "over" /\ Moves(active, "ending")
  /\ broken' = (broken \/ ~Returned)
  /\ IF outcome[active] = "exited" /\ storage_error
     THEN Yields("output_failure")
     ELSE UNCHANGED outcome
  /\ inputs' = <<>> /\ playing' = NoExpectation
  /\ asked' = 0 /\ step' = 0 /\ offset' = 0 /\ spent' = 0 /\ storage_error' = FALSE
  /\ ready' = ready \union {active}
  /\ UNCHANGED <<scenario_vars, left, cwd, active, elapsed, sent, virtual_blocked, wait>>

\* The future is resolved, and the lease of the active command is released.
Finish(c) ==
  /\ Free /\ stage[c] = "ending"
  /\ Moves(c, "finished")
  /\ IF c = active
     THEN mode' = "off" /\ active' = 0 /\ sent' = <<>>
     ELSE UNCHANGED <<mode, active, sent>>
  /\ UNCHANGED <<scenario_vars, broken, left, cwd, playing, asked, step, offset, spent,
                 storage_error, elapsed, inputs, flags, outcome, wait>>
-----------------------------------------------------------------------------
(* A wait with a finite budget, which takes no real time. *)

Waits(c, to) ==
  /\ Free /\ wait' = [wait EXCEPT ![c] = to]
  /\ UNCHANGED <<scenario_vars, session_vars, play_vars, input_vars, flags, outcome, mode>>

BeginWait(c) ==
  /\ wait[c] = "none" /\ stage[c] \notin {"unknown", "refused"}
  /\ Waits(c, IF stage[c] = "finished" THEN "returned"
              ELSE IF First(c) THEN "awaiting" ELSE "expired")

CheckWait(c) ==
  /\ wait[c] = "awaiting" /\ c \in ready
  /\ Waits(c, IF c \in virtual_blocked THEN "expired" ELSE "watching")

EndWait(c) ==
  /\ wait[c] = "watching" /\ stage[c] = "finished"
  /\ Waits(c, "returned")
-----------------------------------------------------------------------------
Driver ==
  \/ Asks \/ Authenticated
  \/ PlayEmit \/ PlayAdvance \/ PlayFailure \/ PlayReceive \/ PlayEnds
  \/ Resume \/ Stop \/ Finalize
  \/ \E chunk \in Chunks \union {Eof} : Send(chunk)

Next ==
  \/ \E c \in Commands : Submit(c) \/ Skip(c) \/ Prepare(c) \/ Finish(c)
  \/ \E c \in Watched : BeginWait(c) \/ CheckWait(c) \/ EndWait(c)
  \/ Driver
  \/ Leave \/ Left

Spec == Init /\ [][Next]_vars
-----------------------------------------------------------------------------
(* Properties. *)

\* What a variable may hold: the driver is on a step of what it plays, has used no more
\* virtual time than the deadline, and a session that is left has nothing pending.
TypeOK ==
  /\ cursor \in 0..Len(expectations)
  /\ active \in Commands \union {0}
  /\ mode \in {"off", "asking", "running", "blocked", "ended", "over"}
  /\ (mode = "off") = (active = 0)
  /\ spent \in 0..Deadline /\ asked \in 0..Attempts
  /\ elapsed \in 0..(Len(Submissions) * Deadline)
  /\ step \in 0..(Len(playing.steps) + 1) \/ mode \in {"off", "over"}
  /\ left \in {"consumed", "unconsumed"} => Pending = {}
  /\ \A c \in Commands :
       /\ stage[c] \in {"unknown", "refused", "queued", "active", "ending", "finished"}
       /\ stage[c] = "active" => c = active
       /\ c \in virtual_blocked => c \in ready
  /\ \A c \in Watched : wait[c] \in {"none", "awaiting", "watching", "expired", "returned"}

Accepted(c) == stage[c] \notin {"unknown", "refused"}

\* The place of a command among the accepted submissions.
Place(c) == Cardinality({d \in 1..c : Accepted(d)})

\* Expectations are taken at submission: the command that runs plays the one that its place
\* among the accepted submissions gives it in a strict scenario, also when commands before it
\* were stopped in the queue; a strict session that is left with everything consumed has seen
\* exactly the scenario's commands, in order (scenario.reserve, driver.prepare).
OwnExpectation ==
  /\ mode \in {"asking", "running", "blocked"} =>
       /\ playing.command = Submissions[active]
       /\ strict => playing = expectations[Place(active)]
  /\ strict /\ left = "consumed" =>
       /\ Cardinality({c \in Commands : Accepted(c)}) = Len(expectations)
       /\ \A c \in Commands :
            Accepted(c) => Submissions[c] = expectations[Place(c)].command

\* The virtual time that the first n steps advance.
Advanced(steps) ==
  LET total[n \in 0..Len(steps)] ==
        IF n = 0 THEN 0
        ELSE total[n - 1] + (IF steps[n].kind = "advance" THEN steps[n].seconds ELSE 0)
  IN total

Terminal(steps, i) ==
  \/ steps[i].kind = "failure" /\ steps[i].failure # "output"
  \/ steps[i].kind = "advance" /\ Advanced(steps)[i] >= Deadline

\* The first step that raises whatever the input, or the end of the script.
LastStep(steps) ==
  CHOOSE i \in 1..(Len(steps) + 1) :
    /\ \A j \in 1..(i - 1) : ~Terminal(steps, j)
    /\ i > Len(steps) \/ Terminal(steps, i)

\* The input that the first n steps read, as one stream.
Reads(steps) ==
  LET stream[n \in 0..Len(steps)] ==
        IF n = 0 THEN <<>>
        ELSE stream[n - 1] \o (IF steps[n].kind = "receive" THEN steps[n].data ELSE <<>>)
  IN stream

Wanted(steps) == Reads(steps)[LastStep(steps) - 1]

VerdictOf(steps, got) ==
  LET wanted == Wanted(steps)
      last == LastStep(steps)
  IN IF ~IsPrefix(wanted, got) THEN "unexpected_input"
     ELSE IF last > Len(steps)
          THEN IF got \in {wanted, wanted \o Eof} THEN "exited" ELSE "unexpected_input"
     ELSE IF steps[last].kind = "advance" THEN "timeout" ELSE steps[last].failure

\* The scenarios whose Receive steps all ask for something.  Receive(b"") is accepted as well:
\* it waits for a chunk that it does not read, and takes the end of input for a mistake.
Hears(e) == \A i \in DOMAIN e.steps : e.steps[i].kind = "receive" => e.steps[i].data # <<>>
ReceivesInput == \A scenario \in Scenarios : \A i \in DOMAIN scenario : Hears(scenario[i])

\* What the mock says of a command depends on the bytes it was sent, not on their chunks: the
\* verdict is the one that a comparison of the two whole streams gives, and the driver waits
\* only while the input so far is a proper prefix of the expected one (driver.receive), if
\* ReceivesInput.
VerdictIsOfStream ==
  LET got == FlattenSeq(sent)
      verdicts == {"exited", "unexpected_input", "timeout", "input", "startup", "session"}
  IN /\ mode = "ended" /\ outcome[active] \in verdicts =>
          outcome[active] = VerdictOf(playing.steps, got)
     /\ mode = "blocked" /\ inputs = <<>> => IsStrictPrefix(got, Wanted(playing.steps))

\* A finite wait that expires did so because an earlier command is pending, because the
\* command waits for input that nobody has sent, or because it was given up: never while
\* the mock could have gone on without the caller (observation.virtual_wait).
TimeoutsAreReal ==
  [][\A c \in Watched :
       wait[c] # "expired" /\ wait'[c] = "expired" =>
         \/ \E d \in Pending : d < c
         \/ c = active /\ mode = "blocked" /\ inputs = <<>>
         \/ outcome[c] \notin {"none", "exited"}]_vars
=============================================================================
