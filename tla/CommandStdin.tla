---------------------------- MODULE CommandStdin ----------------------------
(***************************************************************************)
(* The business input of commands that share a session: write_input and    *)
(* close_stdin of a handle (frontend/handle.py), whose calls of the driver *)
(* name no command, against the life of the driver's stdin channel         *)
(* (backends/native/driver.py, preparation.py, channels.py).               *)
(*                                                                         *)
(* Commands run one at a time, as ShellSession shows: this module keeps    *)
(* their stages and what each does to the channel.  An operation suspends  *)
(* while it waits for the command to be ready and for the handle's writer  *)
(* lock, and in the drain that follows each chunk.                         *)
(***************************************************************************)
EXTENDS Naturals, Sequences, FiniteSets

CONSTANTS
  Commands,             \* submitted commands
  Calls,                \* of each operation: its command, and the number of
                        \* chunks it writes, 0 for close_stdin
  None                  \* nobody, nothing

Operations == DOMAIN Calls
Of(o) == Calls[o].of
Closes(o) == Calls[o].chunks = 0

ASSUME StdinAssumption ==
  /\ None \notin Commands /\ None \notin Operations
  /\ \A o \in Operations : Calls[o].of \in Commands /\ Calls[o].chunks \in Nat

VARIABLES
  stage,                \* where run_owned of each command is
  handle_state,         \* handle.state
  broken,               \* session.state is not OPEN any more
  ready,                \* commands whose `ready` event is set
  stdin,                \* the command whose pipe is driver.channels["stdin"]
  op,                   \* the stage of each operation
  sent,                 \* how many chunks it has written
  writer,               \* the holder of each handle's writer_lock
  closed,               \* commands whose input.closed is true
  accepted, submitted,  \* of handle.input, in chunks
  input_state,          \* handle.input.state
  written,              \* history: the chunks written, in order
  closings              \* history: whose operation closed whose pipe

commands == <<stage, handle_state, broken, ready, stdin>>
inputs   == <<op, sent, writer, closed, accepted, submitted, input_state>>
history  == <<written, closings>>
vars     == <<commands, inputs, history>>

Init ==
  /\ stage = [c \in Commands |-> "queued"]
  /\ handle_state = [c \in Commands |-> "queued"]
  /\ broken = FALSE /\ ready = {} /\ stdin = None
  /\ op = [o \in Operations |-> "called"]
  /\ sent = [o \in Operations |-> 0]
  /\ writer = [c \in Commands |-> None]
  /\ closed = {}
  /\ accepted = [c \in Commands |-> 0]
  /\ submitted = [c \in Commands |-> 0]
  /\ input_state = [c \in Commands |-> "unused"]
  /\ written = <<>> /\ closings = {}
-----------------------------------------------------------------------------
(* The commands: run_owned, and what the driver does to its stdin channel.  *)

Moves(c, from, to) == stage[c] \in from /\ stage' = [stage EXCEPT ![c] = to]
Becomes(c, s) == handle_state' = [handle_state EXCEPT ![c] = s]

\* The stages of a command that holds the lease.
Served == {"preparing", "running", "releasing", "finalizing"}

\* prepare_command opens the pipe.
Prepare(c) ==
  /\ ~broken /\ \A d \in Commands : stage[d] \notin Served
  /\ Moves(c, {"queued"}, "preparing")
  /\ Becomes(c, "preparing")
  /\ stdin' = c
  /\ UNCHANGED <<broken, ready, inputs, history>>

Start(c) ==
  /\ Moves(c, {"preparing"}, "running")
  /\ Becomes(c, "running")
  /\ UNCHANGED <<broken, ready, stdin, inputs, history>>

\* The shell has opened its end of the pipe.
Activate(c) ==
  /\ stage[c] = "running" /\ c \notin ready
  /\ ready' = ready \cup {c}
  /\ UNCHANGED <<stage, handle_state, broken, stdin, inputs, history>>

\* Mutant: the handle gets a state of its own.
ExitsUnknown(c) ==
  /\ Moves(c, {"running"}, "releasing")
  /\ Becomes(c, "exited")
  /\ UNCHANGED <<broken, ready, stdin, inputs, history>>

Exits(c) ==
  /\ Moves(c, {"running"}, "releasing")
  /\ Becomes(c, "finishing")
  /\ UNCHANGED <<broken, ready, stdin, inputs, history>>

\* Stopped, too late or failed: the handle stays "preparing" or "running".
Interrupted(c) ==
  /\ Moves(c, {"preparing", "running"}, "releasing")
  /\ broken' = TRUE
  /\ UNCHANGED <<handle_state, ready, stdin, inputs, history>>

\* driver.finish closes and forgets the channels; then `ready` is set.
Finish(c) ==
  /\ Moves(c, {"releasing"}, "finalizing")
  /\ stdin' = None
  /\ ready' = ready \cup {c}
  /\ UNCHANGED <<handle_state, broken, inputs, history>>

\* A command that is stopped in the queue is finalized at any time.
Dropped(c) ==
  /\ Moves(c, {"queued"}, "dropping")
  /\ ready' = ready \cup {c}
  /\ UNCHANGED <<handle_state, broken, stdin, inputs, history>>

Settle(c) ==
  /\ Moves(c, {"finalizing", "dropping"}, "settled")
  /\ Becomes(c, "finished")
  /\ UNCHANGED <<broken, ready, stdin, inputs, history>>
-----------------------------------------------------------------------------
(* write_input and close_stdin *)

\* Mutant: operations of a handle are not serialized.
ReadyOnly(o) == op[o] = "called" /\ Of(o) \in ready

\* The handle is ready and its writer lock is free.
MayStart(o) == op[o] = "called" /\ Of(o) \in ready /\ writer[Of(o)] = None

\* The operation ends: the lock is free again.
Ends(o, how) ==
  /\ op' = [op EXCEPT ![o] = how]
  /\ writer' = [writer EXCEPT ![Of(o)] = None]

\* driver.send, up to the drain: the chunk is handed to the pipe that is the
\* driver's by now, if open or not; without one the lookup raises KeyError.
SendChunk(o, chunk) ==
  IF stdin # None
  THEN /\ written' = Append(written, [by |-> o, chunk |-> chunk, to |-> stdin])
       /\ sent' = [sent EXCEPT ![o] = chunk]
       /\ op' = [op EXCEPT ![o] = "draining"]
       /\ writer' = [writer EXCEPT ![Of(o)] = o]
  ELSE Ends(o, "crashed") /\ UNCHANGED <<written, sent>>

\* Mutant: the handle's state is not looked at.
RefusesClosed(c) == c \in closed

\* Mutant: a closed input goes on.
RefusesState(c) == handle_state[c] # "running"

Refuses(c) == c \in closed \/ handle_state[c] # "running"

Refused(o) ==
  /\ ~Closes(o) /\ MayStart(o)
  /\ Refuses(Of(o))
  /\ op' = [op EXCEPT ![o] = "refused"]
  /\ UNCHANGED <<commands, sent, writer, closed, accepted, submitted, input_state, history>>

Write(o) ==
  /\ ~Closes(o) /\ MayStart(o)
  /\ ~Refuses(Of(o))
  /\ accepted' = [accepted EXCEPT ![Of(o)] = @ + Calls[o].chunks]
  /\ input_state' = [input_state EXCEPT ![Of(o)] = "accepted"]
  /\ SendChunk(o, 1)
  /\ UNCHANGED <<commands, closed, submitted, closings>>

\* Mutant: every chunk counts for the whole submission.
DrainCountsAll(o) ==
  /\ op[o] = "draining"
  /\ submitted' = [submitted EXCEPT ![Of(o)] = @ + Calls[o].chunks]
  /\ IF sent[o] < Calls[o].chunks
     THEN /\ SendChunk(o, sent[o] + 1)
          /\ input_state' = [input_state EXCEPT ![Of(o)] = "partially_submitted"]
     ELSE /\ Ends(o, "done")
          /\ input_state' = [input_state EXCEPT ![Of(o)] = "submitted"]
          /\ UNCHANGED <<written, sent>>
  /\ UNCHANGED <<commands, closed, accepted, closings>>

\* The pipe takes more: the next chunk, or the end.  A pipe that the driver
\* closed drains as well, while a descendant still reads it.
DrainReturns(o) ==
  /\ op[o] = "draining"
  /\ submitted' = [submitted EXCEPT ![Of(o)] = @ + 1]
  /\ IF sent[o] < Calls[o].chunks
     THEN /\ SendChunk(o, sent[o] + 1)
          /\ input_state' = [input_state EXCEPT ![Of(o)] = "partially_submitted"]
     ELSE /\ Ends(o, "done")
          /\ input_state' = [input_state EXCEPT ![Of(o)] = "submitted"]
          /\ UNCHANGED <<written, sent>>
  /\ UNCHANGED <<commands, closed, accepted, closings>>

\* Nobody reads the pipe any more, or the caller is cancelled.
DrainRaises(o) ==
  /\ op[o] = "draining"
  /\ \E how \in {"failed", "aborted"} :
       /\ Ends(o, how)
       /\ input_state' = [input_state EXCEPT ![Of(o)] = how]
  /\ UNCHANGED <<commands, sent, closed, accepted, submitted, history>>

\* close_stdin does not suspend between its check and driver.close_stdin,
\* which raises KeyError without a channel.
Close(o) ==
  /\ Closes(o) /\ MayStart(o)
  /\ IF Of(o) \notin closed /\ stdin = None
     THEN op' = [op EXCEPT ![o] = "crashed"] /\ UNCHANGED <<closed, closings>>
     ELSE /\ op' = [op EXCEPT ![o] = "done"]
          /\ closed' = closed \cup {Of(o)}
          /\ closings' = IF Of(o) \in closed THEN closings
                         ELSE closings \cup {[by |-> Of(o), to |-> stdin]}
  /\ UNCHANGED <<commands, sent, writer, accepted, submitted, input_state, written>>
-----------------------------------------------------------------------------
Next ==
  \/ \E c \in Commands :
       \/ Prepare(c) \/ Start(c) \/ Activate(c) \/ Exits(c) \/ Interrupted(c)
       \/ Finish(c) \/ Dropped(c) \/ Settle(c)
  \/ \E o \in Operations :
       Refused(o) \/ Write(o) \/ DrainReturns(o) \/ DrainRaises(o) \/ Close(o)

Spec == Init /\ [][Next]_vars
-----------------------------------------------------------------------------
TypeOK ==
  /\ stage \in [Commands -> Served \cup {"queued", "dropping", "settled"}]
  /\ handle_state \in [Commands -> {"queued", "preparing", "running", "finishing", "finished"}]
  /\ broken \in BOOLEAN
  /\ ready \subseteq Commands
  /\ stdin \in Commands \cup {None}
  /\ op \in [Operations -> {"called", "draining", "done", "refused", "failed", "aborted", "crashed"}]
  /\ sent \in [Operations -> Nat]
  /\ writer \in [Commands -> Operations \cup {None}]
  /\ closed \subseteq Commands
  /\ accepted \in [Commands -> Nat] /\ submitted \in [Commands -> Nat]
  /\ input_state \in [Commands -> {"unused", "accepted", "partially_submitted", "submitted",
                                   "failed", "aborted"}]
  /\ written \in Seq([by : Operations, chunk : Nat, to : Commands])
  /\ closings \subseteq [by : Commands, to : Commands]

\* One logical writer: between two chunks of a submission nothing else of its
\* command is written, and each chunk is written once, in order.
SubmissionsAreWhole ==
  \A i, j \in DOMAIN written :
    i < j /\ Of(written[i].by) = Of(written[j].by) =>
      IF written[i].by = written[j].by
      THEN written[i].chunk < written[j].chunk
      ELSE \A k \in DOMAIN written : k > j => written[k].by # written[i].by

\* What fits one transport step is never misdirected: the state of the handle,
\* read before the first chunk, speaks for the driver's pipe.
FirstChunkIsOwn ==
  \A i \in DOMAIN written : written[i].chunk = 1 => written[i].to = Of(written[i].by)

\* Nothing follows the end of input: once a handle has closed its input, no
\* operation of it that waited for the lock or the drain writes a chunk.
ClosedIsFinal ==
  [][\A i \in DOMAIN written' : i > Len(written) => Of(written'[i].by) \notin closed]_vars

\* What send and close_stdin return: InputSummary, in chunks.
Summary(c) ==
  [accepted |-> accepted[c], submitted |-> submitted[c], state |-> input_state[c],
   closed |-> c \in closed]

\* The summary never claims more than was written, and "submitted" stands for
\* everything that was accepted unless an operation has failed.
SummaryIsHonest ==
  \A c \in Commands :
    LET chunks == {i \in DOMAIN written : Of(written[i].by) = c}
        failed == {o \in Operations : Of(o) = c /\ op[o] \in {"failed", "aborted", "crashed"}}
    IN /\ Summary(c).submitted <= Cardinality(chunks)
       /\ Summary(c).state = "submitted" /\ failed = {}
            => Summary(c).submitted = Summary(c).accepted
-----------------------------------------------------------------------------
(* What the repository says and the code does not keep. *)

\* backends/native/channels.py: "Command-specific byte pipes".  An operation of
\* a handle reaches no pipe but its command's.
InputIsOwn ==
  /\ \A i \in DOMAIN written : written[i].to = Of(written[i].by)
  /\ \A x \in closings : x.by = x.to
=============================================================================
