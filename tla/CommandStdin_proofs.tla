------------------------ MODULE CommandStdin_proofs ------------------------
(***************************************************************************)
(* Proofs about CommandStdin for every set of commands and operations: its *)
(* type correctness, that a submission starts on its own command's pipe,   *)
(* that submissions are whole, that nothing follows the end of input, and  *)
(* that the summary of a command's input is honest.                        *)
(***************************************************************************)
EXTENDS CommandStdin, FiniteSetTheorems, TLAPS

\* The lease: one command at a time has the driver.
ServedAlone ==
  \A c, d \in Commands : stage[c] \in Served /\ stage[d] \in Served => c = d

\* The driver's stdin channel is the one of the command it serves.
PipeOfServed ==
  \A c \in Commands : stdin = c <=> stage[c] \in {"preparing", "running", "releasing"}

RunningIsServed ==
  \A c \in Commands : handle_state[c] = "running" => stage[c] \in Served

\* A suspended writer holds its handle's lock, and its input is open.
DrainingHolds ==
  \A o \in Operations : op[o] = "draining" =>
    writer[Of(o)] = o /\ Of(o) \notin closed /\ sent[o] >= 1

Lives == TypeOK /\ ServedAlone /\ PipeOfServed /\ RunningIsServed /\ DrainingHolds

\* What was written was written by operations that have begun; those that
\* another one of the same command followed have ended.
LogIsOrdered ==
  /\ \A i \in DOMAIN written :
       op[written[i].by] # "called" /\ written[i].chunk <= sent[written[i].by]
  /\ \A i, j \in DOMAIN written : i < j =>
       IF written[i].by = written[j].by
       THEN written[i].chunk < written[j].chunk
       ELSE Of(written[i].by) = Of(written[j].by) => op[written[i].by] # "draining"

Whole == SubmissionsAreWhole /\ LogIsOrdered

LEMMA OfCommand == \A o \in Operations : Of(o) \in Commands /\ o # None
BY StdinAssumption DEF Of

LEMMA CommandsAreNotNone == \A c \in Commands : c # None
BY StdinAssumption

\* The commands' steps change no operation and write nothing.
LEMMA LivesCommands ==
  ASSUME Lives, NEW c \in Commands,
         \/ Prepare(c) \/ Start(c) \/ Activate(c) \/ Exits(c) \/ Interrupted(c)
         \/ Finish(c) \/ Dropped(c) \/ Settle(c)
  PROVE  Lives' /\ UNCHANGED <<inputs, history>>
<1> USE CommandsAreNotNone DEF Moves, Becomes
<1>0. UNCHANGED <<inputs, history>>
  BY DEF Prepare, Start, Activate, Exits, Interrupted, Finish, Dropped, Settle
<1>1. DrainingHolds'
  BY <1>0 DEF Lives, DrainingHolds, inputs, Of
<1>2. /\ stage' \in [Commands -> Served \cup {"queued", "dropping", "settled"}]
      /\ handle_state' \in [Commands -> {"queued", "preparing", "running", "finishing", "finished"}]
      /\ broken' \in BOOLEAN /\ ready' \subseteq Commands /\ stdin' \in Commands \cup {None}
  BY DEF Prepare, Start, Activate, Exits, Interrupted, Finish, Dropped, Settle, Lives, TypeOK, Served
<1>3. TypeOK'
  BY <1>0, <1>2 DEF Lives, TypeOK, inputs, history
<1>4. CASE Prepare(c)
  BY <1>1, <1>3, <1>4, <1>0 DEF Prepare, Lives, TypeOK, ServedAlone, PipeOfServed, RunningIsServed, Served
<1>5. CASE Start(c) \/ Exits(c) \/ Interrupted(c)
  <2>1. /\ stage[c] \in {"preparing", "running"} /\ stdin' = stdin
        /\ \E to \in {"running", "releasing"} : stage' = [stage EXCEPT ![c] = to]
        /\ \A d \in Commands \ {c} : handle_state'[d] = handle_state[d]
    BY <1>5 DEF Start, Exits, Interrupted, Lives, TypeOK
  <2>2. ServedAlone'
    BY <2>1 DEF Lives, TypeOK, ServedAlone, Served
  <2>3. PipeOfServed'
    BY <2>1 DEF Lives, TypeOK, PipeOfServed
  <2>4. RunningIsServed'
    BY <2>1 DEF Lives, TypeOK, RunningIsServed, Served
  <2> QED BY <1>0, <1>1, <1>3, <2>2, <2>3, <2>4 DEF Lives
<1>6. CASE Activate(c)
  BY <1>1, <1>3, <1>6, <1>0 DEF Activate, Lives, ServedAlone, PipeOfServed, RunningIsServed
<1>8. CASE Finish(c)
  BY <1>1, <1>3, <1>8, <1>0 DEF Finish, Lives, TypeOK, ServedAlone, PipeOfServed, RunningIsServed, Served
<1>9. CASE Dropped(c) \/ Settle(c)
  <2>1. /\ stage[c] \in {"queued", "finalizing", "dropping"} /\ stdin' = stdin
        /\ \E to \in {"dropping", "settled"} : stage' = [stage EXCEPT ![c] = to]
        /\ \A d \in Commands \ {c} : handle_state'[d] = handle_state[d]
    BY <1>9 DEF Dropped, Settle, Lives, TypeOK
  <2>2. ServedAlone'
    BY <2>1 DEF Lives, TypeOK, ServedAlone, Served
  <2>3. PipeOfServed'
    BY <2>1 DEF Lives, TypeOK, PipeOfServed
  <2>4. handle_state'[c] = "running" => handle_state[c] = "running" /\ stage[c] = "queued"
    BY <1>9 DEF Dropped, Settle, Lives, TypeOK
  <2>5. RunningIsServed'
    BY <2>1, <2>4 DEF Lives, TypeOK, RunningIsServed, Served
  <2> QED BY <1>0, <1>1, <1>3, <2>2, <2>3, <2>5 DEF Lives
<1> QED BY <1>4, <1>5, <1>6, <1>8, <1>9

\* The effect of a chunk on the pipe, the lock and the operation.
LEMMA SendChunkTypes ==
  ASSUME Lives, NEW o \in Operations, NEW chunk \in Nat \ {0}, SendChunk(o, chunk),
         writer[Of(o)] = None \/ writer[Of(o)] = o, Of(o) \notin closed, UNCHANGED closed
  PROVE  /\ op' \in [Operations -> {"called", "draining", "done", "refused", "failed",
                                    "aborted", "crashed"}]
         /\ sent' \in [Operations -> Nat]
         /\ writer' \in [Commands -> Operations \cup {None}]
         /\ written' \in Seq([by : Operations, chunk : Nat, to : Commands])
         /\ DrainingHolds'
<1> USE OfCommand
<1>1. CASE stdin = None
  <2>1. /\ op' = [op EXCEPT ![o] = "crashed"]
        /\ writer' = [writer EXCEPT ![Of(o)] = None]
        /\ UNCHANGED <<written, sent>>
    BY <1>1 DEF SendChunk, Ends
  <2>2. DrainingHolds'
    <3> SUFFICES ASSUME NEW p \in Operations, op'[p] = "draining"
                 PROVE  writer'[Of(p)] = p /\ Of(p) \notin closed' /\ sent'[p] >= 1
      BY DEF DrainingHolds, Of
    <3>1. p # o /\ op[p] = "draining"
      BY <2>1 DEF Lives, TypeOK
    <3>2. writer[Of(p)] = p /\ Of(p) \notin closed /\ sent[p] >= 1
      BY <3>1 DEF Lives, DrainingHolds
    <3>3. Of(p) # Of(o)
      BY <3>1, <3>2
    <3> QED BY <2>1, <3>2, <3>3 DEF Lives, TypeOK
  <2> QED BY <2>1, <2>2 DEF Lives, TypeOK
<1>2. CASE stdin # None
  <2>1. [by |-> o, chunk |-> chunk, to |-> stdin] \in [by : Operations, chunk : Nat, to : Commands]
    BY <1>2 DEF Lives, TypeOK
  <2>2. written' \in Seq([by : Operations, chunk : Nat, to : Commands])
    <3> DEFINE entry == [by |-> o, chunk |-> chunk, to |-> stdin]
               Entries == [by : Operations, chunk : Nat, to : Commands]
    <3>1. written' = Append(written, entry)
      BY <1>2 DEF SendChunk
    <3>2. written \in Seq(Entries) /\ entry \in Entries
      BY <2>1 DEF Lives, TypeOK
    <3>3. Append(written, entry) \in Seq(Entries)
      <4> HIDE DEF entry, Entries
      <4> QED BY <3>2
    <3> QED BY <3>1, <3>3
  <2>3. DrainingHolds'
    <3> SUFFICES ASSUME NEW p \in Operations, op'[p] = "draining"
                 PROVE  writer'[Of(p)] = p /\ Of(p) \notin closed' /\ sent'[p] >= 1
      BY DEF DrainingHolds, Of
    <3>1. CASE p = o
      BY <1>2, <3>1 DEF SendChunk, Lives, TypeOK
    <3>2. CASE p # o
      <4>1. op[p] = "draining" /\ sent'[p] = sent[p]
        BY <1>2, <3>2 DEF SendChunk, Lives, TypeOK
      <4>2. writer[Of(p)] = p /\ Of(p) \notin closed /\ sent[p] >= 1
        BY <4>1 DEF Lives, DrainingHolds
      <4>3. Of(p) # Of(o)
        BY <4>2, <3>2
      <4> QED BY <1>2, <4>1, <4>2, <4>3 DEF SendChunk, Lives, TypeOK
    <3> QED BY <3>1, <3>2
  <2>4. /\ op' = [op EXCEPT ![o] = "draining"]
        /\ sent' = [sent EXCEPT ![o] = chunk]
        /\ writer' = [writer EXCEPT ![Of(o)] = o]
    BY <1>2 DEF SendChunk
  <2>5. /\ op' \in [Operations -> {"called", "draining", "done", "refused", "failed",
                                   "aborted", "crashed"}]
        /\ sent' \in [Operations -> Nat]
        /\ writer' \in [Commands -> Operations \cup {None}]
    BY <2>4 DEF Lives, TypeOK
  <2> QED BY <2>2, <2>3, <2>5
<1> QED BY <1>1, <1>2

LEMMA LivesOperations ==
  ASSUME Lives, NEW o \in Operations,
         Refused(o) \/ Write(o) \/ DrainReturns(o) \/ DrainRaises(o) \/ Close(o)
  PROVE  Lives'
<1> USE OfCommand
<1>0. UNCHANGED commands
  BY DEF Refused, Write, DrainReturns, DrainRaises, Close
<1>1. (ServedAlone /\ PipeOfServed /\ RunningIsServed)'
  BY <1>0 DEF Lives, ServedAlone, PipeOfServed, RunningIsServed, commands
<1>2. CASE Refused(o)
  <2>1. TypeOK'
    BY <1>2 DEF Refused, Lives, TypeOK, commands, history
  <2>2. DrainingHolds'
    BY <1>2 DEF Refused, Lives, TypeOK, DrainingHolds, Of
  <2> QED BY <1>1, <2>1, <2>2 DEF Lives
<1>3. CASE Write(o)
  <2>1. writer[Of(o)] = None /\ Of(o) \notin closed /\ SendChunk(o, 1) /\ UNCHANGED closed
    BY <1>3 DEF Write, MayStart, Refuses
  <2>2. /\ accepted' \in [Commands -> Nat]
        /\ input_state' \in [Commands -> {"unused", "accepted", "partially_submitted", "submitted",
                                          "failed", "aborted"}]
    BY <1>3, StdinAssumption DEF Write, Lives, TypeOK
  <2>3. /\ op' \in [Operations -> {"called", "draining", "done", "refused", "failed",
                                   "aborted", "crashed"}]
        /\ sent' \in [Operations -> Nat]
        /\ writer' \in [Commands -> Operations \cup {None}]
        /\ written' \in Seq([by : Operations, chunk : Nat, to : Commands])
        /\ DrainingHolds'
    <3>1. 1 \in Nat \ {0}
      OBVIOUS
    <3> QED BY <2>1, <3>1, SendChunkTypes
  <2>4. UNCHANGED <<closed, submitted, closings>>
    BY <1>3 DEF Write
  <2>5. TypeOK'
    BY <1>0, <2>2, <2>3, <2>4 DEF Lives, TypeOK, commands
  <2> QED BY <1>1, <2>3, <2>5 DEF Lives
<1>4. CASE DrainReturns(o)
  <2>1. writer[Of(o)] = o /\ Of(o) \notin closed /\ UNCHANGED closed
    BY <1>4 DEF DrainReturns, Lives, DrainingHolds
  <2>a. sent[o] + 1 \in Nat \ {0}
    BY DEF Lives, TypeOK
  <2>b. submitted' \in [Commands -> Nat]
    BY <1>4 DEF DrainReturns, Lives, TypeOK
  <2>c. input_state' \in [Commands -> {"unused", "accepted", "partially_submitted", "submitted",
                                       "failed", "aborted"}]
    <3>1. \E s \in {"partially_submitted", "submitted"} :
            input_state' = [input_state EXCEPT ![Of(o)] = s]
      BY <1>4 DEF DrainReturns
    <3> QED BY <3>1 DEF Lives, TypeOK
  <2>2. UNCHANGED <<accepted, closings>>
    BY <1>4 DEF DrainReturns
  <2>3. CASE SendChunk(o, sent[o] + 1)
    <3>1. /\ op' \in [Operations -> {"called", "draining", "done", "refused", "failed",
                                     "aborted", "crashed"}]
          /\ sent' \in [Operations -> Nat]
          /\ writer' \in [Commands -> Operations \cup {None}]
          /\ written' \in Seq([by : Operations, chunk : Nat, to : Commands])
          /\ DrainingHolds'
      BY <2>1, <2>a, <2>3, SendChunkTypes
    <3>2. TypeOK'
      BY <1>0, <2>1, <2>b, <2>c, <2>2, <3>1 DEF Lives, TypeOK, commands
    <3> QED BY <1>1, <3>1, <3>2 DEF Lives
  <2>4. CASE Ends(o, "done") /\ UNCHANGED <<written, sent>>
    <3>1. TypeOK'
      BY <1>0, <2>1, <2>b, <2>c, <2>2, <2>4 DEF Ends, Lives, TypeOK, commands
    <3>2. DrainingHolds'
      BY <1>4, <2>1, <2>4 DEF Ends, Lives, TypeOK, DrainingHolds
    <3> QED BY <1>1, <3>1, <3>2 DEF Lives
  <2> QED BY <1>4, <2>3, <2>4 DEF DrainReturns
<1>5. CASE DrainRaises(o)
  <2>1. PICK how \in {"failed", "aborted"} :
          Ends(o, how) /\ input_state' = [input_state EXCEPT ![Of(o)] = how]
    BY <1>5 DEF DrainRaises
  <2>2. TypeOK'
    BY <1>0, <1>5, <2>1 DEF DrainRaises, Ends, Lives, TypeOK, commands, history
  <2>3. writer[Of(o)] = o
    BY <1>5 DEF DrainRaises, Lives, DrainingHolds
  <2>4. DrainingHolds'
    BY <1>5, <2>1, <2>3 DEF DrainRaises, Ends, Lives, TypeOK, DrainingHolds
  <2> QED BY <1>1, <2>2, <2>4 DEF Lives
<1>6. CASE Close(o)
  <2>1. writer[Of(o)] = None /\ UNCHANGED <<commands, sent, writer, accepted, submitted, input_state, written>>
    BY <1>6 DEF Close, MayStart
  <2>2. /\ op' \in [Operations -> {"called", "draining", "done", "refused", "failed",
                                   "aborted", "crashed"}]
        /\ closed' \subseteq closed \cup {Of(o)}
        /\ \A p \in Operations : op'[p] = "draining" => op[p] = "draining"
    BY <1>6 DEF Close, Lives, TypeOK
  <2>3. closings' \subseteq [by : Commands, to : Commands]
    BY <1>6 DEF Close, Lives, TypeOK
  <2>4. TypeOK'
    BY <2>1, <2>2, <2>3 DEF Lives, TypeOK, commands
  <2>5. DrainingHolds'
    BY <2>1, <2>2 DEF Lives, TypeOK, DrainingHolds
  <2> QED BY <1>1, <2>4, <2>5 DEF Lives
<1> QED BY <1>2, <1>3, <1>4, <1>5, <1>6

LEMMA LivesInvariance == Spec => []Lives
<1>1. Init => Lives
  <2> SUFFICES ASSUME Init PROVE Lives
    OBVIOUS
  <2>1. TypeOK
    <3>1. /\ op \in [Operations -> {"called"}] /\ sent \in [Operations -> {0}]
          /\ stage \in [Commands -> {"queued"}] /\ handle_state \in [Commands -> {"queued"}]
          /\ accepted \in [Commands -> {0}] /\ submitted \in [Commands -> {0}]
          /\ input_state \in [Commands -> {"unused"}] /\ writer \in [Commands -> {None}]
      BY DEF Init
    <3>2. stdin = None /\ written = <<>> /\ ready = {} /\ closed = {} /\ closings = {} /\ broken = FALSE
      BY DEF Init
    <3>3. /\ op \in [Operations -> {"called", "draining", "done", "refused", "failed",
                                     "aborted", "crashed"}]
          /\ sent \in [Operations -> Nat]
          /\ accepted \in [Commands -> Nat] /\ submitted \in [Commands -> Nat]
      BY <3>1
    <3>4. /\ stage \in [Commands -> Served \cup {"queued", "dropping", "settled"}]
          /\ handle_state \in [Commands -> {"queued", "preparing", "running", "finishing", "finished"}]
      BY <3>1
    <3>5. /\ input_state \in [Commands -> {"unused", "accepted", "partially_submitted", "submitted",
                                           "failed", "aborted"}]
          /\ writer \in [Commands -> Operations \cup {None}]
      BY <3>1
    <3>6. written \in Seq([by : Operations, chunk : Nat, to : Commands])
      BY <3>2
    <3>7. closings \subseteq [by : Commands, to : Commands]
      BY <3>2
    <3>8. stdin \in Commands \cup {None} /\ ready \subseteq Commands /\ closed \subseteq Commands
      BY <3>2
    <3>9. broken \in BOOLEAN
      BY <3>2
    <3> QED BY <3>3, <3>4, <3>5, <3>6, <3>7, <3>8, <3>9 DEF TypeOK
  <2>2. ServedAlone /\ RunningIsServed
    BY DEF Init, ServedAlone, RunningIsServed, Served
  <2>3. PipeOfServed
    BY CommandsAreNotNone DEF Init, PipeOfServed
  <2>4. DrainingHolds
    BY DEF Init, DrainingHolds
  <2> QED BY <2>1, <2>2, <2>3, <2>4 DEF Lives
<1>2. Lives /\ [Next]_vars => Lives'
  <2> SUFFICES ASSUME Lives, [Next]_vars PROVE Lives'
    OBVIOUS
  <2>1. CASE \E c \in Commands : \/ Prepare(c) \/ Start(c) \/ Activate(c) \/ Exits(c)
                                 \/ Interrupted(c) \/ Finish(c) \/ Dropped(c) \/ Settle(c)
    BY <2>1, LivesCommands
  <2>2. CASE \E o \in Operations : Refused(o) \/ Write(o) \/ DrainReturns(o) \/ DrainRaises(o) \/ Close(o)
    BY <2>2, LivesOperations
  <2>3. CASE UNCHANGED vars
    BY <2>3 DEF vars, commands, inputs, history, Lives, TypeOK, ServedAlone, PipeOfServed,
       RunningIsServed, DrainingHolds, Of
  <2> QED BY <2>1, <2>2, <2>3 DEF Next
<1> QED BY <1>1, <1>2, PTL DEF Spec

\* Type correctness of the input of every command.
THEOREM TypeCorrectness == Spec => []TypeOK
<1>1. Lives => TypeOK
  BY DEF Lives
<1> QED BY <1>1, LivesInvariance, PTL
\* The chunk that a step of operation o hands to the pipe: its first one, on the
\* pipe of its own command, or the next one of a submission that is suspended.
NextChunk(o, chunk) ==
  \/ op[o] = "called" /\ chunk = 1 /\ writer[Of(o)] = None /\ stdin = Of(o)
  \/ op[o] = "draining" /\ chunk = sent[o] + 1

Hands(o, chunk) ==
  /\ written' = Append(written, [by |-> o, chunk |-> chunk, to |-> stdin])
  /\ stdin \in Commands
  /\ Of(o) \notin closed
  /\ NextChunk(o, chunk)
  /\ sent' = [sent EXCEPT ![o] = chunk]
  /\ op' = [op EXCEPT ![o] = "draining"]

Silent ==
  /\ written' = written /\ sent' = sent
  /\ \A p \in Operations : op'[p] \in {"called", "draining"} => op'[p] = op[p]

LEMMA SendHands ==
  ASSUME Lives, NEW o \in Operations, NEW chunk \in Nat, SendChunk(o, chunk),
         Of(o) \notin closed, stdin # None => NextChunk(o, chunk)
  PROVE  Silent \/ Hands(o, chunk)
<1>1. CASE stdin = None
  BY <1>1 DEF SendChunk, Ends, Silent, Lives, TypeOK
<1>2. CASE stdin # None
  BY <1>2 DEF SendChunk, Hands, Lives, TypeOK
<1> QED BY <1>1, <1>2

\* Every step writes one such chunk or nothing.
LEMMA StepWrites ==
  ASSUME Lives, [Next]_vars
  PROVE  Silent \/ \E o \in Operations, chunk \in Nat : Hands(o, chunk)
<1> USE OfCommand
<1>1. CASE \E c \in Commands : \/ Prepare(c) \/ Start(c) \/ Activate(c) \/ Exits(c)
                               \/ Interrupted(c) \/ Finish(c) \/ Dropped(c) \/ Settle(c)
  BY <1>1, LivesCommands DEF inputs, history, Silent
<1>2. ASSUME NEW o \in Operations, Refused(o) \/ DrainRaises(o) \/ Close(o)
      PROVE  Silent
  BY <1>2 DEF Refused, DrainRaises, Close, Ends, history, Silent, Lives, TypeOK
<1>3. ASSUME NEW o \in Operations, Write(o)
      PROVE  Silent \/ Hands(o, 1)
  <2>1. op[o] = "called" /\ writer[Of(o)] = None /\ Of(o) \notin closed
        /\ handle_state[Of(o)] = "running" /\ SendChunk(o, 1) /\ 1 \in Nat
    BY <1>3 DEF Write, MayStart, Refuses
  <2>2. stdin # None => stdin = Of(o)
    BY <2>1 DEF Lives, TypeOK, ServedAlone, PipeOfServed, RunningIsServed, Served
  <2> QED BY <2>1, <2>2, SendHands DEF NextChunk
<1>4. ASSUME NEW o \in Operations, DrainReturns(o)
      PROVE  Silent \/ Hands(o, sent[o] + 1)
  <2>1. op[o] = "draining" /\ Of(o) \notin closed /\ sent[o] + 1 \in Nat
    BY <1>4 DEF DrainReturns, Lives, TypeOK, DrainingHolds
  <2>2. CASE SendChunk(o, sent[o] + 1)
    BY <2>1, <2>2, SendHands DEF NextChunk
  <2>3. CASE Ends(o, "done") /\ UNCHANGED <<written, sent>>
    BY <2>3 DEF Ends, Silent, Lives, TypeOK
  <2> QED BY <1>4, <2>2, <2>3 DEF DrainReturns
<1>5. ASSUME NEW o \in Operations
      PROVE  1 \in Nat /\ sent[o] + 1 \in Nat
  BY DEF Lives, TypeOK
<1>6. CASE UNCHANGED vars
  BY <1>6 DEF vars, inputs, history, Silent
<1> QED BY <1>1, <1>2, <1>3, <1>4, <1>5, <1>6 DEF Next

LEMMA LogTypes ==
  ASSUME Lives
  PROVE  /\ Len(written) \in Nat /\ DOMAIN written = 1 .. Len(written)
         /\ \A i \in DOMAIN written :
              written[i].by \in Operations /\ written[i].chunk \in Nat
<1> DEFINE Entries == [by : Operations, chunk : Nat, to : Commands]
<1>1. written \in Seq(Entries)
  BY DEF Lives, TypeOK
<1>2. /\ Len(written) \in Nat /\ DOMAIN written = 1 .. Len(written)
      /\ \A i \in DOMAIN written : written[i] \in Entries
  <2> HIDE DEF Entries
  <2> QED BY <1>1
<1> QED BY <1>2

\* What a chunk does to the log.
LEMMA Appended ==
  ASSUME Lives, NEW o \in Operations, NEW chunk \in Nat, Hands(o, chunk)
  PROVE  LET new == Len(written) + 1
         IN /\ Len(written) \in Nat
            /\ DOMAIN written = 1 .. Len(written) /\ DOMAIN written' = 1 .. new
            /\ \A i \in DOMAIN written : written'[i] = written[i] /\ written[i].by \in Operations
            /\ written'[new].by = o /\ written'[new].chunk = chunk /\ written'[new].to = stdin
<1> DEFINE entry == [by |-> o, chunk |-> chunk, to |-> stdin]
           Entries == [by : Operations, chunk : Nat, to : Commands]
<1>1. entry \in Entries /\ written \in Seq(Entries) /\ written' = Append(written, entry)
  BY DEF Hands, Lives, TypeOK
<1>2. /\ Len(written) \in Nat
      /\ DOMAIN written = 1 .. Len(written) /\ DOMAIN written' = 1 .. Len(written) + 1
      /\ \A i \in DOMAIN written : written'[i] = written[i] /\ written[i] \in Entries
      /\ written'[Len(written) + 1] = entry
  <2> HIDE DEF entry, Entries
  <2> QED BY <1>1
<1> QED BY <1>2

\* What fits one transport step is never misdirected: the state of the handle,
\* read before the first chunk, speaks for the driver's pipe.
THEOREM FirstChunk == Spec => []FirstChunkIsOwn
<1>1. Init => FirstChunkIsOwn
  BY DEF Init, FirstChunkIsOwn
<1>2. FirstChunkIsOwn /\ Lives /\ [Next]_vars => FirstChunkIsOwn'
  <2> SUFFICES ASSUME FirstChunkIsOwn, Lives, [Next]_vars PROVE FirstChunkIsOwn'
    OBVIOUS
  <2>1. CASE Silent
    BY <2>1 DEF Silent, FirstChunkIsOwn, Of
  <2>2. ASSUME NEW o \in Operations, NEW chunk \in Nat, Hands(o, chunk)
        PROVE  FirstChunkIsOwn'
    <3>1. chunk = 1 => stdin = Of(o)
      BY <2>2 DEF Hands, NextChunk, Lives, TypeOK, DrainingHolds
    <3> QED BY <2>2, <3>1, Appended DEF FirstChunkIsOwn, Of
  <2> QED BY <2>1, <2>2, StepWrites
<1> QED BY <1>1, <1>2, LivesInvariance, PTL DEF Spec

\* Nothing follows the end of input of a command.
THEOREM EndOfInput == Spec => ClosedIsFinal
<1> DEFINE Quiet == \A i \in DOMAIN written' :
                      i > Len(written) => Of(written'[i].by) \notin closed
<1>1. Lives /\ [Next]_vars => Quiet
  <2> SUFFICES ASSUME Lives, [Next]_vars PROVE Quiet
    OBVIOUS
  <2>1. CASE Silent
    <3>1. Len(written) \in Nat /\ DOMAIN written = 1 .. Len(written)
      BY LogTypes
    <3> QED BY <2>1, <3>1 DEF Silent
  <2>2. ASSUME NEW o \in Operations, NEW chunk \in Nat, Hands(o, chunk)
        PROVE  Quiet
    BY <2>2, Appended DEF Hands
  <2> QED BY <2>1, <2>2, StepWrites
<1> QED BY <1>1, LivesInvariance, PTL DEF Spec, ClosedIsFinal

\* One logical writer: between two chunks of a submission nothing else of its
\* command is written, and each chunk is written once, in order.
THEOREM OneWriter == Spec => []SubmissionsAreWhole
<1>1. Init => Whole
  BY DEF Init, Whole, SubmissionsAreWhole, LogIsOrdered
<1>2. Whole /\ Lives /\ [Next]_vars => Whole'
  <2> SUFFICES ASSUME Whole, Lives, [Next]_vars PROVE Whole'
    OBVIOUS
  <2>1. CASE Silent
    <3>1. \A i \in DOMAIN written : i \in Nat /\ written[i].by \in Operations
      BY LogTypes
    <3>2. SubmissionsAreWhole'
      BY <2>1 DEF Silent, Whole, SubmissionsAreWhole, Of
    <3>3. LogIsOrdered'
      BY <2>1, <3>1 DEF Silent, Whole, LogIsOrdered, Of
    <3> QED BY <3>2, <3>3 DEF Whole
  <2>2. ASSUME NEW o \in Operations, NEW chunk \in Nat, Hands(o, chunk)
        PROVE  Whole'
    <3> DEFINE new == Len(written) + 1
    <3>1. /\ new \in Nat /\ DOMAIN written = 1 .. Len(written) /\ DOMAIN written' = 1 .. new
          /\ \A i \in DOMAIN written : written'[i] = written[i] /\ written[i].by \in Operations
          /\ written'[new].by = o /\ written'[new].chunk = chunk
      BY <2>2, Appended
    <3>2. \A i \in DOMAIN written' : i = new \/ (i \in DOMAIN written /\ i < new)
      BY <3>1
    \* An earlier chunk of the same operation has a lower number.
    <3>3. \A i \in DOMAIN written : written[i].by = o =>
            written[i].chunk < chunk /\ op[o] = "draining"
      <4>1. \A i \in DOMAIN written : /\ written[i].chunk \in Nat
                                      /\ op[written[i].by] # "called"
                                      /\ written[i].chunk <= sent[written[i].by]
        BY LogTypes DEF Whole, LogIsOrdered
      <4>2. sent[o] \in Nat
        BY DEF Lives, TypeOK
      <4> QED BY <2>2, <4>1, <4>2 DEF Hands, NextChunk
    \* Nobody else of the command is suspended in a submission.
    <3>4. \A p \in Operations : p # o /\ Of(p) = Of(o) => op[p] # "draining"
      BY <2>2, OfCommand DEF Hands, NextChunk, Lives, DrainingHolds
    <3>5. /\ \A p \in Operations \ {o} : op'[p] = op[p] /\ sent'[p] = sent[p]
          /\ op'[o] = "draining" /\ sent'[o] = chunk
      BY <2>2 DEF Hands, NextChunk, Lives, TypeOK
    <3>6. SubmissionsAreWhole'
      <4> SUFFICES ASSUME NEW i \in DOMAIN written', NEW j \in DOMAIN written', i < j,
                          Of(written'[i].by) = Of(written'[j].by)
                   PROVE  IF written'[i].by = written'[j].by
                          THEN written'[i].chunk < written'[j].chunk
                          ELSE \A k \in DOMAIN written' : k > j => written'[k].by # written'[i].by
        BY DEF SubmissionsAreWhole, Of
      <4>1. i \in DOMAIN written /\ written'[i] = written[i]
        BY <3>1, <3>2
      <4>2. CASE j = new
        BY <3>1, <3>2, <3>3, <4>1, <4>2
      <4>3. CASE j \in DOMAIN written
        <5>1. written'[j] = written[j]
          BY <3>1, <4>3
        <5>2. CASE written[i].by = written[j].by
          BY <4>1, <4>3, <5>1, <5>2 DEF Whole, SubmissionsAreWhole
        <5>3. CASE written[i].by # written[j].by
          <6>1. op[written[i].by] # "draining"
            BY <4>1, <4>3, <5>1, <5>3 DEF Whole, LogIsOrdered
          <6>2. written[i].by # o
            BY <3>3, <4>1, <6>1
          <6>3. \A k \in DOMAIN written : k > j => written[k].by # written[i].by
            BY <4>1, <4>3, <5>1, <5>3 DEF Whole, SubmissionsAreWhole
          <6> QED BY <3>1, <3>2, <4>1, <5>1, <5>3, <6>2, <6>3
        <5> QED BY <5>2, <5>3
      <4> QED BY <3>2, <4>2, <4>3
    <3>7. LogIsOrdered'
      <4>1. ASSUME NEW i \in DOMAIN written'
            PROVE  op'[written'[i].by] # "called" /\ written'[i].chunk <= sent'[written'[i].by]
        <5>1. CASE i = new
          BY <3>1, <3>5, <5>1
        <5>2. CASE i \in DOMAIN written /\ written[i].by = o
          BY <3>1, <3>3, <3>5, <5>2, LogTypes
        <5>3. CASE i \in DOMAIN written /\ written[i].by # o
          BY <3>1, <3>5, <5>3 DEF Whole, LogIsOrdered
        <5> QED BY <3>2, <5>1, <5>2, <5>3
      <4>2. ASSUME NEW i \in DOMAIN written', NEW j \in DOMAIN written', i < j
            PROVE  IF written'[i].by = written'[j].by
                   THEN written'[i].chunk < written'[j].chunk
                   ELSE Of(written'[i].by) = Of(written'[j].by) =>
                          op'[written'[i].by] # "draining"
        <5>1. i \in DOMAIN written /\ written'[i] = written[i] /\ written[i].by \in Operations
          BY <3>1, <3>2, <4>2
        <5>2. CASE j = new
          BY <3>1, <3>3, <3>4, <3>5, <5>1, <5>2
        <5>3. CASE j \in DOMAIN written
          <6>1. written'[j] = written[j]
            BY <3>1, <5>3
          <6>2. CASE written[i].by = written[j].by
            BY <4>2, <5>1, <5>3, <6>1, <6>2 DEF Whole, LogIsOrdered
          <6>3. CASE written[i].by # written[j].by
            <7>1. Of(written[i].by) = Of(written[j].by) => op[written[i].by] # "draining"
              BY <4>2, <5>1, <5>3, <6>3 DEF Whole, LogIsOrdered
            <7>2. written[i].by = o => op[o] = "draining"
              BY <3>3, <5>1
            <7> QED BY <3>5, <5>1, <6>1, <6>3, <7>1, <7>2
          <6> QED BY <6>2, <6>3
        <5> QED BY <3>2, <5>2, <5>3
      <4> QED BY <4>1, <4>2 DEF LogIsOrdered, Of
    <3> QED BY <3>6, <3>7 DEF Whole
  <2> QED BY <2>1, <2>2, StepWrites
<1>3. Whole => SubmissionsAreWhole
  BY DEF Whole
<1> QED BY <1>1, <1>2, <1>3, LivesInvariance, PTL DEF Spec
-----------------------------------------------------------------------------
(* What the summary of a command's input counts. *)

Chunks(c) == {i \in DOMAIN written : Of(written[i].by) = c}

Failed(c) == {o \in Operations : Of(o) = c /\ op[o] \in {"failed", "aborted", "crashed"}}

\* The chunk that a suspended writer waits for is written and not counted yet,
\* the chunks after it are accepted and not written yet.
Pending(c, o) ==
  /\ sent[o] <= Calls[o].chunks
  /\ submitted[c] + 1 <= Cardinality(Chunks(c))
  /\ input_state[c] # "submitted"
  /\ Failed(c) = {} => accepted[c] + sent[o] = submitted[c] + Calls[o].chunks + 1

Balanced(c) ==
  /\ submitted[c] <= Cardinality(Chunks(c))
  /\ Failed(c) = {} => submitted[c] = accepted[c]

Accounts(c) ==
  /\ \A o \in Operations : Of(o) = c /\ op[o] = "draining" => Pending(c, o)
  /\ (\A o \in Operations : Of(o) = c => op[o] # "draining") => Balanced(c)

LEMMA ChunksAreFinite ==
  ASSUME Lives, NEW c \in Commands
  PROVE  IsFiniteSet(Chunks(c)) /\ Cardinality(Chunks(c)) \in Nat
<1>1. Len(written) \in Nat /\ DOMAIN written = 1 .. Len(written)
  BY LogTypes
<1>2. IsFiniteSet(1 .. Len(written)) /\ Chunks(c) \in SUBSET (1 .. Len(written))
  BY <1>1, FS_Interval DEF Chunks
<1>3. IsFiniteSet(Chunks(c))
  BY <1>2, FS_Subset
<1> QED BY <1>3, FS_CardinalityType

LEMMA ChunkCounts ==
  ASSUME Lives, NEW o \in Operations, NEW chunk \in Nat, Hands(o, chunk), NEW c \in Commands
  PROVE  Cardinality(Chunks(c)') = IF c = Of(o) THEN Cardinality(Chunks(c)) + 1
                                   ELSE Cardinality(Chunks(c))
<1> DEFINE new == Len(written) + 1
<1>1. /\ Len(written) \in Nat /\ DOMAIN written = 1 .. Len(written) /\ DOMAIN written' = 1 .. new
      /\ \A i \in DOMAIN written : written'[i] = written[i]
      /\ written'[new].by = o
  BY Appended
<1>2. /\ \A i \in 1 .. new : i \in 1 .. Len(written) \/ i = new
      /\ new \notin 1 .. Len(written) /\ new \in 1 .. new
      /\ \A i \in 1 .. Len(written) : i \in 1 .. new
  BY <1>1
<1>3. CASE c = Of(o)
  <2>1. Chunks(c)' = Chunks(c) \cup {new} /\ new \notin Chunks(c)
    <3> HIDE DEF new
    <3> QED BY <1>1, <1>2, <1>3 DEF Chunks, Of
  <2> HIDE DEF new
  <2> QED BY <1>3, <2>1, ChunksAreFinite, FS_AddElement
<1>4. CASE c # Of(o)
  <2>1. Chunks(c)' = Chunks(c)
    <3> HIDE DEF new
    <3> QED BY <1>1, <1>2, <1>4 DEF Chunks, Of
  <2> QED BY <1>4, <2>1
<1> QED BY <1>3, <1>4

\* A step that leaves a command's operations and counts alone.
Untouched(c) ==
  /\ \A o \in Operations : Of(o) = c =>
       /\ sent'[o] = sent[o]
       /\ op'[o] \in {"called", "draining", "failed", "aborted", "crashed"} => op'[o] = op[o]
       /\ op[o] \in {"draining", "failed", "aborted", "crashed"} => op'[o] = op[o]
  /\ accepted'[c] = accepted[c] /\ submitted'[c] = submitted[c] /\ input_state'[c] = input_state[c]
  /\ Cardinality(Chunks(c)') = Cardinality(Chunks(c))

LEMMA UntouchedAccounts ==
  ASSUME Lives, NEW c \in Commands, Accounts(c), Untouched(c)
  PROVE  Accounts(c)'
<1>1. Failed(c)' = Failed(c)
  BY DEF Failed, Untouched, Of
<1> QED BY <1>1 DEF Accounts, Pending, Balanced, Untouched, Of

\* An operation changes its own command's counts only.
LEMMA OtherCommands ==
  ASSUME Lives, NEW o \in Operations, NEW c \in Commands, c # Of(o),
         Refused(o) \/ Write(o) \/ DrainReturns(o) \/ DrainRaises(o) \/ Close(o)
  PROVE  Untouched(c)
<1> USE OfCommand
<1>1. Cardinality(Chunks(c)') = Cardinality(Chunks(c))
  <2>1. [Next]_vars
    BY DEF Next
  <2>2. CASE Silent
    BY <2>2 DEF Silent, Chunks, Of
  <2>3. ASSUME NEW p \in Operations, NEW chunk \in Nat, Hands(p, chunk), p = o
        PROVE  Cardinality(Chunks(c)') = Cardinality(Chunks(c))
    BY <2>3, ChunkCounts
  <2>4. ASSUME NEW p \in Operations, NEW chunk \in Nat, Hands(p, chunk), p # o
        PROVE  FALSE
    <3>1. op'[p] = op[p] /\ sent'[p] = sent[p]
      BY <2>4 DEF Refused, Write, DrainReturns, DrainRaises, Close, SendChunk, Ends, Lives, TypeOK
    <3> QED BY <2>4, <3>1 DEF Hands, NextChunk, Lives, TypeOK
  <2> QED BY <2>1, <2>2, <2>3, <2>4, StepWrites
<1>2. /\ \A p \in Operations : Of(p) = c => op'[p] = op[p] /\ sent'[p] = sent[p]
      /\ accepted'[c] = accepted[c] /\ submitted'[c] = submitted[c] /\ input_state'[c] = input_state[c]
  BY DEF Refused, Write, DrainReturns, DrainRaises, Close, SendChunk, Ends, Lives, TypeOK
<1> QED BY <1>1, <1>2 DEF Untouched
\* A writer that starts finds nobody of its command suspended; one that is
\* suspended is the only one.
LEMMA OneDrains ==
  ASSUME Lives, NEW o \in Operations, NEW p \in Operations, Of(p) = Of(o), op[p] = "draining"
  PROVE  writer[Of(o)] # None /\ (op[o] = "draining" => p = o)
BY OfCommand DEF Lives, DrainingHolds

LEMMA OwnWrite ==
  ASSUME Lives, Lives', NEW o \in Operations, Accounts(Of(o)), Write(o)
  PROVE  Accounts(Of(o))'
<1> DEFINE c == Of(o)
<1>0. /\ c \in Commands /\ c = Of(o) /\ Calls[o].chunks \in Nat \ {0}
      /\ \A p \in Operations : Of(p)' = Of(p) /\ Calls' = Calls
  BY OfCommand, StdinAssumption DEF Write, Closes, Of
<1>1. /\ op[o] = "called" /\ writer[c] = None /\ SendChunk(o, 1) /\ 1 \in Nat
      /\ handle_state[c] = "running" /\ c \notin closed
  BY DEF Write, MayStart, Refuses
<1>2. /\ accepted' = [accepted EXCEPT ![c] = @ + Calls[o].chunks]
      /\ input_state' = [input_state EXCEPT ![c] = "accepted"] /\ submitted' = submitted
  BY DEF Write
<1>3. /\ accepted'[c] = accepted[c] + Calls[o].chunks /\ input_state'[c] = "accepted"
      /\ submitted'[c] = submitted[c] /\ accepted[c] \in Nat /\ submitted[c] \in Nat
  BY <1>0, <1>2 DEF Lives, TypeOK
<1>4. Balanced(c)
  BY <1>1, OneDrains DEF Accounts
<1>5. Cardinality(Chunks(c)) \in Nat
  BY <1>0, ChunksAreFinite
<1>6. CASE stdin = None
  <2>1. /\ op' = [op EXCEPT ![o] = "crashed"] /\ written' = written
    BY <1>1, <1>6 DEF SendChunk, Ends
  <2>2. op'[o] = "crashed" /\ \A p \in Operations : op'[p] = "draining" => op[p] = "draining"
    BY <2>1 DEF Lives, TypeOK
  <2>3. o \in Failed(c)' /\ Chunks(c)' = Chunks(c)
    BY <2>1, <2>2 DEF Failed, Chunks, Of
  <2>4. Balanced(c)'
    BY <1>3, <1>4, <2>3 DEF Balanced
  <2>5. \A p \in Operations : Of(p) = c => op'[p] # "draining"
    BY <1>1, <2>2, OneDrains
  <2> QED BY <1>0, <2>4, <2>5 DEF Accounts
<1>7. CASE stdin # None
  <2>1. Hands(o, 1)
    <3>1. stdin = c
      BY <1>0, <1>1, <1>7 DEF Lives, TypeOK, ServedAlone, PipeOfServed, RunningIsServed, Served
    <3>2. NextChunk(o, 1)
      BY <1>1, <3>1 DEF NextChunk
    <3> QED BY <1>1, <1>7, <3>2 DEF SendChunk, Hands, Lives, TypeOK
  <2>2. Cardinality(Chunks(c)') = Cardinality(Chunks(c)) + 1
    BY <1>0, <1>1, <2>1, ChunkCounts
  <2>3. /\ op'[o] = "draining" /\ sent'[o] = 1
        /\ \A p \in Operations : p # o => op'[p] = op[p] /\ sent'[p] = sent[p]
    BY <2>1 DEF Hands, Lives, TypeOK
  <2>4. Failed(c)' = Failed(c)
    BY <1>1, <2>3 DEF Failed, Of
  <2>5. Pending(c, o)'
    <3>1. Failed(c)' = {} => accepted'[c] + 1 = submitted'[c] + Calls[o].chunks + 1
      BY <1>0, <1>3, <1>4, <2>4 DEF Balanced
    <3>2. submitted'[c] + 1 <= Cardinality(Chunks(c)')
      BY <1>3, <1>4, <1>5, <2>2 DEF Balanced
    <3> QED BY <1>0, <1>3, <2>3, <3>1, <3>2 DEF Pending
  <2>6. \A p \in Operations : Of(p) = c /\ op'[p] = "draining" => p = o
    BY <1>1, <2>3, OneDrains
  <2> QED BY <1>0, <2>3, <2>5, <2>6 DEF Accounts
<1> QED BY <1>6, <1>7

LEMMA OwnDrainReturns ==
  ASSUME Lives, NEW o \in Operations, Accounts(Of(o)), DrainReturns(o)
  PROVE  Accounts(Of(o))'
<1> DEFINE c == Of(o)
<1>0. /\ c \in Commands /\ c = Of(o) /\ Calls[o].chunks \in Nat /\ sent[o] \in Nat
      /\ \A p \in Operations : Of(p)' = Of(p)
  BY OfCommand, StdinAssumption DEF Of, Lives, TypeOK
<1>1. /\ op[o] = "draining" /\ c \notin closed /\ Pending(c, o)
      /\ \A p \in Operations : Of(p) = c /\ op[p] = "draining" => p = o
  BY OneDrains DEF DrainReturns, Accounts, Lives, DrainingHolds
<1>2. /\ submitted'[c] = submitted[c] + 1 /\ submitted[c] \in Nat
      /\ accepted'[c] = accepted[c] /\ accepted[c] \in Nat
  BY <1>0 DEF DrainReturns, Lives, TypeOK
<1>3. Cardinality(Chunks(c)) \in Nat
  BY <1>0, ChunksAreFinite
<1>4. CASE sent[o] < Calls[o].chunks /\ stdin # None
  <2>1. Hands(o, sent[o] + 1)
    <3>1. SendChunk(o, sent[o] + 1) /\ NextChunk(o, sent[o] + 1)
      BY <1>1, <1>4 DEF DrainReturns, NextChunk
    <3> QED BY <1>1, <1>4, <3>1 DEF SendChunk, Hands, Lives, TypeOK
  <2>2. Cardinality(Chunks(c)') = Cardinality(Chunks(c)) + 1
    BY <1>0, <2>1, ChunkCounts
  <2>3. /\ op'[o] = "draining" /\ sent'[o] = sent[o] + 1
        /\ \A p \in Operations : p # o => op'[p] = op[p] /\ sent'[p] = sent[p]
    BY <2>1 DEF Hands, Lives, TypeOK
  <2>4. Failed(c)' = Failed(c)
    BY <1>1, <2>3 DEF Failed, Of
  <2>5. input_state'[c] = "partially_submitted"
    BY <1>0, <1>4 DEF DrainReturns, Lives, TypeOK
  <2>6. Pending(c, o)'
    <3>1. Failed(c)' = {} => accepted'[c] + sent'[o] = submitted'[c] + Calls[o].chunks + 1
      BY <1>0, <1>1, <1>2, <2>3, <2>4 DEF Pending
    <3>2. submitted'[c] + 1 <= Cardinality(Chunks(c)')
      BY <1>1, <1>2, <1>3, <2>2 DEF Pending
    <3>3. sent'[o] <= Calls[o].chunks
      BY <1>0, <1>4, <2>3
    <3> QED BY <2>5, <3>1, <3>2, <3>3 DEF Pending
  <2>7. \A p \in Operations : Of(p) = c /\ op'[p] = "draining" => p = o
    BY <1>1, <2>3
  <2> QED BY <1>0, <2>3, <2>6, <2>7 DEF Accounts
<1>5. CASE ~(sent[o] < Calls[o].chunks) \/ stdin = None
  <2>1. /\ op'[o] = IF sent[o] < Calls[o].chunks THEN "crashed" ELSE "done"
        /\ \A p \in Operations : p # o => op'[p] = op[p]
        /\ written' = written
    BY <1>5 DEF DrainReturns, SendChunk, Ends, Lives, TypeOK
  <2>2. Chunks(c)' = Chunks(c)
    BY <2>1 DEF Chunks, Of
  <2>3. \A p \in Operations : Of(p) = c => op'[p] # "draining"
    BY <1>1, <2>1
  <2>4. Failed(c)' = {} => ~(sent[o] < Calls[o].chunks) /\ Failed(c) = {}
    <3>1. sent[o] < Calls[o].chunks => o \in Failed(c)'
      BY <2>1 DEF Failed, Of
    <3>2. Failed(c) \subseteq Failed(c)'
      BY <1>1, <2>1 DEF Failed, Of
    <3> QED BY <3>1, <3>2
  <2>5. Failed(c)' = {} => submitted'[c] = accepted'[c]
    BY <1>0, <1>1, <1>2, <2>4 DEF Pending
  <2>6. submitted'[c] <= Cardinality(Chunks(c)')
    BY <1>1, <1>2, <2>2 DEF Pending
  <2> QED BY <1>0, <2>3, <2>5, <2>6 DEF Accounts, Balanced
<1> QED BY <1>4, <1>5

LEMMA OwnOther ==
  ASSUME Lives, NEW o \in Operations, Accounts(Of(o)), Refused(o) \/ DrainRaises(o) \/ Close(o)
  PROVE  Accounts(Of(o))'
<1> DEFINE c == Of(o)
<1>0. /\ c \in Commands /\ c = Of(o) /\ \A p \in Operations : Of(p)' = Of(p)
  BY OfCommand DEF Of
<1>1. UNCHANGED <<sent, accepted, submitted, written>> /\ Chunks(c)' = Chunks(c)
  BY DEF Refused, DrainRaises, Close, history, Chunks, Of
<1>2. Cardinality(Chunks(c)) \in Nat /\ submitted[c] \in Nat
  BY <1>0, ChunksAreFinite DEF Lives, TypeOK
<1>3. CASE DrainRaises(o)
  <2>1. /\ op[o] = "draining" /\ op'[o] \in {"failed", "aborted"}
        /\ \A p \in Operations : p # o => op'[p] = op[p]
    BY <1>3 DEF DrainRaises, Ends, Lives, TypeOK
  <2>2. o \in Failed(c)' /\ Pending(c, o)
    BY <2>1 DEF Failed, Of, Accounts
  <2>3. \A p \in Operations : Of(p) = c => op'[p] # "draining"
    BY <2>1, OneDrains
  <2>4. Balanced(c)'
    BY <1>1, <1>2, <2>2 DEF Balanced, Pending
  <2> QED BY <1>0, <2>3, <2>4 DEF Accounts
<1>4. CASE Refused(o) \/ Close(o)
  <2>1. /\ op[o] = "called" /\ op'[o] \in {"refused", "crashed", "done"}
        /\ \A p \in Operations : p # o => op'[p] = op[p]
        /\ input_state' = input_state
    BY <1>4 DEF Refused, Close, MayStart, Lives, TypeOK
  <2>2. Failed(c) \subseteq Failed(c)'
    BY <2>1 DEF Failed, Of
  <2>3. \A p \in Operations : op'[p] = "draining" <=> op[p] = "draining"
    BY <2>1
  <2>4. Balanced(c) => Balanced(c)'
    BY <1>1, <2>2 DEF Balanced
  <2>5. \A p \in Operations : Pending(c, p) => Pending(c, p)'
    BY <1>1, <2>1, <2>2 DEF Pending
  <2> QED BY <1>0, <2>3, <2>4, <2>5 DEF Accounts
<1> QED BY <1>3, <1>4

\* The summary never claims more than was written, and "submitted" stands for
\* everything that was accepted unless an operation has failed.
THEOREM HonestSummary == Spec => []SummaryIsHonest
<1> DEFINE Audited == \A c \in Commands : Accounts(c)
<1>1. Init => Audited
  <2> SUFFICES ASSUME Init, NEW c \in Commands PROVE Accounts(c)
    OBVIOUS
  <2>1. Chunks(c) = {} /\ submitted[c] = 0 /\ accepted[c] = 0
    BY DEF Init, Chunks
  <2>2. Balanced(c)
    BY <2>1, FS_EmptySet DEF Balanced
  <2> QED BY <2>2 DEF Init, Accounts
<1>2. Audited /\ Lives /\ Lives' /\ [Next]_vars => Audited'
  <2> SUFFICES ASSUME Audited, Lives, Lives', [Next]_vars, NEW c \in Commands PROVE Accounts(c)'
    OBVIOUS
  <2>0. Accounts(c)
    OBVIOUS
  <2>1. ASSUME NEW d \in Commands, \/ Prepare(d) \/ Start(d) \/ Activate(d) \/ Exits(d)
                                   \/ Interrupted(d) \/ Finish(d) \/ Dropped(d) \/ Settle(d)
        PROVE  UNCHANGED <<inputs, history>>
    BY <2>1, LivesCommands
  <2>2. UNCHANGED vars => UNCHANGED <<inputs, history>>
    BY DEF vars
  <2>3. CASE UNCHANGED <<inputs, history>>
    <3>1. Untouched(c)
      BY <2>3 DEF inputs, history, Untouched, Chunks, Of
    <3> QED BY <2>0, <3>1, UntouchedAccounts
  <2>4. ASSUME NEW o \in Operations,
               Refused(o) \/ Write(o) \/ DrainReturns(o) \/ DrainRaises(o) \/ Close(o)
        PROVE  Accounts(c)'
    <3>1. CASE c # Of(o)
      BY <2>0, <2>4, <3>1, OtherCommands, UntouchedAccounts
    <3>2. CASE c = Of(o)
      <4>1. Accounts(Of(o))'
        BY <2>0, <2>4, <3>2, OwnWrite, OwnDrainReturns, OwnOther
      <4> QED BY <3>2, <4>1 DEF Of
    <3> QED BY <3>1, <3>2
  <2> QED BY <2>1, <2>2, <2>3, <2>4 DEF Next
<1>3. Audited /\ Lives => SummaryIsHonest
  <2> SUFFICES ASSUME Audited, Lives, NEW c \in Commands
               PROVE  /\ submitted[c] <= Cardinality(Chunks(c))
                      /\ input_state[c] = "submitted" /\ Failed(c) = {} => submitted[c] = accepted[c]
    BY DEF SummaryIsHonest, Summary, Chunks, Failed
  <2>1. Accounts(c) /\ Cardinality(Chunks(c)) \in Nat /\ submitted[c] \in Nat
    BY ChunksAreFinite DEF Lives, TypeOK
  <2> QED BY <2>1 DEF Accounts, Pending, Balanced
<1> QED BY <1>1, <1>2, <1>3, LivesInvariance, PTL DEF Spec
=============================================================================
