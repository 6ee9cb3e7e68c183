----------------------------- MODULE OutputHub -----------------------------
(***************************************************************************)
(* The fan-out of one command's output (frontend/output.py): subscribers   *)
(* with bounded queues, and expectations that match a literal in a rolling *)
(* window of each stream.                                                  *)
(*                                                                         *)
(* publish, finish and one pass of the loop in expect run without          *)
(* suspension, so each is an action.  expect clears the shared event right *)
(* before it scans and waits right after, so the event's flag is never set *)
(* when it waits: only the set of those it wakes matters.                  *)
(***************************************************************************)
EXTENDS Integers, Sequences

CONSTANTS
  Chunks,               \* the chunks that a stream delivers: sequences of bytes
  Calls,                \* pattern and stream of each call of expect
  MatchBytes,           \* config.match_bytes
  EventQueue,           \* config.event_queue
  Subscribers,          \* calls of events
  MaxOutput             \* bound: bytes that the command writes

Streams == {"stdout", "stderr"}

Expectations == DOMAIN Calls

Bytes == UNION {{data[i] : i \in DOMAIN data} : data \in Chunks}

ASSUME HubAssumption ==
  /\ MatchBytes \in Nat \ {0} /\ EventQueue \in Nat \ {0} /\ MaxOutput \in Nat
  /\ Chunks \subseteq Seq(Bytes) /\ <<>> \notin Chunks
  /\ \A e \in Expectations :
       /\ Len(Calls[e].pattern) \in 1..MatchBytes
       /\ Calls[e].stream \in Streams \cup {"either"}

VARIABLES
  windows, offsets, cursors,    \* by stream
  sequence,                     \* number of the next event
  closed,
  subscribers,                  \* those publish and finish deliver to
  queue,                        \* the queue of each subscriber
  reader,                       \* the stage of its iterator
  expectation,                  \* the stage of each call of expect
  output, since, received, matches      \* history: what was written, the
                                \* first event each subscriber may see, those
                                \* it got, and the matches found

streams  == <<windows, offsets, cursors, sequence, output>>
readers  == <<subscribers, queue, reader, since, received>>
prompts  == <<expectation, matches>>
vars     == <<streams, closed, readers, prompts>>

Event(n) == [kind |-> "event", number |-> n]
End      == [kind |-> "end",   number |-> 0]
Loss     == [kind |-> "loss",  number |-> 0]       \* OutputSubscriberError

Init ==
  /\ windows = [n \in Streams |-> <<>>]
  /\ offsets = [n \in Streams |-> 0]
  /\ cursors = [n \in Streams |-> 0]
  /\ sequence = 0
  /\ closed = FALSE
  /\ subscribers = {}
  /\ queue = [s \in Subscribers |-> <<>>]
  /\ reader = [s \in Subscribers |-> "created"]
  /\ expectation = [e \in Expectations |-> "called"]
  /\ output = [n \in Streams |-> <<>>]
  /\ since = [s \in Subscribers |-> 0]
  /\ received = [s \in Subscribers |-> <<>>]
  /\ matches = {}
-----------------------------------------------------------------------------
(* publish and finish *)

\* data[-size:]
Latest(data, size) == IF Len(data) <= size THEN data ELSE SubSeq(data, Len(data) - size + 1, Len(data))

\* Mutant: the bound is exceeded by one.
FullTooLate(s) == Len(queue[s]) > EventQueue

Full(s) == Len(queue[s]) >= EventQueue

\* changed.set: everyone who waits scans again.
Woken == [e \in Expectations |-> IF expectation[e] = "waiting" THEN "woken" ELSE expectation[e]]

\* A subscriber whose queue is full loses its events for an error.
Deliver ==
  /\ queue' = [s \in Subscribers |->
       CASE s \notin subscribers          -> queue[s]
         [] s \in subscribers /\ Full(s)  -> <<Loss>>
         [] s \in subscribers /\ ~Full(s) -> Append(queue[s], Event(sequence))]
  /\ subscribers' = {s \in subscribers : ~Full(s)}

\* Mutant: nobody is woken by output.
PublishSilently(n, data) ==
  /\ ~closed
  /\ windows' = [windows EXCEPT ![n] = Latest(@ \o Latest(data, MatchBytes), MatchBytes)]
  /\ offsets' = [offsets EXCEPT ![n] = @ + Len(data)]
  /\ sequence' = sequence + 1
  /\ output' = [output EXCEPT ![n] = @ \o data]
  /\ Deliver
  /\ UNCHANGED <<cursors, closed, reader, since, received, prompts>>

\* The driver's pumps have ended when the hub is finished.
Publish(n, data) ==
  /\ ~closed
  /\ windows' = [windows EXCEPT ![n] = Latest(@ \o Latest(data, MatchBytes), MatchBytes)]
  /\ offsets' = [offsets EXCEPT ![n] = @ + Len(data)]
  /\ sequence' = sequence + 1
  /\ output' = [output EXCEPT ![n] = @ \o data]
  /\ expectation' = Woken
  /\ Deliver
  /\ UNCHANGED <<cursors, closed, reader, since, received, matches>>

\* Mutant: a full queue makes room for the end of the output.
FinishMakesRoom ==
  /\ closed' = TRUE
  /\ expectation' = Woken
  /\ queue' = [s \in Subscribers |->
       IF s \notin subscribers THEN queue[s]
       ELSE Append(IF Full(s) THEN Tail(queue[s]) ELSE queue[s], End)]
  /\ subscribers' = {}
  /\ UNCHANGED <<streams, reader, since, received, matches>>

\* Mutant: a subscriber with a full queue is left alone.
FinishSkipsFull ==
  /\ closed' = TRUE
  /\ expectation' = Woken
  /\ queue' = [s \in Subscribers |->
       IF s \notin subscribers \/ Full(s) THEN queue[s] ELSE Append(queue[s], End)]
  /\ subscribers' = {}
  /\ UNCHANGED <<streams, reader, since, received, matches>>

\* execute_owned calls it as the command ends, run_owned once more.
Finish ==
  /\ closed' = TRUE
  /\ expectation' = Woken
  /\ queue' = [s \in Subscribers |->
       CASE s \notin subscribers          -> queue[s]
         [] s \in subscribers /\ Full(s)  -> Append(Tail(queue[s]), Loss)
         [] s \in subscribers /\ ~Full(s) -> Append(queue[s], End)]
  /\ subscribers' = {}
  /\ UNCHANGED <<streams, reader, since, received, matches>>
-----------------------------------------------------------------------------
(* events *)

\* The first step of the iterator subscribes, unless the output has ended.
Subscribe(s) ==
  /\ reader[s] = "created"
  /\ reader' = [reader EXCEPT ![s] = IF closed THEN "ended" ELSE "subscribed"]
  /\ subscribers' = IF closed THEN subscribers ELSE subscribers \cup {s}
  /\ since' = [since EXCEPT ![s] = sequence]
  /\ UNCHANGED <<streams, closed, queue, received, prompts>>

Take(s) ==
  /\ reader[s] = "subscribed" /\ queue[s] # <<>>
  /\ LET item == Head(queue[s]) IN
       /\ received' = IF item.kind = "event"
                      THEN [received EXCEPT ![s] = Append(@, item.number)] ELSE received
       /\ reader' = [reader EXCEPT ![s] = CASE item.kind = "event" -> @
                                            [] item.kind = "end"   -> "ended"
                                            [] item.kind = "loss"  -> "failed"]
       /\ subscribers' = IF item.kind = "event" THEN subscribers ELSE subscribers \ {s}
  /\ queue' = [queue EXCEPT ![s] = Tail(@)]
  /\ UNCHANGED <<streams, closed, since, prompts>>

\* The iterator is closed, at any time: its queue goes with it.
Leave(s) ==
  /\ reader[s] = "subscribed"
  /\ reader' = [reader EXCEPT ![s] = "left"]
  /\ subscribers' = subscribers \ {s}
  /\ queue' = [queue EXCEPT ![s] = <<>>]
  /\ UNCHANGED <<streams, closed, since, received, prompts>>
-----------------------------------------------------------------------------
(* expect *)

Base(n) == offsets[n] - Len(windows[n])

\* Where window.find(pattern, max(0, cursor - base)) may match, as offsets in
\* the stream.
Hits(n, pattern) ==
  {at \in Base(n)..(offsets[n] - Len(pattern)) :
     /\ at >= cursors[n]
     /\ SubSeq(windows[n], at - Base(n) + 1, at - Base(n) + Len(pattern)) = pattern}

Scanned(e) == IF Calls[e].stream = "either" THEN Streams ELSE {Calls[e].stream}

Found(e) == {n \in Scanned(e) : Hits(n, Calls[e].pattern) # {}}

\* Mutant: the match is consumed relative to the window.
ConsumeInWindow(e, n, at) ==
  /\ cursors' = [cursors EXCEPT ![n] = at - Base(n) + Len(Calls[e].pattern)]
  /\ matches' = matches \cup {[by |-> e, stream |-> n, at |-> at]}

Consume(e, n, at) ==
  /\ cursors' = [cursors EXCEPT ![n] = at + Len(Calls[e].pattern)]
  /\ matches' = matches \cup {[by |-> e, stream |-> n, at |-> at]}

Becomes(e, stage) == expectation' = [expectation EXCEPT ![e] = stage]

\* One pass of the loop finds the first match, in stdout if it has one; or the
\* output has ended; or it waits.
Scan(e) ==
  /\ expectation[e] \in {"called", "woken"}
  /\ \/ \E n \in Found(e) : \E at \in Hits(n, Calls[e].pattern) :
          /\ "stdout" \in Found(e) => n = "stdout"
          /\ \A k \in Hits(n, Calls[e].pattern) : at <= k
          /\ Consume(e, n, at)
          /\ Becomes(e, "matched")
     \/ /\ Found(e) = {}
        /\ Becomes(e, IF closed THEN "refused" ELSE "waiting")
        /\ UNCHANGED <<cursors, matches>>
  /\ UNCHANGED <<windows, offsets, sequence, output, closed, readers>>

\* Its deadline, or its caller's cancellation, also after it was woken.
Expire(e) ==
  /\ expectation[e] \in {"waiting", "woken"}
  /\ Becomes(e, "expired")
  /\ UNCHANGED <<streams, closed, readers, matches>>
-----------------------------------------------------------------------------
Written == Len(output["stdout"]) + Len(output["stderr"])

Next ==
  \/ \E n \in Streams, data \in Chunks : Written + Len(data) <= MaxOutput /\ Publish(n, data)
  \/ Finish
  \/ \E s \in Subscribers : Subscribe(s) \/ Take(s) \/ Leave(s)
  \/ \E e \in Expectations : Scan(e) \/ Expire(e)

Spec == Init /\ [][Next]_vars

\* The loop runs the tasks it woke, and a reader goes on reading.
FairSpec ==
  /\ Spec
  /\ \A s \in Subscribers : WF_vars(Take(s))
  /\ \A e \in Expectations : WF_vars(Scan(e))
-----------------------------------------------------------------------------
Items == [kind : {"event", "end", "loss"}, number : Nat]

StreamTypes ==
  /\ windows \in [Streams -> Seq(Bytes)]
  /\ offsets \in [Streams -> Nat] /\ cursors \in [Streams -> Nat]
  /\ \A n \in Streams : Len(windows[n]) <= MatchBytes /\ Len(windows[n]) <= offsets[n]
  /\ sequence \in Nat
  /\ output \in [Streams -> Seq(Bytes)]

ReaderTypes ==
  /\ closed \in BOOLEAN
  /\ subscribers \subseteq Subscribers
  /\ queue \in [Subscribers -> Seq(Items)]
  /\ \A s \in Subscribers : Len(queue[s]) <= EventQueue
  /\ reader \in [Subscribers -> {"created", "subscribed", "ended", "failed", "left"}]
  /\ since \in [Subscribers -> Nat]
  /\ received \in [Subscribers -> Seq(Nat)]

PromptTypes ==
  expectation \in [Expectations -> {"called", "waiting", "woken", "matched", "refused", "expired"}]

TypeOK == StreamTypes /\ ReaderTypes /\ PromptTypes

\* What a subscriber has taken and what waits for it are in order.
InOrder(s) ==
  /\ \A i, j \in DOMAIN received[s] : i < j => received[s][i] < received[s][j]
  /\ \A j \in DOMAIN queue[s] : queue[s][j].kind = "event" =>
       /\ \A i \in DOMAIN received[s] : received[s][i] < queue[s][j].number
       /\ \A i \in 1..(j - 1) : queue[s][i].number < queue[s][j].number

\* Every event since it subscribed was taken or waits for it.
Complete(s) ==
  LET taken == Len(received[s])
  IN /\ \A i \in DOMAIN received[s] : received[s][i] = since[s] + i - 1
     /\ \A n \in since[s] + taken .. sequence - 1 :
          LET i == n - since[s] - taken + 1
          IN i \in DOMAIN queue[s] /\ queue[s][i] = Event(n)

LossAhead(s) == \E i \in DOMAIN queue[s] : queue[s][i] = Loss

\* A subscriber is never misled: it gets events in order, and unless it is told
\* of a loss it gets every one published since it subscribed, however slow it
\* is and whatever the other subscribers do.
NoSilentLoss ==
  \A s \in Subscribers :
    /\ InOrder(s)
    /\ reader[s] \in {"subscribed", "ended"} /\ ~LossAhead(s) => Complete(s)

\* A match is where the output has the pattern, split over chunks or not, and
\* no byte is matched twice, whatever the window and the cursor have become.
MatchesAreReal ==
  \A m \in matches :
    LET pattern(k) == Calls[k.by].pattern
    IN /\ SubSeq(output[m.stream], m.at + 1, m.at + Len(pattern(m))) = pattern(m)
       /\ \A k \in matches \ {m} :
            k.stream = m.stream =>
              k.at + Len(pattern(k)) <= m.at \/ m.at + Len(pattern(m)) <= k.at

\* No wake-up is lost: an expectation sleeps only while the output goes on and
\* there is nothing for it in the windows, with others clearing the event it
\* waits for.
SleepersHaveNothing ==
  \A e \in Expectations : expectation[e] = "waiting" =>
    /\ ~closed
    /\ Found(e) = {}

\* The end of the output reaches everyone: every reader that goes on reading and
\* every expectation comes to an end.
FinishReleasesEveryone ==
  closed ~> /\ \A s \in Subscribers : reader[s] # "subscribed"
            /\ \A e \in Expectations : expectation[e] \notin {"called", "waiting", "woken"}
=============================================================================
