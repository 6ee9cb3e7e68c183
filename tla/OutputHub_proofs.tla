-------------------------- MODULE OutputHub_proofs --------------------------
(***************************************************************************)
(* Proofs about OutputHub for every bound, every pattern and any number of *)
(* subscribers and expectations: type correctness, with it the bounds of   *)
(* windows and queues; that no wake-up of an expectation is lost; that a   *)
(* subscriber misses nothing unless it is told; and that every match is an *)
(* occurrence of its pattern in the output, no byte of it matched twice.   *)
(***************************************************************************)
EXTENDS OutputHub, SequenceTheorems, TLAPS

LEMMA LatestIsBounded ==
  ASSUME NEW S, NEW data \in Seq(S), NEW size \in Nat
  PROVE  /\ Latest(data, size) \in Seq(S)
         /\ Len(Latest(data, size)) <= size /\ Len(Latest(data, size)) <= Len(data)
<1>1. Len(data) \in Nat
  OBVIOUS
<1>2. CASE Len(data) <= size
  BY <1>1, <1>2 DEF Latest
<1>3. CASE Len(data) > size
  <2> DEFINE first == Len(data) - size + 1
  <2>1. first \in Nat /\ first >= 2 /\ first <= Len(data) + 1
    BY <1>1, <1>3
  <2>2. /\ SubSeq(data, first, Len(data)) \in Seq(S)
        /\ Len(SubSeq(data, first, Len(data))) = Len(data) - first + 1
    BY <1>1, <2>1
  <2>3. Latest(data, size) = SubSeq(data, first, Len(data))
    BY <1>1, <1>3 DEF Latest
  <2> QED BY <1>1, <1>3, <2>2, <2>3
<1> QED BY <1>1, <1>2, <1>3

LEMMA PublishTypes ==
  ASSUME TypeOK, NEW n \in Streams, NEW data \in Chunks, Publish(n, data)
  PROVE  TypeOK'
<1> USE HubAssumption
<1> DEFINE window == Latest(windows[n] \o Latest(data, MatchBytes), MatchBytes)
<1>1. /\ data \in Seq(Bytes) /\ windows[n] \in Seq(Bytes) /\ offsets[n] \in Nat
      /\ Len(data) \in Nat /\ Len(windows[n]) <= offsets[n] /\ output[n] \in Seq(Bytes)
  BY DEF TypeOK, StreamTypes
<1>2. Latest(data, MatchBytes) \in Seq(Bytes) /\ Len(Latest(data, MatchBytes)) <= Len(data)
  BY <1>1, LatestIsBounded
<1>3. /\ windows[n] \o Latest(data, MatchBytes) \in Seq(Bytes)
      /\ Len(windows[n] \o Latest(data, MatchBytes)) = Len(windows[n]) + Len(Latest(data, MatchBytes))
  BY <1>1, <1>2
<1>4. /\ window \in Seq(Bytes) /\ Len(window) <= MatchBytes
      /\ Len(window) <= offsets[n] + Len(data)
  <2> DEFINE both == windows[n] \o Latest(data, MatchBytes)
  <2>1. both \in Seq(Bytes) /\ Len(both) <= Len(windows[n]) + Len(data)
    BY <1>1, <1>2, <1>3
  <2>2. /\ Latest(both, MatchBytes) \in Seq(Bytes) /\ Len(Latest(both, MatchBytes)) <= MatchBytes
        /\ Len(Latest(both, MatchBytes)) <= Len(both)
    <3> HIDE DEF both
    <3> QED BY <2>1, LatestIsBounded
  <2>3. Len(Latest(both, MatchBytes)) \in Nat /\ Len(both) \in Nat /\ Len(windows[n]) \in Nat
    <3> HIDE DEF both
    <3> QED BY <1>1, <2>1, <2>2
  <2> HIDE DEF both
  <2>4. Len(Latest(both, MatchBytes)) <= offsets[n] + Len(data)
    BY <1>1, <2>1, <2>2, <2>3
  <2> QED BY <2>2, <2>4 DEF both
<1>5. StreamTypes'
  <2> HIDE DEF window
  <2>1. windows' = [windows EXCEPT ![n] = window] /\ offsets' = [offsets EXCEPT ![n] = @ + Len(data)]
    BY DEF Publish, window
  <2>2. cursors' = cursors /\ sequence' = sequence + 1 /\ output' = [output EXCEPT ![n] = @ \o data]
    BY DEF Publish
  <2>3. output[n] \o data \in Seq(Bytes)
    BY <1>1
  <2>4. output' \in [Streams -> Seq(Bytes)]
    BY <2>2, <2>3 DEF TypeOK, StreamTypes
  <2> QED BY <1>1, <1>4, <2>1, <2>2, <2>4 DEF TypeOK, StreamTypes
<1>6. ReaderTypes'
  <2>1. Event(sequence) \in Items /\ Loss \in Items
    BY DEF Event, Loss, Items, TypeOK, StreamTypes
  <2>2. ASSUME NEW s \in Subscribers
        PROVE  /\ Append(queue[s], Event(sequence)) \in Seq(Items)
               /\ Len(Append(queue[s], Event(sequence))) = Len(queue[s]) + 1
               /\ <<Loss>> \in Seq(Items) /\ Len(<<Loss>>) = 1
               /\ queue[s] \in Seq(Items) /\ Len(queue[s]) \in Nat /\ Len(queue[s]) <= EventQueue
    BY <2>1 DEF TypeOK, ReaderTypes
  <2>3. \A s \in Subscribers : queue'[s] \in Seq(Items) /\ Len(queue'[s]) <= EventQueue
    BY <2>2 DEF Publish, Deliver, Full
  <2> QED BY <2>3 DEF Publish, Deliver, TypeOK, ReaderTypes
<1>7. PromptTypes'
  BY DEF Publish, Woken, TypeOK, PromptTypes
<1> QED BY <1>5, <1>6, <1>7 DEF TypeOK

LEMMA FinishTypes ==
  ASSUME TypeOK, Finish
  PROVE  TypeOK'
<1> USE HubAssumption
<1>1. StreamTypes'
  BY DEF Finish, streams, TypeOK, StreamTypes
<1>2. ReaderTypes'
  <2>1. End \in Items /\ Loss \in Items
    BY DEF End, Loss, Items
  <2>2. ASSUME NEW s \in Subscribers
        PROVE  /\ queue[s] \in Seq(Items) /\ Len(queue[s]) \in Nat /\ Len(queue[s]) <= EventQueue
               /\ Append(queue[s], End) \in Seq(Items)
               /\ Len(Append(queue[s], End)) = Len(queue[s]) + 1
    BY <2>1 DEF TypeOK, ReaderTypes
  <2>3. ASSUME NEW s \in Subscribers, Full(s)
        PROVE  /\ Append(Tail(queue[s]), Loss) \in Seq(Items)
               /\ Len(Append(Tail(queue[s]), Loss)) = Len(queue[s])
    <3>1. queue[s] # <<>>
      BY <2>2, <2>3 DEF Full
    <3>2. Tail(queue[s]) \in Seq(Items) /\ Len(Tail(queue[s])) = Len(queue[s]) - 1
      BY <2>2, <3>1
    <3> QED BY <2>1, <2>2, <3>2
  <2>4. \A s \in Subscribers : queue'[s] \in Seq(Items) /\ Len(queue'[s]) <= EventQueue
    BY <2>2, <2>3 DEF Finish, Full
  <2> QED BY <2>4 DEF Finish, TypeOK, ReaderTypes
<1>3. PromptTypes'
  BY DEF Finish, Woken, TypeOK, PromptTypes
<1> QED BY <1>1, <1>2, <1>3 DEF TypeOK

LEMMA ReaderStepTypes ==
  ASSUME TypeOK, NEW s \in Subscribers, Subscribe(s) \/ Take(s) \/ Leave(s)
  PROVE  TypeOK'
<1>1. StreamTypes' /\ PromptTypes'
  BY DEF Subscribe, Take, Leave, streams, prompts, TypeOK, StreamTypes, PromptTypes
<1>2. CASE Subscribe(s)
  BY <1>1, <1>2 DEF Subscribe, TypeOK, ReaderTypes, StreamTypes
<1>3. CASE Take(s)
  <2>1. /\ queue[s] \in Seq(Items) /\ queue[s] # <<>> /\ Len(queue[s]) <= EventQueue
        /\ received[s] \in Seq(Nat)
    BY <1>3 DEF Take, TypeOK, ReaderTypes
  <2>2. Head(queue[s]) \in Items /\ Tail(queue[s]) \in Seq(Items) /\ Len(Tail(queue[s])) <= EventQueue
    BY <2>1, HubAssumption
  <2>3. Append(received[s], Head(queue[s]).number) \in Seq(Nat)
    BY <2>1, <2>2 DEF Items
  <2>4. received' \in [Subscribers -> Seq(Nat)]
    BY <1>3, <2>3 DEF Take, TypeOK, ReaderTypes
  <2>5. /\ queue' \in [Subscribers -> Seq(Items)]
        /\ \A r \in Subscribers : Len(queue'[r]) <= EventQueue
    BY <1>3, <2>2 DEF Take, TypeOK, ReaderTypes
  <2>6. reader' \in [Subscribers -> {"created", "subscribed", "ended", "failed", "left"}]
    BY <1>3, <2>2 DEF Take, TypeOK, ReaderTypes, Items
  <2>7. subscribers' \subseteq Subscribers /\ UNCHANGED <<closed, since>>
    BY <1>3 DEF Take, TypeOK, ReaderTypes
  <2> QED BY <1>1, <2>4, <2>5, <2>6, <2>7 DEF TypeOK, ReaderTypes
<1>4. CASE Leave(s)
  BY <1>1, <1>4, HubAssumption DEF Leave, TypeOK, ReaderTypes
<1> QED BY <1>2, <1>3, <1>4

\* A match lies at or after the cursor, which it moves forward.
LEMMA HitsAreAhead ==
  ASSUME TypeOK, NEW n \in Streams, NEW e \in Expectations, NEW at \in Hits(n, Calls[e].pattern)
  PROVE  at \in Nat /\ at >= cursors[n] /\ Len(Calls[e].pattern) \in Nat \ {0}
<1>1. Base(n) \in Int /\ offsets[n] \in Int /\ Len(Calls[e].pattern) \in Nat \ {0} /\ cursors[n] \in Nat
  BY HubAssumption DEF TypeOK, StreamTypes, Base, Expectations
<1> QED BY <1>1 DEF Hits

LEMMA ScanTypes ==
  ASSUME TypeOK, NEW e \in Expectations, Scan(e) \/ Expire(e)
  PROVE  /\ TypeOK'
         /\ UNCHANGED <<windows, offsets, closed>>
         /\ \A n \in Streams : cursors'[n] >= cursors[n]
<1>1. UNCHANGED <<windows, offsets, sequence, output, closed, readers>>
  BY DEF Scan, Expire, streams
<1>2. PromptTypes'
  BY DEF Scan, Expire, Becomes, TypeOK, PromptTypes
<1>3. cursors' \in [Streams -> Nat] /\ \A n \in Streams : cursors'[n] >= cursors[n]
  <2>1. CASE UNCHANGED cursors
    BY <2>1 DEF TypeOK, StreamTypes
  <2>2. ASSUME NEW n \in Found(e), NEW at \in Hits(n, Calls[e].pattern), Consume(e, n, at)
        PROVE  cursors' \in [Streams -> Nat] /\ \A k \in Streams : cursors'[k] >= cursors[k]
    <3>1. n \in Streams
      BY HubAssumption DEF Found, Scanned, Streams, Expectations
    <3>2. at \in Nat /\ at >= cursors[n] /\ Len(Calls[e].pattern) \in Nat
      BY <2>2, <3>1, HitsAreAhead
    <3> QED BY <2>2, <3>1, <3>2 DEF Consume, TypeOK, StreamTypes
  <2>3. \/ UNCHANGED cursors
        \/ \E n \in Found(e) : \E at \in Hits(n, Calls[e].pattern) : Consume(e, n, at)
    BY DEF Scan, Expire, streams
  <2> QED BY <2>1, <2>2, <2>3
<1>4. TypeOK'
  BY <1>1, <1>2, <1>3 DEF readers, TypeOK, StreamTypes, ReaderTypes
<1> QED BY <1>1, <1>3, <1>4

\* An expectation that sleeps has nothing to find; a cursor that moves on
\* leaves it less.
Sleep == TypeOK /\ SleepersHaveNothing

LEMMA SleepStep ==
  ASSUME Sleep, [Next]_vars
  PROVE  Sleep'
<1>1. ASSUME NEW n \in Streams, NEW data \in Chunks, Publish(n, data)
      PROVE  Sleep'
  <2>1. \A e \in Expectations : expectation'[e] # "waiting"
    BY <1>1 DEF Publish, Woken, Sleep, TypeOK, PromptTypes
  <2> QED BY <1>1, <2>1, PublishTypes DEF Sleep, SleepersHaveNothing, Expectations
<1>2. CASE Finish
  <2>1. \A e \in Expectations : expectation'[e] # "waiting"
    BY <1>2 DEF Finish, Woken, Sleep, TypeOK, PromptTypes
  <2> QED BY <1>2, <2>1, FinishTypes DEF Sleep, SleepersHaveNothing, Expectations
<1>3. ASSUME NEW s \in Subscribers, Subscribe(s) \/ Take(s) \/ Leave(s)
      PROVE  Sleep'
  <2>1. UNCHANGED <<streams, prompts, closed>>
    BY <1>3 DEF Subscribe, Take, Leave
  <2>2. SleepersHaveNothing'
    BY <2>1 DEF streams, prompts, Sleep, SleepersHaveNothing, Found, Hits, Scanned, Base, Expectations
  <2> QED BY <1>3, <2>2, ReaderStepTypes DEF Sleep
<1>4. ASSUME NEW e \in Expectations, Scan(e) \/ Expire(e)
      PROVE  Sleep'
  <2>1. /\ TypeOK' /\ UNCHANGED <<windows, offsets, closed>>
        /\ \A n \in Streams : cursors'[n] >= cursors[n]
    BY <1>4, ScanTypes DEF Sleep
  <2>2. \A f \in Expectations : Found(f)' \subseteq Found(f)
    <3>1. \A n \in Streams : cursors'[n] \in Nat /\ cursors[n] \in Nat /\ Base(n) \in Int /\ offsets[n] \in Int
      BY <2>1 DEF Sleep, TypeOK, StreamTypes, Base
    <3>2. ASSUME NEW f \in Expectations, NEW n \in Streams
          PROVE  Hits(n, Calls[f].pattern)' \subseteq Hits(n, Calls[f].pattern)
      <4>1. Len(Calls[f].pattern) \in Nat
        BY HubAssumption DEF Expectations
      <4>2. Base(n)' = Base(n) /\ offsets' = offsets /\ windows' = windows
        BY <2>1 DEF Base
      <4> QED BY <2>1, <3>1, <4>1, <4>2 DEF Hits
    <3>3. \A f \in Expectations : Scanned(f) \subseteq Streams
      BY HubAssumption DEF Scanned, Streams, Expectations
    <3>4. ASSUME NEW f \in Expectations, NEW n \in Scanned(f), Hits(n, Calls[f].pattern) = {}
          PROVE  Hits(n, Calls[f].pattern)' = {}
      BY <3>2, <3>3, <3>4
    <3> QED BY <3>4 DEF Found, Scanned
  <2>3. ASSUME NEW f \in Expectations, expectation'[f] = "waiting"
        PROVE  ~closed /\ Found(f) = {}
    <3>1. CASE expectation[f] = "waiting"
      BY <3>1 DEF Sleep, SleepersHaveNothing
    <3>2. CASE expectation[f] # "waiting"
      BY <1>4, <2>3, <3>2 DEF Scan, Expire, Becomes, Sleep, TypeOK, PromptTypes
    <3> QED BY <3>1, <3>2
  <2>4. SleepersHaveNothing'
    BY <2>1, <2>2, <2>3 DEF SleepersHaveNothing, Expectations
  <2> QED BY <2>1, <2>4 DEF Sleep
<1>5. CASE UNCHANGED vars
  <2>1. TypeOK'
    BY <1>5 DEF vars, streams, readers, prompts, Sleep, TypeOK, StreamTypes, ReaderTypes, PromptTypes
  <2>2. SleepersHaveNothing'
    BY <1>5 DEF vars, streams, readers, prompts, Sleep, SleepersHaveNothing, Found, Hits, Scanned,
       Base, Expectations
  <2> QED BY <2>1, <2>2 DEF Sleep
<1> QED BY <1>1, <1>2, <1>3, <1>4, <1>5 DEF Next

LEMMA SleepInvariance == Spec => []Sleep
<1>1. Init => Sleep
  <2> SUFFICES ASSUME Init PROVE Sleep
    OBVIOUS
  <2>1. StreamTypes
    BY HubAssumption DEF Init, StreamTypes
  <2>2. ReaderTypes
    <3>1. \A s \in Subscribers : queue[s] = <<>> /\ Len(queue[s]) = 0
      BY DEF Init
    <3>2. queue \in [Subscribers -> Seq(Items)] /\ received \in [Subscribers -> Seq(Nat)]
      BY DEF Init
    <3>3. /\ closed \in BOOLEAN /\ subscribers \subseteq Subscribers /\ since \in [Subscribers -> Nat]
          /\ reader \in [Subscribers -> {"created", "subscribed", "ended", "failed", "left"}]
      BY DEF Init
    <3> QED BY <3>1, <3>2, <3>3, HubAssumption DEF ReaderTypes
  <2>3. PromptTypes /\ SleepersHaveNothing
    BY DEF Init, PromptTypes, SleepersHaveNothing
  <2> QED BY <2>1, <2>2, <2>3 DEF Sleep, TypeOK
<1> QED BY <1>1, SleepStep, PTL DEF Spec

\* Type correctness of the hub: no window grows beyond config.match_bytes and
\* no queue beyond config.event_queue.
THEOREM TypeCorrectness == Spec => []TypeOK
<1>1. Sleep => TypeOK
  BY DEF Sleep
<1> QED BY <1>1, SleepInvariance, PTL

\* No wake-up is lost: an expectation sleeps only while the output goes on and
\* there is nothing for it in the windows.
THEOREM SleepersAreWoken == Spec => []SleepersHaveNothing
<1>1. Sleep => SleepersHaveNothing
  BY DEF Sleep
<1> QED BY <1>1, SleepInvariance, PTL
-----------------------------------------------------------------------------
(* What a subscriber is told. *)

Unbroken(s) == \A i \in DOMAIN received[s] : received[s][i] = since[s] + i - 1

\* The first size items of its queue go on where it is.
Waiting(s, size) ==
  /\ since[s] + Len(received[s]) + size = sequence
  /\ \A j \in 1..size : queue[s][j] = Event(since[s] + Len(received[s]) + j - 1)

\* A subscriber whose queue publish still fills has missed nothing; one that is
\* left with its queue was told of a loss, or has all there is and the end.
Followed(s) ==
  /\ InOrder(s)
  /\ reader[s] = "created" => received[s] = <<>> /\ queue[s] = <<>>
  /\ s \in subscribers =>
       reader[s] = "subscribed" /\ ~closed /\ Unbroken(s) /\ Waiting(s, Len(queue[s]))
  /\ reader[s] = "subscribed" /\ s \notin subscribers /\ ~LossAhead(s) =>
       /\ closed /\ Unbroken(s)
       /\ Len(queue[s]) > 0 /\ queue[s][Len(queue[s])] = End /\ Waiting(s, Len(queue[s]) - 1)
  /\ reader[s] = "ended" /\ ~LossAhead(s) => closed /\ Unbroken(s) /\ Waiting(s, 0)

LEMMA QueueFacts ==
  ASSUME TypeOK, NEW s \in Subscribers
  PROVE  /\ queue[s] \in Seq(Items) /\ Len(queue[s]) \in Nat /\ DOMAIN queue[s] = 1..Len(queue[s])
         /\ received[s] \in Seq(Nat) /\ Len(received[s]) \in Nat
         /\ DOMAIN received[s] = 1..Len(received[s])
         /\ since[s] \in Nat /\ sequence \in Nat
         /\ \A n : Event(n).kind = "event" /\ Event(n).number = n
         /\ End.kind = "end" /\ Loss.kind = "loss"
BY DEF TypeOK, ReaderTypes, StreamTypes, Event, End, Loss

\* What is appended to a queue comes after all that is in it.
LEMMA FollowedPublish ==
  ASSUME TypeOK, \A s \in Subscribers : Followed(s),
         NEW n \in Streams, NEW data \in Chunks, Publish(n, data)
  PROVE  \A s \in Subscribers : Followed(s)'
<1>1. /\ ~closed /\ closed' = closed /\ sequence' = sequence + 1
      /\ UNCHANGED <<reader, since, received>> /\ Deliver
  BY DEF Publish
<1>2. ASSUME NEW s \in Subscribers PROVE Followed(s)'
  <2>0. /\ queue[s] \in Seq(Items) /\ Len(queue[s]) \in Nat /\ DOMAIN queue[s] = 1..Len(queue[s])
        /\ Len(received[s]) \in Nat /\ DOMAIN received[s] = 1..Len(received[s])
        /\ since[s] \in Nat /\ sequence \in Nat /\ Event(sequence) \in Items
        /\ \A k \in Nat : Event(k).kind = "event" /\ Event(k).number = k
        /\ Loss.kind = "loss"
    BY QueueFacts DEF Event, Items
  <2>1. Followed(s)
    OBVIOUS
  <2>2. CASE s \notin subscribers
    <3>1. queue'[s] = queue[s] /\ s \notin subscribers'
      BY <2>2, <1>1 DEF Deliver
    <3> QED BY <1>1, <2>1, <2>2, <3>1 DEF Followed, InOrder, LossAhead
  <2>3. CASE s \in subscribers /\ Full(s)
    <3>1. queue'[s] = <<Loss>> /\ s \notin subscribers'
      BY <2>3, <1>1 DEF Deliver
    <3>2. LossAhead(s)' /\ InOrder(s)'
      BY <2>0, <1>1, <2>1, <3>1 DEF LossAhead, Followed, InOrder
    <3> QED BY <1>1, <2>1, <2>3, <3>1, <3>2 DEF Followed
  <2>4. CASE s \in subscribers /\ ~Full(s)
    <3>1. queue'[s] = Append(queue[s], Event(sequence)) /\ s \in subscribers'
      BY <2>4, <1>1 DEF Deliver
    <3>2. /\ Len(queue'[s]) = Len(queue[s]) + 1 /\ DOMAIN queue'[s] = 1..(Len(queue[s]) + 1)
          /\ \A j \in 1..Len(queue[s]) : queue'[s][j] = queue[s][j]
          /\ queue'[s][Len(queue[s]) + 1] = Event(sequence)
      BY <2>0, <3>1
    <3>3. Unbroken(s) /\ Waiting(s, Len(queue[s])) /\ InOrder(s) /\ reader[s] = "subscribed"
      BY <2>1, <2>4 DEF Followed
    <3>4. Waiting(s, Len(queue[s]))' /\ Unbroken(s)'
      <4>1. since' = since /\ received' = received /\ Len(queue'[s]) = Len(queue[s]) + 1
        BY <1>1, <3>2
      <4>2. since[s] + Len(received[s]) + Len(queue[s]) = sequence
        BY <3>3 DEF Waiting
      <4>3. ASSUME NEW j \in 1..(Len(queue[s]) + 1)
            PROVE  queue'[s][j] = Event(since[s] + Len(received[s]) + j - 1)
        <5>1. CASE j \in 1..Len(queue[s])
          BY <2>0, <3>2, <3>3, <5>1 DEF Waiting
        <5>2. CASE j = Len(queue[s]) + 1
          <6>1. since[s] + Len(received[s]) + j - 1 = sequence
            BY <2>0, <4>2, <5>2
          <6> QED BY <3>2, <5>2, <6>1
        <5> QED BY <5>1, <5>2
      <4>4. since'[s] + Len(received'[s]) + Len(queue'[s]) = sequence'
        <5>1. since'[s] = since[s] /\ Len(received'[s]) = Len(received[s]) /\ sequence' = sequence + 1
          BY <1>1, <4>1
        <5> DEFINE first == since[s]
                   taken == Len(received[s])
                   size  == Len(queue[s])
        <5>2. first \in Nat /\ taken \in Nat /\ size \in Nat /\ first + taken + size = sequence
          BY <2>0, <4>2
        <5>3. first + taken + (size + 1) = sequence + 1
          <6> HIDE DEF first, taken, size
          <6> QED BY <5>2
        <5> QED BY <4>1, <5>1, <5>3
      <4> QED BY <3>3, <4>1, <4>3, <4>4 DEF Waiting, Unbroken
    <3>5. \A j \in 1..Len(queue[s]) : queue[s][j].number < sequence
      <4> DEFINE first == since[s] + Len(received[s])
      <4>1. first \in Nat /\ first + Len(queue[s]) = sequence
        BY <2>0, <3>3 DEF Waiting
      <4>2. \A j \in 1..Len(queue[s]) : queue[s][j] = Event(first + j - 1)
        BY <3>3 DEF Waiting
      <4> HIDE DEF first
      <4>3. \A j \in 1..Len(queue[s]) : first + j - 1 < sequence
        BY <2>0, <4>1
      <4>4. \A k : Event(k).number = k
        BY DEF Event
      <4>5. ASSUME NEW j \in 1..Len(queue[s]) PROVE queue[s][j].number < sequence
        <5>1. queue[s][j].number = first + j - 1
          BY <4>2, <4>4
        <5> QED BY <4>3, <5>1
      <4> QED BY <4>5
    <3>6. \A i \in DOMAIN received[s] : received[s][i] < sequence
      BY <2>0, <3>3 DEF Waiting, Unbroken
    <3>7. InOrder(s)'
      <4>1. ASSUME NEW j \in 1..(Len(queue[s]) + 1), queue'[s][j].kind = "event"
            PROVE  /\ \A i \in DOMAIN received[s] : received[s][i] < queue'[s][j].number
                   /\ \A i \in 1..(j - 1) : queue'[s][i].number < queue'[s][j].number
        <5>1. CASE j \in 1..Len(queue[s])
          <6>1. queue'[s][j] = queue[s][j] /\ \A i \in 1..(j - 1) : queue'[s][i] = queue[s][i]
            BY <2>0, <3>2, <5>1
          <6> QED BY <2>0, <3>3, <4>1, <5>1, <6>1 DEF InOrder
        <5>2. CASE j = Len(queue[s]) + 1
          <6>1. queue'[s][j].number = sequence /\ \A i \in 1..(j - 1) : queue'[s][i] = queue[s][i]
            BY <2>0, <3>2, <5>2
          <6> QED BY <2>0, <3>5, <3>6, <5>2, <6>1
        <5> QED BY <5>1, <5>2
      <4> QED BY <1>1, <3>2, <3>3, <4>1 DEF InOrder
    <3> QED BY <1>1, <3>1, <3>3, <3>4, <3>7 DEF Followed
  <2> QED BY <2>2, <2>3, <2>4
<1> QED BY <1>2
LEMMA FollowedFinish ==
  ASSUME TypeOK, \A s \in Subscribers : Followed(s), Finish
  PROVE  \A s \in Subscribers : Followed(s)'
<1>1. closed' = TRUE /\ subscribers' = {} /\ UNCHANGED <<sequence, reader, since, received>>
  BY DEF Finish, streams
<1>2. ASSUME NEW s \in Subscribers PROVE Followed(s)'
  <2>0. /\ queue[s] \in Seq(Items) /\ Len(queue[s]) \in Nat /\ DOMAIN queue[s] = 1..Len(queue[s])
        /\ End \in Items /\ Loss \in Items /\ End.kind = "end" /\ Loss.kind = "loss"
    BY QueueFacts DEF End, Loss, Items
  <2>1. Followed(s)
    OBVIOUS
  <2>2. CASE s \notin subscribers
    <3>1. queue'[s] = queue[s]
      BY <2>2 DEF Finish
    <3> QED BY <1>1, <2>1, <2>2, <3>1 DEF Followed, InOrder, LossAhead, Unbroken, Waiting
  <2>3. CASE s \in subscribers /\ Full(s)
    <3> DEFINE q == Append(Tail(queue[s]), Loss)
               size == Len(queue[s])
    <3>1. queue'[s] = q
      BY <2>3 DEF Finish
    <3>2. size > 0
      BY <2>0, <2>3, HubAssumption DEF Full
    <3>3. Tail(queue[s]) \in Seq(Items) /\ Len(Tail(queue[s])) = size - 1
      BY <2>0, <3>2
    <3>4. \A j \in 1..(size - 1) : Tail(queue[s])[j] = queue[s][j + 1]
      BY <2>0, <3>2
    <3>5. /\ DOMAIN q = 1..size /\ q[size] = Loss
          /\ \A j \in 1..(size - 1) : q[j] = queue[s][j + 1]
      BY <2>0, <3>2, <3>3, <3>4
    <3>6. LossAhead(s)'
      BY <2>0, <3>1, <3>2, <3>5 DEF LossAhead
    <3>7. InOrder(s)'
      <4>1. ASSUME NEW j \in 1..size, q[j].kind = "event"
            PROVE  /\ \A i \in DOMAIN received[s] : received[s][i] < q[j].number
                   /\ \A i \in 1..(j - 1) : q[i].number < q[j].number
        <5>1. j \in 1..(size - 1) /\ j + 1 \in DOMAIN queue[s]
          BY <2>0, <3>2, <3>5, <4>1
        <5>2. q[j] = queue[s][j + 1] /\ \A i \in 1..(j - 1) : q[i] = queue[s][i + 1]
          BY <2>0, <3>5, <5>1
        <5>3. \A i \in 1..(j - 1) : i + 1 \in 1..((j + 1) - 1)
          BY <5>1
        <5> QED BY <2>1, <4>1, <5>1, <5>2, <5>3 DEF Followed, InOrder
      <4> HIDE DEF q
      <4> QED BY <1>1, <2>1, <3>1, <3>5, <4>1 DEF Followed, InOrder
    <3> QED BY <1>1, <2>1, <2>3, <3>6, <3>7 DEF Followed
  <2>4. CASE s \in subscribers /\ ~Full(s)
    <3> DEFINE q == Append(queue[s], End)
    <3> PICK size \in Nat : size = Len(queue[s])
      BY <2>0
    <3>1. queue'[s] = q
      BY <2>4 DEF Finish
    <3>2. /\ DOMAIN q = 1..(size + 1) /\ Len(q) = size + 1 /\ q[size + 1] = End
          /\ \A j \in 1..size : q[j] = queue[s][j]
      BY <2>0
    <3>3. Unbroken(s) /\ Waiting(s, size) /\ InOrder(s) /\ reader[s] = "subscribed"
      BY <2>1, <2>4 DEF Followed
    <3>4. Waiting(s, size)' /\ Unbroken(s)' /\ Len(queue'[s]) - 1 = size
      <4>1. Len(queue'[s]) = size + 1 /\ \A j \in 1..size : queue'[s][j] = queue[s][j]
        BY <3>1, <3>2
      <4> QED BY <1>1, <3>3, <4>1 DEF Waiting, Unbroken
    <3>5. InOrder(s)'
      <4>1. ASSUME NEW j \in 1..(size + 1), q[j].kind = "event"
            PROVE  /\ \A i \in DOMAIN received[s] : received[s][i] < q[j].number
                   /\ \A i \in 1..(j - 1) : q[i].number < q[j].number
        <5>1. j \in 1..size /\ \A i \in 1..(j - 1) : i \in 1..size
          BY <2>0, <3>2, <4>1
        <5> QED BY <2>0, <3>2, <3>3, <4>1, <5>1 DEF InOrder
      <4> HIDE DEF q
      <4> QED BY <1>1, <3>1, <3>2, <3>3, <4>1 DEF InOrder
    <3> HIDE DEF q
    <3>6. Len(queue'[s]) > 0 /\ queue'[s][Len(queue'[s])] = End
      BY <3>1, <3>2
    <3> QED BY <1>1, <3>3, <3>4, <3>5, <3>6 DEF Followed
  <2> QED BY <2>2, <2>3, <2>4
<1> QED BY <1>2

LEMMA FollowedSubscribe ==
  ASSUME TypeOK, NEW s \in Subscribers, Followed(s), Subscribe(s)
  PROVE  Followed(s)'
<1>0. sequence \in Nat
  BY DEF TypeOK, StreamTypes
<1>1. received'[s] = <<>> /\ queue'[s] = <<>> /\ s \notin subscribers
  BY DEF Subscribe, Followed
<1>2. closed' = closed /\ sequence' = sequence /\ since'[s] = sequence
  BY DEF Subscribe, streams, TypeOK, ReaderTypes
<1>3. InOrder(s)' /\ Unbroken(s)' /\ Waiting(s, 0)' /\ Waiting(s, Len(queue[s]))'
  BY <1>0, <1>1, <1>2 DEF Subscribe, InOrder, Unbroken, Waiting
<1>4. CASE closed
  <2>1. reader'[s] = "ended" /\ s \notin subscribers'
    BY <1>1, <1>4 DEF Subscribe, TypeOK, ReaderTypes
  <2> QED BY <1>2, <1>3, <1>4, <2>1 DEF Followed
<1>5. CASE ~closed
  <2>1. reader'[s] = "subscribed" /\ s \in subscribers' /\ queue' = queue
    BY <1>5 DEF Subscribe, TypeOK, ReaderTypes
  <2> QED BY <1>2, <1>3, <1>5, <2>1 DEF Followed
<1> QED BY <1>4, <1>5

LEMMA FollowedLeave ==
  ASSUME TypeOK, NEW s \in Subscribers, Followed(s), Leave(s)
  PROVE  Followed(s)'
<1>1. received'[s] = received[s] /\ queue'[s] = <<>> /\ reader'[s] = "left" /\ s \notin subscribers'
  BY DEF Leave, TypeOK, ReaderTypes
<1>2. InOrder(s)'
  BY <1>1 DEF Followed, InOrder
<1> QED BY <1>1, <1>2 DEF Followed
LEMMA FollowedTake ==
  ASSUME TypeOK, NEW s \in Subscribers, Followed(s), Take(s)
  PROVE  Followed(s)'
<1>0. /\ queue[s] \in Seq(Items) /\ queue[s] # <<>> /\ Len(queue[s]) \in Nat
      /\ DOMAIN queue[s] = 1..Len(queue[s])
      /\ received[s] \in Seq(Nat) /\ Len(received[s]) \in Nat
      /\ DOMAIN received[s] = 1..Len(received[s])
      /\ since[s] \in Nat /\ sequence \in Nat
  BY QueueFacts DEF Take
<1> DEFINE item == queue[s][1]
<1>1. PICK size \in Nat : size = Len(queue[s]) /\ size > 0
  BY <1>0
<1>2. size >= 1
  BY <1>1
<1>3. PICK taken \in Nat : taken = Len(received[s])
  BY <1>0
<1>4. PICK first \in Nat : first = since[s]
  BY <1>0
<1>5. /\ queue'[s] = Tail(queue[s]) /\ Len(queue'[s]) = size - 1 /\ DOMAIN queue'[s] = 1..(size - 1)
      /\ \A j \in 1..(size - 1) : queue'[s][j] = queue[s][j + 1]
  BY <1>0, <1>1 DEF Take, TypeOK, ReaderTypes
<1>6. /\ reader[s] = "subscribed" /\ item \in Items /\ Head(queue[s]) = item
      /\ UNCHANGED <<sequence, closed, since>>
  BY <1>0, <1>1 DEF Take, streams
<1>7. ASSUME NEW j \in 1..(size - 1), queue'[s][j].kind = "event"
      PROVE  /\ \A i \in DOMAIN received[s] : received[s][i] < queue'[s][j].number
             /\ \A i \in 1..(j - 1) : queue'[s][i].number < queue'[s][j].number
             /\ item.number < queue'[s][j].number
  <2>1. j + 1 \in DOMAIN queue[s] /\ queue'[s][j] = queue[s][j + 1]
    BY <1>0, <1>1, <1>5
  <2>2. \A i \in 1..(j - 1) : queue'[s][i] = queue[s][i + 1] /\ i + 1 \in 1..((j + 1) - 1)
    BY <1>1, <1>5
  <2>3. \A i \in 1..((j + 1) - 1) : queue[s][i].number < queue[s][j + 1].number
    BY <1>7, <2>1 DEF Followed, InOrder
  <2>4. \A i \in DOMAIN received[s] : received[s][i] < queue[s][j + 1].number
    BY <1>7, <2>1 DEF Followed, InOrder
  <2>5. 1 \in 1..((j + 1) - 1)
    OBVIOUS
  <2> QED BY <2>1, <2>2, <2>3, <2>4, <2>5
<1>8. item # Loss /\ ~LossAhead(s)' => ~LossAhead(s)
  <2>1. SUFFICES ASSUME item # Loss, NEW i \in DOMAIN queue[s], queue[s][i] = Loss
                 PROVE  LossAhead(s)'
    BY DEF LossAhead
  <2>2. i - 1 \in 1..(size - 1) /\ (i - 1) + 1 = i
    BY <1>0, <1>1, <2>1
  <2> QED BY <1>5, <2>1, <2>2 DEF LossAhead
<1>9. s \in subscribers => /\ ~closed /\ Unbroken(s) /\ Waiting(s, size) /\ item = Event(first + taken)
  <2> SUFFICES ASSUME s \in subscribers
               PROVE  ~closed /\ Unbroken(s) /\ Waiting(s, size) /\ item = Event(first + taken)
    OBVIOUS
  <2>1. ~closed /\ Unbroken(s) /\ Waiting(s, size)
    BY <1>1 DEF Followed
  <2>2. item = Event(first + taken + 1 - 1)
    BY <1>1, <1>3, <1>4, <2>1 DEF Waiting
  <2> QED BY <2>1, <2>2
<1>10. s \notin subscribers /\ ~LossAhead(s) =>
        /\ closed /\ Unbroken(s) /\ queue[s][size] = End /\ Waiting(s, size - 1)
        /\ size > 1 => item = Event(first + taken)
  <2> SUFFICES ASSUME s \notin subscribers, ~LossAhead(s)
               PROVE  /\ closed /\ Unbroken(s) /\ queue[s][size] = End /\ Waiting(s, size - 1)
                      /\ size > 1 => item = Event(first + taken)
    OBVIOUS
  <2>1. closed /\ Unbroken(s) /\ queue[s][size] = End /\ Waiting(s, size - 1)
    BY <1>1, <1>6 DEF Followed
  <2>2. size > 1 => item = Event(first + taken + 1 - 1)
    BY <1>1, <1>3, <1>4, <2>1 DEF Waiting
  <2> QED BY <2>1, <2>2
<1>11. (\A n : Event(n).kind = "event" /\ Event(n).number = n) /\ End.kind = "end" /\ Loss.kind = "loss"
  BY DEF Event, End, Loss
<1>12. CASE item.kind = "event"
  <2>1. /\ received'[s] = Append(received[s], item.number) /\ reader'[s] = "subscribed"
        /\ subscribers' = subscribers
    BY <1>6, <1>12 DEF Take, TypeOK, ReaderTypes
  <2>2. item.number \in Nat
    BY <1>6 DEF Items
  <2>3. /\ DOMAIN received'[s] = 1..(taken + 1) /\ Len(received'[s]) = taken + 1
        /\ received'[s][taken + 1] = item.number
        /\ \A i \in 1..taken : received'[s][i] = received[s][i]
    BY <1>0, <1>3, <2>1, <2>2
  <2>4. \A i \in 1..taken : received[s][i] < item.number
    <3>1. InOrder(s) /\ 1 \in DOMAIN queue[s]
      BY <1>0, <1>1 DEF Followed
    <3>2. \A i \in DOMAIN received[s] : received[s][i] < item.number
      BY <1>12, <3>1 DEF InOrder
    <3> QED BY <1>0, <1>3, <3>2
  <2>5. InOrder(s)'
    <3>1. ASSUME NEW i \in 1..(taken + 1), NEW j \in 1..(taken + 1), i < j
          PROVE  received'[s][i] < received'[s][j]
      <4>1. CASE j = taken + 1
        BY <2>3, <2>4, <3>1, <4>1
      <4>2. CASE j \in 1..taken
        <5>1. i \in DOMAIN received[s] /\ j \in DOMAIN received[s] /\ i \in 1..taken
          BY <1>0, <1>3, <3>1, <4>2
        <5>2. received[s][i] < received[s][j]
          BY <3>1, <5>1 DEF Followed, InOrder
        <5> QED BY <2>3, <4>2, <5>1, <5>2
      <4> QED BY <4>1, <4>2
    <3>2. ASSUME NEW j \in 1..(size - 1), queue'[s][j].kind = "event"
          PROVE  \A i \in 1..(taken + 1) : received'[s][i] < queue'[s][j].number
      <4>1. item.number < queue'[s][j].number
        BY <1>7, <3>2
      <4>2. \A i \in 1..taken : received[s][i] < queue'[s][j].number
        BY <1>0, <1>3, <1>7, <3>2
      <4>3. \A i \in 1..(taken + 1) : i \in 1..taken \/ i = taken + 1
        OBVIOUS
      <4> QED BY <2>3, <4>1, <4>2, <4>3
    <3> QED BY <1>5, <1>7, <2>3, <3>1, <3>2 DEF InOrder
  <2>6. ASSUME NEW k \in Nat, k < size, Waiting(s, k + 1), item = Event(first + taken), Unbroken(s)
        PROVE  Unbroken(s)' /\ first + (taken + 1) + k = sequence
               /\ \A j \in 1..k : queue'[s][j] = Event(first + (taken + 1) + j - 1)
    <3>1. received'[s][taken + 1] = first + (taken + 1) - 1
      <4>1. item.number = first + taken
        BY <1>11, <2>6
      <4> QED BY <2>3, <4>1
    <3>2. \A i \in 1..taken : received'[s][i] = first + i - 1
      BY <1>0, <1>3, <1>4, <2>3, <2>6 DEF Unbroken
    <3>3. \A i \in 1..(taken + 1) : received'[s][i] = first + i - 1
      BY <3>1, <3>2
    <3>4. Unbroken(s)'
      BY <1>4, <1>6, <2>3, <3>3 DEF Unbroken
    <3>5. first + taken + (k + 1) = sequence
      BY <1>3, <1>4, <2>6 DEF Waiting
    <3>6. ASSUME NEW j \in 1..k
          PROVE  queue'[s][j] = Event(first + (taken + 1) + j - 1)
      <4>1. j + 1 \in 1..(k + 1) /\ j \in 1..(size - 1)
        BY <1>1, <2>6
      <4>2. queue[s][j + 1] = Event(first + taken + (j + 1) - 1)
        BY <1>3, <1>4, <2>6, <4>1 DEF Waiting
      <4>3. first + taken + (j + 1) - 1 = first + (taken + 1) + j - 1
        OBVIOUS
      <4> QED BY <1>5, <4>1, <4>2, <4>3
    <3>7. first + (taken + 1) + k = first + taken + (k + 1)
      OBVIOUS
    <3>8. \A j \in 1..k : queue'[s][j] = Event(first + (taken + 1) + j - 1)
      BY <3>6
    <3> QED BY <3>4, <3>5, <3>7, <3>8
  <2>7. ASSUME s \in subscribers
        PROVE  Unbroken(s)' /\ Waiting(s, Len(queue[s]))'
    <3>1. PICK k \in Nat : size = k + 1 /\ k < size /\ k = size - 1
      <4>1. size - 1 \in Nat /\ size = (size - 1) + 1 /\ size - 1 < size
        BY <1>2
      <4> QED BY <4>1
    <3>2. Waiting(s, k + 1) /\ Unbroken(s) /\ item = Event(first + taken)
      BY <1>9, <2>7, <3>1
    <3>3. /\ Unbroken(s)' /\ first + (taken + 1) + k = sequence
          /\ \A j \in 1..k : queue'[s][j] = Event(first + (taken + 1) + j - 1)
      BY <2>6, <3>1, <3>2
    <3>4. since'[s] = first /\ Len(received'[s]) = taken + 1 /\ Len(queue'[s]) = k
      BY <1>4, <1>5, <1>6, <2>3, <3>1
    <3> QED BY <1>6, <3>3, <3>4 DEF Waiting
  <2>8. ASSUME s \notin subscribers, ~LossAhead(s)'
        PROVE  /\ closed /\ Unbroken(s)' /\ size > 1 /\ queue'[s][size - 1] = End
               /\ Waiting(s, Len(queue[s]) - 1)'
    <3>1. ~LossAhead(s)
      BY <1>8, <1>11, <1>12, <2>8
    <3>2. size > 1
      BY <1>1, <1>10, <1>11, <1>12, <2>8, <3>1
    <3>3. PICK k \in Nat : size - 1 = k + 1 /\ k < size /\ (size - 1) - 1 = k
      <4>1. size - 2 \in Nat /\ size - 1 = (size - 2) + 1 /\ size - 2 < size /\ (size - 1) - 1 = size - 2
        BY <3>2
      <4> QED BY <4>1
    <3>4. /\ Waiting(s, k + 1) /\ Unbroken(s) /\ item = Event(first + taken)
          /\ closed /\ queue[s][size] = End
      BY <1>10, <2>8, <3>1, <3>2, <3>3
    <3>5. /\ Unbroken(s)' /\ first + (taken + 1) + k = sequence
          /\ \A j \in 1..k : queue'[s][j] = Event(first + (taken + 1) + j - 1)
      BY <2>6, <3>3, <3>4
    <3>6. queue'[s][size - 1] = End
      <4>1. size - 1 \in 1..(size - 1) /\ (size - 1) + 1 = size
        BY <1>1, <3>2
      <4> QED BY <1>5, <3>4, <4>1
    <3>7. since'[s] = first /\ Len(received'[s]) = taken + 1 /\ Len(queue'[s]) - 1 = k
      BY <1>4, <1>5, <1>6, <2>3, <3>3
    <3> QED BY <1>6, <3>2, <3>4, <3>5, <3>6, <3>7 DEF Waiting
  <2> QED BY <1>1, <1>5, <1>6, <1>9, <2>1, <2>5, <2>7, <2>8 DEF Followed
<1>13. CASE item.kind # "event"
  <2>1. received'[s] = received[s] /\ s \notin subscribers' /\ reader'[s] \in {"ended", "failed"}
    BY <1>6, <1>13 DEF Take, TypeOK, ReaderTypes, Items
  <2>2. InOrder(s)'
    BY <1>5, <1>7, <2>1 DEF Followed, InOrder
  <2>3. ASSUME reader'[s] = "ended", ~LossAhead(s)'
        PROVE  closed /\ Unbroken(s)' /\ Waiting(s, 0)'
    <3>1. item.kind = "end"
      BY <1>6, <1>13, <2>3 DEF Take, TypeOK, ReaderTypes, Items
    <3>2. ~LossAhead(s) /\ s \notin subscribers
      BY <1>8, <1>9, <1>11, <2>3, <3>1
    <3>3. size = 1
      <4>1. size > 1 => item.kind = "event"
        BY <1>10, <1>11, <3>2
      <4>2. ~(size > 1)
        BY <3>1, <4>1
      <4> QED BY <1>2, <4>2
    <3>4. closed /\ Unbroken(s) /\ Waiting(s, 0)
      BY <1>10, <3>2, <3>3
    <3> QED BY <1>6, <2>1, <3>4 DEF Unbroken, Waiting
  <2> QED BY <1>6, <2>1, <2>2, <2>3 DEF Followed
<1> QED BY <1>12, <1>13

LEMMA WaitingIsComplete ==
  ASSUME TypeOK, NEW s \in Subscribers, NEW size \in Nat, size <= Len(queue[s]),
         Unbroken(s), Waiting(s, size)
  PROVE  Complete(s)
<1>1. /\ DOMAIN queue[s] = 1..Len(queue[s]) /\ Len(queue[s]) \in Nat
      /\ Len(received[s]) \in Nat /\ since[s] \in Nat /\ sequence \in Nat
  BY QueueFacts
<1>2. PICK taken \in Nat : taken = Len(received[s])
  BY <1>1
<1>3. PICK first \in Nat : first = since[s]
  BY <1>1
<1>4. first + taken + size = sequence
  BY <1>2, <1>3 DEF Waiting
<1>5. ASSUME NEW n \in (first + taken) .. (sequence - 1)
      PROVE  LET i == n - first - taken + 1
             IN  i \in DOMAIN queue[s] /\ queue[s][i] = Event(n)
  <2> DEFINE i == n - first - taken + 1
  <2>1. i \in 1..size /\ first + taken + i - 1 = n
    BY <1>4, <1>5
  <2>2. queue[s][i] = Event(first + taken + i - 1)
    <3> HIDE DEF i
    <3> QED BY <1>2, <1>3, <2>1 DEF Waiting
  <2>3. i \in DOMAIN queue[s]
    <3> HIDE DEF i
    <3> QED BY <1>1, <2>1
  <2> QED BY <2>1, <2>2, <2>3
<1>6. \A n \in since[s] + Len(received[s]) .. sequence - 1 :
        LET i == n - since[s] - Len(received[s]) + 1
        IN  i \in DOMAIN queue[s] /\ queue[s][i] = Event(n)
  BY <1>2, <1>3, <1>5
<1> QED BY <1>6 DEF Complete, Unbroken

Told == TypeOK /\ \A s \in Subscribers : Followed(s)

LEMMA ToldStep ==
  ASSUME Told, TypeOK', [Next]_vars
  PROVE  Told'
<1>1. ASSUME NEW n \in Streams, NEW data \in Chunks, Publish(n, data)
      PROVE  Told'
  BY <1>1, FollowedPublish DEF Told
<1>2. CASE Finish
  BY <1>2, FollowedFinish DEF Told
<1>3. ASSUME NEW s \in Subscribers, Subscribe(s) \/ Take(s) \/ Leave(s)
      PROVE  Told'
  <2>1. Followed(s)'
    BY <1>3, FollowedSubscribe, FollowedTake, FollowedLeave DEF Told
  <2>2. ASSUME NEW r \in Subscribers, r # s
        PROVE  Followed(r)'
    <3>1. /\ queue'[r] = queue[r] /\ received'[r] = received[r] /\ since'[r] = since[r]
          /\ reader'[r] = reader[r] /\ (r \in subscribers' <=> r \in subscribers)
          /\ UNCHANGED <<closed, sequence>>
      BY <1>3, <2>2 DEF Subscribe, Take, Leave, streams, Told, TypeOK, ReaderTypes
    <3>2. Followed(r)
      BY DEF Told
    <3> QED BY <3>1, <3>2 DEF Followed, InOrder, LossAhead, Unbroken, Waiting
  <2> QED BY <2>1, <2>2 DEF Told
<1>4. CASE UNCHANGED <<sequence, closed, readers>>
  <2>1. \A s \in Subscribers : Followed(s)'
    BY <1>4 DEF readers, Told, Followed, InOrder, LossAhead, Unbroken, Waiting
  <2> QED BY <2>1 DEF Told
<1>5. ASSUME NEW e \in Expectations, Scan(e) \/ Expire(e)
      PROVE  UNCHANGED <<sequence, closed, readers>>
  BY <1>5 DEF Scan, Expire, streams
<1>6. UNCHANGED vars => UNCHANGED <<sequence, closed, readers>>
  BY DEF vars, streams
<1> QED BY <1>1, <1>2, <1>3, <1>4, <1>5, <1>6 DEF Next

\* A subscriber gets the events in order and, unless it is told of a loss,
\* every one published since it subscribed, however long its queue may be and
\* whatever the other subscribers do.
THEOREM NothingLostSilently == Spec => []NoSilentLoss
<1>1. Init /\ TypeOK => Told
  BY DEF Init, Told, Followed, InOrder
<1>2. Told /\ TypeOK' /\ [Next]_vars => Told'
  BY ToldStep
<1>3. Told => NoSilentLoss
  <2> SUFFICES ASSUME Told, NEW s \in Subscribers
               PROVE  /\ InOrder(s)
                      /\ reader[s] \in {"subscribed", "ended"} /\ ~LossAhead(s) => Complete(s)
    BY DEF NoSilentLoss
  <2>1. Followed(s) /\ TypeOK
    BY DEF Told
  <2>2. Len(queue[s]) \in Nat
    BY <2>1, QueueFacts
  <2>3. CASE s \in subscribers
    BY <2>1, <2>2, <2>3, WaitingIsComplete DEF Followed
  <2>4. CASE reader[s] = "subscribed" /\ s \notin subscribers /\ ~LossAhead(s)
    <3>1. /\ Len(queue[s]) - 1 \in Nat /\ Len(queue[s]) - 1 <= Len(queue[s])
          /\ Unbroken(s) /\ Waiting(s, Len(queue[s]) - 1)
      BY <2>1, <2>2, <2>4 DEF Followed
    <3>2. Complete(s)
      BY <2>1, <3>1, WaitingIsComplete
    <3> QED BY <2>1, <3>2 DEF Followed
  <2>5. CASE reader[s] = "ended" /\ ~LossAhead(s)
    <3>1. 0 \in Nat /\ 0 <= Len(queue[s]) /\ Unbroken(s) /\ Waiting(s, 0)
      BY <2>1, <2>2, <2>5 DEF Followed
    <3>2. Complete(s)
      BY <2>1, <3>1, WaitingIsComplete
    <3> QED BY <2>1, <3>2 DEF Followed
  <2> QED BY <2>1, <2>3, <2>4, <2>5 DEF Followed
<1> QED BY <1>1, <1>2, <1>3, TypeCorrectness, PTL DEF Spec
-----------------------------------------------------------------------------
(* What an expectation matches. *)

\* A window is the end of its stream.
Ends(part, whole) ==
  /\ Len(part) <= Len(whole)
  /\ \A i \in 1..Len(part) : part[i] = whole[Len(whole) - Len(part) + i]

LEMMA LatestEnds ==
  ASSUME NEW S, NEW data \in Seq(S), NEW size \in Nat
  PROVE  Ends(Latest(data, size), data)
<1>1. PICK long \in Nat : long = Len(data)
  BY LenProperties
<1>2. CASE long <= size
  <2>1. Latest(data, size) = data
    BY <1>1, <1>2 DEF Latest
  <2> QED BY <1>1, <2>1 DEF Ends
<1>3. CASE long > size
  <2> DEFINE first == long - size + 1
  <2>1. Latest(data, size) = SubSeq(data, first, long)
    BY <1>1, <1>3 DEF Latest
  <2>2. first \in Int /\ long \in Int /\ \A i \in first..long : data[i] \in S
    BY <1>1, <1>3, ElementOfSeq
  <2>3. /\ Len(SubSeq(data, first, long)) = IF first <= long THEN long - first + 1 ELSE 0
        /\ \A i \in 1..(long - first + 1) : SubSeq(data, first, long)[i] = data[first + i - 1]
    <3> HIDE DEF first
    <3> QED BY <2>2, SubSeqProperties
  <2>4. Len(SubSeq(data, first, long)) = size /\ long - first + 1 = size
    BY <1>3, <2>3
  <2>5. \A i \in 1..size : first + i - 1 = long - size + i
    BY <1>3
  <2>6. \A i \in 1..size : Latest(data, size)[i] = data[long - size + i]
    <3> HIDE DEF first
    <3> QED BY <2>1, <2>3, <2>4, <2>5
  <2>7. Len(Latest(data, size)) = size
    BY <2>1, <2>4
  <2> HIDE DEF first
  <2> QED BY <1>1, <1>3, <2>6, <2>7 DEF Ends
<1> QED BY <1>2, <1>3

LEMMA EndsTransitive ==
  ASSUME NEW S, NEW a \in Seq(S), NEW b \in Seq(S), NEW c \in Seq(S), Ends(a, b), Ends(b, c)
  PROVE  Ends(a, c)
<1>1. PICK k \in Nat, m \in Nat, n \in Nat : k = Len(a) /\ m = Len(b) /\ n = Len(c)
  BY LenProperties
<1>2. k <= m /\ m <= n
  BY <1>1 DEF Ends
<1>3. ASSUME NEW i \in 1..k PROVE a[i] = c[n - k + i]
  <2>1. a[i] = b[m - k + i] /\ m - k + i \in 1..m
    BY <1>1, <1>2 DEF Ends
  <2>2. b[m - k + i] = c[n - m + (m - k + i)]
    BY <1>1, <2>1 DEF Ends
  <2>3. n - m + (m - k + i) = n - k + i
    OBVIOUS
  <2> QED BY <2>1, <2>2, <2>3
<1> QED BY <1>1, <1>2, <1>3 DEF Ends

LEMMA EndsExtended ==
  ASSUME NEW S, NEW part \in Seq(S), NEW whole \in Seq(S), NEW data \in Seq(S), Ends(part, whole)
  PROVE  Ends(part \o data, whole \o data)
<1>1. PICK k \in Nat, m \in Nat, n \in Nat : k = Len(part) /\ m = Len(whole) /\ n = Len(data)
  BY LenProperties
<1>2. /\ Len(part \o data) = k + n
      /\ \A i \in 1..(k + n) : (part \o data)[i] = IF i <= k THEN part[i] ELSE data[i - k]
  BY <1>1, ConcatProperties
<1>3. /\ Len(whole \o data) = m + n
      /\ \A i \in 1..(m + n) : (whole \o data)[i] = IF i <= m THEN whole[i] ELSE data[i - m]
  BY <1>1, ConcatProperties
<1>4. k <= m /\ \A i \in 1..k : part[i] = whole[m - k + i]
  BY <1>1 DEF Ends
<1>5. ASSUME NEW i \in 1..(k + n)
      PROVE  (part \o data)[i] = (whole \o data)[(m + n) - (k + n) + i]
  <2>1. (m + n) - (k + n) + i = m - k + i /\ m - k + i \in 1..(m + n)
    BY <1>4
  <2>2. CASE i <= k
    <3>1. m - k + i <= m /\ i \in 1..k
      BY <1>4, <2>2
    <3> QED BY <1>2, <1>3, <1>4, <2>1, <2>2, <3>1
  <2>3. CASE ~(i <= k)
    <3>1. ~(m - k + i <= m) /\ (m - k + i) - m = i - k
      BY <1>4, <2>3
    <3> QED BY <1>2, <1>3, <2>1, <2>3, <3>1
  <2> QED BY <2>2, <2>3
<1> QED BY <1>2, <1>3, <1>4, <1>5 DEF Ends

\* The window that publish leaves is again the end of what was written: a
\* chunk as long as the window pushes all before it out.
LEMMA WindowMovesOn ==
  ASSUME NEW S, NEW window \in Seq(S), NEW whole \in Seq(S), NEW data \in Seq(S), NEW size \in Nat,
         Ends(window, whole)
  PROVE  Ends(Latest(window \o Latest(data, size), size), whole \o data)
<1> DEFINE last == Latest(data, size)
           both == window \o last
           new  == Latest(both, size)
<1>1. last \in Seq(S) /\ Ends(last, data)
  BY LatestIsBounded, LatestEnds
<1>2. both \in Seq(S) /\ whole \o data \in Seq(S)
  BY <1>1, ConcatProperties
<1>3. new \in Seq(S) /\ Ends(new, both) /\ Len(new) <= size
  BY <1>2, LatestIsBounded, LatestEnds
<1>4. CASE Len(data) <= size
  <2>1. both = window \o data
    BY <1>4 DEF Latest
  <2>2. Ends(both, whole \o data)
    <3> HIDE DEF both
    <3> QED BY <2>1, EndsExtended
  <2> HIDE DEF both, new
  <2>3. Ends(new, whole \o data)
    BY <1>2, <1>3, <2>2, EndsTransitive
  <2> QED BY <2>3 DEF both, new
<1>5. CASE ~(Len(data) <= size)
  <2>1. PICK k \in Nat, m \in Nat : k = Len(window) /\ m = Len(data)
    BY LenProperties
  <2>2. Len(last) = size
    <3>1. last = SubSeq(data, m - size + 1, m)
      BY <1>5, <2>1 DEF Latest
    <3>2. m > size /\ \A i \in (m - size + 1)..m : data[i] \in S
      BY <1>5, <2>1, ElementOfSeq
    <3>3. Len(SubSeq(data, m - size + 1, m)) =
            IF m - size + 1 <= m THEN m - (m - size + 1) + 1 ELSE 0
      BY <3>2, SubSeqProperties
    <3> HIDE DEF last
    <3> QED BY <3>1, <3>2, <3>3
  <2> HIDE DEF last
  <2>3. /\ Len(both) = k + size
        /\ \A i \in 1..(k + size) : both[i] = IF i <= k THEN window[i] ELSE last[i - k]
    BY <1>1, <2>1, <2>2, ConcatProperties
  <2> HIDE DEF both
  <2>4. Len(new) = size
    <3>1. CASE k + size <= size
      <4>1. new = both /\ k = 0
        BY <2>3, <3>1 DEF Latest
      <4> QED BY <2>3, <4>1
    <3>2. CASE ~(k + size <= size)
      <4>1. new = SubSeq(both, k + 1, k + size)
        <5>1. (k + size) - size + 1 = k + 1
          OBVIOUS
        <5> QED BY <2>3, <3>2, <5>1 DEF Latest
      <4>2. \A i \in (k + 1)..(k + size) : both[i] \in S
        <5>1. \A i \in (k + 1)..(k + size) : i \in 1..Len(both)
          BY <2>3
        <5> QED BY <1>2, <5>1, ElementOfSeq
      <4>3. Len(SubSeq(both, k + 1, k + size)) =
              IF k + 1 <= k + size THEN (k + size) - (k + 1) + 1 ELSE 0
        BY <4>2, SubSeqProperties
      <4> HIDE DEF new
      <4> QED BY <4>1, <4>3
    <3> QED BY <3>1, <3>2
  <2> HIDE DEF new
  <2>5. Ends(new, last)
    <3>1. ASSUME NEW i \in 1..size PROVE new[i] = last[size - size + i]
      <4>1. new[i] = both[(k + size) - size + i]
        BY <1>3, <2>3, <2>4 DEF Ends
      <4>2. (k + size) - size + i = k + i /\ k + i \in 1..(k + size) /\ ~(k + i <= k) /\ (k + i) - k = i
            /\ size - size + i = i
        OBVIOUS
      <4> QED BY <2>3, <4>1, <4>2
    <3> QED BY <2>2, <2>4, <3>1 DEF Ends
  <2>6. Ends(new, data)
    BY <1>1, <1>3, <2>5, EndsTransitive
  <2>7. Ends(data, whole \o data)
    <3>1. Ends(<<>>, whole) /\ <<>> \in Seq(S) /\ <<>> \o data = data
      BY EmptySeq, ConcatEmptySeq, LenProperties DEF Ends
    <3>2. Ends(<<>> \o data, whole \o data)
      BY <3>1, EndsExtended
    <3> QED BY <3>1, <3>2
  <2>8. Ends(new, whole \o data)
    BY <1>2, <1>3, <2>6, <2>7, EndsTransitive
  <2> QED BY <2>8 DEF new, both, last
<1> QED BY <1>4, <1>5

\* From i and from j on, k elements of two sequences are the same.
Agree(a, b, i, j, k) ==
  i + k <= Len(a) /\ j + k <= Len(b) /\ \A x \in 1..k : a[i + x] = b[j + x]

LEMMA PartsAgree ==
  ASSUME NEW S, NEW a \in Seq(S), NEW b \in Seq(S), NEW i \in Nat, NEW j \in Nat, NEW k \in Nat,
         Agree(a, b, i, j, k)
  PROVE  SubSeq(a, i + 1, i + k) = SubSeq(b, j + 1, j + k)
<1> USE DEF Agree
<1>1. Len(a) \in Nat /\ Len(b) \in Nat
  BY LenProperties
<1>2. /\ \A x \in (i + 1)..(i + k) : a[x] \in S
      /\ \A x \in (j + 1)..(j + k) : b[x] \in S
  <2>1. /\ \A x \in (i + 1)..(i + k) : x \in 1..Len(a)
        /\ \A x \in (j + 1)..(j + k) : x \in 1..Len(b)
    BY <1>1
  <2> QED BY <2>1, ElementOfSeq
<1>3. /\ SubSeq(a, i + 1, i + k) \in Seq(S)
      /\ Len(SubSeq(a, i + 1, i + k)) = k
      /\ \A x \in 1..k : SubSeq(a, i + 1, i + k)[x] = a[i + x]
  <2>1. /\ SubSeq(a, i + 1, i + k) \in Seq(S)
        /\ Len(SubSeq(a, i + 1, i + k)) = IF i + 1 <= i + k THEN (i + k) - (i + 1) + 1 ELSE 0
        /\ \A x \in 1..((i + k) - (i + 1) + 1) : SubSeq(a, i + 1, i + k)[x] = a[(i + 1) + x - 1]
    BY <1>2, SubSeqProperties
  <2>2. (i + k) - (i + 1) + 1 = k /\ (i + 1 <= i + k <=> k # 0)
    OBVIOUS
  <2>3. \A x \in 1..k : (i + 1) + x - 1 = i + x
    OBVIOUS
  <2>4. \A x \in 1..k : SubSeq(a, i + 1, i + k)[x] = a[i + x]
    BY <2>1, <2>2, <2>3
  <2>5. Len(SubSeq(a, i + 1, i + k)) = k
    BY <2>1, <2>2
  <2> QED BY <2>1, <2>4, <2>5
<1>4. /\ SubSeq(b, j + 1, j + k) \in Seq(S)
      /\ Len(SubSeq(b, j + 1, j + k)) = k
      /\ \A x \in 1..k : SubSeq(b, j + 1, j + k)[x] = b[j + x]
  <2>1. /\ SubSeq(b, j + 1, j + k) \in Seq(S)
        /\ Len(SubSeq(b, j + 1, j + k)) = IF j + 1 <= j + k THEN (j + k) - (j + 1) + 1 ELSE 0
        /\ \A x \in 1..((j + k) - (j + 1) + 1) : SubSeq(b, j + 1, j + k)[x] = b[(j + 1) + x - 1]
    BY <1>2, SubSeqProperties
  <2>2. (j + k) - (j + 1) + 1 = k /\ (j + 1 <= j + k <=> k # 0)
    OBVIOUS
  <2>3. \A x \in 1..k : (j + 1) + x - 1 = j + x
    OBVIOUS
  <2>4. \A x \in 1..k : SubSeq(b, j + 1, j + k)[x] = b[j + x]
    BY <2>1, <2>2, <2>3
  <2>5. Len(SubSeq(b, j + 1, j + k)) = k
    BY <2>1, <2>2
  <2> QED BY <2>1, <2>4, <2>5
<1> QED BY <1>3, <1>4, SeqEqual
\* A match lies before the cursor of its stream, where the output has the
\* pattern; the windows show the output.
Width(m) == Len(Calls[m.by].pattern)

Shown ==
  \A n \in Streams :
    Len(output[n]) = offsets[n] /\ cursors[n] <= offsets[n] /\ Ends(windows[n], output[n])

Genuine(m) ==
  /\ m.by \in Expectations /\ m.stream \in Streams /\ m.at \in Nat
  /\ m.at + Width(m) <= cursors[m.stream]
  /\ SubSeq(output[m.stream], m.at + 1, m.at + Width(m)) = Calls[m.by].pattern

Apart(m, k) == k.stream = m.stream => k.at + Width(k) <= m.at \/ m.at + Width(m) <= k.at

Real ==
  /\ Shown
  /\ \A m \in matches : Genuine(m) /\ \A k \in matches \ {m} : Apart(m, k)

LEMMA RealPublish ==
  ASSUME TypeOK, Real, NEW n \in Streams, NEW data \in Chunks, Publish(n, data)
  PROVE  Real'
<1>1. /\ data \in Seq(Bytes) /\ MatchBytes \in Nat
      /\ \A e \in Expectations : Len(Calls[e].pattern) \in Nat
  BY HubAssumption DEF Expectations
<1>2. /\ windows' = [windows EXCEPT ![n] = Latest(@ \o Latest(data, MatchBytes), MatchBytes)]
      /\ offsets' = [offsets EXCEPT ![n] = @ + Len(data)]
      /\ output' = [output EXCEPT ![n] = @ \o data]
      /\ UNCHANGED <<cursors, matches>>
  BY DEF Publish
<1>3. \A k \in Streams : /\ windows[k] \in Seq(Bytes) /\ output[k] \in Seq(Bytes)
                         /\ offsets[k] \in Nat /\ cursors[k] \in Nat
  BY DEF TypeOK, StreamTypes
<1>4. Shown'
  <2>1. ASSUME NEW k \in Streams, k # n
        PROVE  /\ Len(output'[k]) = offsets'[k] /\ cursors'[k] <= offsets'[k]
               /\ Ends(windows'[k], output'[k])
    BY <1>2, <2>1 DEF TypeOK, StreamTypes, Real, Shown
  <2>2. /\ Len(output'[n]) = offsets'[n] /\ cursors'[n] <= offsets'[n]
        /\ Ends(windows'[n], output'[n])
    <3>1. /\ windows'[n] = Latest(windows[n] \o Latest(data, MatchBytes), MatchBytes)
          /\ offsets'[n] = offsets[n] + Len(data) /\ output'[n] = output[n] \o data
          /\ cursors'[n] = cursors[n]
      BY <1>2 DEF TypeOK, StreamTypes
    <3>2. Ends(windows'[n], output'[n])
      BY <1>1, <1>3, <3>1, WindowMovesOn DEF Real, Shown
    <3>3. Len(output[n] \o data) = Len(output[n]) + Len(data) /\ Len(data) \in Nat
      BY <1>1, <1>3, ConcatProperties, LenProperties
    <3>4. Len(output[n]) = offsets[n] /\ cursors[n] <= offsets[n]
      BY DEF Real, Shown
    <3>5. offsets[n] \in Nat /\ cursors[n] \in Nat
      BY <1>3
    <3> QED BY <3>1, <3>2, <3>3, <3>4, <3>5
  <2> QED BY <2>1, <2>2 DEF Shown
<1>5. ASSUME NEW m \in matches PROVE Genuine(m)'
  <2>1. Genuine(m)
    BY DEF Real
  <2>2. m.by \in Expectations /\ m.stream \in Streams /\ m.at \in Nat /\ Width(m) \in Nat
    BY <1>1, <2>1 DEF Genuine, Width
  <2>3. CASE m.stream # n
    <3>1. output'[m.stream] = output[m.stream]
      BY <1>2, <2>2, <2>3 DEF TypeOK, StreamTypes
    <3> QED BY <1>2, <2>1, <3>1 DEF Genuine, Width
  <2>4. CASE m.stream = n
    <3>1. output'[n] = output[n] \o data /\ output[n] \in Seq(Bytes) /\ Len(output[n]) \in Nat
      BY <1>2, <1>3, LenProperties DEF TypeOK, StreamTypes
    <3>2. /\ Len(output'[n]) = Len(output[n]) + Len(data) /\ output'[n] \in Seq(Bytes)
          /\ \A x \in 1..(Len(output[n]) + Len(data)) :
               output'[n][x] = IF x <= Len(output[n]) THEN output[n][x] ELSE data[x - Len(output[n])]
          /\ Len(data) \in Nat
      BY <1>1, <3>1, ConcatProperties, LenProperties
    <3>3. m.at + Width(m) <= Len(output[n])
      <4>1. m.at + Width(m) <= cursors[n] /\ cursors[n] <= offsets[n] /\ Len(output[n]) = offsets[n]
        BY <2>1, <2>4 DEF Genuine, Real, Shown
      <4> QED BY <1>3, <2>2, <4>1
    <3>4. \A x \in 1..Width(m) : output'[n][m.at + x] = output[n][m.at + x]
      <4>1. \A x \in 1..Width(m) : /\ m.at + x \in 1..(Len(output[n]) + Len(data))
                                   /\ m.at + x <= Len(output[n])
        BY <2>2, <3>1, <3>2, <3>3
      <4> QED BY <3>2, <4>1
    <3>5. m.at + Width(m) <= Len(output'[n])
      BY <2>2, <3>1, <3>2, <3>3
    <3>6. SubSeq(output'[n], m.at + 1, m.at + Width(m)) = SubSeq(output[n], m.at + 1, m.at + Width(m))
      <4> DEFINE long == output'[n]
                 short == output[n]
                 at == m.at
                 width == Width(m)
      <4>1. /\ long \in Seq(Bytes) /\ short \in Seq(Bytes) /\ at \in Nat /\ width \in Nat
            /\ Agree(long, short, at, at, width)
        BY <2>2, <3>1, <3>2, <3>3, <3>4, <3>5 DEF Agree
      <4>2. SubSeq(long, at + 1, at + width) = SubSeq(short, at + 1, at + width)
        <5> HIDE DEF long, short, at, width
        <5> QED BY <4>1, PartsAgree
      <4> QED BY <4>2
    <3> QED BY <1>2, <2>1, <2>4, <3>6 DEF Genuine, Width
  <2> QED BY <2>3, <2>4
<1>6. \A m \in matches : \A k \in matches \ {m} : Apart(m, k)'
  BY DEF Real, Apart, Width
<1> QED BY <1>2, <1>4, <1>5, <1>6 DEF Real

LEMMA RealScan ==
  ASSUME TypeOK, Real, NEW e \in Expectations, Scan(e)
  PROVE  Real'
<1>1. UNCHANGED <<windows, offsets, output>>
  BY DEF Scan
<1>2. CASE UNCHANGED <<cursors, matches>>
  BY <1>1, <1>2 DEF Real, Shown, Genuine, Apart, Width
<1>3. ASSUME NEW n \in Found(e), NEW at \in Hits(n, Calls[e].pattern), Consume(e, n, at)
      PROVE  Real'
  <2> DEFINE new == [by |-> e, stream |-> n, at |-> at]
             width == Len(Calls[e].pattern)
             start == at - Base(n)
  <2>1. n \in Streams
    BY HubAssumption DEF Found, Scanned, Streams, Expectations
  <2>2. at \in Nat /\ at >= cursors[n] /\ width \in Nat \ {0}
    BY <2>1, HitsAreAhead
  <2>3. /\ windows[n] \in Seq(Bytes) /\ output[n] \in Seq(Bytes)
        /\ offsets[n] \in Nat /\ cursors[n] \in Nat /\ Len(windows[n]) \in Nat
        /\ Len(windows[n]) <= offsets[n] /\ Len(output[n]) = offsets[n]
        /\ cursors[n] <= offsets[n] /\ Ends(windows[n], output[n])
    BY <2>1, LenProperties DEF TypeOK, StreamTypes, Real, Shown
  <2>4. /\ at >= Base(n) /\ at + width <= offsets[n] /\ Base(n) = offsets[n] - Len(windows[n])
        /\ SubSeq(windows[n], start + 1, start + width) = Calls[e].pattern
        /\ start \in Nat /\ start + width <= Len(windows[n])
    <3>1. /\ at \in Base(n)..(offsets[n] - width)
          /\ SubSeq(windows[n], at - Base(n) + 1, at - Base(n) + width) = Calls[e].pattern
      BY DEF Hits
    <3>2. Base(n) = offsets[n] - Len(windows[n])
      BY DEF Base
    <3>3. PICK base \in Int, long \in Nat, wide \in Nat :
            base = Base(n) /\ long = Len(windows[n]) /\ wide = width
      BY <2>2, <2>3, <3>2
    <3>4. at >= base /\ at + wide <= offsets[n] /\ at - base \in Nat /\ at - base + wide <= long
      <4>1. base = offsets[n] - long /\ at \in base..(offsets[n] - wide)
        BY <3>1, <3>2, <3>3
      <4>2. offsets[n] \in Nat /\ at \in Nat
        BY <2>2, <2>3
      <4> QED BY <4>1, <4>2
    <3> QED BY <3>1, <3>2, <3>3, <3>4
  <2>5. SubSeq(output[n], at + 1, at + width) = Calls[e].pattern
    <3>1. \A x \in 1..width : windows[n][start + x] = output[n][at + x]
      <4>1. ASSUME NEW x \in 1..width PROVE windows[n][start + x] = output[n][at + x]
        <5>1. start + x \in 1..Len(windows[n])
          <6> HIDE DEF start, width
          <6> QED BY <2>2, <2>3, <2>4
        <5>2. windows[n][start + x] = output[n][Len(output[n]) - Len(windows[n]) + (start + x)]
          <6> HIDE DEF start
          <6> QED BY <2>3, <5>1 DEF Ends
        <5>3. Len(output[n]) - Len(windows[n]) + (start + x) = at + x
          <6>1. PICK base \in Int, long \in Nat : base = Base(n) /\ long = Len(windows[n])
            BY <2>3, <2>4
          <6>2. offsets[n] - long + (at - base + x) = at + x
            <7>1. base = offsets[n] - long /\ offsets[n] \in Nat
              BY <2>3, <2>4, <6>1
            <7> QED BY <2>2, <7>1
          <6> QED BY <2>3, <6>1, <6>2
        <5> QED BY <5>2, <5>3
      <4> QED BY <4>1
    <3> DEFINE part  == windows[n]
               whole == output[n]
    <3>2. /\ part \in Seq(Bytes) /\ whole \in Seq(Bytes)
          /\ start \in Nat /\ at \in Nat /\ width \in Nat
          /\ Agree(part, whole, start, at, width)
      BY <2>2, <2>3, <2>4, <3>1 DEF Agree
    <3>3. SubSeq(part, start + 1, start + width) = SubSeq(whole, at + 1, at + width)
      <4> HIDE DEF part, whole, start, width
      <4> QED BY <3>2, PartsAgree
    <3> QED BY <2>4, <3>3
  <2>6. /\ matches' = matches \cup {new} /\ cursors' = [cursors EXCEPT ![n] = at + width]
        /\ \A k \in Streams : cursors'[k] = IF k = n THEN at + width ELSE cursors[k]
    BY <1>3, <2>1 DEF Consume, TypeOK, StreamTypes
  <2>7. Shown'
    <3> HIDE DEF width
    <3>1. ASSUME NEW k \in Streams PROVE cursors'[k] <= offsets[k]
      BY <2>4, <2>6 DEF Real, Shown
    <3> QED BY <1>1, <3>1 DEF Real, Shown
  <2>8. /\ new.by = e /\ new.stream = n /\ new.at = at /\ Width(new) = width
    BY DEF Width
  <2>9. Genuine(new)'
    <3>1. Width(new)' = width /\ output' = output
      BY <1>1, <2>8 DEF Width
    <3>2. cursors'[n] = at + width
      BY <2>1, <2>6
    <3>3. at + width <= at + width
      BY <2>2
    <3> HIDE DEF width
    <3> QED BY <2>1, <2>2, <2>5, <2>8, <3>1, <3>2, <3>3 DEF Genuine
  <2>10. ASSUME NEW m \in matches PROVE Genuine(m)' /\ (m.stream = n => m.at + Width(m) <= at)
    <3>1. Genuine(m) /\ Width(m)' = Width(m) /\ Width(m) \in Nat
      BY HubAssumption DEF Real, Width, Genuine, Expectations
    <3>2. m.stream = n => m.at + Width(m) <= at
      <4> HIDE DEF width
      <4> QED BY <2>2, <2>3, <3>1 DEF Genuine
    <3>3. m.at + Width(m) <= cursors'[m.stream]
      <4>1. m.stream \in Streams /\ m.at \in Nat /\ m.at + Width(m) <= cursors[m.stream]
        BY <3>1 DEF Genuine
      <4>2. CASE m.stream = n
        <5>1. cursors'[m.stream] = at + width /\ m.at + Width(m) <= at
          BY <2>6, <3>2, <4>1, <4>2
        <5> HIDE DEF width
        <5> QED BY <2>2, <3>1, <4>1, <5>1
      <4>3. CASE m.stream # n
        BY <2>6, <4>1, <4>3
      <4> QED BY <4>2, <4>3
    <3> QED BY <1>1, <3>1, <3>2, <3>3 DEF Genuine, Width
  <2>11. ASSUME NEW m \in matches', NEW k \in matches' \ {m} PROVE Apart(m, k)'
    <3>1. CASE m \in matches /\ k \in matches
      BY <2>11, <3>1 DEF Real, Apart, Width
    <3>2. CASE m = new /\ k \in matches
      BY <2>8, <2>10, <3>2 DEF Apart, Width
    <3>3. CASE k = new /\ m \in matches
      BY <2>8, <2>10, <3>3 DEF Apart, Width
    <3> QED BY <2>6, <2>11, <3>1, <3>2, <3>3
  <2> QED BY <2>6, <2>7, <2>9, <2>10, <2>11 DEF Real
<1>4. \/ UNCHANGED <<cursors, matches>>
      \/ \E n \in Found(e) : \E at \in Hits(n, Calls[e].pattern) : Consume(e, n, at)
  BY DEF Scan
<1> QED BY <1>2, <1>3, <1>4

\* Each match is an occurrence of its pattern in what was written, however the
\* chunks split it, and no byte is matched twice.
THEOREM MatchesOccur == Spec => []MatchesAreReal
<1>1. Init => Real
  BY LenProperties, EmptySeq DEF Init, Real, Shown, Ends
<1>2. Real /\ TypeOK /\ [Next]_vars => Real'
  <2> SUFFICES ASSUME Real, TypeOK, [Next]_vars PROVE Real'
    OBVIOUS
  <2>1. CASE UNCHANGED <<streams, matches>>
    BY <2>1 DEF streams, Real, Shown, Genuine, Apart, Width
  <2>2. CASE Finish
    BY <2>1, <2>2 DEF Finish
  <2>3. ASSUME NEW s \in Subscribers, Subscribe(s) \/ Take(s) \/ Leave(s)
        PROVE  Real'
    BY <2>1, <2>3 DEF Subscribe, Take, Leave, prompts
  <2>4. ASSUME NEW e \in Expectations, Expire(e)
        PROVE  Real'
    BY <2>1, <2>4 DEF Expire
  <2>5. UNCHANGED vars => UNCHANGED <<streams, matches>>
    BY DEF vars, prompts
  <2> QED BY <2>1, <2>2, <2>3, <2>4, <2>5, RealPublish, RealScan DEF Next
<1>3. Real => MatchesAreReal
  BY DEF Real, Genuine, Apart, Width, MatchesAreReal
<1> QED BY <1>1, <1>2, <1>3, TypeCorrectness, PTL DEF Spec
=============================================================================
