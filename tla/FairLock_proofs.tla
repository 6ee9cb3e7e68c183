-------------------------- MODULE FairLock_proofs ---------------------------
(***************************************************************************)
(* Type correctness, mutual exclusion, LockedIffHeld, NoLostWakeup and     *)
(* NoOvertaking of FairLock, for every set of clients.  None of them is    *)
(* inductive alone: what makes the lock safe, and its service orderly, is  *)
(* that a completed future is always that of the first waiter, and that    *)
(* the lock is then free.                                                  *)
(***************************************************************************)
EXTENDS FairLock, SequenceTheorems, TLAPS

\* The deque holds each sleeping client once.
WaitersDistinct ==
  \A i, j \in DOMAIN waiters : waiters[i] = waiters[j] => i = j

SleepersQueue ==
  \A c \in Clients : attempt[c] \in Asleep <=> \E i \in DOMAIN waiters : waiters[i] = c

\* Only the first waiter can have been woken, and then the lock is free.
WokenIsFirst ==
  \A i \in DOMAIN waiters :
    attempt[waiters[i]] \in {"woken", "abandoned"} => i = 1 /\ ~locked

IInv ==
  /\ TypeOK
  /\ WaitersDistinct
  /\ SleepersQueue
  /\ WokenIsFirst
  /\ LockedIffHeld
  /\ MutualExclusion
  /\ NoLostWakeup

\* RemoveAt removes one position and keeps the others in order.
LEMMA RemoveAtIsRemoval ==
  ASSUME NEW S, NEW s \in Seq(S), NEW k \in DOMAIN s
  PROVE  /\ RemoveAt(s, k) \in Seq(S)
         /\ Len(RemoveAt(s, k)) = Len(s) - 1
         /\ \A i \in 1..(Len(s) - 1) :
              RemoveAt(s, k)[i] = IF i < k THEN s[i] ELSE s[i + 1]
<1> DEFINE front == SubSeq(s, 1, k - 1)
           back  == SubSeq(s, k + 1, Len(s))
<1>1. Len(s) \in Nat /\ k \in 1..Len(s) /\ \A i \in 1..Len(s) : s[i] \in S
  BY LenProperties, ElementOfSeq
<1>2. front \in Seq(S) /\ Len(front) = k - 1 /\ \A i \in 1..(k - 1) : front[i] = s[i]
  <2>1. \A i \in 1..(k - 1) : s[i] \in S
    BY <1>1
  <2>2. /\ front \in Seq(S)
        /\ Len(front) = IF 1 <= k - 1 THEN (k - 1) - 1 + 1 ELSE 0
        /\ \A i \in 1..((k - 1) - 1 + 1) : front[i] = s[1 + i - 1]
    <3>1. 1 \in Int /\ k - 1 \in Int
      BY <1>1
    <3> QED BY <2>1, <3>1, SubSeqProperties
  <2> QED BY <1>1, <2>2
<1>3. back \in Seq(S) /\ Len(back) = Len(s) - k /\ \A i \in 1..(Len(s) - k) : back[i] = s[k + i]
  <2>1. \A i \in (k + 1)..Len(s) : s[i] \in S
    BY <1>1
  <2>2. /\ back \in Seq(S)
        /\ Len(back) = IF k + 1 <= Len(s) THEN Len(s) - (k + 1) + 1 ELSE 0
        /\ \A i \in 1..(Len(s) - (k + 1) + 1) : back[i] = s[(k + 1) + i - 1]
    <3>1. k + 1 \in Int /\ Len(s) \in Int
      BY <1>1
    <3> QED BY <2>1, <3>1, SubSeqProperties
  <2> QED BY <1>1, <2>2
<1> HIDE DEF front, back
<1>4. /\ front \o back \in Seq(S)
      /\ Len(front \o back) = Len(front) + Len(back)
      /\ \A i \in 1..(Len(front) + Len(back)) :
           (front \o back)[i] = IF i <= Len(front) THEN front[i] ELSE back[i - Len(front)]
  BY <1>2, <1>3, ConcatProperties
<1>5. RemoveAt(s, k) = front \o back
  BY DEF RemoveAt, front, back
<1> QED
  <2>1. Len(front) + Len(back) = Len(s) - 1
    BY <1>1, <1>2, <1>3
  <2>2. ASSUME NEW i \in 1..(Len(s) - 1)
        PROVE  (front \o back)[i] = IF i < k THEN s[i] ELSE s[i + 1]
    <3>1. (front \o back)[i] = IF i <= k - 1 THEN front[i] ELSE back[i - (k - 1)]
      BY <1>2, <1>4, <2>1
    <3>2. CASE i < k
      BY <1>1, <1>2, <3>1, <3>2
    <3>3. CASE ~(i < k)
      <4>1. i - (k - 1) \in 1..(Len(s) - k) /\ k + (i - (k - 1)) = i + 1
        BY <1>1, <3>3
      <4> QED BY <1>1, <1>3, <3>1, <3>3, <4>1
    <3> QED BY <3>2, <3>3
  <2> QED BY <1>4, <1>5, <2>1, <2>2

\* Leaving the deque keeps everyone else in it, once, and the first one first.
LEMMA DequeueKeepsOthers ==
  ASSUME waiters \in Seq(Clients), WaitersDistinct, NEW c \in Clients, Dequeue(c)
  PROVE  /\ waiters' \in Seq(Clients)
         /\ WaitersDistinct'
         /\ \A d \in Clients :
              (\E i \in DOMAIN waiters' : waiters'[i] = d)
                <=> d # c /\ \E i \in DOMAIN waiters : waiters[i] = d
         /\ \A i \in DOMAIN waiters' : waiters'[i] = waiters[1] => i = 1
<1>1. PICK k \in DOMAIN waiters : waiters[k] = c /\ waiters' = RemoveAt(waiters, k)
  BY DEF Dequeue
<1>2. Len(waiters) \in Nat /\ DOMAIN waiters = 1..Len(waiters)
  BY LenProperties
<1>3. /\ waiters' \in Seq(Clients)
      /\ Len(waiters') = Len(waiters) - 1
      /\ \A i \in 1..(Len(waiters) - 1) :
           waiters'[i] = IF i < k THEN waiters[i] ELSE waiters[i + 1]
  BY <1>1, RemoveAtIsRemoval
<1>4. DOMAIN waiters' = 1..(Len(waiters) - 1)
  BY <1>3, LenProperties
<1>5. WaitersDistinct'
  <2>1. ASSUME NEW i \in DOMAIN waiters', NEW j \in DOMAIN waiters', waiters'[i] = waiters'[j]
        PROVE  i = j
    <3> DEFINE old(n) == IF n < k THEN n ELSE n + 1
    <3>1. /\ old(i) \in DOMAIN waiters /\ waiters'[i] = waiters[old(i)]
          /\ old(j) \in DOMAIN waiters /\ waiters'[j] = waiters[old(j)]
      BY <1>1, <1>2, <1>3, <1>4
    <3>2. old(i) = old(j)
      BY <2>1, <3>1 DEF WaitersDistinct
    <3> QED BY <1>2, <1>4, <3>2
  <2> QED BY <2>1 DEF WaitersDistinct
<1>6. ASSUME NEW d \in Clients
      PROVE  (\E i \in DOMAIN waiters' : waiters'[i] = d)
               <=> d # c /\ \E i \in DOMAIN waiters : waiters[i] = d
  <2>1. ASSUME NEW i \in DOMAIN waiters', waiters'[i] = d
        PROVE  d # c /\ \E j \in DOMAIN waiters : waiters[j] = d
    <3> DEFINE j == IF i < k THEN i ELSE i + 1
    <3>1. j \in DOMAIN waiters /\ j # k /\ waiters[j] = d
      BY <1>1, <1>2, <1>3, <1>4, <2>1
    <3>2. d # c
      BY <1>1, <3>1 DEF WaitersDistinct
    <3> QED BY <3>1, <3>2
  <2>2. ASSUME d # c, NEW j \in DOMAIN waiters, waiters[j] = d
        PROVE  \E i \in DOMAIN waiters' : waiters'[i] = d
    <3>1. CASE j < k
      BY <1>1, <1>2, <1>3, <1>4, <2>2, <3>1
    <3>2. CASE j > k
      <4>1. j - 1 \in DOMAIN waiters' /\ waiters'[j - 1] = d
        BY <1>1, <1>2, <1>3, <1>4, <2>2, <3>2
      <4> QED BY <4>1
    <3>3. j # k
      BY <1>1, <2>2
    <3> QED BY <1>1, <1>2, <3>1, <3>2, <3>3
  <2> QED BY <2>1, <2>2
<1>7. ASSUME NEW i \in DOMAIN waiters', waiters'[i] = waiters[1]
      PROVE  i = 1
  BY <1>1, <1>2, <1>3, <1>4, <1>7 DEF WaitersDistinct
<1> QED BY <1>3, <1>5, <1>6, <1>7

\* A wake-up turns the first of the queue from waiting to woken, or nothing.
LEMMA WakeFirstWakes ==
  ASSUME NEW queue \in Seq(Clients), NEW stages \in [Clients -> Stages]
  PROVE  /\ WakeFirst(queue, stages) \in [Clients -> Stages]
         /\ \A c \in Clients :
              WakeFirst(queue, stages)[c] # stages[c] =>
                /\ queue # <<>> /\ c = queue[1]
                /\ stages[c] = "waiting" /\ WakeFirst(queue, stages)[c] = "woken"
         /\ queue # <<>> => WakeFirst(queue, stages)[queue[1]] # "waiting"
<1>1. queue # <<>> => Head(queue) = queue[1] /\ queue[1] \in Clients
  <2> SUFFICES ASSUME queue # <<>> PROVE Head(queue) = queue[1] /\ queue[1] \in Clients
    OBVIOUS
  <2>1. 1 \in 1..Len(queue)
    BY EmptySeq, LenProperties
  <2> QED BY <2>1, ElementOfSeq
<1>2. CASE queue # <<>> /\ stages[Head(queue)] = "waiting"
  <2>1. WakeFirst(queue, stages) = [stages EXCEPT ![queue[1]] = "woken"]
    BY <1>1, <1>2 DEF WakeFirst
  <2> QED BY <1>1, <1>2, <2>1 DEF Stages, Asleep
<1>3. CASE ~(queue # <<>> /\ stages[Head(queue)] = "waiting")
  <2>1. WakeFirst(queue, stages) = stages
    BY <1>3 DEF WakeFirst
  <2> QED BY <1>1, <1>3, <2>1
<1> QED BY <1>2, <1>3

\* The invariant is inductive, one step per action.
LEMMA InductiveInit == Init => IInv
<1> SUFFICES ASSUME Init PROVE IInv
  OBVIOUS
<1>1. waiters = <<>> /\ DOMAIN waiters = {} /\ ~locked
  BY DEF Init
<1>2. TypeOK
  BY EmptySeq DEF Init, TypeOK, Stages
<1> QED
  BY <1>1, <1>2 DEF Init, IInv, WaitersDistinct, SleepersQueue, Asleep, WokenIsFirst,
                    LockedIffHeld, MutualExclusion, NoLostWakeup

LEMMA InductiveAcquire ==
  ASSUME IInv, NEW c \in Clients, Acquire(c)
  PROVE  IInv'
<1> USE DEF IInv
<1>1. attempt[c] = "idle" /\ \A i \in DOMAIN waiters : waiters[i] # c
  BY DEF Acquire, SleepersQueue, Asleep
<1>2. CASE ~locked /\ NobodyAhead
  <2>1. locked' = TRUE /\ attempt' = [attempt EXCEPT ![c] = "held"] /\ waiters' = waiters
    BY <1>2 DEF Acquire
  <2>2. TypeOK'
    BY <2>1 DEF TypeOK, Stages
  <2>3. WaitersDistinct' /\ SleepersQueue'
    BY <1>1, <2>1 DEF TypeOK, WaitersDistinct, SleepersQueue, Asleep
  <2>4. WokenIsFirst'
    BY <1>1, <1>2, <2>1 DEF TypeOK, WokenIsFirst, NobodyAhead
  <2>5. LockedIffHeld' /\ MutualExclusion' /\ NoLostWakeup'
    BY <1>2, <2>1 DEF TypeOK, LockedIffHeld, MutualExclusion, NoLostWakeup
  <2> QED BY <2>2, <2>3, <2>4, <2>5
<1>3. CASE ~(~locked /\ NobodyAhead)
  <2>1. /\ locked' = locked /\ waiters' = Append(waiters, c)
        /\ attempt' = [attempt EXCEPT ![c] = "waiting"]
    BY <1>3 DEF Acquire
  <2>2. /\ Len(waiters) \in Nat /\ DOMAIN waiters = 1..Len(waiters)
        /\ waiters' \in Seq(Clients) /\ waiters' # <<>>
        /\ DOMAIN waiters' = 1..(Len(waiters) + 1)
        /\ \A i \in 1..Len(waiters) : waiters'[i] = waiters[i]
        /\ waiters'[Len(waiters) + 1] = c
    BY <2>1, AppendProperties, LenProperties DEF TypeOK
  <2>3. TypeOK'
    BY <2>1, <2>2 DEF TypeOK, Stages, Asleep
  <2>4. WaitersDistinct'
    BY <1>1, <2>2 DEF WaitersDistinct
  <2>5. SleepersQueue'
    BY <1>1, <2>1, <2>2 DEF TypeOK, SleepersQueue, Asleep
  <2>6. WokenIsFirst'
    BY <1>1, <2>1, <2>2 DEF TypeOK, WokenIsFirst
  <2>7. LockedIffHeld' /\ MutualExclusion'
    BY <1>1, <2>1 DEF TypeOK, LockedIffHeld, MutualExclusion
  <2>8. NoLostWakeup'
    <3>1. ~locked => waiters # <<>>
      BY <1>3 DEF NobodyAhead
    <3>2. waiters # <<>> => Head(waiters') = Head(waiters) /\ Head(waiters) # c
      BY <1>1, <2>2, EmptySeq DEF TypeOK
    <3> QED BY <2>1, <3>1, <3>2 DEF TypeOK, NoLostWakeup
  <2> QED BY <2>3, <2>4, <2>5, <2>6, <2>7, <2>8
<1> QED BY <1>2, <1>3

LEMMA InductiveResume ==
  ASSUME IInv, NEW c \in Clients, Resume(c)
  PROVE  IInv'
<1> USE DEF IInv
<1>1. /\ attempt[c] = "woken" /\ Dequeue(c)
      /\ locked' = TRUE /\ attempt' = [attempt EXCEPT ![c] = "held"]
  BY DEF Resume
<1>2. /\ waiters' \in Seq(Clients) /\ WaitersDistinct'
      /\ \A d \in Clients :
           (\E i \in DOMAIN waiters' : waiters'[i] = d)
             <=> d # c /\ \E i \in DOMAIN waiters : waiters[i] = d
  BY <1>1, DequeueKeepsOthers DEF TypeOK
<1>3. ~locked /\ waiters[1] = c
  BY <1>1 DEF SleepersQueue, Asleep, WokenIsFirst
<1>4. TypeOK'
  BY <1>1, <1>2 DEF TypeOK, Stages
<1>5. SleepersQueue'
  BY <1>1, <1>2 DEF TypeOK, SleepersQueue, Asleep
<1>6. WokenIsFirst'
  <2>1. ASSUME NEW i \in DOMAIN waiters', attempt'[waiters'[i]] \in {"woken", "abandoned"}
        PROVE  FALSE
    <3>1. waiters'[i] \in Clients
      BY <1>2, ElementOfSeq, LenProperties
    <3>2. waiters'[i] # c /\ \E j \in DOMAIN waiters : waiters[j] = waiters'[i]
      BY <1>2, <3>1
    <3>3. attempt'[waiters'[i]] = attempt[waiters'[i]]
      BY <1>1, <3>1, <3>2 DEF TypeOK
    <3> QED BY <1>3, <2>1, <3>2, <3>3 DEF WokenIsFirst
  <2> QED BY <2>1 DEF WokenIsFirst
<1>7. LockedIffHeld' /\ MutualExclusion' /\ NoLostWakeup'
  BY <1>1, <1>3 DEF TypeOK, LockedIffHeld, MutualExclusion, NoLostWakeup
<1> QED BY <1>2, <1>4, <1>5, <1>6, <1>7

LEMMA InductiveCancel ==
  ASSUME IInv, NEW c \in Clients, Cancel(c)
  PROVE  IInv'
<1> USE DEF IInv
<1>1. UNCHANGED <<locked, waiters>> /\ attempt[c] \in {"waiting", "woken"}
  BY DEF Cancel
<1>2. attempt' = [attempt EXCEPT ![c] = IF attempt[c] = "waiting" THEN "aborted" ELSE "abandoned"]
  BY DEF Cancel, Cancelled, TypeOK
<1>3. TypeOK' /\ WaitersDistinct' /\ SleepersQueue'
  BY <1>1, <1>2 DEF TypeOK, Stages, Asleep, WaitersDistinct, SleepersQueue
<1>4. WokenIsFirst'
  <2>1. \A i \in DOMAIN waiters : waiters[i] \in Clients
    BY ElementOfSeq, LenProperties DEF TypeOK
  <2> QED BY <1>1, <1>2, <2>1 DEF TypeOK, WokenIsFirst
<1>5. LockedIffHeld' /\ MutualExclusion'
  BY <1>1, <1>2 DEF TypeOK, LockedIffHeld, MutualExclusion
<1>6. NoLostWakeup'
  <2>1. waiters # <<>> => Head(waiters) \in Clients
    BY HeadTailProperties DEF TypeOK
  <2> QED BY <1>1, <1>2, <2>1 DEF TypeOK, NoLostWakeup
<1> QED BY <1>3, <1>4, <1>5, <1>6

\* A client that was asleep leaves the deque for good, passing on the wake-up
\* it may have been given.
Leaves(c, final) ==
  /\ Dequeue(c)
  /\ locked' = locked
  /\ LET left == [attempt EXCEPT ![c] = final]
     IN attempt' = IF locked THEN left ELSE WakeFirst(waiters', left)

LEMMA InductiveLeave ==
  ASSUME IInv, NEW c \in Clients, NEW final \in {"cancelled", "released"}, Leaves(c, final)
  PROVE  IInv'
<1> USE DEF IInv
<1> DEFINE left == [attempt EXCEPT ![c] = final]
<1>1. /\ attempt[c] \in Asleep /\ Dequeue(c) /\ locked' = locked
      /\ attempt' = IF locked THEN left ELSE WakeFirst(waiters', left)
  BY DEF Leaves, Dequeue, SleepersQueue
<1>2. /\ waiters' \in Seq(Clients) /\ WaitersDistinct'
      /\ \A d \in Clients :
           (\E i \in DOMAIN waiters' : waiters'[i] = d)
             <=> d # c /\ \E i \in DOMAIN waiters : waiters[i] = d
      /\ \A i \in DOMAIN waiters' : waiters'[i] = waiters[1] => i = 1
  BY <1>1, DequeueKeepsOthers DEF TypeOK
<1>3. left \in [Clients -> Stages]
  BY DEF TypeOK, Stages
<1>4. \A i \in DOMAIN waiters' : waiters'[i] \in Clients \ {c}
  BY <1>2, ElementOfSeq, LenProperties
<1>5. waiters' # <<>> => Head(waiters') = waiters'[1] /\ 1 \in DOMAIN waiters'
  BY <1>2, EmptySeq, LenProperties
\* Everyone but c keeps its stage, except that the first may be woken.
<1>6. /\ attempt' \in [Clients -> Stages]
      /\ attempt'[c] = final
      /\ \A d \in Clients \ {c} :
           attempt'[d] # attempt[d] =>
             /\ waiters' # <<>> /\ d = waiters'[1] /\ ~locked
             /\ attempt[d] = "waiting" /\ attempt'[d] = "woken"
      /\ ~locked /\ waiters' # <<>> => attempt'[waiters'[1]] # "waiting"
  <2>1. left[c] = final /\ \A d \in Clients \ {c} : left[d] = attempt[d]
    BY DEF TypeOK
  <2> HIDE DEF left
  <2>2. CASE locked
    BY <1>1, <1>3, <2>1, <2>2
  <2>3. CASE ~locked
    <3>1. attempt' = WakeFirst(waiters', left)
      BY <1>1, <2>3
    <3>2. /\ attempt' \in [Clients -> Stages]
          /\ \A d \in Clients : attempt'[d] # left[d] =>
               /\ waiters' # <<>> /\ d = waiters'[1]
               /\ left[d] = "waiting" /\ attempt'[d] = "woken"
          /\ waiters' # <<>> => attempt'[waiters'[1]] # "waiting"
      BY <1>2, <1>3, <3>1, WakeFirstWakes
    <3> QED BY <2>1, <2>3, <3>2
  <2> QED BY <2>2, <2>3
<1> HIDE DEF left
<1>7. TypeOK'
  BY <1>1, <1>2, <1>6 DEF TypeOK
<1>8. SleepersQueue'
  <2>1. ASSUME NEW d \in Clients
        PROVE  attempt'[d] \in Asleep <=> d # c /\ attempt[d] \in Asleep
    BY <1>6 DEF Asleep
  <2> QED BY <1>2, <2>1 DEF SleepersQueue
<1>9. WokenIsFirst'
  <2>1. ASSUME NEW i \in DOMAIN waiters', attempt'[waiters'[i]] \in {"woken", "abandoned"}
        PROVE  i = 1 /\ ~locked
    <3>1. CASE attempt'[waiters'[i]] # attempt[waiters'[i]]
      BY <1>2, <1>4, <1>5, <1>6, <3>1 DEF WaitersDistinct
    <3>2. CASE attempt'[waiters'[i]] = attempt[waiters'[i]]
      <4>1. PICK j \in DOMAIN waiters : waiters[j] = waiters'[i]
        BY <1>2, <1>4
      <4>2. j = 1 /\ ~locked
        BY <2>1, <3>2, <4>1 DEF WokenIsFirst
      <4> QED BY <1>2, <4>1, <4>2
    <3> QED BY <3>1, <3>2
  <2> QED BY <1>1, <2>1 DEF WokenIsFirst
<1>10. \A d \in Clients : attempt'[d] = "held" <=> attempt[d] = "held"
  BY <1>1, <1>6 DEF Asleep
<1>11. LockedIffHeld'
  BY <1>1, <1>10 DEF LockedIffHeld
<1>12. MutualExclusion'
  BY <1>10 DEF MutualExclusion
<1>13. NoLostWakeup'
  BY <1>1, <1>5, <1>6 DEF NoLostWakeup
<1> QED BY <1>2, <1>7, <1>8, <1>9, <1>11, <1>12, <1>13

LEMMA InductiveUnwind ==
  ASSUME IInv, NEW c \in Clients, Unwind(c)
  PROVE  IInv'
BY InductiveLeave DEF Unwind, Leaves

LEMMA InductiveResumeUse ==
  ASSUME IInv, NEW c \in Clients, ResumeUse(c)
  PROVE  IInv'
<1>1. attempt[c] = "woken" /\ Dequeue(c) /\ locked' = FALSE
      /\ attempt' = WakeFirst(waiters', [attempt EXCEPT ![c] = "released"])
  BY DEF ResumeUse
<1>2. ~locked
  BY <1>1 DEF Dequeue, IInv, WokenIsFirst
<1> QED BY <1>1, <1>2, InductiveLeave DEF Leaves, IInv, TypeOK

\* Whoever frees the lock while nobody else holds it or was woken.
LEMMA InductiveFree ==
  ASSUME IInv, NEW c \in Clients, Free(c),
         attempt[c] \notin Asleep,
         \A d \in Clients \ {c} : attempt[d] # "held",
         \A i \in DOMAIN waiters : attempt[waiters[i]] \notin {"woken", "abandoned"}
  PROVE  IInv'
<1> USE DEF IInv
<1> DEFINE left == [attempt EXCEPT ![c] = "released"]
<1>1. /\ locked' = FALSE /\ waiters' = waiters
      /\ attempt' = WakeFirst(waiters, left)
  BY DEF Free
<1>2. left \in [Clients -> Stages] /\ waiters \in Seq(Clients)
  BY DEF TypeOK, Stages
<1>3. left[c] = "released" /\ \A d \in Clients \ {c} : left[d] = attempt[d]
  BY DEF TypeOK
<1> HIDE DEF left
<1>4. /\ attempt' \in [Clients -> Stages]
      /\ \A d \in Clients : attempt'[d] # left[d] =>
           /\ waiters # <<>> /\ d = waiters[1]
           /\ left[d] = "waiting" /\ attempt'[d] = "woken"
      /\ waiters # <<>> => attempt'[waiters[1]] # "waiting"
  BY <1>1, <1>2, WakeFirstWakes
<1>5. TypeOK' /\ WaitersDistinct'
  BY <1>1, <1>2, <1>4 DEF TypeOK, WaitersDistinct
<1>6. \A i \in DOMAIN waiters : waiters[i] \in Clients \ {c}
  <2>1. \A i \in DOMAIN waiters : waiters[i] \in Clients
    BY <1>2, ElementOfSeq, LenProperties
  <2> QED BY <1>1, <2>1 DEF SleepersQueue, Asleep
<1>7. SleepersQueue'
  <2>1. ASSUME NEW d \in Clients
        PROVE  attempt'[d] \in Asleep <=> attempt[d] \in Asleep
    BY <1>1, <1>3, <1>4 DEF Asleep
  <2> QED BY <1>1, <2>1 DEF SleepersQueue
<1>8. WokenIsFirst'
  <2>1. ASSUME NEW i \in DOMAIN waiters, attempt'[waiters[i]] \in {"woken", "abandoned"}
        PROVE  i = 1
    <3>1. CASE attempt'[waiters[i]] # left[waiters[i]]
      <4>1. waiters[i] = waiters[1] /\ 1 \in DOMAIN waiters
        BY <1>2, <1>4, <1>6, <3>1, EmptySeq, LenProperties
      <4> QED BY <4>1 DEF WaitersDistinct
    <3>2. CASE attempt'[waiters[i]] = left[waiters[i]]
      BY <1>1, <1>3, <1>6, <2>1, <3>2 DEF WokenIsFirst
    <3> QED BY <3>1, <3>2
  <2> QED BY <1>1, <2>1 DEF WokenIsFirst
<1>9. LockedIffHeld' /\ MutualExclusion'
  <2>1. ASSUME NEW d \in Clients
        PROVE  attempt'[d] # "held"
    BY <1>1, <1>3, <1>4
  <2> QED BY <1>1, <2>1 DEF LockedIffHeld, MutualExclusion
<1>10. NoLostWakeup'
  <2>1. waiters # <<>> => Head(waiters) = waiters[1]
    OBVIOUS
  <2> QED BY <1>1, <1>4, <2>1 DEF NoLostWakeup
<1> QED BY <1>5, <1>7, <1>8, <1>9, <1>10

LEMMA InductiveRelease ==
  ASSUME IInv, NEW c \in Clients, Release(c)
  PROVE  IInv'
<1>1. attempt[c] = "held" /\ locked /\ Free(c)
  BY DEF Release, IInv, LockedIffHeld
<1>2. \A d \in Clients \ {c} : attempt[d] # "held"
  BY <1>1 DEF IInv, MutualExclusion
<1>3. \A i \in DOMAIN waiters : attempt[waiters[i]] \notin {"woken", "abandoned"}
  BY <1>1 DEF IInv, WokenIsFirst
<1> QED BY <1>1, <1>2, <1>3, InductiveFree DEF Asleep

LEMMA InductiveUse ==
  ASSUME IInv, NEW c \in Clients, Use(c)
  PROVE  IInv'
<1>1. attempt[c] = "idle" /\ ~locked /\ NobodyAhead /\ Free(c)
  BY DEF Use
<1>2. \A d \in Clients : attempt[d] # "held"
  BY <1>1 DEF IInv, LockedIffHeld
<1>3. \A i \in DOMAIN waiters : attempt[waiters[i]] \notin {"woken", "abandoned"}
  BY <1>1 DEF NobodyAhead
<1> QED BY <1>1, <1>2, <1>3, InductiveFree DEF Asleep

\* The strengthened invariant holds in every behaviour of the lock.
THEOREM Invariance == Spec => []IInv
<1>1. Init => IInv
  BY InductiveInit
<1>2. IInv /\ [Next]_vars => IInv'
  <2> SUFFICES ASSUME IInv, [Next]_vars PROVE IInv'
    OBVIOUS
  <2>1. CASE UNCHANGED vars
    BY <2>1 DEF vars, IInv, TypeOK, WaitersDistinct, SleepersQueue, WokenIsFirst,
                LockedIffHeld, MutualExclusion, NoLostWakeup
  <2>2. ASSUME NEW c \in Clients, Acquire(c) PROVE IInv'
    BY <2>2, InductiveAcquire
  <2>3. ASSUME NEW c \in Clients, Resume(c) PROVE IInv'
    BY <2>3, InductiveResume
  <2>4. ASSUME NEW c \in Clients, Cancel(c) PROVE IInv'
    BY <2>4, InductiveCancel
  <2>5. ASSUME NEW c \in Clients, Unwind(c) PROVE IInv'
    BY <2>5, InductiveUnwind
  <2>6. ASSUME NEW c \in Clients, Release(c) PROVE IInv'
    BY <2>6, InductiveRelease
  <2>7. ASSUME NEW c \in Clients, Use(c) PROVE IInv'
    BY <2>7, InductiveUse
  <2>8. ASSUME NEW c \in Clients, ResumeUse(c) PROVE IInv'
    BY <2>8, InductiveResumeUse
  <2> QED BY <2>1, <2>2, <2>3, <2>4, <2>5, <2>6, <2>7, <2>8 DEF Next
<1> QED BY <1>1, <1>2, PTL DEF Spec

\* The variables of the lock keep their types.
THEOREM TypeCorrectness == Spec => []TypeOK
<1>1. IInv => TypeOK
  BY DEF IInv
<1> QED BY <1>1, Invariance, PTL

\* At most one client holds the lock.
THEOREM Exclusion == Spec => []MutualExclusion
<1>1. IInv => MutualExclusion
  BY DEF IInv
<1> QED BY <1>1, Invariance, PTL

\* The lock is locked exactly while a client holds it.
THEOREM LockedExactlyWhileHeld == Spec => []LockedIffHeld
<1>1. IInv => LockedIffHeld
  BY DEF IInv
<1> QED BY <1>1, Invariance, PTL

\* A free lock that somebody waits for has its next resumption scheduled.
THEOREM WakeupsAreKept == Spec => []NoLostWakeup
<1>1. IInv => NoLostWakeup
  BY DEF IInv
<1> QED BY <1>1, Invariance, PTL
\* Who is first in the queue has nobody ahead.
LEMMA FirstHasNobodyAhead ==
  ASSUME IInv, NEW c \in Clients, attempt[c] = "woken"
  PROVE  Ahead(c) = {}
<1>1. PICK i \in DOMAIN waiters : waiters[i] = c
  BY DEF IInv, SleepersQueue, Asleep
<1>2. i = 1
  BY <1>1 DEF IInv, WokenIsFirst
<1>3. \A k \in DOMAIN waiters : 1 \in 1..k
  BY LenProperties DEF IInv, TypeOK
<1> QED BY <1>1, <1>2, <1>3 DEF Ahead

\* Service is in order of arrival: whoever gets the lock, everyone queued before
\* it has been cancelled.
THEOREM ServiceInOrder == Spec => NoOvertaking
<1> DEFINE Passed(c) == attempt[c] \notin Served /\ attempt'[c] \in Served
<1>1. ASSUME IInv, [Next]_vars, NEW c \in Clients, Passed(c)
      PROVE  \A d \in Ahead(c) : attempt[d] = "aborted"
  <2>1. ASSUME NobodyAhead PROVE \A d \in Ahead(c) : attempt[d] = "aborted"
    BY <2>1 DEF NobodyAhead, Ahead
  <2>2. ASSUME NEW queue \in Seq(Clients), NEW stages \in [Clients -> Stages],
               attempt' = WakeFirst(queue, stages)
        PROVE  stages[c] \in Served
    BY <1>1, <2>2, WakeFirstWakes DEF Served
  <2>3. attempt \in [Clients -> Stages] /\ waiters \in Seq(Clients)
    BY <1>1 DEF IInv, TypeOK
  <2>4. ASSUME NEW b \in Clients, Acquire(b) PROVE \A d \in Ahead(c) : attempt[d] = "aborted"
    BY <1>1, <2>1, <2>3, <2>4 DEF Acquire, Served
  <2>5. ASSUME NEW b \in Clients, Dequeue(b) PROVE waiters' \in Seq(Clients)
    BY <1>1, <2>5, DequeueKeepsOthers DEF IInv, TypeOK
  <2>6. ASSUME NEW b \in Clients, Resume(b) PROVE Ahead(c) = {}
    <3>1. b = c /\ attempt[c] = "woken"
      BY <1>1, <2>3, <2>6 DEF Resume, Served
    <3> QED BY <1>1, <3>1, FirstHasNobodyAhead
  <2>7. ASSUME NEW b \in Clients, ResumeUse(b) PROVE Ahead(c) = {}
    <3> DEFINE left == [attempt EXCEPT ![b] = "released"]
    <3>1. left \in [Clients -> Stages]
      BY <2>3 DEF Stages
    <3>2. attempt' = WakeFirst(waiters', left) /\ waiters' \in Seq(Clients) /\ attempt[b] = "woken"
      BY <2>5, <2>7 DEF ResumeUse
    <3>3. left[c] \in Served
      <4> HIDE DEF left
      <4> QED BY <2>2, <3>1, <3>2
    <3>4. b = c
      BY <1>1, <2>3, <3>3
    <3> QED BY <1>1, <3>2, <3>4, FirstHasNobodyAhead
  <2>8. ASSUME NEW b \in Clients, Unwind(b) PROVE FALSE
    <3> DEFINE left == [attempt EXCEPT ![b] = "cancelled"]
    <3>1. left \in [Clients -> Stages]
      BY <2>3 DEF Stages
    <3>2. /\ waiters' \in Seq(Clients)
          /\ attempt' = left \/ attempt' = WakeFirst(waiters', left)
      BY <2>5, <2>8 DEF Unwind
    <3>3. left[c] \in Served
      <4> HIDE DEF left
      <4> QED BY <1>1, <2>2, <3>1, <3>2
    <3> QED BY <1>1, <2>3, <3>3 DEF Served
  <2>9. ASSUME NEW b \in Clients, Free(b) PROVE b = c
    <3> DEFINE left == [attempt EXCEPT ![b] = "released"]
    <3>1. left \in [Clients -> Stages]
      BY <2>3 DEF Stages
    <3>2. attempt' = WakeFirst(waiters, left)
      BY <2>9 DEF Free
    <3>3. left[c] \in Served
      <4> HIDE DEF left
      <4> QED BY <2>2, <2>3, <3>1, <3>2
    <3> QED BY <1>1, <2>3, <3>3
  <2>10. ASSUME NEW b \in Clients, Release(b) PROVE FALSE
    BY <1>1, <2>9, <2>10 DEF Release, Served
  <2>11. ASSUME NEW b \in Clients, Use(b) PROVE \A d \in Ahead(c) : attempt[d] = "aborted"
    BY <2>1, <2>11 DEF Use
  <2>12. ASSUME NEW b \in Clients, Cancel(b) PROVE FALSE
    BY <1>1, <2>3, <2>12 DEF Cancel, Cancelled, Served
  <2>13. CASE UNCHANGED vars
    BY <1>1, <2>13 DEF vars
  <2> QED BY <1>1, <2>4, <2>6, <2>7, <2>8, <2>10, <2>11, <2>12, <2>13 DEF Next
<1>2. IInv /\ [Next]_vars =>
        [\A c \in Clients : Passed(c) => \A d \in Ahead(c) : attempt[d] = "aborted"]_vars
  BY <1>1
<1> QED BY <1>2, Invariance, PTL DEF Spec, NoOvertaking
-----------------------------------------------------------------------------
(* What a user of the lock has to know of its queue.                       *)

\* x queues before y.
Before(x, y) ==
  \E i, j \in DOMAIN waiters : i < j /\ waiters[i] = x /\ waiters[j] = y

LEMMA QueuedSleep ==
  ASSUME IInv, NEW x \in Clients, NEW y \in Clients, Before(x, y)
  PROVE  attempt[x] \in Asleep /\ attempt[y] \in Asleep
BY DEF Before, IInv, SleepersQueue

\* Leaving the deque changes the order of nobody else.
LEMMA DequeueKeepsOrder ==
  ASSUME waiters \in Seq(Clients), NEW c \in Clients, Dequeue(c),
         NEW x, NEW y, Before(x, y)'
  PROVE  Before(x, y)
<1>1. PICK k \in DOMAIN waiters : waiters' = RemoveAt(waiters, k)
  BY DEF Dequeue
<1>2. Len(waiters) \in Nat /\ DOMAIN waiters = 1..Len(waiters)
  BY LenProperties
<1>3. /\ waiters' \in Seq(Clients)
      /\ Len(waiters') = Len(waiters) - 1
      /\ \A i \in 1..(Len(waiters) - 1) :
           waiters'[i] = IF i < k THEN waiters[i] ELSE waiters[i + 1]
  BY <1>1, RemoveAtIsRemoval
<1>4. DOMAIN waiters' = 1..(Len(waiters) - 1)
  BY <1>3, LenProperties
<1>5. PICK i \in DOMAIN waiters', j \in DOMAIN waiters' :
        i < j /\ waiters'[i] = x /\ waiters'[j] = y
  BY DEF Before
<1> DEFINE old(n) == IF n < k THEN n ELSE n + 1
<1>6. /\ old(i) \in DOMAIN waiters /\ waiters[old(i)] = x
      /\ old(j) \in DOMAIN waiters /\ waiters[old(j)] = y
  BY <1>1, <1>2, <1>3, <1>4, <1>5
<1>7. old(i) < old(j)
  BY <1>1, <1>2, <1>4, <1>5
<1> HIDE DEF old
<1> QED BY <1>6, <1>7 DEF Before

\* A client's step leaves the stages of the others alone, but for a wake-up, and
\* only lets it queue behind those who sleep.
LEMMA StepOfOne ==
  ASSUME IInv, NEW c \in Clients,
         \/ Acquire(c) \/ Resume(c) \/ Cancel(c) \/ Unwind(c) \/ Free(c) \/ ResumeUse(c)
         \/ UNCHANGED vars
  PROVE  /\ \A d \in Clients \ {c} :
              attempt'[d] = attempt[d] \/ (attempt[d] = "waiting" /\ attempt'[d] = "woken")
         /\ \A x, y \in Clients :
              Before(x, y)' => \/ Before(x, y)
                               \/ y = c /\ Acquire(c) /\ attempt[x] \in Asleep
<1>1. attempt \in [Clients -> Stages] /\ waiters \in Seq(Clients)
  BY DEF IInv, TypeOK
<1> DEFINE Others == \A d \in Clients \ {c} :
              attempt'[d] = attempt[d] \/ (attempt[d] = "waiting" /\ attempt'[d] = "woken")
           Order == \A x, y \in Clients : Before(x, y)' => Before(x, y)
<1>2. ASSUME NEW final \in {"cancelled", "released"}, NEW queue \in Seq(Clients),
             attempt' = WakeFirst(queue, [attempt EXCEPT ![c] = final])
      PROVE  Others
  <2> DEFINE left == [attempt EXCEPT ![c] = final]
  <2>1. left \in [Clients -> Stages] /\ \A d \in Clients \ {c} : left[d] = attempt[d]
    BY <1>1 DEF Stages
  <2> HIDE DEF left
  <2>2. \A d \in Clients : attempt'[d] # left[d] => left[d] = "waiting" /\ attempt'[d] = "woken"
    BY <1>2, <2>1, WakeFirstWakes DEF left
  <2> QED BY <2>1, <2>2
<1>3. ASSUME Dequeue(c) PROVE Order /\ waiters' \in Seq(Clients)
  BY <1>1, <1>3, DequeueKeepsOrder, DequeueKeepsOthers DEF IInv
<1>4. ASSUME UNCHANGED waiters PROVE Order
  BY <1>4 DEF Before
<1>5. CASE Acquire(c)
  <2>1. Others
    BY <1>1, <1>5 DEF Acquire
  <2>2. CASE UNCHANGED waiters
    BY <1>4, <2>1, <2>2
  <2>3. CASE waiters' = Append(waiters, c)
    <3>1. /\ Len(waiters) \in Nat /\ DOMAIN waiters = 1..Len(waiters)
          /\ DOMAIN waiters' = 1..(Len(waiters) + 1)
          /\ \A i \in 1..Len(waiters) : waiters'[i] = waiters[i]
          /\ waiters'[Len(waiters) + 1] = c
      BY <1>1, <2>3, AppendProperties, LenProperties
    <3>2. ASSUME NEW x \in Clients, NEW y \in Clients, Before(x, y)'
          PROVE  Before(x, y) \/ (y = c /\ attempt[x] \in Asleep)
      <4>1. PICK i \in DOMAIN waiters', j \in DOMAIN waiters' :
              i < j /\ waiters'[i] = x /\ waiters'[j] = y
        BY <3>2 DEF Before
      <4>2. i \in DOMAIN waiters /\ waiters[i] = x
        BY <3>1, <4>1
      <4>3. attempt[x] \in Asleep
        BY <4>2 DEF IInv, SleepersQueue
      <4>4. CASE j = Len(waiters) + 1
        BY <3>1, <4>1, <4>3, <4>4
      <4>5. CASE j # Len(waiters) + 1
        <5>1. j \in DOMAIN waiters /\ waiters[j] = y
          BY <3>1, <4>1, <4>5
        <5> QED BY <4>1, <4>2, <5>1 DEF Before
      <4> QED BY <4>4, <4>5
    <3> QED BY <1>5, <2>1, <3>2
  <2> QED BY <1>5, <2>2, <2>3 DEF Acquire
<1>6. CASE Resume(c)
  BY <1>1, <1>3, <1>6 DEF Resume
<1>7. CASE Cancel(c)
  BY <1>1, <1>4, <1>7 DEF Cancel, Cancelled
<1>8. CASE Unwind(c)
  <2>1. Dequeue(c) /\ \/ attempt' = [attempt EXCEPT ![c] = "cancelled"]
                      \/ attempt' = WakeFirst(waiters', [attempt EXCEPT ![c] = "cancelled"])
    BY <1>8 DEF Unwind
  <2>2. Others
    BY <1>1, <1>2, <1>3, <2>1
  <2> QED BY <1>3, <2>1, <2>2
<1>9. CASE Free(c)
  BY <1>1, <1>2, <1>4, <1>9 DEF Free
<1>10. CASE ResumeUse(c)
  BY <1>1, <1>2, <1>3, <1>10 DEF ResumeUse
<1>11. CASE UNCHANGED vars
  BY <1>4, <1>11 DEF vars
<1> QED BY <1>5, <1>6, <1>7, <1>8, <1>9, <1>10, <1>11

\* Who gets the lock, for a moment or for longer, finds it free, and those who
\* still want it queue behind.
LEMMA TakerIsFirst ==
  ASSUME IInv, NEW c \in Clients,
         \/ Acquire(c) /\ attempt'[c] = "held"
         \/ Resume(c) \/ Use(c) \/ ResumeUse(c)
  PROVE  /\ ~locked
         /\ \A d \in Clients \ {c} :
              /\ attempt[d] # "held"
              /\ attempt[d] \in Asleep \ {"aborted"} => Before(c, d)
<1>1. CASE ~locked /\ NobodyAhead
  <2>1. \A d \in Clients : attempt[d] \notin Asleep \ {"aborted"}
    BY <1>1 DEF NobodyAhead, IInv, SleepersQueue
  <2> QED BY <1>1, <2>1 DEF IInv, LockedIffHeld
<1>2. CASE attempt[c] = "woken"
  <2>1. PICK i \in DOMAIN waiters : waiters[i] = c
    BY <1>2 DEF IInv, SleepersQueue, Asleep
  <2>2. i = 1 /\ ~locked
    BY <1>2, <2>1 DEF IInv, WokenIsFirst
  <2>3. ASSUME NEW d \in Clients \ {c}, attempt[d] \in Asleep PROVE Before(c, d)
    <3>1. PICK j \in DOMAIN waiters : waiters[j] = d
      BY <2>3 DEF IInv, SleepersQueue
    <3>2. j # 1 /\ j \in 1..Len(waiters) /\ Len(waiters) \in Nat
      BY <2>1, <2>2, <2>3, <3>1, LenProperties DEF IInv, TypeOK
    <3> QED BY <2>1, <2>2, <3>1, <3>2 DEF Before
  <2> QED BY <2>2, <2>3 DEF IInv, LockedIffHeld
<1>3. attempt[c] = "woken" \/ (~locked /\ NobodyAhead)
  BY DEF Acquire, Resume, Use, ResumeUse, IInv, TypeOK
<1> QED BY <1>1, <1>2, <1>3
\* Who is ahead of a client queues before it.
LEMMA AheadIsBefore ==
  ASSUME IInv, NEW c \in Clients, attempt[c] \in Asleep, NEW d \in Ahead(c)
  PROVE  d \in Clients /\ Before(d, c)
<1>1. PICK j \in DOMAIN waiters : waiters[j] = c
  BY DEF IInv, SleepersQueue
<1>2. PICK i \in DOMAIN waiters : waiters[i] = d /\ c \notin {waiters[k] : k \in 1..i}
  BY DEF Ahead
<1>3. waiters \in Seq(Clients) /\ DOMAIN waiters = 1..Len(waiters) /\ Len(waiters) \in Nat
  BY LenProperties DEF IInv, TypeOK
<1>4. d \in Clients
  BY <1>2, <1>3, ElementOfSeq
<1>5. ~(j \in 1..i)
  BY <1>1, <1>2
<1>6. i < j
  BY <1>1, <1>2, <1>3, <1>5
<1> QED BY <1>1, <1>2, <1>4, <1>6 DEF Before
=============================================================================
