------------------------------ MODULE FairLock ------------------------------
(***************************************************************************)
(* asyncio.Lock, the fair mutex behind the session's execution lease       *)
(* (frontend/session.py) and the command's writer lock (frontend/          *)
(* handle.py).  The lock is library code: it is modelled from the contract *)
(* of asyncio.Lock that lease.py relies on, one step per resumption of the *)
(* acquiring task on the event loop.                                       *)
(*                                                                         *)
(* A client is one acquisition attempt, so it acquires at most once.  The  *)
(* points that make the lock delicate are kept: a release does not hand    *)
(* the lock over, it only completes the first waiter's future, the lock    *)
(* stays unlocked until that waiter runs, and the waiter can be cancelled  *)
(* in between.                                                             *)
(***************************************************************************)
EXTENDS Naturals, SequencesExt

CONSTANT Clients        \* acquisition attempts

VARIABLES
  locked,               \* Lock._locked
  waiters,              \* Lock._waiters: a deque of clients, oldest first
  attempt               \* the stage of each client's acquisition

vars == <<locked, waiters, attempt>>

\* "aborted": cancelled while it slept (its future is cancelled);
\* "abandoned": cancelled after its future was completed, before it ran.
Asleep == {"waiting", "woken", "aborted", "abandoned"}
Stages == Asleep \cup {"idle", "held", "cancelled", "released"}

Init ==
  /\ locked = FALSE
  /\ waiters = <<>>
  /\ attempt = [c \in Clients |-> "idle"]

\* Mutant: the last waiter is woken first.
WakeLast(queue, stages) ==
  IF queue # <<>> /\ stages[queue[Len(queue)]] = "waiting"
  THEN [stages EXCEPT ![queue[Len(queue)]] = "woken"]
  ELSE stages

\* Mutant: the woken client is marked in a way nobody acts upon.
WakeUnknown(queue, stages) ==
  IF queue # <<>> /\ stages[Head(queue)] = "waiting"
  THEN [stages EXCEPT ![Head(queue)] = "notified"]
  ELSE stages

(***************************************************************************)
(* Lock._wake_up_first: complete the first waiter's future unless it is    *)
(* done already, by an earlier wake-up or by its cancellation.             *)
(***************************************************************************)
WakeFirst(queue, stages) ==
  IF queue # <<>> /\ stages[Head(queue)] = "waiting"
  THEN [stages EXCEPT ![Head(queue)] = "woken"]
  ELSE stages

\* Mutant: a newcomer takes the free lock past those who queue.
BargeIn == TRUE

\* Nobody who still wants the lock is queued.
NobodyAhead == \A i \in DOMAIN waiters : attempt[waiters[i]] = "aborted"

\* Lock.acquire up to its first suspension: take the free lock, or queue.
Acquire(c) ==
  /\ attempt[c] = "idle"
  /\ IF ~locked /\ NobodyAhead
     THEN /\ locked' = TRUE
          /\ attempt' = [attempt EXCEPT ![c] = "held"]
          /\ UNCHANGED waiters
     ELSE /\ waiters' = Append(waiters, c)
          /\ attempt' = [attempt EXCEPT ![c] = "waiting"]
          /\ UNCHANGED locked

\* c leaves the deque as its task resumes, by result or by cancellation.
Dequeue(c) ==
  \E i \in DOMAIN waiters : waiters[i] = c /\ waiters' = RemoveAt(waiters, i)

\* The woken task resumes and takes the lock without looking at it again.
Resume(c) ==
  /\ attempt[c] = "woken"
  /\ Dequeue(c)
  /\ locked' = TRUE
  /\ attempt' = [attempt EXCEPT ![c] = "held"]

\* Task.cancel on the acquiring task; a finished acquisition ignores it.
Cancelled(c) ==
  [attempt EXCEPT ![c] = CASE @ = "waiting" -> "aborted"
                           [] @ = "woken"   -> "abandoned"
                           [] OTHER         -> @]

Cancel(c) ==
  /\ attempt[c] \in {"waiting", "woken"}
  /\ attempt' = Cancelled(c)
  /\ UNCHANGED <<locked, waiters>>

\* Mutant: the cancelled waiter keeps the wake-up it was given.
UnwindSilently(c) ==
  /\ attempt[c] \in {"aborted", "abandoned"}
  /\ Dequeue(c)
  /\ attempt' = [attempt EXCEPT ![c] = "cancelled"]
  /\ UNCHANGED locked

\* The cancelled task resumes: it leaves the deque, and passes on a wake-up
\* it may have been given.
Unwind(c) ==
  /\ attempt[c] \in {"aborted", "abandoned"}
  /\ Dequeue(c)
  /\ LET left == [attempt EXCEPT ![c] = "cancelled"]
     IN attempt' = IF locked THEN left ELSE WakeFirst(waiters', left)
  /\ UNCHANGED locked

\* Lock.release, which does not know its owner; Next lets only the holder
\* call it, and a module that uses the lock has to refine that.
Free(c) ==
  /\ locked' = FALSE
  /\ attempt' = WakeFirst(waiters, [attempt EXCEPT ![c] = "released"])
  /\ UNCHANGED waiters

Release(c) == attempt[c] = "held" /\ Free(c)

\* `async with` around a body that does not suspend: the lock is taken and
\* released before another task runs, on arrival or on resumption.
Use(c) ==
  /\ attempt[c] = "idle"
  /\ ~locked /\ NobodyAhead
  /\ Free(c)

\* Mutant: the resumed client leaves without a wake-up for the next one.
ResumeUseSilently(c) ==
  /\ attempt[c] = "woken"
  /\ Dequeue(c)
  /\ locked' = FALSE
  /\ attempt' = [attempt EXCEPT ![c] = "released"]

ResumeUse(c) ==
  /\ attempt[c] = "woken"
  /\ Dequeue(c)
  /\ locked' = FALSE
  /\ attempt' = WakeFirst(waiters', [attempt EXCEPT ![c] = "released"])

Next ==
  \E c \in Clients :
    \/ Acquire(c) \/ Resume(c) \/ Cancel(c) \/ Unwind(c) \/ Release(c)
    \/ Use(c) \/ ResumeUse(c)

Spec == Init /\ [][Next]_vars

\* The loop runs every scheduled task, and a holder releases in the end.
FairSpec ==
  /\ Spec
  /\ \A c \in Clients :
       /\ WF_vars(Resume(c) \/ ResumeUse(c))
       /\ WF_vars(Unwind(c))
       /\ WF_vars(Release(c))
-----------------------------------------------------------------------------
TypeOK ==
  /\ locked \in BOOLEAN
  /\ waiters \in Seq(Clients)
  /\ attempt \in [Clients -> Stages]

\* At most one client has the lock, whatever wake-ups, cancellations and
\* newly arriving acquisitions interleave with a release: what makes
\* run_owned the only user of the session's driver.
MutualExclusion ==
  \A c, d \in Clients : attempt[c] = "held" /\ attempt[d] = "held" => c = d

\* No wake-up is lost: while the lock is free and somebody queues, the first
\* in the queue has its resumption scheduled, so the queue cannot stall when
\* a wake-up meets a cancellation.
NoLostWakeup ==
  ~locked /\ waiters # <<>> => attempt[Head(waiters)] # "waiting"

\* The lock is locked exactly while a client that acquired it has not
\* released it: a cancelled acquisition never leaves it locked.
LockedIffHeld == locked <=> \E c \in Clients : attempt[c] = "held"

\* Service in arrival order: when a client gets the lock, by its wake-up or on
\* arrival, for a moment or for longer, everyone who queued before it has been
\* cancelled.
Served == {"held", "released"}
Ahead(c) == {waiters[i] : i \in {k \in DOMAIN waiters : c \notin {waiters[j] : j \in 1..k}}}
NoOvertaking ==
  [][\A c \in Clients :
       attempt[c] \notin Served /\ attempt'[c] \in Served
         => \A d \in Ahead(c) : attempt[d] = "aborted"]_vars

\* Every queued acquisition ends: it gets the lock or is cancelled.
EveryWaitEnds ==
  \A c \in Clients : attempt[c] \in Asleep ~> attempt[c] \in {"released", "cancelled"}
=============================================================================
