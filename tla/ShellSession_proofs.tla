------------------------ MODULE ShellSession_proofs -------------------------
(***************************************************************************)
(* Proofs about ShellSession for every number of commands, every set of    *)
(* owners and every configuration.  First its types, that the session uses *)
(* its lease as the contract of the lock asks (it implements FairLock),    *)
(* and that the driver therefore serves one command at a time.  Then the   *)
(* order of the commands (Queue): how the stages of run_owned, of the      *)
(* lease and of the state operations go together, and what rests on it:    *)
(* the fast path has nobody to wait for, an access follows the commands    *)
(* before it, and a broken session runs nothing.  Last, for a session that *)
(* one task enters: damage is permanent and, if nobody closes the session  *)
(* before, a close finds nobody and the session implements CommandService. *)
(***************************************************************************)
EXTENDS ShellSession, TLAPS

LeaseProofs == INSTANCE FairLock_proofs WITH Clients <- Commands \cup Accesses

\* A command that acquired the lease holds it until it settles.
AcquiredHolds ==
  \A c \in acquired : at[c] # "settled" => attempt[c] = "held"

\* Only a command that acquired the lease uses the driver.
UsersAcquired == \A c \in Commands : UsesDriver(c) => c \in acquired

\* The typed part of the state that the lease's life depends on.
Held ==
  /\ at \in [Commands -> Stages]
  /\ attempt \in [Commands \cup Accesses -> Lease!Stages]
  /\ acquired \subseteq Commands
  /\ AcquiredHolds
  /\ UsersAcquired

\* A wake-up takes the lease from nobody.
LEMMA WakeKeepsHolders ==
  ASSUME NEW queue, NEW stages \in [Commands \cup Accesses -> Lease!Stages]
  PROVE  /\ Lease!WakeFirst(queue, stages) \in [Commands \cup Accesses -> Lease!Stages]
         /\ \A c \in Commands \cup Accesses :
              stages[c] = "held" => Lease!WakeFirst(queue, stages)[c] = "held"
BY DEF Lease!WakeFirst, Lease!Stages, Lease!Asleep

\* The steps of the lease never take it from a client other than the one that
\* releases it.
LEMMA LeaseKeepsHolders ==
  ASSUME attempt \in [Commands \cup Accesses -> Lease!Stages], NEW c \in Commands \cup Accesses,
         \/ Lease!Acquire(c)
         \/ Lease!Resume(c)
         \/ Lease!Unwind(c)
         \/ Lease!ResumeUse(c)
         \/ attempt' = Lease!Cancelled(c)
         \/ Lease!Free(c)
         \/ UNCHANGED lease
  PROVE  /\ attempt' \in [Commands \cup Accesses -> Lease!Stages]
         /\ \A d \in Commands \cup Accesses :
             attempt[d] = "held" => attempt'[d] = "held" \/ (d = c /\ Lease!Free(c))
<1>1. CASE Lease!Acquire(c)
  BY <1>1 DEF Lease!Acquire, Lease!Stages, Lease!Asleep
<1>2. CASE Lease!Resume(c)
  BY <1>2 DEF Lease!Resume, Lease!Stages, Lease!Asleep
<1>3. CASE Lease!Unwind(c)
  <2> DEFINE left == [attempt EXCEPT ![c] = "cancelled"]
  <2>1. /\ left \in [Commands \cup Accesses -> Lease!Stages]
        /\ \A d \in Commands \cup Accesses : attempt[d] = "held" => left[d] = "held"
    BY <1>3 DEF Lease!Unwind, Lease!Stages, Lease!Asleep
  <2>2. attempt' = left \/ attempt' = Lease!WakeFirst(waiters', left)
    BY <1>3 DEF Lease!Unwind
  <2> HIDE DEF left
  <2> QED BY <2>1, <2>2, WakeKeepsHolders
<1>4. CASE attempt' = Lease!Cancelled(c)
  BY <1>4 DEF Lease!Cancelled, Lease!Stages, Lease!Asleep
<1>5. CASE Lease!Free(c)
  <2> DEFINE left == [attempt EXCEPT ![c] = "released"]
  <2>1. /\ left \in [Commands \cup Accesses -> Lease!Stages]
        /\ \A d \in (Commands \cup Accesses) \ {c} : attempt[d] = "held" => left[d] = "held"
    BY DEF Lease!Stages, Lease!Asleep
  <2>2. attempt' = Lease!WakeFirst(waiters, left)
    BY <1>5 DEF Lease!Free
  <2> HIDE DEF left
  <2> QED BY <1>5, <2>1, <2>2, WakeKeepsHolders
<1>6. CASE UNCHANGED lease
  BY <1>6 DEF lease
<1>7. CASE Lease!ResumeUse(c)
  <2> DEFINE left == [attempt EXCEPT ![c] = "released"]
  <2>1. /\ left \in [Commands \cup Accesses -> Lease!Stages]
        /\ \A d \in Commands \cup Accesses : attempt[d] = "held" => left[d] = "held"
    BY <1>7 DEF Lease!ResumeUse, Lease!Stages, Lease!Asleep
  <2>2. attempt' = Lease!WakeFirst(waiters', left)
    BY <1>7 DEF Lease!ResumeUse
  <2> HIDE DEF left
  <2> QED BY <2>1, <2>2, WakeKeepsHolders
<1> QED BY <1>1, <1>2, <1>3, <1>4, <1>5, <1>6, <1>7

-----------------------------------------------------------------------------
(* Type correctness of the session's own variables. *)

LEMMA OutcomesOfErrors ==
  /\ \A e \in DriverErrors : OutcomeOf[e] \in Outcomes
  /\ {"STOPPED", "EXITED", "TIMEOUT", "INPUT_FAILURE", "OUTPUT_FAILURE", "STARTUP_FAILURE"}
       \subseteq Outcomes
<1>1. \A e \in DriverErrors : e \in DOMAIN OutcomeOf
  BY SessionAssumption
<1>2. \A e \in DOMAIN OutcomeOf : OutcomeOf[e] \in Outcomes
  BY DEF Outcomes
<1>3. /\ OutcomeOf["TimeoutError"] = "TIMEOUT" /\ "TimeoutError" \in DOMAIN OutcomeOf
      /\ OutcomeOf["InputError"] = "INPUT_FAILURE" /\ "InputError" \in DOMAIN OutcomeOf
      /\ OutcomeOf["CaptureError"] = "OUTPUT_FAILURE" /\ "CaptureError" \in DOMAIN OutcomeOf
      /\ OutcomeOf["OSError"] = "STARTUP_FAILURE" /\ "OSError" \in DOMAIN OutcomeOf
  BY DEF OutcomeOf
<1>4. {"TIMEOUT", "INPUT_FAILURE", "OUTPUT_FAILURE", "STARTUP_FAILURE"} \subseteq Outcomes
  BY <1>2, <1>3
<1>5. {"STOPPED", "EXITED"} \subseteq Outcomes
  BY DEF Outcomes
<1> QED BY <1>1, <1>2, <1>4, <1>5

LEMMA TypesInit == Init => SessionTypes
BY OutcomesOfErrors DEF Init, SessionTypes, Stages

LEMMA TypesOwners ==
  ASSUME SessionTypes,
         \/ \E o \in Owners : OwnerStep(o)
         \/ Aclose
         \/ ShutdownStep
  PROVE  SessionTypes'
<1> USE DEF SessionTypes, Enters, Closes, RequestClose, requests, owned, evidence, configuration, accesses
<1>1. ASSUME NEW o \in Owners, Enter(o) PROVE SessionTypes'
  BY <1>1 DEF Enter
<1>2. ASSUME NEW o \in Owners, EnterReturns(o) PROVE SessionTypes'
  BY <1>2 DEF EnterReturns
<1>3. ASSUME NEW o \in Owners, EnterRaises(o) PROVE SessionTypes'
  BY <1>3 DEF EnterRaises
<1>4. ASSUME NEW o \in Owners, Exit(o) PROVE SessionTypes'
  BY <1>4 DEF Exit
<1>5. ASSUME Aclose PROVE SessionTypes'
  BY <1>5 DEF Aclose
<1>6. ASSUME ShutdownBegins PROVE SessionTypes'
  BY <1>6 DEF ShutdownBegins
<1>7. ASSUME ShutdownGathers PROVE SessionTypes'
  BY <1>7 DEF ShutdownGathers
<1>8. ASSUME ShutdownReturns PROVE SessionTypes'
  BY <1>8 DEF ShutdownReturns
<1>9. ASSUME ShutdownRaises PROVE SessionTypes'
  BY <1>9 DEF ShutdownRaises
<1> QED
  BY <1>1, <1>2, <1>3, <1>4, <1>5, <1>6, <1>7, <1>8, <1>9 DEF OwnerStep, ShutdownStep

\* Proceed moves a command to one of two stages.
LEMMA TypesProceed ==
  ASSUME SessionTypes, NEW c \in Commands, NEW from, Proceed(c, from)
  PROVE  /\ at' \in [Commands -> Stages]
         /\ handle_state' \in
              [Commands -> {"queued", "preparing", "running", "finishing", "finished"}]
<1> USE DEF SessionTypes, Moves, Stages
<1>1. CASE c \notin stop_requested /\ state = "OPEN"
  BY <1>1 DEF Proceed
<1>2. CASE ~(c \notin stop_requested /\ state = "OPEN")
  BY <1>2 DEF Proceed
<1> QED BY <1>1, <1>2

LEMMA TypesQueue ==
  ASSUME SessionTypes, NEW c \in Commands,
         \/ Submit(c) \/ Stop(c) \/ Begin(c)
         \/ QueueingReturns(c) \/ QueueingExpires(c) \/ QueueingRaises(c)
         \/ AcquisitionBegins(c)
         \/ AcquisitionResumes(c) \/ RaceReturns(c) \/ RaceExpires(c) \/ RaceEnds(c)
  PROVE  SessionTypes'
<1> USE DEF SessionTypes, Moves, Stages, requests, lifecycle, configuration, accesses, evidence
<1>1. CASE Submit(c)
  BY <1>1 DEF Submit
<1>2. CASE Stop(c)
  BY <1>2 DEF Stop, owned
<1>3. CASE Begin(c)
  <2>1. UNCHANGED <<state, lifecycle, requests, evidence>>
    BY <1>3 DEF Begin
  <2>2. CASE BeginStopped(c)
    BY <2>1, <2>2 DEF BeginStopped
  <2>3. CASE BeginAtOnce(c)
    <3>1. UNCHANGED outcome
      BY <2>3 DEF BeginAtOnce
    <3>2. CASE Proceed(c, "scheduled") /\ acquired' = acquired \cup {c}
      BY <2>1, <3>1, <3>2, TypesProceed
    <3>3. CASE Moves(c, "scheduled", "queueing") /\ UNCHANGED <<handle_state, acquired>>
      BY <2>1, <3>1, <3>3
    <3> QED BY <2>3, <3>2, <3>3 DEF BeginAtOnce
  <2>4. CASE BeginExpired(c)
    BY <2>1, <2>4, OutcomesOfErrors DEF BeginExpired
  <2>5. CASE BeginRace(c)
    BY <2>1, <2>5 DEF BeginRace
  <2> QED BY <1>3, <2>2, <2>3, <2>4, <2>5 DEF Begin
<1>4. CASE AcquisitionBegins(c)
  BY <1>4 DEF AcquisitionBegins
<1>5. CASE AcquisitionResumes(c)
  BY <1>5 DEF AcquisitionResumes, owned
<1>6. CASE RaceReturns(c)
  BY <1>6 DEF RaceReturns
<1>7. CASE RaceExpires(c)
  BY <1>7, OutcomesOfErrors DEF RaceExpires
<1>8. CASE RaceEnds(c)
  <2>1. UNCHANGED <<state, lifecycle, requests, acquired, outcome, evidence>>
    BY <1>8 DEF RaceEnds
  <2>2. CASE c \in acquired
    <3>1. Proceed(c, "leaving")
      BY <1>8, <2>2 DEF RaceEnds
    <3> QED BY <2>1, <3>1, TypesProceed
  <2>3. CASE c \notin acquired
    <3>1. Moves(c, "leaving", "finalizing") /\ UNCHANGED handle_state
      BY <1>8, <2>3 DEF RaceEnds
    <3> QED BY <2>1, <3>1
  <2> QED BY <2>2, <2>3
<1>9. CASE QueueingReturns(c)
  <2>1. Proceed(c, "queueing") /\ acquired' = acquired \cup {c}
    BY <1>9 DEF QueueingReturns
  <2> QED BY <1>9, <2>1, TypesProceed DEF QueueingReturns
<1>10. CASE QueueingExpires(c)
  BY <1>10 DEF QueueingExpires, owned
<1>11. CASE QueueingRaises(c)
  BY <1>11, OutcomesOfErrors DEF QueueingRaises
<1> QED BY <1>1, <1>2, <1>3, <1>4, <1>5, <1>6, <1>7, <1>8, <1>9, <1>10, <1>11

LEMMA TypesExecution ==
  ASSUME SessionTypes, NEW c \in Commands,
         \/ PrepareReturns(c) \/ PrepareRaises(c) \/ AuthenticationFails(c)
         \/ ExecutionStopped(c) \/ ExecutionRaises(c) \/ DeadlineExpires(c)
         \/ ExecutionReturns(c) \/ DrainEnds(c) \/ ExecuteOwnedEnds(c)
         \/ DriverStopped(c) \/ DriverFinished(c) \/ Settle(c)
  PROVE  SessionTypes'
<1> USE DEF SessionTypes, Moves, Stages, requests, lifecycle, configuration, accesses, evidence
<1>1. CASE PrepareReturns(c)
  BY <1>1 DEF PrepareReturns
<1>2. CASE PrepareRaises(c)
  BY <1>2, OutcomesOfErrors DEF PrepareRaises, GiveUp
<1>3. CASE AuthenticationFails(c)
  BY <1>3 DEF AuthenticationFails, owned
<1>4. ASSUME NEW from, NEW why \in Outcomes, Conclude(c, from, why) PROVE SessionTypes'
  BY <1>4 DEF Conclude
<1>5. CASE ExecutionStopped(c)
  BY <1>4, <1>5, OutcomesOfErrors DEF ExecutionStopped
<1>6. CASE ExecutionRaises(c)
  BY <1>4, <1>6, OutcomesOfErrors DEF ExecutionRaises
<1>7. CASE DeadlineExpires(c)
  BY <1>4, <1>7, OutcomesOfErrors DEF DeadlineExpires
<1>8. CASE ExecutionReturns(c)
  BY <1>8 DEF ExecutionReturns
<1>9. CASE DrainEnds(c)
  BY <1>4, <1>9, OutcomesOfErrors DEF DrainEnds
<1>10. CASE ExecuteOwnedEnds(c)
  BY <1>10 DEF ExecuteOwnedEnds, GiveUp
<1>11. CASE DriverStopped(c)
  BY <1>11 DEF DriverStopped
<1>12. CASE DriverFinished(c)
  BY <1>12 DEF DriverFinished
<1>13. CASE Settle(c)
  <2>1. \A sealed, authenticated \in BOOLEAN : FinalOutcome(c, sealed, authenticated) \in Outcomes
    BY OutcomesOfErrors DEF FinalOutcome
  <2> QED BY <1>13, <2>1 DEF Settle
<1> QED
  BY <1>1, <1>2, <1>3, <1>5, <1>6, <1>7, <1>8, <1>9, <1>10, <1>11, <1>12, <1>13

LEMMA TypesAccesses ==
  ASSUME SessionTypes, NEW a \in Accesses,
         AccessStep(a) \/ AccessBegins(a) \/ AccessCancelled(a)
  PROVE  SessionTypes'
<1> USE DEF SessionTypes, Reaches, requests, owned, evidence, configuration
<1>1. ASSUME NEW from, AccessLeaves(a, from) PROVE SessionTypes'
  BY <1>1 DEF AccessLeaves
<1>2. CASE AccessBegins(a)
  BY <1>2 DEF AccessBegins
<1>3. CASE AccessArrives(a)
  BY <1>1, <1>3 DEF AccessArrives
<1>4. CASE AccessResumes(a)
  BY <1>1, <1>4 DEF AccessResumes
<1>5. CASE AccessCancelled(a)
  BY <1>5 DEF AccessCancelled, lifecycle, accesses
<1>6. CASE AccessRaises(a)
  BY <1>6 DEF AccessRaises
<1> QED BY <1>2, <1>3, <1>4, <1>5, <1>6 DEF AccessStep

LEMMA TypesNext == SessionTypes /\ [Next]_vars => SessionTypes'
<1> SUFFICES ASSUME SessionTypes, [Next]_vars PROVE SessionTypes'
  OBVIOUS
<1>1. CASE UNCHANGED vars
  BY <1>1 DEF vars, lifecycle, configuration, accesses, requests, owned, evidence, SessionTypes
<1>2. CASE Next
  BY <1>2, TypesOwners, TypesQueue, TypesExecution, TypesAccesses DEF Next, LoopStep, OpenStep
<1> QED BY <1>1, <1>2

-----------------------------------------------------------------------------
(* Who holds the lease, and the refinement of FairLock. *)

LEMMA HeldInit == Init => Held
BY DEF Init, Held, AcquiredHolds, UsersAcquired, UsesDriver, DriverStages, Stages,
       Lease!Init, Lease!Stages, Lease!Asleep

\* One command moves from a stage before its last to another, and takes part in
\* one step of the lease: the invariant asks three things of the step.
LEMMA HeldMove ==
  ASSUME Held, NEW c \in Commands, NEW to \in Stages,
         at' = [at EXCEPT ![c] = to],
         acquired' = acquired \/ acquired' = acquired \cup {c},
         attempt' \in [Commands \cup Accesses -> Lease!Stages],
         \A d \in Commands \ {c} : attempt[d] = "held" => attempt'[d] = "held",
         c \in acquired' /\ to # "settled" => attempt'[c] = "held",
         to \in DriverStages => c \in acquired'
  PROVE  Held'
<1> USE DEF Held
<1>1. at' \in [Commands -> Stages] /\ at'[c] = to /\ \A d \in Commands \ {c} : at'[d] = at[d]
  OBVIOUS
<1>2. acquired' \subseteq Commands /\ \A d \in Commands \ {c} : d \in acquired' <=> d \in acquired
  OBVIOUS
<1>3. AcquiredHolds'
  BY <1>1, <1>2 DEF AcquiredHolds
<1>4. UsersAcquired'
  BY <1>1, <1>2 DEF UsersAcquired, UsesDriver
<1> QED BY <1>1, <1>2, <1>3, <1>4

\* A step that leaves the stages and the lease alone.
LEMMA HeldStays ==
  ASSUME Held, UNCHANGED <<at, acquired, attempt>>
  PROVE  Held'
BY DEF Held, AcquiredHolds, UsersAcquired, UsesDriver

LEMMA HeldOwners ==
  ASSUME Held,
         \/ \E o \in Owners : OwnerStep(o)
         \/ Aclose
         \/ ShutdownStep
  PROVE  Held' /\ UNCHANGED lease
<1>1. UNCHANGED <<at, acquired, attempt>> /\ UNCHANGED lease
  BY DEF OwnerStep, Enter, EnterReturns, EnterRaises, Exit, Aclose, ShutdownStep, ShutdownBegins,
         ShutdownGathers, ShutdownReturns, ShutdownRaises, owned, lease
<1> QED BY <1>1, HeldStays

LEMMA HeldQueue ==
  ASSUME Held, NEW c \in Commands,
         \/ Submit(c) \/ Stop(c) \/ Begin(c)
         \/ QueueingReturns(c) \/ QueueingExpires(c) \/ QueueingRaises(c)
         \/ AcquisitionBegins(c)
         \/ AcquisitionResumes(c) \/ RaceReturns(c) \/ RaceExpires(c) \/ RaceEnds(c)
  PROVE  Held' /\ [Lease!Next]_(Lease!vars)
<1> USE DEF Moves, lease, Lease!vars
<1>1. CASE Submit(c)
  <2>1. at[c] = "nowhere" /\ at' = [at EXCEPT ![c] = "scheduled"] /\ UNCHANGED <<acquired, lease>>
    BY <1>1 DEF Submit
  <2>2. c \notin acquired \/ attempt[c] = "held"
    BY <2>1 DEF Held, AcquiredHolds
  <2>3. Held'
    BY <2>1, <2>2, HeldMove DEF Held, Stages, DriverStages
  <2> QED BY <2>1, <2>3
<1>2. CASE Stop(c)
  <2>1. UNCHANGED <<at, acquired, attempt>> /\ UNCHANGED lease
    BY <1>2 DEF Stop, owned
  <2> QED BY <2>1, HeldStays
<1>3. CASE Begin(c)
  <2>1. CASE BeginAtOnce(c)
    <3>1. Lease!Acquire(c) /\ at[c] = "scheduled"
      BY <2>1 DEF BeginAtOnce, Proceed
    <3>2. /\ attempt' \in [Commands \cup Accesses -> Lease!Stages]
          /\ \A d \in Commands \ {c} : attempt[d] = "held" => attempt'[d] = "held"
      BY <3>1, LeaseKeepsHolders DEF Held
    <3>3. CASE attempt'[c] = "held"
      <4>1. acquired' = acquired \cup {c} /\ \E to \in {"preparing", "releasing"} : at' = [at EXCEPT ![c] = to]
        BY <2>1, <3>3 DEF BeginAtOnce, Proceed
      <4>2. Held'
        BY <3>2, <3>3, <4>1, HeldMove DEF Stages
      <4> QED BY <3>1, <4>2 DEF Lease!Next
    <3>4. CASE attempt'[c] # "held"
      <4>1. at' = [at EXCEPT ![c] = "queueing"] /\ acquired' = acquired
        BY <2>1, <3>4 DEF BeginAtOnce
      <4>2. c \notin acquired
        BY <3>1 DEF Held, AcquiredHolds, Lease!Acquire
      <4>3. Held'
        BY <3>2, <4>1, <4>2, HeldMove DEF Stages, DriverStages
      <4> QED BY <3>1, <4>3 DEF Lease!Next
    <3> QED BY <3>3, <3>4
  <2>2. CASE BeginStopped(c) \/ BeginExpired(c) \/ BeginRace(c)
    <3>1. /\ at[c] = "scheduled" /\ UNCHANGED <<acquired, lease>>
          /\ \E to \in {"finalizing", "acquiring"} : at' = [at EXCEPT ![c] = to]
      BY <2>2 DEF BeginStopped, BeginExpired, BeginRace
    <3>2. c \notin acquired \/ attempt[c] = "held"
      BY <3>1 DEF Held, AcquiredHolds
    <3>3. Held'
      BY <3>1, <3>2, HeldMove DEF Held, Stages, DriverStages
    <3> QED BY <3>1, <3>3
  <2> QED BY <1>3, <2>1, <2>2 DEF Begin
<1>4. CASE AcquisitionBegins(c)
  <2>1. /\ at[c] = "acquiring" /\ at' = [at EXCEPT ![c] = "racing"]
        /\ Lease!Acquire(c) /\ UNCHANGED acquired
    BY <1>4 DEF AcquisitionBegins
  <2>2. c \notin acquired
    BY <2>1 DEF Held, AcquiredHolds, Lease!Acquire
  <2>3. /\ attempt' \in [Commands \cup Accesses -> Lease!Stages]
        /\ \A d \in Commands \ {c} : attempt[d] = "held" => attempt'[d] = "held"
    BY <2>1, LeaseKeepsHolders DEF Held
  <2>4. Held'
    BY <2>1, <2>2, <2>3, HeldMove DEF Stages, DriverStages
  <2> QED BY <2>1, <2>4 DEF Lease!Next
<1>5. CASE AcquisitionResumes(c)
  <2>1. (Lease!Resume(c) \/ Lease!Unwind(c)) /\ UNCHANGED <<at, acquired>>
    BY <1>5 DEF AcquisitionResumes, owned
  <2>2. /\ attempt' \in [Commands \cup Accesses -> Lease!Stages]
        /\ \A d \in Commands \ {c} : attempt[d] = "held" => attempt'[d] = "held"
    BY <2>1, LeaseKeepsHolders DEF Held
  <2>3. attempt[c] # "held"
    BY <2>1 DEF Lease!Resume, Lease!Unwind
  <2>4. Held'
    BY <2>1, <2>2, <2>3 DEF Held, AcquiredHolds, UsersAcquired, UsesDriver
  <2> QED BY <2>1, <2>4 DEF Lease!Next
<1>6. CASE RaceReturns(c) \/ RaceExpires(c)
  <2>1. /\ at[c] = "racing" /\ at' = [at EXCEPT ![c] = "leaving"]
        /\ attempt' = Lease!Cancelled(c) /\ UNCHANGED <<locked, waiters>>
        /\ \/ acquired' = acquired
           \/ acquired' = acquired \cup {c} /\ attempt[c] = "held"
    BY <1>6 DEF RaceReturns, RaceExpires
  <2>2. /\ attempt' \in [Commands \cup Accesses -> Lease!Stages]
        /\ \A d \in Commands \ {c} : attempt[d] = "held" => attempt'[d] = "held"
    BY <2>1, LeaseKeepsHolders DEF Held
  <2>3. attempt[c] = "held" => attempt'[c] = "held"
    BY <2>1 DEF Held, Lease!Cancelled
  <2>4. c \in acquired' => attempt[c] = "held"
    BY <2>1 DEF Held, AcquiredHolds
  <2>5. Held'
    BY <2>1, <2>2, <2>3, <2>4, HeldMove DEF Stages, DriverStages
  <2>6. CASE attempt[c] \in {"waiting", "woken"}
    BY <2>1, <2>5, <2>6 DEF Lease!Next, Lease!Cancel
  <2>7. CASE attempt[c] \notin {"waiting", "woken"}
    <3>1. attempt' = attempt
      BY <2>1, <2>7 DEF Lease!Cancelled, Held
    <3> QED BY <2>1, <2>5, <3>1
  <2> QED BY <2>6, <2>7
<1>7. CASE RaceEnds(c)
  <2>1. CASE c \in acquired
    <3>1. /\ at[c] = "leaving" /\ UNCHANGED <<acquired, lease>>
          /\ \E to \in {"preparing", "releasing"} : at' = [at EXCEPT ![c] = to]
      BY <1>7, <2>1 DEF RaceEnds, Proceed
    <3>2. attempt[c] = "held"
      BY <2>1, <3>1 DEF Held, AcquiredHolds
    <3>3. Held'
      BY <2>1, <3>1, <3>2, HeldMove DEF Held, Stages
    <3> QED BY <3>1, <3>3
  <2>2. CASE c \notin acquired
    <3>1. /\ at' = [at EXCEPT ![c] = "finalizing"] /\ UNCHANGED acquired
          /\ (attempt[c] = "held" /\ Lease!Free(c)) \/ UNCHANGED lease
      BY <1>7, <2>2 DEF RaceEnds
    <3>2. /\ attempt' \in [Commands \cup Accesses -> Lease!Stages]
          /\ \A d \in Commands \ {c} : attempt[d] = "held" => attempt'[d] = "held"
      BY <3>1, LeaseKeepsHolders DEF Held
    <3>3. Held'
      BY <2>2, <3>1, <3>2, HeldMove DEF Stages, DriverStages
    <3> QED BY <3>1, <3>3 DEF Lease!Next, Lease!Release
  <2> QED BY <2>1, <2>2
<1>8. CASE QueueingReturns(c)
  <2>1. /\ Lease!Resume(c) /\ acquired' = acquired \cup {c}
        /\ \E to \in {"preparing", "releasing"} : at' = [at EXCEPT ![c] = to]
    BY <1>8 DEF QueueingReturns, Proceed
  <2>2. /\ attempt' \in [Commands \cup Accesses -> Lease!Stages]
        /\ \A d \in Commands \ {c} : attempt[d] = "held" => attempt'[d] = "held"
    BY <2>1, LeaseKeepsHolders DEF Held
  <2>3. attempt'[c] = "held"
    BY <2>1 DEF Held, Lease!Resume
  <2>4. Held'
    BY <2>1, <2>2, <2>3, HeldMove DEF Stages
  <2> QED BY <2>1, <2>4 DEF Lease!Next
<1>9. CASE QueueingExpires(c)
  <2>1. Lease!Cancel(c) /\ UNCHANGED <<at, acquired>>
    BY <1>9 DEF QueueingExpires, owned
  <2>2. attempt' = Lease!Cancelled(c) /\ attempt[c] # "held"
    BY <2>1 DEF Lease!Cancel
  <2>3. /\ attempt' \in [Commands \cup Accesses -> Lease!Stages]
        /\ \A d \in Commands : attempt[d] = "held" => attempt'[d] = "held"
    BY <2>2, LeaseKeepsHolders DEF Held
  <2>4. Held'
    BY <2>1, <2>3 DEF Held, AcquiredHolds, UsersAcquired, UsesDriver
  <2> QED BY <2>1, <2>4 DEF Lease!Next
<1>10. CASE QueueingRaises(c)
  <2>1. /\ Lease!Unwind(c) /\ UNCHANGED acquired /\ at[c] = "queueing"
        /\ at' = [at EXCEPT ![c] = "finalizing"]
    BY <1>10 DEF QueueingRaises
  <2>2. /\ attempt' \in [Commands \cup Accesses -> Lease!Stages]
        /\ \A d \in Commands \ {c} : attempt[d] = "held" => attempt'[d] = "held"
    BY <2>1, LeaseKeepsHolders DEF Held
  <2>3. c \notin acquired
    BY <2>1 DEF Held, AcquiredHolds, Lease!Unwind
  <2>4. Held'
    BY <2>1, <2>2, <2>3, HeldMove DEF Stages, DriverStages
  <2> QED BY <2>1, <2>4 DEF Lease!Next
<1> QED BY <1>1, <1>2, <1>3, <1>4, <1>5, <1>6, <1>7, <1>8, <1>9, <1>10

LEMMA HeldAccesses ==
  ASSUME Held, NEW a \in Accesses,
         AccessStep(a) \/ AccessBegins(a) \/ AccessCancelled(a)
  PROVE  Held' /\ [Lease!Next]_(Lease!vars)
<1>1. UNCHANGED <<at, acquired>>
  BY DEF AccessStep, AccessArrives, AccessResumes, AccessRaises, AccessBegins, AccessCancelled,
         AccessLeaves, owned
<1>2. CASE AccessBegins(a)
  <2>1. UNCHANGED attempt /\ UNCHANGED Lease!vars
    BY <1>2 DEF AccessBegins, lease, Lease!vars
  <2> QED BY <1>1, <2>1, HeldStays
<1>3. CASE ~AccessBegins(a)
  <2>1. \/ Lease!Use(a) \/ Lease!Acquire(a) \/ Lease!ResumeUse(a) \/ Lease!Cancel(a)
        \/ Lease!Unwind(a)
    BY <1>3 DEF AccessStep, AccessArrives, AccessResumes, AccessRaises, AccessCancelled
  <2>2. /\ attempt[a] # "held"
        /\ \/ Lease!Free(a) \/ Lease!Acquire(a) \/ Lease!ResumeUse(a)
           \/ attempt' = Lease!Cancelled(a) \/ Lease!Unwind(a)
    BY <2>1 DEF Lease!Use, Lease!Acquire, Lease!ResumeUse, Lease!Cancel, Lease!Unwind
  <2>3. /\ attempt' \in [Commands \cup Accesses -> Lease!Stages]
        /\ \A d \in Commands : attempt[d] = "held" => attempt'[d] = "held"
    BY <2>2, LeaseKeepsHolders DEF Held
  <2>4. Held'
    BY <1>1, <2>3 DEF Held, AcquiredHolds, UsersAcquired, UsesDriver
  <2> QED BY <2>1, <2>4 DEF Lease!Next
<1> QED BY <1>2, <1>3

LEMMA HeldExecution ==
  ASSUME Held, NEW c \in Commands,
         \/ PrepareReturns(c) \/ PrepareRaises(c) \/ AuthenticationFails(c)
         \/ ExecutionStopped(c) \/ ExecutionRaises(c) \/ DeadlineExpires(c)
         \/ ExecutionReturns(c) \/ DrainEnds(c) \/ ExecuteOwnedEnds(c)
         \/ DriverStopped(c) \/ DriverFinished(c) \/ Settle(c)
  PROVE  Held' /\ [Lease!Next]_(Lease!vars)
<1> USE DEF Moves, lease, Lease!vars
<1>1. CASE AuthenticationFails(c)
  <2>1. UNCHANGED <<at, acquired, attempt>> /\ UNCHANGED lease
    BY <1>1 DEF AuthenticationFails, owned
  <2> QED BY <2>1, HeldStays
<1>2. CASE Settle(c)
  <2>1. /\ at[c] = "finalizing" /\ at' = [at EXCEPT ![c] = "settled"] /\ UNCHANGED acquired
        /\ (c \in acquired /\ Lease!Free(c)) \/ UNCHANGED lease
    BY <1>2 DEF Settle
  <2>2. c \in acquired => attempt[c] = "held"
    BY <2>1 DEF Held, AcquiredHolds
  <2>3. /\ attempt' \in [Commands \cup Accesses -> Lease!Stages]
        /\ \A d \in Commands \ {c} : attempt[d] = "held" => attempt'[d] = "held"
    BY <2>1, LeaseKeepsHolders DEF Held
  <2>4. Held'
    BY <2>1, <2>3, HeldMove DEF Stages, DriverStages
  <2> QED BY <2>1, <2>2, <2>4 DEF Lease!Next, Lease!Release
\* Every other step moves a command that uses the driver.
<1>3. CASE ~AuthenticationFails(c) /\ ~Settle(c)
  <2>1. /\ at[c] \in DriverStages /\ UNCHANGED <<acquired, lease>>
        /\ \E to \in DriverStages \cup {"finalizing"} : at' = [at EXCEPT ![c] = to]
    BY <1>3 DEF PrepareReturns, PrepareRaises, ExecutionStopped, ExecutionRaises, DeadlineExpires,
                ExecutionReturns, DrainEnds, ExecuteOwnedEnds, DriverStopped, DriverFinished,
                GiveUp, Conclude, DriverStages
  <2>2. c \in acquired /\ attempt[c] = "held"
    BY <2>1 DEF Held, UsersAcquired, UsesDriver, AcquiredHolds, DriverStages
  <2>3. Held'
    BY <2>1, <2>2, HeldMove DEF Held, Stages, DriverStages
  <2> QED BY <2>1, <2>3
<1> QED BY <1>1, <1>2, <1>3

LEMMA HeldNext == Held /\ [Next]_vars => Held' /\ [Lease!Next]_(Lease!vars)
<1> SUFFICES ASSUME Held, [Next]_vars PROVE Held' /\ [Lease!Next]_(Lease!vars)
  OBVIOUS
<1>1. CASE UNCHANGED vars
  <2>1. UNCHANGED <<at, acquired, attempt>> /\ UNCHANGED Lease!vars
    BY <1>1 DEF vars, owned, lease, Lease!vars
  <2> QED BY <2>1, HeldStays
<1>2. CASE Next
  <2>1. CASE \/ \E o \in Owners : OwnerStep(o)
             \/ Aclose
             \/ ShutdownStep
    BY <2>1, HeldOwners DEF lease, Lease!vars
  <2>2. ASSUME NEW c \in Commands, LoopStep(c) \/ OpenStep(c)
        PROVE  Held' /\ [Lease!Next]_(Lease!vars)
    BY <2>2, HeldQueue, HeldExecution DEF LoopStep, OpenStep
  <2>3. ASSUME NEW a \in Accesses, AccessStep(a) \/ AccessBegins(a) \/ AccessCancelled(a)
        PROVE  Held' /\ [Lease!Next]_(Lease!vars)
    BY <2>3, HeldAccesses
  <2> QED BY <1>2, <2>1, <2>2, <2>3 DEF Next
<1> QED BY <1>1, <1>2

\* A command that acquired the lease holds it, and only such a command uses
\* the driver.
THEOREM HeldInvariance == Spec => []Held
<1> QED BY HeldInit, HeldNext, PTL DEF Spec

\* The session implements the contract of its lease: acquire_lease, with its
\* race against the stop event and the budget, and run_owned only ever release
\* what they hold.
THEOREM LeaseRefinement == Spec => UsesLease
<1>1. Init => Lease!Init
  BY DEF Init
<1> QED BY <1>1, HeldInit, HeldNext, PTL DEF Spec, UsesLease, Lease!Spec

\* The steps of the lease are those that the proofs about the lock speak of.
LEMMA SameLease ==
  /\ LeaseProofs!Init <=> Lease!Init
  /\ [LeaseProofs!Next]_(LeaseProofs!vars) <=> [Lease!Next]_(Lease!vars)
  /\ LeaseProofs!vars = lease /\ Lease!vars = lease
  /\ LeaseProofs!Stages = Lease!Stages /\ LeaseProofs!Asleep = Lease!Asleep
  /\ \A c \in Commands \cup Accesses :
       /\ LeaseProofs!Acquire(c) <=> Lease!Acquire(c)
       /\ LeaseProofs!Resume(c) <=> Lease!Resume(c)
       /\ LeaseProofs!Cancel(c) <=> Lease!Cancel(c)
       /\ LeaseProofs!Unwind(c) <=> Lease!Unwind(c)
       /\ LeaseProofs!Free(c) <=> Lease!Free(c)
       /\ LeaseProofs!Use(c) <=> Lease!Use(c)
       /\ LeaseProofs!ResumeUse(c) <=> Lease!ResumeUse(c)
<1>1. LeaseProofs!Init <=> Lease!Init
  BY DEF LeaseProofs!Init, Lease!Init
<1>2. \A c \in Commands \cup Accesses : LeaseProofs!Dequeue(c) <=> Lease!Dequeue(c)
  BY DEF LeaseProofs!Dequeue, Lease!Dequeue, LeaseProofs!RemoveAt, Lease!RemoveAt
<1>3. \A c \in Commands \cup Accesses : LeaseProofs!Acquire(c) <=> Lease!Acquire(c)
  BY DEF LeaseProofs!Acquire, Lease!Acquire, LeaseProofs!NobodyAhead, Lease!NobodyAhead
<1>4. \A c \in Commands \cup Accesses : LeaseProofs!Resume(c) <=> Lease!Resume(c)
  BY <1>2 DEF LeaseProofs!Resume, Lease!Resume
<1>5. \A c \in Commands \cup Accesses : LeaseProofs!Cancel(c) <=> Lease!Cancel(c)
  BY DEF LeaseProofs!Cancel, Lease!Cancel, LeaseProofs!Cancelled, Lease!Cancelled
<1>6. \A c \in Commands \cup Accesses : LeaseProofs!Unwind(c) <=> Lease!Unwind(c)
  BY <1>2 DEF LeaseProofs!Unwind, Lease!Unwind, LeaseProofs!WakeFirst, Lease!WakeFirst
<1>7. \A c \in Commands \cup Accesses : LeaseProofs!Free(c) <=> Lease!Free(c)
  BY DEF LeaseProofs!Free, Lease!Free, LeaseProofs!WakeFirst, Lease!WakeFirst
<1>8. \A c \in Commands \cup Accesses : LeaseProofs!Release(c) <=> Lease!Release(c)
  BY <1>7 DEF LeaseProofs!Release, Lease!Release
<1>9. \A c \in Commands \cup Accesses : LeaseProofs!Use(c) <=> Lease!Use(c)
  BY <1>7 DEF LeaseProofs!Use, Lease!Use, LeaseProofs!NobodyAhead, Lease!NobodyAhead
<1>10. \A c \in Commands \cup Accesses : LeaseProofs!ResumeUse(c) <=> Lease!ResumeUse(c)
  BY <1>2 DEF LeaseProofs!ResumeUse, Lease!ResumeUse, LeaseProofs!WakeFirst, Lease!WakeFirst
<1>11. LeaseProofs!Next <=> Lease!Next
  BY <1>3, <1>4, <1>5, <1>6, <1>8, <1>9, <1>10 DEF LeaseProofs!Next, Lease!Next
<1>12. LeaseProofs!vars = lease /\ Lease!vars = lease
  BY DEF LeaseProofs!vars, Lease!vars, lease
<1>13. [LeaseProofs!Next]_(LeaseProofs!vars) <=> [Lease!Next]_(Lease!vars)
  BY <1>11, <1>12 DEF LeaseProofs!vars, Lease!vars
<1>14. LeaseProofs!Stages = Lease!Stages /\ LeaseProofs!Asleep = Lease!Asleep
  BY DEF LeaseProofs!Stages, Lease!Stages, LeaseProofs!Asleep, Lease!Asleep
<1> QED BY <1>1, <1>3, <1>4, <1>5, <1>6, <1>7, <1>9, <1>10, <1>12, <1>13, <1>14

\* What is proved about the lock holds of the session's lease.
LEMMA LeaseInvariants == UsesLease => []LeaseProofs!IInv
<1>1. LeaseProofs!Spec => []LeaseProofs!IInv
  BY LeaseProofs!Invariance
<1> QED BY <1>1, SameLease, PTL DEF UsesLease, Lease!Spec, LeaseProofs!Spec

LEMMA LeaseConsequences == LeaseProofs!IInv => Lease!TypeOK /\ Lease!MutualExclusion
BY SameLease DEF LeaseProofs!IInv, LeaseProofs!TypeOK, Lease!TypeOK,
                 LeaseProofs!MutualExclusion, Lease!MutualExclusion

\* Every variable of the session and of its lease keeps its type.
THEOREM TypeCorrectness == Spec => []TypeOK
<1>1. Spec => []SessionTypes
  BY TypesInit, TypesNext, PTL DEF Spec
<1>2. SessionTypes /\ Lease!TypeOK => TypeOK
  BY DEF TypeOK
<1> QED BY <1>1, <1>2, LeaseRefinement, LeaseInvariants, LeaseConsequences, PTL

\* The driver serves one command at a time: whoever uses it holds the lease,
\* and the lease has one holder.
THEOREM DriverExclusion == Spec => []ExclusiveDriver
<1>1. Held /\ Lease!MutualExclusion => ExclusiveDriver
  <2> SUFFICES ASSUME Held, Lease!MutualExclusion,
                      NEW c \in Commands, NEW d \in Commands, UsesDriver(c), UsesDriver(d)
               PROVE  c = d
    BY DEF ExclusiveDriver
  <2>1. attempt[c] = "held" /\ attempt[d] = "held"
    BY DEF Held, UsersAcquired, AcquiredHolds, UsesDriver, DriverStages
  <2> QED BY <2>1 DEF Lease!MutualExclusion
<1> QED BY <1>1, HeldInvariance, LeaseRefinement, LeaseInvariants, LeaseConsequences, PTL
-----------------------------------------------------------------------------
(* The order of the commands: the stages of run_owned against those of the  *)
(* lease, and both against the order of submission.                         *)

Queued(x, y) == LeaseProofs!Before(x, y)

\* Stages of a command that has not tried to get the lease.
Unattempted == {"nowhere", "scheduled", "acquiring"}

\* Stages of an attempt that may still get the lease, or has it.
Hoping == {"waiting", "woken", "held"}

\* The stage of a command's attempt goes with its own; whoever holds the lease
\* on the way out gives it back.
AttemptFits(c) ==
  /\ at[c] \in Unattempted => attempt[c] = "idle"
  /\ at[c] = "queueing" => attempt[c] \in Lease!Asleep
  /\ at[c] = "racing" => attempt[c] \in Hoping
  /\ at[c] = "leaving" => attempt[c] \in {"aborted", "abandoned", "held", "cancelled"}
  /\ at[c] \in {"finalizing", "settled"} => attempt[c] \in {"idle", "held", "cancelled", "released"}
  /\ at[c] = "finalizing" /\ attempt[c] = "held" => c \in acquired
  /\ at[c] = "settled" => attempt[c] # "held"
  /\ at[c] = "settled" /\ c \in acquired => attempt[c] = "released"

\* What a handle shows: it leaves "queued" as its command is prepared, which
\* then starts or breaks the session.
HandleFits(c) ==
  /\ at[c] \in Unattempted \cup {"queueing", "racing", "leaving"} =>
       handle_state[c] = "queued" /\ c \notin started \cup forced
  /\ at[c] = "preparing" => handle_state[c] = "preparing" /\ c \notin started \cup forced
  /\ at[c] \in {"executing", "draining", "unwinding"} =>
       handle_state[c] \in {"running", "finishing"} /\ c \in started /\ c \notin forced
  /\ at[c] = "stopping" => handle_state[c] # "queued" /\ c \in forced
  /\ at[c] \in {"releasing", "finalizing"} =>
       (handle_state[c] = "queued" <=> c \notin started \cup forced)
  /\ handle_state[c] = "finished" <=> at[c] = "settled"
  /\ c \in started \cup forced => c \in acquired

PendingFits == pending = {c \in Commands : at[c] \notin {"nowhere", "settled"}}

\* An earlier command is submitted, started and queued before a later one, which
\* has the lease only when the earlier one is through with it.
CommandsInOrder ==
  \A c, d \in Commands : d < c =>
    /\ at[c] # "nowhere" => at[d] # "nowhere"
    /\ at[c] \notin {"nowhere", "scheduled"} => at[d] # "scheduled"
    /\ attempt[c] # "idle" => at[d] \notin Unattempted
    /\ ~Queued(c, d)
    /\ attempt[c] \in {"held", "released"} => attempt[d] \notin Hoping

\* A state operation never keeps the lease, queues behind the commands before
\* it, and has run when they are through with it.
AccessFits(a) ==
  /\ access[a] \in {"outside", "checkpoint"} => attempt[a] = "idle"
  /\ access[a] = "queued" => attempt[a] \in Lease!Asleep
  /\ access[a] \in {"done", "refused", "cancelled"} => attempt[a] \in {"released", "cancelled"}
  /\ access[a] # "outside" => \A c \in earlier[a] : at[c] # "nowhere"
  /\ access[a] = "queued" => \A c \in earlier[a] : at[c] \notin Unattempted /\ ~Queued(a, c)
  /\ access[a] \in {"done", "refused"} =>
       \A c \in earlier[a] : at[c] \notin Unattempted /\ attempt[c] \notin Hoping

\* Who waits on the fast path has no command before it, and finds the lease free.
FastPathIsFree ==
  \A c \in Commands : at[c] = "queueing" =>
    /\ \A d \in Commands : d < c => at[d] = "settled"
    /\ attempt[c] # "aborted" => ~locked

Queue ==
  /\ \A c \in Commands : AttemptFits(c) /\ HandleFits(c)
  /\ PendingFits
  /\ CommandsInOrder
  /\ \A a \in Accesses : AccessFits(a)
  /\ FastPathIsFree

\* What the order rests on: types, and what is proved about the lease.
Known == SessionTypes /\ Held /\ LeaseProofs!IInv

LEMMA KnownFacts ==
  ASSUME Known
  PROVE  /\ attempt \in [Commands \cup Accesses -> Lease!Stages]
         /\ at \in [Commands -> Stages]
         /\ access \in [Accesses -> {"outside", "checkpoint", "queued", "done", "refused", "cancelled"}]
         /\ earlier \in [Accesses -> SUBSET Commands]
         /\ \A c \in Commands : c \in Commands \cup Accesses /\ c \in Nat
         /\ \A a \in Accesses : a \in Commands \cup Accesses /\ a \notin Commands
BY LeaseConsequences, SessionAssumption DEF Known, SessionTypes, Held, Lease!TypeOK, Commands

\* A step of the lease by one client.
LeaseStep(x) ==
  \/ Lease!Acquire(x) \/ Lease!Resume(x) \/ Lease!Cancel(x) \/ Lease!Unwind(x)
  \/ Lease!Free(x) \/ Lease!ResumeUse(x) \/ UNCHANGED lease

\* It wakes another at most, and queues behind those who sleep.
LEMMA LeaseStepOfOne ==
  ASSUME Known, NEW x \in Commands \cup Accesses, LeaseStep(x)
  PROVE  /\ \A y \in (Commands \cup Accesses) \ {x} :
              attempt'[y] = attempt[y] \/ (attempt[y] = "waiting" /\ attempt'[y] = "woken")
         /\ \A y, z \in Commands \cup Accesses :
              Queued(y, z)' =>
                \/ Queued(y, z)
                \/ z = x /\ Lease!Acquire(x) /\ attempt[y] \in Lease!Asleep
<1>1. LeaseProofs!IInv
  BY DEF Known
<1>2. \/ LeaseProofs!Acquire(x) \/ LeaseProofs!Resume(x) \/ LeaseProofs!Cancel(x)
      \/ LeaseProofs!Unwind(x) \/ LeaseProofs!Free(x) \/ LeaseProofs!ResumeUse(x)
      \/ UNCHANGED LeaseProofs!vars
  BY SameLease DEF LeaseStep, lease, LeaseProofs!vars
<1>3. /\ \A y \in (Commands \cup Accesses) \ {x} :
           attempt'[y] = attempt[y] \/ (attempt[y] = "waiting" /\ attempt'[y] = "woken")
      /\ \A y, z \in Commands \cup Accesses :
           LeaseProofs!Before(y, z)' =>
             \/ LeaseProofs!Before(y, z)
             \/ z = x /\ LeaseProofs!Acquire(x) /\ attempt[y] \in LeaseProofs!Asleep
  BY <1>1, <1>2, LeaseProofs!StepOfOne
<1> QED BY <1>3, SameLease DEF Queued

LEMMA LeaseTaker ==
  ASSUME Known, NEW x \in Commands \cup Accesses,
         \/ Lease!Acquire(x) /\ attempt'[x] = "held"
         \/ Lease!Resume(x) \/ Lease!Use(x) \/ Lease!ResumeUse(x)
  PROVE  /\ ~locked
         /\ \A y \in (Commands \cup Accesses) \ {x} :
              /\ attempt[y] # "held"
              /\ attempt[y] \in Lease!Asleep \ {"aborted"} => Queued(x, y)
<1>1. LeaseProofs!IInv
  BY DEF Known
<1>2. \/ LeaseProofs!Acquire(x) /\ attempt'[x] = "held"
      \/ LeaseProofs!Resume(x) \/ LeaseProofs!Use(x) \/ LeaseProofs!ResumeUse(x)
  BY SameLease
<1>3. /\ ~locked
      /\ \A y \in (Commands \cup Accesses) \ {x} :
           /\ attempt[y] # "held"
           /\ attempt[y] \in LeaseProofs!Asleep \ {"aborted"} => LeaseProofs!Before(x, y)
  BY <1>1, <1>2, LeaseProofs!TakerIsFirst
<1> QED BY <1>3, SameLease DEF Queued

LEMMA QueuedAsleep ==
  ASSUME Known, NEW x \in Commands \cup Accesses, NEW y \in Commands \cup Accesses, Queued(x, y)
  PROVE  attempt[x] \in Lease!Asleep /\ attempt[y] \in Lease!Asleep
<1>1. LeaseProofs!IInv /\ LeaseProofs!Before(x, y)
  BY DEF Known, Queued
<1>2. attempt[x] \in LeaseProofs!Asleep /\ attempt[y] \in LeaseProofs!Asleep
  BY <1>1, LeaseProofs!QueuedSleep
<1> QED BY <1>2, SameLease
\* What a step of the lease does to the client that takes it.
LEMMA LeaseStepOwn ==
  ASSUME Known, NEW x \in Commands \cup Accesses, LeaseStep(x)
  PROVE  /\ attempt'[x] \in Lease!Stages
         /\ attempt'[x] \in Hoping => attempt[x] \in Hoping \/ Lease!Acquire(x)
         /\ Lease!Acquire(x) => attempt[x] = "idle" /\ attempt'[x] \in {"waiting", "held"}
         /\ attempt'[x] \in {"held", "released"} =>
              \/ attempt[x] \in {"held", "released"}
              \/ Lease!Resume(x) \/ Lease!ResumeUse(x) \/ Lease!Free(x)
              \/ Lease!Acquire(x) /\ attempt'[x] = "held"
         /\ attempt'[x] # "idle" =>
              attempt[x] # "idle" \/ Lease!Acquire(x) \/ Lease!Free(x)
         /\ locked' => locked \/ Lease!Resume(x) \/ (Lease!Acquire(x) /\ attempt'[x] = "held")
         /\ Lease!Acquire(x) /\ attempt'[x] # "held" => locked' = locked
<1> USE KnownFacts
<1>1. CASE Lease!Acquire(x)
  BY <1>1 DEF Lease!Acquire, Lease!Stages, Lease!Asleep, Hoping
<1>2. CASE Lease!Resume(x)
  BY <1>2 DEF Lease!Resume, Lease!Acquire, Lease!Stages, Lease!Asleep, Hoping
<1>3. CASE Lease!Cancel(x)
  BY <1>3 DEF Lease!Cancel, Lease!Cancelled, Lease!Acquire, Lease!Stages, Lease!Asleep, Hoping
<1>4. ASSUME NEW final \in {"cancelled", "released"}, NEW queue,
             \/ attempt' = [attempt EXCEPT ![x] = final]
             \/ attempt' = Lease!WakeFirst(queue, [attempt EXCEPT ![x] = final])
      PROVE  attempt'[x] = final
  BY <1>4 DEF Lease!WakeFirst, Lease!Stages, Lease!Asleep
<1>5. CASE Lease!Unwind(x)
  <2>1. attempt'[x] = "cancelled" /\ attempt[x] # "idle" /\ locked' = locked
    BY <1>4, <1>5 DEF Lease!Unwind
  <2> QED BY <2>1 DEF Lease!Acquire, Lease!Stages, Hoping
<1>6. CASE Lease!Free(x)
  <2>1. attempt'[x] = "released" /\ ~locked'
    BY <1>4, <1>6 DEF Lease!Free
  <2>2. ~Lease!Acquire(x)
    BY <2>1, KnownFacts DEF Lease!Acquire, Lease!Stages
  <2> QED BY <1>6, <2>1, <2>2 DEF Lease!Stages, Hoping
<1>7. CASE Lease!ResumeUse(x)
  <2>1. attempt'[x] = "released" /\ attempt[x] = "woken" /\ ~locked'
    BY <1>4, <1>7 DEF Lease!ResumeUse
  <2> QED BY <1>7, <2>1 DEF Lease!Acquire, Lease!Stages, Hoping
<1>8. CASE UNCHANGED lease
  BY <1>8 DEF lease, Lease!Acquire, Lease!Stages, Lease!Asleep, Hoping
<1> QED BY <1>1, <1>2, <1>3, <1>5, <1>6, <1>7, <1>8 DEF LeaseStep
-----------------------------------------------------------------------------
(* A step of one command keeps the order, whatever it is.                   *)

\* Command c moves to another stage or stays, and may take a step of the lease.
Advances(c, to) ==
  /\ at[c] \notin {"nowhere", "settled"} /\ to \in Stages \ {"nowhere"}
  /\ at' = [at EXCEPT ![c] = to]
  /\ UNCHANGED accesses
  /\ LeaseStep(c)
  /\ Lease!Free(c) => attempt[c] \in {"held", "released"}
  /\ to \in Unattempted => at[c] \in Unattempted
  /\ to = "scheduled" => at[c] = "scheduled"
  /\ at[c] = "scheduled" /\ to # "scheduled" =>
       \A d \in Commands : d < c => at[d] # "scheduled"
  /\ Lease!Acquire(c) =>
       /\ at[c] \in Unattempted
       /\ \A d \in Commands : d < c => at[d] \notin Unattempted

LEMMA OrderAdvances ==
  ASSUME Known, Queue, NEW c \in Commands, NEW to, Advances(c, to)
  PROVE  CommandsInOrder'
<1> USE KnownFacts
<1>1. \A d \in Commands \ {c} :
        /\ at'[d] = at[d]
        /\ attempt'[d] = attempt[d] \/ (attempt[d] = "waiting" /\ attempt'[d] = "woken")
  BY LeaseStepOfOne DEF Advances
<1>2. at'[c] = to
  BY DEF Advances
<1>3. ASSUME NEW b \in Commands, NEW d \in Commands, d < b
      PROVE  /\ at'[b] # "nowhere" => at'[d] # "nowhere"
             /\ at'[b] \notin {"nowhere", "scheduled"} => at'[d] # "scheduled"
  BY <1>1, <1>2, <1>3 DEF Queue, CommandsInOrder, Advances
<1>4. ASSUME NEW b \in Commands, NEW d \in Commands, d < b, attempt'[b] # "idle"
      PROVE  at'[d] \notin Unattempted
  <2>1. CASE attempt[b] # "idle"
    <3>1. at[d] \notin Unattempted
      BY <1>4, <2>1 DEF Queue, CommandsInOrder
    <3> QED BY <1>1, <1>2, <3>1 DEF Advances
  <2>2. CASE attempt[b] = "idle"
    <3>1. b = c
      BY <1>1, <1>4, <2>2
    <3>2. Lease!Acquire(c)
      BY <1>4, <2>2, <3>1, LeaseStepOwn DEF Advances
    <3> QED BY <1>1, <1>4, <3>1, <3>2 DEF Advances
  <2> QED BY <2>1, <2>2
<1>5. ASSUME NEW b \in Commands, NEW d \in Commands, d < b
      PROVE  ~Queued(b, d)'
  <2>1. ~Queued(b, d)
    BY <1>5 DEF Queue, CommandsInOrder
  <2>2. ASSUME d = c, Lease!Acquire(c) PROVE attempt[b] = "idle"
    BY <1>5, <2>2 DEF Advances, Queue, CommandsInOrder
  <2>3. Queued(b, d)' => d = c /\ Lease!Acquire(c) /\ attempt[b] \in Lease!Asleep
    BY <2>1, LeaseStepOfOne DEF Advances
  <2> QED BY <2>2, <2>3 DEF Lease!Asleep
<1>6. ASSUME NEW b \in Commands, NEW d \in Commands, d < b, attempt'[b] \in {"held", "released"}
      PROVE  attempt'[d] \notin Hoping
  <2>1. CASE attempt[b] \in {"held", "released"}
    <3>1. attempt[d] \notin Hoping /\ at[d] \notin Unattempted
      BY <1>6, <2>1 DEF Queue, CommandsInOrder
    <3>2. CASE d # c
      BY <1>1, <3>1, <3>2 DEF Hoping
    <3>3. CASE d = c
      BY <3>1, <3>3, LeaseStepOwn DEF Advances
    <3> QED BY <3>2, <3>3
  <2>2. CASE attempt[b] \notin {"held", "released"}
    <3>1. b = c
      BY <1>1, <1>6, <2>2
    <3>2. \/ Lease!Acquire(c) /\ attempt'[c] = "held"
          \/ Lease!Resume(c) \/ Lease!ResumeUse(c)
      BY <1>6, <2>2, <3>1, LeaseStepOwn DEF Advances
    <3>3. d \in (Commands \cup Accesses) \ {c} /\ ~Queued(c, d)
      BY <1>6, <3>1 DEF Queue, CommandsInOrder
    <3>4. attempt[d] # "held" /\ attempt[d] \notin Lease!Asleep \ {"aborted"}
      BY <3>2, <3>3, LeaseTaker
    <3>5. attempt[d] \notin Hoping
      BY <3>4 DEF Hoping, Lease!Asleep
    <3> QED BY <1>1, <3>3, <3>5 DEF Hoping
  <2> QED BY <2>1, <2>2
<1> QED BY <1>3, <1>4, <1>5, <1>6 DEF CommandsInOrder

LEMMA AccessesAdvance ==
  ASSUME Known, Queue, NEW c \in Commands, NEW to, Advances(c, to)
  PROVE  \A a \in Accesses : AccessFits(a)'
<1> USE KnownFacts
<1>1. \A y \in (Commands \cup Accesses) \ {c} :
        attempt'[y] = attempt[y] \/ (attempt[y] = "waiting" /\ attempt'[y] = "woken")
  BY LeaseStepOfOne DEF Advances
<1>2. access' = access /\ earlier' = earlier
  BY DEF Advances, accesses
<1>3. \A d \in Commands :
        /\ at[d] # "nowhere" => at'[d] # "nowhere"
        /\ at[d] \notin Unattempted => at'[d] \notin Unattempted
  BY DEF Advances
<1>4. ASSUME NEW a \in Accesses PROVE AccessFits(a)'
  <2>1. AccessFits(a) /\ a \in (Commands \cup Accesses) \ {c}
    BY DEF Queue
  <2>2. /\ attempt[a] \in Lease!Asleep => attempt'[a] \in Lease!Asleep
        /\ attempt[a] \in {"idle", "released", "cancelled"} => attempt'[a] = attempt[a]
    BY <1>1, <2>1 DEF Lease!Asleep
  <2>3. ASSUME access[a] = "queued", NEW d \in earlier[a] PROVE ~Queued(a, d)'
    <3>1. d \in Commands /\ at[d] \notin Unattempted /\ ~Queued(a, d)
      BY <2>1, <2>3 DEF AccessFits
    <3>2. ~(d = c /\ Lease!Acquire(c))
      BY <3>1 DEF Advances
    <3> QED BY <3>1, <3>2, LeaseStepOfOne DEF Advances
  <2>4. ASSUME access[a] \in {"done", "refused"}, NEW d \in earlier[a] PROVE attempt'[d] \notin Hoping
    <3>1. d \in Commands /\ at[d] \notin Unattempted /\ attempt[d] \notin Hoping
      BY <2>1, <2>4 DEF AccessFits
    <3>2. CASE d # c
      BY <1>1, <3>1, <3>2 DEF Hoping
    <3>3. CASE d = c
      BY <3>1, <3>3, LeaseStepOwn DEF Advances
    <3> QED BY <3>2, <3>3
  <2>5. \A d \in earlier[a] : d \in Commands
    OBVIOUS
  <2> QED BY <1>2, <1>3, <2>1, <2>2, <2>3, <2>4, <2>5 DEF AccessFits
<1> QED BY <1>4

\* Nobody gets past a command that waits on the fast path.
LEMMA FastPathKeepsFree ==
  ASSUME Known, Queue, NEW c \in Commands, NEW to, Advances(c, to),
         NEW e \in Commands \ {c}, at[e] = "queueing"
  PROVE  /\ \A d \in Commands : d < e => at'[d] = "settled"
         /\ attempt'[e] # "aborted" => ~locked'
<1> USE KnownFacts
<1>1. \A d \in Commands : d < e => at[d] = "settled"
  BY DEF Queue, FastPathIsFree
<1>2. e < c
  BY <1>1 DEF Advances
<1>3. \A d \in Commands : d < e => at'[d] = "settled"
  BY <1>1 DEF Advances
<1>4. ASSUME attempt'[e] # "aborted", locked' PROVE FALSE
  <2>1. attempt[e] # "aborted"
    BY <1>4, LeaseStepOfOne DEF Advances
  <2>2. ~locked
    BY <2>1 DEF Queue, FastPathIsFree
  <2>3. Lease!Resume(c) \/ (Lease!Acquire(c) /\ attempt'[c] = "held")
    BY <1>4, <2>2, LeaseStepOwn DEF Advances
  <2>4. attempt[e] \in Lease!Asleep \ {"aborted"}
    BY <2>1 DEF Queue, AttemptFits
  <2>5. Queued(c, e)
    BY <2>3, <2>4, LeaseTaker
  <2> QED BY <1>2, <2>5 DEF Queue, CommandsInOrder
<1> QED BY <1>3, <1>4

\* All that is left to show of a command's step is about that command.
LEMMA CommandStep ==
  ASSUME Known, Queue, NEW c \in Commands, NEW to, Advances(c, to),
         AttemptFits(c)', HandleFits(c)',
         \A d \in Commands \ {c} :
           /\ handle_state'[d] = handle_state[d]
           /\ d \in acquired' <=> d \in acquired
           /\ d \in started' <=> d \in started
           /\ d \in forced' <=> d \in forced,
         pending' = IF to = "settled" THEN pending \ {c} ELSE pending,
         to = "queueing" =>
           /\ \A d \in Commands : d < c => at[d] = "settled"
           /\ attempt'[c] # "aborted" => ~locked'
  PROVE  Queue'
<1> USE KnownFacts
<1>1. \A d \in Commands \ {c} :
        /\ at'[d] = at[d]
        /\ attempt'[d] = attempt[d] \/ (attempt[d] = "waiting" /\ attempt'[d] = "woken")
  BY LeaseStepOfOne DEF Advances
<1>2. at'[c] = to
  BY DEF Advances
<1>3. ASSUME NEW d \in Commands \ {c} PROVE AttemptFits(d)' /\ HandleFits(d)'
  <2>1. AttemptFits(d) /\ HandleFits(d)
    BY DEF Queue
  <2>2. AttemptFits(d)'
    BY <1>1, <2>1 DEF AttemptFits, Hoping, Lease!Asleep
  <2>3. HandleFits(d)'
    BY <1>1, <2>1 DEF HandleFits
  <2> QED BY <2>2, <2>3
<1>4. PendingFits'
  BY <1>1, <1>2 DEF Queue, PendingFits, Advances
<1>5. CommandsInOrder' /\ \A a \in Accesses : AccessFits(a)'
  BY OrderAdvances, AccessesAdvance
<1>6. FastPathIsFree'
  <2>1. ASSUME NEW e \in Commands, at'[e] = "queueing"
        PROVE  /\ \A d \in Commands : d < e => at'[d] = "settled"
               /\ attempt'[e] # "aborted" => ~locked'
    <3>1. CASE e = c
      BY <1>1, <1>2, <2>1, <3>1
    <3>2. CASE e # c
      BY <1>1, <2>1, <3>2, FastPathKeepsFree
    <3> QED BY <3>1, <3>2
  <2> QED BY <2>1 DEF FastPathIsFree
<1> QED BY <1>3, <1>4, <1>5, <1>6 DEF Queue
-----------------------------------------------------------------------------
(* The actions, one by one. *)

LEMMA QueueStays ==
  ASSUME Queue,
         UNCHANGED <<at, handle_state, acquired, started, forced, pending, accesses, lease>>
  PROVE  Queue'
<1>1. /\ \A c \in Commands : AttemptFits(c)' /\ HandleFits(c)'
      /\ PendingFits' /\ FastPathIsFree'
  BY DEF Queue, AttemptFits, HandleFits, PendingFits, FastPathIsFree, lease
<1>2. \A x, y : Queued(x, y)' <=> Queued(x, y)
  BY DEF Queued, LeaseProofs!Before, lease
<1>3. CommandsInOrder'
  BY <1>2 DEF Queue, CommandsInOrder, lease
<1>4. \A a \in Accesses : AccessFits(a)'
  BY <1>2 DEF Queue, AccessFits, accesses, lease
<1> QED BY <1>1, <1>3, <1>4 DEF Queue

LEMMA QueueInit == Init => Queue
<1> SUFFICES ASSUME Init PROVE Queue
  OBVIOUS
<1>1. waiters = <<>> /\ DOMAIN waiters = {}
  BY DEF Init, Lease!Init
<1>2. \A x, y : ~Queued(x, y)
  BY <1>1 DEF Queued, LeaseProofs!Before
<1>3. /\ at = [c \in Commands |-> "nowhere"]
      /\ attempt = [c \in Commands \cup Accesses |-> "idle"]
      /\ access = [a \in Accesses |-> "outside"]
      /\ handle_state = [c \in Commands |-> "queued"]
      /\ pending = {} /\ started = {} /\ forced = {} /\ acquired = {}
  BY DEF Init, Lease!Init
<1>4. \A c \in Commands : AttemptFits(c) /\ HandleFits(c)
  BY <1>3 DEF AttemptFits, HandleFits, Unattempted
<1>5. \A a \in Accesses : AccessFits(a)
  BY <1>3 DEF AccessFits
<1>6. CommandsInOrder
  BY <1>2, <1>3 DEF CommandsInOrder
<1> QED BY <1>3, <1>4, <1>5, <1>6 DEF Queue, PendingFits, FastPathIsFree

\* A new command is the last of all.
LEMMA QueueSubmit ==
  ASSUME Known, Queue, NEW c \in Commands, Submit(c)
  PROVE  Queue'
<1> USE KnownFacts
<1>1. /\ at[c] = "nowhere" /\ at' = [at EXCEPT ![c] = "scheduled"]
      /\ \A d \in Commands : d < c => at[d] # "nowhere"
      /\ pending' = pending \cup {c}
      /\ UNCHANGED <<handle_state, acquired, started, forced, accesses, lease>>
  BY DEF Submit, evidence, lifecycle
<1>2. \A x, y : Queued(x, y)' <=> Queued(x, y)
  BY <1>1 DEF Queued, LeaseProofs!Before, lease
<1>3. \A d \in Commands : AttemptFits(d)' /\ HandleFits(d)'
  BY <1>1 DEF Queue, AttemptFits, HandleFits, Unattempted, lease
<1>4. PendingFits'
  BY <1>1 DEF Queue, PendingFits
<1>5. CommandsInOrder'
  BY <1>1, <1>2 DEF Queue, CommandsInOrder, Unattempted, lease
<1>6. ASSUME NEW a \in Accesses PROVE AccessFits(a)'
  <2>1. AccessFits(a) /\ access[a] \in {"outside", "checkpoint", "queued", "done", "refused", "cancelled"}
    BY DEF Queue
  <2>2. \A d \in earlier[a] : d \in Commands
    OBVIOUS
  <2> QED BY <1>1, <1>2, <2>1, <2>2 DEF AccessFits, accesses, lease, Unattempted
<1>7. FastPathIsFree'
  BY <1>1 DEF Queue, FastPathIsFree, lease
<1> QED BY <1>3, <1>4, <1>5, <1>6, <1>7 DEF Queue

\* The loop starts the tasks in the order of their creation, and those before
\* the first pending command have ended.
LEMMA StartedBefore ==
  ASSUME Queue, NEW c \in Commands, at[c] # "nowhere"
  PROVE  /\ \A stage \in Stages \ {"nowhere", "settled"} : FirstAt(c, stage) =>
              \A d \in Commands : d < c => at[d] # stage
         /\ IsFirstPending(c) => \A d \in Commands : d < c => at[d] = "settled"
<1>1. \A d \in Commands : d < c => at[d] # "nowhere"
  BY DEF Queue, CommandsInOrder
<1>2. \A d \in Commands : d \in pending <=> at[d] \notin {"nowhere", "settled"}
  BY DEF Queue, PendingFits
<1>3. \A d \in Commands : c <= d => ~(d < c)
  BY DEF Commands
<1> QED BY <1>1, <1>2, <1>3 DEF FirstAt, IsFirstPending

\* Going on with the lease.
LEMMA QueueProceed ==
  ASSUME Known, Queue, NEW c \in Commands,
         NEW from \in {"scheduled", "queueing", "leaving"}, Proceed(c, from),
         LeaseStep(c), ~Lease!Free(c),
         attempt'[c] = "held", c \in acquired',
         \A d \in Commands \ {c} : d \in acquired' <=> d \in acquired,
         UNCHANGED <<pending, started, forced, accesses>>,
         from = "scheduled" => \A d \in Commands : d < c => at[d] \notin Unattempted,
         from # "scheduled" => ~Lease!Acquire(c)
  PROVE  Queue'
<1> USE KnownFacts
<1>1. at[c] = from
  BY DEF Proceed, Moves
<1>2. HandleFits(c)
  BY DEF Queue
<1>3. ASSUME NEW to \in {"preparing", "releasing"}, at' = [at EXCEPT ![c] = to],
             IF to = "preparing" THEN handle_state' = [handle_state EXCEPT ![c] = "preparing"]
             ELSE UNCHANGED handle_state
      PROVE  Queue'
  <2>1. Advances(c, to)
    BY <1>1, <1>3 DEF Advances, Unattempted, Stages
  <2>2. at'[c] = to
    BY <1>3
  <2>3. AttemptFits(c)'
    BY <2>2 DEF AttemptFits, Unattempted
  <2>4. handle_state'[c] = IF to = "preparing" THEN "preparing" ELSE handle_state[c]
    BY <1>3 DEF Known, SessionTypes
  <2>5. HandleFits(c)'
    BY <1>1, <1>2, <2>2, <2>4 DEF HandleFits, Unattempted
  <2>6. \A d \in Commands \ {c} : handle_state'[d] = handle_state[d]
    BY <1>3 DEF Known, SessionTypes
  <2> QED BY <2>1, <2>3, <2>5, <2>6, CommandStep
<1> QED BY <1>3 DEF Proceed, Moves
LEMMA QueueOwners ==
  ASSUME Queue,
         \/ \E o \in Owners : OwnerStep(o)
         \/ Aclose
         \/ ShutdownStep
  PROVE  Queue'
<1>1. UNCHANGED <<at, handle_state, acquired, started, forced, pending, accesses, lease>>
  BY DEF OwnerStep, Enter, EnterReturns, EnterRaises, Exit, Aclose, ShutdownStep, ShutdownBegins,
         ShutdownGathers, ShutdownReturns, ShutdownRaises, owned, evidence, requests
<1> QED BY <1>1, QueueStays

\* How the steps of the lease are told apart.
LEMMA LeaseStepMarks ==
  ASSUME Known, NEW c \in Commands \cup Accesses
  PROVE  /\ Lease!Free(c) => attempt'[c] = "released"
         /\ Lease!Acquire(c) => attempt[c] = "idle" /\ attempt'[c] \in {"waiting", "held"}
         /\ Lease!Resume(c) => attempt[c] = "woken" /\ attempt'[c] = "held"
         /\ Lease!Unwind(c) =>
              attempt[c] \in {"aborted", "abandoned"} /\ attempt'[c] = "cancelled"
         /\ UNCHANGED lease => attempt'[c] = attempt[c] /\ ~Lease!Acquire(c)
<1> USE KnownFacts
<1>1. ASSUME NEW final \in {"cancelled", "released"}, NEW queue,
             \/ attempt' = [attempt EXCEPT ![c] = final]
             \/ attempt' = Lease!WakeFirst(queue, [attempt EXCEPT ![c] = final])
      PROVE  attempt'[c] = final
  BY <1>1 DEF Lease!WakeFirst, Lease!Stages, Lease!Asleep
<1>2. Lease!Free(c) => attempt'[c] = "released"
  BY <1>1 DEF Lease!Free
<1>3. Lease!Unwind(c) => attempt[c] \in {"aborted", "abandoned"} /\ attempt'[c] = "cancelled"
  BY <1>1 DEF Lease!Unwind
<1>4. Lease!Acquire(c) => attempt[c] = "idle" /\ attempt'[c] \in {"waiting", "held"}
  BY DEF Lease!Acquire
<1>5. Lease!Resume(c) => attempt[c] = "woken" /\ attempt'[c] = "held"
  BY DEF Lease!Resume
<1> QED BY <1>2, <1>3, <1>4, <1>5 DEF lease

\* A task that was scheduled moves on without the lease.
LEMMA QueueBeginsPlainly ==
  ASSUME Known, Queue, NEW c \in Commands, FirstAt(c, "scheduled"),
         NEW to \in {"acquiring", "finalizing"}, Moves(c, "scheduled", to),
         UNCHANGED <<handle_state, acquired, lease, pending, started, forced, accesses>>
  PROVE  Queue'
<1> USE KnownFacts
<1>1. at[c] = "scheduled" /\ at' = [at EXCEPT ![c] = to] /\ at'[c] = to
  BY DEF Moves
<1>2. \A d \in Commands : d < c => at[d] # "scheduled"
  BY <1>1, StartedBefore DEF Stages
<1>3. AttemptFits(c) /\ HandleFits(c) /\ attempt[c] = "idle"
  BY <1>1 DEF Queue, AttemptFits, Unattempted
<1>4. attempt'[c] = "idle" /\ ~Lease!Free(c) /\ ~Lease!Acquire(c)
  BY <1>3, LeaseStepMarks
<1>5. Advances(c, to)
  BY <1>1, <1>2, <1>4 DEF Advances, LeaseStep, Unattempted, Stages
<1>6. AttemptFits(c)'
  BY <1>1, <1>4 DEF AttemptFits, Lease!Asleep, Hoping
<1>7. HandleFits(c)'
  BY <1>1, <1>3 DEF HandleFits, Unattempted
<1> QED BY <1>1, <1>5, <1>6, <1>7, CommandStep

LEMMA QueueBeginsAtOnce ==
  ASSUME Known, Queue, NEW c \in Commands, FirstAt(c, "scheduled"), BeginAtOnce(c),
         UNCHANGED <<pending, started, forced, accesses>>
  PROVE  Queue'
<1> USE KnownFacts
<1>1. /\ IsFirstPending(c) /\ ~locked /\ Lease!Acquire(c)
      /\ at[c] = "scheduled"
  BY DEF BeginAtOnce, Proceed, Moves
<1>2. \A d \in Commands : d < c => at[d] = "settled"
  BY <1>1, StartedBefore
<1>3. LeaseStep(c) /\ attempt'[c] \in {"waiting", "held"} /\ ~Lease!Free(c)
  BY <1>1, LeaseStepMarks DEF LeaseStep
<1>4. CASE attempt'[c] = "held"
  <2>1. Proceed(c, "scheduled") /\ acquired' = acquired \cup {c}
    BY <1>4 DEF BeginAtOnce
  <2> QED BY <1>2, <1>3, <1>4, <2>1, QueueProceed DEF Unattempted
<1>5. CASE attempt'[c] # "held"
  <2>1. at' = [at EXCEPT ![c] = "queueing"] /\ UNCHANGED <<handle_state, acquired>>
    BY <1>5 DEF BeginAtOnce, Moves
  <2>2. at'[c] = "queueing"
    BY <2>1
  <2>3. Advances(c, "queueing")
    BY <1>1, <1>2, <1>3, <2>1 DEF Advances, Unattempted, Stages
  <2>4. AttemptFits(c)'
    BY <1>3, <1>5, <2>2 DEF AttemptFits, Unattempted, Lease!Asleep
  <2>5. HandleFits(c) /\ HandleFits(c)'
    BY <1>1, <2>1, <2>2 DEF Queue, HandleFits, Unattempted
  <2>6. ~locked'
    BY <1>1, <1>3, <1>5, LeaseStepOwn
  <2> QED BY <1>2, <2>1, <2>3, <2>4, <2>5, <2>6, CommandStep
<1> QED BY <1>4, <1>5

LEMMA QueueBegin ==
  ASSUME Known, Queue, NEW c \in Commands, Begin(c)
  PROVE  Queue'
<1>1. FirstAt(c, "scheduled") /\ UNCHANGED <<pending, started, forced, accesses>>
  BY DEF Begin, requests, evidence, lifecycle
<1>2. CASE BeginAtOnce(c)
  BY <1>1, <1>2, QueueBeginsAtOnce
<1>3. CASE BeginStopped(c) \/ BeginExpired(c) \/ BeginRace(c)
  <2>1. /\ Moves(c, "scheduled", "finalizing") \/ Moves(c, "scheduled", "acquiring")
        /\ UNCHANGED <<handle_state, acquired, lease>>
    BY <1>3 DEF BeginStopped, BeginExpired, BeginRace
  <2> QED BY <1>1, <2>1, QueueBeginsPlainly
<1> QED BY <1>2, <1>3 DEF Begin
\* A command that still waits for the lease, or leaves the queue without it.
LEMMA QueueMove ==
  ASSUME Known, Queue, NEW c \in Commands,
         at[c] \in {"queueing", "racing", "leaving"},
         NEW to \in {"queueing", "racing", "leaving", "finalizing"},
         to = "queueing" => at[c] = "queueing" /\ (attempt'[c] # "aborted" => ~locked'),
         at' = [at EXCEPT ![c] = to],
         LeaseStep(c), ~Lease!Acquire(c), Lease!Free(c) => attempt[c] = "held",
         AttemptFits(c)',
         acquired' = acquired \/ acquired' = acquired \cup {c},
         UNCHANGED <<handle_state, pending, started, forced, accesses>>
  PROVE  Queue'
<1> USE KnownFacts
<1>1. at'[c] = to
  OBVIOUS
<1>2. Advances(c, to)
  BY DEF Advances, Unattempted, Stages
<1>3. HandleFits(c)'
  BY <1>1 DEF Queue, HandleFits, Unattempted
<1>4. to = "queueing" => \A d \in Commands : d < c => at[d] = "settled"
  BY DEF Queue, FastPathIsFree
<1> QED BY <1>2, <1>3, <1>4, CommandStep

LEMMA QueueFastPath ==
  ASSUME Known, Queue, NEW c \in Commands,
         QueueingReturns(c) \/ QueueingExpires(c) \/ QueueingRaises(c)
  PROVE  Queue'
<1> USE KnownFacts
<1>1. CASE QueueingReturns(c)
  <2>1. /\ Lease!Resume(c) /\ Proceed(c, "queueing") /\ acquired' = acquired \cup {c}
        /\ UNCHANGED <<pending, started, forced, accesses>>
    BY <1>1 DEF QueueingReturns, requests, evidence, lifecycle
  <2>2. LeaseStep(c) /\ attempt'[c] = "held" /\ ~Lease!Free(c) /\ ~Lease!Acquire(c)
    BY <2>1, LeaseStepMarks DEF LeaseStep
  <2> QED BY <2>1, <2>2, QueueProceed
<1>2. CASE QueueingExpires(c)
  <2>1. /\ at[c] = "queueing" /\ Lease!Cancel(c)
        /\ UNCHANGED <<at, acquired, handle_state, pending, started, forced, accesses>>
    BY <1>2 DEF QueueingExpires, owned, requests, evidence, lifecycle
  <2>2. /\ attempt[c] \in {"waiting", "woken"} /\ locked' = locked
        /\ attempt'[c] = IF attempt[c] = "waiting" THEN "aborted" ELSE "abandoned"
    BY <2>1 DEF Lease!Cancel, Lease!Cancelled
  <2>3. LeaseStep(c) /\ ~Lease!Free(c) /\ ~Lease!Acquire(c)
    BY <2>1, <2>2, LeaseStepMarks DEF LeaseStep
  <2>4. AttemptFits(c)'
    BY <2>1, <2>2 DEF AttemptFits, Unattempted, Lease!Asleep
  <2>5. at' = [at EXCEPT ![c] = "queueing"]
    BY <2>1
  <2>6. attempt'[c] # "aborted" => ~locked'
    BY <2>1, <2>2 DEF Queue, FastPathIsFree
  <2> QED BY <2>1, <2>3, <2>4, <2>5, <2>6, QueueMove
<1>3. CASE QueueingRaises(c)
  <2>1. /\ at[c] = "queueing" /\ Lease!Unwind(c) /\ at' = [at EXCEPT ![c] = "finalizing"]
        /\ UNCHANGED <<acquired, handle_state, pending, started, forced, accesses>>
    BY <1>3 DEF QueueingRaises, Moves, requests, evidence, lifecycle
  <2>2. attempt'[c] = "cancelled" /\ LeaseStep(c) /\ ~Lease!Free(c) /\ ~Lease!Acquire(c)
    BY <2>1, LeaseStepMarks DEF LeaseStep
  <2>3. AttemptFits(c)'
    BY <2>1, <2>2 DEF AttemptFits, Unattempted, Lease!Asleep
  <2> QED BY <2>1, <2>2, <2>3, QueueMove
<1> QED BY <1>1, <1>2, <1>3

LEMMA QueueAcquisition ==
  ASSUME Known, Queue, NEW c \in Commands,
         AcquisitionBegins(c) \/ AcquisitionResumes(c)
  PROVE  Queue'
<1> USE KnownFacts
<1>1. CASE AcquisitionBegins(c)
  <2>1. /\ FirstAt(c, "acquiring") /\ at[c] = "acquiring" /\ at' = [at EXCEPT ![c] = "racing"]
        /\ Lease!Acquire(c) /\ at'[c] = "racing"
        /\ UNCHANGED <<handle_state, acquired, pending, started, forced, accesses>>
    BY <1>1 DEF AcquisitionBegins, Moves, requests, evidence, lifecycle
  <2>2. \A d \in Commands : d < c => at[d] \notin Unattempted
    <3>1. \A d \in Commands : d < c => at[d] # "acquiring"
      BY <2>1, StartedBefore DEF Stages
    <3> QED BY <2>1, <3>1 DEF Queue, CommandsInOrder, Unattempted
  <2>3. LeaseStep(c) /\ attempt'[c] \in {"waiting", "held"} /\ ~Lease!Free(c)
    BY <2>1, LeaseStepMarks DEF LeaseStep
  <2>4. Advances(c, "racing")
    BY <2>1, <2>2, <2>3 DEF Advances, Unattempted, Stages
  <2>5. AttemptFits(c)' /\ HandleFits(c)'
    BY <2>1, <2>3 DEF Queue, AttemptFits, HandleFits, Unattempted, Hoping
  <2> QED BY <2>1, <2>4, <2>5, CommandStep
<1>2. CASE AcquisitionResumes(c)
  <2>1. /\ at[c] \in {"racing", "leaving"}
        /\ Lease!Resume(c) \/ Lease!Unwind(c)
        /\ UNCHANGED <<at, acquired, handle_state, pending, started, forced, accesses>>
    BY <1>2 DEF AcquisitionResumes, owned, requests, evidence, lifecycle
  <2>2. AttemptFits(c)
    BY DEF Queue
  <2>3. \/ Lease!Resume(c) /\ at[c] = "racing" /\ attempt'[c] = "held"
        \/ Lease!Unwind(c) /\ at[c] = "leaving" /\ attempt'[c] = "cancelled"
    BY <2>1, <2>2, LeaseStepMarks DEF AttemptFits, Hoping
  <2>4. LeaseStep(c) /\ ~Lease!Free(c) /\ ~Lease!Acquire(c)
    BY <2>1, <2>3, LeaseStepMarks DEF LeaseStep
  <2>5. AttemptFits(c)'
    BY <2>1, <2>3 DEF AttemptFits, Unattempted, Hoping
  <2>6. at' = [at EXCEPT ![c] = at[c]]
    BY <2>1
  <2> QED BY <2>1, <2>4, <2>5, <2>6, QueueMove
<1> QED BY <1>1, <1>2

LEMMA QueueRace ==
  ASSUME Known, Queue, NEW c \in Commands,
         RaceReturns(c) \/ RaceExpires(c) \/ RaceEnds(c)
  PROVE  Queue'
<1> USE KnownFacts
<1>0. AttemptFits(c)
  BY DEF Queue
<1>1. CASE RaceReturns(c) \/ RaceExpires(c)
  <2>1. /\ at[c] = "racing" /\ at' = [at EXCEPT ![c] = "leaving"] /\ at'[c] = "leaving"
        /\ attempt' = Lease!Cancelled(c)
        /\ acquired' = acquired \/ acquired' = acquired \cup {c}
        /\ UNCHANGED <<locked, waiters, handle_state, pending, started, forced, accesses>>
    BY <1>1 DEF RaceReturns, RaceExpires, Moves, requests, evidence, lifecycle
  <2>2. attempt[c] \in {"waiting", "woken", "held"}
    BY <1>0, <2>1 DEF AttemptFits, Hoping
  <2>3. /\ attempt'[c] \in {"aborted", "abandoned", "held"}
        /\ attempt[c] = "held" => attempt' = attempt
    BY <2>1, <2>2 DEF Lease!Cancelled
  <2>4. LeaseStep(c)
    BY <2>1, <2>2, <2>3 DEF LeaseStep, Lease!Cancel, lease
  <2>5. ~Lease!Free(c) /\ ~Lease!Acquire(c)
    BY <2>2, <2>3, LeaseStepMarks
  <2>6. AttemptFits(c)'
    BY <2>1, <2>3 DEF AttemptFits, Unattempted
  <2> QED BY <2>1, <2>4, <2>5, <2>6, QueueMove
<1>2. CASE RaceEnds(c)
  <2>1. UNCHANGED <<acquired, pending, started, forced, accesses>>
    BY <1>2 DEF RaceEnds, requests, evidence, lifecycle
  <2>2. CASE c \in acquired
    <3>1. Proceed(c, "leaving") /\ UNCHANGED lease /\ at[c] = "leaving"
      BY <1>2, <2>2 DEF RaceEnds, Proceed, Moves
    <3>2. attempt[c] = "held"
      BY <2>2, <3>1 DEF Known, Held, AcquiredHolds
    <3>3. LeaseStep(c) /\ attempt'[c] = "held" /\ ~Lease!Free(c) /\ ~Lease!Acquire(c)
      BY <3>1, <3>2, LeaseStepMarks DEF LeaseStep
    <3> QED BY <2>1, <2>2, <3>1, <3>3, QueueProceed
  <2>3. CASE c \notin acquired
    <3>1. /\ at[c] = "leaving" /\ at' = [at EXCEPT ![c] = "finalizing"] /\ at'[c] = "finalizing"
          /\ UNCHANGED handle_state
          /\ \/ attempt[c] = "held" /\ Lease!Free(c)
             \/ attempt[c] = "cancelled" /\ UNCHANGED lease
      BY <1>2, <2>3 DEF RaceEnds, Moves
    <3>2. /\ LeaseStep(c) /\ attempt'[c] \in {"released", "cancelled"} /\ ~Lease!Acquire(c)
          /\ Lease!Free(c) => attempt[c] \in {"held", "released"}
      BY <3>1, LeaseStepMarks DEF LeaseStep
    <3>3. AttemptFits(c)'
      BY <3>1, <3>2 DEF AttemptFits, Unattempted
    <3> QED BY <2>1, <3>1, <3>2, <3>3, QueueMove
  <2> QED BY <2>2, <2>3
<1> QED BY <1>1, <1>2
\* A command that uses the driver holds the lease until it settles.
LEMMA QueueServed ==
  ASSUME Known, Queue, NEW c \in Commands, UsesDriver(c),
         NEW to \in DriverStages \cup {"finalizing"}, at' = [at EXCEPT ![c] = to],
         HandleFits(c)',
         \A d \in Commands \ {c} :
           /\ handle_state'[d] = handle_state[d]
           /\ d \in started' <=> d \in started
           /\ d \in forced' <=> d \in forced,
         UNCHANGED <<acquired, pending, accesses, lease>>
  PROVE  Queue'
<1> USE KnownFacts
<1>1. c \in acquired /\ attempt[c] = "held" /\ at'[c] = to
  BY DEF Known, Held, UsersAcquired, AcquiredHolds, UsesDriver, DriverStages
<1>2. attempt'[c] = "held" /\ LeaseStep(c) /\ ~Lease!Free(c) /\ ~Lease!Acquire(c)
  BY <1>1, LeaseStepMarks DEF LeaseStep
<1>3. Advances(c, to)
  BY <1>2 DEF Advances, UsesDriver, DriverStages, Unattempted, Stages
<1>4. AttemptFits(c)'
  BY <1>1, <1>2 DEF AttemptFits, Unattempted, DriverStages
<1> QED BY <1>3, <1>4, CommandStep DEF DriverStages

LEMMA QueueExecution ==
  ASSUME Known, Queue, NEW c \in Commands,
         \/ PrepareReturns(c) \/ PrepareRaises(c)
         \/ ExecutionStopped(c) \/ ExecutionRaises(c) \/ DeadlineExpires(c)
         \/ ExecutionReturns(c) \/ DrainEnds(c) \/ ExecuteOwnedEnds(c)
         \/ DriverStopped(c) \/ DriverFinished(c)
  PROVE  Queue'
<1> USE DEF Moves
<1>1. HandleFits(c)
  BY DEF Queue
<1>2. handle_state \in [Commands -> {"queued", "preparing", "running", "finishing", "finished"}]
  BY DEF Known, SessionTypes
<1>3. at \in [Commands -> Stages]
  BY KnownFacts
<1>4. UNCHANGED <<acquired, pending, accesses, lease>>
  BY DEF PrepareReturns, PrepareRaises, ExecutionStopped, ExecutionRaises, DeadlineExpires,
         ExecutionReturns, DrainEnds, ExecuteOwnedEnds, DriverStopped, DriverFinished,
         Conclude, requests, lifecycle, evidence
<1>5. at[c] \in {"preparing", "executing", "draining", "unwinding", "stopping", "releasing"} =>
        c \in acquired
  BY DEF Known, Held, UsersAcquired, UsesDriver, DriverStages
<1>6. CASE PrepareReturns(c)
  <2>1. /\ at[c] = "preparing" /\ at' = [at EXCEPT ![c] = "executing"] /\ at'[c] = "executing"
        /\ handle_state' = [handle_state EXCEPT ![c] = "running"]
        /\ started' = started \cup {c} /\ forced' = forced
    BY <1>3, <1>6 DEF PrepareReturns
  <2>2. HandleFits(c)'
    BY <1>1, <1>2, <1>4, <1>5, <2>1 DEF HandleFits, Unattempted
  <2> QED BY <1>2, <1>4, <2>1, <2>2, QueueServed DEF UsesDriver, DriverStages
<1>7. ASSUME NEW from \in {"preparing", "unwinding"}, NEW why, GiveUp(c, from, why),
             UNCHANGED handle_state
      PROVE  Queue'
  <2>1. /\ at[c] = from /\ at' = [at EXCEPT ![c] = "stopping"] /\ at'[c] = "stopping"
        /\ forced' = forced \cup {c} /\ UNCHANGED <<handle_state, started>>
    BY <1>3, <1>7 DEF GiveUp
  <2>2. HandleFits(c)'
    BY <1>1, <1>4, <1>5, <2>1 DEF HandleFits, Unattempted
  <2> QED BY <1>4, <2>1, <2>2, QueueServed DEF UsesDriver, DriverStages
<1>8. CASE PrepareRaises(c)
  BY <1>7, <1>8 DEF PrepareRaises
<1>9. ASSUME NEW from \in {"executing", "draining"}, NEW why, Conclude(c, from, why)
      PROVE  Queue'
  <2>1. /\ at[c] = from /\ at' = [at EXCEPT ![c] = "unwinding"] /\ at'[c] = "unwinding"
        /\ UNCHANGED <<handle_state, started, forced>>
    BY <1>3, <1>9 DEF Conclude, evidence
  <2>2. HandleFits(c)'
    BY <1>1, <1>4, <2>1 DEF HandleFits, Unattempted
  <2> QED BY <1>4, <2>1, <2>2, QueueServed DEF UsesDriver, DriverStages
<1>10. CASE ExecutionStopped(c) \/ ExecutionRaises(c) \/ DeadlineExpires(c) \/ DrainEnds(c)
  BY <1>9, <1>10 DEF ExecutionStopped, ExecutionRaises, DeadlineExpires, DrainEnds
<1>11. CASE ExecutionReturns(c)
  <2>1. /\ at[c] = "executing" /\ at' = [at EXCEPT ![c] = "draining"] /\ at'[c] = "draining"
        /\ handle_state' = [handle_state EXCEPT ![c] = "finishing"]
        /\ UNCHANGED <<started, forced>>
    BY <1>3, <1>11 DEF ExecutionReturns, evidence
  <2>2. HandleFits(c)'
    BY <1>1, <1>2, <1>4, <2>1 DEF HandleFits, Unattempted
  <2> QED BY <1>2, <1>4, <2>1, <2>2, QueueServed DEF UsesDriver, DriverStages
<1>12. ASSUME NEW from \in {"unwinding", "stopping", "releasing"}, NEW to \in {"releasing", "finalizing"},
              at[c] = from, at' = [at EXCEPT ![c] = to], UNCHANGED <<handle_state, started, forced>>
       PROVE  Queue'
  <2>1. at'[c] = to
    BY <1>3, <1>12
  <2>2. HandleFits(c)'
    BY <1>1, <1>4, <1>12, <2>1 DEF HandleFits, Unattempted
  <2> QED BY <1>4, <1>12, <2>1, <2>2, QueueServed DEF UsesDriver, DriverStages
<1>13. CASE ExecuteOwnedEnds(c)
  <2>1. UNCHANGED handle_state
    BY <1>13 DEF ExecuteOwnedEnds
  <2>2. CASE outcome[c] = "EXITED"
    BY <1>12, <1>13, <2>1, <2>2 DEF ExecuteOwnedEnds, evidence
  <2>3. CASE outcome[c] # "EXITED"
    BY <1>7, <1>13, <2>1, <2>3 DEF ExecuteOwnedEnds
  <2> QED BY <2>2, <2>3
<1>14. CASE DriverStopped(c)
  BY <1>12, <1>14 DEF DriverStopped, evidence
<1>15. CASE DriverFinished(c)
  BY <1>12, <1>15 DEF DriverFinished, evidence
<1> QED BY <1>6, <1>8, <1>10, <1>11, <1>13, <1>14, <1>15

LEMMA QueueRequests ==
  ASSUME Queue, NEW c \in Commands, Stop(c) \/ AuthenticationFails(c)
  PROVE  Queue'
<1>1. UNCHANGED <<at, handle_state, acquired, started, forced, pending, accesses, lease>>
  BY DEF Stop, AuthenticationFails, owned, evidence, lifecycle
<1> QED BY <1>1, QueueStays

LEMMA QueueSettle ==
  ASSUME Known, Queue, NEW c \in Commands, Settle(c)
  PROVE  Queue'
<1> USE KnownFacts
<1>1. /\ at[c] = "finalizing" /\ at' = [at EXCEPT ![c] = "settled"] /\ at'[c] = "settled"
      /\ handle_state' = [handle_state EXCEPT ![c] = "finished"]
      /\ pending' = pending \ {c}
      /\ IF c \in acquired THEN Lease!Free(c) ELSE UNCHANGED lease
      /\ UNCHANGED <<acquired, started, forced, accesses>>
  BY DEF Settle, Moves, lifecycle
<1>2. handle_state \in [Commands -> {"queued", "preparing", "running", "finishing", "finished"}]
  BY DEF Known, SessionTypes
<1>3. AttemptFits(c) /\ HandleFits(c)
  BY DEF Queue
<1>4. c \in acquired => attempt[c] = "held"
  BY <1>1 DEF Known, Held, AcquiredHolds
<1>5. /\ LeaseStep(c) /\ ~Lease!Acquire(c)
      /\ Lease!Free(c) => attempt[c] \in {"held", "released"}
      /\ attempt'[c] \in {"idle", "cancelled", "released"}
      /\ c \in acquired => attempt'[c] = "released"
  BY <1>1, <1>3, <1>4, LeaseStepMarks DEF LeaseStep, AttemptFits, Lease!Stages
<1>6. Advances(c, "settled")
  BY <1>1, <1>5 DEF Advances, Unattempted, Stages
<1>7. AttemptFits(c)'
  BY <1>1, <1>5 DEF AttemptFits, Unattempted
<1>8. handle_state'[c] = "finished" /\ \A d \in Commands \ {c} : handle_state'[d] = handle_state[d]
  BY <1>1, <1>2
<1>9. HandleFits(c)'
  BY <1>1, <1>3, <1>8 DEF HandleFits, Unattempted
<1> QED BY <1>1, <1>6, <1>7, <1>8, <1>9, CommandStep
\* All that is left to show of a state operation's step is about the operation.
LEMMA QueueAccess ==
  ASSUME Known, Queue, NEW a \in Accesses, LeaseStep(a), locked' => locked,
         AccessFits(a)',
         \A b \in Accesses \ {a} : access'[b] = access[b],
         UNCHANGED <<at, handle_state, acquired, started, forced, pending, earlier>>
  PROVE  Queue'
<1> USE KnownFacts
<1>1. /\ \A y \in (Commands \cup Accesses) \ {a} :
           attempt'[y] = attempt[y] \/ (attempt[y] = "waiting" /\ attempt'[y] = "woken")
      /\ \A y \in Commands \cup Accesses, c \in Commands : Queued(y, c)' => Queued(y, c)
  BY LeaseStepOfOne
<1>2. \A c \in Commands :
        attempt'[c] = attempt[c] \/ (attempt[c] = "waiting" /\ attempt'[c] = "woken")
  BY <1>1
<1>3. ASSUME NEW c \in Commands PROVE AttemptFits(c)' /\ HandleFits(c)'
  <2>1. AttemptFits(c) /\ HandleFits(c)
    BY DEF Queue
  <2>2. AttemptFits(c)'
    BY <1>2, <2>1 DEF AttemptFits, Hoping, Lease!Asleep
  <2> QED BY <2>1, <2>2 DEF HandleFits
<1>4. PendingFits'
  BY DEF Queue, PendingFits
<1>5. CommandsInOrder'
  BY <1>1, <1>2 DEF Queue, CommandsInOrder, Hoping
<1>6. ASSUME NEW b \in Accesses \ {a} PROVE AccessFits(b)'
  <2>1. AccessFits(b) /\ \A c \in earlier[b] : c \in Commands
    BY DEF Queue
  <2>2. attempt'[b] = attempt[b] \/ (attempt[b] = "waiting" /\ attempt'[b] = "woken")
    BY <1>1
  <2>3. \A c \in earlier[b] : Queued(b, c)' => Queued(b, c)
    BY <1>1, <2>1
  <2> QED BY <1>2, <2>1, <2>2, <2>3 DEF AccessFits, Hoping, Lease!Asleep
<1>7. FastPathIsFree'
  BY <1>2 DEF Queue, FastPathIsFree
<1> QED BY <1>3, <1>4, <1>5, <1>6, <1>7 DEF Queue

\* Nobody is before an operation that takes the lease.
LEMMA OperationIsFirst ==
  ASSUME Known, Queue, NEW a \in Accesses, Lease!Use(a) \/ Lease!ResumeUse(a),
         NEW c \in Commands, ~Queued(a, c)
  PROVE  attempt'[c] \notin Hoping
<1> USE KnownFacts
<1>1. attempt[c] # "held" /\ attempt[c] \notin Lease!Asleep \ {"aborted"}
  BY LeaseTaker
<1>2. LeaseStep(a)
  BY DEF LeaseStep, Lease!Use
<1>3. attempt'[c] = attempt[c] \/ (attempt[c] = "waiting" /\ attempt'[c] = "woken")
  BY <1>2, LeaseStepOfOne
<1> QED BY <1>1, <1>3 DEF Hoping, Lease!Asleep

LEMMA QueueAccesses ==
  ASSUME Known, Queue, NEW a \in Accesses,
         AccessStep(a) \/ AccessBegins(a) \/ AccessCancelled(a)
  PROVE  Queue'
<1> USE KnownFacts
<1>1. UNCHANGED <<at, handle_state, acquired, started, forced, pending>>
  BY DEF AccessStep, AccessArrives, AccessResumes, AccessRaises, AccessBegins, AccessCancelled,
         AccessLeaves, owned, requests, evidence
<1>2. AccessFits(a) /\ \A c \in earlier[a] : c \in Commands
  BY DEF Queue
<1>3. CASE AccessBegins(a)
  <2>1. /\ access[a] = "outside" /\ access' = [access EXCEPT ![a] = "checkpoint"]
        /\ earlier' = [earlier EXCEPT ![a] = pending] /\ UNCHANGED lease
    BY <1>3 DEF AccessBegins, Reaches
  <2>2. \A x, y : Queued(x, y)' <=> Queued(x, y)
    BY <2>1 DEF Queued, LeaseProofs!Before, lease
  <2>3. \A c \in pending : at[c] # "nowhere"
    BY DEF Queue, PendingFits
  <2>4. AccessFits(a)'
    BY <1>1, <1>2, <2>1, <2>3 DEF AccessFits, lease
  <2>5. ASSUME NEW b \in Accesses \ {a} PROVE AccessFits(b)'
    <3>1. AccessFits(b) /\ access'[b] = access[b] /\ earlier'[b] = earlier[b]
      BY <2>1 DEF Queue
    <3> QED BY <1>1, <2>1, <2>2, <3>1 DEF AccessFits, lease
  <2>6. /\ \A c \in Commands : AttemptFits(c)' /\ HandleFits(c)'
        /\ PendingFits' /\ FastPathIsFree'
    BY <1>1, <2>1 DEF Queue, AttemptFits, HandleFits, PendingFits, FastPathIsFree, lease
  <2>7. CommandsInOrder'
    BY <1>1, <2>1, <2>2 DEF Queue, CommandsInOrder, lease
  <2> QED BY <2>4, <2>5, <2>6, <2>7 DEF Queue
<1>4. CASE AccessArrives(a)
  <2>1. /\ access[a] = "checkpoint" /\ UNCHANGED earlier
        /\ \A c \in earlier[a] : at[c] \notin {"scheduled", "acquiring"}
    BY <1>4 DEF AccessArrives, AccessLeaves, Reaches
  <2>2. attempt[a] = "idle" /\ \A c \in earlier[a] : at[c] \notin Unattempted
    BY <1>2, <2>1 DEF AccessFits, Unattempted
  <2>3. \A c \in earlier[a] : ~Queued(a, c)
    BY <1>2, <2>2, QueuedAsleep DEF Lease!Asleep
  <2>4. CASE ~locked /\ Lease!NobodyAhead
    <3>1. /\ Lease!Use(a) /\ Lease!Free(a)
          /\ \E to \in {"done", "refused"} : access' = [access EXCEPT ![a] = to]
      BY <1>4, <2>4 DEF AccessArrives, AccessLeaves, Reaches, Lease!Use
    <3>2. access'[a] \in {"done", "refused"} /\ \A b \in Accesses \ {a} : access'[b] = access[b]
      BY <3>1
    <3>3. attempt'[a] = "released" /\ LeaseStep(a) /\ ~locked'
      BY <3>1, LeaseStepMarks DEF LeaseStep, Lease!Free
    <3>4. \A c \in earlier[a] : attempt'[c] \notin Hoping
      BY <1>2, <2>3, <3>1, OperationIsFirst
    <3>5. AccessFits(a)'
      BY <1>1, <2>1, <2>2, <3>2, <3>3, <3>4 DEF AccessFits, Unattempted
    <3> QED BY <1>1, <2>1, <3>2, <3>3, <3>5, QueueAccess
  <2>5. CASE ~(~locked /\ Lease!NobodyAhead)
    <3>1. Lease!Acquire(a) /\ access' = [access EXCEPT ![a] = "queued"]
      BY <1>4, <2>5 DEF AccessArrives, Reaches
    <3>2. access'[a] = "queued" /\ \A b \in Accesses \ {a} : access'[b] = access[b]
      BY <3>1
    <3>3. attempt'[a] = "waiting" /\ LeaseStep(a) /\ locked' = locked
      BY <2>5, <3>1 DEF LeaseStep, Lease!Acquire
    <3>4. \A c \in earlier[a] : ~Queued(a, c)'
      BY <1>2, <2>3, <3>3, LeaseStepOfOne
    <3>5. AccessFits(a)'
      BY <1>1, <2>1, <2>2, <3>2, <3>3, <3>4 DEF AccessFits, Unattempted, Lease!Asleep
    <3> QED BY <1>1, <2>1, <3>2, <3>3, <3>5, QueueAccess
  <2> QED BY <2>4, <2>5
<1>5. CASE AccessResumes(a)
  <2>1. /\ Lease!ResumeUse(a) /\ access[a] = "queued" /\ UNCHANGED earlier
        /\ \E to \in {"done", "refused"} : access' = [access EXCEPT ![a] = to]
    BY <1>5 DEF AccessResumes, AccessLeaves, Reaches
  <2>2. access'[a] \in {"done", "refused"} /\ \A b \in Accesses \ {a} : access'[b] = access[b]
    BY <2>1
  <2>3. ~locked' /\ LeaseStep(a) /\ attempt'[a] = "released"
    <3>1. attempt' = [attempt EXCEPT ![a] = "released"]
          \/ attempt' = Lease!WakeFirst(waiters', [attempt EXCEPT ![a] = "released"])
      BY <2>1 DEF Lease!ResumeUse
    <3>2. attempt'[a] = "released"
      BY <3>1 DEF Lease!WakeFirst, Lease!Stages, Lease!Asleep
    <3> QED BY <2>1, <3>2 DEF LeaseStep, Lease!ResumeUse
  <2>4. \A c \in earlier[a] : at[c] \notin Unattempted /\ ~Queued(a, c)
    BY <1>2, <2>1 DEF AccessFits
  <2>5. \A c \in earlier[a] : attempt'[c] \notin Hoping
    BY <1>2, <2>1, <2>4, OperationIsFirst
  <2>6. AccessFits(a)'
    BY <1>1, <2>1, <2>2, <2>3, <2>4, <2>5 DEF AccessFits, Unattempted
  <2> QED BY <1>1, <2>1, <2>2, <2>3, <2>6, QueueAccess
<1>6. CASE AccessCancelled(a)
  <2>1. access[a] = "queued" /\ Lease!Cancel(a) /\ UNCHANGED <<access, earlier>>
    BY <1>6 DEF AccessCancelled, lifecycle, accesses
  <2>2. LeaseStep(a) /\ locked' = locked /\ attempt'[a] \in Lease!Asleep
    BY <2>1 DEF LeaseStep, Lease!Cancel, Lease!Cancelled, Lease!Asleep
  <2>3. ~Lease!Acquire(a)
    BY <2>1 DEF Lease!Acquire, Lease!Cancel
  <2>4. \A c \in earlier[a] : Queued(a, c)' => Queued(a, c)
    BY <1>2, <2>2, <2>3, LeaseStepOfOne
  <2>5. AccessFits(a)'
    BY <1>1, <1>2, <2>1, <2>2, <2>4 DEF AccessFits
  <2> QED BY <1>1, <2>1, <2>2, <2>5, QueueAccess
<1>7. CASE AccessRaises(a)
  <2>1. /\ Lease!Unwind(a) /\ access[a] = "queued" /\ UNCHANGED earlier
        /\ access' = [access EXCEPT ![a] = "cancelled"]
    BY <1>7 DEF AccessRaises, Reaches
  <2>2. LeaseStep(a) /\ locked' = locked /\ attempt'[a] = "cancelled"
    BY <2>1, LeaseStepMarks DEF LeaseStep, Lease!Unwind
  <2>3. access'[a] = "cancelled" /\ \A b \in Accesses \ {a} : access'[b] = access[b]
    BY <2>1
  <2>4. AccessFits(a)'
    BY <1>1, <1>2, <2>1, <2>2, <2>3 DEF AccessFits
  <2> QED BY <1>1, <2>1, <2>2, <2>3, <2>4, QueueAccess
<1> QED BY <1>3, <1>4, <1>5, <1>6, <1>7 DEF AccessStep

LEMMA QueueNext == Known /\ Queue /\ [Next]_vars => Queue'
<1> SUFFICES ASSUME Known, Queue, [Next]_vars PROVE Queue'
  OBVIOUS
<1>1. CASE UNCHANGED vars
  BY <1>1, QueueStays DEF vars, lifecycle, requests, owned, evidence
<1>2. CASE Next
  <2>1. ASSUME NEW c \in Commands, LoopStep(c) \/ OpenStep(c) PROVE Queue'
    <3>1. CASE Submit(c)
      BY <3>1, QueueSubmit
    <3>2. CASE Begin(c) \/ QueueingReturns(c) \/ QueueingExpires(c) \/ QueueingRaises(c)
      BY <3>2, QueueBegin, QueueFastPath
    <3>3. CASE \/ AcquisitionBegins(c) \/ AcquisitionResumes(c)
               \/ RaceReturns(c) \/ RaceExpires(c) \/ RaceEnds(c)
      BY <3>3, QueueAcquisition, QueueRace
    <3>4. CASE Stop(c) \/ AuthenticationFails(c) \/ Settle(c)
      BY <3>4, QueueRequests, QueueSettle
    <3> QED BY <2>1, <3>1, <3>2, <3>3, <3>4, QueueExecution DEF LoopStep, OpenStep
  <2>2. ASSUME NEW a \in Accesses, AccessStep(a) \/ AccessBegins(a) \/ AccessCancelled(a)
        PROVE  Queue'
    BY <2>2, QueueAccesses
  <2> QED BY <1>2, <2>1, <2>2, QueueOwners DEF Next
<1> QED BY <1>1, <1>2

LEMMA KnownInvariance == Spec => []Known
<1>1. Spec => []SessionTypes
  BY TypesInit, TypesNext, PTL DEF Spec
<1>2. SessionTypes /\ Held /\ LeaseProofs!IInv => Known
  BY DEF Known
<1> QED BY <1>1, <1>2, HeldInvariance, LeaseRefinement, LeaseInvariants, PTL

\* The queue is in the order of submission, the stages of a command and of its
\* attempt to get the lease go together, and so do the state operations.
THEOREM QueueInvariance == Spec => []Queue
<1> QED BY QueueInit, QueueNext, KnownInvariance, PTL DEF Spec
-----------------------------------------------------------------------------
(* What the order is good for. *)

\* The fast path of acquire_lease has no command to wait for: whoever waits on
\* it has settled commands before it, and nobody passes it.
THEOREM FastPathNeedsNoStop == Spec => []FastPathWaitsForNoCommand
<1>1. Known /\ Queue => FastPathWaitsForNoCommand
  <2> SUFFICES ASSUME Known, Queue, NEW c \in Commands, at[c] = "queueing", attempt[c] # "aborted"
               PROVE  ~locked /\ Lease!Ahead(c) \subseteq Accesses
    BY DEF FastPathWaitsForNoCommand
  <2> USE KnownFacts
  <2>1. ~locked /\ \A d \in Commands : d < c => at[d] = "settled"
    BY DEF Queue, FastPathIsFree
  <2>2. ASSUME NEW d \in Lease!Ahead(c) PROVE d \in Commands \cup Accesses /\ Queued(d, c)
    <3>1. d \in LeaseProofs!Ahead(c)
      BY <2>2 DEF Lease!Ahead, LeaseProofs!Ahead
    <3>2. attempt[c] \in LeaseProofs!Asleep /\ LeaseProofs!IInv
      BY SameLease DEF Queue, AttemptFits, Known
    <3> QED BY <3>1, <3>2, LeaseProofs!AheadIsBefore DEF Queued
  <2>3. ASSUME NEW d \in Commands PROVE ~Queued(d, c)
    <3>1. ASSUME Queued(d, c) PROVE FALSE
      <4>1. attempt[d] \in Lease!Asleep
        BY <3>1, QueuedAsleep
      <4>2. at[d] # "settled"
        BY <4>1 DEF Queue, AttemptFits, Lease!Asleep
      <4>3. ~(d < c) /\ ~(c < d)
        BY <2>1, <3>1, <4>2 DEF Queue, CommandsInOrder
      <4>4. d = c
        BY <4>3
      <4>5. LeaseProofs!Before(c, c) /\ LeaseProofs!WaitersDistinct /\ waiters \in Seq(Commands \cup Accesses)
        BY <3>1, <4>4 DEF Queued, Known, LeaseProofs!IInv, LeaseProofs!TypeOK
      <4> QED BY <4>5 DEF LeaseProofs!Before, LeaseProofs!WaitersDistinct
    <3> QED BY <3>1
  <2> QED BY <2>1, <2>2, <2>3
<1> QED BY <1>1, KnownInvariance, QueueInvariance, PTL

\* A state operation runs after the commands that were submitted before it.
THEOREM AccessesFollow == Spec => []AccessFollowsCommands
<1>1. Known /\ Queue => AccessFollowsCommands
  <2> SUFFICES ASSUME Known, Queue, NEW a \in Accesses, access[a] \in {"done", "refused"},
                      NEW c \in earlier[a], UsesDriver(c)
               PROVE  FALSE
    BY DEF AccessFollowsCommands
  <2>1. c \in Commands /\ attempt[c] \notin Hoping
    BY KnownFacts DEF Queue, AccessFits
  <2>2. attempt[c] = "held"
    BY <2>1 DEF Known, Held, UsersAcquired, AcquiredHolds, UsesDriver, DriverStages
  <2> QED BY <2>1, <2>2 DEF Hoping
<1> QED BY <1>1, KnownInvariance, QueueInvariance, PTL
Running == {"preparing", "executing", "draining", "unwinding"}

\* A command's step moves that command only; it runs from an open session, or
\* went on to run before, and only a running command breaks the session.
LEMMA CommandEffects ==
  ASSUME Known, NEW c \in Commands, LoopStep(c) \/ OpenStep(c)
  PROVE  /\ \A d \in Commands \ {c} : at'[d] = at[d]
         /\ at'[c] \in Running => at[c] \in Running \/ state = "OPEN"
         /\ \/ state' = state
            \/ state' = "BROKEN" /\ at[c] \in Running /\ at'[c] = "stopping"
<1> USE DEF Moves, Running
<1>1. at \in [Commands -> Stages]
  BY KnownFacts
<1>2. ASSUME NEW from, Proceed(c, from)
      PROVE  /\ \A d \in Commands \ {c} : at'[d] = at[d]
             /\ at'[c] \in Running => state = "OPEN"
  BY <1>1, <1>2 DEF Proceed
<1>3. CASE Submit(c) \/ Stop(c) \/ AuthenticationFails(c) \/ QueueingExpires(c) \/ AcquisitionResumes(c)
  BY <1>1, <1>3 DEF Submit, Stop, AuthenticationFails, QueueingExpires, AcquisitionResumes, owned
<1>4. CASE Begin(c)
  <2>1. state' = state
    BY <1>4 DEF Begin
  <2>2. CASE BeginAtOnce(c)
    BY <1>1, <1>2, <2>1, <2>2 DEF BeginAtOnce
  <2>3. CASE BeginStopped(c) \/ BeginExpired(c) \/ BeginRace(c)
    BY <1>1, <2>1, <2>3 DEF BeginStopped, BeginExpired, BeginRace
  <2> QED BY <1>4, <2>2, <2>3 DEF Begin
<1>5. CASE QueueingReturns(c)
  BY <1>2, <1>5 DEF QueueingReturns
<1>6. CASE RaceEnds(c)
  BY <1>1, <1>2, <1>6 DEF RaceEnds
<1>7. CASE QueueingRaises(c) \/ AcquisitionBegins(c) \/ RaceReturns(c) \/ RaceExpires(c)
  BY <1>1, <1>7 DEF QueueingRaises, AcquisitionBegins, RaceReturns, RaceExpires
<1>8. CASE PrepareReturns(c) \/ ExecutionReturns(c) \/ DriverStopped(c) \/ DriverFinished(c) \/ Settle(c)
  BY <1>1, <1>8 DEF PrepareReturns, ExecutionReturns, DriverStopped, DriverFinished, Settle
<1>9. CASE ExecutionStopped(c) \/ ExecutionRaises(c) \/ DeadlineExpires(c) \/ DrainEnds(c)
  BY <1>1, <1>9 DEF ExecutionStopped, ExecutionRaises, DeadlineExpires, DrainEnds, Conclude
<1>10. CASE PrepareRaises(c) \/ ExecuteOwnedEnds(c)
  BY <1>1, <1>10 DEF PrepareRaises, ExecuteOwnedEnds, GiveUp
<1> QED BY <1>3, <1>4, <1>5, <1>6, <1>7, <1>8, <1>9, <1>10 DEF LoopStep, OpenStep

LEMMA OneUser == Known => ExclusiveDriver
<1> SUFFICES ASSUME Known, NEW c \in Commands, NEW d \in Commands, UsesDriver(c), UsesDriver(d)
             PROVE  c = d
  BY DEF ExclusiveDriver
<1>1. attempt[c] = "held" /\ attempt[d] = "held"
  BY DEF Known, Held, UsersAcquired, AcquiredHolds, UsesDriver, DriverStages
<1> QED BY <1>1, LeaseConsequences DEF Lease!MutualExclusion, Known

\* What the tasks that are not commands leave alone.
LEMMA OtherEffects ==
  ASSUME \/ \E o \in Owners : OwnerStep(o)
         \/ Aclose
         \/ ShutdownStep
         \/ \E a \in Accesses : AccessStep(a) \/ AccessBegins(a) \/ AccessCancelled(a)
         \/ UNCHANGED vars
  PROVE  /\ UNCHANGED <<owned, pending>>
         /\ state' = state \/ state' \in {"OPEN", "CLOSING", "CLOSED"}
BY DEF OwnerStep, Enter, EnterReturns, EnterRaises, Exit, Aclose, ShutdownStep, ShutdownBegins,
       ShutdownGathers, ShutdownReturns, ShutdownRaises, AccessStep, AccessArrives, AccessResumes,
       AccessRaises, AccessBegins, AccessCancelled, AccessLeaves, requests, vars

\* A broken session runs nothing, whatever happens to its queue: the command
\* that broke it was alone, and the others look at the state as they go on.
THEOREM BrokenStandsStill == Spec => []BrokenRunsNothing
<1>1. Init => BrokenRunsNothing
  BY DEF Init, BrokenRunsNothing
<1>2. Known /\ BrokenRunsNothing /\ [Next]_vars => BrokenRunsNothing'
  <2> SUFFICES ASSUME Known, BrokenRunsNothing, [Next]_vars, state' = "BROKEN",
                      NEW d \in Commands, at'[d] \in Running
               PROVE  FALSE
    BY DEF BrokenRunsNothing, Running
  <2>1. state = "BROKEN" => at[d] \notin Running
    BY DEF BrokenRunsNothing, Running
  <2>2. ASSUME NEW c \in Commands, LoopStep(c) \/ OpenStep(c) PROVE FALSE
    <3>1. CASE state' = state
      BY <2>1, <2>2, <3>1, CommandEffects
    <3>2. CASE state' # state
      <4>1. at[c] \in Running /\ at'[c] = "stopping"
        BY <2>2, <3>2, CommandEffects
      <4>2. d # c /\ at[d] \in Running
        BY <2>2, <4>1, CommandEffects DEF Running
      <4> QED BY <4>1, <4>2, OneUser DEF ExclusiveDriver, UsesDriver, DriverStages, Running
    <3> QED BY <3>1, <3>2
  <2>3. ASSUME ~\E c \in Commands : LoopStep(c) \/ OpenStep(c) PROVE FALSE
    BY <2>1, <2>3, OtherEffects DEF Next, owned
  <2> QED BY <2>2, <2>3
<1> QED BY <1>1, <1>2, KnownInvariance, PTL DEF Spec
-----------------------------------------------------------------------------
(* One task enters the session: two that enter at once both start its      *)
(* driver, and the second to return opens a session again that the         *)
(* commands of the first may have broken.                                  *)

OneOwner == \A o, p \in Owners : o = p

Gone == {"BROKEN", "CLOSING", "CLOSED"}

\* Until its owner has entered, nothing was submitted; afterwards it is never
\* opened again.
EnteredOnce ==
  /\ \A o \in Owners : entry[o] \in {"outside", "starting"} =>
       state # "OPEN" /\ \A c \in Commands : at[c] = "nowhere"
  /\ forced # {} => state \in Gone

\* What commands change: they exist once the session is open, break it as they
\* are forced to end, and are reusable while it is open.
LEMMA CommandChanges ==
  ASSUME Known, Queue, NEW c \in Commands, LoopStep(c) \/ OpenStep(c)
  PROVE  /\ UNCHANGED <<concurrency, virtual_time, entry, close, gathered>>
         /\ at[c] # "nowhere" \/ state = "OPEN"
         /\ forced' = forced \/ state' = "BROKEN"
         /\ reusable' = reusable \/ state = "OPEN"
<1> USE DEF Moves, lifecycle, configuration, owned, evidence
<1>1. CASE Submit(c)
  BY <1>1 DEF Submit, Accepts
<1>2. CASE Stop(c)
  BY <1>2 DEF Stop, Queue, PendingFits
<1>3. CASE Begin(c)
  BY <1>3 DEF Begin, BeginStopped, BeginAtOnce, BeginExpired, BeginRace, Proceed
<1>4. CASE QueueingReturns(c) \/ RaceEnds(c)
  BY <1>4 DEF QueueingReturns, RaceEnds, Proceed
<1>5. CASE AuthenticationFails(c) \/ QueueingExpires(c) \/ AcquisitionResumes(c)
  BY <1>5 DEF AuthenticationFails, QueueingExpires, AcquisitionResumes
<1>6. CASE QueueingRaises(c) \/ AcquisitionBegins(c) \/ RaceReturns(c) \/ RaceExpires(c)
  BY <1>6 DEF QueueingRaises, AcquisitionBegins, RaceReturns, RaceExpires
<1>7. CASE PrepareReturns(c) \/ ExecutionReturns(c) \/ DriverStopped(c) \/ DriverFinished(c) \/ Settle(c)
  BY <1>7 DEF PrepareReturns, ExecutionReturns, DriverStopped, DriverFinished, Settle
<1>8. CASE ExecutionStopped(c) \/ ExecutionRaises(c) \/ DeadlineExpires(c) \/ DrainEnds(c)
  BY <1>8 DEF ExecutionStopped, ExecutionRaises, DeadlineExpires, DrainEnds, Conclude
<1>9. CASE PrepareRaises(c) \/ ExecuteOwnedEnds(c)
  BY <1>9 DEF PrepareRaises, ExecuteOwnedEnds, GiveUp
<1> QED BY <1>1, <1>2, <1>3, <1>4, <1>5, <1>6, <1>7, <1>8, <1>9 DEF LoopStep, OpenStep

LEMMA EnteredOnceNext ==
  ASSUME OneOwner
  PROVE  Known /\ Queue /\ EnteredOnce /\ [Next]_vars => EnteredOnce'
<1> SUFFICES ASSUME Known, Queue, EnteredOnce, [Next]_vars PROVE EnteredOnce'
  OBVIOUS
<1>1. entry \in [Owners -> {"outside", "starting", "inside", "left", "raised", "refused"}] /\ forced \subseteq Commands
  BY DEF Known, SessionTypes
<1>2. \A c \in forced : at[c] # "nowhere"
  BY <1>1 DEF Queue, HandleFits, Unattempted
<1>3. ASSUME NEW c \in Commands, LoopStep(c) \/ OpenStep(c) PROVE EnteredOnce'
  <2>1. \A o \in Owners : entry'[o] \notin {"outside", "starting"}
    BY <1>3, CommandChanges DEF EnteredOnce
  <2>2. (forced # {} => state \in Gone) /\ (forced' = forced \/ state' = "BROKEN")
    BY <1>3, CommandChanges DEF EnteredOnce
  <2>3. state' = state \/ state' = "BROKEN"
    BY <1>3, CommandEffects
  <2> QED BY <2>1, <2>2, <2>3 DEF EnteredOnce, Gone
<1>4. ASSUME NEW o \in Owners, EnterReturns(o) PROVE EnteredOnce'
  <2>1. /\ entry[o] = "starting" /\ entry' = [entry EXCEPT ![o] = "inside"] /\ UNCHANGED forced
    BY <1>4 DEF EnterReturns, Enters, owned, evidence
  <2>2. entry'[o] = "inside" /\ \A p \in Owners : entry'[p] = "inside"
    BY <1>1, <2>1 DEF OneOwner
  <2>3. forced = {}
    BY <1>1, <1>2, <2>1 DEF EnteredOnce
  <2> QED BY <2>1, <2>2, <2>3 DEF EnteredOnce
<1>5. CASE ~(\E c \in Commands : LoopStep(c) \/ OpenStep(c)) /\ ~(\E o \in Owners : EnterReturns(o))
  <2>1. UNCHANGED owned
    BY <1>5, OtherEffects DEF Next
  <2>2. state' = state \/ state' \in {"CLOSING", "CLOSED"}
    BY <1>5 DEF Next, vars, OwnerStep, Enter, EnterRaises, Exit, Aclose, ShutdownStep, ShutdownBegins,
           ShutdownGathers, ShutdownReturns, ShutdownRaises, AccessStep, AccessArrives, AccessResumes,
           AccessRaises, AccessBegins, AccessCancelled, AccessLeaves
  <2>3. \A o \in Owners : entry'[o] \in {"outside", "starting"} => entry[o] \in {"outside", "starting"}
    <3>1. CASE entry' = entry
      BY <3>1
    <3>2. CASE \E p \in Owners : Enter(p) \/ EnterRaises(p) \/ Exit(p)
      BY <1>1, <3>2 DEF Enter, EnterRaises, Exit, Enters
    <3>3. ASSUME ~\E p \in Owners : OwnerStep(p) PROVE entry' = entry
      BY <1>5, <3>3 DEF Next, vars, lifecycle, Aclose, ShutdownStep, ShutdownBegins,
           ShutdownGathers, ShutdownReturns, ShutdownRaises, AccessStep, AccessArrives, AccessResumes,
           AccessRaises, AccessBegins, AccessCancelled, AccessLeaves
    <3> QED BY <1>5, <3>1, <3>2, <3>3 DEF OwnerStep
  <2> QED BY <2>1, <2>2, <2>3 DEF EnteredOnce, Gone, owned, evidence
<1> QED BY <1>3, <1>4, <1>5

\* If one task enters the session, damage is permanent: a session whose command
\* was forced to end is never open again, and reports nobody as reusable.
THEOREM DamageStays == ASSUME OneOwner PROVE Spec => DamageIsPermanent
<1>1. Init => EnteredOnce
  BY DEF Init, EnteredOnce
<1>2. Known /\ Queue /\ EnteredOnce /\ [Next]_vars => EnteredOnce'
  BY EnteredOnceNext
<1>3. Known /\ Queue /\ EnteredOnce /\ EnteredOnce' /\ [Next]_vars =>
        [forced # {} => state # "OPEN" /\ state' # "OPEN" /\ reusable' = reusable]_vars
  <2> SUFFICES ASSUME Known, Queue, EnteredOnce, EnteredOnce', [Next]_vars, forced # {}
               PROVE  state # "OPEN" /\ state' # "OPEN" /\ reusable' = reusable
    OBVIOUS
  <2>1. state \in Gone
    BY DEF EnteredOnce
  <2>2. ASSUME NEW c \in Commands, LoopStep(c) \/ OpenStep(c)
        PROVE  reusable' = reusable /\ state' # "OPEN"
    BY <2>1, <2>2, CommandChanges, CommandEffects DEF Gone
  <2>3. ASSUME ~\E c \in Commands : LoopStep(c) \/ OpenStep(c)
        PROVE  reusable' = reusable /\ forced' = forced
    BY <2>3, OtherEffects DEF Next, owned, evidence
  <2>4. reusable' = reusable /\ state' # "OPEN"
    BY <2>2, <2>3 DEF EnteredOnce, Gone
  <2> QED BY <2>1, <2>4 DEF Gone
<1> QED BY <1>1, <1>2, <1>3, KnownInvariance, QueueInvariance, PTL DEF Spec, DamageIsPermanent
-----------------------------------------------------------------------------
(* Only the task that entered the session closes it.  (Who closes a shared *)
(* session while it starts lets it open after its end.)                    *)

\* What closing rests on: nothing is submitted before the session opened or
\* after its shutdown began, and shutdown awaits all that is pending.
ClosedOnce ==
  /\ \A o \in Owners : entry[o] \in {"outside", "starting"} => state = "NEW" /\ close = "none"
  /\ state = "NEW" => \A c \in Commands : at[c] = "nowhere"
  /\ close \in {"none", "scheduled"} => state \in {"NEW", "OPEN", "BROKEN"}
  /\ close \notin {"none", "scheduled"} => state \in Gone
  /\ close = "gathering" => pending \subseteq gathered
  /\ close \in {"closing_driver", "closed", "failed"} => pending = {}

LEMMA PendingShrinks ==
  ASSUME NEW c \in Commands, LoopStep(c) \/ OpenStep(c)
  PROVE  pending' \subseteq pending \/ state = "OPEN"
<1>1. CASE Submit(c)
  BY <1>1 DEF Submit, Accepts
<1>2. CASE Settle(c)
  BY <1>2 DEF Settle
<1>3. CASE ~Submit(c) /\ ~Settle(c)
  BY <1>3 DEF LoopStep, OpenStep, Stop, AuthenticationFails, QueueingExpires,
         AcquisitionResumes, Begin, QueueingReturns, RaceEnds, QueueingRaises, AcquisitionBegins,
         RaceReturns, RaceExpires, PrepareReturns, ExecutionReturns, DriverStopped, DriverFinished,
         ExecutionStopped, ExecutionRaises, DeadlineExpires, DrainEnds, Conclude,
         PrepareRaises, ExecuteOwnedEnds, requests
<1> QED BY <1>1, <1>2, <1>3

\* Any task may close a session, once its owner has entered.
ClosesEntered == Aclose => \A o \in Owners : entry[o] \notin {"outside", "starting"}
EntersFirst == [][ClosesEntered]_vars

LEMMA OwnerEntersFirst == ASSUME OneOwner, ~Shared PROVE Spec => EntersFirst
<1>1. ClosesEntered
  BY DEF ClosesEntered, Aclose, OneOwner
<1> QED BY <1>1, PTL DEF EntersFirst

LEMMA ClosedOnceNext ==
  ASSUME OneOwner
  PROVE  Known /\ Queue /\ ClosedOnce /\ [Next]_vars /\ [ClosesEntered]_vars => ClosedOnce'
<1> SUFFICES ASSUME Known, Queue, ClosedOnce, [Next]_vars, [ClosesEntered]_vars PROVE ClosedOnce'
  OBVIOUS
<1>1. entry \in [Owners -> {"outside", "starting", "inside", "left", "raised", "refused"}]
  BY DEF Known, SessionTypes
<1>2. ASSUME NEW c \in Commands, LoopStep(c) \/ OpenStep(c) PROVE ClosedOnce'
  <2>1. entry' = entry /\ close' = close /\ gathered' = gathered
    BY <1>2, CommandChanges
  <2>2. state # "NEW" /\ (state' = state \/ state' = "BROKEN")
    BY <1>2, CommandChanges, CommandEffects DEF ClosedOnce
  <2>3. pending' \subseteq pending \/ close \in {"none", "scheduled"}
    BY <1>2, PendingShrinks DEF ClosedOnce, Gone
  <2> QED BY <2>1, <2>2, <2>3 DEF ClosedOnce, Gone
\* The one owner's steps.
<1>3. ASSUME NEW o \in Owners, OwnerStep(o) PROVE ClosedOnce'
  <2>1. UNCHANGED <<at, pending, gathered>>
    BY <1>3 DEF OwnerStep, Enter, EnterReturns, EnterRaises, Exit, owned, requests
  <2>2. \A p \in Owners : p = o
    BY DEF OneOwner
  <2>3. CASE Enter(o)
    <3>1. /\ entry[o] = "outside" /\ UNCHANGED <<state, close>>
      BY <2>3 DEF Enter, Enters
    <3> QED BY <2>1, <2>2, <3>1 DEF ClosedOnce
  <2>4. CASE EnterReturns(o)
    <3>1. /\ entry[o] = "starting" /\ entry'[o] = "inside" /\ close' = close /\ state' = "OPEN"
      BY <1>1, <2>4 DEF EnterReturns, Enters
    <3> QED BY <2>1, <2>2, <3>1 DEF ClosedOnce
  <2>5. CASE EnterRaises(o)
    <3>1. /\ entry[o] = "starting" /\ entry'[o] = "raised" /\ state' = state
          /\ close = "none" => close' = "scheduled"
      BY <1>1, <2>5 DEF EnterRaises, Enters, RequestClose
    <3> QED BY <2>1, <2>2, <3>1 DEF ClosedOnce
  <2>6. CASE Exit(o)
    <3>1. /\ entry'[o] = "left" /\ state' = state
          /\ close' = IF close = "none" THEN "scheduled" ELSE close
      BY <1>1, <2>6 DEF Exit, Enters, RequestClose
    <3> QED BY <2>1, <2>2, <3>1 DEF ClosedOnce
  <2> QED BY <1>3, <2>3, <2>4, <2>5, <2>6 DEF OwnerStep
<1>4. CASE Aclose
  <2>1. close = "none" /\ close' = "scheduled" /\ UNCHANGED <<state, entry, at, pending, gathered>>
    BY <1>4 DEF Aclose, RequestClose, owned, requests
  <2>2. \A o \in Owners : entry[o] \notin {"outside", "starting"}
    BY <1>4, <2>1 DEF ClosesEntered, vars, lifecycle
  <2> QED BY <2>1, <2>2 DEF ClosedOnce
<1>5. CASE ShutdownStep
  <2>1. UNCHANGED <<at, entry, pending>>
    BY <1>5 DEF ShutdownStep, ShutdownBegins, ShutdownGathers, ShutdownReturns, ShutdownRaises, owned, requests
  <2>2. CASE ShutdownBegins
    BY <2>1, <2>2 DEF ShutdownBegins, Closes, ClosedOnce, Gone
  <2>3. CASE ShutdownGathers
    <3>1. close = "gathering" /\ gathered \cap pending = {} /\ close' = "closing_driver" /\ state' = state
      BY <2>3 DEF ShutdownGathers, Closes
    <3>2. pending = {}
      BY <3>1 DEF ClosedOnce
    <3> QED BY <2>1, <3>1, <3>2 DEF ClosedOnce
  <2>4. CASE ShutdownReturns
    BY <2>1, <2>4 DEF ShutdownReturns, Closes, ClosedOnce, Gone
  <2>5. CASE ShutdownRaises
    BY <2>1, <2>5 DEF ShutdownRaises, Closes, ClosedOnce, Gone
  <2> QED BY <1>5, <2>2, <2>3, <2>4, <2>5 DEF ShutdownStep
<1>6. CASE (\E a \in Accesses : AccessStep(a) \/ AccessBegins(a) \/ AccessCancelled(a)) \/ UNCHANGED vars
  <2>1. UNCHANGED <<at, entry, pending, state, close, gathered>>
    BY <1>6 DEF AccessStep, AccessArrives, AccessResumes, AccessRaises, AccessBegins,
           AccessCancelled, AccessLeaves, owned, requests, lifecycle, vars
  <2> QED BY <2>1 DEF ClosedOnce
<1> QED BY <1>2, <1>3, <1>4, <1>5, <1>6 DEF Next

LEMMA ClosedOnceInvariance == ASSUME OneOwner PROVE Spec /\ EntersFirst => []ClosedOnce
<1>1. Init => ClosedOnce
  BY DEF Init, ClosedOnce
<1>2. Known /\ Queue /\ ClosedOnce /\ [Next]_vars /\ [ClosesEntered]_vars => ClosedOnce'
  BY ClosedOnceNext
<1> QED BY <1>1, <1>2, KnownInvariance, QueueInvariance, PTL DEF Spec, EntersFirst

\* If nobody closes the session before its one owner has entered, shutdown finds
\* nobody: when it turns to the driver every command has its result and none
\* holds or waits for the lease, whoever closes it and whatever runs meanwhile.
THEOREM CloseLeavesNobody == ASSUME OneOwner PROVE Spec /\ EntersFirst => []CloseFindsNobody
<1>1. Known /\ Queue /\ ClosedOnce => CloseFindsNobody
  <2> SUFFICES ASSUME Known, Queue, ClosedOnce, close \in {"closing_driver", "closed", "failed"}
               PROVE  /\ \A c \in Commands : at[c] \in {"nowhere", "settled"}
                      /\ pending = {} /\ ~locked
                      /\ \A i \in DOMAIN waiters : waiters[i] \in Accesses
                      /\ state \in {"BROKEN", "CLOSING", "CLOSED"}
    BY DEF CloseFindsNobody
  <2> USE KnownFacts
  <2>1. pending = {} /\ state \in Gone
    BY DEF ClosedOnce
  <2>2. \A c \in Commands : at[c] \in {"nowhere", "settled"}
    BY <2>1 DEF Queue, PendingFits
  <2>3. \A c \in Commands : attempt[c] # "held" /\ attempt[c] \notin Lease!Asleep
    BY <2>2 DEF Queue, AttemptFits, Unattempted, Lease!Asleep
  <2>4. \A a \in Accesses : attempt[a] # "held"
    BY DEF Queue, AccessFits, Lease!Asleep
  <2>5. ~locked
    BY <2>3, <2>4 DEF Known, LeaseProofs!IInv, LeaseProofs!LockedIffHeld
  <2>6. ASSUME NEW i \in DOMAIN waiters PROVE waiters[i] \in Accesses
    <3>1. waiters[i] \in Commands \cup Accesses
      BY <2>6 DEF Known, LeaseProofs!IInv, LeaseProofs!TypeOK
    <3>2. attempt[waiters[i]] \in Lease!Asleep
      BY <3>1, SameLease DEF Known, LeaseProofs!IInv, LeaseProofs!SleepersQueue
    <3> QED BY <2>3, <3>1, <3>2
  <2> QED BY <2>1, <2>2, <2>5, <2>6 DEF Gone
<1> QED BY <1>1, ClosedOnceInvariance, KnownInvariance, QueueInvariance, PTL

\* In particular if the task that entered the session is the one to close it.
COROLLARY OwnCloseLeavesNobody == ASSUME OneOwner, ~Shared PROVE Spec => []CloseFindsNobody
BY CloseLeavesNobody, OwnerEntersFirst, PTL
-----------------------------------------------------------------------------
(* The session implements CommandService. *)

Usable ==
  IF state = "NEW" THEN "not_yet" ELSE IF state = "OPEN" THEN "yes" ELSE "no_more"

Phases == [c \in Commands |-> Phase(c)]

\* The steps of the service in terms of its variables' images.
LEMMA ServiceUse ==
  ASSUME \A c \in Commands : Phase(c)' = Phase(c),
         \/ Usable' = Usable
         \/ Usable = "not_yet" /\ Usable' = "yes"
         \/ Usable # "no_more" /\ Usable' = "no_more"
  PROVE  [Service!Next]_(Service!vars)
<1>1. Phases' = Phases
  BY DEF Phases
<1> QED BY <1>1 DEF Phases, Usable, Service!vars, Service!Next, Service!Open, Service!Invalidate

LEMMA ServiceMove ==
  ASSUME NEW c \in Commands, Usable' = Usable,
         \A d \in Commands \ {c} : Phase(d)' = Phase(d),
         \/ /\ Phase(c) = "unknown" /\ Phase(c)' = "waiting" /\ Usable = "yes"
            /\ \A d \in Commands : d < c => Phase(d) # "unknown"
         \/ /\ Phase(c) = "waiting" /\ Phase(c)' = "served" /\ Usable = "yes"
            /\ \A d \in Commands : Phase(d) \notin {"served", "damaged"}
            /\ \A d \in Commands : d > c => Phase(d) \in {"unknown", "waiting", "dropped"}
         \/ Phase(c) = "served" /\ Phase(c)' = "intact"
         \/ Phase(c) = "served" /\ Phase(c)' = "damaged" /\ Usable = "no_more"
         \/ Phase(c) = "waiting" /\ Phase(c)' = "dropped"
  PROVE  Service!Next
<1> DEFINE to == Phase(c)'
<1>1. /\ \A d \in Commands : Phases[d] = Phase(d)
      /\ Phases' = [Phases EXCEPT ![c] = to]
  BY DEF Phases
<1>2. ASSUME NEW from, Phase(c) = from PROVE Service!Move(c, from, to)
  BY <1>1, <1>2 DEF Service!Move, Phases
<1>3. to \in {"waiting", "served", "intact", "damaged", "dropped"}
  OBVIOUS
<1> HIDE DEF to
<1>4. CASE Phase(c) = "unknown" /\ to = "waiting"
  <2>1. Service!Accept(c)
    BY <1>1, <1>2, <1>4 DEF Service!Accept, Phases, Usable, to
  <2> QED BY <2>1 DEF Service!Next
<1>5. CASE Phase(c) = "waiting" /\ to = "served"
  <2>1. Service!Serve(c)
    BY <1>1, <1>2, <1>5 DEF Service!Serve, Phases, Usable, to
  <2> QED BY <2>1 DEF Service!Next
<1>6. CASE Phase(c) = "served" /\ to = "intact"
  <2>1. Service!Complete(c)
    BY <1>1, <1>2, <1>6 DEF Service!Complete, Usable
  <2> QED BY <2>1 DEF Service!Next
<1>7. CASE Phase(c) = "served" /\ to = "damaged"
  <2>1. Service!Interrupt(c)
    BY <1>1, <1>2, <1>7 DEF Service!Interrupt, Usable, to
  <2> QED BY <2>1 DEF Service!Next
<1>8. CASE Phase(c) = "waiting" /\ to = "dropped"
  <2>1. Service!Drop(c)
    BY <1>1, <1>2, <1>8 DEF Service!Drop, Usable
  <2> QED BY <2>1 DEF Service!Next
<1> QED BY <1>4, <1>5, <1>6, <1>7, <1>8 DEF to
Waits == {"scheduled", "queueing", "acquiring", "racing", "leaving"}

\* The phase of a command is where it is, and how it ran.
PhaseAt(c) ==
  IF at[c] = "nowhere" THEN "unknown"
  ELSE IF at[c] = "settled"
       THEN IF c \in forced THEN "damaged" ELSE IF c \in started THEN "intact" ELSE "dropped"
  ELSE IF at[c] \in Waits \/ (at[c] \in {"releasing", "finalizing"} /\ c \notin started \cup forced)
       THEN "waiting" ELSE "served"

PhaseTable == \A c \in Commands : Phase(c) = PhaseAt(c)

\* What is known of the session in every state, if one task enters and closes it.
SessionFacts == Known /\ Queue /\ EnteredOnce /\ ClosedOnce /\ PhaseTable

LEMMA PhaseIsPlace == Known /\ Queue => PhaseTable
<1> SUFFICES ASSUME Known, Queue, NEW c \in Commands
             PROVE  Phase(c) = PhaseAt(c)
  BY DEF PhaseTable
<1>1. HandleFits(c) /\ at[c] \in Stages
  BY KnownFacts DEF Queue
<1>2. handle_state[c] \in {"queued", "preparing", "running", "finishing", "finished"}
  BY DEF Known, SessionTypes
<1>3. CASE at[c] \in {"nowhere"} \cup Waits
  BY <1>1, <1>2, <1>3 DEF HandleFits, Phase, PhaseAt, Waits, Unattempted
<1>4. CASE at[c] \in Running \cup {"stopping"}
  BY <1>1, <1>2, <1>4 DEF HandleFits, Phase, PhaseAt, Waits, Running
<1>5. CASE at[c] \in {"releasing", "finalizing"}
  BY <1>1, <1>2, <1>5 DEF HandleFits, Phase, PhaseAt, Waits, Running
<1>6. CASE at[c] = "settled"
  BY <1>1, <1>2, <1>6 DEF HandleFits, Phase, PhaseAt, Waits, Running
<1> QED BY <1>1, <1>3, <1>4, <1>5, <1>6 DEF Stages, Waits, Running

\* Who was served holds the lease, or held it.
LEMMA ServedHeld ==
  ASSUME SessionFacts, NEW d \in Commands
  PROVE  /\ Phase(d) = "served" => attempt[d] = "held"
         /\ Phase(d) \in {"intact", "damaged"} => attempt[d] = "released"
         /\ Phase(d) = "damaged" => state \in Gone
         /\ Phase(d) \in {"unknown", "waiting", "served", "damaged", "intact", "dropped"}
<1>1. /\ at[d] \in Stages /\ HandleFits(d) /\ AttemptFits(d)
      /\ d \in acquired /\ at[d] # "settled" => attempt[d] = "held"
      /\ at[d] \in DriverStages => d \in acquired
  BY KnownFacts DEF SessionFacts, Queue, Known, Held, AcquiredHolds, UsersAcquired, UsesDriver
<1>2. Phase(d) = PhaseAt(d) /\ (d \in forced => state \in Gone)
  BY DEF SessionFacts, PhaseTable, EnteredOnce
<1>3. Phase(d) = "served" => d \in acquired /\ at[d] # "settled"
  BY <1>1, <1>2 DEF HandleFits, PhaseAt, Waits, Running, Stages, DriverStages
<1>4. Phase(d) \in {"intact", "damaged"} => at[d] = "settled" /\ d \in started \cup forced
  BY <1>1, <1>2 DEF PhaseAt, Waits, Running, Stages
<1>5. d \in started \cup forced => d \in acquired
  BY <1>1 DEF HandleFits
<1>6. Phase(d) = "damaged" => d \in forced
  BY <1>1, <1>2 DEF PhaseAt, Waits, Running, Stages
<1>7. Phase(d) \in {"unknown", "waiting", "served", "damaged", "intact", "dropped"}
  BY <1>1, <1>2 DEF PhaseAt, Waits, Running, Stages
<1> QED BY <1>1, <1>2, <1>3, <1>4, <1>5, <1>6, <1>7 DEF AttemptFits
\* A command's step shows of no other command.
LEMMA OthersKeepPhase ==
  ASSUME SessionFacts, PhaseTable', NEW c \in Commands, LoopStep(c) \/ OpenStep(c)
  PROVE  \A d \in Commands \ {c} : Phase(d)' = Phase(d)
<1>1. \A d \in Commands \ {c} : at'[d] = at[d]
  BY CommandEffects DEF SessionFacts
<1>2. forced' \in {forced, forced \cup {c}} /\ started' \in {started, started \cup {c}}
  BY DEF LoopStep, OpenStep, Submit, Stop, AuthenticationFails, QueueingExpires,
         AcquisitionResumes, Begin, QueueingReturns, RaceEnds, QueueingRaises, AcquisitionBegins,
         RaceReturns, RaceExpires, PrepareReturns, ExecutionReturns, DriverStopped, DriverFinished,
         ExecutionStopped, ExecutionRaises, DeadlineExpires, DrainEnds, Conclude,
         PrepareRaises, ExecuteOwnedEnds, GiveUp, Settle, owned, evidence
<1>3. \A d \in Commands \ {c} : PhaseAt(d)' = PhaseAt(d)
  BY <1>1, <1>2 DEF PhaseAt
<1> QED BY <1>3 DEF SessionFacts, PhaseTable

\* A step that moves a command within its phase.
LEMMA ServiceStutters ==
  ASSUME SessionFacts, PhaseTable', NEW c \in Commands, LoopStep(c) \/ OpenStep(c),
         PhaseAt(c)' = PhaseAt(c), state' = state
  PROVE  [Service!Next]_(Service!vars)
<1>1. \A d \in Commands : Phase(d)' = Phase(d)
  BY OthersKeepPhase DEF SessionFacts, PhaseTable
<1> QED BY <1>1, ServiceUse DEF Usable

\* Going on with the lease serves the command: nobody is served, nobody after it
\* was, and the session is as it was opened.
LEMMA ServiceProceeds ==
  ASSUME SessionFacts, PhaseTable', NEW c \in Commands, LoopStep(c) \/ OpenStep(c),
         NEW from \in {"scheduled", "queueing", "leaving"}, Proceed(c, from),
         UNCHANGED <<state, forced, started>>,
         \/ Lease!Acquire(c) /\ attempt'[c] = "held"
         \/ Lease!Resume(c)
         \/ attempt[c] = "held"
  PROVE  [Service!Next]_(Service!vars)
<1>1. /\ at \in [Commands -> Stages] /\ c \in Commands \cup Accesses
      /\ \A d \in Commands : d \in Commands \cup Accesses /\ d \in Nat
  BY KnownFacts DEF SessionFacts
<1>2. at[c] = from /\ c \notin started \cup forced
  BY DEF Proceed, Moves, SessionFacts, Queue, HandleFits, Unattempted
<1>3. Phase(c) = "waiting"
  BY <1>2 DEF SessionFacts, PhaseTable, PhaseAt, Waits
<1>4. CASE at'[c] = "releasing"
  BY <1>2, <1>4, ServiceStutters DEF PhaseAt, Waits
<1>5. CASE at'[c] = "preparing"
  <2>1. state = "OPEN"
    BY <1>1, <1>5 DEF Proceed, Moves
  <2>2. Phase(c)' = "served"
    BY <1>5 DEF PhaseTable, PhaseAt, Waits
  <2>3. \A d \in Commands \ {c} : attempt[d] # "held"
    <3>1. CASE attempt[c] = "held"
      BY <1>1, <3>1, LeaseConsequences DEF Lease!MutualExclusion, SessionFacts, Known
    <3>2. CASE attempt[c] # "held"
      BY <1>1, <3>2, LeaseTaker DEF SessionFacts
    <3> QED BY <3>1, <3>2
  <2>4. \A d \in Commands : Phase(d) \notin {"served", "damaged"}
    BY <1>3, <2>1, <2>3, ServedHeld DEF Gone
  <2>5. ASSUME NEW d \in Commands, c < d PROVE attempt[d] \notin {"held", "released"}
    <3>1. attempt[c] \in Hoping \/ (attempt[c] = "idle" /\ from = "scheduled")
      <4>1. attempt[c] \in {"idle", "woken", "held"}
        BY DEF Lease!Acquire, Lease!Resume
      <4>2. from # "scheduled" => attempt[c] # "idle"
        BY <1>2 DEF SessionFacts, Queue, AttemptFits, Lease!Asleep
      <4> QED BY <4>1, <4>2 DEF Hoping
    <3>2. CASE attempt[c] \in Hoping
      BY <2>5, <3>2 DEF SessionFacts, Queue, CommandsInOrder
    <3>3. CASE from = "scheduled"
      <4>1. attempt[d] = "idle"
        BY <1>2, <2>5, <3>3 DEF SessionFacts, Queue, CommandsInOrder, Unattempted
      <4> QED BY <4>1
    <3> QED BY <3>1, <3>2, <3>3
  <2>6. ASSUME NEW d \in Commands, d > c PROVE Phase(d) \in {"unknown", "waiting", "dropped"}
    <3>1. c < d
      BY <1>1, <2>6
    <3> QED BY <2>5, <3>1, ServedHeld
  <2>7. Usable = "yes" /\ Usable' = Usable
    BY <2>1 DEF Usable
  <2>8. Service!Next
    BY <1>3, <2>2, <2>4, <2>6, <2>7, ServiceMove, OthersKeepPhase
  <2> QED BY <2>8
<1> QED BY <1>1, <1>4, <1>5 DEF Proceed, Moves
LEMMA ServiceQueue ==
  ASSUME SessionFacts, PhaseTable', NEW c \in Commands,
         \/ Begin(c) \/ QueueingReturns(c) \/ QueueingExpires(c) \/ QueueingRaises(c)
         \/ AcquisitionBegins(c) \/ AcquisitionResumes(c)
         \/ RaceReturns(c) \/ RaceExpires(c) \/ RaceEnds(c)
  PROVE  [Service!Next]_(Service!vars)
<1>1. at \in [Commands -> Stages] /\ HandleFits(c)
  BY KnownFacts DEF SessionFacts, Queue
<1>2. UNCHANGED <<state, forced, started>> /\ (LoopStep(c) \/ OpenStep(c))
  BY DEF LoopStep, OpenStep, Begin, QueueingReturns, QueueingExpires, QueueingRaises, AcquisitionBegins,
         AcquisitionResumes, RaceReturns, RaceExpires, RaceEnds, owned, evidence
<1>3. ASSUME at[c] \in Waits, at'[c] \in Waits \cup {"finalizing"}
      PROVE  [Service!Next]_(Service!vars)
  <2>1. c \notin started \cup forced
    BY <1>1, <1>3 DEF HandleFits, Waits, Unattempted
  <2>2. PhaseAt(c)' = PhaseAt(c)
    BY <1>2, <1>3, <2>1 DEF PhaseAt, Waits
  <2> QED BY <1>2, <2>2, ServiceStutters
<1>4. CASE Begin(c)
  <2>1. CASE BeginAtOnce(c)
    <3>1. CASE attempt'[c] = "held"
      BY <1>2, <2>1, <3>1, ServiceProceeds DEF BeginAtOnce
    <3>2. CASE attempt'[c] # "held"
      BY <1>1, <1>3, <2>1, <3>2 DEF BeginAtOnce, Moves, Waits
    <3> QED BY <3>1, <3>2
  <2>2. CASE BeginStopped(c) \/ BeginExpired(c) \/ BeginRace(c)
    BY <1>1, <1>3, <2>2 DEF BeginStopped, BeginExpired, BeginRace, Moves, Waits
  <2> QED BY <1>4, <2>1, <2>2 DEF Begin
<1>5. CASE QueueingReturns(c)
  BY <1>2, <1>5, ServiceProceeds DEF QueueingReturns
<1>6. CASE RaceEnds(c)
  <2>1. CASE c \in acquired
    <3>1. Proceed(c, "leaving") /\ at[c] = "leaving"
      BY <1>6, <2>1 DEF RaceEnds, Proceed, Moves
    <3>2. attempt[c] = "held"
      BY <2>1, <3>1 DEF SessionFacts, Known, Held, AcquiredHolds
    <3> QED BY <1>2, <3>1, <3>2, ServiceProceeds
  <2>2. CASE c \notin acquired
    BY <1>1, <1>3, <1>6, <2>2 DEF RaceEnds, Moves, Waits
  <2> QED BY <2>1, <2>2
<1>7. CASE QueueingExpires(c) \/ AcquisitionResumes(c)
  BY <1>3, <1>7 DEF QueueingExpires, AcquisitionResumes, owned, Waits
<1>8. CASE QueueingRaises(c) \/ AcquisitionBegins(c) \/ RaceReturns(c) \/ RaceExpires(c)
  BY <1>1, <1>3, <1>8 DEF QueueingRaises, AcquisitionBegins, RaceReturns, RaceExpires, Moves, Waits
<1> QED BY <1>4, <1>5, <1>6, <1>7, <1>8

LEMMA ServiceExecution ==
  ASSUME SessionFacts, PhaseTable', NEW c \in Commands,
         \/ PrepareReturns(c) \/ PrepareRaises(c)
         \/ ExecutionStopped(c) \/ ExecutionRaises(c) \/ DeadlineExpires(c)
         \/ ExecutionReturns(c) \/ DrainEnds(c) \/ ExecuteOwnedEnds(c)
         \/ DriverStopped(c) \/ DriverFinished(c)
  PROVE  [Service!Next]_(Service!vars)
<1> USE DEF Moves, PhaseAt, Waits
<1>1. at \in [Commands -> Stages] /\ HandleFits(c)
  BY KnownFacts DEF SessionFacts, Queue
<1>2. LoopStep(c) \/ OpenStep(c)
  BY DEF LoopStep, OpenStep
<1>3. CASE PrepareReturns(c)
  BY <1>1, <1>2, <1>3, ServiceStutters DEF PrepareReturns
<1>4. CASE ExecutionReturns(c)
  BY <1>1, <1>2, <1>4, ServiceStutters DEF ExecutionReturns
<1>5. CASE ExecutionStopped(c) \/ ExecutionRaises(c) \/ DeadlineExpires(c) \/ DrainEnds(c)
  <2>1. at[c] \in {"executing", "draining"} /\ at'[c] = "unwinding" /\ state' = state
    BY <1>1, <1>5 DEF ExecutionStopped, ExecutionRaises, DeadlineExpires, DrainEnds, Conclude
  <2> QED BY <1>2, <2>1, ServiceStutters
\* Breaking the session invalidates the service, and serves the command still.
<1>6. ASSUME NEW from \in {"preparing", "unwinding"}, NEW why, GiveUp(c, from, why)
      PROVE  [Service!Next]_(Service!vars)
  <2>1. at[c] = from /\ at'[c] = "stopping" /\ state' = "BROKEN"
    BY <1>1, <1>6 DEF GiveUp
  <2>2. PhaseAt(c)' = PhaseAt(c)
    BY <2>1
  <2>3. \A d \in Commands : Phase(d)' = Phase(d)
    BY <1>2, <2>2, OthersKeepPhase DEF SessionFacts, PhaseTable
  <2>4. Usable' = "no_more"
    BY <2>1 DEF Usable
  <2> QED BY <2>3, <2>4, ServiceUse
<1>7. CASE PrepareRaises(c)
  BY <1>6, <1>7 DEF PrepareRaises
<1>8. CASE ExecuteOwnedEnds(c)
  <2>1. CASE outcome[c] = "EXITED"
    <3>1. at[c] = "unwinding" /\ at'[c] = "releasing" /\ UNCHANGED <<state, started, forced>>
      BY <1>1, <1>8, <2>1 DEF ExecuteOwnedEnds, evidence
    <3>2. c \in started
      BY <1>1, <3>1 DEF HandleFits
    <3> QED BY <1>2, <3>1, <3>2, ServiceStutters
  <2>2. CASE outcome[c] # "EXITED"
    BY <1>6, <1>8, <2>2 DEF ExecuteOwnedEnds
  <2> QED BY <2>1, <2>2
<1>9. CASE DriverStopped(c)
  <2>1. at[c] = "stopping" /\ at'[c] = "releasing" /\ UNCHANGED <<state, started, forced>>
    BY <1>1, <1>9 DEF DriverStopped, evidence
  <2>2. c \in forced
    BY <1>1, <2>1 DEF HandleFits
  <2> QED BY <1>2, <2>1, <2>2, ServiceStutters
<1>10. CASE DriverFinished(c)
  <2>1. at[c] = "releasing" /\ at'[c] = "finalizing" /\ UNCHANGED <<state, started, forced>>
    BY <1>1, <1>10 DEF DriverFinished, evidence
  <2> QED BY <1>2, <2>1, ServiceStutters
<1> QED BY <1>3, <1>4, <1>5, <1>7, <1>8, <1>9, <1>10

LEMMA ServiceRequests ==
  ASSUME SessionFacts, PhaseTable', NEW c \in Commands,
         Submit(c) \/ Stop(c) \/ AuthenticationFails(c) \/ Settle(c)
  PROVE  [Service!Next]_(Service!vars)
<1>1. at \in [Commands -> Stages] /\ HandleFits(c)
  BY KnownFacts DEF SessionFacts, Queue
<1>2. LoopStep(c) \/ OpenStep(c)
  BY DEF LoopStep, OpenStep
<1>3. CASE Submit(c)
  <2>1. /\ at[c] = "nowhere" /\ at'[c] = "scheduled" /\ state' = state /\ state = "OPEN"
        /\ \A d \in Commands : d < c => at[d] # "nowhere"
    BY <1>1, <1>3 DEF Submit, Accepts
  <2>2. Phase(c) = "unknown" /\ Phase(c)' = "waiting"
    BY <2>1 DEF SessionFacts, PhaseTable, PhaseAt, Waits
  <2>3. \A d \in Commands : d < c => Phase(d) # "unknown"
    BY <2>1 DEF SessionFacts, PhaseTable, PhaseAt
  <2>4. Usable = "yes" /\ Usable' = Usable
    BY <2>1 DEF Usable
  <2> QED BY <1>2, <2>2, <2>3, <2>4, ServiceMove, OthersKeepPhase
<1>4. CASE Stop(c) \/ AuthenticationFails(c)
  <2>1. UNCHANGED <<state, at, forced, started>>
    BY <1>4 DEF Stop, AuthenticationFails, owned, evidence
  <2> QED BY <1>2, <2>1, ServiceStutters DEF PhaseAt
<1>5. CASE Settle(c)
  <2>1. /\ at[c] = "finalizing" /\ at'[c] = "settled"
        /\ UNCHANGED <<state, forced, started>>
    BY <1>1, <1>5 DEF Settle, Moves
  <2>2. /\ Phase(c) = IF c \in started \cup forced THEN "served" ELSE "waiting"
        /\ Phase(c)' = IF c \in forced THEN "damaged" ELSE IF c \in started THEN "intact" ELSE "dropped"
    BY <2>1 DEF SessionFacts, PhaseTable, PhaseAt, Waits
  <2>3. c \in forced => Usable = "no_more"
    BY DEF SessionFacts, EnteredOnce, Gone, Usable
  <2>4. Usable' = Usable
    BY <2>1 DEF Usable
  <2> QED BY <1>2, <2>2, <2>3, <2>4, ServiceMove, OthersKeepPhase
<1> QED BY <1>3, <1>4, <1>5

LEMMA ServiceOwners ==
  ASSUME SessionFacts, PhaseTable', [Next]_vars, ~\E c \in Commands : LoopStep(c) \/ OpenStep(c)
  PROVE  [Service!Next]_(Service!vars)
<1>1. UNCHANGED <<at, forced, started>>
  BY OtherEffects DEF Next, owned, evidence
<1>2. \A c \in Commands : Phase(c)' = Phase(c)
  BY <1>1 DEF SessionFacts, PhaseTable, PhaseAt
<1>3. CASE \E o \in Owners : EnterReturns(o)
  <2>1. state = "NEW" /\ state' = "OPEN"
    BY <1>3 DEF EnterReturns, Enters, SessionFacts, ClosedOnce
  <2> QED BY <1>2, <2>1, ServiceUse DEF Usable
<1>4. CASE ShutdownBegins
  <2>1. state' = "CLOSING"
    BY <1>4 DEF ShutdownBegins
  <2> QED BY <1>2, <2>1, ServiceUse DEF Usable
<1>5. CASE ShutdownReturns
  <2>1. state' = "CLOSED"
    BY <1>5 DEF ShutdownReturns
  <2> QED BY <1>2, <2>1, ServiceUse DEF Usable
<1>6. CASE ~(\E o \in Owners : EnterReturns(o)) /\ ~ShutdownBegins /\ ~ShutdownReturns
  <2>1. state' = state
    BY <1>6 DEF Next, vars, OwnerStep, Enter, EnterRaises, Exit, Aclose, ShutdownStep,
           ShutdownGathers, ShutdownRaises, AccessStep, AccessArrives, AccessResumes,
           AccessRaises, AccessBegins, AccessCancelled, AccessLeaves
  <2> QED BY <1>2, <2>1, ServiceUse DEF Usable
<1> QED BY <1>3, <1>4, <1>5, <1>6

\* If nobody closes the session before its one owner has entered, it implements
\* CommandService: in order, one at a time, answered once, and given up before
\* an interrupted command is answered.
THEOREM PromiseKept == ASSUME OneOwner PROVE Spec /\ EntersFirst => KeepsPromise
<1>1. Init => Service!Init
  BY DEF Init, Service!Init, Phase
<1>2. SessionFacts /\ PhaseTable' /\ [Next]_vars => [Service!Next]_(Service!vars)
  BY ServiceQueue, ServiceExecution, ServiceRequests, ServiceOwners DEF LoopStep, OpenStep
<1>3. Init => EnteredOnce
  BY DEF Init, EnteredOnce
<1>4. Known /\ Queue /\ EnteredOnce /\ [Next]_vars => EnteredOnce'
  BY EnteredOnceNext
<1>5. Known /\ Queue => PhaseTable
  BY PhaseIsPlace
<1>6. Known /\ Queue /\ EnteredOnce /\ ClosedOnce => SessionFacts
  BY <1>5 DEF SessionFacts
<1> QED BY <1>1, <1>2, <1>3, <1>4, <1>5, <1>6, KnownInvariance, QueueInvariance, ClosedOnceInvariance,
           PTL DEF Spec, KeepsPromise, Service!Spec

\* In particular if the task that entered the session is the one to close it.
COROLLARY OwnPromiseKept == ASSUME OneOwner, ~Shared PROVE Spec => KeepsPromise
BY PromiseKept, OwnerEntersFirst, PTL
=============================================================================
