------------------------- MODULE MockBackend_proofs -------------------------
(***************************************************************************)
(* Proofs about MockBackend for every scenario, any number of commands,    *)
(* attempts and chunks, and any deadline: types and the bound on virtual   *)
(* time, that every command plays the expectation it reserved, that a      *)
(* finite wait expires only when the mock waits for somebody else, and     *)
(* that a verdict depends on the stream of input, not on its chunks.       *)
(*                                                                         *)
(* The last compares the driver's steps with recursions over scripts and   *)
(* chunks of any length.  The library's induction theorems take a          *)
(* predicate, which the provers cannot instantiate; WFMin takes a set, and *)
(* is enough for induction over numbers (SetInduction).  A recursion is    *)
(* then unfolded by showing that some function solves its equation.        *)
(***************************************************************************)
EXTENDS MockBackend, FiniteSetTheorems, SequenceTheorems, WellFoundedInduction, TLAPS

Stages   == {"unknown", "refused", "queued", "active", "ending", "finished"}
Failures == {"input", "output", "startup", "session"}
Verdicts == {"none", "stopped", "timeout", "unexpected_input", "exited", "provider_failure",
             "startup_failure", "output_failure"} \cup Failures

\* The driver is on its way through the steps.
Busy == {"asking", "running", "blocked"}

Shape ==
  /\ expectations \in Seq(Expectation) /\ strict \in BOOLEAN
  /\ cursor \in 0..Len(expectations)
  /\ stage \in [Commands -> Stages] /\ outcome \in [Commands -> Verdicts]
  /\ reservation \in [Commands -> Expectation] /\ playing \in Expectation
  /\ wait \in [Watched -> {"none", "awaiting", "watching", "expired", "returned"}]
  /\ active \in Commands \cup {0} /\ virtual_blocked \subseteq Commands
  /\ mode \in Busy \cup {"off", "ended", "over"}
  /\ asked \in 0..Attempts /\ spent \in 0..Deadline /\ elapsed \in Nat /\ step \in Nat

\* Who runs, and how far.
Current ==
  /\ mode = "off" <=> active = 0
  /\ mode \in Busy \cup {"ended"} => stage[active] = "active" /\ step \in 1..(Len(playing.steps) + 1)
  /\ mode = "over" => stage[active] = "ending"
  /\ mode \in {"running", "blocked"} => active \in ready
  /\ mode \in Busy => outcome[active] = "none"
  /\ \A c \in Commands :
       /\ stage[c] = "active" => c = active
       /\ stage[c] \in {"unknown", "refused", "queued"} => outcome[c] = "none"

\* A command is marked as blocked while it is, and when it did not come to an end of its own.
Flagged ==
  \A c \in virtual_blocked :
    /\ c \in ready
    /\ \/ c = active /\ mode = "blocked" /\ inputs = <<>>
       \/ outcome[c] \notin {"none", "exited"}

\* Commands are submitted, and take their turn, in order.
Ordered == \A c, d \in Commands : d < c /\ stage[c] # "unknown" => stage[d] # "unknown"

\* Every command that has run has used up no more than the deadline.
Timed(n) ==
  /\ \A d \in Commands : d <= n => stage[d] \notin {"unknown", "queued"}
  /\ IF mode \in Busy THEN n = active /\ elapsed + Deadline <= n * Deadline + spent
     ELSE elapsed <= n * Deadline
Time == \E n \in 0..Len(Submissions) : Timed(n)

AcceptedOnes == {c \in Commands : Accepted(c)}

\* Who has reserved what.
Ledger ==
  /\ mode \in Busy => playing = reservation[active]
  /\ strict => cursor = Cardinality(AcceptedOnes)
  /\ \A c \in Commands : Accepted(c) =>
       /\ reservation[c].command = Submissions[c]
       /\ strict => reservation[c] = expectations[Place(c)]
  /\ left \in {"consumed", "unconsumed"} => Pending = {}
  /\ left = "consumed" /\ strict => cursor = Len(expectations)

Inv == Shape /\ Current /\ Flagged /\ Ordered /\ Time /\ Ledger

-----------------------------------------------------------------------------
(* The constants.                                                           *)

LEMMA CommandFacts ==
  /\ Len(Submissions) \in Nat /\ Commands = 1..Len(Submissions) /\ 0 \notin Commands
  /\ \A c \in Commands : Submissions[c] \in Texts
<1>1. Len(Submissions) \in Nat /\ DOMAIN Submissions = 1..Len(Submissions)
  BY MockAssumption, LenProperties
<1>2. \A c \in 1..Len(Submissions) : Submissions[c] \in Texts
  BY <1>1, MockAssumption, ElementOfSeq
<1> QED BY <1>1, <1>2 DEF Commands

LEMMA ConstantFacts ==
  /\ Attempts \in Nat /\ Deadline \in Nat /\ Watched \subseteq Commands
  /\ \A scenario \in Scenarios : scenario \in Seq(Expectation)
BY MockAssumption

\* A step's fields.
LEMMA StepFacts ==
  ASSUME NEW s \in Steps
  PROVE  /\ s.kind = "advance" => s.seconds \in Nat
         /\ s.kind = "failure" => s.failure \in Failures
<1>1. CASE s \in [kind : {"emit"}]
  BY <1>1
<1>2. CASE s \in [kind : {"receive"}, data : Seq(Bytes) \cup {Eof}]
  BY <1>2
<1>3. CASE s \in [kind : {"advance"}, seconds : Nat]
  BY <1>3
<1>4. CASE s \in [kind : {"failure"}, failure : {"input", "output", "startup", "session"}]
  BY <1>4 DEF Failures
<1> QED BY <1>1, <1>2, <1>3, <1>4 DEF Steps

LEMMA ExpectationFacts ==
  /\ NoExpectation \in Expectation
  /\ \A e \in Expectation : /\ Len(e.steps) \in Nat /\ DOMAIN e.steps = 1..Len(e.steps)
                            /\ \A i \in 1..Len(e.steps) : e.steps[i] \in Steps
                            /\ e.prompts \in Nat
  /\ \A c \in Commands : [NoExpectation EXCEPT !.command = Submissions[c]] \in Expectation
<1>1. <<>> \in Seq(Steps)
  OBVIOUS
<1>2. NoExpectation \in Expectation
  BY <1>1, MockAssumption DEF NoExpectation, Expectation
<1>3. ASSUME NEW e \in Expectation
      PROVE  /\ Len(e.steps) \in Nat /\ DOMAIN e.steps = 1..Len(e.steps)
             /\ \A i \in 1..Len(e.steps) : e.steps[i] \in Steps
             /\ e.prompts \in Nat
  <2>1. e.steps \in Seq(Steps) /\ e.prompts \in Nat
    BY DEF Expectation
  <2> QED BY <2>1, LenProperties, ElementOfSeq
<1>4. ASSUME NEW c \in Commands
      PROVE  [NoExpectation EXCEPT !.command = Submissions[c]] \in Expectation
  BY <1>1, CommandFacts, MockAssumption DEF NoExpectation, Expectation
<1> QED BY <1>2, <1>3, <1>4

-----------------------------------------------------------------------------
(* The ledger.                                                              *)

\* Places count commands.
LEMMA PlaceFacts ==
  /\ IsFiniteSet(AcceptedOnes) /\ Cardinality(AcceptedOnes) \in Nat
  /\ \A c \in Commands : IsFiniteSet({d \in 1..c : Accepted(d)}) /\ Place(c) \in Nat
<1>1. IsFiniteSet(Commands)
  BY CommandFacts, FS_Interval
<1>2. IsFiniteSet(AcceptedOnes)
  BY <1>1, FS_Subset DEF AcceptedOnes
<1>3. ASSUME NEW c \in Commands PROVE IsFiniteSet({d \in 1..c : Accepted(d)})
  <2>1. IsFiniteSet(1..c)
    BY CommandFacts, FS_Interval
  <2> QED BY <2>1, FS_Subset
<1> QED BY <1>2, <1>3, FS_CardinalityType DEF Place

LEMMA LedgerFrame ==
  ASSUME Shape, Ledger, UNCHANGED scenario_vars,
         \A c \in Commands : Accepted(c)' <=> Accepted(c),
         \A c \in Commands : c \in Pending' => c \in Pending,
         left' \in {"consumed", "unconsumed"} => left' = left,
         mode' \in Busy => playing' = reservation[active']
  PROVE  Ledger'
<1>1. cursor' = cursor /\ strict' = strict /\ expectations' = expectations /\ reservation' = reservation
  BY DEF scenario_vars
<1>2. AcceptedOnes' = AcceptedOnes
  BY DEF AcceptedOnes
<1>3. \A c \in Commands : Place(c)' = Place(c)
  <2>1. ASSUME NEW c \in Commands PROVE {d \in 1..c : Accepted(d)}' = {d \in 1..c : Accepted(d)}
    <3>1. \A d \in 1..c : d \in Commands
      BY CommandFacts
    <3> QED BY <3>1
  <2> QED BY <2>1 DEF Place
<1>4. Pending = {} => Pending' = {}
  BY DEF Pending
<1> QED BY <1>1, <1>2, <1>3, <1>4 DEF Ledger

\* A command reserves the next expectation, and is the last of those that did.
LEMMA LedgerGrows ==
  ASSUME Shape, Current, Ordered, Ledger, NEW c \in Commands, Submit(c)
  PROVE  Ledger' /\ cursor' \in 0..Len(expectations) /\ reservation' \in [Commands -> Expectation]
<1> USE DEF Shape
<1>1. /\ stage[c] = "unknown" /\ left = "no" /\ left' = left /\ mode' = mode /\ active' = active
      /\ playing' = playing /\ expectations' = expectations /\ strict' = strict
  BY DEF Submit, play_vars
<1>2. \A d \in Commands : Accepted(d) => d < c
  <2>1. ASSUME NEW d \in Commands, Accepted(d) PROVE d < c
    <3>1. d # c /\ ~(c < d)
      BY <1>1, <2>1 DEF Accepted, Ordered
    <3> QED BY <3>1, CommandFacts
  <2> QED BY <2>1
<1>3. mode \in Busy => active # c /\ active \in Commands
  <2>1. mode \in Busy => active # 0 /\ stage[active] = "active"
    BY DEF Current, Busy
  <2> QED BY <1>1, <2>1
<1>4. \A i \in 1..Len(expectations) : expectations[i] \in Expectation
  BY ElementOfSeq
<1>5. Len(expectations) \in Nat /\ cursor \in Nat
  BY LenProperties
<1>6. CASE Matches(c) \/ ~strict
  <2>1. /\ stage' = [stage EXCEPT ![c] = "queued"]
        /\ reservation' = [reservation EXCEPT ![c] = Reserved(c)]
        /\ cursor' = IF Matches(c) THEN cursor + 1 ELSE cursor
    BY <1>6 DEF Submit, Moves
  <2>2. /\ Reserved(c) \in Expectation /\ Reserved(c).command = Submissions[c]
        /\ cursor' \in 0..Len(expectations)
    <3>1. CASE Matches(c)
      <4>1. cursor + 1 \in 1..Len(expectations) /\ expectations[cursor + 1].command = Submissions[c]
        BY <1>5, <3>1 DEF Matches
      <4> QED BY <1>4, <1>5, <2>1, <3>1, <4>1 DEF Reserved
    <3>2. CASE ~Matches(c)
      <4>1. [NoExpectation EXCEPT !.command = Submissions[c]].command = Submissions[c]
        BY DEF NoExpectation
      <4> QED BY <2>1, <3>2, <4>1, ExpectationFacts DEF Reserved
    <3> QED BY <3>1, <3>2
  <2>3. /\ reservation' \in [Commands -> Expectation] /\ reservation'[c] = Reserved(c)
        /\ \A d \in Commands : d # c => reservation'[d] = reservation[d]
    BY <2>1, <2>2
  <2>4. \A d \in Commands : Accepted(d)' <=> Accepted(d) \/ d = c
    BY <2>1 DEF Accepted
  <2>5. AcceptedOnes' = AcceptedOnes \cup {c} /\ c \notin AcceptedOnes
    BY <1>2, <2>4, CommandFacts DEF AcceptedOnes
  <2>6. Cardinality(AcceptedOnes') = Cardinality(AcceptedOnes) + 1
    BY <2>5, PlaceFacts, FS_AddElement
  <2>7. ASSUME NEW d \in Commands, d < c PROVE Place(d)' = Place(d)
    <3>1. \A e \in 1..d : e \in Commands /\ e # c
      BY <2>7, CommandFacts
    <3>2. {e \in 1..d : Accepted(e)}' = {e \in 1..d : Accepted(e)}
      BY <2>4, <3>1
    <3> QED BY <3>2 DEF Place
  <2>8. Place(c)' = Cardinality(AcceptedOnes')
    <3>1. \A e \in Commands : e \in 1..c <=> e <= c
      BY CommandFacts
    <3>2. \A e \in 1..c : e \in Commands
      BY CommandFacts
    <3>3. \A e \in Commands : Accepted(e)' => e <= c
      BY <1>2, <2>4, CommandFacts
    <3>4. {e \in 1..c : Accepted(e)}' = AcceptedOnes'
      BY <3>1, <3>2, <3>3 DEF AcceptedOnes
    <3> QED BY <3>4 DEF Place
  <2>9. strict => /\ cursor' = Cardinality(AcceptedOnes')
                  /\ Reserved(c) = expectations[Cardinality(AcceptedOnes')]
    BY <1>6, <2>1, <2>6 DEF Reserved, Ledger
  <2>10. ASSUME NEW d \in Commands, Accepted(d)'
         PROVE  /\ reservation'[d].command = Submissions[d]
                /\ strict => reservation'[d] = expectations[Place(d)']
    <3>1. CASE d = c
      BY <2>2, <2>3, <2>8, <2>9, <3>1
    <3>2. CASE d # c
      <4>1. Accepted(d) /\ d < c
        BY <1>2, <2>4, <2>10, <3>2
      <4> QED BY <2>3, <2>7, <3>2, <4>1 DEF Ledger
    <3> QED BY <3>1, <3>2
  <2>11. Ledger'
    BY <1>1, <1>3, <2>3, <2>9, <2>10 DEF Ledger
  <2> QED BY <2>2, <2>3, <2>11
<1>7. CASE ~(Matches(c) \/ ~strict)
  <2>1. stage' = [stage EXCEPT ![c] = "refused"] /\ UNCHANGED <<reservation, cursor>>
    BY <1>7 DEF Submit, Moves
  <2>2. \A d \in Commands : (Accepted(d)' <=> Accepted(d)) /\ (d \in Pending' => d \in Pending)
    BY <1>1, <2>1 DEF Accepted, Pending
  <2>3. mode' \in Busy => playing' = reservation[active']
    BY <1>1 DEF Ledger
  <2>4. Ledger'
    BY <1>1, <2>1, <2>2, <2>3, LedgerFrame DEF scenario_vars
  <2> QED BY <2>1, <2>4
<1> QED BY <1>6, <1>7

-----------------------------------------------------------------------------
(* Time.                                                                    *)

LEMMA Products ==
  /\ \A n \in Nat : n * Deadline \in Nat /\ (n + 1) * Deadline = n * Deadline + Deadline
  /\ \A m, n \in Nat : m <= n => m * Deadline <= n * Deadline
<1>1. Deadline \in Nat
  BY ConstantFacts
<1> QED BY <1>1

\* The driver neither begins nor goes back, and time stands still.
LEMMA TimeFrame ==
  ASSUME Shape, Time, elapsed' = elapsed,
         \A d \in Commands : stage[d] \notin {"unknown", "queued"} => stage'[d] \notin {"unknown", "queued"},
         mode' \in Busy => mode \in Busy /\ active' = active /\ spent' = spent
  PROVE  Time'
<1>1. PICK n \in 0..Len(Submissions) : Timed(n)
  BY DEF Time
<1>2. n \in Nat
  BY CommandFacts
<1>3. PICK limit \in Nat : limit = n * Deadline
  BY <1>2, Products
<1>4. mode \in Busy => elapsed + Deadline <= limit + spent
  BY <1>1, <1>3 DEF Timed
<1>5. mode \notin Busy => elapsed <= limit
  BY <1>1, <1>3 DEF Timed
<1>6. elapsed <= limit
  BY <1>4, <1>5, ConstantFacts DEF Shape
<1>7. IF mode' \in Busy THEN n = active' /\ elapsed' + Deadline <= n * Deadline + spent'
      ELSE elapsed' <= n * Deadline
  BY <1>1, <1>3, <1>6 DEF Timed
<1>8. Timed(n)'
  BY <1>1, <1>7 DEF Timed
<1> QED BY <1>8 DEF Time

\* The next command may use the deadline up.
LEMMA TimeBegins ==
  ASSUME Shape, Current, Ordered, Time, NEW c \in Commands, Prepare(c)
  PROVE  Time'
<1>1. /\ mode = "off" /\ stage[c] = "queued" /\ \A d \in Commands : d < c => stage[d] # "queued"
      /\ stage' = [stage EXCEPT ![c] = "active"] /\ active' = c /\ spent' = 0 /\ elapsed' = elapsed
  BY DEF Prepare, Moves
<1>2. PICK n \in 0..Len(Submissions) : Timed(n)
  BY DEF Time
<1>3. n \in Nat /\ c \in Nat /\ c \in 0..Len(Submissions) /\ Deadline \in Nat /\ elapsed \in Nat
  BY CommandFacts, ConstantFacts DEF Shape
<1>4. n + 1 <= c
  <2>1. ~(c <= n)
    BY <1>1, <1>2 DEF Timed
  <2> QED BY <1>3, <2>1
<1>5. PICK limit \in Nat, more \in Nat : limit = n * Deadline /\ more = c * Deadline
  BY <1>3, Products
<1>6. limit + Deadline <= more
  <2>1. (n + 1) * Deadline <= c * Deadline
    BY <1>3, <1>4, Products
  <2> QED BY <1>3, <1>5, <2>1, Products
<1>7. elapsed <= limit
  BY <1>1, <1>2, <1>5 DEF Timed, Busy
<1>8. elapsed + Deadline <= more + 0
  BY <1>3, <1>6, <1>7
<1>9. ASSUME NEW d \in Commands, d <= c PROVE stage'[d] \notin {"unknown", "queued"}
  <2>1. CASE d = c
    BY <1>1, <2>1 DEF Shape
  <2>2. CASE d < c
    BY <1>1, <2>2, CommandFacts DEF Shape, Ordered
  <2> QED BY <1>9, <2>1, <2>2, CommandFacts
<1>10. Timed(c)'
  <2>1. mode' \in Busy
    BY DEF Prepare, Busy
  <2> QED BY <1>1, <1>5, <1>8, <1>9, <2>1 DEF Timed
<1> QED BY <1>3, <1>10 DEF Time

\* An Advance step takes its seconds, or what is left of the deadline.
LEMMA TimeAdvances ==
  ASSUME Shape, Current, Time, PlayAdvance
  PROVE  Time' /\ elapsed' \in Nat /\ spent' \in 0..Deadline
<1> DEFINE seconds == playing.steps[step].seconds
<1>1. mode = "running" /\ stage' = stage /\ active' = active
  BY DEF PlayAdvance, Playing, session_vars
<1>2. seconds \in Nat
  <2>1. step \in 1..Len(playing.steps) /\ playing.steps[step].kind = "advance"
    <3>1. step <= Len(playing.steps) /\ playing.steps[step].kind = "advance"
      BY DEF PlayAdvance, Playing
    <3>2. step \in DOMAIN playing.steps
      BY <1>1, <3>1, ExpectationFacts DEF Current, Busy, Shape
    <3> QED BY <3>1, <3>2, ExpectationFacts DEF Shape
  <2> QED BY <2>1, ExpectationFacts, StepFacts DEF Shape
<1>3. \/ /\ spent + seconds >= Deadline
         /\ elapsed' = elapsed + (Deadline - spent) /\ spent' = spent /\ mode' = "ended"
      \/ /\ ~(spent + seconds >= Deadline)
         /\ elapsed' = elapsed + seconds /\ spent' = spent + seconds /\ mode' = mode
  BY DEF PlayAdvance, Raises
<1> HIDE DEF seconds
<1>4. PICK n \in 0..Len(Submissions) : Timed(n)
  BY DEF Time
<1>5. n \in Nat /\ Deadline \in Nat /\ elapsed \in Nat /\ spent \in 0..Deadline
  BY CommandFacts, ConstantFacts DEF Shape
<1>6. PICK limit \in Nat : limit = n * Deadline
  BY <1>5, Products
<1>7. n = active /\ elapsed + Deadline <= limit + spent
  BY <1>1, <1>4, <1>6 DEF Timed, Busy
<1>8. /\ elapsed' \in Nat /\ spent' \in 0..Deadline
      /\ mode' = "running" => elapsed' + Deadline <= limit + spent'
      /\ mode' = "ended" => elapsed' <= limit
      /\ mode' \in {"running", "ended"}
  BY <1>1, <1>2, <1>3, <1>5, <1>7
<1>9. Timed(n)'
  BY <1>1, <1>4, <1>6, <1>7, <1>8 DEF Timed, Busy
<1> QED BY <1>8, <1>9 DEF Time

-----------------------------------------------------------------------------
(* The steps of the driver.                                                 *)

LEMMA ActiveFacts ==
  ASSUME Shape, Current, mode # "off"
  PROVE  active \in Commands
BY DEF Shape, Current

\* What every step of the driver leaves as it is.
LEMMA StepKeeps ==
  ASSUME Inv, UNCHANGED scenario_vars,
         stage' = stage, left' = left, active' = active, playing' = playing, wait' = wait,
         mode \in Busy \cup {"ended"}, mode' \in Busy \cup {"ended"}, mode' \in Busy => mode \in Busy,
         \/ outcome' = outcome
         \/ mode' = "ended" /\ \E v \in Verdicts : outcome' = [outcome EXCEPT ![active] = v],
         ready \subseteq ready', mode' \in {"running", "blocked"} => active \in ready',
         virtual_blocked' \subseteq Commands,
         step' \in 1..(Len(playing.steps) + 1), asked' \in 0..Attempts, spent' \in 0..Deadline,
         elapsed' \in Nat
  PROVE  Shape' /\ Current' /\ Ordered' /\ Ledger'
<1> USE DEF Inv
<1>1. mode # "off" /\ mode # "over" /\ mode' # "off" /\ mode' # "over"
  BY DEF Busy
<1>2. active \in Commands /\ stage[active] = "active"
  BY <1>1, ActiveFacts DEF Current
<1>3. outcome' \in [Commands -> Verdicts] /\ \A c \in Commands : c # active => outcome'[c] = outcome[c]
  BY <1>2 DEF Shape
<1>4. Shape'
  BY <1>3, ExpectationFacts DEF Shape, scenario_vars
<1>5. Current'
  <2>1. mode' \in Busy => outcome'[active] = "none"
    BY DEF Current, Busy
  <2>2. \A c \in Commands : stage[c] \in {"unknown", "refused", "queued"} => outcome'[c] = "none"
    BY <1>2, <1>3 DEF Current
  <2> QED BY <1>1, <1>2, <2>1, <2>2 DEF Current
<1>6. Ordered'
  BY DEF Ordered
<1>7. Ledger'
  <2>1. \A c \in Commands : (Accepted(c)' <=> Accepted(c)) /\ (c \in Pending' => c \in Pending)
    BY DEF Accepted, Pending
  <2>2. mode' \in Busy => playing' = reservation[active']
    BY DEF Ledger
  <2> QED BY <2>1, <2>2, LedgerFrame
<1> QED BY <1>4, <1>5, <1>6, <1>7

\* A driver that is not blocked is not marked.
LEMMA FlagFrame ==
  ASSUME Inv, mode \in {"asking", "running"}, active' = active, ready \subseteq ready',
         virtual_blocked' = virtual_blocked,
         \/ outcome' = outcome
         \/ \E v \in Verdicts : outcome' = [outcome EXCEPT ![active] = v]
  PROVE  Flagged'
<1> USE DEF Inv
<1>1. active \in Commands /\ outcome[active] = "none"
  BY ActiveFacts DEF Current, Busy
<1>2. ASSUME NEW c \in virtual_blocked PROVE c \in ready /\ outcome[c] \notin {"none", "exited"}
  BY DEF Flagged
<1>3. ASSUME NEW c \in virtual_blocked PROVE c # active /\ outcome'[c] = outcome[c]
  BY <1>1, <1>2 DEF Shape
<1> QED BY <1>2, <1>3 DEF Flagged

LEMMA TimeStands ==
  ASSUME Inv, elapsed' = elapsed, stage' = stage, active' = active, spent' = spent,
         mode' \in Busy => mode \in Busy
  PROVE  Time'
BY TimeFrame DEF Inv

\* The numbers of a step that the driver is on.
LEMMA StepNumbers ==
  ASSUME Inv, mode \in Busy \cup {"ended"}
  PROVE  /\ step \in 1..(Len(playing.steps) + 1) /\ Len(playing.steps) \in Nat
         /\ asked \in 0..Attempts /\ spent \in 0..Deadline /\ elapsed \in Nat
         /\ virtual_blocked \subseteq Commands /\ active \in Commands
         /\ mode \in {"running", "blocked"} => active \in ready
         /\ step <= Len(playing.steps) =>
              /\ playing.steps[step] \in Steps
              /\ step + 1 \in 1..(Len(playing.steps) + 1)
<1>1. Len(playing.steps) \in Nat /\ \A i \in 1..Len(playing.steps) : playing.steps[i] \in Steps
  BY ExpectationFacts DEF Inv, Shape
<1>2. step \in 1..(Len(playing.steps) + 1)
  BY DEF Inv, Current
<1>3. active \in Commands
  BY ActiveFacts DEF Inv, Busy
<1> QED BY <1>1, <1>2, <1>3 DEF Inv, Shape, Current

LEMMA AuthenticationKeepsInv ==
  ASSUME Inv, Asks \/ Authenticated
  PROVE  Inv'
<1>1. mode = "asking" /\ mode \in Busy
  BY DEF Asks, Authenticated, Busy
<1>2. /\ UNCHANGED scenario_vars /\ stage' = stage /\ left' = left /\ active' = active
      /\ playing' = playing /\ wait' = wait /\ virtual_blocked' = virtual_blocked /\ step' = step
      /\ spent' = spent /\ elapsed' = elapsed
  BY DEF Asks, Authenticated, session_vars, play_vars, flags
<1>3. asked' \in 0..Attempts
  BY <1>1, StepNumbers, ConstantFacts DEF Asks, Authenticated, play_vars
<1>4. /\ mode' \in Busy \cup {"ended"} /\ ready \subseteq ready'
      /\ mode' \in {"running", "blocked"} => active \in ready'
      /\ \/ outcome' = outcome
         \/ mode' = "ended" /\ \E v \in Verdicts : outcome' = [outcome EXCEPT ![active] = v]
  BY <1>1 DEF Asks, Authenticated, Yields, Busy, Verdicts, flags
<1>5. Shape' /\ Current' /\ Ordered' /\ Ledger'
  BY <1>1, <1>2, <1>3, <1>4, StepNumbers, StepKeeps
<1>6. Flagged'
  BY <1>1, <1>2, <1>4, FlagFrame
<1>7. Time'
  BY <1>1, <1>2, TimeStands
<1> QED BY <1>5, <1>6, <1>7 DEF Inv

LEMMA PlayAdvanceKeepsInv ==
  ASSUME Inv, PlayAdvance
  PROVE  Inv'
<1>1. /\ mode = "running" /\ mode \in Busy /\ step <= Len(playing.steps)
      /\ UNCHANGED scenario_vars /\ stage' = stage /\ left' = left /\ active' = active
      /\ playing' = playing /\ wait' = wait /\ virtual_blocked' = virtual_blocked /\ ready' = ready
      /\ asked' = asked
  BY DEF PlayAdvance, Playing, Busy, session_vars, flags
<1>2. /\ mode' \in {"running", "ended"}
      /\ \/ outcome' = outcome
         \/ mode' = "ended" /\ \E v \in Verdicts : outcome' = [outcome EXCEPT ![active] = v]
      /\ step' \in {step, step + 1}
  BY <1>1 DEF PlayAdvance, Raises, Yields, Verdicts
<1>3. Time' /\ elapsed' \in Nat /\ spent' \in 0..Deadline
  BY TimeAdvances DEF Inv
<1>4. Shape' /\ Current' /\ Ordered' /\ Ledger'
  BY <1>1, <1>2, <1>3, StepNumbers, StepKeeps DEF Busy
<1>5. Flagged'
  BY <1>1, <1>2, FlagFrame
<1> QED BY <1>3, <1>4, <1>5 DEF Inv

LEMMA PlayKeepsInv ==
  ASSUME Inv, PlayEmit \/ PlayFailure \/ PlayEnds
  PROVE  Inv'
<1>1. /\ mode = "running" /\ mode \in Busy
      /\ UNCHANGED scenario_vars /\ stage' = stage /\ left' = left /\ active' = active
      /\ playing' = playing /\ wait' = wait /\ virtual_blocked' = virtual_blocked /\ ready' = ready
      /\ asked' = asked /\ spent' = spent /\ elapsed' = elapsed
  BY DEF PlayEmit, PlayFailure, PlayEnds, Playing, Busy, session_vars, play_vars, flags
<1>2. step' = step \/ (step <= Len(playing.steps) /\ step' = step + 1)
  BY DEF PlayEmit, PlayFailure, PlayEnds, Playing, play_vars
<1>3. /\ mode' \in {"running", "ended"}
      /\ \/ outcome' = outcome
         \/ mode' = "ended" /\ \E v \in Verdicts : outcome' = [outcome EXCEPT ![active] = v]
  <2>1. CASE PlayEmit
    BY <1>1, <2>1 DEF PlayEmit
  <2>2. CASE PlayFailure
    <3>1. playing.steps[step].failure \in Verdicts
      <4>1. playing.steps[step].kind = "failure" /\ step <= Len(playing.steps)
        BY <2>2 DEF PlayFailure, Playing
      <4> QED BY <1>1, <4>1, StepNumbers, StepFacts DEF Verdicts
    <3> QED BY <1>1, <2>2, <3>1 DEF PlayFailure, Raises, Yields
  <2>3. CASE PlayEnds
    BY <1>1, <2>3 DEF PlayEnds, Raises, Yields, Verdicts
  <2> QED BY <2>1, <2>2, <2>3
<1>4. Shape' /\ Current' /\ Ordered' /\ Ledger'
  BY <1>1, <1>2, <1>3, StepNumbers, StepKeeps DEF Busy
<1>5. Flagged'
  BY <1>1, <1>3, FlagFrame
<1>6. Time'
  BY <1>1, TimeStands
<1> QED BY <1>4, <1>5, <1>6 DEF Inv

\* The driver marks its command as blocked only when there is no input.
LEMMA PlayReceiveKeepsInv ==
  ASSUME Inv, PlayReceive
  PROVE  Inv'
<1>1. /\ mode = "running" /\ mode \in Busy /\ step <= Len(playing.steps)
      /\ UNCHANGED scenario_vars /\ stage' = stage /\ left' = left /\ active' = active
      /\ playing' = playing /\ wait' = wait /\ ready' = ready
      /\ asked' = asked /\ spent' = spent /\ elapsed' = elapsed
  BY DEF PlayReceive, Playing, Busy, session_vars
<1>2. CASE inputs = <<>>
  <2>1. /\ virtual_blocked' = virtual_blocked \cup {active} /\ mode' = "blocked"
        /\ inputs' = inputs /\ step' = step /\ outcome' = outcome
    BY <1>2 DEF PlayReceive
  <2>2. Shape' /\ Current' /\ Ordered' /\ Ledger'
    BY <1>1, <2>1, StepNumbers, StepKeeps DEF Busy
  <2>3. Flagged'
    BY <1>1, <1>2, <2>1, StepNumbers DEF Flagged, Inv
  <2> QED BY <1>1, <2>2, <2>3, TimeStands DEF Inv
<1>3. CASE inputs # <<>>
  <2>1. /\ virtual_blocked' = virtual_blocked /\ mode' \in {"running", "ended"}
        /\ step' \in {step, step + 1}
        /\ \/ outcome' = outcome
           \/ mode' = "ended" /\ \E v \in Verdicts : outcome' = [outcome EXCEPT ![active] = v]
    BY <1>1, <1>3 DEF PlayReceive, Raises, Yields, Verdicts
  <2>2. Shape' /\ Current' /\ Ordered' /\ Ledger'
    BY <1>1, <2>1, StepNumbers, StepKeeps DEF Busy
  <2>3. Flagged'
    BY <1>1, <2>1, FlagFrame
  <2> QED BY <1>1, <2>2, <2>3, TimeStands DEF Inv
<1> QED BY <1>2, <1>3

LEMMA ResumeKeepsInv ==
  ASSUME Inv, Resume
  PROVE  Inv'
<1>1. /\ mode = "blocked" /\ mode' = "running" /\ mode \in Busy /\ inputs # <<>>
      /\ UNCHANGED scenario_vars /\ stage' = stage /\ left' = left /\ active' = active
      /\ playing' = playing /\ wait' = wait /\ ready' = ready /\ step' = step /\ outcome' = outcome
      /\ virtual_blocked' = virtual_blocked
      /\ asked' = asked /\ spent' = spent /\ elapsed' = elapsed
  BY DEF Resume, Busy, session_vars, play_vars, flags
<1>2. Shape' /\ Current' /\ Ordered' /\ Ledger'
  BY <1>1, StepNumbers, StepKeeps DEF Busy
<1>3. Flagged'
  BY <1>1 DEF Flagged, Inv
<1> QED BY <1>1, <1>2, <1>3, TimeStands DEF Inv

LEMMA StopKeepsInv ==
  ASSUME Inv, Stop
  PROVE  Inv'
<1>1. /\ mode \in {"asking", "blocked", "ended"} /\ mode' = "ended"
      /\ mode \in Busy \cup {"ended"} /\ outcome' = [outcome EXCEPT ![active] = "stopped"]
      /\ UNCHANGED scenario_vars /\ stage' = stage /\ left' = left /\ active' = active
      /\ playing' = playing /\ wait' = wait /\ ready' = ready /\ step' = step
      /\ virtual_blocked' = virtual_blocked
      /\ asked' = asked /\ spent' = spent /\ elapsed' = elapsed
  BY DEF Stop, Raises, Yields, Busy, session_vars, play_vars, flags
<1>2. "stopped" \in Verdicts /\ "ended" \notin Busy
  BY DEF Verdicts, Busy
<1>3. Shape' /\ Current' /\ Ordered' /\ Ledger'
  BY <1>1, <1>2, StepNumbers, StepKeeps
<1>4. Flagged'
  <2>1. ASSUME NEW c \in virtual_blocked PROVE outcome'[c] \notin {"none", "exited"}
    <3>1. c \in Commands /\ (c = active \/ outcome[c] \notin {"none", "exited"})
      BY DEF Inv, Shape, Flagged
    <3> QED BY <1>1, <3>1 DEF Inv, Shape
  <2> QED BY <1>1, <2>1 DEF Flagged, Inv
<1> QED BY <1>1, <1>2, <1>3, <1>4, TimeStands DEF Inv

-----------------------------------------------------------------------------
(* Commands, input and waits.                                               *)

\* Steps that touch neither the driver nor the stage of a command.
LEMMA QuietKeeps ==
  ASSUME Inv, UNCHANGED <<scenario_vars, stage, play_vars, ready, outcome, mode>>,
         virtual_blocked' \subseteq virtual_blocked,
         wait' \in [Watched -> {"none", "awaiting", "watching", "expired", "returned"}]
  PROVE  /\ Shape' /\ Current' /\ Ordered' /\ Time'
         /\ (left' \in {"consumed", "unconsumed"} => left' = left) => Ledger'
<1> USE DEF Inv
<1>1. /\ UNCHANGED scenario_vars /\ stage' = stage /\ active' = active /\ playing' = playing
      /\ asked' = asked /\ step' = step /\ spent' = spent /\ elapsed' = elapsed
      /\ ready' = ready /\ outcome' = outcome /\ mode' = mode
  BY DEF play_vars
<1>2. Shape'
  BY <1>1 DEF Shape, scenario_vars
<1>3. Current' /\ Ordered'
  BY <1>1 DEF Current, Ordered
<1>4. Time'
  BY <1>1, TimeStands
<1>5. ASSUME left' \in {"consumed", "unconsumed"} => left' = left PROVE Ledger'
  <2>1. \A c \in Commands : (Accepted(c)' <=> Accepted(c)) /\ (c \in Pending' => c \in Pending)
    BY <1>1 DEF Accepted, Pending
  <2>2. mode' \in Busy => playing' = reservation[active']
    BY <1>1 DEF Ledger
  <2> QED BY <1>1, <1>5, <2>1, <2>2, LedgerFrame
<1> QED BY <1>2, <1>3, <1>4, <1>5

LEMMA SendKeepsInv ==
  ASSUME Inv, NEW chunk, Send(chunk)
  PROVE  Inv'
<1>1. /\ UNCHANGED <<scenario_vars, stage, play_vars, ready, outcome, mode>>
      /\ virtual_blocked' = virtual_blocked \ {active} /\ wait' = wait /\ left' = left
  BY DEF Send, session_vars
<1>2. wait' \in [Watched -> {"none", "awaiting", "watching", "expired", "returned"}]
  BY <1>1 DEF Inv, Shape
<1>3. virtual_blocked' \subseteq virtual_blocked
  BY <1>1
<1>4. Flagged'
  BY <1>1 DEF Flagged, Inv
<1> QED BY <1>1, <1>2, <1>3, <1>4, QuietKeeps DEF Inv

LEMMA WaitsKeepInv ==
  ASSUME Inv, NEW c \in Watched, BeginWait(c) \/ CheckWait(c) \/ EndWait(c)
  PROVE  Inv'
<1>1. PICK to \in {"awaiting", "watching", "expired", "returned"} : Waits(c, to)
  BY DEF BeginWait, CheckWait, EndWait
<1>2. /\ UNCHANGED <<scenario_vars, stage, play_vars, ready, outcome, mode>>
      /\ virtual_blocked' = virtual_blocked /\ left' = left /\ active' = active /\ inputs' = inputs
      /\ wait' = [wait EXCEPT ![c] = to]
  BY <1>1 DEF Waits, session_vars, flags, play_vars, input_vars
<1>3. wait' \in [Watched -> {"none", "awaiting", "watching", "expired", "returned"}]
  BY <1>2 DEF Inv, Shape
<1>4. Flagged'
  BY <1>2 DEF Flagged, Inv
<1> QED BY <1>2, <1>3, <1>4, QuietKeeps DEF Inv

LEMMA LeavingKeepsInv ==
  ASSUME Inv, Leave \/ Left
  PROVE  Inv'
<1>1. /\ UNCHANGED <<scenario_vars, stage, play_vars, ready, outcome, mode>>
      /\ virtual_blocked' = virtual_blocked /\ wait' = wait /\ active' = active
      /\ inputs' \in {inputs, <<>>}
  BY DEF Leave, Left, session_vars, flags, play_vars, input_vars
<1>2. wait' \in [Watched -> {"none", "awaiting", "watching", "expired", "returned"}]
  BY <1>1 DEF Inv, Shape
<1>3. Flagged'
  BY <1>1 DEF Flagged, Inv
<1>4. Ledger'
  <2>1. CASE Leave
    BY <1>1, <1>2, <2>1, QuietKeeps DEF Leave
  <2>2. CASE Left
    <3>1. /\ Pending = {} /\ left' = IF strict /\ cursor # Len(expectations) THEN "unconsumed" ELSE "consumed"
          /\ cursor' = cursor /\ strict' = strict /\ expectations' = expectations
          /\ reservation' = reservation /\ stage' = stage
      BY <2>2 DEF Left, scenario_vars
    <3>2. Pending' = {} /\ AcceptedOnes' = AcceptedOnes
      BY <3>1 DEF Pending, AcceptedOnes, Accepted
    <3>3. \A c \in Commands : (Accepted(c)' <=> Accepted(c)) /\ Place(c)' = Place(c)
      BY <3>1 DEF Accepted, Place
    <3>4. mode' \in Busy => playing' = reservation'[active']
      BY <1>1, <3>1 DEF Ledger, Inv, play_vars
    <3> QED BY <3>1, <3>2, <3>3, <3>4 DEF Ledger, Inv
  <2> QED BY <2>1, <2>2
<1> QED BY <1>1, <1>2, <1>3, <1>4, QuietKeeps DEF Inv

LEMMA SubmitKeepsInv ==
  ASSUME Inv, NEW c \in Commands, Submit(c)
  PROVE  Inv'
<1> USE DEF Inv
<1>1. /\ stage[c] = "unknown" /\ \A d \in 1..(c - 1) : stage[d] # "unknown"
      /\ expectations' = expectations /\ strict' = strict
      /\ active' = active /\ playing' = playing /\ asked' = asked /\ step' = step /\ spent' = spent
      /\ elapsed' = elapsed /\ ready' = ready /\ virtual_blocked' = virtual_blocked
      /\ outcome' = outcome /\ mode' = mode /\ wait' = wait /\ inputs' = inputs
  BY DEF Submit, play_vars, flags, input_vars
<1>2. PICK to \in {"queued", "refused"} : stage' = [stage EXCEPT ![c] = to]
  BY DEF Submit, Moves
<1>3. /\ stage' \in [Commands -> Stages] /\ stage'[c] = to
      /\ \A d \in Commands : d # c => stage'[d] = stage[d]
  BY <1>2 DEF Shape, Stages
<1>4. Ledger' /\ cursor' \in 0..Len(expectations) /\ reservation' \in [Commands -> Expectation]
  BY LedgerGrows
<1>5. Shape'
  BY <1>1, <1>3, <1>4 DEF Shape
<1>6. Current'
  <2>1. mode # "off" => active # c /\ active \in Commands
    BY <1>1, ActiveFacts DEF Current, Shape, Busy
  <2> QED BY <1>1, <1>3, <2>1 DEF Current, Busy
<1>7. Flagged'
  BY <1>1 DEF Flagged
<1>8. Ordered'
  <2>1. ASSUME NEW e \in Commands, NEW d \in Commands, d < e, stage'[e] # "unknown"
        PROVE  stage'[d] # "unknown"
    <3>1. CASE e = c
      <4>1. d \in 1..(c - 1) /\ d # c
        BY <2>1, <3>1, CommandFacts
      <4> QED BY <1>1, <1>3, <4>1
    <3>2. CASE e # c
      BY <1>3, <2>1, <3>2 DEF Ordered
    <3> QED BY <3>1, <3>2
  <2> QED BY <2>1 DEF Ordered
<1>9. Time'
  <2>1. \A d \in Commands :
           stage[d] \notin {"unknown", "queued"} => stage'[d] \notin {"unknown", "queued"}
    BY <1>1, <1>3
  <2> QED BY <1>1, <2>1, TimeFrame
<1> QED BY <1>4, <1>5, <1>6, <1>7, <1>8, <1>9

\* A command moves on from a stage where it is accepted to another one.
LEMMA MoveKeeps ==
  ASSUME Inv, NEW c \in Commands, NEW to \in {"active", "ending", "finished"},
         stage[c] \notin {"unknown", "refused"}, stage' = [stage EXCEPT ![c] = to],
         to = "finished" \/ stage[c] \in {"queued", "active", "ending"},
         UNCHANGED scenario_vars, left' = left,
         mode' \in Busy => playing' = reservation[active']
  PROVE  /\ Ordered' /\ Ledger' /\ stage' \in [Commands -> Stages] /\ stage'[c] = to
         /\ \A d \in Commands : /\ d # c => stage'[d] = stage[d]
                                /\ stage[d] \notin {"unknown", "queued"} =>
                                      stage'[d] \notin {"unknown", "queued"}
<1> USE DEF Inv
<1>1. /\ stage' \in [Commands -> Stages] /\ stage'[c] = to
      /\ \A d \in Commands : d # c => stage'[d] = stage[d]
  BY DEF Shape, Stages
<1>2. \A d \in Commands : stage'[d] = "unknown" <=> stage[d] = "unknown"
  BY <1>1
<1>3. Ordered'
  BY <1>2 DEF Ordered
<1>4. \A d \in Commands : (Accepted(d)' <=> Accepted(d)) /\ (d \in Pending' => d \in Pending)
  BY <1>1 DEF Accepted, Pending
<1>5. Ledger'
  BY <1>4, LedgerFrame
<1> QED BY <1>1, <1>3, <1>5

LEMMA SkipKeepsInv ==
  ASSUME Inv, NEW c \in Commands, Skip(c)
  PROVE  Inv'
<1> USE DEF Inv
<1>1. /\ stage[c] = "queued" /\ stage' = [stage EXCEPT ![c] = "ending"]
      /\ outcome' = [outcome EXCEPT ![c] = "stopped"] /\ ready' = ready \cup {c}
      /\ UNCHANGED scenario_vars /\ left' = left
      /\ active' = active /\ playing' = playing /\ asked' = asked /\ step' = step /\ spent' = spent
      /\ elapsed' = elapsed /\ virtual_blocked' = virtual_blocked
      /\ mode' = mode /\ wait' = wait /\ inputs' = inputs
  BY DEF Skip, Moves, play_vars, input_vars
<1>2. mode' \in Busy => playing' = reservation[active']
  BY <1>1 DEF Ledger
<1>3. /\ Ordered' /\ Ledger' /\ stage' \in [Commands -> Stages] /\ stage'[c] = "ending"
      /\ \A d \in Commands : /\ d # c => stage'[d] = stage[d]
                             /\ stage[d] \notin {"unknown", "queued"} =>
                                   stage'[d] \notin {"unknown", "queued"}
  BY <1>1, <1>2, MoveKeeps
<1>4. /\ outcome' \in [Commands -> Verdicts] /\ outcome'[c] = "stopped"
      /\ \A d \in Commands : d # c => outcome'[d] = outcome[d]
  BY <1>1 DEF Shape, Verdicts
<1>5. Shape'
  BY <1>1, <1>3, <1>4 DEF Shape, scenario_vars
<1>6. mode # "off" => active # c /\ active \in Commands
  BY <1>1, ActiveFacts DEF Current, Shape, Busy
<1>7. Current'
  BY <1>1, <1>3, <1>4, <1>6 DEF Current, Busy
<1>8. Flagged'
  <2>1. ASSUME NEW d \in virtual_blocked PROVE d \in Commands
    BY DEF Shape
  <2> QED BY <1>1, <1>4, <2>1 DEF Flagged
<1>9. Time'
  BY <1>1, <1>3, TimeFrame
<1> QED BY <1>3, <1>5, <1>7, <1>8, <1>9

LEMMA PrepareKeepsInv ==
  ASSUME Inv, NEW c \in Commands, Prepare(c)
  PROVE  Inv'
<1> USE DEF Inv
<1>1. /\ mode = "off" /\ stage[c] = "queued" /\ stage' = [stage EXCEPT ![c] = "active"]
      /\ active' = c /\ playing' = reservation[c] /\ asked' = 0 /\ step' = 1 /\ spent' = 0
      /\ UNCHANGED scenario_vars /\ left' = left /\ elapsed' = elapsed
      /\ virtual_blocked' = virtual_blocked /\ outcome' = outcome /\ wait' = wait
  BY DEF Prepare, Moves, Adopt
<1>2. mode' \in {"asking", "running"} /\ ready \subseteq ready' /\ (mode' = "running" => c \in ready')
  BY DEF Prepare
<1>3. /\ Ordered' /\ Ledger' /\ stage' \in [Commands -> Stages] /\ stage'[c] = "active"
      /\ \A d \in Commands : d # c => stage'[d] = stage[d]
  BY <1>1, MoveKeeps
<1>4. playing' \in Expectation /\ Len(playing'.steps) \in Nat
  <2>1. reservation[c] \in Expectation
    BY DEF Shape
  <2> QED BY <1>1, <2>1, ExpectationFacts
<1>5. Shape'
  <2>1. asked' \in 0..Attempts /\ spent' \in 0..Deadline /\ step' \in Nat
    BY <1>1, ConstantFacts
  <2>2. mode' \in Busy \cup {"off", "ended", "over"} /\ active' \in Commands \cup {0}
    BY <1>1, <1>2 DEF Busy
  <2> QED BY <1>1, <1>3, <1>4, <2>1, <2>2 DEF Shape, scenario_vars
<1>6. Current'
  <2>1. \A d \in Commands : stage[d] # "active" /\ c # 0
    BY <1>1, CommandFacts DEF Current
  <2>2. outcome'[c] = "none" /\ step' \in 1..(Len(playing'.steps) + 1)
    BY <1>1, <1>4 DEF Current
  <2> QED BY <1>1, <1>2, <1>3, <2>1, <2>2 DEF Current, Busy
<1>7. Flagged'
  BY <1>1, <1>2 DEF Flagged
<1> QED BY <1>3, <1>5, <1>6, <1>7, TimeBegins

LEMMA FinalizeKeepsInv ==
  ASSUME Inv, Finalize
  PROVE  Inv'
<1> USE DEF Inv
<1>1. /\ mode = "ended" /\ mode' = "over" /\ stage' = [stage EXCEPT ![active] = "ending"]
      /\ playing' = NoExpectation /\ asked' = 0 /\ step' = 0 /\ spent' = 0
      /\ UNCHANGED scenario_vars /\ left' = left /\ elapsed' = elapsed /\ active' = active
      /\ virtual_blocked' = virtual_blocked /\ wait' = wait /\ ready' = ready \cup {active}
  BY DEF Finalize, Moves
<1>2. active \in Commands /\ stage[active] = "active"
  BY <1>1, ActiveFacts DEF Current
<1>3. mode' \notin Busy
  BY <1>1 DEF Busy
<1>4. /\ Ordered' /\ Ledger' /\ stage' \in [Commands -> Stages] /\ stage'[active] = "ending"
      /\ \A d \in Commands : /\ d # active => stage'[d] = stage[d]
                             /\ stage[d] \notin {"unknown", "queued"} =>
                                   stage'[d] \notin {"unknown", "queued"}
  BY <1>1, <1>2, <1>3, MoveKeeps
<1>5. outcome' = outcome \/ outcome' = [outcome EXCEPT ![active] = "output_failure"]
  BY DEF Finalize, Yields
<1>6. /\ outcome' \in [Commands -> Verdicts]
      /\ \A d \in Commands : d # active => outcome'[d] = outcome[d]
      /\ outcome'[active] \in {outcome[active], "output_failure"}
  BY <1>2, <1>5 DEF Shape, Verdicts
<1>7. Shape'
  <2>1. asked' \in 0..Attempts /\ spent' \in 0..Deadline /\ step' \in Nat
    BY <1>1, ConstantFacts
  <2> QED BY <1>1, <1>4, <1>6, <2>1, ExpectationFacts DEF Shape, scenario_vars
<1>8. Current'
  <2>1. \A d \in Commands : stage'[d] # "active"
    BY <1>2, <1>4 DEF Current
  <2>2. mode' # "off" /\ active' # 0
    BY <1>1, <1>2, CommandFacts
  <2> QED BY <1>1, <1>2, <1>3, <1>4, <1>6, <2>1, <2>2 DEF Current
<1>9. Flagged'
  <2>1. ASSUME NEW c \in virtual_blocked
        PROVE  c \in ready' /\ outcome'[c] \notin {"none", "exited"}
    <3>1. c \in Commands /\ c \in ready /\ outcome[c] \notin {"none", "exited"}
      BY <1>1 DEF Shape, Flagged
    <3> QED BY <1>1, <1>6, <3>1
  <2> QED BY <1>1, <2>1 DEF Flagged
<1>10. Time'
  BY <1>1, <1>3, <1>4, TimeFrame
<1> QED BY <1>4, <1>7, <1>8, <1>9, <1>10

LEMMA FinishKeepsInv ==
  ASSUME Inv, NEW c \in Commands, Finish(c)
  PROVE  Inv'
<1> USE DEF Inv
<1>1. /\ stage[c] = "ending" /\ stage' = [stage EXCEPT ![c] = "finished"]
      /\ UNCHANGED scenario_vars /\ left' = left /\ elapsed' = elapsed
      /\ playing' = playing /\ asked' = asked /\ step' = step /\ spent' = spent
      /\ virtual_blocked' = virtual_blocked /\ wait' = wait /\ ready' = ready /\ outcome' = outcome
      /\ inputs' = inputs
  BY DEF Finish, Moves, flags
<1>2. \/ c = active /\ mode' = "off" /\ active' = 0
      \/ c # active /\ mode' = mode /\ active' = active
  BY DEF Finish
<1>3. c = active => mode = "over"
  BY <1>1, CommandFacts DEF Current, Shape
<1>4. mode' \in Busy => mode \in Busy /\ active' = active /\ c # active
  BY <1>2 DEF Busy
<1>5. /\ Ordered' /\ Ledger' /\ stage' \in [Commands -> Stages] /\ stage'[c] = "finished"
      /\ \A d \in Commands : /\ d # c => stage'[d] = stage[d]
                             /\ stage[d] \notin {"unknown", "queued"} =>
                                   stage'[d] \notin {"unknown", "queued"}
  <2>1. mode' \in Busy => playing' = reservation[active']
    BY <1>1, <1>4 DEF Ledger
  <2> QED BY <1>1, <2>1, MoveKeeps
<1>6. Shape'
  BY <1>1, <1>2, <1>5 DEF Shape, scenario_vars
<1>7. Current'
  <2>1. CASE c = active
    <3>1. mode' = "off" /\ active' = 0 /\ \A d \in Commands : stage'[d] # "active"
      BY <1>1, <1>2, <1>5, <2>1 DEF Current
    <3> QED BY <1>1, <1>5, <3>1 DEF Current, Busy
  <2>2. CASE c # active
    <3>1. mode' = mode /\ active' = active
      BY <1>2, <2>2
    <3>2. mode # "off" => active \in Commands
      BY ActiveFacts
    <3> QED BY <1>1, <1>5, <2>2, <3>1, <3>2 DEF Current, Busy
  <2> QED BY <2>1, <2>2
<1>8. Flagged'
  BY <1>1, <1>2, <1>3 DEF Flagged
<1>9. Time'
  BY <1>1, <1>4, <1>5, TimeFrame
<1> QED BY <1>5, <1>6, <1>7, <1>8, <1>9

-----------------------------------------------------------------------------
(* The theorems.                                                            *)

LEMMA InvInit ==
  ASSUME Init
  PROVE  Inv
<1>1. expectations \in Seq(Expectation) /\ Len(expectations) \in Nat
  BY ConstantFacts, LenProperties DEF Init
<1>2. \A c \in Commands : stage[c] = "unknown" /\ outcome[c] = "none"
  BY DEF Init
<1>3. Shape
  <2>1. stage \in [Commands -> Stages] /\ outcome \in [Commands -> Verdicts]
    BY DEF Init, Stages, Verdicts
  <2>2. reservation \in [Commands -> Expectation] /\ playing \in Expectation
    BY ExpectationFacts DEF Init
  <2>3. cursor \in 0..Len(expectations) /\ strict \in BOOLEAN
    BY <1>1 DEF Init
  <2>4. asked \in 0..Attempts /\ spent \in 0..Deadline /\ elapsed \in Nat /\ step \in Nat
    BY ConstantFacts DEF Init
  <2> QED BY <1>1, <2>1, <2>2, <2>3, <2>4 DEF Shape, Init
<1>4. Current
  BY <1>2 DEF Init, Current, Busy
<1>5. Flagged /\ Ordered
  BY <1>2 DEF Init, Flagged, Ordered
<1>6. Time
  <2>1. 0 \in 0..Len(Submissions) /\ \A d \in Commands : ~(d <= 0)
    BY CommandFacts
  <2>2. Timed(0)
    BY <2>1, ConstantFacts DEF Init, Timed, Busy
  <2> QED BY <2>1, <2>2 DEF Time
<1>7. Ledger
  <2>1. AcceptedOnes = {} /\ \A c \in Commands : ~Accepted(c)
    BY <1>2 DEF AcceptedOnes, Accepted
  <2> QED BY <2>1, FS_EmptySet DEF Ledger, Init, Busy
<1> QED BY <1>3, <1>4, <1>5, <1>6, <1>7 DEF Inv

LEMMA InvNext ==
  ASSUME Inv, [Next]_vars
  PROVE  Inv'
<1>1. ASSUME UNCHANGED vars PROVE Inv'
  <2>1. /\ UNCHANGED <<scenario_vars, stage, play_vars, ready, outcome, mode>>
        /\ virtual_blocked' = virtual_blocked /\ wait' = wait /\ left' = left
        /\ active' = active /\ inputs' = inputs
    BY <1>1 DEF vars, session_vars, flags, play_vars, input_vars
  <2>2. wait' \in [Watched -> {"none", "awaiting", "watching", "expired", "returned"}]
    BY <2>1 DEF Inv, Shape
  <2>3. Flagged'
    BY <2>1 DEF Inv, Flagged
  <2> QED BY <2>1, <2>2, <2>3, QuietKeeps DEF Inv
<1>2. ASSUME Driver PROVE Inv'
  BY <1>2, AuthenticationKeepsInv, PlayAdvanceKeepsInv, PlayKeepsInv, PlayReceiveKeepsInv,
     ResumeKeepsInv, StopKeepsInv, FinalizeKeepsInv, SendKeepsInv DEF Driver
<1> QED BY <1>1, <1>2, SubmitKeepsInv, SkipKeepsInv, PrepareKeepsInv, FinishKeepsInv, WaitsKeepInv,
           LeavingKeepsInv DEF Next

LEMMA Invariance == Spec => []Inv
<1>1. Init => Inv
  BY InvInit
<1>2. Inv /\ [Next]_vars => Inv'
  BY InvNext
<1> QED BY <1>1, <1>2, PTL DEF Spec

\* The commands that have run account for the virtual time.
LEMMA TimeIsBounded ==
  ASSUME Inv
  PROVE  elapsed \in 0..(Len(Submissions) * Deadline)
<1>1. PICK n \in 0..Len(Submissions) : Timed(n)
  BY DEF Inv, Time
<1>2. n \in Nat /\ n <= Len(Submissions) /\ Len(Submissions) \in Nat
  BY CommandFacts
<1>3. PICK limit \in Nat, whole \in Nat : limit = n * Deadline /\ whole = Len(Submissions) * Deadline
  BY <1>2, Products
<1>4. limit <= whole
  BY <1>2, <1>3, Products
<1>5. elapsed \in Nat /\ spent \in 0..Deadline /\ Deadline \in Nat
  BY ConstantFacts DEF Inv, Shape
<1>6. elapsed + Deadline <= limit + spent \/ elapsed <= limit
  BY <1>1, <1>3 DEF Timed
<1>7. elapsed \in 0..whole
  BY <1>4, <1>5, <1>6
<1> QED BY <1>3, <1>7

\* The driver is on a step of what it plays, has used no more virtual time than the deadline,
\* and a session that is left has nothing pending (driver.py:64-123, session.py:__aexit__).
THEOREM TypeInvariance == Spec => []TypeOK
<1>1. ASSUME Inv PROVE TypeOK
  <2> USE <1>1 DEF Inv
  <2>1. elapsed \in 0..(Len(Submissions) * Deadline)
    BY TimeIsBounded
  <2>2. step \in 0..(Len(playing.steps) + 1) \/ mode \in {"off", "over"}
    BY ExpectationFacts DEF Shape, Current, Busy
  <2>3. \A c \in Commands : c \in virtual_blocked => c \in ready
    BY DEF Flagged
  <2>4. \A c \in Commands : stage[c] = "active" => c = active
    BY DEF Current
  <2>5. (mode = "off") = (active = 0)
    BY DEF Current
  <2>6. mode \in {"off", "asking", "running", "blocked", "ended", "over"}
    BY DEF Shape, Busy
  <2>7. left \in {"consumed", "unconsumed"} => Pending = {}
    BY DEF Ledger
  <2> QED BY <2>1, <2>2, <2>3, <2>4, <2>5, <2>6, <2>7 DEF TypeOK, Shape, Stages
<1> QED BY <1>1, Invariance, PTL

\* Expectations are taken at submission: the command that runs plays the one that its place
\* among the accepted submissions gives it, whoever was stopped before it; and a strict
\* session that consumed everything has seen exactly its scenario, in order.
THEOREM ExpectationsAreOwn == Spec => []OwnExpectation
<1>1. ASSUME Inv PROVE OwnExpectation
  <2> USE <1>1 DEF Inv
  <2>1. ASSUME mode \in Busy
        PROVE  /\ playing.command = Submissions[active]
               /\ strict => playing = expectations[Place(active)]
    <3>1. active \in Commands /\ Accepted(active)
      BY <2>1, ActiveFacts DEF Current, Accepted, Busy
    <3> QED BY <2>1, <3>1 DEF Ledger
  <2>2. ASSUME strict, left = "consumed"
        PROVE  /\ Cardinality({c \in Commands : Accepted(c)}) = Len(expectations)
               /\ \A c \in Commands : Accepted(c) => Submissions[c] = expectations[Place(c)].command
    BY <2>2 DEF Ledger, AcceptedOnes
  <2> QED BY <2>1, <2>2 DEF OwnExpectation, Busy
<1> QED BY <1>1, Invariance, PTL

\* A finite wait expires for an earlier command, for input that nobody has sent, or for a
\* command that was given up: never while the mock could have gone on (virtual_wait).
THEOREM WaitsAreHonest == Spec => TimeoutsAreReal
<1> DEFINE Honest == \A c \in Watched :
             wait[c] # "expired" /\ wait'[c] = "expired" =>
               \/ \E d \in Pending : d < c
               \/ c = active /\ mode = "blocked" /\ inputs = <<>>
               \/ outcome[c] \notin {"none", "exited"}
<1>1. ASSUME Inv, [Next]_vars PROVE Honest
  <2>1. CASE wait' = wait
    BY <2>1
  <2>2. ASSUME NEW c \in Watched, BeginWait(c) \/ CheckWait(c) \/ EndWait(c) PROVE Honest
    <3>1. PICK to \in {"awaiting", "watching", "expired", "returned"} : wait' = [wait EXCEPT ![c] = to]
      BY <2>2 DEF BeginWait, CheckWait, EndWait, Waits
    <3>2. wait'[c] = to /\ \A d \in Watched : d # c => wait'[d] = wait[d]
      BY <1>1, <3>1 DEF Inv, Shape
    <3>3. CASE BeginWait(c)
      <4>1. ASSUME wait'[c] = "expired" PROVE \E d \in Pending : d < c
        <5>1. c \in Commands /\ stage[c] \notin {"unknown", "refused", "finished"}
          BY <1>1, <3>2, <3>3, <4>1, ConstantFacts DEF BeginWait, Waits, Inv, Shape
        <5>2. c \in Pending /\ ~First(c)
          BY <1>1, <3>2, <3>3, <4>1, <5>1 DEF BeginWait, Waits, Pending, Inv, Shape, Stages
        <5>3. PICK d \in Pending : ~(c <= d)
          BY <5>2 DEF First
        <5> QED BY <5>1, <5>3, CommandFacts DEF Pending
      <4> QED BY <3>2, <4>1
    <3>4. CASE CheckWait(c)
      <4>1. wait'[c] = "expired" => c \in virtual_blocked
        BY <1>1, <3>4 DEF CheckWait, Waits, Inv, Shape
      <4> QED BY <1>1, <3>2, <4>1 DEF Inv, Flagged
    <3>5. CASE EndWait(c)
      BY <1>1, <3>2, <3>5 DEF EndWait, Waits, Inv, Shape
    <3> QED BY <2>2, <3>3, <3>4, <3>5
  <2>3. ASSUME NEW c \in Commands, Submit(c) \/ Skip(c) \/ Prepare(c) \/ Finish(c) PROVE wait' = wait
    BY <2>3 DEF Submit, Skip, Prepare, Finish
  <2>4. ASSUME Driver \/ Leave \/ Left PROVE wait' = wait
    BY <2>4 DEF Driver, Leave, Left, Asks, Authenticated, PlayEmit, PlayAdvance, PlayFailure,
                PlayReceive, PlayEnds, Resume, Stop, Finalize, Send
  <2>5. ASSUME UNCHANGED vars PROVE wait' = wait
    BY <2>5 DEF vars
  <2> HIDE DEF Honest
  <2> QED BY <1>1, <2>1, <2>2, <2>3, <2>4, <2>5 DEF Next
<1>2. Inv /\ [Next]_vars => [Honest]_vars
  BY <1>1
<1>3. Spec => [][Honest]_vars
  BY <1>2, Invariance, PTL DEF Spec
<1> QED BY <1>3 DEF TimeoutsAreReal

-----------------------------------------------------------------------------
(* Induction over numbers, with a set for the predicate, and recursion.     *)

\* What holds of no number fails at a first one.
LEMMA LeastOfSet ==
  ASSUME NEW T, T \subseteq Nat, T # {}
  PROVE  \E x \in T : \A y \in T : x <= y
<1> DEFINE R == OpToRel(<, Nat)
<1>1. IsWellFoundedOn(R, Nat)
  BY NatLessThanWellFounded
<1>2. \A m, n \in Nat : m < n => <<m, n>> \in R
  BY DEF OpToRel
<1> HIDE DEF R
<1>3. PICK x \in T : \A y \in T : ~(<<y, x>> \in R)
  BY <1>1, WFMin
<1>4. \A y \in T : ~(y < x)
  BY <1>2, <1>3
<1> QED BY <1>3, <1>4

LEMMA SetInduction ==
  ASSUME NEW S, 0 \in S, \A n \in Nat : n \in S => n + 1 \in S
  PROVE  \A n \in Nat : n \in S
<1> DEFINE T == {n \in Nat : n \notin S}
<1>1. SUFFICES ASSUME T # {} PROVE FALSE
  OBVIOUS
<1>2. PICK x \in T : \A y \in T : x <= y
  <2>1. T \subseteq Nat
    OBVIOUS
  <2> HIDE DEF T
  <2> QED BY <1>1, <2>1, LeastOfSet
<1>3. x \in Nat /\ x # 0 /\ x - 1 \in Nat /\ ~(x <= x - 1)
  BY <1>2
<1>4. x - 1 \in S
  BY <1>2, <1>3
<1> QED BY <1>2, <1>3, <1>4

\* f is defined by recursion up to n.
Solves(f, n, base, op) == f[0] = base /\ \A i \in 1..n : f[i] = op[i][f[i - 1]]

\* Such a function exists.
LEMMA Recursion ==
  ASSUME NEW n \in Nat, NEW T, NEW base \in T, NEW op \in [1..n -> [T -> T]]
  PROVE  \E f \in [0..n -> T] : Solves(f, n, base, op)
<1> DEFINE S == {k \in Nat : k <= n => \E f \in [0..k -> T] : Solves(f, k, base, op)}
<1>1. 0 \in S
  <2>1. [i \in 0..0 |-> base] \in [0..0 -> T] /\ Solves([i \in 0..0 |-> base], 0, base, op)
    BY DEF Solves
  <2> QED BY <2>1
<1>2. ASSUME NEW k \in Nat, k \in S PROVE k + 1 \in S
  <2>1. SUFFICES ASSUME k + 1 <= n PROVE \E f \in [0..(k + 1) -> T] : Solves(f, k + 1, base, op)
    OBVIOUS
  <2>2. PICK f \in [0..k -> T] : Solves(f, k, base, op)
    BY <1>2, <2>1
  <2> DEFINE g == [i \in 0..(k + 1) |-> IF i = k + 1 THEN op[k + 1][f[k]] ELSE f[i]]
  <2>3. op[k + 1][f[k]] \in T
    BY <2>1
  <2>4. g \in [0..(k + 1) -> T]
    BY <2>3
  <2>5. g[0] = base
    BY <2>2 DEF Solves
  <2>6. ASSUME NEW i \in 1..(k + 1) PROVE g[i] = op[i][g[i - 1]]
    <3>1. CASE i = k + 1
      BY <3>1
    <3>2. CASE i # k + 1
      <4>1. i \in 1..k /\ i \in 0..(k + 1) /\ i - 1 \in 0..(k + 1) /\ i - 1 # k + 1
        BY <3>2
      <4>2. g[i] = f[i] /\ g[i - 1] = f[i - 1]
        BY <3>2, <4>1
      <4> QED BY <2>2, <4>1, <4>2 DEF Solves
    <3> QED BY <3>1, <3>2
  <2> HIDE DEF g
  <2> QED BY <2>4, <2>5, <2>6 DEF Solves
<1>3. \A k \in Nat : k \in S
  <2> HIDE DEF S
  <2> QED BY <1>1, <1>2, SetInduction
<1> QED BY <1>3

-----------------------------------------------------------------------------
(* Concatenation, as an operator that proofs do not look into.              *)

Cat(a, b) == a \o b

LEMMA CatType ==
  ASSUME NEW S, NEW a \in Seq(S), NEW b \in Seq(S)
  PROVE  Cat(a, b) \in Seq(S)
BY ConcatProperties DEF Cat

LEMMA CatEmpty ==
  ASSUME NEW S, NEW a \in Seq(S)
  PROVE  Cat(a, <<>>) = a /\ Cat(<<>>, a) = a
BY ConcatEmptySeq DEF Cat

LEMMA CatAssociative ==
  ASSUME NEW S, NEW a \in Seq(S), NEW b \in Seq(S), NEW c \in Seq(S)
  PROVE  Cat(Cat(a, b), c) = Cat(a, Cat(b, c))
BY ConcatAssociative DEF Cat

LEMMA CatElements ==
  ASSUME NEW S, NEW a \in Seq(S), NEW b \in Seq(S)
  PROVE  /\ Len(Cat(a, b)) = Len(a) + Len(b) /\ Len(a) \in Nat /\ Len(b) \in Nat
         /\ \A i \in 1..(Len(a) + Len(b)) :
              Cat(a, b)[i] = IF i <= Len(a) THEN a[i] ELSE b[i - Len(a)]
BY ConcatProperties, LenProperties DEF Cat

\* f is a stream that grows by the pieces of s.
Grows(f, n, s) == \A i \in 1..n : f[i] = Cat(f[i - 1], s[i])

LEMMA Agreement ==
  ASSUME NEW n \in Nat, NEW f, NEW g, NEW s,
         f[0] = g[0], Grows(f, n, s), Grows(g, n, s)
  PROVE  \A i \in 0..n : f[i] = g[i]
<1> DEFINE S == {k \in Nat : k <= n => f[k] = g[k]}
<1>1. 0 \in S
  OBVIOUS
<1>2. ASSUME NEW k \in Nat, k \in S PROVE k + 1 \in S
  <2>1. CASE k + 1 <= n
    <3>1. k + 1 \in 1..n /\ (k + 1) - 1 = k /\ k <= n
      BY <2>1
    <3>2. f[k + 1] = Cat(f[k], s[k + 1]) /\ g[k + 1] = Cat(g[k], s[k + 1])
      BY <3>1 DEF Grows
    <3> QED BY <1>2, <3>1, <3>2
  <2> QED BY <2>1
<1>3. \A k \in Nat : k \in S
  <2> HIDE DEF S
  <2> QED BY <1>1, <1>2, SetInduction
<1> QED BY <1>3

-----------------------------------------------------------------------------
(* The concatenation of a sequence of sequences.                            *)

\* f is the concatenation of the first elements of s, as far as it goes.
Flattens(f, s) == f[0] = <<>> /\ Grows(f, Len(s), s)

LEMMA FlattenEquation ==
  ASSUME NEW S, NEW s \in Seq(Seq(S))
  PROVE  \E f \in [0..Len(s) -> Seq(S)] : Flattens(f, s) /\ FlattenSeq(s) = f[Len(s)]
<1> DEFINE T == Seq(S)
<1>1. Len(s) \in Nat /\ \A i \in 1..Len(s) : s[i] \in T
  BY LenProperties, ElementOfSeq
<1>2. <<>> \in T /\ \A t \in T, i \in 1..Len(s) : Cat(t, s[i]) \in T
  BY <1>1, EmptySeq, CatType
<1>3. PICK f \in [0..Len(s) -> T] : Flattens(f, s)
  <2> DEFINE op == [i \in 1..Len(s) |-> [t \in T |-> Cat(t, s[i])]]
  <2>1. op \in [1..Len(s) -> [T -> T]]
    BY <1>2
  <2>2. \A i \in 1..Len(s), t \in T : op[i][t] = Cat(t, s[i])
    OBVIOUS
  <2> HIDE DEF op
  <2>3. PICK f \in [0..Len(s) -> T] : Solves(f, Len(s), <<>>, op)
    <3> HIDE DEF T
    <3> QED BY <1>1, <1>2, <2>1, Recursion
  <2>4. \A i \in 1..Len(s) : f[i - 1] \in T
    <3>1. \A i \in 1..Len(s) : i - 1 \in 0..Len(s)
      BY <1>1
    <3> QED BY <3>1
  <2> QED BY <2>2, <2>3, <2>4 DEF Flattens, Grows, Solves
<1>4. CASE Len(s) = 0
  <2>1. FlattenSeq(s) = s /\ s = <<>>
    BY <1>4, EmptySeq DEF FlattenSeq
  <2> QED BY <1>3, <1>4, <2>1 DEF Flattens
<1>5. CASE Len(s) # 0
  <2> DEFINE n == Len(s)
             h == CHOOSE flatten :
                    flatten = [i \in 1..n |-> IF i = 1 THEN s[i] ELSE Cat(flatten[i - 1], s[i])]
             g == [i \in 1..n |-> f[i]]
  <2>1. g = [i \in 1..n |-> IF i = 1 THEN s[i] ELSE Cat(g[i - 1], s[i])]
    <3>1. ASSUME NEW i \in 1..n PROVE g[i] = IF i = 1 THEN s[i] ELSE Cat(g[i - 1], s[i])
      <4>1. CASE i = 1
        <5>1. f[1] = Cat(f[0], s[1]) /\ f[0] = <<>> /\ s[1] \in Seq(S)
          <6>1. 1 \in 1..Len(s) /\ 1 - 1 = 0
            BY <1>1, <4>1
          <6> QED BY <1>1, <1>3, <6>1 DEF Flattens, Grows
        <5>2. Cat(<<>>, s[1]) = s[1]
          BY <5>1, CatEmpty
        <5> QED BY <4>1, <5>1, <5>2
      <4>2. CASE i # 1
        <5>1. i - 1 \in 1..n
          BY <1>1, <4>2
        <5>2. g[i - 1] = f[i - 1] /\ g[i] = f[i]
          BY <5>1
        <5> QED BY <1>3, <4>2, <5>2 DEF Flattens, Grows
      <4> QED BY <4>1, <4>2
    <3> QED BY <3>1
  <2>2. h = [i \in 1..n |-> IF i = 1 THEN s[i] ELSE Cat(h[i - 1], s[i])]
    <3> HIDE DEF g
    <3> QED BY <2>1
  <2>3. FlattenSeq(s) = h[n]
    BY <1>5, Zenon DEF FlattenSeq, Cat
  <2> HIDE DEF h
  <2> DEFINE k == [i \in 0..n |-> IF i = 0 THEN <<>> ELSE h[i]]
  <2>4. ASSUME NEW i \in 1..n PROVE k[i] = Cat(k[i - 1], s[i])
    <3>1. CASE i = 1
      <4>1. k[i] = s[i] /\ k[i - 1] = <<>> /\ s[i] \in Seq(S)
        BY <1>1, <2>2, <3>1
      <4> QED BY <4>1, CatEmpty
    <3>2. CASE i # 1
      <4>1. i - 1 \in 1..n /\ i - 1 # 0 /\ i - 1 \in 0..n /\ i # 0 /\ i \in 0..n
        BY <1>1, <3>2
      <4>2. k[i] = h[i] /\ k[i - 1] = h[i - 1]
        BY <4>1
      <4>3. h[i] = Cat(h[i - 1], s[i])
        BY <2>2, <3>2
      <4> QED BY <4>2, <4>3
    <3> QED BY <3>1, <3>2
  <2>5. k[0] = f[0]
    BY <1>1, <1>3 DEF Flattens
  <2>6. k[n] = h[n] /\ n \in 0..n
    BY <1>1, <1>5
  <2> HIDE DEF k
  <2>7. \A i \in 0..n : k[i] = f[i]
    <3>1. Grows(f, n, s) /\ Grows(k, n, s)
      BY <1>3, <2>4 DEF Flattens, Grows
    <3> QED BY <1>1, <2>5, <3>1, Agreement
  <2> QED BY <1>3, <2>3, <2>6, <2>7
<1> QED BY <1>4, <1>5

\* A sequence that grows at its end.
LEMMA FlattenAppend ==
  ASSUME NEW S, NEW s \in Seq(Seq(S)), NEW x \in Seq(S)
  PROVE  FlattenSeq(Append(s, x)) = Cat(FlattenSeq(s), x) /\ FlattenSeq(s) \in Seq(S)
<1> DEFINE a == Append(s, x)
<1>1. /\ a \in Seq(Seq(S)) /\ Len(a) = Len(s) + 1 /\ Len(s) \in Nat
      /\ \A i \in 1..Len(s) : a[i] = s[i]
      /\ a[Len(s) + 1] = x
  BY AppendProperties, LenProperties
<1> HIDE DEF a
<1>2. PICK f \in [0..Len(s) -> Seq(S)] : Flattens(f, s) /\ FlattenSeq(s) = f[Len(s)]
  BY FlattenEquation
<1>3. PICK g \in [0..Len(a) -> Seq(S)] : Flattens(g, a) /\ FlattenSeq(a) = g[Len(a)]
  BY <1>1, FlattenEquation
<1>4. f[0] = g[0] /\ Grows(f, Len(s), s)
  BY <1>2, <1>3 DEF Flattens
<1>5. Grows(g, Len(s), s)
  <2>1. \A i \in 1..Len(s) : i \in 1..Len(a)
    BY <1>1
  <2> QED BY <1>1, <1>3, <2>1 DEF Flattens, Grows
<1>6. f[Len(s)] = g[Len(s)]
  <2>1. Len(s) \in Nat
    BY <1>1
  <2>2. \A i \in 0..Len(s) : f[i] = g[i]
    BY <1>4, <1>5, <2>1, Agreement
  <2> QED BY <2>1, <2>2
<1>7. g[Len(a)] = Cat(g[Len(s)], x)
  <2>1. Len(s) + 1 \in 1..Len(a) /\ (Len(s) + 1) - 1 = Len(s)
    BY <1>1
  <2>2. g[Len(s) + 1] = Cat(g[Len(s)], a[Len(s) + 1])
    BY <1>3, <2>1 DEF Flattens, Grows
  <2> QED BY <1>1, <2>2
<1>8. f[Len(s)] \in Seq(S)
  <2>1. Len(s) \in 0..Len(s)
    BY <1>1
  <2> QED BY <2>1
<1> QED BY <1>2, <1>3, <1>6, <1>7, <1>8 DEF a

\* One that loses its head.
LEMMA FlattenTail ==
  ASSUME NEW S, NEW s \in Seq(Seq(S)), s # <<>>
  PROVE  /\ FlattenSeq(s) = Cat(Head(s), FlattenSeq(Tail(s)))
         /\ FlattenSeq(Tail(s)) \in Seq(S) /\ Head(s) \in Seq(S)
<1> DEFINE t == Tail(s)
<1>1. /\ t \in Seq(Seq(S)) /\ Len(t) = Len(s) - 1 /\ Len(s) \in Nat \ {0}
      /\ \A i \in 1..Len(t) : t[i] = s[i + 1]
  BY HeadTailProperties, EmptySeq
<1>2. Head(s) = s[1] /\ Head(s) \in Seq(S)
  BY HeadTailProperties
<1> HIDE DEF t
<1>3. PICK f \in [0..Len(s) -> Seq(S)] : Flattens(f, s) /\ FlattenSeq(s) = f[Len(s)]
  BY FlattenEquation
<1>4. PICK g \in [0..Len(t) -> Seq(S)] : Flattens(g, t) /\ FlattenSeq(t) = g[Len(t)]
  BY <1>1, FlattenEquation
<1> DEFINE K == {k \in Nat : k <= Len(t) => f[k + 1] = Cat(s[1], g[k])}
<1>5. 0 \in K
  <2>1. f[1] = Cat(<<>>, s[1]) /\ g[0] = <<>>
    <3>1. 1 \in 1..Len(s) /\ 1 - 1 = 0
      BY <1>1
    <3> QED BY <1>3, <1>4, <3>1 DEF Flattens, Grows
  <2>2. Cat(<<>>, s[1]) = Cat(s[1], <<>>)
    BY <1>2, CatEmpty
  <2>3. f[0 + 1] = Cat(s[1], g[0])
    BY <2>1, <2>2
  <2> QED BY <2>3
<1>6. ASSUME NEW k \in Nat, k \in K PROVE k + 1 \in K
  <2>1. CASE ~(k + 1 <= Len(t))
    BY <2>1
  <2>2. CASE k + 1 <= Len(t)
    <3>1. /\ k + 1 \in 1..Len(t) /\ (k + 1) - 1 = k /\ k \in 0..Len(t) /\ k <= Len(t)
          /\ (k + 1) + 1 \in 1..Len(s) /\ ((k + 1) + 1) - 1 = k + 1
      BY <1>1, <2>2
    <3>2. g[k + 1] = Cat(g[k], t[k + 1]) /\ g[k] \in Seq(S)
      BY <1>4, <3>1 DEF Flattens, Grows
    <3>3. f[(k + 1) + 1] = Cat(f[k + 1], s[(k + 1) + 1])
      BY <1>3, <3>1 DEF Flattens, Grows
    <3>4. f[k + 1] = Cat(s[1], g[k]) /\ t[k + 1] = s[(k + 1) + 1]
      BY <1>1, <1>6, <3>1
    <3>5. s[1] \in Seq(S) /\ t[k + 1] \in Seq(S)
      BY <1>1, <1>2, <3>1, ElementOfSeq
    <3>6. Cat(Cat(s[1], g[k]), t[k + 1]) = Cat(s[1], Cat(g[k], t[k + 1]))
      BY <3>2, <3>5, CatAssociative
    <3>7. f[(k + 1) + 1] = Cat(s[1], g[k + 1])
      BY <3>2, <3>3, <3>4, <3>6
    <3> QED BY <3>7
  <2> QED BY <2>1, <2>2
<1>7. \A k \in Nat : k \in K
  <2> HIDE DEF K
  <2> QED BY <1>5, <1>6, SetInduction
<1>8. f[Len(s)] = Cat(s[1], g[Len(t)])
  <2>1. Len(t) \in Nat /\ Len(t) + 1 = Len(s)
    BY <1>1
  <2>2. f[Len(t) + 1] = Cat(s[1], g[Len(t)])
    <3>1. \A k \in Nat : k <= Len(t) => f[k + 1] = Cat(s[1], g[k])
      BY <1>7
    <3> HIDE DEF K
    <3> QED BY <2>1, <3>1
  <2> QED BY <2>1, <2>2
<1>9. g[Len(t)] \in Seq(S)
  <2>1. Len(t) \in 0..Len(t)
    BY <1>1
  <2> QED BY <2>1
<1> QED BY <1>2, <1>3, <1>4, <1>8, <1>9 DEF t

-----------------------------------------------------------------------------
(* Prefixes.                                                                *)

LEMMA PrefixOfConcat ==
  ASSUME NEW S, NEW a \in Seq(S), NEW b \in Seq(S)
  PROVE  IsPrefix(a, Cat(a, b))
<1>1. /\ Cat(a, b) \in Seq(S) /\ Len(Cat(a, b)) = Len(a) + Len(b) /\ Len(a) \in Nat /\ Len(b) \in Nat
      /\ \A i \in 1..(Len(a) + Len(b)) : Cat(a, b)[i] = IF i <= Len(a) THEN a[i] ELSE b[i - Len(a)]
  BY CatElements, CatType
<1>2. SubSeq(a, 1, Len(a)) = a
  BY SubSeqFull
<1>3. /\ SubSeq(Cat(a, b), 1, Len(a)) \in Seq(S) /\ Len(SubSeq(Cat(a, b), 1, Len(a))) = Len(a)
      /\ \A i \in 1..Len(a) : SubSeq(Cat(a, b), 1, Len(a))[i] = Cat(a, b)[i]
  <2>1. \A i \in 1..Len(a) : Cat(a, b)[i] \in S /\ i \in 1..(Len(a) + Len(b))
    BY <1>1, ElementOfSeq
  <2>2. 1 \in Int /\ Len(a) \in Int
    BY <1>1
  <2> QED BY <1>1, <2>1, <2>2, SubSeqProperties
<1>4. \A i \in 1..Len(a) : SubSeq(Cat(a, b), 1, Len(a))[i] = a[i]
  BY <1>1, <1>3
<1>5. SubSeq(Cat(a, b), 1, Len(a)) = a
  BY <1>3, <1>4, SeqEqual
<1> QED BY <1>1, <1>2, <1>5 DEF IsPrefix

\* What has a prefix agrees with it.
LEMMA PrefixAgrees ==
  ASSUME NEW S, NEW a \in Seq(S), NEW b \in Seq(S), IsPrefix(a, b)
  PROVE  Len(a) <= Len(b) /\ \A i \in 1..Len(a) : a[i] = b[i]
<1>1. Len(a) \in Nat /\ Len(b) \in Nat /\ Len(a) <= Len(b) /\ SubSeq(a, 1, Len(a)) = SubSeq(b, 1, Len(a))
  BY LenProperties DEF IsPrefix
<1>2. \A i \in 1..Len(a) : SubSeq(b, 1, Len(a))[i] = b[i]
  <2>1. \A i \in 1..Len(a) : b[i] \in S
    BY <1>1, ElementOfSeq
  <2>2. 1 \in Int /\ Len(a) \in Int
    BY <1>1
  <2> QED BY <1>1, <2>1, <2>2, SubSeqProperties
<1>3. SubSeq(a, 1, Len(a)) = a
  BY SubSeqFull
<1> QED BY <1>1, <1>2, <1>3

\* Two streams with a common beginning that differ after it.
LEMMA PrefixDiffers ==
  ASSUME NEW S, NEW r \in Seq(S), NEW x \in Seq(S), NEW y \in Seq(S), NEW u \in Seq(S), NEW v \in Seq(S),
         NEW i \in 1..Len(x), i \in 1..Len(y), x[i] # y[i]
  PROVE  ~IsPrefix(Cat(Cat(r, x), u), Cat(Cat(r, y), v))
<1>1. Len(r) \in Nat /\ Len(x) \in Nat /\ Len(y) \in Nat /\ Len(u) \in Nat /\ Len(v) \in Nat
  BY LenProperties
<1>2. PICK k \in Nat : k = Len(r) + i
  BY <1>1
<1>3. k \in 1..(Len(r) + Len(x)) /\ k \in 1..(Len(r) + Len(y)) /\ ~(k <= Len(r)) /\ k - Len(r) = i
  BY <1>1, <1>2
<1>4. ASSUME NEW z \in Seq(S), NEW w \in Seq(S), i \in 1..Len(z)
      PROVE  /\ Cat(Cat(r, z), w) \in Seq(S) /\ Cat(Cat(r, z), w)[k] = z[i]
             /\ k \in 1..Len(Cat(Cat(r, z), w))
  <2>1. Len(z) \in Nat /\ Len(w) \in Nat
    BY LenProperties
  <2>2. k \in 1..(Len(r) + Len(z)) /\ ~(k <= Len(r)) /\ k - Len(r) = i
    BY <1>1, <1>2, <1>4, <2>1
  <2>3. Cat(r, z) \in Seq(S) /\ Len(Cat(r, z)) = Len(r) + Len(z) /\ Cat(r, z)[k] = z[i]
    BY <2>2, CatElements, CatType
  <2>4. k \in 1..(Len(Cat(r, z)) + Len(w)) /\ k <= Len(Cat(r, z))
    BY <1>1, <2>1, <2>2, <2>3
  <2> QED BY <2>3, <2>4, CatElements, CatType
<1> QED BY <1>4, PrefixAgrees

-----------------------------------------------------------------------------
(* The input of a script.                                                   *)

Symbols == Texts \cup {"eof"}
Pieces  == (Seq(Bytes) \ {<<>>}) \cup {Eof}

Data(s)    == IF s.kind = "receive" THEN s.data ELSE <<>>
Seconds(s) == IF s.kind = "advance" THEN s.seconds ELSE 0

LEMMA PieceFacts ==
  /\ Eof \in Seq(Symbols) /\ Len(Eof) = 1 /\ Eof[1] = "eof" /\ Pieces \subseteq Seq(Symbols)
  /\ \A p \in Pieces : /\ p \in Seq(Symbols) /\ Len(p) \in Nat \ {0}
                       /\ p = Eof \/ \A i \in 1..Len(p) : p[i] \in Bytes
  /\ "eof" \notin Bytes
<1>1. Eof \in Seq(Symbols) /\ Len(Eof) = 1 /\ Eof[1] = "eof"
  BY DEF Eof, Symbols
<1>2. ASSUME NEW p \in Seq(Bytes) \ {<<>>}
      PROVE  p \in Seq(Symbols) /\ Len(p) \in Nat \ {0} /\ \A i \in 1..Len(p) : p[i] \in Bytes
  <2>1. Bytes \subseteq Symbols
    BY DEF Bytes, Symbols
  <2> QED BY <2>1, SeqMonotonic, EmptySeq, ElementOfSeq
<1> QED BY <1>1, <1>2 DEF Pieces, Bytes

LEMMA DataFacts ==
  ASSUME NEW s \in Steps
  PROVE  /\ Data(s) \in Seq(Symbols) /\ Seconds(s) \in Nat
         /\ s.kind = "receive" => Data(s) = s.data /\ s.data \in Seq(Bytes) \cup {Eof}
         /\ s.kind # "receive" => Data(s) = <<>>
         /\ s.kind \in {"emit", "receive", "advance", "failure"}
<1>1. <<>> \in Seq(Symbols)
  OBVIOUS
<1>2. CASE s \in [kind : {"emit"}]
  BY <1>1, <1>2 DEF Data, Seconds
<1>3. CASE s \in [kind : {"receive"}, data : Seq(Bytes) \cup {Eof}]
  <2>1. Bytes \subseteq Symbols
    BY DEF Bytes, Symbols
  <2>2. s.data \in Seq(Symbols)
    BY <1>3, <2>1, PieceFacts, SeqMonotonic
  <2> QED BY <1>3, <2>2 DEF Data, Seconds
<1>4. CASE s \in [kind : {"advance"}, seconds : Nat]
  BY <1>1, <1>4 DEF Data, Seconds
<1>5. CASE s \in [kind : {"failure"}, failure : {"input", "output", "startup", "session"}]
  BY <1>1, <1>5 DEF Data, Seconds
<1> QED BY <1>2, <1>3, <1>4, <1>5 DEF Steps

\* The recursions of Advanced and Reads.
LEMMA AdvancedEquation ==
  ASSUME NEW steps \in Seq(Steps)
  PROVE  /\ Advanced(steps) \in [0..Len(steps) -> Nat] /\ Advanced(steps)[0] = 0
         /\ \A n \in 1..Len(steps) :
              Advanced(steps)[n] = Advanced(steps)[n - 1] + Seconds(steps[n])
<1> DEFINE N == Len(steps)
           op == [n \in 1..N |-> [t \in Nat |-> t + Seconds(steps[n])]]
           h  == CHOOSE total : total = [n \in 0..N |->
                   IF n = 0 THEN 0
                   ELSE total[n - 1] + (IF steps[n].kind = "advance" THEN steps[n].seconds ELSE 0)]
<1>1. N \in Nat /\ \A n \in 1..N : steps[n] \in Steps /\ Seconds(steps[n]) \in Nat
  BY LenProperties, ElementOfSeq, DataFacts
<1>2. op \in [1..N -> [Nat -> Nat]] /\ \A n \in 1..N, t \in Nat : op[n][t] = t + Seconds(steps[n])
  BY <1>1
<1> HIDE DEF op
<1>3. PICK f \in [0..N -> Nat] : Solves(f, N, 0, op)
  BY <1>1, <1>2, Recursion
<1>4. ASSUME NEW n \in 1..N PROVE f[n] = f[n - 1] + Seconds(steps[n])
  <2>1. n - 1 \in 0..N
    BY <1>1
  <2>2. f[n - 1] \in Nat
    BY <2>1
  <2> QED BY <1>2, <1>3, <2>2 DEF Solves
<1>5. f = [n \in 0..N |->
             IF n = 0 THEN 0
             ELSE f[n - 1] + (IF steps[n].kind = "advance" THEN steps[n].seconds ELSE 0)]
  <2>1. ASSUME NEW n \in 0..N
        PROVE  f[n] = IF n = 0 THEN 0
                      ELSE f[n - 1] + (IF steps[n].kind = "advance" THEN steps[n].seconds ELSE 0)
    <3>1. CASE n = 0
      BY <1>3, <3>1 DEF Solves
    <3>2. CASE n # 0
      BY <1>1, <1>4, <3>2 DEF Seconds
    <3> QED BY <3>1, <3>2
  <2> QED BY <2>1
<1>6. h = [n \in 0..N |->
             IF n = 0 THEN 0
             ELSE h[n - 1] + (IF steps[n].kind = "advance" THEN steps[n].seconds ELSE 0)]
  BY <1>5
<1>7. Advanced(steps) = h
  BY Zenon DEF Advanced
<1> HIDE DEF h
<1>8. ASSUME NEW n \in 1..N PROVE h[n] = h[n - 1] + Seconds(steps[n])
  BY <1>1, <1>6 DEF Seconds
<1>9. h[0] = 0
  BY <1>1, <1>6
<1> DEFINE K == {k \in Nat : k <= N => h[k] \in Nat}
<1>10. 0 \in K
  BY <1>9
<1>11. ASSUME NEW k \in Nat, k \in K PROVE k + 1 \in K
  <2>1. CASE k + 1 <= N
    <3>1. k + 1 \in 1..N /\ (k + 1) - 1 = k /\ k <= N
      BY <1>1, <2>1
    <3>2. h[k + 1] = h[k] + Seconds(steps[k + 1]) /\ h[k] \in Nat /\ Seconds(steps[k + 1]) \in Nat
      BY <1>1, <1>8, <1>11, <3>1
    <3> QED BY <3>2
  <2> QED BY <2>1
<1>12. \A k \in Nat : k \in K
  <2> HIDE DEF K
  <2> QED BY <1>10, <1>11, SetInduction
<1>13. h \in [0..N -> Nat]
  <2>1. \A k \in 0..N : h[k] \in Nat
    BY <1>1, <1>12
  <2>2. h = [n \in 0..N |-> h[n]]
    BY <1>6
  <2> QED BY <2>1, <2>2
<1> QED BY <1>7, <1>8, <1>9, <1>13

LEMMA ReadsEquation ==
  ASSUME NEW steps \in Seq(Steps)
  PROVE  /\ Reads(steps) \in [0..Len(steps) -> Seq(Symbols)] /\ Reads(steps)[0] = <<>>
         /\ \A n \in 1..Len(steps) : Reads(steps)[n] = Cat(Reads(steps)[n - 1], Data(steps[n]))
<1> DEFINE N == Len(steps)
           T == Seq(Symbols)
           op == [n \in 1..N |-> [t \in T |-> Cat(t, Data(steps[n]))]]
           h  == CHOOSE stream : stream = [n \in 0..N |->
                   IF n = 0 THEN <<>>
                   ELSE Cat(stream[n - 1], IF steps[n].kind = "receive" THEN steps[n].data ELSE <<>>)]
<1>1. N \in Nat /\ \A n \in 1..N : steps[n] \in Steps /\ Data(steps[n]) \in T
  BY LenProperties, ElementOfSeq, DataFacts
<1>2. /\ op \in [1..N -> [T -> T]] /\ <<>> \in T
      /\ \A n \in 1..N, t \in T : op[n][t] = Cat(t, Data(steps[n])) /\ op[n][t] \in T
  BY <1>1, CatType, EmptySeq
<1>7. Reads(steps) = h
  BY Zenon DEF Reads, Cat
<1> HIDE DEF op, T
<1>3. PICK f \in [0..N -> T] : Solves(f, N, <<>>, op)
  BY <1>1, <1>2, Recursion
<1>4. ASSUME NEW n \in 1..N PROVE f[n] = Cat(f[n - 1], Data(steps[n]))
  <2>1. n - 1 \in 0..N
    BY <1>1
  <2>2. f[n - 1] \in T
    BY <2>1
  <2> QED BY <1>2, <1>3, <2>2 DEF Solves
<1>5. f = [n \in 0..N |->
             IF n = 0 THEN <<>>
             ELSE Cat(f[n - 1], IF steps[n].kind = "receive" THEN steps[n].data ELSE <<>>)]
  <2>1. ASSUME NEW n \in 0..N
        PROVE  f[n] = IF n = 0 THEN <<>>
                      ELSE Cat(f[n - 1], IF steps[n].kind = "receive" THEN steps[n].data ELSE <<>>)
    <3>1. CASE n = 0
      BY <1>3, <3>1 DEF Solves
    <3>2. CASE n # 0
      <4>1. n \in 1..N
        BY <1>1, <3>2
      <4> QED BY <1>4, <3>2, <4>1 DEF Data
    <3> QED BY <3>1, <3>2
  <2> QED BY <2>1
<1>6. h = [n \in 0..N |->
             IF n = 0 THEN <<>>
             ELSE Cat(h[n - 1], IF steps[n].kind = "receive" THEN steps[n].data ELSE <<>>)]
  BY <1>5
<1> HIDE DEF h
<1>8. ASSUME NEW n \in 1..N PROVE h[n] = Cat(h[n - 1], Data(steps[n]))
  <2>1. n \in 0..N /\ n # 0
    BY <1>1
  <2> QED BY <1>6, <2>1 DEF Data
<1>9. h[0] = <<>>
  BY <1>1, <1>6
<1> DEFINE K == {k \in Nat : k <= N => h[k] \in T}
<1>10. 0 \in K
  BY <1>2, <1>9
<1>11. ASSUME NEW k \in Nat, k \in K PROVE k + 1 \in K
  <2>1. CASE k + 1 <= N
    <3>1. k + 1 \in 1..N /\ (k + 1) - 1 = k /\ k <= N
      BY <1>1, <2>1
    <3>2. h[k + 1] = Cat(h[k], Data(steps[k + 1])) /\ h[k] \in T /\ Data(steps[k + 1]) \in T
      BY <1>1, <1>8, <1>11, <3>1
    <3>3. h[k + 1] \in T
      BY <3>2, CatType DEF T
    <3> QED BY <3>3
  <2> QED BY <2>1
<1>12. \A k \in Nat : k \in K
  <2> HIDE DEF K
  <2> QED BY <1>10, <1>11, SetInduction
<1>13. h \in [0..N -> T]
  <2>1. \A k \in 0..N : h[k] \in T
    BY <1>1, <1>12
  <2>2. h = [n \in 0..N |-> h[n]]
    BY <1>6
  <2> QED BY <2>1, <2>2
<1> QED BY <1>7, <1>8, <1>9, <1>13 DEF T

\* What more steps read continues what fewer do.
LEMMA ReadsGrow ==
  ASSUME NEW steps \in Seq(Steps), NEW m \in 0..Len(steps), NEW n \in 0..Len(steps), m <= n
  PROVE  \E more \in Seq(Symbols) : Reads(steps)[n] = Cat(Reads(steps)[m], more)
<1> DEFINE Continues(k) == \E more \in Seq(Symbols) : Reads(steps)[m + k] = Cat(Reads(steps)[m], more)
           K == {k \in Nat : m + k <= Len(steps) => Continues(k)}
<1>1. Len(steps) \in Nat /\ m \in Nat /\ n \in Nat /\ Reads(steps)[m] \in Seq(Symbols)
  BY LenProperties, ReadsEquation
<1>2. Continues(0)
  <2>1. m + 0 = m /\ Reads(steps)[m] = Cat(Reads(steps)[m], <<>>) /\ <<>> \in Seq(Symbols)
    BY <1>1, CatEmpty, EmptySeq
  <2> QED BY <2>1
<1>3. ASSUME NEW k \in Nat, k \in K, m + (k + 1) <= Len(steps) PROVE Continues(k + 1)
  <2>1. m + k <= Len(steps) /\ m + (k + 1) \in 1..Len(steps) /\ (m + (k + 1)) - 1 = m + k
    BY <1>1, <1>3
  <2>2. PICK more \in Seq(Symbols) : Reads(steps)[m + k] = Cat(Reads(steps)[m], more)
    BY <1>3, <2>1
  <2> DEFINE last == Data(steps[m + (k + 1)])
  <2>3. last \in Seq(Symbols)
    BY <2>1, ElementOfSeq, DataFacts
  <2>4. Reads(steps)[m + (k + 1)] = Cat(Reads(steps)[m + k], last)
    BY <2>1, ReadsEquation
  <2> HIDE DEF last
  <2>5. Reads(steps)[m + (k + 1)] = Cat(Reads(steps)[m], Cat(more, last))
    BY <1>1, <2>2, <2>3, <2>4, CatAssociative
  <2> QED BY <2>3, <2>5, CatType
<1>4. 0 \in K /\ \A k \in Nat : k \in K => k + 1 \in K
  <2> HIDE DEF Continues
  <2> QED BY <1>2, <1>3
<1>5. \A k \in Nat : k \in K
  <2> HIDE DEF K
  <2> QED BY <1>4, SetInduction
<1>6. n - m \in Nat /\ m + (n - m) = n
  BY <1>1
<1>7. Continues(n - m)
  <2> HIDE DEF Continues
  <2> QED BY <1>1, <1>5, <1>6
<1> QED BY <1>6, <1>7

-----------------------------------------------------------------------------
(* Where a script ends.                                                     *)

\* None of the steps before n ends the command.
Goes(steps, n) == \A j \in 1..(n - 1) : ~Terminal(steps, j)

Ends(steps, n) == Goes(steps, n) /\ (n > Len(steps) \/ Terminal(steps, n))

LEMMA LastStepEnds ==
  ASSUME NEW steps \in Seq(Steps)
  PROVE  LastStep(steps) \in 1..(Len(steps) + 1) /\ Ends(steps, LastStep(steps))
<1> DEFINE T == {i \in 1..(Len(steps) + 1) : i > Len(steps) \/ Terminal(steps, i)}
<1>1. Len(steps) \in Nat
  BY LenProperties
<1>2. PICK x \in T : \A y \in T : x <= y
  <2>1. Len(steps) + 1 \in T /\ T \subseteq Nat
    BY <1>1
  <2> HIDE DEF T
  <2> QED BY <2>1, LeastOfSet
<1>3. \A j \in 1..(x - 1) : ~Terminal(steps, j)
  <2>1. ASSUME NEW j \in 1..(x - 1), Terminal(steps, j) PROVE FALSE
    <3>1. j \in 1..(Len(steps) + 1) /\ ~(x <= j)
      BY <1>1
    <3> QED BY <1>2, <2>1, <3>1
  <2> QED BY <2>1
<1>4. \E i \in 1..(Len(steps) + 1) :
        (\A j \in 1..(i - 1) : ~Terminal(steps, j)) /\ (i > Len(steps) \/ Terminal(steps, i))
  BY <1>3
<1> DEFINE last == CHOOSE i \in 1..(Len(steps) + 1) :
             (\A j \in 1..(i - 1) : ~Terminal(steps, j)) /\ (i > Len(steps) \/ Terminal(steps, i))
<1>5. /\ last \in 1..(Len(steps) + 1)
      /\ \A j \in 1..(last - 1) : ~Terminal(steps, j)
      /\ last > Len(steps) \/ Terminal(steps, last)
  BY <1>4, Zenon
<1>6. LastStep(steps) = last
  BY Zenon DEF LastStep
<1> HIDE DEF last
<1> QED BY <1>5, <1>6 DEF Ends, Goes

\* The script has one end, and a step that does not end it is before that.
LEMMA LastStepIs ==
  ASSUME NEW steps \in Seq(Steps), NEW n \in 1..(Len(steps) + 1), Ends(steps, n)
  PROVE  LastStep(steps) = n
<1>1. PICK last \in 1..(Len(steps) + 1) : last = LastStep(steps) /\ Ends(steps, last)
  BY LastStepEnds
<1>2. Len(steps) \in Nat
  BY LenProperties
<1>3. ~(last < n)
  <2>1. ASSUME last < n PROVE FALSE
    <3>1. last \in 1..(n - 1) /\ ~(last > Len(steps))
      BY <1>2, <2>1
    <3> QED BY <1>1, <3>1 DEF Ends, Goes
  <2> QED BY <2>1
<1>4. ~(n < last)
  <2>1. ASSUME n < last PROVE FALSE
    <3>1. n \in 1..(last - 1) /\ ~(n > Len(steps))
      BY <1>2, <2>1
    <3> QED BY <1>1, <3>1 DEF Ends, Goes
  <2> QED BY <2>1
<1> QED BY <1>1, <1>2, <1>3, <1>4

LEMMA LastStepAfter ==
  ASSUME NEW steps \in Seq(Steps), NEW n \in 1..Len(steps), Goes(steps, n), ~Terminal(steps, n)
  PROVE  n + 1 <= LastStep(steps) /\ LastStep(steps) - 1 \in 0..Len(steps) /\ Goes(steps, n + 1)
<1>1. PICK last \in 1..(Len(steps) + 1) : last = LastStep(steps) /\ Ends(steps, last)
  BY LastStepEnds
<1>2. Len(steps) \in Nat
  BY LenProperties
<1>3. ~(last <= n)
  <2>1. ASSUME last <= n PROVE FALSE
    <3>1. last \in 1..(n - 1) \/ last = n
      BY <1>2, <2>1
    <3>2. ~(last > Len(steps))
      BY <1>2, <2>1
    <3> QED BY <1>1, <3>1, <3>2 DEF Ends, Goes
  <2> QED BY <2>1
<1>4. Goes(steps, n + 1)
  <2>1. \A j \in 1..((n + 1) - 1) : j \in 1..(n - 1) \/ j = n
    BY <1>2
  <2> QED BY <2>1 DEF Goes
<1> QED BY <1>1, <1>2, <1>3, <1>4

\* What a script wants continues what its first steps read.
LEMMA WantedContinues ==
  ASSUME NEW steps \in Seq(Steps), NEW n \in 1..Len(steps), Goes(steps, n), ~Terminal(steps, n)
  PROVE  \E more \in Seq(Symbols) :
           Wanted(steps) = Cat(Cat(Reads(steps)[n - 1], Data(steps[n])), more)
<1>1. PICK last \in 0..Len(steps) : last = LastStep(steps) - 1 /\ n <= last
  <2>1. n + 1 <= LastStep(steps) /\ LastStep(steps) - 1 \in 0..Len(steps) /\ LastStep(steps) \in Int
    BY LastStepAfter, LastStepEnds
  <2>2. n <= LastStep(steps) - 1
    BY <2>1
  <2> QED BY <2>1, <2>2
<1>2. n \in 0..Len(steps)
  BY LenProperties
<1>3. PICK more \in Seq(Symbols) : Reads(steps)[last] = Cat(Reads(steps)[n], more)
  BY <1>1, <1>2, ReadsGrow
<1>4. Reads(steps)[n] = Cat(Reads(steps)[n - 1], Data(steps[n]))
  BY ReadsEquation
<1>5. Wanted(steps) = Reads(steps)[last]
  BY <1>1 DEF Wanted
<1> QED BY <1>3, <1>4, <1>5

-----------------------------------------------------------------------------
(* Where the driver is in a script and in the stream.                       *)

\* What has been read of the step that the driver is on, and what has not.
Begun(steps, n, o)  == SubSeq(Data(steps[n]), 1, o)
Rest(steps, n, o)   == SubSeq(Data(steps[n]), o + 1, Len(Data(steps[n])))
Read(steps, n, o)   == IF o = 0 THEN Reads(steps)[n - 1]
                       ELSE Cat(Reads(steps)[n - 1], Begun(steps, n, o))

Within(steps, n, o) == /\ n \in 1..Len(steps) /\ steps[n].kind = "receive"
                       /\ o \in 0..(Len(Data(steps[n])) - 1)

\* On step n, with o bytes of it read, after t seconds: what was sent is what was read and
\* what is queued.
Position(steps, n, o, t, queue, got) ==
  /\ n \in 1..(Len(steps) + 1) /\ Goes(steps, n)
  /\ o = 0 \/ Within(steps, n, o)
  /\ t = Advanced(steps)[n - 1]
  /\ FlattenSeq(got) = Cat(Read(steps, n, o), FlattenSeq(queue))

LEMMA FlattenFacts ==
  ASSUME NEW queue \in Seq(Pieces)
  PROVE  queue \in Seq(Seq(Symbols)) /\ FlattenSeq(queue) \in Seq(Symbols)
<1>1. queue \in Seq(Seq(Symbols))
  BY PieceFacts, SeqMonotonic
<1>2. PICK f \in [0..Len(queue) -> Seq(Symbols)] : FlattenSeq(queue) = f[Len(queue)]
  BY <1>1, FlattenEquation
<1>3. Len(queue) \in 0..Len(queue)
  BY <1>1, LenProperties
<1> QED BY <1>1, <1>2, <1>3

LEMMA FlattenNothing == FlattenSeq(<<>>) = <<>> /\ <<>> \in Seq(Pieces)
<1>1. <<>> \in Seq(Seq(Symbols)) /\ <<>> \in Seq(Pieces) /\ Len(<<>>) = 0
  OBVIOUS
<1>2. PICK f \in [0..Len(<<>>) -> Seq(Symbols)] : Flattens(f, <<>>) /\ FlattenSeq(<<>>) = f[Len(<<>>)]
  BY <1>1, FlattenEquation
<1> QED BY <1>1, <1>2 DEF Flattens

LEMMA ReadFacts ==
  ASSUME NEW steps \in Seq(Steps), NEW n \in 1..(Len(steps) + 1), NEW o, o = 0 \/ Within(steps, n, o)
  PROVE  Read(steps, n, o) \in Seq(Symbols) /\ Reads(steps)[n - 1] \in Seq(Symbols)
<1>1. n - 1 \in 0..Len(steps)
  BY LenProperties
<1>2. Reads(steps)[n - 1] \in Seq(Symbols)
  BY <1>1, ReadsEquation
<1>3. CASE o = 0
  BY <1>2, <1>3 DEF Read
<1>4. CASE Within(steps, n, o)
  <2>1. Data(steps[n]) \in Seq(Symbols)
    BY <1>4, ElementOfSeq, DataFacts DEF Within
  <2>2. Begun(steps, n, o) \in Seq(Symbols)
    <3>1. Len(Data(steps[n])) \in Nat /\ o \in Nat /\ \A i \in 1..o : i \in 1..Len(Data(steps[n]))
      BY <1>4, <2>1, LenProperties DEF Within
    <3>2. \A i \in 1..o : Data(steps[n])[i] \in Symbols
      BY <2>1, <3>1, ElementOfSeq
    <3> QED BY <3>1, <3>2, SubSeqProperties DEF Begun
  <2> QED BY <1>2, <2>2, CatType DEF Read
<1> QED BY <1>3, <1>4

\* A command begins.
LEMMA PositionBegins ==
  ASSUME NEW steps \in Seq(Steps)
  PROVE  Position(steps, 1, 0, 0, <<>>, <<>>)
<1>1. 1 \in 1..(Len(steps) + 1) /\ 1 - 1 = 0
  BY LenProperties
<1>2. Goes(steps, 1)
  BY DEF Goes
<1>3. Advanced(steps)[0] = 0 /\ Reads(steps)[0] = <<>>
  BY AdvancedEquation, ReadsEquation
<1>4. Cat(<<>>, <<>>) = <<>>
  <2>1. <<>> \in Seq(Symbols)
    OBVIOUS
  <2> QED BY <2>1, CatEmpty
<1> QED BY <1>1, <1>2, <1>3, <1>4, FlattenNothing DEF Position, Read

\* A step that reads nothing is over.
LEMMA PositionPasses ==
  ASSUME NEW steps \in Seq(Steps), NEW n \in 1..Len(steps), NEW o, NEW t, NEW queue, NEW got,
         Position(steps, n, o, t, queue, got), ~Terminal(steps, n), steps[n].kind # "receive"
  PROVE  Position(steps, n + 1, o, t + Seconds(steps[n]), queue, got)
<1>1. o = 0 /\ n + 1 \in 1..(Len(steps) + 1) /\ (n + 1) - 1 = n /\ n - 1 \in 0..Len(steps)
  BY LenProperties DEF Position, Within
<1>2. Goes(steps, n + 1)
  BY LastStepAfter DEF Position
<1>3. Reads(steps)[n] = Reads(steps)[n - 1]
  <2>1. Data(steps[n]) = <<>> /\ Reads(steps)[n - 1] \in Seq(Symbols)
    BY <1>1, ElementOfSeq, DataFacts, ReadsEquation
  <2> QED BY <2>1, CatEmpty, ReadsEquation
<1>4. t + Seconds(steps[n]) = Advanced(steps)[n]
  BY AdvancedEquation DEF Position
<1> QED BY <1>1, <1>2, <1>3, <1>4 DEF Position, Read

\* More is sent.
LEMMA PositionHears ==
  ASSUME NEW steps \in Seq(Steps), NEW n, NEW o, NEW t, NEW queue \in Seq(Pieces),
         NEW got \in Seq(Pieces), NEW piece \in Pieces, Position(steps, n, o, t, queue, got)
  PROVE  Position(steps, n, o, t, Append(queue, piece), Append(got, piece))
<1>1. piece \in Seq(Symbols) /\ queue \in Seq(Seq(Symbols)) /\ got \in Seq(Seq(Symbols))
  BY PieceFacts, FlattenFacts
<1>2. /\ FlattenSeq(Append(queue, piece)) = Cat(FlattenSeq(queue), piece)
      /\ FlattenSeq(Append(got, piece)) = Cat(FlattenSeq(got), piece)
      /\ FlattenSeq(queue) \in Seq(Symbols)
  BY <1>1, FlattenAppend
<1>3. Read(steps, n, o) \in Seq(Symbols)
  BY ReadFacts DEF Position
<1>4. Cat(Cat(Read(steps, n, o), FlattenSeq(queue)), piece)
        = Cat(Read(steps, n, o), Cat(FlattenSeq(queue), piece))
  BY <1>1, <1>2, <1>3, CatAssociative
<1> QED BY <1>2, <1>4 DEF Position

-----------------------------------------------------------------------------
(* Receive.                                                                 *)

LEMMA Splits ==
  ASSUME NEW S, NEW a \in Seq(S), NEW o \in 0..Len(a)
  PROVE  /\ SubSeq(a, 1, o) \in Seq(S) /\ Len(SubSeq(a, 1, o)) = o
         /\ \A i \in 1..o : SubSeq(a, 1, o)[i] = a[i]
         /\ SubSeq(a, o + 1, Len(a)) \in Seq(S) /\ Len(SubSeq(a, o + 1, Len(a))) = Len(a) - o
         /\ \A i \in 1..(Len(a) - o) : SubSeq(a, o + 1, Len(a))[i] = a[o + i]
         /\ Cat(SubSeq(a, 1, o), SubSeq(a, o + 1, Len(a))) = a
<1> DEFINE x == SubSeq(a, 1, o)
           y == SubSeq(a, o + 1, Len(a))
<1>1. Len(a) \in Nat /\ o \in Nat /\ o <= Len(a) /\ \A i \in 1..Len(a) : a[i] \in S
  BY LenProperties, ElementOfSeq
<1>2. x \in Seq(S) /\ Len(x) = o /\ \A i \in 1..o : x[i] = a[i]
  <2>1. \A i \in 1..o : a[i] \in S
    BY <1>1
  <2> QED BY <1>1, <2>1, SubSeqProperties
<1>3. y \in Seq(S) /\ Len(y) = Len(a) - o /\ \A i \in 1..(Len(a) - o) : y[i] = a[o + i]
  <2>1. \A i \in (o + 1)..Len(a) : a[i] \in S
    BY <1>1
  <2>2. /\ y \in Seq(S) /\ Len(y) = IF o + 1 <= Len(a) THEN Len(a) - (o + 1) + 1 ELSE 0
        /\ \A i \in 1..(Len(a) - (o + 1) + 1) : y[i] = a[(o + 1) + i - 1]
    BY <1>1, <2>1, SubSeqProperties
  <2> HIDE DEF y
  <2>3. Len(y) = Len(a) - o
    BY <1>1, <2>2
  <2>4. ASSUME NEW i \in 1..(Len(a) - o) PROVE y[i] = a[o + i]
    <3>1. i \in 1..(Len(a) - (o + 1) + 1) /\ (o + 1) + i - 1 = o + i
      BY <1>1
    <3> QED BY <2>2, <3>1
  <2> QED BY <2>2, <2>3, <2>4
<1> HIDE DEF x, y
<1>4. Cat(x, y) \in Seq(S) /\ Len(Cat(x, y)) = Len(a)
  <2>1. Cat(x, y) \in Seq(S) /\ Len(Cat(x, y)) = Len(x) + Len(y)
    BY <1>2, <1>3, CatType, CatElements
  <2> QED BY <1>1, <1>2, <1>3, <2>1
<1>5. ASSUME NEW i \in 1..Len(a) PROVE Cat(x, y)[i] = a[i]
  <2>1. i \in 1..(Len(x) + Len(y))
    BY <1>1, <1>2, <1>3
  <2>2. Cat(x, y)[i] = IF i <= o THEN x[i] ELSE y[i - o]
    BY <1>2, <1>3, <2>1, CatElements
  <2>3. CASE i <= o
    BY <1>1, <1>2, <2>2, <2>3
  <2>4. CASE ~(i <= o)
    <3>1. i - o \in 1..(Len(a) - o) /\ o + (i - o) = i
      BY <1>1, <2>4
    <3> QED BY <1>3, <2>2, <2>4, <3>1
  <2> QED BY <2>3, <2>4
<1>6. Cat(x, y) = a
  BY <1>4, <1>5, SeqEqual
<1> QED BY <1>2, <1>3, <1>6 DEF x, y

\* A stream that agrees with another as far as that goes continues it.
LEMMA StreamContinues ==
  ASSUME NEW S, NEW a \in Seq(S), NEW b \in Seq(S), Len(a) <= Len(b),
         \A i \in 1..Len(a) : a[i] = b[i]
  PROVE  b = Cat(a, SubSeq(b, Len(a) + 1, Len(b)))
<1>1. Len(a) \in 0..Len(b)
  BY LenProperties
<1>2. SubSeq(b, 1, Len(a)) \in Seq(S) /\ Len(SubSeq(b, 1, Len(a))) = Len(a)
      /\ \A i \in 1..Len(a) : SubSeq(b, 1, Len(a))[i] = b[i]
  BY <1>1, Splits
<1>3. SubSeq(b, 1, Len(a)) = a
  BY <1>2, SeqEqual
<1> QED BY <1>1, <1>3, Splits

\* What is left of the data of a step that the driver receives.
LEMMA RestFacts ==
  ASSUME NEW steps \in Seq(Steps), NEW n \in 1..Len(steps), NEW o, NEW t, NEW queue, NEW got,
         Position(steps, n, o, t, queue, got), steps[n].kind = "receive", Data(steps[n]) # <<>>
  PROVE  /\ Rest(steps, n, o) \in Seq(Symbols) /\ Len(Rest(steps, n, o)) \in Nat \ {0}
         /\ Reads(steps)[n] = Cat(Read(steps, n, o), Rest(steps, n, o))
         /\ Rest(steps, n, o) = Eof \/ \A i \in 1..Len(Rest(steps, n, o)) : Rest(steps, n, o)[i] \in Bytes
         /\ ~Terminal(steps, n)
         /\ Within(steps, n, o)
<1> DEFINE d == Data(steps[n])
<1>1. d \in Pieces /\ d \in Seq(Symbols) /\ Len(d) \in Nat \ {0}
  <2>1. d \in Seq(Bytes) \cup {Eof}
    BY ElementOfSeq, DataFacts
  <2>2. d \in Pieces
    BY <2>1 DEF Pieces
  <2> QED BY <2>2, PieceFacts
<1>2. o \in 0..(Len(d) - 1) /\ o \in 0..Len(d) /\ Within(steps, n, o)
  BY <1>1 DEF Position, Within
<1>3. /\ Rest(steps, n, o) \in Seq(Symbols) /\ Len(Rest(steps, n, o)) = Len(d) - o
      /\ \A i \in 1..(Len(d) - o) : Rest(steps, n, o)[i] = d[o + i]
      /\ Begun(steps, n, o) \in Seq(Symbols) /\ Cat(Begun(steps, n, o), Rest(steps, n, o)) = d
      /\ Len(Begun(steps, n, o)) = o
  BY <1>1, <1>2, Splits DEF Rest, Begun
<1>4. Len(d) - o \in Nat \ {0}
  BY <1>1, <1>2
<1>5. Rest(steps, n, o) = Eof \/ \A i \in 1..Len(Rest(steps, n, o)) : Rest(steps, n, o)[i] \in Bytes
  <2>1. CASE d = Eof
    <3>1. o = 0 /\ Len(d) = 1
      BY <1>2, <2>1, PieceFacts
    <3>2. Rest(steps, n, o) = SubSeq(d, 1, Len(d))
      BY <3>1 DEF Rest
    <3>3. Rest(steps, n, o) = d
      BY <1>1, <3>2, SubSeqFull
    <3> QED BY <2>1, <3>3
  <2>2. CASE d # Eof
    <3>1. \A i \in 1..Len(d) : d[i] \in Bytes
      BY <1>1, <2>2, PieceFacts
    <3>2. \A i \in 1..(Len(d) - o) : o + i \in 1..Len(d)
      BY <1>1, <1>2
    <3> QED BY <1>3, <3>1, <3>2
  <2> QED BY <2>1, <2>2
<1>6. Reads(steps)[n] = Cat(Read(steps, n, o), Rest(steps, n, o))
  <2>1. Reads(steps)[n] = Cat(Reads(steps)[n - 1], d) /\ Reads(steps)[n - 1] \in Seq(Symbols)
    BY ReadsEquation, ReadFacts DEF Position
  <2>2. CASE o = 0
    <3>1. Begun(steps, n, o) = <<>>
      BY <1>3, <2>2, EmptySeq
    <3>2. Rest(steps, n, o) = d
      BY <1>3, <3>1, CatEmpty
    <3> QED BY <2>1, <2>2, <3>2 DEF Read
  <2>3. CASE o # 0
    BY <1>3, <2>1, <2>3, CatAssociative DEF Read
  <2> QED BY <2>2, <2>3
<1>7. ~Terminal(steps, n)
  BY DEF Terminal
<1> QED BY <1>2, <1>3, <1>4, <1>5, <1>6, <1>7

\* The pieces that are queued, with the end of input as the last.
Clean(queue) == queue \in Seq(Pieces) /\ \A i \in 1..(Len(queue) - 1) : queue[i] # Eof

\* The queue after its first piece was compared.
After(queue, expected) ==
  IF Len(Head(queue)) > Len(expected)
  THEN <<SubSeq(Head(queue), Len(expected) + 1, Len(Head(queue)))>> \o Tail(queue)
  ELSE Tail(queue)

LEMMA QueueFacts ==
  ASSUME NEW queue, Clean(queue), queue # <<>>
  PROVE  /\ Head(queue) \in Pieces /\ Head(queue) = queue[1] /\ Tail(queue) \in Seq(Pieces)
         /\ Clean(Tail(queue))
         /\ Head(queue) = Eof => Tail(queue) = <<>>
         /\ FlattenSeq(queue) = Cat(Head(queue), FlattenSeq(Tail(queue)))
         /\ FlattenSeq(Tail(queue)) \in Seq(Symbols)
<1>1. /\ queue \in Seq(Pieces) /\ Len(queue) \in Nat \ {0} /\ Head(queue) = queue[1]
      /\ Head(queue) \in Pieces /\ Tail(queue) \in Seq(Pieces) /\ Len(Tail(queue)) = Len(queue) - 1
      /\ \A i \in 1..Len(Tail(queue)) : Tail(queue)[i] = queue[i + 1]
  BY HeadTailProperties, EmptySeq DEF Clean
<1>2. ASSUME NEW i \in 1..(Len(Tail(queue)) - 1) PROVE Tail(queue)[i] # Eof
  <2>1. i \in 1..Len(Tail(queue)) /\ i + 1 \in 1..(Len(queue) - 1)
    BY <1>1
  <2> QED BY <1>1, <2>1 DEF Clean
<1>3. ASSUME Head(queue) = Eof PROVE Tail(queue) = <<>>
  <2>1. ~(1 \in 1..(Len(queue) - 1))
    BY <1>1, <1>3 DEF Clean
  <2>2. Len(Tail(queue)) = 0
    BY <1>1, <2>1
  <2> QED BY <1>1, <2>2, EmptySeq
<1>4. queue \in Seq(Seq(Symbols))
  BY <1>1, FlattenFacts
<1> QED BY <1>1, <1>2, <1>3, <1>4, FlattenTail DEF Clean

LEMMA AfterFacts ==
  ASSUME NEW queue, Clean(queue), queue # <<>>, NEW expected \in Seq(Symbols),
         Len(expected) \in Nat \ {0}
  PROVE  /\ Clean(After(queue, expected))
         /\ Len(Head(queue)) > Len(expected) =>
              FlattenSeq(After(queue, expected))
                = Cat(SubSeq(Head(queue), Len(expected) + 1, Len(Head(queue))), FlattenSeq(Tail(queue)))
<1> DEFINE a == Head(queue)
           r == SubSeq(a, Len(expected) + 1, Len(a))
           q == <<r>> \o Tail(queue)
<1>1. a \in Pieces /\ a \in Seq(Symbols) /\ Len(a) \in Nat \ {0}
  BY QueueFacts, PieceFacts
<1>2. CASE ~(Len(a) > Len(expected))
  <2>1. After(queue, expected) = Tail(queue)
    BY <1>2 DEF After
  <2>2. Clean(Tail(queue))
    BY QueueFacts
  <2> QED BY <1>2, <2>1, <2>2
<1>3. CASE Len(a) > Len(expected)
  <2>1. a # Eof
    BY <1>3, PieceFacts
  <2>2. r \in Pieces
    <3>1. a \in Seq(Bytes)
      BY <1>1, <2>1 DEF Pieces
    <3>2. Len(expected) \in 0..Len(a)
      BY <1>1, <1>3
    <3>3. r \in Seq(Bytes) /\ Len(r) = Len(a) - Len(expected)
      BY <3>1, <3>2, Splits
    <3>4. Len(r) # 0
      BY <1>1, <1>3, <3>3
    <3>5. r # <<>>
      BY <3>4, EmptySeq
    <3> HIDE DEF r
    <3> QED BY <3>3, <3>5 DEF Pieces
  <2>3. r # Eof
    <3>1. a \in Seq(Bytes) /\ Len(expected) \in 0..Len(a)
      BY <1>1, <1>3, <2>1 DEF Pieces
    <3>2. r \in Seq(Bytes) /\ Len(r) = Len(a) - Len(expected)
      BY <3>1, Splits
    <3> HIDE DEF r
    <3>3. 1 \in 1..Len(r)
      BY <1>1, <1>3, <3>2
    <3>4. r[1] \in Bytes
      BY <3>2, <3>3, ElementOfSeq
    <3> QED BY <3>4, PieceFacts
  <2> HIDE DEF r
  <2>4. Tail(queue) \in Seq(Pieces) /\ Len(Tail(queue)) \in Nat /\ Clean(Tail(queue))
    <3>1. Tail(queue) \in Seq(Pieces) /\ Clean(Tail(queue))
      BY QueueFacts
    <3> QED BY <3>1, LenProperties
  <2>5. <<r>> \in Seq(Pieces) /\ Len(<<r>>) = 1 /\ <<r>>[1] = r
    BY <2>2
  <2>6. /\ q \in Seq(Pieces) /\ Len(q) = 1 + Len(Tail(queue))
        /\ \A i \in 1..Len(q) : q[i] = IF i <= 1 THEN <<r>>[i] ELSE Tail(queue)[i - 1]
    BY <2>4, <2>5, ConcatProperties
  <2>7. ASSUME NEW i \in 1..(Len(q) - 1) PROVE q[i] # Eof
    <3>1. CASE i = 1
      BY <2>3, <2>4, <2>5, <2>6, <3>1
    <3>2. CASE i # 1
      <4>1. i - 1 \in 1..(Len(Tail(queue)) - 1) /\ i \in 1..Len(q) /\ ~(i <= 1)
        BY <2>4, <2>6, <3>2
      <4> QED BY <2>4, <2>6, <4>1 DEF Clean
    <3> QED BY <3>1, <3>2
  <2>8. q # <<>>
    BY <2>4, <2>6
  <2>9. Head(q) = r /\ Tail(q) = Tail(queue)
    <3>1. Head(q) = q[1] /\ q[1] = r
      BY <2>4, <2>5, <2>6, <2>8, HeadTailProperties
    <3>2. /\ Tail(q) \in Seq(Pieces) /\ Len(Tail(q)) = Len(q) - 1
          /\ \A i \in 1..Len(Tail(q)) : Tail(q)[i] = q[i + 1]
      BY <2>6, <2>8, HeadTailProperties
    <3>3. ASSUME NEW i \in 1..Len(Tail(q)) PROVE Tail(q)[i] = Tail(queue)[i]
      <4>1. i + 1 \in 1..Len(q) /\ ~(i + 1 <= 1) /\ (i + 1) - 1 = i
        BY <2>4, <2>6, <3>2
      <4> QED BY <2>6, <3>2, <4>1
    <3>4. Len(Tail(q)) = Len(Tail(queue))
      BY <2>4, <2>6, <3>2
    <3>5. Tail(q) = Tail(queue)
      BY <2>4, <3>2, <3>3, <3>4, SeqEqual
    <3> QED BY <3>1, <3>5
  <2> HIDE DEF q
  <2>10. Clean(q)
    BY <2>6, <2>7 DEF Clean
  <2>11. FlattenSeq(q) = Cat(r, FlattenSeq(Tail(queue)))
    BY <2>8, <2>9, <2>10, QueueFacts
  <2>12. After(queue, expected) = q
    BY <1>3 DEF After, q, r
  <2> QED BY <2>10, <2>11, <2>12 DEF r
<1> QED BY <1>2, <1>3
LEMMA BeginningGrows ==
  ASSUME NEW S, NEW d \in Seq(S), NEW a \in Seq(S), NEW o \in 0..Len(d), o + Len(a) <= Len(d),
         \A i \in 1..Len(a) : a[i] = d[o + i]
  PROVE  SubSeq(d, 1, o + Len(a)) = Cat(SubSeq(d, 1, o), a)
<1> DEFINE x == SubSeq(d, 1, o)
           z == SubSeq(d, 1, o + Len(a))
<1>1. Len(a) \in Nat /\ Len(d) \in Nat /\ o + Len(a) \in 0..Len(d)
  BY LenProperties
<1>2. x \in Seq(S) /\ Len(x) = o /\ \A i \in 1..o : x[i] = d[i]
  BY Splits
<1>3. z \in Seq(S) /\ Len(z) = o + Len(a) /\ \A i \in 1..(o + Len(a)) : z[i] = d[i]
  BY <1>1, Splits
<1> HIDE DEF x, z
<1>4. /\ Cat(x, a) \in Seq(S) /\ Len(Cat(x, a)) = o + Len(a)
      /\ \A i \in 1..(o + Len(a)) : Cat(x, a)[i] = IF i <= o THEN x[i] ELSE a[i - o]
  BY <1>2, CatType, CatElements
<1>5. ASSUME NEW i \in 1..(o + Len(a)) PROVE z[i] = Cat(x, a)[i]
  <2>1. CASE i <= o
    <3>1. i \in 1..o
      BY <1>1, <2>1
    <3> QED BY <1>2, <1>3, <1>4, <2>1, <3>1
  <2>2. CASE ~(i <= o)
    <3>1. i - o \in 1..Len(a) /\ o + (i - o) = i
      BY <1>1, <2>2
    <3> QED BY <1>3, <1>4, <2>2, <3>1
  <2> QED BY <2>1, <2>2
<1>6. z = Cat(x, a)
  BY <1>3, <1>4, <1>5, SeqEqual
<1> QED BY <1>6 DEF x, z

\* The driver is in a Receive step that reads something, and has a piece to compare.
Receiving(steps, n, o, t, queue, got) ==
  /\ Position(steps, n, o, t, queue, got)
  /\ n \in 1..Len(steps) /\ steps[n].kind = "receive" /\ Data(steps[n]) # <<>>
  /\ Clean(queue) /\ queue # <<>>

LEMMA ReceivingFacts ==
  ASSUME NEW steps \in Seq(Steps), NEW n, NEW o, NEW t, NEW queue, NEW got,
         Receiving(steps, n, o, t, queue, got)
  PROVE  /\ Rest(steps, n, o) \in Seq(Symbols) /\ Len(Rest(steps, n, o)) \in Nat \ {0}
         /\ Head(queue) \in Seq(Symbols) /\ Len(Head(queue)) \in Nat \ {0}
         /\ FlattenSeq(Tail(queue)) \in Seq(Symbols) /\ Read(steps, n, o) \in Seq(Symbols)
         /\ FlattenSeq(got) = Cat(Read(steps, n, o), Cat(Head(queue), FlattenSeq(Tail(queue))))
         /\ FlattenSeq(got) = Cat(Cat(Read(steps, n, o), Head(queue)), FlattenSeq(Tail(queue)))
         /\ ~Terminal(steps, n) /\ Goes(steps, n) /\ n \in 1..Len(steps) /\ Within(steps, n, o)
         /\ Reads(steps)[n] = Cat(Read(steps, n, o), Rest(steps, n, o))
<1>1. /\ Position(steps, n, o, t, queue, got) /\ n \in 1..Len(steps) /\ steps[n].kind = "receive"
      /\ Data(steps[n]) # <<>> /\ Clean(queue) /\ queue # <<>>
  BY DEF Receiving
<1>2. /\ Rest(steps, n, o) \in Seq(Symbols) /\ Len(Rest(steps, n, o)) \in Nat \ {0}
      /\ Reads(steps)[n] = Cat(Read(steps, n, o), Rest(steps, n, o))
      /\ ~Terminal(steps, n) /\ Within(steps, n, o)
  BY <1>1, RestFacts
<1>3. /\ Head(queue) \in Pieces /\ FlattenSeq(Tail(queue)) \in Seq(Symbols)
      /\ FlattenSeq(queue) = Cat(Head(queue), FlattenSeq(Tail(queue)))
  BY <1>1, QueueFacts
<1>4. Head(queue) \in Seq(Symbols) /\ Len(Head(queue)) \in Nat \ {0}
  BY <1>3, PieceFacts
<1>5. n \in 1..(Len(steps) + 1) /\ (o = 0 \/ Within(steps, n, o)) /\ Goes(steps, n)
  BY <1>1 DEF Position
<1>6. Read(steps, n, o) \in Seq(Symbols)
  BY <1>5, ReadFacts
<1>7. FlattenSeq(got) = Cat(Read(steps, n, o), FlattenSeq(queue))
  BY <1>1 DEF Position
<1> QED BY <1>1, <1>2, <1>3, <1>4, <1>5, <1>6, <1>7, CatAssociative

\* The step gets all that it still expects, and what comes after that stays queued.
LEMMA PositionReceives ==
  ASSUME NEW steps \in Seq(Steps), NEW n, NEW o, NEW t, NEW queue, NEW got,
         Receiving(steps, n, o, t, queue, got),
         Len(Head(queue)) >= Len(Rest(steps, n, o)),
         \A i \in 1..Len(Rest(steps, n, o)) : Rest(steps, n, o)[i] = Head(queue)[i]
  PROVE  Position(steps, n + 1, 0, t, After(queue, Rest(steps, n, o)), got)
<1> DEFINE a == Head(queue)
           e == Rest(steps, n, o)
           s == SubSeq(a, Len(e) + 1, Len(a))
           r == Read(steps, n, o)
           v == FlattenSeq(Tail(queue))
<1>1. /\ e \in Seq(Symbols) /\ Len(e) \in Nat \ {0} /\ a \in Seq(Symbols) /\ Len(a) \in Nat \ {0}
      /\ v \in Seq(Symbols) /\ r \in Seq(Symbols) /\ FlattenSeq(got) = Cat(r, Cat(a, v))
      /\ ~Terminal(steps, n) /\ Goes(steps, n) /\ n \in 1..Len(steps)
      /\ Reads(steps)[n] = Cat(r, e)
  BY ReceivingFacts
<1>2. Len(e) \in 0..Len(a)
  BY <1>1
<1>3. s \in Seq(Symbols) /\ Len(s) = Len(a) - Len(e) /\ a = Cat(e, s)
  <2>1. s \in Seq(Symbols) /\ Len(s) = Len(a) - Len(e)
    <3> HIDE DEF a, e
    <3> QED BY <1>1, <1>2, Splits
  <2>2. Len(e) <= Len(a) /\ \A i \in 1..Len(e) : e[i] = a[i]
    BY <1>1
  <2>3. a = Cat(e, s)
    <3> HIDE DEF a, e
    <3> QED BY <1>1, <2>2, StreamContinues
  <2> QED BY <2>1, <2>3
<1>4. FlattenSeq(After(queue, e)) = Cat(s, v)
  <2>1. CASE Len(a) > Len(e)
    BY <1>1, <2>1, AfterFacts DEF Receiving
  <2>2. CASE ~(Len(a) > Len(e))
    <3>1. s = <<>>
      <4>1. Len(s) = 0
        BY <1>1, <1>2, <1>3, <2>2
      <4> HIDE DEF s
      <4> QED BY <1>3, <4>1, EmptySeq
    <3>2. After(queue, e) = Tail(queue)
      BY <2>2 DEF After
    <3>3. Cat(<<>>, v) = v
      BY <1>1, CatEmpty
    <3> HIDE DEF s
    <3> QED BY <3>1, <3>2, <3>3
  <2> QED BY <2>1, <2>2
<1> HIDE DEF a, e, s, r, v
<1>5. Cat(r, Cat(a, v)) = Cat(Cat(r, e), Cat(s, v))
  <2>1. Cat(a, v) = Cat(e, Cat(s, v))
    BY <1>1, <1>3, CatAssociative
  <2>2. Cat(s, v) \in Seq(Symbols)
    BY <1>1, <1>3, CatType
  <2> QED BY <1>1, <2>1, <2>2, CatAssociative
<1>6. n + 1 \in 1..(Len(steps) + 1) /\ (n + 1) - 1 = n
  BY <1>1, LenProperties
<1>7. Goes(steps, n + 1)
  BY <1>1, LastStepAfter
<1>8. t = Advanced(steps)[n]
  <2>1. Seconds(steps[n]) = 0 /\ t = Advanced(steps)[n - 1]
    BY DEF Receiving, Position, Seconds
  <2>2. Advanced(steps)[n] = Advanced(steps)[n - 1] + Seconds(steps[n])
    BY <1>1, AdvancedEquation
  <2>3. Advanced(steps)[n - 1] \in Nat
    <3>1. n - 1 \in 0..Len(steps)
      BY <1>1, LenProperties
    <3> QED BY <3>1, AdvancedEquation
  <2> QED BY <2>1, <2>2, <2>3
<1>9. Read(steps, n + 1, 0) = Cat(r, e)
  BY <1>1, <1>6 DEF Read
<1>10. Position(steps, n + 1, 0, t, After(queue, e), got)
  BY <1>1, <1>4, <1>5, <1>6, <1>7, <1>8, <1>9 DEF Position
<1> QED BY <1>10 DEF e

\* The step gets some of it.
LEMMA PositionMoves ==
  ASSUME NEW steps \in Seq(Steps), NEW n, NEW o, NEW t, NEW queue, NEW got,
         Receiving(steps, n, o, t, queue, got),
         Len(Head(queue)) < Len(Rest(steps, n, o)),
         \A i \in 1..Len(Head(queue)) : Rest(steps, n, o)[i] = Head(queue)[i]
  PROVE  Position(steps, n, o + Len(Head(queue)), t, After(queue, Rest(steps, n, o)), got)
<1> DEFINE a == Head(queue)
           e == Rest(steps, n, o)
           d == Data(steps[n])
           r == Read(steps, n, o)
           v == FlattenSeq(Tail(queue))
<1>1. /\ e \in Seq(Symbols) /\ Len(e) \in Nat \ {0} /\ a \in Seq(Symbols) /\ Len(a) \in Nat \ {0}
      /\ v \in Seq(Symbols) /\ r \in Seq(Symbols) /\ FlattenSeq(got) = Cat(Cat(r, a), v)
      /\ n \in 1..Len(steps) /\ Within(steps, n, o)
  BY ReceivingFacts
<1>2. d \in Seq(Symbols) /\ Len(d) \in Nat /\ o \in 0..(Len(d) - 1) /\ o \in 0..Len(d)
  <2>1. d \in Seq(Symbols)
    BY <1>1, ElementOfSeq, DataFacts
  <2> QED BY <1>1, <2>1, LenProperties DEF Within
<1>3. Len(e) = Len(d) - o /\ \A i \in 1..(Len(d) - o) : e[i] = d[o + i]
  BY <1>2, Splits DEF Rest
<1>4. /\ Begun(steps, n, o) \in Seq(Symbols) /\ Len(Begun(steps, n, o)) = o
      /\ SubSeq(d, 1, o + Len(a)) = Cat(Begun(steps, n, o), a)
  <2>1. SubSeq(d, 1, o) \in Seq(Symbols) /\ Len(SubSeq(d, 1, o)) = o
    BY <1>2, Splits
  <2>2. o + Len(a) <= Len(d)
    BY <1>1, <1>2, <1>3
  <2>3. \A i \in 1..Len(a) : a[i] = d[o + i]
    <3>1. \A i \in 1..Len(a) : i \in 1..(Len(d) - o)
      BY <1>1, <1>2, <1>3
    <3> QED BY <1>3, <3>1
  <2>4. SubSeq(d, 1, o + Len(a)) = Cat(SubSeq(d, 1, o), a)
    <3> HIDE DEF a, d
    <3> QED BY <1>1, <1>2, <2>2, <2>3, BeginningGrows
  <2> QED BY <2>1, <2>4 DEF Begun
<1>5. o + Len(a) \in 0..(Len(d) - 1) /\ o + Len(a) # 0
  BY <1>1, <1>2, <1>3
<1>6. After(queue, e) = Tail(queue)
  BY <1>1 DEF After
<1>7. Within(steps, n, o + Len(a))
  BY <1>1, <1>5 DEF Within
<1>8. Read(steps, n, o + Len(a)) = Cat(r, a)
  <2>1. Reads(steps)[n - 1] \in Seq(Symbols)
    <3>1. n \in 1..(Len(steps) + 1)
      BY <1>1, LenProperties
    <3> QED BY <1>1, <3>1, ReadFacts
  <2>2. Read(steps, n, o + Len(a)) = Cat(Reads(steps)[n - 1], Cat(Begun(steps, n, o), a))
    BY <1>4, <1>5 DEF Read, Begun
  <2>3. CASE o = 0
    <3>1. Begun(steps, n, o) = <<>>
      BY <1>4, <2>3, EmptySeq
    <3>2. Cat(<<>>, a) = a
      BY <1>1, CatEmpty
    <3> QED BY <2>2, <2>3, <3>1, <3>2 DEF Read
  <2>4. CASE o # 0
    BY <1>1, <1>4, <2>1, <2>2, <2>4, CatAssociative DEF Read
  <2> QED BY <2>3, <2>4
<1>9. Position(steps, n, o, t, queue, got)
  BY DEF Receiving
<1> HIDE DEF a, e, d, r, v
<1>10. FlattenSeq(got) = Cat(Read(steps, n, o + Len(a)), FlattenSeq(After(queue, e)))
  BY <1>1, <1>6, <1>8 DEF v
<1>11. Position(steps, n, o + Len(a), t, After(queue, e), got)
  BY <1>7, <1>9, <1>10 DEF Position
<1> QED BY <1>11 DEF a, e

\* It gets something else.
LEMMA StreamsDiffer ==
  ASSUME NEW steps \in Seq(Steps), NEW n, NEW o, NEW t, NEW queue, NEW got,
         Receiving(steps, n, o, t, queue, got),
         NEW i \in 1..Len(Rest(steps, n, o)), i \in 1..Len(Head(queue)),
         Rest(steps, n, o)[i] # Head(queue)[i]
  PROVE  VerdictOf(steps, FlattenSeq(got)) = "unexpected_input"
<1> DEFINE a == Head(queue)
           e == Rest(steps, n, o)
           r == Read(steps, n, o)
           v == FlattenSeq(Tail(queue))
<1>1. /\ e \in Seq(Symbols) /\ a \in Seq(Symbols) /\ v \in Seq(Symbols) /\ r \in Seq(Symbols)
      /\ FlattenSeq(got) = Cat(Cat(r, a), v) /\ Reads(steps)[n] = Cat(r, e)
      /\ ~Terminal(steps, n) /\ Goes(steps, n) /\ n \in 1..Len(steps)
  BY ReceivingFacts
<1>2. PICK more \in Seq(Symbols) :
        Wanted(steps) = Cat(Cat(Reads(steps)[n - 1], Data(steps[n])), more)
  BY <1>1, WantedContinues
<1>3. Wanted(steps) = Cat(Cat(r, e), more)
  BY <1>1, <1>2, ReadsEquation
<1>4. ~IsPrefix(Cat(Cat(r, e), more), Cat(Cat(r, a), v))
  <2>1. i \in 1..Len(e) /\ i \in 1..Len(a) /\ e[i] # a[i]
    OBVIOUS
  <2> HIDE DEF a, e, r, v
  <2> QED BY <1>1, <2>1, PrefixDiffers
<1>5. ~IsPrefix(Wanted(steps), FlattenSeq(got))
  BY <1>1, <1>3, <1>4
<1> QED BY <1>5 DEF VerdictOf

\* The end of input differs from all that is not the end of input.
LEMMA EofDiffers ==
  ASSUME NEW steps \in Seq(Steps), NEW n, NEW o, NEW t, NEW queue, NEW got,
         Receiving(steps, n, o, t, queue, got), (Rest(steps, n, o) = Eof) # (Head(queue) = Eof)
  PROVE  1 \in 1..Len(Rest(steps, n, o)) /\ 1 \in 1..Len(Head(queue))
         /\ Rest(steps, n, o)[1] # Head(queue)[1]
<1> DEFINE a == Head(queue)
           e == Rest(steps, n, o)
<1>1. Len(e) \in Nat \ {0} /\ Len(a) \in Nat \ {0}
  BY ReceivingFacts
<1>2. 1 \in 1..Len(e) /\ 1 \in 1..Len(a)
  BY <1>1
<1>3. a = Eof \/ a[1] \in Bytes
  BY <1>2, QueueFacts, PieceFacts DEF Receiving
<1>4. e = Eof \/ e[1] \in Bytes
  BY <1>2, RestFacts DEF Receiving
<1> HIDE DEF a, e
<1>5. e[1] # a[1]
  BY <1>3, <1>4, PieceFacts DEF a, e
<1> QED BY <1>2, <1>5 DEF a, e

-----------------------------------------------------------------------------
(* The verdicts at the end of a script.                                     *)

LEMMA ScriptRaises ==
  ASSUME NEW steps \in Seq(Steps), NEW n \in 1..Len(steps), NEW o, NEW t, NEW queue \in Seq(Pieces),
         NEW got, Position(steps, n, o, t, queue, got), Terminal(steps, n)
  PROVE  VerdictOf(steps, FlattenSeq(got))
           = IF steps[n].kind = "advance" THEN "timeout" ELSE steps[n].failure
<1>1. Len(steps) \in Nat /\ n \in 1..(Len(steps) + 1) /\ ~(n > Len(steps))
  BY LenProperties
<1>2. LastStep(steps) = n
  BY <1>1, LastStepIs DEF Position, Ends
<1>3. o = 0
  BY DEF Position, Within, Terminal
<1>4. Reads(steps)[n - 1] \in Seq(Symbols) /\ FlattenSeq(queue) \in Seq(Symbols)
  BY <1>1, <1>3, ReadFacts, FlattenFacts
<1>5. FlattenSeq(got) = Cat(Reads(steps)[n - 1], FlattenSeq(queue))
  BY <1>3 DEF Position, Read
<1>6. IsPrefix(Wanted(steps), FlattenSeq(got))
  BY <1>2, <1>4, <1>5, PrefixOfConcat DEF Wanted
<1> QED BY <1>1, <1>2, <1>6 DEF VerdictOf

\* The first element of a stream, and of what comes after one.
LEMMA CatFirst ==
  ASSUME NEW S, NEW a \in Seq(S), NEW b \in Seq(S), 1 \in 1..Len(a)
  PROVE  Cat(a, b)[1] = a[1]
<1>1. 1 \in 1..(Len(a) + Len(b)) /\ 1 <= Len(a)
  BY LenProperties
<1> QED BY <1>1, CatElements

LEMMA CatNext ==
  ASSUME NEW S, NEW a \in Seq(S), NEW b \in Seq(S), 1 \in 1..Len(b), NEW k, k = Len(a) + 1
  PROVE  Cat(a, b)[k] = b[1]
<1>1. k \in 1..(Len(a) + Len(b)) /\ ~(k <= Len(a)) /\ k - Len(a) = 1
  BY LenProperties
<1>2. Cat(a, b)[k] = IF k <= Len(a) THEN a[k] ELSE b[k - Len(a)]
  BY <1>1, CatElements
<1> QED BY <1>1, <1>2

\* A queue that holds input does not flatten to nothing, or to the end of input.
LEMMA QueueOfInput ==
  ASSUME NEW queue, Clean(queue), NEW w \in Seq(Symbols)
  PROVE  IF \E i \in DOMAIN queue : queue[i] # Eof
         THEN Cat(w, FlattenSeq(queue)) # w /\ Cat(w, FlattenSeq(queue)) # Cat(w, Eof)
         ELSE Cat(w, FlattenSeq(queue)) \in {w, Cat(w, Eof)}
<1>1. queue \in Seq(Pieces) /\ Len(queue) \in Nat /\ DOMAIN queue = 1..Len(queue)
  BY LenProperties DEF Clean
<1>2. CASE queue = <<>>
  <2>1. DOMAIN queue = {} /\ Cat(w, <<>>) = w
    BY <1>2, CatEmpty
  <2> QED BY <1>2, <2>1, FlattenNothing
<1>3. CASE queue # <<>>
  <2> DEFINE a == Head(queue)
             v == FlattenSeq(Tail(queue))
             f == FlattenSeq(queue)
  <2>1. /\ a \in Pieces /\ a = queue[1] /\ v \in Seq(Symbols) /\ f = Cat(a, v)
        /\ a = Eof => Tail(queue) = <<>>
        /\ a \in Seq(Symbols) /\ Len(a) \in Nat \ {0}
        /\ a = Eof \/ \A i \in 1..Len(a) : a[i] \in Bytes
    BY <1>3, QueueFacts, PieceFacts
  <2>2. Len(queue) # 0
    BY <1>1, <1>3, EmptySeq
  <2>3. CASE a = Eof
    <3>1. v = <<>>
      BY <2>1, <2>3, FlattenNothing
    <3>2. f = Eof
      BY <2>1, <2>3, <3>1, CatEmpty
    <3>3. Len(queue) = 1
      <4>1. Tail(queue) = <<>> /\ Len(Tail(queue)) = Len(queue) - 1
        BY <1>1, <1>3, <2>1, <2>3, HeadTailProperties
      <4> QED BY <1>1, <4>1
    <3>4. \A i \in DOMAIN queue : queue[i] = Eof
      BY <1>1, <2>1, <2>3, <3>3
    <3> QED BY <3>2, <3>4
  <2>4. CASE a # Eof
    <3>1. 1 \in DOMAIN queue /\ queue[1] # Eof
      BY <1>1, <2>1, <2>2, <2>4
    <3>2. 1 \in 1..Len(a) /\ a[1] \in Bytes
      BY <2>1, <2>4
    <3>3. /\ Len(w) \in Nat /\ Len(v) \in Nat /\ Len(Eof) = 1 /\ Eof[1] = "eof"
          /\ Eof \in Seq(Symbols) /\ f \in Seq(Symbols) /\ Len(f) = Len(a) + Len(v)
      BY <2>1, PieceFacts, CatType, CatElements, LenProperties
    <3>4. f[1] = a[1]
      <4> HIDE DEF a, v, f
      <4> QED BY <2>1, <3>2, CatFirst
    <3> HIDE DEF a, v, f
    <3>5. PICK k \in Nat : k = Len(w) + 1
      BY <3>3
    <3>6. Cat(w, f)[k] = f[1] /\ Len(Cat(w, f)) = Len(w) + Len(f)
      <4>1. 1 \in 1..Len(f)
        BY <2>1, <3>3
      <4>2. Cat(w, f)[k] = f[1]
        BY <3>3, <3>5, <4>1, CatNext
      <4> QED BY <3>3, <4>2, CatElements
    <3>7. Cat(w, Eof)[k] = "eof"
      <4>1. 1 \in 1..Len(Eof)
        BY <3>3
      <4> QED BY <3>3, <3>5, <4>1, CatNext
    <3>8. Len(Cat(w, f)) # Len(w)
      BY <2>1, <3>3, <3>6
    <3>9. Cat(w, f) # w /\ Cat(w, f) # Cat(w, Eof)
      BY <3>2, <3>4, <3>6, <3>7, <3>8, PieceFacts
    <3> QED BY <3>1, <3>9 DEF f
  <2> QED BY <2>3, <2>4
<1> QED BY <1>2, <1>3

LEMMA ScriptEnds ==
  ASSUME NEW steps \in Seq(Steps), NEW n, NEW o, NEW t, NEW queue, NEW got,
         Position(steps, n, o, t, queue, got), n > Len(steps), Clean(queue)
  PROVE  VerdictOf(steps, FlattenSeq(got))
           = IF \E i \in DOMAIN queue : queue[i] # Eof THEN "unexpected_input" ELSE "exited"
<1>1. Len(steps) \in Nat /\ n \in 1..(Len(steps) + 1) /\ o = 0
  BY LenProperties DEF Position, Within
<1>2. LastStep(steps) = n
  BY <1>1, LastStepIs DEF Position, Ends
<1> DEFINE w == Reads(steps)[n - 1]
           f == FlattenSeq(queue)
<1>3. w \in Seq(Symbols) /\ f \in Seq(Symbols)
  BY <1>1, ReadFacts, FlattenFacts DEF Clean
<1>4. FlattenSeq(got) = Cat(w, f) /\ Wanted(steps) = w
  BY <1>1, <1>2 DEF Position, Read, Wanted
<1>5. IsPrefix(w, Cat(w, f))
  BY <1>3, PrefixOfConcat
<1>6. IF \E i \in DOMAIN queue : queue[i] # Eof
      THEN Cat(w, f) # w /\ Cat(w, f) # Cat(w, Eof)
      ELSE Cat(w, f) \in {w, Cat(w, Eof)}
  BY <1>3, QueueOfInput
<1>7. VerdictOf(steps, FlattenSeq(got))
        = IF Cat(w, f) \in {w, Cat(w, Eof)} THEN "exited" ELSE "unexpected_input"
  <2> HIDE DEF w, f
  <2>1. LastStep(steps) > Len(steps)
    BY <1>2
  <2> QED BY <1>4, <1>5, <2>1 DEF VerdictOf, Cat
<1> HIDE DEF w, f
<1> QED BY <1>6, <1>7

\* A driver that waits for input has got less than it wants.
LEMMA WaitsForMore ==
  ASSUME NEW steps \in Seq(Steps), NEW n \in 1..Len(steps), NEW o, NEW t, NEW got,
         Position(steps, n, o, t, <<>>, got), steps[n].kind = "receive", Data(steps[n]) # <<>>
  PROVE  IsStrictPrefix(FlattenSeq(got), Wanted(steps))
<1> DEFINE e == Rest(steps, n, o)
           r == Read(steps, n, o)
<1>1. /\ e \in Seq(Symbols) /\ Len(e) \in Nat \ {0} /\ Reads(steps)[n] = Cat(r, e)
      /\ ~Terminal(steps, n)
  BY RestFacts
<1>2. r \in Seq(Symbols) /\ Goes(steps, n)
  BY ReadFacts DEF Position
<1>3. FlattenSeq(got) = r
  BY <1>2, FlattenNothing, CatEmpty DEF Position
<1>4. PICK more \in Seq(Symbols) :
        Wanted(steps) = Cat(Cat(Reads(steps)[n - 1], Data(steps[n])), more)
  BY <1>1, <1>2, WantedContinues
<1> HIDE DEF e, r
<1>5. Wanted(steps) = Cat(r, Cat(e, more))
  <2>1. Wanted(steps) = Cat(Cat(r, e), more)
    BY <1>1, <1>4, ReadsEquation
  <2> QED BY <1>1, <1>2, <2>1, CatAssociative
<1>6. Cat(e, more) \in Seq(Symbols) /\ Len(Cat(e, more)) = Len(e) + Len(more) /\ Len(more) \in Nat
  BY <1>1, CatType, CatElements
<1>7. IsPrefix(r, Wanted(steps))
  BY <1>2, <1>5, <1>6, PrefixOfConcat
<1>8. Len(Wanted(steps)) = Len(r) + (Len(e) + Len(more)) /\ Len(r) \in Nat
  BY <1>2, <1>5, <1>6, CatElements
<1>9. r # Wanted(steps)
  BY <1>1, <1>6, <1>8
<1> QED BY <1>3, <1>7, <1>9 DEF IsStrictPrefix

-----------------------------------------------------------------------------
(* The stream that a command is sent.                                       *)

Audible == /\ \A i \in 1..Len(expectations) : Hears(expectations[i])
           /\ \A c \in Commands : Hears(reservation[c])
           /\ Hears(playing)

StreamVerdicts == {"exited", "unexpected_input", "timeout", "input", "startup", "session"}

Told(verdict) == verdict \in StreamVerdicts => verdict = VerdictOf(playing.steps, FlattenSeq(sent))

Stream ==
  /\ Audible /\ Clean(inputs) /\ sent \in Seq(Pieces)
  /\ mode = "off" => sent = <<>>
  /\ mode \in Busy => Position(playing.steps, step, offset, spent, inputs, sent)
  /\ mode = "blocked" => step <= Len(playing.steps) /\ playing.steps[step].kind = "receive"
  /\ mode = "ended" => Told(outcome[active])

LEMMA NothingIsClean == Clean(<<>>) /\ <<>> \in Seq(Pieces)
<1>1. Len(<<>>) = 0 /\ <<>> \in Seq(Pieces)
  OBVIOUS
<1> QED BY <1>1 DEF Clean

LEMMA NoExpectationHears ==
  Hears(NoExpectation) /\ \A c \in Commands : Hears([NoExpectation EXCEPT !.command = Submissions[c]])
BY DEF Hears, NoExpectation

\* The step that the driver is on.
LEMMA StepsFacts ==
  ASSUME Inv, Stream, mode \in Busy
  PROVE  /\ playing.steps \in Seq(Steps) /\ step \in 1..(Len(playing.steps) + 1)
         /\ Len(playing.steps) \in Nat
         /\ Position(playing.steps, step, offset, spent, inputs, sent)
         /\ step <= Len(playing.steps) =>
              /\ step \in 1..Len(playing.steps) /\ playing.steps[step] \in Steps
              /\ playing.steps[step].kind = "receive" =>
                   /\ Data(playing.steps[step]) = playing.steps[step].data
                   /\ Data(playing.steps[step]) # <<>>
<1>1. playing.steps \in Seq(Steps)
  BY DEF Inv, Shape, Expectation
<1>2. /\ step \in 1..(Len(playing.steps) + 1) /\ Len(playing.steps) \in Nat
      /\ Position(playing.steps, step, offset, spent, inputs, sent)
  BY StepNumbers DEF Stream
<1>3. ASSUME step <= Len(playing.steps)
      PROVE  /\ step \in 1..Len(playing.steps) /\ playing.steps[step] \in Steps
             /\ playing.steps[step].kind = "receive" =>
                  /\ Data(playing.steps[step]) = playing.steps[step].data
                  /\ Data(playing.steps[step]) # <<>>
  <2>1. step \in 1..Len(playing.steps) /\ step \in DOMAIN playing.steps
    BY <1>1, <1>2, <1>3
  <2>2. playing.steps[step] \in Steps
    BY <1>1, <2>1, ElementOfSeq
  <2>3. playing.steps[step].kind = "receive" => playing.steps[step].data # <<>>
    BY <2>1 DEF Stream, Audible, Hears
  <2> QED BY <2>1, <2>2, <2>3 DEF Data
<1> QED BY <1>1, <1>2, <1>3

LEMMA StreamInit ==
  ASSUME ReceivesInput, Init
  PROVE  Stream
<1>1. /\ expectations \in Scenarios /\ inputs = <<>> /\ sent = <<>> /\ mode = "off"
      /\ playing = NoExpectation /\ \A c \in Commands : reservation[c] = NoExpectation
  BY DEF Init
<1>2. \A i \in 1..Len(expectations) : Hears(expectations[i])
  <2>1. expectations \in Seq(Expectation)
    BY <1>1, ConstantFacts
  <2>2. DOMAIN expectations = 1..Len(expectations)
    BY <2>1, LenProperties
  <2> QED BY <1>1, <2>2 DEF ReceivesInput
<1>3. Audible
  BY <1>1, <1>2, NoExpectationHears DEF Audible
<1> QED BY <1>1, <1>3, NothingIsClean DEF Stream, Busy

\* Steps that leave the driver and its input alone.
LEMMA StreamFrame ==
  ASSUME Stream, expectations' = expectations, playing' = playing, inputs' = inputs, sent' = sent,
         \A c \in Commands : Hears(reservation'[c]),
         mode' = mode, step' = step, offset' = offset, spent' = spent,
         mode = "ended" => outcome'[active'] = outcome[active]
  PROVE  Stream'
BY DEF Stream, Audible, Told

LEMMA SubmitKeepsStream ==
  ASSUME Inv, Stream, NEW c \in Commands, Submit(c)
  PROVE  Stream'
<1>1. /\ expectations' = expectations /\ playing' = playing /\ inputs' = inputs /\ sent' = sent
      /\ mode' = mode /\ step' = step /\ offset' = offset /\ spent' = spent /\ outcome' = outcome
      /\ active' = active
  BY DEF Submit, play_vars, input_vars
<1>2. \A d \in Commands : Hears(reservation'[d])
  <2>1. \A d \in Commands : Hears(reservation[d])
    BY DEF Stream, Audible
  <2>2. CASE Matches(c) \/ ~strict
    <3>1. reservation' = [reservation EXCEPT ![c] = Reserved(c)]
      BY <2>2 DEF Submit
    <3>2. Hears(Reserved(c))
      <4>1. CASE Matches(c)
        <5>1. cursor + 1 \in 1..Len(expectations)
          <6>1. Len(expectations) \in Nat /\ cursor \in Nat
            BY LenProperties DEF Inv, Shape
          <6> QED BY <4>1, <6>1 DEF Matches
        <5> QED BY <4>1, <5>1 DEF Reserved, Stream, Audible
      <4>2. CASE ~Matches(c)
        BY <4>2, NoExpectationHears DEF Reserved
      <4> QED BY <4>1, <4>2
    <3>3. \A d \in Commands : reservation'[d] = IF d = c THEN Reserved(c) ELSE reservation[d]
      BY <3>1 DEF Inv, Shape
    <3> QED BY <2>1, <3>2, <3>3
  <2>3. CASE ~(Matches(c) \/ ~strict)
    BY <2>1, <2>3 DEF Submit
  <2> QED BY <2>2, <2>3
<1> QED BY <1>1, <1>2, StreamFrame

\* A command that never runs, a wait, and the end of the session.
LEMMA OthersKeepStream ==
  ASSUME Inv, Stream,
         \/ \E c \in Commands : Skip(c)
         \/ \E c \in Watched : BeginWait(c) \/ CheckWait(c) \/ EndWait(c)
         \/ Leave
  PROVE  Stream'
<1>1. /\ expectations' = expectations /\ playing' = playing /\ inputs' = inputs /\ sent' = sent
      /\ mode' = mode /\ step' = step /\ offset' = offset /\ spent' = spent
      /\ active' = active /\ reservation' = reservation
  BY DEF Skip, BeginWait, CheckWait, EndWait, Waits, Leave, scenario_vars, play_vars, input_vars
<1>2. mode = "ended" => outcome'[active] = outcome[active]
  <2>1. CASE \E c \in Commands : Skip(c)
    <3>1. PICK c \in Commands : Skip(c)
      BY <2>1
    <3>2. stage[c] = "queued" /\ outcome' = [outcome EXCEPT ![c] = "stopped"]
      BY <3>1 DEF Skip
    <3>3. mode = "ended" => stage[active] = "active"
      BY DEF Inv, Current
    <3> QED BY <3>2, <3>3 DEF Inv, Shape
  <2>2. CASE ~\E c \in Commands : Skip(c)
    BY <2>2 DEF BeginWait, CheckWait, EndWait, Waits, Leave
  <2> QED BY <2>1, <2>2
<1>3. \A c \in Commands : Hears(reservation'[c])
  BY <1>1 DEF Stream, Audible
<1> QED BY <1>1, <1>2, <1>3, StreamFrame

LEMMA LeftKeepsStream ==
  ASSUME Inv, Stream, Left
  PROVE  Stream'
<1>1. /\ Pending = {} /\ inputs' = <<>> /\ UNCHANGED <<scenario_vars, play_vars, sent, outcome, mode>>
  BY DEF Left
<1>2. mode = "off"
  <2>1. ASSUME mode # "off" PROVE FALSE
    <3>1. active \in Commands
      BY <2>1, ActiveFacts DEF Inv
    <3>2. stage[active] \in {"active", "ending"}
      BY <2>1 DEF Inv, Shape, Current
    <3> QED BY <1>1, <3>1, <3>2 DEF Pending
  <2> QED BY <2>1
<1>3. Audible'
  BY <1>1 DEF scenario_vars, play_vars, Stream, Audible
<1> QED BY <1>1, <1>2, <1>3, NothingIsClean DEF Stream, Busy

LEMMA PrepareKeepsStream ==
  ASSUME Inv, Stream, NEW c \in Commands, Prepare(c)
  PROVE  Stream'
<1>1. /\ mode = "off" /\ playing' = reservation[c] /\ inputs' = <<>> /\ step' = 1 /\ offset' = 0
      /\ spent' = 0 /\ sent' = sent /\ expectations' = expectations /\ reservation' = reservation
      /\ mode' \in {"asking", "running"}
  BY DEF Prepare, Adopt, scenario_vars
<1>2. sent = <<>>
  BY <1>1 DEF Stream
<1>3. playing'.steps \in Seq(Steps)
  BY <1>1 DEF Inv, Shape, Expectation
<1>4. Position(playing'.steps, 1, 0, 0, <<>>, <<>>)
  BY <1>3, PositionBegins
<1>5. Audible'
  BY <1>1 DEF Stream, Audible
<1> QED BY <1>1, <1>2, <1>4, <1>5, NothingIsClean DEF Stream

LEMMA FinalizeKeepsStream ==
  ASSUME Inv, Stream, Finalize
  PROVE  Stream'
<1>1. /\ mode' = "over" /\ inputs' = <<>> /\ playing' = NoExpectation /\ sent' = sent
      /\ expectations' = expectations /\ reservation' = reservation
  BY DEF Finalize, scenario_vars
<1>2. Audible'
  BY <1>1, NoExpectationHears DEF Stream, Audible
<1> QED BY <1>1, <1>2, NothingIsClean DEF Stream, Busy

LEMMA FinishKeepsStream ==
  ASSUME Inv, Stream, NEW c \in Commands, Finish(c)
  PROVE  Stream'
<1>1. /\ expectations' = expectations /\ playing' = playing /\ inputs' = inputs
      /\ step' = step /\ offset' = offset /\ spent' = spent /\ outcome' = outcome
      /\ reservation' = reservation
  BY DEF Finish, scenario_vars
<1>2. CASE c = active
  <2>1. mode' = "off" /\ sent' = <<>>
    BY <1>2 DEF Finish
  <2>2. Audible'
    BY <1>1 DEF Stream, Audible
  <2> QED BY <1>1, <2>1, <2>2, NothingIsClean DEF Stream, Busy
<1>3. CASE c # active
  <2>1. mode' = mode /\ active' = active /\ sent' = sent
    BY <1>3 DEF Finish
  <2> QED BY <1>1, <2>1, StreamFrame DEF Stream, Audible
<1> QED BY <1>2, <1>3

-----------------------------------------------------------------------------
(* The driver and the stream.                                               *)

\* The command ends with a verdict, or the driver goes on.
LEMMA StreamSteps ==
  ASSUME Inv, Stream, mode \in Busy \cup {"ended"}, mode' \in {"asking", "running", "ended"},
         expectations' = expectations, reservation' = reservation, playing' = playing, active' = active,
         Clean(inputs'), sent' = sent,
         mode' \in Busy => Position(playing.steps, step', offset', spent', inputs', sent),
         mode' = "ended" => \E v : outcome' = [outcome EXCEPT ![active] = v] /\ Told(v)
  PROVE  Stream'
<1>1. Audible'
  BY DEF Stream, Audible
<1>2. active \in Commands
  BY ActiveFacts DEF Inv, Busy
<1>3. mode' = "ended" => Told(outcome[active])'
  <2>1. ASSUME NEW v, outcome' = [outcome EXCEPT ![active] = v], Told(v) PROVE Told(outcome[active])'
    <3>1. outcome'[active'] = v
      BY <1>2, <2>1 DEF Inv, Shape
    <3> QED BY <2>1, <3>1 DEF Told
  <2> QED BY <2>1
<1> QED BY <1>1, <1>3 DEF Stream, Busy

LEMMA AuthenticationKeepsStream ==
  ASSUME Inv, Stream, Asks \/ Authenticated
  PROVE  Stream'
<1>1. /\ mode = "asking" /\ mode' \in {"asking", "running", "ended"}
      /\ expectations' = expectations /\ reservation' = reservation /\ playing' = playing
      /\ active' = active /\ inputs' = inputs /\ sent' = sent /\ step' = step /\ offset' = offset
      /\ spent' = spent
  BY DEF Asks, Authenticated, scenario_vars, play_vars, input_vars
<1>2. mode' = "ended" => \E v \in {"provider_failure", "startup_failure"} :
                           outcome' = [outcome EXCEPT ![active] = v]
  BY <1>1 DEF Asks, Authenticated, Yields
<1>3. Told("provider_failure") /\ Told("startup_failure")
  BY DEF Told, StreamVerdicts
<1>4. Clean(inputs') /\ Position(playing.steps, step', offset', spent', inputs', sent)
  BY <1>1 DEF Stream, Busy
<1> QED BY <1>1, <1>2, <1>3, <1>4, StreamSteps DEF Busy

LEMMA ResumeKeepsStream ==
  ASSUME Inv, Stream, Resume
  PROVE  Stream'
<1>1. /\ mode = "blocked" /\ mode' = "running"
      /\ expectations' = expectations /\ reservation' = reservation /\ playing' = playing
      /\ active' = active /\ inputs' = inputs /\ sent' = sent /\ step' = step /\ offset' = offset
      /\ spent' = spent
  BY DEF Resume, scenario_vars, play_vars, input_vars
<1>2. Clean(inputs') /\ Position(playing.steps, step', offset', spent', inputs', sent)
  BY <1>1 DEF Stream, Busy
<1> QED BY <1>1, <1>2, StreamSteps DEF Busy

LEMMA StopKeepsStream ==
  ASSUME Inv, Stream, Stop
  PROVE  Stream'
<1>1. /\ mode \in Busy \cup {"ended"} /\ mode' = "ended"
      /\ expectations' = expectations /\ reservation' = reservation /\ playing' = playing
      /\ active' = active /\ inputs' = inputs /\ sent' = sent
      /\ outcome' = [outcome EXCEPT ![active] = "stopped"]
  BY DEF Stop, Raises, Yields, Busy, scenario_vars, play_vars, input_vars
<1>2. Told("stopped")
  BY DEF Told, StreamVerdicts
<1>3. Clean(inputs')
  BY <1>1 DEF Stream
<1> QED BY <1>1, <1>2, <1>3, StreamSteps DEF Busy

LEMMA SendKeepsStream ==
  ASSUME Inv, Stream, NEW chunk \in Chunks \cup {Eof}, Send(chunk)
  PROVE  Stream'
<1>1. /\ expectations' = expectations /\ reservation' = reservation /\ playing' = playing
      /\ active' = active /\ step' = step /\ offset' = offset /\ spent' = spent
      /\ outcome' = outcome /\ mode' = mode
      /\ inputs' = Append(inputs, chunk)
      /\ sent' = IF mode = "blocked" THEN Append(sent, chunk) ELSE sent
      /\ mode \in {"blocked", "ended", "over"} /\ ~Contains(inputs, Eof)
  BY DEF Send, TakesInput, scenario_vars, play_vars
<1>2. chunk \in Pieces
  BY MockAssumption DEF Pieces
<1>3. inputs \in Seq(Pieces) /\ sent \in Seq(Pieces) /\ Len(inputs) \in Nat
  BY LenProperties DEF Stream, Clean
<1>4. /\ inputs' \in Seq(Pieces) /\ Len(inputs') = Len(inputs) + 1
      /\ \A i \in 1..Len(inputs) : inputs'[i] = inputs[i]
  BY <1>1, <1>2, <1>3, AppendProperties
<1>5. sent' \in Seq(Pieces)
  BY <1>1, <1>2, <1>3, AppendProperties
<1>6. Clean(inputs')
  <2>1. ASSUME NEW i \in 1..(Len(inputs') - 1) PROVE inputs'[i] # Eof
    <3>1. i \in 1..Len(inputs)
      BY <1>3, <1>4
    <3> QED BY <1>1, <1>4, <3>1 DEF Contains
  <2> QED BY <1>4, <2>1 DEF Clean
<1>7. Audible'
  BY <1>1 DEF Stream, Audible
<1>8. CASE mode = "blocked"
  <2>1. Position(playing.steps, step, offset, spent, inputs, sent) /\ playing.steps \in Seq(Steps)
    BY <1>8, StepsFacts DEF Busy
  <2>2. Position(playing.steps, step, offset, spent, Append(inputs, chunk), Append(sent, chunk))
    BY <1>2, <1>3, <2>1, PositionHears
  <2>3. step <= Len(playing.steps) /\ playing.steps[step].kind = "receive"
    BY <1>8 DEF Stream
  <2> QED BY <1>1, <1>5, <1>6, <1>7, <1>8, <2>2, <2>3 DEF Stream
<1>9. CASE mode # "blocked"
  <2>1. sent' = sent
    BY <1>1, <1>9
  <2> QED BY <1>1, <1>3, <1>6, <1>7, <1>9, <2>1 DEF Stream, Busy, Told
<1> QED BY <1>8, <1>9

LEMMA PlayEmitKeepsStream ==
  ASSUME Inv, Stream, PlayEmit
  PROVE  Stream'
<1>1. /\ mode = "running" /\ mode' = "running" /\ step <= Len(playing.steps)
      /\ playing.steps[step].kind = "emit" /\ step' = step + 1
      /\ expectations' = expectations /\ reservation' = reservation /\ playing' = playing
      /\ active' = active /\ inputs' = inputs /\ sent' = sent /\ offset' = offset /\ spent' = spent
  BY DEF PlayEmit, Playing, scenario_vars, input_vars
<1>2. /\ playing.steps \in Seq(Steps) /\ step \in 1..Len(playing.steps)
      /\ Position(playing.steps, step, offset, spent, inputs, sent)
  BY <1>1, StepsFacts DEF Busy
<1>3. ~Terminal(playing.steps, step) /\ Seconds(playing.steps[step]) = 0
  BY <1>1 DEF Terminal, Seconds
<1>4. spent + 0 = spent
  BY DEF Inv, Shape
<1>5. Position(playing.steps, step', offset', spent', inputs', sent)
  BY <1>1, <1>2, <1>3, <1>4, PositionPasses
<1>6. Clean(inputs')
  BY <1>1 DEF Stream
<1> QED BY <1>1, <1>5, <1>6, StreamSteps DEF Busy

LEMMA PlayAdvanceKeepsStream ==
  ASSUME Inv, Stream, PlayAdvance
  PROVE  Stream'
<1> DEFINE s == playing.steps[step]
<1>1. /\ mode = "running" /\ step <= Len(playing.steps) /\ s.kind = "advance"
      /\ expectations' = expectations /\ reservation' = reservation /\ playing' = playing
      /\ active' = active /\ inputs' = inputs /\ sent' = sent /\ offset' = offset
  BY DEF PlayAdvance, Playing, scenario_vars, input_vars
<1>2. /\ playing.steps \in Seq(Steps) /\ step \in 1..Len(playing.steps)
      /\ Position(playing.steps, step, offset, spent, inputs, sent)
  BY <1>1, StepsFacts DEF Busy
<1>3. Advanced(playing.steps)[step] = spent + s.seconds
  BY <1>1, <1>2, AdvancedEquation DEF Position, Seconds
<1>4. Clean(inputs) /\ inputs \in Seq(Pieces)
  BY DEF Stream, Clean
<1>5. Terminal(playing.steps, step) <=> spent + s.seconds >= Deadline
  BY <1>1, <1>3 DEF Terminal
<1>6. CASE spent + s.seconds >= Deadline
  <2>1. mode' = "ended" /\ outcome' = [outcome EXCEPT ![active] = "timeout"]
    BY <1>6 DEF PlayAdvance, Raises, Yields
  <2>2. Told("timeout")
    BY <1>1, <1>2, <1>4, <1>5, <1>6, ScriptRaises DEF Told
  <2> QED BY <1>1, <1>4, <2>1, <2>2, StreamSteps DEF Busy
<1>7. CASE ~(spent + s.seconds >= Deadline)
  <2>1. mode' = "running" /\ step' = step + 1 /\ spent' = spent + s.seconds
    BY <1>1, <1>7 DEF PlayAdvance
  <2>2. Seconds(s) = s.seconds
    BY <1>1 DEF Seconds
  <2>3. Position(playing.steps, step + 1, offset, spent + Seconds(s), inputs, sent)
    BY <1>1, <1>2, <1>5, <1>7, PositionPasses
  <2>4. Position(playing.steps, step', offset', spent', inputs', sent)
    BY <1>1, <2>1, <2>2, <2>3
  <2> QED BY <1>1, <1>4, <2>1, <2>4, StreamSteps DEF Busy
<1> QED BY <1>6, <1>7

LEMMA PlayFailureKeepsStream ==
  ASSUME Inv, Stream, PlayFailure
  PROVE  Stream'
<1> DEFINE s == playing.steps[step]
<1>1. /\ mode = "running" /\ step <= Len(playing.steps) /\ s.kind = "failure"
      /\ expectations' = expectations /\ reservation' = reservation /\ playing' = playing
      /\ active' = active /\ inputs' = inputs /\ sent' = sent /\ offset' = offset /\ spent' = spent
  BY DEF PlayFailure, Playing, scenario_vars, input_vars
<1>2. /\ playing.steps \in Seq(Steps) /\ step \in 1..Len(playing.steps)
      /\ Position(playing.steps, step, offset, spent, inputs, sent)
  BY <1>1, StepsFacts DEF Busy
<1>3. Clean(inputs) /\ inputs \in Seq(Pieces)
  BY DEF Stream, Clean
<1>4. Terminal(playing.steps, step) <=> s.failure # "output"
  BY <1>1 DEF Terminal
<1>5. CASE s.failure # "output"
  <2>1. mode' = "ended" /\ outcome' = [outcome EXCEPT ![active] = s.failure]
    BY <1>5 DEF PlayFailure, Raises, Yields
  <2>2. Told(s.failure)
    BY <1>1, <1>2, <1>3, <1>4, <1>5, ScriptRaises DEF Told
  <2> QED BY <1>1, <1>3, <2>1, <2>2, StreamSteps DEF Busy
<1>6. CASE s.failure = "output"
  <2>1. mode' = "running" /\ step' = step + 1
    BY <1>1, <1>6 DEF PlayFailure
  <2>2. Seconds(s) = 0 /\ spent + 0 = spent
    BY <1>1 DEF Seconds, Inv, Shape
  <2>3. Position(playing.steps, step + 1, offset, spent + Seconds(s), inputs, sent)
    BY <1>1, <1>2, <1>4, <1>6, PositionPasses
  <2>4. Position(playing.steps, step', offset', spent', inputs', sent)
    BY <1>1, <2>1, <2>2, <2>3
  <2> QED BY <1>1, <1>3, <2>1, <2>4, StreamSteps DEF Busy
<1> QED BY <1>5, <1>6

LEMMA PlayEndsKeepsStream ==
  ASSUME Inv, Stream, PlayEnds
  PROVE  Stream'
<1> DEFINE verdict == IF \E i \in DOMAIN inputs : inputs[i] # Eof THEN "unexpected_input" ELSE "exited"
<1>1. /\ mode = "running" /\ mode' = "ended" /\ step > Len(playing.steps)
      /\ outcome' = [outcome EXCEPT ![active] = verdict]
      /\ expectations' = expectations /\ reservation' = reservation /\ playing' = playing
      /\ active' = active /\ inputs' = inputs /\ sent' = sent
  BY DEF PlayEnds, Raises, Yields, scenario_vars, play_vars, input_vars
<1>2. playing.steps \in Seq(Steps) /\ Position(playing.steps, step, offset, spent, inputs, sent)
  BY <1>1, StepsFacts DEF Busy
<1>3. Clean(inputs)
  BY DEF Stream
<1>4. Told(verdict)
  BY <1>1, <1>2, <1>3, ScriptEnds DEF Told
<1> HIDE DEF verdict
<1> QED BY <1>1, <1>3, <1>4, StreamSteps DEF Busy

\* A chunk is compared with what the step still expects, and what it holds beyond that is read
\* by the steps that follow.
LEMMA PlayReceiveKeepsStream ==
  ASSUME Inv, Stream, PlayReceive
  PROVE  Stream'
<1> DEFINE e == Rest(playing.steps, step, offset)
           a == Head(inputs)
           agree == \A i \in DOMAIN e \intersect DOMAIN a : e[i] = a[i]
<1>1. /\ mode = "running" /\ step <= Len(playing.steps) /\ playing.steps[step].kind = "receive"
      /\ expectations' = expectations /\ reservation' = reservation /\ playing' = playing
      /\ active' = active /\ sent' = sent /\ spent' = spent
  BY DEF PlayReceive, Playing, scenario_vars
<1>2. /\ playing.steps \in Seq(Steps) /\ step \in 1..Len(playing.steps)
      /\ Position(playing.steps, step, offset, spent, inputs, sent)
      /\ Data(playing.steps[step]) = playing.steps[step].data /\ Data(playing.steps[step]) # <<>>
  BY <1>1, StepsFacts DEF Busy
<1>3. SubSeq(playing.steps[step].data, offset + 1, Len(playing.steps[step].data)) = e
  BY <1>2 DEF Rest
<1>4. Clean(inputs)
  BY DEF Stream
<1>5. CASE inputs = <<>>
  <2>1. mode' = "blocked" /\ inputs' = inputs /\ step' = step /\ offset' = offset
    BY <1>5 DEF PlayReceive
  <2>2. Audible'
    BY <1>1 DEF Stream, Audible
  <2>3. Position(playing.steps, step, offset, spent, inputs, sent) /\ sent \in Seq(Pieces)
    BY <1>2 DEF Stream
  <2> HIDE DEF e, a, agree
  <2> QED BY <1>1, <1>4, <2>1, <2>2, <2>3 DEF Stream, Busy
<1>6. CASE inputs # <<>>
  <2>1. Receiving(playing.steps, step, offset, spent, inputs, sent)
    BY <1>1, <1>2, <1>4, <1>6 DEF Receiving
  <2>2. /\ e \in Seq(Symbols) /\ Len(e) \in Nat \ {0} /\ DOMAIN e = 1..Len(e)
        /\ a \in Seq(Symbols) /\ Len(a) \in Nat \ {0} /\ DOMAIN a = 1..Len(a)
    BY <1>2, <2>1, ReceivingFacts, LenProperties
  <2>3. /\ inputs' = PushBack(e, a)
        /\ IF ~agree \/ ((e = Eof) # (a = Eof))
           THEN mode' = "ended" /\ outcome' = [outcome EXCEPT ![active] = "unexpected_input"]
           ELSE /\ mode' = "running"
                /\ IF Len(a) >= Len(e) THEN step' = step + 1 /\ offset' = 0
                   ELSE offset' = offset + Len(a) /\ step' = step
    BY <1>1, <1>3, <1>6 DEF PlayReceive, Raises, Yields
  <2>4. inputs' = After(inputs, e)
    BY <2>3 DEF PushBack, After
  <2>5. Clean(inputs')
    BY <1>4, <1>6, <2>2, <2>4, AfterFacts
  <2>6. CASE ~agree \/ ((e = Eof) # (a = Eof))
    <3>1. PICK i \in 1..Len(e) : i \in 1..Len(a) /\ e[i] # a[i]
      <4>1. CASE ~agree
        BY <2>2, <4>1
      <4>2. CASE (e = Eof) # (a = Eof)
        <5>1. 1 \in 1..Len(e) /\ 1 \in 1..Len(a) /\ e[1] # a[1]
          BY <1>2, <2>1, <4>2, EofDiffers
        <5> QED BY <5>1
      <4> QED BY <2>6, <4>1, <4>2
    <3>2. VerdictOf(playing.steps, FlattenSeq(sent)) = "unexpected_input"
      BY <1>2, <2>1, <3>1, StreamsDiffer
    <3>3. Told("unexpected_input")
      BY <3>2 DEF Told
    <3> HIDE DEF e, a, agree
    <3> QED BY <1>1, <2>3, <2>5, <2>6, <3>3, StreamSteps DEF Busy
  <2>7. CASE agree /\ ~((e = Eof) # (a = Eof))
    <3>1. \A i \in 1..Len(e) : i \in 1..Len(a) => e[i] = a[i]
      BY <2>2, <2>7
    <3>2. CASE Len(a) >= Len(e)
      <4>1. \A i \in 1..Len(e) : e[i] = a[i]
        BY <2>2, <3>1, <3>2
      <4>2. Position(playing.steps, step + 1, 0, spent, After(inputs, e), sent)
        BY <1>2, <2>1, <3>2, <4>1, PositionReceives
      <4> HIDE DEF e, a, agree
      <4>3. mode' = "running" /\ Position(playing.steps, step', offset', spent', inputs', sent)
        BY <1>1, <2>3, <2>4, <2>7, <3>2, <4>2
      <4> QED BY <1>1, <2>5, <4>3, StreamSteps DEF Busy
    <3>3. CASE ~(Len(a) >= Len(e))
      <4>1. Len(a) < Len(e) /\ \A i \in 1..Len(a) : e[i] = a[i]
        BY <2>2, <3>1, <3>3
      <4>2. Position(playing.steps, step, offset + Len(a), spent, After(inputs, e), sent)
        BY <1>2, <2>1, <4>1, PositionMoves
      <4> HIDE DEF e, a, agree
      <4>3. mode' = "running" /\ Position(playing.steps, step', offset', spent', inputs', sent)
        BY <1>1, <2>3, <2>4, <2>7, <3>3, <4>2
      <4> QED BY <1>1, <2>5, <4>3, StreamSteps DEF Busy
    <3> QED BY <3>2, <3>3
  <2> QED BY <2>6, <2>7
<1> QED BY <1>5, <1>6

LEMMA StreamNext ==
  ASSUME Inv, Stream, [Next]_vars
  PROVE  Stream'
<1>1. CASE \E c \in Commands : Submit(c) \/ Skip(c) \/ Prepare(c) \/ Finish(c)
  BY <1>1, SubmitKeepsStream, OthersKeepStream, PrepareKeepsStream, FinishKeepsStream
<1>2. CASE \E c \in Watched : BeginWait(c) \/ CheckWait(c) \/ EndWait(c)
  BY <1>2, OthersKeepStream
<1>3. CASE Driver
  <2>1. CASE \E chunk \in Chunks \cup {Eof} : Send(chunk)
    BY <2>1, SendKeepsStream
  <2> QED BY <1>3, <2>1, AuthenticationKeepsStream, PlayEmitKeepsStream, PlayAdvanceKeepsStream,
             PlayFailureKeepsStream, PlayReceiveKeepsStream, PlayEndsKeepsStream, ResumeKeepsStream,
             StopKeepsStream, FinalizeKeepsStream DEF Driver
<1>4. CASE Leave \/ Left
  BY <1>4, OthersKeepStream, LeftKeepsStream
<1>5. CASE UNCHANGED vars
  <2>1. UNCHANGED <<scenario_vars, play_vars, input_vars, outcome, mode>>
    BY <1>5 DEF vars
  <2> QED BY <2>1, StreamFrame DEF scenario_vars, play_vars, input_vars, Stream, Audible
<1> QED BY <1>1, <1>2, <1>3, <1>4, <1>5 DEF Next

\* For every scenario whose Receive steps ask for something, every chunking of the input, every
\* deadline and any number of commands: the verdict that the driver reaches chunk by chunk is the
\* one that a comparison of the whole streams gives, and it waits only for input that is still
\* missing (driver.receive, driver.execute).
THEOREM VerdictFollowsStream ==
  ASSUME ReceivesInput
  PROVE  Spec => []VerdictIsOfStream
<1>1. Init => Stream
  BY StreamInit
<1>2. Inv /\ Stream /\ [Next]_vars => Stream'
  BY StreamNext
<1>3. Inv /\ Stream => VerdictIsOfStream
  <2>1. SUFFICES ASSUME Inv, Stream PROVE VerdictIsOfStream
    OBVIOUS
  <2>2. mode = "ended" => Told(outcome[active])
    BY <2>1 DEF Stream
  <2>3. ASSUME mode = "blocked", inputs = <<>>
        PROVE  IsStrictPrefix(FlattenSeq(sent), Wanted(playing.steps))
    <3>1. step <= Len(playing.steps) /\ playing.steps[step].kind = "receive"
      BY <2>1, <2>3 DEF Stream
    <3>2. /\ playing.steps \in Seq(Steps) /\ step \in 1..Len(playing.steps)
          /\ Position(playing.steps, step, offset, spent, <<>>, sent)
          /\ Data(playing.steps[step]) # <<>>
      BY <2>1, <2>3, <3>1, StepsFacts DEF Busy
    <3> QED BY <3>1, <3>2, WaitsForMore
  <2> QED BY <2>2, <2>3 DEF VerdictIsOfStream, Told, StreamVerdicts
<1> QED BY <1>1, <1>2, <1>3, Invariance, PTL DEF Spec
=============================================================================
