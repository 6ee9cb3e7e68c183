---------------------------- MODULE SessionState ----------------------------
(***************************************************************************)
(* The state that a session keeps from command to command, its directory   *)
(* and exported variables, and the copy of it that the session caches for  *)
(* snapshot(): frontend/operations.py for a native session, whose          *)
(* operations are ordinary commands of its shell, and the operations of    *)
(* backends/mock/session.py, which change the cached state itself.         *)
(*                                                                         *)
(* `line` is the order in which the lease is granted (ShellSession shows   *)
(* it is that of submission).  `settled` is the event loop's order: the    *)
(* callers of commands resume one after another, as their commands settle. *)
(***************************************************************************)
EXTENDS Naturals, SequencesExt

CONSTANTS
  Operations,           \* calls of the session's methods, in this order
  Requests,             \* what a call may ask for
  Names,                \* names of variables
  Values,               \* paths and texts; Missing stands for an unset variable
  Inherited             \* what the shell starts with

Missing == "missing"
Parts == {"cwd"} \cup Names
NoRequest == [kind |-> "none", name |-> "cwd", value |-> Missing]
Kinds == {"chdir", "set_env", "unset_env", "get_cwd", "get_env", "script"}

ASSUME StateAssumption ==
  /\ Operations \subseteq Nat \ {0}
  /\ "cwd" \notin Names /\ Missing \notin Values /\ Inherited \in Values
  /\ \A r \in Requests :
       /\ DOMAIN r = {"kind", "name", "value"} /\ r.kind \in Kinds
       /\ r.value \in Values \cup {Missing}
       /\ r.kind \in {"chdir", "script"} => r.name \in Parts
       /\ r.kind = "unset_env" => r.value = Missing

VARIABLES
  mock, reject,         \* the kind of session and its concurrency policy
  request,              \* what each call asks for
  shell,                \* the state that commands see
  cwd, environment,     \* session.cwd and session.environment
  stage,                \* of each call: "idle", "checking", "queued", "ran", "settled",
                        \* "cached", and "left" without
  line,                 \* those that hold or wait for the lease
  success,              \* result.success of each
  observed,             \* what its command printed
  settled,              \* whose caller is about to resume
  cancelled,            \* whose caller was cancelled
  broken,               \* session.state is BROKEN
  ran,                  \* history: the order in which commands touched the state
  source                \* history: where the cached value of each part comes from

configuration == <<mock, reject>>
cached == <<cwd, environment, source>>
vars == <<configuration, request, shell, cached, stage, line, success, observed, settled, cancelled,
          broken, ran>>

\* A session knows what its configuration sets; the shell inherits the rest.
Init ==
  /\ mock \in BOOLEAN /\ reject \in BOOLEAN
  /\ request = [o \in Operations |-> NoRequest]
  /\ shell = [p \in Parts |-> Inherited]
  /\ \E known \in IF mock THEN {Inherited} ELSE {Inherited, Missing} :
       cwd = known /\ environment = [n \in Names |-> known]
  /\ stage = [o \in Operations |-> "idle"] /\ line = <<>>
  /\ success = [o \in Operations |-> FALSE]
  /\ observed = [o \in Operations |-> shell]
  /\ settled = <<>> /\ cancelled = {} /\ broken = FALSE
  /\ ran = <<>> /\ source = [p \in Parts |-> 0]

IsScript(o) == request[o].kind = "script"
Reads(o) == request[o].kind \in {"get_cwd", "get_env"}
Valid(o) == request[o].kind \in {"set_env", "unset_env"} => request[o].name \in Names

\* session.pending: a mock session's own operations are no commands.
Pending == {o \in ToSet(line) : ~mock \/ IsScript(o)}

\* validate_submission
Accepts == ~broken /\ (reject => Pending = {})

Asks(o) ==
  /\ stage[o] = "idle" /\ \A earlier \in Operations : earlier < o => stage[earlier] # "idle"
  /\ \E r \in Requests : request' = [request EXCEPT ![o] = r]

Moves(o, next) == stage' = [stage EXCEPT ![o] = next]

\* A cancelled acquire, or the release of one that was granted, ends its place in line.
LeavesLine(o) == \E i \in DOMAIN line : line[i] = o /\ line' = RemoveAt(line, i)

\* The parts that an operation sees or sets.
Touches(o) == CASE request[o].kind = "get_cwd" -> {"cwd"}
                [] request[o].kind = "get_env" -> Names
                [] OTHER -> {request[o].name}

\* The state after the operation, if it succeeds.
Effect(o) == IF Reads(o) THEN shell ELSE [shell EXCEPT ![request[o].name] = request[o].value]
-----------------------------------------------------------------------------
(* A native session's operation, and the commands of either.               *)

\* An invalid name is refused before the command is submitted.
Submit(o) ==
  /\ Asks(o)
  /\ ~mock \/ IsScript(o)'
  /\ IF Valid(o)' /\ Accepts
     THEN Moves(o, "queued") /\ line' = Append(line, o)
     ELSE Moves(o, "left") /\ UNCHANGED line
  /\ UNCHANGED <<configuration, shell, cached, success, observed, settled, cancelled, broken, ran>>

\* The command has the lease and runs.  An operation that fails changes nothing, a
\* script may; a mock session's script changes what is cached, as its scenario says.
Runs(o) ==
  /\ stage[o] = "queued" /\ line # <<>> /\ Head(line) = o /\ o \in Pending /\ ~broken
  /\ Moves(o, "ran")
  /\ \E works \in BOOLEAN :
       /\ success' = [success EXCEPT ![o] = works]
       /\ IF works \/ IsScript(o)
          THEN shell' = Effect(o) /\ ran' = Append(ran, o)
          ELSE UNCHANGED <<shell, ran>>
  /\ observed' = IF Reads(o) THEN [observed EXCEPT ![o] = shell] ELSE observed
  /\ IF mock
     THEN /\ cwd' = shell'["cwd"] /\ environment' = [n \in Names |-> shell'[n]]
          /\ source' = [source EXCEPT ![request[o].name] = o]
     ELSE UNCHANGED cached
  /\ UNCHANGED <<configuration, request, line, settled, cancelled, broken>>

\* Mutant: the callers are resumed in the order of a stack.
SettleFirst(o) ==
  /\ stage[o] = "ran"
  /\ \/ UNCHANGED <<success, broken>>
     \/ success' = [success EXCEPT ![o] = FALSE] /\ broken' = TRUE
  /\ Moves(o, "settled")
  /\ line' = Tail(line) /\ settled' = <<o>> \o settled
  /\ UNCHANGED <<configuration, request, shell, cached, observed, cancelled, ran>>

\* The result is published.  A stop that comes too late, or whose command ended by
\* itself, does no harm; an interruption breaks the session.
Settle(o) ==
  /\ stage[o] = "ran"
  /\ \/ UNCHANGED <<success, broken>>
     \/ success' = [success EXCEPT ![o] = FALSE] /\ broken' = TRUE
  /\ Moves(o, "settled")
  /\ line' = Tail(line) /\ settled' = Append(settled, o)
  /\ UNCHANGED <<configuration, request, shell, cached, observed, cancelled, ran>>

\* A command that is stopped while it waits, or whose session broke, never runs.
Withdraw(o) ==
  /\ stage[o] = "queued" /\ o \in Pending
  /\ broken \/ o \in cancelled
  /\ Moves(o, "settled")
  /\ LeavesLine(o) /\ settled' = Append(settled, o)
  /\ UNCHANGED <<configuration, request, shell, cached, success, observed, cancelled, broken, ran>>

\* run: a caller that is cancelled stops its command, and hears no more of it.
Cancel(o) ==
  /\ stage[o] \in {"queued", "ran", "settled"} /\ o \in Pending \cup ToSet(settled)
  /\ o \notin cancelled
  /\ cancelled' = cancelled \cup {o}
  /\ UNCHANGED <<configuration, request, shell, cached, stage, line, success, observed, settled,
                 broken, ran>>

\* Whether state_operation reaches the assignments after its command.
Remembers(o) == success[o] /\ o \notin cancelled /\ ~IsScript(o)

\* Mutant: what is observed updates the cache, which keeps what was unset.
KnownUpdates(o) ==
  IF Reads(o) THEN [p \in Parts |-> IF p \in Names /\ observed[o][p] = Missing
                                    THEN environment[p] ELSE observed[o][p]]
  ELSE [p \in Parts |-> request[o].value]

\* What it caches: what the command printed, or what it was told to set.
Known(o) == IF Reads(o) THEN observed[o] ELSE [p \in Parts |-> request[o].value]

\* The caller resumes.  Output that exceeded the capture's bounds is no answer.
Answer ==
  /\ settled # <<>>
  /\ LET o == Head(settled)
     IN  \/ /\ Remembers(o)
            /\ Moves(o, "cached")
            /\ cwd' = IF "cwd" \in Touches(o) THEN Known(o)["cwd"] ELSE cwd
            /\ environment' = [n \in Names |-> IF n \in Touches(o) THEN Known(o)[n]
                                              ELSE environment[n]]
            /\ source' = [p \in Parts |-> IF p \in Touches(o) THEN o ELSE source[p]]
         \/ /\ ~Remembers(o) \/ Reads(o)
            /\ Moves(o, "left") /\ UNCHANGED cached
  /\ settled' = Tail(settled)
  /\ UNCHANGED <<configuration, request, shell, line, success, observed, cancelled, broken, ran>>
-----------------------------------------------------------------------------
(* A mock session's operation: state_access.                               *)

\* The first validation, before the checkpoint.
MockBegins(o) ==
  /\ Asks(o)
  /\ mock /\ ~IsScript(o)'
  /\ Moves(o, IF Accepts THEN "checking" ELSE "left")
  /\ UNCHANGED <<configuration, shell, cached, line, success, observed, settled, cancelled,
                 broken, ran>>

MockQueues(o) ==
  /\ stage[o] = "checking"
  /\ Moves(o, "queued") /\ line' = Append(line, o)
  /\ UNCHANGED <<configuration, request, shell, cached, success, observed, settled, cancelled,
                 broken, ran>>

\* With the lease, the operation validates again, and then neither fails nor waits.
MockPerforms(o) ==
  /\ stage[o] = "queued" /\ line # <<>> /\ Head(line) = o /\ o \notin Pending
  /\ line' = Tail(line)
  /\ IF Valid(o) /\ Accepts
     THEN /\ Moves(o, "cached")
          /\ shell' = Effect(o) /\ ran' = Append(ran, o)
          /\ cwd' = shell'["cwd"] /\ environment' = [n \in Names |-> shell'[n]]
          /\ source' = [p \in Parts |-> IF p \in Touches(o) THEN o ELSE source[p]]
     ELSE Moves(o, "left") /\ UNCHANGED <<shell, ran, cached>>
  /\ UNCHANGED <<configuration, request, success, observed, settled, cancelled, broken>>

MockLeaves(o) ==
  /\ mock /\ ~IsScript(o) /\ stage[o] \in {"checking", "queued"}
  /\ Moves(o, "left")
  /\ IF stage[o] = "queued" THEN LeavesLine(o) ELSE UNCHANGED line
  /\ UNCHANGED <<configuration, request, shell, cached, success, observed, settled, cancelled,
                 broken, ran>>

Next ==
  \/ Answer
  \/ \E o \in Operations :
       \/ Submit(o) \/ Runs(o) \/ Settle(o) \/ Withdraw(o) \/ Cancel(o)
       \/ MockBegins(o) \/ MockQueues(o) \/ MockPerforms(o) \/ MockLeaves(o)

Spec == Init /\ [][Next]_vars
-----------------------------------------------------------------------------
Cached(p) == IF p = "cwd" THEN cwd ELSE environment[p]

\* Whether an operation was the last that saw or set a part.
IsLast(o, p) ==
  \E i \in DOMAIN ran :
    /\ ran[i] = o /\ p \in Touches(o)
    /\ \A j \in DOMAIN ran : p \in Touches(ran[j]) => j <= i

\* What an operation told its caller stays in the cache, and true, until another
\* operation or a script touches it (operations.py:58-77, results.py:163-168).
CacheIsCurrent ==
  \A p \in Parts, o \in Operations :
    IsLast(o, p) /\ stage[o] = "cached" => Cached(p) = shell[p]

\* The cache may be stale, but never becomes older than it was, whoever was cancelled
\* and whatever failed between the commands (operations.py:39-46, 70-77).
CacheOnlyAdvances ==
  [][\A p \in Parts : source'[p] # source[p] =>
       \E j \in DOMAIN ran' :
         /\ ran'[j] = source'[p]
         /\ \A i \in DOMAIN ran' : ran'[i] = source[p] => i < j]_vars
=============================================================================
