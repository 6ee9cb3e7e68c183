--------------------------- MODULE CommandService ---------------------------
(***************************************************************************)
(* What a session promises its callers, without the event loop, the lease  *)
(* or the driver: commands are served one at a time in the order they were *)
(* submitted, each reaches exactly one final result, only the command      *)
(* being served can damage the session, and a damaged or closed session    *)
(* serves nothing any more.                                                *)
(***************************************************************************)
EXTENDS Naturals

CONSTANT Commands       \* natural numbers, in the order of their submission

VARIABLES
  phase,                \* where each command is
  usable                \* "not_yet", "yes", "no_more"

vars == <<phase, usable>>

Final  == {"dropped", "intact", "damaged"}
Phases == Final \cup {"unknown", "waiting", "served"}

Init ==
  /\ phase = [c \in Commands |-> "unknown"]
  /\ usable = "not_yet"

Move(c, from, to) == phase[c] = from /\ phase' = [phase EXCEPT ![c] = to]

Open == usable = "not_yet" /\ usable' = "yes" /\ UNCHANGED phase

\* Damage by the command being served, or closing.
Invalidate == usable # "no_more" /\ usable' = "no_more" /\ UNCHANGED phase

Accept(c) ==
  /\ usable = "yes"
  /\ \A d \in Commands : d < c => phase[d] # "unknown"
  /\ Move(c, "unknown", "waiting")
  /\ UNCHANGED usable

Serve(c) ==
  /\ usable = "yes"
  /\ \A d \in Commands : phase[d] \notin {"served", "damaged"}
  /\ \A d \in Commands : d > c => phase[d] \in {"unknown", "waiting", "dropped"}
  /\ Move(c, "waiting", "served")
  /\ UNCHANGED usable

\* A command that ended by itself leaves the session as it found it.
Complete(c) == Move(c, "served", "intact") /\ UNCHANGED usable

\* One that was interrupted is answered only after the session was given up.
Interrupt(c) ==
  usable = "no_more" /\ Move(c, "served", "damaged") /\ UNCHANGED usable

\* One that was never served is answered without touching the session.
Drop(c) == Move(c, "waiting", "dropped") /\ UNCHANGED usable

Next ==
  \/ Open
  \/ Invalidate
  \/ \E c \in Commands :
       Accept(c) \/ Serve(c) \/ Complete(c) \/ Interrupt(c) \/ Drop(c)

Spec == Init /\ [][Next]_vars
=============================================================================
