------------------------- MODULE SudoAuthentication -------------------------
(***************************************************************************)
(* The authentication of an elevated command over two pipes of its own:    *)
(* authenticate (backends/bash/authentication.py), in the bridge process   *)
(* that the shell runs, against supply_passwords                           *)
(* (backends/bash/password_channel.py), a task of the session.             *)
(*                                                                         *)
(* Each waits for the other: the bridge for an answer, the supplier for a  *)
(* request.  sudo asks as often as it likes; the password provider is the  *)
(* caller's, and may fail or never return.                                 *)
(***************************************************************************)
EXTENDS Naturals

CONSTANT Attempts       \* PrivilegeRequest.attempts

ASSUME AttemptsAssumption == Attempts \in Nat \ {0}

VARIABLES
  sudo,                 \* where authenticate is
  used,                 \* the passwords that it handed to sudo
  asks, answers,        \* lines in the two pipes
  supplier,             \* where supply_passwords is
  count                 \* the passwords that it sent

bridge_vars    == <<sudo, used>>
pipe_vars      == <<asks, answers>>
supplier_vars  == <<supplier, count>>
authentication == <<bridge_vars, pipe_vars, supplier_vars>>

NoAuthentication ==
  /\ sudo = "off" /\ used = 0 /\ asks = 0 /\ answers = 0
  /\ supplier = "none" /\ count = 0

\* authenticate has returned, or an error of a pipe ended it.
Decided == sudo \in {"granted", "denied", "broken"}

-----------------------------------------------------------------------------
(* The bridge.  The session closes its ends of the pipes only with the      *)
(* command; what a bridge that survives this makes of it is left out.      *)

\* sudo prompts for a password, or decides; at first it may not even start.
SudoDecides(interactive) ==
  /\ sudo = "checking"
  /\ \/ sudo' \in {"granted", "denied"}
     \/ interactive /\ sudo' = "prompting"
     \/ used = 0 /\ sudo' = "broken"
  /\ UNCHANGED <<used, pipe_vars, supplier_vars>>

\* Mutant: the limit is one too high.
AsksOnceMore ==
  /\ sudo = "prompting"
  /\ \/ used > Attempts /\ sudo' = "denied" /\ UNCHANGED asks
     \/ used <= Attempts /\ sudo' = "answering" /\ asks' = asks + 1
  /\ UNCHANGED <<used, answers, supplier_vars>>

\* A prompt becomes a request, until the attempts are used up; then sudo is told that
\* there are no more passwords, and fails.
BridgeAsks ==
  /\ sudo = "prompting"
  /\ \/ used >= Attempts /\ sudo' = "denied" /\ UNCHANGED asks
     \/ used < Attempts /\ sudo' = "answering" /\ asks' = asks + 1
  /\ UNCHANGED <<used, answers, supplier_vars>>

\* The answer goes to sudo, which may have given up.
BridgeReads ==
  /\ sudo = "answering" /\ answers > 0
  /\ answers' = answers - 1
  /\ \/ sudo' = "checking" /\ used' = used + 1
     \/ sudo' = "broken" /\ UNCHANGED used
  /\ UNCHANGED <<asks, supplier_vars>>
-----------------------------------------------------------------------------
(* The supplier.  `reached` says that the bridge still has its ends.       *)

\* Mutant: the request stays in the buffer.
SupplierRereads ==
  /\ supplier = "reading" /\ asks > 0
  /\ supplier' = IF count >= Attempts THEN "limited" ELSE "providing"
  /\ UNCHANGED <<bridge_vars, pipe_vars, count>>

SupplierReads ==
  /\ supplier = "reading" /\ asks > 0
  /\ asks' = asks - 1
  /\ supplier' = IF count >= Attempts THEN "limited" ELSE "providing"
  /\ UNCHANGED <<bridge_vars, answers, count>>

\* The provider returns a password, which is sent; or it, or the sending, fails.
SupplierProvides(reached) ==
  /\ supplier = "providing"
  /\ \/ /\ reached /\ supplier' = "reading"
        /\ answers' = answers + 1 /\ count' = count + 1
     \/ supplier' = "failed" /\ UNCHANGED <<answers, count>>
  /\ UNCHANGED <<bridge_vars, asks>>

\* The bridge has closed its end of the requests, and nobody else holds one.
SupplierEnds(held) ==
  /\ supplier = "reading" /\ asks = 0 /\ ~held
  /\ supplier' = "ended"
  /\ UNCHANGED <<bridge_vars, pipe_vars, count>>
-----------------------------------------------------------------------------
AuthenticationTypeOK ==
  /\ sudo \in {"off", "checking", "prompting", "answering", "granted", "denied", "broken"}
  /\ used \in 0..Attempts /\ count \in 0..Attempts
  /\ asks \in 0..1 /\ answers \in 0..1
  /\ supplier \in {"none", "reading", "providing", "limited", "failed", "ended", "cancelled"}

\* The two ends meet.  They count separately and agree: the supplier never sees a
\* request beyond the limit (authentication.py:50, password_channel.py:34).  And they
\* never both wait, the bridge for an answer and the supplier for a request, with
\* nothing in either pipe (authentication.py:55, password_channel.py:27).
AuthenticationMeets ==
  /\ supplier # "limited"
  /\ ~(sudo = "answering" /\ supplier \in {"reading", "ended"} /\ asks = 0 /\ answers = 0)
=============================================================================
