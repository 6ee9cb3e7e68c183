--------------------------- MODULE MCCommandStdin ---------------------------
(***************************************************************************)
(* CommandStdin for TLC: the first command is written to twice, in two     *)
(* chunks and in one, and closed; the second is written to and closed.     *)
(***************************************************************************)
EXTENDS CommandStdin

MCCalls == <<[of |-> 1, chunks |-> 2], [of |-> 1, chunks |-> 1], [of |-> 1, chunks |-> 0],
             [of |-> 2, chunks |-> 2], [of |-> 2, chunks |-> 0]>>
=============================================================================
