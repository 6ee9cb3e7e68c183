--------------------------- MODULE MCShellSession ---------------------------
(***************************************************************************)
(* ShellSession for TLC: every exception that run_owned tells apart.       *)
(***************************************************************************)
EXTENDS ShellSession

AllErrors == DOMAIN OutcomeOf
=============================================================================
