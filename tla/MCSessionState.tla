--------------------------- MODULE MCSessionState ---------------------------
(* Three calls on a session with one variable. *)
EXTENDS SessionState

Ask(kind, name, value) == [kind |-> kind, name |-> name, value |-> value]

Every == {Ask("chdir", "cwd", "a"), Ask("get_cwd", "cwd", Missing),
          Ask("set_env", "n", "a"), Ask("set_env", "=", "a"), Ask("unset_env", "n", Missing),
          Ask("get_env", "n", Missing), Ask("script", "n", "b")}
=============================================================================
