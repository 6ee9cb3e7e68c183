---------------------------- MODULE MCOutputHub ----------------------------
(***************************************************************************)
(* OutputHub for TLC: two bytes, chunks that split a pattern or exceed the *)
(* matching window, and two expectations that compete for the same bytes.  *)
(***************************************************************************)
EXTENDS OutputHub

MCChunks == {<<"a">>, <<"b">>, <<"a", "a", "b">>}

MCCalls == <<[pattern |-> <<"a", "b">>, stream |-> "either"],
             [pattern |-> <<"a">>,      stream |-> "stdout"]>>
=============================================================================
