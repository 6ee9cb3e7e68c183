------------------------------ MODULE MCNative ------------------------------
(***************************************************************************)
(* NativeDriver for TLC.                                                   *)
(***************************************************************************)
EXTENDS NativeDriver

MCPlans ==
  {[kinds |-> <<"script", "process">>, destination |-> "file"],
   [kinds |-> <<"elevated">>, destination |-> "memory"],
   [kinds |-> <<"noninteractive", "script">>, destination |-> "memory"]}
=============================================================================
