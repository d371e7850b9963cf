------------------------------ MODULE MCSpeech ------------------------------
(* Either one agent says three sentences while anything may fail, or two   *)
(* agents speak on the same universe, one of them two.                     *)
EXTENDS Speech

CONSTANTS s1, s2

MCWorkloads ==
  {[says |-> s1 :> 3 @@ s2 :> 0, faults |-> TRUE],
   [says |-> s1 :> 2 @@ s2 :> 1, faults |-> FALSE]}
=============================================================================
