------------------------ MODULE MCAudioLoadExecutor ------------------------
(***************************************************************************)
(* Two workers and a queue for one more load, four loads, one scheduling   *)
(* thread; a failed worker schedules as well.  One cancelled job is pruned *)
(* per admission, so pruning also stops short of the last one.             *)
(***************************************************************************)
EXTENDS AudioLoadExecutor
=============================================================================
