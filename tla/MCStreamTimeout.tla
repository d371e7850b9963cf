-------------------------- MODULE MCStreamTimeout --------------------------
(***************************************************************************)
(* Two WebSocket threads and one creature: the timeouts of different       *)
(* creatures share no state but the event loop.                            *)
(***************************************************************************)
EXTENDS StreamTimeout

CONSTANTS c1, t1, t2
=============================================================================
