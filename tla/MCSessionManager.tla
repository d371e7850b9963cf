-------------------------- MODULE MCSessionManager --------------------------
(***************************************************************************)
(* One universe, two creatures and a fixture, the animations that make     *)
(* every overlap possible: a solo for each creature, a duet, a light.      *)
(***************************************************************************)
EXTENDS SessionManager

MCDrives == [solo |-> {"beaky"}, duet |-> {"beaky", "mango"}, lit |-> {"mango", "par"}]
=============================================================================
