---------------------------- MODULE MCRtpOutput ----------------------------
(***************************************************************************)
(* A cooperative and a standalone playback compete for the output.         *)
(***************************************************************************)
EXTENDS RtpOutput
=============================================================================
