---------------------------- MODULE MCLocalAudio ----------------------------
(***************************************************************************)
(* One client, three requests, recordings of at most one chunk.            *)
(***************************************************************************)
EXTENDS LocalAudio
=============================================================================
