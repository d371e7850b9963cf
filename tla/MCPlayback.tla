----------------------------- MODULE MCPlayback -----------------------------
(***************************************************************************)
(* One universe and two creatures.  A behaviour has one of two workloads:  *)
(* sessions that are played, interrupted and queued while loads and sends  *)
(* fail; or playlists that are started, stopped, interrupted, followed by  *)
(* queued speech and streamed over while idle playback is switched.        *)
(***************************************************************************)
EXTENDS Playback

MCDrives == [solo   |-> {"beaky"},
             speech |-> {"beaky"},
             bad    |-> {"beaky"},
             duet   |-> {"beaky", "mango"},
             idleB  |-> {"beaky"},
             idleM  |-> {"mango"}]

MCHome == [c \in Creature |-> "u1"]

MCItems == [p1 |-> {"solo"}]

MCBeakyIdles == [beaky |-> "idleB"]

MCWorkloads ==
  {[kinds |-> {"play", "idleOnly", "interrupt", "queue"},
    animations |-> {"speech", "bad"}, outputFails |-> TRUE],
   [kinds |-> {"start", "stop", "interrupt", "queue", "stream", "setIdle"},
    animations |-> {"solo", "bad"}, outputFails |-> FALSE]}
=============================================================================
