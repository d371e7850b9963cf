------------------------------- MODULE MCJobs -------------------------------
(***************************************************************************)
(* Three jobs: a render or music, any job, and music again.  So a scene is *)
(* rendered twice, an animation is re-rendered or re-synced, and a third   *)
(* music job finds both slots taken.  Clients save or delete one animation *)
(* and may make a copy.                                                    *)
(***************************************************************************)
EXTENDS Jobs

MCOffered == <<{"dialog", "dialogMusic"}, Kinds, {"dialogMusic"}>>
=============================================================================
