----------------------------- MODULE MCLibrary -----------------------------
(***************************************************************************)
(* Two threads.  Three requests for one fixture, or for one stage and the  *)
(* animation made on it, overlap in every way: two writes and a read       *)
(* beside them, an edit, a render and a save.  Two requests of any kinds   *)
(* at all, so that every operation meets every other; of two kinds with    *)
(* the same steps on the same document, the workloads of three have one.   *)
(***************************************************************************)
EXTENDS Library, TLC

KindsAbout(docs) ==
  {kind \in Kinds \ {"getAllFixtures", "lipSyncAnimation"} : Request[kind].doc \in docs}

MCWorkloads ==
  {[kinds |-> KindsAbout({"fixture"}), requests |-> 3],
   [kinds |-> KindsAbout({"stage", "animation"}), requests |-> 3],
   [kinds |-> Kinds, requests |-> 2]}

Threads == Permutations(Thread)
=============================================================================
