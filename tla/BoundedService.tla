---------------------------- MODULE BoundedService ----------------------------
(***************************************************************************)
(* What the server promises wherever it bounds outstanding work: a task is *)
(* admitted only while fewer than Capacity others are outstanding, and it  *)
(* is refused only because as many are, or because the service has closed. *)
(* An admitted task stays outstanding until it is over, once.              *)
(*                                                                         *)
(* AudioLoadExecutor.tla (loads of sounds) and Jobs.tla (generation of     *)
(* music) are shown to implement it.  Tasks that are found to be over may  *)
(* be cleared away by the step that admits or refuses another one.         *)
(***************************************************************************)
EXTENDS Naturals, FiniteSets

CONSTANTS Tasks, Capacity

VARIABLES task, closed

vars == <<task, closed>>

Outstanding == {t \in Tasks : task[t] = "held"}

\* The tasks of S are over and the others as they were.
Over(S) == [t \in Tasks |-> IF t \in S THEN "over" ELSE task[t]]

Init ==
  /\ task = [t \in Tasks |-> "new"]
  /\ closed = FALSE

Admit(t, S) ==
  /\ task[t] = "new" /\ ~closed
  /\ Cardinality(Outstanding \ S) < Capacity
  /\ task' = [Over(S) EXCEPT ![t] = "held"]
  /\ UNCHANGED closed

Refuse(t, S) ==
  /\ task[t] = "new"
  /\ closed \/ Cardinality(Outstanding \ S) >= Capacity
  /\ task' = [Over(S) EXCEPT ![t] = "over"]
  /\ UNCHANGED closed

Finish(S) ==
  /\ task' = Over(S)
  /\ UNCHANGED closed

Close ==
  /\ closed' = TRUE
  /\ UNCHANGED task

Next ==
  \/ \E S \in SUBSET Outstanding :
       Finish(S) \/ \E t \in Tasks : Admit(t, S) \/ Refuse(t, S)
  \/ Close

Spec == Init /\ [][Next]_vars
=============================================================================
