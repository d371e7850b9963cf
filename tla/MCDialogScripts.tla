-------------------------- MODULE MCDialogScripts --------------------------
(***************************************************************************)
(* Two takes of the first turns, one of the others and two HTTP threads: a *)
(* take can be swept, replaced, accepted again and confused with another.  *)
(***************************************************************************)
EXTENDS DialogScripts, TLC

CONSTANTS one, other, g1, g2, g3, t1, t2

TakeKeys == [g \in {g1, g2, g3} |-> IF g = g3 THEN other ELSE one]

\* Threads are alike, and so are takes of the same turns.
Alike == {p @@ q : p \in Permutations({t1, t2}), q \in Permutations({g1, g2})}
=============================================================================
