------------------------- MODULE MCFixturePatterns -------------------------
(***************************************************************************)
(* A fixture on which two creatures and an operator meet: one binding of a *)
(* creature gives way to the next, one of the other creature overlaps.     *)
(***************************************************************************)
EXTENDS FixturePatterns

CONSTANTS f1, c1, c2, p1, p2

MCBindings ==
  [f \in Fixtures |-> <<[creature |-> c1, on |-> {"running"}, pattern |-> p1],
                        [creature |-> c1, on |-> {"idle"}, pattern |-> p2],
                        [creature |-> c2, on |-> {"running"}, pattern |-> p2]>>]
=============================================================================
