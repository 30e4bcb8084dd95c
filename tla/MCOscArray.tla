----------------------------- MODULE MCOscArray -----------------------------
(* Two arrays of up to three elements in two nested arenas created over     *)
(* time.  The first arena outlives every other, so string literals are      *)
(* taken to point into it (Static = 1).                                     *)
EXTENDS OscArray

CONSTANT x

MCVals == {x}
MCInitCaps == {0, 2}
MCKinds == BOOLEAN
=============================================================================
