------------------------------ MODULE MCOscMap ------------------------------
(* Three keys in a table of two slots that may grow to four and to eight:   *)
(* k1 and k2 collide until there are eight, k3 is displaced by them or      *)
(* wraps around.                                                            *)
EXTENDS OscMap, TLC

CONSTANTS k1, k2, k3, v1, v2

MCKeys == {k1, k2, k3}
MCVals == {v1, v2}
MCHash == (k1 :> 1) @@ (k2 :> 5) @@ (k3 :> 2)
=============================================================================
