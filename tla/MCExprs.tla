------------------------------- MODULE MCExprs -------------------------------
(***************************************************************************)
(* The statement starts with x = 1 or 2 and an array of two elements, so    *)
(* x is or is not one of its indices.                                      *)
(***************************************************************************)
EXTENDS Exprs

MCStarts == {[vars |-> [x |-> <<n>>, a |-> <<1>>, i |-> <<0>>], tmps |-> << >>,
             heap |-> << <<1, 3>> >>, out |-> << >>, st |-> "run", ret |-> <<0>>] : n \in {1, 2}}
=============================================================================
