--------------------------- MODULE MCCheckedArith ---------------------------
(* Every pair of operands of a five-bit integer type.                       *)
EXTENDS CheckedArith

MCBackends == {"c", "native"}
MCOperands == Ints
=============================================================================
