------------------------------ MODULE MCFnBody ------------------------------
(* Every body of up to MaxLen statements, in either back end.               *)
EXTENDS FnBody

MCBackends == {"c", "native"}
MCAll == AllStmts
=============================================================================
