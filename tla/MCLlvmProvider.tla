--------------------------- MODULE MCLlvmProvider ---------------------------
(***************************************************************************)
(* At most two of three places hold something, of every kind.              *)
(***************************************************************************)
EXTENDS LlvmProvider, FiniteSets

MCPlaces == <<"explicit", "dir", "sidecar", "exe">>
Kinds == {"absent", "unvouched", "unloadable", "partial", "old", "bare", "x86", "all"}
MCLibraries ==
  {l \in [{"explicit", "dir", "sidecar", "exe"} -> Kinds] :
     /\ l.explicit = l.dir
     /\ \A p \in {"explicit", "dir", "exe"} : l[p] # "unvouched"
     /\ Cardinality({p \in {"dir", "sidecar", "exe"} : l[p] # "absent"}) <= 2}
MCEnvironments ==
  {[lib |-> lib, relative |-> r] : lib \in {"none", "absolute", "relative"}, r \in {{}, {"dir"}}}
=============================================================================
