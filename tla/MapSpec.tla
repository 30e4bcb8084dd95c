------------------------------ MODULE MapSpec ------------------------------
(***************************************************************************)
(* What the map types of the language promise (docs/spec, section 3.5): a  *)
(* partial function from keys to values.  map_set inserts or updates,      *)
(* map_delete removes, map_get and map_has observe.  map_get of a missing  *)
(* key stops the program; the typed variants return a default instead.     *)
(* OscMap, the open-addressing table of the runtime, implements this.      *)
(***************************************************************************)
EXTENDS FiniteSets, Naturals

CONSTANTS Keys,     \* the keys a program uses
          Vals,     \* the values it stores
          NoVal,    \* stands for "no entry"
          Default   \* what a typed map returns for a missing key

VARIABLES dict,     \* the entries: Vals, or NoVal where there is none
          ret       \* what the last completed operation returned

SpecVars == <<dict, ret>>

\* What a call returns, with the key it asked about.
Unit == <<"unit">>
Value(k, v) == <<"value", k, v>>
Has(k, b) == <<"has", k, b>>
Length(n) == <<"length", n>>

Entries(d) == {k \in Keys : d[k] # NoVal}

SpecInit ==
  /\ dict = [k \in Keys |-> NoVal]
  /\ ret = Unit

SpecSet(k, v) ==
  /\ dict' = [dict EXCEPT ![k] = v]
  /\ ret' = Unit

SpecDelete(k) ==
  /\ dict' = [dict EXCEPT ![k] = NoVal]
  /\ ret' = Unit

SpecGet(k) ==
  /\ dict[k] # NoVal
  /\ ret' = Value(k, dict[k])
  /\ UNCHANGED dict

SpecTypedGet(k) ==
  /\ ret' = Value(k, IF dict[k] = NoVal THEN Default ELSE dict[k])
  /\ UNCHANGED dict

SpecHas(k) ==
  /\ ret' = Has(k, dict[k] # NoVal)
  /\ UNCHANGED dict

SpecLen ==
  /\ ret' = Length(Cardinality(Entries(dict)))
  /\ UNCHANGED dict

SpecNext ==
  \/ \E k \in Keys :
       \/ \E v \in Vals : SpecSet(k, v)
       \/ SpecDelete(k)
       \/ SpecGet(k)
       \/ SpecTypedGet(k)
       \/ SpecHas(k)
  \/ SpecLen

SpecMap == SpecInit /\ [][SpecNext]_SpecVars
=============================================================================
