------------------------------- MODULE OscMap -------------------------------
(***************************************************************************)
(* The hash map of the runtime (runtime/osc_runtime.c, "Hash map"): open   *)
(* addressing, linear probing, tombstones, growth at three quarters full.  *)
(*                                                                         *)
(* One map is used by one program, so a call is a sequence of steps that   *)
(* nothing interrupts; pc says where the call is.  A call to osc_map_set   *)
(* first runs the rehash loop of osc_map_grow (one step per old slot) when *)
(* the load factor asks for it, then the probe loop that writes the entry. *)
(* The other calls are one probe loop each.  A probe loop is the choice of *)
(* the first position at which it stops.                                   *)
(*                                                                         *)
(* Keys are compared by hash and then by bytes, which is equality because  *)
(* the hash is a function of the bytes; the stored hash is not modelled.   *)
(* cap is a power of two, so "hash & (cap - 1)" is Hash[k] % cap.          *)
(***************************************************************************)
EXTENDS Integers, FiniteSets

CONSTANTS Keys,     \* the keys the program uses
          Vals,     \* the values it stores
          NoKey,    \* the key of a slot that memset cleared
          NoVal,    \* its value
          Default,  \* what a typed map returns for a missing key
          Hash,     \* the hash of each key (FNV-1a)
          InitCap,  \* the capacity of a new map: 16 in the code
          MaxCap    \* bound: the program stops calling set when the map
                    \* would have to grow past this capacity

ASSUME KeysAssumption == IsFiniteSet(Keys) /\ NoKey \notin Keys
ASSUME ValsAssumption == NoVal \notin Vals /\ Default \in Vals
ASSUME HashAssumption == Hash \in [Keys -> Nat]
ASSUME CapAssumption == InitCap \in Nat \ {0} /\ MaxCap \in Nat

VARIABLES slots,    \* the current table
          cap,      \* its capacity
          len,      \* the number of entries the map believes it has
          old,      \* while growing: the table being copied from
          next,     \* while growing: the next old slot to look at
          arg,      \* the key and value of the osc_map_set in progress
          pc,       \* where the program is in a call
          ret       \* what the last completed call returned

vars == <<slots, cap, len, old, next, arg, pc, ret>>

\* What a call returns, with the key it asked about.
Unit == <<"unit">>
Value(k, v) == <<"value", k, v>>
Has(k, b) == <<"has", k, b>>
Length(n) == <<"length", n>>

\* Slot states, as the code numbers them.
EMPTY == 0
OCCUPIED == 1
ClearedOnDelete == 0   \* mutant: a deleted slot becomes empty
TOMBSTONE == 2

Slot == [state : {EMPTY, OCCUPIED, TOMBSTONE},
         key : Keys \cup {NoKey}, value : Vals \cup {NoVal}]

EmptySlot == [state |-> EMPTY, key |-> NoKey, value |-> NoVal]

EmptyTable(c) == [s \in 0 .. c - 1 |-> EmptySlot]

Entry(k, v) == [state |-> OCCUPIED, key |-> k, value |-> v]

\* The i-th position a probe for k visits in a table of capacity c.
Probe(k, i, c) == (Hash[k] + i) % c

Holds(slot, k) == slot.state = OCCUPIED /\ slot.key = k

\* Mutant: a tombstone ends the probe like an empty slot.
StopsAtTombstone(k, i) ==
  LET s == slots[Probe(k, i, cap)]
  IN  s.state # OCCUPIED \/ Holds(s, k)

\* A lookup stops at an empty slot or at the slot of the key.
Stops(k, i) ==
  LET s == slots[Probe(k, i, cap)]
  IN  s.state = EMPTY \/ Holds(s, k)

\* The probe loop leaves at its i-th iteration.
LeavesAt(k, i) == Stops(k, i) /\ \A j \in 0 .. i - 1 : ~Stops(k, j)

\* The probe loop runs through all cap positions without stopping.
RunsOut(k) == \A i \in 0 .. cap - 1 : ~Stops(k, i)

Found(k, s) == \E i \in 0 .. cap - 1 :
                 LeavesAt(k, i) /\ s = Probe(k, i, cap) /\ Holds(slots[s], k)

NotFound(k) == \A s \in 0 .. cap - 1 : ~Found(k, s)

Init ==
  /\ slots = EmptyTable(InitCap)
  /\ cap = InitCap
  /\ len = 0
  /\ old = EmptyTable(0)
  /\ next = 0
  /\ arg = [key |-> NoKey, value |-> NoVal]
  /\ pc = "ready"
  /\ ret = Unit

\* Grow if >75% full.
MustGrow == len * 4 >= cap * 3

\* osc_map_set up to and including the allocation of the larger table, with
\* the capacity recorded and the one allocated.
GrowsTo(k, v, c, allocated) ==
  /\ pc = "ready"
  /\ MustGrow
  /\ cap * 2 <= MaxCap
  /\ old' = slots
  /\ cap' = c
  /\ slots' = EmptyTable(allocated)
  /\ len' = 0
  /\ next' = 0
  /\ arg' = [key |-> k, value |-> v]
  /\ pc' = "grow"
  /\ UNCHANGED ret

\* Mutant: the old capacity is allocated.
SetGrowsUnsized(k, v) == GrowsTo(k, v, cap * 2, cap)
SetGrows(k, v) == GrowsTo(k, v, cap * 2, cap * 2)

SetProbes(k, v) ==
  /\ pc = "ready"
  /\ ~MustGrow
  /\ arg' = [key |-> k, value |-> v]
  /\ pc' = "probe"
  /\ UNCHANGED <<slots, cap, len, old, next, ret>>

\* Where the rehash loop puts a key: the first slot that is empty.
RehashTarget(k, t) ==
  \E i \in 0 .. cap - 1 :
    /\ t = Probe(k, i, cap)
    /\ slots[t].state = EMPTY
    /\ \A j \in 0 .. i - 1 : slots[Probe(k, j, cap)].state # EMPTY

\* One iteration of the rehash loop of osc_map_grow.
GrowCopies ==
  /\ pc = "grow"
  /\ next \in DOMAIN old
  /\ old[next].state = OCCUPIED
  /\ \E t \in 0 .. cap - 1 :
       /\ RehashTarget(old[next].key, t)
       /\ slots' = [slots EXCEPT ![t] = old[next]]
  /\ len' = len + 1
  /\ next' = next + 1
  /\ UNCHANGED <<cap, old, arg, pc, ret>>

\* Mutant: the loop does not advance past a slot it does not copy.
SkipsInPlace ==
  /\ pc = "grow"
  /\ next \in DOMAIN old
  /\ old[next].state # OCCUPIED
  /\ UNCHANGED vars

GrowSkips ==
  /\ pc = "grow"
  /\ next \in DOMAIN old
  /\ old[next].state # OCCUPIED
  /\ next' = next + 1
  /\ UNCHANGED <<slots, cap, len, old, arg, pc, ret>>

GrowDone ==
  /\ pc = "grow"
  /\ next \notin DOMAIN old
  /\ old' = EmptyTable(0)
  /\ next' = 0
  /\ pc' = "probe"
  /\ UNCHANGED <<slots, cap, len, arg, ret>>

SetReturns ==
  /\ pc' = "ready"
  /\ ret' = Unit
  /\ arg' = [key |-> NoKey, value |-> NoVal]
  /\ UNCHANGED <<cap, old, next>>

\* The probe loop meets the key: the value is replaced.
SetUpdates ==
  /\ pc = "probe"
  /\ \E s \in 0 .. cap - 1 :
       /\ Found(arg.key, s)
       /\ slots' = [slots EXCEPT ![s].value = arg.value]
  /\ UNCHANGED len
  /\ SetReturns

\* The position the new entry takes when the probe loop stops at the empty
\* position i: the first tombstone the loop passed, or i itself.
InsertTarget(k, i, t) ==
  \E j \in 0 .. i :
    /\ t = Probe(k, j, cap)
    /\ slots[t].state # OCCUPIED
    /\ \A m \in 0 .. j - 1 : slots[Probe(k, m, cap)].state = OCCUPIED

\* Mutant: the entry goes to the first slot that is not occupied, before the
\* loop knows that the key is absent.
InsertsEagerly ==
  /\ pc = "probe"
  /\ \E t \in 0 .. cap - 1 :
       /\ InsertTarget(arg.key, cap - 1, t)
       /\ slots' = [slots EXCEPT ![t] = Entry(arg.key, arg.value)]
  /\ len' = len + 1
  /\ SetReturns

\* The probe loop meets an empty slot: the entry is new.
SetInserts ==
  /\ pc = "probe"
  /\ \E i \in 0 .. cap - 1, t \in 0 .. cap - 1 :
       /\ LeavesAt(arg.key, i)
       /\ slots[Probe(arg.key, i, cap)].state = EMPTY
       /\ InsertTarget(arg.key, i, t)
       /\ slots' = [slots EXCEPT ![t] = Entry(arg.key, arg.value)]
  /\ len' = len + 1
  /\ SetReturns

\* The probe loop runs out: OSC_PANIC("map_set: map is full").
SetPanics ==
  /\ pc = "probe"
  /\ RunsOut(arg.key)
  /\ pc' = "panicFull"
  /\ UNCHANGED <<slots, cap, len, old, next, arg, ret>>

Returns(r) ==
  /\ ret' = r
  /\ UNCHANGED <<slots, cap, len, old, next, arg, pc>>

osc_map_delete(k) ==
  /\ pc = "ready"
  /\ \/ \E s \in 0 .. cap - 1 :
          /\ Found(k, s)
          /\ slots' = [slots EXCEPT ![s].state = TOMBSTONE]
          /\ len' = len - 1
     \/ NotFound(k) /\ UNCHANGED <<slots, len>>
  /\ ret' = Unit
  /\ UNCHANGED <<cap, old, next, arg, pc>>

osc_map_get(k) ==
  /\ pc = "ready"
  /\ \/ \E s \in 0 .. cap - 1 : Found(k, s) /\ Returns(Value(k, slots[s].value))
     \/ /\ NotFound(k)          \* OSC_PANIC("map_get: key not found")
        /\ pc' = "panicMissing"
        /\ UNCHANGED <<slots, cap, len, old, next, arg, ret>>

osc_map_has(k) ==
  /\ pc = "ready"
  /\ \/ \E s \in 0 .. cap - 1 : Found(k, s) /\ Returns(Has(k, TRUE))
     \/ NotFound(k) /\ Returns(Has(k, FALSE))

\* The _get of the typed maps: osc_map_find_slot, then the default.
osc_map_typed_get(k) ==
  /\ pc = "ready"
  /\ \/ \E s \in 0 .. cap - 1 : Found(k, s) /\ Returns(Value(k, slots[s].value))
     \/ NotFound(k) /\ Returns(Value(k, Default))

osc_map_len ==
  /\ pc = "ready"
  /\ Returns(Length(len))

\* The steps of a call in progress.
Step == \/ GrowCopies \/ GrowSkips \/ GrowDone
        \/ SetUpdates \/ SetInserts \/ SetPanics

Next ==
  \/ \E k \in Keys :
       \/ \E v \in Vals : SetGrows(k, v) \/ SetProbes(k, v)
       \/ osc_map_delete(k)
       \/ osc_map_get(k)
       \/ osc_map_has(k)
       \/ osc_map_typed_get(k)
  \/ osc_map_len
  \/ Step

\* A call in progress keeps running: there is one thread.
Spec == Init /\ [][Next]_vars /\ WF_vars(Step)
-----------------------------------------------------------------------------
\* The slots whose entries the map still owns: all occupied slots of the
\* current table and, while growing, those of the old one not yet copied.
LiveOld == {s \in DOMAIN old : s >= next /\ old[s].state = OCCUPIED}
LiveNew == {s \in DOMAIN slots : slots[s].state = OCCUPIED}

Contents ==
  [k \in Keys |->
     IF \E s \in LiveNew : slots[s].key = k
     THEN slots[CHOOSE s \in LiveNew : slots[s].key = k].value
     ELSE IF \E s \in LiveOld : old[s].key = k
     THEN old[CHOOSE s \in LiveOld : old[s].key = k].value
     ELSE NoVal]

\* The map the language specifies.
Dict == INSTANCE MapSpec WITH dict <- Contents

\* The type of the state.  A table has the capacity the map records.
TypeOK ==
  /\ cap \in Nat \ {0}
  /\ slots \in [0 .. cap - 1 -> Slot]
  /\ len \in Int
  /\ next \in Nat
  /\ \E c \in 0 .. cap : old \in [0 .. c - 1 -> Slot]
  /\ arg \in [key : Keys \cup {NoKey}, value : Vals \cup {NoVal}]
  /\ pc \in {"ready", "grow", "probe", "panicFull", "panicMissing"}
  /\ ret \in {Unit} \cup ({"value"} \X Keys \X Vals) \cup ({"has"} \X Keys \X BOOLEAN)
            \cup ({"length"} \X Int)

\* No key has two live entries, in one table or across a growth: otherwise a
\* delete would uncover a stale value (osc_map_set with a tombstone before
\* the key).
NoDuplicates ==
  /\ \A s, t \in LiveNew : slots[s].key = slots[t].key => s = t
  /\ \A s, t \in LiveOld : old[s].key = old[t].key => s = t
  /\ \A s \in LiveNew, t \in LiveOld : slots[s].key # old[t].key

\* Slot s is on the probe sequence of k, before any empty slot.
OnPath(k, s) ==
  \E i \in 0 .. cap - 1 :
    /\ s = Probe(k, i, cap)
    /\ \A j \in 0 .. i - 1 : slots[Probe(k, j, cap)].state # EMPTY

\* Every entry can be found: the probe sequence of its key reaches it before
\* any empty slot.  This is what tombstones are for.
Reachable == \A s \in LiveNew : OnPath(slots[s].key, s)

\* The table implements the specified map: every call acts on the contents
\* as MapSpec says, growth changes nothing, a panic changes nothing.
Refines == Dict!SpecMap

\* A set in progress ends, with the entry written or with the panic.
SetEnds == pc \in {"grow", "probe"} ~> pc \in {"ready", "panicFull"}
=============================================================================
