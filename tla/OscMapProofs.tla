---------------------------- MODULE OscMapProofs ----------------------------
(***************************************************************************)
(* Proofs about OscMap for any finite set of keys, any hash function and   *)
(* any initial capacity.                                                   *)
(*                                                                         *)
(* TypeOK, NoDuplicates and Reachable hold together: an insertion creates  *)
(* no duplicate because a lookup that stops at an empty slot has passed    *)
(* every place the key could be, which is what Reachable says.             *)
(***************************************************************************)
EXTENDS OscMap, FiniteSetTheorems, TLAPS

\* Between calls nothing is left of a growth, and a set in progress has its
\* arguments.
CallOK ==
  /\ pc \in {"grow", "probe"} => arg.key \in Keys /\ arg.value \in Vals
  /\ pc # "grow" => LiveOld = {}

\* An occupied slot holds a key and a value of the program.
EntriesOK ==
  /\ \A s \in LiveNew : slots[s].key \in Keys /\ slots[s].value \in Vals
  /\ \A s \in LiveOld : old[s].key \in Keys /\ old[s].value \in Vals

\* The inductive invariant.
IInv == TypeOK /\ CallOK /\ EntriesOK /\ NoDuplicates /\ Reachable

\* A probe position is a position of the table.
LEMMA ProbeInTable ==
  ASSUME NEW k \in Keys, NEW i \in Nat, NEW c \in Nat \ {0}
  PROVE  Probe(k, i, c) \in 0 .. c - 1
<1>1. Hash[k] \in Nat
  BY HashAssumption
<1> QED
  BY <1>1 DEF Probe

\* A new map satisfies the invariant.
LEMMA InitIInv == Init => IInv
<1> SUFFICES ASSUME Init PROVE IInv
  OBVIOUS
<1> USE KeysAssumption, ValsAssumption, CapAssumption DEF Init
<1>1. TypeOK
  <2>1. slots \in [0 .. cap - 1 -> Slot]
    BY DEF EmptyTable, EmptySlot, Slot, EMPTY, OCCUPIED, TOMBSTONE
  <2>2. \E c \in 0 .. cap : old \in [0 .. c - 1 -> Slot]
    <3>1. old \in [0 .. 0 - 1 -> Slot]
      BY DEF EmptyTable, EmptySlot, Slot, EMPTY, OCCUPIED, TOMBSTONE
    <3> QED
      BY <3>1
  <2> QED
    BY <2>1, <2>2 DEF TypeOK
<1>2. LiveNew = {} /\ LiveOld = {}
  BY DEF LiveNew, LiveOld, EmptyTable, EmptySlot, EMPTY, OCCUPIED
<1> QED
  BY <1>1, <1>2 DEF IInv, CallOK, EntriesOK, NoDuplicates, Reachable

\* Slots that never become empty keep every probe path.
LEMMA PathsKept ==
  ASSUME cap \in Nat \ {0}, cap' = cap,
         \A s \in 0 .. cap - 1 : slots[s].state # EMPTY => slots'[s].state # EMPTY,
         NEW k \in Keys, NEW s, OnPath(k, s)
  PROVE  OnPath(k, s)'
<1>1. PICK i \in 0 .. cap - 1 :
        /\ s = Probe(k, i, cap)
        /\ \A j \in 0 .. i - 1 : slots[Probe(k, j, cap)].state # EMPTY
  BY DEF OnPath
<1>2. \A j \in 0 .. i - 1 : Probe(k, j, cap) \in 0 .. cap - 1
  BY ProbeInTable
<1>3. \A j \in 0 .. i - 1 : slots'[Probe(k, j, cap)].state # EMPTY
  BY <1>1, <1>2
<1> QED
  BY <1>1, <1>3 DEF OnPath, Probe, EMPTY

\* Writing an occupied slot into a position that is not occupied keeps every
\* entry reachable when the new entry is.
LEMMA WriteReachable ==
  ASSUME IInv, NEW t \in 0 .. cap - 1, NEW e \in Slot,
         slots[t].state # OCCUPIED, e.state = OCCUPIED, e.key \in Keys,
         OnPath(e.key, t),
         slots' = [slots EXCEPT ![t] = e], cap' = cap
  PROVE  Reachable'
<1>0. cap \in Nat \ {0} /\ slots \in [0 .. cap - 1 -> Slot]
  BY DEF IInv, TypeOK
<1>1. \A s \in 0 .. cap - 1 : slots[s].state # EMPTY => slots'[s].state # EMPTY
  BY <1>0 DEF EMPTY, OCCUPIED
<1>2. ASSUME NEW s \in LiveNew'
      PROVE  OnPath(slots[s].key, s)'
  <2>1. CASE s = t
    <3>1. slots'[s].key = e.key
      BY <2>1, <1>0
    <3>2. OnPath(e.key, t)'
      BY <1>0, <1>1, PathsKept
    <3> QED
      BY <2>1, <3>1, <3>2 DEF OnPath, Probe, EMPTY
  <2>2. CASE s # t
    <3>1. s \in LiveNew /\ slots'[s] = slots[s]
      BY <2>2, <1>0 DEF LiveNew
    <3>2. PICK k \in Keys : slots[s].key = k /\ OnPath(k, s)
      BY <3>1 DEF IInv, EntriesOK, Reachable
    <3>3. OnPath(k, s)'
      BY <1>0, <1>1, <3>2, PathsKept
    <3> QED
      BY <3>1, <3>2, <3>3 DEF OnPath, Probe, EMPTY
  <2> QED
    BY <2>1, <2>2
<1> QED
  BY <1>2 DEF Reachable

\* An entry that is found is where Found says, and it is an entry of k.
LEMMA FoundHolds ==
  ASSUME IInv, NEW k \in Keys, NEW s \in 0 .. cap - 1, Found(k, s)
  PROVE  s \in LiveNew /\ slots[s].key = k /\ slots[s].value \in Vals
BY DEF IInv, TypeOK, EntriesOK, Found, Holds, LiveNew

\* A probe that stops at an empty slot has shown that the key is absent.
LEMMA EmptyMeansAbsent ==
  ASSUME IInv, NEW k \in Keys, NEW i \in 0 .. cap - 1, LeavesAt(k, i),
         slots[Probe(k, i, cap)].state = EMPTY
  PROVE  \A s \in LiveNew : slots[s].key # k
<1> SUFFICES ASSUME NEW s \in LiveNew, slots[s].key = k PROVE FALSE
  OBVIOUS
<1> USE DEF IInv, TypeOK
<1>1. PICK n \in 0 .. cap - 1 :
        /\ s = Probe(k, n, cap)
        /\ \A m \in 0 .. n - 1 : slots[Probe(k, m, cap)].state # EMPTY
  BY DEF Reachable, OnPath
<1>2. Stops(k, n)
  BY <1>1 DEF Stops, Holds, LiveNew
<1>3. ~(n < i)
  BY <1>2 DEF LeavesAt
<1>4. ~(i < n)
  BY <1>1
<1>5. n # i
  BY <1>1 DEF LiveNew, EMPTY, OCCUPIED
<1> QED
  BY <1>3, <1>4, <1>5

\* A step that leaves the table, the old table and the call alone and returns
\* a value of the right type keeps the invariant.
LEMMA ReturnsIInv ==
  ASSUME IInv, NEW r, Returns(r),
         r \in {Unit} \cup ({"value"} \X Keys \X Vals) \cup ({"has"} \X Keys \X BOOLEAN)
               \cup ({"length"} \X Int)
  PROVE  IInv'
<1> USE DEF Returns
<1>1. TypeOK'
  BY DEF IInv, TypeOK
<1>2. LiveNew' = LiveNew /\ LiveOld' = LiveOld
  BY DEF LiveNew, LiveOld
<1>3. CallOK' /\ EntriesOK' /\ NoDuplicates'
  BY <1>2 DEF IInv, CallOK, EntriesOK, NoDuplicates
<1>4. Reachable'
  BY <1>2 DEF IInv, Reachable, OnPath, Probe, EMPTY
<1> QED
  BY <1>1, <1>3, <1>4 DEF IInv

\* Writing an entry whose key is nowhere else keeps the entries well formed
\* and distinct.
LEMMA WriteDistinct ==
  ASSUME IInv, NEW t \in 0 .. cap - 1, NEW e \in Slot,
         e.state = OCCUPIED, e.key \in Keys, e.value \in Vals,
         slots' = [slots EXCEPT ![t] = e], cap' = cap,
         old' = old, LiveOld' \subseteq LiveOld,
         \A s \in LiveNew : slots[s].key # e.key,
         \A s \in LiveOld' : old[s].key # e.key
  PROVE  EntriesOK' /\ NoDuplicates'
<1>0. cap \in Nat \ {0} /\ slots \in [0 .. cap - 1 -> Slot]
  BY DEF IInv, TypeOK
<1>1. LiveNew' = LiveNew \cup {t}
  BY <1>0 DEF LiveNew
<1>2. slots'[t] = e /\ \A s \in LiveNew \ {t} : slots'[s] = slots[s]
  BY <1>0 DEF LiveNew
<1>3. EntriesOK'
  BY <1>1, <1>2 DEF IInv, EntriesOK
<1>4. \A r, s \in LiveNew' : slots'[r].key = slots'[s].key => r = s
  BY <1>1, <1>2 DEF IInv, NoDuplicates
<1>5. \A r, s \in LiveOld' : old'[r].key = old'[s].key => r = s
  BY DEF IInv, NoDuplicates
<1>6. \A s \in LiveNew', r \in LiveOld' : slots'[s].key # old'[r].key
  BY <1>1, <1>2 DEF IInv, NoDuplicates
<1> QED
  BY <1>3, <1>4, <1>5, <1>6 DEF NoDuplicates

\* The first position that is not occupied, or not empty, is on the path.
LEMMA FirstFreeOnPath ==
  ASSUME NEW k \in Keys, NEW j \in 0 .. cap - 1,
         \/ \A m \in 0 .. j - 1 : slots[Probe(k, m, cap)].state = OCCUPIED
         \/ \A m \in 0 .. j - 1 : slots[Probe(k, m, cap)].state # EMPTY
  PROVE  OnPath(k, Probe(k, j, cap))
BY DEF OnPath, EMPTY, OCCUPIED

\* The larger table is empty and the old one holds every entry.
LEMMA SetGrowsIInv ==
  ASSUME IInv, NEW k \in Keys, NEW v \in Vals, SetGrows(k, v)
  PROVE  IInv'
<1> USE DEF SetGrows, GrowsTo
<1>0. cap \in Nat \ {0} /\ slots \in [0 .. cap - 1 -> Slot]
  BY DEF IInv, TypeOK
<1>1. TypeOK'
  <2>1. slots' \in [0 .. cap' - 1 -> Slot]
    BY <1>0 DEF EmptyTable, EmptySlot, Slot, EMPTY
  <2>2. \E c \in 0 .. cap' : old' \in [0 .. c - 1 -> Slot]
    BY <1>0
  <2>3. /\ cap' \in Nat \ {0} /\ len' \in Int /\ next' \in Nat
        /\ arg' \in [key : Keys \cup {NoKey}, value : Vals \cup {NoVal}]
    BY <1>0
  <2>4. ret' = ret /\ pc' = "grow"
    OBVIOUS
  <2> HIDE DEF SetGrows, GrowsTo
  <2> QED
    BY <2>1, <2>2, <2>3, <2>4 DEF IInv, TypeOK
<1>2. LiveNew' = {}
  BY DEF LiveNew, EmptyTable, EmptySlot, EMPTY, OCCUPIED
<1>3. LiveOld' = LiveNew
  BY <1>0 DEF LiveOld, LiveNew
<1> QED
  BY <1>1, <1>2, <1>3
  DEF IInv, CallOK, EntriesOK, NoDuplicates, Reachable

\* A set that need not grow changes nothing but the call in progress.
LEMMA SetProbesIInv ==
  ASSUME IInv, NEW k \in Keys, NEW v \in Vals, SetProbes(k, v)
  PROVE  IInv'
<1> USE DEF SetProbes
<1>1. TypeOK'
  BY DEF IInv, TypeOK
<1>2. LiveNew' = LiveNew /\ LiveOld' = LiveOld
  BY DEF LiveNew, LiveOld
<1>3. CallOK' /\ EntriesOK' /\ NoDuplicates'
  BY <1>2 DEF IInv, CallOK, EntriesOK, NoDuplicates
<1>4. Reachable'
  BY <1>2 DEF IInv, Reachable, OnPath, Probe, EMPTY
<1> QED
  BY <1>1, <1>3, <1>4 DEF IInv

\* Copying moves one entry from the old table to the new one.
LEMMA GrowCopiesIInv == ASSUME IInv, GrowCopies PROVE IInv'
<1> USE DEF GrowCopies
<1>0. /\ cap \in Nat \ {0} /\ slots \in [0 .. cap - 1 -> Slot]
      /\ next \in Nat /\ len \in Int
      /\ \E c \in 0 .. cap : old \in [0 .. c - 1 -> Slot]
  BY DEF IInv, TypeOK
<1>1. PICK t \in 0 .. cap - 1 :
        /\ RehashTarget(old[next].key, t)
        /\ slots' = [slots EXCEPT ![t] = old[next]]
  OBVIOUS
<1>2. next \in LiveOld /\ LiveOld' = LiveOld \ {next}
  BY <1>0 DEF LiveOld
<1>3. old[next] \in Slot /\ old[next].key \in Keys /\ old[next].value \in Vals
  BY <1>0, <1>2 DEF IInv, EntriesOK
<1>4. TypeOK'
  <2>1. /\ slots' \in [0 .. cap - 1 -> Slot]
        /\ cap' = cap /\ len' \in Int /\ next' \in Nat
        /\ old' = old /\ arg' = arg /\ pc' = pc /\ ret' = ret
    BY <1>0, <1>1, <1>3
  <2> HIDE DEF GrowCopies
  <2> QED
    BY <2>1 DEF IInv, TypeOK
<1>5. /\ \A s \in LiveNew : slots[s].key # old[next].key
      /\ \A s \in LiveOld' : old[s].key # old[next].key
  BY <1>2 DEF IInv, NoDuplicates
<1>6. EntriesOK' /\ NoDuplicates'
  BY <1>1, <1>2, <1>3, <1>5, WriteDistinct
<1>7. Reachable'
  <2>1. PICK i \in 0 .. cap - 1 :
          /\ t = Probe(old[next].key, i, cap)
          /\ slots[t].state = EMPTY
          /\ \A j \in 0 .. i - 1 : slots[Probe(old[next].key, j, cap)].state # EMPTY
    BY <1>1 DEF RehashTarget
  <2>2. OnPath(old[next].key, t)
    BY <1>3, <2>1, FirstFreeOnPath
  <2>3. slots[t].state # OCCUPIED
    BY <2>1 DEF EMPTY, OCCUPIED
  <2> QED
    BY <1>1, <1>3, <2>2, <2>3, WriteReachable
<1>8. CallOK'
  BY <1>2 DEF IInv, CallOK
<1> QED
  BY <1>4, <1>6, <1>7, <1>8 DEF IInv

\* A slot of the old table that is not occupied owns nothing.
LEMMA GrowSkipsIInv == ASSUME IInv, GrowSkips PROVE IInv'
<1> USE DEF GrowSkips
<1>0. /\ next \in Nat
      /\ \E c \in 0 .. cap : old \in [0 .. c - 1 -> Slot]
      /\ cap \in Nat
  BY DEF IInv, TypeOK
<1>1. TypeOK'
  BY DEF IInv, TypeOK
<1>2. LiveNew' = LiveNew /\ LiveOld' = LiveOld
  BY <1>0 DEF LiveNew, LiveOld
<1>3. CallOK' /\ EntriesOK' /\ NoDuplicates'
  BY <1>2 DEF IInv, CallOK, EntriesOK, NoDuplicates
<1>4. Reachable'
  BY <1>2 DEF IInv, Reachable, OnPath, Probe, EMPTY
<1> QED
  BY <1>1, <1>3, <1>4 DEF IInv

\* When the loop ends no old slot is left to copy.
LEMMA GrowDoneIInv == ASSUME IInv, GrowDone PROVE IInv'
<1> USE DEF GrowDone
<1>0. old' \in [0 .. 0 - 1 -> Slot]
  BY DEF EmptyTable, EmptySlot, Slot, EMPTY, OCCUPIED, TOMBSTONE
<1>1. TypeOK'
  <2>1. cap \in Nat \ {0} /\ cap' = cap
    BY DEF IInv, TypeOK
  <2>2. \E c \in 0 .. cap' : old' \in [0 .. c - 1 -> Slot]
    BY <1>0, <2>1
  <2> QED
    BY <2>2 DEF IInv, TypeOK
<1>2. LiveNew' = LiveNew /\ LiveOld' = {}
  BY DEF LiveNew, LiveOld, EmptyTable
<1>3. CallOK' /\ EntriesOK' /\ NoDuplicates'
  BY <1>2 DEF IInv, CallOK, EntriesOK, NoDuplicates
<1>4. Reachable'
  BY <1>2 DEF IInv, Reachable, OnPath, Probe, EMPTY
<1> QED
  BY <1>1, <1>3, <1>4 DEF IInv

\* What SetReturns leaves behind: the table is typed by the caller.
LEMMA SetReturnsOK ==
  ASSUME IInv, pc = "probe", SetReturns,
         slots' \in [0 .. cap - 1 -> Slot], len' \in Int
  PROVE  TypeOK' /\ CallOK' /\ LiveOld' = {} /\ LiveOld = {}
<1> USE DEF SetReturns
<1>1. LiveOld' = LiveOld /\ LiveOld = {}
  BY DEF IInv, CallOK, LiveOld
<1>2. /\ arg' \in [key : Keys \cup {NoKey}, value : Vals \cup {NoVal}]
      /\ ret' = Unit /\ pc' = "ready"
      /\ cap' = cap /\ old' = old /\ next' = next
  OBVIOUS
<1>3. TypeOK'
  <2> HIDE DEF SetReturns
  <2> QED
    BY <1>2 DEF IInv, TypeOK
<1> QED
  BY <1>1, <1>2, <1>3 DEF CallOK

\* An update changes only the value of the entry that was found.
LEMMA SetUpdatesIInv == ASSUME IInv, SetUpdates PROVE IInv'
<1>0. /\ cap \in Nat \ {0} /\ slots \in [0 .. cap - 1 -> Slot] /\ len \in Int
      /\ pc = "probe" /\ arg.key \in Keys /\ arg.value \in Vals
      /\ len' = len /\ cap' = cap /\ old' = old /\ next' = next
      /\ SetReturns
  BY DEF IInv, TypeOK, CallOK, SetUpdates, SetReturns
<1>1. PICK u \in 0 .. cap - 1 :
        /\ Found(arg.key, u)
        /\ slots' = [slots EXCEPT ![u].value = arg.value]
  BY DEF SetUpdates
<1>2. /\ slots' \in [0 .. cap - 1 -> Slot]
      /\ \A s \in 0 .. cap - 1 :
           /\ slots'[s].state = slots[s].state
           /\ slots'[s].key = slots[s].key
           /\ slots'[s].value \in {slots[s].value, arg.value}
  BY <1>0, <1>1 DEF Slot
<1>3. TypeOK' /\ CallOK' /\ LiveOld' = {}
  BY <1>0, <1>2, SetReturnsOK
<1>4. LiveNew' = LiveNew
  BY <1>0, <1>2 DEF LiveNew
<1>5. EntriesOK' /\ NoDuplicates'
  BY <1>0, <1>2, <1>3, <1>4 DEF IInv, EntriesOK, NoDuplicates, LiveNew
<1>6. Reachable'
  <2> SUFFICES ASSUME NEW s \in LiveNew PROVE OnPath(slots[s].key, s)'
    BY <1>4 DEF Reachable
  <2>1. PICK k \in Keys : slots[s].key = k /\ OnPath(k, s)
    BY DEF IInv, EntriesOK, Reachable
  <2>2. OnPath(k, s)'
    BY <1>0, <1>2, <2>1, PathsKept
  <2>3. slots'[s].key = k
    BY <1>0, <1>2, <2>1 DEF LiveNew
  <2> QED
    BY <2>2, <2>3 DEF OnPath, Probe, EMPTY
<1> QED
  BY <1>3, <1>5, <1>6 DEF IInv

\* An insertion writes an entry that is not there yet.
LEMMA SetInsertsIInv == ASSUME IInv, SetInserts PROVE IInv'
<1>0. /\ cap \in Nat \ {0} /\ slots \in [0 .. cap - 1 -> Slot] /\ len \in Int
      /\ pc = "probe" /\ arg.key \in Keys /\ arg.value \in Vals
      /\ len' = len + 1 /\ cap' = cap /\ old' = old /\ next' = next
      /\ SetReturns
  BY DEF IInv, TypeOK, CallOK, SetInserts, SetReturns
<1>1. PICK i \in 0 .. cap - 1, t \in 0 .. cap - 1 :
        /\ LeavesAt(arg.key, i)
        /\ slots[Probe(arg.key, i, cap)].state = EMPTY
        /\ InsertTarget(arg.key, i, t)
        /\ slots' = [slots EXCEPT ![t] = Entry(arg.key, arg.value)]
  BY DEF SetInserts
<1>2. PICK e \in Slot : /\ e = Entry(arg.key, arg.value)
                        /\ e.state = OCCUPIED
                        /\ e.key = arg.key /\ e.value = arg.value
  <2>1. Entry(arg.key, arg.value) \in Slot
    BY <1>0 DEF Entry, Slot
  <2> QED
    BY <2>1 DEF Entry
<1>3. slots' \in [0 .. cap - 1 -> Slot]
  BY <1>0, <1>1, <1>2
<1>4. TypeOK' /\ CallOK' /\ LiveOld' = {}
  BY <1>0, <1>3, SetReturnsOK
<1>5. \A s \in LiveNew : slots[s].key # e.key
  BY <1>0, <1>1, <1>2, EmptyMeansAbsent
<1>6. EntriesOK' /\ NoDuplicates'
  BY <1>0, <1>1, <1>2, <1>4, <1>5, WriteDistinct
<1>7. Reachable'
  <2>1. PICK j \in 0 .. i :
          /\ t = Probe(arg.key, j, cap)
          /\ slots[t].state # OCCUPIED
          /\ \A m \in 0 .. j - 1 : slots[Probe(arg.key, m, cap)].state = OCCUPIED
    BY <1>1 DEF InsertTarget
  <2>2. j \in 0 .. cap - 1
    BY <1>0
  <2>3. OnPath(e.key, t)
    BY <1>0, <1>2, <2>1, <2>2, FirstFreeOnPath
  <2> QED
    BY <1>0, <1>1, <1>2, <2>1, <2>3, WriteReachable
<1> QED
  BY <1>4, <1>6, <1>7 DEF IInv

\* A panic changes only where the program is.
LEMMA PanicIInv ==
  ASSUME IInv, pc \in {"ready", "probe"}, pc' \in {"panicFull", "panicMissing"},
         UNCHANGED <<slots, cap, len, old, next, arg, ret>>
  PROVE  IInv'
<1>1. TypeOK'
  BY DEF IInv, TypeOK
<1>2. LiveNew' = LiveNew /\ LiveOld' = LiveOld
  BY DEF LiveNew, LiveOld
<1>3. CallOK' /\ EntriesOK' /\ NoDuplicates'
  BY <1>2 DEF IInv, CallOK, EntriesOK, NoDuplicates
<1>4. Reachable'
  BY <1>2 DEF IInv, Reachable, OnPath, Probe, EMPTY
<1> QED
  BY <1>1, <1>3, <1>4 DEF IInv

\* A deleted entry leaves a tombstone, which keeps the other paths.
LEMMA DeleteIInv == ASSUME IInv, NEW k \in Keys, osc_map_delete(k) PROVE IInv'
<1>0. /\ cap \in Nat \ {0} /\ slots \in [0 .. cap - 1 -> Slot] /\ len \in Int
      /\ pc = "ready" /\ ret' = Unit /\ pc' = pc
      /\ cap' = cap /\ old' = old /\ next' = next /\ arg' = arg
  BY DEF IInv, TypeOK, osc_map_delete
<1>1. CASE NotFound(k) /\ UNCHANGED <<slots, len>>
  BY <1>0, <1>1, ReturnsIInv DEF Returns
<1>2. ASSUME NEW d \in 0 .. cap - 1, Found(k, d),
             slots' = [slots EXCEPT ![d].state = TOMBSTONE], len' = len - 1
      PROVE  IInv'
  <2>1. /\ slots' \in [0 .. cap - 1 -> Slot]
        /\ \A s \in 0 .. cap - 1 :
             /\ slots'[s].key = slots[s].key
             /\ slots'[s].value = slots[s].value
             /\ s # d => slots'[s].state = slots[s].state
        /\ slots'[d].state = TOMBSTONE
    BY <1>0, <1>2 DEF Slot
  <2>2. TypeOK'
    BY <1>0, <1>2, <2>1 DEF IInv, TypeOK
  <2>3. LiveNew' = LiveNew \ {d} /\ LiveOld' = LiveOld
    BY <1>0, <2>1 DEF LiveNew, LiveOld, OCCUPIED, TOMBSTONE
  <2>4. CallOK' /\ EntriesOK' /\ NoDuplicates'
    BY <1>0, <2>1, <2>3
    DEF IInv, CallOK, EntriesOK, NoDuplicates, LiveNew
  <2>5. Reachable'
    <3> SUFFICES ASSUME NEW s \in LiveNew PROVE OnPath(slots[s].key, s)'
      BY <2>3 DEF Reachable
    <3>1. PICK j \in Keys : slots[s].key = j /\ OnPath(j, s)
      BY DEF IInv, EntriesOK, Reachable
    <3>2. \A r \in 0 .. cap - 1 : slots[r].state # EMPTY => slots'[r].state # EMPTY
      BY <2>1 DEF EMPTY, TOMBSTONE
    <3>3. OnPath(j, s)'
      BY <1>0, <3>1, <3>2, PathsKept
    <3>4. slots'[s].key = j
      BY <1>0, <2>1, <3>1 DEF LiveNew
    <3> QED
      BY <3>3, <3>4 DEF OnPath, Probe, EMPTY
  <2> QED
    BY <2>2, <2>4, <2>5 DEF IInv
<1> QED
  BY <1>1, <1>2 DEF osc_map_delete

\* The calls that only observe.
LEMMA ObserversIInv ==
  ASSUME IInv, NEW k \in Keys,
         osc_map_get(k) \/ osc_map_has(k) \/ osc_map_typed_get(k)
  PROVE  IInv'
<1>1. ASSUME NEW s \in 0 .. cap - 1, Found(k, s), Returns(Value(k, slots[s].value))
      PROVE  IInv'
  BY <1>1, FoundHolds, ReturnsIInv DEF Value
<1>2. ASSUME NEW b \in BOOLEAN, Returns(Has(k, b)) PROVE IInv'
  BY <1>2, ReturnsIInv DEF Has
<1>3. ASSUME Returns(Value(k, Default)) PROVE IInv'
  BY <1>3, ReturnsIInv, ValsAssumption DEF Value
<1>4. CASE osc_map_get(k)
  BY <1>1, <1>4, PanicIInv DEF osc_map_get
<1>5. CASE osc_map_has(k)
  BY <1>2, <1>5 DEF osc_map_has
<1>6. CASE osc_map_typed_get(k)
  BY <1>1, <1>3, <1>6 DEF osc_map_typed_get
<1> QED
  BY <1>4, <1>5, <1>6

\* Every step keeps the invariant.
LEMMA NextIInv == IInv /\ [Next]_vars => IInv'
<1> SUFFICES ASSUME IInv, [Next]_vars PROVE IInv'
  OBVIOUS
<1>1. ASSUME NEW k \in Keys, NEW v \in Vals, SetGrows(k, v) \/ SetProbes(k, v)
      PROVE  IInv'
  BY <1>1, SetGrowsIInv, SetProbesIInv
<1>2. ASSUME NEW k \in Keys, osc_map_delete(k) PROVE IInv'
  BY <1>2, DeleteIInv
<1>3. ASSUME NEW k \in Keys,
             osc_map_get(k) \/ osc_map_has(k) \/ osc_map_typed_get(k)
      PROVE  IInv'
  BY <1>3, ObserversIInv
<1>4. CASE osc_map_len
  <2>1. Length(len) \in {"length"} \X Int
    BY DEF IInv, TypeOK, Length
  <2> QED
    BY <1>4, <2>1, ReturnsIInv DEF osc_map_len
<1>5. CASE Step
  <2>1. CASE SetPanics
    BY <2>1, PanicIInv DEF SetPanics
  <2> QED
    BY <1>5, <2>1, GrowCopiesIInv, GrowSkipsIInv, GrowDoneIInv,
       SetUpdatesIInv, SetInsertsIInv DEF Step
<1>6. CASE UNCHANGED vars
  <2>1. Returns(ret)
    BY <1>6 DEF vars, Returns
  <2> QED
    BY <2>1, ReturnsIInv DEF IInv, TypeOK
<1> QED
  BY <1>1, <1>2, <1>3, <1>4, <1>5, <1>6 DEF Next

\* The map stays well typed, whatever the program calls.
THEOREM TypeCorrect == Spec => []TypeOK
<1>1. IInv => TypeOK
  BY DEF IInv
<1> QED
  BY <1>1, InitIInv, NextIInv, PTL DEF Spec

\* No key ever has two live entries, not even between the two tables of a
\* growth.
THEOREM KeysUnique == Spec => []NoDuplicates
<1>1. IInv => NoDuplicates
  BY DEF IInv
<1> QED
  BY <1>1, InitIInv, NextIInv, PTL DEF Spec

\* No sequence of insertions, deletions and growths hides an entry from the
\* probe loop.
THEOREM EntriesReachable == Spec => []Reachable
<1>1. IInv => Reachable
  BY DEF IInv
<1> QED
  BY <1>1, InitIInv, NextIInv, PTL DEF Spec
-----------------------------------------------------------------------------
\* The refinement.  Contents chooses the live entry of a key; since there is
\* at most one, a step is understood by what it does to the relation Live.

\* The map has a live entry for k with the value v.
Live(k, v) ==
  \/ \E s \in LiveNew : slots[s].key = k /\ slots[s].value = v
  \/ \E s \in LiveOld : old[s].key = k /\ old[s].value = v

\* A key has at most one live value.
LEMMA LiveUnique ==
  ASSUME IInv, NEW k, NEW v, NEW w, Live(k, v), Live(k, w)
  PROVE  v = w
BY DEF Live, IInv, NoDuplicates

\* Live entries have keys and values of the program.
LEMMA LiveVals ==
  ASSUME IInv, NEW k, NEW v, Live(k, v)
  PROVE  k \in Keys /\ v \in Vals
BY DEF Live, IInv, EntriesOK

\* Contents is the function whose graph is Live.
GraphOK ==
  /\ DOMAIN Contents = Keys
  /\ Contents = [k \in Keys |-> Contents[k]]
  /\ \A k \in Keys : Contents[k] \in Vals \cup {NoVal}
  /\ \A k \in Keys, v \in Vals : Contents[k] = v <=> Live(k, v)

\* It is, because no key has two live entries.
LEMMA ContentsLive == IInv => GraphOK
<1> SUFFICES ASSUME IInv PROVE GraphOK
  OBVIOUS
<1>1. ASSUME NEW k \in Keys
      PROVE  \/ Live(k, Contents[k])
             \/ Contents[k] = NoVal /\ \A v : ~Live(k, v)
  <2>1. CASE \E s \in LiveNew : slots[s].key = k
    <3> DEFINE c == CHOOSE s \in LiveNew : slots[s].key = k
    <3>1. c \in LiveNew /\ slots[c].key = k
      BY <2>1
    <3>2. Contents[k] = slots[c].value
      BY <2>1 DEF Contents
    <3> QED
      BY <3>1, <3>2 DEF Live
  <2>2. CASE /\ ~\E s \in LiveNew : slots[s].key = k
             /\ \E s \in LiveOld : old[s].key = k
    <3> DEFINE c == CHOOSE s \in LiveOld : old[s].key = k
    <3>1. c \in LiveOld /\ old[c].key = k
      BY <2>2
    <3>2. Contents[k] = old[c].value
      BY <2>2 DEF Contents
    <3> QED
      BY <3>1, <3>2 DEF Live
  <2>3. CASE /\ ~\E s \in LiveNew : slots[s].key = k
             /\ ~\E s \in LiveOld : old[s].key = k
    BY <2>3 DEF Contents, Live
  <2> QED
    BY <2>1, <2>2, <2>3
<1>2. DOMAIN Contents = Keys /\ Contents = [k \in Keys |-> Contents[k]]
  BY DEF Contents
<1>3. \A k \in Keys : Contents[k] \in Vals \cup {NoVal}
  BY <1>1, LiveVals
<1>4. ASSUME NEW k \in Keys, NEW v \in Vals
      PROVE  Contents[k] = v <=> Live(k, v)
  BY <1>1, LiveUnique, ValsAssumption
<1> QED
  BY <1>2, <1>3, <1>4 DEF GraphOK

\* A key without an entry has no live value.
LEMMA ContentsAbsent ==
  ASSUME IInv, NEW k \in Keys
  PROVE  Contents[k] = NoVal <=> \A v \in Vals : ~Live(k, v)
BY ContentsLive, ValsAssumption DEF GraphOK

\* A step that keeps the live entries keeps the contents.
LEMMA ContentsKept ==
  ASSUME IInv, IInv', \A k \in Keys, v \in Vals : Live(k, v)' <=> Live(k, v)
  PROVE  Contents' = Contents
<1>1. GraphOK /\ GraphOK'
  BY ContentsLive, PTL
<1>2. \A k \in Keys : Contents'[k] = Contents[k]
  BY <1>1, ValsAssumption DEF GraphOK
<1> QED
  BY <1>1, <1>2 DEF GraphOK

\* A step that gives one key a value, or none, and keeps the live entries of
\* the others is an update of the contents.
LEMMA ContentsSet ==
  ASSUME IInv, IInv', NEW a \in Keys, NEW w \in Vals \cup {NoVal},
         \A k \in Keys \ {a}, v \in Vals : Live(k, v)' <=> Live(k, v),
         \A v \in Vals : Live(a, v)' <=> v = w
  PROVE  Contents' = [Contents EXCEPT ![a] = w]
<1>1. GraphOK /\ GraphOK'
  BY ContentsLive, PTL
<1>2. \A k \in Keys \ {a} : Contents'[k] = Contents[k]
  BY <1>1, ValsAssumption DEF GraphOK
<1>3. Contents'[a] = w
  BY <1>1, ValsAssumption DEF GraphOK
<1> QED
  BY <1>1, <1>2, <1>3 DEF GraphOK


\* The number of entries the map believes it has is the number of occupied
\* slots of the current table, between calls and inside a growth.
LenOK == len = Cardinality(LiveNew)

\* The entries are finitely many.
LEMMA LiveFinite == ASSUME IInv PROVE IsFiniteSet(LiveNew)
<1>1. cap \in Nat /\ DOMAIN slots = 0 .. cap - 1
  BY DEF IInv, TypeOK
<1>2. IsFiniteSet(0 .. cap - 1)
  BY <1>1, FS_Interval
<1>3. LiveNew \subseteq 0 .. cap - 1
  BY <1>1 DEF LiveNew
<1> QED
  BY <1>2, <1>3, FS_Subset

\* What a write of an entry into a free slot does to the live entries.
LEMMA WriteLive ==
  ASSUME IInv, NEW t \in 0 .. cap - 1, NEW e \in Slot,
         slots[t].state # OCCUPIED, e.state = OCCUPIED,
         slots' = [slots EXCEPT ![t] = e]
  PROVE  /\ LiveNew' = LiveNew \cup {t} /\ t \notin LiveNew
         /\ slots'[t] = e /\ \A s \in LiveNew : slots'[s] = slots[s]
         /\ Cardinality(LiveNew') = Cardinality(LiveNew) + 1
<1>0. cap \in Nat \ {0} /\ slots \in [0 .. cap - 1 -> Slot]
  BY DEF IInv, TypeOK
<1>1. LiveNew' = LiveNew \cup {t} /\ t \notin LiveNew
  BY <1>0 DEF LiveNew
<1>2. slots'[t] = e /\ \A s \in LiveNew : slots'[s] = slots[s]
  BY <1>0, <1>1 DEF LiveNew
<1>3. Cardinality(LiveNew \cup {t}) = Cardinality(LiveNew) + 1
  BY <1>1, LiveFinite, FS_AddElement
<1> QED
  BY <1>1, <1>2, <1>3

\* A growth begins: the table becomes the old one, with every entry in it.
LEMMA SetGrowsStep ==
  ASSUME IInv, IInv', NEW k \in Keys, NEW v \in Vals, SetGrows(k, v)
  PROVE  Contents' = Contents /\ ret' = ret /\ LenOK'
<1>0. cap \in Nat \ {0} /\ slots \in [0 .. cap - 1 -> Slot] /\ LiveOld = {}
  BY DEF IInv, TypeOK, CallOK, SetGrows, GrowsTo
<1>1. LiveNew' = {}
  BY DEF SetGrows, GrowsTo, LiveNew, EmptyTable, EmptySlot, EMPTY, OCCUPIED
<1>2. LiveOld' = LiveNew /\ old' = slots
  BY <1>0 DEF SetGrows, GrowsTo, LiveOld, LiveNew
<1>3. \A j \in Keys, w \in Vals : Live(j, w)' <=> Live(j, w)
  BY <1>0, <1>1, <1>2 DEF Live
<1>4. Contents' = Contents
  BY <1>3, ContentsKept
<1>5. LenOK'
  BY <1>1, FS_EmptySet DEF LenOK, SetGrows, GrowsTo
<1> QED
  BY <1>4, <1>5 DEF SetGrows, GrowsTo

\* A copied entry changes its table, not its key and value.
LEMMA GrowCopiesStep ==
  ASSUME IInv, IInv', LenOK, GrowCopies
  PROVE  Contents' = Contents /\ ret' = ret /\ LenOK'
<1>0. /\ cap \in Nat \ {0} /\ next \in Nat
      /\ \E c \in 0 .. cap : old \in [0 .. c - 1 -> Slot]
      /\ len' = len + 1 /\ old' = old /\ next' = next + 1 /\ ret' = ret
      /\ next \in DOMAIN old /\ old[next].state = OCCUPIED
  BY DEF IInv, TypeOK, GrowCopies
<1>1. PICK t \in 0 .. cap - 1 :
        /\ RehashTarget(old[next].key, t)
        /\ slots' = [slots EXCEPT ![t] = old[next]]
  BY DEF GrowCopies
<1>2. next \in LiveOld /\ LiveOld' = LiveOld \ {next}
  BY <1>0 DEF LiveOld
<1>3. PICK e \in Slot : e = old[next]
  BY <1>0
<1>4. slots[t].state # OCCUPIED
  BY <1>1 DEF RehashTarget, EMPTY, OCCUPIED
<1>5. /\ LiveNew' = LiveNew \cup {t} /\ t \notin LiveNew
      /\ slots'[t] = e /\ \A s \in LiveNew : slots'[s] = slots[s]
      /\ Cardinality(LiveNew') = Cardinality(LiveNew) + 1
  BY <1>0, <1>1, <1>3, <1>4, WriteLive
<1>6. \A j \in Keys, w \in Vals : Live(j, w)' <=> Live(j, w)
  BY <1>0, <1>2, <1>3, <1>5 DEF Live
<1> QED
  BY <1>0, <1>5, <1>6, ContentsKept DEF LenOK

\* The steps that touch neither a table's entries nor the length.
LEMMA QuietStep ==
  ASSUME IInv, IInv', LenOK, len' = len, slots' = slots, LiveNew' = LiveNew,
         LiveOld' = LiveOld, (old' = old) \/ (LiveOld = {})
  PROVE  Contents' = Contents /\ LenOK'
<1>1. \A j \in Keys, w \in Vals : Live(j, w)' <=> Live(j, w)
  BY DEF Live
<1> QED
  BY <1>1, ContentsKept DEF LenOK

\* The rest of a growth, the begin of a set that does not grow, and a panic
\* show nothing outside.
LEMMA InnerStep ==
  ASSUME IInv, IInv', LenOK,
         \/ GrowSkips \/ GrowDone \/ SetPanics
         \/ \E k \in Keys, v \in Vals : SetProbes(k, v)
  PROVE  Contents' = Contents /\ ret' = ret /\ LenOK'
<1>0. /\ cap \in Nat \ {0} /\ next \in Nat
      /\ \E c \in 0 .. cap : old \in [0 .. c - 1 -> Slot]
  BY DEF IInv, TypeOK
<1>1. CASE GrowSkips
  <2>1. LiveNew' = LiveNew /\ LiveOld' = LiveOld
    BY <1>0, <1>1 DEF LiveNew, LiveOld, GrowSkips
  <2> QED
    BY <1>1, <2>1, QuietStep DEF GrowSkips
<1>2. CASE GrowDone
  <2>1. LiveOld = {} /\ LiveOld' = {} /\ LiveNew' = LiveNew
    BY <1>0, <1>2 DEF LiveNew, LiveOld, GrowDone, EmptyTable
  <2> QED
    BY <1>2, <2>1, QuietStep DEF GrowDone
<1>3. CASE SetPanics \/ \E k \in Keys, v \in Vals : SetProbes(k, v)
  <2>1. UNCHANGED <<slots, cap, len, old, next, ret>>
    BY <1>3 DEF SetPanics, SetProbes
  <2>2. LiveNew' = LiveNew /\ LiveOld' = LiveOld
    BY <2>1 DEF LiveNew, LiveOld
  <2> QED
    BY <2>1, <2>2, QuietStep
<1> QED
  BY <1>1, <1>2, <1>3

\* A set of a key that is there replaces its value.
LEMMA SetUpdatesStep ==
  ASSUME IInv, IInv', LenOK, SetUpdates
  PROVE  Dict!SpecSet(arg.key, arg.value) /\ arg.key \in Keys /\ arg.value \in Vals
         /\ LenOK'
<1>0. /\ cap \in Nat \ {0} /\ slots \in [0 .. cap - 1 -> Slot]
      /\ arg.key \in Keys /\ arg.value \in Vals
      /\ len' = len /\ ret' = Unit
      /\ LiveOld = {} /\ LiveOld' = {}
  BY DEF IInv, TypeOK, CallOK, SetUpdates, SetReturns, LiveOld
<1>1. PICK u \in 0 .. cap - 1 :
        /\ Found(arg.key, u)
        /\ slots' = [slots EXCEPT ![u].value = arg.value]
  BY DEF SetUpdates
<1>2. /\ \A s \in 0 .. cap - 1 : /\ slots'[s].state = slots[s].state
                                 /\ slots'[s].key = slots[s].key
                                 /\ s # u => slots'[s].value = slots[s].value
      /\ slots'[u].value = arg.value
      /\ DOMAIN slots' = DOMAIN slots /\ DOMAIN slots = 0 .. cap - 1
  BY <1>0, <1>1 DEF Slot
<1>3. u \in LiveNew /\ slots[u].key = arg.key
  BY <1>0, <1>1, FoundHolds
<1>4. LiveNew' = LiveNew /\ LiveNew \subseteq 0 .. cap - 1
  BY <1>2 DEF LiveNew
<1>5. \A s \in LiveNew : slots[s].key = arg.key => s = u
  BY <1>3 DEF IInv, NoDuplicates
<1>a. PICK a \in Keys, x \in Vals : a = arg.key /\ x = arg.value
  BY <1>0
<1>6. \A j \in Keys \ {a}, w \in Vals : Live(j, w)' <=> Live(j, w)
  BY <1>0, <1>2, <1>3, <1>4, <1>a DEF Live
<1>7. \A w \in Vals : Live(a, w)' <=> w = x
  BY <1>a, <1>0, <1>2, <1>3, <1>4, <1>5 DEF Live
<1>8. Contents' = [Contents EXCEPT ![a] = x]
  BY <1>6, <1>7, ContentsSet
<1> QED
  BY <1>0, <1>4, <1>8, <1>a DEF Dict!SpecSet, Dict!Unit, Unit, LenOK

\* A set of a key that is not there adds it.
LEMMA SetInsertsStep ==
  ASSUME IInv, IInv', LenOK, SetInserts
  PROVE  Dict!SpecSet(arg.key, arg.value) /\ arg.key \in Keys /\ arg.value \in Vals
         /\ LenOK'
<1>0. /\ cap \in Nat \ {0} /\ slots \in [0 .. cap - 1 -> Slot]
      /\ arg.key \in Keys /\ arg.value \in Vals
      /\ len' = len + 1 /\ ret' = Unit
      /\ LiveOld = {} /\ LiveOld' = {}
  BY DEF IInv, TypeOK, CallOK, SetInserts, SetReturns, LiveOld
<1>1. PICK i \in 0 .. cap - 1, t \in 0 .. cap - 1 :
        /\ LeavesAt(arg.key, i)
        /\ slots[Probe(arg.key, i, cap)].state = EMPTY
        /\ InsertTarget(arg.key, i, t)
        /\ slots' = [slots EXCEPT ![t] = Entry(arg.key, arg.value)]
  BY DEF SetInserts
<1>2. PICK e \in Slot : /\ e = Entry(arg.key, arg.value)
                        /\ e.state = OCCUPIED
                        /\ e.key = arg.key /\ e.value = arg.value
  <2>1. Entry(arg.key, arg.value) \in Slot
    BY <1>0 DEF Entry, Slot
  <2> QED
    BY <2>1 DEF Entry
<1>3. \A s \in LiveNew : slots[s].key # arg.key
  BY <1>0, <1>1, EmptyMeansAbsent
<1>4. slots[t].state # OCCUPIED
  BY <1>1 DEF InsertTarget
<1>5. /\ LiveNew' = LiveNew \cup {t} /\ t \notin LiveNew
      /\ slots'[t] = e /\ \A s \in LiveNew : slots'[s] = slots[s]
      /\ Cardinality(LiveNew') = Cardinality(LiveNew) + 1
  BY <1>1, <1>2, <1>4, WriteLive
<1>a. PICK a \in Keys, x \in Vals : a = arg.key /\ x = arg.value
  BY <1>0
<1>6. \A j \in Keys \ {a}, w \in Vals : Live(j, w)' <=> Live(j, w)
  BY <1>0, <1>2, <1>5, <1>a DEF Live
<1>7. \A w \in Vals : Live(a, w)' <=> w = x
  BY <1>a, <1>0, <1>2, <1>3, <1>5 DEF Live
<1>8. Contents' = [Contents EXCEPT ![a] = x]
  BY <1>6, <1>7, ContentsSet
<1> QED
  BY <1>0, <1>5, <1>8, <1>a DEF Dict!SpecSet, Dict!Unit, Unit, LenOK

\* The probe loop answers as the contents do.
LEMMA FoundContents ==
  ASSUME IInv, NEW k \in Keys, NEW s \in 0 .. cap - 1, Found(k, s)
  PROVE  Contents[k] = slots[s].value /\ Contents[k] # NoVal
<1>1. s \in LiveNew /\ slots[s].key = k /\ slots[s].value \in Vals
  BY FoundHolds
<1>2. Live(k, slots[s].value)
  BY <1>1 DEF Live
<1> QED
  BY <1>1, <1>2, ContentsLive, ValsAssumption DEF GraphOK

\* Numbers with the same remainder are a multiple of the divisor apart.
LEMMA SameRemainder ==
  ASSUME NEW c \in Nat \ {0}, NEW x \in Nat, NEW y \in Nat, x < y, x % c = y % c
  PROVE  y - x >= c
<1>1. \A z \in Nat : z \div c \in Int /\ z = c * (z \div c) + (z % c)
  OBVIOUS
<1>2. PICK a \in Int, b \in Int : x = c * a + (x % c) /\ y = c * b + (y % c)
  BY <1>1
<1>3. x % c \in Int
  OBVIOUS
<1>4. y - x = c * (b - a)
  BY <1>2, <1>3
<1>5. \A d \in Int : d <= 0 => c * d <= 0
  OBVIOUS
<1>6. \A d \in Int : d >= 1 => c * d >= c
  OBVIOUS
<1> QED
  BY <1>4, <1>5, <1>6

\* The positions of a probe are distinct.
LEMMA ProbeInjective ==
  ASSUME NEW k \in Keys, NEW c \in Nat \ {0}, NEW m \in Nat, NEW n \in 0 .. c - 1,
         m < n
  PROVE  Probe(k, m, c) # Probe(k, n, c)
<1>1. Hash[k] \in Nat
  BY HashAssumption
<1>2. /\ Hash[k] + m \in Nat /\ Hash[k] + n \in Nat /\ Hash[k] + m < Hash[k] + n
      /\ (Hash[k] + n) - (Hash[k] + m) < c
  BY <1>1
<1> QED
  BY <1>2, SameRemainder DEF Probe

\* A probe that does not find a key between calls has shown that it is absent:
\* an entry of the key would be on its path.
LEMMA NotFoundContents ==
  ASSUME IInv, pc = "ready", NEW k \in Keys, NotFound(k)
  PROVE  Contents[k] = NoVal
<1>0. LiveOld = {} /\ cap \in Nat \ {0}
  BY DEF IInv, CallOK, TypeOK
<1>1. ASSUME NEW s \in LiveNew, slots[s].key = k PROVE FALSE
  <2>1. PICK n \in 0 .. cap - 1 :
          /\ s = Probe(k, n, cap)
          /\ \A m \in 0 .. n - 1 : slots[Probe(k, m, cap)].state # EMPTY
    BY <1>1 DEF IInv, Reachable, OnPath
  <2>2. Stops(k, n) /\ s \in 0 .. cap - 1
    BY <1>0, <1>1, <2>1, ProbeInTable DEF Stops, Holds, LiveNew
  <2>3. \A m \in 0 .. n - 1 : ~Stops(k, m)
    <3> SUFFICES ASSUME NEW m \in 0 .. n - 1, Stops(k, m) PROVE FALSE
      OBVIOUS
    <3>1. PICK r : r = Probe(k, m, cap) /\ r \in 0 .. cap - 1
      BY <1>0, ProbeInTable
    <3>2. slots[r].state # EMPTY
      BY <2>1, <3>1
    <3>3. Holds(slots[r], k)
      BY <3>1, <3>2 DEF Stops
    <3>4. r \in LiveNew /\ slots[r].key = k
      BY <3>1, <3>3 DEF Holds, LiveNew, IInv, TypeOK
    <3>5. r = s
      BY <1>1, <3>4 DEF IInv, NoDuplicates
    <3>6. m \in Nat /\ m < n
      OBVIOUS
    <3>7. Probe(k, m, cap) # Probe(k, n, cap)
      BY <1>0, <3>6, ProbeInjective
    <3> QED
      BY <2>1, <3>1, <3>5, <3>7
  <2> QED
    BY <1>1, <2>1, <2>2, <2>3 DEF NotFound, Found, LeavesAt, Holds, LiveNew
<1>2. \A v \in Vals : ~Live(k, v)
  BY <1>0, <1>1 DEF Live
<1> QED
  BY <1>2, ContentsAbsent

\* A deletion removes the entry, or finds none.
LEMMA DeleteStep ==
  ASSUME IInv, IInv', LenOK, NEW k \in Keys, osc_map_delete(k)
  PROVE  Dict!SpecDelete(k) /\ LenOK'
<1>0. /\ cap \in Nat \ {0} /\ slots \in [0 .. cap - 1 -> Slot]
      /\ pc = "ready" /\ ret' = Unit
      /\ cap' = cap /\ old' = old /\ next' = next
      /\ LiveOld = {} /\ LiveOld' = {}
  BY DEF IInv, TypeOK, CallOK, osc_map_delete, LiveOld
<1>1. CASE NotFound(k) /\ UNCHANGED <<slots, len>>
  <2>1. LiveNew' = LiveNew
    BY <1>1 DEF LiveNew
  <2>2. Contents' = Contents /\ LenOK'
    BY <1>0, <1>1, <2>1, QuietStep
  <2>3. Contents[k] = NoVal
    BY <1>0, <1>1, NotFoundContents
  <2>4. Contents' = [Contents EXCEPT ![k] = NoVal]
    BY <2>2, <2>3, ContentsLive DEF GraphOK
  <2> QED
    BY <1>0, <2>2, <2>4 DEF Dict!SpecDelete, Dict!Unit, Unit
<1>2. ASSUME NEW d \in 0 .. cap - 1, Found(k, d),
             slots' = [slots EXCEPT ![d].state = TOMBSTONE], len' = len - 1
      PROVE  Dict!SpecDelete(k) /\ LenOK'
  <2>1. /\ \A s \in 0 .. cap - 1 : /\ slots'[s].key = slots[s].key
                                   /\ slots'[s].value = slots[s].value
                                   /\ s # d => slots'[s].state = slots[s].state
        /\ slots'[d].state = TOMBSTONE
        /\ DOMAIN slots' = 0 .. cap - 1 /\ DOMAIN slots = 0 .. cap - 1
    BY <1>0, <1>2 DEF Slot
  <2>2. d \in LiveNew /\ slots[d].key = k
    BY <1>2, FoundHolds
  <2>3. LiveNew' = LiveNew \ {d} /\ LiveNew \subseteq 0 .. cap - 1
    BY <2>1 DEF LiveNew, OCCUPIED, TOMBSTONE
  <2>4. \A s \in LiveNew : slots[s].key = k => s = d
    BY <2>2 DEF IInv, NoDuplicates
  <2>5. \A j \in Keys \ {k}, w \in Vals : Live(j, w)' <=> Live(j, w)
    BY <1>0, <2>1, <2>2, <2>3 DEF Live
  <2>6. \A w \in Vals : Live(k, w)' <=> w = NoVal
    BY <1>0, <2>1, <2>3, <2>4, ValsAssumption DEF Live
  <2>7. Contents' = [Contents EXCEPT ![k] = NoVal]
    BY <2>5, <2>6, ContentsSet
  <2>8. Cardinality(LiveNew \ {d}) = Cardinality(LiveNew) - 1
    BY <2>2, LiveFinite, FS_RemoveElement
  <2>9. LenOK'
    BY <1>2, <2>3, <2>8 DEF LenOK
  <2> QED
    BY <1>0, <2>7, <2>9 DEF Dict!SpecDelete, Dict!Unit, Unit
<1> QED
  BY <1>1, <1>2 DEF osc_map_delete

\* A step that returns something leaves contents and length alone.
LEMMA ReturnsStep ==
  ASSUME IInv, IInv', LenOK, NEW r, Returns(r)
  PROVE  Contents' = Contents /\ ret' = r /\ LenOK'
<1>1. LiveNew' = LiveNew /\ LiveOld' = LiveOld
  BY DEF Returns, LiveNew, LiveOld
<1> QED
  BY <1>1, QuietStep DEF Returns

\* The calls that observe a key answer as the specification does; a panic of
\* map_get shows nothing.
LEMMA ObserversStep ==
  ASSUME IInv, IInv', LenOK, NEW k \in Keys,
         osc_map_get(k) \/ osc_map_has(k) \/ osc_map_typed_get(k)
  PROVE  /\ \/ Dict!SpecGet(k) \/ Dict!SpecHas(k) \/ Dict!SpecTypedGet(k)
            \/ Contents' = Contents /\ ret' = ret
         /\ LenOK'
<1>0. pc = "ready"
  BY DEF osc_map_get, osc_map_has, osc_map_typed_get
<1>1. ASSUME NEW s \in 0 .. cap - 1, Found(k, s), Returns(Value(k, slots[s].value))
      PROVE  Dict!SpecGet(k) /\ LenOK'
  BY <1>1, FoundContents, ReturnsStep DEF Dict!SpecGet, Dict!Value, Value
<1>2. ASSUME NEW s \in 0 .. cap - 1, Found(k, s), Returns(Has(k, TRUE))
      PROVE  Dict!SpecHas(k) /\ LenOK'
  BY <1>2, FoundContents, ReturnsStep DEF Dict!SpecHas, Dict!Has, Has
<1>3. ASSUME NotFound(k), Returns(Has(k, FALSE))
      PROVE  Dict!SpecHas(k) /\ LenOK'
  BY <1>0, <1>3, NotFoundContents, ReturnsStep DEF Dict!SpecHas, Dict!Has, Has
<1>4. ASSUME NotFound(k), Returns(Value(k, Default))
      PROVE  Dict!SpecTypedGet(k) /\ LenOK'
  BY <1>0, <1>4, NotFoundContents, ReturnsStep
  DEF Dict!SpecTypedGet, Dict!Value, Value
<1>5. ASSUME UNCHANGED <<slots, cap, len, old, next, arg, ret>>
      PROVE  Contents' = Contents /\ ret' = ret /\ LenOK'
  <2>1. LiveNew' = LiveNew /\ LiveOld' = LiveOld
    BY <1>5 DEF LiveNew, LiveOld
  <2> QED
    BY <1>5, <2>1, QuietStep
<1> QED
  BY <1>1, <1>2, <1>3, <1>4, <1>5 DEF osc_map_get, osc_map_has, osc_map_typed_get

\* Between calls the length is the number of keys with an entry: no two slots
\* hold one key, and no slot of an old table is left.
LEMMA LenCounts ==
  ASSUME IInv, LenOK, pc = "ready"
  PROVE  len = Cardinality(Dict!Entries(Contents))
<1> DEFINE E == Dict!Entries(Contents)
           keyOf == [s \in LiveNew |-> slots[s].key]
<1>1. LiveOld = {}
  BY DEF IInv, CallOK
<1>2. \A k \in Keys : k \in E <=> \E s \in LiveNew : slots[s].key = k
  <2>1. \A k \in Keys : k \in E <=> \E v \in Vals : Live(k, v)
    BY ContentsAbsent DEF Dict!Entries
  <2> QED
    BY <1>1, <2>1, LiveVals DEF Live
<1>3. \A s \in LiveNew : slots[s].key \in E
  BY <1>2 DEF IInv, EntriesOK
<1>4. E \subseteq Keys
  BY DEF Dict!Entries
<1> HIDE DEF E
<1>5. keyOf \in [LiveNew -> E]
  BY <1>3
<1>6. \A a, b \in LiveNew : keyOf[a] = keyOf[b] => a = b
  BY DEF IInv, NoDuplicates
<1>7. \A k \in E : \E s \in LiveNew : keyOf[s] = k
  BY <1>2, <1>4
<1> HIDE DEF keyOf
<1>8. keyOf \in Surjection(LiveNew, E) /\ keyOf \in Injection(LiveNew, E)
  BY <1>5, <1>6, <1>7 DEF Surjection, Injection, IsInjective
<1>9. Cardinality(E) = Cardinality(LiveNew)
  BY <1>8, LiveFinite, FS_Surjection
<1> QED
  BY <1>9 DEF LenOK, E

\* Every step of the table is a step of the specified map, or shows nothing.
LEMMA NextStep ==
  ASSUME IInv, IInv', LenOK, [Next]_vars
  PROVE  [Dict!SpecNext]_(Dict!SpecVars) /\ LenOK'
<1> DEFINE Shown == Contents' = Contents /\ ret' = ret
<1>0. Shown => UNCHANGED Dict!SpecVars
  BY DEF Dict!SpecVars
<1>1. ASSUME NEW k \in Keys, NEW v \in Vals, SetGrows(k, v) \/ SetProbes(k, v)
      PROVE  Shown /\ LenOK'
  BY <1>1, SetGrowsStep, InnerStep
<1>2. ASSUME NEW k \in Keys, osc_map_delete(k)
      PROVE  Dict!SpecNext /\ LenOK'
  BY <1>2, DeleteStep DEF Dict!SpecNext
<1>3. ASSUME NEW k \in Keys,
             osc_map_get(k) \/ osc_map_has(k) \/ osc_map_typed_get(k)
      PROVE  (Dict!SpecNext \/ Shown) /\ LenOK'
  BY <1>3, ObserversStep DEF Dict!SpecNext
<1>4. CASE osc_map_len
  <2>1. Contents' = Contents /\ ret' = Length(len) /\ LenOK' /\ pc = "ready"
    BY <1>4, ReturnsStep DEF osc_map_len
  <2>2. Dict!Cardinality(Dict!Entries(Contents)) = Cardinality(Dict!Entries(Contents))
    BY Zenon DEF Dict!Cardinality, Cardinality
  <2>3. Dict!SpecLen
    BY <2>1, <2>2, LenCounts DEF Dict!SpecLen, Dict!Length, Length
  <2> QED
    BY <2>1, <2>3 DEF Dict!SpecNext
<1>5. CASE SetUpdates \/ SetInserts
  BY <1>5, SetUpdatesStep, SetInsertsStep DEF Dict!SpecNext
<1>6. CASE GrowCopies \/ GrowSkips \/ GrowDone \/ SetPanics
  BY <1>0, <1>6, GrowCopiesStep, InnerStep
<1>7. CASE UNCHANGED vars
  <2>1. Returns(ret)
    BY <1>7 DEF vars, Returns
  <2> QED
    BY <1>0, <2>1, ReturnsStep
<1> HIDE DEF Shown
<1> QED
  BY <1>0, <1>1, <1>2, <1>3, <1>4, <1>5, <1>6, <1>7 DEF Next, Step

\* A new map is the empty map.
LEMMA InitStep == Init => Dict!SpecInit /\ LenOK
<1> SUFFICES ASSUME Init PROVE Dict!SpecInit /\ LenOK
  OBVIOUS
<1>1. LiveNew = {} /\ LiveOld = {}
  BY DEF Init, LiveNew, LiveOld, EmptyTable, EmptySlot, EMPTY, OCCUPIED
<1>2. Contents = [k \in Keys |-> NoVal]
  BY <1>1 DEF Contents
<1>3. LenOK
  BY <1>1, FS_EmptySet DEF LenOK, Init
<1> QED
  BY <1>2, <1>3 DEF Init, Dict!SpecInit, Dict!Unit, Unit

\* The table implements the map the language specifies, for every finite set
\* of keys, every hash function and every sequence of calls: a growth and a
\* panic show nothing, each call acts once, on the entries of its key only,
\* and osc_map_len counts the keys that have an entry.
THEOREM MapRefined == Spec => Refines
<1>1. Init => IInv /\ LenOK /\ Dict!SpecInit
  BY InitIInv, InitStep
<1>2. IInv /\ LenOK /\ [Next]_vars
      => IInv' /\ LenOK' /\ [Dict!SpecNext]_(Dict!SpecVars)
  BY NextIInv, NextStep
<1> QED
  BY <1>1, <1>2, PTL DEF Spec, Refines, Dict!SpecMap
=============================================================================
