------------------------------ MODULE OscArray ------------------------------
(***************************************************************************)
(* The dynamic arrays of the runtime (runtime/osc_runtime.c, "Dynamic      *)
(* array") and the store check the compilers emit before them.             *)
(*                                                                         *)
(* Arrays live in arenas.  The arenas of a program form a stack: an arena  *)
(* block pushes one and its end destroys it, with every array header and   *)
(* buffer in it.  "_arena", the arena the generated code passes, is the    *)
(* top of the stack.  An array remembers the arena that created it and     *)
(* must grow there, wherever the push happens.                             *)
(*                                                                         *)
(* The elements of an array either need no arena (plain values) or point   *)
(* into one (strings, maps, other arrays); the element type, and so the    *)
(* array, decides.  A pointer is modelled by the arena it points into.     *)
(* This module is about programs whose variables do not themselves escape  *)
(* a block: they use only arrays that are alive.                           *)
(***************************************************************************)
EXTENDS Integers, Sequences

CONSTANTS Vals,        \* plain element values
          Junk,        \* the contents of memory nobody wrote
          Static,      \* the "arena" of string literals: always alive
          DefaultCap,  \* capacity of an array created with 0: 4 in the code
          IntMax,      \* INT32_MAX
          InitCaps,    \* initial capacities programs ask for
          Kinds,       \* kinds of arrays the program uses: TRUE where the
                       \* elements point into an arena
          MaxArrays,   \* bound: arrays created
          MaxArenas    \* bound: arenas created

ASSUME CapsAssumption ==
  /\ IntMax \in Nat \ {0}
  /\ DefaultCap \in 1 .. IntMax
  /\ InitCaps \subseteq 0 .. IntMax
ASSUME BoundsAssumption == MaxArrays \in Nat /\ MaxArenas \in Nat \ {0}
ASSUME ValsAssumption == Junk \notin Vals /\ Kinds \subseteq BOOLEAN

VARIABLES arrs,     \* the arrays, dead ones too
          stack,    \* the arenas that are alive, innermost last
          arenas,   \* how many arenas were created
          ret,      \* what the last operation returned
          pc        \* "ready" or "panic"

vars == <<arrs, stack, arenas, ret, pc>>

LiveArenas == {stack[i] : i \in 1 .. Len(stack)}
Arena == stack[Len(stack)]

Val(v) == <<"val", v>>
Ref(m) == <<"ref", m>>

Plain == {Val(v) : v \in Vals}
Backed == {Ref(m) : m \in LiveArenas \cup {Static}}

\* The values the program can store in an array of this kind.
ElemsOf(backed) == IF backed THEN Backed ELSE Plain

Live(a) == arrs[a].owner \in LiveArenas
Usable == {a \in 1 .. Len(arrs) : Live(a)}

Fresh(n) == [i \in 0 .. n - 1 |-> Val(Junk)]

\* osc_array_new with the cells the caller fills in right away.
NewArray(backed, cap, cells, n) ==
  LET c == IF cap > 0 THEN cap ELSE DefaultCap
  IN  [owner |-> Arena, backed |-> backed, cap |-> c, len |-> n,
       at |-> Arena,
       cells |-> [i \in 0 .. c - 1 |-> IF i < n THEN cells[i] ELSE Val(Junk)]]

Init ==
  /\ arrs = <<>>
  /\ stack = <<1>>
  /\ arenas = 1
  /\ ret = Val(Junk)
  /\ pc = "ready"

\* The operation completes: array a becomes r, nothing is returned.
Updates(a, r) ==
  /\ arrs' = [arrs EXCEPT ![a] = r]
  /\ UNCHANGED <<stack, arenas, ret, pc>>

Creates(r) ==
  /\ Len(arrs) < MaxArrays
  /\ arrs' = Append(arrs, r)
  /\ UNCHANGED <<stack, arenas, ret, pc>>

Panics ==
  /\ pc' = "panic"
  /\ UNCHANGED <<arrs, stack, arenas, ret>>

\* Mutant: a store is never checked.
StoreUnchecked(a) == TRUE

\* osc_array_check_arena_store, emitted when the element type is not
\* arena-safe.
StoreAllowed(a) == arrs[a].backed => arrs[a].owner = Arena

\* The capacity the doubling loop of osc_array_reserve ends with.
Doubled(cap, k) == cap * 2^k
GrowCap(cap, required) ==
  LET stop == CHOOSE k \in 0 .. required :
                /\ Doubled(cap, k) >= required \/ Doubled(cap, k) > IntMax \div 2
                /\ \A j \in 0 .. k - 1 : /\ Doubled(cap, j) < required
                                         /\ Doubled(cap, j) <= IntMax \div 2
  IN  IF Doubled(cap, stop) >= required THEN Doubled(cap, stop) ELSE required

\* The array with a buffer of capacity c in arena m.
Moved(r, c, m) ==
  [r EXCEPT !.cap = c, !.at = m,
            !.cells = [i \in 0 .. c - 1 |->
                         IF i < r.len THEN r.cells[i] ELSE Val(Junk)]]

\* Mutants: the buffer comes from the caller's arena; the elements are not
\* copied.
ReservedInCaller(r, required) ==
  IF required <= r.cap THEN r ELSE Moved(r, GrowCap(r.cap, required), Arena)
ReservedUncopied(r, required) ==
  IF required <= r.cap THEN r
  ELSE [Moved([r EXCEPT !.len = 0], GrowCap(r.cap, required), r.owner)
          EXCEPT !.len = r.len]

Reserved(r, required) ==
  IF required <= r.cap THEN r ELSE Moved(r, GrowCap(r.cap, required), r.owner)

NewLen(r, n) == [r EXCEPT !.len = n]

osc_array_new(backed, cap) ==
  Creates(NewArray(backed, cap, Fresh(0), 0))

osc_array_get(a, i) ==
  \/ /\ i \in 0 .. arrs[a].len - 1
     /\ ret' = arrs[a].cells[i]
     /\ UNCHANGED <<arrs, stack, arenas, pc>>
  \/ i \notin 0 .. arrs[a].len - 1 /\ Panics

\* An index store: the emitted check, then osc_array_get for the address.
osc_array_set(a, i, e) ==
  \/ /\ StoreAllowed(a) /\ i \in 0 .. arrs[a].len - 1
     /\ Updates(a, [arrs[a] EXCEPT !.cells[i] = e])
  \/ ~(StoreAllowed(a) /\ i \in 0 .. arrs[a].len - 1) /\ Panics

osc_array_push(a, e) ==
  LET n == arrs[a].len IN
  \/ /\ StoreAllowed(a) /\ n # IntMax
     /\ Updates(a, NewLen([Reserved(arrs[a], n + 1) EXCEPT !.cells[n] = e], n + 1))
  \/ ~(StoreAllowed(a) /\ n # IntMax) /\ Panics

osc_array_pop(a) ==
  LET n == arrs[a].len IN
  \/ /\ n > 0
     /\ ret' = arrs[a].cells[n - 1]
     /\ arrs' = [arrs EXCEPT ![a].len = n - 1]
     /\ UNCHANGED <<stack, arenas, pc>>
  \/ n <= 0 /\ Panics

osc_array_clone(a) ==
  Creates(NewArray(arrs[a].backed, arrs[a].len, arrs[a].cells, arrs[a].len))

osc_array_repeat(backed, e, count) ==
  \/ /\ count >= 0
     /\ Creates(NewArray(backed, count, [i \in 0 .. count - 1 |-> e], count))
  \/ count < 0 /\ Panics

osc_array_swap(a, i, j) ==
  LET r == arrs[a] IN
  \/ /\ i \in 0 .. r.len - 1 /\ j \in 0 .. r.len - 1
     /\ Updates(a, [r EXCEPT !.cells[i] = r.cells[j], !.cells[j] = r.cells[i]])
  \/ ~(i \in 0 .. r.len - 1 /\ j \in 0 .. r.len - 1) /\ Panics

\* The cells with positions 0 .. n - 1 rewritten.
Rewritten(r, n, cell(_)) ==
  [r EXCEPT !.cells = [i \in DOMAIN r.cells |->
                         IF i < n THEN cell(i) ELSE r.cells[i]]]

osc_array_reverse(a) ==
  LET r == arrs[a]
      mirror(i) == r.cells[r.len - 1 - i]
  IN  Updates(a, Rewritten(r, r.len, mirror))

osc_array_fill(a, e) ==
  LET cell(i) == e IN
  \/ StoreAllowed(a) /\ Updates(a, Rewritten(arrs[a], arrs[a].len, cell))
  \/ ~StoreAllowed(a) /\ Panics

osc_array_clear(a) == Updates(a, NewLen(arrs[a], 0))

\* The copy reads the source after the destination was reserved, so a and b
\* may be the same array.
osc_array_extend(a, b) ==
  LET n == arrs[a].len
      k == arrs[b].len
      grown == Reserved(arrs[a], n + k)
      cell(i) == IF i < n THEN grown.cells[i] ELSE arrs[b].cells[i - n]
  IN
  \/ StoreAllowed(a) /\ k = 0 /\ Updates(a, arrs[a])
  \/ /\ StoreAllowed(a) /\ k # 0 /\ n <= IntMax - k
     /\ Updates(a, NewLen(Rewritten(grown, n + k, cell), n + k))
  \/ ~(StoreAllowed(a) /\ (k = 0 \/ n <= IntMax - k)) /\ Panics

\* Mutant: the shift loop runs upwards and copies one element over the rest.
ShiftedUpwards(r, i, e, n) ==
  LET cell(j) == IF j < i THEN r.cells[j] ELSE IF j = i THEN e ELSE r.cells[i]
  IN  NewLen(Rewritten(r, n + 1, cell), n + 1)

\* The shift loop runs from the end, so no element is overwritten unread.
Shifted(r, i, e, n) ==
  LET cell(j) == IF j < i THEN r.cells[j]
                 ELSE IF j = i THEN e ELSE r.cells[j - 1]
  IN  NewLen(Rewritten(r, n + 1, cell), n + 1)

osc_array_insert(a, i, e) ==
  LET n == arrs[a].len IN
  \/ /\ StoreAllowed(a) /\ i \in 0 .. n /\ n # IntMax
     /\ Updates(a, Shifted(Reserved(arrs[a], n + 1), i, e, n))
  \/ ~(StoreAllowed(a) /\ i \in 0 .. n /\ n # IntMax) /\ Panics

osc_array_remove_at(a, i) ==
  LET r == arrs[a]
      cell(j) == IF j < i THEN r.cells[j] ELSE r.cells[j + 1]
  IN
  \/ /\ i \in 0 .. r.len - 1
     /\ ret' = r.cells[i]
     /\ arrs' = [arrs EXCEPT ![a] = NewLen(Rewritten(r, r.len - 1, cell), r.len - 1)]
     /\ UNCHANGED <<stack, arenas, pc>>
  \/ i \notin 0 .. r.len - 1 /\ Panics

osc_array_slice(a, start, end) ==
  LET r == arrs[a] IN
  \/ /\ start >= 0 /\ end >= start /\ end <= r.len
     /\ Creates(NewArray(r.backed, end - start,
                         [i \in 0 .. end - start - 1 |-> r.cells[start + i]],
                         end - start))
  \/ ~(start >= 0 /\ end >= start /\ end <= r.len) /\ Panics

\* An arena block begins: osc_arena_create.
EnterBlock ==
  /\ arenas < MaxArenas
  /\ stack' = Append(stack, arenas + 1)
  /\ arenas' = arenas + 1
  /\ UNCHANGED <<arrs, ret, pc>>

\* It ends: osc_arena_destroy.
LeaveBlock ==
  /\ Len(stack) > 1
  /\ stack' = SubSeq(stack, 1, Len(stack) - 1)
  /\ UNCHANGED <<arrs, arenas, pc>>
  /\ ret' = Val(Junk)

Indices == -1 .. IntMax

Next ==
  /\ pc = "ready"
  /\ \/ EnterBlock \/ LeaveBlock
     \/ \E backed \in Kinds :
          \/ \E cap \in InitCaps : osc_array_new(backed, cap)
          \/ \E e \in ElemsOf(backed), n \in InitCaps \cup {-1} : osc_array_repeat(backed, e, n)
     \/ \E a \in Usable :
          \/ osc_array_pop(a) \/ osc_array_clone(a)
          \/ osc_array_reverse(a) \/ osc_array_clear(a)
          \/ \E b \in Usable :
               arrs[a].backed = arrs[b].backed /\ osc_array_extend(a, b)
          \/ \E i \in Indices : osc_array_get(a, i) \/ osc_array_remove_at(a, i)
          \/ \E i, j \in Indices : osc_array_swap(a, i, j) \/ osc_array_slice(a, i, j)
          \/ \E e \in ElemsOf(arrs[a].backed) :
               \/ osc_array_push(a, e) \/ osc_array_fill(a, e)
               \/ \E i \in Indices : osc_array_set(a, i, e) \/ osc_array_insert(a, i, e)

Spec == Init /\ [][Next]_vars
-----------------------------------------------------------------------------
\* The sequence an array holds.
Contents(r) == [i \in 1 .. r.len |-> r.cells[i - 1]]

Written(r) == {r.cells[i] : i \in 0 .. r.len - 1}

\* The type of the state: the buffer has the recorded capacity, the length
\* fits in it, and no length or capacity leaves int32_t.
TypeOK ==
  /\ pc \in {"ready", "panic"}
  /\ arenas \in 1 .. MaxArenas
  /\ stack # <<>> /\ LiveArenas \subseteq 1 .. arenas
  /\ \A a \in 1 .. Len(arrs) :
       /\ arrs[a].owner \in 1 .. arenas
       /\ arrs[a].cap \in 1 .. IntMax
       /\ DOMAIN arrs[a].cells = 0 .. arrs[a].cap - 1
       /\ arrs[a].len \in 0 .. arrs[a].cap

\* Memory nobody wrote is never an element.
NoJunk ==
  \A a \in 1 .. Len(arrs) : Val(Junk) \notin Written(arrs[a])

\* "Growth stays in the arena that created the array": the buffer of a live
\* array is alive, also after a push inside a block that has ended.
BufferAlive == \A a \in Usable : arrs[a].at \in LiveArenas

\* No live array holds a pointer into an arena that was destroyed.  This is
\* what osc_array_check_arena_store is for.
NoDangling ==
  \A a \in Usable : \A e \in Written(arrs[a]) :
    e[1] = "ref" => e[2] \in LiveArenas \cup {Static}

\* Each mutation of osc_array_push, insert, remove_at and extend is the
\* sequence operation of its name, whatever was shifted or moved, also when
\* an array is appended to itself.
MutatorsAreSequenceOps ==
  [][pc' = "ready" =>
     \A a \in Usable :
       LET s == Contents(arrs[a])
           t == Contents(arrs'[a])
       IN
       /\ \A e \in ElemsOf(arrs[a].backed) :
            /\ osc_array_push(a, e) => t = Append(s, e)
            /\ \A i \in Indices :
                 osc_array_insert(a, i, e) =>
                   t = SubSeq(s, 1, i) \o <<e>> \o SubSeq(s, i + 1, Len(s))
       /\ \A i \in Indices :
            osc_array_remove_at(a, i) =>
              /\ t = SubSeq(s, 1, i) \o SubSeq(s, i + 2, Len(s))
              /\ ret' = s[i + 1]
       /\ \A b \in Usable :
            osc_array_extend(a, b) => t = s \o Contents(arrs[b])
    ]_vars
=============================================================================
