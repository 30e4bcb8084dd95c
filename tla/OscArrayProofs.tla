--------------------------- MODULE OscArrayProofs ---------------------------
(***************************************************************************)
(* Proofs about the dynamic arrays of OscArray.                            *)
(***************************************************************************)
EXTENDS OscArray, FiniteSetTheorems, SequenceTheorems, WellFoundedInduction, TLAPS

\* Powers of two are counts of subsets: the provers know no arithmetic of 2^k,
\* so what follows counts.
LEMMA PowerIsCard ==
  ASSUME NEW k \in Nat
  PROVE  /\ IsFiniteSet(SUBSET (1 .. k)) /\ Cardinality(SUBSET (1 .. k)) = 2^k
         /\ Cardinality(1 .. k) = k /\ IsFiniteSet(1 .. k)
         /\ 2^k \in Nat
<1>1. IsFiniteSet(1 .. k) /\ Cardinality(1 .. k) = IF 1 > k THEN 0 ELSE k - 1 + 1
  BY FS_Interval
<1>2. Cardinality(1 .. k) = k
  BY <1>1
<1>3. IsFiniteSet(SUBSET (1 .. k)) /\ Cardinality(SUBSET (1 .. k)) = 2^k
  BY <1>1, <1>2, FS_SUBSET
<1> QED BY <1>1, <1>2, <1>3, FS_CardinalityType

\* There are at least as many subsets as singletons.
LEMMA PowerAtLeast ==
  ASSUME NEW k \in Nat
  PROVE  2^k >= k
<1> DEFINE single == [i \in 1 .. k |-> {i}]
<1>1. single \in Injection(1 .. k, SUBSET (1 .. k))
  BY DEF Injection, IsInjective
<1>2. Cardinality(1 .. k) <= Cardinality(SUBSET (1 .. k))
  BY <1>1, PowerIsCard, FS_Injection
<1> QED BY <1>2, PowerIsCard

\* A set with one element more has twice as many subsets.
LEMMA PowerDoubles ==
  ASSUME NEW k \in Nat
  PROVE  2^(k + 1) = 2 * 2^k
<1> DEFINE S == SUBSET (1 .. k)
           T == {X \in SUBSET (1 .. k + 1) : k + 1 \in X}
           f == [X \in S |-> X \cup {k + 1}]
<1>1. 1 .. k + 1 = (1 .. k) \cup {k + 1} /\ k + 1 \notin 1 .. k
  OBVIOUS
<1>2. f \in Bijection(S, T)
  <2>1. f \in [S -> T]
    <3>1. \A X \in S : X \cup {k + 1} \in T
      BY <1>1
    <3> QED BY <3>1
  <2>2. ASSUME NEW X \in S, NEW Y \in S, f[X] = f[Y]
        PROVE  X = Y
    <3>1. X \cup {k + 1} = Y \cup {k + 1} /\ k + 1 \notin X /\ k + 1 \notin Y
      BY <1>1, <2>2
    <3> QED BY <3>1
  <2>3. ASSUME NEW X \in T
        PROVE  \E Y \in S : f[Y] = X
    <3>1. X \ {k + 1} \in S /\ (X \ {k + 1}) \cup {k + 1} = X
      BY <1>1, <2>3
    <3> QED BY <3>1
  <2>4. f \in Injection(S, T)
    BY <2>1, <2>2 DEF Injection, IsInjective
  <2>5. f \in Surjection(S, T)
    BY <2>1, <2>3 DEF Surjection
  <2> QED BY <2>4, <2>5 DEF Bijection
<1>3. S \cup T = SUBSET (1 .. k + 1) /\ S \cap T = {}
  BY <1>1
<1>4. IsFiniteSet(S) /\ Cardinality(S) = 2^k /\ 2^k \in Nat
  BY PowerIsCard
<1>5. Cardinality(SUBSET (1 .. k + 1)) = 2^(k + 1)
  BY PowerIsCard
<1> HIDE DEF S, T, f
<1>6. IsFiniteSet(T) /\ Cardinality(T) = Cardinality(S)
  <2>1. ExistsBijection(S, T)
    BY <1>2 DEF ExistsBijection
  <2> QED BY <1>4, <2>1, FS_Bijection
<1>7. Cardinality(S \cup T) = Cardinality(S) + Cardinality(T) - Cardinality(S \cap T)
  BY <1>4, <1>6, FS_Union
<1>8. Cardinality(S \cap T) = 0
  BY <1>3, FS_EmptySet
<1>9. 2^(k + 1) = Cardinality(S \cup T)
  BY <1>3, <1>5
<1>10. Cardinality(S \cup T) = 2^k + 2^k - 0
  BY <1>4, <1>6, <1>7, <1>8
<1>11. \A z \in Nat : z + z - 0 = 2 * z
  OBVIOUS
<1> QED BY <1>4, <1>9, <1>10, <1>11

\* A set of natural numbers that has an element has a least one.
LEMMA LeastNat ==
  ASSUME NEW T \in SUBSET Nat, T # {}
  PROVE  \E x \in T : \A y \in T : x <= y
<1> DEFINE R == OpToRel(<, Nat)
<1>1. \E x \in T : \A y \in T : ~(<<y, x>> \in R)
  <2>1. IsWellFoundedOn(R, Nat)
    BY NatLessThanWellFounded
  <2> HIDE DEF R
  <2> QED BY <2>1, WFMin
<1>2. PICK x \in T : \A y \in T : ~(<<y, x>> \in R)
  BY <1>1
<1>3. ASSUME NEW y \in T
      PROVE  x <= y
  <2>1. x \in Nat /\ y \in Nat
    BY <1>2
  <2>2. ~(y < x)
    <3>1. <<y, x>> \in Nat \X Nat
      BY <2>1
    <3> QED BY <1>2, <3>1 DEF OpToRel
  <2> HIDE <1>2
  <2> QED BY <2>1, <2>2
<1> QED BY <1>3

\* The doubling loop of osc_array_reserve stops, and the capacity it leaves
\* reaches the required length without leaving int32_t.
LEMMA GrowCapFits ==
  ASSUME NEW cap \in 1 .. IntMax, NEW required \in 1 .. IntMax
  PROVE  GrowCap(cap, required) \in required .. IntMax
<1> DEFINE stops(k) == Doubled(cap, k) >= required \/ Doubled(cap, k) > IntMax \div 2
           first(k) == /\ stops(k)
                       /\ \A j \in 0 .. k - 1 : /\ Doubled(cap, j) < required
                                                /\ Doubled(cap, j) <= IntMax \div 2
           stop == CHOOSE k \in 0 .. required : first(k)
<1>1. IntMax \in Nat \ {0} /\ IntMax \div 2 \in Nat /\ IntMax >= 2 * (IntMax \div 2)
  BY CapsAssumption
<1>2. \A k \in Nat : Doubled(cap, k) \in Nat /\ Doubled(cap, k) >= k
  <2> TAKE k \in Nat
  <2> DEFINE z == 2^k
  <2>1. z \in Nat /\ z >= k
    BY PowerIsCard, PowerAtLeast
  <2>2. cap \in Nat /\ cap >= 1
    BY <1>1
  <2> HIDE DEF z
  <2>3. cap * z \in Nat /\ cap * z >= z
    BY <2>1, <2>2
  <2>4. Doubled(cap, k) = cap * z
    BY DEF z, Doubled
  <2> QED BY <2>1, <2>3, <2>4
<1>3. \A k \in Nat : Doubled(cap, k + 1) = 2 * Doubled(cap, k)
  <2> TAKE k \in Nat
  <2> DEFINE z == 2^k
  <2>1. z \in Nat /\ 2^(k + 1) = 2 * z
    BY PowerIsCard, PowerDoubles
  <2>2. cap \in Nat
    BY <1>1
  <2>3. Doubled(cap, k) = cap * z
    BY DEF Doubled
  <2>4. Doubled(cap, k + 1) = cap * (2 * z)
    BY <2>1 DEF Doubled
  <2> HIDE DEF z
  <2>5. cap * (2 * z) = 2 * (cap * z)
    BY <2>1, <2>2
  <2> QED BY <2>3, <2>4, <2>5
<1>4. Doubled(cap, 0) = cap
  <2>1. 2^0 = 1
    <3>1. Cardinality(1 .. 0) = 0 /\ IsFiniteSet(1 .. 0)
      BY PowerIsCard
    <3>2. SUBSET (1 .. 0) = {{}}
      OBVIOUS
    <3>3. Cardinality({{}}) = 1
      BY FS_Singleton
    <3> QED BY <3>2, <3>3, PowerIsCard
  <2> QED BY <2>1, <1>1 DEF Doubled
<1> HIDE DEF first, stops
<1>5. \E k \in 0 .. required : first(k)
  <2> DEFINE T == {k \in Nat : stops(k)}
  <2>1. required \in T
    BY <1>1, <1>2 DEF stops
  <2>2. PICK k \in T : \A y \in T : k <= y
    BY <2>1, LeastNat
  <2>3. k \in 0 .. required
    BY <2>1, <2>2
  <2>4. ASSUME NEW j \in 0 .. k - 1
        PROVE  Doubled(cap, j) < required /\ Doubled(cap, j) <= IntMax \div 2
    <3>1. j \in Nat /\ j < k
      BY <2>3
    <3>2. ~stops(j)
      BY <2>2, <3>1
    <3> QED BY <1>1, <1>2, <3>1, <3>2 DEF stops
  <2> QED BY <2>2, <2>3, <2>4 DEF first
<1>6. stop \in 0 .. required /\ first(stop)
  BY <1>5
<1>7. GrowCap(cap, required) = IF Doubled(cap, stop) >= required
                                 THEN Doubled(cap, stop) ELSE required
  BY DEF GrowCap, first, stops
<1> HIDE DEF stop
<1>8. Doubled(cap, stop) <= IntMax
  <2>1. CASE stop = 0
    BY <1>4, <2>1
  <2>2. CASE stop # 0
    <3>1. stop - 1 \in Nat /\ stop - 1 \in 0 .. stop - 1 /\ (stop - 1) + 1 = stop
      BY <1>6, <2>2
    <3>2. Doubled(cap, stop - 1) <= IntMax \div 2
      BY <1>6, <3>1 DEF first
    <3>3. Doubled(cap, stop) = 2 * Doubled(cap, stop - 1)
      BY <1>3, <3>1
    <3> QED BY <1>1, <1>2, <3>1, <3>2, <3>3
  <2> QED BY <2>1, <2>2
<1> QED BY <1>1, <1>2, <1>6, <1>7, <1>8
-----------------------------------------------------------------------------
(***************************************************************************)
(* The inductive invariant.  BufferAlive and NoDangling speak of the live  *)
(* arrays only, and a step that ends a block changes which ones are live.  *)
(* The fact that survives is about positions on the stack of arenas: an    *)
(* array in the arena at position p points only at arenas at positions     *)
(* 1 .. p, which outlive it, and its buffer is in its own arena.           *)
(***************************************************************************)
\* The arenas of the stack are distinct and were all created.
StackOK ==
  /\ arenas \in 1 .. MaxArenas
  /\ stack \in Seq(1 .. arenas) /\ stack # <<>>
  /\ \A p, q \in 1 .. Len(stack) : stack[p] = stack[q] => p = q

\* An array r of a program that created n arenas.
ArrayOK(r, n) ==
  /\ DOMAIN r = {"owner", "backed", "cap", "len", "at", "cells"}
  /\ r.owner \in 1 .. n /\ r.at = r.owner
  /\ r.backed \in BOOLEAN
  /\ r.cap \in 1 .. IntMax
  /\ r.len \in 0 .. r.cap
  /\ DOMAIN r.cells = 0 .. r.cap - 1

\* What an array in the arena at position p of the stack st may hold.
Storable(backed, st, p) ==
  IF backed THEN {Ref(m) : m \in {st[q] : q \in 1 .. p} \cup {Static}} ELSE Plain

ElementsOK(r, st) ==
  /\ \A i \in 0 .. r.len - 1 : r.cells[i] # Val(Junk)
  /\ \A p \in 1 .. Len(st) :
       r.owner = st[p] => \A i \in 0 .. r.len - 1 : r.cells[i] \in Storable(r.backed, st, p)

ArraysOK ==
  /\ \E S : arrs \in Seq(S)
  /\ \A a \in 1 .. Len(arrs) : ArrayOK(arrs[a], arenas) /\ ElementsOK(arrs[a], stack)

IInv == pc \in {"ready", "panic"} /\ StackOK /\ ArraysOK
-----------------------------------------------------------------------------
\* The stack is never empty: "_arena" is an arena that was created.
LEMMA StackFacts ==
  ASSUME StackOK
  PROVE  /\ arenas \in Nat /\ Len(stack) \in Nat \ {0}
         /\ \A p \in 1 .. Len(stack) : stack[p] \in 1 .. arenas
         /\ Arena = stack[Len(stack)] /\ Arena \in 1 .. arenas
         /\ LiveArenas = {stack[p] : p \in 1 .. Len(stack)}
<1>1. stack \in Seq(1 .. arenas) /\ stack # <<>> /\ arenas \in Nat
  BY BoundsAssumption DEF StackOK
<1>2. Len(stack) \in Nat \ {0} /\ \A p \in 1 .. Len(stack) : stack[p] \in 1 .. arenas
  BY <1>1, EmptySeq, ElementOfSeq
<1> QED BY <1>1, <1>2 DEF Arena, LiveArenas

\* A value the program stores is neither unwritten memory nor, by an array
\* at the top of the stack, out of reach.
LEMMA ElemsOfFacts ==
  ASSUME StackOK, NEW backed \in BOOLEAN, NEW e \in ElemsOf(backed)
  PROVE  e # Val(Junk) /\ e \in Storable(backed, stack, Len(stack))
<1>1. LiveArenas = {stack[p] : p \in 1 .. Len(stack)}
  BY StackFacts
<1>2. CASE backed
  <2>1. ElemsOf(backed) = {Ref(m) : m \in LiveArenas \cup {Static}}
        /\ Storable(backed, stack, Len(stack)) = {Ref(m) : m \in LiveArenas \cup {Static}}
    BY <1>1, <1>2 DEF ElemsOf, Backed, Storable
  <2>2. PICK m : e = Ref(m)
    BY <2>1
  <2>3. e[1] = "ref" /\ Val(Junk)[1] = "val"
    BY <2>2 DEF Ref, Val
  <2> QED BY <2>1, <2>3
<1>3. CASE ~backed
  <2>1. ElemsOf(backed) = Plain /\ Storable(backed, stack, Len(stack)) = Plain
    BY <1>3 DEF ElemsOf, Storable
  <2>2. PICK v \in Vals : e = Val(v)
    BY <2>1 DEF Plain
  <2>3. e[2] = v /\ Val(Junk)[2] = Junk
    BY <2>2 DEF Val
  <2> QED BY <2>1, <2>2, <2>3, ValsAssumption
<1> QED BY <1>2, <1>3

\* What a live array holds is what the program can store anywhere.
LEMMA WrittenFacts ==
  ASSUME IInv, NEW a \in Usable
  PROVE  /\ a \in 1 .. Len(arrs) /\ ArrayOK(arrs[a], arenas)
         /\ Written(arrs[a]) \subseteq ElemsOf(arrs[a].backed)
         /\ Val(Junk) \notin Written(arrs[a])
<1>1. a \in 1 .. Len(arrs) /\ ArrayOK(arrs[a], arenas) /\ ElementsOK(arrs[a], stack)
      /\ arrs[a].owner \in LiveArenas
  BY DEF Usable, Live, IInv, ArraysOK
<1>2. LiveArenas = {stack[p] : p \in 1 .. Len(stack)}
  BY StackFacts DEF IInv
<1>3. PICK p \in 1 .. Len(stack) : arrs[a].owner = stack[p]
  BY <1>1, <1>2
<1>4. \A i \in 0 .. arrs[a].len - 1 : arrs[a].cells[i] \in Storable(arrs[a].backed, stack, p)
  BY <1>1, <1>3 DEF ElementsOK
<1>5. {stack[q] : q \in 1 .. p} \subseteq LiveArenas
  <2>1. \A q \in 1 .. p : q \in 1 .. Len(stack)
    BY <1>3
  <2> QED BY <1>2, <2>1
<1>6. Storable(arrs[a].backed, stack, p) \subseteq ElemsOf(arrs[a].backed)
  BY <1>5 DEF Storable, ElemsOf, Backed
<1> QED BY <1>1, <1>4, <1>6 DEF Written, ElementsOK

\* An operation on one array preserves the invariant when the array stays
\* where it is and holds only what it held and what the store check let in.
LEMMA UpdateStep ==
  ASSUME IInv, NEW a \in Usable, NEW r,
         ArrayOK(r, arenas), r.owner = arrs[a].owner, r.backed = arrs[a].backed,
         \A i \in 0 .. r.len - 1 :
           \/ r.cells[i] \in Written(arrs[a])
           \/ StoreAllowed(a) /\ r.cells[i] \in ElemsOf(r.backed),
         arrs' = [arrs EXCEPT ![a] = r],
         UNCHANGED <<stack, arenas, pc>>
  PROVE  IInv'
<1>1. a \in 1 .. Len(arrs) /\ ElementsOK(arrs[a], stack) /\ Val(Junk) \notin Written(arrs[a])
  BY WrittenFacts DEF IInv, ArraysOK
<1>2. ElementsOK(r, stack)
  <2>1. ASSUME NEW i \in 0 .. r.len - 1
        PROVE  r.cells[i] # Val(Junk)
    BY <1>1, ElemsOfFacts DEF IInv, ArrayOK
  <2>2. ASSUME NEW p \in 1 .. Len(stack), r.owner = stack[p], NEW i \in 0 .. r.len - 1
        PROVE  r.cells[i] \in Storable(r.backed, stack, p)
    <3>1. CASE r.cells[i] \in Written(arrs[a])
      BY <1>1, <2>2, <3>1 DEF Written, ElementsOK
    <3>2. CASE StoreAllowed(a) /\ r.cells[i] \in ElemsOf(r.backed)
      <4>1. CASE r.backed
        <5>1. stack[p] = stack[Len(stack)] /\ Len(stack) \in 1 .. Len(stack)
          BY <2>2, <3>2, <4>1, StackFacts DEF IInv, StoreAllowed
        <5>2. p = Len(stack)
          BY <5>1 DEF IInv, StackOK
        <5> QED BY <3>2, <5>2, ElemsOfFacts DEF IInv, ArrayOK
      <4>2. CASE ~r.backed
        BY <3>2, <4>2 DEF ElemsOf, Storable
      <4> QED BY <4>1, <4>2
    <3> QED BY <3>1, <3>2
  <2> QED BY <2>1, <2>2 DEF ElementsOK
<1>3. PICK S : arrs \in Seq(S)
  BY DEF IInv, ArraysOK
<1>4. /\ arrs' \in Seq(S \cup {r}) /\ Len(arrs') = Len(arrs)
      /\ \A b \in 1 .. Len(arrs) : arrs'[b] = IF b = a THEN r ELSE arrs[b]
  <2>1. arrs \in Seq(S \cup {r})
    BY <1>3, SeqMonotonic
  <2> QED BY <1>1, <2>1, ExceptSeq
<1>5. ArraysOK'
  BY <1>2, <1>4 DEF IInv, ArraysOK
<1> QED BY <1>5 DEF IInv, StackOK

\* A new array, in the innermost arena, of elements the program can store.
LEMMA CreateStep ==
  ASSUME IInv, NEW r, ArrayOK(r, arenas), r.owner = Arena,
         \A i \in 0 .. r.len - 1 : r.cells[i] \in ElemsOf(r.backed),
         Creates(r)
  PROVE  IInv'
<1>1. UNCHANGED <<stack, arenas, pc>> /\ arrs' = Append(arrs, r)
  BY DEF Creates
<1>2. ElementsOK(r, stack)
  <2>1. ASSUME NEW p \in 1 .. Len(stack), r.owner = stack[p]
        PROVE  p = Len(stack)
    <3>1. stack[p] = stack[Len(stack)] /\ Len(stack) \in 1 .. Len(stack)
      BY <2>1, StackFacts DEF IInv
    <3> QED BY <3>1 DEF IInv, StackOK
  <2>2. \A i \in 0 .. r.len - 1 :
          r.cells[i] # Val(Junk) /\ r.cells[i] \in Storable(r.backed, stack, Len(stack))
    BY ElemsOfFacts DEF IInv, ArrayOK
  <2> QED BY <2>1, <2>2 DEF ElementsOK
<1>3. PICK S : arrs \in Seq(S)
  BY DEF IInv, ArraysOK
<1>4. /\ arrs' \in Seq(S \cup {r}) /\ Len(arrs') = Len(arrs) + 1 /\ Len(arrs) \in Nat
      /\ \A b \in 1 .. Len(arrs) : arrs'[b] = arrs[b]
      /\ arrs'[Len(arrs) + 1] = r
  <2>1. arrs \in Seq(S \cup {r})
    BY <1>3, SeqMonotonic
  <2> QED BY <1>1, <2>1, AppendProperties, LenProperties
<1>5. ASSUME NEW b \in 1 .. Len(arrs')
      PROVE  ArrayOK(arrs'[b], arenas) /\ ElementsOK(arrs'[b], stack)
  <2>1. b \in 1 .. Len(arrs) \/ b = Len(arrs) + 1
    BY <1>4
  <2> QED BY <1>2, <1>4, <2>1 DEF IInv, ArraysOK
<1>6. ArraysOK'
  BY <1>1, <1>4, <1>5 DEF ArraysOK
<1> QED BY <1>1, <1>6 DEF IInv, StackOK
-----------------------------------------------------------------------------
\* osc_array_new and the callers that fill its cells.
LEMMA NewArrayFacts ==
  ASSUME IInv, NEW backed \in BOOLEAN, NEW cap \in 0 .. IntMax, NEW n \in 0 .. cap, NEW cells
  PROVE  LET r == NewArray(backed, cap, cells, n)
         IN  /\ ArrayOK(r, arenas)
             /\ r.owner = Arena /\ r.backed = backed /\ r.len = n
             /\ \A i \in 0 .. n - 1 : r.cells[i] = cells[i]
<1> DEFINE r == NewArray(backed, cap, cells, n)
           c == IF cap > 0 THEN cap ELSE DefaultCap
<1>1. c \in 1 .. IntMax /\ n \in 0 .. c
  BY CapsAssumption
<1> HIDE DEF c
<1>2. r = [owner |-> Arena, backed |-> backed, cap |-> c, len |-> n, at |-> Arena,
           cells |-> [i \in 0 .. c - 1 |-> IF i < n THEN cells[i] ELSE Val(Junk)]]
  BY DEF NewArray, c
<1>3. /\ DOMAIN r = {"owner", "backed", "cap", "len", "at", "cells"}
      /\ r.owner = Arena /\ r.at = Arena /\ r.backed = backed /\ r.cap = c /\ r.len = n
      /\ r.cells = [i \in 0 .. c - 1 |-> IF i < n THEN cells[i] ELSE Val(Junk)]
  BY <1>2
<1> HIDE DEF r
<1>4. DOMAIN r.cells = 0 .. r.cap - 1 /\ \A i \in 0 .. n - 1 : r.cells[i] = cells[i]
  BY <1>1, <1>3
<1>5. Arena \in 1 .. arenas
  BY StackFacts DEF IInv
<1>6. ArrayOK(r, arenas)
  BY <1>1, <1>3, <1>4, <1>5 DEF ArrayOK
<1>7. /\ ArrayOK(r, arenas)
      /\ r.owner = Arena /\ r.backed = backed /\ r.len = n
      /\ \A i \in 0 .. n - 1 : r.cells[i] = cells[i]
  BY <1>3, <1>4, <1>6
<1> QED BY <1>7 DEF r

\* An array with its cells rewritten in place and another length.
LEMMA RewriteFacts ==
  ASSUME NEW m, NEW r, ArrayOK(r, m), NEW c, DOMAIN c = 0 .. r.cap - 1, NEW n \in 0 .. r.cap
  PROVE  LET g == [r EXCEPT !.cells = c]
             h == NewLen(g, n)
         IN  /\ ArrayOK(g, m)
             /\ g.owner = r.owner /\ g.backed = r.backed /\ g.len = r.len /\ g.cells = c
             /\ g.cap = r.cap
             /\ ArrayOK(h, m)
             /\ h.owner = r.owner /\ h.backed = r.backed /\ h.len = n /\ h.cells = c
<1> DEFINE g == [r EXCEPT !.cells = c]
           h == NewLen(g, n)
<1>1. /\ DOMAIN r = {"owner", "backed", "cap", "len", "at", "cells"}
  BY DEF ArrayOK
<1>2. /\ DOMAIN g = DOMAIN r
      /\ g.owner = r.owner /\ g.at = r.at /\ g.backed = r.backed
      /\ g.cap = r.cap /\ g.len = r.len /\ g.cells = c
  BY <1>1
<1> HIDE DEF g
<1>3. /\ DOMAIN h = DOMAIN g
      /\ h.owner = g.owner /\ h.at = g.at /\ h.backed = g.backed
      /\ h.cap = g.cap /\ h.len = n /\ h.cells = g.cells
  BY <1>1, <1>2 DEF NewLen
<1> HIDE DEF h
<1>4. /\ ArrayOK(g, m)
      /\ g.owner = r.owner /\ g.backed = r.backed /\ g.len = r.len /\ g.cells = c
      /\ g.cap = r.cap
      /\ ArrayOK(h, m)
      /\ h.owner = r.owner /\ h.backed = r.backed /\ h.len = n /\ h.cells = c
  BY <1>1, <1>2, <1>3 DEF ArrayOK
<1> QED BY <1>4 DEF g, h

\* osc_array_reserve: enough room, in the array's own arena, and the elements
\* are where they were.
LEMMA ReservedFacts ==
  ASSUME NEW m, NEW r, ArrayOK(r, m), NEW required \in 1 .. IntMax
  PROVE  LET g == Reserved(r, required)
         IN  /\ ArrayOK(g, m) /\ required <= g.cap
             /\ g.owner = r.owner /\ g.backed = r.backed /\ g.len = r.len
             /\ \A i \in 0 .. r.len - 1 : g.cells[i] = r.cells[i]
<1>1. CASE required <= r.cap
  BY <1>1 DEF Reserved
<1>2. CASE ~(required <= r.cap)
  <2> DEFINE c == GrowCap(r.cap, required)
             f == [i \in 0 .. c - 1 |-> IF i < r.len THEN r.cells[i] ELSE Val(Junk)]
             g == [r EXCEPT !.cap = c, !.at = r.owner, !.cells = f]
  <2>1. c \in required .. IntMax /\ r.cap \in 1 .. IntMax /\ r.len \in 0 .. r.cap
    BY GrowCapFits DEF ArrayOK
  <2>2. Reserved(r, required) = g
    BY <1>2 DEF Reserved, Moved
  <2> HIDE DEF c
  <2>3. IntMax \in Nat
    BY CapsAssumption
  <2>4. DOMAIN f = 0 .. c - 1 /\ \A i \in 0 .. r.len - 1 : f[i] = r.cells[i]
    BY <1>2, <2>1, <2>3
  <2> HIDE DEF f
  <2>5. /\ DOMAIN r = {"owner", "backed", "cap", "len", "at", "cells"}
    BY DEF ArrayOK
  <2>6. /\ DOMAIN g = DOMAIN r
        /\ g.owner = r.owner /\ g.at = r.owner /\ g.backed = r.backed
        /\ g.cap = c /\ g.len = r.len /\ g.cells = f
    BY <2>5
  <2> HIDE DEF g
  <2>7. ArrayOK(g, m) /\ required <= g.cap
    BY <1>2, <2>1, <2>3, <2>4, <2>5, <2>6 DEF ArrayOK
  <2> QED BY <2>2, <2>4, <2>6, <2>7
<1> QED BY <1>1, <1>2
-----------------------------------------------------------------------------
(***************************************************************************)
(* What each mutation leaves in its array: cell by cell, from the array    *)
(* before it.                                                              *)
(***************************************************************************)
\* The arrays osc_array_push, insert, remove_at and extend leave.
Pushed(r, e) == NewLen([Reserved(r, r.len + 1) EXCEPT !.cells[r.len] = e], r.len + 1)
Inserted(r, i, e) == Shifted(Reserved(r, r.len + 1), i, e, r.len)
Removed(r, i) ==
  LET cell(j) == IF j < i THEN r.cells[j] ELSE r.cells[j + 1]
  IN  NewLen(Rewritten(r, r.len - 1, cell), r.len - 1)
Extended(r, b) ==
  LET grown == Reserved(r, r.len + b.len)
      cell(i) == IF i < r.len THEN grown.cells[i] ELSE b.cells[i - r.len]
  IN  NewLen(Rewritten(grown, r.len + b.len, cell), r.len + b.len)

\* osc_array_push: the elements, then the new one.
LEMMA PushFacts ==
  ASSUME NEW m, NEW r, ArrayOK(r, m), r.len # IntMax, NEW e
  PROVE  LET h == Pushed(r, e)
         IN  /\ ArrayOK(h, m)
             /\ h.owner = r.owner /\ h.backed = r.backed /\ h.len = r.len + 1
             /\ \A i \in 0 .. r.len - 1 : h.cells[i] = r.cells[i]
             /\ h.cells[r.len] = e
<1> DEFINE g == Reserved(r, r.len + 1)
           c == [g.cells EXCEPT ![r.len] = e]
<1>1. r.len \in Nat /\ r.len + 1 \in 1 .. IntMax
  BY CapsAssumption DEF ArrayOK
<1>2. /\ ArrayOK(g, m) /\ r.len + 1 <= g.cap
      /\ g.owner = r.owner /\ g.backed = r.backed /\ g.len = r.len
      /\ \A i \in 0 .. r.len - 1 : g.cells[i] = r.cells[i]
  BY <1>1, ReservedFacts
<1> HIDE DEF g
<1>3. DOMAIN g.cells = 0 .. g.cap - 1 /\ g.cap \in Nat
  BY <1>2, CapsAssumption DEF ArrayOK
<1>4. /\ DOMAIN c = 0 .. g.cap - 1 /\ c[r.len] = e
      /\ \A i \in 0 .. r.len - 1 : c[i] = g.cells[i]
  BY <1>1, <1>2, <1>3
<1>5. Pushed(r, e) = NewLen([g EXCEPT !.cells = c], r.len + 1)
  BY DEF Pushed, g
<1> HIDE DEF c
<1>6. r.len + 1 \in 0 .. g.cap
  BY <1>1, <1>2, <1>3
<1>7. LET h == NewLen([g EXCEPT !.cells = c], r.len + 1)
      IN  /\ ArrayOK(h, m)
          /\ h.owner = g.owner /\ h.backed = g.backed /\ h.len = r.len + 1 /\ h.cells = c
  BY <1>2, <1>4, <1>6, RewriteFacts
<1> QED BY <1>2, <1>4, <1>5, <1>7

\* osc_array_insert: the elements before i, the new one, the others one
\* position on.
LEMMA InsertedFacts ==
  ASSUME NEW m, NEW r, ArrayOK(r, m), r.len # IntMax, NEW i \in 0 .. r.len, NEW e
  PROVE  LET h == Inserted(r, i, e)
         IN  /\ ArrayOK(h, m)
             /\ h.owner = r.owner /\ h.backed = r.backed /\ h.len = r.len + 1
             /\ \A j \in 0 .. r.len : h.cells[j] = IF j < i THEN r.cells[j]
                                                   ELSE IF j = i THEN e ELSE r.cells[j - 1]
<1> DEFINE g == Reserved(r, r.len + 1)
           n == r.len
           c == [k \in DOMAIN g.cells |->
                   IF k < n + 1 THEN IF k < i THEN g.cells[k]
                                     ELSE IF k = i THEN e ELSE g.cells[k - 1]
                   ELSE g.cells[k]]
<1>1. n \in Nat /\ n + 1 \in 1 .. IntMax
  BY CapsAssumption DEF ArrayOK
<1>2. /\ ArrayOK(g, m) /\ n + 1 <= g.cap
      /\ g.owner = r.owner /\ g.backed = r.backed /\ g.len = n
      /\ \A k \in 0 .. n - 1 : g.cells[k] = r.cells[k]
  BY <1>1, ReservedFacts
<1>3. Inserted(r, i, e) = NewLen([g EXCEPT !.cells = c], n + 1)
  BY DEF Inserted, Shifted, Rewritten
<1> HIDE DEF g
<1>4. DOMAIN g.cells = 0 .. g.cap - 1 /\ g.cap \in Nat
  BY <1>2, CapsAssumption DEF ArrayOK
<1>5. /\ DOMAIN c = 0 .. g.cap - 1
      /\ \A j \in 0 .. n : c[j] = IF j < i THEN g.cells[j]
                                  ELSE IF j = i THEN e ELSE g.cells[j - 1]
  BY <1>1, <1>2, <1>4
<1>6. \A j \in 0 .. n : c[j] = IF j < i THEN r.cells[j]
                               ELSE IF j = i THEN e ELSE r.cells[j - 1]
  <2> TAKE j \in 0 .. n
  <2>1. CASE j < i
    <3>1. j \in 0 .. n - 1
      BY <1>1, <2>1
    <3> QED BY <1>2, <1>5, <2>1, <3>1
  <2>2. CASE j = i
    BY <1>5, <2>2
  <2>3. CASE j > i
    <3>1. j - 1 \in 0 .. n - 1 /\ ~(j < i) /\ j # i
      BY <1>1, <2>3
    <3> QED BY <1>2, <1>5, <3>1
  <2> QED BY <1>1, <2>1, <2>2, <2>3
<1> HIDE DEF c
<1>7. n + 1 \in 0 .. g.cap
  BY <1>1, <1>2, <1>4
<1>8. LET h == NewLen([g EXCEPT !.cells = c], n + 1)
      IN  /\ ArrayOK(h, m)
          /\ h.owner = g.owner /\ h.backed = g.backed /\ h.len = n + 1 /\ h.cells = c
  BY <1>2, <1>5, <1>7, RewriteFacts
<1> QED BY <1>2, <1>3, <1>6, <1>8

\* osc_array_remove_at: the elements before i, then those after it.
LEMMA RemovedFacts ==
  ASSUME NEW m, NEW r, ArrayOK(r, m), NEW i \in 0 .. r.len - 1
  PROVE  LET h == Removed(r, i)
         IN  /\ ArrayOK(h, m)
             /\ h.owner = r.owner /\ h.backed = r.backed /\ h.len = r.len - 1
             /\ \A j \in 0 .. r.len - 2 : h.cells[j] = IF j < i THEN r.cells[j]
                                                       ELSE r.cells[j + 1]
<1> DEFINE cell(j) == IF j < i THEN r.cells[j] ELSE r.cells[j + 1]
           c == [k \in DOMAIN r.cells |-> IF k < r.len - 1 THEN cell(k) ELSE r.cells[k]]
<1>1. /\ r.len \in Nat /\ r.cap \in Nat /\ r.len <= r.cap /\ r.len - 1 \in 0 .. r.cap
      /\ DOMAIN r.cells = 0 .. r.cap - 1
  BY CapsAssumption DEF ArrayOK
<1>2. Removed(r, i) = NewLen([r EXCEPT !.cells = c], r.len - 1)
  BY DEF Removed, Rewritten
<1>3. DOMAIN c = 0 .. r.cap - 1
      /\ \A j \in 0 .. r.len - 2 : c[j] = IF j < i THEN r.cells[j] ELSE r.cells[j + 1]
  BY <1>1
<1> HIDE DEF c
<1>4. LET h == NewLen([r EXCEPT !.cells = c], r.len - 1)
      IN  /\ ArrayOK(h, m)
          /\ h.owner = r.owner /\ h.backed = r.backed /\ h.len = r.len - 1 /\ h.cells = c
  BY <1>1, <1>3, RewriteFacts
<1> QED BY <1>2, <1>3, <1>4

\* osc_array_extend: the elements of r, then those of b, as they were before
\* r was moved.
LEMMA ExtendedFacts ==
  ASSUME NEW m, NEW r, ArrayOK(r, m), NEW b, ArrayOK(b, m),
         b.len # 0, r.len <= IntMax - b.len
  PROVE  LET h == Extended(r, b)
         IN  /\ ArrayOK(h, m)
             /\ h.owner = r.owner /\ h.backed = r.backed /\ h.len = r.len + b.len
             /\ \A i \in 0 .. r.len + b.len - 1 : h.cells[i] = IF i < r.len THEN r.cells[i]
                                                               ELSE b.cells[i - r.len]
<1> DEFINE n == r.len
           k == b.len
           g == Reserved(r, n + k)
           cell(i) == IF i < n THEN g.cells[i] ELSE b.cells[i - n]
           c == [i \in DOMAIN g.cells |-> IF i < n + k THEN cell(i) ELSE g.cells[i]]
<1>1. n \in Nat /\ k \in Nat /\ n + k \in 1 .. IntMax
  BY CapsAssumption DEF ArrayOK
<1>2. /\ ArrayOK(g, m) /\ n + k <= g.cap
      /\ g.owner = r.owner /\ g.backed = r.backed /\ g.len = n
      /\ \A i \in 0 .. n - 1 : g.cells[i] = r.cells[i]
  BY <1>1, ReservedFacts
<1>3. Extended(r, b) = NewLen([g EXCEPT !.cells = c], n + k)
  BY DEF Extended, Rewritten
<1> HIDE DEF g
<1>4. DOMAIN g.cells = 0 .. g.cap - 1 /\ g.cap \in Nat
  BY <1>2, CapsAssumption DEF ArrayOK
<1>5. /\ DOMAIN c = 0 .. g.cap - 1
      /\ \A i \in 0 .. n + k - 1 : c[i] = IF i < n THEN r.cells[i] ELSE b.cells[i - n]
  <2>1. \A i \in 0 .. n + k - 1 : i \in DOMAIN g.cells /\ i < n + k /\ (i < n => i \in 0 .. n - 1)
    BY <1>1, <1>2, <1>4
  <2> QED BY <1>2, <1>4, <2>1
<1> HIDE DEF c
<1>6. n + k \in 0 .. g.cap
  BY <1>1, <1>2, <1>4
<1>7. LET h == NewLen([g EXCEPT !.cells = c], n + k)
      IN  /\ ArrayOK(h, m)
          /\ h.owner = g.owner /\ h.backed = g.backed /\ h.len = n + k /\ h.cells = c
  BY <1>2, <1>5, <1>6, RewriteFacts
<1> QED BY <1>2, <1>3, <1>5, <1>7
-----------------------------------------------------------------------------
(***************************************************************************)
(* Every operation preserves the invariant.                                *)
(***************************************************************************)
\* A checked failure ends the program and leaves the arrays alone.
LEMMA PanicsStep == IInv /\ Panics => IInv'
BY DEF Panics, IInv, StackOK, ArraysOK

\* One pushed element.
LEMMA PushStep ==
  ASSUME IInv, NEW a \in Usable, NEW e \in ElemsOf(arrs[a].backed), osc_array_push(a, e)
  PROVE  IInv'
<1> DEFINE r == arrs[a]
           h == Pushed(r, e)
<1>1. CASE StoreAllowed(a) /\ r.len # IntMax /\ Updates(a, h)
  <2>1. ArrayOK(r, arenas)
    BY WrittenFacts
  <2>2. /\ ArrayOK(h, arenas)
        /\ h.owner = r.owner /\ h.backed = r.backed /\ h.len = r.len + 1
        /\ \A i \in 0 .. r.len - 1 : h.cells[i] = r.cells[i]
        /\ h.cells[r.len] = e
    BY <1>1, <2>1, PushFacts
  <2>3. arrs' = [arrs EXCEPT ![a] = h] /\ UNCHANGED <<stack, arenas, pc>>
    BY <1>1 DEF Updates
  <2> HIDE DEF h
  <2>4. \A i \in 0 .. h.len - 1 : i \in 0 .. r.len - 1 \/ i = r.len
    BY <2>1, <2>2, CapsAssumption DEF ArrayOK
  <2>5. StoreAllowed(a) /\ e \in ElemsOf(h.backed)
    BY <1>1, <2>2
  <2>6. \A i \in 0 .. h.len - 1 : h.cells[i] \in Written(r) \/ h.cells[i] = e
    BY <2>2, <2>4 DEF Written
  <2> QED BY <2>2, <2>3, <2>5, <2>6, UpdateStep
<1>2. CASE Panics
  BY <1>2, PanicsStep
<1> QED BY <1>1, <1>2 DEF osc_array_push, Pushed

\* One inserted element.
LEMMA InsertStep ==
  ASSUME IInv, NEW a \in Usable, NEW e \in ElemsOf(arrs[a].backed), NEW i \in Indices,
         osc_array_insert(a, i, e)
  PROVE  IInv'
<1> DEFINE r == arrs[a]
           h == Inserted(r, i, e)
<1>1. CASE StoreAllowed(a) /\ i \in 0 .. r.len /\ r.len # IntMax /\ Updates(a, h)
  <2>1. ArrayOK(r, arenas)
    BY WrittenFacts
  <2>2. /\ ArrayOK(h, arenas)
        /\ h.owner = r.owner /\ h.backed = r.backed /\ h.len = r.len + 1
        /\ \A j \in 0 .. r.len : h.cells[j] = IF j < i THEN r.cells[j]
                                              ELSE IF j = i THEN e ELSE r.cells[j - 1]
    BY <1>1, <2>1, InsertedFacts
  <2>3. arrs' = [arrs EXCEPT ![a] = h] /\ UNCHANGED <<stack, arenas, pc>>
    BY <1>1 DEF Updates
  <2> HIDE DEF h
  <2>4. ASSUME NEW j \in 0 .. h.len - 1
        PROVE  h.cells[j] \in Written(r) \/ h.cells[j] = e
    <3>1. j \in 0 .. r.len /\ r.len \in Nat
      BY <2>1, <2>2, CapsAssumption DEF ArrayOK
    <3>2. (j < i => j \in 0 .. r.len - 1) /\ (j > i => j - 1 \in 0 .. r.len - 1)
      BY <1>1, <3>1
    <3>3. i \in Int /\ (j < i \/ j = i \/ j > i)
      BY <1>1, <3>1
    <3> QED BY <2>2, <3>1, <3>2, <3>3 DEF Written
  <2>5. StoreAllowed(a) /\ e \in ElemsOf(h.backed)
    BY <1>1, <2>2
  <2> QED BY <2>2, <2>3, <2>4, <2>5, UpdateStep
<1>2. CASE Panics
  BY <1>2, PanicsStep
<1> QED BY <1>1, <1>2 DEF osc_array_insert, Inserted

\* One removed element.
LEMMA RemoveStep ==
  ASSUME IInv, NEW a \in Usable, NEW i \in Indices, osc_array_remove_at(a, i)
  PROVE  IInv'
<1> DEFINE r == arrs[a]
           h == Removed(r, i)
<1>1. CASE /\ i \in 0 .. r.len - 1
           /\ arrs' = [arrs EXCEPT ![a] = h] /\ UNCHANGED <<stack, arenas, pc>>
  <2>1. ArrayOK(r, arenas)
    BY WrittenFacts
  <2>2. /\ ArrayOK(h, arenas)
        /\ h.owner = r.owner /\ h.backed = r.backed /\ h.len = r.len - 1
        /\ \A j \in 0 .. r.len - 2 : h.cells[j] = IF j < i THEN r.cells[j]
                                                  ELSE r.cells[j + 1]
    BY <1>1, <2>1, RemovedFacts
  <2> HIDE DEF h
  <2>3. ASSUME NEW j \in 0 .. h.len - 1
        PROVE  h.cells[j] \in Written(r)
    <3>1. j \in 0 .. r.len - 2 /\ j \in 0 .. r.len - 1 /\ j + 1 \in 0 .. r.len - 1
      BY <2>1, <2>2, CapsAssumption DEF ArrayOK
    <3> QED BY <2>2, <3>1 DEF Written
  <2> QED BY <1>1, <2>2, <2>3, UpdateStep
<1>2. CASE Panics
  BY <1>2, PanicsStep
<1> QED BY <1>1, <1>2 DEF osc_array_remove_at, Removed

\* One array appended to another, or to itself.
LEMMA ExtendStep ==
  ASSUME IInv, NEW a \in Usable, NEW b \in Usable, arrs[a].backed = arrs[b].backed,
         osc_array_extend(a, b)
  PROVE  IInv'
<1> DEFINE r == arrs[a]
           s == arrs[b]
           h == Extended(r, s)
<1>1. ArrayOK(r, arenas) /\ ArrayOK(s, arenas)
  BY WrittenFacts
<1>2. CASE StoreAllowed(a) /\ s.len = 0 /\ Updates(a, r)
  <2>1. \A i \in 0 .. r.len - 1 : r.cells[i] \in Written(r)
    BY DEF Written
  <2> QED BY <1>1, <1>2, <2>1, UpdateStep DEF Updates
<1>3. CASE StoreAllowed(a) /\ s.len # 0 /\ r.len <= IntMax - s.len /\ Updates(a, h)
  <2>1. /\ ArrayOK(h, arenas)
        /\ h.owner = r.owner /\ h.backed = r.backed /\ h.len = r.len + s.len
        /\ \A i \in 0 .. r.len + s.len - 1 : h.cells[i] = IF i < r.len THEN r.cells[i]
                                                          ELSE s.cells[i - r.len]
    BY <1>3, <1>1, ExtendedFacts
  <2>2. arrs' = [arrs EXCEPT ![a] = h] /\ UNCHANGED <<stack, arenas, pc>>
    BY <1>3 DEF Updates
  <2> HIDE DEF h
  <2>3. Written(s) \subseteq ElemsOf(h.backed)
    BY <2>1, WrittenFacts
  <2>4. ASSUME NEW i \in 0 .. h.len - 1
        PROVE  h.cells[i] \in Written(r) \/ h.cells[i] \in Written(s)
    <3>1. i \in 0 .. r.len + s.len - 1 /\ r.len \in Nat /\ s.len \in Nat
      <4>1. r.len \in Nat /\ s.len \in Nat
        BY <1>1, CapsAssumption DEF ArrayOK
      <4> QED BY <2>1, <4>1
    <3>2. CASE i < r.len
      BY <2>1, <3>1, <3>2 DEF Written
    <3>3. CASE ~(i < r.len)
      <4>1. i - r.len \in 0 .. s.len - 1
        BY <3>1, <3>3
      <4> QED BY <2>1, <3>1, <3>3, <4>1 DEF Written
    <3> QED BY <3>2, <3>3
  <2>5. StoreAllowed(a)
    BY <1>3
  <2> QED BY <2>1, <2>2, <2>3, <2>4, <2>5, UpdateStep
<1>4. CASE Panics
  BY <1>4, PanicsStep
<1> QED BY <1>2, <1>3, <1>4 DEF osc_array_extend, Extended

\* One removed element, from the end.
LEMMA PopStep ==
  ASSUME IInv, NEW a \in Usable, osc_array_pop(a)
  PROVE  IInv'
<1> DEFINE r == arrs[a]
           h == NewLen(r, r.len - 1)
<1>1. CASE r.len > 0 /\ arrs' = [arrs EXCEPT ![a].len = r.len - 1]
           /\ UNCHANGED <<stack, arenas, pc>>
  <2>1. arrs' = [arrs EXCEPT ![a] = h]
    BY <1>1 DEF NewLen
  <2>2. ArrayOK(r, arenas)
    BY WrittenFacts
  <2>3. r.len - 1 \in 0 .. r.cap /\ r.len \in Nat
    BY <1>1, <2>2, CapsAssumption DEF ArrayOK
  <2>4. /\ ArrayOK(h, arenas) /\ h.owner = r.owner /\ h.backed = r.backed
        /\ h.len = r.len - 1 /\ h.cells = r.cells
    <3>1. /\ DOMAIN r = {"owner", "backed", "cap", "len", "at", "cells"}
      BY <2>2 DEF ArrayOK
    <3>2. /\ DOMAIN h = DOMAIN r
          /\ h.owner = r.owner /\ h.at = r.at /\ h.backed = r.backed
          /\ h.cap = r.cap /\ h.len = r.len - 1 /\ h.cells = r.cells
      BY <3>1 DEF NewLen
    <3> HIDE DEF h
    <3> QED BY <2>2, <2>3, <3>1, <3>2 DEF ArrayOK
  <2> HIDE DEF h
  <2>5. \A i \in 0 .. h.len - 1 : h.cells[i] \in Written(r)
    BY <2>3, <2>4 DEF Written
  <2> QED BY <1>1, <2>1, <2>4, <2>5, UpdateStep
<1>2. CASE Panics
  BY <1>2, PanicsStep
<1> QED BY <1>1, <1>2 DEF osc_array_pop

\* No element left.
LEMMA ClearStep ==
  ASSUME IInv, NEW a \in Usable, osc_array_clear(a)
  PROVE  IInv'
<1> DEFINE r == arrs[a]
           h == NewLen(r, 0)
<1>1. arrs' = [arrs EXCEPT ![a] = h] /\ UNCHANGED <<stack, arenas, pc>>
  BY DEF osc_array_clear, Updates
<1>2. ArrayOK(r, arenas)
  BY WrittenFacts
<1>3. /\ DOMAIN r = {"owner", "backed", "cap", "len", "at", "cells"}
  BY <1>2 DEF ArrayOK
<1>4. /\ DOMAIN h = DOMAIN r
      /\ h.owner = r.owner /\ h.at = r.at /\ h.backed = r.backed
      /\ h.cap = r.cap /\ h.len = 0 /\ h.cells = r.cells
  BY <1>3 DEF NewLen
<1> HIDE DEF h
<1>5. ArrayOK(h, arenas)
  BY <1>2, <1>3, <1>4, CapsAssumption DEF ArrayOK
<1>6. \A i \in 0 .. h.len - 1 : FALSE
  BY <1>4
<1> QED BY <1>1, <1>4, <1>5, <1>6, UpdateStep

\* The cells of a live array rewritten in place, each with an element of the
\* array or with one the store check let in.
LEMMA CellsStep ==
  ASSUME IInv, NEW a \in Usable, NEW c, DOMAIN c = DOMAIN arrs[a].cells,
         \A i \in 0 .. arrs[a].len - 1 :
           c[i] \in Written(arrs[a]) \/ (StoreAllowed(a) /\ c[i] \in ElemsOf(arrs[a].backed)),
         Updates(a, [arrs[a] EXCEPT !.cells = c])
  PROVE  IInv'
<1> DEFINE r == arrs[a]
           g == [r EXCEPT !.cells = c]
<1>1. arrs' = [arrs EXCEPT ![a] = g] /\ UNCHANGED <<stack, arenas, pc>>
  BY DEF Updates
<1>2. ArrayOK(r, arenas)
  BY WrittenFacts
<1>3. r.len \in 0 .. r.cap /\ DOMAIN c = 0 .. r.cap - 1
  BY <1>2 DEF ArrayOK
<1>4. /\ ArrayOK(g, arenas) /\ g.owner = r.owner /\ g.backed = r.backed
      /\ g.len = r.len /\ g.cells = c
  BY <1>2, <1>3, RewriteFacts
<1> HIDE DEF g
<1> QED BY <1>1, <1>4, UpdateStep

\* One element stored at an index.
LEMMA SetStep ==
  ASSUME IInv, NEW a \in Usable, NEW e \in ElemsOf(arrs[a].backed), NEW i \in Indices,
         osc_array_set(a, i, e)
  PROVE  IInv'
<1> DEFINE r == arrs[a]
           c == [r.cells EXCEPT ![i] = e]
<1>1. CASE StoreAllowed(a) /\ i \in 0 .. r.len - 1 /\ Updates(a, [r EXCEPT !.cells = c])
  <2>1. DOMAIN r.cells = 0 .. r.cap - 1 /\ r.cap \in Nat /\ r.len <= r.cap /\ r.len \in Nat
    BY WrittenFacts, CapsAssumption DEF ArrayOK
  <2>2. DOMAIN c = DOMAIN r.cells /\ \A j \in 0 .. r.len - 1 : c[j] = e \/ c[j] = r.cells[j]
    BY <2>1
  <2>3. StoreAllowed(a) /\ Updates(a, [r EXCEPT !.cells = c])
    BY <1>1
  <2> HIDE DEF c
  <2>4. \A j \in 0 .. r.len - 1 :
          c[j] \in Written(r) \/ (StoreAllowed(a) /\ c[j] \in ElemsOf(r.backed))
    BY <2>2, <2>3 DEF Written
  <2> QED BY <2>2, <2>3, <2>4, CellsStep
<1>2. CASE Panics
  BY <1>2, PanicsStep
<1> QED BY <1>1, <1>2 DEF osc_array_set

\* Two elements exchanged.
LEMMA SwapStep ==
  ASSUME IInv, NEW a \in Usable, NEW i \in Indices, NEW j \in Indices,
         osc_array_swap(a, i, j)
  PROVE  IInv'
<1> DEFINE r == arrs[a]
           c == [[r.cells EXCEPT ![i] = r.cells[j]] EXCEPT ![j] = r.cells[i]]
<1>1. CASE /\ i \in 0 .. r.len - 1 /\ j \in 0 .. r.len - 1
           /\ Updates(a, [r EXCEPT !.cells[i] = r.cells[j], !.cells[j] = r.cells[i]])
  <2>1. DOMAIN r.cells = 0 .. r.cap - 1 /\ r.cap \in Nat /\ r.len <= r.cap /\ r.len \in Nat
        /\ DOMAIN r = {"owner", "backed", "cap", "len", "at", "cells"}
    BY WrittenFacts, CapsAssumption DEF ArrayOK
  <2>2. DOMAIN c = DOMAIN r.cells
        /\ \A k \in 0 .. r.len - 1 : c[k] \in {r.cells[k], r.cells[i], r.cells[j]}
    BY <2>1
  <2>3. \A k \in 0 .. r.len - 1 : c[k] \in Written(r)
    BY <1>1, <2>2 DEF Written
  <2>4. [r EXCEPT !.cells[i] = r.cells[j], !.cells[j] = r.cells[i]] = [r EXCEPT !.cells = c]
    BY <2>1
  <2>5. Updates(a, [r EXCEPT !.cells = c])
    BY <1>1, <2>4
  <2> HIDE DEF c
  <2>6. \A k \in 0 .. r.len - 1 :
          c[k] \in Written(r) \/ (StoreAllowed(a) /\ c[k] \in ElemsOf(r.backed))
    BY <2>3
  <2> QED BY <2>2, <2>5, <2>6, CellsStep
<1>2. CASE Panics
  BY <1>2, PanicsStep
<1> QED BY <1>1, <1>2 DEF osc_array_swap

\* The elements in the opposite order.
LEMMA ReverseStep ==
  ASSUME IInv, NEW a \in Usable, osc_array_reverse(a)
  PROVE  IInv'
<1> DEFINE r == arrs[a]
           c == [i \in DOMAIN r.cells |->
                   IF i < r.len THEN r.cells[r.len - 1 - i] ELSE r.cells[i]]
<1>1. Updates(a, [r EXCEPT !.cells = c])
  BY DEF osc_array_reverse, Rewritten
<1>2. DOMAIN r.cells = 0 .. r.cap - 1 /\ r.cap \in Nat /\ r.len <= r.cap /\ r.len \in Nat
  BY WrittenFacts, CapsAssumption DEF ArrayOK
<1>3. DOMAIN c = DOMAIN r.cells
      /\ \A i \in 0 .. r.len - 1 :
           c[i] = r.cells[r.len - 1 - i] /\ r.len - 1 - i \in 0 .. r.len - 1
  BY <1>2
<1> HIDE DEF c
<1>4. \A i \in 0 .. r.len - 1 :
        c[i] \in Written(r) \/ (StoreAllowed(a) /\ c[i] \in ElemsOf(r.backed))
  BY <1>3 DEF Written
<1> QED BY <1>1, <1>3, <1>4, CellsStep

\* Every element replaced by one.
LEMMA FillStep ==
  ASSUME IInv, NEW a \in Usable, NEW e \in ElemsOf(arrs[a].backed), osc_array_fill(a, e)
  PROVE  IInv'
<1> DEFINE r == arrs[a]
           c == [i \in DOMAIN r.cells |-> IF i < r.len THEN e ELSE r.cells[i]]
<1>1. CASE StoreAllowed(a) /\ Updates(a, [r EXCEPT !.cells = c])
  <2>1. DOMAIN r.cells = 0 .. r.cap - 1 /\ r.cap \in Nat /\ r.len <= r.cap /\ r.len \in Nat
    BY WrittenFacts, CapsAssumption DEF ArrayOK
  <2>2. DOMAIN c = DOMAIN r.cells /\ \A i \in 0 .. r.len - 1 : c[i] = e
    BY <2>1
  <2> HIDE DEF c
  <2> QED BY <1>1, <2>2, CellsStep
<1>2. CASE Panics
  BY <1>2, PanicsStep
<1> QED BY <1>1, <1>2 DEF osc_array_fill, Rewritten

\* A new empty array.
LEMMA NewStep ==
  ASSUME IInv, NEW backed \in Kinds, NEW cap \in InitCaps, osc_array_new(backed, cap)
  PROVE  IInv'
<1> DEFINE h == NewArray(backed, cap, Fresh(0), 0)
<1>1. backed \in BOOLEAN /\ cap \in 0 .. IntMax /\ 0 \in 0 .. cap
  BY CapsAssumption, ValsAssumption
<1>2. ArrayOK(h, arenas) /\ h.owner = Arena /\ h.len = 0
  BY <1>1, NewArrayFacts
<1>3. Creates(h)
  BY DEF osc_array_new
<1> HIDE DEF h
<1>4. \A i \in 0 .. h.len - 1 : FALSE
  BY <1>2
<1> QED BY <1>2, <1>3, <1>4, CreateStep

\* A new array of copies of one element.
LEMMA RepeatStep ==
  ASSUME IInv, NEW backed \in Kinds, NEW e \in ElemsOf(backed), NEW n \in InitCaps \cup {-1},
         osc_array_repeat(backed, e, n)
  PROVE  IInv'
<1> DEFINE c == [i \in 0 .. n - 1 |-> e]
           h == NewArray(backed, n, c, n)
<1>1. CASE n >= 0 /\ Creates(h)
  <2>1. backed \in BOOLEAN /\ n \in 0 .. IntMax /\ n \in 0 .. n
    BY <1>1, CapsAssumption, ValsAssumption
  <2>3. \A i \in 0 .. n - 1 : c[i] = e
    OBVIOUS
  <2>4. Creates(h)
    BY <1>1
  <2> HIDE <1>1 DEF c
  <2>2. /\ ArrayOK(h, arenas) /\ h.owner = Arena /\ h.backed = backed /\ h.len = n
        /\ \A i \in 0 .. n - 1 : h.cells[i] = c[i]
    BY <2>1, NewArrayFacts
  <2> HIDE DEF h
  <2>5. \A i \in 0 .. h.len - 1 : h.cells[i] \in ElemsOf(h.backed)
    BY <2>2, <2>3
  <2> QED BY <2>2, <2>4, <2>5, CreateStep
<1>2. CASE Panics
  BY <1>2, PanicsStep
<1> QED BY <1>1, <1>2 DEF osc_array_repeat

\* A copy of a live array: its elements are alive where the copy is made.
LEMMA CloneStep ==
  ASSUME IInv, NEW a \in Usable, osc_array_clone(a)
  PROVE  IInv'
<1> DEFINE r == arrs[a]
           h == NewArray(r.backed, r.len, r.cells, r.len)
<1>1. ArrayOK(r, arenas) /\ Written(r) \subseteq ElemsOf(r.backed)
  BY WrittenFacts
<1>2. r.backed \in BOOLEAN /\ r.len \in 0 .. IntMax /\ r.len \in 0 .. r.len
  BY <1>1, CapsAssumption DEF ArrayOK
<1>3. /\ ArrayOK(h, arenas) /\ h.owner = Arena /\ h.backed = r.backed /\ h.len = r.len
      /\ \A i \in 0 .. r.len - 1 : h.cells[i] = r.cells[i]
  BY <1>2, NewArrayFacts
<1>4. Creates(h)
  BY DEF osc_array_clone
<1> HIDE DEF h
<1>5. \A i \in 0 .. h.len - 1 : h.cells[i] \in ElemsOf(h.backed)
  BY <1>1, <1>3 DEF Written
<1> QED BY <1>3, <1>4, <1>5, CreateStep

\* A copy of a part of a live array.
LEMMA SliceStep ==
  ASSUME IInv, NEW a \in Usable, NEW i \in Indices, NEW j \in Indices,
         osc_array_slice(a, i, j)
  PROVE  IInv'
<1> DEFINE r == arrs[a]
           c == [k \in 0 .. j - i - 1 |-> r.cells[i + k]]
           h == NewArray(r.backed, j - i, c, j - i)
<1>1. CASE i >= 0 /\ j >= i /\ j <= r.len /\ Creates(h)
  <2>1. ArrayOK(r, arenas) /\ Written(r) \subseteq ElemsOf(r.backed)
    BY WrittenFacts
  <2>2. /\ r.backed \in BOOLEAN /\ j - i \in 0 .. IntMax /\ j - i \in 0 .. j - i
        /\ \A k \in 0 .. j - i - 1 : i + k \in 0 .. r.len - 1
    BY <1>1, <2>1, CapsAssumption DEF ArrayOK, Indices
  <2>3. /\ ArrayOK(h, arenas) /\ h.owner = Arena /\ h.backed = r.backed /\ h.len = j - i
        /\ \A k \in 0 .. j - i - 1 : h.cells[k] = c[k]
    BY <2>2, NewArrayFacts
  <2>4. Creates(h)
    BY <1>1
  <2> HIDE DEF h
  <2>5. \A k \in 0 .. h.len - 1 : h.cells[k] \in ElemsOf(h.backed)
    BY <2>1, <2>2, <2>3 DEF Written
  <2> QED BY <2>3, <2>4, <2>5, CreateStep
<1>2. CASE Panics
  BY <1>2, PanicsStep
<1> QED BY <1>1, <1>2 DEF osc_array_slice

\* A new arena on top of the stack: no array is in it yet.
LEMMA EnterStep == IInv /\ EnterBlock => IInv'
<1> SUFFICES ASSUME IInv, EnterBlock
             PROVE  IInv'
  OBVIOUS
<1> DEFINE n == Len(stack)
<1>1. /\ arenas \in Nat /\ n \in Nat \ {0}
      /\ \A p \in 1 .. n : stack[p] \in 1 .. arenas
  BY StackFacts DEF IInv
<1>2. stack \in Seq(1 .. arenas + 1)
  <2>1. 1 .. arenas \subseteq 1 .. arenas + 1
    BY <1>1
  <2> QED BY <2>1, SeqMonotonic DEF IInv, StackOK
<1>3. /\ stack' \in Seq(1 .. arenas') /\ Len(stack') = n + 1
      /\ \A p \in 1 .. n : stack'[p] = stack[p]
      /\ stack'[n + 1] = arenas + 1 /\ arenas' = arenas + 1
  <2>1. arenas + 1 \in 1 .. arenas + 1 /\ stack' = Append(stack, arenas + 1)
        /\ arenas' = arenas + 1
    BY <1>1 DEF EnterBlock
  <2> QED BY <1>2, <2>1, AppendProperties
<1>4. arenas' \in 1 .. MaxArenas
  BY <1>1, BoundsAssumption DEF EnterBlock
<1>5. ASSUME NEW p \in 1 .. n + 1, NEW q \in 1 .. n + 1, stack'[p] = stack'[q]
      PROVE  p = q
  <2>1. (p \in 1 .. n \/ p = n + 1) /\ (q \in 1 .. n \/ q = n + 1)
    BY <1>1
  <2>2. arenas + 1 \notin 1 .. arenas
    BY <1>1
  <2>3. CASE p \in 1 .. n /\ q \in 1 .. n
    BY <1>3, <1>5, <2>3 DEF IInv, StackOK
  <2>4. CASE p = n + 1 /\ q \in 1 .. n
    BY <1>1, <1>3, <1>5, <2>2, <2>4
  <2>5. CASE p \in 1 .. n /\ q = n + 1
    BY <1>1, <1>3, <1>5, <2>2, <2>5
  <2> QED BY <2>1, <2>3, <2>4, <2>5
<1>6. StackOK'
  <2>1. stack' # <<>>
    BY <1>1, <1>3, EmptySeq
  <2> QED BY <1>3, <1>4, <1>5, <2>1 DEF StackOK
<1>7. ASSUME NEW a \in 1 .. Len(arrs)
      PROVE  ArrayOK(arrs[a], arenas') /\ ElementsOK(arrs[a], stack')
  <2> DEFINE r == arrs[a]
  <2>1. ArrayOK(r, arenas) /\ ElementsOK(r, stack)
    BY DEF IInv, ArraysOK
  <2>2. r.owner \in 1 .. arenas' /\ r.owner # arenas + 1
    BY <1>1, <1>3, <2>1 DEF ArrayOK
  <2>3. ASSUME NEW p \in 1 .. n + 1, r.owner = stack'[p]
        PROVE  \A i \in 0 .. r.len - 1 : r.cells[i] \in Storable(r.backed, stack', p)
    <3>1. p \in 1 .. n
      BY <1>1, <1>3, <2>2, <2>3
    <3>2. \A q \in 1 .. p : stack'[q] = stack[q]
      BY <1>1, <1>3, <3>1
    <3>3. Storable(r.backed, stack', p) = Storable(r.backed, stack, p)
      BY <3>2 DEF Storable
    <3> QED BY <1>3, <2>1, <2>3, <3>1, <3>3 DEF ElementsOK
  <2> QED BY <1>3, <2>1, <2>2, <2>3 DEF ArrayOK, ElementsOK
<1> QED BY <1>6, <1>7 DEF IInv, ArraysOK, EnterBlock

\* The innermost arena ends: what the other live arrays hold is below it.
LEMMA LeaveStep == IInv /\ LeaveBlock => IInv'
<1> SUFFICES ASSUME IInv, LeaveBlock
             PROVE  IInv'
  OBVIOUS
<1> DEFINE n == Len(stack) - 1
<1>1. /\ arenas \in Nat /\ n \in Nat \ {0}
      /\ \A p \in 1 .. n : p \in 1 .. Len(stack) /\ stack[p] \in 1 .. arenas
  BY StackFacts DEF IInv, LeaveBlock
<1>2. /\ stack' \in Seq(1 .. arenas) /\ Len(stack') = n
      /\ \A p \in 1 .. n : stack'[p] = stack[p]
  <2>1. stack' = SubSeq(stack, 1, n)
    BY DEF LeaveBlock
  <2> HIDE DEF n
  <2>2. \A p \in 1 .. n : stack[p] \in 1 .. arenas
    BY <1>1
  <2>3. /\ SubSeq(stack, 1, n) \in Seq(1 .. arenas)
        /\ Len(SubSeq(stack, 1, n)) = IF 1 <= n THEN n - 1 + 1 ELSE 0
        /\ \A p \in 1 .. n - 1 + 1 : SubSeq(stack, 1, n)[p] = stack[1 + p - 1]
    BY <1>1, <2>2, SubSeqProperties
  <2>4. n - 1 + 1 = n /\ 1 <= n /\ \A p \in 1 .. n : 1 + p - 1 = p
    BY <1>1
  <2> QED BY <2>1, <2>3, <2>4
<1>3. UNCHANGED <<arrs, arenas, pc>>
  BY DEF LeaveBlock
<1> HIDE DEF n
<1>4. StackOK'
  <2>1. stack' # <<>>
    BY <1>1, <1>2, EmptySeq
  <2>2. \A p, q \in 1 .. n : stack'[p] = stack'[q] => p = q
    BY <1>1, <1>2 DEF IInv, StackOK
  <2> QED BY <1>2, <1>3, <2>1, <2>2 DEF IInv, StackOK
<1>5. ASSUME NEW a \in 1 .. Len(arrs)
      PROVE  ElementsOK(arrs[a], stack')
  <2> DEFINE r == arrs[a]
  <2>1. ElementsOK(r, stack)
    BY DEF IInv, ArraysOK
  <2>2. ASSUME NEW p \in 1 .. n, r.owner = stack'[p]
        PROVE  \A i \in 0 .. r.len - 1 : r.cells[i] \in Storable(r.backed, stack', p)
    <3>1. \A q \in 1 .. p : stack'[q] = stack[q]
      BY <1>1, <1>2
    <3>2. Storable(r.backed, stack', p) = Storable(r.backed, stack, p)
      BY <3>1 DEF Storable
    <3> QED BY <1>1, <1>2, <2>1, <2>2, <3>2 DEF ElementsOK
  <2> QED BY <1>2, <2>1, <2>2 DEF ElementsOK
<1> QED BY <1>3, <1>4, <1>5 DEF IInv, ArraysOK
-----------------------------------------------------------------------------
\* A program starts in its own arena, with no array.
LEMMA InitStep == Init => IInv
<1> SUFFICES ASSUME Init
             PROVE  IInv
  OBVIOUS
<1>1. /\ arenas \in 1 .. MaxArenas /\ stack \in Seq(1 .. arenas) /\ stack # <<>>
      /\ Len(stack) = 1 /\ arrs \in Seq({}) /\ Len(arrs) = 0
  BY BoundsAssumption DEF Init
<1> QED BY <1>1 DEF Init, IInv, StackOK, ArraysOK

\* Every step preserves the invariant.
LEMMA NextStep == IInv /\ [Next]_vars => IInv'
<1> SUFFICES ASSUME IInv, [Next]_vars
             PROVE  IInv'
  OBVIOUS
<1>1. CASE UNCHANGED vars
  BY <1>1 DEF vars, IInv, StackOK, ArraysOK
<1>2. CASE EnterBlock \/ LeaveBlock
  BY <1>2, EnterStep, LeaveStep
<1>3. ASSUME NEW backed \in Kinds,
             \/ \E cap \in InitCaps : osc_array_new(backed, cap)
             \/ \E e \in ElemsOf(backed), n \in InitCaps \cup {-1} :
                  osc_array_repeat(backed, e, n)
      PROVE  IInv'
  BY <1>3, NewStep, RepeatStep
<1>4. ASSUME NEW a \in Usable,
             \/ osc_array_pop(a) \/ osc_array_clone(a)
             \/ osc_array_reverse(a) \/ osc_array_clear(a)
      PROVE  IInv'
  BY <1>4, PopStep, CloneStep, ReverseStep, ClearStep
<1>5. ASSUME NEW a \in Usable, NEW b \in Usable,
             arrs[a].backed = arrs[b].backed, osc_array_extend(a, b)
      PROVE  IInv'
  BY <1>5, ExtendStep
<1>6. ASSUME NEW a \in Usable, NEW i \in Indices,
             osc_array_get(a, i) \/ osc_array_remove_at(a, i)
      PROVE  IInv'
  <2>1. CASE osc_array_remove_at(a, i)
    BY <2>1, RemoveStep
  <2>2. CASE osc_array_get(a, i)
    <3>1. CASE UNCHANGED <<arrs, stack, arenas, pc>>
      BY <3>1 DEF IInv, StackOK, ArraysOK
    <3>2. CASE Panics
      BY <3>2, PanicsStep
    <3> QED BY <2>2, <3>1, <3>2 DEF osc_array_get
  <2> QED BY <1>6, <2>1, <2>2
<1>7. ASSUME NEW a \in Usable, NEW i \in Indices, NEW j \in Indices,
             osc_array_swap(a, i, j) \/ osc_array_slice(a, i, j)
      PROVE  IInv'
  BY <1>7, SwapStep, SliceStep
<1>8. ASSUME NEW a \in Usable, NEW e \in ElemsOf(arrs[a].backed),
             osc_array_push(a, e) \/ osc_array_fill(a, e)
      PROVE  IInv'
  BY <1>8, PushStep, FillStep
<1>9. ASSUME NEW a \in Usable, NEW e \in ElemsOf(arrs[a].backed), NEW i \in Indices,
             osc_array_set(a, i, e) \/ osc_array_insert(a, i, e)
      PROVE  IInv'
  BY <1>9, SetStep, InsertStep
<1> QED BY <1>1, <1>2, <1>3, <1>4, <1>5, <1>6, <1>7, <1>8, <1>9 DEF Next

\* The invariant holds in every state of every program.
LEMMA IInvHolds == Spec => []IInv
BY InitStep, NextStep, PTL DEF Spec

\* The type of the state.  In particular the doubling of osc_array_reserve
\* never leaves int32_t, and no length exceeds its buffer.
THEOREM TypeCorrect == Spec => []TypeOK
<1>1. IInv => TypeOK
  <2> SUFFICES ASSUME IInv
               PROVE  TypeOK
    OBVIOUS
  <2>1. LiveArenas \subseteq 1 .. arenas
    BY StackFacts DEF IInv
  <2> QED BY <2>1 DEF IInv, TypeOK, StackOK, ArraysOK, ArrayOK
<1> QED BY <1>1, IInvHolds, PTL

\* Memory nobody wrote is never an element of an array: every element was
\* stored by the program, also after osc_array_reserve moved the buffer.
THEOREM NoJunkRead == Spec => []NoJunk
<1>1. IInv => NoJunk
  BY DEF IInv, ArraysOK, ElementsOK, NoJunk, Written
<1> QED BY <1>1, IInvHolds, PTL

\* A live array has its buffer, whichever block made it grow.
THEOREM BuffersLive == Spec => []BufferAlive
<1>1. IInv => BufferAlive
  BY WrittenFacts DEF BufferAlive, ArrayOK, Usable, Live
<1> QED BY <1>1, IInvHolds, PTL

\* No live array points into an arena that has ended: the check the compiler
\* emits before a store is enough, whatever the program does.
THEOREM NothingDangles == Spec => []NoDangling
<1>1. IInv => NoDangling
  <2> SUFFICES ASSUME IInv, NEW a \in Usable, NEW e \in Written(arrs[a]), e[1] = "ref"
               PROVE  e[2] \in LiveArenas \cup {Static}
    BY DEF NoDangling
  <2>1. e \in ElemsOf(arrs[a].backed)
    BY WrittenFacts
  <2>2. CASE e \in Backed
    <3>1. PICK m \in LiveArenas \cup {Static} : e = Ref(m)
      BY <2>2 DEF Backed
    <3> QED BY <3>1 DEF Ref
  <2>3. CASE e \in Plain
    <3>1. PICK v \in Vals : e = Val(v)
      BY <2>3 DEF Plain
    <3> QED BY <3>1 DEF Val
  <2> QED BY <2>1, <2>2, <2>3 DEF ElemsOf
<1> QED BY <1>1, IInvHolds, PTL
-----------------------------------------------------------------------------
(***************************************************************************)
(* MutatorsAreSequenceOps: each mutation, cell by cell as the facts above  *)
(* give it, is the sequence operation of its name.                         *)
(***************************************************************************)
\* The sequence of an array, element by element.
LEMMA ContentsFacts ==
  ASSUME NEW m, NEW r, ArrayOK(r, m), NEW S, Written(r) \subseteq S
  PROVE  /\ r.len \in Nat
         /\ Contents(r) \in Seq(S) /\ Len(Contents(r)) = r.len
         /\ \A i \in 1 .. r.len : Contents(r)[i] = r.cells[i - 1]
<1> DEFINE n == r.len
           e(i) == r.cells[i - 1]
<1>1. n \in Nat
  BY CapsAssumption DEF ArrayOK
<1>2. \A i \in 1 .. n : e(i) \in S
  <2>1. \A i \in 1 .. n : i - 1 \in 0 .. n - 1
    BY <1>1
  <2> QED BY <2>1 DEF Written
<1>3. Contents(r) = [i \in 1 .. n |-> e(i)]
  BY DEF Contents
<1> HIDE DEF n
<1>4. [i \in 1 .. n |-> e(i)] \in [1 .. n -> S]
  BY <1>2
<1>5. [i \in 1 .. n |-> e(i)] \in Seq(S)
  BY <1>1, <1>4, SeqDef
<1>6. Len([i \in 1 .. n |-> e(i)]) = n
  <2> DEFINE c == [i \in 1 .. n |-> e(i)]
  <2>1. c \in Seq(S) /\ DOMAIN c = 1 .. n
    BY <1>5
  <2> HIDE DEF c
  <2>2. Len(c) \in Nat /\ 1 .. Len(c) = 1 .. n
    BY <2>1, LenProperties
  <2>3. Len(c) = n
    BY <1>1, <2>2
  <2> QED BY <2>3 DEF c
<1>7. n \in Nat /\ Contents(r) \in Seq(S) /\ Len(Contents(r)) = n
      /\ \A i \in 1 .. n : Contents(r)[i] = r.cells[i - 1]
  BY <1>1, <1>3, <1>5, <1>6
<1> QED BY <1>7 DEF n

\* A step that replaced array a and did not panic.
LEMMA UpdatedArray ==
  ASSUME IInv, NEW a \in Usable, NEW h, arrs' = [arrs EXCEPT ![a] = h]
  PROVE  arrs'[a] = h
<1>1. PICK S : arrs \in Seq(S)
  BY DEF IInv, ArraysOK
<1>2. a \in DOMAIN arrs
  BY <1>1, WrittenFacts, LenProperties
<1> QED BY <1>2

\* osc_array_push appends one element.
LEMMA PushIsAppend ==
  ASSUME IInv, pc' = "ready", NEW a \in Usable, NEW e, osc_array_push(a, e)
  PROVE  Contents(arrs'[a]) = Append(Contents(arrs[a]), e)
<1> DEFINE r == arrs[a]
           h == Pushed(r, e)
           S == Written(r) \cup Written(h) \cup {e}
<1>1. r.len # IntMax /\ arrs' = [arrs EXCEPT ![a] = h]
  BY DEF osc_array_push, Panics, Updates, Pushed
<1>2. arrs'[a] = h
  BY <1>1, UpdatedArray
<1>3. ArrayOK(r, arenas)
  BY WrittenFacts
<1>4. /\ ArrayOK(h, arenas) /\ h.len = r.len + 1
      /\ \A i \in 0 .. r.len - 1 : h.cells[i] = r.cells[i]
      /\ h.cells[r.len] = e
  BY <1>1, <1>3, PushFacts
<1> HIDE DEF h, r
<1> DEFINE s == Contents(r)
           t == Contents(h)
<1>5. r.len \in Nat /\ s \in Seq(S) /\ Len(s) = r.len
      /\ \A i \in 1 .. r.len : s[i] = r.cells[i - 1]
  BY <1>3, ContentsFacts
<1>6. t \in Seq(S) /\ Len(t) = h.len /\ \A i \in 1 .. h.len : t[i] = h.cells[i - 1]
  BY <1>4, ContentsFacts
<1>7. e \in S
  OBVIOUS
<1> HIDE DEF s, t, S
<1>8. /\ Append(s, e) \in Seq(S) /\ Len(Append(s, e)) = Len(s) + 1
      /\ \A i \in 1 .. Len(s) : Append(s, e)[i] = s[i]
      /\ Append(s, e)[Len(s) + 1] = e
  BY <1>5, <1>7, AppendProperties
<1>9. \A i \in 1 .. Len(t) : t[i] = Append(s, e)[i]
  <2> TAKE i \in 1 .. Len(t)
  <2>1. CASE i = r.len + 1
    BY <1>4, <1>5, <1>6, <1>8, <2>1
  <2>2. CASE i # r.len + 1
    <3>1. i \in 1 .. r.len /\ i - 1 \in 0 .. r.len - 1
      BY <1>4, <1>5, <1>6, <2>2
    <3> QED BY <1>4, <1>5, <1>6, <1>8, <3>1
  <2> QED BY <2>1, <2>2
<1>10. Len(t) = Len(Append(s, e))
  BY <1>4, <1>5, <1>6, <1>8
<1>11. t = Append(s, e)
  BY <1>6, <1>8, <1>9, <1>10, SeqEqual
<1> QED BY <1>2, <1>11 DEF s, t, r

\* osc_array_insert puts one element between the first i and the others.
LEMMA InsertIsSplice ==
  ASSUME IInv, pc' = "ready", NEW a \in Usable, NEW i \in Indices, NEW e,
         osc_array_insert(a, i, e)
  PROVE  LET s == Contents(arrs[a])
         IN  Contents(arrs'[a]) = SubSeq(s, 1, i) \o <<e>> \o SubSeq(s, i + 1, Len(s))
<1> DEFINE r == arrs[a]
           h == Inserted(r, i, e)
           S == Written(r) \cup Written(h) \cup {e}
           n == r.len
<1>1. n # IntMax /\ i \in 0 .. n /\ arrs' = [arrs EXCEPT ![a] = h]
  BY DEF osc_array_insert, Panics, Updates, Inserted
<1>2. arrs'[a] = h
  BY <1>1, UpdatedArray
<1>3. ArrayOK(r, arenas)
  BY WrittenFacts
<1>4. /\ ArrayOK(h, arenas) /\ h.len = n + 1
      /\ \A j \in 0 .. n : h.cells[j] = IF j < i THEN r.cells[j]
                                        ELSE IF j = i THEN e ELSE r.cells[j - 1]
  BY <1>1, <1>3, InsertedFacts
<1> HIDE DEF h, r
<1> DEFINE s == Contents(r)
           t == Contents(h)
           u == SubSeq(s, 1, i)
           v == SubSeq(s, i + 1, n)
<1>5. n \in Nat /\ s \in Seq(S) /\ Len(s) = n /\ \A j \in 1 .. n : s[j] = r.cells[j - 1]
  BY <1>3, ContentsFacts
<1>6. t \in Seq(S) /\ Len(t) = h.len /\ \A j \in 1 .. h.len : t[j] = h.cells[j - 1]
  BY <1>4, ContentsFacts
<1>7. <<e>> \in Seq(S) /\ Len(<<e>>) = 1 /\ <<e>>[1] = e
  OBVIOUS
<1> HIDE DEF s, t, S, n
<1>8. i \in Nat /\ i <= n /\ \A j \in 1 .. n : s[j] \in S
  BY <1>1, <1>5, ElementOfSeq
<1>9. u \in Seq(S) /\ Len(u) = i /\ \A j \in 1 .. i : u[j] = s[j]
  <2>1. \A j \in 1 .. i : s[j] \in S
    BY <1>5, <1>8
  <2>2. /\ u \in Seq(S) /\ Len(u) = IF 1 <= i THEN i - 1 + 1 ELSE 0
        /\ \A j \in 1 .. i - 1 + 1 : u[j] = s[1 + j - 1]
    BY <1>8, <2>1, SubSeqProperties
  <2> HIDE DEF u
  <2> QED BY <1>8, <2>2
<1>10. v \in Seq(S) /\ Len(v) = n - i /\ \A j \in 1 .. n - i : v[j] = s[i + j]
  <2>1. \A j \in i + 1 .. n : s[j] \in S
    BY <1>5, <1>8
  <2>2. /\ v \in Seq(S) /\ Len(v) = IF i + 1 <= n THEN n - (i + 1) + 1 ELSE 0
        /\ \A j \in 1 .. n - (i + 1) + 1 : v[j] = s[i + 1 + j - 1]
    BY <1>5, <1>8, <2>1, SubSeqProperties
  <2> HIDE DEF v
  <2> QED BY <1>5, <1>8, <2>2
<1> HIDE DEF u, v
<1> DEFINE w == u \o <<e>>
           x == w \o v
<1>11. w \in Seq(S) /\ Len(w) = i + 1
       /\ \A j \in 1 .. i + 1 : w[j] = IF j <= i THEN u[j] ELSE e
  <2>1. /\ w \in Seq(S) /\ Len(w) = Len(u) + Len(<<e>>)
        /\ \A j \in 1 .. Len(u) + Len(<<e>>) :
             w[j] = IF j <= Len(u) THEN u[j] ELSE <<e>>[j - Len(u)]
    BY <1>7, <1>9, ConcatProperties
  <2>2. \A j \in 1 .. i + 1 : j <= i \/ j - i = 1
    BY <1>8
  <2> HIDE DEF w
  <2> QED BY <1>7, <1>8, <1>9, <2>1, <2>2
<1> HIDE DEF w
<1>12. x \in Seq(S) /\ Len(x) = n + 1
       /\ \A j \in 1 .. n + 1 : x[j] = IF j <= i + 1 THEN w[j] ELSE v[j - (i + 1)]
  <2>1. /\ x \in Seq(S) /\ Len(x) = Len(w) + Len(v)
        /\ \A j \in 1 .. Len(w) + Len(v) :
             x[j] = IF j <= Len(w) THEN w[j] ELSE v[j - Len(w)]
    BY <1>10, <1>11, ConcatProperties
  <2>2. Len(w) + Len(v) = n + 1
    BY <1>5, <1>8, <1>10, <1>11
  <2> HIDE DEF x
  <2> QED BY <1>11, <2>1, <2>2
<1> HIDE DEF x
<1>13. ASSUME NEW j \in 1 .. n + 1
       PROVE  t[j] = x[j]
  <2>1. t[j] = h.cells[j - 1] /\ j - 1 \in 0 .. n
    BY <1>4, <1>5, <1>6
  <2>2. CASE j <= i
    <3>1. j - 1 < i /\ j \in 1 .. n /\ j \in 1 .. i /\ j <= i + 1 /\ j \in 1 .. i + 1
      BY <1>5, <1>8, <2>2
    <3>2. x[j] = s[j]
      BY <1>9, <1>11, <1>12, <2>2, <3>1
    <3>3. h.cells[j - 1] = r.cells[j - 1]
      BY <1>4, <2>1, <3>1
    <3> QED BY <1>5, <2>1, <3>1, <3>2, <3>3
  <2>3. CASE j = i + 1
    <3>1. ~(j - 1 < i) /\ j - 1 = i /\ ~(j <= i) /\ j <= i + 1 /\ j \in 1 .. i + 1
      BY <1>5, <1>8, <2>3
    <3> QED BY <1>4, <1>11, <1>12, <2>1, <3>1
  <2>4. CASE j > i + 1
    <3>1. /\ ~(j - 1 < i) /\ j - 1 # i /\ ~(j <= i + 1)
          /\ j - (i + 1) \in 1 .. n - i /\ i + (j - (i + 1)) = j - 1
          /\ j - 1 \in 1 .. n /\ (j - 1) - 1 = j - 2
      BY <1>5, <1>8, <2>4
    <3>2. x[j] = s[j - 1]
      BY <1>10, <1>12, <3>1
    <3>3. h.cells[j - 1] = r.cells[(j - 1) - 1]
      BY <1>4, <2>1, <3>1
    <3> QED BY <1>5, <2>1, <3>1, <3>2, <3>3
  <2> QED BY <1>5, <1>8, <2>2, <2>3, <2>4
<1>14. Len(t) = Len(x) /\ Len(t) = n + 1
  BY <1>4, <1>6, <1>12
<1>15. t = x
  BY <1>6, <1>12, <1>13, <1>14, SeqEqual
<1> QED BY <1>2, <1>5, <1>15 DEF s, t, r, u, v, w, x

\* osc_array_remove_at takes out and returns the element at i.
LEMMA RemoveIsCut ==
  ASSUME IInv, pc' = "ready", NEW a \in Usable, NEW i \in Indices, osc_array_remove_at(a, i)
  PROVE  LET s == Contents(arrs[a])
         IN  /\ Contents(arrs'[a]) = SubSeq(s, 1, i) \o SubSeq(s, i + 2, Len(s))
             /\ ret' = s[i + 1]
<1> DEFINE r == arrs[a]
           h == Removed(r, i)
           S == Written(r) \cup Written(h)
           n == r.len
<1>1. i \in 0 .. n - 1 /\ arrs' = [arrs EXCEPT ![a] = h] /\ ret' = r.cells[i]
  BY DEF osc_array_remove_at, Panics, Removed
<1>2. arrs'[a] = h
  BY <1>1, UpdatedArray
<1>3. ArrayOK(r, arenas)
  BY WrittenFacts
<1>4. /\ ArrayOK(h, arenas) /\ h.len = n - 1
      /\ \A j \in 0 .. n - 2 : h.cells[j] = IF j < i THEN r.cells[j] ELSE r.cells[j + 1]
  BY <1>1, <1>3, RemovedFacts
<1> HIDE DEF h, r
<1> DEFINE s == Contents(r)
           t == Contents(h)
           u == SubSeq(s, 1, i)
           v == SubSeq(s, i + 2, n)
           x == u \o v
<1>5. n \in Nat /\ s \in Seq(S) /\ Len(s) = n /\ \A j \in 1 .. n : s[j] = r.cells[j - 1]
  BY <1>3, ContentsFacts
<1>6. t \in Seq(S) /\ Len(t) = h.len /\ \A j \in 1 .. h.len : t[j] = h.cells[j - 1]
  BY <1>4, ContentsFacts
<1> HIDE DEF s, t, S, n
<1>7. i \in Nat /\ i < n /\ \A j \in 1 .. n : s[j] \in S
  BY <1>1, <1>5, ElementOfSeq
<1>8. u \in Seq(S) /\ Len(u) = i /\ \A j \in 1 .. i : u[j] = s[j]
  <2>1. \A j \in 1 .. i : s[j] \in S
    BY <1>5, <1>7
  <2>2. /\ u \in Seq(S) /\ Len(u) = IF 1 <= i THEN i - 1 + 1 ELSE 0
        /\ \A j \in 1 .. i - 1 + 1 : u[j] = s[1 + j - 1]
    BY <1>7, <2>1, SubSeqProperties
  <2> HIDE DEF u
  <2> QED BY <1>7, <2>2
<1>9. v \in Seq(S) /\ Len(v) = n - i - 1 /\ \A j \in 1 .. n - i - 1 : v[j] = s[i + 1 + j]
  <2>1. \A j \in i + 2 .. n : s[j] \in S
    BY <1>5, <1>7
  <2>2. /\ v \in Seq(S) /\ Len(v) = IF i + 2 <= n THEN n - (i + 2) + 1 ELSE 0
        /\ \A j \in 1 .. n - (i + 2) + 1 : v[j] = s[i + 2 + j - 1]
    BY <1>5, <1>7, <2>1, SubSeqProperties
  <2> HIDE DEF v
  <2>3. n - (i + 2) + 1 = n - i - 1 /\ (i + 2 <= n \/ n - i - 1 = 0)
    BY <1>5, <1>7
  <2>4. Len(v) = n - i - 1
    BY <1>5, <1>7, <2>2, <2>3
  <2>5. ASSUME NEW j \in 1 .. n - i - 1
        PROVE  v[j] = s[i + 1 + j]
    <3>1. i + 2 + j - 1 = i + 1 + j
      BY <1>5, <1>7
    <3>2. v[j] = s[i + 2 + j - 1]
      BY <2>2, <2>3
    <3> QED BY <3>1, <3>2
  <2> QED BY <2>2, <2>4, <2>5
<1> HIDE DEF u, v
<1>10. x \in Seq(S) /\ Len(x) = n - 1
       /\ \A j \in 1 .. n - 1 : x[j] = IF j <= i THEN u[j] ELSE v[j - i]
  <2>1. /\ x \in Seq(S) /\ Len(x) = Len(u) + Len(v)
        /\ \A j \in 1 .. Len(u) + Len(v) :
             x[j] = IF j <= Len(u) THEN u[j] ELSE v[j - Len(u)]
    BY <1>8, <1>9, ConcatProperties
  <2>2. Len(u) + Len(v) = n - 1
    BY <1>5, <1>7, <1>8, <1>9
  <2> HIDE DEF x
  <2> QED BY <1>8, <2>1, <2>2
<1> HIDE DEF x
<1>11. ASSUME NEW j \in 1 .. n - 1
       PROVE  t[j] = x[j]
  <2>1. t[j] = h.cells[j - 1] /\ j - 1 \in 0 .. n - 2
    BY <1>4, <1>5, <1>6
  <2>2. CASE j <= i
    <3>1. j - 1 < i /\ j \in 1 .. n /\ j \in 1 .. i
      BY <1>5, <1>7, <2>2
    <3>2. x[j] = s[j]
      BY <1>8, <1>10, <2>2, <3>1
    <3>3. h.cells[j - 1] = r.cells[j - 1]
      BY <1>4, <2>1, <3>1
    <3> QED BY <1>5, <2>1, <3>1, <3>2, <3>3
  <2>3. CASE j > i
    <3>1. /\ ~(j - 1 < i) /\ ~(j <= i) /\ j - i \in 1 .. n - i - 1
          /\ i + 1 + (j - i) = j + 1 /\ j + 1 \in 1 .. n /\ (j + 1) - 1 = (j - 1) + 1
      BY <1>5, <1>7, <2>3
    <3>2. x[j] = s[j + 1]
      BY <1>9, <1>10, <3>1
    <3>3. h.cells[j - 1] = r.cells[(j - 1) + 1]
      BY <1>4, <2>1, <3>1
    <3> QED BY <1>5, <2>1, <3>1, <3>2, <3>3
  <2> QED BY <1>5, <1>7, <2>2, <2>3
<1>12. Len(t) = Len(x) /\ Len(t) = n - 1
  BY <1>4, <1>6, <1>10
<1>13. t = x
  BY <1>6, <1>10, <1>11, <1>12, SeqEqual
<1>14. s[i + 1] = r.cells[i]
  <2>1. i + 1 \in 1 .. n /\ (i + 1) - 1 = i
    BY <1>5, <1>7
  <2> QED BY <1>5, <2>1
<1> QED BY <1>1, <1>2, <1>5, <1>13, <1>14 DEF s, t, r, u, v, x

\* osc_array_extend concatenates, also an array with itself.
LEMMA ExtendIsConcat ==
  ASSUME IInv, pc' = "ready", NEW a \in Usable, NEW b \in Usable, osc_array_extend(a, b)
  PROVE  Contents(arrs'[a]) = Contents(arrs[a]) \o Contents(arrs[b])
<1> DEFINE r == arrs[a]
           q == arrs[b]
           h == Extended(r, q)
           S == Written(r) \cup Written(q) \cup Written(h)
           n == r.len
           k == q.len
<1>1. \/ k = 0 /\ arrs' = [arrs EXCEPT ![a] = r]
      \/ k # 0 /\ n <= IntMax - k /\ arrs' = [arrs EXCEPT ![a] = h]
  BY DEF osc_array_extend, Panics, Updates, Extended
<1>2. ArrayOK(r, arenas) /\ ArrayOK(q, arenas)
  BY WrittenFacts
<1>3. Written(r) \subseteq S /\ Written(q) \subseteq S /\ Written(h) \subseteq S
  OBVIOUS
<1> HIDE DEF S
<1> DEFINE s == Contents(r)
           z == Contents(q)
           x == s \o z
<1>4. n \in Nat /\ s \in Seq(S) /\ Len(s) = n /\ \A j \in 1 .. n : s[j] = r.cells[j - 1]
  BY <1>2, <1>3, ContentsFacts
<1>5. k \in Nat /\ z \in Seq(S) /\ Len(z) = k /\ \A j \in 1 .. k : z[j] = q.cells[j - 1]
  BY <1>2, <1>3, ContentsFacts
<1>6. CASE k = 0 /\ arrs' = [arrs EXCEPT ![a] = r]
  <2>1. arrs'[a] = r
    BY <1>6, UpdatedArray
  <2>2. z = <<>>
    BY <1>5, <1>6, EmptySeq
  <2>3. s \o <<>> = s
    BY <1>4, ConcatEmptySeq
  <2> QED BY <2>1, <2>2, <2>3
<1>7. CASE k # 0 /\ n <= IntMax - k /\ arrs' = [arrs EXCEPT ![a] = h]
  <2> DEFINE t == Contents(h)
  <2>1. arrs'[a] = h
    BY <1>7, UpdatedArray
  <2>2. /\ ArrayOK(h, arenas) /\ h.len = n + k
        /\ \A j \in 0 .. n + k - 1 : h.cells[j] = IF j < n THEN r.cells[j]
                                                  ELSE q.cells[j - n]
    BY <1>2, <1>7, ExtendedFacts
  <2> HIDE DEF h, r, q
  <2>3. t \in Seq(S) /\ Len(t) = h.len /\ \A j \in 1 .. h.len : t[j] = h.cells[j - 1]
    BY <1>3, <2>2, ContentsFacts
  <2> HIDE DEF s, z, n, k, t
  <2>4. x \in Seq(S) /\ Len(x) = n + k
        /\ \A j \in 1 .. n + k : x[j] = IF j <= n THEN s[j] ELSE z[j - n]
    BY <1>4, <1>5, ConcatProperties
  <2> HIDE DEF x
  <2>5. ASSUME NEW j \in 1 .. n + k
        PROVE  t[j] = x[j]
    <3>1. t[j] = h.cells[j - 1] /\ j - 1 \in 0 .. n + k - 1
      BY <1>4, <1>5, <2>2, <2>3
    <3>2. CASE j <= n
      <4>1. j - 1 < n /\ j \in 1 .. n
        BY <1>4, <1>5, <3>2
      <4> QED BY <1>4, <2>2, <2>4, <3>1, <3>2, <4>1
    <3>3. CASE j > n
      <4>1. ~(j - 1 < n) /\ ~(j <= n) /\ j - n \in 1 .. k /\ (j - n) - 1 = (j - 1) - n
        BY <1>4, <1>5, <3>3
      <4>2. h.cells[j - 1] = q.cells[(j - 1) - n]
        BY <2>2, <3>1, <4>1
      <4>3. x[j] = z[j - n]
        BY <2>4, <4>1
      <4> QED BY <1>5, <3>1, <4>1, <4>2, <4>3
    <3> QED BY <1>4, <1>5, <3>2, <3>3
  <2>6. Len(t) = Len(x) /\ Len(t) = n + k
    BY <2>2, <2>3, <2>4
  <2>7. t = x
    BY <2>3, <2>4, <2>5, <2>6, SeqEqual
  <2> QED BY <2>1, <2>7 DEF t, x, s, z, r, q
<1> QED BY <1>1, <1>6, <1>7

\* Every push, insert, remove_at and extend that does not panic is the
\* sequence operation of its name, also when the buffer was moved on the way
\* and when an array is appended to itself.
THEOREM MutatorsRefineSequences == Spec => MutatorsAreSequenceOps
<1> DEFINE A == pc' = "ready" =>
     \A a \in Usable :
       LET s == Contents(arrs[a])
           t == Contents(arrs'[a])
       IN
       /\ \A e \in ElemsOf(arrs[a].backed) :
            /\ osc_array_push(a, e) => t = Append(s, e)
            /\ \A i \in Indices :
                 osc_array_insert(a, i, e) =>
                   t = SubSeq(s, 1, i) \o <<e>> \o SubSeq(s, i + 1, Len(s))
       /\ \A i \in Indices :
            osc_array_remove_at(a, i) =>
              /\ t = SubSeq(s, 1, i) \o SubSeq(s, i + 2, Len(s))
              /\ ret' = s[i + 1]
       /\ \A b \in Usable :
            osc_array_extend(a, b) => t = s \o Contents(arrs[b])
<1>1. IInv => A
  <2> SUFFICES ASSUME IInv, pc' = "ready", NEW a \in Usable
               PROVE
       LET s == Contents(arrs[a])
           t == Contents(arrs'[a])
       IN
       /\ \A e \in ElemsOf(arrs[a].backed) :
            /\ osc_array_push(a, e) => t = Append(s, e)
            /\ \A i \in Indices :
                 osc_array_insert(a, i, e) =>
                   t = SubSeq(s, 1, i) \o <<e>> \o SubSeq(s, i + 1, Len(s))
       /\ \A i \in Indices :
            osc_array_remove_at(a, i) =>
              /\ t = SubSeq(s, 1, i) \o SubSeq(s, i + 2, Len(s))
              /\ ret' = s[i + 1]
       /\ \A b \in Usable :
            osc_array_extend(a, b) => t = s \o Contents(arrs[b])
    OBVIOUS
  <2> QED BY PushIsAppend, InsertIsSplice, RemoveIsCut, ExtendIsConcat
<1>2. IInv /\ [Next]_vars => [A]_vars
  BY <1>1
<1> HIDE DEF A
<1>3. Spec => [][A]_vars
  BY <1>2, IInvHolds, PTL DEF Spec
<1> QED BY <1>3 DEF A, MutatorsAreSequenceOps
=============================================================================
