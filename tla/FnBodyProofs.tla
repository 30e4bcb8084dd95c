---------------------------- MODULE FnBodyProofs ----------------------------
(***************************************************************************)
(* Proofs about function bodies (FnBody.tla), for every set of statements, *)
(* every bound on the body and every number of loop rounds.                *)
(*                                                                         *)
(* Deferred calls are listed from the text of the body, while they are     *)
(* registered by running it.  The two agree because a statement of the     *)
(* function's own block is passed exactly once, which needs the position   *)
(* of every open block in the text: the frames are exactly the blocks that *)
(* the text has opened and not closed before the current statement.        *)
(***************************************************************************)
EXTENDS FnBody, SequenceTheorems, FiniteSetTheorems, WellFoundedInduction, TLAPS

\* A set of numbers that is not empty has a least one.
LEMMA LeastNat ==
  ASSUME NEW T \in SUBSET Nat, T # {}
  PROVE  \E least \in T : \A y \in T : least <= y
<1> DEFINE R == OpToRel(<, Nat)
<1>1. \E least \in T : \A y \in T : ~(<<y, least>> \in R)
  <2>1. IsWellFoundedOn(R, Nat)
    BY NatLessThanWellFounded
  <2> HIDE DEF R
  <2> QED BY <2>1, WFMin
<1>2. PICK least \in T : \A y \in T : ~(<<y, least>> \in R)
  BY <1>1
<1>3. ASSUME NEW y \in T
      PROVE  least <= y
  <2>1. least \in Nat /\ y \in Nat
    BY <1>2
  <2>2. ~(y < least)
    <3>1. <<y, least>> \in Nat \X Nat
      BY <2>1
    <3> QED BY <1>2, <3>1 DEF OpToRel
  <2> HIDE <1>2
  <2> QED BY <2>1, <2>2
<1> QED BY <1>3

-----------------------------------------------------------------------------
\* A body is written block by block: it never closes more than it opened, and
\* break and continue are inside a loop.
BodyOK ==
  /\ body \in Seq(AllStmts)
  /\ \A p \in 0 .. Len(body) : Depth(body, p) >= 0
  /\ \A p \in 1 .. Len(body) : body[p] \in {"break", "continue"} =>
       \E q \in OpenAt(body, p - 1) : body[q] = "loop"
  /\ pc # "write" => Depth(body, Len(body)) = 0

\* The frames are the blocks that are open before statement p, outermost first.
Positioned(fs, p) ==
  /\ fs \in Seq([at : Nat, arena : Nat])
  /\ p \in 1 .. Len(body) + 1
  /\ Depth(body, p - 1) = Len(fs)
  /\ \A i \in 1 .. Len(fs) :
       /\ fs[i].at \in 1 .. p - 1
       /\ body[fs[i].at] \in Opening
       /\ Depth(body, fs[i].at) = i
       /\ \A r \in fs[i].at .. p - 1 : Depth(body, r) >= i

\* What the text says of the calls deferred in the function's own block.
OwnDefers(p) == {d \in 1 .. p - 1 : body[d] = "defer" /\ Depth(body, d) = 0}

\* They were executed in the order of the text, each once.
RegisteredOK(reg, p) ==
  /\ reg \in Seq([defer : Nat, arg : Nat])
  /\ {reg[i].defer : i \in OwnLevel(reg)} = OwnDefers(p)
  /\ \A i, j \in OwnLevel(reg) : i < j => reg[i].defer < reg[j].defer

\* No exit of the C back end goes on after its deferred calls.
Clean == backend = "c" => ~\E p \in DOMAIN body : body[p] = "return_unit"

\* The deferred calls made and those to do, as one list.
Planned(i) == IF i <= Len(ran) THEN ran[i].defer ELSE todo[i - Len(ran)]
Plan == 1 .. Len(ran) + Len(todo)

PlanOK ==
  /\ {Planned(i) : i \in Plan} = {d \in 1 .. pos - 1 : body[d] = "defer"}
  /\ \A i, j \in Plan : i < j => Planned(i) > Planned(j)

\* Where the body is left: at its end, or at a statement that leaves it.
Leaving == {"return", "return_unit", "try"}
ExitPlace(how) ==
  \/ how = "end" /\ pos = Len(body) + 1
  \/ pos <= Len(body) /\ body[pos] \in Leaving

ExitOK ==
  /\ ran \in Seq([defer : Nat, arg : Nat]) /\ todo \in Seq(Nat) /\ x \in Nat /\ ret \in Nat
  /\ pc = "write" => frames = << >> /\ pos = 1 /\ registered = << >> /\ arenas = << >>
  /\ pc \in {"write", "run"} /\ Clean => ran = << >>
  /\ pc \in {"exit", "done"} /\ ExitKept => PlanOK /\ ret = x - Len(ran)
  /\ pc \in {"exit", "done"} /\ exit = "none" => ~Clean
  /\ pc = "exit" /\ exit = "none" => pos <= Len(body) /\ body[pos] = "return_unit"
  /\ pc = "exit" => ExitPlace(exit)
  /\ pc = "done" => todo = << >> /\ frames = << >>

\* The text has a jump out of the block that opens at q.
Escapable(q) == \E p \in DOMAIN body : JumpsOutOf(p, q)

\* An open frame that holds an arena is the block the arena was created for,
\* and no other frame holds it.
Holds(f, made) == /\ f.arena \in DOMAIN made
                  /\ made[f.arena] = f.at
                  /\ body[f.at] = "arena"

ArenasOK ==
  /\ arenas \in Seq(Nat) /\ destroyed \subseteq DOMAIN arenas
  /\ ArenasFreed
  /\ \A i \in 1 .. Len(frames) : frames[i].arena # 0 => Holds(frames[i], arenas)
  /\ \A i, j \in 1 .. Len(frames) :
       frames[i].arena = frames[j].arena /\ frames[i].arena # 0 => i = j

ControlOK ==
  /\ pc \in {"write", "run", "exit", "done"} /\ backend \in {"c", "native"} /\ unit \in BOOLEAN
  /\ exit \in {"none", "end", "return", "try"} /\ iters \in 0 .. MaxIters
  /\ pc \in {"run", "exit"} => Positioned(frames, pos)
  /\ pos \in 1 .. Len(body) + 1 /\ RegisteredOK(registered, pos)

IInv == BodyOK /\ ControlOK /\ ExitOK /\ ArenasOK
-----------------------------------------------------------------------------
\* The depth after a statement, from the one before it.
LEMMA DepthStep ==
  ASSUME NEW b, NEW p \in Nat
  PROVE  /\ Depth(b, p) \in Int
         /\ b[p + 1] \in Opening => Depth(b, p + 1) = Depth(b, p) + 1
         /\ b[p + 1] = "end" => Depth(b, p + 1) = Depth(b, p) - 1
         /\ b[p + 1] \notin Opening \cup {"end"} => Depth(b, p + 1) = Depth(b, p)
<1> DEFINE O(n) == {q \in 1 .. n : b[q] \in Opening}
           E(n) == {q \in 1 .. n : b[q] = "end"}
<1>1. 1 .. p + 1 = (1 .. p) \cup {p + 1} /\ p + 1 \notin 1 .. p
  OBVIOUS
<1>2. IsFiniteSet(O(p)) /\ IsFiniteSet(E(p))
  <2>1. IsFiniteSet(1 .. p)
    BY FS_Interval
  <2>2. O(p) \in SUBSET (1 .. p) /\ E(p) \in SUBSET (1 .. p)
    OBVIOUS
  <2> QED BY <2>1, <2>2, FS_Subset
<1>3. Cardinality(O(p)) \in Nat /\ Cardinality(E(p)) \in Nat
  BY <1>2, FS_CardinalityType
<1>4. b[p + 1] \in Opening => Cardinality(O(p + 1)) = Cardinality(O(p)) + 1
  <2> SUFFICES ASSUME b[p + 1] \in Opening
               PROVE  Cardinality(O(p + 1)) = Cardinality(O(p)) + 1
    OBVIOUS
  <2>1. O(p + 1) = O(p) \cup {p + 1} /\ p + 1 \notin O(p)
    BY <1>1
  <2> QED BY <1>2, <2>1, FS_AddElement
<1>5. b[p + 1] = "end" => Cardinality(E(p + 1)) = Cardinality(E(p)) + 1
  <2> SUFFICES ASSUME b[p + 1] = "end"
               PROVE  Cardinality(E(p + 1)) = Cardinality(E(p)) + 1
    OBVIOUS
  <2>1. E(p + 1) = E(p) \cup {p + 1} /\ p + 1 \notin E(p)
    BY <1>1
  <2> QED BY <1>2, <2>1, FS_AddElement
<1>6. b[p + 1] \notin Opening => O(p + 1) = O(p)
  BY <1>1
<1>7. b[p + 1] # "end" => E(p + 1) = E(p)
  BY <1>1
<1>8. "end" \notin Opening
  BY DEF Opening
<1>9. /\ Depth(b, p) = Cardinality(O(p)) - Cardinality(E(p))
      /\ Depth(b, p + 1) = Cardinality(O(p + 1)) - Cardinality(E(p + 1))
  BY DEF Depth, Opens, Ends
<1> HIDE DEF O, E
<1> QED BY <1>3, <1>4, <1>5, <1>6, <1>7, <1>8, <1>9

\* The same, seen from the statement after: only "end" takes away from it.
LEMMA DepthBack ==
  ASSUME NEW b, NEW q \in Nat \ {0}
  PROVE  /\ q - 1 \in Nat /\ Depth(b, q) \in Int /\ Depth(b, q - 1) \in Int
         /\ Depth(b, q) >= Depth(b, q - 1) - 1
         /\ Depth(b, q) < Depth(b, q - 1) => b[q] = "end"
         /\ b[q] \in Opening => Depth(b, q) = Depth(b, q - 1) + 1
         /\ b[q] = "end" => Depth(b, q) = Depth(b, q - 1) - 1
         /\ b[q] \notin Opening \cup {"end"} => Depth(b, q) = Depth(b, q - 1)
<1>1. q - 1 \in Nat /\ (q - 1) + 1 = q /\ q \in Nat
  OBVIOUS
<1>2. Depth(b, q - 1) \in Int /\ Depth(b, q) \in Int
  BY <1>1, DepthStep
<1>3. /\ b[q] \in Opening => Depth(b, q) = Depth(b, q - 1) + 1
      /\ b[q] = "end" => Depth(b, q) = Depth(b, q - 1) - 1
      /\ b[q] \notin Opening \cup {"end"} => Depth(b, q) = Depth(b, q - 1)
  BY <1>1, DepthStep
<1> QED BY <1>1, <1>2, <1>3

\* Before the first statement nothing is open.
LEMMA DepthZero ==
  ASSUME NEW b
  PROVE  Depth(b, 0) = 0
<1>1. {q \in 1 .. 0 : b[q] \in Opening} = {} /\ {q \in 1 .. 0 : b[q] = "end"} = {}
  OBVIOUS
<1> QED BY <1>1, FS_EmptySet DEF Depth, Opens, Ends

\* The depth is a matter of the statements so far.
LEMMA DepthPrefix ==
  ASSUME NEW b, NEW c, NEW p \in Nat, \A q \in 1 .. p : b[q] = c[q]
  PROVE  Depth(b, p) = Depth(c, p)
<1>1. {q \in 1 .. p : b[q] \in Opening} = {q \in 1 .. p : c[q] \in Opening}
  OBVIOUS
<1>2. {q \in 1 .. p : b[q] = "end"} = {q \in 1 .. p : c[q] = "end"}
  OBVIOUS
<1> QED BY <1>1, <1>2 DEF Depth, Opens, Ends

\* A block that is opened in a whole body is closed in it.
LEMMA EndExists ==
  ASSUME body \in Seq(AllStmts), Depth(body, Len(body)) = 0,
         NEW p \in 1 .. Len(body), Depth(body, p) >= 1
  PROVE  /\ EndOf(p) \in p + 1 .. Len(body)
         /\ Depth(body, EndOf(p)) = Depth(body, p) - 1
         /\ body[EndOf(p)] = "end"
         /\ \A r \in p .. EndOf(p) - 1 : Depth(body, r) >= Depth(body, p)
<1> DEFINE D(r) == Depth(body, r)
           T == {q \in p .. Len(body) : D(q) < D(p)}
<1>0. Len(body) \in Nat
  BY LenProperties
<1>1. \A r \in Nat : D(r) \in Int
  BY DepthStep
<1>d. Depth(body, Len(body)) = D(Len(body)) /\ Depth(body, p) = D(p)
  OBVIOUS
<1> HIDE DEF D
<1>3. Len(body) \in T /\ T \in SUBSET Nat
  BY <1>0, <1>d, <1>1
<1>4. PICK q \in T : \A r \in T : q <= r
  BY <1>3, LeastNat
<1>5. q \in p + 1 .. Len(body) /\ D(q) < D(p)
  BY <1>0, <1>1, <1>4
<1>6. \A r \in p .. q - 1 : D(r) >= D(p)
  BY <1>0, <1>1, <1>4, <1>5
<1>7. D(q) = D(p) - 1 /\ body[q] = "end"
  <2>1. q - 1 \in p .. q - 1 /\ q \in Nat \ {0} /\ q - 1 \in Nat
    BY <1>0, <1>5
  <2>2. D(q - 1) >= D(p) /\ D(q) \in Int /\ D(q - 1) \in Int /\ D(p) \in Int
    BY <1>1, <1>6, <2>1
  <2>3. D(q) >= D(q - 1) - 1 /\ (D(q) < D(q - 1) => body[q] = "end")
    BY <2>1, DepthBack DEF D
  <2>4. D(q) < D(q - 1)
    BY <1>5, <2>2
  <2> QED BY <1>5, <2>2, <2>3, <2>4
<1>8. /\ EndOf(p) \in p .. Len(body) /\ D(EndOf(p)) = D(p) - 1
      /\ \A r \in p .. EndOf(p) - 1 : D(r) >= D(p)
  <2>1. q \in p .. Len(body) /\ D(q) = D(p) - 1
    BY <1>0, <1>5, <1>7
  <2> QED BY <2>1, <1>6 DEF EndOf, D
<1>9. EndOf(p) \in p + 1 .. Len(body)
  BY <1>0, <1>1, <1>8
<1>10. body[EndOf(p)] = "end"
  <2> DEFINE e == EndOf(p)
  <2>1. e \in p + 1 .. Len(body) /\ D(e) = D(p) - 1 /\ \A r \in p .. e - 1 : D(r) >= D(p)
    BY <1>8, <1>9
  <2> HIDE DEF e
  <2>2. e - 1 \in p .. e - 1 /\ e \in Nat \ {0} /\ e - 1 \in Nat
    BY <1>0, <2>1
  <2>3. D(e) < D(e - 1)
    BY <1>1, <2>1, <2>2
  <2>4. body[e] = "end"
    BY <2>2, <2>3, DepthBack DEF D
  <2> QED BY <2>4 DEF e
<1> QED BY <1>8, <1>9, <1>10 DEF D
-----------------------------------------------------------------------------
Descending(s) == \A i, j \in DOMAIN s : i < j => s[i] > s[j]

\* A listing and one element more, greater than the others.
LEMMA ListingGrows ==
  ASSUME NEW D \in SUBSET Nat, IsFiniteSet(D), NEW s \in Listings(D), Descending(s),
         NEW e \in Nat, \A d \in D : d < e
  PROVE  \E t \in Listings(D \cup {e}) : Descending(t)
<1> DEFINE n == Cardinality(D)
           t == [i \in 1 .. n + 1 |-> IF i = 1 THEN e ELSE s[i - 1]]
<1>1. n \in Nat /\ Cardinality(D \cup {e}) = n + 1
  BY FS_CardinalityType, FS_AddElement
<1> HIDE DEF n
<1>2. /\ s \in [1 .. n -> D] /\ \A d \in D : \E i \in 1 .. n : s[i] = d
      /\ \A i, j \in 1 .. n : s[i] = s[j] => i = j
  BY DEF n, Listings, Bijection, Injection, Surjection, IsInjective
<1>3. \A i \in 1 .. n + 1 : i = 1 \/ i - 1 \in 1 .. n
  BY <1>1
<1>4. t \in [1 .. n + 1 -> D \cup {e}]
  BY <1>2, <1>3
<1>5. ASSUME NEW i \in 1 .. n + 1, NEW j \in 1 .. n + 1, i < j
      PROVE  t[i] > t[j]
  <2>1. j - 1 \in 1 .. n /\ t[j] = s[j - 1] /\ s[j - 1] \in D /\ j # 1
    BY <1>1, <1>2, <1>5
  <2>2. CASE i = 1
    BY <2>1, <2>2
  <2>3. CASE i # 1
    <3>1. i - 1 \in 1 .. n /\ t[i] = s[i - 1] /\ i - 1 < j - 1
      BY <1>1, <1>5, <2>3
    <3>2. DOMAIN s = 1 .. n
      BY <1>2
    <3>3. s[i - 1] > s[j - 1]
      BY <2>1, <3>1, <3>2 DEF Descending
    <3> QED BY <2>1, <3>1, <3>3
  <2> QED BY <2>2, <2>3
<1>6. ASSUME NEW d \in D \cup {e}
      PROVE  \E i \in 1 .. n + 1 : t[i] = d
  <2>1. CASE d = e
    BY <1>1, <2>1
  <2>2. CASE d \in D
    <3>1. PICK i \in 1 .. n : s[i] = d
      BY <1>2, <2>2
    <3>2. i + 1 \in 1 .. n + 1 /\ i + 1 # 1 /\ (i + 1) - 1 = i
      BY <1>1
    <3>3. t[i + 1] = d
      BY <3>1, <3>2
    <3> QED BY <3>2, <3>3
  <2> QED BY <2>1, <2>2
<1>7. DOMAIN t = 1 .. n + 1 /\ \A i \in 1 .. n + 1 : t[i] \in Nat
  BY <1>4
<1> HIDE DEF t
<1>8. \A i, j \in 1 .. n + 1 : t[i] = t[j] => i = j
  <2> SUFFICES ASSUME NEW i \in 1 .. n + 1, NEW j \in 1 .. n + 1, t[i] = t[j], i # j
               PROVE  FALSE
    OBVIOUS
  <2>1. i < j \/ j < i
    BY <1>1
  <2> QED BY <1>5, <1>7, <2>1
<1>9. t \in Listings(D \cup {e})
  BY <1>1, <1>4, <1>6, <1>8 DEF Listings, Bijection, Injection, Surjection, IsInjective
<1>10. Descending(t)
  BY <1>5, <1>7 DEF Descending
<1> QED BY <1>9, <1>10

DefersUpTo(p) == {d \in 1 .. p : body[d] = "defer"}

\* The defers of the text so far can be listed last first.
LEMMA ListingExists ==
  ASSUME NEW p \in Nat
  PROVE  \E s \in Listings(DefersUpTo(p)) : Descending(s)
<1> DEFINE T == {n \in Nat : ~\E s \in Listings(DefersUpTo(n)) : Descending(s)}
<1>1. T \in SUBSET Nat
  OBVIOUS
<1>2. ASSUME T # {} PROVE FALSE
  <2>1. PICK n \in T : \A k \in T : n <= k
    BY <1>1, <1>2, LeastNat
  <2>2. CASE n = 0
    <3>1. DefersUpTo(0) = {} /\ Cardinality({}) = 0
      BY FS_EmptySet DEF DefersUpTo
    <3> DEFINE s == [i \in 1 .. 0 |-> 0]
    <3>2. s \in Listings({}) /\ Descending(s)
      BY <3>1 DEF Listings, Bijection, Injection, Surjection, IsInjective, Descending
    <3> QED BY <2>1, <2>2, <3>1, <3>2
  <2>3. CASE n # 0
    <3>1. n \in Nat /\ n - 1 \in Nat /\ n - 1 < n
      BY <1>1, <2>3
    <3>2. PICK s \in Listings(DefersUpTo(n - 1)) : Descending(s)
      BY <2>1, <3>1
    <3>3. 1 .. n = (1 .. n - 1) \cup {n}
      BY <3>1
    <3>4. CASE body[n] = "defer"
      <4>1. DefersUpTo(n) = DefersUpTo(n - 1) \cup {n}
        BY <3>3, <3>4 DEF DefersUpTo
      <4>2. /\ DefersUpTo(n - 1) \in SUBSET Nat /\ IsFiniteSet(DefersUpTo(n - 1))
            /\ \A d \in DefersUpTo(n - 1) : d < n
        <5>1. IsFiniteSet(1 .. n - 1)
          BY <3>1, FS_Interval
        <5>2. DefersUpTo(n - 1) \in SUBSET (1 .. n - 1)
          BY DEF DefersUpTo
        <5>3. IsFiniteSet(DefersUpTo(n - 1))
          BY <5>1, <5>2, FS_Subset
        <5> QED BY <3>1, <5>2, <5>3
      <4>3. \E t \in Listings(DefersUpTo(n - 1) \cup {n}) : Descending(t)
        BY <3>1, <3>2, <4>2, ListingGrows
      <4> QED BY <2>1, <4>1, <4>3
    <3>5. CASE body[n] # "defer"
      <4>1. DefersUpTo(n) = DefersUpTo(n - 1)
        BY <3>3, <3>5 DEF DefersUpTo
      <4> QED BY <2>1, <3>2, <4>1
    <3> QED BY <3>4, <3>5
  <2> QED BY <2>2, <2>3
<1> QED BY <1>2

\* What an exit at statement p expands.
LEMMA DeferredFacts ==
  ASSUME body \in Seq(AllStmts), NEW p \in 0 .. Len(body)
  PROVE  /\ Deferred(p) \in Seq(Nat)
         /\ {Deferred(p)[i] : i \in 1 .. Len(Deferred(p))} = DefersUpTo(p)
         /\ \A i, j \in 1 .. Len(Deferred(p)) : i < j => Deferred(p)[i] > Deferred(p)[j]
<1>0. Len(body) \in Nat /\ p \in Nat /\ DOMAIN body = 1 .. Len(body)
  BY LenProperties
<1>1. Defers(SubSeq(body, 1, p)) = DefersUpTo(p)
  <2>1. \A i \in 1 .. p : body[i] \in AllStmts
    BY <1>0, LenProperties
  <2>2. Len(SubSeq(body, 1, p)) = p /\ \A i \in 1 .. p : SubSeq(body, 1, p)[i] = body[i]
    BY <1>0, <2>1, SubSeqProperties
  <2> QED BY <2>2 DEF Defers, DefersUpTo
<1>2. Deferred(p) = CHOOSE s \in Listings(DefersUpTo(p)) : Descending(s)
  BY <1>1 DEF Deferred, Descending
<1>3. Deferred(p) \in Listings(DefersUpTo(p)) /\ Descending(Deferred(p))
  BY <1>0, <1>2, ListingExists
<1> DEFINE t == Deferred(p)
           n == Cardinality(DefersUpTo(p))
<1> HIDE DEF t
<1>4. n \in Nat
  <2>1. IsFiniteSet(1 .. p) /\ DefersUpTo(p) \in SUBSET (1 .. p)
    BY <1>0, FS_Interval DEF DefersUpTo
  <2> QED BY <2>1, FS_Subset, FS_CardinalityType
<1>5. /\ t \in [1 .. n -> DefersUpTo(p)]
      /\ \A d \in DefersUpTo(p) : \E i \in 1 .. n : t[i] = d
  BY <1>3 DEF t, Listings, Bijection, Injection, Surjection
<1> HIDE DEF n
<1>6. DefersUpTo(p) \in SUBSET Nat
  BY <1>0 DEF DefersUpTo
<1>7. t \in [1 .. n -> Nat]
  BY <1>5, <1>6
<1>8. t \in Seq(Nat)
  BY <1>4, <1>7, SeqDef
<1>9. Len(t) \in Nat /\ 1 .. Len(t) = 1 .. n
  BY <1>7, <1>8, LenProperties
<1>10. {t[i] : i \in 1 .. Len(t)} = DefersUpTo(p)
  BY <1>5, <1>9
<1>11. \A i, j \in 1 .. Len(t) : i < j => t[i] > t[j]
  BY <1>3, <1>7, <1>9 DEF Descending, t
<1> QED BY <1>8, <1>10, <1>11 DEF t
-----------------------------------------------------------------------------
FrameSet == [at : Nat, arena : Nat]

\* What Positioned says, as facts about numbers.
LEMMA PositionFacts ==
  ASSUME body \in Seq(AllStmts), NEW fs, NEW p, Positioned(fs, p)
  PROVE  /\ Len(body) \in Nat /\ Len(fs) \in Nat /\ p \in Nat \ {0} /\ p <= Len(body) + 1
         /\ fs \in [1 .. Len(fs) -> FrameSet] /\ DOMAIN fs = 1 .. Len(fs)
         /\ \A i \in 1 .. Len(fs) : fs[i].at \in Nat \ {0} /\ fs[i].at < p
<1>1. Len(body) \in Nat
  BY LenProperties
<1>2. fs \in Seq(FrameSet)
  BY DEF Positioned, FrameSet
<1>3. Len(fs) \in Nat /\ fs \in [1 .. Len(fs) -> FrameSet] /\ DOMAIN fs = 1 .. Len(fs)
  BY <1>2, LenProperties
<1>4. p \in 1 .. Len(body) + 1 /\ \A i \in 1 .. Len(fs) : fs[i].at \in 1 .. p - 1
  BY DEF Positioned
<1> QED BY <1>1, <1>3, <1>4

\* A statement that neither opens nor closes a block.
LEMMA StepOn ==
  ASSUME body \in Seq(AllStmts), NEW fs, NEW p, Positioned(fs, p), p <= Len(body),
         body[p] \notin Opening \cup {"end"}
  PROVE  Positioned(fs, p + 1)
<1>1. /\ Len(body) \in Nat /\ Len(fs) \in Nat /\ p \in Nat \ {0}
      /\ \A i \in 1 .. Len(fs) : fs[i].at \in Nat \ {0} /\ fs[i].at < p
  BY PositionFacts
<1>2. Depth(body, p) = Len(fs)
  BY <1>1, DepthBack DEF Positioned
<1>3. (p + 1) - 1 = p /\ p + 1 \in 1 .. Len(body) + 1
  BY <1>1
<1>4. ASSUME NEW i \in 1 .. Len(fs)
      PROVE  /\ fs[i].at \in 1 .. p
             /\ body[fs[i].at] \in Opening /\ Depth(body, fs[i].at) = i
             /\ \A r \in fs[i].at .. p : Depth(body, r) >= i
  <2>1. /\ fs[i].at \in 1 .. p - 1 /\ body[fs[i].at] \in Opening /\ Depth(body, fs[i].at) = i
        /\ \A r \in fs[i].at .. p - 1 : Depth(body, r) >= i
    BY DEF Positioned
  <2>2. Depth(body, p) >= i
    BY <1>1, <1>2
  <2>3. \A r \in fs[i].at .. p : r \in fs[i].at .. p - 1 \/ r = p
    BY <1>1
  <2>4. \A r \in fs[i].at .. p : Depth(body, r) >= i
    BY <2>1, <2>2, <2>3
  <2>5. fs[i].at \in 1 .. p
    BY <1>1
  <2> QED BY <2>1, <2>4, <2>5
<1>5. fs \in Seq([at : Nat, arena : Nat])
  BY DEF Positioned
<1> QED BY <1>2, <1>3, <1>4, <1>5 DEF Positioned

\* A block is entered.
LEMMA StepIn ==
  ASSUME body \in Seq(AllStmts), NEW fs, NEW p, Positioned(fs, p), p <= Len(body),
         body[p] \in Opening, NEW a \in Nat
  PROVE  Positioned(Append(fs, Frame(p, a)), p + 1)
<1> DEFINE gs == Append(fs, Frame(p, a))
           n == Len(fs)
<1>1. /\ Len(body) \in Nat /\ n \in Nat /\ p \in Nat \ {0}
      /\ \A i \in 1 .. n : fs[i].at \in Nat \ {0} /\ fs[i].at < p
  BY PositionFacts
<1>2. Depth(body, p) = n + 1
  BY <1>1, DepthBack DEF Positioned
<1>3. (p + 1) - 1 = p /\ p + 1 \in 1 .. Len(body) + 1
  BY <1>1
<1>4. Frame(p, a) \in [at : Nat, arena : Nat] /\ Frame(p, a).at = p
  BY <1>1 DEF Frame
<1>5. /\ gs \in Seq([at : Nat, arena : Nat]) /\ Len(gs) = n + 1
      /\ \A i \in 1 .. n : gs[i] = fs[i]
      /\ gs[n + 1] = Frame(p, a)
  BY <1>4, AppendProperties DEF Positioned
<1> HIDE DEF gs
<1>6. ASSUME NEW i \in 1 .. n + 1
      PROVE  /\ gs[i].at \in 1 .. p
             /\ body[gs[i].at] \in Opening /\ Depth(body, gs[i].at) = i
             /\ \A r \in gs[i].at .. p : Depth(body, r) >= i
  <2>1. CASE i = n + 1
    <3>1. gs[i].at = p
      BY <1>4, <1>5, <2>1
    <3>2. \A r \in p .. p : r = p
      BY <1>1
    <3> QED BY <1>1, <1>2, <2>1, <3>1, <3>2
  <2>2. CASE i # n + 1
    <3>1. i \in 1 .. n /\ gs[i].at = fs[i].at
      BY <1>1, <1>5, <2>2
    <3>2. /\ fs[i].at \in 1 .. p - 1 /\ body[fs[i].at] \in Opening /\ Depth(body, fs[i].at) = i
          /\ \A r \in fs[i].at .. p - 1 : Depth(body, r) >= i
      BY <3>1 DEF Positioned
    <3>3. Depth(body, p) >= i
      BY <1>1, <1>2
    <3>4. \A r \in fs[i].at .. p : r \in fs[i].at .. p - 1 \/ r = p
      BY <1>1, <3>1
    <3>5. fs[i].at \in 1 .. p
      BY <1>1, <3>1
    <3>6. \A r \in fs[i].at .. p : Depth(body, r) >= i
      BY <3>2, <3>3, <3>4
    <3> QED BY <3>1, <3>2, <3>5, <3>6
  <2> QED BY <2>1, <2>2
<1>7. Len(gs) = n + 1 /\ gs \in Seq([at : Nat, arena : Nat])
  BY <1>5
<1>8. Positioned(gs, p + 1)
  BY <1>2, <1>3, <1>6, <1>7 DEF Positioned
<1> QED BY <1>8 DEF gs

\* The first frames stay where they are.
LEMMA OuterFrames ==
  ASSUME NEW fs \in Seq([at : Nat, arena : Nat]), NEW k \in 0 .. Len(fs)
  PROVE  /\ SubSeq(fs, 1, k) \in Seq([at : Nat, arena : Nat])
         /\ Len(SubSeq(fs, 1, k)) = k
         /\ \A i \in 1 .. k : SubSeq(fs, 1, k)[i] = fs[i]
<1>1. Len(fs) \in Nat /\ k \in Nat /\ \A i \in 1 .. k : fs[i] \in [at : Nat, arena : Nat]
  <2> DEFINE S == [at : Nat, arena : Nat]
  <2> HIDE DEF S
  <2>1. fs \in Seq(S)
    BY DEF S
  <2>2. Len(fs) \in Nat /\ fs \in [1 .. Len(fs) -> S]
    BY <2>1, LenProperties
  <2>3. \A i \in 1 .. k : i \in 1 .. Len(fs)
    BY <2>2
  <2>4. \A i \in 1 .. k : fs[i] \in S
    BY <2>2, <2>3
  <2> QED BY <2>2, <2>4 DEF S
<1>2. \A i \in 1 .. k : 1 + i - 1 = i
  BY <1>1
<1>3. k - 1 + 1 = k /\ (1 <= k \/ k = 0)
  BY <1>1
<1> HIDE DEF FrameSet
<1>4. /\ SubSeq(fs, 1, k) \in Seq([at : Nat, arena : Nat])
      /\ Len(SubSeq(fs, 1, k)) = IF 1 <= k THEN k - 1 + 1 ELSE 0
      /\ \A i \in 1 .. k - 1 + 1 : SubSeq(fs, 1, k)[i] = fs[1 + i - 1]
  BY <1>1, SubSeqProperties
<1> QED BY <1>1, <1>2, <1>3, <1>4

\* Forward, out of blocks: those up to the k-th stay open.
LEMMA StepForward ==
  ASSUME body \in Seq(AllStmts), NEW fs, NEW p, Positioned(fs, p), NEW k \in 0 .. Len(fs),
         NEW next \in p .. Len(body) + 1, Depth(body, next - 1) = k,
         \A r \in p .. next - 1 : Depth(body, r) >= k
  PROVE  Positioned(SubSeq(fs, 1, k), next)
<1> DEFINE gs == SubSeq(fs, 1, k)
<1>1. /\ Len(body) \in Nat /\ Len(fs) \in Nat /\ p \in Nat \ {0} /\ k \in Nat
      /\ \A i \in 1 .. Len(fs) : fs[i].at \in Nat \ {0} /\ fs[i].at < p
  BY PositionFacts
<1>2. gs \in Seq([at : Nat, arena : Nat]) /\ Len(gs) = k /\ \A i \in 1 .. k : gs[i] = fs[i]
  BY OuterFrames DEF Positioned
<1> HIDE DEF gs
<1>3. next \in 1 .. Len(body) + 1 /\ next \in Nat
  BY <1>1
<1>4. ASSUME NEW i \in 1 .. k
      PROVE  /\ gs[i].at \in 1 .. next - 1
             /\ body[gs[i].at] \in Opening /\ Depth(body, gs[i].at) = i
             /\ \A r \in gs[i].at .. next - 1 : Depth(body, r) >= i
  <2>1. i \in 1 .. Len(fs) /\ gs[i].at = fs[i].at
    BY <1>1, <1>2
  <2>2. /\ fs[i].at \in 1 .. p - 1 /\ body[fs[i].at] \in Opening /\ Depth(body, fs[i].at) = i
        /\ \A r \in fs[i].at .. p - 1 : Depth(body, r) >= i
    BY <2>1 DEF Positioned
  <2>3. ASSUME NEW r \in fs[i].at .. next - 1
        PROVE  Depth(body, r) >= i
    <3>1. r \in Nat /\ Depth(body, r) \in Int
      BY <1>1, <1>3, <2>1, DepthStep
    <3>2. CASE r < p
      <4>1. r \in fs[i].at .. p - 1
        BY <1>1, <2>1, <3>1, <3>2
      <4> QED BY <2>2, <4>1
    <3>3. CASE r >= p
      <4>1. r \in p .. next - 1
        BY <1>1, <1>3, <3>1, <3>3
      <4>2. Depth(body, r) >= k
        BY <4>1
      <4> QED BY <1>1, <3>1, <4>2
    <3> QED BY <1>1, <3>1, <3>2, <3>3
  <2>4. fs[i].at \in 1 .. next - 1
    BY <1>1, <1>3, <2>1
  <2> QED BY <2>1, <2>2, <2>3, <2>4
<1>5. Positioned(gs, next)
  BY <1>2, <1>3, <1>4 DEF Positioned
<1> QED BY <1>5 DEF gs

\* Back to the statement that opened the k-th frame.
LEMMA StepBack ==
  ASSUME body \in Seq(AllStmts), NEW fs, NEW p, Positioned(fs, p), NEW k \in 1 .. Len(fs)
  PROVE  Positioned(SubSeq(fs, 1, k - 1), fs[k].at)
<1> DEFINE gs == SubSeq(fs, 1, k - 1)
           next == fs[k].at
<1>1. /\ Len(body) \in Nat /\ Len(fs) \in Nat /\ p \in Nat \ {0} /\ k \in Nat \ {0}
      /\ p <= Len(body) + 1
      /\ \A i \in 1 .. Len(fs) : fs[i].at \in Nat \ {0} /\ fs[i].at < p
  BY PositionFacts
<1>0. k - 1 \in 0 .. Len(fs) /\ \A i \in 1 .. k - 1 : i \in 1 .. Len(fs) /\ i < k
  BY <1>1
<1>2. /\ gs \in Seq([at : Nat, arena : Nat]) /\ Len(gs) = k - 1
      /\ \A i \in 1 .. k - 1 : gs[i] = fs[i]
  BY <1>0, OuterFrames DEF Positioned
<1> HIDE DEF gs
<1>3. next \in 1 .. Len(body) + 1 /\ next \in Nat \ {0} /\ next < p
  BY <1>1
<1>4. body[next] \in Opening /\ Depth(body, next) = k
  BY DEF Positioned
<1>5. Depth(body, next - 1) = k - 1
  <2>1. Depth(body, next) = Depth(body, next - 1) + 1 /\ Depth(body, next - 1) \in Int
    BY <1>3, <1>4, DepthBack
  <2> QED BY <1>1, <1>4, <2>1
<1>6. ASSUME NEW i \in 1 .. k - 1
      PROVE  /\ gs[i].at \in 1 .. next - 1
             /\ body[gs[i].at] \in Opening /\ Depth(body, gs[i].at) = i
             /\ \A r \in gs[i].at .. next - 1 : Depth(body, r) >= i
  <2>1. i \in 1 .. Len(fs) /\ gs[i].at = fs[i].at /\ i < k /\ i \in Nat
    BY <1>0, <1>2
  <2>2. /\ fs[i].at \in 1 .. p - 1 /\ body[fs[i].at] \in Opening /\ Depth(body, fs[i].at) = i
        /\ \A r \in fs[i].at .. p - 1 : Depth(body, r) >= i
    BY <2>1 DEF Positioned
  <2>3. fs[i].at < next
    <3> SUFFICES ASSUME next <= fs[i].at
                 PROVE  FALSE
      BY <1>3, <2>2
    <3>1. \A r \in next .. p - 1 : Depth(body, r) >= k
      BY DEF Positioned
    <3>2. fs[i].at \in next .. p - 1
      BY <1>3, <2>2
    <3> QED BY <1>1, <2>1, <2>2, <3>1, <3>2
  <2>4. \A r \in fs[i].at .. next - 1 : r \in fs[i].at .. p - 1
    BY <1>1, <1>3, <2>2
  <2>5. fs[i].at \in 1 .. next - 1
    BY <1>3, <2>2, <2>3
  <2>6. \A r \in fs[i].at .. next - 1 : Depth(body, r) >= i
    BY <2>2, <2>4
  <2> QED BY <2>1, <2>2, <2>5, <2>6
<1> HIDE DEF next
<1>7. Positioned(gs, next)
  BY <1>2, <1>3, <1>5, <1>6 DEF Positioned
<1> QED BY <1>7 DEF gs, next

\* The end of an open block lies ahead.
LEMMA EndAhead ==
  ASSUME body \in Seq(AllStmts), Depth(body, Len(body)) = 0, NEW fs, NEW p, Positioned(fs, p),
         NEW k \in 1 .. Len(fs)
  PROVE  /\ EndOf(fs[k].at) \in p .. Len(body)
         /\ Depth(body, EndOf(fs[k].at)) = k - 1
         /\ body[EndOf(fs[k].at)] = "end"
         /\ \A r \in fs[k].at .. EndOf(fs[k].at) - 1 : Depth(body, r) >= k
<1> DEFINE q == fs[k].at
           e == EndOf(q)
<1>1. /\ Len(body) \in Nat /\ Len(fs) \in Nat /\ p \in Nat \ {0} /\ k \in Nat \ {0}
      /\ p <= Len(body) + 1
      /\ q \in Nat \ {0} /\ q < p
  BY PositionFacts
<1>2. Depth(body, q) = k /\ \A r \in q .. p - 1 : Depth(body, r) >= k
  BY DEF Positioned
<1>3. q \in 1 .. Len(body) /\ Depth(body, q) >= 1
  BY <1>1, <1>2
<1> HIDE DEF q
<1>4. /\ e \in q + 1 .. Len(body) /\ Depth(body, e) = k - 1 /\ body[e] = "end"
      /\ \A r \in q .. e - 1 : Depth(body, r) >= k
  BY <1>2, <1>3, EndExists
<1> HIDE DEF e
<1>5. e >= p
  <2> SUFFICES ASSUME e < p
               PROVE  FALSE
    BY <1>1, <1>4
  <2>1. e \in q .. p - 1
    BY <1>1, <1>4
  <2> QED BY <1>1, <1>2, <1>4, <2>1
<1>6. e \in p .. Len(body)
  BY <1>1, <1>4, <1>5
<1> QED BY <1>4, <1>6 DEF q, e
-----------------------------------------------------------------------------
\* Between p and q the function's own block defers nothing.
LEMMA NothingDeferred ==
  ASSUME NEW p \in Nat \ {0}, NEW q \in Nat \ {0}, p <= q,
         \A r \in p .. q - 1 : body[r] = "defer" => Depth(body, r) # 0
  PROVE  OwnDefers(p) = OwnDefers(q)
<1>1. 1 .. q - 1 = (1 .. p - 1) \cup (p .. q - 1)
  OBVIOUS
<1> QED BY <1>1 DEF OwnDefers

\* The k-th block is left for what follows it.
LEMMA LeftBehind ==
  ASSUME body \in Seq(AllStmts), Depth(body, Len(body)) = 0, NEW fs, NEW p, Positioned(fs, p),
         NEW k \in 1 .. Len(fs)
  PROVE  /\ Positioned(SubSeq(fs, 1, k - 1), EndOf(fs[k].at) + 1)
         /\ OwnDefers(EndOf(fs[k].at) + 1) = OwnDefers(p)
<1> DEFINE q == fs[k].at
           e == EndOf(q)
<1>1. /\ Len(body) \in Nat /\ Len(fs) \in Nat /\ p \in Nat \ {0} /\ k \in Nat \ {0}
      /\ q \in Nat \ {0} /\ q < p
  BY PositionFacts
<1>2. /\ e \in p .. Len(body) /\ Depth(body, e) = k - 1 /\ body[e] = "end"
      /\ \A r \in q .. e - 1 : Depth(body, r) >= k
  BY EndAhead
<1> HIDE DEF q, e
<1>3. \A r \in p .. e : r \in Nat /\ Depth(body, r) \in Int /\ (r = e \/ r \in q .. e - 1)
  BY <1>1, <1>2, DepthStep
<1>4. ASSUME NEW r \in p .. (e + 1) - 1
      PROVE  Depth(body, r) >= k - 1 /\ (body[r] = "defer" => Depth(body, r) # 0)
  <2>1. r \in p .. e
    BY <1>1, <1>2
  <2>2. CASE r = e
    BY <1>1, <1>2, <2>2
  <2>3. CASE r \in q .. e - 1
    BY <1>1, <1>2, <1>3, <2>1, <2>3
  <2> QED BY <1>3, <2>1, <2>2, <2>3
<1>5. /\ k - 1 \in 0 .. Len(fs) /\ e + 1 \in p .. Len(body) + 1 /\ (e + 1) - 1 = e
      /\ e + 1 \in Nat \ {0} /\ p <= e + 1
  BY <1>1, <1>2
<1>6. Positioned(SubSeq(fs, 1, k - 1), e + 1)
  BY <1>2, <1>4, <1>5, StepForward
<1>7. OwnDefers(e + 1) = OwnDefers(p)
  BY <1>1, <1>4, <1>5, NothingDeferred
<1> QED BY <1>6, <1>7 DEF q, e

\* Or for the statement that opened it.
LEMMA LeftBack ==
  ASSUME body \in Seq(AllStmts), NEW fs, NEW p, Positioned(fs, p), NEW k \in 1 .. Len(fs)
  PROVE  /\ Positioned(SubSeq(fs, 1, k - 1), fs[k].at)
         /\ OwnDefers(fs[k].at) = OwnDefers(p)
<1> DEFINE q == fs[k].at
<1>1. /\ Len(body) \in Nat /\ Len(fs) \in Nat /\ p \in Nat \ {0} /\ k \in Nat \ {0}
      /\ q \in Nat \ {0} /\ q < p
  BY PositionFacts
<1>2. \A r \in q .. p - 1 : Depth(body, r) >= k
  BY DEF Positioned
<1>3. Positioned(SubSeq(fs, 1, k - 1), q)
  BY StepBack
<1> HIDE DEF q
<1>4. \A r \in q .. p - 1 : Depth(body, r) # 0
  BY <1>1, <1>2
<1>5. OwnDefers(q) = OwnDefers(p)
  BY <1>1, <1>4, NothingDeferred
<1> QED BY <1>3, <1>5 DEF q

\* A block that is not entered.
LEMMA Skipped ==
  ASSUME body \in Seq(AllStmts), Depth(body, Len(body)) = 0, NEW fs, NEW p, Positioned(fs, p),
         p <= Len(body), body[p] \in Opening
  PROVE  Positioned(fs, EndOf(p) + 1) /\ OwnDefers(EndOf(p) + 1) = OwnDefers(p)
<1> DEFINE e == EndOf(p)
           n == Len(fs)
<1>1. Len(body) \in Nat /\ n \in Nat /\ p \in Nat \ {0}
  BY PositionFacts
<1>2. Depth(body, p) = n + 1
  BY <1>1, DepthBack DEF Positioned
<1>3. /\ e \in p + 1 .. Len(body) /\ Depth(body, e) = n /\ body[e] = "end"
      /\ \A r \in p .. e - 1 : Depth(body, r) >= n + 1
  <2>1. p \in 1 .. Len(body) /\ Depth(body, p) >= 1 /\ (n + 1) - 1 = n
    BY <1>1, <1>2
  <2> QED BY <1>2, <2>1, EndExists
<1> HIDE DEF e
<1>4. ASSUME NEW r \in p .. (e + 1) - 1
      PROVE  Depth(body, r) >= n /\ (body[r] = "defer" => Depth(body, r) # 0)
  <2>1. r \in Nat /\ Depth(body, r) \in Int /\ (r = e \/ r \in p .. e - 1)
    BY <1>1, <1>3, DepthStep
  <2>2. CASE r = e
    BY <1>1, <1>3, <2>2
  <2>3. CASE r \in p .. e - 1
    BY <1>1, <1>3, <2>1, <2>3
  <2> QED BY <2>1, <2>2, <2>3
<1>5. /\ n \in 0 .. Len(fs) /\ e + 1 \in p .. Len(body) + 1 /\ (e + 1) - 1 = e
      /\ e + 1 \in Nat \ {0} /\ p <= e + 1
  BY <1>1, <1>3
<1>6. Positioned(SubSeq(fs, 1, n), e + 1)
  BY <1>3, <1>4, <1>5, StepForward
<1>7. SubSeq(fs, 1, n) = fs
  BY SubSeqFull DEF Positioned
<1>8. OwnDefers(e + 1) = OwnDefers(p)
  BY <1>1, <1>4, <1>5, NothingDeferred
<1> QED BY <1>6, <1>7, <1>8 DEF e

\* Every block that is open is a frame.
LEMMA OpenIsFrame ==
  ASSUME BodyOK, NEW fs, NEW p, Positioned(fs, p), NEW q \in OpenAt(body, p - 1)
  PROVE  \E i \in 1 .. Len(fs) : fs[i].at = q
<1> DEFINE k == Depth(body, q)
<1>1. body \in Seq(AllStmts)
  BY DEF BodyOK
<1>2. /\ Len(body) \in Nat /\ Len(fs) \in Nat /\ p \in Nat \ {0} /\ p <= Len(body) + 1
      /\ \A i \in 1 .. Len(fs) : fs[i].at \in Nat \ {0} /\ fs[i].at < p
  BY <1>1, PositionFacts
<1>3. /\ q \in 1 .. p - 1 /\ body[q] \in Opening
      /\ \A r \in q .. p - 1 : Depth(body, r) >= k
  BY DEF OpenAt
<1>4. /\ q \in Nat \ {0} /\ q - 1 \in 0 .. Len(body)
      /\ k = Depth(body, q - 1) + 1 /\ Depth(body, q - 1) \in Int
  <2>1. q \in Nat \ {0} /\ q - 1 \in 0 .. Len(body)
    BY <1>2, <1>3
  <2> QED BY <1>3, <2>1, DepthBack
<1>5. Depth(body, q - 1) >= 0 /\ p - 1 \in q .. p - 1
  BY <1>2, <1>3, <1>4 DEF BodyOK
<1>6. Depth(body, p - 1) = Len(fs) /\ Depth(body, p - 1) >= k
  BY <1>3, <1>5 DEF Positioned
<1>7. k \in 1 .. Len(fs)
  BY <1>2, <1>4, <1>5, <1>6
<1> HIDE DEF k
<1> DEFINE a == fs[k].at
<1>8. a \in Nat \ {0} /\ a < p
  BY <1>2, <1>7
<1>9. /\ body[a] \in Opening /\ Depth(body, a) = k
      /\ \A r \in a .. p - 1 : Depth(body, r) >= k
  BY <1>7 DEF Positioned
<1> HIDE DEF a
<1>10. Depth(body, a - 1) = k - 1
  <2>1. Depth(body, a) = Depth(body, a - 1) + 1 /\ Depth(body, a - 1) \in Int
    BY <1>8, <1>9, DepthBack
  <2> QED BY <1>7, <1>9, <2>1
<1>11. ~(q < a)
  <2> SUFFICES ASSUME q < a
               PROVE  FALSE
    OBVIOUS
  <2>1. a - 1 \in q .. p - 1
    BY <1>2, <1>4, <1>8
  <2> QED BY <1>3, <1>7, <1>10, <2>1
<1>12. ~(a < q)
  <2> SUFFICES ASSUME a < q
               PROVE  FALSE
    OBVIOUS
  <2>1. q - 1 \in a .. p - 1
    BY <1>2, <1>3, <1>4, <1>8
  <2>2. Depth(body, q - 1) >= k
    BY <1>9, <2>1
  <2> QED BY <1>4, <1>7, <2>2
<1>13. a = q
  BY <1>4, <1>8, <1>11, <1>12
<1> QED BY <1>7, <1>13 DEF a

\* The innermost block of some kinds, when there is one.
LEMMA InnermostFacts ==
  ASSUME body \in Seq(AllStmts), Positioned(frames, pos), NEW kinds,
         \E i \in 1 .. Len(frames) : body[frames[i].at] \in kinds
  PROVE  /\ Innermost(kinds) \in 1 .. Len(frames)
         /\ body[frames[Innermost(kinds)].at] \in kinds
         /\ \A j \in Innermost(kinds) + 1 .. Len(frames) : body[frames[j].at] \notin kinds
<1> DEFINE n == Len(frames)
           T == {d \in 0 .. n : d < n /\ body[frames[n - d].at] \in kinds}
<1>1. n \in Nat /\ DOMAIN frames = 1 .. n
  BY PositionFacts
<1>2. PICK i \in 1 .. n : body[frames[i].at] \in kinds
  OBVIOUS
<1> HIDE DEF n
<1>3. n - i \in 0 .. n /\ n - i < n /\ n - (n - i) = i
  BY <1>1, <1>2
<1>4. n - i \in T
  BY <1>2, <1>3
<1>5. T \in SUBSET Nat
  BY <1>1
<1>6. PICK d \in T : \A c \in T : d <= c
  BY <1>4, <1>5, LeastNat
<1>7. n - d \in 1 .. n /\ body[frames[n - d].at] \in kinds
  BY <1>1, <1>6
<1>8. ASSUME NEW j \in (n - d) + 1 .. n
      PROVE  body[frames[j].at] \notin kinds
  <2>1. n - j \in 0 .. n /\ n - j < d /\ n - j < n /\ n - (n - j) = j
    BY <1>1, <1>5, <1>6, <1>7
  <2>2. n - j \notin T
    <3>1. d \in Nat /\ n - j \in Nat /\ ~(d <= n - j)
      BY <1>1, <1>5, <1>6, <2>1
    <3> HIDE DEF T
    <3> QED BY <1>6, <3>1
  <2> QED BY <2>1, <2>2
<1>9. \E l \in DOMAIN frames :
         /\ body[frames[l].at] \in kinds
         /\ \A j \in l + 1 .. Len(frames) : body[frames[j].at] \notin kinds
  BY <1>1, <1>7, <1>8 DEF n
<1>10. /\ Innermost(kinds) \in DOMAIN frames
       /\ body[frames[Innermost(kinds)].at] \in kinds
       /\ \A j \in Innermost(kinds) + 1 .. Len(frames) : body[frames[j].at] \notin kinds
  BY <1>9 DEF Innermost
<1> QED BY <1>1, <1>10 DEF n
-----------------------------------------------------------------------------
DistinctArenas(fs) ==
  \A i, j \in 1 .. Len(fs) : fs[i].arena = fs[j].arena /\ fs[i].arena # 0 => i = j

\* The arenas of the outer frames and of the others.
LEMMA LeaksSplit ==
  ASSUME NEW fs \in Seq([at : Nat, arena : Nat]), NEW k \in 0 .. Len(fs), DistinctArenas(fs)
  PROVE  /\ Leaks(fs) = Leaks(SubSeq(fs, 1, k)) \cup Leaks(SubSeq(fs, k + 1, Len(fs)))
         /\ Leaks(SubSeq(fs, 1, k)) \cap Leaks(SubSeq(fs, k + 1, Len(fs))) = {}
         /\ DistinctArenas(SubSeq(fs, 1, k))
         /\ Leaks(SubSeq(fs, k + 1, Len(fs))) = {fs[i].arena : i \in k + 1 .. Len(fs)} \ {0}
<1> DEFINE n == Len(fs)
           a == SubSeq(fs, 1, k)
           b == SubSeq(fs, k + 1, n)
           A(i) == fs[i].arena
<1>1. n \in Nat /\ k \in Nat /\ k <= n /\ DOMAIN fs = 1 .. n
  BY LenProperties
<1>2. Len(a) = k /\ DOMAIN a = 1 .. k /\ \A i \in 1 .. k : a[i] = fs[i]
  <2>1. a \in Seq([at : Nat, arena : Nat]) /\ Len(a) = k /\ \A i \in 1 .. k : a[i] = fs[i]
    BY OuterFrames
  <2>2. DOMAIN a = 1 .. Len(a)
    BY <2>1, LenProperties
  <2> QED BY <2>1, <2>2
<1>3. DOMAIN b = 1 .. n - k /\ \A i \in 1 .. n - k : b[i] = fs[k + i]
  <2> DEFINE S == [at : Nat, arena : Nat]
  <2> HIDE DEF S
  <2>1. \A i \in k + 1 .. n : fs[i] \in S
    <3>1. fs \in Seq(S)
      BY DEF S
    <3>2. fs \in [1 .. n -> S]
      BY <3>1, LenProperties
    <3> QED BY <1>1, <3>2
  <2> HIDE DEF n
  <2>2. k + 1 \in Int /\ n \in Int
    BY <1>1
  <2>3. /\ b \in Seq(S) /\ Len(b) = IF k + 1 <= n THEN n - (k + 1) + 1 ELSE 0
        /\ \A i \in 1 .. n - (k + 1) + 1 : b[i] = fs[(k + 1) + i - 1]
    BY <2>1, <2>2, SubSeqProperties
  <2>4. n - (k + 1) + 1 = n - k /\ (k + 1 <= n \/ n - k = 0)
    BY <1>1
  <2>5. \A i \in 1 .. n - k : (k + 1) + i - 1 = k + i
    BY <1>1
  <2>6. Len(b) = n - k
    BY <2>3, <2>4
  <2>7. DOMAIN b = 1 .. n - k
    BY <2>3, <2>6, LenProperties
  <2> QED BY <2>3, <2>4, <2>5, <2>7
<1>4. \A i, j \in 1 .. n : A(i) = A(j) /\ A(i) # 0 => i = j
  BY DEF DistinctArenas
<1>5. Leaks(fs) = {A(i) : i \in 1 .. n} \ {0}
  BY <1>1 DEF Leaks
<1>6. Leaks(a) = {A(i) : i \in 1 .. k} \ {0}
  BY <1>2 DEF Leaks
<1>7. Leaks(b) = {A(i) : i \in k + 1 .. n} \ {0}
  <2>1. Leaks(b) = {A(k + i) : i \in 1 .. n - k} \ {0}
    BY <1>3 DEF Leaks
  <2> HIDE DEF A
  <2>2. \A i \in 1 .. n - k : k + i \in k + 1 .. n
    BY <1>1
  <2>3. \A i \in k + 1 .. n : i - k \in 1 .. n - k /\ k + (i - k) = i
    BY <1>1
  <2> QED BY <2>1, <2>2, <2>3
<1>8. \A i \in 1 .. n : i \in 1 .. k \/ i \in k + 1 .. n
  BY <1>1
<1>9. \A i \in 1 .. k : i \in 1 .. n /\ i \notin k + 1 .. n
  BY <1>1
<1>10. \A i \in k + 1 .. n : i \in 1 .. n
  BY <1>1
<1>11. DistinctArenas(a)
  BY <1>2, <1>4, <1>9 DEF DistinctArenas
<1>14. Leaks(b) = {fs[i].arena : i \in k + 1 .. n} \ {0}
  BY <1>7
<1> HIDE DEF A, a, b, n
<1>12. Leaks(fs) = Leaks(a) \cup Leaks(b)
  BY <1>5, <1>6, <1>7, <1>8, <1>9, <1>10
<1>13. Leaks(a) \cap Leaks(b) = {}
  BY <1>4, <1>6, <1>7, <1>9, <1>10
<1> QED BY <1>11, <1>12, <1>13, <1>14 DEF a, b, n

\* The arenas whose block was left without destroying them.
Abandoned(d, fs) == DOMAIN arenas \ (d \cup Leaks(fs))

\* What the text allows stays the same with the text.
LEMMA FreedSame ==
  ASSUME UNCHANGED body
  PROVE  /\ \A q : Escapable(q)' <=> Escapable(q)
         /\ ArenasFreed <=> /\ destroyed \cap Leaks(frames) = {}
                            /\ \A a \in Abandoned(destroyed, frames) : Escapable(arenas[a])
         /\ ArenasFreed' <=> /\ destroyed' \cap Leaks(frames') = {}
                             /\ \A a \in DOMAIN arenas' \ (destroyed' \cup Leaks(frames')) :
                                  Escapable(arenas'[a])
<1>1. \A p, q : JumpsOutOf(p, q)' <=> JumpsOutOf(p, q)
  BY DEF JumpsOutOf, InnermostLoop, OpenAt
<1>2. \A q : Escapable(q)' <=> Escapable(q)
  BY <1>1 DEF Escapable
<1>3. Leaks(frames)' = Leaks(frames')
  BY DEF Leaks
<1>4. ArenasFreed' <=> /\ destroyed' \cap Leaks(frames') = {}
                       /\ \A a \in DOMAIN arenas' \ (destroyed' \cup Leaks(frames')) :
                            Escapable(arenas'[a])
  BY <1>1, <1>3 DEF ArenasFreed, Escapable
<1> QED BY <1>2, <1>4 DEF ArenasFreed, Abandoned, Escapable

\* Blocks are left: their arenas are destroyed, or there is a jump out of each.
LEMMA ArenasDropped ==
  ASSUME ArenasOK, frames \in Seq([at : Nat, arena : Nat]), NEW k \in 0 .. Len(frames),
         frames' = SubSeq(frames, 1, k), UNCHANGED <<body, arenas>>,
         \/ destroyed' = destroyed \cup Leaks(SubSeq(frames, k + 1, Len(frames)))
         \/ /\ destroyed' = destroyed
            /\ \A i \in k + 1 .. Len(frames) : frames[i].arena # 0 => Escapable(frames[i].at)
  PROVE  ArenasOK'
<1> DEFINE a == Leaks(SubSeq(frames, 1, k))
           b == Leaks(SubSeq(frames, k + 1, Len(frames)))
<1>1. /\ Leaks(frames) = a \cup b /\ a \cap b = {}
      /\ DistinctArenas(SubSeq(frames, 1, k))
      /\ b = {frames[i].arena : i \in k + 1 .. Len(frames)} \ {0}
  <2>1. DistinctArenas(frames)
    BY DEF ArenasOK, DistinctArenas
  <2> QED BY <2>1, LeaksSplit
<1>2. Leaks(frames') = a /\ DistinctArenas(frames')
  BY <1>1
<1>3. /\ arenas \in Seq(Nat) /\ destroyed \subseteq DOMAIN arenas
      /\ destroyed \cap Leaks(frames) = {}
      /\ \A c \in Abandoned(destroyed, frames) : Escapable(arenas[c])
      /\ \A i \in 1 .. Len(frames) : frames[i].arena # 0 => Holds(frames[i], arenas)
  BY FreedSame DEF ArenasOK
<1>4. Len(frames) \in Nat /\ k \in Nat /\ \A i \in k + 1 .. Len(frames) : i \in 1 .. Len(frames)
  BY LenProperties
<1>5. b \subseteq DOMAIN arenas /\ \A c \in b : \E i \in k + 1 .. Len(frames) :
         frames[i].arena = c /\ frames[i].arena # 0 /\ arenas[c] = frames[i].at
  <2> HIDE DEF a, b
  <2> QED BY <1>1, <1>3, <1>4 DEF Holds
<1>6. ArenasFreed'
  <2> SUFFICES /\ destroyed' \cap a = {}
               /\ \A c \in DOMAIN arenas \ (destroyed' \cup a) : Escapable(arenas[c])
    BY <1>2, FreedSame
  <2>1. CASE destroyed' = destroyed \cup b
    <3> HIDE DEF a, b
    <3> QED BY <1>1, <1>3, <2>1 DEF Abandoned
  <2>2. CASE /\ destroyed' = destroyed
             /\ \A i \in k + 1 .. Len(frames) : frames[i].arena # 0 => Escapable(frames[i].at)
    <3> HIDE DEF a, b
    <3>1. \A c \in b : Escapable(arenas[c])
      BY <1>5, <2>2
    <3> QED BY <1>1, <1>3, <2>2, <3>1 DEF Abandoned
  <2> QED BY <2>1, <2>2
<1>7. (\A i \in 1 .. Len(frames) : frames[i].arena # 0 => Holds(frames[i], arenas))'
  <2>1. Len(frames') = k /\ \A i \in 1 .. k : frames'[i] = frames[i]
    BY OuterFrames
  <2>2. \A i \in 1 .. k : i \in 1 .. Len(frames)
    BY <1>4
  <2>3. \A i \in 1 .. Len(frames') :
           frames'[i].arena # 0 => Holds(frames'[i], arenas)
    BY <1>3, <2>1, <2>2
  <2> QED BY <2>3 DEF Holds
<1>8. arenas' \in Seq(Nat) /\ destroyed' \subseteq DOMAIN arenas'
  <2> HIDE DEF a, b
  <2> QED BY <1>3, <1>5 DEF b
<1> HIDE DEF a, b
<1> QED BY <1>2, <1>6, <1>7, <1>8 DEF ArenasOK, DistinctArenas

\* A frame more, without an arena or with a new one.
LEMMA ArenasAdded ==
  ASSUME ArenasOK, frames \in Seq([at : Nat, arena : Nat]), NEW p \in Nat, NEW c \in Nat,
         frames' = Append(frames, Frame(p, c)),
         \/ c = 0 /\ arenas' = arenas
         \/ c = Len(arenas) + 1 /\ arenas' = Append(arenas, p) /\ body[p] = "arena",
         UNCHANGED <<body, destroyed>>
  PROVE  ArenasOK'
<1> DEFINE n == Len(frames)
           gs == Append(frames, Frame(p, c))
<1>1. n \in Nat /\ DOMAIN frames = 1 .. n
  BY LenProperties
<1>2. /\ Len(gs) = n + 1 /\ \A i \in 1 .. n : gs[i] = frames[i]
      /\ gs[n + 1] = Frame(p, c) /\ gs \in Seq([at : Nat, arena : Nat])
  <2>1. Frame(p, c) \in [at : Nat, arena : Nat]
    BY DEF Frame
  <2> QED BY <2>1, AppendProperties
<1>3. DOMAIN gs = 1 .. n + 1
  BY <1>2, LenProperties
<1>4. Frame(p, c).arena = c /\ Frame(p, c).at = p
  BY DEF Frame
<1> HIDE DEF gs, n
<1>5. \A i \in 1 .. n + 1 : i = n + 1 \/ i \in 1 .. n
  BY <1>1
<1>6. \A i \in 1 .. n : i \in 1 .. n + 1 /\ i # n + 1
  BY <1>1
<1>10. n + 1 \in 1 .. n + 1
  BY <1>1
<1>7. Leaks(gs) = Leaks(frames) \cup ({c} \ {0})
  <2>1. {gs[i].arena : i \in 1 .. n + 1} = {frames[i].arena : i \in 1 .. n} \cup {c}
    <3> DEFINE A(i) == frames[i].arena
               G(i) == gs[i].arena
    <3>1. \A i \in 1 .. n : G(i) = A(i)
      BY <1>2
    <3>2. G(n + 1) = c
      BY <1>2, <1>4
    <3> HIDE DEF A, G
    <3>3. {G(i) : i \in 1 .. n + 1} = {A(i) : i \in 1 .. n} \cup {c}
      BY <1>5, <1>6, <1>10, <3>1, <3>2
    <3> QED BY <3>3 DEF A, G
  <2> QED BY <1>1, <1>3, <2>1 DEF Leaks
<1>8. /\ arenas \in Seq(Nat) /\ destroyed \subseteq DOMAIN arenas
      /\ destroyed \cap Leaks(frames) = {}
      /\ \A a \in Abandoned(destroyed, frames) : Escapable(arenas[a])
      /\ \A i \in 1 .. n : frames[i].arena # 0 => Holds(frames[i], arenas)
  BY FreedSame DEF ArenasOK, n
<1>9. /\ arenas' \in Seq(Nat)
      /\ \A a \in DOMAIN arenas : a \in DOMAIN arenas' /\ arenas'[a] = arenas[a]
      /\ DOMAIN arenas' = DOMAIN arenas \cup ({c} \ {0})
      /\ c \notin DOMAIN arenas
      /\ c # 0 => arenas'[c] = p /\ body[p] = "arena"
  <2>1. Len(arenas) \in Nat /\ DOMAIN arenas = 1 .. Len(arenas)
    BY <1>8, LenProperties
  <2>2. CASE c = 0 /\ arenas' = arenas
    BY <1>8, <2>1, <2>2
  <2>3. CASE c = Len(arenas) + 1 /\ arenas' = Append(arenas, p) /\ body[p] = "arena"
    <3>1. /\ arenas' \in Seq(Nat) /\ Len(arenas') = Len(arenas) + 1
          /\ \A a \in 1 .. Len(arenas) : arenas'[a] = arenas[a]
          /\ arenas'[Len(arenas) + 1] = p
      BY <1>8, <2>3, AppendProperties
    <3>2. DOMAIN arenas' = 1 .. Len(arenas) + 1
      BY <3>1, LenProperties
    <3>3. /\ 1 .. Len(arenas) + 1 = (1 .. Len(arenas)) \cup {Len(arenas) + 1}
          /\ Len(arenas) + 1 # 0 /\ Len(arenas) + 1 \notin 1 .. Len(arenas)
      BY <2>1
    <3> QED BY <2>1, <2>3, <3>1, <3>2, <3>3
  <2> QED BY <2>2, <2>3
<1>11. frames' = gs
  BY DEF gs
<1>12. ArenasFreed'
  <2>1. Leaks(frames') = Leaks(frames) \cup ({c} \ {0})
    BY <1>7, <1>11
  <2>2. destroyed' \cap Leaks(frames') = {}
    BY <1>8, <1>9, <2>1
  <2>3. DOMAIN arenas' \ (destroyed' \cup Leaks(frames')) \subseteq Abandoned(destroyed, frames)
    BY <1>9, <2>1 DEF Abandoned
  <2>4. \A a \in Abandoned(destroyed, frames) : Escapable(arenas'[a])
    BY <1>8, <1>9 DEF Abandoned
  <2> QED BY <2>2, <2>3, <2>4, FreedSame
<1>13. \A i, j \in 1 .. n : frames[i].arena = frames[j].arena /\ frames[i].arena # 0 => i = j
  BY DEF ArenasOK, n
<1>14. \A i \in 1 .. n : frames[i].arena = c => c = 0
  <2>1. \A i \in 1 .. n : frames[i].arena # 0 => frames[i].arena \in DOMAIN arenas
    BY <1>8 DEF Holds
  <2> QED BY <1>9, <2>1
<1>15. \A i, j \in 1 .. n + 1 : gs[i].arena = gs[j].arena /\ gs[i].arena # 0 => i = j
  BY <1>2, <1>4, <1>5, <1>13, <1>14
<1>16. \A i \in 1 .. n + 1 : gs[i].arena # 0 => Holds(gs[i], arenas')
  <2>1. \A i \in 1 .. n : frames[i].arena # 0 => Holds(frames[i], arenas')
    BY <1>8, <1>9 DEF Holds
  <2>2. c # 0 => Holds(Frame(p, c), arenas')
    BY <1>4, <1>9 DEF Holds
  <2> QED BY <1>2, <1>4, <1>5, <2>1, <2>2
<1>18. (\A i \in 1 .. Len(frames) : frames[i].arena # 0 => Holds(frames[i], arenas))'
  BY <1>2, <1>11, <1>16 DEF Holds
<1>17. destroyed' \subseteq DOMAIN arenas'
  BY <1>8, <1>9
<1> QED BY <1>2, <1>9, <1>11, <1>12, <1>15, <1>17, <1>18 DEF ArenasOK

\* Nothing was opened or left.
LEMMA ArenasSame ==
  ASSUME ArenasOK, UNCHANGED <<body, frames, heap>>
  PROVE  ArenasOK'
<1>1. arenas' = arenas /\ destroyed' = destroyed /\ frames' = frames /\ body' = body
  BY DEF heap
<1>2. ArenasFreed'
  BY <1>1, FreedSame DEF ArenasOK, Abandoned
<1>3. \A f : Holds(f, arenas)' <=> Holds(f, arenas)
  BY <1>1 DEF Holds
<1> QED BY <1>1, <1>2, <1>3 DEF ArenasOK
-----------------------------------------------------------------------------
\* While the body runs.
LEMMA RunFacts ==
  ASSUME IInv, pc = "run"
  PROVE  /\ body \in Seq(AllStmts) /\ Depth(body, Len(body)) = 0
         /\ Len(body) \in Nat /\ DOMAIN body = 1 .. Len(body) /\ pos \in Nat \ {0}
         /\ Positioned(frames, pos) /\ RegisteredOK(registered, pos)
         /\ frames \in Seq([at : Nat, arena : Nat]) /\ Len(frames) \in Nat
         /\ ArenasOK /\ x \in Nat /\ iters \in 0 .. MaxIters
<1>1. body \in Seq(AllStmts) /\ Depth(body, Len(body)) = 0
  BY DEF IInv, BodyOK
<1>2. Positioned(frames, pos) /\ RegisteredOK(registered, pos) /\ iters \in 0 .. MaxIters
  BY DEF IInv, ControlOK
<1>3. Len(body) \in Nat /\ DOMAIN body = 1 .. Len(body)
  BY <1>1, LenProperties
<1>4. pos \in Nat \ {0} /\ Len(frames) \in Nat
  BY <1>1, <1>2, PositionFacts
<1>5. frames \in Seq([at : Nat, arena : Nat])
  BY <1>2 DEF Positioned
<1> QED BY <1>1, <1>2, <1>3, <1>4, <1>5 DEF IInv, ExitOK

\* A whole body does not change.
LEMMA BodySame ==
  ASSUME BodyOK, UNCHANGED body, pc # "write"
  PROVE  BodyOK'
BY DEF BodyOK, OpenAt

\* A statement that stays in the function.
LEMMA Proceeds ==
  ASSUME IInv, pc = "run", pc' = "run", UNCHANGED <<front, todo, ran, exit, ret>>,
         Positioned(frames', pos'), RegisteredOK(registered', pos'), x' \in Nat,
         iters' \in 0 .. MaxIters, ArenasOK'
  PROVE  IInv'
<1>1. UNCHANGED <<backend, unit, body>>
  BY DEF front
<1>2. BodyOK'
  BY <1>1, BodySame DEF IInv
<1>3. (Positioned(frames, pos))'
  BY <1>1 DEF Positioned
<1>4. (RegisteredOK(registered, pos))'
  BY <1>1 DEF RegisteredOK, OwnLevel, OwnDefers
<1>5. pos' \in 1 .. Len(body') + 1
  BY <1>1 DEF Positioned
<1>6. ControlOK'
  BY <1>1, <1>3, <1>4, <1>5 DEF IInv, ControlOK
<1>7. ExitOK'
  <2>1. Clean' <=> Clean
    BY <1>1 DEF Clean
  <2> QED BY <1>1, <2>1 DEF IInv, ExitOK
<1> QED BY <1>2, <1>6, <1>7 DEF IInv

\* What was registered is right wherever the same calls are deferred before.
LEMMA RegisteredSame ==
  ASSUME NEW p, NEW q, NEW reg, RegisteredOK(reg, p), OwnDefers(q) = OwnDefers(p)
  PROVE  RegisteredOK(reg, q)
BY DEF RegisteredOK

\* Behind a statement that is not a defer.
LEMMA NoDeferHere ==
  ASSUME NEW p \in Nat \ {0}, body[p] # "defer"
  PROVE  OwnDefers(p + 1) = OwnDefers(p)
<1>1. /\ p + 1 \in Nat \ {0} /\ p <= p + 1
      /\ \A r \in p .. (p + 1) - 1 : r = p
  OBVIOUS
<1> QED BY <1>1, NothingDeferred

\* A statement behind which the next one runs.
LEMMA NextStatement ==
  ASSUME IInv, pc = "run", pos <= Len(body), body[pos] \notin Opening \cup {"end", "defer"},
         Plain(pos + 1), UNCHANGED <<frames, registered>>, x' \in Nat
  PROVE  IInv'
<1>1. Positioned(frames, pos + 1)
  BY RunFacts, StepOn
<1>2. RegisteredOK(registered, pos + 1)
  BY RunFacts, NoDeferHere, RegisteredSame
<1>3. ArenasOK'
  BY RunFacts, ArenasSame DEF Plain, front
<1>4. /\ pc' = "run" /\ UNCHANGED <<front, todo, ran, exit, ret>> /\ iters' \in 0 .. MaxIters
      /\ pos' = pos + 1
  BY RunFacts DEF Plain
<1>5. Positioned(frames', pos') /\ RegisteredOK(registered', pos')
  BY <1>1, <1>2, <1>4
<1> QED BY <1>3, <1>4, <1>5, Proceeds

\* An assignment of the body moves to the next statement.
LEMMA AssignStep == ASSUME IInv, Assign PROVE IInv'
<1>1. /\ pc = "run" /\ pos <= Len(body) /\ body[pos] = "assign"
      /\ Plain(pos + 1) /\ UNCHANGED <<frames, registered>> /\ x' = x + 1
  BY DEF Assign, At
<1>2. x' \in Nat
  BY <1>1, RunFacts
<1>3. "assign" \notin Opening \cup {"end", "defer"}
  BY DEF Opening
<1> QED BY <1>1, <1>2, <1>3, NextStatement

\* A try that succeeds moves to the next statement.
LEMMA TryOkStep == ASSUME IInv, TryOk PROVE IInv'
<1>1. /\ pc = "run" /\ pos <= Len(body) /\ body[pos] = "try"
      /\ Plain(pos + 1) /\ UNCHANGED <<frames, x, registered>>
  BY DEF TryOk, At
<1>2. x' \in Nat
  BY <1>1, RunFacts
<1>3. "try" \notin Opening \cup {"end", "defer"}
  BY DEF Opening
<1> QED BY <1>1, <1>2, <1>3, NextStatement

\* A call deferred in the function's own block is registered last, and only
\* once: the statement is not in a loop.
LEMMA DeferStep == ASSUME IInv, Defer PROVE IInv'
<1> DEFINE e == [defer |-> pos, arg |-> x]
           reg == Append(registered, e)
           n == Len(registered)
<1>1. /\ pc = "run" /\ pos <= Len(body) /\ body[pos] = "defer"
      /\ Plain(pos + 1) /\ UNCHANGED <<frames, x>> /\ registered' = reg
  BY DEF Defer, At
<1>2. /\ body \in Seq(AllStmts) /\ pos \in Nat \ {0} /\ x \in Nat
      /\ Positioned(frames, pos) /\ RegisteredOK(registered, pos)
  BY <1>1, RunFacts
<1>3. Positioned(frames, pos + 1)
  <2>1. "defer" \notin Opening \cup {"end"}
    BY DEF Opening
  <2> QED BY <1>1, <1>2, <2>1, StepOn
<1>4. registered \in Seq([defer : Nat, arg : Nat]) /\ e \in [defer : Nat, arg : Nat]
  BY <1>2 DEF RegisteredOK
<1>5. /\ reg \in Seq([defer : Nat, arg : Nat]) /\ Len(reg) = n + 1
      /\ \A i \in 1 .. n : reg[i] = registered[i]
      /\ reg[n + 1] = e
  BY <1>4, AppendProperties
<1>6. n \in Nat /\ DOMAIN registered = 1 .. n /\ DOMAIN reg = 1 .. n + 1
  BY <1>4, <1>5, LenProperties
<1>7. e.defer = pos
  OBVIOUS
<1> HIDE DEF reg, n, e
<1>8. \A i \in 1 .. n + 1 : i = n + 1 \/ i \in 1 .. n
  BY <1>6
<1>9. n + 1 \in 1 .. n + 1 /\ n + 1 \notin 1 .. n /\ \A i \in 1 .. n : i \in 1 .. n + 1 /\ i < n + 1
  BY <1>6
<1>10. /\ {registered[i].defer : i \in OwnLevel(registered)} = OwnDefers(pos)
       /\ \A i, j \in OwnLevel(registered) : i < j => registered[i].defer < registered[j].defer
  BY <1>2 DEF RegisteredOK
<1>11. 1 .. pos = (1 .. pos - 1) \cup {pos} /\ pos \notin 1 .. pos - 1 /\ (pos + 1) - 1 = pos
  BY <1>2
<1>12. RegisteredOK(reg, pos + 1)
  <2>1. CASE Depth(body, pos) = 0
    <3>1. OwnLevel(reg) = OwnLevel(registered) \cup {n + 1}
      BY <1>5, <1>6, <1>7, <1>8, <1>9, <2>1 DEF OwnLevel
    <3>2. OwnDefers(pos + 1) = OwnDefers(pos) \cup {pos}
      BY <1>1, <1>11, <2>1 DEF OwnDefers
    <3>3. OwnLevel(registered) \subseteq 1 .. n
      BY <1>6 DEF OwnLevel
    <3>4. {reg[i].defer : i \in OwnLevel(reg)} = OwnDefers(pos + 1)
      BY <1>5, <1>7, <1>10, <3>1, <3>2, <3>3
    <3>5. ASSUME NEW i \in OwnLevel(reg), NEW j \in OwnLevel(reg), i < j
          PROVE  reg[i].defer < reg[j].defer
      <4>1. i \in OwnLevel(registered)
        BY <1>6, <1>9, <3>1, <3>3, <3>5
      <4>2. CASE j \in OwnLevel(registered)
        BY <1>5, <1>10, <3>3, <3>5, <4>1, <4>2
      <4>3. CASE j = n + 1
        <5>1. registered[i].defer \in 1 .. pos - 1
          BY <1>10, <4>1 DEF OwnDefers
        <5> QED BY <1>2, <1>5, <1>7, <3>3, <4>1, <4>3, <5>1
      <4> QED BY <3>1, <4>2, <4>3
    <3> QED BY <1>5, <3>4, <3>5 DEF RegisteredOK
  <2>2. CASE Depth(body, pos) # 0
    <3>1. OwnLevel(reg) = OwnLevel(registered)
      BY <1>5, <1>6, <1>7, <1>8, <1>9, <2>2 DEF OwnLevel
    <3>2. OwnDefers(pos + 1) = OwnDefers(pos)
      BY <1>11, <2>2 DEF OwnDefers
    <3>3. OwnLevel(registered) \subseteq 1 .. n
      BY <1>6 DEF OwnLevel
    <3>4. {reg[i].defer : i \in OwnLevel(reg)} = OwnDefers(pos + 1)
      BY <1>5, <1>10, <3>1, <3>2, <3>3
    <3>5. \A i, j \in OwnLevel(reg) : i < j => reg[i].defer < reg[j].defer
      BY <1>5, <1>10, <3>1, <3>3
    <3> QED BY <1>5, <3>4, <3>5 DEF RegisteredOK
  <2> QED BY <2>1, <2>2
<1>13. ArenasOK'
  BY <1>1, RunFacts, ArenasSame DEF Plain, front
<1>14. /\ pc' = "run" /\ UNCHANGED <<front, todo, ran, exit, ret>> /\ iters' \in 0 .. MaxIters
       /\ pos' = pos + 1 /\ x' \in Nat
  BY <1>1, RunFacts DEF Plain
<1>15. Positioned(frames', pos') /\ RegisteredOK(registered', pos')
  BY <1>1, <1>3, <1>12, <1>14
<1> QED BY <1>1, <1>13, <1>14, <1>15, Proceeds
-----------------------------------------------------------------------------
\* A block is entered, with an arena or without.
LEMMA Entered ==
  ASSUME IInv, pc = "run", pos <= Len(body), body[pos] \in Opening, NEW c \in Nat,
         frames' = Append(frames, Frame(pos, c)), pos' = pos + 1,
         \/ c = 0 /\ arenas' = arenas
         \/ /\ c = Len(arenas) + 1 /\ arenas' = Append(arenas, pos)
            /\ body[pos] = "arena",
         UNCHANGED <<front, destroyed, x, registered, todo, ran, exit, ret, pc>>,
         iters' \in 0 .. MaxIters
  PROVE  IInv'
<1>1. Positioned(Append(frames, Frame(pos, c)), pos + 1)
  BY RunFacts, StepIn
<1>2. RegisteredOK(registered, pos + 1)
  <2>1. body[pos] # "defer"
    BY DEF Opening
  <2> QED BY <2>1, RunFacts, NoDeferHere, RegisteredSame
<1>3. Positioned(frames', pos') /\ RegisteredOK(registered', pos')
  BY <1>1, <1>2
<1>4. ArenasOK'
  <2>1. UNCHANGED <<body, destroyed>>
    BY DEF front
  <2> QED BY <2>1, RunFacts, ArenasAdded
<1>5. pc' = "run" /\ x' \in Nat /\ UNCHANGED <<front, todo, ran, exit, ret>>
  BY RunFacts
<1> QED BY <1>3, <1>4, <1>5, Proceeds

\* Entering a branch opens a frame where the text opens its block.
LEMMA EnterBranchStep == ASSUME IInv, EnterBranch PROVE IInv'
<1>1. /\ pc = "run" /\ pos <= Len(body) /\ body[pos] \in Opening
      /\ frames' = Append(frames, Frame(pos, 0)) /\ pos' = pos + 1
  BY DEF EnterBranch, At, Plain, Opening
<1>2. /\ UNCHANGED <<front, destroyed, x, registered, todo, ran, exit, ret, pc>>
      /\ arenas' = arenas /\ iters' = iters
  BY DEF EnterBranch, Plain, heap
<1>3. iters' \in 0 .. MaxIters
  BY <1>1, <1>2, RunFacts
<1> QED BY <1>1, <1>2, <1>3, Entered

\* Entering a loop opens a frame where the text opens its block.
LEMMA EnterLoopStep == ASSUME IInv, EnterLoop PROVE IInv'
<1>1. /\ pc = "run" /\ pos <= Len(body) /\ body[pos] \in Opening
      /\ frames' = Append(frames, Frame(pos, 0)) /\ pos' = pos + 1
  BY DEF EnterLoop, At, Opening
<1>2. /\ UNCHANGED <<front, destroyed, x, registered, todo, ran, exit, ret, pc>>
      /\ arenas' = arenas
  BY DEF EnterLoop, heap
<1>3. iters' \in 0 .. MaxIters
  BY <1>1, RunFacts, BoundsAssumption DEF EnterLoop
<1> QED BY <1>1, <1>2, <1>3, Entered

\* Entering an arena block opens a frame that holds a new arena.
LEMMA EnterArenaStep == ASSUME IInv, EnterArena PROVE IInv'
<1>1. /\ pc = "run" /\ pos <= Len(body) /\ body[pos] \in Opening
      /\ frames' = Append(frames, Frame(pos, Len(arenas) + 1)) /\ pos' = pos + 1
      /\ arenas' = Append(arenas, pos) /\ body[pos] = "arena"
  <2>1. arenas \in Seq(Nat)
    BY DEF IInv, ArenasOK
  <2>2. Len(Append(arenas, pos)) = Len(arenas) + 1
    <3>1. pos \in Nat
      BY RunFacts DEF EnterArena, At
    <3> QED BY <2>1, <3>1, AppendProperties
  <2> QED BY <2>2 DEF EnterArena, At, Opening
<1>2. /\ UNCHANGED <<front, destroyed, x, registered, todo, ran, exit, ret, pc>>
      /\ iters' = iters
  BY DEF EnterArena
<1>3. iters' \in 0 .. MaxIters /\ Len(arenas) + 1 \in Nat
  BY <1>1, <1>2, RunFacts, LenProperties DEF ArenasOK
<1> QED BY <1>1, <1>2, <1>3, Entered

\* A block that is not entered is passed over whole: the frames stay.
LEMMA SkipBlockStep == ASSUME IInv, SkipBlock PROVE IInv'
<1>1. /\ pc = "run" /\ pos <= Len(body) /\ body[pos] \in Opening
      /\ Plain(EndOf(pos) + 1) /\ UNCHANGED <<frames, x, registered>>
  BY DEF SkipBlock, At, Opening
<1>2. Positioned(frames, EndOf(pos) + 1) /\ OwnDefers(EndOf(pos) + 1) = OwnDefers(pos)
  BY <1>1, RunFacts, Skipped
<1>3. RegisteredOK(registered, EndOf(pos) + 1)
  BY <1>1, <1>2, RunFacts, RegisteredSame
<1>4. /\ pc' = "run" /\ UNCHANGED <<front, todo, ran, exit, ret, heap>>
      /\ iters' \in 0 .. MaxIters /\ pos' = EndOf(pos) + 1 /\ x' \in Nat
  BY <1>1, RunFacts DEF Plain
<1>5. Positioned(frames', pos') /\ RegisteredOK(registered', pos')
  BY <1>1, <1>2, <1>3, <1>4
<1>6. ArenasOK'
  BY <1>1, <1>4, RunFacts, ArenasSame DEF front
<1> QED BY <1>1, <1>4, <1>5, <1>6, Proceeds

\* Blocks from the k-th on are left for the statement after the k-th, or, back,
\* for the one that opened it.
LEMMA Left ==
  ASSUME IInv, pc = "run", NEW k \in 1 .. Len(frames),
         frames' = SubSeq(frames, 1, k - 1),
         \/ pos' = EndOf(frames[k].at) + 1
         \/ pos' = frames[k].at,
         \/ destroyed' = destroyed \cup Leaks(SubSeq(frames, k, Len(frames)))
         \/ /\ destroyed' = destroyed
            /\ \A i \in k .. Len(frames) : frames[i].arena # 0 => Escapable(frames[i].at),
         UNCHANGED <<front, arenas, iters, x, registered, todo, ran, exit, ret, pc>>
  PROVE  IInv'
<1>1. Positioned(SubSeq(frames, 1, k - 1), pos') /\ OwnDefers(pos') = OwnDefers(pos)
  <2>1. CASE pos' = EndOf(frames[k].at) + 1
    BY <2>1, RunFacts, LeftBehind
  <2>2. CASE pos' = frames[k].at
    BY <2>2, RunFacts, LeftBack
  <2> QED BY <2>1, <2>2
<1>2. RegisteredOK(registered', pos')
  BY <1>1, RunFacts, RegisteredSame
<1>3. ArenasOK'
  <2>1. k - 1 \in 0 .. Len(frames) /\ (k - 1) + 1 = k
    BY RunFacts
  <2>2. ArenasOK /\ frames \in Seq([at : Nat, arena : Nat]) /\ UNCHANGED <<body, arenas>>
    BY RunFacts DEF front
  <2>3. \/ destroyed' = destroyed \cup Leaks(SubSeq(frames, (k - 1) + 1, Len(frames)))
        \/ /\ destroyed' = destroyed
           /\ \A i \in (k - 1) + 1 .. Len(frames) :
                frames[i].arena # 0 => Escapable(frames[i].at)
    BY <2>1
  <2> QED BY <2>1, <2>2, <2>3, ArenasDropped
<1>4. Positioned(frames', pos')
  BY <1>1
<1>5. /\ pc' = "run" /\ x' \in Nat /\ UNCHANGED <<front, todo, ran, exit, ret>>
      /\ iters' \in 0 .. MaxIters
  BY RunFacts
<1> QED BY <1>2, <1>3, <1>4, <1>5, Proceeds

\* The end of a block leaves the innermost frame.
LEMMA LeaveBlockStep == ASSUME IInv, LeaveBlock PROVE IInv'
<1> DEFINE n == Len(frames)
<1>1. /\ pc = "run" /\ pos <= Len(body) /\ body[pos] = "end"
      /\ frames' = Front(frames)
      /\ destroyed' = destroyed \cup Leaks(<<Last(frames)>>)
      /\ pos' = IF body[Last(frames).at] = "loop" THEN Last(frames).at ELSE pos + 1
      /\ UNCHANGED <<front, arenas, iters, x, registered, todo, ran, exit, ret, pc>>
  BY DEF LeaveBlock, At
<1>2. /\ body \in Seq(AllStmts) /\ pos \in Nat \ {0} /\ Len(body) \in Nat /\ n \in Nat
      /\ Positioned(frames, pos) /\ frames \in Seq([at : Nat, arena : Nat])
      /\ Depth(body, Len(body)) = 0
  BY <1>1, RunFacts
<1>3. n \in 1 .. Len(frames) /\ Depth(body, pos) = n - 1
  <2>1. Depth(body, pos) = Depth(body, pos - 1) - 1
    BY <1>1, <1>2, DepthBack
  <2>2. Depth(body, pos - 1) = n
    BY <1>2 DEF Positioned
  <2>3. Depth(body, pos) >= 0
    <3>1. pos \in 0 .. Len(body)
      BY <1>1, <1>2
    <3> QED BY <3>1 DEF IInv, BodyOK
  <2> QED BY <1>2, <2>1, <2>2, <2>3
<1>4. Last(frames) = frames[n] /\ Front(frames) = SubSeq(frames, 1, n - 1)
  BY DEF Last, Front
<1>5. Leaks(<<frames[n]>>) = Leaks(SubSeq(frames, n, Len(frames)))
  <2> DEFINE b == SubSeq(frames, n, n)
             S == [at : Nat, arena : Nat]
  <2>1. /\ b \in Seq(S) /\ Len(b) = 1 /\ b[1] = frames[n]
    <3> HIDE DEF S
    <3>1. \A i \in n .. n : frames[i] \in S
      <4>1. frames \in Seq(S)
        BY <1>2 DEF S
      <4>2. frames \in [1 .. n -> S]
        BY <4>1, LenProperties
      <4> QED BY <1>3, <4>2
    <3> HIDE DEF n
    <3>2. /\ b \in Seq(S) /\ Len(b) = IF n <= n THEN n - n + 1 ELSE 0
          /\ \A i \in 1 .. n - n + 1 : b[i] = frames[n + i - 1]
      BY <1>2, <3>1, SubSeqProperties
    <3>3. n <= n /\ n - n + 1 = 1 /\ 1 \in 1 .. 1 /\ n + 1 - 1 = n
      BY <1>2
    <3>4. Len(b) = 1
      BY <3>2, <3>3
    <3>5. b[1] = frames[n + 1 - 1]
      BY <3>2, <3>3
    <3> QED BY <3>2, <3>3, <3>4, <3>5
  <2>2. DOMAIN b = 1 .. 1
    BY <2>1, LenProperties
  <2> HIDE DEF b
  <2>3. Leaks(b) = {frames[n].arena} \ {0}
    BY <2>1, <2>2 DEF Leaks
  <2>4. Leaks(<<frames[n]>>) = {frames[n].arena} \ {0}
    BY DEF Leaks
  <2> QED BY <2>3, <2>4 DEF b
<1>6. \/ pos' = EndOf(frames[n].at) + 1
      \/ pos' = frames[n].at
  <2>1. CASE body[frames[n].at] = "loop"
    BY <1>1, <1>4, <2>1
  <2>2. CASE body[frames[n].at] # "loop"
    <3> DEFINE e == EndOf(frames[n].at)
    <3>1. e \in pos .. Len(body) /\ \A r \in frames[n].at .. e - 1 : Depth(body, r) >= n
      BY <1>2, <1>3, EndAhead
    <3>2. frames[n].at \in Nat /\ frames[n].at < pos
      BY <1>2, <1>3, PositionFacts
    <3> HIDE DEF e
    <3>3. e = pos
      <4> SUFFICES ASSUME pos < e
                   PROVE  FALSE
        BY <1>2, <3>1
      <4>1. pos \in frames[n].at .. e - 1
        BY <1>2, <3>1, <3>2
      <4> QED BY <1>2, <1>3, <3>1, <4>1
    <3>4. pos' = pos + 1
      BY <1>1, <1>4, <2>2
    <3> QED BY <3>3, <3>4 DEF e
  <2> QED BY <2>1, <2>2
<1>7. /\ frames' = SubSeq(frames, 1, n - 1)
      /\ destroyed' = destroyed \cup Leaks(SubSeq(frames, n, Len(frames)))
  BY <1>1, <1>4, <1>5
<1> HIDE DEF n
<1> QED BY <1>1, <1>3, <1>6, <1>7, Left

\* At a break or continue, the loop that the front end asked for is a frame.
LEMMA LoopIsOpen ==
  ASSUME IInv, pc = "run", pos <= Len(body), body[pos] \in {"break", "continue"}
  PROVE  \E i \in 1 .. Len(frames) : body[frames[i].at] = "loop"
<1>1. pos \in 1 .. Len(body) /\ Positioned(frames, pos) /\ BodyOK
  BY RunFacts DEF IInv
<1>2. PICK q \in OpenAt(body, pos - 1) : body[q] = "loop"
  BY <1>1 DEF BodyOK
<1>3. PICK i \in 1 .. Len(frames) : frames[i].at = q
  BY <1>1, <1>2, OpenIsFrame
<1> QED BY <1>2, <1>3

\* Before a statement that neither opens nor closes a block, every frame is open
\* behind it too, and inner frames begin later.
LEMMA FramesOpen ==
  ASSUME BodyOK, Positioned(frames, pos), pos <= Len(body),
         body[pos] \notin Opening \cup {"end"}
  PROVE  /\ OpenAt(body, pos) = OpenAt(body, pos - 1)
         /\ \A i \in 1 .. Len(frames) : frames[i].at \in OpenAt(body, pos) /\ frames[i].at \in Nat
         /\ \A i, j \in 1 .. Len(frames) : i < j => frames[i].at < frames[j].at
<1>1. body \in Seq(AllStmts) /\ pos \in Nat \ {0} /\ Len(frames) \in Nat
  BY PositionFacts DEF BodyOK
<1>2. Depth(body, pos) = Depth(body, pos - 1) /\ Depth(body, pos) \in Int
  BY <1>1, DepthBack
<1>3. OpenAt(body, pos) = OpenAt(body, pos - 1)
  <2>1. \A p \in 1 .. pos : p \in 1 .. pos - 1 \/ (p = pos /\ body[p] \notin Opening)
    BY <1>1
  <2>2. ASSUME NEW p \in 1 .. pos - 1
        PROVE  (\A r \in p .. pos : Depth(body, r) >= Depth(body, p))
                 <=> (\A r \in p .. pos - 1 : Depth(body, r) >= Depth(body, p))
    <3>1. /\ p .. pos = (p .. pos - 1) \cup {pos} /\ pos - 1 \in p .. pos - 1
      BY <1>1
    <3> QED BY <1>2, <3>1
  <2>3. \A p \in 1 .. pos - 1 : p \in 1 .. pos
    BY <1>1
  <2> QED BY <2>1, <2>2, <2>3 DEF OpenAt
<1>4. \A i \in 1 .. Len(frames) : frames[i].at \in OpenAt(body, pos) /\ frames[i].at \in Nat
  <2>1. \A i \in 1 .. Len(frames) :
          /\ frames[i].at \in 1 .. pos - 1 /\ body[frames[i].at] \in Opening
          /\ Depth(body, frames[i].at) = i
          /\ \A r \in frames[i].at .. pos - 1 : Depth(body, r) >= i
    BY DEF Positioned
  <2>2. \A i \in 1 .. Len(frames) : frames[i].at \in OpenAt(body, pos - 1)
    BY <2>1 DEF OpenAt
  <2> QED BY <1>3, <2>1, <2>2
<1>5. ASSUME NEW i \in 1 .. Len(frames), NEW j \in 1 .. Len(frames), i < j
      PROVE  frames[i].at < frames[j].at
  <2>1. /\ frames[i].at \in 1 .. pos - 1 /\ Depth(body, frames[i].at) = i
        /\ frames[j].at \in 1 .. pos - 1
        /\ \A r \in frames[j].at .. pos - 1 : Depth(body, r) >= j
    BY DEF Positioned
  <2> SUFFICES ASSUME frames[j].at <= frames[i].at
               PROVE  FALSE
    BY <2>1
  <2>2. frames[i].at \in frames[j].at .. pos - 1
    BY <1>1, <2>1
  <2>3. Depth(body, frames[i].at) >= j
    BY <2>1, <2>2
  <2> QED BY <1>1, <1>5, <2>1, <2>3
<1> QED BY <1>3, <1>4, <1>5

\* At a break or continue, the innermost frame that is a loop is the innermost
\* loop of the text.
LEMMA InnermostLoopFrame ==
  ASSUME IInv, pc = "run", pos <= Len(body), body[pos] \in {"break", "continue"}
  PROVE  /\ Innermost({"loop"}) \in 1 .. Len(frames)
         /\ InnermostLoop(pos) = frames[Innermost({"loop"})].at
<1> DEFINE k == Innermost({"loop"})
           q == frames[k].at
<1>1. /\ body \in Seq(AllStmts) /\ Positioned(frames, pos) /\ pos \in Nat \ {0}
      /\ Len(frames) \in Nat /\ BodyOK
  BY RunFacts DEF IInv
<1>2. \E i \in 1 .. Len(frames) : body[frames[i].at] \in {"loop"}
  BY LoopIsOpen
<1>3. /\ k \in 1 .. Len(frames) /\ body[q] \in {"loop"}
      /\ \A j \in k + 1 .. Len(frames) : body[frames[j].at] \notin {"loop"}
  BY <1>1, <1>2, InnermostFacts
<1> HIDE DEF k
<1>4. /\ OpenAt(body, pos) = OpenAt(body, pos - 1)
      /\ \A i \in 1 .. Len(frames) : frames[i].at \in OpenAt(body, pos) /\ frames[i].at \in Nat
      /\ \A i, j \in 1 .. Len(frames) : i < j => frames[i].at < frames[j].at
  <2>1. body[pos] \notin Opening \cup {"end"}
    BY DEF Opening
  <2> QED BY <1>1, <2>1, FramesOpen
<1>5. \A p \in OpenAt(body, pos) : body[p] = "loop" => p <= q
  <2> SUFFICES ASSUME NEW p \in OpenAt(body, pos), body[p] = "loop"
               PROVE  p <= q
    OBVIOUS
  <2>1. PICK i \in 1 .. Len(frames) : frames[i].at = p
    <3>1. p \in OpenAt(body, pos - 1)
      BY <1>4
    <3> QED BY <1>1, <3>1, OpenIsFrame
  <2>2. ~(i \in k + 1 .. Len(frames))
    BY <1>3, <2>1
  <2>3. i = k \/ i < k
    BY <1>1, <1>3, <2>2
  <2> QED BY <1>3, <1>4, <2>1, <2>3
<1>6. q \in OpenAt(body, pos) /\ q \in Nat
  BY <1>3, <1>4
<1>7. OpenAt(body, pos) \subseteq Nat
  BY DEF OpenAt
<1> HIDE DEF q
<1>8. InnermostLoop(pos) = q
  <2> DEFINE c == InnermostLoop(pos)
  <2>1. c = CHOOSE p \in OpenAt(body, pos) :
              body[p] = "loop" /\ \A r \in OpenAt(body, pos) : body[r] = "loop" => r <= p
    BY DEF InnermostLoop
  <2> HIDE DEF c
  <2>2. body[q] = "loop"
    BY <1>3
  <2>3. /\ c \in OpenAt(body, pos) /\ body[c] = "loop"
        /\ \A r \in OpenAt(body, pos) : body[r] = "loop" => r <= c
    BY <1>5, <1>6, <2>1, <2>2
  <2>4. c <= q /\ q <= c /\ c \in Nat
    BY <1>5, <1>6, <1>7, <2>2, <2>3
  <2>5. c = q
    BY <1>6, <2>4
  <2> QED BY <2>5 DEF c
<1> QED BY <1>3, <1>8 DEF k, q

\* A break or continue is a jump out of every arena block that it leaves: they
\* are inside the innermost loop.
LEMMA JumpLeaves ==
  ASSUME IInv, pc = "run", pos <= Len(body), body[pos] \in {"break", "continue"},
         NEW kinds, "loop" \in kinds, kinds \subseteq {"loop", "match"}
  PROVE  \A i \in Innermost(kinds) .. Len(frames) : frames[i].arena # 0 => Escapable(frames[i].at)
<1> DEFINE k == Innermost(kinds)
           j == Innermost({"loop"})
<1>1. /\ body \in Seq(AllStmts) /\ Positioned(frames, pos) /\ pos \in Nat \ {0}
      /\ Len(frames) \in Nat /\ BodyOK /\ ArenasOK /\ pos \in DOMAIN body
  BY RunFacts DEF IInv
<1>2. \E i \in 1 .. Len(frames) : body[frames[i].at] = "loop"
  BY LoopIsOpen
<1>3. /\ k \in 1 .. Len(frames) /\ body[frames[k].at] \in kinds
      /\ \A i \in k + 1 .. Len(frames) : body[frames[i].at] \notin kinds
  BY <1>1, <1>2, InnermostFacts
<1>4. j \in 1 .. Len(frames) /\ body[frames[j].at] = "loop"
  BY <1>1, <1>2, InnermostFacts
<1>5. InnermostLoop(pos) = frames[j].at
  BY InnermostLoopFrame
<1> HIDE DEF k, j
<1>6. j <= k
  <2>1. ~(j \in k + 1 .. Len(frames))
    BY <1>3, <1>4
  <2> QED BY <1>1, <1>3, <1>4, <2>1
<1>7. /\ \A i \in 1 .. Len(frames) : frames[i].at \in OpenAt(body, pos)
      /\ \A l, i \in 1 .. Len(frames) : l < i => frames[l].at < frames[i].at
  <2>1. body[pos] \notin Opening \cup {"end"}
    BY DEF Opening
  <2> QED BY <1>1, <2>1, FramesOpen
<1>8. ASSUME NEW i \in k .. Len(frames), frames[i].arena # 0
      PROVE  Escapable(frames[i].at)
  <2>1. i \in 1 .. Len(frames) /\ k <= i
    BY <1>1, <1>3
  <2>2. body[frames[i].at] = "arena"
    BY <1>1, <1>8, <2>1 DEF ArenasOK, Holds
  <2>3. i # k
    BY <1>3, <2>2
  <2>4. j < i
    BY <1>1, <1>3, <1>4, <1>6, <2>1, <2>3
  <2>5. InnermostLoop(pos) < frames[i].at
    BY <1>4, <1>5, <1>7, <2>1, <2>4
  <2>6. JumpsOutOf(pos, frames[i].at)
    BY <1>7, <2>1, <2>5 DEF JumpsOutOf
  <2> QED BY <1>1, <2>6 DEF Escapable
<1> QED BY <1>8 DEF k

\* break leaves the frames inside the innermost loop, and that loop.
LEMMA BreakStep == ASSUME IInv, Break PROVE IInv'
<1> DEFINE k == Innermost(Breakable)
<1>1. /\ pc = "run" /\ pos <= Len(body) /\ body[pos] = "break"
      /\ JumpOut(k, EndOf(frames[k].at) + 1)
  BY DEF Break, At
<1>2. "loop" \in Breakable
  BY DEF Breakable
<1>3. \E i \in 1 .. Len(frames) : body[frames[i].at] \in Breakable
  BY <1>1, <1>2, LoopIsOpen
<1>4. k \in 1 .. Len(frames)
  BY <1>1, <1>3, RunFacts, InnermostFacts
<1> HIDE DEF k
<1>5. /\ frames' = SubSeq(frames, 1, k - 1) /\ pos' = EndOf(frames[k].at) + 1
      /\ destroyed' = destroyed
      /\ UNCHANGED <<front, arenas, iters, x, registered, todo, ran, exit, ret, pc>>
  BY <1>1 DEF JumpOut, heap
<1>6. Breakable \subseteq {"loop", "match"}
  BY DEF Breakable
<1>7. \A i \in k .. Len(frames) : frames[i].arena # 0 => Escapable(frames[i].at)
  BY <1>1, <1>2, <1>6, JumpLeaves DEF k
<1> QED BY <1>1, <1>4, <1>5, <1>7, Left

\* continue leaves the frames inside the innermost loop.
LEMMA ContinueStep == ASSUME IInv, Continue PROVE IInv'
<1> DEFINE k == Innermost({"loop"})
<1>1. /\ pc = "run" /\ pos <= Len(body) /\ body[pos] = "continue"
      /\ JumpOut(k, frames[k].at)
  BY DEF Continue, At
<1>2. \E i \in 1 .. Len(frames) : body[frames[i].at] \in {"loop"}
  BY <1>1, LoopIsOpen
<1>3. k \in 1 .. Len(frames)
  BY <1>1, <1>2, RunFacts, InnermostFacts
<1> HIDE DEF k
<1>4. /\ frames' = SubSeq(frames, 1, k - 1) /\ pos' = frames[k].at
      /\ destroyed' = destroyed
      /\ UNCHANGED <<front, arenas, iters, x, registered, todo, ran, exit, ret, pc>>
  BY <1>1 DEF JumpOut, heap
<1>5. \A i \in k .. Len(frames) : frames[i].arena # 0 => Escapable(frames[i].at)
  BY <1>1, JumpLeaves DEF k
<1> QED BY <1>1, <1>3, <1>4, <1>5, Left
-----------------------------------------------------------------------------
\* An exit plans the deferred calls of the text before it, the last one first;
\* a failed try in C plans none.
LEMMA ExitStep ==
  ASSUME IInv, pc = "run", NEW how \in {"none", "end", "return", "try"}, NEW p \in 0 .. Len(body),
         NEW list, Exits(how, list),
         1 .. p = 1 .. pos - 1 \/ (p = pos /\ body[p] # "defer"),
         \/ list = Deferred(p)
         \/ list = << >> /\ backend = "c" /\ how = "try",
         how = "none" => ~Clean /\ pos <= Len(body) /\ body[pos] = "return_unit",
         ExitPlace(how)
  PROVE  IInv'
<1>1. /\ exit' = how /\ todo' = list /\ ret' = x /\ pc' = "exit"
      /\ UNCHANGED <<backend, unit, body, pos, frames, heap, iters, x, registered, ran>>
  BY DEF Exits, front
<1>2. BodyOK'
  BY <1>1, BodySame DEF IInv
<1>3. ControlOK'
  <2>1. (Positioned(frames, pos))'
    BY <1>1, RunFacts DEF Positioned
  <2>2. (RegisteredOK(registered, pos))'
    BY <1>1, RunFacts DEF RegisteredOK, OwnLevel, OwnDefers
  <2> QED BY <1>1, <2>1, <2>2 DEF IInv, ControlOK
<1>4. ArenasOK'
  BY <1>1, RunFacts, ArenasSame
<1>13. ExitPlace(exit)'
  BY <1>1 DEF ExitPlace
<1>5. /\ Deferred(p) \in Seq(Nat)
      /\ {Deferred(p)[i] : i \in 1 .. Len(Deferred(p))} = DefersUpTo(p)
      /\ \A i, j \in 1 .. Len(Deferred(p)) : i < j => Deferred(p)[i] > Deferred(p)[j]
  BY RunFacts, DeferredFacts
<1>6. DefersUpTo(p) = {d \in 1 .. pos - 1 : body[d] = "defer"}
  <2>1. CASE 1 .. p = 1 .. pos - 1
    BY <2>1 DEF DefersUpTo
  <2>2. CASE p = pos /\ body[p] # "defer"
    <3>1. 1 .. pos = (1 .. pos - 1) \cup {pos}
      BY RunFacts
    <3> QED BY <2>2, <3>1 DEF DefersUpTo
  <2> QED BY <2>1, <2>2
<1>7. Clean' <=> Clean
  BY <1>1 DEF Clean
<1>8. ExitKept' => Clean /\ ~(backend = "c" /\ how = "try")
  BY <1>1 DEF ExitKept, Clean
<1>9. ran \in Seq([defer : Nat, arg : Nat]) /\ (Clean => ran = << >>) /\ x \in Nat
  BY DEF IInv, ExitOK
<1>10. list \in Seq(Nat)
  <2>1. << >> \in Seq(Nat)
    BY EmptySeq
  <2> QED BY <1>5, <2>1
<1>11. ASSUME ExitKept'
       PROVE  PlanOK' /\ ret' = x' - Len(ran')
  <2>1. ran = << >> /\ list = Deferred(p)
    BY <1>8, <1>9, <1>11
  <2>2. Len(ran') = 0
    BY <1>1, <2>1, EmptySeq
  <2> DEFINE l == Deferred(p)
  <2>3. Len(l) \in Nat /\ l \in Seq(Nat)
    BY <1>5, LenProperties
  <2>4. \A i \in 1 .. Len(l) : l[i] = l[i - 0] /\ ~(i <= 0)
    BY <2>3
  <2>5. todo' = l
    BY <1>1, <2>1
  <2>6. /\ {l[i] : i \in 1 .. Len(l)} = {d \in 1 .. pos - 1 : body[d] = "defer"}
        /\ \A i, j \in 1 .. Len(l) : i < j => l[i] > l[j]
    BY <1>5, <1>6
  <2> HIDE DEF l
  <2>7. Plan' = 1 .. Len(l)
    BY <2>2, <2>3, <2>5 DEF Plan
  <2>8. \A i \in 1 .. Len(l) : Planned(i)' = l[i]
    BY <2>2, <2>4, <2>5 DEF Planned
  <2>9. {d \in 1 .. pos - 1 : body[d] = "defer"}' = {d \in 1 .. pos - 1 : body[d] = "defer"}
    BY <1>1
  <2>10. {Planned(i) : i \in Plan}' = {l[i] : i \in 1 .. Len(l)}
    BY <2>7, <2>8
  <2>11. PlanOK'
    BY <2>6, <2>7, <2>8, <2>9, <2>10 DEF PlanOK
  <2> QED BY <1>1, <1>9, <2>2, <2>11
<1>12. ExitOK'
  BY <1>1, <1>7, <1>9, <1>10, <1>11, <1>13 DEF ExitOK
<1> QED BY <1>2, <1>3, <1>4, <1>12 DEF IInv

\* return with a value plans the deferred calls of the text so far.
LEMMA ReturnStep == ASSUME IInv, Return PROVE IInv'
<1>1. /\ pc = "run" /\ pos <= Len(body) /\ body[pos] = "return"
      /\ Exits("return", Deferred(pos))
  BY DEF Return, At
<1>2. /\ pos \in 0 .. Len(body) /\ body[pos] # "defer"
      /\ \A how : ExitPlace(how)
  BY <1>1, RunFacts DEF ExitPlace, Leaving
<1> QED BY <1>1, <1>2, ExitStep

\* return without a value: the native back end plans the deferred
\* calls, the C back end leaves at once.
LEMMA ReturnUnitStep == ASSUME IInv, ReturnUnit PROVE IInv'
<1>1. /\ pc = "run" /\ pos <= Len(body) /\ body[pos] = "return_unit"
      /\ \/ Exits("return", Deferred(pos))
         \/ Exits("none", Deferred(pos)) /\ backend = "c"
  BY DEF ReturnUnit, At
<1>2. /\ pos \in 0 .. Len(body) /\ body[pos] # "defer" /\ pos \in DOMAIN body
      /\ \A how : ExitPlace(how)
  BY <1>1, RunFacts DEF ExitPlace, Leaving
<1>3. CASE Exits("return", Deferred(pos))
  BY <1>1, <1>2, <1>3, ExitStep
<1>4. CASE Exits("none", Deferred(pos)) /\ backend = "c"
  <2>1. ~Clean
    BY <1>1, <1>2, <1>4 DEF Clean
  <2> QED BY <1>1, <1>2, <1>4, <2>1, ExitStep
<1> QED BY <1>1, <1>3, <1>4

\* The end of the body plans every deferred call of the text.
LEMMA FallOffStep == ASSUME IInv, FallOff PROVE IInv'
<1>1. pc = "run" /\ pos = Len(body) + 1 /\ Exits("end", Deferred(Len(body)))
  BY DEF FallOff
<1>2. /\ Len(body) \in 0 .. Len(body) /\ 1 .. Len(body) = 1 .. pos - 1
      /\ ExitPlace("end")
  BY <1>1, RunFacts DEF ExitPlace
<1> QED BY <1>1, <1>2, ExitStep

\* A try that fails plans the deferred calls as a return does.
LEMMA TryFailsStep == ASSUME IInv, TryFails PROVE IInv'
<1>1. /\ pc = "run" /\ pos <= Len(body) /\ body[pos] = "try"
      /\ Exits("try", IF backend = "c" THEN << >> ELSE Deferred(pos))
  BY DEF TryFails, At
<1>2. /\ pos \in 0 .. Len(body) /\ body[pos] # "defer"
      /\ \A how : ExitPlace(how)
  BY <1>1, RunFacts DEF ExitPlace, Leaving
<1> DEFINE list == IF backend = "c" THEN << >> ELSE Deferred(pos)
<1>3. \/ list = Deferred(pos)
      \/ list = << >> /\ backend = "c" /\ "try" = "try"
  OBVIOUS
<1> HIDE DEF list
<1>4. Exits("try", list)
  BY <1>1 DEF list
<1> QED BY <1>1, <1>2, <1>3, <1>4, ExitStep
-----------------------------------------------------------------------------
\* What the control part of the invariant speaks of stays as it was.
LEMMA ControlSame ==
  ASSUME ControlOK,
         UNCHANGED <<backend, unit, body, pos, frames, iters, registered, exit, pc>>
  PROVE  ControlOK'
<1>1. Positioned(frames, pos)' <=> Positioned(frames, pos)
  BY DEF Positioned
<1>2. OwnLevel(registered)' = OwnLevel(registered) /\ OwnDefers(pos)' = OwnDefers(pos)
  BY DEF OwnLevel, OwnDefers
<1>3. RegisteredOK(registered, pos)' <=> RegisteredOK(registered, pos)
  BY <1>2 DEF RegisteredOK
<1> QED BY <1>1, <1>3 DEF ControlOK

\* A deferred call moves from what is to do to what is done.
LEMMA RunDeferredStep == ASSUME IInv, RunDeferred PROVE IInv'
<1> DEFINE e == [defer |-> Head(todo), arg |-> x]
           n == Len(ran)
           m == Len(todo)
<1>1. /\ pc = "exit" /\ todo # << >> /\ ran' = Append(ran, e) /\ x' = x + 1
      /\ todo' = Tail(todo)
      /\ UNCHANGED <<backend, unit, body, pos, frames, heap, iters, registered, exit, ret, pc>>
  BY DEF RunDeferred, front
<1>2. BodyOK'
  BY <1>1, BodySame DEF IInv
<1>3. ControlOK'
  BY <1>1, ControlSame DEF IInv
<1>4. ArenasOK'
  BY <1>1, ArenasSame DEF IInv
<1>16. ExitPlace(exit)'
  BY <1>1 DEF IInv, ExitOK, ExitPlace
<1>5. /\ ran \in Seq([defer : Nat, arg : Nat]) /\ todo \in Seq(Nat) /\ x \in Nat /\ ret \in Nat
      /\ (ExitKept => PlanOK /\ ret = x - n)
      /\ (exit = "none" => ~Clean /\ pos <= Len(body) /\ body[pos] = "return_unit")
  BY <1>1 DEF IInv, ExitOK
<1>6. /\ Head(todo) \in Nat /\ Tail(todo) \in Seq(Nat) /\ Len(Tail(todo)) = m - 1
      /\ \A i \in 1 .. Len(Tail(todo)) : Tail(todo)[i] = todo[i + 1]
      /\ m \in Nat \ {0} /\ Head(todo) = todo[1]
  BY <1>1, <1>5, HeadTailProperties, EmptySeq
<1>7. /\ ran' \in Seq([defer : Nat, arg : Nat]) /\ Len(ran') = n + 1
      /\ \A i \in 1 .. n : ran'[i] = ran[i]
      /\ ran'[n + 1] = e
      /\ n \in Nat
  <2>1. e \in [defer : Nat, arg : Nat]
    BY <1>5, <1>6
  <2>2. n \in Nat
    BY <1>5, LenProperties
  <2> QED BY <1>1, <1>5, <2>1, <2>2, AppendProperties
<1>8. (Clean' <=> Clean) /\ (ExitKept' <=> ExitKept)
  BY <1>1 DEF Clean, ExitKept
<1>9. e.defer = todo[1]
  BY <1>6
<1> HIDE DEF e, n, m
<1>10. Plan' = Plan
  <2>1. Plan' = 1 .. (n + 1) + (m - 1)
    BY <1>1, <1>6, <1>7 DEF Plan, m
  <2>2. Plan = 1 .. n + m
    BY DEF Plan, n, m
  <2>3. (n + 1) + (m - 1) = n + m
    BY <1>6, <1>7
  <2> QED BY <2>1, <2>2, <2>3
<1>11. ASSUME NEW i \in Plan
       PROVE  Planned(i)' = Planned(i)
  <2>1. i \in 1 .. n + m /\ i \in Nat
    BY <1>6, <1>7, <1>11 DEF Plan, n, m
  <2>2. CASE i <= n
    <3>1. i \in 1 .. n /\ i <= n + 1
      BY <1>7, <2>1, <2>2
    <3>2. Planned(i) = ran[i].defer
      BY <2>2 DEF Planned, n
    <3>3. Planned(i)' = ran'[i].defer
      BY <1>7, <3>1 DEF Planned
    <3> QED BY <1>7, <3>1, <3>2, <3>3
  <2>3. CASE i = n + 1
    <3>1. ~(i <= n) /\ i - n = 1 /\ i <= n + 1
      BY <1>7, <2>3
    <3>2. Planned(i) = todo[1]
      BY <3>1 DEF Planned, n
    <3>3. Planned(i)' = ran'[i].defer
      BY <1>7, <3>1 DEF Planned
    <3> QED BY <1>7, <1>9, <2>3, <3>2, <3>3
  <2>4. CASE i > n + 1
    <3>1. /\ ~(i <= n) /\ ~(i <= n + 1) /\ i - (n + 1) \in 1 .. m - 1
          /\ (i - (n + 1)) + 1 = i - n
      BY <1>6, <1>7, <2>1, <2>4
    <3>2. Planned(i) = todo[i - n]
      BY <3>1 DEF Planned, n
    <3>3. Planned(i)' = todo'[i - (n + 1)]
      BY <1>7, <3>1 DEF Planned
    <3>4. todo'[i - (n + 1)] = todo[(i - (n + 1)) + 1]
      BY <1>1, <1>6, <3>1
    <3> QED BY <3>1, <3>2, <3>3, <3>4
  <2> QED BY <1>7, <2>1, <2>2, <2>3, <2>4
<1>12. PlanOK => PlanOK'
  <2>1. {Planned(i) : i \in Plan}' = {Planned(i) : i \in Plan}
    BY <1>10, <1>11
  <2>2. {d \in 1 .. pos - 1 : body[d] = "defer"}' = {d \in 1 .. pos - 1 : body[d] = "defer"}
    BY <1>1
  <2>3. (\A i, j \in Plan : i < j => Planned(i) > Planned(j))
         => (\A i, j \in Plan : i < j => Planned(i) > Planned(j))'
    BY <1>10, <1>11
  <2> QED BY <2>1, <2>2, <2>3 DEF PlanOK
<1>13. ExitKept => ret' = x' - Len(ran')
  BY <1>1, <1>5, <1>7
<1>14. x' \in Nat /\ todo' \in Seq(Nat)
  BY <1>1, <1>5, <1>6
<1>15. ExitOK'
  BY <1>1, <1>5, <1>7, <1>8, <1>12, <1>13, <1>14, <1>16 DEF ExitOK
<1> QED BY <1>2, <1>3, <1>4, <1>15 DEF IInv

\* A return is a jump out of every block that is open; at the end of the body
\* none is.
LEMMA LeaveStep == ASSUME IInv, Leave PROVE IInv'
<1>1. /\ pc = "exit" /\ todo = << >> /\ exit # "none" /\ pc' = "done" /\ frames' = << >>
      /\ UNCHANGED <<backend, unit, body, pos, arenas, destroyed, iters, x, registered, todo,
                     ran, exit, ret>>
  BY DEF Leave, front, heap
<1>2. BodyOK'
  BY <1>1, BodySame DEF IInv
<1>3. ControlOK'
  BY <1>1 DEF IInv, ControlOK, RegisteredOK, OwnLevel, OwnDefers
<1>4. ArenasOK'
  <2>1. frames \in Seq([at : Nat, arena : Nat]) /\ ArenasOK
    BY <1>1 DEF IInv, ControlOK, Positioned
  <2>2. Len(frames) \in Nat /\ 0 \in 0 .. Len(frames)
    BY <2>1, LenProperties
  <2>3. SubSeq(frames, 1, 0) = << >> /\ SubSeq(frames, 0 + 1, Len(frames)) = frames
    BY <2>1, SubSeqEmpty, SubSeqFull
  <2>4. \A i \in 1 .. Len(frames) : Escapable(frames[i].at)
    <3>1. Positioned(frames, pos) /\ BodyOK /\ ExitPlace(exit)
      BY <1>1 DEF IInv, ControlOK, ExitOK
    <3>2. body \in Seq(AllStmts) /\ pos \in Nat \ {0}
      BY <3>1, PositionFacts DEF BodyOK
    <3>3. CASE pos = Len(body) + 1
      <4>1. Len(frames) = 0
        <5>1. Depth(body, pos - 1) = Len(frames) /\ pos - 1 = Len(body)
          BY <3>1, <3>2, <3>3, LenProperties DEF Positioned
        <5> QED BY <1>1, <3>1, <5>1 DEF BodyOK
      <4> QED BY <4>1
    <3>4. CASE pos <= Len(body) /\ body[pos] \in Leaving
      <4>1. pos \in DOMAIN body /\ body[pos] \notin Opening \cup {"end"}
        BY <3>2, <3>4, LenProperties DEF Opening, Leaving
      <4>2. \A i \in 1 .. Len(frames) : frames[i].at \in OpenAt(body, pos)
        BY <3>1, <3>4, <4>1, FramesOpen
      <4>3. \A i \in 1 .. Len(frames) : JumpsOutOf(pos, frames[i].at)
        BY <3>4, <4>2 DEF JumpsOutOf, Leaving
      <4> QED BY <4>1, <4>3 DEF Escapable
    <3> QED BY <3>1, <3>3, <3>4 DEF ExitPlace
  <2>5. /\ frames' = SubSeq(frames, 1, 0) /\ UNCHANGED <<body, arenas>>
        /\ destroyed' = destroyed
        /\ \A i \in 0 + 1 .. Len(frames) : frames[i].arena # 0 => Escapable(frames[i].at)
    BY <1>1, <2>3, <2>4
  <2> QED BY <2>1, <2>2, <2>5, ArenasDropped
<1>5. ExitOK'
  <2>1. (Clean' <=> Clean) /\ (ExitKept' <=> ExitKept)
    BY <1>1 DEF Clean, ExitKept
  <2>2. PlanOK' <=> PlanOK
    BY <1>1 DEF PlanOK, Plan, Planned
  <2> QED BY <1>1, <2>1, <2>2 DEF IInv, ExitOK
<1> QED BY <1>2, <1>3, <1>4, <1>5 DEF IInv

\* An exit that goes on after its deferred calls keeps the frames.
LEMMA CarriesOnStep == ASSUME IInv, CarriesOn PROVE IInv'
<1>1. /\ pc = "exit" /\ todo = << >> /\ exit = "none" /\ pc' = "run" /\ pos' = pos + 1
      /\ UNCHANGED <<backend, unit, body, frames, heap, iters, x, registered, todo, ran, exit, ret>>
  BY DEF CarriesOn, front
<1>2. /\ body \in Seq(AllStmts) /\ Positioned(frames, pos) /\ RegisteredOK(registered, pos)
      /\ pos <= Len(body) /\ body[pos] = "return_unit" /\ ~Clean /\ ArenasOK
  BY <1>1 DEF IInv, BodyOK, ControlOK, ExitOK
<1>3. pos \in Nat \ {0} /\ Len(body) \in Nat
  BY <1>2, PositionFacts
<1>4. Positioned(frames, pos + 1)
  <2>1. body[pos] \notin Opening \cup {"end"}
    BY <1>2 DEF Opening
  <2> QED BY <1>2, <2>1, StepOn
<1>5. RegisteredOK(registered, pos + 1)
  <2>1. body[pos] # "defer"
    BY <1>2
  <2> QED BY <1>2, <1>3, <2>1, NoDeferHere, RegisteredSame
<1>6. BodyOK'
  BY <1>1, BodySame DEF IInv
<1>7. ControlOK'
  <2>1. (Positioned(frames, pos))'
    BY <1>1, <1>4 DEF Positioned
  <2>2. (RegisteredOK(registered, pos))'
    BY <1>1, <1>5 DEF RegisteredOK, OwnLevel, OwnDefers
  <2>3. pos' \in 1 .. Len(body') + 1
    BY <2>1 DEF Positioned
  <2> QED BY <1>1, <2>1, <2>2, <2>3 DEF IInv, ControlOK
<1>8. ExitOK'
  <2>1. Clean' <=> Clean
    BY <1>1 DEF Clean
  <2> QED BY <1>1, <1>2, <2>1 DEF IInv, ExitOK
<1>9. ArenasOK'
  BY <1>1, <1>2, ArenasSame
<1> QED BY <1>6, <1>7, <1>8, <1>9 DEF IInv
-----------------------------------------------------------------------------
\* Before the body runs there is no arena.
LEMMA NoArenas ==
  ASSUME arenas' = << >>, frames' = << >>, destroyed' = {}
  PROVE  ArenasOK'
<1>1. /\ << >> \in Seq(Nat) /\ DOMAIN << >> = {} /\ Len(<< >>) = 0 /\ 1 .. 0 = {}
  BY EmptySeq
<1>2. ArenasFreed'
  BY <1>1 DEF ArenasFreed
<1> QED BY <1>1, <1>2 DEF ArenasOK

\* One more statement that the front end accepts.
LEMMA WriteStep ==
  ASSUME IInv, NEW s \in Stmts, Write(s)
  PROVE  IInv'
<1> DEFINE n == Len(body)
           b == Append(body, s)
<1>1. /\ pc = "write" /\ Accepted(s) /\ body' = b
      /\ UNCHANGED <<backend, unit, pos, frames, heap, iters, x, registered, todo, ran, exit,
                     ret, pc>>
  BY DEF Write
<1>2. body \in Seq(AllStmts) /\ s \in AllStmts /\ n \in Nat
  BY StmtsAssumption, LenProperties DEF IInv, BodyOK
<1>3. /\ b \in Seq(AllStmts) /\ Len(b) = n + 1 /\ b[n + 1] = s
      /\ \A i \in 1 .. n : b[i] = body[i]
  BY <1>2, AppendProperties
<1>4. frames = << >> /\ pos = 1 /\ registered = << >> /\ arenas = << >>
  BY <1>1 DEF IInv, ExitOK
<1> HIDE DEF b, n
<1>5. \A p \in 0 .. n : Depth(b, p) = Depth(body, p)
  <2> SUFFICES ASSUME NEW p \in 0 .. n
               PROVE  Depth(b, p) = Depth(body, p)
    OBVIOUS
  <2>1. p \in Nat /\ \A q \in 1 .. p : b[q] = body[q]
    BY <1>2, <1>3
  <2> QED BY <2>1, DepthPrefix
<1>6. \A p \in 0 .. n : OpenAt(b, p) = OpenAt(body, p)
  <2> SUFFICES ASSUME NEW p \in 0 .. n
               PROVE  OpenAt(b, p) = OpenAt(body, p)
    OBVIOUS
  <2>1. \A q \in 1 .. p : b[q] = body[q] /\ Depth(b, q) = Depth(body, q)
    BY <1>2, <1>3, <1>5
  <2>2. \A q \in 1 .. p : \A r \in q .. p : Depth(b, r) = Depth(body, r)
    BY <1>2, <1>5
  <2> QED BY <2>1, <2>2 DEF OpenAt
<1>7. \A p \in 0 .. n + 1 : Depth(b, p) >= 0
  <2> SUFFICES ASSUME NEW p \in 0 .. n + 1
               PROVE  Depth(b, p) >= 0
    OBVIOUS
  <2>1. \A q \in 0 .. n : Depth(body, q) >= 0
    BY DEF IInv, BodyOK, n
  <2>2. CASE p \in 0 .. n
    BY <1>5, <2>1, <2>2
  <2>3. CASE p = n + 1
    <3>1. n \in 0 .. n /\ Depth(b, n) = Depth(body, n) /\ Depth(b, n) >= 0
      BY <1>2, <1>5, <2>1
    <3>2. s = "end" => Depth(body, n) > 0
      BY <1>1 DEF Accepted, n
    <3>3. /\ Depth(b, n) \in Int
          /\ s \in Opening => Depth(b, n + 1) = Depth(b, n) + 1
          /\ s = "end" => Depth(b, n + 1) = Depth(b, n) - 1
          /\ s \notin Opening \cup {"end"} => Depth(b, n + 1) = Depth(b, n)
      BY <1>2, <1>3, DepthStep
    <3> QED BY <2>3, <3>1, <3>2, <3>3
  <2> QED BY <1>2, <2>2, <2>3
<1>8. ASSUME NEW p \in 1 .. n + 1, b[p] \in {"break", "continue"}
      PROVE  \E q \in OpenAt(b, p - 1) : b[q] = "loop"
  <2>1. p - 1 \in 0 .. n
    BY <1>2
  <2>2. \A q \in OpenAt(body, p - 1) : b[q] = body[q]
    BY <1>2, <1>3, <2>1 DEF OpenAt
  <2>3. \E q \in OpenAt(body, p - 1) : body[q] = "loop"
    <3>1. CASE p \in 1 .. n
      <4>1. body[p] \in {"break", "continue"}
        BY <1>3, <1>8, <3>1
      <4> QED BY <3>1, <4>1 DEF IInv, BodyOK, n
    <3>2. CASE p = n + 1
      <4>1. s \in {"break", "continue"} /\ p - 1 = n
        BY <1>2, <1>3, <1>8, <3>2
      <4> QED BY <1>1, <4>1 DEF Accepted, n
    <3> QED BY <1>2, <3>1, <3>2
  <2> QED BY <1>6, <2>1, <2>2, <2>3
<1>9. BodyOK'
  BY <1>1, <1>3, <1>7, <1>8 DEF BodyOK
<1>10. ControlOK'
  <2>1. pos' \in 1 .. Len(body') + 1
    BY <1>1, <1>2, <1>3, <1>4
  <2>2. (RegisteredOK(registered, pos))'
    <3>1. OwnDefers(pos)' = {} /\ OwnLevel(registered)' = {}
      BY <1>1, <1>4, EmptySeq DEF OwnDefers, OwnLevel
    <3>2. registered' \in Seq([defer : Nat, arg : Nat])
      BY <1>1, <1>4, EmptySeq
    <3> QED BY <1>1, <3>1, <3>2 DEF RegisteredOK
  <2> QED BY <1>1, <2>1, <2>2 DEF IInv, ControlOK
<1>11. ExitOK'
  <2>1. Clean' => Clean
    <3>1. DOMAIN body = 1 .. n /\ DOMAIN b = 1 .. n + 1
      BY <1>2, <1>3, LenProperties DEF n
    <3>2. \A p \in 1 .. n : p \in 1 .. n + 1
      BY <1>2
    <3> QED BY <1>1, <1>3, <3>1, <3>2 DEF Clean
  <2>2. arenas' = arenas
    BY <1>1 DEF heap
  <2> QED BY <1>1, <2>1, <2>2 DEF IInv, ExitOK
<1>12. ArenasOK'
  <2>1. arenas = << >> /\ frames = << >> /\ destroyed = {}
    BY <1>4, EmptySeq DEF IInv, ArenasOK
  <2>2. arenas' = << >> /\ frames' = << >> /\ destroyed' = {}
    BY <1>1, <2>1 DEF heap
  <2> QED BY <2>2, NoArenas
<1> QED BY <1>9, <1>10, <1>11, <1>12 DEF IInv

\* A whole body is called.
LEMMA CallStep == ASSUME IInv, Call PROVE IInv'
<1>1. /\ pc = "write" /\ Depth(body, Len(body)) = 0 /\ pc' = "run"
      /\ UNCHANGED <<backend, unit, body, pos, frames, heap, iters, x, registered, todo, ran,
                     exit, ret>>
  BY DEF Call, front
<1>2. /\ body \in Seq(AllStmts) /\ frames = << >> /\ pos = 1
  BY <1>1 DEF IInv, BodyOK, ExitOK
<1>3. BodyOK'
  BY <1>1 DEF IInv, BodyOK, OpenAt
<1>4. ControlOK'
  <2>1. Len(body) \in Nat /\ Depth(body, 0) = 0
    BY <1>2, DepthZero, LenProperties
  <2>2. << >> \in Seq([at : Nat, arena : Nat]) /\ Len(<< >>) = 0
    BY EmptySeq
  <2>3. (Positioned(frames, pos))'
    BY <1>1, <1>2, <2>1, <2>2 DEF Positioned
  <2>4. (RegisteredOK(registered, pos))'
    BY <1>1 DEF IInv, ControlOK, RegisteredOK, OwnLevel, OwnDefers
  <2> QED BY <1>1, <2>3, <2>4 DEF IInv, ControlOK
<1>5. ExitOK'
  <2>1. Clean' <=> Clean
    BY <1>1 DEF Clean
  <2> QED BY <1>1, <2>1 DEF IInv, ExitOK
<1>6. ArenasOK'
  BY <1>1, ArenasSame DEF IInv
<1> QED BY <1>3, <1>4, <1>5, <1>6 DEF IInv

\* Nothing is written.
LEMMA BodyInit == Init => IInv
<1> SUFFICES ASSUME Init
             PROVE  IInv
  OBVIOUS
<1>1. /\ Len(<< >>) = 0 /\ << >> \in Seq(AllStmts) /\ << >> \in Seq(Nat)
      /\ << >> \in Seq([defer : Nat, arg : Nat])
  BY EmptySeq
<1>2. /\ backend \in {"c", "native"} /\ unit \in BOOLEAN /\ body = << >> /\ pos = 1
      /\ frames = << >> /\ arenas = << >> /\ destroyed = {} /\ iters = 0 /\ x = 0
      /\ registered = << >> /\ todo = << >> /\ ran = << >> /\ exit = "none" /\ ret = 0
      /\ pc = "write"
  BY StmtsAssumption DEF Init
<1>3. BodyOK
  <2>1. \A p \in 0 .. 0 : Depth(body, p) >= 0
    BY DepthZero
  <2> QED BY <1>1, <1>2, <2>1 DEF BodyOK
<1>4. ControlOK
  <2>1. OwnDefers(1) = {} /\ OwnLevel(registered) = {}
    BY <1>1, <1>2 DEF OwnDefers, OwnLevel
  <2>2. RegisteredOK(registered, 1)
    BY <1>1, <1>2, <2>1 DEF RegisteredOK
  <2> QED BY <1>1, <1>2, <2>2, BoundsAssumption DEF ControlOK
<1>5. ExitOK
  BY <1>1, <1>2 DEF ExitOK
<1>6. ArenasOK
  <2>1. DOMAIN << >> = {} /\ 1 .. 0 = {}
    BY <1>1
  <2>2. ArenasFreed
    BY <1>1, <1>2, <2>1 DEF ArenasFreed
  <2> QED BY <1>1, <1>2, <2>1, <2>2 DEF ArenasOK
<1> QED BY <1>3, <1>4, <1>5, <1>6 DEF IInv

\* The invariant is inductive.
LEMMA BodyStep == IInv /\ [Next]_vars => IInv'
<1> SUFFICES ASSUME IInv, [Next]_vars
             PROVE  IInv'
  OBVIOUS
<1>1. CASE \E s \in Stmts : Write(s)
  BY <1>1, WriteStep
<1>2. CASE Call \/ Assign \/ Defer \/ TryOk
  BY <1>2, CallStep, AssignStep, DeferStep, TryOkStep
<1>3. CASE EnterBranch \/ SkipBlock \/ EnterLoop \/ EnterArena \/ LeaveBlock
  BY <1>3, EnterBranchStep, SkipBlockStep, EnterLoopStep, EnterArenaStep, LeaveBlockStep
<1>4. CASE Break \/ Continue
  BY <1>4, BreakStep, ContinueStep
<1>5. CASE Return \/ ReturnUnit \/ FallOff \/ TryFails
  BY <1>5, ReturnStep, ReturnUnitStep, FallOffStep, TryFailsStep
<1>6. CASE RunDeferred \/ Leave \/ CarriesOn
  BY <1>6, RunDeferredStep, LeaveStep, CarriesOnStep
<1>7. CASE UNCHANGED vars
  <2>1. /\ UNCHANGED <<backend, unit, body, pos, frames, heap, iters, x, registered, todo, ran>>
        /\ UNCHANGED <<exit, ret, pc>>
    BY <1>7 DEF vars, front
  <2>2. BodyOK'
    BY <2>1 DEF IInv, BodyOK, OpenAt
  <2>3. ControlOK'
    BY <2>1, ControlSame DEF IInv
  <2>4. ExitOK'
    <3>1. (Clean' <=> Clean) /\ (ExitKept' <=> ExitKept)
      BY <2>1 DEF Clean, ExitKept
    <3>2. PlanOK' <=> PlanOK
      BY <2>1 DEF PlanOK, Plan, Planned
    <3>3. arenas' = arenas /\ (ExitPlace(exit)' <=> ExitPlace(exit))
      BY <2>1 DEF heap, ExitPlace
    <3> QED BY <2>1, <3>1, <3>2, <3>3 DEF IInv, ExitOK
  <2>5. ArenasOK'
    BY <2>1, ArenasSame DEF IInv
  <2> QED BY <2>2, <2>3, <2>4, <2>5 DEF IInv
<1> QED BY <1>1, <1>2, <1>3, <1>4, <1>5, <1>6, <1>7 DEF Next
-----------------------------------------------------------------------------
\* Frames, counters and lists keep their types, in particular no statement
\* outside the body is ever run, for any statements and bounds.
THEOREM TypeCorrect == Spec => []TypeOK
<1>1. IInv => TypeOK
  <2> SUFFICES ASSUME IInv PROVE TypeOK
    OBVIOUS
  <2>1. frames \in Seq([at : Nat, arena : Nat])
    <3>1. CASE pc \in {"run", "exit"}
      BY <3>1 DEF IInv, ControlOK, Positioned
    <3>2. CASE pc \in {"write", "done"}
      <4>1. frames = << >>
        BY <3>2 DEF IInv, ExitOK
      <4> QED BY <4>1, EmptySeq
    <3> QED BY <3>1, <3>2 DEF IInv, ControlOK
  <2>2. arenas \in Seq(Nat) /\ destroyed \subseteq DOMAIN arenas
    BY DEF IInv, ArenasOK
  <2>3. /\ backend \in {"c", "native"} /\ unit \in BOOLEAN /\ pos \in 1 .. Len(body) + 1
        /\ iters \in 0 .. MaxIters /\ exit \in {"none", "end", "return", "try"}
        /\ pc \in {"write", "run", "exit", "done"}
        /\ registered \in Seq([defer : Nat, arg : Nat])
    BY DEF IInv, ControlOK, RegisteredOK
  <2>4. /\ body \in Seq(AllStmts) /\ x \in Nat /\ ret \in Nat /\ todo \in Seq(Nat)
        /\ ran \in Seq([defer : Nat, arg : Nat])
    BY DEF IInv, BodyOK, ExitOK
  <2> QED BY <2>1, <2>2, <2>3, <2>4 DEF TypeOK
<1> QED BY <1>1, BodyInit, BodyStep, PTL DEF Spec

\* An arena is destroyed at the end of its block and not before, in every body
\* and through any number of loop rounds; only a block that the text has a jump
\* out of can leave its arena behind.
THEOREM ArenasFreedAtBlockEnd == Spec => []ArenasFreed
<1>1. IInv => ArenasFreed
  BY DEF IInv, ArenasOK
<1> QED BY <1>1, BodyInit, BodyStep, PTL DEF Spec

\* The returned value shows the effect of no deferred call, at every exit that
\* a back end handles, in every body.
THEOREM ValueComesFirst == Spec => []ValueBeforeDefers
<1>1. IInv => ValueBeforeDefers
  BY DEF IInv, ExitOK, ValueBeforeDefers
<1> QED BY <1>1, BodyInit, BodyStep, PTL DEF Spec

\* The calls deferred in the function's own block that were registered are run,
\* each once and the last one first, at every exit that a back end handles, in
\* every body: what the text says at the exit is what the execution registered.
THEOREM DefersReversed == Spec => []DefersRunLIFO
<1>1. IInv => DefersRunLIFO
  <2> SUFFICES ASSUME IInv, pc = "done", ExitKept
               PROVE  \E match \in Bijection(OwnLevel(ran), OwnLevel(registered)) :
                        /\ \A i \in OwnLevel(ran) : registered[match[i]].defer = ran[i].defer
                        /\ \A i, j \in OwnLevel(ran) : i < j => match[i] > match[j]
    BY DEF DefersRunLIFO
  <2> DEFINE R == OwnLevel(ran)
             G == OwnLevel(registered)
             r(i) == ran[i].defer
             g(k) == registered[k].defer
             match == [i \in R |-> CHOOSE k \in G : g(k) = r(i)]
  <2>1. /\ ran \in Seq([defer : Nat, arg : Nat]) /\ todo = << >> /\ PlanOK
        /\ RegisteredOK(registered, pos)
    BY DEF IInv, ControlOK, ExitOK
  <2>2. Len(ran) \in Nat /\ DOMAIN ran = 1 .. Len(ran) /\ Len(todo) = 0
    BY <2>1, LenProperties, EmptySeq
  <2>3. Plan = DOMAIN ran /\ \A i \in DOMAIN ran : Planned(i) = r(i)
    <3>1. Plan = 1 .. Len(ran)
      BY <2>2 DEF Plan
    <3> QED BY <2>2, <3>1 DEF Planned
  <2>4. {r(i) : i \in DOMAIN ran} = {d \in 1 .. pos - 1 : body[d] = "defer"}
    <3>1. {Planned(i) : i \in Plan} = {r(i) : i \in DOMAIN ran}
      BY <2>3
    <3> QED BY <2>1, <3>1 DEF PlanOK
  <2>5. \A i, j \in DOMAIN ran : i < j => r(i) > r(j)
    BY <2>1, <2>3 DEF PlanOK
  <2>6. R = {i \in DOMAIN ran : Depth(body, r(i)) = 0}
    BY DEF OwnLevel
  <2>7. {r(i) : i \in R} = OwnDefers(pos)
    BY <2>4, <2>6 DEF OwnDefers
  <2>8. {g(k) : k \in G} = OwnDefers(pos) /\ \A k, l \in G : k < l => g(k) < g(l)
    BY <2>1 DEF RegisteredOK
  <2>9. R \subseteq Nat /\ G \subseteq Nat
    <3>1. DOMAIN registered = 1 .. Len(registered) /\ Len(registered) \in Nat
      BY <2>1, LenProperties DEF RegisteredOK
    <3> QED BY <2>2, <3>1 DEF OwnLevel
  <2>10. \A i, j \in R : i < j => r(i) > r(j)
    BY <2>5, <2>6
  <2>11. OwnDefers(pos) \subseteq Nat
    BY DEF IInv, ControlOK, OwnDefers
  <2> HIDE DEF R, G, r, g
  <2>12. \A i \in R : r(i) \in Nat /\ \E k \in G : g(k) = r(i)
    BY <2>7, <2>8, <2>11
  <2>13. \A k \in G : g(k) \in Nat /\ \E i \in R : g(k) = r(i)
    BY <2>7, <2>8, <2>11
  <2>14. \A k, l \in G : g(k) = g(l) => k = l
    <3> SUFFICES ASSUME NEW k \in G, NEW l \in G, g(k) = g(l), k # l
                 PROVE  FALSE
      OBVIOUS
    <3>1. k < l \/ l < k
      BY <2>9
    <3> QED BY <2>8, <2>13, <3>1
  <2>15. \A i, j \in R : r(i) = r(j) => i = j
    <3> SUFFICES ASSUME NEW i \in R, NEW j \in R, r(i) = r(j), i # j
                 PROVE  FALSE
      OBVIOUS
    <3>1. i < j \/ j < i
      BY <2>9
    <3> QED BY <2>10, <2>12, <3>1
  <2>16. \A i \in R : match[i] \in G /\ g(match[i]) = r(i)
    BY <2>12
  <2>17. match \in [R -> G]
    BY <2>16
  <2> HIDE DEF match
  <2>18. match \in Bijection(R, G)
    <3>1. \A i, j \in R : match[i] = match[j] => i = j
      BY <2>15, <2>16
    <3>2. \A k \in G : \E i \in R : match[i] = k
      BY <2>13, <2>14, <2>16
    <3> QED BY <2>17, <3>1, <3>2 DEF Bijection, Injection, Surjection, IsInjective
  <2>19. \A i, j \in R : i < j => match[i] > match[j]
    <3> SUFFICES ASSUME NEW i \in R, NEW j \in R, i < j
                 PROVE  match[i] > match[j]
      OBVIOUS
    <3>1. r(i) > r(j) /\ match[i] \in G /\ match[j] \in G
      BY <2>10, <2>16
    <3>2. g(match[i]) > g(match[j])
      BY <2>16, <3>1
    <3> DEFINE k == match[i]
               l == match[j]
    <3>3. k \in G /\ l \in G /\ g(k) > g(l) /\ g(k) \in Nat /\ g(l) \in Nat
      BY <2>13, <3>1, <3>2
    <3> HIDE DEF k, l
    <3>4. ~(k < l)
      <4> SUFFICES ASSUME k < l
                   PROVE  FALSE
        OBVIOUS
      <4>1. g(k) < g(l)
        BY <2>8, <3>3
      <4> QED BY <3>3, <4>1
    <3>5. k # l
      BY <3>3
    <3>6. k > l
      BY <2>9, <3>3, <3>4, <3>5
    <3> QED BY <3>6 DEF k, l
  <2> QED BY <2>16, <2>18, <2>19 DEF R, G, r, g
<1> QED BY <1>1, BodyInit, BodyStep, PTL DEF Spec

\* Native code leaves its innermost loop by a break, from whatever blocks are
\* open inside it, and runs nothing more of the body once it began to leave.
THEOREM NativeLeavesAsTold == Spec => NativeExits
<1>1. ASSUME IInv, [Next]_vars, backend = "native"
      PROVE  /\ At("break") => (pos' = EndOf(InnermostLoop(pos)) + 1 \/ UNCHANGED vars)
             /\ pc = "exit" => pc' # "run"
  <2>1. ASSUME At("break"), ~UNCHANGED vars
        PROVE  pos' = EndOf(InnermostLoop(pos)) + 1
    <3> DEFINE k == Innermost({"loop"})
               q == frames[k].at
    <3>1. pc = "run" /\ pos <= Len(body) /\ body[pos] = "break"
      BY <2>1 DEF At
    <3>2. Breakable = {"loop"}
      BY <1>1 DEF Breakable
    <3>3. Break
      BY <1>1, <2>1, <3>1 DEF Next, Write, Call, At, Assign, Defer, TryOk, EnterBranch, SkipBlock,
        EnterLoop, EnterArena, LeaveBlock, Continue, Return, ReturnUnit, FallOff, TryFails,
        RunDeferred, Leave, CarriesOn
    <3>4. pos' = EndOf(q) + 1
      BY <3>2, <3>3 DEF Break, JumpOut
    <3>5. InnermostLoop(pos) = q
      BY <1>1, <3>1, InnermostLoopFrame DEF k
    <3> QED BY <3>4, <3>5
  <2>2. ASSUME pc = "exit"
        PROVE  pc' # "run"
    <3>1. exit # "none"
      BY <1>1, <2>2 DEF IInv, ExitOK, Clean
    <3> QED BY <1>1, <2>2, <3>1 DEF Next, Write, Call, At, Assign, Defer, TryOk, EnterBranch,
        SkipBlock, EnterLoop, EnterArena, LeaveBlock, Break, Continue, Return, ReturnUnit, FallOff,
        TryFails, RunDeferred, Leave, CarriesOn, vars
  <2> QED BY <2>1, <2>2
<1>2. IInv /\ [Next]_vars =>
        [backend = "native" => /\ At("break") => pos' = EndOf(InnermostLoop(pos)) + 1
                               /\ pc = "exit" => pc' # "run"]_vars
  BY <1>1
<1> QED BY <1>2, BodyInit, BodyStep, PTL DEF Spec, NativeExits
=============================================================================
