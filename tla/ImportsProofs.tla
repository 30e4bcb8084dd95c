--------------------------- MODULE ImportsProofs ---------------------------
(***************************************************************************)
(* Three facts about imports, for every set of files and every program.    *)
(*                                                                         *)
(* Imports are finite: no file is read while it is being read.  That is    *)
(* not inductive: an import looks at the visited set of the innermost call *)
(* only, so that set must hold every file further out, also when a call    *)
(* that shared or copied it has returned.                                  *)
(*                                                                         *)
(* A line keeps its origin: what is compiled declares, line for line, what *)
(* its origin declares, under prefixes only.  That is kept because each    *)
(* renaming, taken as a function of a text, leaves the number of lines and *)
(* the end of every declared name alone, and because a call's text and its *)
(* origins grow together.                                                  *)
(*                                                                         *)
(* A mention of a name finds its declaration, and no other, in a program   *)
(* whose namespaces are simple.  The calls that share a visited set are a  *)
(* level: the root's, and at most one of a namespace above it.  Of each    *)
(* line that the calls of a level have read, and of each line of text that *)
(* they hold, enough is known that, when the level's first call has read   *)
(* its file, everything in scope has been read, once.                      *)
(***************************************************************************)
EXTENDS Imports, SequenceTheorems, FiniteSetTheorems, WellFoundedInduction, TLAPS

CallFields == {"file", "ns", "at", "visited", "namespaces", "text", "lines"}

\* A stack of calls.
IsStack(s) == /\ \E S : s \in Seq(S)
              /\ s # << >>
              /\ \A i \in 1 .. Len(s) : DOMAIN s[i] = CallFields

\* The calls read different files, and each has visited those around it.
Distinct(s) == \A i, j \in 1 .. Len(s) : s[i].file = s[j].file => i = j
Remembered(s) == /\ \A i \in 1 .. Len(s) : s[i].file \in s[i].visited
                 /\ \A i \in 1 .. Len(s) : \A j \in 1 .. i : s[j].visited \subseteq s[i].visited

StackOK(s) == IsStack(s) /\ Distinct(s) /\ Remembered(s)
-----------------------------------------------------------------------------
\* A stack is not empty and numbered from 1.
LEMMA StackLen ==
  ASSUME NEW s, IsStack(s)
  PROVE  Len(s) \in Nat \ {0} /\ DOMAIN s = 1 .. Len(s)
<1>1. PICK S : s \in Seq(S)
  BY DEF IsStack
<1>2. s # << >>
  BY DEF IsStack
<1> QED BY <1>1, <1>2, EmptySeq, LenProperties

\* The innermost call is replaced by one for the same file.
LEMMA ReplaceTop ==
  ASSUME NEW s, StackOK(s), NEW c, DOMAIN c = CallFields,
         c.file = s[Len(s)].file, s[Len(s)].visited \subseteq c.visited
  PROVE  StackOK([s EXCEPT ![Len(s)] = c])
<1> DEFINE n == Len(s)
           t == [s EXCEPT ![n] = c]
<1>1. PICK S : s \in Seq(S)
  BY DEF StackOK, IsStack
<1>2. n \in Nat \ {0}
  BY StackLen DEF StackOK
<1>3. s \in Seq(S \cup {c})
  BY <1>1, SeqMonotonic
<1>4. /\ t \in Seq(S \cup {c}) /\ Len(t) = n
      /\ \A j \in 1 .. n : t[j] = IF j = n THEN c ELSE s[j]
  BY <1>2, <1>3, ExceptSeq
<1> HIDE DEF t
<1>5. t # << >>
  BY <1>2, <1>4, EmptySeq
<1>6. IsStack(t)
  BY <1>4, <1>5 DEF IsStack, StackOK
<1>7. \A j \in 1 .. n : t[j].file = s[j].file /\ s[j].visited \subseteq t[j].visited
  BY <1>4
<1>8. Distinct(t)
  BY <1>4, <1>7 DEF Distinct, StackOK
<1>9. Remembered(t)
  BY <1>2, <1>4, <1>7 DEF Remembered, StackOK
<1> QED BY <1>6, <1>8, <1>9 DEF StackOK, t

\* A call for a file that was not visited.
LEMMA PushCall ==
  ASSUME NEW s, StackOK(s), NEW c, DOMAIN c = CallFields, c.file \notin s[Len(s)].visited,
         c.visited = s[Len(s)].visited \cup {c.file}
  PROVE  StackOK(Append(s, c))
<1> DEFINE n == Len(s)
           t == Append(s, c)
<1>1. PICK S : s \in Seq(S)
  BY DEF StackOK, IsStack
<1>2. n \in Nat \ {0}
  BY StackLen DEF StackOK
<1>3. s \in Seq(S \cup {c})
  BY <1>1, SeqMonotonic
<1>4. /\ t \in Seq(S \cup {c}) /\ t # << >> /\ Len(t) = n + 1
      /\ \A j \in 1 .. n : t[j] = s[j]
      /\ t[n + 1] = c
  BY <1>3, AppendProperties
<1> HIDE DEF t
<1>5. IsStack(t)
  BY <1>2, <1>4 DEF IsStack, StackOK
<1>6. \A j \in 1 .. n : s[j].file \in s[n].visited
  BY <1>2 DEF StackOK, Remembered
<1>7. \A j \in 1 .. n : s[j].file # c.file
  BY <1>6
<1>8. Distinct(t)
  BY <1>2, <1>4, <1>7 DEF Distinct, StackOK
<1>9. Remembered(t)
  BY <1>2, <1>4, <1>6 DEF Remembered, StackOK
<1> QED BY <1>5, <1>8, <1>9 DEF StackOK, t

\* The innermost call returns.
LEMMA PopCall ==
  ASSUME NEW s, StackOK(s), Len(s) > 1
  PROVE  LET t == SubSeq(s, 1, Len(s) - 1)
         IN  StackOK(t) /\ Len(t) = Len(s) - 1 /\ \A j \in 1 .. Len(t) : t[j] = s[j]
<1> DEFINE n == Len(s)
           t == SubSeq(s, 1, n - 1)
<1>1. PICK S : s \in Seq(S)
  BY DEF StackOK, IsStack
<1>2. n \in Nat \ {0}
  BY StackLen DEF StackOK
<1>3. \A j \in 1 .. n - 1 : s[j] \in S
  BY <1>1, <1>2, ElementOfSeq
<1>4. t \in Seq(S) /\ Len(t) = n - 1 /\ \A j \in 1 .. n - 1 : t[j] = s[j]
  BY <1>2, <1>3, SubSeqProperties
<1> HIDE DEF t
<1>5. IsStack(t)
  BY <1>2, <1>4, EmptySeq DEF IsStack, StackOK
<1>6. Distinct(t) /\ Remembered(t)
  BY <1>2, <1>4 DEF Distinct, Remembered, StackOK
<1> QED BY <1>4, <1>5, <1>6 DEF StackOK, t
-----------------------------------------------------------------------------
\* A line that is kept does not change what was visited.
LEMMA PushedLine ==
  ASSUME NEW c, DOMAIN c = CallFields, NEW line, NEW origin
  PROVE  LET d == PushLine(c, line, origin)
         IN  DOMAIN d = CallFields /\ d.file = c.file /\ d.visited = c.visited
BY DEF PushLine, CallFields

\* Nor does the text of an import.
LEMMA AppendedSource ==
  ASSUME NEW c, DOMAIN c = CallFields, NEW text, NEW lines
  PROVE  LET d == AppendSource(c, text, lines)
         IN  DOMAIN d = CallFields /\ d.file = c.file /\ d.visited = c.visited
BY DEF AppendSource, CallFields

\* A caller forgets nothing.
LEMMA Resumed ==
  ASSUME NEW c, DOMAIN c = CallFields, NEW ns, NEW text, NEW lines, NEW visited, NEW namespaces,
         c.visited \subseteq visited
  PROVE  LET d == Resume(c, ns, text, lines, visited, namespaces)
         IN  DOMAIN d = CallFields /\ d.file = c.file /\ c.visited \subseteq d.visited
<1> DEFINE after == PushLine(AppendSource(c, text, lines), Blank, << >>)
           d == Resume(c, ns, text, lines, visited, namespaces)
<1>1. DOMAIN after = CallFields /\ after.file = c.file /\ after.visited = c.visited
  BY AppendedSource, PushedLine
<1>2. CASE ns = ""
  <2>1. d = [after EXCEPT !.at = @ + 1, !.visited = visited, !.namespaces = namespaces]
    BY <1>2 DEF Resume
  <2> HIDE DEF after, d
  <2>2. DOMAIN d = DOMAIN after
    BY <2>1
  <2>3. d.file = after.file /\ d.visited = visited
    BY <1>1, <2>1 DEF CallFields
  <2> QED BY <1>1, <2>2, <2>3 DEF d
<1>3. CASE ns # ""
  <2>1. d = [after EXCEPT !.at = @ + 1, !.namespaces = (@ \o <<ns>>) \o namespaces]
    BY <1>3 DEF Resume
  <2> HIDE DEF after, d
  <2>2. DOMAIN d = DOMAIN after
    BY <2>1
  <2>3. d.file = after.file /\ d.visited = after.visited
    BY <1>1, <2>1 DEF CallFields
  <2> QED BY <1>1, <2>2, <2>3 DEF d
<1> QED BY <1>2, <1>3
-----------------------------------------------------------------------------
StackInv == StackOK(calls)

\* The file of the command line is read first.
LEMMA StackInit == Init => StackInv
<1> SUFFICES ASSUME Init PROVE StackOK(<<Call(Root, "", {}, << >>)>>)
  BY DEF Init, StackInv
<1> DEFINE c == Call(Root, "", {}, << >>)
           s == <<c>>
<1>1. DOMAIN c = CallFields /\ c.file \in c.visited
  BY DEF Call, CallFields
<1> HIDE DEF c
<1>2. s \in Seq({c}) /\ Len(s) = 1 /\ s[1] = c /\ s # << >>
  OBVIOUS
<1> HIDE DEF s
<1>3. IsStack(s) /\ Distinct(s) /\ Remembered(s)
  BY <1>1, <1>2 DEF IsStack, Distinct, Remembered
<1> QED BY <1>3 DEF StackOK, s, c

\* What is known of the innermost call.
LEMMA TopCall ==
  ASSUME StackInv
  PROVE  DOMAIN Top = CallFields /\ Len(calls) \in Nat \ {0}
<1>1. Len(calls) \in Nat \ {0}
  BY StackLen DEF StackInv, StackOK
<1> QED BY <1>1 DEF StackInv, StackOK, IsStack, Top

\* A line that is copied.
LEMMA CopyStep == ASSUME StackInv, CopyLine PROVE StackInv'
<1> DEFINE line == [decl |-> Current.decl, refs |-> Current.refs]
           d == PushLine(Top, line, <<Top.file, Top.at>>)
           c == [d EXCEPT !.at = @ + 1]
<1>1. DOMAIN d = CallFields /\ d.file = Top.file /\ d.visited = Top.visited
  BY TopCall, PushedLine
<1>2. calls' = [calls EXCEPT ![Len(calls)] = c]
  BY DEF CopyLine, Replaced
<1> HIDE DEF d
<1>3. DOMAIN c = DOMAIN d
  OBVIOUS
<1>4. c.file = d.file /\ c.visited = d.visited
  BY <1>1 DEF CallFields
<1> HIDE DEF c
<1>5. StackOK([calls EXCEPT ![Len(calls)] = c])
  BY <1>1, <1>3, <1>4, ReplaceTop DEF StackInv, Top
<1> QED BY <1>2, <1>5 DEF StackInv

\* An import of a file that was not visited.
LEMMA ImportStep == ASSUME StackInv, Import PROVE StackInv'
<1> DEFINE c == Enter(Top, Current)
<1>1. Current.file \notin Top.visited /\ calls' = Append(calls, c)
  BY DEF Import
<1>2. DOMAIN c = CallFields /\ c.file = Current.file /\ c.visited = Top.visited \cup {c.file}
  BY DEF Enter, Call, CallFields
<1> HIDE DEF c
<1>3. StackOK(Append(calls, c))
  BY <1>1, <1>2, PushCall DEF StackInv, Top
<1> QED BY <1>1, <1>3 DEF StackInv

\* An import of one that was.
LEMMA SkipStep == ASSUME StackInv, SkipVisited PROVE StackInv'
<1> DEFINE ns == ParseAsClause(Current)
           nothing == << >>
           namespaces == IF ns = "" THEN Top.namespaces ELSE << >>
           c == Resume(Top, ns, nothing, nothing, Top.visited, namespaces)
<1>1. calls' = [calls EXCEPT ![Len(calls)] = c]
  BY DEF SkipVisited, Replaced
<1> HIDE DEF ns, nothing, namespaces
<1>2. DOMAIN c = CallFields /\ c.file = Top.file /\ Top.visited \subseteq c.visited
  BY TopCall, Resumed
<1> HIDE DEF c
<1>3. StackOK([calls EXCEPT ![Len(calls)] = c])
  BY <1>2, ReplaceTop DEF StackInv, Top
<1> QED BY <1>1, <1>3 DEF StackInv

\* The caller takes over what a call visited, or keeps its own.
LEMMA ReturnStep == ASSUME StackInv, Return PROVE StackInv'
<1> DEFINE n == Len(calls)
           rest == SubSeq(calls, 1, n - 1)
           caller == calls[n - 1]
           text == IF Top.ns = "" THEN Top.text ELSE MangleTopLevelNames(Top.text, Top.ns)
           c == Resume(caller, Top.ns, text, Top.lines, Top.visited, Top.namespaces)
<1>1. n > 1 /\ calls' = [rest EXCEPT ![n - 1] = c]
  BY DEF Return
<1>2. n \in Nat \ {0} /\ Top = calls[n]
  BY TopCall DEF Top
<1>3. StackOK(rest) /\ Len(rest) = n - 1 /\ rest[n - 1] = caller
  <2>1. StackOK(rest) /\ Len(rest) = n - 1 /\ \A j \in 1 .. Len(rest) : rest[j] = calls[j]
    BY <1>1, PopCall DEF StackInv
  <2>2. n - 1 \in 1 .. (n - 1)
    <3>1. \A m \in Nat : m > 1 => m - 1 \in 1 .. (m - 1)
      OBVIOUS
    <3> QED BY <1>1, <1>2, <3>1
  <2> HIDE DEF rest
  <2> QED BY <2>1, <2>2
<1>4. DOMAIN caller = CallFields /\ caller.visited \subseteq Top.visited
  <2>1. n \in 1 .. n /\ n - 1 \in 1 .. n
    <3>1. \A m \in Nat : m > 1 => m \in 1 .. m /\ m - 1 \in 1 .. m
      OBVIOUS
    <3> QED BY <1>1, <1>2, <3>1
  <2> QED BY <1>2, <2>1 DEF StackInv, StackOK, IsStack, Remembered
<1> HIDE DEF text, caller
<1>5. DOMAIN c = CallFields /\ c.file = caller.file /\ caller.visited \subseteq c.visited
  BY <1>4, Resumed
<1> HIDE DEF c, rest
<1>6. StackOK([rest EXCEPT ![Len(rest)] = c])
  BY <1>3, <1>5, ReplaceTop
<1> QED BY <1>1, <1>3, <1>6 DEF StackInv

\* The invariant is inductive.
LEMMA StackStep == StackInv /\ [Next]_vars => StackInv'
<1> SUFFICES ASSUME StackInv, [Next]_vars PROVE StackInv'
  OBVIOUS
<1>1. CASE UNCHANGED vars \/ MissingFile \/ Finish
  BY <1>1 DEF vars, MissingFile, Finish, StackInv
<1> QED BY <1>1, CopyStep, ImportStep, SkipStep, ReturnStep DEF Next

\* As many files are being read as there are calls: import resolution cannot
\* go round a cycle, so the stack is no deeper than there are files.
THEOREM NoFileTwice == Spec => []CyclesCut
<1>1. StackInv => CyclesCut
  <2> SUFFICES ASSUME StackInv PROVE CyclesCut
    OBVIOUS
  <2> DEFINE n == Len(calls)
             T == {calls[j].file : j \in DOMAIN calls}
             f == [j \in 1 .. n |-> calls[j].file]
  <2>1. n \in Nat /\ DOMAIN calls = 1 .. n
    BY StackLen DEF StackInv, StackOK
  <2>2. f \in Surjection(1 .. n, T)
    BY <2>1 DEF Surjection
  <2>3. f \in Injection(1 .. n, T)
    BY <2>1 DEF Injection, IsInjective, StackInv, StackOK, Distinct
  <2>4. IsFiniteSet(1 .. n) /\ Cardinality(1 .. n) = n
    <3>1. IsFiniteSet(1 .. n) /\ Cardinality(1 .. n) = IF 1 > n THEN 0 ELSE n - 1 + 1
      BY <2>1, FS_Interval
    <3> QED BY <2>1, <3>1
  <2>5. Cardinality(T) = n
    BY <2>2, <2>3, <2>4, FS_Surjection
  <2> QED BY <2>5 DEF CyclesCut
<1> QED BY <1>1, StackInit, StackStep, PTL DEF Spec
-----------------------------------------------------------------------------
\* A set of numbers that is not empty has a least one.
LEMMA LeastNat ==
  ASSUME NEW T \in SUBSET Nat, T # {}
  PROVE  \E x \in T : \A y \in T : x <= y
<1> DEFINE R == OpToRel(<, Nat)
<1>1. \E x \in T : \A y \in T : ~(<<y, x>> \in R)
  <2>1. IsWellFoundedOn(R, Nat)
    BY NatLessThanWellFounded
  <2> HIDE DEF R
  <2> QED BY <2>1, WFMin
<1>2. PICK x \in T : \A y \in T : ~(<<y, x>> \in R)
  BY <1>1
<1>3. ASSUME NEW y \in T
      PROVE  x <= y
  <2>1. x \in Nat /\ y \in Nat
    BY <1>2
  <2>2. ~(y < x)
    <3>1. <<y, x>> \in Nat \X Nat
      BY <2>1
    <3> QED BY <1>2, <3>1 DEF OpToRel
  <2> HIDE <1>2
  <2> QED BY <2>1, <2>2
<1> QED BY <1>3

\* One pass per namespace: the recursive function exists.
LEMMA UndotExists ==
  ASSUME NEW text, NEW namespaces, NEW n \in Nat
  PROVE  \E f : f = [j \in 0 .. n |->
                       IF j = 0 THEN text ELSE ReplaceNsDot(f[j - 1], namespaces[j])]
<1> DEFINE passes(f, k) == f = [j \in 0 .. k |->
                       IF j = 0 THEN text ELSE ReplaceNsDot(f[j - 1], namespaces[j])]
           T == {k \in Nat : ~ \E f : passes(f, k)}
<1>1. T \in SUBSET Nat
  OBVIOUS
<1>2. ASSUME NEW k \in T, \A y \in T : k <= y
      PROVE  FALSE
  <2>1. CASE k = 0
    <3> DEFINE f == [j \in 0 .. 0 |-> text]
    <3>1. f = [j \in 0 .. 0 |->
                 IF j = 0 THEN text ELSE ReplaceNsDot(f[j - 1], namespaces[j])]
      OBVIOUS
    <3> QED BY <1>2, <2>1, <3>1
  <2>2. CASE k # 0
    <3>1. k - 1 \in Nat /\ k \in Nat /\ ~(k <= k - 1)
      BY <1>2, <2>2
    <3>2. PICK f : passes(f, k - 1)
      BY <1>2, <3>1
    <3> DEFINE g == [j \in 0 .. k |->
                       IF j = k THEN ReplaceNsDot(f[k - 1], namespaces[k]) ELSE f[j]]
    <3>3. ASSUME NEW j \in 0 .. k
          PROVE  g[j] = IF j = 0 THEN text ELSE ReplaceNsDot(g[j - 1], namespaces[j])
      <4>1. CASE j = 0
        <5>1. 0 \in 0 .. k - 1 /\ 0 # k
          BY <3>1, <2>2
        <5> QED BY <3>2, <4>1, <5>1
      <4>2. CASE j = k
        <5>1. k - 1 \in 0 .. k /\ k - 1 # k
          BY <3>1
        <5> QED BY <2>2, <4>2, <5>1
      <4>3. CASE j # 0 /\ j # k
        <5>1. j \in 0 .. k - 1 /\ j - 1 \in 0 .. k /\ j - 1 # k
          BY <3>1, <4>3
        <5>2. f[j] = ReplaceNsDot(f[j - 1], namespaces[j])
          BY <3>2, <4>3, <5>1
        <5>3. g[j] = f[j] /\ g[j - 1] = f[j - 1]
          BY <4>3, <5>1
        <5> QED BY <4>3, <5>2, <5>3
      <4> QED BY <4>1, <4>2, <4>3
    <3>4. g = [j \in 0 .. k |->
                 IF j = 0 THEN text ELSE ReplaceNsDot(g[j - 1], namespaces[j])]
      BY <3>3
    <3> QED BY <1>2, <3>4
  <2> QED BY <2>1, <2>2
<1>3. T = {}
  BY <1>1, <1>2, LeastNat
<1> QED BY <1>3

-----------------------------------------------------------------------------
IsSeq(s) == \E S : s \in Seq(S)

\* A declaration under the name it has in the text, from the line it was read
\* from: renaming only puts words before it.
LineTracked(decl, o) ==
  IF decl = << >> THEN o = << >> \/ SourceLine(o).decl = << >>
  ELSE /\ o # << >> /\ IsSeq(decl)
       /\ \E m \in 1 .. Len(decl) : SubSeq(decl, m, Len(decl)) = SourceLine(o).decl

Tracked(text, lines) ==
  /\ IsSeq(text) /\ IsSeq(lines) /\ Len(text) = Len(lines)
  /\ \A j \in 1 .. Len(text) :
       DOMAIN text[j] = {"decl", "refs"} /\ LineTracked(text[j].decl, lines[j])

CallTracked(c) ==
  /\ c.file \in Files /\ c.at \in Nat \ {0} /\ IsSeq(c.namespaces)
  /\ Tracked(c.text, c.lines)

\* A sequence is numbered from 1 and made of its own elements.
LEMMA SeqFacts ==
  ASSUME NEW s, IsSeq(s)
  PROVE  /\ Len(s) \in Nat /\ DOMAIN s = 1 .. Len(s) /\ (Len(s) = 0 => s = << >>)
         /\ s \in Seq({s[i] : i \in 1 .. Len(s)})
<1>1. PICK S : s \in Seq(S)
  BY DEF IsSeq
<1>2. Len(s) \in Nat /\ s \in [1 .. Len(s) -> S] /\ DOMAIN s = 1 .. Len(s)
  BY <1>1, LenProperties
<1>3. Len(s) = 0 => s = << >>
  BY <1>1, EmptySeq
<1>4. s \in [1 .. Len(s) -> {s[i] : i \in 1 .. Len(s)}]
  BY <1>2
<1>5. s \in Seq({s[i] : i \in 1 .. Len(s)})
  <2> DEFINE T == {s[i] : i \in 1 .. Len(s)}
  <2> HIDE DEF T
  <2>1. s \in [1 .. Len(s) -> T]
    BY <1>4 DEF T
  <2>2. s \in Seq(T)
    BY <1>2, <2>1, SeqDef
  <2> QED BY <2>2 DEF T
<1> QED BY <1>2, <1>3, <1>5

\* What is done to every element leaves a sequence of the same length.
LEMMA MappedSeq ==
  ASSUME NEW s, IsSeq(s), NEW t, DOMAIN t = DOMAIN s, t = [j \in DOMAIN s |-> t[j]]
  PROVE  IsSeq(t) /\ Len(t) = Len(s)
<1> DEFINE n == Len(s)
           T == {t[j] : j \in 1 .. n}
<1>1. n \in Nat /\ DOMAIN s = 1 .. n
  BY SeqFacts
<1> HIDE DEF n
<1>2. t \in [1 .. n -> T]
  BY <1>1
<1> HIDE DEF T
<1>3. t \in Seq(T)
  BY <1>1, <1>2, SeqDef
<1>4. Len(t) \in Nat /\ 1 .. Len(t) = 1 .. n
  BY <1>1, <1>3, LenProperties
<1>5. Len(t) = n
  BY <1>1, <1>4
<1> QED BY <1>3, <1>5 DEF IsSeq, n

\* Two sequences, one after the other.
LEMMA JoinedSeq ==
  ASSUME NEW s, IsSeq(s), NEW t, IsSeq(t)
  PROVE  /\ IsSeq(s \o t) /\ Len(s \o t) = Len(s) + Len(t)
         /\ \A j \in 1 .. Len(s) + Len(t) :
              (s \o t)[j] = IF j <= Len(s) THEN s[j] ELSE t[j - Len(s)]
<1>1. PICK S : s \in Seq(S)
  BY DEF IsSeq
<1>2. PICK T : t \in Seq(T)
  BY DEF IsSeq
<1>3. s \in Seq(S \cup T) /\ t \in Seq(S \cup T)
  BY <1>1, <1>2, SeqMonotonic
<1> QED BY <1>3, ConcatProperties DEF IsSeq

\* A sequence and one element more.
LEMMA OneMore ==
  ASSUME NEW s, IsSeq(s), NEW e
  PROVE  /\ IsSeq(Append(s, e)) /\ Len(Append(s, e)) = Len(s) + 1
         /\ \A j \in 1 .. Len(s) : Append(s, e)[j] = s[j]
         /\ Append(s, e)[Len(s) + 1] = e
<1>1. PICK S : s \in Seq(S)
  BY DEF IsSeq
<1>2. s \in Seq(S \cup {e})
  BY <1>1, SeqMonotonic
<1> QED BY <1>2, AppendProperties DEF IsSeq

\* A renamed name ends as it did.
LEMMA Renamed ==
  ASSUME NEW w, NEW o, LineTracked(w, o), w # << >>, NEW ns
  PROVE  <<ns>> \o w # << >> /\ LineTracked(<<ns>> \o w, o)
<1> DEFINE x == <<ns>> \o w
           n == Len(w)
<1>1. o # << >> /\ IsSeq(w) /\ \E m \in 1 .. n : SubSeq(w, m, n) = SourceLine(o).decl
  BY DEF LineTracked
<1>2. IsSeq(<<ns>>) /\ Len(<<ns>>) = 1
  <2>1. <<ns>> \in Seq({ns}) /\ Len(<<ns>>) = 1
    OBVIOUS
  <2> QED BY <2>1 DEF IsSeq
<1>3. n \in Nat
  BY <1>1, SeqFacts
<1>4. IsSeq(x) /\ Len(x) = n + 1 /\ \A j \in 1 .. n : x[j + 1] = w[j]
  <2>1. /\ IsSeq(x) /\ Len(x) = 1 + n
        /\ \A j \in 1 .. 1 + n : x[j] = IF j <= 1 THEN <<ns>>[j] ELSE w[j - 1]
    BY <1>1, <1>2, JoinedSeq
  <2>2. \A j \in 1 .. n : j + 1 \in 1 .. 1 + n /\ ~(j + 1 <= 1) /\ (j + 1) - 1 = j
    BY <1>3
  <2> HIDE DEF x
  <2> QED BY <1>3, <2>1, <2>2
<1> HIDE DEF x
<1>5. PICK m \in 1 .. n : SubSeq(w, m, n) = SourceLine(o).decl
  BY <1>1
<1>6. SubSeq(x, m + 1, n + 1) = SubSeq(w, m, n)
  <2> DEFINE S == {w[j] : j \in 1 .. n}
             a == SubSeq(x, m + 1, n + 1)
             b == SubSeq(w, m, n)
  <2>1. m \in Nat /\ m >= 1 /\ m <= n
    BY <1>3, <1>5
  <2>2. \A j \in m .. n : w[j] \in S
    BY <1>3, <2>1
  <2>3. \A j \in m + 1 .. n + 1 : x[j] \in S
    <3> TAKE j \in m + 1 .. n + 1
    <3>1. j - 1 \in 1 .. n /\ (j - 1) + 1 = j
      BY <1>3, <2>1
    <3> QED BY <1>4, <3>1
  <2> HIDE DEF S
  <2>4. /\ b \in Seq(S) /\ Len(b) = IF m <= n THEN n - m + 1 ELSE 0
        /\ \A i \in 1 .. n - m + 1 : b[i] = w[m + i - 1]
    BY <1>3, <2>1, <2>2, SubSeqProperties
  <2>5. /\ a \in Seq(S)
        /\ Len(a) = IF m + 1 <= n + 1 THEN (n + 1) - (m + 1) + 1 ELSE 0
        /\ \A i \in 1 .. (n + 1) - (m + 1) + 1 : a[i] = x[(m + 1) + i - 1]
    BY <1>3, <2>1, <2>3, SubSeqProperties
  <2> HIDE DEF a, b
  <2>6. Len(a) = Len(b) /\ Len(b) = n - m + 1
    BY <1>3, <2>1, <2>4, <2>5
  <2>7. ASSUME NEW i \in 1 .. Len(a)
        PROVE  a[i] = b[i]
    <3>1. /\ i \in 1 .. n - m + 1 /\ i \in 1 .. (n + 1) - (m + 1) + 1
          /\ (m + 1) + i - 1 = (m + i - 1) + 1 /\ m + i - 1 \in 1 .. n
      BY <1>3, <2>1, <2>6
    <3>2. a[i] = x[(m + i - 1) + 1]
      BY <2>5, <3>1
    <3> QED BY <1>4, <2>4, <3>1, <3>2
  <2>8. a = b
    BY <2>4, <2>5, <2>6, <2>7, SeqEqual
  <2> QED BY <2>8 DEF a, b
<1>7. m + 1 \in 1 .. Len(x) /\ SubSeq(x, m + 1, Len(x)) = SourceLine(o).decl
  BY <1>3, <1>4, <1>5, <1>6
<1>8. x # << >>
  <2>1. Len(x) # 0
    BY <1>3, <1>4
  <2> QED BY <2>1, EmptySeq
<1>9. x # << >> /\ LineTracked(x, o)
  BY <1>1, <1>4, <1>7, <1>8 DEF LineTracked
<1> QED BY <1>9 DEF x

\* The renaming of a namespace keeps every line where it was.
LEMMA MangledTracked ==
  ASSUME NEW text, NEW lines, Tracked(text, lines), NEW ns
  PROVE  Tracked(MangleTopLevelNames(text, ns), lines)
<1> DEFINE names == FindTopLevelNames(text)
           word(w) == IF w \in names THEN <<ns>> \o w ELSE w
           t == [j \in DOMAIN text |->
                  [decl |-> word(text[j].decl),
                   refs |-> [i \in DOMAIN text[j].refs |->
                               Ref(word(text[j].refs[i].q), word(text[j].refs[i].n))]]]
<1>1. MangleTopLevelNames(text, ns) = t
  BY DEF MangleTopLevelNames
<1>2. /\ IsSeq(text) /\ IsSeq(lines) /\ Len(text) = Len(lines) /\ DOMAIN text = 1 .. Len(text)
      /\ \A j \in 1 .. Len(text) :
           DOMAIN text[j] = {"decl", "refs"} /\ LineTracked(text[j].decl, lines[j])
  BY SeqFacts DEF Tracked
<1>3. << >> \notin names
  BY DEF FindTopLevelNames
<1> HIDE DEF names
<1>4. /\ DOMAIN t = DOMAIN text /\ t = [j \in DOMAIN text |-> t[j]]
      /\ \A j \in DOMAIN text :
           DOMAIN t[j] = {"decl", "refs"} /\ t[j].decl = word(text[j].decl)
  OBVIOUS
<1> HIDE DEF t
<1>5. IsSeq(t) /\ Len(t) = Len(text)
  BY <1>2, <1>4, MappedSeq
<1>6. ASSUME NEW j \in 1 .. Len(text)
      PROVE  LineTracked(t[j].decl, lines[j])
  <2> DEFINE w == text[j].decl
  <2>1. LineTracked(w, lines[j]) /\ t[j].decl = word(w)
    BY <1>2, <1>4
  <2> HIDE DEF w
  <2>2. CASE w \in names
    <3>1. w # << >>
      BY <1>3, <2>2
    <3> QED BY <2>1, <2>2, <3>1, Renamed
  <2>3. CASE w \notin names
    BY <2>1, <2>3
  <2> QED BY <2>2, <2>3
<1>7. Tracked(t, lines)
  BY <1>2, <1>4, <1>5, <1>6 DEF Tracked
<1> QED BY <1>1, <1>7

\* The dots of a namespace are only in what a line mentions.
LEMMA DotsTracked ==
  ASSUME NEW text, NEW lines, Tracked(text, lines), NEW ns
  PROVE  Tracked(ReplaceNsDot(text, ns), lines)
<1> DEFINE refs(j) == [i \in DOMAIN text[j].refs |->
              IF text[j].refs[i].q = <<ns>> THEN Ref(<< >>, <<ns>> \o text[j].refs[i].n)
              ELSE text[j].refs[i]]
           t == [j \in DOMAIN text |-> [text[j] EXCEPT !.refs = refs(j)]]
<1>1. ReplaceNsDot(text, ns) = t
  BY DEF ReplaceNsDot
<1>2. /\ IsSeq(text) /\ IsSeq(lines) /\ Len(text) = Len(lines) /\ DOMAIN text = 1 .. Len(text)
      /\ \A j \in 1 .. Len(text) :
           DOMAIN text[j] = {"decl", "refs"} /\ LineTracked(text[j].decl, lines[j])
  BY SeqFacts DEF Tracked
<1> HIDE DEF refs
<1>3. DOMAIN t = DOMAIN text /\ t = [j \in DOMAIN text |-> t[j]]
  OBVIOUS
<1>4. ASSUME NEW j \in 1 .. Len(text)
      PROVE  DOMAIN t[j] = {"decl", "refs"} /\ t[j].decl = text[j].decl
  BY <1>2
<1> HIDE DEF t
<1>5. IsSeq(t) /\ Len(t) = Len(text)
  BY <1>2, <1>3, MappedSeq
<1>6. Tracked(t, lines)
  BY <1>2, <1>4, <1>5 DEF Tracked
<1> QED BY <1>1, <1>6

\* Nor do the dots of all namespaces, one pass after the other.
LEMMA UndottedTracked ==
  ASSUME NEW text, NEW lines, Tracked(text, lines), NEW namespaces, IsSeq(namespaces)
  PROVE  Tracked(Undotted(text, namespaces), lines)
<1> DEFINE n == Len(namespaces)
           pass == CHOOSE f : f = [j \in 0 .. n |->
                     IF j = 0 THEN text ELSE ReplaceNsDot(f[j - 1], namespaces[j])]
           T == {j \in 0 .. n : ~Tracked(pass[j], lines)}
<1>1. Undotted(text, namespaces) = pass[n]
  BY DEF Undotted
<1>2. n \in Nat
  BY SeqFacts
<1> HIDE DEF n
<1>3. pass = [j \in 0 .. n |->
                IF j = 0 THEN text ELSE ReplaceNsDot(pass[j - 1], namespaces[j])]
  BY <1>2, UndotExists
<1> HIDE DEF pass
<1>4. T \in SUBSET Nat
  OBVIOUS
<1>5. ASSUME NEW j \in T, \A y \in T : j <= y
      PROVE  FALSE
  <2>1. j \in 0 .. n /\ ~Tracked(pass[j], lines)
    BY <1>5
  <2>2. CASE j = 0
    BY <1>3, <2>1, <2>2
  <2>3. CASE j # 0
    <3>1. j - 1 \in 0 .. n /\ ~(j <= j - 1)
      BY <1>2, <2>1, <2>3
    <3>2. Tracked(pass[j - 1], lines)
      BY <1>5, <3>1
    <3>3. pass[j] = ReplaceNsDot(pass[j - 1], namespaces[j])
      BY <1>3, <2>1, <2>3
    <3> QED BY <2>1, <3>2, <3>3, DotsTracked
  <2> QED BY <2>2, <2>3
<1>6. T = {}
  <2> HIDE DEF T
  <2> QED BY <1>4, <1>5, LeastNat
<1>7. Tracked(pass[n], lines)
  BY <1>2, <1>6
<1> QED BY <1>1, <1>7

\* One line with its origin more.
LEMMA LineAdded ==
  ASSUME NEW text, NEW lines, Tracked(text, lines), NEW line, NEW o,
         DOMAIN line = {"decl", "refs"}, LineTracked(line.decl, o)
  PROVE  Tracked(Append(text, line), Append(lines, o))
<1> DEFINE t == Append(text, line)
           l == Append(lines, o)
           n == Len(text)
<1>1. /\ IsSeq(text) /\ IsSeq(lines) /\ n = Len(lines) /\ n \in Nat
      /\ \A j \in 1 .. n :
           DOMAIN text[j] = {"decl", "refs"} /\ LineTracked(text[j].decl, lines[j])
  BY SeqFacts DEF Tracked
<1>2. IsSeq(t) /\ Len(t) = n + 1 /\ t[n + 1] = line /\ \A j \in 1 .. n : t[j] = text[j]
  BY <1>1, OneMore
<1>3. IsSeq(l) /\ Len(l) = n + 1 /\ l[n + 1] = o /\ \A j \in 1 .. n : l[j] = lines[j]
  BY <1>1, OneMore
<1> HIDE DEF t, l, n
<1>4. \A j \in 1 .. n + 1 : j \in 1 .. n \/ j = n + 1
  BY <1>1
<1>5. \A j \in 1 .. n + 1 : DOMAIN t[j] = {"decl", "refs"} /\ LineTracked(t[j].decl, l[j])
  BY <1>1, <1>2, <1>3, <1>4
<1>6. Tracked(t, l)
  BY <1>2, <1>3, <1>5 DEF Tracked
<1> QED BY <1>6 DEF t, l

\* The text of an import, with its origins, after the text of its caller.
LEMMA TextAdded ==
  ASSUME NEW text, NEW lines, Tracked(text, lines), NEW more, NEW from, Tracked(more, from)
  PROVE  Tracked(text \o more, lines \o from)
<1> DEFINE t == text \o more
           l == lines \o from
           n == Len(text)
           k == Len(more)
<1>1. /\ IsSeq(text) /\ IsSeq(lines) /\ n = Len(lines) /\ n \in Nat
      /\ \A j \in 1 .. n :
           DOMAIN text[j] = {"decl", "refs"} /\ LineTracked(text[j].decl, lines[j])
  BY SeqFacts DEF Tracked
<1>2. /\ IsSeq(more) /\ IsSeq(from) /\ k = Len(from) /\ k \in Nat
      /\ \A j \in 1 .. k :
           DOMAIN more[j] = {"decl", "refs"} /\ LineTracked(more[j].decl, from[j])
  BY SeqFacts DEF Tracked
<1>3. IsSeq(t) /\ Len(t) = n + k
      /\ \A j \in 1 .. n + k : t[j] = IF j <= n THEN text[j] ELSE more[j - n]
  BY <1>1, <1>2, JoinedSeq
<1>4. IsSeq(l) /\ Len(l) = n + k
      /\ \A j \in 1 .. n + k : l[j] = IF j <= n THEN lines[j] ELSE from[j - n]
  BY <1>1, <1>2, JoinedSeq
<1> HIDE DEF t, l, n, k
<1>5. ASSUME NEW j \in 1 .. n + k
      PROVE  DOMAIN t[j] = {"decl", "refs"} /\ LineTracked(t[j].decl, l[j])
  <2>1. CASE j <= n
    <3>1. j \in 1 .. n
      BY <1>1, <2>1
    <3> QED BY <1>1, <1>3, <1>4, <2>1, <3>1
  <2>2. CASE ~(j <= n)
    <3>1. j - n \in 1 .. k
      BY <1>1, <1>2, <2>2
    <3> QED BY <1>2, <1>3, <1>4, <2>2, <3>1
  <2> QED BY <2>1, <2>2
<1>6. Tracked(t, l)
  BY <1>3, <1>4, <1>5 DEF Tracked
<1> QED BY <1>6 DEF t, l

-----------------------------------------------------------------------------
AllTracked(s) == \A i \in 1 .. Len(s) : CallTracked(s[i])

SourceTracked ==
  status = "resolved" => Tracked(source.text, source.lines)

TextInv ==
  /\ StackInv
  /\ files \in Programs /\ present \subseteq Files
  /\ AllTracked(calls) /\ SourceTracked

\* What is tracked stays so: the files do not change while they are read.
LEMMA SameFiles ==
  ASSUME UNCHANGED files, AllTracked(calls')
  PROVE  AllTracked(calls)'
BY DEF AllTracked, CallTracked, Tracked, LineTracked, SourceLine

\* A new line, the text of an import, and a caller that goes on.
LEMMA PushedLineTracked ==
  ASSUME NEW c, DOMAIN c = CallFields, CallTracked(c), NEW line, NEW o,
         DOMAIN line = {"decl", "refs"}, LineTracked(line.decl, o)
  PROVE  CallTracked([PushLine(c, line, o) EXCEPT !.at = @ + 1])
<1> DEFINE d == [c EXCEPT !.text = Append(@, line), !.lines = Append(@, o)]
           e == [d EXCEPT !.at = @ + 1]
<1>1. /\ DOMAIN d = CallFields /\ d.file = c.file /\ d.at = c.at /\ d.namespaces = c.namespaces
      /\ d.text = Append(c.text, line) /\ d.lines = Append(c.lines, o)
  BY DEF CallFields
<1>2. PushLine(c, line, o) = d
  BY DEF PushLine
<1> HIDE DEF d
<1>3. /\ e.file = d.file /\ e.at = d.at + 1 /\ e.namespaces = d.namespaces
      /\ e.text = d.text /\ e.lines = d.lines
  BY <1>1 DEF CallFields
<1> HIDE DEF e
<1>4. Tracked(e.text, e.lines)
  BY <1>1, <1>3, LineAdded DEF CallTracked
<1>5. CallTracked(e)
  BY <1>1, <1>3, <1>4 DEF CallTracked
<1> QED BY <1>2, <1>5 DEF e

\* A caller that goes on after an import.
LEMMA ResumedTracked ==
  ASSUME NEW c, DOMAIN c = CallFields, CallTracked(c), NEW ns, NEW text, NEW lines,
         Tracked(text, lines), NEW visited, NEW namespaces, IsSeq(namespaces)
  PROVE  CallTracked(Resume(c, ns, text, lines, visited, namespaces))
<1> DEFINE a == AppendSource(c, text, lines)
           b == PushLine(a, Blank, << >>)
           d == Resume(c, ns, text, lines, visited, namespaces)
<1>1. /\ DOMAIN a = CallFields /\ a.file = c.file /\ a.at = c.at /\ a.namespaces = c.namespaces
      /\ a.text = c.text \o text /\ a.lines = c.lines \o lines
  BY DEF AppendSource, CallFields
<1> HIDE DEF a
<1>2. /\ DOMAIN b = CallFields /\ b.file = a.file /\ b.at = a.at /\ b.namespaces = a.namespaces
      /\ b.text = Append(a.text, Blank) /\ b.lines = Append(a.lines, << >>)
  BY <1>1 DEF PushLine, CallFields
<1>3. Tracked(b.text, b.lines)
  <2>1. Tracked(a.text, a.lines)
    BY <1>1, TextAdded DEF CallTracked
  <2>2. DOMAIN Blank = {"decl", "refs"} /\ LineTracked(Blank.decl, << >>)
    BY DEF Blank, LineTracked
  <2> HIDE DEF b
  <2> QED BY <1>2, <2>1, <2>2, LineAdded
<1>4. /\ d.file = b.file /\ d.at = b.at + 1 /\ d.text = b.text /\ d.lines = b.lines
      /\ d.namespaces = IF ns = "" THEN namespaces ELSE (b.namespaces \o <<ns>>) \o namespaces
  <2>1. CASE ns = ""
    <3>1. d = [b EXCEPT !.at = @ + 1, !.visited = visited, !.namespaces = namespaces]
      BY <2>1 DEF Resume, a
    <3> HIDE DEF b, d
    <3> QED BY <1>2, <2>1, <3>1 DEF CallFields
  <2>2. CASE ns # ""
    <3>1. d = [b EXCEPT !.at = @ + 1, !.namespaces = (@ \o <<ns>>) \o namespaces]
      BY <2>2 DEF Resume, a
    <3> HIDE DEF b, d
    <3> QED BY <1>2, <2>2, <3>1 DEF CallFields
  <2> QED BY <2>1, <2>2
<1> HIDE DEF b, d
<1>5. IsSeq(d.namespaces)
  <2>1. IsSeq(<<ns>>)
    <3>1. <<ns>> \in Seq({ns})
      OBVIOUS
    <3> QED BY <3>1 DEF IsSeq
  <2>2. IsSeq(c.namespaces \o <<ns>>)
    BY <2>1, JoinedSeq DEF CallTracked
  <2>3. IsSeq((c.namespaces \o <<ns>>) \o namespaces)
    BY <2>2, JoinedSeq
  <2> QED BY <1>1, <1>2, <1>4, <2>3
<1>6. CallTracked(d)
  <2>1. d.file = c.file /\ d.at = c.at + 1
    BY <1>1, <1>2, <1>4
  <2>2. Tracked(d.text, d.lines)
    BY <1>3, <1>4
  <2>3. c.file \in Files /\ c.at + 1 \in Nat \ {0}
    BY DEF CallTracked
  <2> QED BY <1>5, <2>1, <2>2, <2>3 DEF CallTracked
<1> QED BY <1>6 DEF d

\* The same for the stack of calls.
LEMMA TopTracked ==
  ASSUME StackInv, AllTracked(calls)
  PROVE  DOMAIN Top = CallFields /\ CallTracked(Top) /\ Len(calls) \in Nat \ {0}
BY TopCall DEF AllTracked, Top

\* The innermost call is replaced by another whose text is tracked.
LEMMA ReplacedTracked ==
  ASSUME NEW s, IsStack(s), AllTracked(s), NEW c, CallTracked(c)
  PROVE  AllTracked([s EXCEPT ![Len(s)] = c])
<1>1. PICK S : s \in Seq(S)
  BY DEF IsStack
<1>2. s \in Seq(S \cup {c})
  BY <1>1, SeqMonotonic
<1>3. Len(s) \in 1 .. Len(s)
  BY StackLen
<1>4. /\ Len([s EXCEPT ![Len(s)] = c]) = Len(s)
      /\ \A j \in 1 .. Len(s) :
           [s EXCEPT ![Len(s)] = c][j] = IF j = Len(s) THEN c ELSE s[j]
  BY <1>2, <1>3, ExceptSeq
<1> QED BY <1>4 DEF AllTracked
-----------------------------------------------------------------------------
\* A line of a file, where it was read.
LEMMA CurrentLine ==
  ASSUME TextInv, Reading
  PROVE  /\ Top.file \in Files /\ Top.at \in DOMAIN files[Top.file]
         /\ LineTracked(Current.decl, <<Top.file, Top.at>>)
<1>1. Top.file \in Files /\ Top.at \in Nat \ {0} /\ files \in Programs
  BY TopTracked DEF TextInv, CallTracked
<1>2. Top.at \in DOMAIN files[Top.file]
  <2>1. IsSeq(files[Top.file])
    BY <1>1, ProgramsAssumption DEF Counted, IsSeq
  <2>2. /\ Len(files[Top.file]) \in Nat
        /\ DOMAIN files[Top.file] = 1 .. Len(files[Top.file])
    BY <2>1, SeqFacts
  <2>3. Top.at <= Len(files[Top.file])
    BY DEF Reading
  <2> QED BY <1>1, <2>2, <2>3
<1> DEFINE w == Current.decl
           o == <<Top.file, Top.at>>
<1>3. IsSeq(w)
  BY <1>1, <1>2, ProgramsAssumption DEF Current, Counted, IsSeq
<1>4. SourceLine(o).decl = w /\ o # << >>
  BY DEF SourceLine, Current
<1> HIDE DEF w, o
<1>5. ASSUME w = << >>
      PROVE  LineTracked(w, o)
  BY <1>4, <1>5 DEF LineTracked
<1>6. ASSUME w # << >>
      PROVE  LineTracked(w, o)
  <2>1. Len(w) \in Nat /\ Len(w) # 0 /\ w \in Seq({w[i] : i \in 1 .. Len(w)})
    BY <1>3, <1>6, SeqFacts
  <2>2. 1 \in 1 .. Len(w) /\ SubSeq(w, 1, Len(w)) = w
    BY <2>1, SubSeqFull
  <2> QED BY <1>3, <1>4, <1>6, <2>2 DEF LineTracked
<1>7. LineTracked(w, o)
  BY <1>5, <1>6
<1> QED BY <1>1, <1>2, <1>7 DEF w, o

\* Nothing has been read.
LEMMA TextInit == Init => TextInv
<1> SUFFICES ASSUME Init
             PROVE  TextInv
  OBVIOUS
<1> DEFINE c == Call(Root, "", {}, << >>)
<1>1. calls = <<c>> /\ files \in Programs /\ present \subseteq Files /\ status # "resolved"
  BY DEF Init
<1>2. /\ c.file = Root /\ c.at = 1 /\ c.namespaces = << >>
      /\ c.text = << >> /\ c.lines = << >>
  BY DEF Call
<1>3. IsSeq(<< >>) /\ Len(<< >>) = 0
  BY EmptySeq DEF IsSeq
<1> HIDE DEF c
<1>4. Tracked(<< >>, << >>)
  BY <1>3 DEF Tracked
<1>5. CallTracked(c)
  BY <1>2, <1>3, <1>4, ProgramsAssumption DEF CallTracked
<1>6. AllTracked(calls)
  <2>1. Len(<<c>>) = 1 /\ <<c>>[1] = c
    OBVIOUS
  <2> QED BY <1>1, <1>5, <2>1 DEF AllTracked
<1> QED BY <1>1, <1>6, StackInit DEF TextInv, SourceTracked

\* A line that is copied brings its origin.
LEMMA TextCopy ==
  ASSUME TextInv, CopyLine
  PROVE  AllTracked(calls')
<1> DEFINE line == [decl |-> Current.decl, refs |-> Current.refs]
           o == <<Top.file, Top.at>>
           c == [PushLine(Top, line, o) EXCEPT !.at = @ + 1]
<1>1. calls' = [calls EXCEPT ![Len(calls)] = c] /\ Reading
  BY DEF CopyLine, Replaced
<1>2. DOMAIN line = {"decl", "refs"} /\ line.decl = Current.decl
  OBVIOUS
<1>3. LineTracked(Current.decl, o)
  BY <1>1, CurrentLine
<1>4. DOMAIN Top = CallFields /\ CallTracked(Top) /\ IsStack(calls) /\ AllTracked(calls)
  BY TopTracked DEF TextInv, StackInv, StackOK
<1> HIDE DEF line, o
<1>5. CallTracked(c)
  BY <1>2, <1>3, <1>4, PushedLineTracked
<1> HIDE DEF c
<1> QED BY <1>1, <1>4, <1>5, ReplacedTracked

\* A call starts with no text.
LEMMA TextImport ==
  ASSUME TextInv, Import
  PROVE  AllTracked(calls')
<1> DEFINE c == Enter(Top, Current)
<1>1. calls' = Append(calls, c) /\ Current.file \in Files
  BY DEF Import, TextInv
<1>2. IsSeq(calls) /\ AllTracked(calls) /\ CallTracked(Top)
  BY TopTracked DEF TextInv, StackInv, StackOK, IsStack, IsSeq
<1>3. /\ c.file = Current.file /\ c.at = 1 /\ c.text = << >> /\ c.lines = << >>
      /\ c.namespaces = IF ParseAsClause(Current) = "" THEN Top.namespaces ELSE << >>
  BY DEF Enter, Call
<1>4. IsSeq(<< >>) /\ Len(<< >>) = 0
  BY EmptySeq DEF IsSeq
<1> HIDE DEF c
<1>5. Tracked(<< >>, << >>)
  BY <1>4 DEF Tracked
<1>6. IsSeq(c.namespaces)
  BY <1>2, <1>3, <1>4 DEF CallTracked
<1>7. CallTracked(c)
  <2>1. Tracked(c.text, c.lines)
    BY <1>3, <1>5
  <2>2. c.file \in Files /\ c.at \in Nat \ {0}
    <3>1. c.file = Current.file /\ c.at = 1
      BY <1>3
    <3>2. 1 \in Nat \ {0}
      OBVIOUS
    <3> QED BY <1>1, <3>1, <3>2, Zenon
  <2> QED BY <1>6, <2>1, <2>2 DEF CallTracked
<1>8. /\ Len(Append(calls, c)) = Len(calls) + 1 /\ Append(calls, c)[Len(calls) + 1] = c
      /\ \A j \in 1 .. Len(calls) : Append(calls, c)[j] = calls[j]
  BY <1>2, OneMore
<1>9. \A j \in 1 .. Len(calls) + 1 : j \in 1 .. Len(calls) \/ j = Len(calls) + 1
  BY <1>2, SeqFacts
<1> QED BY <1>1, <1>2, <1>7, <1>8, <1>9 DEF AllTracked

\* An import that is skipped leaves an empty line of no origin.
LEMMA TextSkip ==
  ASSUME TextInv, SkipVisited
  PROVE  AllTracked(calls')
<1> DEFINE ns == ParseAsClause(Current)
           nothing == << >>
           namespaces == IF ns = "" THEN Top.namespaces ELSE << >>
           c == Resume(Top, ns, nothing, nothing, Top.visited, namespaces)
<1>1. calls' = [calls EXCEPT ![Len(calls)] = c]
  BY DEF SkipVisited, Replaced
<1>2. DOMAIN Top = CallFields /\ CallTracked(Top) /\ IsStack(calls) /\ AllTracked(calls)
  BY TopTracked DEF TextInv, StackInv, StackOK
<1>3. IsSeq(<< >>) /\ Len(<< >>) = 0
  BY EmptySeq DEF IsSeq
<1>4. Tracked(nothing, nothing) /\ IsSeq(namespaces)
  <2>1. Tracked(nothing, nothing)
    BY <1>3 DEF Tracked
  <2>2. IsSeq(Top.namespaces)
    BY <1>2 DEF CallTracked
  <2> HIDE DEF ns, nothing
  <2>3. IsSeq(namespaces)
    BY <1>3, <2>2
  <2> QED BY <2>1, <2>3
<1> HIDE DEF ns, nothing, namespaces
<1>5. CallTracked(c)
  BY <1>2, <1>4, ResumedTracked
<1> HIDE DEF c
<1> QED BY <1>1, <1>2, <1>5, ReplacedTracked

\* A call returns its renamed text with the origins of its lines.
LEMMA TextReturn ==
  ASSUME TextInv, Return
  PROVE  AllTracked(calls')
<1> DEFINE n == Len(calls)
           rest == SubSeq(calls, 1, n - 1)
           caller == calls[n - 1]
           text == IF Top.ns = "" THEN Top.text ELSE MangleTopLevelNames(Top.text, Top.ns)
           c == Resume(caller, Top.ns, text, Top.lines, Top.visited, Top.namespaces)
<1>1. n > 1 /\ calls' = [rest EXCEPT ![n - 1] = c]
  BY DEF Return
<1>2. CallTracked(Top) /\ n \in Nat /\ StackInv /\ AllTracked(calls)
  BY TopTracked DEF TextInv
<1>3. /\ IsStack(rest) /\ Len(rest) = n - 1
      /\ \A j \in 1 .. n - 1 : rest[j] = calls[j] /\ j \in 1 .. n
  <2>1. StackOK(rest) /\ Len(rest) = n - 1 /\ \A j \in 1 .. Len(rest) : rest[j] = calls[j]
    BY <1>1, <1>2, PopCall DEF StackInv
  <2> HIDE DEF rest
  <2> QED BY <1>2, <2>1 DEF StackOK
<1>4. n - 1 \in 1 .. n
  <2>1. \A m \in Nat : m > 1 => m - 1 \in 1 .. m
    OBVIOUS
  <2> QED BY <1>1, <1>2, <2>1
<1>5. DOMAIN caller = CallFields /\ CallTracked(caller)
  BY <1>2, <1>4 DEF StackInv, StackOK, IsStack, AllTracked
<1>6. Tracked(text, Top.lines) /\ IsSeq(Top.namespaces)
  BY <1>2, MangledTracked DEF CallTracked
<1> HIDE DEF text, caller
<1>7. CallTracked(c)
  BY <1>5, <1>6, ResumedTracked
<1> HIDE DEF c, rest
<1>8. AllTracked(rest)
  BY <1>2, <1>3 DEF AllTracked
<1>9. AllTracked([rest EXCEPT ![Len(rest)] = c])
  BY <1>3, <1>7, <1>8, ReplacedTracked
<1> QED BY <1>1, <1>3, <1>9

\* The last call gives the source that is compiled.
LEMMA TextFinish ==
  ASSUME TextInv, Finish
  PROVE  Tracked(source'.text, source'.lines)
<1> DEFINE t == Undotted(Top.text, Top.namespaces)
<1>1. source' = [text |-> t, lines |-> Top.lines]
  BY DEF Finish
<1>2. CallTracked(Top)
  BY TopTracked DEF TextInv
<1>3. Tracked(t, Top.lines)
  BY <1>2, UndottedTracked DEF CallTracked
<1> HIDE DEF t
<1> QED BY <1>1, <1>3

\* The invariant is inductive.
LEMMA TextStep == TextInv /\ [Next]_vars => TextInv'
<1> SUFFICES ASSUME TextInv, [Next]_vars
             PROVE  TextInv'
  OBVIOUS
<1>1. StackInv'
  BY StackStep DEF TextInv
<1>2. UNCHANGED <<files, present>>
  BY DEF Next, vars, CopyLine, MissingFile, Import, SkipVisited, Return, Finish
<1>3. AllTracked(calls')
  <2>1. CASE CopyLine \/ Import \/ SkipVisited \/ Return
    BY <2>1, TextCopy, TextImport, TextSkip, TextReturn
  <2>2. CASE UNCHANGED vars \/ MissingFile \/ Finish
    BY <2>2 DEF vars, MissingFile, Finish, TextInv
  <2> QED BY <2>1, <2>2 DEF Next
<1>4. AllTracked(calls)'
  BY <1>2, <1>3, SameFiles
<1>5. status' = "resolved" => Tracked(source'.text, source'.lines)
  <2>1. CASE Finish
    BY <2>1, TextFinish
  <2>2. CASE status' = "error"
    BY <2>2
  <2>3. CASE UNCHANGED <<status, source>>
    BY <2>3 DEF TextInv, SourceTracked
  <2> QED BY <2>1, <2>2, <2>3
          DEF Next, vars, CopyLine, MissingFile, Import, SkipVisited, Return
<1>6. SourceTracked'
  BY <1>2, <1>5 DEF SourceTracked, Tracked, LineTracked, SourceLine
<1> QED BY <1>1, <1>2, <1>4, <1>6 DEF TextInv

\* Diagnostics and debug information can be mapped back: when imports are
\* resolved, every line of the text has an origin of its own, and a
\* declaration is declared by the line it came from, in every program,
\* through every renaming.
THEOREM OriginsKept == Spec => []LinesTracked
<1>1. TextInv => LinesTracked
  <2> SUFFICES ASSUME TextInv, status = "resolved"
               PROVE  LinesTracked
    BY DEF LinesTracked
  <2>1. Tracked(source.text, source.lines)
    BY DEF TextInv, SourceTracked
  <2>2. DOMAIN source.text = 1 .. Len(source.text)
    BY <2>1, SeqFacts DEF Tracked
  <2> QED BY <2>1, <2>2 DEF LinesTracked, Tracked, LineTracked, Origin
<1> QED BY <1>1, TextInit, TextStep, PTL DEF Spec

-----------------------------------------------------------------------------
IsPlainUse(l) == l.k = "use" /\ ParseAsClause(l) = ""
IsSpacedUse(l) == l.k = "use" /\ ParseAsClause(l) # ""

\* A text with the origins of its lines, as a set.
Entries(text, lines) == {<<text[k], lines[k]>> : k \in DOMAIN text}

\* The entries of the calls lo .. hi, and the lines that those calls, and the
\* calls that returned to them, have read.  base is what was visited before.
Held(s, lo, hi) == UNION {Entries(s[i].text, s[i].lines) : i \in lo .. hi}
OriginsIn(F) == UNION {{<<f, j>> : j \in DOMAIN files[f]} : f \in F}
LinesRead(s, lo, hi, base) ==
  {o \in OriginsIn(s[hi].visited \ base) :
     \A i \in lo .. hi : s[i].file = o[1] => o[2] < s[i].at}

\* What a line of the text may be: an empty line, a line as it was read, or a
\* line of an import that has been renamed.
BlankEntry(e) == e[1].decl = << >> /\ e[2] = << >>

PlainEntry(e, rd) ==
  /\ e[2] \in rd
  /\ e[1].decl = SourceLine(e[2]).decl /\ e[1].refs = SourceLine(e[2]).refs

\* A mention r in file f that has become final: it keeps its name, and the
\* name is one of the root's, or it has the new name of what it stands for.
RefKept(f, r, final, E) ==
  Meant(f, r) # {} =>
    /\ final.q = << >>
    /\ \/ final.n = r.n /\ Meant(f, r) \subseteq Closure(Root)
       \/ \E x \in E : x[1].decl = final.n /\ final.n # << >> /\ x[2][1] \in Meant(f, r)

SpacedEntry(e, E, rd) ==
  \E o \in rd :
    /\ IsSpacedUse(SourceLine(o))
    /\ e[2][1] \in Closure(SourceLine(o).file) \ {Root}
    /\ e[2] = <<e[2][1], e[2][2]>> /\ e[2][2] \in DOMAIN files[e[2][1]]
    /\ e[1].decl = IF SourceLine(e[2]).decl = << >> THEN << >>
                   ELSE <<SourceLine(o).ns>> \o SourceLine(e[2]).decl
    /\ DOMAIN e[1].refs = DOMAIN SourceLine(e[2]).refs
    /\ \A i \in DOMAIN e[1].refs : RefKept(e[2][1], SourceLine(e[2]).refs[i], e[1].refs[i], E)

\* What a namespaced use that has been read has brought.
Brought(u, E, nss) ==
  /\ u.ns \in nss
  /\ \A d \in DeclsOf(u.file) : \E e \in E : e[1].decl = <<u.ns>> \o d /\ e[2][1] = u.file

\* A line that has been read: its plain use is visited, its declaration in the
\* text, its namespaced use there under the new names.
LineKnown(o, E, vis, nss, scope) ==
  LET l == SourceLine(o) IN
  /\ o = <<o[1], o[2]>> /\ o[1] \in scope /\ o[2] \in DOMAIN files[o[1]]
  /\ IsPlainUse(l) => l.file \in vis
  /\ l.decl # << >> => \E e \in E : e[1].decl = l.decl /\ e[2] = o
  /\ IsSpacedUse(l) => Brought(l, E, nss)

Known(E, rd, vis, nss, scope) ==
  /\ \A o \in rd : LineKnown(o, E, vis, nss, scope)
  /\ \A e \in E : BlankEntry(e) \/ PlainEntry(e, rd) \/ SpacedEntry(e, E, rd)

\* No name is declared twice in what the calls lo .. hi hold.
UniqueText(text) ==
  \A k, l \in DOMAIN text : text[k].decl = text[l].decl /\ text[k].decl # << >> => k = l
Unique(s, lo, hi) ==
  /\ \A i \in lo .. hi : UniqueText(s[i].text)
  /\ \A i, j \in lo .. hi :
       i # j => FindTopLevelNames(s[i].text) \cap FindTopLevelNames(s[j].text) = {}

\* Each call was made by the line that the call around it is at.
Chain(s, lo, hi) ==
  \A i \in lo .. hi - 1 :
    /\ s[i].at \in DOMAIN files[s[i].file]
    /\ IsPlainUse(files[s[i].file][s[i].at])
    /\ files[s[i].file][s[i].at].file = s[i + 1].file /\ s[i + 1].ns = ""

Namespaces(c) == {c.namespaces[k] : k \in DOMAIN c.namespaces}

\* The calls lo .. hi share a visited set and a list of namespaces.
Level(s, lo, hi, base, scope) ==
  /\ base \subseteq s[hi].visited /\ s[hi].visited \ base \subseteq scope
  /\ \A i \in lo .. hi : s[i].file \in s[hi].visited \ base
  /\ Chain(s, lo, hi)
  /\ Unique(s, lo, hi)
  /\ Known(Held(s, lo, hi), LinesRead(s, lo, hi, base), s[hi].visited, Namespaces(s[hi]), scope)

\* A namespaced import is at most one level below the root's.
LevelOfSpace(s, b) ==
  LET c == s[b - 1]
      u == files[c.file][c.at]
  IN /\ Level(s, 1, b - 1, {}, Closure(Root))
     /\ c.at \in DOMAIN files[c.file] /\ IsSpacedUse(u)
     /\ u.file = s[b].file /\ s[b].ns = u.ns
     /\ Level(s, b, Len(s), c.visited, Closure(u.file) \ {Root})
Levels(s) ==
  /\ s[1].file = Root
  /\ \/ Level(s, 1, Len(s), {}, Closure(Root))
     \/ \E b \in 2 .. Len(s) : LevelOfSpace(s, b)

\* What is compiled is the text of the first call.
SourceFinished ==
  status = "resolved" =>
    /\ Len(calls) = 1 /\ Top.at > Len(files[Top.file])
    /\ source = [text |-> Undotted(Top.text, Top.namespaces), lines |-> Top.lines]

NamesInv == (Simple => Levels(calls)) /\ SourceFinished

-----------------------------------------------------------------------------
\* What a line of a program is.
LEMMA LineFacts ==
  ASSUME files \in Programs, NEW f \in Files, NEW j \in DOMAIN files[f]
  PROVE  LET l == files[f][j] IN
         /\ j \in Nat \ {0} /\ j <= Len(files[f])
         /\ IsSeq(l.decl)
         /\ l.k = "use" => l.file \in Files /\ l.decl = << >> /\ l \in Uses(f)
         /\ IsPlainUse(l) => l.file \in Plain(f)
         /\ IsSpacedUse(l) => l \in Spaced(f)
<1> DEFINE l == files[f][j]
<1>1. IsSeq(files[f])
  BY ProgramsAssumption DEF Counted, IsSeq
<1>2. j \in Nat \ {0} /\ j <= Len(files[f])
  <2>1. DOMAIN files[f] = 1 .. Len(files[f]) /\ Len(files[f]) \in Nat
    BY <1>1, SeqFacts
  <2> QED BY <2>1
<1>3. IsSeq(l.decl) /\ (l.k = "use" => l.file \in Files /\ l.decl = << >>)
  BY ProgramsAssumption DEF Counted, IsSeq
<1>4. l.k = "use" => l \in Uses(f)
  BY DEF Uses
<1> HIDE DEF l
<1>5. IsPlainUse(l) => l.file \in Plain(f)
  BY <1>4 DEF IsPlainUse, Plain
<1>6. IsSpacedUse(l) => l \in Spaced(f)
  BY <1>4 DEF IsSpacedUse, Spaced
<1> QED BY <1>2, <1>3, <1>4, <1>5, <1>6 DEF l

\* And every use is a line.
LEMMA UseFacts ==
  ASSUME NEW f
  PROVE  /\ \A x \in Plain(f) : \E j \in DOMAIN files[f] :
               IsPlainUse(files[f][j]) /\ files[f][j].file = x
         /\ \A u \in Spaced(f) : \E j \in DOMAIN files[f] :
               IsSpacedUse(files[f][j]) /\ files[f][j] = u
<1>1. \A u \in Uses(f) : u.k = "use" /\ \E j \in DOMAIN files[f] : files[f][j] = u
  BY DEF Uses
<1>2. ASSUME NEW x \in Plain(f)
      PROVE  \E j \in DOMAIN files[f] : IsPlainUse(files[f][j]) /\ files[f][j].file = x
  <2>1. PICK u \in Uses(f) : ParseAsClause(u) = "" /\ u.file = x
    BY DEF Plain
  <2> QED BY <1>1, <2>1 DEF IsPlainUse
<1>3. ASSUME NEW u \in Spaced(f)
      PROVE  \E j \in DOMAIN files[f] : IsSpacedUse(files[f][j]) /\ files[f][j] = u
  <2>1. u \in Uses(f) /\ ParseAsClause(u) # ""
    BY DEF Spaced
  <2> QED BY <1>1, <2>1 DEF IsSpacedUse
<1> QED BY <1>2, <1>3

\* The namespace of a use is the one it is written with.
LEMMA ClauseFacts ==
  ASSUME NEW l, IsSpacedUse(l)
  PROVE  ParseAsClause(l) = l.ns /\ l.ns # "" /\ l.k = "use"
BY DEF IsSpacedUse, ParseAsClause

\* What is in scope in a file: the file and what its members import plainly.
LEMMA ClosureFacts ==
  ASSUME files \in Programs, NEW f \in Files
  PROVE  /\ f \in Closure(f) /\ Closure(f) \subseteq Files
         /\ \A g \in Closure(f) : Plain(g) \subseteq Closure(f)
<1> DEFINE closed == {S \in SUBSET Files : f \in S /\ \A g \in S : Plain(g) \subseteq S}
<1>1. Closure(f) = {g \in Files : \A S \in closed : g \in S}
  BY DEF Closure
<1>2. \A S \in closed : f \in S /\ \A g \in S : Plain(g) \subseteq S
  OBVIOUS
<1> HIDE DEF closed
<1>3. ASSUME NEW g \in Closure(f), NEW x \in Plain(g)
      PROVE  x \in Closure(f)
  <2>1. g \in Files
    BY <1>1
  <2>2. PICK j \in DOMAIN files[g] : IsPlainUse(files[g][j]) /\ files[g][j].file = x
    BY UseFacts
  <2>3. x \in Files
    BY <2>1, <2>2, LineFacts DEF IsPlainUse
  <2>4. \A S \in closed : x \in S
    BY <1>1, <1>2
  <2> QED BY <1>1, <2>3, <2>4
<1> QED BY <1>1, <1>2, <1>3

\* And nothing else.
LEMMA ClosureLeast ==
  ASSUME NEW f, NEW S \in SUBSET Files, f \in S, \A g \in S : Plain(g) \subseteq S
  PROVE  Closure(f) \subseteq S
BY DEF Closure

\* What a member has in scope, the file has in scope.
LEMMA ClosureIn ==
  ASSUME files \in Programs, NEW f \in Files, NEW g \in Closure(f)
  PROVE  Closure(g) \subseteq Closure(f)
BY ClosureFacts, ClosureLeast

\* The names of a file are those of its lines.
LEMMA DeclFacts ==
  ASSUME NEW f, NEW d
  PROVE  d \in DeclsOf(f) <=> d # << >> /\ \E j \in DOMAIN files[f] : files[f][j].decl = d
BY DEF DeclsOf

-----------------------------------------------------------------------------
\* A text of one line.
LEMMA OneLine ==
  ASSUME NEW e
  PROVE  IsSeq(<<e>>) /\ Len(<<e>>) = 1 /\ <<e>>[1] = e /\ DOMAIN <<e>> = {1}
<1>1. <<e>> \in Seq({e}) /\ Len(<<e>>) = 1 /\ <<e>>[1] = e
  OBVIOUS
<1>2. DOMAIN <<e>> = 1 .. 1
  OBVIOUS
<1>3. 1 .. 1 = {1}
  OBVIOUS
<1> QED BY <1>1, <1>2, <1>3 DEF IsSeq

\* A line after a text is a text of one line after it.
LEMMA AppendJoined ==
  ASSUME NEW s, IsSeq(s), NEW t, IsSeq(t), NEW e
  PROVE  /\ Append(s, e) = s \o <<e>>
         /\ Append(s \o t, e) = s \o Append(t, e)
<1>1. PICK S : s \in Seq(S)
  BY DEF IsSeq
<1>2. PICK T : t \in Seq(T)
  BY DEF IsSeq
<1> DEFINE U == (S \cup T) \cup {e}
<1>3. s \in Seq(U) /\ t \in Seq(U) /\ e \in U
  BY <1>1, <1>2, SeqMonotonic
<1> HIDE DEF U
<1>4. s \o t \in Seq(U) /\ <<e>> \in Seq(U)
  BY <1>3, ConcatProperties
<1>5. /\ Append(s, e) = s \o <<e>> /\ Append(t, e) = t \o <<e>>
      /\ Append(s \o t, e) = (s \o t) \o <<e>>
  BY <1>3, <1>4, AppendIsConcat
<1>6. (s \o t) \o <<e>> = s \o (t \o <<e>>)
  BY <1>3, <1>4, ConcatAssociative
<1> QED BY <1>5, <1>6

\* A word before a name can be told from the name.
LEMMA PrefixFacts ==
  ASSUME NEW a, NEW b, NEW d, IsSeq(d), NEW e, IsSeq(e)
  PROVE  /\ <<a>> \o d # << >> /\ Head(<<a>> \o d) = a
         /\ <<a>> \o d = <<b>> \o e => a = b /\ d = e
<1> DEFINE x == <<a>> \o d
           y == <<b>> \o e
<1>1. /\ IsSeq(x) /\ Len(x) = 1 + Len(d) /\ Len(d) \in Nat
      /\ \A j \in 1 .. 1 + Len(d) : x[j] = IF j <= 1 THEN <<a>>[j] ELSE d[j - 1]
  BY OneLine, JoinedSeq, SeqFacts
<1>2. /\ IsSeq(y) /\ Len(y) = 1 + Len(e) /\ Len(e) \in Nat
      /\ \A j \in 1 .. 1 + Len(e) : y[j] = IF j <= 1 THEN <<b>>[j] ELSE e[j - 1]
  BY OneLine, JoinedSeq, SeqFacts
<1>3. <<a>>[1] = a /\ <<b>>[1] = b
  OBVIOUS
<1> HIDE DEF x, y
<1>4. x[1] = a /\ \A j \in 1 .. Len(d) : x[j + 1] = d[j]
  <2>1. 1 \in 1 .. 1 + Len(d) /\ 1 <= 1
    BY <1>1
  <2>2. \A j \in 1 .. Len(d) : j + 1 \in 1 .. 1 + Len(d) /\ ~(j + 1 <= 1) /\ (j + 1) - 1 = j
    BY <1>1
  <2> QED BY <1>1, <1>3, <2>1, <2>2
<1>5. y[1] = b /\ \A j \in 1 .. Len(e) : y[j + 1] = e[j]
  <2>1. 1 \in 1 .. 1 + Len(e) /\ 1 <= 1
    BY <1>2
  <2>2. \A j \in 1 .. Len(e) : j + 1 \in 1 .. 1 + Len(e) /\ ~(j + 1 <= 1) /\ (j + 1) - 1 = j
    BY <1>2
  <2> QED BY <1>2, <1>3, <2>1, <2>2
<1>6. x # << >> /\ Head(x) = a
  <2>1. Len(x) # 0
    BY <1>1
  <2>2. x # << >>
    BY <2>1, EmptySeq
  <2>3. Head(x) = x[1]
    <3>1. PICK S : x \in Seq(S)
      BY <1>1 DEF IsSeq
    <3> QED BY <2>2, <3>1, HeadTailProperties
  <2> QED BY <1>4, <2>2, <2>3
<1>7. ASSUME x = y
      PROVE  a = b /\ d = e
  <2>1. a = b
    BY <1>4, <1>5, <1>7
  <2>2. Len(d) = Len(e)
    BY <1>1, <1>2, <1>7
  <2>3. \A j \in 1 .. Len(d) : d[j] = e[j]
    BY <1>4, <1>5, <1>7, <2>2
  <2>4. PICK S : d \in Seq(S)
    BY DEF IsSeq
  <2>5. PICK T : e \in Seq(T)
    BY DEF IsSeq
  <2>6. d = e
    BY <2>2, <2>3, <2>4, <2>5, SeqEqual
  <2> QED BY <2>1, <2>6
<1> QED BY <1>6, <1>7 DEF x, y

\* What is in a text that follows another one.
LEMMA EntriesJoined ==
  ASSUME NEW text, IsSeq(text), NEW lines, IsSeq(lines), Len(text) = Len(lines),
         NEW more, IsSeq(more), NEW from, IsSeq(from), Len(more) = Len(from)
  PROVE  /\ Entries(text \o more, lines \o from) = Entries(text, lines) \cup Entries(more, from)
         /\ FindTopLevelNames(text \o more) = FindTopLevelNames(text) \cup FindTopLevelNames(more)
         /\ /\ UniqueText(text) /\ UniqueText(more)
            /\ FindTopLevelNames(text) \cap FindTopLevelNames(more) = {}
            => UniqueText(text \o more)
<1> DEFINE t == text \o more
           l == lines \o from
           n == Len(text)
           k == Len(more)
<1>1. n \in Nat /\ k \in Nat /\ DOMAIN text = 1 .. n /\ DOMAIN more = 1 .. k
  BY SeqFacts
<1>2. /\ IsSeq(t) /\ Len(t) = n + k
      /\ \A j \in 1 .. n + k : t[j] = IF j <= n THEN text[j] ELSE more[j - n]
  BY JoinedSeq
<1>3. \A j \in 1 .. n + k : l[j] = IF j <= n THEN lines[j] ELSE from[j - n]
  BY JoinedSeq
<1>4. DOMAIN t = 1 .. n + k
  BY <1>2, SeqFacts
<1> HIDE DEF t, l, n, k
<1>5. /\ \A j \in 1 .. n : j \in 1 .. n + k /\ t[j] = text[j] /\ l[j] = lines[j]
      /\ \A j \in 1 .. k : j + n \in 1 .. n + k /\ t[j + n] = more[j] /\ l[j + n] = from[j]
  <2>1. \A j \in 1 .. n : j \in 1 .. n + k /\ j <= n
    BY <1>1
  <2>2. \A j \in 1 .. k : j + n \in 1 .. n + k /\ ~(j + n <= n) /\ (j + n) - n = j
    BY <1>1
  <2> QED BY <1>2, <1>3, <2>1, <2>2
<1>6. \A j \in 1 .. n + k : j \in 1 .. n \/ (j - n \in 1 .. k /\ j = (j - n) + n)
  BY <1>1
<1>7. Entries(t, l) = Entries(text, lines) \cup Entries(more, from)
  <2>1. Entries(t, l) \subseteq Entries(text, lines) \cup Entries(more, from)
    <3> SUFFICES ASSUME NEW j \in 1 .. n + k
                 PROVE  <<t[j], l[j]>> \in Entries(text, lines) \cup Entries(more, from)
      BY <1>4 DEF Entries
    <3>1. CASE j \in 1 .. n
      BY <1>1, <1>5, <3>1 DEF Entries
    <3>2. CASE j - n \in 1 .. k /\ j = (j - n) + n
      <4>1. t[j] = more[j - n] /\ l[j] = from[j - n]
        BY <1>5, <3>2
      <4> QED BY <1>1, <3>2, <4>1 DEF Entries
    <3> QED BY <1>6, <3>1, <3>2
  <2>2. Entries(text, lines) \subseteq Entries(t, l)
    BY <1>1, <1>4, <1>5 DEF Entries
  <2>3. Entries(more, from) \subseteq Entries(t, l)
    BY <1>1, <1>4, <1>5 DEF Entries
  <2> QED BY <2>1, <2>2, <2>3
<1>8. FindTopLevelNames(t) = FindTopLevelNames(text) \cup FindTopLevelNames(more)
  <2>1. FindTopLevelNames(t) \subseteq FindTopLevelNames(text) \cup FindTopLevelNames(more)
    <3> SUFFICES ASSUME NEW j \in 1 .. n + k, t[j].decl # << >>
                 PROVE  t[j].decl \in FindTopLevelNames(text) \cup FindTopLevelNames(more)
      BY <1>4 DEF FindTopLevelNames
    <3>1. CASE j \in 1 .. n
      BY <1>1, <1>5, <3>1 DEF FindTopLevelNames
    <3>2. CASE j - n \in 1 .. k /\ j = (j - n) + n
      <4>1. t[j] = more[j - n]
        BY <1>5, <3>2
      <4> QED BY <1>1, <3>2, <4>1 DEF FindTopLevelNames
    <3> QED BY <1>6, <3>1, <3>2
  <2>2. FindTopLevelNames(text) \subseteq FindTopLevelNames(t)
    BY <1>1, <1>4, <1>5 DEF FindTopLevelNames
  <2>3. FindTopLevelNames(more) \subseteq FindTopLevelNames(t)
    <3> SUFFICES ASSUME NEW j \in 1 .. k, more[j].decl # << >>
                 PROVE  more[j].decl \in FindTopLevelNames(t)
      BY <1>1 DEF FindTopLevelNames
    <3>1. j + n \in DOMAIN t /\ t[j + n] = more[j]
      BY <1>4, <1>5
    <3> QED BY <3>1 DEF FindTopLevelNames
  <2> QED BY <2>1, <2>2, <2>3
<1>9. ASSUME UniqueText(text), UniqueText(more),
             FindTopLevelNames(text) \cap FindTopLevelNames(more) = {}
      PROVE  UniqueText(t)
  <2> SUFFICES ASSUME NEW i \in 1 .. n + k, NEW j \in 1 .. n + k,
                      t[i].decl = t[j].decl, t[i].decl # << >>
               PROVE  i = j
    BY <1>4 DEF UniqueText
  <2>1. \A x \in 1 .. n : t[x].decl # << >> => t[x].decl \in FindTopLevelNames(text)
    BY <1>1, <1>5 DEF FindTopLevelNames
  <2>2. \A x \in 1 .. n + k : t[x].decl # << >> /\ x - n \in 1 .. k /\ x = (x - n) + n =>
          t[x].decl \in FindTopLevelNames(more) /\ t[x] = more[x - n]
    BY <1>1, <1>5 DEF FindTopLevelNames
  <2>3. CASE i \in 1 .. n /\ j \in 1 .. n
    <3>1. t[i] = text[i] /\ t[j] = text[j]
      BY <1>5, <2>3
    <3>2. i \in DOMAIN text /\ j \in DOMAIN text
      BY <1>1, <2>3
    <3> QED BY <1>9, <3>1, <3>2 DEF UniqueText
  <2>4. CASE i - n \in 1 .. k /\ i = (i - n) + n /\ j - n \in 1 .. k /\ j = (j - n) + n
    <3>1. t[i] = more[i - n] /\ t[j] = more[j - n]
      BY <2>2, <2>4
    <3>2. i - n = j - n
      BY <1>1, <1>9, <2>4, <3>1 DEF UniqueText
    <3> QED BY <2>4, <3>2
  <2> QED BY <1>6, <1>9, <2>1, <2>2, <2>3, <2>4
<1> QED BY <1>7, <1>8, <1>9 DEF t, l

-----------------------------------------------------------------------------
\* A text of as many lines as it has origins.
Paired(text, lines) == IsSeq(text) /\ IsSeq(lines) /\ Len(text) = Len(lines)

\* The names of a text are those of its entries.
LEMMA EntryNames ==
  ASSUME NEW text, NEW lines
  PROVE  /\ \A e \in Entries(text, lines) :
              e[1].decl # << >> => e[1].decl \in FindTopLevelNames(text)
         /\ \A d \in FindTopLevelNames(text) :
              d # << >> /\ \E e \in Entries(text, lines) : e[1].decl = d
<1>1. ASSUME NEW e \in Entries(text, lines), e[1].decl # << >>
      PROVE  e[1].decl \in FindTopLevelNames(text)
  <2>1. PICK k \in DOMAIN text : e = <<text[k], lines[k]>>
    BY DEF Entries
  <2>2. e[1] = text[k]
    BY <2>1
  <2> QED BY <1>1, <2>2 DEF FindTopLevelNames
<1>2. ASSUME NEW d \in FindTopLevelNames(text)
      PROVE  d # << >> /\ \E e \in Entries(text, lines) : e[1].decl = d
  <2>1. PICK k \in DOMAIN text : text[k].decl = d /\ d # << >>
    BY DEF FindTopLevelNames
  <2>2. <<text[k], lines[k]>> \in Entries(text, lines) /\ <<text[k], lines[k]>>[1] = text[k]
    BY DEF Entries
  <2> QED BY <2>1, <2>2
<1> QED BY <1>1, <1>2

\* What is known stays known when a line is read and its entries are added.
LEMMA KnownMore ==
  ASSUME NEW E, NEW F, NEW rd, NEW o, NEW vis, NEW nss, NEW nss2, NEW scope,
         Known(E, rd, vis, nss, scope), nss \subseteq nss2,
         LineKnown(o, E \cup F, vis, nss2, scope),
         \A e \in F : \/ BlankEntry(e) \/ PlainEntry(e, rd \cup {o})
                      \/ SpacedEntry(e, E \cup F, rd \cup {o})
  PROVE  Known(E \cup F, rd \cup {o}, vis, nss2, scope)
<1> DEFINE E2 == E \cup F
           rd2 == rd \cup {o}
<1>1. E \subseteq E2 /\ rd \subseteq rd2
  OBVIOUS
<1>2. \A x \in rd2 : x \in rd \/ x = o
  OBVIOUS
<1>3. \A e \in E2 : e \in E \/ e \in F
  OBVIOUS
<1> HIDE DEF E2, rd2
<1>4. ASSUME NEW x \in rd
      PROVE  LineKnown(x, E2, vis, nss2, scope)
  <2>1. LineKnown(x, E, vis, nss, scope)
    BY DEF Known
  <2>2. \A u : Brought(u, E, nss) => Brought(u, E2, nss2)
    BY <1>1 DEF Brought
  <2> QED BY <1>1, <2>1, <2>2 DEF LineKnown
<1>5. ASSUME NEW e \in E
      PROVE  BlankEntry(e) \/ PlainEntry(e, rd2) \/ SpacedEntry(e, E2, rd2)
  <2>1. BlankEntry(e) \/ PlainEntry(e, rd) \/ SpacedEntry(e, E, rd)
    BY DEF Known
  <2>2. PlainEntry(e, rd) => PlainEntry(e, rd2)
    BY <1>1 DEF PlainEntry
  <2>3. ASSUME NEW f, NEW r, NEW final, RefKept(f, r, final, E)
        PROVE  RefKept(f, r, final, E2)
    BY <1>1, <2>3 DEF RefKept
  <2>4. SpacedEntry(e, E, rd) => SpacedEntry(e, E2, rd2)
    BY <1>1, <2>3 DEF SpacedEntry
  <2> QED BY <2>1, <2>2, <2>4
<1>6. Known(E2, rd2, vis, nss2, scope)
  BY <1>2, <1>3, <1>4, <1>5 DEF Known, E2, rd2
<1> QED BY <1>6 DEF E2, rd2

\* It stays known when files are visited.
LEMMA KnownVisited ==
  ASSUME NEW E, NEW rd, NEW vis, NEW vis2, NEW nss, NEW scope,
         Known(E, rd, vis, nss, scope), vis \subseteq vis2
  PROVE  Known(E, rd, vis2, nss, scope)
BY DEF Known, LineKnown

\* A level is a matter of its own calls.
LEMMA LevelSame ==
  ASSUME NEW lo \in Nat, NEW hi \in Nat, lo <= hi, NEW base, NEW scope, NEW s, NEW t,
         Level(s, lo, hi, base, scope), \A i \in lo .. hi : t[i] = s[i]
  PROVE  Level(t, lo, hi, base, scope)
<1>1. t[hi] = s[hi]
  OBVIOUS
<1>2. Chain(t, lo, hi)
  <2>1. \A i \in lo .. hi - 1 : i \in lo .. hi /\ i + 1 \in lo .. hi
    OBVIOUS
  <2>2. Chain(s, lo, hi)
    BY DEF Level
  <2> QED BY <2>1, <2>2 DEF Chain
<1>3. Unique(t, lo, hi)
  BY DEF Level, Unique
<1>4. Held(t, lo, hi) = Held(s, lo, hi)
  BY DEF Held
<1>5. LinesRead(t, lo, hi, base) = LinesRead(s, lo, hi, base)
  BY <1>1 DEF LinesRead
<1> QED BY <1>1, <1>2, <1>3, <1>4, <1>5 DEF Level

\* A line that was read.
LEMMA ReadFacts ==
  ASSUME NEW s, NEW lo, NEW hi, NEW base, NEW o
  PROVE  o \in LinesRead(s, lo, hi, base)
           <=> /\ o = <<o[1], o[2]>>
               /\ o[1] \in s[hi].visited \ base /\ o[2] \in DOMAIN files[o[1]]
               /\ \A i \in lo .. hi : s[i].file = o[1] => o[2] < s[i].at
<1>1. \A F : o \in OriginsIn(F) =>
               o = <<o[1], o[2]>> /\ o[1] \in F /\ o[2] \in DOMAIN files[o[1]]
  BY DEF OriginsIn
<1>2. \A F : o = <<o[1], o[2]>> /\ o[1] \in F /\ o[2] \in DOMAIN files[o[1]] =>
               o \in OriginsIn(F)
  BY DEF OriginsIn
<1> QED BY <1>1, <1>2 DEF LinesRead

\* The numbers of the calls of a level.
LEMMA Between ==
  ASSUME NEW lo \in Nat, NEW n \in Nat, lo <= n
  PROVE  /\ \A i \in lo .. n + 1 : i \in lo .. n \/ i = n + 1
         /\ \A i \in lo .. n : i \in lo .. n + 1 /\ i # n + 1
         /\ n + 1 \in lo .. n + 1 /\ n \in lo .. n /\ n \in lo .. n + 1
         /\ (n + 1) - 1 = n
         /\ \A i \in lo .. n : i # n => i \in lo .. n - 1 /\ i + 1 \in lo .. n
         /\ \A i \in lo .. n - 1 : i \in lo .. n /\ i # n /\ i + 1 \in lo .. n
<1>1. n + 1 # n /\ (n + 1) - 1 = n
  OBVIOUS
<1>2. n + 1 \in lo .. n + 1 /\ n \in lo .. n /\ n \in lo .. n + 1
  OBVIOUS
<1>3. \A i \in lo .. n + 1 : i \in lo .. n \/ i = n + 1
  OBVIOUS
<1>4. \A i \in lo .. n : i \in lo .. n + 1 /\ i # n + 1
  OBVIOUS
<1>5. \A i \in lo .. n : i # n => i \in lo .. n - 1 /\ i + 1 \in lo .. n
  OBVIOUS
<1>6. \A i \in lo .. n - 1 : i \in lo .. n /\ i # n /\ i + 1 \in lo .. n
  OBVIOUS
<1> QED BY <1>1, <1>2, <1>3, <1>4, <1>5, <1>6

-----------------------------------------------------------------------------
\* A call that has read nothing holds nothing.
LEMMA NoText ==
  /\ Entries(<< >>, << >>) = {} /\ FindTopLevelNames(<< >>) = {} /\ UniqueText(<< >>)
  /\ IsSeq(<< >>) /\ Len(<< >>) = 0
<1>1. << >> \in Seq({}) /\ Len(<< >>) = 0 /\ DOMAIN << >> = {}
  <2>1. << >> \in Seq({}) /\ Len(<< >>) = 0
    BY EmptySeq
  <2>2. DOMAIN << >> = 1 .. 0
    BY <2>1, LenProperties
  <2> QED BY <2>1, <2>2
<1> QED BY <1>1 DEF Entries, FindTopLevelNames, UniqueText, IsSeq

\* A call that has read nothing is a level of its own.
LEMMA LevelStart ==
  ASSUME files \in Programs, NEW t, NEW m \in Nat, NEW base, NEW scope,
         t[m].file \in Files, t[m].file \in scope \ base,
         t[m].visited = base \cup {t[m].file}, t[m].at = 1,
         t[m].text = << >>, t[m].lines = << >>
  PROVE  Level(t, m, m, base, scope)
<1>1. \A i \in m .. m : i = m
  OBVIOUS
<1>2. Held(t, m, m) = {}
  BY <1>1, NoText DEF Held
<1>3. LinesRead(t, m, m, base) = {}
  <2> SUFFICES ASSUME NEW o \in LinesRead(t, m, m, base)
               PROVE  FALSE
    OBVIOUS
  <2>1. /\ o[1] \in t[m].visited \ base /\ o[2] \in DOMAIN files[o[1]]
        /\ \A i \in m .. m : t[i].file = o[1] => o[2] < t[i].at
    BY ReadFacts
  <2>2. o[1] = t[m].file /\ o[2] < 1
    BY <1>1, <2>1
  <2>3. o[2] \in Nat \ {0}
    BY <2>1, <2>2, LineFacts
  <2> QED BY <2>2, <2>3
<1>4. Chain(t, m, m)
  <2>1. \A i \in m .. m - 1 : FALSE
    OBVIOUS
  <2> QED BY <2>1 DEF Chain
<1>5. Unique(t, m, m)
  BY <1>1, NoText DEF Unique
<1>6. Known({}, {}, t[m].visited, Namespaces(t[m]), scope)
  BY DEF Known
<1> QED BY <1>1, <1>2, <1>3, <1>4, <1>5, <1>6 DEF Level

\* A plain import opens one call more.
Opened(s, t, lo, n) ==
  /\ \A i \in lo .. n : t[i] = s[i]
  /\ t[n + 1].file \notin s[n].visited /\ t[n + 1].visited = s[n].visited \cup {t[n + 1].file}
  /\ t[n + 1].ns = "" /\ t[n + 1].at = 1 /\ t[n + 1].namespaces = s[n].namespaces
  /\ t[n + 1].text = << >> /\ t[n + 1].lines = << >>

AtPlainUse(c, f) ==
  /\ c.at \in DOMAIN files[c.file]
  /\ IsPlainUse(files[c.file][c.at]) /\ files[c.file][c.at].file = f

\* Its level has read and holds as much as before.
LEMMA OpenedReads ==
  ASSUME files \in Programs, NEW s, NEW t, NEW lo \in Nat, NEW n \in Nat, lo <= n,
         NEW base, Opened(s, t, lo, n), base \subseteq s[n].visited, t[n + 1].file \in Files
  PROVE  /\ Held(t, lo, n + 1) = Held(s, lo, n)
         /\ LinesRead(t, lo, n + 1, base) = LinesRead(s, lo, n, base)
<1> DEFINE f == t[n + 1].file
           m == n + 1
<1>1. /\ \A i \in lo .. m : i \in lo .. n \/ i = m
      /\ \A i \in lo .. n : i \in lo .. m
      /\ m \in lo .. m
  BY Between
<1>2. /\ \A i \in lo .. n : t[i] = s[i]
      /\ t[m].file = f /\ f \in Files /\ f \notin s[n].visited
      /\ t[m].visited = s[n].visited \cup {f}
      /\ t[m].at = 1 /\ t[m].text = << >> /\ t[m].lines = << >>
  BY DEF Opened
<1> HIDE DEF f, m
<1>3. Held(t, lo, m) = Held(s, lo, n)
  <2>1. \A i \in lo .. n : Entries(t[i].text, t[i].lines) = Entries(s[i].text, s[i].lines)
    BY <1>2
  <2>2. Entries(t[m].text, t[m].lines) = {}
    BY <1>2, NoText
  <2>3. \A e \in Held(t, lo, m) : e \in Held(s, lo, n)
    BY <1>1, <2>1, <2>2 DEF Held
  <2>4. \A e \in Held(s, lo, n) : e \in Held(t, lo, m)
    BY <1>1, <2>1 DEF Held
  <2> QED BY <2>3, <2>4
<1>4. ASSUME NEW o \in LinesRead(t, lo, m, base)
      PROVE  o \in LinesRead(s, lo, n, base)
  <2>1. /\ o = <<o[1], o[2]>>
        /\ o[1] \in t[m].visited \ base /\ o[2] \in DOMAIN files[o[1]]
        /\ \A i \in lo .. m : t[i].file = o[1] => o[2] < t[i].at
    BY ReadFacts
  <2>2. ASSUME o[1] = f
        PROVE  FALSE
    <3>1. o[2] < 1
      BY <1>1, <1>2, <2>1, <2>2
    <3>2. o[2] \in Nat \ {0}
      BY <1>2, <2>1, <2>2, LineFacts
    <3> QED BY <3>1, <3>2
  <2>3. o[1] \in s[n].visited \ base
    BY <1>2, <2>1, <2>2
  <2>4. \A i \in lo .. n : s[i].file = o[1] => o[2] < s[i].at
    BY <1>1, <1>2, <2>1
  <2> QED BY <2>1, <2>3, <2>4, ReadFacts
<1>5. ASSUME NEW o \in LinesRead(s, lo, n, base)
      PROVE  o \in LinesRead(t, lo, m, base)
  <2>1. /\ o = <<o[1], o[2]>>
        /\ o[1] \in s[n].visited \ base /\ o[2] \in DOMAIN files[o[1]]
        /\ \A i \in lo .. n : s[i].file = o[1] => o[2] < s[i].at
    BY ReadFacts
  <2>2. \A i \in lo .. m : t[i].file = o[1] => o[2] < t[i].at
    BY <1>1, <1>2, <2>1
  <2>3. o[1] \in t[m].visited \ base
    BY <1>2, <2>1
  <2> QED BY <2>1, <2>2, <2>3, ReadFacts
<1> QED BY <1>3, <1>4, <1>5 DEF m

\* It is one call more on the same level.
LEMMA LevelPush ==
  ASSUME files \in Programs, NEW s, NEW t, NEW lo \in Nat, NEW n \in Nat, lo <= n,
         NEW base, NEW scope, Level(s, lo, n, base, scope), Opened(s, t, lo, n),
         AtPlainUse(s[n], t[n + 1].file), t[n + 1].file \in scope, t[n + 1].file \in Files
  PROVE  Level(t, lo, n + 1, base, scope)
<1> DEFINE f == t[n + 1].file
           m == n + 1
<1>1. /\ \A i \in lo .. m : i \in lo .. n \/ i = m
      /\ \A i \in lo .. n : i \in lo .. m
      /\ m \in lo .. m /\ m - 1 = n /\ n \in lo .. n
      /\ \A i \in lo .. n : i # n => i \in lo .. n - 1 /\ i + 1 \in lo .. n
  BY Between
<1>2. /\ base \subseteq s[n].visited /\ s[n].visited \ base \subseteq scope
      /\ \A i \in lo .. n : s[i].file \in s[n].visited \ base
      /\ Chain(s, lo, n) /\ Unique(s, lo, n)
      /\ Known(Held(s, lo, n), LinesRead(s, lo, n, base), s[n].visited, Namespaces(s[n]), scope)
  BY DEF Level
<1>3. /\ \A i \in lo .. n : t[i] = s[i]
      /\ t[m].file = f /\ f \in scope /\ f \notin s[n].visited
      /\ t[m].visited = s[n].visited \cup {f}
      /\ t[m].ns = "" /\ t[m].text = << >> /\ Namespaces(t[m]) = Namespaces(s[n])
  BY DEF Opened, Namespaces
<1>4. Held(t, lo, m) = Held(s, lo, n) /\ LinesRead(t, lo, m, base) = LinesRead(s, lo, n, base)
  BY <1>2, OpenedReads
<1>5. AtPlainUse(s[n], f) /\ n + 1 = m
  OBVIOUS
<1> HIDE DEF f, m
<1>6. /\ base \subseteq t[m].visited /\ t[m].visited \ base \subseteq scope
      /\ \A i \in lo .. m : t[i].file \in t[m].visited \ base
  BY <1>1, <1>2, <1>3
<1>7. Chain(t, lo, m)
  <2> SUFFICES ASSUME NEW i \in lo .. n
               PROVE  /\ t[i].at \in DOMAIN files[t[i].file]
                      /\ IsPlainUse(files[t[i].file][t[i].at])
                      /\ files[t[i].file][t[i].at].file = t[i + 1].file /\ t[i + 1].ns = ""
    BY <1>1 DEF Chain
  <2>1. CASE i = n
    <3>1. t[n] = s[n]
      BY <1>1, <1>3
    <3> QED BY <1>3, <1>5, <2>1, <3>1 DEF AtPlainUse
  <2>2. CASE i # n
    <3>1. i \in lo .. n - 1 /\ i + 1 \in lo .. n
      BY <1>1, <2>2
    <3>2. t[i] = s[i] /\ t[i + 1] = s[i + 1]
      BY <1>3, <3>1
    <3> QED BY <1>2, <3>1, <3>2 DEF Chain
  <2> QED BY <2>1, <2>2
<1>8. Unique(t, lo, m)
  <2>1. UniqueText(t[m].text) /\ FindTopLevelNames(t[m].text) = {}
    BY <1>3, NoText
  <2>2. \A i \in lo .. n : t[i].text = s[i].text
    BY <1>3
  <2> QED BY <1>1, <1>2, <2>1, <2>2 DEF Unique
<1>9. Known(Held(t, lo, m), LinesRead(t, lo, m, base), t[m].visited, Namespaces(t[m]), scope)
  <2>1. s[n].visited \subseteq t[m].visited
    BY <1>3
  <2> QED BY <1>2, <1>3, <1>4, <2>1, KnownVisited
<1>10. Level(t, lo, m, base, scope)
  BY <1>6, <1>7, <1>8, <1>9 DEF Level
<1> QED BY <1>10 DEF m

-----------------------------------------------------------------------------
\* The text of a call that returns follows that of its caller.
Merged(s, t, lo, m) ==
  /\ \A i \in lo .. m - 1 : t[i] = s[i]
  /\ t[m].file = s[m].file /\ t[m].ns = s[m].ns /\ t[m].at = s[m].at
  /\ t[m].visited = s[m + 1].visited /\ t[m].namespaces = s[m + 1].namespaces
  /\ t[m].text = s[m].text \o s[m + 1].text /\ t[m].lines = s[m].lines \o s[m + 1].lines

PairedCalls(s, lo, m) == \A i \in lo .. m : Paired(s[i].text, s[i].lines)

\* What a callee holds and has read is the caller's when it has returned.
LEMMA MergedReads ==
  ASSUME files \in Programs, NEW s, NEW t, NEW lo \in Nat, NEW m \in Nat, lo <= m,
         NEW base, Merged(s, t, lo, m), PairedCalls(s, lo, m + 1),
         s[m + 1].file \in Files, s[m + 1].at \in Nat, s[m + 1].at > Len(files[s[m + 1].file])
  PROVE  /\ Held(t, lo, m) = Held(s, lo, m + 1)
         /\ LinesRead(t, lo, m, base) = LinesRead(s, lo, m + 1, base)
<1> DEFINE n == m + 1
<1>1. /\ \A i \in lo .. n : i \in lo .. m \/ i = n
      /\ \A i \in lo .. m : i \in lo .. n
      /\ n \in lo .. n /\ m \in lo .. m
      /\ \A i \in lo .. m : i # m => i \in lo .. m - 1
  BY Between
<1>2. /\ \A i \in lo .. m - 1 : t[i] = s[i]
      /\ t[m].file = s[m].file /\ t[m].at = s[m].at /\ t[m].visited = s[n].visited
      /\ t[m].text = s[m].text \o s[n].text /\ t[m].lines = s[m].lines \o s[n].lines
  BY DEF Merged
<1>3. Paired(s[m].text, s[m].lines) /\ Paired(s[n].text, s[n].lines)
  BY <1>1 DEF PairedCalls
<1>4. s[n].file \in Files /\ s[n].at \in Nat /\ s[n].at > Len(files[s[n].file])
  OBVIOUS
<1> HIDE DEF n
<1>5. /\ \A i \in lo .. m : t[i].file = s[i].file /\ t[i].at = s[i].at
      /\ \A i \in lo .. m : i # m => t[i] = s[i]
  BY <1>1, <1>2
<1>6. Held(t, lo, m) = Held(s, lo, n)
  <2>1. Entries(t[m].text, t[m].lines)
          = Entries(s[m].text, s[m].lines) \cup Entries(s[n].text, s[n].lines)
    BY <1>2, <1>3, EntriesJoined DEF Paired
  <2>2. \A i \in lo .. m : i # m =>
          Entries(t[i].text, t[i].lines) = Entries(s[i].text, s[i].lines)
    BY <1>5
  <2>3. \A e \in Held(t, lo, m) : e \in Held(s, lo, n)
    BY <1>1, <2>1, <2>2 DEF Held
  <2>4. \A e \in Held(s, lo, n) : e \in Held(t, lo, m)
    BY <1>1, <2>1, <2>2 DEF Held
  <2> QED BY <2>3, <2>4
<1>7. ASSUME NEW o \in LinesRead(t, lo, m, base)
      PROVE  o \in LinesRead(s, lo, n, base)
  <2>1. /\ o = <<o[1], o[2]>>
        /\ o[1] \in t[m].visited \ base /\ o[2] \in DOMAIN files[o[1]]
        /\ \A i \in lo .. m : t[i].file = o[1] => o[2] < t[i].at
    BY ReadFacts
  <2>2. s[n].file = o[1] => o[2] < s[n].at
    <3> SUFFICES ASSUME s[n].file = o[1]
                 PROVE  o[2] < s[n].at
      OBVIOUS
    <3> DEFINE k == Len(files[o[1]])
    <3>1. o[2] \in Nat \ {0} /\ o[2] <= k
      BY <1>4, <2>1, LineFacts
    <3>2. s[n].at \in Nat /\ s[n].at > k
      BY <1>4
    <3>3. k \in Nat
      <4>1. IsSeq(files[o[1]])
        BY <1>4, ProgramsAssumption DEF Counted, IsSeq
      <4> QED BY <4>1, SeqFacts
    <3> HIDE DEF k
    <3> QED BY <3>1, <3>2, <3>3
  <2>3. \A i \in lo .. n : s[i].file = o[1] => o[2] < s[i].at
    BY <1>1, <1>5, <2>1, <2>2
  <2>4. o[1] \in s[n].visited \ base
    BY <1>2, <2>1
  <2> QED BY <2>1, <2>3, <2>4, ReadFacts
<1>8. ASSUME NEW o \in LinesRead(s, lo, n, base)
      PROVE  o \in LinesRead(t, lo, m, base)
  <2>1. /\ o = <<o[1], o[2]>>
        /\ o[1] \in s[n].visited \ base /\ o[2] \in DOMAIN files[o[1]]
        /\ \A i \in lo .. n : s[i].file = o[1] => o[2] < s[i].at
    BY ReadFacts
  <2>2. \A i \in lo .. m : t[i].file = o[1] => o[2] < t[i].at
    BY <1>1, <1>5, <2>1
  <2>3. o[1] \in t[m].visited \ base
    BY <1>2, <2>1
  <2> QED BY <2>1, <2>2, <2>3, ReadFacts
<1> QED BY <1>6, <1>7, <1>8 DEF n

\* The level has a call less, and has read and holds as much as before.
LEMMA LevelMerge ==
  ASSUME files \in Programs, NEW s, NEW t, NEW lo \in Nat, NEW m \in Nat, lo <= m,
         NEW base, NEW scope, Level(s, lo, m + 1, base, scope),
         Merged(s, t, lo, m), PairedCalls(s, lo, m + 1),
         s[m + 1].file \in Files, s[m + 1].at \in Nat, s[m + 1].at > Len(files[s[m + 1].file])
  PROVE  Level(t, lo, m, base, scope)
<1> DEFINE n == m + 1
<1>1. /\ \A i \in lo .. n : i \in lo .. m \/ i = n
      /\ \A i \in lo .. m : i \in lo .. n /\ i # n
      /\ n \in lo .. n /\ m \in lo .. m /\ n - 1 = m
      /\ \A i \in lo .. m : i # m => i \in lo .. m - 1
      /\ \A i \in lo .. m - 1 : i \in lo .. m /\ i # m /\ i + 1 \in lo .. m
  BY Between
<1>2. /\ base \subseteq s[n].visited /\ s[n].visited \ base \subseteq scope
      /\ \A i \in lo .. n : s[i].file \in s[n].visited \ base
      /\ Chain(s, lo, n) /\ Unique(s, lo, n)
      /\ Known(Held(s, lo, n), LinesRead(s, lo, n, base), s[n].visited, Namespaces(s[n]), scope)
  BY DEF Level
<1>3. /\ \A i \in lo .. m - 1 : t[i] = s[i]
      /\ t[m].file = s[m].file /\ t[m].ns = s[m].ns /\ t[m].at = s[m].at
      /\ t[m].visited = s[n].visited /\ Namespaces(t[m]) = Namespaces(s[n])
      /\ t[m].text = s[m].text \o s[n].text
  BY DEF Merged, Namespaces
<1>4. Held(t, lo, m) = Held(s, lo, n) /\ LinesRead(t, lo, m, base) = LinesRead(s, lo, n, base)
  BY MergedReads
<1>5. Paired(s[m].text, s[m].lines) /\ Paired(s[n].text, s[n].lines)
  BY <1>1 DEF PairedCalls
<1> HIDE DEF n
<1>6. /\ \A i \in lo .. m : t[i].file = s[i].file /\ t[i].at = s[i].at /\ t[i].ns = s[i].ns
      /\ \A i \in lo .. m : i # m => t[i].text = s[i].text
  BY <1>1, <1>3
<1>7. /\ base \subseteq t[m].visited /\ t[m].visited \ base \subseteq scope
      /\ \A i \in lo .. m : t[i].file \in t[m].visited \ base
  BY <1>1, <1>2, <1>3, <1>6
<1>8. Chain(t, lo, m)
  <2> SUFFICES ASSUME NEW i \in lo .. m - 1
               PROVE  /\ t[i].at \in DOMAIN files[t[i].file]
                      /\ IsPlainUse(files[t[i].file][t[i].at])
                      /\ files[t[i].file][t[i].at].file = t[i + 1].file /\ t[i + 1].ns = ""
    BY DEF Chain
  <2>1. i \in lo .. m /\ i + 1 \in lo .. m
    BY <1>1
  <2>2. /\ t[i].file = s[i].file /\ t[i].at = s[i].at
        /\ t[i + 1].file = s[i + 1].file /\ t[i + 1].ns = s[i + 1].ns
    BY <1>6, <2>1
  <2>3. i \in lo .. n - 1
    BY <1>1, <2>1
  <2> QED BY <1>2, <2>2, <2>3 DEF Chain
<1>9. Unique(t, lo, m)
  <2>1. /\ \A i \in lo .. n : UniqueText(s[i].text)
        /\ \A i, j \in lo .. n :
             i # j => FindTopLevelNames(s[i].text) \cap FindTopLevelNames(s[j].text) = {}
    BY <1>2 DEF Unique
  <2>2. m \in lo .. n /\ n \in lo .. n /\ m # n
    BY <1>1
  <2>3. UniqueText(s[m].text) /\ UniqueText(s[n].text)
        /\ FindTopLevelNames(s[m].text) \cap FindTopLevelNames(s[n].text) = {}
    BY <2>1, <2>2
  <2>4. /\ UniqueText(t[m].text)
        /\ FindTopLevelNames(t[m].text) =
             FindTopLevelNames(s[m].text) \cup FindTopLevelNames(s[n].text)
    BY <1>3, <1>5, <2>3, EntriesJoined DEF Paired
  <2>5. \A i \in lo .. m : UniqueText(t[i].text)
    BY <1>1, <1>6, <2>1, <2>4
  <2>6. ASSUME NEW i \in lo .. m, i # m
        PROVE  FindTopLevelNames(t[i].text) \cap FindTopLevelNames(t[m].text) = {}
    <3>1. t[i].text = s[i].text /\ i \in lo .. n /\ i # n
      BY <1>1, <1>6, <2>6
    <3> QED BY <2>1, <2>2, <2>4, <2>6, <3>1
  <2>7. ASSUME NEW i \in lo .. m, NEW j \in lo .. m, i # j
        PROVE  FindTopLevelNames(t[i].text) \cap FindTopLevelNames(t[j].text) = {}
    <3>1. CASE i # m /\ j # m
      <4>1. t[i].text = s[i].text /\ t[j].text = s[j].text
        BY <1>6, <3>1
      <4>2. i \in lo .. n /\ j \in lo .. n
        BY <1>1
      <4> QED BY <2>1, <2>7, <4>1, <4>2
    <3>2. CASE i = m \/ j = m
      BY <2>6, <2>7, <3>2
    <3> QED BY <3>1, <3>2
  <2> QED BY <2>5, <2>7 DEF Unique
<1>10. Level(t, lo, m, base, scope)
  BY <1>2, <1>3, <1>4, <1>7, <1>8, <1>9 DEF Level
<1> QED BY <1>10

-----------------------------------------------------------------------------
\* The innermost call of a level goes on to its next line.
Advanced(s, t, lo, m, more, from) ==
  /\ \A i \in lo .. m - 1 : t[i] = s[i]
  /\ t[m].file = s[m].file /\ t[m].ns = s[m].ns /\ t[m].at = s[m].at + 1
  /\ t[m].visited = s[m].visited /\ Namespaces(s[m]) \subseteq Namespaces(t[m])
  /\ t[m].text = s[m].text \o more /\ t[m].lines = s[m].lines \o from

\* What the lines that it adds must be.
Adds(s, t, lo, m, base, scope, more, from) ==
  LET o == <<s[m].file, s[m].at>>
      E == Held(s, lo, m) \cup Entries(more, from)
      rd == LinesRead(s, lo, m, base) \cup {o}
  IN /\ LineKnown(o, E, s[m].visited, Namespaces(t[m]), scope)
     /\ \A e \in Entries(more, from) :
          BlankEntry(e) \/ PlainEntry(e, rd) \/ SpacedEntry(e, E, rd)
     /\ UniqueText(more)
     /\ \A d \in FindTopLevelNames(more) : \A e \in Held(s, lo, m) : e[1].decl # d

Alone(s, lo, m) == \A i \in lo .. m : s[i].file = s[m].file => i = m

\* A line more has been read, and what stands for it is held.
LEMMA AdvancedReads ==
  ASSUME files \in Programs, NEW s, NEW t, NEW lo \in Nat, NEW m \in Nat, lo <= m,
         NEW base, NEW more, NEW from, Advanced(s, t, lo, m, more, from),
         PairedCalls(s, lo, m), Paired(more, from), Alone(s, lo, m),
         s[m].file \in s[m].visited \ base,
         s[m].file \in Files, s[m].at \in DOMAIN files[s[m].file]
  PROVE  /\ Held(t, lo, m) = Held(s, lo, m) \cup Entries(more, from)
         /\ LinesRead(t, lo, m, base) = LinesRead(s, lo, m, base) \cup {<<s[m].file, s[m].at>>}
<1> DEFINE f == s[m].file
           a == s[m].at
<1>1. /\ m \in lo .. m
      /\ \A i \in lo .. m : i # m => i \in lo .. m - 1
  BY Between
<1>2. /\ \A i \in lo .. m - 1 : t[i] = s[i]
      /\ t[m].file = f /\ t[m].at = a + 1 /\ t[m].visited = s[m].visited
      /\ t[m].text = s[m].text \o more /\ t[m].lines = s[m].lines \o from
  BY DEF Advanced
<1>3. \A i \in lo .. m : s[i].file = f => i = m
  BY DEF Alone
<1>4. Paired(s[m].text, s[m].lines)
  BY <1>1 DEF PairedCalls
<1>5. /\ f \in s[m].visited \ base /\ f \in Files /\ a \in DOMAIN files[f]
      /\ s[m].file = f /\ s[m].at = a
  OBVIOUS
<1> HIDE DEF f, a
<1>6. \A i \in lo .. m : i # m => t[i] = s[i]
  BY <1>1, <1>2
<1>7. Held(t, lo, m) = Held(s, lo, m) \cup Entries(more, from)
  <2>1. Entries(t[m].text, t[m].lines) = Entries(s[m].text, s[m].lines) \cup Entries(more, from)
    BY <1>2, <1>4, EntriesJoined DEF Paired
  <2>2. \A i \in lo .. m : i # m =>
          Entries(t[i].text, t[i].lines) = Entries(s[i].text, s[i].lines)
    BY <1>6
  <2>3. \A e \in Held(t, lo, m) : e \in Held(s, lo, m) \cup Entries(more, from)
    BY <2>1, <2>2 DEF Held
  <2>4. \A e \in Held(s, lo, m) : e \in Held(t, lo, m)
    BY <2>1, <2>2 DEF Held
  <2>5. \A e \in Entries(more, from) : e \in Held(t, lo, m)
    BY <1>1, <2>1 DEF Held
  <2> QED BY <2>3, <2>4, <2>5
<1>8. ASSUME NEW o \in LinesRead(t, lo, m, base)
      PROVE  o \in LinesRead(s, lo, m, base) \cup {<<f, a>>}
  <2>1. /\ o = <<o[1], o[2]>>
        /\ o[1] \in t[m].visited \ base /\ o[2] \in DOMAIN files[o[1]]
        /\ \A i \in lo .. m : t[i].file = o[1] => o[2] < t[i].at
    BY ReadFacts
  <2>2. CASE o[1] = f
    <3>1. o[2] \in Nat /\ a \in Nat
      BY <1>5, <2>1, <2>2, LineFacts
    <3>2. o[2] < a + 1
      BY <1>1, <1>2, <2>1, <2>2
    <3>3. CASE o[2] = a
      BY <2>1, <2>2, <3>3
    <3>4. CASE o[2] # a
      <4>1. o[2] < a
        BY <3>1, <3>2, <3>4
      <4>2. \A i \in lo .. m : s[i].file = o[1] => o[2] < s[i].at
        BY <1>3, <1>5, <2>2, <4>1
      <4> QED BY <1>2, <2>1, <4>2, ReadFacts
    <3> QED BY <3>3, <3>4
  <2>3. CASE o[1] # f
    <3>1. \A i \in lo .. m : s[i].file = o[1] => o[2] < s[i].at
      BY <1>5, <1>6, <2>1, <2>3
    <3> QED BY <1>2, <2>1, <3>1, ReadFacts
  <2> QED BY <2>2, <2>3
<1>9. ASSUME NEW o \in LinesRead(s, lo, m, base)
      PROVE  o \in LinesRead(t, lo, m, base)
  <2>1. /\ o = <<o[1], o[2]>>
        /\ o[1] \in s[m].visited \ base /\ o[2] \in DOMAIN files[o[1]]
        /\ \A i \in lo .. m : s[i].file = o[1] => o[2] < s[i].at
    BY ReadFacts
  <2>2. t[m].file = o[1] => o[2] < t[m].at
    <3> SUFFICES ASSUME f = o[1]
                 PROVE  o[2] < a + 1
      BY <1>2
    <3>1. o[2] < a
      BY <1>1, <1>5, <2>1
    <3>2. o[2] \in Nat /\ a \in Nat
      BY <1>5, <2>1, LineFacts
    <3> QED BY <3>1, <3>2
  <2>3. \A i \in lo .. m : t[i].file = o[1] => o[2] < t[i].at
    BY <1>6, <2>1, <2>2
  <2>4. o[1] \in t[m].visited \ base
    BY <1>2, <2>1
  <2> QED BY <2>1, <2>3, <2>4, ReadFacts
<1>10. <<f, a>> \in LinesRead(t, lo, m, base)
  <2>1. <<f, a>>[1] = f /\ <<f, a>>[2] = a
    OBVIOUS
  <2>2. a < a + 1
    <3>1. a \in Nat
      BY <1>5, LineFacts
    <3> QED BY <3>1
  <2>3. \A i \in lo .. m : t[i].file = f => a < t[i].at
    BY <1>2, <1>3, <1>6, <2>2
  <2>4. f \in t[m].visited \ base
    BY <1>2, <1>5
  <2> QED BY <1>5, <2>1, <2>3, <2>4, ReadFacts
<1> QED BY <1>7, <1>8, <1>9, <1>10 DEF f, a

\* The line is one more that is known.
LEMMA LevelAdvance ==
  ASSUME files \in Programs, NEW s, NEW t, NEW lo \in Nat, NEW m \in Nat, lo <= m,
         NEW base, NEW scope, NEW more, NEW from,
         Level(s, lo, m, base, scope), Advanced(s, t, lo, m, more, from),
         Adds(s, t, lo, m, base, scope, more, from),
         PairedCalls(s, lo, m), Paired(more, from), Alone(s, lo, m), s[m].file \in Files
  PROVE  Level(t, lo, m, base, scope)
<1> DEFINE o == <<s[m].file, s[m].at>>
           F == Entries(more, from)
           E == Held(s, lo, m)
           rd == LinesRead(s, lo, m, base)
<1>1. /\ m \in lo .. m
      /\ \A i \in lo .. m : i # m => i \in lo .. m - 1
      /\ \A i \in lo .. m - 1 : i \in lo .. m /\ i # m /\ i + 1 \in lo .. m
  BY Between
<1>2. /\ base \subseteq s[m].visited /\ s[m].visited \ base \subseteq scope
      /\ \A i \in lo .. m : s[i].file \in s[m].visited \ base
      /\ Chain(s, lo, m) /\ Unique(s, lo, m)
      /\ Known(E, rd, s[m].visited, Namespaces(s[m]), scope)
  BY DEF Level
<1>3. /\ \A i \in lo .. m - 1 : t[i] = s[i]
      /\ t[m].file = s[m].file /\ t[m].ns = s[m].ns
      /\ t[m].visited = s[m].visited /\ Namespaces(s[m]) \subseteq Namespaces(t[m])
      /\ t[m].text = s[m].text \o more
  BY DEF Advanced
<1>4. /\ LineKnown(o, E \cup F, s[m].visited, Namespaces(t[m]), scope)
      /\ \A e \in F : \/ BlankEntry(e) \/ PlainEntry(e, rd \cup {o})
                      \/ SpacedEntry(e, E \cup F, rd \cup {o})
      /\ UniqueText(more)
      /\ \A d \in FindTopLevelNames(more) : \A e \in E : e[1].decl # d
  BY DEF Adds
<1>5. s[m].at \in DOMAIN files[s[m].file]
  <2>1. o[1] = s[m].file /\ o[2] = s[m].at
    OBVIOUS
  <2> HIDE DEF o
  <2> QED BY <1>4, <2>1 DEF LineKnown
<1>6. Held(t, lo, m) = E \cup F /\ LinesRead(t, lo, m, base) = rd \cup {o}
  <2>1. s[m].file \in s[m].visited \ base
    BY <1>1, <1>2
  <2> HIDE DEF o, E, F, rd
  <2>2. /\ Held(t, lo, m) = Held(s, lo, m) \cup Entries(more, from)
        /\ LinesRead(t, lo, m, base) = LinesRead(s, lo, m, base) \cup {<<s[m].file, s[m].at>>}
    BY <1>5, <2>1, AdvancedReads
  <2> QED BY <2>2 DEF o, E, F, rd
<1>7. Paired(s[m].text, s[m].lines) /\ Paired(more, from)
  BY <1>1 DEF PairedCalls
<1>8. \A i \in lo .. m : Entries(s[i].text, s[i].lines) \subseteq E
  BY DEF Held
<1> HIDE DEF o, E, F, rd
<1>9. /\ \A i \in lo .. m : i # m => t[i] = s[i]
      /\ \A i \in lo .. m : t[i].file = s[i].file /\ t[i].ns = s[i].ns
  BY <1>1, <1>3
<1>10. /\ base \subseteq t[m].visited /\ t[m].visited \ base \subseteq scope
       /\ \A i \in lo .. m : t[i].file \in t[m].visited \ base
  BY <1>1, <1>2, <1>3, <1>9
<1>11. Chain(t, lo, m)
  <2> SUFFICES ASSUME NEW i \in lo .. m - 1
               PROVE  /\ t[i].at \in DOMAIN files[t[i].file]
                      /\ IsPlainUse(files[t[i].file][t[i].at])
                      /\ files[t[i].file][t[i].at].file = t[i + 1].file /\ t[i + 1].ns = ""
    BY DEF Chain
  <2>1. i + 1 \in lo .. m
    BY <1>1
  <2>2. t[i] = s[i] /\ t[i + 1].file = s[i + 1].file /\ t[i + 1].ns = s[i + 1].ns
    BY <1>3, <1>9, <2>1
  <2> QED BY <1>2, <2>2 DEF Chain
<1>12. Unique(t, lo, m)
  <2>1. /\ \A i \in lo .. m : UniqueText(s[i].text)
        /\ \A i, j \in lo .. m :
             i # j => FindTopLevelNames(s[i].text) \cap FindTopLevelNames(s[j].text) = {}
    BY <1>2 DEF Unique
  <2>2. ASSUME NEW i \in lo .. m
        PROVE  FindTopLevelNames(s[i].text) \cap FindTopLevelNames(more) = {}
    <3> SUFFICES ASSUME NEW d \in FindTopLevelNames(s[i].text), d \in FindTopLevelNames(more)
                 PROVE  FALSE
      OBVIOUS
    <3>1. PICK e \in Entries(s[i].text, s[i].lines) : e[1].decl = d
      BY EntryNames
    <3>2. e \in E
      BY <1>8
    <3> QED BY <1>4, <3>1, <3>2
  <2>3. /\ UniqueText(t[m].text)
        /\ FindTopLevelNames(t[m].text) = FindTopLevelNames(s[m].text) \cup FindTopLevelNames(more)
    BY <1>1, <1>3, <1>4, <1>7, <2>1, <2>2, EntriesJoined DEF Paired
  <2>4. \A i \in lo .. m : UniqueText(t[i].text)
    BY <1>9, <2>1, <2>3
  <2>5. ASSUME NEW i \in lo .. m, i # m
        PROVE  FindTopLevelNames(t[i].text) \cap FindTopLevelNames(t[m].text) = {}
    <3>1. t[i].text = s[i].text
      BY <1>9, <2>5
    <3> QED BY <1>1, <2>1, <2>2, <2>3, <2>5, <3>1
  <2>6. ASSUME NEW i \in lo .. m, NEW j \in lo .. m, i # j
        PROVE  FindTopLevelNames(t[i].text) \cap FindTopLevelNames(t[j].text) = {}
    <3>1. CASE i # m /\ j # m
      <4>1. t[i].text = s[i].text /\ t[j].text = s[j].text
        BY <1>9, <3>1
      <4> QED BY <2>1, <2>6, <4>1
    <3>2. CASE i = m \/ j = m
      BY <2>5, <2>6, <3>2
    <3> QED BY <3>1, <3>2
  <2> QED BY <2>4, <2>6 DEF Unique
<1>13. Known(E \cup F, rd \cup {o}, s[m].visited, Namespaces(t[m]), scope)
  BY <1>2, <1>3, <1>4, KnownMore
<1> QED BY <1>3, <1>6, <1>10, <1>11, <1>12, <1>13 DEF Level

-----------------------------------------------------------------------------
\* In a scope no name is declared twice, or looks like the new name of one.
Apart(scope) ==
  /\ \A f, g \in scope :
       \A j \in DOMAIN files[f], k \in DOMAIN files[g] :
         files[f][j].decl = files[g][k].decl /\ files[f][j].decl # << >> => f = g /\ j = k
  /\ \A f, g \in scope : \A u \in Spaced(f) : \A d \in DeclsOf(g) : Head(d) # u.ns

\* A simple program keeps them apart, in the root and in its namespaces.
LEMMA SimpleApart ==
  ASSUME files \in Programs, Simple
  PROVE  /\ Apart(Closure(Root))
         /\ \A u \in Seen(Root) : Apart(Closure(u.file) \ {Root})
<1>1. \A h \in {Root} \cup {u.file : u \in Seen(Root)} :
        \A f, g \in Closure(h) :
          \A j \in DOMAIN files[f], k \in DOMAIN files[g] :
            files[f][j].decl = files[g][k].decl /\ files[f][j].decl # << >> => f = g /\ j = k
  BY DEF Simple
<1>2. \A u \in Seen(Root) : \A f \in Closure(Root) : \A d \in DeclsOf(f) : Head(d) # u.ns
  BY DEF Simple
<1>3. \A f \in Closure(Root) : \A u \in Spaced(f) : u \in Seen(Root)
  BY DEF Seen
<1>4. \A u \in Seen(Root) : \A g \in Closure(u.file) \ {Root} : Spaced(g) = {}
  BY DEF Simple
<1>5. Apart(Closure(Root))
  <2>1. Root \in {Root} \cup {u.file : u \in Seen(Root)}
    OBVIOUS
  <2> QED BY <1>1, <1>2, <1>3, <2>1 DEF Apart
<1>6. ASSUME NEW u \in Seen(Root)
      PROVE  Apart(Closure(u.file) \ {Root})
  <2>1. u.file \in {Root} \cup {v.file : v \in Seen(Root)}
    OBVIOUS
  <2>2. \A f, g \in Closure(u.file) :
          \A j \in DOMAIN files[f], k \in DOMAIN files[g] :
            files[f][j].decl = files[g][k].decl /\ files[f][j].decl # << >> => f = g /\ j = k
    BY <1>1, <2>1
  <2>3. \A f \in Closure(u.file) \ {Root} : Spaced(f) = {}
    BY <1>4
  <2> QED BY <2>2, <2>3 DEF Apart
<1> QED BY <1>5, <1>6

\* The entries of a text of one line.
LEMMA OneEntry ==
  ASSUME NEW line, NEW o
  PROVE  /\ Entries(<<line>>, <<o>>) = {<<line, o>>}
         /\ UniqueText(<<line>>) /\ Paired(<<line>>, <<o>>)
         /\ FindTopLevelNames(<<line>>) = {line.decl} \ {<< >>}
<1>1. DOMAIN <<line>> = {1} /\ <<line>>[1] = line /\ <<o>>[1] = o
  BY OneLine
<1>2. IsSeq(<<line>>) /\ IsSeq(<<o>>) /\ Len(<<line>>) = Len(<<o>>)
  BY OneLine
<1> QED BY <1>1, <1>2 DEF Entries, UniqueText, FindTopLevelNames, Paired

\* A name of the next line is new to the level.
LEMMA CopyFresh ==
  ASSUME files \in Programs, NEW s, NEW lo \in Nat, NEW m \in Nat, lo <= m,
         NEW base, NEW scope, Level(s, lo, m, base, scope), scope \subseteq Files, Apart(scope),
         s[m].at \in DOMAIN files[s[m].file], NEW d, d # << >>,
         d = files[s[m].file][s[m].at].decl, NEW e \in Held(s, lo, m)
  PROVE  e[1].decl # d
<1> DEFINE rd == LinesRead(s, lo, m, base)
           E == Held(s, lo, m)
           f == s[m].file
           a == s[m].at
<1>1. f \in scope /\ m \in lo .. m
  BY Between DEF Level
<1>2. /\ \A o \in rd : LineKnown(o, E, s[m].visited, Namespaces(s[m]), scope)
      /\ BlankEntry(e) \/ PlainEntry(e, rd) \/ SpacedEntry(e, E, rd)
  BY DEF Level, Known
<1>3. \A o \in rd : s[m].file = o[1] => o[2] < s[m].at
  BY <1>1, ReadFacts
<1>4. f \in Files /\ a \in DOMAIN files[f] /\ d = files[f][a].decl /\ s[m].file = f /\ s[m].at = a
  BY <1>1
<1>5. \A o \in rd : o = <<o[1], o[2]>> /\ o[1] \in scope /\ o[2] \in DOMAIN files[o[1]]
  BY <1>2 DEF LineKnown
<1> HIDE DEF rd, E, f, a
<1> SUFFICES ASSUME e[1].decl = d
             PROVE  FALSE
  OBVIOUS
<1>6. CASE BlankEntry(e)
  BY <1>6 DEF BlankEntry
<1>7. CASE PlainEntry(e, rd)
  <2>1. e[2] \in rd /\ files[e[2][1]][e[2][2]].decl = d
    BY <1>7 DEF PlainEntry, SourceLine
  <2>2. e[2][1] \in scope /\ e[2][2] \in DOMAIN files[e[2][1]]
    BY <1>5, <2>1
  <2>3. e[2][1] = f /\ e[2][2] = a
    BY <1>1, <1>4, <2>1, <2>2 DEF Apart
  <2>4. a < a
    BY <1>3, <1>4, <2>1, <2>3
  <2>5. a \in Nat
    BY <1>4, LineFacts
  <2> QED BY <2>4, <2>5
<1>8. CASE SpacedEntry(e, E, rd)
  <2>1. PICK o \in rd :
          /\ IsSpacedUse(SourceLine(o))
          /\ e[2][1] \in Closure(SourceLine(o).file) /\ e[2][2] \in DOMAIN files[e[2][1]]
          /\ e[1].decl = IF SourceLine(e[2]).decl = << >> THEN << >>
                         ELSE <<SourceLine(o).ns>> \o SourceLine(e[2]).decl
    BY <1>8 DEF SpacedEntry
  <2> DEFINE u == SourceLine(o)
             w == SourceLine(e[2]).decl
  <2>2. u = files[o[1]][o[2]] /\ o[1] \in scope /\ o[1] \in Files /\ o[2] \in DOMAIN files[o[1]]
    BY <1>5 DEF SourceLine
  <2>3. u \in Spaced(o[1]) /\ u.file \in Files
    <3> DEFINE g == o[1]
               j == o[2]
    <3>1. g \in Files /\ j \in DOMAIN files[g] /\ files[g][j] = u
      BY <2>2
    <3>2. IsSpacedUse(u) /\ u.k = "use"
      BY <2>1, ClauseFacts
    <3> HIDE DEF g, j, u
    <3>3. u \in Spaced(g) /\ u.file \in Files
      BY <3>1, <3>2, LineFacts
    <3> QED BY <3>3 DEF g
  <2>4. e[2][1] \in Files
    BY <2>1, <2>3, ClosureFacts
  <2>5. IsSeq(w)
    BY <2>1, <2>4, LineFacts DEF SourceLine
  <2>6. d = <<u.ns>> \o w
    BY <2>1
  <2> HIDE DEF u, w
  <2>7. Head(d) = u.ns
    BY <2>5, <2>6, PrefixFacts
  <2>8. d \in DeclsOf(f)
    BY <1>4, DeclFacts
  <2> QED BY <1>1, <2>2, <2>3, <2>7, <2>8 DEF Apart
<1> QED BY <1>2, <1>6, <1>7, <1>8

\* A line that is copied.
LEMMA CopyAdds ==
  ASSUME files \in Programs, NEW s, NEW t, NEW lo \in Nat, NEW m \in Nat, lo <= m,
         NEW base, NEW scope, Level(s, lo, m, base, scope), scope \subseteq Files, Apart(scope),
         s[m].at \in DOMAIN files[s[m].file], files[s[m].file][s[m].at].k # "use"
  PROVE  LET l == files[s[m].file][s[m].at] IN
         Adds(s, t, lo, m, base, scope, <<[decl |-> l.decl, refs |-> l.refs]>>,
              <<<<s[m].file, s[m].at>>>>)
<1> DEFINE l == files[s[m].file][s[m].at]
           line == [decl |-> l.decl, refs |-> l.refs]
           o == <<s[m].file, s[m].at>>
           E == Held(s, lo, m)
           rd == LinesRead(s, lo, m, base)
           F == Entries(<<line>>, <<o>>)
           e == <<line, o>>
<1>1. F = {e} /\ UniqueText(<<line>>) /\ FindTopLevelNames(<<line>>) = {line.decl} \ {<< >>}
  BY OneEntry
<1>2. o = <<o[1], o[2]>> /\ o[1] = s[m].file /\ o[2] = s[m].at /\ SourceLine(o) = l
  BY DEF SourceLine
<1>3. e[1] = line /\ e[2] = o /\ line.decl = l.decl /\ line.refs = l.refs
  OBVIOUS
<1>4. s[m].file \in scope
  BY Between DEF Level
<1>5. ~IsPlainUse(l) /\ ~IsSpacedUse(l)
  BY DEF IsPlainUse, IsSpacedUse
<1>6. ASSUME NEW d \in FindTopLevelNames(<<line>>), NEW x \in E
      PROVE  x[1].decl # d
  <2>1. d = l.decl /\ d # << >>
    BY <1>1, <1>3, <1>6
  <2> HIDE DEF line, o, F, e
  <2> QED BY <2>1, CopyFresh
<1>7. s[m].at \in DOMAIN files[s[m].file]
  OBVIOUS
<1> HIDE DEF l, line, o, E, rd, F, e
<1>8. LineKnown(o, E \cup F, s[m].visited, Namespaces(t[m]), scope)
  <2>1. e \in E \cup F
    BY <1>1
  <2> QED BY <1>2, <1>3, <1>4, <1>5, <1>7, <2>1 DEF LineKnown
<1>9. \A x \in F : PlainEntry(x, rd \cup {o})
  BY <1>1, <1>2, <1>3 DEF PlainEntry
<1>10. Adds(s, t, lo, m, base, scope, <<line>>, <<o>>)
  BY <1>1, <1>6, <1>8, <1>9 DEF Adds, E, rd, F, o
<1> QED BY <1>10 DEF line, o, l

\* The empty line that stands for a plain import.
LEMMA BlankAdds ==
  ASSUME files \in Programs, NEW s, NEW t, NEW lo \in Nat, NEW m \in Nat, lo <= m,
         NEW base, NEW scope, Level(s, lo, m, base, scope), scope \subseteq Files,
         NEW f \in s[m].visited, AtPlainUse(s[m], f)
  PROVE  Adds(s, t, lo, m, base, scope, <<Blank>>, <<<< >>>>)
<1> DEFINE l == files[s[m].file][s[m].at]
           o == <<s[m].file, s[m].at>>
           E == Held(s, lo, m)
           rd == LinesRead(s, lo, m, base)
           F == Entries(<<Blank>>, <<<< >>>>)
           e == <<Blank, << >>>>
<1>1. Blank.decl = << >>
  BY DEF Blank
<1>2. F = {e} /\ UniqueText(<<Blank>>) /\ FindTopLevelNames(<<Blank>>) = {}
  BY <1>1, OneEntry
<1>3. o = <<o[1], o[2]>> /\ o[1] = s[m].file /\ o[2] = s[m].at /\ SourceLine(o) = l
  BY DEF SourceLine
<1>4. s[m].file \in scope
  BY Between DEF Level
<1>5. s[m].at \in DOMAIN files[s[m].file] /\ IsPlainUse(l) /\ l.file = f
  BY DEF AtPlainUse
<1>6. l.decl = << >> /\ ~IsSpacedUse(l)
  BY <1>4, <1>5, LineFacts DEF IsPlainUse, IsSpacedUse
<1>7. BlankEntry(e)
  BY <1>1 DEF BlankEntry
<1> HIDE DEF l, o, E, rd, F, e
<1>8. LineKnown(o, E \cup F, s[m].visited, Namespaces(t[m]), scope)
  BY <1>3, <1>4, <1>5, <1>6 DEF LineKnown
<1> QED BY <1>2, <1>7, <1>8 DEF Adds, E, rd, F, o

-----------------------------------------------------------------------------
\* An entry before and after its text is renamed.
NewWord(w, ns, names) == IF w \in names THEN <<ns>> \o w ELSE w
RenamedEntry(e, x, ns, names) ==
  /\ x[2] = e[2]
  /\ x[1].decl = IF e[1].decl = << >> THEN << >> ELSE <<ns>> \o e[1].decl
  /\ DOMAIN x[1].refs = DOMAIN e[1].refs
  /\ \A i \in DOMAIN e[1].refs :
       x[1].refs[i] = Ref(NewWord(e[1].refs[i].q, ns, names), NewWord(e[1].refs[i].n, ns, names))

\* Renaming goes through a text entry by entry, and keeps its names apart.
LEMMA MangledEntries ==
  ASSUME NEW text, NEW lines, Tracked(text, lines), UniqueText(text), NEW ns
  PROVE  LET t == MangleTopLevelNames(text, ns)
             names == FindTopLevelNames(text)
         IN  /\ \A x \in Entries(t, lines) :
                  \E e \in Entries(text, lines) : RenamedEntry(e, x, ns, names)
             /\ \A e \in Entries(text, lines) :
                  \E x \in Entries(t, lines) : RenamedEntry(e, x, ns, names)
             /\ UniqueText(t) /\ Paired(t, lines)
<1> DEFINE names == FindTopLevelNames(text)
           word(w) == IF w \in names THEN <<ns>> \o w ELSE w
           t == [j \in DOMAIN text |->
                  [decl |-> word(text[j].decl),
                   refs |-> [i \in DOMAIN text[j].refs |->
                               Ref(word(text[j].refs[i].q), word(text[j].refs[i].n))]]]
<1>1. MangleTopLevelNames(text, ns) = t
  BY DEF MangleTopLevelNames
<1>2. \A w : word(w) = NewWord(w, ns, names)
  BY DEF NewWord
<1>3. /\ \A j \in DOMAIN text : text[j].decl # << >> => text[j].decl \in names
      /\ << >> \notin names
  BY DEF FindTopLevelNames
<1>4. \A j \in DOMAIN text : text[j].decl # << >> => IsSeq(text[j].decl)
  <2>1. DOMAIN text = 1 .. Len(text)
    BY SeqFacts DEF Tracked
  <2> QED BY <2>1 DEF Tracked, LineTracked
<1> HIDE DEF names
<1>5. DOMAIN t = DOMAIN text
  OBVIOUS
<1>6. ASSUME NEW j \in DOMAIN text
      PROVE  /\ t[j].decl = IF text[j].decl = << >> THEN << >> ELSE <<ns>> \o text[j].decl
             /\ DOMAIN t[j].refs = DOMAIN text[j].refs
             /\ \A i \in DOMAIN text[j].refs :
                  t[j].refs[i] = Ref(NewWord(text[j].refs[i].q, ns, names),
                                     NewWord(text[j].refs[i].n, ns, names))
  <2>1. t[j].decl = word(text[j].decl)
    OBVIOUS
  <2>2. t[j].refs = [i \in DOMAIN text[j].refs |->
                      Ref(word(text[j].refs[i].q), word(text[j].refs[i].n))]
    OBVIOUS
  <2>3. word(text[j].decl) = IF text[j].decl = << >> THEN << >> ELSE <<ns>> \o text[j].decl
    BY <1>3
  <2> HIDE DEF t, word
  <2> QED BY <1>2, <2>1, <2>2, <2>3
<1> HIDE DEF t, word
<1>7. ASSUME NEW j \in DOMAIN text
      PROVE  RenamedEntry(<<text[j], lines[j]>>, <<t[j], lines[j]>>, ns, names)
  <2>1. /\ <<text[j], lines[j]>>[1] = text[j] /\ <<text[j], lines[j]>>[2] = lines[j]
        /\ <<t[j], lines[j]>>[1] = t[j] /\ <<t[j], lines[j]>>[2] = lines[j]
    OBVIOUS
  <2> QED BY <1>6, <2>1 DEF RenamedEntry
<1>8. \A x \in Entries(t, lines) :
        \E e \in Entries(text, lines) : RenamedEntry(e, x, ns, names)
  BY <1>5, <1>7 DEF Entries
<1>9. \A e \in Entries(text, lines) :
        \E x \in Entries(t, lines) : RenamedEntry(e, x, ns, names)
  BY <1>5, <1>7 DEF Entries
<1>10. UniqueText(t)
  <2> SUFFICES ASSUME NEW k \in DOMAIN text, NEW l \in DOMAIN text,
                      t[k].decl = t[l].decl, t[k].decl # << >>
               PROVE  k = l
    BY <1>5 DEF UniqueText
  <2>1. text[k].decl # << >> /\ t[k].decl = <<ns>> \o text[k].decl /\ IsSeq(text[k].decl)
    BY <1>4, <1>6
  <2>2. text[l].decl # << >> /\ t[l].decl = <<ns>> \o text[l].decl /\ IsSeq(text[l].decl)
    BY <1>4, <1>6
  <2>3. text[k].decl = text[l].decl
    <3> DEFINE d == text[k].decl
               e == text[l].decl
    <3>1. <<ns>> \o d = <<ns>> \o e /\ IsSeq(d) /\ IsSeq(e)
      BY <2>1, <2>2
    <3> HIDE DEF d, e
    <3>2. d = e
      BY <3>1, PrefixFacts
    <3> QED BY <3>2 DEF d, e
  <2> QED BY <2>1, <2>3 DEF UniqueText
<1>11. Paired(t, lines)
  <2>1. Tracked(t, lines)
    BY <1>1, MangledTracked
  <2> QED BY <2>1 DEF Tracked, Paired
<1> QED BY <1>1, <1>8, <1>9, <1>10, <1>11 DEF names

\* When a namespaced import has been read to the end, all that it visited has
\* been read.
LEMMA SpaceHolds ==
  ASSUME files \in Programs, NEW s, NEW b \in Nat, NEW base, NEW scope,
         Level(s, b, b, base, scope), scope \subseteq Files, \A g \in scope : Spaced(g) = {},
         s[b].at \in Nat, s[b].at > Len(files[s[b].file])
  PROVE  LET V == s[b].visited \ base
             E == Entries(s[b].text, s[b].lines)
         IN  /\ \A g \in V : Plain(g) \subseteq s[b].visited
             /\ \A g \in V : \A d \in DeclsOf(g) : \E e \in E : e[1].decl = d /\ e[2][1] = g
             /\ \A e \in E : \/ BlankEntry(e)
                             \/ /\ e[2] = <<e[2][1], e[2][2]>> /\ e[2][1] \in V
                                /\ e[2][2] \in DOMAIN files[e[2][1]]
                                /\ e[1].decl = SourceLine(e[2]).decl
                                /\ e[1].refs = SourceLine(e[2]).refs
<1> DEFINE V == s[b].visited \ base
           E == Entries(s[b].text, s[b].lines)
           rd == LinesRead(s, b, b, base)
<1>1. \A i \in b .. b : i = b
  OBVIOUS
<1>2. Held(s, b, b) = E
  BY <1>1 DEF Held
<1>3. /\ V \subseteq scope
      /\ \A o \in rd : LineKnown(o, E, s[b].visited, Namespaces(s[b]), scope)
      /\ \A e \in E : BlankEntry(e) \/ PlainEntry(e, rd) \/ SpacedEntry(e, E, rd)
  BY <1>2 DEF Level, Known
<1>4. ASSUME NEW g \in V, NEW j \in DOMAIN files[g]
      PROVE  <<g, j>> \in rd
  <2>1. g \in Files
    BY <1>3
  <2>2. s[b].file = g => j < s[b].at
    <3> DEFINE k == Len(files[g])
    <3>1. j \in Nat \ {0} /\ j <= k
      BY <2>1, LineFacts
    <3>2. k \in Nat
      <4>1. IsSeq(files[g])
        BY <2>1, ProgramsAssumption DEF Counted, IsSeq
      <4> QED BY <4>1, SeqFacts
    <3>3. s[b].file = g => s[b].at > k
      OBVIOUS
    <3> HIDE DEF k
    <3> QED BY <3>1, <3>2, <3>3
  <2>3. \A i \in b .. b : s[i].file = g => j < s[i].at
    BY <1>1, <2>2
  <2>4. <<g, j>>[1] = g /\ <<g, j>>[2] = j
    OBVIOUS
  <2> QED BY <2>3, <2>4, ReadFacts
<1>5. \A o \in rd : o = <<o[1], o[2]>> /\ o[1] \in V /\ o[2] \in DOMAIN files[o[1]]
  BY ReadFacts
<1>6. s[b].visited = s[b].visited
  OBVIOUS
<1> HIDE DEF V, E, rd
<1>7. ASSUME NEW g \in V, NEW x \in Plain(g)
      PROVE  x \in s[b].visited
  <2>1. PICK j \in DOMAIN files[g] : IsPlainUse(files[g][j]) /\ files[g][j].file = x
    BY UseFacts
  <2>2. LineKnown(<<g, j>>, E, s[b].visited, Namespaces(s[b]), scope)
    BY <1>3, <1>4
  <2>3. SourceLine(<<g, j>>) = files[g][j]
    BY DEF SourceLine
  <2> QED BY <2>1, <2>2, <2>3 DEF LineKnown
<1>8. ASSUME NEW g \in V, NEW d \in DeclsOf(g)
      PROVE  \E e \in E : e[1].decl = d /\ e[2][1] = g
  <2>1. PICK j \in DOMAIN files[g] : files[g][j].decl = d /\ d # << >>
    BY DeclFacts
  <2>2. LineKnown(<<g, j>>, E, s[b].visited, Namespaces(s[b]), scope)
    BY <1>3, <1>4
  <2>3. SourceLine(<<g, j>>) = files[g][j] /\ <<g, j>>[1] = g
    BY DEF SourceLine
  <2>4. PICK e \in E : e[1].decl = d /\ e[2] = <<g, j>>
    BY <2>1, <2>2, <2>3 DEF LineKnown
  <2> QED BY <2>3, <2>4
<1>9. ASSUME NEW e \in E, ~BlankEntry(e)
      PROVE  PlainEntry(e, rd)
  <2> SUFFICES ASSUME SpacedEntry(e, E, rd)
               PROVE  FALSE
    BY <1>3, <1>9
  <2>1. PICK o \in rd : IsSpacedUse(SourceLine(o))
    BY DEF SpacedEntry
  <2>2. SourceLine(o) = files[o[1]][o[2]] /\ o[1] \in scope /\ o[2] \in DOMAIN files[o[1]]
    BY <1>3, <1>5 DEF SourceLine
  <2>3. files[o[1]][o[2]] \in Spaced(o[1])
    BY <2>1, <2>2, LineFacts
  <2> QED BY <2>2, <2>3
<1>10. \A e \in E : \/ BlankEntry(e)
                    \/ /\ e[2] = <<e[2][1], e[2][2]>> /\ e[2][1] \in V
                       /\ e[2][2] \in DOMAIN files[e[2][1]]
                       /\ e[1].decl = SourceLine(e[2]).decl
                       /\ e[1].refs = SourceLine(e[2]).refs
  BY <1>5, <1>9 DEF PlainEntry
<1> QED BY <1>7, <1>8, <1>10 DEF V, E

-----------------------------------------------------------------------------
\* The root's level is at a namespaced use.
AtSpace(s, m, u) ==
  /\ Level(s, 1, m, {}, Closure(Root))
  /\ s[m].at \in DOMAIN files[s[m].file] /\ u = files[s[m].file][s[m].at] /\ IsSpacedUse(u)

\* Its call is the last one, and has read its file.
SpaceDone(s, m, u) ==
  /\ AtSpace(s, m, u)
  /\ u.file = s[m + 1].file
  /\ Level(s, m + 1, m + 1, s[m].visited, Closure(u.file) \ {Root})
  /\ s[m + 1].at \in Nat /\ s[m + 1].at > Len(files[s[m + 1].file])

\* Its use is one that the root sees, for a file that it does not share.
LEMMA SpaceUse ==
  ASSUME files \in Programs, Simple, NEW s, NEW m \in Nat \ {0}, NEW u, AtSpace(s, m, u)
  PROVE  /\ s[m].file \in Closure(Root) /\ s[m].visited \subseteq Closure(Root)
         /\ u \in Spaced(s[m].file) /\ u \in Seen(Root) /\ u.file \in Files
         /\ u.file \notin Closure(Root) /\ u.decl = << >> /\ ~IsPlainUse(u)
         /\ Closure(u.file) \subseteq Files /\ u.file \in Closure(u.file)
         /\ \A g \in Closure(u.file) \ {Root} : Spaced(g) = {}
         /\ \A f, g \in Closure(u.file) :
              \A j \in DOMAIN files[f], k \in DOMAIN files[g] :
                files[f][j].decl = files[g][k].decl /\ files[f][j].decl # << >> => f = g /\ j = k
<1> DEFINE f == s[m].file
           j == s[m].at
<1>1. f \in Closure(Root) /\ s[m].visited \subseteq Closure(Root)
  <2>1. /\ s[m].visited \ {} \subseteq Closure(Root)
        /\ \A i \in 1 .. m : s[i].file \in s[m].visited \ {}
    BY DEF AtSpace, Level
  <2>2. m \in 1 .. m
    OBVIOUS
  <2> QED BY <2>1, <2>2
<1>2. f \in Files
  BY <1>1, ProgramsAssumption, ClosureFacts
<1>3. j \in DOMAIN files[f] /\ u = files[f][j] /\ IsSpacedUse(u)
  BY DEF AtSpace
<1> HIDE DEF f, j
<1>4. u.k = "use" /\ ~IsPlainUse(u)
  BY <1>3 DEF IsSpacedUse, IsPlainUse
<1>5. u \in Spaced(f) /\ u.file \in Files /\ u.decl = << >>
  BY <1>2, <1>3, <1>4, LineFacts
<1>6. u \in Seen(Root)
  BY <1>1, <1>5 DEF Seen
<1>7. u.file \notin Closure(Root) /\ \A g \in Closure(u.file) \ {Root} : Spaced(g) = {}
  BY <1>6 DEF Simple
<1>8. \A g, h \in Closure(u.file) :
        \A i \in DOMAIN files[g], k \in DOMAIN files[h] :
          files[g][i].decl = files[h][k].decl /\ files[g][i].decl # << >> => g = h /\ i = k
  <2>1. u.file \in {Root} \cup {v.file : v \in Seen(Root)}
    BY <1>6
  <2> QED BY <2>1 DEF Simple
<1>9. Closure(u.file) \subseteq Files /\ u.file \in Closure(u.file)
  BY <1>5, ClosureFacts
<1> QED BY <1>1, <1>4, <1>5, <1>6, <1>7, <1>8, <1>9 DEF f

\* What a file in it has in scope is read under the namespace, or is the root's.
LEMMA SpaceReach ==
  ASSUME files \in Programs, Simple, NEW s, NEW m \in Nat \ {0}, NEW u, SpaceDone(s, m, u),
         NEW g \in s[m + 1].visited \ s[m].visited
  PROVE  /\ Closure(g) \subseteq (s[m + 1].visited \ s[m].visited) \cup Closure(Root)
         /\ g \in Closure(u.file) \ {Root} /\ Closure(g) \subseteq Closure(u.file)
<1> DEFINE V == s[m + 1].visited \ s[m].visited
           C == Closure(Root)
           S == V \cup C
<1>1. /\ s[m].visited \subseteq C
      /\ u.file \in Files /\ Closure(u.file) \subseteq Files
      /\ \A x \in Closure(u.file) \ {Root} : Spaced(x) = {}
  BY SpaceUse DEF SpaceDone
<1>2. V \subseteq Closure(u.file) \ {Root} /\ m + 1 \in Nat
  BY DEF SpaceDone, Level
<1>3. \A x \in V : Plain(x) \subseteq s[m + 1].visited
  <2> DEFINE b == m + 1
             base == s[m].visited
             scope == Closure(u.file) \ {Root}
  <2>1. /\ Level(s, b, b, base, scope) /\ s[b].at \in Nat /\ s[b].at > Len(files[s[b].file])
    BY DEF SpaceDone
  <2>2. b \in Nat /\ scope \subseteq Files /\ \A x \in scope : Spaced(x) = {}
    BY <1>1
  <2>3. V = s[b].visited \ base
    OBVIOUS
  <2> HIDE DEF b, base, scope, V
  <2>4. \A x \in V : Plain(x) \subseteq s[b].visited
    BY <2>1, <2>2, <2>3, SpaceHolds
  <2> QED BY <2>4 DEF b
<1>4. C \subseteq Files /\ \A x \in C : Plain(x) \subseteq C
  BY ProgramsAssumption, ClosureFacts
<1>5. s[m + 1].visited \subseteq S
  BY <1>1
<1>6. g \in V
  OBVIOUS
<1> HIDE DEF V, C
<1>7. S \in SUBSET Files /\ g \in S /\ \A x \in S : Plain(x) \subseteq S
  BY <1>1, <1>2, <1>3, <1>4, <1>5, <1>6
<1> HIDE DEF S
<1>8. Closure(g) \subseteq S
  BY <1>7, ClosureLeast
<1>9. g \in Closure(u.file) \ {Root} /\ Closure(g) \subseteq Closure(u.file)
  BY <1>1, <1>2, <1>6, ClosureIn
<1> QED BY <1>8, <1>9 DEF S, V, C

-----------------------------------------------------------------------------
\* What is mentioned in it is renamed with what it stands for, or not at all.
LEMMA SpaceRef ==
  ASSUME files \in Programs, Simple, NEW s, NEW m \in Nat \ {0}, NEW u, SpaceDone(s, m, u),
         NEW names, names = FindTopLevelNames(s[m + 1].text),
         NEW E, \A e \in Entries(s[m + 1].text, s[m + 1].lines) :
                  \E x \in E : RenamedEntry(e, x, u.ns, names),
         NEW g \in s[m + 1].visited \ s[m].visited, NEW r,
         NEW final, final = Ref(NewWord(r.q, u.ns, names), NewWord(r.n, u.ns, names))
  PROVE  RefKept(g, r, final, E)
<1> DEFINE V == s[m + 1].visited \ s[m].visited
           B == Entries(s[m + 1].text, s[m + 1].lines)
<1>1. /\ Closure(g) \subseteq V \cup Closure(Root) /\ g \in Closure(u.file) \ {Root}
      /\ Closure(g) \subseteq Closure(u.file)
  BY SpaceReach
<1>2. /\ Closure(u.file) \subseteq Files
      /\ \A x \in Closure(u.file) \ {Root} : Spaced(x) = {}
      /\ \A f, h \in Closure(u.file) :
           \A j \in DOMAIN files[f], k \in DOMAIN files[h] :
             files[f][j].decl = files[h][k].decl /\ files[f][j].decl # << >> => f = h /\ j = k
  BY SpaceUse DEF SpaceDone
<1>3. V \subseteq Closure(u.file) \ {Root}
  BY DEF SpaceDone, Level
<1>4. /\ \A h \in V : \A d \in DeclsOf(h) : \E e \in B : e[1].decl = d /\ e[2][1] = h
      /\ \A e \in B : \/ BlankEntry(e)
                      \/ /\ e[2] = <<e[2][1], e[2][2]>> /\ e[2][1] \in V
                         /\ e[2][2] \in DOMAIN files[e[2][1]]
                         /\ e[1].decl = SourceLine(e[2]).decl
                         /\ e[1].refs = SourceLine(e[2]).refs
  <2> DEFINE b == m + 1
             base == s[m].visited
             scope == Closure(u.file) \ {Root}
  <2>1. /\ Level(s, b, b, base, scope) /\ s[b].at \in Nat /\ s[b].at > Len(files[s[b].file])
    BY DEF SpaceDone
  <2>2. b \in Nat /\ scope \subseteq Files /\ \A x \in scope : Spaced(x) = {}
    BY <1>2
  <2>3. V = s[b].visited \ base /\ B = Entries(s[b].text, s[b].lines)
    OBVIOUS
  <2> HIDE DEF b, base, scope, V, B
  <2> QED BY <2>1, <2>2, <2>3, SpaceHolds
<1>5. \A e \in B : \E x \in E : RenamedEntry(e, x, u.ns, names)
  OBVIOUS
<1>6. /\ \A e \in B : e[1].decl # << >> => e[1].decl \in names
      /\ \A d \in names : d # << >> /\ \E e \in B : e[1].decl = d
  <2> DEFINE text == s[m + 1].text
             from == s[m + 1].lines
  <2>1. names = FindTopLevelNames(text) /\ B = Entries(text, from)
    OBVIOUS
  <2> HIDE DEF text, from, B, V
  <2>2. /\ \A e \in Entries(text, from) : e[1].decl # << >> => e[1].decl \in FindTopLevelNames(text)
        /\ \A d \in FindTopLevelNames(text) :
             d # << >> /\ \E e \in Entries(text, from) : e[1].decl = d
    BY EntryNames
  <2> QED BY <2>1, <2>2
<1> HIDE DEF V, B
<1> SUFFICES ASSUME Meant(g, r) # {}
             PROVE  /\ final.q = << >>
                    /\ \/ final.n = r.n /\ Meant(g, r) \subseteq Closure(Root)
                       \/ \E x \in E :
                            x[1].decl = final.n /\ final.n # << >> /\ x[2][1] \in Meant(g, r)
  BY DEF RefKept
<1>7. r.q = << >>
  <2>1. Spaced(g) = {}
    BY <1>1, <1>2
  <2> QED BY <2>1 DEF Meant
<1>8. Meant(g, r) = {h \in Closure(g) : r.n \in DeclsOf(h)}
  BY <1>7 DEF Meant
<1>9. final.q = << >> /\ final.n = NewWord(r.n, u.ns, names)
  <2>1. << >> \notin names
    BY <1>6
  <2> QED BY <1>7, <2>1 DEF Ref, NewWord
<1>10. CASE r.n \in names
  <2>1. PICK e \in B : e[1].decl = r.n
    BY <1>6, <1>10
  <2>2. r.n # << >>
    BY <1>6, <1>10
  <2> DEFINE f == e[2][1]
             j == e[2][2]
  <2>3. ~BlankEntry(e)
    BY <2>1, <2>2 DEF BlankEntry
  <2>4. f \in V /\ j \in DOMAIN files[f] /\ r.n = files[f][j].decl
    BY <1>4, <2>1, <2>3 DEF SourceLine
  <2>5. PICK h \in Closure(g) : r.n \in DeclsOf(h)
    BY <1>8
  <2>6. PICK k \in DOMAIN files[h] : files[h][k].decl = r.n
    BY <2>5, DeclFacts
  <2>7. PICK x \in E : RenamedEntry(e, x, u.ns, names)
    BY <1>5
  <2>8. x[1].decl = <<u.ns>> \o r.n /\ x[2][1] = f
    BY <2>1, <2>2, <2>7 DEF RenamedEntry
  <2> HIDE DEF f, j
  <2>9. f \in Closure(u.file) /\ h \in Closure(u.file)
    BY <1>1, <1>3, <2>4
  <2>10. f = h
    BY <1>2, <2>2, <2>4, <2>6, <2>9
  <2>11. f \in Meant(g, r)
    BY <1>8, <2>5, <2>10
  <2>12. IsSeq(r.n)
    BY <1>2, <2>4, <2>9, LineFacts
  <2>13. <<u.ns>> \o r.n # << >>
    BY <2>12, PrefixFacts
  <2>14. final.n = <<u.ns>> \o r.n
    BY <1>9, <1>10 DEF NewWord
  <2> QED BY <1>9, <2>8, <2>11, <2>13, <2>14
<1>11. CASE r.n \notin names
  <2>1. final.n = r.n
    BY <1>9, <1>11 DEF NewWord
  <2>2. ASSUME NEW h \in Meant(g, r)
        PROVE  h \in Closure(Root)
    <3>1. h \in V \cup Closure(Root) /\ r.n \in DeclsOf(h)
      BY <1>1, <1>8
    <3>2. r.n # << >>
      BY <3>1, DeclFacts
    <3>3. h \notin V
      BY <1>4, <1>6, <1>11, <3>1, <3>2
    <3> QED BY <3>1, <3>3
  <2> QED BY <1>9, <2>1, <2>2
<1> QED BY <1>10, <1>11

\* A name under the namespace is new to the level of the root.
LEMMA SpaceFresh ==
  ASSUME files \in Programs, Simple, NEW s, NEW m \in Nat \ {0}, NEW u, SpaceDone(s, m, u),
         NEW w, IsSeq(w), NEW e \in Held(s, 1, m)
  PROVE  e[1].decl # <<u.ns>> \o w
<1> DEFINE rd == LinesRead(s, 1, m, {})
           E == Held(s, 1, m)
           C == Closure(Root)
           f == s[m].file
           a == s[m].at
           d == <<u.ns>> \o w
<1>1. f \in C /\ u \in Spaced(f) /\ a \in DOMAIN files[f] /\ files[f][a] = u /\ u \in Seen(Root)
  <2>1. f \in C /\ u \in Spaced(f) /\ u \in Seen(Root)
    BY SpaceUse DEF SpaceDone
  <2>2. a \in DOMAIN files[f] /\ files[f][a] = u
    BY DEF SpaceDone, AtSpace
  <2> QED BY <2>1, <2>2
<1>2. C \subseteq Files
  BY ProgramsAssumption, ClosureFacts
<1>3. /\ \A o \in rd : LineKnown(o, E, s[m].visited, Namespaces(s[m]), C)
      /\ BlankEntry(e) \/ PlainEntry(e, rd) \/ SpacedEntry(e, E, rd)
  BY DEF SpaceDone, AtSpace, Level, Known
<1>4. \A o \in rd : f = o[1] => o[2] < a
  <2>1. m \in 1 .. m
    OBVIOUS
  <2> QED BY <2>1, ReadFacts
<1>5. \A o \in rd : o = <<o[1], o[2]>> /\ o[1] \in C /\ o[2] \in DOMAIN files[o[1]]
  BY <1>3 DEF LineKnown
<1>6. d # << >> /\ Head(d) = u.ns
  BY PrefixFacts
<1>7. Apart(C)
  BY SimpleApart
<1> HIDE DEF rd, E, C, f, a
<1> SUFFICES ASSUME e[1].decl = d
             PROVE  FALSE
  OBVIOUS
<1> HIDE DEF d
<1>8. CASE BlankEntry(e)
  BY <1>6, <1>8 DEF BlankEntry
<1>9. CASE PlainEntry(e, rd)
  <2>1. e[2] \in rd /\ files[e[2][1]][e[2][2]].decl = d
    BY <1>9 DEF PlainEntry, SourceLine
  <2>2. e[2][1] \in C /\ d \in DeclsOf(e[2][1])
    BY <1>5, <1>6, <2>1, DeclFacts
  <2> QED BY <1>1, <1>6, <1>7, <2>2 DEF Apart
<1>10. CASE SpacedEntry(e, E, rd)
  <2>1. PICK o \in rd :
          /\ IsSpacedUse(SourceLine(o))
          /\ e[2][1] \in Closure(SourceLine(o).file) /\ e[2][2] \in DOMAIN files[e[2][1]]
          /\ e[1].decl = IF SourceLine(e[2]).decl = << >> THEN << >>
                         ELSE <<SourceLine(o).ns>> \o SourceLine(e[2]).decl
    BY <1>10 DEF SpacedEntry
  <2> DEFINE v == SourceLine(o)
             w2 == SourceLine(e[2]).decl
             g == o[1]
             j == o[2]
  <2>2. v = files[g][j] /\ g \in C /\ g \in Files /\ j \in DOMAIN files[g]
    BY <1>2, <1>5 DEF SourceLine
  <2>3. v \in Spaced(g) /\ v.file \in Files
    <3>1. IsSpacedUse(v) /\ v.k = "use"
      BY <2>1, ClauseFacts
    <3> HIDE DEF g, j, v
    <3> QED BY <2>2, <3>1, LineFacts
  <2>4. e[2][1] \in Files
    BY <2>1, <2>3, ClosureFacts
  <2>5. IsSeq(w2)
    BY <2>1, <2>4, LineFacts DEF SourceLine
  <2>6. d = <<v.ns>> \o w2
    BY <1>6, <2>1
  <2>7. g = o[1] /\ j = o[2]
    OBVIOUS
  <2> HIDE DEF v, w2, g, j
  <2>8. v.ns = u.ns
    BY <1>6, <2>5, <2>6, PrefixFacts
  <2>9. v \in Seen(Root)
    BY <2>2, <2>3 DEF Seen, C
  <2>10. v = u
    BY <1>1, <2>8, <2>9 DEF Simple
  <2>11. g = f
    <3>1. \A x, y \in C : x # y =>
            {z.ns : z \in Spaced(x)} \cap {z.ns : z \in Spaced(y)} = {}
      BY DEF Simple, C
    <3>2. u.ns \in {z.ns : z \in Spaced(g)} /\ u.ns \in {z.ns : z \in Spaced(f)}
      BY <1>1, <2>3, <2>10
    <3> QED BY <1>1, <2>2, <3>1, <3>2
  <2>12. j = a
    <3>1. \A x \in C : \A i, k \in DOMAIN files[x] :
            files[x][i] = files[x][k] /\ files[x][i] \in Spaced(x) => i = k
      BY DEF Simple, C
    <3> QED BY <1>1, <2>2, <2>10, <2>11, <3>1
  <2>13. a < a /\ a \in Nat
    <3>1. a < a
      BY <1>4, <2>7, <2>11, <2>12
    <3>2. a \in Nat
      BY <1>1, <1>2, LineFacts
    <3> QED BY <3>1, <3>2
  <2> QED BY <2>13
<1> QED BY <1>3, <1>8, <1>9, <1>10

-----------------------------------------------------------------------------
\* The text of a namespaced import, renamed, and the empty line after it.
LEMMA SpacedAdds ==
  ASSUME files \in Programs, Simple, NEW s, NEW t, NEW m \in Nat \ {0}, NEW u, SpaceDone(s, m, u),
         Tracked(s[m + 1].text, s[m + 1].lines), u.ns \in Namespaces(t[m])
  PROVE  LET text == MangleTopLevelNames(s[m + 1].text, u.ns)
             more == Append(text, Blank)
             from == Append(s[m + 1].lines, << >>)
         IN  Adds(s, t, 1, m, {}, Closure(Root), more, from) /\ Paired(more, from)
<1> DEFINE names == FindTopLevelNames(s[m + 1].text)
           T == MangleTopLevelNames(s[m + 1].text, u.ns)
           L == s[m + 1].lines
           B == Entries(s[m + 1].text, L)
           X == Entries(T, L)
           more == Append(T, Blank)
           from == Append(L, << >>)
           F == Entries(more, from)
           E == Held(s, 1, m) \cup F
           rd == LinesRead(s, 1, m, {})
           o == <<s[m].file, s[m].at>>
           V == s[m + 1].visited \ s[m].visited
<1>1. UniqueText(s[m + 1].text) /\ s[m + 1].file \in V
      /\ V \subseteq Closure(u.file) \ {Root}
  <2>1. m + 1 \in m + 1 .. m + 1
    OBVIOUS
  <2>2. Level(s, m + 1, m + 1, s[m].visited, Closure(u.file) \ {Root})
    BY DEF SpaceDone
  <2> QED BY <2>1, <2>2 DEF Level, Unique
<1>2. /\ \A x \in X : \E e \in B : RenamedEntry(e, x, u.ns, names)
      /\ \A e \in B : \E x \in X : RenamedEntry(e, x, u.ns, names)
      /\ UniqueText(T) /\ Paired(T, L)
  BY <1>1, MangledEntries
<1>3. /\ s[m].file \in Closure(Root) /\ u.file \in Files /\ u.decl = << >> /\ ~IsPlainUse(u)
      /\ Closure(u.file) \subseteq Files
      /\ \A g \in Closure(u.file) \ {Root} : Spaced(g) = {}
  BY SpaceUse DEF SpaceDone
<1>4. s[m].at \in DOMAIN files[s[m].file] /\ u = files[s[m].file][s[m].at] /\ IsSpacedUse(u)
      /\ u.file = s[m + 1].file
  BY DEF SpaceDone, AtSpace
<1>5. /\ \A h \in V : \A d \in DeclsOf(h) : \E e \in B : e[1].decl = d /\ e[2][1] = h
      /\ \A e \in B : \/ BlankEntry(e)
                      \/ /\ e[2] = <<e[2][1], e[2][2]>> /\ e[2][1] \in V
                         /\ e[2][2] \in DOMAIN files[e[2][1]]
                         /\ e[1].decl = SourceLine(e[2]).decl
                         /\ e[1].refs = SourceLine(e[2]).refs
  <2> DEFINE b == m + 1
             base == s[m].visited
             scope == Closure(u.file) \ {Root}
  <2>1. /\ Level(s, b, b, base, scope) /\ s[b].at \in Nat /\ s[b].at > Len(files[s[b].file])
    BY DEF SpaceDone
  <2>2. b \in Nat /\ scope \subseteq Files /\ \A x \in scope : Spaced(x) = {}
    BY <1>3
  <2>3. V = s[b].visited \ base /\ B = Entries(s[b].text, s[b].lines)
    OBVIOUS
  <2> HIDE DEF b, base, scope, V, B
  <2> QED BY <2>1, <2>2, <2>3, SpaceHolds
<1>6. SourceLine(o) = u /\ o = <<o[1], o[2]>> /\ o[1] = s[m].file /\ o[2] = s[m].at
  BY <1>4 DEF SourceLine
<1>7. /\ F = X \cup {<<Blank, << >>>>} /\ Paired(more, from) /\ UniqueText(more)
      /\ BlankEntry(<<Blank, << >>>>)
  <2>1. IsSeq(T) /\ IsSeq(L) /\ Len(T) = Len(L)
    BY <1>2 DEF Paired
  <2>2. Blank.decl = << >>
    BY DEF Blank
  <2> DEFINE one == <<Blank>>
             none == <<<< >>>>
  <2>3. /\ Entries(one, none) = {<<Blank, << >>>>} /\ UniqueText(one) /\ Paired(one, none)
        /\ FindTopLevelNames(one) = {}
    BY <2>2, OneEntry
  <2>4. more = T \o one /\ from = L \o none
    BY <2>1, AppendJoined
  <2>5. BlankEntry(<<Blank, << >>>>)
    BY <2>2 DEF BlankEntry
  <2> HIDE DEF T, L, one, none, X, B, names
  <2>6. /\ Entries(T \o one, L \o none) = Entries(T, L) \cup Entries(one, none)
        /\ UniqueText(T \o one)
    BY <1>2, <2>1, <2>3, EntriesJoined DEF Paired
  <2>7. IsSeq(more) /\ IsSeq(from) /\ Len(more) = Len(from)
    BY <2>1, OneMore
  <2> QED BY <2>3, <2>4, <2>5, <2>6, <2>7 DEF X, Paired
<1>8. u.ns \in Namespaces(t[m]) /\ names = FindTopLevelNames(s[m + 1].text)
  OBVIOUS
<1>9. \A e \in B : \E x \in E : RenamedEntry(e, x, u.ns, names)
  BY <1>2, <1>7
<1>10. \A w : IsSeq(w) => \A e \in Held(s, 1, m) : e[1].decl # <<u.ns>> \o w
  BY SpaceFresh
<1>11. ASSUME NEW g \in V, NEW r, NEW final,
              final = Ref(NewWord(r.q, u.ns, names), NewWord(r.n, u.ns, names))
       PROVE  RefKept(g, r, final, E)
  <2>1. \A e \in Entries(s[m + 1].text, s[m + 1].lines) :
           \E x \in E : RenamedEntry(e, x, u.ns, names)
    BY <1>9
  <2>2. g \in s[m + 1].visited \ s[m].visited
    OBVIOUS
  <2> HIDE DEF E, V, names
  <2> QED BY <1>8, <1>11, <2>1, <2>2, SpaceRef
<1> HIDE DEF names, T, L, B, X, more, from, F, rd, o, V
<1>12. E = Held(s, 1, m) \cup F /\ F \subseteq E
  OBVIOUS
<1> HIDE DEF E
<1>13. LineKnown(o, E, s[m].visited, Namespaces(t[m]), Closure(Root))
  <2>1. ASSUME NEW d \in DeclsOf(u.file)
        PROVE  \E x \in E : x[1].decl = <<u.ns>> \o d /\ x[2][1] = u.file
    <3>1. PICK e \in B : e[1].decl = d /\ e[2][1] = u.file
      BY <1>1, <1>4, <1>5
    <3>2. PICK x \in E : RenamedEntry(e, x, u.ns, names)
      BY <1>9
    <3>3. d # << >>
      BY DeclFacts
    <3> QED BY <3>1, <3>2, <3>3 DEF RenamedEntry
  <2>2. Brought(u, E, Namespaces(t[m]))
    BY <1>8, <2>1 DEF Brought
  <2> QED BY <1>3, <1>4, <1>6, <2>2 DEF LineKnown
<1>14. ASSUME NEW x \in X
       PROVE  BlankEntry(x) \/ SpacedEntry(x, E, rd \cup {o})
  <2>1. PICK e \in B : RenamedEntry(e, x, u.ns, names)
    BY <1>2
  <2>2. CASE BlankEntry(e)
    BY <2>1, <2>2 DEF BlankEntry, RenamedEntry
  <2>3. CASE ~BlankEntry(e)
    <3> DEFINE g == e[2][1]
    <3>1. /\ e[2] = <<g, e[2][2]>> /\ g \in V /\ e[2][2] \in DOMAIN files[g]
          /\ e[1].decl = SourceLine(e[2]).decl /\ e[1].refs = SourceLine(e[2]).refs
      BY <1>5, <2>3
    <3>2. /\ x[2] = e[2]
          /\ x[1].decl = IF e[1].decl = << >> THEN << >> ELSE <<u.ns>> \o e[1].decl
          /\ DOMAIN x[1].refs = DOMAIN e[1].refs
          /\ \A i \in DOMAIN e[1].refs :
               x[1].refs[i] = Ref(NewWord(e[1].refs[i].q, u.ns, names),
                                  NewWord(e[1].refs[i].n, u.ns, names))
      BY <2>1 DEF RenamedEntry
    <3> HIDE DEF g
    <3>3. ASSUME NEW i \in DOMAIN x[1].refs
          PROVE  RefKept(g, SourceLine(x[2]).refs[i], x[1].refs[i], E)
      BY <1>11, <3>1, <3>2
    <3>4. x[2][1] = g
      BY <3>2 DEF g
    <3>5. g \in Closure(u.file) \ {Root}
      BY <1>1, <3>1
    <3>6. /\ x[2] = <<x[2][1], x[2][2]>> /\ x[2][2] \in DOMAIN files[x[2][1]]
          /\ x[1].decl = IF SourceLine(x[2]).decl = << >> THEN << >>
                         ELSE <<u.ns>> \o SourceLine(x[2]).decl
          /\ DOMAIN x[1].refs = DOMAIN SourceLine(x[2]).refs
      BY <3>1, <3>2, <3>4
    <3>7. o \in rd \cup {o}
      OBVIOUS
    <3>8. SpacedEntry(x, E, rd \cup {o})
      BY <1>4, <1>6, <3>3, <3>4, <3>5, <3>6, <3>7 DEF SpacedEntry
    <3> QED BY <3>8
  <2> QED BY <2>2, <2>3
<1>15. ASSUME NEW d \in FindTopLevelNames(more), NEW e2 \in Held(s, 1, m)
       PROVE  e2[1].decl # d
  <2>1. PICK x \in F : x[1].decl = d /\ d # << >>
    BY EntryNames DEF F
  <2>2. x \in X
    BY <1>7, <2>1 DEF BlankEntry
  <2>3. PICK e \in B : RenamedEntry(e, x, u.ns, names)
    BY <1>2, <2>2
  <2>4. e[1].decl # << >> /\ d = <<u.ns>> \o e[1].decl
    BY <2>1, <2>3 DEF RenamedEntry
  <2>5. ~BlankEntry(e)
    BY <2>4 DEF BlankEntry
  <2>6. IsSeq(e[1].decl)
    <3> DEFINE g == e[2][1]
               j == e[2][2]
    <3>1. g \in Files /\ j \in DOMAIN files[g] /\ e[1].decl = files[g][j].decl
      BY <1>1, <1>3, <1>5, <2>5 DEF SourceLine
    <3> HIDE DEF g, j
    <3> QED BY <3>1, LineFacts
  <2> QED BY <1>10, <2>4, <2>6
<1>16. Adds(s, t, 1, m, {}, Closure(Root), more, from)
  <2>1. \A x \in F : BlankEntry(x) \/ PlainEntry(x, rd \cup {o}) \/ SpacedEntry(x, E, rd \cup {o})
    BY <1>7, <1>14
  <2> QED BY <1>7, <1>12, <1>13, <1>15, <2>1 DEF Adds, F, rd, o
<1> QED BY <1>7, <1>16 DEF more, from, T, L

-----------------------------------------------------------------------------
\* The level of the innermost call: the root's, or a namespace's, where no
\* line introduces a namespace.
TopLevel(s, lo, base, scope) ==
  /\ lo \in 1 .. Len(s) /\ scope \subseteq Files /\ Apart(scope)
  /\ Level(s, lo, Len(s), base, scope)
  /\ \A g \in scope : Plain(g) \subseteq scope \cup {Root}
  /\ lo = 1 \/ (s[lo].ns # "" /\ \A g \in scope : Spaced(g) = {})
  /\ lo = 1 => base = {} /\ scope = Closure(Root)

\* A step of that level that leaves those around it alone.
StaysOn(s, t, lo, base, scope) ==
  /\ lo \in 1 .. Len(t) /\ \A i \in 1 .. lo - 1 : t[i] = s[i]
  /\ t[lo].file = s[lo].file /\ t[lo].ns = s[lo].ns
  /\ Level(t, lo, Len(t), base, scope)

\* A namespace's level, and what it is the level of.
LEMMA SpaceTop ==
  ASSUME files \in Programs, Simple, NEW s, Len(s) \in Nat \ {0}, NEW b \in 2 .. Len(s),
         LevelOfSpace(s, b)
  PROVE  LET u == files[s[b - 1].file][s[b - 1].at] IN
         /\ AtSpace(s, b - 1, u) /\ u.file = s[b].file /\ s[b].ns = u.ns /\ u.ns # ""
         /\ TopLevel(s, b, s[b - 1].visited, Closure(u.file) \ {Root})
<1> DEFINE m == b - 1
           u == files[s[m].file][s[m].at]
           base == s[m].visited
           scope == Closure(u.file) \ {Root}
           n == Len(s)
           C == Closure(Root)
<1>1. b \in 1 .. n /\ b # 1 /\ m \in Nat \ {0}
  OBVIOUS
<1>2. /\ Level(s, 1, m, {}, C) /\ s[m].at \in DOMAIN files[s[m].file] /\ IsSpacedUse(u)
      /\ u.file = s[b].file /\ s[b].ns = u.ns
      /\ Level(s, b, n, base, scope)
  BY DEF LevelOfSpace
<1>3. AtSpace(s, m, u)
  BY <1>2 DEF AtSpace
<1>4. /\ u \in Seen(Root) /\ Closure(u.file) \subseteq Files /\ u.file \in Files
      /\ \A g \in scope : Spaced(g) = {}
  <2> HIDE DEF m, u
  <2> QED BY <1>1, <1>3, SpaceUse
<1>5. \A g \in Closure(u.file) : Plain(g) \subseteq Closure(u.file)
  BY <1>4, ClosureFacts
<1>6. u.ns # ""
  BY <1>2, ClauseFacts
<1>7. Apart(scope)
  BY <1>4, SimpleApart
<1> HIDE DEF m, u, base, C
<1>8. TopLevel(s, b, base, scope)
  BY <1>1, <1>2, <1>4, <1>5, <1>6, <1>7 DEF TopLevel
<1> QED BY <1>2, <1>3, <1>6, <1>8 DEF m, u, base

\* The root's.
LEMMA RootTop ==
  ASSUME files \in Programs, Simple, NEW s, Len(s) \in Nat \ {0},
         Level(s, 1, Len(s), {}, Closure(Root))
  PROVE  TopLevel(s, 1, {}, Closure(Root))
<1>1. Closure(Root) \subseteq Files /\ \A g \in Closure(Root) : Plain(g) \subseteq Closure(Root)
  BY ProgramsAssumption, ClosureFacts
<1>2. 1 \in 1 .. Len(s)
  OBVIOUS
<1> QED BY <1>1, <1>2, SimpleApart DEF TopLevel

\* A step of the innermost level keeps what is known of all levels.
LEMMA LevelsStay ==
  ASSUME files \in Programs, Simple, NEW s, NEW t, Levels(s), Len(s) \in Nat \ {0}, Len(t) \in Nat,
         \A lo \in Nat : \A base, scope :
           TopLevel(s, lo, base, scope) => StaysOn(s, t, lo, base, scope)
  PROVE  Levels(t)
<1> DEFINE n == Len(s)
           C == Closure(Root)
<1>1. n \in Nat \ {0} /\ Len(t) \in Nat /\ s[1].file = Root
  BY DEF Levels
<1>2. CASE Level(s, 1, n, {}, C)
  <2>1. TopLevel(s, 1, {}, C)
    BY <1>2, RootTop
  <2>2. StaysOn(s, t, 1, {}, C)
    BY <2>1
  <2> QED BY <1>1, <2>2 DEF StaysOn, Levels
<1>3. CASE \E b \in 2 .. n : LevelOfSpace(s, b)
  <2>1. PICK b \in 2 .. n : LevelOfSpace(s, b)
    BY <1>3
  <2> DEFINE m == b - 1
             u == files[s[m].file][s[m].at]
             base == s[m].visited
             scope == Closure(u.file) \ {Root}
  <2>2. b \in Nat /\ m \in Nat \ {0} /\ 1 <= m /\ 1 \in 1 .. m /\ m \in 1 .. m
    BY <1>1, <2>1
  <2>3. TopLevel(s, b, base, scope)
    BY <1>1, <2>1, SpaceTop
  <2>4. /\ Level(s, 1, m, {}, C) /\ s[m].at \in DOMAIN files[s[m].file] /\ IsSpacedUse(u)
        /\ u.file = s[b].file /\ s[b].ns = u.ns
    BY <2>1 DEF LevelOfSpace
  <2>5. m = b - 1
    OBVIOUS
  <2> HIDE DEF m, u, base, C, scope
  <2>6. StaysOn(s, t, b, base, scope)
    BY <2>2, <2>3
  <2>7. /\ b \in 1 .. Len(t) /\ \A i \in 1 .. m : t[i] = s[i]
        /\ t[b].file = s[b].file /\ t[b].ns = s[b].ns
        /\ Level(t, b, Len(t), base, scope)
    BY <2>5, <2>6 DEF StaysOn
  <2>8. t[m] = s[m] /\ t[1] = s[1]
    BY <2>2, <2>7
  <2>9. Level(t, 1, m, {}, C)
    BY <2>2, <2>4, <2>7, LevelSame
  <2>10. LevelOfSpace(t, b)
    BY <2>4, <2>7, <2>8, <2>9 DEF LevelOfSpace, m, u, base, scope, C
  <2>11. b \in 2 .. Len(t)
    BY <1>1, <2>1, <2>7
  <2> QED BY <1>1, <2>8, <2>10, <2>11 DEF Levels
<1> QED BY <1>2, <1>3 DEF Levels

\* What is known of the stack and of its calls.
LEMMA StackFacts ==
  ASSUME TextInv
  PROVE  /\ Len(calls) \in Nat \ {0} /\ IsStack(calls) /\ IsSeq(calls) /\ files \in Programs
         /\ \A i \in 1 .. Len(calls) :
              /\ DOMAIN calls[i] = CallFields /\ CallTracked(calls[i])
              /\ calls[i].file \in Files /\ calls[i].at \in Nat \ {0}
              /\ Tracked(calls[i].text, calls[i].lines)
              /\ IsSeq(calls[i].text) /\ IsSeq(calls[i].lines) /\ IsSeq(calls[i].namespaces)
         /\ \A lo \in Nat \ {0} : \A m \in 1 .. Len(calls) :
              PairedCalls(calls, lo, m) /\ (lo <= m => Alone(calls, lo, m))
         /\ Top = calls[Len(calls)] /\ Len(calls) \in 1 .. Len(calls)
<1> DEFINE n == Len(calls)
<1>1. n \in Nat \ {0} /\ IsStack(calls) /\ Distinct(calls)
  BY StackLen DEF TextInv, StackInv, StackOK
<1>2. IsSeq(calls) /\ \A i \in 1 .. n : DOMAIN calls[i] = CallFields
  BY <1>1 DEF IsStack, IsSeq
<1>3. \A i \in 1 .. n : CallTracked(calls[i])
  BY DEF TextInv, AllTracked
<1>4. files \in Programs /\ Top = calls[n]
  BY DEF TextInv, Top
<1> HIDE DEF n
<1>5. n \in 1 .. n
  BY <1>1
<1>6. ASSUME NEW i \in 1 .. n
      PROVE  /\ calls[i].file \in Files /\ calls[i].at \in Nat \ {0}
             /\ Tracked(calls[i].text, calls[i].lines)
             /\ IsSeq(calls[i].text) /\ IsSeq(calls[i].lines) /\ IsSeq(calls[i].namespaces)
             /\ Paired(calls[i].text, calls[i].lines)
  BY <1>3 DEF CallTracked, Tracked, Paired
<1>7. ASSUME NEW lo \in Nat \ {0}, NEW m \in 1 .. n
      PROVE  PairedCalls(calls, lo, m) /\ (lo <= m => Alone(calls, lo, m))
  <2>1. \A i \in lo .. m : i \in 1 .. n
    BY <1>1
  <2> QED BY <1>1, <1>6, <2>1 DEF PairedCalls, Alone, Distinct, n
<1> QED BY <1>1, <1>2, <1>3, <1>4, <1>5, <1>6, <1>7 DEF n

\* The innermost call is replaced.
LEMMA ReplacedTop ==
  ASSUME NEW s, IsSeq(s), Len(s) \in Nat \ {0}, NEW c
  PROVE  LET t == [s EXCEPT ![Len(s)] = c]
         IN  /\ Len(t) = Len(s) /\ t[Len(s)] = c
             /\ \A i \in 1 .. Len(s) - 1 : t[i] = s[i]
<1>1. PICK S : s \in Seq(S)
  BY DEF IsSeq
<1>2. s \in Seq(S \cup {c}) /\ Len(s) \in 1 .. Len(s)
  BY <1>1, SeqMonotonic
<1> DEFINE t == [s EXCEPT ![Len(s)] = c]
           n == Len(s)
<1>3. Len(t) = n /\ \A j \in 1 .. n : t[j] = IF j = n THEN c ELSE s[j]
  BY <1>2, ExceptSeq
<1>4. n \in 1 .. n /\ \A i \in 1 .. n - 1 : i \in 1 .. n /\ i # n
  OBVIOUS
<1> HIDE DEF t, n
<1> QED BY <1>3, <1>4 DEF t, n

-----------------------------------------------------------------------------
\* A caller after an import.
ResumedFrom(d, c, ns, text, lines, visited, namespaces) ==
  /\ d.file = c.file /\ d.ns = c.ns /\ d.at = c.at + 1
  /\ d.text = Append(c.text \o text, Blank) /\ d.lines = Append(c.lines \o lines, << >>)
  /\ d.visited = IF ns = "" THEN visited ELSE c.visited
  /\ d.namespaces = IF ns = "" THEN namespaces ELSE (c.namespaces \o <<ns>>) \o namespaces

\* What Resume gives is such a caller.
LEMMA ResumeFields ==
  ASSUME NEW c, DOMAIN c = CallFields, NEW ns, NEW text, NEW lines, NEW visited, NEW namespaces
  PROVE  ResumedFrom(Resume(c, ns, text, lines, visited, namespaces),
                     c, ns, text, lines, visited, namespaces)
<1> DEFINE a == AppendSource(c, text, lines)
           b == PushLine(a, Blank, << >>)
           d == Resume(c, ns, text, lines, visited, namespaces)
<1>1. /\ DOMAIN a = CallFields /\ a.file = c.file /\ a.ns = c.ns /\ a.at = c.at
      /\ a.namespaces = c.namespaces /\ a.visited = c.visited
      /\ a.text = c.text \o text /\ a.lines = c.lines \o lines
  BY DEF AppendSource, CallFields
<1> HIDE DEF a
<1>2. /\ DOMAIN b = CallFields /\ b.file = a.file /\ b.ns = a.ns /\ b.at = a.at
      /\ b.namespaces = a.namespaces /\ b.visited = a.visited
      /\ b.text = Append(a.text, Blank) /\ b.lines = Append(a.lines, << >>)
  BY <1>1 DEF PushLine, CallFields
<1>3. CASE ns = ""
  <2>1. d = [b EXCEPT !.at = @ + 1, !.visited = visited, !.namespaces = namespaces]
    BY <1>3 DEF Resume, a
  <2> HIDE DEF b, d
  <2>2. /\ d.file = b.file /\ d.ns = b.ns /\ d.at = b.at + 1 /\ d.text = b.text
        /\ d.lines = b.lines /\ d.visited = visited /\ d.namespaces = namespaces
    BY <1>2, <2>1 DEF CallFields
  <2> QED BY <1>1, <1>2, <1>3, <2>2 DEF d, ResumedFrom
<1>4. CASE ns # ""
  <2>1. d = [b EXCEPT !.at = @ + 1, !.namespaces = (@ \o <<ns>>) \o namespaces]
    BY <1>4 DEF Resume, a
  <2> HIDE DEF b, d
  <2>2. /\ d.file = b.file /\ d.ns = b.ns /\ d.at = b.at + 1 /\ d.text = b.text
        /\ d.lines = b.lines /\ d.visited = b.visited
        /\ d.namespaces = (b.namespaces \o <<ns>>) \o namespaces
    BY <1>2, <2>1 DEF CallFields
  <2> QED BY <1>1, <1>2, <1>4, <2>2 DEF d, ResumedFrom
<1> QED BY <1>3, <1>4

\* The line that is being read.
LEMMA TopReads ==
  ASSUME TextInv, Reading
  PROVE  LET n == Len(calls) IN
         /\ calls[n].at \in DOMAIN files[calls[n].file]
         /\ Current = files[calls[n].file][calls[n].at]
BY CurrentLine, StackFacts DEF Current, Top

\* A line is copied.
LEMMA LevelsCopy == ASSUME TextInv, Simple, Levels(calls), CopyLine PROVE Levels(calls')
<1> DEFINE n == Len(calls)
           l == files[calls[n].file][calls[n].at]
           line == [decl |-> Current.decl, refs |-> Current.refs]
           o == <<Top.file, Top.at>>
           d == PushLine(Top, line, o)
           c == [d EXCEPT !.at = @ + 1]
           t == [calls EXCEPT ![n] = c]
<1>1. /\ n \in Nat \ {0} /\ IsSeq(calls) /\ files \in Programs /\ Top = calls[n]
      /\ DOMAIN Top = CallFields /\ Top.file \in Files
      /\ IsSeq(Top.text) /\ IsSeq(Top.lines)
      /\ \A lo \in Nat \ {0} : PairedCalls(calls, lo, n) /\ (lo <= n => Alone(calls, lo, n))
  BY StackFacts
<1>2. calls' = t /\ Reading /\ Current.k = "decl"
  BY DEF CopyLine, Replaced
<1>3. calls[n].at \in DOMAIN files[calls[n].file] /\ Current = l
  BY <1>2, TopReads
<1>4. /\ DOMAIN d = CallFields /\ d.file = Top.file /\ d.at = Top.at /\ d.visited = Top.visited
      /\ d.namespaces = Top.namespaces /\ d.ns = Top.ns
      /\ d.text = Append(Top.text, line) /\ d.lines = Append(Top.lines, o)
  BY <1>1 DEF PushLine, CallFields
<1> HIDE DEF d
<1>5. /\ c.file = d.file /\ c.at = d.at + 1 /\ c.visited = d.visited /\ c.ns = d.ns
      /\ c.namespaces = d.namespaces /\ c.text = d.text /\ c.lines = d.lines
  BY <1>4 DEF CallFields
<1> HIDE DEF c
<1>6. Append(Top.text, line) = Top.text \o <<line>> /\ Append(Top.lines, o) = Top.lines \o <<o>>
  BY <1>1, AppendJoined
<1>7. Len(t) = n /\ t[n] = c /\ \A i \in 1 .. n - 1 : t[i] = calls[i]
  BY <1>1, ReplacedTop
<1>8. line = [decl |-> l.decl, refs |-> l.refs] /\ o = <<calls[n].file, calls[n].at>>
      /\ l.k # "use"
  BY <1>1, <1>2, <1>3
<1> HIDE DEF n, l, line, o, t
<1>9. \A lo \in Nat : Advanced(calls, t, lo, n, <<line>>, <<o>>) \/ lo = 0
  <2>1. \A lo \in Nat : \A i \in lo .. n - 1 : lo # 0 => i \in 1 .. n - 1
    BY <1>1
  <2>2. Namespaces(t[n]) = Namespaces(calls[n])
    BY <1>1, <1>4, <1>5, <1>7 DEF Namespaces
  <2>3. /\ t[n].file = calls[n].file /\ t[n].ns = calls[n].ns /\ t[n].at = calls[n].at + 1
        /\ t[n].visited = calls[n].visited
        /\ t[n].text = calls[n].text \o <<line>> /\ t[n].lines = calls[n].lines \o <<o>>
    BY <1>1, <1>4, <1>5, <1>6, <1>7
  <2> QED BY <1>7, <2>1, <2>2, <2>3 DEF Advanced
<1>10. Paired(<<line>>, <<o>>)
  BY OneEntry
<1>11. ASSUME NEW lo \in Nat, NEW base, NEW scope, TopLevel(calls, lo, base, scope)
       PROVE  StaysOn(calls, t, lo, base, scope)
  <2>1. /\ lo \in 1 .. n /\ scope \subseteq Files /\ Apart(scope)
        /\ Level(calls, lo, n, base, scope)
    BY <1>11 DEF TopLevel, n
  <2>2. lo \in Nat \ {0} /\ lo <= n /\ 1 <= lo
    BY <1>1, <2>1
  <2>3. Adds(calls, t, lo, n, base, scope, <<line>>, <<o>>)
    BY <1>1, <1>3, <1>8, <2>1, <2>2, CopyAdds DEF l
  <2>4. Level(t, lo, n, base, scope)
    <3>1. Advanced(calls, t, lo, n, <<line>>, <<o>>)
      BY <1>9, <2>2
    <3>2. PairedCalls(calls, lo, n) /\ Alone(calls, lo, n)
      BY <1>1, <2>2
    <3>3. calls[n].file \in Files
      BY <1>1
    <3> QED BY <1>1, <1>10, <2>1, <2>2, <2>3, <3>1, <3>2, <3>3, LevelAdvance
  <2>5. t[lo].file = calls[lo].file /\ t[lo].ns = calls[lo].ns
    <3>1. CASE lo = n
      BY <1>1, <1>4, <1>5, <1>7, <3>1
    <3>2. CASE lo # n
      <4>1. lo \in 1 .. n - 1
        BY <1>1, <2>1, <3>2
      <4> QED BY <1>7, <4>1
    <3> QED BY <3>1, <3>2
  <2>6. \A i \in 1 .. lo - 1 : t[i] = calls[i]
    <3>1. \A i \in 1 .. lo - 1 : i \in 1 .. n - 1
      BY <1>1, <2>1
    <3> QED BY <1>7, <3>1
  <2> QED BY <1>7, <2>1, <2>4, <2>5, <2>6 DEF StaysOn
<1>12. Len(calls) \in Nat \ {0} /\ Len(t) \in Nat
  BY <1>1, <1>7 DEF n
<1>13. Levels(t)
  BY <1>1, <1>11, <1>12, LevelsStay
<1> QED BY <1>2, <1>13

-----------------------------------------------------------------------------
\* A plain import is behind: an empty line stands for it.
LEMMA LevelBlank ==
  ASSUME files \in Programs, NEW s, NEW t, NEW lo \in Nat, NEW m \in Nat, lo <= m,
         NEW base, NEW scope, scope \subseteq Files, Level(s, lo, m, base, scope),
         PairedCalls(s, lo, m), Alone(s, lo, m), s[m].file \in Files,
         NEW f \in s[m].visited, AtPlainUse(s[m], f),
         Advanced(s, t, lo, m, <<Blank>>, <<<< >>>>)
  PROVE  Level(t, lo, m, base, scope)
<1> DEFINE more == <<Blank>>
           from == <<<< >>>>
<1>1. Adds(s, t, lo, m, base, scope, more, from)
  BY BlankAdds
<1>2. Paired(more, from) /\ Advanced(s, t, lo, m, more, from)
  BY OneEntry
<1> HIDE DEF more, from
<1> QED BY <1>1, <1>2, LevelAdvance

\* A use of a file that was visited is a plain one.
LEMMA VisitedPlain ==
  ASSUME files \in Programs, Simple, NEW s, NEW n \in Nat \ {0}, n = Len(s),
         NEW lo \in Nat, NEW base, NEW scope, TopLevel(s, lo, base, scope),
         s[n].at \in DOMAIN files[s[n].file], files[s[n].file][s[n].at].k = "use",
         files[s[n].file][s[n].at].file \in s[n].visited
  PROVE  ParseAsClause(files[s[n].file][s[n].at]) = ""
<1> DEFINE f == s[n].file
           j == s[n].at
           u == files[f][j]
<1>1. /\ lo \in 1 .. n /\ scope \subseteq Files /\ Level(s, lo, n, base, scope)
      /\ lo = 1 \/ \A g \in scope : Spaced(g) = {}
      /\ lo = 1 => base = {} /\ scope = Closure(Root)
  BY DEF TopLevel
<1>2. f \in scope
  <2>1. n \in lo .. n
    BY <1>1
  <2> QED BY <1>1, <2>1 DEF Level
<1>3. /\ j \in DOMAIN files[f] /\ u.k = "use" /\ u.file \in s[n].visited
      /\ s[n].file = f /\ s[n].at = j
      /\ u = files[f][j]
  OBVIOUS
<1> HIDE DEF f, j, u
<1> SUFFICES ASSUME ParseAsClause(u) # ""
             PROVE  FALSE
  BY DEF u, f, j
<1>4. IsSpacedUse(u)
  BY <1>3 DEF IsSpacedUse
<1>5. u \in Spaced(f)
  BY <1>1, <1>2, <1>3, <1>4, LineFacts
<1>6. AtSpace(s, n, u)
  BY <1>1, <1>2, <1>3, <1>4, <1>5 DEF AtSpace
<1>7. s[n].visited \subseteq Closure(Root) /\ u.file \notin Closure(Root)
  BY <1>6, SpaceUse
<1> QED BY <1>3, <1>7

\* An import of a file that was visited.
LEMMA LevelsSkip == ASSUME TextInv, Simple, Levels(calls), SkipVisited PROVE Levels(calls')
<1> DEFINE n == Len(calls)
           l == files[calls[n].file][calls[n].at]
           ns == ParseAsClause(Current)
           nothing == << >>
           namespaces == IF ns = "" THEN Top.namespaces ELSE << >>
           c == Resume(Top, ns, nothing, nothing, Top.visited, namespaces)
           t == [calls EXCEPT ![n] = c]
<1>1. /\ n \in Nat \ {0} /\ IsSeq(calls) /\ files \in Programs /\ Top = calls[n]
      /\ DOMAIN Top = CallFields /\ Top.file \in Files
      /\ IsSeq(Top.text) /\ IsSeq(Top.lines)
      /\ \A lo \in Nat \ {0} : PairedCalls(calls, lo, n) /\ (lo <= n => Alone(calls, lo, n))
  BY StackFacts
<1>2. calls' = t /\ Reading /\ Current.k = "use" /\ Current.file \in Top.visited
  BY DEF SkipVisited, OnUse, Replaced
<1>3. calls[n].at \in DOMAIN files[calls[n].file] /\ Current = l
  BY <1>2, TopReads
<1>4. Len(t) = n /\ t[n] = c /\ \A i \in 1 .. n - 1 : t[i] = calls[i]
  <2> HIDE DEF c
  <2> QED BY <1>1, ReplacedTop
<1>5. /\ c.file = Top.file /\ c.ns = Top.ns /\ c.at = Top.at + 1
      /\ c.text = Append(Top.text \o nothing, Blank) /\ c.lines = Append(Top.lines \o nothing, << >>)
      /\ ns = "" => c.visited = Top.visited /\ c.namespaces = Top.namespaces
  <2> HIDE DEF ns, nothing, namespaces
  <2>1. ns = "" => namespaces = Top.namespaces
    BY DEF namespaces
  <2>2. ResumedFrom(c, Top, ns, nothing, nothing, Top.visited, namespaces)
    BY <1>1, ResumeFields
  <2> HIDE DEF c
  <2> QED BY <2>1, <2>2 DEF ResumedFrom
<1>6. c.text = Top.text \o <<Blank>> /\ c.lines = Top.lines \o <<<< >>>>
  <2>1. Top.text \o nothing = Top.text /\ Top.lines \o nothing = Top.lines
    BY <1>1, ConcatEmptySeq DEF IsSeq
  <2> HIDE DEF nothing, c
  <2> QED BY <1>1, <1>5, <2>1, AppendJoined
<1>7. ns = ParseAsClause(l) /\ l.k = "use" /\ l.file \in calls[n].visited
  BY <1>1, <1>2, <1>3
<1>8. l = files[calls[n].file][calls[n].at] /\ Len(calls) = n
  OBVIOUS
<1> HIDE DEF n, l, ns, c, t, nothing, namespaces
<1>9. ASSUME NEW lo \in Nat, NEW base, NEW scope, TopLevel(calls, lo, base, scope)
      PROVE  StaysOn(calls, t, lo, base, scope)
  <2>1. /\ lo \in 1 .. n /\ scope \subseteq Files
        /\ Level(calls, lo, n, base, scope)
    BY <1>8, <1>9 DEF TopLevel
  <2>2. lo \in Nat \ {0} /\ lo <= n /\ 1 <= lo
    BY <1>1, <2>1
  <2>3. ns = ""
    BY <1>1, <1>3, <1>7, <1>8, <1>9, VisitedPlain
  <2>4. AtPlainUse(calls[n], l.file)
    BY <1>3, <1>7, <1>8, <2>3 DEF AtPlainUse, IsPlainUse
  <2>5. Advanced(calls, t, lo, n, <<Blank>>, <<<< >>>>)
    <3>1. \A i \in lo .. n - 1 : i \in 1 .. n - 1
      BY <1>1, <2>2
    <3>2. Namespaces(t[n]) = Namespaces(calls[n])
      BY <1>1, <1>4, <1>5, <2>3 DEF Namespaces
    <3>3. /\ t[n].file = calls[n].file /\ t[n].ns = calls[n].ns /\ t[n].at = calls[n].at + 1
          /\ t[n].visited = calls[n].visited
          /\ t[n].text = calls[n].text \o <<Blank>> /\ t[n].lines = calls[n].lines \o <<<< >>>>
      BY <1>1, <1>4, <1>5, <1>6, <2>3
    <3> QED BY <1>4, <3>1, <3>2, <3>3 DEF Advanced
  <2>6. Level(t, lo, n, base, scope)
    <3>1. PairedCalls(calls, lo, n) /\ Alone(calls, lo, n)
      BY <1>1, <2>2
    <3>2. calls[n].file \in Files /\ n \in Nat /\ l.file \in calls[n].visited
      BY <1>1, <1>7
    <3> QED BY <1>1, <2>1, <2>2, <2>4, <2>5, <3>1, <3>2, LevelBlank
  <2>7. t[lo].file = calls[lo].file /\ t[lo].ns = calls[lo].ns
    <3>1. CASE lo = n
      BY <1>1, <1>4, <1>5, <3>1
    <3>2. CASE lo # n
      <4>1. lo \in 1 .. n - 1
        BY <1>1, <2>1, <3>2
      <4> QED BY <1>4, <4>1
    <3> QED BY <3>1, <3>2
  <2>8. \A i \in 1 .. lo - 1 : t[i] = calls[i]
    <3>1. \A i \in 1 .. lo - 1 : i \in 1 .. n - 1
      BY <1>1, <2>1
    <3> QED BY <1>4, <3>1
  <2> QED BY <1>4, <2>1, <2>6, <2>7, <2>8 DEF StaysOn
<1>10. Len(calls) \in Nat \ {0} /\ Len(t) \in Nat
  BY <1>1, <1>4, <1>8
<1>11. Levels(t)
  BY <1>1, <1>9, <1>10, LevelsStay
<1> QED BY <1>2, <1>11

-----------------------------------------------------------------------------
\* An import of a file that was not visited.
LEMMA LevelsImport == ASSUME TextInv, Simple, Levels(calls), Import PROVE Levels(calls')
<1> DEFINE n == Len(calls)
           l == files[calls[n].file][calls[n].at]
           c == Enter(Top, Current)
           t == Append(calls, c)
           C == Closure(Root)
<1>1. /\ n \in Nat \ {0} /\ IsSeq(calls) /\ files \in Programs /\ Top = calls[n]
      /\ Len(calls) = n
  BY StackFacts
<1>2. calls' = t /\ Reading /\ Current.k = "use" /\ Current.file \notin Top.visited
  BY DEF Import, OnUse
<1>3. calls[n].at \in DOMAIN files[calls[n].file] /\ Current = l
  BY <1>2, TopReads
<1>4. Len(t) = n + 1 /\ t[n + 1] = c /\ \A i \in 1 .. n : t[i] = calls[i]
  <2> HIDE DEF c
  <2> QED BY <1>1, OneMore
<1>5. /\ c.file = Current.file /\ c.ns = ParseAsClause(Current) /\ c.at = 1
      /\ c.visited = Top.visited \cup {Current.file} /\ c.text = << >> /\ c.lines = << >>
      /\ c.namespaces = IF ParseAsClause(Current) = "" THEN Top.namespaces ELSE << >>
  BY DEF Enter, Call
<1>6. l.k = "use" /\ l.file \notin calls[n].visited
  BY <1>1, <1>2, <1>3
<1>7. Root \in calls[n].visited /\ calls[1].file = Root
  <2>1. calls[1].file = Root
    BY DEF Levels
  <2>2. n \in 1 .. n /\ 1 \in 1 .. n
    BY <1>1
  <2>3. Remembered(calls) /\ Len(calls) = n
    BY DEF TextInv, StackInv, StackOK
  <2> HIDE DEF n
  <2> QED BY <2>1, <2>2, <2>3 DEF Remembered
<1>8. l = files[calls[n].file][calls[n].at]
  OBVIOUS
<1> HIDE DEF n, l, c, t, C
<1>9. CASE ParseAsClause(l) = ""
  <2>1. ASSUME NEW lo \in Nat, NEW base, NEW scope, TopLevel(calls, lo, base, scope)
        PROVE  StaysOn(calls, t, lo, base, scope)
    <3>1. /\ lo \in 1 .. n /\ scope \subseteq Files
          /\ Level(calls, lo, n, base, scope)
          /\ \A g \in scope : Plain(g) \subseteq scope \cup {Root}
      BY <1>1, <2>1 DEF TopLevel
    <3>2. lo <= n /\ lo \in 1 .. n + 1 /\ n \in lo .. n
      BY <1>1, <3>1
    <3>3. IsPlainUse(l)
      BY <1>6, <1>9 DEF IsPlainUse
    <3>4. calls[n].file \in scope
      BY <3>1, <3>2 DEF Level
    <3>5. l.file \in scope
      <4>1. l.file \in Plain(calls[n].file)
        BY <1>1, <1>3, <1>8, <3>1, <3>3, <3>4, LineFacts
      <4> QED BY <1>6, <1>7, <3>1, <3>4, <4>1
    <3>6. Opened(calls, t, lo, n)
      <4>1. \A i \in lo .. n : i \in 1 .. n
        BY <1>1, <3>1
      <4> QED BY <1>1, <1>3, <1>4, <1>5, <1>6, <1>9, <4>1 DEF Opened
    <3>7. AtPlainUse(calls[n], t[n + 1].file)
      BY <1>3, <1>4, <1>5, <1>8, <3>3 DEF AtPlainUse
    <3>8. t[n + 1].file \in scope /\ t[n + 1].file \in Files
      BY <1>3, <1>4, <1>5, <3>1, <3>5
    <3>9. Level(t, lo, n + 1, base, scope)
      BY <1>1, <3>1, <3>2, <3>6, <3>7, <3>8, LevelPush
    <3>10. t[lo] = calls[lo] /\ \A i \in 1 .. lo - 1 : t[i] = calls[i]
      <4>1. \A i \in 1 .. lo - 1 : i \in 1 .. n
        BY <1>1, <3>1
      <4> QED BY <1>4, <3>1, <4>1
    <3> QED BY <1>4, <3>2, <3>9, <3>10 DEF StaysOn
  <2>2. Len(calls) \in Nat \ {0} /\ Len(t) \in Nat
    BY <1>1, <1>4
  <2>3. Levels(t)
    BY <1>1, <2>1, <2>2, LevelsStay
  <2> QED BY <1>2, <2>3
<1>10. CASE ParseAsClause(l) # ""
  <2>1. IsSpacedUse(l)
    BY <1>6, <1>10 DEF IsSpacedUse
  <2>2. CASE Level(calls, 1, n, {}, C)
    <3>1. AtSpace(calls, n, l)
      BY <1>3, <1>8, <2>1, <2>2 DEF AtSpace, C
    <3>2. /\ l.file \in Files /\ l.file \notin C /\ l.file \in Closure(l.file)
      BY <1>1, <3>1, SpaceUse DEF C
    <3>3. Root \in C
      BY <1>1, ProgramsAssumption, ClosureFacts DEF C
    <3> DEFINE scope == Closure(l.file) \ {Root}
               m == n + 1
               base == calls[n].visited
    <3>4. /\ t[m].file = l.file /\ t[m].visited = base \cup {l.file} /\ t[m].at = 1
          /\ t[m].text = << >> /\ t[m].lines = << >> /\ t[m].ns = ParseAsClause(l)
      BY <1>1, <1>3, <1>4, <1>5
    <3>5. l.file \in scope \ base
      BY <1>6, <3>2, <3>3
    <3>6. m \in Nat /\ m \in 2 .. Len(t) /\ m - 1 = n /\ n \in 1 .. n /\ 1 <= n /\ 1 \in 1 .. n
          /\ Len(t) = m
      BY <1>1, <1>4
    <3> HIDE DEF scope, m, base
    <3>7. Level(t, m, m, base, scope)
      BY <1>1, <3>2, <3>4, <3>5, <3>6, LevelStart
    <3>8. Level(t, 1, n, {}, C)
      BY <1>1, <1>4, <2>2, <3>6, LevelSame
    <3>9. t[n] = calls[n] /\ t[1] = calls[1]
      BY <1>4, <3>6
    <3>10. t[m].ns = l.ns
      BY <2>1, <3>4, ClauseFacts
    <3>11. LevelOfSpace(t, m)
      BY <1>3, <1>8, <2>1, <3>4, <3>6, <3>7, <3>8, <3>9, <3>10 DEF LevelOfSpace, C, scope, base
    <3> QED BY <1>2, <1>7, <3>6, <3>9, <3>11 DEF Levels
  <2>3. CASE \E b \in 2 .. n : LevelOfSpace(calls, b)
    <3>1. PICK b \in 2 .. n : LevelOfSpace(calls, b)
      BY <2>3
    <3> DEFINE base == calls[b - 1].visited
               scope == Closure(files[calls[b - 1].file][calls[b - 1].at].file) \ {Root}
    <3>2. TopLevel(calls, b, base, scope)
      BY <1>1, <3>1, SpaceTop
    <3> HIDE DEF base, scope
    <3>3. b # 1 /\ n \in b .. n
      BY <1>1, <3>1
    <3>4. /\ scope \subseteq Files /\ Level(calls, b, n, base, scope)
          /\ \A g \in scope : Spaced(g) = {}
      BY <1>1, <3>2, <3>3 DEF TopLevel
    <3>5. calls[n].file \in scope
      BY <3>3, <3>4 DEF Level
    <3>6. l \in Spaced(calls[n].file)
      BY <1>1, <1>3, <1>8, <2>1, <3>4, <3>5, LineFacts
    <3> QED BY <3>4, <3>5, <3>6
  <2> QED BY <1>1, <2>2, <2>3 DEF Levels, C
<1> QED BY <1>9, <1>10

-----------------------------------------------------------------------------
\* The places of a stack of n calls, m of them once the last has returned.
LEMMA Places ==
  ASSUME NEW m \in Nat \ {0}, NEW n, m + 1 = n
  PROVE  /\ n \in Nat \ {0} /\ m \in 1 .. m /\ m \in 1 .. n /\ n \in 1 .. n
         /\ \A i \in 1 .. m - 1 : i \in 1 .. m /\ i # m /\ i \in 1 .. n
         /\ \A i \in 1 .. m : i \in 1 .. n
  OBVIOUS
\* The place below the last.
LEMMA PlaceBelow ==
  ASSUME NEW n \in Nat, n > 1
  PROVE  n - 1 \in Nat \ {0} /\ (n - 1) + 1 = n
  OBVIOUS

-----------------------------------------------------------------------------
\* A call returns: what is left of the stack.
LEMMA ReturnFacts ==
  ASSUME TextInv, Return
  PROVE  LET n == Len(calls)
             m == n - 1
             text == IF calls[n].ns = "" THEN calls[n].text
                     ELSE MangleTopLevelNames(calls[n].text, calls[n].ns)
         IN  /\ n \in Nat /\ m \in Nat \ {0} /\ m + 1 = n /\ Len(calls') = m
             /\ ResumedFrom(calls'[m], calls[m], calls[n].ns, text, calls[n].lines,
                            calls[n].visited, calls[n].namespaces)
             /\ \A i \in 1 .. m - 1 : calls'[i] = calls[i]
             /\ calls[n].at > Len(files[calls[n].file])
<1> DEFINE n == Len(calls)
           m == n - 1
           rest == SubSeq(calls, 1, m)
           text == IF Top.ns = "" THEN Top.text ELSE MangleTopLevelNames(Top.text, Top.ns)
           c == Resume(calls[m], Top.ns, text, Top.lines, Top.visited, Top.namespaces)
<1>1. /\ n \in Nat \ {0} /\ Top = calls[n] /\ StackOK(calls)
      /\ \A i \in 1 .. n : DOMAIN calls[i] = CallFields
      /\ Top.file \in Files /\ Top.at \in Nat /\ files \in Programs
  BY StackFacts DEF TextInv, StackInv
<1>2. n > 1 /\ calls' = [rest EXCEPT ![m] = c] /\ ~Reading /\ status = "resolving"
  BY DEF Return
<1>3. m \in Nat \ {0} /\ m + 1 = n /\ m \in 1 .. n
  <2>1. n \in Nat /\ n > 1
    BY <1>1, <1>2
  <2> HIDE DEF n
  <2>2. m \in Nat \ {0} /\ m + 1 = n
    BY <2>1, PlaceBelow
  <2> HIDE DEF m
  <2> QED BY <2>2, Places
<1>4. StackOK(rest) /\ Len(rest) = m /\ \A j \in 1 .. m : rest[j] = calls[j]
  <2>1. LET t == SubSeq(calls, 1, Len(calls) - 1)
        IN  StackOK(t) /\ Len(t) = Len(calls) - 1 /\ \A j \in 1 .. Len(t) : t[j] = calls[j]
    BY <1>1, <1>2, PopCall
  <2> QED BY <2>1
<1>5. ResumedFrom(c, calls[m], Top.ns, text, Top.lines, Top.visited, Top.namespaces)
  <2>1. DOMAIN calls[m] = CallFields
    BY <1>1, <1>3
  <2> HIDE DEF text, m
  <2> QED BY <2>1, ResumeFields
<1>6. calls[n].at > Len(files[calls[n].file])
  <2> DEFINE k == Len(files[calls[n].file])
             a == calls[n].at
  <2>1. k \in Nat /\ a \in Nat
    <3>1. IsSeq(files[calls[n].file])
      BY <1>1, ProgramsAssumption DEF Counted, IsSeq
    <3> QED BY <1>1, <3>1, SeqFacts
  <2>2. ~(a <= k)
    BY <1>1, <1>2 DEF Reading
  <2> HIDE DEF k, a
  <2>3. a > k
    BY <2>1, <2>2
  <2> QED BY <2>3 DEF k, a
<1> HIDE DEF c, rest
<1>7. IsSeq(rest)
  BY <1>4 DEF StackOK, IsStack, IsSeq
<1>8. Len(calls') = m /\ calls'[m] = c /\ \A i \in 1 .. m - 1 : calls'[i] = calls[i]
  <2> DEFINE t == [rest EXCEPT ![Len(rest)] = c]
  <2>1. Len(t) = Len(rest) /\ t[Len(rest)] = c /\ \A i \in 1 .. Len(rest) - 1 : t[i] = rest[i]
    BY <1>3, <1>4, <1>7, ReplacedTop
  <2>2. calls' = t
    BY <1>2, <1>4
  <2> HIDE DEF t, m, n
  <2>3. \A i \in 1 .. m - 1 : i \in 1 .. m
    BY <1>3, Places
  <2> QED BY <1>4, <2>1, <2>2, <2>3
<1>9. text = IF calls[n].ns = "" THEN calls[n].text
             ELSE MangleTopLevelNames(calls[n].text, calls[n].ns)
  BY <1>1
<1> HIDE DEF text
<1>10. ResumedFrom(calls'[m], calls[m], calls[n].ns, text, calls[n].lines,
                   calls[n].visited, calls[n].namespaces)
  BY <1>1, <1>5, <1>8
<1> QED BY <1>1, <1>3, <1>6, <1>8, <1>9, <1>10

\* A plain import returns, or one under a namespace.
PlainReturn == Return /\ Top.ns = ""
SpacedReturn == Return /\ Top.ns # ""

\* After a plain import the caller has what the callee has read.
LEMMA LevelsBack ==
  ASSUME TextInv, Simple, Levels(calls), PlainReturn
  PROVE  Levels(calls')
<1>1. PICK n : n = Len(calls)
  OBVIOUS
<1>2. PICK m : m = n - 1
  OBVIOUS
<1> DEFINE t == calls'
           mid == [i \in 1 .. m |->
                    IF i = m THEN [calls[m] EXCEPT !.visited = calls[n].visited,
                                                   !.namespaces = calls[n].namespaces,
                                                   !.text = @ \o calls[n].text,
                                                   !.lines = @ \o calls[n].lines]
                    ELSE calls[i]]
<1>3. /\ n \in Nat \ {0} /\ files \in Programs /\ Top = calls[n] /\ Len(calls) = n
      /\ \A i \in 1 .. n :
           /\ DOMAIN calls[i] = CallFields
           /\ calls[i].file \in Files /\ calls[i].at \in Nat
           /\ Tracked(calls[i].text, calls[i].lines)
           /\ IsSeq(calls[i].text) /\ IsSeq(calls[i].lines)
      /\ \A lo \in Nat \ {0} : \A k \in 1 .. n :
           PairedCalls(calls, lo, k) /\ (lo <= k => Alone(calls, lo, k))
  BY <1>1, StackFacts
<1>4. /\ m \in Nat \ {0} /\ m + 1 = n /\ Len(t) = m
      /\ ResumedFrom(t[m], calls[m], "", calls[n].text, calls[n].lines,
                     calls[n].visited, calls[n].namespaces)
      /\ \A i \in 1 .. m - 1 : t[i] = calls[i]
      /\ calls[n].at > Len(files[calls[n].file])
  <2>1. calls[n].ns = "" /\ Return
    BY <1>3 DEF PlainReturn
  <2> QED BY <1>1, <1>2, <2>1, ReturnFacts
<1>5. m \in Nat \ {0} /\ m + 1 = n
  BY <1>4
<1>6. /\ m \in 1 .. m /\ m \in 1 .. n /\ n \in 1 .. n
      /\ \A i \in 1 .. m - 1 : i \in 1 .. m /\ i # m /\ i \in 1 .. n
      /\ \A i \in 1 .. m : i \in 1 .. n
  BY <1>5, Places
<1>7. /\ mid[m].file = calls[m].file /\ mid[m].ns = calls[m].ns /\ mid[m].at = calls[m].at
      /\ mid[m].visited = calls[n].visited /\ mid[m].namespaces = calls[n].namespaces
      /\ mid[m].text = calls[m].text \o calls[n].text
      /\ mid[m].lines = calls[m].lines \o calls[n].lines
  BY <1>3, <1>6 DEF CallFields
<1>8. \A i \in 1 .. m - 1 : mid[i] = calls[i]
  BY <1>6
<1> HIDE DEF mid
<1>9. /\ t[m].file = mid[m].file /\ t[m].ns = mid[m].ns /\ t[m].at = mid[m].at + 1
      /\ t[m].visited = mid[m].visited /\ t[m].namespaces = mid[m].namespaces
      /\ t[m].text = mid[m].text \o <<Blank>> /\ t[m].lines = mid[m].lines \o <<<< >>>>
  <2>1. /\ IsSeq(calls[m].text) /\ IsSeq(calls[m].lines)
        /\ IsSeq(calls[n].text) /\ IsSeq(calls[n].lines)
    BY <1>3, <1>6
  <2>2. IsSeq(mid[m].text) /\ IsSeq(mid[m].lines)
    BY <1>7, <2>1, JoinedSeq
  <2>3. /\ Append(mid[m].text, Blank) = mid[m].text \o <<Blank>>
        /\ Append(mid[m].lines, << >>) = mid[m].lines \o <<<< >>>>
    BY <2>2, AppendJoined
  <2> QED BY <1>4, <1>7, <2>3 DEF ResumedFrom
<1>10. Paired(mid[m].text, mid[m].lines)
  <2>1. Tracked(calls[m].text, calls[m].lines) /\ Tracked(calls[n].text, calls[n].lines)
    BY <1>3, <1>6
  <2>2. Tracked(mid[m].text, mid[m].lines)
    BY <1>7, <2>1, TextAdded
  <2> QED BY <2>2 DEF Tracked, Paired
<1> HIDE DEF t
<1>11. ASSUME NEW lo \in Nat, NEW base, NEW scope, TopLevel(calls, lo, base, scope)
      PROVE  StaysOn(calls, t, lo, base, scope)
  <2>1. /\ lo \in 1 .. n /\ scope \subseteq Files
        /\ Level(calls, lo, n, base, scope)
        /\ lo = 1 \/ calls[lo].ns # ""
    BY <1>3, <1>11 DEF TopLevel
  <2>2. lo # n
    <3> SUFFICES ASSUME lo = n
                 PROVE  FALSE
      OBVIOUS
    <3>1. calls[lo].ns = ""
      BY <1>3 DEF PlainReturn
    <3>2. n # 1
      BY <1>5
    <3> QED BY <2>1, <3>1, <3>2
  <2>3. lo \in 1 .. n
    BY <2>1
  <2>4. /\ lo \in Nat \ {0} /\ lo <= m /\ lo \in 1 .. m /\ m \in lo .. n - 1 /\ n \in lo .. n
        /\ lo # m => lo \in 1 .. m - 1
    BY <1>5, <2>3, <2>2
  <2>5. PairedCalls(calls, lo, m) /\ PairedCalls(calls, lo, n) /\ Alone(calls, lo, m)
    BY <1>3, <1>6, <2>4
  <2>6. \A i \in lo .. m : i # m => i \in 1 .. m - 1 /\ i \in lo .. m - 1
    BY <1>5, <2>3, <2>2
  <2>7. \A i \in lo .. m - 1 : i \in 1 .. m - 1
    BY <1>5, <2>3, <2>2
  <2>8. Merged(calls, mid, lo, m)
    BY <1>4, <1>7, <1>8, <2>7 DEF Merged
  <2>9. Level(mid, lo, m, base, scope)
    <3>1. PairedCalls(calls, lo, m + 1) /\ Level(calls, lo, m + 1, base, scope)
      BY <1>4, <2>1, <2>5
    <3>2. /\ calls[m + 1].file \in Files /\ calls[m + 1].at \in Nat
          /\ calls[m + 1].at > Len(files[calls[m + 1].file])
      BY <1>3, <1>4, <1>6
    <3> QED BY <1>3, <1>4, <2>4, <2>8, <3>1, <3>2, LevelMerge
  <2>10. AtPlainUse(mid[m], calls[n].file) /\ calls[n].file \in mid[m].visited
    <3>1. /\ calls[m].at \in DOMAIN files[calls[m].file]
          /\ IsPlainUse(files[calls[m].file][calls[m].at])
          /\ files[calls[m].file][calls[m].at].file = calls[n].file
      BY <1>4, <2>1, <2>4 DEF Level, Chain
    <3>2. calls[n].file \in calls[n].visited
      <4>1. n \in lo .. n
        BY <2>4
      <4> QED BY <2>1, <4>1 DEF Level
    <3> QED BY <1>7, <3>1, <3>2 DEF AtPlainUse
  <2>11. Advanced(mid, t, lo, m, <<Blank>>, <<<< >>>>)
    <3>1. Namespaces(mid[m]) \subseteq Namespaces(t[m])
      BY <1>9 DEF Namespaces
    <3>2. \A i \in lo .. m - 1 : t[i] = mid[i]
      BY <1>4, <1>8, <2>7
    <3> QED BY <1>9, <3>1, <3>2 DEF Advanced
  <2>12. PairedCalls(mid, lo, m) /\ Alone(mid, lo, m)
    <3>1. \A i \in lo .. m : mid[i].file = calls[i].file
      BY <1>7, <1>8, <2>6
    <3>2. \A i \in lo .. m : Paired(mid[i].text, mid[i].lines)
      BY <1>8, <1>10, <2>5, <2>6 DEF PairedCalls
    <3> QED BY <1>7, <2>5, <3>1, <3>2 DEF PairedCalls, Alone
  <2>13. mid[m].file \in Files
    BY <1>3, <1>6, <1>7
  <2>14. Level(t, lo, m, base, scope)
    BY <1>3, <1>4, <2>1, <2>4, <2>9, <2>10, <2>11, <2>12, <2>13, LevelBlank
  <2>15. t[lo].file = calls[lo].file /\ t[lo].ns = calls[lo].ns
    <3>1. CASE lo = m
      BY <1>7, <1>9, <3>1
    <3>2. CASE lo # m
      <4>1. lo \in 1 .. m - 1
        BY <2>4, <3>2
      <4> QED BY <1>4, <4>1
    <3> QED BY <3>1, <3>2
  <2>16. \A i \in 1 .. lo - 1 : t[i] = calls[i]
    <3>1. \A i \in 1 .. lo - 1 : i \in 1 .. m - 1
      BY <1>5, <2>3, <2>2
    <3> QED BY <1>4, <3>1
  <2> QED BY <1>4, <2>4, <2>14, <2>15, <2>16 DEF StaysOn
<1>12. Len(calls) \in Nat \ {0} /\ Len(t) \in Nat
  BY <1>3, <1>4
<1>13. Levels(t)
  BY <1>3, <1>11, <1>12, LevelsStay
<1> QED BY <1>13 DEF t

-----------------------------------------------------------------------------
\* The namespaces of a caller after an import under ns, and what is among them.
JoinedList(r, a, ns, b) == IsSeq(a) /\ IsSeq(b) /\ r = (a \o <<ns>>) \o b
Among(r, a, ns) ==
  /\ \A j \in DOMAIN a : \E k \in DOMAIN r : r[k] = a[j]
  /\ \E k \in DOMAIN r : r[k] = ns

\* Those of the caller and the new one are among them.
LEMMA JoinedNamespaces ==
  ASSUME NEW a, NEW ns, NEW b, NEW r, JoinedList(r, a, ns, b)
  PROVE  Among(r, a, ns)
<1> DEFINE one == <<ns>>
           c == a \o one
<1>1. r = c \o b /\ IsSeq(a) /\ IsSeq(b)
  BY DEF JoinedList
<1>2. IsSeq(one) /\ Len(one) = 1 /\ one[1] = ns
  <2>1. one \in Seq({ns})
    OBVIOUS
  <2> QED BY <2>1 DEF IsSeq
<1> HIDE DEF one
<1>3. /\ IsSeq(c) /\ Len(c) = Len(a) + 1 /\ Len(a) \in Nat /\ DOMAIN a = 1 .. Len(a)
      /\ \A j \in 1 .. Len(a) + 1 : c[j] = IF j <= Len(a) THEN a[j] ELSE one[j - Len(a)]
  BY <1>1, <1>2, JoinedSeq, SeqFacts
<1> HIDE DEF c
<1>4. /\ IsSeq(r) /\ Len(r) = Len(c) + Len(b) /\ Len(b) \in Nat /\ DOMAIN r = 1 .. Len(r)
      /\ \A j \in 1 .. Len(c) + Len(b) : r[j] = IF j <= Len(c) THEN c[j] ELSE b[j - Len(c)]
  <2>1. IsSeq(r) /\ Len(r) = Len(c) + Len(b)
        /\ \A j \in 1 .. Len(c) + Len(b) : r[j] = IF j <= Len(c) THEN c[j] ELSE b[j - Len(c)]
    BY <1>1, <1>3, JoinedSeq
  <2>2. Len(b) \in Nat /\ DOMAIN r = 1 .. Len(r)
    BY <1>1, <2>1, SeqFacts
  <2> QED BY <2>1, <2>2
<1>5. \A j \in 1 .. Len(a) : j \in DOMAIN r /\ r[j] = a[j]
  <2> TAKE j \in 1 .. Len(a)
  <2>1. j \in 1 .. Len(a) + 1 /\ j <= Len(a) /\ j <= Len(c) /\ j \in 1 .. Len(c) + Len(b)
    BY <1>3, <1>4
  <2> QED BY <1>3, <1>4, <2>1
<1>6. Len(c) \in DOMAIN r /\ r[Len(c)] = ns
  <2>1. /\ Len(c) \in 1 .. Len(a) + 1 /\ ~(Len(c) <= Len(a)) /\ Len(c) - Len(a) = 1
        /\ Len(c) <= Len(c) /\ Len(c) \in 1 .. Len(c) + Len(b)
    BY <1>3, <1>4
  <2>2. c[Len(c)] = one[1]
    BY <1>3, <2>1
  <2> QED BY <1>2, <1>4, <2>1, <2>2
<1> QED BY <1>3, <1>5, <1>6 DEF Among

\* A call of a namespaced import.
Renames(c) == c.ns # ""

\* The call that returns from a namespaced import is the first of its level:
\* those deeper in it were made by plain imports.
LEMMA SpaceReturns ==
  ASSUME files \in Programs, Simple, NEW s, NEW n \in Nat \ {0}, Len(s) = n, NEW m \in Nat \ {0},
         m + 1 = n, Levels(s), Renames(s[n]), s[n].at \in Nat, s[n].at > Len(files[s[n].file])
  PROVE  \E u : SpaceDone(s, m, u) /\ s[n].ns = u.ns
<1> DEFINE C == Closure(Root)
<1>1. ~Level(s, 1, n, {}, C)
  <2> SUFFICES ASSUME Level(s, 1, n, {}, C)
               PROVE  FALSE
    OBVIOUS
  <2>1. m \in 1 .. n - 1
    OBVIOUS
  <2>2. s[m + 1].ns = ""
    BY <2>1 DEF Level, Chain
  <2> QED BY <2>2 DEF Renames
<1>2. PICK b \in 2 .. n : LevelOfSpace(s, b)
  BY <1>1 DEF Levels
<1> DEFINE u == files[s[b - 1].file][s[b - 1].at]
<1>3. /\ AtSpace(s, b - 1, u) /\ u.file = s[b].file /\ s[b].ns = u.ns
      /\ TopLevel(s, b, s[b - 1].visited, Closure(u.file) \ {Root})
  BY <1>2, SpaceTop
<1>4. Level(s, b, n, s[b - 1].visited, Closure(u.file) \ {Root})
  BY <1>3 DEF TopLevel
<1>5. b = n
  <2> SUFFICES ASSUME b # n
               PROVE  FALSE
    OBVIOUS
  <2>1. m \in b .. n - 1
    BY <1>2
  <2>2. s[m + 1].ns = ""
    BY <1>4, <2>1 DEF Level, Chain
  <2> QED BY <2>2 DEF Renames
<1>6. m = b - 1
  BY <1>2, <1>5
<1> HIDE DEF u
<1>7. SpaceDone(s, m, u)
  BY <1>3, <1>4, <1>5, <1>6 DEF SpaceDone
<1> QED BY <1>3, <1>5, <1>7

-----------------------------------------------------------------------------
\* After a namespaced import the caller has its lines under their new names.
LEMMA LevelsBackSpace ==
  ASSUME TextInv, Simple, Levels(calls), SpacedReturn
  PROVE  Levels(calls')
<1>1. PICK n : n = Len(calls)
  OBVIOUS
<1>2. PICK m : m = n - 1
  OBVIOUS
<1> DEFINE t == calls'
           ns == calls[n].ns
           T == MangleTopLevelNames(calls[n].text, ns)
           L == calls[n].lines
           more == Append(T, Blank)
           from == Append(L, << >>)
           C == Closure(Root)
<1>3. /\ n \in Nat \ {0} /\ files \in Programs /\ Top = calls[n]
      /\ \A i \in 1 .. n :
           /\ calls[i].file \in Files /\ calls[i].at \in Nat
           /\ Tracked(calls[i].text, calls[i].lines)
           /\ IsSeq(calls[i].text) /\ IsSeq(calls[i].lines) /\ IsSeq(calls[i].namespaces)
      /\ \A k \in 1 .. n : PairedCalls(calls, 1, k) /\ (1 <= k => Alone(calls, 1, k))
  <2>1. /\ n \in Nat \ {0} /\ files \in Programs /\ Top = calls[n]
        /\ \A i \in 1 .. n :
             /\ calls[i].file \in Files /\ calls[i].at \in Nat
             /\ Tracked(calls[i].text, calls[i].lines)
             /\ IsSeq(calls[i].text) /\ IsSeq(calls[i].lines) /\ IsSeq(calls[i].namespaces)
    BY <1>1, StackFacts
  <2>2. \A lo \in Nat \ {0} : \A k \in 1 .. n :
           PairedCalls(calls, lo, k) /\ (lo <= k => Alone(calls, lo, k))
    BY <1>1, StackFacts
  <2>3. 1 \in Nat \ {0}
    OBVIOUS
  <2> QED BY <2>1, <2>2, <2>3
<1>4. Renames(calls[n]) /\ Return
  BY <1>3 DEF SpacedReturn, Renames
<1>5. /\ m \in Nat \ {0} /\ m + 1 = n /\ Len(t) = m
      /\ ResumedFrom(t[m], calls[m], ns, T, L, calls[n].visited, calls[n].namespaces)
      /\ \A i \in 1 .. m - 1 : t[i] = calls[i]
      /\ calls[n].at > Len(files[calls[n].file])
  BY <1>1, <1>2, <1>4, ReturnFacts DEF Renames
<1>6. /\ m \in Nat \ {0} /\ 1 <= m /\ m \in 1 .. m /\ m \in 1 .. n /\ n \in 1 .. n
  <2>1. m \in Nat \ {0} /\ m + 1 = n
    BY <1>5
  <2> QED BY <2>1, Places
<1>7. PICK u : SpaceDone(calls, m, u) /\ ns = u.ns
  BY <1>1, <1>3, <1>4, <1>5, <1>6, SpaceReturns
<1>8. /\ t[m].file = calls[m].file /\ t[m].ns = calls[m].ns /\ t[m].at = calls[m].at + 1
      /\ t[m].visited = calls[m].visited
      /\ t[m].namespaces = (calls[m].namespaces \o <<ns>>) \o calls[n].namespaces
      /\ t[m].text = Append(calls[m].text \o T, Blank)
      /\ t[m].lines = Append(calls[m].lines \o L, << >>)
  BY <1>4, <1>5 DEF ResumedFrom, Renames
<1> HIDE DEF ns
<1>9. Tracked(calls[n].text, L) /\ IsSeq(T) /\ IsSeq(L)
  <2>1. Tracked(calls[n].text, L)
    BY <1>3, <1>6
  <2>2. Tracked(T, L)
    BY <2>1, MangledTracked
  <2> QED BY <2>1, <2>2 DEF Tracked
<1> HIDE DEF T, L
<1>10. t[m].text = calls[m].text \o more /\ t[m].lines = calls[m].lines \o from
  <2>1. IsSeq(calls[m].text) /\ IsSeq(calls[m].lines)
    BY <1>3, <1>6
  <2> DEFINE x == calls[m].text
             y == calls[m].lines
             none == << >>
  <2> HIDE DEF x, y, none
  <2>2. Append(x \o T, Blank) = x \o Append(T, Blank)
    <3>1. IsSeq(x) /\ IsSeq(T)
      BY <1>9, <2>1 DEF x
    <3> QED BY <3>1, AppendJoined
  <2>3. Append(y \o L, none) = y \o Append(L, none)
    <3>1. IsSeq(y) /\ IsSeq(L)
      BY <1>9, <2>1 DEF y
    <3> QED BY <3>1, AppendJoined
  <2> QED BY <1>8, <2>2, <2>3 DEF x, y, none
<1>11. Namespaces(calls[m]) \subseteq Namespaces(t[m]) /\ ns \in Namespaces(t[m])
  <2>1. IsSeq(calls[m].namespaces) /\ IsSeq(calls[n].namespaces)
    BY <1>3, <1>6
  <2> DEFINE a == calls[m].namespaces
             r == t[m].namespaces
  <2>2. Among(r, a, ns)
    <3> DEFINE b == calls[n].namespaces
    <3>1. JoinedList(r, a, ns, b)
      BY <1>8, <2>1 DEF JoinedList
    <3> HIDE DEF a, r, b
    <3> QED BY <3>1, JoinedNamespaces
  <2>3. /\ Namespaces(calls[m]) = {a[k] : k \in DOMAIN a}
        /\ Namespaces(t[m]) = {r[k] : k \in DOMAIN r}
    BY DEF Namespaces
  <2> HIDE DEF a, r
  <2> QED BY <2>2, <2>3 DEF Among
<1>12. Adds(calls, t, 1, m, {}, C, more, from) /\ Paired(more, from)
  <2>1. /\ SpaceDone(calls, m, u) /\ u.ns \in Namespaces(t[m])
        /\ Tracked(calls[m + 1].text, calls[m + 1].lines)
    BY <1>5, <1>7, <1>9, <1>11 DEF L
  <2>2. more = Append(MangleTopLevelNames(calls[m + 1].text, u.ns), Blank)
        /\ from = Append(calls[m + 1].lines, << >>)
    BY <1>5, <1>7 DEF T, L
  <2> HIDE DEF more, from, t
  <2> QED BY <1>3, <1>6, <2>1, <2>2, SpacedAdds
<1>13. Level(calls, 1, m, {}, C)
  BY <1>7 DEF SpaceDone, AtSpace
<1>14. Advanced(calls, t, 1, m, more, from)
  <2> HIDE DEF more, from
  <2> QED BY <1>5, <1>8, <1>10, <1>11 DEF Advanced
<1>15. PairedCalls(calls, 1, m) /\ Alone(calls, 1, m) /\ calls[m].file \in Files
  BY <1>3, <1>6
<1> HIDE DEF more, from, t
<1>16. Level(t, 1, m, {}, C)
  BY <1>3, <1>6, <1>12, <1>13, <1>14, <1>15, LevelAdvance
<1>17. t[1].file = Root
  <2>1. calls[1].file = Root
    BY DEF Levels
  <2>2. CASE m = 1
    BY <1>8, <2>1, <2>2 DEF t
  <2>3. CASE m # 1
    <3>1. 1 \in 1 .. m - 1
      BY <1>6, <2>3
    <3> QED BY <1>5, <2>1, <3>1 DEF t
  <2> QED BY <2>2, <2>3
<1> QED BY <1>5, <1>16, <1>17 DEF Levels, t, C

\* Every step keeps what is known of the levels.
LEMMA LevelsStep ==
  ASSUME TextInv, Simple, Levels(calls), [Next]_vars
  PROVE  Levels(calls')
<1>1. CASE CopyLine
  BY <1>1, LevelsCopy
<1>2. CASE MissingFile
  BY <1>2 DEF MissingFile
<1>3. CASE Import
  BY <1>3, LevelsImport
<1>4. CASE SkipVisited
  BY <1>4, LevelsSkip
<1>5. CASE Return
  <2>1. CASE Top.ns = ""
    BY <1>5, <2>1, LevelsBack DEF PlainReturn
  <2>2. CASE Top.ns # ""
    BY <1>5, <2>2, LevelsBackSpace DEF SpacedReturn
  <2> QED BY <2>1, <2>2
<1>6. CASE Finish
  BY <1>6 DEF Finish
<1>7. CASE UNCHANGED vars
  BY <1>7 DEF vars
<1> QED BY <1>1, <1>2, <1>3, <1>4, <1>5, <1>6, <1>7 DEF Next

\* The first call has read nothing.
LEMMA LevelsInit == ASSUME Init PROVE Levels(calls)
<1>1. PICK s : s = calls
  OBVIOUS
<1>2. /\ s = <<Call(Root, "", {}, << >>)>> /\ files \in Programs
  BY <1>1 DEF Init
<1> DEFINE c == Call(Root, "", {}, << >>)
<1>3. /\ c.file = Root /\ c.visited = {} \cup {Root} /\ c.at = 1 /\ c.text = << >> /\ c.lines = << >>
  BY DEF Call
<1> HIDE DEF c
<1>4. Len(s) = 1 /\ s[1] = c
  BY <1>2 DEF c
<1>5. Root \in Closure(Root) \ {} /\ Root \in Files
  BY <1>2, ProgramsAssumption, ClosureFacts
<1>6. Level(s, 1, 1, {}, Closure(Root))
  <2>1. /\ s[1].file = Root /\ s[1].visited = {} \cup {Root} /\ s[1].at = 1
        /\ s[1].text = << >> /\ s[1].lines = << >>
    BY <1>3, <1>4
  <2> QED BY <1>2, <1>5, <2>1, LevelStart
<1>7. s[1].file = Root
  BY <1>3, <1>4
<1>8. Levels(s)
  BY <1>4, <1>6, <1>7 DEF Levels
<1> QED BY <1>1, <1>8

-----------------------------------------------------------------------------
\* The files stay what they are, and with them what they mean.
LEMMA SameMeaning ==
  ASSUME UNCHANGED files
  PROVE  /\ \A f : Plain(f)' = Plain(f) /\ Spaced(f)' = Spaced(f) /\ DeclsOf(f)' = DeclsOf(f)
         /\ \A f : Closure(f)' = Closure(f)
         /\ \A o : SourceLine(o)' = SourceLine(o)
         /\ \A f, r : Meant(f, r)' = Meant(f, r)
<1>1. \A f : Uses(f)' = Uses(f)
  BY DEF Uses
<1>2. \A f : Plain(f)' = Plain(f) /\ Spaced(f)' = Spaced(f)
  BY <1>1 DEF Plain, Spaced
<1>3. \A f : DeclsOf(f)' = DeclsOf(f)
  BY DEF DeclsOf
<1>4. \A f : Closure(f)' = Closure(f)
  BY <1>2 DEF Closure
<1>5. \A o : SourceLine(o)' = SourceLine(o)
  BY DEF SourceLine
<1>6. \A f, r : Meant(f, r)' = Meant(f, r)
  BY <1>2, <1>3, <1>4 DEF Meant
<1> QED BY <1>2, <1>3, <1>4, <1>5, <1>6

\* So a program whose namespaces are simple stays one.
LEMMA SameSimple ==
  ASSUME UNCHANGED files
  PROVE  Simple' <=> Simple
<1>1. /\ \A f : Spaced(f)' = Spaced(f) /\ DeclsOf(f)' = DeclsOf(f)
      /\ \A f : Closure(f)' = Closure(f)
  BY SameMeaning
<1>2. \A f : Seen(f)' = Seen(f)
  BY <1>1 DEF Seen
<1> DEFINE Introduced == \A u, v \in Seen(Root) : u.ns = v.ns => u = v
           Disjoint == \A f, g \in Closure(Root) :
             f # g => {u.ns : u \in Spaced(f)} \cap {u.ns : u \in Spaced(g)} = {}
           OneLineEach == \A f \in Closure(Root) :
             \A j, k \in DOMAIN files[f] :
               files[f][j] = files[f][k] /\ files[f][j] \in Spaced(f) => j = k
           Flat == \A u \in Seen(Root) : u.file \notin Closure(Root)
             /\ \A g \in Closure(u.file) \ {Root} : Spaced(g) = {}
           Declared == \A h \in {Root} \cup {u.file : u \in Seen(Root)} :
             \A f, g \in Closure(h) :
               \A j \in DOMAIN files[f], k \in DOMAIN files[g] :
                 files[f][j].decl = files[g][k].decl /\ files[f][j].decl # << >> => f = g /\ j = k
           Unlike == \A u \in Seen(Root) : \A f \in Closure(Root) :
             \A d \in DeclsOf(f) : Head(d) # u.ns
<1>3. Simple <=> Introduced /\ Disjoint /\ OneLineEach /\ Flat /\ Declared /\ Unlike
  BY DEF Simple
<1>4. Simple' <=> Introduced' /\ Disjoint' /\ OneLineEach' /\ Flat' /\ Declared' /\ Unlike'
  BY DEF Simple
<1>5. Introduced' <=> Introduced
  BY <1>2
<1>6. Disjoint' <=> Disjoint
  BY <1>1
<1>7. OneLineEach' <=> OneLineEach
  BY <1>1
<1>8. Flat' <=> Flat
  BY <1>1, <1>2
<1>9. Declared' <=> Declared
  BY <1>1, <1>2
<1>10. Unlike' <=> Unlike
  BY <1>1, <1>2
<1> HIDE DEF Introduced, Disjoint, OneLineEach, Flat, Declared, Unlike
<1> QED BY <1>3, <1>4, <1>5, <1>6, <1>7, <1>8, <1>9, <1>10

\* What is known of lines and entries depends on the files only.
LEMMA SameKnown ==
  ASSUME UNCHANGED files
  PROVE  \A E, rd, vis, nss, scope :
           Known(E, rd, vis, nss, scope)' <=> Known(E, rd, vis, nss, scope)
<1>1. /\ \A f : DeclsOf(f)' = DeclsOf(f) /\ Closure(f)' = Closure(f)
      /\ \A o : SourceLine(o)' = SourceLine(o)
      /\ \A f, r : Meant(f, r)' = Meant(f, r)
  BY SameMeaning
<1>2. \A u, E, nss : Brought(u, E, nss)' <=> Brought(u, E, nss)
  BY <1>1 DEF Brought
<1>3. \A o, E, vis, nss, scope :
        LineKnown(o, E, vis, nss, scope)' <=> LineKnown(o, E, vis, nss, scope)
  BY <1>1, <1>2 DEF LineKnown
<1>4. \A e, rd : PlainEntry(e, rd)' <=> PlainEntry(e, rd)
  BY <1>1 DEF PlainEntry
<1>5. \A f, r, final, E : RefKept(f, r, final, E)' <=> RefKept(f, r, final, E)
  BY <1>1 DEF RefKept
<1>6. \A e, E, rd : SpacedEntry(e, E, rd)' <=> SpacedEntry(e, E, rd)
  BY <1>1, <1>5 DEF SpacedEntry
<1> QED BY <1>3, <1>4, <1>6 DEF Known

\* What is known of the levels after a step may be stated before it.
LEMMA SameLevels ==
  ASSUME UNCHANGED files
  PROVE  Levels(calls)' <=> Levels(calls')
<1>1. \A f : Closure(f)' = Closure(f)
  BY SameMeaning
<1>2. \A E, rd, vis, nss, scope :
        Known(E, rd, vis, nss, scope)' <=> Known(E, rd, vis, nss, scope)
  BY SameKnown
<1>3. \A s, lo, hi, base : LinesRead(s, lo, hi, base)' = LinesRead(s, lo, hi, base)
  <2>1. \A F : OriginsIn(F)' = OriginsIn(F)
    BY DEF OriginsIn
  <2> QED BY <2>1 DEF LinesRead
<1>4. \A s, lo, hi : Chain(s, lo, hi)' <=> Chain(s, lo, hi)
  BY DEF Chain
<1>5. \A s, lo, hi, base, scope : Level(s, lo, hi, base, scope)' <=> Level(s, lo, hi, base, scope)
  BY <1>2, <1>3, <1>4 DEF Level
<1>6. \A s, b : LevelOfSpace(s, b)' <=> LevelOfSpace(s, b)
  BY <1>1, <1>5 DEF LevelOfSpace
<1>7. \A s : Levels(s)' <=> Levels(s)
  BY <1>1, <1>5, <1>6 DEF Levels
<1> QED BY <1>7

\* What is compiled is what the first call has gathered.
LEMMA FinishedInit == ASSUME Init PROVE SourceFinished
BY DEF Init, SourceFinished
\* Once the text is final, nothing changes it.
LEMMA FinishedStep ==
  ASSUME TextInv, SourceFinished, [Next]_vars
  PROVE  SourceFinished'
<1> SUFFICES ASSUME status' = "resolved"
             PROVE  SourceFinished'
  BY DEF SourceFinished
<1>1. CASE Finish
  <2>1. Len(calls) = 1 /\ ~Reading /\ status = "resolving" /\ UNCHANGED <<calls, files>>
        /\ source' = [text |-> Undotted(Top.text, Top.namespaces), lines |-> Top.lines]
    BY <1>1 DEF Finish
  <2>2. Top.at > Len(files[Top.file])
    <3> DEFINE k == Len(files[Top.file])
               a == Top.at
    <3>1. Top = calls[Len(calls)] /\ Len(calls) \in 1 .. Len(calls)
      BY StackFacts
    <3>2. a \in Nat /\ Top.file \in Files /\ files \in Programs
      BY <3>1, StackFacts
    <3>3. k \in Nat
      <4>1. IsSeq(files[Top.file])
        BY <3>2, ProgramsAssumption DEF Counted, IsSeq
      <4> QED BY <4>1, SeqFacts
    <3>4. ~(a <= k)
      BY <2>1 DEF Reading
    <3> HIDE DEF a, k
    <3>5. a > k
      BY <3>2, <3>3, <3>4
    <3> QED BY <3>5 DEF a, k
  <2>3. Top' = Top
    BY <2>1 DEF Top
  <2>4. Undotted(Top.text, Top.namespaces)' = Undotted(Top.text, Top.namespaces)
    BY <2>3 DEF Undotted, ReplaceNsDot
  <2> QED BY <2>1, <2>2, <2>3, <2>4 DEF SourceFinished
<1>2. CASE ~Finish
  <2>1. status = "resolved" /\ UNCHANGED vars
    BY <1>2 DEF Next, vars, CopyLine, MissingFile, Import, SkipVisited, Return, Reading, OnUse
  <2>2. Top' = Top /\ UNCHANGED <<calls, files, source, status>>
    BY <2>1 DEF vars, Top
  <2>3. Undotted(Top.text, Top.namespaces)' = Undotted(Top.text, Top.namespaces)
    BY <2>2 DEF Undotted, ReplaceNsDot
  <2> QED BY <2>1, <2>2, <2>3 DEF SourceFinished
<1> QED BY <1>1, <1>2

\* The invariant of the names is inductive, with that of the lines.
LEMMA NamesInit == Init => NamesInv
BY LevelsInit, FinishedInit DEF NamesInv
\* Every step keeps it.
LEMMA NamesStep == TextInv /\ NamesInv /\ [Next]_vars => NamesInv'
<1> SUFFICES ASSUME TextInv, NamesInv, [Next]_vars
             PROVE  NamesInv'
  OBVIOUS
<1>1. UNCHANGED files
  BY DEF Next, vars, CopyLine, MissingFile, Import, SkipVisited, Return, Finish
<1>2. SourceFinished'
  BY FinishedStep DEF NamesInv
<1>3. Simple' => Levels(calls)'
  BY <1>1, SameSimple, SameLevels, LevelsStep DEF NamesInv
<1> QED BY <1>2, <1>3 DEF NamesInv

-----------------------------------------------------------------------------
\* A mention after the dots of the namespaces in done have been replaced.
RefUndotted(r, final, done) ==
  /\ (\A m \in done : r.q # <<m>>) => final.q = r.q /\ final.n = r.n
  /\ \A m \in done : r.q = <<m>> => final.q = << >> /\ final.n = <<m>> \o r.n

\* The other parts of a text stay.
UndotKeeps(text, done, t) ==
  /\ DOMAIN t = DOMAIN text
  /\ \A j \in DOMAIN text :
       /\ t[j].decl = text[j].decl /\ DOMAIN t[j].refs = DOMAIN text[j].refs
       /\ \A i \in DOMAIN text[j].refs : RefUndotted(text[j].refs[i], t[j].refs[i], done)

\* A mention of no namespace is left alone.
LEMMA UndottedName ==
  ASSUME NEW r, NEW final, NEW done, RefUndotted(r, final, done), r.q = << >>
  PROVE  final.q = << >> /\ final.n = r.n
<1>1. \A m : << >> # <<m>>
  OBVIOUS
<1> QED BY <1>1 DEF RefUndotted

\* One namespace more.
LEMMA RefPass ==
  ASSUME NEW r, NEW f, NEW done, RefUndotted(r, f, done), NEW m
  PROVE  RefUndotted(r, IF f.q = <<m>> THEN Ref(<< >>, <<m>> \o f.n) ELSE f, done \cup {m})
<1> DEFINE g == IF f.q = <<m>> THEN Ref(<< >>, <<m>> \o f.n) ELSE f
<1>1. \A x : << >> # <<x>>
  OBVIOUS
<1>2. \A x, y : <<x>> = <<y>> => x = y
  OBVIOUS
<1>3. f.q = <<m>> => g.q = << >> /\ g.n = <<m>> \o f.n
  BY DEF Ref
<1>4. f.q # <<m>> => g = f
  OBVIOUS
<1> HIDE DEF g
<1>5. CASE \E x \in done : r.q = <<x>>
  <2>1. PICK x \in done : r.q = <<x>>
    BY <1>5
  <2>2. f.q = << >> /\ f.n = <<x>> \o r.n
    BY <2>1 DEF RefUndotted
  <2>3. g = f
    BY <1>1, <1>4, <2>2
  <2>4. \A y : r.q = <<y>> => y = x
    BY <1>2, <2>1
  <2> QED BY <2>1, <2>2, <2>3, <2>4 DEF RefUndotted, g
<1>6. CASE \A x \in done : r.q # <<x>>
  <2>1. f.q = r.q /\ f.n = r.n
    BY <1>6 DEF RefUndotted
  <2>2. CASE r.q = <<m>>
    <3>1. g.q = << >> /\ g.n = <<m>> \o r.n
      BY <1>3, <2>1, <2>2
    <3>2. \A y : r.q = <<y>> => y = m
      BY <1>2, <2>2
    <3> QED BY <2>2, <3>1, <3>2 DEF RefUndotted, g
  <2>3. CASE r.q # <<m>>
    <3>1. g = f
      BY <1>4, <2>1, <2>3
    <3>2. \A y \in done \cup {m} : r.q # <<y>>
      BY <1>6, <2>3
    <3> QED BY <2>1, <3>1, <3>2 DEF RefUndotted, g
  <2> QED BY <2>2, <2>3
<1> QED BY <1>5, <1>6

\* The same for a whole text.
LEMMA TextPass ==
  ASSUME NEW text, NEW lines, NEW t, Tracked(t, lines), NEW done, UndotKeeps(text, done, t), NEW m
  PROVE  UndotKeeps(text, done \cup {m}, ReplaceNsDot(t, m))
<1> DEFINE ref(j, i) == IF t[j].refs[i].q = <<m>> THEN Ref(<< >>, <<m>> \o t[j].refs[i].n)
                        ELSE t[j].refs[i]
           refs(j) == [i \in DOMAIN t[j].refs |-> ref(j, i)]
           g == [j \in DOMAIN t |-> [t[j] EXCEPT !.refs = refs(j)]]
<1>1. ReplaceNsDot(t, m) = g
  BY DEF ReplaceNsDot
<1>2. DOMAIN t = 1 .. Len(t) /\ \A j \in DOMAIN t : DOMAIN t[j] = {"decl", "refs"}
  BY SeqFacts DEF Tracked
<1>3. DOMAIN t = DOMAIN text
  BY DEF UndotKeeps
<1>4. ASSUME NEW j \in DOMAIN text, NEW i \in DOMAIN text[j].refs
      PROVE  /\ DOMAIN t[j].refs = DOMAIN text[j].refs
             /\ RefUndotted(text[j].refs[i], ref(j, i), done \cup {m})
  <2>1. DOMAIN t[j].refs = DOMAIN text[j].refs /\ RefUndotted(text[j].refs[i], t[j].refs[i], done)
    BY DEF UndotKeeps
  <2> QED BY <2>1, RefPass
<1>5. \A j \in DOMAIN text : t[j].decl = text[j].decl /\ DOMAIN t[j].refs = DOMAIN text[j].refs
  BY DEF UndotKeeps
<1> HIDE DEF ref
<1>6. \A j \in DOMAIN t : \A i \in DOMAIN t[j].refs : refs(j)[i] = ref(j, i)
  OBVIOUS
<1>7. \A j \in DOMAIN t : DOMAIN refs(j) = DOMAIN t[j].refs
  OBVIOUS
<1> HIDE DEF refs
<1>8. DOMAIN g = DOMAIN t /\ \A j \in DOMAIN t : g[j].decl = t[j].decl /\ g[j].refs = refs(j)
  BY <1>2
<1> HIDE DEF g
<1>9. UndotKeeps(text, done \cup {m}, g)
  <2>1. ASSUME NEW j \in DOMAIN text
        PROVE  /\ g[j].decl = text[j].decl /\ DOMAIN g[j].refs = DOMAIN text[j].refs
               /\ \A i \in DOMAIN text[j].refs : g[j].refs[i] = ref(j, i)
    <3>1. j \in DOMAIN t
      BY <1>3
    <3>2. g[j].refs = refs(j) /\ DOMAIN refs(j) = DOMAIN text[j].refs
      BY <1>5, <1>7, <1>8, <3>1
    <3>3. \A i \in DOMAIN text[j].refs : refs(j)[i] = ref(j, i)
      BY <1>5, <1>6, <3>1
    <3> QED BY <1>5, <1>8, <3>1, <3>2, <3>3
  <2>2. \A j \in DOMAIN text : \A i \in DOMAIN text[j].refs :
           RefUndotted(text[j].refs[i], ref(j, i), done \cup {m})
    BY <1>4
  <2> QED BY <1>3, <1>8, <2>1, <2>2 DEF UndotKeeps
<1> QED BY <1>1, <1>9

\* The dots of all namespaces are replaced, each in one pass.
LEMMA UndottedKeeps ==
  ASSUME NEW text, NEW lines, Tracked(text, lines), NEW namespaces, IsSeq(namespaces)
  PROVE  UndotKeeps(text, {namespaces[k] : k \in DOMAIN namespaces}, Undotted(text, namespaces))
<1> DEFINE n == Len(namespaces)
           pass == CHOOSE f : f = [j \in 0 .. n |->
                     IF j = 0 THEN text ELSE ReplaceNsDot(f[j - 1], namespaces[j])]
<1>1. Undotted(text, namespaces) = pass[n]
  BY DEF Undotted
<1>2. n \in Nat
  BY SeqFacts
<1>3. DOMAIN namespaces = 1 .. n
  BY SeqFacts
<1> HIDE DEF n
<1>4. pass = [j \in 0 .. n |->
                IF j = 0 THEN text ELSE ReplaceNsDot(pass[j - 1], namespaces[j])]
  BY <1>2, UndotExists
<1> HIDE DEF pass
<1> DEFINE done(j) == {namespaces[k] : k \in 1 .. j}
           Good(j) == Tracked(pass[j], lines) /\ UndotKeeps(text, done(j), pass[j])
           T == {j \in 0 .. n : ~Good(j)}
<1>5. T \in SUBSET Nat
  OBVIOUS
<1>6. done(0) = {} /\ \A j \in Nat \ {0} : done(j) = done(j - 1) \cup {namespaces[j]}
  <2>1. 1 .. 0 = {} /\ \A j \in Nat \ {0} : 1 .. j = (1 .. j - 1) \cup {j}
    OBVIOUS
  <2> QED BY <2>1
<1> HIDE DEF done
<1>7. ASSUME NEW j \in T, \A y \in T : j <= y
      PROVE  FALSE
  <2>1. j \in 0 .. n /\ ~Good(j)
    BY <1>7
  <2>2. CASE j = 0
    <3>1. pass[j] = text
      BY <1>4, <2>1, <2>2
    <3>2. UndotKeeps(text, {}, text)
      BY DEF UndotKeeps, RefUndotted
    <3> QED BY <1>6, <2>1, <2>2, <3>1, <3>2
  <2>3. CASE j # 0
    <3>1. j - 1 \in 0 .. n /\ ~(j <= j - 1) /\ j \in Nat \ {0}
      BY <1>2, <2>1, <2>3
    <3>2. Good(j - 1)
      <4> HIDE DEF Good
      <4> QED BY <1>7, <3>1
    <3>3. pass[j] = ReplaceNsDot(pass[j - 1], namespaces[j])
      BY <1>4, <2>1, <2>3
    <3>4. Tracked(pass[j], lines)
      BY <3>2, <3>3, DotsTracked
    <3>5. UndotKeeps(text, done(j - 1) \cup {namespaces[j]}, pass[j])
      BY <3>2, <3>3, TextPass
    <3> QED BY <1>6, <2>1, <3>1, <3>4, <3>5
  <2> QED BY <2>2, <2>3
<1>8. T = {}
  <2> HIDE DEF T
  <2> QED BY <1>5, <1>7, LeastNat
<1>9. Good(n)
  <2> HIDE DEF Good
  <2> QED BY <1>2, <1>8
<1>10. {namespaces[k] : k \in DOMAIN namespaces} = done(n)
  BY <1>3 DEF done
<1> QED BY <1>1, <1>9, <1>10

-----------------------------------------------------------------------------
\* The only call that is left has read the root, with a text of its own.
RootDone(s) ==
  /\ Level(s, 1, 1, {}, Closure(Root))
  /\ s[1].file = Root /\ s[1].at \in Nat /\ s[1].at > Len(files[Root])

\* Then everything that the root has in scope has been read.
RootBrought(E, nss) ==
  /\ \A g \in Closure(Root) : \A d \in DeclsOf(g) : \E x \in E : x[1].decl = d /\ x[2][1] = g
  /\ \A g \in Closure(Root) : \A u \in Spaced(g) : Brought(u, E, nss)
  /\ \A x \in E :
       \/ BlankEntry(x)
       \/ x[2][1] \in Closure(Root) /\ x[1].refs = SourceLine(x[2]).refs
       \/ /\ x[2][1] \in Files
          /\ DOMAIN x[1].refs = DOMAIN SourceLine(x[2]).refs
          /\ \A i \in DOMAIN x[1].refs :
               RefKept(x[2][1], SourceLine(x[2]).refs[i], x[1].refs[i], E)

\* Every file in scope was visited, and every line of it read.
LEMMA RootReads ==
  ASSUME files \in Programs, Simple, NEW s, RootDone(s)
  PROVE  RootBrought(Entries(s[1].text, s[1].lines), Namespaces(s[1]))
<1> DEFINE C == Closure(Root)
           V == s[1].visited
           E == Entries(s[1].text, s[1].lines)
           nss == Namespaces(s[1])
           rd == LinesRead(s, 1, 1, {})
<1>1. \A i \in 1 .. 1 : i = 1
  OBVIOUS
<1>2. Held(s, 1, 1) = E
  BY <1>1 DEF Held
<1>3. /\ V \subseteq C /\ C \subseteq Files /\ Root \in V
      /\ \A o \in rd : LineKnown(o, E, V, nss, C)
      /\ \A e \in E : BlankEntry(e) \/ PlainEntry(e, rd) \/ SpacedEntry(e, E, rd)
  <2>1. C \subseteq Files
    BY ProgramsAssumption, ClosureFacts
  <2>2. /\ Level(s, 1, 1, {}, C) /\ s[1].file = Root
    BY DEF RootDone
  <2>3. 1 \in 1 .. 1
    OBVIOUS
  <2>4. V \subseteq C /\ Root \in V
    BY <2>2, <2>3 DEF Level
  <2>5. Known(E, rd, V, nss, C)
    BY <1>2, <2>2 DEF Level
  <2> HIDE DEF C, E, rd, V, nss
  <2> QED BY <2>1, <2>4, <2>5 DEF Known
<1>4. ASSUME NEW g \in V, NEW j \in DOMAIN files[g]
      PROVE  <<g, j>> \in rd
  <2>1. g \in Files
    BY <1>3
  <2>2. s[1].file = g => j < s[1].at
    <3> DEFINE k == Len(files[g])
    <3>1. j \in Nat \ {0} /\ j <= k
      BY <2>1, LineFacts
    <3>2. k \in Nat
      <4>1. IsSeq(files[g])
        BY <2>1, ProgramsAssumption DEF Counted, IsSeq
      <4> QED BY <4>1, SeqFacts
    <3>3. s[1].file = g => s[1].at > k /\ s[1].at \in Nat
      BY DEF RootDone
    <3> HIDE DEF k
    <3> QED BY <3>1, <3>2, <3>3
  <2>3. \A i \in 1 .. 1 : s[i].file = g => j < s[i].at
    BY <1>1, <2>2
  <2>4. <<g, j>>[1] = g /\ <<g, j>>[2] = j /\ g \in V \ {}
    OBVIOUS
  <2> QED BY <2>3, <2>4, ReadFacts
<1>5. \A o \in rd : o = <<o[1], o[2]>> /\ o[1] \in V /\ o[2] \in DOMAIN files[o[1]]
  BY ReadFacts
<1> HIDE DEF V, E, nss, rd, C
<1>6. ASSUME NEW g \in V, NEW x \in Plain(g)
      PROVE  x \in V
  <2>1. PICK j \in DOMAIN files[g] : IsPlainUse(files[g][j]) /\ files[g][j].file = x
    BY UseFacts
  <2>2. LineKnown(<<g, j>>, E, V, nss, C)
    BY <1>3, <1>4
  <2>3. SourceLine(<<g, j>>) = files[g][j]
    BY DEF SourceLine
  <2> QED BY <2>1, <2>2, <2>3 DEF LineKnown
<1>7. C \subseteq V
  <2>1. V \in SUBSET Files /\ Root \in V /\ \A g \in V : Plain(g) \subseteq V
    BY <1>3, <1>6
  <2> QED BY <2>1, ClosureLeast DEF C
<1>8. ASSUME NEW g \in C, NEW d \in DeclsOf(g)
      PROVE  \E x \in E : x[1].decl = d /\ x[2][1] = g
  <2>1. PICK j \in DOMAIN files[g] : files[g][j].decl = d /\ d # << >>
    BY DeclFacts
  <2>2. LineKnown(<<g, j>>, E, V, nss, C)
    BY <1>3, <1>4, <1>7
  <2>3. SourceLine(<<g, j>>) = files[g][j] /\ <<g, j>>[1] = g
    BY DEF SourceLine
  <2>4. PICK x \in E : x[1].decl = d /\ x[2] = <<g, j>>
    BY <2>1, <2>2, <2>3 DEF LineKnown
  <2> QED BY <2>3, <2>4
<1>9. ASSUME NEW g \in C, NEW u \in Spaced(g)
      PROVE  Brought(u, E, nss)
  <2>1. PICK j \in DOMAIN files[g] : IsSpacedUse(files[g][j]) /\ files[g][j] = u
    BY UseFacts
  <2>2. LineKnown(<<g, j>>, E, V, nss, C)
    BY <1>3, <1>4, <1>7
  <2>3. SourceLine(<<g, j>>) = files[g][j]
    BY DEF SourceLine
  <2> QED BY <2>1, <2>2, <2>3 DEF LineKnown
<1>10. ASSUME NEW x \in E, PlainEntry(x, rd)
       PROVE  x[2][1] \in C /\ x[1].refs = SourceLine(x[2]).refs
  BY <1>3, <1>5, <1>10 DEF PlainEntry
<1>11. ASSUME NEW x \in E, SpacedEntry(x, E, rd)
       PROVE  /\ x[2][1] \in Files
              /\ DOMAIN x[1].refs = DOMAIN SourceLine(x[2]).refs
              /\ \A i \in DOMAIN x[1].refs :
                   RefKept(x[2][1], SourceLine(x[2]).refs[i], x[1].refs[i], E)
  <2>1. PICK o \in rd :
          /\ IsSpacedUse(SourceLine(o)) /\ x[2][1] \in Closure(SourceLine(o).file) \ {Root}
          /\ DOMAIN x[1].refs = DOMAIN SourceLine(x[2]).refs
          /\ \A i \in DOMAIN x[1].refs :
               RefKept(x[2][1], SourceLine(x[2]).refs[i], x[1].refs[i], E)
    BY <1>11 DEF SpacedEntry
  <2>2. x[2][1] \in Files
    BY <2>1 DEF Closure
  <2> QED BY <2>1, <2>2
<1>12. \A x \in E :
         \/ BlankEntry(x)
         \/ x[2][1] \in C /\ x[1].refs = SourceLine(x[2]).refs
         \/ /\ x[2][1] \in Files
            /\ DOMAIN x[1].refs = DOMAIN SourceLine(x[2]).refs
            /\ \A i \in DOMAIN x[1].refs :
                 RefKept(x[2][1], SourceLine(x[2]).refs[i], x[1].refs[i], E)
  BY <1>3, <1>10, <1>11
<1>13. RootBrought(E, nss)
  BY <1>8, <1>9, <1>12 DEF RootBrought, C
<1> QED BY <1>13 DEF E, nss

\* What a mention r in file f may stand for declares its name.
LEMMA MeantDeclares ==
  ASSUME NEW f, NEW r, NEW g \in Meant(f, r)
  PROVE  r.n \in DeclsOf(g)
BY DEF Meant

\* A mention in its final form is the name of something that it may stand for.
Resolved(f, r, final, E) ==
  /\ final.q = << >> /\ final.n # << >>
  /\ \E x \in E : x[1].decl = final.n /\ x[2][1] \in Meant(f, r)

\* Whether it was read in the root's level or in a namespace's.
LEMMA MentionFinal ==
  ASSUME files \in Programs, NEW E, NEW nss, RootBrought(E, nss), NEW e \in E, ~BlankEntry(e),
         NEW i \in DOMAIN SourceLine(e[2]).refs, NEW f, f = e[2][1],
         NEW r, r = SourceLine(e[2]).refs[i], Meant(f, r) # {},
         NEW final, RefUndotted(e[1].refs[i], final, nss)
  PROVE  Resolved(f, r, final, E)
<1> DEFINE C == Closure(Root)
<1>1. /\ \A g \in C : \A d \in DeclsOf(g) : \E x \in E : x[1].decl = d /\ x[2][1] = g
      /\ \A g \in C : \A u \in Spaced(g) : Brought(u, E, nss)
      /\ \/ f \in C /\ e[1].refs[i] = r
         \/ RefKept(f, r, e[1].refs[i], E)
  BY DEF RootBrought
<1>2. C \subseteq Files /\ \A g \in C : Closure(g) \subseteq C
  BY ProgramsAssumption, ClosureFacts, ClosureIn
<1>3. \A g \in Meant(f, r) : r.n \in DeclsOf(g) /\ r.n # << >>
  BY MeantDeclares, DeclFacts
<1> HIDE DEF C
<1>4. CASE f \in C /\ e[1].refs[i] = r /\ r.q = << >>
  <2>1. final.q = << >> /\ final.n = r.n
    BY <1>4, UndottedName
  <2>2. PICK g \in Meant(f, r) : TRUE
    OBVIOUS
  <2>3. g \in Closure(f)
    BY <1>4, <2>2 DEF Meant
  <2>4. g \in C /\ r.n \in DeclsOf(g) /\ r.n # << >>
    BY <1>2, <1>3, <1>4, <2>3
  <2>5. PICK x \in E : x[1].decl = r.n /\ x[2][1] = g
    BY <1>1, <2>4
  <2> QED BY <2>1, <2>4, <2>5 DEF Resolved
<1>5. CASE f \in C /\ e[1].refs[i] = r /\ r.q # << >>
  <2>1. PICK g \in Meant(f, r) : TRUE
    OBVIOUS
  <2>2. PICK u \in Spaced(f) : u.file = g /\ r.q = <<u.ns>> /\ r.n \in DeclsOf(u.file)
    BY <1>5, <2>1 DEF Meant
  <2>3. Brought(u, E, nss)
    BY <1>1, <1>5
  <2>4. final.q = << >> /\ final.n = <<u.ns>> \o r.n
    BY <1>5, <2>2, <2>3 DEF Brought, RefUndotted
  <2>5. PICK x \in E : x[1].decl = <<u.ns>> \o r.n /\ x[2][1] = u.file
    BY <2>2, <2>3 DEF Brought
  <2>6. final.n # << >>
    <3>1. f \in Files /\ \E j \in DOMAIN files[f] : IsSpacedUse(files[f][j]) /\ files[f][j] = u
      BY <1>2, <1>5, UseFacts
    <3>2. u.file \in Files
      BY <3>1, LineFacts, ClauseFacts
    <3>3. PICK j \in DOMAIN files[u.file] : files[u.file][j].decl = r.n
      BY <2>2, DeclFacts
    <3>4. IsSeq(r.n)
      BY <3>2, <3>3, LineFacts
    <3> QED BY <2>4, <3>4, PrefixFacts
  <2> QED BY <2>1, <2>2, <2>4, <2>5, <2>6 DEF Resolved
<1>6. CASE RefKept(f, r, e[1].refs[i], E)
  <2> DEFINE k == e[1].refs[i]
  <2>1. /\ k.q = << >>
        /\ \/ k.n = r.n /\ Meant(f, r) \subseteq C
           \/ \E x \in E : x[1].decl = k.n /\ k.n # << >> /\ x[2][1] \in Meant(f, r)
    BY <1>6 DEF RefKept, C
  <2>2. final.q = << >> /\ final.n = k.n
    BY <2>1, UndottedName
  <2> HIDE DEF k
  <2>3. CASE k.n = r.n /\ Meant(f, r) \subseteq C
    <3>1. PICK g \in Meant(f, r) : TRUE
      OBVIOUS
    <3>2. g \in C /\ r.n \in DeclsOf(g) /\ r.n # << >>
      BY <1>3, <2>3, <3>1
    <3>3. PICK x \in E : x[1].decl = r.n /\ x[2][1] = g
      BY <1>1, <3>2
    <3> QED BY <2>2, <2>3, <3>2, <3>3 DEF Resolved
  <2>4. CASE \E x \in E : x[1].decl = k.n /\ k.n # << >> /\ x[2][1] \in Meant(f, r)
    BY <2>2, <2>4 DEF Resolved
  <2> QED BY <2>1, <2>3, <2>4
<1> QED BY <1>1, <1>4, <1>5, <1>6

-----------------------------------------------------------------------------
\* The origin and the name of an entry that is kept at place k of the text.
LEMMA EntryAt ==
  ASSUME NEW text, NEW lines, NEW x \in Entries(text, lines)
  PROVE  \E k \in DOMAIN text : x[1] = text[k] /\ x[2] = lines[k]
BY DEF Entries

\* One name, one declaration.
LEMMA OneFound ==
  ASSUME NEW text, NEW lines, UniqueText(text), NEW out, DOMAIN out = DOMAIN text,
         \A k \in DOMAIN text : out[k].decl = text[k].decl,
         NEW x \in Entries(text, lines), x[1].decl # << >>
  PROVE  \E k \in DOMAIN text : /\ {j \in DOMAIN out : out[j].decl = x[1].decl} = {k}
                                /\ lines[k] = x[2]
<1>1. PICK k \in DOMAIN text : x[1] = text[k] /\ x[2] = lines[k]
  BY EntryAt
<1>2. \A j \in DOMAIN text : text[j].decl = x[1].decl => j = k
  BY <1>1 DEF UniqueText
<1>3. {j \in DOMAIN out : out[j].decl = x[1].decl} = {k}
  BY <1>1, <1>2
<1> QED BY <1>1, <1>3

\* When imports are resolved, a mention in scope has one declaration.
LEMMA AllResolved ==
  ASSUME TextInv, NamesInv, status = "resolved", Simple,
         NEW j \in DOMAIN source.text, Origin(j) # << >>,
         NEW i \in DOMAIN SourceLine(Origin(j)).refs,
         NEW f, f = Origin(j)[1], NEW r, r = SourceLine(Origin(j)).refs[i], Meant(f, r) # {},
         NEW final, final = source.text[j].refs[i]
  PROVE  LET found == {k \in DOMAIN source.text : source.text[k].decl = final.n}
         IN  /\ final.q = << >> /\ Cardinality(found) = 1
             /\ \A k \in found : Origin(k)[1] \in Meant(f, r)
<1> DEFINE c == calls[1]
           nss == Namespaces(c)
           E == Entries(c.text, c.lines)
           out == source.text
           e == <<c.text[j], c.lines[j]>>
<1>1. /\ Len(calls) = 1 /\ Top = c /\ c.at > Len(files[c.file])
      /\ out = Undotted(c.text, c.namespaces) /\ source.lines = c.lines
  <2> DEFINE t == Undotted(Top.text, Top.namespaces)
  <2>1. /\ Len(calls) = 1 /\ Top.at > Len(files[Top.file])
        /\ source = [text |-> t, lines |-> Top.lines]
    BY DEF NamesInv, SourceFinished
  <2>2. Top = c
    BY <2>1 DEF Top
  <2>3. t = Undotted(c.text, c.namespaces)
    BY <2>2
  <2> HIDE DEF t, c
  <2> QED BY <2>1, <2>2, <2>3
<1>2. /\ files \in Programs /\ Tracked(c.text, c.lines) /\ IsSeq(c.namespaces) /\ c.at \in Nat
  <2>1. 1 \in 1 .. Len(calls)
    BY <1>1
  <2> QED BY <2>1, StackFacts
<1>3. RootDone(calls)
  <2>1. Levels(calls)
    BY DEF NamesInv
  <2>2. ~ \E b \in 2 .. 1 : TRUE
    OBVIOUS
  <2>3. c.file = Root /\ Level(calls, 1, 1, {}, Closure(Root))
    BY <1>1, <2>1, <2>2 DEF Levels
  <2> QED BY <1>1, <1>2, <2>3 DEF RootDone
<1>4. UniqueText(c.text)
  <2>1. 1 \in 1 .. 1
    OBVIOUS
  <2> QED BY <1>3, <2>1 DEF RootDone, Level, Unique
<1>5. RootBrought(E, nss)
  BY <1>2, <1>3, RootReads
<1>6. UndotKeeps(c.text, nss, out)
  <2>1. UndotKeeps(c.text, {c.namespaces[k] : k \in DOMAIN c.namespaces},
                   Undotted(c.text, c.namespaces))
    BY <1>2, UndottedKeeps
  <2> QED BY <1>1, <2>1 DEF Namespaces
<1>7. /\ DOMAIN out = DOMAIN c.text /\ \A k \in DOMAIN c.text : out[k].decl = c.text[k].decl
      /\ j \in DOMAIN c.text /\ Origin(j) = c.lines[j] /\ \A k : Origin(k) = c.lines[k]
  BY <1>1, <1>6 DEF UndotKeeps, Origin
<1>8. e \in E /\ e[1] = c.text[j] /\ e[2] = Origin(j)
  BY <1>7 DEF Entries
<1>9. ~BlankEntry(e)
  BY <1>8 DEF BlankEntry
<1> HIDE DEF c, nss, E, out, e
<1>10. e[1].refs = c.text[j].refs /\ RefUndotted(e[1].refs[i], final, nss)
  <2>1. i \in DOMAIN e[1].refs
    BY <1>5, <1>8, <1>9 DEF RootBrought
  <2> QED BY <1>6, <1>7, <1>8, <2>1 DEF UndotKeeps, out
<1>11. Resolved(f, r, final, E)
  BY <1>2, <1>5, <1>8, <1>9, <1>10, MentionFinal
<1>12. PICK x \in E : x[1].decl = final.n /\ x[2][1] \in Meant(f, r) /\ final.n # << >>
  BY <1>11 DEF Resolved
<1>13. PICK k \in DOMAIN c.text :
         {l \in DOMAIN out : out[l].decl = final.n} = {k} /\ c.lines[k] = x[2]
  <2>1. x \in Entries(c.text, c.lines) /\ x[1].decl # << >>
    BY <1>12 DEF E
  <2>2. \E k \in DOMAIN c.text : /\ {l \in DOMAIN out : out[l].decl = x[1].decl} = {k}
                                 /\ c.lines[k] = x[2]
    BY <1>4, <1>7, <2>1, OneFound
  <2> QED BY <1>12, <2>2
<1> DEFINE found == {l \in DOMAIN out : out[l].decl = final.n}
<1>14. found = {k} /\ Origin(k)[1] \in Meant(f, r)
  BY <1>7, <1>12, <1>13
<1> HIDE DEF found
<1>15. Cardinality(found) = 1 /\ \A l \in found : Origin(l)[1] \in Meant(f, r)
  BY <1>14, FS_Singleton
<1>16. final.q = << >>
  BY <1>11 DEF Resolved
<1> QED BY <1>15, <1>16 DEF found, out

\* Every mention that is in scope ends as the name of one declaration, of a file
\* that it stands for: in every program whose namespaces are simple, with any
\* number of files and lines, in whatever order plain and namespaced imports,
\* diamonds and cycles bring the files in.
THEOREM NamesResolve == Spec => []MentionsResolve
<1>1. TextInv /\ NamesInv => MentionsResolve
  <2> SUFFICES ASSUME TextInv, NamesInv, status = "resolved", Simple,
                      NEW j \in DOMAIN source.text, Origin(j) # << >>,
                      NEW i \in DOMAIN SourceLine(Origin(j)).refs,
                      Meant(Origin(j)[1], SourceLine(Origin(j)).refs[i]) # {}
               PROVE  LET final == source.text[j].refs[i]
                          found == {k \in DOMAIN source.text : source.text[k].decl = final.n}
                      IN  /\ final.q = << >> /\ Cardinality(found) = 1
                          /\ \A k \in found :
                               Origin(k)[1] \in Meant(Origin(j)[1], SourceLine(Origin(j)).refs[i])
    BY DEF MentionsResolve
  <2> QED BY AllResolved
<1> QED BY <1>1, TextInit, TextStep, NamesInit, NamesStep, PTL DEF Spec
=============================================================================
