------------------------------- MODULE FnBody -------------------------------
(***************************************************************************)
(* How a function body runs: its blocks, the exits out of them and the     *)
(* deferred calls, as the two code generators translate them.  "c" is the  *)
(* C back end (src/codegen.rs), "native" the translator the Cranelift and  *)
(* LLVM back ends share (src/backend/func.rs).                             *)
(*                                                                         *)
(* A body is a sequence of statements; a block is an opening statement, its *)
(* contents and "end".  The program is written first, a statement at a     *)
(* time and under the checks of src/semantic.rs, then run: conditions,     *)
(* iterations and the outcome of "try" are chosen freely.                  *)
(*                                                                         *)
(* Both generators keep one list of deferred expressions per function,     *)
(* filled in the order of the text, and expand the list so far at every    *)
(* exit.  What runs is decided by the text; what was registered, by the    *)
(* execution: "registered" records the latter, for the properties only.    *)
(***************************************************************************)
EXTENDS Integers, Sequences, FiniteSets, SequencesExt

CONSTANTS Backends,   \* the back ends considered
          Stmts,      \* the statements programs are made of
          MaxLen,     \* bound: statements of a body
          MaxDefers,  \* bound: defers of a body
          MaxIters    \* bound: loop iterations

Opening == {"if", "match", "loop", "arena"}
Jumps == {"return", "return_unit", "break", "continue"}
AllStmts == Opening \cup Jumps \cup {"end", "defer", "assign", "try"}

ASSUME StmtsAssumption ==
  Stmts \subseteq AllStmts /\ Backends \subseteq {"c", "native"}
ASSUME BoundsAssumption ==
  MaxLen \in Nat /\ MaxDefers \in Nat /\ MaxIters \in Nat

VARIABLES backend,
          unit,       \* the function returns unit, otherwise a Result
          body,       \* the statements
          pos,        \* the statement about to run
          frames,     \* the open blocks: where they began and their arena
          arenas,     \* the arenas created: where the block of each opens
          destroyed,  \* the ones that were destroyed
          iters,      \* loop iterations so far
          x,          \* what the program's variables hold
          registered, \* the defers that were executed, with the value of x
          todo,       \* deferred expressions the exit still has to run
          ran,        \* the deferred calls made: which, with which x
          exit,       \* how the function is being left
          ret,        \* the returned value
          pc          \* "write", "run", "exit" or "done"

front == <<backend, unit, body>>
heap == <<arenas, destroyed>>
vars == <<front, pos, frames, heap, iters, x, registered, todo, ran, exit, ret, pc>>
-----------------------------------------------------------------------------
\* The shape of a body.

Opens(b, p) == Cardinality({q \in 1 .. p : b[q] \in Opening})
Ends(b, p) == Cardinality({q \in 1 .. p : b[q] = "end"})
Depth(b, p) == Opens(b, p) - Ends(b, p)

\* The "end" of the block that opens at p.
EndOf(p) == CHOOSE q \in p .. Len(body) :
              /\ Depth(body, q) = Depth(body, p) - 1
              /\ \A r \in p .. q - 1 : Depth(body, r) >= Depth(body, p)

\* The blocks still open after the first p statements.
OpenAt(b, p) ==
  {q \in 1 .. p : /\ b[q] \in Opening
                  /\ \A r \in q .. p : Depth(b, r) >= Depth(b, q)}

Defers(b) == {p \in 1 .. Len(b) : b[p] = "defer"}

\* The sequences that list each element of D once.
Listings(D) == Bijection(1 .. Cardinality(D), D)

\* check_stmt: break and continue need an enclosing loop (loop_depth), a
\* Result function cannot return unit and only it may use "try".  Nothing is
\* written after a jump in the same block: that code is dead.
Accepted(s) ==
  /\ body # <<>> /\ Last(body) \in Jumps => s = "end"
  /\ s = "end" => Depth(body, Len(body)) > 0
  /\ s \in {"break", "continue"} =>
       \E q \in OpenAt(body, Len(body)) : body[q] = "loop"
  /\ s = "return_unit" => unit
  /\ s = "try" => ~unit
  /\ s = "defer" => Cardinality(Defers(body)) < MaxDefers

\* The front end reads one more statement; blocks still open can be closed
\* within the bound.
Write(s) ==
  /\ pc = "write"
  /\ Accepted(s)
  /\ body' = Append(body, s)
  /\ Len(body') + Depth(body', Len(body')) <= MaxLen
  /\ UNCHANGED <<backend, unit, pos, frames, heap, iters, x, registered, todo,
                 ran, exit, ret, pc>>

Call ==
  /\ pc = "write"
  /\ body # <<>> /\ Depth(body, Len(body)) = 0
  /\ pc' = "run"
  /\ UNCHANGED <<front, pos, frames, heap, iters, x, registered, todo, ran, exit,
                 ret>>
-----------------------------------------------------------------------------
Init ==
  /\ backend \in Backends /\ unit \in BOOLEAN
  /\ body = <<>> /\ pos = 1
  /\ frames = <<>>
  /\ arenas = <<>> /\ destroyed = {}
  /\ iters = 0 /\ x = 0
  /\ registered = <<>> /\ todo = <<>> /\ ran = <<>>
  /\ exit = "none" /\ ret = 0
  /\ pc = "write"

At(s) == pc = "run" /\ pos <= Len(body) /\ body[pos] = s

Frame(p, a) == [at |-> p, arena |-> a]
Leaks(fs) == {fs[i].arena : i \in DOMAIN fs} \ {0}

\* A statement that neither exits nor opens or closes a block.
Plain(next) ==
  /\ pos' = next
  /\ UNCHANGED <<front, heap, iters, todo, ran, exit, ret, pc>>

Assign ==
  /\ At("assign")
  /\ x' = x + 1
  /\ Plain(pos + 1) /\ UNCHANGED <<frames, registered>>

\* Stmt::Defer emits nothing: the expression went to the list.
Defer ==
  /\ At("defer")
  /\ registered' = Append(registered, [defer |-> pos, arg |-> x])
  /\ Plain(pos + 1) /\ UNCHANGED <<frames, x>>

\* The condition holds, or this arm of the match is taken.
EnterBranch ==
  /\ At("if") \/ At("match")
  /\ frames' = Append(frames, Frame(pos, 0))
  /\ Plain(pos + 1) /\ UNCHANGED <<x, registered>>

SkipBlock ==
  /\ At("if") \/ At("match") \/ At("loop")
  /\ Plain(EndOf(pos) + 1) /\ UNCHANGED <<frames, x, registered>>

EnterLoop ==
  /\ At("loop") /\ iters < MaxIters
  /\ iters' = iters + 1
  /\ frames' = Append(frames, Frame(pos, 0))
  /\ pos' = pos + 1
  /\ UNCHANGED <<front, heap, x, registered, todo, ran, exit, ret, pc>>

EnterArena ==
  /\ At("arena")
  /\ arenas' = Append(arenas, pos)
  /\ frames' = Append(frames, Frame(pos, Len(arenas')))
  /\ pos' = pos + 1
  /\ UNCHANGED <<front, destroyed, iters, x, registered, todo, ran, exit, ret, pc>>

\* Mutant: an arena inside a loop is not destroyed.
LeaveBlockKeeps ==
  /\ At("end")
  /\ frames' = Front(frames)
  /\ destroyed' = destroyed \cup (IF iters > 0 THEN {} ELSE Leaks(<<Last(frames)>>))
  /\ pos' = IF body[Last(frames).at] = "loop" THEN Last(frames).at ELSE pos + 1
  /\ UNCHANGED <<front, arenas, iters, x, registered, todo, ran, exit, ret, pc>>

\* The end of a block: an arena is destroyed, a loop tests its condition
\* again.
LeaveBlock ==
  /\ At("end")
  /\ frames' = Front(frames)
  /\ destroyed' = destroyed \cup Leaks(<<Last(frames)>>)
  /\ pos' = IF body[Last(frames).at] = "loop" THEN Last(frames).at ELSE pos + 1
  /\ UNCHANGED <<front, arenas, iters, x, registered, todo, ran, exit, ret, pc>>

\* The innermost open block of one of these kinds.
Innermost(kinds) ==
  CHOOSE i \in DOMAIN frames :
    /\ body[frames[i].at] \in kinds
    /\ \A j \in i + 1 .. Len(frames) : body[frames[j].at] \notin kinds

\* Leave the frames from the i-th on, without destroying their arenas.
JumpOut(i, next) ==
  /\ frames' = SubSeq(frames, 1, i - 1)
  /\ pos' = next
  /\ UNCHANGED <<front, heap, iters, x, registered, todo, ran, exit, ret, pc>>

\* Mutant: the native back end forgets that a match is not a loop.
BreakableAny == {"loop", "match"}

\* A C "break" also leaves the switch that a match on an enum becomes.
Breakable == IF backend = "c" THEN {"loop", "match"} ELSE {"loop"}

Break ==
  /\ At("break")
  /\ LET i == Innermost(Breakable) IN JumpOut(i, EndOf(frames[i].at) + 1)

Continue ==
  /\ At("continue")
  /\ LET i == Innermost({"loop"}) IN JumpOut(i, frames[i].at)
-----------------------------------------------------------------------------
\* Mutant: the list is expanded first to last.
DeferredInOrder(p) ==
  CHOOSE s \in Listings(Defers(SubSeq(body, 1, p))) :
    \A i, j \in DOMAIN s : i < j => s[i] < s[j]

\* The list of deferred expressions when statement p is generated, last first.
Deferred(p) ==
  CHOOSE s \in Listings(Defers(SubSeq(body, 1, p))) :
    \A i, j \in DOMAIN s : i < j => s[i] > s[j]

\* An exit begins: the value is computed, then the deferred calls run.
Exits(how, list) ==
  /\ exit' = how
  /\ todo' = list
  /\ ret' = x
  /\ pc' = "exit"
  /\ UNCHANGED <<front, pos, frames, heap, iters, x, registered, ran>>

Return == At("return") /\ Exits("return", Deferred(pos))

\* Mutant: the return is lost in both back ends.
ReturnUnitDropped ==
  /\ At("return_unit")
  /\ IF Deferred(pos) # <<>> THEN Exits("none", Deferred(pos))
                            ELSE Exits("return", Deferred(pos))

\* "return e;" with a unit e.  The C back end drops e when there are deferred
\* calls, and the return with it.
ReturnUnit ==
  /\ At("return_unit")
  /\ IF backend = "c" /\ Deferred(pos) # <<>>
     THEN Exits("none", Deferred(pos))
     ELSE Exits("return", Deferred(pos))

FallOff ==
  /\ pc = "run" /\ pos = Len(body) + 1
  /\ Exits("end", Deferred(Len(body)))

TryOk ==
  /\ At("try")
  /\ Plain(pos + 1) /\ UNCHANGED <<frames, x, registered>>

\* emit_try returns at once; lower_try goes through emit_return.
TryFails ==
  /\ At("try")
  /\ Exits("try", IF backend = "c" THEN <<>> ELSE Deferred(pos))

\* Mutant: the value is not saved before the deferred calls.
RunDeferredLate ==
  /\ pc = "exit" /\ todo # <<>>
  /\ ran' = Append(ran, [defer |-> Head(todo), arg |-> x])
  /\ x' = x + 1
  /\ ret' = x'
  /\ todo' = Tail(todo)
  /\ UNCHANGED <<front, pos, frames, heap, iters, registered, exit, pc>>

\* A deferred call: its arguments are computed here, and it may change what
\* the variables refer to.
RunDeferred ==
  /\ pc = "exit" /\ todo # <<>>
  /\ ran' = Append(ran, [defer |-> Head(todo), arg |-> x])
  /\ x' = x + 1
  /\ todo' = Tail(todo)
  /\ UNCHANGED <<front, pos, frames, heap, iters, registered, exit, ret, pc>>

\* The return itself.  The open blocks are left by it, their arenas as they are.
Leave ==
  /\ pc = "exit" /\ todo = <<>> /\ exit # "none"
  /\ frames' = <<>>
  /\ pc' = "done"
  /\ UNCHANGED <<front, pos, heap, iters, x, registered, todo, ran, exit, ret>>

\* No return was generated: the next statement runs.
CarriesOn ==
  /\ pc = "exit" /\ todo = <<>> /\ exit = "none"
  /\ pc' = "run"
  /\ pos' = pos + 1
  /\ UNCHANGED <<front, frames, heap, iters, x, registered, todo, ran, exit, ret>>

Next ==
  \/ \E s \in Stmts : Write(s)
  \/ Call
  \/ Assign \/ Defer \/ TryOk
  \/ EnterBranch \/ SkipBlock \/ EnterLoop \/ EnterArena \/ LeaveBlock
  \/ Break \/ Continue
  \/ Return \/ ReturnUnit \/ FallOff \/ TryFails
  \/ RunDeferred \/ Leave \/ CarriesOn

Spec == Init /\ [][Next]_vars
-----------------------------------------------------------------------------
\* The type of the state.
TypeOK ==
  /\ backend \in {"c", "native"} /\ unit \in BOOLEAN
  /\ body \in Seq(AllStmts)
  /\ pos \in 1 .. Len(body) + 1
  /\ frames \in Seq([at : Nat, arena : Nat])
  /\ arenas \in Seq(Nat) /\ destroyed \subseteq DOMAIN arenas
  /\ iters \in 0 .. MaxIters /\ x \in Nat /\ ret \in Nat
  /\ registered \in Seq([defer : Nat, arg : Nat])
  /\ todo \in Seq(Nat)
  /\ ran \in Seq([defer : Nat, arg : Nat])
  /\ exit \in {"none", "end", "return", "try"}
  /\ pc \in {"write", "run", "exit", "done"}

\* The entries of s that are calls deferred in the function's own block.
OwnLevel(s) == {i \in DOMAIN s : Depth(body, s[i].defer) = 0}

\* The C back end has no exit of its own for a failed "try", and none for
\* "return e;" with a unit e.
ExitKept == backend = "c" => exit # "try" /\ ~\E p \in DOMAIN body : body[p] = "return_unit"

\* Deferred calls of the function's block run last in, first out, each once,
\* at every exit a back end handles: falling off the end, a return anywhere,
\* and in native code a failed try.
DefersRunLIFO ==
  pc = "done" /\ ExitKept =>
    \E match \in Bijection(OwnLevel(ran), OwnLevel(registered)) :
      /\ \A i \in OwnLevel(ran) : registered[match[i]].defer = ran[i].defer
      /\ \A i, j \in OwnLevel(ran) : i < j => match[i] > match[j]

\* The returned value was computed before the first deferred call: it shows
\* the effect of none of them.
ValueBeforeDefers == pc = "done" /\ ExitKept => ret = x - Len(ran)

InnermostLoop(p) ==
  CHOOSE q \in OpenAt(body, p) :
    body[q] = "loop" /\ \A r \in OpenAt(body, p) : body[r] = "loop" => r <= q

\* Statement p can jump out of the block that opens at q: p is inside it and
\* returns, fails a try, or goes to a loop around the block.
JumpsOutOf(p, q) ==
  /\ q \in OpenAt(body, p)
  /\ \/ body[p] \in {"return", "return_unit", "try"}
     \/ body[p] \in {"break", "continue"} /\ InnermostLoop(p) < q

\* An arena is destroyed at the end of its block and not before, in every
\* iteration of a loop around it; the only blocks that may leave theirs behind
\* are the ones the text has a jump out of.  docs/guide.md says that an early
\* return cleans up too, but neither back end emits anything for it.
ArenasFreed ==
  /\ destroyed \cap Leaks(frames) = {}
  /\ \A a \in DOMAIN arenas \ (destroyed \cup Leaks(frames)) :
       \E p \in DOMAIN body : JumpsOutOf(p, arenas[a])

\* Native code leaves what it is told to leave (func.rs, emit_return and the
\* loop stack): a break goes behind its innermost loop, from inside a match or
\* an arena block too, and nothing of the body runs after a return was reached.
\* In C a break may meet the switch of a match first, and a unit return with
\* deferred calls carries on.
NativeExits ==
  [][backend = "native" =>
       /\ At("break") => pos' = EndOf(InnermostLoop(pos)) + 1
       /\ pc = "exit" => pc' # "run"]_vars

\* docs/spec/oscan-spec.md 5.15: the calls registered by the defer statements
\* that executed run when the function returns, in reverse order, with the
\* arguments "evaluated at defer-time".
DefersAsSpecified ==
  pc = "done" => ran = Reverse(registered)
=============================================================================
