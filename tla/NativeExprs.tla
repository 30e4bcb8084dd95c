----------------------------- MODULE NativeExprs -----------------------------
(***************************************************************************)
(* The native backends' translation of expressions and statements          *)
(* (backend/func.rs), by what the code they produce does.  Every operand   *)
(* is lowered to a value when it is met, so they run from left to right.   *)
(***************************************************************************)
EXTENDS ExprIR

RECURSIVE Lower(_, _), LowerOperands(_, _), LowerStmt(_, _), LowerStmts(_, _)

\* The operands from left to right: their values and the state after them.
LowerOperands(es, s) ==
  IF es = << >> THEN [v |-> << >>, s |-> s]
  ELSE LET r == Lower(Head(es), s)
           rest == LowerOperands(Tail(es), r.s)
       IN [v |-> <<r.v>> \o rest.v, s |-> rest.s]

\* Below, r or c is what a construct's operands, or its first one, were lowered to.
LowerCall(e, r) == IF Running(r.s) THEN Apply(e, r.v, r.s) ELSE Stopped(r.s)

LowerShortCircuit(e, c) ==
  LET decided == c.v = IF e.k = "and" THEN <<0>> ELSE <<1>>
  IN IF ~Running(c.s) \/ decided THEN c ELSE Lower(e.s[2], c.s)

LowerIf(e, c) ==
  IF ~Running(c.s) THEN c ELSE Lower(e.s[IF c.v = <<1>> THEN 2 ELSE 3], c.s)

LowerBlock(e, s) == Lower(e.s[2], LowerStmts(e.s[1].s, s))

Joined(vs) == LET upto[j \in 0 .. Len(vs)] == IF j = 0 THEN << >> ELSE upto[j - 1] \o vs[j]
              IN upto[Len(vs)]

\* An interpolation converts and appends each part before it lowers the next.
LowerInterpolatedString(e, r) ==
  IF Running(r.s) THEN Out(Joined(r.v), r.s) ELSE Stopped(r.s)

\* The scrutinee is lowered once; the last arm has no test.
LowerMatch(e, c) ==
  LET arm == IF e.k = "match" THEN (IF c.v[1] \in {0, 1} THEN c.v[1] + 2 ELSE 4)
             ELSE IF c.v[1] = 1 THEN 2 ELSE 3
      bound == IF e.k = "rmatch" THEN Bind(c.s, "i", <<c.v[2]>>)
               ELSE IF arm = 4 THEN Bind(c.s, "i", c.v) ELSE c.s
  IN IF ~Running(c.s) THEN c ELSE Lower(e.s[arm], bound)

LowerTry(e, c) ==
  IF ~Running(c.s) THEN c
  ELSE IF c.v[1] = 0 THEN Stopped(ReturnFrom(c.s, c.v)) ELSE Out(<<c.v[2]>>, c.s)

\* The array is made before its elements are lowered, which are pushed in turn.
LowerArrayLit(e, arr) ==
  LET Filled(r) == IF ~Running(r.s) THEN Stopped(r.s)
                   ELSE Out(arr.v, [r.s EXCEPT !.heap[arr.v[1]] = Joined(r.v)])
  IN Filled(LowerOperands(e.s, arr.s))

Spin(s) == [s EXCEPT !.st = "spin"]

RECURSIVE FoldFrom(_, _, _, _, _)
FoldFrom(e, arr, acc, j, s) ==
  IF j = Len(s.heap[arr[1]]) THEN Out(acc, s)
  ELSE IF j = MaxTurns THEN Stopped(Spin(s))
  ELSE LET r == Apply([k |-> "call", v |-> e.v], <<Element(s, arr, <<j>>)>>, s)
       IN FoldFrom(e, arr, <<acc[1] + r.v[1]>>, j + 1, r.s)
LowerHigherOrder(e, r) ==
  IF Running(r.s) THEN FoldFrom(e, r.v[1], r.v[2], 0, r.s) ELSE Stopped(r.s)

Lower(e, s) ==
  IF ~Running(s) THEN Stopped(s)
  ELSE CASE e.k = "lit" -> Out(<<e.v>>, s)
         [] e.k = "var" -> Out(s.vars[e.n], s)
         [] e.k = "block" -> LowerBlock(e, s)
         [] e.k \in {"and", "or"} -> LowerShortCircuit(e, Lower(e.s[1], s))
         [] e.k = "if" -> LowerIf(e, Lower(e.s[1], s))
         [] e.k \in {"match", "rmatch"} -> LowerMatch(e, Lower(e.s[1], s))
         [] e.k = "try" -> LowerTry(e, Lower(e.s[1], s))
         [] e.k = "interp" -> LowerInterpolatedString(e, LowerOperands(e.s, s))
         [] e.k = "array" -> LowerArrayLit(e, Apply([k |-> "new"], << >>, s))
         [] e.k = "fold" -> LowerHigherOrder(e, LowerOperands(e.s, s))
         [] OTHER -> LowerCall(e, LowerOperands(e.s, s))

(***************************************************************************)
(* Statements.                                                             *)
(***************************************************************************)

\* clone_expr_shallow: the index of a place that is read and then written is
\* copied, which it can be only if it is made of these.
RECURSIVE Clonable(_)
Clonable(e) ==
  /\ e.k \in {"lit", "var", "add", "eq", "lt", "and", "or", "index"}
  /\ \A j \in DOMAIN e.s : Clonable(e.s[j])

\* What a[index] is, or where it is.
AtIndex(k, e, s) == Lower([k |-> k, v |-> 0, s |-> <<[k |-> "var", n |-> "a"], e.s[1]>>], s)

\* A value is stored in a place that was found.
StorePlaceValue(at, v) ==
  IF Running(at.s) THEN Apply([k |-> "store"], <<at.v, v>>, at.s).s ELSE at.s

\* The value first, then the place.
StorePlace(e, v) == StorePlaceValue(AtIndex("place", e, v.s), v.v)

\* The place is read, then the value, then the place is found again.  An index
\* that cannot be copied makes the compiler panic: there is no program ("ice").
CompoundPlace(e, s, old) ==
  LET Sum(v) == Out(<<old.v[1] + v.v[1]>>, v.s) IN
  IF ~Clonable(e.s[1]) THEN [s EXCEPT !.st = "ice"]
  ELSE StorePlace(e, Sum(Lower(e.s[2], old.s)))

\* Loops, with the condition or the operands of the header lowered.
RECURSIVE WhileTurn(_, _, _), ForTurn(_, _, _, _, _), ForInTurn(_, _, _, _, _)
WhileTurn(e, c, turns) ==
  IF ~Running(c.s) \/ c.v = <<0>> THEN c.s
  ELSE IF turns = 0 THEN Spin(c.s)
  ELSE WhileTurn(e, Lower(e.s[1], LowerStmts(e.s[2].s, c.s)), turns - 1)

ForTurn(e, j, end, s, turns) ==
  IF ~Running(s) \/ j >= end[1] THEN s
  ELSE IF turns = 0 THEN Spin(s)
  ELSE ForTurn(e, j + 1, end, LowerStmts(e.s[3].s, Bind(s, "i", <<j>>)), turns - 1)
LowerFor(e, r) ==
  IF Running(r.s) THEN ForTurn(e, r.v[1][1], r.v[2], r.s, MaxTurns) ELSE r.s

ForInTurn(e, arr, len, j, s) ==
  LET elem == Apply([k |-> "index"], <<arr, <<j>> >>, s) IN
  IF ~Running(s) \/ j >= len THEN s
  ELSE IF j = MaxTurns THEN Spin(s)
  ELSE IF ~Running(elem.s) THEN elem.s
  ELSE ForInTurn(e, arr, len, j + 1, LowerStmts(e.s[2].s, Bind(s, "i", elem.v)))
LowerForIn(e, it) ==
  IF Running(it.s) THEN ForInTurn(e, it.v, Len(it.s.heap[it.v[1]]), 0, it.s) ELSE it.s

\* A statement whose one operand r was lowered in s.
LowerSimple(e, s, r) ==
  IF ~Running(r.s) THEN r.s
  ELSE CASE e.k = "set" -> Bind(r.s, e.n, r.v)
         [] e.k = "bump" -> Bind(r.s, e.n, <<s.vars[e.n][1] + r.v[1]>>)
         [] e.k = "do" -> r.s
         [] e.k = "return" -> ReturnFrom(r.s, r.v)

LowerStmt(e, s) ==
  CASE e.k = "store" -> StorePlace(e, Lower(e.s[2], s))
    [] e.k = "bumpat" -> CompoundPlace(e, s, AtIndex("index", e, s))
    [] e.k = "while" -> WhileTurn(e, Lower(e.s[1], s), MaxTurns)
    [] e.k = "for" -> LowerFor(e, LowerOperands(<<e.s[1], e.s[2]>>, s))
    [] e.k = "forin" -> LowerForIn(e, Lower(e.s[1], s))
    [] OTHER -> LowerSimple(e, s, Lower(e.s[1], s))

LowerStmts(es, s) ==
  IF es = << >> \/ ~Running(s) THEN s ELSE LowerStmts(Tail(es), LowerStmt(Head(es), s))
=============================================================================
