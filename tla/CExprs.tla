------------------------------- MODULE CExprs -------------------------------
(***************************************************************************)
(* The C backend's translation of expressions and statements (codegen.rs), *)
(* and what the C it writes may do.                                        *)
(*                                                                         *)
(* An expression becomes lines, already written to the output, and a text, *)
(* which the caller pastes where it likes: once, twice or into a loop's    *)
(* header.  C gives the operands of a text no order, so running a text has *)
(* a set of outcomes; lines run one after the other.                       *)
(*                                                                         *)
(* A text is a node.  Temporaries are numbered by where in the source the  *)
(* expression that makes them stands, which is as good as fresh_tmp.       *)
(***************************************************************************)
EXTENDS ExprIR

Num(v) == [k |-> "num", v |-> v, n |-> "", s |-> << >>, p |-> << >>]
Name(n) == [k |-> "name", v |-> 0, n |-> n, s |-> << >>, p |-> << >>]
Tmp(p) == [k |-> "tmp", v |-> 0, n |-> "", s |-> << >>, p |-> p]
Text(e, ts) == [k |-> e.k, v |-> e.v, n |-> "", s |-> ts, p |-> << >>]
Op(k, ts) == Text([k |-> k, v |-> 0], ts)

Line(l, t, p, n, b) == [l |-> l, t |-> t, p |-> p, n |-> n, b |-> b]
SetTmp(p, t) == <<Line("set", <<t>>, p, "", << >>)>>
Declare(n, t) == <<Line("let", <<t>>, << >>, n, << >>)>>
IfLine(t, b1, b2) == <<Line("if", <<t>>, << >>, "", <<b1, b2>>)>>
Do(t) == <<Line("do", <<t>>, << >>, "", << >>)>>

(***************************************************************************)
(* A comparison is written without parentheses, so C reads the operands of *)
(* an equality whose right side is an equality from the left.              *)
(***************************************************************************)
RECURSIVE Infix(_, _, _)
Infix(k, l, r) ==
  IF k = "eq" /\ r.k = "eq" THEN Op("eq", <<Infix("eq", l, r.s[1]), r.s[2]>>)
  ELSE Op(k, <<l, r>>)

RECURSIVE Concat(_)
Concat(ls) == IF ls = << >> THEN << >> ELSE Head(ls) \o Concat(Tail(ls))

\* A string is built by calls nested to the left.
RECURSIVE Concatenation(_)
Concatenation(ts) ==
  IF Len(ts) = 1 THEN ts[1]
  ELSE Op("tuple", <<Concatenation(SubSeq(ts, 1, Len(ts) - 1)), ts[Len(ts)]>>)

RECURSIVE Emit(_, _), EmitStmt(_, _), EmitStmts(_, _)

Emission(lines, text) == [lines |-> lines, text |-> text]

\* The operands' lines one after the other, then a text of their texts.
EmitOperands(es, p) == [j \in DOMAIN es |-> Emit(es[j], Append(p, j))]
LinesOf(ems) == Concat([j \in DOMAIN ems |-> ems[j].lines])
TextsOf(ems) == [j \in DOMAIN ems |-> ems[j].text]

\* Each operand into a temporary of its own before the next is looked at.
InTmps(es, p) ==
  LET ems == EmitOperands(es, p)
  IN [lines |-> Concat([j \in DOMAIN es |->
                          ems[j].lines \o SetTmp(Append(p, j), ems[j].text)]),
      texts |-> [j \in DOMAIN es |-> Tmp(Append(p, j))]]

EmitCall(e, p) ==
  LET ems == EmitOperands(e.s, p) IN Emission(LinesOf(ems), Text(e, TextsOf(ems)))

\* The right operand's lines outside the guard.
EmitBinaryOpUnguarded(e, p) ==
  LET l == Emit(e.s[1], Append(p, 1))
      r == Emit(e.s[2], Append(p, 2))
      guard == IF e.k = "and" THEN Tmp(p) ELSE Op("not", <<Tmp(p)>>)
  IN IF e.k \in {"and", "or"}
     THEN Emission(l.lines \o SetTmp(p, l.text) \o r.lines \o
                   IfLine(guard, SetTmp(p, r.text), << >>), Tmp(p))
     ELSE Emission(l.lines \o r.lines,
                   IF e.k = "add" THEN Op("add", <<l.text, r.text>>)
                   ELSE Infix(e.k, l.text, r.text))
EmitBinaryOp(e, p) ==
  LET l == Emit(e.s[1], Append(p, 1))
      r == Emit(e.s[2], Append(p, 2))
      guard == IF e.k = "and" THEN Tmp(p) ELSE Op("not", <<Tmp(p)>>)
  IN IF e.k \in {"and", "or"}
     THEN Emission(l.lines \o SetTmp(p, l.text) \o
                   IfLine(guard, r.lines \o SetTmp(p, r.text), << >>), Tmp(p))
     ELSE Emission(l.lines \o r.lines,
                   IF e.k = "add" THEN Op("add", <<l.text, r.text>>)
                   ELSE Infix(e.k, l.text, r.text))

EmitInterpolation(e, p) ==
  LET ems == EmitOperands(e.s, p)
  IN Emission(LinesOf(ems), Concatenation(TextsOf(ems)))

\* The text of a string that is indexed is written twice.
EmitStrIndex(e, p) ==
  LET ems == EmitOperands(e.s, p)
  IN Emission(LinesOf(ems), Op("chr", <<ems[1].text, ems[1].text, ems[2].text>>))

EmitBlock(e, p) ==
  LET r == Emit(e.s[2], Append(p, 2))
  IN Emission(EmitStmts(e.s[1].s, Append(p, 1)) \o r.lines \o SetTmp(p, r.text), Tmp(p))

\* The condition is tested again for the else branch.
EmitIfTestedTwice(e, p) ==
  LET ems == EmitOperands(e.s, p)
      branch(j) == ems[j].lines \o SetTmp(p, ems[j].text)
  IN Emission(ems[1].lines \o IfLine(ems[1].text, branch(2), << >>) \o
              IfLine(Op("not", <<ems[1].text>>), branch(3), << >>), Tmp(p))
EmitIf(e, p) ==
  LET ems == EmitOperands(e.s, p)
      branch(j) == ems[j].lines \o SetTmp(p, ems[j].text)
  IN Emission(ems[1].lines \o IfLine(ems[1].text, branch(2), branch(3)), Tmp(p))

\* match on a number: 0 => ., 1 => ., i => . and on a Result: Ok(i) => .,
\* Err(i) => ..  The scrutinee's text is pasted into every test and binding.
EmitLiteralMatch(e, p) ==
  LET ems == EmitOperands(e.s, p)
      scrut == ems[1].text
      arm(j) == ems[j].lines \o SetTmp(p, ems[j].text)
      test(v) == Op("eq", <<scrut, Num(v)>>)
  IN Emission(ems[1].lines \o
              IfLine(test(0), arm(2),
                     IfLine(test(1), arm(3), Declare("i", scrut) \o arm(4))), Tmp(p))

EmitResultMatch(e, p) ==
  LET ems == EmitOperands(e.s, p)
      scrut == ems[1].text
      arm(j) == Declare("i", Op("payload", <<scrut>>)) \o ems[j].lines \o SetTmp(p, ems[j].text)
  IN Emission(ems[1].lines \o IfLine(Op("is_ok", <<scrut>>), arm(2), arm(3)), Tmp(p))

EmitTry(e, p) ==
  LET r == Emit(e.s[1], Append(p, 1))
  IN Emission(r.lines \o SetTmp(p, r.text) \o
              IfLine(Op("is_ok", <<Tmp(p)>>), << >>,
                     <<Line("return", <<Tmp(p)>>, << >>, "", << >>)>>),
              Op("payload", <<Tmp(p)>>))

EmitArrayLit(e, p) ==
  LET element(j) == LET r == Emit(e.s[j], Append(p, j)) IN
                    r.lines \o SetTmp(Append(p, j), r.text) \o
                    Do(Op("push", <<Tmp(p), Tmp(Append(p, j))>>))
  IN IF e.s = << >> THEN Emission(<< >>, Op("new", << >>))
     ELSE Emission(SetTmp(p, Op("new", << >>)) \o
                   Concat([j \in DOMAIN e.s |-> element(j)]), Tmp(p))

\* push and insert take the address of a value, remove_at the address of a
\* place for one, which are temporaries.  The index of insert stays a text.
EmitArrayPush(e, p) ==
  LET ops == InTmps(e.s, p) IN Emission(ops.lines, Text(e, ops.texts))
EmitInsert(e, p) ==
  LET ems == EmitOperands(e.s, p)
  IN Emission(ems[1].lines \o SetTmp(Append(p, 1), ems[1].text) \o ems[2].lines \o
              ems[3].lines \o SetTmp(Append(p, 3), ems[3].text),
              Op("insert", <<Tmp(Append(p, 1)), ems[2].text, Tmp(Append(p, 3))>>))
EmitRemoveAt(e, p) ==
  LET ems == EmitOperands(e.s, p)
  IN Emission(ems[1].lines \o SetTmp(Append(p, 1), ems[1].text) \o ems[2].lines \o
              SetTmp(p, Op("remove", <<Tmp(Append(p, 1)), ems[2].text>>)), Tmp(p))

\* fold(array, initial, call): the array, the initial value and the length
\* are read once, the callback runs for every element.
EmitFold(e, p) ==
  LET ops == InTmps(e.s, p)
      arr == ops.texts[1]
      idx == Append(p, 3)
      len == Append(p, 4)
      folded == Op("add", <<Tmp(p), [Op("call", <<Op("index", <<arr, Tmp(idx)>>)>>) EXCEPT !.v = e.v]>>)
  IN Emission(ops.lines \o SetTmp(p, ops.texts[2]) \o SetTmp(len, Op("len", <<arr>>)) \o
              <<Line("for", <<Num(0), Tmp(len)>>, idx, "", <<SetTmp(p, folded)>>)>>, Tmp(p))

Emit(e, p) ==
  CASE e.k = "lit" -> Emission(<< >>, Num(e.v))
    [] e.k = "var" -> Emission(<< >>, Name(e.n))
    [] e.k \in {"add", "eq", "lt", "and", "or"} -> EmitBinaryOp(e, p)
    [] e.k = "interp" -> EmitInterpolation(e, p)
    [] e.k = "chr" -> EmitStrIndex(e, p)
    [] e.k = "block" -> EmitBlock(e, p)
    [] e.k = "if" -> EmitIf(e, p)
    [] e.k = "match" -> EmitLiteralMatch(e, p)
    [] e.k = "rmatch" -> EmitResultMatch(e, p)
    [] e.k = "try" -> EmitTry(e, p)
    [] e.k = "array" -> EmitArrayLit(e, p)
    [] e.k = "push" -> EmitArrayPush(e, p)
    [] e.k = "insert" -> EmitInsert(e, p)
    [] e.k = "remove" -> EmitRemoveAt(e, p)
    [] e.k = "fold" -> EmitFold(e, p)
    [] OTHER -> EmitCall(e, p)

(***************************************************************************)
(* Statements.  A loop's body is its last part.                            *)
(***************************************************************************)
EmitPlaceStore(e, p) ==
  LET v == Emit(e.s[2], Append(p, 2))
      idx == Emit(e.s[1], Append(p, 1))
  IN v.lines \o idx.lines \o Do(Op(e.k, <<Op("place", <<Name("a"), idx.text>>), v.text>>))

EmitWhile(e, p) ==
  LET c == Emit(e.s[1], Append(p, 1))
  IN <<Line("while", <<c.text>>, << >>, "", <<c.lines, EmitStmts(e.s[2].s, Append(p, 2))>>)>>

EmitFor(e, p) ==
  LET ems == EmitOperands(<<e.s[1], e.s[2]>>, p)
  IN LinesOf(ems) \o
     <<Line("for", TextsOf(ems), p, "", <<Declare("i", Tmp(p)) \o EmitStmts(e.s[3].s, Append(p, 3))>>)>>

EmitForIn(e, p) ==
  LET it == Emit(e.s[1], Append(p, 1))
  IN it.lines \o
     <<Line("for", <<Num(0), Op("len", <<it.text>>)>>, p, "",
            <<Declare("i", Op("data", <<it.text, Tmp(p)>>)) \o EmitStmts(e.s[2].s, Append(p, 2))>>)>>

EmitStmt(e, p) ==
  LET r == Emit(e.s[1], Append(p, 1))
  IN CASE e.k = "set" -> r.lines \o Declare(e.n, r.text)
       [] e.k = "bump" -> r.lines \o Declare(e.n, Op("add", <<Name(e.n), r.text>>))
       [] e.k = "do" -> r.lines \o Do(r.text)
       [] e.k = "return" -> r.lines \o <<Line("return", <<r.text>>, << >>, "", << >>)>>
       [] e.k \in {"store", "bumpat"} -> EmitPlaceStore(e, p)
       [] e.k = "while" -> EmitWhile(e, p)
       [] e.k = "for" -> EmitFor(e, p)
       [] e.k = "forin" -> EmitForIn(e, p)

EmitStmts(es, p) == Concat([j \in DOMAIN es |-> EmitStmt(es[j], Append(p, j))])

(***************************************************************************)
(* Running the C text: the operands of an operator, a call or an           *)
(* initialiser in any order.                                               *)
(***************************************************************************)
RECURSIVE Run(_, _), InOrder(_, _, _, _), RunLines(_, _), RunLoop(_, _, _)

Orders(n) == {o \in [1 .. n -> 1 .. n] : \A j, k \in 1 .. n : o[j] = o[k] => j = k}

\* The outcomes of the texts from the j-th of an order on.
InOrder(ts, o, j, at) ==
  IF j > Len(ts) THEN {at}
  ELSE UNION {InOrder(ts, o, j + 1, [v |-> [at.v EXCEPT ![o[j]] = r.v], s |-> r.s])
              : r \in Run(ts[o[j]], at.s)}

RunOperands(ts, s) ==
  UNION {InOrder(ts, o, 1, [v |-> [j \in DOMAIN ts |-> <<0>>], s |-> s]) : o \in Orders(Len(ts))}

Run(t, s) ==
  IF ~Running(s) THEN {Stopped(s)}
  ELSE CASE t.k = "num" -> {Out(<<t.v>>, s)}
         [] t.k = "name" -> {Out(s.vars[t.n], s)}
         [] t.k = "tmp" -> {Out(s.tmps[t.p], s)}
         [] OTHER ->
              {IF ~Running(r.s) THEN Stopped(r.s)
               ELSE CASE t.k = "is_ok" -> Out(<<r.v[1][1]>>, r.s)
                      [] t.k = "payload" -> Out(<<r.v[1][2]>>, r.s)
                      [] OTHER -> Apply(t, r.v, r.s)
               : r \in RunOperands(t.s, s)}

Holding(s, p, v) == [s EXCEPT !.tmps = (p :> v) @@ @]

\* The states after one line.
RunLine(l, s) ==
  CASE l.l = "for" ->
         UNION {IF Running(r.s) THEN RunLoop(l, Holding(r.s, l.p, r.v), MaxTurns) ELSE {r.s}
                : r \in Run(l.t[1], s)}
    [] l.l = "while" -> RunLoop(l, s, MaxTurns)
    [] OTHER ->
         UNION {IF ~Running(r.s) THEN {r.s}
                ELSE CASE l.l = "set" -> {Holding(r.s, l.p, r.v)}
                       [] l.l = "let" -> {Bind(r.s, l.n, r.v)}
                       [] l.l = "do" -> {r.s}
                       [] l.l = "return" -> {ReturnFrom(r.s, r.v)}
                       [] l.l = "if" -> RunLines(IF r.v = <<1>> THEN l.b[1] ELSE l.b[2], r.s)
                : r \in Run(l.t[1], s)}

RunLines(ls, s) ==
  IF ls = << >> \/ ~Running(s) THEN {s}
  ELSE UNION {RunLines(Tail(ls), s1) : s1 \in RunLine(Head(ls), s)}

\* A for's condition is its second text; a while's lines precede its text.
RunLoop(l, s, turns) ==
  LET isFor == l.l = "for"
      tests == IF isFor
               THEN {Out(Truth(s.tmps[l.p][1] < r.v[1]), r.s) : r \in Run(l.t[2], s)}
               ELSE UNION {Run(l.t[1], s1) : s1 \in RunLines(l.b[1], s)}
      body == IF isFor THEN l.b[1] ELSE l.b[2]
      next(s1) == IF isFor THEN Holding(s1, l.p, <<s1.tmps[l.p][1] + 1>>) ELSE s1
  IN UNION {IF ~Running(r.s) \/ r.v = <<0>> THEN {r.s}
            ELSE IF turns = 0 THEN {[r.s EXCEPT !.st = "spin"]}
            ELSE UNION {IF Running(s1) THEN RunLoop(l, next(s1), turns - 1) ELSE {s1}
                        : s1 \in RunLines(body, r.s)}
            : r \in tests}
=============================================================================
