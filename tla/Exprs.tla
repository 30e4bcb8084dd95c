-------------------------------- MODULE Exprs --------------------------------
(***************************************************************************)
(* One program, two code generators: an expression grows from the inside   *)
(* out, is made a statement, and the statement is translated by the C      *)
(* backend and by the native ones and run from the same state.             *)
(*                                                                         *)
(* The programs are those semantic analysis lets through: typed, and with  *)
(* no name bound twice.  Calls carry different numbers.                    *)
(***************************************************************************)
EXTENDS CExprs, NativeExprs, FiniteSets

CONSTANTS MaxDepth,   \* how many times an expression is wrapped
          StmtDepth,  \* and how many before it becomes a statement other than x = e
          Starts      \* the states the statement may run in

VARIABLES expr,     \* the expression so far
          depth,    \* how often it was wrapped
          prog,     \* the statement, << >> before there is one
          native,   \* what the native code does
          c         \* the things the C code may do

vars == <<expr, depth, prog, native, c>>

(***************************************************************************)
(* The programs.                                                           *)
(***************************************************************************)
Lit(v) == Node("lit", "int", v, << >>)
Var(n) == Node("var", n, 0, << >>)
Form(k, s) == Node(k, "", 0, s)
Call(mark, s) == Node("call", "", mark, s)
Fetch(mark, e) == Node("fetch", "", mark, <<e>>)
Assign(n, e) == Node("set", n, 0, <<e>>)
Block(st, e) == Form("block", <<Form("stmts", st), e>>)

RECURSIVE Ty(_), Binds(_)
Ty(e) == CASE e.k = "lit" -> e.n
           [] e.k = "var" -> IF e.n = "a" THEN "arr" ELSE "int"
           [] e.k \in {"eq", "lt", "not", "and", "or"} -> "bool"
           [] e.k = "fetch" -> "res"
           [] e.k = "call" -> Ty(e.s[1])
           [] e.k = "array" -> "arr"
           [] e.k \in {"tuple", "interp"} -> "str"
           [] e.k \in {"if", "block", "match", "rmatch"} -> Ty(e.s[2])
           [] OTHER -> "int"
Binds(e) == e.k \in {"match", "rmatch"} \/ \E j \in DOMAIN e.s : Binds(e.s[j])

Atoms == {Lit(0), Lit(2), Var("x"), Var("a"), Call(1, <<Lit(2)>>), Fetch(2, Lit(0)), Fetch(2, Lit(2))}

\* The operands beside e: they may be pure, read x, or have an effect.
Ints(d) == {Lit(1), Var("x"), Call(10 + d, <<Lit(0)>>), Block(<<Assign("x", Lit(2))>>, Lit(1))}
Bools(d) == {Form("lt", <<Var("x"), Lit(2)>>), Form("eq", <<Lit(0), Call(20 + d, <<Lit(0)>>)>>)}

Around(k, e, os) == {Form(k, <<e, o>>) : o \in os} \cup {Form(k, <<o, e>>) : o \in os}

WrapInt(e, d) ==
  UNION {Around(k, e, Ints(d)) : k \in {"add", "eq", "lt"}}
  \cup UNION {Around(k, e, {Call(10 + d, <<Lit(0)>>)}) : k \in {"tuple", "interp", "array"}}
  \cup {Call(30 + d, <<e>>), Fetch(30 + d, e)}
  \cup {Form(k, <<Var("a"), e>>) : k \in {"index", "remove"}}
  \cup {Node("fold", "", 30 + d, <<Var("a"), e>>)}
  \cup {Form("if", <<b, e, Lit(1)>>) : b \in Bools(d)}
  \cup {Block(<<Assign("x", e)>>, o) : o \in Ints(d)}
  \cup {Block(<<Form("do", <<Form("push", <<Var("a"), e>>)>>)>>, Var("x"))}
  \cup {Form("match", <<e, Lit(1), Call(10 + d, <<Lit(0)>>), Var("i")>>)}
  \cup IF Binds(e) THEN {}
       ELSE {Form("match", <<o, e, Lit(1), Var("i")>>) : o \in {Lit(0), Var("x")}}

WrapBool(e, d) ==
  UNION {Around(k, e, Bools(d)) : k \in {"and", "or", "eq"}}
  \cup {Form("not", <<e>>), Form("if", <<e, Lit(1), Call(10 + d, <<Lit(0)>>)>>)}

WrapOther(e, d) ==
  CASE Ty(e) = "res" -> {Form("try", <<e>>), Form("rmatch", <<e, Var("i"), Lit(1)>>)}
    [] Ty(e) = "arr" -> {Form("len", <<e>>), Form("index", <<e, Var("x")>>)}
    [] Ty(e) = "str" -> {Form("chr", <<e, Lit(0)>>), Call(30 + d, <<e>>)}
    [] OTHER -> {}

Wraps(e, d) == CASE Ty(e) = "int" -> WrapInt(e, d) [] Ty(e) = "bool" -> WrapBool(e, d)
                 [] OTHER -> WrapOther(e, d)

Bodies == {<<Form("do", <<Call(5, <<Var("i")>>)>>)>>,
           <<Form("do", <<Form("push", <<Var("a"), Var("x")>>)>>)>>,
           <<Form("store", <<Lit(0), Var("x")>>)>>,
           <<Node("bump", "x", 0, <<Lit(1)>>), Form("do", <<Call(5, <<Var("x")>>)>>)>>}

\* The statements an expression can become.
StatementsOf(e) ==
  CASE Ty(e) = "int" ->
         {Node("bump", "x", 0, <<e>>), Form("return", <<e>>),
          Form("do", <<Form("push", <<Var("a"), e>>)>>)}
         \cup {Form(k, <<e, Lit(1)>>) : k \in {"store", "bumpat"}}
         \cup {Form(k, <<Lit(0), e>>) : k \in {"store", "bumpat"}}
         \cup {Form(k, <<Var("x"), e>>) : k \in {"store", "bumpat"}}
         \cup {Form("do", <<Form("insert", <<Var("a"), e, Call(6, <<Lit(0)>>)>>)>>),
               Form("do", <<Form("insert", <<Var("a"), Var("x"), e>>)>>)}
         \cup {Form("for", <<Lit(0), e, Form("stmts", b)>>) : b \in Bodies}
         \cup {Form("for", <<e, Lit(2), Form("stmts", b)>>) : b \in Bodies}
    [] Ty(e) = "bool" ->
         {Form("while", <<e, Form("stmts", b)>>) : b \in Bodies}
    [] Ty(e) = "arr" ->
         {Assign("a", e)} \cup {Form("forin", <<e, Form("stmts", b)>>) : b \in Bodies}
    [] OTHER -> {Form("do", <<e>>)}

Statements(e, d) ==
  {CASE Ty(e) = "int" -> Assign("x", e) [] Ty(e) = "bool" -> Form("return", <<e>>)
     [] OTHER -> Form("do", <<e>>)}
  \cup IF d <= StmtDepth THEN StatementsOf(e) ELSE {}

(***************************************************************************)
(* What a node reads and writes: a variable, the length or the elements of *)
(* an array, or what the program has printed.  A panic cuts the output     *)
(* short, so whatever may panic reads it.                                  *)
(***************************************************************************)
OwnReads(e) ==
  CASE e.k = "var" -> {e.n}
    [] e.k = "bump" -> {e.n}
    [] e.k = "len" -> {"len"}
    [] e.k = "index" -> {"len", "elems", "out"}
    [] e.k \in {"store", "bumpat"} -> {"a", "len", "elems", "out"}
    [] e.k \in {"insert", "remove", "push"} -> {"len", "elems", "out"}
    [] e.k \in {"fold", "forin"} -> {"len", "elems"}
    [] OTHER -> {}
OwnWrites(e) ==
  CASE e.k \in {"call", "fetch", "fold"} -> {"out"}
    [] e.k \in {"set", "bump"} -> {e.n}
    [] e.k \in {"store", "bumpat"} -> {"elems"}
    [] e.k \in {"insert", "remove", "push"} -> {"len", "elems"}
    [] OTHER -> {}
RECURSIVE Reads(_), Writes(_)
Reads(e) == OwnReads(e) \cup UNION {Reads(e.s[j]) : j \in DOMAIN e.s}
Writes(e) == OwnWrites(e) \cup UNION {Writes(e.s[j]) : j \in DOMAIN e.s}

Apart(e, f) == /\ Writes(e) \cap (Reads(f) \cup Writes(f)) = {}
               /\ Writes(f) \cap Reads(e) = {}

\* The text the C backend is left with is a temporary.
Hoisted(e) == e.k \in {"and", "or", "if", "block", "match", "rmatch", "array", "remove", "fold", "try"}
\* A text that may be pasted twice.
Repeatable(e) == Hoisted(e) \/ Writes(e) = {}

(***************************************************************************)
(* The programs C's freedom does not reach: operands that go into one text *)
(* do not meet in what they touch, a text that is pasted twice has no      *)
(* effect, a loop's header does not depend on its body, and no equality    *)
(* stands to the right of an equality.                                     *)
(***************************************************************************)
RECURSIVE Steady(_)
Steady(e) ==
  /\ \A j \in DOMAIN e.s : Steady(e.s[j])
  /\ e.k \in {"add", "eq", "lt", "tuple", "interp", "index", "chr", "call", "fetch", "store", "bumpat"} =>
       \A j, k \in DOMAIN e.s : j < k => Apart(e.s[j], e.s[k])
  /\ e.k = "insert" => Apart(e.s[2], e.s[3])
  /\ e.k = "eq" => e.s[2].k # "eq"
  /\ e.k \in {"chr", "match", "rmatch"} => Repeatable(e.s[1])
  /\ e.k = "bump" => e.n \notin Writes(e.s[1])
  /\ e.k = "bumpat" => Clonable(e.s[1])
  /\ e.k \in {"store", "bumpat"} =>
       Writes(e.s[1]) \cap {"a", "len"} = {} /\ Writes(e.s[2]) \cap {"a", "len", "out"} = {}
  /\ e.k = "for" =>
       /\ Apart(e.s[1], e.s[2]) /\ Repeatable(e.s[2])
       /\ Hoisted(e.s[2]) \/ Reads(e.s[2]) \cap Writes(e.s[3]) = {}
  /\ e.k = "forin" =>
       /\ Repeatable(e.s[1])
       /\ Hoisted(e.s[1]) \/ (Reads(e.s[1]) \cup {"len"}) \cap Writes(e.s[2]) = {}

(***************************************************************************)
(* The machine.                                                            *)
(***************************************************************************)
Init == /\ expr \in Atoms
        /\ depth = 0
        /\ prog = << >>
        /\ native = << >>
        /\ c = {}

Wrap == /\ prog = << >> /\ depth < MaxDepth
        /\ expr' \in Wraps(expr, depth)
        /\ depth' = depth + 1
        /\ UNCHANGED <<prog, native, c>>

Translate ==
  /\ prog = << >>
  /\ \E st \in Statements(expr, depth), start \in Starts :
       /\ prog' = <<st>>
       /\ native' = <<Observed(LowerStmts(<<st>>, start))>>
       /\ c' = {Observed(s) : s \in RunLines(EmitStmts(<<st>>, << >>), start)}
  /\ UNCHANGED <<expr, depth>>

Next == Wrap \/ Translate
Spec == Init /\ [][Next]_vars

(***************************************************************************)
(* Properties.                                                             *)
(***************************************************************************)

\* A program whose operands do not get in each other's way does one thing, and
\* the same thing whichever backend compiles it: hoisting an operand out of a
\* text (codegen.rs emit_expr) keeps guards, early returns and results.
BackendsAgree ==
  prog # << >> /\ Steady(prog[1]) => c = {native[1]}

\* A call the source makes once is made once, in either backend and in
\* whatever order: outside loops no text with a call is pasted twice.
Loops(e) == e.k \in {"for", "forin", "while"}
RECURSIVE PastesOnce(_)
PastesOnce(e) == /\ e.k \in {"chr", "match", "rmatch"} => Repeatable(e.s[1])
                 /\ \A j \in DOMAIN e.s : PastesOnce(e.s[j])
RECURSIVE Folds(_)
Folds(e) == e.k = "fold" \/ \E j \in DOMAIN e.s : Folds(e.s[j])
CallsOnce ==
  prog # << >> /\ ~Loops(prog[1]) /\ ~Folds(prog[1]) /\ PastesOnce(prog[1]) =>
    \A o \in c \cup {native[1]} : \A j, k \in DOMAIN o.out : o.out[j][1] = o.out[k][1] => j = k
=============================================================================
