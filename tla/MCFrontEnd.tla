----------------------------- MODULE MCFrontEnd -----------------------------
(***************************************************************************)
(* Programs for FrontEnd.  Every kind of expression and statement occurs,  *)
(* around operands of every kind of type.                                  *)
(***************************************************************************)
EXTENDS FrontEnd

E0(k, n) == Node(k, n, None, << >>)
E1(k, n, a) == Node(k, n, None, <<a>>)
E2(k, n, a, b) == Node(k, n, None, <<a, b>>)
Id(n) == E0("ident", n)
One == E0("int", "1")
Call(f, args) == Node("call", f, None, args)
Blk(items) == Node("block", "", None, items)
Lit(items) == Node("array", "", None, items)
Stmt(e) == E1("expr", "", e)
Let(n, t, e) == Node("let", n, t, <<e>>)
Pat(n, t, parts) == Node("p_enum", n, t, parts)
Wild == E0("p_any", "")
Var(n) == E0("p_ident", n)
Arm(p, e) == E2("arm", "", p, e)
Match(e, arms) == Node("match", "", None, <<e>> \o arms)
If(c, a, b) == Node("if", "", None, <<c, Blk(<<a>>), Blk(<<b>>)>>)
Ctor(n, t, args) == Node("ctor", n, t, args)
Res == <<"result">>
En == <<"enum", "En">>

Arr == Array(I32)
Two == FixedArray(I32, 2)
R == ResultT(I32, Str)
R2 == ResultT(Bool, Str)
Pure1 == FnPtr(<<I32>>, I32, TRUE)
Impure1 == FnPtr(<<I32>>, I32, FALSE)
Pred == FnPtr(<<I32>>, Bool, TRUE)

Decl(k, n, members, ret, pure, body) ==
  [k |-> k, n |-> n, members |-> members, ret |-> ret, pure |-> pure, body |-> body]
MCDecls ==
  <<Decl("struct", "St", <<<<"x", <<I32>>>>, <<"xs", <<Arr>>>>>>, Unit, TRUE, Blk(<< >>)),
    Decl("enum", "En", <<<<"A", << >>>>, <<"B", <<I32>>>>>>, Unit, TRUE, Blk(<< >>)),
    Decl("const", "k", << >>, I32, TRUE, One),
    Decl("extern", "ext", <<<<"x", <<I32>>>>>>, I32, FALSE, Blk(<< >>)),
    Decl("fn", "inc", <<<<"x", <<I32>>>>>>, I32, TRUE, Blk(<<Id("x")>>)),
    Decl("fn", "log", <<<<"x", <<I32>>>>>>, I32, FALSE, Blk(<<Id("x")>>)),
    Decl("fn", "odd", <<<<"x", <<I32>>>>>>, Bool, TRUE, Blk(<<E0("bool", "true")>>)),
    Decl("fn", "sum", <<<<"xs", <<Arr>>>>>>, I32, TRUE, Blk(<<One>>))>>

Params ==
  <<<<"c", <<Bool>>>>, <<"i", <<I32>>>>, <<"s", <<Str>>>>, <<"a", <<Arr>>>>, <<"w", <<Two>>>>,
    <<"r", <<R>>>>, <<"st", <<Struct("St")>>>>, <<"en", <<En>>>>, <<"g", <<Pure1>>>>, <<"h", <<Impure1>>>>,
    <<"m", <<Arr>>>>>>
MCSignatures ==
  {[members |-> Params, ret |-> t, pure |-> p] :
     t \in {Unit, I32, Arr, Two, R, Impure1}, p \in BOOLEAN}
MCProbe == [members |-> Params, ret |-> R, pure |-> FALSE]
MCExpected == {None, Arr, Two, R2, Impure1}

MCAtoms ==
  {One, E0("int", "big"), E0("str", "t"), E0("bool", "true"), Lit(<< >>), Lit(<<One>>), Lit(<<One, One>>)}
  \cup {Id(n) : n \in {"i", "c", "s", "a", "w", "r", "st", "en", "g", "h", "inc", "log", "odd", "ext"}}

Operators(e) ==
  {E2("bin", "add", e, Id("i")), E2("bin", "lt", Id("i"), e), E2("bin", "eq", e, e),
   E2("bin", "and", e, Id("c")), E1("un", "neg", e), E1("un", "not", e), Node("cast", "", I64, <<e>>),
   E1("field", "x", e), E1("field", "xs", e), E2("index", "", e, Id("i")), E2("index", "", Id("a"), e)}
Calls(e) ==
  {Call(f, <<e>>) : f \in {"inc", "log", "ext", "sum", "g", "h", "len", "print", "i",
                           "array_clone", "sort_i32", "str_len"}}
  \cup {Call("array_slice", <<e, Id("i"), One>>), Call("array_repeat", <<e, One>>),
        Call("array_any_i32", <<Id("a"), e>>), Call("array_for_each_i32", <<Id("a"), e>>),
        Call("array_contains_i32", <<e, Id("i")>>), Call("array_compare_i32", <<Id("a"), e>>),
        Call("array_map_i32_to_str", <<Id("a"), e>>), Call("array_fill", <<Id("w"), e>>),
        Call("str_concat", <<Id("s"), e>>)}
Branches(e) ==
  {If(Id("c"), e, Lit(<<One>>)), If(Id("c"), e, Lit(<<One, One>>)), If(Id("c"), e, Id("i")),
   If(Id("c"), Id("log"), e), If(e, Id("inc"), Id("log")),
   Node("if", "", None, <<Id("c"), Blk(<<e>>)>>),
   Match(e, <<Arm(Pat("Ok", Res, <<Var("v")>>), Id("v")), Arm(Pat("Err", Res, <<Wild>>), One)>>),
   Match(e, <<Arm(Pat("Ok", Res, <<Var("v")>>), E2("bin", "lt", Id("v"), One)), Arm(Wild, Id("c"))>>),
   Match(e, <<Arm(Pat("Ok", Res, <<Var("v")>>), Id("v"))>>),
   Match(e, <<Arm(Pat("A", En, << >>), One), Arm(Pat("B", En, <<Var("v")>>), Id("v"))>>),
   Match(e, <<Arm(Pat("B", En, <<Var("v")>>), Id("v")), Arm(Var("z"), One)>>),
   Match(e, <<Arm(Pat("B", En, <<Var("v")>>), Id("v"))>>),
   Match(e, <<Arm(E0("p_int", "1"), One), Arm(Wild, Id("i"))>>),
   Match(Id("en"), <<Arm(Pat("A", En, << >>), e), Arm(Pat("B", En, <<Var("v")>>), Lit(<<Id("v")>>))>>),
   Match(Id("r"), <<Arm(Pat("Ok", Res, <<Var("v")>>), e), Arm(Pat("Err", Res, <<Var("x")>>), Ctor("Err", Res, <<Id("x")>>))>>)}
Makers(e) ==
  {E1("try", "", e), Lit(<<e>>), Lit(<<e, e>>),
   Node("struct", "St", None, <<E1("init", "x", Id("i")), E1("init", "xs", e)>>),
   Node("struct", "St", None, <<E1("init", "x", e), E1("init", "xs", Lit(<< >>))>>),
   Node("struct", "St", None, <<E1("init", "x", e)>>),
   Ctor("B", En, <<e>>), Ctor("Ok", Res, <<e>>), Ctor("Err", Res, <<e>>),
   Node("interp", "", None, <<E0("text", "t"), e>>), Node("interp", "", None, <<E0("text", ""), e>>)}
Blocks(e) ==
  {Blk(<<e>>), Blk(<<Stmt(e)>>), E1("arena", "", Blk(<<e>>)),
   Blk(<<Let("l", Impure1, e), Call("l", <<Id("i")>>)>>), Blk(<<Let("l", Arr, e), Call("sum", <<Id("l")>>)>>),
   Blk(<<Let("i", I32, e), Id("i")>>),
   Blk(<<Node("assign", "", None, <<E2("index", "", Id("w"), One), e>>), One>>),
   Blk(<<Node("assign", "", None, <<E2("index", "", Id("w"), Call("log", <<e>>)), One>>), One>>)}
MCWraps(e) == Operators(e) \cup Calls(e) \cup Branches(e) \cup Makers(e) \cup Blocks(e)

\* The bodies: the term as the tail, in a return, a let, an assignment, a loop, a defer.
Mut == Node("letmut", "n", Arr, <<Lit(<< >>)>>)
Results(e) == {<<e>>, <<Node("return", "", None, <<e>>), Id("i")>>}
Statements(e) ==
  {<<Stmt(e)>>, <<Mut, Node("assign", "", None, <<Id("n"), e>>)>>,
   <<Node("assign", "", None, <<E2("index", "", Id("w"), One), e>>)>>,
   <<Mut, Stmt(Call("push", <<Id("n"), e>>))>>, <<Mut, Stmt(Call("array_extend", <<Id("n"), e>>))>>,
   <<Node("letmut", "j", I32, <<Id("i")>>), Node("compound", "add", None, <<Id("j"), e>>)>>,
   <<Let("x", Two, e), Stmt(Id("x"))>>, <<Let("x", R2, e)>>, <<Let("x", Impure1, e)>>,
   <<E2("while", "", e, Blk(<<E0("break", "")>>))>>,
   <<Node("for", "q", None, <<Id("i"), e, Blk(<<Stmt(Id("q")), E0("continue", "")>>)>>)>>,
   <<E2("forin", "q", e, Blk(<<Stmt(E2("bin", "add", Id("q"), One))>>))>>,
   <<E1("defer", "", e)>>, <<E0("break", "")>>,
   <<Mut, Stmt(E1("arena", "", Blk(<<Node("assign", "", None, <<Id("n"), e>>)>>)))>>,
   <<Mut, Stmt(If(Id("c"), Call("pop", <<Id("n")>>), e))>>}
MCBodies(e, sig) == Results(e) \cup (IF sig.ret \in {Unit, R} THEN Statements(e) ELSE {})
=============================================================================
