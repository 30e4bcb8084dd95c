------------------------------ MODULE FrontEnd ------------------------------
(***************************************************************************)
(* The middle of the compiler (main.rs): a program that was parsed is      *)
(* analyzed, lowered and verified, and only then given to a backend.       *)
(*                                                                         *)
(* The parser is taken as a source of programs: a term grows from an atom  *)
(* by being put into larger expressions, and becomes a part of the body of *)
(* a function that is declared after Decls.  A term no function could      *)
(* contain is not grown further, as an error in a part is one of the whole.*)
(***************************************************************************)
EXTENDS Lowering

CONSTANTS Decls,          \* the declarations before the function
          Atoms,          \* the terms to begin with
          Wraps(_),       \* the terms a term may be a part of
          Bodies(_, _),   \* the bodies a term may be a part of, in a function of a signature
          Signatures,     \* the function's parameters, result and purity
          Probe,          \* the signature that admits most: impure, returning a Result
          Expected,       \* the types a term may be checked against
          MaxDepth        \* how often a term may be wrapped

VARIABLES phase,          \* "parsing", "failed", "checked", "panicked", "lowered", "verified"
                          \* or "internal_error"
          term, depth,    \* the term so far
          fn,             \* the function under compilation
          ir              \* its body after lowering

vars == <<phase, term, depth, fn, ir>>

Info == Collect(Decls, NoInfo)
NoFn == [k |-> "none"]

Init ==
  /\ phase = "parsing" /\ term \in Atoms /\ depth = 0
  /\ fn = NoFn /\ ir = Panicked

\* Some function could contain the term, if one of Probe's signature could.
Plausible(e) ==
  LET cx == [Context(Info, Probe.ret, Probe.pure) EXCEPT !.scopes = <<ParamScope(Probe.members)>>]
  IN  \E t \in Expected : Ok(Check(e, t, cx))

ParseTerm ==
  /\ phase = "parsing" /\ depth < MaxDepth
  /\ term' \in {e \in Wraps(term) : Plausible(e)}
  /\ depth' = depth + 1
  /\ UNCHANGED <<phase, fn, ir>>

\* The declarations are collected with the function among them, so that it may call itself.
Table(f) == CollectDecl(Info, f)

\* The function is parsed and the program analyzed.
AnalyzeFn ==
  /\ phase = "parsing"
  /\ \E sig \in Signatures : \E b \in Bodies(term, sig) :
       LET f == [k |-> "fn", n |-> "f", members |-> sig.members, ret |-> sig.ret, pure |-> sig.pure,
                 body |-> Node("block", "", None, b)]
       IN /\ phase' = IF Analyze(Append(Decls, f)) THEN "checked" ELSE "failed"
          /\ fn' = IF phase' = "checked" THEN f ELSE NoFn
  /\ UNCHANGED <<term, depth, ir>>

LowerProgram ==
  /\ phase = "checked"
  /\ ir' = LowerFn(fn, Table(fn))
  /\ phase' = IF ir' = Panicked THEN "panicked" ELSE "lowered"
  /\ UNCHANGED <<term, depth, fn>>

VerifyProgram ==
  /\ phase = "lowered"
  /\ phase' = IF Verify(ir, 0, Table(fn)) THEN "verified" ELSE "internal_error"
  /\ UNCHANGED <<term, depth, fn, ir>>

Done ==
  /\ phase \in {"failed", "verified", "panicked", "internal_error"}
  /\ UNCHANGED vars

Next == ParseTerm \/ AnalyzeFn \/ LowerProgram \/ VerifyProgram \/ Done
Spec == Init /\ [][Next]_vars
-----------------------------------------------------------------------------
\* A type system for the representation, stated on its own: what each node demands of the
\* types of its parts, in an environment env of the visible names.
SignatureOf(x, env) ==
  IF x.c = "var" THEN [params |-> env[x.n][2], ret |-> env[x.n][3]] ELSE Table(fn).functions[x.n]
Fits(xs, tys) == Len(xs) = Len(tys) /\ \A i \in DOMAIN xs : IsCompatibleWith(xs[i].ty, tys[i])

CallFits(x, env) ==
  LET first == x.s[1].ty IN
  CASE x.c = "collection" ->
         LET in == Collection(x.n) IN
         IF in.op = "repeat" THEN x.ty = Array(first)
         ELSE /\ IsArray(first)
              /\ in.op \notin {"extend", "compare"} => Fits(Tail(x.s), CollectionArgs(in, first[2]))
              /\ x.ty = CollectionResult(in, first)
    [] x.n = "len" -> IsArray(first) /\ x.ty = I32
    [] x.n = "push" -> first[1] = "array" /\ IsCompatibleWith(x.s[2].ty, first[2])
    [] x.n = "pop" -> first[1] = "array" /\ x.ty = first[2]
    [] OTHER -> LET f == SignatureOf(x, env) IN Fits(x.s, f.params) /\ x.ty = f.ret

\* Every variant of the scrutinee has an arm.
Covered(x) ==
  LET patterns == {x.s[i].c : i \in 2..Len(x.s)}
      ty == x.s[1].ty
      variants == IF ty[1] = "enum" THEN Names(Table(fn).enums[ty[2]]) ELSE {"Ok", "Err"}
  IN \/ \E p \in patterns : p.k \in {"p_any", "p_ident"}
     \/ ty[1] \notin {"enum", "result"}
     \/ variants \subseteq {p.n : p \in {q \in patterns : q.k = "p_enum"}}

NodeFits(x, env) ==
  CASE x.k = "ident" -> x.c = "value" => x.ty = IF Known(env, x.n) THEN env[x.n] ELSE Table(fn).constants[x.n]
    [] x.k = "bin" -> x.ty = BinaryOpType(x.n, x.s[1].ty, x.s[2].ty)
    [] x.k = "un" -> x.ty = UnaryOpType(x.n, x.s[1].ty)
    [] x.k = "cast" -> <<x.s[1].ty, x.ty>> \in CastAllowed
    [] x.k = "call" -> CallFits(x, env)
    [] x.k = "if" -> x.s[1].ty = Bool /\ \A i \in 2..Len(x.s) : IsCompatibleWith(x.s[i].ty, x.ty)
    [] x.k = "match" -> Covered(x) /\ \A i \in 2..Len(x.s) : IsCompatibleWith(x.s[i].ty, x.ty)
    [] x.k = "try" -> IsCompatibleWith(x.s[1].ty[3], fn.ret[3])
    [] x.k = "array" -> \A i \in DOMAIN x.s : x.s[i].ty = x.ty[2]
    [] x.k = "struct" ->
         \A i \in DOMAIN x.s : IsCompatibleWith(x.s[i].ty, Member(Table(fn).structs[x.n], x.s[i].n)[1])
    [] x.k = "ctor" ->
         IF x.ty[1] = "enum" THEN Fits(x.s, Member(Table(fn).enums[x.ty[2]], x.n))
         ELSE IsResult(x.ty) /\ Fits(x.s, <<IF x.n = "Ok" THEN x.ty[2] ELSE x.ty[3]>>)
    [] x.k = "arena" -> IsArenaSafe(x.ty)
    [] x.k \in {"let", "letmut"} -> ~Known(env, x.n) /\ IsCompatibleWith(x.s[1].ty, x.ty)
    [] x.k \in {"assign", "compound"} -> IsCompatibleWith(x.s[2].ty, x.s[1].ty)
    [] x.k = "while" -> x.s[1].ty = Bool
    [] x.k = "for" -> x.s[1].ty = I32 /\ x.s[2].ty = I32
    [] x.k = "forin" -> x.s[1].ty \in {Array(x.ty), FixedArray(x.ty, 2)}
    [] x.k = "return" -> IF x.s = << >> THEN fn.ret = Unit ELSE IsCompatibleWith(x.s[1].ty, fn.ret)
    [] OTHER -> TRUE

Extend(env, name, ty) == (name :> ty) @@ env
\* The names seen by part i of a node.
EnvOf(x, i, env) ==
  LET b == BindPattern([vars |-> env, info |-> Table(fn)], x.s[i].c, x.s[1].ty) IN
  CASE x.k = "match" /\ i > 1 -> b.vars
    [] IsLoopBody(x, i) /\ x.k # "while" -> Extend(env, x.n, x.ty)
    [] x.k = "block" -> [n \in DOMAIN env \cup {x.s[j].n : j \in {l \in 1..(i - 1) : x.s[l].k \in {"let", "letmut"}}} |->
                           IF Known(env, n) THEN env[n]
                           ELSE x.s[CHOOSE j \in 1..(i - 1) : x.s[j].k \in {"let", "letmut"} /\ x.s[j].n = n].ty]
    [] OTHER -> env

RECURSIVE WellTyped(_, _)
WellTyped(x, env) ==
  NodeFits(x, env) /\ \A i \in DOMAIN x.s : WellTyped(x.s[i], EnvOf(x, i, env))
-----------------------------------------------------------------------------
\* Where analysis and lowering look at different contextual types: "given" where both see
\* the written type, "none" where neither sees one, "tail" where only analysis does (the
\* value of the function), "stale" where lowering still sees that of the surroundings.
ContextOf(e, i, ctx) ==
  CASE \/ e.k \in {"ctor", "struct", "init", "let", "letmut", "return"}
       \/ e.k = "assign" /\ i = 2
       \/ /\ e.k = "call" /\ e.n \notin {"len", "push", "pop"}
          /\ i > 1 \/ ~IsCollection(e.n) \/ Collection(e.n).source # None -> "given"
    [] \/ e.k = "block" /\ HasTail(e) /\ i = Len(e.s)
       \/ e.k \in {"arm", "arena"}
       \/ e.k \in {"if", "match"} /\ i > 1 -> ctx
    [] e.k = "call" /\ e.n = "push" /\ i = 2 -> "stale"
    [] OTHER -> IF ctx = "tail" THEN "none" ELSE IF ctx = "given" THEN "stale" ELSE ctx

\* A literal that takes its type from such a place, or a pop, whose type lowering forgets.
RECURSIVE Misjudged(_, _)
Misjudged(e, ctx) ==
  \/ e.k = "call" /\ e.n = "pop"
  \/ e.k = "array" /\ ctx \in {"tail", "stale"}
  \/ e.k = "ctor" /\ e.t = <<"result">> /\ ctx = "stale"
  \/ \E i \in DOMAIN e.s : Misjudged(e.s[i], ContextOf(e, i, ctx))

ParamTypesOf(f) == [p \in DOMAIN ParamScope(f.members) |-> ResolveType(Member(f.members, p)[1], Table(f))]

\* What analysis accepts lowering turns into a well-typed body: it finds the same types
\* again, every match has an arm for every value, no name is bound twice along a path, and
\* neither an internal error nor a panic ends the compilation.  Literals in the places where
\* the two passes look at different contexts are left out.
LoweredAsChecked ==
  phase \in {"lowered", "panicked", "internal_error"} /\ ~Misjudged(fn.body, "tail") =>
    /\ phase = "lowered"
    /\ WellTyped(ir, ParamTypesOf(fn))
    /\ IsCompatibleWith(ir.ty, fn.ret)
    /\ Verify(ir, 0, Table(fn))

\* Whether a call of the representation is one of something impure, or gives something
\* impure to an intrinsic that calls it.
ImpureCall(x, env) ==
  CASE x.c = "collection" ->
         \/ ~IsPureCollection(Collection(x.n))
         \/ \E i \in DOMAIN x.s : IsFnPtr(x.s[i].ty) /\ ~x.s[i].ty[4]
    [] x.n \in {"push", "pop"} -> TRUE
    [] x.n = "len" -> FALSE
    [] x.c = "var" -> Known(env, x.n) /\ ~env[x.n][4]
    [] OTHER -> ~Table(fn).functions[x.n].pure

\* A function pointer that claims to be pure while what it was made from is not.
HidesImpurity(x) == x.k \in {"let", "letmut"} /\ IsFnPtr(x.ty) /\ x.ty[4] /\ ~x.s[1].ty[4]

\* An interpolated string that is built: more than one part, or a number to convert.
Builds(x) ==
  \/ Cardinality({i \in DOMAIN x.s : x.s[i].k # "text" \/ x.s[i].n # ""}) > 1
  \/ \E i \in DOMAIN x.s : x.s[i].k # "text" /\ x.s[i].ty \in Numeric

RECURSIVE CallsOut(_, _)
CallsOut(x, env) ==
  \/ x.k = "call" /\ ImpureCall(x, env)
  \/ x.k \in {"arena", "defer"} \/ HidesImpurity(x)
  \/ x.k = "interp" /\ Builds(x)
  \/ \E i \in DOMAIN x.s : CallsOut(x.s[i], EnvOf(x, i, env))

\* A function declared without the mark of effects calls nothing impure, by name, through a
\* pointer or as a callback; it opens no arena block, defers nothing and builds no string.
\* This is all that the analysis means by pure: such a function may allocate an array by a
\* literal, and store into an array it was given.
PureCallsPure == phase = "lowered" /\ fn.pure => ~CallsOut(ir, ParamTypesOf(fn))

\* Part i of a node is the target of an assignment.
IsTarget(x, i) == x.k \in {"assign", "compound"} /\ i = 1

\* No hole of x calls something impure.  The analysis looks neither at the target of an
\* assignment in a hole nor, in env, at the names the hole itself binds.
RECURSIVE HolesQuiet(_, _, _)
HolesQuiet(x, env, hole) ==
  /\ hole /\ x.k = "call" => ~ImpureCall(x, env)
  /\ \A i \in {j \in DOMAIN x.s : ~(hole /\ IsTarget(x, j))} :
       HolesQuiet(x.s[i], IF hole THEN env ELSE EnvOf(x, i, env), hole \/ x.k = "interp")

\* The hole of an interpolated string calls nothing impure, in an impure function too,
\* whatever blocks, branches and loops are in it.  docs/guide.md states this without
\* exception; semantic.rs makes two, which are taken out here: the index of the target
\* of an assignment in the hole, and a call of a pointer that the hole itself binds.
HolesPure == phase = "lowered" => HolesQuiet(ir, ParamTypesOf(fn), FALSE)
=============================================================================
