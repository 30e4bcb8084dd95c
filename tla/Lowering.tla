------------------------------ MODULE Lowering ------------------------------
(***************************************************************************)
(* From the checked syntax to the typed intermediate representation        *)
(* (lower.rs), and the verifier of that representation (ir.rs).            *)
(*                                                                         *)
(* Lowering finds every type again.  Its context lx holds the tables, the  *)
(* types of the visible names, the function's result type and two          *)
(* contextual types: the array and the Result a literal may take its type  *)
(* from.  These are set where a type is written and otherwise left as they *)
(* are, so an operand sees what its surroundings expect.                   *)
(*                                                                         *)
(* An IR node keeps the syntax node's kind and name; c tells what a name   *)
(* refers to, ty is its cached type.  A node one of whose parts made the   *)
(* compiler panic is Panicked.                                             *)
(***************************************************************************)
EXTENDS Semantic

Panicked == [k |-> "panic", n |-> "", c |-> "", ty |-> <<"panic">>, s |-> << >>]
IR(k, n, c, ty, s) ==
  IF \E i \in DOMAIN s : s[i] = Panicked THEN Panicked
  ELSE [k |-> k, n |-> n, c |-> c, ty |-> ty, s |-> s]

LowerContext(info, ret) ==
  [info |-> info, vars |-> << >>, ret |-> ret, array |-> None, result |-> None]

\* The innermost binding of a name hides the others.
BindVar(lx, name, ty) == [lx EXCEPT !.vars = (name :> ty) @@ @]
LookupType(lx, name) ==
  IF Known(lx.vars, name) THEN lx.vars[name]
  ELSE IF Known(lx.info.constants, name) THEN lx.info.constants[name] ELSE None

\* push_expected_type.
Expecting(lx, ty) ==
  [lx EXCEPT !.array = IF IsArray(ty) THEN ty ELSE None,
             !.result = IF IsResult(ty) THEN ty ELSE None]

\* resolve_callee and the purity-independent signature it has.
ResolveCallee(lx, name) ==
  IF IsCollection(name) THEN "collection"
  ELSE IF LookupType(lx, name)[1] = "fn" THEN "var" ELSE "named"

\* param_types_for: what is known of the arguments' types, << >> if nothing.
ParamTypes(lx, name) ==
  CASE IsCollection(name) ->
         LET in == Collection(name) IN
         IF in.source = None THEN << >>
         ELSE <<Array(in.source)>> \o
              (IF in.op = "compare" THEN <<Array(in.source)>> ELSE CollectionArgs(in, in.source))
    [] LookupType(lx, name)[1] = "fn" -> LookupType(lx, name)[2]
    [] Known(lx.info.functions, name) -> lx.info.functions[name].params
    [] OTHER -> << >>

\* call_result_type: pop is not among the names it knows.
CallResultType(lx, name, args) ==
  LET first == IF args = << >> THEN Unit ELSE args[1].ty
      array == IF IsArray(first) THEN first ELSE Array(Unit)
  IN CASE IsCollection(name) ->
            LET in == Collection(name) IN
            IF in.op = "repeat" THEN Array(first)
            ELSE IF in.op = "clone" THEN first ELSE CollectionResult(in, array)
       [] name = "len" -> I32
       [] name = "push" -> Unit
       [] LookupType(lx, name)[1] = "fn" -> LookupType(lx, name)[3]
       [] Known(lx.info.functions, name) -> lx.info.functions[name].ret
       [] OTHER -> Unit

\* The join of branches, or a panic.
BranchType(types) ==
  LET t == JoinTypes(types, None) IN IF t = Err THEN Panicked.ty ELSE t
Branching(k, ty, s) == IF ty = Panicked.ty THEN Panicked ELSE IR(k, "", "", ty, s)

\* An array literal: fixed only where a fixed array of its size is expected.
LiteralType(lx, elements) ==
  IF elements = << >> THEN Array(IF lx.array = None THEN Unit ELSE lx.array[2])
  ELSE IF lx.array = FixedArray(elements[1].ty, Len(elements)) THEN lx.array
  ELSE Array(elements[1].ty)

\* The Result a constructor belongs to.
ContextResult(lx) == IF lx.result # None THEN lx.result ELSE lx.ret
PayloadContext(lx, e) ==
  IF e.t = <<"result">>
  THEN LET r == ContextResult(lx) IN
       IF IsResult(r) THEN <<IF e.n = "Ok" THEN r[2] ELSE r[3]>> ELSE << >>
  ELSE Member(lx.info.enums[e.t[2]], e.n)

FieldOrUnit(lx, ty, field) ==
  LET t == FieldType(lx, ty, field) IN IF t = Err THEN Unit ELSE t
ElementOrUnit(ty) == IF IsArray(ty) THEN ty[2] ELSE Unit

\* place_final_type.
RECURSIVE PlaceFinalType(_, _)
PlaceFinalType(place, lx) ==
  CASE place.k = "ident" -> LET t == LookupType(lx, place.n) IN IF t = None THEN Unit ELSE t
    [] place.k = "field" -> FieldOrUnit(lx, PlaceFinalType(place.s[1], lx), place.n)
    [] place.k = "index" -> ElementOrUnit(PlaceFinalType(place.s[1], lx))

\* The names a match arm binds.
RECURSIVE BindParts(_, _, _)
BindParts(lx, ps, ts) ==
  IF ps = << >> \/ ts = << >> THEN lx
  ELSE BindParts(IF Head(ps).k = "p_ident" THEN BindVar(lx, Head(ps).n, Head(ts)) ELSE lx,
                 Tail(ps), Tail(ts))
BindPattern(lx, p, ty) ==
  CASE p.k = "p_ident" -> BindVar(lx, p.n, ty)
    [] p.k = "p_enum" /\ ty[1] \in {"enum", "result"} -> BindParts(lx, p.s, PayloadTypes(lx, p, ty))
    [] OTHER -> lx
-----------------------------------------------------------------------------
RECURSIVE Lower(_, _), LowerSeq(_, _)
LowerAll(es, lx) == [i \in DOMAIN es |-> Lower(es[i], lx)]
\* lower_expr_with_expected, for the arguments whose types are known.
LowerArgs(es, tys, lx) ==
  [i \in DOMAIN es |-> Lower(es[i], IF i \in DOMAIN tys THEN Expecting(lx, tys[i]) ELSE lx)]

LowerBlock(b, lx) ==
  LET s == LowerSeq(b.s, lx) IN
  IR("block", "", "", IF HasTail(b) THEN s[Len(s)].ty ELSE Unit, s)

\* The arguments of a generic intrinsic: the first one in the context the call stands in,
\* the others against its element type.
LowerGenericArgs(in, es, lx) ==
  LET first == Lower(es[1], lx)
      tys == IF in.op = "extend" THEN <<Array(ElementOrUnit(first.ty))>>
             ELSE CollectionArgs(in, ElementOrUnit(first.ty))
  IN <<first>> \o LowerArgs(Tail(es), tys, lx)

LowerCall(e, lx) ==
  LET args == IF IsCollection(e.n) /\ Collection(e.n).source = None
              THEN LowerGenericArgs(Collection(e.n), e.s, lx)
              ELSE LowerArgs(e.s, ParamTypes(lx, e.n), lx)
  IN IR("call", e.n, ResolveCallee(lx, e.n), CallResultType(lx, e.n, args), args)

LowerIdent(e, lx) ==
  LET t == LookupType(lx, e.n) IN
  CASE t # None -> IR("ident", e.n, "value", t, << >>)
    [] Known(lx.info.functions, e.n) ->
         LET f == lx.info.functions[e.n] IN IR("ident", e.n, "fnref", FnPtr(f.params, f.ret, f.pure), << >>)
    [] OTHER -> IR("ident", e.n, "value", Unit, << >>)

LowerIf(e, lx) ==
  LET s == <<Lower(e.s[1], lx), LowerBlock(e.s[2], lx)>>
           \o LowerAll(SubSeq(e.s, 3, Len(e.s)), lx)
  IN Branching("if", IF Len(s) = 3 THEN BranchType(<<s[2].ty, s[3].ty>>) ELSE Unit, s)

\* An arm keeps its pattern.
LowerMatchArm(arm, ty, lx) ==
  LET body == Lower(arm.s[2], BindPattern(lx, arm.s[1], ty)) IN IR("arm", "", arm.s[1], body.ty, <<body>>)
LowerMatch(e, lx) ==
  LET scrutinee == Lower(e.s[1], lx)
      arms == [i \in 1..(Len(e.s) - 1) |-> LowerMatchArm(e.s[i + 1], scrutinee.ty, lx)]
  IN Branching("match", IF arms = << >> THEN Unit ELSE BranchType([i \in DOMAIN arms |-> arms[i].ty]),
               <<scrutinee>> \o arms)

LowerField(init, ty, lx) ==
  LET v == Lower(init.s[1], Expecting(lx, ty)) IN IR("init", init.n, "", v.ty, <<v>>)
LowerStructLit(e, lx) ==
  LET fields == lx.info.structs[e.n] IN
  IR("struct", e.n, "", Struct(e.n),
     [i \in DOMAIN e.s |-> LowerField(e.s[i], Member(fields, e.s[i].n)[1], lx)])

LowerConstructor(e, lx) ==
  IR("ctor", e.n, "", IF e.t = <<"result">> THEN ContextResult(lx) ELSE e.t,
     LowerArgs(e.s, PayloadContext(lx, e), lx))

OperatorType(op, l) ==
  IF op \in {"eq", "neq", "lt", "gteq", "and", "or", "not"} THEN Bool ELSE l

\* lower_expr.
LowerExpr(e, lx) ==
  CASE e.k = "int" -> IR("int", e.n, "", I32, << >>)
    [] e.k = "float" -> IR("float", e.n, "", F64, << >>)
    [] e.k \in {"str", "text"} -> IR(e.k, e.n, "", Str, << >>)
    [] e.k = "bool" -> IR("bool", e.n, "", Bool, << >>)
    [] e.k = "interp" -> IR("interp", "", "", Str, LowerAll(e.s, lx))
    [] e.k = "ident" -> LowerIdent(e, lx)
    [] e.k \in {"bin", "un"} ->
         LET s == LowerAll(e.s, lx) IN IR(e.k, e.n, "", OperatorType(e.n, s[1].ty), s)
    [] e.k = "cast" -> IR("cast", "", "", e.t, LowerAll(e.s, lx))
    [] e.k = "call" -> LowerCall(e, lx)
    [] e.k = "field" -> LET s == LowerAll(e.s, lx) IN IR("field", e.n, "", FieldOrUnit(lx, s[1].ty, e.n), s)
    [] e.k = "index" ->
         LET s == LowerAll(e.s, lx) IN
         IR("index", "", "", IF s[1].ty = Str THEN I32 ELSE ElementOrUnit(s[1].ty), s)
    [] e.k = "block" -> LowerBlock(e, lx)
    [] e.k = "arena" -> LET b == LowerBlock(e.s[1], lx) IN IR("arena", "", "", b.ty, <<b>>)
    [] e.k = "if" -> LowerIf(e, lx)
    [] e.k = "match" -> LowerMatch(e, lx)
    [] e.k = "try" ->
         LET s == LowerAll(e.s, lx) IN IR("try", "", "", IF IsResult(s[1].ty) THEN s[1].ty[2] ELSE Unit, s)
    [] e.k = "array" -> LET s == LowerAll(e.s, lx) IN IR("array", "", "", LiteralType(lx, s), s)
    [] e.k = "struct" -> LowerStructLit(e, lx)
    [] e.k = "ctor" -> LowerConstructor(e, lx)

\* lower_place: the names and fields as they are, the indices lowered.
RECURSIVE LowerIndices(_, _)
LowerIndices(place, lx) ==
  IF place.k = "ident" THEN << >>
  ELSE LowerIndices(place.s[1], lx) \o LowerAll(Tail(place.s), lx)
LowerPlace(place, lx) ==
  IR("place", BaseName(place), place.k, PlaceFinalType(place, lx), LowerIndices(place, lx))

\* lower_stmt.
LowerStmt(st, lx) ==
  CASE st.k \in {"let", "letmut"} ->
         LET t == ResolveType(st.t, lx.info) IN IR(st.k, st.n, "", t, <<Lower(st.s[1], Expecting(lx, t))>>)
    [] st.k = "assign" ->
         IR("assign", "", "", Unit,
            <<LowerPlace(st.s[1], lx), Lower(st.s[2], Expecting(lx, PlaceFinalType(st.s[1], lx)))>>)
    [] st.k = "compound" -> IR("compound", st.n, "", Unit, <<LowerPlace(st.s[1], lx), Lower(st.s[2], lx)>>)
    [] st.k = "while" -> IR("while", "", "", Unit, <<Lower(st.s[1], lx), LowerBlock(st.s[2], lx)>>)
    [] st.k = "for" ->
         IR("for", st.n, "", I32,
            <<Lower(st.s[1], lx), Lower(st.s[2], lx), LowerBlock(st.s[3], BindVar(lx, st.n, I32))>>)
    [] st.k = "forin" ->
         LET over == Lower(st.s[1], lx)
             elem == IF IsArray(over.ty) THEN over.ty[2] ELSE I32
         IN IR("forin", st.n, "", elem, <<over, LowerBlock(st.s[2], BindVar(lx, st.n, elem))>>)
    [] st.k = "return" -> IR("return", "", "", Unit, LowerAll(st.s, Expecting(lx, lx.ret)))
    [] OTHER -> IR(st.k, st.n, "", Unit, LowerAll(st.s, lx))

Lower(e, lx) == IF IsExpr(e) THEN LowerExpr(e, lx) ELSE LowerStmt(e, lx)

\* A let is seen by what follows it.
LowerSeq(items, lx) ==
  IF items = << >> THEN << >>
  ELSE LET st == Head(items) IN
       <<Lower(st, lx)>> \o
       LowerSeq(Tail(items), IF st.k \in {"let", "letmut"}
                             THEN BindVar(lx, st.n, ResolveType(st.t, lx.info)) ELSE lx)

\* lower_fn: no type is expected of the body.
LowerFn(f, info) ==
  LET params == [p \in DOMAIN ParamScope(f.members) |-> ResolveType(Member(f.members, p)[1], info)]
  IN LowerBlock(f.body, [LowerContext(info, ResolveType(f.ret, info)) EXCEPT !.vars = params])
LowerConst(d, info) == Lower(d.body, Expecting(LowerContext(info, Unit), ResolveType(d.ret, info)))
-----------------------------------------------------------------------------
RECURSIVE VerifyType(_, _)
VerifyType(t, info) ==
  CASE t[1] = "struct" -> Known(info.structs, t[2])
    [] t[1] = "enum" -> Known(info.enums, t[2])
    [] IsArray(t) -> VerifyType(t[2], info)
    [] IsResult(t) -> VerifyType(t[2], info) /\ VerifyType(t[3], info)
    [] IsFnPtr(t) -> VerifyType(t[3], info) /\ \A i \in DOMAIN t[2] : VerifyType(t[2][i], info)
    [] OTHER -> TRUE

\* Whether a node's own type agrees with those of its parts.
VerifyNode(x, loops, info) ==
  CASE x.k \in {"bin", "un"} -> x.ty = OperatorType(x.n, x.s[1].ty)
    [] x.k = "call" ->
         x.c = "named" /\ Known(info.functions, x.n) => Len(info.functions[x.n].params) = Len(x.s)
    [] x.k = "if" ->
         IF Len(x.s) = 3 THEN \A i \in 2..3 : IsCompatibleWith(x.s[i].ty, x.ty) ELSE x.ty = Unit
    [] x.k = "match" -> \A i \in 2..Len(x.s) : IsCompatibleWith(x.s[i].ty, x.ty)
    [] x.k = "try" -> IsResult(x.s[1].ty) /\ x.ty = x.s[1].ty[2]
    [] x.k = "array" ->
         /\ IsArray(x.ty)
         /\ x.s # << >> => x.ty[2] = x.s[1].ty
         /\ x.ty[1] = "fixed" => x.ty[3] = Len(x.s)
    [] x.k \in {"break", "continue"} -> loops > 0
    [] OTHER -> TRUE

\* The body of a loop is its last part.
IsLoopBody(x, i) == x.k \in {"while", "for", "forin"} /\ i = Len(x.s)

RECURSIVE Verify(_, _, _)
Verify(x, loops, info) ==
  /\ VerifyType(x.ty, info)
  /\ VerifyNode(x, loops, info)
  /\ \A i \in DOMAIN x.s : Verify(x.s[i], IF IsLoopBody(x, i) THEN loops + 1 ELSE loops, info)
=============================================================================
