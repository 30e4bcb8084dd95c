------------------------------ MODULE Semantic ------------------------------
(***************************************************************************)
(* Semantic analysis (semantic.rs): the two passes over the declarations   *)
(* and the checker of statements and expressions.                          *)
(*                                                                         *)
(* A syntax node is a record of its kind k, a name, operator or literal n, *)
(* a written type t and its children s.  A block's last child is its tail  *)
(* expression if it is an expression.  The context cx holds the tables of  *)
(* declarations, the scopes, the enclosing function's result and purity,   *)
(* the loop depth and whether an error was reported.                       *)
(***************************************************************************)
EXTENDS Types, FiniteSets, TLC

Node(k, n, t, s) == [k |-> k, n |-> n, t |-> t, s |-> s]
StmtKinds == {"let", "letmut", "assign", "compound", "expr", "while", "for", "forin",
              "return", "defer", "break", "continue"}
IsExpr(e) == e.k \notin StmtKinds
HasTail(b) == b.s # << >> /\ IsExpr(b.s[Len(b.s)])
Stmts(b) == IF HasTail(b) THEN SubSeq(b.s, 1, Len(b.s) - 1) ELSE b.s
Tail_(b) == b.s[Len(b.s)]

\* The type of what was rejected.
Err == <<"error">>
Ok(t) == t # Err

Fn(params, ret, pure, extern) ==
  [params |-> params, ret |-> ret, pure |-> pure, extern |-> extern]

\* register_builtins: some of the table, enough to have pure and impure ones and each
\* kind of result.
Builtins ==
  [print |-> Fn(<<Str>>, Unit, FALSE, FALSE),
   print_i32 |-> Fn(<<I32>>, Unit, FALSE, FALSE),
   read_line |-> Fn(<< >>, ResultT(Str, Str), FALSE, FALSE),
   str_len |-> Fn(<<Str>>, I32, TRUE, FALSE),
   str_concat |-> Fn(<<Str, Str>>, Str, FALSE, FALSE),
   abs_i32 |-> Fn(<<I32>>, I32, TRUE, FALSE),
   str_join |-> Fn(<<Array(Str), Str>>, Str, FALSE, FALSE)]

Known(table, name) == name \in DOMAIN table
With(table, name, v) == table @@ (name :> v)
ToSet(s) == {s[i] : i \in DOMAIN s}
-----------------------------------------------------------------------------
RECURSIVE ResolveType(_, _)
ResolveType(t, info) ==
  CASE t[1] = "named" ->
         IF Known(info.structs, t[2]) THEN Struct(t[2])
         ELSE IF Known(info.enums, t[2]) THEN Enum(t[2]) ELSE Err
    [] t[1] \in {"array", "fixed"} ->
         LET e == ResolveType(t[2], info) IN
         IF e \in {Err, Handle} THEN Err ELSE [t EXCEPT ![2] = e]
    [] t[1] = "result" ->
         LET o == ResolveType(t[2], info)  e == ResolveType(t[3], info) IN
         IF Err \in {o, e} THEN Err ELSE ResultT(o, e)
    [] t[1] = "fn" ->
         LET ps == [i \in DOMAIN t[2] |-> ResolveType(t[2][i], info)]
             r == ResolveType(t[3], info)
         IN IF Err \in ToSet(ps) \cup {r} THEN Err ELSE FnPtr(ps, r, t[4])
    [] OTHER -> t

ResolveAll(ts, info) == [i \in DOMAIN ts |-> ResolveType(ts[i], info)]

NoInfo == [structs |-> << >>, enums |-> << >>, functions |-> Builtins, constants |-> << >>,
           ok |-> TRUE]

\* The first pass: a declaration sees the types of the ones before it.  A declaration d
\* is a record of its kind, name, members (pairs of a name and a list of types), result
\* and purity.
CollectDecl(info, d) ==
  LET types == [i \in DOMAIN d.members |-> ResolveAll(d.members[i][2], info)]
      all == UNION {ToSet(types[i]) : i \in DOMAIN types}
      members == [i \in DOMAIN d.members |-> <<d.members[i][1], types[i]>>]
      bad == [info EXCEPT !.ok = FALSE]
      ret == ResolveType(d.ret, info)
  IN CASE d.k = "struct" ->
            IF all \cap {Err, Handle} # {} \/ Known(info.structs, d.n) THEN bad
            ELSE [info EXCEPT !.structs = With(@, d.n, members)]
       [] d.k = "enum" ->
            IF all \cap {Err, Handle} # {} \/ Known(info.enums, d.n) THEN bad
            ELSE [info EXCEPT !.enums = With(@, d.n, members)]
       [] d.k = "const" ->
            IF Err = ret \/ Known(info.constants, d.n) \/ IsCollection(d.n) THEN bad
            ELSE [info EXCEPT !.constants = With(@, d.n, ret)]
       [] d.k \in {"fn", "extern"} ->
            IF Err \in all \cup {ret} \/ Known(info.functions, d.n) \/ IsCollection(d.n) THEN bad
            ELSE [info EXCEPT !.functions =
                    With(@, d.n, Fn([i \in DOMAIN types |-> types[i][1]], ret,
                                    d.pure /\ d.k = "fn", d.k = "extern"))]

RECURSIVE Collect(_, _)
Collect(decls, info) ==
  IF decls = << >> \/ ~info.ok THEN info
  ELSE Collect(Tail(decls), CollectDecl(info, Head(decls)))
-----------------------------------------------------------------------------
Context(info, ret, pure) ==
  [info |-> info, scopes |-> << << >> >>, ret |-> ret, pure |-> pure, loops |-> 0, ok |-> TRUE]
Bad(cx) == [cx EXCEPT !.ok = FALSE]
Reject(cx, cond) == IF cond THEN Bad(cx) ELSE cx

PushScope(cx) == [cx EXCEPT !.scopes = Append(@, << >>)]
PopScope(cx) == [cx EXCEPT !.scopes = SubSeq(@, 1, Len(@) - 1)]

\* The innermost scope that has the name.
Bound(cx, name) == \E i \in DOMAIN cx.scopes : Known(cx.scopes[i], name)
LookupVar(cx, name) ==
  LET i == CHOOSE j \in DOMAIN cx.scopes :
             /\ Known(cx.scopes[j], name)
             /\ \A k \in DOMAIN cx.scopes : Known(cx.scopes[k], name) => k <= j
  IN  cx.scopes[i][name]

\* add_binding: no name is bound twice along the scopes.
AddBinding(cx, name, ty, mut) ==
  IF IsCollection(name) \/ Bound(cx, name) THEN Bad(cx)
  ELSE [cx EXCEPT !.scopes[Len(cx.scopes)] = With(@, name, [ty |-> ty, mut |-> mut])]

\* The fields of a struct and the variants of an enum are lists of pairs.
Names(members) == {members[i][1] : i \in DOMAIN members}
Member(members, name) ==
  members[CHOOSE i \in DOMAIN members : members[i][1] = name][2]

FieldType(cx, ty, field) ==
  IF ty[1] = "struct" /\ field \in Names(cx.info.structs[ty[2]])
  THEN Member(cx.info.structs[ty[2]], field)[1] ELSE Err
IndexedType(ty) == IF IsArray(ty) THEN ty[2] ELSE Err

Numeric == {I32, I64, F64}
CastAllowed ==
  {<<I32, I64>>, <<I64, I32>>, <<I32, F64>>, <<I64, F64>>, <<F64, I32>>, <<F64, I64>>,
   <<Handle, I64>>, <<I64, Handle>>}

BinaryOpType(op, l, r) ==
  CASE Err \in {l, r} -> Err
    [] op \in {"add", "sub", "mul", "div"} -> IF l = r /\ l \in Numeric THEN l ELSE Err
    [] op = "mod" -> IF l = r /\ l \in {I32, I64} THEN l ELSE Err
    [] op \in {"eq", "neq"} -> IF l = r THEN Bool ELSE Err
    [] op \in {"lt", "gteq"} -> IF l = r /\ l \in Numeric \cup {Str} THEN Bool ELSE Err
    [] op \in {"and", "or"} -> IF l = Bool /\ r = Bool THEN Bool ELSE Err

UnaryOpType(op, t) ==
  CASE op = "neg" -> IF t \in Numeric THEN t ELSE Err
    [] op = "not" -> IF t = Bool THEN Bool ELSE Err

\* check_binary_op_types: a compound assignment is arithmetic.
CompoundOpType(op, l, r) ==
  IF op \in {"add", "sub", "mul", "div", "mod"} THEN BinaryOpType(op, l, r) ELSE Err

InferResultType(cx, expected) ==
  IF IsResult(expected) THEN expected ELSE IF IsResult(cx.ret) THEN cx.ret ELSE None

\* A function's name is a value, unless it is external.
IdentType(cx, name) ==
  IF Bound(cx, name) THEN LookupVar(cx, name).ty
  ELSE IF Known(cx.info.constants, name) THEN cx.info.constants[name]
  ELSE IF Known(cx.info.functions, name) /\ ~cx.info.functions[name].extern
    THEN LET f == cx.info.functions[name] IN FnPtr(f.params, f.ret, f.pure)
  ELSE Err

RECURSIVE BaseName(_)
BaseName(e) ==
  CASE e.k = "ident" -> e.n
    [] e.k \in {"field", "index"} -> BaseName(e.s[1])
    [] OTHER -> ""

\* require_mutable_collection_target.
MutableTarget(cx, e) ==
  LET name == BaseName(e) IN Bound(cx, name) /\ LookupVar(cx, name).mut
-----------------------------------------------------------------------------
\* The patterns of a match arm: which ones a scrutinee type admits, and the variant seen.
PatternFits(cx, p, ty) ==
  CASE p.k \in {"p_any", "p_ident"} -> TRUE
    [] p.k = "p_int" -> ty \in {I32, I64}
    [] p.k = "p_bool" -> ty = Bool
    [] p.k = "p_str" -> ty = Str
    [] p.k = "p_enum" /\ p.t = <<"result">> -> p.n \in {"Ok", "Err"} /\ Len(p.s) = 1
    [] OTHER ->
         /\ ty[1] = "enum" /\ p.t = ty
         /\ p.n \in Names(cx.info.enums[ty[2]])
         /\ Len(p.s) = Len(Member(cx.info.enums[ty[2]], p.n))

\* The types of a constructor pattern's parts.
PayloadTypes(cx, p, ty) ==
  IF p.t = <<"result">> THEN IF IsResult(ty) THEN <<IF p.n = "Ok" THEN ty[2] ELSE ty[3]>> ELSE <<Err>>
  ELSE Member(cx.info.enums[ty[2]], p.n)

RECURSIVE BindNames(_, _, _)
BindNames(cx, ps, ts) ==
  IF ps = << >> \/ ~cx.ok THEN cx
  ELSE BindNames(IF Head(ps).k = "p_ident" THEN AddBinding(cx, Head(ps).n, Head(ts), FALSE) ELSE cx,
                 Tail(ps), Tail(ts))

\* bind_pattern_vars: only names directly below the constructor are bound.
BindPatternVars(cx, p, ty) ==
  CASE p.k = "p_ident" -> AddBinding(cx, p.n, ty, FALSE)
    [] p.k = "p_enum" ->
         LET ts == PayloadTypes(cx, p, ty) IN
         IF ts = <<Err>> THEN Bad(cx) ELSE BindNames(cx, p.s, ts)
    [] OTHER -> cx

\* Mutant: any constructor pattern is taken to cover the match.
ExhaustiveIfAny(cx, ty, patterns) ==
  ty[1] \in {"enum", "result"} => \E i \in DOMAIN patterns : patterns[i].k \in {"p_any", "p_ident", "p_enum"}

\* A match on an enum or a Result covers every variant or has a catch-all arm.  Matches on
\* other types are not looked at.
Exhaustive(cx, ty, patterns) ==
  LET seen == {patterns[i].n : i \in {j \in DOMAIN patterns : patterns[j].k = "p_enum"}}
      catchAll == \E i \in DOMAIN patterns : patterns[i].k \in {"p_any", "p_ident"}
  IN CASE ty[1] = "enum" -> catchAll \/ Names(cx.info.enums[ty[2]]) \subseteq seen
       [] ty[1] = "result" -> catchAll \/ {"Ok", "Err"} \subseteq seen
       [] OTHER -> TRUE
-----------------------------------------------------------------------------
\* Mutant: pointers are not looked at.
CallsImpureByName(cx, name) ==
  \/ name \in {"push", "pop"}
  \/ IsCollection(name) /\ ~IsPureCollection(Collection(name))
  \/ /\ name # "len" /\ Known(cx.info.functions, name)
     /\ ~cx.info.functions[name].pure \/ cx.info.functions[name].extern

\* ensure_interpolation_expr_pure: what a hole of an interpolated string may call, judged
\* in the scopes the string stands in.
CallsImpure(cx, name) ==
  \/ name \in {"push", "pop"}
  \/ IsCollection(name) /\ ~IsPureCollection(Collection(name))
  \/ Bound(cx, name) /\ LookupVar(cx, name).ty[1] = "fn" /\ ~LookupVar(cx, name).ty[4]
  \/ /\ name # "len" /\ Known(cx.info.functions, name)
     /\ ~cx.info.functions[name].pure \/ cx.info.functions[name].extern

\* The parts of a node that are looked into.
PureParts(e) == IF e.k \in {"assign", "compound", "arm"} THEN <<e.s[2]>> ELSE e.s

RECURSIVE EnsurePure(_, _)
EnsurePure(cx, e) ==
  /\ e.k = "call" => ~CallsImpure(cx, e.n)
  /\ \A i \in DOMAIN PureParts(e) : EnsurePure(cx, PureParts(e)[i])

\* What an interpolated string is made of: an empty text is dropped, one string or bool
\* needs no allocation.
Rendered(e) == {i \in DOMAIN e.s : e.s[i].k # "text" \/ e.s[i].n # ""}
Allocates(e, types) ==
  \/ Cardinality(Rendered(e)) > 1
  \/ \E i \in DOMAIN e.s : e.s[i].k # "text" /\ types[i] \in Numeric
-----------------------------------------------------------------------------
RECURSIVE Check(_, _, _), CheckStmt(_, _), CheckStmts(_, _)

\* types_compatible of an expression and the type it is checked against.
Accepts(e, ty, cx) == LET t == Check(e, ty, cx) IN Ok(t) /\ IsCompatibleWith(t, ty)
AcceptsAll(es, tys, cx) ==
  Len(es) = Len(tys) /\ \A i \in DOMAIN es : Accepts(es[i], tys[i], cx)

CheckBlock(b, expected, cx) ==
  LET in == CheckStmts(Stmts(b), PushScope(cx)) IN
  IF ~in.ok THEN Err ELSE IF HasTail(b) THEN Check(Tail_(b), expected, in) ELSE Unit

\* check_collection_call: the types the arguments after the first are checked against.
CollectionArgs(in, elem) ==
  CASE in.op \in {"fill", "contains", "count"} -> <<elem>>
    [] in.op \in {"swap", "slice"} -> <<I32, I32>>
    [] in.op = "insert" -> <<I32, elem>>
    [] in.op \in {"remove_at", "repeat"} -> <<I32>>
    [] in.op \in {"any", "map", "filter", "for_each"} -> <<CallbackType(in)>>
    [] in.op = "fold" -> <<elem, CallbackType(in)>>
    [] OTHER -> << >>

CollectionResult(in, first) ==
  CASE in.op = "clone" -> first
    [] in.op = "slice" \/ in.op = "filter" -> Array(ElementType(first))
    [] in.op \in {"remove_at", "fold"} -> ElementType(first)
    [] in.op \in {"contains", "any"} -> Bool
    [] in.op \in {"count", "compare"} -> I32
    [] in.op = "map" -> Array(in.target)
    [] OTHER -> Unit

CheckCollectionCall(e, cx) ==
  LET in == Collection(e.n)
      expected == IF in.source = None THEN None ELSE Array(in.source)
      first == Check(e.s[1], expected, cx)
      elem == ElementType(first)
      other == Check(e.s[2], Array(elem), cx)
  IN CASE \/ Len(e.s) # Arity(in)
          \/ cx.pure /\ ~IsPureCollection(in)
          \/ IsMutating(in) /\ ~MutableTarget(cx, e.s[1]) -> Err
       [] in.op = "repeat" ->
            LET t == Check(e.s[1], None, cx) IN
            IF Ok(t) /\ Accepts(e.s[2], I32, cx) THEN Array(t) ELSE Err
       [] ~Ok(first) \/ ~IsArray(first) -> Err
       [] RequiresDynamicArray(in) /\ first[1] # "array" -> Err
       [] in.source # None /\ elem # in.source -> Err
       [] in.op \in {"extend", "compare"} ->
            IF /\ Ok(other) /\ IsArray(other)
               /\ IF in.op = "extend" THEN IsCompatibleWith(ElementType(other), elem)
                                      ELSE ElementType(other) = elem
            THEN CollectionResult(in, first) ELSE Err
       [] OTHER ->
            IF AcceptsAll(Tail(e.s), CollectionArgs(in, elem), cx)
            THEN CollectionResult(in, first) ELSE Err

\* Mutant: the purity of a function pointer is not looked at.
CheckCallOfPointerImpure(e, cx) ==
  LET t == LookupVar(cx, e.n).ty IN
  IF t[1] = "fn" /\ AcceptsAll(e.s, t[2], cx) THEN t[3] ELSE Err

CheckCallOfPointer(e, cx) ==
  LET t == LookupVar(cx, e.n).ty IN
  IF t[1] = "fn" /\ AcceptsAll(e.s, t[2], cx) /\ (cx.pure => t[4]) THEN t[3] ELSE Err

\* check_call: the intrinsics come before any binding or function of the same name.
CheckCall(e, cx) ==
  CASE IsCollection(e.n) -> CheckCollectionCall(e, cx)
    [] e.n = "len" ->
         IF Len(e.s) = 1 /\ IsArray(Check(e.s[1], None, cx)) THEN I32 ELSE Err
    [] e.n = "push" ->
         LET t == Check(e.s[1], None, cx) IN
         IF /\ ~cx.pure /\ Len(e.s) = 2
            /\ MutableTarget(cx, e.s[1]) /\ t[1] = "array" /\ Accepts(e.s[2], t[2], cx)
         THEN Unit ELSE Err
    [] e.n = "pop" ->
         LET t == Check(e.s[1], None, cx) IN
         IF ~cx.pure /\ Len(e.s) = 1 /\ MutableTarget(cx, e.s[1]) /\ t[1] = "array"
         THEN t[2] ELSE Err
    [] Bound(cx, e.n) -> CheckCallOfPointer(e, cx)
    [] Known(cx.info.functions, e.n) ->
         LET f == cx.info.functions[e.n] IN
         IF /\ cx.pure => f.pure /\ ~f.extern
            /\ AcceptsAll(e.s, f.params, cx)
         THEN f.ret ELSE Err
    [] OTHER -> Err

\* check_result_constructor: Ok and Err need to know the type of the other side.
CheckResultConstructor(e, expected, cx) ==
  LET r == InferResultType(cx, expected) IN
  IF /\ e.n \in {"Ok", "Err"} /\ Len(e.s) = 1 /\ r # None
     /\ Accepts(e.s[1], IF e.n = "Ok" THEN r[2] ELSE r[3], cx)
  THEN r ELSE Err

\* The join of the branches' types, Err if two do not agree.
RECURSIVE JoinTypes(_, _)
JoinTypes(types, expected) ==
  IF Err \in ToSet(types) THEN Err
  ELSE IF Len(types) = 1 THEN types[1]
  ELSE LET j == CompatibleJoin(types[1], types[2], expected) IN
       IF j = None THEN Err ELSE JoinTypes(<<j>> \o SubSeq(types, 3, Len(types)), expected)

CheckMatch(arms, ty, expected, cx) ==
  LET patterns == [i \in DOMAIN arms |-> arms[i].s[1]]
      ArmType(i) ==
        LET in == BindPatternVars(PushScope(cx), patterns[i], ty) IN
        IF in.ok THEN Check(arms[i].s[2], expected, in) ELSE Err
      types == [i \in DOMAIN arms |-> ArmType(i)]
  IN IF /\ Ok(ty)
        /\ \A i \in DOMAIN arms : PatternFits(cx, patterns[i], ty)
        /\ Exhaustive(cx, ty, patterns)
     THEN IF arms = << >> THEN Unit ELSE JoinTypes(types, expected)
     ELSE Err
CheckInterpolation(e, cx) ==
  LET types == [i \in DOMAIN e.s |-> IF e.s[i].k = "text" THEN Str ELSE Check(e.s[i], None, cx)]
  IN IF /\ \A i \in DOMAIN e.s : EnsurePure(cx, e.s[i])
        /\ ToSet(types) \subseteq Numeric \cup {Str, Bool}
        /\ ~(cx.pure /\ Allocates(e, types))
     THEN Str ELSE Err

\* An array literal is dynamic unless a fixed array of its length is expected; an empty one
\* takes its element type from what is expected.
CheckArrayLit(e, expected, cx) ==
  LET first == Check(e.s[1], None, cx) IN
  IF e.s = << >> THEN IF IsArray(expected) THEN Array(expected[2]) ELSE Err
  ELSE IF ~Ok(first) \/ \E i \in DOMAIN e.s : Check(e.s[i], None, cx) # first THEN Err
  ELSE IF expected = FixedArray(first, Len(e.s)) THEN expected ELSE Array(first)

\* Each field is given once.
CheckStructLit(e, cx) ==
  IF ~Known(cx.info.structs, e.n) THEN Err
  ELSE LET fields == cx.info.structs[e.n]
           given == [i \in DOMAIN e.s |-> e.s[i].n]
       IN IF /\ ToSet(given) = Names(fields) /\ Len(given) = Len(fields)
             /\ \A i \in DOMAIN e.s : Accepts(e.s[i].s[1], Member(fields, given[i])[1], cx)
          THEN Struct(e.n) ELSE Err

CheckConstructor(e, expected, cx) ==
  IF e.t = <<"result">> THEN CheckResultConstructor(e, expected, cx)
  ELSE IF /\ Known(cx.info.enums, e.t[2]) /\ e.n \in Names(cx.info.enums[e.t[2]])
          /\ AcceptsAll(e.s, Member(cx.info.enums[e.t[2]], e.n), cx)
       THEN e.t ELSE Err

\* try: the function returns a Result whose error is that of the operand.
CheckTry(e, cx) ==
  LET t == Check(e.s[1], None, cx) IN
  IF IsResult(t) /\ IsResult(cx.ret) /\ IsCompatibleWith(t[3], cx.ret[3]) THEN t[2] ELSE Err

CheckIf(e, expected, cx) ==
  LET then == CheckBlock(e.s[2], expected, cx) IN
  IF Check(e.s[1], None, cx) # Bool THEN Err
  ELSE IF Len(e.s) = 3 THEN JoinTypes(<<then, Check(e.s[3], expected, cx)>>, expected)
  ELSE IF then = Unit THEN Unit ELSE Err

\* check_expr.
Check(e, expected, cx) ==
  CASE e.k = "int" -> IF e.n = "big" THEN Err ELSE I32
    [] e.k = "float" -> F64
    [] e.k = "str" -> Str
    [] e.k = "bool" -> Bool
    [] e.k = "interp" -> CheckInterpolation(e, cx)
    [] e.k = "ident" -> IdentType(cx, e.n)
    [] e.k = "bin" -> BinaryOpType(e.n, Check(e.s[1], None, cx), Check(e.s[2], None, cx))
    [] e.k = "un" -> UnaryOpType(e.n, Check(e.s[1], None, cx))
    [] e.k = "cast" -> IF <<Check(e.s[1], None, cx), e.t>> \in CastAllowed THEN e.t ELSE Err
    [] e.k = "call" -> CheckCall(e, cx)
    [] e.k = "field" -> FieldType(cx, Check(e.s[1], None, cx), e.n)
    [] e.k = "index" ->
         LET t == Check(e.s[1], None, cx) IN
         IF Check(e.s[2], None, cx) # I32 THEN Err ELSE IF t = Str THEN I32 ELSE IndexedType(t)
    [] e.k = "block" -> CheckBlock(e, expected, cx)
    [] e.k = "arena" ->
         LET t == CheckBlock(e.s[1], expected, cx) IN
         IF ~cx.pure /\ IsArenaSafe(t) THEN t ELSE Err
    [] e.k = "if" -> CheckIf(e, expected, cx)
    [] e.k = "match" -> CheckMatch(Tail(e.s), Check(e.s[1], None, cx), expected, cx)
    [] e.k = "try" -> CheckTry(e, cx)
    [] e.k = "array" -> CheckArrayLit(e, expected, cx)
    [] e.k = "struct" -> CheckStructLit(e, cx)
    [] e.k = "ctor" -> CheckConstructor(e, expected, cx)
-----------------------------------------------------------------------------
RECURSIVE HasIndex(_)
HasIndex(place) == place.k = "index" \/ (place.k = "field" /\ HasIndex(place.s[1]))

\* The type of a place.  A plain assignment refuses a string's character, as indexing a
\* string is no place; an index lets an immutable binding be written through.
RECURSIVE PlaceType(_, _)
PlaceType(place, cx) ==
  CASE place.k = "ident" -> IF Bound(cx, place.n) THEN LookupVar(cx, place.n).ty ELSE Err
    [] place.k = "field" -> FieldType(cx, PlaceType(place.s[1], cx), place.n)
    [] place.k = "index" ->
         IF Check(place.s[2], None, cx) = I32 THEN IndexedType(PlaceType(place.s[1], cx)) ELSE Err
Assignable(place, cx) ==
  /\ Ok(PlaceType(place, cx))
  /\ LookupVar(cx, BaseName(place)).mut \/ HasIndex(place)

\* A loop's body is checked in the scope of its variable.
CheckLoop(body, cx) == CheckStmts(body.s, [cx EXCEPT !.loops = @ + 1]).ok

\* check_stmt: the context after it.
CheckStmt(st, cx) ==
  CASE st.k \in {"let", "letmut"} ->
         LET t == ResolveType(st.t, cx.info) IN
         IF Ok(t) /\ Accepts(st.s[1], t, cx) THEN AddBinding(cx, st.n, t, st.k = "letmut") ELSE Bad(cx)
    [] st.k = "assign" ->
         Reject(cx, ~(Assignable(st.s[1], cx) /\ Accepts(st.s[2], PlaceType(st.s[1], cx), cx)))
    [] st.k = "compound" ->
         LET t == PlaceType(st.s[1], cx) IN
         Reject(cx, ~(Assignable(st.s[1], cx) /\ Ok(CompoundOpType(st.n, t, Check(st.s[2], t, cx)))))
    [] st.k = "expr" -> Reject(cx, ~Ok(Check(st.s[1], None, cx)))
    [] st.k = "while" ->
         Reject(cx, ~(Check(st.s[1], None, cx) = Bool /\ CheckLoop(st.s[2], PushScope(cx))))
    [] st.k = "for" ->
         LET in == AddBinding(PushScope(cx), st.n, I32, FALSE) IN
         Reject(cx, ~(/\ Check(st.s[1], None, cx) = I32 /\ Check(st.s[2], None, cx) = I32
                      /\ in.ok /\ CheckLoop(st.s[3], in)))
    [] st.k = "forin" ->
         LET t == Check(st.s[1], None, cx)
             in == AddBinding(PushScope(cx), st.n, ElementType(t), FALSE)
         IN Reject(cx, ~(IsArray(t) /\ in.ok /\ CheckLoop(st.s[2], in)))
    [] st.k \in {"break", "continue"} -> Reject(cx, cx.loops = 0)
    [] st.k = "return" ->
         Reject(cx, IF st.s = << >> THEN cx.ret # Unit ELSE ~Accepts(st.s[1], cx.ret, cx))
    [] st.k = "defer" ->
         Reject(cx, cx.pure \/ st.s[1].k # "call" \/ ~Ok(Check(st.s[1], None, cx)))
    [] OTHER -> Reject(cx, ~Ok(Check(st, None, cx)))

CheckStmts(stmts, cx) ==
  IF stmts = << >> \/ ~cx.ok THEN cx ELSE CheckStmts(Tail(stmts), CheckStmt(Head(stmts), cx))
-----------------------------------------------------------------------------
\* check_fn: the parameters are one scope, the body's block another.
ParamScope(params) ==
  [p \in {params[i][1] : i \in DOMAIN params} |-> [ty |-> Member(params, p)[1], mut |-> FALSE]]

CheckFn(f, info) ==
  LET ret == ResolveType(f.ret, info)
      params == [i \in DOMAIN f.members |-> <<f.members[i][1], ResolveAll(f.members[i][2], info)>>]
      cx == [Context(info, ret, f.pure) EXCEPT !.scopes = <<ParamScope(params)>>]
  IN /\ \A i \in DOMAIN params : ~IsCollection(params[i][1])
     /\ Cardinality(DOMAIN ParamScope(params)) = Len(params)
     /\ Accepts(f.body, ret, cx)

CheckDecl(d, info) ==
  CASE d.k = "fn" -> CheckFn(d, info)
    [] d.k = "const" -> Accepts(d.body, ResolveType(d.ret, info), Context(info, Unit, FALSE))
    [] OTHER -> TRUE

\* analyze: the tables, then the bodies.
Analyze(program) ==
  LET info == Collect(program, NoInfo) IN
  info.ok /\ \A i \in DOMAIN program : CheckDecl(program[i], info)
=============================================================================
