------------------------------- MODULE Types -------------------------------
(***************************************************************************)
(* The types of the language and the collection intrinsics (types.rs and   *)
(* collection.rs).  A type is a tuple that begins with its constructor, so *)
(* that any two types can be compared; None stands for Rust's None where a *)
(* type is optional.                                                       *)
(***************************************************************************)
EXTENDS Naturals, Sequences

None == <<"none">>
I32 == <<"i32">>
I64 == <<"i64">>
F64 == <<"f64">>
Bool == <<"bool">>
Str == <<"str">>
Unit == <<"unit">>
Handle == <<"handle">>
MapT == <<"map">>
Struct(n) == <<"struct", n>>
Enum(n) == <<"enum", n>>
Array(t) == <<"array", t>>
FixedArray(t, n) == <<"fixed", t, n>>
ResultT(ok, err) == <<"result", ok, err>>
FnPtr(params, ret, pure) == <<"fn", params, ret, pure>>

IsArray(t) == t[1] \in {"array", "fixed"}
IsResult(t) == t[1] = "result"
IsFnPtr(t) == t[1] = "fn"

\* A pure function may stand for an impure one; all other types must be equal.
IsCompatibleWith(t, expected) ==
  \/ t = expected
  \/ /\ IsFnPtr(t) /\ IsFnPtr(expected)
     /\ t[4] /\ ~expected[4]
     /\ t[2] = expected[2] /\ t[3] = expected[3]

\* The type of two branches, None if there is none.
CompatibleJoin(t, u, expected) ==
  IF t = u THEN t
  ELSE IF expected # None /\ IsCompatibleWith(t, expected) /\ IsCompatibleWith(u, expected)
    THEN expected
  ELSE IF IsCompatibleWith(t, u) THEN u
  ELSE IF IsCompatibleWith(u, t) THEN t
  ELSE None

\* What may leave an arena block.
IsArenaSafe(t) == t[1] \in {"i32", "i64", "f64", "bool", "unit", "handle", "fn"}

\* array_element_type.
ElementType(t) == IF IsArray(t) THEN t[2] ELSE None
-----------------------------------------------------------------------------
Intrinsic(op, source, target) == [op |-> op, source |-> source, target |-> target]

\* The generic intrinsics, and the typed ones at one type each.
CollectionTable ==
  [array_clone |-> Intrinsic("clone", None, None),
   array_repeat |-> Intrinsic("repeat", None, None),
   array_reverse |-> Intrinsic("reverse", None, None),
   array_fill |-> Intrinsic("fill", None, None),
   array_swap |-> Intrinsic("swap", None, None),
   array_clear |-> Intrinsic("clear", None, None),
   array_extend |-> Intrinsic("extend", None, None),
   array_insert |-> Intrinsic("insert", None, None),
   array_remove_at |-> Intrinsic("remove_at", None, None),
   array_slice |-> Intrinsic("slice", None, None),
   array_contains_i32 |-> Intrinsic("contains", I32, None),
   array_count_i32 |-> Intrinsic("count", I32, None),
   array_compare_i32 |-> Intrinsic("compare", I32, None),
   sort_i32 |-> Intrinsic("sort", I32, None),
   array_any_i32 |-> Intrinsic("any", I32, None),
   array_map_i32_to_str |-> Intrinsic("map", I32, Str),
   array_filter_i32 |-> Intrinsic("filter", I32, None),
   array_for_each_i32 |-> Intrinsic("for_each", I32, None),
   array_fold_i32 |-> Intrinsic("fold", I32, None)]

IsCollection(name) == name \in DOMAIN CollectionTable
Collection(name) == CollectionTable[name]

Arity(in) ==
  CASE in.op \in {"clone", "reverse", "clear", "sort"} -> 1
    [] in.op \in {"swap", "insert", "slice", "fold"} -> 3
    [] OTHER -> 2

IsMutating(in) ==
  in.op \in {"reverse", "fill", "swap", "clear", "extend", "insert", "remove_at", "sort"}
RequiresDynamicArray(in) == in.op \in {"clear", "extend", "insert", "remove_at"}
IsPureCollection(in) ==
  in.op \in {"contains", "index_of", "count", "compare", "any", "all", "fold"}

CallbackType(in) ==
  CASE in.op \in {"any", "all", "filter"} -> FnPtr(<<in.source>>, Bool, TRUE)
    [] in.op = "map" -> FnPtr(<<in.source>>, in.target, TRUE)
    [] in.op = "fold" -> FnPtr(<<in.source, in.source>>, in.source, TRUE)
    [] in.op = "for_each" -> FnPtr(<<in.source>>, Unit, FALSE)
=============================================================================
