------------------------------- MODULE ExprIR -------------------------------
(***************************************************************************)
(* The expressions and statements both code generators translate, and the  *)
(* state of the program they are translated to.                            *)
(*                                                                         *)
(* A node is [k, n, v, s]: its kind, a name, a number and its parts.  The  *)
(* program has a mutable variable x, a dynamic array variable a and a      *)
(* variable i bound by loops and patterns.  A call is known by its number, *)
(* which is traced when it runs: every order of effects shows in out.      *)
(*                                                                         *)
(* A value is a sequence of numbers: a scalar has one, a Result its tag    *)
(* and its payload, an aggregate or a string those of its parts.  The      *)
(* value of an array is its index in the heap.                             *)
(*                                                                         *)
(* A state s is [vars, tmps, heap, out, st, ret]: st is "run", "panic"     *)
(* (the runtime aborted), "ret" (the function returned ret), "spin" (a     *)
(* loop went past MaxTurns) or "ice" (the compiler itself panicked).       *)
(***************************************************************************)
EXTENDS Integers, Sequences, TLC

CONSTANT MaxTurns

Node(k, n, v, s) == [k |-> k, n |-> n, v |-> v, s |-> s]

Running(s) == s.st = "run"
Out(v, s) == [v |-> v, s |-> s]
Stopped(s) == Out(<<0>>, s)
Bind(s, name, v) == [s EXCEPT !.vars[name] = v]
Abort(s) == [s EXCEPT !.st = "panic"]
ReturnFrom(s, v) == [s EXCEPT !.st = "ret", !.ret = v]

InArray(s, arr, idx) == idx[1] \in 0 .. Len(s.heap[arr[1]]) - 1
Element(s, arr, idx) == <<s.heap[arr[1]][idx[1] + 1]>>
Truth(b) == IF b THEN <<1>> ELSE <<0>>

\* What the runtime and the operators do once their operands are values.
\* A call is traced with its operands and gives its first one back; a call of
\* kind "fetch" gives a Result, Ok when its operand is not 0.
Apply(e, vs, s) ==
  CASE e.k \in {"call", "fetch"} ->
         LET v == IF vs = << >> THEN <<1>> ELSE vs[1] IN
         Out(IF e.k = "call" THEN v ELSE Truth(v[1] # 0) \o <<e.v>>,
             [s EXCEPT !.out = Append(@, <<e.v>> \o v)])
    [] e.k = "add" -> Out(<<vs[1][1] + vs[2][1]>>, s)
    [] e.k = "eq" -> Out(Truth(vs[1] = vs[2]), s)
    [] e.k = "lt" -> Out(Truth(vs[1][1] < vs[2][1]), s)
    [] e.k = "not" -> Out(<<1 - vs[1][1]>>, s)
    [] e.k = "tuple" ->
         Out(IF Len(vs) = 1 THEN vs[1] ELSE vs[1] \o vs[2], s)
    [] e.k = "len" -> Out(<<Len(s.heap[vs[1][1]])>>, s)
    [] e.k \in {"index", "data"} ->
         IF InArray(s, vs[1], vs[2]) THEN Out(Element(s, vs[1], vs[2]), s)
         ELSE Stopped(Abort(s))
    [] e.k = "chr" -> Out(vs[1], s)
    [] e.k = "new" -> Out(<<Len(s.heap) + 1>>, [s EXCEPT !.heap = Append(@, << >>)])
    [] e.k = "push" -> Out(<<0>>, [s EXCEPT !.heap[vs[1][1]] = @ \o vs[2]])
    [] e.k = "place" ->
         IF InArray(s, vs[1], vs[2]) THEN Out(vs[1] \o vs[2], s) ELSE Stopped(Abort(s))
    [] e.k \in {"store", "bumpat"} ->
         Out(<<0>>, [s EXCEPT !.heap[vs[1][1]][vs[1][2] + 1] =
                       vs[2][1] + IF e.k = "store" THEN 0 ELSE @])
    [] e.k = "insert" ->
         IF vs[2][1] \in 0 .. Len(s.heap[vs[1][1]])
         THEN Out(<<0>>, [s EXCEPT !.heap[vs[1][1]] =
                            SubSeq(@, 1, vs[2][1]) \o vs[3] \o SubSeq(@, vs[2][1] + 1, Len(@))])
         ELSE Stopped(Abort(s))
    [] e.k = "remove" ->
         IF InArray(s, vs[1], vs[2])
         THEN Out(Element(s, vs[1], vs[2]),
                  [s EXCEPT !.heap[vs[1][1]] =
                     SubSeq(@, 1, vs[2][1]) \o SubSeq(@, vs[2][1] + 2, Len(@))])
         ELSE Stopped(Abort(s))

\* What the rest of the program, or whoever ran it, can tell of a state.
Observed(s) ==
  [out |-> s.out, st |-> s.st,
   ret |-> IF s.st = "ret" THEN s.ret ELSE <<0>>,
   x |-> IF Running(s) THEN s.vars["x"] ELSE <<0>>,
   a |-> IF Running(s) THEN s.heap[s.vars["a"][1]] ELSE <<0>>]
=============================================================================
