---------------------------- MODULE CheckedArith ----------------------------
(***************************************************************************)
(* The checked integer arithmetic of the runtime (runtime/osc_runtime.c,   *)
(* "Checked arithmetic") and the statements that use it, for an integer    *)
(* type of any width: MAX is its largest value and -MAX - 1 its smallest.  *)
(*                                                                         *)
(* The i32 multiplication widens; the i64 one cannot, and decides by cases *)
(* on the signs with divisions.  An operation yields <<v>>, or <<>> when   *)
(* it panics.  "x = x op e" goes through these functions in both back      *)
(* ends; "x op= e" does in native code, while the C back end writes the C  *)
(* operator, whose overflow is undefined: the build wraps it.              *)
(***************************************************************************)
EXTENDS Integers

CONSTANTS MAX,       \* INT32_MAX or INT64_MAX
          Backends,  \* the back ends considered
          Operands   \* the right operands programs use

MIN == -MAX - 1
Ints == MIN .. MAX
Size == 2 * (MAX + 1)

ASSUME MaxAssumption == MAX \in Nat \ {0}
ASSUME OperandsAssumption ==
  Operands \subseteq Ints /\ Backends \subseteq {"c", "native"}

VARIABLES backend, x, last

arithVars == <<backend, x, last>>

Panic == <<>>
Checked(overflows, v) == IF overflows THEN Panic ELSE <<v>>

\* C division truncates towards zero.
Abs(n) == IF n < 0 THEN -n ELSE n
CDiv(a, b) == IF (a < 0) = (b < 0) THEN Abs(a) \div Abs(b) ELSE -(Abs(a) \div Abs(b))
CMod(a, b) == a - b * CDiv(a, b)

osc_add(a, b) ==
  Checked(\/ b > 0 /\ a > MAX - b
          \/ b < 0 /\ a < MIN - b, a + b)

osc_sub(a, b) ==
  Checked(\/ b < 0 /\ a > MAX + b
          \/ b > 0 /\ a < MIN + b, a - b)

osc_mul_i32(a, b) == Checked(a * b > MAX \/ a * b < MIN, a * b)

\* Mutant: the last case compares with MIN.
MulOverflowsMixed(a, b) ==
  \/ a > 0 /\ b > 0 /\ a > CDiv(MAX, b)
  \/ a > 0 /\ b < 0 /\ b < CDiv(MIN, a)
  \/ a < 0 /\ b > 0 /\ a < CDiv(MIN, b)
  \/ a < 0 /\ b < 0 /\ b < CDiv(MIN, a)

\* The case analysis of osc_mul_i64.
MulOverflows(a, b) ==
  \/ a > 0 /\ b > 0 /\ a > CDiv(MAX, b)
  \/ a > 0 /\ b < 0 /\ b < CDiv(MIN, a)
  \/ a < 0 /\ b > 0 /\ a < CDiv(MIN, b)
  \/ a < 0 /\ b < 0 /\ b < CDiv(MAX, a)

osc_mul_i64(a, b) == Checked(MulOverflows(a, b), a * b)

DivPanics(a, b) == b = 0 \/ (a = MIN /\ b = -1)

osc_div(a, b) == IF DivPanics(a, b) THEN Panic ELSE <<CDiv(a, b)>>
osc_mod(a, b) == IF DivPanics(a, b) THEN Panic ELSE <<CMod(a, b)>>

osc_neg(a) == Checked(a = MIN, -a)
osc_abs(a) == Checked(a = MIN, Abs(a))

\* Mutant: the result is read as unsigned.
WrapUnsigned(n) == n % Size

\* Two's complement: what the C operators leave in the variable.
WrapInt(n) == ((n - MIN) % Size) + MIN

Ops == {"add", "sub", "mul_i32", "mul_i64", "div", "mod"}

Call(op, a, b) ==
  CASE op = "add" -> osc_add(a, b)
    [] op = "sub" -> osc_sub(a, b)
    [] op = "mul_i32" -> osc_mul_i32(a, b)
    [] op = "mul_i64" -> osc_mul_i64(a, b)
    [] op = "div" -> osc_div(a, b)
    [] op = "mod" -> osc_mod(a, b)

\* The mathematical result.
Exact(op, a, b) ==
  CASE op = "add" -> a + b
    [] op = "sub" -> a - b
    [] op \in {"mul_i32", "mul_i64"} -> a * b
    [] op = "div" -> CDiv(a, b)
    [] op = "mod" -> CMod(a, b)

Defined(op, b) == op \in {"div", "mod"} => b # 0

\* Division by zero, and of MIN by -1, is undefined in C: an x86 traps, an
\* AArch64 answers this.
ArmAnswer(op, a, b) ==
  IF op = "div" THEN IF b = 0 THEN 0 ELSE MIN
  ELSE IF b = 0 THEN a ELSE 0

\* What the C operator may do.
CResults(op, a, b) ==
  IF op \in {"div", "mod"} /\ DivPanics(a, b) THEN {Panic, <<ArmAnswer(op, a, b)>>}
  ELSE {<<WrapInt(Exact(op, a, b))>>}

ArithInit ==
  /\ backend \in Backends
  /\ x \in Ints
  /\ last = [stmt |-> "none", op |-> "none", a |-> x, b |-> 0, result |-> <<x>>]

Running == last.result # Panic

\* The statement stores its result, or the program ends.
Yields(stmt, op, b, result) ==
  /\ Running
  /\ last' = [stmt |-> stmt, op |-> op, a |-> x, b |-> b, result |-> result]
  /\ x' = IF result = Panic THEN x ELSE result[1]
  /\ UNCHANGED backend

\* "x = x op e", "x = -x" and "x = abs_i32(x)"
Binary(op, b) == Yields("assign", op, b, Call(op, x, b))
Negate == Yields("assign", "neg", 0, osc_neg(x))
AbsOf == Yields("assign", "abs", 0, osc_abs(x))

\* "x op= e"
CompoundAssign(op, b) ==
  \E r \in IF backend = "c" THEN CResults(op, x, b) ELSE {Call(op, x, b)} :
    Yields("compound", op, b, r)

ArithNext ==
  \/ \E op \in Ops, b \in Operands : Binary(op, b) \/ CompoundAssign(op, b)
  \/ Negate
  \/ AbsOf

ArithSpec == ArithInit /\ [][ArithNext]_arithVars
-----------------------------------------------------------------------------
Results == {Panic} \cup {<<v>> : v \in Ints}

\* The type of the state: in particular the variable never leaves its type.
ArithTypeOK ==
  /\ backend \in {"c", "native"}
  /\ x \in Ints
  /\ last \in [stmt : {"none", "assign", "compound"},
                op : Ops \cup {"none", "neg", "abs"},
                a : Ints, b : Ints, result : Results]

\* The operation has a value of the type.  MIN % -1 has one, but its
\* quotient has none and C leaves it undefined.
HasValue(op, a, b) ==
  /\ Defined(op, b)
  /\ Exact(op, a, b) \in Ints
  /\ ~(op = "mod" /\ a = MIN /\ b = -1)

Correct(r) ==
  r.op \in Ops => r.result = IF HasValue(r.op, r.a, r.b)
                             THEN <<Exact(r.op, r.a, r.b)>> ELSE Panic

Unary(r) ==
  /\ r.op = "neg" => r.result = IF -r.a \in Ints THEN <<-r.a>> ELSE Panic
  /\ r.op = "abs" => r.result = IF Abs(r.a) \in Ints THEN <<Abs(r.a)>> ELSE Panic

\* Every statement that goes through the checked functions gives the
\* mathematical result exactly when that is a value of the type, and panics
\* otherwise: no guard misses an overflow, none refuses a result that fits.
\* Compound assignments in C are the exception, they use the C operator.
ChecksExact ==
  /\ ~(last.stmt = "compound" /\ backend = "c") => Correct(last)
  /\ Unary(last)
=============================================================================
