----------------------------- MODULE QueryEval -----------------------------
(***************************************************************************)
(* Evaluation of expressions on record batches.                            *)
(*                                                                         *)
(* A batch has its fields, its rows, and the value that lies under a null: *)
(* an array's value(i) of a null slot is whatever the buffer holds.  An    *)
(* array is a type and one value per row; an evaluation error is an array  *)
(* of type "Err", which no operation accepts.  A float is a number of      *)
(* units, FloatUnit of them making 1.                                      *)
(***************************************************************************)
EXTENDS QueryPlan, SequencesExt

CONSTANTS
  NULL,
  FloatUnit,    \* units in 1.0
  SecondNs,     \* nanoseconds in a second
  BatchSize     \* rows of a batch read from a file

ASSUME EvalAssumption == {FloatUnit, SecondNs, BatchSize} \subseteq Nat \ {0}

\* f64 infinities, beyond every sum of an instance.
Inf == 1000000

Field(n, t) == [name |-> n, type |-> t]

(* The columns of the metrics table the model keeps.                       *)
metric_schema ==
  <<Field("timestamp_ns", "UInt64"), Field("name", "Utf8"), Field("unit", "Utf8"),
    Field("metric_type", "Int8"), Field("value_double", "Float64"), Field("value_int", "Int64")>>

Batch(fields, rows, slot) == [fields |-> fields, rows |-> rows, slot |-> slot]
Has(b, n) == \E i \in DOMAIN b.fields : b.fields[i].name = n
TypeOf(b, n) == b.fields[CHOOSE i \in DOMAIN b.fields : b.fields[i].name = n].type
-----------------------------------------------------------------------------
(* Arrays.                                                                 *)
Array(t, vals) == [type |-> t, vals |-> vals]
ErrA == Array("Err", <<>>)
Repeat(t, v, n) == Array(t, [i \in 1..n |-> v])

\* What value(i) gives: the slot's content where the element is null.
Under(v, t, slot) == IF v # NULL THEN v ELSE IF t = "Utf8" THEN <<>> ELSE slot

\* A kernel of two arrays: null where either operand is.
Kernel(t, l, r, Op(_, _)) ==
  IF Len(l.vals) # Len(r.vals) THEN ErrA
  ELSE Array(t, [i \in DOMAIN l.vals |->
                  IF l.vals[i] = NULL \/ r.vals[i] = NULL THEN NULL ELSE Op(l.vals[i], r.vals[i])])

TextLess(s, t) ==
  \E i \in 1..Len(t) : /\ i <= Len(s) + 1
                       /\ SubSeq(s, 1, i - 1) = SubSeq(t, 1, i - 1)
                       /\ i = Len(s) + 1 \/ s[i] < t[i]
Less(t, a, b) == IF t = "Utf8" THEN TextLess(a, b) ELSE a < b
Compare(t, op, a, b) ==
  CASE op = "Eq"    -> a = b
    [] op = "NotEq" -> a # b
    [] op = "Lt"    -> Less(t, a, b)
    [] op = "LtEq"  -> ~Less(t, b, a)
    [] op = "Gt"    -> Less(t, b, a)
    [] op = "GtEq"  -> ~Less(t, a, b)

(* Only arrays of the same one of these four types are compared.           *)
compare_arrays(l, r, op) ==
  IF l.type = r.type /\ l.type \in {"UInt64", "Int64", "Float64", "Utf8"}
  THEN Kernel("Boolean", l, r, LAMBDA a, b : Compare(l.type, op, a, b))
  ELSE ErrA

FloatArith(op, a, b) ==
  CASE op = "Add" -> a + b
    [] op = "Sub" -> a - b
    [] op = "Mul" -> Quot(a * b, FloatUnit)
    [] op = "Div" -> Quot(a * FloatUnit, b)

(* Integer kernels fail on overflow and on division by zero.  A float      *)
(* divided by zero is outside the model.                                   *)
arithmetic_arrays(l, r, op) ==
  CASE op \in Arithmetic \ {"Mod"} /\ l.type = "Int64" /\ r.type = "Int64" ->
         LET v == Kernel("Int64", l, r, LAMBDA a, b : Checked(op, a, b))
         IN  IF \E i \in DOMAIN v.vals : v.vals[i] = <<>> THEN ErrA
             ELSE Array(v.type, [i \in DOMAIN v.vals |-> IF v.vals[i] = NULL THEN NULL ELSE v.vals[i][1]])
    [] op \in Arithmetic \ {"Mod"} /\ l.type = "Float64" /\ r.type = "Float64" ->
         Kernel("Float64", l, r, LAMBDA a, b : FloatArith(op, a, b))
    [] OTHER -> ErrA

\* The smallest integer is its own negation (in a release build).
negate_numeric(a, slot) ==
  LET Negated(v) == IF a.type = "Int64" /\ v = -IntMax THEN v ELSE -v
  IN  IF a.type \in {"Int64", "Float64"}
      THEN Array(a.type, [i \in DOMAIN a.vals |-> Negated(Under(a.vals[i], a.type, slot))])
      ELSE ErrA

\* Mutant of BoolOp: OR computes AND.
BoolOp_and(op, l, r) ==
  IF l.type = "Boolean" /\ r.type = "Boolean" THEN Kernel("Boolean", l, r, LAMBDA a, b : a /\ b) ELSE ErrA
BoolOp(op, l, r) ==
  IF l.type = "Boolean" /\ r.type = "Boolean"
  THEN Kernel("Boolean", l, r, LAMBDA a, b : IF op = "And" THEN a /\ b ELSE a \/ b)
  ELSE ErrA
-----------------------------------------------------------------------------
(* LIKE.  The pattern is rewritten, % to ".*" and _ to a plain dot, and    *)
(* matched by looking for the parts between the ".*" one after the other,  *)
(* each at its first place.  Patterns with "." or "*" of their own are     *)
(* outside the model.                                                      *)
Percent == 37
Underscore == 95
Dot == 46
glob_to_regex(pat) == [i \in DOMAIN pat |-> IF pat[i] = Underscore THEN Dot ELSE pat[i]]

find(s, part) ==
  LET at == {i \in 1..(Len(s) - Len(part) + 1) : SubSeq(s, i, i + Len(part) - 1) = part}
  IN  IF at = {} THEN 0 ELSE CHOOSE i \in at : \A j \in at : i <= j

RECURSIVE SplitAny(_)
SplitAny(p) ==
  LET at == {i \in DOMAIN p : p[i] = Percent}
      i  == CHOOSE j \in at : \A j2 \in at : j <= j2
  IN  IF at = {} THEN <<p>> ELSE <<SubSeq(p, 1, i - 1)>> \o SplitAny(SubSeq(p, i + 1, Len(p)))

\* What remains of s behind parts i, i + 1, ..., or nothing.
RECURSIVE BehindParts(_, _, _)
BehindParts(s, parts, i) ==
  IF i > Len(parts) THEN <<s>>
  ELSE IF parts[i] = <<>> THEN BehindParts(s, parts, i + 1)
  ELSE LET pos == find(s, parts[i])
       IN  IF pos = 0 \/ (i = 1 /\ pos # 1) THEN <<>>
           ELSE BehindParts(SubSeq(s, pos + Len(parts[i]), Len(s)), parts, i + 1)

\* Mutant of simple_like_match: the end of the text is not anchored.
simple_like_match_unanchored(s, pat) ==
  IF \A i \in DOMAIN pat : pat[i] # Percent THEN s = pat ELSE BehindParts(s, SplitAny(pat), 1) # <<>>
simple_like_match(s, pat) ==
  IF \A i \in DOMAIN pat : pat[i] # Percent THEN s = pat
  ELSE LET rest == BehindParts(s, SplitAny(pat), 1)
       IN  rest # <<>> /\ (pat[Len(pat)] = Percent \/ rest[1] = <<>>)
-----------------------------------------------------------------------------
(* Temporal functions.  A scalar argument is element 0 of its array: on an *)
(* empty batch reading it panics, which ends the query as an error does.   *)
Numeric == {"Float64", "Int64", "UInt64"}
to_f64_slice(a, slot) ==
  [i \in DOMAIN a.vals |-> Under(a.vals[i], a.type, slot) * (IF a.type = "Float64" THEN 1 ELSE FloatUnit)]

time_bucket(width, ts, slot) ==
  IF width > 0 /\ ts.type = "UInt64"
  THEN Array("UInt64", [i \in DOMAIN ts.vals |-> (Under(ts.vals[i], "UInt64", slot) \div width) * width])
  ELSE ErrA
rate(a, window) ==
  IF window > 0 THEN Repeat("Float64", Quot(Len(a.vals) * SecondNs * FloatUnit, window), Len(a.vals)) ELSE ErrA
delta(a, slot) ==
  IF a.type \notin Numeric THEN ErrA
  ELSE LET f == to_f64_slice(a, slot)
       IN  IF f = <<>> THEN Repeat("Float64", 0, 1) ELSE Repeat("Float64", f[Len(f)] - f[1], Len(f))
histogram_quantile(q, a, slot) ==
  IF q < 0 \/ q > FloatUnit \/ a.type \notin Numeric THEN ErrA
  ELSE LET f == SortSeq(to_f64_slice(a, slot), <)
           \* q * (n - 1), rounded to the nearest
           i == (2 * q * (Len(f) - 1) + FloatUnit) \div (2 * FloatUnit)
       IN  IF f = <<>> THEN Repeat("Float64", 0, 1) ELSE Repeat("Float64", f[i + 1], Len(f))

RECURSIVE eval_expr(_, _)

\* A scalar argument, as a value or nothing.
scalar(a, types, slot) ==
  IF a.type \in types /\ a.vals # <<>> THEN <<Under(a.vals[1], a.type, slot)>> ELSE <<>>
scalar_i64(a, slot) == scalar(a, {"Int64", "UInt64"}, slot)
scalar_f64(a, slot) ==
  LET v == scalar(a, {"Float64", "Int64"}, slot)
  IN  IF v # <<>> /\ a.type = "Int64" THEN <<v[1] * FloatUnit>> ELSE v

eval_function(b, name, args) ==
  LET arg == [i \in DOMAIN args |-> eval_expr(b, args[i])]
      failed == \E i \in DOMAIN args : i <= 2 /\ arg[i].type = "Err"
  IN  CASE name = "now" -> Repeat("Int64", Now, Len(b.rows))
        [] name \in {"time_bucket", "rate", "delta", "histogram_quantile"} /\ (Len(args) < 2 \/ failed) -> ErrA
        [] name = "time_bucket" /\ Len(args) >= 2 /\ ~failed ->
             LET w == scalar_i64(arg[1], b.slot) IN IF w = <<>> THEN ErrA ELSE time_bucket(w[1], arg[2], b.slot)
        [] name = "rate" /\ Len(args) >= 2 /\ ~failed ->
             LET w == scalar_i64(arg[2], b.slot) IN IF w = <<>> THEN ErrA ELSE rate(arg[1], w[1])
        [] name = "delta" /\ Len(args) >= 2 /\ ~failed ->
             IF scalar_i64(arg[2], b.slot) = <<>> THEN ErrA ELSE delta(arg[1], b.slot)
        [] name = "histogram_quantile" /\ Len(args) >= 2 /\ ~failed ->
             LET q == scalar_f64(arg[1], b.slot)
             IN  IF q = <<>> \/ (Len(args) >= 3 /\ scalar_i64(arg[3], b.slot) = <<>>) THEN ErrA
                 ELSE histogram_quantile(q[1], arg[2], b.slot)
        [] OTHER -> ErrA

eval_binop(b, op, left, right) ==
  LET l == eval_expr(b, left)
      r == eval_expr(b, right)
  IN  CASE op \in {"And", "Or"} -> BoolOp(op, l, r)
        [] op \in Arithmetic    -> arithmetic_arrays(l, r, op)
        [] op \in Comparisons   -> compare_arrays(l, r, op)

eval_literal(e, n) ==
  CASE e.k = "Int"   -> Repeat("Int64", e.int, n)
    [] e.k = "Float" -> Repeat("Float64", e.float, n)
    [] e.k = "Str"   -> Repeat("Utf8", e.text, n)
    [] e.k = "Bool"  -> Repeat("Boolean", e.bool, n)
    [] e.k = "Null"  -> Repeat("Boolean", NULL, n)

eval_expr(b, e) ==
  LET n == Len(b.rows)
      a == IF e.k \in {"Not", "Neg", "IsNull", "IsNotNull"} THEN eval_expr(b, e.operand) ELSE ErrA
  IN  CASE e.k \in {"Int", "Float", "Str", "Bool", "Null"} -> eval_literal(e, n)
        [] e.k = "Interval" -> Repeat("Int64", e.ns, n)
        [] e.k = "Column"   -> IF Has(b, e.name) THEN Array(TypeOf(b, e.name), [i \in 1..n |-> b.rows[i][e.name]])
                               ELSE ErrA
        [] e.k = "Star"     -> ErrA
        [] e.k = "BinOp"    -> eval_binop(b, e.op, e.left, e.right)
        [] e.k = "Neg"      -> negate_numeric(a, b.slot)
        [] e.k = "Not"      -> IF a.type # "Boolean" THEN ErrA
                               ELSE Array("Boolean", [i \in DOMAIN a.vals |-> IF a.vals[i] = NULL THEN NULL ELSE ~a.vals[i]])
        [] e.k \in {"IsNull", "IsNotNull"} ->
             IF a.type = "Err" THEN ErrA
             ELSE Array("Boolean", [i \in DOMAIN a.vals |-> (a.vals[i] = NULL) = (e.k = "IsNull")])
        [] e.k = "Between"  ->
             LET v == eval_expr(b, e.expr)
             IN  BoolOp("And", compare_arrays(v, eval_expr(b, e.low), "GtEq"),
                               compare_arrays(v, eval_expr(b, e.high), "LtEq"))
        [] e.k = "In"       ->
             LET v == eval_expr(b, e.expr)
             IN  FoldLeft(LAMBDA mask, item : BoolOp("Or", mask, compare_arrays(v, eval_expr(b, item), "Eq")),
                          Repeat("Boolean", FALSE, Len(v.vals)), e.list)
        [] e.k = "Like"     ->
             LET s == eval_expr(b, e.expr)
             IN  IF s.type # "Utf8" THEN ErrA
                 ELSE Array("Boolean", [i \in DOMAIN s.vals |->
                        simple_like_match(Under(s.vals[i], "Utf8", b.slot), glob_to_regex(e.pattern)) # e.negated])
        [] e.k = "Function" -> eval_function(b, e.name, e.args)
=============================================================================
