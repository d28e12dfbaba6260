-------------------------------- MODULE Iql --------------------------------
(***************************************************************************)
(* The syntax of IQL: the AST and the recursive-descent parser.            *)
(*                                                                         *)
(* A node is a record whose k names its variant.  An option is a sequence  *)
(* of at most one element.  Characters are numbers, so that a text is a    *)
(* sequence of numbers.  The lexer is left out: tokens are the input.      *)
(***************************************************************************)
EXTENDS Integers, Sequences

CONSTANTS
  IntMax,     \* one more than the greatest i64
  UnitNs      \* nanoseconds of each unit of an interval, by its letter

ASSUME IqlAssumption ==
  /\ IntMax \in Nat \ {0}
  /\ \A u \in DOMAIN UnitNs : UnitNs[u] \in Nat

\* Two's complement, as a release build computes.
Wrap(n) == ((n + IntMax) % (2 * IntMax)) - IntMax
-----------------------------------------------------------------------------
(* The AST.                                                                *)
Column(n) == [k |-> "Column", name |-> n]
IntLit(i) == [k |-> "Int", int |-> i]
FloatLit(f) == [k |-> "Float", float |-> f]
StrLit(s) == [k |-> "Str", text |-> s]
BoolLit(b) == [k |-> "Bool", bool |-> b]
NullLit == [k |-> "Null"]
Star == [k |-> "Star"]
BinOp(op, l, r) == [k |-> "BinOp", op |-> op, left |-> l, right |-> r]
Not(e) == [k |-> "Not", operand |-> e]
Neg(e) == [k |-> "Neg", operand |-> e]
IsNull(e) == [k |-> "IsNull", operand |-> e]
IsNotNull(e) == [k |-> "IsNotNull", operand |-> e]
Between(e, lo, hi) == [k |-> "Between", expr |-> e, low |-> lo, high |-> hi]
In(e, list) == [k |-> "In", expr |-> e, list |-> list]
Like(e, pat, neg) == [k |-> "Like", expr |-> e, pattern |-> pat, negated |-> neg]
Fn(n, args) == [k |-> "Function", name |-> n, args |-> args]
Interval(ns) == [k |-> "Interval", ns |-> ns]

Comparisons == {"Eq", "NotEq", "Lt", "LtEq", "Gt", "GtEq"}

Projection(e, alias) == [k |-> "Expr", expr |-> e, alias |-> alias]
-----------------------------------------------------------------------------
(* Tokens, and the outcome of a parse function: a value and the position   *)
(* behind it, or an error.  The last token is Eof, and is never passed.    *)
Tok(t) == [t |-> t]
Ident(n) == [t |-> "Ident", name |-> n]

Ok(v, p) == [ok |-> TRUE, v |-> v, p |-> p]
Fail == [ok |-> FALSE]
Then(r, F(_, _)) == IF r.ok THEN F(r.v, r.p) ELSE Fail

peek(T, p) == T[p].t
Next1(T, p) == IF p < Len(T) THEN p + 1 ELSE p
expect(T, p, t) == IF peek(T, p) = t THEN Ok(t, Next1(T, p)) ELSE Fail
eat_optional(T, p, t) == IF peek(T, p) = t THEN Next1(T, p) ELSE p
expect_ident(T, p) == IF peek(T, p) = "Ident" THEN Ok(T[p].name, Next1(T, p)) ELSE Fail
expect_int(T, p) == IF peek(T, p) = "IntLit" THEN Ok(T[p].int, Next1(T, p)) ELSE Fail
expect_string(T, p) == IF peek(T, p) = "StrLit" THEN Ok(T[p].text, Next1(T, p)) ELSE Fail

(* The text of an interval is a number and a unit.                         *)
parse_interval(s) ==
  IF Len(s) = 2 /\ s[2] \in DOMAIN UnitNs THEN <<Wrap(s[1] * UnitNs[s[2]])>> ELSE <<>>

\* The operators of each level that loops over operands of the next one.
OpsOf(level) ==
  CASE level = "or"   -> [Or |-> "Or"]
    [] level = "and"  -> [And |-> "And"]
    [] level = "add"  -> [Plus |-> "Add", Minus |-> "Sub"]
    [] level = "mul"  -> [Star |-> "Mul", Slash |-> "Div", Percent |-> "Mod"]

CompareOp == [Eq |-> "Eq", NotEq |-> "NotEq", Lt |-> "Lt", LtEq |-> "LtEq", Gt |-> "Gt", GtEq |-> "GtEq"]

RECURSIVE parse_level(_, _, _), parse_rest(_, _, _, _), parse_not(_, _), parse_comparison(_, _),
          parse_unary(_, _), parse_primary(_, _), parse_comma_separated(_, _, _)

parse_expr(T, p) == parse_level(T, p, "or")
parse_addition(T, p) == parse_level(T, p, "add")

\* Mutant of parse_operand: NOT binds more tightly than AND's operands need it to.
parse_operand_flat(T, p, level) ==
  CASE level = "or"  -> parse_not(T, p)
    [] level = "and" -> parse_not(T, p)
    [] level = "add" -> parse_level(T, p, "mul")
    [] level = "mul" -> parse_unary(T, p)
parse_operand(T, p, level) ==
  CASE level = "or"  -> parse_level(T, p, "and")
    [] level = "and" -> parse_not(T, p)
    [] level = "add" -> parse_level(T, p, "mul")
    [] level = "mul" -> parse_unary(T, p)

(* parse_or, parse_and, parse_addition and parse_multiplication: operands  *)
(* and operators, grouped to the left.                                     *)
parse_level(T, p, level) ==
  Then(parse_operand(T, p, level), LAMBDA e, q : parse_rest(T, q, level, e))
parse_rest(T, p, level, left) ==
  LET ops == OpsOf(level)
  IN  IF peek(T, p) \in DOMAIN ops
      THEN Then(parse_operand(T, Next1(T, p), level),
                LAMBDA right, q : parse_rest(T, q, level, BinOp(ops[peek(T, p)], left, right)))
      ELSE Ok(left, p)

parse_not(T, p) ==
  IF peek(T, p) = "Not"
  THEN Then(parse_not(T, Next1(T, p)), LAMBDA e, q : Ok(Not(e), q))
  ELSE parse_comparison(T, p)

parse_in_list(T, p) ==
  Then(expect(T, p, "LParen"),
       LAMBDA t, q : Then(parse_comma_separated(T, q, "expr"),
                          LAMBDA list, s : Then(expect(T, s, "RParen"), LAMBDA u, w : Ok(list, w))))

parse_comparison(T, p) ==
  Then(parse_addition(T, p),
    LAMBDA left, q :
      LET t == peek(T, q)
          r == Next1(T, q)
      IN  CASE t \in DOMAIN CompareOp ->
                 Then(parse_addition(T, r), LAMBDA e, s : Ok(BinOp(CompareOp[t], left, e), s))
            [] t = "Is" ->
                 LET neg == peek(T, r) = "Not"
                 IN  Then(expect(T, eat_optional(T, r, "Not"), "Null"),
                          LAMBDA u, s : Ok(IF neg THEN IsNotNull(left) ELSE IsNull(left), s))
            [] t = "Between" ->
                 Then(parse_addition(T, r),
                      LAMBDA lo, s : Then(expect(T, s, "And"),
                        LAMBDA u, w : Then(parse_addition(T, w), LAMBDA hi, x : Ok(Between(left, lo, hi), x))))
            [] t = "In" -> Then(parse_in_list(T, r), LAMBDA list, s : Ok(In(left, list), s))
            [] t = "Like" -> Then(expect_string(T, r), LAMBDA pat, s : Ok(Like(left, pat, FALSE), s))
            [] t = "Not" /\ peek(T, r) = "In" ->
                 Then(parse_in_list(T, Next1(T, r)), LAMBDA list, s : Ok(Not(In(left, list)), s))
            [] t = "Not" /\ peek(T, r) = "Like" ->
                 Then(expect_string(T, Next1(T, r)), LAMBDA pat, s : Ok(Like(left, pat, TRUE), s))
            [] t = "Not" /\ peek(T, r) \notin {"In", "Like"} -> Fail
            [] OTHER -> Ok(left, q))

parse_unary(T, p) ==
  IF peek(T, p) = "Minus"
  THEN Then(parse_unary(T, Next1(T, p)), LAMBDA e, q : Ok(Neg(e), q))
  ELSE parse_primary(T, p)

parse_primary(T, p) ==
  LET t == peek(T, p)
      q == Next1(T, p)
  IN  CASE t = "IntLit"   -> Ok(IntLit(T[p].int), q)
        [] t = "FloatLit" -> Ok(FloatLit(T[p].float), q)
        [] t = "StrLit"   -> Ok(StrLit(T[p].text), q)
        [] t = "True"     -> Ok(BoolLit(TRUE), q)
        [] t = "False"    -> Ok(BoolLit(FALSE), q)
        [] t = "Null"     -> Ok(NullLit, q)
        [] t = "Star"     -> Ok(Star, q)
        [] t = "LParen"   ->
             Then(parse_expr(T, q), LAMBDA e, r : Then(expect(T, r, "RParen"), LAMBDA u, s : Ok(e, s)))
        [] t = "Interval" ->
             Then(expect_string(T, q),
                  LAMBDA text, r : IF parse_interval(text) = <<>> THEN Fail
                                   ELSE Ok(Interval(parse_interval(text)[1]), r))
        [] t = "Ident"    ->
             CASE peek(T, q) = "Dot" -> Then(expect_ident(T, Next1(T, q)), LAMBDA n, r : Ok(Column(n), r))
               [] peek(T, q) = "LParen" ->
                    LET r == Next1(T, q)
                    IN  IF peek(T, r) = "RParen" THEN Ok(Fn(T[p].name, <<>>), Next1(T, r))
                        ELSE Then(parse_comma_separated(T, r, "expr"),
                                  LAMBDA args, s : Then(expect(T, s, "RParen"),
                                                        LAMBDA u, w : Ok(Fn(T[p].name, args), w)))
               [] OTHER -> Ok(Column(T[p].name), q)
        [] OTHER -> Fail
-----------------------------------------------------------------------------
(* The clauses of a statement.  AS before an alias may be left out.        *)
parse_alias(T, p) ==
  CASE peek(T, p) = "As"    -> Then(expect_ident(T, Next1(T, p)), LAMBDA n, q : Ok(<<n>>, q))
    [] peek(T, p) = "Ident" -> Ok(<<T[p].name>>, Next1(T, p))
    [] OTHER                -> Ok(<<>>, p)

parse_projection(T, p) ==
  IF peek(T, p) = "Star" THEN Ok(Star, Next1(T, p))
  ELSE Then(parse_expr(T, p),
            LAMBDA e, q : Then(parse_alias(T, q), LAMBDA a, r : Ok(Projection(e, a), r)))

parse_order_by_item(T, p) ==
  Then(parse_expr(T, p),
       LAMBDA e, q : Ok([expr |-> e, asc |-> peek(T, q) # "Desc"],
                        IF peek(T, q) \in {"Asc", "Desc"} THEN Next1(T, q) ELSE q))

parse_item(T, p, what) ==
  CASE what = "expr"       -> parse_expr(T, p)
    [] what = "projection" -> parse_projection(T, p)
    [] what = "order"      -> parse_order_by_item(T, p)

parse_comma_separated(T, p, what) ==
  Then(parse_item(T, p, what),
       LAMBDA e, q : IF peek(T, q) = "Comma"
                     THEN Then(parse_comma_separated(T, Next1(T, q), what),
                               LAMBDA rest, r : Ok(<<e>> \o rest, r))
                     ELSE Ok(<<e>>, q))

parse_table_ref(T, p) ==
  Then(expect_ident(T, p),
       LAMBDA n, q : Then(parse_alias(T, q), LAMBDA a, r : Ok(n, r)))

RECURSIVE parse_joins(_, _)
parse_joins(T, p) ==
  LET t == peek(T, p)
      q == Next1(T, p)
      join == CASE t = "Join"  -> Ok("Inner", q)
                [] t = "Inner" -> Then(expect(T, q, "Join"), LAMBDA u, r : Ok("Inner", r))
                [] t \in {"Left", "Right"} ->
                     Then(expect(T, eat_optional(T, q, "Inner"), "Join"), LAMBDA u, r : Ok(t, r))
  IN  IF t \notin {"Join", "Inner", "Left", "Right"} THEN Ok(<<>>, p)
      ELSE Then(join, LAMBDA kind, r : Then(parse_table_ref(T, r),
             LAMBDA table, s : Then(expect(T, s, "On"),
               LAMBDA u, w : Then(parse_expr(T, w),
                 LAMBDA cond, x : Then(parse_joins(T, x),
                   LAMBDA rest, y : Ok(<<[kind |-> kind, table |-> table, condition |-> cond]>> \o rest, y))))))

SomeExpr(T, p) == Then(parse_expr(T, p), LAMBDA e, q : Ok(<<e>>, q))
SomeInt(T, p) == Then(expect_int(T, p), LAMBDA n, q : Ok(<<n>>, q))
ByExprs(T, p) == Then(expect(T, p, "By"), LAMBDA u, q : parse_comma_separated(T, q, "expr"))
ByOrder(T, p) == Then(expect(T, p, "By"), LAMBDA u, q : parse_comma_separated(T, q, "order"))

\* A clause that starts with the token t, where it is present.
Clause(T, p, t) ==
  IF peek(T, p) # t THEN Ok(<<>>, p)
  ELSE LET q == Next1(T, p)
       IN  CASE t \in {"Where", "Having"} -> SomeExpr(T, q)
             [] t = "Group"               -> ByExprs(T, q)
             [] t = "Order"               -> ByOrder(T, q)
             [] t \in {"Limit", "Offset"} -> SomeInt(T, q)

parse_select(T, p) ==
  Then(expect(T, p, "Select"), LAMBDA u1, p1 :
  Then(parse_comma_separated(T, eat_optional(T, p1, "Distinct"), "projection"), LAMBDA projections, p2 :
  Then(expect(T, p2, "From"), LAMBDA u2, p3 :
  Then(parse_table_ref(T, p3), LAMBDA from, p4 :
  Then(parse_joins(T, p4), LAMBDA joins, p5 :
  Then(Clause(T, p5, "Where"), LAMBDA filter, p6 :
  Then(Clause(T, p6, "Group"), LAMBDA group_by, p7 :
  Then(Clause(T, p7, "Having"), LAMBDA having, p8 :
  Then(Clause(T, p8, "Order"), LAMBDA order_by, p9 :
  Then(Clause(T, p9, "Limit"), LAMBDA limit, p10 :
  Then(Clause(T, p10, "Offset"), LAMBDA offset, p11 :
    Ok([projections |-> projections, from |-> from, joins |-> joins, filter |-> filter,
        group_by |-> group_by, having |-> having, order_by |-> order_by,
        limit |-> limit, offset |-> offset], p11))))))))))))

(* One statement, with or without a semicolon, and nothing behind it.      *)
parse_statement(T) ==
  Then(parse_select(T, 1),
       LAMBDA s, p : Then(expect(T, eat_optional(T, p, "Semicolon"), "Eof"), LAMBDA u, q : Ok(s, q)))
=============================================================================
