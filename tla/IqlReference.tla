---------------------------- MODULE IqlReference ----------------------------
(***************************************************************************)
(* What IQL means, independently of the engine: the text of a statement    *)
(* with no more parentheses than the documented precedence asks for, and   *)
(* the value of an expression on a row in the three-valued logic of SQL.   *)
(***************************************************************************)
EXTENDS QueryExec

(* OR < AND < NOT < comparison < addition < multiplication < unary.        *)
Prec(e) ==
  CASE e.k = "BinOp" /\ e.op = "Or"  -> 1
    [] e.k = "BinOp" /\ e.op = "And" -> 2
    [] e.k = "Not" -> 3
    [] e.k = "BinOp" /\ e.op \in Comparisons -> 4
    [] e.k \in {"IsNull", "IsNotNull", "Between", "In", "Like"} -> 4
    [] e.k = "BinOp" /\ e.op \in {"Add", "Sub"} -> 5
    [] e.k = "BinOp" /\ e.op \in {"Mul", "Div", "Mod"} -> 6
    [] e.k = "Neg" -> 7
    [] OTHER -> 8

OpToken == [Or |-> "Or", And |-> "And", Add |-> "Plus", Sub |-> "Minus", Mul |-> "Star", Div |-> "Slash",
            Mod |-> "Percent", Eq |-> "Eq", NotEq |-> "NotEq", Lt |-> "Lt", LtEq |-> "LtEq", Gt |-> "Gt",
            GtEq |-> "GtEq"]

\* Token sequences with commas between them.
Commas(texts) == FlattenSeq([i \in DOMAIN texts |-> IF i = 1 THEN texts[i] ELSE <<Tok("Comma")>> \o texts[i]])
Parens(text) == <<Tok("LParen")>> \o text \o <<Tok("RParen")>>

RECURSIVE Text(_, _)
Words(e) ==
  CASE e.k = "Column"    -> <<Ident(e.name)>>
    [] e.k = "Int"       -> <<[t |-> "IntLit", int |-> e.int]>>
    [] e.k = "Float"     -> <<[t |-> "FloatLit", float |-> e.float]>>
    [] e.k = "Str"       -> <<[t |-> "StrLit", text |-> e.text]>>
    [] e.k = "Bool"      -> <<Tok(IF e.bool THEN "True" ELSE "False")>>
    [] e.k = "Null"      -> <<Tok("Null")>>
    [] e.k = "Star"      -> <<Tok("Star")>>
    [] e.k = "Interval"  -> <<Tok("Interval"), [t |-> "StrLit", text |-> <<e.ns, 115>>]>>
    [] e.k = "Function"  -> <<Ident(e.name)>> \o Parens(Commas([i \in DOMAIN e.args |-> Text(e.args[i], 1)]))
    [] e.k = "Neg"       -> <<Tok("Minus")>> \o Text(e.operand, 7)
    [] e.k = "Not"       -> <<Tok("Not")>> \o Text(e.operand, 3)
    [] e.k = "IsNull"    -> Text(e.operand, 5) \o <<Tok("Is"), Tok("Null")>>
    [] e.k = "IsNotNull" -> Text(e.operand, 5) \o <<Tok("Is"), Tok("Not"), Tok("Null")>>
    [] e.k = "Between"   -> Text(e.expr, 5) \o <<Tok("Between")>> \o Text(e.low, 5) \o <<Tok("And")>> \o Text(e.high, 5)
    [] e.k = "In"        -> Text(e.expr, 5) \o <<Tok("In")>> \o Parens(Commas([i \in DOMAIN e.list |-> Text(e.list[i], 1)]))
    [] e.k = "Like"      -> Text(e.expr, 5) \o (IF e.negated THEN <<Tok("Not")>> ELSE <<>>)
                              \o <<Tok("Like"), [t |-> "StrLit", text |-> e.pattern]>>
    [] e.k = "BinOp" /\ e.op \in Comparisons    -> Text(e.left, 5) \o <<Tok(OpToken[e.op])>> \o Text(e.right, 5)
    [] e.k = "BinOp" /\ e.op \notin Comparisons ->
         Text(e.left, Prec(e)) \o <<Tok(OpToken[e.op])>> \o Text(e.right, Prec(e) + 1)

\* Text(e, p): e where an operand of precedence p or higher is wanted.
Text(e, p) == IF Prec(e) < p THEN Parens(Words(e)) ELSE Words(e)

ClauseText(t, opt) == IF opt = <<>> THEN <<>> ELSE <<Tok(t)>> \o Text(opt[1], 1)
NumberText(t, opt) == IF opt = <<>> THEN <<>> ELSE <<Tok(t), [t |-> "IntLit", int |-> opt[1]]>>
ProjectionText(p) ==
  IF p.k = "Star" THEN <<Tok("Star")>>
  ELSE Text(p.expr, 1) \o (IF p.alias = <<>> THEN <<>> ELSE <<Tok("As"), Ident(p.alias[1])>>)
JoinText(j) ==
  (IF j.kind = "Inner" THEN <<>> ELSE <<Tok(j.kind)>>) \o <<Tok("Join"), Ident(j.table), Tok("On")>> \o Text(j.condition, 1)
OrderText(o) == Text(o.expr, 1) \o (IF o.asc THEN <<>> ELSE <<Tok("Desc")>>)

StatementText(sel) ==
  <<Tok("Select")>> \o Commas([i \in DOMAIN sel.projections |-> ProjectionText(sel.projections[i])])
    \o <<Tok("From"), Ident(sel.from)>>
    \o FlattenSeq([i \in DOMAIN sel.joins |-> JoinText(sel.joins[i])])
    \o ClauseText("Where", sel.filter)
    \o (IF sel.group_by = <<>> THEN <<>>
        ELSE <<Tok("Group"), Tok("By")>> \o Commas([i \in DOMAIN sel.group_by |-> Text(sel.group_by[i], 1)]))
    \o ClauseText("Having", sel.having)
    \o (IF sel.order_by = <<>> THEN <<>>
        ELSE <<Tok("Order"), Tok("By")>> \o Commas([i \in DOMAIN sel.order_by |-> OrderText(sel.order_by[i])]))
    \o NumberText("Limit", sel.limit) \o NumberText("Offset", sel.offset)
    \o <<Tok("Eof")>>
-----------------------------------------------------------------------------
RECURSIVE Matches(_, _)
Matches(s, p) ==
  IF p = <<>> THEN s = <<>>
  ELSE IF Head(p) = Percent THEN \E i \in 0..Len(s) : Matches(SubSeq(s, i + 1, Len(s)), Tail(p))
  ELSE s # <<>> /\ Head(p) \in {Head(s), Underscore} /\ Matches(Tail(s), Tail(p))

IsText(e) == e.k = "Str" \/ (e.k = "Column" /\ e.name \in {"name", "unit"})

Kleene(op, a, b) ==
  LET absorbing == op = "Or"
  IN  IF absorbing \in {a, b} THEN absorbing
      ELSE IF NULL \in {a, b} THEN NULL ELSE ~absorbing

\* The value of e on the row r.  Column values are numbers, texts or NULL.
RECURSIVE Value(_, _)
Value(e, r) ==
  CASE e.k = "Column" -> r[e.name]
    [] e.k = "Int"    -> e.int
    [] e.k = "Float"  -> e.float
    [] e.k = "Str"    -> e.text
    [] e.k = "Bool"   -> e.bool
    [] e.k = "Null"   -> NULL
    [] e.k = "Interval" -> e.ns
    [] e.k = "BinOp" /\ e.op \in {"And", "Or"} -> Kleene(e.op, Value(e.left, r), Value(e.right, r))
    [] e.k = "BinOp" /\ e.op \notin {"And", "Or"} ->
         LET a == Value(e.left, r)
             b == Value(e.right, r)
         IN  CASE a = NULL \/ b = NULL -> NULL
               [] a # NULL /\ b # NULL /\ e.op \in Comparisons ->
                    Compare(IF IsText(e.left) THEN "Utf8" ELSE "Int64", e.op, a, b)
               [] OTHER -> Checked(e.op, a, b)[1]
    [] e.k = "Not" -> LET a == Value(e.operand, r) IN IF a = NULL THEN NULL ELSE ~a
    [] e.k = "Neg" -> LET a == Value(e.operand, r) IN IF a = NULL THEN NULL ELSE -a
    [] e.k = "IsNull"    -> Value(e.operand, r) = NULL
    [] e.k = "IsNotNull" -> Value(e.operand, r) # NULL
    [] e.k = "Between"   -> Value(BinOp("And", BinOp("GtEq", e.expr, e.low), BinOp("LtEq", e.expr, e.high)), r)
    [] e.k = "In"   -> FoldLeft(LAMBDA acc, item : Kleene("Or", acc, Value(BinOp("Eq", e.expr, item), r)), FALSE, e.list)
    [] e.k = "Like" -> LET s == Value(e.expr, r) IN IF s = NULL THEN NULL ELSE Matches(s, e.pattern) # e.negated
    [] e.k = "Function" /\ e.name = "now" -> Now
    [] e.k = "Function" /\ e.name = "time_bucket" ->
         LET w == Value(e.args[1], r) IN (Value(e.args[2], r) \div w) * w
=============================================================================
