------------------------------ MODULE MCQuery ------------------------------
(***************************************************************************)
(* A small instance of Query: small tables in up to three partitions, and  *)
(* the statements asked of them.                                           *)
(***************************************************************************)
EXTENDS Query

MCUnitNs == (115 :> 1) @@ (109 :> 60)

a == <<1>>
b == <<2>>
aa == <<1, 1>>
Row(t, n, u, d, v) ==
  [timestamp_ns |-> t, name |-> n, unit |-> u, metric_type |-> 0, value_double |-> d, value_int |-> v]
File(p, rows) == [part |-> p, rows |-> rows]

Single == <<File(1, <<Row(12, b, a, 6, 2), Row(11, a, b, 12, 1)>>)>>
Spread == <<File(1, <<Row(13, a, a, 6, 3), Row(11, b, a, 18, 1), Row(12, a, b, 12, 1)>>),
            File(2, <<Row(22, b, b, 24, 5)>>)>>
Nulls == <<File(1, <<Row(11, a, NULL, 6, NULL), Row(12, b, a, NULL, 2)>>),
           File(2, <<Row(21, aa, NULL, 12, 4)>>)>>
AllWords ==
  <<<<>>, <<1>>, <<2>>, <<1, 1>>, <<1, 2>>, <<2, 1>>, <<2, 2>>, <<1, 1, 1>>, <<1, 1, 2>>, <<1, 2, 1>>, <<1, 2, 2>>,
    <<2, 1, 1>>, <<2, 1, 2>>, <<2, 2, 1>>, <<2, 2, 2>>>>
Lettered == <<File(1, [i \in DOMAIN AllWords |-> Row(11, AllWords[i], a, 6, 1)])>>
MCTables == {<<>>, Single, Spread, Nulls, Lettered}
MCLateFiles == {File(3, <<Row(31, a, a, 12, 2)>>)}
-----------------------------------------------------------------------------
ts == Column("timestamp_ns")
vi == Column("value_int")
vd == Column("value_double")
nm == Column("name")
un == Column("unit")
Cmp(op, l, r) == BinOp(op, l, r)
And(l, r) == BinOp("And", l, r)
Or(l, r) == BinOp("Or", l, r)
I(n) == IntLit(n)

All == [projections |-> <<Star>>, from |-> "metrics", joins |-> <<>>, filter |-> <<>>, group_by |-> <<>>,
        having |-> <<>>, order_by |-> <<>>, limit |-> <<>>, offset |-> <<>>]
Where(e) == [All EXCEPT !.filter = <<e>>]
Text0(sel) == [tokens |-> StatementText(sel), means |-> <<sel>>]

\* Expressions for the parser, of up to three operators.
BinOps == {"Or", "And", "Eq", "Lt", "Add", "Sub", "Mul", "Mod"}
Over(S, x) ==
  {BinOp(op, e, x) : op \in BinOps, e \in S} \cup {BinOp(op, x, e) : op \in BinOps, e \in S}
    \cup {Not(e) : e \in S} \cup {Neg(e) : e \in S} \cup {IsNull(e) : e \in S} \cup {IsNotNull(e) : e \in S}
    \cup {Between(e, x, I(2)) : e \in S} \cup {Between(x, e, I(2)) : e \in S} \cup {Between(x, I(2), e) : e \in S}
    \cup {In(e, <<x, I(2)>>) : e \in S} \cup {In(x, <<e, e>>) : e \in S}
    \cup {Like(e, <<Percent, 1>>, n) : e \in S, n \in BOOLEAN} \cup {Fn("time_bucket", <<Interval(2), e>>) : e \in S}
Exprs1 == Over({vi}, I(1))
Exprs2 == Over(Exprs1, I(1))
ExprTexts == {Text0(Where(e)) : e \in Exprs2} \cup {Text0(Where(BinOp(op, x, y))) : op \in BinOps, x, y \in Over({vi}, I(1))}

LikePatterns == UNION {[1..n -> {1, 2, Percent, Underscore}] : n \in 0..3}
LikeTexts == {Text0(Where(Like(nm, p, n))) : p \in LikePatterns, n \in BOOLEAN}
-----------------------------------------------------------------------------
Predicates ==
  {Cmp("GtEq", vi, I(2)), Cmp("Lt", vd, FloatLit(13)), Cmp("NotEq", nm, StrLit(a)), Cmp("Gt", un, nm),
   Cmp("GtEq", ts, I(12)), Cmp("Eq", ts, ts), Cmp("Eq", vi, vd),
   And(Cmp("GtEq", ts, I(12)), Cmp("LtEq", ts, I(21))), And(Cmp("LtEq", ts, I(21)), Cmp("GtEq", ts, I(12))),
   Or(Cmp("GtEq", ts, I(22)), Cmp("Eq", nm, StrLit(a))), Between(ts, I(11), I(13)), Between(ts, BinOp("Sub", I(0), I(5)), I(13)),
   And(Between(ts, I(11), I(22)), Cmp("Eq", nm, StrLit(b))),
   Or(Cmp("Eq", vi, I(2)), Cmp("Eq", un, StrLit(a))), Or(Cmp("Eq", vi, I(2)), Cmp("Eq", nm, StrLit(a))),
   And(Cmp("Lt", vi, I(4)), Cmp("Gt", vd, FloatLit(6))), Not(And(Cmp("Eq", vi, I(2)), Cmp("Eq", nm, StrLit(b)))),
   IsNull(vi), IsNotNull(un), Not(In(vi, <<I(1), I(5)>>)), In(nm, <<StrLit(a), un>>), Between(vi, I(2), I(4)),
   Like(un, <<Percent>>, FALSE), Like(nm, <<1, Percent>>, TRUE), Cmp("Lt", Neg(vi), Neg(I(1))),
   Cmp("Eq", BinOp("Mod", I(5), I(3)), vi), Cmp("Eq", BinOp("Mod", vi, I(2)), I(1)),
   Cmp("Gt", BinOp("Mul", vi, I(20)), I(30)), Cmp("Lt", BinOp("Div", I(6), BinOp("Sub", vi, I(1))), I(7)),
   Cmp("GtEq", BinOp("Add", vd, FloatLit(6)), FloatLit(18)), Cmp("Lt", vi, BinOp("Sub", Fn("now", <<>>), I(38))),
   Cmp("Lt", vi, BinOp("Sub", Fn("now", <<>>), Interval(38))),
   Cmp("Eq", Fn("time_bucket", <<Interval(1), ts>>), ts), Cmp("Lt", Fn("time_bucket", <<Interval(5), ts>>), ts),
   Cmp("Gt", Fn("delta", <<vi, Interval(60)>>), FloatLit(0)), Cmp("Lt", Fn("delta", <<vd, Interval(60)>>), FloatLit(1)),
   Cmp("Gt", Fn("rate", <<vi, Interval(5)>>), FloatLit(20)),
   Cmp("Eq", Fn("histogram_quantile", <<FloatLit(6), vi, I(10)>>), FloatLit(12)),
   Cmp("Eq", Fn("histogram_quantile", <<FloatLit(2), vd>>), FloatLit(6)), Cmp("Eq", Fn("sqrt", <<vi>>), I(1)),
   BoolLit(TRUE), NullLit, vi, Column("nope")}

By(e, asc) == [expr |-> e, asc |-> asc]
Agg(f, c, as) == Projection(Fn(f, <<c>>), as)
Aggs == <<Agg("count", Star, <<"n">>), Agg("sum", vi, <<"s">>), Agg("avg", vd, <<>>), Agg("min", vi, <<"lo">>), Agg("max", vd, <<"hi">>)>>
P == Cmp("GtEq", vi, I(2))
Q == Cmp("Lt", vd, FloatLit(13))
G == [All EXCEPT !.projections = <<Projection(nm, <<>>), Agg("count", Star, <<"n">>)>>, !.group_by = <<nm>>]

QueryStatements ==
  {All} \cup {Where(p) : p \in Predicates} \cup
  {[All EXCEPT !.limit = <<n>>, !.offset = o, !.filter = f] : n \in 0..3, o \in {<<>>, <<1>>}, f \in {<<>>, <<P>>}} \cup
  {[All EXCEPT !.limit = l, !.order_by = o, !.filter = f] :
     l \in {<<>>, <<1>>, <<2>>}, f \in {<<>>, <<P>>},
     o \in {<<By(vi, TRUE)>>, <<By(vi, FALSE), By(ts, TRUE)>>, <<By(un, TRUE), By(vd, FALSE)>>, <<By(I(1), TRUE)>>}} \cup
  {[All EXCEPT !.projections = Aggs, !.filter = f, !.having = h, !.limit = l] :
     f \in {<<>>, <<P>>, <<Cmp("Gt", vi, I(9))>>}, h \in {<<>>, <<Cmp("Gt", Column("n"), I(1))>>}, l \in {<<>>, <<1>>}} \cup
  {[All EXCEPT !.projections = <<Agg(f, c, <<>>)>>] : f \in {"max", "count"}, c \in {ts, vi}} \cup
  {[All EXCEPT !.projections = <<Projection(Fn("count", <<>>), <<>>)>>, !.having = <<Cmp("Gt", Fn("count", <<Star>>), I(1))>>],
   [All EXCEPT !.projections = <<Projection(Fn("sum", <<Column("nope")>>), <<>>)>>],
   G, [G EXCEPT !.filter = <<P>>], [G EXCEPT !.filter = <<Cmp("Gt", vi, I(9))>>],
   [G EXCEPT !.group_by = <<nm, un>>, !.projections = <<Projection(nm, <<>>)>>],
   [All EXCEPT !.filter = <<P>>, !.having = <<Q>>], [All EXCEPT !.having = <<Q>>], [All EXCEPT !.offset = <<1>>],
   [All EXCEPT !.from = "logs"], [All EXCEPT !.from = "nope"],
   [All EXCEPT !.projections = <<Projection(nm, <<>>), Projection(vi, <<"v">>), Projection(BinOp("Add", vi, I(1)), <<>>)>>]}
  \cup {[All EXCEPT !.joins = <<[kind |-> k, table |-> "logs", condition |-> Cmp("Eq", ts, ts)]>>, !.filter = f] :
          k \in {"Inner", "Left", "Right"}, f \in {<<>>, <<P>>}}

\* Other spellings, and texts that mean nothing.
S0 == <<Tok("Select"), Tok("Star"), Tok("From"), Ident("metrics")>>
N(n) == [t |-> "IntLit", int |-> n]
V == Ident("value_int")
Spelled ==
  {[tokens |-> <<Tok("Select"), Tok("Star"), Tok("From"), Ident("metrics"), Tok("As"), Ident("m"),
                 Tok("Where"), Ident("m"), Tok("Dot"), V, Tok("Eq"), Tok("LParen"), N(1), Tok("RParen"), Tok("Semicolon"), Tok("Eof")>>,
    means |-> <<Where(Cmp("Eq", vi, I(1)))>>],
   [tokens |-> S0 \o <<Ident("m"), Tok("Where"), V, Tok("Not"), Tok("In"), Tok("LParen"), N(1), Tok("RParen"),
                       Tok("Order"), Tok("By"), V, Tok("Asc"), Tok("Eof")>>,
    means |-> <<[Where(Not(In(vi, <<I(1)>>))) EXCEPT !.order_by = <<By(vi, TRUE)>>]>>],
   [tokens |-> <<Tok("Select"), V, Ident("v"), Tok("From"), Ident("metrics"), Tok("Left"), Tok("Inner"), Tok("Join"),
                 Ident("logs"), Tok("On"), Tok("True"), Tok("Inner"), Tok("Join"), Ident("logs"), Tok("On"), Tok("False"), Tok("Eof")>>,
    means |-> <<[All EXCEPT !.projections = <<Projection(vi, <<"v">>)>>,
                            !.joins = <<[kind |-> "Left", table |-> "logs", condition |-> BoolLit(TRUE)],
                                        [kind |-> "Inner", table |-> "logs", condition |-> BoolLit(FALSE)]>>]>>],
   [tokens |-> S0 \o <<Tok("Where"), V, Tok("Gt"), Tok("Interval"), [t |-> "StrLit", text |-> <<1, 109>>], Tok("Eof")>>,
    means |-> <<Where(Cmp("Gt", vi, Interval(60)))>>]}
Meaningless ==
  {[tokens |-> t, means |-> None] :
     t \in {<<Tok("Eof")>>, <<Tok("Select"), Tok("Star"), Tok("Eof")>>,
            S0 \o <<Tok("Where"), V, Tok("Lt"), N(1), Tok("Lt"), N(2), Tok("Eof")>>,
            S0 \o <<Tok("Where"), V, Tok("Not"), Tok("Between"), N(1), Tok("And"), N(2), Tok("Eof")>>,
            S0 \o <<Tok("Where"), V, Tok("Gt"), Tok("Interval"), [t |-> "StrLit", text |-> <<1, 1>>], Tok("Eof")>>,
            S0 \o <<Tok("Limit"), V, Tok("Eof")>>, S0 \o <<Tok("Offset"), N(1), Tok("Limit"), N(1), Tok("Eof")>>,
            S0 \o <<Tok("Where"), Tok("LParen"), V, Tok("Eof")>>, S0 \o <<Tok("Semicolon"), Tok("Semicolon"), Tok("Eof")>>}}

QueryTexts == {Text0(s) : s \in QueryStatements} \cup Spelled \cup Meaningless

\* Many expressions are only parsed: they are asked of the empty table.
MCTexts(fs) ==
  IF fs = <<>> THEN ExprTexts ELSE IF fs[1] = Lettered[1] THEN LikeTexts ELSE QueryTexts
=============================================================================
