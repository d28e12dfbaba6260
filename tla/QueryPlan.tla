----------------------------- MODULE QueryPlan -----------------------------
(***************************************************************************)
(* From a statement to the plan that is run: the planner, the four rules   *)
(* of the optimizer in the order it applies them, and the catalog's        *)
(* overlap test they use.  A plan is a record whose op names its variant.  *)
(***************************************************************************)
EXTENDS Iql, FiniteSets, TLC

CONSTANT Now      \* what the clock reads while a query runs
-----------------------------------------------------------------------------
(* Planner.                                                                *)
Scan(table, limit) ==
  [op |-> "Scan", table |-> table, predicate |-> <<>>, projection |-> <<>>,
   partition_filter |-> {}, limit |-> limit]
Filter(e, input) == [op |-> "Filter", predicate |-> e, input |-> input]
Aggregate(keys, aggs, input) == [op |-> "Aggregate", keys |-> keys, aggregates |-> aggs, input |-> input]
Project(columns, input) == [op |-> "Project", columns |-> columns, input |-> input]
Sort(keys, input) == [op |-> "Sort", keys |-> keys, input |-> input]
Limit(n, offset, input) == [op |-> "Limit", n |-> n, offset |-> offset, input |-> input]
Join(kind, left, right, cond) ==
  [op |-> "Join", kind |-> kind, left |-> left, right |-> right, condition |-> cond]

AggFns == {"count", "sum", "avg", "min", "max"}
IsAgg(p) == p.k = "Expr" /\ p.expr.k = "Function" /\ p.expr.name \in AggFns

(* The aggregate calls of the projections.  Without an alias one is named  *)
(* after its function.                                                     *)
AggExpr(p) ==
  [func |-> p.expr.name,
   arg |-> IF p.expr.args = <<>> THEN <<>> ELSE <<p.expr.args[1]>>,
   alias |-> IF p.alias = <<>> THEN p.expr.name ELSE p.alias[1]]
extract_aggregates(projections) ==
  LET calls == SelectSeq(projections, IsAgg) IN [i \in DOMAIN calls |-> AggExpr(calls[i])]

\* Columns and aliased expressions are projected; *, and an expression that
\* has neither a name nor an alias, are not.
Named(p) == p.k = "Expr" /\ (p.alias # <<>> \/ p.expr.k = "Column")
ProjectedColumns(projections) ==
  LET named == SelectSeq(projections, Named)
  IN  [i \in DOMAIN named |-> IF named[i].alias # <<>> THEN named[i].alias[1] ELSE named[i].expr.name]

RECURSIVE PlanJoins(_, _)
PlanJoins(plan, joins) ==
  IF joins = <<>> THEN plan
  ELSE PlanJoins(Join(Head(joins).kind, plan, Scan(Head(joins).table, <<>>), Head(joins).condition),
                 Tail(joins))

OffsetOf(sel) == IF sel.offset = <<>> THEN 0 ELSE sel.offset[1]

(* LIMIT goes into the scan as well as on top; OFFSET counts only where    *)
(* there is a LIMIT.                                                       *)
plan_select(sel) ==
  LET aggs     == extract_aggregates(sel.projections)
      cols     == ProjectedColumns(sel.projections)
      joined   == PlanJoins(Scan(sel.from, sel.limit), sel.joins)
      filtered == IF sel.filter = <<>> THEN joined ELSE Filter(sel.filter[1], joined)
      grouped  == IF aggs = <<>> /\ sel.group_by = <<>> THEN filtered
                  ELSE Aggregate(sel.group_by, aggs, filtered)
      having   == IF sel.having = <<>> THEN grouped ELSE Filter(sel.having[1], grouped)
      project  == IF cols = <<>> THEN having ELSE Project(cols, having)
      sorted   == IF sel.order_by = <<>> THEN project ELSE Sort(sel.order_by, project)
  IN  IF sel.limit = <<>> THEN sorted ELSE Limit(sel.limit[1], OffsetOf(sel), sorted)
-----------------------------------------------------------------------------
(* Checked i64 arithmetic, as a value or nothing.  Division truncates.     *)
Quot(a, b) == LET q == (IF a < 0 THEN -a ELSE a) \div (IF b < 0 THEN -b ELSE b)
              IN  IF (a < 0) = (b < 0) THEN q ELSE -q
InI64(n) == n >= -IntMax /\ n < IntMax
Checked(op, a, b) ==
  LET v == CASE op = "Add" -> a + b
             [] op = "Sub" -> a - b
             [] op = "Mul" -> a * b
             [] op = "Div" -> Quot(a, b)
             [] op = "Mod" -> a - b * Quot(a, b)
  IN  IF op \in {"Div", "Mod"} /\ b = 0 THEN <<>>
      ELSE IF InI64(v) THEN <<v>> ELSE <<>>

Arithmetic == {"Add", "Sub", "Mul", "Div", "Mod"}

(* Rule 1, constant folding: now() and integer arithmetic, looking only    *)
(* through binary operators.  An interval is not an integer literal here.  *)
RECURSIVE fold_expr(_)
fold_expr(e) ==
  CASE e.k = "Function" /\ e.name = "now" /\ e.args = <<>> -> IntLit(Now)
    [] e.k = "BinOp" ->
         LET l == fold_expr(e.left)
             r == fold_expr(e.right)
             v == IF l.k = "Int" /\ r.k = "Int" /\ e.op \in Arithmetic
                  THEN Checked(e.op, l.int, r.int) ELSE <<>>
         IN  IF v # <<>> THEN IntLit(v[1]) ELSE BinOp(e.op, l, r)
    [] OTHER -> e

\* map_children applies a rule to the plans in these fields.
map_children(plan) ==
  CASE plan.op = "Scan" -> {}
    [] plan.op = "Join" -> {"left", "right"}
    [] OTHER            -> {"input"}

RECURSIVE fold_constants(_), predicate_pushdown(_), projection_pushdown(_), partition_prune(_, _)
fold_constants(plan) ==
  CASE plan.op = "Filter" ->
         Filter(fold_expr(plan.predicate), fold_constants(plan.input))
    [] plan.op = "Scan"   ->
         [plan EXCEPT !.predicate = IF @ = <<>> THEN <<>> ELSE <<fold_expr(@[1])>>]
    [] OTHER -> [f \in map_children(plan) |-> fold_constants(plan[f])] @@ plan

\* Mutant of predicate_pushdown: a filter is also pushed through an aggregation.
predicate_pushdown_through(plan) ==
  IF plan.op # "Filter" THEN [f \in map_children(plan) |-> predicate_pushdown(plan[f])] @@ plan
  ELSE LET input == predicate_pushdown(plan.input)
       IN  CASE input.op = "Scan" -> [input EXCEPT !.predicate = <<plan.predicate>>]
             [] input.op = "Aggregate" /\ input.input.op = "Scan" ->
                  [input EXCEPT !.input.predicate = <<plan.predicate>>]
             [] OTHER -> Filter(plan.predicate, input)
(* Rule 2: the predicate of a filter on a scan becomes the scan's, in the  *)
(* place of one already there.                                             *)
predicate_pushdown(plan) ==
  IF plan.op # "Filter" THEN [f \in map_children(plan) |-> predicate_pushdown(plan[f])] @@ plan
  ELSE LET input == predicate_pushdown(plan.input)
       IN  IF input.op = "Scan" THEN [input EXCEPT !.predicate = <<plan.predicate>>]
           ELSE Filter(plan.predicate, input)

(* Rule 3: the scan learns the columns projected right above it.           *)
projection_pushdown(plan) ==
  IF plan.op # "Project" THEN [f \in map_children(plan) |-> projection_pushdown(plan[f])] @@ plan
  ELSE LET input == projection_pushdown(plan.input)
       IN  Project(plan.columns,
                   IF input.op = "Scan" /\ input.projection = <<>>
                   THEN [input EXCEPT !.projection = <<plan.columns>>] ELSE input)
-----------------------------------------------------------------------------
(* Rule 4, partition pruning.  A literal is read as a u64.                 *)
U64Max == 2 * IntMax - 1
IsTs(e) == e.k = "Column" /\ e.name = "timestamp_ns"
AsU64(e) == IF e.k # "Int" THEN <<>> ELSE <<IF e.int < 0 THEN e.int + 2 * IntMax ELSE e.int>>

RECURSIVE extract_time_range(_)
\* Mutant of extract_time_range: OR is taken for AND.
extract_time_range_or(e) ==
  CASE e.k = "BinOp" /\ e.op \in {"And", "Or"} ->
         LET l == extract_time_range(e.left)
             r == extract_time_range(e.right)
         IN  CASE l # <<>> /\ r # <<>> -> <<[start |-> l[1].start, end |-> r[1].end]>>
               [] r = <<>> -> l
               [] OTHER    -> r
    [] e.k = "BinOp" /\ e.op = "GtEq" /\ IsTs(e.left) /\ AsU64(e.right) # <<>> ->
         <<[start |-> AsU64(e.right)[1], end |-> U64Max]>>
    [] e.k = "BinOp" /\ e.op = "LtEq" /\ IsTs(e.left) /\ AsU64(e.right) # <<>> ->
         <<[start |-> 0, end |-> AsU64(e.right)[1]]>>
    [] OTHER -> <<>>
(* The range a predicate restricts the timestamp to, or nothing.  Of the   *)
(* two sides of AND the left one gives the start and the right one the end.*)
extract_time_range(e) ==
  CASE e.k = "BinOp" /\ e.op = "And" ->
         LET l == extract_time_range(e.left)
             r == extract_time_range(e.right)
         IN  CASE l # <<>> /\ r # <<>> -> <<[start |-> l[1].start, end |-> r[1].end]>>
               [] r = <<>> -> l
               [] OTHER    -> r
    [] e.k = "BinOp" /\ e.op = "GtEq" /\ IsTs(e.left) /\ AsU64(e.right) # <<>> ->
         <<[start |-> AsU64(e.right)[1], end |-> U64Max]>>
    [] e.k = "BinOp" /\ e.op = "LtEq" /\ IsTs(e.left) /\ AsU64(e.right) # <<>> ->
         <<[start |-> 0, end |-> AsU64(e.right)[1]]>>
    [] e.k = "Between" /\ IsTs(e.expr) /\ AsU64(e.low) # <<>> /\ AsU64(e.high) # <<>> ->
         <<[start |-> AsU64(e.low)[1], end |-> AsU64(e.high)[1]]>>
    [] OTHER -> <<>>

(* Catalog: stats maps the partitions it knows to their time ranges.       *)
overlapping_partitions(stats, start, end) ==
  {p \in DOMAIN stats : stats[p].min <= end /\ stats[p].max >= start}

partition_prune(plan, stats) ==
  IF plan.op # "Scan" THEN [f \in map_children(plan) |-> partition_prune(plan[f], stats)] @@ plan
  ELSE IF plan.predicate = <<>> \/ extract_time_range(plan.predicate[1]) = <<>> THEN plan
  ELSE LET range == extract_time_range(plan.predicate[1])[1]
       IN  [plan EXCEPT !.partition_filter = overlapping_partitions(stats, range.start, range.end)]

optimize(plan, stats) ==
  partition_prune(projection_pushdown(predicate_pushdown(fold_constants(plan))), stats)
=============================================================================
