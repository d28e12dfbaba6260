----------------------------- MODULE QueryExec -----------------------------
(***************************************************************************)
(* The operators that pull batches: scan, filter, aggregate, sort, limit.  *)
(*                                                                         *)
(* What an operator yields when it is polled to its end is a sequence of   *)
(* items, an item being a batch or an error.  Whoever polls stops at an    *)
(* error, and a LIMIT that is served stops before it.  A sort may leave    *)
(* rows with equal keys in any order, so building a plan gives a set of    *)
(* outcomes: a build error, or the items of the root operator.             *)
(***************************************************************************)
EXTENDS QueryEval

Good(b) == [ok |-> TRUE, batch |-> b]
Failed == [ok |-> FALSE]
BuildError == [ok |-> FALSE]
Built(items) == [ok |-> TRUE, items |-> items]

AllGood(items) == \A i \in DOMAIN items : items[i].ok
RowsOf(items) == FlattenSeq([i \in DOMAIN items |-> items[i].batch.rows])

(* eval_filter and filter_record_batch: a row stays if its mask is true.   *)
Filtered(b, e) ==
  LET mask == eval_expr(b, e)
  IN  IF mask.type # "Boolean" \/ Len(mask.vals) # Len(b.rows) THEN Failed
      ELSE LET kept == SelectSeq([i \in DOMAIN b.rows |-> i], LAMBDA i : mask.vals[i] = TRUE)
           IN  Good([b EXCEPT !.rows = [j \in DOMAIN kept |-> b.rows[kept[j]]]])

\* FilterOperator::poll_next to the end: batches left without rows are skipped.
FilterItems(items, e) ==
  SelectSeq([i \in DOMAIN items |-> IF items[i].ok THEN Filtered(items[i].batch, e) ELSE items[i]],
            LAMBDA it : ~it.ok \/ it.batch.rows # <<>>)
-----------------------------------------------------------------------------
(* Scan.  The files of the partitions in the filter, or of all partitions  *)
(* if it is empty, are read in batches while the operator is built.  The   *)
(* files are those of the metrics; the other two tables are empty here.    *)
Chunks(rows) ==
  [i \in 1..((Len(rows) + BatchSize - 1) \div BatchSize) |->
    SubSeq(rows, (i - 1) * BatchSize + 1, IF i * BatchSize > Len(rows) THEN Len(rows) ELSE i * BatchSize)]
read_parquet(file, slot) ==
  LET chunks == Chunks(file.rows) IN [i \in DOMAIN chunks |-> Good(Batch(metric_schema, chunks[i], slot))]
sstable_paths_for_signal(files, filter) ==
  IF filter = {} THEN files ELSE SelectSeq(files, LAMBDA f : f.part \in filter)

\* Whole batches are kept until the limit is reached.
RetainLimit(items, limit) ==
  SubSeq(items, 1, Cardinality({i \in DOMAIN items : Len(RowsOf(SubSeq(items, 1, i - 1))) < limit}))

\* Mutant of load_batches: the limit is applied before the predicate.
load_batches_limit_first(op, files, slot) ==
  LET paths == sstable_paths_for_signal(files, op.partition_filter)
      read  == FlattenSeq([i \in DOMAIN paths |-> read_parquet(paths[i], slot)])
      some  == IF op.limit = <<>> THEN read ELSE RetainLimit(read, op.limit[1])
      kept  == IF op.predicate = <<>> THEN some ELSE FilterItems(some, op.predicate[1])
  IN  IF ~AllGood(kept) THEN BuildError ELSE Built(kept)
load_batches(op, files, slot) ==
  LET paths == IF op.table = "metrics" THEN sstable_paths_for_signal(files, op.partition_filter) ELSE <<>>
      read  == FlattenSeq([i \in DOMAIN paths |-> read_parquet(paths[i], slot)])
      kept  == IF op.predicate = <<>> THEN read ELSE FilterItems(read, op.predicate[1])
  IN  CASE op.table \notin {"logs", "metrics", "traces"} \/ ~AllGood(kept) -> BuildError
        [] op.limit = <<>> -> Built(kept)
        [] OTHER           -> Built(RetainLimit(kept, op.limit[1]))
-----------------------------------------------------------------------------
(* Limit and offset, over the batches of the child.                        *)
RECURSIVE LimitItems(_, _, _)
LimitItems(items, skip, remaining) ==
  IF remaining = 0 \/ items = <<>> THEN <<>>
  ELSE IF ~Head(items).ok THEN <<Failed>>
  ELSE LET b == Head(items).batch
           n == Len(b.rows)
           rows == SubSeq(b.rows, skip + 1, IF n < skip + remaining THEN n ELSE skip + remaining)
       IN  IF skip >= n THEN LimitItems(Tail(items), skip - n, remaining)
           ELSE <<Good([b EXCEPT !.rows = rows])>> \o LimitItems(Tail(items), 0, remaining - Len(rows))
-----------------------------------------------------------------------------
(* Sort.  Keys that are not columns of the input are dropped; nulls come   *)
(* last whatever the direction.                                            *)
Before(key, type, a, b) ==
  /\ a # NULL
  /\ b = NULL \/ (IF key.asc THEN Less(type, a, b) ELSE Less(type, b, a))
Precedes(b, keys, r1, r2) ==
  \E i \in DOMAIN keys :
    LET c == keys[i].expr.name
    IN  /\ \A j \in 1..(i - 1) : r1[keys[j].expr.name] = r2[keys[j].expr.name]
        /\ Before(keys[i], TypeOf(b, c), r1[c], r2[c])

\* Mutant of SortCols: the direction is dropped.
SortCols_asc(keys, b) ==
  LET cols == SelectSeq(keys, LAMBDA k : k.expr.k = "Column" /\ Has(b, k.expr.name))
  IN  [i \in DOMAIN cols |-> [cols[i] EXCEPT !.asc = TRUE]]
SortCols(keys, b) == SelectSeq(keys, LAMBDA k : k.expr.k = "Column" /\ Has(b, k.expr.name))

\* materialize: the sets of items a sort of the child's items can yield.
SortItems(items, keys) ==
  IF ~AllGood(items) THEN {<<Failed>>}
  ELSE IF items = <<>> THEN {<<>>}
  ELSE LET concat == [items[1].batch EXCEPT !.rows = RowsOf(items)]
           cols   == SortCols(keys, concat)
           n      == Len(concat.rows)
           sorted == {p \in Permutations(1..n) :
                        \A i, j \in 1..n : i < j => ~Precedes(concat, cols, concat.rows[p[j]], concat.rows[p[i]])}
       IN  IF cols = <<>> THEN {<<Good(concat)>>}
           ELSE {<<Good([concat EXCEPT !.rows = [i \in 1..n |-> concat.rows[p[i]]]])>> : p \in sorted}
-----------------------------------------------------------------------------
(* Aggregate.  The schema it promises: a 64-bit integer for every key.     *)
expr_name(e) == IF e.k = "Column" THEN e.name ELSE "key"
AggType(a) == IF a.func = "count" THEN "Int64" ELSE "Float64"
OutSchema(keys, aggs) ==
  [i \in DOMAIN keys |-> Field(expr_name(keys[i]), "Int64")]
    \o [i \in DOMAIN aggs |-> Field(aggs[i].alias, AggType(aggs[i]))]

ColumnOf(a) == IF a.arg # <<>> /\ a.arg[1].k = "Column" THEN <<a.arg[1].name>> ELSE <<>>
AsFloat(t, v) == IF t = "Float64" THEN v ELSE v * FloatUnit

\* Folds over the values of a column.
SumSeq(s) == FoldLeft(LAMBDA acc, v : acc + v, 0, s)
MinSeq(s, top) == FoldLeft(LAMBDA acc, v : IF v < acc THEN v ELSE acc, top, s)
MaxSeq(s, bottom) == FoldLeft(LAMBDA acc, v : IF v > acc THEN v ELSE acc, bottom, s)
\* Mutant of Fold: every accumulator starts at 0, as those of GroupState do.
Fold_zero(func, s) ==
  CASE func = "sum" -> SumSeq(s)
    [] func = "avg" -> IF s = <<>> THEN 0 ELSE Quot(SumSeq(s), Len(s))
    [] func = "min" -> MinSeq(s, 0)
    [] func = "max" -> MaxSeq(s, 0)
Fold(func, s) ==
  CASE func = "sum" -> SumSeq(s)
    [] func = "avg" -> IF s = <<>> THEN 0 ELSE Quot(SumSeq(s), Len(s))
    [] func = "min" -> MinSeq(s, Inf)
    [] func = "max" -> MaxSeq(s, -Inf)

(* One aggregate over all rows, as a value or nothing: 64-bit integers and *)
(* floats contribute, null slots with what lies in them, and no other type.*)
compute_scalar_agg(items, a) ==
  LET c  == ColumnOf(a)
      b  == items[1].batch
      rows == RowsOf(items)
  IN  IF c = <<>> THEN <<0>>
      ELSE IF ~Has(b, c[1]) THEN <<>>
      ELSE LET t == TypeOf(b, c[1])
               vals == IF t \in {"Float64", "Int64"}
                       THEN [i \in DOMAIN rows |-> AsFloat(t, Under(rows[i][c[1]], t, b.slot))] ELSE <<>>
           IN  <<Fold(a.func, vals)>>

\* Rows are grouped by the first column, whatever the keys are.
extract_group_key(b, r) == IF b.fields[1].type = "UInt64" THEN r[b.fields[1].name] ELSE NULL
extract_f64(b, r, a) ==
  LET c == ColumnOf(a)
  IN  IF c = <<>> \/ ~Has(b, c[1]) \/ TypeOf(b, c[1]) \notin Numeric THEN <<>>
      ELSE <<AsFloat(TypeOf(b, c[1]), Under(r[c[1]], TypeOf(b, c[1]), b.slot))>>
\* GroupState: one accumulator of each kind per group, whatever the aggregates.
accumulate(st, func, val) ==
  CASE val = <<>> -> st
    [] val # <<>> /\ func \in {"sum", "avg"} -> [st EXCEPT !.sum = @ + val[1]]
    [] val # <<>> /\ func = "min" /\ (val[1] < st.min \/ st.count = 0) -> [st EXCEPT !.min = val[1]]
    [] val # <<>> /\ func = "max" /\ (val[1] > st.max \/ st.count = 0) -> [st EXCEPT !.max = val[1]]
    [] OTHER -> st
GroupState(b, rows, aggs) ==
  FoldLeft(LAMBDA st, r : [FoldLeft(LAMBDA s, a : accumulate(s, a.func, extract_f64(b, r, a)), st, aggs)
                             EXCEPT !.count = @ + 1],
           [count |-> 0, sum |-> 0, min |-> 0, max |-> 0], rows)
finalize(st, func) ==
  CASE func = "count" -> st.count * FloatUnit
    [] func = "sum"   -> st.sum
    [] func = "avg"   -> Quot(st.sum, st.count)
    [] func = "min"   -> st.min
    [] func = "max"   -> st.max

\* The types of the columns built for groups: the keys as text, all else floats.
GroupColumnTypes(keys, aggs) ==
  [i \in DOMAIN keys |-> "Utf8"] \o [i \in DOMAIN aggs |-> "Float64"]
FieldTypes(fields) == [i \in DOMAIN fields |-> fields[i].type]

\* One row per group.  RecordBatch::try_new refuses columns of another type
\* than their field's, and columns of different lengths (only the first key
\* is given values).
GroupBatch(items, keys, aggs, schema) ==
  LET b      == items[1].batch
      rows   == RowsOf(items)
      groups == SetToSeq({extract_group_key(b, rows[i]) : i \in DOMAIN rows})
      Of(g)  == SelectSeq(rows, LAMBDA r : extract_group_key(b, r) = g)
      Row(g) == [f \in {schema[i].name : i \in DOMAIN schema} |->
                  IF f = schema[1].name THEN g
                  ELSE LET i == CHOOSE i \in DOMAIN aggs : aggs[i].alias = f IN finalize(GroupState(b, Of(g), aggs), aggs[i].func)]
  IN  IF FieldTypes(schema) # GroupColumnTypes(keys, aggs) \/ Len(keys) > 1 THEN Failed
      ELSE Good(Batch(schema, [i \in DOMAIN groups |-> Row(groups[i])], 0))

ScalarBatch(items, aggs, schema) ==
  LET val == [i \in DOMAIN aggs |-> IF aggs[i].func = "count" THEN <<Len(RowsOf(items))>>
                                    ELSE compute_scalar_agg(items, aggs[i])]
      row == [f \in {aggs[i].alias : i \in DOMAIN aggs} |-> val[CHOOSE i \in DOMAIN aggs : aggs[i].alias = f][1]]
  IN  IF \E i \in DOMAIN aggs : val[i] = <<>> THEN Failed ELSE Good(Batch(schema, <<row>>, 0))

AggregateItems(items, keys, aggs) ==
  LET schema == OutSchema(keys, aggs)
  IN  CASE ~AllGood(items) -> <<Failed>>
        [] items = <<>>    -> <<Good(Batch(schema, <<>>, 0))>>
        [] items # <<>> /\ AllGood(items) ->
             <<IF keys = <<>> THEN ScalarBatch(items, aggs, schema) ELSE GroupBatch(items, keys, aggs, schema)>>
-----------------------------------------------------------------------------
(* The operator tree of a plan, polled to its end.  A projection has no    *)
(* operator, and a join is refused.                                        *)
RECURSIVE build_logical(_, _, _)
build_logical(plan, files, slot) ==
  LET On(F(_)) == UNION {IF c.ok THEN {Built(items) : items \in F(c.items)} ELSE {BuildError} :
                           c \in build_logical(plan.input, files, slot)}
  IN  CASE plan.op = "Scan"      -> {load_batches(plan, files, slot)}
        [] plan.op = "Filter"    -> On(LAMBDA items : {FilterItems(items, plan.predicate)})
        [] plan.op = "Aggregate" -> On(LAMBDA items : {AggregateItems(items, plan.keys, plan.aggregates)})
        [] plan.op = "Sort"      -> On(LAMBDA items : SortItems(items, plan.keys))
        [] plan.op = "Limit"     -> On(LAMBDA items : {LimitItems(items, plan.offset, plan.n)})
        [] plan.op = "Project"   -> build_logical(plan.input, files, slot)
        [] plan.op = "Join"      -> {BuildError}

\* What execute returns for a plan: an error, or rows.
Outcomes(plan, files, slot) ==
  {IF ~c.ok \/ (c.ok /\ ~AllGood(c.items)) THEN [ok |-> FALSE, rows |-> <<>>]
   ELSE [ok |-> TRUE, rows |-> RowsOf(c.items)] : c \in build_logical(plan, files, slot)}
=============================================================================
