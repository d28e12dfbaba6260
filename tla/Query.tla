------------------------------- MODULE Query -------------------------------
(***************************************************************************)
(* One query at a time through lex, parse, plan, optimize, build and       *)
(* execute, while files are registered and the catalog's statistics are    *)
(* refreshed in between.                                                   *)
(***************************************************************************)
EXTENDS IqlReference

CONSTANTS
  Texts(_),      \* what clients send, given the files: tokens, and the
                 \* statement they mean, if any
  Tables,        \* the files there may be at the start
  LateFiles,     \* files registered later, each at most once
  Slots          \* what may lie under a null

VARIABLES
  files,     \* the metrics table: its files, in the order they are listed
  stats,     \* the catalog: time range of each partition it was told of
  stage,     \* how far the query is
  text,      \* the query's tokens
  asked,     \* the statement the client means by them, if any
  ast, plan, optimized,
  base,      \* the files there were when the plan was optimized
  fresh,     \* whether the statistics covered them then
  result

vars == <<files, stats, stage, text, asked, ast, plan, optimized, base, fresh, result>>
query == <<stage, text, asked, ast, plan, optimized, base, fresh, result>>

None == <<>>
Range0(s) == {s[i] : i \in DOMAIN s}
AllRows(fs) == FlattenSeq([i \in DOMAIN fs |-> fs[i].rows])
Partitions(fs) == {fs[i].part : i \in DOMAIN fs}
TimesOf(fs, p) == UNION {{f.rows[i].timestamp_ns : i \in DOMAIN f.rows} : f \in {g \in Range0(fs) : g.part = p}}
MinOf(S) == CHOOSE x \in S : \A y \in S : x <= y
MaxOf(S) == CHOOSE x \in S : \A y \in S : x >= y

\* The statistics are of use if there are none, or if they cover every row.
Covers(st, fs) ==
  \/ DOMAIN st = {}
  \/ \A p \in Partitions(fs) : p \in DOMAIN st /\ \A t \in TimesOf(fs, p) : st[p].min <= t /\ t <= st[p].max

Init ==
  /\ files \in Tables
  /\ stats = [p \in {} |-> [min |-> 0, max |-> 0]]
  /\ stage = "idle"
  /\ text = None /\ asked = None /\ ast = None /\ plan = None /\ optimized = None /\ base = None
  /\ fresh = TRUE
  /\ result = [ok |-> TRUE, rows |-> <<>>]
-----------------------------------------------------------------------------
(* A flush registers one more file.                                        *)
RegisterFile ==
  \E f \in LateFiles : /\ f \notin Range0(files)
                       /\ files' = Append(files, f)
                       /\ UNCHANGED <<stats, query>>

(* Catalog::update_stats, from the zone maps of every partition.           *)
UpdateStats ==
  /\ stats' = [p \in Partitions(files) |-> [min |-> MinOf(TimesOf(files, p)), max |-> MaxOf(TimesOf(files, p))]]
  /\ UNCHANGED <<files, query>>

(* execute, stage by stage.                                                *)
Submit ==
  /\ stage = "idle"
  /\ \E t \in Texts(files) : text' = t.tokens /\ asked' = t.means
  /\ stage' = "text"
  /\ UNCHANGED <<files, stats, ast, plan, optimized, base, fresh, result>>

(* The answer goes to the client, and nothing is kept of the query.        *)
Deliver ==
  /\ stage = "done"
  /\ stage' = "idle"
  /\ text' = None /\ asked' = None /\ ast' = None /\ plan' = None /\ optimized' = None /\ base' = None
  /\ fresh' = TRUE
  /\ result' = [ok |-> TRUE, rows |-> <<>>]
  /\ UNCHANGED <<files, stats>>

Refuse ==
  /\ result' = [ok |-> FALSE, rows |-> <<>>]
  /\ stage' = "done"

Parse ==
  /\ stage = "text"
  /\ LET parsed == parse_statement(text)
     IN  \/ /\ parsed.ok
            /\ ast' = <<parsed.v>>
            /\ stage' = "parsed"
            /\ UNCHANGED result
         \/ ~parsed.ok /\ Refuse /\ UNCHANGED ast
  /\ UNCHANGED <<files, stats, text, asked, plan, optimized, base, fresh>>

Plan ==
  /\ stage = "parsed"
  /\ plan' = plan_select(ast[1])
  /\ stage' = "planned"
  /\ UNCHANGED <<files, stats, text, asked, ast, optimized, base, fresh, result>>

Optimize ==
  /\ stage = "planned"
  /\ optimized' = optimize(plan, stats)
  /\ base' = files
  /\ fresh' = Covers(stats, files)
  /\ stage' = "optimized"
  /\ UNCHANGED <<files, stats, text, asked, ast, plan, result>>

Execute ==
  /\ stage = "optimized"
  /\ \E slot \in Slots : result' \in Outcomes(optimized, files, slot)
  /\ stage' = "done"
  /\ UNCHANGED <<files, stats, text, asked, ast, plan, optimized, base, fresh>>

(* A file that was listed has been compacted away before it is opened.     *)
FileGone ==
  /\ stage = "optimized"
  /\ files # <<>>
  /\ Refuse
  /\ UNCHANGED <<files, stats, text, asked, ast, plan, optimized, base, fresh>>

Next == RegisterFile \/ UpdateStats \/ Submit \/ Deliver \/ Parse \/ Plan \/ Optimize \/ Execute \/ FileGone
Spec == Init /\ [][Next]_vars
-----------------------------------------------------------------------------
TypeOK ==
  /\ stage \in {"idle", "text", "parsed", "planned", "optimized", "done"}
  /\ DOMAIN stats \subseteq Partitions(files)
  /\ result.ok \in BOOLEAN
  /\ ~result.ok => stage = "done"

(* The parser reads the text of every statement, written with no more      *)
(* parentheses than the documented precedence needs, as that statement,    *)
(* and refuses a text that means nothing.  DISTINCT, which it swallows     *)
(* (parser.rs:40), and FILTER, which it does not know, are no part of the  *)
(* statements.                                                             *)
ParsesAsWritten ==
  /\ stage \in {"parsed", "planned", "optimized"} => ast = asked
  /\ stage = "done" => (ast = asked /\ (asked = None => ~result.ok))
-----------------------------------------------------------------------------
(* What a statement asks for.                                              *)
Aggregated(sel) == sel.group_by # <<>> \/ \E i \in DOMAIN sel.projections : IsAgg(sel.projections[i])
\* Conditions on rows; HAVING is one where nothing is aggregated.
Conditions(sel) == sel.filter \o (IF Aggregated(sel) THEN <<>> ELSE sel.having)

RECURSIVE Subexprs(_)
Subexprs(e) ==
  {e} \cup
  CASE e.k = "BinOp" -> Subexprs(e.left) \cup Subexprs(e.right)
    [] e.k \in {"Not", "Neg", "IsNull", "IsNotNull"} -> Subexprs(e.operand)
    [] e.k = "Between" -> Subexprs(e.expr) \cup Subexprs(e.low) \cup Subexprs(e.high)
    [] e.k = "In"   -> Subexprs(e.expr) \cup UNION {Subexprs(x) : x \in Range0(e.list)}
    [] e.k = "Like" -> Subexprs(e.expr)
    [] e.k = "Function" -> UNION {Subexprs(x) : x \in Range0(e.args)}
    [] OTHER -> {}
NodesOf(sel) == UNION {Subexprs(c) : c \in Range0(Conditions(sel))}

\* rate, delta and histogram_quantile speak of all rows.  Here they stand
\* on the left of a comparison.
BatchFns == {"rate", "delta", "histogram_quantile"}
IsBatchFn(e) == e.k = "Function" /\ e.name \in BatchFns
UsesBatchFn(sel) == \E e \in NodesOf(sel) : IsBatchFn(e)
OverRows(e, rows) ==
  LET vals(c) == [i \in DOMAIN rows |-> AsFloat(IF c.name = "value_double" THEN "Float64" ELSE "Int64", rows[i][c.name])]
      Rank(v, s) == Cardinality({i \in DOMAIN s : s[i] < v})
  IN  CASE e.name = "delta" -> vals(e.args[1])[Len(rows)] - vals(e.args[1])[1]
        [] e.name = "rate"  -> Quot(Len(rows) * SecondNs * FloatUnit, e.args[2].ns)
        [] e.name = "histogram_quantile" ->
             LET s == vals(e.args[2])
                 k == (2 * e.args[1].float * (Len(s) - 1) + FloatUnit) \div (2 * FloatUnit)
             IN  CHOOSE v \in Range0(s) : Rank(v, s) <= k /\ k < Rank(v + 1, s)
Resolved(e, rows) ==
  IF e.k = "BinOp" /\ IsBatchFn(e.left) THEN [e EXCEPT !.left = FloatLit(OverRows(e.left, rows))] ELSE e

Satisfies(sel, r, rows) == \A c \in Range0(Conditions(sel)) : Value(Resolved(c, rows), r) = TRUE

\* A null is not read as a value: no LIKE or minus is applied to one.
NoNullRead(sel, r) ==
  \A e \in NodesOf(sel) : /\ e.k = "Like" => Value(e.expr, r) # NULL
                          /\ e.k = "Neg"  => Value(e.operand, r) # NULL
\* AND, OR and IN have no null operand: there the kernels, which give null
\* whenever one operand is null, agree with three-valued logic.
NoNullOperand(sel, r) ==
  \A e \in NodesOf(sel) :
    /\ e.k = "BinOp" /\ e.op \in {"And", "Or"} => NULL \notin {Value(e.left, r), Value(e.right, r)}
    /\ e.k = "In" => \A x \in Range0(e.list) : Value(x, r) # NULL
\* The LIKE patterns matched exactly: without _, and with no text behind a %.
ExactLikes(sel) ==
  \A e \in NodesOf(sel) :
    e.k = "Like" => /\ \A i \in DOMAIN e.pattern : e.pattern[i] # Underscore
                    /\ \A i \in DOMAIN e.pattern : e.pattern[i] = Percent => e.pattern[Len(e.pattern)] = Percent
NothingNegated(sel) == \A e \in NodesOf(sel) : e.k # "Not" /\ ~(e.k = "Like" /\ e.negated)
Clear(sel, r) == NoNullRead(sel, r) /\ NoNullOperand(sel, r) /\ ExactLikes(sel)

OneBatch(fs) == Len(fs) <= 1 /\ Len(AllRows(fs)) <= BatchSize
Count(r, s) == Cardinality({i \in DOMAIN s : s[i] = r})
Matching(sel, rows) == SelectSeq(rows, LAMBDA r : Satisfies(sel, r, rows))

Answered == stage = "done" /\ result.ok /\ asked # None /\ asked[1].from = "metrics"
\* A plain answer: rows of the table.  A list of columns is left out, which
\* nothing applies (Projected, below), and a query with both WHERE and HAVING and
\* no aggregate: pushing down the second predicate drops the first.
PlainAnswer ==
  /\ Answered
  /\ asked[1].projections = <<Star>> /\ ~Aggregated(asked[1])
  /\ Len(Conditions(asked[1])) <= 1
  /\ UsesBatchFn(asked[1]) => OneBatch(files)
-----------------------------------------------------------------------------
(* For SELECT * with one condition no row is returned that is not in the   *)
(* table, or more often than it is, or that does not satisfy the           *)
(* condition.  Two more cases are left out: LIKE                           *)
(* or a minus applied to a null, which the evaluator reads as a value, and *)
(* the negation of a LIKE that is not matched exactly: LIKE misses texts,  *)
(* but never matches one too many.                                         *)
NoWrongRow ==
  PlainAnswer =>
    LET sel == asked[1]
        all == AllRows(files)
    IN  \A r \in Range0(result.rows) :
          /\ Count(r, result.rows) <= Count(r, all)
          /\ NoNullRead(sel, r) /\ (ExactLikes(sel) \/ NothingNegated(sel)) => Satisfies(sel, r, all)

(* SELECT * without a LIMIT returns every row that satisfies the           *)
(* condition, over batch and file boundaries, if it was there when the     *)
(* plan was optimized.  (A condition on the time, from which partitions    *)
(* are pruned, is never answered: see PrunesSoundly.)                      *)
NoRowLost ==
  PlainAnswer /\ asked[1].limit = <<>> =>
    LET sel == asked[1]
        all == AllRows(base)
    IN  \A r \in Range0(all) :
          Clear(sel, r) /\ Satisfies(sel, r, AllRows(files)) => Count(r, result.rows) >= Count(r, all)

(* A LIMIT is served exactly, although the scan keeps whole batches only   *)
(* until the limit is reached.  With an OFFSET that holds for one batch.   *)
LimitServed ==
  PlainAnswer /\ files = base /\ asked[1].limit # <<>> =>
    LET sel  == asked[1]
        m    == Len(Matching(sel, AllRows(files)))
        left == IF m < OffsetOf(sel) THEN 0 ELSE m - OffsetOf(sel)
    IN  /\ \A r \in Range0(AllRows(files)) : Clear(sel, r)
        /\ OffsetOf(sel) = 0 \/ OneBatch(files)
        => Len(result.rows) = IF left < sel.limit[1] THEN left ELSE sel.limit[1]

(* Rows come back in the order asked for, if it is one of columns of the   *)
(* table; with a LIMIT they are the first ones in that order if the table  *)
(* is one batch.  A key that is an alias or an expression is dropped       *)
(* without an error (sort.rs:38-48).                                       *)
Ordered ==
  PlainAnswer /\ asked[1].order_by # <<>> =>
    LET sel  == asked[1]
        keys == sel.order_by
        b    == Batch(metric_schema, <<>>, 0)
        rows == result.rows
        Comes(r1, r2) == Precedes(b, keys, r1, r2)
    IN  (\A k \in Range0(keys) : k.expr.k = "Column" /\ Has(b, k.expr.name)) =>
          /\ \A i, j \in DOMAIN rows : i < j => ~Comes(rows[j], rows[i])
          /\ OneBatch(files) /\ OffsetOf(sel) = 0 /\ rows # <<>> =>
               \A r \in Range0(Matching(sel, AllRows(files))) :
                 (Clear(sel, r) /\ r \notin Range0(rows)) => ~Comes(r, rows[Len(rows)])

\* An aggregate of rows, from its definition: a count of a column is of its
\* values, and a null is none.
OfColumn(x) == x.arg # <<>> /\ x.arg[1].k = "Column"
ValuesOf(x, rows) ==
  LET c == x.arg[1].name
      there == SelectSeq(rows, LAMBDA r : r[c] # NULL)
  IN  [i \in DOMAIN there |-> AsFloat(IF c = "value_double" THEN "Float64" ELSE "Int64", there[i][c])]
RefAgg(x, rows) ==
  IF x.func = "count"
  THEN IF OfColumn(x) THEN Cardinality({i \in DOMAIN rows : rows[i][x.arg[1].name] # NULL}) ELSE Len(rows)
  ELSE LET vals == ValuesOf(x, rows)
           sum  == FoldLeft(LAMBDA acc, v : acc + v, 0, vals)
       IN  CASE x.func = "sum" -> sum
             [] x.func = "avg" -> Quot(sum, Len(vals))
             [] x.func = "min" -> MinOf(Range0(vals))
             [] x.func = "max" -> MaxOf(Range0(vals))
\* Aggregates the engine computes: a count, or any of a 64-bit signed or a float
\* column; with no null in the column, which is counted, and read as a value.
Computable(x, rows) ==
  /\ x.func = "count" \/ (OfColumn(x) /\ x.arg[1].name \in {"value_int", "value_double"})
  /\ OfColumn(x) => \A r \in Range0(rows) : r[x.arg[1].name] # NULL

(* An aggregate query without GROUP BY and LIMIT that is answered over     *)
(* some matching row has one row, with the aggregates of the matching rows *)
(* of all batches and files, or none if HAVING rejects it.  (Over no       *)
(* matching row: see SingleRow.  With GROUP BY nothing is answered unless  *)
(* no row matches, since the columns are built with other types than the   *)
(* schema has.)                                                            *)
AggregatesExact ==
  /\ Answered /\ files = base
  /\ Aggregated(asked[1]) /\ asked[1].group_by = <<>> /\ asked[1].limit = <<>>
  => LET sel   == asked[1]
         all   == AllRows(files)
         match == Matching(sel, all)
         aggs  == extract_aggregates(sel.projections)
         want  == [f \in {x.alias : x \in Range0(aggs)} |->
                    RefAgg(aggs[CHOOSE i \in DOMAIN aggs : aggs[i].alias = f], match)]
     IN  /\ match # <<>>
         /\ \A r \in Range0(all) : Clear(sel, r)
         /\ \A x \in Range0(aggs) : Computable(x, match)
         => result.rows = IF \A h \in Range0(sel.having) : Value(h, want) = TRUE THEN <<want>> ELSE <<>>

RECURSIVE ScanOf(_)
ScanOf(p) == IF p.op = "Scan" THEN p ELSE IF p.op = "Join" THEN ScanOf(p.left) ELSE ScanOf(p.input)

(* A file left out by partition pruning has no row that satisfies the      *)
(* conditions, if the statistics covered the files.  This is about the     *)
(* plan: the conditions that prune compare timestamp_ns, which is          *)
(* unsigned, with a signed literal, and fail on any row (eval.rs:208).     *)
PrunesSoundly ==
  stage = "optimized" /\ fresh =>
    LET filter == ScanOf(optimized).partition_filter
    IN  filter # {} =>
          \A f \in Range0(base) : f.part \notin filter =>
            \A r \in Range0(f.rows) : ~Satisfies(asked[1], r, <<>>)

(* Optimization does not change what a plan without LIMIT yields, except   *)
(* that folded constants and pruned files may save it from an error.       *)
OptimizerKeeps ==
  stage = "optimized" /\ fresh /\ files = base /\ asked[1].limit = <<>> /\ Len(Conditions(asked[1])) <= 1 =>
    \A slot \in Slots :
      LET before == Outcomes(plan, files, slot)
      IN  \/ Outcomes(optimized, files, slot) = before
          \/ \A o \in before : ~o.ok
-----------------------------------------------------------------------------
(* Statements of the repository that the code does not keep.               *)

(* docs/architecture/query-engine.md:233, of the project operator:         *)
(* "Selects and renames columns".                                          *)
Projected ==
  Answered /\ ~Aggregated(asked[1]) /\ asked[1].projections # <<Star>> =>
    \A r \in Range0(result.rows) : Cardinality(DOMAIN r) = Len(asked[1].projections)

(* aggregate.rs:58: "For no-group-by aggregation, produce a single row".   *)
SingleRow ==
  /\ Answered /\ Aggregated(asked[1]) /\ asked[1].group_by = <<>>
  /\ asked[1].having = <<>> /\ asked[1].limit = <<>>
  => Len(result.rows) = 1
=============================================================================
