-------------------------------- MODULE Otlp --------------------------------
(***************************************************************************)
(* The two decoders of OTLP export requests: normalizer.rs, for the        *)
(* protobuf messages of gRPC and HTTP, and json_decoder.rs, for OTLP/JSON. *)
(* Both produce the records of the internal data model (model.rs).         *)
(*                                                                         *)
(* An option is a sequence of at most one element.  A value of a oneof or  *)
(* an enum is a record with one field, named for the case.  An id is the   *)
(* number of its bytes and a name for them.  A JSON object is a function   *)
(* on the names of the fields it has.  Where both decoders treat several   *)
(* fields of a record alike, one stands for all: of the texts the one      *)
(* called name, of the numbers and times those that something depends on.  *)
(***************************************************************************)
EXTENDS Integers, Sequences, SequencesExt

Each(s, Op(_)) == [i \in DOMAIN s |-> Op(s[i])]

OrElse(option, default) == IF option = <<>> THEN default ELSE option[1]

AndThen(option, Op(_)) == IF option = <<>> THEN <<>> ELSE Op(option[1])

\* filter_map, and the flattening of nested loops that push to one vector.
FlatEach(s, Op(_)) == FlattenSeq(Each(s, Op))

\* collect into a HashMap: the last of the pairs with a key stays.
Collect(pairs) ==
  [k \in {pairs[i][1] : i \in DOMAIN pairs} |->
     pairs[CHOOSE i \in DOMAIN pairs :
             /\ pairs[i][1] = k
             /\ \A j \in DOMAIN pairs : pairs[j][1] = k => j <= i][2]]

EmptyString == [string |-> ""]

NoAttributes == Collect(<<>>)

NoScope == [name |-> "", attributes |-> NoAttributes]

saturating_sub(a, b) == IF a < b THEN 0 ELSE a - b

-----------------------------------------------------------------------------
(* normalizer.rs                                                           *)

RECURSIVE convert_any_value(_)
convert_any_value(proto) ==
  LET v == proto.value
  IN  IF v = <<>> THEN EmptyString
      ELSE IF "array" \in DOMAIN v[1]
      THEN [array |-> Each(v[1].array, convert_any_value)]
      ELSE IF "kvlist" \in DOMAIN v[1]
      THEN LET pair(kv) == <<kv.key, OrElse(Each(kv.value, convert_any_value), EmptyString)>>
           IN  [map |-> Collect(Each(v[1].kvlist, pair))]
      ELSE v[1]

convert_attrs(attrs) ==
  LET pairs(kv) == Each(kv.value, LAMBDA v : <<kv.key, convert_any_value(v)>>)
  IN  Collect(FlatEach(attrs, pairs))

convert_scope(scope) ==
  OrElse(Each(scope, LAMBDA s : [name |-> s.name, attributes |-> convert_attrs(s.attributes)]),
         NoScope)

\* Mutant of bytes_to_array: an id of any length is taken.
bytes_to_array_any(b, n) == <<b.bytes>>

\* bytes_to_array16 and bytes_to_array8.
bytes_to_array(b, n) == IF b.len = n THEN <<b.bytes>> ELSE <<>>

\* The loops over resources and scopes that all three signals have: the items,
\* each with the fields it takes from around it.
Scoped(request) ==
  LET around(r, s) == [resource |-> OrElse(Each(r.resource, convert_attrs), NoAttributes),
                       scope    |-> convert_scope(s.scope),
                       schema   |-> s.schema]
      scoped(r, s) == Each(s.items, LAMBDA x : <<x, around(r, s)>>)
  IN  FlatEach(request, LAMBDA r : FlatEach(r.scopes, LAMBDA s : scoped(r, s)))

LogOf(x, around) ==
  <<[timestamp_ns |-> x.time, observed_timestamp_ns |-> x.observed,
     trace_id |-> bytes_to_array(x.trace, 16), span_id |-> bytes_to_array(x.span, 8),
     severity |-> x.severity, name |-> x.name,
     body |-> Each(x.body, convert_any_value),
     attributes |-> convert_attrs(x.attributes), around |-> around]>>

normalise_logs(request) == FlatEach(Scoped(request), LAMBDA x : LogOf(x[1], x[2]))

\* A data point of a gauge or a sum.
NumberPoint(m, type, p, around) ==
  [timestamp_ns |-> p.time, name |-> m.name, type |-> type,
   value_double |-> AndThen(p.value, LAMBDA v : IF "double" \in DOMAIN v THEN <<v.double>> ELSE <<>>),
   value_int    |-> AndThen(p.value, LAMBDA v : IF "int" \in DOMAIN v THEN <<v.int>> ELSE <<>>),
   histogram |-> <<>>, attributes |-> convert_attrs(p.attributes), around |-> around]

HistogramPoint(m, type, p, around) ==
  [timestamp_ns |-> p.time, name |-> m.name, type |-> type,
   value_double |-> <<>>, value_int |-> <<>>, histogram |-> <<p.buckets>>,
   attributes |-> convert_attrs(p.attributes), around |-> around]

\* Exponential histograms and summaries give no points; the comment on the arm
\* says otherwise (EveryKindMapped).
normalise_metric(m, around) ==
  LET points(Point(_)) == Each(m.points, Point)
  IN  CASE m.data = "gauge" ->
             points(LAMBDA p : NumberPoint(m, [gauge |-> TRUE], p, around))
        [] m.data = "sum" ->
             points(LAMBDA p : NumberPoint(m, [sum |-> <<m.monotonic, m.temporality>>], p, around))
        [] m.data = "histogram" ->
             points(LAMBDA p : HistogramPoint(m, [histogram |-> m.temporality], p, around))
        [] OTHER -> <<>>

normalise_metrics(request) == FlatEach(Scoped(request), LAMBDA x : normalise_metric(x[1], x[2]))

\* A link with an id of the wrong length is left out.
LinkOf(l) ==
  LET trace == bytes_to_array(l.trace, 16)
      span  == bytes_to_array(l.span, 8)
  IN  IF trace = <<>> \/ span = <<>> THEN <<>>
      ELSE <<[trace_id |-> trace[1], span_id |-> span[1], attributes |-> convert_attrs(l.attributes)]>>

EventOf(e) == [timestamp_ns |-> e.time, attributes |-> convert_attrs(e.attributes)]

\* A span with an id of the wrong length is left out.
SpanOf(x, around) ==
  LET trace == bytes_to_array(x.trace, 16)
      span  == bytes_to_array(x.span, 8)
  IN  IF trace = <<>> \/ span = <<>> THEN <<>>
      ELSE <<[trace_id |-> trace[1], span_id |-> span[1],
              parent_span_id |-> bytes_to_array(x.parent, 8), name |-> x.name,
              start_time_ns |-> x.start, duration_ns |-> saturating_sub(x.end, x.start),
              status_code |-> OrElse(x.status, 0),
              attributes |-> convert_attrs(x.attributes), around |-> around,
              events |-> Each(x.events, EventOf), links |-> FlatEach(x.links, LinkOf)]>>

normalise_spans(request) == FlatEach(Scoped(request), LAMBDA x : SpanOf(x[1], x[2]))

-----------------------------------------------------------------------------
(* serde_json: what the decoder asks of a value.  A JSON string is marked  *)
(* by what the exporter wrote in it: the digits of an integer, the digits  *)
(* of an id, or text.  as_f64 takes a number and no text.                  *)

get(v, f) == IF v.t = "object" /\ f \in DOMAIN v.fields THEN <<v.fields[f]>> ELSE <<>>

as_array(v) == IF v.t = "array" THEN v.items ELSE <<>>

as_str(v) == IF v.t = "text" THEN <<v.text>> ELSE <<>>

as_bool(v) == IF v.t = "bool" THEN <<v.bool>> ELSE <<>>

as_i64(v) == IF v.t = "number" THEN <<v.n>> ELSE <<>>

as_f64(v) == IF v.t = "float" THEN <<v.float>> ELSE as_i64(v)

-----------------------------------------------------------------------------
(* json_decoder.rs                                                         *)

\* The field with a string, or "".
Text(v, f) == OrElse(AndThen(get(v, f), as_str), "")

\* The field with a 32-bit integer, or 0.
Int32(v, f) == OrElse(AndThen(get(v, f), as_i64), 0)

\* The elements of the field with an array, if there is one.
Elements(v, f) == AndThen(get(v, f), as_array)

\* An intValue: a number, or a string of digits, or 0.
decode_i64(v) == IF v.t \in {"number", "digits"} THEN v.n ELSE 0

RECURSIVE decode_any_value(_)
decode_any_value(v) ==
  IF AndThen(get(v, "stringValue"), as_str) # <<>>
  THEN [string |-> v.fields["stringValue"].text]
  ELSE IF AndThen(get(v, "boolValue"), as_bool) # <<>>
  THEN [bool |-> v.fields["boolValue"].bool]
  ELSE IF get(v, "intValue") # <<>>
  THEN [int |-> decode_i64(v.fields["intValue"])]
  ELSE IF AndThen(get(v, "doubleValue"), as_f64) # <<>>
  THEN [double |-> as_f64(v.fields["doubleValue"])[1]]
  ELSE IF AndThen(get(v, "arrayValue"), LAMBDA a : get(a, "values")) # <<>>
  THEN [array |-> Each(Elements(v.fields["arrayValue"], "values"), decode_any_value)]
  ELSE EmptyString

decode_attrs(attrs) ==
  LET value(kv) == OrElse(Each(get(kv, "value"), decode_any_value), EmptyString)
      pairs(kv) == Each(AndThen(get(kv, "key"), as_str), LAMBDA k : <<k, value(kv)>>)
  IN  Collect(FlatEach(as_array(attrs), pairs))

\* The field with attributes, or none.
Attributes(v) == OrElse(Each(get(v, "attributes"), decode_attrs), NoAttributes)

decode_scope(scope) ==
  OrElse(Each(scope, LAMBDA s : [name |-> Text(s, "name"), attributes |-> Attributes(s)]), NoScope)

\* Mutant of decode_u64: a string is not parsed.
decode_u64_number(v) == IF v.t = "number" /\ v.n >= 0 THEN v.n ELSE 0

\* A number that is not negative, or a string of digits, or 0.
decode_u64(v) == IF v.t \in {"number", "digits"} /\ v.n >= 0 THEN v.n ELSE 0

U64(v, f) == OrElse(Each(get(v, f), decode_u64), 0)

\* hex_to_16 and hex_to_8, behind the as_str that a value of another type fails.
hex_to(v, n) == IF v.t = "hex" /\ v.len = 2 * n THEN <<v.bytes>> ELSE <<>>

Id(v, f, n) == AndThen(get(v, f), LAMBDA h : hex_to(h, n))

\* The loops all three signals have, over the fields they name.
ScopedJson(json, resources, scopes, items) ==
  LET around(r, s) ==
        [resource |-> OrElse(Each(get(r, "resource"), Attributes), NoAttributes),
         scope    |-> decode_scope(get(s, "scope")),
         schema   |-> Text(s, "schemaUrl")]
      scoped(r, s) == Each(Elements(s, items), LAMBDA x : <<x, around(r, s)>>)
  IN  FlatEach(Elements(json, resources), LAMBDA r :
        FlatEach(Elements(r, scopes), LAMBDA s : scoped(r, s)))

LogFrom(x, around) ==
  LET ts == U64(x, "timeUnixNano")
  IN  <<[timestamp_ns |-> ts,
         observed_timestamp_ns |-> OrElse(Each(get(x, "observedTimeUnixNano"), decode_u64), ts),
         trace_id |-> Id(x, "traceId", 16), span_id |-> Id(x, "spanId", 8),
         severity |-> Int32(x, "severityNumber"), name |-> Text(x, "severityText"),
         body |-> Each(get(x, "body"), decode_any_value),
         attributes |-> Attributes(x), around |-> around]>>

decode_logs(json) ==
  FlatEach(ScopedJson(json, "resourceLogs", "scopeLogs", "logRecords"), LAMBDA x : LogFrom(x[1], x[2]))

\* A data point; asInt is taken from a number only.
PointFrom(m, type, p, around) ==
  [timestamp_ns |-> U64(p, "timeUnixNano"), name |-> Text(m, "name"), type |-> type,
   value_double |-> AndThen(get(p, "asDouble"), as_f64),
   value_int |-> AndThen(get(p, "asInt"), as_i64),
   histogram |-> <<>>, attributes |-> Attributes(p), around |-> around]

\* Only gauges and sums give points.
MetricFrom(m, around) ==
  LET SumType(s) == [sum |-> <<OrElse(AndThen(get(s, "isMonotonic"), as_bool), FALSE),
                               Int32(s, "aggregationTemporality")>>]
      Points(d, type) == Each(Elements(d, "dataPoints"), LAMBDA p : PointFrom(m, type, p, around))
  IN  FlatEach(get(m, "gauge"), LAMBDA g : Points(g, [gauge |-> TRUE]))
      \o FlatEach(get(m, "sum"), LAMBDA s : Points(s, SumType(s)))

decode_metrics(json) ==
  FlatEach(ScopedJson(json, "resourceMetrics", "scopeMetrics", "metrics"), LAMBDA x : MetricFrom(x[1], x[2]))

LinkFrom(l) ==
  LET trace == Id(l, "traceId", 16)
      span  == Id(l, "spanId", 8)
  IN  IF trace = <<>> \/ span = <<>> THEN <<>>
      ELSE <<[trace_id |-> trace[1], span_id |-> span[1], attributes |-> Attributes(l)]>>

EventFrom(e) == [timestamp_ns |-> U64(e, "timeUnixNano"), attributes |-> Attributes(e)]

SpanFrom(x, around) ==
  LET trace == Id(x, "traceId", 16)
      span  == Id(x, "spanId", 8)
      start == U64(x, "startTimeUnixNano")
      end   == U64(x, "endTimeUnixNano")
  IN  IF trace = <<>> \/ span = <<>> THEN <<>>
      ELSE <<[trace_id |-> trace[1], span_id |-> span[1],
              parent_span_id |-> Id(x, "parentSpanId", 8), name |-> Text(x, "name"),
              start_time_ns |-> start, duration_ns |-> saturating_sub(end, start),
              status_code |-> OrElse(Each(get(x, "status"), LAMBDA s : Int32(s, "code")), 0),
              attributes |-> Attributes(x), around |-> around,
              events |-> Each(Elements(x, "events"), EventFrom),
              links |-> FlatEach(Elements(x, "links"), LinkFrom)]>>

decode_spans(json) ==
  FlatEach(ScopedJson(json, "resourceSpans", "scopeSpans", "spans"), LAMBDA x : SpanFrom(x[1], x[2]))
=============================================================================
