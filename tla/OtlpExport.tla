----------------------------- MODULE OtlpExport -----------------------------
(***************************************************************************)
(* Exporters send requests as protobuf or as OTLP/JSON, and the handlers   *)
(* of grpc.rs and http.rs decode them into the batch they submit.          *)
(*                                                                         *)
(* The exporter is external.  The JSON it sends is the proto3 mapping of   *)
(* the message, which leaves two choices to it: 64-bit integers as strings *)
(* of digits or as numbers, and fields with their default value written or *)
(* left out.  A double that is no finite number is written as text.        *)
(***************************************************************************)
EXTENDS Otlp

CONSTANTS
  Requests(_),   \* the requests exported, for a signal
  NonFinite,     \* the doubles that are NaN or infinite
  Styles         \* the choices of JSON exporters: [digits, omit : BOOLEAN]

ASSUME ExportAssumption == Styles \subseteq [digits : BOOLEAN, omit : BOOLEAN]

VARIABLES
  stage,    \* "idle", "sent" or "decoded"
  signal,   \* of the request
  request,  \* what the exporter has to say
  via,      \* <<>> for protobuf, <<style>> for JSON
  wire,     \* what it sends: the message, or its JSON
  records   \* the records of the batch

vars == <<stage, signal, request, via, wire, records>>

-----------------------------------------------------------------------------
(* The exporter's JSON.                                                    *)

\* An object of the fields that are there, of pairs <<name, option>>.
Object(pairs) ==
  LET there == {i \in DOMAIN pairs : pairs[i][2] # <<>>}
  IN  [t |-> "object",
       fields |-> [f \in {pairs[i][1] : i \in there} |->
                     pairs[CHOOSE i \in there : pairs[i][1] = f][2][1]]]

\* A field with its value, unless it is the default and defaults are left out.
Field(name, x, default, v, st) == <<name, IF st.omit /\ x = default THEN <<>> ELSE <<v>>>>

Json64(n, st) == [t |-> IF st.digits THEN "digits" ELSE "number", n |-> n]

JsonText(s) == [t |-> "text", text |-> s]

JsonDouble(d) == IF d \in NonFinite THEN JsonText(d) ELSE [t |-> "float", float |-> d]

JsonNumber(n) == [t |-> "number", n |-> n]

JsonList(items) == [t |-> "array", items |-> items]

JsonHex(id) == [t |-> "hex", len |-> 2 * id.len, bytes |-> id.bytes]

TextField(name, s, st) == Field(name, s, "", JsonText(s), st)

Int64Field(name, n, st) == Field(name, n, 0, Json64(n, st), st)

IdField(name, id, st) == Field(name, id.len, 0, JsonHex(id), st)

ListField(name, s, Op(_), st) == Field(name, s, <<>>, JsonList(Each(s, Op)), st)

\* What a kvlistValue holds is left out: no decoder looks into it.
RECURSIVE AnyJson(_, _)
AnyJson(proto, st) ==
  LET is(f) == proto.value # <<>> /\ f \in DOMAIN proto.value[1]
      only(f, v) == Object(<<<<f, <<v>>>>>>)
      v == proto.value[1]
  IN  CASE is("string") -> only("stringValue", JsonText(v.string))
        [] is("bool")   -> only("boolValue", [t |-> "bool", bool |-> v.bool])
        [] is("int")    -> only("intValue", Json64(v.int, st))
        [] is("double") -> only("doubleValue", JsonDouble(v.double))
        [] is("bytes")  -> only("bytesValue", JsonText(v.bytes))
        [] is("array")  -> only("arrayValue",
                                Object(<<ListField("values", v.array, LAMBDA x : AnyJson(x, st), st)>>))
        [] is("kvlist") -> only("kvlistValue", Object(<<>>))
        [] OTHER        -> Object(<<>>)

AttributesJson(attrs, st) ==
  ListField("attributes", attrs,
            LAMBDA kv : Object(<<<<"key", <<JsonText(kv.key)>>>>,
                                 <<"value", Each(kv.value, LAMBDA v : AnyJson(v, st))>>>>), st)

RequestJson(req, resources, scopes, items, Item(_, _), st) ==
  LET scope(s) == Object(<<<<"scope", Each(s.scope, LAMBDA c :
                               Object(<<TextField("name", c.name, st),
                                        AttributesJson(c.attributes, st)>>))>>,
                           TextField("schemaUrl", s.schema, st),
                           ListField(items, s.items, LAMBDA x : Item(x, st), st)>>)
      resource(r) == Object(<<<<"resource", Each(r.resource, LAMBDA a :
                                  Object(<<AttributesJson(a, st)>>))>>,
                              ListField(scopes, r.scopes, scope, st)>>)
  IN  Object(<<ListField(resources, req, resource, st)>>)

LogJson(x, st) ==
  Object(<<Int64Field("timeUnixNano", x.time, st),
           Int64Field("observedTimeUnixNano", x.observed, st),
           IdField("traceId", x.trace, st), IdField("spanId", x.span, st),
           Field("severityNumber", x.severity, 0, JsonNumber(x.severity), st),
           TextField("severityText", x.name, st),
           <<"body", Each(x.body, LAMBDA v : AnyJson(v, st))>>,
           AttributesJson(x.attributes, st)>>)

PointJson(p, st) ==
  Object(<<Int64Field("timeUnixNano", p.time, st), AttributesJson(p.attributes, st)>>
         \o Each(p.value, LAMBDA v : IF "int" \in DOMAIN v
                                     THEN <<"asInt", <<Json64(v.int, st)>>>>
                                     ELSE <<"asDouble", <<JsonDouble(v.double)>>>>))

MetricJson(m, st) ==
  Object(<<TextField("name", m.name, st),
           <<m.data, <<Object(
              <<ListField("dataPoints", m.points, LAMBDA p : PointJson(p, st), st),
                Field("isMonotonic", m.monotonic, FALSE, [t |-> "bool", bool |-> m.monotonic], st),
                Field("aggregationTemporality", m.temporality, 0, JsonNumber(m.temporality), st)>>)>>>>>>)

SpanJson(x, st) ==
  LET event(e) == Object(<<Int64Field("timeUnixNano", e.time, st), AttributesJson(e.attributes, st)>>)
      link(l) == Object(<<IdField("traceId", l.trace, st), IdField("spanId", l.span, st),
                          AttributesJson(l.attributes, st)>>)
      status(code) == Object(<<Field("code", code, 0, JsonNumber(code), st)>>)
  IN  Object(<<IdField("traceId", x.trace, st), IdField("spanId", x.span, st),
               IdField("parentSpanId", x.parent, st), TextField("name", x.name, st),
               Int64Field("startTimeUnixNano", x.start, st), Int64Field("endTimeUnixNano", x.end, st),
               <<"status", Each(x.status, status)>>, AttributesJson(x.attributes, st),
               ListField("events", x.events, event, st), ListField("links", x.links, link, st)>>)

JsonOf(sig, req, st) ==
  CASE sig = "logs"    -> RequestJson(req, "resourceLogs", "scopeLogs", "logRecords", LogJson, st)
    [] sig = "metrics" -> RequestJson(req, "resourceMetrics", "scopeMetrics", "metrics", MetricJson, st)
    [] sig = "spans"   -> RequestJson(req, "resourceSpans", "scopeSpans", "spans", SpanJson, st)

-----------------------------------------------------------------------------

Init ==
  /\ stage = "idle"
  /\ signal = "logs"
  /\ request = <<>>
  /\ via = <<>>
  /\ wire = <<>>
  /\ records = <<>>

\* An exporter sends a request.
Export(sig, req, how) ==
  /\ stage = "idle"
  /\ stage' = "sent"
  /\ signal' = sig
  /\ request' = req
  /\ via' = how
  /\ wire' = IF how = <<>> THEN req ELSE JsonOf(sig, req, how[1])
  /\ UNCHANGED records

Normal(sig, req) ==
  CASE sig = "logs"    -> normalise_logs(req)
    [] sig = "metrics" -> normalise_metrics(req)
    [] sig = "spans"   -> normalise_spans(req)

Decoded(sig, json) ==
  CASE sig = "logs"    -> decode_logs(json)
    [] sig = "metrics" -> decode_metrics(json)
    [] sig = "spans"   -> decode_spans(json)

\* The handlers: protobuf bodies go to the normalizer, JSON bodies to json_decoder.
Decode ==
  /\ stage = "sent"
  /\ stage' = "decoded"
  /\ records' = IF via = <<>> THEN Normal(signal, wire) ELSE Decoded(signal, wire)
  /\ UNCHANGED <<signal, request, via, wire>>

\* The batch is submitted.
Submit ==
  /\ stage = "decoded"
  /\ stage' = "idle"
  /\ signal' = "logs"
  /\ request' = <<>>
  /\ via' = <<>>
  /\ wire' = <<>>
  /\ records' = <<>>

Next ==
  \/ \E sig \in {"logs", "metrics", "spans"} :
       \E req \in Requests(sig), how \in {<<>>} \cup {<<st>> : st \in Styles} : Export(sig, req, how)
  \/ Decode
  \/ Submit

Spec == Init /\ [][Next]_vars

-----------------------------------------------------------------------------
(* The places of a request's items, in the order the exporter gave them.   *)

Places == {<<r, s, i>> \in (1..3) \X (1..3) \X (1..3) :
             /\ r \in DOMAIN request
             /\ s \in DOMAIN request[r].scopes
             /\ i \in DOMAIN request[r].scopes[s].items}

ScopeAt(p) == request[p[1]].scopes[p[2]]

ItemAt(p) == ScopeAt(p).items[p[3]]

Earlier(p, q) ==
  \/ p[1] < q[1]
  \/ p[1] = q[1] /\ p[2] < q[2]
  \/ p[1] = q[1] /\ p[2] = q[2] /\ p[3] < q[3]

\* The records an item gives: none for a span without proper ids; none for a
\* summary or exponential histogram, against what the normalizer's comment says
\* (EveryKindMapped), and none for a histogram in JSON; one for each point of
\* any other metric.
Yield(x) ==
  CASE signal = "logs"    -> 1
    [] signal = "metrics" -> IF x.data \in {"gauge", "sum"} \/ (x.data = "histogram" /\ via = <<>>)
                             THEN Len(x.points) ELSE 0
    [] signal = "spans"   -> IF x.trace.len = 16 /\ x.span.len = 8 THEN 1 ELSE 0

\* Each record has a place, in order, of an item that yields it: it carries that
\* item's name, the name of its scope and the schema it was under, and every item
\* has as many records as it yields.  (The instance names items differently.)
InItsPlace ==
  stage = "decoded" =>
    LET At(k) == CHOOSE p \in Places : ItemAt(p).name = records[k].name
    IN  /\ \A k \in DOMAIN records :
             /\ \E p \in Places : ItemAt(p).name = records[k].name
             /\ records[k].around.schema = ScopeAt(At(k)).schema
             /\ records[k].around.scope.name =
                  OrElse(Each(ScopeAt(At(k)).scope, LAMBDA c : c.name), "")
             /\ DOMAIN records[k].around.resource \subseteq
                  UNION {{a[i].key : i \in DOMAIN a} : a \in
                         {request[At(k)[1]].resource[i] : i \in DOMAIN request[At(k)[1]].resource}}
        /\ \A k, l \in DOMAIN records : k < l => ~Earlier(At(l), At(k))
        /\ \A p \in Places :
             Len(SelectSeq(records, LAMBDA r : r.name = ItemAt(p).name)) = Yield(ItemAt(p))

(* Where the two decoders differ.                                          *)

\* Values the JSON decoder does not know, a double that is written as text, and an
\* array left out because it is empty.
RECURSIVE AnyDiffers(_, _)
AnyDiffers(proto, st) ==
  /\ proto.value # <<>>
  /\ \/ DOMAIN proto.value[1] \cap {"bytes", "kvlist"} # {}
     \/ "double" \in DOMAIN proto.value[1] /\ proto.value[1].double \in NonFinite
     \/ /\ "array" \in DOMAIN proto.value[1]
        /\ \/ proto.value[1].array = <<>> /\ st.omit
           \/ \E i \in DOMAIN proto.value[1].array : AnyDiffers(proto.value[1].array[i], st)

\* A key without a value: left out by convert_attrs, an empty string for decode_attrs.
AttributesDiffer(attrs, st) ==
  \E i \in DOMAIN attrs :
    /\ \A j \in DOMAIN attrs : attrs[j].key = attrs[i].key => j <= i
    /\ \/ attrs[i].value = <<>>
       \/ AnyDiffers(attrs[i].value[1], st)

\* A point whose value the JSON decoder does not find: an integer in digits, or a
\* double as text.
PointDiffers(p, st) ==
  /\ p.value # <<>>
  /\ \/ "int" \in DOMAIN p.value[1] /\ st.digits
     \/ "double" \in DOMAIN p.value[1] /\ p.value[1].double \in NonFinite

\* The observed time that is left out, which JSON takes from the time; points as
\* above; a histogram.
ItemDiffers(x, st) ==
  CASE signal = "logs" ->
         \/ x.observed = 0 /\ x.time # 0 /\ st.omit
         \/ x.body # <<>> /\ AnyDiffers(x.body[1], st)
         \/ AttributesDiffer(x.attributes, st)
    [] signal = "metrics" ->
         \/ x.data = "histogram"
         \/ \E i \in DOMAIN x.points :
              PointDiffers(x.points[i], st) \/ AttributesDiffer(x.points[i].attributes, st)
    [] signal = "spans" ->
         \/ AttributesDiffer(x.attributes, st)
         \/ \E i \in DOMAIN x.events : AttributesDiffer(x.events[i].attributes, st)
         \/ \E i \in DOMAIN x.links : /\ x.links[i].trace.len = 16 /\ x.links[i].span.len = 8
                                      /\ AttributesDiffer(x.links[i].attributes, st)

\* An item that some decoder makes a record of, and that the two see differently.
Differs(p, st) ==
  /\ Yield(ItemAt(p)) > 0 \/ (signal = "metrics" /\ ItemAt(p).data = "histogram" /\ ItemAt(p).points # <<>>)
  /\ \/ ItemDiffers(ItemAt(p), st)
     \/ \E i \in DOMAIN ScopeAt(p).scope : AttributesDiffer(ScopeAt(p).scope[i].attributes, st)
     \/ \E i \in DOMAIN request[p[1]].resource : AttributesDiffer(request[p[1]].resource[i], st)

\* The records of a request do not depend on whether it came as protobuf or as
\* JSON, except for the differences above; and each of those shows.
SameRecords ==
  stage = "decoded" /\ via # <<>> =>
    (records = Normal(signal, request) <=> ~\E p \in Places : Differs(p, via[1]))

\* Not kept by the code: normalizer.rs:189 says of exponential histograms and
\* summaries "map to generic data points for now", and the arm is empty.
EveryKindMapped ==
  stage = "decoded" /\ signal = "metrics" /\ via = <<>> =>
    \A p \in Places : Len(SelectSeq(records, LAMBDA r : r.name = ItemAt(p).name)) = Len(ItemAt(p).points)

TypeOK ==
  /\ stage \in {"idle", "sent", "decoded"}
  /\ signal \in {"logs", "metrics", "spans"}
  /\ request \in Requests(signal) \cup {<<>>}
  /\ via \in {<<>>} \cup {<<st>> : st \in Styles}
  /\ stage # "decoded" => records = <<>>
=============================================================================
