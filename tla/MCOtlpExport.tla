---------------------------- MODULE MCOtlpExport ----------------------------
(* Small requests: one item with each of its parts varied, and requests of *)
(* several resources, scopes and items.                                    *)
EXTENDS OtlpExport

Value(v) == [value |-> <<v>>]

Values ==
  {[value |-> <<>>], Value([string |-> "s"]), Value([string |-> ""]), Value([bool |-> TRUE]),
   Value([int |-> 5]), Value([int |-> -1]), Value([double |-> "3.0"]), Value([double |-> "NaN"]),
   Value([array |-> <<Value([double |-> "NaN"])>>]), Value([bytes |-> "b"]),
   Value([array |-> <<>>]), Value([array |-> <<Value([int |-> 5]), Value([array |-> <<>>])>>]),
   Value([array |-> <<Value([bytes |-> "b"])>>]),
   Value([kvlist |-> <<[key |-> "m", value |-> <<>>]>>])}

Pair(k, v) == [key |-> k, value |-> v]

AttributeLists ==
  {<<>>, <<Pair("k", <<>>)>>}
  \cup {<<Pair("k", <<v>>)>> : v \in Values}
  \cup {<<Pair("k", <<Value([bytes |-> "b"])>>), Pair("k", <<Value([int |-> 5])>>)>>,
        <<Pair("k", <<Value([int |-> 5])>>), Pair("l", <<>>)>>}

Bytes(n) == [len |-> n, bytes |-> IF n = 0 THEN "" ELSE "id"]

Tagged(k) == <<Pair(k, <<Value([string |-> "s"])>>)>>

Request(resource, scope, schema, items) ==
  <<[resource |-> resource, scopes |-> <<[scope |-> scope, schema |-> schema, items |-> items]>>]>>

One(x) == Request(<<>>, <<>>, "", <<x>>)

\* The item under every kind of resource and scope.
Around(x) ==
  {Request(r, <<>>, "u", <<x>>) : r \in {<<a>> : a \in AttributeLists}}
  \cup {Request(<<>>, <<[name |-> n, attributes |-> a]>>, "", <<x>>) :
          n \in {"", "c"}, a \in {<<>>, <<Pair("k", <<>>)>>, Tagged("k")}}

\* Two resources, the first with two scopes, the second with two items.
Nested(x, y, z, w) ==
  <<[resource |-> <<Tagged("r")>>,
     scopes |-> <<[scope |-> <<[name |-> "c", attributes |-> <<>>]>>, schema |-> "u", items |-> <<x>>],
                  [scope |-> <<>>, schema |-> "", items |-> <<y>>]>>],
    [resource |-> <<Tagged("q")>>,
     scopes |-> <<[scope |-> <<>>, schema |-> "v", items |-> <<z, w>>],
                  [scope |-> <<>>, schema |-> "", items |-> <<>>]>>]>>

Log(n, time, observed, trace, span, severity, body, attrs) ==
  [name |-> n, time |-> time, observed |-> observed, trace |-> Bytes(trace), span |-> Bytes(span),
   severity |-> severity, body |-> body, attributes |-> attrs]

PlainLog(n) == Log(n, 7, 8, 16, 8, 9, <<>>, <<>>)

Logs ==
  {One(Log("x", t, o, i, j, s, <<>>, <<>>)) :
     t \in {0, 7}, o \in {0, 7}, i \in {0, 8, 16}, j \in {0, 8, 16}, s \in {0, 9}}
  \cup {One(Log("x", 7, 8, 16, 8, 9, <<b>>, <<>>)) : b \in Values}
  \cup {One(Log("x", 7, 8, 16, 8, 9, <<>>, a)) : a \in AttributeLists}
  \cup Around(PlainLog("x"))
  \cup {Nested(PlainLog("x"), PlainLog("y"), PlainLog("z"), PlainLog("w")), <<>>}

Point(time, value, attrs) ==
  [time |-> time, value |-> value, attributes |-> attrs, buckets |-> "h"]

Metric(n, data, points) ==
  [name |-> n, data |-> data, monotonic |-> data = "sum", temporality |-> IF data = "gauge" THEN 0 ELSE 2,
   points |-> points]

Numbers == {<<>>, <<[int |-> 5]>>, <<[int |-> 0]>>, <<[double |-> "3.0"]>>, <<[double |-> "NaN"]>>}

Kinds == {"gauge", "sum", "histogram", "summary", "exponentialHistogram"}

Metrics ==
  {One(Metric("x", d, <<Point(t, v, <<>>)>>)) : d \in Kinds, t \in {0, 7}, v \in Numbers}
  \cup {One(Metric("x", d, <<Point(7, <<[double |-> "3.0"]>>, a)>>)) : d \in {"gauge", "sum"}, a \in AttributeLists}
  \cup {One(Metric("x", d, p)) : d \in Kinds,
          p \in {<<>>, <<Point(7, <<[double |-> "3.0"]>>, <<>>), Point(8, <<[int |-> 5]>>, <<>>)>>}}
  \cup Around(Metric("x", "gauge", <<Point(7, <<[double |-> "3.0"]>>, <<>>)>>))
  \cup {Nested(Metric("x", a, <<Point(7, <<[double |-> "3.0"]>>, <<>>)>>),
               Metric("y", b, <<Point(7, <<[int |-> 5]>>, <<>>)>>),
               Metric("z", a, <<>>),
               Metric("w", b, <<Point(7, <<>>, <<>>)>>)) : a \in Kinds, b \in Kinds}

Span(n, trace, span, parent, start, end, status, attrs, events, links) ==
  [name |-> n, trace |-> Bytes(trace), span |-> Bytes(span), parent |-> Bytes(parent),
   start |-> start, end |-> end, status |-> status, attributes |-> attrs,
   events |-> events, links |-> links]

Status == {<<>>, <<0>>, <<2>>}

Link(trace, span, attrs) == [trace |-> Bytes(trace), span |-> Bytes(span), attributes |-> attrs]

PlainSpan(n, trace) == Span(n, trace, 8, 0, 5, 9, <<>>, <<>>, <<>>, <<>>)

Spans ==
  {One(Span("x", i, j, p, 5, e, <<>>, <<>>, <<>>, <<>>)) :
     i \in {0, 8, 16}, j \in {0, 8, 16}, p \in {0, 8, 16}, e \in {0, 4, 5, 9}}
  \cup {One(Span("x", 16, 8, 8, 5, 9, s, a, <<>>, <<>>)) : s \in Status, a \in AttributeLists}
  \cup {One(Span("x", 16, 8, 8, 5, 9, <<>>, <<>>, <<[time |-> t, attributes |-> a]>>, <<>>)) :
          t \in {0, 7}, a \in AttributeLists}
  \cup {One(Span("x", 16, 8, 8, 5, 9, <<>>, <<>>, <<>>, <<Link(i, j, a), Link(16, 8, <<>>)>>)) :
          i \in {8, 16}, j \in {0, 8}, a \in AttributeLists}
  \cup Around(PlainSpan("x", 16))
  \cup {Nested(PlainSpan("x", i), PlainSpan("y", 16), PlainSpan("z", j), PlainSpan("w", 16)) :
          i \in {8, 16}, j \in {8, 16}}

MCRequests(sig) == CASE sig = "logs" -> Logs [] sig = "metrics" -> Metrics [] sig = "spans" -> Spans

MCNonFinite == {"NaN"}

MCStyles == [digits : BOOLEAN, omit : BOOLEAN]
=============================================================================
