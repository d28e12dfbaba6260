-------------------------- MODULE MCStorageEngine --------------------------
(* Small instances of StorageEngine.  Two partitions; rows a1, a2 and a3   *)
(* fall into the first, b1 into the second; a2 is a metric.                *)
EXTENDS StorageEngine, TLC

CONSTANTS a1, a2, a3, b1, k1, k2

Rows4 == {a1, a2, a3, b1}
Rows3 == {a1, a2, b1}
RowsA == {a1, a2, a3}
Keys == {k1, k2}
KeyOfRow == [x \in Row |-> IF x = b1 THEN k2 ELSE k1]
SignalOfRow == [x \in Row |-> IF x = a2 THEN "metric" ELSE "log"]

\* a1 and a3 have the same partition and the same signal.
Symmetry == Permutations({a1, a3})
=============================================================================
