----------------------- MODULE SignalPartitionProofs -----------------------
(***************************************************************************)
(* Proofs about SignalPartition, for every set of rows and readers, every  *)
(* trigger, every bound, with and without failing file operations.         *)
(***************************************************************************)
EXTENDS SignalPartition, WellFoundedInduction, TLAPS

(* A nonempty set of numbers up to n has a largest element: the maximum    *)
(* that SignalPartition::open computes over the zonemap files.             *)
LEMMA BoundedMax ==
  ASSUME NEW n \in Nat, NEW S \in SUBSET (1..n), S # {}
  PROVE  \E m \in S : \A s \in S : s <= m
<1> DEFINE Less == OpToRel(<, Nat)
           Dist == {n - s : s \in S}
<1>1. Dist \subseteq Nat /\ Dist # {}
  <2>1. \A s \in S : n - s \in Nat
    OBVIOUS
  <2>2. PICK s \in S : TRUE
    BY Zenon
  <2>3. n - s \in Dist
    OBVIOUS
  <2> QED
    BY <2>1, <2>3
<1>2. IsWellFoundedOn(Less, Nat)
  BY NatLessThanWellFounded, Zenon
<1>3. \A y, z \in Nat : y < z => <<y, z>> \in Less
  BY DEF OpToRel
<1> HIDE DEF Less
<1>4. PICK d \in Dist : \A e \in Dist : ~(<<e, d>> \in Less)
  <2> HIDE DEF Dist
  <2> QED BY <1>1, <1>2, WFMin, Zenon
<1>5. PICK m \in S : d = n - m
  OBVIOUS
<1>6. \A s \in S : ~(n - s < n - m)
  BY <1>1, <1>3, <1>4, <1>5, Zenon
<1> QED
  BY <1>6

LEMMA FirstFreeSeqBound ==
  ASSUME TypeOK
  PROVE  /\ FirstFreeSeq \in 1..(MaxSeq + 1)
         /\ \A s \in SeqNo : zonemap[s] # "absent" => s < FirstFreeSeq
<1> DEFINE present == {s \in SeqNo : zonemap[s] # "absent"}
<1>1. CASE present = {}
  BY <1>1, PartitionAssumption DEF FirstFreeSeq, MaxZonemapSeq, SeqNo
<1>2. CASE present # {}
  <2>1. \E m \in present : \A s \in present : s <= m
    BY <1>2, BoundedMax, PartitionAssumption, Zenon DEF SeqNo
  <2>2. MaxZonemapSeq \in present /\ \A s \in present : s <= MaxZonemapSeq
    BY <2>1, <1>2 DEF MaxZonemapSeq
  <2>3. MaxZonemapSeq \in 1..MaxSeq
    BY <2>2 DEF SeqNo
  <2> QED
    BY <2>2, <2>3, PartitionAssumption DEF FirstFreeSeq, SeqNo
<1> QED
  BY <1>1, <1>2

LEMMA InitType == Init => TypeOK
<1> SUFFICES ASSUME Init PROVE TypeOK
  OBVIOUS
<1>1. /\ parquet \in [SeqNo -> FileState]
      /\ content \in [SeqNo -> SUBSET Row]
      /\ zonemap \in [SeqNo -> FileState]
  BY DEF Init, FileState
<1>2. nextSeq \in 1..(MaxSeq + 1) /\ crashes \in 0..MaxCrash
  BY PartitionAssumption DEF Init
<1>3. flush \in [pc : FlushPc, seq : SeqNo \cup {0}, rows : SUBSET Row]
  BY DEF Init, NoFlush, FlushPc
<1>4. compact \in [pc : CompactPc, out : SeqNo \cup {0}, inputs : SUBSET SeqNo,
                   rows : SUBSET Row, victim : SeqNo \cup {0}]
  BY DEF Init, NoCompact, CompactPc
<1>5. query \in [Reader -> [pc : QueryPc, paths : SUBSET SeqNo, rows : SUBSET Row,
                            want : SUBSET Row, settled : BOOLEAN]]
  BY DEF Init, NoQuery, QueryPc
<1> QED
  BY <1>1, <1>2, <1>3, <1>4, <1>5, Zenon DEF Init, TypeOK

Inv == TypeOK /\ DurableInv

LEMMA OpenInv ==
  ASSUME Inv, Open
  PROVE  Inv'
<1> USE DEF Inv, DurableInv, Open, NoFlush, NoCompact, NoQuery, disk, history
<1> USE FirstFreeSeqBound
<1>1. TypeOK'
  BY PartitionAssumption DEF TypeOK, SeqOwners, SeqNo, FileState, FlushPc, CompactPc, QueryPc
<1>2. DownIsEmpty'
  BY PartitionAssumption DEF TypeOK, DownIsEmpty
<1>3. SeqOwners'
  BY PartitionAssumption DEF TypeOK, DownIsEmpty, SeqOwners, SeqNo, Merging
<1>4. FilesInStep'
  BY PartitionAssumption DEF TypeOK, DownIsEmpty, SeqOwners, FilesInStep, Merging, Deleting, Readable, Complete, SeqNo
<1>5. MergeAccounts'
  BY PartitionAssumption DEF TypeOK, DownIsEmpty, SeqOwners, FilesInStep, MergeAccounts, Merging, Deleting, RowsOf, Readable, SeqNo
<1>6. FreshRows'
  BY PartitionAssumption DEF TypeOK, DownIsEmpty, SeqOwners, FilesInStep, MergeAccounts, FreshRows, Merging, RowsOf
<1>7. DurableRows'
  BY PartitionAssumption DEF TypeOK, DownIsEmpty, SeqOwners, FilesInStep, MergeAccounts, DurableRows, Recoverable, Merging, Deleting, RowsOf, Readable, Complete, SeqNo
<1> QED
  BY <1>1, <1>2, <1>3, <1>4, <1>5, <1>6, <1>7

LEMMA CrashInv ==
  ASSUME Inv, Crash
  PROVE  Inv'
<1> USE DEF Inv, DurableInv, Crash, NoFlush, NoCompact, NoQuery, disk, history
<1>1. TypeOK'
  <2>1. query' \in [Reader -> [pc : QueryPc, paths : SUBSET SeqNo, rows : SUBSET Row,
                               want : SUBSET Row, settled : BOOLEAN]]
    BY DEF QueryPc
  <2>2. flush' \in [pc : FlushPc, seq : SeqNo \cup {0}, rows : SUBSET Row]
    BY DEF FlushPc
  <2>3. compact' \in [pc : CompactPc, out : SeqNo \cup {0}, inputs : SUBSET SeqNo,
                      rows : SUBSET Row, victim : SeqNo \cup {0}]
    BY DEF CompactPc
  <2>4. crashes' \in 0..MaxCrash
    BY PartitionAssumption DEF TypeOK
  <2> QED
    BY <2>1, <2>2, <2>3, <2>4, Zenon DEF TypeOK
<1>2. DownIsEmpty'
  BY PartitionAssumption DEF TypeOK, DownIsEmpty
<1>3. SeqOwners'
  BY PartitionAssumption DEF TypeOK, DownIsEmpty, SeqOwners, SeqNo, Merging
<1>4. FilesInStep'
  BY PartitionAssumption DEF TypeOK, DownIsEmpty, SeqOwners, FilesInStep, Merging, Deleting, Readable, Complete, SeqNo
<1>5. MergeAccounts'
  BY PartitionAssumption DEF TypeOK, DownIsEmpty, SeqOwners, FilesInStep, MergeAccounts, Merging, Deleting, RowsOf, Readable, SeqNo
<1>6. FreshRows'
  BY PartitionAssumption DEF TypeOK, DownIsEmpty, SeqOwners, FilesInStep, MergeAccounts, FreshRows, Merging, RowsOf
<1>7. DurableRows'
  BY PartitionAssumption DEF TypeOK, DownIsEmpty, SeqOwners, FilesInStep, MergeAccounts, DurableRows, Recoverable, Merging, Deleting, RowsOf, Readable, Complete, SeqNo
<1> QED
  BY <1>1, <1>2, <1>3, <1>4, <1>5, <1>6, <1>7

LEMMA FlushBeginInv ==
  ASSUME Inv, NEW R \in SUBSET Row, FlushBegin(R)
  PROVE  Inv'
<1> USE DEF Inv, DurableInv, FlushBegin, NoFlush, NoCompact, NoQuery, disk, history
<1>1. TypeOK'
  BY PartitionAssumption DEF TypeOK, SeqOwners, SeqNo, FileState, FlushPc, CompactPc, QueryPc
<1>2. DownIsEmpty'
  BY PartitionAssumption DEF TypeOK, DownIsEmpty
<1>3. SeqOwners'
  BY PartitionAssumption DEF TypeOK, DownIsEmpty, SeqOwners, SeqNo, Merging
<1>4. FilesInStep'
  BY PartitionAssumption DEF TypeOK, DownIsEmpty, SeqOwners, FilesInStep, Merging, Deleting, Readable, Complete, SeqNo
<1>5. MergeAccounts'
  BY PartitionAssumption DEF TypeOK, DownIsEmpty, SeqOwners, FilesInStep, MergeAccounts, Merging, Deleting, RowsOf, Readable, SeqNo
<1>6. FreshRows'
  BY PartitionAssumption DEF TypeOK, DownIsEmpty, SeqOwners, FilesInStep, MergeAccounts, FreshRows, Merging, RowsOf
<1>7. DurableRows'
  BY PartitionAssumption DEF TypeOK, DownIsEmpty, SeqOwners, FilesInStep, MergeAccounts, DurableRows, Recoverable, Merging, Deleting, RowsOf, Readable, Complete, SeqNo
<1> QED
  BY <1>1, <1>2, <1>3, <1>4, <1>5, <1>6, <1>7

LEMMA FlushCreateParquetInv ==
  ASSUME Inv, FlushCreateParquet
  PROVE  Inv'
<1> USE DEF Inv, DurableInv, FlushCreateParquet, NoFlush, NoCompact, NoQuery, disk, history
<1>1. TypeOK'
  BY PartitionAssumption, Zenon DEF TypeOK, SeqOwners, SeqNo, FileState, FlushPc, CompactPc, QueryPc
<1>2. DownIsEmpty'
  BY PartitionAssumption DEF TypeOK, DownIsEmpty
<1>3. SeqOwners'
  BY PartitionAssumption DEF TypeOK, DownIsEmpty, SeqOwners, SeqNo, Merging
<1>4. FilesInStep'
  BY PartitionAssumption DEF TypeOK, DownIsEmpty, SeqOwners, FilesInStep, Merging, Deleting, Readable, Complete, SeqNo
<1>5. MergeAccounts'
  BY PartitionAssumption DEF TypeOK, DownIsEmpty, SeqOwners, FilesInStep, MergeAccounts, Merging, Deleting, RowsOf, Readable, SeqNo
<1>6. FreshRows'
  BY PartitionAssumption DEF TypeOK, DownIsEmpty, SeqOwners, FilesInStep, MergeAccounts, FreshRows, Merging, RowsOf
<1>7. DurableRows'
  BY PartitionAssumption DEF TypeOK, DownIsEmpty, SeqOwners, FilesInStep, MergeAccounts, DurableRows, Recoverable, Merging, Deleting, RowsOf, Readable, Complete, SeqNo
<1> QED
  BY <1>1, <1>2, <1>3, <1>4, <1>5, <1>6, <1>7

LEMMA FlushWriteParquetInv ==
  ASSUME Inv, FlushWriteParquet
  PROVE  Inv'
<1> USE DEF Inv, DurableInv, FlushWriteParquet, NoFlush, NoCompact, NoQuery, disk, history
<1>1. TypeOK'
  BY PartitionAssumption, Zenon DEF TypeOK, SeqOwners, SeqNo, FileState, FlushPc, CompactPc, QueryPc
<1>2. DownIsEmpty'
  BY PartitionAssumption DEF TypeOK, DownIsEmpty
<1>3. SeqOwners'
  BY PartitionAssumption DEF TypeOK, DownIsEmpty, SeqOwners, SeqNo, Merging
<1>4. FilesInStep'
  BY PartitionAssumption DEF TypeOK, DownIsEmpty, SeqOwners, FilesInStep, Merging, Deleting, Readable, Complete, SeqNo
<1>5. MergeAccounts'
  BY PartitionAssumption DEF TypeOK, DownIsEmpty, SeqOwners, FilesInStep, MergeAccounts, Merging, Deleting, RowsOf, Readable, SeqNo
<1>6. FreshRows'
  BY PartitionAssumption DEF TypeOK, DownIsEmpty, SeqOwners, FilesInStep, MergeAccounts, FreshRows, Merging, RowsOf
<1>7. DurableRows'
  BY PartitionAssumption DEF TypeOK, DownIsEmpty, SeqOwners, FilesInStep, MergeAccounts, DurableRows, Recoverable, Merging, Deleting, RowsOf, Readable, Complete, SeqNo
<1> QED
  BY <1>1, <1>2, <1>3, <1>4, <1>5, <1>6, <1>7

LEMMA FlushCreateZonemapInv ==
  ASSUME Inv, FlushCreateZonemap
  PROVE  Inv'
<1> USE DEF Inv, DurableInv, FlushCreateZonemap, NoFlush, NoCompact, NoQuery, disk, history
<1>1. TypeOK'
  BY PartitionAssumption, Zenon DEF TypeOK, SeqOwners, SeqNo, FileState, FlushPc, CompactPc, QueryPc
<1>2. DownIsEmpty'
  BY PartitionAssumption DEF TypeOK, DownIsEmpty
<1>3. SeqOwners'
  BY PartitionAssumption DEF TypeOK, DownIsEmpty, SeqOwners, SeqNo, Merging
<1>4. FilesInStep'
  BY PartitionAssumption DEF TypeOK, DownIsEmpty, SeqOwners, FilesInStep, Merging, Deleting, Readable, Complete, SeqNo
<1>5. MergeAccounts'
  BY PartitionAssumption DEF TypeOK, DownIsEmpty, SeqOwners, FilesInStep, MergeAccounts, Merging, Deleting, RowsOf, Readable, SeqNo
<1>6. FreshRows'
  BY PartitionAssumption DEF TypeOK, DownIsEmpty, SeqOwners, FilesInStep, MergeAccounts, FreshRows, Merging, RowsOf
<1>7. DurableRows'
  BY PartitionAssumption DEF TypeOK, DownIsEmpty, SeqOwners, FilesInStep, MergeAccounts, DurableRows, Recoverable, Merging, Deleting, RowsOf, Readable, Complete, SeqNo
<1> QED
  BY <1>1, <1>2, <1>3, <1>4, <1>5, <1>6, <1>7

LEMMA FlushWriteZonemapInv ==
  ASSUME Inv, FlushWriteZonemap
  PROVE  Inv'
<1> USE DEF Inv, DurableInv, FlushWriteZonemap, NoFlush, NoCompact, NoQuery, disk, history
<1>1. TypeOK'
  BY PartitionAssumption, Zenon DEF TypeOK, SeqOwners, SeqNo, FileState, FlushPc, CompactPc, QueryPc
<1>2. DownIsEmpty'
  BY PartitionAssumption DEF TypeOK, DownIsEmpty
<1>3. SeqOwners'
  BY PartitionAssumption DEF TypeOK, DownIsEmpty, SeqOwners, SeqNo, Merging
<1>4. FilesInStep'
  BY PartitionAssumption DEF TypeOK, DownIsEmpty, SeqOwners, FilesInStep, Merging, Deleting, Readable, Complete, SeqNo
<1>5. MergeAccounts'
  BY PartitionAssumption DEF TypeOK, DownIsEmpty, SeqOwners, FilesInStep, MergeAccounts, Merging, Deleting, RowsOf, Readable, SeqNo
<1>6. FreshRows'
  BY PartitionAssumption DEF TypeOK, DownIsEmpty, SeqOwners, FilesInStep, MergeAccounts, FreshRows, Merging, RowsOf
<1>7. DurableRows'
  BY PartitionAssumption DEF TypeOK, DownIsEmpty, SeqOwners, FilesInStep, MergeAccounts, DurableRows, Recoverable, Merging, Deleting, RowsOf, Readable, Complete, SeqNo
<1> QED
  BY <1>1, <1>2, <1>3, <1>4, <1>5, <1>6, <1>7

LEMMA FlushAddInv ==
  ASSUME Inv, FlushAdd
  PROVE  Inv'
<1> USE DEF Inv, DurableInv, FlushAdd, NoFlush, NoCompact, NoQuery, disk, history
<1>1. TypeOK'
  BY PartitionAssumption, Zenon DEF TypeOK, SeqOwners, SeqNo, FileState, FlushPc, CompactPc, QueryPc
<1>2. DownIsEmpty'
  BY PartitionAssumption DEF TypeOK, DownIsEmpty
<1>3. SeqOwners'
  BY PartitionAssumption, SMTT(90) DEF TypeOK, DownIsEmpty, SeqOwners, SeqNo, Merging
<1>4. FilesInStep'
  BY PartitionAssumption DEF TypeOK, DownIsEmpty, SeqOwners, FilesInStep, Merging, Deleting, Readable, Complete, SeqNo
<1>5. MergeAccounts'
  BY PartitionAssumption DEF TypeOK, DownIsEmpty, SeqOwners, FilesInStep, MergeAccounts, Merging, Deleting, RowsOf, Readable, SeqNo
<1>6. FreshRows'
  BY PartitionAssumption DEF TypeOK, DownIsEmpty, SeqOwners, FilesInStep, MergeAccounts, FreshRows, Merging, RowsOf
<1>7. DurableRows'
  BY PartitionAssumption DEF TypeOK, DownIsEmpty, SeqOwners, FilesInStep, MergeAccounts, DurableRows, Recoverable, Merging, Deleting, RowsOf, Readable, Complete, SeqNo
<1> QED
  BY <1>1, <1>2, <1>3, <1>4, <1>5, <1>6, <1>7

LEMMA FlushFailInv ==
  ASSUME Inv, FlushFail
  PROVE  Inv'
<1> USE DEF Inv, DurableInv, FlushFail, NoFlush, NoCompact, NoQuery, disk, history
<1>1. TypeOK'
  BY PartitionAssumption DEF TypeOK, SeqOwners, SeqNo, FileState, FlushPc, CompactPc, QueryPc
<1>2. DownIsEmpty'
  BY PartitionAssumption DEF TypeOK, DownIsEmpty
<1>3. SeqOwners'
  BY PartitionAssumption DEF TypeOK, DownIsEmpty, SeqOwners, SeqNo, Merging
<1>4. FilesInStep'
  BY PartitionAssumption DEF TypeOK, DownIsEmpty, SeqOwners, FilesInStep, Merging, Deleting, Readable, Complete, SeqNo
<1>5. MergeAccounts'
  BY PartitionAssumption DEF TypeOK, DownIsEmpty, SeqOwners, FilesInStep, MergeAccounts, Merging, Deleting, RowsOf, Readable, SeqNo
<1>6. FreshRows'
  BY PartitionAssumption, Zenon DEF TypeOK, DownIsEmpty, SeqOwners, FilesInStep, MergeAccounts, FreshRows, Merging, RowsOf
<1>7. DurableRows'
  BY PartitionAssumption DEF TypeOK, DownIsEmpty, SeqOwners, FilesInStep, MergeAccounts, DurableRows, Recoverable, Merging, Deleting, RowsOf, Readable, Complete, SeqNo
<1> QED
  BY <1>1, <1>2, <1>3, <1>4, <1>5, <1>6, <1>7

LEMMA CompactDrainInv ==
  ASSUME Inv, CompactDrain
  PROVE  Inv'
<1> USE DEF Inv, DurableInv, CompactDrain, Drained, NoFlush, NoCompact, NoQuery, disk, history
<1>1. TypeOK'
  BY PartitionAssumption DEF TypeOK, SeqOwners, SeqNo, FileState, FlushPc, CompactPc, QueryPc
<1>2. DownIsEmpty'
  BY PartitionAssumption DEF TypeOK, DownIsEmpty
<1>3. SeqOwners'
  <2>1. compact' = [pc |-> "read", out |-> nextSeq, inputs |-> sstables, rows |-> {}, victim |-> 0]
    OBVIOUS
  <2>2. nextSeq \in SeqNo /\ nextSeq' = nextSeq + 1 /\ sstables' = {}
    BY PartitionAssumption DEF TypeOK, SeqNo
  <2> QED
    BY <2>1, <2>2 DEF TypeOK, SeqOwners, SeqNo, Merging
<1>4. FilesInStep'
  <2>1. zonemap[nextSeq] = "absent"
    <3>1. nextSeq \in SeqNo /\ ~(nextSeq < nextSeq)
      BY PartitionAssumption DEF TypeOK, SeqNo
    <3> QED
      BY <3>1 DEF SeqOwners
  <2>2. \A s \in compact'.inputs : zonemap[s] = "whole"
    BY DEF FilesInStep
  <2> QED
    BY <2>1, <2>2 DEF TypeOK, FilesInStep, Deleting, Readable, Complete
<1>5. MergeAccounts'
  BY PartitionAssumption, Zenon DEF TypeOK, DownIsEmpty, SeqOwners, FilesInStep, MergeAccounts, Merging, Deleting, RowsOf, Readable, SeqNo
<1>6. FreshRows'
  BY PartitionAssumption, Zenon DEF TypeOK, DownIsEmpty, SeqOwners, FilesInStep, MergeAccounts, FreshRows, Merging, RowsOf
<1>7. DurableRows'
  BY PartitionAssumption, Zenon DEF TypeOK, DownIsEmpty, SeqOwners, FilesInStep, MergeAccounts, DurableRows, Recoverable, Merging, Deleting, RowsOf, Readable, Complete, SeqNo
<1> QED
  BY <1>1, <1>2, <1>3, <1>4, <1>5, <1>6, <1>7

LEMMA CompactReadInv ==
  ASSUME Inv, CompactRead
  PROVE  Inv'
<1> USE DEF Inv, DurableInv, NoFlush, NoCompact, NoQuery, disk, history
<1> DEFINE all == RowsOf(compact.inputs)
<1>0. PICK got \in SUBSET all :
        /\ skipped' = skipped \cup (all \ got)
        /\ compact' = [compact EXCEPT !.rows = got,
                                      !.pc = IF got = {} THEN "delete" ELSE "create"]
  BY Zenon DEF CompactRead
<1>a. /\ compact.pc = "read"
      /\ UNCHANGED <<disk, up, sstables, nextSeq, flush, query, crashes, given, persisted>>
  BY DEF CompactRead, CompactCanRead
<1>b. all \subseteq Row
  BY DEF RowsOf
<1> HIDE DEF all
<1>1. TypeOK'
  BY <1>0, <1>a, <1>b, Zenon DEF TypeOK, SeqOwners, SeqNo, FileState, FlushPc, CompactPc, QueryPc
<1>2. DownIsEmpty'
  BY <1>0, <1>a, <1>b DEF TypeOK, DownIsEmpty
<1>3. SeqOwners'
  BY <1>0, <1>a, <1>b DEF TypeOK, DownIsEmpty, SeqOwners, SeqNo, Merging
<1>4. FilesInStep'
  BY <1>0, <1>a, <1>b DEF TypeOK, DownIsEmpty, SeqOwners, FilesInStep, Merging, Deleting, Readable, Complete, SeqNo
<1>5. MergeAccounts'
  BY <1>0, <1>a, <1>b DEF all, TypeOK, DownIsEmpty, SeqOwners, FilesInStep, MergeAccounts, Merging, Deleting, RowsOf, Readable, SeqNo
<1>6. FreshRows'
  BY <1>0, <1>a, <1>b DEF all, TypeOK, DownIsEmpty, SeqOwners, FilesInStep, MergeAccounts, FreshRows, Merging, RowsOf
<1>7. DurableRows'
  BY <1>0, <1>a, <1>b DEF TypeOK, DownIsEmpty, SeqOwners, FilesInStep, MergeAccounts, DurableRows, Recoverable, Merging, Deleting, RowsOf, Readable, Complete, SeqNo
<1> QED
  BY <1>1, <1>2, <1>3, <1>4, <1>5, <1>6, <1>7

LEMMA CompactCreateParquetInv ==
  ASSUME Inv, CompactCreateParquet
  PROVE  Inv'
<1> USE DEF Inv, DurableInv, CompactCreateParquet, NoFlush, NoCompact, NoQuery, disk, history
<1>1. TypeOK'
  BY PartitionAssumption, Zenon DEF TypeOK, SeqOwners, SeqNo, FileState, FlushPc, CompactPc, QueryPc
<1>2. DownIsEmpty'
  BY PartitionAssumption DEF TypeOK, DownIsEmpty
<1>3. SeqOwners'
  BY PartitionAssumption DEF TypeOK, DownIsEmpty, SeqOwners, SeqNo, Merging
<1>4. FilesInStep'
  BY PartitionAssumption DEF TypeOK, DownIsEmpty, SeqOwners, FilesInStep, Merging, Deleting, Readable, Complete, SeqNo
<1>5. MergeAccounts'
  BY PartitionAssumption DEF TypeOK, DownIsEmpty, SeqOwners, FilesInStep, MergeAccounts, Merging, Deleting, RowsOf, Readable, SeqNo
<1>6. FreshRows'
  BY PartitionAssumption DEF TypeOK, DownIsEmpty, SeqOwners, FilesInStep, MergeAccounts, FreshRows, Merging, RowsOf
<1>7. DurableRows'
  BY PartitionAssumption DEF TypeOK, DownIsEmpty, SeqOwners, FilesInStep, MergeAccounts, DurableRows, Recoverable, Merging, Deleting, RowsOf, Readable, Complete, SeqNo
<1> QED
  BY <1>1, <1>2, <1>3, <1>4, <1>5, <1>6, <1>7

LEMMA CompactWriteParquetInv ==
  ASSUME Inv, CompactWriteParquet
  PROVE  Inv'
<1> USE DEF Inv, DurableInv, CompactWriteParquet, NoFlush, NoCompact, NoQuery, disk, history
<1>1. TypeOK'
  BY PartitionAssumption, Zenon DEF TypeOK, SeqOwners, SeqNo, FileState, FlushPc, CompactPc, QueryPc
<1>2. DownIsEmpty'
  BY PartitionAssumption DEF TypeOK, DownIsEmpty
<1>3. SeqOwners'
  BY PartitionAssumption DEF TypeOK, DownIsEmpty, SeqOwners, SeqNo, Merging
<1>4. FilesInStep'
  BY PartitionAssumption DEF TypeOK, DownIsEmpty, SeqOwners, FilesInStep, Merging, Deleting, Readable, Complete, SeqNo
<1>5. MergeAccounts'
  BY PartitionAssumption DEF TypeOK, DownIsEmpty, SeqOwners, FilesInStep, MergeAccounts, Merging, Deleting, RowsOf, Readable, SeqNo
<1>6. FreshRows'
  BY PartitionAssumption DEF TypeOK, DownIsEmpty, SeqOwners, FilesInStep, MergeAccounts, FreshRows, Merging, RowsOf
<1>7. DurableRows'
  BY PartitionAssumption DEF TypeOK, DownIsEmpty, SeqOwners, FilesInStep, MergeAccounts, DurableRows, Recoverable, Merging, Deleting, RowsOf, Readable, Complete, SeqNo
<1> QED
  BY <1>1, <1>2, <1>3, <1>4, <1>5, <1>6, <1>7

LEMMA CompactCreateZonemapInv ==
  ASSUME Inv, CompactCreateZonemap
  PROVE  Inv'
<1> USE DEF Inv, DurableInv, CompactCreateZonemap, NoFlush, NoCompact, NoQuery, disk, history
<1>1. TypeOK'
  BY PartitionAssumption, Zenon DEF TypeOK, SeqOwners, SeqNo, FileState, FlushPc, CompactPc, QueryPc
<1>2. DownIsEmpty'
  BY PartitionAssumption DEF TypeOK, DownIsEmpty
<1>3. SeqOwners'
  BY PartitionAssumption DEF TypeOK, DownIsEmpty, SeqOwners, SeqNo, Merging
<1>4. FilesInStep'
  BY PartitionAssumption DEF TypeOK, DownIsEmpty, SeqOwners, FilesInStep, Merging, Deleting, Readable, Complete, SeqNo
<1>5. MergeAccounts'
  BY PartitionAssumption DEF TypeOK, DownIsEmpty, SeqOwners, FilesInStep, MergeAccounts, Merging, Deleting, RowsOf, Readable, SeqNo
<1>6. FreshRows'
  BY PartitionAssumption DEF TypeOK, DownIsEmpty, SeqOwners, FilesInStep, MergeAccounts, FreshRows, Merging, RowsOf
<1>7. DurableRows'
  BY PartitionAssumption DEF TypeOK, DownIsEmpty, SeqOwners, FilesInStep, MergeAccounts, DurableRows, Recoverable, Merging, Deleting, RowsOf, Readable, Complete, SeqNo
<1> QED
  BY <1>1, <1>2, <1>3, <1>4, <1>5, <1>6, <1>7

LEMMA CompactWriteZonemapInv ==
  ASSUME Inv, CompactWriteZonemap
  PROVE  Inv'
<1> USE DEF Inv, DurableInv, CompactWriteZonemap, NoFlush, NoCompact, NoQuery, disk, history
<1>1. TypeOK'
  BY PartitionAssumption, Zenon DEF TypeOK, SeqOwners, SeqNo, FileState, FlushPc, CompactPc, QueryPc
<1>2. DownIsEmpty'
  BY PartitionAssumption DEF TypeOK, DownIsEmpty
<1>3. SeqOwners'
  BY PartitionAssumption DEF TypeOK, DownIsEmpty, SeqOwners, SeqNo, Merging
<1>4. FilesInStep'
  BY PartitionAssumption DEF TypeOK, DownIsEmpty, SeqOwners, FilesInStep, Merging, Deleting, Readable, Complete, SeqNo
<1>5. MergeAccounts'
  BY PartitionAssumption DEF TypeOK, DownIsEmpty, SeqOwners, FilesInStep, MergeAccounts, Merging, Deleting, RowsOf, Readable, SeqNo
<1>6. FreshRows'
  BY PartitionAssumption DEF TypeOK, DownIsEmpty, SeqOwners, FilesInStep, MergeAccounts, FreshRows, Merging, RowsOf
<1>7. DurableRows'
  BY PartitionAssumption DEF TypeOK, DownIsEmpty, SeqOwners, FilesInStep, MergeAccounts, DurableRows, Recoverable, Merging, Deleting, RowsOf, Readable, Complete, SeqNo
<1> QED
  BY <1>1, <1>2, <1>3, <1>4, <1>5, <1>6, <1>7

LEMMA CompactAddInv ==
  ASSUME Inv, CompactAdd
  PROVE  Inv'
<1> USE DEF Inv, DurableInv, CompactAdd, NoFlush, NoCompact, NoQuery, disk, history
<1>1. TypeOK'
  BY PartitionAssumption, Zenon DEF TypeOK, SeqOwners, SeqNo, FileState, FlushPc, CompactPc, QueryPc
<1>2. DownIsEmpty'
  BY PartitionAssumption DEF TypeOK, DownIsEmpty
<1>3. SeqOwners'
  BY PartitionAssumption DEF TypeOK, DownIsEmpty, SeqOwners, SeqNo, Merging
<1>4. FilesInStep'
  BY PartitionAssumption DEF TypeOK, DownIsEmpty, SeqOwners, FilesInStep, Merging, Deleting, Readable, Complete, SeqNo
<1>5. MergeAccounts'
  BY PartitionAssumption DEF TypeOK, DownIsEmpty, SeqOwners, FilesInStep, MergeAccounts, Merging, Deleting, RowsOf, Readable, SeqNo
<1>6. FreshRows'
  BY PartitionAssumption DEF TypeOK, DownIsEmpty, SeqOwners, FilesInStep, MergeAccounts, FreshRows, Merging, RowsOf
<1>7. DurableRows'
  BY PartitionAssumption DEF TypeOK, DownIsEmpty, SeqOwners, FilesInStep, MergeAccounts, DurableRows, Recoverable, Merging, Deleting, RowsOf, Readable, Complete, SeqNo
<1> QED
  BY <1>1, <1>2, <1>3, <1>4, <1>5, <1>6, <1>7

LEMMA CompactFailInv ==
  ASSUME Inv, CompactFail
  PROVE  Inv'
<1> USE DEF Inv, DurableInv, CompactFail, AfterCompactError, NoFlush, NoCompact, NoQuery, disk, history
<1>1. TypeOK'
  BY PartitionAssumption DEF TypeOK, SeqOwners, SeqNo, FileState, FlushPc, CompactPc, QueryPc
<1>2. DownIsEmpty'
  BY PartitionAssumption DEF TypeOK, DownIsEmpty
<1>3. SeqOwners'
  <2>1. flush.pc # "idle" => flush.seq # 0
    BY DEF SeqOwners, SeqNo
  <2> QED
    BY <2>1 DEF SeqOwners, Merging
<1>4. FilesInStep'
  BY PartitionAssumption, Zenon DEF TypeOK, DownIsEmpty, SeqOwners, FilesInStep, Merging, Deleting, Readable, Complete, SeqNo
<1>5. MergeAccounts'
  BY PartitionAssumption, Zenon DEF TypeOK, DownIsEmpty, SeqOwners, FilesInStep, MergeAccounts, Merging, Deleting, RowsOf, Readable, SeqNo
<1>6. FreshRows'
  BY PartitionAssumption, Zenon DEF TypeOK, DownIsEmpty, SeqOwners, FilesInStep, MergeAccounts, FreshRows, Merging, RowsOf
<1>7. DurableRows'
  BY PartitionAssumption, Zenon DEF TypeOK, DownIsEmpty, SeqOwners, FilesInStep, MergeAccounts, DurableRows, Recoverable, Merging, Deleting, RowsOf, Readable, Complete, SeqNo
<1> QED
  BY <1>1, <1>2, <1>3, <1>4, <1>5, <1>6, <1>7

LEMMA DeleteParquetInv ==
  ASSUME Inv, NEW s \in SeqNo, DeleteParquet(s)
  PROVE  Inv'
<1> USE DEF Inv, DurableInv, DeleteParquet, NoFlush, NoCompact, NoQuery, disk, history
<1>1. TypeOK'
  <2>1. parquet' \in [SeqNo -> FileState] /\ content' \in [SeqNo -> SUBSET Row]
    BY DEF TypeOK, FileState
  <2>2. compact' \in [pc : CompactPc, out : SeqNo \cup {0}, inputs : SUBSET SeqNo,
                      rows : SUBSET Row, victim : SeqNo \cup {0}]
    BY Zenon DEF TypeOK, CompactPc
  <2> QED
    BY <2>1, <2>2 DEF TypeOK
<1>2. DownIsEmpty'
  BY PartitionAssumption DEF TypeOK, DownIsEmpty
<1>3. SeqOwners'
  BY PartitionAssumption DEF TypeOK, DownIsEmpty, SeqOwners, SeqNo, Merging
<1>4. FilesInStep'
  BY PartitionAssumption, SMTT(30) DEF TypeOK, DownIsEmpty, SeqOwners, FilesInStep, Merging, Deleting, Readable, Complete, SeqNo
<1>5. MergeAccounts'
  BY PartitionAssumption DEF TypeOK, DownIsEmpty, SeqOwners, FilesInStep, MergeAccounts, Merging, Deleting, RowsOf, Readable, SeqNo
<1>6. FreshRows'
  BY PartitionAssumption DEF TypeOK, DownIsEmpty, SeqOwners, FilesInStep, MergeAccounts, FreshRows, Merging, RowsOf
<1>7. DurableRows'
  <2> SUFFICES ASSUME NEW x \in persisted, x \notin skipped
               PROVE  x \in Recoverable'
    BY DEF DurableRows
  <2>1. PICK t \in SeqNo : zonemap[t] = "whole" /\ Readable(t) /\ x \in content[t]
    BY DEF DurableRows, Recoverable, RowsOf
  <2>2. CASE t # s
    BY <2>1, <2>2 DEF TypeOK, Recoverable, RowsOf, Readable
  <2>3. CASE t = s
    <3>1. x \in compact.rows
      BY <2>1, <2>3 DEF MergeAccounts, RowsOf, TypeOK
    <3>2. compact.out \in SeqNo /\ compact.out # s /\ Complete(compact.out) /\ x \in content[compact.out]
      BY <3>1 DEF SeqOwners, FilesInStep, Deleting
    <3> QED
      BY <3>2 DEF TypeOK, Recoverable, RowsOf, Readable, Complete
  <2> QED
    BY <2>2, <2>3
<1> QED
  BY <1>1, <1>2, <1>3, <1>4, <1>5, <1>6, <1>7

LEMMA DeleteZonemapInv ==
  ASSUME Inv, DeleteZonemap
  PROVE  Inv'
<1> USE DEF Inv, DurableInv, DeleteZonemap, NoFlush, NoCompact, NoQuery, disk, history
<1>1. TypeOK'
  BY PartitionAssumption, Zenon DEF TypeOK, SeqOwners, SeqNo, FileState, FlushPc, CompactPc, QueryPc
<1>2. DownIsEmpty'
  BY PartitionAssumption DEF TypeOK, DownIsEmpty
<1>3. SeqOwners'
  BY PartitionAssumption, SMTT(30) DEF TypeOK, DownIsEmpty, SeqOwners, SeqNo, Merging
<1>4. FilesInStep'
  <2>1. \A s \in SeqNo : s # compact.victim => zonemap'[s] = zonemap[s]
    BY DEF TypeOK
  <2>2. compact.victim # compact.out /\ compact.victim \notin sstables
    BY DEF SeqOwners
  <2>3. flush.pc # "idle" => flush.seq # compact.victim /\ flush.seq \in SeqNo
    BY DEF SeqOwners
  <2>4. compact'.inputs \subseteq compact.inputs \ {compact.victim}
    BY DEF TypeOK
  <2>5. \A s \in (sstables \cup compact.inputs)' : zonemap'[s] = "whole"
    BY <2>1, <2>2, <2>4 DEF FilesInStep, TypeOK
  <2>6. compact'.pc \in {"idle", "delete"} /\ (compact'.pc = "delete" =>
           compact'.out = compact.out /\ compact'.rows = compact.rows)
    BY DEF TypeOK
  <2> QED
    BY <2>1, <2>2, <2>3, <2>5, <2>6 DEF TypeOK, SeqOwners, FilesInStep, Deleting, Readable, Complete
<1>5. MergeAccounts'
  BY PartitionAssumption DEF TypeOK, DownIsEmpty, SeqOwners, FilesInStep, MergeAccounts, Merging, Deleting, RowsOf, Readable, SeqNo
<1>6. FreshRows'
  BY PartitionAssumption DEF TypeOK, DownIsEmpty, SeqOwners, FilesInStep, MergeAccounts, FreshRows, Merging, RowsOf
<1>7. DurableRows'
  <2> SUFFICES ASSUME NEW x \in persisted, x \notin skipped
               PROVE  x \in Recoverable'
    BY DEF DurableRows
  <2>1. PICK t \in SeqNo : zonemap[t] = "whole" /\ Readable(t) /\ x \in content[t]
    BY DEF DurableRows, Recoverable, RowsOf
  <2>2. CASE t # compact.victim
    BY <2>1, <2>2 DEF TypeOK, Recoverable, RowsOf, Readable
  <2>3. CASE t = compact.victim
    <3>1. compact.victim \in compact.inputs
      BY DEF SeqOwners
    <3>2. x \in compact.rows
      BY <2>1, <2>3, <3>1 DEF MergeAccounts, RowsOf, TypeOK
    <3>3. /\ compact.out \in SeqNo /\ compact.out # compact.victim
          /\ Complete(compact.out) /\ x \in content[compact.out]
      BY <3>1, <3>2 DEF SeqOwners, FilesInStep, Deleting
    <3> QED
      BY <3>3 DEF TypeOK, Recoverable, RowsOf, Readable, Complete
  <2> QED
    BY <2>2, <2>3
<1> QED
  BY <1>1, <1>2, <1>3, <1>4, <1>5, <1>6, <1>7

(* Inv says nothing about a query of an open partition beyond its type.    *)
LEMMA QueryOnly ==
  ASSUME Inv, up,
         query' \in [Reader -> [pc : QueryPc, paths : SUBSET SeqNo, rows : SUBSET Row,
                                want : SUBSET Row, settled : BOOLEAN]],
         UNCHANGED <<disk, up, sstables, nextSeq, flush, compact, crashes, history>>
  PROVE  Inv'
<1> USE DEF Inv, DurableInv, disk, history
<1>1. TypeOK'
  BY DEF TypeOK
<1>2. DownIsEmpty'
  BY DEF DownIsEmpty
<1>3. SeqOwners'
  BY DEF SeqOwners, Merging
<1>4. FilesInStep'
  BY DEF FilesInStep, Deleting, Readable, Complete
<1>5. MergeAccounts'
  BY DEF MergeAccounts, Merging, RowsOf, Readable
<1>6. FreshRows'
  BY DEF FreshRows
<1>7. DurableRows'
  BY DEF DurableRows, Recoverable, RowsOf, Readable
<1> QED
  BY <1>1, <1>2, <1>3, <1>4, <1>5, <1>6, <1>7

(* A query that is under way is one of an open partition.                  *)
LEMMA QueryNeedsUp ==
  ASSUME Inv, NEW r \in Reader, query[r].pc # "idle"
  PROVE  up
BY DEF Inv, DurableInv, DownIsEmpty, NoQuery

LEMMA QueryBeginInv ==
  ASSUME Inv, NEW r \in Reader, QueryBegin(r)
  PROVE  Inv'
<1>1. query' \in [Reader -> [pc : QueryPc, paths : SUBSET SeqNo, rows : SUBSET Row,
                             want : SUBSET Row, settled : BOOLEAN]]
  BY DEF Inv, TypeOK, QueryBegin, QueryPc
<1> QED
  BY <1>1, QueryOnly, Zenon DEF QueryBegin

LEMMA QueryReadInv ==
  ASSUME Inv, NEW r \in Reader, QueryRead(r)
  PROVE  Inv'
<1>1. PICK s \in query[r].paths :
        \/ query' = [query EXCEPT ![r].paths = @ \ {s}, ![r].rows = @ \cup content[s]]
        \/ query' = [query EXCEPT ![r].pc = "failed"]
  BY Zenon DEF QueryRead
<1>2. query[r] \in [pc : QueryPc, paths : SUBSET SeqNo, rows : SUBSET Row,
                    want : SUBSET Row, settled : BOOLEAN] /\ content[s] \in SUBSET Row
  BY DEF Inv, TypeOK
<1>3. query' \in [Reader -> [pc : QueryPc, paths : SUBSET SeqNo, rows : SUBSET Row,
                             want : SUBSET Row, settled : BOOLEAN]]
  BY <1>1, <1>2 DEF Inv, TypeOK, QueryPc
<1>4. up
  BY QueryNeedsUp DEF QueryRead
<1> QED
  BY <1>3, <1>4, QueryOnly DEF QueryRead

LEMMA QueryEndInv ==
  ASSUME Inv, NEW r \in Reader, QueryEnd(r)
  PROVE  Inv'
<1>1. query[r] \in [pc : QueryPc, paths : SUBSET SeqNo, rows : SUBSET Row,
                    want : SUBSET Row, settled : BOOLEAN]
  BY DEF Inv, TypeOK
<1>2. query' \in [Reader -> [pc : QueryPc, paths : SUBSET SeqNo, rows : SUBSET Row,
                             want : SUBSET Row, settled : BOOLEAN]]
  BY <1>1 DEF Inv, TypeOK, QueryEnd, QueryPc
<1>3. up
  BY QueryNeedsUp DEF QueryEnd
<1> QED
  BY <1>2, <1>3, QueryOnly DEF QueryEnd

LEMMA QueryReturnInv ==
  ASSUME Inv, NEW r \in Reader, QueryReturn(r)
  PROVE  Inv'
<1>1. NoQuery \in [pc : QueryPc, paths : SUBSET SeqNo, rows : SUBSET Row,
                   want : SUBSET Row, settled : BOOLEAN]
  BY DEF NoQuery, QueryPc
<1>2. query' \in [Reader -> [pc : QueryPc, paths : SUBSET SeqNo, rows : SUBSET Row,
                             want : SUBSET Row, settled : BOOLEAN]]
  BY <1>1 DEF Inv, TypeOK, QueryReturn
<1>3. up
  BY QueryNeedsUp DEF QueryReturn
<1> QED
  BY <1>2, <1>3, QueryOnly DEF QueryReturn

LEMMA NextInv ==
  ASSUME Inv, [Next]_vars
  PROVE  Inv'
<1>1. CASE Open
  BY <1>1, OpenInv
<1>2. CASE Crash
  BY <1>2, CrashInv
<1>3. CASE \E R \in SUBSET Row : FlushBegin(R)
  BY <1>3, FlushBeginInv
<1>4. CASE FlushStep
  BY <1>4, FlushCreateParquetInv, FlushWriteParquetInv, FlushCreateZonemapInv,
     FlushWriteZonemapInv, FlushAddInv, FlushFailInv DEF FlushStep
<1>5. CASE CompactDrain
  BY <1>5, CompactDrainInv
<1>6. CASE CompactStep
  <2>1. CASE \E s \in compact.inputs : DeleteParquet(s)
    <3>1. compact.inputs \subseteq SeqNo
      BY DEF Inv, TypeOK
    <3> QED
      BY <2>1, <3>1, DeleteParquetInv
  <2> QED
    BY <1>6, <2>1, CompactReadInv, CompactCreateParquetInv, CompactWriteParquetInv,
       CompactCreateZonemapInv, CompactWriteZonemapInv, CompactAddInv,
       CompactFailInv,
       DeleteZonemapInv DEF CompactStep
<1>7. CASE \E r \in Reader : QueryBegin(r) \/ QueryStep(r)
  BY <1>7, QueryBeginInv, QueryReadInv, QueryEndInv, QueryReturnInv DEF QueryStep
<1>8. CASE UNCHANGED vars
  <2> USE <1>8 DEF vars, Inv, DurableInv
  <2>1. TypeOK' /\ DownIsEmpty' /\ FreshRows'
    BY DEF TypeOK, DownIsEmpty, FreshRows
  <2>2. SeqOwners'
    BY Zenon DEF SeqOwners, Merging
  <2>3. FilesInStep'
    BY DEF FilesInStep, Deleting, Readable, Complete
  <2>4. MergeAccounts' /\ DurableRows'
    BY DEF MergeAccounts, Merging, DurableRows, Recoverable, RowsOf, Readable
  <2> QED
    BY <2>1, <2>2, <2>3, <2>4
<1> QED
  BY <1>1, <1>2, <1>3, <1>4, <1>5, <1>6, <1>7, <1>8 DEF Next

LEMMA InitInv == Init => Inv
<1> SUFFICES ASSUME Init PROVE DurableInv
  BY InitType DEF Inv
<1>1. compact.pc = "idle" /\ compact.inputs = {} /\ compact.rows = {} /\ compact = NoCompact
  BY DEF Init, NoCompact
<1>2. flush.pc = "idle" /\ flush.rows = {} /\ flush = NoFlush
  BY DEF Init, NoFlush
<1> QED
  BY <1>1, <1>2 DEF Init, DurableInv, DownIsEmpty, SeqOwners, FilesInStep, MergeAccounts,
     FreshRows, DurableRows, Merging, Deleting

(* Inv holds in every reachable state.                                     *)
THEOREM InvAlways == Spec => []Inv
BY InitInv, NextInv, PTL DEF Spec

(* Every reachable state of the sub-partition is well typed, whatever      *)
(* files a crash left for SignalPartition::open to find.                   *)
THEOREM TypeCorrect == Spec => []TypeOK
<1>1. Inv => TypeOK
  BY DEF Inv
<1> QED
  BY <1>1, InvAlways, PTL

(* A row whose flush returned Ok survives any number of compactions,       *)
(* failures of them, crashes and restarts, unless compact_signal skipped   *)
(* it on a read error.                                                     *)
THEOREM Durability == Spec => []DurableRows
<1>1. Inv => DurableRows
  BY DEF Inv, DurableInv
<1> QED
  BY <1>1, InvAlways, PTL

(* No flush and no compaction writes into a parquet file that has a        *)
(* readable zonemap: sequence numbers are not used twice while they count. *)
THEOREM NoOverwrite == Spec => NeverOverwritten
<1> DEFINE Kept == \A s \in SeqNo :
                     Complete(s) => \/ parquet'[s] = "absent"
                                    \/ parquet'[s] = "whole" /\ content'[s] = content[s]
<1>1. ASSUME Inv, [Next]_vars PROVE Kept
  <2>1. CASE UNCHANGED <<parquet, content>>
    BY <2>1 DEF Complete, Readable
  <2>2. CASE FlushCreateParquet \/ FlushWriteParquet
    <3>1. zonemap[flush.seq] = "absent"
      BY <1>1, <2>2 DEF Inv, DurableInv, FilesInStep, FlushCreateParquet, FlushWriteParquet
    <3> QED
      BY <1>1, <2>2, <3>1 DEF Inv, TypeOK, Complete, Readable, FlushCreateParquet, FlushWriteParquet
  <2>3. CASE CompactCreateParquet \/ CompactWriteParquet
    <3>1. zonemap[compact.out] = "absent"
      BY <1>1, <2>3 DEF Inv, DurableInv, FilesInStep, CompactCreateParquet, CompactWriteParquet
    <3> QED
      BY <1>1, <2>3, <3>1 DEF Inv, TypeOK, Complete, Readable, CompactCreateParquet, CompactWriteParquet
  <2>4. CASE \E s \in compact.inputs : DeleteParquet(s)
    BY <1>1, <2>4 DEF Inv, TypeOK, Complete, Readable, DeleteParquet
  <2> QED
    BY <1>1, <2>1, <2>2, <2>3, <2>4, Zenon DEF Next, vars, disk, Open, Crash, FlushBegin, FlushStep,
       FlushCreateZonemap, FlushWriteZonemap, FlushAdd, FlushFail, CompactDrain, CompactStep,
       CompactRead, CompactCreateZonemap, CompactWriteZonemap, CompactAdd, CompactFail,
       DeleteZonemap, QueryBegin, QueryStep, QueryRead, QueryEnd, QueryReturn
<1> QED
  BY <1>1, InvAlways, PTL DEF Spec, NeverOverwritten

(* Recoverable depends on the files behind a whole zonemap only.           *)
LEMMA RecoverableFrame ==
  ASSUME \A s \in SeqNo : zonemap'[s] = "whole" <=> zonemap[s] = "whole",
         \A s \in SeqNo : zonemap[s] = "whole" =>
                            parquet'[s] = parquet[s] /\ content'[s] = content[s]
  PROVE  Recoverable' = Recoverable
BY DEF Recoverable, RowsOf, Readable

(* Deleting the files of an input loses only rows that were skipped: the   *)
(* others are in the merged file.                                          *)
LEMMA DeletionDrops ==
  ASSUME Inv, NEW v \in compact.inputs, Deleting,
         \A s \in SeqNo : s # v => /\ zonemap'[s] = zonemap[s]
                                   /\ parquet'[s] = parquet[s]
                                   /\ content'[s] = content[s],
         zonemap'[v] = "whole" => zonemap[v] = "whole",
         parquet'[v] = "whole" => parquet[v] = "whole" /\ content'[v] = content[v],
         UNCHANGED skipped
  PROVE  Rows!Next
<1> DEFINE gone == Recoverable \ Recoverable'
<1>1. Recoverable' \subseteq Recoverable
  BY DEF Recoverable, RowsOf, Readable
<1>2. gone \subseteq skipped
  <2> SUFFICES ASSUME NEW x \in Recoverable, x \notin Recoverable', x \notin skipped
               PROVE  FALSE
    OBVIOUS
  <2>1. PICK t \in SeqNo : zonemap[t] = "whole" /\ Readable(t) /\ x \in content[t]
    BY DEF Recoverable, RowsOf
  <2>2. t = v
    BY <2>1 DEF Recoverable, RowsOf, Readable
  <2>3. x \in compact.rows
    BY <2>1, <2>2 DEF Inv, DurableInv, MergeAccounts, Deleting, Recoverable, RowsOf
  <2>4. /\ compact.out \in SeqNo /\ compact.out # v
        /\ Complete(compact.out) /\ x \in content[compact.out]
    BY <2>3, Zenon DEF Inv, DurableInv, SeqOwners, FilesInStep, Deleting
  <2> QED
    BY <2>4 DEF Recoverable, RowsOf, Readable, Complete
<1>3. Recoverable' = Recoverable \ gone
  BY <1>1
<1>4. gone \in SUBSET Row
  BY DEF Recoverable, RowsOf
<1>5. Rows!Drop(gone)
  <2> HIDE DEF gone
  <2> QED BY <1>2, <1>3 DEF Rows!Drop
<1> QED
  BY <1>4, <1>5 DEF Rows!Next

(* The sub-partition implements RowStore: the rows a restart would find    *)
(* change only by the completion of a flush, as a whole, and by the loss   *)
(* of rows that compact_signal could not read.                             *)
THEOREM Refinement == Spec => ImplementsRowStore
<1>1. Init => Rows!Init
  BY DEF Init, Rows!Init, Recoverable, RowsOf, Readable
<1>2. ASSUME Inv, [Next]_vars PROVE [Rows!Next]_(Rows!vars)
  <2>1. CASE UNCHANGED <<parquet, content, zonemap, skipped>>
    <3>1. Recoverable' = Recoverable
      BY <2>1, RecoverableFrame
    <3> QED
      BY <2>1, <3>1 DEF Rows!vars
  <2>2. CASE FlushCreateParquet \/ FlushWriteParquet
    <3>1. zonemap[flush.seq] = "absent" /\ UNCHANGED <<zonemap, skipped>>
      BY <1>2, <2>2 DEF Inv, DurableInv, FilesInStep, FlushCreateParquet, FlushWriteParquet, history
    <3>2. \A s \in SeqNo : s # flush.seq => parquet'[s] = parquet[s] /\ content'[s] = content[s]
      BY <1>2, <2>2 DEF Inv, TypeOK, FlushCreateParquet, FlushWriteParquet
    <3>3. Recoverable' = Recoverable
      BY <3>1, <3>2, RecoverableFrame
    <3> QED
      BY <3>1, <3>3 DEF Rows!vars
  <2>3. CASE FlushCreateZonemap
    <3>1. zonemap[flush.seq] = "absent" /\ UNCHANGED <<parquet, content, skipped>>
      BY <1>2, <2>3 DEF Inv, DurableInv, FilesInStep, FlushCreateZonemap, history
    <3>2. \A s \in SeqNo : zonemap'[s] = IF s = flush.seq THEN "partial" ELSE zonemap[s]
      BY <1>2, <2>3 DEF Inv, TypeOK, FlushCreateZonemap
    <3>3. Recoverable' = Recoverable
      BY <3>1, <3>2, RecoverableFrame
    <3> QED
      BY <3>1, <3>3 DEF Rows!vars
  <2>4. CASE FlushWriteZonemap
    <3>1. /\ flush.seq \in SeqNo /\ zonemap[flush.seq] = "partial"
          /\ Readable(flush.seq) /\ content[flush.seq] = flush.rows
          /\ UNCHANGED <<parquet, content, skipped>>
      BY <1>2, <2>4 DEF Inv, DurableInv, SeqOwners, FilesInStep, FlushWriteZonemap, history
    <3>2. \A s \in SeqNo : zonemap'[s] = IF s = flush.seq THEN "whole" ELSE zonemap[s]
      BY <1>2, <2>4 DEF Inv, TypeOK, FlushWriteZonemap
    <3>3. flush.rows \in SUBSET Row
      BY <1>2 DEF Inv, TypeOK
    <3>4. flush.rows \cap Recoverable = {}
      BY <1>2, <2>4, <3>1 DEF Inv, DurableInv, FreshRows, FlushWriteZonemap, Recoverable, RowsOf
    <3>5. Recoverable' = Recoverable \cup flush.rows
      BY <3>1, <3>2, <3>3 DEF Recoverable, RowsOf, Readable
    <3> QED
      BY <3>1, <3>3, <3>4, <3>5 DEF Rows!Next, Rows!Persist
  <2>5. CASE CompactRead
    <3>1. PICK got \in SUBSET RowsOf(compact.inputs) :
            skipped' = skipped \cup (RowsOf(compact.inputs) \ got)
      BY <2>5 DEF CompactRead
    <3>2. RowsOf(compact.inputs) \subseteq Recoverable
      BY <1>2 DEF Inv, DurableInv, TypeOK, FilesInStep, Recoverable, RowsOf
    <3>3. Recoverable' = Recoverable
      BY <2>5, RecoverableFrame DEF CompactRead, disk
    <3>4. (RowsOf(compact.inputs) \ got) \in SUBSET Row
      BY DEF RowsOf
    <3> QED
      BY <3>1, <3>2, <3>3, <3>4, Zenon DEF Rows!Next, Rows!Damage
  <2>6. CASE CompactCreateParquet \/ CompactWriteParquet
    <3>1. zonemap[compact.out] = "absent" /\ UNCHANGED <<zonemap, skipped>>
      BY <1>2, <2>6 DEF Inv, DurableInv, FilesInStep, CompactCreateParquet, CompactWriteParquet, history
    <3>2. \A s \in SeqNo : s # compact.out => parquet'[s] = parquet[s] /\ content'[s] = content[s]
      BY <1>2, <2>6 DEF Inv, TypeOK, CompactCreateParquet, CompactWriteParquet
    <3>3. Recoverable' = Recoverable
      BY <3>1, <3>2, RecoverableFrame
    <3> QED
      BY <3>1, <3>3 DEF Rows!vars
  <2>7. CASE CompactCreateZonemap
    <3>1. zonemap[compact.out] = "absent" /\ UNCHANGED <<parquet, content, skipped>>
      BY <1>2, <2>7 DEF Inv, DurableInv, FilesInStep, CompactCreateZonemap, history
    <3>2. \A s \in SeqNo : zonemap'[s] = IF s = compact.out THEN "partial" ELSE zonemap[s]
      BY <1>2, <2>7 DEF Inv, TypeOK, CompactCreateZonemap
    <3>3. Recoverable' = Recoverable
      BY <3>1, <3>2, RecoverableFrame
    <3> QED
      BY <3>1, <3>3 DEF Rows!vars
  <2>8. CASE CompactWriteZonemap
    <3>1. /\ compact.out \in SeqNo /\ content[compact.out] = compact.rows
          /\ UNCHANGED <<parquet, content, skipped>>
      BY <1>2, <2>8 DEF Inv, DurableInv, SeqOwners, FilesInStep, CompactWriteZonemap, history
    <3>2. \A s \in SeqNo : zonemap'[s] = IF s = compact.out THEN "whole" ELSE zonemap[s]
      BY <1>2, <2>8 DEF Inv, TypeOK, CompactWriteZonemap
    <3>3. compact.rows \subseteq Recoverable
      <4>1. compact.rows \subseteq RowsOf(compact.inputs)
        BY <1>2, <2>8 DEF Inv, DurableInv, MergeAccounts, Merging, CompactWriteZonemap
      <4> QED
        BY <1>2, <4>1 DEF Inv, DurableInv, TypeOK, FilesInStep, Recoverable, RowsOf
    <3>4. Recoverable' = Recoverable
      BY <3>1, <3>2, <3>3 DEF Recoverable, RowsOf, Readable
    <3> QED
      BY <3>1, <3>4 DEF Rows!vars
  <2>9. CASE \E s \in compact.inputs : DeleteParquet(s)
    <3>1. PICK s \in compact.inputs : DeleteParquet(s)
      BY <2>9
    <3>2. Deleting /\ UNCHANGED <<zonemap, skipped>>
      BY <3>1 DEF DeleteParquet, Deleting, history
    <3>3. /\ \A t \in SeqNo : t # s => parquet'[t] = parquet[t] /\ content'[t] = content[t]
          /\ parquet'[s] = "whole" => parquet[s] = "whole" /\ content'[s] = content[s]
      BY <1>2, <3>1 DEF Inv, TypeOK, DeleteParquet
    <3> QED
      BY <1>2, <3>1, <3>2, <3>3, DeletionDrops
  <2>10. CASE DeleteZonemap
    <3>1. Deleting /\ compact.victim \in compact.inputs /\ UNCHANGED <<parquet, content, skipped>>
      BY <1>2, <2>10 DEF Inv, DurableInv, SeqOwners, DeleteZonemap, Deleting, history
    <3>2. /\ \A t \in SeqNo : t # compact.victim => zonemap'[t] = zonemap[t]
          /\ zonemap'[compact.victim] = "whole" => zonemap[compact.victim] = "whole"
      BY <1>2, <2>10, <3>1 DEF Inv, TypeOK, DeleteZonemap
    <3> QED
      BY <1>2, <3>1, <3>2, DeletionDrops
  <2> QED
    BY <1>2, <2>1, <2>2, <2>3, <2>4, <2>5, <2>6, <2>7, <2>8, <2>9, <2>10, Zenon
       DEF Next, vars, disk, history, Open, Crash, FlushBegin, FlushStep, FlushAdd, FlushFail,
       CompactDrain, CompactStep, CompactAdd, CompactFail,
       QueryBegin, QueryStep, QueryRead, QueryEnd, QueryReturn
<1> QED
  BY <1>1, <1>2, InvAlways, PTL DEF Spec, ImplementsRowStore, Rows!Spec
-----------------------------------------------------------------------------
(* The registry of a sub-partition and the queries that read it, on top of  *)
(* the durability invariant.                                               *)

(* A step that touches neither the parquet files nor the queries.          *)
LEMMA QueryFrame ==
  ASSUME QueryAccounts, UNCHANGED <<parquet, content, query>>
  PROVE  QueryAccounts'
BY DEF QueryAccounts, RowsOf, Readable

(* A step that writes a file which no query has in its snapshot.          *)
LEMMA QueryFrameWrite ==
  ASSUME TypeOK, QueryAccounts, NEW f,
         \A s \in SeqNo : s # f => parquet'[s] = parquet[s] /\ content'[s] = content[s],
         \A r \in Reader : f \notin query[r].paths,
         UNCHANGED query
  PROVE  QueryAccounts'
<1> SUFFICES ASSUME ~IoFaults, NEW r \in Reader
             PROVE  /\ query[r].pc = "done" => query[r].paths = {}
                    /\ query[r].pc \in {"scan", "done"} /\ query[r].settled =>
                         \/ \E s \in query[r].paths : ~Readable(s)'
                         \/ query[r].want \subseteq query[r].rows \cup
                              {x \in Row : \E s \in query[r].paths : Readable(s)' /\ x \in content'[s]}
  BY DEF QueryAccounts, RowsOf
<1>1. \A s \in query[r].paths : s \in SeqNo /\ s # f
  BY DEF TypeOK
<1> QED
  BY <1>1 DEF QueryAccounts, RowsOf, Readable

(* A step that leaves the live files alone.                                *)
LEMMA LiveFrame ==
  ASSUME LiveRows, LiveFiles \subseteq LiveFiles', UNCHANGED <<up, skipped, persisted>>,
         \A s \in LiveFiles : parquet'[s] = parquet[s] /\ content'[s] = content[s]
  PROVE  LiveRows'
BY DEF LiveRows, RowsOf, Readable

(* A step that leaves the directory, the registry and the merge alone.     *)
LEMMA FilesFrame ==
  ASSUME ExactFiles, LiveRows,
         UNCHANGED <<parquet, content, zonemap, up, sstables, compact, crashes, persisted, skipped>>
  PROVE  ExactFiles' /\ LiveRows'
<1>1. LiveFiles' = LiveFiles
  BY DEF LiveFiles, Merging
<1>2. ExactFiles'
  BY <1>1 DEF ExactFiles, Complete, Readable
<1>3. LiveRows'
  BY <1>1, LiveFrame
<1> QED
  BY <1>2, <1>3

LEMMA OpenRegistry ==
  ASSUME Inv, RegistryInv, Open
  PROVE  RegistryInv'
<1> USE DEF Inv, RegistryInv, Open, NoFlush, NoCompact, NoQuery, disk, history
<1> USE FirstFreeSeqBound
<1>1. ExactFiles'
  BY PartitionAssumption, Zenon DEF TypeOK, DurableInv, DownIsEmpty, SeqOwners, FilesInStep, Merging, Deleting, FreshRows, MergeAccounts, ExactFiles, LiveFiles, Complete, Readable, RowsOf, SeqNo
<1>2. LiveRows'
  <2>1. LiveFiles' = {s \in SeqNo : zonemap[s] = "whole"}
    BY DEF DurableInv, DownIsEmpty, LiveFiles, Merging
  <2>2. RowsOf(LiveFiles)' = Recoverable
    BY <2>1 DEF RowsOf, Recoverable, Readable
  <2> QED
    BY <2>2 DEF DurableInv, DurableRows, LiveRows
<1>3. PathsClosed'
  <2>1. \A r \in Reader : query'[r].paths = {}
    BY DEF DurableInv, DownIsEmpty
  <2> QED BY <2>1 DEF PathsClosed
<1>4. QueryAccounts'
  BY QueryFrame
<1> QED
  BY <1>1, <1>2, <1>3, <1>4

LEMMA CrashRegistry ==
  ASSUME Inv, RegistryInv, Crash
  PROVE  RegistryInv'
<1> USE DEF Inv, RegistryInv, Crash, NoFlush, NoCompact, NoQuery, disk, history
<1>1. ExactFiles'
  <2>1. crashes' # 0
    BY DEF TypeOK
  <2> QED BY <2>1, Zenon DEF ExactFiles
<1>2. LiveRows'
  BY PartitionAssumption, Zenon DEF TypeOK, DurableInv, DownIsEmpty, SeqOwners, FilesInStep, Merging, Deleting, MergeAccounts, LiveRows, LiveFiles, RowsOf, Readable, Complete, SeqNo
<1>3. PathsClosed'
  <2>1. \A r \in Reader : query'[r].paths = {}
    OBVIOUS
  <2> QED BY <2>1, Zenon DEF PathsClosed
<1>4. QueryAccounts'
  BY PartitionAssumption, Zenon DEF TypeOK, DurableInv, DownIsEmpty, SeqOwners, FilesInStep, Merging, Deleting, PathsClosed, QueryAccounts, LiveRows, LiveFiles, RowsOf, Readable, SeqNo
<1> QED
  BY <1>1, <1>2, <1>3, <1>4

LEMMA FlushBeginRegistry ==
  ASSUME Inv, RegistryInv, NEW R \in SUBSET Row, FlushBegin(R)
  PROVE  RegistryInv'
<1> USE DEF Inv, RegistryInv, FlushBegin, NoFlush, NoCompact, NoQuery, disk, history
<1>1. ExactFiles' /\ LiveRows'
  BY FilesFrame
<1>3. PathsClosed'
  <2>1. ASSUME NEW r \in Reader, NEW s \in query[r].paths
        PROVE  s < nextSeq + 1 /\ s # nextSeq /\ (Merging => s # compact.out)
    <3>1. s \in Nat /\ nextSeq \in Nat
      BY PartitionAssumption DEF TypeOK, SeqNo
    <3>2. s < nextSeq /\ (Merging => s # compact.out)
      BY DEF PathsClosed
    <3> QED BY <3>1, <3>2
  <2> QED BY <2>1 DEF PathsClosed, Merging
<1>4. QueryAccounts'
  BY QueryFrame
<1> QED
  BY <1>1, <1>3, <1>4

LEMMA FlushCreateParquetRegistry ==
  ASSUME Inv, RegistryInv, FlushCreateParquet
  PROVE  RegistryInv'
<1> USE DEF Inv, RegistryInv, FlushCreateParquet, NoFlush, NoCompact, NoQuery, disk, history
<1>1. ExactFiles'
  BY PartitionAssumption DEF TypeOK, DurableInv, DownIsEmpty, SeqOwners, FilesInStep, Merging, Deleting, FreshRows, MergeAccounts, ExactFiles, LiveFiles, Complete, Readable, RowsOf, SeqNo
<1>2. LiveRows'
  <2>1. LiveFiles' = LiveFiles /\ flush.seq \notin LiveFiles /\ LiveFiles \subseteq SeqNo
    BY DEF DurableInv, TypeOK, SeqOwners, LiveFiles, Merging
  <2>2. \A s \in SeqNo : s # flush.seq => parquet'[s] = parquet[s] /\ content'[s] = content[s]
    BY DEF TypeOK
  <2> QED
    BY <2>1, <2>2, LiveFrame
<1>3. PathsClosed'
  BY PartitionAssumption DEF TypeOK, DurableInv, DownIsEmpty, SeqOwners, FilesInStep, Merging, Deleting, PathsClosed, SeqNo
<1>4. QueryAccounts'
  <2>1. \A r \in Reader : flush.seq \notin query[r].paths
    BY DEF PathsClosed, Merging
  <2>2. \A s \in SeqNo : s # flush.seq => parquet'[s] = parquet[s] /\ content'[s] = content[s]
    BY DEF TypeOK
  <2> QED
    BY <2>1, <2>2, QueryFrameWrite, Zenon
<1> QED
  BY <1>1, <1>2, <1>3, <1>4

LEMMA FlushWriteParquetRegistry ==
  ASSUME Inv, RegistryInv, FlushWriteParquet
  PROVE  RegistryInv'
<1> USE DEF Inv, RegistryInv, FlushWriteParquet, NoFlush, NoCompact, NoQuery, disk, history
<1>1. ExactFiles'
  BY PartitionAssumption DEF TypeOK, DurableInv, DownIsEmpty, SeqOwners, FilesInStep, Merging, Deleting, FreshRows, MergeAccounts, ExactFiles, LiveFiles, Complete, Readable, RowsOf, SeqNo
<1>2. LiveRows'
  <2>1. LiveFiles' = LiveFiles /\ flush.seq \notin LiveFiles /\ LiveFiles \subseteq SeqNo
    BY DEF DurableInv, TypeOK, SeqOwners, LiveFiles, Merging
  <2>2. \A s \in SeqNo : s # flush.seq => parquet'[s] = parquet[s] /\ content'[s] = content[s]
    BY DEF TypeOK
  <2> QED
    BY <2>1, <2>2, LiveFrame
<1>3. PathsClosed'
  BY PartitionAssumption DEF TypeOK, DurableInv, DownIsEmpty, SeqOwners, FilesInStep, Merging, Deleting, PathsClosed, SeqNo
<1>4. QueryAccounts'
  <2>1. \A r \in Reader : flush.seq \notin query[r].paths
    BY DEF PathsClosed, Merging
  <2>2. \A s \in SeqNo : s # flush.seq => parquet'[s] = parquet[s] /\ content'[s] = content[s]
    BY DEF TypeOK
  <2> QED
    BY <2>1, <2>2, QueryFrameWrite, Zenon
<1> QED
  BY <1>1, <1>2, <1>3, <1>4

LEMMA FlushCreateZonemapRegistry ==
  ASSUME Inv, RegistryInv, FlushCreateZonemap
  PROVE  RegistryInv'
<1> USE DEF Inv, RegistryInv, FlushCreateZonemap, NoFlush, NoCompact, NoQuery, disk, history
<1>1. ExactFiles'
  BY PartitionAssumption DEF TypeOK, DurableInv, DownIsEmpty, SeqOwners, FilesInStep, Merging, Deleting, FreshRows, MergeAccounts, ExactFiles, LiveFiles, Complete, Readable, RowsOf, SeqNo
<1>2. LiveRows'
  BY PartitionAssumption DEF TypeOK, DurableInv, DownIsEmpty, SeqOwners, FilesInStep, Merging, Deleting, MergeAccounts, LiveRows, LiveFiles, RowsOf, Readable, Complete, SeqNo
<1>3. PathsClosed'
  BY PartitionAssumption DEF TypeOK, DurableInv, DownIsEmpty, SeqOwners, FilesInStep, Merging, Deleting, PathsClosed, SeqNo
<1>4. QueryAccounts'
  BY QueryFrame
<1> QED
  BY <1>1, <1>2, <1>3, <1>4

LEMMA FlushWriteZonemapRegistry ==
  ASSUME Inv, RegistryInv, FlushWriteZonemap
  PROVE  RegistryInv'
<1> USE DEF Inv, RegistryInv, FlushWriteZonemap, NoFlush, NoCompact, NoQuery, disk, history
<1>1. ExactFiles'
  BY PartitionAssumption DEF TypeOK, DurableInv, DownIsEmpty, SeqOwners, FilesInStep, Merging, Deleting, FreshRows, MergeAccounts, ExactFiles, LiveFiles, Complete, Readable, RowsOf, SeqNo
<1>2. LiveRows'
  BY PartitionAssumption DEF TypeOK, DurableInv, DownIsEmpty, SeqOwners, FilesInStep, Merging, Deleting, MergeAccounts, LiveRows, LiveFiles, RowsOf, Readable, Complete, SeqNo
<1>3. PathsClosed'
  BY PartitionAssumption DEF TypeOK, DurableInv, DownIsEmpty, SeqOwners, FilesInStep, Merging, Deleting, PathsClosed, SeqNo
<1>4. QueryAccounts'
  BY QueryFrame
<1> QED
  BY <1>1, <1>2, <1>3, <1>4

LEMMA FlushAddRegistry ==
  ASSUME Inv, RegistryInv, FlushAdd
  PROVE  RegistryInv'
<1> USE DEF Inv, RegistryInv, FlushAdd, NoFlush, NoCompact, NoQuery, disk, history
<1>1. ExactFiles'
  <2>1. LiveFiles' = LiveFiles \cup {flush.seq} /\ flush.seq \notin LiveFiles /\ LiveFiles \subseteq SeqNo
    BY Zenon DEF DurableInv, TypeOK, SeqOwners, LiveFiles, Merging
  <2>2. Complete(flush.seq) /\ content[flush.seq] = flush.rows
    BY Zenon DEF DurableInv, FilesInStep, Complete
  <2>3. \A s \in LiveFiles : content[s] \cap content[flush.seq] = {}
    BY <2>1, <2>2, Zenon DEF DurableInv, FreshRows
  <2> QED
    BY <2>1, <2>2, <2>3, Zenon DEF ExactFiles, DurableInv, DownIsEmpty, Complete, Readable
<1>2. LiveRows'
  BY PartitionAssumption, Zenon DEF TypeOK, DurableInv, DownIsEmpty, SeqOwners, FilesInStep, Merging, Deleting, MergeAccounts, LiveRows, LiveFiles, RowsOf, Readable, Complete, SeqNo
<1>3. PathsClosed'
  BY PartitionAssumption, Zenon DEF TypeOK, DurableInv, DownIsEmpty, SeqOwners, FilesInStep, Merging, Deleting, PathsClosed, SeqNo
<1>4. QueryAccounts'
  BY QueryFrame
<1> QED
  BY <1>1, <1>2, <1>3, <1>4, Zenon

LEMMA FlushFailRegistry ==
  ASSUME Inv, RegistryInv, FlushFail
  PROVE  RegistryInv'
<1> USE DEF Inv, RegistryInv, FlushFail, NoFlush, NoCompact, NoQuery, disk, history
<1>1. ExactFiles' /\ LiveRows'
  BY FilesFrame
<1>3. PathsClosed'
  BY PartitionAssumption, Zenon DEF TypeOK, DurableInv, DownIsEmpty, SeqOwners, FilesInStep, Merging, Deleting, PathsClosed, SeqNo
<1>4. QueryAccounts'
  BY QueryFrame
<1> QED
  BY <1>1, <1>3, <1>4

LEMMA CompactDrainRegistry ==
  ASSUME Inv, RegistryInv, CompactDrain
  PROVE  RegistryInv'
<1> USE DEF Inv, RegistryInv, CompactDrain, Drained, NoFlush, NoCompact, NoQuery, disk, history
<1>1. ExactFiles'
  <2>1. LiveFiles' = LiveFiles
    BY DEF TypeOK, LiveFiles, Merging
  <2> QED
    BY <2>1 DEF ExactFiles, Complete, Readable
<1>2. LiveRows'
  BY PartitionAssumption, Zenon DEF TypeOK, DurableInv, DownIsEmpty, SeqOwners, FilesInStep, Merging, Deleting, MergeAccounts, LiveRows, LiveFiles, RowsOf, Readable, Complete, SeqNo
<1>3. PathsClosed'
  <2>1. \A r \in Reader : \A s \in query[r].paths : s \in SeqNo /\ s < nextSeq
    BY DEF PathsClosed, TypeOK
  <2> QED
    BY <2>1 DEF PathsClosed, TypeOK, SeqNo
<1>4. QueryAccounts'
  BY QueryFrame
<1> QED
  BY <1>1, <1>2, <1>3, <1>4

LEMMA CompactReadRegistry ==
  ASSUME Inv, RegistryInv, CompactRead
  PROVE  RegistryInv'
<1> USE DEF Inv, RegistryInv, CompactRead, CompactCanRead, NoFlush, NoCompact, NoQuery, disk, history
<1>1. ExactFiles'
  BY PartitionAssumption DEF TypeOK, DurableInv, DownIsEmpty, SeqOwners, FilesInStep, Merging, Deleting, FreshRows, MergeAccounts, ExactFiles, LiveFiles, Complete, Readable, RowsOf, SeqNo
<1>2. LiveRows'
  <2> SUFFICES ASSUME ~IoFaults
               PROVE  skipped' = {} /\ (up => persisted \subseteq RowsOf(LiveFiles)')
    BY DEF LiveRows
  <2>1. /\ skipped' = skipped \cup (RowsOf(compact.inputs) \ RowsOf(compact.inputs))
        /\ compact' = [compact EXCEPT !.rows = RowsOf(compact.inputs),
                         !.pc = IF RowsOf(compact.inputs) = {} THEN "delete" ELSE "create"]
    BY Zenon
  <2>2. LiveFiles = sstables \cup compact.inputs
    BY DEF LiveFiles, Merging
  <2>3. CASE RowsOf(compact.inputs) = {}
    <3>1. LiveFiles' = sstables
      BY <2>1, <2>3 DEF TypeOK, LiveFiles, Merging
    <3> QED
      BY <2>1, <2>2, <2>3, <3>1 DEF LiveRows, RowsOf, Readable
  <2>4. CASE RowsOf(compact.inputs) # {}
    <3>1. LiveFiles' = LiveFiles
      BY <2>1, <2>2, <2>4 DEF TypeOK, LiveFiles, Merging
    <3> QED
      BY <2>1, <3>1 DEF LiveRows, RowsOf, Readable
  <2> QED
    BY <2>3, <2>4
<1>3. PathsClosed'
  BY PartitionAssumption DEF TypeOK, DurableInv, DownIsEmpty, SeqOwners, FilesInStep, Merging, Deleting, PathsClosed, SeqNo
<1>4. QueryAccounts'
  BY QueryFrame
<1> QED
  BY <1>1, <1>2, <1>3, <1>4

LEMMA CompactCreateParquetRegistry ==
  ASSUME Inv, RegistryInv, CompactCreateParquet
  PROVE  RegistryInv'
<1> USE DEF Inv, RegistryInv, CompactCreateParquet, NoFlush, NoCompact, NoQuery, disk, history
<1>1. ExactFiles'
  BY PartitionAssumption DEF TypeOK, DurableInv, DownIsEmpty, SeqOwners, FilesInStep, Merging, Deleting, FreshRows, MergeAccounts, ExactFiles, LiveFiles, Complete, Readable, RowsOf, SeqNo
<1>2. LiveRows'
  <2>1. LiveFiles' = LiveFiles /\ compact.out \notin LiveFiles /\ LiveFiles \subseteq SeqNo
    BY DEF DurableInv, TypeOK, SeqOwners, LiveFiles, Merging
  <2>2. \A s \in SeqNo : s # compact.out => parquet'[s] = parquet[s] /\ content'[s] = content[s]
    BY DEF TypeOK
  <2> QED
    BY <2>1, <2>2, LiveFrame
<1>3. PathsClosed'
  BY PartitionAssumption DEF TypeOK, DurableInv, DownIsEmpty, SeqOwners, FilesInStep, Merging, Deleting, PathsClosed, SeqNo
<1>4. QueryAccounts'
  <2>1. \A r \in Reader : compact.out \notin query[r].paths
    BY DEF PathsClosed, Merging
  <2>2. \A s \in SeqNo : s # compact.out => parquet'[s] = parquet[s] /\ content'[s] = content[s]
    BY DEF TypeOK
  <2> QED
    BY <2>1, <2>2, QueryFrameWrite, Zenon
<1> QED
  BY <1>1, <1>2, <1>3, <1>4

LEMMA CompactWriteParquetRegistry ==
  ASSUME Inv, RegistryInv, CompactWriteParquet
  PROVE  RegistryInv'
<1> USE DEF Inv, RegistryInv, CompactWriteParquet, NoFlush, NoCompact, NoQuery, disk, history
<1>1. ExactFiles'
  BY PartitionAssumption DEF TypeOK, DurableInv, DownIsEmpty, SeqOwners, FilesInStep, Merging, Deleting, FreshRows, MergeAccounts, ExactFiles, LiveFiles, Complete, Readable, RowsOf, SeqNo
<1>2. LiveRows'
  <2>1. LiveFiles' = LiveFiles /\ compact.out \notin LiveFiles /\ LiveFiles \subseteq SeqNo
    BY DEF DurableInv, TypeOK, SeqOwners, LiveFiles, Merging
  <2>2. \A s \in SeqNo : s # compact.out => parquet'[s] = parquet[s] /\ content'[s] = content[s]
    BY DEF TypeOK
  <2> QED
    BY <2>1, <2>2, LiveFrame
<1>3. PathsClosed'
  BY PartitionAssumption DEF TypeOK, DurableInv, DownIsEmpty, SeqOwners, FilesInStep, Merging, Deleting, PathsClosed, SeqNo
<1>4. QueryAccounts'
  <2>1. \A r \in Reader : compact.out \notin query[r].paths
    BY DEF PathsClosed, Merging
  <2>2. \A s \in SeqNo : s # compact.out => parquet'[s] = parquet[s] /\ content'[s] = content[s]
    BY DEF TypeOK
  <2> QED
    BY <2>1, <2>2, QueryFrameWrite, Zenon
<1> QED
  BY <1>1, <1>2, <1>3, <1>4

LEMMA CompactCreateZonemapRegistry ==
  ASSUME Inv, RegistryInv, CompactCreateZonemap
  PROVE  RegistryInv'
<1> USE DEF Inv, RegistryInv, CompactCreateZonemap, NoFlush, NoCompact, NoQuery, disk, history
<1>1. ExactFiles'
  BY PartitionAssumption DEF TypeOK, DurableInv, DownIsEmpty, SeqOwners, FilesInStep, Merging, Deleting, FreshRows, MergeAccounts, ExactFiles, LiveFiles, Complete, Readable, RowsOf, SeqNo
<1>2. LiveRows'
  BY PartitionAssumption, Zenon DEF TypeOK, DurableInv, DownIsEmpty, SeqOwners, FilesInStep, Merging, Deleting, MergeAccounts, LiveRows, LiveFiles, RowsOf, Readable, Complete, SeqNo
<1>3. PathsClosed'
  BY PartitionAssumption DEF TypeOK, DurableInv, DownIsEmpty, SeqOwners, FilesInStep, Merging, Deleting, PathsClosed, SeqNo
<1>4. QueryAccounts'
  BY QueryFrame
<1> QED
  BY <1>1, <1>2, <1>3, <1>4

LEMMA CompactWriteZonemapRegistry ==
  ASSUME Inv, RegistryInv, CompactWriteZonemap
  PROVE  RegistryInv'
<1> USE DEF Inv, RegistryInv, CompactWriteZonemap, NoFlush, NoCompact, NoQuery, disk, history
<1>1. ExactFiles'
  BY PartitionAssumption DEF TypeOK, DurableInv, DownIsEmpty, SeqOwners, FilesInStep, Merging, Deleting, FreshRows, MergeAccounts, ExactFiles, LiveFiles, Complete, Readable, RowsOf, SeqNo
<1>2. LiveRows'
  BY PartitionAssumption DEF TypeOK, DurableInv, DownIsEmpty, SeqOwners, FilesInStep, Merging, Deleting, MergeAccounts, LiveRows, LiveFiles, RowsOf, Readable, Complete, SeqNo
<1>3. PathsClosed'
  BY PartitionAssumption DEF TypeOK, DurableInv, DownIsEmpty, SeqOwners, FilesInStep, Merging, Deleting, PathsClosed, SeqNo
<1>4. QueryAccounts'
  BY QueryFrame
<1> QED
  BY <1>1, <1>2, <1>3, <1>4

LEMMA CompactAddRegistry ==
  ASSUME Inv, RegistryInv, CompactAdd
  PROVE  RegistryInv'
<1> USE DEF Inv, RegistryInv, CompactAdd, NoFlush, NoCompact, NoQuery, disk, history
<1>1. ExactFiles'
  <2> SUFFICES ASSUME crashes = 0
               PROVE  /\ ~up' => \A s \in SeqNo : zonemap[s] = "absent"
                      /\ \A s \in LiveFiles' : Complete(s)
                      /\ \A s, t \in LiveFiles' : s # t => content[s] \cap content[t] = {}
    BY DEF ExactFiles, Complete, Readable
  <2>1. LiveFiles = sstables \cup compact.inputs /\ LiveFiles' = sstables \cup {compact.out}
    BY DEF TypeOK, LiveFiles, Merging
  <2>2. Complete(compact.out) /\ compact.out \notin sstables
    BY DEF DurableInv, SeqOwners, FilesInStep, Complete, Merging
  <2>3. \A s \in sstables : content[s] \cap content[compact.out] = {}
    <3> SUFFICES ASSUME NEW s \in sstables, NEW x \in content[s], x \in content[compact.out]
                 PROVE  FALSE
      OBVIOUS
    <3>1. PICK t \in compact.inputs : x \in content[t]
      BY DEF DurableInv, FilesInStep, MergeAccounts, Merging, RowsOf
    <3>2. s # t
      BY DEF DurableInv, SeqOwners
    <3> QED
      BY <2>1, <3>1, <3>2 DEF ExactFiles
  <2> QED
    BY <2>1, <2>2, <2>3 DEF ExactFiles
<1>2. LiveRows'
  BY PartitionAssumption DEF TypeOK, DurableInv, DownIsEmpty, SeqOwners, FilesInStep, Merging, Deleting, MergeAccounts, LiveRows, LiveFiles, RowsOf, Readable, Complete, SeqNo
<1>3. PathsClosed'
  BY PartitionAssumption DEF TypeOK, DurableInv, DownIsEmpty, SeqOwners, FilesInStep, Merging, Deleting, PathsClosed, SeqNo
<1>4. QueryAccounts'
  BY QueryFrame
<1> QED
  BY <1>1, <1>2, <1>3, <1>4

LEMMA CompactFailRegistry ==
  ASSUME Inv, RegistryInv, CompactFail
  PROVE  RegistryInv'
<1> USE DEF Inv, RegistryInv, CompactFail, AfterCompactError, NoFlush, NoCompact, NoQuery, disk, history
<1>1. ExactFiles'
  <2>1. LiveFiles' \subseteq LiveFiles
    BY DEF LiveFiles, Merging
  <2> QED
    BY <2>1 DEF ExactFiles, Complete, Readable
<1>2. LiveRows'
  BY PartitionAssumption, Zenon DEF TypeOK, DurableInv, DownIsEmpty, SeqOwners, FilesInStep, Merging, Deleting, MergeAccounts, LiveRows, LiveFiles, RowsOf, Readable, Complete, SeqNo
<1>3. PathsClosed'
  BY PartitionAssumption, Zenon DEF TypeOK, DurableInv, DownIsEmpty, SeqOwners, FilesInStep, Merging, Deleting, PathsClosed, SeqNo
<1>4. QueryAccounts'
  BY QueryFrame
<1> QED
  BY <1>1, <1>2, <1>3, <1>4

LEMMA DeleteParquetRegistry ==
  ASSUME Inv, RegistryInv, NEW s \in SeqNo, DeleteParquet(s)
  PROVE  RegistryInv'
<1> USE DEF Inv, RegistryInv, DeleteParquet, NoFlush, NoCompact, NoQuery, disk, history
<1>1. ExactFiles'
  <2>1. LiveFiles = sstables /\ LiveFiles' = sstables /\ s \notin sstables /\ sstables \subseteq SeqNo
    BY DEF DurableInv, TypeOK, SeqOwners, LiveFiles, Merging
  <2>2. \A t \in SeqNo : t # s => parquet'[t] = parquet[t] /\ content'[t] = content[t]
    BY DEF TypeOK
  <2> QED
    BY <2>1, <2>2 DEF ExactFiles, Complete, Readable
<1>2. LiveRows'
  <2>1. LiveFiles = sstables /\ LiveFiles' = sstables /\ s \notin sstables /\ sstables \subseteq SeqNo
    BY DEF DurableInv, TypeOK, SeqOwners, LiveFiles, Merging
  <2>2. \A t \in SeqNo : t # s => parquet'[t] = parquet[t] /\ content'[t] = content[t]
    BY DEF TypeOK
  <2> QED
    BY <2>1, <2>2, LiveFrame
<1>3. PathsClosed'
  BY PartitionAssumption DEF TypeOK, DurableInv, DownIsEmpty, SeqOwners, FilesInStep, Merging, Deleting, PathsClosed, SeqNo
<1>4. QueryAccounts'
  <2> SUFFICES ASSUME ~IoFaults, NEW r \in Reader
               PROVE  /\ query[r].pc = "done" => query[r].paths = {}
                      /\ query[r].pc \in {"scan", "done"} /\ query[r].settled =>
                           \/ \E t \in query[r].paths : ~Readable(t)'
                           \/ query[r].want \subseteq query[r].rows \cup
                                {x \in Row : \E t \in query[r].paths : Readable(t)' /\ x \in content'[t]}
    BY DEF QueryAccounts, RowsOf
  <2>1. ~Readable(s)'
    BY DEF TypeOK, Readable
  <2>2. \A t \in SeqNo : t # s => parquet'[t] = parquet[t] /\ content'[t] = content[t]
    BY DEF TypeOK
  <2>3. query[r].paths \subseteq SeqNo
    BY DEF TypeOK
  <2> QED
    BY <2>1, <2>2, <2>3 DEF QueryAccounts, RowsOf, Readable
<1> QED
  BY <1>1, <1>2, <1>3, <1>4

LEMMA DeleteZonemapRegistry ==
  ASSUME Inv, RegistryInv, DeleteZonemap
  PROVE  RegistryInv'
<1> USE DEF Inv, RegistryInv, DeleteZonemap, NoFlush, NoCompact, NoQuery, disk, history
<1>1. ExactFiles'
  BY PartitionAssumption DEF TypeOK, DurableInv, DownIsEmpty, SeqOwners, FilesInStep, Merging, Deleting, FreshRows, MergeAccounts, ExactFiles, LiveFiles, Complete, Readable, RowsOf, SeqNo
<1>2. LiveRows'
  BY PartitionAssumption DEF TypeOK, DurableInv, DownIsEmpty, SeqOwners, FilesInStep, Merging, Deleting, MergeAccounts, LiveRows, LiveFiles, RowsOf, Readable, Complete, SeqNo
<1>3. PathsClosed'
  BY PartitionAssumption DEF TypeOK, DurableInv, DownIsEmpty, SeqOwners, FilesInStep, Merging, Deleting, PathsClosed, SeqNo
<1>4. QueryAccounts'
  BY QueryFrame
<1> QED
  BY <1>1, <1>2, <1>3, <1>4

LEMMA QueryBeginRegistry ==
  ASSUME Inv, RegistryInv, NEW r \in Reader, QueryBegin(r)
  PROVE  RegistryInv'
<1> USE DEF Inv, RegistryInv, QueryBegin, NoFlush, NoCompact, NoQuery, disk, history
<1>1. ExactFiles' /\ LiveRows'
  BY FilesFrame
<1>3. PathsClosed'
  <2>1. \A q \in Reader \ {r} : query'[q] = query[q]
    BY Zenon DEF TypeOK
  <2>2. query'[r].paths = sstables
    BY Zenon DEF TypeOK
  <2>3. \A s \in sstables : s < nextSeq /\ (flush.pc # "idle" => s # flush.seq) /\ (Merging => s # compact.out)
    BY Zenon DEF DurableInv, SeqOwners
  <2> QED
    BY <2>1, <2>2, <2>3 DEF PathsClosed, Merging
<1>4. QueryAccounts'
  <2> SUFFICES ASSUME ~IoFaults, NEW q \in Reader
               PROVE  /\ query'[q].pc = "done" => query'[q].paths = {}
                      /\ query'[q].pc \in {"scan", "done"} /\ query'[q].settled =>
                           \/ \E t \in query'[q].paths : ~Readable(t)
                           \/ query'[q].want \subseteq query'[q].rows \cup RowsOf(query'[q].paths)
    BY Zenon DEF QueryAccounts, RowsOf, Readable
  <2>1. CASE q # r
    <3>1. query'[q] = query[q]
      BY <2>1, Zenon DEF TypeOK
    <3> QED
      BY <3>1, Zenon DEF QueryAccounts
  <2>2. CASE q = r
    <3>1. query'[q] = [pc |-> "scan", paths |-> sstables, rows |-> {}, want |-> persisted,
                       settled |-> compact.pc = "idle"]
      BY <2>2, Zenon DEF TypeOK
    <3>2. query'[q].settled => LiveFiles = sstables
      <4>1. compact.pc # "idle" => query'[q].settled = FALSE
        <5>1. SUFFICES ASSUME compact.pc # "idle" PROVE query'[q].settled = FALSE
          BY Zenon
        <5>2. query'[q] = [pc |-> "scan", paths |-> sstables, rows |-> {}, want |-> persisted,
                           settled |-> FALSE]
          BY <3>1, <5>1, Zenon
        <5> HIDE DEF Inv, RegistryInv, QueryBegin, NoFlush, NoCompact, NoQuery, disk, history
        <5> QED
          BY <5>2
      <4>2. compact.pc = "idle" => LiveFiles = sstables
        BY Zenon DEF LiveFiles, Merging
      <4> QED
        BY <4>1, <4>2
    <3>3. /\ query'[q].pc = "scan" /\ query'[q].paths = sstables
          /\ query'[q].want = persisted
      <4> HIDE DEF Inv, RegistryInv, QueryBegin, NoFlush, NoCompact, NoQuery, disk, history
      <4> QED
        BY <3>1
    <3>4. persisted \subseteq RowsOf(LiveFiles)
      BY DEF LiveRows
    <3> QED
      BY <3>2, <3>3, <3>4, Zenon
  <2> QED
    BY <2>1, <2>2, Zenon
<1> QED
  BY <1>1, <1>3, <1>4

LEMMA QueryReadRegistry ==
  ASSUME Inv, RegistryInv, NEW r \in Reader, QueryRead(r)
  PROVE  RegistryInv'
<1> USE DEF Inv, RegistryInv, QueryRead, NoFlush, NoCompact, NoQuery, disk, history
<1>0. PICK s \in query[r].paths :
        \/ /\ Readable(s)
           /\ query' = [query EXCEPT ![r].paths = @ \ {s}, ![r].rows = @ \cup content[s]]
        \/ /\ IoFaults \/ ~Readable(s)
           /\ query' = [query EXCEPT ![r].pc = "failed"]
  OBVIOUS
<1>1. ExactFiles' /\ LiveRows'
  BY FilesFrame
<1>3. PathsClosed'
  <2>1. \A q \in Reader \ {r} : query'[q] = query[q]
    BY <1>0 DEF TypeOK
  <2>2. query'[r].paths \subseteq query[r].paths
    BY <1>0 DEF TypeOK
  <2> QED
    BY <2>1, <2>2 DEF PathsClosed, Merging
<1>4. QueryAccounts'
  <2> SUFFICES ASSUME ~IoFaults, NEW q \in Reader
               PROVE  /\ query'[q].pc = "done" => query'[q].paths = {}
                      /\ query'[q].pc \in {"scan", "done"} /\ query'[q].settled =>
                           \/ \E t \in query'[q].paths : ~Readable(t)
                           \/ query'[q].want \subseteq query'[q].rows \cup RowsOf(query'[q].paths)
    BY DEF QueryAccounts, RowsOf, Readable
  <2>1. CASE q # r
    <3>1. query'[q] = query[q]
      BY <1>0, <2>1 DEF TypeOK
    <3> QED
      BY <3>1 DEF QueryAccounts
  <2>2. CASE q = r /\ Readable(s) /\ query' = [query EXCEPT ![r].paths = @ \ {s}, ![r].rows = @ \cup content[s]]
    <3>1. /\ query'[q].pc = query[q].pc
          /\ query'[q].settled = query[q].settled
          /\ query'[q].want = query[q].want
          /\ query'[q].paths = query[q].paths \ {s}
          /\ query'[q].rows = query[q].rows \cup content[s]
      BY <2>2 DEF TypeOK
    <3> QED
      BY <2>2, <3>1, Zenon DEF QueryAccounts, RowsOf
  <2>3. CASE q = r /\ query' = [query EXCEPT ![r].pc = "failed"]
    <3>1. query'[q].pc = "failed"
      BY <2>3 DEF TypeOK
    <3> QED
      BY <3>1
  <2> QED
    BY <1>0, <2>1, <2>2, <2>3
<1> QED
  BY <1>1, <1>3, <1>4

LEMMA QueryEndRegistry ==
  ASSUME Inv, RegistryInv, NEW r \in Reader, QueryEnd(r)
  PROVE  RegistryInv'
<1> USE DEF Inv, RegistryInv, QueryEnd, NoFlush, NoCompact, NoQuery, disk, history
<1>1. ExactFiles' /\ LiveRows'
  BY FilesFrame
<1>3. PathsClosed'
  BY PartitionAssumption DEF TypeOK, DurableInv, DownIsEmpty, SeqOwners, FilesInStep, Merging, Deleting, PathsClosed, SeqNo
<1>4. QueryAccounts'
  BY PartitionAssumption DEF TypeOK, DurableInv, DownIsEmpty, SeqOwners, FilesInStep, Merging, Deleting, PathsClosed, QueryAccounts, LiveRows, LiveFiles, RowsOf, Readable, SeqNo
<1> QED
  BY <1>1, <1>3, <1>4

LEMMA QueryReturnRegistry ==
  ASSUME Inv, RegistryInv, NEW r \in Reader, QueryReturn(r)
  PROVE  RegistryInv'
<1> USE DEF Inv, RegistryInv, QueryReturn, NoFlush, NoCompact, NoQuery, disk, history
<1>1. ExactFiles' /\ LiveRows'
  BY FilesFrame
<1>3. PathsClosed'
  BY PartitionAssumption, Zenon DEF TypeOK, DurableInv, DownIsEmpty, SeqOwners, FilesInStep, Merging, Deleting, PathsClosed, SeqNo
<1>4. QueryAccounts'
  <2> SUFFICES ASSUME ~IoFaults, NEW q \in Reader
               PROVE  /\ query'[q].pc = "done" => query'[q].paths = {}
                      /\ query'[q].pc \in {"scan", "done"} /\ query'[q].settled =>
                           \/ \E t \in query'[q].paths : ~Readable(t)
                           \/ query'[q].want \subseteq query'[q].rows \cup RowsOf(query'[q].paths)
    BY Zenon DEF QueryAccounts, RowsOf, Readable
  <2>1. CASE q # r
    <3>1. query'[q] = query[q]
      BY <2>1, Zenon DEF TypeOK
    <3> QED
      BY <3>1 DEF QueryAccounts
  <2>2. CASE q = r
    BY <2>2, Zenon DEF TypeOK
  <2> QED
    BY <2>1, <2>2, Zenon
<1> QED
  BY <1>1, <1>3, <1>4

LEMMA NextRegistry ==
  ASSUME Inv, RegistryInv, [Next]_vars
  PROVE  RegistryInv'
<1>1. CASE Open
  BY <1>1, OpenRegistry
<1>2. CASE Crash
  BY <1>2, CrashRegistry
<1>3. CASE \E R \in SUBSET Row : FlushBegin(R)
  BY <1>3, FlushBeginRegistry
<1>4. CASE FlushStep
  BY <1>4, FlushCreateParquetRegistry, FlushWriteParquetRegistry, FlushCreateZonemapRegistry,
     FlushWriteZonemapRegistry, FlushAddRegistry, FlushFailRegistry DEF FlushStep
<1>5. CASE CompactDrain
  BY <1>5, CompactDrainRegistry
<1>6. CASE CompactStep
  <2>1. CASE \E s \in compact.inputs : DeleteParquet(s)
    <3>1. compact.inputs \subseteq SeqNo
      BY DEF Inv, TypeOK
    <3> QED
      BY <2>1, <3>1, DeleteParquetRegistry
  <2> QED
    BY <1>6, <2>1, CompactReadRegistry, CompactCreateParquetRegistry, CompactWriteParquetRegistry,
       CompactCreateZonemapRegistry, CompactWriteZonemapRegistry, CompactAddRegistry,
       CompactFailRegistry,
       DeleteZonemapRegistry DEF CompactStep
<1>7. CASE \E r \in Reader : QueryBegin(r) \/ QueryStep(r)
  BY <1>7, QueryBeginRegistry, QueryReadRegistry, QueryEndRegistry, QueryReturnRegistry DEF QueryStep
<1>8. CASE UNCHANGED vars
  <2>1. ExactFiles' /\ LiveRows'
    BY <1>8, FilesFrame DEF vars, RegistryInv
  <2>2. PathsClosed'
    BY <1>8 DEF vars, RegistryInv, PathsClosed, Merging
  <2>3. QueryAccounts'
    BY <1>8, QueryFrame DEF vars, RegistryInv
  <2> QED BY <2>1, <2>2, <2>3 DEF RegistryInv
<1> QED
  BY <1>1, <1>2, <1>3, <1>4, <1>5, <1>6, <1>7, <1>8 DEF Next

LEMMA InitRegistry == Init => RegistryInv
<1> SUFFICES ASSUME Init PROVE RegistryInv
  OBVIOUS
<1>1. compact.pc = "idle" /\ flush.pc = "idle" /\ LiveFiles = {}
  BY DEF Init, NoCompact, NoFlush, LiveFiles, Merging
<1>2. \A r \in Reader : query[r].pc = "idle" /\ query[r].paths = {}
  BY DEF Init, NoQuery
<1> QED
  BY <1>1, <1>2, Zenon DEF Init, RegistryInv, ExactFiles, LiveRows, PathsClosed, QueryAccounts, Merging

(* RegistryInv holds in every reachable state.                             *)
THEOREM RegistryAlways == Spec => [](Inv /\ RegistryInv)
<1>1. Init => Inv /\ RegistryInv
  BY InitInv, InitRegistry
<1>2. Inv /\ RegistryInv /\ [Next]_vars => (Inv /\ RegistryInv)'
  BY NextInv, NextRegistry
<1> QED
  BY <1>1, <1>2, PTL DEF Spec

(* Before any crash the registered SSTables are readable and disjoint, so  *)
(* a scan of the registry counts each row once.                            *)
THEOREM RegistryIsExact == Spec => []RegistryExact
<1>1. Inv /\ RegistryInv => RegistryExact
  BY DEF RegistryInv, ExactFiles, LiveFiles, RegistryExact
<1> QED
  BY <1>1, RegistryAlways, PTL

(* Between compactions nothing persisted is missing from the registry, if  *)
(* no file operation fails.                                                *)
THEOREM RegistryIsSettled == Spec => []SettledRegistry
<1>1. Inv /\ RegistryInv => SettledRegistry
  BY DEF RegistryInv, LiveRows, LiveFiles, Merging, SettledRegistry
<1> QED
  BY <1>1, RegistryAlways, PTL

(* load_batches on a snapshot taken between compactions fails or returns   *)
(* everything that was persisted, if no file operation fails.              *)
THEOREM QueriesAreComplete == Spec => []SettledQueryComplete
<1>1. Inv /\ RegistryInv => SettledQueryComplete
  BY DEF RegistryInv, QueryAccounts, RowsOf, SettledQueryComplete
<1> QED
  BY <1>1, RegistryAlways, PTL
=============================================================================
