-------------------------- MODULE SignalPartition --------------------------
(***************************************************************************)
(* One signal sub-partition of the storage engine: the directory that      *)
(* holds the SSTables of one signal type of one time bucket, the           *)
(* in-memory registry of them (SignalPartition.sstables), and the tasks    *)
(* that work on both: the flush worker that writes a new SSTable, the      *)
(* compaction worker that merges all of them into one, queries that read   *)
(* a snapshot of the registry, and a crash of the process at any point.    *)
(*                                                                         *)
(* An SSTable is three files with one sequence number: NNNNNN.parquet (the *)
(* rows), NNNNNN.bloom and NNNNNN.zonemap.  No code reads the bloom file   *)
(* back, so its write and its removal change nothing that the model tells  *)
(* apart; they are part of the zonemap steps that follow them.  A file     *)
(* exists from the moment it is created ("partial") and is readable once   *)
(* its last byte is written ("whole").                                     *)
(*                                                                         *)
(* The crash modelled is the death of the process: what was written stays. *)
(***************************************************************************)
EXTENDS Naturals, FiniteSets

CONSTANTS
  Row,        \* the records of this signal and bucket
  Opaque,     \* the records whose bytes do not decode again (see StorageEngine)
  Reader,     \* concurrent queries
  L0Trigger,  \* l0_compaction_trigger
  IoFaults,   \* TRUE when a file operation may return an error
  MaxSeq,     \* bound on the sequence numbers handed out (u64 in the code)
  MaxCrash    \* bound on the number of crashes

ASSUME PartitionAssumption ==
  /\ L0Trigger \in Nat
  /\ IoFaults \in BOOLEAN
  /\ MaxSeq \in Nat
  /\ MaxCrash \in Nat

VARIABLES
  parquet,    \* state of NNNNNN.parquet, by sequence number
  content,    \* rows of the whole parquet files
  zonemap,    \* state of NNNNNN.zonemap, by sequence number
  up,         \* the process has this sub-partition open
  sstables,   \* sequence numbers registered in SignalPartition.sstables
  nextSeq,    \* SignalPartition.next_seq
  flush,      \* the flush worker, inside flush_signal_*
  compact,    \* the compaction worker, inside compact_signal
  query,      \* the queries, inside load_batches
  crashes,    \* number of crashes so far
  given,      \* history: rows handed to a flush
  persisted,  \* history: rows that decoded and whose flush returned Ok
  skipped     \* history: rows of an input that compaction could not read

disk == <<parquet, content, zonemap>>
history == <<given, persisted, skipped>>
vars == <<parquet, content, zonemap, up, sstables, nextSeq, flush, compact,
          query, crashes, given, persisted, skipped>>

SeqNo == 1..MaxSeq
FileState == {"absent", "partial", "whole"}

NoFlush == [pc |-> "idle", seq |-> 0, rows |-> {}]
NoCompact == [pc |-> "idle", out |-> 0, inputs |-> {}, rows |-> {}, victim |-> 0]
NoQuery == [pc |-> "idle", paths |-> {}, rows |-> {}, want |-> {}, settled |-> FALSE]

FlushPc == {"idle", "create", "write", "meta", "metaClose", "add"}
CompactPc == {"idle", "read", "create", "write", "meta", "metaClose", "add",
              "delete", "deleteMeta"}
QueryPc == {"idle", "scan", "done", "failed"}

Readable(s) == parquet[s] = "whole"
RowsOf(S) == {x \in Row : \E s \in S : Readable(s) /\ x \in content[s]}

\* An SSTable that SignalPartition::open registers and whose rows can be read.
Complete(s) == Readable(s) /\ zonemap[s] = "whole"
Recoverable == RowsOf({s \in SeqNo : zonemap[s] = "whole"})

Init ==
  /\ parquet = [s \in SeqNo |-> "absent"]
  /\ content = [s \in SeqNo |-> {}]
  /\ zonemap = [s \in SeqNo |-> "absent"]
  /\ up = FALSE
  /\ sstables = {}
  /\ nextSeq = 1
  /\ flush = NoFlush
  /\ compact = NoCompact
  /\ query = [r \in Reader |-> NoQuery]
  /\ crashes = 0
  /\ given = {}
  /\ persisted = {}
  /\ skipped = {}
-----------------------------------------------------------------------------
(* SignalPartition::open: every zonemap counts for the highest sequence    *)
(* number, only a readable one is registered.                              *)
MaxZonemapSeq ==
  LET present == {s \in SeqNo : zonemap[s] # "absent"}
  IN  IF present = {} THEN 0 ELSE CHOOSE m \in present : \A s \in present : s <= m

\* Mutant of FirstFreeSeq: one past the number of files.
FirstFreeSeqByCount == Cardinality({s \in SeqNo : zonemap[s] # "absent"}) + 1

FirstFreeSeq == MaxZonemapSeq + 1

Open ==
  /\ ~up
  /\ up' = TRUE
  /\ sstables' = {s \in SeqNo : zonemap[s] = "whole"}
  /\ nextSeq' = FirstFreeSeq
  /\ UNCHANGED <<disk, flush, compact, query, crashes, history>>

(* The process dies: everything in memory is gone, the directory stays.    *)
Crash ==
  /\ up
  /\ crashes < MaxCrash
  /\ up' = FALSE
  /\ sstables' = {}
  /\ flush' = NoFlush
  /\ compact' = NoCompact
  /\ query' = [r \in Reader |-> NoQuery]
  /\ crashes' = crashes + 1
  /\ UNCHANGED <<disk, nextSeq, history>>
-----------------------------------------------------------------------------
(* flush_signal_logs / _metrics / _spans: the rows of a frozen memtable    *)
(* that decode are written under a fresh sequence number.  When none does, *)
(* an SSTable without rows is written and registered.                      *)
FlushBegin(R) ==
  /\ up
  /\ flush.pc = "idle"
  /\ nextSeq <= MaxSeq
  /\ R # {}
  /\ R \cap given = {}
  /\ flush' = [pc |-> "create", seq |-> nextSeq, rows |-> R \ Opaque]
  /\ nextSeq' = nextSeq + 1
  /\ given' = given \cup R
  /\ UNCHANGED <<disk, up, sstables, compact, query, crashes, persisted, skipped>>

FlushCreateParquet ==
  /\ flush.pc = "create"
  /\ parquet' = [parquet EXCEPT ![flush.seq] = "partial"]
  /\ content' = [content EXCEPT ![flush.seq] = {}]
  /\ flush' = [flush EXCEPT !.pc = "write"]
  /\ UNCHANGED <<zonemap, up, sstables, nextSeq, compact, query, crashes, history>>

FlushWriteParquet ==
  /\ flush.pc = "write"
  /\ parquet' = [parquet EXCEPT ![flush.seq] = "whole"]
  /\ content' = [content EXCEPT ![flush.seq] = flush.rows]
  /\ flush' = [flush EXCEPT !.pc = "meta"]
  /\ UNCHANGED <<zonemap, up, sstables, nextSeq, compact, query, crashes, history>>

FlushCreateZonemap ==
  /\ flush.pc = "meta"
  /\ zonemap' = [zonemap EXCEPT ![flush.seq] = "partial"]
  /\ flush' = [flush EXCEPT !.pc = "metaClose"]
  /\ UNCHANGED <<parquet, content, up, sstables, nextSeq, compact, query, crashes, history>>

FlushWriteZonemap ==
  /\ flush.pc = "metaClose"
  /\ zonemap' = [zonemap EXCEPT ![flush.seq] = "whole"]
  /\ flush' = [flush EXCEPT !.pc = "add"]
  /\ UNCHANGED <<parquet, content, up, sstables, nextSeq, compact, query, crashes, history>>

(* add_sstable; the flush returns Ok.                                      *)
FlushAdd ==
  /\ flush.pc = "add"
  /\ sstables' = sstables \cup {flush.seq}
  /\ persisted' = persisted \cup flush.rows
  /\ flush' = NoFlush
  /\ UNCHANGED <<disk, up, nextSeq, compact, query, crashes, given, skipped>>

(* A file operation of sstable::write_* fails: the flush returns Err, what *)
(* it created stays, and the request is gone.                              *)
FlushFail ==
  /\ IoFaults
  /\ flush.pc \in {"create", "write", "meta", "metaClose"}
  /\ flush' = NoFlush
  /\ UNCHANGED <<disk, up, sstables, nextSeq, compact, query, crashes, history>>
-----------------------------------------------------------------------------
\* Mutant of Drained: the registry is copied, not drained.
DrainedNothing == sstables

Drained == {}

(* compact_partition and the head of compact_signal: the registry is       *)
(* drained and the output's sequence number taken.                         *)
CompactDrain ==
  /\ up
  /\ compact.pc = "idle"
  /\ Cardinality(sstables) >= L0Trigger
  /\ Cardinality(sstables) >= 2
  /\ nextSeq <= MaxSeq
  /\ compact' = [pc |-> "read", out |-> nextSeq, inputs |-> sstables,
                 rows |-> {}, victim |-> 0]
  /\ sstables' = Drained
  /\ nextSeq' = nextSeq + 1
  /\ UNCHANGED <<disk, up, flush, query, crashes, history>>

\* Mutant of CompactCanRead: the merge waits until every input file exists.
CompactWaitsForInputs == compact.pc = "read" /\ \A s \in compact.inputs : Readable(s)

CompactCanRead == compact.pc = "read"

(* The inputs are read.  A missing file is passed over; a file or a batch  *)
(* that cannot be read is only logged.  With no batch at all the inputs    *)
(* are deleted and nothing is written.                                     *)
CompactRead ==
  /\ CompactCanRead
  /\ LET all == RowsOf(compact.inputs)
     IN \E got \in SUBSET all :
          /\ IoFaults \/ got = all
          /\ skipped' = skipped \cup (all \ got)
          /\ compact' = [compact EXCEPT !.rows = got,
                                        !.pc = IF got = {} THEN "delete" ELSE "create"]
  /\ UNCHANGED <<disk, up, sstables, nextSeq, flush, query, crashes, given, persisted>>

CompactCreateParquet ==
  /\ compact.pc = "create"
  /\ parquet' = [parquet EXCEPT ![compact.out] = "partial"]
  /\ content' = [content EXCEPT ![compact.out] = {}]
  /\ compact' = [compact EXCEPT !.pc = "write"]
  /\ UNCHANGED <<zonemap, up, sstables, nextSeq, flush, query, crashes, history>>

(* Every batch is written, the file closed and fsynced.                    *)
CompactWriteParquet ==
  /\ compact.pc = "write"
  /\ parquet' = [parquet EXCEPT ![compact.out] = "whole"]
  /\ content' = [content EXCEPT ![compact.out] = compact.rows]
  /\ compact' = [compact EXCEPT !.pc = "meta"]
  /\ UNCHANGED <<zonemap, up, sstables, nextSeq, flush, query, crashes, history>>

CompactCreateZonemap ==
  /\ compact.pc = "meta"
  /\ zonemap' = [zonemap EXCEPT ![compact.out] = "partial"]
  /\ compact' = [compact EXCEPT !.pc = "metaClose"]
  /\ UNCHANGED <<parquet, content, up, sstables, nextSeq, flush, query, crashes, history>>

CompactWriteZonemap ==
  /\ compact.pc = "metaClose"
  /\ zonemap' = [zonemap EXCEPT ![compact.out] = "whole"]
  /\ compact' = [compact EXCEPT !.pc = "add"]
  /\ UNCHANGED <<parquet, content, up, sstables, nextSeq, flush, query, crashes, history>>

CompactAdd ==
  /\ compact.pc = "add"
  /\ sstables' = sstables \cup {compact.out}
  /\ compact' = [compact EXCEPT !.pc = "delete"]
  /\ UNCHANGED <<disk, up, nextSeq, flush, query, crashes, history>>

\* Mutant of AfterCompactError: the error path deletes the inputs.
AfterCompactErrorDelete == [compact EXCEPT !.pc = "delete"]

AfterCompactError == NoCompact

(* A `?` between the drain and add_sstable: compact_signal returns Err and *)
(* the drained inputs are not put back.                                    *)
CompactFail ==
  /\ IoFaults
  /\ compact.pc \in {"create", "write", "meta", "metaClose"}
  /\ compact' = AfterCompactError
  /\ UNCHANGED <<disk, up, sstables, nextSeq, flush, query, crashes, history>>

(* delete_sstable_files: for each input the parquet file, then the bloom   *)
(* and zonemap files; a failed removal is only logged.                     *)
DeleteParquet(s) ==
  /\ compact.pc = "delete"
  /\ s \in compact.inputs
  /\ \/ /\ parquet' = [parquet EXCEPT ![s] = "absent"]
        /\ content' = [content EXCEPT ![s] = {}]
     \/ IoFaults /\ UNCHANGED <<parquet, content>>
  /\ compact' = [compact EXCEPT !.pc = "deleteMeta", !.victim = s]
  /\ UNCHANGED <<zonemap, up, sstables, nextSeq, flush, query, crashes, history>>

DeleteZonemap ==
  /\ compact.pc = "deleteMeta"
  /\ \/ zonemap' = [zonemap EXCEPT ![compact.victim] = "absent"]
     \/ IoFaults /\ UNCHANGED zonemap
  /\ LET rest == compact.inputs \ {compact.victim}
     IN compact' = IF rest = {} THEN NoCompact
                   ELSE [compact EXCEPT !.pc = "delete", !.inputs = rest]
  /\ UNCHANGED <<parquet, content, up, sstables, nextSeq, flush, query, crashes, history>>
-----------------------------------------------------------------------------
(* load_batches: the registered paths are copied once, then the files are  *)
(* opened one by one; the first that cannot be read fails the query.       *)
(* `want` and `settled` are history: what was persisted when the snapshot  *)
(* was taken, and whether no compaction was running then.                  *)
QueryBegin(r) ==
  /\ up
  /\ query[r].pc = "idle"
  /\ query' = [query EXCEPT ![r] = [pc |-> "scan", paths |-> sstables, rows |-> {},
                                    want |-> persisted,
                                    settled |-> compact.pc = "idle"]]
  /\ UNCHANGED <<disk, up, sstables, nextSeq, flush, compact, crashes, history>>

\* Mutant of QueryRead: a file that cannot be read is passed over.
QueryReadSkips(r) ==
  /\ query[r].pc = "scan"
  /\ \E s \in query[r].paths :
       query' = [query EXCEPT ![r].paths = @ \ {s},
                              ![r].rows = @ \cup (IF Readable(s) THEN content[s] ELSE {})]
  /\ UNCHANGED <<disk, up, sstables, nextSeq, flush, compact, crashes, history>>

QueryRead(r) ==
  /\ query[r].pc = "scan"
  /\ \E s \in query[r].paths :
       \/ /\ Readable(s)
          /\ query' = [query EXCEPT ![r].paths = @ \ {s}, ![r].rows = @ \cup content[s]]
       \/ /\ IoFaults \/ ~Readable(s)
          /\ query' = [query EXCEPT ![r].pc = "failed"]
  /\ UNCHANGED <<disk, up, sstables, nextSeq, flush, compact, crashes, history>>

QueryEnd(r) ==
  /\ query[r].pc = "scan"
  /\ query[r].paths = {}
  /\ query' = [query EXCEPT ![r].pc = "done"]
  /\ UNCHANGED <<disk, up, sstables, nextSeq, flush, compact, crashes, history>>

QueryReturn(r) ==
  /\ query[r].pc \in {"done", "failed"}
  /\ query' = [query EXCEPT ![r] = NoQuery]
  /\ UNCHANGED <<disk, up, sstables, nextSeq, flush, compact, crashes, history>>
-----------------------------------------------------------------------------
FlushStep ==
  \/ FlushCreateParquet \/ FlushWriteParquet
  \/ FlushCreateZonemap \/ FlushWriteZonemap
  \/ FlushAdd \/ FlushFail

CompactStep ==
  \/ CompactRead
  \/ CompactCreateParquet \/ CompactWriteParquet
  \/ CompactCreateZonemap \/ CompactWriteZonemap
  \/ CompactAdd \/ CompactFail
  \/ \E s \in compact.inputs : DeleteParquet(s)
  \/ DeleteZonemap

QueryStep(r) == QueryRead(r) \/ QueryEnd(r) \/ QueryReturn(r)

Next ==
  \/ Open
  \/ Crash
  \/ \E R \in SUBSET Row : FlushBegin(R)
  \/ FlushStep
  \/ CompactDrain
  \/ CompactStep
  \/ \E r \in Reader : QueryBegin(r) \/ QueryStep(r)

Spec == Init /\ [][Next]_vars

(* A started flush or compaction runs on a blocking path with no await    *)
(* between its steps, so the scheduler completes it; Open, the start of a  *)
(* flush and the next compaction tick depend on clients and timers.        *)
FairSpec == Spec /\ WF_vars(FlushStep) /\ WF_vars(CompactStep)
-----------------------------------------------------------------------------
TypeOK ==
  /\ parquet \in [SeqNo -> FileState]
  /\ content \in [SeqNo -> SUBSET Row]
  /\ zonemap \in [SeqNo -> FileState]
  /\ up \in BOOLEAN
  /\ sstables \in SUBSET SeqNo
  /\ nextSeq \in 1..(MaxSeq + 1)
  /\ flush \in [pc : FlushPc, seq : SeqNo \cup {0}, rows : SUBSET Row]
  /\ compact \in [pc : CompactPc, out : SeqNo \cup {0}, inputs : SUBSET SeqNo,
                  rows : SUBSET Row, victim : SeqNo \cup {0}]
  /\ query \in [Reader -> [pc : QueryPc, paths : SUBSET SeqNo, rows : SUBSET Row,
                           want : SUBSET Row, settled : BOOLEAN]]
  /\ crashes \in 0..MaxCrash
  /\ given \in SUBSET Row
  /\ persisted \in SUBSET Row
  /\ skipped \in SUBSET Row

(* Durability at every point a crash can hit: a row that decoded and whose *)
(* flush returned Ok is in an SSTable that SignalPartition::open would     *)
(* register and whose parquet file can be read, unless a compaction could  *)
(* not read it from its inputs and merged on without it (compact_signal    *)
(* only logs that).                                                        *)
DurableRows == persisted \subseteq Recoverable \cup skipped

(* A parquet file behind a readable zonemap is never written again: the    *)
(* only thing that happens to it is its removal by delete_sstable_files.   *)
(* It is what next_seq and the scan in SignalPartition::open are for.      *)
NeverOverwritten ==
  [][\A s \in SeqNo :
       Complete(s) => \/ parquet'[s] = "absent"
                      \/ parquet'[s] = "whole" /\ content'[s] = content[s]]_vars

(* Until the first crash the registered SSTables share no row and each can *)
(* be read, so that a scan of the registry counts every row once: the      *)
(* drain at the head of compact_signal takes the inputs out before the     *)
(* merged file goes in, and no registered file is deleted.                 *)
RegistryExact ==
  crashes = 0 =>
    /\ \A s \in sstables : Complete(s)
    /\ \A s, t \in sstables : s # t => content[s] \cap content[t] = {}

(* Between compactions the registry holds every persisted row, also after  *)
(* a crash in the middle of a merge or of the deletion of its inputs.  It  *)
(* needs file operations that do not fail (~IoFaults): after an error      *)
(* compact_signal returns without putting the drained inputs back.         *)
SettledRegistry ==
  (~IoFaults /\ up /\ compact.pc = "idle") => persisted \subseteq RowsOf(sstables)

(* A query whose snapshot was taken while no compaction ran returns every  *)
(* row persisted by then or returns an error, even when a compaction       *)
(* deletes files of the snapshot under it (load_batches fails on a path it *)
(* cannot open).                                                           *)
SettledQueryComplete ==
  ~IoFaults =>
    \A r \in Reader : query[r].pc = "done" /\ query[r].settled
                       => query[r].want \subseteq query[r].rows

(* What docs/architecture/storage-engine.md:157 says of the replacement of *)
(* the L0 files, seen by a query: one that finishes has every row that was *)
(* persisted when it started.                                              *)
AtomicReplace ==
  \A r \in Reader : query[r].pc = "done" => query[r].want \subseteq query[r].rows

(* A persisted row of an open partition is visible again in the end: the   *)
(* window in which compaction has emptied the registry closes, whatever    *)
(* files a crash left behind.                                              *)
VisibleAgain ==
  \A x \in Row :
    (~IoFaults /\ up /\ x \in persisted) ~> (~up \/ x \in RowsOf(sstables))

(* The sub-partition implements RowStore: flushing, merging, deleting,     *)
(* crashing and reopening change the recoverable rows only by whole        *)
(* flushes, and by dropping rows that a compaction could not read.         *)
Rows == INSTANCE RowStore WITH stored <- Recoverable, damaged <- skipped
ImplementsRowStore == Rows!Spec
-----------------------------------------------------------------------------
(* The inductive invariant behind the safety properties, in parts.         *)

Merging == compact.pc \in {"read", "create", "write", "meta", "metaClose", "add"}
Deleting == compact.pc \in {"delete", "deleteMeta"}

\* Nothing is in memory while the partition is not open.
DownIsEmpty == ~up => /\ sstables = {}
                      /\ flush = NoFlush
                      /\ compact = NoCompact
                      /\ query = [r \in Reader |-> NoQuery]

\* Sequence numbers in use were handed out, each to one owner.
SeqOwners ==
  /\ up => \A s \in SeqNo : zonemap[s] # "absent" => s < nextSeq
  /\ \A s \in sstables : s < nextSeq
  /\ compact.pc = "idle" => compact = NoCompact
  /\ flush.pc # "idle" => /\ flush.seq \in SeqNo
                          /\ flush.seq < nextSeq
                          /\ flush.seq \notin sstables
                          /\ flush.seq \notin compact.inputs
                          /\ flush.seq # compact.out
  /\ compact.pc # "idle" => /\ compact.out \in SeqNo
                            /\ compact.out < nextSeq
                            /\ compact.out \notin compact.inputs
                            /\ compact.inputs \cap sstables = {}
                            /\ \A s \in compact.inputs : s < nextSeq
  /\ Merging => compact.out \notin sstables
  /\ compact.pc = "deleteMeta" => compact.victim \in compact.inputs

\* The files of a registered SSTable, of an input and of the two outputs.
FilesInStep ==
  /\ \A s \in sstables \cup compact.inputs : zonemap[s] = "whole"
  /\ flush.pc \in {"create", "write", "meta"} => zonemap[flush.seq] = "absent"
  /\ flush.pc = "metaClose" => zonemap[flush.seq] = "partial"
  /\ flush.pc = "add" => zonemap[flush.seq] = "whole"
  /\ flush.pc \in {"meta", "metaClose", "add"} => /\ Readable(flush.seq)
                                                  /\ content[flush.seq] = flush.rows
  /\ compact.pc \in {"read", "create", "write", "meta"} => zonemap[compact.out] = "absent"
  /\ compact.pc = "metaClose" => zonemap[compact.out] = "partial"
  /\ compact.pc = "add" => zonemap[compact.out] = "whole"
  /\ compact.pc \in {"meta", "metaClose", "add"} => /\ Readable(compact.out)
                                                    /\ content[compact.out] = compact.rows
  /\ Deleting /\ compact.rows # {} => /\ Complete(compact.out)
                                      /\ content[compact.out] = compact.rows

\* The merged rows account for the inputs, which stay readable until then.
MergeAccounts ==
  /\ compact.pc \notin {"idle", "read"} => RowsOf(compact.inputs) \subseteq compact.rows \cup skipped
  /\ Merging => compact.rows \subseteq RowsOf(compact.inputs)

\* A row under flush is nowhere else, and every row on disk was handed to a flush.
FreshRows ==
  /\ flush.rows \subseteq given
  /\ flush.pc = "idle" => flush.rows = {}
  /\ compact.rows \subseteq given
  /\ \A s \in SeqNo : content[s] \subseteq given
  /\ flush.pc # "idle" => /\ flush.rows \cap compact.rows = {}
                          /\ \A s \in SeqNo \ {flush.seq} : flush.rows \cap content[s] = {}

DurableInv ==
  /\ DownIsEmpty
  /\ SeqOwners
  /\ FilesInStep
  /\ MergeAccounts
  /\ FreshRows
  /\ DurableRows

\* The files that stand for the registry while a merge is under way.
LiveFiles == sstables \cup (IF Merging THEN compact.inputs ELSE {})

\* Until the first crash the live files share no row and each can be read.
ExactFiles ==
  crashes = 0 =>
    /\ ~up => \A s \in SeqNo : zonemap[s] = "absent"
    /\ \A s \in LiveFiles : Complete(s)
    /\ \A s, t \in LiveFiles : s # t => content[s] \cap content[t] = {}

\* Without read errors the live files hold every persisted row.
LiveRows ==
  ~IoFaults => /\ skipped = {}
               /\ up => persisted \subseteq RowsOf(LiveFiles)

\* A path of a query belongs to no file that is still being written.
PathsClosed ==
  \A r \in Reader : \A s \in query[r].paths :
    /\ s < nextSeq
    /\ flush.pc # "idle" => s # flush.seq
    /\ Merging => s # compact.out

\* A query on a settled snapshot has its rows ahead of it, or will hit a missing file.
QueryAccounts ==
  ~IoFaults =>
    \A r \in Reader :
      /\ query[r].pc = "done" => query[r].paths = {}
      /\ query[r].pc \in {"scan", "done"} /\ query[r].settled =>
           \/ \E s \in query[r].paths : ~Readable(s)
           \/ query[r].want \subseteq query[r].rows \cup RowsOf(query[r].paths)

RegistryInv == ExactFiles /\ LiveRows /\ PathsClosed /\ QueryAccounts
=============================================================================
