--------------------------- MODULE StorageEngine ---------------------------
(***************************************************************************)
(* The write path of the storage engine: write_batch and the loop over its *)
(* records (WAL, MemTable, maybe_freeze), the bounded queue to the flush   *)
(* worker, flush_immutable with its WAL checkpoint, and close.  Writers,   *)
(* the flush worker and close run concurrently; every call that another    *)
(* task can observe is a step of its own.                                  *)
(*                                                                         *)
(* A MemTable is an Arc: a writer keeps the one it looked up, whatever     *)
(* happens to the map meanwhile.  MemTables therefore have identities, and *)
(* rowsIn never forgets one.  Writing and registering an SSTable is one    *)
(* step here; SignalPartition opens it up.  The WAL of a partition is a    *)
(* buffer in the writers' handle and a file; the flush worker appends its  *)
(* checkpoint through a handle of its own, straight to the file.           *)
(***************************************************************************)
EXTENDS Naturals, Sequences, FiniteSets

CONSTANTS
  Row,          \* records
  Key,          \* partition keys (time buckets)
  KeyOf,        \* PartitionKey::for_timestamp of a record
  SignalOf,     \* signal type of a record
  Opaque,       \* records with a body or an attribute: AnyValue is an untagged enum,
                \* which bincode writes and cannot read back
  Writer,       \* tasks that call write_batch
  MemCap,       \* rows that make a MemTable full (memtable_size_bytes)
  QueueCap,     \* capacity of the flush channel (64 in the code)
  Faults,       \* TRUE when a file operation may return an error
  MaxMem,       \* bound on the number of MemTables ever created
  None          \* no record

ASSUME EngineAssumption ==
  /\ KeyOf \in [Row -> Key]
  /\ SignalOf \in [Row -> {"log", "metric", "span"}]
  /\ Opaque \subseteq Row
  /\ MemCap \in Nat
  /\ QueueCap \in Nat \ {0}
  /\ Faults \in BOOLEAN
  /\ MaxMem \in Nat
  /\ None \notin Row

VARIABLES
  closed,     \* StorageEngine.closed
  memtables,  \* active MemTable of a partition, 0 if the map has none
  rowsIn,     \* rows of a MemTable
  nextMem,    \* next unused MemTable identity
  walBuf,     \* rows in the BufWriter of a partition's WAL
  walFile,    \* rows that reached the WAL file
  covered,    \* rows in front of a checkpoint in a WAL file
  queue,      \* the flush channel
  writer,     \* the tasks inside write_batch
  worker,     \* the flush worker, inside flush_immutable
  closer,     \* the task inside close
  copies,     \* number of SSTables a row was written to
  acked,      \* history: rows of batches for which write_batch returned Ok
  dropped,    \* history: rows of a MemTable whose flush request was dropped
  failed,     \* history: rows of a flush that returned Err
  undecoded,  \* history: rows a flush read and could not decode
  calm        \* history: close did not begin in the middle of a batch

logs == <<walBuf, walFile>>
history == <<acked, dropped, failed, undecoded, calm>>
vars == <<closed, memtables, rowsIn, nextMem, walBuf, walFile, covered, queue, writer,
          worker, closer, copies, acked, dropped, failed, undecoded, calm>>

Mem == 1..MaxMem
Signal == {"log", "metric", "span"}

IdleWriter == [pc |-> "idle", batch |-> {}, todo |-> {}, row |-> None, mem |-> 0]
IdleWorker == [pc |-> "idle", mem |-> 0, key |-> 0]

Stored == {x \in Row : copies[x] > 0}
Inserted == {x \in Row : \E m \in Mem : x \in rowsIn[m]}
Appended == {x \in Row : x \in walBuf[KeyOf[x]] \cup walFile[KeyOf[x]]}

Init ==
  /\ closed = FALSE
  /\ memtables = [k \in Key |-> 0]
  /\ rowsIn = [m \in Mem |-> {}]
  /\ nextMem = 1
  /\ walBuf = [k \in Key |-> {}]
  /\ walFile = [k \in Key |-> {}]
  /\ covered = {}
  /\ queue = <<>>
  /\ writer = [w \in Writer |-> IdleWriter]
  /\ worker = IdleWorker
  /\ closer = [pc |-> "open", keys |-> {}, mem |-> 0, key |-> 0]
  /\ copies = [x \in Row |-> 0]
  /\ acked = {}
  /\ dropped = {}
  /\ failed = {}
  /\ undecoded = {}
  /\ calm = TRUE
-----------------------------------------------------------------------------
(* write_batch: refused once closed is set, which is checked only here.    *)
(* The records are new ones, of one signal type.                           *)
WriteBatch(w, B) ==
  /\ writer[w].pc = "idle"
  /\ ~closed
  /\ B # {}
  /\ \A x, y \in B : SignalOf[x] = SignalOf[y]
  /\ B \cap acked = {}
  /\ B \cap Appended = {}
  /\ \A v \in Writer : B \cap writer[v].batch = {}
  /\ writer' = [writer EXCEPT ![w] = [IdleWriter EXCEPT !.pc = "next", !.batch = B, !.todo = B]]
  /\ UNCHANGED <<closed, memtables, rowsIn, nextMem, logs, covered, queue, worker, closer,
                 copies, history>>

\* Mutant of AfterLookup: the record is not logged.
AfterLookupUnlogged == "insert"

AfterLookup == "wal"

(* get_or_create_memtable, for the next record of the batch.               *)
GetMemtable(w, x) ==
  /\ writer[w].pc = "next"
  /\ x \in writer[w].todo
  /\ LET k == KeyOf[x]
         m == IF memtables[k] = 0 THEN nextMem ELSE memtables[k]
     IN  /\ m \in Mem
         /\ memtables' = [memtables EXCEPT ![k] = m]
         /\ nextMem' = IF memtables[k] = 0 THEN nextMem + 1 ELSE nextMem
         /\ writer' = [writer EXCEPT ![w].pc = AfterLookup, ![w].row = x, ![w].mem = m]
  /\ UNCHANGED <<closed, rowsIn, logs, covered, queue, worker, closer, copies, history>>

(* Wal::append under the WAL's mutex.  The BufWriter keeps the entry; when *)
(* it does not fit, what was buffered goes to the file first.              *)
WalAppend(w) ==
  /\ writer[w].pc = "wal"
  /\ LET x == writer[w].row
         k == KeyOf[x]
     IN  \/ /\ walBuf' = [walBuf EXCEPT ![k] = @ \cup {x}]
            /\ UNCHANGED walFile
         \/ /\ walBuf' = [walBuf EXCEPT ![k] = {x}]
            /\ walFile' = [walFile EXCEPT ![k] = @ \cup walBuf[k]]
  /\ writer' = [writer EXCEPT ![w].pc = "insert"]
  /\ UNCHANGED <<closed, memtables, rowsIn, nextMem, covered, queue, worker, closer, copies, history>>

(* The append fails and write_batch returns Err in the middle of the       *)
(* batch; or the partition or its log cannot be opened, and the caller's   *)
(* task panics.                                                            *)
WalAppendFail(w) ==
  /\ Faults
  /\ writer[w].pc = "wal"
  /\ writer' = [writer EXCEPT ![w] = IdleWriter]
  /\ UNCHANGED <<closed, memtables, rowsIn, nextMem, logs, covered, queue, worker, closer,
                 copies, history>>

(* MemTable::insert: the row goes into the map under its lock ...          *)
MemInsert(w) ==
  /\ writer[w].pc = "insert"
  /\ rowsIn' = [rowsIn EXCEPT ![writer[w].mem] = @ \cup {writer[w].row}]
  /\ writer' = [writer EXCEPT ![w].pc = "size"]
  /\ UNCHANGED <<closed, memtables, nextMem, logs, covered, queue, worker, closer, copies, history>>

(* ... and is counted in size_bytes after the lock is released.            *)
AddSize(w) ==
  /\ writer[w].pc = "size"
  /\ writer' = [writer EXCEPT ![w].pc = "check"]
  /\ UNCHANGED <<closed, memtables, rowsIn, nextMem, logs, covered, queue, worker, closer,
                 copies, history>>

\* The record is done; with the last one write_batch returns Ok.
RecordDone(w) ==
  LET rest == writer[w].todo \ {writer[w].row}
  IN  IF rest = {}
      THEN /\ writer' = [writer EXCEPT ![w] = IdleWriter]
           /\ acked' = acked \cup writer[w].batch
      ELSE /\ writer' = [writer EXCEPT ![w].pc = "next", ![w].todo = rest,
                                       ![w].row = None, ![w].mem = 0]
           /\ UNCHANGED acked

\* is_full looks at size_bytes: a row still to be counted is left out.
Uncounted(m) == {writer[w].row : w \in {v \in Writer : writer[v].pc = "size" /\ writer[v].mem = m}}
IsFull(m) == Cardinality(rowsIn[m] \ Uncounted(m)) >= MemCap

(* maybe_freeze, first line.                                               *)
CheckNotFull(w) ==
  /\ writer[w].pc = "check"
  /\ ~IsFull(writer[w].mem)
  /\ RecordDone(w)
  /\ UNCHANGED <<closed, memtables, rowsIn, nextMem, logs, covered, queue, worker, closer,
                 copies, dropped, failed, undecoded, calm>>

CheckFull(w) ==
  /\ writer[w].pc = "check"
  /\ IsFull(writer[w].mem)
  /\ writer' = [writer EXCEPT ![w].pc = "swap"]
  /\ UNCHANGED <<closed, memtables, rowsIn, nextMem, logs, covered, queue, worker, closer,
                 copies, history>>

\* Mutant of Swapped: the full MemTable stays the active one.
SwappedNot(k) == memtables

Swapped(k) == [memtables EXCEPT ![k] = nextMem]

(* maybe_freeze puts a fresh MemTable in the map, whatever is there.       *)
SwapFresh(w) ==
  /\ writer[w].pc = "swap"
  /\ nextMem \in Mem
  /\ memtables' = Swapped(KeyOf[writer[w].row])
  /\ nextMem' = nextMem + 1
  /\ writer' = [writer EXCEPT ![w].pc = "send"]
  /\ UNCHANGED <<closed, rowsIn, logs, covered, queue, worker, closer, copies, history>>

\* The flush channel is bounded.
HasRoom == Len(queue) < QueueCap

(* try_send of the frozen one.  When the channel is full the request is    *)
(* dropped with a warning and the record still counts as written.          *)
TrySend(w) ==
  /\ writer[w].pc = "send"
  /\ LET m == writer[w].mem
     IN  \/ /\ HasRoom
            /\ queue' = Append(queue, [mem |-> m, key |-> KeyOf[writer[w].row]])
            /\ UNCHANGED dropped
         \/ /\ ~HasRoom
            /\ dropped' = dropped \cup rowsIn[m]
            /\ UNCHANGED queue
  /\ RecordDone(w)
  /\ UNCHANGED <<closed, memtables, rowsIn, nextMem, logs, covered, worker, closer, copies,
                 failed, undecoded, calm>>
-----------------------------------------------------------------------------
\* Mutant of CanReceive: the flush worker stops when the engine is closed.
CanReceiveOpen == worker.pc = "idle" /\ ~closed

CanReceive == worker.pc = "idle"

(* flush_worker takes a request.                                           *)
Receive ==
  /\ CanReceive
  /\ queue # <<>>
  /\ worker' = [pc |-> "log", mem |-> Head(queue).mem, key |-> Head(queue).key]
  /\ queue' = Tail(queue)
  /\ UNCHANGED <<closed, memtables, rowsIn, nextMem, logs, covered, writer, closer, copies, history>>

\* flush_immutable goes through the signals in this order.
NextPc(pc) == CASE pc = "log" -> "metric" [] pc = "metric" -> "span" [] pc = "span" -> "checkpoint"

ToFlush(m, sig) == {x \in rowsIn[m] : SignalOf[x] = sig}

\* The signals flush_immutable has not flushed yet.
Ahead(pc) == CASE pc = "log" -> Signal [] pc = "metric" -> {"metric", "span"}
               [] pc = "span" -> {"span"} [] OTHER -> {}

(* flush_signal_*: the rows present now that decode become an SSTable, the *)
(* others are filtered out without a word.  drain_signal copies; it does   *)
(* not empty the MemTable.                                                 *)
FlushSignal ==
  /\ worker.pc \in Signal
  /\ LET rows == ToFlush(worker.mem, worker.pc)
     IN  /\ copies' = [x \in Row |-> IF x \in rows \ Opaque THEN copies[x] + 1 ELSE copies[x]]
         /\ undecoded' = undecoded \cup (rows \cap Opaque)
  /\ worker' = [worker EXCEPT !.pc = NextPc(worker.pc)]
  /\ UNCHANGED <<closed, memtables, rowsIn, nextMem, logs, covered, queue, writer, closer,
                 acked, dropped, failed, calm>>

(* A flush_signal_* returns Err: the signals behind it and the checkpoint  *)
(* are not reached, and the request is gone.                               *)
FlushError ==
  /\ Faults
  /\ worker.pc \in Signal
  /\ failed' = failed \cup {x \in rowsIn[worker.mem] : SignalOf[x] \in Ahead(worker.pc)}
  /\ worker' = IdleWorker
  /\ UNCHANGED <<closed, memtables, rowsIn, nextMem, logs, covered, queue, writer, closer,
                 copies, acked, dropped, undecoded, calm>>

(* The checkpoint lands behind whatever is in the file by now.  Its result *)
(* is ignored.                                                             *)
Checkpoint ==
  /\ worker.pc = "checkpoint"
  /\ \/ covered' = covered \cup walFile[worker.key]
     \/ Faults /\ UNCHANGED covered
  /\ worker' = IdleWorker
  /\ UNCHANGED <<closed, memtables, rowsIn, nextMem, logs, queue, writer, closer, copies, history>>
-----------------------------------------------------------------------------
(* close: closed is set, then flush_all runs over a snapshot of the keys.  *)
CloseBegin ==
  /\ closer.pc = "open"
  /\ closed' = TRUE
  /\ calm' = \A w \in Writer : writer[w].pc = "idle"
  /\ closer' = [closer EXCEPT !.pc = "keys"]
  /\ UNCHANGED <<memtables, rowsIn, nextMem, logs, covered, queue, writer, worker, copies,
                 acked, dropped, failed, undecoded>>

FlushAllKeys ==
  /\ closer.pc = "keys"
  /\ closer' = [closer EXCEPT !.pc = "remove", !.keys = {k \in Key : memtables[k] # 0}]
  /\ UNCHANGED <<closed, memtables, rowsIn, nextMem, logs, covered, queue, writer, worker,
                 copies, history>>

\* Mutant of WorthFlushing: only a full MemTable is sent.
WorthFlushingFull(m) == IsFull(m)

WorthFlushing(m) == rowsIn[m] # {}

(* The entry is removed from the map; an empty MemTable is let go.         *)
FlushAllRemove(k) ==
  /\ closer.pc = "remove"
  /\ k \in closer.keys
  /\ memtables' = [memtables EXCEPT ![k] = 0]
  /\ LET m == memtables[k]
     IN  IF m # 0 /\ WorthFlushing(m)
         THEN closer' = [pc |-> "send", keys |-> closer.keys \ {k}, mem |-> m, key |-> k]
         ELSE closer' = [closer EXCEPT !.keys = @ \ {k}]
  /\ UNCHANGED <<closed, rowsIn, nextMem, logs, covered, queue, writer, worker, copies, history>>

(* send().await: waits while the channel is full.                          *)
FlushAllSend ==
  /\ closer.pc = "send"
  /\ HasRoom
  /\ queue' = Append(queue, [mem |-> closer.mem, key |-> closer.key])
  /\ closer' = [closer EXCEPT !.pc = "remove", !.mem = 0, !.key = 0]
  /\ UNCHANGED <<closed, memtables, rowsIn, nextMem, logs, covered, writer, worker, copies, history>>

(* All keys are through; close sleeps for 500 ms ...                       *)
FlushAllDone ==
  /\ closer.pc = "remove"
  /\ closer.keys = {}
  /\ closer' = [closer EXCEPT !.pc = "sleep"]
  /\ UNCHANGED <<closed, memtables, rowsIn, nextMem, logs, covered, queue, writer, worker,
                 copies, history>>

(* ... and returns, however far the flush worker got in that time.         *)
CloseReturn ==
  /\ closer.pc = "sleep"
  /\ closer' = [closer EXCEPT !.pc = "returned"]
  /\ UNCHANGED <<closed, memtables, rowsIn, nextMem, logs, covered, queue, writer, worker,
                 copies, history>>
-----------------------------------------------------------------------------
WriterStep(w) ==
  \/ \E x \in writer[w].todo : GetMemtable(w, x)
  \/ WalAppend(w) \/ WalAppendFail(w)
  \/ MemInsert(w) \/ AddSize(w)
  \/ CheckNotFull(w) \/ CheckFull(w)
  \/ SwapFresh(w) \/ TrySend(w)

WorkerStep == Receive \/ FlushSignal \/ FlushError \/ Checkpoint

CloserStep ==
  \/ FlushAllKeys
  \/ \E k \in closer.keys : FlushAllRemove(k)
  \/ FlushAllSend \/ FlushAllDone \/ CloseReturn

Next ==
  \/ \E w \in Writer : \/ \E B \in SUBSET Row : WriteBatch(w, B)
                       \/ WriterStep(w)
  \/ WorkerStep
  \/ CloseBegin
  \/ CloserStep

Spec == Init /\ [][Next]_vars

(* The tasks are spawned on the tokio runtime, which polls every task that *)
(* can go on; whether a batch comes or close is called is up to callers.   *)
FairSpec ==
  /\ Spec
  /\ \A w \in Writer : WF_vars(WriterStep(w))
  /\ WF_vars(WorkerStep)
  /\ WF_vars(CloserStep)
-----------------------------------------------------------------------------
WriterState ==
  [pc : {"idle", "next", "wal", "insert", "size", "check", "swap", "send"},
   batch : SUBSET Row, todo : SUBSET Row, row : Row \cup {None}, mem : Mem \cup {0}]
WorkerState == [pc : Signal \cup {"idle", "checkpoint"}, mem : Mem \cup {0}, key : Key \cup {0}]
CloserState ==
  [pc : {"open", "keys", "remove", "send", "sleep", "returned"},
   keys : SUBSET Key, mem : Mem \cup {0}, key : Key \cup {0}]
FlushRequest == [mem : Mem, key : Key]

(* The types, and the bound of the flush channel (engine.rs:61).           *)
TypeOK ==
  /\ closed \in BOOLEAN
  /\ memtables \in [Key -> Mem \cup {0}]
  /\ rowsIn \in [Mem -> SUBSET Row]
  /\ nextMem \in 1..(MaxMem + 1)
  /\ walBuf \in [Key -> SUBSET Row]
  /\ walFile \in [Key -> SUBSET Row]
  /\ covered \in SUBSET Row
  /\ queue \in Seq(FlushRequest) /\ Len(queue) <= QueueCap
  /\ writer \in [Writer -> WriterState]
  /\ worker \in WorkerState
  /\ closer \in CloserState
  /\ copies \in [Row -> Nat]
  /\ acked \in SUBSET Row
  /\ dropped \in SUBSET Row
  /\ failed \in SUBSET Row
  /\ undecoded \in SUBSET Row
  /\ calm \in BOOLEAN

(* "WAL write first" (engine.rs:109): a row in a MemTable or an SSTable is *)
(* in the WAL of its own partition, whatever the writers, the flush worker *)
(* and close do.                                                           *)
WalFirst == Inserted \cup Stored \subseteq Appended

(* What WalFirst rests on: past Wal::append the record in hand is in its   *)
(* log, and whoever is about to touch a MemTable holds a real one.         *)
InHand == \A w \in Writer :
  /\ writer[w].pc \notin {"idle", "next"} => writer[w].row \in Row /\ writer[w].mem \in Mem
  /\ writer[w].pc \notin {"idle", "next", "wal"} => writer[w].row \in Appended
WorkerHolds == worker.pc # "idle" => worker.mem \in Mem /\ worker.key \in Key
CloserHolds == closer.pc = "send" => closer.mem \in Mem /\ closer.key \in Key
WalInv == WalFirst /\ InHand /\ WorkerHolds /\ CloserHolds

\* One writer, as the ingest pipeline sets it up, and close between batches.
Solo == (\E w \in Writer : Writer = {w}) /\ calm

\* Where the rows of the MemTables that somebody will still flush are.
Waiting ==
  {m \in Mem : \/ \E k \in Key : memtables[k] = m
               \/ \E w \in Writer : /\ writer[w].pc \in {"size", "check", "swap", "send"}
                                     /\ writer[w].mem = m
                                     /\ Cardinality(rowsIn[m]) >= MemCap
               \/ \E i \in 1..Len(queue) : queue[i].mem = m
               \/ closer.pc = "send" /\ closer.mem = m}
Pending ==
  {x \in Row : \/ \E m \in Waiting : x \in rowsIn[m]
               \/ /\ worker.pc \in Signal
                  /\ x \in rowsIn[worker.mem]
                  /\ SignalOf[x] \in Ahead(worker.pc)}

(* Every row can be accounted for: with one writer an inserted row is in   *)
(* an SSTable or in a MemTable on its way to one, or it was lost with a    *)
(* log line (a full flush queue, a failed flush), or bincode could not     *)
(* read it back when it was flushed.                                       *)
Accounted == Solo => Inserted \subseteq Stored \cup Pending \cup dropped \cup failed \cup undecoded

(* With one writer a row is written to at most one SSTable: no MemTable is *)
(* sent to the flush worker twice by maybe_freeze and flush_all.           *)
AtMostOnce == Solo => \A x \in Row : copies[x] <= 1

(* close comes back, although flush_all waits for room in the channel and  *)
(* flushes may fail.                                                       *)
CloseReturns == (closer.pc = "keys") ~> (closer.pc = "returned")

(* The flush worker goes on after close: a row of an acknowledged batch is *)
(* in an SSTable in the end, or its loss was logged, or it did not decode, *)
(* if the process is left running.                                         *)
DrainsAfterClose ==
  \A x \in Row :
    (Solo /\ closed /\ x \in acked) ~> (x \in Stored \cup dropped \cup failed \cup undecoded)
-----------------------------------------------------------------------------
(* Statements of the repository that the code does not keep.               *)

(* engine_integration.rs, prop_logs_survive_roundtrip: once one writer is  *)
(* done, the engine is closed and its flushes are through, the SSTables    *)
(* hold every record of the batches written.                               *)
LogsSurviveRoundtrip ==
  (Solo /\ closer.pc = "returned" /\ queue = <<>> /\ worker.pc = "idle") => acked \subseteq Stored

(* PHASE1_DESIGN.md:143: racing writers only overshoot the size limit, so  *)
(* no acknowledged row goes missing.                                       *)
RaceKeepsRows ==
  ~closed => acked \subseteq Stored \cup Pending \cup dropped \cup failed \cup undecoded

(* wal.rs:7: a checkpoint marks that all prior entries are in an SSTable.  *)
CheckpointSound == covered \subseteq Stored
=============================================================================
