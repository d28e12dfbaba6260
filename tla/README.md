# A TLA+ verification of InfraLens

InfraLens is an observability back end: it takes OpenTelemetry logs, metrics and
traces, stores them in an LSM-style engine of Parquet files, and answers queries
over them. This directory models the parts of it in which several tasks work on
shared state and the translations that decide which rows are stored and returned,
checks the models with TLC on small instances, and proves the central properties
with TLAPS for every size of the system.

Paths are relative to the repository. `PROJECT.json` maps every definition that
models code to its lines, lists the runs, the mutants that show each property can
fail, the theorems, and the hazards each property is aimed at.

## 1. The system

| Part | State | Operations | What makes it hard |
|---|---|---|---|
| OTLP handlers and writer task (`crates/infralens-ingest`) | a bounded channel of batches | decode, `submit`, receive, `write_batch` | the client is answered when the batch is queued, not when it is stored; the channel fills; the writer task fails or panics; shutdown |
| Storage engine (`infralens-storage/src/engine.rs`, `memtable.rs`) | active MemTable per time bucket, WAL handle per bucket, flush channel, `closed` | `write_batch`, `maybe_freeze`, `flush_all`, `close`, flush worker | tasks keep `Arc`s of MemTables that others replace; a full channel; a close in the middle of it all |
| Write-ahead log (`wal.rs`) | a file, a buffer, a second handle on the same file | `append`, `sync`, `checkpoint`, `recover` | an entry is two writes; the buffer spills between them; crashes |
| Signal sub-partition (`partition.rs`, `sstable.rs`, `compaction.rs`, `zone_map.rs`, and `executor/scan.rs` of the query crate) | three files per SSTable, a registry in memory, a sequence counter | `open`, flush, `compact_signal`, deletion, scan | every file operation can fail, every gap between two can be hit by a crash, and queries read through it |
| Membership, ring and router (`infralens-cluster`) | a key per node under a lease in etcd, a view (node list and ring) per node | `join`, `load_view`, watch events, `route` | crashes, restarts, lease expiry, events that fall between two requests |
| Replication (`replication.rs`, `infralens-rpc/src/server.rs`) | a bounded queue and a send loop per replica; a task per incoming stream | `replicate`, send loop, the `replicate` handler, `apply_replica_entry` | calls overlap, queues fill, loops end, streams break and entries are sent again |
| Scatter/gather (`infralens-rpc/src/scatter_gather.rs`) | the tasks of one query | `execute`, `query_single_shard` | shards fail, panic, are cut off or have left the view, and a result must say so |
| OTLP decoders (`infralens-ingest/src/normalizer.rs`, `json_decoder.rs`, `http.rs`, `grpc.rs`) | none kept | decode protobuf, decode JSON | two translations of one message that must agree |
| Query engine (`infralens-query`) | catalog statistics, the plan and the operators of a query | parse, plan, optimise, execute | rewrites that must keep the rows; nulls, batches, files that come and go |
| Kubernetes operator (`deploy/kubernetes/operator`) | the objects of a cluster | reconcile: ConfigMap, Service, StatefulSet, status | edits, refusals, failures and restarts between any two requests |
| API gateway, LLM copilot | none; none | handlers | Not modelled |

How they interact. A handler hands a batch to the writer task through the ingest
channel. The writer task is the only caller of `write_batch` in the server
process. `write_batch` appends each record to the WAL of its bucket, inserts it
into the bucket's MemTable and, when that is full, swaps in a fresh one and sends
the old one to the flush worker. The flush worker writes one SSTable per signal
and a checkpoint to the WAL. The compaction worker merges the SSTables of a
sub-partition. A query takes the paths in the registry and then reads the files.
The decoders make the records of a batch. The cluster part decides which node is
responsible for a series; the server's `main` does not start it yet. Replication
and scatter/gather read its view. The send loop of replication is a stub that
takes entries off its queue, and the `query_shard` handler answers with an empty
last message, so the two ends of each are not connected in the code. The operator
runs beside all of this and only talks to the Kubernetes API.

## 2. Modules

| Module | Models | Proofs in |
|---|---|---|
| `SignalPartition` | one signal sub-partition, file by file | `SignalPartitionProofs` |
| `RowStore` | what a sub-partition promises about rows on disk (abstract) | refinement in `SignalPartitionProofs` |
| `StorageEngine` | write path, flush worker, close | `StorageEngineProofs` |
| `Wal` | the log file, its two handles and `recover` | `WalProofs` |
| `IngestPipeline` | clients, handlers, channel, writer task, shutdown | `IngestPipelineProofs` |
| `Membership` | etcd registry, views, ring, router | `MembershipProofs` |
| `Replication`, `ReplicaServer`, `ScatterGather` | `ReplicationEngine`; the `replicate` handler and `apply_replica_entry`; `ScatterGather::execute` | `ReplicationProofs` (the engine) |
| `DataPlane` | the three together, under a changing view | `DataPlaneProofs` (handler, executor, composition) |
| `Otlp`, `OtlpExport` | the two decoders; exporters and handlers around them | – |
| `Iql`, `QueryPlan`, `QueryEval`, `QueryExec` | AST and parser; planner, optimizer rules and catalog; expressions on batches; operators | – |
| `IqlReference` | what a query text means, apart from the engine | – |
| `Query` | one query through all stages, with files and statistics changing under it | – |
| `Operator` | reconcile, kube-rs's controller and the API server | `OperatorProofs` |
| `MCSignalPartition`, `MCStorageEngine`, `MCMembership`, `MCDataPlane`, `MCOtlpExport`, `MCQuery`, `MCOperator` | instances for TLC | |

The storage modules meet at three seams. `StorageEngine` writes an SSTable in one step,
which `SignalPartition` opens up into file operations. Its WAL is a set of logged
rows, which `Wal` opens up into buffer, file and torn entries. `IngestPipeline`
calls `write_batch` as a step that returns Ok, returns Err or panics, and relies
on `close` returning, which `StorageEngine` checks (`CloseReturns`). `OtlpExport`
opens up the decoding that `IngestPipeline` takes as accepted or malformed.
`DataPlane` reads the view that `Membership` keeps: it lets any node join or leave it
at any time, which allows more than `Membership` does.

### SignalPartition

`parquet`, `zonemap` and `content` are the directory: a file is absent, partial
from its creation, and whole once its last byte is written. `sstables` is the
registry, `nextSeq` the counter. `flush`, `compact` and `query` are the program
counters and locals of the tasks inside `flush_signal_*`, `compact_signal` and
`load_batches`. `given`, `persisted` and `skipped` are history: rows handed to a
flush, rows that decoded and whose flush returned Ok, rows that a compaction could not
read. `Opaque` are the rows that do not decode; a flush of nothing else writes and
registers an SSTable without rows (engine.rs:302-313), which a merge only deletes.

A flush takes a sequence number, creates and writes the parquet file, creates and
writes the zonemap, and registers the SSTable: six actions, with `FlushFail` where
the code returns early with `?`. A compaction drains the registry, reads, writes
its output the same way, registers it, and deletes its inputs file by file; an
error after the drain (`CompactFail`) leaves the inputs unregistered. `Crash` keeps
the files and drops the rest; `Open` rebuilds the registry and the counter from
the zonemaps. The bloom file is written and never read back, so its steps are
folded into those of the zonemap. Bytes lost by a power failure are not modelled
here: a crash is the death of the process.

### StorageEngine

MemTables have identities, since a writer keeps the `Arc` it looked up whatever
the map holds by then; `rowsIn` are their rows. One record is up to six steps of a
writer: look up the MemTable, append to the WAL, insert, count the size, look at
the size, swap and `try_send`. The flush worker is a step per signal and one for
the checkpoint. `close` sets `closed`, takes a snapshot of the keys, removes each
MemTable from the map, waits for room in the channel, sleeps and returns. `copies`
counts the SSTables a row was written to; `acked`, `dropped`, `failed` and `calm`
are history. Sizes are counted in rows (`MemCap`) instead of bytes. `Opaque` are the
rows that bincode writes and cannot read back, those with an `AnyValue` in them;
`undecoded` collects the ones a flush has filtered out.

### Wal

The file is a sequence of units: a header, the parts of an entry's data, a
checkpoint. `append` is two actions because it is two calls of a `BufWriter`,
each of which may push the buffer to the file or fail. `Checkpoint` goes through the
second handle that `flush_immutable` opens and takes no lock. `Crash` loses the
buffer and cuts the file anywhere behind what was synced. `recover` takes the length
of the file (`RecoverOpen`) and reads it unit by unit (`RecoverRead`), while the
others go on writing: `reader` is where it is in an entry and what it has found,
`pos` how far it has read. The CRC is what compares a data block with its header.
Since a call may stop after any unit, the properties speak of every end the file
can have. `torn` is history: something was written behind a part of an entry.

### IngestPipeline

A batch is what one client wants stored. The handlers of the two protocols and
three signals do the same thing and are one. `submit` either appends to the
channel or, if it is full or closed, returns `BufferFull`, which is a 429. An
answer may be lost, and a client without an answer or with a 429 may send again.
A request that a client has given up on is not handled any more; one that is
handled late is a request whose answer is lost. The writer task is `Receive`
followed by `WriteOk`, `WriteErr` or `WriterPanics`. `Shutdown` and `Exit` are the
end of `main`: `close` is called with handlers and writer task still at work, and
the process ends when it returns.

### Membership

`reg` is etcd: the current registration of each node (0 for none). `view` has a
node list and a ring, kept by separate updates as in the code. `stream` is the
watch's event queue. `gap` is history: the nodes whose event was published between
a node's `load_view` and its watch. `add_node`, `remove_node`, `primary_for`,
`replica_nodes` and `route` are operators on rings, which are sets of position and
node. etcd is external and modelled by what the code relies on: a put replaces
the key and its lease, expiry deletes the key, a watch delivers events in order.
The counter `ring.version`, which nothing reads, is left out.

### DataPlane: Replication, ReplicaServer, ScatterGather

`replicate` draws a number and then, for each replica, takes a sender out of the map
under the lock (with a new channel and send loop if there is none) and offers the
entry after the lock is released; these are separate steps, and `held` is the sender
in a call's hand. A full channel loses the entry for that replica. A closed one
removes the sender of that node id from the map, whichever it is by then;
`misremoved` records that it was a healthy one. A send loop takes entries or dies.

The handler has a task per stream: receive, apply, answer, the last of which waits
for room among the acknowledgements. The peer is external: it feeds entries, again or
for the first time, reads answers, and breaks streams. An entry that cannot be
decoded is passed over and answered as accepted, without a log line, as in the code
(replication.rs:184, 194, 204). `write_batch` may panic when it cannot open a partition
or its log (`ApplyPanics`): the task is gone, the stream closed from the replica's side,
and the peer reads what was answered before and then the end.

`execute` looks up its targets in a snapshot of the view, spawns a task for each it
finds, and joins them as they finish. Shards are external and may stream any number
of batches; a task ends well, with an error, cut off or in a panic.

The three are disjoint in state, so a behaviour follows one of them (`part`).

### Otlp, OtlpExport

Each function of `normalizer.rs` and `json_decoder.rs` is an operator from a message
(or a JSON object) to records. The exporter turns a message into JSON by the proto3
mapping, external to this code, in the styles it leaves open: numbers as digits in a
text or as numbers, default values written or left out. The mapping writes NaN and the
infinities as text (`NonFinite`, `JsonDouble`). Of fields of a record that both decoders
treat alike, such as the several texts and times, one stands for all. A request is one
step to send, which puts the message or its JSON into `wire`, and one to decode it.

### Query and its parts

The parser, planner, optimizer rules, evaluator and operators are operators of the
same names and shapes as the functions. An operator that pulls batches is the sequence
of batches and errors that polling it to its end gives; equal sort keys make that a
set of sequences. Integers wrap at `IntMax`; what lies under a null slot is a parameter
(`Slots`), because the evaluator reads it. `Query` takes one text through the stages as
separate actions; files are registered and statistics refreshed between them
(`RegisterFile`, `UpdateStats`), and a file may be gone when it is opened (`FileGone`).
`base` are the files there were when the plan was optimized, and `fresh` says that the
statistics covered them.

### Operator

A reconcile works on `cluster`, the object that `store` held when it began, while
`object` is what the API server has. Its four requests are four actions; each may
fail, and `Restart` may fall between any two. `Apply` is server-side apply without force:
a field that others changed is a conflict. A StatefulSet with another claim template
is refused. `RollPods` is the StatefulSet controller: pods start from the StatefulSet
and read the ConfigMap as it is then. Both requeues (30 s and 10 s) make the
object due again. `resources` and `l0_compaction_trigger` of the spec are read by no
step of a reconcile and reach no child; an edit of them is an edit that raises the
generation and leaves the modelled parts as they are.

## 3. Runs

Every property of a passing run has a mutant in `PROJECT.json`: a plausible bug in
one mapped definition under which TLC finds the property violated.

| Run | Instance | Distinct states | Checks |
|---|---|---|---|
| `signal_partition` | 3 rows, one of them opaque, 1 query, trigger 2, 5 sequence numbers, 1 crash, no file errors | 319,969 | `RegistryExact`, `SettledQueryComplete`, `NeverOverwritten`, `VisibleAgain` |
| `signal_partition_faults` | 3 rows, one of them opaque and the others symmetric, 4 sequence numbers, 1 crash, any file operation may fail | 116,021 | `DurableRows`, `ImplementsRowStore` |
| `storage_engine` | 4 rows of two signals in two buckets, one of them opaque, 1 writer, MemTable of 2, channel of 1, errors | about 1.6 million | `Accounted`, `AtMostOnce`, `WalFirst` |
| `storage_engine_live` | 3 rows, the same otherwise | about 147,000 | `CloseReturns`, `DrainsAfterClose` |
| `wal` | 4 entries of a header and two data units, buffer of 4, 2 checkpoints, 1 crash, errors; `recover` at any time | about 1.6 million | `RecoverExact`, `NothingInvented` |
| `ingest_pipeline` | 3 batches, one malformed, channel of 2, 2 sends each, errors | 312,183 | `HandledInOrder`, `OncePerAnswer`, `AcceptedHandled` |
| `membership` | 3 nodes with 2 virtual nodes each, 2 of them observed, ring of 8, 3 registrations | 216,151 | `ViewExact`, `RouteExact`, `OnePrimary`, `MinimalMoves`, `DownLeaves` |
| `data_plane` | 2 writers, 1 replica, queue of 2, 4 calls, 1 death of a loop; 2 streams of 3 entries, room for 1 answer; 2 shards of 2 and 0 batches | 156,423 | `EachOnce`, `CallOrder`, `AnsweredInOrder`, `AcceptedIsStored`, `WholeOrNamed`, `Progress` |
| `query` | 5 tables of up to 15 rows, with nulls, in up to 2 files and batches of 2, 1 file that comes later; 7,056 texts for the parser (over no rows), 170 with LIKE, 130 others | 174,036 | `ParsesAsWritten`, `NoWrongRow`, `NoRowLost`, `LimitServed`, `Ordered`, `AggregatesExact`, `PrunesSoundly`, `OptimizerKeeps` |
| `otlp` | requests of the three signals with each part varied, nested ones, 4 JSON styles | 5,701 | `InItsPlace`, `SameRecords` |
| `operator` | 2 values for each part of the spec, 3 generations, 1 foreign change, 1 fault, 1 restart | 1,019,809 | `StatusTrue`, `ConfigFirst`, `Converges` |

What they show:

- **A flushed row is durable** (`DurableRows`): whatever fails and wherever the
  process dies, a row that decoded and whose flush returned Ok is in a readable SSTable that a
  restart registers, unless a compaction could not read it. `ImplementsRowStore`
  says the same as a refinement: files, merges, deletions, crashes and restarts
  amount to rows that arrive in whole flushes and stay.
- **The registry** lists each row once until the first crash (`RegistryExact`; after
  a crash between a merge and the deletion of its inputs rows are listed twice),
  and every persisted row when no compaction is running (`SettledRegistry`). A query
  that took its paths then is complete or fails (`SettledQueryComplete`), and a row
  hidden by a compaction comes back (`VisibleAgain`). A sequence number is never
  given to a second SSTable while the first can be read (`NeverOverwritten`).
- **The engine loses no row silently** (`Accounted`) and writes none twice
  (`AtMostOnce`), for the single writer that the ingest pipeline sets up and a
  `close` between two batches. Losses with a log line exist: a flush request
  dropped at a full channel, a failed flush. A `close` in the middle of a batch
  does lose a row without one: TLC gives the seven-step trace when the condition
  `calm` is removed, in which `flush_all` lets an empty MemTable go that the
  writer then inserts into.
- **`close` returns**, although it waits for a channel that the flush worker
  drains, and what was acknowledged is flushed in the end if the process is left
  running. That it is flushed before `close` returns is not true (500 ms).
- **`recover`** has exactly the whole entries behind the last checkpoint it read,
  wherever the file ends or was cut and whoever writes meanwhile, as long as nothing
  was written behind a torn entry (`RecoverExact`); and even then it takes nothing that
  was not appended, nothing twice and nothing out of order (`NothingInvented`). That it
  goes on behind a checkpoint and returns the entries after the last one is what its
  test asks for (wal.rs:196-198); the comment at wal.rs:95, "Stops and returns `Ok` at
  a `Checkpoint` entry.", says otherwise (`StopsAtCheckpoint` below).
- **Ingest**: accepted batches are handled in order, each once, whatever fails; a
  refused request leaves nothing behind; an accepted one is handled in the end
  unless the writer panics or the server exits.
- **Cluster**: list and ring of a view agree; a watched view converges on etcd
  but for events in the gap; `route` picks the nearest nodes clockwise; caught-up
  nodes never both claim a key; a change of topology moves only the keys it must.
- **Replication**: an entry goes to each replica of its call once or is counted as
  lost (`EachOnce`), and calls one after the other arrive in that order (`CallOrder`)
  until a call that held a closed sender removes a healthy successor from the map;
  from then on two loops serve the replica. Overlapping calls may arrive against
  their sequence numbers, because number and queueing are separate steps. The handler
  answers each entry of an open stream once and in order (`AnsweredInOrder`). The i-th entry
  of a stream writes itself once or nothing, and its answer says accepted for a record
  exactly if it was written (`AcceptedIsStored`): an entry sent again is stored again,
  since its number is compared with nothing.
- **Scatter/gather** (`WholeOrNamed`): a shard that is not in `error_nodes` gave all its
  batches, with three exceptions that leave a result short without a word: a target
  that is not in the view, a task that panicked, and a stream that ended early.
- **Nobody waits for ever** (`Progress`): calls return without the replicas' help,
  queues drain, a peer that reads is answered or sees its stream end, `execute` returns
  if every shard goes on.
- **OTLP** (`SameRecords`): protobuf and JSON give the same records except, exactly, for
  bytes and key-value-list values, empty arrays left out, attributes without a value,
  an observed time left out (json_decoder.rs:117), integer points written as digits
  (json_decoder.rs:167, 189), NaN and infinite doubles in values and points, which are
  written as text and which `as_f64` loses (json_decoder.rs:29, 166, 188), and
  histograms, which JSON loses. Every record has its own item, scope and resource, and
  every item its records (`InItsPlace`); summaries and exponential histograms have none,
  in either encoding (`EveryKindMapped` below).
- **Query**: the parser reads every statement, written with no more parentheses than
  the documented precedence needs, as that statement (`ParsesAsWritten`). Of a
  `SELECT *` with one condition no row is answered that does not satisfy it and none is
  lost (`NoWrongRow`, `NoRowLost`); limits (`LimitServed`), the order by columns
  (`Ordered`) and aggregates over all rows (`AggregatesExact`) are as asked; the plan
  prunes no partition with a matching row (`PrunesSoundly`) and rewriting keeps the rows
  (`OptimizerKeeps`). Each property names the queries it is about; what is known to go
  wrong for the others is listed below.
- **Operator**: a status that names the current generation is written after the children
  were applied as that generation specifies them (`StatusTrue`); its `ready_replicas`
  is another matter (`ReadyIsReady` below). Pods
  never run a newer StatefulSet than their ConfigMap (`ConfigFirst`); everything
  converges on the last spec unless the API server refuses for ever (`Converges`).

Where the query engine departs from the meaning of a query, which is why the properties
have the conditions they have:

- The SELECT list has no effect on the columns: a projection is built as its input
  (executor/mod.rs:63-64), so an answer has the columns of the table, unnamed and
  uncomputed (`Projected` below). DISTINCT is swallowed (parser.rs:40), and FILTER
  (docs/architecture/query-engine.md:86) is not in the grammar.
- An aggregate over no rows gives no row (aggregate.rs:53-56), not even for COUNT
  (`SingleRow` below).
- ORDER BY sorts by columns of the input only: an alias or an expression is dropped
  from the keys without an error (sort.rs:38-48).
- WHERE together with HAVING and no aggregate loses the WHERE (rules.rs:59).
- The limit is also in the scan, below ORDER BY, OFFSET and aggregates (planner.rs:78);
  the answer is exact only if the table is one batch. OFFSET without LIMIT is ignored.
- GROUP BY over any rows is an error, since the columns are built with other types than
  the schema has (aggregate.rs:114). Aggregates of a column that is neither i64 nor
  f64 are those of no rows.
- Comparing an unsigned or 32-bit column with an integer literal is an error
  (eval.rs:208). `timestamp_ns` is such a column, so time conditions prune partitions
  but are answered with an error as soon as a row is compared; `PrunesSoundly` is about
  the plan for that reason.
- AND, OR and IN are null if one operand is; values under a null are read by LIKE,
  minus, `rate` and others. LIKE without `%` at the end only, or with `_`, misses
  matches and never matches too much. `rate`, `delta` and `histogram_quantile` are
  computed per batch.
- NOT BETWEEN is refused although the comment at parser.rs:196 lists it, and intervals
  are not folded although rules.rs:13 says so.
- Statistics older than the newest file prune its rows away. A file that a compaction
  deletes between listing and opening makes the query fail.

One run finds a statement of the repository violated by the code:
`storage_engine_roundtrip` (`LogsSurviveRoundtrip`). The property test of
crates/infralens-storage/tests/engine_integration.rs:210 asserts that all logs written
are found in SSTables; it is ignored by default (line 176). The flush decodes each row
with `bincode::deserialize(..).ok()` (engine.rs:305-308) and `AnyValue` is
`#[serde(untagged)]` (infralens-common/src/model.rs:35), which bincode 1.3.3 does not
deserialize. So a record with a body or an attribute is acknowledged, logged, taken
into a MemTable, and left out of the SSTable without a message. The passing runs count
such rows as `undecoded`.

Statements that the modules state and the code does not keep. No run checks them; each
is a definition in its module, and TLC refutes it when it is made an invariant or a
property of the module's configuration (with two writers for `RaceKeepsRows`):

| Definition | Statement | What happens |
|---|---|---|
| `AtomicReplace` (`SignalPartition`) | docs/architecture/storage-engine.md:157, "Atomically replace the L0 files: write to a temp file, rename into place, delete L0s." | a query between the drain and the registration of the merged SSTable succeeds without the rows |
| `RaceKeepsRows` (`StorageEngine`) | PHASE1_DESIGN.md:143, "The actual MemTable may overshoot by one batch if multiple writers race." | of two writers that found a MemTable full the second discards the first one's fresh MemTable, with an acknowledged row. The server has one writer task today; the replicate handler (rpc/src/server.rs:76) will be a second caller once the server starts it |
| `CheckpointSound` (`StorageEngine`) | wal.rs:7-8, "all prior entries have been durably written to an SSTable" | the checkpoint of a flush lands behind entries of the next MemTable |
| `YieldsUpToCorruption` (`Wal`) | wal.rs:94, "Replay a WAL file, yielding valid entries up to the first corruption." | `recover` returns Err and no entries; two handles on one file make such a log without a disk fault |
| `StopsAtCheckpoint` (`Wal`) | wal.rs:95, "Stops and returns `Ok` at a `Checkpoint` entry." | `recover` reads on behind a checkpoint and returns the entries after it; the test at wal.rs:196-198 asks for that |
| `EveryKindMapped` (`OtlpExport`) | normalizer.rs:189, "ExponentialHistogram and Summary: map to generic data points for now." | the arm is empty, and a metric of these kinds gives no record |
| `Projected` (`Query`) | docs/architecture/query-engine.md:233, "Selects and renames columns" | the columns of the input are answered |
| `SingleRow` (`Query`) | aggregate.rs:58, "For no-group-by aggregation, produce a single row" | over no rows there is no row |
| `OthersRebuild` (`Membership`) | docs/architecture/cluster.md:73-74, "all other nodes rebuild the ring without it" | a lease that expires between a node's `load_view` and its watch is never told to that node |
| `ConfigReachesPods` (`Operator`) | PHASE5_DESIGN.md:9, "handles scaling, rolling updates, and self-healing" | a ConfigMap that changes alone restarts no pod |
| `ReadyIsReady` (`Operator`) | the field `ready_replicas` of the status (crd.rs, reconciler.rs:266) | it is the number of replicas the spec asks for, whatever the pods do |

Disagreements that need no run, because they are about calls that are not there:
docs/architecture/storage-engine.md:65 describes a background fsync and :70-73 a
WAL scan on start-up, docs/design-decisions.md:88 a replay on restart; `sync` is
not called while the engine runs and `recover` has no caller.
docs/load-testing.md:172 says that accepted requests are in the WAL before they are
acknowledged; the handlers answer when the batch is queued.
docs/architecture/cluster.md:145 has the coordinator retry a node once with a timeout
of 500 ms; `execute` has neither.

### Bounds

A bound is a constant that cuts a counter the code does not cut: `MaxSeq`,
`MaxCrash`, `MaxMem`, `MaxCheck`, `MaxSend`, `MaxStart`, `MaxCalls`, `MaxDeaths`, `MaxFeed`,
`MaxGeneration`, `MaxChanges`, `MaxFaults`, `MaxRestarts`.

- Three rows and five sequence numbers give two flushes, a merge, a third flush
  beside it or after a restart, and a second merge that meets what the crash left
  behind; the flush of the opaque row, which writes no rows, may be any of the three.
  With file errors four suffice for a failed merge and a flush after it.
- A channel of one, a MemTable of two and four rows in two buckets give MemTables that
  are full, partly filled and empty at `close`, and make `flush_all` wait for room.
  Four rows freeze at most two MemTables, so `try_send` meets a full channel in one way
  only: the second is frozen by the last row before the worker has received the first.
  What follows a dropped request is left to the theorem (`NoRowVanishes`), which has no
  such bound. `MaxMem` of 6 is not reached by four rows.
- A buffer of four units against entries of three spills at every place of an
  entry. Four entries leave some before and some behind a checkpoint.
- Three registrations among three nodes let one crash, expire and come back before
  or after its lease has gone. Two observed views are enough for agreement; with
  all three the safety properties also held (2,356,044 states).
- `IngestPipeline` sends each batch at most twice, so that a retry meets its own
  first copy in the channel.

- Four calls of two writers against a queue of two and one dying loop give a full
  queue, a closed one, and the late `Closed` that removes a successor. Replicas do not
  share state, so one is enough. Three entries fill the task's hand and the one place
  for answers, with one left over; a second stream repeats what the first one sent.
  One shard streams two batches and one none, so that a result can be cut after the
  first batch.
- Tables have one batch, several batches of a file, several files, nulls, and every
  word of up to three letters for LIKE. Query texts are all expressions of up to two
  operators and pairs of one-operator ones, all LIKE patterns of up to three
  characters, and a list of predicates, aggregates, orders, limits and malformed
  texts that together take every branch of the evaluator.
- OTLP requests vary one part at a time around a plain item, since the decoders treat
  the parts independently, and nest items two deep to mix resources and scopes.
- Three generations of a cluster object let a spec change under a reconcile and again
  after it. Values of a part are interchangeable, so two are enough.

`CHECK_DEADLOCK FALSE` is set where the system may stop: all rows are written and
the engine closed, all clients answered, all registrations or calls used up. In
`signal_partition`, `wal`, `query`, `otlp` and `operator` deadlock is checked.

### Fairness

- `SignalPartition`: weak fairness of a flush and of a compaction that has begun;
  both run without an await between their steps. Restart, new flushes and the
  compaction timer are not assumed.
- `StorageEngine`: weak fairness of writers, worker and closer; the tokio runtime
  polls every task that can go on. Nobody has to send a batch or call `close`.
- `IngestPipeline`: weak fairness of receiving and of finishing a write, for the
  same reason, and of the process exit once `close` was called, from `CloseReturns`.
  Nothing is assumed of clients or of answers.
- `Membership`: etcd expires the lease of a node that is down, and a watch that
  stays open delivers. Restarts, joins and watches are not assumed.
- `DataPlane`: weak fairness of calls, stream tasks and `execute`, which tokio polls; of
  a peer that reads its answers; and of shards that go on. Fairness of the send loops
  is assumed for the draining of queues and for nothing else, so that a call is
  shown to return without it. Failures, breaks and panics are never assumed.
- `Operator`: weak fairness of the watch, of the steps of a reconcile that is due (both
  results of it requeue) and of the StatefulSet controller. No edit, fault or restart
  is assumed.

## 4. Proofs

All theorems hold for every value of the constants under the `ASSUME` of the module,
which states little more than types; TLC evaluates it in each run. The type
invariants, the bounds of the channels among them, are proved and are not repeated in
the runs; those of `DataPlane`, `Query` and `OtlpExport`, which have no such proof, held
when TLC checked them on the instances above. The inductive invariants the proofs rest on
also hold on these instances when TLC checks them there (the quantifiers over `Nat` in
those of `DataPlane` cut to `0..6`).

**SignalPartitionProofs**: `TypeCorrect`, `Durability` (`DurableRows`), `NoOverwrite`
(`NeverOverwritten`) and `Refinement` (`ImplementsRowStore`). `DurableRows` alone is
not inductive: a deletion step keeps it only because the merged file is complete by
then and holds the rows of the inputs. `DurableInv` adds that a process that is
down has no tasks (`DownIsEmpty`), who owns which sequence number and that all in use
lie below the counter (`SeqOwners`), how far the files of a flush or merge are at
each program counter (`FilesInStep`), that the rows of a merge are those of its
inputs but for the skipped ones (`MergeAccounts`), and that a row is flushed once
(`FreshRows`). There is one lemma per action. `Refinement` maps `stored` to the
recoverable rows; a flush becomes `Persist` at the last byte of its zonemap, a
deletion becomes `Drop` of skipped rows or a stutter.

In the same module `RegistryIsExact`, `RegistryIsSettled` and `QueriesAreComplete` follow from
`RegistryInv`, which says of the files that are registered or being merged
(`LiveFiles`) that they are complete and disjoint until a crash, hold all persisted
rows, and that a query's rows and remaining paths together hold what it wants.

**StorageEngineProofs**: `TypeCorrect`, with the bound of the flush channel, and
`LoggedFirst` (`WalFirst`), for any number of writers. The strengthening says that a
writer past the WAL has its record in the log of its bucket, and that worker and
closer hold real MemTables. `NoRowVanishes` (`Accounted`) and `FlushedAtMostOnce`
(`AtMostOnce`) are about one writer and a `close` between batches (`Solo`), the
condition the properties have too. They rest on custody (`EngineInv`, proved as
`CustodyAlways`): a MemTable is in one place, which is the map, the hand of the writer,
the channel, the hand of `close` or the flush worker (`Apart`); a row is in one MemTable
(`OneHome`); a row of a MemTable that is in none of these places was written, dropped,
failed or not decodable (`Tracked`); and a row that was written is in no MemTable that
will be flushed again (`FlushedOnce`). The writer may only insert into a MemTable that
is in the map (`InMap`), which is what a second writer or a `close` within a batch
breaks. Each action moves at most one MemTable and has its own lemma.

**WalProofs**: `TypeCorrect`, `RecoversExactly` (`RecoverExact`) and `InventsNothing`
(`NothingInvented`), for any entries, length of the data, capacity of the buffer,
checkpoints, crashes and failing writes. The argument is about the log as the
writers' handle sees it, the file with the buffer behind it (`Log`), because
`write_all` only moves the border between the two: `WriteAllLog` shows for all four
ways it can go that the log grows at its end. `LogInv` says of any log, torn or not,
that no unit but a checkpoint occurs twice, that an entry has its last unit only if it
was appended, and that these units are in the order of the appends. `Form` says of one that is
not torn that each unit follows from the one before it. A checkpoint falls
between file and buffer, in the middle of the log, and so moves what is behind it.
For `recover`, `ReadInv` says that what it has ends in what it read, in
the same order, and `ReadExact` that on an untorn log it is in the place of an
entry where the file is and has all the whole ones. Both are kept while the
file grows behind the reader (`ReadGrown`).

**IngestPipelineProofs**: `TypeCorrect`, with the bound of the ingest channel, and
`FirstInFirstOut` (`HandledInOrder`), which is inductive with the types; the
work is in the lemmas on concatenation. `StoredOncePerAnswer` (`OncePerAnswer`) counts: a
batch is stored no more often than handled and handled no more often than accepted
(`Counted`, which holds after a panic too, when the order is lost with the channel), and
accepted as often as its client was told 200, is about to be told, or missed it
(`Answers`). The lemmas say how a batch at the end of a sequence changes the count.

**MembershipProofs**: `TypeCorrect`, `ListAndRingAgree` (`RingMatches`) and
`WatchedViewExact` (`ViewExact`). `RingMatches` needs the assumption that two nodes do
not share a ring position. `ViewExact` is strengthened by `StreamIdle` (only
watching nodes have events on their way) and `LoadedExact` (a view that was loaded
and is not watched yet is exact outside the gap). From these follow
`NoTwoPrimaries` (`OnePrimary`): nodes that are caught up have the same members, hence the
same ring; and `KeysMoveMinimally` (`MinimalMoves`), from `PrimaryFirst`, which
says that `primary_for` gives the owner of the first occupied position from the key on.

**ReplicationProofs**: `OneLoopPerReplica` (`OneLoop`), `EntriesOnce` (`EachOnce`) and
`CallsInOrder` (`CallOrder`), for any nodes, writers, calls and bounds, of the engine
alone (`ReplSpec`). `OneLoop` needs to know that senders in the map and in the hands of
calls belong to channels that exist (`SendersKnown`, `HeldKnown`). For the other two an
entry has one place for each replica: it waits once in one queue (`WaitsOnce`), was taken
once (`TookOnce`), or is lost, and no two of these (`Apart`); an entry that is in none
belongs to a call that has this replica still to do. Order needs `OneLoop`: as long as
there is one queue, what was taken and what waits, one behind the other, are in the
order of the calls.

**DataPlaneProofs**: `GatheredWholeOrNamed` (`WholeOrNamed`), `AnsweredOrder`
(`AnsweredInOrder`) and `AcceptedWritten` (`AcceptedIsStored`), for any targets, streams, batches and
bounds, and `EngineWithin`: a behaviour of the composition is, for the engine, one
of `ReplSpec`, so that the theorems of `ReplicationProofs` hold in it. `WholeOrNamed` speaks of
the end of a query only; `GatherInv` says at every step which batches a task holds,
that the result so far is that of the joined tasks, and that a query is done when all
its tasks are joined. For a stream, `Row` lines up what the peer sent, what waits, the
entry in hand, what each application wrote and the answers on their way and read
(`ToApply`, `Wrote`, `OnOpen`, `Got`); `AnswerInv` says so of every stream.

**OperatorProofs**: `TypeCorrect`, `StatusIsTrue` (`StatusTrue`) and `ConfigGoesFirst`
(`ConfigFirst`). The inductive invariant `IInv` orders the generations: a reconcile's copy
is never newer than the object, and equal generations mean equal specs (`Versions`);
nothing was applied from a later generation than the copy's (`Past`); the StatefulSet
is never newer than the ConfigMap (`Order`). At each step of a reconcile the children
before it are as its spec asks unless others changed them (`Progress`), and the status
is true of the copy (`Truth`).

Only model-checked: the liveness properties (`VisibleAgain`, `CloseReturns`,
`DrainsAfterClose`, `AcceptedHandled`, `DownLeaves`, `Progress`, `Converges`), which the prover does
not handle; and what folds and recursion over sequences compute, which it has no
induction for: `RouteExact`, whose replicas are a fold over the ring (that the primary is
the first node from the key on is proved), and the properties of the query and OTLP modules, whose
operators are recursive.

## 5. Not modelled

- The lexer: a scan over characters without state between queries. Queries enter the
  model as tokens.
- `to_physical`, `pick_join_strategy` and the cost estimates: the executor does not read
  what they record.
- `query_shard`, `sync_shard` and `get_node_info`: they answer with an empty message or
  constants. The gRPC call of the send loop: not written yet.
- `ack_count` and `min_ack_replicas`, which feed one debug line.
- Bloom filters (never read back). Nothing in the server calls `update_stats`; `Query`
  models what it and pruning do once something does.
- Replay at start-up: the code has none.
- Deletion of a cluster object: the operator has no finalizer and sets no owner
  references, so nothing of it runs then. Two operators at once: there is no leader
  election.
- API gateway (its query execution is a stub), LLM copilot, generated protocol code,
  the vendored etcd client, deployment files, load tests.

## 6. Plan

1. A composition of `IngestPipeline` and `StorageEngine`: what a 200 means for the row
   in the end.
2. Proofs: the type invariant of `DataPlane`, and `RouteExact` once `replica_nodes` is stated
   without a fold.
3. When the send loop and `query_shard` are written: the two ends of `DataPlane` joined,
   with retries and the sequence numbers that the replica does not look at yet.
