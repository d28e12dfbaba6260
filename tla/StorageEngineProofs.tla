------------------------ MODULE StorageEngineProofs ------------------------
(***************************************************************************)
(* "WAL write first" for every number of writers, partitions and records,  *)
(* every queue capacity and every MemTable limit.  The invariant needs, in *)
(* addition to WalFirst, that a writer past Wal::append has its record in  *)
(* the log (InHand): that is what MemInsert relies on.  With one writer,   *)
(* and close between batches, that no row vanishes and none is flushed     *)
(* twice: there the invariant says where each MemTable is (in the map, in  *)
(* a hand, in the queue or with the worker) and that it is there only.     *)
(***************************************************************************)
EXTENDS StorageEngine, TLAPS

Inv == TypeOK /\ WalInv

LEMMA InitInv == Init => Inv
  <1>. SUFFICES ASSUME Init PROVE Inv
    OBVIOUS
  <1>1. TypeOK
    <2>1. queue \in Seq(FlushRequest) /\ Len(queue) <= QueueCap
      BY EngineAssumption DEF Init
    <2>2. writer \in [Writer -> WriterState]
      BY DEF Init, IdleWriter, WriterState
    <2>3. worker \in WorkerState
      BY DEF Init, IdleWorker, WorkerState
    <2>4. closer \in CloserState
      BY DEF Init, CloserState
    <2>5. nextMem \in 1..(MaxMem + 1) /\ copies \in [Row -> Nat]
      BY EngineAssumption DEF Init
    <2>. QED
      BY <2>1, <2>2, <2>3, <2>4, <2>5, Zenon DEF Init, TypeOK
  <1>2. WalInv
    BY DEF Init, WalInv, WalFirst, InHand, WorkerHolds, CloserHolds, Inserted, Stored, IdleWriter,
           IdleWorker
  <1>. QED
    BY <1>1, <1>2 DEF Inv

(* Wal::append only adds to the log: what was in it stays in it, whether   *)
(* it is in the buffer or in the file by now.                              *)
LEMMA AppendKeeps ==
  ASSUME TypeOK, NEW w \in Writer, WalAppend(w), writer[w].row \in Row
  PROVE  Appended \cup {writer[w].row} \subseteq Appended'
  <1>. DEFINE k == KeyOf[writer[w].row]
  <1>1. k \in Key
    BY EngineAssumption
  <1>2. \A x \in Row : x \in walBuf[KeyOf[x]] \cup walFile[KeyOf[x]]
                       => x \in walBuf'[KeyOf[x]] \cup walFile'[KeyOf[x]]
    <2>1. CASE walBuf' = [walBuf EXCEPT ![k] = @ \cup {writer[w].row}] /\ walFile' = walFile
      BY <1>1, <2>1, EngineAssumption DEF TypeOK
    <2>2. CASE /\ walBuf' = [walBuf EXCEPT ![k] = {writer[w].row}]
               /\ walFile' = [walFile EXCEPT ![k] = @ \cup walBuf[k]]
      BY <1>1, <2>2, EngineAssumption DEF TypeOK
    <2>. QED
      BY <2>1, <2>2, Zenon DEF WalAppend
  <1>3. writer[w].row \in walBuf'[k]
    <2>1. walBuf \in [Key -> SUBSET Row]
      BY DEF TypeOK
    <2>2. \/ walBuf' = [walBuf EXCEPT ![k] = @ \cup {writer[w].row}]
          \/ walBuf' = [walBuf EXCEPT ![k] = {writer[w].row}]
      BY DEF WalAppend
    <2>. HIDE DEF k
    <2>. QED
      BY <1>1, <2>1, <2>2
  <1>. QED
    BY <1>2, <1>3 DEF Appended

\* A writer moves on with the record it has, or with another one.
LEMMA WriterMoves ==
  ASSUME writer \in [Writer -> WriterState], NEW w \in Writer,
         NEW p \in {"wal", "insert", "size", "check", "swap", "send"}
  PROVE  /\ [writer EXCEPT ![w].pc = p] \in [Writer -> WriterState]
         /\ \A x \in Row, m \in Mem :
              [writer EXCEPT ![w].pc = p, ![w].row = x, ![w].mem = m] \in [Writer -> WriterState]
  <1>1. [writer[w] EXCEPT !.pc = p] \in WriterState
    BY DEF WriterState
  <1>2. ASSUME NEW x \in Row, NEW m \in Mem
        PROVE  [writer[w] EXCEPT !.pc = p, !.row = x, !.mem = m] \in WriterState
    BY Zenon DEF WriterState
  <1>. QED
    BY <1>1, <1>2, Zenon

(* The writers keep what they hold when the log only grows and the writer  *)
(* that moved holds what InHand asks of it.                                *)
LEMMA HandFrame ==
  ASSUME TypeOK, InHand, NEW w \in Writer, Appended \subseteq Appended',
         \A v \in Writer \ {w} : writer'[v] = writer[v],
         writer'[w].pc \notin {"idle", "next"} => writer'[w].row \in Row /\ writer'[w].mem \in Mem,
         writer'[w].pc \notin {"idle", "next", "wal"} => writer'[w].row \in Appended'
  PROVE  InHand'
  BY DEF InHand

(* WalFirst is about rowsIn, copies and the log only.                      *)
LEMMA LogFrame ==
  ASSUME WalFirst, UNCHANGED <<rowsIn, copies, logs>>
  PROVE  WalFirst' /\ Appended' = Appended
  BY DEF WalFirst, Inserted, Stored, Appended, logs

LEMMA WriteBatchInv ==
  ASSUME Inv, NEW w \in Writer, NEW B \in SUBSET Row, WriteBatch(w, B)
  PROVE  Inv'
  <1>. USE DEF Inv, WalInv, WriteBatch
  <1>0. writer' \in [Writer -> WriterState]
    BY Zenon DEF TypeOK, IdleWriter, WriterState
  <1>1. TypeOK'
    BY <1>0 DEF TypeOK, logs, history
  <1>2. WalFirst' /\ Appended' = Appended
    BY LogFrame
  <1>3. InHand'
    BY <1>2, HandFrame DEF TypeOK, IdleWriter
  <1>4. WorkerHolds' /\ CloserHolds'
    BY DEF WorkerHolds, CloserHolds
  <1>. QED
    BY <1>1, <1>2, <1>3, <1>4

LEMMA GetMemtableInv ==
  ASSUME Inv, NEW w \in Writer, NEW x \in Row, GetMemtable(w, x)
  PROVE  Inv'
  <1>. USE DEF Inv, WalInv
  <1>. DEFINE m == IF memtables[KeyOf[x]] = 0 THEN nextMem ELSE memtables[KeyOf[x]]
  <1>0. /\ m \in Mem /\ KeyOf[x] \in Key
        /\ writer' = [writer EXCEPT ![w].pc = "wal", ![w].row = x, ![w].mem = m]
        /\ memtables' = [memtables EXCEPT ![KeyOf[x]] = m]
        /\ nextMem' = IF memtables[KeyOf[x]] = 0 THEN nextMem + 1 ELSE nextMem
        /\ UNCHANGED <<closed, rowsIn, logs, covered, queue, worker, closer, copies, history>>
    BY EngineAssumption DEF GetMemtable, AfterLookup
  <1>. HIDE DEF m
  <1>1. TypeOK'
    <2>1. writer' \in [Writer -> WriterState]
      BY <1>0, WriterMoves, Zenon DEF TypeOK
    <2>2. memtables' \in [Key -> Mem \cup {0}] /\ nextMem' \in 1..(MaxMem + 1)
      BY <1>0, EngineAssumption DEF TypeOK, m, Mem
    <2>. QED
      BY <1>0, <2>1, <2>2 DEF TypeOK, logs, history
  <1>2. WalFirst' /\ Appended' = Appended
    BY <1>0, LogFrame
  <1>3. InHand'
    BY <1>0, <1>2, HandFrame DEF TypeOK
  <1>4. WorkerHolds' /\ CloserHolds'
    BY <1>0 DEF WorkerHolds, CloserHolds
  <1>. QED
    BY <1>1, <1>2, <1>3, <1>4

LEMMA WalAppendInv ==
  ASSUME Inv, NEW w \in Writer, WalAppend(w)
  PROVE  Inv'
  <1>. USE DEF Inv, WalInv
  <1>0. writer[w].row \in Row /\ writer[w].mem \in Mem /\ KeyOf[writer[w].row] \in Key
    BY EngineAssumption DEF InHand, WalAppend
  <1>1. TypeOK'
    <2>1. writer' \in [Writer -> WriterState]
      BY WriterMoves, Zenon DEF WalAppend, TypeOK
    <2>2. walBuf' \in [Key -> SUBSET Row] /\ walFile' \in [Key -> SUBSET Row]
      <3>. DEFINE k == KeyOf[writer[w].row]
      <3>1. walBuf[k] \in SUBSET Row /\ walFile[k] \in SUBSET Row
        BY <1>0 DEF TypeOK
      <3>2. CASE walBuf' = [walBuf EXCEPT ![k] = @ \cup {writer[w].row}] /\ walFile' = walFile
        BY <1>0, <3>1, <3>2 DEF TypeOK
      <3>3. CASE /\ walBuf' = [walBuf EXCEPT ![k] = {writer[w].row}]
                 /\ walFile' = [walFile EXCEPT ![k] = @ \cup walBuf[k]]
        BY <1>0, <3>1, <3>3 DEF TypeOK
      <3>. QED
        BY <3>2, <3>3, Zenon DEF WalAppend
    <2>. QED
      BY <2>1, <2>2 DEF WalAppend, TypeOK, history
  <1>2. Appended \cup {writer[w].row} \subseteq Appended'
    BY <1>0, AppendKeeps
  <1>3. WalFirst'
    BY <1>2 DEF WalFirst, Inserted, Stored, WalAppend
  <1>4. InHand'
    BY <1>0, <1>2, HandFrame DEF TypeOK, WalAppend
  <1>5. WorkerHolds' /\ CloserHolds'
    BY DEF WorkerHolds, CloserHolds, WalAppend
  <1>. QED
    BY <1>1, <1>3, <1>4, <1>5

LEMMA WalAppendFailInv ==
  ASSUME Inv, NEW w \in Writer, WalAppendFail(w)
  PROVE  Inv'
  <1>. USE DEF Inv, WalInv, WalAppendFail
  <1>0. writer' \in [Writer -> WriterState]
    BY DEF TypeOK, IdleWriter, WriterState
  <1>1. TypeOK'
    BY <1>0 DEF TypeOK, logs, history
  <1>2. WalFirst' /\ Appended' = Appended
    BY LogFrame
  <1>3. InHand'
    BY <1>2, HandFrame DEF TypeOK, IdleWriter
  <1>4. WorkerHolds' /\ CloserHolds'
    BY DEF WorkerHolds, CloserHolds
  <1>. QED
    BY <1>1, <1>2, <1>3, <1>4

LEMMA MemInsertInv ==
  ASSUME Inv, NEW w \in Writer, MemInsert(w)
  PROVE  Inv'
  <1>. USE DEF Inv, WalInv
  <1>0. writer[w].row \in Row /\ writer[w].mem \in Mem /\ writer[w].row \in Appended
    BY DEF InHand, MemInsert
  <1>1. TypeOK'
    <2>1. writer' \in [Writer -> WriterState]
      BY WriterMoves, Zenon DEF MemInsert, TypeOK
    <2>. QED
      BY <1>0, <2>1 DEF MemInsert, TypeOK, logs, history
  <1>2. Appended' = Appended
    BY DEF MemInsert, Appended, logs
  <1>3. Inserted' \subseteq Inserted \cup {writer[w].row} /\ Stored' = Stored
    BY <1>0 DEF MemInsert, TypeOK, Inserted, Stored
  <1>4. WalFirst'
    BY <1>0, <1>2, <1>3 DEF WalFirst
  <1>5. InHand'
    BY <1>0, <1>2, HandFrame DEF TypeOK, MemInsert
  <1>6. WorkerHolds' /\ CloserHolds'
    BY DEF WorkerHolds, CloserHolds, MemInsert
  <1>. QED
    BY <1>1, <1>4, <1>5, <1>6

LEMMA AddSizeInv ==
  ASSUME Inv, NEW w \in Writer, AddSize(w)
  PROVE  Inv'
  <1>. USE DEF Inv, WalInv
  <1>0. writer' \in [Writer -> WriterState]
    BY WriterMoves, Zenon DEF AddSize, TypeOK
  <1>1. TypeOK'
    BY <1>0 DEF AddSize, TypeOK, logs, history
  <1>2. WalFirst' /\ Appended' = Appended
    BY LogFrame DEF AddSize
  <1>3. InHand'
    BY <1>2, HandFrame DEF AddSize, TypeOK, InHand
  <1>4. WorkerHolds' /\ CloserHolds'
    BY DEF AddSize, WorkerHolds, CloserHolds
  <1>. QED
    BY <1>1, <1>2, <1>3, <1>4

(* RecordDone leaves the writer idle or between two records.               *)
LEMMA RecordDoneTypes ==
  ASSUME TypeOK, NEW w \in Writer, RecordDone(w)
  PROVE  /\ writer' \in [Writer -> WriterState]
         /\ acked' \in SUBSET Row
         /\ writer'[w].pc \in {"idle", "next"}
         /\ \A v \in Writer \ {w} : writer'[v] = writer[v]
  <1>. DEFINE rest == writer[w].todo \ {writer[w].row}
  <1>0. writer[w] \in WriterState /\ acked \in SUBSET Row
    BY DEF TypeOK
  <1>1. CASE rest = {}
    <2>1. writer' = [writer EXCEPT ![w] = IdleWriter] /\ acked' = acked \cup writer[w].batch
      BY <1>1 DEF RecordDone
    <2>2. IdleWriter \in WriterState /\ IdleWriter.pc = "idle"
      BY DEF IdleWriter, WriterState
    <2>3. writer[w].batch \in SUBSET Row
      BY <1>0 DEF WriterState
    <2>. QED
      BY <1>0, <2>1, <2>2, <2>3 DEF TypeOK
  <1>2. CASE rest # {}
    <2>. DEFINE r == [writer[w] EXCEPT !.pc = "next", !.todo = rest, !.row = None, !.mem = 0]
    <2>1. writer' = [writer EXCEPT ![w] = r] /\ acked' = acked
      BY <1>0, <1>2, Zenon DEF RecordDone, TypeOK, WriterState
    <2>2. r \in WriterState /\ r.pc = "next"
      BY <1>0, Zenon DEF WriterState
    <2>. HIDE DEF r
    <2>. QED
      BY <1>0, <2>1, <2>2 DEF TypeOK
  <1>. QED
    BY <1>1, <1>2

LEMMA CheckNotFullInv ==
  ASSUME Inv, NEW w \in Writer, CheckNotFull(w)
  PROVE  Inv'
  <1>. USE DEF Inv, WalInv
  <1>0. /\ writer' \in [Writer -> WriterState]
        /\ acked' \in SUBSET Row
        /\ writer'[w].pc \in {"idle", "next"}
        /\ \A v \in Writer \ {w} : writer'[v] = writer[v]
    BY RecordDoneTypes DEF CheckNotFull
  <1>1. TypeOK'
    BY <1>0 DEF CheckNotFull, TypeOK, logs
  <1>2. WalFirst' /\ Appended' = Appended
    BY LogFrame DEF CheckNotFull
  <1>3. InHand'
    BY <1>0, <1>2, HandFrame
  <1>4. WorkerHolds' /\ CloserHolds'
    BY DEF CheckNotFull, WorkerHolds, CloserHolds
  <1>. QED
    BY <1>1, <1>2, <1>3, <1>4

LEMMA CheckFullInv ==
  ASSUME Inv, NEW w \in Writer, CheckFull(w)
  PROVE  Inv'
  <1>. USE DEF Inv, WalInv
  <1>0. writer' \in [Writer -> WriterState]
    BY WriterMoves, Zenon DEF CheckFull, TypeOK
  <1>1. TypeOK'
    BY <1>0 DEF CheckFull, TypeOK, logs, history
  <1>2. WalFirst' /\ Appended' = Appended
    BY LogFrame DEF CheckFull
  <1>3. InHand'
    BY <1>2, HandFrame DEF CheckFull, TypeOK, InHand
  <1>4. WorkerHolds' /\ CloserHolds'
    BY DEF CheckFull, WorkerHolds, CloserHolds
  <1>. QED
    BY <1>1, <1>2, <1>3, <1>4

LEMMA SwapFreshInv ==
  ASSUME Inv, NEW w \in Writer, SwapFresh(w)
  PROVE  Inv'
  <1>. USE DEF Inv, WalInv
  <1>0. writer' \in [Writer -> WriterState]
    BY WriterMoves, Zenon DEF SwapFresh, TypeOK
  <1>1. memtables' \in [Key -> Mem \cup {0}] /\ nextMem' \in 1..(MaxMem + 1)
    <2>1. KeyOf[writer[w].row] \in Key
      BY EngineAssumption DEF SwapFresh, InHand
    <2>2. /\ nextMem \in Mem /\ nextMem' = nextMem + 1
          /\ memtables' = [memtables EXCEPT ![KeyOf[writer[w].row]] = nextMem]
      BY DEF SwapFresh, Swapped
    <2>3. nextMem' \in 1..(MaxMem + 1)
      BY <2>2, EngineAssumption DEF Mem
    <2>. QED
      BY <2>1, <2>2, <2>3 DEF TypeOK
  <1>2. TypeOK'
    BY <1>0, <1>1 DEF SwapFresh, TypeOK, logs, history
  <1>3. WalFirst' /\ Appended' = Appended
    BY LogFrame DEF SwapFresh
  <1>4. InHand'
    BY <1>3, HandFrame DEF SwapFresh, TypeOK, InHand
  <1>5. WorkerHolds' /\ CloserHolds'
    BY DEF SwapFresh, WorkerHolds, CloserHolds
  <1>. QED
    BY <1>2, <1>3, <1>4, <1>5

LEMMA TrySendInv ==
  ASSUME Inv, NEW w \in Writer, TrySend(w)
  PROVE  Inv'
  <1>. USE DEF Inv, WalInv
  <1>0. /\ writer' \in [Writer -> WriterState]
        /\ acked' \in SUBSET Row
        /\ writer'[w].pc \in {"idle", "next"}
        /\ \A v \in Writer \ {w} : writer'[v] = writer[v]
    BY RecordDoneTypes DEF TrySend
  <1>1. writer[w].mem \in Mem /\ KeyOf[writer[w].row] \in Key
    BY EngineAssumption DEF TrySend, InHand
  <1>2. queue' \in Seq(FlushRequest) /\ Len(queue') <= QueueCap /\ dropped' \in SUBSET Row
    <2>1. [mem |-> writer[w].mem, key |-> KeyOf[writer[w].row]] \in FlushRequest
      BY <1>1 DEF FlushRequest
    <2>2. rowsIn[writer[w].mem] \in SUBSET Row
      BY <1>1 DEF TypeOK
    <2>3. queue \in Seq(FlushRequest) /\ Len(queue) \in Nat /\ Len(queue) <= QueueCap
      BY DEF TypeOK
    <2>4. CASE HasRoom
      <3>. DEFINE req == [mem |-> writer[w].mem, key |-> KeyOf[writer[w].row]]
      <3>1. queue' = Append(queue, req) /\ dropped' = dropped
        BY <2>4 DEF TrySend
      <3>2. req \in FlushRequest
        BY <2>1
      <3>. HIDE DEF req
      <3>3. Append(queue, req) \in Seq(FlushRequest) /\ Len(Append(queue, req)) = Len(queue) + 1
        BY <2>3, <3>2
      <3>. QED
        BY <2>3, <2>4, <3>1, <3>3, EngineAssumption DEF HasRoom, TypeOK
    <2>5. CASE ~HasRoom
      BY <2>2, <2>3, <2>5 DEF TrySend, TypeOK
    <2>. QED
      BY <2>4, <2>5
  <1>3. TypeOK'
    BY <1>0, <1>2 DEF TrySend, TypeOK, logs
  <1>4. WalFirst' /\ Appended' = Appended
    BY LogFrame, Zenon DEF TrySend
  <1>5. InHand'
    BY <1>0, <1>4, HandFrame
  <1>6. WorkerHolds' /\ CloserHolds'
    BY Zenon DEF TrySend, WorkerHolds, CloserHolds
  <1>. QED
    BY <1>3, <1>4, <1>5, <1>6

LEMMA ReceiveInv ==
  ASSUME Inv, Receive
  PROVE  Inv'
  <1>. USE DEF Inv, WalInv
  <1>0. /\ Head(queue) \in FlushRequest
        /\ queue' \in Seq(FlushRequest) /\ Len(queue') <= QueueCap
    BY EngineAssumption DEF Receive, TypeOK
  <1>1. worker' \in WorkerState /\ WorkerHolds'
    BY <1>0, Zenon DEF Receive, FlushRequest, WorkerState, WorkerHolds, Signal
  <1>2. TypeOK'
    BY <1>0, <1>1 DEF Receive, TypeOK, logs, history
  <1>3. WalFirst' /\ Appended' = Appended
    BY LogFrame DEF Receive
  <1>4. InHand' /\ CloserHolds'
    BY <1>3 DEF Receive, InHand, CloserHolds
  <1>. QED
    BY <1>1, <1>2, <1>3, <1>4

LEMMA FlushSignalInv ==
  ASSUME Inv, FlushSignal
  PROVE  Inv'
  <1>. USE DEF Inv, WalInv
  <1>0. worker.mem \in Mem /\ worker.key \in Key
    BY DEF FlushSignal, WorkerHolds, Signal
  <1>1. worker' \in WorkerState /\ WorkerHolds'
    BY <1>0 DEF FlushSignal, TypeOK, WorkerState, WorkerHolds, NextPc, Signal
  <1>2. copies' \in [Row -> Nat]
    BY DEF FlushSignal, TypeOK
  <1>3. TypeOK'
    <2>1. undecoded' \in SUBSET Row
      BY <1>0 DEF FlushSignal, TypeOK, ToFlush
    <2>. QED
      BY <1>1, <1>2, <2>1 DEF FlushSignal, TypeOK, logs
  <1>4. Appended' = Appended /\ Inserted' = Inserted
    BY DEF FlushSignal, Appended, Inserted, logs
  <1>5. Stored' \subseteq Stored \cup Inserted
    BY <1>0 DEF FlushSignal, Stored, Inserted, ToFlush, TypeOK
  <1>6. WalFirst'
    BY <1>4, <1>5 DEF WalFirst
  <1>7. InHand' /\ CloserHolds'
    BY <1>4 DEF FlushSignal, InHand, CloserHolds
  <1>. QED
    BY <1>1, <1>3, <1>6, <1>7

LEMMA FlushErrorInv ==
  ASSUME Inv, FlushError
  PROVE  Inv'
  <1>. USE DEF Inv, WalInv
  <1>0. worker.mem \in Mem
    BY DEF FlushError, WorkerHolds, Signal
  <1>1. worker' \in WorkerState /\ WorkerHolds'
    BY DEF FlushError, WorkerState, WorkerHolds, IdleWorker
  <1>2. failed' \in SUBSET Row
    BY <1>0 DEF FlushError, TypeOK
  <1>3. TypeOK'
    BY <1>1, <1>2 DEF FlushError, TypeOK, logs
  <1>4. WalFirst' /\ Appended' = Appended
    BY LogFrame DEF FlushError
  <1>5. InHand' /\ CloserHolds'
    BY <1>4 DEF FlushError, InHand, CloserHolds
  <1>. QED
    BY <1>1, <1>3, <1>4, <1>5

LEMMA CheckpointInv ==
  ASSUME Inv, Checkpoint
  PROVE  Inv'
  <1>. USE DEF Inv, WalInv
  <1>0. worker.key \in Key
    BY DEF Checkpoint, WorkerHolds
  <1>1. worker' \in WorkerState /\ WorkerHolds'
    BY DEF Checkpoint, WorkerState, WorkerHolds, IdleWorker
  <1>2. covered' \in SUBSET Row
    BY <1>0 DEF Checkpoint, TypeOK
  <1>3. TypeOK'
    BY <1>1, <1>2 DEF Checkpoint, TypeOK, logs, history
  <1>4. WalFirst' /\ Appended' = Appended
    BY LogFrame DEF Checkpoint
  <1>5. InHand' /\ CloserHolds'
    BY <1>4 DEF Checkpoint, InHand, CloserHolds
  <1>. QED
    BY <1>1, <1>3, <1>4, <1>5

LEMMA CloserInv ==
  ASSUME Inv, CloseBegin \/ FlushAllKeys \/ FlushAllDone \/ CloseReturn
  PROVE  Inv'
  <1>. USE DEF Inv, WalInv
  <1>1. closer' \in CloserState /\ CloserHolds'
    <2>1. closer \in CloserState
      BY DEF TypeOK
    <2>2. CASE FlushAllKeys
      BY <2>1, <2>2, Zenon DEF FlushAllKeys, CloserState, CloserHolds
    <2>3. CASE CloseBegin \/ FlushAllDone \/ CloseReturn
      <3>1. \E q \in {"keys", "sleep", "returned"} : closer' = [closer EXCEPT !.pc = q]
        BY <2>3, Zenon DEF CloseBegin, FlushAllDone, CloseReturn
      <3> QED BY <2>1, <3>1 DEF CloserState, CloserHolds
    <2> QED BY <2>2, <2>3
  <1>2. closed' \in BOOLEAN /\ calm' \in BOOLEAN
    BY Zenon DEF CloseBegin, FlushAllKeys, FlushAllDone, CloseReturn, TypeOK, history
  <1>3. /\ UNCHANGED <<memtables, rowsIn, nextMem, logs, covered, queue, writer, worker, copies>>
        /\ UNCHANGED <<acked, dropped, failed, undecoded>>
    BY Zenon DEF CloseBegin, FlushAllKeys, FlushAllDone, CloseReturn, history
  <1>4. TypeOK'
    BY <1>1, <1>2, <1>3 DEF TypeOK, logs
  <1>5. WalFirst' /\ Appended' = Appended
    BY <1>3, LogFrame
  <1>6. InHand' /\ WorkerHolds'
    BY <1>3, <1>5 DEF InHand, WorkerHolds
  <1>. QED
    BY <1>1, <1>4, <1>5, <1>6

LEMMA FlushAllRemoveInv ==
  ASSUME Inv, NEW k \in Key, FlushAllRemove(k)
  PROVE  Inv'
  <1>. USE DEF Inv, WalInv
  <1>1. closer' \in CloserState /\ CloserHolds'
    <2>. DEFINE m == memtables[k]
    <2>1. m \in Mem \cup {0} /\ closer \in CloserState
      BY DEF TypeOK
    <2>2. CASE m # 0 /\ WorthFlushing(m)
      BY <2>1, <2>2 DEF FlushAllRemove, CloserState, CloserHolds
    <2>3. CASE ~(m # 0 /\ WorthFlushing(m))
      <3>1. closer' = [closer EXCEPT !.keys = @ \ {k}] /\ closer.pc = "remove"
        BY <2>3 DEF FlushAllRemove
      <3>. QED
        BY <2>1, <3>1 DEF CloserState, CloserHolds
    <2>. QED
      BY <2>2, <2>3
  <1>2. memtables' \in [Key -> Mem \cup {0}]
    BY DEF FlushAllRemove, TypeOK
  <1>3. TypeOK'
    BY <1>1, <1>2 DEF FlushAllRemove, TypeOK, logs, history
  <1>4. WalFirst' /\ Appended' = Appended
    BY LogFrame DEF FlushAllRemove
  <1>5. InHand' /\ WorkerHolds'
    BY <1>4 DEF FlushAllRemove, InHand, WorkerHolds
  <1>. QED
    BY <1>1, <1>3, <1>4, <1>5

LEMMA FlushAllSendInv ==
  ASSUME Inv, FlushAllSend
  PROVE  Inv'
  <1>. USE DEF Inv, WalInv
  <1>. DEFINE req == [mem |-> closer.mem, key |-> closer.key]
  <1>1. req \in FlushRequest
    BY DEF FlushAllSend, CloserHolds, FlushRequest
  <1>2. queue' = Append(queue, req)
    BY DEF FlushAllSend
  <1>. HIDE DEF req
  <1>3. queue' \in Seq(FlushRequest) /\ Len(queue') <= QueueCap
    BY <1>1, <1>2, EngineAssumption DEF FlushAllSend, HasRoom, TypeOK
  <1>4. closer' \in CloserState /\ CloserHolds'
    BY Zenon DEF FlushAllSend, TypeOK, CloserState, CloserHolds
  <1>5. TypeOK'
    BY <1>3, <1>4 DEF FlushAllSend, TypeOK, logs, history
  <1>6. WalFirst' /\ Appended' = Appended
    BY LogFrame DEF FlushAllSend
  <1>7. InHand' /\ WorkerHolds'
    BY <1>6 DEF FlushAllSend, InHand, WorkerHolds
  <1>. QED
    BY <1>4, <1>5, <1>6, <1>7

LEMMA NextInv == Inv /\ [Next]_vars => Inv'
  <1>. SUFFICES ASSUME Inv, [Next]_vars
                PROVE  Inv'
    OBVIOUS
  <1>1. ASSUME NEW w \in Writer, NEW B \in SUBSET Row, WriteBatch(w, B)
        PROVE  Inv'
    BY <1>1, WriteBatchInv
  <1>2. ASSUME NEW w \in Writer, WriterStep(w)
        PROVE  Inv'
    <2>1. ASSUME NEW x \in writer[w].todo, GetMemtable(w, x)
          PROVE  Inv'
      <3>1. x \in Row
        BY DEF Inv, TypeOK, WriterState
      <3>. QED
        BY <2>1, <3>1, GetMemtableInv
    <2>. QED
      BY <1>2, <2>1, WalAppendInv, WalAppendFailInv, MemInsertInv, AddSizeInv, CheckNotFullInv,
         CheckFullInv, SwapFreshInv, TrySendInv DEF WriterStep
  <1>3. CASE WorkerStep
    BY <1>3, ReceiveInv, FlushSignalInv, FlushErrorInv, CheckpointInv DEF WorkerStep
  <1>4. CASE CloseBegin
    BY <1>4, CloserInv
  <1>5. CASE CloserStep
    <2>1. ASSUME NEW k \in closer.keys, FlushAllRemove(k)
          PROVE  Inv'
      <3>1. k \in Key
        BY DEF Inv, TypeOK, CloserState
      <3>. QED
        BY <2>1, <3>1, FlushAllRemoveInv
    <2>. QED
      BY <1>5, <2>1, CloserInv, FlushAllSendInv DEF CloserStep
  <1>6. CASE UNCHANGED vars
    <2>. USE <1>6 DEF vars
    <2>1. TypeOK'
      BY DEF Inv, TypeOK
    <2>2. WalFirst' /\ Appended' = Appended
      BY LogFrame DEF Inv, WalInv, logs
    <2>3. InHand' /\ WorkerHolds' /\ CloserHolds'
      BY <2>2 DEF Inv, WalInv, InHand, WorkerHolds, CloserHolds
    <2>. QED
      BY <2>1, <2>2, <2>3 DEF Inv, WalInv
  <1>. QED
    BY <1>1, <1>2, <1>3, <1>4, <1>5, <1>6 DEF Next

(* The inductive invariant holds in every reachable state.                 *)
THEOREM InvAlways == Spec => []Inv
  BY InitInv, NextInv, PTL DEF Spec

(* The engine's state keeps its types, and the flush channel never holds   *)
(* more requests than it has room for, however writers and close compete.  *)
THEOREM TypeCorrect == Spec => []TypeOK
  <1>1. Inv => TypeOK
    BY DEF Inv
  <1>. QED
    BY <1>1, InvAlways, PTL

(* "WAL write first" (write_logs, write_metrics, write_spans): no record   *)
(* is in a MemTable or in an SSTable that is not in its partition's WAL,   *)
(* for any number of writers racing with the flush worker and close.       *)
THEOREM LoggedFirst == Spec => []WalFirst
  <1>1. Inv => WalFirst
    BY DEF Inv, WalInv
  <1>. QED
    BY <1>1, InvAlways, PTL
-----------------------------------------------------------------------------
(* The MemTables that are active, frozen in a writer's hand, in the flush  *)
(* channel, in the hand of close, and in the hand of the flush worker.     *)
Active == {m \in Mem : \E k \in Key : memtables[k] = m}
Frozen == {m \in Mem : \E w \in Writer : writer[w].pc = "send" /\ writer[w].mem = m}
Queued == {m \in Mem : \E i \in 1..Len(queue) : queue[i].mem = m}
Closing == {m \in Mem : closer.pc = "send" /\ closer.mem = m}
Flushing == {m \in Mem : worker.pc # "idle" /\ worker.mem = m}
OnTheWay == Active \cup Frozen \cup Queued \cup Closing

(* close finds no writer at work, unless it began in the middle of a batch.*)
Quiet ==
  /\ closed <=> closer.pc # "open"
  /\ closer.pc = "open" => calm
  /\ closed /\ calm => \A w \in Writer : writer[w].pc = "idle"

(* The only writer inserts into the active MemTable, and freezes a full one. *)
InMap ==
  \A w \in Writer : writer[w].pc \in {"wal", "insert", "size", "check", "swap"}
                    => memtables[KeyOf[writer[w].row]] = writer[w].mem
FullInHand ==
  \A w \in Writer : writer[w].pc \in {"swap", "send"} => Cardinality(rowsIn[writer[w].mem]) >= MemCap

(* Every row is in a MemTable on its way, or something is known of it.     *)
Tracked ==
  \A m \in Mem : \A x \in rowsIn[m] :
    \/ m \in OnTheWay
    \/ x \in Stored \cup dropped \cup failed \cup undecoded
    \/ worker.pc \in Signal /\ worker.mem = m /\ SignalOf[x] \in Ahead(worker.pc)

(* A MemTable is in one place.                                             *)
Apart ==
  /\ \A j, k \in Key : memtables[j] = memtables[k] /\ memtables[j] # 0 => j = k
  /\ \A i, j \in 1..Len(queue) : queue[i].mem = queue[j].mem => i = j
  /\ Active \cap (Frozen \cup Queued \cup Closing \cup Flushing) = {}
  /\ Frozen \cap (Queued \cup Closing \cup Flushing) = {}
  /\ Queued \cap (Closing \cup Flushing) = {}
  /\ Closing \cap Flushing = {}
Fresh ==
  \A m \in Mem : m >= nextMem => rowsIn[m] = {} /\ m \notin OnTheWay \cup Flushing

(* A row is in one MemTable, and what is still to be written in none.      *)
OneHome == \A m, n \in Mem : \A x \in rowsIn[m] : x \in rowsIn[n] => m = n
FreshTodo ==
  \A w \in Writer :
    /\ writer[w].pc \notin {"idle", "next"} => writer[w].row \in writer[w].todo
    /\ \A x \in writer[w].todo :
         x \in Inserted => x = writer[w].row /\ writer[w].pc \in {"size", "check", "swap", "send"}

(* A row that was flushed is in a MemTable that will not be flushed again. *)
FlushedOnce ==
  /\ \A x \in Row : copies[x] <= 1 /\ (copies[x] # 0 => x \in Inserted)
  /\ \A m \in Mem : \A x \in rowsIn[m] :
       copies[x] # 0 => /\ m \notin OnTheWay
                        /\ m \in Flushing => SignalOf[x] \notin Ahead(worker.pc)

Custody == InMap /\ FullInHand /\ Tracked
Once == Apart /\ Fresh /\ OneHome /\ FreshTodo /\ FlushedOnce
EngineInv == Inv /\ Quiet /\ (Solo => Custody /\ Once)

(* A step that leaves the map, the channel, close and the flush worker     *)
(* alone, and does not freeze or send, leaves every MemTable in its place. *)
LEMMA PlacesFrame ==
  ASSUME UNCHANGED <<memtables, queue, worker, closer>>, Frozen' = Frozen
  PROVE  /\ Active' = Active /\ Queued' = Queued /\ Closing' = Closing /\ Flushing' = Flushing
         /\ OnTheWay' = OnTheWay
BY DEF Active, Queued, Closing, Flushing, OnTheWay

LEMMA CustodyFrame ==
  ASSUME Custody, Once, UNCHANGED <<memtables, queue, worker, closer, rowsIn, nextMem, copies>>,
         UNCHANGED <<dropped, failed, undecoded>>, Frozen' = Frozen
  PROVE  Tracked' /\ Apart' /\ Fresh' /\ OneHome' /\ FlushedOnce' /\ Inserted' = Inserted
<1>1. /\ Active' = Active /\ Queued' = Queued /\ Closing' = Closing /\ Flushing' = Flushing
      /\ OnTheWay' = OnTheWay
  BY PlacesFrame
<1>2. Stored' = Stored /\ Inserted' = Inserted
  BY DEF Stored, Inserted
<1>3. Tracked'
  BY <1>1, <1>2 DEF Custody, Tracked
<1>4. Apart'
  BY <1>1 DEF Once, Apart
<1>5. Fresh' /\ OneHome'
  BY <1>1 DEF Once, Fresh, OneHome
<1>6. FlushedOnce'
  BY <1>1, <1>2 DEF Once, FlushedOnce
<1> QED BY <1>2, <1>3, <1>4, <1>5, <1>6

(* With one writer nobody else freezes a MemTable.                         *)
LEMMA OneHand ==
  ASSUME NEW w, Writer = {w}, Inv
  PROVE  Frozen = IF writer[w].pc = "send" THEN {writer[w].mem} ELSE {}
<1>1. writer[w].pc = "send" => writer[w].mem \in Mem
  BY DEF Inv, WalInv, InHand
<1> QED BY <1>1 DEF Frozen

LEMMA CustodyInit == Init => EngineInv
<1> SUFFICES ASSUME Init PROVE EngineInv
  OBVIOUS
<1>1. Inv
  BY InitInv
<1>2. Quiet
  BY DEF Init, Quiet, IdleWriter
<1>3. Custody
  BY DEF Init, Custody, InMap, FullInHand, Tracked, IdleWriter
<1>4. \A m \in Mem : m # 0
  BY DEF Mem
<1>5. Active = {} /\ Frozen = {} /\ Queued = {} /\ Closing = {} /\ Flushing = {}
  BY <1>4 DEF Init, Active, Frozen, Queued, Closing, Flushing, IdleWriter, IdleWorker
<1>6. Apart
  BY <1>5 DEF Apart, Init
<1>7. Fresh /\ OneHome
  BY <1>5 DEF Fresh, OneHome, OnTheWay, Init
<1>8. FreshTodo /\ FlushedOnce
  BY DEF FreshTodo, FlushedOnce, Init, IdleWriter
<1> QED BY <1>1, <1>2, <1>3, <1>6, <1>7, <1>8 DEF EngineInv, Once

LEMMA QuietNext == Inv /\ Quiet /\ [Next]_vars => Quiet' /\ (calm' => calm)
<1> SUFFICES ASSUME Inv, Quiet, [Next]_vars PROVE Quiet' /\ (calm' => calm)
  OBVIOUS
<1>1. CASE UNCHANGED vars \/ WorkerStep
  BY <1>1 DEF Quiet, vars, WorkerStep, Receive, FlushSignal, FlushError, Checkpoint, history
<1>2. ASSUME NEW w \in Writer, NEW B \in SUBSET Row, WriteBatch(w, B)
      PROVE  Quiet' /\ (calm' => calm)
  BY <1>2 DEF Quiet, WriteBatch, history
<1>3. ASSUME NEW w \in Writer, WriterStep(w)
      PROVE  Quiet' /\ (calm' => calm)
  <2>1. UNCHANGED <<closed, closer, calm>>
    BY <1>3, Zenon DEF WriterStep, GetMemtable, WalAppend, WalAppendFail, MemInsert, AddSize, CheckNotFull,
                CheckFull, SwapFresh, TrySend, history
  <2>2. writer[w].pc # "idle"
    BY <1>3, Zenon DEF WriterStep, GetMemtable, WalAppend, WalAppendFail, MemInsert, AddSize, CheckNotFull,
                CheckFull, SwapFresh, TrySend
  <2> QED BY <2>1, <2>2 DEF Quiet
<1>4. CASE CloseBegin
  BY <1>4 DEF Quiet, CloseBegin, Inv, TypeOK, CloserState
<1>5. CASE CloserStep
  <2>0. closer \in CloserState
    BY DEF Inv, TypeOK
  <2>1. UNCHANGED <<closed, calm, writer>> /\ closer.pc # "open" /\ closer'.pc # "open"
    <3>1. CASE FlushAllKeys \/ FlushAllSend \/ FlushAllDone \/ CloseReturn
      BY <2>0, <3>1, Zenon DEF FlushAllKeys, FlushAllSend, FlushAllDone, CloseReturn, history, CloserState
    <3>2. ASSUME NEW k \in closer.keys, FlushAllRemove(k)
          PROVE  UNCHANGED <<closed, calm, writer>> /\ closer.pc # "open" /\ closer'.pc # "open"
      <4>1. closer'.pc \in {"send", "remove"} /\ closer.pc = "remove"
        BY <2>0, <3>2 DEF FlushAllRemove, CloserState
      <4> QED BY <3>2, <4>1 DEF FlushAllRemove, history
    <3> QED BY <1>5, <3>1, <3>2 DEF CloserStep
  <2> QED BY <2>1 DEF Quiet
<1> QED BY <1>1, <1>2, <1>3, <1>4, <1>5 DEF Next

(* A record that is done is no longer to do.                               *)
LEMMA RecordDoneTodo ==
  ASSUME TypeOK, NEW w \in Writer, RecordDone(w)
  PROVE  /\ writer'[w].pc \in {"idle", "next"}
         /\ writer'[w].todo \subseteq writer[w].todo \ {writer[w].row}
<1> DEFINE rest == writer[w].todo \ {writer[w].row}
<1>0. writer[w] \in WriterState /\ writer \in [Writer -> WriterState]
  BY DEF TypeOK
<1>1. writer'[w].pc \in {"idle", "next"}
  BY RecordDoneTypes
<1>2. CASE rest = {}
  <2>1. writer' = [writer EXCEPT ![w] = IdleWriter]
    BY <1>2 DEF RecordDone
  <2>2. writer'[w].todo = {}
    BY <1>0, <2>1 DEF IdleWriter
  <2> QED BY <1>1, <2>2
<1>3. CASE rest # {}
  <2> DEFINE r == [writer[w] EXCEPT !.pc = "next", !.todo = rest, !.row = None, !.mem = 0]
  <2>1. writer' = [writer EXCEPT ![w] = r]
    BY <1>0, <1>3, Zenon DEF RecordDone, WriterState
  <2>2. r.todo = rest
    BY <1>0 DEF WriterState
  <2> HIDE DEF r
  <2>3. writer'[w].todo = rest
    BY <1>0, <2>1, <2>2
  <2> QED BY <1>1, <2>3
<1> QED BY <1>2, <1>3

(* What a step of the writer has to keep when the MemTables and their      *)
(* places stay as they are.                                                *)
LEMMA HandOnly ==
  ASSUME Inv, Custody, Once, NEW w, Writer = {w},
         UNCHANGED <<memtables, queue, worker, closer, rowsIn, nextMem, copies>>,
         UNCHANGED <<dropped, failed, undecoded>>,
         writer[w].pc # "send", writer'[w].pc # "send",
         writer'[w].pc \in {"wal", "insert", "size", "check", "swap"}
           => memtables[KeyOf[writer'[w].row]] = writer'[w].mem,
         writer'[w].pc = "swap" => Cardinality(rowsIn[writer'[w].mem]) >= MemCap,
         writer'[w].pc \notin {"idle", "next"} => writer'[w].row \in writer'[w].todo,
         \A x \in writer'[w].todo :
           x \in Inserted => x = writer'[w].row /\ writer'[w].pc \in {"size", "check", "swap", "send"}
  PROVE  Custody' /\ Once'
<1>1. Frozen' = {} /\ Frozen = {}
  BY DEF Frozen
<1>2. Tracked' /\ Apart' /\ Fresh' /\ OneHome' /\ FlushedOnce' /\ Inserted' = Inserted
  BY <1>1, CustodyFrame
<1>3. InMap'
  BY DEF InMap
<1>4. FullInHand'
  BY DEF FullInHand
<1>5. FreshTodo'
  BY <1>2 DEF FreshTodo
<1> QED BY <1>2, <1>3, <1>4, <1>5 DEF Custody, Once

LEMMA HandSteps ==
  ASSUME Inv, Custody, Once, NEW w, Writer = {w},
         \/ \E B \in SUBSET Row : WriteBatch(w, B)
         \/ WalAppend(w) \/ WalAppendFail(w) \/ AddSize(w) \/ CheckNotFull(w) \/ CheckFull(w)
  PROVE  Custody' /\ Once'
<1>0. /\ writer \in [Writer -> WriterState] /\ writer[w] \in WriterState /\ w \in Writer
      /\ Inserted \subseteq Appended
  BY DEF Inv, TypeOK, WalInv, WalFirst
<1>1. /\ writer[w].pc \notin {"idle", "next"} => writer[w].row \in writer[w].todo
      /\ \A x \in writer[w].todo :
           x \in Inserted => x = writer[w].row /\ writer[w].pc \in {"size", "check", "swap", "send"}
      /\ writer[w].pc \in {"wal", "insert", "size", "check", "swap"}
           => memtables[KeyOf[writer[w].row]] = writer[w].mem
  BY <1>0 DEF Once, FreshTodo, Custody, InMap
<1>2. ASSUME NEW B \in SUBSET Row, WriteBatch(w, B)
      PROVE  Custody' /\ Once'
  <2>1. writer'[w].pc = "next" /\ writer'[w].todo = B /\ writer[w].pc = "idle" /\ B \cap Inserted = {}
    BY <1>0, <1>2, Zenon DEF WriteBatch, IdleWriter
  <2>2. UNCHANGED <<memtables, queue, worker, closer, rowsIn, nextMem, copies, dropped, failed, undecoded>>
    BY <1>2, Zenon DEF WriteBatch, history
  <2> QED BY <2>1, <2>2, HandOnly
<1>3. CASE WalAppend(w) \/ AddSize(w)
  <2>1. /\ writer'[w].row = writer[w].row /\ writer'[w].mem = writer[w].mem
        /\ writer'[w].todo = writer[w].todo
        /\ \/ writer[w].pc = "wal" /\ writer'[w].pc = "insert"
           \/ writer[w].pc = "size" /\ writer'[w].pc = "check"
    <3>1. CASE WalAppend(w)
      <4>1. writer[w].pc = "wal" /\ writer' = [writer EXCEPT ![w].pc = "insert"]
        BY <3>1, Zenon DEF WalAppend
      <4> QED BY <1>0, <4>1 DEF WriterState
    <3>2. CASE AddSize(w)
      <4>1. writer[w].pc = "size" /\ writer' = [writer EXCEPT ![w].pc = "check"]
        BY <3>2 DEF AddSize
      <4> QED BY <1>0, <4>1 DEF WriterState
    <3> QED BY <1>3, <3>1, <3>2, Zenon
  <2>2. UNCHANGED <<memtables, queue, worker, closer, rowsIn, nextMem, copies, dropped, failed, undecoded>>
    BY <1>3, Zenon DEF WalAppend, AddSize, history
  <2> QED BY <1>1, <2>1, <2>2, HandOnly, Zenon
<1>4. CASE WalAppendFail(w)
  <2>1. writer'[w].pc = "idle" /\ writer'[w].todo = {} /\ writer[w].pc = "wal"
    BY <1>0, <1>4, Zenon DEF WalAppendFail, IdleWriter
  <2>2. UNCHANGED <<memtables, queue, worker, closer, rowsIn, nextMem, copies, dropped, failed, undecoded>>
    BY <1>4 DEF WalAppendFail, history
  <2> QED BY <2>1, <2>2, HandOnly
<1>5. CASE CheckNotFull(w)
  <2>1. /\ writer'[w].pc \in {"idle", "next"} /\ writer[w].pc = "check"
        /\ writer'[w].todo \subseteq writer[w].todo \ {writer[w].row}
    BY <1>0, <1>5, RecordDoneTodo, Zenon DEF CheckNotFull, Inv
  <2>2. UNCHANGED <<memtables, queue, worker, closer, rowsIn, nextMem, copies, dropped, failed, undecoded>>
    BY <1>5 DEF CheckNotFull
  <2> QED BY <1>1, <2>1, <2>2, HandOnly, Zenon
<1>6. CASE CheckFull(w)
  <2>1. /\ writer'[w].row = writer[w].row /\ writer'[w].mem = writer[w].mem
        /\ writer'[w].todo = writer[w].todo
        /\ writer[w].pc = "check" /\ writer'[w].pc = "swap"
    BY <1>0, <1>6 DEF CheckFull, WriterState
  <2>2. UNCHANGED <<memtables, queue, worker, closer, rowsIn, nextMem, copies, dropped, failed, undecoded>>
    BY <1>6 DEF CheckFull, history
  <2>3. Cardinality(rowsIn[writer[w].mem]) >= MemCap
    <3>1. Uncounted(writer[w].mem) = {}
      BY <2>1, Zenon DEF Uncounted
    <3>2. rowsIn[writer[w].mem] \ Uncounted(writer[w].mem) = rowsIn[writer[w].mem]
      BY <3>1
    <3> QED BY <1>6, <3>2 DEF CheckFull, IsFull
  <2> QED BY <1>1, <2>1, <2>2, <2>3, HandOnly, Zenon
<1> QED BY <1>2, <1>3, <1>4, <1>5, <1>6

(* The row goes into the active MemTable, and was in none before.          *)
LEMMA MemInsertCustody ==
  ASSUME Inv, Custody, Once, NEW w, Writer = {w}, MemInsert(w)
  PROVE  Custody' /\ Once'
<1> DEFINE m == writer[w].mem
           x == writer[w].row
<1>1. /\ writer \in [Writer -> WriterState] /\ writer[w] \in WriterState /\ w \in Writer
      /\ rowsIn \in [Mem -> SUBSET Row] /\ nextMem \in Nat /\ copies \in [Row -> Nat]
      /\ m \in Mem /\ x \in Row /\ KeyOf[x] \in Key
  <2>1. nextMem \in Nat
    BY EngineAssumption DEF Inv, TypeOK
  <2> QED BY <2>1, EngineAssumption DEF Inv, TypeOK, WalInv, InHand, MemInsert
<1>2. /\ writer[w].pc = "insert" /\ writer'[w].pc = "size"
      /\ writer'[w].row = x /\ writer'[w].mem = m /\ writer'[w].todo = writer[w].todo
      /\ rowsIn' = [rowsIn EXCEPT ![m] = @ \cup {x}]
      /\ UNCHANGED <<memtables, queue, worker, closer, nextMem, copies, dropped, failed, undecoded>>
  BY <1>1 DEF MemInsert, WriterState, history
<1>3. m \in Active /\ memtables[KeyOf[x]] = m
  BY <1>1, <1>2 DEF Custody, InMap, Active
<1>4. x \notin Inserted /\ x \in writer[w].todo
  BY <1>1, <1>2 DEF Once, FreshTodo
<1> HIDE DEF m, x
<1>5. Frozen = {} /\ Frozen' = {}
  BY <1>2 DEF Frozen
<1>6. /\ Active' = Active /\ Queued' = Queued /\ Closing' = Closing /\ Flushing' = Flushing
      /\ OnTheWay' = OnTheWay
  BY <1>2, <1>5, PlacesFrame
<1>7. /\ \A n \in Mem : n # m => rowsIn'[n] = rowsIn[n]
      /\ rowsIn'[m] = rowsIn[m] \cup {x}
  BY <1>1, <1>2
<1>8. Stored' = Stored /\ Inserted' = Inserted \cup {x}
  <2>1. Stored' = Stored
    BY <1>2 DEF Stored
  <2>2. Inserted' = Inserted \cup {x}
    BY <1>1, <1>7 DEF Inserted
  <2> QED BY <2>1, <2>2
<1>9. Custody'
  <2>1. InMap' /\ FullInHand'
    BY <1>2, <1>3 DEF InMap, FullInHand
  <2>2. Tracked'
    <3> SUFFICES ASSUME NEW n \in Mem, NEW y \in rowsIn'[n]
                 PROVE  \/ n \in OnTheWay'
                        \/ y \in Stored' \cup dropped' \cup failed' \cup undecoded'
                        \/ worker'.pc \in Signal /\ worker'.mem = n /\ SignalOf[y] \in Ahead(worker'.pc)
      BY DEF Tracked
    <3>1. CASE n = m
      BY <1>3, <1>6, <3>1 DEF OnTheWay
    <3>2. CASE n # m
      BY <1>2, <1>6, <1>7, <1>8, <3>2 DEF Custody, Tracked
    <3> QED BY <3>1, <3>2
  <2> QED BY <2>1, <2>2 DEF Custody
<1>10. Apart'
  BY <1>2, <1>5, <1>6 DEF Once, Apart
<1>11. Fresh'
  <2>1. ~(m >= nextMem)
    BY <1>1, <1>3 DEF Once, Fresh, OnTheWay
  <2> QED BY <1>2, <1>6, <1>7, <2>1 DEF Once, Fresh
<1>12. OneHome'
  <2> SUFFICES ASSUME NEW a \in Mem, NEW b \in Mem, NEW y \in rowsIn'[a], y \in rowsIn'[b]
               PROVE  a = b
    BY DEF OneHome
  <2>1. CASE y = x
    BY <1>1, <1>4, <1>7, <2>1 DEF Inserted
  <2>2. CASE y # x
    <3>1. y \in rowsIn[a] /\ y \in rowsIn[b]
      BY <1>7, <2>2
    <3> QED BY <3>1 DEF Once, OneHome
  <2> QED BY <2>1, <2>2
<1>13. FreshTodo'
  BY <1>2, <1>4, <1>8 DEF Once, FreshTodo
<1>14. FlushedOnce'
  <2>1. copies[x] = 0
    BY <1>1, <1>4 DEF Once, FlushedOnce
  <2>2. \A y \in Row : copies'[y] <= 1 /\ (copies'[y] # 0 => y \in Inserted')
    BY <1>2, <1>8 DEF Once, FlushedOnce
  <2>3. ASSUME NEW n \in Mem, NEW y \in rowsIn'[n], copies'[y] # 0
        PROVE  n \notin OnTheWay' /\ (n \in Flushing' => SignalOf[y] \notin Ahead(worker'.pc))
    <3>1. y # x
      BY <1>2, <2>1, <2>3, Zenon
    <3>2. y \in rowsIn[n]
      BY <1>7, <3>1
    <3> QED BY <1>2, <1>6, <2>3, <3>2, Zenon DEF Once, FlushedOnce
  <2> QED BY <2>2, <2>3 DEF FlushedOnce
<1> QED BY <1>9, <1>10, <1>11, <1>12, <1>13, <1>14 DEF Once

(* The active MemTable is used, or a fresh one becomes active.             *)
LEMMA GetMemtableCustody ==
  ASSUME Inv, Custody, Once, NEW w, Writer = {w}, NEW x \in writer[w].todo, GetMemtable(w, x)
  PROVE  Custody' /\ Once'
<1> DEFINE k == KeyOf[x]
           m == IF memtables[k] = 0 THEN nextMem ELSE memtables[k]
<1>1. /\ writer \in [Writer -> WriterState] /\ writer[w] \in WriterState /\ w \in Writer
      /\ memtables \in [Key -> Mem \cup {0}] /\ x \in Row
      /\ nextMem \in Nat /\ k \in Key /\ m \in Mem
  <2>1. writer[w] \in WriterState /\ nextMem \in Nat
    BY EngineAssumption DEF Inv, TypeOK
  <2>2. /\ writer \in [Writer -> WriterState] /\ w \in Writer /\ memtables \in [Key -> Mem \cup {0}]
    BY Zenon DEF Inv, TypeOK
  <2>3. x \in Row
    BY <2>1, Zenon DEF WriterState
  <2>4. k \in Key
    BY <2>3, EngineAssumption
  <2>5. m \in Mem
    BY Zenon DEF GetMemtable
  <2> QED BY <2>1, <2>2, <2>3, <2>4, <2>5, Zenon
<1>2. /\ writer[w].pc = "next" /\ writer'[w].pc = "wal"
      /\ writer'[w].row = x /\ writer'[w].mem = m /\ writer'[w].todo = writer[w].todo
      /\ memtables' = [memtables EXCEPT ![k] = m]
      /\ UNCHANGED <<rowsIn, queue, worker, closer, copies, dropped, failed, undecoded>>
  BY <1>1 DEF GetMemtable, WriterState, history, AfterLookup
<1>3. \A y \in writer[w].todo : y \notin Inserted
  BY <1>1, <1>2 DEF Once, FreshTodo
<1>4. CASE memtables[k] # 0
  <2>1. memtables' = memtables /\ nextMem' = nextMem /\ memtables[k] = m
    BY <1>1, <1>2, <1>4 DEF GetMemtable
  <2> QED BY <1>2, <1>3, <2>1, HandOnly
<1>5. CASE memtables[k] = 0
  <2>1. m = nextMem /\ nextMem' = nextMem + 1
    BY <1>5 DEF GetMemtable
  <2> HIDE DEF k, m
  <2>2. Frozen = {} /\ Frozen' = {}
    BY <1>2, Zenon DEF Frozen
  <2>3. Queued' = Queued /\ Closing' = Closing /\ Flushing' = Flushing
    BY <1>2, Zenon DEF Queued, Closing, Flushing
  <2>4. Active' = Active \cup {m}
    <3>1. \A n \in Mem : n # 0
      BY DEF Mem
    <3>2. memtables'[k] = m /\ \A j \in Key : j # k => memtables'[j] = memtables[j]
      BY <1>1, <1>2
    <3> QED BY <1>1, <1>5, <3>1, <3>2 DEF Active
  <2>5. m \notin Active \cup Queued \cup Closing \cup Flushing
    BY <1>1, <2>1 DEF Once, Fresh, OnTheWay
  <2>6. Stored' = Stored /\ Inserted' = Inserted
    BY <1>2 DEF Stored, Inserted
  <2>7. OnTheWay' = OnTheWay \cup {m}
    BY <2>2, <2>3, <2>4 DEF OnTheWay
  <2>8. InMap' /\ FullInHand'
    <3>1. memtables'[k] = m
      BY <1>1, <1>2
    <3> QED BY <1>2, <3>1 DEF InMap, FullInHand, k
  <2>9. Tracked'
    BY <1>2, <2>6, <2>7 DEF Custody, Tracked
  <2>10. Apart'
    <3>1. \A i, j \in Key : memtables'[i] = memtables'[j] /\ memtables'[i] # 0 => i = j
      <4>1. \A j \in Key : memtables[j] # m
        BY <1>1, <2>5 DEF Active
      <4>2. memtables'[k] = m /\ \A j \in Key : j # k => memtables'[j] = memtables[j]
        BY <1>1, <1>2
      <4> QED BY <4>1, <4>2 DEF Once, Apart
    <3>2. \A i, j \in 1..Len(queue') : queue'[i].mem = queue'[j].mem => i = j
      BY <1>2, Zenon DEF Once, Apart
    <3>3. /\ Active \cap (Queued \cup Closing \cup Flushing) = {}
          /\ Queued \cap (Closing \cup Flushing) = {} /\ Closing \cap Flushing = {}
      BY Zenon DEF Once, Apart
    <3>4. /\ Active' \cap (Frozen' \cup Queued' \cup Closing' \cup Flushing') = {}
          /\ Frozen' \cap (Queued' \cup Closing' \cup Flushing') = {}
          /\ Queued' \cap (Closing' \cup Flushing') = {} /\ Closing' \cap Flushing' = {}
      BY <2>2, <2>3, <2>4, <2>5, <3>3
    <3> QED BY <3>1, <3>2, <3>4, Zenon DEF Apart
  <2>11. Fresh'
    <3> SUFFICES ASSUME NEW n \in Mem, n >= nextMem'
                 PROVE  rowsIn'[n] = {} /\ n \notin OnTheWay' \cup Flushing'
      BY DEF Fresh
    <3>1. n >= nextMem /\ n # m
      BY <1>1, <2>1 DEF Mem
    <3> QED BY <1>2, <2>3, <2>7, <3>1 DEF Once, Fresh
  <2>12. OneHome'
    BY <1>2 DEF Once, OneHome
  <2>13. FreshTodo'
    BY <1>2, <1>3, <2>6, Zenon DEF FreshTodo
  <2>14. FlushedOnce'
    <3>1. rowsIn[m] = {}
      BY <1>1, <2>1 DEF Once, Fresh
    <3>2. \A y \in Row : copies'[y] <= 1 /\ (copies'[y] # 0 => y \in Inserted')
      BY <1>2, <2>6, Zenon DEF Once, FlushedOnce
    <3>3. ASSUME NEW n \in Mem, NEW y \in rowsIn'[n], copies'[y] # 0
          PROVE  n \notin OnTheWay' /\ (n \in Flushing' => SignalOf[y] \notin Ahead(worker'.pc))
      <4>1. n # m /\ y \in rowsIn[n]
        BY <1>2, <3>1, Zenon
      <4> QED BY <1>2, <2>3, <2>7, <3>3, <4>1, Zenon DEF Once, FlushedOnce
    <3> QED BY <3>2, <3>3 DEF FlushedOnce
  <2> QED BY <2>8, <2>9, <2>10, <2>11, <2>12, <2>13, <2>14, Zenon DEF Custody, Once
<1> QED BY <1>4, <1>5

(* The full MemTable leaves the map for the writer's hand.                 *)
LEMMA SwapFreshCustody ==
  ASSUME Inv, Custody, Once, NEW w, Writer = {w}, SwapFresh(w)
  PROVE  Custody' /\ Once'
<1> DEFINE m == writer[w].mem
           k == KeyOf[writer[w].row]
           f == nextMem
<1>1. /\ writer \in [Writer -> WriterState] /\ writer[w] \in WriterState /\ w \in Writer
      /\ memtables \in [Key -> Mem \cup {0}]
      /\ f \in Nat /\ k \in Key /\ m \in Mem /\ f \in Mem
  BY EngineAssumption DEF Inv, TypeOK, WalInv, InHand, SwapFresh
<1>2. /\ writer[w].pc = "swap" /\ writer'[w].pc = "send"
      /\ writer'[w].row = writer[w].row /\ writer'[w].mem = m /\ writer'[w].todo = writer[w].todo
      /\ memtables' = [memtables EXCEPT ![k] = f] /\ nextMem' = f + 1
      /\ UNCHANGED <<rowsIn, queue, worker, closer, copies, dropped, failed, undecoded>>
  BY <1>1 DEF SwapFresh, Swapped, WriterState, history
<1>3. memtables[k] = m /\ Cardinality(rowsIn[m]) >= MemCap
  BY <1>1, <1>2, Zenon DEF Custody, InMap, FullInHand
<1>4. Frozen = {} /\ Frozen' = {m}
  BY <1>1, <1>2, Zenon DEF Frozen
<1>5. rowsIn[f] = {} /\ f \notin OnTheWay \cup Flushing
  BY <1>1 DEF Once, Fresh
<1> HIDE DEF m, k, f
<1>6. Queued' = Queued /\ Closing' = Closing /\ Flushing' = Flushing
  BY <1>2 DEF Queued, Closing, Flushing
<1>7. /\ memtables'[k] = f
      /\ \A j \in Key : j # k => memtables'[j] = memtables[j]
      /\ \A j \in Key : j # k => memtables[j] # m
  <2>1. m # 0
    BY <1>1 DEF Mem
  <2>2. \A j \in Key : j # k => memtables[j] # m
    BY <1>1, <1>3, <2>1 DEF Once, Apart
  <2> QED BY <1>1, <1>2, <2>2
<1>8. m \in Active /\ Active' = (Active \ {m}) \cup {f}
  BY <1>1, <1>3, <1>7 DEF Active
<1>9. OnTheWay' = OnTheWay \cup {f}
  BY <1>4, <1>6, <1>8 DEF OnTheWay
<1>10. Stored' = Stored /\ Inserted' = Inserted
  BY <1>2, Zenon DEF Stored, Inserted
<1>11. InMap' /\ FullInHand'
  BY <1>2, <1>3, Zenon DEF InMap, FullInHand
<1>12. Tracked'
  BY <1>2, <1>9, <1>10 DEF Custody, Tracked
<1>13. Apart'
  <2>1. \A i, j \in Key : memtables'[i] = memtables'[j] /\ memtables'[i] # 0 => i = j
    <3>1. \A j \in Key : memtables[j] # f
      BY <1>1, <1>5 DEF Active, OnTheWay
    <3> QED BY <1>7, <3>1 DEF Once, Apart
  <2>2. \A i, j \in 1..Len(queue') : queue'[i].mem = queue'[j].mem => i = j
    BY <1>2 DEF Once, Apart
  <2>3. m \notin Queued \cup Closing \cup Flushing
    BY <1>8 DEF Once, Apart
  <2>4. f \notin Queued \cup Closing \cup Flushing /\ f # m
    BY <1>5, <1>8 DEF OnTheWay
  <2>5. Active \cap (Queued \cup Closing \cup Flushing) = {}
    BY DEF Once, Apart
  <2>6. Queued \cap (Closing \cup Flushing) = {} /\ Closing \cap Flushing = {}
    BY DEF Once, Apart
  <2>7. Active' \cap (Frozen' \cup Queued' \cup Closing' \cup Flushing') = {}
    BY <1>4, <1>6, <1>8, <2>4, <2>5
  <2>8. Frozen' \cap (Queued' \cup Closing' \cup Flushing') = {}
    BY <1>4, <1>6, <2>3
  <2> QED BY <1>6, <2>1, <2>2, <2>6, <2>7, <2>8 DEF Apart
<1>14. Fresh'
  <2> SUFFICES ASSUME NEW n \in Mem, n >= nextMem'
               PROVE  rowsIn'[n] = {} /\ n \notin OnTheWay' \cup Flushing'
    BY DEF Fresh
  <2>1. n >= nextMem /\ n # f
    BY <1>1, <1>2 DEF Mem, f
  <2> QED BY <1>2, <1>6, <1>9, <2>1 DEF Once, Fresh
<1>15. OneHome'
  BY <1>2, Zenon DEF Once, OneHome
<1>16. FreshTodo'
  BY <1>2, <1>10, Zenon DEF Once, FreshTodo
<1>17. FlushedOnce'
  <2>1. \A y \in Row : copies'[y] <= 1 /\ (copies'[y] # 0 => y \in Inserted')
    BY <1>2, <1>10, Zenon DEF Once, FlushedOnce
  <2>2. ASSUME NEW n \in Mem, NEW y \in rowsIn'[n], copies'[y] # 0
        PROVE  n \notin OnTheWay' /\ (n \in Flushing' => SignalOf[y] \notin Ahead(worker'.pc))
    <3>1. n # f /\ y \in rowsIn[n]
      BY <1>2, <1>5, <2>2
    <3> QED BY <1>2, <1>6, <1>9, <2>2, <3>1, Zenon DEF Once, FlushedOnce
  <2> QED BY <2>1, <2>2 DEF FlushedOnce
<1> QED BY <1>11, <1>12, <1>13, <1>14, <1>15, <1>16, <1>17 DEF Custody, Once

(* A request at the end of the channel.                                    *)
LEMMA Enqueued ==
  ASSUME queue \in Seq(FlushRequest), NEW r \in FlushRequest, queue' = Append(queue, r)
  PROVE  /\ Queued' = Queued \cup {r.mem}
         /\ /\ r.mem \notin Queued
            /\ \A i, j \in 1..Len(queue) : queue[i].mem = queue[j].mem => i = j
            => \A i, j \in 1..Len(queue') : queue'[i].mem = queue'[j].mem => i = j
<1> DEFINE n == Len(queue)
<1>1. /\ n \in Nat /\ Len(queue') = n + 1 /\ queue'[n + 1] = r
      /\ \A i \in 1..n : queue'[i] = queue[i]
  OBVIOUS
<1>2. r.mem \in Mem
  BY DEF FlushRequest
<1>3. \A i \in 1..n : queue[i].mem \in Mem
  <2>1. \A i \in 1..n : queue[i] \in FlushRequest
    OBVIOUS
  <2> QED BY <2>1 DEF FlushRequest
<1> HIDE DEF n
<1>4. 1..Len(queue') = (1..n) \cup {n + 1}
  BY <1>1
<1>5. Queued' = Queued \cup {r.mem}
  <2>1. ASSUME NEW m \in Mem
        PROVE (\E i \in 1..Len(queue') : queue'[i].mem = m)
              <=> ((\E i \in 1..n : queue[i].mem = m) \/ m = r.mem)
    BY <1>1, <1>4
  <2> QED BY <1>2, <2>1 DEF Queued, n
<1>6. ASSUME r.mem \notin Queued,
             \A i, j \in 1..n : queue[i].mem = queue[j].mem => i = j,
             NEW i \in 1..Len(queue'), NEW j \in 1..Len(queue'), queue'[i].mem = queue'[j].mem
      PROVE  i = j
  <2>1. \A l \in 1..n : queue'[l].mem # r.mem
    BY <1>1, <1>2, <1>6 DEF Queued, n
  <2> QED BY <1>1, <1>4, <1>6, <2>1
<1> QED BY <1>5, <1>6 DEF n

(* The frozen MemTable goes into the channel, or its rows are dropped.     *)
LEMMA TrySendCustody ==
  ASSUME Inv, Custody, Once, NEW w, Writer = {w}, TrySend(w)
  PROVE  Custody' /\ Once'
<1> DEFINE m == writer[w].mem
           r == [mem |-> m, key |-> KeyOf[writer[w].row]]
<1>1. /\ w \in Writer /\ m \in Mem /\ KeyOf[writer[w].row] \in Key
      /\ r \in FlushRequest /\ queue \in Seq(FlushRequest)
  <2>1. m \in Mem /\ KeyOf[writer[w].row] \in Key
    BY EngineAssumption, Zenon DEF Inv, WalInv, InHand, TrySend
  <2> QED BY <2>1, Zenon DEF Inv, TypeOK, FlushRequest
<1>2. /\ writer[w].pc = "send" /\ writer'[w].pc \in {"idle", "next"}
      /\ writer'[w].todo \subseteq writer[w].todo \ {writer[w].row}
      /\ UNCHANGED <<memtables, rowsIn, nextMem, worker, closer, copies, failed, undecoded>>
  BY <1>1, RecordDoneTodo, Zenon DEF TrySend, Inv
<1>3. \/ queue' = Append(queue, r) /\ dropped' = dropped
      \/ queue' = queue /\ dropped' = dropped \cup rowsIn[m]
  BY Zenon DEF TrySend
<1>4. Frozen = {m} /\ Frozen' = {}
  BY <1>1, <1>2, Zenon DEF Frozen
<1>5. r.mem = m
  BY Zenon
<1>6. m \notin Queued \cup Closing \cup Flushing \cup Active
  BY <1>4 DEF Once, Apart
<1>7. \A i, j \in 1..Len(queue) : queue[i].mem = queue[j].mem => i = j
  BY DEF Once, Apart
<1> HIDE DEF m, r
<1>8. /\ Queued' = Queued \/ Queued' = Queued \cup {m}
      /\ \A i, j \in 1..Len(queue') : queue'[i].mem = queue'[j].mem => i = j
      /\ Queued' = Queued \cup {m} \/ rowsIn[m] \subseteq dropped'
      /\ dropped \subseteq dropped'
  <2>1. CASE queue' = Append(queue, r) /\ dropped' = dropped
    <3>1. m \notin Queued
      BY <1>6
    <3> QED BY <1>1, <1>5, <1>7, <2>1, <3>1, Enqueued, Zenon
  <2>2. CASE queue' = queue /\ dropped' = dropped \cup rowsIn[m]
    BY <1>7, <2>2, Zenon DEF Queued
  <2> QED BY <1>3, <2>1, <2>2
<1>9. Active' = Active /\ Closing' = Closing /\ Flushing' = Flushing
  BY <1>2 DEF Active, Closing, Flushing
<1>10. OnTheWay' \subseteq OnTheWay /\ (OnTheWay \ {m}) \subseteq OnTheWay'
  BY <1>4, <1>8, <1>9 DEF OnTheWay
<1>11. Stored' = Stored /\ Inserted' = Inserted
  BY <1>2 DEF Stored, Inserted
<1>12. InMap' /\ FullInHand'
  BY <1>2 DEF InMap, FullInHand
<1>13. Tracked'
  <2> SUFFICES ASSUME NEW n \in Mem, NEW y \in rowsIn'[n]
               PROVE  \/ n \in OnTheWay'
                      \/ y \in Stored' \cup dropped' \cup failed' \cup undecoded'
                      \/ worker'.pc \in Signal /\ worker'.mem = n /\ SignalOf[y] \in Ahead(worker'.pc)
    BY DEF Tracked
  <2>1. CASE n = m
    BY <1>2, <1>8, <2>1, Zenon DEF OnTheWay
  <2>2. CASE n # m
    BY <1>2, <1>8, <1>10, <1>11, <2>2, Zenon DEF Custody, Tracked
  <2> QED BY <2>1, <2>2
<1>14. Apart'
  <2>1. \A i, j \in Key : memtables'[i] = memtables'[j] /\ memtables'[i] # 0 => i = j
    BY <1>2 DEF Once, Apart
  <2>2. /\ Active \cap (Queued \cup Closing \cup Flushing) = {}
        /\ Queued \cap (Closing \cup Flushing) = {} /\ Closing \cap Flushing = {}
    BY DEF Once, Apart
  <2>3. Active' \cap (Frozen' \cup Queued' \cup Closing' \cup Flushing') = {}
    BY <1>4, <1>6, <1>8, <1>9, <2>2
  <2>4. Queued' \cap (Closing' \cup Flushing') = {}
    BY <1>6, <1>8, <1>9, <2>2
  <2> QED BY <1>4, <1>8, <1>9, <2>1, <2>2, <2>3, <2>4 DEF Apart
<1>15. Fresh' /\ OneHome'
  BY <1>2, <1>9, <1>10 DEF Once, Fresh, OneHome
<1>16. FreshTodo'
  BY <1>2, <1>11, Zenon DEF Once, FreshTodo
<1>17. FlushedOnce'
  BY <1>2, <1>9, <1>10, <1>11, Zenon DEF Once, FlushedOnce
<1> QED BY <1>12, <1>13, <1>14, <1>15, <1>16, <1>17 DEF Custody, Once

(* What a step of the flush worker or of close has to keep: the writer and *)
(* the rows of the MemTables stay as they are.                             *)
LEMMA WriterApart ==
  ASSUME Custody, Once, UNCHANGED <<writer, rowsIn>>,
         memtables' = memtables \/ \A w \in Writer : writer[w].pc = "idle"
  PROVE  /\ InMap' /\ FullInHand' /\ OneHome' /\ FreshTodo'
         /\ Inserted' = Inserted /\ Frozen' = Frozen
<1>1. Inserted' = Inserted /\ Frozen' = Frozen
  BY DEF Inserted, Frozen
<1>2. InMap' /\ FullInHand'
  BY DEF Custody, InMap, FullInHand
<1>3. OneHome'
  BY DEF Once, OneHome
<1>4. FreshTodo'
  BY <1>1 DEF Once, FreshTodo
<1> QED BY <1>1, <1>2, <1>3, <1>4

(* The first request leaves the channel.                                   *)
LEMMA Dequeued ==
  ASSUME queue \in Seq(FlushRequest), queue # <<>>, queue' = Tail(queue),
         \A i, j \in 1..Len(queue) : queue[i].mem = queue[j].mem => i = j
  PROVE  /\ Head(queue).mem \in Mem
         /\ Queued' = Queued \ {Head(queue).mem} /\ Head(queue).mem \in Queued
         /\ \A i, j \in 1..Len(queue') : queue'[i].mem = queue'[j].mem => i = j
<1> DEFINE n == Len(queue)
<1>1. /\ n \in Nat /\ n > 0 /\ Len(queue') = n - 1 /\ Head(queue) = queue[1]
      /\ \A i \in 1..(n - 1) : queue'[i] = queue[i + 1]
  OBVIOUS
<1>2. \A i \in 1..n : queue[i].mem \in Mem
  <2>1. \A i \in 1..n : queue[i] \in FlushRequest
    OBVIOUS
  <2> QED BY <2>1 DEF FlushRequest
<1> HIDE DEF n
<1>3. 1 \in 1..n /\ \A i \in 1..(n - 1) : i + 1 \in 1..n /\ i + 1 # 1
  BY <1>1
<1>4. \A i \in 1..n : i # 1 => i - 1 \in 1..(n - 1) /\ (i - 1) + 1 = i
  BY <1>1
<1>5. \A i, j \in 1..n : queue[i].mem = queue[j].mem => i = j
  BY DEF n
<1>6. ASSUME NEW m \in Mem
      PROVE (\E i \in 1..(n - 1) : queue'[i].mem = m) <=> (m # queue[1].mem /\ \E i \in 1..n : queue[i].mem = m)
  <2>1. ASSUME NEW i \in 1..(n - 1), queue'[i].mem = m
        PROVE  m # queue[1].mem /\ \E j \in 1..n : queue[j].mem = m
    <3>1. queue[i + 1].mem = m
      BY <1>1, <2>1
    <3> QED BY <1>3, <1>5, <3>1
  <2>2. ASSUME NEW i \in 1..n, queue[i].mem = m, m # queue[1].mem
        PROVE  \E j \in 1..(n - 1) : queue'[j].mem = m
    <3>1. i - 1 \in 1..(n - 1) /\ queue'[i - 1] = queue[i]
      <4>1. i # 1
        BY <2>2
      <4> QED BY <1>1, <1>4, <4>1
    <3> QED BY <2>2, <3>1, Zenon
  <2> QED BY <2>1, <2>2, Zenon
<1>7. Queued' = Queued \ {queue[1].mem} /\ queue[1].mem \in Queued
  BY <1>1, <1>2, <1>3, <1>6 DEF Queued, n
<1>8. ASSUME NEW i \in 1..(n - 1), NEW j \in 1..(n - 1), queue'[i].mem = queue'[j].mem
      PROVE  i = j
  <2>1. i + 1 = j + 1
    <3>1. queue[i + 1].mem = queue[j + 1].mem
      BY <1>1, <1>8
    <3> QED BY <1>3, <1>5, <3>1
  <2> QED BY <2>1
<1> QED BY <1>1, <1>2, <1>3, <1>7, <1>8

LEMMA ReceiveCustody ==
  ASSUME Inv, Custody, Once, Receive
  PROVE  Custody' /\ Once'
<1> DEFINE h == Head(queue).mem
<1>1. /\ worker.pc = "idle" /\ worker'.pc = "log" /\ worker'.mem = h
      /\ queue' = Tail(queue) /\ queue # <<>> /\ queue \in Seq(FlushRequest)
      /\ UNCHANGED <<writer, rowsIn, memtables, nextMem, closer, copies, dropped, failed, undecoded>>
  BY Zenon DEF Receive, CanReceive, Inv, TypeOK, history
<1>2. /\ h \in Mem /\ Queued' = Queued \ {h} /\ h \in Queued
      /\ \A i, j \in 1..Len(queue') : queue'[i].mem = queue'[j].mem => i = j
  <2>1. \A i, j \in 1..Len(queue) : queue[i].mem = queue[j].mem => i = j
    BY DEF Once, Apart
  <2> QED BY <1>1, <2>1, Dequeued, Zenon
<1> HIDE DEF h
<1>3. Active' = Active /\ Closing' = Closing /\ Flushing = {} /\ Flushing' = {h}
  BY <1>1, <1>2 DEF Active, Closing, Flushing
<1>4. InMap' /\ FullInHand' /\ OneHome' /\ FreshTodo' /\ Inserted' = Inserted /\ Frozen' = Frozen
  BY <1>1, WriterApart
<1>5. Stored' = Stored
  BY <1>1 DEF Stored
<1>6. OnTheWay' = OnTheWay \ {h} /\ h \in OnTheWay
  <2>1. h \notin Active \cup Frozen \cup Closing
    BY <1>2 DEF Once, Apart
  <2> QED BY <1>2, <1>3, <1>4, <2>1 DEF OnTheWay
<1>7. Tracked'
  <2> SUFFICES ASSUME NEW n \in Mem, NEW y \in rowsIn'[n]
               PROVE  \/ n \in OnTheWay'
                      \/ y \in Stored' \cup dropped' \cup failed' \cup undecoded'
                      \/ worker'.pc \in Signal /\ worker'.mem = n /\ SignalOf[y] \in Ahead(worker'.pc)
    BY DEF Tracked
  <2>0. y \in rowsIn[n] /\ y \in Row
    BY <1>1 DEF Inv, TypeOK
  <2>1. CASE n = h
    <3>1. SignalOf[y] \in Ahead("log")
      BY <2>0, EngineAssumption DEF Ahead, Signal
    <3> QED BY <1>1, <2>1, <3>1 DEF Signal
  <2>2. CASE n # h
    <3>1. worker.pc \notin Signal
      BY <1>1 DEF Signal
    <3> QED BY <1>1, <1>5, <1>6, <2>0, <2>2, <3>1, Zenon DEF Custody, Tracked
  <2> QED BY <2>1, <2>2
<1>8. Apart'
  <2>1. \A i, j \in Key : memtables'[i] = memtables'[j] /\ memtables'[i] # 0 => i = j
    BY <1>1 DEF Once, Apart
  <2>2. /\ Active \cap (Frozen \cup Queued \cup Closing) = {}
        /\ Frozen \cap (Queued \cup Closing) = {} /\ Queued \cap Closing = {}
    BY DEF Once, Apart
  <2>3. Active' \cap (Frozen' \cup Queued' \cup Closing' \cup Flushing') = {}
    BY <1>2, <1>3, <1>4, <2>2
  <2>4. Frozen' \cap (Queued' \cup Closing' \cup Flushing') = {}
    BY <1>2, <1>3, <1>4, <2>2
  <2>5. Queued' \cap (Closing' \cup Flushing') = {} /\ Closing' \cap Flushing' = {}
    BY <1>2, <1>3, <2>2
  <2> QED BY <1>2, <2>1, <2>3, <2>4, <2>5 DEF Apart
<1>9. Fresh'
  BY <1>1, <1>3, <1>6 DEF Once, Fresh
<1>10. FlushedOnce'
  BY <1>1, <1>3, <1>4, <1>6, Zenon DEF Once, FlushedOnce
<1> QED BY <1>4, <1>7, <1>8, <1>9, <1>10 DEF Custody, Once

(* The signals behind the one that is flushed stay ahead.                  *)
LEMMA NextAhead ==
  \A p \in Signal : /\ p \in Ahead(p) /\ p \notin Ahead(NextPc(p))
                    /\ Ahead(p) = Ahead(NextPc(p)) \cup {p}
                    /\ NextPc(p) # "idle" /\ (NextPc(p) \in Signal \/ Ahead(NextPc(p)) = {})
BY DEF Signal, Ahead, NextPc

(* A row that is flushed was not flushed before: its MemTable is in the    *)
(* worker's hand only, and its signal was still ahead.                     *)
LEMMA FlushSignalCustody ==
  ASSUME Inv, Custody, Once, FlushSignal
  PROVE  Custody' /\ Once'
<1> DEFINE m == worker.mem
           p == worker.pc
           rows == ToFlush(m, p)
<1>1. /\ p \in Signal /\ p # "idle" /\ m \in Mem
      /\ rowsIn \in [Mem -> SUBSET Row] /\ copies \in [Row -> Nat]
  BY DEF FlushSignal, Inv, TypeOK, WalInv, WorkerHolds, Signal
<1>2. /\ worker'.pc = NextPc(p) /\ worker'.mem = m
      /\ copies' = [x \in Row |-> IF x \in rows \ Opaque THEN copies[x] + 1 ELSE copies[x]]
      /\ undecoded' = undecoded \cup (rows \cap Opaque)
      /\ UNCHANGED <<writer, rowsIn, memtables, nextMem, closer, queue, dropped, failed>>
  BY DEF FlushSignal, Inv, TypeOK, WorkerState
<1>3. \A x : x \in rows <=> x \in rowsIn[m] /\ SignalOf[x] = p
  BY DEF ToFlush
<1>4. /\ p \in Ahead(p) /\ p \notin Ahead(NextPc(p)) /\ Ahead(p) = Ahead(NextPc(p)) \cup {p}
      /\ NextPc(p) # "idle" /\ (NextPc(p) \in Signal \/ Ahead(NextPc(p)) = {})
  BY <1>1, NextAhead
<1> HIDE DEF m, p, rows
<1>5. Flushing = {m} /\ Flushing' = {m}
  BY <1>1, <1>2, <1>4, Zenon DEF Flushing, m, p
<1>6. InMap' /\ FullInHand' /\ OneHome' /\ FreshTodo' /\ Inserted' = Inserted /\ Frozen' = Frozen
  BY <1>2, WriterApart
<1>7. Active' = Active /\ Queued' = Queued /\ Closing' = Closing
  BY <1>2 DEF Active, Queued, Closing
<1>8. OnTheWay' = OnTheWay /\ m \notin OnTheWay
  <2>1. m \notin OnTheWay
    BY <1>5 DEF Once, Apart, OnTheWay
  <2> QED BY <1>6, <1>7, <2>1 DEF OnTheWay
<1>9. \A x \in rows : x \in Row /\ copies[x] = 0
  <2> SUFFICES ASSUME NEW x \in rows PROVE x \in Row /\ copies[x] = 0
    OBVIOUS
  <2>1. x \in rowsIn[m] /\ SignalOf[x] = p /\ x \in Row
    BY <1>1, <1>3
  <2>2. copies[x] # 0 => SignalOf[x] \notin Ahead(p)
    BY <1>1, <1>5, <2>1 DEF Once, FlushedOnce, p
  <2> QED BY <1>4, <2>1, <2>2
<1>10. /\ \A x \in Row : copies'[x] = IF x \in rows \ Opaque THEN copies[x] + 1 ELSE copies[x]
       /\ Stored \subseteq Stored' /\ rows \ Opaque \subseteq Stored'
  <2>1. \A x \in Row : copies'[x] = IF x \in rows \ Opaque THEN copies[x] + 1 ELSE copies[x]
    BY <1>2
  <2>2. \A x \in rows \ Opaque : x \in Row /\ copies'[x] > 0
    BY <1>9, <2>1
  <2>3. \A x \in Row : copies[x] > 0 => copies'[x] > 0
    BY <1>1, <2>1
  <2> QED BY <2>1, <2>2, <2>3 DEF Stored
<1>11. Tracked'
  <2> SUFFICES ASSUME NEW n \in Mem, NEW y \in rowsIn'[n]
               PROVE  \/ n \in OnTheWay'
                      \/ y \in Stored' \cup dropped' \cup failed' \cup undecoded'
                      \/ worker'.pc \in Signal /\ worker'.mem = n /\ SignalOf[y] \in Ahead(worker'.pc)
    BY Zenon DEF Tracked
  <2>1. CASE n \in OnTheWay \/ y \in Stored \cup dropped \cup failed \cup undecoded
    BY <1>2, <1>8, <1>10, <2>1, Zenon
  <2>2. CASE n = m /\ SignalOf[y] \in Ahead(p)
    <3>1. CASE SignalOf[y] = p
      <4>1. y \in rows
        BY <1>2, <1>3, <2>2, <3>1
      <4> QED BY <1>2, <1>10, <4>1, Zenon
    <3>2. CASE SignalOf[y] # p
      <4>1. SignalOf[y] \in Ahead(NextPc(p)) /\ NextPc(p) \in Signal
        BY <1>4, <2>2, <3>2
      <4> QED BY <1>2, <2>2, <4>1, Zenon
    <3> QED BY <3>1, <3>2, Zenon
  <2>3. \/ n \in OnTheWay
        \/ y \in Stored \cup dropped \cup failed \cup undecoded
        \/ n = m /\ SignalOf[y] \in Ahead(p)
    BY <1>2, Zenon DEF Custody, Tracked, m, p
  <2> QED BY <2>1, <2>2, <2>3
<1>12. Apart'
  BY <1>2, <1>5, <1>6, <1>7, Zenon DEF Once, Apart
<1>13. Fresh'
  BY <1>2, <1>5, <1>8, Zenon DEF Once, Fresh
<1>14. FlushedOnce'
  <2>1. ASSUME NEW x \in Row PROVE copies'[x] <= 1 /\ (copies'[x] # 0 => x \in Inserted')
    <3>1. CASE x \in rows \ Opaque
      <4>1. x \in Inserted
        BY <1>1, <1>3, <3>1 DEF Inserted
      <4> QED BY <1>6, <1>9, <1>10, <3>1, <4>1
    <3>2. CASE x \notin rows \ Opaque
      BY <1>6, <1>10, <3>2, Zenon DEF Once, FlushedOnce
    <3> QED BY <3>1, <3>2
  <2>2. ASSUME NEW n \in Mem, NEW y \in rowsIn'[n], copies'[y] # 0
        PROVE  n \notin OnTheWay' /\ (n \in Flushing' => SignalOf[y] \notin Ahead(worker'.pc))
    <3>0. y \in rowsIn[n] /\ y \in Row
      BY <1>1, <1>2
    <3>1. CASE y \in rows \ Opaque
      <4>1. y \in rowsIn[m]
        BY <1>3, <3>1
      <4>2. n = m
        BY <1>1, <3>0, <4>1 DEF Once, OneHome
      <4> QED BY <1>2, <1>3, <1>4, <1>8, <3>1, <4>2, Zenon
    <3>2. CASE y \notin rows \ Opaque
      <4>1. copies[y] # 0
        BY <1>10, <2>2, <3>0, <3>2
      <4>2. n \notin OnTheWay /\ (n \in Flushing => SignalOf[y] \notin Ahead(p))
        BY <3>0, <4>1, Zenon DEF Once, FlushedOnce, p
      <4> QED BY <1>2, <1>4, <1>5, <1>8, <4>2, Zenon
    <3> QED BY <3>1, <3>2
  <2> QED BY <2>1, <2>2, Zenon DEF FlushedOnce
<1> QED BY <1>6, <1>11, <1>12, <1>13, <1>14 DEF Custody, Once

(* The flush ends: with an error, which counts what was ahead as failed,   *)
(* or with the checkpoint, when nothing is ahead.                          *)
LEMMA FlushEndCustody ==
  ASSUME Inv, Custody, Once, FlushError \/ Checkpoint
  PROVE  Custody' /\ Once'
<1> DEFINE m == worker.mem
<1>1. /\ worker'.pc = "idle" /\ worker.pc # "idle" /\ m \in Mem
      /\ UNCHANGED <<writer, rowsIn, memtables, nextMem, closer, queue, copies, dropped, undecoded>>
      /\ failed \subseteq failed'
  <2>1. worker.pc # "idle" => m \in Mem
    BY Zenon DEF Inv, WalInv, WorkerHolds
  <2>2. CASE FlushError
    <3>1. worker.pc # "idle"
      BY <2>2, Zenon DEF FlushError, Signal
    <3> QED BY <2>1, <2>2, <3>1, Zenon DEF FlushError, IdleWorker
  <2>3. CASE Checkpoint
    <3>1. worker.pc # "idle"
      BY <2>3, Zenon DEF Checkpoint
    <3> QED BY <2>1, <2>3, <3>1, Zenon DEF Checkpoint, IdleWorker, history
  <2> QED BY <2>2, <2>3
<1>2. \A x \in rowsIn[m] : worker.pc \in Signal /\ SignalOf[x] \in Ahead(worker.pc) => x \in failed'
  BY Zenon DEF FlushError, Checkpoint, Signal
<1>3. Flushing' = {}
  BY <1>1 DEF Flushing
<1>4. InMap' /\ FullInHand' /\ OneHome' /\ FreshTodo' /\ Inserted' = Inserted /\ Frozen' = Frozen
  BY <1>1, WriterApart
<1>5. Active' = Active /\ Queued' = Queued /\ Closing' = Closing
  BY <1>1 DEF Active, Queued, Closing
<1>6. OnTheWay' = OnTheWay /\ Stored' = Stored
  BY <1>1, <1>4, <1>5 DEF OnTheWay, Stored
<1>7. Tracked'
  BY <1>1, <1>2, <1>6, Zenon DEF Custody, Tracked
<1>8. Apart'
  BY <1>1, <1>3, <1>4, <1>5, Zenon DEF Once, Apart
<1>9. Fresh'
  BY <1>1, <1>3, <1>6 DEF Once, Fresh
<1>10. FlushedOnce'
  BY <1>1, <1>3, <1>4, <1>6, Zenon DEF Once, FlushedOnce
<1> QED BY <1>4, <1>7, <1>8, <1>9, <1>10 DEF Custody, Once

(* close takes an active MemTable out of the map; an empty one is let go.  *)
LEMMA FlushAllRemoveCustody ==
  ASSUME Inv, Custody, Once, NEW k \in Key, FlushAllRemove(k), \A w \in Writer : writer[w].pc = "idle"
  PROVE  Custody' /\ Once'
<1> DEFINE m == memtables[k]
<1>1. /\ closer.pc = "remove" /\ memtables' = [memtables EXCEPT ![k] = 0]
      /\ memtables \in [Key -> Mem \cup {0}] /\ closer \in CloserState
      /\ UNCHANGED <<writer, rowsIn, nextMem, worker, queue, copies, dropped, failed, undecoded>>
  BY DEF FlushAllRemove, Inv, TypeOK, history
<1>2. \/ m \in Mem /\ closer'.pc = "send" /\ closer'.mem = m
      \/ m \in Mem /\ rowsIn[m] = {} /\ closer'.pc = "remove"
      \/ m = 0 /\ closer'.pc = "remove"
  BY <1>1 DEF FlushAllRemove, WorthFlushing, CloserState
<1>3. /\ memtables'[k] = 0
      /\ \A j \in Key : j # k => memtables'[j] = memtables[j]
      /\ \A j \in Key : j # k /\ m # 0 => memtables[j] # m
  <2>1. \A j \in Key : j # k /\ m # 0 => memtables[j] # m
    BY Zenon DEF Once, Apart
  <2> QED BY <1>1, <2>1, Zenon
<1>4. m \in Mem => m \in Active
  BY DEF Active
<1>5. 0 \notin Mem
  BY DEF Mem
<1> HIDE DEF m
<1>6. Active' = Active \ {m}
  <2>1. \A j \in Key : j # k /\ m # 0 => memtables[j] # m
    BY <1>3
  <2>2. ASSUME NEW n \in Mem PROVE (\E j \in Key : memtables'[j] = n) <=> (n # m /\ \E j \in Key : memtables[j] = n)
    BY <1>3, <1>5 DEF m
  <2> QED BY <2>2 DEF Active
<1>7. Queued' = Queued /\ Flushing' = Flushing /\ Closing = {}
  BY <1>1 DEF Queued, Flushing, Closing
<1>8. \/ Closing' = {m} /\ m \in Mem
      \/ Closing' = {} /\ (m \in Mem => rowsIn[m] = {})
  <2>1. CASE m \in Mem /\ closer'.pc = "send" /\ closer'.mem = m
    BY <2>1 DEF Closing
  <2>2. CASE closer'.pc = "remove" /\ (m \in Mem => rowsIn[m] = {})
    BY <2>2 DEF Closing
  <2> QED BY <1>2, <1>5, <2>1, <2>2
<1>9. InMap' /\ FullInHand' /\ OneHome' /\ FreshTodo' /\ Inserted' = Inserted /\ Frozen' = Frozen
  BY <1>1, WriterApart, Zenon
<1>10. OnTheWay' \subseteq OnTheWay /\ \A n \in OnTheWay \ OnTheWay' : rowsIn[n] = {}
  <2>1. OnTheWay \subseteq Mem
    BY DEF OnTheWay, Active, Frozen, Queued, Closing
  <2> QED BY <1>4, <1>6, <1>7, <1>8, <1>9, <2>1, Zenon DEF OnTheWay
<1>11. Stored' = Stored
  BY <1>1 DEF Stored
<1>12. Tracked'
  <2> SUFFICES ASSUME NEW n \in Mem, NEW y \in rowsIn'[n]
               PROVE  \/ n \in OnTheWay'
                      \/ y \in Stored' \cup dropped' \cup failed' \cup undecoded'
                      \/ worker'.pc \in Signal /\ worker'.mem = n /\ SignalOf[y] \in Ahead(worker'.pc)
    BY Zenon DEF Tracked
  <2>1. n \in OnTheWay => n \in OnTheWay'
    BY <1>1, <1>10, Zenon
  <2> QED BY <1>1, <1>11, <2>1, Zenon DEF Custody, Tracked
<1>13. Apart'
  <2>1. \A i, j \in Key : memtables'[i] = memtables'[j] /\ memtables'[i] # 0 => i = j
    BY <1>3, Zenon DEF Once, Apart
  <2>2. \A i, j \in 1..Len(queue') : queue'[i].mem = queue'[j].mem => i = j
    BY <1>1, Zenon DEF Once, Apart
  <2>3. /\ Active \cap (Frozen \cup Queued \cup Flushing) = {}
        /\ Frozen \cap (Queued \cup Flushing) = {} /\ Queued \cap Flushing = {}
    BY Zenon DEF Once, Apart
  <2>4. Closing' \subseteq {m} /\ (Closing' = {} \/ m \in Active)
    BY <1>4, <1>8
  <2>5. Active' \cap (Frozen' \cup Queued' \cup Closing' \cup Flushing') = {}
    BY <1>6, <1>7, <1>9, <2>3, <2>4, Zenon
  <2>6. Frozen' \cap (Queued' \cup Closing' \cup Flushing') = {}
    BY <1>7, <1>9, <2>3, <2>4
  <2>7. Queued' \cap (Closing' \cup Flushing') = {} /\ Closing' \cap Flushing' = {}
    BY <1>7, <2>3, <2>4
  <2> QED BY <2>1, <2>2, <2>5, <2>6, <2>7 DEF Apart
<1>14. Fresh'
  BY <1>1, <1>7, <1>10 DEF Once, Fresh
<1>15. FlushedOnce'
  BY <1>1, <1>7, <1>9, <1>10, Zenon DEF Once, FlushedOnce
<1> QED BY <1>9, <1>12, <1>13, <1>14, <1>15, Zenon DEF Custody, Once

(* close hands it to the channel.                                          *)
LEMMA FlushAllSendCustody ==
  ASSUME Inv, Custody, Once, FlushAllSend
  PROVE  Custody' /\ Once'
<1> DEFINE m == closer.mem
           r == [mem |-> m, key |-> closer.key]
<1>1. /\ closer.pc = "send" /\ closer'.pc = "remove" /\ queue' = Append(queue, r)
      /\ UNCHANGED <<writer, rowsIn, memtables, nextMem, worker, copies, dropped, failed, undecoded>>
  BY DEF FlushAllSend, history, Inv, TypeOK, CloserState
<1>2. r \in FlushRequest /\ r.mem = m /\ m \in Mem /\ queue \in Seq(FlushRequest)
  BY <1>1, Zenon DEF FlushRequest, Inv, TypeOK, WalInv, CloserHolds
<1>3. Closing = {m} /\ Closing' = {}
  BY <1>1, <1>2, Zenon DEF Closing
<1> HIDE DEF m, r
<1>4. m \notin Active \cup Frozen \cup Queued \cup Flushing
  BY <1>3 DEF Once, Apart
<1>5. /\ Queued' = Queued \cup {m}
      /\ \A i, j \in 1..Len(queue') : queue'[i].mem = queue'[j].mem => i = j
  <2>1. \A i, j \in 1..Len(queue) : queue[i].mem = queue[j].mem => i = j
    BY DEF Once, Apart
  <2>2. m \notin Queued
    BY <1>4
  <2> QED BY <1>1, <1>2, <2>1, <2>2, Enqueued
<1>6. Active' = Active /\ Flushing' = Flushing
  BY <1>1 DEF Active, Flushing
<1>7. InMap' /\ FullInHand' /\ OneHome' /\ FreshTodo' /\ Inserted' = Inserted /\ Frozen' = Frozen
  BY <1>1, WriterApart, Zenon
<1>8. OnTheWay' = OnTheWay /\ Stored' = Stored
  BY <1>1, <1>3, <1>5, <1>6, <1>7 DEF OnTheWay, Stored
<1>9. Tracked'
  BY <1>1, <1>8, Zenon DEF Custody, Tracked
<1>10. Apart'
  <2>1. \A i, j \in Key : memtables'[i] = memtables'[j] /\ memtables'[i] # 0 => i = j
    BY <1>1 DEF Once, Apart
  <2>2. /\ Active \cap (Frozen \cup Queued \cup Flushing) = {}
        /\ Frozen \cap (Queued \cup Flushing) = {} /\ Queued \cap Flushing = {}
    BY DEF Once, Apart
  <2>3. Active' \cap (Frozen' \cup Queued' \cup Closing' \cup Flushing') = {}
    BY <1>3, <1>4, <1>5, <1>6, <1>7, <2>2
  <2>4. Frozen' \cap (Queued' \cup Closing' \cup Flushing') = {}
    BY <1>3, <1>4, <1>5, <1>6, <1>7, <2>2
  <2>5. Queued' \cap (Closing' \cup Flushing') = {} /\ Closing' \cap Flushing' = {}
    BY <1>3, <1>4, <1>5, <1>6, <2>2
  <2> QED BY <1>5, <2>1, <2>3, <2>4, <2>5 DEF Apart
<1>11. Fresh' /\ FlushedOnce'
  BY <1>1, <1>6, <1>7, <1>8, Zenon DEF Once, Fresh, FlushedOnce
<1> QED BY <1>7, <1>9, <1>10, <1>11 DEF Custody, Once

(* The other steps of close leave the MemTables where they are.            *)
LEMMA CloserCustody ==
  ASSUME Inv, Custody, Once,
         CloseBegin \/ FlushAllKeys \/ FlushAllDone \/ CloseReturn \/ UNCHANGED vars
  PROVE  Custody' /\ Once'
<1>1. /\ UNCHANGED <<writer, rowsIn, memtables, nextMem, worker, queue, copies>>
      /\ UNCHANGED <<dropped, failed, undecoded>>
  BY Zenon DEF CloseBegin, FlushAllKeys, FlushAllDone, CloseReturn, history, vars
<1>2. Closing' = Closing
  <2>1. CASE UNCHANGED vars
    BY <2>1 DEF vars, Closing
  <2>2. CASE ~UNCHANGED vars
    <3>1. closer.pc # "send" /\ closer'.pc # "send"
      BY <2>2, Zenon DEF CloseBegin, FlushAllKeys, FlushAllDone, CloseReturn, Inv, TypeOK, CloserState
    <3> QED BY <3>1 DEF Closing
  <2> QED BY <2>1, <2>2
<1>3. Active' = Active /\ Queued' = Queued /\ Flushing' = Flushing /\ Stored' = Stored
  BY <1>1, Zenon DEF Active, Queued, Flushing, Stored
<1>4. InMap' /\ FullInHand' /\ OneHome' /\ FreshTodo' /\ Inserted' = Inserted /\ Frozen' = Frozen
  BY <1>1, WriterApart, Zenon
<1>5. OnTheWay' = OnTheWay
  BY <1>2, <1>3, <1>4 DEF OnTheWay
<1>6. Tracked'
  BY <1>1, <1>3, <1>5, Zenon DEF Custody, Tracked
<1>7. Apart'
  BY <1>1, <1>2, <1>3, <1>4 DEF Once, Apart
<1>8. Fresh' /\ FlushedOnce'
  BY <1>1, <1>3, <1>4, <1>5, Zenon DEF Once, Fresh, FlushedOnce
<1> QED BY <1>4, <1>6, <1>7, <1>8 DEF Custody, Once

LEMMA EngineNext == EngineInv /\ [Next]_vars => EngineInv'
<1> SUFFICES ASSUME EngineInv, [Next]_vars PROVE EngineInv'
  OBVIOUS
<1>1. Inv' /\ Quiet' /\ (calm' => calm)
  BY NextInv, QuietNext DEF EngineInv
<1>2. ASSUME Solo' PROVE Custody' /\ Once'
  <2>1. Inv /\ Quiet /\ Custody /\ Once /\ calm
    BY <1>1, <1>2 DEF EngineInv, Solo
  <2>2. PICK w : Writer = {w}
    BY <1>2 DEF Solo
  <2>3. CASE \E v \in Writer : \E B \in SUBSET Row : WriteBatch(v, B)
    BY <2>1, <2>2, <2>3, HandSteps
  <2>4. CASE \E v \in Writer : WriterStep(v)
    <3>1. WriterStep(w)
      BY <2>2, <2>4
    <3>2. CASE \E x \in writer[w].todo : GetMemtable(w, x)
      BY <2>1, <2>2, <3>2, GetMemtableCustody, Zenon
    <3>3. CASE WalAppend(w) \/ WalAppendFail(w) \/ AddSize(w) \/ CheckNotFull(w) \/ CheckFull(w)
      BY <2>1, <2>2, <3>3, HandSteps
    <3>4. CASE MemInsert(w) \/ SwapFresh(w) \/ TrySend(w)
      BY <2>1, <2>2, <3>4, MemInsertCustody, SwapFreshCustody, TrySendCustody
    <3> QED BY <3>1, <3>2, <3>3, <3>4, Zenon DEF WriterStep
  <2>5. CASE WorkerStep
    BY <2>1, <2>5, ReceiveCustody, FlushSignalCustody, FlushEndCustody DEF WorkerStep
  <2>6. CASE CloseBegin \/ UNCHANGED vars
    BY <2>1, <2>6, CloserCustody
  <2>7. CASE CloserStep
    <3>1. ASSUME NEW k \in closer.keys, FlushAllRemove(k)
          PROVE  Custody' /\ Once'
      <4>1. k \in Key
        BY <2>1 DEF Inv, TypeOK, CloserState
      <4>2. \A v \in Writer : writer[v].pc = "idle"
        BY <2>1, <3>1 DEF Quiet, FlushAllRemove
      <4> QED BY <2>1, <3>1, <4>1, <4>2, FlushAllRemoveCustody
    <3> QED BY <2>1, <2>7, <3>1, CloserCustody, FlushAllSendCustody DEF CloserStep
  <2> QED BY <2>3, <2>4, <2>5, <2>6, <2>7 DEF Next
<1> QED BY <1>1, <1>2 DEF EngineInv

(* Who holds which MemTable, in every reachable state.                     *)
THEOREM CustodyAlways == Spec => []EngineInv
  BY CustodyInit, EngineNext, PTL DEF Spec

(* With one writer, and close between batches, no row vanishes between     *)
(* MemTable and SSTable without a trace: it is flushed, on its way, or its *)
(* loss was logged or undecodable (engine.rs: maybe_freeze, flush_all,     *)
(* flush_immutable).                                                       *)
THEOREM NoRowVanishes == Spec => []Accounted
<1>1. EngineInv => Accounted
  <2> SUFFICES ASSUME EngineInv, Solo, NEW x \in Inserted
               PROVE  x \in Stored \cup Pending \cup dropped \cup failed \cup undecoded
    BY DEF Accounted
  <2>1. PICK m \in Mem : x \in rowsIn[m]
    BY Zenon DEF Inserted
  <2>2. x \in Row
    BY DEF Inserted
  <2>3. OnTheWay \subseteq Waiting
    <3>1. Frozen \subseteq Waiting
      BY Zenon DEF EngineInv, Custody, FullInHand, Frozen, Waiting
    <3>2. Active \cup Queued \cup Closing \subseteq Waiting
      BY DEF Active, Queued, Closing, Waiting
    <3> QED BY <3>1, <3>2 DEF OnTheWay
  <2>4. CASE m \in OnTheWay
    BY <2>1, <2>2, <2>3, <2>4 DEF Pending
  <2>5. CASE worker.pc \in Signal /\ worker.mem = m /\ SignalOf[x] \in Ahead(worker.pc)
    BY <2>1, <2>2, <2>5 DEF Pending
  <2> QED BY <2>1, <2>4, <2>5, Zenon DEF EngineInv, Custody, Tracked
<1> QED BY <1>1, CustodyAlways, PTL

(* With one writer, and close between batches, no row is written to two    *)
(* SSTables: no MemTable reaches the flush worker twice, although          *)
(* maybe_freeze and flush_all both send (engine.rs).                       *)
THEOREM FlushedAtMostOnce == Spec => []AtMostOnce
<1>1. EngineInv => AtMostOnce
  BY DEF EngineInv, AtMostOnce, Once, FlushedOnce
<1> QED BY <1>1, CustodyAlways, PTL
=============================================================================
