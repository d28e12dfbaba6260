-------------------------------- MODULE Wal --------------------------------
(***************************************************************************)
(* The write-ahead log of a partition, at the grain at which entries can   *)
(* be torn.  The writers' handle (under its mutex) puts the header and the *)
(* data of an entry into a BufWriter with two calls; the buffer goes to    *)
(* the file when it is out of room, which can be between the two.  The     *)
(* flush worker appends a checkpoint to the same file through a second     *)
(* handle, which does not take the mutex.  recover reads the file back,    *)
(* one unit at a time, while the others may go on.                         *)
(*                                                                         *)
(* The file is a sequence of units: a header (9 bytes), a part of an       *)
(* entry's data, or a checkpoint, which is a header with no data.  A torn  *)
(* unit at the end of the file is to recover what no unit is: it stops.    *)
(***************************************************************************)
EXTENDS Naturals, Sequences

CONSTANTS
  Entry,     \* what is appended
  DataLen,   \* length of an entry's data, in units
  Cap,       \* capacity of the BufWriter, in units (256 KiB in the code)
  Faults,    \* TRUE when a write to the file may fail
  MaxCheck,  \* bound on the number of checkpoints
  MaxCrash,  \* bound on the number of crashes
  None       \* no entry

ASSUME WalAssumption ==
  /\ DataLen \in Nat \ {0}
  /\ Cap \in Nat \ {0}
  /\ Faults \in BOOLEAN
  /\ MaxCheck \in Nat
  /\ MaxCrash \in Nat
  /\ None \notin Entry

VARIABLES
  buf,       \* the writers' BufWriter
  file,      \* the WAL file
  synced,    \* length of the part of the file that survives a power failure
  half,      \* entry whose header is written and whose data is not
  appended,  \* history: entries whose append returned Ok, in order
  tried,     \* history: entries whose append was called
  torn,      \* history: something was written behind a part of an entry
  reader,    \* where recover is in an entry, and the entries it has
  pos,       \* number of units recover has read
  len,       \* length of the file when recover opened it
  checks,    \* number of checkpoints
  crashes    \* number of crashes

recovery == <<reader, pos, len>>
vars == <<buf, file, synced, half, appended, tried, torn, checks, crashes, recovery>>

Header(e) == <<[kind |-> "header", entry |-> e, part |-> 0]>>
Data(e) == [i \in 1..DataLen |-> [kind |-> "data", entry |-> e, part |-> i]]
CheckpointEntry == <<[kind |-> "checkpoint", entry |-> None, part |-> 0]>>
Unit == [kind : {"header", "data", "checkpoint"}, entry : Entry \cup {None}, part : 0..DataLen]

\* The file ends inside an entry.
MidEntry(f) ==
  f # <<>> /\ LET last == f[Len(f)]
              IN  last.kind = "header" \/ (last.kind = "data" /\ last.part < DataLen)

\* recover before it has read anything.
FreshReader == [state |-> "header", head |-> None, data |-> <<>>, entries |-> <<>>]

Init ==
  /\ buf = <<>>
  /\ file = <<>>
  /\ synced = 0
  /\ half = None
  /\ appended = <<>>
  /\ tried = {}
  /\ torn = FALSE
  /\ reader = FreshReader
  /\ pos = 0
  /\ len = 0
  /\ checks = 0
  /\ crashes = 0
-----------------------------------------------------------------------------
(* BufWriter::write_all: what does not fit behind the buffered bytes has   *)
(* them written out first; what does not fit at all goes straight through. *)
Fits(u) == Len(buf) + Len(u) <= Cap
WriteAll(u) ==
  LET out == IF Fits(u) THEN <<>> ELSE buf
      kept == IF Fits(u) THEN buf ELSE <<>>
  IN  IF Len(u) >= Cap
      THEN buf' = kept /\ file' = file \o out \o u
      ELSE buf' = kept \o u /\ file' = file \o out

(* append: the header ...                                                  *)
AppendHeader(e) ==
  /\ half = None
  /\ e \notin tried
  /\ WriteAll(Header(e))
  /\ half' = e
  /\ tried' = tried \cup {e}
  /\ UNCHANGED <<synced, appended, torn, checks, crashes, recovery>>

(* ... and the data.                                                       *)
AppendData ==
  /\ half # None
  /\ WriteAll(Data(half))
  /\ half' = None
  /\ appended' = Append(appended, half)
  /\ UNCHANGED <<synced, tried, torn, checks, crashes, recovery>>

(* The data has to reach the file and that fails: append returns Err and   *)
(* the header stays.  (A failing header leaves everything as it was.)      *)
AppendFail ==
  /\ Faults
  /\ half # None
  /\ ~Fits(Data(half))
  /\ half' = None
  /\ torn' = TRUE
  /\ UNCHANGED <<buf, file, synced, appended, tried, checks, crashes, recovery>>

(* sync on the writers' handle.                                            *)
Sync ==
  /\ half = None
  /\ file' = file \o buf
  /\ buf' = <<>>
  /\ synced' = Len(file')
  /\ UNCHANGED <<half, appended, tried, torn, checks, crashes, recovery>>

(* checkpoint on the flush worker's handle: open for append, one entry,    *)
(* flush, fsync.                                                           *)
Checkpoint ==
  /\ checks < MaxCheck
  /\ file' = file \o CheckpointEntry
  /\ synced' = Len(file')
  /\ torn' = (torn \/ MidEntry(file))
  /\ checks' = checks + 1
  /\ UNCHANGED <<buf, half, appended, tried, crashes, recovery>>

(* The process or the machine dies and the log is opened again: the buffer *)
(* is gone, and with the machine what was not synced.  open appends behind *)
(* whatever is there, and a recover that was reading died with the rest.   *)
Crash ==
  /\ crashes < MaxCrash
  /\ \E n \in synced..Len(file) :
       /\ file' = SubSeq(file, 1, n)
       /\ torn' = (torn \/ MidEntry(file'))
  /\ buf' = <<>>
  /\ synced' = Len(file')
  /\ half' = None
  /\ reader' = FreshReader
  /\ pos' = 0
  /\ len' = 0
  /\ crashes' = crashes + 1
  /\ UNCHANGED <<appended, tried, checks>>
-----------------------------------------------------------------------------
\* Mutants of AtHeader and AfterData: a checkpoint leaves the entries, and
\* the CRC is not compared.
AtHeaderKeeps(r, u) == IF u.kind = "header" THEN [r EXCEPT !.state = "data", !.head = u.entry] ELSE r
AfterDataUnchecked(r, d) ==
  [r EXCEPT !.state = "header", !.data = <<>>,
            !.entries = Append(@, IF d = Data(r.head) THEN r.head ELSE None)]

(* recover, one unit at a time.  A header says how much data to read; a    *)
(* checkpoint, which has none, clears what was read before it.  Data in    *)
(* the place of a header has the wrong CRC.                                *)
AtHeader(r, u) ==
  CASE u.kind = "header"     -> [r EXCEPT !.state = "data", !.head = u.entry]
    [] u.kind = "checkpoint" -> [r EXCEPT !.entries = <<>>]
    [] u.kind = "data"       -> [r EXCEPT !.state = "crc"]

(* With all of its data read the entry is taken, if its CRC is right.      *)
AfterData(r, d) ==
  IF d = Data(r.head)
  THEN [r EXCEPT !.state = "header", !.data = <<>>, !.entries = Append(@, r.head)]
  ELSE [r EXCEPT !.state = "crc"]

RecoverStep(r, u) ==
  CASE r.state = "header" -> AtHeader(r, u)
    [] r.state = "data"   -> LET d == Append(r.data, u)
                             IN  IF Len(d) = DataLen THEN AfterData(r, d)
                                 ELSE [r EXCEPT !.data = d]

(* recover is called, and reads on.  It starts no entry behind the length  *)
(* it took at first.  The end of the file ends its loop with Ok, in        *)
(* whatever place; a CRC mismatch returns Err.                             *)
RecoverOpen ==
  /\ reader' = FreshReader
  /\ pos' = 0
  /\ len' = Len(file)
  /\ UNCHANGED <<buf, file, synced, half, appended, tried, torn, checks, crashes>>

RecoverRead ==
  /\ pos < Len(file)
  /\ reader.state # "crc"
  /\ reader.state = "header" => pos < len
  /\ reader' = RecoverStep(reader, file[pos + 1])
  /\ pos' = pos + 1
  /\ UNCHANGED <<buf, file, synced, half, appended, tried, torn, len, checks, crashes>>

Next ==
  \/ \E e \in Entry : AppendHeader(e)
  \/ AppendData \/ AppendFail \/ Sync \/ Checkpoint \/ Crash
  \/ RecoverOpen \/ RecoverRead

Spec == Init /\ [][Next]_vars
-----------------------------------------------------------------------------
TypeOK ==
  /\ buf \in Seq(Unit) /\ Len(buf) <= Cap
  /\ file \in Seq(Unit)
  /\ synced \in 0..Len(file)
  /\ half \in Entry \cup {None}
  /\ appended \in Seq(Entry)
  /\ tried \in SUBSET Entry
  /\ torn \in BOOLEAN
  /\ reader \in [state : {"header", "data", "crc"}, head : Entry \cup {None},
                data : Seq(Unit), entries : Seq(Entry)]
  /\ pos \in 0..Len(file)
  /\ len \in 0..Len(file)
  /\ checks \in 0..MaxCheck
  /\ crashes \in 0..MaxCrash

\* The last unit of an entry; and where, behind the last checkpoint of what recover
\* has read, entries end, which are then whole.
EndOf(e) == [kind |-> "data", entry |-> e, part |-> DataLen]
WholeAt ==
  {i \in 1..pos : /\ file[i].kind = "data" /\ file[i].part = DataLen
                  /\ \A j \in i..pos : file[j].kind # "checkpoint"}

(* As long as nothing was written behind a part of an entry, recover gives *)
(* back exactly the whole entries behind the last checkpoint, each once    *)
(* and in order, wherever the file ends and a failure cut it.  That the    *)
(* ones behind a checkpoint are given back is what the test                *)
(* checkpoint_clears_entries asks for (wal.rs:196-198); the comment on     *)
(* recover says otherwise (StopsAtCheckpoint).                             *)
RecoverExact ==
  ~torn =>
    LET got == reader.entries
    IN  /\ reader.state # "crc"
        /\ \A k \in DOMAIN got : \E i \in WholeAt : file[i].entry = got[k]
        /\ \A i \in WholeAt : \E k \in DOMAIN got : got[k] = file[i].entry
        /\ \A i, j \in WholeAt : \A k, l \in DOMAIN got :
             got[k] = file[i].entry /\ got[l] = file[j].entry => (k < l <=> i < j)

(* Even a torn log invents nothing: what recover returns was appended, in  *)
(* the order of the appends and at most once.                              *)
NothingInvented ==
  LET got == reader.entries
  IN  /\ \A k \in DOMAIN got : \E a \in DOMAIN appended : appended[a] = got[k]
      /\ \A k, l \in DOMAIN got : \A a, b \in DOMAIN appended :
           got[k] = appended[a] /\ got[l] = appended[b] => (k < l <=> a < b)

(* Two statements of the repository that the code does not keep.           *)

(* wal.rs:95: "Stops and returns `Ok` at a `Checkpoint` entry."  recover   *)
(* clears what it has and reads on, so it returns what lies behind one.    *)
StopsAtCheckpoint ==
  \A i \in 1..pos : file[i].kind = "checkpoint" =>
    \A k \in DOMAIN reader.entries : \E j \in 1..i : file[j] = EndOf(reader.entries[k])

(* wal.rs:94: "Replay a WAL file, yielding valid entries up to the first   *)
(* corruption."                                                            *)
YieldsUpToCorruption == reader.state # "crc"
=============================================================================
