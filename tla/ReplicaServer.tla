--------------------------- MODULE ReplicaServer ---------------------------
(***************************************************************************)
(* The replica's side of replication: InternalServiceImpl::replicate and   *)
(* apply_replica_entry.                                                    *)
(*                                                                         *)
(* Every stream a peer opens gets a task of its own, which takes the next  *)
(* entry, applies it to the local storage, and answers it on a bounded     *)
(* channel of acknowledgements.  The peer is external: it may put any      *)
(* entry on any open stream (the same one again, on the same stream or on  *)
(* a later one), break a stream at any time, and read acknowledgements     *)
(* when it likes.                                                          *)
(***************************************************************************)
EXTENDS Naturals, Sequences, FiniteSets

CONSTANTS
  Entry,      \* replication entries
  Record,     \* the entries whose bytes decode to a log, metric or span record;
              \* the others are empty, of an unknown type, or do not decode (a
              \* record with a body or an attribute never does, see StorageEngine)
  Stream,     \* streams, numbered in the order they are opened
  AckCap,     \* capacity of the channel of acknowledgements (256 in the code)
  MaxFeed     \* bound on the entries put on the streams

ASSUME ReplicaAssumption ==
  /\ Record \subseteq Entry
  /\ Stream \subseteq Nat \ {0}
  /\ AckCap \in Nat \ {0}
  /\ MaxFeed \in Nat

VARIABLES
  link,    \* each stream: "unused", "open", "closed" by the replica, or "broken"
  fed,     \* history: what the peer put on each stream
  wire,    \* what the task of each stream has still to take
  task,    \* where the task of each stream is
  stored,  \* what each application of an entry of a stream wrote to the replica's storage
  acks,    \* the channel of acknowledgements of each stream
  got      \* the acknowledgements the peer read

replicaVars == <<link, fed, wire, task, stored, acks, got>>

Ack == [entry : Entry, accepted : BOOLEAN]

\* A task waits for an entry, applies one, answers one, or has ended.
Task == [pc : {"recv"}] \cup [pc : {"apply"}, entry : Entry]
        \cup [pc : {"ack"}, ack : Ack] \cup [pc : {"ended"}]

ReplicaInit ==
  /\ link = [s \in Stream |-> "unused"]
  /\ fed = [s \in Stream |-> <<>>]
  /\ wire = [s \in Stream |-> <<>>]
  /\ task = [s \in Stream |-> [pc |-> "ended"]]
  /\ stored = [s \in Stream |-> <<>>]
  /\ acks = [s \in Stream |-> <<>>]
  /\ got = [s \in Stream |-> <<>>]

\* A peer calls Replicate: a channel and a task for the stream.
Open(s) ==
  /\ link[s] = "unused"
  /\ \A r \in Stream : r < s => link[r] # "unused"
  /\ link' = [link EXCEPT ![s] = "open"]
  /\ task' = [task EXCEPT ![s] = [pc |-> "recv"]]
  /\ UNCHANGED <<fed, wire, stored, acks, got>>

\* The places of a sequence for each stream, as pairs of a stream and a place in it.
PlacesOf(f) == UNION {{s} \X DOMAIN f[s] : s \in Stream}

\* The peer puts an entry on the stream.
Feed(s, e) ==
  /\ link[s] = "open"
  /\ Cardinality(PlacesOf(fed)) < MaxFeed
  /\ fed' = [fed EXCEPT ![s] = Append(@, e)]
  /\ wire' = [wire EXCEPT ![s] = Append(@, e)]
  /\ UNCHANGED <<link, task, stored, acks, got>>

\* stream.message() yields an entry; after a break it may still yield what had arrived.
Receive(s) ==
  /\ task[s].pc = "recv"
  /\ wire[s] # <<>>
  /\ task' = [task EXCEPT ![s] = [pc |-> "apply", entry |-> Head(wire[s])]]
  /\ wire' = [wire EXCEPT ![s] = Tail(@)]
  /\ UNCHANGED <<link, fed, stored, acks, got>>

\* Mutant of Outcome: an entry is accepted although write_batch failed.
Outcome_ignored(e, accepted, written) ==
  \/ accepted /\ written \in {{}, {e}}

\* apply_replica_entry: whether it returns Ok, and what it wrote.  A record is
\* written, or write_batch fails; anything else is Ok and not written.
Outcome(e, accepted, written) ==
  \/ e \in Record /\ accepted /\ written = {e}
  \/ e \in Record /\ ~accepted /\ written = {}
  \/ e \notin Record /\ accepted /\ written = {}

Apply(s) ==
  /\ task[s].pc = "apply"
  /\ \E accepted \in BOOLEAN, written \in {{}, {task[s].entry}} :
       /\ Outcome(task[s].entry, accepted, written)
       /\ stored' = [stored EXCEPT ![s] = Append(@, written)]
       /\ task' = [task EXCEPT ![s] =
                     [pc |-> "ack", ack |-> [entry |-> task[s].entry, accepted |-> accepted]]]
  /\ UNCHANGED <<link, fed, wire, acks, got>>

\* write_batch panics when it cannot open the partition or its log, before it
\* writes: the stream's task ends with its ends of the stream and of the channel.
ApplyPanics(s) ==
  /\ task[s].pc = "apply"
  /\ task[s].entry \in Record
  /\ task' = [task EXCEPT ![s] = [pc |-> "ended"]]
  /\ link' = [link EXCEPT ![s] = IF @ = "open" THEN "closed" ELSE @]
  /\ UNCHANGED <<fed, wire, stored, acks, got>>

\* Mutant of SendAck: a refused entry is not answered.
SendAck_accepted(s) ==
  /\ task[s].pc = "ack"
  /\ \/ /\ link[s] = "open"
        /\ Len(acks[s]) < AckCap
        /\ acks' = [acks EXCEPT ![s] = IF task[s].ack.accepted THEN Append(@, task[s].ack) ELSE @]
     \/ /\ link[s] = "broken"
        /\ UNCHANGED acks
  /\ task' = [task EXCEPT ![s] = [pc |-> "recv"]]
  /\ UNCHANGED <<link, fed, wire, stored, got>>

\* Mutant of SendAck: a refused entry ends the task.
SendAck_ends(s) ==
  /\ task[s].pc = "ack"
  /\ \/ /\ link[s] = "open"
        /\ Len(acks[s]) < AckCap
        /\ acks' = [acks EXCEPT ![s] = IF task[s].ack.accepted THEN Append(@, task[s].ack) ELSE @]
     \/ /\ link[s] = "broken"
        /\ UNCHANGED acks
  /\ task' = [task EXCEPT ![s] = [pc |-> IF task[s].ack.accepted THEN "recv" ELSE "ended"]]
  /\ UNCHANGED <<link, fed, wire, stored, got>>

\* tx.send(ack).await waits for room; once the peer is gone it fails, and the
\* failure is ignored.
SendAck(s) ==
  /\ task[s].pc = "ack"
  /\ \/ /\ link[s] = "open"
        /\ Len(acks[s]) < AckCap
        /\ acks' = [acks EXCEPT ![s] = Append(@, task[s].ack)]
     \/ /\ link[s] = "broken"
        /\ UNCHANGED acks
  /\ task' = [task EXCEPT ![s] = [pc |-> "recv"]]
  /\ UNCHANGED <<link, fed, wire, stored, got>>

\* stream.message() yields an error or the end: the task ends.
End(s) ==
  /\ task[s].pc = "recv"
  /\ link[s] = "broken"
  /\ task' = [task EXCEPT ![s] = [pc |-> "ended"]]
  /\ UNCHANGED <<link, fed, wire, stored, acks, got>>

\* The peer reads an acknowledgement; of a closed stream, what was sent before.
ReadAck(s) ==
  /\ link[s] \in {"open", "closed"}
  /\ acks[s] # <<>>
  /\ got' = [got EXCEPT ![s] = Append(@, Head(acks[s]))]
  /\ acks' = [acks EXCEPT ![s] = Tail(@)]
  /\ UNCHANGED <<link, fed, wire, task, stored>>

\* The connection breaks; the receiver of the acknowledgements is dropped.
Break(s) ==
  /\ link[s] \in {"open", "closed"}
  /\ link' = [link EXCEPT ![s] = "broken"]
  /\ acks' = [acks EXCEPT ![s] = <<>>]
  /\ UNCHANGED <<fed, wire, task, stored, got>>

TaskStep(s) == Receive(s) \/ Apply(s) \/ ApplyPanics(s) \/ SendAck(s) \/ End(s)

ReplicaNext ==
  \E s \in Stream :
    TaskStep(s) \/ Open(s) \/ ReadAck(s) \/ Break(s) \/ \E e \in Entry : Feed(s, e)

ReplicaSpec == ReplicaInit /\ [][ReplicaNext]_replicaVars

-----------------------------------------------------------------------------

ReplicaTypeOK ==
  /\ link \in [Stream -> {"unused", "open", "closed", "broken"}]
  /\ fed \in [Stream -> Seq(Entry)]
  /\ wire \in [Stream -> Seq(Entry)]
  /\ task \in [Stream -> Task]
  /\ stored \in [Stream -> Seq(SUBSET Entry)]
  /\ acks \in [Stream -> Seq(Ack)]
  /\ got \in [Stream -> Seq(Ack)]

EntriesOf(q) == [i \in DOMAIN q |-> q[i].entry]

\* The entry that the task of a stream has in hand.
InHand(s) ==
  CASE task[s].pc = "apply" -> <<task[s].entry>>
    [] task[s].pc = "ack"   -> <<task[s].ack.entry>>
    [] OTHER                -> <<>>

\* What the task of an unbroken stream answered, or has still to answer, in order.
Answering(s) == EntriesOf(got[s]) \o EntriesOf(acks[s]) \o InHand(s) \o wire[s]

\* On an open stream every entry is answered once, in the order the entries came;
\* a closed or broken stream answered a prefix of them.
AnsweredInOrder ==
  \A s \in Stream :
    /\ link[s] = "open" => Answering(s) = fed[s]
    /\ \A i \in DOMAIN got[s] : i <= Len(fed[s]) /\ got[s][i].entry = fed[s][i]

\* The i-th acknowledgement of a stream is of the i-th application of one of its
\* entries, and accepts a record exactly if that application wrote it: an entry sent
\* again after a break is written again, and no write is invented.
AcceptedIsStored ==
  \A s \in Stream :
    /\ \A i \in DOMAIN stored[s] : i \in DOMAIN fed[s] /\ stored[s][i] \subseteq {fed[s][i]} \cap Record
    /\ \A i \in DOMAIN got[s] :
         /\ i \in DOMAIN stored[s]
         /\ stored[s][i] # {} <=> got[s][i].accepted /\ got[s][i].entry \in Record

\* As long as the peer reads its acknowledgements and does not break the stream,
\* it gets an answer to everything it sent, or learns that the stream is closed.
EachAnswered ==
  \A s \in Stream :
    Len(got[s]) < Len(fed[s]) ~> (Len(got[s]) = Len(fed[s]) \/ link[s] \in {"closed", "broken"})
=============================================================================
