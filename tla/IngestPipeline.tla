--------------------------- MODULE IngestPipeline ---------------------------
(***************************************************************************)
(* The way of a batch from an OTLP handler, over gRPC or HTTP, through the *)
(* bounded channel of the IngestPipeline and its one writer task to the    *)
(* storage engine, together with the server's shutdown.                    *)
(*                                                                         *)
(* Handlers run concurrently, one for each request.  A client sends its    *)
(* batch again after a 429 and when no answer comes; clients are external, *)
(* and so is the engine here: write_batch stores a batch or returns Err,   *)
(* which it does for every batch once close has begun.  Opening a WAL or a *)
(* partition that cannot be opened panics, which ends the writer task      *)
(* alone.                                                                  *)
(***************************************************************************)
EXTENDS Naturals, Sequences, SequencesExt, FiniteSets

CONSTANTS
  Batch,      \* batches; each is what one client wants stored
  Malformed,  \* those a handler cannot decode
  Depth,      \* buffer_depth
  Faults,     \* TRUE when write_batch may fail or panic
  MaxSend     \* bound on how often a client sends its batch

ASSUME IngestAssumption ==
  /\ Malformed \subseteq Batch
  /\ Depth \in Nat \ {0}
  /\ Faults \in BOOLEAN
  /\ MaxSend \in Nat

VARIABLES
  client,    \* what each client does: ready to send, waiting, or done
  request,   \* each client's request: none, sent, or answered with a status
  sends,     \* how often each client has sent its batch
  queue,     \* the channel
  hand,      \* the batch the writer task is writing, as a sequence
  open,      \* the engine was open when the writer task took that batch
  alive,     \* the writer task has not panicked
  phase,     \* the server: serving, closing, exited
  accepted,  \* history: batches put into the channel, in order
  handled,   \* history: batches the writer task is done with, in order
  stored,    \* history: those of them that write_batch stored
  unheard    \* history: how many answers of status 200 each client missed

vars == <<client, request, sends, queue, hand, open, alive, phase,
          accepted, handled, stored, unheard>>

Init ==
  /\ client = [b \in Batch |-> "ready"]
  /\ request = [b \in Batch |-> "none"]
  /\ sends = [b \in Batch |-> 0]
  /\ queue = <<>>
  /\ hand = <<>>
  /\ open = TRUE
  /\ alive = TRUE
  /\ phase = "serving"
  /\ accepted = <<>>
  /\ handled = <<>>
  /\ stored = <<>>
  /\ unheard = [b \in Batch |-> 0]

Running == phase # "exited"
-----------------------------------------------------------------------------
Send(b) ==
  /\ Running
  /\ client[b] = "ready"
  /\ sends[b] < MaxSend
  /\ client' = [client EXCEPT ![b] = "waiting"]
  /\ request' = [request EXCEPT ![b] = "sent"]
  /\ sends' = [sends EXCEPT ![b] = @ + 1]
  /\ UNCHANGED <<queue, hand, open, alive, phase, accepted, handled, stored, unheard>>

(* The handler cannot decode the body, or does not know its content type.  *)
Reject(b) ==
  /\ Running
  /\ request[b] = "sent"
  /\ b \in Malformed
  /\ request' = [request EXCEPT ![b] = "400"]
  /\ UNCHANGED <<client, sends, queue, hand, open, alive, phase, accepted, handled, stored, unheard>>

HasRoom == Len(queue) < Depth

\* Mutant of Status: a batch that fills the channel is answered as if it had not fit.
StatusOfLast(b) == IF Len(queue) + 1 < Depth THEN "200" ELSE "429"
Status(b) == "200"

(* submit: try_send puts the batch into the channel ...                    *)
SubmitOk(b) ==
  /\ Running
  /\ request[b] = "sent"
  /\ b \notin Malformed
  /\ alive
  /\ HasRoom
  /\ queue' = Append(queue, b)
  /\ accepted' = Append(accepted, b)
  /\ request' = [request EXCEPT ![b] = Status(b)]
  /\ UNCHANGED <<client, sends, hand, open, alive, phase, handled, stored, unheard>>

(* ... or finds it full, or closed; both are BufferFull, which the handler *)
(* takes for back-pressure.                                                *)
SubmitFull(b) ==
  /\ Running
  /\ request[b] = "sent"
  /\ b \notin Malformed
  /\ ~alive \/ ~HasRoom
  /\ request' = [request EXCEPT ![b] = "429"]
  /\ UNCHANGED <<client, sends, queue, hand, open, alive, phase, accepted, handled, stored, unheard>>

(* The answer arrives.                                                     *)
Answer(b) ==
  /\ Running
  /\ request[b] \in {"200", "400", "429"}
  /\ client' = [client EXCEPT ![b] = IF request[b] = "429" THEN "ready" ELSE "done"]
  /\ request' = [request EXCEPT ![b] = "none"]
  /\ UNCHANGED <<sends, queue, hand, open, alive, phase, accepted, handled, stored, unheard>>

(* The client hears nothing: the request or the answer is lost, the client *)
(* times out, or the server is gone.                                       *)
NoAnswer(b) ==
  /\ client[b] = "waiting"
  /\ client' = [client EXCEPT ![b] = "ready"]
  /\ request' = [request EXCEPT ![b] = "none"]
  /\ unheard' = [unheard EXCEPT ![b] = IF request[b] = "200" THEN @ + 1 ELSE @]
  /\ UNCHANGED <<sends, queue, hand, open, alive, phase, accepted, handled, stored>>
-----------------------------------------------------------------------------
\* Mutant of CanReceive: the task waits for a chunk of batches.
CanReceiveChunk == Len(queue) = Depth
CanReceive == queue # <<>>

(* writer_task receives a batch and calls write_batch, which looks first   *)
(* whether the engine is closed.                                           *)
Receive ==
  /\ Running
  /\ alive
  /\ hand = <<>>
  /\ CanReceive
  /\ hand' = <<Head(queue)>>
  /\ queue' = Tail(queue)
  /\ open' = (phase = "serving")
  /\ UNCHANGED <<client, request, sends, alive, phase, accepted, handled, stored, unheard>>

WriteOk ==
  /\ Running
  /\ hand # <<>>
  /\ open
  /\ handled' = handled \o hand
  /\ stored' = stored \o hand
  /\ hand' = <<>>
  /\ UNCHANGED <<client, request, sends, queue, open, alive, phase, accepted, unheard>>

\* Mutant of WriteErr: the batch is put back.
WriteErrRequeues ==
  /\ Running
  /\ hand # <<>>
  /\ Faults \/ ~open
  /\ queue' = queue \o hand
  /\ hand' = <<>>
  /\ UNCHANGED <<client, request, sends, open, alive, phase, accepted, handled, stored, unheard>>

(* The error is logged and counted and the batch is dropped.               *)
WriteErr ==
  /\ Running
  /\ hand # <<>>
  /\ Faults \/ ~open
  /\ handled' = handled \o hand
  /\ hand' = <<>>
  /\ UNCHANGED <<client, request, sends, queue, open, alive, phase, accepted, stored, unheard>>

(* The writer task panics.  Its receiver goes with it, and what was in the *)
(* channel.                                                                *)
WriterPanics ==
  /\ Running
  /\ Faults
  /\ hand # <<>>
  /\ open
  /\ alive' = FALSE
  /\ hand' = <<>>
  /\ queue' = <<>>
  /\ UNCHANGED <<client, request, sends, open, phase, accepted, handled, stored, unheard>>

(* Ctrl-C, or one of the two servers ends: main calls close, with handlers *)
(* and writer task still at work ...                                       *)
Shutdown ==
  /\ phase = "serving"
  /\ phase' = "closing"
  /\ UNCHANGED <<client, request, sends, queue, hand, open, alive, accepted, handled, stored, unheard>>

(* ... and returns when close does; the runtime drops every task.          *)
Exit ==
  /\ phase = "closing"
  /\ phase' = "exited"
  /\ UNCHANGED <<client, request, sends, queue, hand, open, alive, accepted, handled, stored, unheard>>

Next ==
  \/ \E b \in Batch : \/ Send(b) \/ Reject(b) \/ SubmitOk(b) \/ SubmitFull(b)
                      \/ Answer(b) \/ NoAnswer(b)
  \/ Receive \/ WriteOk \/ WriteErr \/ WriterPanics
  \/ Shutdown \/ Exit

Spec == Init /\ [][Next]_vars

(* The runtime keeps running the writer task, and close returns (CloseReturns *)
(* of StorageEngine).                                                         *)
Fairness == WF_vars(Receive) /\ WF_vars(WriteOk \/ WriteErr \/ WriterPanics) /\ WF_vars(Exit)
FairSpec == Spec /\ Fairness
-----------------------------------------------------------------------------
TypeOK ==
  /\ client \in [Batch -> {"ready", "waiting", "done"}]
  /\ request \in [Batch -> {"none", "sent", "200", "400", "429"}]
  /\ sends \in [Batch -> 0..MaxSend]
  /\ queue \in Seq(Batch) /\ Len(queue) <= Depth
  /\ hand \in Seq(Batch) /\ Len(hand) <= 1
  /\ open \in BOOLEAN
  /\ alive \in BOOLEAN
  /\ phase \in {"serving", "closing", "exited"}
  /\ accepted \in Seq(Batch)
  /\ handled \in Seq(Batch)
  /\ stored \in Seq(Batch)
  /\ unheard \in [Batch -> Nat]

(* While the writer task lives, what was accepted is what it is done with, *)
(* what it has in hand and what is in the channel, in this order: no batch *)
(* is skipped, overtaken or written twice, whatever fails.                 *)
HandledInOrder == alive => accepted = handled \o hand \o queue

Times(s, b) == Cardinality({i \in 1..Len(s) : s[i] = b})

(* A 400 or 429 means that nothing of the request stays behind: a batch is *)
(* stored no more often than its client was told 200 or missed being told. *)
OncePerAnswer ==
  \A b \in Batch :
    /\ Times(stored, b) <= Times(accepted, b)
    /\ Times(accepted, b) = unheard[b] + (IF \/ request[b] = "200"
                                             \/ client[b] = "done" /\ b \notin Malformed
                                          THEN 1 ELSE 0)

(* Every accepted batch is handled in the end, however many come after it, *)
(* unless the writer task panics or the server exits first.                *)
AcceptedHandled ==
  \A i \in 1..(MaxSend * Cardinality(Batch)) :
    (Len(accepted) >= i) ~> (Len(handled) >= i \/ ~alive \/ ~Running)
=============================================================================
