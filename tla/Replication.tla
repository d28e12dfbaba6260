---------------------------- MODULE Replication ----------------------------
(***************************************************************************)
(* The primary's side of replication: ReplicationEngine.                   *)
(*                                                                         *)
(* replicate runs on any number of threads at once.  A call draws its      *)
(* sequence number, and then for each replica looks up the address, takes  *)
(* a clone of the replica's sender from the map (creating channel and send *)
(* loop when there is none) and offers the entry to the channel without    *)
(* waiting.  The map's lock is released between taking the sender and      *)
(* using it, so other calls interleave there.                              *)
(*                                                                         *)
(* The send loop is the code's: it takes entries off the channel and       *)
(* counts them.  Its gRPC call is still to be written, so sent[n] is what  *)
(* the loops of n took, in the order they took it.  ack_count and          *)
(* min_ack_replicas feed one debug line and nothing else.                  *)
(***************************************************************************)
EXTENDS Naturals, Sequences

CONSTANTS
  Node,              \* node ids
  Replica,           \* the nodes replicate is called for
  Writer,            \* threads that call replicate
  BUFFER_PER_REPLICA,
  MaxCalls,          \* bound on the calls of replicate
  MaxDeaths          \* bound on the send loops that end without draining

ASSUME ReplicationAssumption ==
  /\ Replica \subseteq Node
  /\ BUFFER_PER_REPLICA \in Nat \ {0}
  /\ MaxCalls \in Nat
  /\ MaxDeaths \in Nat

VARIABLES
  view,       \* the nodes membership has an address for
  issued,     \* issued[s]: the call that drew number s, for which replicas, after which calls
  finished,   \* the calls that returned
  call,       \* what each thread is doing
  senders,    \* the map: the number of a node's channel, 0 for none
  chans,      \* the channels created for each node, oldest first
  sent,       \* what each node's loops took
  lost,       \* entries each node will not get: skipped, refused, or gone with a loop
  deaths,
  misremoved  \* history: a call removed a sender other than the closed one it held

replVars == <<view, issued, finished, call, senders, chans, sent, lost, deaths, misremoved>>

Number == 1..MaxCalls

\* A call of replicate: its number (0 for none), the replicas still to do, and
\* the sender clone it holds, as {} or {<<node, channel>>}.
Call == [seq : 0..MaxCalls, todo : SUBSET Replica, held : SUBSET (Replica \X (1..MaxCalls))]

Idle == [seq |-> 0, todo |-> {}, held |-> {}]

\* A channel: the entries waiting and whether the loop that receives runs.
Chan == [queue : Seq(Number), open : BOOLEAN]

ReplInit ==
  /\ view = {}
  /\ issued = <<>>
  /\ finished = {}
  /\ call = [w \in Writer |-> Idle]
  /\ senders = [n \in Replica |-> 0]
  /\ chans = [n \in Replica |-> <<>>]
  /\ sent = [n \in Replica |-> <<>>]
  /\ lost = [n \in Replica |-> {}]
  /\ deaths = 0
  /\ misremoved = FALSE

\* replicate: fetch_add gives the call its number.
Begin(w, R) ==
  /\ call[w] = Idle
  /\ Len(issued) < MaxCalls
  /\ issued' = Append(issued, [to |-> R, after |-> finished])
  /\ call' = [call EXCEPT ![w] = [seq |-> Len(issued) + 1, todo |-> R, held |-> {}]]
  /\ UNCHANGED <<view, finished, senders, chans, sent, lost, deaths, misremoved>>

\* The loop's `continue` for a replica without an address.
Skip(w, n) ==
  /\ n \in call[w].todo
  /\ call[w].held = {}
  /\ n \notin view
  /\ call' = [call EXCEPT ![w].todo = @ \ {n}]
  /\ lost' = [lost EXCEPT ![n] = @ \cup {call[w].seq}]
  /\ UNCHANGED <<view, issued, finished, senders, chans, sent, deaths, misremoved>>

\* Mutant of get_or_create_sender: a sender is created, and replaces the one in
\* the map, although there is one.
get_or_create_sender_anew(w, n) ==
  /\ chans' = [chans EXCEPT ![n] = Append(@, [queue |-> <<>>, open |-> TRUE])]
  /\ senders' = [senders EXCEPT ![n] = Len(chans[n]) + 1]
  /\ call' = [call EXCEPT ![w].held = {<<n, Len(chans[n]) + 1>>}]

\* The sender in the map, or a new channel with a loop of its own.
get_or_create_sender(w, n) ==
  \/ /\ senders[n] # 0
     /\ call' = [call EXCEPT ![w].held = {<<n, senders[n]>>}]
     /\ UNCHANGED <<senders, chans>>
  \/ /\ senders[n] = 0
     /\ chans' = [chans EXCEPT ![n] = Append(@, [queue |-> <<>>, open |-> TRUE])]
     /\ senders' = [senders EXCEPT ![n] = Len(chans[n]) + 1]
     /\ call' = [call EXCEPT ![w].held = {<<n, Len(chans[n]) + 1>>}]

\* The address is known: take a sender.
Take(w, n) ==
  /\ n \in call[w].todo
  /\ call[w].held = {}
  /\ n \in view
  /\ get_or_create_sender(w, n)
  /\ UNCHANGED <<view, issued, finished, sent, lost, deaths, misremoved>>

\* Mutant of Queued: the entry is offered a second time after it was taken.
Queued_twice(w, n, g) ==
  /\ chans[n][g].open
  /\ Len(chans[n][g].queue) < BUFFER_PER_REPLICA
  /\ chans' = [chans EXCEPT ![n][g].queue =
                 IF Len(@) + 1 < BUFFER_PER_REPLICA THEN @ \o <<call[w].seq, call[w].seq>>
                 ELSE Append(@, call[w].seq)]
  /\ UNCHANGED <<senders, misremoved>>
  /\ lost' = IF Len(chans[n][g].queue) + 1 < BUFFER_PER_REPLICA THEN lost
             ELSE [lost EXCEPT ![n] = @ \cup {call[w].seq}]

\* try_send took the entry.
Queued(w, n, g) ==
  /\ chans[n][g].open
  /\ Len(chans[n][g].queue) < BUFFER_PER_REPLICA
  /\ chans' = [chans EXCEPT ![n][g].queue = Append(@, call[w].seq)]
  /\ UNCHANGED <<senders, lost, misremoved>>

\* try_send found the channel full: the entry is dropped for this replica.
Full(w, n, g) ==
  /\ chans[n][g].open
  /\ Len(chans[n][g].queue) >= BUFFER_PER_REPLICA
  /\ lost' = [lost EXCEPT ![n] = @ \cup {call[w].seq}]
  /\ UNCHANGED <<chans, senders, misremoved>>

\* try_send found the loop gone: whatever sender the map has now is removed.
Closed(w, n, g) ==
  /\ ~chans[n][g].open
  /\ senders' = [senders EXCEPT ![n] = 0]
  /\ lost' = [lost EXCEPT ![n] = @ \cup {call[w].seq}]
  /\ misremoved' = (misremoved \/ senders[n] \notin {0, g})
  /\ UNCHANGED chans

\* try_send with the sender the call holds; the clone is dropped after it.
TrySend(w) ==
  \E tx \in call[w].held :
    /\ \/ Queued(w, tx[1], tx[2])
       \/ Full(w, tx[1], tx[2])
       \/ Closed(w, tx[1], tx[2])
    /\ call' = [call EXCEPT ![w].todo = @ \ {tx[1]}, ![w].held = {}]
    /\ UNCHANGED <<view, issued, finished, sent, deaths>>

\* replicate returns.
Return(w) ==
  /\ call[w].seq # 0
  /\ call[w].todo = {}
  /\ finished' = finished \cup {call[w].seq}
  /\ call' = [call EXCEPT ![w] = Idle]
  /\ UNCHANGED <<view, issued, senders, chans, sent, lost, deaths, misremoved>>

\* replica_send_loop takes the next entry.
replica_send_loop(n, g) ==
  /\ chans[n][g].open
  /\ chans[n][g].queue # <<>>
  /\ sent' = [sent EXCEPT ![n] = Append(@, Head(chans[n][g].queue))]
  /\ chans' = [chans EXCEPT ![n][g].queue = Tail(@)]
  /\ UNCHANGED <<view, issued, finished, call, senders, lost, deaths, misremoved>>

\* recv returns None: the channel is empty and no sender of it is left.
LoopExits(n, g) ==
  /\ chans[n][g].open
  /\ chans[n][g].queue = <<>>
  /\ senders[n] # g
  /\ \A w \in Writer : <<n, g>> \notin call[w].held
  /\ chans' = [chans EXCEPT ![n][g].open = FALSE]
  /\ UNCHANGED <<view, issued, finished, call, senders, sent, lost, deaths, misremoved>>

Entries(q) == {q[i] : i \in DOMAIN q}

\* The loop's task ends without draining; the receiver and what it held go with it.
LoopDies(n, g) ==
  /\ deaths < MaxDeaths
  /\ chans[n][g].open
  /\ deaths' = deaths + 1
  /\ lost' = [lost EXCEPT ![n] = @ \cup Entries(chans[n][g].queue)]
  /\ chans' = [chans EXCEPT ![n][g] = [queue |-> <<>>, open |-> FALSE]]
  /\ UNCHANGED <<view, issued, finished, call, senders, sent, misremoved>>

\* Membership gains or loses a node.
ViewChanges(n) ==
  /\ view' = IF n \in view THEN view \ {n} ELSE view \cup {n}
  /\ UNCHANGED <<issued, finished, call, senders, chans, sent, lost, deaths, misremoved>>

CallStep(w) == TrySend(w) \/ Return(w) \/ \E n \in Replica : Skip(w, n) \/ Take(w, n)

LoopStep(n) == \E g \in DOMAIN chans[n] : replica_send_loop(n, g) \/ LoopExits(n, g)

ReplNext ==
  \/ \E w \in Writer : CallStep(w) \/ \E R \in SUBSET Replica : Begin(w, R)
  \/ \E n \in Replica : LoopStep(n) \/ \E g \in DOMAIN chans[n] : LoopDies(n, g)
  \/ \E n \in Replica : ViewChanges(n)

\* The engine on its own, while any node joins and leaves.
EngineNext == ReplNext \/ \E n \in Node : ViewChanges(n)

ReplSpec == ReplInit /\ [][EngineNext]_replVars

-----------------------------------------------------------------------------

ReplTypeOK ==
  /\ view \subseteq Node
  /\ issued \in Seq([to : SUBSET Replica, after : SUBSET Number])
  /\ Len(issued) <= MaxCalls
  /\ finished \subseteq Number
  /\ call \in [Writer -> Call]
  /\ chans \in [Replica -> Seq(Chan)]
  /\ \A n \in Replica : Len(chans[n]) <= MaxCalls
  /\ senders \in [Replica -> 0..MaxCalls]
  /\ sent \in [Replica -> Seq(Number)]
  /\ lost \in [Replica -> SUBSET Number]
  /\ deaths \in 0..MaxDeaths
  /\ misremoved \in BOOLEAN

\* The loops of a replica: one at a time receives, the one whose sender is in
\* the map - unless a call that held a closed sender removed its healthy
\* successor from the map (replicate's Closed arm removes by node id).
OneLoop ==
  ~misremoved =>
    \A n \in Replica : \A g \in DOMAIN chans[n] : chans[n][g].open => senders[n] = g

\* Where entry s is for replica n: place i of channel g, the i-th the loops took, lost.
Places(n, s) ==
  LET waiting(g) == {i \in DOMAIN chans[n][g].queue : chans[n][g].queue[i] = s}
      taken == {i \in DOMAIN sent[n] : sent[n][i] = s}
  IN  (UNION {{<<"waits", g, i>> : i \in waiting(g)} : g \in DOMAIN chans[n]})
      \cup {<<"taken", 0, i>> : i \in taken}
      \cup {<<"lost", 0, 0>> : t \in {s} \cap lost[n]}

\* An entry goes to each replica of its call once: it waits in one place of one
\* channel, or was taken by one loop once, or is lost, never two of these; and
\* when the call has returned it is one of them.
EachOnce ==
  \A n \in Replica : \A s \in DOMAIN issued :
    /\ \A p, q \in Places(n, s) : p = q
    /\ s \in finished /\ n \in issued[s].to => Places(n, s) # {}
    /\ Places(n, s) # {} => n \in issued[s].to

\* An entry whose call began after another call returned is not taken before
\* that call's entry, as long as one loop serves the replica.  Calls that overlap
\* may be taken in either order whatever their sequence numbers.
CallOrder ==
  ~misremoved =>
    \A n \in Replica : \A i, j \in DOMAIN sent[n] :
      i < j => sent[n][j] \notin issued[sent[n][i]].after

\* replicate never waits for a replica: a call returns whether or not any send
\* loop runs (no fairness is assumed of them).
CallReturns ==
  \A w \in Writer : call[w].seq # 0 ~> call[w].seq = 0
=============================================================================
