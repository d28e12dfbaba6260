----------------------------- MODULE DataPlane -----------------------------
(***************************************************************************)
(* What the nodes of a cluster do with each other's data, around the view  *)
(* membership keeps: the replication engine of a primary, the replicate    *)
(* handler of a replica, and the scatter/gather executor of a coordinator. *)
(*                                                                         *)
(* The engine's send loops do not call the handler yet (their gRPC call is *)
(* a stub), and query_shard does not read storage yet, so the three parts  *)
(* meet only in the view.  A behaviour follows one of them, named by part, *)
(* with the view changing under it.                                        *)
(***************************************************************************)
EXTENDS Replication, ReplicaServer, ScatterGather

VARIABLE part   \* the part this behaviour follows

vars == <<replVars, replicaVars, scatterVars, part>>

Init ==
  /\ ReplInit
  /\ ReplicaInit
  /\ ScatterInit
  /\ part \in {"replication", "replica", "scatter"}

Next ==
  /\ UNCHANGED part
  /\ \/ part = "replication" /\ ReplNext /\ UNCHANGED <<replicaVars, scatterVars>>
     \/ part = "replica" /\ ReplicaNext /\ UNCHANGED <<replVars, scatterVars>>
     \/ part = "scatter" /\ ScatterNext(view) /\ UNCHANGED <<replVars, replicaVars>>
     \/ part = "scatter" /\ (\E n \in Node : ViewChanges(n)) /\ UNCHANGED <<replicaVars, scatterVars>>

Spec == Init /\ [][Next]_vars

\* A thread in replicate goes on: the function has no await.
CallFair == \A w \in Writer : WF_vars(part = "replication" /\ CallStep(w) /\ UNCHANGED <<replicaVars, scatterVars, part>>)

\* Some send loop of a replica with an entry to take is polled.
LoopFair ==
  \A n \in Replica :
    WF_vars(/\ part = "replication" /\ (\E g \in DOMAIN chans[n] : replica_send_loop(n, g))
            /\ UNCHANGED <<replicaVars, scatterVars, part>>)

\* A stream's task is polled, and the peer reads.
StreamFair ==
  \A s \in Stream :
    /\ WF_vars(part = "replica" /\ TaskStep(s) /\ UNCHANGED <<replVars, scatterVars, part>>)
    /\ WF_vars(part = "replica" /\ ReadAck(s) /\ UNCHANGED <<replVars, scatterVars, part>>)

\* A shard that was called goes on to its last response (or its stream breaks),
\* and the executor joins its tasks.
ShardFair ==
  /\ \A n \in Target :
       WF_vars(/\ part = "scatter" /\ (ShardResponds(n) \/ ShardLast(n) \/ join_next(n))
               /\ UNCHANGED <<replVars, replicaVars, part>>)
  /\ WF_vars(part = "scatter" /\ Gathered /\ UNCHANGED <<replVars, replicaVars, part>>)

FairSpec == Spec /\ CallFair /\ StreamFair /\ ShardFair

-----------------------------------------------------------------------------

\* The types of the three parts' states.
TypeOK == ReplTypeOK /\ ReplicaTypeOK /\ ScatterTypeOK

\* If the send loops are polled, the channels of a replica run empty once calls
\* cease (MaxCalls of them): what is in a channel is taken by its loop or lost
\* with it, even when its sender is no longer in the map, because recv gives the
\* loop every entry before it gives it None.
QueuesDrain ==
  LoopFair =>
    \A n \in Replica :
      (\E g \in DOMAIN chans[n] : chans[n][g].queue # <<>>)
        ~> (\A g \in DOMAIN chans[n] : chans[n][g].queue = <<>>)

\* Nobody waits for ever.  A call of replicate returns whether or not a replica's
\* loop runs; entries leave the queues; a peer that reads is answered; and execute
\* returns if the shards it called go on, although it has no timeout.
Progress == CallReturns /\ QueuesDrain /\ EachAnswered /\ ExecuteReturns
=============================================================================
