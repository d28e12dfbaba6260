----------------------------- MODULE Membership -----------------------------
(***************************************************************************)
(* Cluster membership over etcd, the consistent hash ring every node keeps *)
(* in its ClusterView, and the shard router that reads it.                 *)
(*                                                                         *)
(* etcd itself is external: a registry of leased keys and, for each watch, *)
(* the events since the watch was created, in order.  A node registers,    *)
(* reads the registry, and only then creates its watch; from then on it    *)
(* applies events to its view.  Leases expire when a node is down, and may *)
(* expire while it runs (it is cut off, or slow to join).  A view only     *)
(* reads etcd, so an instance may follow the views of some nodes and let   *)
(* the others register, run and crash.                                     *)
(***************************************************************************)
EXTENDS Naturals, Sequences, FiniteSets, FiniteSetsExt, SequencesExt

CONSTANTS
  Node,       \* node ids
  Viewer,     \* the nodes whose views are followed
  Size,       \* size of the ring (2^64 in the code)
  Pos,        \* Pos[n]: the positions of n's virtual nodes
  Key,        \* hashes of the series keys looked up
  RepFactor,  \* replication_factor
  MaxStart    \* bound on the number of registrations

(* No two virtual nodes of different nodes hash to the same position.      *)
ASSUME MembershipAssumption ==
  /\ Viewer \subseteq Node
  /\ Size \in Nat \ {0}
  /\ Pos \in [Node -> (SUBSET (0..Size-1)) \ {{}}]
  /\ \A m, n \in Node : m # n => Pos[m] \cap Pos[n] = {}
  /\ Key \subseteq 0..Size-1
  /\ RepFactor \in Nat \ {0}
  /\ MaxStart \in Nat

VARIABLES
  pc,      \* where each node is in join
  view,    \* each node's ClusterView
  reg,     \* etcd: the registration under each node's key, 0 for none
  stream,  \* etcd: events on their way to each node's watch
  gap,     \* history: nodes with an event between load_view and watch, and none since
  starts   \* number of registrations so far

vars == <<pc, view, reg, stream, gap, starts>>

NodeMeta == [id : Node, start : 1..MaxStart]
VirtualNode == [pos : 0..Size-1, node : Node]
ClusterView == [nodes : SUBSET NodeMeta, ring : SUBSET VirtualNode]
Event == [node : Node, start : 0..MaxStart]   \* Put, or Delete when start is 0

EmptyView == [nodes |-> {}, ring |-> {}]
-----------------------------------------------------------------------------
(* The ring.  Inserting at a taken position replaces what is there, and a  *)
(* removal takes whatever is at the node's positions.                      *)
VirtualNodes(n) == {[pos |-> p, node |-> n] : p \in Pos[n]}
add_node(r, n) == {v \in r : v.pos \notin Pos[n]} \cup VirtualNodes(n)

\* Mutant of remove_node: the last virtual node is left.
remove_node_but_last(r, n) == {v \in r : v.pos \notin Pos[n] \ {Max(Pos[n])}}
remove_node(r, n) == {v \in r : v.pos \notin Pos[n]}

Positions(r) == {v.pos : v \in r}
NodeAt(r, p) == (CHOOSE v \in r : v.pos = p).node
Sorted(S) == [i \in 1..Cardinality(S) |-> CHOOSE p \in S : Cardinality({q \in S : q < p}) = i - 1]

\* Mutant of primary_for: the hash is an index into the positions.
primary_for_index(r, k) ==
  LET ps == Sorted(Positions(r)) IN NodeAt(r, ps[1 + (k % Len(ps))])

(* The first position at or after the key, or else the first of all.       *)
primary_for(r, k) ==
  LET ps == Positions(r)
      after == {p \in ps : p >= k}
  IN  NodeAt(r, IF after # {} THEN Min(after) ELSE Min(ps))

\* Mutant of Clockwise: the second pass over the ring is missing.
ClockwiseOnce(r, k) == Sorted({p \in Positions(r) : p >= k})
Clockwise(r, k) == Sorted({p \in Positions(r) : p >= k}) \o Sorted(Positions(r))

(* Up to count distinct nodes, in clockwise order.                         *)
replica_nodes(r, k, count) ==
  FoldLeft(LAMBDA found, p : LET n == NodeAt(r, p)
                             IN  IF Len(found) >= count \/ Contains(found, n)
                                 THEN found ELSE Append(found, n),
           <<>>, Clockwise(r, k))

(* The routing decision of a node for a key; on an empty ring it is the    *)
(* primary itself.                                                         *)
route(n, k) ==
  LET r == view[n].ring
      primary == IF r = {} THEN n ELSE primary_for(r, k)
      others == IF r = {} THEN <<>>
                ELSE SelectSeq(replica_nodes(r, k, RepFactor), LAMBDA m : m # primary)
  IN  [primary  |-> primary,
       replicas |-> SubSeq(others, 1, Min({RepFactor - 1, Len(others)})),
       is_local |-> primary = n]
-----------------------------------------------------------------------------
Init ==
  /\ pc = [n \in Node |-> "down"]
  /\ view = [n \in Node |-> EmptyView]
  /\ reg = [n \in Node |-> 0]
  /\ stream = [n \in Node |-> <<>>]
  /\ gap = [n \in Node |-> {}]
  /\ starts = 0

(* etcd tells every watch of a change.  A node between load_view and watch *)
(* is not told.                                                            *)
Publish(e) ==
  /\ reg' = [reg EXCEPT ![e.node] = e.start]
  /\ stream' = [n \in Node |-> IF pc[n] = "watching" THEN Append(stream[n], e) ELSE stream[n]]
  /\ gap' = [n \in Node |-> CASE pc[n] = "loaded"   -> gap[n] \cup {e.node}
                              [] pc[n] = "watching" -> gap[n] \ {e.node}
                              [] OTHER              -> gap[n]]

(* join: the lease is granted and the node's key put.                      *)
Register(n) ==
  /\ pc[n] = "down"
  /\ starts < MaxStart
  /\ starts' = starts + 1
  /\ Publish([node |-> n, start |-> starts + 1])
  /\ pc' = [pc EXCEPT ![n] = "registered"]
  /\ UNCHANGED view

(* load_view: a ring and a node list of what is registered.                *)
load_view ==
  LET here == {m \in Node : reg[m] # 0}
  IN  [nodes |-> {[id |-> m, start |-> reg[m]] : m \in here},
       ring  |-> UNION {VirtualNodes(m) : m \in here}]

LoadView(n) ==
  /\ n \in Viewer
  /\ pc[n] = "registered"
  /\ view' = [view EXCEPT ![n] = load_view]
  /\ pc' = [pc EXCEPT ![n] = "loaded"]
  /\ UNCHANGED <<reg, stream, gap, starts>>

(* join returns Err after the key was put.  The node has no view; if the   *)
(* refresh task was spawned already it goes on refreshing the lease.       *)
JoinFails(n) ==
  /\ pc[n] \in {"registered", "loaded"}
  /\ pc' = [pc EXCEPT ![n] = "failed"]
  /\ view' = [view EXCEPT ![n] = EmptyView]
  /\ gap' = [gap EXCEPT ![n] = {}]
  /\ UNCHANGED <<reg, stream, starts>>

(* watch_membership creates its watch, from etcd's current revision on ... *)
StartWatch(n) ==
  /\ pc[n] = "loaded"
  /\ pc' = [pc EXCEPT ![n] = "watching"]
  /\ UNCHANGED <<view, reg, stream, gap, starts>>

(* ... or fails to, or its stream ends.  Either way the task returns, and  *)
(* the view stays as it is.                                                *)
WatchReturns(n) ==
  /\ pc[n] \in {"loaded", "watching"}
  /\ pc' = [pc EXCEPT ![n] = "unwatched"]
  /\ stream' = [stream EXCEPT ![n] = <<>>]
  /\ gap' = [gap EXCEPT ![n] = {}]
  /\ UNCHANGED <<view, reg, starts>>

(* What an event does to a view, under its write lock.                     *)
OnPut(v, e) ==
  [nodes |-> {m \in v.nodes : m.id # e.node} \cup {[id |-> e.node, start |-> e.start]},
   ring  |-> add_node(v.ring, e.node)]
\* Mutant of OnDelete: the entry stays in the list.
OnDeleteRingOnly(v, e) == [v EXCEPT !.ring = remove_node(v.ring, e.node)]
OnDelete(v, e) ==
  [nodes |-> {m \in v.nodes : m.id # e.node}, ring |-> remove_node(v.ring, e.node)]

Deliver(n) ==
  /\ stream[n] # <<>>
  /\ LET e == Head(stream[n])
     IN  view' = [view EXCEPT ![n] = IF e.start # 0 THEN OnPut(@, e) ELSE OnDelete(@, e)]
  /\ stream' = [stream EXCEPT ![n] = Tail(@)]
  /\ UNCHANGED <<pc, reg, gap, starts>>

(* The process dies.                                                       *)
Crash(n) ==
  /\ pc[n] # "down"
  /\ pc' = [pc EXCEPT ![n] = "down"]
  /\ view' = [view EXCEPT ![n] = EmptyView]
  /\ stream' = [stream EXCEPT ![n] = <<>>]
  /\ gap' = [gap EXCEPT ![n] = {}]
  /\ UNCHANGED <<reg, starts>>

(* The lease of a node's key expires, fifteen seconds after it was last    *)
(* refreshed.  A node that is up stays up and does not register again.     *)
LeaseExpires(n) ==
  /\ reg[n] # 0
  /\ Publish([node |-> n, start |-> 0])
  /\ UNCHANGED <<pc, view, starts>>

Next ==
  \E n \in Node :
    \/ Register(n) \/ LoadView(n) \/ JoinFails(n) \/ StartWatch(n) \/ WatchReturns(n)
    \/ Deliver(n) \/ Crash(n) \/ LeaseExpires(n)

Spec == Init /\ [][Next]_vars

(* etcd expires the lease of a node that is down, and events reach a watch *)
(* that stays open.                                                        *)
Fairness ==
  \A n \in Node :
    /\ WF_vars(pc[n] = "down" /\ LeaseExpires(n))
    /\ WF_vars(Deliver(n))
FairSpec == Spec /\ Fairness
-----------------------------------------------------------------------------
\* A view has one entry for a node at most.
OneEntry(v) == \A a, b \in v.nodes : a.id = b.id => a = b

TypeOK ==
  /\ pc \in [Node -> {"down", "registered", "loaded", "watching", "unwatched", "failed"}]
  /\ view \in [Node -> ClusterView]
  /\ \A n \in Node : OneEntry(view[n])
  /\ reg \in [Node -> 0..MaxStart]
  /\ stream \in [Node -> Seq(Event)]
  /\ gap \in [Node -> SUBSET Node]
  /\ starts \in 0..MaxStart

Members(v) == {m.id : m \in v.nodes}

(* The ring of a view holds exactly the virtual nodes of the nodes in its  *)
(* list, although the two are kept by separate updates.                    *)
RingMatches ==
  \A n \in Node : view[n].ring = UNION {VirtualNodes(m) : m \in Members(view[n])}

\* The last event about m in q is its registration s; there is none; v has it so.
Latest(q, m, s) ==
  \E i \in 1..Len(q) : q[i] = [node |-> m, start |-> s] /\ \A j \in i+1..Len(q) : q[j].node # m
Quiet(q, m) == \A i \in 1..Len(q) : q[i].node # m
Lists(v, m, s) == IF s = 0 THEN m \notin Members(v) ELSE [id |-> m, start |-> s] \in v.nodes

(* A node that watches ends up with what etcd has, but for the nodes whose *)
(* event fell between load_view and watch: of every other node the last    *)
(* event on its way, or else the view, has the current registration.       *)
ViewExact ==
  \A n, m \in Node :
    pc[n] = "watching" /\ m \notin gap[n]
      => \/ Latest(stream[n], m, reg[m])
         \/ Quiet(stream[n], m) /\ Lists(view[n], m, reg[m])

\* How far clockwise from the key the nearest virtual node of m is.
Distance(k, m) == Min({(p + Size - k) % Size : p \in Pos[m]})
Nearer(S, k, m) == {x \in S : Distance(k, x) < Distance(k, m)}

(* route, with its two passes over the ring, picks the nearest of the      *)
(* nodes in the view as primary and the RepFactor - 1 next nearest, in     *)
(* order of distance, as replicas.                                         *)
RouteExact ==
  \A n \in Node, k \in Key :
    LET S == Members(view[n])
        d == route(n, k)
    IN  S # {} =>
          /\ d.primary \in S /\ Nearer(S, k, d.primary) = {}
          /\ Len(d.replicas) = Min({RepFactor, Cardinality(S)}) - 1
          /\ \A i \in 1..Len(d.replicas) :
               d.replicas[i] \in S /\ Cardinality(Nearer(S, k, d.replicas[i])) = i

CaughtUp(n) == pc[n] = "watching" /\ stream[n] = <<>> /\ gap[n] = {}

(* Two nodes that are caught up never both take themselves for the primary *)
(* of a key, as long as some node is registered.                           *)
OnePrimary ==
  \A m, n \in Node : \A k \in Key :
    /\ m # n /\ CaughtUp(m) /\ CaughtUp(n)
    /\ \E x \in Node : reg[x] # 0
    => ~(route(m, k).is_local /\ route(n, k).is_local)

(* When a view changes while it is watched, a key changes its primary only *)
(* from a node that left or to a node that came.                           *)
MinimalMoves ==
  [][\A n \in Node, k \in Key :
       LET r == view[n].ring
           s == view'[n].ring
       IN  /\ pc[n] = "watching" /\ pc'[n] = "watching"
           /\ r # {} /\ s # {}
           /\ primary_for(r, k) # primary_for(s, k)
           => \/ primary_for(r, k) \notin Members(view'[n])
              \/ primary_for(s, k) \notin Members(view[n])]_vars

(* A node that stays down leaves the view of every node that keeps         *)
(* watching, unless its going fell into that node's gap.                   *)
DownLeaves ==
  \A n, m \in Node :
    <>[](pc[n] = "down" /\ pc[m] = "watching" /\ n \notin gap[m])
      => <>[](n \notin Members(view[m]))

(* docs/architecture/cluster.md:73-74: "If a node crashes, its key         *)
(* disappears after 15 seconds and all other nodes rebuild the ring        *)
(* without it."                                                            *)
OthersRebuild ==
  \A n, m \in Node :
    <>[](pc[n] = "down" /\ pc[m] = "watching") => <>[](n \notin Members(view[m]))
=============================================================================
