-------------------------- MODULE MembershipProofs --------------------------
(***************************************************************************)
(* For any number of nodes, virtual nodes, crashes, restarts and expired   *)
(* leases: the views keep their types, and the ring of a view holds the    *)
(* virtual nodes of the nodes in its list and no others.  From that, two   *)
(* nodes that caught up with etcd never both take a key for their own, and *)
(* a key moves only from a node that left or to a node that came.          *)
(***************************************************************************)
EXTENDS Membership, WellFoundedInduction, TLAPS

RingOf(S) == UNION {VirtualNodes(m) : m \in S}
ViewInv(v) == v \in ClusterView /\ OneEntry(v) /\ v.ring = RingOf(Members(v))
Inv == TypeOK /\ RingMatches

(* RingMatches is ViewInv's last part at every node.                       *)
LEMMA InvIsViewInv ==
  ASSUME TypeOK
  PROVE  RingMatches <=> \A n \in Node : ViewInv(view[n])
BY DEF TypeOK, RingMatches, ViewInv, RingOf

LEMMA EmptyViewInv == ViewInv(EmptyView)
BY DEF ViewInv, EmptyView, ClusterView, OneEntry, Members, RingOf

(* add_node puts a node's virtual nodes into a ring that has those of S:   *)
(* no position is taken by another node, and its own come back.            *)
LEMMA AddNode ==
  ASSUME NEW S \in SUBSET Node, NEW n \in Node
  PROVE  /\ add_node(RingOf(S), n) = RingOf((S \ {n}) \cup {n})
         /\ add_node(RingOf(S), n) \in SUBSET VirtualNode
<1>1. \A m \in Node : VirtualNodes(m) \subseteq VirtualNode
  BY MembershipAssumption DEF VirtualNodes, VirtualNode
<1>2. \A m \in Node : \A v \in VirtualNodes(m) : v.node = m /\ v.pos \in Pos[m]
  BY DEF VirtualNodes
<1>3. \A v \in RingOf(S) : v.pos \notin Pos[n] <=> v.node # n
  BY <1>2, MembershipAssumption DEF RingOf
<1>4. add_node(RingOf(S), n) = {v \in RingOf(S) : v.node # n} \cup VirtualNodes(n)
  BY <1>3 DEF add_node
<1>5. {v \in RingOf(S) : v.node # n} = RingOf(S \ {n})
  BY <1>2 DEF RingOf
<1>6. RingOf(S \ {n}) \cup VirtualNodes(n) = RingOf((S \ {n}) \cup {n})
  BY DEF RingOf
<1>7. RingOf((S \ {n}) \cup {n}) \subseteq VirtualNode
  BY <1>1 DEF RingOf
<1>. QED BY <1>4, <1>5, <1>6, <1>7, Zenon

(* remove_node takes a node's virtual nodes out, and only those.           *)
LEMMA RemoveNode ==
  ASSUME NEW S \in SUBSET Node, NEW n \in Node
  PROVE  /\ remove_node(RingOf(S), n) = RingOf(S \ {n})
         /\ remove_node(RingOf(S), n) \in SUBSET VirtualNode
<1>1. \A m \in Node : VirtualNodes(m) \subseteq VirtualNode
  BY MembershipAssumption DEF VirtualNodes, VirtualNode
<1>2. \A m \in Node : \A v \in VirtualNodes(m) : v.node = m /\ v.pos \in Pos[m]
  BY DEF VirtualNodes
<1>3. \A v \in RingOf(S) : v.pos \notin Pos[n] <=> v.node # n
  BY <1>2, MembershipAssumption DEF RingOf
<1>4. remove_node(RingOf(S), n) = {v \in RingOf(S) : v.node # n}
  BY <1>3 DEF remove_node
<1>5. {v \in RingOf(S) : v.node # n} = RingOf(S \ {n})
  BY <1>2 DEF RingOf
<1>6. RingOf(S \ {n}) \subseteq VirtualNode
  BY <1>1 DEF RingOf
<1>. QED BY <1>4, <1>5, <1>6, Zenon

(* A Put event, of a new node or of one that is back, keeps a view right.  *)
LEMMA OnPutInv ==
  ASSUME NEW v, ViewInv(v), NEW e \in Event, e.start # 0
  PROVE  ViewInv(OnPut(v, e))
<1>. DEFINE w == OnPut(v, e)
            new == [id |-> e.node, start |-> e.start]
<1>1. e.node \in Node /\ new \in NodeMeta
  BY MembershipAssumption DEF Event, NodeMeta
<1>2. v.nodes \in SUBSET NodeMeta /\ Members(v) \in SUBSET Node
  BY DEF ViewInv, ClusterView, NodeMeta, Members
<1>3. w.nodes = {m \in v.nodes : m.id # e.node} \cup {new} /\ w.ring = add_node(v.ring, e.node)
  BY DEF OnPut
<1>4. Members(w) = (Members(v) \ {e.node}) \cup {e.node}
  <2>1. new.id = e.node
    OBVIOUS
  <2>. HIDE DEF w, new
  <2>. QED BY <1>3, <2>1 DEF Members
<1>5. w.ring = RingOf(Members(w)) /\ w.ring \in SUBSET VirtualNode
  BY <1>1, <1>2, <1>3, <1>4, AddNode DEF ViewInv
<1>6. OneEntry(w)
  BY <1>3 DEF OneEntry, ViewInv
<1>7. w \in ClusterView
  BY <1>1, <1>2, <1>5 DEF ClusterView, OnPut
<1>. QED BY <1>5, <1>6, <1>7 DEF ViewInv

(* So does a Delete event, even of a node the view does not know.          *)
LEMMA OnDeleteInv ==
  ASSUME NEW v, ViewInv(v), NEW e \in Event
  PROVE  ViewInv(OnDelete(v, e))
<1>. DEFINE w == OnDelete(v, e)
<1>1. e.node \in Node
  BY DEF Event
<1>2. v.nodes \in SUBSET NodeMeta /\ Members(v) \in SUBSET Node
  BY DEF ViewInv, ClusterView, NodeMeta, Members
<1>3. w.nodes = {m \in v.nodes : m.id # e.node} /\ w.ring = remove_node(v.ring, e.node)
  BY DEF OnDelete
<1>4. Members(w) = Members(v) \ {e.node}
  <2>. HIDE DEF w
  <2>. QED BY <1>3 DEF Members
<1>5. w.ring = RingOf(Members(w)) /\ w.ring \in SUBSET VirtualNode
  BY <1>1, <1>2, <1>3, <1>4, RemoveNode DEF ViewInv
<1>6. OneEntry(w)
  BY <1>3 DEF OneEntry, ViewInv
<1>7. w \in ClusterView
  BY <1>2, <1>5 DEF ClusterView, OnDelete
<1>. QED BY <1>5, <1>6, <1>7 DEF ViewInv

(* And load_view builds a right one from whatever is registered.           *)
LEMMA LoadViewInv ==
  ASSUME TypeOK
  PROVE  ViewInv(load_view)
<1>. DEFINE here == {m \in Node : reg[m] # 0}
            w == load_view
<1>1. w.nodes = {[id |-> m, start |-> reg[m]] : m \in here} /\ w.ring = RingOf(here)
  BY DEF load_view, RingOf
<1>2. \A m \in here : [id |-> m, start |-> reg[m]] \in NodeMeta
  BY MembershipAssumption DEF TypeOK, NodeMeta
<1>3. Members(w) = here
  <2>. HIDE DEF w, here
  <2>1. ASSUME NEW x \in w.nodes PROVE x.id \in here
    <3>1. PICK m \in here : x = [id |-> m, start |-> reg[m]]
      BY <1>1, <2>1
    <3>. QED BY <3>1
  <2>2. ASSUME NEW m \in here PROVE \E x \in w.nodes : x.id = m
    <3>. DEFINE x == [id |-> m, start |-> reg[m]]
    <3>1. x \in w.nodes /\ x.id = m
      BY <1>1, <2>2
    <3>. QED BY <3>1
  <2>. QED BY <2>1, <2>2 DEF Members
<1>4. OneEntry(w)
  <2>. HIDE DEF w, here
  <2>. QED BY <1>1 DEF OneEntry
<1>5. RingOf(here) \in SUBSET VirtualNode
  BY MembershipAssumption DEF RingOf, VirtualNodes, VirtualNode
<1>6. w \in ClusterView
  BY <1>1, <1>2, <1>5, Zenon DEF ClusterView, load_view
<1>. QED BY <1>1, <1>3, <1>4, <1>6 DEF ViewInv
-----------------------------------------------------------------------------
(* What etcd does with an event keeps the types of its part of the state.  *)
LEMMA PublishTypes ==
  ASSUME TypeOK, NEW e \in Event, Publish(e)
  PROVE  /\ reg' \in [Node -> 0..MaxStart]
         /\ stream' \in [Node -> Seq(Event)]
         /\ gap' \in [Node -> SUBSET Node]
<1>1. e.node \in Node /\ e.start \in 0..MaxStart
  BY DEF Event
<1>2. reg' \in [Node -> 0..MaxStart]
  BY <1>1 DEF TypeOK, Publish
<1>3. \A n \in Node : Append(stream[n], e) \in Seq(Event) /\ stream[n] \in Seq(Event)
  BY DEF TypeOK
<1>4. stream' \in [Node -> Seq(Event)]
  BY <1>3 DEF Publish
<1>5. \A n \in Node : /\ gap[n] \cup {e.node} \in SUBSET Node
                      /\ gap[n] \ {e.node} \in SUBSET Node
                      /\ gap[n] \in SUBSET Node
  BY <1>1 DEF TypeOK
<1>6. gap' \in [Node -> SUBSET Node]
  BY <1>5 DEF Publish
<1>. QED BY <1>2, <1>4, <1>6

(* The part of the invariant that a step leaves to the views.              *)
LEMMA ViewsDecide ==
  ASSUME pc' \in [Node -> {"down", "registered", "loaded", "watching", "unwatched", "failed"}],
         view' \in [Node -> ClusterView],
         \A n \in Node : ViewInv(view'[n]),
         reg' \in [Node -> 0..MaxStart],
         stream' \in [Node -> Seq(Event)],
         gap' \in [Node -> SUBSET Node],
         starts' \in 0..MaxStart
  PROVE  Inv'
BY DEF Inv, TypeOK, RingMatches, ViewInv, RingOf

LEMMA InitInv == Init => Inv
<1>. SUFFICES ASSUME Init PROVE Inv
  OBVIOUS
<1>1. TypeOK
  BY EmptyViewInv, MembershipAssumption DEF Init, TypeOK, ViewInv
<1>2. \A n \in Node : ViewInv(view[n])
  BY EmptyViewInv DEF Init
<1>. QED BY <1>1, <1>2, InvIsViewInv DEF Inv

LEMMA NextInv == Inv /\ [Next]_vars => Inv'
<1>. SUFFICES ASSUME Inv, [Next]_vars PROVE Inv'
  OBVIOUS
<1>. USE DEF Inv
<1>v. \A n \in Node : ViewInv(view[n])
  BY InvIsViewInv
<1>1. ASSUME NEW n \in Node, Register(n) PROVE Inv'
  <2>1. [node |-> n, start |-> starts + 1] \in Event /\ starts + 1 \in 0..MaxStart
    BY <1>1, MembershipAssumption DEF Register, TypeOK, Event
  <2>. QED BY <1>1, <1>v, <2>1, PublishTypes, ViewsDecide DEF Register, TypeOK
<1>2. ASSUME NEW n \in Node, LoadView(n) PROVE Inv'
  <2>1. ViewInv(load_view) /\ load_view \in ClusterView
    BY LoadViewInv DEF ViewInv
  <2>. QED BY <1>2, <1>v, <2>1, ViewsDecide DEF LoadView, TypeOK
<1>3. ASSUME NEW n \in Node, JoinFails(n) PROVE Inv'
  <2>1. EmptyView \in ClusterView
    BY EmptyViewInv DEF ViewInv
  <2>. QED BY <1>3, <1>v, <2>1, EmptyViewInv, ViewsDecide DEF JoinFails, TypeOK
<1>4. ASSUME NEW n \in Node, StartWatch(n) PROVE Inv'
  BY <1>4, <1>v, ViewsDecide DEF StartWatch, TypeOK
<1>5. ASSUME NEW n \in Node, WatchReturns(n) PROVE Inv'
  BY <1>5, <1>v, ViewsDecide DEF WatchReturns, TypeOK
<1>6. ASSUME NEW n \in Node, Deliver(n) PROVE Inv'
  <2>. DEFINE e == Head(stream[n])
              w == IF e.start # 0 THEN OnPut(view[n], e) ELSE OnDelete(view[n], e)
  <2>1. stream[n] \in Seq(Event) /\ stream[n] # <<>>
    BY <1>6 DEF Deliver, TypeOK
  <2>2. e \in Event /\ Tail(stream[n]) \in Seq(Event)
    BY <2>1
  <2>3. ViewInv(w)
    <3>. HIDE DEF e
    <3>. QED BY <1>v, <2>2, OnPutInv, OnDeleteInv
  <2>4. w \in ClusterView
    <3>. HIDE DEF w
    <3>. QED BY <2>3 DEF ViewInv
  <2>5. view' = [view EXCEPT ![n] = w]
    BY <1>6 DEF Deliver
  <2>6. stream' \in [Node -> Seq(Event)]
    BY <1>6, <2>2 DEF Deliver, TypeOK
  <2>7. view' \in [Node -> ClusterView] /\ \A m \in Node : ViewInv(view'[m])
    <3>. HIDE DEF w
    <3>. QED BY <1>v, <2>3, <2>4, <2>5 DEF TypeOK
  <2>. QED BY <1>6, <2>6, <2>7, ViewsDecide DEF Deliver, TypeOK
<1>7. ASSUME NEW n \in Node, Crash(n) PROVE Inv'
  <2>1. EmptyView \in ClusterView
    BY EmptyViewInv DEF ViewInv
  <2>. QED BY <1>7, <1>v, <2>1, EmptyViewInv, ViewsDecide DEF Crash, TypeOK
<1>8. ASSUME NEW n \in Node, LeaseExpires(n) PROVE Inv'
  <2>1. [node |-> n, start |-> 0] \in Event
    BY MembershipAssumption DEF Event
  <2>. QED BY <1>8, <1>v, <2>1, PublishTypes, ViewsDecide DEF LeaseExpires, TypeOK
<1>9. CASE UNCHANGED vars
  BY <1>9, <1>v, ViewsDecide DEF vars, TypeOK
<1>. QED BY <1>1, <1>2, <1>3, <1>4, <1>5, <1>6, <1>7, <1>8, <1>9 DEF Next

-----------------------------------------------------------------------------
(* The strengthening of ViewExact.  A stream has events only while its     *)
(* watch is open; and before the watch is created the view has the current *)
(* registration of every node outside the gap.                             *)
StreamIdle == \A n \in Node : pc[n] # "watching" => stream[n] = <<>>
LoadedExact ==
  \A n, m \in Node : pc[n] = "loaded" /\ m \notin gap[n] => Lists(view[n], m, reg[m])
ExactInv == StreamIdle /\ LoadedExact /\ ViewExact

\* ViewExact for one node and one other.
Exact(n, m) ==
  \/ Latest(stream[n], m, reg[m])
  \/ Quiet(stream[n], m) /\ Lists(view[n], m, reg[m])

(* An event that is appended is the latest about its node, and leaves what *)
(* a stream says of the others.                                            *)
LEMMA AppendSays ==
  ASSUME NEW q \in Seq(Event), NEW e \in Event, NEW m \in Node, NEW s
  PROVE  /\ e = [node |-> m, start |-> s] => Latest(Append(q, e), m, s)
         /\ e.node # m /\ Latest(q, m, s) => Latest(Append(q, e), m, s)
         /\ e.node # m /\ Quiet(q, m) => Quiet(Append(q, e), m)
<1>. DEFINE r == Append(q, e)
<1>1. /\ Len(q) \in Nat /\ Len(r) = Len(q) + 1
      /\ \A i \in 1..Len(q) : r[i] = q[i]
      /\ r[Len(q) + 1] = e
  OBVIOUS
<1>. HIDE DEF r
<1>2. e = [node |-> m, start |-> s] => Latest(r, m, s)
  BY <1>1 DEF Latest
<1>3. ASSUME e.node # m, Latest(q, m, s) PROVE Latest(r, m, s)
  <2>1. PICK i \in 1..Len(q) : q[i] = [node |-> m, start |-> s] /\ \A j \in i+1..Len(q) : q[j].node # m
    BY <1>3 DEF Latest
  <2>2. \A j \in i+1..Len(r) : j = Len(q) + 1 \/ j \in i+1..Len(q)
    BY <1>1
  <2>3. i \in 1..Len(r) /\ r[i] = [node |-> m, start |-> s]
    BY <1>1, <2>1
  <2>4. \A j \in i+1..Len(r) : r[j].node # m
    BY <1>1, <1>3, <2>1, <2>2
  <2>. QED BY <2>3, <2>4 DEF Latest
<1>4. e.node # m /\ Quiet(q, m) => Quiet(r, m)
  <2>1. \A j \in 1..Len(r) : j = Len(q) + 1 \/ j \in 1..Len(q)
    BY <1>1
  <2>. QED BY <1>1, <2>1 DEF Quiet
<1>. QED BY <1>2, <1>3, <1>4 DEF r

(* Taking the head off a stream: either it was the latest about m and now  *)
(* there is none, or nothing changes for m.                                *)
LEMMA TailSays ==
  ASSUME NEW q \in Seq(Event), q # <<>>, NEW m \in Node, NEW s
  PROVE  /\ Quiet(q, m) => Head(q).node # m /\ Quiet(Tail(q), m)
         /\ Latest(q, m, s) => \/ Latest(Tail(q), m, s)
                               \/ Head(q) = [node |-> m, start |-> s] /\ Quiet(Tail(q), m)
<1>. DEFINE r == Tail(q)
<1>1. /\ Len(q) \in Nat \ {0} /\ Len(r) = Len(q) - 1 /\ Head(q) = q[1]
      /\ \A i \in 1..Len(r) : r[i] = q[i + 1]
  OBVIOUS
<1>. HIDE DEF r
<1>2. Quiet(q, m) => Head(q).node # m /\ Quiet(r, m)
  BY <1>1 DEF Quiet
<1>3. ASSUME Latest(q, m, s)
      PROVE  Latest(r, m, s) \/ (Head(q) = [node |-> m, start |-> s] /\ Quiet(r, m))
  <2>1. PICK i \in 1..Len(q) : q[i] = [node |-> m, start |-> s] /\ \A j \in i+1..Len(q) : q[j].node # m
    BY <1>3 DEF Latest
  <2>2. CASE i = 1
    <3>1. \A j \in 1..Len(r) : j + 1 \in i+1..Len(q) /\ r[j] = q[j + 1]
      BY <1>1, <2>2
    <3>2. Quiet(r, m)
      BY <2>1, <3>1 DEF Quiet
    <3>. QED BY <1>1, <2>1, <2>2, <3>2
  <2>3. CASE i # 1
    <3>1. i - 1 \in 1..Len(r) /\ r[i - 1] = [node |-> m, start |-> s]
      BY <1>1, <2>1, <2>3
    <3>2. \A j \in (i - 1) + 1..Len(r) : j + 1 \in i+1..Len(q) /\ r[j] = q[j + 1]
      BY <1>1, <2>1, <2>3
    <3>3. \A j \in (i - 1) + 1..Len(r) : r[j].node # m
      BY <2>1, <3>2
    <3>. QED BY <3>1, <3>3 DEF Latest
  <2>. QED BY <2>2, <2>3
<1>. QED BY <1>2, <1>3 DEF r

\* What the watch task makes of a view.
Applied(v, e) == IF e.start # 0 THEN OnPut(v, e) ELSE OnDelete(v, e)

(* An event gives the view the registration it carries and leaves the      *)
(* other nodes' entries.                                                   *)
LEMMA AppliedLists ==
  ASSUME NEW v, NEW e \in Event, NEW m \in Node, NEW s
  PROVE  /\ e = [node |-> m, start |-> s] => Lists(Applied(v, e), m, s)
         /\ e.node # m /\ Lists(v, m, s) => Lists(Applied(v, e), m, s)
<1>. DEFINE w == Applied(v, e)
<1>1. CASE e.start # 0
  <2>1. w.nodes = {x \in v.nodes : x.id # e.node} \cup {[id |-> e.node, start |-> e.start]}
    BY <1>1 DEF Applied, OnPut
  <2>. HIDE DEF w
  <2>2. e = [node |-> m, start |-> s] => Lists(w, m, s)
    BY <1>1, <2>1 DEF Lists
  <2>3. ASSUME e.node # m, Lists(v, m, s) PROVE Lists(w, m, s)
    BY <2>1, <2>3 DEF Lists, Members
  <2>. QED BY <2>2, <2>3 DEF w
<1>2. CASE e.start = 0
  <2>1. w.nodes = {x \in v.nodes : x.id # e.node}
    BY <1>2 DEF Applied, OnDelete
  <2>. HIDE DEF w
  <2>2. e = [node |-> m, start |-> s] => Lists(w, m, s)
    BY <1>2, <2>1 DEF Lists, Members
  <2>3. ASSUME e.node # m, Lists(v, m, s) PROVE Lists(w, m, s)
    BY <2>1, <2>3 DEF Lists, Members
  <2>. QED BY <2>2, <2>3 DEF w
<1>. QED BY <1>1, <1>2

(* load_view lists every node as it is registered.                         *)
LEMMA LoadViewLists ==
  ASSUME NEW m \in Node
  PROVE  Lists(load_view, m, reg[m])
<1>1. load_view.nodes = {[id |-> x, start |-> reg[x]] : x \in {y \in Node : reg[y] # 0}}
  BY DEF load_view
<1>2. CASE reg[m] = 0
  <2>1. ASSUME NEW x \in load_view.nodes PROVE x.id # m
    <3>1. PICK y \in Node : reg[y] # 0 /\ x = [id |-> y, start |-> reg[y]]
      BY <1>1, <2>1
    <3>. QED BY <1>2, <3>1
  <2>. QED BY <1>2, <2>1 DEF Lists, Members
<1>3. CASE reg[m] # 0
  BY <1>1, <1>3 DEF Lists
<1>. QED BY <1>2, <1>3
-----------------------------------------------------------------------------
(* A change of the registry.  Watches get it, and a node that has loaded   *)
(* its view and does not watch yet has it in its gap.                      *)
LEMMA PublishExact ==
  ASSUME TypeOK, ExactInv, NEW e \in Event, Publish(e), UNCHANGED view,
         \A n \in Node : pc'[n] \in {"loaded", "watching"} => pc'[n] = pc[n],
         \A n \in Node : pc'[n] # "watching" => pc[n] # "watching"
  PROVE  ExactInv'
<1>1. \A n \in Node : stream[n] \in Seq(Event)
  BY DEF TypeOK
<1>2. e.node \in Node /\ reg'[e.node] = e.start /\ e = [node |-> e.node, start |-> e.start]
  BY DEF TypeOK, Publish, Event
<1>3. \A m \in Node : m # e.node => reg'[m] = reg[m]
  BY DEF TypeOK, Publish
<1>4. StreamIdle'
  BY DEF StreamIdle, ExactInv, Publish
<1>5. LoadedExact'
  <2>. SUFFICES ASSUME NEW n \in Node, NEW m \in Node, pc'[n] = "loaded", m \notin gap'[n]
                PROVE  Lists(view'[n], m, reg'[m])
    BY DEF LoadedExact, Lists, Members
  <2>1. pc[n] = "loaded" /\ gap'[n] = gap[n] \cup {e.node}
    BY DEF Publish
  <2>2. reg'[m] = reg[m] /\ Lists(view[n], m, reg[m])
    BY <1>3, <2>1 DEF ExactInv, LoadedExact
  <2>. QED BY <2>2
<1>6. ASSUME NEW n \in Node, NEW m \in Node, pc'[n] = "watching", m \notin gap'[n]
      PROVE  Exact(n, m)'
  <2>1. /\ pc[n] = "watching" /\ gap'[n] = gap[n] \ {e.node}
        /\ stream'[n] = Append(stream[n], e)
    BY <1>6 DEF Publish
  <2>2. CASE m = e.node
    <3>1. Latest(stream'[n], m, reg'[m])
      BY <1>1, <1>2, <2>1, <2>2, AppendSays
    <3>. QED BY <3>1 DEF Exact, Latest
  <2>3. CASE m # e.node
    <3>1. Exact(n, m) /\ reg'[m] = reg[m]
      BY <1>3, <1>6, <2>1, <2>3 DEF ExactInv, ViewExact, Exact
    <3>2. \/ Latest(stream'[n], m, reg'[m])
          \/ Quiet(stream'[n], m) /\ Lists(view'[n], m, reg'[m])
      BY <1>1, <2>1, <2>3, <3>1, AppendSays DEF Exact
    <3>. QED BY <3>2 DEF Exact, Latest, Quiet, Lists, Members
  <2>. QED BY <2>2, <2>3
<1>7. ViewExact'
  BY <1>6 DEF ViewExact, Exact, Latest, Quiet, Lists, Members
<1>. QED BY <1>4, <1>5, <1>7 DEF ExactInv

(* An event is applied to a view.                                          *)
LEMMA DeliverExact ==
  ASSUME TypeOK, ExactInv, NEW n \in Node, Deliver(n)
  PROVE  ExactInv'
<1>. DEFINE e == Head(stream[n])
<1>1. stream[n] \in Seq(Event) /\ stream[n] # <<>> /\ e \in Event
  BY DEF Deliver, TypeOK
<1>2. pc[n] = "watching" /\ UNCHANGED <<pc, reg, gap>>
  BY DEF Deliver, ExactInv, StreamIdle
<1>3. view'[n] = Applied(view[n], e) /\ stream'[n] = Tail(stream[n])
  BY DEF Deliver, TypeOK, Applied
<1>4. \A x \in Node : x # n => view'[x] = view[x] /\ stream'[x] = stream[x]
  BY DEF Deliver, TypeOK
<1>. HIDE DEF e
<1>5. StreamIdle'
  BY <1>2, <1>4 DEF ExactInv, StreamIdle
<1>6. LoadedExact'
  <2>. SUFFICES ASSUME NEW x \in Node, NEW m \in Node, pc'[x] = "loaded", m \notin gap'[x]
                PROVE  Lists(view'[x], m, reg'[m])
    BY DEF LoadedExact, Lists, Members
  <2>1. x # n /\ Lists(view[x], m, reg[m])
    BY <1>2 DEF ExactInv, LoadedExact
  <2>. QED BY <1>2, <1>4, <2>1
<1>7. ASSUME NEW x \in Node, NEW m \in Node, pc'[x] = "watching", m \notin gap'[x]
      PROVE  \/ Latest(stream'[x], m, reg'[m])
             \/ Quiet(stream'[x], m) /\ Lists(view'[x], m, reg'[m])
  <2>1. Exact(x, m) /\ reg'[m] = reg[m]
    BY <1>2, <1>7 DEF ExactInv, ViewExact, Exact
  <2>2. CASE x # n
    BY <1>4, <2>1, <2>2 DEF Exact
  <2>3. CASE x = n
    <3>1. CASE Latest(stream[n], m, reg[m])
      <4>1. \/ Latest(Tail(stream[n]), m, reg[m])
            \/ e = [node |-> m, start |-> reg[m]] /\ Quiet(Tail(stream[n]), m)
        BY <1>1, <3>1, TailSays DEF e
      <4>2. e = [node |-> m, start |-> reg[m]] => Lists(Applied(view[n], e), m, reg[m])
        BY <1>1, AppliedLists
      <4>. QED BY <1>3, <2>1, <2>3, <4>1, <4>2
    <3>2. CASE Quiet(stream[n], m) /\ Lists(view[n], m, reg[m])
      BY <1>1, <1>3, <2>1, <2>3, <3>2, TailSays, AppliedLists DEF e
    <3>. QED BY <2>1, <2>3, <3>1, <3>2 DEF Exact
  <2>. QED BY <2>2, <2>3
<1>8. ViewExact'
  BY <1>7 DEF ViewExact, Latest, Quiet, Lists, Members
<1>. QED BY <1>5, <1>6, <1>8 DEF ExactInv

(* A node moves through join, or back to nothing, and the rest stays.      *)
LEMMA MoveExact ==
  ASSUME TypeOK, ExactInv, NEW n \in Node, UNCHANGED reg,
         LoadView(n) \/ JoinFails(n) \/ StartWatch(n) \/ WatchReturns(n) \/ Crash(n)
  PROVE  ExactInv'
<1>1. \A x \in Node : x # n =>
        pc'[x] = pc[x] /\ view'[x] = view[x] /\ stream'[x] = stream[x] /\ gap'[x] = gap[x]
  BY DEF TypeOK, LoadView, JoinFails, StartWatch, WatchReturns, Crash
<1>2. stream'[n] = <<>>
  BY DEF ExactInv, StreamIdle, TypeOK, LoadView, JoinFails, StartWatch, WatchReturns, Crash
<1>3. pc'[n] \in {"loaded", "watching"} =>
        \A m \in Node : m \notin gap'[n] => Lists(view'[n], m, reg[m])
  <2>1. CASE LoadView(n)
    <3>1. view'[n] = load_view
      BY <2>1 DEF LoadView, TypeOK
    <3>. QED BY <3>1, LoadViewLists
  <2>2. CASE StartWatch(n)
    BY <2>2 DEF StartWatch, ExactInv, LoadedExact
  <2>3. CASE JoinFails(n) \/ WatchReturns(n) \/ Crash(n)
    BY <2>3 DEF TypeOK, JoinFails, WatchReturns, Crash
  <2>. QED BY <2>1, <2>2, <2>3
<1>4. StreamIdle'
  BY <1>1, <1>2 DEF ExactInv, StreamIdle
<1>5. ASSUME NEW x \in Node, NEW m \in Node, pc'[x] = "loaded", m \notin gap'[x]
      PROVE  Lists(view'[x], m, reg'[m])
  BY <1>1, <1>3, <1>5 DEF ExactInv, LoadedExact
<1>6. ASSUME NEW x \in Node, NEW m \in Node, pc'[x] = "watching", m \notin gap'[x]
      PROVE  \/ Latest(stream'[x], m, reg'[m])
             \/ Quiet(stream'[x], m) /\ Lists(view'[x], m, reg'[m])
  <2>1. CASE x = n
    BY <1>2, <1>3, <1>6, <2>1 DEF Quiet
  <2>2. CASE x # n
    BY <1>1, <1>6, <2>2 DEF ExactInv, ViewExact
  <2>. QED BY <2>1, <2>2
<1>7. LoadedExact'
  BY <1>5 DEF LoadedExact, Lists, Members
<1>8. ViewExact'
  BY <1>6 DEF ViewExact, Latest, Quiet, Lists, Members
<1>. QED BY <1>4, <1>7, <1>8 DEF ExactInv

LEMMA NextExact == TypeOK /\ ExactInv /\ [Next]_vars => ExactInv'
<1>. SUFFICES ASSUME TypeOK, ExactInv, [Next]_vars PROVE ExactInv'
  OBVIOUS
<1>1. ASSUME NEW n \in Node, Register(n) PROVE ExactInv'
  <2>1. [node |-> n, start |-> starts + 1] \in Event
    BY <1>1, MembershipAssumption DEF Register, TypeOK, Event
  <2>2. /\ \A x \in Node : pc'[x] \in {"loaded", "watching"} => pc'[x] = pc[x]
        /\ \A x \in Node : pc'[x] # "watching" => pc[x] # "watching"
    BY <1>1 DEF Register, TypeOK
  <2>. QED BY <1>1, <2>1, <2>2, PublishExact DEF Register
<1>2. ASSUME NEW n \in Node, LeaseExpires(n) PROVE ExactInv'
  <2>1. [node |-> n, start |-> 0] \in Event
    BY MembershipAssumption DEF Event
  <2>. QED BY <1>2, <2>1, PublishExact DEF LeaseExpires
<1>3. ASSUME NEW n \in Node,
             LoadView(n) \/ JoinFails(n) \/ StartWatch(n) \/ WatchReturns(n) \/ Crash(n)
      PROVE  ExactInv'
  <2>1. UNCHANGED reg
    BY <1>3 DEF LoadView, JoinFails, StartWatch, WatchReturns, Crash
  <2>. QED BY <1>3, <2>1, MoveExact
<1>4. CASE UNCHANGED vars
  <2>1. StreamIdle'
    BY <1>4 DEF vars, ExactInv, StreamIdle
  <2>2. LoadedExact'
    BY <1>4 DEF vars, ExactInv, LoadedExact, Lists, Members
  <2>3. ViewExact'
    BY <1>4, SMTT(30) DEF vars, ExactInv, ViewExact, Latest, Quiet, Lists, Members
  <2>. QED BY <2>1, <2>2, <2>3 DEF ExactInv
<1>. QED BY <1>1, <1>2, <1>3, <1>4, DeliverExact DEF Next
-----------------------------------------------------------------------------
(* Both parts hold in every reachable state.                               *)
THEOREM InvAlways == Spec => []Inv
BY InitInv, NextInv, PTL DEF Spec

(* Every node's view stays well-formed, with one entry for a node at most. *)
THEOREM TypeCorrect == Spec => []TypeOK
<1>1. Inv => TypeOK
  BY DEF Inv
<1>. QED BY <1>1, InvAlways, PTL

(* List and ring of a view never disagree, whatever events arrive, in      *)
(* particular a Put of a node that is there already and a Delete of one    *)
(* that is not (membership.rs:174-196).                                    *)
THEOREM ListAndRingAgree == Spec => []RingMatches
<1>1. Inv => RingMatches
  BY DEF Inv
<1>. QED BY <1>1, InvAlways, PTL

(* A watch leaves a view wrong about no node but those whose event fell    *)
(* between load_view and watch (membership.rs:83 and 155-200).             *)
THEOREM WatchedViewExact == Spec => []ViewExact
<1>1. Init => ExactInv
  BY DEF Init, ExactInv, StreamIdle, LoadedExact, ViewExact
<1>2. TypeOK /\ ExactInv /\ [Next]_vars => ExactInv'
  BY NextExact
<1>3. ExactInv => ViewExact
  BY DEF ExactInv
<1>. QED BY <1>1, <1>2, <1>3, TypeCorrect, PTL DEF Spec
-----------------------------------------------------------------------------
(* The primary of a key.  Occupied(S) are the positions of the nodes in S, *)
(* and FirstFrom(P, k, p) says that p is the first of P clockwise from k.  *)
Occupied(S) == UNION {Pos[m] : m \in S}
FirstFrom(P, k, p) ==
  /\ p \in P
  /\ \A q \in P : IF p >= k THEN q >= k => p <= q ELSE q < k /\ p <= q

LEMMA RingPositions ==
  ASSUME NEW S \in SUBSET Node
  PROVE  /\ Positions(RingOf(S)) = Occupied(S)
         /\ Occupied(S) \subseteq Nat
         /\ RingOf(S) # {} <=> S # {}
         /\ Occupied(S) # {} <=> S # {}
<1>1. Positions(RingOf(S)) \subseteq Occupied(S)
  BY DEF Positions, RingOf, VirtualNodes, Occupied
<1>2. Occupied(S) \subseteq Positions(RingOf(S))
  <2> SUFFICES ASSUME NEW m \in S, NEW p \in Pos[m] PROVE p \in Positions(RingOf(S))
    BY DEF Occupied
  <2>1. [pos |-> p, node |-> m] \in RingOf(S)
    BY DEF RingOf, VirtualNodes
  <2> QED BY <2>1 DEF Positions
<1>3. Occupied(S) \subseteq Nat
  BY MembershipAssumption DEF Occupied
<1>4. Occupied(S) # {} <=> S # {}
  BY MembershipAssumption DEF Occupied
<1>5. RingOf(S) # {} <=> Occupied(S) # {}
  BY <1>1, <1>2 DEF Positions
<1> QED BY <1>1, <1>2, <1>3, <1>4, <1>5

LEMMA NodeAtPosition ==
  ASSUME NEW S \in SUBSET Node, NEW m \in S, NEW p \in Pos[m]
  PROVE  NodeAt(RingOf(S), p) = m
<1> DEFINE r == RingOf(S)
           w == [pos |-> p, node |-> m]
<1>1. w \in r /\ w.pos = p
  BY DEF RingOf, VirtualNodes
<1>2. \A v \in r : v.pos = p => v.node = m
  BY MembershipAssumption DEF RingOf, VirtualNodes
<1> HIDE DEF r, w
<1> QED BY <1>1, <1>2 DEF NodeAt, r

\* A nonempty set of naturals has a least element.
LEMMA LeastNat ==
  ASSUME NEW T, T \subseteq Nat, T # {}
  PROVE  \E x \in T : \A y \in T : x <= y
<1> DEFINE Less == OpToRel(<, Nat)
<1>1. IsWellFoundedOn(Less, Nat)
  BY NatLessThanWellFounded, Zenon
<1>2. \A y, z \in Nat : y < z => <<y, z>> \in Less
  BY DEF OpToRel
<1> HIDE DEF Less
<1>3. PICK x \in T : \A y \in T : ~(<<y, x>> \in Less)
  BY <1>1, WFMin, Zenon
<1>4. ASSUME NEW y \in T PROVE x <= y
  <2>1. x \in Nat /\ y \in Nat
    OBVIOUS
  <2>2. ~(y < x)
    BY <1>2, <1>3, <2>1, Zenon
  <2> QED BY <2>1, <2>2
<1> QED BY <1>4, Zenon

(* primary_for gives the node at the first position from the key on.       *)
LEMMA PrimaryFirst ==
  ASSUME NEW S \in SUBSET Node, S # {}, NEW k \in Nat
  PROVE  /\ primary_for(RingOf(S), k) \in S
         /\ \E p \in Pos[primary_for(RingOf(S), k)] : FirstFrom(Occupied(S), k, p)
<1> DEFINE P == Occupied(S)
           after == {p \in P : p >= k}
           first == IF after # {} THEN Min(after) ELSE Min(P)
<1>1. P \subseteq Nat /\ P # {} /\ Positions(RingOf(S)) = P
  BY RingPositions
<1>2. \A T : T \subseteq Nat /\ T # {} => Min(T) \in T /\ \A y \in T : Min(T) <= y
  BY LeastNat, Zenon DEF Min
<1> HIDE DEF P
<1>3. FirstFrom(P, k, first)
  <2>1. CASE after # {}
    <3>1. Min(after) \in after /\ \A y \in after : Min(after) <= y
      BY <1>1, <1>2, <2>1, Zenon
    <3> QED BY <1>1, <2>1, <3>1 DEF FirstFrom
  <2>2. CASE after = {}
    <3>1. Min(P) \in P /\ \A y \in P : Min(P) <= y
      BY <1>1, <1>2, Zenon
    <3>2. \A y \in P : y < k
      BY <1>1, <2>2
    <3> QED BY <1>1, <2>2, <3>1, <3>2 DEF FirstFrom
  <2> QED BY <2>1, <2>2
<1>4. primary_for(RingOf(S), k) = NodeAt(RingOf(S), first)
  BY <1>1 DEF primary_for
<1> HIDE DEF first
<1>5. PICK m \in S : first \in Pos[m]
  BY <1>3 DEF FirstFrom, P, Occupied
<1>6. primary_for(RingOf(S), k) = m
  BY <1>4, <1>5, NodeAtPosition
<1> QED BY <1>3, <1>5, <1>6 DEF P

(* Two sets of nodes whose primaries both sets have agree on the primary.  *)
LEMMA SamePrimary ==
  ASSUME NEW A \in SUBSET Node, NEW B \in SUBSET Node, A # {}, B # {}, NEW k \in Nat,
         primary_for(RingOf(A), k) \in B, primary_for(RingOf(B), k) \in A
  PROVE  primary_for(RingOf(A), k) = primary_for(RingOf(B), k)
<1> DEFINE a == primary_for(RingOf(A), k)
           b == primary_for(RingOf(B), k)
<1>1. a \in A /\ a \in B /\ b \in A /\ b \in B
  BY PrimaryFirst
<1>2. PICK p \in Pos[a] : FirstFrom(Occupied(A), k, p)
  BY PrimaryFirst
<1>3. PICK q \in Pos[b] : FirstFrom(Occupied(B), k, q)
  BY PrimaryFirst
<1> HIDE DEF a, b
<1>4. p \in Occupied(B) /\ q \in Occupied(A)
  BY <1>1 DEF Occupied
<1>5. p \in Nat /\ q \in Nat
  BY <1>4, RingPositions
<1>6. p = q
  BY <1>2, <1>3, <1>4, <1>5 DEF FirstFrom
<1>7. a = b
  BY <1>1, <1>6, MembershipAssumption
<1> QED BY <1>7 DEF a, b

LEMMA ViewMembers ==
  ASSUME Inv, NEW n \in Node
  PROVE  view[n].ring = RingOf(Members(view[n])) /\ Members(view[n]) \in SUBSET Node
BY DEF Inv, TypeOK, RingMatches, RingOf, ClusterView, NodeMeta, Members

(* A node that is caught up has the registered nodes in its view.          *)
LEMMA CaughtUpMembers ==
  ASSUME Inv, ViewExact, NEW n \in Node, CaughtUp(n)
  PROVE  Members(view[n]) = {x \in Node : reg[x] # 0}
<1>1. pc[n] = "watching" /\ stream[n] = <<>> /\ gap[n] = {}
  BY DEF CaughtUp
<1>2. ASSUME NEW x \in Node PROVE Lists(view[n], x, reg[x])
  <2>1. ~Latest(stream[n], x, reg[x])
    BY <1>1 DEF Latest
  <2> QED BY <1>1, <2>1 DEF ViewExact
<1>3. ASSUME NEW x \in Node PROVE x \in Members(view[n]) <=> reg[x] # 0
  <2>1. CASE reg[x] = 0
    BY <1>2, <2>1, Zenon DEF Lists
  <2>2. CASE reg[x] # 0
    <3>1. [id |-> x, start |-> reg[x]] \in view[n].nodes
      BY <1>2, <2>2 DEF Lists
    <3> QED BY <2>2, <3>1 DEF Members
  <2> QED BY <2>1, <2>2
<1> QED BY <1>3, ViewMembers

(* Split responsibility is excluded: two nodes that caught up with etcd    *)
(* never both take a key for their own (router.rs:31-51).                  *)
THEOREM NoTwoPrimaries == Spec => []OnePrimary
<1>1. Inv /\ ViewExact => OnePrimary
  <2> SUFFICES ASSUME Inv, ViewExact, NEW m \in Node, NEW n \in Node, NEW k \in Key, m # n,
                      CaughtUp(m), CaughtUp(n), NEW x \in Node, reg[x] # 0
               PROVE  ~(route(m, k).is_local /\ route(n, k).is_local)
    BY DEF OnePrimary
  <2>1. view[m].ring = view[n].ring /\ view[m].ring # {}
    BY CaughtUpMembers, ViewMembers, RingPositions, Zenon
  <2>2. route(m, k).is_local <=> primary_for(view[m].ring, k) = m
    BY <2>1, Zenon DEF route
  <2>3. route(n, k).is_local <=> primary_for(view[n].ring, k) = n
    BY <2>1, Zenon DEF route
  <2> QED BY <2>1, <2>2, <2>3
<1> QED BY <1>1, InvAlways, WatchedViewExact, PTL

(* Consistent hashing moves no key between nodes that stay (ring.rs:53-71, *)
(* membership.rs:174-196): a key that changes its primary leaves a node    *)
(* that left or goes to a node that came.                                  *)
THEOREM KeysMoveMinimally == Spec => MinimalMoves
<1> DEFINE Moves == \A n \in Node, k \in Key :
                      LET r == view[n].ring
                          s == view'[n].ring
                      IN  /\ pc[n] = "watching" /\ pc'[n] = "watching"
                          /\ r # {} /\ s # {}
                          /\ primary_for(r, k) # primary_for(s, k)
                          => \/ primary_for(r, k) \notin Members(view'[n])
                             \/ primary_for(s, k) \notin Members(view[n])
<1>1. ASSUME Inv, Inv' PROVE Moves
  <2> SUFFICES ASSUME NEW n \in Node, NEW k \in Key, view[n].ring # {}, view'[n].ring # {},
                      primary_for(view[n].ring, k) \in Members(view'[n]),
                      primary_for(view'[n].ring, k) \in Members(view[n])
               PROVE  primary_for(view[n].ring, k) = primary_for(view'[n].ring, k)
    OBVIOUS
  <2> DEFINE A == Members(view[n])
             B == Members(view'[n])
  <2>1. A \in SUBSET Node /\ view[n].ring = RingOf(A)
    BY <1>1, ViewMembers
  <2>2. B \in SUBSET Node /\ view'[n].ring = RingOf(B)
    <3>1. view'[n] \in ClusterView /\ view'[n].ring = RingOf(B)
      BY <1>1 DEF Inv, TypeOK, RingMatches, RingOf, Members
    <3>2. view'[n].nodes \in SUBSET NodeMeta
      BY <3>1 DEF ClusterView
    <3> QED BY <3>1, <3>2 DEF NodeMeta, Members
  <2>3. k \in Nat
    BY MembershipAssumption
  <2> HIDE DEF A, B
  <2>4. A # {} /\ B # {}
    BY <2>1, <2>2, RingPositions
  <2> QED BY <2>1, <2>2, <2>3, <2>4, SamePrimary DEF A, B
<1> QED BY <1>1, InvAlways, PTL DEF MinimalMoves
=============================================================================
