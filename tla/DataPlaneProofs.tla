--------------------------- MODULE DataPlaneProofs ---------------------------
(***************************************************************************)
(* What TLAPS shows of the executor and the replica within the data plane: *)
(* a gathered result is whole or names the nodes it lacks, the answers of  *)
(* a stream are in the order of its entries, an acceptance stands for a    *)
(* write, and the replication engine does nothing in the composition that  *)
(* it does not do alone.                                                   *)
(***************************************************************************)
EXTENDS DataPlane, TLAPS

-----------------------------------------------------------------------------
(* ScatterGather: what the tasks came to, and what was taken from them.    *)

GatherType ==
  /\ target_nodes \subseteq Target
  /\ tasks \in [Target -> TaskState]
  /\ joined \subseteq Target
  /\ all_batches \subseteq Target \X Nat

\* There is a task for each target in the view, and for no other node.
TasksOfTargets ==
  \A n \in Target : tasks[n].pc # "none" <=> phase # "idle" /\ n \in target_nodes /\ n \in snapshot

\* A task that returned Ok at the last response has all batches, one that
\* returned Err none.
Answers ==
  \A n \in Target :
    /\ tasks[n].pc = "ok" => tasks[n].batches = Batches[n]
    /\ tasks[n].pc = "err" => tasks[n].batches = 0

\* The result holds what the joined tasks returned.
ResultSoFar ==
  /\ \A n \in joined : tasks[n].pc \in Returned
  /\ \A n \in Target, i \in Nat : <<n, i>> \in all_batches <=> n \in joined /\ i \in 1..tasks[n].batches
  /\ error_nodes = {n \in joined : tasks[n].pc = "err"}

AllJoined == phase = "done" => \A n \in Target : tasks[n].pc # "none" => n \in joined

Fresh == phase = "idle" => joined = {} /\ all_batches = {} /\ error_nodes = {}

GatherInv == GatherType /\ TasksOfTargets /\ Answers /\ ResultSoFar /\ AllJoined /\ Fresh

LEMMA GatherInit == ScatterInit => GatherInv
BY DEF ScatterInit, GatherInv, GatherType, TasksOfTargets, Answers, ResultSoFar, AllJoined, Fresh,
       NoTask, TaskState

\* A query starts.
LEMMA ScatterKeeps ==
  ASSUME GatherInv, NEW T \in SUBSET Target, NEW V, Scatter(T, V) PROVE GatherInv'
<1> USE DEF GatherInv
<1>1. GatherType'
  BY DEF Scatter, GatherType, NoTask, TaskState
<1>2. \A n \in Target : tasks'[n] = IF n \in T \cap V THEN [pc |-> "running", batches |-> 0] ELSE NoTask
  BY DEF Scatter
<1>3. phase' = "gather" /\ target_nodes' = T /\ snapshot' = V
  BY DEF Scatter
<1>4. joined' = {} /\ all_batches' = {} /\ error_nodes' = {}
  BY DEF Scatter, Fresh
<1>5. TasksOfTargets' /\ Answers'
  BY <1>2, <1>3 DEF TasksOfTargets, Answers, NoTask
<1>6. ResultSoFar' /\ AllJoined' /\ Fresh'
  BY <1>3, <1>4 DEF ResultSoFar, AllJoined, Fresh
<1> QED BY <1>1, <1>5, <1>6

\* A task goes on, or returns: it was not joined.
LEMMA TaskKeeps ==
  ASSUME GatherInv, NEW n \in Target, NEW t \in TaskState, Task1(n, t), t.pc # "none",
         t.pc = "ok" => t.batches = Batches[n], t.pc = "err" => t.batches = 0
  PROVE  GatherInv'
<1> USE DEF GatherInv
<1>1. tasks' \in [Target -> TaskState] /\ tasks'[n] = t /\ \A m \in Target \ {n} : tasks'[m] = tasks[m]
  BY DEF Task1, GatherType
<1>2. tasks[n].pc = "running" /\ n \notin joined
  BY DEF Task1, ResultSoFar, Returned
<1>3. UNCHANGED <<phase, target_nodes, snapshot, joined, all_batches, error_nodes>>
  BY DEF Task1
<1>4. GatherType' /\ Fresh'
  BY <1>1, <1>3 DEF GatherType, Fresh
<1>5. TasksOfTargets' /\ Answers' /\ AllJoined'
  BY <1>1, <1>2, <1>3 DEF TasksOfTargets, Answers, AllJoined
<1>6. ResultSoFar'
  <2>1. \A m \in joined : tasks'[m] = tasks[m]
    BY <1>1, <1>2 DEF GatherType
  <2>2. \A m \in Target, i \in Nat : <<m, i>> \in all_batches <=> m \in joined /\ i \in 1..tasks'[m].batches
    BY <2>1, Zenon DEF ResultSoFar
  <2>3. error_nodes = {m \in joined : tasks'[m].pc = "err"}
    BY <2>1 DEF ResultSoFar
  <2>4. \A m \in joined : tasks'[m].pc \in Returned
    BY <2>1 DEF ResultSoFar
  <2> QED BY <1>3, <2>2, <2>3, <2>4 DEF ResultSoFar
<1> QED BY <1>4, <1>5, <1>6

\* The executor takes a task's result.
LEMMA JoinKeeps ==
  ASSUME GatherInv, NEW n \in Target, join_next(n) PROVE GatherInv'
<1> USE DEF GatherInv
<1>1. /\ n \notin joined /\ tasks[n].pc \in Returned /\ phase = "gather"
      /\ joined' = joined \cup {n}
      /\ all_batches' = all_batches \cup {<<n, i>> : i \in 1..tasks[n].batches}
      /\ error_nodes' = IF tasks[n].pc = "err" THEN error_nodes \cup {n} ELSE error_nodes
      /\ UNCHANGED <<phase, target_nodes, snapshot, tasks>>
  BY DEF join_next
<1>2. tasks[n].batches \in Nat
  BY DEF GatherType, TaskState
<1>3. GatherType'
  BY <1>1, <1>2 DEF GatherType
<1>4. TasksOfTargets' /\ Answers' /\ AllJoined' /\ Fresh'
  BY <1>1 DEF TasksOfTargets, Answers, AllJoined, Fresh
<1>5. \A m \in Target, i \in Nat : <<m, i>> \in all_batches' <=> m \in joined' /\ i \in 1..tasks[m].batches
  BY <1>1, <1>2, Zenon DEF ResultSoFar
<1>6. error_nodes' = {m \in joined' : tasks[m].pc = "err"}
  BY <1>1 DEF ResultSoFar
<1>7. \A m \in joined' : tasks[m].pc \in Returned
  BY <1>1 DEF ResultSoFar
<1>8. ResultSoFar'
  BY <1>1, <1>5, <1>6, <1>7 DEF ResultSoFar
<1> QED BY <1>3, <1>4, <1>8

\* A step of a shard's task.
LEMMA ShardKeeps ==
  ASSUME GatherInv, NEW n \in Target, ShardStep(n) PROVE GatherInv'
<1>1. tasks[n] \in TaskState /\ Batches[n] \in Nat
  BY ScatterAssumption DEF GatherInv, GatherType
<1>2. CASE ShardResponds(n)
  <2> DEFINE t == [tasks[n] EXCEPT !.batches = @ + 1]
  <2>1. t \in TaskState /\ t.pc = tasks[n].pc
    BY <1>1 DEF TaskState
  <2>2. tasks[n].pc = "running" /\ Task1(n, t)
    BY <1>2 DEF ShardResponds, Task1
  <2> HIDE DEF t
  <2> QED BY <2>1, <2>2, TaskKeeps
<1>3. CASE ShardLast(n)
  <2> DEFINE t == [tasks[n] EXCEPT !.pc = "ok"]
  <2>1. t \in TaskState /\ t.pc = "ok" /\ t.batches = tasks[n].batches
    BY <1>1 DEF TaskState
  <2>2. tasks[n].batches = Batches[n] /\ Task1(n, t)
    BY <1>3 DEF ShardLast
  <2> HIDE DEF t
  <2> QED BY <2>1, <2>2, TaskKeeps
<1>4. CASE ShardCut(n)
  <2> DEFINE t == [tasks[n] EXCEPT !.pc = "cut"]
  <2>1. t \in TaskState /\ t.pc = "cut" /\ Task1(n, t)
    BY <1>1, <1>4 DEF TaskState, ShardCut
  <2> HIDE DEF t
  <2> QED BY <2>1, TaskKeeps
<1>5. CASE ShardFails(n)
  <2> DEFINE t == [pc |-> "err", batches |-> 0]
  <2>1. t \in TaskState /\ t.pc = "err" /\ t.batches = 0 /\ Task1(n, t)
    BY <1>5 DEF TaskState, ShardFails
  <2> HIDE DEF t
  <2> QED BY <2>1, TaskKeeps
<1>6. CASE TaskPanics(n)
  <2> DEFINE t == [pc |-> "panic", batches |-> 0]
  <2>1. t \in TaskState /\ t.pc = "panic" /\ Task1(n, t)
    BY <1>6 DEF TaskState, TaskPanics
  <2> HIDE DEF t
  <2> QED BY <2>1, TaskKeeps
<1>7. CASE join_next(n)
  BY <1>7, JoinKeeps
<1> QED BY <1>2, <1>3, <1>4, <1>5, <1>6, <1>7 DEF ShardStep

\* The result is returned, and taken.
LEMMA ReturnKeeps ==
  ASSUME GatherInv, Gathered \/ TakeResult PROVE GatherInv'
<1> USE DEF GatherInv
<1>1. CASE Gathered
  <2>1. GatherType' /\ TasksOfTargets' /\ Answers'
    BY <1>1 DEF Gathered, GatherType, TasksOfTargets, Answers
  <2>2. ResultSoFar' /\ AllJoined' /\ Fresh'
    BY <1>1 DEF Gathered, ResultSoFar, AllJoined, Fresh
  <2> QED BY <2>1, <2>2
<1>2. CASE TakeResult
  BY <1>2 DEF TakeResult, GatherType, TasksOfTargets, Answers, ResultSoFar, AllJoined, Fresh, NoTask, TaskState
<1> QED BY <1>1, <1>2

LEMMA GatherNext == GatherInv /\ [Next]_vars => GatherInv'
<1> SUFFICES ASSUME GatherInv, [Next]_vars PROVE GatherInv'
  OBVIOUS
<1>1. CASE UNCHANGED scatterVars
  BY <1>1 DEF scatterVars, GatherInv, GatherType, TasksOfTargets, Answers, ResultSoFar, AllJoined, Fresh
<1>2. CASE ScatterNext(view)
  BY <1>2, ScatterKeeps, ShardKeeps, ReturnKeeps DEF ScatterNext
<1> QED BY <1>1, <1>2 DEF Next, vars

\* A result of execute is whole: a target that is not named in error_nodes gave
\* all its batches and one that is named gave none, except for the nodes that
\* were not in the view, whose task panicked, or whose stream was cut
\* (scatter_gather.rs:74-92, 96-127).
THEOREM GatheredWholeOrNamed == Spec => []WholeOrNamed
<1>1. Init => GatherInv
  BY GatherInit DEF Init
<1>2. GatherInv => WholeOrNamed
  <2> SUFFICES ASSUME GatherInv, phase = "done" PROVE WholeOrNamed
    BY DEF WholeOrNamed
  <2>1. ASSUME NEW n \in target_nodes \ Unreported
        PROVE  {b \in all_batches : b[1] = n} =
                 (IF n \in error_nodes THEN {} ELSE {<<n, i>> : i \in 1..Batches[n]})
    <3>1. n \in Target /\ n \in snapshot /\ tasks[n].pc \notin {"panic", "cut"}
      BY DEF Unreported, GatherInv, GatherType
    <3>2. n \in joined
      BY <3>1 DEF GatherInv, TasksOfTargets, AllJoined
    <3>3. tasks[n].pc \in {"ok", "err"}
      BY <3>1, <3>2 DEF GatherInv, ResultSoFar, Returned
    <3>4. {b \in all_batches : b[1] = n} = {<<n, i>> : i \in 1..tasks[n].batches}
      <4>1. tasks[n].batches \in Nat
        BY <3>1 DEF GatherInv, GatherType, TaskState
      <4>2. \A b \in all_batches : b[1] = n => b \in {<<n, i>> : i \in 1..tasks[n].batches}
        BY <3>1, <4>1 DEF GatherInv, GatherType, ResultSoFar
      <4>3. \A i \in 1..tasks[n].batches : <<n, i>> \in all_batches
        BY <3>1, <3>2, <4>1 DEF GatherInv, ResultSoFar
      <4> QED BY <4>2, <4>3
    <3>5. CASE tasks[n].pc = "err"
      <4>1. n \in error_nodes /\ tasks[n].batches = 0
        BY <3>1, <3>2, <3>5 DEF GatherInv, ResultSoFar, Answers
      <4> QED BY <3>4, <4>1
    <3>6. CASE tasks[n].pc = "ok"
      <4>1. n \notin error_nodes /\ tasks[n].batches = Batches[n]
        BY <3>1, <3>6 DEF GatherInv, ResultSoFar, Answers
      <4> QED BY <3>4, <4>1
    <3> QED BY <3>3, <3>5, <3>6
  <2>2. \A n \in joined : n \in target_nodes
    BY DEF GatherInv, GatherType, ResultSoFar, TasksOfTargets, Returned
  <2>3. error_nodes \subseteq target_nodes
    BY <2>2 DEF GatherInv, ResultSoFar
  <2>4. \A b \in all_batches : b[1] \in target_nodes
    BY <2>2 DEF GatherInv, GatherType, ResultSoFar
  <2> QED BY <2>1, <2>3, <2>4 DEF WholeOrNamed
<1> QED BY <1>1, <1>2, GatherNext, PTL DEF Spec

-----------------------------------------------------------------------------
(* ReplicaServer: the i-th answer of a stream is the one to its i-th entry, *)
(* and tells what the i-th application wrote.                              *)

\* The task has an entry in hand to apply, or an answer to send.
Applying(p) == IF p = "apply" THEN 1 ELSE 0
Acking(p) == IF p = "ack" THEN 1 ELSE 0

\* What is left on the wire, behind the entry in hand, continues what was applied.
\* A task that panicked took an entry with it.
ToApply(f, w, p, x, d) ==
  /\ Len(d) <= Len(f)
  /\ p # "ended" => /\ Len(d) + Applying(p) + Len(w) = Len(f)
                    /\ \A i \in 1..Len(w) : w[i] = f[Len(d) + Applying(p) + i]
  /\ p = "apply" => x = f[Len(d) + 1]

Wrote(f, d) == \A i \in 1..Len(d) : d[i] \subseteq {f[i]} \cap Record

\* Answer k is to entry e, whose application wrote v.
Answer(k, e, v) == k.entry = e /\ (v # {} <=> k.accepted /\ e \in Record)

Got(f, d, g) == Len(g) <= Len(d) /\ \A i \in 1..Len(g) : Answer(g[i], f[i], d[i])

\* While the peer reads, each application has its answer: read, sent, or in hand.
OnOpen(f, p, k, d, a, g) ==
  /\ Len(g) + Len(a) + Acking(p) = Len(d)
  /\ \A i \in 1..Len(a) : Answer(a[i], f[Len(g) + i], d[Len(g) + i])
  /\ p = "ack" => Answer(k, f[Len(d)], d[Len(d)])

Row(l, f, w, p, x, k, d, a, g) ==
  /\ ToApply(f, w, p, x, d)
  /\ Wrote(f, d)
  /\ Got(f, d, g)
  /\ l \in {"open", "closed"} => OnOpen(f, p, k, d, a, g)
  /\ l = "open" => p # "ended"
  /\ l = "closed" => p = "ended"
  /\ l = "unused" => p = "ended" /\ f = <<>> /\ w = <<>> /\ d = <<>> /\ a = <<>>
  /\ p = "ack" => k \in Ack

RowAt(s) ==
  Row(link[s], fed[s], wire[s], task[s].pc, task[s].entry, task[s].ack, stored[s], acks[s], got[s])

ServerType ==
  /\ link \in [Stream -> {"unused", "open", "closed", "broken"}]
  /\ fed \in [Stream -> Seq(Entry)] /\ wire \in [Stream -> Seq(Entry)]
  /\ task = [s \in Stream |-> task[s]]
  /\ stored \in [Stream -> Seq(SUBSET Entry)]
  /\ acks \in [Stream -> Seq(Ack)] /\ got \in [Stream -> Seq(Ack)]

AnswerInv == ServerType /\ \A s \in Stream : RowAt(s)

LEMMA AppliedOf ==
  ASSUME NEW f \in Seq(Entry), NEW w \in Seq(Entry), NEW p, NEW x, NEW d \in Seq(SUBSET Entry),
         ToApply(f, w, p, x, d)
  PROVE  /\ Len(d) <= Len(f)
         /\ p = "apply" => Len(d) + 1 \in 1..Len(f) /\ x \in Entry
<1>1. Len(f) \in Nat /\ Len(w) \in Nat /\ Len(d) \in Nat /\ \A i \in 1..Len(f) : f[i] \in Entry
  OBVIOUS
<1>2. Len(d) <= Len(f) /\ (p = "apply" => Len(d) + 1 + Len(w) = Len(f) /\ x = f[Len(d) + 1])
  BY DEF ToApply, Applying
<1>3. p = "apply" => Len(d) + 1 \in 1..Len(f)
  BY <1>1, <1>2
<1> QED BY <1>1, <1>2, <1>3

\* The peer puts an entry on a stream.
LEMMA RowFeed ==
  ASSUME NEW f \in Seq(Entry), NEW w \in Seq(Entry), NEW p, NEW x, NEW k, NEW d \in Seq(SUBSET Entry),
         NEW a \in Seq(Ack), NEW g \in Seq(Ack), NEW e \in Entry, Row("open", f, w, p, x, k, d, a, g)
  PROVE  Row("open", Append(f, e), Append(w, e), p, x, k, d, a, g)
<1> DEFINE F == Append(f, e)
           W == Append(w, e)
<1>1. /\ Len(F) = Len(f) + 1 /\ F[Len(f) + 1] = e /\ \A i \in 1..Len(f) : F[i] = f[i]
      /\ Len(W) = Len(w) + 1 /\ W[Len(w) + 1] = e /\ \A i \in 1..Len(w) : W[i] = w[i]
      /\ Len(f) \in Nat /\ Len(w) \in Nat /\ Len(d) \in Nat /\ Len(a) \in Nat /\ Len(g) \in Nat
  OBVIOUS
<1> HIDE DEF F, W
<1>a. PICK o \in {0, 1} : o = Applying(p)
  BY DEF Applying, Acking
<1>b. PICK q \in {0, 1} : q = Acking(p)
  BY DEF Applying, Acking
<1>c. /\ Len(d) + o + Len(w) = Len(f) /\ (p = "apply" => o = 1 /\ x = f[Len(d) + 1])
      /\ \A i \in 1..Len(w) : w[i] = f[Len(d) + o + i]
  BY <1>a DEF Row, ToApply, Applying, Acking
<1>d. \A i \in 1..Len(d) : F[i] = f[i]
  <2>1. Len(d) <= Len(f)
    BY DEF Row, ToApply
  <2> QED BY <1>1, <2>1
<1>2. ToApply(F, W, p, x, d)
  <2>1. ASSUME NEW i \in 1..Len(W) PROVE W[i] = F[Len(d) + o + i]
    <3>1. CASE i = Len(w) + 1
      <4>1. Len(d) + o + i = Len(f) + 1
        BY <1>1, <1>c, <3>1
      <4> QED BY <1>1, <3>1, <4>1
    <3>2. CASE i \in 1..Len(w)
      <4>1. Len(d) + o + i \in 1..Len(f)
        BY <1>1, <1>c, <3>2
      <4> QED BY <1>1, <1>c, <3>2, <4>1
    <3> QED BY <1>1, <3>1, <3>2
  <2>2. p = "apply" => x = F[Len(d) + 1]
    <3>1. p = "apply" => Len(d) + 1 \in 1..Len(f)
      BY <1>1, <1>c
    <3> QED BY <1>1, <1>c, <3>1
  <2>3. Len(d) + Applying(p) + Len(W) = Len(F)
    <3>1. Len(d) + o + Len(W) = Len(F)
      BY <1>1, <1>a, <1>c
    <3> QED BY <1>a, <3>1 DEF Applying, Acking
  <2> QED BY <1>a, <2>1, <2>2, <2>3 DEF ToApply
<1>3. Wrote(F, d)
  BY <1>d DEF Row, Wrote
<1>e. Got(F, d, g)
  <2>1. Len(g) <= Len(d) /\ \A i \in 1..Len(g) : i \in 1..Len(d) /\ Answer(g[i], f[i], d[i])
    BY <1>1 DEF Row, Got
  <2> QED BY <1>d, <2>1 DEF Got
<1>4. OnOpen(F, p, k, d, a, g)
  <2>1. /\ Len(g) + Len(a) + q = Len(d)
        /\ \A i \in 1..Len(a) : Answer(a[i], f[Len(g) + i], d[Len(g) + i])
        /\ p = "ack" => q = 1 /\ Answer(k, f[Len(d)], d[Len(d)])
    BY <1>b DEF Row, OnOpen, Applying, Acking
  <2>2. \A i \in 1..Len(a) : Len(g) + i \in 1..Len(d)
    BY <1>1, <2>1
  <2>3. p = "ack" => Len(d) \in 1..Len(d)
    BY <1>1, <2>1
  <2> QED BY <1>b, <1>d, <2>1, <2>2, <2>3 DEF OnOpen
<1> QED BY <1>2, <1>3, <1>e, <1>4 DEF Row, F, W

\* The task takes the next entry.
LEMMA RowReceive ==
  ASSUME NEW l, NEW f \in Seq(Entry), NEW w \in Seq(Entry), NEW x, NEW k, NEW d \in Seq(SUBSET Entry),
         NEW a \in Seq(Ack), NEW g \in Seq(Ack), w # <<>>, NEW y,
         Row(l, f, w, "recv", x, k, d, a, g)
  PROVE  Row(l, f, Tail(w), "apply", Head(w), y, d, a, g)
<1>1. /\ Len(w) \in Nat /\ Len(w) > 0 /\ Head(w) = w[1] /\ Len(Tail(w)) = Len(w) - 1
      /\ \A i \in 1..Len(w) - 1 : Tail(w)[i] = w[i + 1]
      /\ Len(f) \in Nat /\ Len(d) \in Nat /\ Len(a) \in Nat /\ Len(g) \in Nat
  OBVIOUS
<1>2. ToApply(f, Tail(w), "apply", Head(w), d)
  BY <1>1 DEF Row, ToApply, Applying, Acking
<1>3. l \in {"open", "closed"} => OnOpen(f, "apply", y, d, a, g)
  BY DEF Row, OnOpen, Applying, Acking
<1>4. l \notin {"unused", "closed"}
  BY DEF Row
<1> QED BY <1>2, <1>3, <1>4 DEF Row

\* apply_replica_entry, with what it wrote and the answer that is to be sent.
LEMMA RowApply ==
  ASSUME NEW l, NEW f \in Seq(Entry), NEW w \in Seq(Entry), NEW x, NEW k, NEW d \in Seq(SUBSET Entry),
         NEW a \in Seq(Ack), NEW g \in Seq(Ack), NEW y, NEW v \in SUBSET Entry, NEW h \in Ack,
         v \subseteq {x} \cap Record, Answer(h, x, v), Row(l, f, w, "apply", x, k, d, a, g)
  PROVE  Row(l, f, w, "ack", y, h, Append(d, v), a, g)
<1> DEFINE D == Append(d, v)
<1>1. /\ Len(D) = Len(d) + 1 /\ D[Len(d) + 1] = v /\ \A i \in 1..Len(d) : D[i] = d[i]
      /\ Len(f) \in Nat /\ Len(w) \in Nat /\ Len(d) \in Nat /\ Len(a) \in Nat /\ Len(g) \in Nat
  OBVIOUS
<1> HIDE DEF D
<1>2. ToApply(f, w, "ack", y, D) /\ x = f[Len(d) + 1]
  BY <1>1 DEF Row, ToApply, Applying, Acking
<1>3. Wrote(f, D)
  <2> SUFFICES ASSUME NEW i \in 1..Len(D) PROVE D[i] \subseteq {f[i]} \cap Record
    BY Zenon DEF Wrote
  <2>1. CASE i = Len(d) + 1
    BY <1>1, <1>2, <2>1
  <2>2. CASE i \in 1..Len(d)
    BY <1>1, <2>2, Zenon DEF Row, Wrote
  <2> QED BY <1>1, <2>1, <2>2
<1>4. Got(f, D, g)
  <2>1. Len(g) <= Len(d) /\ \A i \in 1..Len(g) : i \in 1..Len(d) /\ Answer(g[i], f[i], d[i])
    BY <1>1 DEF Row, Got
  <2> QED BY <1>1, <2>1 DEF Got
<1>5. ASSUME l = "open" PROVE OnOpen(f, "ack", h, D, a, g)
  <2>1. /\ Len(g) + Len(a) = Len(d)
        /\ \A i \in 1..Len(a) : Answer(a[i], f[Len(g) + i], d[Len(g) + i])
    BY <1>1, <1>5 DEF Row, OnOpen, Applying, Acking
  <2>2. \A i \in 1..Len(a) : Len(g) + i \in 1..Len(d)
    BY <1>1, <2>1
  <2>3. \A i \in 1..Len(a) : Answer(a[i], f[Len(g) + i], D[Len(g) + i])
    BY <1>1, <2>1, <2>2
  <2>4. Answer(h, f[Len(D)], D[Len(D)])
    BY <1>1, <1>2
  <2>5. Len(g) + Len(a) + Acking("ack") = Len(D)
    BY <1>1, <2>1 DEF Applying, Acking
  <2> QED BY <2>3, <2>4, <2>5 DEF OnOpen
<1>6. l \notin {"unused", "closed"}
  BY DEF Row
<1> QED BY <1>2, <1>3, <1>4, <1>5, <1>6 DEF Row, D

\* The answer goes to the channel.
LEMMA RowSend ==
  ASSUME NEW f \in Seq(Entry), NEW w \in Seq(Entry), NEW x, NEW k, NEW d \in Seq(SUBSET Entry),
         NEW a \in Seq(Ack), NEW g \in Seq(Ack), NEW y, NEW j, Row("open", f, w, "ack", x, k, d, a, g)
  PROVE  Row("open", f, w, "recv", y, j, d, Append(a, k), g) /\ k \in Ack
<1> DEFINE A == Append(a, k)
<1>1. k \in Ack
  BY DEF Row
<1>2. /\ Len(A) = Len(a) + 1 /\ A[Len(a) + 1] = k /\ \A i \in 1..Len(a) : A[i] = a[i]
      /\ Len(f) \in Nat /\ Len(w) \in Nat /\ Len(d) \in Nat /\ Len(a) \in Nat /\ Len(g) \in Nat
  BY <1>1
<1> HIDE DEF A
<1>3. ToApply(f, w, "recv", y, d)
  BY DEF Row, ToApply, Applying, Acking
<1>4. OnOpen(f, "recv", j, d, A, g)
  <2>1. /\ Len(g) + Len(a) + 1 = Len(d) /\ Answer(k, f[Len(d)], d[Len(d)])
        /\ \A i \in 1..Len(a) : Answer(a[i], f[Len(g) + i], d[Len(g) + i])
    BY DEF Row, OnOpen, Applying, Acking
  <2> SUFFICES ASSUME NEW i \in 1..Len(A) PROVE Answer(A[i], f[Len(g) + i], d[Len(g) + i])
    BY <1>2, <2>1 DEF OnOpen, Applying, Acking
  <2>2. CASE i = Len(a) + 1
    <3>1. Len(g) + i = Len(d)
      BY <1>2, <2>1, <2>2
    <3> QED BY <1>2, <2>1, <2>2, <3>1, Zenon
  <2>3. CASE i \in 1..Len(a)
    BY <1>2, <2>1, <2>3
  <2> QED BY <1>2, <2>2, <2>3
<1> QED BY <1>1, <1>3, <1>4 DEF Row, A

\* The peer reads an answer.
LEMMA RowRead ==
  ASSUME NEW f \in Seq(Entry), NEW w \in Seq(Entry), NEW p, NEW x, NEW k, NEW d \in Seq(SUBSET Entry),
         NEW a \in Seq(Ack), NEW g \in Seq(Ack), a # <<>>, NEW l \in {"open", "closed"},
         Row(l, f, w, p, x, k, d, a, g)
  PROVE  Row(l, f, w, p, x, k, d, Tail(a), Append(g, Head(a)))
<1> DEFINE A == Tail(a)
           G == Append(g, Head(a))
<1>1. /\ Len(a) \in Nat /\ Len(a) > 0 /\ Head(a) = a[1] /\ Head(a) \in Ack
      /\ Len(A) = Len(a) - 1 /\ \A i \in 1..Len(a) - 1 : A[i] = a[i + 1]
      /\ Len(d) \in Nat /\ Len(g) \in Nat
  OBVIOUS
<1>2. Len(G) = Len(g) + 1 /\ G[Len(g) + 1] = a[1] /\ \A i \in 1..Len(g) : G[i] = g[i]
  BY <1>1
<1> HIDE DEF A, G
<1>a. PICK q \in {0, 1} : q = Acking(p)
  BY DEF Applying, Acking
<1>b. /\ Len(g) + Len(a) + q = Len(d)
      /\ \A i \in 1..Len(a) : Answer(a[i], f[Len(g) + i], d[Len(g) + i])
      /\ \A i \in 1..Len(g) : Answer(g[i], f[i], d[i])
  BY <1>a DEF Row, OnOpen, Got
<1>3. Got(f, d, G)
  <2> SUFFICES ASSUME NEW i \in 1..Len(G) PROVE Answer(G[i], f[i], d[i])
    BY <1>1, <1>2, <1>b DEF Got
  <2>1. CASE i = Len(g) + 1
    <3>1. 1 \in 1..Len(a) /\ i = Len(g) + 1
      BY <1>1, <2>1
    <3> QED BY <1>2, <1>b, <3>1
  <2>2. CASE i \in 1..Len(g)
    BY <1>2, <1>b, <2>2
  <2> QED BY <1>1, <1>2, <2>1, <2>2
<1>4. Len(G) + Len(A) + Acking(p) = Len(d)
  <2>1. Len(G) + Len(A) + q = Len(d)
    BY <1>1, <1>2, <1>b
  <2> QED BY <1>a, <2>1 DEF Applying, Acking
<1>5. ASSUME NEW i \in 1..Len(A) PROVE Answer(A[i], f[Len(G) + i], d[Len(G) + i])
  <2>1. i \in 1..Len(a) - 1 /\ i + 1 \in 1..Len(a) /\ Len(G) + i = Len(g) + (i + 1)
    BY <1>1, <1>2
  <2>2. A[i] = a[i + 1]
    BY <1>1, <2>1
  <2> QED BY <1>b, <2>1, <2>2
<1>6. OnOpen(f, p, k, d, A, G)
  BY <1>4, <1>5 DEF Row, OnOpen
<1> QED BY <1>3, <1>6 DEF Row, A, G

\* A step of one stream leaves the others as they are.
OnlyStream(s) ==
  \A r \in Stream \ {s} :
    /\ link'[r] = link[r] /\ fed'[r] = fed[r] /\ wire'[r] = wire[r] /\ task'[r] = task[r]
    /\ stored'[r] = stored[r] /\ acks'[r] = acks[r] /\ got'[r] = got[r]

RowNext(s) ==
  Row(link'[s], fed'[s], wire'[s], task'[s].pc, task'[s].entry, task'[s].ack, stored'[s], acks'[s], got'[s])

LEMMA OneStream ==
  ASSUME AnswerInv, NEW s \in Stream, ServerType', OnlyStream(s), RowNext(s)
  PROVE  AnswerInv'
<1>1. \A r \in Stream \ {s} : RowAt(r)'
  BY DEF AnswerInv, OnlyStream, RowAt
<1>2. RowAt(s)'
  BY Zenon DEF RowAt, RowNext
<1> QED BY <1>1, <1>2 DEF AnswerInv

\* The state of one stream.
LEMMA StreamTyped ==
  ASSUME AnswerInv, NEW s \in Stream
  PROVE  /\ link[s] \in {"unused", "open", "closed", "broken"}
         /\ fed[s] \in Seq(Entry) /\ wire[s] \in Seq(Entry) /\ stored[s] \in Seq(SUBSET Entry)
         /\ acks[s] \in Seq(Ack) /\ got[s] \in Seq(Ack)
         /\ Row(link[s], fed[s], wire[s], task[s].pc, task[s].entry, task[s].ack, stored[s], acks[s], got[s])
BY DEF AnswerInv, ServerType, RowAt

LEMMA OpenKeeps ==
  ASSUME AnswerInv, NEW s \in Stream, Open(s) PROVE AnswerInv'
<1>1. ServerType' /\ OnlyStream(s)
  BY Zenon DEF Open, AnswerInv, ServerType, OnlyStream
<1>2. /\ link'[s] = "open" /\ task'[s].pc = "recv" /\ link[s] = "unused"
      /\ UNCHANGED <<fed, wire, stored, acks, got>>
  BY DEF Open, AnswerInv, ServerType
<1>3. fed[s] = <<>> /\ wire[s] = <<>> /\ stored[s] = <<>> /\ acks[s] = <<>>
  BY <1>2, StreamTyped DEF Row
<1>4. ToApply(fed[s], wire[s], "recv", task'[s].entry, stored[s])
  BY <1>3 DEF ToApply, Applying
<1>5. got[s] = <<>> /\ Len(got[s]) = 0
  BY <1>3, StreamTyped DEF Row, Got
<1>6. OnOpen(fed[s], "recv", task'[s].ack, stored[s], acks[s], got[s])
  BY <1>3, <1>5 DEF OnOpen, Applying, Acking
<1>7. RowNext(s)
  BY <1>2, <1>4, <1>6, StreamTyped, Zenon DEF RowNext, Row
<1> QED BY <1>1, <1>7, OneStream

LEMMA FeedKeeps ==
  ASSUME AnswerInv, NEW s \in Stream, NEW e \in Entry, Feed(s, e) PROVE AnswerInv'
<1>1. /\ link[s] = "open" /\ UNCHANGED <<link, task, stored, acks, got>>
      /\ fed' = [fed EXCEPT ![s] = Append(@, e)] /\ wire' = [wire EXCEPT ![s] = Append(@, e)]
  BY DEF Feed
<1>2. ServerType'
  BY <1>1 DEF AnswerInv, ServerType
<1>3. OnlyStream(s) /\ fed'[s] = Append(fed[s], e) /\ wire'[s] = Append(wire[s], e)
  BY <1>1 DEF AnswerInv, ServerType, OnlyStream
<1>4. RowNext(s)
  <2>1. Row("open", fed[s], wire[s], task[s].pc, task[s].entry, task[s].ack, stored[s], acks[s], got[s])
    BY <1>1, StreamTyped, Zenon
  <2>2. Row("open", Append(fed[s], e), Append(wire[s], e), task[s].pc, task[s].entry, task[s].ack, stored[s], acks[s], got[s])
    BY <2>1, StreamTyped, RowFeed, Zenon
  <2> QED BY <1>1, <1>3, <2>2, Zenon DEF RowNext
<1> QED BY <1>2, <1>3, <1>4, OneStream

LEMMA ReceiveEntryKeeps ==
  ASSUME AnswerInv, NEW s \in Stream, Receive(s) PROVE AnswerInv'
<1>1. /\ task[s].pc = "recv" /\ wire[s] # <<>> /\ UNCHANGED <<link, fed, stored, acks, got>>
      /\ task' = [task EXCEPT ![s] = [pc |-> "apply", entry |-> Head(wire[s])]]
      /\ wire' = [wire EXCEPT ![s] = Tail(@)]
  BY Zenon DEF Receive
<1>2. Tail(wire[s]) \in Seq(Entry)
  BY <1>1, StreamTyped
<1>3. ServerType'
  BY <1>1, <1>2, Zenon DEF AnswerInv, ServerType
<1>4. /\ OnlyStream(s) /\ wire'[s] = Tail(wire[s])
      /\ task'[s].pc = "apply" /\ task'[s].entry = Head(wire[s])
  BY <1>1 DEF AnswerInv, ServerType, OnlyStream
<1>5. RowNext(s)
  <2>1. Row(link[s], fed[s], wire[s], "recv", task[s].entry, task[s].ack, stored[s], acks[s], got[s])
    BY <1>1, StreamTyped, Zenon
  <2>2. Row(link[s], fed[s], Tail(wire[s]), "apply", Head(wire[s]), task'[s].ack, stored[s], acks[s], got[s])
    BY <1>1, <2>1, StreamTyped, RowReceive, Zenon
  <2> QED BY <1>1, <1>4, <2>2 DEF RowNext
<1> QED BY <1>3, <1>4, <1>5, OneStream

LEMMA ApplyKeeps ==
  ASSUME AnswerInv, NEW s \in Stream, Apply(s) PROVE AnswerInv'
<1>1. PICK b \in BOOLEAN, v \in {{}, {task[s].entry}} :
        /\ task[s].pc = "apply" /\ Outcome(task[s].entry, b, v)
        /\ stored' = [stored EXCEPT ![s] = Append(@, v)]
        /\ task' = [task EXCEPT ![s] = [pc |-> "ack", ack |-> [entry |-> task[s].entry, accepted |-> b]]]
        /\ UNCHANGED <<link, fed, wire, acks, got>>
  BY Zenon DEF Apply
<1> DEFINE x == task[s].entry
           k == [entry |-> x, accepted |-> b]
<1>2. x \in Entry
  <2>1. ToApply(fed[s], wire[s], "apply", x, stored[s])
    BY <1>1, StreamTyped DEF Row
  <2> QED BY <2>1, StreamTyped, AppliedOf
<1>3. k \in Ack /\ v \in SUBSET Entry /\ k.entry = x /\ k.accepted = b
  BY <1>1, <1>2 DEF Ack
<1>4. v \subseteq {x} \cap Record /\ Answer(k, x, v)
  <2>1. v \subseteq {x} \cap Record /\ (v # {} <=> b /\ x \in Record)
    BY <1>1, Zenon DEF Outcome
  <2> QED BY <1>3, <2>1 DEF Answer
<1>5. ServerType'
  <2>1. stored' \in [Stream -> Seq(SUBSET Entry)]
    BY <1>1, <1>3 DEF AnswerInv, ServerType
  <2>2. task' = [r \in Stream |-> task'[r]]
    BY <1>1, Zenon DEF AnswerInv, ServerType
  <2> QED BY <1>1, <2>1, <2>2 DEF AnswerInv, ServerType
<1>6. OnlyStream(s) /\ stored'[s] = Append(stored[s], v) /\ task'[s] = [pc |-> "ack", ack |-> k]
  BY <1>1 DEF AnswerInv, ServerType, OnlyStream
<1>7. task'[s].pc = "ack" /\ task'[s].ack = k
  BY <1>6
<1> HIDE DEF k
<1>8. RowNext(s)
  <2>1. Row(link[s], fed[s], wire[s], "apply", x, task[s].ack, stored[s], acks[s], got[s])
    BY <1>1, StreamTyped
  <2>2. Row(link[s], fed[s], wire[s], "ack", task'[s].entry, k, Append(stored[s], v), acks[s], got[s])
    BY <1>3, <1>4, <2>1, StreamTyped, RowApply, Zenon
  <2> QED BY <1>1, <1>6, <1>7, <2>2 DEF RowNext
<1> QED BY <1>5, <1>6, <1>8, OneStream

LEMMA ApplyPanicsKeeps ==
  ASSUME AnswerInv, NEW s \in Stream, ApplyPanics(s) PROVE AnswerInv'
<1>1. /\ task[s].pc = "apply" /\ UNCHANGED <<fed, wire, stored, acks, got>>
      /\ task' = [task EXCEPT ![s] = [pc |-> "ended"]]
      /\ link' = [link EXCEPT ![s] = IF @ = "open" THEN "closed" ELSE @]
  BY DEF ApplyPanics
<1>2. ServerType'
  BY <1>1, Zenon DEF AnswerInv, ServerType
<1>3. /\ OnlyStream(s) /\ task'[s].pc = "ended"
      /\ link'[s] = IF link[s] = "open" THEN "closed" ELSE link[s]
  BY <1>1 DEF AnswerInv, ServerType, OnlyStream
<1>4. Row(link[s], fed[s], wire[s], "apply", task[s].entry, task[s].ack, stored[s], acks[s], got[s])
  BY <1>1, StreamTyped, Zenon
<1>5. ToApply(fed[s], wire[s], "ended", task'[s].entry, stored[s])
  BY <1>4, Zenon DEF Row, ToApply
<1>6. link[s] = "open" => OnOpen(fed[s], "ended", task'[s].ack, stored[s], acks[s], got[s])
  BY <1>4 DEF Row, OnOpen, Acking
<1>7. link'[s] \in {"closed", "broken"} /\ (link'[s] = "closed" => link[s] = "open")
  BY <1>3, <1>4, StreamTyped DEF Row
<1>8. RowNext(s)
  BY <1>1, <1>3, <1>4, <1>5, <1>6, <1>7 DEF RowNext, Row
<1> QED BY <1>2, <1>3, <1>8, OneStream

LEMMA SendAckKeeps ==
  ASSUME AnswerInv, NEW s \in Stream, SendAck(s) PROVE AnswerInv'
<1>1. /\ task[s].pc = "ack" /\ UNCHANGED <<link, fed, wire, stored, got>>
      /\ task' = [task EXCEPT ![s] = [pc |-> "recv"]]
      /\ \/ link[s] = "open" /\ acks' = [acks EXCEPT ![s] = Append(@, task[s].ack)]
         \/ link[s] = "broken" /\ UNCHANGED acks
  BY DEF SendAck
<1>2. task'[s].pc = "recv" /\ \A r \in Stream \ {s} : task'[r] = task[r]
  BY <1>1 DEF AnswerInv, ServerType
<1>3. CASE link[s] = "open"
  <2>1. task[s].ack \in Ack
    BY <1>1, StreamTyped, Zenon DEF Row
  <2>2. acks' = [acks EXCEPT ![s] = Append(@, task[s].ack)]
    BY <1>1, <1>3
  <2>3. ServerType'
    <3>1. acks' \in [Stream -> Seq(Ack)]
      BY <2>1, <2>2 DEF AnswerInv, ServerType
    <3>2. task' = [r \in Stream |-> task'[r]]
      BY <1>1, Zenon DEF AnswerInv, ServerType
    <3> QED BY <1>1, <3>1, <3>2 DEF AnswerInv, ServerType
  <2>4. OnlyStream(s) /\ acks'[s] = Append(acks[s], task[s].ack)
    BY <1>1, <1>2, <2>2 DEF AnswerInv, ServerType, OnlyStream
  <2>5. RowNext(s)
    <3>1. Row("open", fed[s], wire[s], "ack", task[s].entry, task[s].ack, stored[s], acks[s], got[s])
      BY <1>1, <1>3, StreamTyped, Zenon
    <3>2. Row("open", fed[s], wire[s], "recv", task'[s].entry, task'[s].ack, stored[s], Append(acks[s], task[s].ack), got[s])
      BY <3>1, StreamTyped, RowSend, Zenon
    <3> QED BY <1>1, <1>2, <1>3, <2>4, <3>2, Zenon DEF RowNext
  <2> QED BY <2>3, <2>4, <2>5, OneStream
<1>4. CASE link[s] = "broken"
  <2>1. UNCHANGED acks
    BY <1>1, <1>4
  <2>2. ServerType' /\ OnlyStream(s)
    BY <1>1, <1>2, <2>1, Zenon DEF AnswerInv, ServerType, OnlyStream
  <2>3. ToApply(fed[s], wire[s], "recv", task'[s].entry, stored[s])
    BY <1>1, StreamTyped, Zenon DEF Row, ToApply, Applying, Acking
  <2>4. RowNext(s)
    BY <1>1, <1>2, <1>4, <2>1, <2>3, StreamTyped, Zenon DEF RowNext, Row
  <2> QED BY <2>2, <2>4, OneStream
<1> QED BY <1>1, <1>3, <1>4

LEMMA EndKeeps ==
  ASSUME AnswerInv, NEW s \in Stream, End(s) PROVE AnswerInv'
<1>1. /\ task[s].pc = "recv" /\ link[s] = "broken" /\ UNCHANGED <<link, fed, wire, stored, acks, got>>
      /\ task' = [task EXCEPT ![s] = [pc |-> "ended"]]
  BY DEF End
<1>2. ServerType' /\ OnlyStream(s) /\ task'[s].pc = "ended"
  BY <1>1, Zenon DEF AnswerInv, ServerType, OnlyStream
<1>3. ToApply(fed[s], wire[s], "ended", task'[s].entry, stored[s])
  BY <1>1, StreamTyped, Zenon DEF Row, ToApply, Applying, Acking
<1>4. RowNext(s)
  BY <1>1, <1>2, <1>3, StreamTyped, Zenon DEF RowNext, Row
<1> QED BY <1>2, <1>4, OneStream

LEMMA ReadAckKeeps ==
  ASSUME AnswerInv, NEW s \in Stream, ReadAck(s) PROVE AnswerInv'
<1>1. /\ link[s] \in {"open", "closed"} /\ acks[s] # <<>> /\ UNCHANGED <<link, fed, wire, task, stored>>
      /\ got' = [got EXCEPT ![s] = Append(@, Head(acks[s]))] /\ acks' = [acks EXCEPT ![s] = Tail(@)]
  BY DEF ReadAck
<1>2. Head(acks[s]) \in Ack /\ Tail(acks[s]) \in Seq(Ack)
  BY <1>1, StreamTyped
<1>3. ServerType'
  BY <1>1, <1>2 DEF AnswerInv, ServerType
<1>4. OnlyStream(s) /\ got'[s] = Append(got[s], Head(acks[s])) /\ acks'[s] = Tail(acks[s])
  BY <1>1 DEF AnswerInv, ServerType, OnlyStream
<1>5. RowNext(s)
  <2>1. Row(link[s], fed[s], wire[s], task[s].pc, task[s].entry, task[s].ack, stored[s], acks[s], got[s])
    BY StreamTyped, Zenon
  <2>2. Row(link[s], fed[s], wire[s], task[s].pc, task[s].entry, task[s].ack, stored[s],
            Tail(acks[s]), Append(got[s], Head(acks[s])))
    BY <1>1, <2>1, StreamTyped, RowRead, Zenon
  <2> QED BY <1>1, <1>4, <2>2, Zenon DEF RowNext
<1> QED BY <1>3, <1>4, <1>5, OneStream

LEMMA BreakKeeps ==
  ASSUME AnswerInv, NEW s \in Stream, Break(s) PROVE AnswerInv'
<1>1. /\ link' = [link EXCEPT ![s] = "broken"] /\ acks' = [acks EXCEPT ![s] = <<>>]
      /\ UNCHANGED <<fed, wire, task, stored, got>>
  BY DEF Break
<1>2. ServerType'
  BY <1>1 DEF AnswerInv, ServerType
<1>3. OnlyStream(s) /\ link'[s] = "broken"
  BY <1>1 DEF AnswerInv, ServerType, OnlyStream
<1>4. RowNext(s)
  BY <1>1, <1>3, StreamTyped, Zenon DEF RowNext, Row
<1> QED BY <1>2, <1>3, <1>4, OneStream

LEMMA AnswerInit == ReplicaInit => AnswerInv
<1> SUFFICES ASSUME ReplicaInit PROVE AnswerInv
  OBVIOUS
<1>1. ServerType
  BY DEF ReplicaInit, ServerType
<1>2. ASSUME NEW s \in Stream PROVE RowAt(s)
  <2>1. /\ link[s] = "unused" /\ fed[s] = <<>> /\ wire[s] = <<>> /\ task[s].pc = "ended"
        /\ stored[s] = <<>> /\ acks[s] = <<>> /\ got[s] = <<>>
    BY DEF ReplicaInit
  <2> QED BY <2>1 DEF RowAt, Row, ToApply, Wrote, Got, Applying, Acking
<1> QED BY <1>1, <1>2 DEF AnswerInv

LEMMA AnswerNext == AnswerInv /\ [Next]_vars => AnswerInv'
<1> SUFFICES ASSUME AnswerInv, [Next]_vars PROVE AnswerInv'
  OBVIOUS
<1>1. CASE UNCHANGED replicaVars
  <2>1. UNCHANGED <<link, fed, wire, task, stored, acks, got>>
    BY <1>1 DEF replicaVars
  <2>2. ServerType'
    BY <2>1 DEF AnswerInv, ServerType
  <2>3. \A s \in Stream : RowAt(s)'
    BY <2>1 DEF AnswerInv, RowAt
  <2> QED BY <2>2, <2>3 DEF AnswerInv
<1>2. CASE ReplicaNext
  <2>1. PICK s \in Stream : TaskStep(s) \/ Open(s) \/ ReadAck(s) \/ Break(s) \/ \E e \in Entry : Feed(s, e)
    BY <1>2 DEF ReplicaNext
  <2>2. CASE TaskStep(s)
    BY <2>2, ReceiveEntryKeeps, ApplyKeeps, ApplyPanicsKeeps, SendAckKeeps, EndKeeps DEF TaskStep
  <2> QED BY <2>1, <2>2, OpenKeeps, ReadAckKeeps, BreakKeeps, FeedKeeps
<1> QED BY <1>1, <1>2 DEF Next, vars

\* p is the first n of f; q is what f has from behind its first m to its n-th.
Begins(p, f, n) == Len(p) = n /\ n <= Len(f) /\ \A i \in 1..n : p[i] = f[i]
Continues(q, f, m, n) == m + Len(q) = n /\ n <= Len(f) /\ \A i \in 1..Len(q) : q[i] = f[m + i]

LEMMA Joined ==
  ASSUME NEW p \in Seq(Entry), NEW q \in Seq(Entry)
  PROVE  /\ p \o q \in Seq(Entry) /\ Len(p \o q) = Len(p) + Len(q)
         /\ \A i \in 1..Len(p) : (p \o q)[i] = p[i]
         /\ \A i \in 1..Len(q) : (p \o q)[Len(p) + i] = q[i]
OBVIOUS

LEMMA BeginsLonger ==
  ASSUME NEW f \in Seq(Entry), NEW p \in Seq(Entry), NEW q \in Seq(Entry), NEW m \in Nat, NEW n \in Nat,
         Begins(p, f, m), Continues(q, f, m, n)
  PROVE  p \o q \in Seq(Entry) /\ Begins(p \o q, f, n)
<1>1. (\A i \in 1..m : p[i] = f[i]) /\ Len(q) \in Nat /\ Len(f) \in Nat /\ Len(p) = m
  BY DEF Begins
<1>2. /\ p \o q \in Seq(Entry) /\ Len(p \o q) = m + Len(q)
      /\ \A i \in 1..m : (p \o q)[i] = p[i]
      /\ \A i \in 1..Len(q) : (p \o q)[m + i] = q[i]
  BY <1>1, Joined, Zenon
<1>3. ASSUME NEW i \in 1..Len(p \o q) PROVE (p \o q)[i] = f[i]
  <2>1. CASE i \in 1..m
    BY <1>1, <1>2, <2>1
  <2>2. CASE i \notin 1..m
    <3>1. PICK j \in 1..Len(q) : i = m + j
      <4>1. i - m \in 1..Len(q) /\ i = m + (i - m)
        BY <1>2, <2>2
      <4> QED BY <4>1
    <3> QED BY <1>2, <3>1 DEF Continues
  <2> QED BY <2>1, <2>2
<1> QED BY <1>1, <1>2, <1>3 DEF Begins, Continues

LEMMA BeginsAll ==
  ASSUME NEW f \in Seq(Entry), NEW p \in Seq(Entry), Begins(p, f, Len(f)) PROVE p = f
BY DEF Begins

LEMMA EntriesTyped ==
  ASSUME NEW q \in Seq(Ack)
  PROVE  EntriesOf(q) \in Seq(Entry) /\ Len(EntriesOf(q)) = Len(q) /\ \A i \in 1..Len(q) : EntriesOf(q)[i] = q[i].entry
<1>1. DOMAIN q = 1..Len(q) /\ Len(q) \in Nat /\ \A i \in 1..Len(q) : q[i].entry \in Entry
  <2>1. DOMAIN q = 1..Len(q) /\ Len(q) \in Nat /\ \A i \in 1..Len(q) : q[i] \in Ack
    OBVIOUS
  <2>2. \A k \in Ack : k.entry \in Entry
    BY DEF Ack
  <2> QED BY <2>1, <2>2
<1>2. EntriesOf(q) = [i \in 1..Len(q) |-> q[i].entry]
  BY <1>1 DEF EntriesOf
<1>3. EntriesOf(q) \in [1..Len(q) -> Entry]
  BY <1>1, <1>2
<1>4. EntriesOf(q) \in Seq(Entry) /\ Len(EntriesOf(q)) = Len(q)
  BY <1>1, <1>3
<1> QED BY <1>2, <1>4

\* h is the entry in hand of a task: to apply, or being answered.
Hand(h, p, x, k) ==
  /\ p = "apply" => h = <<x>>
  /\ p = "ack" => h = <<k.entry>>
  /\ p # "apply" /\ p # "ack" => h = <<>>

LEMMA ContinuesNone ==
  ASSUME NEW f \in Seq(Entry), NEW m \in Nat, m <= Len(f)
  PROVE  <<>> \in Seq(Entry) /\ Continues(<<>>, f, m, m)
BY DEF Continues

LEMMA ContinuesOne ==
  ASSUME NEW f \in Seq(Entry), NEW m \in Nat, m + 1 <= Len(f), NEW y \in Entry, y = f[m + 1]
  PROVE  <<y>> \in Seq(Entry) /\ Continues(<<y>>, f, m, m + 1)
BY DEF Continues

\* The entry in hand is the one behind the answers.
LEMMA HandNext ==
  ASSUME NEW f \in Seq(Entry), NEW w \in Seq(Entry), NEW p, NEW x, NEW k, NEW d \in Seq(SUBSET Entry),
         NEW a \in Seq(Ack), NEW g \in Seq(Ack), Row("open", f, w, p, x, k, d, a, g), NEW h, Hand(h, p, x, k),
         NEW m \in Nat, m = Len(g) + Len(a)
  PROVE  h \in Seq(Entry) /\ Continues(h, f, m, Len(d) + Applying(p))
<1>1. /\ Len(d) \in Nat /\ Len(f) \in Nat /\ Len(d) <= Len(f)
      /\ ToApply(f, w, p, x, d) /\ m + Acking(p) = Len(d)
      /\ (p = "ack" => k \in Ack /\ k.entry = f[Len(d)])
      /\ (p = "apply" => x \in Entry /\ x = f[Len(d) + 1] /\ Len(d) + 1 <= Len(f))
  <2>1. ToApply(f, w, p, x, d) /\ OnOpen(f, p, k, d, a, g) /\ (p = "ack" => k \in Ack)
    BY DEF Row
  <2>2. Len(d) <= Len(f) /\ (p = "apply" => Len(d) + 1 \in 1..Len(f) /\ x \in Entry)
    BY <2>1, AppliedOf
  <2>3. Len(d) \in Nat /\ Len(f) \in Nat
    OBVIOUS
  <2>4. m + Acking(p) = Len(d)
    BY <2>1 DEF OnOpen
  <2>5. p = "ack" => k \in Ack /\ k.entry = f[Len(d)]
    BY <2>1, Zenon DEF OnOpen, Answer
  <2>6. p = "apply" => x = f[Len(d) + 1]
    BY <2>1, Zenon DEF ToApply
  <2>7. p = "apply" => Len(d) + 1 <= Len(f)
    BY <2>2, <2>3
  <2> QED BY <2>1, <2>2, <2>3, <2>4, <2>5, <2>6, <2>7, Zenon
<1>2. CASE p = "apply"
  <2>1. h = <<x>> /\ m = Len(d) /\ Applying(p) = 1
    BY <1>1, <1>2 DEF Hand, Acking, Applying
  <2> QED BY <1>1, <1>2, <2>1, ContinuesOne, Zenon
<1>3. CASE p = "ack"
  <2>1. h = <<k.entry>> /\ m + 1 = Len(d) /\ Applying(p) = 0
    BY <1>1, <1>3, Zenon DEF Hand, Acking, Applying
  <2>2. k.entry \in Entry
    BY <1>1, <1>3 DEF Ack
  <2>3. Len(d) + 0 = Len(d) /\ Len(d) <= Len(f)
    BY <1>1
  <2>4. m + 1 <= Len(f) /\ k.entry = f[m + 1] /\ Len(d) + Applying(p) = m + 1
    BY <1>1, <1>3, <2>1, <2>3, Zenon
  <2> QED BY <2>1, <2>2, <2>4, ContinuesOne, Zenon
<1>4. CASE p # "apply" /\ p # "ack"
  <2>1. h = <<>> /\ m = Len(d) /\ Applying(p) = 0
    BY <1>1, <1>4 DEF Hand, Acking, Applying
  <2>2. m <= Len(f) /\ Len(d) + Applying(p) = m
    BY <1>1, <2>1
  <2> QED BY <2>1, <2>2, ContinuesNone, Zenon
<1> QED BY <1>2, <1>3, <1>4

\* On an open stream the answers, the entry in hand and the wire are what was fed.
InOrder(f, w, h, a, g) == ((EntriesOf(g) \o EntriesOf(a)) \o h) \o w = f

LEMMA RowInOrder ==
  ASSUME NEW f \in Seq(Entry), NEW w \in Seq(Entry), NEW p, NEW x, NEW k, NEW d \in Seq(SUBSET Entry),
         NEW a \in Seq(Ack), NEW g \in Seq(Ack), Row("open", f, w, p, x, k, d, a, g), NEW h, Hand(h, p, x, k)
  PROVE  InOrder(f, w, h, a, g)
<1>1. PICK eg \in Seq(Entry), ea \in Seq(Entry) : eg = EntriesOf(g) /\ ea = EntriesOf(a)
  BY EntriesTyped
<1>2. /\ Len(eg) = Len(g) /\ \A i \in 1..Len(g) : eg[i] = g[i].entry
      /\ Len(ea) = Len(a) /\ \A i \in 1..Len(a) : ea[i] = a[i].entry
  BY <1>1, EntriesTyped, Zenon
<1>3. PICK l, m, n : l \in Nat /\ m \in Nat /\ n \in Nat /\ l = Len(g) /\ m = Len(g) + Len(a) /\ n = Len(d) + Applying(p)
  <2>1. Len(g) \in Nat /\ Len(g) + Len(a) \in Nat /\ Len(d) + Applying(p) \in Nat
    BY DEF Applying
  <2> QED BY <2>1, Zenon
<1>4. h \in Seq(Entry) /\ Continues(h, f, m, n)
  BY <1>3, HandNext, Zenon
<1>5. Continues(w, f, n, Len(f))
  <2>1. ToApply(f, w, p, x, d) /\ p # "ended"
    BY Zenon DEF Row
  <2> QED BY <1>3, <2>1 DEF ToApply, Continues, Applying
<1>6. Begins(eg, f, l)
  <2>1. Got(f, d, g) /\ ToApply(f, w, p, x, d)
    BY DEF Row
  <2>2. Len(d) <= Len(f)
    BY <2>1, AppliedOf
  <2>3. Len(g) \in Nat /\ Len(d) \in Nat /\ Len(f) \in Nat
    OBVIOUS
  <2>4. Len(eg) = l /\ l <= Len(f)
    <3>1. Len(g) <= Len(d)
      BY <2>1, Zenon DEF Got
    <3>2. Len(g) <= Len(f)
      BY <2>2, <2>3, <3>1
    <3> QED BY <1>2, <1>3, <3>2, Zenon
  <2>5. \A i \in 1..l : eg[i] = f[i]
    BY <1>2, <1>3, <2>1, Zenon DEF Got, Answer
  <2> QED BY <2>4, <2>5, Zenon DEF Begins
<1>7. Continues(ea, f, l, m)
  <2>1. OnOpen(f, p, k, d, a, g)
    BY DEF Row
  <2>2. m <= Len(f)
    <3>1. m + Len(h) = n /\ n <= Len(f)
      BY <1>4, Zenon DEF Continues
    <3>2. Len(h) \in Nat /\ Len(f) \in Nat
      BY <1>4
    <3> QED BY <1>3, <3>1, <3>2
  <2>3. l + Len(ea) = m
    BY <1>2, <1>3, Zenon
  <2>4. \A i \in 1..Len(a) : ea[i] = f[l + i]
    BY <1>2, <1>3, <2>1, Zenon DEF OnOpen, Answer
  <2> QED BY <1>2, <2>2, <2>3, <2>4, Zenon DEF Continues
<1>8. ((eg \o ea) \o h) \o w = f
  <2>1. l \in Nat /\ m \in Nat /\ n \in Nat /\ eg \in Seq(Entry) /\ ea \in Seq(Entry)
    BY <1>1, <1>3
  <2>2. h \in Seq(Entry) /\ Len(f) \in Nat
    BY <1>4
  <2>3. eg \o ea \in Seq(Entry) /\ Begins(eg \o ea, f, m)
    BY <1>6, <1>7, <2>1, BeginsLonger
  <2>4. (eg \o ea) \o h \in Seq(Entry) /\ Begins((eg \o ea) \o h, f, n)
    BY <1>4, <2>1, <2>2, <2>3, BeginsLonger, Zenon
  <2>5. ((eg \o ea) \o h) \o w \in Seq(Entry) /\ Begins(((eg \o ea) \o h) \o w, f, Len(f))
    BY <1>5, <2>1, <2>2, <2>4, BeginsLonger, Zenon
  <2> QED BY <2>5, BeginsAll, Zenon
<1> QED BY <1>1, <1>8 DEF InOrder

LEMMA OpenInOrder ==
  ASSUME AnswerInv, NEW s \in Stream, link[s] = "open" PROVE Answering(s) = fed[s]
<1>1. Hand(InHand(s), task[s].pc, task[s].entry, task[s].ack)
  BY DEF Hand, InHand
<1>2. Row("open", fed[s], wire[s], task[s].pc, task[s].entry, task[s].ack, stored[s], acks[s], got[s])
  BY StreamTyped, Zenon
<1>3. ((EntriesOf(got[s]) \o EntriesOf(acks[s])) \o InHand(s)) \o wire[s] = fed[s]
  <2>1. /\ fed[s] \in Seq(Entry) /\ wire[s] \in Seq(Entry) /\ stored[s] \in Seq(SUBSET Entry)
        /\ acks[s] \in Seq(Ack) /\ got[s] \in Seq(Ack)
    BY StreamTyped
  <2>2. PICK f \in Seq(Entry), w \in Seq(Entry), d \in Seq(SUBSET Entry), a \in Seq(Ack), g \in Seq(Ack) :
          f = fed[s] /\ w = wire[s] /\ d = stored[s] /\ a = acks[s] /\ g = got[s]
    BY <2>1, Zenon
  <2>3. PICK p, x, k, h : p = task[s].pc /\ x = task[s].entry /\ k = task[s].ack /\ h = InHand(s)
    BY Zenon
  <2>4. Row("open", f, w, p, x, k, d, a, g) /\ Hand(h, p, x, k)
    BY <1>1, <1>2, <2>2, <2>3, Zenon
  <2>5. InOrder(f, w, h, a, g)
    <3>1. f \in Seq(Entry) /\ w \in Seq(Entry) /\ d \in Seq(SUBSET Entry) /\ a \in Seq(Ack) /\ g \in Seq(Ack)
      BY <2>2, Zenon
    <3> QED BY <2>4, <3>1, RowInOrder
  <2> QED BY <2>2, <2>3, <2>5, Zenon DEF InOrder
<1> QED BY <1>3 DEF Answering

\* Every entry of an open replicate stream is answered once and in the order
\* the entries came, and a broken stream answered a prefix of them, for any
\* number of streams, entries and answers in flight (server.rs:58-88).
THEOREM AnsweredOrder == Spec => []AnsweredInOrder
<1>1. Init => AnswerInv
  BY AnswerInit DEF Init
<1>2. AnswerInv => AnsweredInOrder
  <2> SUFFICES ASSUME AnswerInv, NEW s \in Stream
               PROVE  /\ link[s] = "open" => Answering(s) = fed[s]
                      /\ \A i \in DOMAIN got[s] : i <= Len(fed[s]) /\ got[s][i].entry = fed[s][i]
    BY DEF AnsweredInOrder
  <2>1. /\ Got(fed[s], stored[s], got[s])
        /\ ToApply(fed[s], wire[s], task[s].pc, task[s].entry, stored[s])
    BY StreamTyped, Zenon DEF Row
  <2>2. /\ DOMAIN got[s] = 1..Len(got[s]) /\ Len(got[s]) \in Nat /\ Len(stored[s]) \in Nat
        /\ Len(wire[s]) \in Nat /\ Len(fed[s]) \in Nat
    BY StreamTyped
  <2>3. Len(stored[s]) <= Len(fed[s])
    BY <2>1, StreamTyped, AppliedOf, Zenon
  <2>4. \A i \in DOMAIN got[s] : i <= Len(fed[s]) /\ got[s][i].entry = fed[s][i]
    BY <2>1, <2>2, <2>3 DEF Got, Answer
  <2> QED BY <2>4, OpenInOrder
<1> QED BY <1>1, <1>2, AnswerNext, PTL DEF Spec

\* What AcceptedIsStored asks of a stream that was fed f, wrote d and was answered g.
AcceptedOf(f, d, g) ==
  /\ \A i \in DOMAIN d : i \in DOMAIN f /\ d[i] \subseteq {f[i]} \cap Record
  /\ \A i \in DOMAIN g : i \in DOMAIN d /\ (d[i] # {} <=> g[i].accepted /\ g[i].entry \in Record)

\* A stream whose row is in order is answered as it wrote: the acknowledgements
\* read are those of a prefix of the writes, the writes those of a prefix of the
\* entries fed.
LEMMA RowAccepted ==
  ASSUME NEW l, NEW f \in Seq(Entry), NEW w \in Seq(Entry), NEW p, NEW x, NEW k, NEW d \in Seq(SUBSET Entry), NEW a,
         NEW g \in Seq(Ack), Row(l, f, w, p, x, k, d, a, g)
  PROVE  AcceptedOf(f, d, g)
<1>1. ToApply(f, w, p, x, d) /\ Wrote(f, d) /\ Got(f, d, g)
  BY Zenon DEF Row
<1>2. /\ DOMAIN f = 1..Len(f) /\ DOMAIN d = 1..Len(d) /\ DOMAIN g = 1..Len(g)
      /\ Len(f) \in Nat /\ Len(d) \in Nat /\ Len(g) \in Nat
  OBVIOUS
<1>3. Len(d) <= Len(f)
  BY <1>1, AppliedOf
<1>4. \A i \in DOMAIN d : i \in DOMAIN f /\ d[i] \subseteq {f[i]} \cap Record
  <2>1. \A i \in DOMAIN d : i \in DOMAIN f
    BY <1>2, <1>3
  <2> QED BY <1>1, <1>2, <2>1, Zenon DEF Wrote
<1>5. ASSUME NEW i \in DOMAIN g
      PROVE  i \in DOMAIN d /\ (d[i] # {} <=> g[i].accepted /\ g[i].entry \in Record)
  <2>1. Len(g) <= Len(d) /\ \A j \in 1..Len(g) : Answer(g[j], f[j], d[j])
    BY <1>1, Zenon DEF Got
  <2>2. i \in DOMAIN d
    BY <1>2, <2>1
  <2>3. Answer(g[i], f[i], d[i])
    BY <1>2, <2>1, Zenon
  <2> QED BY <2>2, <2>3 DEF Answer
<1> QED BY <1>4, <1>5, Zenon DEF AcceptedOf

\* Each acceptance of a record that a peer read stands for a write of its own, and
\* each write for an entry that was sent, however often an entry is sent again, on
\* whichever streams, and wherever they break (server.rs:58-88, replication.rs:169-216).
THEOREM AcceptedWritten == Spec => []AcceptedIsStored
<1>1. Init => AnswerInv
  BY AnswerInit DEF Init
<1>2. AnswerInv => AcceptedIsStored
  <2> SUFFICES ASSUME AnswerInv PROVE \A s \in Stream : AcceptedOf(fed[s], stored[s], got[s])
    BY Zenon DEF AcceptedIsStored, AcceptedOf
  <2> TAKE s \in Stream
  <2>1. /\ fed[s] \in Seq(Entry) /\ wire[s] \in Seq(Entry) /\ stored[s] \in Seq(SUBSET Entry) /\ got[s] \in Seq(Ack)
        /\ Row(link[s], fed[s], wire[s], task[s].pc, task[s].entry, task[s].ack, stored[s], acks[s], got[s])
    BY StreamTyped, Zenon
  <2> QED BY <2>1, RowAccepted, Zenon
<1> QED BY <1>1, <1>2, AnswerNext, PTL DEF Spec

-----------------------------------------------------------------------------
(* The replication engine in the data plane is the one on its own.         *)

\* Every behaviour of the data plane is, for the replication engine, one of
\* ReplSpec: replica and executor leave its variables alone, and the view they
\* share changes as membership changes it.  What is shown of ReplSpec holds here.
THEOREM EngineWithin == Spec => ReplSpec
<1>1. Init => ReplInit
  BY DEF Init
<1>2. [Next]_vars => [EngineNext]_replVars
  <2> SUFFICES ASSUME [Next]_vars PROVE EngineNext \/ UNCHANGED replVars
    OBVIOUS
  <2> QED BY DEF Next, vars, EngineNext
<1> QED BY <1>1, <1>2, PTL DEF Spec, ReplSpec
=============================================================================
