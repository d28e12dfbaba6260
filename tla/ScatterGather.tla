--------------------------- MODULE ScatterGather ---------------------------
(***************************************************************************)
(* ScatterGather::execute: a query is sent to every target node the        *)
(* membership view knows, one task per node, and the tasks' results are    *)
(* merged as they finish.                                                  *)
(*                                                                         *)
(* The shards are external.  A shard streams Batches[n] record batches and *)
(* marks its last response; or its connection, its call, a response or the *)
(* decoding of one fails; or its stream ends before the last response.     *)
(* The query_shard handler of this repository is the case Batches[n] = 0.  *)
(***************************************************************************)
EXTENDS Naturals, FiniteSets

CONSTANTS
  Target,   \* node ids a query may be sent to
  Batches   \* Batches[n]: the record batches of shard n

ASSUME ScatterAssumption == Batches \in [Target -> Nat]

VARIABLES
  phase,        \* "idle", "gather" or "done"
  target_nodes, \* the nodes of the query
  snapshot,     \* the nodes of the view execute took
  tasks,        \* the task spawned for each node
  joined,       \* the nodes whose task join_next has yielded
  all_batches,  \* the result: which batch of which shard
  error_nodes   \* the result: the nodes that failed

scatterVars == <<phase, target_nodes, snapshot, tasks, joined, all_batches, error_nodes>>

\* What a task does or came to: how many batches it has; whether its stream
\* ended without the last response.
TaskState == [pc : {"none", "running", "ok", "cut", "err", "panic"}, batches : Nat]

NoTask == [pc |-> "none", batches |-> 0]

Returned == {"ok", "cut", "err", "panic"}

ScatterInit ==
  /\ phase = "idle"
  /\ target_nodes = {}
  /\ snapshot = {}
  /\ tasks = [n \in Target |-> NoTask]
  /\ joined = {}
  /\ all_batches = {}
  /\ error_nodes = {}

\* execute up to the first join_next: the view is read once, and a target that
\* is not in it gets no task.
Scatter(T, view) ==
  /\ phase = "idle"
  /\ phase' = "gather"
  /\ target_nodes' = T
  /\ snapshot' = view
  /\ tasks' = [n \in Target |-> IF n \in T \cap view
                                THEN [pc |-> "running", batches |-> 0] ELSE NoTask]
  /\ UNCHANGED <<joined, all_batches, error_nodes>>

\* A task's step: all but the task stays.
Task1(n, t) ==
  /\ tasks[n].pc = "running"
  /\ tasks' = [tasks EXCEPT ![n] = t]
  /\ UNCHANGED <<phase, target_nodes, snapshot, joined, all_batches, error_nodes>>

\* A response with a batch, not the last.
ShardResponds(n) ==
  /\ tasks[n].batches < Batches[n]
  /\ Task1(n, [tasks[n] EXCEPT !.batches = @ + 1])

\* The response marked is_last: the batches so far are the shard's answer.
ShardLast(n) ==
  /\ tasks[n].batches = Batches[n]
  /\ Task1(n, [tasks[n] EXCEPT !.pc = "ok"])

\* The stream ends before a response marked is_last: the loop ends with Ok all
\* the same.
ShardCut(n) ==
  Task1(n, [tasks[n] EXCEPT !.pc = "cut"])

\* Mutant of ShardFails: the batches so far are returned with Ok.
ShardFails_partial(n) ==
  Task1(n, [tasks[n] EXCEPT !.pc = "ok"])

\* Connecting, calling, reading a response or decoding it fails, or a response
\* carries an error: the task returns Err and the batches so far are dropped.
ShardFails(n) ==
  Task1(n, [pc |-> "err", batches |-> 0])

\* The task panics.
TaskPanics(n) ==
  Task1(n, [pc |-> "panic", batches |-> 0])

\* join_next yields a finished task: its batches, its error, or (a JoinError,
\* which no longer knows the node) nothing.
join_next(n) ==
  /\ phase = "gather"
  /\ n \notin joined
  /\ tasks[n].pc \in Returned
  /\ joined' = joined \cup {n}
  /\ all_batches' = all_batches \cup {<<n, i>> : i \in 1..tasks[n].batches}
  /\ error_nodes' = IF tasks[n].pc = "err" THEN error_nodes \cup {n} ELSE error_nodes
  /\ UNCHANGED <<phase, target_nodes, snapshot, tasks>>

\* No task is left: the result is returned.
Gathered ==
  /\ phase = "gather"
  /\ \A n \in Target : tasks[n].pc # "none" => n \in joined
  /\ phase' = "done"
  /\ UNCHANGED <<target_nodes, snapshot, tasks, joined, all_batches, error_nodes>>

\* The caller takes the result.
TakeResult ==
  /\ phase = "done"
  /\ phase' = "idle"
  /\ target_nodes' = {}
  /\ snapshot' = {}
  /\ tasks' = [n \in Target |-> NoTask]
  /\ joined' = {}
  /\ all_batches' = {}
  /\ error_nodes' = {}

ShardStep(n) ==
  \/ ShardResponds(n) \/ ShardLast(n) \/ ShardCut(n)
  \/ ShardFails(n) \/ TaskPanics(n) \/ join_next(n)

ScatterNext(view) ==
  \/ \E T \in SUBSET Target : Scatter(T, view)
  \/ \E n \in Target : ShardStep(n)
  \/ Gathered
  \/ TakeResult

-----------------------------------------------------------------------------

ScatterTypeOK ==
  /\ phase \in {"idle", "gather", "done"}
  /\ target_nodes \subseteq Target
  /\ snapshot \subseteq Target
  /\ tasks \in [Target -> TaskState]
  /\ joined \subseteq Target
  /\ all_batches \subseteq Target \X Nat
  /\ error_nodes \subseteq Target

\* The nodes execute leaves out of the result without a word of it: not in the
\* view it took, a task that panicked, or a stream cut short.
Unreported ==
  {n \in target_nodes : n \notin snapshot \/ tasks[n].pc \in {"panic", "cut"}}

\* Apart from those, a result is whole where it is not reported missing: a target
\* outside error_nodes contributed all its batches and one in error_nodes none,
\* and no other node contributed any.
WholeOrNamed ==
  phase = "done" =>
    /\ \A n \in target_nodes \ Unreported :
         {b \in all_batches : b[1] = n} =
           (IF n \in error_nodes THEN {} ELSE {<<n, i>> : i \in 1..Batches[n]})
    /\ error_nodes \subseteq target_nodes
    /\ \A b \in all_batches : b[1] \in target_nodes

\* execute returns, provided every shard it called goes on answering until its
\* last response, fails or ends: it has no timeout of its own.
ExecuteReturns ==
  phase = "gather" ~> phase = "done"
=============================================================================
