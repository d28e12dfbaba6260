------------------------------ MODULE Operator ------------------------------
(***************************************************************************)
(* The Kubernetes operator (deploy/kubernetes/operator): the controller    *)
(* watches one InfraLensCluster and reconciles the ConfigMap, the Service  *)
(* and the StatefulSet made from it, then writes its status.               *)
(*                                                                         *)
(* External, as the code uses them: the API server (server-side apply      *)
(* without force, an immutable volumeClaimTemplates), kube-rs's Controller *)
(* (one reconcile of an object at a time, on the object in its store), the *)
(* StatefulSet controller, and people or autoscalers that change objects.  *)
(*                                                                         *)
(* The spec of a cluster is split by where it goes: config is the data of  *)
(* the ConfigMap, pods the replicas and the image, claim the storage class *)
(* and size of volumeClaimTemplates.  The resources and                    *)
(* l0_compaction_trigger (crd.rs:42-44, 53-54) are read nowhere and reach  *)
(* no child: an edit of them is one that raises the generation and leaves  *)
(* the three parts as they are.  The field from is a history of the        *)
(* generation that an object was applied from.                             *)
(***************************************************************************)
EXTENDS Naturals, Sequences

CONSTANTS
  Config, Pods, Claim,   \* the values of the three parts of a spec
  First,                 \* the specs that the cluster may be created with
  MaxGeneration,         \* bound on changes of the spec
  MaxChanges,            \* bound on changes of the children by others
  MaxFaults,             \* bound on failed requests
  MaxRestarts            \* bound on restarts of the operator

ClusterSpec == [config : Config, pods : Pods, claim : Claim]

ASSUME OperatorAssumption ==
  /\ First \subseteq ClusterSpec
  /\ MaxGeneration \in Nat \ {0}
  /\ {MaxChanges, MaxFaults, MaxRestarts} \subseteq Nat

VARIABLES
  object,       \* the InfraLensCluster: generation and spec
  store,        \* the controller's copy of it, behind by the watch
  due,          \* a reconcile is scheduled
  step,         \* where reconcile is
  cluster,      \* the copy that reconcile was called with
  configmap, service, statefulset,   \* the children, each an option
  status,       \* the status of the cluster, an option
  pods,         \* what the running pods were started with, an option
  touched,      \* others changed a child since the reconcile that wrote status began
  touchedNow,   \* others changed a child since this reconcile began
  changes, faults, restarts

children == <<configmap, service, statefulset>>
vars == <<object, store, due, step, cluster, configmap, service, statefulset, status, pods,
          touched, touchedNow, changes, faults, restarts>>

Object == [generation : 1..MaxGeneration, spec : ClusterSpec]

Headless == "headless"

\* owner is the field manager that an apply of another value conflicts with.
Child(Value) == [value : Value, owner : {"operator", "other"}, from : 1..MaxGeneration]

Option(S) == {<<>>} \cup {<<x>> : x \in S}

Init ==
  /\ object \in [generation : {1}, spec : First]
  /\ store = object
  /\ due = TRUE
  /\ step = "idle"
  /\ cluster = object
  /\ configmap = <<>> /\ service = <<>> /\ statefulset = <<>>
  /\ status = <<>>
  /\ pods = <<>>
  /\ touched = FALSE /\ touchedNow = FALSE
  /\ changes = 0 /\ faults = 0 /\ restarts = 0

-----------------------------------------------------------------------------
(* Around the operator.                                                    *)

\* The spec is changed, perhaps only in a part that reconcile does not read,
\* which raises the generation.
EditSpec(spec) ==
  /\ object.generation < MaxGeneration
  /\ object' = [generation |-> object.generation + 1, spec |-> spec]
  /\ UNCHANGED <<store, due, step, cluster, children, status, pods, touched, touchedNow, changes, faults, restarts>>

\* The watch brings the object, and with it a reconcile.
Watch ==
  /\ store # object
  /\ store' = object
  /\ due' = TRUE
  /\ UNCHANGED <<object, step, cluster, children, status, pods, touched, touchedNow, changes, faults, restarts>>

\* Someone else deletes a child, or takes over its fields with another value.
\* The code sets no watch on the children.
Change(child, child2) ==
  /\ changes < MaxChanges
  /\ child # <<>>
  /\ child2 # child
  /\ child2 # <<>> => child2[1].owner = "other" /\ child2[1].from = child[1].from /\ child2[1].value # child[1].value
  /\ changes' = changes + 1
  /\ touched' = TRUE
  /\ touchedNow' = TRUE
  /\ UNCHANGED <<object, store, due, step, cluster, status, pods, faults, restarts>>

ChangeConfigMap ==
  \E c \in Option(Child(Config)) :
    /\ Change(configmap, c)
    /\ configmap' = c
    /\ UNCHANGED <<service, statefulset>>

ChangeService ==
  \E c \in Option(Child({Headless, "edited"})) :
    /\ Change(service, c)
    /\ service' = c
    /\ UNCHANGED <<configmap, statefulset>>

\* The claim of a StatefulSet cannot be changed.
ChangeStatefulSet ==
  \E c \in Option(Child([pods : Pods, claim : Claim])) :
    /\ Change(statefulset, c)
    /\ c # <<>> => c[1].value.claim = statefulset[1].value.claim
    /\ statefulset' = c
    /\ UNCHANGED <<configmap, service>>

\* The StatefulSet controller replaces the pods when the template or the number
\* changed.  A pod starts with the ConfigMap of that moment as its environment.
RollPods ==
  /\ statefulset # <<>>
  /\ configmap # <<>>
  /\ pods # <<>> => pods[1].pods # statefulset[1].value.pods
  /\ pods' = <<[pods |-> statefulset[1].value.pods, from |-> statefulset[1].from,
                config |-> configmap[1].value, configFrom |-> configmap[1].from]>>
  /\ UNCHANGED <<object, store, due, step, cluster, children, status, touched, touchedNow, changes, faults, restarts>>

\* The operator ends at any point and is started again: it lists the objects,
\* and each listed object is reconciled.
Restart ==
  /\ restarts < MaxRestarts
  /\ restarts' = restarts + 1
  /\ store' = object
  /\ due' = TRUE
  /\ step' = "idle"
  /\ UNCHANGED <<object, cluster, children, status, pods, touched, touchedNow, changes, faults>>

-----------------------------------------------------------------------------
(* reconciler.rs                                                           *)

\* Server-side apply under the operator's name, without force: it creates the
\* object or sets its fields, and is refused where another manager has a field
\* with another value.
Applied(child, value) ==
  IF child = <<>>
  THEN <<[value |-> value, owner |-> "operator", from |-> cluster.generation]>>
  ELSE <<[child[1] EXCEPT !.value = value, !.from = cluster.generation]>>

Conflict(child, value) == child # <<>> /\ child[1].owner = "other" /\ child[1].value # value

\* An Err from reconcile: it is called again after 10 s.
error_policy ==
  /\ step' = "idle"
  /\ due' = TRUE

\* A request fails, before or after it had its effect.
Fault ==
  /\ faults < MaxFaults
  /\ faults' = faults + 1
  /\ error_policy

\* A request is refused by the server.
Refused ==
  /\ error_policy
  /\ UNCHANGED faults

\* A request is answered, and reconcile goes on.
Answered(next) ==
  /\ step' = next
  /\ UNCHANGED <<due, faults>>

\* The controller calls reconcile with the object in its store.
reconcile ==
  /\ step = "idle"
  /\ due
  /\ due' = FALSE
  /\ step' = "configmap"
  /\ cluster' = store
  /\ touchedNow' = FALSE
  /\ UNCHANGED <<object, store, children, status, pods, touched, changes, faults, restarts>>

\* Mutant of reconcile_configmap: its error is not returned.
reconcile_configmap_ignored ==
  /\ step = "configmap"
  /\ IF Conflict(configmap, cluster.spec.config) THEN UNCHANGED configmap
     ELSE configmap' = Applied(configmap, cluster.spec.config)
  /\ Answered("service")
  /\ UNCHANGED <<object, store, cluster, service, statefulset, status, pods, touched, touchedNow, changes, restarts>>

reconcile_configmap ==
  /\ step = "configmap"
  /\ \/ /\ ~Conflict(configmap, cluster.spec.config)
        /\ configmap' = Applied(configmap, cluster.spec.config)
        /\ Answered("service") \/ Fault
     \/ /\ IF Conflict(configmap, cluster.spec.config) THEN Refused ELSE Fault
        /\ UNCHANGED configmap
  /\ UNCHANGED <<object, store, cluster, service, statefulset, status, pods, touched, touchedNow, changes, restarts>>

reconcile_service ==
  /\ step = "service"
  /\ \/ /\ ~Conflict(service, Headless)
        /\ service' = Applied(service, Headless)
        /\ Answered("statefulset") \/ Fault
     \/ /\ IF Conflict(service, Headless) THEN Refused ELSE Fault
        /\ UNCHANGED service
  /\ UNCHANGED <<object, store, cluster, configmap, statefulset, status, pods, touched, touchedNow, changes, restarts>>

\* The StatefulSet asked for; a change of its claim is refused by the server.
Wanted(spec) == [pods |-> spec.pods, claim |-> spec.claim]

Rejected(spec) ==
  \/ Conflict(statefulset, Wanted(spec))
  \/ statefulset # <<>> /\ statefulset[1].value.claim # spec.claim

reconcile_statefulset ==
  /\ step = "statefulset"
  /\ \/ /\ ~Rejected(cluster.spec)
        /\ statefulset' = Applied(statefulset, Wanted(cluster.spec))
        /\ Answered("status") \/ Fault
     \/ /\ IF Rejected(cluster.spec) THEN Refused ELSE Fault
        /\ UNCHANGED statefulset
  /\ UNCHANGED <<object, store, cluster, configmap, service, status, pods, touched, touchedNow, changes, restarts>>

\* Mutant of Requeue: Action::await_change.
Requeue_never ==
  /\ step' = "idle"
  /\ UNCHANGED <<due, faults>>

\* The end of reconcile: it is called again after 30 s.
Requeue ==
  /\ step' = "idle"
  /\ due' = TRUE
  /\ UNCHANGED faults

\* Mutant of Written: the generation that the object has by now.
Written_now == <<[observed |-> object.generation, ready |-> cluster.spec.pods]>>

\* The status, always Running, with the number of pods asked for as ready.
Written == <<[observed |-> cluster.generation, ready |-> cluster.spec.pods]>>

update_status ==
  /\ step = "status"
  /\ \/ /\ status' = Written
        /\ touched' = touchedNow
        /\ Requeue \/ Fault
     \/ /\ Fault
        /\ UNCHANGED <<status, touched>>
  /\ UNCHANGED <<object, store, cluster, children, pods, touchedNow, changes, restarts>>

-----------------------------------------------------------------------------

Reconciling == reconcile \/ reconcile_configmap \/ reconcile_service \/ reconcile_statefulset \/ update_status

Next ==
  \/ \E spec \in ClusterSpec : EditSpec(spec)
  \/ Watch
  \/ ChangeConfigMap
  \/ ChangeService
  \/ ChangeStatefulSet
  \/ RollPods
  \/ Restart
  \/ Reconciling

\* The watch delivers, the controller runs what is due, requests are answered or
\* fail, and the StatefulSet controller does its work.
Fairness == WF_vars(Watch) /\ WF_vars(Reconciling) /\ WF_vars(RollPods)

Spec == Init /\ [][Next]_vars

FairSpec == Spec /\ Fairness

-----------------------------------------------------------------------------

TypeOK ==
  /\ object \in Object /\ store \in Object /\ cluster \in Object
  /\ due \in BOOLEAN
  /\ step \in {"idle", "configmap", "service", "statefulset", "status"}
  /\ configmap \in Option(Child(Config))
  /\ service \in Option(Child({Headless, "edited"}))
  /\ statefulset \in Option(Child([pods : Pods, claim : Claim]))
  /\ status \in Option([observed : 1..MaxGeneration, ready : Pods])
  /\ pods \in Option([pods : Pods, from : 1..MaxGeneration,
                      config : Config, configFrom : 1..MaxGeneration])
  /\ touched \in BOOLEAN /\ touchedNow \in BOOLEAN
  /\ changes \in 0..MaxChanges /\ faults \in 0..MaxFaults /\ restarts \in 0..MaxRestarts

\* The children are there as the spec asks, in all that reconcile reads of it.
AsSpecified ==
  /\ configmap # <<>> /\ configmap[1].value = object.spec.config
  /\ service # <<>> /\ service[1].value = Headless
  /\ statefulset # <<>> /\ statefulset[1].value = Wanted(object.spec)

\* A status that names the generation of the cluster tells the truth: unless
\* others changed a child since the reconcile that wrote it began, all three
\* children are as the spec asks.  The spec may change and the operator may
\* restart or fail between any two requests (reconciler.rs:34-57, 265-270).
\* Nothing is said of the number of ready pods (ReadyIsReady, below).
StatusTrue ==
  status # <<>> /\ status[1].observed = object.generation /\ ~touched => AsSpecified

\* Pods never run a StatefulSet of a newer generation than the ConfigMap they
\* started with: reconcile applies the ConfigMap first and ends at an error
\* (reconciler.rs:43-50).
ConfigFirst == pods # <<>> => pods[1].from <= pods[1].configFrom

\* What the operator cannot get past: fields that others took over (it applies
\* without force), and a claim other than the StatefulSet's.
Stuck ==
  \/ Conflict(configmap, object.spec.config)
  \/ Conflict(service, Headless)
  \/ Rejected(object.spec)

Settled ==
  /\ AsSpecified
  /\ status # <<>> /\ status[1].observed = object.generation
  /\ pods # <<>> /\ pods[1].pods = object.spec.pods

\* Unless it stays stuck, the operator brings the children, the pods and the
\* status to the last spec, deleted children and its own restarts included, and
\* keeps them there (the requeues of reconciler.rs:56 and 65).
Converges == []<>Stuck \/ <>[]Settled

\* Not kept by the code: the pods that the status reports as ready are there.
\* ready_replicas is the number in the spec (reconciler.rs:266).
ReadyIsReady ==
  status # <<>> /\ status[1].observed = object.generation /\ ~touched =>
    pods # <<>> /\ pods[1].pods = status[1].ready

\* Not kept by the code: pods come to run with the configuration of the spec.  A
\* ConfigMap that changes alone restarts no pod.
ConfigReachesPods == []<>Stuck \/ <>[](pods # <<>> /\ pods[1].config = object.spec.config)
=============================================================================
