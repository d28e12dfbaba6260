--------------------------- MODULE OperatorProofs ---------------------------
(***************************************************************************)
(* The operator's status tells the truth, and pods never run ahead of      *)
(* their ConfigMap, for any sets of values and any bounds.                 *)
(***************************************************************************)
EXTENDS Operator, TLAPS

-----------------------------------------------------------------------------
(* Options and children.                                                   *)

LEMMA OptionElement ==
  ASSUME NEW S, NEW x \in Option(S), x # <<>>
  PROVE  /\ x[1] \in S
         /\ x = <<x[1]>>
BY DEF Option

LEMMA OptionOf ==
  ASSUME NEW S, NEW x \in S
  PROVE  /\ <<x>> \in Option(S)
         /\ <<x>> # <<>>
         /\ <<x>>[1] = x
         /\ <<>> \in Option(S)
BY DEF Option

\* An apply gives a child with the value asked for, from the copy's generation.
LEMMA AppliedChild ==
  ASSUME NEW V, NEW child \in Option(Child(V)), NEW v \in V, cluster \in Object
  PROVE  /\ Applied(child, v) \in Option(Child(V))
         /\ Applied(child, v) # <<>>
         /\ Applied(child, v)[1].value = v
         /\ Applied(child, v)[1].from = cluster.generation
<1>1. cluster.generation \in 1..MaxGeneration
  BY DEF Object
<1>2. CASE child = <<>>
  <2> DEFINE r == [value |-> v, owner |-> "operator", from |-> cluster.generation]
  <2>1. r \in Child(V) /\ r.value = v /\ r.from = cluster.generation
    BY <1>1 DEF Child
  <2>2. Applied(child, v) = <<r>>
    BY <1>2 DEF Applied
  <2> HIDE DEF r
  <2> QED BY <2>1, <2>2, OptionOf
<1>3. CASE child # <<>>
  <2> DEFINE c == child[1]
             r == [c EXCEPT !.value = v, !.from = cluster.generation]
  <2>1. c \in Child(V)
    BY <1>3, OptionElement
  <2>2. r \in Child(V) /\ r.value = v /\ r.from = cluster.generation
    BY <1>1, <2>1, Zenon DEF Child
  <2>3. Applied(child, v) = <<r>>
    BY <1>3 DEF Applied
  <2> HIDE DEF r
  <2> QED BY <2>2, <2>3, OptionOf
<1> QED BY <1>2, <1>3

\* The generations that the children and the status hold are numbers.
LEMMA Generations ==
  ASSUME TypeOK
  PROVE  /\ configmap # <<>> => configmap[1].from \in Nat
         /\ statefulset # <<>> => statefulset[1].from \in Nat
         /\ status # <<>> => status[1].observed \in Nat
<1>1. ASSUME configmap # <<>> PROVE configmap[1].from \in Nat
  <2>1. configmap[1] \in Child(Config)
    BY <1>1, OptionElement DEF TypeOK
  <2> QED BY <2>1 DEF Child
<1>2. ASSUME statefulset # <<>> PROVE statefulset[1].from \in Nat
  <2>1. statefulset[1] \in Child([pods : Pods, claim : Claim])
    BY <1>2, OptionElement DEF TypeOK
  <2> QED BY <2>1 DEF Child
<1>3. ASSUME status # <<>> PROVE status[1].observed \in Nat
  <2>1. status[1] \in [observed : 1..MaxGeneration, ready : Pods]
    BY <1>3, OptionElement, Zenon DEF TypeOK
  <2> QED BY <2>1
<1> QED BY <1>1, <1>2, <1>3

-----------------------------------------------------------------------------
(* The inductive invariant.                                                *)

\* The copies lag behind the object, and a generation has one spec.
Versions ==
  /\ store.generation <= object.generation
  /\ cluster.generation <= store.generation
  /\ store.generation = object.generation => store.spec = object.spec
  /\ cluster.generation = store.generation => cluster.spec = store.spec

\* Nothing was applied from a later generation than the copy's.
Past ==
  /\ statefulset # <<>> => statefulset[1].from <= cluster.generation
  /\ status # <<>> => status[1].observed <= cluster.generation

\* The ConfigMap is never from an earlier generation than the StatefulSet, and
\* past its step it is from the copy's.
Order ==
  /\ configmap # <<>> /\ statefulset # <<>> => statefulset[1].from <= configmap[1].from
  /\ configmap # <<>> /\ step \in {"service", "statefulset"} =>
       configmap[1].from = cluster.generation

ConfigDone == configmap # <<>> /\ configmap[1].value = cluster.spec.config
ServiceDone == service # <<>> /\ service[1].value = Headless
SetDone == statefulset # <<>> /\ statefulset[1].value = Wanted(cluster.spec)

\* What the reconcile in progress has applied is there, unless others changed it.
Progress ==
  ~touchedNow =>
    /\ step \in {"service", "statefulset", "status"} => ConfigDone
    /\ step \in {"statefulset", "status"} => ServiceDone
    /\ step = "status" => SetDone

\* The status is true of the copy, and stays so while the copy is applied again.
Truth ==
  status # <<>> /\ status[1].observed = cluster.generation /\ ~touched =>
    ConfigDone /\ ServiceDone /\ SetDone

IInv == TypeOK /\ Versions /\ Past /\ Order /\ Progress /\ Truth /\ ConfigFirst

-----------------------------------------------------------------------------

\* The first state satisfies the invariant.
LEMMA InitIInv == Init => IInv
<1> SUFFICES ASSUME Init PROVE IInv
  OBVIOUS
<1>1. object \in Object /\ object.generation \in Nat
  BY OperatorAssumption DEF Init, Object, ClusterSpec
<1>a. changes \in 0..MaxChanges /\ faults \in 0..MaxFaults /\ restarts \in 0..MaxRestarts
  BY OperatorAssumption DEF Init
<1>b. store \in Object /\ cluster \in Object /\ due \in BOOLEAN /\ touched \in BOOLEAN /\ touchedNow \in BOOLEAN
  BY <1>1, Zenon DEF Init
<1>2. TypeOK
  BY <1>1, <1>a, <1>b, Zenon DEF Init, TypeOK, Option
<1>3. Versions /\ Past /\ Order /\ Progress /\ Truth /\ ConfigFirst
  BY <1>1 DEF Init, Versions, Past, Order, Progress, Truth, ConfigFirst
<1> QED BY <1>2, <1>3 DEF IInv

\* A change of the spec.
LEMMA EditSpecKeeps ==
  ASSUME IInv, NEW spec \in ClusterSpec, EditSpec(spec) PROVE IInv'
<1> USE DEF IInv
<1>1. object' \in Object /\ object'.generation = object.generation + 1 /\ object.generation \in Nat
  BY OperatorAssumption DEF EditSpec, TypeOK, Object
<1>2. TypeOK'
  BY <1>1 DEF EditSpec, children, TypeOK
<1>3. store.generation \in Nat /\ cluster.generation \in Nat
  BY DEF TypeOK, Object
<1>4. Versions'
  BY <1>1, <1>3 DEF EditSpec, Versions
<1>5. Past' /\ Order' /\ Progress' /\ Truth' /\ ConfigFirst'
  BY DEF EditSpec, children, Past, Order, Progress, Truth, ConfigFirst, ConfigDone, ServiceDone, SetDone
<1> QED BY <1>2, <1>4, <1>5

\* The watch, and a restart.
LEMMA WatchKeeps ==
  ASSUME IInv, Watch \/ Restart PROVE IInv'
<1> USE DEF IInv
<1>a. restarts' \in 0..MaxRestarts
  BY OperatorAssumption DEF Watch, Restart, TypeOK
<1>b. due' \in BOOLEAN /\ store' \in Object
  BY Zenon DEF Watch, Restart, TypeOK
<1>c. step' \in {"idle", "configmap", "service", "statefulset", "status"}
  BY DEF Watch, Restart, TypeOK
<1>d. UNCHANGED <<object, cluster, children, status, pods, touched, touchedNow, changes, faults>>
  BY DEF Watch, Restart
<1>1. TypeOK'
  BY <1>a, <1>b, <1>c, <1>d DEF children, TypeOK
<1>2. object.generation \in Nat /\ store.generation \in Nat /\ cluster.generation \in Nat
  BY DEF TypeOK, Object
<1>3. Versions'
  BY <1>2 DEF Watch, Restart, Versions
<1>4. Past' /\ Order' /\ Progress' /\ Truth' /\ ConfigFirst'
  BY DEF Watch, Restart, children, Past, Order, Progress, Truth, ConfigFirst, ConfigDone, ServiceDone, SetDone
<1> QED BY <1>1, <1>3, <1>4

\* The pods start with what the StatefulSet and the ConfigMap hold.
LEMMA RollPodsKeeps ==
  ASSUME IInv, RollPods PROVE IInv'
<1> USE DEF IInv
<1> DEFINE c == configmap[1]
           s == statefulset[1]
           p == [pods |-> s.value.pods, from |-> s.from, config |-> c.value, configFrom |-> c.from]
<1>1. c \in Child(Config) /\ s \in Child([pods : Pods, claim : Claim])
  BY OptionElement DEF RollPods, TypeOK
<1>2. p \in [pods : Pods, from : 1..MaxGeneration, config : Config, configFrom : 1..MaxGeneration]
  BY <1>1 DEF Child
<1>3. pods' = <<p>>
  BY DEF RollPods
<1>4. pods' \in Option([pods : Pods, from : 1..MaxGeneration, config : Config, configFrom : 1..MaxGeneration])
  BY <1>2, <1>3, OptionOf, Zenon
<1>5. TypeOK'
  BY <1>4 DEF RollPods, children, TypeOK
<1>6. p.from <= p.configFrom
  BY DEF RollPods, Order
<1>7. ConfigFirst'
  BY <1>3, <1>6 DEF ConfigFirst
<1>8. Versions' /\ Past' /\ Order' /\ Progress' /\ Truth'
  BY DEF RollPods, children, Versions, Past, Order, Progress, Truth, ConfigDone, ServiceDone, SetDone
<1> QED BY <1>5, <1>7, <1>8

\* A change by others, which marks the status and the reconcile in progress.
LEMMA ChangeKeeps ==
  ASSUME IInv, ChangeConfigMap \/ ChangeService \/ ChangeStatefulSet PROVE IInv'
<1> USE DEF IInv
<1>1. changes' \in 0..MaxChanges /\ touched' /\ touchedNow'
  BY OperatorAssumption DEF ChangeConfigMap, ChangeService, ChangeStatefulSet, Change, TypeOK
<1>2. TypeOK'
  BY <1>1, Zenon DEF ChangeConfigMap, ChangeService, ChangeStatefulSet, Change, TypeOK
<1>3. Versions' /\ Progress' /\ Truth' /\ ConfigFirst'
  BY <1>1 DEF ChangeConfigMap, ChangeService, ChangeStatefulSet, Change, Versions, Progress, Truth, ConfigFirst
<1>4. Past' /\ Order'
  BY DEF ChangeConfigMap, ChangeService, ChangeStatefulSet, Change, Past, Order
<1> QED BY <1>2, <1>3, <1>4

\* reconcile begins: it takes the copy in the store.
LEMMA ReconcileKeeps ==
  ASSUME IInv, reconcile PROVE IInv'
<1> USE DEF IInv
<1>1. TypeOK'
  <2>1. due' \in BOOLEAN /\ touchedNow' \in BOOLEAN /\ cluster' \in Object
    BY Zenon DEF reconcile, TypeOK
  <2>2. step' \in {"idle", "configmap", "service", "statefulset", "status"}
    BY DEF reconcile
  <2>3. UNCHANGED <<object, store, children, status, pods, touched, changes, faults, restarts>>
    BY DEF reconcile
  <2> QED BY <2>1, <2>2, <2>3 DEF children, TypeOK
<1>2. object.generation \in Nat /\ store.generation \in Nat /\ cluster.generation \in Nat
  BY DEF TypeOK, Object
<1>3. Versions' /\ Order' /\ Progress' /\ ConfigFirst'
  BY <1>2 DEF reconcile, children, Versions, Order, Progress, ConfigFirst
<1>4. Past'
  <2> QED BY <1>2, Generations DEF reconcile, children, Past, Versions
<1>5. Truth'
  <2> SUFFICES ASSUME status # <<>>, status[1].observed = store.generation, ~touched
               PROVE  (ConfigDone /\ ServiceDone /\ SetDone)'
    BY DEF reconcile, Truth
  <2>1. cluster.generation = store.generation
    BY <1>2 DEF Past, Versions
  <2>2. cluster.spec = store.spec
    BY <2>1 DEF Versions
  <2>3. ConfigDone /\ ServiceDone /\ SetDone
    BY <2>1 DEF Truth
  <2> QED BY <2>2, <2>3 DEF reconcile, children, ConfigDone, ServiceDone, SetDone
<1> QED BY <1>1, <1>3, <1>4, <1>5

\* How a step of reconcile can end.
Ends(next) ==
  \/ step' = next /\ UNCHANGED <<due, faults>>
  \/ step' = "idle" /\ due' = TRUE /\ faults' \in 0..MaxFaults

LEMMA EndsTyped ==
  ASSUME TypeOK, NEW next \in {"idle", "configmap", "service", "statefulset", "status"}, Ends(next)
  PROVE  /\ step' \in {"idle", "configmap", "service", "statefulset", "status"}
         /\ due' \in BOOLEAN
         /\ faults' \in 0..MaxFaults
BY Zenon DEF Ends, TypeOK

LEMMA FaultEnds ==
  ASSUME TypeOK, NEW next PROVE  (Fault => Ends(next)) /\ (Refused => Ends(next)) /\ (Answered(next) => Ends(next))
BY OperatorAssumption DEF Fault, Refused, Answered, error_policy, Ends, TypeOK

\* The ConfigMap is applied, or not.
LEMMA ConfigMapKeeps ==
  ASSUME IInv, reconcile_configmap PROVE IInv'
<1> USE DEF IInv
<1> DEFINE new == Applied(configmap, cluster.spec.config)
<1>1. /\ Ends("service")
      /\ step = "configmap"
      /\ UNCHANGED <<object, store, cluster, service, statefulset, status, pods, touched, touchedNow, changes, restarts>>
      /\ configmap' = new \/ (configmap' = configmap /\ step' = "idle")
  BY FaultEnds, Zenon DEF reconcile_configmap, Fault, Refused, error_policy
<1>2. /\ new \in Option(Child(Config))
      /\ new # <<>>
      /\ new[1].value = cluster.spec.config
      /\ new[1].from = cluster.generation
  <2>1. cluster.spec.config \in Config
    BY DEF TypeOK, Object, ClusterSpec
  <2> QED BY <2>1, AppliedChild DEF TypeOK
<1> HIDE DEF new
<1>3. configmap' \in Option(Child(Config))
  BY <1>1, <1>2 DEF TypeOK
<1>4. TypeOK'
  BY <1>1, <1>3, EndsTyped DEF TypeOK
<1>5. Versions' /\ Past' /\ ConfigFirst'
  BY <1>1 DEF Versions, Past, ConfigFirst
<1>6. Order'
  <2>1. statefulset # <<>> => statefulset[1].from <= cluster.generation
    BY DEF Past
  <2>2. CASE configmap' = new
    BY <1>1, <1>2, <2>1, <2>2 DEF Order
  <2>3. CASE configmap' = configmap /\ step' = "idle"
    BY <1>1, <2>3 DEF Order
  <2> QED BY <1>1, <2>2, <2>3
<1>7. Progress'
  <2>1. step' = "service" \/ step' = "idle"
    BY <1>1 DEF Ends
  <2>2. CASE step' = "service"
    <3>1. configmap' = new
      BY <1>1, <2>2
    <3>2. ConfigDone'
      BY <1>1, <1>2, <3>1 DEF ConfigDone
    <3> QED BY <2>2, <3>2 DEF Progress
  <2>3. CASE step' = "idle"
    BY <2>3 DEF Progress
  <2> QED BY <2>1, <2>2, <2>3
<1>8. Truth'
  <2>1. ConfigDone => ConfigDone'
    BY <1>1, <1>2 DEF ConfigDone
  <2>2. (ServiceDone => ServiceDone') /\ (SetDone => SetDone')
    BY <1>1 DEF ServiceDone, SetDone
  <2> QED BY <1>1, <2>1, <2>2 DEF Truth
<1> QED BY <1>4, <1>5, <1>6, <1>7, <1>8

\* The Service is applied, or not.
LEMMA ServiceKeeps ==
  ASSUME IInv, reconcile_service PROVE IInv'
<1> USE DEF IInv
<1> DEFINE new == Applied(service, Headless)
<1>1. /\ Ends("statefulset")
      /\ step = "service"
      /\ UNCHANGED <<object, store, cluster, configmap, statefulset, status, pods, touched, touchedNow, changes, restarts>>
      /\ service' = new \/ (service' = service /\ step' = "idle")
  BY FaultEnds, Zenon DEF reconcile_service, Fault, Refused, error_policy
<1>2. /\ new \in Option(Child({Headless, "edited"}))
      /\ new # <<>>
      /\ new[1].value = Headless
  BY AppliedChild DEF TypeOK
<1> HIDE DEF new
<1>3. service' \in Option(Child({Headless, "edited"}))
  BY <1>1, <1>2 DEF TypeOK
<1>4. TypeOK'
  BY <1>1, <1>3, EndsTyped DEF TypeOK
<1>5. Versions' /\ Past' /\ ConfigFirst'
  BY <1>1 DEF Versions, Past, ConfigFirst
<1>6. Order'
  BY <1>1 DEF Order, Ends
<1>7. Progress'
  <2>1. step' = "statefulset" \/ step' = "idle"
    BY <1>1 DEF Ends
  <2>2. ASSUME step' = "statefulset", ~touchedNow PROVE ConfigDone' /\ ServiceDone'
    <3>1. service' = new
      BY <1>1, <2>2
    <3>2. ServiceDone'
      BY <1>2, <3>1 DEF ServiceDone
    <3>3. ConfigDone
      BY <1>1, <2>2 DEF Progress
    <3> QED BY <1>1, <3>2, <3>3 DEF ConfigDone
  <2> QED BY <1>1, <2>1, <2>2 DEF Progress
<1>8. Truth'
  <2>1. ServiceDone => ServiceDone'
    BY <1>1, <1>2 DEF ServiceDone
  <2>2. (ConfigDone => ConfigDone') /\ (SetDone => SetDone')
    BY <1>1 DEF ConfigDone, SetDone
  <2> QED BY <1>1, <2>1, <2>2 DEF Truth
<1> QED BY <1>4, <1>5, <1>6, <1>7, <1>8

\* The StatefulSet is applied, or not.
LEMMA StatefulSetKeeps ==
  ASSUME IInv, reconcile_statefulset PROVE IInv'
<1> USE DEF IInv
<1> DEFINE new == Applied(statefulset, Wanted(cluster.spec))
<1>1. /\ Ends("status")
      /\ step = "statefulset"
      /\ UNCHANGED <<object, store, cluster, configmap, service, status, pods, touched, touchedNow, changes, restarts>>
      /\ statefulset' = new \/ (statefulset' = statefulset /\ step' = "idle")
  BY FaultEnds, Zenon DEF reconcile_statefulset, Fault, Refused, error_policy
<1>2. /\ new \in Option(Child([pods : Pods, claim : Claim]))
      /\ new # <<>>
      /\ new[1].value = Wanted(cluster.spec)
      /\ new[1].from = cluster.generation
  <2>1. cluster.spec.pods \in Pods /\ cluster.spec.claim \in Claim
    BY DEF TypeOK, Object, ClusterSpec
  <2>2. Wanted(cluster.spec) \in [pods : Pods, claim : Claim]
    BY <2>1 DEF Wanted
  <2>3. cluster \in Object /\ statefulset \in Option(Child([pods : Pods, claim : Claim]))
    BY DEF TypeOK
  <2> DEFINE V == [pods : Pods, claim : Claim]
             w == Wanted(cluster.spec)
  <2>4. w \in V /\ statefulset \in Option(Child(V))
    BY <2>2, <2>3
  <2> HIDE DEF V, w
  <2>5. /\ Applied(statefulset, w) \in Option(Child(V))
        /\ Applied(statefulset, w) # <<>>
        /\ Applied(statefulset, w)[1].value = w
        /\ Applied(statefulset, w)[1].from = cluster.generation
    BY <2>3, <2>4, AppliedChild
  <2> QED BY <2>5 DEF V, w
<1> HIDE DEF new
<1>3. statefulset' \in Option(Child([pods : Pods, claim : Claim]))
  BY <1>1, <1>2 DEF TypeOK
<1>4. TypeOK'
  BY <1>1, <1>3, EndsTyped DEF TypeOK
<1>5. cluster.generation \in Nat
  BY DEF TypeOK, Object
<1>6. Versions' /\ Past' /\ ConfigFirst'
  BY <1>1, <1>2, <1>5 DEF Versions, Past, ConfigFirst
<1>7. Order'
  <2>1. configmap # <<>> => configmap[1].from = cluster.generation
    BY <1>1 DEF Order
  <2>2. step' = "status" \/ step' = "idle"
    BY <1>1 DEF Ends
  <2>3. CASE statefulset' = new
    BY <1>1, <1>2, <1>5, <2>1, <2>2, <2>3 DEF Order
  <2>4. CASE statefulset' = statefulset
    BY <1>1, <2>2, <2>4 DEF Order
  <2> QED BY <1>1, <2>3, <2>4
<1>8. Progress'
  <2>1. step' = "status" \/ step' = "idle"
    BY <1>1 DEF Ends
  <2>2. ASSUME step' = "status", ~touchedNow PROVE ConfigDone' /\ ServiceDone' /\ SetDone'
    <3>1. statefulset' = new
      BY <1>1, <2>2
    <3>2. SetDone'
      BY <1>1, <1>2, <3>1 DEF SetDone
    <3>3. ConfigDone /\ ServiceDone
      BY <1>1, <2>2 DEF Progress
    <3> QED BY <1>1, <3>2, <3>3 DEF ConfigDone, ServiceDone
  <2> QED BY <1>1, <2>1, <2>2 DEF Progress
<1>9. Truth'
  <2>1. SetDone => SetDone'
    BY <1>1, <1>2 DEF SetDone
  <2>2. (ConfigDone => ConfigDone') /\ (ServiceDone => ServiceDone')
    BY <1>1 DEF ConfigDone, ServiceDone
  <2> QED BY <1>1, <2>1, <2>2 DEF Truth
<1> QED BY <1>4, <1>6, <1>7, <1>8, <1>9

\* The status is written, or not.
LEMMA StatusKeeps ==
  ASSUME IInv, update_status PROVE IInv'
<1> USE DEF IInv
<1>1. /\ Ends("idle")
      /\ step = "status"
      /\ UNCHANGED <<object, store, cluster, configmap, service, statefulset, pods, touchedNow, changes, restarts>>
      /\ \/ status' = Written /\ touched' = touchedNow
         \/ status' = status /\ touched' = touched
  <2>1. Requeue => Ends("idle")
    BY Zenon DEF Requeue, Ends, TypeOK
  <2> QED BY <2>1, FaultEnds DEF update_status, children
<1>2. /\ Written \in Option([observed : 1..MaxGeneration, ready : Pods])
      /\ Written[1].observed = cluster.generation
  BY OptionOf, Zenon DEF TypeOK, Object, ClusterSpec, Written
<1>3. status' \in Option([observed : 1..MaxGeneration, ready : Pods]) /\ touched' \in BOOLEAN
  BY <1>1, <1>2 DEF TypeOK
<1>4. TypeOK'
  BY <1>1, <1>3, EndsTyped DEF TypeOK
<1>5. cluster.generation \in Nat
  BY DEF TypeOK, Object
<1>6. step' = "idle"
  BY <1>1 DEF Ends
<1>7. Versions' /\ Past' /\ Order' /\ Progress' /\ ConfigFirst'
  BY <1>1, <1>2, <1>5, <1>6 DEF Versions, Past, Order, Progress, ConfigFirst
<1>8. Truth'
  <2>1. (ConfigDone => ConfigDone') /\ (ServiceDone => ServiceDone') /\ (SetDone => SetDone')
    BY <1>1 DEF ConfigDone, ServiceDone, SetDone
  <2>2. CASE status' = Written /\ touched' = touchedNow
    <3>1. ~touchedNow => ConfigDone /\ ServiceDone /\ SetDone
      BY <1>1 DEF Progress
    <3> QED BY <1>1, <1>2, <2>1, <2>2, <3>1 DEF Truth
  <2>3. CASE status' = status /\ touched' = touched
    BY <1>1, <2>1, <2>3 DEF Truth
  <2> QED BY <1>1, <2>2, <2>3
<1> QED BY <1>4, <1>7, <1>8

-----------------------------------------------------------------------------

LEMMA NextKeeps == IInv /\ [Next]_vars => IInv'
<1> SUFFICES ASSUME IInv, [Next]_vars PROVE IInv'
  OBVIOUS
<1>1. CASE UNCHANGED vars
  BY <1>1, SMTT(30) DEF vars, children, IInv, TypeOK, Versions, Past, Order, Progress, Truth, ConfigFirst,
              ConfigDone, ServiceDone, SetDone
<1>2. CASE Next
  BY <1>2, EditSpecKeeps, WatchKeeps, RollPodsKeeps, ChangeKeeps, ReconcileKeeps, ConfigMapKeeps,
     ServiceKeeps, StatefulSetKeeps, StatusKeeps DEF Next, Reconciling
<1> QED BY <1>1, <1>2

LEMMA IInvHolds == Spec => []IInv
BY InitIInv, NextKeeps, PTL DEF Spec

\* The copies of the object, the children, the status and the pods keep their types.
THEOREM TypeCorrect == Spec => []TypeOK
<1>1. IInv => TypeOK
  BY DEF IInv
<1> QED BY <1>1, IInvHolds, PTL

\* However edits of the spec, changes by others, failed requests and restarts
\* fall between the requests of a reconcile, a status that names the current
\* generation is true of the children (reconciler.rs:34-57, 256-277).
THEOREM StatusIsTrue == Spec => []StatusTrue
<1>1. IInv => StatusTrue
  <2> SUFFICES ASSUME IInv, status # <<>>, status[1].observed = object.generation, ~touched
               PROVE  AsSpecified
    BY DEF StatusTrue
  <2>1. object.generation \in Nat /\ store.generation \in Nat /\ cluster.generation \in Nat
    BY DEF IInv, TypeOK, Object
  <2>2. cluster.generation = object.generation /\ store.generation = object.generation
    BY <2>1 DEF IInv, Past, Versions
  <2>3. cluster.spec = object.spec
    BY <2>2 DEF IInv, Versions
  <2>4. ConfigDone /\ ServiceDone /\ SetDone
    BY <2>2 DEF IInv, Truth
  <2> QED BY <2>3, <2>4 DEF AsSpecified, ConfigDone, ServiceDone, SetDone
<1> QED BY <1>1, IInvHolds, PTL

\* No pod runs a StatefulSet of a newer generation than the ConfigMap it started
\* with: reconcile applies the ConfigMap first and stops at an error.
THEOREM ConfigGoesFirst == Spec => []ConfigFirst
<1>1. IInv => ConfigFirst
  BY DEF IInv
<1> QED BY <1>1, IInvHolds, PTL
=============================================================================
