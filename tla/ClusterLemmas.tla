--------------------------- MODULE ClusterLemmas ----------------------------
(***************************************************************************)
(* Type correctness of the cluster, for any number of nodes, users, pods   *)
(* and ReplicaSets, step by step.  TypeOK is not inductive: what a         *)
(* handler, the scheduler, the controller or a kubelet does with an object *)
(* it holds depends on the object being there, and that on the point the   *)
(* process is at.  Held objects are what the Shape predicates add.         *)
(*                                                                         *)
(* No container of a pod is created twice.  A kubelet that ends and comes  *)
(* back has forgotten its pods, so the argument is about its registration: *)
(* RegisteredOnce says that only one start of a kubelet ever gets past it. *)
(* The handlers never remove the node, a POST for a node that is there is  *)
(* answered 409, and everything a kubelet runs it runs after its 201.      *)
(***************************************************************************)
EXTENDS Cluster, ApiServerProofs

USE ZenonT(30), SMTT(120)

(* The scheduler has a copy of every pod it still has to bind.             *)
SchedShape == \A p \in queue : listed[p] # Absent

(* The controller has read the ReplicaSet it works on, and while it        *)
(* creates pods it is inside the template.                                 *)
CtlShape ==
  /\ cpc \in {"list", "create", "put", "updget", "updput"} => cur # Absent
  /\ cpc \in {"create", "put"} => at \in 1..Len(Template) /\ missing > 0
  /\ cpc \notin {"create", "put"} => at = 1
  /\ cpc = "put" => newPod # Absent

(* The status loop only comes to pods of the map.                          *)
KubeShape == \A n \in NodeNames : sweep[n] \subseteq ListKeys(known[n])

TypeInv == TypeOK /\ CallShape /\ SchedShape /\ CtlShape /\ KubeShape

-----------------------------------------------------------------------------
(* The calls of the kubelets are calls of the API.                         *)
LEMMA KubeletCalls ==
  ASSUME NEW n \in NodeNames
  PROVE  /\ RegisterCall(n) \in Calls
         /\ PollCall(n) \in Calls
         /\ \A p \in PodNames, pod \in Pod : StatusCall(p, pod) \in Calls
         /\ WatchSlot(n) \in Requests
         /\ StatusSlot(n) \in Requests
  BY DEF Calls, CallsOf, ListCallsOf, RegisterCall, PollCall, StatusCall, Requests,
         WatchSlot, StatusSlot, Node

(* So does a client that takes its answer.                                 *)
LEMMA ConsumeTypes ==
  ASSUME ApiTypeOK, CallShape, NEW r \in Requests, Consume(r)
  PROVE  ApiTypeOK' /\ CallShape'
  BY SMTT(60) DEF ApiTypeOK, CallShape, Consume, Answers, NoItems

(* The cluster starts well typed.                                          *)
LEMMA TypeInit == Init => TypeInv
  <1> SUFFICES ASSUME Init PROVE TypeInv
    OBVIOUS
  <1>1. StoreTypeOK /\ ApiTypeOK /\ SchedTypeOK /\ CtlTypeOK /\ KubeTypeOK
    BY KubeletAssumption DEF Init, StoreInit, StoreTypeOK, ApiInit, ApiTypeOK, Answers, NoItems,
       SchedInit, SchedTypeOK, CtlInit, CtlTypeOK, KubeInit, KubeTypeOK
  <1>2. crashes \in 0..MaxCrashes
    BY CrashAssumption DEF Init
  <1>3. CallShape /\ SchedShape /\ CtlShape /\ KubeShape
    BY DEF Init, ApiInit, SchedInit, CtlInit, KubeInit, CallShape, SchedShape, CtlShape, KubeShape
  <1> QED BY <1>1, <1>2, <1>3 DEF TypeInv, TypeOK

-----------------------------------------------------------------------------
(* The scheduler binds only pods it has a copy of.                         *)
LEMMA SchedTypes ==
  ASSUME StoreTypeOK, SchedTypeOK, SchedShape, SchedStep \/ SchedAbort
  PROVE  StoreTypeOK' /\ SchedTypeOK' /\ SchedShape'
  <1> USE DEF StoreTypeOK, SchedTypeOK, SchedShape
  <1>1. CASE SchedListPods
    BY <1>1 DEF SchedListPods, PendingPods, ListKeys, storeVars
  <1>2. CASE SchedListNodes
    BY <1>2 DEF SchedListNodes, EndPass, ListKeys, storeVars
  <1>3. CASE SchedAssign
    <2>1. PICK p \in queue, n \in available :
            /\ pods' = IF Validate(listed[p]) THEN Update(pods, p, Bind(listed[p], n)) ELSE pods
            /\ \/ EndPass
               \/ /\ queue' = queue \ {p}
                  /\ listed' = [listed EXCEPT ![p] = Absent]
                  /\ UNCHANGED <<spc, available>>
      BY <1>3 DEF SchedAssign
    <2>2. Bind(listed[p], n) \in Pod
      BY DEF Bind, Pod, PodStatus
    <2>3. StoreTypeOK'
      BY <1>3, <2>1, <2>2 DEF SchedAssign, Update
    <2>4. SchedTypeOK' /\ SchedShape'
      BY <2>1 DEF EndPass
    <2> QED BY <2>3, <2>4
  <1>4. CASE SchedAbort
    BY <1>4 DEF SchedAbort, EndPass, storeVars
  <1> QED BY <1>1, <1>2, <1>3, <1>4 DEF SchedStep

-----------------------------------------------------------------------------
(* What the controller counts is a number: the pods are finitely many.     *)
CountsAreNumbers == \A rs \in RSNames : Cardinality(ActivePods(rs)) \in Nat

(* A pod made from the template of a ReplicaSet is a pod.                  *)
LEMMA TemplatePodType ==
  ASSUME cur \in ReplicaSet, at \in 1..Len(Template)
  PROVE  TemplatePod \in Pod
  <1>1. cur.template \in Specs
    BY DEF ReplicaSet
  <1>2. cur.template # NilSpec
    BY DEF Template, ContainersOf
  <1>3. Template = cur.template /\ Template \in Seq(Containers)
    BY <1>1, <1>2, ObjectsAssumption DEF Template, ContainersOf
  <1>4. <<Template[at]>> \in Specs
    BY SMTT(60), <1>1, <1>3, ObjectsAssumption DEF Template
  <1> QED BY <1>4 DEF TemplatePod, Pod, PodStatus

(* The length of a template.                                               *)
LEMMA TemplateLen ==
  ASSUME cur \in ReplicaSet
  PROVE  Len(Template) \in Nat /\ (Template # <<>> => Len(Template) > 0)
  <1>1. Template \in Seq(Containers)
    BY SMTT(60), ObjectsAssumption DEF Template, ContainersOf, ReplicaSet
  <1> QED BY <1>1

(* The controller works on what it has read.                               *)
LEMMA CtlTypes ==
  ASSUME StoreTypeOK, CountsAreNumbers, CtlTypeOK, CtlShape, CtlStep \/ CtlCrash
  PROVE  StoreTypeOK' /\ CtlTypeOK' /\ CtlShape'
  <1> USE DEF StoreTypeOK, CtlTypeOK, CtlShape
  <1>1. CASE CtlList
    BY <1>1 DEF CtlList, ListKeys, storeVars
  <1>2. CASE ReconcileGet
    BY SMTT(60), <1>2 DEF ReconcileGet, Fatal, Fresh, Exists, storeVars
  <1>3. CASE ReconcileList
    <2>1. cur \in ReplicaSet /\ cur.replicas \in Int
      BY <1>3, ObjectsAssumption DEF ReconcileList, ReplicaSet
    <2>2. PICK rs \in todo :
            LET count == Cardinality(ActivePods(rs)) IN
            \/ /\ count < cur.replicas
               /\ IF Template = <<>>
                    THEN cpc' = "updget" /\ UNCHANGED missing
                    ELSE cpc' = "create" /\ missing' = cur.replicas - count
               /\ UNCHANGED <<todo, cur, at, newPod>>
            \/ /\ count > cur.replicas
               /\ cpc' = "updget"
               /\ UNCHANGED <<todo, cur, missing, at, newPod>>
            \/ NextReplicaSet(rs)
      BY <1>3 DEF ReconcileList
    <2>3. StoreTypeOK'
      BY <1>3 DEF ReconcileList, storeVars
    <2>4. CASE NextReplicaSet(rs)
      BY SMTT(60), <2>3, <2>4 DEF NextReplicaSet, Fresh
    <2>5. CASE ~NextReplicaSet(rs)
      <3>1. Cardinality(ActivePods(rs)) \in Nat
        BY DEF CountsAreNumbers
      <3>2. at = 1
        BY <1>3 DEF ReconcileList
      <3>3. UNCHANGED <<todo, cur, at, newPod>> /\ Template' = Template
        BY <2>2, <2>5 DEF Template
      <3>4. \/ cpc' = "updget" /\ UNCHANGED missing
            \/ cpc' = "create" /\ Template # <<>> /\ missing' \in Nat /\ missing' > 0
        BY <2>1, <2>2, <2>5, <3>1
      <3>5. Len(Template) \in Nat /\ (Template # <<>> => Len(Template) > 0)
        BY <2>1, TemplateLen
      <3>6. CtlTypeOK'
        BY <3>3, <3>4
      <3>7. cur' # Absent /\ at' = 1 /\ (cpc' = "create" => at' \in 1..Len(Template)' /\ missing' > 0)
        BY SMTT(60), <2>1, <3>2, <3>3, <3>4, <3>5, ObjectsAssumption
      <3>8. CtlShape'
        BY <3>4, <3>7
      <3> QED BY <2>3, <3>6, <3>8
    <2> QED BY <2>4, <2>5
  <1>4. CASE ReconcileCreateGet
    <2>1. PICK rs \in todo, t \in RandomSuffixes :
            \/ Fatal
            \/ /\ newPod' = GenerateName(rs, t)
               /\ cpc' = "put"
               /\ UNCHANGED <<todo, cur, missing, at>>
      BY <1>4 DEF ReconcileCreateGet
    <2>2. GenerateName(rs, t) \in PodNames /\ Absent \notin PodNames
      BY ObjectsAssumption DEF PodNames, GeneratedNames
    <2> QED BY SMTT(60), <1>4, <2>1, <2>2 DEF ReconcileCreateGet, Fatal, Fresh, storeVars, Template
  <1>5. CASE ReconcileCreatePut
    <2>1. cur \in ReplicaSet /\ newPod \in PodNames /\ at \in 1..Len(Template)
      BY <1>5 DEF ReconcileCreatePut
    <2>2. TemplatePod \in Pod /\ Len(Template) \in Nat
      BY <2>1, TemplatePodType, TemplateLen
    <2>3. StoreTypeOK'
      BY <1>5, <2>1, <2>2 DEF ReconcileCreatePut, Create
    <2> QED BY SMTT(60), <1>5, <2>1, <2>2, <2>3 DEF ReconcileCreatePut, Template
  <1>6. CASE ReconcileUpdateGet
    BY SMTT(60), <1>6 DEF ReconcileUpdateGet, Fatal, Fresh, storeVars
  <1>7. CASE ReconcileUpdatePut
    <2>1. [cur EXCEPT !.statusReplicas = cur.replicas] \in ReplicaSet
      BY <1>7 DEF ReconcileUpdatePut, ReplicaSet
    <2> QED BY SMTT(60), <1>7, <2>1 DEF ReconcileUpdatePut, Update, NextReplicaSet, Fresh
  <1>8. CASE CtlRestart \/ CtlCrash
    BY SMTT(60), <1>8 DEF CtlRestart, CtlCrash, Fatal, Fresh, storeVars
  <1> QED BY <1>1, <1>2, <1>3, <1>4, <1>5, <1>6, <1>7, <1>8 DEF CtlStep

-----------------------------------------------------------------------------
(* The kubelets and their requests.                                        *)
KubeInv == ApiInv /\ KubeTypeOK /\ KubeShape

(* Every status the kubelet computes is a pod status.                      *)
LEMMA StatusType ==
  ASSUME NEW states, NEW pod \in Pod
  PROVE  [pod EXCEPT !.status = determinePodStatus(states)] \in Pod
  BY DEF determinePodStatus, Pod, PodStatus

(* runPod goes on to a container index.                                    *)
LEMMA NextContainerType ==
  ASSUME running \in [NodeNames -> [PodNames -> Nat]],
         NEW n \in NodeNames, NEW p \in PodNames, NextContainer(n, p)
  PROVE  running' \in [NodeNames -> [PodNames -> Nat]]
  <1> DEFINE next == IF running[n][p] = Len(ContainersOf(known[n][p].spec)) THEN 0 ELSE running[n][p] + 1
  <1>1. next \in Nat
    OBVIOUS
  <1>2. running' = [running EXCEPT ![n][p] = next]
    BY DEF NextContainer
  <1> HIDE DEF next
  <1> QED BY <1>1, <1>2

(* A container stays a container when its state changes.                   *)
LEMMA ContainerTypes ==
  ASSUME NEW c \in DockerContainer
  PROVE  /\ [c EXCEPT !.state = "running"] \in DockerContainer
         /\ \A code \in {0, 1} : [c EXCEPT !.state = "exited", !.exitCode = code] \in DockerContainer
  BY DEF DockerContainer

(* A kubelet that ends leaves its node well typed.                         *)
LEMMA DiesTypes ==
  ASSUME KubeInv, NEW n \in NodeNames, Dies(n)
  PROVE  KubeInv'
  <1>1. ApiInv'
    BY DEF Dies, KubeInv, ApiInv, StoreTypeOK, ApiTypeOK, CallShape, storeVars, apiVars
  <1>2. KubeTypeOK' /\ KubeShape'
    BY DEF Dies, KubeInv, KubeTypeOK, KubeShape, NoItems, ListKeys
  <1> QED BY <1>1, <1>2 DEF KubeInv

(* A step of a kubelet or of its node keeps the types.                     *)
LEMMA KubeTypes ==
  ASSUME KubeInv, NEW n \in NodeNames,
         KubeletStep(n) \/ KubeletFault(n) \/ ContainerExit(n) \/ KubeletCrash(n)
  PROVE  KubeInv'
  <1> USE DEF KubeInv
  <1>0. WatchSlot(n) \in Requests /\ StatusSlot(n) \in Requests
    BY KubeletCalls
  <1>s. ASSUME UNCHANGED storeVars PROVE StoreTypeOK'
    BY <1>s DEF ApiInv, StoreTypeOK, storeVars
  <1>a. ASSUME UNCHANGED <<storeVars, apiVars>> PROVE ApiInv'
    BY <1>a DEF ApiInv, StoreTypeOK, ApiTypeOK, CallShape, storeVars, apiVars
  <1>1. CASE KubeletStart(n)
    <2>1. ApiInv'
      BY <1>0, <1>1, <1>s, KubeletCalls, IssueTypes DEF KubeletStart, ApiInv
    <2>2. KubeTypeOK' /\ KubeShape'
      BY SMTT(60), <1>1, KubeletAssumption DEF KubeletStart, KubeTypeOK, KubeShape, ListKeys
    <2> QED BY <2>1, <2>2
  <1>2. CASE KubeletRegistered(n)
    <2>1. ApiInv'
      BY <1>0, <1>2, <1>s, ConsumeTypes DEF KubeletRegistered, ApiInv
    <2>2. KubeTypeOK' /\ KubeShape'
      BY <1>2 DEF KubeletRegistered, KubeTypeOK, KubeShape, ListKeys
    <2> QED BY <2>1, <2>2
  <1>3. CASE KubeletPoll(n)
    <2>1. ApiInv'
      BY <1>0, <1>3, <1>s, KubeletCalls, IssueTypes DEF KubeletPoll, ApiInv
    <2>2. KubeTypeOK' /\ KubeShape'
      BY <1>3 DEF KubeletPoll, kubeVars, KubeTypeOK, KubeShape, ListKeys
    <2> QED BY <2>1, <2>2
  <1>4. CASE RunNewPods(n)
    <2>1. ApiInv'
      BY <1>0, <1>4, <1>s, ConsumeTypes DEF RunNewPods, ApiInv
    <2>2. items[WatchSlot(n)] \in [PodNames -> Pod \cup {Absent}]
      BY <1>0 DEF ApiInv, ApiTypeOK
    <2>3. \A p \in PodNames : FirstContainer(items[WatchSlot(n)][p]) \in Nat
      BY DEF FirstContainer
    <2>4. /\ known' \in [NodeNames -> [PodNames -> Pod \cup {Absent}]]
          /\ running' \in [NodeNames -> [PodNames -> Nat]]
      <3>1. /\ known \in [NodeNames -> [PodNames -> Pod \cup {Absent}]]
            /\ running \in [NodeNames -> [PodNames -> Nat]]
        BY DEF KubeTypeOK
      <3>2. known' \in [NodeNames -> [PodNames -> Pod \cup {Absent}]]
        BY <1>4, <2>2, <3>1 DEF RunNewPods
      <3>3. running' \in [NodeNames -> [PodNames -> Nat]]
        BY <1>4, <2>3, <3>1 DEF RunNewPods
      <3> QED BY <3>2, <3>3
    <2>5. PICK seen \in SUBSET NewPods(n) : sweep' = [sweep EXCEPT ![n] = @ \cup seen]
      BY <1>4 DEF RunNewPods
    <2>6. KubeTypeOK'
      BY <1>4, <2>4, <2>5 DEF RunNewPods, KubeTypeOK, NewPods
    <2>7. \A m \in NodeNames : sweep'[m] \subseteq ListKeys(known'[m])
      <3> SUFFICES ASSUME NEW m \in NodeNames, NEW p \in sweep'[m]
                   PROVE  p \in PodNames /\ known'[m][p] # Absent
        BY <2>4 DEF ListKeys
      <3>1. p \in sweep[m] \/ (m = n /\ p \in NewPods(n))
        BY <2>5 DEF KubeTypeOK
      <3>2. p \in PodNames
        BY <3>1 DEF NewPods, KubeTypeOK
      <3>3. known'[m][p] = IF m = n /\ p \in NewPods(n) THEN items[WatchSlot(n)][p] ELSE known[m][p]
        BY <1>4, <3>2 DEF RunNewPods, KubeTypeOK
      <3>4. p \in sweep[m] => known[m][p] # Absent
        BY DEF KubeShape, ListKeys
      <3> QED BY <3>1, <3>2, <3>3, <3>4 DEF NewPods
    <2>8. KubeShape'
      BY <2>7 DEF KubeShape, ListKeys
    <2> QED BY <2>1, <2>6, <2>8
  <1>5. CASE StatusTick(n)
    <2>1. KubeTypeOK' /\ KubeShape'
      BY <1>5 DEF StatusTick, KubeTypeOK, KubeShape, ListKeys
    <2> QED BY <1>5, <1>a, <2>1 DEF StatusTick
  <1>6. CASE UpdatePodStatus(n)
    <2>1. PICK p \in sweep[n] :
            /\ sweep' = [sweep EXCEPT ![n] = @ \ {p}]
            /\ \/ UNCHANGED <<known, apiVars>>
               \/ \E states \in Inspections(known[n][p]) :
                    LET pod == [known[n][p] EXCEPT !.status = determinePodStatus(states)] IN
                    /\ known' = [known EXCEPT ![n][p] = pod]
                    /\ Issue(StatusSlot(n), StatusCall(p, pod))
      BY <1>6 DEF UpdatePodStatus
    <2>2. p \in PodNames /\ known[n][p] \in Pod
      BY SMTT(60) DEF KubeTypeOK, KubeShape, ListKeys
    <2>3. CASE UNCHANGED <<known, apiVars>>
      <3>1. KubeTypeOK' /\ KubeShape'
        BY SMTT(60), <1>6, <2>1, <2>3 DEF UpdatePodStatus, KubeTypeOK, KubeShape, ListKeys
      <3> QED BY <1>6, <1>a, <2>3, <3>1 DEF UpdatePodStatus
    <2>4. ASSUME NEW states \in Inspections(known[n][p]), NEW pod,
                 pod = [known[n][p] EXCEPT !.status = determinePodStatus(states)],
                 known' = [known EXCEPT ![n][p] = pod],
                 Issue(StatusSlot(n), StatusCall(p, pod))
          PROVE  KubeInv'
      <3>1. pod \in Pod
        BY <2>2, <2>4, StatusType
      <3>2. ApiInv'
        BY <1>0, <1>6, <1>s, <2>2, <2>4, <3>1, KubeletCalls, IssueTypes DEF UpdatePodStatus, ApiInv
      <3>3. KubeTypeOK'
        BY <1>6, <2>1, <2>2, <2>4, <3>1 DEF UpdatePodStatus, KubeTypeOK
      <3>4. KubeShape'
        BY <2>1, <2>2, <2>4, <3>1, ObjectsAssumption DEF KubeTypeOK, KubeShape, ListKeys
      <3> QED BY <3>2, <3>3, <3>4
    <2> QED BY <2>1, <2>3, <2>4
  <1>7. CASE StatusAnswered(n)
    <2>1. ApiInv'
      BY <1>0, <1>7, <1>s, ConsumeTypes DEF StatusAnswered, ApiInv
    <2>2. KubeTypeOK' /\ KubeShape'
      BY <1>7 DEF StatusAnswered, kubeVars, KubeTypeOK, KubeShape, ListKeys
    <2> QED BY <2>1, <2>2
  <1>8. ASSUME NEW p \in PodNames, ContainerCreate(n, p)
        PROVE  KubeInv'
    <2>1. [pod |-> p, at |-> running[n][p], start |-> starts[n],
           state |-> "created", exitCode |-> 0] \in DockerContainer
      BY SMTT(60), KubeletAssumption DEF KubeTypeOK, DockerContainer
    <2>2. docker' \in [NodeNames -> SUBSET DockerContainer]
      BY SMTT(60), <1>8, <2>1 DEF ContainerCreate, KubeTypeOK
    <2>3. running' \in [NodeNames -> [PodNames -> Nat]]
      BY <1>8, NextContainerType DEF ContainerCreate, KubeTypeOK
    <2>4. KubeTypeOK' /\ KubeShape'
      BY <1>8, <2>2, <2>3 DEF ContainerCreate, KubeTypeOK, KubeShape, ListKeys
    <2> QED BY <1>8, <1>a, <2>4 DEF ContainerCreate
  <1>9. ASSUME NEW p \in PodNames, ContainerStart(n, p)
        PROVE  KubeInv'
    <2>1. PICK c \in docker[n], err \in DockerFaults :
            docker' = [docker EXCEPT ![n] =
              IF err THEN @ ELSE (@ \ {c}) \cup {[c EXCEPT !.state = "running"]}]
      BY <1>9 DEF ContainerStart, Mine
    <2>2. c \in DockerContainer
      BY DEF KubeTypeOK
    <2>3. docker' \in [NodeNames -> SUBSET DockerContainer]
      BY <2>1, <2>2, ContainerTypes DEF KubeTypeOK
    <2>4. running' \in [NodeNames -> [PodNames -> Nat]]
      BY <1>9, NextContainerType DEF ContainerStart, KubeTypeOK
    <2>5. KubeTypeOK' /\ KubeShape'
      BY <1>9, <2>3, <2>4 DEF ContainerStart, KubeTypeOK, KubeShape, ListKeys
    <2> QED BY <1>9, <1>a, <2>5 DEF ContainerStart
  <1>10. CASE ContainerExit(n)
    <2>1. PICK c \in docker[n], code \in {0, 1} :
            docker' = [docker EXCEPT ![n] =
              (@ \ {c}) \cup {[c EXCEPT !.state = "exited", !.exitCode = code]}]
      BY <1>10 DEF ContainerExit
    <2>2. c \in DockerContainer
      BY DEF KubeTypeOK
    <2>3. [c EXCEPT !.state = "exited", !.exitCode = code] \in DockerContainer
      BY <2>2, ContainerTypes
    <2>4. docker' \in [NodeNames -> SUBSET DockerContainer]
      BY <2>1, <2>3 DEF KubeTypeOK
    <2>5. KubeTypeOK' /\ KubeShape'
      BY <1>10, <2>4 DEF ContainerExit, KubeTypeOK, KubeShape, ListKeys
    <2> QED BY <1>10, <1>a, <2>5 DEF ContainerExit
  <1>11. CASE KubeletFault(n) \/ KubeletCrash(n)
    BY <1>11, DiesTypes DEF KubeletFault, MapFault, PullPanic, KubeletCrash
  <1> QED BY <1>1, <1>2, <1>3, <1>4, <1>5, <1>6, <1>7, <1>8, <1>9, <1>10, <1>11
          DEF KubeletStep

-----------------------------------------------------------------------------
(* Every step of the cluster keeps the types.                              *)
LEMMA TypeStep ==
  ASSUME TypeInv, CountsAreNumbers, [Next]_vars
  PROVE  TypeInv'
  <1>0. /\ ApiInv /\ SchedTypeOK /\ SchedShape /\ CtlTypeOK /\ CtlShape
        /\ KubeTypeOK /\ KubeShape /\ KubeInv /\ crashes \in 0..MaxCrashes
    BY DEF TypeInv, TypeOK, ApiInv, KubeInv
  <1>a. ASSUME UNCHANGED apiVars PROVE ApiTypeOK' /\ CallShape'
    BY <1>0, <1>a DEF ApiInv, ApiTypeOK, CallShape, apiVars
  <1>s. ASSUME UNCHANGED schedVars PROVE SchedTypeOK' /\ SchedShape'
    BY <1>0, <1>s DEF SchedTypeOK, SchedShape, schedVars
  <1>c. ASSUME UNCHANGED ctlVars PROVE CtlTypeOK' /\ CtlShape'
    BY <1>0, <1>c DEF CtlTypeOK, CtlShape, Template, ctlVars
  <1>k. ASSUME UNCHANGED kubeVars PROVE KubeTypeOK' /\ KubeShape'
    BY <1>0, <1>k DEF KubeTypeOK, KubeShape, ListKeys, kubeVars
  <1> USE DEF TypeInv, TypeOK
  <1>1. CASE Users
    <2>1. PICK u \in UserSlots : UserCall(u)
      BY <1>1 DEF Users
    <2>2. ApiInv'
      BY <1>0, <2>1, ApiNextTypes DEF ApiNext
    <2> QED BY <1>1, <1>0, <1>s, <1>c, <1>k, <2>2 DEF Users, ApiInv
  <1>2. ASSUME NEW r \in Requests, Server(r) PROVE TypeInv'
    <2>1. ApiInv'
      BY <1>0, <1>2, ServePodTypes, ServeNodeTypes, ServeRSTypes DEF Server, Serve
    <2> QED BY <1>2, <1>0, <1>s, <1>c, <1>k, <2>1 DEF Server, ApiInv
  <1>3. CASE SchedulerProcess
    <2>1. StoreTypeOK' /\ SchedTypeOK' /\ SchedShape'
      BY <1>0, <1>3, SchedTypes DEF SchedulerProcess, ApiInv
    <2> QED BY <1>3, <1>0, <1>a, <1>c, <1>k, <2>1 DEF SchedulerProcess
  <1>4. CASE ControllerProcess
    <2>1. StoreTypeOK' /\ CtlTypeOK' /\ CtlShape'
      BY <1>0, <1>4, CtlTypes DEF ControllerProcess, ApiInv
    <2> QED BY <1>4, <1>0, <1>a, <1>s, <1>k, <2>1 DEF ControllerProcess
  <1>5. ASSUME NEW n \in NodeNames, KubeletProcess(n) \/ NodeEvent(n) PROVE TypeInv'
    <2>1. KubeInv'
      BY <1>0, <1>5, KubeTypes DEF KubeletProcess, NodeEvent
    <2> QED BY <1>5, <1>0, <1>s, <1>c, <2>1 DEF KubeletProcess, NodeEvent, KubeInv, ApiInv
  <1>6. CASE Crash
    <2>1. crashes' \in 0..MaxCrashes
      BY <1>0, <1>6, CrashAssumption DEF Crash
    <2>2. CASE SchedAbort /\ UNCHANGED <<apiVars, ctlVars, kubeVars>>
      <3>1. StoreTypeOK' /\ SchedTypeOK' /\ SchedShape'
        BY <1>0, <2>2, SchedTypes DEF ApiInv
      <3> QED BY <1>a, <1>c, <1>k, <2>1, <2>2, <3>1
    <2>3. CASE CtlCrash /\ UNCHANGED <<apiVars, schedVars, kubeVars>>
      <3>1. StoreTypeOK' /\ CtlTypeOK' /\ CtlShape'
        BY <1>0, <2>3, CtlTypes DEF ApiInv
      <3> QED BY <1>a, <1>s, <1>k, <2>1, <2>3, <3>1
    <2> QED BY <1>6, <2>2, <2>3 DEF Crash
  <1>7. CASE UNCHANGED vars
    <2>1. StoreTypeOK'
      BY <1>7 DEF vars, storeVars, StoreTypeOK
    <2> QED BY <1>0, <1>7, <1>a, <1>s, <1>c, <1>k, <2>1 DEF vars
  <1> QED BY <1>1, <1>2, <1>3, <1>4, <1>5, <1>6, <1>7 DEF Next

(* The requests of users and kubelets are different ones.                  *)
LEMMA Slots ==
  /\ \A r \in Requests :
       r \in UserSlots \/ \E n \in NodeNames : r = WatchSlot(n) \/ r = StatusSlot(n)
  /\ \A n \in NodeNames :
       /\ WatchSlot(n) \in Requests /\ WatchSlot(n) \notin UserSlots
       /\ StatusSlot(n) \in Requests /\ StatusSlot(n) \notin UserSlots
  /\ \A n, m \in NodeNames :
       /\ WatchSlot(n) # StatusSlot(m)
       /\ WatchSlot(n) = WatchSlot(m) => n = m
       /\ StatusSlot(n) = StatusSlot(m) => n = m
  BY UserAssumption DEF Requests, WatchSlot, StatusSlot

-----------------------------------------------------------------------------
(* Registrations and containers *)

(* No request in progress removes a node.                                  *)
NodesKept ==
  \A r \in Requests : pc[r] # "idle" /\ call[r].kind = "node" => call[r].verb # "DELETE"

(* It is inductive together with the two properties.                       *)
RegInv == TypeInv /\ NodesKept /\ RegisteredOnce /\ StartedOnce

(* A node that was there is still there.                                   *)
NodesRemain == \A n \in NodeNames : Exists(nodes, n) => Exists(nodes', n)

(* A handler changes its own request only, and removes no node.            *)
LEMMA ServeRemains ==
  ASSUME NodesStay, TypeInv, NodesKept, NEW r \in Requests, Serve(r)
  PROVE  /\ NodesRemain /\ UNCHANGED call
         /\ pc[r] # "idle" /\ pc'[r] # "idle"
         /\ \A q \in Requests \ {r} : pc'[q] = pc[q] /\ resp'[q] = resp[q]
  <1>1. Moves(r) /\ (ServeNode(r) \/ UNCHANGED nodes)
    BY ServePodMoves, ServeNodeMoves, ServeRSMoves DEF Serve
  <1>2. ApiTypeOK /\ nodes \in [NodeNames -> Node \cup {Absent}]
    BY DEF TypeInv, TypeOK, StoreTypeOK
  <1>3. ASSUME UNCHANGED nodes PROVE NodesRemain
    BY <1>3 DEF NodesRemain
  <1>4. ASSUME NodeCreateGet(r) \/ NodeLoad(r) \/ NodeList(r) PROVE NodesRemain
    BY <1>4 DEF NodeCreateGet, NodeLoad, NodeList, NodesRemain, storeVars
  <1>5. ASSUME NodeCreatePut(r) PROVE NodesRemain
    <2>1. nodes' = [nodes EXCEPT ![call[r].name] = call[r].body] /\ pc[r] = "checked"
      BY <1>5 DEF NodesStay, NodeCreatePut, Handling, Written, Create
    <2>2. call[r].body # Absent
      BY <2>1 DEF TypeInv, CallShape
    <2> QED BY <1>2, <2>1, <2>2 DEF NodesRemain, Exists
  <1>6. ASSUME NodeUpdate(r) PROVE NodesRemain
    <2>1. \/ UNCHANGED nodes
          \/ nodes' = [nodes EXCEPT ![call[r].name] = call[r].body] /\ call[r].body # Absent
      BY <1>6 DEF NodesStay, NodeUpdate, Written, Update, BodyMatches
    <2> QED BY <1>2, <2>1 DEF NodesRemain, Exists
  <1>7. ASSUME NodeDelete(r) PROVE NodesRemain
    BY <1>7 DEF NodeDelete, Handling, NodesKept
  <1>8. NodesRemain
    BY <1>1, <1>3, <1>4, <1>5, <1>6, <1>7 DEF ServeNode
  <1> QED BY <1>1, <1>2, <1>8, OwnRequest DEF Moves

(* POST /nodes of a kubelet: 409 when the node is there, and 201 only      *)
(* after it was seen not to be; then it is.                                *)
LEMMA RegisterServed ==
  ASSUME NodesStay, TypeInv, NEW n \in NodeNames, Serve(WatchSlot(n)),
         call[WatchSlot(n)] = RegisterCall(n)
  PROVE  \/ pc'[WatchSlot(n)] = "checked" /\ UNCHANGED resp /\ ~Exists(nodes, n)
         \/ pc'[WatchSlot(n)] = "done" /\ resp'[WatchSlot(n)] = <<409>>
         \/ pc'[WatchSlot(n)] = "done" /\ pc[WatchSlot(n)] = "checked" /\ Exists(nodes', n)
  <1> DEFINE w == WatchSlot(n)
  <1>0. /\ pc \in [Requests -> {"idle", "start", "loaded", "checked", "done"}]
        /\ resp \in [Requests -> Answers] /\ nodes \in [NodeNames -> Node \cup {Absent}]
        /\ w \in Requests
    BY Slots DEF TypeInv, TypeOK, ApiTypeOK, StoreTypeOK
  <1>1. /\ call[w].kind = "node" /\ call[w].verb = "POST" /\ call[w].name = n
        /\ call[w].body = [status |-> "Ready"] /\ call[w].body # Absent
    <2>1. [status |-> "Ready"] \in Node
      BY DEF Node
    <2>2. [status |-> "Ready"] # Absent
      BY <2>1, ObjectsAssumption
    <2> QED BY <2>2 DEF RegisterCall
  <1>2. NodeCreateGet(w) \/ NodeCreatePut(w)
    BY <1>1 DEF Serve, ServePod, ServeNode, ServeRS, PodCreateGet, PodCreatePut, PodLoad, PodUpdate,
       PodDelete, PodList, NodeLoad, NodeUpdate, NodeDelete, NodeList, RSCreateGet, RSCreatePut, RSLoad,
       RSUpdateGet, RSUpdatePut, RSDelete, RSList, Handling
  <1> HIDE DEF w
  <1>3. CASE NodeCreateGet(w)
    BY SMTT(60), <1>0, <1>1, <1>3 DEF NodesStay, NodeCreateGet, Respond, Continue, w
  <1>4. CASE NodeCreatePut(w)
    <2>1. /\ pc[w] = "checked" /\ pc' = [pc EXCEPT ![w] = "done"]
          /\ nodes' = [nodes EXCEPT ![n] = call[w].body]
      BY <1>1, <1>4 DEF NodesStay, NodeCreatePut, Handling, Respond, Written, Create
    <2> QED BY <1>0, <1>1, <2>1 DEF Exists, w
  <1> QED BY <1>2, <1>3, <1>4

(* A step that leaves node n's kubelet and its registration alone.         *)
LEMMA OtherNode ==
  ASSUME RegisteredOnce, NEW n \in NodeNames, NodesRemain,
         kpc'[n] = kpc[n], docker'[n] = docker[n], starts'[n] = starts[n], running'[n] = running[n],
         kpc[n] = "registering" =>
           /\ pc'[WatchSlot(n)] = pc[WatchSlot(n)] /\ call'[WatchSlot(n)] = call[WatchSlot(n)]
           /\ resp'[WatchSlot(n)] = resp[WatchSlot(n)]
  PROVE  RegisteredOn(n)'
  BY SMTT(60) DEF RegisteredOnce, RegisteredOn, NodesRemain

(* Docker keeps one container per pod and index on every node but n, and   *)
(* on n as well.                                                           *)
LEMMA StartedOnceStays ==
  ASSUME StartedOnce, NEW n \in NodeNames, \A m \in NodeNames \ {n} : docker'[m] = docker[m],
         \A c, d \in docker'[n] : c.pod = d.pod /\ c.at = d.at => c = d
  PROVE  StartedOnce'
  BY DEF StartedOnce

(* The steps that leave all kubelets alone.                                *)
LEMMA OtherProcess ==
  ASSUME RegInv, UNCHANGED <<nodes, apiVars, kubeVars>>
  PROVE  NodesKept' /\ RegisteredOnce' /\ StartedOnce'
  BY SMTT(60) DEF RegInv, NodesKept, RegisteredOnce, RegisteredOn, StartedOnce, apiVars, kubeVars,
     Exists

(* Users send no DELETE /nodes.                                            *)
LEMMA UserRegistration ==
  ASSUME NodesStay, RegInv, NEW u \in UserSlots, UserCall(u), UNCHANGED kubeVars
  PROVE  NodesKept' /\ RegisteredOnce' /\ StartedOnce'
  <1>0. /\ pc \in [Requests -> {"idle", "start", "loaded", "checked", "done"}]
        /\ resp \in [Requests -> Answers] /\ call \in [Requests -> Calls \cup {Absent}]
    BY DEF RegInv, TypeInv, TypeOK, ApiTypeOK
  <1>1. PICK c \in UserCalls : Issue(u, c)
    BY DEF UserCall
  <1>2. NodesKept'
    BY <1>0, <1>1 DEF NodesStay, RegInv, NodesKept, Issue, Requests
  <1>3. \A n \in NodeNames : /\ pc'[WatchSlot(n)] = pc[WatchSlot(n)] /\ call'[WatchSlot(n)] = call[WatchSlot(n)]
                             /\ resp'[WatchSlot(n)] = resp[WatchSlot(n)]
    BY <1>0, <1>1, Slots DEF Issue
  <1>4. RegisteredOnce'
    BY <1>3, OtherNode DEF RegInv, RegisteredOnce, NodesRemain, UserCall, storeVars, kubeVars
  <1> QED BY <1>2, <1>4 DEF RegInv, StartedOnce, kubeVars

(* A handler answers the POST /nodes of a kubelet, or disturbs no kubelet. *)
LEMMA ServerRegistration ==
  ASSUME NodesStay, RegInv, NEW r \in Requests, Serve(r), UNCHANGED kubeVars
  PROVE  NodesKept' /\ RegisteredOnce' /\ StartedOnce'
  <1>1. /\ NodesRemain /\ UNCHANGED call
        /\ pc[r] # "idle" /\ pc'[r] # "idle"
        /\ \A q \in Requests \ {r} : pc'[q] = pc[q] /\ resp'[q] = resp[q]
    BY ServeRemains DEF RegInv
  <1>2. NodesKept'
    BY <1>1 DEF RegInv, NodesKept
  <1>3. ASSUME NEW n \in NodeNames PROVE RegisteredOn(n)'
    <2>1. CASE kpc[n] = "registering" /\ r = WatchSlot(n)
      <3>1. RegisteredOn(n) /\ call[WatchSlot(n)] = RegisterCall(n)
        BY <2>1 DEF RegInv, RegisteredOnce, RegisteredOn
      <3>2. \/ pc'[r] = "checked" /\ UNCHANGED resp /\ ~Exists(nodes, n)
            \/ pc'[r] = "done" /\ resp'[r] = <<409>>
            \/ pc'[r] = "done" /\ pc[r] = "checked" /\ Exists(nodes', n)
        BY SMTT(60), <2>1, <3>1, RegisterServed DEF RegInv
      <3>3. resp'[r] = <<201>> => Exists(nodes', n)
        BY SMTT(60), <1>1, <2>1, <3>1, <3>2 DEF RegisteredOn, NodesRemain
      <3>4. docker[n] # {} => pc'[r] # "checked" /\ resp'[r] # <<201>>
        BY SMTT(60), <2>1, <3>1, <3>2 DEF RegisteredOn
      <3> QED BY <1>1, <2>1, <3>1, <3>3, <3>4 DEF RegisteredOn, NodesRemain, kubeVars
    <2>2. CASE ~(kpc[n] = "registering" /\ r = WatchSlot(n))
      BY <1>1, <2>2, OtherNode, Slots DEF RegInv, kubeVars
    <2> QED BY <2>1, <2>2
  <1> QED BY <1>2, <1>3 DEF RegInv, RegisteredOnce, StartedOnce, kubeVars

(* What a kubelet does to its requests.                                    *)
LEMMA OwnRequests ==
  ASSUME RegInv, NEW n \in NodeNames,
         \/ UNCHANGED apiVars
         \/ Issue(WatchSlot(n), RegisterCall(n)) \/ Issue(WatchSlot(n), PollCall(n))
         \/ \E p \in PodNames, pod \in Pod : Issue(StatusSlot(n), StatusCall(p, pod))
         \/ Consume(WatchSlot(n)) \/ Consume(StatusSlot(n))
  PROVE  /\ NodesKept'
         /\ \A m \in NodeNames \ {n} :
              /\ pc'[WatchSlot(m)] = pc[WatchSlot(m)] /\ call'[WatchSlot(m)] = call[WatchSlot(m)]
              /\ resp'[WatchSlot(m)] = resp[WatchSlot(m)]
  <1>0. /\ pc \in [Requests -> {"idle", "start", "loaded", "checked", "done"}]
        /\ resp \in [Requests -> Answers] /\ call \in [Requests -> Calls \cup {Absent}]
        /\ NodesKept
    BY DEF RegInv, TypeInv, TypeOK, ApiTypeOK
  <1>1. CASE UNCHANGED apiVars
    BY <1>0, <1>1 DEF apiVars, NodesKept
  <1>2. ASSUME NEW r \in {WatchSlot(n), StatusSlot(n)}, NEW c, Issue(r, c),
               c.kind # "node" \/ c.verb # "DELETE"
        PROVE  /\ NodesKept'
               /\ \A m \in NodeNames \ {n} :
                    /\ pc'[WatchSlot(m)] = pc[WatchSlot(m)] /\ call'[WatchSlot(m)] = call[WatchSlot(m)]
                    /\ resp'[WatchSlot(m)] = resp[WatchSlot(m)]
    BY <1>0, <1>2, Slots DEF Issue, NodesKept
  <1>3. ASSUME NEW r \in {WatchSlot(n), StatusSlot(n)}, Consume(r)
        PROVE  /\ NodesKept'
               /\ \A m \in NodeNames \ {n} :
                    /\ pc'[WatchSlot(m)] = pc[WatchSlot(m)] /\ call'[WatchSlot(m)] = call[WatchSlot(m)]
                    /\ resp'[WatchSlot(m)] = resp[WatchSlot(m)]
    BY <1>0, <1>3, Slots DEF Consume, NodesKept
  <1>4. RegisterCall(n).verb # "DELETE" /\ PollCall(n).kind # "node"
    BY DEF RegisterCall, PollCall
  <1>5. \A p, pod : StatusCall(p, pod).kind # "node"
    BY DEF StatusCall
  <1> QED BY <1>1, <1>2, <1>3, <1>4, <1>5

(* A step of node n's kubelet leaves the other nodes alone.                *)
LEMMA OwnNode ==
  ASSUME RegInv, NEW n \in NodeNames, UNCHANGED nodes,
         \A m \in NodeNames \ {n} :
           /\ kpc'[m] = kpc[m] /\ docker'[m] = docker[m] /\ starts'[m] = starts[m] /\ running'[m] = running[m]
           /\ pc'[WatchSlot(m)] = pc[WatchSlot(m)] /\ call'[WatchSlot(m)] = call[WatchSlot(m)]
           /\ resp'[WatchSlot(m)] = resp[WatchSlot(m)],
         RegisteredOn(n)'
  PROVE  RegisteredOnce'
  <1>1. ASSUME NEW m \in NodeNames \ {n} PROVE RegisteredOn(m)'
    BY OtherNode DEF RegInv, NodesRemain
  <1>2. ASSUME NEW m \in NodeNames PROVE RegisteredOn(m)'
    BY <1>1
  <1> QED BY <1>2 DEF RegisteredOnce

(* The steps of a kubelet that create and change no container.             *)
LEMMA KubeletRegistration ==
  ASSUME RegInv, NEW n \in NodeNames,
         \/ KubeletStart(n) \/ KubeletRegistered(n) \/ KubeletPoll(n) \/ RunNewPods(n)
         \/ StatusTick(n) \/ UpdatePodStatus(n) \/ StatusAnswered(n) \/ Dies(n)
  PROVE  NodesKept' /\ RegisteredOnce' /\ StartedOnce'
  <1>0. /\ pc \in [Requests -> {"idle", "start", "loaded", "checked", "done"}]
        /\ resp \in [Requests -> Answers] /\ call \in [Requests -> Calls \cup {Absent}]
        /\ kpc \in [NodeNames -> {"down", "registering", "up"}]
        /\ starts \in [NodeNames -> 0..MaxStarts]
        /\ running \in [NodeNames -> [PodNames -> Nat]]
        /\ RegisteredOn(n)
        /\ WatchSlot(n) \in Requests /\ StatusSlot(n) \in Requests /\ WatchSlot(n) # StatusSlot(n)
    BY Slots DEF RegInv, TypeInv, TypeOK, ApiTypeOK, KubeTypeOK, RegisteredOnce
  <1>1. UNCHANGED <<nodes, docker>>
    BY DEF KubeletStart, KubeletRegistered, KubeletPoll, RunNewPods, StatusTick, UpdatePodStatus,
       StatusAnswered, Dies, storeVars, kubeVars
  <1>2. \A m \in NodeNames \ {n} : kpc'[m] = kpc[m] /\ starts'[m] = starts[m] /\ running'[m] = running[m]
    BY <1>0 DEF KubeletStart, KubeletRegistered, KubeletPoll, RunNewPods, StatusTick, UpdatePodStatus,
       StatusAnswered, Dies, kubeVars
  <1>3. \/ UNCHANGED apiVars
        \/ Issue(WatchSlot(n), RegisterCall(n)) \/ Issue(WatchSlot(n), PollCall(n))
        \/ \E p \in PodNames, pod \in Pod : Issue(StatusSlot(n), StatusCall(p, pod))
        \/ Consume(WatchSlot(n)) \/ Consume(StatusSlot(n))
    <2>1. CASE UpdatePodStatus(n)
      <3>1. sweep[n] \subseteq PodNames /\ \A p \in sweep[n] : known[n][p] \in Pod
        BY SMTT(60) DEF RegInv, TypeInv, TypeOK, KubeTypeOK, KubeShape, ListKeys
      <3>2. \A p \in sweep[n] : \A states : [known[n][p] EXCEPT !.status = determinePodStatus(states)] \in Pod
        BY <3>1, StatusType
      <3> QED BY <2>1, <3>1, <3>2 DEF UpdatePodStatus
    <2>2. CASE ~UpdatePodStatus(n)
      BY <2>2 DEF KubeletStart, KubeletRegistered, KubeletPoll, RunNewPods, StatusTick, StatusAnswered, Dies
    <2> QED BY <2>1, <2>2
  <1>4. RegisteredOn(n)'
    <2>1. CASE KubeletStart(n)
      <3>1. kpc[n] = "down" /\ kpc'[n] = "registering" /\ running' = running
        BY <1>0, <2>1 DEF KubeletStart
      <3>2. Issue(WatchSlot(n), RegisterCall(n))
        BY <2>1 DEF KubeletStart
      <3>3. pc'[WatchSlot(n)] = "start" /\ call'[WatchSlot(n)] = RegisterCall(n) /\ resp'[WatchSlot(n)] = <<>>
        BY <1>0, <3>2 DEF Issue
      <3>4. docker[n] # {} => Exists(nodes, n)
        BY <1>0 DEF RegisteredOn
      <3>5. \A p \in PodNames : running[n][p] = 0
        BY <1>0, <3>1 DEF RegisteredOn
      <3>6. Exists(nodes, n)' <=> Exists(nodes, n)
        BY <1>1 DEF Exists
      <3>7. <<>> # <<201>>
        OBVIOUS
      <3> QED BY <1>1, <3>1, <3>3, <3>4, <3>5, <3>6, <3>7 DEF RegisteredOn
    <2>2. CASE KubeletRegistered(n)
      <3>1. starts' = starts /\ running' = running /\ kpc[n] = "registering"
        BY <2>2 DEF KubeletRegistered
      <3>2. \/ resp[WatchSlot(n)] = <<201>> /\ kpc'[n] = "up"
            \/ resp[WatchSlot(n)] # <<201>> /\ kpc'[n] = "down"
        BY <1>0, <2>2 DEF KubeletRegistered
      <3> QED BY <1>0, <1>1, <3>1, <3>2 DEF RegisteredOn
    <2>3. CASE KubeletPoll(n) \/ RunNewPods(n)
      <3>1. kpc[n] = "up" /\ UNCHANGED <<kpc, starts>>
        BY <2>3 DEF KubeletPoll, RunNewPods, kubeVars
      <3>2. Exists(nodes, n) /\ \A c \in docker[n] : c.start = starts[n]
        BY <1>0, <3>1 DEF RegisteredOn
      <3> QED BY <1>1, <3>1, <3>2 DEF RegisteredOn
    <2>4. CASE StatusTick(n) \/ UpdatePodStatus(n) \/ StatusAnswered(n)
      <3>1. UNCHANGED <<kpc, starts, running>>
        BY <2>4 DEF StatusTick, UpdatePodStatus, StatusAnswered, kubeVars
      <3>2. /\ pc'[WatchSlot(n)] = pc[WatchSlot(n)] /\ call'[WatchSlot(n)] = call[WatchSlot(n)]
            /\ resp'[WatchSlot(n)] = resp[WatchSlot(n)]
        BY <1>0, <2>4 DEF StatusTick, UpdatePodStatus, StatusAnswered, Issue, Consume, apiVars
      <3> QED BY <1>1, <3>1, <3>2, OtherNode DEF RegInv, NodesRemain
    <2>5. CASE Dies(n)
      <3>1. kpc'[n] = "down" /\ \A p \in PodNames : running'[n][p] = 0
        BY <1>0, <2>5 DEF Dies
      <3>2. docker[n] # {} => Exists(nodes, n)
        BY <1>0 DEF RegisteredOn
      <3> QED BY <1>1, <3>1, <3>2 DEF RegisteredOn
    <2> QED BY <2>1, <2>2, <2>3, <2>4, <2>5
  <1>5. NodesKept' /\ RegisteredOnce'
    BY <1>1, <1>2, <1>3, <1>4, OwnRequests, OwnNode
  <1> QED BY <1>1, <1>5 DEF RegInv, StartedOnce

-----------------------------------------------------------------------------
(* StartContainer: a kubelet that is at a container has created none for   *)
(* it, and no kubelet before it has created any.                           *)
LEMMA ContainerAdded ==
  ASSUME RegInv, NEW n \in NodeNames, NEW p \in PodNames, running[n][p] > 0, Mine(n, p) = {},
         NEW new, new.pod = p, new.at = running[n][p], new.start = starts[n],
         docker' = [docker EXCEPT ![n] = @ \cup {new}]
  PROVE  /\ kpc[n] = "up" /\ StartedOnce'
         /\ \A c \in docker'[n] : c.start = starts[n]
  <1>0. /\ docker \in [NodeNames -> SUBSET DockerContainer]
        /\ kpc[n] = "up" /\ \A c \in docker[n] : c.start = starts[n]
    <2>1. RegisteredOn(n)
      BY DEF RegInv, RegisteredOnce
    <2>2. docker \in [NodeNames -> SUBSET DockerContainer]
      BY DEF RegInv, TypeInv, TypeOK, KubeTypeOK
    <2>3. running[n][p] # 0
      OBVIOUS
    <2> QED BY <2>1, <2>2, <2>3 DEF RegisteredOn
  <1>1. docker'[n] = docker[n] \cup {new} /\ \A m \in NodeNames \ {n} : docker'[m] = docker[m]
    BY <1>0
  <1>2. \A c \in docker[n] : ~(c.pod = new.pod /\ c.at = new.at)
    BY <1>0 DEF Mine
  <1>3. \A c, d \in docker'[n] : c.pod = d.pod /\ c.at = d.at => c = d
    BY <1>1, <1>2 DEF RegInv, StartedOnce
  <1> QED BY <1>0, <1>1, <1>3, StartedOnceStays DEF RegInv

(* A container that starts or ends stays the container it is.              *)
LEMMA ContainerChanged ==
  ASSUME RegInv, NEW n \in NodeNames, NEW c \in docker[n], NEW d,
         d.pod = c.pod, d.at = c.at, d.start = c.start,
         docker' = [docker EXCEPT ![n] = (@ \ {c}) \cup {d}]
  PROVE  /\ StartedOnce' /\ docker[n] # {}
         /\ kpc[n] = "up" => \A e \in docker'[n] : e.start = starts[n]
  <1>0. /\ docker \in [NodeNames -> SUBSET DockerContainer]
        /\ kpc[n] = "up" => \A e \in docker[n] : e.start = starts[n]
    BY DEF RegInv, TypeInv, TypeOK, KubeTypeOK, RegisteredOnce, RegisteredOn
  <1>1. docker'[n] = (docker[n] \ {c}) \cup {d} /\ \A m \in NodeNames \ {n} : docker'[m] = docker[m]
    BY <1>0
  <1>2. \A e, f \in docker'[n] : e.pod = f.pod /\ e.at = f.at => e = f
    BY SMTT(60), <1>1 DEF RegInv, StartedOnce
  <1> QED BY <1>0, <1>1, <1>2, StartedOnceStays DEF RegInv

(* The steps of a node that create a container or change its state.        *)
LEMMA ContainerRegistration ==
  ASSUME RegInv, NEW n \in NodeNames,
         ContainerExit(n) \/ \E p \in PodNames : ContainerCreate(n, p) \/ ContainerStart(n, p)
  PROVE  NodesKept' /\ RegisteredOnce' /\ StartedOnce'
  <1>0. /\ docker \in [NodeNames -> SUBSET DockerContainer]
        /\ running \in [NodeNames -> [PodNames -> Nat]]
        /\ RegisteredOn(n) /\ StartedOnce
    BY DEF RegInv, TypeInv, TypeOK, KubeTypeOK, RegisteredOnce
  <1>1. UNCHANGED <<nodes, apiVars, kpc, starts>>
    BY DEF ContainerExit, ContainerCreate, ContainerStart, storeVars
  <1>r. kpc[n] # "up" => UNCHANGED running
    <2>1. ASSUME NEW p \in PodNames, ContainerCreate(n, p) \/ ContainerStart(n, p) PROVE kpc[n] = "up"
      <3>1. running[n][p] > 0 /\ running[n][p] # 0
        BY SMTT(60), <1>0, <2>1 DEF ContainerCreate, ContainerStart
      <3> QED BY <1>0, <3>1 DEF RegisteredOn
    <2> QED BY <2>1 DEF ContainerExit
  <1>m. \A m \in NodeNames \ {n} : docker'[m] = docker[m] /\ running'[m] = running[m]
    <2>1. CASE ContainerExit(n)
      BY <1>0, <2>1 DEF ContainerExit
    <2>2. ASSUME NEW p \in PodNames, ContainerCreate(n, p)
          PROVE  \A m \in NodeNames \ {n} : docker'[m] = docker[m] /\ running'[m] = running[m]
      BY <1>0, <2>2 DEF ContainerCreate, NextContainer
    <2>3. ASSUME NEW p \in PodNames, ContainerStart(n, p)
          PROVE  \A m \in NodeNames \ {n} : docker'[m] = docker[m] /\ running'[m] = running[m]
      BY <1>0, <2>3 DEF ContainerStart, NextContainer
    <2> QED BY <2>1, <2>2, <2>3
  <1> DEFINE OwnContainers ==
        /\ StartedOnce'
        /\ docker'[n] # {} => docker[n] # {} \/ kpc[n] = "up"
        /\ kpc[n] = "up" => \A c \in docker'[n] : c.start = starts[n]
  <1>2. OwnContainers
    <2>0. CASE UNCHANGED docker
      BY <1>0, <2>0 DEF StartedOnce, RegisteredOn
    <2>1. ASSUME NEW p \in PodNames, ContainerCreate(n, p), docker' # docker PROVE OwnContainers
      <3> DEFINE new == [pod |-> p, at |-> running[n][p], start |-> starts[n],
                         state |-> "created", exitCode |-> 0]
      <3>1. /\ running[n][p] > 0 /\ Mine(n, p) = {}
            /\ docker' = [docker EXCEPT ![n] = @ \cup {new}]
        BY <2>1 DEF ContainerCreate
      <3>2. new.pod = p /\ new.at = running[n][p] /\ new.start = starts[n]
        OBVIOUS
      <3> HIDE DEF new
      <3> QED BY <3>1, <3>2, ContainerAdded
    <2>2. ASSUME NEW p \in PodNames, ContainerStart(n, p), docker' # docker PROVE OwnContainers
      <3>1. PICK c \in docker[n] : docker' = [docker EXCEPT ![n] = (@ \ {c}) \cup {[c EXCEPT !.state = "running"]}]
        BY <1>0, <2>2 DEF ContainerStart, Mine
      <3> DEFINE d == [c EXCEPT !.state = "running"]
      <3>2. d.pod = c.pod /\ d.at = c.at /\ d.start = c.start
        BY SMTT(60), <1>0 DEF DockerContainer
      <3> HIDE DEF d
      <3>3. docker' = [docker EXCEPT ![n] = (@ \ {c}) \cup {d}]
        BY <3>1 DEF d
      <3> QED BY <3>2, <3>3, ContainerChanged
    <2>3. CASE ContainerExit(n)
      <3>1. PICK c \in docker[n], code \in {0, 1} :
              docker' = [docker EXCEPT ![n] = (@ \ {c}) \cup {[c EXCEPT !.state = "exited", !.exitCode = code]}]
        BY <2>3 DEF ContainerExit
      <3> DEFINE d == [c EXCEPT !.state = "exited", !.exitCode = code]
      <3>2. d.pod = c.pod /\ d.at = c.at /\ d.start = c.start
        BY SMTT(60), <1>0 DEF DockerContainer
      <3> HIDE DEF d
      <3>3. docker' = [docker EXCEPT ![n] = (@ \ {c}) \cup {d}]
        BY <3>1 DEF d
      <3> QED BY <3>2, <3>3, ContainerChanged
    <2> QED BY <2>0, <2>1, <2>2, <2>3
  <1>3. RegisteredOn(n)'
    BY <1>0, <1>1, <1>r, <1>2 DEF RegisteredOn, apiVars
  <1>4. NodesKept' /\ RegisteredOnce'
    BY <1>1, <1>m, <1>3, OwnRequests, OwnNode DEF apiVars
  <1> QED BY <1>2, <1>4

-----------------------------------------------------------------------------
(* Every step keeps the registrations and the containers.                  *)
LEMMA RegistrationStep ==
  ASSUME NodesStay, RegInv, [Next]_vars
  PROVE  NodesKept' /\ RegisteredOnce' /\ StartedOnce'
  <1>1. CASE Users
    BY <1>1, UserRegistration DEF Users
  <1>2. ASSUME NEW r \in Requests, Server(r) PROVE NodesKept' /\ RegisteredOnce' /\ StartedOnce'
    BY <1>2, ServerRegistration DEF Server
  <1>3. CASE SchedulerProcess
    BY <1>3, OtherProcess DEF SchedulerProcess, SchedStep, SchedListPods, SchedListNodes, SchedAssign, storeVars
  <1>4. CASE ControllerProcess
    BY <1>4, OtherProcess DEF ControllerProcess, CtlStep, CtlList, ReconcileGet, ReconcileList,
       ReconcileCreateGet, ReconcileCreatePut, ReconcileUpdateGet, ReconcileUpdatePut, CtlRestart, storeVars
  <1>5. ASSUME NEW n \in NodeNames, KubeletProcess(n) \/ NodeEvent(n)
        PROVE  NodesKept' /\ RegisteredOnce' /\ StartedOnce'
    BY <1>5, KubeletRegistration, ContainerRegistration
       DEF KubeletProcess, KubeletStep, NodeEvent, KubeletFault, MapFault, PullPanic, KubeletCrash
  <1>6. CASE Crash
    BY <1>6, OtherProcess DEF Crash, SchedAbort, CtlCrash, storeVars
  <1>7. CASE UNCHANGED vars
    BY <1>7, OtherProcess DEF vars, storeVars
  <1> QED BY <1>1, <1>2, <1>3, <1>4, <1>5, <1>6, <1>7 DEF Next

(* Nothing is registered in the beginning.                                 *)
LEMMA RegistrationInit == Init => NodesKept /\ RegisteredOnce /\ StartedOnce
  BY SMTT(60), Slots DEF Init, ApiInit, KubeInit, NodesKept, RegisteredOnce, RegisteredOn, StartedOnce
=============================================================================
