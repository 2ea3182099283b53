---------------------------- MODULE ReplicaProofs -----------------------------
(***************************************************************************)
(* The controller never has too many pods: every step of the cluster keeps *)
(* PlansWithin, for any number of nodes, users, pods and ReplicaSets, and  *)
(* where no container fails, no pod does.  What is used of the size of     *)
(* sets and of the largest of the users' wishes is stated as Counting and  *)
(* shown in ClusterProofs.                                                 *)
(***************************************************************************)
EXTENDS BindingProofs

USE ZenonT(30), SMTT(120)

(* Sets of pods are finite: their sizes are numbers and add up.            *)
CountsAdd ==
  /\ Cardinality({}) = 0
  /\ \A S \in SUBSET PodNames :
       /\ Cardinality(S) \in Nat
       /\ \A T \in SUBSET S : Cardinality(T) <= Cardinality(S)
       /\ \A p \in PodNames : Cardinality(S \cup {p}) <= Cardinality(S) + 1

(* PodsAsked is what the most demanding of the users' calls asks for.      *)
AskedIsLargest ==
  \A rs \in RSNames :
    /\ PodsAsked(rs) \in Nat
    /\ \A c \in UserCalls :
         c.kind = "replicaset" /\ c.body # Absent /\ c.name = rs => Asks(c.body) <= PodsAsked(rs)

Counting == PodsBelong /\ CountsAdd /\ AskedIsLargest

(* What a ReplicaSet asks for is a number of pods.                         *)
LEMMA AsksType ==
  ASSUME NEW x \in ReplicaSet
  PROVE  /\ x.replicas \in Int
         /\ ContainersOf(x.template) \in Seq(Containers)
         /\ Len(ContainersOf(x.template)) \in Nat
         /\ Asks(x) \in Int
  <1>1. x.replicas \in Int
    BY ObjectsAssumption DEF ReplicaSet
  <1>2. ContainersOf(x.template) \in Seq(Containers)
    BY SMTT(60), ObjectsAssumption DEF ReplicaSet, ContainersOf
  <1>3. Len(ContainersOf(x.template)) \in Nat
    BY <1>2
  <1> QED BY <1>1, <1>2, <1>3 DEF Asks

(* PodsAsked bounds what users ask for.                                    *)
LEMMA AskedBounds ==
  ASSUME Counting, NEW rs \in RSNames
  PROVE  /\ PodsAsked(rs) \in Nat
         /\ \A c \in UserCalls :
              c.kind = "replicaset" /\ c.body # Absent /\ c.name = rs => Asks(c.body) <= PodsAsked(rs)
  BY DEF Counting, AskedIsLargest

(* What the controller counts is a number.                                 *)
LEMMA ActivesCounted ==
  ASSUME Counting, TypeInv
  PROVE  CountsAreNumbers
  <1> SUFFICES ASSUME NEW rs \in RSNames PROVE Cardinality(ActivePods(rs)) \in Nat
    BY DEF CountsAreNumbers
  <1>1. ActivePods(rs) \in SUBSET PodNames
    BY DEF ActivePods, ListKeys, TypeInv, TypeOK, StoreTypeOK
  <1> QED BY <1>1 DEF Counting, CountsAdd

(* Fewer pods count for less.                                              *)
LEMMA FewerCounted ==
  ASSUME Counting, NEW S \in SUBSET PodNames, NEW T \in SUBSET S
  PROVE  Cardinality(T) \in 0..Cardinality(S)
  <1>1. Cardinality(S) \in Nat /\ Cardinality(T) <= Cardinality(S)
    BY DEF Counting, CountsAdd
  <1>2. Cardinality(T) \in Nat
    BY DEF Counting, CountsAdd
  <1> QED BY <1>1, <1>2

-----------------------------------------------------------------------------
(* The key order of etcd is antisymmetric on names.                        *)
LEMMA KeysOrdered ==
  ASSUME NEW a \in Seq(Nat), NEW b \in Seq(Nat), KeyLeq(a, b), KeyLeq(b, a)
  PROVE  a = b
  <1>1. ASSUME NEW x \in Seq(Nat), NEW y \in Seq(Nat), NEW i \in 1..Min({Len(x), Len(y)})
        PROVE  i \in 1..Len(x) /\ i \in 1..Len(y)
    <2>1. Len(x) \in Nat /\ Len(y) \in Nat
      OBVIOUS
    <2>2. \E m \in {Len(x), Len(y)} : \A n \in {Len(x), Len(y)} : m =< n
      BY SMTT(60), <2>1
    <2>3. Min({Len(x), Len(y)}) \in {Len(x), Len(y)} /\ \A n \in {Len(x), Len(y)} : Min({Len(x), Len(y)}) =< n
      BY <2>2 DEF Min
    <2> QED BY <2>1, <2>3
  <1> DEFINE Before(x, y, i) == i \in 1..Len(x) /\ i \in 1..Len(y) /\ x[i] < y[i] /\ \A j \in 1..(i - 1) : x[j] = y[j]
  <1>2. HasPrefix(b, a) \/ \E i \in Nat : Before(a, b, i)
    BY <1>1 DEF KeyLeq
  <1>3. HasPrefix(a, b) \/ \E i \in Nat : Before(b, a, i)
    BY <1>1 DEF KeyLeq
  <1>4. ASSUME NEW x \in Seq(Nat), NEW y \in Seq(Nat), HasPrefix(y, x), NEW i \in 1..Len(x)
        PROVE  x[i] = y[i]
    BY <1>4 DEF HasPrefix
  <1>5. CASE HasPrefix(b, a) /\ HasPrefix(a, b)
    BY <1>5 DEF HasPrefix
  <1>6. ASSUME NEW i \in Nat, Before(a, b, i), HasPrefix(a, b) PROVE FALSE
    BY <1>4, <1>6
  <1>7. ASSUME NEW i \in Nat, Before(b, a, i), HasPrefix(b, a) PROVE FALSE
    BY <1>4, <1>7
  <1>8. ASSUME NEW i \in Nat, Before(a, b, i), NEW j \in Nat, Before(b, a, j) PROVE FALSE
    <2>1. a[i] \in Nat /\ b[i] \in Nat /\ a[j] \in Nat /\ b[j] \in Nat
      BY <1>8
    <2> QED BY <1>8, <2>1
  <1> QED BY <1>2, <1>3, <1>5, <1>6, <1>7, <1>8

(* One ReplicaSet is in work at a time.                                    *)
LEMMA OneInWork ==
  ASSUME Counting, CtlTypeOK, NEW rs, InWork(rs), NEW other, InWork(other)
  PROVE  rs = other
  <1>1. rs \in Seq(Nat) /\ other \in Seq(Nat)
    BY DEF InWork, CtlTypeOK, Counting, PodsBelong
  <1>2. KeyLeq(rs, other) /\ KeyLeq(other, rs)
    BY DEF InWork
  <1> QED BY <1>1, <1>2, KeysOrdered

-----------------------------------------------------------------------------
(* No pod that could belong to a ReplicaSet appears.                       *)
PodsKept == \A p \in PodNames \ UserPodNames : Exists(pods, p) \/ ~Exists(pods', p)

(* The handlers create the users' own pods only.                           *)
LEMMA ServeKeepsPods ==
  ASSUME UsersOnlyCreate, Inv, NEW r \in Requests, Serve(r)
  PROVE  PodsKept
  <1>1. ASSUME UNCHANGED pods PROVE PodsKept
    BY <1>1 DEF PodsKept, Exists
  <1>2. ASSUME NEW p, NEW pod, pods' = [pods EXCEPT ![p] = pod], p \in UserPodNames \/ Exists(pods, p)
        PROVE  PodsKept
    BY <1>2 DEF PodsKept, Exists
  <1>3. CASE PodCreatePut(r)
    BY <1>3, <1>2, CreateWrite DEF PodWrite
  <1>4. CASE PodUpdate(r)
    BY <1>4, <1>1, <1>2, ReportWrite DEF PodWrite
  <1>5. CASE PodDelete(r)
    BY <1>5, PodCallers DEF PodDelete, Handling
  <1>6. CASE PodCreateGet(r) \/ PodLoad(r) \/ PodList(r)
    BY <1>6, <1>1 DEF PodCreateGet, PodLoad, PodList, storeVars
  <1>7. CASE ServeNode(r) \/ ServeRS(r)
    BY <1>7, <1>1, ServeNodeMoves, ServeRSMoves
  <1> QED BY <1>3, <1>4, <1>5, <1>6, <1>7 DEF Serve, ServePod

(* The scheduler binds pods that are there.                                *)
LEMMA SchedKeepsPods ==
  ASSUME Inv, SchedStep \/ SchedAbort
  PROVE  PodsKept /\ UNCHANGED replicasets
  <1>1. ASSUME UNCHANGED pods PROVE PodsKept
    BY <1>1 DEF PodsKept, Exists
  <1>2. CASE SchedAssign
    <2>1. UNCHANGED replicasets
      BY <1>2 DEF SchedAssign
    <2>2. ASSUME NEW p \in queue, NEW pod \in Pod, Exists(pods, p), PodWrite(p, pod) PROVE PodsKept
      BY <2>2 DEF PodsKept, PodWrite, Exists
    <2> QED BY <1>1, <1>2, <2>1, <2>2, BindWrite
  <1>3. CASE SchedListPods \/ SchedListNodes \/ SchedAbort
    BY <1>1, <1>3 DEF SchedListPods, SchedListNodes, SchedAbort, storeVars
  <1> QED BY <1>2, <1>3 DEF SchedStep

(* The kubelets write nothing but by the API server.                       *)
LEMMA KubeletsKeepStore ==
  ASSUME NEW n \in NodeNames, KubeletProcess(n) \/ NodeEvent(n)
  PROVE  UNCHANGED <<storeVars, ctlVars>>
  <1>1. CASE KubeletProcess(n)
    <2>1. UNCHANGED ctlVars /\ KubeletStep(n)
      BY <1>1 DEF KubeletProcess
    <2>2. CASE KubeletStart(n) \/ KubeletRegistered(n) \/ KubeletPoll(n) \/ RunNewPods(n)
      BY <2>1, <2>2 DEF KubeletStart, KubeletRegistered, KubeletPoll, RunNewPods
    <2>3. CASE StatusTick(n) \/ UpdatePodStatus(n) \/ StatusAnswered(n)
      BY <2>1, <2>3 DEF StatusTick, UpdatePodStatus, StatusAnswered
    <2>4. ASSUME NEW p \in PodNames, ContainerCreate(n, p) \/ ContainerStart(n, p)
          PROVE  UNCHANGED storeVars
      BY <2>4 DEF ContainerCreate, ContainerStart
    <2> QED BY <2>1, <2>2, <2>3, <2>4 DEF KubeletStep
  <1>2. CASE NodeEvent(n)
    BY <1>2 DEF NodeEvent, KubeletFault, MapFault, PullPanic, KubeletCrash, ContainerExit, Dies
  <1> QED BY <1>1, <1>2

(* Then a ReplicaSet has no more active pods than before.                  *)
LEMMA FewerActive ==
  ASSUME Counting, TypeInv, TypeInv', PodsKept, FailedKept, NEW rs \in RSNames
  PROVE  Cardinality(ActivePods(rs))' \in 0..Cardinality(ActivePods(rs))
  <1>0. pods \in [PodNames -> Pod \cup {Absent}] /\ pods' \in [PodNames -> Pod \cup {Absent}]
    BY DEF TypeInv, TypeOK, StoreTypeOK
  <1>1. ASSUME NEW p \in ActivePods(rs)' PROVE p \in ActivePods(rs)
    <2>1. p \in PodNames /\ pods'[p] # Absent /\ IsOwnedBy(p, rs) /\ pods'[p].status # "Failed"
      BY <1>0, <1>1 DEF ActivePods, ListKeys, IsActive
    <2>2. p \notin UserPodNames
      BY <2>1 DEF Counting, PodsBelong
    <2>3. pods[p] # Absent
      BY <2>1, <2>2 DEF PodsKept, Exists
    <2>4. pods[p].status # "Failed"
      BY <2>1, <2>3 DEF FailedKept
    <2> QED BY <1>0, <2>1, <2>3, <2>4 DEF ActivePods, ListKeys, IsActive
  <1>2. ActivePods(rs) \subseteq PodNames
    BY <1>0 DEF ActivePods, ListKeys
  <1>3. ActivePods(rs)' \in SUBSET ActivePods(rs)
    BY <1>1
  <1> QED BY <1>2, <1>3, FewerCounted

(* A controller that creates pods has one at least to create.              *)
LEMMA PlanLength ==
  ASSUME NEW m \in Nat, m > 0, NEW n \in Nat, NEW a \in 1..n
  PROVE  /\ m * n - (a - 1) \in Nat
         /\ a = n => m * n - (a - 1) = (m - 1) * n + 1
  <1>1. m * n = (m - 1) * n + n
    OBVIOUS
  <1>2. (m - 1) * n \in Nat
    <2>1. m - 1 \in Nat
      OBVIOUS
    <2> QED BY <2>1
  <1> QED BY <1>1, <1>2

(* What the controller still creates is a number of pods.                  *)
LEMMA ToCreateType ==
  ASSUME CtlTypeOK, CtlShape, NEW rs
  PROVE  ToCreate(rs) \in Nat
  <1>1. CASE cpc \in {"create", "put"} /\ InWork(rs)
    <2>1. cur \in ReplicaSet /\ missing \in Nat /\ missing > 0 /\ at \in 1..Len(Template)
      BY <1>1 DEF CtlTypeOK, CtlShape
    <2>2. Len(Template) \in Nat
      BY <2>1, TemplateLen
    <2>3. missing * Len(Template) - (at - 1) \in Nat
      BY <2>1, <2>2, PlanLength
    <2> QED BY <1>1, <2>3 DEF ToCreate
  <1> QED BY <1>1 DEF ToCreate

(* The plan stays within what was asked for when no pod is added and none  *)
(* planned.                                                                *)
LEMMA PlanStays ==
  ASSUME Counting, TypeInv, PlansWithin, NEW rs \in RSNames,
         Cardinality(ActivePods(rs))' \in 0..Cardinality(ActivePods(rs)),
         ToCreate(rs)' \in 0..ToCreate(rs),
         Exists(replicasets', rs) => Asks(replicasets'[rs]) <= PodsAsked(rs),
         cpc' \notin {"idle", "get", "down"} /\ InWork(rs)' => Asks(cur') <= PodsAsked(rs),
         cpc' = "put" /\ IsOwnedBy(newPod', rs) => InWork(rs)'
  PROVE  PlanWithin(rs)'
  <1>1. Cardinality(ActivePods(rs)) \in Nat /\ ToCreate(rs) \in Nat /\ PodsAsked(rs) \in Nat
    BY ActivesCounted, ToCreateType, AskedBounds DEF CountsAreNumbers, TypeInv, TypeOK
  <1>2. Cardinality(ActivePods(rs)) + ToCreate(rs) <= PodsAsked(rs)
    BY DEF PlansWithin, PlanWithin
  <1>3. Cardinality(ActivePods(rs))' + ToCreate(rs)' <= PodsAsked(rs)
    BY <1>1, <1>2
  <1> QED BY <1>3 DEF PlanWithin

(* So it does when another process than the controller takes a step.       *)
LEMMA OtherPlans ==
  ASSUME Counting, TypeInv, TypeInv', PlansWithin, FailedKept, PodsKept, UNCHANGED ctlVars,
         \A rs \in RSNames : Exists(replicasets', rs) => Asks(replicasets'[rs]) <= PodsAsked(rs)
  PROVE  PlansWithin'
  <1> SUFFICES ASSUME NEW rs \in RSNames PROVE PlanWithin(rs)'
    BY DEF PlansWithin
  <1>1. Cardinality(ActivePods(rs))' \in 0..Cardinality(ActivePods(rs))
    BY FewerActive
  <1>2. ToCreate(rs)' = ToCreate(rs) /\ (InWork(rs)' <=> InWork(rs))
    BY DEF ToCreate, InWork, Template, ctlVars
  <1>3. ToCreate(rs) \in Nat
    BY ToCreateType DEF TypeInv, TypeOK
  <1>4. /\ cpc' \notin {"idle", "get", "down"} /\ InWork(rs)' => Asks(cur') <= PodsAsked(rs)
        /\ cpc' = "put" /\ IsOwnedBy(newPod', rs) => InWork(rs)'
    BY <1>2 DEF PlansWithin, PlanWithin, ctlVars
  <1> QED BY <1>1, <1>2, <1>3, <1>4, PlanStays

(* The ReplicaSets that handlers store are those users ask for.            *)
LEMMA ServePlans ==
  ASSUME Counting, Inv, PlansWithin, NEW r \in Requests, Serve(r), NEW rs \in RSNames,
         Exists(replicasets', rs)
  PROVE  Asks(replicasets'[rs]) <= PodsAsked(rs)
  <1>0. Exists(replicasets, rs) => Asks(replicasets[rs]) <= PodsAsked(rs)
    BY DEF PlansWithin, PlanWithin
  <1>1. ASSUME UNCHANGED replicasets PROVE Asks(replicasets'[rs]) <= PodsAsked(rs)
    BY <1>0, <1>1 DEF Exists
  <1>2. CASE RSCreatePut(r) \/ RSUpdatePut(r)
    <2>1. /\ pc[r] = "checked" /\ call[r].kind = "replicaset" /\ call[r].verb \in {"POST", "PUT"}
          /\ replicasets' = [replicasets EXCEPT ![call[r].name] = call[r].body]
      BY <1>2 DEF RSCreatePut, RSUpdatePut, Handling, Written, Create, Update, Counting, PodsBelong, UsersOnlyCreate
    <2>2. r \in UserSlots
      <3>1. ASSUME NEW n \in NodeNames, r = WatchSlot(n) PROVE FALSE
        <4>1. call[r] = RegisterCall(n) \/ call[r] = PollCall(n)
          BY <2>1, <3>1 DEF Inv, BindingInv, CallsExpected
        <4>2. RegisterCall(n).kind = "node" /\ PollCall(n).kind = "pod"
          BY DEF RegisterCall, PollCall
        <4> QED BY <2>1, <4>1, <4>2
      <3>2. ASSUME NEW n \in NodeNames, r = StatusSlot(n) PROVE FALSE
        <4>1. PICK p \in PodNames, pod \in Pod : call[r] = StatusCall(p, pod)
          BY <2>1, <3>2 DEF Inv, BindingInv, CallsExpected
        <4> QED BY <2>1, <4>1 DEF StatusCall
      <3> QED BY <3>1, <3>2, Slots
    <2>3. call[r] \in UserCalls /\ call[r].body # Absent
      BY <2>1, <2>2 DEF Inv, BindingInv, CallsExpected, TypeInv, CallShape
    <2>4. CASE call[r].name = rs
      <3>1. replicasets'[rs] = call[r].body
        BY <2>1, <2>4 DEF Inv, TypeInv, TypeOK, StoreTypeOK
      <3> QED BY <2>1, <2>3, <2>4, <3>1, AskedBounds
    <2>5. CASE call[r].name # rs
      <3>1. replicasets'[rs] = replicasets[rs]
        BY <2>1, <2>5 DEF Inv, TypeInv, TypeOK, StoreTypeOK
      <3> QED BY <1>0, <3>1 DEF Exists
    <2> QED BY <2>4, <2>5
  <1>3. CASE RSDelete(r)
    <2>1. replicasets' = [replicasets EXCEPT ![call[r].name] = Absent]
      BY <1>3 DEF RSDelete, Written, Delete, Counting, PodsBelong, UsersOnlyCreate
    <2>2. replicasets'[rs] = replicasets[rs]
      BY <2>1 DEF Inv, TypeInv, TypeOK, StoreTypeOK, Exists
    <2> QED BY <1>0, <2>2 DEF Exists
  <1>4. CASE RSCreateGet(r) \/ RSLoad(r) \/ RSUpdateGet(r) \/ RSList(r)
    BY <1>1, <1>4 DEF RSCreateGet, RSLoad, RSUpdateGet, RSList, storeVars
  <1>5. CASE ServeNode(r) \/ ServePod(r)
    <2>1. UNCHANGED replicasets
      BY <1>5, ServeNodeMoves DEF ServePod, PodCreateGet, PodCreatePut, PodLoad, PodUpdate, PodDelete,
         PodList, storeVars
    <2> QED BY <1>1, <2>1
  <1> QED BY <1>2, <1>3, <1>4, <1>5 DEF Serve, ServeRS

(* A controller that starts over, or is done with a ReplicaSet, plans      *)
(* nothing.                                                                *)
LEMMA NothingPlanned ==
  ASSUME Counting, TypeInv, TypeInv', PlansWithin, UNCHANGED pods,
         cpc' \in {"idle", "get", "down"},
         \A rs \in RSNames : Exists(replicasets', rs) => Asks(replicasets'[rs]) <= PodsAsked(rs)
  PROVE  PlansWithin'
  <1> SUFFICES ASSUME NEW rs \in RSNames PROVE PlanWithin(rs)'
    BY DEF PlansWithin
  <1>1. Cardinality(ActivePods(rs)) \in Nat /\ ActivePods(rs)' = ActivePods(rs)
    BY ActivesCounted DEF CountsAreNumbers, ActivePods, ListKeys
  <1>2. Cardinality(ActivePods(rs))' \in 0..Cardinality(ActivePods(rs))
    BY <1>1
  <1>3. ToCreate(rs)' = 0 /\ ToCreate(rs) \in Nat
    BY ToCreateType DEF ToCreate, TypeInv, TypeOK
  <1> QED BY <1>2, <1>3, PlanStays

(* Steps of a Reconcile that add no pod.                                   *)
LEMMA PlanGoesOn ==
  ASSUME Counting, TypeInv, PlansWithin, UNCHANGED <<storeVars, todo>>,
         NEW rs \in RSNames, InWork(rs), Asks(cur') <= PodsAsked(rs),
         ToCreate(rs)' = 0 \/ ToCreate(rs)' = ToCreate(rs),
         cpc' = "put" => \A other \in RSNames : IsOwnedBy(newPod', other) => other = rs
  PROVE  PlansWithin'
  <1> SUFFICES ASSUME NEW other \in RSNames PROVE PlanWithin(other)'
    BY DEF PlansWithin
  <1>1. /\ Cardinality(ActivePods(other)) \in Nat /\ ActivePods(other)' = ActivePods(other)
        /\ UNCHANGED replicasets
    BY ActivesCounted DEF CountsAreNumbers, ActivePods, ListKeys, storeVars
  <1>2. InWork(other)' <=> other = rs
    <2>1. InWork(other)' <=> InWork(other)
      BY DEF InWork
    <2> QED BY <2>1, OneInWork DEF TypeInv, TypeOK
  <1>3. ToCreate(other) \in Nat
    BY ToCreateType DEF TypeInv, TypeOK
  <1>4. ToCreate(other)' = 0 \/ ToCreate(other)' = ToCreate(other)
    BY <1>2 DEF ToCreate
  <1>5. Exists(replicasets', other) => Asks(replicasets'[other]) <= PodsAsked(other)
    BY <1>1 DEF PlansWithin, PlanWithin
  <1>6. Cardinality(ActivePods(other))' \in 0..Cardinality(ActivePods(other))
    BY <1>1
  <1>7. ToCreate(other)' \in 0..ToCreate(other)
    BY <1>3, <1>4
  <1> QED BY <1>2, <1>5, <1>6, <1>7, PlanStays

(* The controller plans what its list of pods lacks.                       *)
LEMMA CountPlans ==
  ASSUME Counting, TypeInv, PlansWithin, UNCHANGED <<storeVars, todo, cur, at>>,
         NEW rs \in RSNames, InWork(rs), cpc = "list", cpc' = "create", Template # <<>>,
         Cardinality(ActivePods(rs)) < cur.replicas,
         missing' = cur.replicas - Cardinality(ActivePods(rs))
  PROVE  PlansWithin'
  <1> SUFFICES ASSUME NEW other \in RSNames PROVE PlanWithin(other)'
    BY DEF PlansWithin
  <1>1. /\ Cardinality(ActivePods(other)) \in Nat /\ ActivePods(other)' = ActivePods(other)
        /\ UNCHANGED replicasets
    BY ActivesCounted DEF CountsAreNumbers, ActivePods, ListKeys, storeVars
  <1>2. InWork(other)' <=> other = rs
    <2>1. InWork(other)' <=> InWork(other)
      BY DEF InWork
    <2> QED BY <2>1, OneInWork DEF TypeInv, TypeOK
  <1>3. Asks(cur') <= PodsAsked(rs)
    BY DEF PlansWithin, PlanWithin
  <1>4. Exists(replicasets', other) => Asks(replicasets'[other]) <= PodsAsked(other)
    BY <1>1 DEF PlansWithin, PlanWithin
  <1>5. CASE other # rs
    <2>1. ToCreate(other)' = 0 /\ ToCreate(other) \in Nat
      BY <1>2, <1>5, ToCreateType DEF ToCreate, TypeInv, TypeOK
    <2> QED BY <1>1, <1>2, <1>4, <1>5, <2>1, PlanStays
  <1>6. CASE other = rs
    <2>1. cur \in ReplicaSet /\ at = 1
      BY DEF TypeInv, TypeOK, CtlTypeOK, CtlShape
    <2> DEFINE k == Cardinality(ActivePods(rs))
               n == Len(Template)
               x == cur.replicas
    <2>2. x \in Int /\ n \in Nat /\ n > 0 /\ Asks(cur) = x * n /\ Asks(cur) \in Int
      BY <2>1, AsksType, TemplateLen DEF Asks, Template
    <2>3. k \in Nat /\ PodsAsked(rs) \in Nat
      BY <1>1, <1>6, AskedBounds
    <2>4. ToCreate(rs)' = (x - k) * n - (at - 1)
      BY <1>2, <1>6 DEF ToCreate, Template
    <2>5. k + ((x - k) * n - (at - 1)) <= x * n
      <3> HIDE DEF k, n, x
      <3>1. (x - k) * n = x * n - k * n
        BY <2>2, <2>3
      <3>2. k * n = k * (n - 1) + k /\ k * (n - 1) \in Nat
        <4>1. n - 1 \in Nat
          BY <2>2
        <4>2. k * (n - 1) \in Nat
          BY <2>3, <4>1
        <4>3. k * n = k * (n - 1) + k
          BY <2>2, <2>3
        <4> QED BY <4>2, <4>3
      <3>3. x * n \in Int
        BY <2>2
      <3> QED BY <2>1, <2>2, <2>3, <3>1, <3>2, <3>3
    <2>6. k + ToCreate(rs)' <= PodsAsked(rs)
      <3>1. (x - k) * n - (at - 1) \in Int
        BY <2>1, <2>2, <2>3
      <3>2. x * n \in Int /\ x * n <= PodsAsked(rs)
        BY <1>3, <2>2
      <3> HIDE DEF k, n, x
      <3> QED BY <2>3, <2>4, <2>5, <3>1, <3>2
    <2>7. Cardinality(ActivePods(rs))' = k
      BY <1>1, <1>6
    <2> QED BY <1>2, <1>3, <1>4, <1>6, <2>6, <2>7 DEF PlanWithin
  <1> QED BY <1>5, <1>6

(* A pod created is a pod less to create.                                  *)
LEMMA CreatePlans ==
  ASSUME Counting, Inv, TypeInv', PlansWithin, FailedKept, ReconcileCreatePut
  PROVE  PlansWithin'
  <1> SUFFICES ASSUME NEW rs \in RSNames PROVE PlanWithin(rs)'
    BY DEF PlansWithin
  <1> DEFINE A == ActivePods(rs)
             n == Len(Template)
  <1>0. /\ pods \in [PodNames -> Pod \cup {Absent}] /\ pods' \in [PodNames -> Pod \cup {Absent}]
        /\ TypeInv /\ CtlTypeOK /\ CtlShape
    BY DEF Inv, TypeInv, TypeOK, StoreTypeOK
  <1>1. pods' = [pods EXCEPT ![newPod] = TemplatePod] /\ newPod \in PodNames
    BY TemplateWrite DEF PodWrite
  <1>2. UNCHANGED <<replicasets, todo, cur>> /\ cpc = "put"
    BY DEF ReconcileCreatePut
  <1>3. InWork(rs)' <=> InWork(rs)
    BY <1>2 DEF InWork
  <1>4. cpc' \in {"create", "updget"}
    BY DEF ReconcileCreatePut
  <1>5. /\ Exists(replicasets', rs) => Asks(replicasets'[rs]) <= PodsAsked(rs)
        /\ InWork(rs)' => Asks(cur') <= PodsAsked(rs)
        /\ IsOwnedBy(newPod, rs) => InWork(rs)
    BY <1>2, <1>3 DEF PlansWithin, PlanWithin
  <1>6. A \in SUBSET PodNames /\ Cardinality(A) \in Nat
    <2>1. A \subseteq PodNames
      BY <1>0 DEF ActivePods, ListKeys
    <2> QED BY <2>1 DEF Counting, CountsAdd
  <1>7. \A p \in A' : p \in A \/ (p = newPod /\ IsOwnedBy(newPod, rs))
    <2> SUFFICES ASSUME NEW p \in A', p # newPod PROVE p \in A
      BY DEF ActivePods
    <2> QED BY <1>0, <1>1 DEF ActivePods, ListKeys
  <1>8. CASE ~InWork(rs)
    <2>1. A' \in SUBSET A
      BY <1>5, <1>7, <1>8
    <2>4. Cardinality(A)' \in 0..Cardinality(A)
      BY <1>6, <2>1, FewerCounted
    <2>5. ToCreate(rs)' = 0 /\ ToCreate(rs) \in Nat
      BY <1>0, <1>3, <1>8, ToCreateType DEF ToCreate
    <2> QED BY <1>0, <1>3, <1>4, <1>5, <1>8, <2>4, <2>5, PlanStays
  <1>9. CASE InWork(rs)
    <2>1. /\ A \cup {newPod} \in SUBSET PodNames
          /\ Cardinality(A \cup {newPod}) <= Cardinality(A) + 1
          /\ Cardinality(A \cup {newPod}) \in Nat
      <3> HIDE DEF A
      <3> QED BY <1>1, <1>6 DEF Counting, CountsAdd
    <2>2. A' \in SUBSET (A \cup {newPod})
      BY <1>7
    <2>3. Cardinality(A') \in Nat /\ Cardinality(A') <= Cardinality(A) + 1
      <3>1. Cardinality(A') \in 0..Cardinality(A \cup {newPod})
        BY <2>1, <2>2, FewerCounted
      <3> HIDE DEF A
      <3> QED BY <1>6, <2>1, <3>1
    <2>4. missing \in Nat /\ missing > 0 /\ n \in Nat /\ at \in 1..n
      BY <1>0, <1>2, TemplateLen DEF CtlTypeOK, CtlShape
    <2>5. ToCreate(rs) = missing * n - (at - 1) /\ ToCreate(rs) \in Nat
      BY <1>0, <1>2, <1>9, ToCreateType DEF ToCreate
    <2>6. ToCreate(rs)' = ToCreate(rs) - 1
      <3>0. UNCHANGED Template
        BY <1>2 DEF Template
      <3>1. CASE at < n /\ at' = at + 1 /\ cpc' = "create" /\ UNCHANGED missing
        <4>1. ToCreate(rs)' = missing' * Len(Template') - (at' - 1)
          BY <1>3, <1>9, <3>1 DEF ToCreate
        <4>2. missing * n \in Nat
          BY <2>4
        <4>3. missing' = missing /\ at' = at + 1 /\ Len(Template') = n
          BY <3>0, <3>1
        <4>4. ToCreate(rs)' = missing * n - (at' - 1)
          BY <4>1, <4>3
        <4> HIDE DEF n
        <4> QED BY <2>4, <2>5, <4>2, <4>3, <4>4
      <3>2. CASE /\ at = n /\ at' = 1 /\ missing' = missing - 1
                 /\ cpc' = IF missing = 1 THEN "updget" ELSE "create"
        <4>1. ToCreate(rs) = (missing - 1) * n + 1
          BY <2>4, <2>5, <3>2, PlanLength
        <4>2. CASE missing = 1
          <5>1. ToCreate(rs)' = 0
            BY <3>2, <4>2 DEF ToCreate
          <5> HIDE DEF n
          <5> QED BY <2>4, <4>1, <4>2, <5>1
        <4>3. CASE missing # 1
          <5>1. ToCreate(rs)' = (missing - 1) * n - (1 - 1)
            BY <1>3, <1>9, <3>0, <3>2, <4>3 DEF ToCreate
          <5>2. (missing - 1) * n \in Int
            BY <2>4
          <5> HIDE DEF n
          <5> QED BY <4>1, <5>1, <5>2
        <4> QED BY <4>2, <4>3
      <3> QED BY <3>1, <3>2 DEF ReconcileCreatePut
    <2>7. Cardinality(A) + ToCreate(rs) <= PodsAsked(rs) /\ PodsAsked(rs) \in Nat
      BY AskedBounds DEF PlansWithin, PlanWithin
    <2>8. Cardinality(A') + ToCreate(rs)' <= PodsAsked(rs)
      <3> HIDE DEF A
      <3> QED BY <1>6, <2>3, <2>5, <2>6, <2>7
    <2> QED BY <1>4, <1>5, <2>8 DEF PlanWithin
  <1> QED BY <1>8, <1>9

(* A Reconcile keeps to the plan.                                          *)
LEMMA CtlPlans ==
  ASSUME Counting, Inv, TypeInv', PlansWithin, FailedKept, CtlStep \/ CtlCrash
  PROVE  PlansWithin'
  <1>0. TypeInv /\ CtlTypeOK /\ CtlShape
    BY DEF Inv, TypeInv, TypeOK
  <1>1. \A rs \in RSNames : Exists(replicasets, rs) => Asks(replicasets[rs]) <= PodsAsked(rs)
    BY DEF PlansWithin, PlanWithin
  <1>2. ASSUME UNCHANGED storeVars, cpc' \in {"idle", "get", "down"} PROVE PlansWithin'
    BY <1>0, <1>1, <1>2, NothingPlanned DEF storeVars, Exists
  <1>3. CASE CtlList \/ CtlRestart \/ CtlCrash
    BY <1>2, <1>3 DEF CtlList, CtlRestart, CtlCrash, Fatal, Fresh
  <1>4. CASE ReconcileGet
    <2>1. PICK rs \in todo :
            /\ InWork(rs)
            /\ \/ ~Exists(replicasets, rs) /\ Fatal
               \/ /\ Exists(replicasets, rs)
                  /\ cur' = replicasets[rs]
                  /\ cpc' = "list"
                  /\ UNCHANGED <<todo, missing, at, newPod>>
      BY <1>4 DEF ReconcileGet
    <2>2. UNCHANGED storeVars /\ rs \in RSNames
      BY <1>0, <1>4 DEF ReconcileGet, CtlTypeOK
    <2>3. CASE Fatal
      BY <1>2, <2>2, <2>3 DEF Fatal, Fresh
    <2>4. CASE ~Fatal
      <3>1. ToCreate(rs)' = 0
        BY <2>1, <2>4 DEF ToCreate
      <3> QED BY <1>0, <1>1, <2>1, <2>2, <2>4, <3>1, PlanGoesOn
    <2> QED BY <2>3, <2>4
  <1>5. CASE ReconcileList
    <2>1. PICK rs \in todo :
            /\ InWork(rs)
            /\ LET count == Cardinality(ActivePods(rs)) IN
               \/ /\ count < cur.replicas
                  /\ IF Template = <<>>
                       THEN cpc' = "updget" /\ UNCHANGED missing
                       ELSE cpc' = "create" /\ missing' = cur.replicas - count
                  /\ UNCHANGED <<todo, cur, at, newPod>>
               \/ /\ count > cur.replicas
                  /\ cpc' = "updget"
                  /\ UNCHANGED <<todo, cur, missing, at, newPod>>
               \/ count = cur.replicas /\ NextReplicaSet(rs)
      BY <1>5 DEF ReconcileList
    <2>2. UNCHANGED storeVars /\ cpc = "list" /\ rs \in RSNames
      BY <1>0, <1>5 DEF ReconcileList, CtlTypeOK
    <2>3. CASE NextReplicaSet(rs)
      BY <1>2, <2>2, <2>3 DEF NextReplicaSet, Fresh
    <2>4. CASE cpc' = "updget" /\ UNCHANGED <<todo, cur>>
      <3>1. ToCreate(rs)' = 0
        BY <2>4 DEF ToCreate
      <3>2. Asks(cur') <= PodsAsked(rs)
        BY <2>1, <2>2, <2>4 DEF PlansWithin, PlanWithin
      <3> QED BY <1>0, <2>1, <2>2, <2>4, <3>1, <3>2, PlanGoesOn
    <2>5. CASE /\ Cardinality(ActivePods(rs)) < cur.replicas /\ Template # <<>>
               /\ cpc' = "create" /\ missing' = cur.replicas - Cardinality(ActivePods(rs))
               /\ UNCHANGED <<todo, cur, at>>
      BY <1>0, <2>1, <2>2, <2>5, CountPlans
    <2> QED BY <2>1, <2>3, <2>4, <2>5
  <1>6. CASE ReconcileCreateGet
    <2>1. PICK rs \in todo, s \in RandomSuffixes :
            /\ InWork(rs)
            /\ \/ Fatal
               \/ /\ newPod' = GenerateName(rs, s)
                  /\ cpc' = "put"
                  /\ UNCHANGED <<todo, cur, missing, at>>
      BY <1>6 DEF ReconcileCreateGet
    <2>2. UNCHANGED storeVars /\ cpc = "create" /\ rs \in RSNames
      BY <1>0, <1>6 DEF ReconcileCreateGet, CtlTypeOK
    <2>3. CASE Fatal
      BY <1>2, <2>2, <2>3 DEF Fatal, Fresh
    <2>4. CASE ~Fatal
      <3>1. UNCHANGED <<todo, cur, missing, at>> /\ cpc' = "put" /\ newPod' = GenerateName(rs, s)
        BY <2>1, <2>4
      <3>2. ToCreate(rs)' = ToCreate(rs)
        BY <2>2, <3>1 DEF ToCreate, InWork, Template
      <3>3. Asks(cur') <= PodsAsked(rs)
        BY <2>1, <2>2, <3>1 DEF PlansWithin, PlanWithin
      <3>4. \A other \in RSNames : IsOwnedBy(newPod', other) => other = rs
        BY <2>2, <3>1 DEF Counting, PodsBelong
      <3> QED BY <1>0, <2>1, <2>2, <3>1, <3>2, <3>3, <3>4, PlanGoesOn
    <2> QED BY <2>3, <2>4
  <1>7. CASE ReconcileCreatePut
    BY <1>7, CreatePlans
  <1>8. CASE ReconcileUpdateGet
    <2>1. PICK rs \in todo :
            InWork(rs) /\ (Fatal \/ (cpc' = "updput" /\ UNCHANGED <<todo, cur, missing, at, newPod>>))
      BY <1>8 DEF ReconcileUpdateGet
    <2>2. UNCHANGED storeVars /\ cpc = "updget" /\ rs \in RSNames
      BY <1>0, <1>8 DEF ReconcileUpdateGet, CtlTypeOK
    <2>3. CASE Fatal
      BY <1>2, <2>2, <2>3 DEF Fatal, Fresh
    <2>4. CASE cpc' = "updput" /\ UNCHANGED <<todo, cur, missing, at, newPod>>
      <3>1. ToCreate(rs)' = 0
        BY <2>4 DEF ToCreate
      <3>2. Asks(cur') <= PodsAsked(rs)
        BY <2>1, <2>2, <2>4 DEF PlansWithin, PlanWithin
      <3> QED BY <1>0, <2>1, <2>2, <2>4, <3>1, <3>2, PlanGoesOn
    <2> QED BY <2>1, <2>3, <2>4
  <1>9. CASE ReconcileUpdatePut
    <2>1. PICK rs \in todo :
            /\ InWork(rs)
            /\ replicasets' = [replicasets EXCEPT ![rs] = [cur EXCEPT !.statusReplicas = cur.replicas]]
            /\ NextReplicaSet(rs)
      BY <1>9 DEF ReconcileUpdatePut, Update
    <2>2. UNCHANGED pods /\ cpc = "updput" /\ rs \in RSNames
      BY <1>0, <1>9 DEF ReconcileUpdatePut, CtlTypeOK
    <2>3. cpc' \in {"idle", "get", "down"}
      BY <2>1 DEF NextReplicaSet, Fresh
    <2>4. Asks(cur) <= PodsAsked(rs) /\ cur \in ReplicaSet
      BY <1>0, <2>1, <2>2 DEF PlansWithin, PlanWithin, CtlTypeOK, CtlShape
    <2>5. Asks([cur EXCEPT !.statusReplicas = cur.replicas]) = Asks(cur)
      BY <2>4 DEF Asks, ReplicaSet
    <2>6. ASSUME NEW other \in RSNames, Exists(replicasets', other)
          PROVE  Asks(replicasets'[other]) <= PodsAsked(other)
      BY <1>0, <1>1, <2>1, <2>2, <2>4, <2>5, <2>6 DEF TypeInv, TypeOK, StoreTypeOK, Exists
    <2> QED BY <1>0, <2>2, <2>3, <2>6, NothingPlanned
  <1> QED BY <1>3, <1>4, <1>5, <1>6, <1>7, <1>8, <1>9 DEF CtlStep

(* Every step of the cluster keeps to the plan.                            *)
LEMMA PlansStep ==
  ASSUME Counting, Inv, TypeInv', PlansWithin, FailedKept, [Next]_vars
  PROVE  PlansWithin'
  <1>0. TypeInv /\ UsersOnlyCreate
    BY DEF Inv, Counting, PodsBelong
  <1>1. \A rs \in RSNames : Exists(replicasets, rs) => Asks(replicasets[rs]) <= PodsAsked(rs)
    BY DEF PlansWithin, PlanWithin
  <1>2. ASSUME UNCHANGED <<pods, replicasets, ctlVars>> PROVE PlansWithin'
    <2>1. PodsKept
      BY <1>2 DEF PodsKept, Exists
    <2>2. \A rs \in RSNames : Exists(replicasets', rs) => Asks(replicasets'[rs]) <= PodsAsked(rs)
      BY <1>1, <1>2
    <2> QED BY <1>0, <1>2, <2>1, <2>2, OtherPlans
  <1>3. CASE Users
    BY <1>2, <1>3 DEF Users, UserCall, storeVars
  <1>4. ASSUME NEW r \in Requests, Server(r) PROVE PlansWithin'
    BY <1>0, <1>4, ServeKeepsPods, ServePlans, OtherPlans DEF Server
  <1>5. ASSUME SchedStep \/ SchedAbort, UNCHANGED ctlVars PROVE PlansWithin'
    <2>1. PodsKept /\ UNCHANGED replicasets
      BY <1>5, SchedKeepsPods
    <2>2. \A rs \in RSNames : Exists(replicasets', rs) => Asks(replicasets'[rs]) <= PodsAsked(rs)
      BY <1>1, <2>1
    <2> QED BY <1>0, <1>5, <2>1, <2>2, OtherPlans
  <1>6. CASE SchedulerProcess
    BY <1>5, <1>6 DEF SchedulerProcess
  <1>7. CASE ControllerProcess
    BY <1>7, CtlPlans DEF ControllerProcess
  <1>8. ASSUME NEW n \in NodeNames, KubeletProcess(n) \/ NodeEvent(n) PROVE PlansWithin'
    BY <1>2, <1>8, KubeletsKeepStore DEF storeVars
  <1>9. CASE Crash
    BY <1>5, <1>9, CtlPlans DEF Crash
  <1>10. CASE UNCHANGED vars
    BY <1>2, <1>10 DEF vars, storeVars
  <1> QED BY <1>3, <1>4, <1>6, <1>7, <1>8, <1>9, <1>10 DEF Next

(* At first there is no pod and no plan.                                   *)
LEMMA PlansInit ==
  ASSUME Counting, Init
  PROVE  PlansWithin
  <1> SUFFICES ASSUME NEW rs \in RSNames PROVE PlanWithin(rs)
    BY DEF PlansWithin
  <1>1. ActivePods(rs) = {} /\ ToCreate(rs) = 0
    BY DEF Init, StoreInit, CtlInit, ActivePods, ListKeys, ToCreate
  <1>2. Cardinality({}) = 0 /\ PodsAsked(rs) \in Nat
    BY AskedBounds DEF Counting, CountsAdd
  <1>3. ~Exists(replicasets, rs) /\ cpc = "idle"
    BY DEF Init, StoreInit, CtlInit, Exists
  <1> QED BY <1>1, <1>2, <1>3 DEF PlanWithin

-----------------------------------------------------------------------------
(* Where no container that the status loop comes across has failed, no pod *)
(* fails, and so none comes back.                                          *)
NoneFails == \A s \in ForeignStates : s.exitCode = 0

Sound(pod) == pod = Absent \/ pod.status # "Failed"

(* No copy of a pod says that it failed.                                   *)
NoneFailed ==
  /\ \A p \in PodNames : Sound(pods[p])
  /\ \A n \in NodeNames, p \in PodNames : Sound(known[n][p])
  /\ \A r \in Requests, p \in PodNames : Sound(items[r][p])
  /\ \A r \in Requests :
       pc[r] # "idle" /\ call[r].kind = "pod" /\ call[r].verb = "PUT" => Sound(call[r].body)

(* determinePodStatus sees a failure only in an exit code.                 *)
LEMMA NoFailureSeen ==
  ASSUME NoneFails, NEW pod, NEW states \in Inspections(pod)
  PROVE  determinePodStatus(states) # "Failed"
  <1>1. \A i \in DOMAIN states : states[i].exitCode = 0
    BY SMTT(60) DEF Inspections, NoneFails, NotFound
  <1>2. anyContainerExists(states) => ~allContainersFailed(states)
    BY <1>1 DEF anyContainerExists, allContainersFailed
  <1> QED BY <1>2 DEF determinePodStatus

(* What the pods are after a step of the scheduler or the controller.      *)
LEMMA LoopsSound ==
  ASSUME Inv, NoneFailed, SchedStep \/ SchedAbort \/ CtlStep \/ CtlCrash,
         NEW p \in PodNames
  PROVE  Sound(pods'[p])
  <1>0. pods \in [PodNames -> Pod \cup {Absent}]
    BY DEF Inv, TypeInv, TypeOK, StoreTypeOK
  <1>1. ASSUME UNCHANGED pods PROVE Sound(pods'[p])
    BY <1>1 DEF NoneFailed
  <1>2. ASSUME NEW q, NEW pod, pods' = [pods EXCEPT ![q] = pod], pod.status # "Failed"
        PROVE  Sound(pods'[p])
    BY <1>0, <1>2 DEF NoneFailed, Sound
  <1>3. CASE SchedAssign
    <2>1. PICK q \in queue, n \in available :
            pods' = IF Validate(listed[q]) THEN Update(pods, q, Bind(listed[q], n)) ELSE pods
      BY <1>3 DEF SchedAssign
    <2>2. listed[q] \in Pod
      BY DEF Inv, TypeInv, TypeOK, SchedTypeOK, SchedShape
    <2>3. Bind(listed[q], n).status # "Failed"
      BY <2>2 DEF Bind, Pod
    <2> QED BY <1>1, <1>2, <2>1, <2>3 DEF Update
  <1>4. CASE ReconcileCreatePut
    <2>1. TemplatePod.status # "Failed"
      BY DEF TemplatePod
    <2>2. pods' = [pods EXCEPT ![newPod] = TemplatePod]
      BY <1>4 DEF ReconcileCreatePut, Create
    <2> QED BY <1>2, <2>1, <2>2
  <1>5. CASE SchedListPods \/ SchedListNodes \/ SchedAbort
    BY <1>1, <1>5 DEF SchedListPods, SchedListNodes, SchedAbort, storeVars
  <1>6. CASE CtlList \/ ReconcileGet \/ ReconcileList \/ ReconcileCreateGet \/ CtlRestart \/ CtlCrash
    <2>1. CASE CtlList BY <1>1, <2>1 DEF CtlList, storeVars
    <2>2. CASE ReconcileGet BY <1>1, <2>2 DEF ReconcileGet, storeVars
    <2>3. CASE ReconcileList BY <1>1, <2>3 DEF ReconcileList, storeVars
    <2>4. CASE ReconcileCreateGet BY <1>1, <2>4 DEF ReconcileCreateGet, storeVars
    <2>5. CASE CtlRestart \/ CtlCrash BY <1>1, <2>5 DEF CtlRestart, CtlCrash, storeVars
    <2> QED BY <1>6, <2>1, <2>2, <2>3, <2>4, <2>5
  <1>7. CASE ReconcileUpdateGet \/ ReconcileUpdatePut
    BY <1>1, <1>7 DEF ReconcileUpdateGet, ReconcileUpdatePut, storeVars
  <1> QED BY <1>3, <1>4, <1>5, <1>6, <1>7 DEF SchedStep, CtlStep

(* What the pods and the answers are after a step of a handler.            *)
LEMMA ServeSound ==
  ASSUME UsersOnlyCreate, Inv, NoneFailed, NEW r \in Requests, Serve(r), UNCHANGED kubeVars
  PROVE  NoneFailed'
  <1>0. /\ pods \in [PodNames -> Pod \cup {Absent}]
        /\ items \in [Requests -> [PodNames -> Pod \cup {Absent}]]
        /\ ApiTypeOK
    BY DEF Inv, TypeInv, TypeOK, StoreTypeOK, ApiTypeOK
  <1>1. Moves(r)
    BY ServePodMoves, ServeNodeMoves, ServeRSMoves DEF Serve
  <1>2. UNCHANGED call /\ pc[r] # "idle" /\ \A q \in Requests \ {r} : pc'[q] = pc[q]
    BY <1>0, <1>1, OwnRequest DEF Moves
  <1>3. ASSUME NEW q \in Requests, pc'[q] # "idle", call'[q].kind = "pod", call'[q].verb = "PUT"
        PROVE  Sound(call'[q].body)
    BY <1>2, <1>3 DEF NoneFailed
  <1>4. ASSUME NEW p \in PodNames PROVE Sound(pods'[p])
    <2>1. ASSUME UNCHANGED pods PROVE Sound(pods'[p])
      BY <2>1 DEF NoneFailed
    <2>2. ASSUME NEW q, NEW pod, pods' = [pods EXCEPT ![q] = pod], Sound(pod)
          PROVE  Sound(pods'[p])
      BY <1>0, <2>2 DEF NoneFailed
    <2>3. CASE PodCreatePut(r)
      <3>1. /\ PodWrite(call[r].name, Accepted(call[r].body))
            /\ Accepted(call[r].body).nodeName = NoNode
        BY <2>3, CreateWrite
      <3>2. Sound(Accepted(call[r].body))
        BY <3>1 DEF PodWrite, Sound
      <3> QED BY <2>2, <3>1, <3>2 DEF PodWrite
    <2>4. CASE PodUpdate(r)
      <3>1. Sound(call[r].body)
        BY <1>2, <2>4 DEF PodUpdate, Handling, NoneFailed
      <3> QED BY <2>1, <2>2, <2>4, <3>1, ReportWrite DEF PodWrite
    <2>5. CASE PodDelete(r)
      BY <2>5, PodCallers DEF PodDelete, Handling
    <2>6. CASE PodCreateGet(r) \/ PodLoad(r) \/ PodList(r)
      BY <2>6, <2>1 DEF PodCreateGet, PodLoad, PodList, storeVars
    <2>7. CASE ServeNode(r) \/ ServeRS(r)
      BY <2>7, <2>1, ServeNodeMoves, ServeRSMoves
    <2> QED BY <2>3, <2>4, <2>5, <2>6, <2>7 DEF Serve, ServePod
  <1>5. ASSUME NEW q \in Requests, NEW p \in PodNames PROVE Sound(items'[q][p])
    <2>1. ASSUME UNCHANGED items PROVE Sound(items'[q][p])
      BY <2>1 DEF NoneFailed
    <2>2. CASE PodList(r)
      <3>1. items'[q][p] \in {items[q][p], pods[p], Absent}
        BY <1>0, <2>2 DEF PodList
      <3> QED BY <3>1 DEF NoneFailed, Sound
    <2>3. CASE PodCreateGet(r) \/ PodCreatePut(r) \/ PodLoad(r) \/ PodUpdate(r) \/ PodDelete(r)
      BY <2>1, <2>3 DEF PodCreateGet, PodCreatePut, PodLoad, PodUpdate, PodDelete
    <2>4. CASE ServeNode(r) \/ ServeRS(r)
      BY <2>1, <2>4, ServeNodeMoves, ServeRSMoves
    <2> QED BY <2>2, <2>3, <2>4 DEF Serve, ServePod
  <1> QED BY <1>3, <1>4, <1>5 DEF NoneFailed, kubeVars

(* A kubelet reports no failure.                                           *)
LEMMA KubeletSound ==
  ASSUME NoneFails, Inv, NoneFailed, NEW n \in NodeNames, KubeletProcess(n) \/ NodeEvent(n)
  PROVE  NoneFailed'
  <1>0. /\ known \in [NodeNames -> [PodNames -> Pod \cup {Absent}]]
        /\ items \in [Requests -> [PodNames -> Pod \cup {Absent}]]
        /\ call \in [Requests -> Calls \cup {Absent}]
        /\ pc \in [Requests -> {"idle", "start", "loaded", "checked", "done"}]
        /\ sweep[n] \subseteq ListKeys(known[n])
        /\ WatchSlot(n) \in Requests /\ StatusSlot(n) \in Requests
    BY Slots DEF Inv, TypeInv, TypeOK, ApiTypeOK, KubeTypeOK, KubeShape
  <1>1. \A p \in PodNames : Sound(pods'[p])
    BY KubeletsKeepStore DEF storeVars, NoneFailed
  <1>2. ASSUME NEW r \in Requests, NEW c, Issue(r, c), c.kind = "pod" /\ c.verb = "PUT" => Sound(c.body)
        PROVE  /\ \A q \in Requests, p \in PodNames : Sound(items'[q][p])
               /\ \A q \in Requests :
                    pc'[q] # "idle" /\ call'[q].kind = "pod" /\ call'[q].verb = "PUT" => Sound(call'[q].body)
    <2>1. /\ call'[r] = c /\ items'[r] = NoItems
          /\ \A q \in Requests \ {r} : call'[q] = call[q] /\ pc'[q] = pc[q] /\ items'[q] = items[q]
      BY <1>0, <1>2 DEF Issue
    <2>2. \A p \in PodNames : Sound(NoItems[p])
      BY DEF NoItems, Sound
    <2>3. ASSUME NEW q \in Requests, NEW p \in PodNames PROVE Sound(items'[q][p])
      BY <2>1, <2>2 DEF NoneFailed
    <2>4. ASSUME NEW q \in Requests, pc'[q] # "idle", call'[q].kind = "pod", call'[q].verb = "PUT"
          PROVE  Sound(call'[q].body)
      BY <1>2, <2>1, <2>4 DEF NoneFailed
    <2> QED BY <2>3, <2>4
  <1>3. ASSUME NEW r \in Requests, Consume(r)
        PROVE  /\ \A q \in Requests, p \in PodNames : Sound(items'[q][p])
               /\ \A q \in Requests :
                    pc'[q] # "idle" /\ call'[q].kind = "pod" /\ call'[q].verb = "PUT" => Sound(call'[q].body)
    <2>1. /\ UNCHANGED call /\ items'[r] = NoItems /\ pc'[r] = "idle"
          /\ \A q \in Requests \ {r} : pc'[q] = pc[q] /\ items'[q] = items[q]
      BY <1>0, <1>3 DEF Consume
    <2>2. \A p \in PodNames : Sound(NoItems[p])
      BY DEF NoItems, Sound
    <2>3. ASSUME NEW q \in Requests, NEW p \in PodNames PROVE Sound(items'[q][p])
      BY <2>1, <2>2 DEF NoneFailed
    <2>4. ASSUME NEW q \in Requests, pc'[q] # "idle", call'[q].kind = "pod", call'[q].verb = "PUT"
          PROVE  Sound(call'[q].body)
      BY <2>1, <2>4 DEF NoneFailed
    <2> QED BY <2>3, <2>4
  <1>4. ASSUME UNCHANGED apiVars
        PROVE  /\ \A q \in Requests, p \in PodNames : Sound(items'[q][p])
               /\ \A q \in Requests :
                    pc'[q] # "idle" /\ call'[q].kind = "pod" /\ call'[q].verb = "PUT" => Sound(call'[q].body)
    BY <1>4 DEF apiVars, NoneFailed
  <1>5. ASSUME UNCHANGED known PROVE \A m \in NodeNames, p \in PodNames : Sound(known'[m][p])
    BY <1>5 DEF NoneFailed
  <1>6. CASE KubeletStart(n) \/ KubeletPoll(n)
    <2>1. ASSUME NEW c, c \in {RegisterCall(n), PollCall(n)}
          PROVE  c.kind = "pod" /\ c.verb = "PUT" => Sound(c.body)
      BY <2>1 DEF RegisterCall, PollCall
    <2>2. UNCHANGED known /\ \E c \in {RegisterCall(n), PollCall(n)} : Issue(WatchSlot(n), c)
      BY <1>6 DEF KubeletStart, KubeletPoll, kubeVars
    <2> QED BY <1>0, <1>1, <1>2, <1>5, <2>1, <2>2 DEF NoneFailed
  <1>7. CASE KubeletRegistered(n) \/ StatusAnswered(n)
    <2>1. UNCHANGED known /\ \E r \in Requests : Consume(r)
      BY <1>0, <1>7 DEF KubeletRegistered, StatusAnswered, kubeVars
    <2> QED BY <1>1, <1>3, <1>5, <2>1 DEF NoneFailed
  <1>8. CASE RunNewPods(n)
    <2>1. ASSUME NEW m \in NodeNames, NEW p \in PodNames PROVE Sound(known'[m][p])
      <3>1. known'[m][p] \in {known[m][p], items[WatchSlot(n)][p]}
        BY <1>0, <1>8 DEF RunNewPods
      <3> QED BY <1>0, <3>1 DEF NoneFailed
    <2> QED BY <1>0, <1>1, <1>3, <1>8, <2>1 DEF RunNewPods, NoneFailed
  <1>9. CASE UpdatePodStatus(n)
    <2>1. CASE UNCHANGED <<known, apiVars>>
      BY <1>1, <1>4, <1>5, <2>1 DEF NoneFailed
    <2>2. CASE ~UNCHANGED <<known, apiVars>>
      <3>0. PICK p \in sweep[n] : \E states \in Inspections(known[n][p]) :
              LET pod == [known[n][p] EXCEPT !.status = determinePodStatus(states)] IN
              known' = [known EXCEPT ![n][p] = pod] /\ Issue(StatusSlot(n), StatusCall(p, pod))
        BY <1>9, <2>2 DEF UpdatePodStatus
      <3>1. PICK states \in Inspections(known[n][p]) :
              LET pod == [known[n][p] EXCEPT !.status = determinePodStatus(states)] IN
              known' = [known EXCEPT ![n][p] = pod] /\ Issue(StatusSlot(n), StatusCall(p, pod))
        BY <3>0
      <3> DEFINE pod == [known[n][p] EXCEPT !.status = determinePodStatus(states)]
      <3>2. known[n][p] \in Pod
        BY SMTT(60), <1>0 DEF ListKeys
      <3>3. Sound(pod)
        <4>1. pod.status = determinePodStatus(states)
          BY <3>2 DEF Pod
        <4> QED BY <4>1, NoFailureSeen DEF Sound
      <3>4. StatusCall(p, pod).body = pod
        BY DEF StatusCall
      <3>5. known' = [known EXCEPT ![n][p] = pod] /\ Issue(StatusSlot(n), StatusCall(p, pod))
        BY <3>1
      <3> HIDE DEF pod
      <3>6. ASSUME NEW m \in NodeNames, NEW q \in PodNames PROVE Sound(known'[m][q])
        <4>1. known'[m][q] \in {known[m][q], pod}
          BY <1>0, <3>5
        <4> QED BY <3>3, <4>1 DEF NoneFailed
      <3> QED BY <1>0, <1>1, <1>2, <3>3, <3>4, <3>5, <3>6 DEF NoneFailed
    <2> QED BY <2>1, <2>2
  <1>10. CASE StatusTick(n) \/ ContainerExit(n) \/ \E p \in PodNames : ContainerCreate(n, p) \/ ContainerStart(n, p)
    <2>1. UNCHANGED known /\ UNCHANGED apiVars
      BY <1>10 DEF StatusTick, ContainerExit, ContainerCreate, ContainerStart
    <2> QED BY <1>1, <1>4, <1>5, <2>1 DEF NoneFailed
  <1>11. CASE Dies(n)
    <2>1. ASSUME NEW m \in NodeNames, NEW p \in PodNames PROVE Sound(known'[m][p])
      <3>1. known'[m][p] \in {known[m][p], Absent}
        BY <1>0, <1>11 DEF Dies, NoItems
      <3> QED BY <3>1 DEF NoneFailed, Sound
    <2>2. UNCHANGED apiVars
      BY <1>11 DEF Dies
    <2> QED BY <1>1, <1>4, <2>1, <2>2 DEF NoneFailed
  <1> QED BY <1>6, <1>7, <1>8, <1>9, <1>10, <1>11
          DEF KubeletProcess, KubeletStep, NodeEvent, KubeletFault, MapFault, PullPanic, KubeletCrash

(* No step of the cluster makes a copy of a pod that has failed.           *)
LEMMA NoneFailedStep ==
  ASSUME NoneFails, UsersOnlyCreate, Inv, NoneFailed, [Next]_vars
  PROVE  NoneFailed'
  <1>1. CASE Users
    <2>1. PICK u \in UserSlots, c \in UserCalls : Issue(u, c)
      BY <1>1 DEF Users, UserCall
    <2>2. /\ UNCHANGED <<pods, known>> /\ u \in Requests
          /\ ~(c.kind = "pod" /\ c.verb = "PUT")
      BY <1>1 DEF Users, UserCall, storeVars, kubeVars, Requests, UsersOnlyCreate
    <2>3. /\ call'[u] = c /\ items'[u] = NoItems
          /\ \A q \in Requests \ {u} : call'[q] = call[q] /\ pc'[q] = pc[q] /\ items'[q] = items[q]
      BY <2>1, <2>2, Sent
    <2>4. \A p \in PodNames : Sound(NoItems[p])
      BY DEF NoItems, Sound
    <2>5. ASSUME NEW q \in Requests, NEW p \in PodNames PROVE Sound(items'[q][p])
      BY <2>3, <2>4 DEF NoneFailed
    <2>6. ASSUME NEW q \in Requests, pc'[q] # "idle", call'[q].kind = "pod", call'[q].verb = "PUT"
          PROVE  Sound(call'[q].body)
      BY <2>2, <2>3, <2>6 DEF NoneFailed
    <2> QED BY <2>2, <2>5, <2>6 DEF NoneFailed
  <1>2. ASSUME NEW r \in Requests, Server(r) PROVE NoneFailed'
    BY <1>2, ServeSound DEF Server
  <1>3. ASSUME SchedStep \/ SchedAbort \/ CtlStep \/ CtlCrash, UNCHANGED <<apiVars, kubeVars>> PROVE NoneFailed'
    <2>1. \A p \in PodNames : Sound(pods'[p])
      BY <1>3, LoopsSound
    <2>2. UNCHANGED <<call, pc, items, known>>
      BY <1>3 DEF apiVars, kubeVars
    <2> QED BY <2>1, <2>2 DEF NoneFailed
  <1>4. CASE SchedulerProcess
    BY <1>3, <1>4 DEF SchedulerProcess
  <1>5. CASE ControllerProcess
    BY <1>3, <1>5 DEF ControllerProcess
  <1>6. ASSUME NEW n \in NodeNames, KubeletProcess(n) \/ NodeEvent(n) PROVE NoneFailed'
    BY <1>6, KubeletSound
  <1>7. CASE Crash
    BY <1>3, <1>7 DEF Crash
  <1>8. CASE UNCHANGED vars
    BY <1>8 DEF vars, storeVars, apiVars, kubeVars, NoneFailed
  <1> QED BY <1>1, <1>2, <1>4, <1>5, <1>6, <1>7, <1>8 DEF Next
=============================================================================
