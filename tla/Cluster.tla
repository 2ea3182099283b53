------------------------------- MODULE Cluster -------------------------------
(***************************************************************************)
(* A whole gokube cluster: the API server with its users, the controller,  *)
(* the scheduler and one kubelet per node, as separate processes that      *)
(* share nothing but the objects in etcd (and, for the kubelets, the       *)
(* requests they have at the API server).                                  *)
(***************************************************************************)
EXTENDS Scheduler, ReplicaSetController, Kubelet

CONSTANTS
  MaxCrashes,  \* bound: how often the controller or a pass of the scheduler ends early
  Mortal       \* nodes whose kubelet may be ended from outside

ASSUME CrashAssumption == MaxCrashes \in Nat /\ Mortal \subseteq NodeNames

VARIABLE crashes  \* how often they did

vars == <<storeVars, apiVars, schedVars, ctlVars, kubeVars, crashes>>

Init ==
  /\ StoreInit /\ ApiInit /\ SchedInit /\ CtlInit /\ KubeInit
  /\ crashes = 0

Users == \E u \in UserSlots : UserCall(u) /\ UNCHANGED <<schedVars, ctlVars, kubeVars, crashes>>

Server(r) == Serve(r) /\ UNCHANGED <<schedVars, ctlVars, kubeVars, crashes>>

SchedulerProcess == SchedStep /\ UNCHANGED <<apiVars, ctlVars, kubeVars, crashes>>

ControllerProcess == CtlStep /\ UNCHANGED <<apiVars, schedVars, kubeVars, crashes>>

KubeletProcess(n) == KubeletStep(n) /\ UNCHANGED <<schedVars, ctlVars, crashes>>

NodeEvent(n) ==
  /\ KubeletFault(n) \/ ContainerExit(n) \/ (n \in Mortal /\ KubeletCrash(n))
  /\ UNCHANGED <<schedVars, ctlVars, crashes>>

(* The controller ends, or the scheduler abandons its pass, at any point.  *)
Crash ==
  /\ crashes < MaxCrashes
  /\ crashes' = crashes + 1
  /\ \/ SchedAbort /\ UNCHANGED <<apiVars, ctlVars, kubeVars>>
     \/ CtlCrash /\ UNCHANGED <<apiVars, schedVars, kubeVars>>

Next ==
  \/ Users
  \/ \E r \in Requests : Server(r)
  \/ SchedulerProcess
  \/ ControllerProcess
  \/ \E n \in NodeNames : KubeletProcess(n) \/ NodeEvent(n)
  \/ Crash

Spec == Init /\ [][Next]_vars

(* Every process keeps running its loop: the handlers, the scheduler, the  *)
(* controller and the kubelets.  The random suffix of a new pod name does  *)
(* not collide for ever.                                                   *)
FreshName == ReconcileCreateGet /\ cpc' = "put" /\ UNCHANGED <<apiVars, schedVars, kubeVars, crashes>>

FairSpec ==
  /\ Spec
  /\ \A r \in Requests : SF_vars(Server(r))
  /\ WF_vars(SchedulerProcess)
  /\ WF_vars(ControllerProcess)
  /\ SF_vars(FreshName)
  /\ \A n \in NodeNames :
       /\ WF_vars(KubeletStart(n) /\ UNCHANGED <<schedVars, ctlVars, crashes>>)
       /\ WF_vars((KubeletRegistered(n) \/ KubeletPoll(n) \/ RunNewPods(n)) /\ UNCHANGED <<schedVars, ctlVars, crashes>>)
       /\ WF_vars((StatusTick(n) \/ UpdatePodStatus(n) \/ StatusAnswered(n)) /\ UNCHANGED <<schedVars, ctlVars, crashes>>)
       /\ \A p \in PodNames :
            WF_vars((ContainerCreate(n, p) \/ ContainerStart(n, p)) /\ UNCHANGED <<schedVars, ctlVars, crashes>>)

-----------------------------------------------------------------------------
(* Type correctness of the whole cluster.                                  *)
TypeOK ==
  /\ StoreTypeOK /\ ApiTypeOK /\ SchedTypeOK /\ CtlTypeOK /\ KubeTypeOK
  /\ crashes \in 0..MaxCrashes

(***************************************************************************)
(* The binding of pods to nodes, for users that create pods and leave      *)
(* their binding and removal alone, with names that do not collide with    *)
(* generated ones, and an etcd that answers.                               *)
(***************************************************************************)
UsersOnlyCreate ==
  /\ UserPodNames \cap GeneratedNames = {}
  /\ Faults = {FALSE}
  /\ \A c \in UserCalls : c.kind = "pod" =>
       /\ c.verb \notin {"PUT", "DELETE"}
       /\ c.verb = "POST" /\ c.body # Absent =>
            /\ c.name \in UserPodNames
            /\ c.body.nodeName = NoNode
            /\ c.body.status \in {"", "Pending"}

(* A pod that has been bound to a node stays in the store and stays bound  *)
(* to that node, whatever stale copy of it the scheduler, the controller   *)
(* or a kubelet writes later.                                              *)
BindingStable ==
  [][\A p \in PodNames :
       pods[p] # Absent /\ pods[p].nodeName # NoNode =>
         pods'[p] # Absent /\ pods'[p].nodeName = pods[p].nodeName]_pods

(* The containers of a pod are all on one node: no two kubelets ever start *)
(* the same pod.                                                           *)
OnOneNode ==
  \A n, m \in NodeNames : \A c \in docker[n], d \in docker[m] : c.pod = d.pod => n = m

(* No container of a pod is created twice, although kubelets end and start *)
(* again with an empty memory.                                             *)
StartedOnce ==
  \A n \in NodeNames : \A c, d \in docker[n] : c.pod = d.pod /\ c.at = d.at => c = d

(***************************************************************************)
(* Why StartedOnce holds, for users that do not remove nodes and an etcd   *)
(* that answers: of all the starts of a kubelet only the first to register *)
(* gets past registerNode, since the node it made stays.  So while a       *)
(* kubelet is up, every container of its node is its own, and a kubelet    *)
(* that finds containers there is not answered 201.                        *)
(***************************************************************************)
NodesStay ==
  /\ Faults = {FALSE}
  /\ \A c \in UserCalls : c.kind = "node" => c.verb # "DELETE"

(* Node n has been registered by its kubelet at most once.                 *)
RegisteredOn(n) ==
  /\ kpc[n] = "up" \/ docker[n] # {} => Exists(nodes, n)
  /\ kpc[n] = "up" => \A c \in docker[n] : c.start = starts[n]
  /\ kpc[n] # "up" => \A p \in PodNames : running[n][p] = 0
  /\ kpc[n] = "registering" =>
       /\ pc[WatchSlot(n)] # "idle" /\ call[WatchSlot(n)] = RegisterCall(n)
       /\ resp[WatchSlot(n)] = <<201>> => Exists(nodes, n)
       /\ docker[n] # {} => pc[WatchSlot(n)] # "checked" /\ resp[WatchSlot(n)] # <<201>>

(* No kubelet that comes back gets past registerNode a second time, and    *)
(* the containers of a node are those of the one start that did.           *)
RegisteredOnce == \A n \in NodeNames : RegisteredOn(n)

(* A pod is pending as long as it has no node, and no longer.              *)
PendingUnbound ==
  \A p \in PodNames : Exists(pods, p) => (pods[p].status = "Pending" <=> pods[p].nodeName = NoNode)

(* What the scheduler is about to write over is what it listed.            *)
ListedIsCurrent ==
  \A p \in queue : Exists(pods, p) /\ pods[p] = listed[p] /\ pods[p].status = "Pending"

(* Whoever is about to create a pod found its name free, and it still is:  *)
(* the API server by its mutex, the controller because only it makes       *)
(* generated names.                                                        *)
NewNameFree ==
  /\ \A r \in Requests : pc[r] = "checked" /\ call[r].kind = "pod" =>
       podMutex = r /\ call[r].verb = "POST" /\ ~Exists(pods, call[r].name)
  /\ cpc = "put" => newPod \in GeneratedNames /\ ~Exists(pods, newPod)

(* pod, a copy of p, carries the binding of p to n.                        *)
Held(n, p, pod) ==
  /\ pod # Absent /\ pod.nodeName = n /\ pod.status # "Pending"
  /\ Exists(pods, p) /\ pods[p].nodeName = n

(* Every copy of a pod on its way to or from a kubelet, in its map, and    *)
(* every container, belongs to a pod bound to that kubelet's node.         *)
CopiesHeld ==
  \A n \in NodeNames :
    /\ \A p \in PodNames :
         /\ known[n][p] # Absent => Held(n, p, known[n][p])
         /\ items[WatchSlot(n)][p] # Absent => Held(n, p, items[WatchSlot(n)][p])
         /\ running[n][p] > 0 => known[n][p] # Absent
    /\ sweep[n] \subseteq ListKeys(known[n])
    /\ \A c \in docker[n] : Exists(pods, c.pod) /\ pods[c.pod].nodeName = n

(* The calls in progress are the ones the users and the kubelets make.     *)
CallsExpected ==
  /\ \A u \in UserSlots : pc[u] # "idle" => call[u] \in UserCalls
  /\ \A n \in NodeNames :
       /\ pc[WatchSlot(n)] # "idle" => call[WatchSlot(n)] \in {RegisterCall(n), PollCall(n)}
       /\ pc[StatusSlot(n)] # "idle" =>
            \E p \in PodNames, pod \in Pod :
              call[StatusSlot(n)] = StatusCall(p, pod) /\ Held(n, p, pod)

(* The inductive invariant behind BindingStable and OnOneNode.             *)
BindingInv ==
  PendingUnbound /\ ListedIsCurrent /\ NewNameFree /\ CopiesHeld /\ CallsExpected

(***************************************************************************)
(* The way of a pod through the cluster, for the same users.               *)
(***************************************************************************)
Lifecycle == INSTANCE PodLifecycle WITH Names <- PodNames, Nodes <- NodeNames

(* Users, scheduler, controller and kubelets all write whole pods, from    *)
(* copies that may be old, and together they still take every pod through  *)
(* one life: created once, bound once, then reported on, its containers    *)
(* never changed.                                                          *)
PodsFollowLifecycle == Lifecycle!Spec

(* pod, a copy of p if it is one, has the containers of p.                 *)
SameSpec(p, pod) == pod # Absent => pod.spec = pods[p].spec

(* What has to be added to BindingInv for it: the copies a kubelet has,    *)
(* and the one in its PUT, differ from the stored pod in their status      *)
(* only.                                                                   *)
CopiesAlike ==
  \A n \in NodeNames :
    /\ \A p \in PodNames : SameSpec(p, known[n][p]) /\ SameSpec(p, items[WatchSlot(n)][p])
    /\ pc[StatusSlot(n)] # "idle" =>
         /\ SameSpec(call[StatusSlot(n)].name, call[StatusSlot(n)].body)
         /\ call[StatusSlot(n)].body.status \in Lifecycle!Reported

(* The API server knows the status of a pod that its kubelet has in        *)
(* memory, unless the PUT that reports it is on its way: the kubelet sends *)
(* a status once, when it changes, and never again.                        *)
ReportedStatus ==
  \A n \in NodeNames : \A p \in ListKeys(known[n]) :
    \/ pc[StatusSlot(n)] \notin {"idle", "done"} /\ call[StatusSlot(n)].name = p
    \/ Exists(pods, p) /\ pods[p].status = known[n][p].status

(* The scheduler binds valid pods only.                                    *)
BoundValid ==
  \A p \in PodNames : Exists(pods, p) /\ pods[p].nodeName # NoNode => Validate(pods[p])

(* The PUT of n's kubelet for p is on its way.                             *)
Reporting(n, p) == pc[StatusSlot(n)] \notin {"idle", "done"} /\ call[StatusSlot(n)].name = p

(* What the kubelet of n has of p, in its map or in the answer to a poll.  *)
CopyCurrent(n, p) ==
  /\ kpc[n] # "up" => known[n][p] = Absent
  /\ known[n][p] # Absent => Validate(known[n][p]) /\ (Reporting(n, p) \/ pods[p] = known[n][p])
  /\ kpc[n] = "up" /\ known[n][p] = Absent /\ items[WatchSlot(n)][p] # Absent =>
       items[WatchSlot(n)][p] = pods[p]

ReportOn(n) ==
  /\ kpc[n] = "registering" => pc[StatusSlot(n)] = "idle"
  /\ kpc[n] = "up" /\ pc[StatusSlot(n)] # "idle" =>
       known[n][call[StatusSlot(n)].name] = call[StatusSlot(n)].body
  /\ \A p \in PodNames : CopyCurrent(n, p)

(* The inductive invariant behind ReportedStatus, for users that only      *)
(* create pods and requests that arrive: only the kubelet of its node      *)
(* writes a bound pod, so its map is what is stored, but for the pod whose *)
(* PUT is on its way.                                                      *)
ReportsCurrent == BoundValid /\ \A n \in NodeNames : ReportOn(n)

-----------------------------------------------------------------------------
(* The pods a ReplicaSet asks for: the controller makes one for every      *)
(* container of the template and every replica.                            *)
Asks(replicaset) == replicaset.replicas * Len(ContainersOf(replicaset.template))

(* The pods the users ever ask for with a ReplicaSet.                      *)
PodsAsked(rs) ==
  Max({0} \cup {Asks(c.body) :
                 c \in {d \in UserCalls : d.kind = "replicaset" /\ d.body # Absent /\ d.name = rs}})

(* A ReplicaSet never has more active pods than were ever asked for,       *)
(* although the controller decides on a list of pods and on a ReplicaSet   *)
(* that are old by the time it creates them, and may end half way.         *)
NeverTooMany ==
  \A rs \in RSNames : Cardinality(ActivePods(rs)) <= PodsAsked(rs)

(***************************************************************************)
(* Why NeverTooMany holds, for users as in UsersOnlyCreate who ask for a   *)
(* bounded number of pods, names by which a pod belongs to the ReplicaSet  *)
(* it was made for and to no other, and as long as no failed pod comes     *)
(* back: only the controller adds pods, and it has counted them.           *)
(***************************************************************************)
PodsBelong ==
  /\ UsersOnlyCreate
  /\ RSNames \subseteq Seq(Nat)
  /\ \A p \in UserPodNames, rs \in RSNames : ~IsOwnedBy(p, rs)
  /\ \A rs, other \in RSNames, s \in RandomSuffixes :
       IsOwnedBy(GenerateName(other, s), rs) => other = rs
  /\ \E bound \in Nat : \A c \in UserCalls :
       c.kind = "replicaset" /\ c.body # Absent => Asks(c.body) <= bound

(* A pod that has failed stays failed.                                     *)
FailedKept ==
  \A p \in PodNames :
    pods[p] # Absent /\ pods[p].status = "Failed" => pods'[p] # Absent /\ pods'[p].status = "Failed"

FailedStays == [][FailedKept]_pods

(* The pods the controller has still to create in this Reconcile.          *)
ToCreate(rs) ==
  IF cpc \in {"create", "put"} /\ InWork(rs) THEN missing * Len(Template) - (at - 1) ELSE 0

(* The pods of rs, with those to come, are no more than were asked for; no *)
(* copy of rs asks for more; and the pod about to be created is of the     *)
(* ReplicaSet in work.                                                     *)
PlanWithin(rs) ==
  /\ Cardinality(ActivePods(rs)) + ToCreate(rs) <= PodsAsked(rs)
  /\ Exists(replicasets, rs) => Asks(replicasets[rs]) <= PodsAsked(rs)
  /\ cpc \notin {"idle", "get", "down"} /\ InWork(rs) => Asks(cur) <= PodsAsked(rs)
  /\ cpc = "put" /\ IsOwnedBy(newPod, rs) => InWork(rs)

(* The inductive invariant behind NeverTooMany: what the controller plans  *)
(* to create, on a count that may be old, never exceeds what is missing.   *)
PlansWithin == \A rs \in RSNames : PlanWithin(rs)

(* UpdatePod updates a pod that exists, whoever calls it: neither the      *)
(* scheduler nor the handler of a PUT brings a pod back that was deleted   *)
(* since they looked.                                                      *)
UpdatedPodExists ==
  [][SchedAssign \/ (\E r \in Requests : PodUpdate(r)) =>
       \A p \in PodNames : pods'[p] # pods[p] => Exists(pods, p)]_<<pods, spc, queue, pc>>

(* The containers of a pod that is reported as succeeded have all ended    *)
(* with exit code 0.                                                       *)
SucceededMeansEnded ==
  \A n \in NodeNames : \A c \in docker[n] :
    Exists(pods, c.pod) /\ pods[c.pod].status = "Succeeded" => c.state = "exited" /\ c.exitCode = 0

(* A ReplicaSet has its pods, bound to a node and reported on, in the way  *)
(* the end-to-end test waits for them.                                     *)
Deployed(rs) ==
  /\ Exists(replicasets, rs)
  /\ Cardinality({p \in ActivePods(rs) : pods[p].status \in {"Running", "Succeeded"}})
       >= replicasets[rs].replicas

(* Every ReplicaSet that is not removed is deployed in the end, and again  *)
(* after whatever changed it.                                              *)
EventuallyDeployed ==
  \A rs \in RSNames : []<>(Exists(replicasets, rs) => Deployed(rs))

(* Every pod that stays bound to a node has its containers created there   *)
(* in the end.                                                             *)
EventuallyStarted ==
  \A p \in PodNames, n \in NodeNames :
    []<>(Exists(pods, p) /\ pods[p].nodeName = n => \E c \in docker[n] : c.pod = p)
=============================================================================
