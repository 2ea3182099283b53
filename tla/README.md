# A TLA+ model of gokube

gokube is a small Kubernetes: an API server over etcd, a scheduler, a ReplicaSet
controller and kubelets that run containers with Docker, and a list-and-watch client
for etcd. This directory models the processes and what they share, checks the models
with TLC on small instances and proves the main results with TLAPS for every value of
the constants.

`PROJECT.json` maps every definition to the lines it models and lists the runs, the
mutants, the findings, the hazards and the theorems.

## The system

| Part | Source | State | Operations |
|---|---|---|---|
| API objects, names | `pkg/api`, `pkg/registry/names` | – | validation, activity, ownership by name prefix, generated names |
| etcd storage | `pkg/storage` | the objects; a goroutine per watch | Create, Get, Update, Delete, List, Watch |
| Registries | `pkg/registry` | a mutex each for pods and ReplicaSets | create, get, update, delete, list |
| API server | `pkg/api/handlers`, `pkg/api/server`, `cmd/apiserver` | requests in progress | one handler per route |
| Scheduler | `pkg/scheduler` | pods and nodes as listed | one pass per tick |
| ReplicaSet controller | `pkg/controller` | the ReplicaSet as read, the pods still to create | one reconciliation per ReplicaSet and tick |
| Kubelet | `pkg/kubelet` | `k.pods`, goroutines, Docker containers | register, watch, run, report |
| ListWatch, retry | `pkg/listwatch`, `pkg/retry` | client, two channels, goroutines | list, watch, forward, reconnect, clean up |

**How they interact.** The scheduler and the controller are processes of their own
that open etcd directly, with registries of their own; a registry's mutex therefore
excludes only requests inside one process. The API server's handlers run one
goroutine per request. Kubelets use HTTP only. So the one thing all share is etcd,
and every read is old by the time a write depends on it. `process-compose.yml`
restarts a process that ends. ListWatch is a library that no process of the cluster
uses yet; `Storage.Watch` is the other way to watch. Both are modelled over etcd's
sequence of changes, apart from the cluster.

**What is hard.** Three writers put *whole* objects back that they read some requests
ago (scheduler, controller, kubelet). Updates of pods and nodes are unconditional
Puts. The controller ends on any error, half way through creating pods. A kubelet
keeps its pods in memory only, writes that map while another goroutine ranges over
it, and looks containers up under a name they do not have. ListWatch reads etcd's
revision after the list, passes events through two bounded channels, leaves a closed
client set, and closes a channel that a monitor goroutine may be about to send to.
The hazards in `PROJECT.json` name the line of each.

## The modules

```
GokubeObjects            objects, names, predicates
  EtcdStorage            the shared store
    ApiServer            handlers and registries   --implements--> AtomicRegistry
      Kubelet            (with PodPhase)
    Scheduler
    ReplicaSetController
  Cluster                all of them together      --implements--> PodLifecycle
EtcdWatch                etcd's changes, as watchers see them
  ListWatch              ListAndWatch and its goroutines
  StorageWatch           Storage.Watch             --implements--> EventStream
MCApiServer, MCCluster, MCWatch                    instances for TLC

ApiServerProofs          types, checks, mutexes, registry refinement
  ClusterLemmas          types, registrations and containers, action by action
    BindingProofs        bindings: handlers, scheduler, controller, kubelets
      KubeletProofs      status reports, the life of a pod
      ReplicaProofs      the pods of a ReplicaSet, counted
        ClusterProofs    the theorems about the cluster (extends both), names
WatchProofs              types, clients, watches, refinement of EventStream, order of delivery
  ListWatchDelivery      completeness of delivery
```

An action is the code of a process up to and including its next etcd request (or, in
the watch modules, its next point where it can block), so processes interleave
exactly where the code lets them.

* **GokubeObjects.** A name is a sequence of numbers: the code only asks whether one
  name is a prefix of another and how keys sort. A generated name is the base, cut to
  `MaxGeneratedNameLength`, and a suffix. A pod spec is the sequence of its
  containers, or `NilSpec` when the list is missing, which `Validate` tells apart.
* **EtcdStorage.** `pods`, `nodes`, `replicasets` map names to objects or `Absent`.
  `Create` and `Update` are the same Put. With `Faults = BOOLEAN` a request may fail,
  and a failed write may have happened.
* **ApiServer.** `pc[r]` is how far request `r` got: `start`, `loaded` (the route's
  filter found the object), `checked` (the registry looked it up, holding its mutex),
  `done`. `resp` is the sequence of status codes written: a conflict on `POST /pods`
  writes 409 and then 201, because that case of the handler does not return.
  A mutex only shows up as state for the two operations that make two etcd requests.
* **AtomicRegistry** is the promise: a request takes effect at one instant and its
  status code is true of that instant.
* **Scheduler.** `SchedListPods`, `SchedListNodes`, `SchedAssign` are the requests of
  one pass; `SchedAbort` is a failed request or the end of the process.
* **ReplicaSetController.** `CtlList` (Run), `ReconcileGet` to `ReconcileUpdatePut`;
  `Fatal` is `log.Fatalf`, `CtlCrash` an end from outside or by a failed request.
* **Kubelet.** Per node: `known` is `k.pods`, `running` the pod goroutines with the
  container each is at, `sweep` the pods the status loop still has to visit, `docker`
  the containers. A kubelet has two requests at the API server, one per goroutine;
  `Returns` is `http.Client` coming back, with the answer or, with `TransportFaults`,
  with an error because the request never arrived. `MapFault` is the runtime ending
  the process for the unlocked map, `PullPanic` the panic in `StartContainer`. Docker
  is external. What an inspection by spec name finds is nothing, or a container that
  somebody else made (`ForeignStates`). A kubelet that is started again waits until
  the requests of its predecessor are answered; that only bounds their number.
* **PodPhase** is `determinePodStatus`.
* **PodLifecycle** is what users, scheduler, controller and kubelets promise together
  about the stored pods: a pod is created Pending and unbound, bound once, and from then
  on only its status changes. No one place in the code says so; it is what remains of
  all their writes of whole pods.
* **EtcdWatch** (external) is etcd as a watcher sees it: `history`, one change per
  revision, and what a Get of the prefix returns.
* **ListWatch** is one call of `ListAndWatch`. `loop` is where `runListWatchLoop` is;
  `watches` has a record per call of `Watch`: etcd's stream, the goroutine that copies
  it into the inner channel, that channel, and the monitor goroutine. `ch` is the
  channel the consumer reads, `etcdCli` the client field, which `watchCancel` leaves
  `closed` but set. `WithRetries` is the three attempts to send an error event; the
  ones before the last found the channel full and changed nothing. `listed` and
  `since` remember the two revisions of a round, which the code does not keep. Timers
  may fire at any time. A nil logger (`HasLogger = FALSE`) panics where it is called.
* **StorageWatch** is `EtcdStorage.Watch`: `handleWatchEvents` and
  `processWatchResponse` with the unbuffered channel to the receiver.
* **EventStream** is the promise of a watch: every change once, in order, with its
  kind; after a cancel changes may be left out, after the close nothing comes.

## What TLC checks

Passing runs:

| Run | Instance | Properties |
|---|---|---|
| `registries` | 2 users, every call on pods and ReplicaSets, good, invalid and nil specs | `ApiServerTypeOK`, `CheckStillTrue`, `PodRegistryAtomic`, `ReplicaSetRegistryAtomic` |
| `api_faults` | 2 users, every call on nodes, every writing call and list on the others, etcd may fail | `ApiServerTypeOK`, `MutexesHeldInside`, `EveryRequestAnswered` |
| `cluster_binding` | 2 nodes (symmetric), 1 pod, kubelets end and start again, requests get lost | `TypeOK`, `BindingInv`, `OnOneNode`, `RegisteredOnce`, `StartedOnce`, `BindingStable`, `PodsFollowLifecycle` |
| `cluster_reports` | 1 node, a pod with a container and one without, Docker may refuse, a foreign container that runs or has failed | `ReportsCurrent`, `ReportedStatus` |
| `cluster_replicas` | ReplicaSet of up to 2 replicas or 2 containers, scaled, deleted, recreated; scheduler; 2 ends of a process | `NeverTooMany`, `PlansWithin` |
| `cluster_progress` | ReplicaSet of 1, whole cluster, 1 end, fairness | `NeverTooMany`, `PodsFollowLifecycle`, `EventuallyDeployed`, `EventuallyStarted` |
| `watch` | 1 key, 2 changes, 1 failure of etcd, channels of capacity 1, consumer may stop, cancel at any time | `ListWatchTypeOK`, `StorageWatchTypeOK`, `ClientsClosed`, `HealthyWatchKept`, `KnownOnceSeen`, `InOrder`, `StopReturns`, `Reconnects`, `ChangesArrive`, `LeaksOnlyWhenFull`, `WatchStreams`, `CancelCloses` |

**Why the bounds are enough.** The registry properties concern a request between its
two etcd requests and what another does meanwhile: two requests on one name show it.
Two nodes are what `OnOneNode` needs; two starts show what a kubelet with an empty
memory does; two pods let the status loop, the watch and the map race meet, and one of
them needs no container to be created, so that both ways through the pod goroutine
occur while the other pod is under way. A foreign container, running or failed, gives
every phase; it is left to `cluster_reports`, since bindings do not depend on phases. Two
replicas let the controller end between the first and the second pod, twice. In
`watch`, one key is enough because events of different keys share nothing but the
order of the channels, and safety is proved for any number of keys; two changes are a
create and an update or a delete; one failure ends a round at any point and lets a
second watch run while goroutines of the first are left; capacity one makes every
channel full after one event.

What the cluster runs assume, besides bounds:

* `cluster_binding`, `cluster_reports`: users create pods and leave them alone, etcd
  answers. When a user deletes a pod, the scheduler or a late status PUT may bring it
  back (see the findings), so neither property can hold then.
* `NeverTooMany`: the same, and no foreign containers, so no pod becomes Failed. A
  Failed pod is replaced and may be reported Running later, which is one pod too many.
  `PodsAsked` counts a pod per container of the template, as `Reconcile` does.
  The kubelet is part of this check only in `cluster_progress`: with two replicas
  and a kubelet there are more than ten million states.
* `ReportedStatus`: a status PUT that fails is never sent again. The run shows
  that nothing else makes the two disagree.
* `EventuallyStarted`: the kubelet is not ended. One that ended can not register again:
  its node exists, `registerNode` insists on 201, and the node keeps getting pods.
* `KnownOnceSeen` promises a key nothing whose change fell between the list and the
  revision lookup, or that was deleted while no watch ran (see the findings).
* `LeaksOnlyWhenFull` has the exception the code has: a goroutine of a watch that the
  loop has left stays for ever when the inner channel is full.

**Fairness.** Handlers have strong fairness, since a Go mutex does not starve a waiter.
Scheduler, controller and each goroutine of a kubelet have weak fairness: they are loops
over a ticker or a sleep. A fresh name is drawn again and again in the end
(`SF(FreshName)`): five random characters do not collide for ever. In the watch
modules every goroutine, and a consumer that reads, has weak fairness. `backoffStops`
has strong fairness: when the timer and the end of the context are both ready, Go's
select picks at random, and the loop meets that select in every round.

A liveness property "once P, in the end Q" is written `[]<>(P => Q)` where P, once
true, stays true until Q: the two forms then say the same, and TLC decides this one
without a tableau, several times faster.

**Deadlock** is checked in every run but `watch` and the two runs of ListWatch alone:
there everything may rightly stop, once the loop has been cancelled and the bounded
number of changes has been made.

### Where the code differs from what it says

Each of these runs ends in a violation of one property:

| Run | Shows |
|---|---|
| `create_overwrites` | `CreatePod` overwrites a pod when its lookup fails |
| `deleted_pod_updated` | the scheduler stores a deleted pod again; a `PUT /pods/{name}` can do the same |
| `succeeded_running` | a pod is reported Succeeded while its container runs |
| `events_missed` | a change between the list and the watch of `ListAndWatch` never reaches the consumer |
| `send_on_closed` | the monitor goroutine sends on the closed event channel, which ends the process |

## What is proved

| Theorem | Statement | Assumption |
|---|---|---|
| `ApiServerProofs!ApiServerTypes` | `ApiSpec => []ApiServerTypeOK` | – |
| `ApiServerProofs!ChecksHold` | `ApiSpec => []CheckStillTrue` | `Faults = {FALSE}` |
| `ApiServerProofs!PodRegistryRefined` | `ApiSpec => PodRegistryAtomic` | `Faults = {FALSE}` |
| `ApiServerProofs!ReplicaSetRegistryRefined` | `ApiSpec => ReplicaSetRegistryAtomic` | `Faults = {FALSE}` |
| `ApiServerProofs!MutexesAreReleased` | `ApiSpec => []MutexesHeldInside` | – |
| `ClusterProofs!ClusterTypes` | `Spec => []TypeOK` | – |
| `ClusterProofs!BindingHolds` | `Spec => []BindingInv` | `UsersOnlyCreate` |
| `ClusterProofs!PodsOnOneNode` | `Spec => []OnOneNode` | `UsersOnlyCreate` |
| `ClusterProofs!BindingsAreStable` | `Spec => BindingStable` | `UsersOnlyCreate` |
| `ClusterProofs!PodsLiveOneLife` | `Spec => PodsFollowLifecycle` | `UsersOnlyCreate` |
| `ClusterProofs!KubeletsRegisterOnce` | `Spec => []RegisteredOnce` | `NodesStay` |
| `ClusterProofs!ContainersStartedOnce` | `Spec => []StartedOnce` | `NodesStay` |
| `ClusterProofs!ReportsHold` | `Spec => []ReportsCurrent` | `ReportsArrive` |
| `ClusterProofs!StatusReported` | `Spec => []ReportedStatus` | `ReportsArrive` |
| `ClusterProofs!PlansHold` | `Spec /\ FailedStays => []PlansWithin` | `PodsBelong` |
| `ClusterProofs!PodsNeverTooMany` | `Spec /\ FailedStays => []NeverTooMany` | `PodsBelong` |
| `ClusterProofs!NeverTooManyWithoutFailures` | `Spec => []NeverTooMany` | `PodsBelong`, `NoneFails` |
| `ClusterProofs!NamesKeptApart` | `PodsBelong`, and each generated pod has its own ReplicaSet for owner | `UsersOnlyCreate`, ReplicaSet names that are not cut and none a prefix of another, users' pods named apart, bounded requests |
| `ClusterProofs!CutNamesAreLost` | `~IsOwnedBy(GenerateName(rs, s), rs)` | `Len(rs) > MaxGeneratedNameLength + 1` |
| `WatchProofs!StorageWatchTypes` | `StorageWatchSpec => []StorageWatchTypeOK` | – |
| `WatchProofs!ListWatchTypes` | `ListWatchSpec => []ListWatchTypeOK` | – |
| `WatchProofs!ClientsAreClosed` | `ListWatchSpec => []ClientsClosed` | – |
| `WatchProofs!WatchesAreKept` | `ListWatchSpec => []HealthyWatchKept` | – |
| `WatchProofs!StorageWatchImplementsEventStream` | `StorageWatchSpec => WatchStreams` | – |
| `WatchProofs!ReceivedInOrder` | `ListWatchSpec => InOrder` | – |
| `ListWatchDelivery!SeenIsKnown` | `ListWatchSpec => []KnownOnceSeen` | – |

All of them also use the assumptions on constants (`ObjectsAssumption`,
`FaultsAssumption`, `UserAssumption`, `KubeletAssumption`, `CrashAssumption`,
`WatchAssumption`, `ListWatchAssumption`), which only say that `Absent` and `NoNode` are
no objects, that keys and bounds are numbers and that channels have room for one event;
TLC evaluates them in the runs of their modules. `UsersOnlyCreate` says that users POST
unbound pods, under names the controller does not generate, never PUT or DELETE pods,
and that etcd answers. `NodesStay` says that users do not DELETE nodes and etcd answers.
`ReportsArrive` is `UsersOnlyCreate` and that a kubelet's request reaches the API
server: `UpdatePodStatus` does not send a lost report again. `PodsBelong` is
`UsersOnlyCreate`, that users ask for a bounded number of pods, and that names keep
ReplicaSets apart: no pod of a user has the name of a ReplicaSet as a prefix, and a
generated name has only the one it was made from. `NoneFails` says that no container an
inspection finds has a nonzero exit code. The instances of the runs satisfy what is
assumed of their properties.

**The registry argument.** `CreatePod`, and `Create` and `Update` of ReplicaSets, look
before they write. `CheckStillTrue` says that what they found is still true when they
write, because they hold the mutex and every other writer of the process needs it. So
the instant a request takes effect is the step that answers it: a create that answers
201 finds its key free, an update of a ReplicaSet finds it taken. The steps before
that one are stutters of `AtomicRegistry`, and the handlers of other kinds are not
seen at all. An etcd that answers is needed because `CreatePod` takes a failed lookup
for absence; `create_overwrites` shows what happens otherwise.

**The mutex argument.** That exactly one request is inside holds with failures too. The
invariant `MutexesHeldInside` is an equivalence: who is between lookup and write holds
the mutex, and who holds it is there. The one direction needs every entry to take a free
mutex, the other every exit, an error of etcd included, to give it back.

**The binding argument.** That a bound pod keeps its node is not inductive: the scheduler,
the controller, the kubelets and their requests all hold copies that they will write.
`BindingInv` says what each copy is worth:

* `PendingUnbound`: in the store, Pending means no node, and conversely;
* `ListedIsCurrent`: what the scheduler still has to write is unchanged since it was
  listed. Only the scheduler takes a pod out of Pending, since a kubelet only ever
  gets bound pods;
* `NewNameFree`: whoever is about to create a pod does so under a free name, the API
  server by its mutex, the controller because nobody else generates names;
* `CopiesHeld`: each copy in a kubelet's map or poll, and each container, is of a pod
  bound to that kubelet's node;
* `CallsExpected`: each request in progress is one its sender makes, and a status PUT
  carries the binding the pod has.

The proof takes the five conjuncts through every action that can disturb them. `OnOneNode`
follows from `CopiesHeld`: a pod has one `nodeName`.

**The lifecycle argument.** `PodsFollowLifecycle` says of every write what `BindingStable`
says of the node: nothing but the intended field changes. A create is a create because
its name is free (`NewNameFree`), a bind is a bind because the scheduler's copy is the
stored pod (`ListedIsCurrent`). A status PUT is the one whose copy `BindingInv` knows too
little about: it carries the right node, but its containers are those the kubelet was
once given. `CopiesAlike` adds that every copy on its way to such a PUT (the answer to a
poll, `k.pods`, the request's body) has the containers of the stored pod, and that the
status in it is one a kubelet reports. Nobody changes the containers of a stored pod, so
the copies stay alike; every other action is a stutter of `PodLifecycle`. The
assumption matters: a user's PUT may change the containers, and a kubelet's next report
would then change them back.

**The registration argument.** A kubelet that comes back has forgotten its pods, so
that no container is created twice is a fact about registration: the node the first
start made stays, a POST for it is answered 409, and a start without a 201 runs
nothing. `RegisteredOnce` says this with the states in between (a POST past its
check, an answer not yet read); `StartedOnce` is inductive together with it.

**The report argument.** `ReportedStatus` compares a kubelet's copy with the store and
says nothing about who else may write in between. `ReportsCurrent` does: bound pods in
the store are valid, so no PUT is refused, and what a kubelet's map has of a pod is what
is stored, unless its status loop has just changed that pod; then the changed copy is
in the PUT in progress. It needs `BindingInv`: the scheduler writes unbound pods only,
the controller and the users free names only, so of all processes only the kubelet of
its node writes a bound pod.

**The counting argument.** `NeverTooMany` is not inductive, since the controller counts
once and creates many. `PlansWithin` counts the pods still to create as well: the active
pods of a ReplicaSet, plus `missing` times the containers of the template less those
already made, are at most `PodsAsked`; and no copy of the ReplicaSet, stored or in work,
asks for more. Creating a pod moves one from the second number to the first, a crash
sets the second to zero, and nobody else adds pods that belong to a ReplicaSet. The
step that counts is right because of `BindingInv`: the name about to be created is free,
and the writes of the scheduler and the kubelets are to pods that exist. They may still
turn a Failed pod, which does not count, into one that does: after its replacement was
made that is one too many. `determinePodStatus` does so when a foreign container under
the spec's name runs again, so the theorem needs `FailedStays`, that a failed pod stays
failed. With `NoneFails` it is proved rather than assumed: no copy of a pod anywhere
says Failed. The facts about cardinalities and maxima are collected in `Counting`,
proved from `FiniteSetTheorems` in `ClusterProofs` and used in `ReplicaProofs`.

**The names.** `PodsBelong` is what the count needs of names; `NamesKeptApart` reduces
it to what one can read off the names themselves. A generated name is the ReplicaSet's
and a suffix as long as it is not cut; two ReplicaSet names that both begin it are then
prefixes of one another, hence equal. Without these conditions the count is off in both
directions: with a prefix, pods of one ReplicaSet count for another, and a name longer
than every generated name never owns its pods (`CutNamesAreLost`), so that `Reconcile`
creates all of them again at every tick.

**The watch arguments.** `ClientsClosed` needs the relation between `etcdCli`,
`clients` and the place of the loop: one client is open exactly when the field says
so, and a loop about to stop goes through `closeEtcdClient`. For `HealthyWatchKept` the
invariant says that while the loop forwards from an open stream there was a failure for
every watch but this one, and otherwise one for every watch: only a failure of etcd, or
the end of the context, after which no watch follows, takes the loop out of a round
whose stream is open, because events made from changes pass `validate`. For `StorageWatch` the
invariant is that the next response is one past the last event handed over as long
as there was no cancel. For `InOrder` the invariant puts everything on its way to the
consumer into one pipeline: what the consumer has, the event channel, the listed
events not sent yet or the event being sent, the inner channel, the stream. Along it,
revisions of a key never fall; a new list starts at or after everything before it,
because it shows the newest revision of each key, and a goroutine of an older watch
is not part of the pipeline any more, since nobody reads its channel.

`KnownOnceSeen` is about the newest event of each key in that pipeline. On top of the
order, `PipelineComplete` says that every change the list has shown has reached the
event channel or the consumer, or is still among the listed events to send, and that
every change since the watch began which the stream is past has reached them too, or is
the event in hand or in the inner channel. By the order, the newest event of a key then
is its last change. That a bounded set of revisions has a largest element, which
`LastFor` needs, is proved from the well-founded order on the numbers. The invariant was
model-checked on the instance of `watch` before it was proved.

**How the proofs are run.** `tlapm M.tla` for each of the eight proof modules takes
between three and ten minutes on one core. A leaf is tried with Zenon and then with the
SMT solver; where Zenon does not get to an end, the leaf names the solver (`SMTT(60)`).

**Only model-checked:** the liveness properties (`EveryRequestAnswered`,
`EventuallyDeployed`, `EventuallyStarted`, `StopReturns`, `Reconnects`, `ChangesArrive`,
`LeaksOnlyWhenFull`, `CancelCloses`). Every invariant and action property of a passing
run has a theorem.
Liveness under fairness, anything about `ENABLED`, and what a recursive definition
computes for every input are beyond the prover and stay with TLC; no module has a
RECURSIVE operator.

## What is not modelled

* The restart of the API server. Its etcd lives in a temporary directory and loses all
  objects, after which none of the properties here can hold: the scheduler may write a
  pod back that it listed before, next to the ones the controller creates anew.
* `DeletePrefix`, `CleanupContainers`, `ListContainers`: called by tests only.
* Metrics, logging, `healthz`, JSON encoding (`pkg/runtime`), the storage mock, the
  example programs: no control that a property could be about.
* How long anything takes: ticks, backoff delays, timeouts and retry intervals are
  nondeterministic in their order and not measured.

## Plan

1. *(done)* objects, store, API server with its abstract registry, scheduler,
   controller, kubelet, cluster; types, checks and binding proved.
2. *(done)* watching: `StorageWatch` and `ListWatch` with `retry`, the abstract event
   stream; transport errors of kubelets; templates with two containers; refinement of
   the registries, single registration, single start and order of delivery proved.
3. *(done)* status reports, completeness of delivery and the number of pods proved.
4. *(done)* the life of a pod as an abstract specification, refined by the cluster;
   mutexes under failures, watches kept, which names keep ReplicaSets apart: proved.
