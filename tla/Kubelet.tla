------------------------------- MODULE Kubelet -------------------------------
(***************************************************************************)
(* The kubelets (pkg/kubelet), one per node, and the Docker engine of      *)
(* their node.  A kubelet registers its node and then runs                 *)
(*   - watchPods: poll GET /pods?nodeName=..., take up the pods it does    *)
(*     not know yet, run each in a goroutine;                              *)
(*   - updatePodStatuses: compute the status of every pod it knows and PUT *)
(*     the whole pod when the status changed.                              *)
(* It talks to the API server through the two requests of its node.  It    *)
(* keeps its pods in memory only and never forgets one.                    *)
(*                                                                         *)
(* Docker is external: a container is created, started, and ends with some *)
(* exit code.  The status loop looks a container up under its name in the  *)
(* pod spec, but StartContainer created it under a generated name; what    *)
(* the lookup finds is nothing, or a container of somebody else, in one of *)
(* the ForeignStates.                                                      *)
(***************************************************************************)
EXTENDS ApiServer, PodPhase

CONSTANTS
  ForeignStates,    \* states of containers the kubelet did not create
  DockerFaults,     \* {FALSE}, or BOOLEAN when Docker may refuse a request
  TransportFaults,  \* {FALSE}, or BOOLEAN when a request of a kubelet may get lost
  MaxStarts         \* bound: how often a kubelet process is started

VARIABLES
  kpc,     \* per node: down, registering, up
  starts,  \* per node: how often the kubelet was started
  known,   \* per node: the map k.pods, PodNames -> Pod or Absent
  running, \* per node and pod: the index of the container runPod works on,
           \* 0 when no runPod goroutine is active for the pod
  sweep,   \* per node: pods the status loop still has to look at
  docker   \* per node: the containers in its Docker engine

kubeVars == <<kpc, starts, known, running, sweep, docker>>

ASSUME KubeletAssumption ==
  /\ ForeignStates \subseteq {s \in ContainerState : s.exists}
  /\ DockerFaults \subseteq BOOLEAN /\ TransportFaults \subseteq BOOLEAN
  /\ MaxStarts \in Nat

(* A container belongs to the at-th container of a pod spec and to the     *)
(* start of the kubelet that created it.                                   *)
DockerContainer ==
  [pod : PodNames, at : Nat, start : Nat, state : {"created", "running", "exited"}, exitCode : {0, 1}]

KubeInit ==
  /\ kpc = [n \in NodeNames |-> "down"]
  /\ starts = [n \in NodeNames |-> 0]
  /\ known = [n \in NodeNames |-> NoItems]
  /\ running = [n \in NodeNames |-> [p \in PodNames |-> 0]]
  /\ sweep = [n \in NodeNames |-> {}]
  /\ docker = [n \in NodeNames |-> {}]

-----------------------------------------------------------------------------
(* NewKubelet and Start: an empty pod map, and POST /nodes.                *)
RegisterCall(n) ==
  [kind |-> "node", verb |-> "POST", name |-> n, bodyName |-> n,
   body |-> [status |-> "Ready"], node |-> NoNode]

KubeletStart(n) ==
  /\ kpc[n] = "down"
  /\ starts[n] < MaxStarts
  /\ pc[WatchSlot(n)] \in {"idle", "done"}
  /\ pc[StatusSlot(n)] = "idle"
  /\ kpc' = [kpc EXCEPT ![n] = "registering"]
  /\ starts' = [starts EXCEPT ![n] = @ + 1]
  /\ Issue(WatchSlot(n), RegisterCall(n))
  /\ UNCHANGED <<storeVars, known, running, sweep, docker>>

(* http.Client returns: with the response, or with an error because the    *)
(* request did not reach the API server.  Such a request has no status     *)
(* code and no list.                                                       *)
Returns(r) == pc[r] = "done" \/ (pc[r] = "start" /\ TRUE \in TransportFaults)

(* What it returned is taken; the connection is free.                      *)
Consume(r) ==
  /\ pc' = [pc EXCEPT ![r] = "idle"]
  /\ resp' = [resp EXCEPT ![r] = <<>>]
  /\ items' = [items EXCEPT ![r] = NoItems]
  /\ UNCHANGED <<call, podMutex, rsMutex>>

(* Mutant: a node that is registered already is as good.                   *)
KubeletRejoined(n) ==
  /\ kpc[n] = "registering"
  /\ Returns(WatchSlot(n))
  /\ kpc' = [kpc EXCEPT ![n] = IF resp[WatchSlot(n)] \in {<<201>>, <<409>>} THEN "up" ELSE "down"]
  /\ Consume(WatchSlot(n))
  /\ UNCHANGED <<storeVars, starts, known, running, sweep, docker>>

(* registerNode insists on 201; otherwise Start fails and the process ends.*)
KubeletRegistered(n) ==
  /\ kpc[n] = "registering"
  /\ Returns(WatchSlot(n))
  /\ kpc' = [kpc EXCEPT ![n] = IF resp[WatchSlot(n)] = <<201>> THEN "up" ELSE "down"]
  /\ Consume(WatchSlot(n))
  /\ UNCHANGED <<storeVars, starts, known, running, sweep, docker>>

-----------------------------------------------------------------------------
(* watchPods: getPodAssignments ...                                        *)
PollCall(n) ==
  [kind |-> "pod", verb |-> "LIST", name |-> Absent, bodyName |-> Absent,
   body |-> Absent, node |-> n]

KubeletPoll(n) ==
  /\ kpc[n] = "up"
  /\ pc[WatchSlot(n)] = "idle"
  /\ Issue(WatchSlot(n), PollCall(n))
  /\ UNCHANGED <<storeVars, kubeVars>>

(* ... and runNewPods: a pod not in the map is added to it and run, and a  *)
(* status loop that is ranging over the map may or may not come to it.     *)
(* After an error the list is empty.                                       *)
Ranging(n) == sweep[n] # {} \/ pc[StatusSlot(n)] # "idle"

(* Mutant: a pod that is in the map is replaced by the listed one.         *)
ListedPods(n) == {p \in PodNames : items[WatchSlot(n)][p] # Absent}

NewPods(n) == {p \in PodNames : items[WatchSlot(n)][p] # Absent /\ known[n][p] = Absent}

(* Mutant: the loop over the containers starts at the second one.          *)
SecondContainer(pod) == IF Len(ContainersOf(pod.spec)) <= 1 THEN 0 ELSE 2

FirstContainer(pod) == IF ContainersOf(pod.spec) = <<>> THEN 0 ELSE 1

RunNewPods(n) ==
  /\ kpc[n] = "up"
  /\ Returns(WatchSlot(n))
  /\ known' = [known EXCEPT ![n] =
       [p \in PodNames |-> IF p \in NewPods(n) THEN items[WatchSlot(n)][p] ELSE @[p]]]
  /\ running' = [running EXCEPT ![n] =
       [p \in PodNames |-> IF p \in NewPods(n) THEN FirstContainer(items[WatchSlot(n)][p]) ELSE @[p]]]
  /\ \E seen \in SUBSET NewPods(n) :
       /\ seen # {} => Ranging(n)
       /\ sweep' = [sweep EXCEPT ![n] = @ \cup seen]
  /\ Consume(WatchSlot(n))
  /\ UNCHANGED <<storeVars, kpc, starts, docker>>

(* The process is gone, and with it all its memory; containers live on and *)
(* requests on their way are still served.                                 *)
Dies(n) ==
  /\ kpc' = [kpc EXCEPT ![n] = "down"]
  /\ known' = [known EXCEPT ![n] = NoItems]
  /\ running' = [running EXCEPT ![n] = [p \in PodNames |-> 0]]
  /\ sweep' = [sweep EXCEPT ![n] = {}]
  /\ UNCHANGED <<storeVars, apiVars, starts, docker>>

(* The map k.pods is written here while the status loop may be ranging     *)
(* over it: the Go runtime ends a process it catches at that.              *)
MapFault(n) ==
  /\ kpc[n] = "up"
  /\ pc[WatchSlot(n)] = "done"
  /\ NewPods(n) # {} /\ Ranging(n)
  /\ Dies(n)

-----------------------------------------------------------------------------
(* runPod and StartContainer: each container in turn is pulled and created,*)
(* then started; errors are logged and the next container is tried.        *)
Mine(n, p) == {c \in docker[n] : c.pod = p /\ c.at = running[n][p] /\ c.start = starts[n]}

NextContainer(n, p) ==
  running' = [running EXCEPT ![n][p] =
    IF running[n][p] = Len(ContainersOf(known[n][p].spec)) THEN 0 ELSE @ + 1]

ContainerCreate(n, p) ==
  /\ running[n][p] > 0 /\ Mine(n, p) = {}
  /\ \E err \in DockerFaults :
       \/ err /\ NextContainer(n, p) /\ UNCHANGED docker
       \/ /\ ~err /\ UNCHANGED running
          /\ docker' = [docker EXCEPT ![n] = @ \cup
               {[pod |-> p, at |-> running[n][p], start |-> starts[n],
                 state |-> "created", exitCode |-> 0]}]
  /\ UNCHANGED <<storeVars, apiVars, kpc, starts, known, sweep>>

(* An image that cannot be pulled is a panic, which ends the process.      *)
PullPanic(n, p) ==
  /\ running[n][p] > 0 /\ Mine(n, p) = {}
  /\ TRUE \in DockerFaults
  /\ Dies(n)

ContainerStart(n, p) ==
  /\ running[n][p] > 0
  /\ \E c \in Mine(n, p), err \in DockerFaults :
       docker' = [docker EXCEPT ![n] =
         IF err THEN @ ELSE (@ \ {c}) \cup {[c EXCEPT !.state = "running"]}]
  /\ NextContainer(n, p)
  /\ UNCHANGED <<storeVars, apiVars, kpc, starts, known, sweep>>

(* A container's process ends.                                             *)
ContainerExit(n) ==
  /\ \E c \in docker[n], code \in {0, 1} :
       /\ c.state = "running"
       /\ docker' = [docker EXCEPT ![n] =
            (@ \ {c}) \cup {[c EXCEPT !.state = "exited", !.exitCode = code]}]
  /\ UNCHANGED <<storeVars, apiVars, kpc, starts, known, running, sweep>>

-----------------------------------------------------------------------------
(* updatePodStatuses: on a tick, every pod of the map ...                  *)
StatusTick(n) ==
  /\ kpc[n] = "up"
  /\ sweep[n] = {} /\ pc[StatusSlot(n)] = "idle"
  /\ ListKeys(known[n]) # {}
  /\ sweep' = [sweep EXCEPT ![n] = ListKeys(known[n])]
  /\ UNCHANGED <<storeVars, apiVars, kpc, starts, known, running, docker>>

(* What ContainerInspect may say about the containers of a pod.            *)
Inspections(pod) == [DOMAIN ContainersOf(pod.spec) -> ForeignStates \cup {NotFound}]

StatusCall(p, pod) ==
  [kind |-> "pod", verb |-> "PUT", name |-> p, bodyName |-> p, body |-> pod, node |-> NoNode]

(* ... is looked up and, when its status changed, first changed in the map *)
(* and then sent; a failed lookup skips the pod, a failed PUT is only      *)
(* logged.                                                                 *)
UpdatePodStatus(n) ==
  /\ kpc[n] = "up"
  /\ pc[StatusSlot(n)] = "idle"
  /\ \E p \in sweep[n], err \in DockerFaults :
       /\ sweep' = [sweep EXCEPT ![n] = @ \ {p}]
       /\ \/ err /\ FirstContainer(known[n][p]) = 1 /\ UNCHANGED <<known, apiVars>>
          \/ /\ ~err
             /\ \E states \in Inspections(known[n][p]) :
                  LET status == determinePodStatus(states)
                      pod == [known[n][p] EXCEPT !.status = status] IN
                  \/ status = known[n][p].status /\ UNCHANGED <<known, apiVars>>
                  \/ /\ status # known[n][p].status
                     /\ known' = [known EXCEPT ![n][p] = pod]
                     /\ Issue(StatusSlot(n), StatusCall(p, pod))
  /\ UNCHANGED <<storeVars, kpc, starts, running, docker>>

StatusAnswered(n) ==
  /\ Returns(StatusSlot(n))
  /\ Consume(StatusSlot(n))
  /\ UNCHANGED <<storeVars, kubeVars>>

-----------------------------------------------------------------------------
KubeletStep(n) ==
  \/ KubeletStart(n) \/ KubeletRegistered(n) \/ KubeletPoll(n) \/ RunNewPods(n)
  \/ StatusTick(n) \/ UpdatePodStatus(n) \/ StatusAnswered(n)
  \/ \E p \in PodNames : ContainerCreate(n, p) \/ ContainerStart(n, p)

KubeletFault(n) == MapFault(n) \/ \E p \in PodNames : PullPanic(n, p)

(* The kubelet process is ended from outside.                              *)
KubeletCrash(n) == kpc[n] # "down" /\ Dies(n)

KubeTypeOK ==
  /\ kpc \in [NodeNames -> {"down", "registering", "up"}]
  /\ starts \in [NodeNames -> 0..MaxStarts]
  /\ known \in [NodeNames -> [PodNames -> Pod \cup {Absent}]]
  /\ running \in [NodeNames -> [PodNames -> Nat]]
  /\ sweep \in [NodeNames -> SUBSET PodNames]
  /\ docker \in [NodeNames -> SUBSET DockerContainer]
=============================================================================
