------------------------------ MODULE Scheduler ------------------------------
(***************************************************************************)
(* The scheduler process (pkg/scheduler): on every tick it lists the       *)
(* pending pods, lists the nodes and then writes back, one by one, the     *)
(* pods it listed with a node and the status Scheduled.  What it writes is *)
(* the whole pod as it was listed.                                         *)
(***************************************************************************)
EXTENDS EtcdStorage

VARIABLES
  spc,        \* idle (waiting for the tick), nodes, assign
  queue,      \* names of the listed pods still to be written
  listed,     \* the pods as listed
  available   \* the nodes as listed

schedVars == <<spc, queue, listed, available>>

SchedInit ==
  /\ spc = "idle"
  /\ queue = {}
  /\ listed = [p \in PodNames |-> Absent]
  /\ available = {}

(* The end of a pass, complete or abandoned on an error; its local state   *)
(* is gone.                                                                *)
EndPass ==
  /\ spc' = "idle"
  /\ queue' = {}
  /\ listed' = [p \in PodNames |-> Absent]
  /\ available' = {}

(* Mutant: pods that are already bound are listed as well.                 *)
AllPods == ListKeys(pods)

(* Mutant: only pods without any status are listed.                        *)
PodsWithoutStatus == {p \in ListKeys(pods) : pods[p].status = ""}

(* PodRegistry.ListPendingPods goes by the status alone.                   *)
PendingPods == {p \in ListKeys(pods) : pods[p].status = "Pending"}

SchedListPods ==
  /\ spc = "idle"
  /\ spc' = "nodes"
  /\ queue' = PendingPods
  /\ listed' = [p \in PodNames |-> IF p \in PendingPods THEN pods[p] ELSE Absent]
  /\ UNCHANGED <<storeVars, available>>

(* No node is an error; no pending pod ends the pass as well.              *)
SchedListNodes ==
  /\ spc = "nodes"
  /\ IF ListKeys(nodes) = {} \/ queue = {}
       THEN EndPass
       ELSE /\ spc' = "assign"
            /\ available' = ListKeys(nodes)
            /\ UNCHANGED <<queue, listed>>
  /\ UNCHANGED storeVars

(* Mutant: a status that is no pod status.                                 *)
BindAssigned(pod, n) == [pod EXCEPT !.nodeName = n, !.status = "Assigned"]

Bind(pod, n) == [pod EXCEPT !.nodeName = n, !.status = "Scheduled"]

(* UpdatePod of the next pod in key order: an invalid pod ends the pass,   *)
(* any other is stored whatever its key holds by now.                      *)
SchedAssign ==
  /\ spc = "assign"
  /\ \E p \in queue, n \in available :
       /\ \A q \in queue : KeyLeq(p, q)
       /\ pods' = IF Validate(listed[p]) THEN Update(pods, p, Bind(listed[p], n)) ELSE pods
       /\ IF queue = {p} \/ ~Validate(listed[p])
            THEN EndPass
            ELSE /\ queue' = queue \ {p}
                 /\ listed' = [listed EXCEPT ![p] = Absent]
                 /\ UNCHANGED <<spc, available>>
  /\ UNCHANGED <<nodes, replicasets>>

(* A failed request to etcd ends the pass; so does the end of the process, *)
(* which its supervisor starts again.                                      *)
SchedAbort ==
  /\ spc # "idle"
  /\ EndPass
  /\ UNCHANGED storeVars

SchedStep == SchedListPods \/ SchedListNodes \/ SchedAssign

SchedTypeOK ==
  /\ spc \in {"idle", "nodes", "assign"}
  /\ queue \subseteq PodNames
  /\ listed \in [PodNames -> Pod \cup {Absent}]
  /\ available \subseteq NodeNames
=============================================================================
