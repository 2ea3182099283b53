------------------------- MODULE ReplicaSetController -------------------------
(***************************************************************************)
(* The controller process (pkg/controller): on every tick it lists the     *)
(* ReplicaSets and reconciles each in turn: read the ReplicaSet, list the  *)
(* pods, create the pods that are missing, write the ReplicaSet back.      *)
(* Run ends the process (log.Fatalf) on any error; the supervisor starts   *)
(* it again.  It has registries, and so mutexes, of its own: they exclude  *)
(* nothing of what the API server does.                                    *)
(***************************************************************************)
EXTENDS EtcdStorage

VARIABLES
  cpc,      \* idle, get, list, create, put, updget, updput, down
  todo,     \* ReplicaSets of this tick still to be reconciled
  cur,      \* the ReplicaSet being reconciled, as read
  missing,  \* replicas still to be created
  at,       \* index of the template container whose pod is next
  newPod    \* name generated for that pod

ctlVars == <<cpc, todo, cur, missing, at, newPod>>

(* Local state of a controller that is at the given point and holds        *)
(* nothing.                                                                *)
Fresh(point) ==
  /\ cpc' = point
  /\ todo' = {}
  /\ cur' = Absent
  /\ missing' = 0
  /\ at' = 1
  /\ newPod' = Absent

CtlInit ==
  /\ cpc = "idle" /\ todo = {} /\ cur = Absent
  /\ missing = 0 /\ at = 1 /\ newPod = Absent

(* rs is the ReplicaSet in work: the first of todo in key order.           *)
InWork(rs) == rs \in todo /\ \A other \in todo : KeyLeq(rs, other)

Template == ContainersOf(cur.template)

(* Mutant: pods that wait for a node are not counted.                      *)
BoundActivePods(rs) ==
  {p \in ListKeys(pods) : IsOwnedBy(p, rs) /\ pods[p].status \notin {"Pending", "Failed"}}

ActivePods(rs) == {p \in ListKeys(pods) : IsOwnedBy(p, rs) /\ IsActive(pods[p])}

CtlList ==
  /\ cpc = "idle"
  /\ todo' = ListKeys(replicasets)
  /\ cpc' = IF ListKeys(replicasets) = {} THEN "idle" ELSE "get"
  /\ UNCHANGED <<storeVars, cur, missing, at, newPod>>

(* log.Fatalf.                                                             *)
Fatal == Fresh("down")

NextReplicaSet(rs) ==
  IF todo = {rs} THEN Fresh("idle")
  ELSE /\ todo' = todo \ {rs}
       /\ cpc' = "get"
       /\ cur' = Absent /\ missing' = 0 /\ at' = 1 /\ newPod' = Absent

ReconcileGet ==
  /\ cpc = "get"
  /\ \E rs \in todo :
       /\ InWork(rs)
       /\ \/ ~Exists(replicasets, rs) /\ Fatal
          \/ /\ Exists(replicasets, rs)
             /\ cur' = replicasets[rs]
             /\ cpc' = "list"
             /\ UNCHANGED <<todo, missing, at, newPod>>
  /\ UNCHANGED storeVars

(* The count decides: too few, create the missing ones (none if the        *)
(* template has no container); too many, only the status is written; right,*)
(* on to the next ReplicaSet.                                              *)
ReconcileList ==
  /\ cpc = "list"
  /\ \E rs \in todo :
       /\ InWork(rs)
       /\ LET count == Cardinality(ActivePods(rs)) IN
          \/ /\ count < cur.replicas
             /\ IF Template = <<>>
                  THEN cpc' = "updget" /\ UNCHANGED missing
                  ELSE cpc' = "create" /\ missing' = cur.replicas - count
             /\ UNCHANGED <<todo, cur, at, newPod>>
          \/ /\ count > cur.replicas
             /\ cpc' = "updget"
             /\ UNCHANGED <<todo, cur, missing, at, newPod>>
          \/ count = cur.replicas /\ NextReplicaSet(rs)
  /\ UNCHANGED storeVars

(* PodRegistry.CreatePod, first its check: a taken name or an invalid      *)
(* container is an error, a failed Get counts as a free name.              *)
TemplatePod == [nodeName |-> NoNode, status |-> "Pending", spec |-> <<Template[at]>>]

ReconcileCreateGet ==
  /\ cpc = "create"
  /\ \E rs \in todo, s \in RandomSuffixes, err \in Faults :
       /\ InWork(rs)
       /\ LET name == GenerateName(rs, s)
              found == ~err /\ Exists(pods, name) IN
          \/ (found \/ ~Validate(TemplatePod)) /\ Fatal
          \/ /\ ~found /\ Validate(TemplatePod)
             /\ newPod' = name
             /\ cpc' = "put"
             /\ UNCHANGED <<todo, cur, missing, at>>
  /\ UNCHANGED storeVars

(* Mutant: the loop over the missing replicas runs once more.              *)
CreatePutOnceMore ==
  /\ cpc = "put"
  /\ pods' = Create(pods, newPod, TemplatePod)
  /\ newPod' = Absent
  /\ \/ at < Len(Template) /\ at' = at + 1 /\ cpc' = "create" /\ UNCHANGED missing
     \/ /\ at = Len(Template) /\ at' = 1
        /\ missing' = missing - 1
        /\ cpc' = IF missing = 0 THEN "updget" ELSE "create"
  /\ UNCHANGED <<nodes, replicasets, todo, cur>>

(* ... then its Put, and the two loops: over the template's containers,    *)
(* each of which gets a pod of its own, and over the missing replicas.     *)
ReconcileCreatePut ==
  /\ cpc = "put"
  /\ pods' = Create(pods, newPod, TemplatePod)
  /\ newPod' = Absent
  /\ \/ at < Len(Template) /\ at' = at + 1 /\ cpc' = "create" /\ UNCHANGED missing
     \/ /\ at = Len(Template) /\ at' = 1
        /\ missing' = missing - 1
        /\ cpc' = IF missing = 1 THEN "updget" ELSE "create"
  /\ UNCHANGED <<nodes, replicasets, todo, cur>>

(* ReplicaSetRegistry.Update: the ReplicaSet must still be there, and what *)
(* was read at the start of Reconcile is stored with the new status.       *)
ReconcileUpdateGet ==
  /\ cpc = "updget"
  /\ \E rs \in todo :
       /\ InWork(rs)
       /\ \/ ~Exists(replicasets, rs) /\ Fatal
          \/ /\ Exists(replicasets, rs)
             /\ cpc' = "updput"
             /\ UNCHANGED <<todo, cur, missing, at, newPod>>
  /\ UNCHANGED storeVars

ReconcileUpdatePut ==
  /\ cpc = "updput"
  /\ \E rs \in todo :
       /\ InWork(rs)
       /\ replicasets' = Update(replicasets, rs, [cur EXCEPT !.statusReplicas = cur.replicas])
       /\ NextReplicaSet(rs)
  /\ UNCHANGED <<pods, nodes>>

(* The process ends, by a failed request to etcd or from outside, and the  *)
(* supervisor starts it again.                                             *)
CtlCrash ==
  /\ cpc \notin {"down", "idle"}
  /\ Fatal
  /\ UNCHANGED storeVars

CtlRestart ==
  /\ cpc = "down"
  /\ Fresh("idle")
  /\ UNCHANGED storeVars

CtlStep ==
  \/ CtlList \/ ReconcileGet \/ ReconcileList \/ ReconcileCreateGet \/ ReconcileCreatePut
  \/ ReconcileUpdateGet \/ ReconcileUpdatePut \/ CtlRestart

CtlTypeOK ==
  /\ cpc \in {"idle", "get", "list", "create", "put", "updget", "updput", "down"}
  /\ todo \subseteq RSNames
  /\ cur \in ReplicaSet \cup {Absent}
  /\ missing \in Nat
  /\ at \in Nat
  /\ newPod \in PodNames \cup {Absent}
=============================================================================
