----------------------------- MODULE EtcdStorage -----------------------------
(***************************************************************************)
(* The one piece of state all gokube processes share: the objects kept in  *)
(* etcd under the prefixes /pods/, /registry/nodes/ and /replicasets, and  *)
(* the operations of pkg/storage on one such range.  Every operation is a  *)
(* single etcd request and so one atomic step of its caller.               *)
(***************************************************************************)
EXTENDS GokubeObjects

CONSTANT Faults   \* {FALSE}, or BOOLEAN when a request to etcd may fail

ASSUME FaultsAssumption == Faults \subseteq BOOLEAN

VARIABLES
  pods,         \* PodNames -> Pod or Absent
  nodes,        \* NodeNames -> Node or Absent
  replicasets   \* RSNames -> ReplicaSet or Absent

storeVars == <<pods, nodes, replicasets>>

(* Get finds the object.                                                   *)
Exists(kv, key) == kv[key] # Absent

(* Create and Update are the same unconditional Put: Create overwrites an  *)
(* object that is there, Update stores one that is not.                    *)
Create(kv, key, obj) == [kv EXCEPT ![key] = obj]

Update(kv, key, obj) == [kv EXCEPT ![key] = obj]

Delete(kv, key) == [kv EXCEPT ![key] = Absent]

(* The keys List returns.                                                  *)
ListKeys(kv) == {key \in DOMAIN kv : kv[key] # Absent}

(* A write whose request fails may or may not have reached etcd.           *)
Written(err, old, new) == IF err THEN {old, new} ELSE {new}

StoreInit ==
  /\ pods = [p \in PodNames |-> Absent]
  /\ nodes = [n \in NodeNames |-> Absent]
  /\ replicasets = [rs \in RSNames |-> Absent]

StoreTypeOK ==
  /\ pods \in [PodNames -> Pod \cup {Absent}]
  /\ nodes \in [NodeNames -> Node \cup {Absent}]
  /\ replicasets \in [RSNames -> ReplicaSet \cup {Absent}]
=============================================================================
