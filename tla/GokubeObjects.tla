---------------------------- MODULE GokubeObjects ----------------------------
(***************************************************************************)
(* The API objects of gokube (pkg/api), the name generator                 *)
(* (pkg/registry/names) and the predicates the control loops evaluate on   *)
(* them.                                                                   *)
(*                                                                         *)
(* Only two things about a name are ever observed: whether one name is a   *)
(* prefix of another (IsOwnedBy) and how names sort (an etcd range comes   *)
(* back in key order).  A name is therefore a sequence of numbers, each    *)
(* standing for a run of characters, smaller numbers sorting first.        *)
(* A container is a model value, a pod spec the sequence of its containers *)
(* or NilSpec, the nil slice left by a body without "containers".          *)
(***************************************************************************)
EXTENDS Integers, FiniteSets, Sequences, FiniteSetsExt

CONSTANTS
  NodeNames,               \* names of the machines that run a kubelet
  NoNode,                  \* the empty NodeName
  RSNames,                 \* names of ReplicaSets
  UserPodNames,            \* pod names chosen by users
  RandomSuffixes,          \* values of the random part of a generated name
  MaxGeneratedNameLength,  \* longest base a generated name keeps
  Containers,              \* containers that occur
  Specs,                   \* pod specs that occur
  NilSpec,                 \* a spec whose container list is missing
  BadContainers,           \* containers without a name or an image
  Replicas,                \* replica counts that occur
  Absent                   \* no object under a key, no holder of a mutex

(* names.SimpleNameGenerator: the base, cut to MaxGeneratedNameLength, and *)
(* a random suffix.                                                        *)
GenerateName(base, suffix) ==
  SubSeq(base, 1, Min({Len(base), MaxGeneratedNameLength})) \o <<suffix>>

GeneratedNames == {GenerateName(rs, s) : rs \in RSNames, s \in RandomSuffixes}

PodNames == UserPodNames \cup GeneratedNames

(* strings.HasPrefix of Go.                                                *)
HasPrefix(name, prefix) ==
  Len(prefix) <= Len(name) /\ SubSeq(name, 1, Len(prefix)) = prefix

(* Key order of etcd.                                                      *)
KeyLeq(a, b) ==
  \/ HasPrefix(b, a)
  \/ \E i \in 1..Min({Len(a), Len(b)}) :
        a[i] < b[i] /\ \A j \in 1..(i - 1) : a[j] = b[j]

PodStatus == {"", "Pending", "Scheduled", "Running", "Succeeded", "Failed"}

Pod == [nodeName : NodeNames \cup {NoNode}, status : PodStatus, spec : Specs]

Node == [status : {"", "Ready", "NotReady", "MemoryPressure", "DiskPressure"}]

ReplicaSet == [replicas : Replicas, template : Specs, statusReplicas : Replicas \cup {0}]

ContainersOf(spec) == IF spec = NilSpec THEN <<>> ELSE spec

(* Pod.Validate: the container list is there and every container has its   *)
(* name and its image.  An empty list passes ("required" on a slice only   *)
(* rejects nil).                                                           *)
Validate(pod) ==
  /\ pod.spec # NilSpec
  /\ \A i \in DOMAIN ContainersOf(pod.spec) : pod.spec[i] \notin BadContainers

IsActive(pod) == pod.status # "Failed"

IsOwnedBy(podName, rsName) == HasPrefix(podName, rsName)

(***************************************************************************)
(* The assumptions about names and objects: a missing object is none of    *)
(* the objects, a missing node name none of the nodes, there are finitely  *)
(* many names, and a pod with one container of a spec is a pod that occurs.*)
(***************************************************************************)
ASSUME ObjectsAssumption ==
  /\ Absent \notin Pod /\ Absent \notin Node /\ Absent \notin ReplicaSet
  /\ NoNode \notin NodeNames
  /\ Absent \notin PodNames
  /\ IsFiniteSet(PodNames)
  /\ Specs \subseteq Seq(Containers) \cup {NilSpec}
  /\ BadContainers \subseteq Containers
  /\ \A spec \in Specs : \A i \in DOMAIN ContainersOf(spec) : <<spec[i]>> \in Specs
  /\ Replicas \subseteq Int
  /\ MaxGeneratedNameLength \in Nat
=============================================================================
