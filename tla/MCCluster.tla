------------------------------ MODULE MCCluster ------------------------------
(* Small instances of the cluster: which names and specs occur, and what   *)
(* its users do.                                                           *)
EXTENDS Cluster, TLC

CONSTANT c1

OneContainer == {<<c1>>}
AtMostOneContainer == {<<>>, <<c1>>}
OneOrTwoContainers == {<<c1>>, <<c1, c1>>}
NoNames == {}
PodOne == {<<9>>}
PodsTwo == {<<8>>, <<9>>}
RSOne == {<<1>>}

(* No process tells one node from another.                                *)
NodesAlike == Permutations(NodeNames)

Send(kind, verb, name, body) ==
  [kind |-> kind, verb |-> verb, name |-> name, bodyName |-> name,
   body |-> body, node |-> NoNode]

NewPod(spec) == [nodeName |-> NoNode, status |-> "", spec |-> spec]
NewRS(k, spec) == [replicas |-> k, template |-> spec, statusReplicas |-> 0]

PostPods == {Send("pod", "POST", p, NewPod(<<c1>>)) : p \in UserPodNames}

(* A user who creates a pod with a container and one without.              *)
PostUnlikePods ==
  {Send("pod", "POST", <<8>>, NewPod(<<>>)), Send("pod", "POST", <<9>>, NewPod(<<c1>>))}

(* A user who creates a pod and removes it again.                          *)
PostAndDeletePods == PostPods \cup {Send("pod", "DELETE", p, Absent) : p \in UserPodNames}

PostRS == {Send("replicaset", "POST", <<1>>, NewRS(Max(Replicas), <<c1>>))}

(* A user who scales the ReplicaSet, changes its template, removes and     *)
(* recreates it, and one who registers the node as well.                   *)
ScaleRS ==
  PostRS \cup {Send("replicaset", "PUT", <<1>>, NewRS(k, <<c1>>)) : k \in Replicas}
  \cup {Send("replicaset", "PUT", <<1>>, NewRS(1, spec)) : spec \in Specs}
  \cup {Send("replicaset", "DELETE", <<1>>, Absent)}
ScaleRSAndPostNodes ==
  ScaleRS \cup {Send("node", "POST", n, [status |-> "Ready"]) : n \in NodeNames}

(* Containers of somebody else that have the name of a container of a pod. *)
RunningOnly == {[exists |-> TRUE, running |-> TRUE, exitCode |-> 0]}
FailedOnly == {[exists |-> TRUE, running |-> FALSE, exitCode |-> 1]}
RunningOrFailed == RunningOnly \cup FailedOnly
NoForeign == {}
=============================================================================
