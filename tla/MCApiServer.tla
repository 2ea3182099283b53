----------------------------- MODULE MCApiServer -----------------------------
(* Small instances of ApiServer: users alone, every verb on every kind.    *)
EXTENDS ApiServer

CONSTANTS c1, bad

MCSpecs == {<<c1>>, <<bad>>, NilSpec}
MCUserPodNames == {<<1>>, <<2>>}
MCRSNames == {<<1>>, <<2>>}

Send(kind, verb, name, bodyName, body) ==
  [kind |-> kind, verb |-> verb, name |-> name, bodyName |-> bodyName,
   body |-> body, node |-> NoNode]

PodBody(status, spec) == [nodeName |-> NoNode, status |-> status, spec |-> spec]
RSBody(k) == [replicas |-> k, template |-> <<c1>>, statusReplicas |-> 0]

(* Calls that read no body, on the first name of a kind.                   *)
Bodyless(kind, name, verbs) == {Send(kind, v, name, name, Absent) : v \in verbs}

(* Calls on the whole collection of a kind.                                *)
Lists(kind, verbs) == {Send(kind, v, Absent, Absent, Absent) : v \in verbs}

MCPodCalls ==
  Bodyless("pod", <<1>>, {"GET", "DELETE", "POST", "PUT"})
  \cup Lists("pod", {"LIST", "UNASSIGNED"})
  \cup {Send("pod", "POST", <<1>>, <<1>>, PodBody("", spec)) : spec \in MCSpecs}
  \cup {Send("pod", "PUT", <<1>>, <<1>>, PodBody("Running", spec)) : spec \in MCSpecs}
  \cup {Send("pod", "PUT", <<1>>, <<2>>, PodBody("Running", <<c1>>))}

MCRSCalls ==
  Bodyless("replicaset", <<1>>, {"GET", "DELETE", "POST", "PUT"})
  \cup Lists("replicaset", {"LIST"})
  \cup {Send("replicaset", "POST", <<1>>, <<1>>, RSBody(1)),
        Send("replicaset", "PUT", <<1>>, <<1>>, RSBody(2)),
        Send("replicaset", "PUT", <<1>>, <<2>>, RSBody(2))}

MCNodeCalls ==
  Lists("node", {"LIST"}) \cup
  UNION {Bodyless("node", n, {"GET", "DELETE", "POST", "PUT"})
           \cup {Send("node", "POST", n, n, [status |-> "Ready"]),
                 Send("node", "PUT", n, n, [status |-> "Ready"])} : n \in NodeNames}

MCPodAndRSCalls == MCPodCalls \cup MCRSCalls

(* With a failing etcd: every call on nodes, and on pods and ReplicaSets   *)
(* the calls that write, and the lists.  An update has the body of a       *)
(* create, since all that counts here is that it is answered.              *)
MCFaultCalls ==
  MCNodeCalls
  \cup Bodyless("pod", <<1>>, {"DELETE"}) \cup Lists("pod", {"LIST"})
  \cup {Send("pod", v, <<1>>, <<1>>, PodBody("", <<c1>>)) : v \in {"POST", "PUT"}}
  \cup Bodyless("replicaset", <<1>>, {"DELETE"}) \cup Lists("replicaset", {"LIST"})
  \cup {Send("replicaset", v, <<1>>, <<1>>, RSBody(1)) : v \in {"POST", "PUT"}}

MCReplicas == {1, 2}
=============================================================================
