------------------------------ MODULE ApiServer ------------------------------
(***************************************************************************)
(* The API server: one goroutine per HTTP request runs a handler of        *)
(* pkg/api/handlers, which calls a registry of pkg/registry, which makes   *)
(* the etcd requests.  An action is the stretch of a handler up to and     *)
(* including its next etcd request, so the handlers interleave exactly     *)
(* where they can.                                                         *)
(*                                                                         *)
(* PodRegistry and ReplicaSetRegistry guard their operations with a        *)
(* RWMutex of this process.  Only operations that make two etcd requests   *)
(* hold it from one step to the next; every other operation just needs it  *)
(* to be free.  NodeRegistry has no mutex.                                 *)
(*                                                                         *)
(* A call is the decoded request.  body = Absent is a body that ReadEntity *)
(* or, for its missing name, Validate rejects; node is the nodeName query  *)
(* parameter of GET /pods.                                                 *)
(***************************************************************************)
EXTENDS EtcdStorage

CONSTANTS
  UserSlots,  \* requests of users that can be in progress together
  UserCalls   \* the calls those users make

VARIABLES
  call,      \* the call each request carries, Absent before the first
  pc,        \* idle, start, loaded (filter passed), checked, done
  resp,      \* status codes written to the response, in order
  items,     \* the pods a list request returned
  podMutex,  \* the request inside PodRegistry's mutex, or Absent
  rsMutex    \* the request inside ReplicaSetRegistry's mutex, or Absent

apiVars == <<call, pc, resp, items, podMutex, rsMutex>>

(* Besides the users, each kubelet has a request for its pod watch and its *)
(* registration, and one for its status updates.                           *)
WatchSlot(n) == <<n, "watch">>
StatusSlot(n) == <<n, "status">>

Requests == UserSlots \cup (NodeNames \X {"watch", "status"})

(* The calls on one object of a kind and, with Absent for a name, those on *)
(* the collection.                                                         *)
CallsOf(kind, names, objects) ==
  [kind : {kind}, verb : {"POST", "GET", "PUT", "DELETE"}, name : names, bodyName : names,
   body : objects \cup {Absent}, node : {NoNode}]

ListCallsOf(kind, verbs) ==
  [kind : {kind}, verb : verbs, name : {Absent}, bodyName : {Absent},
   body : {Absent}, node : NodeNames \cup {NoNode}]

Calls ==
  UNION {CallsOf("pod", PodNames, Pod), ListCallsOf("pod", {"LIST", "UNASSIGNED"}),
         CallsOf("node", NodeNames, Node), ListCallsOf("node", {"LIST"}),
         CallsOf("replicaset", RSNames, ReplicaSet), ListCallsOf("replicaset", {"LIST"})}

ASSUME UserAssumption ==
  /\ UserCalls \subseteq Calls
  /\ UserSlots \cap (NodeNames \X {"watch", "status"}) = {}
  /\ Absent \notin UserSlots \cup (NodeNames \X {"watch", "status"})
  /\ Absent \notin Calls

NoItems == [p \in PodNames |-> Absent]

ApiInit ==
  /\ call = [r \in Requests |-> Absent]
  /\ pc = [r \in Requests |-> "idle"]
  /\ resp = [r \in Requests |-> <<>>]
  /\ items = [r \in Requests |-> NoItems]
  /\ podMutex = Absent
  /\ rsMutex = Absent

-----------------------------------------------------------------------------
(* A client sends a request.                                               *)
Issue(r, c) ==
  /\ call' = [call EXCEPT ![r] = c]
  /\ pc' = [pc EXCEPT ![r] = "start"]
  /\ resp' = [resp EXCEPT ![r] = <<>>]
  /\ items' = [items EXCEPT ![r] = NoItems]
  /\ UNCHANGED <<podMutex, rsMutex>>

UserCall(u) ==
  /\ pc[u] \in {"idle", "done"}
  /\ \E c \in UserCalls : Issue(u, c)
  /\ UNCHANGED storeVars

Handling(r, kind, verbs, at) ==
  /\ pc[r] = at
  /\ call[r].kind = kind
  /\ call[r].verb \in verbs

Respond(r, codes) ==
  /\ pc' = [pc EXCEPT ![r] = "done"]
  /\ resp' = [resp EXCEPT ![r] = codes]

Continue(r, at) ==
  /\ pc' = [pc EXCEPT ![r] = at]
  /\ UNCHANGED resp

(* The body decodes and names the object of the URL.                       *)
BodyMatches(c) == c.body # Absent /\ c.bodyName = c.name

-----------------------------------------------------------------------------
(* Mutant: the mutex is not kept between the Get and the Put.              *)
PodCreateGetUnlocked(r) ==
  /\ Handling(r, "pod", {"POST"}, "start")
  /\ IF call[r].body = Absent THEN Respond(r, <<400>>)
     ELSE IF Exists(pods, call[r].name) THEN Respond(r, <<409, 201>>)
     ELSE IF ~Validate(call[r].body) THEN Respond(r, <<400>>)
     ELSE Continue(r, "checked")
  /\ UNCHANGED <<storeVars, call, items, podMutex, rsMutex>>

(* POST /pods.  The mutex is taken for the Get and kept until the Put.  A  *)
(* Get that fails for any reason counts as "no such pod".  The conflict    *)
(* branch of the handler does not return: it writes 409 and then 201.      *)
PodCreateGet(r) ==
  /\ Handling(r, "pod", {"POST"}, "start")
  /\ \/ /\ call[r].body = Absent
        /\ Respond(r, <<400>>)
        /\ UNCHANGED podMutex
     \/ /\ call[r].body # Absent
        /\ podMutex = Absent
        /\ \E err \in Faults :
             LET found == ~err /\ Exists(pods, call[r].name) IN
             \/ found /\ Respond(r, <<409, 201>>) /\ UNCHANGED podMutex
             \/ ~found /\ ~Validate(call[r].body) /\ Respond(r, <<400>>) /\ UNCHANGED podMutex
             \/ ~found /\ Validate(call[r].body) /\ Continue(r, "checked") /\ podMutex' = r
  /\ UNCHANGED <<storeVars, call, items, rsMutex>>

(* Mutant: the default is no pod status.                                   *)
AcceptedUnknown(pod) == IF pod.status = "" THEN [pod EXCEPT !.status = "Unknown"] ELSE pod

(* The status defaults to Pending.                                         *)
Accepted(pod) == IF pod.status = "" THEN [pod EXCEPT !.status = "Pending"] ELSE pod

(* Mutant: the error path returns without unlocking.                       *)
PodCreatePutLocked(r) ==
  /\ Handling(r, "pod", {"POST"}, "checked")
  /\ \E err \in Faults :
       /\ pods' \in Written(err, pods, Create(pods, call[r].name, Accepted(call[r].body)))
       /\ Respond(r, IF err THEN <<500>> ELSE <<201>>)
       /\ podMutex' = IF err THEN podMutex ELSE Absent
  /\ UNCHANGED <<nodes, replicasets, call, items, rsMutex>>

PodCreatePut(r) ==
  /\ Handling(r, "pod", {"POST"}, "checked")
  /\ \E err \in Faults :
       /\ pods' \in Written(err, pods, Create(pods, call[r].name, Accepted(call[r].body)))
       /\ Respond(r, IF err THEN <<500>> ELSE <<201>>)
  /\ podMutex' = Absent
  /\ UNCHANGED <<nodes, replicasets, call, items, rsMutex>>

(* LoadPodIntoRequest, the filter of the routes with a name; a GET is then *)
(* answered from the loaded pod.                                           *)
PodLoad(r) ==
  /\ Handling(r, "pod", {"GET", "PUT", "DELETE"}, "start")
  /\ podMutex = Absent
  /\ \E err \in Faults :
       \/ err /\ Respond(r, <<500>>)
       \/ ~err /\ ~Exists(pods, call[r].name) /\ Respond(r, <<404>>)
       \/ /\ ~err /\ Exists(pods, call[r].name)
          /\ IF call[r].verb = "GET" THEN Respond(r, <<200>>) ELSE Continue(r, "loaded")
  /\ UNCHANGED <<storeVars, call, items, podMutex, rsMutex>>

(* PUT /pods/{name} after the filter: nothing is read again, the body is   *)
(* stored whatever the key holds by now.                                   *)
PodUpdate(r) ==
  /\ Handling(r, "pod", {"PUT"}, "loaded")
  /\ \/ ~BodyMatches(call[r]) /\ Respond(r, <<400>>) /\ UNCHANGED pods
     \/ /\ BodyMatches(call[r])
        /\ podMutex = Absent
        /\ \/ ~Validate(call[r].body) /\ Respond(r, <<400>>) /\ UNCHANGED pods
           \/ /\ Validate(call[r].body)
              /\ \E err \in Faults :
                   /\ pods' \in Written(err, pods, Update(pods, call[r].name, call[r].body))
                   /\ Respond(r, IF err THEN <<500>> ELSE <<200>>)
  /\ UNCHANGED <<nodes, replicasets, call, items, podMutex, rsMutex>>

PodDelete(r) ==
  /\ Handling(r, "pod", {"DELETE"}, "loaded")
  /\ podMutex = Absent
  /\ \E err \in Faults :
       /\ pods' \in Written(err, pods, Delete(pods, call[r].name))
       /\ Respond(r, IF err THEN <<500>> ELSE <<204>>)
  /\ UNCHANGED <<nodes, replicasets, call, items, podMutex, rsMutex>>

(* Mutant: the query parameter is ignored.                                 *)
SelectedAnywhere(c, pod) ==
  IF c.verb = "UNASSIGNED" THEN pod.status = "Pending" ELSE TRUE

(* GET /pods, of one node when the query names one, and                    *)
(* GET /pods/unassigned.                                                   *)
Selected(c, pod) ==
  IF c.verb = "UNASSIGNED" THEN pod.status = "Pending"
                           ELSE c.node \in {NoNode, pod.nodeName}

PodList(r) ==
  /\ Handling(r, "pod", {"LIST", "UNASSIGNED"}, "start")
  /\ podMutex = Absent
  /\ \E err \in Faults :
       \/ err /\ Respond(r, <<500>>) /\ UNCHANGED items
       \/ /\ ~err /\ Respond(r, <<200>>)
          /\ items' = [items EXCEPT ![r] =
               [p \in PodNames |->
                  IF p \in ListKeys(pods) /\ Selected(call[r], pods[p]) THEN pods[p] ELSE Absent]]
  /\ UNCHANGED <<storeVars, call, podMutex, rsMutex>>

-----------------------------------------------------------------------------
(* POST /nodes: the same check and Put, with nothing to keep two requests  *)
(* apart.                                                                  *)
NodeCreateGet(r) ==
  /\ Handling(r, "node", {"POST"}, "start")
  /\ \E err \in Faults :
       LET found == ~err /\ Exists(nodes, call[r].name) IN
       \/ call[r].body = Absent /\ Respond(r, <<400>>)
       \/ call[r].body # Absent /\ found /\ Respond(r, <<409>>)
       \/ call[r].body # Absent /\ ~found /\ Continue(r, "checked")
  /\ UNCHANGED <<storeVars, call, items, podMutex, rsMutex>>

NodeCreatePut(r) ==
  /\ Handling(r, "node", {"POST"}, "checked")
  /\ \E err \in Faults :
       /\ nodes' \in Written(err, nodes, Create(nodes, call[r].name, call[r].body))
       /\ Respond(r, IF err THEN <<500>> ELSE <<201>>)
  /\ UNCHANGED <<pods, replicasets, call, items, podMutex, rsMutex>>

NodeLoad(r) ==
  /\ Handling(r, "node", {"GET", "PUT", "DELETE"}, "start")
  /\ \E err \in Faults :
       \/ err /\ Respond(r, <<500>>)
       \/ ~err /\ ~Exists(nodes, call[r].name) /\ Respond(r, <<404>>)
       \/ /\ ~err /\ Exists(nodes, call[r].name)
          /\ IF call[r].verb = "GET" THEN Respond(r, <<200>>) ELSE Continue(r, "loaded")
  /\ UNCHANGED <<storeVars, call, items, podMutex, rsMutex>>

NodeUpdate(r) ==
  /\ Handling(r, "node", {"PUT"}, "loaded")
  /\ \/ ~BodyMatches(call[r]) /\ Respond(r, <<400>>) /\ UNCHANGED nodes
     \/ /\ BodyMatches(call[r])
        /\ \E err \in Faults :
             /\ nodes' \in Written(err, nodes, Update(nodes, call[r].name, call[r].body))
             /\ Respond(r, IF err THEN <<500>> ELSE <<200>>)
  /\ UNCHANGED <<pods, replicasets, call, items, podMutex, rsMutex>>

NodeDelete(r) ==
  /\ Handling(r, "node", {"DELETE"}, "loaded")
  /\ \E err \in Faults :
       /\ nodes' \in Written(err, nodes, Delete(nodes, call[r].name))
       /\ Respond(r, IF err THEN <<500>> ELSE <<204>>)
  /\ UNCHANGED <<pods, replicasets, call, items, podMutex, rsMutex>>

NodeList(r) ==
  /\ Handling(r, "node", {"LIST"}, "start")
  /\ \E err \in Faults : Respond(r, IF err THEN <<500>> ELSE <<200>>)
  /\ UNCHANGED <<storeVars, call, items, podMutex, rsMutex>>

-----------------------------------------------------------------------------
(* POST /replicasets: checked under the mutex, never validated.            *)
RSCreateGet(r) ==
  /\ Handling(r, "replicaset", {"POST"}, "start")
  /\ \/ call[r].body = Absent /\ Respond(r, <<400>>) /\ UNCHANGED rsMutex
     \/ /\ call[r].body # Absent
        /\ rsMutex = Absent
        /\ \E err \in Faults :
             LET found == ~err /\ Exists(replicasets, call[r].name) IN
             \/ found /\ Respond(r, <<409>>) /\ UNCHANGED rsMutex
             \/ ~found /\ Continue(r, "checked") /\ rsMutex' = r
  /\ UNCHANGED <<storeVars, call, items, podMutex>>

RSCreatePut(r) ==
  /\ Handling(r, "replicaset", {"POST"}, "checked")
  /\ \E err \in Faults :
       /\ replicasets' \in Written(err, replicasets, Create(replicasets, call[r].name, call[r].body))
       /\ Respond(r, IF err THEN <<500>> ELSE <<201>>)
  /\ rsMutex' = Absent
  /\ UNCHANGED <<pods, nodes, call, items, podMutex>>

(* Any error of Get is reported as "not found".                            *)
RSLoad(r) ==
  /\ Handling(r, "replicaset", {"GET", "PUT", "DELETE"}, "start")
  /\ rsMutex = Absent
  /\ \E err \in Faults :
       LET found == ~err /\ Exists(replicasets, call[r].name) IN
       \/ ~found /\ Respond(r, <<404>>)
       \/ found /\ IF call[r].verb = "GET" THEN Respond(r, <<200>>) ELSE Continue(r, "loaded")
  /\ UNCHANGED <<storeVars, call, items, podMutex, rsMutex>>

(* Mutant: the second lookup is made, but not under the mutex.             *)
RSUpdateGetUnlocked(r) ==
  /\ Handling(r, "replicaset", {"PUT"}, "loaded")
  /\ IF ~BodyMatches(call[r]) THEN Respond(r, <<400>>)
     ELSE IF ~Exists(replicasets, call[r].name) THEN Respond(r, <<500>>)
     ELSE Continue(r, "checked")
  /\ UNCHANGED <<storeVars, call, items, podMutex, rsMutex>>

(* PUT /replicasets/{name}: unlike the other registries, Update looks the  *)
(* object up once more, under the mutex, before it writes.                 *)
RSUpdateGet(r) ==
  /\ Handling(r, "replicaset", {"PUT"}, "loaded")
  /\ \/ ~BodyMatches(call[r]) /\ Respond(r, <<400>>) /\ UNCHANGED rsMutex
     \/ /\ BodyMatches(call[r])
        /\ rsMutex = Absent
        /\ \E err \in Faults :
             LET found == ~err /\ Exists(replicasets, call[r].name) IN
             \/ ~found /\ Respond(r, <<500>>) /\ UNCHANGED rsMutex
             \/ found /\ Continue(r, "checked") /\ rsMutex' = r
  /\ UNCHANGED <<storeVars, call, items, podMutex>>

RSUpdatePut(r) ==
  /\ Handling(r, "replicaset", {"PUT"}, "checked")
  /\ \E err \in Faults :
       /\ replicasets' \in Written(err, replicasets, Update(replicasets, call[r].name, call[r].body))
       /\ Respond(r, IF err THEN <<500>> ELSE <<200>>)
  /\ rsMutex' = Absent
  /\ UNCHANGED <<pods, nodes, call, items, podMutex>>

RSDelete(r) ==
  /\ Handling(r, "replicaset", {"DELETE"}, "loaded")
  /\ rsMutex = Absent
  /\ \E err \in Faults :
       /\ replicasets' \in Written(err, replicasets, Delete(replicasets, call[r].name))
       /\ Respond(r, IF err THEN <<500>> ELSE <<204>>)
  /\ UNCHANGED <<pods, nodes, call, items, podMutex, rsMutex>>

RSList(r) ==
  /\ Handling(r, "replicaset", {"LIST"}, "start")
  /\ rsMutex = Absent
  /\ \E err \in Faults : Respond(r, IF err THEN <<500>> ELSE <<200>>)
  /\ UNCHANGED <<storeVars, call, items, podMutex, rsMutex>>

-----------------------------------------------------------------------------
(* One step of the handler of request r.                                   *)
ServePod(r) ==
  \/ PodCreateGet(r) \/ PodCreatePut(r) \/ PodLoad(r)
  \/ PodUpdate(r) \/ PodDelete(r) \/ PodList(r)

ServeNode(r) ==
  \/ NodeCreateGet(r) \/ NodeCreatePut(r) \/ NodeLoad(r)
  \/ NodeUpdate(r) \/ NodeDelete(r) \/ NodeList(r)

ServeRS(r) ==
  \/ RSCreateGet(r) \/ RSCreatePut(r) \/ RSLoad(r)
  \/ RSUpdateGet(r) \/ RSUpdatePut(r) \/ RSDelete(r) \/ RSList(r)

Serve(r) == ServePod(r) \/ ServeNode(r) \/ ServeRS(r)

(* What a response may hold: nothing yet, one code, or the two codes of a  *)
(* conflict on POST /pods.                                                 *)
Answers == {<<>>, <<409, 201>>} \cup {<<code>> : code \in {200, 201, 204, 400, 404, 409, 500}}

ApiTypeOK ==
  /\ call \in [Requests -> Calls \cup {Absent}]
  /\ pc \in [Requests -> {"idle", "start", "loaded", "checked", "done"}]
  /\ resp \in [Requests -> Answers]
  /\ items \in [Requests -> [PodNames -> Pod \cup {Absent}]]
  /\ podMutex \in Requests \cup {Absent}
  /\ rsMutex \in Requests \cup {Absent}

ApiServerInit == StoreInit /\ ApiInit

ApiNext == \E u \in UserSlots : UserCall(u) \/ Serve(u)

(* The API server with its users alone.  A handler that waits for a mutex  *)
(* gets it in the end, since Go's mutexes do not starve a waiter; hence    *)
(* strong fairness for each handler.                                       *)
ApiSpec ==
  /\ ApiServerInit
  /\ [][ApiNext]_<<storeVars, apiVars>>
  /\ \A u \in UserSlots : SF_<<storeVars, apiVars>>(Serve(u))

-----------------------------------------------------------------------------
(* Type correctness of the API server and of what it keeps in etcd.        *)
ApiServerTypeOK == StoreTypeOK /\ ApiTypeOK

(* What CreatePod, Create and Update of the registries looked up is still  *)
(* true when they write: no other request of this process comes between    *)
(* their Get and their Put, because the mutex is held over both.           *)
CheckStillTrue ==
  \A r \in Requests : pc[r] = "checked" =>
    /\ call[r].kind = "pod" => podMutex = r /\ ~Exists(pods, call[r].name)
    /\ call[r].kind = "replicaset" =>
         rsMutex = r /\ (Exists(replicasets, call[r].name) <=> call[r].verb = "PUT")

(* The mutexes exclude and are given back, also when etcd fails: of the    *)
(* requests for pods, and of those for ReplicaSets, the one between its    *)
(* lookup and its write holds the mutex, and nobody else does.             *)
MutexesHeldInside ==
  \A r \in Requests :
    /\ podMutex = r <=> pc[r] = "checked" /\ call[r].kind = "pod"
    /\ rsMutex = r <=> pc[r] = "checked" /\ call[r].kind = "replicaset"

(* The request, and the code it was answered with, as seen by one registry.*)
RequestOf(kind) ==
  [r \in Requests |-> IF pc[r] # "idle" /\ call[r].kind = kind THEN call[r] ELSE Absent]

ResultOf(kind) ==
  [r \in Requests |-> IF pc[r] = "done" /\ call[r].kind = kind THEN resp[r][1] ELSE 0]

PodPromise == INSTANCE AtomicRegistry WITH
  Clients <- Requests, StrictUpdate <- FALSE,
  kv <- pods, request <- RequestOf("pod"), result <- ResultOf("pod")

ReplicaSetPromise == INSTANCE AtomicRegistry WITH
  Clients <- Requests, StrictUpdate <- TRUE,
  kv <- replicasets, request <- RequestOf("replicaset"), result <- ResultOf("replicaset")

(* PodRegistry, called from the handlers of one API server, behaves like   *)
(* an atomic registry with an update that may also create ("thread-safe    *)
(* operations", pod_registry.go:22).                                       *)
PodRegistryAtomic == PodPromise!Spec

(* ReplicaSetRegistry behaves like an atomic registry whose update only    *)
(* ever replaces: its second lookup is made under the mutex.               *)
ReplicaSetRegistryAtomic == ReplicaSetPromise!Spec

(* Every request is answered: no handler waits for a mutex for ever and no *)
(* path of a handler leaves one locked.  A user's slot is "done" between   *)
(* two of its requests and "idle" before the first.                        *)
EveryRequestAnswered ==
  \A u \in UserSlots : []<>(pc[u] \in {"idle", "done"})

(* CreatePod only ever creates: it never overwrites a pod.                 *)
CreateOnlyNew ==
  [][\A r \in Requests : PodCreatePut(r) /\ pods' # pods => ~Exists(pods, call[r].name)]_<<pods, pc>>

=============================================================================
