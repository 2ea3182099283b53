--------------------------- MODULE ApiServerProofs ---------------------------
(***************************************************************************)
(* Type correctness of the API server, what its mutexes are for, and that  *)
(* the registries of pods and ReplicaSets implement an atomic registry,    *)
(* for any number of requests in progress and whatever calls they carry.   *)
(***************************************************************************)
EXTENDS ApiServer, TLAPS

USE ZenonT(30), SMTT(120)

(* A request in progress carries a call, one that passed the check of a    *)
(* registry has a body, and one that is done has an answer.                *)
CallShape ==
  \A r \in Requests :
    /\ pc[r] # "idle" => call[r] # Absent
    /\ pc[r] = "checked" => call[r].body # Absent
    /\ pc[r] = "done" => resp[r] # <<>>

(* A call on one object of a kind has a name and a body of that kind.      *)
LEMMA CallTypes ==
  ASSUME NEW c \in Calls
  PROVE  /\ c.kind = "pod" /\ c.verb \notin {"LIST", "UNASSIGNED"} =>
              c.name \in PodNames /\ c.body \in Pod \cup {Absent}
         /\ c.kind = "node" /\ c.verb # "LIST" =>
              c.name \in NodeNames /\ c.body \in Node \cup {Absent}
         /\ c.kind = "replicaset" /\ c.verb # "LIST" =>
              c.name \in RSNames /\ c.body \in ReplicaSet \cup {Absent}
  BY SMTT(60) DEF Calls, CallsOf, ListCallsOf

(* The inductive form of ApiServerTypeOK.                                  *)
ApiInv == StoreTypeOK /\ ApiTypeOK /\ CallShape

(* A client that sends a call leaves the API server well typed.            *)
LEMMA IssueTypes ==
  ASSUME ApiTypeOK, CallShape, NEW r \in Requests, NEW c \in Calls, Issue(r, c)
  PROVE  ApiTypeOK' /\ CallShape'
  BY SMTT(60), UserAssumption DEF ApiTypeOK, CallShape, Issue, Answers, NoItems

(* The codes the handlers write.                                           *)
LEMMA Codes ==
  {<<200>>, <<201>>, <<204>>, <<400>>, <<404>>, <<409>>, <<500>>, <<409, 201>>} \subseteq Answers \ {<<>>}
  BY SMTT(60) DEF Answers

(* What all handler steps have in common: the request is answered, or it   *)
(* goes on, to a registry's write only with a body.                        *)
Moves(r) ==
  /\ pc[r] \notin {"idle", "done"}
  /\ \/ \E codes \in Answers \ {<<>>} : Respond(r, codes)
     \/ Continue(r, "loaded")
     \/ Continue(r, "checked") /\ call[r].body # Absent
  /\ UNCHANGED call

(* A handler of nodes leaves pods, ReplicaSets and both mutexes alone.     *)
LEMMA ServeNodeMoves ==
  ASSUME NEW r \in Requests, ServeNode(r)
  PROVE  /\ Moves(r) /\ call[r].kind = "node"
         /\ UNCHANGED <<pods, replicasets, items, podMutex, rsMutex>>
  <1> USE Codes DEF Moves, Handling, storeVars
  <1>1. CASE NodeCreateGet(r) BY SMTT(60), <1>1 DEF NodeCreateGet
  <1>2. CASE NodeCreatePut(r) BY SMTT(60), <1>2 DEF NodeCreatePut
  <1>3. CASE NodeLoad(r) BY SMTT(60), <1>3 DEF NodeLoad
  <1>4. CASE NodeUpdate(r) BY SMTT(60), <1>4 DEF NodeUpdate
  <1>5. CASE NodeDelete(r) BY SMTT(60), <1>5 DEF NodeDelete
  <1>6. CASE NodeList(r) BY SMTT(60), <1>6 DEF NodeList
  <1> QED BY SMTT(60), <1>1, <1>2, <1>3, <1>4, <1>5, <1>6 DEF ServeNode

(* A handler of pods leaves nodes, ReplicaSets and their mutex alone.      *)
LEMMA ServePodMoves ==
  ASSUME NEW r \in Requests, ServePod(r)
  PROVE  Moves(r) /\ call[r].kind = "pod" /\ UNCHANGED <<nodes, replicasets, rsMutex>>
  <1> USE Codes DEF Moves, Handling, storeVars
  <1>1. CASE PodCreateGet(r) BY SMTT(60), <1>1 DEF PodCreateGet
  <1>2. CASE PodCreatePut(r) BY SMTT(60), <1>2 DEF PodCreatePut
  <1>3. CASE PodLoad(r) BY SMTT(60), <1>3 DEF PodLoad
  <1>4. CASE PodUpdate(r) BY SMTT(60), <1>4 DEF PodUpdate
  <1>5. CASE PodDelete(r) BY SMTT(60), <1>5 DEF PodDelete
  <1>6. CASE PodList(r) BY SMTT(60), <1>6 DEF PodList
  <1> QED BY SMTT(60), <1>1, <1>2, <1>3, <1>4, <1>5, <1>6 DEF ServePod

(* A handler of ReplicaSets leaves pods, nodes and the pods' mutex alone.  *)
LEMMA ServeRSMoves ==
  ASSUME NEW r \in Requests, ServeRS(r)
  PROVE  Moves(r) /\ call[r].kind = "replicaset" /\ UNCHANGED <<pods, nodes, items, podMutex>>
  <1> USE Codes DEF Moves, Handling, storeVars
  <1>1. CASE RSCreateGet(r) BY SMTT(60), <1>1 DEF RSCreateGet
  <1>2. CASE RSCreatePut(r) BY SMTT(60), <1>2 DEF RSCreatePut
  <1>3. CASE RSLoad(r) BY SMTT(60), <1>3 DEF RSLoad
  <1>4. CASE RSUpdateGet(r) BY SMTT(60), <1>4 DEF RSUpdateGet, BodyMatches
  <1>5. CASE RSUpdatePut(r) BY SMTT(60), <1>5 DEF RSUpdatePut
  <1>6. CASE RSDelete(r) BY SMTT(60), <1>6 DEF RSDelete
  <1>7. CASE RSList(r) BY SMTT(60), <1>7 DEF RSList
  <1> QED BY SMTT(60), <1>1, <1>2, <1>3, <1>4, <1>5, <1>6, <1>7 DEF ServeRS

(* A handler step concerns its own request only.                           *)
LEMMA OwnRequest ==
  ASSUME ApiTypeOK, NEW r \in Requests, Moves(r)
  PROVE  /\ pc'[r] # "idle"
         /\ \A q \in Requests \ {r} : pc'[q] = pc[q] /\ resp'[q] = resp[q]
  <1>1. ASSUME NEW codes, Respond(r, codes)
        PROVE  pc'[r] # "idle" /\ \A q \in Requests \ {r} : pc'[q] = pc[q] /\ resp'[q] = resp[q]
    BY <1>1 DEF ApiTypeOK, Respond
  <1>2. ASSUME NEW at \in {"loaded", "checked"}, Continue(r, at)
        PROVE  pc'[r] # "idle" /\ \A q \in Requests \ {r} : pc'[q] = pc[q] /\ resp'[q] = resp[q]
    BY <1>2 DEF ApiTypeOK, Continue
  <1> QED BY <1>1, <1>2 DEF Moves

(* A handler step ends in the state it names.                              *)
LEMMA StateReached ==
  ASSUME ApiTypeOK, NEW r \in Requests
  PROVE  /\ \A codes : Respond(r, codes) => pc'[r] = "done"
         /\ \A at : Continue(r, at) => pc'[r] = at
  BY DEF ApiTypeOK, Respond, Continue

(* A handler step keeps the types of the API server's own state.           *)
LEMMA MoveTypes ==
  ASSUME ApiTypeOK, CallShape, NEW r \in Requests, Moves(r),
         items' \in [Requests -> [PodNames -> Pod \cup {Absent}]],
         podMutex' \in Requests \cup {Absent},
         rsMutex' \in Requests \cup {Absent}
  PROVE  ApiTypeOK' /\ CallShape'
  <1>0. /\ call \in [Requests -> Calls \cup {Absent}]
        /\ pc \in [Requests -> {"idle", "start", "loaded", "checked", "done"}]
        /\ resp \in [Requests -> Answers]
        /\ UNCHANGED call /\ pc[r] # "idle"
    BY DEF ApiTypeOK, Moves
  <1>1. ASSUME NEW codes \in Answers \ {<<>>}, Respond(r, codes)
        PROVE  /\ pc' \in [Requests -> {"idle", "start", "loaded", "checked", "done"}]
               /\ resp' \in [Requests -> Answers] /\ CallShape'
    BY <1>0, <1>1 DEF CallShape, Respond
  <1>2. ASSUME Continue(r, "loaded")
        PROVE  /\ pc' \in [Requests -> {"idle", "start", "loaded", "checked", "done"}]
               /\ resp' \in [Requests -> Answers] /\ CallShape'
    BY <1>0, <1>2 DEF CallShape, Continue
  <1>3. ASSUME Continue(r, "checked"), call[r].body # Absent
        PROVE  /\ pc' \in [Requests -> {"idle", "start", "loaded", "checked", "done"}]
               /\ resp' \in [Requests -> Answers] /\ CallShape'
    BY <1>0, <1>3 DEF CallShape, Continue
  <1>4. /\ pc' \in [Requests -> {"idle", "start", "loaded", "checked", "done"}]
        /\ resp' \in [Requests -> Answers] /\ CallShape'
    BY <1>1, <1>2, <1>3 DEF Moves
  <1> QED BY <1>0, <1>4 DEF ApiTypeOK

(* The steps of the pod handlers keep the types.                           *)
LEMMA ServePodTypes ==
  ASSUME ApiInv, NEW r \in Requests, ServePod(r)
  PROVE  ApiInv'
  <1>0. /\ StoreTypeOK /\ ApiTypeOK /\ CallShape
        /\ call[r] \in Calls /\ Moves(r) /\ UNCHANGED <<nodes, replicasets, rsMutex>>
    BY ServePodMoves DEF ApiInv, ApiTypeOK, CallShape, Moves
  <1>n. call[r].verb \notin {"LIST", "UNASSIGNED"} =>
          call[r].name \in PodNames /\ call[r].body \in Pod \cup {Absent}
    BY <1>0, ServePodMoves, CallTypes
  <1> DEFINE Rest == /\ items' \in [Requests -> [PodNames -> Pod \cup {Absent}]]
                     /\ podMutex' \in Requests \cup {Absent}
             Stored == pods' \in [PodNames -> Pod \cup {Absent}]
  <1> SUFFICES Rest /\ Stored
    BY <1>0, MoveTypes DEF ApiInv, ApiTypeOK, StoreTypeOK
  <1>1. CASE PodCreateGet(r)
    BY <1>0, <1>1 DEF PodCreateGet, storeVars, StoreTypeOK, ApiTypeOK
  <1>2. CASE PodCreatePut(r)
    <2>1. call[r].name \in PodNames /\ call[r].body \in Pod
      BY <1>0, <1>n, <1>2 DEF PodCreatePut, Handling, CallShape
    <2>2. Accepted(call[r].body) \in Pod
      BY <2>1 DEF Accepted, Pod, PodStatus
    <2>3. Stored
      BY <1>0, <1>2, <2>1, <2>2 DEF PodCreatePut, Written, Create, StoreTypeOK
    <2>4. Rest
      BY <1>0, <1>2 DEF PodCreatePut, ApiTypeOK
    <2> QED BY <2>3, <2>4
  <1>3. CASE PodLoad(r)
    BY <1>0, <1>3 DEF PodLoad, storeVars, StoreTypeOK, ApiTypeOK
  <1>4. CASE PodUpdate(r)
    <2>1. call[r].name \in PodNames /\ call[r].body \in Pod \cup {Absent}
      BY <1>n, <1>4 DEF PodUpdate, Handling
    <2>2. Stored
      BY <1>0, <1>4, <2>1 DEF PodUpdate, Written, Update, StoreTypeOK
    <2>3. Rest
      BY <1>0, <1>4 DEF PodUpdate, ApiTypeOK
    <2> QED BY <2>2, <2>3
  <1>5. CASE PodDelete(r)
    <2>1. Stored
      BY <1>0, <1>5 DEF PodDelete, Written, Delete, StoreTypeOK
    <2>2. Rest
      BY <1>0, <1>5 DEF PodDelete, ApiTypeOK
    <2> QED BY <2>1, <2>2
  <1>6. CASE PodList(r)
    <2>1. Stored
      BY <1>0, <1>6 DEF PodList, storeVars, StoreTypeOK
    <2>2. Rest
      BY SMTT(60), <1>0, <1>6 DEF PodList, ListKeys, ApiTypeOK, StoreTypeOK
    <2> QED BY <2>1, <2>2
  <1> QED BY <1>1, <1>2, <1>3, <1>4, <1>5, <1>6 DEF ServePod

(* The steps of the node handlers keep the types.                          *)
LEMMA ServeNodeTypes ==
  ASSUME ApiInv, NEW r \in Requests, ServeNode(r)
  PROVE  ApiInv'
  <1>0. /\ StoreTypeOK /\ ApiTypeOK /\ CallShape
        /\ call[r] \in Calls /\ Moves(r)
        /\ UNCHANGED <<pods, replicasets, items, podMutex, rsMutex>>
    BY ServeNodeMoves DEF ApiInv, ApiTypeOK, CallShape, Moves
  <1>n. call[r].verb # "LIST" => call[r].name \in NodeNames /\ call[r].body \in Node \cup {Absent}
    BY <1>0, ServeNodeMoves, CallTypes
  <1> SUFFICES nodes' \in [NodeNames -> Node \cup {Absent}]
    BY <1>0, MoveTypes DEF ApiInv, ApiTypeOK, StoreTypeOK
  <1>1. CASE NodeCreateGet(r)
    BY <1>0, <1>1 DEF NodeCreateGet, storeVars, StoreTypeOK
  <1>2. CASE NodeCreatePut(r)
    BY <1>0, <1>n, <1>2 DEF NodeCreatePut, Handling, Written, Create, StoreTypeOK
  <1>3. CASE NodeLoad(r)
    BY <1>0, <1>3 DEF NodeLoad, storeVars, StoreTypeOK
  <1>4. CASE NodeUpdate(r)
    BY <1>0, <1>n, <1>4 DEF NodeUpdate, Handling, Written, Update, StoreTypeOK
  <1>5. CASE NodeDelete(r)
    BY <1>0, <1>n, <1>5 DEF NodeDelete, Handling, Written, Delete, StoreTypeOK
  <1>6. CASE NodeList(r)
    BY <1>0, <1>6 DEF NodeList, storeVars, StoreTypeOK
  <1> QED BY <1>1, <1>2, <1>3, <1>4, <1>5, <1>6 DEF ServeNode

(* The steps of the ReplicaSet handlers keep the types.                    *)
LEMMA ServeRSTypes ==
  ASSUME ApiInv, NEW r \in Requests, ServeRS(r)
  PROVE  ApiInv'
  <1>0. /\ StoreTypeOK /\ ApiTypeOK /\ CallShape
        /\ call[r] \in Calls /\ Moves(r) /\ UNCHANGED <<pods, nodes, items, podMutex>>
    BY ServeRSMoves DEF ApiInv, ApiTypeOK, CallShape, Moves
  <1>n. call[r].verb # "LIST" => call[r].name \in RSNames /\ call[r].body \in ReplicaSet \cup {Absent}
    BY <1>0, ServeRSMoves, CallTypes
  <1> DEFINE Stored == /\ replicasets' \in [RSNames -> ReplicaSet \cup {Absent}]
                       /\ rsMutex' \in Requests \cup {Absent}
  <1> SUFFICES Stored
    BY <1>0, MoveTypes DEF ApiInv, ApiTypeOK, StoreTypeOK
  <1>t. replicasets \in [RSNames -> ReplicaSet \cup {Absent}] /\ rsMutex \in Requests \cup {Absent}
    BY <1>0 DEF ApiTypeOK, StoreTypeOK
  <1>1. CASE RSCreateGet(r)
    BY <1>t, <1>1 DEF RSCreateGet, storeVars
  <1>2. CASE RSCreatePut(r)
    BY <1>t, <1>n, <1>2 DEF RSCreatePut, Handling, Written, Create
  <1>3. CASE RSLoad(r)
    BY <1>t, <1>3 DEF RSLoad, storeVars
  <1>4. CASE RSUpdateGet(r)
    BY <1>t, <1>4 DEF RSUpdateGet, storeVars
  <1>5. CASE RSUpdatePut(r)
    BY <1>t, <1>n, <1>5 DEF RSUpdatePut, Handling, Written, Update
  <1>6. CASE RSDelete(r)
    BY <1>t, <1>n, <1>6 DEF RSDelete, Handling, Written, Delete
  <1>7. CASE RSList(r)
    BY <1>t, <1>7 DEF RSList, storeVars
  <1> QED BY <1>1, <1>2, <1>3, <1>4, <1>5, <1>6, <1>7 DEF ServeRS

(* One step of the API server with its users keeps the types.              *)
LEMMA ApiNextTypes ==
  ASSUME ApiInv, [ApiNext]_<<storeVars, apiVars>>
  PROVE  ApiInv'
  <1>1. ASSUME NEW u \in UserSlots, UserCall(u)
        PROVE  ApiInv'
    <2>1. PICK c \in UserCalls : Issue(u, c)
      BY <1>1 DEF UserCall
    <2>2. u \in Requests /\ c \in Calls
      BY UserAssumption DEF Requests
    <2>3. StoreTypeOK'
      BY <1>1 DEF ApiInv, UserCall, StoreTypeOK, storeVars
    <2> QED BY <2>1, <2>2, <2>3, IssueTypes DEF ApiInv
  <1>2. ASSUME NEW u \in UserSlots, Serve(u)
        PROVE  ApiInv'
    BY <1>2, ServePodTypes, ServeNodeTypes, ServeRSTypes DEF Serve, Requests
  <1>3. CASE UNCHANGED <<storeVars, apiVars>>
    BY <1>3 DEF ApiInv, storeVars, apiVars, StoreTypeOK, ApiTypeOK, CallShape
  <1> QED BY <1>1, <1>2, <1>3 DEF ApiNext

(* The API server starts well typed.                                       *)
LEMMA ApiInitTypes == StoreInit /\ ApiInit => ApiInv
  BY SMTT(60) DEF StoreInit, ApiInit, ApiInv, StoreTypeOK, ApiTypeOK, CallShape, Answers, NoItems

(* The API server keeps its own state and the objects in etcd well typed.  *)
THEOREM ApiServerTypes == ApiSpec => []ApiServerTypeOK
  <1>1. StoreInit /\ ApiInit => ApiInv
    BY ApiInitTypes
  <1>2. ApiInv /\ [ApiNext]_<<storeVars, apiVars>> => ApiInv'
    BY ApiNextTypes
  <1>3. ApiInv => ApiServerTypeOK
    BY DEF ApiInv, ApiServerTypeOK
  <1> QED BY <1>1, <1>2, <1>3, PTL DEF ApiSpec, ApiServerInit

-----------------------------------------------------------------------------
(***************************************************************************)
(* The mutexes.  A request is between the Get and the Put of a registry    *)
(* only while it holds that registry's mutex, so there is one such request *)
(* per registry, and every other write waits for it.                       *)
(***************************************************************************)

(* A step of a pod handler, with an etcd that answers, leaves every check  *)
(* that was made true: no other pod is being created while it writes.      *)
LEMMA ServePodChecks ==
  ASSUME ApiInv, CheckStillTrue, Faults = {FALSE}, NEW r \in Requests, ServePod(r)
  PROVE  CheckStillTrue'
  <1> DEFINE Free == podMutex \in {Absent, r} \/ UNCHANGED <<pods, podMutex>>
             Own == pc'[r] = "checked" => podMutex' = r /\ ~Exists(pods', call[r].name)
  <1>0. /\ call[r].kind = "pod" /\ UNCHANGED <<replicasets, call, rsMutex>>
        /\ \A q \in Requests \ {r} : pc'[q] = pc[q]
        /\ pc[r] = "checked" => podMutex = r
    BY ServePodMoves, OwnRequest DEF ApiInv, Moves, CheckStillTrue
  <1>1. PodCreateGet(r) => Free /\ Own
    BY SMTT(60), StateReached DEF ApiInv, PodCreateGet, storeVars, Exists
  <1>2. PodCreatePut(r) => Free /\ Own
    BY <1>0, StateReached DEF ApiInv, PodCreatePut, Handling
  <1>3. PodLoad(r) => Free /\ Own
    BY StateReached DEF ApiInv, PodLoad
  <1>4. PodUpdate(r) => Free /\ Own
    <2> SUFFICES ASSUME PodUpdate(r) PROVE Free /\ Own
      OBVIOUS
    <2>1. Respond(r, <<400>>) \/ \E err \in Faults : Respond(r, IF err THEN <<500>> ELSE <<200>>)
      BY DEF PodUpdate
    <2>2. pc'[r] = "done"
      BY <2>1, StateReached DEF ApiInv
    <2>3. podMutex = Absent \/ UNCHANGED <<pods, podMutex>>
      BY DEF PodUpdate
    <2> QED BY <2>2, <2>3
  <1>5. PodDelete(r) => Free /\ Own
    BY StateReached DEF ApiInv, PodDelete
  <1>6. PodList(r) => Free /\ Own
    BY StateReached DEF ApiInv, PodList
  <1>7. Free /\ Own
    BY <1>1, <1>2, <1>3, <1>4, <1>5, <1>6 DEF ServePod
  <1>8. ASSUME NEW q \in Requests \ {r}, pc'[q] = "checked", call[q].kind = "pod"
        PROVE  podMutex' = q /\ ~Exists(pods', call[q].name)
    <2>1. podMutex = q /\ ~Exists(pods, call[q].name) /\ q # Absent
      BY <1>0, <1>8, UserAssumption DEF CheckStillTrue, Requests
    <2> QED BY <1>7, <2>1 DEF Exists
  <1>9. ASSUME NEW q \in Requests, pc'[q] = "checked", call[q].kind = "replicaset"
        PROVE  /\ rsMutex' = q
               /\ Exists(replicasets', call[q].name) <=> call[q].verb = "PUT"
    BY <1>0, <1>9 DEF CheckStillTrue, Exists
  <1> QED BY <1>0, <1>7, <1>8, <1>9 DEF CheckStillTrue, Exists

(* A step of a node handler touches neither pods nor ReplicaSets.          *)
LEMMA ServeNodeChecks ==
  ASSUME ApiInv, CheckStillTrue, NEW r \in Requests, ServeNode(r)
  PROVE  CheckStillTrue'
  <1>1. /\ call[r].kind = "node" /\ UNCHANGED <<pods, replicasets, call, podMutex, rsMutex>>
        /\ \A q \in Requests \ {r} : pc'[q] = pc[q]
    BY ServeNodeMoves, OwnRequest DEF ApiInv, Moves
  <1> QED BY <1>1 DEF CheckStillTrue, Exists

(* A step of a ReplicaSet handler, with an etcd that answers, leaves every *)
(* check that was made true: no other ReplicaSet is being written.         *)
LEMMA ServeRSChecks ==
  ASSUME ApiInv, CheckStillTrue, Faults = {FALSE}, NEW r \in Requests, ServeRS(r)
  PROVE  CheckStillTrue'
  <1> DEFINE Free == rsMutex \in {Absent, r} \/ UNCHANGED <<replicasets, rsMutex>>
             Own == pc'[r] = "checked" =>
                      /\ rsMutex' = r
                      /\ Exists(replicasets', call[r].name) <=> call[r].verb = "PUT"
  <1>0. /\ call[r].kind = "replicaset" /\ UNCHANGED <<pods, call, podMutex>>
        /\ \A q \in Requests \ {r} : pc'[q] = pc[q]
        /\ pc[r] = "checked" => rsMutex = r
    BY ServeRSMoves, OwnRequest DEF ApiInv, Moves, CheckStillTrue
  <1>1. RSCreateGet(r) => Free /\ Own
    BY StateReached DEF ApiInv, RSCreateGet, Handling, storeVars, Exists
  <1>2. RSCreatePut(r) => Free /\ Own
    BY <1>0, StateReached DEF ApiInv, RSCreatePut, Handling
  <1>3. RSLoad(r) => Free /\ Own
    BY StateReached DEF ApiInv, RSLoad
  <1>4. RSUpdateGet(r) => Free /\ Own
    BY StateReached DEF ApiInv, RSUpdateGet, Handling, storeVars, Exists
  <1>5. RSUpdatePut(r) => Free /\ Own
    BY <1>0, StateReached DEF ApiInv, RSUpdatePut, Handling
  <1>6. RSDelete(r) => Free /\ Own
    BY StateReached DEF ApiInv, RSDelete
  <1>7. RSList(r) => Free /\ Own
    BY StateReached DEF ApiInv, RSList
  <1>8. Free /\ Own
    BY <1>1, <1>2, <1>3, <1>4, <1>5, <1>6, <1>7 DEF ServeRS
  <1>9. ASSUME NEW q \in Requests \ {r}, pc'[q] = "checked", call[q].kind = "replicaset"
        PROVE  /\ rsMutex' = q
               /\ Exists(replicasets', call[q].name) <=> call[q].verb = "PUT"
    <2>1. /\ rsMutex = q /\ q # Absent
          /\ Exists(replicasets, call[q].name) <=> call[q].verb = "PUT"
      BY <1>0, <1>9, UserAssumption DEF CheckStillTrue, Requests
    <2> QED BY <1>8, <2>1 DEF Exists
  <1>10. ASSUME NEW q \in Requests, pc'[q] = "checked", call[q].kind = "pod"
         PROVE  podMutex' = q /\ ~Exists(pods', call[q].name)
    BY <1>0, <1>10 DEF CheckStillTrue, Exists
  <1> QED BY <1>0, <1>8, <1>9, <1>10 DEF CheckStillTrue, Exists

(* With an etcd that answers, what CreatePod, Create and Update looked up  *)
(* under their mutex still holds when they write.                          *)
THEOREM ChecksHold ==
  ASSUME Faults = {FALSE}
  PROVE  ApiSpec => []CheckStillTrue
  <1>1. StoreInit /\ ApiInit => ApiInv /\ CheckStillTrue
    BY ApiInitTypes DEF ApiInit, CheckStillTrue
  <1>2. ApiInv /\ CheckStillTrue /\ [ApiNext]_<<storeVars, apiVars>> => CheckStillTrue'
    <2> SUFFICES ASSUME ApiInv, CheckStillTrue, [ApiNext]_<<storeVars, apiVars>>
                 PROVE  CheckStillTrue'
      OBVIOUS
    <2>1. ASSUME NEW u \in UserSlots, UserCall(u)
          PROVE  CheckStillTrue'
      <3>1. PICK c \in UserCalls : Issue(u, c)
        BY <2>1 DEF UserCall
      <3>2. /\ u \in Requests /\ pc'[u] = "start"
            /\ \A q \in Requests \ {u} : pc'[q] = pc[q] /\ call'[q] = call[q]
        BY <3>1 DEF Issue, ApiInv, ApiTypeOK, Requests
      <3>3. UNCHANGED <<pods, replicasets, podMutex, rsMutex>>
        BY <2>1, <3>1 DEF UserCall, Issue, storeVars
      <3> QED BY <3>2, <3>3 DEF CheckStillTrue, Exists
    <2>2. ASSUME NEW u \in UserSlots, Serve(u)
          PROVE  CheckStillTrue'
      BY <2>2, ServePodChecks, ServeNodeChecks, ServeRSChecks DEF Serve, Requests
    <2>3. CASE UNCHANGED <<storeVars, apiVars>>
      BY <2>3 DEF storeVars, apiVars, CheckStillTrue, Exists
    <2> QED BY <2>1, <2>2, <2>3 DEF ApiNext
  <1>3. ApiInv /\ [ApiNext]_<<storeVars, apiVars>> => ApiInv'
    BY ApiNextTypes
  <1> QED BY <1>1, <1>2, <1>3, PTL DEF ApiSpec, ApiServerInit

(***************************************************************************)
(* The mutexes are given back, whatever etcd answers.  A step takes the    *)
(* mutex of its registry and is then inside, or leaves and gives it back,  *)
(* or does neither.                                                        *)
(***************************************************************************)
Passes(r, mutex, new) ==
  \/ pc'[r] = "checked" /\ mutex = Absent /\ new = r
  \/ pc'[r] # "checked" /\ pc[r] = "checked" /\ new = Absent
  \/ pc'[r] # "checked" /\ pc[r] # "checked" /\ new = mutex

(* How a step of a pod handler treats the pods' mutex.                     *)
LEMMA ServePodPasses ==
  ASSUME ApiInv, NEW r \in Requests, ServePod(r)
  PROVE  Passes(r, podMutex, podMutex')
  <1> USE StateReached DEF ApiInv, Handling, Passes
  <1>1. CASE PodCreateGet(r)
    BY SMTT(60), <1>1 DEF PodCreateGet
  <1>2. CASE PodCreatePut(r)
    BY <1>2 DEF PodCreatePut
  <1>3. CASE PodLoad(r)
    BY <1>3 DEF PodLoad
  <1>4. CASE PodUpdate(r)
    <2>1. Respond(r, <<400>>) \/ \E err \in Faults : Respond(r, IF err THEN <<500>> ELSE <<200>>)
      BY SMTT(60), <1>4 DEF PodUpdate
    <2> QED BY <1>4, <2>1 DEF PodUpdate
  <1>5. CASE PodDelete(r)
    BY <1>5 DEF PodDelete
  <1>6. CASE PodList(r)
    BY <1>6 DEF PodList
  <1> QED BY <1>1, <1>2, <1>3, <1>4, <1>5, <1>6 DEF ServePod

(* How a step of a ReplicaSet handler treats the ReplicaSets' mutex.       *)
LEMMA ServeRSPasses ==
  ASSUME ApiInv, NEW r \in Requests, ServeRS(r)
  PROVE  Passes(r, rsMutex, rsMutex')
  <1> USE StateReached DEF ApiInv, Handling, Passes
  <1>1. CASE RSCreateGet(r)
    BY <1>1 DEF RSCreateGet
  <1>2. CASE RSCreatePut(r)
    BY <1>2 DEF RSCreatePut
  <1>3. CASE RSLoad(r)
    BY <1>3 DEF RSLoad
  <1>4. CASE RSUpdateGet(r)
    BY <1>4 DEF RSUpdateGet
  <1>5. CASE RSUpdatePut(r)
    BY <1>5 DEF RSUpdatePut
  <1>6. CASE RSDelete(r)
    BY <1>6 DEF RSDelete
  <1>7. CASE RSList(r)
    BY <1>7 DEF RSList
  <1> QED BY <1>1, <1>2, <1>3, <1>4, <1>5, <1>6, <1>7 DEF ServeRS

(* One step of a handler leaves the holders of the mutexes inside.         *)
LEMMA ServeMutexes ==
  ASSUME ApiInv, MutexesHeldInside, NEW r \in Requests, Serve(r)
  PROVE  MutexesHeldInside'
  <1>0. UNCHANGED call /\ (\A q \in Requests \ {r} : pc'[q] = pc[q]) /\ Absent \notin Requests
    BY ServePodMoves, ServeNodeMoves, ServeRSMoves, OwnRequest, UserAssumption
       DEF ApiInv, Moves, Serve, Requests
  <1>1. CASE ServePod(r)
    <2>1. call[r].kind = "pod" /\ UNCHANGED rsMutex /\ Passes(r, podMutex, podMutex')
      BY <1>1, ServePodMoves, ServePodPasses
    <2> QED BY <1>0, <2>1 DEF MutexesHeldInside, Passes
  <1>2. CASE ServeNode(r)
    <2>1. call[r].kind = "node" /\ UNCHANGED <<podMutex, rsMutex>>
      BY <1>2, ServeNodeMoves
    <2> QED BY <1>0, <2>1 DEF MutexesHeldInside
  <1>3. CASE ServeRS(r)
    <2>1. call[r].kind = "replicaset" /\ UNCHANGED podMutex /\ Passes(r, rsMutex, rsMutex')
      BY <1>3, ServeRSMoves, ServeRSPasses
    <2> QED BY <1>0, <2>1 DEF MutexesHeldInside, Passes
  <1> QED BY <1>1, <1>2, <1>3 DEF Serve

(* Whether or not etcd answers, the mutex of a registry is held by the     *)
(* request between its lookup and its write and by no other, so a request  *)
(* that is answered holds none: the safety half of EveryRequestAnswered.   *)
THEOREM MutexesAreReleased == ApiSpec => []MutexesHeldInside
  <1>1. StoreInit /\ ApiInit => ApiInv /\ MutexesHeldInside
    BY ApiInitTypes, UserAssumption DEF ApiInit, MutexesHeldInside, Requests
  <1>2. ApiInv /\ MutexesHeldInside /\ [ApiNext]_<<storeVars, apiVars>> => MutexesHeldInside'
    <2> SUFFICES ASSUME ApiInv, MutexesHeldInside, [ApiNext]_<<storeVars, apiVars>>
                 PROVE  MutexesHeldInside'
      OBVIOUS
    <2>1. ASSUME NEW u \in UserSlots, UserCall(u)
          PROVE  MutexesHeldInside'
      <3>1. PICK c \in UserCalls : Issue(u, c)
        BY <2>1 DEF UserCall
      <3>2. /\ u \in Requests /\ pc'[u] = "start" /\ pc[u] # "checked"
            /\ \A q \in Requests \ {u} : pc'[q] = pc[q] /\ call'[q] = call[q]
        BY <2>1, <3>1 DEF UserCall, Issue, ApiInv, ApiTypeOK, Requests
      <3>3. UNCHANGED <<podMutex, rsMutex>>
        BY <3>1 DEF Issue
      <3> QED BY <3>2, <3>3 DEF MutexesHeldInside
    <2>2. ASSUME NEW u \in UserSlots, Serve(u)
          PROVE  MutexesHeldInside'
      BY <2>2, ServeMutexes DEF Requests
    <2>3. CASE UNCHANGED <<storeVars, apiVars>>
      BY <2>3 DEF apiVars, MutexesHeldInside
    <2> QED BY <2>1, <2>2, <2>3 DEF ApiNext
  <1>3. ApiInv /\ [ApiNext]_<<storeVars, apiVars>> => ApiInv'
    BY ApiNextTypes
  <1> QED BY <1>1, <1>2, <1>3, PTL DEF ApiSpec, ApiServerInit

-----------------------------------------------------------------------------
(***************************************************************************)
(* The registries are atomic.  A step that answers a request is the        *)
(* instant at which the abstract request takes effect; every other step of *)
(* a handler is invisible to its registry and to the others.               *)
(***************************************************************************)

(* Answering a request is seen by its own registry as the answer.          *)
LEMMA AnswerSeen ==
  ASSUME ApiInv, NEW r \in Requests, NEW codes, Respond(r, codes), UNCHANGED call,
         pc[r] \notin {"idle", "done"}, NEW kind, call[r].kind = kind
  PROVE  /\ RequestOf(kind)' = RequestOf(kind)
         /\ RequestOf(kind)[r] = call[r] /\ call[r] # Absent
         /\ ResultOf(kind)[r] = 0
         /\ ResultOf(kind)' = [ResultOf(kind) EXCEPT ![r] = codes[1]]
  <1>1. /\ pc \in [Requests -> {"idle", "start", "loaded", "checked", "done"}]
        /\ resp \in [Requests -> Answers]
        /\ call[r] # Absent
    BY DEF ApiInv, ApiTypeOK, CallShape
  <1>2. RequestOf(kind)' = RequestOf(kind)
    BY <1>1 DEF RequestOf, Respond
  <1>3. RequestOf(kind)[r] = call[r] /\ ResultOf(kind)[r] = 0
    BY <1>1 DEF RequestOf, ResultOf
  <1>4. ResultOf(kind)' = [ResultOf(kind) EXCEPT ![r] = codes[1]]
    BY <1>1 DEF ResultOf, Respond
  <1> QED BY <1>1, <1>2, <1>3, <1>4

(* The other registries do not see it.                                     *)
LEMMA AnswerUnseen ==
  ASSUME ApiInv, NEW r \in Requests, NEW codes, Respond(r, codes), UNCHANGED call,
         pc[r] \notin {"idle", "done"}, NEW kind, call[r].kind # kind
  PROVE  RequestOf(kind)' = RequestOf(kind) /\ ResultOf(kind)' = ResultOf(kind)
  <1>1. pc \in [Requests -> {"idle", "start", "loaded", "checked", "done"}] /\ resp \in [Requests -> Answers]
    BY DEF ApiInv, ApiTypeOK
  <1>2. RequestOf(kind)' = RequestOf(kind)
    BY <1>1 DEF RequestOf, Respond
  <1>3. ResultOf(kind)' = ResultOf(kind)
    BY <1>1 DEF ResultOf, Respond
  <1> QED BY <1>2, <1>3

(* A handler that goes on is not seen at all.                              *)
LEMMA ContinueUnseen ==
  ASSUME ApiInv, NEW kind, NEW r \in Requests, NEW at \in {"loaded", "checked"}, Continue(r, at),
         UNCHANGED call, pc[r] \notin {"idle", "done"}
  PROVE  RequestOf(kind)' = RequestOf(kind) /\ ResultOf(kind)' = ResultOf(kind)
  BY DEF ApiInv, ApiTypeOK, Continue, RequestOf, ResultOf

(* The step of a user is a new request for every registry.                 *)
LEMMA CallSeen ==
  ASSUME ApiInv, NEW kind, NEW r \in Requests, NEW c \in Calls, Issue(r, c),
         pc[r] \in {"idle", "done"}
  PROVE  /\ RequestOf(kind)[r] = Absent \/ ResultOf(kind)[r] # 0
         /\ RequestOf(kind)' = [RequestOf(kind) EXCEPT ![r] = RequestOf(kind)'[r]]
         /\ ResultOf(kind)' = [ResultOf(kind) EXCEPT ![r] = 0]
  <1>1. /\ pc \in [Requests -> {"idle", "start", "loaded", "checked", "done"}]
        /\ resp \in [Requests -> Answers]
        /\ pc[r] = "done" => resp[r] \in Answers \ {<<>>}
    BY DEF ApiInv, ApiTypeOK, CallShape
  <1>2. pc[r] = "done" => resp[r][1] # 0
    BY SMTT(60), <1>1 DEF Answers
  <1>3. RequestOf(kind)[r] = Absent \/ ResultOf(kind)[r] # 0
    BY <1>2 DEF RequestOf, ResultOf
  <1>4. RequestOf(kind)' = [RequestOf(kind) EXCEPT ![r] = RequestOf(kind)'[r]]
    BY <1>1 DEF Issue, RequestOf, ApiInv, ApiTypeOK
  <1>5. ResultOf(kind)' = [ResultOf(kind) EXCEPT ![r] = 0]
    BY <1>1 DEF Issue, ResultOf, ApiInv, ApiTypeOK
  <1> QED BY <1>3, <1>4, <1>5

(* A step of a handler of another kind is not seen either.                 *)
LEMMA ElsewhereUnseen ==
  ASSUME ApiInv, NEW kind, NEW r \in Requests, Moves(r), call[r].kind # kind
  PROVE  RequestOf(kind)' = RequestOf(kind) /\ ResultOf(kind)' = ResultOf(kind)
  <1>1. ASSUME NEW codes, Respond(r, codes)
        PROVE  RequestOf(kind)' = RequestOf(kind) /\ ResultOf(kind)' = ResultOf(kind)
    BY <1>1, AnswerUnseen DEF Moves
  <1>2. ASSUME NEW at \in {"loaded", "checked"}, Continue(r, at)
        PROVE  RequestOf(kind)' = RequestOf(kind) /\ ResultOf(kind)' = ResultOf(kind)
    BY <1>2, ContinueUnseen DEF Moves
  <1> QED BY <1>1, <1>2 DEF Moves

(* Every step of a pod handler is a step of an atomic registry, or none.   *)
LEMMA ServePodAtomic ==
  ASSUME ApiInv, CheckStillTrue, Faults = {FALSE}, NEW r \in Requests, ServePod(r)
  PROVE  [PodPromise!Next]_(PodPromise!vars)
  <1>0. /\ call[r].kind = "pod" /\ pc[r] \notin {"idle", "done"} /\ UNCHANGED call
        /\ pods \in [PodNames -> Pod \cup {Absent}]
    BY ServePodMoves DEF Moves, ApiInv, StoreTypeOK
  <1>a. ASSUME NEW codes, Respond(r, codes), NEW verbs, call[r].verb \in verbs
        PROVE  PodPromise!Answer(r, verbs, codes[1])
    <2>1. /\ RequestOf("pod")' = RequestOf("pod")
          /\ RequestOf("pod")[r] = call[r] /\ call[r] # Absent
          /\ ResultOf("pod")[r] = 0
          /\ ResultOf("pod")' = [ResultOf("pod") EXCEPT ![r] = codes[1]]
      BY <1>0, <1>a, AnswerSeen
    <2> QED BY <1>a, <2>1 DEF PodPromise!Answer
  <1>b. ASSUME NEW at \in {"loaded", "checked"}, Continue(r, at), UNCHANGED pods
        PROVE  UNCHANGED PodPromise!vars
    BY <1>0, <1>b, ContinueUnseen DEF PodPromise!vars
  <1>c. RequestOf("pod")[r] = call[r]
    BY <1>0 DEF RequestOf
  <1>h. PodPromise!Holds(r) <=> Exists(pods, call[r].name)
    BY <1>c DEF PodPromise!Holds, Exists
  <1>n. /\ call[r] \in Calls
        /\ call[r].verb \notin {"LIST", "UNASSIGNED"} =>
              call[r].name \in PodNames /\ call[r].body \in Pod \cup {Absent}
    BY <1>0, CallTypes DEF ApiInv, ApiTypeOK, CallShape
  <1>1. CASE PodCreateGet(r)
    <2>0. /\ call[r].verb = "POST" /\ UNCHANGED pods
          /\ \/ Respond(r, <<400>>)
             \/ Respond(r, <<409, 201>>) /\ Exists(pods, call[r].name)
             \/ Continue(r, "checked")
      BY <1>1 DEF PodCreateGet, Handling, storeVars
    <2>1. CASE Respond(r, <<400>>)
      <3>1. PodPromise!Answer(r, {"POST", "PUT"}, 400) BY SMTT(60), <1>a, <2>0, <2>1
      <3>2. PodPromise!Refused(r) BY <2>0, <3>1 DEF PodPromise!Refused
      <3> QED BY <3>2 DEF PodPromise!Next
    <2>2. CASE Respond(r, <<409, 201>>) /\ Exists(pods, call[r].name)
      <3>1. PodPromise!Answer(r, {"POST"}, 409) BY SMTT(60), <1>a, <2>0, <2>2
      <3>2. PodPromise!Conflict(r) BY <1>h, <2>0, <2>2, <3>1 DEF PodPromise!Conflict
      <3> QED BY <3>2 DEF PodPromise!Next
    <2>3. CASE Continue(r, "checked")
      BY <1>b, <2>0, <2>3
    <2> QED BY <2>0, <2>1, <2>2, <2>3
  <1>2. CASE PodCreatePut(r)
    <2>0. /\ call[r].verb = "POST" /\ pc[r] = "checked" /\ Respond(r, <<201>>)
          /\ pods' = [pods EXCEPT ![call[r].name] = Accepted(call[r].body)]
      BY <1>2 DEF PodCreatePut, Handling, Written, Create
    <2>1. PodPromise!Answer(r, {"POST"}, 201)
      BY SMTT(60), <1>a, <2>0
    <2>2. ~PodPromise!Holds(r)
      BY <1>0, <1>h, <2>0 DEF CheckStillTrue
    <2>3. call[r].body \in Pod /\ call[r].name \in PodNames
      BY <1>n, <2>0 DEF ApiInv, CallShape
    <2>4. Accepted(call[r].body) # Absent
      BY <2>3, ObjectsAssumption DEF Accepted, Pod, PodStatus
    <2>5. pods'[call[r].name] = Accepted(call[r].body)
      BY <1>0, <2>0, <2>3
    <2>6. PodPromise!Created(r)
      BY <1>c, <2>0, <2>1, <2>2, <2>4, <2>5 DEF PodPromise!Created
    <2> QED BY <2>6 DEF PodPromise!Next
  <1>3. CASE PodLoad(r)
    <2>0. /\ call[r].verb \in {"GET", "PUT", "DELETE"} /\ UNCHANGED pods
          /\ \/ Respond(r, <<404>>) /\ ~Exists(pods, call[r].name)
             \/ Respond(r, <<200>>) /\ Exists(pods, call[r].name) /\ call[r].verb = "GET"
             \/ Continue(r, "loaded")
      BY <1>3 DEF PodLoad, Handling, storeVars
    <2>1. CASE Respond(r, <<404>>) /\ ~Exists(pods, call[r].name)
      <3>1. PodPromise!Answer(r, {"GET", "PUT", "DELETE"}, 404) BY SMTT(60), <1>a, <2>0, <2>1
      <3>2. PodPromise!Missing(r) BY <1>h, <2>0, <2>1, <3>1 DEF PodPromise!Missing
      <3> QED BY <3>2 DEF PodPromise!Next
    <2>2. CASE Respond(r, <<200>>) /\ Exists(pods, call[r].name) /\ call[r].verb = "GET"
      <3>1. PodPromise!Answer(r, {"GET"}, 200) BY SMTT(60), <1>a, <2>2
      <3>2. PodPromise!Found(r) BY <1>h, <2>0, <2>2, <3>1 DEF PodPromise!Found
      <3> QED BY <3>2 DEF PodPromise!Next
    <2>3. CASE Continue(r, "loaded")
      BY <1>b, <2>0, <2>3
    <2> QED BY <2>0, <2>1, <2>2, <2>3
  <1>4. CASE PodUpdate(r)
    <2>0. /\ call[r].verb = "PUT"
          /\ \/ Respond(r, <<400>>) /\ UNCHANGED pods
             \/ Respond(r, <<200>>) /\ pods' = [pods EXCEPT ![call[r].name] = call[r].body]
      BY <1>4 DEF PodUpdate, Handling, Written, Update
    <2>1. CASE Respond(r, <<400>>) /\ UNCHANGED pods
      <3>1. PodPromise!Answer(r, {"POST", "PUT"}, 400) BY SMTT(60), <1>a, <2>0, <2>1
      <3>2. PodPromise!Refused(r) BY <2>1, <3>1 DEF PodPromise!Refused
      <3> QED BY <3>2 DEF PodPromise!Next
    <2>2. CASE Respond(r, <<200>>) /\ pods' = [pods EXCEPT ![call[r].name] = call[r].body]
      <3>1. PodPromise!Answer(r, {"PUT"}, 200) BY SMTT(60), <1>a, <2>0, <2>2
      <3>2. PodPromise!Updated(r) BY <1>c, <2>2, <3>1 DEF PodPromise!Updated
      <3> QED BY <3>2 DEF PodPromise!Next
    <2> QED BY <2>0, <2>1, <2>2
  <1>5. CASE PodDelete(r)
    <2>0. /\ call[r].verb = "DELETE" /\ Respond(r, <<204>>)
          /\ pods' = [pods EXCEPT ![call[r].name] = Absent]
      BY <1>5 DEF PodDelete, Handling, Written, Delete
    <2>1. PodPromise!Answer(r, {"DELETE"}, 204) BY SMTT(60), <1>a, <2>0
    <2>2. PodPromise!Deleted(r) BY <1>c, <2>0, <2>1 DEF PodPromise!Deleted
    <2> QED BY <2>2 DEF PodPromise!Next
  <1>6. CASE PodList(r)
    <2>0. call[r].verb \in {"LIST", "UNASSIGNED"} /\ Respond(r, <<200>>) /\ UNCHANGED pods
      BY <1>6 DEF PodList, Handling, storeVars
    <2>1. PodPromise!Answer(r, {"LIST", "UNASSIGNED"}, 200) BY SMTT(60), <1>a, <2>0
    <2>2. PodPromise!Listed(r) BY <2>0, <2>1 DEF PodPromise!Listed
    <2> QED BY <2>2 DEF PodPromise!Next
  <1> QED BY <1>1, <1>2, <1>3, <1>4, <1>5, <1>6 DEF ServePod

(* Every step of a ReplicaSet handler is a step of an atomic registry      *)
(* whose update only replaces, or none.                                    *)
LEMMA ServeRSAtomic ==
  ASSUME ApiInv, CheckStillTrue, Faults = {FALSE}, NEW r \in Requests, ServeRS(r)
  PROVE  [ReplicaSetPromise!Next]_(ReplicaSetPromise!vars)
  <1>0. /\ call[r].kind = "replicaset" /\ pc[r] \notin {"idle", "done"} /\ UNCHANGED call
        /\ replicasets \in [RSNames -> ReplicaSet \cup {Absent}]
    BY ServeRSMoves DEF Moves, ApiInv, StoreTypeOK
  <1>a. ASSUME NEW codes, Respond(r, codes), NEW verbs, call[r].verb \in verbs
        PROVE  ReplicaSetPromise!Answer(r, verbs, codes[1])
    <2>1. /\ RequestOf("replicaset")' = RequestOf("replicaset")
          /\ RequestOf("replicaset")[r] = call[r] /\ call[r] # Absent
          /\ ResultOf("replicaset")[r] = 0
          /\ ResultOf("replicaset")' = [ResultOf("replicaset") EXCEPT ![r] = codes[1]]
      BY <1>0, <1>a, AnswerSeen
    <2> QED BY <1>a, <2>1 DEF ReplicaSetPromise!Answer
  <1>b. ASSUME NEW at \in {"loaded", "checked"}, Continue(r, at), UNCHANGED replicasets
        PROVE  UNCHANGED ReplicaSetPromise!vars
    BY <1>0, <1>b, ContinueUnseen DEF ReplicaSetPromise!vars
  <1>c. RequestOf("replicaset")[r] = call[r]
    BY <1>0 DEF RequestOf
  <1>h. ReplicaSetPromise!Holds(r) <=> Exists(replicasets, call[r].name)
    BY <1>c DEF ReplicaSetPromise!Holds, Exists
  <1>n. /\ call[r] \in Calls
        /\ call[r].verb # "LIST" =>
              call[r].name \in RSNames /\ call[r].body \in ReplicaSet \cup {Absent}
    BY <1>0, CallTypes DEF ApiInv, ApiTypeOK, CallShape
  <1>1. CASE RSCreateGet(r)
    <2>0. /\ call[r].verb = "POST" /\ UNCHANGED replicasets
          /\ \/ Respond(r, <<400>>)
             \/ Respond(r, <<409>>) /\ Exists(replicasets, call[r].name)
             \/ Continue(r, "checked")
      BY <1>1 DEF RSCreateGet, Handling, storeVars
    <2>1. CASE Respond(r, <<400>>)
      <3>1. ReplicaSetPromise!Answer(r, {"POST", "PUT"}, 400) BY SMTT(60), <1>a, <2>0, <2>1
      <3>2. ReplicaSetPromise!Refused(r) BY <2>0, <3>1 DEF ReplicaSetPromise!Refused
      <3> QED BY <3>2 DEF ReplicaSetPromise!Next
    <2>2. CASE Respond(r, <<409>>) /\ Exists(replicasets, call[r].name)
      <3>1. ReplicaSetPromise!Answer(r, {"POST"}, 409) BY SMTT(60), <1>a, <2>0, <2>2
      <3>2. ReplicaSetPromise!Conflict(r) BY <1>h, <2>0, <2>2, <3>1 DEF ReplicaSetPromise!Conflict
      <3> QED BY <3>2 DEF ReplicaSetPromise!Next
    <2>3. CASE Continue(r, "checked")
      BY <1>b, <2>0, <2>3
    <2> QED BY <2>0, <2>1, <2>2, <2>3
  <1>2. CASE RSCreatePut(r)
    <2>0. /\ call[r].verb = "POST" /\ pc[r] = "checked" /\ Respond(r, <<201>>)
          /\ replicasets' = [replicasets EXCEPT ![call[r].name] = call[r].body]
      BY <1>2 DEF RSCreatePut, Handling, Written, Create
    <2>1. ReplicaSetPromise!Answer(r, {"POST"}, 201)
      BY SMTT(60), <1>a, <2>0
    <2>2. ~ReplicaSetPromise!Holds(r)
      BY <1>0, <1>h, <2>0 DEF CheckStillTrue
    <2>3. call[r].body # Absent /\ call[r].name \in RSNames
      BY <1>n, <2>0 DEF ApiInv, CallShape
    <2>4. replicasets'[call[r].name] = call[r].body
      BY <1>0, <2>0, <2>3
    <2>5. ReplicaSetPromise!Created(r)
      BY <1>c, <2>0, <2>1, <2>2, <2>3, <2>4 DEF ReplicaSetPromise!Created
    <2> QED BY <2>5 DEF ReplicaSetPromise!Next
  <1>3. CASE RSLoad(r)
    <2>0. /\ call[r].verb \in {"GET", "PUT", "DELETE"} /\ UNCHANGED replicasets
          /\ \/ Respond(r, <<404>>) /\ ~Exists(replicasets, call[r].name)
             \/ Respond(r, <<200>>) /\ Exists(replicasets, call[r].name) /\ call[r].verb = "GET"
             \/ Continue(r, "loaded")
      BY <1>3 DEF RSLoad, Handling, storeVars
    <2>1. CASE Respond(r, <<404>>) /\ ~Exists(replicasets, call[r].name)
      <3>1. ReplicaSetPromise!Answer(r, {"GET", "PUT", "DELETE"}, 404) BY <1>a, <2>0, <2>1
      <3>2. ReplicaSetPromise!Missing(r) BY <1>h, <2>0, <2>1, <3>1 DEF ReplicaSetPromise!Missing
      <3> QED BY <3>2 DEF ReplicaSetPromise!Next
    <2>2. CASE Respond(r, <<200>>) /\ Exists(replicasets, call[r].name) /\ call[r].verb = "GET"
      <3>1. ReplicaSetPromise!Answer(r, {"GET"}, 200) BY <1>a, <2>2
      <3>2. ReplicaSetPromise!Found(r) BY <1>h, <2>0, <2>2, <3>1 DEF ReplicaSetPromise!Found
      <3> QED BY <3>2 DEF ReplicaSetPromise!Next
    <2>3. CASE Continue(r, "loaded")
      BY <1>b, <2>0, <2>3
    <2> QED BY <2>0, <2>1, <2>2, <2>3
  <1>4. CASE RSUpdateGet(r)
    <2>0. /\ call[r].verb = "PUT" /\ UNCHANGED replicasets
          /\ \/ Respond(r, <<400>>)
             \/ Respond(r, <<500>>) /\ ~Exists(replicasets, call[r].name)
             \/ Continue(r, "checked")
      BY <1>4 DEF RSUpdateGet, Handling, storeVars
    <2>1. CASE Respond(r, <<400>>)
      <3>1. ReplicaSetPromise!Answer(r, {"POST", "PUT"}, 400) BY SMTT(60), <1>a, <2>0, <2>1
      <3>2. ReplicaSetPromise!Refused(r) BY <2>0, <3>1 DEF ReplicaSetPromise!Refused
      <3> QED BY <3>2 DEF ReplicaSetPromise!Next
    <2>2. CASE Respond(r, <<500>>) /\ ~Exists(replicasets, call[r].name)
      <3>1. ReplicaSetPromise!Answer(r, {"PUT"}, 500) BY SMTT(60), <1>a, <2>0, <2>2
      <3>2. ReplicaSetPromise!Refused(r) BY <1>h, <2>0, <2>2, <3>1 DEF ReplicaSetPromise!Refused
      <3> QED BY <3>2 DEF ReplicaSetPromise!Next
    <2>3. CASE Continue(r, "checked")
      BY <1>b, <2>0, <2>3
    <2> QED BY <2>0, <2>1, <2>2, <2>3
  <1>7. CASE RSUpdatePut(r)
    <2>0. /\ call[r].verb = "PUT" /\ pc[r] = "checked" /\ Respond(r, <<200>>)
          /\ replicasets' = [replicasets EXCEPT ![call[r].name] = call[r].body]
      BY <1>7 DEF RSUpdatePut, Handling, Written, Update
    <2>1. ReplicaSetPromise!Answer(r, {"PUT"}, 200) BY SMTT(60), <1>a, <2>0
    <2>2. ReplicaSetPromise!Holds(r) BY <1>0, <1>h, <2>0 DEF CheckStillTrue
    <2>3. ReplicaSetPromise!Updated(r) BY <1>c, <2>0, <2>1, <2>2 DEF ReplicaSetPromise!Updated
    <2> QED BY <2>3 DEF ReplicaSetPromise!Next
  <1>5. CASE RSDelete(r)
    <2>0. /\ call[r].verb = "DELETE" /\ Respond(r, <<204>>)
          /\ replicasets' = [replicasets EXCEPT ![call[r].name] = Absent]
      BY <1>5 DEF RSDelete, Handling, Written, Delete
    <2>1. ReplicaSetPromise!Answer(r, {"DELETE"}, 204) BY <1>a, <2>0
    <2>2. ReplicaSetPromise!Deleted(r) BY <1>c, <2>0, <2>1 DEF ReplicaSetPromise!Deleted
    <2> QED BY <2>2 DEF ReplicaSetPromise!Next
  <1>6. CASE RSList(r)
    <2>0. call[r].verb = "LIST" /\ Respond(r, <<200>>) /\ UNCHANGED replicasets
      BY <1>6 DEF RSList, Handling, storeVars
    <2>1. ReplicaSetPromise!Answer(r, {"LIST", "UNASSIGNED"}, 200) BY SMTT(60), <1>a, <2>0
    <2>2. ReplicaSetPromise!Listed(r) BY <2>0, <2>1 DEF ReplicaSetPromise!Listed
    <2> QED BY <2>2 DEF ReplicaSetPromise!Next
  <1> QED BY <1>1, <1>2, <1>3, <1>4, <1>5, <1>6, <1>7 DEF ServeRS

(* With an etcd that answers, PodRegistry behaves like an atomic registry, *)
(* for any number of requests of one API server.                           *)
THEOREM PodRegistryRefined ==
  ASSUME Faults = {FALSE}
  PROVE  ApiSpec => PodRegistryAtomic
  <1>1. StoreInit /\ ApiInit => PodPromise!Init
    BY DEF StoreInit, ApiInit, PodPromise!Init, RequestOf, ResultOf
  <1>2. ApiInv /\ CheckStillTrue /\ [ApiNext]_<<storeVars, apiVars>> => [PodPromise!Next]_(PodPromise!vars)
    <2> SUFFICES ASSUME ApiInv, CheckStillTrue, [ApiNext]_<<storeVars, apiVars>>
                 PROVE  [PodPromise!Next]_(PodPromise!vars)
      OBVIOUS
    <2>1. ASSUME NEW u \in UserSlots, UserCall(u)
          PROVE  PodPromise!Next
      <3>1. PICK c \in UserCalls : Issue(u, c)
        BY <2>1 DEF UserCall
      <3>2. u \in Requests /\ c \in Calls /\ pc[u] \in {"idle", "done"} /\ UNCHANGED pods
        BY <2>1, UserAssumption DEF Requests, UserCall, storeVars
      <3>3. PodPromise!Invoke(u)
        BY <3>1, <3>2, CallSeen DEF PodPromise!Invoke
      <3> QED BY <3>2, <3>3 DEF PodPromise!Next
    <2>2. ASSUME NEW u \in UserSlots, Serve(u)
          PROVE  [PodPromise!Next]_(PodPromise!vars)
      <3>1. u \in Requests
        BY DEF Requests
      <3>2. CASE ServeNode(u)
        BY <3>1, <3>2, ServeNodeMoves, ElsewhereUnseen DEF PodPromise!vars
      <3>3. CASE ServeRS(u)
        BY <3>1, <3>3, ServeRSMoves, ElsewhereUnseen DEF PodPromise!vars
      <3> QED BY <2>2, <3>1, <3>2, <3>3, ServePodAtomic DEF Serve
    <2>3. CASE UNCHANGED <<storeVars, apiVars>>
      BY <2>3 DEF storeVars, apiVars, PodPromise!vars, RequestOf, ResultOf
    <2> QED BY <2>1, <2>2, <2>3 DEF ApiNext
  <1>3. ApiInv /\ [ApiNext]_<<storeVars, apiVars>> => ApiInv'
    BY ApiNextTypes
  <1>4. StoreInit /\ ApiInit => ApiInv
    BY ApiInitTypes
  <1>5. ApiSpec => []CheckStillTrue
    BY ChecksHold
  <1> QED BY <1>1, <1>2, <1>3, <1>4, <1>5, PTL DEF ApiSpec, ApiServerInit, PodRegistryAtomic, PodPromise!Spec

(* With an etcd that answers, ReplicaSetRegistry behaves like an atomic    *)
(* registry whose update never creates.                                    *)
THEOREM ReplicaSetRegistryRefined ==
  ASSUME Faults = {FALSE}
  PROVE  ApiSpec => ReplicaSetRegistryAtomic
  <1>1. StoreInit /\ ApiInit => ReplicaSetPromise!Init
    BY DEF StoreInit, ApiInit, ReplicaSetPromise!Init, RequestOf, ResultOf
  <1>2. ApiInv /\ CheckStillTrue /\ [ApiNext]_<<storeVars, apiVars>> => [ReplicaSetPromise!Next]_(ReplicaSetPromise!vars)
    <2> SUFFICES ASSUME ApiInv, CheckStillTrue, [ApiNext]_<<storeVars, apiVars>>
                 PROVE  [ReplicaSetPromise!Next]_(ReplicaSetPromise!vars)
      OBVIOUS
    <2>1. ASSUME NEW u \in UserSlots, UserCall(u)
          PROVE  ReplicaSetPromise!Next
      <3>1. PICK c \in UserCalls : Issue(u, c)
        BY <2>1 DEF UserCall
      <3>2. u \in Requests /\ c \in Calls /\ pc[u] \in {"idle", "done"} /\ UNCHANGED replicasets
        BY <2>1, UserAssumption DEF Requests, UserCall, storeVars
      <3>3. ReplicaSetPromise!Invoke(u)
        BY <3>1, <3>2, CallSeen DEF ReplicaSetPromise!Invoke
      <3> QED BY <3>2, <3>3 DEF ReplicaSetPromise!Next
    <2>2. ASSUME NEW u \in UserSlots, Serve(u)
          PROVE  [ReplicaSetPromise!Next]_(ReplicaSetPromise!vars)
      <3>1. u \in Requests
        BY DEF Requests
      <3>2. CASE ServeNode(u)
        BY <3>1, <3>2, ServeNodeMoves, ElsewhereUnseen DEF ReplicaSetPromise!vars
      <3>3. CASE ServePod(u)
        BY <3>1, <3>3, ServePodMoves, ElsewhereUnseen DEF ReplicaSetPromise!vars
      <3> QED BY <2>2, <3>1, <3>2, <3>3, ServeRSAtomic DEF Serve
    <2>3. CASE UNCHANGED <<storeVars, apiVars>>
      BY <2>3 DEF storeVars, apiVars, ReplicaSetPromise!vars, RequestOf, ResultOf
    <2> QED BY <2>1, <2>2, <2>3 DEF ApiNext
  <1>3. ApiInv /\ [ApiNext]_<<storeVars, apiVars>> => ApiInv'
    BY ApiNextTypes
  <1>4. StoreInit /\ ApiInit => ApiInv
    BY ApiInitTypes
  <1>5. ApiSpec => []CheckStillTrue
    BY ChecksHold
  <1> QED BY <1>1, <1>2, <1>3, <1>4, <1>5, PTL DEF ApiSpec, ApiServerInit, ReplicaSetRegistryAtomic, ReplicaSetPromise!Spec
=============================================================================
