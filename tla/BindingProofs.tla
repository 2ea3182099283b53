--------------------------- MODULE BindingProofs ----------------------------
(***************************************************************************)
(* The bindings of pods to nodes.  Four actions write pods.  CreatePod,    *)
(* called by the API server or by the controller, writes under a name that *)
(* is free.  The scheduler writes over what it listed, which is still      *)
(* there unchanged and without a node.  A PUT comes from a kubelet, for a  *)
(* pod that has that kubelet's node, and carries the same node.            *)
(* BindingInv says this of every copy of a pod that a process holds: each  *)
(* step keeps it, and every binding.                                       *)
(***************************************************************************)
EXTENDS ClusterLemmas

USE ZenonT(30), SMTT(120)

Inv == TypeInv /\ BindingInv

(* Who sends which calls on pods.                                          *)
LEMMA PodCallers ==
  ASSUME UsersOnlyCreate, Inv, NEW r \in Requests, pc[r] # "idle", call[r].kind = "pod"
  PROVE  /\ call[r].verb # "DELETE"
         /\ call[r].verb = "POST" /\ call[r].body # Absent =>
              /\ call[r].name \in UserPodNames
              /\ call[r].body.nodeName = NoNode
              /\ call[r].body.status \in {"", "Pending"}
         /\ call[r].verb = "PUT" =>
              \E n \in NodeNames : call[r].body \in Pod /\ Held(n, call[r].name, call[r].body)
  <1>1. CASE r \in UserSlots
    <2>1. call[r] \in UserCalls
      BY <1>1 DEF Inv, BindingInv, CallsExpected
    <2> QED BY <2>1 DEF UsersOnlyCreate
  <1>2. ASSUME NEW n \in NodeNames, r = WatchSlot(n)
        PROVE  call[r].verb = "LIST"
    <2>1. call[r] \in {RegisterCall(n), PollCall(n)}
      BY <1>2 DEF Inv, BindingInv, CallsExpected
    <2> QED BY <2>1 DEF RegisterCall, PollCall
  <1>3. ASSUME NEW n \in NodeNames, r = StatusSlot(n)
        PROVE  /\ call[r].verb = "PUT"
               /\ call[r].body \in Pod /\ Held(n, call[r].name, call[r].body)
    <2>1. PICK p \in PodNames, pod \in Pod : call[r] = StatusCall(p, pod) /\ Held(n, p, pod)
      BY <1>3 DEF Inv, BindingInv, CallsExpected
    <2> QED BY <2>1 DEF StatusCall
  <1> QED BY <1>1, <1>2, <1>3, Slots

-----------------------------------------------------------------------------
(* A write of pod p: a pod that has no node is new or still waits for one, *)
(* and a pod that has a node keeps it.                                     *)
PodWrite(p, pod) ==
  /\ p \in PodNames /\ pod \in Pod
  /\ pods' = [pods EXCEPT ![p] = pod]
  /\ pod.status = "Pending" <=> pod.nodeName = NoNode
  /\ Exists(pods, p) /\ pods[p].nodeName # NoNode => pod.nodeName = pods[p].nodeName

(* CreatePod of the API server.                                            *)
LEMMA CreateWrite ==
  ASSUME UsersOnlyCreate, Inv, NEW r \in Requests, PodCreatePut(r)
  PROVE  /\ ~Exists(pods, call[r].name)
         /\ call[r].name \in UserPodNames
         /\ podMutex = r
         /\ PodWrite(call[r].name, Accepted(call[r].body))
         /\ Accepted(call[r].body).nodeName = NoNode
  <1>1. pc[r] = "checked" /\ call[r].kind = "pod" /\ call[r].verb = "POST"
    BY DEF PodCreatePut, Handling
  <1>2. podMutex = r /\ ~Exists(pods, call[r].name)
    BY <1>1 DEF Inv, BindingInv, NewNameFree
  <1>3. call[r].body # Absent /\ call[r] # Absent
    BY <1>1 DEF Inv, TypeInv, CallShape
  <1>4. call[r].name \in PodNames /\ call[r].body \in Pod
    BY <1>1, <1>3, CallTypes DEF Inv, TypeInv, TypeOK, ApiTypeOK
  <1>5. /\ call[r].name \in UserPodNames
        /\ call[r].body.nodeName = NoNode
        /\ call[r].body.status \in {"", "Pending"}
    BY <1>1, <1>3, PodCallers
  <1>6. /\ Accepted(call[r].body) \in Pod
        /\ Accepted(call[r].body).nodeName = NoNode
        /\ Accepted(call[r].body).status = "Pending"
    BY <1>4, <1>5 DEF Accepted, Pod, PodStatus
  <1>7. pods' = [pods EXCEPT ![call[r].name] = Accepted(call[r].body)]
    BY DEF PodCreatePut, Written, Create, UsersOnlyCreate
  <1> QED BY <1>2, <1>4, <1>5, <1>6, <1>7 DEF PodWrite

(* A PUT that stores its body: a status report of a kubelet.               *)
LEMMA ReportWrite ==
  ASSUME UsersOnlyCreate, Inv, NEW r \in Requests, PodUpdate(r)
  PROVE  \/ UNCHANGED pods
         \/ /\ Exists(pods, call[r].name)
            /\ pods[call[r].name].nodeName # NoNode
            /\ podMutex = Absent
            /\ PodWrite(call[r].name, call[r].body)
  <1>1. pc[r] = "loaded" /\ call[r].kind = "pod" /\ call[r].verb = "PUT"
    BY DEF PodUpdate, Handling
  <1>2. PICK n \in NodeNames : call[r].body \in Pod /\ Held(n, call[r].name, call[r].body)
    BY <1>1, PodCallers
  <1>3. call[r].name \in PodNames
    BY <1>1, CallTypes DEF Inv, TypeInv, TypeOK, ApiTypeOK, CallShape
  <1>4. \/ UNCHANGED pods
        \/ podMutex = Absent /\ pods' = [pods EXCEPT ![call[r].name] = call[r].body]
    BY DEF PodUpdate, Written, Update, UsersOnlyCreate
  <1> QED BY <1>2, <1>3, <1>4, ObjectsAssumption DEF PodWrite, Held

(* The scheduler binds a pod that waits for a node.                        *)
LEMMA BindWrite ==
  ASSUME Inv, SchedAssign
  PROVE  \/ UNCHANGED pods /\ EndPass
         \/ \E p \in queue, pod \in Pod :
              /\ Exists(pods, p)
              /\ PodWrite(p, pod)
              /\ EndPass \/ (queue' = queue \ {p} /\ listed' = [listed EXCEPT ![p] = Absent])
  <1>1. PICK p \in queue, n \in available :
          /\ pods' = IF Validate(listed[p]) THEN Update(pods, p, Bind(listed[p], n)) ELSE pods
          /\ IF queue = {p} \/ ~Validate(listed[p])
               THEN EndPass
               ELSE /\ queue' = queue \ {p}
                    /\ listed' = [listed EXCEPT ![p] = Absent]
                    /\ UNCHANGED <<spc, available>>
    BY DEF SchedAssign
  <1>2. p \in PodNames /\ n \in NodeNames /\ listed[p] \in Pod
    BY DEF Inv, TypeInv, TypeOK, SchedTypeOK, SchedShape
  <1>3. Exists(pods, p) /\ pods[p].nodeName = NoNode
    BY DEF Inv, BindingInv, ListedIsCurrent, PendingUnbound, TypeInv, TypeOK, SchedTypeOK
  <1>4. /\ Bind(listed[p], n) \in Pod
        /\ Bind(listed[p], n).nodeName = n
        /\ Bind(listed[p], n).status = "Scheduled"
    BY <1>2 DEF Bind, Pod, PodStatus
  <1>5. n # NoNode
    BY <1>2, ObjectsAssumption
  <1>6. CASE ~Validate(listed[p])
    BY <1>1, <1>6
  <1>7. CASE Validate(listed[p])
    <2>1. PodWrite(p, Bind(listed[p], n))
      BY <1>1, <1>2, <1>3, <1>4, <1>5, <1>7 DEF PodWrite, Update
    <2> QED BY <1>1, <1>3, <1>4, <1>7, <2>1
  <1> QED BY <1>6, <1>7

(* CreatePod of the controller.                                            *)
LEMMA TemplateWrite ==
  ASSUME Inv, ReconcileCreatePut
  PROVE  newPod \in GeneratedNames /\ ~Exists(pods, newPod) /\ PodWrite(newPod, TemplatePod)
  <1>1. newPod \in GeneratedNames /\ ~Exists(pods, newPod)
    BY DEF Inv, BindingInv, NewNameFree, ReconcileCreatePut
  <1>2. TemplatePod \in Pod
    BY TemplatePodType DEF ReconcileCreatePut, Inv, TypeInv, TypeOK, CtlTypeOK, CtlShape
  <1>3. TemplatePod.status = "Pending" /\ TemplatePod.nodeName = NoNode
    BY DEF TemplatePod
  <1> QED BY <1>1, <1>2, <1>3 DEF PodWrite, ReconcileCreatePut, Create, PodNames

-----------------------------------------------------------------------------
(* What BindingStable says of one step.                                    *)
BoundStays ==
  \A p \in PodNames :
    Exists(pods, p) /\ pods[p].nodeName # NoNode =>
      pods'[p] # Absent /\ pods'[p].nodeName = pods[p].nodeName

(* A write keeps pods pending until they have a node, and keeps the node.  *)
LEMMA WriteKeepsBinding ==
  ASSUME Inv, UNCHANGED pods \/ \E p \in PodNames, pod \in Pod : PodWrite(p, pod)
  PROVE  PendingUnbound' /\ BoundStays
  <1>0. pods \in [PodNames -> Pod \cup {Absent}] /\ PendingUnbound
    BY DEF Inv, TypeInv, TypeOK, StoreTypeOK, BindingInv
  <1>1. CASE UNCHANGED pods
    BY <1>0, <1>1 DEF PendingUnbound, BoundStays, Exists
  <1>2. ASSUME NEW p \in PodNames, NEW pod \in Pod, PodWrite(p, pod)
        PROVE  PendingUnbound' /\ BoundStays
    BY <1>0, <1>2, ObjectsAssumption DEF PodWrite, PendingUnbound, BoundStays, Exists
  <1> QED BY <1>1, <1>2

(* Copies that carry a binding go on to carry it.                          *)
LEMMA HeldStays ==
  ASSUME BoundStays, NEW n \in NodeNames, NEW p \in PodNames, NEW pod, Held(n, p, pod)
  PROVE  /\ pod # Absent /\ pod.nodeName = n /\ pod.status # "Pending"
         /\ pods'[p] # Absent /\ pods'[p].nodeName = n
  BY ObjectsAssumption DEF BoundStays, Held, Exists

(* So do the kubelets' maps and containers, as long as they are not        *)
(* touched and what a poll returned is held.                               *)
LEMMA CopiesStay ==
  ASSUME Inv, BoundStays, UNCHANGED kubeVars,
         \A n \in NodeNames, p \in PodNames :
           items'[WatchSlot(n)][p] # Absent => Held(n, p, items'[WatchSlot(n)][p])
  PROVE  CopiesHeld'
  <1> SUFFICES ASSUME NEW n \in NodeNames
               PROVE  /\ \A p \in PodNames :
                           /\ known'[n][p] # Absent => Held(n, p, known[n][p])'
                           /\ items'[WatchSlot(n)][p] # Absent => Held(n, p, items[WatchSlot(n)][p])'
                           /\ running'[n][p] > 0 => known'[n][p] # Absent
                      /\ sweep'[n] \subseteq ListKeys(known'[n])
                      /\ \A c \in docker'[n] : Exists(pods', c.pod) /\ pods'[c.pod].nodeName = n
    BY DEF CopiesHeld
  <1>0. CopiesHeld /\ UNCHANGED <<known, running, sweep, docker>>
    BY DEF Inv, BindingInv, kubeVars
  <1>1. ASSUME NEW p \in PodNames, known'[n][p] # Absent PROVE Held(n, p, known[n][p])'
    <2>1. Held(n, p, known[n][p])
      BY <1>0, <1>1 DEF CopiesHeld
    <2> QED BY SMTT(60), <1>0, <2>1, HeldStays DEF Held, Exists
  <1>2. ASSUME NEW p \in PodNames, items'[WatchSlot(n)][p] # Absent
        PROVE  Held(n, p, items[WatchSlot(n)][p])'
    BY <1>2, HeldStays DEF Held, Exists
  <1>3. ASSUME NEW c \in docker[n]
        PROVE  Exists(pods', c.pod) /\ pods'[c.pod].nodeName = n
    <2>1. c.pod \in PodNames
      BY SMTT(60) DEF Inv, TypeInv, TypeOK, KubeTypeOK, DockerContainer
    <2> QED BY SMTT(60), <1>0, <2>1, ObjectsAssumption DEF CopiesHeld, BoundStays, Exists
  <1> QED BY <1>0, <1>1, <1>2, <1>3 DEF CopiesHeld

(* A handler step leaves the calls as they are.                            *)
LEMMA CallsStay ==
  ASSUME Inv, BoundStays, UNCHANGED call, NEW r \in Requests, pc[r] # "idle",
         \A q \in Requests \ {r} : pc'[q] = pc[q]
  PROVE  CallsExpected'
  <1>0. CallsExpected
    BY DEF Inv, BindingInv
  <1>1. \A u \in UserSlots : pc'[u] # "idle" => call'[u] \in UserCalls
    BY <1>0 DEF CallsExpected, Requests
  <1>2. ASSUME NEW n \in NodeNames, pc'[WatchSlot(n)] # "idle"
        PROVE  call'[WatchSlot(n)] \in {RegisterCall(n), PollCall(n)}
    BY <1>0, <1>2, Slots DEF CallsExpected
  <1>3. ASSUME NEW n \in NodeNames, pc'[StatusSlot(n)] # "idle"
        PROVE  \E p \in PodNames, pod \in Pod :
                 call'[StatusSlot(n)] = StatusCall(p, pod) /\ Held(n, p, pod)'
    <2>1. pc[StatusSlot(n)] # "idle"
      BY <1>3, Slots
    <2>2. PICK p \in PodNames, pod \in Pod :
            call[StatusSlot(n)] = StatusCall(p, pod) /\ Held(n, p, pod)
      BY <1>0, <2>1 DEF CallsExpected
    <2>3. Held(n, p, pod)'
      BY <2>2, HeldStays DEF Held, Exists
    <2> QED BY <2>2, <2>3
  <1> QED BY <1>1, <1>2, <1>3 DEF CallsExpected, RegisterCall, PollCall, StatusCall

-----------------------------------------------------------------------------
(* A handler step that writes no pod and passes no check of CreatePod.     *)
LEMMA QuietServe ==
  ASSUME Inv, NEW r \in Requests, pc[r] # "idle",
         UNCHANGED <<pods, call, podMutex, schedVars, ctlVars, kubeVars>>,
         \A q \in Requests \ {r} : pc'[q] = pc[q],
         pc'[r] = "checked" => call[r].kind # "pod",
         \A n \in NodeNames, p \in PodNames :
           items'[WatchSlot(n)][p] # Absent => Held(n, p, items'[WatchSlot(n)][p])
  PROVE  BindingInv' /\ BoundStays
  <1>1. PendingUnbound' /\ BoundStays
    BY WriteKeepsBinding
  <1>2. ListedIsCurrent'
    BY DEF Inv, BindingInv, ListedIsCurrent, schedVars, Exists
  <1>3. NewNameFree'
    BY DEF Inv, BindingInv, NewNameFree, ctlVars, Exists
  <1>4. CopiesHeld'
    BY <1>1, CopiesStay
  <1>5. CallsExpected'
    BY <1>1, CallsStay
  <1> QED BY <1>1, <1>2, <1>3, <1>4, <1>5 DEF BindingInv

(* What the kubelets' polls returned, while no list request is served.     *)
LEMMA PollsHeld ==
  ASSUME Inv, UNCHANGED items
  PROVE  \A n \in NodeNames, p \in PodNames :
           items'[WatchSlot(n)][p] # Absent => Held(n, p, items'[WatchSlot(n)][p])
  BY DEF Inv, BindingInv, CopiesHeld

(* The handlers of nodes and ReplicaSets leave the pods alone.             *)
LEMMA OtherHandlers ==
  ASSUME ApiTypeOK, NEW r \in Requests, ServeNode(r) \/ ServeRS(r)
  PROVE  /\ pc[r] # "idle" /\ call[r].kind # "pod"
         /\ UNCHANGED <<pods, call, podMutex, items>>
         /\ \A q \in Requests \ {r} : pc'[q] = pc[q]
  <1>1. Moves(r) /\ call[r].kind # "pod" /\ UNCHANGED <<pods, podMutex, items>>
    BY ServeNodeMoves, ServeRSMoves
  <1> QED BY <1>1, OwnRequest DEF Moves

(* So they keep every binding.                                             *)
LEMMA ServeOtherBinding ==
  ASSUME Inv, NEW r \in Requests, ServeNode(r) \/ ServeRS(r),
         UNCHANGED <<schedVars, ctlVars, kubeVars>>
  PROVE  BindingInv' /\ BoundStays
  <1>1. ApiTypeOK
    BY DEF Inv, TypeInv, TypeOK
  <1> QED BY <1>1, OtherHandlers, PollsHeld, QuietServe

(* What a kubelet's poll returns are pods of its node.                     *)
LEMMA PollAnswered ==
  ASSUME Inv, NEW r \in Requests, PodList(r)
  PROVE  \A n \in NodeNames, p \in PodNames :
           items'[WatchSlot(n)][p] # Absent => Held(n, p, items'[WatchSlot(n)][p])
  <1> SUFFICES ASSUME NEW n \in NodeNames, NEW p \in PodNames, items'[WatchSlot(n)][p] # Absent
               PROVE  Held(n, p, items'[WatchSlot(n)][p])
    OBVIOUS
  <1>0. /\ items \in [Requests -> [PodNames -> Pod \cup {Absent}]]
        /\ WatchSlot(n) \in Requests
    BY Slots DEF Inv, TypeInv, TypeOK, ApiTypeOK
  <1>1. CASE items'[WatchSlot(n)] = items[WatchSlot(n)]
    BY <1>1 DEF Inv, BindingInv, CopiesHeld
  <1>2. CASE items'[WatchSlot(n)] # items[WatchSlot(n)]
    <2>1. r = WatchSlot(n)
      BY <1>0, <1>2 DEF PodList
    <2>2. items'[r][p] = IF p \in ListKeys(pods) /\ Selected(call[r], pods[p]) THEN pods[p] ELSE Absent
      BY <1>0, <1>2, <2>1 DEF PodList
    <2>3. call[r] = PollCall(n)
      BY SMTT(60), <2>1 DEF PodList, Handling, Inv, BindingInv, CallsExpected, RegisterCall
    <2>4. Exists(pods, p) /\ pods[p].nodeName = n /\ items'[r][p] = pods[p]
      BY <2>1, <2>2, <2>3, ObjectsAssumption DEF ListKeys, Exists, Selected, PollCall
    <2>5. pods[p].status # "Pending"
      BY <2>4, ObjectsAssumption DEF Inv, BindingInv, PendingUnbound
    <2> QED BY <2>1, <2>4, <2>5 DEF Held, Exists
  <1> QED BY <1>1, <1>2

(* The handlers of pods.                                                   *)
LEMMA ServePodBinding ==
  ASSUME UsersOnlyCreate, Inv, NEW r \in Requests, ServePod(r),
         UNCHANGED <<schedVars, ctlVars, kubeVars>>
  PROVE  BindingInv' /\ BoundStays
  <1>0. /\ pc \in [Requests -> {"idle", "start", "loaded", "checked", "done"}]
        /\ pods \in [PodNames -> Pod \cup {Absent}]
        /\ Absent \notin Requests
    BY UserAssumption DEF Inv, TypeInv, TypeOK, ApiTypeOK, StoreTypeOK, Requests
  <1> DEFINE Others == \A q \in Requests \ {r} : pc'[q] = pc[q]
  <1>m. Others /\ UNCHANGED call /\ pc[r] # "idle" /\ call[r].kind = "pod"
    BY ServePodMoves, OwnRequest DEF Moves, Inv, TypeInv, TypeOK
  <1>s. /\ \A codes : Respond(r, codes) => pc'[r] = "done"
        /\ \A to : Continue(r, to) => pc'[r] = to
    BY StateReached DEF Inv, TypeInv, TypeOK
  <1>1. CASE PodCreateGet(r)
    <2>1. /\ pc[r] = "start" /\ call[r].kind = "pod" /\ call[r].verb = "POST"
          /\ UNCHANGED <<pods, call, items>> /\ Others
      BY <1>m, <1>1 DEF PodCreateGet, Handling, storeVars
    <2>2. \/ pc'[r] = "done" /\ UNCHANGED podMutex
          \/ podMutex = Absent /\ podMutex' = r /\ ~Exists(pods, call[r].name)
      <3>1. CASE call[r].body = Absent
        BY <1>s, <1>1, <3>1 DEF PodCreateGet
      <3>2. CASE call[r].body # Absent
        <4>1. podMutex = Absent /\ \A err \in Faults : ~err
          BY <1>1, <3>2 DEF PodCreateGet, UsersOnlyCreate
        <4> QED BY <1>s, <1>1, <3>2, <4>1 DEF PodCreateGet
      <3> QED BY <3>1, <3>2
    <2>3. CASE pc'[r] = "done" /\ UNCHANGED podMutex
      BY <2>1, <2>3, PollsHeld, QuietServe
    <2>4. CASE podMutex = Absent /\ podMutex' = r /\ ~Exists(pods, call[r].name)
      <3>1. PendingUnbound' /\ BoundStays
        BY <2>1, WriteKeepsBinding
      <3>2. ListedIsCurrent'
        BY <2>1 DEF Inv, BindingInv, ListedIsCurrent, schedVars, Exists
      <3>3. NewNameFree'
        BY <1>0, <2>1, <2>4 DEF Inv, BindingInv, NewNameFree, ctlVars, Exists
      <3>4. CopiesHeld'
        BY <2>1, <3>1, PollsHeld, CopiesStay
      <3>5. CallsExpected'
        BY <2>1, <3>1, CallsStay
      <3> QED BY <3>1, <3>2, <3>3, <3>4, <3>5 DEF BindingInv
    <2> QED BY <2>2, <2>3, <2>4
  <1>2. CASE PodCreatePut(r)
    <2>1. /\ pc[r] = "checked" /\ pc'[r] = "done" /\ podMutex' = Absent
          /\ UNCHANGED <<call, items>> /\ Others
      BY <1>m, <1>s, <1>2 DEF PodCreatePut, Handling
    <2>2. /\ ~Exists(pods, call[r].name) /\ call[r].name \in UserPodNames /\ podMutex = r
          /\ PodWrite(call[r].name, Accepted(call[r].body))
      BY <1>2, CreateWrite
    <2>3. PendingUnbound' /\ BoundStays
      BY <2>2, WriteKeepsBinding DEF PodWrite
    <2>4. ListedIsCurrent'
      BY <1>0, <2>2 DEF Inv, TypeInv, TypeOK, SchedTypeOK, BindingInv, ListedIsCurrent, schedVars, Exists, PodWrite
    <2>5. NewNameFree'
      <3>1. ASSUME NEW q \in Requests, pc'[q] = "checked", call'[q].kind = "pod" PROVE FALSE
        BY <2>1, <2>2, <3>1 DEF Inv, BindingInv, NewNameFree
      <3>2. cpc' = "put" => newPod' \in GeneratedNames /\ ~Exists(pods', newPod')
        BY <1>0, <2>2 DEF Inv, BindingInv, NewNameFree, ctlVars, Exists, PodWrite, UsersOnlyCreate, PodNames
      <3> QED BY <3>1, <3>2 DEF NewNameFree, Exists
    <2>6. CopiesHeld'
      BY <2>1, <2>3, PollsHeld, CopiesStay
    <2>7. CallsExpected'
      BY <2>1, <2>3, CallsStay
    <2> QED BY <2>3, <2>4, <2>5, <2>6, <2>7 DEF BindingInv
  <1>3. CASE PodLoad(r)
    <2>1. /\ pc[r] # "idle" /\ pc'[r] # "checked"
          /\ UNCHANGED <<pods, call, items, podMutex>> /\ Others
      BY <1>m, <1>s, <1>3 DEF PodLoad, storeVars
    <2> QED BY <2>1, PollsHeld, QuietServe
  <1>4. CASE PodUpdate(r)
    <2>1. /\ pc[r] # "idle" /\ pc'[r] = "done"
          /\ UNCHANGED <<call, items, podMutex>> /\ Others
      BY <1>m, <1>s, <1>4 DEF PodUpdate
    <2>2. CASE UNCHANGED pods
      BY <2>1, <2>2, PollsHeld, QuietServe
    <2>3. CASE /\ Exists(pods, call[r].name) /\ pods[call[r].name].nodeName # NoNode
               /\ podMutex = Absent /\ PodWrite(call[r].name, call[r].body)
      <3>1. PendingUnbound' /\ BoundStays
        BY <2>3, WriteKeepsBinding DEF PodWrite
      <3>2. ListedIsCurrent'
        BY <1>0, <2>3 DEF Inv, TypeInv, TypeOK, SchedTypeOK, BindingInv, ListedIsCurrent, PendingUnbound,
                          schedVars, Exists, PodWrite
      <3>3. NewNameFree'
        <4>1. ASSUME NEW q \in Requests, pc'[q] = "checked", call'[q].kind = "pod" PROVE FALSE
          BY <1>0, <2>1, <2>3, <4>1 DEF Inv, BindingInv, NewNameFree
        <4>2. cpc' = "put" => newPod' \in GeneratedNames /\ ~Exists(pods', newPod')
          BY <1>0, <2>3 DEF Inv, BindingInv, NewNameFree, ctlVars, Exists, PodWrite, PodNames
        <4> QED BY <4>1, <4>2 DEF NewNameFree, Exists
      <3>4. CopiesHeld'
        BY <2>1, <3>1, PollsHeld, CopiesStay
      <3>5. CallsExpected'
        BY <2>1, <3>1, CallsStay
      <3> QED BY <3>1, <3>2, <3>3, <3>4, <3>5 DEF BindingInv
    <2> QED BY <1>4, <2>2, <2>3, ReportWrite
  <1>5. CASE PodDelete(r)
    BY <1>5, PodCallers DEF PodDelete, Handling
  <1>6. CASE PodList(r)
    <2>1. /\ pc[r] # "idle" /\ pc'[r] = "done"
          /\ UNCHANGED <<pods, call, podMutex>> /\ Others
      BY <1>m, <1>s, <1>6 DEF PodList, storeVars
    <2> QED BY <1>6, <2>1, PollAnswered, QuietServe
  <1> QED BY <1>1, <1>2, <1>3, <1>4, <1>5, <1>6 DEF ServePod

-----------------------------------------------------------------------------
(* A step outside the API server and the kubelets.                         *)
LEMMA OthersStay ==
  ASSUME Inv, BoundStays, UNCHANGED <<apiVars, kubeVars>>
  PROVE  CopiesHeld' /\ CallsExpected'
  <1>0. UNCHANGED <<call, pc, items>>
    BY DEF apiVars
  <1>1. CopiesHeld'
    BY <1>0, PollsHeld, CopiesStay
  <1>2. ASSUME NEW n \in NodeNames, pc'[StatusSlot(n)] # "idle"
        PROVE  \E p \in PodNames, pod \in Pod :
                 call'[StatusSlot(n)] = StatusCall(p, pod) /\ Held(n, p, pod)'
    <2>1. PICK p \in PodNames, pod \in Pod :
            call[StatusSlot(n)] = StatusCall(p, pod) /\ Held(n, p, pod)
      BY <1>0, <1>2 DEF Inv, BindingInv, CallsExpected
    <2>2. Held(n, p, pod)'
      BY <2>1, HeldStays DEF Held, Exists
    <2> QED BY <1>0, <2>1, <2>2
  <1>3. CallsExpected'
    BY <1>0, <1>2 DEF Inv, BindingInv, CallsExpected, RegisterCall, PollCall, StatusCall
  <1> QED BY <1>1, <1>3

(* The scheduler.                                                          *)
LEMMA SchedBinding ==
  ASSUME Inv, SchedStep \/ SchedAbort, UNCHANGED <<apiVars, ctlVars, kubeVars>>
  PROVE  BindingInv' /\ BoundStays
  <1>0. /\ pods \in [PodNames -> Pod \cup {Absent}]
        /\ queue \subseteq PodNames /\ listed \in [PodNames -> Pod \cup {Absent}]
        /\ UNCHANGED <<call, pc, podMutex>>
    BY DEF Inv, TypeInv, TypeOK, StoreTypeOK, SchedTypeOK, apiVars
  <1>1. ASSUME UNCHANGED pods, ListedIsCurrent' PROVE BindingInv' /\ BoundStays
    <2>1. PendingUnbound' /\ BoundStays
      BY <1>1, WriteKeepsBinding
    <2>2. NewNameFree'
      BY <1>0, <1>1 DEF Inv, BindingInv, NewNameFree, ctlVars, Exists
    <2> QED BY <1>1, <2>1, <2>2, OthersStay DEF BindingInv
  <1>2. ASSUME UNCHANGED pods, EndPass PROVE BindingInv' /\ BoundStays
    BY <1>1, <1>2 DEF EndPass, ListedIsCurrent
  <1>3. CASE SchedListPods
    <2>1. ListedIsCurrent'
      BY <1>0, <1>3 DEF SchedListPods, PendingPods, ListKeys, ListedIsCurrent, Exists, storeVars
    <2> QED BY <1>1, <1>3, <2>1 DEF SchedListPods, storeVars
  <1>4. CASE SchedListNodes
    <2>1. UNCHANGED pods
      BY <1>4 DEF SchedListNodes, storeVars
    <2>2. EndPass \/ UNCHANGED <<queue, listed>>
      BY <1>4 DEF SchedListNodes
    <2>3. CASE UNCHANGED <<queue, listed>>
      <3>1. ListedIsCurrent'
        BY <2>1, <2>3 DEF Inv, BindingInv, ListedIsCurrent, Exists
      <3> QED BY <1>1, <2>1, <3>1
    <2> QED BY <1>2, <2>1, <2>2, <2>3
  <1>5. CASE SchedAbort
    BY <1>2, <1>5 DEF SchedAbort, storeVars
  <1>6. CASE SchedAssign
    <2>1. ASSUME NEW p \in queue, NEW pod \in Pod, Exists(pods, p), PodWrite(p, pod),
                 EndPass \/ (queue' = queue \ {p} /\ listed' = [listed EXCEPT ![p] = Absent])
          PROVE  BindingInv' /\ BoundStays
      <3>1. PendingUnbound' /\ BoundStays
        BY <1>0, <2>1, WriteKeepsBinding
      <3>2. ListedIsCurrent'
        <4>1. CASE EndPass
          BY <4>1 DEF EndPass, ListedIsCurrent
        <4>2. CASE queue' = queue \ {p} /\ listed' = [listed EXCEPT ![p] = Absent]
          <5> SUFFICES ASSUME NEW q \in queue, q # p
                       PROVE  pods'[q] = pods[q] /\ listed'[q] = listed[q]
            BY <4>2 DEF Inv, BindingInv, ListedIsCurrent, Exists
          <5> QED BY <1>0, <2>1, <4>2 DEF PodWrite
        <4> QED BY <2>1, <4>1, <4>2
      <3>3. NewNameFree'
        <4>1. \A x : x \in PodNames /\ ~Exists(pods, x) => ~Exists(pods', x)
          BY <1>0, <2>1 DEF PodWrite, Exists
        <4>2. ASSUME NEW r \in Requests, pc[r] = "checked", call[r].kind = "pod"
              PROVE  call[r].name \in PodNames
          BY <4>2, CallTypes DEF Inv, TypeInv, TypeOK, ApiTypeOK, CallShape, BindingInv, NewNameFree
        <4> QED BY <1>0, <4>1, <4>2 DEF Inv, BindingInv, NewNameFree, ctlVars, PodNames, Exists
      <3> QED BY <3>1, <3>2, <3>3, OthersStay DEF BindingInv
    <2> QED BY <1>2, <1>6, <2>1, BindWrite
  <1> QED BY <1>3, <1>4, <1>5, <1>6 DEF SchedStep

(* The controller.                                                         *)
LEMMA CtlBinding ==
  ASSUME UsersOnlyCreate, Inv, CtlStep \/ CtlCrash, UNCHANGED <<apiVars, schedVars, kubeVars>>
  PROVE  BindingInv' /\ BoundStays
  <1>0. /\ pods \in [PodNames -> Pod \cup {Absent}]
        /\ queue \subseteq PodNames
        /\ UNCHANGED <<call, pc, podMutex, queue, listed>>
    BY DEF Inv, TypeInv, TypeOK, StoreTypeOK, SchedTypeOK, apiVars, schedVars
  <1>1. ASSUME UNCHANGED pods,
               cpc' = "put" => newPod' \in GeneratedNames /\ ~Exists(pods, newPod')
        PROVE  BindingInv' /\ BoundStays
    <2>1. PendingUnbound' /\ BoundStays
      BY <1>1, WriteKeepsBinding
    <2>2. NewNameFree'
      BY <1>0, <1>1 DEF Inv, BindingInv, NewNameFree, Exists
    <2>3. ListedIsCurrent'
      BY <1>0, <1>1 DEF Inv, BindingInv, ListedIsCurrent, Exists
    <2> QED BY <2>1, <2>2, <2>3, OthersStay DEF BindingInv
  <1>2. CASE ReconcileCreatePut
    <2>1. newPod \in GeneratedNames /\ ~Exists(pods, newPod) /\ PodWrite(newPod, TemplatePod)
      BY <1>2, TemplateWrite
    <2>2. PendingUnbound' /\ BoundStays
      BY <2>1, WriteKeepsBinding DEF PodWrite
    <2>3. ListedIsCurrent'
      <3> SUFFICES ASSUME NEW q \in queue PROVE pods'[q] = pods[q]
        BY <1>0 DEF Inv, BindingInv, ListedIsCurrent, Exists
      <3> QED BY <1>0, <2>1 DEF PodWrite, Inv, BindingInv, ListedIsCurrent
    <2>4. NewNameFree'
      <3>1. cpc' # "put"
        BY <1>2 DEF ReconcileCreatePut
      <3>2. ASSUME NEW r \in Requests, pc[r] = "checked", call[r].kind = "pod"
            PROVE  podMutex = r /\ call[r].verb = "POST" /\ ~Exists(pods', call[r].name)
        <4>1. podMutex = r /\ call[r].verb = "POST" /\ ~Exists(pods, call[r].name)
          BY <3>2 DEF Inv, BindingInv, NewNameFree
        <4>2. call[r].name \in UserPodNames
          BY <3>2, <4>1, PodCallers DEF Inv, TypeInv, CallShape
        <4> QED BY <1>0, <2>1, <4>1, <4>2 DEF PodWrite, Exists, UsersOnlyCreate, PodNames
      <3> QED BY <1>0, <3>1, <3>2 DEF NewNameFree, Exists
    <2> QED BY <2>2, <2>3, <2>4, OthersStay DEF BindingInv
  <1>3. CASE ReconcileCreateGet
    <2>1. UNCHANGED pods
      BY <1>3 DEF ReconcileCreateGet, storeVars
    <2>2. cpc' = "put" => newPod' \in GeneratedNames /\ ~Exists(pods, newPod')
      <3>1. PICK rs \in todo, s \in RandomSuffixes :
              cpc' = "put" => newPod' = GenerateName(rs, s) /\ ~Exists(pods, newPod')
        BY <1>3 DEF ReconcileCreateGet, Fatal, Fresh, UsersOnlyCreate
      <3>2. rs \in RSNames
        BY DEF Inv, TypeInv, TypeOK, CtlTypeOK
      <3> QED BY <3>1, <3>2 DEF GeneratedNames
    <2> QED BY <1>1, <2>1, <2>2
  <1>4. CASE CtlList \/ ReconcileGet \/ ReconcileList
    <2>1. UNCHANGED pods /\ cpc' # "put"
      BY <1>4 DEF CtlList, ReconcileGet, ReconcileList, NextReplicaSet, Fatal, Fresh, storeVars
    <2> QED BY <1>1, <2>1
  <1>5. CASE ReconcileUpdateGet \/ ReconcileUpdatePut \/ CtlRestart \/ CtlCrash
    <2>1. UNCHANGED pods /\ cpc' # "put"
      BY <1>5 DEF ReconcileUpdateGet, ReconcileUpdatePut, CtlRestart, CtlCrash, NextReplicaSet,
                  Fatal, Fresh, storeVars
    <2> QED BY <1>1, <2>1
  <1> QED BY <1>2, <1>3, <1>4, <1>5 DEF CtlStep

-----------------------------------------------------------------------------
(* A step that writes no pod, where requests are at most sent or taken.    *)
LEMMA NoWrite ==
  ASSUME Inv, UNCHANGED <<pods, podMutex, schedVars, ctlVars>>,
         \A q \in Requests : pc'[q] = "checked" => pc[q] = "checked" /\ call'[q] = call[q],
         CopiesHeld', CallsExpected'
  PROVE  BindingInv' /\ BoundStays
  <1>1. PendingUnbound' /\ BoundStays
    BY WriteKeepsBinding
  <1>2. ListedIsCurrent'
    BY DEF Inv, BindingInv, ListedIsCurrent, schedVars, Exists
  <1>3. NewNameFree'
    BY DEF Inv, BindingInv, NewNameFree, ctlVars, Exists
  <1> QED BY <1>1, <1>2, <1>3 DEF BindingInv

(* What sending a request changes.                                         *)
LEMMA Sent ==
  ASSUME Inv, NEW r \in Requests, NEW c, Issue(r, c)
  PROVE  /\ call'[r] = c /\ pc'[r] = "start" /\ items'[r] = NoItems
         /\ \A q \in Requests \ {r} : call'[q] = call[q] /\ pc'[q] = pc[q] /\ items'[q] = items[q]
         /\ UNCHANGED podMutex
  BY DEF Inv, TypeInv, TypeOK, ApiTypeOK, Issue

(* A request that its sender may send is expected.                         *)
LEMMA SentExpected ==
  ASSUME Inv, UNCHANGED pods, NEW r \in Requests, NEW c, Issue(r, c),
         r \in UserSlots => c \in UserCalls,
         \A n \in NodeNames : r = WatchSlot(n) => c \in {RegisterCall(n), PollCall(n)},
         \A n \in NodeNames : r = StatusSlot(n) =>
           \E p \in PodNames, pod \in Pod : c = StatusCall(p, pod) /\ Held(n, p, pod)
  PROVE  CallsExpected'
  <1>0. CallsExpected
    BY DEF Inv, BindingInv
  <1>s. /\ call'[r] = c
        /\ \A q \in Requests \ {r} : call'[q] = call[q] /\ pc'[q] = pc[q]
    BY Sent
  <1>1. ASSUME NEW u \in UserSlots, pc'[u] # "idle" PROVE call'[u] \in UserCalls
    <2>1. u \in Requests
      BY DEF Requests
    <2> QED BY <1>0, <1>1, <1>s, <2>1 DEF CallsExpected
  <1>2. ASSUME NEW n \in NodeNames, pc'[WatchSlot(n)] # "idle"
        PROVE  call'[WatchSlot(n)] \in {RegisterCall(n), PollCall(n)}
    <2>1. WatchSlot(n) \in Requests
      BY Slots
    <2> QED BY <1>0, <1>2, <1>s, <2>1 DEF CallsExpected
  <1>3. ASSUME NEW n \in NodeNames, pc'[StatusSlot(n)] # "idle"
        PROVE  \E p \in PodNames, pod \in Pod :
                 call'[StatusSlot(n)] = StatusCall(p, pod) /\ Held(n, p, pod)'
    <2>1. StatusSlot(n) \in Requests
      BY Slots
    <2>2. \E p \in PodNames, pod \in Pod :
            call'[StatusSlot(n)] = StatusCall(p, pod) /\ Held(n, p, pod)
      BY <1>0, <1>3, <1>s, <2>1 DEF CallsExpected
    <2> QED BY <2>2 DEF Held, Exists
  <1> QED BY <1>1, <1>2, <1>3 DEF CallsExpected, RegisterCall, PollCall, StatusCall

(* So is the report of a kubelet on a pod it holds.                        *)
LEMMA SentStatus ==
  ASSUME Inv, UNCHANGED pods, NEW n \in NodeNames, NEW p \in PodNames, NEW pod \in Pod,
         Held(n, p, pod), Issue(StatusSlot(n), StatusCall(p, pod))
  PROVE  StatusSlot(n) \in Requests /\ CallsExpected'
  <1>1. /\ StatusSlot(n) \in Requests /\ StatusSlot(n) \notin UserSlots
        /\ \A m \in NodeNames : StatusSlot(n) # WatchSlot(m)
        /\ \A m \in NodeNames : StatusSlot(n) = StatusSlot(m) => n = m
    BY Slots
  <1>2. \A m \in NodeNames : StatusSlot(n) = StatusSlot(m) =>
          \E q \in PodNames, x \in Pod : StatusCall(p, pod) = StatusCall(q, x) /\ Held(m, q, x)
    BY <1>1
  <1> QED BY <1>1, <1>2, SentExpected

(* After it nothing is checked that was not, and no poll holds more.       *)
LEMMA SentQuiet ==
  ASSUME Inv, NEW r \in Requests, NEW c, Issue(r, c)
  PROVE  /\ \A q \in Requests : pc'[q] = "checked" => pc[q] = "checked" /\ call'[q] = call[q]
         /\ \A n \in NodeNames, p \in PodNames :
              items'[WatchSlot(n)][p] # Absent => Held(n, p, items'[WatchSlot(n)][p])
  <1>1. \A q \in Requests : pc'[q] = "checked" => pc[q] = "checked" /\ call'[q] = call[q]
    BY Sent
  <1>2. ASSUME NEW n \in NodeNames, NEW p \in PodNames, items'[WatchSlot(n)][p] # Absent
        PROVE  Held(n, p, items'[WatchSlot(n)][p])
    <2>1. WatchSlot(n) # r
      BY SMTT(60), <1>2, Sent DEF NoItems
    <2>2. items'[WatchSlot(n)] = items[WatchSlot(n)]
      BY <2>1, Sent, Slots
    <2> QED BY <1>2, <2>2 DEF Inv, BindingInv, CopiesHeld
  <1> QED BY <1>1, <1>2

(* The same for a response that is taken.                                  *)
LEMMA Taken ==
  ASSUME Inv, UNCHANGED pods, NEW r \in Requests, Consume(r)
  PROVE  /\ CallsExpected' /\ UNCHANGED podMutex
         /\ \A q \in Requests : pc'[q] = "checked" => pc[q] = "checked" /\ call'[q] = call[q]
         /\ \A n \in NodeNames, p \in PodNames :
              items'[WatchSlot(n)][p] # Absent => Held(n, p, items'[WatchSlot(n)][p])
  <1>0. /\ pc' = [pc EXCEPT ![r] = "idle"] /\ items' = [items EXCEPT ![r] = NoItems]
        /\ UNCHANGED <<call, podMutex>>
        /\ pc \in [Requests -> {"idle", "start", "loaded", "checked", "done"}]
        /\ items \in [Requests -> [PodNames -> Pod \cup {Absent}]]
        /\ CallsExpected /\ CopiesHeld
    BY DEF Consume, Inv, TypeInv, TypeOK, ApiTypeOK, BindingInv
  <1>1. \A q \in Requests : pc'[q] # "idle" => pc[q] # "idle" /\ pc'[q] = pc[q]
    BY <1>0
  <1>2. ASSUME NEW n \in NodeNames, NEW p \in PodNames, items'[WatchSlot(n)][p] # Absent
        PROVE  Held(n, p, items'[WatchSlot(n)][p])
    BY <1>0, <1>2, Slots DEF CopiesHeld, NoItems
  <1>3. ASSUME NEW n \in NodeNames, pc'[StatusSlot(n)] # "idle"
        PROVE  \E p \in PodNames, pod \in Pod :
                 call'[StatusSlot(n)] = StatusCall(p, pod) /\ Held(n, p, pod)'
    <2>1. \E p \in PodNames, pod \in Pod :
            call[StatusSlot(n)] = StatusCall(p, pod) /\ Held(n, p, pod)
      BY <1>0, <1>1, <1>3, Slots DEF CallsExpected
    <2> QED BY <1>0, <2>1 DEF Held, Exists
  <1>4. \A u \in UserSlots : pc'[u] # "idle" => call'[u] \in UserCalls
    BY <1>0, <1>1 DEF CallsExpected, Requests
  <1>5. ASSUME NEW n \in NodeNames, pc'[WatchSlot(n)] # "idle"
        PROVE  call'[WatchSlot(n)] \in {RegisterCall(n), PollCall(n)}
    BY <1>0, <1>1, <1>5, Slots DEF CallsExpected
  <1>6. CallsExpected'
    BY <1>3, <1>4, <1>5 DEF CallsExpected, RegisterCall, PollCall, StatusCall
  <1> QED BY <1>0, <1>1, <1>2, <1>6

(* The users.                                                              *)
LEMMA UserBinding ==
  ASSUME Inv, NEW u \in UserSlots, UserCall(u), UNCHANGED <<schedVars, ctlVars, kubeVars>>
  PROVE  BindingInv' /\ BoundStays
  <1>1. PICK c \in UserCalls : Issue(u, c)
    BY DEF UserCall
  <1>2. UNCHANGED pods /\ u \in Requests
    BY DEF UserCall, storeVars, Requests
  <1>3. CallsExpected'
    BY SMTT(60), <1>1, <1>2, Slots, SentExpected
  <1>4. BoundStays
    BY <1>2, WriteKeepsBinding
  <1>5. CopiesHeld'
    BY <1>1, <1>2, <1>4, SentQuiet, CopiesStay
  <1> QED BY <1>1, <1>2, <1>3, <1>5, Sent, SentQuiet, NoWrite

-----------------------------------------------------------------------------
(* A step of the kubelet or the Docker engine of node n.                   *)
LEMMA OwnCopies ==
  ASSUME Inv, UNCHANGED pods, NEW n \in NodeNames,
         \A m \in NodeNames \ {n} :
           known'[m] = known[m] /\ running'[m] = running[m] /\ sweep'[m] = sweep[m] /\ docker'[m] = docker[m],
         \A m \in NodeNames, p \in PodNames :
           items'[WatchSlot(m)][p] # Absent => Held(m, p, items'[WatchSlot(m)][p]),
         \A p \in PodNames : known'[n][p] # Absent => Held(n, p, known'[n][p]),
         \A p \in PodNames : running'[n][p] > 0 => known'[n][p] # Absent,
         sweep'[n] \subseteq ListKeys(known'[n]),
         \A c \in docker'[n] : Exists(pods, c.pod) /\ pods[c.pod].nodeName = n
  PROVE  CopiesHeld'
  <1>0. CopiesHeld
    BY DEF Inv, BindingInv
  <1> SUFFICES ASSUME NEW m \in NodeNames
               PROVE  /\ \A p \in PodNames :
                           /\ known'[m][p] # Absent => Held(m, p, known[m][p])'
                           /\ items'[WatchSlot(m)][p] # Absent => Held(m, p, items[WatchSlot(m)][p])'
                           /\ running'[m][p] > 0 => known'[m][p] # Absent
                      /\ sweep'[m] \subseteq ListKeys(known'[m])
                      /\ \A c \in docker'[m] : Exists(pods', c.pod) /\ pods'[c.pod].nodeName = m
    BY DEF CopiesHeld
  <1>1. CASE m = n
    BY <1>1 DEF Held, Exists
  <1>2. CASE m # n
    <2>1. known'[m] = known[m] /\ running'[m] = running[m] /\ sweep'[m] = sweep[m] /\ docker'[m] = docker[m]
      BY <1>2
    <2> QED BY SMTT(60), <1>0, <2>1 DEF CopiesHeld, Held, Exists
  <1> QED BY <1>1, <1>2

(* A step that leaves all requests alone.                                  *)
LEMMA LocalStep ==
  ASSUME Inv, UNCHANGED <<pods, apiVars, schedVars, ctlVars>>, CopiesHeld'
  PROVE  BindingInv' /\ BoundStays
  <1>0. UNCHANGED <<call, pc, podMutex>>
    BY DEF apiVars
  <1>1. \A n \in NodeNames : pc'[StatusSlot(n)] # "idle" =>
          \E p \in PodNames, pod \in Pod :
            call'[StatusSlot(n)] = StatusCall(p, pod) /\ Held(n, p, pod)'
    BY <1>0 DEF Inv, BindingInv, CallsExpected, Held, Exists
  <1>2. CallsExpected'
    BY <1>0, <1>1 DEF Inv, BindingInv, CallsExpected, RegisterCall, PollCall, StatusCall
  <1> QED BY <1>0, <1>2, NoWrite

(* The kubelet's registration and its polls.                               *)
LEMMA WatchBinding ==
  ASSUME Inv, NEW n \in NodeNames, UNCHANGED <<schedVars, ctlVars>>,
         KubeletStart(n) \/ KubeletRegistered(n) \/ KubeletPoll(n) \/ StatusAnswered(n)
  PROVE  BindingInv' /\ BoundStays
  <1>0. UNCHANGED <<pods, known, running, sweep, docker>>
    BY DEF KubeletStart, KubeletRegistered, KubeletPoll, StatusAnswered, storeVars, kubeVars
  <1>1. WatchSlot(n) \in Requests /\ StatusSlot(n) \in Requests
    BY Slots
  <1>2. ASSUME \A m \in NodeNames, p \in PodNames :
                 items'[WatchSlot(m)][p] # Absent => Held(m, p, items'[WatchSlot(m)][p])
        PROVE  CopiesHeld'
    BY <1>0, <1>2, OwnCopies DEF Inv, BindingInv, CopiesHeld
  <1>3. ASSUME NEW c \in {RegisterCall(n), PollCall(n)}, Issue(WatchSlot(n), c)
        PROVE  BindingInv' /\ BoundStays
    <2>1. CallsExpected'
      BY SMTT(60), <1>0, <1>1, <1>3, Slots, SentExpected
    <2>2. CopiesHeld'
      BY <1>1, <1>2, <1>3, SentQuiet
    <2> QED BY <1>0, <1>1, <1>3, <2>1, <2>2, Sent, SentQuiet, NoWrite
  <1>4. ASSUME NEW r \in Requests, Consume(r) PROVE BindingInv' /\ BoundStays
    BY <1>0, <1>2, <1>4, Taken, NoWrite
  <1> QED BY <1>1, <1>3, <1>4 DEF KubeletStart, KubeletRegistered, KubeletPoll, StatusAnswered

(* runNewPods: what joins the map came from a poll.                        *)
LEMMA RunBinding ==
  ASSUME Inv, NEW n \in NodeNames, UNCHANGED <<schedVars, ctlVars>>, RunNewPods(n)
  PROVE  BindingInv' /\ BoundStays
  <1>0. /\ known \in [NodeNames -> [PodNames -> Pod \cup {Absent}]]
        /\ running \in [NodeNames -> [PodNames -> Nat]]
        /\ sweep \in [NodeNames -> SUBSET PodNames]
        /\ CopiesHeld
    BY DEF Inv, TypeInv, TypeOK, KubeTypeOK, BindingInv
  <1>1. WatchSlot(n) \in Requests /\ Consume(WatchSlot(n)) /\ UNCHANGED <<pods, docker>>
    BY Slots DEF RunNewPods, storeVars
  <1>2. \A m \in NodeNames \ {n} :
          known'[m] = known[m] /\ running'[m] = running[m] /\ sweep'[m] = sweep[m] /\ docker'[m] = docker[m]
    BY <1>0, <1>1 DEF RunNewPods
  <1>3. /\ \A p \in PodNames :
             known'[n][p] = IF p \in NewPods(n) THEN items[WatchSlot(n)][p] ELSE known[n][p]
        /\ \A p \in PodNames : p \notin NewPods(n) => running'[n][p] = running[n][p]
        /\ DOMAIN known'[n] = PodNames
        /\ sweep'[n] \subseteq sweep[n] \cup NewPods(n)
    BY <1>0 DEF RunNewPods
  <1>4. ASSUME NEW p \in PodNames, known'[n][p] # Absent PROVE Held(n, p, known'[n][p])
    BY <1>0, <1>3, <1>4 DEF CopiesHeld
  <1>5. ASSUME NEW p \in PodNames, p \in NewPods(n) \/ known[n][p] # Absent
        PROVE  known'[n][p] # Absent
    BY <1>3, <1>5 DEF NewPods
  <1>6. \A p \in PodNames : running'[n][p] > 0 => known'[n][p] # Absent
    BY <1>0, <1>3, <1>5 DEF CopiesHeld
  <1>7. sweep'[n] \subseteq ListKeys(known'[n])
    BY <1>0, <1>3, <1>5 DEF CopiesHeld, ListKeys, NewPods
  <1>8. \A c \in docker'[n] : Exists(pods, c.pod) /\ pods[c.pod].nodeName = n
    BY <1>0, <1>1 DEF CopiesHeld
  <1>9. CopiesHeld'
    BY <1>1, <1>2, <1>4, <1>6, <1>7, <1>8, Taken, OwnCopies
  <1> QED BY <1>1, <1>9, Taken, NoWrite

(* A kubelet that ends forgets its copies.                                 *)
LEMMA DiesBinding ==
  ASSUME Inv, NEW n \in NodeNames, UNCHANGED <<schedVars, ctlVars>>, Dies(n)
  PROVE  BindingInv' /\ BoundStays
  <1>0. /\ known \in [NodeNames -> [PodNames -> Pod \cup {Absent}]]
        /\ running \in [NodeNames -> [PodNames -> Nat]]
        /\ sweep \in [NodeNames -> SUBSET PodNames]
        /\ CopiesHeld
    BY DEF Inv, TypeInv, TypeOK, KubeTypeOK, BindingInv
  <1>1. UNCHANGED <<pods, apiVars, docker, items>>
    BY DEF Dies, storeVars, apiVars
  <1>2. /\ known'[n] = NoItems /\ running'[n] = [p \in PodNames |-> 0] /\ sweep'[n] = {}
        /\ \A m \in NodeNames \ {n} :
             known'[m] = known[m] /\ running'[m] = running[m] /\ sweep'[m] = sweep[m]
    BY <1>0 DEF Dies
  <1>3. CopiesHeld'
    <2>1. /\ \A p \in PodNames : known'[n][p] = Absent /\ running'[n][p] = 0
          /\ sweep'[n] \subseteq ListKeys(known'[n])
      BY <1>2 DEF NoItems
    <2>2. \A c \in docker'[n] : Exists(pods, c.pod) /\ pods[c.pod].nodeName = n
      BY <1>0, <1>1 DEF CopiesHeld
    <2> QED BY SMTT(60), <1>1, <1>2, <2>1, <2>2, PollsHeld, OwnCopies
  <1> QED BY <1>1, <1>3, LocalStep

(* Steps of the pod goroutines and of Docker: a container is made for a    *)
(* pod of the map, and later only changes its state.                       *)
LEMMA ContainerBinding ==
  ASSUME Inv, NEW n \in NodeNames, UNCHANGED <<schedVars, ctlVars>>,
         ContainerExit(n) \/ \E p \in PodNames : ContainerCreate(n, p) \/ ContainerStart(n, p)
  PROVE  BindingInv' /\ BoundStays
  <1>0. /\ known \in [NodeNames -> [PodNames -> Pod \cup {Absent}]]
        /\ running \in [NodeNames -> [PodNames -> Nat]]
        /\ docker \in [NodeNames -> SUBSET DockerContainer]
        /\ CopiesHeld
    BY DEF Inv, TypeInv, TypeOK, KubeTypeOK, BindingInv
  <1>1. UNCHANGED <<pods, apiVars, known, sweep, items>>
    BY DEF ContainerExit, ContainerCreate, ContainerStart, storeVars, apiVars
  <1>2. /\ \A m \in NodeNames \ {n} : docker'[m] = docker[m]
        /\ \A d \in docker'[n] :
             \/ \E c \in docker[n] : c.pod = d.pod
             \/ d.pod \in PodNames /\ running[n][d.pod] > 0
    <2>1. CASE ContainerExit(n)
      <3>1. PICK c \in docker[n], code \in {0, 1} :
              docker' = [docker EXCEPT ![n] =
                (@ \ {c}) \cup {[c EXCEPT !.state = "exited", !.exitCode = code]}]
        BY <2>1 DEF ContainerExit
      <3>2. c \in DockerContainer
        BY <1>0
      <3>3. [c EXCEPT !.state = "exited", !.exitCode = code].pod = c.pod
        BY <3>2 DEF DockerContainer
      <3> QED BY <1>0, <3>1, <3>3
    <2>2. ASSUME NEW p \in PodNames, ContainerCreate(n, p)
          PROVE  /\ \A m \in NodeNames \ {n} : docker'[m] = docker[m]
                 /\ \A d \in docker'[n] : d \in docker[n] \/ (d.pod = p /\ running[n][p] > 0)
      BY SMTT(60), <1>0, <2>2 DEF ContainerCreate
    <2>3. ASSUME NEW p \in PodNames, ContainerStart(n, p)
          PROVE  /\ \A m \in NodeNames \ {n} : docker'[m] = docker[m]
                 /\ \A d \in docker'[n] : \E c \in docker[n] : c.pod = d.pod
      <3>1. PICK c \in docker[n], err \in DockerFaults :
              docker' = [docker EXCEPT ![n] =
                IF err THEN @ ELSE (@ \ {c}) \cup {[c EXCEPT !.state = "running"]}]
        BY <2>3 DEF ContainerStart, Mine
      <3>2. c \in DockerContainer
        BY <1>0
      <3>3. [c EXCEPT !.state = "running"].pod = c.pod
        BY <3>2 DEF DockerContainer
      <3> QED BY <1>0, <3>1, <3>3
    <2> QED BY <2>1, <2>2, <2>3
  <1>3. /\ \A m \in NodeNames \ {n} : running'[m] = running[m]
        /\ \A q \in PodNames : running'[n][q] = running[n][q] \/ running[n][q] > 0
    <2>1. CASE UNCHANGED running
      BY <2>1
    <2>2. ASSUME NEW p \in PodNames, running[n][p] > 0, NextContainer(n, p)
          PROVE  /\ \A m \in NodeNames \ {n} : running'[m] = running[m]
                 /\ \A q \in PodNames : running'[n][q] = running[n][q] \/ running[n][q] > 0
      BY <1>0, <2>2 DEF NextContainer
    <2> QED BY <2>1, <2>2 DEF ContainerExit, ContainerCreate, ContainerStart
  <1>4. \A p \in PodNames : running[n][p] > 0 => Exists(pods, p) /\ pods[p].nodeName = n
    BY <1>0 DEF CopiesHeld, Held
  <1>5. \A d \in docker'[n] : Exists(pods, d.pod) /\ pods[d.pod].nodeName = n
    BY SMTT(60), <1>0, <1>2, <1>4 DEF CopiesHeld
  <1>6. \A p \in PodNames : running'[n][p] > 0 => known'[n][p] # Absent
    BY <1>0, <1>1, <1>3 DEF CopiesHeld
  <1>7. /\ \A p \in PodNames : known'[n][p] # Absent => Held(n, p, known'[n][p])
        /\ sweep'[n] \subseteq ListKeys(known'[n])
    BY <1>0, <1>1 DEF CopiesHeld
  <1>8. CopiesHeld'
    BY <1>1, <1>2, <1>3, <1>5, <1>6, <1>7, PollsHeld, OwnCopies
  <1> QED BY <1>1, <1>8, LocalStep

(* The status loop: it reports on pods of the map and never as pending.    *)
LEMMA StatusBinding ==
  ASSUME Inv, NEW n \in NodeNames, UNCHANGED <<schedVars, ctlVars>>,
         StatusTick(n) \/ UpdatePodStatus(n)
  PROVE  BindingInv' /\ BoundStays
  <1>0. /\ known \in [NodeNames -> [PodNames -> Pod \cup {Absent}]]
        /\ sweep \in [NodeNames -> SUBSET PodNames]
        /\ CopiesHeld
    BY DEF Inv, TypeInv, TypeOK, KubeTypeOK, BindingInv
  <1>1. UNCHANGED <<pods, running, docker>>
    BY DEF StatusTick, UpdatePodStatus, storeVars
  <1>2. /\ \A m \in NodeNames \ {n} : sweep'[m] = sweep[m]
        /\ sweep'[n] \subseteq ListKeys(known[n])
    BY SMTT(60), <1>0 DEF StatusTick, UpdatePodStatus, CopiesHeld
  <1>3. ASSUME UNCHANGED <<known, apiVars>> PROVE BindingInv' /\ BoundStays
    <2>1. CopiesHeld'
      BY <1>0, <1>1, <1>2, <1>3, PollsHeld, OwnCopies DEF CopiesHeld, apiVars
    <2> QED BY <1>1, <1>3, <2>1, LocalStep
  <1>4. ASSUME NEW p \in sweep[n], NEW states,
               known' = [known EXCEPT ![n][p] =
                 [known[n][p] EXCEPT !.status = determinePodStatus(states)]],
               Issue(StatusSlot(n), StatusCall(p, [known[n][p] EXCEPT !.status = determinePodStatus(states)]))
        PROVE  BindingInv' /\ BoundStays
    <2> DEFINE pod == [known[n][p] EXCEPT !.status = determinePodStatus(states)]
    <2>1. p \in PodNames /\ known[n][p] \in Pod /\ Held(n, p, known[n][p])
      BY SMTT(60), <1>0 DEF CopiesHeld, ListKeys
    <2>2. pod \in Pod
      BY <2>1, StatusType
    <2>3. pod.nodeName = n /\ pod.status # "Pending"
      BY <2>1 DEF Held, Pod, determinePodStatus
    <2>4. Held(n, p, pod)
      BY <2>1, <2>2, <2>3, ObjectsAssumption DEF Held
    <2>5. StatusSlot(n) \in Requests /\ CallsExpected'
      <3> HIDE DEF pod
      <3>1. Issue(StatusSlot(n), StatusCall(p, pod))
        BY <1>4 DEF pod
      <3> QED BY <1>1, <2>1, <2>2, <2>4, <3>1, SentStatus
    <2>6. CopiesHeld'
      <3> HIDE DEF pod
      <3>1. known' = [known EXCEPT ![n][p] = pod] /\ Issue(StatusSlot(n), StatusCall(p, pod))
        BY <1>4 DEF pod
      <3>2. /\ \A m \in NodeNames \ {n} : known'[m] = known[m]
            /\ \A q \in PodNames : known'[n][q] = IF q = p THEN pod ELSE known[n][q]
            /\ DOMAIN known'[n] = PodNames
        BY <1>0, <2>1, <3>1
      <3>3. \A q \in PodNames : known'[n][q] # Absent => Held(n, q, known'[n][q])
        BY <1>0, <2>4, <3>2 DEF CopiesHeld
      <3>4. \A q \in PodNames : known[n][q] # Absent => known'[n][q] # Absent
        BY <2>4, <3>2 DEF Held
      <3>5. \A q \in PodNames : running'[n][q] > 0 => known'[n][q] # Absent
        BY <1>0, <1>1, <3>4 DEF CopiesHeld
      <3>6. sweep'[n] \subseteq ListKeys(known'[n])
        BY <1>0, <1>2, <3>2, <3>4 DEF ListKeys
      <3>7. \A c \in docker'[n] : Exists(pods, c.pod) /\ pods[c.pod].nodeName = n
        BY <1>0, <1>1 DEF CopiesHeld
      <3> QED BY <1>1, <1>2, <2>5, <3>1, <3>2, <3>3, <3>5, <3>6, <3>7, SentQuiet, OwnCopies
    <2> QED BY <1>1, <1>4, <2>5, <2>6, Sent, SentQuiet, NoWrite
  <1>5. CASE StatusTick(n)
    BY <1>3, <1>5 DEF StatusTick
  <1>6. CASE UpdatePodStatus(n)
    BY <1>3, <1>4, <1>6 DEF UpdatePodStatus
  <1> QED BY <1>5, <1>6

-----------------------------------------------------------------------------
(* Nothing is bound in the beginning.                                      *)
LEMMA BindingInit == Init => BindingInv
  <1> SUFFICES ASSUME Init PROVE BindingInv
    OBVIOUS
  <1>1. PendingUnbound /\ ListedIsCurrent
    BY DEF Init, StoreInit, SchedInit, PendingUnbound, ListedIsCurrent, Exists
  <1>2. NewNameFree /\ CallsExpected
    BY Slots DEF Init, ApiInit, CtlInit, NewNameFree, CallsExpected, Requests
  <1>3. CopiesHeld
    BY SMTT(60), Slots DEF Init, ApiInit, KubeInit, NoItems, CopiesHeld
  <1> QED BY <1>1, <1>2, <1>3 DEF BindingInv

(* Every step keeps the invariant and every binding.                       *)
LEMMA BindingStep ==
  ASSUME UsersOnlyCreate, Inv, [Next]_vars
  PROVE  BindingInv' /\ BoundStays
  <1>1. CASE Users
    BY <1>1, UserBinding DEF Users
  <1>2. ASSUME NEW r \in Requests, Server(r) PROVE BindingInv' /\ BoundStays
    BY <1>2, ServePodBinding, ServeOtherBinding DEF Server, Serve
  <1>3. CASE SchedulerProcess
    BY <1>3, SchedBinding DEF SchedulerProcess
  <1>4. CASE ControllerProcess
    BY <1>4, CtlBinding DEF ControllerProcess
  <1>5. ASSUME NEW n \in NodeNames, KubeletProcess(n) PROVE BindingInv' /\ BoundStays
    BY <1>5, WatchBinding, RunBinding, StatusBinding, ContainerBinding DEF KubeletProcess, KubeletStep
  <1>6. ASSUME NEW n \in NodeNames, NodeEvent(n) PROVE BindingInv' /\ BoundStays
    BY <1>6, DiesBinding, ContainerBinding DEF NodeEvent, KubeletFault, MapFault, PullPanic, KubeletCrash
  <1>7. CASE Crash
    BY <1>7, SchedBinding, CtlBinding DEF Crash
  <1>8. CASE UNCHANGED vars
    <2>1. UNCHANGED <<pods, apiVars, schedVars, ctlVars, kubeVars>>
      BY <1>8 DEF vars, storeVars
    <2>2. BoundStays
      BY <2>1, WriteKeepsBinding
    <2> QED BY <2>1, <2>2, OthersStay, LocalStep
  <1> QED BY <1>1, <1>2, <1>3, <1>4, <1>5, <1>6, <1>7, <1>8 DEF Next
=============================================================================
