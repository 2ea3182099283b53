--------------------------- MODULE KubeletProofs ----------------------------
(***************************************************************************)
(* What kubelets report, and the life of a pod.                            *)
(*                                                                         *)
(* Once a pod is bound, only the kubelet of its node writes it.  So what   *)
(* that kubelet has in its map is what is stored, but for the one pod      *)
(* whose PUT is on its way, and that PUT is accepted, since the pod is     *)
(* there and valid.                                                        *)
(*                                                                         *)
(* The copies that kubelets write back differ from the stored pod in the   *)
(* status only.  So every write of a pod, by whomever, is one step of      *)
(* PodLifecycle.                                                           *)
(***************************************************************************)
EXTENDS BindingProofs

USE ZenonT(30), SMTT(120)

-----------------------------------------------------------------------------
(* The status of a pod *)

(* Users only create pods, and the requests of kubelets arrive.            *)
ReportsArrive == UsersOnlyCreate /\ TRUE \notin TransportFaults

(* With what is known of the bindings, it is inductive.                    *)
ReportInv == Inv /\ BoundValid /\ \A n \in NodeNames : ReportOn(n)

(* A step that leaves the kubelet of n, its report and its pods alone.     *)
LEMMA ReportStays ==
  ASSUME ReportInv, NEW n \in NodeNames,
         kpc'[n] = kpc[n], known'[n] = known[n], call'[StatusSlot(n)] = call[StatusSlot(n)],
         pc[StatusSlot(n)] = "idle" => pc'[StatusSlot(n)] = "idle",
         pc[StatusSlot(n)] \in {"idle", "done"} <=> pc'[StatusSlot(n)] \in {"idle", "done"},
         \A p \in PodNames : items'[WatchSlot(n)][p] \in {Absent, items[WatchSlot(n)][p]},
         \A p \in PodNames : Exists(pods, p) /\ pods[p].nodeName = n => pods'[p] = pods[p]
  PROVE  ReportOn(n)'
  <1>0. ReportOn(n) /\ CopiesHeld
    BY DEF ReportInv, Inv, BindingInv
  <1>1. ASSUME NEW p \in PodNames PROVE CopyCurrent(n, p)'
    <2>1. known[n][p] # Absent \/ items[WatchSlot(n)][p] # Absent => pods'[p] = pods[p]
      BY <1>0 DEF CopiesHeld, Held
    <2>2. CopyCurrent(n, p) /\ (Reporting(n, p)' <=> Reporting(n, p))
      BY <1>0 DEF ReportOn, Reporting
    <2> QED BY <2>1, <2>2 DEF CopyCurrent
  <1> QED BY <1>0, <1>1 DEF ReportOn

(* The same for all nodes, when no bound pod is written.                   *)
LEMMA ReportsStay ==
  ASSUME ReportInv, UNCHANGED <<kpc, known>>,
         \A n \in NodeNames :
           /\ call'[StatusSlot(n)] = call[StatusSlot(n)] /\ pc'[StatusSlot(n)] = pc[StatusSlot(n)]
           /\ items'[WatchSlot(n)] = items[WatchSlot(n)],
         \A p \in PodNames : Exists(pods, p) /\ pods[p].nodeName # NoNode => pods'[p] = pods[p]
  PROVE  \A n \in NodeNames : ReportOn(n)'
  BY ReportStays, ObjectsAssumption

(* A pod that is written with a node is valid.                             *)
LEMMA ValidStays ==
  ASSUME ReportInv,
         \/ UNCHANGED pods
         \/ \E p \in PodNames, pod \in Pod :
              pods' = [pods EXCEPT ![p] = pod] /\ (pod.nodeName # NoNode => Validate(pod))
  PROVE  BoundValid'
  BY DEF ReportInv, Inv, TypeInv, TypeOK, StoreTypeOK, BoundValid, Exists

(* What Validate looks at is the spec.                                     *)
LEMMA ValidSpec ==
  ASSUME NEW pod \in Pod, NEW other \in Pod, Validate(pod), other.spec = pod.spec
  PROVE  Validate(other)
  BY DEF Validate

-----------------------------------------------------------------------------
(* Whose request a handler serves: pods are created for users, listed for  *)
(* users and the watch of a kubelet, and written for its status loop.      *)
LEMMA StatusRequest ==
  ASSUME Inv, NEW n \in NodeNames, pc[StatusSlot(n)] # "idle"
  PROVE  /\ call[StatusSlot(n)].kind = "pod" /\ call[StatusSlot(n)].verb = "PUT"
         /\ call[StatusSlot(n)].bodyName = call[StatusSlot(n)].name
         /\ call[StatusSlot(n)].name \in PodNames /\ call[StatusSlot(n)].body \in Pod
         /\ Held(n, call[StatusSlot(n)].name, call[StatusSlot(n)].body)
  <1>1. PICK p \in PodNames, pod \in Pod :
          call[StatusSlot(n)] = StatusCall(p, pod) /\ Held(n, p, pod)
    BY DEF Inv, BindingInv, CallsExpected
  <1> QED BY <1>1 DEF StatusCall

(* A PUT in progress is the report of a kubelet.                           *)
LEMMA PutRequest ==
  ASSUME UsersOnlyCreate, Inv, NEW r \in Requests, pc[r] # "idle",
         call[r].kind = "pod", call[r].verb = "PUT"
  PROVE  \E n \in NodeNames : r = StatusSlot(n)
  <1>1. r \notin UserSlots
    BY DEF UsersOnlyCreate, Inv, BindingInv, CallsExpected
  <1>2. \A n \in NodeNames : r # WatchSlot(n)
    BY SMTT(60) DEF Inv, BindingInv, CallsExpected, RegisterCall, PollCall
  <1> QED BY <1>1, <1>2, Slots

(* The handlers of POST, and those of other kinds.                         *)
LEMMA ServeOtherReports ==
  ASSUME ReportInv, NEW r \in Requests, pc[r] # "idle", call[r].kind # "pod" \/ call[r].verb # "PUT",
         UNCHANGED <<call, items, kpc, known>>, \A q \in Requests \ {r} : pc'[q] = pc[q],
         \A p \in PodNames : Exists(pods, p) /\ pods[p].nodeName # NoNode => pods'[p] = pods[p]
  PROVE  \A n \in NodeNames : ReportOn(n)'
  <1>1. \A n \in NodeNames : StatusSlot(n) # r /\ StatusSlot(n) \in Requests
    BY StatusRequest, Slots DEF ReportInv
  <1> QED BY <1>1, ReportsStay

(* The handler of a status PUT: the pod is found, and the body is stored.  *)
LEMMA ServePutReports ==
  ASSUME UsersOnlyCreate, ReportInv, NEW n \in NodeNames,
         PodLoad(StatusSlot(n)) \/ PodUpdate(StatusSlot(n)), UNCHANGED <<kpc, known>>
  PROVE  BoundValid' /\ \A m \in NodeNames : ReportOn(m)'
  <1> DEFINE s == StatusSlot(n)
             p == call[s].name
  <1>0. /\ pc \in [Requests -> {"idle", "start", "loaded", "checked", "done"}]
        /\ pods \in [PodNames -> Pod \cup {Absent}]
        /\ s \in Requests /\ \A m \in NodeNames \ {n} : StatusSlot(m) # s /\ StatusSlot(m) \in Requests
        /\ pc[s] # "idle" /\ UNCHANGED <<call, items>>
    BY Slots DEF ReportInv, Inv, TypeInv, TypeOK, ApiTypeOK, StoreTypeOK, PodLoad, PodUpdate, Handling
  <1>1. /\ call[s].verb = "PUT" /\ call[s].bodyName = p
        /\ p \in PodNames /\ call[s].body \in Pod /\ Held(n, p, call[s].body)
    BY <1>0, StatusRequest DEF ReportInv
  <1>2. ReportOn(n)
    BY DEF ReportInv
  <1> HIDE DEF s, p
  <1>3. CASE PodLoad(s)
    <2>1. /\ pc[s] = "start" /\ pc' = [pc EXCEPT ![s] = "loaded"] /\ UNCHANGED pods
      BY <1>0, <1>1, <1>3 DEF UsersOnlyCreate, PodLoad, Handling, Continue, Held, storeVars, p
    <2>2. ASSUME NEW m \in NodeNames PROVE ReportOn(m)'
      <3>1. \/ pc'[StatusSlot(m)] = pc[StatusSlot(m)]
            \/ pc[StatusSlot(m)] = "start" /\ pc'[StatusSlot(m)] = "loaded"
        BY <1>0, <2>1 DEF s
      <3> QED BY <1>0, <2>1, <3>1, ReportStays
    <2> QED BY <2>1, <2>2, ValidStays
  <1>4. CASE PodUpdate(s)
    <2>1. pc[s] = "loaded" /\ pc' = [pc EXCEPT ![s] = "done"]
      BY <1>4 DEF PodUpdate, Handling, Respond
    <2>2. \/ UNCHANGED pods /\ ~Validate(call[s].body)
          \/ pods' = [pods EXCEPT ![p] = call[s].body] /\ Validate(call[s].body)
      BY <1>1, <1>4, ObjectsAssumption DEF UsersOnlyCreate, PodUpdate, BodyMatches, Written, Update, p
    <2>3. ASSUME NEW q \in PodNames, q # p PROVE pods'[q] = pods[q]
      BY <1>0, <2>2, <2>3
    <2>4. ASSUME NEW m \in NodeNames, m # n PROVE ReportOn(m)'
      <3>1. pc'[StatusSlot(m)] = pc[StatusSlot(m)]
        BY <1>0, <2>1, <2>4
      <3>2. \A q \in PodNames : Exists(pods, q) /\ pods[q].nodeName = m => pods'[q] = pods[q]
        BY <1>1, <2>3, <2>4 DEF Held
      <3> QED BY <1>0, <3>1, <3>2, ReportStays
    <2>5. ReportOn(n)'
      <3>1. pc'[s] = "done" /\ kpc[n] # "registering"
        BY <1>0, <1>2, <2>1 DEF ReportOn, s
      <3>2. kpc[n] = "up" => known[n][p] = call[s].body /\ known[n][p] # Absent
        BY <1>0, <1>1, <1>2 DEF ReportOn, Held, s, p
      <3>3. kpc[n] = "up" => Validate(call[s].body)
        BY <1>1, <1>2, <3>2 DEF ReportOn, CopyCurrent
      <3>4. kpc[n] = "up" => pods'[p] = known[n][p]
        BY <1>0, <1>1, <2>2, <3>2, <3>3
      <3>5. ASSUME NEW q \in PodNames PROVE CopyCurrent(n, q)'
        <4>1. CASE q = p
          BY <1>1, <1>2, <3>2, <3>4, <4>1 DEF ReportOn, CopyCurrent
        <4>2. CASE q # p
          BY <1>0, <1>2, <2>3, <4>2 DEF ReportOn, CopyCurrent, Reporting, s, p
        <4> QED BY <4>1, <4>2
      <3> QED BY <1>0, <1>2, <3>1, <3>2, <3>5 DEF ReportOn, s, p
    <2>6. BoundValid'
      BY <1>1, <2>2, ValidStays
    <2> QED BY <2>4, <2>5, <2>6
  <1> QED BY <1>3, <1>4 DEF s

(* The answer to a poll is what is stored.                                 *)
LEMMA ServeListReports ==
  ASSUME ReportInv, NEW r \in Requests, PodList(r), UNCHANGED <<kpc, known>>
  PROVE  BoundValid' /\ \A m \in NodeNames : ReportOn(m)'
  <1>0. /\ pc \in [Requests -> {"idle", "start", "loaded", "checked", "done"}]
        /\ items \in [Requests -> [PodNames -> Pod \cup {Absent}]]
        /\ pc[r] # "idle" /\ call[r].kind = "pod" /\ call[r].verb # "PUT"
        /\ UNCHANGED <<pods, call>>
    BY DEF ReportInv, Inv, TypeInv, TypeOK, ApiTypeOK, PodList, Handling, storeVars
  <1>1. \A q \in Requests \ {r} : pc'[q] = pc[q] /\ items'[q] = items[q]
    BY <1>0 DEF PodList, Respond
  <1>2. \A p \in PodNames : items'[r][p] \in {items[r][p], pods[p], Absent}
    BY SMTT(60), <1>0 DEF PodList
  <1>3. ASSUME NEW n \in NodeNames PROVE ReportOn(n)'
    <2>1. StatusSlot(n) # r /\ StatusSlot(n) \in Requests /\ WatchSlot(n) \in Requests
      BY <1>0, StatusRequest, Slots DEF ReportInv
    <2>2. CASE WatchSlot(n) # r
      BY <1>0, <1>1, <2>1, <2>2, ReportStays
    <2>3. CASE WatchSlot(n) = r
      BY <1>0, <1>1, <1>2, <2>1, <2>3 DEF ReportInv, ReportOn, CopyCurrent, Reporting
    <2> QED BY <2>2, <2>3
  <1> QED BY <1>0, <1>3, ValidStays

(* A step of a handler.                                                    *)
LEMMA ServeReports ==
  ASSUME UsersOnlyCreate, ReportInv, NEW r \in Requests, Serve(r), UNCHANGED kubeVars
  PROVE  BoundValid' /\ \A n \in NodeNames : ReportOn(n)'
  <1>0. /\ pc \in [Requests -> {"idle", "start", "loaded", "checked", "done"}]
        /\ pods \in [PodNames -> Pod \cup {Absent}]
        /\ UNCHANGED <<kpc, known>> /\ Inv /\ ApiTypeOK
    BY DEF ReportInv, Inv, TypeInv, TypeOK, ApiTypeOK, StoreTypeOK, kubeVars
  <1>m. ASSUME ServePod(r)
        PROVE  pc[r] # "idle" /\ UNCHANGED call /\ \A q \in Requests \ {r} : pc'[q] = pc[q]
    BY <1>0, <1>m, ServePodMoves, OwnRequest DEF Moves
  <1>1. CASE ServeNode(r) \/ ServeRS(r)
    BY <1>0, <1>1, OtherHandlers, ServeOtherReports, ValidStays
  <1>2. CASE PodCreateGet(r)
    <2>1. /\ pc[r] # "idle" /\ call[r].verb # "PUT" /\ UNCHANGED <<pods, call, items>>
          /\ \A q \in Requests \ {r} : pc'[q] = pc[q]
      BY <1>m, <1>2 DEF ServePod, PodCreateGet, Handling, storeVars
    <2> QED BY <1>0, <2>1, ServeOtherReports, ValidStays
  <1>3. CASE PodCreatePut(r)
    <2>1. /\ pc[r] # "idle" /\ call[r].verb # "PUT" /\ UNCHANGED <<call, items>>
          /\ \A q \in Requests \ {r} : pc'[q] = pc[q]
      BY <1>m, <1>3 DEF ServePod, PodCreatePut, Handling
    <2>2. /\ ~Exists(pods, call[r].name) /\ PodWrite(call[r].name, Accepted(call[r].body))
          /\ Accepted(call[r].body).nodeName = NoNode
      BY <1>0, <1>3, CreateWrite
    <2> QED BY <1>0, <2>1, <2>2, ServeOtherReports, ValidStays DEF PodWrite, Exists
  <1>4. CASE PodLoad(r)
    <2>1. CASE call[r].verb = "PUT"
      <3>1. PICK n \in NodeNames : r = StatusSlot(n)
        BY <1>0, <1>4, <2>1, PutRequest DEF PodLoad, Handling
      <3> QED BY <1>0, <1>4, <3>1, ServePutReports
    <2>2. CASE call[r].verb # "PUT"
      <3>1. /\ pc[r] # "idle" /\ UNCHANGED <<pods, call, items>>
            /\ \A q \in Requests \ {r} : pc'[q] = pc[q]
        BY <1>m, <1>4 DEF ServePod, PodLoad, storeVars
      <3> QED BY <1>0, <2>2, <3>1, ServeOtherReports, ValidStays
    <2> QED BY <2>1, <2>2
  <1>5. CASE PodUpdate(r)
    <2>1. PICK n \in NodeNames : r = StatusSlot(n)
      BY <1>0, <1>5, PutRequest DEF PodUpdate, Handling
    <2> QED BY <1>0, <1>5, <2>1, ServePutReports
  <1>6. CASE PodDelete(r)
    BY <1>0, <1>6, PodCallers DEF PodDelete, Handling
  <1>7. CASE PodList(r)
    BY <1>0, <1>7, ServeListReports
  <1> QED BY <1>1, <1>2, <1>3, <1>4, <1>5, <1>6, <1>7 DEF Serve, ServePod

(* The scheduler writes pods without a node, the controller new ones.      *)
LEMMA ProcessReports ==
  ASSUME ReportInv, UNCHANGED <<apiVars, kubeVars>>,
         UNCHANGED pods \/ SchedAssign \/ ReconcileCreatePut
  PROVE  BoundValid' /\ \A n \in NodeNames : ReportOn(n)'
  <1>0. /\ UNCHANGED <<call, pc, items, kpc, known>> /\ Inv
        /\ pods \in [PodNames -> Pod \cup {Absent}]
    BY DEF apiVars, kubeVars, ReportInv, Inv, TypeInv, TypeOK, StoreTypeOK
  <1>1. CASE UNCHANGED pods
    BY <1>0, <1>1, ReportsStay, ValidStays
  <1>2. CASE SchedAssign
    <2>1. PICK p \in queue, n \in available :
            pods' = IF Validate(listed[p]) THEN Update(pods, p, Bind(listed[p], n)) ELSE pods
      BY <1>2 DEF SchedAssign
    <2>2. p \in PodNames /\ n \in NodeNames /\ listed[p] \in Pod
      BY <1>0 DEF Inv, TypeInv, TypeOK, SchedTypeOK, SchedShape
    <2>3. pods[p].nodeName = NoNode
      BY <1>0, <2>2 DEF Inv, BindingInv, ListedIsCurrent, PendingUnbound
    <2>4. Bind(listed[p], n) \in Pod /\ Bind(listed[p], n).spec = listed[p].spec
      BY <2>2 DEF Bind, Pod, PodStatus
    <2>5. Validate(listed[p]) => Validate(Bind(listed[p], n))
      BY <2>2, <2>4, ValidSpec
    <2>6. BoundValid'
      BY <2>1, <2>2, <2>4, <2>5, ValidStays DEF Update
    <2>7. \A q \in PodNames : Exists(pods, q) /\ pods[q].nodeName # NoNode => pods'[q] = pods[q]
      BY <1>0, <2>1, <2>3 DEF Update
    <2> QED BY <1>0, <2>6, <2>7, ReportsStay
  <1>3. CASE ReconcileCreatePut
    <2>1. ~Exists(pods, newPod) /\ PodWrite(newPod, TemplatePod) /\ TemplatePod.nodeName = NoNode
      BY <1>0, <1>3, TemplateWrite DEF TemplatePod
    <2> QED BY <1>0, <2>1, ReportsStay, ValidStays DEF PodWrite, Exists
  <1> QED BY <1>1, <1>2, <1>3

(* A user sends a request.                                                 *)
LEMMA UserReports ==
  ASSUME ReportInv, NEW u \in UserSlots, UserCall(u), UNCHANGED kubeVars
  PROVE  BoundValid' /\ \A n \in NodeNames : ReportOn(n)'
  <1>1. PICK c \in UserCalls : Issue(u, c)
    BY DEF UserCall
  <1>2. UNCHANGED <<pods, kpc, known>> /\ u \in Requests /\ Inv
    BY DEF UserCall, storeVars, kubeVars, Requests, ReportInv
  <1>3. \A q \in Requests \ {u} : call'[q] = call[q] /\ pc'[q] = pc[q] /\ items'[q] = items[q]
    BY <1>1, <1>2, Sent
  <1> QED BY <1>2, <1>3, Slots, ReportsStay, ValidStays

-----------------------------------------------------------------------------
(* A step of node n's kubelet leaves the reports of the others alone.      *)
LEMMA OwnReport ==
  ASSUME ReportInv, NEW n \in NodeNames, UNCHANGED pods, ReportOn(n)',
         \A m \in NodeNames \ {n} : kpc'[m] = kpc[m] /\ known'[m] = known[m],
         \/ UNCHANGED <<call, pc, items>>
         \/ \E r \in {WatchSlot(n), StatusSlot(n)} : Consume(r) \/ \E c : Issue(r, c)
  PROVE  BoundValid' /\ \A m \in NodeNames : ReportOn(m)'
  <1>0. /\ call \in [Requests -> Calls \cup {Absent}]
        /\ pc \in [Requests -> {"idle", "start", "loaded", "checked", "done"}]
        /\ items \in [Requests -> [PodNames -> Pod \cup {Absent}]]
    BY DEF ReportInv, Inv, TypeInv, TypeOK, ApiTypeOK
  <1>1. ASSUME NEW m \in NodeNames, m # n PROVE ReportOn(m)'
    <2>1. /\ WatchSlot(m) \in Requests \ {WatchSlot(n), StatusSlot(n)}
          /\ StatusSlot(m) \in Requests \ {WatchSlot(n), StatusSlot(n)}
      BY <1>1, Slots
    <2>2. /\ call'[StatusSlot(m)] = call[StatusSlot(m)] /\ pc'[StatusSlot(m)] = pc[StatusSlot(m)]
          /\ items'[WatchSlot(m)] = items[WatchSlot(m)]
      BY <1>0, <2>1 DEF Consume, Issue
    <2> QED BY <1>1, <2>2, ReportStays
  <1> QED BY <1>1, ValidStays

(* The kubelet starts, registers, polls, gets an answer or ends.           *)
LEMMA WatchReports ==
  ASSUME TRUE \notin TransportFaults, ReportInv, NEW n \in NodeNames,
         KubeletStart(n) \/ KubeletRegistered(n) \/ KubeletPoll(n) \/ StatusAnswered(n) \/ Dies(n)
  PROVE  BoundValid' /\ \A m \in NodeNames : ReportOn(m)'
  <1> DEFINE s == StatusSlot(n)
             w == WatchSlot(n)
  <1>0. /\ pc \in [Requests -> {"idle", "start", "loaded", "checked", "done"}]
        /\ call \in [Requests -> Calls \cup {Absent}]
        /\ items \in [Requests -> [PodNames -> Pod \cup {Absent}]]
        /\ kpc \in [NodeNames -> {"down", "registering", "up"}]
        /\ known \in [NodeNames -> [PodNames -> Pod \cup {Absent}]]
        /\ s \in Requests /\ w \in Requests /\ s # w /\ ReportOn(n)
    BY Slots DEF ReportInv, Inv, TypeInv, TypeOK, ApiTypeOK, KubeTypeOK
  <1> HIDE DEF s, w
  <1>1. CASE KubeletStart(n)
    <2>1. /\ kpc'[n] = "registering" /\ UNCHANGED <<pods, known>> /\ Issue(w, RegisterCall(n))
          /\ pc[s] = "idle" /\ kpc[n] = "down"
          /\ \A m \in NodeNames \ {n} : kpc'[m] = kpc[m]
      BY <1>0, <1>1 DEF KubeletStart, storeVars, s, w
    <2>2. pc'[s] = "idle"
      BY <1>0, <2>1 DEF Issue
    <2>3. ReportOn(n)'
      BY <1>0, <2>1, <2>2 DEF ReportOn, CopyCurrent, s
    <2> QED BY <2>1, <2>3, OwnReport DEF w
  <1>2. CASE KubeletRegistered(n)
    <2>1. /\ UNCHANGED <<pods, known>> /\ Consume(w) /\ kpc[n] = "registering"
          /\ kpc'[n] \in {"up", "down"} /\ \A m \in NodeNames \ {n} : kpc'[m] = kpc[m]
      BY <1>0, <1>2 DEF KubeletRegistered, storeVars, w
    <2>2. pc'[s] = "idle" /\ \A p \in PodNames : items'[w][p] = Absent /\ known'[n][p] = Absent
      BY <1>0, <2>1 DEF Consume, NoItems, ReportOn, CopyCurrent, s
    <2>3. ReportOn(n)'
      BY <2>1, <2>2 DEF ReportOn, CopyCurrent, s, w
    <2> QED BY <2>1, <2>3, OwnReport DEF w
  <1>3. CASE KubeletPoll(n)
    <2>1. UNCHANGED <<pods, known, kpc>> /\ Issue(w, PollCall(n))
      BY <1>3 DEF KubeletPoll, storeVars, kubeVars, w
    <2>2. /\ call'[s] = call[s] /\ pc'[s] = pc[s]
          /\ \A p \in PodNames : items'[w][p] = Absent
      BY <1>0, <2>1 DEF Issue, NoItems
    <2>3. ReportOn(n)'
      BY <2>1, <2>2, ReportStays DEF s, w
    <2> QED BY <2>1, <2>3, OwnReport DEF w
  <1>4. CASE StatusAnswered(n)
    <2>1. UNCHANGED <<pods, known, kpc>> /\ Consume(s) /\ pc[s] = "done"
      BY <1>4 DEF StatusAnswered, Returns, storeVars, kubeVars, s
    <2>2. /\ call'[s] = call[s] /\ pc'[s] = "idle" /\ items'[w] = items[w]
      BY <1>0, <2>1 DEF Consume
    <2>3. ReportOn(n)'
      BY <2>1, <2>2, ReportStays DEF s, w
    <2> QED BY <2>1, <2>3, OwnReport DEF s
  <1>5. CASE Dies(n)
    <2>1. /\ UNCHANGED <<pods, call, pc, items>> /\ kpc'[n] = "down" /\ known'[n] = NoItems
          /\ \A m \in NodeNames \ {n} : kpc'[m] = kpc[m] /\ known'[m] = known[m]
      BY <1>0, <1>5 DEF Dies, storeVars, apiVars
    <2>2. \A p \in PodNames : known'[n][p] = Absent
      BY <2>1 DEF NoItems
    <2>3. ReportOn(n)'
      BY <2>1, <2>2 DEF ReportOn, CopyCurrent
    <2> QED BY <2>1, <2>3, OwnReport
  <1> QED BY <1>1, <1>2, <1>3, <1>4, <1>5

(* runNewPods: the pods that join the map are as they are stored.          *)
LEMMA RunReports ==
  ASSUME ReportInv, NEW n \in NodeNames, RunNewPods(n)
  PROVE  BoundValid' /\ \A m \in NodeNames : ReportOn(m)'
  <1> DEFINE s == StatusSlot(n)
             w == WatchSlot(n)
  <1>0. /\ pc \in [Requests -> {"idle", "start", "loaded", "checked", "done"}]
        /\ items \in [Requests -> [PodNames -> Pod \cup {Absent}]]
        /\ known \in [NodeNames -> [PodNames -> Pod \cup {Absent}]]
        /\ s \in Requests /\ w \in Requests /\ s # w
        /\ Inv /\ BoundValid /\ ReportOn(n) /\ CopiesHeld
    BY Slots DEF ReportInv, Inv, BindingInv, TypeInv, TypeOK, ApiTypeOK, KubeTypeOK
  <1> HIDE DEF s, w
  <1>1. kpc[n] = "up" /\ UNCHANGED <<pods, kpc>> /\ Consume(w)
    BY DEF RunNewPods, storeVars, w
  <1>2. /\ \A p \in PodNames : known'[n][p] = IF p \in NewPods(n) THEN items[w][p] ELSE known[n][p]
        /\ \A m \in NodeNames \ {n} : known'[m] = known[m]
    BY <1>0 DEF RunNewPods, w
  <1>3. /\ UNCHANGED call /\ pc'[s] = pc[s] /\ \A p \in PodNames : items'[w][p] = Absent
    BY <1>0, <1>1 DEF Consume, NoItems
  <1>4. ASSUME NEW p \in NewPods(n)
        PROVE  p \in PodNames /\ known[n][p] = Absent /\ items[w][p] = pods[p] /\ Validate(pods[p])
    <2>1. p \in PodNames /\ known[n][p] = Absent /\ items[w][p] # Absent
      BY DEF NewPods, w
    <2>2. items[w][p] = pods[p] /\ Held(n, p, items[w][p])
      BY <1>0, <1>1, <2>1 DEF ReportOn, CopyCurrent, CopiesHeld, w
    <2> QED BY <1>0, <2>1, <2>2, ObjectsAssumption DEF Held, BoundValid
  <1>5. ASSUME NEW p \in PodNames PROVE CopyCurrent(n, p)'
    BY <1>0, <1>1, <1>2, <1>3, <1>4 DEF ReportOn, CopyCurrent, Reporting, s, w
  <1>6. pc[s] # "idle" => known'[n][call[s].name] = call[s].body
    <2>1. ASSUME pc[s] # "idle"
          PROVE  call[s].name \in PodNames /\ known[n][call[s].name] = call[s].body /\ call[s].body # Absent
      BY <1>0, <1>1, <2>1, StatusRequest DEF ReportOn, Held, s
    <2> QED BY <1>2, <1>4, <2>1
  <1>7. ReportOn(n)'
    BY <1>1, <1>3, <1>5, <1>6 DEF ReportOn, s
  <1> QED BY <1>1, <1>2, <1>7, OwnReport DEF w

(* The status loop: the status is changed in the map and sent at once.     *)
LEMMA StatusReports ==
  ASSUME ReportInv, NEW n \in NodeNames, StatusTick(n) \/ UpdatePodStatus(n)
  PROVE  BoundValid' /\ \A m \in NodeNames : ReportOn(m)'
  <1> DEFINE s == StatusSlot(n)
  <1>0. /\ pc \in [Requests -> {"idle", "start", "loaded", "checked", "done"}]
        /\ call \in [Requests -> Calls \cup {Absent}]
        /\ items \in [Requests -> [PodNames -> Pod \cup {Absent}]]
        /\ known \in [NodeNames -> [PodNames -> Pod \cup {Absent}]]
        /\ s \in Requests /\ WatchSlot(n) \in Requests /\ s # WatchSlot(n)
        /\ Inv /\ ReportOn(n)
    BY Slots DEF ReportInv, Inv, TypeInv, TypeOK, ApiTypeOK, KubeTypeOK
  <1>1. kpc[n] = "up" /\ pc[s] = "idle" /\ UNCHANGED <<pods, kpc>>
    BY DEF StatusTick, UpdatePodStatus, storeVars
  <1> HIDE DEF s
  <1>2. ASSUME UNCHANGED <<known, apiVars>> PROVE BoundValid' /\ \A m \in NodeNames : ReportOn(m)'
    BY <1>1, <1>2, ReportsStay, ValidStays DEF apiVars
  <1>3. ASSUME NEW p \in sweep[n], NEW states,
               known' = [known EXCEPT ![n][p] =
                 [known[n][p] EXCEPT !.status = determinePodStatus(states)]],
               Issue(s, StatusCall(p, [known[n][p] EXCEPT !.status = determinePodStatus(states)]))
        PROVE  BoundValid' /\ \A m \in NodeNames : ReportOn(m)'
    <2> DEFINE pod == [known[n][p] EXCEPT !.status = determinePodStatus(states)]
    <2>1. p \in PodNames /\ known[n][p] \in Pod /\ known[n][p] # Absent
      BY SMTT(60), <1>0, ObjectsAssumption DEF Inv, TypeInv, TypeOK, KubeTypeOK, KubeShape, ListKeys
    <2>2. pod \in Pod /\ pod.spec = known[n][p].spec
      BY <2>1, StatusType DEF Pod
    <2>3. Validate(pod) /\ pod # Absent
      BY <1>0, <2>1, <2>2, ValidSpec, ObjectsAssumption DEF ReportOn, CopyCurrent
    <2> HIDE DEF pod
    <2>4. known' = [known EXCEPT ![n][p] = pod] /\ Issue(s, StatusCall(p, pod))
      BY <1>3 DEF pod
    <2>5. /\ \A m \in NodeNames \ {n} : known'[m] = known[m]
          /\ \A q \in PodNames : known'[n][q] = IF q = p THEN pod ELSE known[n][q]
      BY <1>0, <2>1, <2>4
    <2>6. /\ pc'[s] = "start" /\ call'[s].name = p /\ call'[s].body = pod
          /\ items'[WatchSlot(n)] = items[WatchSlot(n)]
      BY <1>0, <2>4 DEF Issue, StatusCall
    <2>7. ASSUME NEW q \in PodNames PROVE CopyCurrent(n, q)'
      BY <1>0, <1>1, <2>1, <2>3, <2>5, <2>6, <2>7 DEF ReportOn, CopyCurrent, Reporting, s
    <2>8. ReportOn(n)'
      BY <1>1, <2>1, <2>5, <2>6, <2>7 DEF ReportOn, s
    <2> QED BY <1>1, <2>4, <2>5, <2>8, OwnReport DEF s
  <1>4. CASE StatusTick(n)
    BY <1>2, <1>4 DEF StatusTick
  <1>5. CASE UpdatePodStatus(n)
    BY <1>2, <1>3, <1>5 DEF UpdatePodStatus, s
  <1> QED BY <1>4, <1>5

(* Every step keeps the kubelets' copies current.                          *)
LEMMA ReportStep ==
  ASSUME ReportsArrive, ReportInv, [Next]_vars
  PROVE  BoundValid' /\ \A n \in NodeNames : ReportOn(n)'
  <1>0. UsersOnlyCreate /\ TRUE \notin TransportFaults
    BY DEF ReportsArrive
  <1>1. CASE Users
    BY <1>1, UserReports DEF Users
  <1>2. ASSUME NEW r \in Requests, Server(r) PROVE BoundValid' /\ \A n \in NodeNames : ReportOn(n)'
    BY <1>0, <1>2, ServeReports DEF Server
  <1>3. CASE SchedulerProcess
    BY <1>3, ProcessReports DEF SchedulerProcess, SchedStep, SchedListPods, SchedListNodes, storeVars
  <1>4. CASE ControllerProcess
    BY <1>4, ProcessReports DEF ControllerProcess, CtlStep, CtlList, ReconcileGet, ReconcileList,
       ReconcileCreateGet, ReconcileUpdateGet, ReconcileUpdatePut, CtlRestart, storeVars
  <1>5. ASSUME NEW n \in NodeNames, UNCHANGED <<pods, call, pc, items, kpc, known>>
        PROVE  BoundValid' /\ \A m \in NodeNames : ReportOn(m)'
    BY <1>5, ReportsStay, ValidStays
  <1>6. ASSUME NEW n \in NodeNames, KubeletProcess(n) \/ NodeEvent(n)
        PROVE  BoundValid' /\ \A m \in NodeNames : ReportOn(m)'
    <2>1. ASSUME ContainerExit(n) \/ \E p \in PodNames : ContainerCreate(n, p) \/ ContainerStart(n, p)
          PROVE  UNCHANGED <<pods, call, pc, items, kpc, known>>
      BY <2>1 DEF ContainerExit, ContainerCreate, ContainerStart, storeVars, apiVars
    <2> QED BY <1>0, <1>5, <1>6, <2>1, WatchReports, RunReports, StatusReports
            DEF KubeletProcess, KubeletStep, NodeEvent, KubeletFault, MapFault, PullPanic, KubeletCrash
  <1>7. CASE Crash
    BY <1>7, ProcessReports DEF Crash, SchedAbort, CtlCrash, storeVars
  <1>8. CASE UNCHANGED vars
    BY <1>8, ProcessReports DEF vars, storeVars
  <1> QED BY <1>1, <1>2, <1>3, <1>4, <1>6, <1>7, <1>8 DEF Next

(* Nothing is known in the beginning.                                      *)
LEMMA ReportInit == Init => BoundValid /\ \A n \in NodeNames : ReportOn(n)
  BY SMTT(60), Slots DEF Init, StoreInit, ApiInit, KubeInit, NoItems, BoundValid, ReportOn,
     CopyCurrent, Exists

-----------------------------------------------------------------------------
(* The life of a pod *)

(* x, if it is a pod, is a copy of a stored pod p, as far as its spec goes.*)
CopyOf(p, x) == x # Absent => Exists(pods, p) /\ x.spec = pods[p].spec

(* A pod that is there stays, with its containers.                         *)
SpecsKept == \A p \in PodNames : Exists(pods, p) => Exists(pods', p) /\ pods'[p].spec = pods[p].spec

(* The three ways a pod is written.                                        *)
LEMMA PodCreated ==
  ASSUME NEW p \in PodNames, ~Exists(pods, p), NEW spec \in Specs,
         pods' = [pods EXCEPT ![p] = Lifecycle!Created(spec)]
  PROVE  Lifecycle!Next
  BY DEF Lifecycle!Next, Lifecycle!Create, Exists

LEMMA PodBound ==
  ASSUME NEW p \in PodNames, Exists(pods, p), pods[p].nodeName = NoNode, NEW n \in NodeNames,
         pods' = [pods EXCEPT ![p] = [@ EXCEPT !.nodeName = n, !.status = "Scheduled"]]
  PROVE  Lifecycle!Next
  BY DEF Lifecycle!Next, Lifecycle!Bind, Exists

LEMMA PodReported ==
  ASSUME NEW p \in PodNames, Exists(pods, p), pods[p].nodeName # NoNode,
         NEW status \in Lifecycle!Reported,
         pods' = [pods EXCEPT ![p] = [@ EXCEPT !.status = status]]
  PROVE  Lifecycle!Next
  BY DEF Lifecycle!Next, Lifecycle!Report, Exists

(* None of them touches the containers of a pod that is there.             *)
LEMMA LifeKeepsSpecs ==
  ASSUME pods \in [PodNames -> Pod \cup {Absent}], UNCHANGED pods \/ Lifecycle!Next
  PROVE  SpecsKept
  <1>1. CASE UNCHANGED pods
    BY <1>1 DEF SpecsKept, Exists
  <1>2. ASSUME NEW p \in PodNames, Lifecycle!Create(p) PROVE SpecsKept
    BY <1>2 DEF Lifecycle!Create, SpecsKept, Exists
  <1>3. ASSUME NEW p \in PodNames, NEW pod, pods[p] # Absent, pod # Absent, pod.spec = pods[p].spec,
               pods' = [pods EXCEPT ![p] = pod]
        PROVE  SpecsKept
    BY <1>3 DEF SpecsKept, Exists
  <1>4. ASSUME NEW p \in PodNames, Lifecycle!Bind(p) PROVE SpecsKept
    <2>1. PICK n \in NodeNames :
            pods' = [pods EXCEPT ![p] = [pods[p] EXCEPT !.nodeName = n, !.status = "Scheduled"]]
      BY <1>4 DEF Lifecycle!Bind
    <2>2. pods[p] \in Pod
      BY <1>4 DEF Lifecycle!Bind
    <2>3. /\ [pods[p] EXCEPT !.nodeName = n, !.status = "Scheduled"] \in Pod
          /\ [pods[p] EXCEPT !.nodeName = n, !.status = "Scheduled"].spec = pods[p].spec
      BY <2>2 DEF Pod, PodStatus
    <2> QED BY <1>3, <1>4, <2>1, <2>3, ObjectsAssumption DEF Lifecycle!Bind
  <1>5. ASSUME NEW p \in PodNames, Lifecycle!Report(p) PROVE SpecsKept
    <2>1. PICK status \in Lifecycle!Reported :
            pods' = [pods EXCEPT ![p] = [pods[p] EXCEPT !.status = status]]
      BY <1>5 DEF Lifecycle!Report
    <2>2. pods[p] \in Pod
      BY <1>5 DEF Lifecycle!Report
    <2>3. /\ [pods[p] EXCEPT !.status = status] \in Pod
          /\ [pods[p] EXCEPT !.status = status].spec = pods[p].spec
      BY <2>2 DEF Pod, PodStatus, Lifecycle!Reported
    <2> QED BY <1>3, <1>5, <2>1, <2>3, ObjectsAssumption DEF Lifecycle!Report
  <1> QED BY <1>1, <1>2, <1>4, <1>5 DEF Lifecycle!Next

(* CreatePod of the API server: what it stores is new, pending and without *)
(* a node, for the status defaults to Pending.                             *)
LEMMA CreateLife ==
  ASSUME UsersOnlyCreate, Inv, NEW r \in Requests, PodCreatePut(r)
  PROVE  Lifecycle!Next
  <1>1. /\ ~Exists(pods, call[r].name) /\ PodWrite(call[r].name, Accepted(call[r].body))
        /\ Accepted(call[r].body).nodeName = NoNode
    BY CreateWrite
  <1> DEFINE pod == Accepted(call[r].body)
  <1> HIDE DEF pod
  <1>2. /\ call[r].name \in PodNames /\ pod \in Pod /\ pods' = [pods EXCEPT ![call[r].name] = pod]
        /\ pod.nodeName = NoNode /\ pod.status = "Pending"
    BY <1>1 DEF PodWrite, pod
  <1>3. pod = Lifecycle!Created(pod.spec) /\ pod.spec \in Specs
    BY <1>2 DEF Pod, Lifecycle!Created
  <1> QED BY <1>1, <1>2, <1>3, PodCreated

(* CreatePod of the controller.                                            *)
LEMMA TemplateLife ==
  ASSUME Inv, ReconcileCreatePut
  PROVE  Lifecycle!Next
  <1>1. newPod \in GeneratedNames /\ ~Exists(pods, newPod) /\ PodWrite(newPod, TemplatePod)
    BY TemplateWrite
  <1>2. TemplatePod = Lifecycle!Created(<<Template[at]>>)
    BY DEF TemplatePod, Lifecycle!Created
  <1>3. <<Template[at]>> \in Specs
    BY <1>1 DEF PodWrite, TemplatePod, Pod
  <1> QED BY <1>1, <1>2, <1>3, PodCreated DEF PodWrite

(* The scheduler's UpdatePod: a binding, since the copy it changes is what *)
(* is stored, and that has no node.                                        *)
LEMMA BindLife ==
  ASSUME Inv, SchedAssign
  PROVE  UNCHANGED pods \/ Lifecycle!Next
  <1>1. PICK p \in queue, n \in available :
          pods' = IF Validate(listed[p]) THEN Update(pods, p, Bind(listed[p], n)) ELSE pods
    BY DEF SchedAssign
  <1>2. p \in PodNames /\ n \in NodeNames
    BY DEF Inv, TypeInv, TypeOK, SchedTypeOK
  <1>3. Exists(pods, p) /\ listed[p] = pods[p] /\ pods[p].nodeName = NoNode
    BY <1>2 DEF Inv, BindingInv, ListedIsCurrent, PendingUnbound
  <1>4. CASE Validate(listed[p])
    <2>1. pods' = [pods EXCEPT ![p] = [pods[p] EXCEPT !.nodeName = n, !.status = "Scheduled"]]
      BY <1>1, <1>3, <1>4 DEF Update, Bind
    <2> QED BY <1>2, <1>3, <2>1, PodBound
  <1> QED BY <1>1, <1>4

(* The PUT of a kubelet: a report, since its body differs from what is     *)
(* stored in the status only.                                              *)
LEMMA ReportLife ==
  ASSUME UsersOnlyCreate, Inv, CopiesAlike, NEW r \in Requests, PodUpdate(r)
  PROVE  UNCHANGED pods \/ Lifecycle!Next
  <1>1. pc[r] = "loaded" /\ call[r].kind = "pod" /\ call[r].verb = "PUT"
    BY DEF PodUpdate, Handling
  <1>2. PICK n \in NodeNames : r = StatusSlot(n)
    BY <1>1, PutRequest
  <1> DEFINE p == call[r].name
             pod == call[r].body
  <1>3. p \in PodNames /\ pod \in Pod /\ Held(n, p, pod)
    BY <1>1, <1>2, StatusRequest
  <1>4. pod.spec = pods[p].spec /\ pod.status \in Lifecycle!Reported
    BY <1>1, <1>2, <1>3 DEF CopiesAlike, SameSpec, Held
  <1>5. UNCHANGED pods \/ pods' = [pods EXCEPT ![p] = pod]
    BY DEF PodUpdate, Written, Update, UsersOnlyCreate
  <1>6. pods[p] \in Pod /\ Exists(pods, p) /\ pods[p].nodeName = n /\ pod.nodeName = n
    BY <1>3 DEF Held, Exists, Inv, TypeInv, TypeOK, StoreTypeOK
  <1> HIDE DEF p, pod
  <1>7. pod = [pods[p] EXCEPT !.status = pod.status]
    BY <1>3, <1>4, <1>6 DEF Pod
  <1> QED BY <1>3, <1>4, <1>5, <1>6, <1>7, PodReported, ObjectsAssumption

(* Every step of the cluster is a step in the life of one pod, or leaves   *)
(* the pods alone.                                                         *)
LEMMA LifeStep ==
  ASSUME UsersOnlyCreate, Inv, CopiesAlike, [Next]_vars
  PROVE  UNCHANGED pods \/ Lifecycle!Next
  <1>1. CASE Users
    BY <1>1 DEF Users, UserCall, storeVars
  <1>2. ASSUME NEW r \in Requests, Server(r) PROVE UNCHANGED pods \/ Lifecycle!Next
    <2>1. CASE ServeNode(r) \/ ServeRS(r)
      BY <2>1, ServeNodeMoves, ServeRSMoves
    <2>2. CASE PodCreateGet(r) \/ PodLoad(r) \/ PodList(r)
      BY <2>2 DEF PodCreateGet, PodLoad, PodList, storeVars
    <2>3. CASE PodDelete(r)
      BY <2>3, PodCallers DEF PodDelete, Handling
    <2> QED BY <1>2, <2>1, <2>2, <2>3, CreateLife, ReportLife DEF Server, Serve, ServePod
  <1>3. CASE SchedulerProcess
    BY <1>3, BindLife DEF SchedulerProcess, SchedStep, SchedListPods, SchedListNodes, storeVars
  <1>4. CASE ControllerProcess
    BY <1>4, TemplateLife DEF ControllerProcess, CtlStep, CtlList, ReconcileGet, ReconcileList,
       ReconcileCreateGet, ReconcileUpdateGet, ReconcileUpdatePut, CtlRestart, storeVars
  <1>5. ASSUME NEW n \in NodeNames, KubeletProcess(n) PROVE UNCHANGED pods
    BY <1>5 DEF KubeletProcess, KubeletStep, KubeletStart, KubeletRegistered, KubeletPoll, RunNewPods,
       StatusTick, UpdatePodStatus, StatusAnswered, ContainerCreate, ContainerStart, storeVars
  <1>6. ASSUME NEW n \in NodeNames, NodeEvent(n) PROVE UNCHANGED pods
    BY <1>6 DEF NodeEvent, KubeletFault, MapFault, PullPanic, KubeletCrash, Dies, ContainerExit, storeVars
  <1>7. CASE Crash
    BY <1>7 DEF Crash, SchedAbort, CtlCrash, storeVars
  <1>8. CASE UNCHANGED vars
    BY <1>8 DEF vars, storeVars
  <1> QED BY <1>1, <1>2, <1>3, <1>4, <1>5, <1>6, <1>7, <1>8 DEF Next

-----------------------------------------------------------------------------
(* What the kubelets hold: copies that differ in the status only.          *)
LEMMA CopiesNow ==
  ASSUME Inv, CopiesAlike, NEW n \in NodeNames
  PROVE  /\ \A p \in PodNames : CopyOf(p, known[n][p]) /\ CopyOf(p, items[WatchSlot(n)][p])
         /\ pc[StatusSlot(n)] # "idle" =>
              /\ call[StatusSlot(n)].name \in PodNames
              /\ CopyOf(call[StatusSlot(n)].name, call[StatusSlot(n)].body)
              /\ call[StatusSlot(n)].body.status \in Lifecycle!Reported
  <1>1. \A p \in PodNames : CopyOf(p, known[n][p]) /\ CopyOf(p, items[WatchSlot(n)][p])
    BY DEF Inv, BindingInv, CopiesHeld, Held, CopiesAlike, SameSpec, CopyOf
  <1>2. ASSUME pc[StatusSlot(n)] # "idle"
        PROVE  /\ call[StatusSlot(n)].name \in PodNames
               /\ CopyOf(call[StatusSlot(n)].name, call[StatusSlot(n)].body)
               /\ call[StatusSlot(n)].body.status \in Lifecycle!Reported
    BY <1>2, StatusRequest DEF Held, CopiesAlike, SameSpec, CopyOf
  <1> QED BY <1>1, <1>2

(* Copies of what is stored before a step are copies after it.             *)
LEMMA CopiesNext ==
  ASSUME SpecsKept,
         \A n \in NodeNames :
           /\ \A p \in PodNames : CopyOf(p, known'[n][p]) /\ CopyOf(p, items'[WatchSlot(n)][p])
           /\ pc'[StatusSlot(n)] # "idle" =>
                /\ call'[StatusSlot(n)].name \in PodNames
                /\ CopyOf(call'[StatusSlot(n)].name, call'[StatusSlot(n)].body)
                /\ call'[StatusSlot(n)].body.status \in Lifecycle!Reported
  PROVE  CopiesAlike'
  <1>1. \A p \in PodNames : \A x : CopyOf(p, x) /\ x # Absent => x.spec = pods'[p].spec
    BY DEF CopyOf, SpecsKept
  <1> QED BY <1>1 DEF CopiesAlike, SameSpec, Lifecycle!Reported

(* A step that leaves the kubelets' maps and requests alone.               *)
LEMMA CopiesUntouched ==
  ASSUME Inv, CopiesAlike, SpecsKept, UNCHANGED <<known, call>>,
         \A n \in NodeNames :
           /\ pc[StatusSlot(n)] = "idle" => pc'[StatusSlot(n)] = "idle"
           /\ \A p \in PodNames : items'[WatchSlot(n)][p] \in {items[WatchSlot(n)][p], pods[p], Absent}
  PROVE  CopiesAlike'
  <1>1. \A p \in PodNames : CopyOf(p, pods[p]) /\ CopyOf(p, Absent)
    BY DEF CopyOf, Exists
  <1>2. ASSUME NEW n \in NodeNames
        PROVE  /\ \A p \in PodNames : CopyOf(p, known'[n][p]) /\ CopyOf(p, items'[WatchSlot(n)][p])
               /\ pc'[StatusSlot(n)] # "idle" =>
                    /\ call'[StatusSlot(n)].name \in PodNames
                    /\ CopyOf(call'[StatusSlot(n)].name, call'[StatusSlot(n)].body)
                    /\ call'[StatusSlot(n)].body.status \in Lifecycle!Reported
    <2>1. \A p \in PodNames : CopyOf(p, known[n][p]) /\ CopyOf(p, items[WatchSlot(n)][p])
      BY CopiesNow
    <2>2. \A p \in PodNames : CopyOf(p, known'[n][p]) /\ CopyOf(p, items'[WatchSlot(n)][p])
      BY <1>1, <2>1
    <2> QED BY <2>2, CopiesNow
  <1> QED BY <1>2, CopiesNext

(* A handler leaves the requests as they are, and lists what is stored.    *)
LEMMA ServeAlike ==
  ASSUME Inv, CopiesAlike, SpecsKept, NEW r \in Requests, Serve(r), UNCHANGED known
  PROVE  CopiesAlike'
  <1>0. /\ pc \in [Requests -> {"idle", "start", "loaded", "checked", "done"}]
        /\ items \in [Requests -> [PodNames -> Pod \cup {Absent}]] /\ ApiTypeOK
    BY DEF Inv, TypeInv, TypeOK, ApiTypeOK
  <1>1. Moves(r) /\ (PodList(r) \/ UNCHANGED items)
    BY ServePodMoves, ServeNodeMoves, ServeRSMoves
       DEF Serve, ServePod, PodCreateGet, PodCreatePut, PodLoad, PodUpdate, PodDelete
  <1>2. UNCHANGED call /\ pc[r] # "idle" /\ \A q \in Requests \ {r} : pc'[q] = pc[q]
    BY <1>0, <1>1, OwnRequest DEF Moves
  <1>3. \A n \in NodeNames : pc[StatusSlot(n)] = "idle" => pc'[StatusSlot(n)] = "idle"
    BY <1>2, Slots
  <1>4. \A q \in Requests, p \in PodNames : items'[q][p] \in {items[q][p], pods[p], Absent}
    <2>1. CASE UNCHANGED items
      BY <2>1
    <2>2. CASE PodList(r)
      BY SMTT(60), <1>0, <2>2 DEF PodList
    <2> QED BY <1>1, <2>1, <2>2
  <1> QED BY <1>2, <1>3, <1>4, Slots, CopiesUntouched

(* A request is sent, or its answer taken, and the maps stay.              *)
LEMMA RequestAlike ==
  ASSUME Inv, CopiesAlike, UNCHANGED <<pods, known>>, NEW r \in Requests,
         \A n \in NodeNames : r # StatusSlot(n),
         Consume(r) \/ \E c : Issue(r, c)
  PROVE  CopiesAlike'
  <1>0. /\ pc \in [Requests -> {"idle", "start", "loaded", "checked", "done"}]
        /\ call \in [Requests -> Calls \cup {Absent}]
        /\ items \in [Requests -> [PodNames -> Pod \cup {Absent}]]
    BY DEF Inv, TypeInv, TypeOK, ApiTypeOK
  <1>1. \A q \in Requests \ {r} : call'[q] = call[q] /\ pc'[q] = pc[q] /\ items'[q] = items[q]
    BY <1>0 DEF Consume, Issue
  <1>2. \A p \in PodNames : items'[r][p] = Absent
    BY SMTT(60), <1>0 DEF Consume, Issue, NoItems
  <1> QED BY SMTT(60), <1>1, <1>2, Slots DEF CopiesAlike, SameSpec, Lifecycle!Reported

(* The status loop's request is answered.                                  *)
LEMMA AnsweredAlike ==
  ASSUME Inv, CopiesAlike, NEW n \in NodeNames, StatusAnswered(n)
  PROVE  CopiesAlike'
  <1>0. /\ pc \in [Requests -> {"idle", "start", "loaded", "checked", "done"}]
        /\ items \in [Requests -> [PodNames -> Pod \cup {Absent}]]
        /\ StatusSlot(n) \in Requests
    BY Slots DEF Inv, TypeInv, TypeOK, ApiTypeOK
  <1>1. UNCHANGED <<pods, known, call>> /\ Consume(StatusSlot(n))
    BY DEF StatusAnswered, Consume, storeVars, kubeVars
  <1>2. \A m \in NodeNames : pc[StatusSlot(m)] = "idle" => pc'[StatusSlot(m)] = "idle"
    BY <1>0, <1>1, Slots DEF Consume
  <1>3. \A m \in NodeNames : items'[WatchSlot(m)] = items[WatchSlot(m)]
    BY <1>0, <1>1, Slots DEF Consume
  <1> QED BY <1>1, <1>2, <1>3, CopiesUntouched DEF SpecsKept, Exists

(* runNewPods: what joins the map came from a poll.                        *)
LEMMA RunAlike ==
  ASSUME Inv, CopiesAlike, NEW n \in NodeNames, RunNewPods(n) \/ Dies(n)
  PROVE  CopiesAlike'
  <1>0. /\ pc \in [Requests -> {"idle", "start", "loaded", "checked", "done"}]
        /\ items \in [Requests -> [PodNames -> Pod \cup {Absent}]]
        /\ known \in [NodeNames -> [PodNames -> Pod \cup {Absent}]]
        /\ WatchSlot(n) \in Requests
    BY Slots DEF Inv, TypeInv, TypeOK, ApiTypeOK, KubeTypeOK
  <1>1. UNCHANGED <<pods, call>>
    BY DEF RunNewPods, Dies, Consume, storeVars, apiVars
  <1>2. /\ \A m \in NodeNames \ {n} : known'[m] = known[m]
        /\ \A p \in PodNames : known'[n][p] \in {known[n][p], items[WatchSlot(n)][p], Absent}
    BY SMTT(60), <1>0 DEF RunNewPods, Dies, NoItems
  <1>3. \A m \in NodeNames : pc'[StatusSlot(m)] = pc[StatusSlot(m)]
    BY <1>0, Slots DEF RunNewPods, Dies, Consume, apiVars
  <1>4. \A m \in NodeNames, p \in PodNames :
          items'[WatchSlot(m)][p] \in {items[WatchSlot(m)][p], Absent}
    BY SMTT(60), <1>0, Slots DEF RunNewPods, Dies, Consume, NoItems, apiVars
  <1> QED BY SMTT(60), <1>1, <1>2, <1>3, <1>4 DEF CopiesAlike, SameSpec, Lifecycle!Reported

(* updatePodStatuses changes the status of its copy and sends it.          *)
LEMMA StatusAlike ==
  ASSUME Inv, CopiesAlike, NEW n \in NodeNames, UpdatePodStatus(n)
  PROVE  CopiesAlike'
  <1> DEFINE s == StatusSlot(n)
  <1>0. /\ known \in [NodeNames -> [PodNames -> Pod \cup {Absent}]]
        /\ s \in Requests /\ UNCHANGED pods
    BY Slots DEF Inv, TypeInv, TypeOK, KubeTypeOK, UpdatePodStatus, storeVars
  <1> HIDE DEF s
  <1>1. CASE UNCHANGED <<known, apiVars>>
    BY <1>0, <1>1 DEF CopiesAlike, SameSpec, Lifecycle!Reported, apiVars
  <1>2. ASSUME NEW p \in sweep[n], NEW states,
               known' = [known EXCEPT ![n][p] =
                 [known[n][p] EXCEPT !.status = determinePodStatus(states)]],
               Issue(s, StatusCall(p, [known[n][p] EXCEPT !.status = determinePodStatus(states)]))
        PROVE  CopiesAlike'
    <2> DEFINE pod == [known[n][p] EXCEPT !.status = determinePodStatus(states)]
    <2>1. p \in PodNames /\ known[n][p] \in Pod /\ known[n][p] # Absent
      BY SMTT(60), <1>0, ObjectsAssumption DEF Inv, TypeInv, TypeOK, KubeTypeOK, KubeShape, ListKeys
    <2>2. pod.spec = known[n][p].spec /\ pod.status \in Lifecycle!Reported
      BY <2>1 DEF Pod, determinePodStatus, Lifecycle!Reported
    <2>3. pod.spec = pods[p].spec
      BY <2>1, <2>2 DEF CopiesAlike, SameSpec
    <2> HIDE DEF pod
    <2>4. known' = [known EXCEPT ![n][p] = pod] /\ Issue(s, StatusCall(p, pod))
      BY <1>2 DEF pod
    <2>5. /\ \A m \in NodeNames \ {n} : known'[m] = known[m]
          /\ \A q \in PodNames : known'[n][q] = IF q = p THEN pod ELSE known[n][q]
      BY <1>0, <2>1, <2>4
    <2>6. /\ call'[s].name = p /\ call'[s].body = pod /\ items'[s] = NoItems
          /\ \A q \in Requests \ {s} : call'[q] = call[q] /\ pc'[q] = pc[q] /\ items'[q] = items[q]
      BY SMTT(60), <1>0, <2>4, Sent DEF StatusCall
    <2>7. ASSUME NEW m \in NodeNames, NEW q \in PodNames
          PROVE  SameSpec(q, known[m][q])' /\ SameSpec(q, items[WatchSlot(m)][q])'
      <3>1. items'[WatchSlot(m)] = items[WatchSlot(m)]
        BY <2>6, Slots DEF s
      <3> QED BY SMTT(60), <1>0, <2>3, <2>5, <3>1 DEF CopiesAlike, SameSpec
    <2>8. ASSUME NEW m \in NodeNames, pc'[StatusSlot(m)] # "idle"
          PROVE  /\ SameSpec(call[StatusSlot(m)].name, call[StatusSlot(m)].body)'
                 /\ call'[StatusSlot(m)].body.status \in Lifecycle!Reported
      <3>1. CASE m = n
        BY <1>0, <2>2, <2>3, <2>6, <3>1 DEF SameSpec, s
      <3>2. CASE m # n
        <4>1. StatusSlot(m) \in Requests \ {s}
          BY <3>2, Slots DEF s
        <4> QED BY <1>0, <2>6, <2>8, <4>1 DEF CopiesAlike, SameSpec
      <3> QED BY <3>1, <3>2
    <2> QED BY <2>7, <2>8 DEF CopiesAlike, Lifecycle!Reported
  <1> QED BY <1>1, <1>2 DEF UpdatePodStatus, s

(* Every step keeps the copies alike.                                      *)
LEMMA AlikeStep ==
  ASSUME UsersOnlyCreate, Inv, CopiesAlike, [Next]_vars
  PROVE  CopiesAlike'
  <1>0. SpecsKept
    BY LifeStep, LifeKeepsSpecs DEF Inv, TypeInv, TypeOK, StoreTypeOK
  <1>1. ASSUME UNCHANGED <<known, call, pc, items>> PROVE CopiesAlike'
    BY <1>0, <1>1, CopiesUntouched
  <1>2. CASE Users
    <2>1. PICK u \in UserSlots : UserCall(u) /\ UNCHANGED kubeVars
      BY <1>2 DEF Users
    <2>2. /\ u \in Requests /\ UNCHANGED <<pods, known>> /\ \E c : Issue(u, c)
          /\ \A n \in NodeNames : u # StatusSlot(n)
      BY <2>1, Slots DEF UserCall, storeVars, kubeVars, Requests
    <2> QED BY <2>2, RequestAlike
  <1>3. ASSUME NEW r \in Requests, Server(r) PROVE CopiesAlike'
    BY <1>0, <1>3, ServeAlike DEF Server, kubeVars
  <1>4. CASE SchedulerProcess \/ ControllerProcess \/ Crash \/ UNCHANGED vars
    BY <1>1, <1>4 DEF SchedulerProcess, ControllerProcess, Crash, vars, apiVars, kubeVars
  <1>5. ASSUME NEW n \in NodeNames, KubeletProcess(n) PROVE CopiesAlike'
    <2>1. CASE KubeletStart(n) \/ KubeletRegistered(n) \/ KubeletPoll(n)
      <3>1. /\ UNCHANGED <<pods, known>>
            /\ Consume(WatchSlot(n)) \/ \E c : Issue(WatchSlot(n), c)
        BY <2>1 DEF KubeletStart, KubeletRegistered, KubeletPoll, storeVars, kubeVars
      <3> QED BY SMTT(60), <3>1, Slots, RequestAlike
    <2>2. CASE StatusTick(n) \/ \E p \in PodNames : ContainerCreate(n, p) \/ ContainerStart(n, p)
      BY <1>1, <2>2 DEF StatusTick, ContainerCreate, ContainerStart, apiVars
    <2> QED BY <1>5, <2>1, <2>2, RunAlike, StatusAlike, AnsweredAlike DEF KubeletProcess, KubeletStep
  <1>6. ASSUME NEW n \in NodeNames, NodeEvent(n) PROVE CopiesAlike'
    <2>1. CASE ContainerExit(n)
      BY <1>1, <2>1 DEF ContainerExit, apiVars
    <2> QED BY <1>6, <2>1, RunAlike DEF NodeEvent, KubeletFault, MapFault, PullPanic, KubeletCrash
  <1> QED BY <1>2, <1>3, <1>4, <1>5, <1>6 DEF Next

(* Nobody holds a copy in the beginning.                                   *)
LEMMA AlikeInit == Init => CopiesAlike /\ Lifecycle!Init
  <1>1. Init => CopiesAlike
    BY SMTT(60), Slots DEF Init, ApiInit, KubeInit, NoItems, CopiesAlike, SameSpec
  <1>2. Init => Lifecycle!Init
    BY DEF Init, StoreInit, Lifecycle!Init
  <1> QED BY <1>1, <1>2
=============================================================================
