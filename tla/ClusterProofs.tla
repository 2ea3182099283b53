--------------------------- MODULE ClusterProofs ----------------------------
(***************************************************************************)
(* The theorems about the cluster, for any number of nodes, users, pods    *)
(* and ReplicaSets: it stays well typed; a pod stays on the node it was    *)
(* bound to, only that node's kubelet runs it, and runs it once; all its   *)
(* writers together take it through one life; the API server knows the     *)
(* status that kubelet has of it; and a ReplicaSet never has more pods     *)
(* than were asked for.  That each step keeps the invariants is shown in   *)
(* ClusterLemmas (types, registrations), BindingProofs, KubeletProofs and  *)
(* ReplicaProofs.                                                          *)
(***************************************************************************)
EXTENDS KubeletProofs, ReplicaProofs, FiniteSetTheorems

USE ZenonT(30), SMTT(120)

(* What the controller counts is finite.                                   *)
LEMMA CountsFinite ==
  ASSUME TypeInv
  PROVE  CountsAreNumbers
  <1> SUFFICES ASSUME NEW rs \in RSNames
               PROVE  Cardinality(ActivePods(rs)) \in Nat
    BY DEF CountsAreNumbers
  <1>1. ActivePods(rs) \subseteq PodNames
    BY DEF ActivePods, ListKeys, TypeInv, TypeOK, StoreTypeOK
  <1> QED BY <1>1, ObjectsAssumption, FS_Subset, FS_CardinalityType

(* The cluster is well typed: no process ever acts on an object that is    *)
(* not there.                                                              *)
THEOREM ClusterTypes == Spec => []TypeOK
  <1>1. Init => TypeInv
    BY TypeInit
  <1>2. TypeInv /\ [Next]_vars => TypeInv'
    BY CountsFinite, TypeStep
  <1>3. TypeInv => TypeOK
    BY DEF TypeInv
  <1> QED BY <1>1, <1>2, <1>3, PTL DEF Spec

-----------------------------------------------------------------------------
(* The inductive invariant of pod binding holds in every cluster: no copy  *)
(* of a pod that the scheduler, the controller, a kubelet or a request     *)
(* holds can undo a binding when it is written.                            *)
THEOREM BindingHolds ==
  ASSUME UsersOnlyCreate
  PROVE  Spec => []BindingInv
  <1>1. Init => Inv
    BY TypeInit, BindingInit DEF Inv
  <1>2. Inv /\ [Next]_vars => Inv'
    BY CountsFinite, TypeStep, BindingStep DEF Inv
  <1>3. Inv => BindingInv
    BY DEF Inv
  <1> QED BY <1>1, <1>2, <1>3, PTL DEF Spec

(* A pod's containers are all on the node it is bound to, so no two        *)
(* kubelets ever run the same pod (runNewPods, StartContainer).            *)
THEOREM PodsOnOneNode ==
  ASSUME UsersOnlyCreate
  PROVE  Spec => []OnOneNode
  <1>1. BindingInv => OnOneNode
    BY SMTT(60) DEF BindingInv, CopiesHeld, OnOneNode
  <1> QED BY <1>1, BindingHolds, PTL

(* A bound pod stays in the store and bound to its node, although          *)
(* UpdatePod of the registry stores whatever it is given (scheduler,       *)
(* status updates of the kubelets).                                        *)
THEOREM BindingsAreStable ==
  ASSUME UsersOnlyCreate
  PROVE  Spec => BindingStable
  <1>1. Init => Inv
    BY TypeInit, BindingInit DEF Inv
  <1>2. Inv /\ [Next]_vars => Inv'
    BY CountsFinite, TypeStep, BindingStep DEF Inv
  <1>3. Inv /\ [Next]_vars =>
          [\A p \in PodNames :
             pods[p] # Absent /\ pods[p].nodeName # NoNode =>
               pods'[p] # Absent /\ pods'[p].nodeName = pods[p].nodeName]_pods
    BY BindingStep DEF BoundStays, Exists
  <1> QED BY <1>1, <1>2, <1>3, PTL DEF Spec, BindingStable

(* Whoever writes a pod, each write is a step in one life: created pending *)
(* and unbound, bound once, then reported on, with the containers it was   *)
(* created with.  CreatePod never overwrites, the scheduler binds what is  *)
(* still as it listed it, a status report changes the status and nothing   *)
(* else (CreatePod, UpdatePod, updatePodStatuses).                         *)
THEOREM PodsLiveOneLife ==
  ASSUME UsersOnlyCreate
  PROVE  Spec => PodsFollowLifecycle
  <1>1. Init => Inv /\ CopiesAlike /\ Lifecycle!Init
    BY TypeInit, BindingInit, AlikeInit DEF Inv
  <1>2. Inv /\ CopiesAlike /\ [Next]_vars => (Inv /\ CopiesAlike)'
    BY CountsFinite, TypeStep, BindingStep, AlikeStep DEF Inv
  <1>3. Inv /\ CopiesAlike /\ [Next]_vars => [Lifecycle!Next]_pods
    BY LifeStep
  <1> QED BY <1>1, <1>2, <1>3, PTL DEF Spec, PodsFollowLifecycle, Lifecycle!Spec

-----------------------------------------------------------------------------
(* Of all the starts of a kubelet at most one gets past registerNode, and  *)
(* every container of its node is created by that one.                     *)
THEOREM KubeletsRegisterOnce ==
  ASSUME NodesStay
  PROVE  Spec => []RegisteredOnce
  <1>1. Init => RegInv
    BY TypeInit, RegistrationInit DEF RegInv
  <1>2. RegInv /\ [Next]_vars => RegInv'
    BY CountsFinite, TypeStep, RegistrationStep DEF RegInv
  <1>3. RegInv => RegisteredOnce
    BY DEF RegInv
  <1> QED BY <1>1, <1>2, <1>3, PTL DEF Spec

(* StartContainer is called once for every container of a pod, however     *)
(* often kubelets end, by a panic, by the map race or from outside, and    *)
(* whatever users do with pods.                                            *)
THEOREM ContainersStartedOnce ==
  ASSUME NodesStay
  PROVE  Spec => []StartedOnce
  <1>1. Init => RegInv
    BY TypeInit, RegistrationInit DEF RegInv
  <1>2. RegInv /\ [Next]_vars => RegInv'
    BY CountsFinite, TypeStep, RegistrationStep DEF RegInv
  <1>3. RegInv => StartedOnce
    BY DEF RegInv
  <1> QED BY <1>1, <1>2, <1>3, PTL DEF Spec

-----------------------------------------------------------------------------
(* What a kubelet has of a pod, in its map or from a poll, is what is      *)
(* stored, but for the one pod it is reporting on: once a pod is bound,    *)
(* nobody else writes it.                                                  *)
THEOREM ReportsHold ==
  ASSUME ReportsArrive
  PROVE  Spec => []ReportsCurrent
  <1>0. UsersOnlyCreate
    BY DEF ReportsArrive
  <1>1. Init => ReportInv
    BY TypeInit, BindingInit, ReportInit DEF ReportInv, Inv
  <1>2. ReportInv /\ [Next]_vars => ReportInv'
    BY <1>0, CountsFinite, TypeStep, BindingStep, ReportStep DEF ReportInv, Inv
  <1>3. ReportInv => ReportsCurrent
    BY DEF ReportInv, ReportsCurrent
  <1> QED BY <1>1, <1>2, <1>3, PTL DEF Spec

(* The API server knows the status a kubelet has of a pod, or is being     *)
(* told: although updatePodStatuses sends a status once and only logs a    *)
(* failed PUT, no report is refused and none is overwritten.               *)
THEOREM StatusReported ==
  ASSUME ReportsArrive
  PROVE  Spec => []ReportedStatus
  <1>1. UsersOnlyCreate
    BY DEF ReportsArrive
  <1>2. TypeOK /\ BindingInv /\ ReportsCurrent => ReportedStatus
    <2> SUFFICES ASSUME TypeOK, BindingInv, ReportsCurrent,
                        NEW n \in NodeNames, NEW p \in ListKeys(known[n])
                 PROVE  Reporting(n, p) \/ (Exists(pods, p) /\ pods[p].status = known[n][p].status)
      BY DEF ReportedStatus, Reporting
    <2>1. p \in PodNames /\ known[n][p] # Absent
      BY DEF TypeOK, KubeTypeOK, ListKeys
    <2>2. Held(n, p, known[n][p]) /\ CopyCurrent(n, p)
      BY <2>1 DEF BindingInv, CopiesHeld, ReportsCurrent, ReportOn
    <2> QED BY <2>1, <2>2 DEF Held, CopyCurrent
  <1> QED BY <1>1, <1>2, ClusterTypes, BindingHolds, ReportsHold, PTL

-----------------------------------------------------------------------------
(* A set of integers that has an upper bound has a largest element.        *)
LEMMA LargestAsked ==
  ASSUME NEW bound \in Nat, NEW S \in SUBSET Int, 0 \in S, \A x \in S : x <= bound
  PROVE  \E x \in S : \A y \in S : x >= y
  <1> DEFINE T == {m \in Nat : bound - m \in S}
             R == OpToRel(<, Nat)
  <1>1. T \in SUBSET Nat
    OBVIOUS
  <1>2. T # {}
    <2>1. bound - bound = 0
      OBVIOUS
    <2>2. bound \in T
      BY <2>1
    <2> QED BY <2>2
  <1>3. PICK t \in T : \A u \in T : ~(<<u, t>> \in R)
    <2>1. IsWellFoundedOn(R, Nat)
      BY NatLessThanWellFounded DEF OpToRel
    <2> HIDE DEF T, R
    <2> QED BY <1>1, <1>2, <2>1, WFMin
  <1>4. \A u \in T : ~(u < t)
    BY <1>1, <1>3 DEF OpToRel
  <1>5. t \in Nat /\ bound - t \in S
    OBVIOUS
  <1>6. ASSUME NEW y \in S PROVE bound - t >= y
    <2>1. y \in Int /\ y <= bound
      OBVIOUS
    <2>2. bound - y \in Nat /\ bound - (bound - y) = y
      BY <2>1
    <2>3. bound - y \in T
      BY <2>2
    <2>4. ~(bound - y < t)
      BY <1>4, <2>3
    <2> HIDE DEF T, R
    <2> QED BY <1>5, <2>1, <2>4
  <1> QED BY <1>5, <1>6

(* PodsAsked is what the most demanding of the users' calls asks for.      *)
LEMMA LargestOfCalls ==
  ASSUME PodsBelong, NEW rs \in RSNames
  PROVE  /\ PodsAsked(rs) \in Nat
         /\ \A c \in UserCalls :
              c.kind = "replicaset" /\ c.body # Absent /\ c.name = rs => Asks(c.body) <= PodsAsked(rs)
  <1> DEFINE C == {d \in UserCalls : d.kind = "replicaset" /\ d.body # Absent /\ d.name = rs}
             S == {0} \cup {Asks(c.body) : c \in C}
  <1>1. PICK bound \in Nat : \A c \in UserCalls :
          c.kind = "replicaset" /\ c.body # Absent => Asks(c.body) <= bound
    BY DEF PodsBelong
  <1>2. ASSUME NEW c \in C PROVE Asks(c.body) \in Int
    <2>1. c \in Calls /\ c.kind = "replicaset" /\ c.body # Absent
      BY UserAssumption
    <2>2. c.body \in ReplicaSet
      BY SMTT(60), <2>1 DEF Calls, CallsOf, ListCallsOf
    <2> QED BY <2>2, AsksType
  <1>3. S \in SUBSET Int /\ 0 \in S
    BY SMTT(60), <1>2
  <1>4. \A x \in S : x <= bound
    BY <1>1
  <1>5. \E x \in S : \A y \in S : x >= y
    <2> HIDE DEF S
    <2> QED BY <1>3, <1>4, LargestAsked
  <1>6. PodsAsked(rs) = Max(S)
    BY DEF PodsAsked
  <1>7. Max(S) \in S /\ \A y \in S : Max(S) >= y
    <2> HIDE DEF S
    <2> QED BY <1>5 DEF Max
  <1>8. PodsAsked(rs) \in Nat
    BY SMTT(60), <1>3, <1>6, <1>7
  <1>9. ASSUME NEW c \in UserCalls, c.kind = "replicaset", c.body # Absent, c.name = rs
        PROVE  Asks(c.body) <= PodsAsked(rs)
    <2>1. c \in C
      BY <1>9
    <2>2. Asks(c.body) \in S
      BY <2>1
    <2> HIDE DEF S, C
    <2> QED BY <1>2, <1>6, <1>7, <1>8, <2>1, <2>2
  <1> QED BY <1>8, <1>9

(* Sets of pods are finite sets.                                           *)
LEMMA PodsCounted ==
  ASSUME PodsBelong
  PROVE  Counting
  <1>1. Cardinality({}) = 0
    BY FS_EmptySet
  <1>2. ASSUME NEW S \in SUBSET PodNames
        PROVE  /\ Cardinality(S) \in Nat
               /\ \A T \in SUBSET S : Cardinality(T) <= Cardinality(S)
               /\ \A p \in PodNames : Cardinality(S \cup {p}) <= Cardinality(S) + 1
    <2>1. IsFiniteSet(S)
      BY ObjectsAssumption, FS_Subset
    <2>2. Cardinality(S) \in Nat
      BY <2>1, FS_CardinalityType
    <2>3. ASSUME NEW T \in SUBSET S PROVE Cardinality(T) <= Cardinality(S)
      BY <2>1, FS_Subset
    <2>4. ASSUME NEW p \in PodNames PROVE Cardinality(S \cup {p}) <= Cardinality(S) + 1
      <3>1. Cardinality(S \cup {p}) = IF p \in S THEN Cardinality(S) ELSE Cardinality(S) + 1
        BY <2>1, FS_AddElement
      <3> QED BY <2>2, <3>1
    <2> QED BY <2>2, <2>3, <2>4
  <1>3. AskedIsLargest
    BY LargestOfCalls DEF AskedIsLargest
  <1>4. CountsAdd
    BY <1>1, <1>2 DEF CountsAdd
  <1> QED BY <1>3, <1>4 DEF Counting

-----------------------------------------------------------------------------
(* HasPrefix compares element by element.                                  *)
LEMMA PrefixElements ==
  ASSUME NEW S, NEW T, NEW a \in Seq(S), NEW b \in Seq(T)
  PROVE  HasPrefix(a, b) <=> Len(b) <= Len(a) /\ \A i \in 1..Len(b) : a[i] = b[i]
  <1>1. Len(a) \in Nat /\ Len(b) \in Nat
    OBVIOUS
  <1>2. CASE Len(b) <= Len(a)
    <2>1. /\ SubSeq(a, 1, Len(b)) \in Seq(S) /\ Len(SubSeq(a, 1, Len(b))) = Len(b)
          /\ \A i \in 1..Len(b) : SubSeq(a, 1, Len(b))[i] = a[i]
      BY <1>1, <1>2
    <2>2. SubSeq(a, 1, Len(b)) = b <=> \A i \in 1..Len(b) : SubSeq(a, 1, Len(b))[i] = b[i]
      BY <2>1
    <2> QED BY <1>2, <2>1, <2>2 DEF HasPrefix
  <1> QED BY <1>2 DEF HasPrefix

(* A name that is not longer than the generator keeps is kept whole.       *)
LEMMA KeptWhole ==
  ASSUME NEW base \in Seq(Nat), Len(base) <= MaxGeneratedNameLength, NEW s
  PROVE  GenerateName(base, s) = base \o <<s>>
  <1>1. Len(base) \in Nat /\ MaxGeneratedNameLength \in Nat
    BY ObjectsAssumption
  <1>2. Min({Len(base), MaxGeneratedNameLength}) = Len(base)
    BY <1>1 DEF Min
  <1>3. SubSeq(base, 1, Len(base)) = base
    OBVIOUS
  <1> QED BY <1>2, <1>3 DEF GenerateName

(* The generated name of a ReplicaSet begins with its name, and with no    *)
(* name of another one, where no name begins with another.                 *)
LEMMA WholeNamesBelong ==
  ASSUME NEW rs \in Seq(Nat), NEW other \in Seq(Nat), NEW s,
         HasPrefix(other, rs) => other = rs, HasPrefix(rs, other) => other = rs
  PROVE  HasPrefix(other \o <<s>>, rs) <=> other = rs
  <1> DEFINE name == other \o <<s>>
  <1>1. /\ name \in Seq(Nat \cup {s}) /\ Len(name) = Len(other) + 1
        /\ \A i \in 1..Len(other) : name[i] = other[i]
        /\ Len(rs) \in Nat /\ Len(other) \in Nat
    OBVIOUS
  <1> HIDE DEF name
  <1>2. HasPrefix(name, rs) <=> Len(rs) <= Len(name) /\ \A i \in 1..Len(rs) : name[i] = rs[i]
    BY <1>1, PrefixElements
  <1>3. ASSUME other = rs PROVE HasPrefix(name, rs)
    BY <1>1, <1>2, <1>3
  <1>4. ASSUME HasPrefix(name, rs), Len(rs) <= Len(other) PROVE other = rs
    <2>1. \A i \in 1..Len(rs) : other[i] = rs[i]
      BY <1>1, <1>2, <1>4
    <2> QED BY <1>4, <2>1, PrefixElements
  <1>5. ASSUME HasPrefix(name, rs), Len(rs) > Len(other) PROVE FALSE
    <2>1. \A i \in 1..Len(other) : rs[i] = other[i]
      BY <1>1, <1>2, <1>5
    <2>2. HasPrefix(rs, other)
      BY <1>1, <1>5, <2>1, PrefixElements
    <2> QED BY <1>1, <1>5, <2>2
  <1> QED BY <1>1, <1>3, <1>4, <1>5 DEF name

(* How names can meet PodsBelong: GenerateName keeps every ReplicaSet name *)
(* whole and none begins with another, so that IsOwnedBy gives every       *)
(* generated pod to the ReplicaSet it was made for and to no other; users  *)
(* keep the names of their own pods apart.                                 *)
THEOREM NamesKeptApart ==
  ASSUME UsersOnlyCreate,
         RSNames \subseteq Seq(Nat),
         \A rs \in RSNames : Len(rs) <= MaxGeneratedNameLength,
         \A rs, other \in RSNames : HasPrefix(other, rs) => other = rs,
         \A p \in UserPodNames, rs \in RSNames : ~HasPrefix(p, rs),
         NEW bound \in Nat,
         \A c \in UserCalls : c.kind = "replicaset" /\ c.body # Absent => Asks(c.body) <= bound
  PROVE  /\ PodsBelong
         /\ \A rs \in RSNames, s \in RandomSuffixes : IsOwnedBy(GenerateName(rs, s), rs)
  <1>1. ASSUME NEW rs \in RSNames, NEW other \in RSNames, NEW s \in RandomSuffixes
        PROVE  IsOwnedBy(GenerateName(other, s), rs) <=> other = rs
    <2>1. rs \in Seq(Nat) /\ other \in Seq(Nat)
      OBVIOUS
    <2>2. GenerateName(other, s) = other \o <<s>>
      BY <2>1, KeptWhole
    <2>3. HasPrefix(other \o <<s>>, rs) <=> other = rs
      BY <2>1, WholeNamesBelong
    <2> QED BY <2>2, <2>3 DEF IsOwnedBy
  <1> QED BY <1>1 DEF PodsBelong, IsOwnedBy

(* A name that is longer than any generated name is cut by GenerateName,   *)
(* and IsOwnedBy then gives none of its pods to the ReplicaSet: Reconcile  *)
(* never counts a pod that it created for it.                              *)
THEOREM CutNamesAreLost ==
  ASSUME NEW rs \in Seq(Nat), Len(rs) > MaxGeneratedNameLength + 1, NEW s
  PROVE  ~IsOwnedBy(GenerateName(rs, s), rs)
  <1>1. Len(rs) \in Nat /\ MaxGeneratedNameLength \in Nat
    BY ObjectsAssumption
  <1>2. Min({Len(rs), MaxGeneratedNameLength}) = MaxGeneratedNameLength
    BY <1>1 DEF Min
  <1>3. Len(SubSeq(rs, 1, MaxGeneratedNameLength)) = MaxGeneratedNameLength
    BY <1>1
  <1>4. Len(GenerateName(rs, s)) = MaxGeneratedNameLength + 1
    <2> DEFINE kept == SubSeq(rs, 1, MaxGeneratedNameLength)
    <2>1. kept \in Seq(Nat) /\ Len(kept) = MaxGeneratedNameLength
      BY <1>1, <1>3
    <2> HIDE DEF kept
    <2>2. Len(kept \o <<s>>) = Len(kept) + 1
      BY <2>1
    <2> QED BY <1>2, <2>1, <2>2 DEF GenerateName, kept
  <1> QED BY <1>1, <1>4 DEF IsOwnedBy, HasPrefix

-----------------------------------------------------------------------------
(* The controller never plans more pods than were asked for, although it   *)
(* counts them once and then creates them one by one (Reconcile).          *)
THEOREM PlansHold ==
  ASSUME PodsBelong
  PROVE  Spec /\ FailedStays => []PlansWithin
  <1>0. UsersOnlyCreate
    BY DEF PodsBelong
  <1>1. Init => Inv /\ PlansWithin
    BY PodsCounted, TypeInit, BindingInit, PlansInit DEF Inv
  <1>2. Inv /\ PlansWithin /\ [Next]_vars /\ [FailedKept]_pods => (Inv /\ PlansWithin)'
    <2> SUFFICES ASSUME Inv, PlansWithin, [Next]_vars, [FailedKept]_pods
                 PROVE  Inv' /\ PlansWithin'
      OBVIOUS
    <2>1. TypeInv' /\ Inv'
      BY <1>0, CountsFinite, TypeStep, BindingStep DEF Inv
    <2>2. FailedKept
      BY DEF FailedKept
    <2> QED BY PodsCounted, <2>1, <2>2, PlansStep
  <1> QED BY <1>1, <1>2, PTL DEF Spec, FailedStays

(* A ReplicaSet never has more active pods than were ever asked for,       *)
(* although the controller works on a list of pods and on a ReplicaSet     *)
(* that may be old, ends half way and starts over (Reconcile, IsActive).   *)
THEOREM PodsNeverTooMany ==
  ASSUME PodsBelong
  PROVE  Spec /\ FailedStays => []NeverTooMany
  <1>1. TypeInv /\ PlansWithin => NeverTooMany
    <2> SUFFICES ASSUME TypeInv, PlansWithin, NEW rs \in RSNames
                 PROVE  Cardinality(ActivePods(rs)) <= PodsAsked(rs)
      BY DEF NeverTooMany
    <2>1. /\ Cardinality(ActivePods(rs)) \in Nat /\ ToCreate(rs) \in Nat /\ PodsAsked(rs) \in Nat
      BY PodsCounted, CountsFinite, ToCreateType, AskedBounds DEF CountsAreNumbers, TypeInv, TypeOK
    <2>2. Cardinality(ActivePods(rs)) + ToCreate(rs) <= PodsAsked(rs)
      BY DEF PlansWithin, PlanWithin
    <2> QED BY <2>1, <2>2
  <1>2. Init => TypeInv
    BY TypeInit
  <1>3. TypeInv /\ [Next]_vars => TypeInv'
    BY CountsFinite, TypeStep
  <1> QED BY <1>1, <1>2, <1>3, PlansHold, PTL DEF Spec

(* Where no container fails, a ReplicaSet never has more active pods than  *)
(* were ever asked for, whatever the kubelets report.                      *)
THEOREM NeverTooManyWithoutFailures ==
  ASSUME PodsBelong, NoneFails
  PROVE  Spec => []NeverTooMany
  <1>0. UsersOnlyCreate
    BY DEF PodsBelong
  <1>1. Init => Inv /\ NoneFailed
    <2>1. Init => NoneFailed
      BY SMTT(60) DEF Init, StoreInit, ApiInit, KubeInit, NoneFailed, Sound, NoItems
    <2> QED BY <2>1, TypeInit, BindingInit DEF Inv
  <1>2. Inv /\ NoneFailed /\ [Next]_vars => (Inv /\ NoneFailed)'
    BY <1>0, CountsFinite, TypeStep, BindingStep, NoneFailedStep DEF Inv
  <1>3. NoneFailed => FailedKept
    BY DEF NoneFailed, Sound, FailedKept
  <1>4. Spec => FailedStays
    BY <1>1, <1>2, <1>3, PTL DEF Spec, FailedStays
  <1> QED BY <1>4, PodsNeverTooMany, PTL
=============================================================================
