---------------------------- MODULE PodLifecycle ----------------------------
(***************************************************************************)
(* What a pod may go through, whoever writes it: it is created Pending and *)
(* unbound, bound once, and from then on only its status changes.  Its     *)
(* containers, and once it has one its node, stay what they are.           *)
(***************************************************************************)
CONSTANTS Names, Nodes, Specs, NoNode, Absent

VARIABLE pods   \* the stored pods, Absent for none

Created(spec) == [nodeName |-> NoNode, status |-> "Pending", spec |-> spec]

Init == pods = [p \in Names |-> Absent]

Create(p) ==
  /\ pods[p] = Absent
  /\ \E spec \in Specs : pods' = [pods EXCEPT ![p] = Created(spec)]

Bind(p) ==
  /\ pods[p] # Absent /\ pods[p].nodeName = NoNode
  /\ \E n \in Nodes : pods' = [pods EXCEPT ![p] = [@ EXCEPT !.nodeName = n, !.status = "Scheduled"]]

(* The statuses a pod can be reported with.                                *)
Reported == {"Scheduled", "Running", "Succeeded", "Failed"}

Report(p) ==
  /\ pods[p] # Absent /\ pods[p].nodeName # NoNode
  /\ \E status \in Reported : pods' = [pods EXCEPT ![p] = [@ EXCEPT !.status = status]]

Next == \E p \in Names : Create(p) \/ Bind(p) \/ Report(p)

Spec == Init /\ [][Next]_pods
=============================================================================
