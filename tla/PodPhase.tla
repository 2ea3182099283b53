------------------------------- MODULE PodPhase -------------------------------
(***************************************************************************)
(* determinePodStatus of pkg/kubelet: the status of a pod from the states  *)
(* of its containers.  A container that was not found has exit code 0.     *)
(***************************************************************************)
EXTENDS Integers, Sequences

ContainerState == [exists : BOOLEAN, running : BOOLEAN, exitCode : {0, 1}]

NotFound == [exists |-> FALSE, running |-> FALSE, exitCode |-> 0]

anyContainerRunning(states) == \E i \in DOMAIN states : states[i].running

anyContainerExists(states) == \E i \in DOMAIN states : states[i].exists

allContainersFailed(states) ==
  \A i \in DOMAIN states : ~(states[i].exists /\ states[i].exitCode = 0)

allContainersSucceeded(states) == \A i \in DOMAIN states : states[i].exitCode = 0

determinePodStatus(states) ==
  IF anyContainerRunning(states) THEN "Running"
  ELSE IF allContainersFailed(states) /\ anyContainerExists(states) THEN "Failed"
  ELSE IF allContainersSucceeded(states) THEN "Succeeded"
  ELSE "Scheduled"
=============================================================================
