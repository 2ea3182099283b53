\* Two alike nodes, a user pod, kubelets that end, requests that do not arrive.
SPECIFICATION Spec
SYMMETRY NodesAlike
CONSTANTS
  NodeNames = {n1, n2}
  NoNode = NoNode
  Absent = Absent
  NilSpec = NilSpec
  c1 = c1
  Containers = {c1}
  BadContainers = {}
  Specs <- OneContainer
  UserPodNames <- PodOne
  RSNames <- NoNames
  RandomSuffixes = {}
  MaxGeneratedNameLength = 3
  Replicas = {1}
  UserSlots = {u1}
  UserCalls <- PostPods
  Faults = {FALSE}
  ForeignStates <- NoForeign
  DockerFaults = {FALSE}
  TransportFaults = {TRUE, FALSE}
  MaxStarts = 2
  MaxCrashes = 0
  Mortal = {n1, n2}
INVARIANT TypeOK
INVARIANT BindingInv
INVARIANT OnOneNode
INVARIANT RegisteredOnce
INVARIANT StartedOnce
PROPERTY BindingStable
PROPERTY PodsFollowLifecycle
