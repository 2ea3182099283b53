\* One node, one user pod.
SPECIFICATION Spec
CONSTANTS
  NodeNames = {n1}
  NoNode = NoNode
  Absent = Absent
  NilSpec = NilSpec
  c1 = c1
  Containers = {c1}
  BadContainers = {}
  Specs <- OneContainer
  UserPodNames <- PodOne
  RSNames <- NoNames
  RandomSuffixes = {}
  MaxGeneratedNameLength = 3
  Replicas = {1}
  UserSlots = {u1}
  UserCalls <- PostPods
  Faults = {FALSE}
  ForeignStates <- NoForeign
  DockerFaults = {FALSE}
  TransportFaults = {FALSE}
  MaxStarts = 1
  MaxCrashes = 1
  Mortal = {}
INVARIANT SucceededMeansEnded
