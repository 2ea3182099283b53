\* One node, a ReplicaSet of one pod, under fairness.
SPECIFICATION FairSpec
CONSTANTS
  NodeNames = {n1}
  NoNode = NoNode
  Absent = Absent
  NilSpec = NilSpec
  c1 = c1
  Containers = {c1}
  BadContainers = {}
  Specs <- OneContainer
  UserPodNames <- NoNames
  RSNames <- RSOne
  RandomSuffixes = {1, 2}
  MaxGeneratedNameLength = 3
  Replicas = {1}
  UserSlots = {u1}
  UserCalls <- PostRS
  Faults = {FALSE}
  ForeignStates <- NoForeign
  DockerFaults = {FALSE}
  TransportFaults = {FALSE}
  MaxStarts = 1
  MaxCrashes = 1
  Mortal = {}
INVARIANT NeverTooMany
PROPERTY PodsFollowLifecycle
PROPERTY EventuallyDeployed
PROPERTY EventuallyStarted
