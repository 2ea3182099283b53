\* One node, a user pod with and one without a container, Docker may refuse.
SPECIFICATION Spec
CONSTANTS
  NodeNames = {n1}
  NoNode = NoNode
  Absent = Absent
  NilSpec = NilSpec
  c1 = c1
  Containers = {c1}
  BadContainers = {}
  Specs <- AtMostOneContainer
  UserPodNames <- PodsTwo
  RSNames <- NoNames
  RandomSuffixes = {}
  MaxGeneratedNameLength = 3
  Replicas = {1}
  UserSlots = {u1}
  UserCalls <- PostUnlikePods
  Faults = {FALSE}
  ForeignStates <- RunningOrFailed
  DockerFaults = {TRUE, FALSE}
  TransportFaults = {FALSE}
  MaxStarts = 1
  MaxCrashes = 0
  Mortal = {}
INVARIANT ReportsCurrent
INVARIANT ReportedStatus
