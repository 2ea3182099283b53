\* Two users, calls on one pod, etcd may fail.
SPECIFICATION ApiSpec
CONSTANTS
  NodeNames = {n1}
  NoNode = NoNode
  Absent = Absent
  NilSpec = NilSpec
  c1 = c1
  bad = bad
  Containers = {c1, bad}
  BadContainers = {bad}
  Specs <- MCSpecs
  UserPodNames <- MCUserPodNames
  RSNames <- MCRSNames
  RandomSuffixes = {}
  MaxGeneratedNameLength = 3
  Replicas <- MCReplicas
  UserSlots = {u1, u2}
  UserCalls <- MCPodCalls
  Faults = {TRUE, FALSE}
PROPERTY CreateOnlyNew
