\* Two users, creates, updates and deletes of every kind, etcd may fail.
SPECIFICATION ApiSpec
CONSTANTS
  NodeNames = {n1}
  NoNode = NoNode
  Absent = Absent
  NilSpec = NilSpec
  c1 = c1
  bad = bad
  Containers = {c1, bad}
  BadContainers = {bad}
  Specs <- MCSpecs
  UserPodNames <- MCUserPodNames
  RSNames <- MCRSNames
  RandomSuffixes = {}
  MaxGeneratedNameLength = 3
  Replicas <- MCReplicas
  UserSlots = {u1, u2}
  UserCalls <- MCFaultCalls
  Faults = {TRUE, FALSE}
 
INVARIANT MutexesHeldInside
PROPERTY EveryRequestAnswered
