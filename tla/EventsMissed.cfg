\* One key that changes between a List and the Watch after it.
SPECIFICATION ListWatchSpec
CONSTANTS
  Keys = {1}
  MaxRevision = 2
  EventChannelBuffer = 1
  WatchBuffer = 1
  HasLogger = TRUE
  MaxFaults = 1
INVARIANT NoEventsMissed
CHECK_DEADLOCK FALSE
