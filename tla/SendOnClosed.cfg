\* A cancel while the monitor of a watch that ended is about to send.
SPECIFICATION ListWatchSpec
CONSTANTS
  Keys = {1}
  MaxRevision = 2
  EventChannelBuffer = 1
  WatchBuffer = 1
  HasLogger = TRUE
  MaxFaults = 1
INVARIANT SendsWhileOpen
CHECK_DEADLOCK FALSE
