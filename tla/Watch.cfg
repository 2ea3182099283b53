\* One key, two changes to it, one failure of etcd, channels of capacity one.
SPECIFICATION WatchSpec
CONSTANTS
  Keys = {1}
  MaxRevision = 2
  EventChannelBuffer = 1
  WatchBuffer = 1
  HasLogger = TRUE
  MaxFaults = 1
INVARIANT ListWatchTypeOK
INVARIANT StorageWatchTypeOK
INVARIANT ClientsClosed
INVARIANT HealthyWatchKept
INVARIANT KnownOnceSeen
PROPERTY InOrder
PROPERTY StopReturns
PROPERTY Reconnects
PROPERTY ChangesArrive
PROPERTY LeaksOnlyWhenFull
PROPERTY WatchStreams
PROPERTY CancelCloses
CHECK_DEADLOCK FALSE
