SPECIFICATION FairSpec
CONSTANTS
  t1 = t1
  t2 = t2
  a = a
  b = b
  modified = modified
  Clients <- ThreadSet
  NoOne = NoOne
  Paths <- OnePath
  Operations <- OperationSet
  OtherEvent = OtherEvent
  RecentLimit = 1
  MaxEvents = 2
  MaxProjections = 2
  MaxFed = 2
  ReplayFailures = 1
INVARIANT TypeOK
INVARIANT RebuiltIsReplay
INVARIANT SummaryConsistent
PROPERTY OkMeansInitialized
PROPERTY EngineReleased
