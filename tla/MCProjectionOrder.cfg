SPECIFICATION Spec
CONSTANTS
  t1 = t1
  t2 = t2
  a = a
  b = b
  modified = modified
  Clients <- ThreadSet
  NoOne = NoOne
  Paths <- OnePath
  Operations <- OperationSet
  OtherEvent = OtherEvent
  RecentLimit = 1
  MaxEvents = 3
  MaxProjections = 3
  MaxFed = 0
  ReplayFailures = 1
PROPERTY InSequenceOrder
