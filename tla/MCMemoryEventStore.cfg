SPECIFICATION FairSpec
CONSTANTS
  t1 = t1
  t2 = t2
  p1 = p1
  p2 = p2
  Clients <- ThreadSet
  Payloads <- PayloadSet
  StartSequences <- ReplayStarts
  Capacity = 3
  Unbounded = Unbounded
  NoOne = NoOne
INVARIANT TypeOK
INVARIANT AcknowledgedOnce
INVARIANT CounterMatchesLog
INVARIANT WithinCapacity
PROPERTY KeepsPromise
PROPERTY LockReleased
