SPECIFICATION Spec
CONSTANTS
  t1 = t1
  t2 = t2
  p1 = p1
  p2 = p2
  Clients <- ThreadSet
  Unbounded = Unbounded
  NoOne = NoOne
  NoMeta = NoMeta
  Garbage = Garbage
  NoTail = NoTail
  Prefix = Prefix
  Payloads <- TwoPayloads
  StartSequences <- FromStart
  Capacity = 3
  Faults <- OnlyCrashes
  FlushFailures = 0
  CorruptMetas <- NoDamage
PROPERTY KeepsPromise
