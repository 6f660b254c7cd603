SPECIFICATION Spec
CONSTANTS
  t1 = t1
  t2 = t2
  p1 = p1
  p2 = p2
  Clients <- ThreadSet
  Unbounded = Unbounded
  NoOne = NoOne
  NoMeta = NoMeta
  Garbage = Garbage
  NoTail = NoTail
  Prefix = Prefix
  Payloads <- OnePayload
  StartSequences <- FromStart
  Capacity = 2
  Faults <- OnlyMetaWrites
  FlushFailures = 0
  CorruptMetas <- NoDamage
PROPERTY FailedAppendInvisible
