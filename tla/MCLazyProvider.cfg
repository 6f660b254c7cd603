SPECIFICATION FairSpec
CONSTANTS
  t1 = t1
  t2 = t2
  t3 = t3
  Clients <- ThreadSet
  NoOne = NoOne
INVARIANT TypeOK
INVARIANT MadeOnce
INVARIANT ReplyExplained
PROPERTY NotBlockedByLoading
