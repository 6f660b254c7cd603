SPECIFICATION FairSpec
CONSTANTS
  t1 = t1
  t2 = t2
  src = src
  main = main
  tmp = tmp
  Clients <- ThreadSet
  Observations <- RawObservations
  Root <- ProjectRoot
  Ignored <- IgnoredSet
  MaxCalls = 2
CHECK_DEADLOCK FALSE
INVARIANT TypeOK
INVARIANT OkMeansCommitted
INVARIANT ChangesInScope
INVARIANT CountersExact
PROPERTY CallReturns
