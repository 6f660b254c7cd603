SPECIFICATION Spec
CONSTANTS
  t1 = t1
  t2 = t2
  goal = goal
  f = f
  x = x
  y = y
  Clients <- ThreadSet
  Ids <- GoalSet
  Files <- FileSet
  Outside = Outside
  Contents <- ContentSet
  Setups <- UsualSetup
  Old = Old
  Torn = Torn
  NoExit = NoExit
  capital_f = capital_f
  elsewhere = elsewhere
  none = none
  NoName = none
  Lowercase <- Lower
  ContentOf <- Content
  Goals <- Creates
  Responses <- NoResponses
  Outputs <- NoOutputs
  MaxCalls = 2
  MaxCrashes = 0
CHECK_DEADLOCK FALSE
INVARIANT DeleteIdempotent
