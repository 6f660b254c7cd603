SPECIFICATION FairSpec
CONSTANTS
  t1 = t1
  t2 = t2
  goal = goal
  f = f
  x = x
  y = y
  Clients <- ThreadSet
  Ids <- GoalSet
  Files <- FileSet
  Outside = Outside
  Contents <- ContentSet
  Setups <- EverySetup
  Old = Old
  Torn = Torn
  NoExit = NoExit
  capital_f = capital_f
  elsewhere = elsewhere
  none = none
  NoName = none
  Lowercase <- Lower
  ContentOf <- Content
  Goals <- EveryGoal
  Responses <- CannedResponses
  Outputs <- ModelOutputs
  MaxCalls = 2
  MaxCrashes = 1
CHECK_DEADLOCK FALSE
INVARIANT TypeOK
INVARIANT LogTellsReply
INVARIANT RecordedBeforeDone
INVARIANT FilesExplained
INVARIANT AnswerMatchesLog
PROPERTY FileGoalAnswered
