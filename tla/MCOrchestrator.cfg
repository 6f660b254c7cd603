SPECIFICATION Spec
CONSTANTS
  t1 = t1
  t2 = t2
  Clients <- MCClients
  Providers <- MCProviders
  Models <- MCModels
  Configs <- MCConfigs
  Tokens <- MCTokens
  PromptTokens <- MCPromptTokens
  Requests <- MCRequests
  Contexts <- MCContexts
  Parsers <- MCParsers
  Fixtures <- MCFixtures
INVARIANT TypeOK
INVARIANT ReadyMeansLoaded
INVARIANT GenerationSound
INVARIANT AnswerExplained
PROPERTY CallReturns
