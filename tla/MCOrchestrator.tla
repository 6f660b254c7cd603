--------------------------- MODULE MCOrchestrator ---------------------------
(* Two threads: the first asks all sorts of things of every provider, the   *)
(* second for a longer text of the local one or of its model.               *)
EXTENDS Orchestrator, TLC

CONSTANTS t1, t2

MCClients == {t1, t2}

MCProviders == t1 :> {"mock", "json"} @@ t2 :> {}

MCModels == {"llama", "stub", "mock", "other"}

\* The files of the machine and of a project, and what they resolve to
MCConfigs ==
  UNION {LoadConfig(global, project) :
           global \in {Absent, Malformed},
           project \in {Absent, Unreadable, File([name |-> "small", context |-> 3])}}

Denial == Object([success |-> Bool(FALSE)])
Unsaid == Object([explanation |-> String(<<Word>>)])

MCTokens == {Space, Denial}

MCPromptTokens == {0, 2}

\* The second request's prompt and data hold an object the model may echo.
MCRequests ==
  t1 :> {InjectPrompt(BuildSummaryRequest(101, <<Space, Denial>>, 1), <<Denial>>),
         ExplainRustRequest(<<Word>>, <<Open, Unsaid>>, 0)}
  @@ t2 :> {BuildSummaryRequest(0, << >>, 2)}

MCContexts ==
  t1 :> {WithHash(Context(<<"a", "b">>, "Modified", 2, "clean"))}
  @@ t2 :> {}

MCParsers == t1 :> {"default", "build_summary", "explain_rust"} @@ t2 :> {}

\* The fixtures of the repository, one of them missing
MCFixtures ==
  [build_success |-> BuildSummaryResponse(TRUE, <<Word>>, {}),
   build_failure |-> BuildSummaryResponse(FALSE, <<Word>>, {<<Word>>})]
=============================================================================
