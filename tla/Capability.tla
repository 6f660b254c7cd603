----------------------------- MODULE Capability -----------------------------
(***************************************************************************)
(* Requests, the context and the prompt they are sent with, and what the   *)
(* providers without a model answer: contract/src/lib.rs,                  *)
(* runtime/src/context.rs, runtime/src/assembler.rs, runtime/src/lib.rs,   *)
(* providers/mock and providers/json.  Everything here is a function of    *)
(* its arguments.  The wording of prompts and answers is left out: a       *)
(* heading is a Word, and only what a request or a model brings with it    *)
(* can hold a brace.                                                       *)
(***************************************************************************)
EXTENDS ModelOutput, SequencesExt

NoPrompt == << >>

CapabilityKind == {"BuildSummary", "ExplainRust"}

BuildSummaryRequest(exit_code, output, max_tokens) ==
  [capability |-> "BuildSummary", exit_code |-> exit_code, data |-> output,
   prompt |-> NoPrompt, max_tokens |-> max_tokens]

ExplainRustRequest(question, source, max_tokens) ==
  [capability |-> "ExplainRust", question |-> question, data |-> source,
   prompt |-> NoPrompt, max_tokens |-> max_tokens]

IsRequest(r) ==
  /\ r.capability \in CapabilityKind /\ r.max_tokens \in Nat
  /\ DOMAIN r = {"capability", "data", "prompt", "max_tokens"}
                  \cup {IF r.capability = "ExplainRust" THEN "question" ELSE "exit_code"}
  /\ IsText(r.data) /\ IsText(r.prompt)
  /\ r.capability = "ExplainRust" => IsText(r.question)

-----------------------------------------------------------------------------
(* The context of the workspace *)

WorkspaceStatus == {"Clean", "Modified", "Failed", "Unknown"}

\* Variant: hashes the changes in the order they came.
ComputeHashInOrder(c) ==
  <<c.workspace_status, c.files, c.recent_changes, c.git>>

(* compute_hash, free of collisions: it sorts the changes first.            *)
ComputeHash(c) ==
  <<c.workspace_status, c.files, ToBag(c.recent_changes), c.git>>

(* files stands for the two file counts, git for branch, dirty flag and     *)
(* number of modified files: hash and prompt take them as they are.         *)
Context(changes, status, files, git) ==
  [recent_changes |-> changes, workspace_status |-> status, files |-> files, git |-> git,
   hash |-> << >>]

IsContext(c) ==
  /\ DOMAIN c = DOMAIN Context(<< >>, "Unknown", 0, "none")
  /\ c.recent_changes \in Seq({c.recent_changes[i] : i \in DOMAIN c.recent_changes})
  /\ c.workspace_status \in WorkspaceStatus

\* A context whose hash field was filled in by compute_hash
WithHash(c) == [c EXCEPT !.hash = ComputeHash(c)]

(* InferenceContext::default(): its hash is the number zero and not that of *)
(* its contents.                                                            *)
DefaultContext == Context(<< >>, "Unknown", 0, "none")

NullContextSource == {DefaultContext}

(* Orchestrator: the request's own context, or the source's, or the default *)
ContextFor(own, source) ==
  LET given == IF own # {} THEN own ELSE source
  IN  IF given # {} THEN CHOOSE c \in given : TRUE ELSE DefaultContext

-----------------------------------------------------------------------------
(* The prompt *)

\* The line "Context hash" of a prompt
HashLine(hash) == [kind |-> "hash", hash |-> hash]

(* DefaultPromptAssembler::assemble *)
Assemble(context, request) ==
  << Word, HashLine(context.hash) >>
    \o [i \in DOMAIN context.recent_changes |-> Word]
    \o (IF request.capability = "ExplainRust" THEN request.question ELSE << Word >>)
    \o request.data \o << Word >>

(* inject_prompt *)
InjectPrompt(request, prompt) == [request EXCEPT !.prompt = prompt]

(* adapt_request *)
AdaptRequest(request) == [prompt |-> request.prompt, max_tokens |-> request.max_tokens]

(* adapt_response: whatever was asked, the text becomes a build summary.    *)
AdaptResponse(text) == BuildSummaryResponse(TRUE, text, {})

(* extract_raw_text *)
ExtractRawText(response) == response.text

-----------------------------------------------------------------------------
(* Results: a response or the kind of a RuntimeError *)

NoResponse == [capability |-> "none"]

Success(response) == [error |-> "none", response |-> response]
Error(kind) == [error |-> kind, response |-> NoResponse]

\* Variant: trusts the provider to answer in kind.
ExtensionTrusting(result, capability) == result

(* CapabilityProviderExt::build_summary and explain_rust *)
Extension(result, capability) ==
  IF result.error = "none" /\ result.response.capability # capability
  THEN Error("InvalidResponse") ELSE result

-----------------------------------------------------------------------------
(* The providers without a model *)

(* providers/mock: build_summary_response.  Exit codes 101, 102 and other   *)
(* ones differ in their wording only.                                       *)
MockBuildSummary(request) ==
  IF request.exit_code = 0 THEN BuildSummaryResponse(TRUE, <<Word>>, {})
  ELSE BuildSummaryResponse(FALSE, <<Word>>, {<<Word>>})

(* explain_rust_response: the question is quoted, the source is not.        *)
MockExplainRust(request) == ExplainRustResponse(<<Word>> \o request.question)

MockExecute(request) ==
  Success(IF request.capability = "BuildSummary"
          THEN MockBuildSummary(request) ELSE MockExplainRust(request))

(* providers/json: the fixture a request is answered with, and what reading *)
(* it gives: no file, a file that is not of the type, or a response.        *)
FixtureOf(request) ==
  IF request.capability = "ExplainRust" THEN "rust_explain"
  ELSE IF request.exit_code = 0 THEN "build_success" ELSE "build_failure"

LoadFixture(fixtures, name) ==
  IF name \notin DOMAIN fixtures \/ fixtures[name] = NoResponse THEN Error("Provider")
  ELSE Success(fixtures[name])

\* A fixture that is read as a response has the type that is asked for.
AreFixtures(fixtures) ==
  \A name \in DOMAIN fixtures : fixtures[name] # NoResponse =>
    /\ fixtures[name].capability = IF name = "rust_explain" THEN "ExplainRust" ELSE "BuildSummary"
    /\ IsText(fixtures[name].text)

JsonExecute(fixtures, request) == LoadFixture(fixtures, FixtureOf(request))
=============================================================================
