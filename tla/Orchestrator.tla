---------------------------- MODULE Orchestrator ----------------------------
(***************************************************************************)
(* Threads that ask for capabilities, through each path the runtime has:   *)
(*   orchestrator  Orchestrator::execute (orchestration/orchestrator.rs)   *)
(*   extension     CapabilityProviderExt (runtime/src/lib.rs)              *)
(*   pipeline      execute_capability (orchestrate.rs), on a bare model    *)
(*   bare          LocalModel::infer itself                                *)
(* over a local provider or model (LocalProvider), the mock provider or    *)
(* the JSON provider.                                                      *)
(***************************************************************************)
EXTENDS LocalProvider

CONSTANTS
  Providers,  \* of a thread: the providers without a model that it uses
  Requests,   \* of a thread: requests, with the prompt their caller gave them
  Contexts,   \* of a thread: what it or its context source has as context
  Parsers,    \* of a thread: the capability parsers its pipelines are built with
  Fixtures    \* the JSON provider's files

ASSUME OrchestratorAssumption ==
  /\ AreFixtures(Fixtures)
  /\ \A token \in Tokens : IsText(<<token>>)
  /\ \A t \in Clients :
       /\ Providers[t] \subseteq {"mock", "json"}
       /\ Parsers[t] \subseteq {"default", "build_summary", "explain_rust"}
       /\ \A r \in Requests[t] : IsRequest(r)
       /\ \A c \in Contexts[t] : IsContext(c)

VARIABLE reply  \* per thread: what its call returned

vars == <<backend, kind, config, wrapped, lifecycle, model, info, owner,
          callback, pc, call, inference, streamed, result, reply>>

Option(S) == {{}} \cup {{x} : x \in S}

(* The calls a thread may make.  An own context keeps the source from being *)
(* asked; a source that fails is an empty option.                           *)
Orchestrated(t, provider) ==
  {[via |-> "orchestrator", provider |-> provider, request |-> r, parser |-> p,
    own |-> o, source |-> s, streams |-> FALSE] :
      r \in Requests[t], p \in Parsers[t], o \in Option(Contexts[t]),
      s \in Option(Contexts[t]) \cup {NullContextSource}}

Direct(t, via, provider, parsers, streams) ==
  {[via |-> via, provider |-> provider, request |-> r, parser |-> p,
    own |-> {}, source |-> {}, streams |-> s] :
      r \in Requests[t], p \in parsers, s \in streams}

ProviderCalls(t, provider) ==
  {c \in Orchestrated(t, provider) : c.own = {} \/ c.source = {}}
    \cup Direct(t, "extension", provider, {"default"}, {FALSE})

ModelCalls(t) ==
  Direct(t, "pipeline", "model", Parsers[t], {FALSE})
    \cup Direct(t, "bare", "model", {"default"}, BOOLEAN)

NoCall == [via |-> "none", provider |-> "none"]

Reply(error, response, raw, warnings) ==
  [error |-> error, response |-> response, raw |-> raw, warnings |-> warnings]

NoReply == Reply("none", NoResponse, << >>, {})

Init ==
  /\ OwnedInit
  /\ ThreadsInit
  /\ call = [t \in Clients |-> NoCall]
  /\ reply = [t \in Clients |-> NoReply]

-----------------------------------------------------------------------------
(* The request that reaches the provider *)

Enriched(c) ==
  IF c.via = "orchestrator"
  THEN InjectPrompt(c.request, Assemble(ContextFor(c.own, c.source), c.request))
  ELSE c.request

\* Its inference, before anything is generated
Begun(c) ==
  [prompt |-> AdaptRequest(Enriched(c)).prompt, max_tokens |-> c.request.max_tokens,
   tokens |-> 0, text |-> << >>, streams |-> c.streams]

Calls(t, c) ==
  /\ call' = [call EXCEPT ![t] = c]
  /\ inference' = [inference EXCEPT ![t] = Begun(c)]
  /\ pc' = [pc EXCEPT ![t] = IF c.provider = "model" THEN "infer" ELSE "execute"]

(* &self excludes &mut self, so the owner is not at work.  A model belongs  *)
(* to its provider, or is used bare.                                        *)
Ask(t) ==
  /\ pc[t] = "idle" /\ owner = "idle"
  /\ \/ \E p \in Providers[t] : \E c \in ProviderCalls(t, p) : Calls(t, c)
     \/ wrapped /\ \E c \in ProviderCalls(t, "local") : Calls(t, c)
     \/ ~wrapped /\ \E c \in ModelCalls(t) : Calls(t, c)
  /\ UNCHANGED <<callback, streamed, result, reply>> /\ UNCHANGED owned

-----------------------------------------------------------------------------
(* CapabilityProvider::execute *)

ExecuteCanned(t) ==
  /\ pc[t] = "execute" /\ call[t].provider \in {"mock", "json"}
  /\ pc' = [pc EXCEPT ![t] = "inferred"]
  /\ UNCHANGED <<callback, call, inference, streamed, result, reply>> /\ UNCHANGED owned

\* Variant: waits for a provider that is not ready.
ExecuteLocalWaits(t) ==
  /\ pc[t] = "execute" /\ call[t].provider = "local"
  /\ IF lifecycle # "Ready"
       THEN /\ result' = [result EXCEPT ![t].error = IF @ = "none" THEN "NotReady" ELSE "none"]
            /\ UNCHANGED pc
       ELSE pc' = [pc EXCEPT ![t] = "infer"] /\ UNCHANGED result
  /\ UNCHANGED <<callback, call, inference, streamed, reply>> /\ UNCHANGED owned

\* LocalProvider::execute, up to the model.
ExecuteLocal(t) ==
  /\ pc[t] = "execute" /\ call[t].provider = "local"
  /\ IF lifecycle # "Ready"
       THEN Answers(t, "NotReady", << >>)
       ELSE pc' = [pc EXCEPT ![t] = "infer"] /\ UNCHANGED result
  /\ UNCHANGED <<callback, call, inference, streamed, reply>> /\ UNCHANGED owned

LocalExecute(inferred) ==
  IF inferred.error # "none" THEN Error(inferred.error)
  ELSE Success(AdaptResponse(inferred.text))

\* What execute returns, when the model has answered inferred
Provided(c, inferred) ==
  CASE c.provider = "mock" -> MockExecute(Enriched(c))
    [] c.provider = "json" -> JsonExecute(Fixtures, Enriched(c))
    [] c.provider \in {"local", "model"} -> LocalExecute(inferred)

-----------------------------------------------------------------------------
(* The way back *)

Parsed(c, text) ==
  LET output == ParseOutput(text)
  IN  Reply("none", ParseCapability(c.parser, output, c.request.capability), output.raw,
            output.output.warnings)

(* Orchestrator::execute, after the provider                                *)
OrchestratedReply(c, provided) ==
  IF provided.error # "none" THEN Reply(provided.error, NoResponse, << >>, {})
  ELSE Parsed(c, ExtractRawText(provided.response))

(* execute_capability, after the model: what it parses it does not return.  *)
PipelineReply(c, inferred) ==
  IF inferred.error # "none" THEN Reply(inferred.error, NoResponse, << >>, {})
  ELSE Reply("none", Parsed(c, inferred.text).response, << >>, {})

ExtensionReply(c, provided) ==
  LET answer == Extension(provided, c.request.capability)
  IN  Reply(answer.error, answer.response, << >>, {})

ReplyTo(c, inferred, provided) ==
  CASE c.via = "orchestrator" -> OrchestratedReply(c, provided)
    [] c.via = "extension" -> ExtensionReply(c, provided)
    [] c.via = "pipeline" -> PipelineReply(c, inferred)
    [] c.via = "bare" -> Reply(inferred.error, NoResponse, inferred.text, {})

Return(t) ==
  /\ pc[t] = "inferred"
  /\ pc' = [pc EXCEPT ![t] = "done"]
  /\ \E provided \in {Provided(call[t], result[t])} :
       reply' = [reply EXCEPT ![t] = ReplyTo(call[t], result[t], provided)]
  /\ UNCHANGED <<callback, call, inference, streamed, result>> /\ UNCHANGED owned

\* The caller has seen its answer; what the call held is dropped.
Dismiss(t) ==
  /\ pc[t] = "done"
  /\ pc' = [pc EXCEPT ![t] = "idle"]
  /\ call' = [call EXCEPT ![t] = NoCall]
  /\ inference' = [inference EXCEPT ![t] = Idle]
  /\ streamed' = [streamed EXCEPT ![t] = << >>]
  /\ result' = [result EXCEPT ![t] = NotAnswered]
  /\ reply' = [reply EXCEPT ![t] = NoReply]
  /\ UNCHANGED callback /\ UNCHANGED owned

Step(t) ==
  \/ ExecuteCanned(t) \/ ExecuteLocal(t)
  \/ Infer(t) /\ UNCHANGED reply
  \/ Return(t)

Next ==
  \/ Owner /\ UNCHANGED reply
  \/ \E t \in Clients : Ask(t) \/ Step(t) \/ Dismiss(t)

(* A thread that was called goes on; no one has to call.  That llama.cpp    *)
(* and the callback return is assumed.                                      *)
Fairness == \A t \in Clients : WF_vars(Step(t))

Spec == Init /\ [][Next]_vars /\ Fairness

-----------------------------------------------------------------------------
(* Properties *)

\* Every variable has its type.
TypeOK ==
  /\ backend \in BOOLEAN /\ kind \in Models /\ config \in Configs /\ wrapped \in BOOLEAN
  /\ lifecycle \in ProviderState
  /\ model \in {NoModel} \cup {LoadedConfig(c) : c \in Configs}
  /\ info \in ModelInfo
  /\ owner \in {"idle", "loading", "unloading", "unwound"}
  /\ callback \in {"sound", "poisoned"}
  /\ pc \in [Clients -> {"idle", "execute", "infer", "generate", "inferred", "done"}]
  /\ \A t \in Clients :
       /\ inference[t].tokens \in PromptTokens \cup {0}
       /\ \A i \in DOMAIN inference[t].text : inference[t].text[i] \in Tokens
       /\ result[t].error \in {"none", "NotReady", "panicked"} \cup ProviderError
       /\ reply[t].error \in {"none", "NotReady", "panicked", "Provider", "InvalidResponse"}
                                \cup ProviderError
       /\ reply[t].response.capability \in CapabilityKind \cup {"none"}

\* ProviderState checks two of its five transitions only.  Still no call of
\* the owner leaves it in Loading or Unloading (lifecycle.rs:7-8), a provider
\* that says Ready holds the model its own configuration names, wherever the
\* model was before, a model bears the name it was loaded under as long as it
\* is loaded, and no request that got through the provider finds it unloaded.
\* That the name is the configuration's (llama-cpp/src/lib.rs:129), and
\* "llama.cpp" before any load, is the code's: RFC-0008 section 4.3 has it
\* empty before the load and read from the GGUF metadata after it.
ReadyMeansLoaded ==
  /\ owner = "idle" => lifecycle \notin {"Loading", "Unloading"}
  /\ wrapped /\ lifecycle = "Ready" /\ kind \in {"llama", "stub"}
       => model = LoadedConfig(config) /\ info = config.model_name
  /\ model = NoModel => info = Unnamed
  /\ model # NoModel => \E c \in Configs : model = LoadedConfig(c) /\ info = c.model_name
  /\ kind = "llama" /\ model # NoModel => backend
  /\ \A t \in Clients : call[t].provider = "local" => result[t].error # "NotLoaded"

Heard(t) ==
  \/ IsPrefix(streamed[t], inference[t].text)
  \/ /\ result[t].error = "panicked" /\ callback = "poisoned"
     /\ \E token \in Tokens : streamed[t] = Append(inference[t].text, token)

\* Generation never runs past the context window or the request's limit
\* (llama-cpp/src/lib.rs:187-197), and what the callback saw is the beginning
\* of the text, all of it as long as no callback panicked: no token is handed
\* out twice, out of order, or after a gap.  Only the callback that panics has
\* seen a token more than the text has, the one it panicked over.
GenerationSound ==
  \A t \in Clients :
    /\ pc[t] = "generate" =>
         /\ inference[t].tokens + inference[t].max_tokens <= model.context
         /\ Len(inference[t].text) <= inference[t].max_tokens
    /\ Heard(t)
    /\ inference[t].streams /\ callback = "sound" => streamed[t] = inference[t].text
    /\ result[t].error = "none" /\ call[t].via = "bare" /\ pc[t] = "done" /\ kind = "llama"
         => reply[t].raw = inference[t].text

Blank(text) == \A i \in DOMAIN text : text[i] = Space

\* A failure the text itself reports
Denied(text) ==
  \E i \in DOMAIN text :
    text[i].kind = "object" /\ "success" \in DOMAIN text[i].fields
      /\ text[i].fields.success = Bool(FALSE)

\* The answer is of the asked capability when the parser is the default one
\* or the provider was asked directly; only a local provider asked for an
\* explanation is caught answering something else (lib.rs:130-140).
InKind(t) ==
  LET c == call[t]
      r == reply[t]
  IN  /\ r.error = "none" /\ c.via # "bare" /\ c.parser = "default"
           => r.response.capability = c.request.capability
      /\ r.error = "InvalidResponse" <=>
           c.via = "extension" /\ c.provider = "local" /\ c.request.capability = "ExplainRust"
             /\ result[t].error = "none"
      /\ c.provider # "model" => (r.error = "NotReady" <=> ProviderHealth(c.provider) # "Healthy")

\* A verdict of the orchestrator or the pipeline is the text's own: a failure
\* only if the text is blank or says so; and the runtime's parser never fails
\* what the stricter one of capabilities/ passes.
VerdictFromText(t) ==
  LET c == call[t]
      text == IF c.provider \in {"local", "model"} THEN result[t].text
              ELSE ExtractRawText(Provided(c, result[t]).response)
  IN  c.via \in {"orchestrator", "pipeline"} /\ reply[t].error = "none"
        => /\ c.via = "orchestrator" => reply[t].raw = text
           /\ c.parser = "default" /\ c.request.capability = "BuildSummary"
                => /\ ~reply[t].response.success => Blank(text) \/ Denied(text)
                   /\ ParseBuildSummary(ParseOutput(text)).success
                        => reply[t].response.success

Reordered(c) ==
  LET n == Len(c.recent_changes)
  IN  {[c EXCEPT !.recent_changes = [i \in 1 .. n |-> c.recent_changes[p[i]]]] :
         p \in Injection(1 .. n, 1 .. n)}

\* A context that holds the hash of its contents is sent with one that is the
\* same in whatever order the changes were reported (context.rs:96-101).
SameContextSameHash(t) ==
  LET c == call[t]
      context == ContextFor(c.own, c.source)
  IN  c.via = "orchestrator" /\ context.hash = ComputeHash(context)
        => \A other \in Reordered(context) :
             Enriched(c).prompt[2] = Assemble(WithHash(other), c.request)[2]

\* Every answer is in kind, its verdict is the text's, and the prompt behind
\* it depends on what the workspace did and not on the order of its report.
AnswerExplained ==
  \A t \in Clients : pc[t] = "done" => InKind(t) /\ VerdictFromText(t) /\ SameContextSameHash(t)

\* Every call comes back, whatever the provider's state.
CallReturns == \A t \in Clients : pc[t] \in {"execute", "infer", "generate"} ~> pc[t] = "done"
-----------------------------------------------------------------------------
(* The strengthening that makes ReadyMeansLoaded and GenerationSound        *)
(* inductive                                                                *)

\* The lifecycle follows the owner's call while a provider owns the model,
\* and nobody is inside the model while the owner is.
OwnerInv ==
  /\ kind \in Models /\ config \in Configs /\ lifecycle \in ProviderState
  /\ owner \in {"idle", "loading", "unloading", "unwound"}
  /\ wrapped /\ owner = "loading" => lifecycle = "Loading"
  /\ wrapped /\ owner = "unloading" => lifecycle = "Unloading"
  /\ ~wrapped => lifecycle = "Uninitialized"
  /\ \A t \in Clients : pc[t] # "idle" => owner = "idle"

\* What a thread holds at each of its steps
Labels == {"idle", "execute", "infer", "generate", "inferred", "done"}

Inferences(prompt) ==
  [prompt : {prompt}, max_tokens : Nat, tokens : Nat, text : Seq(Tokens), streams : BOOLEAN]

ThreadTypes ==
  /\ pc \in [Clients -> Labels]
  /\ DOMAIN call = Clients /\ DOMAIN result = Clients /\ DOMAIN reply = Clients
  /\ DOMAIN inference = Clients
  /\ \A t \in Clients : inference[t] \in Inferences(inference[t].prompt)
  /\ streamed \in [Clients -> Seq(Tokens)]

CallInv == \A t \in Clients :
  /\ pc[t] = "idle" => call[t] = NoCall /\ inference[t] = Idle
  /\ pc[t] \in {"idle", "execute", "infer"} =>
       result[t] = NotAnswered /\ streamed[t] = << >> /\ inference[t].text = << >>
  /\ pc[t] = "infer" => call[t].provider \in {"local", "model"}
  /\ call[t].provider = "local" => wrapped
  /\ call[t].provider = "local" /\ pc[t] \in {"infer", "generate"} => lifecycle = "Ready"
  /\ call[t].via = "bare" => call[t].provider = "model" /\ pc[t] # "execute"
  /\ pc[t] = "generate" => kind = "llama" /\ model # NoModel /\ result[t] = NotAnswered

\* What the model answered is what it has generated.
AnswerInv == \A t \in Clients :
  /\ pc[t] = "inferred" /\ call[t].via = "bare" /\ kind = "llama" /\ result[t].error = "none"
       => result[t].text = inference[t].text

\* What a thread asks with, what it was answered and what it returns
CallTyped(t, c) ==
  /\ c.provider \in {"mock", "json", "local", "model"}
  /\ c.via \in IF c.provider = "model" THEN {"pipeline", "bare"} ELSE {"orchestrator", "extension"}
  /\ c.request \in Requests[t]
  /\ c.parser \in {"default", "build_summary", "explain_rust"}
  /\ c.via = "extension" => c.parser = "default"
  /\ c.own \in Option(Contexts[t]) /\ c.source \in Option(Contexts[t]) \cup {NullContextSource}

ReplyInv(t) ==
  /\ pc[t] # "idle" => CallTyped(t, call[t])
  /\ inference[t].tokens \in PromptTokens \cup {0} /\ IsText(inference[t].prompt)
  /\ result[t].error \in {"none", "NotReady", "panicked"} \cup ProviderError
  /\ IsText(result[t].text)
  /\ pc[t] \in {"inferred", "done"} /\ call[t].provider = "local"
       => (result[t].error = "NotReady" <=> lifecycle # "Ready")
  /\ reply[t] = IF pc[t] = "done"
                THEN ReplyTo(call[t], result[t], Provided(call[t], result[t])) ELSE NoReply

TypeInv ==
  /\ backend \in BOOLEAN /\ wrapped \in BOOLEAN /\ callback \in {"sound", "poisoned"}
  /\ \A t \in Clients : ReplyInv(t)

IInv == OwnerInv /\ ThreadTypes /\ CallInv /\ AnswerInv /\ ReadyMeansLoaded /\ GenerationSound
=============================================================================
