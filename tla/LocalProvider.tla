---------------------------- MODULE LocalProvider ----------------------------
(***************************************************************************)
(* A local model and the provider that owns it: LocalProvider              *)
(* (runtime/src/local_provider.rs) over ProviderLifecycle                  *)
(* (runtime/src/lifecycle.rs) and ProviderState                            *)
(* (contract/src/provider_state.rs), with the models LlamaCppModel         *)
(* (providers/llama-cpp), built with and without inference, MockLocalModel *)
(* (runtime/src/mock_model.rs), and "other", any implementation of the     *)
(* LocalModel trait.                                                       *)
(*                                                                         *)
(* load and unload take &mut self: no thread is inside infer or execute    *)
(* while they run, and one owner calls them.  infer and execute take &self *)
(* and run in any number of threads.  A model may be used bare, and may    *)
(* have been loaded before it is given to a provider.                      *)
(***************************************************************************)
EXTENDS Capability, ResolvedConfig

CONSTANTS
  Clients,      \* the threads that call infer and execute
  Models,       \* the implementations of LocalModel to look at
  Configs,      \* the configurations ResolvedConfig::load may return
  Tokens,       \* the pieces a model generates
  PromptTokens  \* the lengths of tokenized prompts

ASSUME LocalProviderAssumption ==
  /\ Models \subseteq {"llama", "stub", "mock", "other"}
  /\ PromptTokens \subseteq Nat
  /\ \A c \in Configs : c.context \in Nat

VARIABLES
  backend,    \* whether the process has initialized llama.cpp
  kind,       \* the model's implementation
  config,     \* what the owner loads the model with
  wrapped,    \* whether a LocalProvider owns the model
  lifecycle,  \* that provider's ProviderState
  model,      \* the loaded configuration the model holds, or NoModel
  info,       \* the model's name in ModelInfo
  owner,      \* the owner's call: idle, loading, unloading, or unwound by a panic
  callback,   \* whether the shared token callback's mutex is poisoned
  pc,         \* per thread: its next step
  call,       \* per thread: the call it makes, of the composing module
  inference,  \* per thread: prompt, token limit, prompt length, text so far
  streamed,   \* per thread: what its call handed to the callback
  result      \* per thread: what the model or provider answered it

owned == <<backend, kind, config, wrapped, lifecycle, model, info, owner>>
threads == <<callback, pc, call, inference, streamed, result>>

NoModel == [loaded |-> FALSE]

(* LoadedConfig: what llama.cpp uses of the configuration                   *)
LoadedConfig(c) ==
  [loaded |-> TRUE, model_path |-> c.model_path, context |-> c.context,
   threads |-> c.threads, gpu_layers |-> c.gpu_layers]

Unnamed == "llama.cpp"
ModelInfo == {Unnamed} \cup {c.model_name : c \in Configs}

\* ProviderError::Model, told apart by its text
ProviderError == {"NotLoaded", "ModelError"}

Idle == [prompt |-> << >>, max_tokens |-> 0, tokens |-> 0, text |-> << >>, streams |-> FALSE]

\* The states of a model and of a provider that were just made
NewModel ==
  /\ kind' \in Models
  /\ model' = NoModel
  /\ info' = Unnamed

OwnedInit ==
  /\ backend = FALSE
  /\ kind \in Models
  /\ config \in Configs
  /\ wrapped = FALSE
  /\ lifecycle = "Uninitialized"
  /\ model = NoModel
  /\ info = Unnamed
  /\ owner = "idle"

NotAnswered == [error |-> "none", text |-> << >>]

ThreadsInit ==
  /\ callback = "sound"
  /\ pc = [t \in Clients |-> "idle"]
  /\ inference = [t \in Clients |-> Idle]
  /\ streamed = [t \in Clients |-> << >>]
  /\ result = [t \in Clients |-> NotAnswered]

-----------------------------------------------------------------------------
(* ProviderState: from where each transition is allowed and where it leads. *)
(* loaded, failed and unloaded ask nothing.                                 *)

ProviderState == {"Uninitialized", "Loading", "Ready", "Failed", "Unloading"}

Transition ==
  [ load     |-> [from |-> {"Uninitialized", "Failed"}, to |-> "Loading"],
    loaded   |-> [from |-> ProviderState, to |-> "Ready"],
    failed   |-> [from |-> ProviderState, to |-> "Failed"],
    unload   |-> [from |-> {"Ready"}, to |-> "Unloading"],
    unloaded |-> [from |-> ProviderState, to |-> "Uninitialized"] ]

(* ProviderLifecycle, which only a provider has                             *)
Moved(transition) ==
  IF wrapped
    THEN /\ lifecycle \in Transition[transition].from
         /\ lifecycle' = Transition[transition].to
    ELSE UNCHANGED lifecycle

-----------------------------------------------------------------------------
(* The owner: load and unload *)

(* The borrow rules: &mut self excludes every &self call.                   *)
Exclusive == owner = "idle" /\ \A t \in Clients : pc[t] = "idle"

(* LocalProvider::new takes a model as it is, and a configuration that need *)
(* not be the one the model was loaded with.                                *)
Wrap ==
  /\ Exclusive /\ ~wrapped
  /\ wrapped' = TRUE
  /\ lifecycle' = "Uninitialized"
  /\ config' \in Configs
  /\ UNCHANGED <<backend, kind, model, info, owner>> /\ UNCHANGED threads

(* The first half of LocalProvider::load: the lifecycle's guarded step,     *)
(* which when it is refused (InvalidLoad) has changed nothing.  A bare      *)
(* model has no lifecycle.                                                  *)
BeginLoad ==
  /\ Exclusive
  /\ Moved("load")
  /\ owner' = "loading"
  /\ UNCHANGED <<backend, kind, config, wrapped, model, info>> /\ UNCHANGED threads

\* Variant: what was loaded before is good enough.
ModelLoadsOnce ==
  IF kind \in {"llama", "stub"} /\ model = NoModel
    THEN /\ backend' = (backend \/ kind = "llama")
         /\ model' = LoadedConfig(config)
         /\ info' = config.model_name
    ELSE UNCHANGED <<backend, model, info>>

(* LocalModel::load returns Ok.  MockLocalModel and "other" keep nothing    *)
(* this module looks at.                                                    *)
ModelLoads ==
  IF kind \in {"llama", "stub"}
    THEN /\ backend' = (backend \/ kind = "llama")
         /\ model' = LoadedConfig(config)
         /\ info' = config.model_name
    ELSE UNCHANGED <<backend, model, info>>

(* It returns an error: there is no file, or llama.cpp cannot load it.  The *)
(* model keeps what it held.                                                *)
ModelLoadFails ==
  /\ kind # "mock"
  /\ \/ UNCHANGED backend
     \/ kind = "llama" /\ backend' = TRUE
  /\ UNCHANGED <<model, info>>

(* The second half of LocalProvider::load: loaded() or failed().            *)
EndLoad ==
  /\ owner = "loading"
  /\ owner' = "idle"
  /\ \/ /\ ModelLoads
        /\ Moved("loaded")
     \/ /\ ModelLoadFails
        /\ Moved("failed")
  /\ UNCHANGED <<kind, config, wrapped>> /\ UNCHANGED threads

(* The expect of get_backend: the backend refuses to be initialized, and    *)
(* the OnceLock stays empty.  The unwinding drops the provider.             *)
LoadPanics ==
  /\ owner = "loading" /\ kind = "llama" /\ ~backend
  /\ owner' = "unwound"
  /\ UNCHANGED <<backend, kind, config, wrapped, lifecycle, model, info>>
  /\ UNCHANGED threads

Remake ==
  /\ owner = "unwound"
  /\ owner' = "idle"
  /\ wrapped' = FALSE
  /\ NewModel
  /\ lifecycle' = "Uninitialized"
  /\ config' \in Configs
  /\ UNCHANGED backend /\ UNCHANGED threads

(* LocalProvider::unload likewise, in two halves                            *)
BeginUnload ==
  /\ Exclusive
  /\ Moved("unload")
  /\ owner' = "unloading"
  /\ UNCHANGED <<backend, kind, config, wrapped, model, info>> /\ UNCHANGED threads

(* LocalModel::unload: llama.cpp's and the mock's cannot fail.              *)
ModelUnloads ==
  IF kind \in {"llama", "stub"}
    THEN model' = NoModel /\ info' = Unnamed
    ELSE UNCHANGED <<model, info>>

\* Variant: an unload that fails is left where it was.
EndUnloadStuck ==
  /\ owner = "unloading"
  /\ owner' = "idle"
  /\ \/ /\ ModelUnloads
        /\ Moved("unloaded")
     \/ /\ kind = "other"
        /\ UNCHANGED <<model, info, lifecycle>>
  /\ UNCHANGED <<backend, kind, config, wrapped>> /\ UNCHANGED threads

EndUnload ==
  /\ owner = "unloading"
  /\ owner' = "idle"
  /\ \/ /\ ModelUnloads
        /\ Moved("unloaded")
     \/ /\ kind = "other"
        /\ Moved("failed")
        /\ UNCHANGED <<model, info>>
  /\ UNCHANGED <<backend, kind, config, wrapped>> /\ UNCHANGED threads

Owner ==
  \/ Wrap \/ BeginLoad \/ EndLoad \/ LoadPanics \/ Remake \/ BeginUnload \/ EndUnload

(* health *)
Health ==
  CASE lifecycle = "Ready" -> "Healthy"
    [] lifecycle \in {"Loading", "Unloading"} -> "Busy"
    [] lifecycle = "Failed" -> "Unhealthy"
    [] lifecycle = "Uninitialized" -> "NotLoaded"

(* The providers without a model are always healthy.                        *)
ProviderHealth(provider) == IF provider = "local" THEN Health ELSE "Healthy"

-----------------------------------------------------------------------------
(* LocalModel::infer, from a thread whose inference is filled in and whose  *)
(* step is "infer", to the step "inferred" and its result                   *)

Answers(t, error, text) ==
  /\ pc' = [pc EXCEPT ![t] = "inferred"]
  /\ result' = [result EXCEPT ![t] = [error |-> error, text |-> text]]

\* MockLocalModel gives the prompt back, as does LlamaCppModel when it is
\* built without inference; both leave chat messages aside.
InferMock(t) ==
  /\ pc[t] = "infer" /\ kind = "mock"
  /\ Answers(t, "none", <<Word>> \o inference[t].prompt)
  /\ UNCHANGED <<callback, call, inference, streamed>> /\ UNCHANGED owned

InferStub(t) ==
  /\ pc[t] = "infer" /\ kind = "stub"
  /\ IF model = NoModel THEN Answers(t, "NotLoaded", << >>)
     ELSE Answers(t, "none", <<Word>> \o inference[t].prompt)
  /\ UNCHANGED <<callback, call, inference, streamed>> /\ UNCHANGED owned

\* Of another model only the type is known.
InferOther(t) ==
  /\ pc[t] = "infer" /\ kind = "other"
  /\ \/ Answers(t, "ModelError", << >>)
     \/ \E text \in {<< >>} \cup {<<x>> : x \in Tokens} : Answers(t, "none", text)
  /\ UNCHANGED <<callback, call, inference, streamed>> /\ UNCHANGED owned

\* get_backend: a bare model may be the first to need it, and panic.
InferPanics(t) ==
  /\ pc[t] = "infer" /\ kind = "llama" /\ ~backend
  /\ Answers(t, "panicked", << >>)
  /\ UNCHANGED <<callback, call, inference, streamed>> /\ UNCHANGED owned

InferNotLoaded(t) ==
  /\ pc[t] = "infer" /\ kind = "llama" /\ model = NoModel
  /\ backend' = TRUE
  /\ Answers(t, "NotLoaded", << >>)
  /\ UNCHANGED <<callback, call, inference, streamed>>
  /\ UNCHANGED <<kind, config, wrapped, lifecycle, model, info, owner>>

\* Variant: reserves nothing for the answer.
FitsPromptOnly(tokens, max_tokens) == tokens <= model.context

\* The guard against prompts exceeding the context window
Fits(tokens, max_tokens) == tokens + max_tokens <= model.context

\* The prompt is refused, or the model fails on the way to its first token:
\* chat template, tokenization, context creation, the prompt's decoding.
InferFails(t) ==
  /\ pc[t] = "infer" /\ kind = "llama" /\ model # NoModel
  /\ Answers(t, "ModelError", << >>)
  /\ UNCHANGED <<callback, call, inference, streamed>> /\ UNCHANGED owned

\* Variant: counts the token that begins every prompt once more.
InferPromptBeginsTwice(t) ==
  /\ pc[t] = "infer" /\ kind = "llama" /\ model # NoModel
  /\ \E n \in PromptTokens :
       /\ Fits(n, inference[t].max_tokens)
       /\ inference' = [inference EXCEPT ![t].tokens = n + 1]
  /\ pc' = [pc EXCEPT ![t] = "generate"]
  /\ UNCHANGED <<callback, call, streamed, result>> /\ UNCHANGED owned

InferPrompt(t) ==
  /\ pc[t] = "infer" /\ kind = "llama" /\ model # NoModel
  /\ \E n \in PromptTokens \ {0} :
       /\ Fits(n, inference[t].max_tokens)
       /\ inference' = [inference EXCEPT ![t].tokens = n]
  /\ pc' = [pc EXCEPT ![t] = "generate"]
  /\ UNCHANGED <<callback, call, streamed, result>> /\ UNCHANGED owned

\* An end-of-generation token, or the limit
GenerateEnds(t) ==
  /\ pc[t] = "generate"
  /\ Answers(t, "none", inference[t].text)
  /\ UNCHANGED <<callback, call, inference, streamed>> /\ UNCHANGED owned

MoreToGenerate(t) == pc[t] = "generate" /\ Len(inference[t].text) < inference[t].max_tokens

\* A token that has no text
GenerateFails(t) ==
  /\ MoreToGenerate(t)
  /\ Answers(t, "ModelError", << >>)
  /\ UNCHANGED <<callback, call, inference, streamed>> /\ UNCHANGED owned

\* Streaming is skipped when the callback's mutex is poisoned.
Streams(t) == inference[t].streams /\ callback = "sound"

\* Variant: a token is handed out once more when its decoding is tried again.
StreamedTwice(t, token) ==
  IF Streams(t) THEN [streamed EXCEPT ![t] = @ \o <<token, token>>] ELSE streamed

Streamed(t, token) == IF Streams(t) THEN [streamed EXCEPT ![t] = Append(@, token)] ELSE streamed

\* A token is streamed, appended, and decoded; when the decoding fails, of
\* the last token too, the answer so far is lost.
GenerateToken(t) ==
  /\ MoreToGenerate(t)
  /\ \E token \in Tokens :
       /\ streamed' = Streamed(t, token)
       /\ inference' = [inference EXCEPT ![t].text = Append(@, token)]
  /\ \/ UNCHANGED <<pc, result>>
     \/ Answers(t, "ModelError", << >>)
  /\ UNCHANGED <<callback, call>> /\ UNCHANGED owned

\* The caller's callback panics under its mutex, over a token it has been
\* handed and that is not yet appended to the text.
CallbackPanics(t) ==
  /\ MoreToGenerate(t) /\ Streams(t)
  /\ \E token \in Tokens : streamed' = Streamed(t, token)
  /\ callback' = "poisoned"
  /\ Answers(t, "panicked", << >>)
  /\ UNCHANGED <<call, inference>> /\ UNCHANGED owned

Infer(t) ==
  \/ InferMock(t) \/ InferStub(t) \/ InferOther(t)
  \/ InferPanics(t) \/ InferNotLoaded(t) \/ InferFails(t) \/ InferPrompt(t)
  \/ GenerateEnds(t) \/ GenerateFails(t) \/ GenerateToken(t) \/ CallbackPanics(t)
=============================================================================
