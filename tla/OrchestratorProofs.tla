------------------------- MODULE OrchestratorProofs -------------------------
(***************************************************************************)
(* ReadyMeansLoaded, GenerationSound, AnswerExplained and TypeOK for any   *)
(* threads, requests, contexts, configurations, tokens and texts.  While   *)
(* the owner is in load or unload no thread is inside a call, so a thread  *)
(* that got past the provider's test of Ready finds the model loaded and   *)
(* keeps it; what one thread generates only that thread touches; and an    *)
(* answer is a function of the call and of what its provider said, so what *)
(* it explains is a matter of the parsers, of prompts and of hashes alone. *)
(***************************************************************************)
EXTENDS Orchestrator, SequenceTheorems, FiniteSetTheorems, WellFoundedInduction, TLAPS

(* A loaded model is told from none. *)
LEMMA NothingLoaded == \A c : LoadedConfig(c) # NoModel
  BY DEF LoadedConfig, NoModel

\* What a callback saw is explained as long as its thread hands it nothing
\* more; a first answer, and a callback that panics elsewhere, change nothing.
LEMMA HeardKept ==
  ASSUME GenerationSound, NEW u \in Clients,
         callback' \in {callback, "poisoned"},
         inference'[u].text = inference[u].text, streamed'[u] = streamed[u],
         result'[u] = result[u] \/ result[u].error = "none"
  PROVE  Heard(u)'
<1>1. Heard(u)
  BY DEF GenerationSound
<1>2. QED
  BY <1>1 DEF Heard

\* The strengthening holds of every initial state.
THEOREM InitInv == Init => IInv
<1> SUFFICES ASSUME Init PROVE IInv
  OBVIOUS
<1> USE DEF Init, OwnedInit, ThreadsInit
<1>1. OwnerInv
  BY DEF OwnerInv, ProviderState
<1>2. ThreadTypes
  BY DEF ThreadTypes, Labels, Inferences, Idle
<1>3. CallInv
  BY DEF CallInv, Idle, NoCall
<1>4. AnswerInv
  BY DEF AnswerInv
<1>5. ReadyMeansLoaded
  BY DEF ReadyMeansLoaded, NoCall
<1>6. GenerationSound
  BY DEF GenerationSound, Heard, IsPrefix, Idle, NoCall
<1>7. QED
  BY <1>1, <1>2, <1>3, <1>4, <1>5, <1>6 DEF IInv

-----------------------------------------------------------------------------
(* The owner *)

\* The owner is at work only while every thread is outside.
LEMMA OwnerExcludes ==
  ASSUME IInv, Owner
  PROVE  /\ \A t \in Clients : pc[t] = "idle"
         /\ UNCHANGED threads
<1>1. CASE Wrap
  BY <1>1 DEF Wrap, Exclusive
<1>2. CASE BeginLoad
  BY <1>2 DEF BeginLoad, Exclusive
<1>3. CASE EndLoad
  BY <1>3 DEF EndLoad, IInv, OwnerInv
<1>4. CASE LoadPanics
  BY <1>4 DEF LoadPanics, IInv, OwnerInv
<1>5. CASE Remake
  BY <1>5 DEF Remake, IInv, OwnerInv
<1>6. CASE BeginUnload
  BY <1>6 DEF BeginUnload, Exclusive
<1>7. CASE EndUnload
  BY <1>7 DEF EndUnload, IInv, OwnerInv
<1>8. QED
  BY <1>1, <1>2, <1>3, <1>4, <1>5, <1>6, <1>7 DEF Owner

\* Whatever the owner does, a thread outside has nothing to lose by it.
LEMMA OwnerKeepsThreads ==
  ASSUME IInv, Owner, UNCHANGED reply
  PROVE  ThreadTypes' /\ CallInv' /\ AnswerInv' /\ GenerationSound'
<1>1. (\A t \in Clients : pc[t] = "idle") /\ UNCHANGED threads
  BY OwnerExcludes
<1>2. ThreadTypes'
  BY <1>1 DEF IInv, ThreadTypes, Labels, Inferences, threads
<1>3. CallInv'
  BY <1>1 DEF IInv, CallInv, NoCall, threads
<1>4. AnswerInv'
  BY <1>1 DEF AnswerInv, threads
<1>5. GenerationSound'
  BY <1>1 DEF IInv, GenerationSound, Heard, CallInv, IsPrefix, Idle, threads
<1>6. QED
  BY <1>2, <1>3, <1>4, <1>5

\* The provider and its model at each step of the owner
LEMMA OwnerSteps ==
  ASSUME IInv, Owner
  PROVE  OwnerInv' /\ ReadyMeansLoaded'
<1>0. (\A t \in Clients : pc'[t] = "idle" /\ call'[t] = NoCall)
  BY OwnerExcludes DEF IInv, CallInv, threads
<1> USE DEF IInv, Moved, Transition, ProviderState
<1>1. CASE Wrap
  BY <1>0, <1>1 DEF Wrap, Exclusive, OwnerInv, ReadyMeansLoaded, NoCall
<1>2. CASE BeginLoad
  BY <1>0, <1>2 DEF BeginLoad, Exclusive, OwnerInv, ReadyMeansLoaded, NoCall
<1>3. CASE EndLoad
  <2> USE <1>3 DEF EndLoad
  <2>1. CASE ModelLoads /\ Moved("loaded")
    <3>1. lifecycle' = IF wrapped THEN "Ready" ELSE lifecycle
      BY <2>1
    <3>2. kind \in {"llama", "stub"} =>
            /\ model' = LoadedConfig(config) /\ info' = config.model_name
            /\ kind = "llama" => backend'
      BY <2>1 DEF ModelLoads
    <3>3. kind \notin {"llama", "stub"} => UNCHANGED <<backend, model, info>>
      BY <2>1 DEF ModelLoads
    <3>4. OwnerInv'
      BY <1>0, <3>1 DEF OwnerInv
    <3>5. ReadyMeansLoaded'
      BY <1>0, <3>1, <3>2, <3>3, NothingLoaded DEF OwnerInv, ReadyMeansLoaded, NoCall
    <3>6. QED
      BY <3>4, <3>5
  <2>2. CASE ModelLoadFails /\ Moved("failed")
    BY <1>0, <2>2 DEF ModelLoadFails, OwnerInv, ReadyMeansLoaded, NoCall
  <2>3. QED
    BY <2>1, <2>2
<1>4. CASE LoadPanics
  BY <1>0, <1>4 DEF LoadPanics, OwnerInv, ReadyMeansLoaded, NoCall
<1>5. CASE Remake
  BY <1>0, <1>5 DEF Remake, NewModel, OwnerInv, ReadyMeansLoaded, NoCall
<1>6. CASE BeginUnload
  BY <1>0, <1>6 DEF BeginUnload, Exclusive, OwnerInv, ReadyMeansLoaded, NoCall
<1>7. CASE EndUnload
  BY <1>0, <1>7 DEF EndUnload, ModelUnloads, OwnerInv, ReadyMeansLoaded, NoCall
<1>8. QED
  BY <1>1, <1>2, <1>3, <1>4, <1>5, <1>6, <1>7 DEF Owner

-----------------------------------------------------------------------------
(* The threads *)

\* A step of one thread leaves ReadyMeansLoaded alone but for that thread.
LEMMA StillReady ==
  ASSUME IInv, NEW t \in Clients,
         UNCHANGED <<kind, config, wrapped, lifecycle, model, info, owner>>,
         backend => backend',
         \A u \in Clients \ {t} : call'[u] = call[u] /\ result'[u] = result[u],
         call'[t].provider = "local" => result'[t].error # "NotLoaded"
  PROVE  ReadyMeansLoaded'
BY DEF IInv, ReadyMeansLoaded

\* ExecuteCanned keeps the invariant.
LEMMA ExecuteCannedStep ==
  ASSUME IInv, NEW t \in Clients, ExecuteCanned(t)
  PROVE  IInv'
<1> USE LocalProviderAssumption DEF IInv, ExecuteCanned, Answers, owned
<1>1. OwnerInv'
  BY DEF OwnerInv
<1>2. ThreadTypes'
  BY DEF ThreadTypes, Labels, Inferences
<1>3. CallInv'
  BY DEF CallInv, ThreadTypes
<1>4. AnswerInv'
  BY DEF AnswerInv, ThreadTypes, CallInv
<1>5. ReadyMeansLoaded'
  BY DEF ReadyMeansLoaded, ThreadTypes, CallInv
<1>6. GenerationSound'
  <2>1. \A u \in Clients : Heard(u)'
    BY HeardKept DEF ThreadTypes, CallInv, NotAnswered
  <2>2. QED
    BY <2>1 DEF GenerationSound, ThreadTypes, CallInv, AnswerInv
<1>7. QED
  BY <1>1, <1>2, <1>3, <1>4, <1>5, <1>6

\* ExecuteLocal keeps the invariant.
LEMMA ExecuteLocalStep ==
  ASSUME IInv, NEW t \in Clients, ExecuteLocal(t)
  PROVE  IInv'
<1> USE LocalProviderAssumption DEF IInv, ExecuteLocal, Answers, owned
<1>1. OwnerInv'
  BY DEF OwnerInv
<1>2. ThreadTypes'
  BY DEF ThreadTypes, Labels, Inferences
<1>3. CallInv'
  BY DEF CallInv, ThreadTypes
<1>4. AnswerInv'
  BY DEF AnswerInv, ThreadTypes, CallInv
<1>5. ReadyMeansLoaded'
  <2>1. \A u \in Clients \ {t} : call'[u] = call[u] /\ result'[u] = result[u]
    BY DEF ThreadTypes
  <2>2. call'[t].provider = "local" => result'[t].error # "NotLoaded"
    BY NothingLoaded DEF ReadyMeansLoaded, ThreadTypes, CallInv
  <2>3. QED
    BY <2>1, <2>2, StillReady
<1>6. GenerationSound'
  <2>1. \A u \in Clients : Heard(u)'
    BY HeardKept DEF ThreadTypes, CallInv, NotAnswered
  <2>2. QED
    BY <2>1 DEF GenerationSound, ThreadTypes, CallInv, AnswerInv
<1>7. QED
  BY <1>1, <1>2, <1>3, <1>4, <1>5, <1>6

\* InferMock keeps the invariant.
LEMMA InferMockStep ==
  ASSUME IInv, NEW t \in Clients, InferMock(t), UNCHANGED reply
  PROVE  IInv'
<1> USE LocalProviderAssumption DEF IInv, InferMock, Answers, owned
<1>1. OwnerInv'
  BY DEF OwnerInv
<1>2. ThreadTypes'
  BY DEF ThreadTypes, Labels, Inferences
<1>3. CallInv'
  BY DEF CallInv, ThreadTypes
<1>4. AnswerInv'
  BY DEF AnswerInv, ThreadTypes, CallInv
<1>5. ReadyMeansLoaded'
  BY DEF ReadyMeansLoaded, ThreadTypes, CallInv
<1>6. GenerationSound'
  <2>1. \A u \in Clients : Heard(u)'
    BY HeardKept DEF ThreadTypes, CallInv, NotAnswered
  <2>2. QED
    BY <2>1 DEF GenerationSound, ThreadTypes, CallInv, AnswerInv
<1>7. QED
  BY <1>1, <1>2, <1>3, <1>4, <1>5, <1>6

\* InferStub keeps the invariant.
LEMMA InferStubStep ==
  ASSUME IInv, NEW t \in Clients, InferStub(t), UNCHANGED reply
  PROVE  IInv'
<1> USE LocalProviderAssumption DEF IInv, InferStub, Answers, owned
<1>1. OwnerInv'
  BY DEF OwnerInv
<1>2. ThreadTypes'
  BY DEF ThreadTypes, Labels, Inferences
<1>3. CallInv'
  BY DEF CallInv, ThreadTypes
<1>4. AnswerInv'
  BY DEF AnswerInv, ThreadTypes, CallInv
<1>5. ReadyMeansLoaded'
  <2>1. \A u \in Clients \ {t} : call'[u] = call[u] /\ result'[u] = result[u]
    BY DEF ThreadTypes
  <2>2. call'[t].provider = "local" => result'[t].error # "NotLoaded"
    BY NothingLoaded DEF ReadyMeansLoaded, ThreadTypes, CallInv
  <2>3. QED
    BY <2>1, <2>2, StillReady
<1>6. GenerationSound'
  <2>1. \A u \in Clients : Heard(u)'
    BY HeardKept DEF ThreadTypes, CallInv, NotAnswered
  <2>2. QED
    BY <2>1 DEF GenerationSound, ThreadTypes, CallInv, AnswerInv
<1>7. QED
  BY <1>1, <1>2, <1>3, <1>4, <1>5, <1>6

\* InferOther keeps the invariant.
LEMMA InferOtherStep ==
  ASSUME IInv, NEW t \in Clients, InferOther(t), UNCHANGED reply
  PROVE  IInv'
<1> USE LocalProviderAssumption DEF IInv, InferOther, Answers, owned
<1>1. OwnerInv'
  BY DEF OwnerInv
<1>2. ThreadTypes'
  BY DEF ThreadTypes, Labels, Inferences
<1>3. CallInv'
  BY DEF CallInv, ThreadTypes
<1>4. AnswerInv'
  BY DEF AnswerInv, ThreadTypes, CallInv
<1>5. ReadyMeansLoaded'
  <2>1. \A u \in Clients \ {t} : call'[u] = call[u] /\ result'[u] = result[u]
    BY DEF ThreadTypes
  <2>2. call'[t].provider = "local" => result'[t].error # "NotLoaded"
    BY NothingLoaded DEF ReadyMeansLoaded, ThreadTypes, CallInv
  <2>3. QED
    BY <2>1, <2>2, StillReady
<1>6. GenerationSound'
  <2>1. \A u \in Clients : Heard(u)'
    BY HeardKept DEF ThreadTypes, CallInv, NotAnswered
  <2>2. QED
    BY <2>1 DEF GenerationSound, ThreadTypes, CallInv, AnswerInv
<1>7. QED
  BY <1>1, <1>2, <1>3, <1>4, <1>5, <1>6

\* InferPanics keeps the invariant.
LEMMA InferPanicsStep ==
  ASSUME IInv, NEW t \in Clients, InferPanics(t), UNCHANGED reply
  PROVE  IInv'
<1> USE LocalProviderAssumption DEF IInv, InferPanics, Answers, owned
<1>1. OwnerInv'
  BY DEF OwnerInv
<1>2. ThreadTypes'
  BY DEF ThreadTypes, Labels, Inferences
<1>3. CallInv'
  BY DEF CallInv, ThreadTypes
<1>4. AnswerInv'
  BY DEF AnswerInv, ThreadTypes, CallInv
<1>5. ReadyMeansLoaded'
  BY DEF ReadyMeansLoaded, ThreadTypes, CallInv
<1>6. GenerationSound'
  <2>1. \A u \in Clients : Heard(u)'
    BY HeardKept DEF ThreadTypes, CallInv, NotAnswered
  <2>2. QED
    BY <2>1 DEF GenerationSound, ThreadTypes, CallInv, AnswerInv
<1>7. QED
  BY <1>1, <1>2, <1>3, <1>4, <1>5, <1>6

\* InferNotLoaded keeps the invariant.
LEMMA InferNotLoadedStep ==
  ASSUME IInv, NEW t \in Clients, InferNotLoaded(t), UNCHANGED reply
  PROVE  IInv'
<1> USE LocalProviderAssumption DEF IInv, InferNotLoaded, Answers, owned
<1>1. OwnerInv'
  BY DEF OwnerInv
<1>2. ThreadTypes'
  BY DEF ThreadTypes, Labels, Inferences
<1>3. CallInv'
  BY DEF CallInv, ThreadTypes
<1>4. AnswerInv'
  BY DEF AnswerInv, ThreadTypes, CallInv
<1>5. ReadyMeansLoaded'
  <2>1. \A u \in Clients \ {t} : call'[u] = call[u] /\ result'[u] = result[u]
    BY DEF ThreadTypes
  <2>2. call'[t].provider = "local" => result'[t].error # "NotLoaded"
    BY NothingLoaded DEF ReadyMeansLoaded, ThreadTypes, CallInv
  <2>3. QED
    BY <2>1, <2>2, StillReady
<1>6. GenerationSound'
  <2>1. \A u \in Clients : Heard(u)'
    BY HeardKept DEF ThreadTypes, CallInv, NotAnswered
  <2>2. QED
    BY <2>1 DEF GenerationSound, ThreadTypes, CallInv, AnswerInv
<1>7. QED
  BY <1>1, <1>2, <1>3, <1>4, <1>5, <1>6

\* InferFails keeps the invariant.
LEMMA InferFailsStep ==
  ASSUME IInv, NEW t \in Clients, InferFails(t), UNCHANGED reply
  PROVE  IInv'
<1> USE LocalProviderAssumption DEF IInv, InferFails, Answers, owned
<1>1. OwnerInv'
  BY DEF OwnerInv
<1>2. ThreadTypes'
  BY DEF ThreadTypes, Labels, Inferences
<1>3. CallInv'
  BY DEF CallInv, ThreadTypes
<1>4. AnswerInv'
  BY DEF AnswerInv, ThreadTypes, CallInv
<1>5. ReadyMeansLoaded'
  BY DEF ReadyMeansLoaded, ThreadTypes, CallInv
<1>6. GenerationSound'
  <2>1. \A u \in Clients : Heard(u)'
    BY HeardKept DEF ThreadTypes, CallInv, NotAnswered
  <2>2. QED
    BY <2>1 DEF GenerationSound, ThreadTypes, CallInv, AnswerInv
<1>7. QED
  BY <1>1, <1>2, <1>3, <1>4, <1>5, <1>6

\* InferPrompt keeps the invariant.
LEMMA InferPromptStep ==
  ASSUME IInv, NEW t \in Clients, InferPrompt(t), UNCHANGED reply
  PROVE  IInv'
<1> USE LocalProviderAssumption DEF IInv, InferPrompt, Answers, owned
<1>1. OwnerInv'
  BY DEF OwnerInv
<1>2. ThreadTypes'
  <2>1. PICK n \in PromptTokens \ {0} :
          /\ Fits(n, inference[t].max_tokens)
          /\ inference' = [inference EXCEPT ![t].tokens = n]
    OBVIOUS
  <2>2. inference'[t] = [inference[t] EXCEPT !.tokens = n]
    BY <2>1 DEF ThreadTypes
  <2>3. n \in Nat
    BY <2>1
  <2>4. inference'[t] \in Inferences(inference'[t].prompt)
    BY <2>2, <2>3 DEF ThreadTypes, Inferences
  <2>5. QED
    BY <2>1, <2>4 DEF ThreadTypes, Labels
<1>3. CallInv'
  BY DEF CallInv, ThreadTypes
<1>4. AnswerInv'
  BY DEF AnswerInv, ThreadTypes, CallInv
<1>5. ReadyMeansLoaded'
  BY DEF ReadyMeansLoaded, ThreadTypes, CallInv
<1>6. GenerationSound'
  <2>1. PICK n \in PromptTokens \ {0} :
          /\ Fits(n, inference[t].max_tokens)
          /\ inference' = [inference EXCEPT ![t].tokens = n]
    OBVIOUS
  <2>2. inference'[t] = [inference[t] EXCEPT !.tokens = n]
    BY <2>1 DEF ThreadTypes
  <2>3. /\ inference'[t].tokens = n /\ inference'[t].text = inference[t].text
        /\ inference'[t].max_tokens = inference[t].max_tokens
        /\ inference'[t].streams = inference[t].streams
        /\ inference[t].max_tokens \in Nat
    BY <2>2 DEF ThreadTypes, Inferences
  <2>4. \A u \in Clients \ {t} : inference'[u] = inference[u] /\ pc'[u] = pc[u]
    BY <2>1 DEF ThreadTypes
  <2>5. inference[t].text = << >>
    BY DEF CallInv
  <2>6. n + inference[t].max_tokens <= model.context
    BY <2>1 DEF Fits
  <2>7. \A u \in Clients : Heard(u)'
    BY <2>3, <2>4, HeardKept
  <2>8. QED
    BY <2>3, <2>4, <2>5, <2>6, <2>7 DEF GenerationSound, ThreadTypes
<1>7. QED
  BY <1>1, <1>2, <1>3, <1>4, <1>5, <1>6

\* GenerateEnds keeps the invariant.
LEMMA GenerateEndsStep ==
  ASSUME IInv, NEW t \in Clients, GenerateEnds(t), UNCHANGED reply
  PROVE  IInv'
<1> USE LocalProviderAssumption DEF IInv, GenerateEnds, Answers, owned
<1>1. OwnerInv'
  BY DEF OwnerInv
<1>2. ThreadTypes'
  BY DEF ThreadTypes, Labels, Inferences
<1>3. CallInv'
  BY DEF CallInv, ThreadTypes
<1>4. AnswerInv'
  BY DEF AnswerInv, ThreadTypes, CallInv
<1>5. ReadyMeansLoaded'
  BY DEF ReadyMeansLoaded, ThreadTypes, CallInv
<1>6. GenerationSound'
  <2>1. \A u \in Clients : Heard(u)'
    BY HeardKept DEF ThreadTypes, CallInv, NotAnswered
  <2>2. QED
    BY <2>1 DEF GenerationSound, ThreadTypes, CallInv, AnswerInv
<1>7. QED
  BY <1>1, <1>2, <1>3, <1>4, <1>5, <1>6

\* GenerateFails keeps the invariant.
LEMMA GenerateFailsStep ==
  ASSUME IInv, NEW t \in Clients, GenerateFails(t), UNCHANGED reply
  PROVE  IInv'
<1> USE LocalProviderAssumption DEF IInv, MoreToGenerate, GenerateFails, Answers, owned
<1>1. OwnerInv'
  BY DEF OwnerInv
<1>2. ThreadTypes'
  BY DEF ThreadTypes, Labels, Inferences
<1>3. CallInv'
  BY DEF CallInv, ThreadTypes
<1>4. AnswerInv'
  BY DEF AnswerInv, ThreadTypes, CallInv
<1>5. ReadyMeansLoaded'
  BY DEF ReadyMeansLoaded, ThreadTypes, CallInv
<1>6. GenerationSound'
  <2>1. \A u \in Clients : Heard(u)'
    BY HeardKept DEF ThreadTypes, CallInv, NotAnswered
  <2>2. QED
    BY <2>1 DEF GenerationSound, ThreadTypes, CallInv, AnswerInv
<1>7. QED
  BY <1>1, <1>2, <1>3, <1>4, <1>5, <1>6

\* GenerateToken keeps the invariant.
LEMMA GenerateTokenStep ==
  ASSUME IInv, NEW t \in Clients, GenerateToken(t), UNCHANGED reply
  PROVE  IInv'
<1> USE LocalProviderAssumption DEF IInv, MoreToGenerate, GenerateToken, Answers, owned
<1>0. PICK token \in Tokens :
        /\ streamed' = Streamed(t, token)
        /\ inference' = [inference EXCEPT ![t].text = Append(@, token)]
  OBVIOUS
<1>a. /\ inference'[t] = [inference[t] EXCEPT !.text = Append(inference[t].text, token)]
      /\ \A u \in Clients \ {t} : inference'[u] = inference[u]
  BY <1>0 DEF ThreadTypes
<1>b. /\ inference'[t].text = Append(inference[t].text, token)
      /\ inference'[t].max_tokens = inference[t].max_tokens
      /\ inference'[t].tokens = inference[t].tokens
      /\ inference'[t].streams = inference[t].streams
      /\ inference[t].text \in Seq(Tokens) /\ inference[t].max_tokens \in Nat
  BY <1>a DEF ThreadTypes, Inferences
<1>c. /\ \A u \in Clients \ {t} : streamed'[u] = streamed[u]
      /\ streamed'[t] = IF Streams(t) THEN Append(streamed[t], token) ELSE streamed[t]
      /\ streamed' \in [Clients -> Seq(Tokens)]
  BY <1>0 DEF ThreadTypes, Streamed
<1>d. /\ \A u \in Clients \ {t} : pc'[u] = pc[u] /\ result'[u] = result[u]
      /\ pc'[t] \in {"generate", "inferred"} /\ pc[t] = "generate"
      /\ result'[t] = result[t] \/ result'[t].error = "ModelError"
      /\ pc'[t] = "generate" => result'[t] = result[t]
      /\ result[t] = NotAnswered /\ NotAnswered.error = "none"
  BY DEF CallInv, NotAnswered, ThreadTypes
<1>1. OwnerInv'
  BY DEF OwnerInv
<1>2. ThreadTypes'
  <2>0. Append(inference[t].text, token) \in Seq(Tokens)
    BY <1>b
  <2>1. inference'[t] \in Inferences(inference'[t].prompt)
    BY <1>a, <2>0 DEF ThreadTypes, Inferences
  <2>2. DOMAIN inference' = Clients
    BY <1>0 DEF ThreadTypes
  <2>3. QED
    BY <1>a, <1>c, <2>1, <2>2 DEF ThreadTypes, Labels
<1>3. CallInv'
  BY <1>a, <1>c, <1>d DEF CallInv
<1>4. AnswerInv'
  BY DEF AnswerInv, ThreadTypes, CallInv
<1>5. ReadyMeansLoaded'
  <2>1. \A u \in Clients \ {t} : call'[u] = call[u] /\ result'[u] = result[u]
    BY DEF ThreadTypes
  <2>2. call'[t].provider = "local" => result'[t].error # "NotLoaded"
    BY NothingLoaded DEF ReadyMeansLoaded, ThreadTypes, CallInv
  <2>3. QED
    BY <2>1, <2>2, StillReady
<1>6. GenerationSound'
  <2>1. /\ Len(inference'[t].text) = Len(inference[t].text) + 1
        /\ Len(inference'[t].text) <= inference'[t].max_tokens
    BY <1>b
  <2>2. IsPrefix(streamed[t], inference[t].text) /\ streamed[t] \in Seq(Tokens)
    BY <1>d DEF GenerationSound, Heard, ThreadTypes
  <2>3. IsPrefix(streamed'[t], inference'[t].text)
    <3>1. CASE Streams(t)
      <4>1. streamed'[t] = inference'[t].text
        BY <1>b, <1>c, <3>1 DEF GenerationSound, Streams
      <4>2. QED
        BY <4>1, <1>b DEF IsPrefix
    <3>2. CASE ~Streams(t)
      BY <1>b, <1>c, <2>2, <3>2 DEF IsPrefix
    <3>3. QED
      BY <3>1, <3>2
  <2>4. inference'[t].streams /\ callback' = "sound" => streamed'[t] = inference'[t].text
    BY <1>b, <1>c DEF GenerationSound, Streams
  <2>5. QED
    <3>1. SUFFICES ASSUME NEW u \in Clients PROVE GenerationSound!(u)'
      BY DEF GenerationSound
    <3>2. CASE u = t
      BY <1>b, <1>d, <2>1, <2>3, <2>4, <3>2 DEF GenerationSound, Heard
    <3>3. CASE u # t
      <4>1. Heard(u)'
        BY <1>a, <1>c, <1>d, <3>3, HeardKept
      <4>2. QED
        BY <1>a, <1>c, <1>d, <3>3, <4>1 DEF GenerationSound, Heard
    <3>4. QED
      BY <3>2, <3>3
<1>7. QED
  BY <1>1, <1>2, <1>3, <1>4, <1>5, <1>6

\* CallbackPanics keeps the invariant.
LEMMA CallbackPanicsStep ==
  ASSUME IInv, NEW t \in Clients, CallbackPanics(t), UNCHANGED reply
  PROVE  IInv'
<1> USE LocalProviderAssumption DEF IInv, MoreToGenerate, CallbackPanics, Answers, owned
<1>0. PICK token \in Tokens : streamed' = Streamed(t, token)
  OBVIOUS
<1>a. /\ streamed' \in [Clients -> Seq(Tokens)]
      /\ streamed'[t] = Append(streamed[t], token)
      /\ \A u \in Clients \ {t} : streamed'[u] = streamed[u]
  BY <1>0 DEF ThreadTypes, Streamed, Streams
<1>1. OwnerInv'
  BY DEF OwnerInv
<1>2. ThreadTypes'
  BY <1>a DEF ThreadTypes, Labels, Inferences
<1>3. CallInv'
  BY <1>a DEF CallInv, ThreadTypes
<1>4. AnswerInv'
  BY DEF AnswerInv, ThreadTypes, CallInv
<1>5. ReadyMeansLoaded'
  BY DEF ReadyMeansLoaded, ThreadTypes, CallInv
<1>6. GenerationSound'
  <2>1. \A u \in Clients \ {t} : Heard(u)'
    BY <1>a, HeardKept DEF ThreadTypes
  <2>2. Heard(t)'
    BY <1>a DEF Heard, GenerationSound, Streams, ThreadTypes
  <2>3. QED
    BY <2>1, <2>2 DEF GenerationSound, ThreadTypes, CallInv, AnswerInv
<1>7. QED
  BY <1>1, <1>2, <1>3, <1>4, <1>5, <1>6

\* Dismiss keeps the invariant.
LEMMA DismissStep ==
  ASSUME IInv, NEW t \in Clients, Dismiss(t)
  PROVE  IInv'
<1> USE LocalProviderAssumption DEF IInv, Dismiss, Answers, owned
<1>1. OwnerInv'
  BY DEF OwnerInv
<1>2. ThreadTypes'
  BY DEF ThreadTypes, Labels, Inferences, Idle
<1>3. CallInv'
  BY DEF CallInv, ThreadTypes, NoCall, Idle
<1>4. AnswerInv'
  BY DEF AnswerInv, ThreadTypes, CallInv
<1>5. ReadyMeansLoaded'
  <2>1. \A u \in Clients \ {t} : call'[u] = call[u] /\ result'[u] = result[u]
    BY DEF ThreadTypes
  <2>2. call'[t].provider = "local" => result'[t].error # "NotLoaded"
    BY NothingLoaded DEF ReadyMeansLoaded, ThreadTypes, CallInv, NoCall
  <2>3. QED
    BY <2>1, <2>2, StillReady
<1>6. GenerationSound'
  <2>1. \A u \in Clients \ {t} : Heard(u)'
    BY HeardKept DEF ThreadTypes
  <2>2. Heard(t)'
    BY DEF Heard, ThreadTypes, IsPrefix, Idle
  <2>3. QED
    BY <2>1, <2>2 DEF GenerationSound, ThreadTypes, CallInv, AnswerInv, NoCall, Idle
<1>7. QED
  BY <1>1, <1>2, <1>3, <1>4, <1>5, <1>6

\* Return keeps the invariant.
LEMMA ReturnStep ==
  ASSUME IInv, NEW t \in Clients, Return(t)
  PROVE  IInv'
<1> USE LocalProviderAssumption DEF IInv, Return, Answers, owned
<1>1. OwnerInv'
  BY DEF OwnerInv
<1>2. ThreadTypes'
  BY DEF ThreadTypes, Labels, Inferences
<1>3. CallInv'
  BY DEF CallInv, ThreadTypes
<1>4. AnswerInv'
  BY DEF AnswerInv, ThreadTypes, CallInv
<1>5. ReadyMeansLoaded'
  BY DEF ReadyMeansLoaded, ThreadTypes, CallInv
<1>6. GenerationSound'
  <2>1. call[t].via = "bare" => reply'[t] = Reply(result[t].error, NoResponse, result[t].text, {})
    BY Zenon DEF ThreadTypes, ReplyTo
  <2>2. call[t].via = "bare" => reply'[t].raw = result[t].text
    BY <2>1 DEF Reply
  <2>3. \A u \in Clients \ {t} : reply'[u] = reply[u] /\ pc'[u] = pc[u]
    BY DEF ThreadTypes
  <2>4. \A u \in Clients : Heard(u)'
    BY HeardKept
  <2>5. QED
    BY <2>2, <2>3, <2>4 DEF GenerationSound, ThreadTypes, AnswerInv
<1>7. QED
  BY <1>1, <1>2, <1>3, <1>4, <1>5, <1>6

\* What the calls a thread may make have in common
LEMMA DirectCalls ==
  ASSUME NEW t \in Clients, NEW via, NEW provider, NEW parsers,
         NEW streams \in SUBSET BOOLEAN, NEW c \in Direct(t, via, provider, parsers, streams)
  PROVE  /\ c.via = via /\ c.provider = provider
         /\ c.request \in Requests[t] /\ c.streams \in BOOLEAN
         /\ c.parser \in parsers /\ c.own = {} /\ c.source = {}
<1>1. PICK r \in Requests[t], p \in parsers, s \in streams :
        c = [via |-> via, provider |-> provider, request |-> r, parser |-> p,
             own |-> {}, source |-> {}, streams |-> s]
  BY DEF Direct
<1>2. QED
  BY <1>1

(* The orchestrator's calls ... *)
LEMMA OrchestratedCalls ==
  ASSUME NEW t \in Clients, NEW provider, NEW c \in Orchestrated(t, provider)
  PROVE  /\ c.via = "orchestrator" /\ c.provider = provider
         /\ c.request \in Requests[t] /\ c.streams \in BOOLEAN
         /\ c.parser \in Parsers[t]
         /\ c.own \in Option(Contexts[t])
         /\ c.source \in Option(Contexts[t]) \cup {NullContextSource}
<1>1. PICK r \in Requests[t], p \in Parsers[t], o \in Option(Contexts[t]),
           s \in Option(Contexts[t]) \cup {NullContextSource} :
        c = [via |-> "orchestrator", provider |-> provider, request |-> r, parser |-> p,
             own |-> o, source |-> s, streams |-> FALSE]
  BY DEF Orchestrated
<1>2. QED
  BY <1>1

(* ... all calls of a provider ... *)
LEMMA CallsOfProvider ==
  ASSUME NEW t \in Clients, NEW provider \in {"mock", "json", "local"},
         NEW c \in ProviderCalls(t, provider)
  PROVE  /\ c.provider = provider /\ c.via # "bare"
         /\ c.request \in Requests[t] /\ c.streams \in BOOLEAN
         /\ CallTyped(t, c)
<1>0. /\ Parsers[t] \subseteq {"default", "build_summary", "explain_rust"}
      /\ {} \in Option(Contexts[t])
  BY OrchestratorAssumption DEF Option
<1>1. CASE c \in Orchestrated(t, provider)
  <2>1. /\ c.via = "orchestrator" /\ c.provider = provider
        /\ c.request \in Requests[t] /\ c.streams \in BOOLEAN
        /\ c.parser \in Parsers[t]
        /\ c.own \in Option(Contexts[t])
        /\ c.source \in Option(Contexts[t]) \cup {NullContextSource}
    BY <1>1, OrchestratedCalls, Zenon
  <2>2. QED
    BY <1>0, <2>1 DEF CallTyped
<1>2. CASE c \in Direct(t, "extension", provider, {"default"}, {FALSE})
  <2>1. {FALSE} \in SUBSET BOOLEAN
    OBVIOUS
  <2>2. /\ c.via = "extension" /\ c.provider = provider
        /\ c.request \in Requests[t] /\ c.streams \in BOOLEAN
        /\ c.parser \in {"default"} /\ c.own = {} /\ c.source = {}
    BY <1>2, <2>1, DirectCalls, Zenon
  <2>3. QED
    BY <1>0, <2>2 DEF CallTyped
<1>3. QED
  BY <1>1, <1>2 DEF ProviderCalls

(* ... and those of a bare model. *)
LEMMA CallsOfModel ==
  ASSUME NEW t \in Clients, NEW c \in ModelCalls(t)
  PROVE  /\ c.provider = "model"
         /\ c.request \in Requests[t] /\ c.streams \in BOOLEAN
         /\ CallTyped(t, c)
<1>0. /\ Parsers[t] \subseteq {"default", "build_summary", "explain_rust"}
      /\ {} \in Option(Contexts[t])
      /\ {FALSE} \in SUBSET BOOLEAN /\ BOOLEAN \in SUBSET BOOLEAN
  BY OrchestratorAssumption DEF Option
<1>1. CASE c \in Direct(t, "pipeline", "model", Parsers[t], {FALSE})
  <2>1. /\ c.via = "pipeline" /\ c.provider = "model"
        /\ c.request \in Requests[t] /\ c.streams \in BOOLEAN
        /\ c.parser \in Parsers[t] /\ c.own = {} /\ c.source = {}
    BY <1>0, <1>1, DirectCalls, Zenon
  <2>2. QED
    BY <1>0, <2>1 DEF CallTyped
<1>2. CASE c \in Direct(t, "bare", "model", {"default"}, BOOLEAN)
  <2>1. /\ c.via = "bare" /\ c.provider = "model"
        /\ c.request \in Requests[t] /\ c.streams \in BOOLEAN
        /\ c.parser \in {"default"} /\ c.own = {} /\ c.source = {}
    BY <1>0, <1>2, DirectCalls, Zenon
  <2>2. QED
    BY <1>0, <2>1 DEF CallTyped
<1>3. QED
  BY <1>1, <1>2 DEF ModelCalls

\* What the call a thread begins is
LEMMA CallsMade ==
  ASSUME NEW t \in Clients, Ask(t)
  PROVE  \E c :
           /\ Calls(t, c)
           /\ c.request \in Requests[t] /\ c.streams \in BOOLEAN
           /\ c.provider = "local" => wrapped
           /\ c.via = "bare" => c.provider = "model"
           /\ CallTyped(t, c)
<1>1. CASE \E p \in Providers[t] : \E c \in ProviderCalls(t, p) : Calls(t, c)
  <2>0. PICK p \in Providers[t] : \E c \in ProviderCalls(t, p) : Calls(t, c)
    BY <1>1
  <2>1. PICK c \in ProviderCalls(t, p) : Calls(t, c)
    BY <2>0
  <2>2. p \in {"mock", "json"}
    BY OrchestratorAssumption
  <2>3. /\ c.provider = p /\ c.via # "bare"
        /\ c.request \in Requests[t] /\ c.streams \in BOOLEAN
        /\ CallTyped(t, c)
    BY <2>2, CallsOfProvider
  <2>4. QED
    BY <2>1, <2>2, <2>3
<1>2. CASE wrapped /\ \E c \in ProviderCalls(t, "local") : Calls(t, c)
  <2>1. PICK c \in ProviderCalls(t, "local") : Calls(t, c)
    BY <1>2
  <2>2. /\ c.provider = "local" /\ c.via # "bare"
        /\ c.request \in Requests[t] /\ c.streams \in BOOLEAN
        /\ CallTyped(t, c)
    BY CallsOfProvider
  <2>3. QED
    BY <1>2, <2>1, <2>2
<1>3. CASE ~wrapped /\ \E c \in ModelCalls(t) : Calls(t, c)
  <2>1. PICK c \in ModelCalls(t) : Calls(t, c)
    BY <1>3
  <2>2. /\ c.provider = "model"
        /\ c.request \in Requests[t] /\ c.streams \in BOOLEAN
        /\ CallTyped(t, c)
    BY CallsOfModel
  <2>3. QED
    BY <2>1, <2>2
<1>4. QED
  BY <1>1, <1>2, <1>3 DEF Ask

\* Ask keeps the invariant.
LEMMA AskStep ==
  ASSUME IInv, NEW t \in Clients, Ask(t)
  PROVE  IInv'
<1> USE LocalProviderAssumption DEF IInv, owned
<1>1. PICK c :
        /\ Calls(t, c)
        /\ c.request \in Requests[t] /\ c.streams \in BOOLEAN
        /\ c.provider = "local" => wrapped
        /\ c.via = "bare" => c.provider = "model"
        /\ CallTyped(t, c)
  BY CallsMade
<1>2. /\ pc[t] = "idle" /\ owner = "idle"
      /\ UNCHANGED <<callback, streamed, result, reply>> /\ UNCHANGED owned
  BY DEF Ask
<1>3. /\ c.request.max_tokens \in Nat /\ c.streams \in BOOLEAN
      /\ c.provider \in {"mock", "json", "local", "model"}
      /\ c.provider = "local" => wrapped
      /\ c.via = "bare" => c.provider = "model"
  BY <1>1, OrchestratorAssumption DEF IsRequest, CallTyped
<1>4. /\ call'[t] = c /\ inference'[t] = Begun(c)
      /\ pc'[t] = IF c.provider = "model" THEN "infer" ELSE "execute"
      /\ \A u \in Clients \ {t} :
           call'[u] = call[u] /\ inference'[u] = inference[u] /\ pc'[u] = pc[u]
  BY <1>1 DEF ThreadTypes, Calls
<1>5. /\ Begun(c) \in Inferences(Begun(c).prompt)
      /\ Begun(c).text = << >>
  BY <1>3 DEF Begun, Inferences
<1>6. OwnerInv'
  BY <1>2, <1>4 DEF OwnerInv
<1>7. ThreadTypes'
  BY <1>1, <1>2, <1>4, <1>5 DEF ThreadTypes, Labels, Calls
<1>8. CallInv'
  BY <1>2, <1>3, <1>4, <1>5 DEF CallInv
<1>9. AnswerInv'
  BY <1>2, <1>4 DEF AnswerInv
<1>10. ReadyMeansLoaded'
  BY <1>2, <1>4, StillReady DEF CallInv, NotAnswered
<1>11. GenerationSound'
  <2>1. \A u \in Clients : Heard(u)'
    BY <1>2, <1>4, <1>5, HeardKept DEF CallInv
  <2>2. QED
    BY <1>2, <1>4, <1>5, <2>1 DEF GenerationSound, CallInv
<1>12. QED
  BY <1>6, <1>7, <1>8, <1>9, <1>10, <1>11

-----------------------------------------------------------------------------
(* The whole *)

\* A thread inside the model keeps the invariant.
LEMMA InferStep ==
  ASSUME IInv, NEW t \in Clients, Infer(t), UNCHANGED reply
  PROVE  IInv'
BY InferMockStep, InferStubStep, InferOtherStep, InferPanicsStep, InferNotLoadedStep,
   InferFailsStep, InferPromptStep, GenerateEndsStep, GenerateFailsStep,
   GenerateTokenStep, CallbackPanicsStep
   DEF Infer

\* So does a step that changes nothing.
LEMMA StutterStep ==
  ASSUME IInv, UNCHANGED vars
  PROVE  IInv'
<1> USE DEF IInv, vars
<1>1. OwnerInv'
  BY DEF OwnerInv
<1>2. ThreadTypes'
  BY DEF ThreadTypes
<1>3. CallInv'
  BY DEF CallInv
<1>4. AnswerInv'
  BY DEF AnswerInv
<1>5. ReadyMeansLoaded'
  BY DEF ReadyMeansLoaded
<1>6. GenerationSound'
  <2>1. \A u \in Clients : Heard(u)'
    BY HeardKept
  <2>2. QED
    BY <2>1 DEF GenerationSound
<1>7. QED
  BY <1>1, <1>2, <1>3, <1>4, <1>5, <1>6

\* Every step of the owner and of every thread keeps the invariant.
THEOREM StepInv == IInv /\ [Next]_vars => IInv'
<1> SUFFICES ASSUME IInv, [Next]_vars PROVE IInv'
  OBVIOUS
<1>1. CASE Owner /\ UNCHANGED reply
  BY <1>1, OwnerKeepsThreads, OwnerSteps DEF IInv
<1>2. ASSUME NEW t \in Clients, Ask(t) PROVE IInv'
  BY <1>2, AskStep
<1>3. ASSUME NEW t \in Clients, Step(t) PROVE IInv'
  BY <1>3, ExecuteCannedStep, ExecuteLocalStep, InferStep, ReturnStep DEF Step
<1>4. ASSUME NEW t \in Clients, Dismiss(t) PROVE IInv'
  BY <1>4, DismissStep
<1>5. CASE UNCHANGED vars
  BY <1>5, StutterStep
<1>6. QED
  BY <1>1, <1>2, <1>3, <1>4, <1>5 DEF Next

\* The strengthening holds throughout.
THEOREM Invariance == Spec => []IInv
BY InitInv, StepInv, PTL DEF Spec

\* Whatever the owner and the threads do, no call of the owner leaves the
\* provider in Loading or Unloading, a provider that says Ready has its model
\* loaded, and no request that got through it finds the model unloaded
\* (local_provider.rs, lifecycle.rs).
THEOREM ReadyMeansLoadedAlways == Spec => []ReadyMeansLoaded
<1>1. IInv => ReadyMeansLoaded
  BY DEF IInv
<1>2. QED
  BY <1>1, Invariance, PTL

\* No generation runs past the context window or the request's limit, and
\* the callback sees the text from its beginning and without a gap
\* (llama-cpp/src/lib.rs), for any number of threads in the model at once.
THEOREM GenerationSoundAlways == Spec => []GenerationSound
<1>1. IInv => GenerationSound
  BY DEF IInv
<1>2. QED
  BY <1>1, Invariance, PTL

-----------------------------------------------------------------------------
(* Texts *)

\* A sequence is one of its own values.
LEMMA SelfTyped ==
  ASSUME NEW S, NEW text \in Seq(S)
  PROVE  text \in Seq({text[i] : i \in DOMAIN text})
<1> DEFINE R == {text[i] : i \in DOMAIN text}
           e(i) == text[i]
<1>1. Len(text) \in Nat /\ DOMAIN text = 1 .. Len(text) /\ text = [i \in 1 .. Len(text) |-> text[i]]
  BY LenProperties
<1>2. \A i \in 1 .. Len(text) : e(i) \in R
  BY <1>1
<1> HIDE DEF R
<1>3. [i \in 1 .. Len(text) |-> e(i)] \in Seq(R)
  BY <1>1, <1>2, IsASeq
<1>4. QED
  BY <1>1, <1>3 DEF R

\* A sequence of pieces is a text.
LEMMA MakesText ==
  ASSUME NEW S, NEW text \in Seq(S), \A i \in DOMAIN text : IsPiece(text[i])
  PROVE  IsText(text)
BY SelfTyped DEF IsText

\* The empty text is a text ...
LEMMA NoText == IsText(<< >>)
<1>1. << >> \in Seq({}) /\ DOMAIN << >> = {}
  BY EmptySeq
<1>2. QED
  BY <1>1, MakesText

\* ... as is one piece ...
LEMMA OnePiece ==
  ASSUME NEW piece, IsPiece(piece)
  PROVE  IsText(<<piece>>)
<1>1. <<piece>> \in Seq({piece}) /\ DOMAIN <<piece>> = {1} /\ <<piece>>[1] = piece
  OBVIOUS
<1>2. QED
  BY <1>1, MakesText

\* ... and one text after another, which begins with the first.
LEMMA TextConcat ==
  ASSUME NEW a, NEW b, IsText(a), IsText(b)
  PROVE  IsText(a \o b) /\ \A i \in 1 .. Len(a) : (a \o b)[i] = a[i]
<1> DEFINE A == {a[i] : i \in DOMAIN a}
           B == {b[i] : i \in DOMAIN b}
           S == A \cup B
<1>1. a \in Seq(A) /\ b \in Seq(B)
  BY DEF IsText
<1> HIDE DEF A, B
<1>2. a \in Seq(S) /\ b \in Seq(S)
  BY <1>1, SeqMonotonic
<1> HIDE DEF S
<1>3. /\ a \o b \in Seq(S) /\ Len(a \o b) = Len(a) + Len(b)
      /\ \A i \in 1 .. Len(a) + Len(b) :
           (a \o b)[i] = IF i <= Len(a) THEN a[i] ELSE b[i - Len(a)]
  BY <1>2, ConcatProperties
<1>4. /\ Len(a) \in Nat /\ Len(b) \in Nat
      /\ DOMAIN a = 1 .. Len(a) /\ DOMAIN b = 1 .. Len(b)
      /\ DOMAIN (a \o b) = 1 .. Len(a) + Len(b)
  BY <1>2, <1>3, LenProperties
<1>5. \A i \in DOMAIN (a \o b) : IsPiece((a \o b)[i])
  <2> SUFFICES ASSUME NEW i \in 1 .. Len(a) + Len(b) PROVE IsPiece((a \o b)[i])
    BY <1>4
  <2>1. CASE i <= Len(a)
    BY <1>3, <1>4, <2>1 DEF IsText
  <2>2. CASE ~(i <= Len(a))
    <3>1. i - Len(a) \in DOMAIN b
      BY <1>4, <2>2
    <3>2. QED
      BY <1>3, <2>2, <3>1 DEF IsText
  <2>3. QED
    BY <2>1, <2>2
<1>6. \A i \in 1 .. Len(a) : (a \o b)[i] = a[i]
  BY <1>3, <1>4
<1>7. IsText(a \o b)
  <2> DEFINE text == a \o b
  <2>1. text \in Seq(S) /\ \A i \in DOMAIN text : IsPiece(text[i])
    BY <1>3, <1>5
  <2> HIDE DEF text
  <2>2. IsText(text)
    BY <2>1, MakesText
  <2>3. QED
    BY <2>2 DEF text
<1>8. QED
  BY <1>6, <1>7

\* What a model generates is a text.
LEMMA TokensText ==
  ASSUME NEW text \in Seq(Tokens)
  PROVE  IsText(text)
<1>1. \A token \in Tokens : IsPiece(token)
  <2> SUFFICES ASSUME NEW token \in Tokens PROVE IsPiece(token)
    OBVIOUS
  <2>1. IsText(<<token>>)
    BY OrchestratorAssumption
  <2>2. 1 \in DOMAIN <<token>> /\ <<token>>[1] = token
    OBVIOUS
  <2>3. QED
    BY <2>1, <2>2 DEF IsText
<1>2. \A i \in DOMAIN text : text[i] \in Tokens
  OBVIOUS
<1>3. QED
  BY <1>1, <1>2, MakesText

\* What the program writes itself is text.
LEMMA WordPiece == IsPiece(Word) /\ IsText(<<Word>>) /\ \A h : IsPiece(HashLine(h))
<1>1. IsPiece(Word) /\ \A h : IsPiece(HashLine(h))
  BY DEF IsPiece, Word, HashLine
<1>2. QED
  BY <1>1, OnePiece

\* What follows a text leaves its second line where it is.
LEMMA SecondLine ==
  ASSUME NEW a, NEW b, IsText(a), IsText(b), 2 \in 1 .. Len(a)
  PROVE  IsText(a \o b) /\ (a \o b)[2] = a[2] /\ 2 \in 1 .. Len(a \o b)
<1> DEFINE S == {a[i] : i \in DOMAIN a} \cup {b[i] : i \in DOMAIN b}
<1>1. a \in Seq(S) /\ b \in Seq(S)
  BY SeqMonotonic DEF IsText
<1> HIDE DEF S
<1>2. Len(a \o b) = Len(a) + Len(b) /\ Len(a) \in Nat /\ Len(b) \in Nat
  BY <1>1, ConcatProperties, LenProperties
<1>3. QED
  BY <1>2, TextConcat

\* The prompt of a request in its context has the context's hash in its
\* second line.
LEMMA AssembledText ==
  ASSUME NEW context, IsContext(context), NEW request, IsRequest(request)
  PROVE  /\ IsText(Assemble(context, request))
         /\ Assemble(context, request)[2] = HashLine(context.hash)
<1> DEFINE head == << Word, HashLine(context.hash) >>
           changes == [i \in DOMAIN context.recent_changes |-> Word]
           question == IF request.capability = "ExplainRust" THEN request.question ELSE << Word >>
<1>1. IsText(head) /\ Len(head) = 2 /\ head[2] = HashLine(context.hash)
  <2>1. /\ head \in Seq({Word, HashLine(context.hash)})
        /\ DOMAIN head = {1, 2} /\ Len(head) = 2
        /\ head[1] = Word /\ head[2] = HashLine(context.hash)
    OBVIOUS
  <2> HIDE DEF head
  <2>2. QED
    BY <2>1, WordPiece, MakesText
<1>2. IsText(changes)
  <2> DEFINE S == {context.recent_changes[i] : i \in DOMAIN context.recent_changes}
             n == Len(context.recent_changes)
  <2>1. context.recent_changes \in Seq(S)
    BY DEF IsContext
  <2> HIDE DEF S
  <2>2. n \in Nat /\ DOMAIN context.recent_changes = 1 .. n
    BY <2>1, LenProperties
  <2> HIDE DEF n
  <2>3. changes \in Seq({Word})
    BY <2>2
  <2>4. \A i \in DOMAIN changes : changes[i] = Word
    OBVIOUS
  <2> HIDE DEF changes
  <2>5. QED
    BY <2>3, <2>4, WordPiece, MakesText
<1>3. IsText(question) /\ IsText(request.data) /\ IsText(<<Word>>)
  BY WordPiece DEF IsRequest
<1> HIDE DEF head, changes, question
<1> DEFINE upto == head \o changes
<1>4. IsText(upto) /\ upto[2] = head[2] /\ 2 \in 1 .. Len(upto)
  BY <1>1, <1>2, SecondLine
<1> HIDE DEF upto
<1>5. IsText(upto \o question) /\ (upto \o question)[2] = head[2] /\ 2 \in 1 .. Len(upto \o question)
  BY <1>3, <1>4, SecondLine
<1> DEFINE asked == upto \o question
<1>6. IsText(asked \o request.data) /\ (asked \o request.data)[2] = head[2] /\ 2 \in 1 .. Len(asked \o request.data)
  <2> HIDE DEF asked
  <2>1. QED
    BY <1>3, <1>5, SecondLine DEF asked
<1> DEFINE data == asked \o request.data
<1>7. IsText(data \o <<Word>>) /\ (data \o <<Word>>)[2] = head[2]
  <2> HIDE DEF data
  <2>1. QED
    BY <1>3, <1>6, SecondLine DEF data
<1>8. Assemble(context, request) = data \o <<Word>>
  BY DEF Assemble, data, asked, upto, head, changes, question
<1>9. QED
  BY <1>1, <1>7, <1>8

-----------------------------------------------------------------------------
(* What the output parser finds in a text *)

\* A set of numbers has a least, ...
LEMMA LeastNumber ==
  ASSUME NEW S \in SUBSET Nat, S # {}
  PROVE  \E m \in S : \A k \in S : m <= k
<1>1. PICK m \in S : \A k \in S : ~(<<k, m>> \in OpToRel(<, Nat))
  <2>1. IsWellFoundedOn(OpToRel(<, Nat), Nat)
    BY NatLessThanWellFounded
  <2> DEFINE R == OpToRel(<, Nat)
  <2>2. IsWellFoundedOn(R, Nat)
    BY <2>1
  <2> HIDE DEF R
  <2>3. \E x \in S : \A y \in S : ~(<<y, x>> \in R)
    BY <2>2, WFMin
  <2>4. QED
    BY <2>3 DEF R
<1>2. \A k \in S : ~(k < m)
  BY <1>1 DEF OpToRel
<1>3. QED
  BY <1>2

\* ... which Min finds, ...
LEMMA MinIn ==
  ASSUME NEW S \in SUBSET Nat, S # {}
  PROVE  Min(S) \in S /\ \A k \in S : Min(S) <= k
<1>1. PICK m \in S : \A k \in S : m <= k
  BY LeastNumber
<1>2. QED
  BY <1>1 DEF Min

\* ... and a bounded one a greatest, which Max finds.
LEMMA MaxIn ==
  ASSUME NEW n \in Nat, NEW S \in SUBSET (1 .. n), S # {}
  PROVE  Max(S) \in S
<1> DEFINE T == {k \in Nat : n - k \in S}
<1>1. \A x \in S : n - x \in T
  <2> SUFFICES ASSUME NEW x \in S PROVE n - x \in T
    OBVIOUS
  <2>1. x \in 1 .. n
    OBVIOUS
  <2>2. n - x \in Nat /\ n - (n - x) = x
    BY <2>1
  <2>3. QED
    BY <2>2
<1>2. T \in SUBSET Nat /\ T # {}
  BY <1>1
<1>3. PICK k \in T : \A j \in T : k <= j
  <2> HIDE DEF T
  <2>1. QED
    BY <1>2, LeastNumber
<1>4. \A x \in S : n - k >= x
  <2> SUFFICES ASSUME NEW x \in S PROVE n - k >= x
    OBVIOUS
  <2>1. k <= n - x
    BY <1>1, <1>3
  <2>2. x \in 1 .. n /\ k \in Nat
    OBVIOUS
  <2>3. QED
    BY <2>1, <2>2
<1>5. n - k \in S
  OBVIOUS
<1>6. QED
  BY <1>4, <1>5 DEF Max

\* A trimmed text is a sequence of pieces of the text, and none is left of an
\* empty one.
LEMMA Trimmed ==
  ASSUME NEW text, IsText(text)
  PROVE  /\ Len(Trim(text)) \in Nat /\ DOMAIN Trim(text) = 1 .. Len(Trim(text))
         /\ Len(Trim(text)) = 0 => Trim(text) = << >>
         /\ \A i \in DOMAIN Trim(text) : \E j \in DOMAIN text : Trim(text)[i] = text[j]
         /\ Trim(text) = << >> <=> Blank(text)
<1> DEFINE S == {text[i] : i \in DOMAIN text}
           solid == {i \in DOMAIN text : text[i] # Space}
<1>1. text \in Seq(S)
  BY DEF IsText
<1>2. Len(text) \in Nat /\ DOMAIN text = 1 .. Len(text) /\ solid \subseteq 1 .. Len(text)
  <2> HIDE DEF S
  <2>1. QED
    BY <1>1, LenProperties
<1>3. CASE solid = {}
  <2>1. Trim(text) = << >>
    BY <1>3 DEF Trim
  <2>2. Len(<< >>) = 0 /\ DOMAIN << >> = 1 .. 0
    OBVIOUS
  <2>3. Blank(text)
    BY <1>3 DEF Blank
  <2>4. QED
    BY <2>1, <2>2, <2>3
<1>4. CASE solid # {}
  <2> DEFINE m == Min(solid)
             n == Max(solid)
             trimmed == SubSeq(text, m, n)
  <2>1. m \in solid /\ n \in solid /\ m <= n
    <3> HIDE DEF solid
    <3>1. solid \in SUBSET Nat /\ solid \in SUBSET (1 .. Len(text))
      BY <1>2
    <3>2. Min(solid) \in solid /\ \A k \in solid : Min(solid) <= k
      BY <1>4, <3>1, MinIn
    <3>3. Max(solid) \in solid
      BY <1>2, <1>4, <3>1, MaxIn
    <3>4. QED
      BY <3>2, <3>3
  <2>2. Trim(text) = trimmed
    BY <1>4 DEF Trim
  <2>3. m \in 1 .. Len(text) /\ n \in 1 .. Len(text)
    BY <1>2, <2>1
  <2> HIDE DEF m, n
  <2>4. \A i \in m .. n : i \in DOMAIN text /\ text[i] \in S
    BY <1>2, <2>3
  <2> HIDE DEF S
  <2>5. /\ trimmed \in Seq(S)
        /\ Len(trimmed) = IF m <= n THEN n - m + 1 ELSE 0
        /\ \A i \in 1 .. n - m + 1 : trimmed[i] = text[m + i - 1]
    BY <2>3, <2>4, SubSeqProperties
  <2> HIDE DEF trimmed
  <2>6. Len(trimmed) \in Nat /\ DOMAIN trimmed = 1 .. Len(trimmed)
    BY <2>5, LenProperties
  <2>7. Len(trimmed) = 0 => trimmed = << >>
    BY <2>5, EmptySeq
  <2>8. \A i \in DOMAIN trimmed : \E j \in DOMAIN text : trimmed[i] = text[j]
    <3> SUFFICES ASSUME NEW i \in 1 .. Len(trimmed)
                 PROVE  \E j \in DOMAIN text : trimmed[i] = text[j]
      BY <2>6
    <3>1. m <= n /\ i \in 1 .. n - m + 1
      BY <2>3, <2>5
    <3>2. m + i - 1 \in m .. n
      BY <2>3, <3>1
    <3>3. QED
      BY <2>4, <2>5, <3>1, <3>2
  <2>9. trimmed # << >> /\ ~Blank(text)
    <3>1. Len(trimmed) # 0
      BY <2>1, <2>3, <2>5
    <3>2. QED
      BY <1>4, <3>1 DEF Blank
  <2>10. QED
    BY <2>2, <2>6, <2>7, <2>8, <2>9
<1>5. QED
  BY <1>3, <1>4

\* The fields the parser finds are those of an object in the text, or none;
\* it finds a value only in a text that is not empty.
LEMMA Extracted ==
  ASSUME NEW text, IsText(text), NEW found, found = ExtractFormat(text)
  PROVE  /\ \/ found.value = NoFields
            \/ \E j \in DOMAIN text : text[j].kind = "object" /\ found.value = text[j].fields
         /\ found.format \in {"json", "text"} => ~Blank(text)
         /\ found.format = "text" => found.value = NoFields
         /\ found.format \in {"json", "text", "empty"}
         /\ found.format = "empty" => Blank(text)
<1> DEFINE trimmed == Trim(text)
           whole == {i \in DOMAIN trimmed : Len(trimmed) = 1 /\ trimmed[i].kind \in {"object", "scalar"}}
           braces == {i \in DOMAIN trimmed : trimmed[i].kind \in {"object", "open", "broken"}}
           first == {i \in braces : trimmed[i].kind = "object" /\ \A j \in braces : i <= j}
           closed == \E i \in braces : trimmed[i].kind # "open"
           warnings == (IF braces # {} THEN {"no object"} ELSE {})
                         \cup (IF braces # {} /\ ~closed THEN {"incomplete"} ELSE {})
           at == CHOOSE i \in whole \cup first : TRUE
<1>1. found = IF trimmed = << >> THEN Classified("empty", NoFields, {})
              ELSE IF whole \cup first # {}
                   THEN Classified("json", FieldsOf(trimmed[at]), {})
                   ELSE Classified("text", NoFields, warnings)
  BY DEF ExtractFormat
<1>2. /\ \A i \in DOMAIN trimmed : \E j \in DOMAIN text : trimmed[i] = text[j]
      /\ trimmed = << >> <=> Blank(text)
  BY Trimmed
<1>3. whole \cup first # {} => at \in DOMAIN trimmed
  OBVIOUS
<1> HIDE DEF trimmed, whole, first, warnings, at
<1>4. CASE trimmed = << >>
  <2>1. found.value = NoFields /\ found.format = "empty"
    BY <1>1, <1>4 DEF Classified
  <2>2. QED
    BY <1>2, <1>4, <2>1
<1>5. CASE trimmed # << >> /\ whole \cup first # {}
  <2>1. found.value = FieldsOf(trimmed[at]) /\ found.format = "json"
    BY <1>1, <1>5 DEF Classified
  <2>2. PICK j \in DOMAIN text : trimmed[at] = text[j]
    BY <1>2, <1>3, <1>5
  <2>3. QED
    BY <1>2, <1>5, <2>1, <2>2 DEF FieldsOf
<1>6. CASE trimmed # << >> /\ whole \cup first = {}
  <2>1. found.value = NoFields /\ found.format = "text"
    BY <1>1, <1>6 DEF Classified
  <2>2. QED
    BY <1>2, <1>6, <2>1
<1>7. QED
  BY <1>4, <1>5, <1>6
-----------------------------------------------------------------------------
(* What the parsers make of it *)

\* What the fields of a text say of success is a truth value, and a failure
\* denies the text.
LEMMA Said ==
  ASSUME NEW text, IsText(text), NEW value, value = ExtractFormat(text).value,
         "success" \in DOMAIN value, value["success"].type = "bool"
  PROVE  /\ value["success"].truth \in BOOLEAN
         /\ ~value["success"].truth => Denied(text)
<1> DEFINE found == ExtractFormat(text)
<1>1. \/ found.value = NoFields
      \/ \E j \in DOMAIN text : text[j].kind = "object" /\ found.value = text[j].fields
  BY Extracted
<1>2. value # NoFields
  BY DEF NoFields
<1>3. PICK j \in DOMAIN text : text[j].kind = "object" /\ value = text[j].fields
  BY <1>1, <1>2
<1>4. IsPiece(text[j])
  BY DEF IsText
<1>5. value["success"] \in {Bool(TRUE), Bool(FALSE)}
  BY <1>3, <1>4 DEF IsPiece
<1>6. Bool(TRUE).truth = TRUE /\ Bool(FALSE).truth = FALSE
  BY DEF Bool
<1>7. CASE value["success"] = Bool(TRUE)
  BY <1>6, <1>7
<1>8. CASE value["success"] = Bool(FALSE)
  <2>1. Denied(text)
    BY <1>3, <1>8 DEF Denied
  <2>2. QED
    BY <1>6, <1>8, <2>1
<1>9. QED
  BY <1>5, <1>7, <1>8

\* The default parser answers in the form of the request ...
LEMMA DefaultKind ==
  ASSUME NEW capability \in CapabilityKind, NEW output,
         NEW r, r = ParseDefault(output, capability)
  PROVE  r.capability = capability
BY DEF ParseDefault, BuildSummaryResponse, ExplainRustResponse, CapabilityKind

\* ... and every parser in one of the two.
LEMMA ParsedKind ==
  ASSUME NEW capability \in CapabilityKind, NEW text, IsText(text),
         NEW parser \in {"default", "build_summary", "explain_rust"},
         NEW r, r = ParseCapability(parser, ParseOutput(text), capability)
  PROVE  /\ r.capability \in CapabilityKind
         /\ parser = "default" => r.capability = capability
<1> DEFINE output == ParseOutput(text)
<1>1. CASE parser = "default"
  <2>1. r = ParseDefault(output, capability)
    BY <1>1, Zenon DEF ParseCapability
  <2>2. QED
    BY <2>1, DefaultKind
<1>2. CASE parser = "build_summary"
  <2>1. r = ParseBuildSummary(output)
    BY <1>2, Zenon DEF ParseCapability
  <2>2. ExtractFormat(text).format \in {"json", "text", "empty"}
    BY Extracted
  <2>3. output.output.format \in {"json", "text", "empty"}
    BY <2>2 DEF ParseOutput
  <2> HIDE DEF output
  <2>4. \A a, b, c : BuildSummaryResponse(a, b, c).capability = "BuildSummary"
    BY DEF BuildSummaryResponse
  <2>5. r.capability = "BuildSummary"
    <3> DEFINE value == output.output.value
               success == BoolField(value, "success", FALSE)
               summary == StringField(value, "summary", << >>)
               recommendation ==
                 IF "recommendation" \in DOMAIN value /\ value.recommendation.type = "string"
                 THEN {value.recommendation.text} ELSE {}
    <3>1. ParseBuildSummary(output) =
            CASE output.output.format = "json" -> BuildSummaryResponse(success, summary, recommendation)
              [] output.output.format = "text" -> BuildSummaryResponse(TRUE, Trim(output.raw), {})
              [] output.output.format = "empty" -> BuildSummaryResponse(FALSE, << >>, {})
      BY DEF ParseBuildSummary
    <3> HIDE DEF success, summary, recommendation
    <3>2. QED
      BY <2>1, <2>3, <2>4, <3>1
  <2>6. QED
    BY <1>2, <2>5 DEF CapabilityKind
<1>3. CASE parser = "explain_rust"
  <2>1. r = ParseExplainRust(output)
    BY <1>3, Zenon DEF ParseCapability
  <2> HIDE DEF output
  <2>2. r.capability = "ExplainRust"
    BY <2>1 DEF ParseExplainRust, ExplainRustResponse
  <2>3. QED
    BY <1>3, <2>2 DEF CapabilityKind
<1>4. QED
  BY <1>1, <1>2, <1>3

\* The default parser fails only what is blank or denies itself, and passes
\* whatever the stricter parser of capabilities/ passes.
LEMMA Verdict ==
  ASSUME NEW text, IsText(text), NEW r, r = ParseDefault(ParseOutput(text), "BuildSummary"),
         NEW strict, strict = ParseBuildSummary(ParseOutput(text))
  PROVE  /\ r.success \in BOOLEAN
         /\ ~r.success => Blank(text) \/ Denied(text)
         /\ strict.success => r.success
<1> DEFINE found == ExtractFormat(text)
           value == found.value
<1>1. r.success = (text # << >> /\ BoolField(value, "success", TRUE))
  BY DEF ParseDefault, ParseOutput, BuildSummaryResponse
<1>2. text = << >> => Blank(text)
  BY DEF Blank
<1>3. "success" \in DOMAIN value /\ value["success"].type = "bool"
        => value["success"].truth \in BOOLEAN /\ (~value["success"].truth => Denied(text))
  BY Said
<1>4. /\ BoolField(value, "success", TRUE) \in BOOLEAN
      /\ ~BoolField(value, "success", TRUE) => Denied(text)
  BY <1>3 DEF BoolField
<1>5. strict.success => text # << >> /\ BoolField(value, "success", TRUE)
  <2>1. /\ found.format \in {"json", "text"} => ~Blank(text)
        /\ found.format = "text" => found.value = NoFields
        /\ found.format \in {"json", "text", "empty"}
    BY Extracted
  <2>2. CASE found.format = "json"
    <3>1. strict.success = BoolField(value, "success", FALSE)
      BY <2>2 DEF ParseBuildSummary, ParseOutput, BuildSummaryResponse
    <3>2. QED
      BY <1>2, <2>1, <2>2, <3>1 DEF BoolField
  <2>3. CASE found.format = "text"
    <3>1. "success" \notin DOMAIN value
      BY <2>1, <2>3 DEF NoFields
    <3>2. QED
      BY <1>2, <2>1, <2>3, <3>1 DEF BoolField
  <2>4. CASE found.format = "empty"
    <3>1. strict = BuildSummaryResponse(FALSE, << >>, {})
      BY <2>4 DEF ParseBuildSummary, ParseOutput
    <3>2. QED
      BY <3>1 DEF BuildSummaryResponse
  <2>5. QED
    BY <2>1, <2>2, <2>3, <2>4
<1> HIDE DEF value
<1>6. QED
  BY <1>1, <1>2, <1>4, <1>5
-----------------------------------------------------------------------------
(* The hash of a context *)

\* A rearrangement of 1 .. n leaves no number out.
LEMMA OntoItself ==
  ASSUME NEW n \in Nat, NEW p \in Injection(1 .. n, 1 .. n)
  PROVE  /\ \A i \in 1 .. n : p[i] \in 1 .. n
         /\ \A i, j \in 1 .. n : p[i] = p[j] => i = j
         /\ \A j \in 1 .. n : \E i \in 1 .. n : p[i] = j
<1>1. IsFiniteSet(1 .. n)
  BY FS_Interval
<1>2. p \in Surjection(1 .. n, 1 .. n)
  BY <1>1, FS_Injection
<1>3. \A j \in 1 .. n : \E i \in 1 .. n : p[i] = j
  BY <1>2 DEF Surjection
<1>4. p \in [1 .. n -> 1 .. n] /\ IsInjective(p)
  BY DEF Injection
<1>5. DOMAIN p = 1 .. n /\ \A i \in 1 .. n : p[i] \in 1 .. n
  BY <1>4
<1>6. \A i, j \in 1 .. n : p[i] = p[j] => i = j
  BY <1>4, <1>5 DEF IsInjective
<1>7. QED
  BY <1>3, <1>5, <1>6

\* What it takes to a set is as many as the set.
LEMMA AsMany ==
  ASSUME NEW n \in Nat, NEW p \in Injection(1 .. n, 1 .. n),
         NEW S \in SUBSET (1 .. n), NEW T \in SUBSET (1 .. n),
         \A i \in 1 .. n : i \in S <=> p[i] \in T
  PROVE  Cardinality(S) = Cardinality(T)
<1>0. /\ \A i \in 1 .. n : p[i] \in 1 .. n
      /\ \A i, j \in 1 .. n : p[i] = p[j] => i = j
      /\ \A j \in 1 .. n : \E i \in 1 .. n : p[i] = j
  BY OntoItself
<1> DEFINE f == [i \in S |-> p[i]]
<1>1. IsFiniteSet(T)
  <2>1. IsFiniteSet(1 .. n)
    BY FS_Interval
  <2>2. T \in SUBSET (1 .. n)
    OBVIOUS
  <2>3. QED
    BY <2>1, <2>2, FS_Subset
<1>2. f \in [S -> T]
  BY <1>0
<1>3. \A i, j \in S : f[i] = f[j] => i = j
  BY <1>0
<1>4. \A j \in T : \E i \in S : f[i] = j
  <2> SUFFICES ASSUME NEW j \in T PROVE \E i \in S : f[i] = j
    OBVIOUS
  <2>0. j \in 1 .. n
    OBVIOUS
  <2>1. PICK i \in 1 .. n : p[i] = j
    BY <1>0, <2>0
  <2>2. i \in S
    BY <2>0, <2>1
  <2>3. QED
    BY <2>1, <2>2
<1> HIDE DEF f
<1>5. f \in Injection(S, T)
  BY <1>2, <1>3 DEF Injection, IsInjective
<1>6. f \in Surjection(S, T)
  BY <1>2, <1>4 DEF Surjection
<1>7. QED
  BY <1>1, <1>5, <1>6, FS_Injection

\* Changes reported in another order are the same bag of changes.
LEMMA SameBag ==
  ASSUME NEW n \in Nat, NEW p \in Injection(1 .. n, 1 .. n),
         NEW s, DOMAIN s = 1 .. n, NEW other, DOMAIN other = 1 .. n,
         \A i \in 1 .. n : other[i] = s[p[i]]
  PROVE  ToBag(other) = ToBag(s)
<1>1. /\ \A i \in 1 .. n : p[i] \in 1 .. n
      /\ \A j \in 1 .. n : \E i \in 1 .. n : p[i] = j
  BY OntoItself
<1>2. Range(other) = Range(s)
  <2>1. Range(other) = {other[i] : i \in 1 .. n} /\ Range(s) = {s[i] : i \in 1 .. n}
    BY DEF Range
  <2>2. ASSUME NEW i \in 1 .. n PROVE other[i] \in Range(s)
    BY <1>1, <2>1
  <2>3. ASSUME NEW j \in 1 .. n PROVE s[j] \in Range(other)
    <3>1. PICK i \in 1 .. n : p[i] = j
      BY <1>1
    <3>2. other[i] = s[j]
      BY <3>1
    <3>3. QED
      BY <2>1, <3>2
  <2>4. QED
    BY <2>1, <2>2, <2>3
<1> DEFINE Where(q, x) == {i \in DOMAIN q : q[i] = x}
           Often(q, x) == Cardinality(Where(q, x))
<1>3. \A x : Often(other, x) = Often(s, x)
  <2> SUFFICES ASSUME NEW x PROVE Often(other, x) = Often(s, x)
    OBVIOUS
  <2>1. /\ Where(other, x) \in SUBSET (1 .. n)
        /\ Where(s, x) \in SUBSET (1 .. n)
        /\ \A i \in 1 .. n : i \in Where(other, x) <=> p[i] \in Where(s, x)
    BY <1>1
  <2> HIDE DEF Where
  <2>2. Cardinality(Where(other, x)) = Cardinality(Where(s, x))
    BY <2>1, AsMany
  <2>3. QED
    BY <2>2
<1>4. ToBag(other) = [x \in Range(other) |-> Often(other, x)] /\ ToBag(s) = [x \in Range(s) |-> Often(s, x)]
  BY DEF ToBag
<1> HIDE DEF Often
<1>5. QED
  BY <1>2, <1>3, <1>4

\* A context and the same with its changes in another order have the same
\* hash, and are sent with the same line for it.
LEMMA SameHash ==
  ASSUME NEW context, IsContext(context), context.hash = ComputeHash(context),
         NEW other \in Reordered(context), NEW request, IsRequest(request)
  PROVE  Assemble(WithHash(other), request)[2] = Assemble(context, request)[2]
<1> DEFINE s == context.recent_changes
           S == {s[i] : i \in DOMAIN s}
           n == Len(s)
<1>1. PICK p \in Injection(1 .. n, 1 .. n) :
        other = [context EXCEPT !.recent_changes = [i \in 1 .. n |-> s[p[i]]]]
  BY DEF Reordered
<1>2. s \in Seq(S)
  BY DEF IsContext
<1>3. n \in Nat /\ DOMAIN s = 1 .. n
  <2> HIDE DEF S
  <2>1. QED
    BY <1>2, LenProperties
<1> DEFINE q == [i \in 1 .. n |-> s[p[i]]]
<1>4. ToBag(q) = ToBag(s)
  <2>1. DOMAIN q = 1 .. n /\ \A i \in 1 .. n : q[i] = s[p[i]]
    OBVIOUS
  <2>2. p \in Injection(1 .. n, 1 .. n)
    OBVIOUS
  <2> HIDE DEF S, q, n, s
  <2>3. QED
    BY <1>3, <2>1, <2>2, SameBag
<1>5. q \in Seq({q[i] : i \in DOMAIN q})
  <2> DEFINE Q == {q[i] : i \in DOMAIN q}
  <2>1. \A i \in 1 .. n : q[i] \in Q
    OBVIOUS
  <2> HIDE DEF Q, n
  <2>2. q \in Seq(Q)
    BY <1>3, <2>1
  <2>3. QED
    BY <2>2 DEF Q
<1> HIDE DEF q, n, S
<1>6. other = [context EXCEPT !.recent_changes = q]
  BY <1>1 DEF q
<1>7. DOMAIN context = {"recent_changes", "workspace_status", "files", "git", "hash"}
  BY DEF IsContext, Context
<1> HIDE DEF s
<1>8. /\ other.recent_changes = q /\ other.workspace_status = context.workspace_status
      /\ other.files = context.files /\ other.git = context.git
      /\ DOMAIN other = DOMAIN context
  BY <1>6, <1>7
<1>9. ComputeHash(other) = ComputeHash(context)
  BY <1>4, <1>8 DEF ComputeHash, s
<1>10. /\ WithHash(other).hash = ComputeHash(context)
       /\ WithHash(other).recent_changes = q
       /\ WithHash(other).workspace_status = context.workspace_status
       /\ DOMAIN WithHash(other) = DOMAIN context
  BY <1>7, <1>8, <1>9 DEF WithHash
<1>11. IsContext(WithHash(other))
  BY <1>5, <1>10 DEF IsContext
<1>12. /\ Assemble(WithHash(other), request)[2] = HashLine(WithHash(other).hash)
       /\ Assemble(context, request)[2] = HashLine(context.hash)
  BY <1>11, AssembledText
<1>13. QED
  BY <1>10, <1>12
-----------------------------------------------------------------------------
(* What a call is answered *)

\* The context a call is sent with is one.
LEMMA ContextTyped ==
  ASSUME NEW t \in Clients, NEW c, CallTyped(t, c)
  PROVE  IsContext(ContextFor(c.own, c.source))
<1>1. IsContext(DefaultContext)
  <2>1. << >> \in Seq({<< >>[i] : i \in DOMAIN << >>})
    BY EmptySeq
  <2>2. DefaultContext.recent_changes = << >> /\ DefaultContext.workspace_status = "Unknown"
    BY DEF DefaultContext, Context
  <2>3. DOMAIN DefaultContext = DOMAIN Context(<< >>, "Unknown", 0, "none")
    BY DEF DefaultContext
  <2>4. "Unknown" \in WorkspaceStatus
    BY DEF WorkspaceStatus
  <2> HIDE DEF DefaultContext
  <2>5. QED
    BY <2>1, <2>2, <2>3, <2>4 DEF IsContext
<1>2. \A x \in Contexts[t] : IsContext(x)
  BY OrchestratorAssumption
<1>3. \A S \in Option(Contexts[t]) \cup {NullContextSource} :
        S # {} => IsContext(CHOOSE x \in S : TRUE)
  <2> SUFFICES ASSUME NEW S \in Option(Contexts[t]) \cup {NullContextSource}, S # {}
               PROVE  IsContext(CHOOSE x \in S : TRUE)
    OBVIOUS
  <2>1. \A x \in S : IsContext(x)
    BY <1>1, <1>2 DEF Option, NullContextSource
  <2>2. (CHOOSE x \in S : TRUE) \in S
    OBVIOUS
  <2>3. QED
    BY <2>1, <2>2
<1>4. c.own \in Option(Contexts[t]) \cup {NullContextSource}
      /\ c.source \in Option(Contexts[t]) \cup {NullContextSource}
  BY DEF CallTyped
<1> DEFINE given == IF c.own # {} THEN c.own ELSE c.source
<1>5. given \in Option(Contexts[t]) \cup {NullContextSource}
  BY <1>4
<1>6. ContextFor(c.own, c.source) = IF given # {} THEN CHOOSE x \in given : TRUE ELSE DefaultContext
  BY DEF ContextFor
<1> HIDE DEF given
<1>7. QED
  BY <1>1, <1>3, <1>5, <1>6

\* What reaches the provider is the request, with the prompt of the context
\* when it comes by the orchestrator.
LEMMA EnrichedTyped ==
  ASSUME NEW t \in Clients, NEW c, CallTyped(t, c)
  PROVE  /\ IsRequest(c.request) /\ IsRequest(Enriched(c))
         /\ Enriched(c).capability = c.request.capability
         /\ c.via = "orchestrator" =>
              Enriched(c).prompt = Assemble(ContextFor(c.own, c.source), c.request)
<1>1. IsRequest(c.request)
  BY OrchestratorAssumption DEF CallTyped
<1>2. CASE c.via = "orchestrator"
  <2> DEFINE prompt == Assemble(ContextFor(c.own, c.source), c.request)
  <2>1. IsText(prompt)
    BY <1>1, ContextTyped, AssembledText
  <2>2. Enriched(c) = [c.request EXCEPT !.prompt = prompt]
    BY <1>2 DEF Enriched, InjectPrompt
  <2> HIDE DEF prompt
  <2>3. /\ DOMAIN Enriched(c) = DOMAIN c.request /\ "prompt" \in DOMAIN c.request
        /\ "capability" \in DOMAIN c.request /\ "max_tokens" \in DOMAIN c.request
        /\ "data" \in DOMAIN c.request
        /\ c.request.capability = "ExplainRust" => "question" \in DOMAIN c.request
    BY <1>1, <2>2 DEF IsRequest
  <2>4. /\ Enriched(c).prompt = prompt /\ Enriched(c).capability = c.request.capability
        /\ Enriched(c).max_tokens = c.request.max_tokens /\ Enriched(c).data = c.request.data
        /\ c.request.capability = "ExplainRust" => Enriched(c).question = c.request.question
    BY <2>2, <2>3
  <2>5. IsRequest(Enriched(c))
    <3> DEFINE e == Enriched(c)
               r == c.request
    <3>1. /\ r.capability \in CapabilityKind /\ r.max_tokens \in Nat /\ IsText(r.data)
          /\ r.capability = "ExplainRust" => IsText(r.question)
      BY <1>1 DEF IsRequest
    <3>2. DOMAIN r = {"capability", "data", "prompt", "max_tokens"}
                       \cup {IF r.capability = "ExplainRust" THEN "question" ELSE "exit_code"}
      BY <1>1 DEF IsRequest
    <3>3. /\ e.prompt = prompt /\ e.capability = r.capability /\ e.max_tokens = r.max_tokens
          /\ e.data = r.data /\ DOMAIN e = DOMAIN r
          /\ r.capability = "ExplainRust" => e.question = r.question
      BY <2>3, <2>4
    <3> HIDE DEF e, r
    <3>4. DOMAIN e = {"capability", "data", "prompt", "max_tokens"}
                       \cup {IF e.capability = "ExplainRust" THEN "question" ELSE "exit_code"}
      BY <3>2, <3>3
    <3>5. IsRequest(e)
      BY <2>1, <3>1, <3>3, <3>4, Zenon DEF IsRequest
    <3>6. QED
      BY <3>5 DEF e
  <2>6. QED
    BY <1>1, <2>4, <2>5 DEF prompt
<1>3. CASE c.via # "orchestrator"
  BY <1>1, <1>3 DEF Enriched
<1>4. QED
  BY <1>2, <1>3

\* The fields of what is answered
LEMMA Answered ==
  /\ \A a, b, d : BuildSummaryResponse(a, b, d).capability = "BuildSummary"
                    /\ BuildSummaryResponse(a, b, d).text = b
  /\ \A b : ExplainRustResponse(b).capability = "ExplainRust" /\ ExplainRustResponse(b).text = b
  /\ \A r : Success(r).error = "none" /\ Success(r).response = r
  /\ \A e : Error(e).error = e /\ Error(e).response = NoResponse
  /\ \A e, r, raw, w : /\ Reply(e, r, raw, w).error = e /\ Reply(e, r, raw, w).response = r
                       /\ Reply(e, r, raw, w).raw = raw
  /\ NoResponse.capability = "none"
<1>1. \A a, b, d : BuildSummaryResponse(a, b, d).capability = "BuildSummary"
                     /\ BuildSummaryResponse(a, b, d).text = b
  BY DEF BuildSummaryResponse
<1>2. \A b : ExplainRustResponse(b).capability = "ExplainRust" /\ ExplainRustResponse(b).text = b
  BY DEF ExplainRustResponse
<1>3. \A r : Success(r).error = "none" /\ Success(r).response = r
  BY DEF Success
<1>4. \A e : Error(e).error = e /\ Error(e).response = NoResponse
  BY DEF Error
<1>5. \A e, r, raw, w : /\ Reply(e, r, raw, w).error = e /\ Reply(e, r, raw, w).response = r
                        /\ Reply(e, r, raw, w).raw = raw
  BY DEF Reply
<1>6. NoResponse.capability = "none"
  BY DEF NoResponse
<1>7. QED
  BY <1>1, <1>2, <1>3, <1>4, <1>5, <1>6

\* The mock answers in kind.
LEMMA MockTyped ==
  ASSUME NEW request, IsRequest(request), NEW p, p = MockExecute(request)
  PROVE  /\ p.error = "none" /\ p.response.capability = request.capability
         /\ IsText(p.response.text)
<1>1. CASE request.capability = "BuildSummary"
  <2>1. \E a, d : p = Success(BuildSummaryResponse(a, <<Word>>, d))
    BY <1>1, Zenon DEF MockExecute, MockBuildSummary
  <2>2. QED
    BY <1>1, <2>1, Answered, WordPiece
<1>2. CASE request.capability = "ExplainRust"
  <2>1. p = Success(ExplainRustResponse(<<Word>> \o request.question))
    BY <1>2 DEF MockExecute, MockExplainRust
  <2>2. IsText(<<Word>> \o request.question)
    BY <1>2, WordPiece, TextConcat DEF IsRequest
  <2>3. QED
    BY <1>2, <2>1, <2>2, Answered
<1>3. QED
  BY <1>1, <1>2 DEF IsRequest, CapabilityKind

\* A fixture that can be read answers in kind.
LEMMA JsonTyped ==
  ASSUME NEW request, IsRequest(request), NEW p, p = JsonExecute(Fixtures, request)
  PROVE  \/ p = Error("Provider")
         \/ /\ p.error = "none" /\ p.response.capability = request.capability
            /\ IsText(p.response.text)
<1> DEFINE name == FixtureOf(request)
<1>1. (name = "rust_explain") <=> (request.capability = "ExplainRust")
  BY DEF FixtureOf
<1>2. p = LoadFixture(Fixtures, name)
  BY DEF JsonExecute
<1> HIDE DEF name
<1>3. CASE name \notin DOMAIN Fixtures \/ Fixtures[name] = NoResponse
  BY <1>2, <1>3 DEF LoadFixture
<1>4. CASE name \in DOMAIN Fixtures /\ Fixtures[name] # NoResponse
  <2>1. p = Success(Fixtures[name])
    BY <1>2, <1>4 DEF LoadFixture
  <2>2. /\ Fixtures[name].capability = IF name = "rust_explain" THEN "ExplainRust" ELSE "BuildSummary"
        /\ IsText(Fixtures[name].text)
    BY <1>4, OrchestratorAssumption DEF AreFixtures
  <2>3. Fixtures[name].capability = request.capability
    BY <1>1, <2>2 DEF IsRequest, CapabilityKind
  <2>4. QED
    BY <2>1, <2>2, <2>3, Answered
<1>5. QED
  BY <1>3, <1>4
\* What the provider answers is in kind, fails as a provider may, or is what
\* the model said.
LEMMA ProvidedTyped ==
  ASSUME NEW t \in Clients, NEW c, CallTyped(t, c), NEW inferred, NEW p, p = Provided(c, inferred)
  PROVE  /\ c.provider \in {"mock", "json"} =>
              \/ p = Error("Provider")
              \/ /\ p.error = "none" /\ p.response.capability = c.request.capability
                 /\ IsText(p.response.text)
         /\ c.provider \in {"local", "model"} => p.error = inferred.error
         /\ c.provider \in {"local", "model"} /\ inferred.error = "none" =>
              p.response.capability = "BuildSummary" /\ p.response.text = inferred.text
<1>1. IsRequest(Enriched(c)) /\ Enriched(c).capability = c.request.capability
  BY EnrichedTyped
<1>2. CASE c.provider = "mock"
  <2>1. p = MockExecute(Enriched(c))
    BY <1>2, Zenon DEF Provided
  <2>2. QED
    BY <1>1, <1>2, <2>1, MockTyped
<1>3. CASE c.provider = "json"
  <2>1. p = JsonExecute(Fixtures, Enriched(c))
    BY <1>3 DEF Provided
  <2>2. QED
    BY <1>1, <1>3, <2>1, JsonTyped
<1>4. CASE c.provider \in {"local", "model"}
  <2>1. p = LocalExecute(inferred)
    BY <1>4 DEF Provided
  <2>2. CASE inferred.error = "none"
    <3>1. p = Success(AdaptResponse(inferred.text))
      BY <2>1, <2>2 DEF LocalExecute
    <3>2. p.error = "none" /\ p.response = AdaptResponse(inferred.text)
      BY <3>1, Answered
    <3>3. AdaptResponse(inferred.text) = BuildSummaryResponse(TRUE, inferred.text, {})
      BY DEF AdaptResponse
    <3>4. /\ BuildSummaryResponse(TRUE, inferred.text, {}).capability = "BuildSummary"
          /\ BuildSummaryResponse(TRUE, inferred.text, {}).text = inferred.text
      BY Zenon DEF BuildSummaryResponse
    <3>5. QED
      BY <1>4, <2>2, <3>2, <3>3, <3>4
  <2>3. CASE inferred.error # "none"
    <3>1. p = Error(inferred.error)
      BY <2>1, <2>3 DEF LocalExecute
    <3>2. QED
      BY <1>4, <2>3, <3>1, Answered
  <2>4. QED
    BY <2>2, <2>3
<1>5. QED
  BY <1>2, <1>3, <1>4 DEF CallTyped

\* What may go wrong in a provider or a model
Failures == {"NotReady", "panicked"} \cup ProviderError

\* A parsed text is answered with the response that it was parsed to.
LEMMA ParsedTyped ==
  ASSUME NEW t \in Clients, NEW c, CallTyped(t, c), NEW text, IsText(text)
  PROVE  /\ Parsed(c, text).error = "none" /\ Parsed(c, text).raw = text
         /\ Parsed(c, text).response
              = ParseCapability(c.parser, ParseOutput(text), c.request.capability)
         /\ Parsed(c, text).response.capability \in CapabilityKind
         /\ c.parser = "default" => Parsed(c, text).response.capability = c.request.capability
<1> DEFINE output == ParseOutput(text)
           response == ParseCapability(c.parser, output, c.request.capability)
<1>1. Parsed(c, text) = Reply("none", response, output.raw, output.output.warnings)
  BY DEF Parsed
<1>2. output.raw = text
  BY DEF ParseOutput
<1>3. c.request.capability \in CapabilityKind /\ c.parser \in {"default", "build_summary", "explain_rust"}
  BY EnrichedTyped DEF IsRequest, CallTyped
<1>4. response.capability \in CapabilityKind
      /\ (c.parser = "default" => response.capability = c.request.capability)
  BY <1>3, ParsedKind
<1> HIDE DEF output, response
<1>5. QED
  BY <1>1, <1>2, <1>4, Answered DEF output, response

\* What a call returns, by the way it went
LEMMA OrchestratedTyped ==
  ASSUME NEW t \in Clients, NEW c, CallTyped(t, c), c.via = "orchestrator",
         NEW inferred, inferred.error \in {"none"} \cup Failures, IsText(inferred.text),
         NEW p, p = Provided(c, inferred), NEW r, r = ReplyTo(c, inferred, p)
  PROVE  /\ p.error # "none" => r.error = p.error /\ r.response = NoResponse
         /\ p.error = "none" =>
              /\ IsText(p.response.text) /\ r = Parsed(c, p.response.text)
              /\ c.provider = "local" => p.response.text = inferred.text
         /\ p.error \in {"none", "Provider"} \cup Failures
         /\ c.provider = "local" => p.error = inferred.error
         /\ c.provider # "local" => p.error \in {"none", "Provider"}
<1>1. /\ c.provider \in {"mock", "json"} =>
           \/ p = Error("Provider")
           \/ /\ p.error = "none" /\ p.response.capability = c.request.capability
              /\ IsText(p.response.text)
      /\ c.provider \in {"local", "model"} => p.error = inferred.error
      /\ c.provider \in {"local", "model"} /\ inferred.error = "none" =>
           p.response.capability = "BuildSummary" /\ p.response.text = inferred.text
  BY ProvidedTyped
<1>2. c.provider \in {"mock", "json", "local"}
  BY DEF CallTyped
<1>3. r = OrchestratedReply(c, p)
  BY DEF ReplyTo
<1>4. p.error # "none" => r = Reply(p.error, NoResponse, << >>, {})
  BY <1>3 DEF OrchestratedReply
<1>5. p.error = "none" => r = Parsed(c, p.response.text)
  BY <1>3 DEF OrchestratedReply, ExtractRawText
<1>6. QED
  BY <1>1, <1>2, <1>4, <1>5, Answered

\* The extension trait returns what is in kind, and refuses the rest.
LEMMA ExtendedTyped ==
  ASSUME NEW t \in Clients, NEW c, CallTyped(t, c), c.via = "extension",
         NEW inferred, inferred.error \in {"none"} \cup Failures,
         NEW p, p = Provided(c, inferred), NEW r, r = ReplyTo(c, inferred, p)
  PROVE  /\ r.error \in {"none", "Provider", "InvalidResponse"} \cup Failures
         /\ r.error = "none" => r.response.capability = c.request.capability
         /\ r.error # "none" => r.response = NoResponse
         /\ r.error = "InvalidResponse" <=>
              c.provider = "local" /\ c.request.capability = "ExplainRust" /\ inferred.error = "none"
         /\ r.error = "NotReady" <=> c.provider = "local" /\ inferred.error = "NotReady"
<1>1. /\ c.provider \in {"mock", "json"} =>
           \/ p = Error("Provider")
           \/ /\ p.error = "none" /\ p.response.capability = c.request.capability
              /\ IsText(p.response.text)
      /\ c.provider \in {"local", "model"} => p.error = inferred.error
      /\ c.provider \in {"local", "model"} /\ inferred.error = "none" =>
           p.response.capability = "BuildSummary" /\ p.response.text = inferred.text
  BY ProvidedTyped
<1>2. c.provider \in {"mock", "json", "local"} /\ c.request.capability \in CapabilityKind
  BY EnrichedTyped DEF CallTyped, IsRequest
<1>3. r = ExtensionReply(c, p)
  BY DEF ReplyTo
<1>4. r.error = Extension(p, c.request.capability).error
      /\ r.response = Extension(p, c.request.capability).response
  BY <1>3, Answered DEF ExtensionReply
<1>5. CASE p.error = "none" /\ p.response.capability # c.request.capability
  <2>1. Extension(p, c.request.capability) = Error("InvalidResponse")
    BY <1>5 DEF Extension
  <2>2. r.error = "InvalidResponse" /\ r.response = NoResponse
    BY <1>4, <2>1, Answered
  <2>3. c.provider = "local" /\ inferred.error = "none"
    BY <1>1, <1>2, <1>5, Answered
  <2>4. c.request.capability = "ExplainRust"
    BY <1>1, <1>2, <1>5, <2>3 DEF CapabilityKind
  <2>5. QED
    BY <2>2, <2>3, <2>4
<1>6. CASE ~(p.error = "none" /\ p.response.capability # c.request.capability)
  <2>1. Extension(p, c.request.capability) = p
    BY <1>6 DEF Extension
  <2>2. r.error = p.error /\ r.response = p.response
    BY <1>4, <2>1
  <2>3. p.error # "none" => p.response = NoResponse
    <3>1. CASE c.provider \in {"mock", "json"}
      BY <1>1, <3>1, Answered
    <3>2. CASE c.provider = "local"
      <4>1. p = LocalExecute(inferred)
        BY <3>2 DEF Provided
      <4>2. QED
        BY <4>1, Answered DEF LocalExecute
    <3>3. QED
      BY <1>2, <3>1, <3>2
  <2>4. "InvalidResponse" \notin {"none", "Provider"} \cup Failures /\ "Provider" # "NotReady"
    BY DEF Failures, ProviderError
  <2>5. CASE c.provider \in {"mock", "json"}
    <3>1. p.error \in {"none", "Provider"}
      BY <1>1, <2>5, Answered
    <3>2. QED
      BY <1>6, <2>2, <2>3, <2>4, <2>5, <3>1
  <2>6. CASE c.provider = "local"
    <3>1. p.error = inferred.error
      BY <1>1, <2>6
    <3>2. inferred.error = "none" => c.request.capability = "BuildSummary"
      BY <1>1, <1>6, <2>6
    <3>3. QED
      BY <1>6, <2>2, <2>3, <2>4, <2>6, <3>1, <3>2
  <2>7. QED
    BY <1>2, <2>5, <2>6
<1>7. QED
  BY <1>5, <1>6

\* execute_capability returns the parsed response, or the failure of the model.
LEMMA PipelineTyped ==
  ASSUME NEW t \in Clients, NEW c, CallTyped(t, c), c.via = "pipeline",
         NEW inferred, inferred.error \in {"none"} \cup Failures, IsText(inferred.text),
         NEW p, NEW r, r = ReplyTo(c, inferred, p)
  PROVE  /\ r.error = inferred.error
         /\ r.error # "none" => r.response = NoResponse
         /\ r.error = "none" => r.response = Parsed(c, inferred.text).response
<1>1. r = PipelineReply(c, inferred)
  BY DEF ReplyTo
<1>2. inferred.error # "none" => r = Reply(inferred.error, NoResponse, << >>, {})
  BY <1>1 DEF PipelineReply
<1>3. inferred.error = "none" => r = Reply("none", Parsed(c, inferred.text).response, << >>, {})
  BY <1>1 DEF PipelineReply
<1>4. QED
  BY <1>2, <1>3, Answered

\* A bare model returns what it answered.
LEMMA BareTyped ==
  ASSUME NEW c, c.via = "bare", NEW inferred, NEW p, NEW r, r = ReplyTo(c, inferred, p)
  PROVE  r.error = inferred.error /\ r.response = NoResponse
<1>1. r = Reply(inferred.error, NoResponse, inferred.text, {})
  BY DEF ReplyTo
<1>2. QED
  BY <1>1, Answered
-----------------------------------------------------------------------------
(* Answers *)

\* Every answer is of the kind its call asks for, or a failure that the call
\* and the provider explain.
LEMMA DoneInKind ==
  ASSUME OwnerInv, NEW t \in Clients, ReplyInv(t), pc[t] = "done"
  PROVE  InKind(t)
<1> DEFINE c == call[t]
           p == Provided(c, result[t])
           r == reply[t]
<1>1. CallTyped(t, c)
  BY DEF ReplyInv
<1>2. result[t].error \in {"none"} \cup Failures /\ IsText(result[t].text)
  BY DEF ReplyInv, Failures
<1>3. r = ReplyTo(c, result[t], p)
  BY DEF ReplyInv
<1>p. p = Provided(c, result[t])
  OBVIOUS
<1>4. c.provider = "local" => (result[t].error = "NotReady" <=> lifecycle # "Ready")
  BY DEF ReplyInv
<1>5. ProviderHealth("local") # "Healthy" <=> lifecycle # "Ready"
  BY DEF ProviderHealth, Health, OwnerInv, ProviderState
<1>6. c.provider # "local" => ProviderHealth(c.provider) = "Healthy"
  BY DEF ProviderHealth
<1>7. /\ "InvalidResponse" \notin {"none", "Provider"} \cup Failures
      /\ "NotReady" \notin {"none", "Provider"}
  BY DEF Failures, ProviderError
<1>8. /\ c.provider \in {"mock", "json", "local", "model"}
      /\ c.via \in IF c.provider = "model" THEN {"pipeline", "bare"} ELSE {"orchestrator", "extension"}
      /\ c.via = "extension" => c.parser = "default"
  BY <1>1 DEF CallTyped
<1> HIDE DEF c, p, r
<1>9. /\ r.error = "none" /\ c.via # "bare" /\ c.parser = "default"
           => r.response.capability = c.request.capability
      /\ r.error = "InvalidResponse" <=>
           c.via = "extension" /\ c.provider = "local" /\ c.request.capability = "ExplainRust"
             /\ result[t].error = "none"
      /\ c.provider # "model" => (r.error = "NotReady" <=> ProviderHealth(c.provider) # "Healthy")
  <2>1. CASE c.via = "orchestrator"
    <3>1. /\ p.error # "none" => r.error = p.error /\ r.response = NoResponse
          /\ p.error = "none" => IsText(p.response.text) /\ r = Parsed(c, p.response.text)
          /\ p.error \in {"none", "Provider"} \cup Failures
          /\ c.provider = "local" => p.error = result[t].error
          /\ c.provider # "local" => p.error \in {"none", "Provider"}
      BY <1>1, <1>2, <1>3, <2>1, OrchestratedTyped, <1>p
    <3>2. p.error = "none" => /\ r.error = "none"
                              /\ c.parser = "default" => r.response.capability = c.request.capability
      BY <1>1, <3>1, ParsedTyped
    <3>3. r.error = p.error
      BY <3>1, <3>2
    <3>4. QED
      BY <1>4, <1>5, <1>6, <1>7, <2>1, <3>1, <3>2, <3>3
  <2>2. CASE c.via = "extension"
    <3>1. /\ r.error \in {"none", "Provider", "InvalidResponse"} \cup Failures
          /\ r.error = "none" => r.response.capability = c.request.capability
          /\ r.error = "InvalidResponse" <=>
               c.provider = "local" /\ c.request.capability = "ExplainRust"
                 /\ result[t].error = "none"
          /\ r.error = "NotReady" <=> c.provider = "local" /\ result[t].error = "NotReady"
      BY <1>1, <1>2, <1>3, <2>2, ExtendedTyped, <1>p
    <3>2. QED
      BY <1>4, <1>5, <1>6, <1>7, <2>2, <3>1
  <2>3. CASE c.via = "pipeline"
    <3>1. /\ r.error = result[t].error
          /\ r.error = "none" => r.response = Parsed(c, result[t].text).response
      BY <1>1, <1>2, <1>3, <2>3, PipelineTyped, <1>p
    <3>2. c.parser = "default" =>
            Parsed(c, result[t].text).response.capability = c.request.capability
      BY <1>1, <1>2, ParsedTyped
    <3>3. r.error # "InvalidResponse"
      BY <1>2, <1>7, <3>1
    <3>4. c.provider = "model"
      BY <1>8, <2>3
    <3>5. QED
      BY <2>3, <3>1, <3>2, <3>3, <3>4
  <2>4. CASE c.via = "bare"
    <3>1. r.error = result[t].error
      BY <1>3, <2>4, BareTyped, <1>p
    <3>2. r.error # "InvalidResponse"
      BY <1>2, <1>7, <3>1
    <3>3. c.provider = "model"
      BY <1>8, <2>4
    <3>4. QED
      BY <2>4, <3>2, <3>3
  <2>5. QED
    BY <1>8, <2>1, <2>2, <2>3, <2>4
<1>10. QED
  BY <1>9 DEF InKind, c, r

\* The verdict is the text's own.
LEMMA DoneVerdict ==
  ASSUME NEW t \in Clients, ReplyInv(t), pc[t] = "done"
  PROVE  VerdictFromText(t)
<1> DEFINE c == call[t]
           p == Provided(c, result[t])
           r == reply[t]
           text == IF c.provider \in {"local", "model"} THEN result[t].text
                   ELSE ExtractRawText(p.response)
<1>1. CallTyped(t, c)
  BY DEF ReplyInv
<1>2. result[t].error \in {"none"} \cup Failures /\ IsText(result[t].text)
  BY DEF ReplyInv, Failures
<1>3. r = ReplyTo(c, result[t], p)
  BY DEF ReplyInv
<1>p. p = Provided(c, result[t])
  OBVIOUS
<1>4. /\ c.provider \in {"mock", "json", "local", "model"}
      /\ c.via \in IF c.provider = "model" THEN {"pipeline", "bare"} ELSE {"orchestrator", "extension"}
  BY <1>1 DEF CallTyped
<1> HIDE DEF c, p, r
<1>5. ASSUME c.via \in {"orchestrator", "pipeline"}, r.error = "none"
      PROVE  /\ IsText(text) /\ r.response = Parsed(c, text).response
             /\ c.via = "orchestrator" => r.raw = text
  <2>1. CASE c.via = "orchestrator"
    <3>1. /\ p.error # "none" => r.error = p.error
          /\ p.error = "none" => /\ IsText(p.response.text) /\ r = Parsed(c, p.response.text)
                                 /\ c.provider = "local" => p.response.text = result[t].text
      BY <1>1, <1>2, <1>3, <2>1, OrchestratedTyped, <1>p
    <3>2. text = p.response.text
      BY <1>4, <1>5, <2>1, <3>1 DEF ExtractRawText
    <3>3. QED
      BY <1>1, <1>5, <3>1, <3>2, ParsedTyped
  <2>2. CASE c.via = "pipeline"
    <3>1. r.response = Parsed(c, result[t].text).response
      BY <1>1, <1>2, <1>3, <1>5, <2>2, PipelineTyped, <1>p
    <3>2. text = result[t].text
      BY <1>4, <2>2
    <3>3. QED
      BY <1>2, <2>2, <3>1, <3>2
  <2>3. QED
    BY <1>5, <2>1, <2>2
<1> HIDE DEF text
<1>6. ASSUME IsText(text), r.response = Parsed(c, text).response,
             c.parser = "default", c.request.capability = "BuildSummary"
      PROVE  /\ ~r.response.success => Blank(text) \/ Denied(text)
             /\ ParseBuildSummary(ParseOutput(text)).success => r.response.success
  <2>1. r.response = ParseCapability("default", ParseOutput(text), "BuildSummary")
    BY <1>1, <1>6, ParsedTyped
  <2>2. r.response = ParseDefault(ParseOutput(text), "BuildSummary")
    BY <2>1 DEF ParseCapability
  <2>3. QED
    BY <1>6, <2>2, Verdict, Zenon
<1>7. QED
  BY <1>5, <1>6 DEF VerdictFromText, c, p, r, text

\* The order in which changes are reported does not reach the prompt's hash.
LEMMA DoneHash ==
  ASSUME NEW t \in Clients, ReplyInv(t), pc[t] = "done"
  PROVE  SameContextSameHash(t)
<1> DEFINE c == call[t]
           context == ContextFor(c.own, c.source)
<1>1. CallTyped(t, c)
  BY DEF ReplyInv
<1> HIDE DEF c
<1>2. IsContext(context) /\ IsRequest(c.request)
      /\ (c.via = "orchestrator" => Enriched(c).prompt = Assemble(context, c.request))
  BY <1>1, ContextTyped, EnrichedTyped, Zenon
<1> HIDE DEF context
<1>3. ASSUME c.via = "orchestrator", context.hash = ComputeHash(context),
             NEW other \in Reordered(context)
      PROVE  Enriched(c).prompt[2] = Assemble(WithHash(other), c.request)[2]
  <2>1. Assemble(WithHash(other), c.request)[2] = Assemble(context, c.request)[2]
    BY <1>2, <1>3, SameHash
  <2>2. QED
    BY <1>2, <1>3, <2>1
<1>4. QED
  BY <1>3 DEF SameContextSameHash, c, context

\* The answers of all threads, together
LEMMA Explained == OwnerInv /\ TypeInv => AnswerExplained
BY DoneInKind, DoneVerdict, DoneHash DEF TypeInv, AnswerExplained
-----------------------------------------------------------------------------
(* Types *)

\* Every reply has its type.
LEMMA DoneTyped ==
  ASSUME NEW t \in Clients, ReplyInv(t)
  PROVE  /\ reply[t].error \in {"none", "Provider", "InvalidResponse"} \cup Failures
         /\ reply[t].response.capability \in CapabilityKind \cup {"none"}
<1> DEFINE c == call[t]
           p == Provided(c, result[t])
           r == reply[t]
<1>1. CASE pc[t] # "done"
  BY <1>1, Answered DEF ReplyInv, NoReply
<1>2. CASE pc[t] = "done"
  <2>1. CallTyped(t, c)
    BY <1>2 DEF ReplyInv
  <2>2. result[t].error \in {"none"} \cup Failures /\ IsText(result[t].text)
    BY DEF ReplyInv, Failures
  <2>3. r = ReplyTo(c, result[t], p)
    BY <1>2 DEF ReplyInv
  <2>p. p = Provided(c, result[t])
    OBVIOUS
  <2>4. /\ c.via \in {"pipeline", "bare", "orchestrator", "extension"}
        /\ c.request.capability \in CapabilityKind
    BY <2>1, EnrichedTyped DEF CallTyped, IsRequest
  <2> HIDE DEF c, p, r
  <2>5. CASE c.via = "orchestrator"
    <3>1. /\ p.error # "none" => r.error = p.error /\ r.response = NoResponse
          /\ p.error = "none" => IsText(p.response.text) /\ r = Parsed(c, p.response.text)
          /\ p.error \in {"none", "Provider"} \cup Failures
      BY <2>1, <2>2, <2>3, <2>5, OrchestratedTyped, <2>p
    <3>2. p.error = "none" => r.error = "none" /\ r.response.capability \in CapabilityKind
      BY <2>1, <3>1, ParsedTyped
    <3>3. QED
      BY <3>1, <3>2, Answered DEF r
  <2>6. CASE c.via = "extension"
    <3>1. /\ r.error \in {"none", "Provider", "InvalidResponse"} \cup Failures
          /\ r.error = "none" => r.response.capability = c.request.capability
          /\ r.error # "none" => r.response = NoResponse
      BY <2>1, <2>2, <2>3, <2>6, ExtendedTyped, <2>p
    <3>2. QED
      BY <2>4, <3>1, Answered DEF r
  <2>7. CASE c.via = "pipeline"
    <3>1. /\ r.error = result[t].error
          /\ r.error # "none" => r.response = NoResponse
          /\ r.error = "none" => r.response = Parsed(c, result[t].text).response
      BY <2>1, <2>2, <2>3, <2>7, PipelineTyped, <2>p
    <3>2. Parsed(c, result[t].text).response.capability \in CapabilityKind
      BY <2>1, <2>2, ParsedTyped
    <3>3. QED
      BY <2>2, <3>1, <3>2, Answered DEF r
  <2>8. CASE c.via = "bare"
    <3>1. r.error = result[t].error /\ r.response = NoResponse
      BY <2>3, <2>8, BareTyped, <2>p
    <3>2. QED
      BY <2>2, <3>1, Answered DEF r
  <2>9. QED
    BY <2>4, <2>5, <2>6, <2>7, <2>8
<1>3. QED
  BY <1>1, <1>2

\* The invariants give every variable its type.
LEMMA Typed == IInv /\ TypeInv => TypeOK
<1> SUFFICES ASSUME IInv, TypeInv PROVE TypeOK
  OBVIOUS
<1>1. /\ backend \in BOOLEAN /\ wrapped \in BOOLEAN /\ callback \in {"sound", "poisoned"}
      /\ \A t \in Clients : ReplyInv(t)
  BY Zenon DEF TypeInv
<1>2. /\ kind \in Models /\ config \in Configs /\ lifecycle \in ProviderState
      /\ owner \in {"idle", "loading", "unloading", "unwound"}
  BY DEF IInv, OwnerInv
<1>3. /\ model \in {NoModel} \cup {LoadedConfig(c) : c \in Configs}
      /\ info \in ModelInfo
  BY DEF IInv, ReadyMeansLoaded, ModelInfo
<1>4. pc \in [Clients -> {"idle", "execute", "infer", "generate", "inferred", "done"}]
  BY DEF IInv, ThreadTypes, Labels
<1>5. ASSUME NEW t \in Clients
      PROVE  /\ inference[t].tokens \in PromptTokens \cup {0}
             /\ \A i \in DOMAIN inference[t].text : inference[t].text[i] \in Tokens
             /\ result[t].error \in {"none", "NotReady", "panicked"} \cup ProviderError
             /\ reply[t].error \in {"none", "NotReady", "panicked", "Provider", "InvalidResponse"}
                                      \cup ProviderError
             /\ reply[t].response.capability \in CapabilityKind \cup {"none"}
  <2>1. inference[t].text \in Seq(Tokens)
    BY DEF IInv, ThreadTypes, Inferences
  <2>2. inference[t].tokens \in PromptTokens \cup {0}
        /\ result[t].error \in {"none", "NotReady", "panicked"} \cup ProviderError
    BY <1>1 DEF ReplyInv
  <2>3. /\ reply[t].error \in {"none", "Provider", "InvalidResponse"} \cup Failures
        /\ reply[t].response.capability \in CapabilityKind \cup {"none"}
    BY <1>1, DoneTyped
  <2>4. \A i \in DOMAIN inference[t].text : inference[t].text[i] \in Tokens
    BY <2>1
  <2>5. QED
    BY <2>2, <2>3, <2>4 DEF Failures
<1>6. QED
  BY <1>1, <1>2, <1>3, <1>4, <1>5 DEF TypeOK

\* Initially nothing was asked or answered.
LEMMA InitTyped == Init => TypeInv
<1> SUFFICES ASSUME Init PROVE TypeInv
  OBVIOUS
<1>1. /\ backend = FALSE /\ wrapped = FALSE /\ callback = "sound"
  BY DEF Init, OwnedInit, ThreadsInit
<1>2. ASSUME NEW t \in Clients PROVE ReplyInv(t)
  <2>1. /\ pc[t] = "idle" /\ inference[t] = Idle /\ result[t] = NotAnswered /\ reply[t] = NoReply
    BY DEF Init, ThreadsInit
  <2>2. /\ Idle.tokens = 0 /\ Idle.prompt = << >>
        /\ NotAnswered.error = "none" /\ NotAnswered.text = << >>
    BY DEF Idle, NotAnswered
  <2>3. QED
    BY <2>1, <2>2, NoText DEF ReplyInv
<1>3. QED
  BY <1>1, <1>2 DEF TypeInv
\* What is true of a thread stays true while it does nothing, and nobody moves
\* the lifecycle while it is in a call.
LEMMA Untouched ==
  ASSUME NEW u \in Clients, ReplyInv(u),
         pc'[u] = pc[u], call'[u] = call[u], inference'[u] = inference[u],
         result'[u] = result[u], reply'[u] = reply[u],
         pc[u] = "idle" \/ lifecycle' = lifecycle
  PROVE  ReplyInv(u)'
<1>1. pc'[u] # "idle" => CallTyped(u, call'[u])
  BY DEF ReplyInv
<1>2. /\ inference'[u].tokens \in PromptTokens \cup {0} /\ IsText(inference'[u].prompt)
      /\ result'[u].error \in {"none", "NotReady", "panicked"} \cup ProviderError
      /\ IsText(result'[u].text)
  BY DEF ReplyInv
<1>3. pc'[u] \in {"inferred", "done"} /\ call'[u].provider = "local"
        => (result'[u].error = "NotReady" <=> lifecycle' # "Ready")
  BY DEF ReplyInv
<1>4. reply'[u] = IF pc'[u] = "done"
                  THEN ReplyTo(call'[u], result'[u], Provided(call'[u], result'[u])) ELSE NoReply
  BY DEF ReplyInv
<1>5. QED
  BY <1>1, <1>2, <1>3, <1>4, Zenon DEF ReplyInv

\* A step of one thread
LEMMA OneThread ==
  ASSUME TypeInv, NEW t \in Clients, ReplyInv(t)',
         \A u \in Clients \ {t} :
           /\ pc'[u] = pc[u] /\ call'[u] = call[u] /\ inference'[u] = inference[u]
           /\ result'[u] = result[u] /\ reply'[u] = reply[u],
         lifecycle' = lifecycle, wrapped' = wrapped,
         backend' \in BOOLEAN, callback' \in {"sound", "poisoned"}
  PROVE  TypeInv'
<1>1. ASSUME NEW u \in Clients PROVE ReplyInv(u)'
  <2>1. CASE u # t
    BY <2>1, Untouched DEF TypeInv
  <2>2. CASE u = t
    BY <2>2
  <2>3. QED
    BY <2>1, <2>2
<1>2. wrapped' \in BOOLEAN
  BY Zenon DEF TypeInv
<1>3. QED
  BY <1>1, <1>2 DEF TypeInv

\* What the model answers has its type.
LEMMA ModelAnswers ==
  ASSUME IInv, NEW t \in Clients, ReplyInv(t), pc[t] \in {"infer", "generate"},
         NEW error \in {"none", "panicked"} \cup ProviderError, NEW text, IsText(text),
         Answers(t, error, text), UNCHANGED <<call, lifecycle, reply>>,
         inference'[t].tokens = inference[t].tokens,
         inference'[t].prompt = inference[t].prompt
  PROVE  ReplyInv(t)'
<1>1. /\ pc'[t] = "inferred" /\ result'[t] = [error |-> error, text |-> text]
      /\ call'[t] = call[t] /\ reply'[t] = reply[t]
  BY DEF Answers, IInv, ThreadTypes
<1>2. result'[t].error = error /\ result'[t].text = text
  BY <1>1
<1>3. call[t].provider = "local" => lifecycle = "Ready"
  BY DEF IInv, CallInv
<1>4. "NotReady" \notin {"none", "panicked"} \cup ProviderError
  BY DEF ProviderError
<1>5. CallTyped(t, call'[t])
  BY <1>1 DEF ReplyInv
<1>6. reply'[t] = NoReply
  BY <1>1 DEF ReplyInv
<1>7. inference'[t].tokens \in PromptTokens \cup {0} /\ IsText(inference'[t].prompt)
  BY DEF ReplyInv
<1>8. QED
  BY <1>1, <1>2, <1>3, <1>4, <1>5, <1>6, <1>7 DEF ReplyInv

\* The other threads' part of a thread's step
LEMMA OthersKept ==
  ASSUME IInv, TypeInv, NEW t \in Clients,
         Ask(t) \/ Step(t) \/ Dismiss(t)
  PROVE  /\ \A u \in Clients \ {t} :
              /\ pc'[u] = pc[u] /\ call'[u] = call[u] /\ inference'[u] = inference[u]
              /\ result'[u] = result[u] /\ reply'[u] = reply[u]
         /\ lifecycle' = lifecycle /\ wrapped' = wrapped
         /\ backend' \in BOOLEAN /\ callback' \in {"sound", "poisoned"}
<1>0. backend \in BOOLEAN /\ callback \in {"sound", "poisoned"}
  BY Zenon DEF TypeInv
<1>1. CASE Ask(t)
  BY <1>0, <1>1, CallsMade DEF Ask, Calls, owned, IInv, ThreadTypes
<1>2. CASE ExecuteCanned(t) \/ ExecuteLocal(t)
  BY <1>0, <1>2 DEF ExecuteCanned, ExecuteLocal, Answers, owned, IInv, ThreadTypes
<1>3. CASE Infer(t) /\ UNCHANGED reply
  <2> USE <1>0, <1>3 DEF Answers, owned, IInv, ThreadTypes
  <2>1. CASE InferMock(t) \/ InferStub(t) \/ InferPanics(t) \/ InferFails(t)
    BY <2>1 DEF InferMock, InferStub, InferPanics, InferFails
  <2>2. CASE InferOther(t)
    BY <2>2 DEF InferOther
  <2>3. CASE InferNotLoaded(t)
    BY <2>3 DEF InferNotLoaded
  <2>4. CASE InferPrompt(t)
    BY <2>4 DEF InferPrompt
  <2>5. CASE GenerateEnds(t) \/ GenerateFails(t)
    BY <2>5 DEF GenerateEnds, GenerateFails
  <2>6. CASE GenerateToken(t)
    BY <2>6 DEF GenerateToken
  <2>7. CASE CallbackPanics(t)
    BY <2>7 DEF CallbackPanics
  <2>8. QED
    BY <2>1, <2>2, <2>3, <2>4, <2>5, <2>6, <2>7 DEF Infer
<1>4. CASE Return(t)
  BY <1>0, <1>4 DEF Return, owned, IInv, ThreadTypes
<1>5. CASE Dismiss(t)
  BY <1>0, <1>5 DEF Dismiss, owned, IInv, ThreadTypes
<1>6. QED
  BY <1>1, <1>2, <1>3, <1>4, <1>5 DEF Step

\* A thread inside the model
LEMMA InferTyped ==
  ASSUME IInv, NEW t \in Clients, ReplyInv(t), Infer(t), UNCHANGED reply
  PROVE  ReplyInv(t)'
<1>0. /\ IsText(inference[t].prompt) /\ IsText(<< >>)
      /\ inference[t].text \in Seq(Tokens)
  BY NoText DEF ReplyInv, IInv, ThreadTypes, Inferences
<1>1. IsText(<<Word>> \o inference[t].prompt) /\ IsText(inference[t].text)
  BY <1>0, WordPiece, TextConcat, TokensText
<1>2. /\ "NotLoaded" \in ProviderError /\ "ModelError" \in ProviderError
  BY DEF ProviderError
<1>3. CASE InferMock(t)
  <2>1. /\ pc[t] = "infer" /\ Answers(t, "none", <<Word>> \o inference[t].prompt)
        /\ UNCHANGED <<call, lifecycle, reply, inference>>
    BY <1>3 DEF InferMock, owned
  <2>2. QED
    BY <1>1, <2>1, ModelAnswers
<1>4. CASE InferStub(t)
  <2>1. /\ pc[t] = "infer"
        /\ Answers(t, "NotLoaded", << >>) \/ Answers(t, "none", <<Word>> \o inference[t].prompt)
        /\ UNCHANGED <<call, lifecycle, reply, inference>>
    BY <1>4 DEF InferStub, owned
  <2>2. QED
    BY <1>0, <1>1, <1>2, <2>1, ModelAnswers
<1>5. CASE InferOther(t)
  <2>1. /\ pc[t] = "infer" /\ UNCHANGED <<call, lifecycle, reply, inference>>
    BY <1>5 DEF InferOther, owned
  <2>2. CASE Answers(t, "ModelError", << >>)
    BY <1>0, <1>2, <2>1, <2>2, ModelAnswers
  <2>3. CASE \E text \in {<< >>} \cup {<<x>> : x \in Tokens} : Answers(t, "none", text)
    <3>1. PICK text \in {<< >>} \cup {<<x>> : x \in Tokens} : Answers(t, "none", text)
      BY <2>3
    <3>2. IsText(text)
      BY <1>0, OrchestratorAssumption
    <3>3. QED
      BY <2>1, <3>1, <3>2, ModelAnswers
  <2>4. QED
    BY <1>5, <2>2, <2>3 DEF InferOther
<1>6. CASE InferPanics(t)
  <2>1. /\ pc[t] = "infer" /\ Answers(t, "panicked", << >>)
        /\ UNCHANGED <<call, lifecycle, reply, inference>>
    BY <1>6 DEF InferPanics, owned
  <2>2. QED
    BY <1>0, <2>1, ModelAnswers
<1>7. CASE InferNotLoaded(t)
  <2>1. /\ pc[t] = "infer" /\ Answers(t, "NotLoaded", << >>)
        /\ UNCHANGED <<call, lifecycle, reply, inference>>
    BY <1>7 DEF InferNotLoaded
  <2>2. QED
    BY <1>0, <1>2, <2>1, ModelAnswers
<1>8. CASE InferFails(t)
  <2>1. /\ pc[t] = "infer" /\ Answers(t, "ModelError", << >>)
        /\ UNCHANGED <<call, lifecycle, reply, inference>>
    BY <1>8 DEF InferFails, owned
  <2>2. QED
    BY <1>0, <1>2, <2>1, ModelAnswers
<1>9. CASE InferPrompt(t)
  <2>1. PICK n \in PromptTokens : inference' = [inference EXCEPT ![t].tokens = n]
    BY <1>9 DEF InferPrompt
  <2>2. inference[t] \in Inferences(inference[t].prompt) /\ DOMAIN inference = Clients
    BY DEF IInv, ThreadTypes
  <2>3. inference'[t] = [inference[t] EXCEPT !.tokens = n]
    BY <2>1, <2>2
  <2>4. inference'[t].tokens = n /\ inference'[t].prompt = inference[t].prompt
    BY <2>2, <2>3 DEF Inferences
  <2>5. /\ pc[t] = "infer" /\ pc'[t] = "generate" /\ call'[t] = call[t]
        /\ result'[t] = result[t] /\ reply'[t] = reply[t]
    BY <1>9 DEF InferPrompt, IInv, ThreadTypes
  <2>6. CallTyped(t, call'[t]) /\ reply'[t] = NoReply
    BY <2>5 DEF ReplyInv
  <2>7. /\ result'[t].error \in {"none", "NotReady", "panicked"} \cup ProviderError
        /\ IsText(result'[t].text)
    BY <2>5 DEF ReplyInv
  <2>8. QED
    BY <1>0, <2>4, <2>5, <2>6, <2>7 DEF ReplyInv
<1>10. CASE GenerateEnds(t)
  <2>1. /\ pc[t] = "generate" /\ Answers(t, "none", inference[t].text)
        /\ UNCHANGED <<call, lifecycle, reply, inference>>
    BY <1>10 DEF GenerateEnds, owned
  <2>2. QED
    BY <1>1, <2>1, ModelAnswers
<1>11. CASE GenerateFails(t)
  <2>1. /\ pc[t] = "generate" /\ Answers(t, "ModelError", << >>)
        /\ UNCHANGED <<call, lifecycle, reply, inference>>
    BY <1>11 DEF GenerateFails, MoreToGenerate, owned
  <2>2. QED
    BY <1>0, <1>2, <2>1, ModelAnswers
<1>12. CASE GenerateToken(t)
  <2>1. PICK token \in Tokens : inference' = [inference EXCEPT ![t].text = Append(@, token)]
    BY <1>12 DEF GenerateToken
  <2>2. inference[t] \in Inferences(inference[t].prompt) /\ DOMAIN inference = Clients
    BY DEF IInv, ThreadTypes
  <2>3. inference'[t] = [inference[t] EXCEPT !.text = Append(inference[t].text, token)]
    BY <2>1, <2>2
  <2>4. /\ inference'[t].tokens = inference[t].tokens
        /\ inference'[t].prompt = inference[t].prompt
    BY <2>2, <2>3 DEF Inferences
  <2>5. pc[t] = "generate" /\ UNCHANGED <<call, lifecycle, reply>>
    BY <1>12 DEF GenerateToken, MoreToGenerate, owned
  <2>6. CASE Answers(t, "ModelError", << >>)
    BY <1>0, <1>2, <2>4, <2>5, <2>6, ModelAnswers
  <2>7. CASE UNCHANGED <<pc, result>>
    <3>1. CallTyped(t, call'[t]) /\ reply'[t] = NoReply
      BY <2>5, <2>7 DEF ReplyInv
    <3>2. /\ result'[t].error \in {"none", "NotReady", "panicked"} \cup ProviderError
          /\ IsText(result'[t].text) /\ pc'[t] = "generate"
          /\ inference'[t].tokens \in PromptTokens \cup {0} /\ IsText(inference'[t].prompt)
      BY <2>4, <2>5, <2>7 DEF ReplyInv
    <3>3. QED
      BY <3>1, <3>2 DEF ReplyInv
  <2>8. QED
    BY <1>12, <2>6, <2>7 DEF GenerateToken
<1>13. CASE CallbackPanics(t)
  <2>1. /\ pc[t] = "generate" /\ Answers(t, "panicked", << >>)
        /\ UNCHANGED <<call, lifecycle, reply, inference>>
    BY <1>13 DEF CallbackPanics, MoreToGenerate, owned
  <2>2. QED
    BY <1>0, <2>1, ModelAnswers
<1>14. QED
  BY <1>3, <1>4, <1>5, <1>6, <1>7, <1>8, <1>9, <1>10, <1>11, <1>12, <1>13 DEF Infer
\* A thread on its way to the model
LEMMA ExecuteTyped ==
  ASSUME IInv, NEW t \in Clients, ReplyInv(t), ExecuteCanned(t) \/ ExecuteLocal(t)
  PROVE  ReplyInv(t)'
<1>1. /\ pc[t] = "execute" /\ UNCHANGED <<call, inference, reply, lifecycle>>
      /\ call[t].provider \in {"mock", "json", "local"}
  BY DEF ExecuteCanned, ExecuteLocal, owned
<1>2. /\ CallTyped(t, call'[t]) /\ reply'[t] = NoReply
      /\ inference'[t].tokens \in PromptTokens \cup {0} /\ IsText(inference'[t].prompt)
  BY <1>1 DEF ReplyInv
<1>3. CASE pc'[t] \in {"infer", "inferred"} /\ result'[t] = result[t]
           /\ (call[t].provider = "local" => pc'[t] = "infer")
  <2>1. /\ result'[t].error \in {"none", "NotReady", "panicked"} \cup ProviderError
        /\ IsText(result'[t].text)
    BY <1>3 DEF ReplyInv
  <2>2. QED
    BY <1>1, <1>2, <1>3, <2>1 DEF ReplyInv
<1>4. CASE lifecycle # "Ready" /\ Answers(t, "NotReady", << >>)
  <2>1. pc'[t] = "inferred" /\ result'[t] = [error |-> "NotReady", text |-> << >>]
    BY <1>4 DEF Answers, IInv, ThreadTypes
  <2>2. result'[t].error = "NotReady" /\ IsText(result'[t].text)
    BY <2>1, NoText
  <2>3. QED
    BY <1>1, <1>2, <1>4, <2>1, <2>2 DEF ReplyInv
<1>5. QED
  BY <1>1, <1>3, <1>4 DEF ExecuteCanned, ExecuteLocal, IInv, ThreadTypes

\* A thread that returns
LEMMA ReturnTyped ==
  ASSUME IInv, NEW t \in Clients, ReplyInv(t), Return(t)
  PROVE  ReplyInv(t)'
<1>1. /\ pc[t] = "inferred" /\ pc'[t] = "done"
      /\ UNCHANGED <<call, inference, result, lifecycle>>
      /\ reply'[t] = ReplyTo(call[t], result[t], Provided(call[t], result[t]))
  BY DEF Return, owned, IInv, ThreadTypes
<1>2. /\ CallTyped(t, call'[t])
      /\ inference'[t].tokens \in PromptTokens \cup {0} /\ IsText(inference'[t].prompt)
      /\ result'[t].error \in {"none", "NotReady", "panicked"} \cup ProviderError
      /\ IsText(result'[t].text)
      /\ call'[t].provider = "local" => (result'[t].error = "NotReady" <=> lifecycle' # "Ready")
  BY <1>1 DEF ReplyInv
<1>3. QED
  BY <1>1, <1>2 DEF ReplyInv

\* A thread that has its answer
LEMMA DismissTyped ==
  ASSUME IInv, NEW t \in Clients, Dismiss(t)
  PROVE  ReplyInv(t)'
<1>1. /\ pc'[t] = "idle" /\ inference'[t] = Idle /\ result'[t] = NotAnswered /\ reply'[t] = NoReply
  BY DEF Dismiss, IInv, ThreadTypes
<1>2. /\ Idle.tokens = 0 /\ Idle.prompt = << >>
      /\ NotAnswered.error = "none" /\ NotAnswered.text = << >>
  BY DEF Idle, NotAnswered
<1>3. QED
  BY <1>1, <1>2, NoText DEF ReplyInv

\* A thread that asks
LEMMA AskTyped ==
  ASSUME IInv, NEW t \in Clients, ReplyInv(t), Ask(t)
  PROVE  ReplyInv(t)'
<1>1. PICK c : Calls(t, c) /\ CallTyped(t, c)
  BY CallsMade
<1>2. pc[t] = "idle" /\ UNCHANGED <<result, reply>>
  BY DEF Ask
<1>3. /\ call'[t] = c /\ inference'[t] = Begun(c)
      /\ pc'[t] \in {"infer", "execute"}
  BY <1>1 DEF Calls, IInv, ThreadTypes
<1>4. /\ Begun(c).tokens = 0 /\ Begun(c).prompt = Enriched(c).prompt
  BY DEF Begun, AdaptRequest
<1>5. IsText(Enriched(c).prompt)
  BY <1>1, EnrichedTyped DEF IsRequest
<1>6. /\ result'[t].error \in {"none", "NotReady", "panicked"} \cup ProviderError
      /\ IsText(result'[t].text) /\ reply'[t] = NoReply
  BY <1>2 DEF ReplyInv
<1>7. QED
  BY <1>1, <1>3, <1>4, <1>5, <1>6 DEF ReplyInv

\* Whatever the owner does, everybody is outside.
LEMMA OwnerTyped ==
  ASSUME IInv, TypeInv, Owner, UNCHANGED reply
  PROVE  TypeInv'
<1>0. backend \in BOOLEAN /\ wrapped \in BOOLEAN /\ callback \in {"sound", "poisoned"}
  BY Zenon DEF TypeInv
<1>1. (\A t \in Clients : pc[t] = "idle") /\ UNCHANGED threads
  BY OwnerExcludes
<1>2. \A t \in Clients : ReplyInv(t)'
  BY <1>1, Untouched DEF TypeInv, threads
<1>3. callback' \in {"sound", "poisoned"}
  BY <1>0, <1>1 DEF threads
<1>4. backend' \in BOOLEAN /\ wrapped' \in BOOLEAN
  BY <1>0 DEF Owner, Wrap, BeginLoad, EndLoad, ModelLoads, ModelLoadFails, LoadPanics, Remake,
              BeginUnload, EndUnload
<1>5. QED
  BY <1>2, <1>3, <1>4, Zenon DEF TypeInv

\* Every step keeps the types and the answers.
THEOREM StepTyped == IInv /\ TypeInv /\ [Next]_vars => TypeInv'
<1> SUFFICES ASSUME IInv, TypeInv, [Next]_vars PROVE TypeInv'
  OBVIOUS
<1>1. CASE Owner /\ UNCHANGED reply
  BY <1>1, OwnerTyped
<1>2. ASSUME NEW t \in Clients, Ask(t) \/ Step(t) \/ Dismiss(t) PROVE TypeInv'
  <2>1. ReplyInv(t)
    BY DEF TypeInv
  <2>2. CASE Ask(t)
    BY <2>1, <2>2, AskTyped, OthersKept, OneThread
  <2>3. CASE Step(t)
    BY <2>1, <2>3, ExecuteTyped, InferTyped, ReturnTyped, OthersKept, OneThread DEF Step
  <2>4. CASE Dismiss(t)
    BY <2>4, DismissTyped, OthersKept, OneThread
  <2>5. QED
    BY <1>2, <2>2, <2>3, <2>4
<1>3. CASE UNCHANGED vars
  <2>1. \A t \in Clients : ReplyInv(t)'
    BY <1>3, Untouched DEF TypeInv, vars
  <2>2. UNCHANGED <<backend, wrapped, callback>>
    BY <1>3 DEF vars
  <2>3. QED
    BY <2>1, <2>2, Zenon DEF TypeInv
<1>4. QED
  BY <1>1, <1>2, <1>3 DEF Next

\* What a thread holds is typed, and what it was answered is what the calls
\* it made give, throughout.
THEOREM TypesKept == Spec => []TypeInv
BY InitTyped, StepTyped, Invariance, PTL DEF Spec

\* Every variable has its type, whichever texts a model writes and whatever
\* the parsers make of them.
THEOREM TypeCorrect == Spec => []TypeOK
BY Typed, Invariance, TypesKept, PTL

\* Every answer is of the kind that was asked for or a failure that the call
\* and the provider explain, a verdict is the text's own, and the hash in the
\* prompt does not depend on the order in which changes are reported
\* (runtime/src/lib.rs, capability_parser.rs, context.rs), for any requests,
\* contexts, fixtures and texts.
THEOREM AnswerExplainedAlways == Spec => []AnswerExplained
<1>1. IInv => OwnerInv
  BY DEF IInv
<1>2. QED
  BY <1>1, Explained, Invariance, TypesKept, PTL
=============================================================================
