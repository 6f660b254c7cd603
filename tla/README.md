# Verification of cotrex-ai

TLA+ modules, TLC runs and TLAPS proofs for cotrex-ai: the kernel (event
stores, projections, observation pipeline), the execution engine and the agent
in front of it, and the runtime (lazy provider, local models, the pipeline from
request to answer, model manager). Paths below are relative to the repository's
root; line numbers are in `PROJECT.json` (`map`).

    tlc -workers 2 -config MCMemoryEventStore.cfg MCMemoryEventStore.tla
    tlapm MemoryEventStoreProofs.tla

## 1. The system

A Rust workspace. Components share memory and call each other; there are no
tasks, channels or timeouts, but every kernel object is `Send + Sync`, is
reached through `&self`, and keeps its state behind mutexes that are held for a
few lines. What is hard is therefore what two threads do between two locks,
what is left behind when one step of several fails, and what a reopened
directory finds after a crash.

| Component | State | Operations | Talks to | Hard part |
|---|---|---|---|---|
| `EventStore` trait (`kernel/src/store.rs`) | the log | append, replay, len, next_sequence | everything below | what "atomic" and "bounded snapshot" mean under concurrency |
| `MemoryEventStore` | vector and counter, a mutex each | as above | | two mutexes, capacity limit |
| `PersistentEventStore` (`kernel/src/persistent_store.rs`) | `events.log`, `meta.json`, cached `StoreMeta`, `BufWriter` | open, append, replay, verify | file system | crashes, torn lines, failing writes, stale metadata, replay beside an append |
| `FileChangeProjection`, `AiContextProjection` | table of files, recent changes, checkpoint, status | process_event, rebuild, initialize, start_processing, mark_failed, summary | store (replay) | failed rebuilds, a life before and after the engine |
| `ProjectionEngine` (`kernel/src/engine.rs`) | map of projections, one mutex | register, remove, start_processing, process_event, rebuild_all | projections, store | dispatch out of order, rebuild_all giving up half-way |
| `ObservationPipeline` (`kernel/src/observation`) | status, counters | lifecycle, process_observation | filter, translator, store | renames are two appends, status read once, counters updated late |
| `ExecutionEngine` and executors (`execution/src`) | none of its own: policy, registry, store | submit | store, file system, processes | action and log are not one transaction |
| `AgentController` (`agent/src`) | none; the mock provider's responses | process_goal, over planner, provider or parsed output | resolver, engine | same goal again is the same execution id |
| `LazyProvider` (`runtime/src/lazy_provider.rs`) | provider state, factory | execute, info, health | provider factory | initialisation outside the lock, panics inside it |
| `LocalProvider`, `ProviderLifecycle`, local models (`runtime/src`, `providers/llama-cpp`) | state of the provider, loaded model, callback | load, unload, infer, execute | llama.cpp | transitions nobody enforces, limits of the context window |
| `Orchestrator` and the other paths through the runtime (`runtime/src`) | none | context, prompt, execute, parse | provider, parsers of `capabilities` | which text, error and verdict survives |
| model manager (`runtime/src/model_manager`) | files in the cache directory, two registries | resolve, download, list, remove | network, file system | two downloads, one `.part` file; a user's entry over a built-in one |
| configuration (`runtime/src/config.rs`) | two files | load | | which value wins |
| mock and JSON provider (`providers`) | none that changes | execute, health | fixtures | |

What makes each component correct is listed with its run in section 4; the
hazards behind the properties, each at its line, are `hazards` in
`PROJECT.json`.

## 2. Modules

    EventStore      the promise of the trait                 (abstract)
      ^ implemented by, and proved to be
    MemoryEventStore        PersistentEventStore             both EXTEND EventLog

    Projection   <- ProjectionEngine                         log = an EventStore
    ObservationPipeline                                      log = an EventStore
    ExecutionEngine, AgentDecision  <- AgentController       log = an EventStore

    ModelOutput  <- Capability  <- LocalProvider  <- Orchestrator
                  ResolvedConfig  <-'

    LazyProvider            ModelDownload                    each on its own

`<-` is EXTENDS. `MC*.tla` give the constants small values, one `.cfg` per run;
`*Proofs.tla` have the theorems of the module they are named after.

The stores are modelled step by step and shown to implement `EventStore.tla`.
The components above them then use what that promises: their `log` is appended
to in one step, or the append fails and changes nothing. The one promise a
persistent store breaks (an append that fails and is in the log, section 5)
is stated at its own run.

Every module follows the same conventions. `pc` (or `status`) is the place in
the source a thread has reached; one action is what a thread does between two
points where another thread can be observed: a lock, an unlock, a file-system
call. An action named after no source function is a part of the one in its
section's heading. Definitions commented "Variant" are the mistakes the
properties are tested against and are used by no specification.

### EventStore, EventLog

`EventStore` states an append as call, commit, acknowledge (or a failure
before the commit), a replay as the committed events at one moment after the
call, `len` and `next_sequence` as one look at the log, and a crash as losing
the calls and no event. `EventLog` has events and the operations both stores
perform on a list of them. Event ids and timestamps are left out; the stores
never read them.

### MemoryEventStore

`append` is lock events, test capacity, lock next_sequence, push, advance;
`replay` is lock and take the snapshot end, collect. Both mutexes are variables
holding their owner. Poisoning is left out: nothing under the locks panics
while the system clock is after 1970.

### PersistentEventStore

The file is its complete lines and the bytes after the last newline (`tail`),
which are nothing, the beginning of an event, a whole event without its newline,
or garbage. `BufWriter` holds what is left of each line. `append` takes the
metadata mutex, numbers the event and buffers its line, flushes, advances the
metadata, rewrites `meta.json`. `open` is scan, resolve, rewrite metadata,
create the log. `Faults` chooses what the environment may do: the process dies
at any step, a write stops half-way, a write fails (the `BufWriter` keeps the
rest), writing `meta.json` fails, `meta.json` is damaged while the store is
closed: lost, or replaced by any two numbers (but for a next sequence of 0). A
file with the log's own next sequence and a wrong count is taken over as it is
(section 5), and so is any file when there is no log. Three history variables
say what the last `open` took over: `first`, the sequence of the first event,
`miscount`, what it counted more than the log holds, and `undercounted`, whether
any `open` counted less.
Not modelled: power loss (the code never syncs, so any acknowledged event may
go), two processes on one directory, lines longer than the `BufWriter`'s
buffer, I/O errors of reads.

### Projection, ProjectionEngine

`Projection` has the two projections as records and their methods as
operators, and beside them the reference definitions of what a table of files
and a list of recent changes should be (`FilesOf`, `RecentOf`: no fold, no
state). `ProjectionEngine` puts them behind the engine's mutex with threads
that append and then dispatch. `rebuild_all` goes through the projections in
any order (a `HashMap`), may fail at any of them and holds the mutex
throughout; process_event is one step under the same mutex. A projection that
is not registered is `held`: made by its owner, or taken out with `remove`. Its
owner may call every method of the trait on it, `mark_failed` included (the
engine itself never calls it), hand it any event of the log, out of order and
more than once (`process_event` looks neither at the status nor at the
checkpoint), and registers it in whatever state it is in. The history fields
`fed` and `handed` of a projection are the events it was given since it was made
or last cleared, and whether its owner gave it one out of turn.

### ObservationPipeline

One action per stage of `process_observation`; a rename's two payloads are
appended in two steps, each of which may fail. Paths are sequences of
components, so that the filter's prefix and component tests are the code's. The
filter looks at the new path of a rename only, as the code does.
`SetStatus` is the five lifecycle methods, which all go through `set_status`.

### ExecutionEngine, AgentDecision, AgentController

`submit` is validate and look up, append Requested, perform, append the
terminal event, return. The executors act on files that other threads change
too: a write truncates and then writes through a handle (which a concurrent
delete turns into a handle of an unlinked file), a delete looks and then
removes, a command starts and exits with zero, with another code, by a signal,
or never. A file is the set of contents it has bytes of, plus `Torn` when it is
cut short, so that two writers can mix. A crash leaves log and files and drops
the threads. The engine's policy and registry are chosen at the start
(`Setups`): the usual ones, a policy without commands, and a registry with a
missing and a wrong executor.

`AgentDecision` has the three sources of an agent's decision as functions: the
planner (a goal is its first word and the rest), the mock provider's table of
responses, and the parser of a model's output with its error cases.
`AgentController` lets a goal take any of them, and adds the resolver, the
submission and the answer. Not modelled: symlinks, directories as targets, and
commands that change the modelled files.

### LazyProvider

`ensure_ready` is one step under the state's mutex (a provider known, or the
factory taken), the factory's run with no mutex, and one step that publishes;
`execute` then runs the provider with the mutex held, so that step has a
beginning and an end. The factory's own mutex is taken under the state's and
never waited for. Factory and provider may succeed, fail, panic or never
return. A panic under the mutex poisons it, and who locks it later panics.
What the provider answers is left out.

### ModelOutput, Capability, ResolvedConfig

Functions without state. A text is a sequence of pieces, of the kinds the
parsers tell apart (blank, text without braces, a JSON value, an object, text
that only begins like one); `ModelOutput` parses it as the runtime's output
parser and the three capability parsers do. `Capability` has requests and their
preparation (context, hash, prompt) and what the mock and the JSON provider
answer. `ResolvedConfig` merges the machine's and the project's file over the
defaults; a file may be absent, unreadable or malformed.

### LocalProvider, Orchestrator

`LocalProvider` is one model and the provider that may own it. `load` and
`unload` take `&mut self`: one owner calls them, step by step (state to
Loading, the model's own load, state to Ready or Failed), while no thread is
inside; a model may also be loaded before it is given to the provider, or make
its owner panic between two states. `infer` and `execute` run in any number of
threads: the state is read, the model is asked, `LlamaCppModel` checks that
prompt and answer fit the window and then produces a token per step, each of
which goes to the callback, if its mutex can be locked, before it is appended to
the text. A callback may panic over a token: it has then seen one that the text
never gets.
`Orchestrator` adds the four ways a caller gets to a provider and the parsing
of what comes back.

### ModelDownload

The user's registry replaces entries of the built-in one and adds others
(`Merged`), is listed (`Listed`, `ListInstalled`) and says what is checked: an
entry is its id, size and checksum, the user's in place of the program's. Files
are inodes with names (`final`, `part`) and handles, because a rename moves the
name under which another process has a file open. A body is a few chunks, the
first of which carries the magic; the checksum of an entry is the content that
has it, or none, and may be one that no content has. The checks open the file
by name each time; `verify_sha256` reads chunk by chunk while others may write.
Any call to the network or the file system may fail (`CallFails`,
`ReceiveFails`); a process may die at any step. `overlapped` and `broken` are
history variables the properties are conditioned on. Not modelled: a missing
home directory, progress callbacks, and of an entry the URL (the server may
send anything) and the file name (it is one name throughout: the user's
registry is read at the start and not edited while the program runs).

## 3. Plan

Done, in the order of importance: the stores, projections, observation,
execution and agent, lazy provider, model manager, local models and the
runtime's pipeline; the proofs of section 6. What could still be added, in this
order:

1. `LazyProvider` in front of `LocalProvider`: the two are modelled apart, the
   first over any provider.
2. Agent and projections over the log of a `PersistentEventStore` that was
   reopened, in place of the log of `EventStore`.

## 4. Runs

Every property has a mutant in `PROJECT.json`: a plausible mistake in a mapped
definition with which TLC finds it violated.

| Run | Instance | Distinct states |
|---|---|---|
| `memory_store` | 2 threads, 2 payloads, capacity 3 | 15 thousand |
| `persistent_faults` | 2 threads, 1 payload, capacity 2, all faults, one failing write, 4 kinds of damaged metadata: lost, of another store, and two that count wrongly for the log they number | 1.2 million |
| `persistent_refines` | 2 threads, 2 payloads, capacity 3, crashes | 88 thousand |
| `projections` | 2 threads, 2 projections in and outside the engine, 1 path, 2 events, one failing replay, up to 2 events fed to each held projection | 744 thousand |
| `observation` | 2 threads, 2 observations each, store may fail | 854 thousand |
| `agent_execution` | 2 threads, 1 file, 2 contents, 9 model outputs, 2 canned responses, 2 calls in all, one crash, 3 setups | 111 thousand |
| `lazy_provider` | 3 threads, no bound | 6 thousand |
| `model_download` | 2 processes, model of 3 chunks, 4 bodies, 4 user registries | 85 thousand (up to symmetry) |
| `inference` | 2 threads, 4 kinds of model, mock, JSON and local provider, configurations read from files | 194 thousand |
| `persistent_meta_fails`, `projection_order`, `delete_idempotent` | as above, smaller | until the violation |

What they show:

* `memory_store`: no two acknowledged appends share a sequence and each stays
  where its sequence says (`AcknowledgedOnce`); whoever can take the counter
  finds it one past the vector (`CounterMatchesLog`); contention does not get
  past the capacity (`WithinCapacity`); every interleaving is one `EventStore`
  allows (`KeepsPromise`); a thread always gives the first mutex back although
  it waits for the second under it (`LockReleased`).
* `persistent_faults`: whatever happens, an acknowledged event is in the file
  as long as the file can be read at all (`AcknowledgedSurvives`), a replay
  that returns Ok leaves no acknowledged event of its range out
  (`ReplayComplete`), with one exception: a store whose `open` took over a count
  that was too small and says 0 replays nothing. As long as no write has failed,
  an open store numbers on from the last event of its log, and its count is off
  by exactly what a damaged file made `open` believe: no crash, no repair and no
  metadata the store wrote itself ever makes it wrong, and while no count was
  too small the log is within the capacity (`CacheAgreesWithLog`). A readable
  log is numbered without a gap or a repetition, from 1 unless `open` found
  damaged metadata and no log, and a replay that reads it finds fault with it
  just when it was asked to start before the first event, from 0 for one
  (`LogVerifies`). The condition "no write has failed" is real: after a failed
  flush the `BufWriter` writes the failed event before the next one with the
  same sequence; replay then reports ordering corruption, which
  `ReplayComplete` still admits and `LogVerifies` would not.
* `persistent_refines`: with crashes only, the store implements `EventStore`.
* `projections`: a projection in any status is exactly what the events it was
  fed since it was made or rebuilt make of it, in whatever order and however
  often it was fed them; one that was not started since, and whose owner fed it
  nothing out of turn, is the replay of the log up to its checkpoint, registered
  or held, and also when its rebuild failed (`RebuiltIsReplay`); the summary
  lists as many changes as there were, up to the limit, each of a file it
  counts, and never says Idle (`SummaryConsistent`); Ok of rebuild_all means
  all of them are Initialized (`OkMeansInitialized`); it always ends
  (`EngineReleased`).
* `observation`: what a call returned is what it committed
  (`OkMeansCommitted`); every event is of an observation whose path is in scope
  and is on that path, or is the deletion of the old name of a rename, the only
  event that may lie out of scope (`ChangesInScope`; it also shows what the code
  leaves out: nothing is recorded of a rename that leaves the scope); the
  counters count the calls that returned Ok or rejected and the events of the
  former, which is not what RFC-0003 says of them (`CountersExact`, section 5);
  calls return (`CallReturns`).
* `agent_execution`: the events of a call are a prefix of its story and tell
  its reply (`LogTellsReply`); nothing is done before it is recorded, or
  without a grant (`RecordedBeforeDone`); every content in a file was
  requested and a file cut short belongs to a write that is not Completed
  (`FilesExplained`); the agent answers what the log says, whoever decided
  (`AnswerMatchesLog`); a goal without a command is answered
  (`FileGoalAnswered`).
* `lazy_provider`: the factory runs at most once and a Ready provider is what
  it made (`MadeOnce`); the answer "loading" is only given after the factory
  was taken, a failure only when it failed, a panic only to the thread whose
  factory panicked or after a provider's panic (`ReplyExplained`); nobody waits
  for the factory (`NotBlockedByLoading`). The run also shows what the code
  accepts: after a panic of the factory the provider is Loading for good.
* `model_download`: as long as calls follow one another, whatever bears the
  model's name has passed the checks of the entry in force, the user's before
  the built-in one, and what is listed as installed is there
  (`PublishedVerified`). Calls that overlap share the `.part` file and can
  publish it half-written; when every transfer is whole, what nobody writes any
  more is the model (`PublishedWhenQuiet`). Both conditions are real: with an
  overlap and a crash a truncated file stays published, and later downloads
  report it (magic or checksum) or, without a checksum, accept it, because the
  size is tested only before the rename; they never repair it.
* `inference`: although most transitions of `ProviderState` are unguarded, no
  call leaves Loading or Unloading behind, and a Ready provider has the model
  its own configuration names (`ReadyMeansLoaded`; that the info's name is the
  configuration's is what the code does and not what RFC-0008 says, section 5);
  generation stays in the window and under the limit, and a callback sees the
  beginning of the text, in order and without a gap, and one token more only if
  it panics over it (`GenerationSound`); an answer is of the capability asked
  for, its verdict is the text's own, a context that holds its hash is sent
  with the same one in whatever order its changes come (`AnswerExplained`);
  every call comes back (`CallReturns`).

Bounds. Two threads are what every race here needs: each invariant relates one
call to the calls that overtake it, and no code counts threads. The capacity is
above the number of events one thread needs to be overtaken and is reached;
the persistent store goes through several openings per behaviour because a
crash or a close costs no bounded resource, so recovery from a recovery is
covered. One path is enough for `projections`, because a projection's entry for
a path depends on that path alone; `RecentLimit` is 1 in place of 10 so that
the list overflows within two events. Two calls in `agent_execution` are two
racing executions, or one that crashes and one that finds what it left; files
may exist beforehand (`Old`), so that two deletes can race. The outputs and
goals are one of each kind the parsers and the planner tell apart. In
`inference` the windows of the configurations are such that a prompt fits, just
fits, and does not, and the limits are 0, 1 and 2 tokens; calls are not
counted. Constants named `Max...`, `FlushFailures`, `ReplayFailures` and
`Capacity` bound the runs and nothing else. `observation` and the runs of
`AgentController` stop when their calls are used up, so deadlock is not checked
there; it is in all the others.

The lazy provider is bounded by its state alone, a third thread lets one wait
while another loads and a third looks. `Inodes` is enough for both names and
both handles, so no step of `model_download` is held up by it.

Fairness. Each thread that is inside a call goes on (weak fairness of the
call's own steps), which is what an operating system's scheduler gives a thread
that is not blocked. In `inference` this includes that llama.cpp and the
caller's callback return, which the code relies on. Nothing obliges a caller to
call, an owner to load or unload, a mutex to be handed out in turns, a factory
or a command to end: a command's exit has no fairness because
`Command::output` has no timeout. The refinements and the invariants do not use
fairness.

## 5. Where documents and code differ

Three runs show a disagreement, and `findings` quotes the lines:

* `persistent_meta_fails`: an append returns an error although its event is in
  the log and keeps its sequence (RFC-0001, 4.2; the comment of `append`).
* `projection_order`: events are processed in the order they are dispatched,
  not in sequence order, and one in flight during a rebuild can be counted
  twice (RFC-0002, 4).
* `delete_idempotent`: of two racing deletes the slower one fails (comment of
  `FileDeleteExecutor`).

`findings` also lists what was met while modelling and has no run of its own:

* kernel: `open` repairs metadata with a wrong next sequence and keeps one with
  a wrong count; a replay from 0 fails on a persistent store that has events; a
  projection whose rebuild failed cannot be rebuilt again, and
  AiContext stays Processing, emptied, when one fails; the status Idle cannot
  be reached; a rename whose second append fails leaves a Deleted event of an
  observation that was an error, and is not counted; a rename is filtered by its
  new path alone;
* execution and agent: a command killed by a signal is Completed with exit code
  0; an executor under the wrong action leaves a Requested event without a
  terminal one; the planner puts file names in lower case;
* runtime: an unload that fails calls `failed()` from a state its comment
  excludes; every text of a local provider is answered as a build summary;
  success and recommendation of a typed answer are lost in the orchestrator,
  which composes the pipeline by hand and builds prompts; `{}` is a success to
  one parser and a failure to another, warnings of both are dropped; the name of
  a loaded model is the configuration's, not the file's; a callback
  that panicked is skipped from then on without a word; no protocol version is
  compared;
* model manager: a built-in checksum of 63 digits that no download can match,
  and a test that expects one built-in model where there are two.

## 6. Proofs

Everything here holds for every value of the constants: any threads, payloads,
files, models, configurations, any number of failures. The assumptions are the
`ASSUME`s of the modules, and only say what the constants are (a capacity is a
number or `Unbounded`, `NoOne` is no thread, a text is a sequence of pieces, a
fixture that can be read has the type it is read as). None of the invariants
proved is inductive by itself; each module has its strengthening at its end
(`IInv`, and where types need an argument of their own `TypeInv`), and each
proof module has `InitInv`, one lemma per action or per conjunct, `StepInv`,
`Invariance` and the theorems that follow from it.

* `MemoryEventStoreProofs`: the four invariants of `memory_store`, and
  `Refinement`: `Spec => KeepsPromise`. `IInv` adds who holds which mutex at
  which step (`LockInv`), that the vector is numbered without gaps, that the
  counter is one past it except between push and advance (`CounterInv`), what
  a thread's `mark` is (`MarkInv`), that whoever passed the capacity test still
  passes it (`CapacityInv`). `Refinement` maps each action to one of
  `EventStore` or to a stutter; its one real step is that collecting the events
  `1..mark` of a gapless vector is `EventsIn` of its payloads.
* `PersistentEventStoreProofs`: all five invariants of `persistent_faults`,
  under every combination of faults and any number of failing writes, and
  `Refinement` where processes die and nothing else goes wrong. The argument
  has two layers. Whatever happens: a file with a line that is no event stays
  `Broken` for good and every reader is told; otherwise each event is in the
  buffer or in the file (`BufferInv`, `AppendInv`), an acknowledged one is
  `Stored`, and a sequence up to which a replay has read is `Past`, that is,
  the file reaches it and the store will number above it, through every
  recovery (`ReplayInv`, `AckedInv`, `MetaInv`); that `open` cannot forget
  either comes from the last event of an unbroken file having the greatest
  sequence (`FileInv`). As long as no write has failed: the buffer holds one
  event at most, the file is numbered by position from `first` (`NumberInv`),
  its length is what the next sequence in memory says, plus one while a thread
  has written its event and not yet counted it (`LengthInv`, `Written`), and
  every count, in memory or in a `meta.json`, is off by `miscount` or by what
  some damaged file was off by (`CountInv`). What a replay selects of a log
  numbered that way starts at the first event or at the one it was asked for
  (`SelectStarting`).
* `ProjectionEngineProofs`: `TypeOK`, `RebuiltIsReplay`, `SummaryConsistent`
  and `OkMeansInitialized`. The heart is `AfterEachDef` and the lemmas before
  it: what a projection holds after a replay is a fold over the log, and is
  shown, by induction on the length of the log, to be what `FilesOf` and
  `RecentOf` say of it without a fold: the status of the last change of a path,
  the number of its changes, the last `RecentLimit` changes, newest first. The
  invariant says of each projection that it is made of what it was fed since
  its last rebuild and whether this still is a beginning of the log, of a
  rebuild how far it has got, and of AiContext that it remembers as many
  changes as its files count.
* `ObservationPipelineProofs`: `TypeOK`, `OkMeansCommitted`, `ChangesInScope`,
  `CountersExact`. What a call has committed (a filter of the log, extended by
  each append of its own and by nobody else's) and what it has still to append
  make up the translation of its observation; a call that returns moves one
  element between the sets the counters count.
* `AgentControllerProofs`: the five invariants of `agent_execution`. What the
  log holds of a call depends only on where its thread is (`CallInv`,
  `OneStory`), and a file that is cut short always has a write that the log
  will not call Completed (`FilesInv`). `TypeOK` needs more than types: that
  fewer than `MaxCalls` calls so far leave a number for the next (`Made`,
  counted as a finite set), and that an outcome, a handle and an answer belong
  to one place of the thread each (`Placed`).
* `LazyProviderProofs`: `TypeOK`, `MadeOnce`, `ReplyExplained`. `StateInv`: the
  factory is there exactly in Uninitialized, it has been run once otherwise,
  and a call past `ensure_ready` or a poisoned mutex means Ready.
* `OrchestratorProofs`: the four invariants of `inference`. The owner's calls
  exclude the threads' (`OwnerInv`), the lifecycle follows the owner's step,
  and what a thread generates only that thread touches (`CallInv`). A reply is
  what the way back makes of the call and of the provider's answer, and that
  answer is a text the constants allow or a failure the lifecycle explains
  (`ReplyInv`); so `AnswerExplained` is about functions, and is proved of them
  for every text, request and context. The parsers take a text for a sequence
  of pieces, of which the one they read their fields from is in the text itself
  (`Extracted`, from a least and a greatest solid piece: `Trimmed`); a failing
  verdict is therefore blank or said (`Verdict`). Reordered changes have the
  bag of the changes, because a permutation maps the positions of an element
  one to one (`SameBag`), so their hash is equal (`SameHash`).
* `ModelDownloadProofs`: `TypeOK`, `PublishedVerified`, `PublishedWhenQuiet`.
  The registry lookup comes first: merging the user's registry into the
  program's is a fold that replaces or appends, and `EntryAlways` shows by
  induction over the user's entries that what is found afterwards is the last
  one the user wrote of that id, or else the program's. For `PublishedVerified`,
  a process that is alone finds what it has checked unchanged at its next step
  (`AloneInv`). For `PublishedWhenQuiet`, as long as transfers are whole, every
  named file is the model, or a process that has written the chunks it has so
  far will write the rest (`QuietInv`): whoever truncates the file last is one.

Inductions over the length of a sequence are done without the library's
induction theorems, whose operator parameter the provers cannot instantiate: a
lemma `SetInduction` says that a set of numbers that has 0 and each successor
has them all (from `WFMin` and the well-foundedness of `<`), and the set is the
numbers for which the statement holds.

Only model-checked is liveness (`LockReleased`, `EngineReleased`,
`CallReturns`, `FileGoalAnswered`, `NotBlockedByLoading`), which is outside what
the prover does.

## 7. Not modelled

The examples, which print what providers answer. `AgentContext`, request
metadata, provider info and the protocol version, which nothing reads. Texts:
the wording of prompts, answers, errors and summaries. Of llama.cpp, sampling,
chat templates and profiling: what it returns is a choice. Power loss, symlinks
and directories, commands that change the modelled files, and two processes on
one store directory. `PROJECT.json` lists each component with its reason.
