-------------------------- MODULE ProjectionEngine --------------------------
(***************************************************************************)
(* ProjectionEngine (kernel/src/engine.rs): the registered projections     *)
(* behind one mutex, beside an event store.  Nothing connects the two but  *)
(* their users: a thread appends an event and then hands the event it was  *)
(* returned to the engine, and other threads append, start, replace and    *)
(* rebuild projections in between.  Whoever made a projection, or took it  *)
(* out with remove, holds it and may call its methods itself until it is   *)
(* registered (again).  The store is what EventStore promises              *)
(* (EventStore.tla): appends and replays take effect at one moment.        *)
(***************************************************************************)
EXTENDS Projection

CONSTANTS
  Clients,
  NoOne,
  MaxEvents,      \* bounds the log
  MaxProjections, \* bounds the projections in and outside the engine
  MaxFed,         \* bounds the events a projection that is held was fed
  ReplayFailures  \* how many replays may fail

ASSUME EngineAssumption ==
  /\ NoOne \notin Clients
  /\ MaxEvents \in Nat
  /\ MaxProjections \in Nat
  /\ MaxFed \in Nat
  /\ ReplayFailures \in Nat

VARIABLES
  log,          \* the store: its committed payloads
  projections,  \* the registered projections, by name
  held,         \* the projections outside the engine, by name
  engine_lock,  \* the thread that holds the mutex of projections
  pc,           \* per thread: idle, about to dispatch, or in rebuild_all
  event,        \* per thread: the sequence of the event it is about to dispatch, or 0
  todo,         \* per thread: the projections its rebuild_all has still to do
  failures      \* how many more replays may fail

threads == <<pc, event, todo>>
vars == <<log, projections, held, engine_lock, threads, failures>>

Registered == DOMAIN projections

Init ==
  /\ log = << >>
  /\ projections = << >>
  /\ held = << >>
  /\ engine_lock = NoOne
  /\ pc = [c \in Clients |-> "idle"]
  /\ event = [c \in Clients |-> 0]
  /\ todo = [c \in Clients |-> {}]
  /\ failures = ReplayFailures

With(name, p) == [m \in Registered \cup {name} |-> IF m = name THEN p ELSE projections[m]]

Hold(name, p) == [m \in {name} |-> p]

Register(name) ==
  /\ engine_lock = NoOne
  /\ name \in DOMAIN held
  /\ projections' = With(name, held[name])
  /\ held' = << >>
  /\ UNCHANGED <<log, engine_lock, threads, failures>>

(* One projection at most is held; one that is not is dropped.              *)
Remove(name) ==
  /\ engine_lock = NoOne
  /\ name \in Registered
  /\ projections' = [m \in Registered \ {name} |-> projections[m]]
  /\ held' \in {held, Hold(name, projections[name])}
  /\ UNCHANGED <<log, engine_lock, threads, failures>>

StartProcessing(name) ==
  /\ engine_lock = NoOne
  /\ name \in Registered
  /\ CanStart(projections[name])
  /\ projections' = [projections EXCEPT ![name] = SetStatus(@, "Processing")]
  /\ UNCHANGED <<log, held, engine_lock, threads, failures>>

-----------------------------------------------------------------------------
(* Outside the engine *)

Create(name) ==
  /\ held = << >>
  /\ Cardinality(Registered) < MaxProjections
  /\ held' = Hold(name, New)
  /\ UNCHANGED <<log, projections, engine_lock, threads, failures>>

(* process_event looks neither at the status nor at the checkpoint: whoever *)
(* holds the projection hands it any event, again too.                      *)
HeldProcessEvent(name) ==
  /\ Len(held[name].fed) < MaxFed
  /\ \E next \in DOMAIN log :
       held' = Hold(name, [Processed(name, held[name], next, log[next]) EXCEPT
                             !.handed = IF next = held[name].checkpoint + 1 THEN @
                                        ELSE "any"])
  /\ UNCHANGED failures

HeldRebuild(name) ==
  /\ ~RebuildRefused(name, held[name])
  /\ held' \in {Hold(name, Rebuilt(name, held[name], log)),
                Hold(name, Initialized(name, held[name], log))}
  /\ UNCHANGED failures

HeldRebuildFails(name) ==
  /\ failures > 0
  /\ ~RebuildRefused(name, held[name])
  /\ failures' = failures - 1
  /\ held' = Hold(name, RebuildFailed(name, held[name]))

HeldStartProcessing(name) ==
  /\ CanStart(held[name])
  /\ held' = Hold(name, SetStatus(held[name], "Processing"))
  /\ UNCHANGED failures

HeldMarkFailed(name) ==
  /\ CanFail(held[name])
  /\ held' = Hold(name, SetStatus(held[name], "Failed"))
  /\ UNCHANGED failures

(* The Projection trait, but for its getters                                *)
HeldCall ==
  /\ \E name \in DOMAIN held :
       \/ HeldProcessEvent(name) \/ HeldRebuild(name) \/ HeldRebuildFails(name)
       \/ HeldStartProcessing(name) \/ HeldMarkFailed(name)
  /\ UNCHANGED <<log, projections, engine_lock, threads>>

-----------------------------------------------------------------------------
(* A thread appends an event and dispatches it. *)

AppendEvent(c) ==
  /\ pc[c] = "idle"
  /\ Len(log) < MaxEvents
  /\ \E payload \in EventPayload : log' = Append(log, payload)
  /\ event' = [event EXCEPT ![c] = Len(log) + 1]
  /\ pc' = [pc EXCEPT ![c] = "dispatch"]
  /\ UNCHANGED <<projections, held, engine_lock, todo, failures>>

(* process_event, and process_event_collect_errors with nothing to collect  *)
ProcessEvent(c) ==
  /\ pc[c] = "dispatch"
  /\ engine_lock = NoOne
  /\ projections' =
       [m \in Registered |->
          IF projections[m].status = "Processing"
          THEN Processed(m, projections[m], event[c], log[event[c]])
          ELSE projections[m]]
  /\ event' = [event EXCEPT ![c] = 0]
  /\ pc' = [pc EXCEPT ![c] = "idle"]
  /\ UNCHANGED <<log, held, engine_lock, todo, failures>>

-----------------------------------------------------------------------------
(* rebuild_all holds the mutex until it returns. *)

\* Variant: takes a list of the projections and gives the mutex back.
RebuildBeginUnlocked(c) ==
  /\ pc[c] = "idle"
  /\ engine_lock = NoOne
  /\ todo' = [todo EXCEPT ![c] = Registered]
  /\ pc' = [pc EXCEPT ![c] = "rebuild"]
  /\ UNCHANGED <<log, projections, held, engine_lock, event, failures>>

RebuildBegin(c) ==
  /\ pc[c] = "idle"
  /\ engine_lock = NoOne
  /\ engine_lock' = c
  /\ todo' = [todo EXCEPT ![c] = Registered]
  /\ pc' = [pc EXCEPT ![c] = "rebuild"]
  /\ UNCHANGED <<log, projections, held, event, failures>>

RebuildReturn(c) ==
  /\ engine_lock' = NoOne
  /\ todo' = [todo EXCEPT ![c] = {}]
  /\ pc' = [pc EXCEPT ![c] = "idle"]

RebuildOne(c, name) ==
  /\ pc[c] = "rebuild"
  /\ name \in todo[c]
  /\ ~RebuildRefused(name, projections[name])
  /\ projections' = [projections EXCEPT ![name] = Initialized(name, @, log)]
  /\ todo' = [todo EXCEPT ![c] = @ \ {name}]
  /\ UNCHANGED <<log, held, engine_lock, pc, event, failures>>

\* Variant: goes on with the next projection when a replay fails.
RebuildOneFailsOn(c, name) ==
  /\ pc[c] = "rebuild"
  /\ name \in todo[c]
  /\ failures > 0
  /\ ~RebuildRefused(name, projections[name])
  /\ failures' = failures - 1
  /\ projections' = [projections EXCEPT ![name] = RebuildFailed(name, @)]
  /\ todo' = [todo EXCEPT ![c] = @ \ {name}]
  /\ UNCHANGED <<log, held, engine_lock, pc, event>>

(* The replay of one projection fails: rebuild_all gives up the rest.       *)
RebuildOneFails(c, name) ==
  /\ pc[c] = "rebuild"
  /\ name \in todo[c]
  /\ failures > 0
  /\ ~RebuildRefused(name, projections[name])
  /\ failures' = failures - 1
  /\ projections' = [projections EXCEPT ![name] = RebuildFailed(name, @)]
  /\ RebuildReturn(c)
  /\ UNCHANGED <<log, held, event>>

\* Variant: tries a projection that refuses again until it accepts.
RebuildOneRefusedRetries(c, name) ==
  /\ pc[c] = "rebuild"
  /\ name \in todo[c]
  /\ RebuildRefused(name, projections[name])
  /\ UNCHANGED vars

RebuildOneRefused(c, name) ==
  /\ pc[c] = "rebuild"
  /\ name \in todo[c]
  /\ RebuildRefused(name, projections[name])
  /\ RebuildReturn(c)
  /\ UNCHANGED <<log, projections, held, event, failures>>

RebuildEnd(c) ==
  /\ pc[c] = "rebuild"
  /\ todo[c] = {}
  /\ RebuildReturn(c)
  /\ UNCHANGED <<log, projections, held, event, failures>>

RebuildAll(c) ==
  \/ RebuildEnd(c)
  \/ \E name \in todo[c] :
       RebuildOne(c, name) \/ RebuildOneFails(c, name) \/ RebuildOneRefused(c, name)

Next ==
  \/ HeldCall
  \/ \E name \in Names : Create(name) \/ Register(name) \/ Remove(name) \/ StartProcessing(name)
  \/ \E c \in Clients : AppendEvent(c) \/ ProcessEvent(c) \/ RebuildBegin(c) \/ RebuildAll(c)

Spec == Init /\ [][Next]_vars

(* A rebuild_all that has the mutex runs on; no other call has to be made.  *)
FairSpec == Spec /\ \A c \in Clients : WF_vars(RebuildAll(c))
-----------------------------------------------------------------------------
(* Properties *)

FileRecord == [last_operation : Operations, change_count : Nat \ {0}]

IsInstance(p) ==
  /\ p = [status |-> p.status, checkpoint |-> p.checkpoint, files |-> p.files,
          recent |-> p.recent, fed |-> p.fed, handed |-> p.handed]
  /\ p.status \in Statuses
  /\ p.checkpoint \in Nat
  /\ p.files \in [DOMAIN p.files -> FileRecord] /\ DOMAIN p.files \subseteq Paths
  /\ p.recent \in Seq(Change)
  /\ p.fed \in Seq(EventPayload)
  /\ p.handed \in {"next", "any"}

(* Every variable has its type, rebuild_all alone holds the mutex across    *)
(* steps, and no list of projections outlives the mutex it was read under.  *)
TypeOK ==
  /\ log \in Seq(EventPayload)
  /\ Registered \subseteq Names
  /\ \A name \in Registered : IsInstance(projections[name])
  /\ DOMAIN held \subseteq Names
  /\ \A name \in DOMAIN held : IsInstance(held[name])
  /\ engine_lock \in Clients \cup {NoOne}
  /\ pc \in [Clients -> {"idle", "dispatch", "rebuild"}]
  /\ event \in [Clients -> 0 .. Len(log)]
  /\ todo \in [Clients -> SUBSET Names]
  /\ failures \in 0 .. ReplayFailures
  /\ \A c \in Clients :
       /\ engine_lock = c <=> pc[c] = "rebuild"
       /\ todo[c] \subseteq Registered

MadeOfFed(name, p) ==
  /\ p.files = FilesOf(p.fed)
  /\ IF name = "AiContext" THEN IsRecentOf(p.recent, p.fed) ELSE p.recent = << >>

Replays(p, es) == p.checkpoint <= Len(es) /\ p.fed = SubSeq(es, 1, p.checkpoint)

NotStarted(p) == p.status \in {"Created", "Initialized", "Rebuilding"}

Accounted(name, p) == MadeOfFed(name, p) /\ (NotStarted(p) /\ p.handed = "next" => Replays(p, log))

(* A projection in any status is exactly what the events it was fed since   *)
(* it was made or rebuilt make of it, whatever their order and however      *)
(* often: a rebuild, even one that failed, leaves nothing of the state it   *)
(* had.  One that was not started since is the replay of the log up to its  *)
(* checkpoint: no event that was in flight during the rebuild is counted on *)
(* top of it, only what its holder handed it out of turn.                   *)
RebuiltIsReplay ==
  /\ \A name \in Registered : Accounted(name, projections[name])
  /\ \A name \in DOMAIN held : Accounted(name, held[name])

Consistent(p) ==
  LET summary == Summary(p)
      n == Len(summary.recent_changes)
  IN  /\ summary \in AiContextSummary
      /\ n = Least(summary.total_changes, RecentLimit)
      /\ Cardinality({summary.recent_changes[i].path : i \in 1..n}) <= summary.file_count
      /\ \A i \in 1..n : summary.recent_changes[i].path \in DOMAIN p.files
      /\ RecentLimit > 0 => summary.workspace_status # "Idle"

(* The summary of AiContext is consistent in every state, rebuilt, started, *)
(* failed, or fed out of order: it lists as many recent changes as there    *)
(* were, up to the limit, and a file for each of them; it never says Idle.  *)
SummaryConsistent ==
  /\ "AiContext" \in Registered => Consistent(projections["AiContext"])
  /\ "AiContext" \in DOMAIN held => Consistent(held["AiContext"])

(* When rebuild_all returns Ok, all of its list done, every registered      *)
(* projection is Initialized, whatever the other threads registered,        *)
(* removed, started or dispatched since it was called.                      *)
OkMeansInitialized ==
  [][\A c \in Clients :
       pc[c] = "rebuild" /\ todo[c] = {} /\ pc'[c] = "idle" =>
         \A name \in DOMAIN projections' : projections'[name].status = "Initialized"]_vars

(* rebuild_all gives the engine back, whatever fails.                       *)
EngineReleased == \A c \in Clients : engine_lock = c ~> engine_lock # c

-----------------------------------------------------------------------------
(* The strengthening that makes TypeOK, RebuiltIsReplay and                 *)
(* SummaryConsistent inductive and gives OkMeansInitialized                 *)

\* The changes AiContext remembers are as many as its files count, up to the
\* limit, and on those files; FileChange remembers none.
Tallied(name, p) ==
  /\ IsFiniteSet(DOMAIN p.files)
  /\ IF name = "AiContext"
     THEN /\ Len(p.recent) = Least(Summary(p).total_changes, RecentLimit)
          /\ \A i \in DOMAIN p.recent : p.recent[i].path \in DOMAIN p.files
     ELSE p.recent = << >>

TalliedInv ==
  /\ \A name \in Registered : Tallied(name, projections[name])
  /\ \A name \in DOMAIN held : Tallied(name, held[name])

\* An event to dispatch is in the log, and a rebuild_all has Initialized what
\* it has done.
ThreadsInv ==
  \A c \in Clients :
    /\ pc[c] = "dispatch" => event[c] > 0
    /\ pc[c] # "rebuild" => todo[c] = {}
    /\ pc[c] = "rebuild" =>
         \A name \in Registered \ todo[c] : projections[name].status = "Initialized"

IInv == TypeOK /\ ThreadsInv /\ TalliedInv /\ RebuiltIsReplay

-----------------------------------------------------------------------------
(* What the documents say and the code does not do *)

(* A projection that is Processing processes events in sequence order.      *)
InSequenceOrder ==
  [][\A name \in Registered \cap DOMAIN projections' :
       projections[name].status = "Processing" /\ projections'[name].status = "Processing"
         /\ failures' = failures =>
           projections'[name].checkpoint >= projections[name].checkpoint]_vars
=============================================================================
