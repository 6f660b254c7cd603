----------------------------- MODULE Projection -----------------------------
(***************************************************************************)
(* One projection and what its methods do to it: FileChangeProjection      *)
(* (kernel/src/projection.rs) and AiContextProjection                      *)
(* (kernel/src/ai_context.rs).  Both fold the FileChanged events into a    *)
(* table of files; AiContext also keeps the last changes, newest last.     *)
(* A projection's three mutexes are not modelled: the engine that owns it  *)
(* calls its methods one at a time.                                        *)
(***************************************************************************)
EXTENDS Naturals, Sequences, FiniteSetsExt

CONSTANTS
  Paths,
  Operations,  \* FileOperation
  OtherEvent,  \* the payload of an event that is not FileChanged
  RecentLimit  \* how many recent changes AiContext keeps (10)

ASSUME ProjectionAssumption == RecentLimit \in Nat

Names == {"FileChange", "AiContext"}
Statuses == {"Created", "Initialized", "Processing", "Failed", "Rebuilding"}
Change == [path : Paths, operation : Operations]
EventPayload == Change \cup {OtherEvent}

CanTransition(from, to) ==
  <<from, to>> \in
    { <<"Created", "Initialized">>,
      <<"Initialized", "Processing">>, <<"Initialized", "Rebuilding">>,
      <<"Processing", "Failed">>, <<"Processing", "Rebuilding">>,
      <<"Failed", "Rebuilding">>,
      <<"Rebuilding", "Initialized">> }

(* start_processing and mark_failed: both projections ask the table first.  *)
CanStart(p) == CanTransition(p.status, "Processing")
CanFail(p) == CanTransition(p.status, "Failed")
SetStatus(p, next) == [p EXCEPT !.status = next]

(* fed and handed are history, which no method reads: the events processed *)
(* since p was made or last cleared, and whether one of them was handed to  *)
(* it out of turn by whoever holds it.                                      *)
New ==
  [status |-> "Created", checkpoint |-> 0, files |-> << >>, recent |-> << >>,
   fed |-> << >>, handed |-> "next"]

Cleared(p) == [New EXCEPT !.status = p.status]

(* files as a function of the paths that have an entry                      *)
Entry(files, path) ==
  IF path \in DOMAIN files THEN files[path].change_count ELSE 0

Touched(files, change) ==
  [q \in DOMAIN files \cup {change.path} |->
     IF q = change.path
     THEN [last_operation |-> change.operation, change_count |-> Entry(files, q) + 1]
     ELSE files[q]]

\* Variant: drops the oldest change as soon as the list is full.
PushedShort(recent, change) ==
  LET longer == Append(recent, change)
  IN  IF Len(longer) >= RecentLimit THEN Tail(longer) ELSE longer

Pushed(recent, change) ==
  LET longer == Append(recent, change)
  IN  IF Len(longer) > RecentLimit THEN Tail(longer) ELSE longer

(* FileChangeProjection::process_event                                      *)
ProcessedFileChange(p, sequence, payload) ==
  [p EXCEPT !.checkpoint = sequence,
            !.files = IF payload = OtherEvent THEN @ ELSE Touched(@, payload),
            !.fed = Append(@, payload)]

(* AiContextProjection::process_event                                       *)
ProcessedAiContext(p, sequence, payload) ==
  [p EXCEPT !.checkpoint = sequence,
            !.files = IF payload = OtherEvent THEN @ ELSE Touched(@, payload),
            !.recent = IF payload = OtherEvent THEN @ ELSE Pushed(@, payload),
            !.fed = Append(@, payload)]

Processed(name, p, sequence, payload) ==
  IF name = "AiContext" THEN ProcessedAiContext(p, sequence, payload)
  ELSE ProcessedFileChange(p, sequence, payload)

(* What p becomes as it processes the events 1, 2, ... of log: at 0 it is p. *)
AfterEach(name, p, log) ==
  LET after[i \in 0 .. Len(log)] ==
        IF i = 0 THEN p ELSE Processed(name, after[i - 1], i, log[i])
  IN  after

\* Variant: replays on top of what the projection already holds.
ReplayedOnto(name, p, log) == AfterEach(name, p, log)[Len(log)]

(* The rebuild of p from the events of log, but for its status.             *)
Replayed(name, p, log) == AfterEach(name, Cleared(p), log)[Len(log)]

(* rebuild moves a FileChange projection that is past Created to Rebuilding *)
(* first, and is refused where the lifecycle does not allow that; AiContext *)
(* leaves its status alone.                                                 *)
RebuildRefused(name, p) ==
  name = "FileChange" /\ p.status # "Created" /\ ~CanTransition(p.status, "Rebuilding")

RebuildStatus(name, p) ==
  IF name = "FileChange" /\ p.status # "Created" THEN "Rebuilding" ELSE p.status

(* What rebuild leaves behind when the replay succeeds, and when it fails.  *)
Rebuilt(name, p, log) ==
  IF name = "FileChange" THEN SetStatus(Replayed(name, p, log), "Initialized")
  ELSE Replayed(name, p, log)

RebuildFailed(name, p) == SetStatus(Cleared(p), RebuildStatus(name, p))

(* initialize: rebuild, and AiContext sets its status without asking.       *)
Initialized(name, p, log) == SetStatus(Rebuilt(name, p, log), "Initialized")

-----------------------------------------------------------------------------
(* What a projection is asked for *)

FileCount(p) == Cardinality(DOMAIN p.files)

WorkspaceStatus == {"Empty", "Active", "Idle"}

AiContextSummary ==
  [workspace_status : WorkspaceStatus, recent_changes : Seq(Change),
   file_count : Nat, total_changes : Nat]

(* AiContextProjection::summary                                             *)
Summary(p) ==
  [ workspace_status |->
      IF FileCount(p) = 0 THEN "Empty" ELSE IF p.recent = << >> THEN "Idle" ELSE "Active",
    recent_changes |-> p.recent,
    file_count |-> FileCount(p),
    total_changes |-> MapThenSumSet(LAMBDA path : p.files[path].change_count, DOMAIN p.files) ]

-----------------------------------------------------------------------------
(* Reference definitions: what a projection of the events of log should be. *)

FilesOf(log) ==
  LET At(path) == {i \in DOMAIN log : log[i] # OtherEvent /\ log[i].path = path}
      Latest(path) == CHOOSE i \in At(path) : \A j \in At(path) : j <= i
  IN  [path \in {q \in Paths : At(q) # {}} |->
         [last_operation |-> log[Latest(path)].operation,
          change_count |-> Cardinality(At(path))]]

ChangesIn(log) == {i \in DOMAIN log : log[i] # OtherEvent}

Least(m, n) == IF m <= n THEN m ELSE n

(* The last changes of log, at most RecentLimit of them, the newest last:   *)
(* a change that k others came after is the k-th from the end.              *)
IsRecentOf(recent, log) ==
  LET Later(i) == Cardinality({j \in ChangesIn(log) : j > i})
      n == Len(recent)
  IN  /\ n = Least(Cardinality(ChangesIn(log)), RecentLimit)
      /\ \A i \in ChangesIn(log) : Later(i) < n => recent[n - Later(i)] = log[i]
=============================================================================
