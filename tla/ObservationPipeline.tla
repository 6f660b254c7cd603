------------------------ MODULE ObservationPipeline ------------------------
(***************************************************************************)
(* ObservationPipeline (kernel/src/observation): watcher threads hand raw  *)
(* observations to one shared pipeline, which checks that it is Watching,  *)
(* filters the path, translates the observation into one or two payloads   *)
(* and appends them one by one to the event store.  The status and the     *)
(* counters have a mutex each that is held for one access, so a thread can *)
(* be overtaken between any two of these steps, by other observations and  *)
(* by the owner who stops, fails or recovers the pipeline.  The store is   *)
(* what EventStore.tla promises: an append takes effect once or fails.     *)
(***************************************************************************)
EXTENDS Naturals, Sequences, FiniteSets

CONSTANTS
  Clients,       \* the watcher threads
  Observations,  \* the raw observations they hand over
  Root,          \* the project root, a prefix of the paths in scope
  Ignored,       \* the path components that match an ignore pattern, a hidden,
                 \* temporary or swap file
  MaxCalls       \* bounds the observations of one thread

ASSUME PipelineAssumption == MaxCalls \in Nat /\ IsFiniteSet(Clients)

VARIABLES
  status,
  accepted, rejected, events_created,  \* PipelineStats
  log,     \* the store: the committed events, each with the call it is from
  pc,
  seen,    \* per thread: the observations it has handed over, the last one now
  todo,    \* per thread: the payloads it has still to append
  result   \* per thread: what each of its calls returned (history)

stats == <<accepted, rejected, events_created>>
vars == <<status, stats, log, pc, seen, todo, result>>

calls(c) == Len(seen[c])
observation(c) == seen[c][calls(c)]

Statuses == {"Created", "Initializing", "Watching", "Failed", "Stopped"}

CanTransition(from, to) ==
  <<from, to>> \in
    { <<"Created", "Initializing">>, <<"Initializing", "Watching">>,
      <<"Watching", "Failed">>, <<"Failed", "Initializing">>,
      <<"Watching", "Stopped">> }

(* An observation is a path, what happened to it, and for a rename the path *)
(* it had.  A path is the sequence of its components.                       *)
Observation(path, operation, from) ==
  [path |-> path, operation |-> operation, from |-> from]

Under(path, root) ==
  Len(path) >= Len(root) /\ SubSeq(path, 1, Len(root)) = root

(* ObservationFilter: in the root, and no component below it is ignored     *)
InScope(path) ==
  /\ Under(path, Root)
  /\ \A i \in Len(Root) + 1 .. Len(path) : path[i] \notin Ignored

\* Variant: judges a rename by the path the file had.
AcceptsOldPath(o) == InScope(IF o.operation = "Renamed" THEN o.from ELSE o.path)

Accepts(o) == InScope(o.path)

FileChanged(path, operation) == [path |-> path, operation |-> operation]

(* Translator *)
Translate(o) ==
  IF o.operation = "Renamed"
  THEN << FileChanged(o.from, "Deleted"), FileChanged(o.path, "Created") >>
  ELSE << FileChanged(o.path, o.operation) >>

-----------------------------------------------------------------------------
Init ==
  /\ status = "Created"
  /\ accepted = 0 /\ rejected = 0 /\ events_created = 0
  /\ log = << >>
  /\ pc = [c \in Clients |-> "idle"]
  /\ seen = [c \in Clients |-> << >>]
  /\ todo = [c \in Clients |-> << >>]
  /\ result = [c \in Clients |-> << >>]

(* initialize, start_watching, mark_failed, recover and stop *)
SetStatus(next) ==
  /\ CanTransition(status, next)
  /\ status' = next
  /\ UNCHANGED <<stats, log, pc, seen, todo, result>>

-----------------------------------------------------------------------------
(* process_observation *)

Call(c) ==
  /\ pc[c] = "idle"
  /\ calls(c) < MaxCalls
  /\ \E o \in Observations : seen' = [seen EXCEPT ![c] = Append(@, o)]
  /\ pc' = [pc EXCEPT ![c] = "check"]
  /\ UNCHANGED <<status, stats, log, todo, result>>

Return(c, r) ==
  /\ pc' = [pc EXCEPT ![c] = "idle"]
  /\ todo' = [todo EXCEPT ![c] = << >>]
  /\ result' = [result EXCEPT ![c] = Append(@, r)]

\* Variant: records the error without returning.
CheckStatusGoesOn(c) ==
  /\ pc[c] = "check"
  /\ pc' = [pc EXCEPT ![c] = "filter"]
  /\ result' = IF status = "Watching" THEN result ELSE [result EXCEPT ![c] = Append(@, "not_watching")]
  /\ UNCHANGED <<status, stats, log, seen, todo>>

CheckStatus(c) ==
  /\ pc[c] = "check"
  /\ IF status = "Watching"
     THEN pc' = [pc EXCEPT ![c] = "filter"] /\ UNCHANGED <<todo, result>>
     ELSE Return(c, "not_watching")
  /\ UNCHANGED <<status, stats, log, seen>>

Reject(c) ==
  /\ pc[c] = "filter"
  /\ ~Accepts(observation(c))
  /\ rejected' = rejected + 1
  /\ Return(c, "rejected")
  /\ UNCHANGED <<status, accepted, events_created, log, seen>>

Accept(c) ==
  /\ pc[c] = "filter"
  /\ Accepts(observation(c))
  /\ todo' = [todo EXCEPT ![c] = Translate(observation(c))]
  /\ pc' = [pc EXCEPT ![c] = "append"]
  /\ UNCHANGED <<status, stats, log, seen, result>>

(* The event, with the call that made it for the properties to refer to     *)
EventOf(c, payload) == [payload |-> payload, from |-> <<c, calls(c)>>]

AppendEvent(c) ==
  /\ pc[c] = "append"
  /\ todo[c] # << >>
  /\ log' = Append(log, EventOf(c, Head(todo[c])))
  /\ todo' = [todo EXCEPT ![c] = Tail(@)]
  /\ UNCHANGED <<status, stats, pc, seen, result>>

\* Variant: goes on with the next payload.
AppendFailsIgnored(c) ==
  /\ pc[c] = "append"
  /\ todo[c] # << >>
  /\ todo' = [todo EXCEPT ![c] = Tail(@)]
  /\ UNCHANGED <<status, stats, log, pc, seen, result>>

\* Variant: starts over.
AppendFailsRetries(c) ==
  /\ pc[c] = "append"
  /\ todo[c] # << >>
  /\ pc' = [pc EXCEPT ![c] = "check"]
  /\ todo' = [todo EXCEPT ![c] = << >>]
  /\ UNCHANGED <<status, stats, log, seen, result>>

(* Backpressure or a storage failure: what was appended stays appended.     *)
AppendFails(c) ==
  /\ pc[c] = "append"
  /\ todo[c] # << >>
  /\ Return(c, "error")
  /\ UNCHANGED <<status, stats, log, seen>>

\* Variant: counts one event for each observation.
CountOne(c) ==
  /\ pc[c] = "append"
  /\ todo[c] = << >>
  /\ accepted' = accepted + 1
  /\ events_created' = events_created + 1
  /\ Return(c, "ok")
  /\ UNCHANGED <<status, rejected, log, seen>>

Count(c) ==
  /\ pc[c] = "append"
  /\ todo[c] = << >>
  /\ accepted' = accepted + 1
  /\ events_created' = events_created + Len(Translate(observation(c)))
  /\ Return(c, "ok")
  /\ UNCHANGED <<status, rejected, log, seen>>

Step(c) ==
  \/ CheckStatus(c) \/ Reject(c) \/ Accept(c)
  \/ AppendEvent(c) \/ AppendFails(c) \/ Count(c)

Next ==
  \/ \E next \in Statuses : SetStatus(next)
  \/ \E c \in Clients : Call(c) \/ Step(c)

Spec == Init /\ [][Next]_vars

(* A thread inside process_observation runs on.                             *)
FairSpec == Spec /\ \A c \in Clients : WF_vars(Step(c))
-----------------------------------------------------------------------------
(* Properties *)

Payloads == UNION {{Translate(o)[i] : i \in DOMAIN Translate(o)} : o \in Observations}

(* Every variable has its type, and a thread holds payloads only while it   *)
(* is appending them.                                                       *)
TypeOK ==
  /\ status \in Statuses
  /\ accepted \in Nat /\ rejected \in Nat /\ events_created \in Nat
  /\ log \in Seq([payload : Payloads, from : Clients \X (1 .. MaxCalls)])
  /\ pc \in [Clients -> {"idle", "check", "filter", "append"}]
  /\ seen \in [Clients -> Seq(Observations)]
  /\ result \in [Clients -> Seq({"not_watching", "rejected", "error", "ok"})]
  /\ \A c \in Clients :
       /\ todo[c] # << >> => pc[c] = "append"
       /\ Len(result[c]) = IF pc[c] = "idle" THEN calls(c) ELSE calls(c) - 1

(* The calls that have returned r; the events of a call, and which of them  *)
(* one is                                                                   *)
Returned(r) ==
  {call \in Clients \X (1 .. MaxCalls) :
     call[2] <= Len(result[call[1]]) /\ result[call[1]][call[2]] = r}

EventsOf(call) == {i \in DOMAIN log : log[i].from = call}

Position(call, i) == Cardinality({j \in EventsOf(call) : j <= i})

(* What a call owes the log                                                 *)
Owed(call) ==
  LET o == seen[call[1]][call[2]]
  IN  IF o.operation = "Renamed"
      THEN << [path |-> o.from, operation |-> "Deleted"],
              [path |-> o.path, operation |-> "Created"] >>
      ELSE << [path |-> o.path, operation |-> o.operation] >>

(* The call has committed what it owes, up to the n-th event, in this order. *)
Committed(call, n) ==
  /\ Cardinality(EventsOf(call)) = n
  /\ \A i \in EventsOf(call) : log[i].payload = Owed(call)[Position(call, i)]

(* However the threads interleave, a call that returned Ok has committed    *)
(* exactly the events of its observation, the old name of a rename before   *)
(* the new one; a call that returned an error has committed fewer, from the *)
(* first on; a rejected one none.                                           *)
OkMeansCommitted ==
  /\ \A call \in Returned("ok") : Committed(call, Len(Owed(call)))
  /\ \A call \in Returned("error") : \E n \in 0 .. Len(Owed(call)) - 1 : Committed(call, n)
  /\ \A call \in Returned("rejected") \cup Returned("not_watching") : Committed(call, 0)

(* One of the payloads of an observation whose path passes the filter: it is *)
(* on that path, or the old name of a rename, deleted.                      *)
Explains(o, payload) ==
  /\ InScope(o.path)
  /\ \/ payload.path = o.path
     \/ o.operation = "Renamed" /\ payload.path = o.from /\ payload.operation = "Deleted"

(* An event in the log is of an observation whose path is in scope, and it   *)
(* is on this path; one that is not is the deletion of the old name by a     *)
(* rename.  So no plain deletion, creation or modification out of scope is   *)
(* recorded, and nothing of a rename that goes out of scope.                 *)
ChangesInScope ==
  \A i \in DOMAIN log :
    LET call == log[i].from
    IN  Explains(seen[call[1]][call[2]], log[i].payload)

(* The counters are exact under any interleaving and any failure: accepted  *)
(* and rejected count calls that returned so, and events_created the events *)
(* in the log of the calls that returned Ok.  (RFC-0003, section 13, counts *)
(* every observation that passed the filter and every payload appended; the *)
(* code counts neither when an append fails.)                               *)
CountersExact ==
  /\ accepted = Cardinality(Returned("ok"))
  /\ rejected = Cardinality(Returned("rejected"))
  /\ events_created = Cardinality({i \in DOMAIN log : log[i].from \in Returned("ok")})

(* Every call returns, whatever the owner does to the status meanwhile.     *)
CallReturns == \A c \in Clients : pc[c] # "idle" ~> pc[c] = "idle"

-----------------------------------------------------------------------------
(* The strengthening that makes OkMeansCommitted, ChangesInScope and         *)
(* CountersExact inductive                                                  *)

InCall(c) == <<c, calls(c)>>

\* The events of the log are of calls that were made, and of a call that has
\* not reached the store there are none.
CallsInv ==
  /\ \A c \in Clients : calls(c) <= MaxCalls
  /\ \A i \in DOMAIN log : log[i].from[2] <= calls(log[i].from[1])
  /\ \A c \in Clients : pc[c] \in {"check", "filter"} => EventsOf(InCall(c)) = {}

\* What a thread has appended and what it has still to append are, one after
\* the other, what its observation is translated to.
InProgress(c) ==
  LET n == Cardinality(EventsOf(InCall(c)))
  IN  /\ n + Len(todo[c]) = Len(Translate(observation(c)))
      /\ Committed(InCall(c), n)
      /\ \A i \in DOMAIN todo[c] : todo[c][i] = Translate(observation(c))[n + i]

\* What a thread has still to append passed the filter.
TodoInv ==
  /\ todo \in [Clients -> Seq(Payloads)]
  /\ \A c \in Clients :
       /\ \A i \in DOMAIN todo[c] : Explains(observation(c), todo[c][i])
       /\ pc[c] = "append" => InProgress(c)

IInv == TypeOK /\ CallsInv /\ TodoInv /\ OkMeansCommitted /\ ChangesInScope /\ CountersExact

=============================================================================
