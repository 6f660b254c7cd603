-------------------------- MODULE MemoryEventStore --------------------------
(***************************************************************************)
(* MemoryEventStore (kernel/src/store.rs), the store every other component *)
(* of the kernel is tested with: a vector of events and the next sequence  *)
(* number, each behind a mutex of its own.  append takes the two mutexes   *)
(* in turn and holds both until it returns; replay and len take the first, *)
(* next_sequence takes the second.  One action is what a thread does       *)
(* between two points where another thread can be seen to run.  Poisoned   *)
(* mutexes are not modelled: nothing panics under these locks unless the   *)
(* system clock is set before 1970.                                        *)
(***************************************************************************)
EXTENDS EventLog

CONSTANTS
  Clients, StartSequences,
  Capacity,   \* with_capacity(n), or Unbounded for new()
  Unbounded,
  NoOne       \* the owner of a mutex that is free

ASSUME StoreAssumption ==
  /\ Unbounded \notin Nat
  /\ Capacity \in Nat \cup {Unbounded}
  /\ StartSequences \subseteq Nat
  /\ NoOne \notin Clients

VARIABLES
  events,         \* the vector
  next_sequence,
  events_lock,    \* the thread that holds the mutex of events
  sequence_lock,  \* the thread that holds the mutex of next_sequence
  request, reply, \* what each thread last called, and what it was answered
  pc,             \* the next step of each thread
  mark            \* the sequence of the event a thread pushed, or its replay's snapshot_end

vars == <<events, next_sequence, events_lock, sequence_lock, request, reply, pc, mark>>

(* How far a thread's call is, for the users of the trait.                  *)
PhaseOf(label) ==
  CASE label = "idle" -> "idle"
    [] label = "advance" -> "committed"
    [] label = "collect" -> "reading"
    [] OTHER -> "called"

Promise == INSTANCE EventStore WITH
  log <- PayloadsOf(events),
  phase <- [c \in Clients |-> PhaseOf(pc[c])]

Init ==
  /\ events = << >>
  /\ next_sequence = 1
  /\ events_lock = NoOne
  /\ sequence_lock = NoOne
  /\ request = [c \in Clients |-> Promise!NoRequest]
  /\ reply = [c \in Clients |-> Promise!NoReply]
  /\ pc = [c \in Clients |-> "idle"]
  /\ mark = [c \in Clients |-> 0]

Goto(c, label) == pc' = [pc EXCEPT ![c] = label]

Return(c, r) ==
  /\ Goto(c, "idle")
  /\ reply' = [reply EXCEPT ![c] = r]

Call(c) ==
  /\ pc[c] = "idle"
  /\ \E r \in Promise!Requests :
       /\ request' = [request EXCEPT ![c] = r]
       /\ Goto(c, r.op)
  /\ reply' = [reply EXCEPT ![c] = Promise!NoReply]
  /\ mark' = [mark EXCEPT ![c] = 0]
  /\ UNCHANGED <<events, next_sequence, events_lock, sequence_lock>>

-----------------------------------------------------------------------------
(* append *)

AtCapacity == Capacity # Unbounded /\ Len(events) >= Capacity

\* Variant: the vector is checked against the capacity without keeping its mutex.
AppendChecksUnlocked(c) ==
  /\ pc[c] = "append"
  /\ events_lock = NoOne
  /\ Goto(c, "admit")
  /\ UNCHANGED <<events, next_sequence, events_lock, sequence_lock, request, reply, mark>>

AppendLockEvents(c) ==
  /\ pc[c] = "append"
  /\ events_lock = NoOne
  /\ events_lock' = c
  /\ Goto(c, "admit")
  /\ UNCHANGED <<events, next_sequence, sequence_lock, request, reply, mark>>

AppendBackpressure(c) ==
  /\ pc[c] = "admit"
  /\ AtCapacity
  /\ events_lock' = NoOne
  /\ Return(c, Promise!Failed)
  /\ UNCHANGED <<events, next_sequence, sequence_lock, request, mark>>

AppendAdmit(c) ==
  /\ pc[c] = "admit"
  /\ ~AtCapacity
  /\ Goto(c, "number")
  /\ UNCHANGED <<events, next_sequence, events_lock, sequence_lock, request, reply, mark>>

AppendLockSequence(c) ==
  /\ pc[c] = "number"
  /\ sequence_lock = NoOne
  /\ sequence_lock' = c
  /\ Goto(c, "push")
  /\ UNCHANGED <<events, next_sequence, events_lock, request, reply, mark>>

\* Variant: numbers events from zero.
AppendPushFromZero(c) ==
  /\ pc[c] = "push"
  /\ events' = Append(events, [sequence |-> next_sequence - 1, payload |-> request[c].payload])
  /\ mark' = [mark EXCEPT ![c] = next_sequence]
  /\ Goto(c, "advance")
  /\ UNCHANGED <<next_sequence, events_lock, sequence_lock, request, reply>>

\* Variant: gives the mutex of next_sequence back between reading and advancing it.
AppendPushUnlocks(c) ==
  /\ pc[c] = "push"
  /\ events' = Append(events, [sequence |-> next_sequence, payload |-> request[c].payload])
  /\ mark' = [mark EXCEPT ![c] = next_sequence]
  /\ sequence_lock' = NoOne
  /\ Goto(c, "advance")
  /\ UNCHANGED <<next_sequence, events_lock, request, reply>>

AppendPush(c) ==
  /\ pc[c] = "push"
  /\ events' = Append(events, [sequence |-> next_sequence, payload |-> request[c].payload])
  /\ mark' = [mark EXCEPT ![c] = next_sequence]
  /\ Goto(c, "advance")
  /\ UNCHANGED <<next_sequence, events_lock, sequence_lock, request, reply>>

\* Variant: forgets to advance next_sequence.
AppendForgetsAdvance(c) ==
  /\ pc[c] = "advance"
  /\ events_lock' = NoOne
  /\ sequence_lock' = NoOne
  /\ Return(c, Promise!Appended([sequence |-> mark[c], payload |-> request[c].payload]))
  /\ UNCHANGED <<events, next_sequence, request, mark>>

AppendAdvance(c) ==
  /\ pc[c] = "advance"
  /\ next_sequence' = next_sequence + 1
  /\ events_lock' = NoOne
  /\ sequence_lock' = NoOne
  /\ Return(c, Promise!Appended([sequence |-> mark[c], payload |-> request[c].payload]))
  /\ UNCHANGED <<events, request, mark>>

-----------------------------------------------------------------------------
(* replay *)

ReplaySnapshot(c) ==
  /\ pc[c] = "replay"
  /\ events_lock = NoOne
  /\ events_lock' = c
  /\ mark' = [mark EXCEPT ![c] =
                IF events = << >> THEN 0 ELSE events[Len(events)].sequence]
  /\ Goto(c, "collect")
  /\ UNCHANGED <<events, next_sequence, sequence_lock, request, reply>>

ReplayCollect(c) ==
  LET found == Select(events, request[c].from, mark[c])
  IN  /\ pc[c] = "collect"
      /\ events_lock' = NoOne
      /\ Return(c, IF Ascending(found) THEN Promise!Replayed(found, mark[c])
                                       ELSE Promise!Failed)
      /\ UNCHANGED <<events, next_sequence, sequence_lock, request, mark>>

-----------------------------------------------------------------------------
(* len and next_sequence hold their mutex for one read. *)

ReadLen(c) ==
  /\ pc[c] = "len"
  /\ events_lock = NoOne
  /\ Return(c, Promise!Counted(Len(events)))
  /\ UNCHANGED <<events, next_sequence, events_lock, sequence_lock, request, mark>>

\* Variant: derives the answer from the vector as well, taking the mutexes in the
\* order opposite to append's.
ReadNextSequenceReversed(c) ==
  /\ pc[c] = "next_sequence"
  /\ \/ /\ sequence_lock = NoOne
        /\ sequence_lock' = c
        /\ UNCHANGED <<events_lock, reply, pc>>
     \/ /\ sequence_lock = c
        /\ events_lock = NoOne
        /\ sequence_lock' = NoOne
        /\ Return(c, Promise!Counted(next_sequence))
        /\ UNCHANGED events_lock
  /\ UNCHANGED <<events, next_sequence, request, mark>>

ReadNextSequence(c) ==
  /\ pc[c] = "next_sequence"
  /\ sequence_lock = NoOne
  /\ Return(c, Promise!Counted(next_sequence))
  /\ UNCHANGED <<events, next_sequence, events_lock, sequence_lock, request, mark>>

Step(c) ==
  \/ AppendLockEvents(c) \/ AppendBackpressure(c) \/ AppendAdmit(c)
  \/ AppendLockSequence(c) \/ AppendPush(c) \/ AppendAdvance(c)
  \/ ReplaySnapshot(c) \/ ReplayCollect(c)
  \/ ReadLen(c) \/ ReadNextSequence(c)

Next == \E c \in Clients : Call(c) \/ Step(c)

Spec == Init /\ [][Next]_vars

(* A thread that can run does run; nothing makes the mutexes hand out turns. *)
FairSpec == Spec /\ \A c \in Clients : WF_vars(Step(c))
-----------------------------------------------------------------------------
(* Properties *)

AppendSteps == {"append", "admit", "number", "push", "advance"}
ReplaySteps == {"replay", "collect"}

Replies ==
  {Promise!NoReply, Promise!Failed}
    \cup [kind : {"appended"}, event : Event]
    \cup [kind : {"replayed"}, events : Seq(Event), snapshot_end : Nat]
    \cup [kind : {"counted"}, value : Nat]

(* Every variable has its type, and a thread is at a step of the operation  *)
(* it called.                                                               *)
TypeOK ==
  /\ events \in Seq(Event)
  /\ next_sequence \in Nat \ {0}
  /\ events_lock \in Clients \cup {NoOne}
  /\ sequence_lock \in Clients \cup {NoOne}
  /\ request \in [Clients -> Promise!Requests \cup {Promise!NoRequest}]
  /\ reply \in [Clients -> Replies]
  /\ pc \in [Clients -> {"idle", "len", "next_sequence"} \cup AppendSteps \cup ReplaySteps]
  /\ mark \in [Clients -> Nat]
  /\ \A c \in Clients :
       /\ pc[c] \in AppendSteps => request[c].op = "append"
       /\ pc[c] \in ReplaySteps => request[c].op = "replay"
       /\ pc[c] \in {"len", "next_sequence"} => request[c].op = pc[c]

(* Two appends that both returned an event returned different ones, and     *)
(* each is in the vector at the place its sequence names: no append that    *)
(* was acknowledged is overwritten or numbered twice, whatever other        *)
(* threads append in between.                                               *)
AcknowledgedOnce ==
  \A c \in Clients :
    reply[c].kind = "appended" =>
      /\ reply[c].event.sequence \in DOMAIN events
      /\ events[reply[c].event.sequence] = reply[c].event
      /\ \A d \in Clients \ {c} :
           reply[d].kind = "appended" =>
             reply[d].event.sequence # reply[c].event.sequence

(* The vector and the counter live behind different mutexes; whoever can    *)
(* take the counter's mutex finds the counter one past the vector's end.    *)
CounterMatchesLog == sequence_lock = NoOne => next_sequence = Len(events) + 1

(* Backpressure holds under contention: the test of the capacity and the    *)
(* push it admits are never separated by another thread's push.             *)
WithinCapacity == Capacity # Unbounded => Len(events) <= Capacity

(* The store keeps the promise of its trait: every append takes effect at   *)
(* one point, a failed one has no effect, a replay is exactly the committed *)
(* events up to the moment it began, and len and next_sequence answer from  *)
(* one state of the log.                                                    *)
KeepsPromise == Promise!Spec

(* A thread that takes the mutex of events gives it back: append's wait for *)
(* the second mutex always ends, so callers never block each other for good.*)
LockReleased == \A c \in Clients : events_lock = c ~> events_lock # c

-----------------------------------------------------------------------------
(* The inductive invariant of the proofs *)

HoldsEvents(c) == pc[c] \in {"admit", "number", "push", "advance", "collect"}
HoldsSequence(c) == pc[c] \in {"push", "advance"}

LockInv ==
  \A c \in Clients :
    /\ events_lock = c <=> HoldsEvents(c)
    /\ sequence_lock = c <=> HoldsSequence(c)

CounterInv ==
  /\ (\A c \in Clients : pc[c] # "advance") => next_sequence = Len(events) + 1
  /\ \A c \in Clients : pc[c] = "advance" => next_sequence = Len(events)

MarkInv ==
  \A c \in Clients :
    /\ pc[c] = "advance" =>
         /\ mark[c] = Len(events)
         /\ Len(events) > 0
         /\ events[Len(events)].payload = request[c].payload
    /\ pc[c] = "collect" => mark[c] = Len(events)

CapacityInv ==
  /\ WithinCapacity
  /\ \A c \in Clients : pc[c] \in {"number", "push"} => ~AtCapacity

AcknowledgedInv ==
  /\ AcknowledgedOnce
  /\ \A c \in Clients :
       reply[c].kind = "appended" => reply[c].event.sequence < next_sequence

IInv ==
  TypeOK /\ LockInv /\ Gapless(events) /\ CounterInv /\ MarkInv /\ CapacityInv /\ AcknowledgedInv
=============================================================================
