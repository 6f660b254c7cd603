----------------------------- MODULE EventStore -----------------------------
(***************************************************************************)
(* What the EventStore trait promises its callers (kernel/src/store.rs):   *)
(* an append is committed at one point in time or not at all, events are   *)
(* numbered 1, 2, 3, ... in the order they are committed, and a replay is  *)
(* the committed events from start_sequence up to the last one committed   *)
(* at one moment after it was called.  How the store is built (locks, log  *)
(* file, metadata) is the business of the modules that implement this one. *)
(***************************************************************************)
EXTENDS Naturals, Sequences

CONSTANTS
  Clients,        \* the threads that share the Arc<dyn EventStore>
  Payloads,       \* the event payloads they append
  StartSequences  \* the values of start_sequence they replay from

VARIABLES
  log,      \* the committed payloads; the event at position i has sequence i
  request,  \* request[c]: the last call of client c
  phase,    \* phase[c]: how far that call is
  mark,     \* mark[c]: the sequence it committed, or its replay's snapshot_end
  reply     \* reply[c]: what the last call returned

vars == <<log, request, phase, mark, reply>>

NoRequest == [op |-> "none"]

Requests ==
  [op : {"append"}, payload : Payloads]
    \cup [op : {"replay"}, from : StartSequences]
    \cup [op : {"len", "next_sequence"}]

NoReply == [kind |-> "none"]
Failed == [kind |-> "failed"]
Appended(event) == [kind |-> "appended", event |-> event]
Replayed(events, end) ==
  [kind |-> "replayed", events |-> events, snapshot_end |-> end]
Counted(n) == [kind |-> "counted", value |-> n]

(* The committed events l[from], ..., l[end], with their sequences.  There  *)
(* is no event 0, so replaying from 0 is replaying from 1.                  *)
EventsIn(l, from, end) ==
  LET first == IF from = 0 THEN 1 ELSE from
  IN  [i \in 1 .. (IF first <= end THEN end - first + 1 ELSE 0) |->
         [sequence |-> first + i - 1, payload |-> l[first + i - 1]]]

Init ==
  /\ log = << >>
  /\ request = [c \in Clients |-> NoRequest]
  /\ phase = [c \in Clients |-> "idle"]
  /\ mark = [c \in Clients |-> 0]
  /\ reply = [c \in Clients |-> NoReply]

Answer(c, r) ==
  /\ phase' = [phase EXCEPT ![c] = "idle"]
  /\ reply' = [reply EXCEPT ![c] = r]

Call(c) ==
  /\ phase[c] = "idle"
  /\ \E r \in Requests : request' = [request EXCEPT ![c] = r]
  /\ phase' = [phase EXCEPT ![c] = "called"]
  /\ reply' = [reply EXCEPT ![c] = NoReply]
  /\ mark' = [mark EXCEPT ![c] = 0]
  /\ UNCHANGED log

Commit(c) ==
  /\ phase[c] = "called"
  /\ request[c].op = "append"
  /\ log' = Append(log, request[c].payload)
  /\ mark' = [mark EXCEPT ![c] = Len(log) + 1]
  /\ phase' = [phase EXCEPT ![c] = "committed"]
  /\ UNCHANGED <<request, reply>>

Acknowledge(c) ==
  /\ phase[c] = "committed"
  /\ Answer(c, Appended([sequence |-> mark[c], payload |-> request[c].payload]))
  /\ UNCHANGED <<log, request, mark>>

(* A call may fail, but an append that fails has committed nothing.         *)
Fail(c) ==
  /\ \/ phase[c] = "called" /\ request[c].op \in {"append", "replay"}
     \/ phase[c] = "reading"
  /\ Answer(c, Failed)
  /\ UNCHANGED <<log, request, mark>>

BeginReplay(c) ==
  /\ phase[c] = "called"
  /\ request[c].op = "replay"
  /\ mark' = [mark EXCEPT ![c] = Len(log)]
  /\ phase' = [phase EXCEPT ![c] = "reading"]
  /\ UNCHANGED <<log, request, reply>>

EndReplay(c) ==
  /\ phase[c] = "reading"
  /\ Answer(c, Replayed(EventsIn(log, request[c].from, mark[c]), mark[c]))
  /\ UNCHANGED <<log, request, mark>>

Observe(c) ==
  /\ phase[c] = "called"
  /\ \/ request[c].op = "len" /\ Answer(c, Counted(Len(log)))
     \/ request[c].op = "next_sequence" /\ Answer(c, Counted(Len(log) + 1))
  /\ UNCHANGED <<log, request, mark>>

(* The process dies: every call in progress is lost, no event is.           *)
Crash ==
  /\ request' = [c \in Clients |-> NoRequest]
  /\ phase' = [c \in Clients |-> "idle"]
  /\ mark' = [c \in Clients |-> 0]
  /\ reply' = [c \in Clients |-> NoReply]
  /\ UNCHANGED log

Next ==
  \/ Crash
  \/ \E c \in Clients :
       \/ Call(c)
       \/ Commit(c) \/ Acknowledge(c) \/ Fail(c)
       \/ BeginReplay(c) \/ EndReplay(c)
       \/ Observe(c)

Spec == Init /\ [][Next]_vars
=============================================================================
