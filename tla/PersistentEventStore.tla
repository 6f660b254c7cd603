------------------------ MODULE PersistentEventStore ------------------------
(***************************************************************************)
(* PersistentEventStore (kernel/src/persistent_store.rs): an append-only   *)
(* file of one JSON line per event, a BufWriter in front of it, and a      *)
(* cached StoreMeta that is kept in memory behind a mutex and rewritten    *)
(* (write a temporary file, rename it) after every append.                 *)
(*                                                                         *)
(* The file is its complete lines followed by the bytes after the last     *)
(* newline.  A write(2) can be cut in two places that matter: inside the   *)
(* JSON text, or between the text and its newline.  What can go wrong in   *)
(* the environment is the constant Faults:                                 *)
(*   crash         the process dies; the kernel keeps what was written     *)
(*   torn_write    a line reaches the file in pieces                       *)
(*   flush         a write fails; BufWriter keeps what was not written     *)
(*   meta_write    writing or renaming meta.json fails                     *)
(*   meta_corrupt  meta.json is damaged while the store is closed          *)
(* The writer mutex is only ever taken under the meta mutex and is left    *)
(* out; so are two processes opening one directory, which nothing in the   *)
(* code prevents or supports.                                              *)
(* A line is taken to be shorter than BufWriter's buffer, so write_all only *)
(* stores it and flush does the writing.                                   *)
(***************************************************************************)
EXTENDS EventLog, Integers

CONSTANTS
  Clients, StartSequences,
  Capacity,      \* with_capacity(dir, n), or Unbounded for open(dir)
  Unbounded,
  NoOne,         \* the owner of a mutex that is free
  Faults,        \* what the environment may do
  FlushFailures, \* how many writes may fail: bounds what BufWriter piles up
  CorruptMetas,  \* what a damaged meta.json is read as
  NoMeta,        \* a meta.json that is missing or does not parse
  Garbage,       \* a line that does not parse as an event
  NoTail,        \* the file ends in a newline (or is empty)
  Prefix         \* the file ends in the beginning of the next event's JSON

FaultNames == {"crash", "torn_write", "flush", "meta_write", "meta_corrupt"}

Meta(next, count) == [next_sequence |-> next, event_count |-> count]
Metas == [next_sequence : Nat \ {0}, event_count : Nat]

(* A damaged meta.json that still parses may hold any two numbers, but for  *)
(* a next_sequence of 0, which no log ends in and no store writes.          *)
ASSUME PersistentAssumption ==
  /\ Unbounded \notin Nat
  /\ Capacity \in Nat \cup {Unbounded}
  /\ StartSequences \subseteq Nat
  /\ NoOne \notin Clients
  /\ Faults \subseteq FaultNames
  /\ FlushFailures \in Nat
  /\ CorruptMetas \subseteq Metas \cup {NoMeta}
  /\ NoMeta \notin Metas
  /\ Garbage \notin Event /\ NoTail \notin Event /\ Prefix \notin Event
  /\ Garbage # NoTail /\ Garbage # Prefix /\ NoTail # Prefix

VARIABLES
  lines,       \* events.log: its complete lines
  tail,        \* events.log: the bytes after the last newline
  log_exists,  \* events.log: whether the file has been created
  meta_file,   \* meta.json as a reader would parse it
  status,      \* the life of the PersistentEventStore value
  meta,        \* its StoreMeta, in memory
  meta_lock,   \* the thread that holds the mutex of meta
  buffer,      \* its BufWriter: the unwritten rest of each event, in order
  request, reply, pc, mark,  \* per thread, as in MemoryEventStore
  acked,       \* history: every event an append ever returned
  first,       \* history: the sequence open gave the first event of the log
  miscount,    \* history: what the last open counted more than the log holds
  undercounted, \* history: whether an open ever counted less
  failures     \* how many more writes may fail

disk == <<lines, tail, log_exists, meta_file>>
threads == <<request, reply, pc, mark>>
opened == <<first, miscount, undercounted>>
vars == <<disk, status, meta, meta_lock, buffer, threads, acked, opened, failures>>

(* How far a thread's call is, for the users of the trait: an append is     *)
(* committed once its line has left the buffer.                             *)
PhaseOf(label) ==
  IF label = "idle" THEN "idle"
  ELSE IF label = "persist" \/ (label = "flush" /\ buffer = << >>) THEN "committed"
  ELSE IF label \in {"nothing", "scan"} THEN "reading"
  ELSE "called"

Promise == INSTANCE EventStore WITH
  log <- PayloadsOf(lines),
  phase <- [c \in Clients |-> PhaseOf(pc[c])],
  mark <- [c \in Clients |-> IF PhaseOf(pc[c]) = "called" THEN 0 ELSE mark[c]]

-----------------------------------------------------------------------------
(* Reading the file *)

(* BufRead::lines also yields the bytes after the last newline, if any.     *)
LinesRead ==
  IF tail = NoTail THEN lines
  ELSE Append(lines, IF tail \in Event THEN tail ELSE Garbage)

Readable(ls) == \A i \in DOMAIN ls : ls[i] # Garbage

MaxSequence(es) ==
  IF es = << >> THEN 0
  ELSE LET Seqs == {es[i].sequence : i \in DOMAIN es}
       IN  CHOOSE s \in Seqs : \A t \in Seqs : t <= s

\* Variant: continues with the last sequence in the file instead of the one after it.
ScanLogLastSequence == Meta(MaxSequence(LinesRead), Len(LinesRead))

(* scan_log, of a file that exists and parses *)
ScanLog == Meta(MaxSequence(LinesRead) + 1, Len(LinesRead))

(* verify: every line parses and the event at position i has sequence i *)
Verified ==
  /\ Readable(LinesRead)
  /\ Ascending(LinesRead)
  /\ Gapless(LinesRead)

-----------------------------------------------------------------------------
(* Writing the file *)

(* A piece of the buffer is an event and how much of its line is still to   *)
(* be written: the whole line, the rest of its JSON text, or its newline.   *)
Piece(event, rest) == [event |-> event, rest |-> rest]
Pieces == [event : Event, rest : {"line", "suffix", "newline"}]

(* The line that ends when a piece is written to the end: the bytes already *)
(* there and the piece make one event, or they make a line that is none.    *)
CompletedLine(piece) ==
  IF piece.rest = "newline"
  THEN IF tail \in Event THEN tail ELSE Garbage
  ELSE IF tail = (IF piece.rest = "line" THEN NoTail ELSE Prefix) THEN piece.event ELSE Garbage

WritePiece ==
  /\ lines' = Append(lines, CompletedLine(Head(buffer)))
  /\ tail' = NoTail
  /\ buffer' = Tail(buffer)

(* Part of a piece is written: up to inside the JSON text, or all of it but *)
(* the newline.                                                             *)
WritePart ==
  LET piece == Head(buffer)
      Rest(r) == << Piece(piece.event, r) >> \o Tail(buffer)
  IN  \/ /\ piece.rest = "line"
         /\ tail' = IF tail = NoTail THEN Prefix ELSE Garbage
         /\ buffer' = Rest("suffix")
      \/ /\ piece.rest \in {"line", "suffix"}
         /\ tail' = IF CompletedLine(piece) = Garbage THEN Garbage ELSE piece.event
         /\ buffer' = Rest("newline")

-----------------------------------------------------------------------------
(* Opening the store *)

Init ==
  /\ lines = << >>
  /\ tail = NoTail
  /\ log_exists = FALSE
  /\ meta_file = NoMeta
  /\ status = "closed"
  /\ meta = Meta(1, 0)
  /\ meta_lock = NoOne
  /\ buffer = << >>
  /\ request = [c \in Clients |-> Promise!NoRequest]
  /\ reply = [c \in Clients |-> Promise!NoReply]
  /\ pc = [c \in Clients |-> "idle"]
  /\ mark = [c \in Clients |-> 0]
  /\ acked = {}
  /\ first = 1 /\ miscount = 0 /\ undercounted = FALSE
  /\ failures = FlushFailures

\* Variant: the cached metadata wins whenever there is any.
ResolvedMetaTrustsCache ==
  IF meta_file # NoMeta THEN meta_file
  ELSE IF log_exists THEN ScanLog ELSE Meta(1, 0)

(* The log is the truth; the cache counts only where the two agree on the   *)
(* next sequence, or where there is no log and the cache claims no events.  *)
ResolvedMeta ==
  IF log_exists
  THEN IF meta_file # NoMeta /\ meta_file.next_sequence = ScanLog.next_sequence
       THEN meta_file ELSE ScanLog
  ELSE IF meta_file # NoMeta /\ meta_file.event_count = 0
       THEN meta_file ELSE Meta(1, 0)

OpenScan ==
  /\ status = "closed"
  /\ ~log_exists \/ Readable(LinesRead)
  /\ meta' = ResolvedMeta
  /\ status' = "repairing"
  /\ first' = IF LinesRead = << >> THEN ResolvedMeta.next_sequence ELSE first
  /\ miscount' = ResolvedMeta.event_count - Len(LinesRead)
  /\ undercounted' = (undercounted \/ miscount' < 0)
  /\ UNCHANGED <<disk, meta_lock, buffer, threads, acked, failures>>

(* A line that does not parse makes open return an error, every time.       *)
OpenRefused ==
  /\ status = "closed"
  /\ log_exists /\ ~Readable(LinesRead)
  /\ status' = "refused"
  /\ UNCHANGED <<disk, meta, meta_lock, buffer, threads, acked, opened, failures>>

OpenRetry ==
  /\ status = "refused"
  /\ status' = "closed"
  /\ UNCHANGED <<disk, meta, meta_lock, buffer, threads, acked, opened, failures>>

OpenWriteMeta ==
  /\ status = "repairing"
  /\ \/ meta_file' = meta /\ status' = "creating"
     \/ "meta_write" \in Faults /\ status' = "refused" /\ UNCHANGED meta_file
  /\ UNCHANGED <<lines, tail, log_exists, meta, meta_lock, buffer, threads, acked, opened, failures>>

\* Variant: opens the log with truncate(true) instead of append(true).
OpenCreateLogTruncates ==
  /\ status = "creating"
  /\ log_exists' = TRUE
  /\ lines' = << >>
  /\ buffer' = << >>
  /\ status' = "open"
  /\ UNCHANGED <<tail, meta_file, meta, meta_lock, threads, acked, opened, failures>>

OpenCreateLog ==
  /\ status = "creating"
  /\ log_exists' = TRUE
  /\ buffer' = << >>
  /\ status' = "open"
  /\ UNCHANGED <<lines, tail, meta_file, meta, meta_lock, threads, acked, opened, failures>>

Open == OpenScan \/ OpenRefused \/ OpenRetry \/ OpenWriteMeta \/ OpenCreateLog

(* The last owner drops the store: BufWriter writes what it still holds and *)
(* drops the rest if a write fails.                                         *)
Close ==
  /\ status = "open"
  /\ \A c \in Clients : pc[c] = "idle"
  /\ status' = IF buffer = << >> THEN "closed" ELSE "closing"
  /\ UNCHANGED <<disk, meta, meta_lock, buffer, threads, acked, opened, failures>>

CloseWrite ==
  /\ status = "closing"
  /\ \/ WritePiece /\ UNCHANGED failures
     \/ "torn_write" \in Faults /\ WritePart /\ UNCHANGED <<lines, failures>>
     \/ /\ "flush" \in Faults
        /\ failures > 0
        /\ failures' = failures - 1
        /\ buffer' = << >>
        /\ UNCHANGED <<lines, tail>>
  /\ status' = IF buffer' = << >> THEN "closed" ELSE "closing"
  /\ UNCHANGED <<log_exists, meta_file, meta, meta_lock, threads, acked, opened>>

Crash ==
  /\ "crash" \in Faults
  /\ status # "closed"
  /\ status' = "closed"
  /\ meta_lock' = NoOne
  /\ buffer' = << >>
  /\ request' = [c \in Clients |-> Promise!NoRequest]
  /\ reply' = [c \in Clients |-> Promise!NoReply]
  /\ pc' = [c \in Clients |-> "idle"]
  /\ mark' = [c \in Clients |-> 0]
  /\ UNCHANGED <<disk, meta, acked, opened, failures>>

CorruptMeta ==
  /\ "meta_corrupt" \in Faults
  /\ status = "closed"
  /\ \E m \in CorruptMetas : meta_file' = m
  /\ UNCHANGED <<lines, tail, log_exists, status, meta, meta_lock, buffer, threads, acked, opened, failures>>

-----------------------------------------------------------------------------
(* Calls on the open store *)

Goto(c, label) == pc' = [pc EXCEPT ![c] = label]

Return(c, r) ==
  /\ Goto(c, "idle")
  /\ reply' = [reply EXCEPT ![c] = r]

Call(c) ==
  /\ status = "open"
  /\ pc[c] = "idle"
  /\ \E r \in Promise!Requests :
       /\ request' = [request EXCEPT ![c] = r]
       /\ Goto(c, r.op)
  /\ reply' = [reply EXCEPT ![c] = Promise!NoReply]
  /\ mark' = [mark EXCEPT ![c] = 0]
  /\ UNCHANGED <<disk, status, meta, meta_lock, buffer, acked, opened, failures>>

\* Variant: refuses only what is past the capacity.
AtCapacityPast == Capacity # Unbounded /\ meta.event_count > Capacity

AtCapacity == Capacity # Unbounded /\ meta.event_count >= Capacity

AppendBackpressure(c) ==
  /\ pc[c] = "append"
  /\ meta_lock = NoOne
  /\ AtCapacity
  /\ Return(c, Promise!Failed)
  /\ UNCHANGED <<disk, status, meta, meta_lock, buffer, request, mark, acked, opened, failures>>

\* Variant: gives the mutex of meta back once the event is numbered.
AppendBufferUnlocked(c) ==
  /\ pc[c] = "append"
  /\ meta_lock = NoOne
  /\ ~AtCapacity
  /\ LET event == [sequence |-> meta.next_sequence, payload |-> request[c].payload]
     IN  buffer' = Append(buffer, Piece(event, "line"))
  /\ mark' = [mark EXCEPT ![c] = meta.next_sequence]
  /\ Goto(c, "flush")
  /\ UNCHANGED <<disk, status, meta, meta_lock, request, reply, acked, opened, failures>>

(* Takes the mutex of meta, numbers the event and hands its line to the     *)
(* BufWriter, which only keeps it.                                          *)
AppendBuffer(c) ==
  /\ pc[c] = "append"
  /\ meta_lock = NoOne
  /\ ~AtCapacity
  /\ meta_lock' = c
  /\ LET event == [sequence |-> meta.next_sequence, payload |-> request[c].payload]
     IN  buffer' = Append(buffer, Piece(event, "line"))
  /\ mark' = [mark EXCEPT ![c] = meta.next_sequence]
  /\ Goto(c, "flush")
  /\ UNCHANGED <<disk, status, meta, request, reply, acked, opened, failures>>

AppendFlush(c) ==
  /\ pc[c] = "flush"
  /\ buffer # << >>
  /\ \/ WritePiece
     \/ "torn_write" \in Faults /\ WritePart /\ UNCHANGED lines
  /\ UNCHANGED <<log_exists, meta_file, status, meta, meta_lock, threads, acked, opened, failures>>

(* The write fails: append returns, the BufWriter keeps what is left.       *)
AppendFlushFails(c) ==
  /\ "flush" \in Faults
  /\ failures > 0
  /\ pc[c] = "flush"
  /\ buffer # << >>
  /\ failures' = failures - 1
  /\ meta_lock' = NoOne
  /\ Return(c, Promise!Failed)
  /\ UNCHANGED <<disk, status, meta, buffer, request, mark, acked, opened>>

\* Variant: does not flush before it acknowledges.
AppendAdvanceUnflushed(c) ==
  /\ pc[c] = "flush"
  /\ meta' = Meta(meta.next_sequence + 1, meta.event_count + 1)
  /\ Goto(c, "persist")
  /\ UNCHANGED <<disk, status, meta_lock, buffer, request, reply, mark, acked, opened, failures>>

AppendAdvance(c) ==
  /\ pc[c] = "flush"
  /\ buffer = << >>
  /\ meta' = Meta(meta.next_sequence + 1, meta.event_count + 1)
  /\ Goto(c, "persist")
  /\ UNCHANGED <<disk, status, meta_lock, buffer, request, reply, mark, acked, opened, failures>>

AppendPersist(c) ==
  /\ pc[c] = "persist"
  /\ meta_lock' = NoOne
  /\ LET event == [sequence |-> mark[c], payload |-> request[c].payload]
     IN  \/ /\ meta_file' = meta
            /\ acked' = acked \cup {event}
            /\ Return(c, Promise!Appended(event))
         \/ /\ "meta_write" \in Faults
            /\ Return(c, Promise!Failed)
            /\ UNCHANGED <<meta_file, acked>>
  /\ UNCHANGED <<lines, tail, log_exists, status, meta, buffer, request, mark, opened, failures>>

(* replay looks at meta under its mutex, then reads the file without it.    *)
ReplaySnapshot(c) ==
  /\ pc[c] = "replay"
  /\ meta_lock = NoOne
  /\ IF meta.event_count = 0
     THEN Goto(c, "nothing") /\ UNCHANGED mark
     ELSE Goto(c, "scan") /\ mark' = [mark EXCEPT ![c] = meta.next_sequence - 1]
  /\ UNCHANGED <<disk, status, meta, meta_lock, buffer, request, reply, acked, opened, failures>>

ReplayNothing(c) ==
  /\ pc[c] = "nothing"
  /\ Return(c, Promise!Replayed(<< >>, 0))
  /\ UNCHANGED <<disk, status, meta, meta_lock, buffer, request, mark, acked, opened, failures>>

StartsAt(es, from) == \A i \in DOMAIN es : es[i].sequence = from + i - 1

\* Variant: skips the lines it cannot parse instead of returning an error.
ReplayScanSkips(c) ==
  LET found == Select(SelectSeq(LinesRead, LAMBDA line : line # Garbage), request[c].from, mark[c])
  IN  /\ pc[c] = "scan"
      /\ Return(c, IF Ascending(found) /\ StartsAt(found, request[c].from)
                   THEN Promise!Replayed(found, mark[c]) ELSE Promise!Failed)
      /\ UNCHANGED <<disk, status, meta, meta_lock, buffer, request, mark, acked, opened, failures>>

ReplayScan(c) ==
  LET found == Select(LinesRead, request[c].from, mark[c])
  IN  /\ pc[c] = "scan"
      /\ Return(c, IF Readable(LinesRead) /\ Ascending(found) /\ StartsAt(found, request[c].from)
                   THEN Promise!Replayed(found, mark[c]) ELSE Promise!Failed)
      /\ UNCHANGED <<disk, status, meta, meta_lock, buffer, request, mark, acked, opened, failures>>

Read(c) ==
  /\ meta_lock = NoOne
  /\ \/ pc[c] = "len" /\ Return(c, Promise!Counted(meta.event_count))
     \/ pc[c] = "next_sequence" /\ Return(c, Promise!Counted(meta.next_sequence))
  /\ UNCHANGED <<disk, status, meta, meta_lock, buffer, request, mark, acked, opened, failures>>

Step(c) ==
  \/ AppendBackpressure(c) \/ AppendBuffer(c)
  \/ AppendFlush(c) \/ AppendFlushFails(c)
  \/ AppendAdvance(c) \/ AppendPersist(c)
  \/ ReplaySnapshot(c) \/ ReplayNothing(c) \/ ReplayScan(c)
  \/ Read(c)

Next ==
  \/ Open \/ Close \/ CloseWrite \/ Crash \/ CorruptMeta
  \/ \E c \in Clients : Call(c) \/ Step(c)

Spec == Init /\ [][Next]_vars
-----------------------------------------------------------------------------
(* Properties *)

AppendSteps == {"append", "flush", "persist"}
ReplaySteps == {"replay", "nothing", "scan"}

(* Every variable has its type, and only the thread that holds the mutex of *)
(* meta is between numbering an event and persisting the metadata.          *)
TypeOK ==
  /\ lines \in Seq(Event \cup {Garbage})
  /\ tail \in Event \cup {NoTail, Prefix, Garbage}
  /\ log_exists \in BOOLEAN
  /\ meta_file \in Metas \cup CorruptMetas \cup {NoMeta}
  /\ status \in {"closed", "refused", "repairing", "creating", "open", "closing"}
  /\ meta \in Metas
  /\ meta_lock \in Clients \cup {NoOne}
  /\ buffer \in Seq(Pieces)
  /\ request \in [Clients -> Promise!Requests \cup {Promise!NoRequest}]
  /\ pc \in [Clients -> {"idle", "len", "next_sequence"} \cup AppendSteps \cup ReplaySteps]
  /\ mark \in [Clients -> Nat]
  /\ acked \subseteq Event
  /\ first \in Nat \ {0} /\ miscount \in Int /\ undercounted \in BOOLEAN
  /\ failures \in 0 .. FlushFailures
  /\ \A c \in Clients :
       /\ meta_lock = c <=> pc[c] \in {"flush", "persist"}
       /\ pc[c] # "idle" => status = "open"

LogReadable == Readable(LinesRead)
NoWriteFailed == failures = FlushFailures

(* An acknowledged event is in the file whenever the file can be read at    *)
(* all: crashes, torn and failed writes, lost metadata and repairs either   *)
(* keep every acknowledged event or leave a file nobody reads silently.     *)
AcknowledgedSurvives ==
  LogReadable => \A e \in acked : \E i \in DOMAIN LinesRead : LinesRead[i] = e

(* A replay that succeeds returns every event acknowledged in the range it  *)
(* reports, and the range a replay that starts now would report covers      *)
(* every event acknowledged so far: no history makes a replay leave out an  *)
(* acknowledged event without an error, but that of a store whose open took *)
(* over a count that was too small: at count 0 it replays nothing.          *)
ReplayComplete ==
  /\ \A c \in Clients :
       reply[c].kind = "replayed" =>
         \A e \in acked :
           e.sequence \in request[c].from .. reply[c].snapshot_end =>
             \E i \in DOMAIN reply[c].events : reply[c].events[i] = e
  /\ status = "open" /\ meta_lock = NoOne =>
       \A e \in acked :
         /\ e.sequence < meta.next_sequence
         /\ miscount >= 0 => meta.event_count > 0

(* A damaged meta.json is off by n: it counts n more than the events of a  *)
(* log that starts at from and ends before its next_sequence.               *)
OffBy(n, from) ==
  n = 0 \/ \E m \in CorruptMetas \ {NoMeta} : n = m.event_count + from - m.next_sequence

(* As long as no write has failed, an open store numbers by what is in its  *)
(* file whatever meta.json said: the next sequence is the one after the     *)
(* last event.  Its count is off by what open took over with the log's own  *)
(* next sequence, from a meta.json damaged by just that much: no crash, no  *)
(* repair and no metadata a store wrote itself ever makes it wrong.  A      *)
(* store bounded to Capacity events never holds more, counting what         *)
(* recovery found, unless an open believed a count that was too small.      *)
CacheAgreesWithLog ==
  NoWriteFailed =>
    /\ status = "open" /\ meta_lock = NoOne /\ LogReadable =>
         /\ meta.next_sequence = IF LinesRead = << >> THEN first ELSE ScanLog.next_sequence
         /\ meta.event_count = ScanLog.event_count + miscount
         /\ OffBy(miscount, first)
    /\ Capacity # Unbounded /\ ~undercounted => Len(LinesRead) <= Capacity

(* As long as no write has failed, a file that can be read numbers its      *)
(* events without a gap or a repetition across every crash and reopening,   *)
(* and verify finds nothing wrong with it: it starts at 1, unless open      *)
(* found no log and took over another next_sequence from a meta.json that   *)
(* claims no events.  A replay that reads it finds no fault in it either,   *)
(* beside any append and after any crash, but that one from before the      *)
(* first event, from 0 for one, takes the events it was not asked to leave  *)
(* out for a gap (persistent_store.rs:329-337).                             *)
LogVerifies ==
  NoWriteFailed /\ LogReadable =>
    /\ StartsAt(LinesRead, first)
    /\ Verified \/ (first > 1 /\ Meta(first, 0) \in CorruptMetas)
    /\ \A c \in Clients : pc[c] = "scan" =>
         LET found == Select(LinesRead, request[c].from, mark[c])
         IN  Ascending(found) /\ StartsAt(found, request[c].from)
               <=> request[c].from >= first \/ found = << >>

(* With writes that are whole and never fail, and a process that may die at *)
(* any moment and reopen the directory, the store keeps the promise of its  *)
(* trait: an append takes effect once, a crash loses no committed event.    *)
KeepsPromise == Promise!Spec

(* An append that returned an error left no event behind: none in the file  *)
(* has the sequence it had been given.                                      *)
FailedAppendInvisible ==
  [][\A c \in Clients :
       pc[c] \in AppendSteps /\ pc'[c] = "idle" /\ reply'[c] = Promise!Failed /\ mark[c] # 0 =>
         \A i \in DOMAIN lines' : lines'[i] # Garbage => lines'[i].sequence # mark[c]]_vars
-----------------------------------------------------------------------------
(* The inductive invariant *)

Running == {"repairing", "creating", "open"}

(* The file will never be read again.                                       *)
Broken == tail = Garbage \/ \E i \in DOMAIN lines : lines[i] = Garbage

(* The events in the file, the one after the last newline included.         *)
Kept == {e \in {lines[i] : i \in DOMAIN lines} \cup {tail} : e \in Event}

Stored(event) == Broken \/ \E i \in DOMAIN lines : lines[i] = event
Reaches(n) == Broken \/ n = 0 \/ \E e \in Kept : e.sequence >= n

(* Only the first piece can have been begun, and the file ends in the part  *)
(* of it that was written.                                                  *)
BufferInv ==
  \A i \in DOMAIN buffer :
    /\ buffer[i].rest # "line" => i = 1
    /\ buffer[i].rest = "suffix" => tail \in {Prefix, Garbage}
    /\ buffer[i].rest = "newline" => tail \in {buffer[i].event, Garbage}

AppendOf(c) == [sequence |-> mark[c], payload |-> request[c].payload]

(* The thread that appends has its event last in the buffer, or in the file. *)
AppendInv ==
  \A c \in Clients :
    /\ pc[c] \in AppendSteps => request[c].op = "append"
    /\ pc[c] \in {"flush", "persist"} => mark[c] # 0
    /\ pc[c] = "flush" =>
         /\ mark[c] = meta.next_sequence
         /\ IF buffer = << >> THEN Stored(AppendOf(c))
            ELSE buffer[Len(buffer)].event = AppendOf(c)
    /\ pc[c] = "persist" =>
         mark[c] = meta.next_sequence - 1 /\ meta.event_count > 0 /\ Stored(AppendOf(c))

(* A sequence a replay has read up to, or will: the file has an event past  *)
(* it for as long as the file can be read, and the store will number past   *)
(* it for as long as it is open.                                            *)
Past(n) ==
  /\ n \in Nat
  /\ Reaches(n)
  /\ status \in Running => n < meta.next_sequence
  /\ \A c \in Clients : pc[c] = "persist" => n < mark[c]

ReplayInv ==
  \A c \in Clients :
    /\ pc[c] \in ReplaySteps => request[c].op = "replay"
    /\ pc[c] = "scan" => Past(mark[c])
    /\ reply[c].kind = "replayed" =>
         request[c].op = "replay" /\ Past(reply[c].snapshot_end)

AckedInv ==
  \A e \in acked :
    /\ Stored(e)
    /\ status \in Running => e.sequence < meta.next_sequence

(* A store that counts no event replays nothing; one that counts some       *)
(* replays up to a sequence the file has.                                   *)
MetaInv ==
  status \in Running =>
    /\ acked # {} => miscount < 0 \/ meta.event_count > 0
    /\ meta.event_count = 0 \/ Reaches(meta.next_sequence - 1)

FileInv ==
  /\ Broken \/ Kept = {} \/ \E e \in Kept : \A d \in Kept : d.sequence <= e.sequence
  /\ log_exists \/ (lines = << >> /\ tail = NoTail /\ status \notin {"open", "closing"})
  /\ status = "closing" => buffer # << >>

(* As long as no write has failed *)

(* What open may take over without a log that says otherwise.               *)
Claims == (CorruptMetas \ {NoMeta}) \cup {Meta(1, 0)}

(* Every meta.json is a damaged one, the one of an empty store, or off by    *)
(* what one of them was off by.                                              *)
CountInv ==
  /\ meta.next_sequence >= first
  /\ meta.event_count = meta.next_sequence - first + miscount
  /\ OffBy(miscount, first)
  /\ ~undercounted => miscount >= 0
  /\ first = 1 \/ Meta(first, 0) \in CorruptMetas
  /\ \/ meta_file \in Claims \cup {NoMeta}
     \/ OffBy(meta_file.event_count + first - meta_file.next_sequence, first)
  /\ LinesRead = << >> =>
       meta_file \in Claims \cup {NoMeta} /\ (status \in Running => meta \in Claims)

(* A thread has written the event it is appending, or a part of it.         *)
Written == \E c \in Clients : pc[c] = "flush" /\ (buffer = << >> \/ buffer[1].rest # "line")

NumberInv ==
  /\ Len(buffer) <= 1
  /\ buffer # << >> => \E c \in Clients : pc[c] = "flush"
  /\ Broken \/ (\A i \in DOMAIN lines : lines[i].sequence = first + i - 1)
  /\ tail \in Event => Broken \/ tail.sequence = first + Len(lines)

LengthInv ==
  LET expected == meta.next_sequence - first + (IF Written THEN 1 ELSE 0)
  IN  status \in Running =>
        /\ Len(LinesRead) <= expected
        /\ Broken \/ Len(LinesRead) = expected
        /\ tail = Prefix => buffer # << >> /\ buffer[1].rest = "suffix"

CapacityInv ==
  Capacity # Unbounded =>
    /\ ~undercounted => Len(LinesRead) <= Capacity
    /\ \A c \in Clients : pc[c] = "flush" => meta.event_count < Capacity

(* With a process that dies and nothing else that goes wrong                *)
WholeInv ==
  Faults \subseteq {"crash"} =>
    /\ NoWriteFailed /\ tail = NoTail /\ ~Broken
    /\ first = 1 /\ miscount = 0 /\ ~undercounted
    /\ meta_file # NoMeta => meta_file.event_count = meta_file.next_sequence - 1

IInv ==
  /\ TypeOK
  /\ reply = [c \in Clients |-> reply[c]]
  /\ BufferInv /\ FileInv /\ AppendInv /\ ReplayInv /\ AckedInv /\ MetaInv
  /\ ReplayComplete
  /\ NoWriteFailed => CountInv /\ NumberInv /\ LengthInv /\ CapacityInv
  /\ WholeInv
=============================================================================
