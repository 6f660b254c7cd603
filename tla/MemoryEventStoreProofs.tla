----------------------- MODULE MemoryEventStoreProofs -----------------------
(***************************************************************************)
(* The safety properties of MemoryEventStore, for any number of threads,   *)
(* any payloads and any capacity.                                          *)
(***************************************************************************)
EXTENDS MemoryEventStore, SequenceTheorems, FiniteSetTheorems, TLAPS

-----------------------------------------------------------------------------
(* What the operations on a log of events do, for any log. *)

(* Pushing an event leaves the others where they are and puts it last.      *)
LEMMA PushedLast ==
  ASSUME NEW S, NEW es \in Seq(S), NEW e \in S
  PROVE  /\ Append(es, e) \in Seq(S)
         /\ Len(Append(es, e)) = Len(es) + 1
         /\ Len(es) \in Nat
         /\ DOMAIN es = 1 .. Len(es)
         /\ DOMAIN Append(es, e) = 1 .. Len(es) + 1
         /\ \A i \in 1 .. Len(es) : Append(es, e)[i] = es[i]
         /\ Append(es, e)[Len(es) + 1] = e
  BY AppendProperties, LenProperties

(* The position a replay from `from` starts at, and how many events it has. *)
First(from) == IF from = 0 THEN 1 ELSE from
Count(from, end) == IF First(from) <= end THEN end - First(from) + 1 ELSE 0

(* In a vector where the event at position i has sequence i, the events     *)
(* whose sequence is in from..end are a contiguous slice of it.             *)
LEMMA SelectGapless ==
  ASSUME NEW es \in Seq(Event), \A i \in DOMAIN es : es[i].sequence = i,
         NEW from \in Nat, NEW end \in Nat, end <= Len(es)
  PROVE  Select(es, from, end) =
           [k \in 1 .. Count(from, end) |-> es[First(from) + k - 1]]
<1> DEFINE first == First(from)
           n == Count(from, end)
           hits == {i \in DOMAIN es : es[i].sequence >= from /\ es[i].sequence <= end}
           Nth(k) == CHOOSE i \in hits : Cardinality({j \in hits : j <= i}) = k
<1>1. DOMAIN es = 1 .. Len(es) /\ Len(es) \in Nat
  BY LenProperties
<1>2. hits = first .. end
  BY <1>1 DEF First
<1>3. first \in Nat /\ n \in Nat /\ Cardinality(first .. end) = n
  <2>1. first \in Nat /\ n = (IF first > end THEN 0 ELSE end - first + 1) /\ n \in Nat
    BY DEF First, Count
  <2> HIDE DEF first, n
  <2>2. Cardinality(first .. end) = IF first > end THEN 0 ELSE end - first + 1
    <3>1. first \in Int /\ end \in Int
      BY <2>1
    <3>2. QED
      BY <3>1, FS_Interval, Zenon
  <2>3. QED
    BY <2>1, <2>2
<1> HIDE DEF hits, first, n
<1>4. ASSUME NEW k \in 1 .. n
      PROVE  Nth(k) = first + k - 1
  <2>1. ASSUME NEW i \in hits
        PROVE  Cardinality({j \in hits : j <= i}) = i - first + 1
    <3>1. {j \in hits : j <= i} = first .. i
      BY <1>2
    <3>2. i \in Int /\ first <= i
      BY <1>2
    <3>3. Cardinality(first .. i) = i - first + 1
      BY <1>3, <3>2, FS_Interval
    <3>4. QED
      BY <3>1, <3>3
  <2>2. first + k - 1 \in hits
    BY <1>2, <1>3 DEF n, first, First, Count
  <2>3. ASSUME NEW i \in hits
        PROVE  Cardinality({j \in hits : j <= i}) = k <=> i = first + k - 1
    <3>1. i \in Int /\ k \in Int /\ Cardinality({j \in hits : j <= i}) = i - first + 1
      BY <1>2, <1>3, <2>1
    <3>2. QED
      BY <3>1, <1>3
  <2>4. QED
    BY <2>2, <2>3
<1> HIDE DEF Nth
<1>5. [k \in 1 .. Cardinality(hits) |-> es[Nth(k)]] = [k \in 1 .. n |-> es[first + k - 1]]
  BY <1>2, <1>3, <1>4
<1>6. QED
  BY <1>5 DEF Select, hits, first, n, Nth

(* The log the callers see is as long as the vector.                        *)
LEMMA PayloadsType ==
  ASSUME NEW es \in Seq(Event)
  PROVE  /\ PayloadsOf(es) \in Seq(Payloads)
         /\ Len(PayloadsOf(es)) = Len(es)
<1>1. Len(es) \in Nat /\ DOMAIN es = 1 .. Len(es)
  BY LenProperties
<1>2. ASSUME NEW i \in 1 .. Len(es) PROVE es[i].payload \in Payloads
  <2>1. es[i] \in Event
    BY ElementOfSeq
  <2>2. QED
    BY <2>1 DEF Event
<1>3. QED
  BY <1>1, <1>2, IsASeq, LenProperties DEF PayloadsOf

(* Pushing an event appends its payload to the log the callers see.         *)
LEMMA PushedPayload ==
  ASSUME NEW es \in Seq(Event), NEW e \in Event
  PROVE  /\ PayloadsOf(Append(es, e)) = Append(PayloadsOf(es), e.payload)
         /\ Len(PayloadsOf(es)) = Len(es)
<1>1. PayloadsOf(es) \in Seq(Payloads) /\ Len(PayloadsOf(es)) = Len(es)
  BY PayloadsType
<1>2. e.payload \in Payloads
  BY DEF Event
<1> DEFINE pushed == PayloadsOf(Append(es, e))
           appended == Append(PayloadsOf(es), e.payload)
<1>3. /\ appended \in Seq(Payloads) /\ Len(appended) = Len(es) + 1
      /\ \A i \in 1 .. Len(es) : appended[i] = PayloadsOf(es)[i]
      /\ appended[Len(es) + 1] = e.payload
  BY <1>1, <1>2, PushedLast
<1>4. /\ pushed \in Seq(Payloads) /\ Len(pushed) = Len(es) + 1
      /\ \A i \in 1 .. Len(es) + 1 : pushed[i] = Append(es, e)[i].payload
  <2> DEFINE es2 == Append(es, e)
  <2>1. es2 \in Seq(Event) /\ Len(es2) = Len(es) + 1 /\ DOMAIN es2 = 1 .. Len(es) + 1
    BY PushedLast
  <2> HIDE DEF es2
  <2>2. PayloadsOf(es2) \in Seq(Payloads) /\ Len(PayloadsOf(es2)) = Len(es2)
    BY <2>1, PayloadsType
  <2>3. QED
    BY <2>1, <2>2 DEF PayloadsOf, es2
<1>5. \A i \in 1 .. Len(es) + 1 : pushed[i] = appended[i]
  <2>1. \A i \in 1 .. Len(es) : PayloadsOf(es)[i] = es[i].payload
    BY LenProperties DEF PayloadsOf
  <2> HIDE DEF pushed, appended
  <2>2. QED
    BY <1>3, <1>4, <2>1, PushedLast
<1> HIDE DEF pushed, appended
<1>6. pushed = appended
  BY <1>3, <1>4, <1>5, SeqEqual
<1>7. QED
  BY <1>1, <1>6 DEF pushed, appended

-----------------------------------------------------------------------------
(* The store *)

(* The argument of a call is of the kind its operation takes.               *)
LEMMA RequestArguments ==
  ASSUME NEW r \in Promise!Requests \cup {Promise!NoRequest}
  PROVE  /\ r.op = "append" => r.payload \in Payloads
         /\ r.op = "replay" => r.from \in StartSequences
<1>1. CASE r \in [op : {"append"}, payload : Payloads]
  BY <1>1
<1>2. CASE r \in [op : {"replay"}, from : StartSequences]
  BY <1>2
<1>3. CASE r \in [op : {"len", "next_sequence"}] \cup {Promise!NoRequest}
  BY <1>3 DEF Promise!NoRequest
<1>4. QED
  BY <1>1, <1>2, <1>3 DEF Promise!Requests

(* An empty store satisfies the invariant. *)
THEOREM InitInv == Init => IInv
<1> SUFFICES ASSUME Init PROVE IInv
  OBVIOUS
<1> USE StoreAssumption DEF Init
<1>1. TypeOK
  BY EmptySeq DEF TypeOK, Replies, Promise!NoRequest, Promise!NoReply, Promise!Requests,
                  AppendSteps, ReplaySteps
<1>2. LockInv
  BY DEF LockInv, HoldsEvents, HoldsSequence
<1>3. Gapless(events) /\ CounterInv /\ MarkInv
  BY DEF Gapless, CounterInv, MarkInv
<1>4. CapacityInv
  BY DEF CapacityInv, WithinCapacity
<1>5. AcknowledgedInv
  BY DEF AcknowledgedInv, AcknowledgedOnce, Promise!NoReply
<1>6. QED
  BY <1>1, <1>2, <1>3, <1>4, <1>5 DEF IInv

(* No step of any thread breaks the invariant.                              *)
THEOREM StepInv == IInv /\ [Next]_vars => IInv'
<1> SUFFICES ASSUME IInv, [Next]_vars PROVE IInv'
  OBVIOUS
<1> USE StoreAssumption DEF IInv
<1>1. ASSUME NEW c \in Clients, Call(c) PROVE IInv'
  <2> USE <1>1 DEF Call, Goto
  <2>1. TypeOK'
    BY DEF TypeOK, Replies, Promise!NoReply, Promise!Requests, Promise!NoRequest,
           AppendSteps, ReplaySteps
  <2>2. LockInv'
    BY DEF LockInv, HoldsEvents, HoldsSequence, Promise!Requests, TypeOK
  <2>3. Gapless(events)' /\ CounterInv' /\ MarkInv'
    BY DEF Gapless, CounterInv, MarkInv, Promise!Requests, TypeOK
  <2>4. CapacityInv'
    BY DEF CapacityInv, WithinCapacity, AtCapacity, Promise!Requests, TypeOK
  <2>5. AcknowledgedInv'
    BY DEF AcknowledgedInv, AcknowledgedOnce, Promise!NoReply, TypeOK
  <2>6. QED
    BY <2>1, <2>2, <2>3, <2>4, <2>5
<1>2. ASSUME NEW c \in Clients, AppendLockEvents(c) PROVE IInv'
  <2> USE <1>2 DEF AppendLockEvents, Goto
  <2>1. TypeOK'
    BY DEF TypeOK, AppendSteps, ReplaySteps
  <2>2. LockInv'
    BY DEF LockInv, HoldsEvents, HoldsSequence, TypeOK
  <2>3. Gapless(events)' /\ CounterInv' /\ MarkInv'
    BY DEF Gapless, CounterInv, MarkInv, TypeOK
  <2>4. CapacityInv'
    BY DEF CapacityInv, WithinCapacity, AtCapacity, TypeOK
  <2>5. AcknowledgedInv'
    BY DEF AcknowledgedInv, AcknowledgedOnce
  <2>6. QED
    BY <2>1, <2>2, <2>3, <2>4, <2>5
<1>3. ASSUME NEW c \in Clients, AppendBackpressure(c) PROVE IInv'
  <2> USE <1>3 DEF AppendBackpressure, Return, Goto
  <2>1. TypeOK'
    BY DEF TypeOK, Replies, Promise!Failed, AppendSteps, ReplaySteps
  <2>2. LockInv'
    BY DEF LockInv, HoldsEvents, HoldsSequence, TypeOK
  <2>3. Gapless(events)' /\ CounterInv' /\ MarkInv'
    BY DEF Gapless, CounterInv, MarkInv, TypeOK
  <2>4. CapacityInv'
    BY DEF CapacityInv, WithinCapacity, AtCapacity, TypeOK
  <2>5. AcknowledgedInv'
    BY DEF AcknowledgedInv, AcknowledgedOnce, Promise!Failed, TypeOK
  <2>6. QED
    BY <2>1, <2>2, <2>3, <2>4, <2>5
<1>4. ASSUME NEW c \in Clients, AppendLockSequence(c) PROVE IInv'
  <2> USE <1>4 DEF AppendLockSequence, Goto
  <2>1. TypeOK'
    BY DEF TypeOK, AppendSteps, ReplaySteps
  <2>2. LockInv'
    BY DEF LockInv, HoldsEvents, HoldsSequence, TypeOK
  <2>3. Gapless(events)' /\ CounterInv' /\ MarkInv'
    BY DEF Gapless, CounterInv, MarkInv, TypeOK
  <2>4. CapacityInv'
    BY DEF CapacityInv, WithinCapacity, AtCapacity, TypeOK
  <2>5. AcknowledgedInv'
    BY DEF AcknowledgedInv, AcknowledgedOnce
  <2>6. QED
    BY <2>1, <2>2, <2>3, <2>4, <2>5
<1>5. ASSUME NEW c \in Clients, AppendPush(c) PROVE IInv'
  <2> DEFINE e == [sequence |-> next_sequence, payload |-> request[c].payload]
  <2> USE <1>5 DEF AppendPush, Goto
  <2>1. e \in Event /\ events \in Seq(Event)
    <3>1. request[c].op = "append" /\ request[c].payload \in Payloads
      BY RequestArguments DEF TypeOK, AppendSteps
    <3>2. QED
      BY <3>1 DEF TypeOK, Event
  <2>2. events' = Append(events, e)
    OBVIOUS
  <2> HIDE DEF e
  <2>3. /\ events' \in Seq(Event)
        /\ Len(events) \in Nat
        /\ Len(events') = Len(events) + 1
        /\ DOMAIN events = 1 .. Len(events)
        /\ DOMAIN events' = 1 .. Len(events) + 1
        /\ \A i \in 1 .. Len(events) : events'[i] = events[i]
        /\ events'[Len(events) + 1] = e
    BY <2>1, <2>2, PushedLast
  <2>4. \A d \in Clients : d # c => ~HoldsSequence(d) /\ ~HoldsEvents(d)
    BY DEF LockInv, HoldsSequence, HoldsEvents
  <2>5. next_sequence = Len(events) + 1
    BY <2>4 DEF CounterInv, HoldsSequence
  <2>6. TypeOK'
    BY <2>3 DEF TypeOK, AppendSteps, ReplaySteps
  <2>7. LockInv'
    BY DEF LockInv, HoldsEvents, HoldsSequence, TypeOK
  <2>8. Gapless(events)'
    BY <2>3, <2>5 DEF Gapless, e
  <2>9. CounterInv'
    BY <2>3, <2>4, <2>5 DEF CounterInv, HoldsSequence, TypeOK
  <2>10. MarkInv'
    BY <2>3, <2>4, <2>5 DEF MarkInv, HoldsEvents, TypeOK, e
  <2>11. CapacityInv'
    BY <2>3, <2>4 DEF CapacityInv, WithinCapacity, AtCapacity, HoldsSequence, HoldsEvents,
                         TypeOK
  <2>12. AcknowledgedInv'
    BY <2>3 DEF AcknowledgedInv, AcknowledgedOnce
  <2>13. QED
    BY <2>6, <2>7, <2>8, <2>9, <2>10, <2>11, <2>12
<1>6. ASSUME NEW c \in Clients, AppendAdvance(c) PROVE IInv'
  <2> DEFINE e == [sequence |-> mark[c], payload |-> request[c].payload]
  <2> USE <1>6 DEF AppendAdvance, Return, Goto, Promise!Appended
  <2>1. /\ mark[c] = Len(events) /\ Len(events) \in Nat /\ Len(events) > 0
        /\ DOMAIN events = 1 .. Len(events)
        /\ next_sequence = Len(events)
    BY LenProperties DEF MarkInv, CounterInv, TypeOK
  <2>2. e \in Event /\ events[mark[c]] = e
    <3>1. events[mark[c]] \in Event
      BY <2>1, ElementOfSeq DEF TypeOK
    <3>2. events[mark[c]].sequence = mark[c] /\ events[mark[c]].payload = request[c].payload
      BY <2>1 DEF Gapless, MarkInv
    <3>3. QED
      BY <3>1, <3>2 DEF Event
  <2>3. \A d \in Clients : d # c => ~HoldsSequence(d) /\ ~HoldsEvents(d)
    BY DEF LockInv, HoldsSequence, HoldsEvents
  <2>4. reply' = [reply EXCEPT ![c] = [kind |-> "appended", event |-> e]]
    OBVIOUS
  <2> HIDE DEF e
  <2>5. TypeOK'
    BY <2>2, <2>4 DEF TypeOK, Replies, AppendSteps, ReplaySteps
  <2>6. LockInv'
    BY <2>3 DEF LockInv, HoldsEvents, HoldsSequence, TypeOK
  <2>7. Gapless(events)' /\ CounterInv' /\ MarkInv'
    BY <2>1, <2>3 DEF Gapless, CounterInv, MarkInv, HoldsSequence, HoldsEvents, TypeOK
  <2>8. CapacityInv'
    BY DEF CapacityInv, WithinCapacity, AtCapacity, TypeOK
  <2>9. AcknowledgedInv'
    <3>1. reply'[c] = [kind |-> "appended", event |-> e] /\ e.sequence = Len(events)
      BY <2>1, <2>4 DEF e, TypeOK
    <3>2. \A d \in Clients : d # c => reply'[d] = reply[d]
      BY <2>4 DEF TypeOK
    <3>3. \A d \in Clients : d # c /\ reply[d].kind = "appended" =>
             reply[d].event.sequence < Len(events)
      BY <2>1 DEF AcknowledgedInv
    <3>4. QED
      BY <2>1, <2>2, <3>1, <3>2, <3>3 DEF AcknowledgedInv, AcknowledgedOnce
  <2>10. QED
    BY <2>5, <2>6, <2>7, <2>8, <2>9
<1>7. ASSUME NEW c \in Clients, ReplaySnapshot(c) PROVE IInv'
  <2> USE <1>7 DEF ReplaySnapshot, Goto
  <2>1. mark'[c] = Len(events) /\ Len(events) \in Nat
    <3>1. events = << >> => Len(events) = 0
      BY EmptySeq
    <3>2. events # << >> => Len(events) \in DOMAIN events
      BY LenProperties, EmptySeq DEF TypeOK
    <3>3. QED
      BY <3>1, <3>2, LenProperties DEF Gapless, TypeOK
  <2>2. TypeOK'
    BY <2>1 DEF TypeOK, AppendSteps, ReplaySteps
  <2>3. LockInv'
    BY DEF LockInv, HoldsEvents, HoldsSequence, TypeOK
  <2>4. Gapless(events)' /\ CounterInv'
    BY DEF Gapless, CounterInv, TypeOK
  <2>5. MarkInv'
    BY <2>1 DEF MarkInv, TypeOK
  <2>6. CapacityInv'
    BY DEF CapacityInv, WithinCapacity, AtCapacity, TypeOK
  <2>7. AcknowledgedInv'
    BY DEF AcknowledgedInv, AcknowledgedOnce
  <2>8. QED
    BY <2>2, <2>3, <2>4, <2>5, <2>6, <2>7
<1>8. ASSUME NEW c \in Clients, ReplayCollect(c) PROVE IInv'
  <2> DEFINE found == Select(events, request[c].from, mark[c])
             r == IF Ascending(found) THEN Promise!Replayed(found, mark[c])
                                      ELSE Promise!Failed
  <2> USE <1>8 DEF ReplayCollect, Return, Goto
  <2>1. mark[c] = Len(events) /\ Len(events) \in Nat /\ request[c].from \in Nat
    <3>1. request[c].op = "replay" /\ request[c].from \in StartSequences
      BY RequestArguments DEF TypeOK, ReplaySteps
    <3>2. QED
      BY <3>1, LenProperties DEF MarkInv, TypeOK
  <2>2. found \in Seq(Event)
    <3> DEFINE first == First(request[c].from)
               n == Count(request[c].from, mark[c])
    <3>1. found = [k \in 1 .. n |-> events[first + k - 1]]
      <4>1. /\ events \in Seq(Event) /\ \A i \in DOMAIN events : events[i].sequence = i
            /\ mark[c] \in Nat /\ mark[c] <= Len(events)
        BY <2>1 DEF Gapless, TypeOK
      <4>2. QED
        BY <2>1, <4>1, SelectGapless, Zenon
    <3>2. n \in Nat /\ \A k \in 1 .. n : first + k - 1 \in 1 .. Len(events)
      BY <2>1 DEF First, Count
    <3>3. \A k \in 1 .. n : events[first + k - 1] \in Event
      BY <3>2, ElementOfSeq DEF TypeOK
    <3> HIDE DEF first, n
    <3>4. QED
      BY <3>1, <3>2, <3>3, IsASeq
  <2>3. r \in Replies /\ r.kind # "appended" /\ reply' = [reply EXCEPT ![c] = r]
    <3> HIDE DEF found
    <3>1. r \in Replies /\ r.kind # "appended"
      BY <2>1, <2>2 DEF Replies, Promise!Replayed, Promise!Failed
    <3>2. QED
      BY <3>1 DEF found
  <2> HIDE DEF r
  <2>4. TypeOK'
    BY <2>3 DEF TypeOK, AppendSteps, ReplaySteps
  <2>5. LockInv'
    BY DEF LockInv, HoldsEvents, HoldsSequence, TypeOK
  <2>6. Gapless(events)' /\ CounterInv' /\ MarkInv'
    BY DEF Gapless, CounterInv, MarkInv, TypeOK
  <2>7. CapacityInv'
    BY DEF CapacityInv, WithinCapacity, AtCapacity, TypeOK
  <2>8. AcknowledgedInv'
    BY <2>3 DEF AcknowledgedInv, AcknowledgedOnce, TypeOK
  <2>9. QED
    BY <2>4, <2>5, <2>6, <2>7, <2>8
<1>9. ASSUME NEW c \in Clients, ReadLen(c) \/ ReadNextSequence(c) PROVE IInv'
  <2>1. PICK n \in Nat : reply' = [reply EXCEPT ![c] = Promise!Counted(n)]
    BY <1>9, LenProperties DEF ReadLen, ReadNextSequence, Return, TypeOK
  <2> USE <1>9, <2>1 DEF ReadLen, ReadNextSequence, Return, Goto, Promise!Counted
  <2>2. TypeOK'
    <3>1. Promise!Counted(n) \in Replies
      BY DEF Replies
    <3>2. pc' = [pc EXCEPT ![c] = "idle"] /\ UNCHANGED <<events, next_sequence, events_lock,
                                                        sequence_lock, request, mark>>
      OBVIOUS
    <3> HIDE DEF Promise!Counted
    <3>3. reply' \in [Clients -> Replies]
      BY <2>1, <3>1 DEF TypeOK
    <3>4. QED
      BY <3>2, <3>3 DEF TypeOK, AppendSteps, ReplaySteps
  <2>3. LockInv'
    BY DEF LockInv, HoldsEvents, HoldsSequence, TypeOK
  <2>4. Gapless(events)' /\ CounterInv' /\ MarkInv'
    BY DEF Gapless, CounterInv, MarkInv, TypeOK
  <2>5. CapacityInv'
    BY DEF CapacityInv, WithinCapacity, AtCapacity, TypeOK
  <2>6. AcknowledgedInv'
    BY DEF AcknowledgedInv, AcknowledgedOnce, TypeOK
  <2>7. QED
    BY <2>2, <2>3, <2>4, <2>5, <2>6
<1>10. ASSUME NEW c \in Clients, AppendAdmit(c) PROVE IInv'
  <2> USE <1>10 DEF AppendAdmit, Goto
  <2>1. TypeOK'
    BY DEF TypeOK, AppendSteps, ReplaySteps
  <2>2. LockInv'
    BY DEF LockInv, HoldsEvents, HoldsSequence, TypeOK
  <2>3. Gapless(events)' /\ CounterInv' /\ MarkInv'
    BY DEF Gapless, CounterInv, MarkInv, TypeOK
  <2>4. CapacityInv'
    BY DEF CapacityInv, WithinCapacity, AtCapacity, TypeOK
  <2>5. AcknowledgedInv'
    BY DEF AcknowledgedInv, AcknowledgedOnce
  <2>6. QED
    BY <2>1, <2>2, <2>3, <2>4, <2>5
<1>11. CASE UNCHANGED vars
  BY <1>11 DEF vars, TypeOK, LockInv, HoldsEvents, HoldsSequence, Gapless, CounterInv,
               MarkInv, CapacityInv, WithinCapacity, AtCapacity, AcknowledgedInv,
               AcknowledgedOnce
<1>12. QED
  BY <1>1, <1>2, <1>3, <1>4, <1>5, <1>6, <1>7, <1>8, <1>9, <1>10, <1>11 DEF Next, Step

(* The invariant holds in every reachable state.                            *)
THEOREM Invariance == Spec => []IInv
<1>1. QED
  BY InitInv, StepInv, PTL DEF Spec

(* The types of the variables.                                              *)
THEOREM TypeCorrect == Spec => []TypeOK
<1>1. IInv => TypeOK
  BY DEF IInv
<1>2. QED
  BY <1>1, Invariance, PTL

(* Two acknowledged appends are two events, each at its place in the log.   *)
THEOREM AcknowledgedOnceAlways == Spec => []AcknowledgedOnce
<1>1. IInv => AcknowledgedOnce
  BY DEF IInv, AcknowledgedInv
<1>2. QED
  BY <1>1, Invariance, PTL

(* Whoever can take the mutex of the counter finds it one past the log.     *)
THEOREM CounterMatchesLogAlways == Spec => []CounterMatchesLog
<1>1. IInv => CounterMatchesLog
  <2> SUFFICES ASSUME IInv, sequence_lock = NoOne PROVE next_sequence = Len(events) + 1
    BY DEF CounterMatchesLog
  <2>1. \A c \in Clients : pc[c] # "advance"
    BY StoreAssumption DEF IInv, LockInv, HoldsSequence
  <2>2. QED
    BY <2>1 DEF IInv, CounterInv
<1>2. QED
  BY <1>1, Invariance, PTL

(* Contention never takes the store past its capacity.                      *)
THEOREM WithinCapacityAlways == Spec => []WithinCapacity
<1>1. IInv => WithinCapacity
  BY DEF IInv, CapacityInv
<1>2. QED
  BY <1>1, Invariance, PTL

-----------------------------------------------------------------------------
(* Refinement *)

(* A thread that moves to another step changes its own phase only.          *)
LEMMA MovedPhase ==
  ASSUME pc \in [Clients -> {"idle", "len", "next_sequence"} \cup AppendSteps \cup ReplaySteps],
         NEW c \in Clients, NEW label, pc' = [pc EXCEPT ![c] = label]
  PROVE  [d \in Clients |-> PhaseOf(pc[d])]' =
           [[d \in Clients |-> PhaseOf(pc[d])] EXCEPT ![c] = PhaseOf(label)]
  OBVIOUS

(* Every step of a thread is the step of the promise its comment names, or  *)
(* changes nothing the promise mentions.                                    *)
LEMMA StepKeepsPromise == IInv /\ [Next]_vars => [Promise!Next]_(Promise!vars)
<1> SUFFICES ASSUME IInv, [Next]_vars PROVE [Promise!Next]_(Promise!vars)
  OBVIOUS
<1> DEFINE phase == [d \in Clients |-> PhaseOf(pc[d])]
<1>1. TypeOK
  BY DEF IInv
<1>2. ASSUME NEW c \in Clients, Call(c) PROVE Promise!Call(c)
  <2>1. PICK r \in Promise!Requests : request' = [request EXCEPT ![c] = r] /\ Goto(c, r.op)
    BY <1>2 DEF Call
  <2>2. PhaseOf(r.op) = "called"
    BY DEF Promise!Requests, PhaseOf
  <2>3. phase' = [phase EXCEPT ![c] = "called"]
    BY <1>1, <2>1, <2>2, MovedPhase DEF TypeOK, Goto
  <2>4. phase[c] = "idle"
    BY <1>2 DEF Call, PhaseOf
  <2>5. QED
    BY <1>2, <2>1, <2>3, <2>4 DEF Call, Promise!Call
<1>3. ASSUME NEW c \in Clients, AppendLockEvents(c) \/ AppendAdmit(c) \/ AppendLockSequence(c)
      PROVE  UNCHANGED Promise!vars
  <2>1. PICK label \in {"admit", "number", "push"} : pc' = [pc EXCEPT ![c] = label]
    BY <1>3 DEF AppendLockEvents, AppendAdmit, AppendLockSequence, Goto
  <2>2. PhaseOf(label) = "called" /\ phase[c] = "called"
    BY <1>3 DEF AppendLockEvents, AppendAdmit, AppendLockSequence, PhaseOf
  <2>3. phase' = [phase EXCEPT ![c] = "called"]
    BY <1>1, <2>1, <2>2, MovedPhase DEF TypeOK
  <2>4. phase' = phase
    BY <2>2, <2>3
  <2>5. QED
    BY <1>3, <2>4 DEF AppendLockEvents, AppendAdmit, AppendLockSequence, Promise!vars
<1>4. ASSUME NEW c \in Clients, AppendBackpressure(c) PROVE Promise!Fail(c)
  <2>1. phase[c] = "called" /\ request[c].op = "append"
    BY <1>1, <1>4 DEF AppendBackpressure, TypeOK, AppendSteps, PhaseOf
  <2>2. phase' = [phase EXCEPT ![c] = "idle"]
    <3>1. PhaseOf("idle") = "idle"
      BY DEF PhaseOf
    <3>2. QED
      BY <1>1, <1>4, <3>1, MovedPhase DEF TypeOK, AppendBackpressure, Return, Goto
  <2>3. QED
    BY <1>4, <2>1, <2>2 DEF AppendBackpressure, Return, Promise!Fail, Promise!Answer
<1>5. ASSUME NEW c \in Clients, AppendPush(c) PROVE Promise!Commit(c)
  <2>1. phase[c] = "called" /\ request[c].op = "append" /\ request[c].payload \in Payloads
    BY <1>1, <1>5, RequestArguments DEF AppendPush, TypeOK, AppendSteps, PhaseOf
  <2>2. phase' = [phase EXCEPT ![c] = "committed"]
    <3>1. PhaseOf("advance") = "committed"
      BY DEF PhaseOf
    <3>2. QED
      BY <1>1, <1>5, <3>1, MovedPhase DEF TypeOK, AppendPush, Goto
  <2>3. next_sequence = Len(events) + 1
    <3>1. \A d \in Clients : pc[d] # "advance"
      BY <1>5 DEF AppendPush, IInv, LockInv, HoldsSequence
    <3>2. QED
      BY <3>1 DEF IInv, CounterInv
  <2>4. /\ PayloadsOf(events') = Append(PayloadsOf(events), request[c].payload)
        /\ Len(PayloadsOf(events)) = Len(events)
    <3> DEFINE e == [sequence |-> next_sequence, payload |-> request[c].payload]
    <3>1. e \in Event /\ e.payload = request[c].payload
      BY <1>1, <2>1 DEF Event, TypeOK
    <3>2. events' = Append(events, e)
      BY <1>5 DEF AppendPush
    <3> HIDE DEF e
    <3>3. QED
      BY <1>1, <3>1, <3>2, PushedPayload DEF TypeOK
  <2>5. QED
    BY <1>5, <2>1, <2>2, <2>3, <2>4 DEF AppendPush, Promise!Commit
<1>6. ASSUME NEW c \in Clients, AppendAdvance(c) PROVE Promise!Acknowledge(c)
  <2>1. phase[c] = "committed"
    BY <1>6 DEF AppendAdvance, PhaseOf
  <2>2. phase' = [phase EXCEPT ![c] = "idle"]
    <3>1. PhaseOf("idle") = "idle"
      BY DEF PhaseOf
    <3>2. QED
      BY <1>1, <1>6, <3>1, MovedPhase DEF TypeOK, AppendAdvance, Return, Goto
  <2>3. QED
    BY <1>6, <2>1, <2>2
    DEF AppendAdvance, Return, Promise!Acknowledge, Promise!Answer, Promise!Appended
<1>7. ASSUME NEW c \in Clients, ReplaySnapshot(c) PROVE Promise!BeginReplay(c)
  <2>1. phase[c] = "called" /\ request[c].op = "replay"
    BY <1>1, <1>7 DEF ReplaySnapshot, TypeOK, ReplaySteps, PhaseOf
  <2>2. phase' = [phase EXCEPT ![c] = "reading"]
    <3>1. PhaseOf("collect") = "reading"
      BY DEF PhaseOf
    <3>2. QED
      BY <1>1, <1>7, <3>1, MovedPhase DEF TypeOK, ReplaySnapshot, Goto
  <2>3. mark' = [mark EXCEPT ![c] = Len(PayloadsOf(events))]
    <3>1. Len(PayloadsOf(events)) = Len(events)
      BY <1>1, PayloadsType DEF TypeOK
    <3>2. (IF events = << >> THEN 0 ELSE events[Len(events)].sequence) = Len(events)
      <4>1. events = << >> => Len(events) = 0
        BY EmptySeq
      <4>2. events # << >> => Len(events) \in DOMAIN events
        BY <1>1, LenProperties, EmptySeq DEF TypeOK
      <4>3. QED
        BY <4>1, <4>2 DEF IInv, Gapless
    <3>3. QED
      BY <1>7, <3>1, <3>2 DEF ReplaySnapshot
  <2>4. QED
    BY <1>7, <2>1, <2>2, <2>3 DEF ReplaySnapshot, Promise!BeginReplay
<1>8. ASSUME NEW c \in Clients, ReplayCollect(c) PROVE Promise!EndReplay(c)
  <2> DEFINE from == request[c].from
             found == Select(events, from, mark[c])
  <2>1. phase[c] = "reading"
    BY <1>8 DEF ReplayCollect, PhaseOf
  <2>2. phase' = [phase EXCEPT ![c] = "idle"]
    <3>1. PhaseOf("idle") = "idle"
      BY DEF PhaseOf
    <3>2. QED
      BY <1>1, <1>8, <3>1, MovedPhase DEF TypeOK, ReplayCollect, Return, Goto
  <2>3. /\ mark[c] = Len(events) /\ Len(events) \in Nat /\ from \in Nat
        /\ events \in Seq(Event) /\ \A i \in DOMAIN events : events[i].sequence = i
    <3>1. request[c].op = "replay" /\ from \in StartSequences
      BY <1>1, <1>8, RequestArguments DEF TypeOK, ReplaySteps, ReplayCollect
    <3>2. QED
      BY <1>1, <1>8, <3>1, StoreAssumption, LenProperties
      DEF IInv, MarkInv, TypeOK, ReplayCollect, Gapless
  <2> HIDE DEF from
  <2>4. found = [k \in 1 .. Count(from, mark[c]) |-> events[First(from) + k - 1]]
    <3>1. mark[c] \in Nat /\ mark[c] <= Len(events)
      BY <2>3
    <3>2. QED
      BY <2>3, <3>1, SelectGapless, Zenon
  <2>5. /\ Count(from, mark[c]) \in Nat
        /\ First(from) \in Nat
        /\ \A k \in 1 .. Count(from, mark[c]) : First(from) + k - 1 \in 1 .. Len(events)
    BY <2>3 DEF First, Count
  <2>6. \A k \in 1 .. Count(from, mark[c]) :
           events[First(from) + k - 1] =
             [sequence |-> First(from) + k - 1,
              payload |-> PayloadsOf(events)[First(from) + k - 1]]
    <3> SUFFICES ASSUME NEW i \in 1 .. Len(events)
                 PROVE  events[i] = [sequence |-> i, payload |-> PayloadsOf(events)[i]]
      BY <2>5
    <3>1. i \in DOMAIN events /\ events[i] \in Event
      BY <2>3, LenProperties, ElementOfSeq
    <3>2. QED
      BY <2>3, <3>1 DEF Event, PayloadsOf
  <2>7. found = Promise!EventsIn(PayloadsOf(events), from, mark[c])
    BY <2>4, <2>6 DEF Promise!EventsIn, First, Count
  <2>8. Ascending(found)
    <3>1. Len(found) = Count(from, mark[c]) /\ found \in Seq(Event)
      <4> DEFINE n == Count(from, mark[c])
                 Slice(k) == events[First(from) + k - 1]
      <4>1. \A k \in 1 .. n : Slice(k) \in Event
        BY <2>3, <2>5, ElementOfSeq
      <4>2. n \in Nat /\ found = [k \in 1 .. n |-> Slice(k)]
        BY <2>4, <2>5
      <4> HIDE DEF found, n, Slice
      <4>3. found \in Seq(Event)
        BY <4>1, <4>2, IsASeq
      <4>4. Len(found) = n
        BY <4>2, <4>3, LenProperties
      <4>5. QED
        BY <4>3, <4>4 DEF n
    <3> HIDE DEF found
    <3>2. ASSUME NEW k \in 1 .. Count(from, mark[c])
          PROVE  found[k].sequence = First(from) + k - 1
      <4>1. found[k] = events[First(from) + k - 1]
        BY <2>4
      <4>2. First(from) + k - 1 \in DOMAIN events
        BY <2>3, <2>5, LenProperties
      <4>3. QED
        BY <2>3, <4>1, <4>2
    <3>3. QED
      BY <2>5, <3>1, <3>2 DEF Ascending
  <2>9. reply' = [reply EXCEPT ![c] = Promise!Replayed(found, mark[c])]
    BY <1>8, <2>8 DEF ReplayCollect, Return, from
  <2> HIDE DEF found
  <2>10. QED
    BY <1>8, <2>1, <2>2, <2>7, <2>9 DEF ReplayCollect, Promise!EndReplay, Promise!Answer, from
<1>9. ASSUME NEW c \in Clients, ReadLen(c) \/ ReadNextSequence(c) PROVE Promise!Observe(c)
  <2>1. Len(PayloadsOf(events)) = Len(events)
    BY <1>1, PayloadsType DEF TypeOK
  <2>2. phase[c] = "called" /\ request[c].op = pc[c]
    BY <1>1, <1>9 DEF ReadLen, ReadNextSequence, TypeOK, PhaseOf
  <2>3. phase' = [phase EXCEPT ![c] = "idle"]
    <3>1. PhaseOf("idle") = "idle"
      BY DEF PhaseOf
    <3>2. QED
      BY <1>1, <1>9, <3>1, MovedPhase DEF TypeOK, ReadLen, ReadNextSequence, Return, Goto
  <2>4. CASE ReadLen(c)
    BY <2>1, <2>2, <2>3, <2>4 DEF ReadLen, Return, Promise!Observe, Promise!Answer
  <2>5. CASE ReadNextSequence(c)
    <3>1. next_sequence = Len(events) + 1
      <4>1. \A d \in Clients : pc[d] # "advance"
        BY <2>5, StoreAssumption DEF ReadNextSequence, IInv, LockInv, HoldsSequence
      <4>2. QED
        BY <4>1 DEF IInv, CounterInv
    <3>2. QED
      BY <2>1, <2>2, <2>3, <2>5, <3>1
      DEF ReadNextSequence, Return, Promise!Observe, Promise!Answer
  <2>6. QED
    BY <1>9, <2>4, <2>5
<1>10. CASE UNCHANGED vars
  BY <1>10 DEF vars, Promise!vars
<1>11. QED
  BY <1>2, <1>3, <1>4, <1>5, <1>6, <1>7, <1>8, <1>9, <1>10 DEF Next, Step, Promise!Next

(* The store implements the trait's promise, for any threads, payloads,     *)
(* start sequences and capacity.                                            *)
THEOREM Refinement == Spec => KeepsPromise
<1>1. Init => Promise!Init
  BY EmptySeq DEF Init, Promise!Init, PayloadsOf, PhaseOf
<1>2. QED
  BY <1>1, Invariance, StepKeepsPromise, PTL DEF Spec, KeepsPromise, Promise!Spec
=============================================================================
