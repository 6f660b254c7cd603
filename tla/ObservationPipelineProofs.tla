---------------------- MODULE ObservationPipelineProofs ----------------------
(***************************************************************************)
(* TypeOK, OkMeansCommitted, ChangesInScope and CountersExact for any      *)
(* number of watcher threads, any observations and any scope.  What a call *)
(* in progress has committed is followed by what it has still to append; a *)
(* call that returns adds one element to the calls that returned, and an   *)
(* accepted one its events to those that are accounted for.                *)
(***************************************************************************)
EXTENDS ObservationPipeline, FiniteSetTheorems, TLAPS

\* What a translation is made of
LEMMA Translation ==
  ASSUME NEW o \in Observations
  PROVE  /\ Translate(o) \in Seq(Payloads) /\ Translate(o) # << >>
         /\ Accepts(o) =>
              \A i \in DOMAIN Translate(o) : Explains(o, Translate(o)[i])
<1>1. \A i \in DOMAIN Translate(o) : Translate(o)[i] \in Payloads
  BY DEF Payloads
<1>2. CASE o.operation = "Renamed"
  <2>1. Translate(o) = << FileChanged(o.from, "Deleted"), FileChanged(o.path, "Created") >>
    BY <1>2 DEF Translate
  <2>2. DOMAIN Translate(o) = {1, 2}
    BY <2>1
  <2>3. /\ Translate(o)[1] = FileChanged(o.from, "Deleted")
        /\ Translate(o)[2] = FileChanged(o.path, "Created")
    BY <2>1
  <2>4. FileChanged(o.from, "Deleted") \in Payloads /\ FileChanged(o.path, "Created") \in Payloads
    BY <1>1, <2>2, <2>3
  <2>5. Translate(o) \in Seq(Payloads) /\ Translate(o) # << >>
    BY <2>1, <2>4
  <2>6. ASSUME Accepts(o)
        PROVE  \A i \in DOMAIN Translate(o) : Explains(o, Translate(o)[i])
    <3>1. InScope(o.path)
      BY <2>6 DEF Accepts
    <3>2. /\ Translate(o)[1].path = o.from /\ Translate(o)[1].operation = "Deleted"
          /\ Translate(o)[2].path = o.path
      BY <2>3 DEF FileChanged
    <3>3. Explains(o, Translate(o)[1]) /\ Explains(o, Translate(o)[2])
      BY <1>2, <3>1, <3>2, Zenon DEF Explains
    <3>4. QED
      BY <2>2, <3>3
  <2>7. QED
    BY <2>5, <2>6
<1>3. CASE o.operation # "Renamed"
  <2>1. Translate(o) = << FileChanged(o.path, o.operation) >>
    BY <1>3 DEF Translate
  <2>2. DOMAIN Translate(o) = {1} /\ Translate(o)[1] = FileChanged(o.path, o.operation)
    BY <2>1
  <2>3. FileChanged(o.path, o.operation) \in Payloads
    BY <1>1, <2>2
  <2>4. Translate(o) \in Seq(Payloads) /\ Translate(o) # << >>
    BY <2>1, <2>3
  <2>5. QED
    BY <2>2, <2>4 DEF FileChanged, Accepts, Explains
<1>4. QED
  BY <1>2, <1>3

\* The number of the call a thread is in
LEMMA CallNumber ==
  ASSUME IInv, NEW c \in Clients
  PROVE  /\ calls(c) \in Nat /\ calls(c) <= MaxCalls
         /\ pc[c] # "idle" => /\ calls(c) \in 1 .. MaxCalls
                              /\ Len(result[c]) = calls(c) - 1
                              /\ observation(c) \in Observations
BY PipelineAssumption DEF IInv, TypeOK, CallsInv, calls, observation

(* The calls that returned with one result are finitely many. *)
LEMMA FiniteReturned == ASSUME NEW r PROVE IsFiniteSet(Returned(r))
<1>1. IsFiniteSet(1 .. MaxCalls)
  BY FS_Interval, PipelineAssumption
<1>2. IsFiniteSet(Clients \X (1 .. MaxCalls))
  BY <1>1, FS_Product, PipelineAssumption
<1>3. QED
  BY <1>2, FS_Subset DEF Returned

(* So are the events of any part of the log. *)
LEMMA FiniteLog ==
  ASSUME TypeOK, NEW S \in SUBSET (DOMAIN log)
  PROVE  IsFiniteSet(S)
<1>1. DOMAIN log = 1 .. Len(log) /\ Len(log) \in Nat
  BY DEF TypeOK
<1>2. IsFiniteSet(1 .. Len(log))
  BY <1>1, FS_Interval
<1>3. QED
  BY <1>1, <1>2, FS_Subset

\* A call that returns joins the calls that returned so, and those only.
LEMMA ReturnedNext ==
  ASSUME IInv, NEW c \in Clients, pc[c] # "idle", NEW r, Return(c, r)
  PROVE  /\ Returned(r)' = Returned(r) \cup {InCall(c)}
         /\ \A s : s # r => Returned(s)' = Returned(s)
         /\ \A s : InCall(c) \notin Returned(s)
<1>1. calls(c) \in 1 .. MaxCalls /\ Len(result[c]) = calls(c) - 1
  BY CallNumber
<1>2. /\ result \in [Clients -> Seq({"not_watching", "rejected", "error", "ok"})]
      /\ result' = [result EXCEPT ![c] = Append(result[c], r)]
  BY DEF IInv, TypeOK, Return
<1>3. \A d \in Clients \ {c} : result'[d] = result[d]
  BY <1>2
<1>4. /\ result'[c] = Append(result[c], r)
      /\ Len(result'[c]) = calls(c) /\ result'[c][calls(c)] = r
      /\ \A n \in 1 .. Len(result[c]) : result'[c][n] = result[c][n]
  BY <1>1, <1>2
<1>5. \A s : \A call \in Clients \X (1 .. MaxCalls) :
        call \in Returned(s)' <=> call \in Returned(s) \/ (s = r /\ call = InCall(c))
  <2>1. SUFFICES ASSUME NEW s, NEW call \in Clients \X (1 .. MaxCalls)
                 PROVE  (call[2] <= Len(result'[call[1]]) /\ result'[call[1]][call[2]] = s)
                          <=> \/ call[2] <= Len(result[call[1]]) /\ result[call[1]][call[2]] = s
                              \/ s = r /\ call = InCall(c)
    BY DEF Returned
  <2>2. /\ call = <<call[1], call[2]>>
        /\ call[1] \in Clients /\ call[2] \in 1 .. MaxCalls
    OBVIOUS
  <2>3. CASE call[1] # c
    BY <1>3, <2>2, <2>3 DEF InCall
  <2>4. CASE call[1] = c /\ call[2] = calls(c)
    <3>1. ~(call[2] <= Len(result[c])) /\ call[2] <= Len(result'[c])
      BY <1>1, <1>4, <2>4
    <3>2. call = InCall(c)
      BY <2>2, <2>4 DEF InCall
    <3>3. QED
      BY <1>4, <2>4, <3>1, <3>2
  <2>5. CASE call[1] = c /\ call[2] # calls(c)
    <3>1. call[2] <= Len(result[c]) <=> call[2] <= Len(result'[c])
      BY <1>1, <1>4, <2>2, <2>5, PipelineAssumption
    <3>2. call[2] <= Len(result[c]) => result'[c][call[2]] = result[c][call[2]]
      <4>1. call[2] <= Len(result[c]) => call[2] \in 1 .. Len(result[c])
        BY <1>1, <2>2, PipelineAssumption
      <4>2. QED
        BY <1>4, <4>1
    <3>3. call # InCall(c)
      BY <2>5 DEF InCall
    <3>4. QED
      BY <2>5, <3>1, <3>2, <3>3
  <2>6. QED
    BY <2>3, <2>4, <2>5
<1>6. InCall(c) \in Clients \X (1 .. MaxCalls)
  BY <1>1 DEF InCall
<1>7. \A s : InCall(c) \notin Returned(s)
  BY <1>1 DEF Returned, InCall
<1>8. \A s : Returned(s) \subseteq Clients \X (1 .. MaxCalls)
             /\ Returned(s)' \subseteq Clients \X (1 .. MaxCalls)
  BY DEF Returned
<1>9. QED
  BY <1>5, <1>6, <1>7, <1>8

\* What the code translates an observation to is what the call owes.
LEMMA Owes == ASSUME NEW c \in Clients PROVE Owed(InCall(c)) = Translate(observation(c))
BY DEF Owed, InCall, observation, Translate, FileChanged

(* What a call has committed stays so, whatever is appended for others.     *)
LEMMA CommittedKept ==
  ASSUME NEW call, NEW n,
         EventsOf(call)' = EventsOf(call), \A i \in EventsOf(call) : log'[i] = log[i],
         Owed(call)' = Owed(call)
  PROVE  Committed(call, n) <=> Committed(call, n)'
BY DEF Committed, Position

(* And so does what a thread has still to append.                           *)
LEMMA ProgressKept ==
  ASSUME NEW d \in Clients, seen'[d] = seen[d], todo'[d] = todo[d],
         EventsOf(InCall(d))' = EventsOf(InCall(d)),
         \A i \in EventsOf(InCall(d)) : log'[i] = log[i]
  PROVE  InProgress(d) => InProgress(d)'
<1>1. calls(d)' = calls(d) /\ observation(d)' = observation(d)
  BY DEF calls, observation
<1>2. Owed(InCall(d))' = Owed(InCall(d)) /\ InCall(d)' = InCall(d)
  BY <1>1 DEF Owed, InCall
<1>3. \A i : Position(InCall(d), i)' = Position(InCall(d), i)
  BY DEF Position
<1>4. QED
  BY <1>1, <1>2, <1>3 DEF InProgress, Committed

\* A step that leaves log and payloads alone and brings no thread to append
LEMMA TodoKept ==
  ASSUME TodoInv, UNCHANGED <<log, seen, todo>>,
         \A d \in Clients : pc'[d] = "append" => pc[d] = "append"
  PROVE  TodoInv'
<1>1. \A d \in Clients : EventsOf(InCall(d))' = EventsOf(InCall(d))
  BY DEF EventsOf, InCall, calls
<1>2. \A d \in Clients : InProgress(d) => InProgress(d)'
  BY <1>1, ProgressKept
<1>3. \A d \in Clients : observation(d)' = observation(d)
  BY DEF observation, calls
<1>4. QED
  BY <1>2, <1>3 DEF TodoInv

\* The number of the events of a call
LEMMA Progress == ASSUME TypeOK, NEW call PROVE Cardinality(EventsOf(call)) \in Nat
<1>1. EventsOf(call) \in SUBSET (DOMAIN log)
  BY DEF EventsOf
<1>2. QED
  BY <1>1, FiniteLog, FS_CardinalityType

\* A call that has returned is not the one a thread is in.
LEMMA ReturnedCall ==
  ASSUME IInv, NEW r, NEW call \in Returned(r)
  PROVE  /\ call = <<call[1], call[2]>> /\ call[1] \in Clients
         /\ call[2] \in 1 .. calls(call[1])
         /\ \A c \in Clients : pc[c] # "idle" => call # InCall(c)
<1>1. /\ call \in Clients \X (1 .. MaxCalls) /\ call[2] <= Len(result[call[1]])
  BY DEF Returned
<1>2. call[1] \in Clients /\ call[2] \in 1 .. MaxCalls /\ call = <<call[1], call[2]>>
  BY <1>1
<1>3. /\ Len(result[call[1]]) = IF pc[call[1]] = "idle" THEN calls(call[1]) ELSE calls(call[1]) - 1
      /\ calls(call[1]) \in Nat
  BY <1>2, CallNumber DEF IInv, TypeOK
<1>4. call[2] \in Nat /\ call[2] >= 1
  BY <1>2, PipelineAssumption
<1>5. call[2] \in 1 .. calls(call[1])
  BY <1>1, <1>3, <1>4
<1>6. \A c \in Clients : pc[c] # "idle" => call # InCall(c)
  BY <1>1, <1>3, <1>4 DEF InCall
<1>7. QED
  BY <1>2, <1>5, <1>6

(* A step that appends and returns nothing leaves what the calls that have  *)
(* returned have committed.                                                 *)
LEMMA OkKept ==
  ASSUME OkMeansCommitted, UNCHANGED <<log, seen, result>>
  PROVE  OkMeansCommitted'
<1>1. \A s : Returned(s)' = Returned(s)
  BY DEF Returned
<1>2. \A call : Owed(call)' = Owed(call) /\ \A n : Committed(call, n)' <=> Committed(call, n)
  BY DEF Committed, Position, EventsOf, Owed
<1>3. QED
  BY <1>1, <1>2 DEF OkMeansCommitted

(* A call that returns need only have committed what its result says.       *)
LEMMA OkReturns ==
  ASSUME IInv, NEW c \in Clients, pc[c] # "idle",
         NEW r \in {"not_watching", "rejected", "error", "ok"}, Return(c, r),
         UNCHANGED <<log, seen>>,
         r = "ok" => Committed(InCall(c), Len(Owed(InCall(c)))),
         r = "error" => \E n \in 0 .. Len(Owed(InCall(c))) - 1 : Committed(InCall(c), n),
         r \in {"rejected", "not_watching"} => Committed(InCall(c), 0)
  PROVE  OkMeansCommitted'
<1>1. /\ Returned(r)' = Returned(r) \cup {InCall(c)}
      /\ \A s : s # r => Returned(s)' = Returned(s)
  BY ReturnedNext
<1>2. \A call : Owed(call)' = Owed(call) /\ \A n : Committed(call, n)' <=> Committed(call, n)
  BY DEF Committed, Position, EventsOf, Owed
<1>3. OkMeansCommitted
  BY DEF IInv
<1>4. \A call \in Returned("ok")' : Committed(call, Len(Owed(call)))
  BY <1>1, <1>3 DEF OkMeansCommitted
<1>5. \A call \in Returned("error")' : \E n \in 0 .. Len(Owed(call)) - 1 : Committed(call, n)
  BY <1>1, <1>3 DEF OkMeansCommitted
<1>6. \A call \in Returned("rejected")' \cup Returned("not_watching")' : Committed(call, 0)
  BY <1>1, <1>3 DEF OkMeansCommitted
<1>7. QED
  BY <1>2, <1>4, <1>5, <1>6 DEF OkMeansCommitted

(* A step that returns no call and appends no event keeps what the counters *)
(* count.                                                                   *)
LEMMA CountsKept ==
  ASSUME CountersExact, UNCHANGED <<stats, log, result>>
  PROVE  CountersExact'
BY DEF CountersExact, stats, Returned

\* A call that returns neither accepted nor rejected is not counted.
LEMMA NotCounted ==
  ASSUME IInv, NEW c \in Clients, pc[c] # "idle", NEW r \in {"not_watching", "error"},
         Return(c, r), UNCHANGED <<stats, log>>
  PROVE  CountersExact'
<1>1. Returned("ok")' = Returned("ok") /\ Returned("rejected")' = Returned("rejected")
  BY ReturnedNext
<1>2. QED
  BY <1>1 DEF IInv, CountersExact, stats

-----------------------------------------------------------------------------
(* A pipeline that was just made satisfies the invariant. *)
THEOREM InitInv == Init => IInv
<1> SUFFICES ASSUME Init PROVE IInv
  OBVIOUS
<1> USE PipelineAssumption DEF Init
<1>1. TypeOK
  BY DEF TypeOK, Statuses, calls
<1>2. CallsInv
  BY DEF CallsInv, calls
<1>3. TodoInv
  BY DEF TodoInv
<1>4. ChangesInScope
  BY DEF ChangesInScope
<1>5. \A s : Returned(s) = {}
  BY DEF Returned
<1>6. OkMeansCommitted
  BY <1>5 DEF OkMeansCommitted
<1>7. CountersExact
  <2>1. Returned("ok") = {} /\ Returned("rejected") = {}
    BY <1>5
  <2>2. {i \in DOMAIN log : log[i].from \in Returned("ok")} = {}
    BY <2>1
  <2>3. QED
    BY <2>1, <2>2, FS_EmptySet DEF CountersExact
<1>8. QED
  BY <1>1, <1>2, <1>3, <1>4, <1>6, <1>7 DEF IInv

\* SetStatus keeps the invariant.
LEMMA SetStatusStep ==
  ASSUME IInv, NEW next \in Statuses, SetStatus(next)
  PROVE  IInv'
<1> USE DEF IInv, SetStatus
<1>1. TypeOK'
  BY DEF TypeOK, stats, calls
<1>2. CallsInv'
  BY DEF CallsInv, EventsOf, InCall, calls
<1>3. TodoInv'
  BY TodoKept
<1>4. ChangesInScope'
  BY DEF ChangesInScope
<1>5. CountersExact' /\ OkMeansCommitted'
  BY CountsKept, OkKept
<1>6. QED
  BY <1>1, <1>2, <1>3, <1>4, <1>5

\* Call keeps the invariant.
LEMMA CallStep ==
  ASSUME IInv, NEW c \in Clients, Call(c)
  PROVE  IInv'
<1> USE PipelineAssumption DEF IInv, Call
<1>1. PICK o \in Observations : seen' = [seen EXCEPT ![c] = Append(seen[c], o)]
  OBVIOUS
<1>2. /\ \A d \in Clients \ {c} : seen'[d] = seen[d] /\ pc'[d] = pc[d]
      /\ seen'[c] = Append(seen[c], o) /\ Len(seen'[c]) = Len(seen[c]) + 1
      /\ pc'[c] = "check" /\ pc[c] = "idle" /\ Len(seen[c]) \in Nat
      /\ seen' \in [Clients -> Seq(Observations)]
  BY <1>1 DEF TypeOK
<1>3. TypeOK'
  BY <1>2 DEF TypeOK, stats, calls
<1>4. \A i \in DOMAIN log : log[i].from \in Clients \X (1 .. MaxCalls)
  <2> DEFINE Event == [payload : Payloads, from : Clients \X (1 .. MaxCalls)]
  <2>1. log \in Seq(Event)
    BY DEF TypeOK
  <2>2. \A e \in Event : e.from \in Clients \X (1 .. MaxCalls)
    OBVIOUS
  <2> HIDE DEF Event
  <2>3. QED
    BY <2>1, <2>2
<1>5. EventsOf(InCall(c))' = {}
  BY <1>2, <1>4 DEF EventsOf, InCall, calls, CallsInv
<1>6. CallsInv'
  <2>1. \A d \in Clients : calls(d)' <= MaxCalls /\ calls(d) <= calls(d)'
    BY <1>2 DEF CallsInv, calls, TypeOK
  <2>2. \A i \in DOMAIN log' : log'[i].from[2] <= Len(seen'[log'[i].from[1]])
    <3>1. SUFFICES ASSUME NEW i \in DOMAIN log
                   PROVE  log[i].from[2] <= Len(seen'[log[i].from[1]])
      OBVIOUS
    <3>2. log[i].from[1] \in Clients /\ log[i].from[2] \in Nat
      BY <1>4
    <3>3. log[i].from[2] <= Len(seen[log[i].from[1]])
      BY DEF CallsInv, calls
    <3>4. QED
      BY <1>2, <3>2, <3>3
  <2>3. \A d \in Clients \ {c} : EventsOf(InCall(d))' = EventsOf(InCall(d))
    BY <1>2 DEF EventsOf, InCall, calls
  <2>4. QED
    BY <1>2, <1>5, <2>1, <2>2, <2>3 DEF CallsInv, calls
<1>7. TodoInv'
  <2>1. pc'[c] # "append" /\ todo' = todo
    BY <1>2
  <2>2. \A d \in Clients \ {c} :
          EventsOf(InCall(d))' = EventsOf(InCall(d)) /\ pc'[d] = pc[d]
    BY <1>2 DEF EventsOf, InCall, calls
  <2>3. \A d \in Clients \ {c} : InProgress(d) => InProgress(d)'
    BY <1>2, <2>1, <2>2, ProgressKept
  <2>4. \A d \in Clients \ {c} : observation(d)' = observation(d)
    BY <1>2 DEF observation, calls
  <2>5. DOMAIN todo[c] = {}
    <3>1. todo[c] = << >>
      BY <1>2 DEF TypeOK
    <3>2. QED
      BY <3>1
  <2>6. QED
    BY <2>1, <2>2, <2>3, <2>4, <2>5 DEF TodoInv
<1>8. ChangesInScope'
  <2>1. SUFFICES ASSUME NEW i \in DOMAIN log
                 PROVE  LET call == log[i].from
                        IN  seen'[call[1]][call[2]] = seen[call[1]][call[2]]
    BY DEF ChangesInScope
  <2>2. log[i].from[1] \in Clients /\ log[i].from[2] \in 1 .. MaxCalls
    BY <1>4
  <2>3. log[i].from[2] <= Len(seen[log[i].from[1]])
    BY DEF CallsInv, calls
  <2>4. log[i].from[2] \in 1 .. Len(seen[log[i].from[1]])
    BY <2>2, <2>3
  <2>5. QED
    BY <1>2, <2>2, <2>4 DEF TypeOK
<1>9. CountersExact'
  BY CountsKept
<1>10. OkMeansCommitted'
  <2>1. \A s : Returned(s)' = Returned(s)
    BY DEF Returned
  <2>2. \A s : \A call \in Returned(s) :
          Owed(call)' = Owed(call) /\ \A n : Committed(call, n)' <=> Committed(call, n)
    <3>1. SUFFICES ASSUME NEW s, NEW call \in Returned(s)
                   PROVE  Owed(call)' = Owed(call) /\ \A n : Committed(call, n)' <=> Committed(call, n)
      OBVIOUS
    <3>2. call[1] \in Clients /\ call[2] \in 1 .. Len(seen[call[1]])
      BY ReturnedCall DEF calls
    <3>3. seen'[call[1]][call[2]] = seen[call[1]][call[2]]
      BY <1>2, <3>2 DEF TypeOK
    <3>4. Owed(call)' = Owed(call)
      BY <3>3 DEF Owed
    <3>5. EventsOf(call)' = EventsOf(call) /\ \A i \in EventsOf(call) : log'[i] = log[i]
      BY DEF EventsOf
    <3>6. QED
      BY <3>4, <3>5, CommittedKept
  <2>3. QED
    BY <2>1, <2>2 DEF OkMeansCommitted
<1>11. QED
  BY <1>3, <1>6, <1>7, <1>8, <1>9, <1>10

\* What a call that returns leaves of the invariant to its counters
LEMMA ReturnKeeps ==
  ASSUME IInv, NEW c \in Clients, pc[c] # "idle",
         NEW r \in {"not_watching", "rejected", "error", "ok"}, Return(c, r),
         UNCHANGED <<status, log, seen>>,
         accepted' \in Nat /\ rejected' \in Nat /\ events_created' \in Nat
  PROVE  TypeOK' /\ CallsInv' /\ TodoInv' /\ ChangesInScope'
<1> USE PipelineAssumption DEF IInv, Return
<1>1. Len(result[c]) = calls(c) - 1 /\ calls(c) \in Nat
  BY CallNumber
<1>2. /\ \A d \in Clients \ {c} : pc'[d] = pc[d] /\ todo'[d] = todo[d] /\ result'[d] = result[d]
      /\ pc'[c] = "idle" /\ todo'[c] = << >> /\ result'[c] = Append(result[c], r)
  BY DEF TypeOK, TodoInv
<1>3. TypeOK'
  <2>1. Len(result'[c]) = calls(c)
    BY <1>1, <1>2 DEF TypeOK
  <2>2. QED
    BY <1>2, <2>1 DEF TypeOK, calls
<1>4. CallsInv'
  BY <1>2 DEF CallsInv, EventsOf, InCall, calls
<1>5. TodoInv'
  <2>1. todo' \in [Clients -> Seq(Payloads)]
    BY DEF TodoInv
  <2>2. \A d \in Clients : EventsOf(InCall(d))' = EventsOf(InCall(d))
    BY DEF EventsOf, InCall, calls
  <2>3. \A d \in Clients \ {c} : InProgress(d) => InProgress(d)'
    BY <1>2, <2>2, ProgressKept
  <2>4. \A d \in Clients : observation(d)' = observation(d)
    BY DEF observation, calls
  <2>5. QED
    BY <1>2, <2>1, <2>3, <2>4 DEF TodoInv
<1>6. ChangesInScope'
  BY DEF ChangesInScope
<1>7. QED
  BY <1>3, <1>4, <1>5, <1>6

\* What a step that only moves on leaves
LEMMA MoveKeeps ==
  ASSUME IInv, NEW c \in Clients, NEW p \in {"filter", "append"},
         pc' = [pc EXCEPT ![c] = p], pc[c] # "idle",
         UNCHANGED <<status, stats, log, seen, result>>,
         p = "filter" => pc[c] = "check" /\ UNCHANGED todo
  PROVE  /\ p = "filter" => TypeOK' /\ CallsInv' /\ TodoInv'
         /\ ChangesInScope' /\ CountersExact' /\ OkMeansCommitted'
<1> USE PipelineAssumption DEF IInv
<1>1. (\A d \in Clients \ {c} : pc'[d] = pc[d]) /\ pc'[c] = p
  BY DEF TypeOK
<1>2. p = "filter" => TypeOK'
  BY <1>1 DEF TypeOK, stats, calls
<1>3. p = "filter" => CallsInv'
  BY <1>1 DEF CallsInv, EventsOf, InCall, calls
<1>4. p = "filter" => TodoInv'
  BY <1>1, TodoKept
<1>5. ChangesInScope' /\ CountersExact' /\ OkMeansCommitted'
  BY CountsKept, OkKept DEF ChangesInScope
<1>6. QED
  BY <1>2, <1>3, <1>4, <1>5

\* A call that has not reached the store has committed nothing.
LEMMA NothingCommitted ==
  ASSUME IInv, NEW c \in Clients, pc[c] \in {"check", "filter"}
  PROVE  Committed(InCall(c), 0)
<1>1. EventsOf(InCall(c)) = {}
  BY DEF IInv, CallsInv
<1>2. QED
  BY <1>1, FS_EmptySet DEF Committed

\* CheckStatus keeps the invariant.
LEMMA CheckStatusStep ==
  ASSUME IInv, NEW c \in Clients, CheckStatus(c)
  PROVE  IInv'
<1>1. CASE status = "Watching"
  BY <1>1, MoveKeeps DEF CheckStatus, IInv, stats
<1>2. CASE status # "Watching"
  <2>1. Return(c, "not_watching") /\ pc[c] # "idle" /\ UNCHANGED <<status, stats, log, seen>>
    BY <1>2 DEF CheckStatus
  <2>2. accepted' \in Nat /\ rejected' \in Nat /\ events_created' \in Nat
    BY <2>1 DEF IInv, TypeOK, stats
  <2>3. TypeOK' /\ CallsInv' /\ TodoInv' /\ ChangesInScope'
    BY <2>1, <2>2, ReturnKeeps
  <2>4. CountersExact'
    BY <2>1, NotCounted
  <2>5. Committed(InCall(c), 0)
    BY NothingCommitted DEF CheckStatus
  <2>6. OkMeansCommitted'
    BY <2>1, <2>5, OkReturns
  <2>7. QED
    BY <2>3, <2>4, <2>6 DEF IInv
<1>3. QED
  BY <1>1, <1>2

\* Reject keeps the invariant.
LEMMA RejectStep ==
  ASSUME IInv, NEW c \in Clients, Reject(c)
  PROVE  IInv'
<1>1. /\ Return(c, "rejected") /\ pc[c] # "idle" /\ rejected' = rejected + 1
      /\ UNCHANGED <<status, accepted, events_created, log, seen>>
  BY DEF Reject
<1>2. accepted' \in Nat /\ rejected' \in Nat /\ events_created' \in Nat
  BY <1>1 DEF IInv, TypeOK
<1>3. TypeOK' /\ CallsInv' /\ TodoInv' /\ ChangesInScope'
  BY <1>1, <1>2, ReturnKeeps
<1>4. /\ Returned("rejected")' = Returned("rejected") \cup {InCall(c)}
      /\ Returned("ok")' = Returned("ok") /\ InCall(c) \notin Returned("rejected")
  BY <1>1, ReturnedNext
<1>5. Cardinality(Returned("rejected")') = Cardinality(Returned("rejected")) + 1
  BY <1>4, FiniteReturned, FS_AddElement
<1>6. CountersExact'
  BY <1>1, <1>4, <1>5 DEF IInv, CountersExact
<1>7. Committed(InCall(c), 0)
  BY NothingCommitted DEF Reject
<1>8. OkMeansCommitted'
  BY <1>1, <1>7, OkReturns
<1>9. QED
  BY <1>3, <1>6, <1>8 DEF IInv

\* Accept keeps the invariant.
LEMMA AcceptStep ==
  ASSUME IInv, NEW c \in Clients, Accept(c)
  PROVE  IInv'
<1> USE PipelineAssumption DEF IInv, Accept
<1>1. ChangesInScope' /\ CountersExact' /\ OkMeansCommitted'
  BY MoveKeeps DEF stats
<1>2. /\ \A d \in Clients \ {c} : pc'[d] = pc[d] /\ todo'[d] = todo[d]
      /\ pc'[c] = "append" /\ todo'[c] = Translate(observation(c)) /\ pc[c] = "filter"
  BY DEF TypeOK, TodoInv
<1>3. observation(c) \in Observations
  BY CallNumber
<1>4. /\ Translate(observation(c)) \in Seq(Payloads)
      /\ \A i \in DOMAIN Translate(observation(c)) :
           Explains(observation(c), Translate(observation(c))[i])
  BY <1>3, Translation
<1>5. TypeOK'
  BY <1>2 DEF TypeOK, stats, calls
<1>6. CallsInv'
  BY <1>2 DEF CallsInv, EventsOf, InCall, calls
<1>7. TodoInv'
  <2>1. todo' \in [Clients -> Seq(Payloads)]
    BY <1>4 DEF TodoInv
  <2>2. /\ \A d \in Clients : observation(d)' = observation(d)
        /\ \A d \in Clients : EventsOf(InCall(d))' = EventsOf(InCall(d))
    BY DEF observation, calls, EventsOf, InCall
  <2>3. \A d \in Clients \ {c} : InProgress(d) => InProgress(d)'
    BY <1>2, <2>2, ProgressKept
  <2>4. InProgress(c)'
    <3>1. EventsOf(InCall(c))' = {} /\ Cardinality(EventsOf(InCall(c))') = 0
      BY <2>2, FS_EmptySet DEF CallsInv
    <3>2. Committed(InCall(c), 0)'
      BY <3>1 DEF Committed
    <3>3. Len(Translate(observation(c))) \in Nat
      BY <1>4
    <3>4. \A i \in DOMAIN Translate(observation(c)) : i = 0 + i
      BY <1>4
    <3>5. QED
      BY <1>2, <2>2, <3>1, <3>2, <3>3, <3>4 DEF InProgress
  <2>5. QED
    BY <1>2, <1>4, <2>1, <2>2, <2>3, <2>4 DEF TodoInv
<1>8. QED
  BY <1>1, <1>5, <1>6, <1>7

\* The event appended follows those the call has committed, and what is left
\* to append follows it.
LEMMA AppendProgresses ==
  ASSUME IInv, NEW c \in Clients, AppendEvent(c)
  PROVE  InProgress(c)'
<1> DEFINE event == EventOf(c, Head(todo[c]))
           last == Len(log) + 1
           mine == EventsOf(InCall(c))
           n == Cardinality(mine)
           owed == Translate(observation(c))
<1>1. /\ pc[c] = "append" /\ todo[c] # << >> /\ log' = Append(log, event)
      /\ todo' = [todo EXCEPT ![c] = Tail(todo[c])] /\ UNCHANGED <<pc, seen>>
  BY DEF AppendEvent
<1>2. todo \in [Clients -> Seq(Payloads)] /\ todo[c] \in Seq(Payloads)
  BY DEF IInv, TodoInv
<1>3. /\ todo'[c] = Tail(todo[c]) /\ Len(todo'[c]) = Len(todo[c]) - 1
      /\ Head(todo[c]) = todo[c][1] /\ 1 \in DOMAIN todo[c]
      /\ \A i \in DOMAIN todo'[c] : todo'[c][i] = todo[c][i + 1] /\ i + 1 \in DOMAIN todo[c] /\ i \in Nat
  BY <1>1, <1>2
<1>4. Len(log) \in Nat /\ DOMAIN log = 1 .. Len(log)
  BY DEF IInv, TypeOK
<1>5. DOMAIN log' = DOMAIN log \cup {last} /\ log'[last] = event /\ \A i \in DOMAIN log : log'[i] = log[i]
  <2>1. log \in Seq([payload : Payloads, from : Clients \X (1 .. MaxCalls)])
    BY DEF IInv, TypeOK
  <2>2. Head(todo[c]) \in Payloads /\ calls(c) \in 1 .. MaxCalls
    BY <1>1, <1>2, <1>3, CallNumber
  <2>3. event \in [payload : Payloads, from : Clients \X (1 .. MaxCalls)]
    BY <2>2 DEF EventOf
  <2> HIDE DEF event
  <2>4. QED
    BY <1>1, <2>1, <2>3
<1>6. event.payload = Head(todo[c]) /\ event.from = InCall(c)
  BY DEF EventOf, InCall
<1>7. InCall(c)' = InCall(c) /\ observation(c)' = observation(c) /\ Owed(InCall(c))' = Owed(InCall(c))
  BY <1>1 DEF InCall, calls, observation, Owed
<1>8. /\ n + Len(todo[c]) = Len(owed)
      /\ \A i \in mine : log[i].payload = owed[Position(InCall(c), i)]
      /\ \A i \in DOMAIN todo[c] : todo[c][i] = owed[n + i]
  BY <1>1, Owes DEF IInv, TodoInv, InProgress, Committed
<1> HIDE DEF event
<1>9. EventsOf(InCall(c))' = mine \cup {last}
  BY <1>5, <1>6, <1>7 DEF EventsOf
<1>10. /\ \A j \in mine : j \in Nat /\ j < last
       /\ last \notin mine /\ last \in Nat
  BY <1>4 DEF EventsOf
<1>11. mine \in SUBSET (DOMAIN log) /\ IsFiniteSet(mine) /\ n \in Nat
  <2>1. mine \in SUBSET (DOMAIN log)
    BY DEF EventsOf
  <2>2. QED
    BY <2>1, FiniteLog, FS_CardinalityType DEF IInv
<1> HIDE DEF mine, last
<1>12. Cardinality(mine \cup {last}) = n + 1
  BY <1>10, <1>11, FS_AddElement
<1>13. \A i \in mine : Position(InCall(c), i)' = Position(InCall(c), i)
  <2>1. \A i \in mine : {j \in mine \cup {last} : j <= i} = {j \in mine : j <= i}
    BY <1>10
  <2>2. QED
    BY <1>9, <2>1 DEF Position, mine
<1>14. \A i : i = last => Position(InCall(c), i)' = n + 1
  <2>1. {j \in mine \cup {last} : j <= last} = mine \cup {last}
    BY <1>10
  <2>2. QED
    BY <1>9, <1>12, <2>1 DEF Position
<1>15. \A i \in mine \cup {last} : log'[i].payload = owed[Position(InCall(c), i)']
  <2>1. \A i \in mine : log'[i].payload = log[i].payload
    BY <1>5, <1>11
  <2>2. log'[last].payload = owed[n + 1]
    BY <1>3, <1>5, <1>6, <1>8
  <2>3. QED
    BY <1>8, <1>13, <1>14, <2>1, <2>2
<1> HIDE DEF n
<1>16. \A i \in DOMAIN todo'[c] : todo'[c][i] = owed[(n + 1) + i]
  BY <1>3, <1>8, <1>11
<1>17. (n + 1) + Len(todo'[c]) = Len(owed)
  <2> DEFINE before == Len(todo[c])
             after == Len(todo'[c])
  <2>1. before \in Nat /\ after = before - 1 /\ n + before = Len(owed)
    BY <1>2, <1>3, <1>8
  <2> HIDE DEF before, after
  <2>2. (n + 1) + after = n + before
    BY <1>11, <2>1
  <2>3. QED
    BY <2>1, <2>2 DEF after
<1>18. Owed(InCall(c))' = owed
  BY <1>7, Owes
<1>19. Cardinality(EventsOf(InCall(c))') = n + 1
  BY <1>9, <1>12
<1>20. Committed(InCall(c), Cardinality(EventsOf(InCall(c))))'
  BY <1>7, <1>9, <1>15, <1>18, <1>19 DEF Committed
<1>21. QED
  BY <1>7, <1>16, <1>17, <1>19, <1>20 DEF InProgress

\* AppendEvent keeps the invariant.
LEMMA AppendEventStep ==
  ASSUME IInv, NEW c \in Clients, AppendEvent(c)
  PROVE  IInv'
<1> USE PipelineAssumption DEF IInv, AppendEvent
<1> DEFINE event == EventOf(c, Head(todo[c]))
           last == Len(log) + 1
<1>1. calls(c) \in 1 .. MaxCalls
  BY CallNumber
<1>2. todo[c] \in Seq(Payloads) /\ todo[c] # << >>
  BY DEF TodoInv
<1>3. /\ Head(todo[c]) \in Payloads
      /\ Explains(observation(c), Head(todo[c]))
      /\ Tail(todo[c]) \in Seq(Payloads) /\ Len(Tail(todo[c])) = Len(todo[c]) - 1
      /\ \A i \in DOMAIN Tail(todo[c]) : Tail(todo[c])[i] = todo[c][i + 1] /\ i + 1 \in DOMAIN todo[c]
  BY <1>2 DEF TodoInv
<1>4. event \in [payload : Payloads, from : Clients \X (1 .. MaxCalls)]
  BY <1>1, <1>3 DEF EventOf
<1>5. /\ log' = Append(log, event)
      /\ log \in Seq([payload : Payloads, from : Clients \X (1 .. MaxCalls)])
  BY DEF TypeOK
<1> HIDE DEF event
<1>6. /\ DOMAIN log' = DOMAIN log \cup {last} /\ last \notin DOMAIN log
      /\ log'[last] = event /\ \A i \in DOMAIN log : log'[i] = log[i]
  BY <1>4, <1>5
<1>7. event.payload = Head(todo[c]) /\ event.from = InCall(c)
  BY DEF event, EventOf, InCall
<1>8. /\ \A d \in Clients \ {c} : todo'[d] = todo[d]
      /\ todo'[c] = Tail(todo[c]) /\ todo' \in [Clients -> Seq(Payloads)]
  BY <1>3 DEF TodoInv
<1>9. TypeOK'
  <2>1. log' \in Seq([payload : Payloads, from : Clients \X (1 .. MaxCalls)])
    BY <1>4, <1>5
  <2>2. QED
    BY <1>8, <2>1 DEF TypeOK, stats, calls
<1>10. \A d \in Clients \ {c} : EventsOf(InCall(d))' = EventsOf(InCall(d))
  <2>1. SUFFICES ASSUME NEW d \in Clients \ {c}
                 PROVE  EventsOf(InCall(d))' = EventsOf(InCall(d))
    OBVIOUS
  <2>2. InCall(d) # InCall(c) /\ InCall(d)' = InCall(d)
    BY DEF InCall, calls
  <2>3. QED
    BY <1>6, <1>7, <2>2 DEF EventsOf
<1>11. EventsOf(InCall(c))' = EventsOf(InCall(c)) \cup {last}
  <2>1. InCall(c)' = InCall(c)
    BY DEF InCall, calls
  <2>2. QED
    BY <1>6, <1>7, <2>1 DEF EventsOf
<1>12. CallsInv'
  <2>1. \A i \in DOMAIN log' : log'[i].from[2] <= Len(seen[log'[i].from[1]])
    BY <1>1, <1>6, <1>7 DEF CallsInv, InCall, calls
  <2>2. QED
    BY <1>10, <2>1 DEF CallsInv, calls
<1>13. TodoInv'
  <2>1. \A d \in Clients \ {c} : InProgress(d) => InProgress(d)'
    <3>1. \A d \in Clients \ {c} : \A i \in EventsOf(InCall(d)) : log'[i] = log[i]
      BY <1>6 DEF EventsOf
    <3>2. QED
      BY <1>8, <1>10, <3>1, ProgressKept
  <2>2. \A d \in Clients : \A i \in DOMAIN todo'[d] : Explains(observation(d), todo'[d][i])
    BY <1>3, <1>8 DEF TodoInv
  <2>3. InProgress(c)'
    BY AppendProgresses
  <2>4. QED
    BY <1>8, <2>1, <2>2, <2>3 DEF TodoInv, observation, calls
<1>14. ChangesInScope'
  <2>1. seen[event.from[1]][event.from[2]] = observation(c)
    BY <1>7 DEF InCall, observation
  <2>2. Explains(seen[event.from[1]][event.from[2]], event.payload)
    BY <1>3, <1>7, <2>1
  <2>3. QED
    BY <1>6, <2>2 DEF ChangesInScope
<1>15. CountersExact'
  <2>1. InCall(c) \notin Returned("ok")
    BY CallNumber DEF Returned, InCall
  <2>2. Returned("ok")' = Returned("ok") /\ Returned("rejected")' = Returned("rejected")
    BY DEF Returned
  <2>3. {i \in DOMAIN log' : log'[i].from \in Returned("ok")}
          = {i \in DOMAIN log : log[i].from \in Returned("ok")}
    BY <1>6, <1>7, <2>1
  <2>4. QED
    BY <2>2, <2>3 DEF CountersExact, stats
<1>16. OkMeansCommitted'
  <2>1. \A s : Returned(s)' = Returned(s)
    BY DEF Returned
  <2>2. \A s : \A call \in Returned(s) :
          Owed(call)' = Owed(call) /\ \A n : Committed(call, n)' <=> Committed(call, n)
    <3>1. SUFFICES ASSUME NEW s, NEW call \in Returned(s)
                   PROVE  Owed(call)' = Owed(call) /\ \A n : Committed(call, n)' <=> Committed(call, n)
      OBVIOUS
    <3>2. call # InCall(c)
      BY ReturnedCall
    <3>3. EventsOf(call)' = EventsOf(call) /\ \A i \in EventsOf(call) : log'[i] = log[i]
      BY <1>6, <1>7, <3>2 DEF EventsOf
    <3>4. Owed(call)' = Owed(call)
      BY DEF Owed
    <3>5. QED
      BY <3>3, <3>4, CommittedKept
  <2>3. QED
    BY <2>1, <2>2 DEF OkMeansCommitted
<1>17. QED
  BY <1>9, <1>12, <1>13, <1>14, <1>15, <1>16

\* AppendFails keeps the invariant.
LEMMA AppendFailsStep ==
  ASSUME IInv, NEW c \in Clients, AppendFails(c)
  PROVE  IInv'
<1>1. Return(c, "error") /\ pc[c] # "idle" /\ UNCHANGED <<status, stats, log, seen>>
  BY DEF AppendFails
<1>2. accepted' \in Nat /\ rejected' \in Nat /\ events_created' \in Nat
  BY <1>1 DEF IInv, TypeOK, stats
<1>3. TypeOK' /\ CallsInv' /\ TodoInv' /\ ChangesInScope'
  BY <1>1, <1>2, ReturnKeeps
<1>4. CountersExact'
  BY <1>1, NotCounted
<1>5. \E n \in 0 .. Len(Owed(InCall(c))) - 1 : Committed(InCall(c), n)
  <2> DEFINE n == Cardinality(EventsOf(InCall(c)))
             owed == Len(Translate(observation(c)))
             left == Len(todo[c])
  <2>1. Committed(InCall(c), n) /\ n + left = owed
    BY DEF AppendFails, IInv, TodoInv, InProgress
  <2>2. todo[c] \in Seq(Payloads) /\ todo[c] # << >>
    BY DEF AppendFails, IInv, TodoInv
  <2>3. left \in Nat /\ left > 0 /\ n \in Nat
    <3>1. TypeOK
      BY DEF IInv
    <3>2. n \in Nat
      BY <3>1, Progress
    <3>3. left \in Nat /\ left > 0
      BY <2>2
    <3>4. QED
      BY <3>2, <3>3
  <2>4. Owed(InCall(c)) = Translate(observation(c))
    BY Owes
  <2> HIDE DEF n, left
  <2>5. n \in 0 .. owed - 1
    BY <2>1, <2>3
  <2>6. QED
    BY <2>1, <2>4, <2>5
<1>6. OkMeansCommitted'
  BY <1>1, <1>5, OkReturns
<1>7. QED
  BY <1>3, <1>4, <1>6 DEF IInv

\* Count keeps the invariant.
LEMMA CountStep ==
  ASSUME IInv, NEW c \in Clients, Count(c)
  PROVE  IInv'
<1> DEFINE mine == EventsOf(InCall(c))
           counted == {i \in DOMAIN log : log[i].from \in Returned("ok")}
<1>1. /\ Return(c, "ok") /\ pc[c] = "append" /\ todo[c] = << >>
      /\ accepted' = accepted + 1
      /\ events_created' = events_created + Len(Translate(observation(c)))
      /\ UNCHANGED <<status, rejected, log, seen>>
  BY DEF Count
<1>2. Len(Translate(observation(c))) \in Nat
  BY <1>1, CallNumber, Translation
<1>3. accepted' \in Nat /\ rejected' \in Nat /\ events_created' \in Nat
  BY <1>1, <1>2 DEF IInv, TypeOK
<1>4. TypeOK' /\ CallsInv' /\ TodoInv' /\ ChangesInScope'
  BY <1>1, <1>3, ReturnKeeps
<1>5. /\ Returned("ok")' = Returned("ok") \cup {InCall(c)}
      /\ Returned("rejected")' = Returned("rejected") /\ InCall(c) \notin Returned("ok")
  BY <1>1, ReturnedNext
<1>6. Cardinality(Returned("ok")') = Cardinality(Returned("ok")) + 1
  BY <1>5, FiniteReturned, FS_AddElement
<1>7. /\ {i \in DOMAIN log' : log'[i].from \in Returned("ok")'} = counted \cup mine
      /\ counted \cap mine = {}
  BY <1>1, <1>5 DEF EventsOf
<1>8. IsFiniteSet(counted) /\ IsFiniteSet(mine)
  <2>1. counted \in SUBSET (DOMAIN log) /\ mine \in SUBSET (DOMAIN log)
    BY DEF EventsOf
  <2>2. QED
    BY <2>1, FiniteLog DEF IInv
<1> HIDE DEF counted
<1>9. Cardinality(counted \cup mine) = Cardinality(counted) + Cardinality(mine)
  <2>1. Cardinality({}) = 0 /\ Cardinality(counted) \in Nat /\ Cardinality(mine) \in Nat
    BY <1>8, FS_EmptySet, FS_CardinalityType
  <2>2. Cardinality(counted \cup mine)
          = Cardinality(counted) + Cardinality(mine) - Cardinality(counted \cap mine)
    BY <1>8, FS_Union
  <2>3. Cardinality(counted \cap mine) = 0
    BY <1>7, FS_EmptySet DEF counted
  <2> HIDE DEF mine
  <2>4. QED
    BY <2>1, <2>2, <2>3
<1>10. Cardinality(mine) = Len(Translate(observation(c)))
  <2>1. Cardinality(mine) \in Nat
    BY <1>8, FS_CardinalityType
  <2>2. QED
    BY <1>1, <2>1 DEF IInv, TodoInv, InProgress
<1>11. CountersExact'
  BY <1>1, <1>5, <1>6, <1>7, <1>9, <1>10 DEF IInv, CountersExact, counted
<1>12. Committed(InCall(c), Len(Owed(InCall(c))))
  BY <1>1, <1>10, Owes DEF IInv, TodoInv, InProgress
<1>13. OkMeansCommitted'
  BY <1>1, <1>12, OkReturns
<1>14. QED
  BY <1>4, <1>11, <1>13 DEF IInv

-----------------------------------------------------------------------------
\* No step of any thread, and no change of the status, breaks the invariant.
THEOREM StepInv == IInv /\ [Next]_vars => IInv'
<1> SUFFICES ASSUME IInv, [Next]_vars PROVE IInv'
  OBVIOUS
<1>1. ASSUME NEW next \in Statuses, SetStatus(next) PROVE IInv'
  BY <1>1, SetStatusStep
<1>2. ASSUME NEW c \in Clients, Call(c) PROVE IInv'
  BY <1>2, CallStep
<1>3. ASSUME NEW c \in Clients, Step(c) PROVE IInv'
  BY <1>3, CheckStatusStep, RejectStep, AcceptStep, AppendEventStep, AppendFailsStep, CountStep
     DEF Step
<1>4. CASE UNCHANGED vars
  <2> USE <1>4 DEF IInv, vars, stats
  <2>1. TypeOK'
    BY DEF TypeOK, calls
  <2>2. CallsInv'
    BY DEF CallsInv, EventsOf, InCall, calls
  <2>3. TodoInv'
    BY TodoKept
  <2>4. ChangesInScope'
    BY DEF ChangesInScope
  <2>5. CountersExact' /\ OkMeansCommitted'
    BY CountsKept, OkKept
  <2>6. QED
    BY <2>1, <2>2, <2>3, <2>4, <2>5
<1>5. QED
  BY <1>1, <1>2, <1>3, <1>4 DEF Next

\* The strengthening holds throughout.
THEOREM Invariance == Spec => []IInv
BY InitInv, StepInv, PTL DEF Spec

\* Every variable of the pipeline has its type (observation/pipeline.rs).
THEOREM TypeCorrect == Spec => []TypeOK
<1>1. IInv => TypeOK
  BY DEF IInv
<1>2. QED
  BY <1>1, Invariance, PTL

\* Every event in the log is of an observation whose path passed the filter,
\* and on this path or the deletion of the old name of a rename, whatever is
\* renamed to what (filter.rs, translator.rs).
THEOREM ChangesInScopeAlways == Spec => []ChangesInScope
<1>1. IInv => ChangesInScope
  BY DEF IInv
<1>2. QED
  BY <1>1, Invariance, PTL

\* The counters of the pipeline agree with what its calls returned and with
\* the log, however many threads share it and whichever append fails
\* (observation/pipeline.rs).
THEOREM CountersExactAlways == Spec => []CountersExact
<1>1. IInv => CountersExact
  BY DEF IInv
<1>2. QED
  BY <1>1, Invariance, PTL

\* However threads, failing appends and a stopping owner interleave, what a
\* call's result says is what the log holds of it: all it owes, in order, after
\* Ok, a proper beginning after an error, nothing after a refusal
\* (observation/pipeline.rs).
THEOREM OkMeansCommittedAlways == Spec => []OkMeansCommitted
<1>1. IInv => OkMeansCommitted
  BY DEF IInv
<1>2. QED
  BY <1>1, Invariance, PTL
=============================================================================
