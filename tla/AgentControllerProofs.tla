----------------------- MODULE AgentControllerProofs -----------------------
(***************************************************************************)
(* TypeOK, LogTellsReply, RecordedBeforeDone, FilesExplained and           *)
(* AnswerMatchesLog for any threads, goals, files and contents, any policy *)
(* and registry, and any number of crashes.  What the log has of a call    *)
(* depends on where its thread is only, and no other thread adds to it; a  *)
(* file that is cut short always has a write that is not and will not be   *)
(* Completed.                                                              *)
(***************************************************************************)
EXTENDS AgentController, SequenceTheorems, FiniteSetTheorems, TLAPS

\* Every plan has a request, and a write a content.
LEMMA Resolved ==
  ASSUME NEW goal \in Goals, NEW d \in Decisions(goal), d.decision = "Execute"
  PROVE  Resolve(d.step, goal.id) \in Requests
<1> DEFINE Target(path) == IF path \in Files THEN path ELSE Outside
<1>1. /\ goal.id \in Ids
      /\ d.step.step \in {"ExecuteCommand", "WriteFile", "DeleteFile"}
      /\ d.step.step = "WriteFile" => d.step.content \in Contents
  BY AgentAssumption
<1>2. \A path : Target(path) \in Files \cup {Outside}
  OBVIOUS
<1>3. CASE d.step.step = "ExecuteCommand"
  <2>1. Resolve(d.step, goal.id) = Request(goal.id, "CommandRun", Outside, Torn)
    BY <1>3, Zenon DEF Resolve
  <2>2. QED
    BY <1>1, <2>1 DEF Requests
<1>4. CASE d.step.step = "WriteFile"
  <2>1. Resolve(d.step, goal.id) = Request(goal.id, "FileWrite", Target(d.step.path), d.step.content)
    BY <1>4 DEF Resolve
  <2>2. QED
    BY <1>1, <1>2, <1>4, <2>1 DEF Requests
<1>5. CASE d.step.step = "DeleteFile"
  <2>1. Resolve(d.step, goal.id) = Request(goal.id, "FileDelete", Target(d.step.path), Torn)
    BY <1>5 DEF Resolve
  <2>2. QED
    BY <1>1, <1>2, <2>1 DEF Requests
<1>6. QED
  BY <1>1, <1>3, <1>4, <1>5

\* A write writes one of the contents.
LEMMA RequestFields ==
  \A r \in Requests : r.action = "FileWrite" => r.content \in Contents
BY DEF Requests, Request

\* Threads make different calls.
LEMMA OneCaller == \A c, d \in Clients : This(c) = This(d) => c = d
BY DEF This

\* What a thread records is an event of its own call.
LEMMA EventTyped ==
  ASSUME Types, NEW c \in Clients, NEW kind \in Kinds, NEW exit \in {0, 1, NoExit}
  PROVE  /\ Event(c, kind, exit) \in Events
         /\ Event(c, kind, exit).kind = kind
         /\ Event(c, kind, exit).call = This(c)
         /\ Event(c, kind, exit).request = request[c]
BY DEF Types, Event, Events, This

\* The log is left alone, or gets an event of the call of c.
Extends(c) ==
  \/ log' = log
  \/ \E e \in Events : e.call = This(c) /\ log' = Append(log, e)

\* An event appended to the log leaves the others where they are.
LEMMA LogKept ==
  ASSUME Types, NEW c \in Clients, Extends(c)
  PROVE  /\ log' \in Seq(Events)
         /\ DOMAIN log \subseteq DOMAIN log'
         /\ \A i \in DOMAIN log : log'[i] = log[i]
         /\ \A i \in DOMAIN log' : i \notin DOMAIN log => log'[i].call = This(c)
<1>1. CASE log' = log
  BY <1>1 DEF Types
<1>2. ASSUME NEW e \in Events, e.call = This(c), log' = Append(log, e)
      PROVE  /\ log' \in Seq(Events)
             /\ DOMAIN log \subseteq DOMAIN log'
             /\ \A i \in DOMAIN log : log'[i] = log[i]
             /\ \A i \in DOMAIN log' : i \notin DOMAIN log => log'[i].call = This(c)
  BY <1>2, AppendProperties DEF Types
<1>3. QED
  BY <1>1, <1>2 DEF Extends

\* What was recorded stays so, and of the calls of other threads nothing more.
LEMMA RecordsKept ==
  ASSUME Types, NEW c \in Clients, Extends(c), calls' = calls
  PROVE  /\ \A call, kind : Recorded(call, kind) => Recorded(call, kind)'
         /\ \A call, kind : call # This(c) /\ Recorded(call, kind)' => Recorded(call, kind)
         /\ \A d : This(d)' = This(d)
<1>1. /\ DOMAIN log \subseteq DOMAIN log'
      /\ \A i \in DOMAIN log : log'[i] = log[i]
      /\ \A i \in DOMAIN log' : i \notin DOMAIN log => log'[i].call = This(c)
  BY LogKept
<1>2. QED
  BY <1>1 DEF Recorded, This

-----------------------------------------------------------------------------
(* A step of one thread, and what it cannot disturb *)

\* The step is one of thread c inside its call.
Steps(c) ==
  /\ Extends(c)
  /\ setup' = setup /\ request' = request /\ calls' = calls /\ answer' = answer
  /\ pc[c] # "idle"
  /\ \A d \in Clients \ {c} :
       pc'[d] = pc[d] /\ outcome'[d] = outcome[d] /\ reply'[d] = reply[d]
  /\ pc' \in [Clients -> Labels]
  /\ DOMAIN outcome' = Clients /\ DOMAIN reply' = Clients

\* A step of one thread keeps the types of the others' variables.
LEMMA TypesKept ==
  ASSUME Types, NEW c \in Clients, Steps(c), DOMAIN files' = Files,
         handle' \in [Clients -> BOOLEAN]
  PROVE  Types'
<1>1. log' \in Seq(Events)
  BY LogKept DEF Steps
<1>2. QED
  BY <1>1 DEF Types, Steps

\* What the log has of the other threads' calls is not touched.
LEMMA CallsKept ==
  ASSUME Types, CallInv, NEW c \in Clients, Steps(c), CallOf(c)'
  PROVE  CallInv'
<1>1. /\ log' \in Seq(Events)
      /\ DOMAIN log \subseteq DOMAIN log'
      /\ \A i \in DOMAIN log : log'[i] = log[i]
      /\ \A i \in DOMAIN log' : i \notin DOMAIN log => log'[i].call = This(c)
  BY LogKept DEF Steps
<1>2. \A i \in DOMAIN log' : log'[i].call[2] <= calls'[log'[i].call[1]]
  <2> SUFFICES ASSUME NEW i \in DOMAIN log' PROVE log'[i].call[2] <= calls[log'[i].call[1]]
    BY DEF Steps
  <2>1. CASE i \in DOMAIN log
    BY <1>1, <2>1 DEF CallInv
  <2>2. CASE i \notin DOMAIN log
    <3>1. log'[i].call = <<c, calls[c]>>
      BY <1>1, <2>2 DEF This
    <3>2. calls[c] \in Nat
      BY DEF Types
    <3>3. QED
      BY <3>1, <3>2
  <2>3. QED
    BY <2>1, <2>2
<1>3. ASSUME NEW d \in Clients, d # c PROVE CallOf(d)'
  <2>1. /\ pc'[d] = pc[d] /\ reply'[d] = reply[d] /\ answer'[d] = answer[d]
        /\ request'[d] = request[d]
    BY <1>3 DEF Steps
  <2>2. This(d)' = This(d) /\ This(d) # This(c)
    BY <1>3, OneCaller DEF Steps, This
  <2>3. \A i \in DOMAIN log' : log'[i].call = This(d) => i \in DOMAIN log
    BY <1>1, <2>2
  <2>4. \A kind : Recorded(This(d), kind)' <=> Recorded(This(d), kind)
    BY <1>1, <2>2, <2>3 DEF Recorded
  <2>5. \A i \in DOMAIN log' : log'[i].call = This(d) => i \in DOMAIN log /\ log'[i] = log[i]
    BY <1>1, <2>2
  <2>6. CallOf(d)
    BY DEF CallInv
  <2>7. Permitted(request[d]) <=> Permitted(request[d])'
    BY <2>1 DEF Permitted, Steps
  <2>8. QED
    BY <2>1, <2>2, <2>4, <2>5, <2>6, <2>7 DEF CallOf
<1>4. QED
  BY <1>2, <1>3 DEF CallInv

\* What a thread past its Requested event does was announced.
LEMMA DoneKept ==
  ASSUME Types, CallInv, RecordedBeforeDone, NEW c \in Clients, Steps(c),
         done' = done \/ (done' = done \cup {This(c)} /\ pc[c] \in Working)
  PROVE  RecordedBeforeDone'
<1>1. /\ DOMAIN log \subseteq DOMAIN log'
      /\ \A i \in DOMAIN log : log'[i] = log[i]
  BY LogKept DEF Steps
<1>2. ASSUME NEW call \in done'
      PROVE  \E i \in DOMAIN log :
               /\ log[i].call = call /\ log[i].kind = "Requested"
               /\ log[i].request.capabilities \subseteq setup.granted
  <2>1. CASE call \in done
    BY <2>1 DEF RecordedBeforeDone
  <2>2. CASE call = This(c) /\ pc[c] \in Working
    BY <2>2 DEF CallInv, CallOf, Recorded, Permitted
  <2>3. QED
    BY <1>2, <2>1, <2>2
<1>3. QED
  BY <1>1, <1>2 DEF RecordedBeforeDone, Steps

\* A thread inside a call adds nothing to the calls that were answered.
LEMMA AnswersKept ==
  ASSUME Types, CallInv, AnswerMatchesLog, NEW c \in Clients, Steps(c)
  PROVE  AnswerMatchesLog'
<1>1. /\ DOMAIN log \subseteq DOMAIN log'
      /\ \A i \in DOMAIN log : log'[i] = log[i]
      /\ \A i \in DOMAIN log' : i \notin DOMAIN log => log'[i].call = This(c)
  BY LogKept DEF Steps
<1>2. answer' = answer /\ \A d \in Clients : This(d)' = This(d)
  BY DEF Steps, This
<1>3. ASSUME NEW d \in Clients, answer[d] # "none"
      PROVE  /\ reply'[d] = reply[d]
             /\ \A i \in DOMAIN log' : log'[i].call = This(d) => i \in DOMAIN log
  <2>1. d # c
    BY <1>3 DEF CallInv, CallOf, Steps
  <2>2. This(d) # This(c)
    BY <2>1, OneCaller
  <2>3. QED
    BY <1>1, <2>1, <2>2 DEF Steps
<1>4. QED
  BY <1>1, <1>2, <1>3 DEF AnswerMatchesLog

\* The files stay as they are, and a write that has cut one short is not
\* recorded as Completed.
LEMMA FilesKept ==
  ASSUME Types, FilesInv, NEW c \in Clients, Steps(c), files' = files,
         \A d \in Clients \ {c} : MayCut(d) => MayCut(d)',
         MayCut(c) =>
           MayCut(c)' /\ (Recorded(This(c), "Completed")' => Recorded(This(c), "Completed"))
  PROVE  FilesInv'
<1>1. /\ DOMAIN log \subseteq DOMAIN log'
      /\ \A i \in DOMAIN log : log'[i] = log[i]
  BY LogKept DEF Steps
<1>2. \A d \in Clients : This(d)' = This(d)
  BY DEF Steps, This
<1>3. \A f : Asked(f) \subseteq Asked(f)'
  BY <1>1 DEF Asked, Wrote
<1>4. ASSUME NEW i \in DOMAIN log, Cuts(i) PROVE Cuts(i)'
  <2>1. log'[i].call = log[i].call
    BY <1>1
  <2>2. ASSUME NEW d \in Clients, log[i].call = This(d) PROVE MayCut(d)'
    BY <1>4, <2>2 DEF Cuts
  <2>3. ~Recorded(log[i].call, "Completed")'
    <3>1. CASE log[i].call = This(c)
      <4>1. MayCut(c)
        BY <1>4, <3>1 DEF Cuts
      <4>2. ~Recorded(This(c), "Completed")'
        BY <1>4, <3>1, <4>1 DEF Cuts
      <4>3. This(c)' = This(c)
        BY <1>2
      <4>4. QED
        BY <2>1, <3>1, <4>2, <4>3 DEF Recorded
    <3>2. CASE log[i].call # This(c)
      BY <1>4, <2>1, <3>2, RecordsKept DEF Cuts, Steps, Recorded
    <3>3. QED
      BY <3>1, <3>2
  <2>4. QED
    BY <1>2, <2>1, <2>2, <2>3 DEF Cuts, Recorded
<1>5. \A f : \A i \in Asked(f) : i \in DOMAIN log
  BY DEF Asked, Wrote
<1>6. QED
  BY <1>1, <1>3, <1>4, <1>5 DEF FilesInv

Writes(c, f) == request[c].action = "FileWrite" /\ f = request[c].target

\* A file keeps its contents and its witness, or gets the bytes of the request
\* of c, whose own Requested event explains them.
LEMMA FilesWritten ==
  ASSUME Types, CallInv, FilesInv, NEW c \in Clients, Steps(c), log' = log,
         pc[c] \in Working,
         \A f \in Files : \A x \in files'[f] \ {Old, Torn} :
           x \in files[f] \/ (Writes(c, f) /\ x = request[c].content),
         \A f \in Files : Torn \in files'[f] =>
           \/ Writes(c, f) /\ MayCut(c)'
           \/ /\ Torn \in files[f]
              /\ \A d \in Clients : MayCut(d) /\ (pc[d] \in Working => request[d].target = f)
                   => MayCut(d)'
  PROVE  FilesInv'
<1>1. /\ \A d \in Clients : This(d)' = This(d)
      /\ \A f : Asked(f)' = Asked(f)
      /\ \A call, kind : Recorded(call, kind)' <=> Recorded(call, kind)
  BY DEF Steps, This, Asked, Wrote, Recorded
<1>2. PICK own \in DOMAIN log : log[own].call = This(c) /\ log[own].kind = "Requested"
  BY DEF CallInv, CallOf, Recorded
<1>3. log[own].request = request[c] /\ \A f : Writes(c, f) => own \in Asked(f)
  BY <1>2 DEF CallInv, CallOf, Asked, Wrote, Writes
<1>4. ~Recorded(This(c), "Completed")
  BY DEF CallInv, CallOf, Recorded
<1>5. ASSUME MayCut(c)' PROVE Cuts(own)'
  <2>1. \A d \in Clients : log[own].call = This(d) => d = c
    BY <1>2, OneCaller
  <2>2. ~(\E i \in DOMAIN log : log[i].call = log[own].call /\ log[i].kind = "Completed")
    BY <1>2, <1>4 DEF Recorded
  <2>3. QED
    BY <1>1, <1>5, <2>1, <2>2 DEF Cuts, Recorded
<1>6. ASSUME NEW f \in Files, NEW x \in files'[f] \ {Old, Torn}
      PROVE  \E i \in Asked(f) : log[i].request.content = x
  BY <1>3, <1>6 DEF FilesInv
<1>7. ASSUME NEW f \in Files, Torn \in files'[f]
      PROVE  \E i \in Asked(f) : Cuts(i)'
  <2>1. CASE Writes(c, f) /\ MayCut(c)'
    BY <1>3, <1>5, <2>1
  <2>2. CASE /\ Torn \in files[f]
             /\ \A d \in Clients : MayCut(d) /\ (pc[d] \in Working => request[d].target = f)
                  => MayCut(d)'
    <3>1. PICK i \in Asked(f) : Cuts(i)
      BY <2>2 DEF FilesInv
    <3>2. i \in DOMAIN log /\ log[i].request.target = f
      BY <3>1 DEF Asked, Wrote
    <3>3. ASSUME NEW d \in Clients, log[i].call = This(d) PROVE MayCut(d)'
      <4>1. MayCut(d)
        BY <3>1, <3>3 DEF Cuts
      <4>2. pc[d] \in Working => log[i].request = request[d]
        BY <3>2, <3>3 DEF CallInv, CallOf
      <4>3. QED
        BY <2>2, <3>2, <4>1, <4>2
    <3>4. Cuts(i)'
      BY <1>1, <3>1, <3>3 DEF Cuts, Recorded
    <3>5. QED
      BY <3>4
  <2>3. QED
    BY <1>7, <2>1, <2>2
<1>8. QED
  BY <1>1, <1>6, <1>7 DEF FilesInv

(* A thread that goes on between its Requested and its terminal event keeps *)
(* what the log has of its call.                                            *)
LEMMA StillWorking ==
  ASSUME CallInv, NEW c \in Clients, Steps(c), log' = log, reply' = reply,
         pc[c] \in Working, pc'[c] \in Working,
         pc'[c] = "write" => request[c].action = "FileWrite"
  PROVE  CallOf(c)'
<1>1. This(c)' = This(c) /\ Permitted(request[c])' = Permitted(request[c])
  BY DEF Steps, This, Permitted
<1>2. \A call, kind : Recorded(call, kind)' <=> Recorded(call, kind)
  BY DEF Recorded
<1>3. \A kind : Recorded(This(c), kind)' <=> Recorded(This(c), kind)
  BY <1>1 DEF Recorded
<1>4. CallOf(c) /\ answer[c] = "none"
  BY DEF CallInv, CallOf, Steps
<1>5. pc'[c] \notin {"submit", "returned", "idle"}
  BY DEF Working
<1>6. QED
  BY <1>1, <1>3, <1>4, <1>5 DEF CallOf, Steps

\* A thread that returns without a terminal event.
LEMMA GivesUp ==
  ASSUME CallInv, NEW c \in Clients, Steps(c), log' = log,
         pc[c] \in {"submit"} \cup Working, pc'[c] = "returned",
         reply'[c] \notin Ok \cup {"executor_failed"},
         reply'[c] = "validation_failed" => pc[c] = "submit"
  PROVE  CallOf(c)'
<1>1. This(c)' = This(c)
  BY DEF Steps, This
<1>2. CallOf(c) /\ answer[c] = "none"
  BY DEF CallInv, CallOf, Steps, Working
<1>3. ~Recorded(This(c), "Failed")
  BY <1>2 DEF CallOf, Recorded
<1>4. ~Recorded(This(c), "Failed")'
  BY <1>1, <1>3 DEF Recorded
<1>5. reply'[c] = "validation_failed" => \A i \in DOMAIN log' : log'[i].call # This(c)'
  BY <1>1, <1>2 DEF CallOf
<1>6. reply'[c] \notin Ok \cup {"executor_failed"} /\ answer'[c] = "none" /\ pc'[c] \notin Working
  BY <1>2 DEF Steps, Working
<1>7. QED
  BY <1>4, <1>5, <1>6 DEF CallOf

\* An event is added only to a call that has none, or one that is Requested.
LEMMA StoryKept ==
  ASSUME Types, OneStory,
         \/ log' = log
         \/ \E e \in Events :
              /\ log' = Append(log, e)
              /\ \A i \in DOMAIN log : log[i].call = e.call =>
                   log[i].kind = "Requested" /\ e.kind # "Requested"
              /\ e.kind # "Requested" => \E i \in DOMAIN log : log[i].call = e.call
  PROVE  OneStory'
<1>1. CASE log' = log
  BY <1>1 DEF OneStory
<1>2. ASSUME NEW e \in Events, log' = Append(log, e),
             \A i \in DOMAIN log : log[i].call = e.call =>
               log[i].kind = "Requested" /\ e.kind # "Requested",
             e.kind # "Requested" => \E i \in DOMAIN log : log[i].call = e.call
      PROVE  OneStory'
  <2>1. /\ Len(log) \in Nat /\ DOMAIN log = 1 .. Len(log) /\ DOMAIN log' = 1 .. Len(log) + 1
        /\ \A i \in DOMAIN log : log'[i] = log[i]
        /\ log'[Len(log) + 1] = e
    BY <1>2, AppendProperties DEF Types
  <2>2. ASSUME NEW i \in DOMAIN log', NEW j \in DOMAIN log', i < j, log'[i].call = log'[j].call
        PROVE  log'[i].kind = "Requested" /\ log'[j].kind # "Requested"
    <3>1. i \in DOMAIN log
      BY <2>1, <2>2
    <3>2. CASE j \in DOMAIN log
      BY <2>1, <2>2, <3>1, <3>2 DEF OneStory
    <3>3. CASE j = Len(log) + 1
      BY <1>2, <2>1, <2>2, <3>1, <3>3
    <3>4. QED
      BY <2>1, <3>2, <3>3
  <2>3. ASSUME NEW j \in DOMAIN log', log'[j].kind # "Requested"
        PROVE  \E i \in DOMAIN log' : i < j /\ log'[i].call = log'[j].call
    <3>1. CASE j \in DOMAIN log
      <4>1. PICK i \in DOMAIN log : i < j /\ log[i].call = log[j].call
        BY <2>1, <2>3, <3>1 DEF OneStory
      <4>2. QED
        BY <2>1, <3>1, <4>1
    <3>2. CASE j = Len(log) + 1
      <4>1. PICK i \in DOMAIN log : log[i].call = e.call
        BY <1>2, <2>1, <2>3, <3>2
      <4>2. i \in DOMAIN log' /\ i < j /\ log'[i].call = log'[j].call
        BY <2>1, <3>2, <4>1
      <4>3. QED
        BY <4>2
    <3>3. QED
      BY <2>1, <3>1, <3>2
  <2>4. QED
    BY <2>2, <2>3 DEF OneStory
<1>3. QED
  BY <1>1, <1>2

\* The invariant after a step of a thread inside its call
LEMMA StepKept ==
  ASSUME IInv, NEW c \in Clients, Steps(c), CallOf(c)', OneStory', FilesInv',
         DOMAIN files' = Files, handle' \in [Clients -> BOOLEAN],
         done' = done \/ (done' = done \cup {This(c)} /\ pc[c] \in Working)
  PROVE  IInv'
BY TypesKept, CallsKept, DoneKept, AnswersKept DEF IInv

-----------------------------------------------------------------------------
(* The steps of ExecutionEngine *)

\* The executor goes on, and touches no file.
LEMMA ProceedsStep ==
  ASSUME IInv, NEW c \in Clients, NEW label \in {"running", "remove", "record"},
         pc[c] \in {"execute", "running", "remove"}, pc' = [pc EXCEPT ![c] = label],
         outcome' = outcome \/ \E o : outcome' = [outcome EXCEPT ![c] = o],
         done' = done \/ done' = done \cup {This(c)},
         UNCHANGED <<setup, log, files, request, handle, reply, calls, answer>>
  PROVE  IInv'
<1>1. Types
  BY DEF IInv
<1>2. /\ pc' \in [Clients -> Labels] /\ pc'[c] = label
      /\ \A d \in Clients \ {c} : pc'[d] = pc[d]
  BY <1>1 DEF Types, Labels
<1>3. DOMAIN outcome' = Clients /\ \A d \in Clients \ {c} : outcome'[d] = outcome[d]
  BY <1>1 DEF Types
<1>4. Steps(c)
  BY <1>1, <1>2, <1>3 DEF Steps, Extends, Types
<1>5. CallOf(c)'
  <2>1. pc[c] \in Working /\ label \in Working /\ label # "write"
    BY DEF Working
  <2>2. QED
    BY <1>2, <1>4, <2>1, StillWorking DEF IInv
<1>6. \A d \in Clients \ {c} : MayCut(d) => MayCut(d)'
  BY <1>2, <1>3 DEF MayCut
<1>7. ~MayCut(c)
  BY DEF MayCut
<1>8. FilesInv'
  BY <1>1, <1>4, <1>6, <1>7, FilesKept DEF IInv
<1>9. DOMAIN files' = Files /\ handle' \in [Clients -> BOOLEAN]
  BY <1>1 DEF Types
<1>10. OneStory'
  BY <1>1, StoryKept DEF IInv
<1>11. QED
  BY <1>10, <1>4, <1>5, <1>8, <1>9, StepKept DEF Working

\* submit returns an error and records nothing.
LEMMA GivesUpStep ==
  ASSUME IInv, NEW c \in Clients, NEW r, r \notin Ok \cup {"executor_failed"},
         r = "validation_failed" => pc[c] = "submit",
         pc[c] \in {"submit", "record"}, Return(c, r),
         UNCHANGED <<setup, log, files, request, handle, calls, done, answer>>
  PROVE  IInv'
<1>1. Types
  BY DEF IInv
<1>2. /\ pc' \in [Clients -> Labels] /\ pc'[c] = "returned"
      /\ \A d \in Clients \ {c} : pc'[d] = pc[d]
  BY <1>1 DEF Types, Labels, Return, Goto
<1>3. /\ DOMAIN outcome' = Clients /\ \A d \in Clients \ {c} : outcome'[d] = outcome[d]
      /\ DOMAIN reply' = Clients /\ \A d \in Clients \ {c} : reply'[d] = reply[d]
      /\ reply'[c] = r
  BY <1>1 DEF Types, Return
<1>4. Steps(c)
  BY <1>1, <1>2, <1>3 DEF Steps, Extends
<1>5. CallOf(c)'
  BY <1>2, <1>3, <1>4, GivesUp DEF IInv, Working
<1>6. \A d \in Clients \ {c} : MayCut(d) => MayCut(d)'
  BY <1>2, <1>3 DEF MayCut
<1>7. MayCut(c)' /\ (Recorded(This(c), "Completed")' => Recorded(This(c), "Completed"))
  BY <1>2 DEF MayCut, Recorded, This
<1>8. FilesInv'
  BY <1>1, <1>4, <1>6, <1>7, FilesKept DEF IInv
<1>9. DOMAIN files' = Files /\ handle' \in [Clients -> BOOLEAN]
  BY <1>1 DEF Types
<1>10. done' = done
  OBVIOUS
<1>11. OneStory'
  BY <1>1, StoryKept DEF IInv
<1>12. QED
  BY <1>11, <1>4, <1>5, <1>8, <1>9, <1>10, StepKept

\* AppendRequested keeps the invariant.
LEMMA AppendRequestedStep ==
  ASSUME IInv, NEW c \in Clients, AppendRequested(c), answer' = answer
  PROVE  IInv'
<1>1. Types /\ CallOf(c) /\ pc[c] = "submit"
  BY DEF IInv, CallInv, AppendRequested, Accepted
<1> DEFINE e == Event(c, "Requested", NoExit)
<1>2. e \in Events /\ e.kind = "Requested" /\ e.call = This(c) /\ e.request = request[c]
  BY <1>1, EventTyped DEF Kinds
<1>3. log' = Append(log, e)
  BY DEF AppendRequested
<1> HIDE DEF e
<1>4. /\ DOMAIN log' = DOMAIN log \cup {Len(log) + 1} /\ Len(log) + 1 \notin DOMAIN log
      /\ \A i \in DOMAIN log : log'[i] = log[i]
      /\ log'[Len(log) + 1] = e
  BY <1>1, <1>2, <1>3, AppendProperties DEF Types
<1>5. /\ pc' \in [Clients -> Labels] /\ pc'[c] = "execute"
      /\ \A d \in Clients \ {c} : pc'[d] = pc[d]
  BY <1>1 DEF AppendRequested, Goto, Types, Labels
<1>6. Steps(c)
  BY <1>1, <1>2, <1>3, <1>5 DEF Steps, Extends, AppendRequested, Types
<1>7. CallOf(c)'
  <2>1. This(c)' = This(c) /\ reply'[c] = reply[c]
    BY DEF AppendRequested, This
  <2>2. Permitted(request[c])'
    BY DEF AppendRequested, Accepted, Permitted
  <2>3. Recorded(This(c), "Requested")'
    BY <1>2, <1>4, <2>1 DEF Recorded
  <2>4. \A i \in DOMAIN log' : log'[i].call = This(c) =>
          log'[i].kind = "Requested" /\ log'[i].request = request[c]
    BY <1>1, <1>2, <1>4 DEF CallOf
  <2>5. reply[c] = "none"
    BY <1>1 DEF CallOf
  <2>6. answer[c] = "none" /\ request' = request
    BY <1>1 DEF CallOf, AppendRequested
  <2>7. QED
    BY <1>5, <2>1, <2>2, <2>3, <2>4, <2>5, <2>6 DEF CallOf, Ok
<1>8. FilesInv'
  <2>1. \A d \in Clients \ {c} : MayCut(d) => MayCut(d)'
    BY <1>5 DEF MayCut, AppendRequested
  <2>2. ~MayCut(c)
    BY <1>1 DEF MayCut
  <2>3. files' = files
    BY DEF AppendRequested
  <2>4. QED
    BY <1>1, <1>6, <2>1, <2>2, <2>3, FilesKept DEF IInv
<1>9. DOMAIN files' = Files /\ handle' \in [Clients -> BOOLEAN] /\ done' = done
  BY <1>1 DEF Types, AppendRequested
<1>10. OneStory'
  BY <1>1, <1>2, <1>3, StoryKept DEF IInv, CallOf
<1>11. QED
  BY <1>10, <1>6, <1>7, <1>8, <1>9, StepKept

\* The Requested event of c explains the file it has truncated.
LEMMA OpenFileStep ==
  ASSUME IInv, NEW c \in Clients, OpenFile(c), answer' = answer
  PROVE  IInv'
<1>1. Types /\ pc[c] = "execute" /\ request[c].action = "FileWrite" /\ pc[c] \in Working
  BY DEF IInv, OpenFile, Executing, Working
<1>2. /\ pc' \in [Clients -> Labels] /\ pc'[c] = "write"
      /\ \A d \in Clients \ {c} : pc'[d] = pc[d]
  BY <1>1 DEF OpenFile, Goto, Types, Labels
<1>3. /\ handle' \in [Clients -> BOOLEAN] /\ handle'[c] = TRUE
      /\ \A d \in Clients \ {c} : handle'[d] = handle[d]
  <2>1. handle' = [handle EXCEPT ![c] = TRUE] /\ handle \in [Clients -> BOOLEAN]
    BY <1>1 DEF OpenFile, Types
  <2>2. QED
    BY <2>1
<1>4. Steps(c)
  BY <1>1, <1>2 DEF Steps, Extends, OpenFile, Types
<1>5. CallOf(c)'
  BY <1>1, <1>2, <1>4, StillWorking DEF IInv, OpenFile, Working
<1>6. MayCut(c)' /\ \A d \in Clients : MayCut(d) => MayCut(d)'
  BY <1>1, <1>2, <1>3 DEF MayCut, OpenFile
<1>7. DOMAIN files' = Files
      /\ \A f \in Files : files'[f] = IF f = request[c].target THEN {Torn} ELSE files[f]
  BY <1>1 DEF OpenFile, Types
<1>8. FilesInv'
  BY <1>1, <1>4, <1>6, <1>7, FilesWritten DEF IInv, OpenFile, Writes
<1>9. OneStory'
  BY <1>1, StoryKept DEF IInv, OpenFile
<1>10. QED
  BY <1>9, <1>1, <1>3, <1>4, <1>5, <1>7, <1>8, StepKept DEF OpenFile

\* What the two ends of a write have in common
LEMMA WriteStep ==
  ASSUME IInv, NEW c \in Clients, pc[c] = "write",
         NEW result, Executed(c, result), Close(c),
         NEW file, files' = [files EXCEPT ![request[c].target] = file],
         \A x \in file \ {Old, Torn} :
           x \in files[request[c].target] \/ x = request[c].content,
         Torn \in file => result = "failed" \/ (~handle[c] /\ file = files[request[c].target]),
         UNCHANGED <<setup, log, request, reply, calls, done, answer>>
  PROVE  IInv'
<1>1. Types /\ pc[c] \in Working /\ request[c].action = "FileWrite"
  BY DEF IInv, CallInv, CallOf, Working
<1>2. /\ pc' \in [Clients -> Labels] /\ pc'[c] = "record"
      /\ \A d \in Clients \ {c} : pc'[d] = pc[d]
  BY <1>1 DEF Executed, Goto, Types, Labels
<1>3. /\ DOMAIN outcome' = Clients /\ \A d \in Clients \ {c} : outcome'[d] = outcome[d]
      /\ outcome'[c] = result
  BY <1>1 DEF Types, Executed
<1>4. /\ handle' \in [Clients -> BOOLEAN]
      /\ \A d \in Clients \ {c} : handle'[d] = handle[d]
  <2>1. handle' = [handle EXCEPT ![c] = FALSE] /\ handle \in [Clients -> BOOLEAN]
    BY <1>1 DEF Close, Types
  <2>2. QED
    BY <2>1
<1>5. Steps(c)
  BY <1>1, <1>2, <1>3 DEF Steps, Extends, Types
<1>6. CallOf(c)'
  BY <1>1, <1>2, <1>5, StillWorking DEF IInv, Working
<1>7. DOMAIN files' = Files
      /\ \A f \in Files : files'[f] = IF f = request[c].target THEN file ELSE files[f]
  BY <1>1 DEF Types
<1>8. \A d \in Clients \ {c} : MayCut(d) => MayCut(d)'
  BY <1>2, <1>3, <1>4 DEF MayCut
<1>9. result = "failed" => MayCut(c)'
  BY <1>2, <1>3 DEF MayCut
<1>10. ~handle[c] => ~MayCut(c)
  BY DEF MayCut
<1>11. \A f \in Files : Torn \in files'[f] =>
           \/ Writes(c, f) /\ MayCut(c)'
           \/ /\ Torn \in files[f]
              /\ \A d \in Clients : MayCut(d) /\ (pc[d] \in Working => request[d].target = f)
                   => MayCut(d)'
  <2> SUFFICES ASSUME NEW f \in Files, Torn \in files'[f], ~(Writes(c, f) /\ MayCut(c)')
               PROVE  /\ Torn \in files[f]
                      /\ \A d \in Clients : MayCut(d) /\ (pc[d] \in Working => request[d].target = f)
                           => MayCut(d)'
    OBVIOUS
  <2>1. CASE f = request[c].target
    BY <1>1, <1>7, <1>8, <1>9, <1>10, <2>1 DEF Writes
  <2>2. CASE f # request[c].target
    BY <1>1, <1>7, <1>8, <2>2
  <2>3. QED
    BY <2>1, <2>2
<1>12. \A f \in Files : \A x \in files'[f] \ {Old, Torn} :
           x \in files[f] \/ (Writes(c, f) /\ x = request[c].content)
  BY <1>1, <1>7 DEF Writes
<1>13. FilesInv'
  BY <1>1, <1>5, <1>11, <1>12, FilesWritten DEF IInv
<1>14. done' = done
  OBVIOUS
<1>15. OneStory'
  BY <1>1, StoryKept DEF IInv
<1>16. QED
  BY <1>15, <1>4, <1>5, <1>6, <1>7, <1>13, <1>14, StepKept

\* A file that is gone is not cut short, and who had it open has not any more.
LEMMA UnlinkStep ==
  ASSUME IInv, NEW c \in Clients, pc[c] = "remove", Unlink(c), Executed(c, "exit_zero"),
         UNCHANGED <<setup, log, request, reply, calls, answer>>
  PROVE  IInv'
<1>1. Types /\ pc[c] \in Working
  BY DEF IInv, Working
<1>2. /\ pc' \in [Clients -> Labels] /\ pc'[c] = "record"
      /\ \A d \in Clients \ {c} : pc'[d] = pc[d]
  BY <1>1 DEF Executed, Goto, Types, Labels
<1>3. DOMAIN outcome' = Clients /\ \A d \in Clients \ {c} : outcome'[d] = outcome[d]
  BY <1>1 DEF Types, Executed
<1>4. \A d \in Clients : handle'[d] = (handle[d] /\ request[d].target # request[c].target)
  BY Zenon DEF Unlink
<1>5. handle' \in [Clients -> BOOLEAN]
  <2>1. \A d \in Clients : (handle[d] /\ request[d].target # request[c].target) \in BOOLEAN
    OBVIOUS
  <2>2. handle' = [d \in Clients |-> handle[d] /\ request[d].target # request[c].target]
    BY DEF Unlink
  <2>3. QED
    BY <2>1, <2>2, Zenon
<1>6. Steps(c)
  BY <1>1, <1>2, <1>3 DEF Steps, Extends, Types
<1>7. CallOf(c)'
  BY <1>1, <1>2, <1>6, StillWorking DEF IInv, Working
<1>8. DOMAIN files' = Files
      /\ \A f \in Files : files'[f] = IF f = request[c].target THEN {} ELSE files[f]
  BY <1>1 DEF Types, Unlink, Missing
<1>9. ASSUME NEW f \in Files, f # request[c].target, NEW d \in Clients, MayCut(d),
             pc[d] \in Working => request[d].target = f
      PROVE  MayCut(d)'
  <2>1. d # c
    BY <1>9 DEF MayCut
  <2>2. CASE pc[d] = "write" /\ handle[d]
    BY <1>2, <1>4, <1>9, <2>1, <2>2 DEF MayCut, Working
  <2>3. CASE ~(pc[d] = "write" /\ handle[d])
    BY <1>2, <1>3, <1>9, <2>1, <2>3 DEF MayCut
  <2>4. QED
    BY <2>2, <2>3
<1>10. \A f \in Files : Torn \in files'[f] => f # request[c].target /\ Torn \in files[f]
  BY <1>8
<1>11. \A f \in Files : \A x \in files'[f] : x \in files[f]
  BY <1>8
<1>12. FilesInv'
  BY <1>1, <1>6, <1>9, <1>10, <1>11, FilesWritten DEF IInv
<1>13. done' = done \/ (done' = done \cup {This(c)} /\ pc[c] \in Working)
  BY <1>1 DEF Unlink
<1>14. OneStory'
  BY <1>1, StoryKept DEF IInv
<1>15. QED
  BY <1>14, <1>5, <1>6, <1>7, <1>8, <1>12, <1>13, StepKept

\* The terminal event tells what submit returns, and is not Completed when
\* the file may be cut short.
LEMMA AppendTerminalStep ==
  ASSUME IInv, NEW c \in Clients, pc[c] = "record",
         log' = Append(log, TerminalEvent(c)), Return(c, Answer(outcome[c])),
         UNCHANGED <<setup, files, request, handle, calls, done, answer>>
  PROVE  IInv'
<1>1. Types /\ CallOf(c) /\ pc[c] \in Working
  BY DEF IInv, CallInv, Working
<1> DEFINE e == TerminalEvent(c)
<1>2. /\ e \in Events /\ e.call = This(c)
      /\ e.kind = IF outcome[c] \in Ok THEN "Completed" ELSE "Failed"
  <2>1. ExitCode(outcome[c]) \in {0, 1, NoExit}
    BY DEF ExitCode
  <2>2. QED
    BY <1>1, <2>1, EventTyped DEF TerminalEvent, Kinds
<1> HIDE DEF e
<1>3. /\ DOMAIN log' = DOMAIN log \cup {Len(log) + 1} /\ Len(log) + 1 \notin DOMAIN log
      /\ \A i \in DOMAIN log : log'[i] = log[i]
      /\ log'[Len(log) + 1] = e
  <2>1. log' = Append(log, e)
    BY DEF e
  <2>2. QED
    BY <1>1, <1>2, <2>1, AppendProperties DEF Types
<1>4. Extends(c)
  BY <1>2 DEF Extends, e
<1>5. /\ pc' \in [Clients -> Labels] /\ pc'[c] = "returned"
      /\ \A d \in Clients \ {c} : pc'[d] = pc[d]
  BY <1>1 DEF Types, Labels, Return, Goto
<1>6. /\ DOMAIN outcome' = Clients /\ \A d \in Clients \ {c} : outcome'[d] = outcome[d]
      /\ DOMAIN reply' = Clients /\ \A d \in Clients \ {c} : reply'[d] = reply[d]
      /\ reply'[c] = Answer(outcome[c])
  BY <1>1 DEF Types, Return
<1>7. Steps(c)
  BY <1>1, <1>4, <1>5, <1>6 DEF Steps
<1>8. This(c)' = This(c) /\ answer'[c] = "none"
  BY <1>1 DEF This, CallOf
<1>9. \A kind \in {"Completed", "Failed"} : Recorded(This(c), kind)' <=> e.kind = kind
  BY <1>1, <1>2, <1>3, <1>8 DEF Recorded, CallOf
<1>10. CallOf(c)'
  BY <1>2, <1>5, <1>6, <1>8, <1>9 DEF CallOf, Answer, Ok, Working
<1>11. FilesInv'
  <2>1. \A d \in Clients \ {c} : MayCut(d) => MayCut(d)'
    BY <1>5, <1>6 DEF MayCut
  <2>2. MayCut(c)'
    BY <1>5 DEF MayCut
  <2>3. MayCut(c) => ~Recorded(This(c), "Completed")'
    BY <1>2, <1>9 DEF MayCut, Ok
  <2>4. QED
    BY <1>1, <1>7, <2>1, <2>2, <2>3, FilesKept DEF IInv
<1>12. DOMAIN files' = Files /\ handle' \in [Clients -> BOOLEAN] /\ done' = done
  BY <1>1 DEF Types
<1>13. OneStory'
  BY <1>1, <1>2, StoryKept DEF IInv, CallOf, Recorded, e
<1>14. QED
  BY <1>13, <1>7, <1>10, <1>11, <1>12, StepKept

\* Refuse keeps the invariant.
LEMMA RefuseStep ==
  ASSUME IInv, NEW c \in Clients, Refuse(c) \/ AppendRequestedFails(c) \/ PassError(c), answer' = answer
  PROVE  IInv'
<1>1. CASE Refuse(c)
  <2>1. PICK r \in {"validation_failed", "internal"} : Return(c, r)
    BY <1>1 DEF Refuse
  <2>2. r \notin Ok \cup {"executor_failed"}
    BY DEF Ok
  <2>3. QED
    BY <1>1, <2>1, <2>2, GivesUpStep DEF Refuse
<1>2. CASE AppendRequestedFails(c)
  BY <1>2, GivesUpStep DEF AppendRequestedFails, Accepted, Ok
<1>3. CASE PassError(c)
  BY <1>3, GivesUpStep DEF PassError, Ok
<1>4. QED
  BY <1>1, <1>2, <1>3

\* Terminal keeps the invariant.
LEMMA TerminalStep ==
  ASSUME IInv, NEW c \in Clients, AppendTerminal(c), answer' = answer
  PROVE  IInv'
<1>1. CASE log' = Append(log, TerminalEvent(c)) /\ Return(c, Answer(outcome[c]))
  BY <1>1, AppendTerminalStep DEF AppendTerminal
<1>2. CASE Return(c, "event_append_failed") /\ UNCHANGED log
  BY <1>2, GivesUpStep DEF AppendTerminal, Ok
<1>3. QED
  BY <1>1, <1>2 DEF AppendTerminal

\* Bytes of a content are not Torn.
LEMMA WriteContentStep ==
  ASSUME IInv, NEW c \in Clients, WriteContent(c), answer' = answer
  PROVE  IInv'
<1>1. /\ pc[c] = "write" /\ Executed(c, "exit_zero") /\ Close(c)
      /\ UNCHANGED <<setup, log, request, reply, calls, done, answer>>
  BY DEF WriteContent
<1>2. PICK file \in Written(c, {request[c].content}) :
        files' = [files EXCEPT ![request[c].target] = file]
  BY DEF WriteContent
<1>3. request[c].content # Torn
  <2>1. request[c] \in Requests /\ request[c].action = "FileWrite"
    BY <1>1 DEF IInv, Types, CallInv, CallOf
  <2>2. QED
    BY <2>1, RequestFields, ExecutionAssumption
<1>4. /\ \A x \in file \ {Old, Torn} : x \in files[request[c].target] \/ x = request[c].content
      /\ Torn \in file => ~handle[c] /\ file = files[request[c].target]
  BY <1>2, <1>3 DEF Written
<1>5. QED
  BY <1>1, <1>2, <1>4, WriteStep

\* A failed write is recorded as such.
LEMMA WriteFailsStep ==
  ASSUME IInv, NEW c \in Clients, WriteFails(c), answer' = answer
  PROVE  IInv'
<1>1. /\ pc[c] = "write" /\ Executed(c, "failed") /\ Close(c)
      /\ UNCHANGED <<setup, log, request, reply, calls, done, answer>>
  BY DEF WriteFails
<1>2. PICK file \in {files[request[c].target]} \cup Written(c, {request[c].content, Torn}) :
        files' = [files EXCEPT ![request[c].target] = file]
  BY DEF WriteFails
<1>3. \A x \in file \ {Old, Torn} : x \in files[request[c].target] \/ x = request[c].content
  BY <1>2 DEF Written
<1>4. QED
  BY <1>1, <1>2, <1>3, WriteStep

\* Executor keeps the invariant.
LEMMA ExecutorStep ==
  ASSUME IInv, NEW c \in Clients, answer' = answer,
         \/ WrongExecutor(c) \/ Spawn(c) \/ RejectPath(c) \/ FindFile(c) \/ RemoveFile(c)
         \/ CommandExits(c)
  PROVE  IInv'
<1>1. CASE WrongExecutor(c)
  BY <1>1, ProceedsStep DEF WrongExecutor, Executed, Goto
<1>2. CASE Spawn(c)
  BY <1>2, ProceedsStep DEF Spawn, Executing, Executed, Goto
<1>3. CASE RejectPath(c)
  BY <1>3, ProceedsStep DEF RejectPath, Executing, Executed, Goto
<1>4. CASE FindFile(c)
  BY <1>4, ProceedsStep DEF FindFile, Executing, Executed, Goto
<1>5. CASE RemoveFile(c)
  <2>1. CASE Unlink(c) /\ Executed(c, "exit_zero")
    BY <1>5, <2>1, UnlinkStep DEF RemoveFile
  <2>2. CASE ~(Unlink(c) /\ Executed(c, "exit_zero"))
    <3>1. PICK r \in {"not_found", "failed"} : Executed(c, r)
      BY <1>5, <2>2 DEF RemoveFile
    <3>2. pc[c] = "remove" /\ UNCHANGED <<setup, log, files, request, handle, reply, calls, done, answer>>
      BY <1>5, <2>2 DEF RemoveFile
    <3>3. QED
      BY <3>1, <3>2, ProceedsStep DEF Executed, Goto
  <2>3. QED
    BY <2>1, <2>2
<1>6. CASE CommandExits(c)
  BY <1>6, ProceedsStep DEF CommandExits, Executed, Goto
<1>7. QED
  BY <1>1, <1>2, <1>3, <1>4, <1>5, <1>6

-----------------------------------------------------------------------------
(* The steps of the controller *)

\* Only a command that exited is a success, and only a killed one a failure.
LEMMA Results ==
  ASSUME NEW r
  PROVE  /\ ResultOf(r) \in {"success", "failure", "execution_failed"}
         /\ ResultOf(r) = "success" => r \in {"exit_zero", "exit_nonzero"}
         /\ ResultOf(r) = "failure" => r = "killed"
<1>1. CASE r \in {"exit_zero", "exit_nonzero"}
  BY <1>1 DEF ResultOf
<1>2. CASE r = "killed"
  BY <1>2 DEF ResultOf
<1>3. CASE r \notin {"exit_zero", "exit_nonzero", "killed"}
  BY <1>3 DEF ResultOf
<1>4. QED
  BY <1>1, <1>2, <1>3

\* Answer keeps the invariant.
LEMMA AnswerStep ==
  ASSUME IInv, NEW c \in Clients, AnswerGoal(c)
  PROVE  IInv'
<1>1. Types /\ CallInv /\ CallOf(c) /\ pc[c] = "returned"
  BY DEF IInv, CallInv, AnswerGoal
<1>2. /\ pc' \in [Clients -> Labels] /\ pc'[c] = "idle"
      /\ \A d \in Clients \ {c} : pc'[d] = pc[d]
  BY <1>1 DEF Types, Labels, AnswerGoal, Goto
<1>3. /\ DOMAIN answer' = Clients /\ answer'[c] = ResultOf(reply[c])
      /\ \A d \in Clients \ {c} : answer'[d] = answer[d]
  BY <1>1 DEF Types, AnswerGoal
<1>4. UNCHANGED <<setup, log, files, request, outcome, handle, reply, calls, done>>
  BY DEF AnswerGoal
<1>5. Types'
  BY <1>1, <1>2, <1>3, <1>4 DEF Types
<1>6. /\ \A d : This(d)' = This(d)
      /\ \A call, kind : Recorded(call, kind)' <=> Recorded(call, kind)
      /\ \A d, kind : Recorded(This(d), kind)' <=> Recorded(This(d), kind)
  BY <1>4 DEF This, Recorded
<1>7. CallInv'
  <2>1. CallOf(c)'
    BY <1>1, <1>2, <1>3, <1>4, <1>6 DEF CallOf, Working
  <2>2. ASSUME NEW d \in Clients, d # c PROVE CallOf(d)'
    <3>1. CallOf(d) /\ (Permitted(request[d]) <=> Permitted(request[d])')
      BY <1>1, <1>4 DEF CallInv, Permitted
    <3>2. QED
      BY <1>2, <1>3, <1>4, <1>6, <2>2, <3>1 DEF CallOf
  <2>3. QED
    BY <1>1, <1>4, <2>1, <2>2 DEF CallInv
<1>8. FilesInv'
  <2>1. \A d \in Clients : MayCut(d) => MayCut(d)'
    BY <1>1, <1>2, <1>4 DEF MayCut
  <2>2. \A i \in DOMAIN log : Cuts(i) => Cuts(i)'
    BY <1>4, <1>6, <2>1 DEF Cuts, Recorded
  <2>3. \A f : Asked(f)' = Asked(f) /\ Asked(f) \subseteq DOMAIN log
    BY <1>4 DEF Asked, Wrote
  <2>4. QED
    BY <1>4, <2>2, <2>3 DEF IInv, FilesInv
<1>9. RecordedBeforeDone'
  BY <1>4 DEF IInv, RecordedBeforeDone
<1>10. AnswerMatchesLog'
  <2>1. reply[c] \in Ok => Recorded(This(c), "Completed")
    BY <1>1 DEF CallOf
  <2>2. Recorded(This(c), "Failed") => ResultOf(reply[c]) = "execution_failed"
    BY <1>1, Results DEF CallOf
  <2>3. ResultOf(reply[c]) \in {"success", "failure"} =>
          Recorded(This(c), "Completed") /\ (ResultOf(reply[c]) = "success" => reply[c] # "killed")
    BY <2>1, Results DEF Ok
  <2>4. ResultOf(reply[c]) \in {"success", "failure", "execution_failed"}
    BY Results
  <2>5. QED
    BY <1>3, <1>4, <1>6, <2>2, <2>3, <2>4 DEF IInv, AnswerMatchesLog, Recorded
<1>11. OneStory'
  BY <1>1, <1>4, StoryKept DEF IInv
<1>12. QED
  BY <1>11, <1>5, <1>7, <1>8, <1>9, <1>10 DEF IInv

\* A new call, of which the log has nothing yet
LEMMA PlanStep ==
  ASSUME IInv, NEW c \in Clients, StartCall(c),
         NEW label \in {"submit", "idle"}, pc' = [pc EXCEPT ![c] = label],
         NEW a \in {"none", "success", "need_more_context"}, answer' = [answer EXCEPT ![c] = a],
         label = "submit" => a = "none",
         request' \in [Clients -> Requests],
         \A d \in Clients \ {c} : request'[d] = request[d],
         UNCHANGED <<setup, log, files, outcome, handle, done>>
  PROVE  IInv'
<1>1. Types /\ CallInv /\ pc[c] = "idle"
  BY DEF IInv, StartCall
<1>2. /\ pc' \in [Clients -> Labels] /\ pc'[c] = label
      /\ \A d \in Clients \ {c} : pc'[d] = pc[d]
  BY <1>1 DEF Types, Labels
<1>3. /\ DOMAIN answer' = Clients /\ answer'[c] = a
      /\ \A d \in Clients \ {c} : answer'[d] = answer[d]
  BY <1>1 DEF Types
<1>4. /\ DOMAIN reply' = Clients /\ reply'[c] = "none"
      /\ \A d \in Clients \ {c} : reply'[d] = reply[d]
  BY <1>1 DEF Types, StartCall
<1>5. /\ calls' \in [Clients -> Nat] /\ calls'[c] = calls[c] + 1
      /\ \A d \in Clients \ {c} : calls'[d] = calls[d]
      /\ \A d \in Clients : calls[d] \in Nat
  <2>1. calls' = [calls EXCEPT ![c] = @ + 1]
    BY Zenon DEF StartCall
  <2>2. calls \in [Clients -> Nat]
    BY <1>1 DEF Types
  <2>3. QED
    BY <2>1, <2>2
<1>6. Types'
  BY <1>1, <1>2, <1>3, <1>4, <1>5 DEF Types
<1>7. /\ This(c)' = <<c, calls[c] + 1>>
      /\ \A d \in Clients \ {c} : This(d)' = This(d)
  BY <1>5 DEF This
<1>8. \A i \in DOMAIN log :
        /\ log[i].call \in Clients \X Nat
        /\ log[i].call[2] <= calls[log[i].call[1]]
  <2>1. \A i \in DOMAIN log : log[i] \in Events
    BY <1>1 DEF Types
  <2>2. \A e \in Events : e.call \in Clients \X Nat
    BY DEF Events
  <2>3. QED
    BY <1>1, <2>1, <2>2 DEF CallInv
<1>9. \A i \in DOMAIN log : log[i].call # This(c)'
  BY <1>5, <1>7, <1>8
<1>10. \A call, kind : Recorded(call, kind)' <=> Recorded(call, kind)
  BY DEF Recorded
<1>11. CallInv'
  <2>1. CallOf(c)'
    BY <1>2, <1>3, <1>4, <1>9 DEF CallOf, Working, Ok
  <2>2. ASSUME NEW d \in Clients, d # c PROVE CallOf(d)'
    <3>1. CallOf(d) /\ This(d)' = This(d)
      BY <1>1, <1>7, <2>2 DEF CallInv
    <3>2. Permitted(request[d]) <=> Permitted(request[d])'
      BY <2>2 DEF Permitted
    <3>3. \A kind : Recorded(This(d), kind)' <=> Recorded(This(d), kind)
      BY <3>1 DEF Recorded
    <3>4. QED
      BY <1>2, <1>3, <1>4, <2>2, <3>1, <3>2, <3>3 DEF CallOf
  <2>3. \A i \in DOMAIN log : log[i].call[2] <= calls'[log[i].call[1]]
    <3> SUFFICES ASSUME NEW i \in DOMAIN log PROVE log[i].call[2] <= calls'[log[i].call[1]]
      OBVIOUS
    <3>1. PICK d \in Clients, n \in Nat : log[i].call = <<d, n>>
      BY <1>8
    <3>2. n <= calls[d] /\ calls[d] <= calls'[d] /\ calls[d] \in Nat /\ calls'[d] \in Nat
      BY <1>5, <1>8, <3>1
    <3>3. n <= calls'[d]
      BY <3>2
    <3>4. QED
      BY <3>1, <3>3
  <2>4. QED
    BY <2>1, <2>2, <2>3 DEF CallInv
<1>12. FilesInv'
  <2>1. \A d \in Clients \ {c} : MayCut(d) => MayCut(d)'
    BY <1>2 DEF MayCut
  <2>2. \A i \in DOMAIN log : Cuts(i) => Cuts(i)'
    BY <1>7, <1>9, <2>1 DEF Cuts, Recorded
  <2>3. \A f : Asked(f)' = Asked(f) /\ Asked(f) \subseteq DOMAIN log
    BY DEF Asked, Wrote
  <2>4. QED
    BY <2>2, <2>3 DEF IInv, FilesInv
<1>13. RecordedBeforeDone'
  BY DEF IInv, RecordedBeforeDone
<1>14. AnswerMatchesLog'
  BY <1>3, <1>4, <1>7, <1>9 DEF IInv, AnswerMatchesLog
<1>15. OneStory'
  BY <1>1, StoryKept DEF IInv
<1>16. QED
  BY <1>15, <1>6, <1>11, <1>12, <1>13, <1>14 DEF IInv

\* The calls in progress are cut off where they are.
LEMMA CrashStep ==
  ASSUME IInv, Crash, answer' = [c \in Clients |-> "none"]
  PROVE  IInv'
<1>1. /\ UNCHANGED <<setup, log, files, request, calls, done>>
      /\ pc' = [c \in Clients |-> "idle"] /\ reply' = [c \in Clients |-> "none"]
      /\ outcome' = [c \in Clients |-> "none"] /\ handle' = [c \in Clients |-> FALSE]
  BY DEF Crash
<1>2. /\ Types /\ CallInv /\ FilesInv
  BY DEF IInv
<1>3. Types'
  <2>1. handle' \in [Clients -> BOOLEAN]
    BY <1>1, Zenon
  <2>2. QED
    BY <1>1, <1>2, <2>1 DEF Types, Labels
<1>4. CallInv'
  BY <1>1, <1>2 DEF CallInv, CallOf, Working, Ok
<1>5. FilesInv'
  <2>1. \A d \in Clients : MayCut(d)'
    BY <1>1 DEF MayCut
  <2>2. \A i \in DOMAIN log : Cuts(i) => Cuts(i)'
    BY <1>1, <2>1 DEF Cuts, Recorded
  <2>3. \A f : Asked(f)' = Asked(f) /\ Asked(f) \subseteq DOMAIN log
    BY <1>1 DEF Asked, Wrote
  <2>4. QED
    BY <1>1, <1>2, <2>2, <2>3 DEF FilesInv
<1>6. RecordedBeforeDone'
  BY <1>1 DEF IInv, RecordedBeforeDone
<1>7. AnswerMatchesLog'
  BY DEF AnswerMatchesLog
<1>8. OneStory'
  BY <1>1, <1>2, StoryKept DEF IInv
<1>9. QED
  BY <1>8, <1>3, <1>4, <1>5, <1>6, <1>7 DEF IInv

-----------------------------------------------------------------------------
\* The strengthening holds of every initial state.
THEOREM InitInv == Init => IInv
<1> SUFFICES ASSUME Init PROVE IInv
  OBVIOUS
<1> USE DEF Init, EngineInit
<1>1. Types
  <2>1. request \in [Clients -> Requests]
    <3>1. PICK id \in Ids : TRUE
      BY ExecutionAssumption
    <3>2. Request(id, "CommandRun", Outside, Torn) \in Requests
      BY <3>1 DEF Requests
    <3>3. (CHOOSE r \in Requests : TRUE) \in Requests
      BY <3>2
    <3>4. QED
      BY <3>3
  <2>2. log \in Seq(Events)
    BY Zenon, EmptySeq DEF Init, EngineInit
  <2>3. handle \in [Clients -> BOOLEAN]
    BY Zenon
  <2>4. QED
    BY <2>1, <2>2, <2>3 DEF Types, Labels
<1>2. CallInv
  BY DEF CallInv, CallOf, Working, Ok
<1>3. FilesInv
  BY ExecutionAssumption DEF FilesInv, Missing
<1>4. RecordedBeforeDone
  BY DEF RecordedBeforeDone
<1>5. AnswerMatchesLog /\ OneStory
  BY DEF AnswerMatchesLog, OneStory
<1>6. QED
  BY <1>1, <1>2, <1>3, <1>4, <1>5 DEF IInv

\* No step of any thread, and no crash, breaks the invariant.
THEOREM StepInv == IInv /\ [Next]_vars => IInv'
<1> SUFFICES ASSUME IInv, [Next]_vars PROVE IInv'
  OBVIOUS
<1>1. ASSUME NEW c \in Clients, PlanExecute(c) PROVE IInv'
  <2>1. PICK goal \in Goals : \E d \in Decisions(goal) :
          d.decision = "Execute" /\ request' = [request EXCEPT ![c] = Resolve(d.step, goal.id)]
    BY <1>1 DEF PlanExecute
  <2>2. PICK d \in Decisions(goal) :
          d.decision = "Execute" /\ request' = [request EXCEPT ![c] = Resolve(d.step, goal.id)]
    BY <2>1
  <2>3. Resolve(d.step, goal.id) \in Requests
    BY <2>2, Resolved
  <2>4. request' \in [Clients -> Requests] /\ \A q \in Clients \ {c} : request'[q] = request[q]
    BY <2>2, <2>3 DEF IInv, Types
  <2>5. QED
    BY <1>1, <2>4, PlanStep DEF PlanExecute, Goto
<1>2. ASSUME NEW c \in Clients, PlanOther(c) PROVE IInv'
  <2>1. PICK a \in {"success", "need_more_context"} : answer' = [answer EXCEPT ![c] = a]
    BY <1>2 DEF PlanOther
  <2>2. /\ pc[c] = "idle" /\ pc' = pc /\ request' = request
        /\ UNCHANGED <<setup, log, files, outcome, handle, done>> /\ StartCall(c)
    BY <1>2 DEF PlanOther, StartCall
  <2>3. pc' = [pc EXCEPT ![c] = "idle"] /\ request' \in [Clients -> Requests]
    BY <2>2 DEF IInv, Types
  <2>4. QED
    BY <2>1, <2>2, <2>3, PlanStep
<1>3. ASSUME NEW c \in Clients, EngineStep(c), answer' = answer PROVE IInv'
  <2>1. CASE Perform(c)
    BY <1>3, <2>1, ExecutorStep, OpenFileStep, WriteContentStep, WriteFailsStep DEF Perform
  <2>2. CASE ~Perform(c)
    BY <1>3, <2>2, RefuseStep, AppendRequestedStep, TerminalStep DEF EngineStep
  <2>3. QED
    BY <2>1, <2>2
<1>4. CASE UNCHANGED vars
  <2> USE <1>4 DEF vars, engine, IInv
  <2>1. Types'
    BY DEF Types
  <2>2. CallInv'
    BY DEF CallInv, CallOf, Recorded, Permitted, This
  <2>3. FilesInv'
    BY DEF FilesInv, Asked, Wrote, Cuts, MayCut, Recorded, This
  <2>4. RecordedBeforeDone' /\ AnswerMatchesLog'
    BY DEF RecordedBeforeDone, AnswerMatchesLog, This
  <2>5. OneStory'
    BY DEF OneStory
  <2>6. QED
    BY <2>1, <2>2, <2>3, <2>4, <2>5
<1>5. CASE Next
  <2>1. CASE Crash /\ answer' = [c \in Clients |-> "none"]
    BY <2>1, CrashStep
  <2>2. CASE ~(Crash /\ answer' = [c \in Clients |-> "none"])
    BY <1>1, <1>2, <1>3, <1>5, <2>2, AnswerStep, ExecutorStep DEF Next, Step
  <2>3. QED
    BY <2>1, <2>2
<1>6. QED
  BY <1>4, <1>5

\* The strengthening holds throughout.
THEOREM Invariance == Spec => []IInv
BY InitInv, StepInv, PTL DEF Spec

\* A call has a Requested event first and at most one other after it, and its
\* reply is what the log tells (execution/src/engine.rs), whatever crashes,
\* fails or runs beside it.
THEOREM LogTellsReplyAlways == Spec => []LogTellsReply
<1>1. IInv => LogTellsReply
  BY DEF IInv, LogTellsReply, CallInv, CallOf
<1>2. QED
  BY <1>1, Invariance, PTL

\* Nothing is done to a file and no command is run before the log has a
\* request for it that the policy grants, whatever crashes or fails
\* (execution/src/engine.rs).
THEOREM RecordedBeforeDoneAlways == Spec => []RecordedBeforeDone
<1>1. IInv => RecordedBeforeDone
  BY DEF IInv
<1>2. QED
  BY <1>1, Invariance, PTL

\* Every content a file has bytes of was requested, and a file that is cut
\* short belongs to a write that the log does not call Completed
\* (execution/src/executor/file_write.rs), however many threads write to it.
THEOREM FilesExplainedAlways == Spec => []FilesExplained
<1>1. IInv => FilesExplained
  <2> SUFFICES ASSUME IInv, NEW f \in Files
               PROVE  /\ files[f] \ {Old, Torn} \subseteq {log[i].request.content : i \in Asked(f)}
                      /\ Torn \in files[f] => \E i \in Asked(f) :
                           log[i].call \notin
                             {log[j].call : j \in {k \in Wrote(f) : log[k].kind = "Completed"}}
    BY DEF FilesExplained, Asked
  <2>1. files[f] \ {Old, Torn} \subseteq {log[i].request.content : i \in Asked(f)}
    BY DEF IInv, FilesInv
  <2>2. \A i : Cuts(i) => log[i].call \notin
          {log[j].call : j \in {k \in Wrote(f) : log[k].kind = "Completed"}}
    BY DEF Cuts, Recorded, Wrote
  <2>3. QED
    BY <2>1, <2>2 DEF IInv, FilesInv
<1>2. QED
  BY <1>1, Invariance, PTL

\* The agent's answer agrees with the log: a success or failure was Completed,
\* and what Failed is answered with an error (agent/src/controller.rs).
THEOREM AnswerMatchesLogAlways == Spec => []AnswerMatchesLog
<1>1. IInv => AnswerMatchesLog
  BY DEF IInv
<1>2. QED
  BY <1>1, Invariance, PTL

-----------------------------------------------------------------------------
(* Types *)

\* Clauses of TypeOK about one event, and about the threads' outcomes.
EventOK(e) ==
  /\ e.kind \in Kinds
  /\ e.exit \in IF e.kind = "Completed" THEN {0, 1} ELSE {NoExit}
  /\ e.call \in Clients \X (1 .. MaxCalls)
  /\ e.request \in Requests

FileTypes == [Files -> SUBSET (Contents \cup {Old, Torn})]

\* A call is started only while fewer than MaxCalls were made, so that no
\* thread makes more.
LEMMA CallsLeft ==
  ASSUME NEW c \in Clients, calls \in [Clients -> 0 .. MaxCalls], StartCall(c)
  PROVE  calls[c] < MaxCalls
<1> DEFINE Numbers == 1 .. MaxCalls
           Mine == {c} \X Numbers
<1>1. MaxCalls \in Nat /\ IsFiniteSet(Clients)
  BY ExecutionAssumption, AgentAssumption
<1>2. Cardinality(Made) < MaxCalls
  BY Zenon DEF StartCall
<1>3. IsFiniteSet(Numbers) /\ Cardinality(Numbers) = MaxCalls
  <2>1. IsFiniteSet(Numbers) /\ Cardinality(Numbers) = IF 1 > MaxCalls THEN 0 ELSE MaxCalls - 1 + 1
    BY <1>1, FS_Interval
  <2>2. QED
    BY <1>1, <2>1
<1>4. IsFiniteSet({c}) /\ Cardinality({c}) = 1
  BY FS_Singleton
<1> HIDE DEF Numbers
<1>5. IsFiniteSet(Clients \X Numbers)
  BY <1>1, <1>3, FS_Product
<1>6. Cardinality(Mine) = Cardinality({c}) * Cardinality(Numbers)
  BY <1>3, <1>4, FS_Product
<1>7. Made \subseteq Clients \X Numbers
  BY DEF Made, Numbers
<1>8. IsFiniteSet(Made)
  BY <1>5, <1>7, FS_Subset
<1>9. ASSUME calls[c] = MaxCalls PROVE FALSE
  <2>1. Mine \subseteq Made
    BY <1>1, <1>9 DEF Made, Numbers
  <2>2. Cardinality(Mine) <= Cardinality(Made) /\ Cardinality(Made) \in Nat
    <3> HIDE DEF Mine
    <3>1. QED
      BY <1>8, <2>1, FS_Subset, FS_CardinalityType
  <2>3. Cardinality(Mine) = MaxCalls
    BY <1>1, <1>3, <1>4, <1>6
  <2>4. QED
    BY <1>1, <1>2, <2>2, <2>3
<1>10. calls[c] \in 0 .. MaxCalls
  OBVIOUS
<1>11. QED
  BY <1>1, <1>9, <1>10

\* A thread in a call records events of the right type.
LEMMA EventWellTyped ==
  ASSUME TypeInv, NEW c \in Clients, pc[c] # "idle"
  PROVE  /\ EventOK(Event(c, "Requested", NoExit))
         /\ EventOK(TerminalEvent(c))
<1>1. This(c) \in Clients \X (1 .. MaxCalls) /\ request[c] \in Requests
  <2>1. calls[c] \in 0 .. MaxCalls /\ calls[c] > 0 /\ MaxCalls \in Nat
    BY ExecutionAssumption DEF TypeInv, TypeOK, EngineTypeOK, Placed
  <2>2. QED
    BY <2>1 DEF This, TypeInv, TypeOK, EngineTypeOK
<1>2. EventOK(Event(c, "Requested", NoExit)) /\ EventOK(Event(c, "Failed", NoExit))
  BY <1>1 DEF EventOK, Event, Kinds
<1>3. ExitCode(outcome[c]) \in {0, 1}
  BY DEF ExitCode
<1>4. EventOK(Event(c, "Completed", ExitCode(outcome[c])))
  BY <1>1, <1>3 DEF EventOK, Event, Kinds
<1>5. QED
  BY <1>2, <1>4 DEF TerminalEvent

\* The log keeps its type when an event of the right type is appended.
LEMMA LogWellTyped ==
  ASSUME IInv, TypeInv,
         log' = log \/ \E e \in Events : EventOK(e) /\ log' = Append(log, e)
  PROVE  \A i \in DOMAIN log' : EventOK(log'[i])
<1>1. log \in Seq(Events) /\ \A i \in DOMAIN log : EventOK(log[i])
  BY DEF IInv, Types, TypeInv, TypeOK, EngineTypeOK, EventOK
<1>2. ASSUME NEW e \in Events, EventOK(e), log' = Append(log, e)
      PROVE  \A i \in DOMAIN log' : EventOK(log'[i])
  <2>1. /\ DOMAIN log' = DOMAIN log \cup {Len(log) + 1}
        /\ \A i \in DOMAIN log : log'[i] = log[i]
        /\ log'[Len(log) + 1] = e
    BY <1>1, <1>2, AppendProperties
  <2>2. QED
    BY <1>1, <1>2, <2>1
<1>3. QED
  BY <1>1, <1>2

\* A step of a thread inside its call, which ends or goes on with the call: it
\* keeps the types when what it assigns has its type.
LEMMA ThreadTyped ==
  ASSUME IInv, TypeInv, NEW c \in Clients, pc[c] # "idle",
         UNCHANGED <<setup, request, calls, answer, crashes>>,
         NEW label \in Labels, pc' = [pc EXCEPT ![c] = label], label # "idle",
         label \in {"write", "remove"} => request[c].target \in Files,
         \/ outcome' = outcome /\ (outcome[c] # "none" <=> label = "record")
         \/ \E o \in {"none"} \cup Ok \cup Error :
              outcome' = [outcome EXCEPT ![c] = o] /\ (o # "none" <=> label = "record"),
         reply' = reply \/ \E r \in Replies : reply' = [reply EXCEPT ![c] = r],
         log' = log \/ \E e \in Events : EventOK(e) /\ log' = Append(log, e),
         files' \in FileTypes, handle' \in [Clients -> BOOLEAN],
         \A d \in Clients : handle'[d] => pc'[d] = "write" /\ files'[request[d].target] # Missing,
         done' = done \/ done' = done \cup {This(c)}
  PROVE  TypeInv'
<1> USE DEF TypeInv, TypeOK, EngineTypeOK
<1>1. /\ pc' \in [Clients -> Labels] /\ pc'[c] = label
      /\ \A d \in Clients \ {c} : pc'[d] = pc[d]
  OBVIOUS
<1>2. outcome' \in [Clients -> {"none"} \cup Ok \cup Error]
  OBVIOUS
<1>3. \A d \in Clients : outcome'[d] # "none" <=> pc'[d] = "record"
  BY <1>1
<1>4. reply' \in [Clients -> Replies]
  OBVIOUS
<1>5. done' \subseteq Clients \X (1 .. MaxCalls)
  <2>1. calls[c] \in 0 .. MaxCalls /\ calls[c] > 0 /\ MaxCalls \in Nat
    BY ExecutionAssumption DEF Placed
  <2>2. QED
    BY <2>1 DEF This
<1>6. \A i \in DOMAIN log' : EventOK(log'[i])
  BY LogWellTyped
<1>7. answer[c] = "none" /\ \A d \in Clients : answer'[d] # "none" => pc'[d] = "idle"
  BY <1>1
<1>8. Placed'
  BY <1>1 DEF Placed
<1>9. EngineTypeOK'
  <2>1. /\ \A i \in DOMAIN log' :
             /\ log'[i].kind \in Kinds
             /\ log'[i].exit \in IF log'[i].kind = "Completed" THEN {0, 1} ELSE {NoExit}
             /\ log'[i].call \in Clients \X (1 .. MaxCalls)
             /\ log'[i].request \in Requests
    BY <1>6 DEF EventOK
  <2>2. /\ files' \in [Files -> SUBSET (Contents \cup {Old, Torn})]
        /\ request' \in [Clients -> Requests]
        /\ calls' \in [Clients -> 0 .. MaxCalls]
        /\ crashes' \in 0 .. MaxCrashes
    BY DEF FileTypes
  <2>3. \A d \in Clients :
          /\ outcome'[d] # "none" <=> pc'[d] = "record"
          /\ handle'[d] => pc'[d] = "write" /\ files'[request'[d].target] # Missing
    BY <1>3
  <2>4. QED
    BY <1>1, <1>2, <1>4, <1>5, <2>1, <2>2, <2>3
<1>10. QED
  BY <1>7, <1>8, <1>9

\* A thread without an open file leaves the open files as they are.
LEMMA FilesUntouched ==
  ASSUME TypeInv, NEW c \in Clients, pc[c] # "write",
         \A d \in Clients \ {c} : pc'[d] = pc[d],
         UNCHANGED <<files, handle>>
  PROVE  /\ files' \in FileTypes /\ handle' \in [Clients -> BOOLEAN]
         /\ \A d \in Clients : handle'[d] => pc'[d] = "write" /\ files'[request[d].target] # Missing
BY DEF TypeInv, TypeOK, EngineTypeOK, FileTypes

\* What is left of the other threads' open files when c puts a content in one.
LEMMA FilesReplaced ==
  ASSUME TypeInv, NEW c \in Clients, \A d \in Clients \ {c} : pc'[d] = pc[d],
         request[c].target \in Files,
         NEW file \in SUBSET (Contents \cup {Old, Torn}),
         file # Missing \/ (file = files[request[c].target] /\ ~handle[c]),
         files' = [files EXCEPT ![request[c].target] = file],
         NEW open \in BOOLEAN, handle' = [handle EXCEPT ![c] = open],
         open => pc'[c] = "write" /\ file # Missing
  PROVE  /\ files' \in FileTypes /\ handle' \in [Clients -> BOOLEAN]
         /\ \A d \in Clients : handle'[d] => pc'[d] = "write" /\ files'[request[d].target] # Missing
<1> USE DEF TypeInv, TypeOK, EngineTypeOK, FileTypes
<1>1. files' \in FileTypes /\ handle' \in [Clients -> BOOLEAN]
  OBVIOUS
<1>2. handle'[c] = open /\ \A d \in Clients \ {c} : handle'[d] = handle[d]
  OBVIOUS
<1>3. \A f \in Files : files'[f] = IF f = request[c].target THEN file ELSE files[f]
  OBVIOUS
<1>4. ASSUME NEW d \in Clients, handle'[d]
      PROVE  pc'[d] = "write" /\ files'[request[d].target] # Missing
  <2>1. CASE d = c
    BY <1>2, <1>3, <1>4, <2>1
  <2>2. CASE d # c
    <3>1. handle[d] /\ pc[d] = "write" /\ files[request[d].target] # Missing
      BY <1>2, <1>4, <2>2
    <3>2. request[d].target \in Files
      BY <3>1 DEF Placed
    <3>3. QED
      BY <1>3, <2>2, <3>1, <3>2
  <2>3. QED
    BY <2>1, <2>2
<1>5. QED
  BY <1>1, <1>4

(* The steps of ExecutionEngine *)

\* A return, with an event or none
LEMMA ReturnTyped ==
  ASSUME IInv, TypeInv, NEW c \in Clients, pc[c] \in {"submit", "record"},
         NEW r \in Replies, Return(c, r),
         log' = log \/ log' = Append(log, TerminalEvent(c)),
         UNCHANGED <<setup, files, request, handle, calls, done, crashes, answer>>
  PROVE  TypeInv'
<1>1. \E e \in Events : TerminalEvent(c) = e
  <2>1. ExitCode(outcome[c]) \in {0, 1, NoExit}
    BY DEF ExitCode
  <2>2. QED
    BY <2>1, EventTyped DEF TerminalEvent, Kinds, IInv
<1>2. log' = log \/ \E e \in Events : EventOK(e) /\ log' = Append(log, e)
  BY <1>1, EventWellTyped
<1>3. pc' = [pc EXCEPT ![c] = "returned"] /\ \A d \in Clients \ {c} : pc'[d] = pc[d]
  BY DEF Return, Goto, TypeInv, TypeOK, EngineTypeOK
<1>4. outcome' = [outcome EXCEPT ![c] = "none"] /\ reply' = [reply EXCEPT ![c] = r]
  BY DEF Return
<1>5. /\ files' \in FileTypes /\ handle' \in [Clients -> BOOLEAN]
      /\ \A d \in Clients : handle'[d] => pc'[d] = "write" /\ files'[request[d].target] # Missing
  BY <1>3, FilesUntouched
<1>6. QED
  BY <1>2, <1>3, <1>4, <1>5, ThreadTyped DEF Labels

\* A step of an executor that opens, writes and removes no file
LEMMA ProceedsTyped ==
  ASSUME IInv, TypeInv, NEW c \in Clients, pc[c] \in {"submit", "execute", "running", "remove"},
         NEW label \in {"execute", "running", "remove", "record"}, Goto(c, label),
         label = "remove" => request[c].target \in Files,
         \/ outcome' = outcome /\ label # "record"
         \/ \E o \in Ok \cup Error : outcome' = [outcome EXCEPT ![c] = o] /\ label = "record",
         log' = log \/ log' = Append(log, Event(c, "Requested", NoExit)),
         done' = done \/ done' = done \cup {This(c)},
         UNCHANGED <<setup, files, request, handle, reply, calls, crashes, answer>>
  PROVE  TypeInv'
<1>1. log' = log \/ \E e \in Events : EventOK(e) /\ log' = Append(log, e)
  <2>1. Event(c, "Requested", NoExit) \in Events
    BY EventTyped DEF IInv, Kinds
  <2>2. QED
    BY <2>1, EventWellTyped
<1>2. pc' = [pc EXCEPT ![c] = label] /\ \A d \in Clients \ {c} : pc'[d] = pc[d]
  BY DEF Goto, TypeInv, TypeOK, EngineTypeOK
<1>3. outcome[c] = "none"
  BY DEF TypeInv, TypeOK, EngineTypeOK
<1>4. /\ files' \in FileTypes /\ handle' \in [Clients -> BOOLEAN]
      /\ \A d \in Clients : handle'[d] => pc'[d] = "write" /\ files'[request[d].target] # Missing
  BY <1>2, FilesUntouched
<1>5. /\ label \in Labels \ {"idle", "write"} /\ "none" \notin Ok \cup Error
      /\ \/ outcome' = outcome /\ (outcome[c] # "none" <=> label = "record")
         \/ \E o \in {"none"} \cup Ok \cup Error :
              outcome' = [outcome EXCEPT ![c] = o] /\ (o # "none" <=> label = "record")
  BY <1>3 DEF Labels, Ok, Error
<1>6. QED
  BY <1>1, <1>2, <1>4, <1>5, ThreadTyped

\* Only a path inside the working directory is written or removed.
LEMMA InsideTarget ==
  ASSUME TypeInv, NEW c \in Clients, request[c].action \in {"FileWrite", "FileDelete"},
         request[c].target # Outside
  PROVE  request[c].target \in Files
<1>1. request[c] \in Requests
  BY DEF TypeInv, TypeOK, EngineTypeOK
<1>2. \A r \in Requests : r.action = "CommandRun" \/ r.target \in Files \cup {Outside}
  BY DEF Requests, Request
<1>3. QED
  BY <1>1, <1>2

\* OpenFile keeps the types.
LEMMA OpenFileTyped ==
  ASSUME IInv, TypeInv, NEW c \in Clients, OpenFile(c), answer' = answer
  PROVE  TypeInv'
<1>1. /\ pc[c] = "execute" /\ Goto(c, "write") /\ request[c].target \in Files
      /\ files' = [files EXCEPT ![request[c].target] = {Torn}]
      /\ handle' = [handle EXCEPT ![c] = TRUE]
      /\ done' = done \cup {This(c)}
      /\ UNCHANGED <<setup, log, request, outcome, reply, calls, crashes, answer>>
  BY InsideTarget DEF OpenFile, Executing
<1>2. /\ pc' = [pc EXCEPT ![c] = "write"] /\ pc'[c] = "write"
      /\ \A d \in Clients \ {c} : pc'[d] = pc[d]
  BY <1>1 DEF Goto, TypeInv, TypeOK, EngineTypeOK
<1>3. /\ files' \in FileTypes /\ handle' \in [Clients -> BOOLEAN]
      /\ \A d \in Clients : handle'[d] => pc'[d] = "write" /\ files'[request[d].target] # Missing
  <2>1. {Torn} \in SUBSET (Contents \cup {Old, Torn}) /\ {Torn} # Missing /\ TRUE \in BOOLEAN
    BY DEF Missing
  <2>2. QED
    BY <1>1, <1>2, <2>1, FilesReplaced
<1>4. outcome[c] = "none"
  BY <1>1 DEF TypeInv, TypeOK, EngineTypeOK
<1>5. QED
  BY <1>1, <1>2, <1>3, <1>4, ThreadTyped DEF Labels

\* A write leaves bytes in a file whose path still leads to it.
LEMMA WriteTyped ==
  ASSUME IInv, TypeInv, NEW c \in Clients, pc[c] = "write",
         WriteContent(c) \/ WriteFails(c), answer' = answer
  PROVE  TypeInv'
<1>1. /\ Close(c) /\ UNCHANGED <<setup, log, request, reply, calls, done, crashes, answer>>
      /\ \E o \in Ok \cup Error : Executed(c, o)
  BY DEF WriteContent, WriteFails, Ok, Error
<1>2. /\ pc' = [pc EXCEPT ![c] = "record"] /\ pc'[c] = "record"
      /\ \A d \in Clients \ {c} : pc'[d] = pc[d]
      /\ \E o \in Ok \cup Error : outcome' = [outcome EXCEPT ![c] = o]
  BY <1>1 DEF Executed, Goto, TypeInv, TypeOK, EngineTypeOK
<1>3. /\ request[c].target \in Files /\ files \in FileTypes
      /\ handle[c] => files[request[c].target] # Missing
  BY DEF TypeInv, TypeOK, EngineTypeOK, Placed, FileTypes
<1>4. request[c].content \in Contents
  BY RequestFields DEF IInv, Types, CallInv, CallOf
<1>5. ASSUME NEW parts \in SUBSET (Contents \cup {Old, Torn}), parts # {},
             NEW file \in Written(c, parts)
      PROVE  /\ file \in SUBSET (Contents \cup {Old, Torn})
             /\ file # Missing \/ (file = files[request[c].target] /\ ~handle[c])
  BY <1>3, <1>5 DEF Written, FileTypes, Missing
<1>6. PICK file \in SUBSET (Contents \cup {Old, Torn}) :
        /\ file # Missing \/ (file = files[request[c].target] /\ ~handle[c])
        /\ files' = [files EXCEPT ![request[c].target] = file]
  <2>1. CASE WriteContent(c)
    <3>1. {request[c].content} \in SUBSET (Contents \cup {Old, Torn})
      BY <1>4
    <3>2. PICK file \in Written(c, {request[c].content}) :
            files' = [files EXCEPT ![request[c].target] = file]
      BY <2>1 DEF WriteContent
    <3>3. /\ file \in SUBSET (Contents \cup {Old, Torn})
          /\ file # Missing \/ (file = files[request[c].target] /\ ~handle[c])
      BY <1>5, <3>1, <3>2
    <3>4. QED
      BY <3>2, <3>3
  <2>2. CASE WriteFails(c)
    <3>1. {request[c].content, Torn} \in SUBSET (Contents \cup {Old, Torn})
      BY <1>4
    <3>2. PICK file \in {files[request[c].target]} \cup Written(c, {request[c].content, Torn}) :
            files' = [files EXCEPT ![request[c].target] = file]
      BY <2>2 DEF WriteFails
    <3>3. CASE file = files[request[c].target]
      <4>1. file \in SUBSET (Contents \cup {Old, Torn})
        BY <1>3, <3>3 DEF FileTypes
      <4>2. handle[c] \in BOOLEAN
        BY DEF TypeInv, TypeOK, EngineTypeOK
      <4>3. QED
        BY <1>3, <3>2, <3>3, <4>1, <4>2
    <3>4. CASE file \in Written(c, {request[c].content, Torn})
      BY <1>5, <3>1, <3>2, <3>4
    <3>5. QED
      BY <3>2, <3>3, <3>4
  <2>3. QED
    BY <2>1, <2>2
<1>7. handle' = [handle EXCEPT ![c] = FALSE] /\ FALSE \in BOOLEAN
  BY <1>1 DEF Close
<1>8. /\ files' \in FileTypes /\ handle' \in [Clients -> BOOLEAN]
      /\ \A d \in Clients : handle'[d] => pc'[d] = "write" /\ files'[request[d].target] # Missing
  BY <1>2, <1>3, <1>6, <1>7, FilesReplaced
<1>9. \E o \in {"none"} \cup Ok \cup Error :
        outcome' = [outcome EXCEPT ![c] = o] /\ (o # "none" <=> "record" = "record")
  BY <1>2 DEF Ok, Error
<1>10. QED
  BY <1>1, <1>2, <1>3, <1>8, <1>9, ThreadTyped DEF Labels

\* A file that is unlinked is open to no thread any more.
LEMMA UnlinkTyped ==
  ASSUME IInv, TypeInv, NEW c \in Clients, pc[c] = "remove", Unlink(c), Executed(c, "exit_zero"),
         UNCHANGED <<setup, log, request, reply, calls, crashes, answer>>
  PROVE  TypeInv'
<1>1. /\ pc' = [pc EXCEPT ![c] = "record"] /\ pc'[c] = "record"
      /\ \A d \in Clients \ {c} : pc'[d] = pc[d]
      /\ outcome' = [outcome EXCEPT ![c] = "exit_zero"]
  BY DEF Executed, Goto, TypeInv, TypeOK, EngineTypeOK
<1>2. request[c].target \in Files /\ files \in FileTypes
  BY DEF TypeInv, TypeOK, EngineTypeOK, Placed, FileTypes
<1>3. \A d \in Clients : handle'[d] = (handle[d] /\ request[d].target # request[c].target)
  BY Zenon DEF Unlink
<1>4. handle' \in [Clients -> BOOLEAN]
  <2>1. \A d \in Clients : (handle[d] /\ request[d].target # request[c].target) \in BOOLEAN
    OBVIOUS
  <2>2. handle' = [d \in Clients |-> handle[d] /\ request[d].target # request[c].target]
    BY DEF Unlink
  <2>3. QED
    BY <2>1, <2>2, Zenon
<1>5. /\ files' \in FileTypes
      /\ \A f \in Files : f # request[c].target => files'[f] = files[f]
  BY <1>2 DEF Unlink, FileTypes, Missing
<1>6. ASSUME NEW d \in Clients, handle'[d]
      PROVE  pc'[d] = "write" /\ files'[request[d].target] # Missing
  <2>1. handle[d] /\ request[d].target # request[c].target
    BY <1>3, <1>6
  <2>2. pc[d] = "write" /\ files[request[d].target] # Missing /\ request[d].target \in Files
    BY <2>1 DEF TypeInv, TypeOK, EngineTypeOK, Placed
  <2>3. QED
    BY <1>1, <1>5, <2>1, <2>2
<1>7. done' = done \cup {This(c)}
  BY DEF Unlink
<1>8. \E o \in {"none"} \cup Ok \cup Error :
        outcome' = [outcome EXCEPT ![c] = o] /\ (o # "none" <=> "record" = "record")
  BY <1>1 DEF Ok, Error
<1>9. QED
  BY <1>1, <1>2, <1>4, <1>5, <1>6, <1>7, <1>8, ThreadTyped DEF Labels

\* Engine keeps the types.
LEMMA EngineTyped ==
  ASSUME IInv, TypeInv, NEW c \in Clients, EngineStep(c) \/ CommandExits(c), answer' = answer
  PROVE  TypeInv'
<1> USE DEF Goto, Executed, Executing
<1>1. CASE Refuse(c) \/ AppendRequestedFails(c) \/ PassError(c)
  BY <1>1, ReturnTyped
    DEF Refuse, AppendRequestedFails, Accepted, PassError, Replies, ExecutionError
<1>2. CASE AppendTerminal(c)
  <2>1. Answer(outcome[c]) \in Replies
    BY DEF Answer, Replies, ExecutionError
  <2>2. QED
    BY <1>2, <2>1, ReturnTyped DEF AppendTerminal, Replies, ExecutionError
<1>3. CASE AppendRequested(c)
  BY <1>3, ProceedsTyped DEF AppendRequested, Accepted
<1>4. CASE WrongExecutor(c)
  BY <1>4, ProceedsTyped DEF WrongExecutor, Error
<1>5. CASE Spawn(c)
  BY <1>5, ProceedsTyped DEF Spawn, Error
<1>6. CASE CommandExits(c)
  BY <1>6, ProceedsTyped DEF CommandExits
<1>7. CASE RejectPath(c)
  BY <1>7, ProceedsTyped DEF RejectPath, Error
<1>8. CASE FindFile(c)
  <2>1. request[c].target \in Files
    BY <1>8, InsideTarget DEF FindFile
  <2>2. QED
    BY <1>8, <2>1, ProceedsTyped DEF FindFile, Ok
<1>9. CASE RemoveFile(c)
  <2>1. CASE Unlink(c) /\ Executed(c, "exit_zero")
    BY <1>9, <2>1, UnlinkTyped DEF RemoveFile
  <2>2. CASE ~(Unlink(c) /\ Executed(c, "exit_zero"))
    BY <1>9, <2>2, ProceedsTyped DEF RemoveFile, Error
  <2>3. QED
    BY <2>1, <2>2
<1>10. CASE OpenFile(c)
  BY <1>10, OpenFileTyped
<1>11. CASE WriteContent(c) \/ WriteFails(c)
  BY <1>11, WriteTyped DEF WriteContent, WriteFails
<1>12. QED
  BY <1>1, <1>2, <1>3, <1>4, <1>5, <1>6, <1>7, <1>8, <1>9, <1>10, <1>11
    DEF EngineStep, Perform

(* The steps of the controller, and crashes *)

\* Answer keeps the types.
LEMMA AnswerTyped ==
  ASSUME IInv, TypeInv, NEW c \in Clients, AnswerGoal(c)
  PROVE  TypeInv'
<1> USE DEF TypeInv, TypeOK, EngineTypeOK
<1>1. pc[c] = "returned" /\ UNCHANGED <<setup, log, files, request, outcome, handle, reply, calls, done, crashes>>
  BY DEF AnswerGoal
<1>2. /\ pc' \in [Clients -> Labels] /\ pc'[c] = "idle"
      /\ \A d \in Clients \ {c} : pc'[d] = pc[d]
  BY DEF AnswerGoal, Goto, Labels
<1>3. ResultOf(reply[c]) \in AgentResult \cup AgentError
  BY Results DEF AgentResult, AgentError
<1>4. /\ answer' \in [Clients -> {"none"} \cup AgentResult \cup AgentError]
      /\ \A d \in Clients \ {c} : answer'[d] = answer[d]
  BY <1>3 DEF AnswerGoal
<1>5. \A d \in Clients : answer'[d] # "none" => pc'[d] = "idle"
  BY <1>2, <1>4
<1>6. Placed'
  BY <1>1, <1>2 DEF Placed
<1>7. \A d \in Clients :
        /\ outcome'[d] # "none" <=> pc'[d] = "record"
        /\ handle'[d] => pc'[d] = "write" /\ files'[request'[d].target] # Missing
  BY <1>1, <1>2
<1>8. QED
  BY <1>1, <1>2, <1>4, <1>5, <1>6, <1>7

\* Plan keeps the types.
LEMMA PlanTyped ==
  ASSUME IInv, TypeInv, NEW c \in Clients, StartCall(c),
         NEW label \in {"submit", "idle"}, pc' = [pc EXCEPT ![c] = label],
         NEW a \in {"none", "success", "need_more_context"}, answer' = [answer EXCEPT ![c] = a],
         label = "submit" => a = "none",
         request' \in [Clients -> Requests],
         \A d \in Clients \ {c} : request'[d] = request[d],
         UNCHANGED <<setup, log, files, outcome, handle, done, crashes>>
  PROVE  TypeInv'
<1> USE DEF TypeInv, TypeOK, EngineTypeOK
<1>1. pc[c] = "idle"
  BY DEF StartCall
<1>2. /\ pc' \in [Clients -> Labels] /\ pc'[c] = label
      /\ \A d \in Clients \ {c} : pc'[d] = pc[d]
  BY DEF Labels
<1>3. calls[c] < MaxCalls /\ MaxCalls \in Nat /\ calls[c] \in 0 .. MaxCalls
  BY CallsLeft, ExecutionAssumption
<1>4. /\ calls' \in [Clients -> 0 .. MaxCalls] /\ calls'[c] > 0
      /\ \A d \in Clients \ {c} : calls'[d] = calls[d]
  <2>1. calls' = [calls EXCEPT ![c] = @ + 1]
    BY Zenon DEF StartCall
  <2>2. calls[c] + 1 \in 0 .. MaxCalls /\ calls[c] + 1 > 0
    BY <1>3
  <2>3. QED
    BY <2>1, <2>2
<1>5. reply' \in [Clients -> Replies]
  BY DEF StartCall, Replies
<1>6. answer' \in [Clients -> {"none"} \cup AgentResult \cup AgentError]
  BY DEF AgentResult, AgentError
<1>7. \A d \in Clients : answer'[d] # "none" => pc'[d] = "idle"
  BY <1>2
<1>8. Placed'
  BY <1>1, <1>2, <1>4 DEF Placed
<1>9. \A d \in Clients :
        /\ outcome'[d] # "none" <=> pc'[d] = "record"
        /\ handle'[d] => pc'[d] = "write" /\ files'[request'[d].target] # Missing
  BY <1>1, <1>2
<1>10. QED
  BY <1>2, <1>4, <1>5, <1>6, <1>7, <1>8, <1>9

\* Crash keeps the types.
LEMMA CrashTyped ==
  ASSUME IInv, TypeInv, Crash, answer' = [c \in Clients |-> "none"]
  PROVE  TypeInv'
<1> USE DEF TypeInv, TypeOK, EngineTypeOK
<1>1. /\ UNCHANGED <<setup, log, files, request, calls, done>>
      /\ pc' = [c \in Clients |-> "idle"] /\ reply' = [c \in Clients |-> "none"]
      /\ outcome' = [c \in Clients |-> "none"] /\ handle' = [c \in Clients |-> FALSE]
  BY DEF Crash
<1>2. handle' \in [Clients -> BOOLEAN] /\ \A c \in Clients : ~handle'[c]
  BY <1>1, Zenon
<1>3. crashes' \in 0 .. MaxCrashes
  BY ExecutionAssumption DEF Crash
<1>4. pc' \in [Clients -> Labels] /\ reply' \in [Clients -> Replies]
  BY <1>1 DEF Labels, Replies
<1>5. Placed'
  BY <1>1 DEF Placed
<1>6. QED
  BY <1>1, <1>2, <1>3, <1>4, <1>5

\* Init keeps the types.
LEMMA InitTyped == Init => TypeInv
<1> SUFFICES ASSUME Init PROVE TypeInv
  OBVIOUS
<1>1. Types
  BY InitInv DEF IInv
<1>2. /\ files \in FileTypes /\ calls \in [Clients -> 0 .. MaxCalls] /\ crashes \in 0 .. MaxCrashes
      /\ reply \in [Clients -> Replies] /\ pc \in [Clients -> Labels]
      /\ outcome \in [Clients -> {"none"} \cup Ok \cup Error]
      /\ answer \in [Clients -> {"none"} \cup AgentResult \cup AgentError]
  BY ExecutionAssumption DEF Init, EngineInit, FileTypes, Missing, Replies, Labels
<1>3. handle \in [Clients -> BOOLEAN] /\ request \in [Clients -> Requests]
  BY <1>1 DEF Types
<1>4. \A c \in Clients : ~handle[c] /\ pc[c] = "idle" /\ outcome[c] = "none"
  BY Zenon DEF Init, EngineInit
<1>5. log = << >> /\ done = {}
  BY DEF Init, EngineInit
<1>6. QED
  BY <1>2, <1>3, <1>4, <1>5 DEF TypeInv, TypeOK, EngineTypeOK, Placed, FileTypes

\* Next keeps the types.
LEMMA NextTyped == IInv /\ TypeInv /\ [Next]_vars => TypeInv'
<1> SUFFICES ASSUME IInv, TypeInv, [Next]_vars PROVE TypeInv'
  OBVIOUS
<1>1. ASSUME NEW c \in Clients, PlanExecute(c) PROVE TypeInv'
  <2>1. PICK goal \in Goals : \E d \in Decisions(goal) :
          d.decision = "Execute" /\ request' = [request EXCEPT ![c] = Resolve(d.step, goal.id)]
    BY <1>1 DEF PlanExecute
  <2>2. PICK d \in Decisions(goal) :
          d.decision = "Execute" /\ request' = [request EXCEPT ![c] = Resolve(d.step, goal.id)]
    BY <2>1
  <2>3. Resolve(d.step, goal.id) \in Requests
    BY <2>2, Resolved
  <2>4. request' \in [Clients -> Requests] /\ \A q \in Clients \ {c} : request'[q] = request[q]
    BY <2>2, <2>3 DEF IInv, Types
  <2>5. QED
    BY <1>1, <2>4, PlanTyped DEF PlanExecute, Goto
<1>2. ASSUME NEW c \in Clients, PlanOther(c) PROVE TypeInv'
  <2>1. PICK a \in {"success", "need_more_context"} : answer' = [answer EXCEPT ![c] = a]
    BY <1>2 DEF PlanOther
  <2>2. /\ pc[c] = "idle" /\ pc' = pc /\ request' = request
        /\ UNCHANGED <<setup, log, files, outcome, handle, done, crashes>> /\ StartCall(c)
    BY <1>2 DEF PlanOther, StartCall
  <2>3. pc' = [pc EXCEPT ![c] = "idle"] /\ request' \in [Clients -> Requests]
    BY <2>2 DEF IInv, Types
  <2>4. QED
    BY <2>1, <2>2, <2>3, PlanTyped
<1>3. CASE UNCHANGED vars
  BY <1>3 DEF vars, engine, TypeInv, TypeOK, EngineTypeOK, Placed
<1>4. CASE Next
  <2>1. CASE Crash /\ answer' = [c \in Clients |-> "none"]
    BY <2>1, CrashTyped
  <2>2. CASE ~(Crash /\ answer' = [c \in Clients |-> "none"])
    BY <1>1, <1>2, <1>4, <2>2, AnswerTyped, EngineTyped DEF Next, Step
  <2>3. QED
    BY <2>1, <2>2
<1>5. QED
  BY <1>3, <1>4

\* Every variable has its type; every recorded exit code is a number; an
\* outcome waits to be recorded exactly in a thread that has executed
\* (execution/src/engine.rs), a file is open only in a thread that writes it,
\* and no open file is missing from its path.
THEOREM TypeCorrect == Spec => []TypeOK
<1>1. TypeInv => TypeOK
  BY DEF TypeInv
<1>2. QED
  BY <1>1, InitTyped, NextTyped, Invariance, PTL DEF Spec
=============================================================================
