--------------------------- MODULE ExecutionEngine ---------------------------
(***************************************************************************)
(* ExecutionEngine::submit (execution/src/engine.rs), its policy, its      *)
(* registry and the three executors, on a file system its callers share.   *)
(* Any number of threads may be inside submit; nothing is locked but the   *)
(* event store, which is what EventStore.tla promises.  The process may    *)
(* die at any step: the log and the files stay, the calls do not.          *)
(***************************************************************************)
EXTENDS Naturals, Sequences, FiniteSets

CONSTANTS
  Clients,
  Ids,         \* the ids of requests
  Files,       \* the paths inside the working directory
  Outside,     \* a path the path checks reject
  Contents,    \* what is written to files
  Setups,      \* the policies and registries an engine is built with
  Old,         \* what is in the files that are there when the engine is built
  Torn,        \* the part of a file that was not written, or cut short
  NoExit,      \* the exit code of a process killed by a signal
  MaxCalls,    \* bounds the calls of all threads
  MaxCrashes   \* bounds the crashes of the process

Actions == {"CommandRun", "FileWrite", "FileDelete"}

ASSUME ExecutionAssumption ==
  /\ \A s \in Setups :
       /\ s.granted \subseteq Actions
       /\ DOMAIN s.executors \subseteq Actions
       /\ \A a \in DOMAIN s.executors : s.executors[a] \in Actions
  /\ Outside \notin Files /\ Ids # {} /\ Torn \notin Contents \cup {Old}
  /\ MaxCalls \in Nat
  /\ MaxCrashes \in Nat

VARIABLES
  setup,    \* the capabilities granted and, per action, the executor registered
  log,      \* the store: the committed events, each with the call it is from
  files,    \* the file system
  pc,
  request,  \* per thread: the request it submitted
  outcome,  \* per thread: what the executor returned, until it is recorded
  handle,   \* per thread: whether the file it has open is still the one on its path
  reply,    \* per thread: what submit returned
  calls,    \* per thread: how many calls it has made
  done,     \* the calls that changed a file or ran a command (history)
  crashes

engine == <<setup, log, files, pc, request, outcome, handle, reply, calls, done, crashes>>

\* A file is the set of the contents it has bytes of, with Torn if it is cut
\* short: {x} was written whole, {x, y} by two threads over each other.
Missing == {}

Kinds == {"Requested", "Completed", "Failed"}
Ok == {"exit_zero", "exit_nonzero", "killed"}
Error == {"failed", "not_found", "internal"}

Request(id, action, target, content) ==
  [id |-> id, action |-> action, target |-> target, content |-> content,
   capabilities |-> {action}]

Requests ==
  {Request(id, "CommandRun", Outside, Torn) : id \in Ids}
    \cup {Request(id, "FileWrite", f, x) : id \in Ids, f \in Files \cup {Outside}, x \in Contents}
    \cup {Request(id, "FileDelete", f, Torn) : id \in Ids, f \in Files \cup {Outside}}

This(c) == <<c, calls[c]>>
Event(c, kind, exit) ==
  [kind |-> kind, exit |-> exit, call |-> This(c), request |-> request[c]]

EngineInit ==
  /\ setup \in Setups
  /\ log = << >>
  /\ files \in [Files -> {Missing, {Old}}]
  /\ pc = [c \in Clients |-> "idle"]
  /\ request \in [Clients -> {CHOOSE r \in Requests : TRUE}]
  /\ outcome = [c \in Clients |-> "none"]
  /\ handle = [c \in Clients |-> FALSE]
  /\ reply = [c \in Clients |-> "none"]
  /\ calls = [c \in Clients |-> 0]
  /\ done = {}
  /\ crashes = 0

Goto(c, label) == pc' = [pc EXCEPT ![c] = label]

Return(c, r) ==
  /\ Goto(c, "returned")
  /\ reply' = [reply EXCEPT ![c] = r]
  /\ outcome' = [outcome EXCEPT ![c] = "none"]

-----------------------------------------------------------------------------
(* Before the action is performed *)

(* ExecutionPolicy::validate *)
Permitted(r) == r.capabilities \subseteq setup.granted

Refuse(c) ==
  /\ pc[c] = "submit"
  /\ \/ ~Permitted(request[c]) /\ Return(c, "validation_failed")
     \/ /\ Permitted(request[c])
        /\ request[c].action \notin DOMAIN setup.executors
        /\ Return(c, "internal")
  /\ UNCHANGED <<setup, log, files, request, handle, calls, done, crashes>>

Accepted(c) ==
  /\ pc[c] = "submit"
  /\ Permitted(request[c])
  /\ request[c].action \in DOMAIN setup.executors

AppendRequested(c) ==
  /\ Accepted(c)
  /\ log' = Append(log, Event(c, "Requested", NoExit))
  /\ Goto(c, "execute")
  /\ UNCHANGED <<setup, files, request, outcome, handle, reply, calls, done, crashes>>

\* Variant: executes without the event.
AppendRequestedFailsGoesOn(c) ==
  /\ Accepted(c)
  /\ Goto(c, "execute")
  /\ UNCHANGED <<setup, log, files, request, outcome, handle, reply, calls, done, crashes>>

AppendRequestedFails(c) ==
  /\ Accepted(c)
  /\ Return(c, "event_append_failed")
  /\ UNCHANGED <<setup, log, files, request, handle, calls, done, crashes>>

-----------------------------------------------------------------------------
(* The executors *)

Executed(c, result) ==
  /\ Goto(c, "record")
  /\ outcome' = [outcome EXCEPT ![c] = result]

Executing(c, action) ==
  /\ pc[c] = "execute"
  /\ setup.executors[request[c].action] = action
  /\ request[c].action = action

(* An executor registered for another action answers Internal.              *)
WrongExecutor(c) ==
  /\ pc[c] = "execute"
  /\ setup.executors[request[c].action] # request[c].action
  /\ Executed(c, "internal")
  /\ UNCHANGED <<setup, log, files, request, handle, reply, calls, done, crashes>>

(* CommandExecutor: the command runs for as long as it likes.               *)
Spawn(c) ==
  /\ Executing(c, "CommandRun")
  /\ \/ Executed(c, "failed") /\ UNCHANGED done
     \/ Goto(c, "running") /\ done' = done \cup {This(c)} /\ UNCHANGED outcome
  /\ UNCHANGED <<setup, log, files, request, handle, reply, calls, crashes>>

CommandExits(c) ==
  /\ pc[c] = "running"
  /\ \E result \in Ok : Executed(c, result)
  /\ UNCHANGED <<setup, log, files, request, handle, reply, calls, done, crashes>>

(* FileWriteExecutor and FileDeleteExecutor check the path first; looking   *)
(* it up, or making its parent directories, may fail for any path.          *)
RejectPath(c) ==
  /\ Executing(c, "FileWrite") \/ Executing(c, "FileDelete")
  /\ Executed(c, "failed")
  /\ UNCHANGED <<setup, log, files, request, handle, reply, calls, done, crashes>>

(* fs::write opens and truncates the file, then writes it.                  *)
OpenFile(c) ==
  /\ Executing(c, "FileWrite")
  /\ request[c].target # Outside
  /\ files' = [files EXCEPT ![request[c].target] = {Torn}]
  /\ handle' = [handle EXCEPT ![c] = TRUE]
  /\ done' = done \cup {This(c)}
  /\ Goto(c, "write")
  /\ UNCHANGED <<setup, log, request, outcome, reply, calls, crashes>>

(* What a thread's bytes make of the file on its path: nothing, when the    *)
(* file was unlinked meanwhile; otherwise they may leave some of what other *)
(* threads wrote since it was truncated.                                    *)
Written(c, parts) ==
  LET old == files[request[c].target]
  IN  IF handle[c] THEN {parts \cup kept : kept \in SUBSET (old \ {Torn})} ELSE {old}

Close(c) == handle' = [handle EXCEPT ![c] = FALSE]

\* Variant: does not look at what fs::write returned.
WriteIgnoresError(c) ==
  /\ pc[c] = "write"
  /\ \E file \in Written(c, {request[c].content, Torn}) :
       files' = [files EXCEPT ![request[c].target] = file]
  /\ Executed(c, "exit_zero")
  /\ Close(c)
  /\ UNCHANGED <<setup, log, request, reply, calls, done, crashes>>

WriteContent(c) ==
  /\ pc[c] = "write"
  /\ \E file \in Written(c, {request[c].content}) :
       files' = [files EXCEPT ![request[c].target] = file]
  /\ Executed(c, "exit_zero")
  /\ Close(c)
  /\ UNCHANGED <<setup, log, request, reply, calls, done, crashes>>

WriteFails(c) ==
  /\ pc[c] = "write"
  /\ \E file \in {files[request[c].target]} \cup Written(c, {request[c].content, Torn}) :
       files' = [files EXCEPT ![request[c].target] = file]
  /\ Executed(c, "failed")
  /\ Close(c)
  /\ UNCHANGED <<setup, log, request, reply, calls, done, crashes>>

(* FileDeleteExecutor asks whether the file exists, then removes it.        *)
FindFile(c) ==
  /\ Executing(c, "FileDelete")
  /\ request[c].target # Outside
  /\ IF files[request[c].target] = Missing
     THEN Executed(c, "exit_zero")
     ELSE Goto(c, "remove") /\ UNCHANGED outcome
  /\ UNCHANGED <<setup, log, files, request, handle, reply, calls, done, crashes>>

Unlink(c) ==
  /\ files' = [files EXCEPT ![request[c].target] = Missing]
  /\ handle' = [d \in Clients |-> handle[d] /\ request[d].target # request[c].target]
  /\ done' = done \cup {This(c)}

\* Variant: waits for the file to be there.
RemoveFileWaits(c) ==
  /\ pc[c] = "remove"
  /\ files[request[c].target] # Missing
  /\ Unlink(c) /\ Executed(c, "exit_zero")
  /\ UNCHANGED <<setup, log, request, reply, calls, crashes>>

RemoveFile(c) ==
  /\ pc[c] = "remove"
  /\ IF files[request[c].target] = Missing
     THEN Executed(c, "not_found") /\ UNCHANGED <<files, handle, done>>
     ELSE \/ Unlink(c) /\ Executed(c, "exit_zero")
          \/ Executed(c, "failed") /\ UNCHANGED <<files, handle, done>>
  /\ UNCHANGED <<setup, log, request, reply, calls, crashes>>

Perform(c) ==
  \/ WrongExecutor(c) \/ Spawn(c) \/ RejectPath(c)
  \/ OpenFile(c) \/ WriteContent(c) \/ WriteFails(c)
  \/ FindFile(c) \/ RemoveFile(c)

-----------------------------------------------------------------------------
(* After it *)

\* Variant: records the exit code as it is.
ExitCodeAsIs(result) ==
  CASE result = "exit_zero" -> 0 [] result = "killed" -> NoExit [] OTHER -> 1

(* exit_code.unwrap_or(0) *)
ExitCode(result) == IF result = "exit_nonzero" THEN 1 ELSE 0

\* Variant: every execution that comes back is Completed.
TerminalEventCompleted(c) == Event(c, "Completed", ExitCode(outcome[c]))

TerminalEvent(c) ==
  IF outcome[c] \in Ok THEN Event(c, "Completed", ExitCode(outcome[c]))
  ELSE Event(c, "Failed", NoExit)

Answer(result) == IF result \in Ok THEN result ELSE "executor_failed"

AppendTerminal(c) ==
  /\ pc[c] = "record"
  /\ outcome[c] # "internal"
  /\ \/ log' = Append(log, TerminalEvent(c)) /\ Return(c, Answer(outcome[c]))
     \/ Return(c, "event_append_failed") /\ UNCHANGED log
  /\ UNCHANGED <<setup, files, request, handle, calls, done, crashes>>

(* Any other error is returned as it is, with no event.                     *)
PassError(c) ==
  /\ pc[c] = "record"
  /\ outcome[c] = "internal"
  /\ Return(c, "internal")
  /\ UNCHANGED <<setup, log, files, request, handle, calls, done, crashes>>

EngineStep(c) ==
  \/ Refuse(c) \/ AppendRequested(c) \/ AppendRequestedFails(c)
  \/ Perform(c)
  \/ AppendTerminal(c) \/ PassError(c)

Crash ==
  /\ crashes < MaxCrashes
  /\ \E c \in Clients : pc[c] # "idle"
  /\ crashes' = crashes + 1
  /\ pc' = [c \in Clients |-> "idle"]
  /\ outcome' = [c \in Clients |-> "none"]
  /\ handle' = [c \in Clients |-> FALSE]
  /\ reply' = [c \in Clients |-> "none"]
  /\ UNCHANGED <<setup, log, files, request, calls, done>>
-----------------------------------------------------------------------------
(* Properties *)

Labels == {"idle", "submit", "execute", "running", "write", "remove", "record", "returned"}
ExecutionError == {"validation_failed", "internal", "event_append_failed", "executor_failed"}
Replies == {"none"} \cup ExecutionError \cup Ok

(* Every variable has its type, every recorded exit code is a number, and   *)
(* an outcome waits to be recorded exactly in a thread that has executed.   *)
EngineTypeOK ==
  /\ \A i \in DOMAIN log :
       /\ log[i].kind \in Kinds
       /\ log[i].exit \in IF log[i].kind = "Completed" THEN {0, 1} ELSE {NoExit}
       /\ log[i].call \in Clients \X (1 .. MaxCalls)
       /\ log[i].request \in Requests
  /\ files \in [Files -> SUBSET (Contents \cup {Old, Torn})]
  /\ pc \in [Clients -> Labels]
  /\ request \in [Clients -> Requests]
  /\ outcome \in [Clients -> {"none"} \cup Ok \cup Error]
  /\ handle \in [Clients -> BOOLEAN]
  /\ reply \in [Clients -> Replies]
  /\ calls \in [Clients -> 0 .. MaxCalls]
  /\ done \subseteq Clients \X (1 .. MaxCalls)
  /\ crashes \in 0 .. MaxCrashes
  /\ \A c \in Clients :
       /\ outcome[c] # "none" <=> pc[c] = "record"
       /\ handle[c] => pc[c] = "write" /\ files[request[c].target] # Missing

Recorded(call, kind) == \E i \in DOMAIN log : log[i].call = call /\ log[i].kind = kind

(* A call, answered, cut off or crashed, has a Requested event first and at *)
(* most one other after it.                                                 *)
OneStory ==
  /\ \A i, j \in DOMAIN log : i < j /\ log[i].call = log[j].call =>
       log[i].kind = "Requested" /\ log[j].kind # "Requested"
  /\ \A j \in DOMAIN log : log[j].kind # "Requested" =>
       \E i \in DOMAIN log : i < j /\ log[i].call = log[j].call

(* The log tells a caller's story: a call that was answered by the executor *)
(* is a Requested and one Completed or Failed event, as it was answered; a  *)
(* call that was refused has no event; no call has more.                    *)
LogTellsReply ==
  /\ OneStory
  /\ \A c \in Clients :
       /\ reply[c] \in Ok => Recorded(This(c), "Completed")
       /\ reply[c] = "executor_failed" => Recorded(This(c), "Failed")
       /\ reply[c] = "validation_failed" => \A i \in DOMAIN log : log[i].call # This(c)

(* Nothing is done to the world that the log does not mention, crashes and  *)
(* failed appends included: the request is recorded before its action, and  *)
(* it is one the policy grants.                                             *)
RecordedBeforeDone ==
  \A call \in done :
    \E i \in DOMAIN log :
      /\ log[i].call = call
      /\ log[i].kind = "Requested"
      /\ log[i].request.capabilities \subseteq setup.granted

(* The log explains every file: whatever content a file has bytes of, a     *)
(* write of it was requested, and one that is cut short belongs to a write  *)
(* the log does not call Completed.                                         *)
Wrote(f) == {i \in DOMAIN log : log[i].request.action = "FileWrite" /\ log[i].request.target = f}

FilesExplained ==
  \A f \in Files :
    LET asked == {i \in Wrote(f) : log[i].kind = "Requested"}
        finished == {log[i].call : i \in {j \in Wrote(f) : log[j].kind = "Completed"}}
    IN  /\ files[f] \ {Old, Torn} \subseteq {log[i].request.content : i \in asked}
        /\ Torn \in files[f] => \E i \in asked : log[i].call \notin finished

(* A doc comment of FileDeleteExecutor: deleting a file that is missing is  *)
(* a successful no-op.                                                      *)
DeleteIdempotent == \A c \in Clients : outcome[c] # "not_found"
=============================================================================
