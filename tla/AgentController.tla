--------------------------- MODULE AgentController ---------------------------
(***************************************************************************)
(* AgentController::process_goal (agent/src/controller.rs) in front of the *)
(* execution engine it owns: plan the goal, resolve the step into a        *)
(* request that carries the goal's id (resolver.rs), submit it, turn the   *)
(* answer into an AgentResult.  The planner is MockPlanner, or one that    *)
(* passes on what an AiProvider reasons or what ResponseParser makes of a  *)
(* model's output; the same goal may be processed again, by the same       *)
(* thread or by another.                                                   *)
(***************************************************************************)
EXTENDS ExecutionEngine, AgentDecision

CONSTANTS
  Goals,      \* what users want
  Responses,  \* the responses of the AI provider, a MockProvider
  Outputs     \* what a model may write

\* AgentResult, told apart by its success flag, and AgentError
AgentResult == {"success", "failure"}
AgentError == {"need_more_context", "execution_failed"}

VARIABLE answer  \* per thread: what process_goal returned

vars == <<engine, answer>>

Init ==
  /\ EngineInit
  /\ answer = [c \in Clients |-> "none"]

\* The calls of all threads so far
Made == {call \in Clients \X (1 .. MaxCalls) : call[2] <= calls[call[1]]}

StartCall(c) ==
  /\ pc[c] = "idle"
  /\ Cardinality(Made) < MaxCalls
  /\ calls' = [calls EXCEPT ![c] = @ + 1]
  /\ reply' = [reply EXCEPT ![c] = "none"]

(* DefaultResolver::resolve: any step has a request.  Which command is run  *)
(* is left out, and every path outside the working directory is one.        *)
Resolve(step, id) ==
  LET Target(path) == IF path \in Files THEN path ELSE Outside
  IN  CASE step.step = "ExecuteCommand" -> Request(id, "CommandRun", Outside, Torn)
        [] step.step = "WriteFile" -> Request(id, "FileWrite", Target(step.path), step.content)
        [] step.step = "DeleteFile" -> Request(id, "FileDelete", Target(step.path), Torn)

(* What one of the planners may decide; a planner can only tell of output   *)
(* that does not parse by asking for more.                                  *)
Decisions(goal) ==
  {MockPlan(goal), Reason(Responses, goal)} \cup {ParseDecision(raw).decision : raw \in Outputs}

(* The threads are finitely many.  A goal has an id, and a step that writes *)
(* has something to write.                                                  *)
ASSUME AgentAssumption ==
  /\ IsFiniteSet(Clients)
  /\ \A goal \in Goals :
       /\ goal.id \in Ids
       /\ \A d \in Decisions(goal) : d.decision = "Execute" =>
            /\ d.step.step \in {"ExecuteCommand", "WriteFile", "DeleteFile"}
            /\ d.step.step = "WriteFile" => d.step.content \in Contents

PlanExecute(c) ==
  /\ StartCall(c)
  /\ \E goal \in Goals : \E d \in Decisions(goal) :
       /\ d.decision = "Execute"
       /\ request' = [request EXCEPT ![c] = Resolve(d.step, goal.id)]
  /\ Goto(c, "submit")
  /\ answer' = [answer EXCEPT ![c] = "none"]
  /\ UNCHANGED <<setup, log, files, outcome, handle, done, crashes>>

(* The goal is complete, or it needs more context.                          *)
PlanOther(c) ==
  /\ StartCall(c)
  /\ \E goal \in Goals : \E d \in Decisions(goal) :
       /\ d.decision # "Execute"
       /\ answer' = [answer EXCEPT ![c] =
                       IF d.decision = "Complete" THEN "success" ELSE "need_more_context"]
  /\ UNCHANGED <<setup, log, files, pc, request, outcome, handle, done, crashes>>

\* Variant: takes a result that is not an error for a success.
ResultOfOk(r) == IF r \in Ok THEN "success" ELSE "execution_failed"

(* The result of the executor is a success unless a signal ended it; an     *)
(* error of the engine is an error of the agent.                            *)
ResultOf(r) ==
  CASE r \in {"exit_zero", "exit_nonzero"} -> "success"
    [] r = "killed" -> "failure"
    [] OTHER -> "execution_failed"

AnswerGoal(c) ==
  /\ pc[c] = "returned"
  /\ answer' = [answer EXCEPT ![c] = ResultOf(reply[c])]
  /\ Goto(c, "idle")
  /\ UNCHANGED <<setup, log, files, request, outcome, handle, reply, calls, done, crashes>>

Step(c) ==
  \/ EngineStep(c) /\ UNCHANGED answer
  \/ AnswerGoal(c)

Next ==
  \/ \E c \in Clients :
       \/ PlanExecute(c) \/ PlanOther(c) \/ Step(c)
       \/ CommandExits(c) /\ UNCHANGED answer
  \/ Crash /\ answer' = [c \in Clients |-> "none"]

Spec == Init /\ [][Next]_vars

(* A thread runs on; a command need not end, and no timeout ends it.        *)
FairSpec == Spec /\ \A c \in Clients : WF_vars(Step(c))
-----------------------------------------------------------------------------
(* Properties *)

(* The engine's variables have their types, and a goal's answer is given    *)
(* when its call is over.                                                   *)
TypeOK ==
  /\ EngineTypeOK
  /\ answer \in [Clients -> {"none"} \cup AgentResult \cup AgentError]
  /\ \A c \in Clients : answer[c] # "none" => pc[c] = "idle"

(* An agent that reports success or failure of an execution reports what    *)
(* the log says was Completed; what the log says Failed is an error.        *)
AnswerMatchesLog ==
  \A c \in Clients :
    LET mine == {i \in DOMAIN log : log[i].call = This(c) /\ log[i].kind # "Requested"}
    IN  /\ answer[c] = "failure" => \E i \in mine : log[i].kind = "Completed"
        /\ answer[c] = "success" /\ reply[c] # "none" =>
             \E i \in mine : log[i].kind = "Completed" /\ reply[c] # "killed"
        /\ answer[c] # "none" =>
             \A i \in mine : log[i].kind = "Failed" => answer[c] = "execution_failed"
        /\ answer[c] = "need_more_context" => \A i \in DOMAIN log : log[i].call # This(c)

(* A goal that needs no command is answered, unless the process dies: no    *)
(* executor waits for another thread.                                       *)
FileGoalAnswered ==
  \A c \in Clients :
    pc[c] = "submit" /\ request[c].action # "CommandRun" ~> pc[c] = "idle"

-----------------------------------------------------------------------------
(* The strengthening that makes LogTellsReply, RecordedBeforeDone,          *)
(* FilesExplained and AnswerMatchesLog inductive                            *)

Events == [kind : Kinds, exit : {0, 1, NoExit}, call : Clients \X Nat, request : Requests]

Types ==
  /\ log \in Seq(Events)
  /\ DOMAIN files = Files
  /\ pc \in [Clients -> Labels] /\ request \in [Clients -> Requests]
  /\ DOMAIN outcome = Clients /\ DOMAIN reply = Clients /\ DOMAIN answer = Clients
  /\ handle \in [Clients -> BOOLEAN]
  /\ calls \in [Clients -> Nat]

\* Past its Requested event, and with no other event yet
Working == {"execute", "running", "write", "remove", "record"}

\* What the log has of a thread's call follows from where the thread is.
CallOf(c) ==
  /\ pc[c] = "submit" => \A i \in DOMAIN log : log[i].call # This(c)
  /\ pc[c] \in Working =>
       /\ Permitted(request[c]) /\ Recorded(This(c), "Requested")
       /\ \A i \in DOMAIN log : log[i].call = This(c) =>
            log[i].kind = "Requested" /\ log[i].request = request[c]
  /\ pc[c] = "write" => request[c].action = "FileWrite"
  /\ pc[c] \in {"submit"} \cup Working => reply[c] = "none"
  /\ reply[c] \in Ok => Recorded(This(c), "Completed")
  /\ reply[c] = "executor_failed" => Recorded(This(c), "Failed")
  /\ reply[c] = "validation_failed" => \A i \in DOMAIN log : log[i].call # This(c)
  /\ pc[c] = "returned" /\ Recorded(This(c), "Failed") => reply[c] = "executor_failed"
  /\ answer[c] # "none" => pc[c] = "idle"

\* Of a call that was not made yet it has nothing.
CallInv ==
  /\ \A i \in DOMAIN log : log[i].call[2] <= calls[log[i].call[1]]
  /\ \A c \in Clients : CallOf(c)

\* A call that may have cut a file short has it open still, or will not be
\* recorded as Completed any more.
MayCut(c) ==
  \/ pc[c] = "write" /\ handle[c]
  \/ pc[c] = "record" /\ outcome[c] = "failed"
  \/ pc[c] \in {"idle", "returned"}

Cuts(i) ==
  /\ ~Recorded(log[i].call, "Completed")
  /\ \A c \in Clients : log[i].call = This(c) => MayCut(c)

Asked(f) == {i \in Wrote(f) : log[i].kind = "Requested"}

FilesInv ==
  \A f \in Files :
    /\ \A x \in files[f] \ {Old, Torn} : \E i \in Asked(f) : log[i].request.content = x
    /\ Torn \in files[f] => \E i \in Asked(f) : Cuts(i)

\* A thread inside a call has made one, and has a file before it writes or
\* removes it.
Placed ==
  \A c \in Clients :
    /\ pc[c] # "idle" => calls[c] > 0
    /\ pc[c] \in {"write", "remove"} => request[c].target \in Files

TypeInv == TypeOK /\ Placed

IInv == Types /\ CallInv /\ OneStory /\ FilesInv /\ RecordedBeforeDone /\ AnswerMatchesLog
=============================================================================
