------------------------- MODULE MCAgentController -------------------------
(* Small instances of AgentController for TLC. *)
EXTENDS AgentController, TLC

CONSTANTS t1, t2, goal, f, capital_f, elsewhere, none, x, y

ThreadSet == {t1, t2}
GoalSet == {goal}
FileSet == {f}
ContentSet == {x, y}

(* An engine as examples/ builds it, one whose policy grants no commands,   *)
(* and one whose registry lacks an executor and has another in its place.   *)
Usual == [granted |-> Actions, executors |-> [a \in Actions |-> a]]
NoCommands == [Usual EXCEPT !.granted = {"FileWrite", "FileDelete"}]
Misregistered ==
  [Usual EXCEPT !.executors = [a \in {"CommandRun", "FileWrite"} |-> "CommandRun"]]
EverySetup == {Usual, NoCommands, Misregistered}
UsualSetup == {Usual}

\* f has a spelling with a capital, which the planner does not keep.
Lower ==
  f :> f @@ capital_f :> f @@ elsewhere :> elsewhere @@ none :> none
Content == f :> x @@ elsewhere :> x

Creates == {Goal(goal, "create", capital_f), Goal(goal, "delete", f), Goal(goal, "delete", none)}
EveryGoal == Creates \cup {Goal(goal, "create", elsewhere), Goal(goal, "run", f)}

\* A response that replaces another, and one to a goal the planner refuses
CannedResponses ==
  WithResponse(
    WithResponse(
      WithResponse(MockProvider, <<"delete", f>>, NeedMoreContext), <<"delete", f>>, Complete),
    <<"delete", none>>, Execute(DeleteFile(f)))
NoResponses == MockProvider

\* Decisions as a model writes them, well and badly
ModelOutputs ==
  { NotJson, RawDecision([path |-> f]), RawDecision([action |-> "move_file", path |-> f]),
    RawDecision([action |-> "write_file", path |-> f]),
    RawDecision([action |-> "write_file", path |-> f, content |-> y]),
    RawDecision([action |-> "execute_command", command |-> f]),
    RawDecision([action |-> "delete_file", path |-> f, content |-> y]),
    RawDecision([action |-> "complete"]), RawDecision([action |-> "need_context"]) }
NoOutputs == {}
=============================================================================
