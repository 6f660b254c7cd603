---------------------------- MODULE AgentDecision ----------------------------
(***************************************************************************)
(* What the agent's sources of decisions decide (agent/src): MockPlanner   *)
(* (planner.rs), MockProvider (provider.rs) and ResponseParser (parser.rs) *)
(* over the decisions of decision.rs.  Each is a function of its input.    *)
(*                                                                         *)
(* A goal's description is its first word and the rest: verb is a pattern  *)
(* the planner knows or any other word, in any letter case, and name is    *)
(* the rest, trimmed.                                                      *)
(***************************************************************************)
EXTENDS Naturals, Sequences

CONSTANTS
  Lowercase,  \* the lowercase spelling of every name
  ContentOf,  \* the text "content of <name>" of every name
  NoName      \* nothing but blanks behind the verb

Goal(id, verb, name) == [id |-> id, verb |-> verb, name |-> name]

\* PlanStep
ExecuteCommand(command, args) == [step |-> "ExecuteCommand", command |-> command, args |-> args]
WriteFile(path, content) == [step |-> "WriteFile", path |-> path, content |-> content]
DeleteFile(path) == [step |-> "DeleteFile", path |-> path]

\* AgentDecision; the wording of the last two is left out.
Execute(step) == [decision |-> "Execute", step |-> step]
Complete == [decision |-> "Complete"]
NeedMoreContext == [decision |-> "NeedMoreContext"]

(* MockPlanner::plan: the whole goal is put in lower case, the name of the  *)
(* file or command with it.                                                 *)
MockPlan(goal) ==
  LET name == Lowercase[goal.name]
  IN  IF name = NoName THEN NeedMoreContext
      ELSE CASE goal.verb = "create" -> Execute(WriteFile(name, ContentOf[name]))
             [] goal.verb = "delete" -> Execute(DeleteFile(name))
             [] goal.verb \in {"run", "execute"} -> Execute(ExecuteCommand(name, << >>))
             [] OTHER -> NeedMoreContext

-----------------------------------------------------------------------------
(* MockProvider: responses is a function from descriptions to decisions.    *)

MockProvider == << >>

Description(goal) == <<goal.verb, goal.name>>

(* with_response: a later response to a goal replaces the earlier one.      *)
WithResponse(responses, description, decision) ==
  [d \in DOMAIN responses \cup {description} |->
     IF d = description THEN decision ELSE responses[d]]

(* reason *)
Reason(responses, goal) ==
  IF Description(goal) \in DOMAIN responses THEN responses[Description(goal)]
  ELSE NeedMoreContext

-----------------------------------------------------------------------------
(* ResponseParser.  What a model wrote is either no JSON of the expected    *)
(* types, or the object's fields; null counts as a missing field.           *)

NotJson == [json |-> FALSE]
RawDecision(fields) == [json |-> TRUE, fields |-> fields]

Decided(decision) == [error |-> "none", decision |-> decision]
ParseError(kind) == [error |-> kind, decision |-> NeedMoreContext]

Needs(fields, required, decision) ==
  IF required \subseteq DOMAIN fields THEN Decided(decision) ELSE ParseError("MissingField")

FieldOr(fields, field, default) == IF field \in DOMAIN fields THEN fields[field] ELSE default

(* parse: fields that are there but empty, or there for another action, are *)
(* taken as they are.                                                       *)
ParseDecision(raw) ==
  IF ~raw.json \/ "action" \notin DOMAIN raw.fields THEN ParseError("InvalidJson")
  ELSE LET fields == raw.fields
       IN  CASE fields.action = "execute_command" ->
                  Needs(fields, {"command"},
                        Execute(ExecuteCommand(fields.command, FieldOr(fields, "args", << >>))))
             [] fields.action = "write_file" ->
                  Needs(fields, {"path", "content"}, Execute(WriteFile(fields.path, fields.content)))
             [] fields.action = "delete_file" -> Needs(fields, {"path"}, Execute(DeleteFile(fields.path)))
             [] fields.action = "complete" -> Decided(Complete)
             [] fields.action = "need_context" -> Decided(NeedMoreContext)
             [] OTHER -> ParseError("UnknownAction")
=============================================================================
