---------------------------- MODULE ToolExecution ----------------------------
(***************************************************************************)
(* The boundary every Tool call passes: runtime/tool_executor.py, the      *)
(* FixedToolPolicy of runtime/policy.py and the ToolExecutionRecord of     *)
(* domain/tools.py.  No variables: Admission is what _execute decides      *)
(* before it awaits the Tool, Concluded what it makes of the Tool's        *)
(* answer.  A Tool's prepare(), a ToolPolicy and a Tool's execute() are    *)
(* ports: they may raise, return something else, or return a value that    *)
(* names another call, and the executor checks each at run time.           *)
(***************************************************************************)
CONSTANTS
  ToolNames,      \* names a model may ask for
  Registered,     \* the names ToolRegistry resolves
  Allowed,        \* the allowlist of FixedToolPolicy
  EffectOf        \* ToolSpec.side_effect of each registered Tool

Effects == {"read_only", "workspace_write", "external_write", "code_execution"}
ASSUME RegistryAssumption ==
  Registered \subseteq ToolNames /\ EffectOf \in [Registered -> Effects]

DENIED_SIDE_EFFECTS == {"external_write", "code_execution"}
Reasons == {"allowed", "tool_not_allowed", "side_effect_denied"}
Codes == {"TOOL_NOT_FOUND", "TOOL_INVALID_INPUT", "TOOL_ERROR", "TOOL_PERMISSION_DENIED",
          "TOOL_TIMEOUT", "TOOL_OUTPUT_TOO_LARGE", "WORKSPACE"}

\* the error codes of WorkspaceBoundaryError other than TOOL_TIMEOUT are "WORKSPACE"
Identities == {"none", "same", "other"}   \* of a value, against the request's

Request == [name : ToolNames, fits : BOOLEAN]
Preparations == {"raises", "not_prepared", "same", "other"}
Verdicts == {"raises", "not_decision", "decides"}

\* what awaiting a Tool's execute() ends in; "failed" is a ToolResult too
ToolAnswers ==
  {"raises", "times_out", "not_result", "other_call", "too_large", "succeeded", "failed"}

Record ==
  [prepared : Identities, decision : Reasons \cup {"none"}, reached : BOOLEAN,
   answers : Identities, status : {"none", "succeeded", "failed"},
   code : Codes \cup {"none"}, truncated : BOOLEAN]

NoRecord ==
  [prepared |-> "none", decision |-> "none", reached |-> FALSE, answers |-> "none",
   status |-> "none", code |-> "none", truncated |-> FALSE]

\* _failure(request, code): the executor's own ToolResult
Failure(record, code) ==
  [record EXCEPT !.answers = "same", !.status = "failed", !.code = code]

-----------------------------------------------------------------------------
(* mutant: the side effect of an allowlisted Tool is not looked at *)
Evaluate_NamesOnly(name) == IF name \in Allowed THEN "allowed" ELSE "tool_not_allowed"

\* FixedToolPolicy.evaluate
Evaluate(name) ==
  IF name \notin Allowed THEN "tool_not_allowed"
  ELSE IF EffectOf[name] \in DENIED_SIDE_EFFECTS THEN "side_effect_denied"
  ELSE "allowed"

\* the record when preparation succeeded: the policy is asked, and only then
Decided(name, verdict) ==
  LET prepared == [NoRecord EXCEPT !.prepared = "same"]
      decided == [prepared EXCEPT !.decision = Evaluate(name)]
  IN  IF verdict # "decides" THEN Failure(prepared, "TOOL_ERROR")
      ELSE IF decided.decision = "allowed" THEN decided
      ELSE Failure(decided, "TOOL_PERMISSION_DENIED")

\* mutant: the identity of the prepared request is not compared
Admission_TrustsPrepared(q, preparation, verdict) ==
  IF q.name \notin Registered THEN Failure(NoRecord, "TOOL_NOT_FOUND")
  ELSE IF ~ q.fits \/ preparation \in {"raises", "not_prepared"}
  THEN Failure(NoRecord, "TOOL_INVALID_INPUT")
  ELSE [Decided(q.name, verdict) EXCEPT !.prepared = preparation]

\* _execute before it awaits: the record it returns, or one without a status
Admission(q, preparation, verdict) ==
  IF q.name \notin Registered THEN Failure(NoRecord, "TOOL_NOT_FOUND")
  ELSE IF ~ q.fits \/ preparation # "same" THEN Failure(NoRecord, "TOOL_INVALID_INPUT")
  ELSE Decided(q.name, verdict)

\* the Tool is about to be awaited
IsAdmitted(record) == record.status = "none"

\* _execute after it awaits: the record of what the Tool answered
Concluded(record, answer, code) ==
  LET reached == [record EXCEPT !.reached = TRUE]
  IN  CASE answer = "succeeded" -> [reached EXCEPT !.answers = "same", !.status = "succeeded"]
        [] answer = "failed"    -> Failure(reached, code)
        [] answer = "times_out" -> Failure(reached, "TOOL_TIMEOUT")
        [] answer = "too_large" -> Failure(reached, "TOOL_OUTPUT_TOO_LARGE")
        [] OTHER                -> Failure(reached, "TOOL_ERROR")

-----------------------------------------------------------------------------
(* agent_loop's _compact_execution_failure: the record stored instead when   *)
(* the full one does not fit an Event.                                       *)
Compacted(record) ==
  [Failure(NoRecord, "TOOL_OUTPUT_TOO_LARGE") EXCEPT
     !.reached = record.reached, !.truncated = TRUE]

\* ToolExecutionRecord.require_consistent_execution
Consistent(record) ==
  /\ record.answers = "same"
  /\ record.prepared \in {"none", "same"}
  /\ IF record.truncated
     THEN /\ record.prepared = "none" /\ record.decision = "none"
          /\ record.status = "failed" /\ record.code = "TOOL_OUTPUT_TOO_LARGE"
     ELSE /\ record.reached => record.prepared # "none" /\ record.decision = "allowed"
          /\ record.status = "succeeded" => record.reached
===============================================================================
