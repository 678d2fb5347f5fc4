------------------------------ MODULE RunEvents ------------------------------
(***************************************************************************)
(* The P1 Run Events and the pure reducer that folds them into a RunState: *)
(* domain/runs.py, domain/run_events.py, runtime/budgets.py and            *)
(* runtime/reducer.py.  This module has no variables; it is the vocabulary *)
(* shared by the reducer's own state machine (RunReducer), the durable     *)
(* store (EventStore) and the loop that produces the Events (AgentLoop).   *)
(*                                                                         *)
(* The twelve Event types are written as eight types and a kind:           *)
(* ModelCallRequested is Requested of kind "model", and so on.  An Event   *)
(* carries the fields some check reads; a field its type does not have     *)
(* keeps the value of Blank.  Timestamps other than those of RunStarted    *)
(* and Requested, error texts and tool names are recorded by the code but  *)
(* no decision of the reducer reads them.                                  *)
(***************************************************************************)
EXTENDS Integers, Sequences

CONSTANTS
  RunIds, ActivityIds,
  CallIds,              \* ModelCallId and ToolCallId values
  Requests,             \* what a ToolRequest asks for: its name and arguments
  Usages,               \* usage that the Event of a model call may carry
  LimitChoices,         \* BudgetLimits a Run may be created with
  Times,                \* readings of the clock, in milliseconds
  Versions,             \* Event schema versions
  None,                 \* the absence of an identifier
  MAX_MODEL_ITERATIONS, MAX_TOOL_CALLS,
  MAX_TOKENS,           \* bound of a token limit and of each count of a ModelUsage
  MAX_COST_MICROUSD,    \* bound of a cost limit
  MAX_CALL_COST         \* cost of MAX_TOKENS in and MAX_TOKENS out at the highest rate

MAX_CUMULATIVE_TOKENS == 2 * MAX_TOKENS
MAX_CUMULATIVE_COST_MICROUSD == MAX_COST_MICROUSD + MAX_CALL_COST

EVIDENCE_VERSION == 2   \* RUN_EVENT_SCHEMA_VERSION_V2: Tool Events carry requests

Kinds == {"model", "tool"}
EventTypes == {"RunCreated", "RunStarted", "Requested", "Started",
               "Completed", "Failed", "RunSucceeded", "RunFailed"}
RunStatuses == {"absent", "queued", "running", "succeeded", "failed"}
ActivityStatuses == {"pending", "running", "succeeded", "failed"}

Usage == [input : Nat, output : Nat, cost : Nat]
Limits == [iterations : Nat, tokens : Nat, cost : Nat, wall : Nat, tools : Nat]

(***************************************************************************)
(* The payload models bound what a Run is created with (BudgetLimits), but *)
(* not the usage of a model call: an Event may carry any counts.           *)
(***************************************************************************)
ASSUME BoundsAssumption ==
  /\ MAX_MODEL_ITERATIONS \in Nat /\ MAX_TOOL_CALLS \in Nat
  /\ MAX_TOKENS \in Nat /\ MAX_COST_MICROUSD \in Nat /\ MAX_CALL_COST \in Nat
ASSUME InputAssumption ==
  /\ Times \subseteq Nat /\ Versions \subseteq Nat
  /\ LimitChoices \subseteq Limits
  /\ \A l \in LimitChoices : /\ l.iterations <= MAX_MODEL_ITERATIONS
                             /\ l.tools <= MAX_TOOL_CALLS
                             /\ l.tokens <= MAX_TOKENS
                             /\ l.cost <= MAX_COST_MICROUSD
  /\ Usages \subseteq Usage
ASSUME NoneAssumption ==
  None \notin RunIds \cup ActivityIds \cup CallIds \cup Requests

\* what a ModelUsage and its price may come to
Reportable(u) == u.input <= MAX_TOKENS /\ u.output <= MAX_TOKENS /\ u.cost <= MAX_CALL_COST

NoUsage == [input |-> 0, output |-> 0, cost |-> 0]
NoLimits == [iterations |-> 0, tokens |-> 0, cost |-> 0, wall |-> 0, tools |-> 0]
NoTime == -1

Event ==
  [run : RunIds, sequence : Nat, type : EventTypes, kind : Kinds \cup {"run"},
   activity : ActivityIds \cup {None}, call : CallIds \cup {None},
   request : Requests \cup {None}, version : Versions \cup {1},
   at : Nat \cup {NoTime}, usage : Usage, limits : Limits]

Blank(r, n, type, kind) ==
  [run |-> r, sequence |-> n, type |-> type, kind |-> kind, activity |-> None,
   call |-> None, request |-> None, version |-> 1, at |-> NoTime,
   usage |-> NoUsage, limits |-> NoLimits]

ActivityState ==
  [activity : ActivityIds, kind : Kinds, call : CallIds, status : ActivityStatuses]

BudgetUsage == [iterations : Nat, input : Nat, output : Nat, cost : Nat, tools : Nat]

RunState ==
  [run : RunIds \cup {None}, status : RunStatuses, limits : Limits,
   usage : BudgetUsage, activities : Seq(ActivityState),
   started_at : Nat \cup {NoTime}, last_sequence : Nat]

\* reduce_event's state argument before the first Event of a Run
NoRun ==
  [run |-> None, status |-> "absent", limits |-> NoLimits,
   usage |-> [iterations |-> 0, input |-> 0, output |-> 0, cost |-> 0, tools |-> 0],
   activities |-> << >>, started_at |-> NoTime, last_sequence |-> 0]

IsTerminal(s) == s.status \in {"succeeded", "failed"}
IsActive(a) == a.status \in {"pending", "running"}
HasActive(s) == \E i \in DOMAIN s.activities : IsActive(s.activities[i])
Tokens(u) == u.input + u.output
SameActivity(d, e) == d.activity = e.activity /\ d.kind = e.kind /\ d.call = e.call
Successors(status) ==
  CASE status = "pending" -> {"pending", "running"}
    [] status = "running" -> ActivityStatuses \ {"pending"}
    [] OTHER -> {status}

-----------------------------------------------------------------------------
(* What the payload models let an Event of each type carry *)

CreatedEvents(r, n) ==
  {[Blank(r, n, "RunCreated", "run") EXCEPT !.limits = l] : l \in LimitChoices}

StartedEvents(r, n) ==
  {[Blank(r, n, "RunStarted", "run") EXCEPT !.at = t] : t \in Times}

FinishedEvents(r, n) ==
  {Blank(r, n, type, "run") : type \in {"RunSucceeded", "RunFailed"}}

\* of the v1 and the later payloads, only the later ones carry a request
NoEvidence == [version |-> 1, request |-> None]
Evidence ==
  {x \in [version : Versions, request : Requests \cup {None}] :
     (x.request # None) = (x.version >= EVIDENCE_VERSION)}

RequestEvent(r, n, k, a, c, t, x) ==
  [Blank(r, n, "Requested", k) EXCEPT
     !.activity = a, !.call = c, !.at = t, !.version = x.version, !.request = x.request]
StartEvent(r, n, k, a, c) ==
  [Blank(r, n, "Started", k) EXCEPT !.activity = a, !.call = c]
ResultEvent(r, n, type, k, a, c, x, u) ==
  [Blank(r, n, type, k) EXCEPT
     !.activity = a, !.call = c, !.version = x.version, !.request = x.request, !.usage = u]

ModelRequests(r, n) ==
  {RequestEvent(r, n, "model", a, c, t, NoEvidence) :
     a \in ActivityIds, c \in CallIds, t \in Times}
ToolRequests(r, n) ==
  {RequestEvent(r, n, "tool", a, c, t, x) :
     a \in ActivityIds, c \in CallIds, t \in Times, x \in Evidence}
ActivityStarts(r, n) ==
  {StartEvent(r, n, k, a, c) : k \in Kinds, a \in ActivityIds, c \in CallIds}
ModelResults(r, n) ==
  {ResultEvent(r, n, type, "model", a, c, NoEvidence, u) :
     type \in {"Completed", "Failed"}, a \in ActivityIds, c \in CallIds, u \in Usages}
ToolResults(r, n) ==
  {ResultEvent(r, n, type, "tool", a, c, x, NoUsage) :
     type \in {"Completed", "Failed"}, a \in ActivityIds, c \in CallIds, x \in Evidence}

Payloads(r, n) ==
  CreatedEvents(r, n) \cup StartedEvents(r, n) \cup FinishedEvents(r, n)
  \cup ModelRequests(r, n) \cup ToolRequests(r, n) \cup ActivityStarts(r, n)
  \cup ModelResults(r, n) \cup ToolResults(r, n)

\* parse_run_event_payload: the model of the type and version accepts the payload
Parses(e) == e \in Payloads(e.run, e.sequence)

-----------------------------------------------------------------------------
(* runtime/budgets.py *)

\* A check before started_at raises instead of answering.
BudgetCheckable(s, at) == s.status = "running" /\ at >= s.started_at

\* mutant: the request about to be made is not counted
BudgetExhausted_ForgetsRequest(s, kind, at) ==
  \/ kind = "model" /\ s.usage.iterations > s.limits.iterations
  \/ kind = "tool" /\ s.usage.tools > s.limits.tools
  \/ Tokens(s.usage) >= s.limits.tokens
  \/ s.usage.cost >= s.limits.cost
  \/ at - s.started_at >= s.limits.wall

BudgetExhausted(s, kind, at) ==
  \/ kind = "model" /\ s.usage.iterations + 1 > s.limits.iterations
  \/ kind = "tool" /\ s.usage.tools + 1 > s.limits.tools
  \/ Tokens(s.usage) >= s.limits.tokens
  \/ s.usage.cost >= s.limits.cost
  \/ at - s.started_at >= s.limits.wall

-----------------------------------------------------------------------------
(* What RunState and BudgetUsage validate after every change *)

UsageInBounds(u) ==
  /\ u.iterations <= MAX_MODEL_ITERATIONS
  /\ u.input <= MAX_CUMULATIVE_TOKENS
  /\ u.output <= MAX_CUMULATIVE_TOKENS
  /\ u.cost <= MAX_CUMULATIVE_COST_MICROUSD
  /\ u.tools <= MAX_TOOL_CALLS

ConsistentProjection(s) ==
  /\ \A i, j \in DOMAIN s.activities :
       i # j => /\ ~ (IsActive(s.activities[i]) /\ IsActive(s.activities[j]))
                /\ s.activities[i].activity # s.activities[j].activity
                /\ s.activities[i].kind = s.activities[j].kind
                     => s.activities[i].call # s.activities[j].call
  /\ s.status = "queued" => s.activities = << >> /\ s.started_at = NoTime
  /\ s.status # "queued" => s.started_at # NoTime
  /\ IsTerminal(s) => ~ HasActive(s)

-----------------------------------------------------------------------------
(* The guards of reduce_event, one per Event type *)

\* run_id and sequence: lines common to every Event of an existing Run
Addressed(s, e) ==
  /\ s.status # "absent" => e.run = s.run
  /\ e.sequence = s.last_sequence + 1

RequestReady(s) == s.status = "running" /\ ~ HasActive(s)

\* mutant: call ids are not compared
UniqueIds_ActivitiesOnly(s, e) ==
  \A i \in DOMAIN s.activities : s.activities[i].activity # e.activity

UniqueIds(s, e) ==
  \A i \in DOMAIN s.activities :
    /\ s.activities[i].activity # e.activity
    /\ s.activities[i].kind = e.kind => s.activities[i].call # e.call

RequestGuard(s, e) ==
  /\ RequestReady(s)
  /\ UniqueIds(s, e)
  /\ BudgetCheckable(s, e.at)
  /\ ~ BudgetExhausted(s, e.kind, e.at)

\* mutant: the status of the Activity is not required
MatchingActivity_AnyStatus(s, e, required) ==
  \E i \in DOMAIN s.activities :
    /\ s.activities[i].activity = e.activity /\ s.activities[i].kind = e.kind
    /\ s.activities[i].call = e.call

\* the first Activity with that identifier has the kind, status and call named
MatchingActivity(s, e, required) ==
  \E i \in DOMAIN s.activities :
    /\ s.activities[i] = [activity |-> e.activity, kind |-> e.kind,
                          call |-> e.call, status |-> required]
    /\ \A j \in 1 .. (i - 1) : s.activities[j].activity # e.activity

Guard(s, e) ==
  \/ e.type = "RunCreated" /\ s.status = "absent"
  \/ e.type = "RunStarted" /\ s.status = "queued"
  \/ e.type = "Requested" /\ RequestGuard(s, e)
  \/ e.type = "Started" /\ MatchingActivity(s, e, "pending")
  \/ e.type \in {"Completed", "Failed"} /\ MatchingActivity(s, e, "running")
  \/ e.type \in {"RunSucceeded", "RunFailed"} /\ RequestReady(s)

-----------------------------------------------------------------------------
(* The states reduce_event returns *)

Counted(u, kind) ==
  IF kind = "model" THEN [u EXCEPT !.iterations = @ + 1] ELSE [u EXCEPT !.tools = @ + 1]

\* mutant: usage replaces what was recorded before
ModelUsage_Replaces(u, reported) ==
  [u EXCEPT !.input = reported.input, !.output = reported.output, !.cost = reported.cost]
ModelUsage(u, reported) ==
  [u EXCEPT !.input = @ + reported.input, !.output = @ + reported.output,
            !.cost = @ + reported.cost]

Created(e) ==
  [NoRun EXCEPT !.run = e.run, !.status = "queued", !.limits = e.limits,
                !.last_sequence = e.sequence]

WithActivity(s, e, status) ==
  [s EXCEPT !.last_sequence = e.sequence,
            !.activities = [i \in DOMAIN s.activities |->
               IF s.activities[i].activity = e.activity
               THEN [s.activities[i] EXCEPT !.status = status]
               ELSE s.activities[i]]]

WithRequested(s, e) ==
  [s EXCEPT !.last_sequence = e.sequence,
            !.usage = Counted(s.usage, e.kind),
            !.activities = Append(s.activities,
               [activity |-> e.activity, kind |-> e.kind, call |-> e.call,
                status |-> "pending"])]

\* only model Activities report usage; a Tool's terminal Event carries NoUsage
WithTerminal(s, e, status) ==
  [WithActivity(s, e, status) EXCEPT !.usage = ModelUsage(s.usage, e.usage)]

WithStatus(s, e, status) ==
  [s EXCEPT !.last_sequence = e.sequence, !.status = status]

Reduced(s, e) ==
  CASE e.type = "RunCreated"   -> Created(e)
    [] e.type = "RunStarted"   -> [WithStatus(s, e, "running") EXCEPT !.started_at = e.at]
    [] e.type = "Requested"    -> WithRequested(s, e)
    [] e.type = "Started"      -> WithActivity(s, e, "running")
    [] e.type = "Completed"    -> WithTerminal(s, e, "succeeded")
    [] e.type = "Failed"       -> WithTerminal(s, e, "failed")
    [] e.type = "RunSucceeded" -> WithStatus(s, e, "succeeded")
    [] e.type = "RunFailed"    -> WithStatus(s, e, "failed")

\* RunState.model_validate after the change
Valid(s) == UsageInBounds(s.usage) /\ ConsistentProjection(s)

\* reduce_event(s, e) returns a state for an Event that Parses; otherwise it raises
Reducible(s, e) ==
  /\ Addressed(s, e)
  /\ ~ IsTerminal(s)
  /\ Guard(s, e)
  /\ Valid(Reduced(s, e))

-----------------------------------------------------------------------------
(* mutant: the request that is found is not compared with the one answered *)
HistoryValid_AnyRequest(history, e) ==
  e.type \in {"Completed", "Failed"} /\ e.kind = "tool" /\ e.version >= EVIDENCE_VERSION
  => /\ Len(history) >= 2
     /\ history[Len(history) - 1].type = "Requested"
     /\ history[Len(history) - 1].version = e.version

(* validate_event_history: a Tool terminal Event that carries evidence must
   find its request two Events earlier in the history. *)
HistoryValid(history, e) ==
  e.type \in {"Completed", "Failed"} /\ e.kind = "tool" /\ e.version >= EVIDENCE_VERSION
  => /\ Len(history) >= 2
     /\ LET requested == history[Len(history) - 1]
        IN  /\ requested.type = "Requested" /\ requested.kind = "tool"
            /\ requested.version = e.version
            /\ requested.request = e.request /\ requested.call = e.call
==============================================================================
