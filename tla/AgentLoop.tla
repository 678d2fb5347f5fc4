------------------------------- MODULE AgentLoop -------------------------------
(***************************************************************************)
(* One call of AgentLoop.run (application/agent_loop.py): it drives a Run  *)
(* from RunCreated to a terminal Event, one external call at a time, and   *)
(* awaits between any two steps.  The store is the reducer's stream of     *)
(* committed Events (`state`, `log`; EventStore shows that it behaves so), *)
(* the model provider and the Tools answer in any way their ports allow,   *)
(* the wall clock moves on between any two readings, and at every await    *)
(* the store may fail, the task may be cancelled, the process may die.     *)
(***************************************************************************)
EXTENDS RunEvents, FiniteSets

CONSTANTS
  MaxEvents,               \* bound of RunReducer; no Run has more Events than this
  MaxCalls,                \* bound: Tool calls in one model response
  MAX_EVENT_QUERY_LIMIT,
  ClockMayStepBack         \* whether the wall clock can be set back during a Run
RUN_EVENT_SCHEMA_VERSION == 4   \* of the Events it writes
ASSUME LoopAssumption ==
  /\ RunIds # {}
  /\ MaxEvents \in Nat /\ MaxCalls \in Nat /\ MAX_EVENT_QUERY_LIMIT \in Nat
  /\ MaxEvents >= 3 + 3 * (MAX_MODEL_ITERATIONS + MAX_TOOL_CALLS)
  /\ ClockMayStepBack \in BOOLEAN
  /\ NoUsage \in Usages
  /\ RUN_EVENT_SCHEMA_VERSION \in Versions

VARIABLES
  state, log,     \* the committed projection and Events of this Run
  clock,
  pc,             \* where run() is; "append": it awaits store.append(pending)
  known,          \* its local `state`, what the last append returned
  pending,        \* the Event it built and is appending
  resume,         \* where run() goes on once that Event is committed
  current,        \* the open Activity: its id, call id and ToolRequest
  reply,          \* the answer it is handling: of the model or of a Tool
  queue,          \* ToolCallParts of the response not handled yet
  turns,          \* the Tool calls of each completed response so far
  shown,          \* Tool calls in context.request
  artifacts,      \* Activities whose Artifacts run() will return
  calls,          \* external calls made (history)
  why             \* what run() raised, if it did

store == <<state, log>>
local == <<known, current, reply, queue, turns, shown, artifacts>>
vars == <<store, clock, pc, local, pending, resume, calls, why>>

Ended == {"returned", "raised", "dead"}
NoEvent == [type |-> "none"]
NoActivity == [activity |-> None, call |-> None, request |-> None]
NoReply == [finish |-> "none", usage |-> NoUsage]

ToolFinishes == {"artifact", "data", "garbled", "failed", "oversized"}

-----------------------------------------------------------------------------
Init ==
  /\ state = NoRun /\ log = << >> /\ clock \in Times
  /\ pc = "create" /\ known = NoRun
  /\ pending = NoEvent /\ resume = "none"
  /\ current = NoActivity /\ reply = NoReply
  /\ queue = << >> /\ turns = << >> /\ shown = {} /\ artifacts = {}
  /\ calls = << >> /\ why = "none"

Tick ==
  /\ pc \notin Ended
  /\ \E t \in Times : t # clock /\ (t > clock \/ ClockMayStepBack) /\ clock' = t
  /\ UNCHANGED <<store, pc, local, pending, resume, calls, why>>

Goto(label) == pc' = label
Raise(reason) == pc' = "raised" /\ why' = reason

\* _build_event: the next sequence of the projection it knows, the clock as it
\* is now; then the await of EventStore.append
Build(e, next) ==
  /\ pending' = [e EXCEPT !.sequence = known.last_sequence + 1]
  /\ resume' = next
  /\ pc' = "append"
  /\ UNCHANGED <<store, clock, known, calls, why>>

TheRun == CHOOSE r \in RunIds : TRUE
RunEvent(type) == Blank(TheRun, 0, type, "run")
ActivityEvent(type, kind) ==
  [Blank(TheRun, 0, type, kind) EXCEPT !.activity = current.activity, !.call = current.call]
\* from version 2 on, a Tool's request and its result carry the ToolRequest
WithEvidence(e) ==
  [e EXCEPT !.version = RUN_EVENT_SCHEMA_VERSION, !.request = current.request]

\* IdGenerator.new: a uuid4, so one that no Activity has; which one it is makes no
\* difference to anything else
NewActivities == ActivityIds \ {known.activities[i].activity : i \in DOMAIN known.activities}
NewModelCalls ==
  CallIds \ {known.activities[i].call : i \in {j \in DOMAIN known.activities :
                                                known.activities[j].kind = "model"}}
New(identities) == CHOOSE id \in identities : TRUE

\* mutant: the store does not ask the reducer
Commits_Unreduced(e) ==
  /\ state' = Reduced(state, e)
  /\ log' = Append(log, e)

Commits(e) ==
  /\ HistoryValid(log, e) /\ Reducible(state, e)
  /\ state' = Reduced(state, e)
  /\ log' = Append(log, e)
Refuses(e) == ~ (HistoryValid(log, e) /\ Reducible(state, e))

-----------------------------------------------------------------------------
(* EventStore.append and the failures of an await *)

\* mutant: what append returns is dropped
Appended_ForgetsState ==
  /\ pc = "append"
  /\ Commits(pending)
  /\ Goto(resume)
  /\ pending' = NoEvent /\ resume' = "none"
  /\ UNCHANGED <<clock, local, calls, why>>

Appended ==
  /\ pc = "append"
  /\ Commits(pending)
  /\ known' = state'
  /\ Goto(resume)
  /\ pending' = NoEvent /\ resume' = "none"
  /\ UNCHANGED <<clock, current, reply, queue, turns, shown, artifacts, calls, why>>

\* RunReducerError passes through run()
Rejected ==
  /\ pc = "append"
  /\ Refuses(pending)
  /\ Raise("rejected")
  /\ UNCHANGED <<store, clock, local, pending, resume, calls>>

\* EventStoreError passes through run()
StoreFails ==
  /\ pc \in {"append", "context"}
  /\ Raise("store")
  /\ UNCHANGED <<store, clock, local, pending, resume, calls>>

Awaiting == pc \in {"append", "context", "answer", "execute"}

\* CancelledError or death at an await: the worker thread that has the Event
\* may still commit it
Interrupted(label, reason) ==
  /\ pc' = label /\ why' = reason
  /\ UNCHANGED <<clock, local, pending, resume, calls>>
  /\ \/ UNCHANGED store
     \/ pc = "append" /\ Commits(pending)

Cancel == Awaiting /\ Interrupted("raised", "cancelled")
Crash == pc \notin Ended /\ Interrupted("dead", "none")

-----------------------------------------------------------------------------
(* The Run *)

CreateRun ==
  /\ pc = "create"
  /\ \E l \in LimitChoices : Build([RunEvent("RunCreated") EXCEPT !.limits = l], "start")
  /\ UNCHANGED <<current, reply, queue, turns, shown, artifacts>>

StartRun ==
  /\ pc = "start"
  /\ Build([RunEvent("RunStarted") EXCEPT !.at = clock], "check_model")
  /\ UNCHANGED <<current, reply, queue, turns, shown, artifacts>>

\* mutant: run() returns although RunFailed is not committed
FailRun_Unrecorded ==
  /\ pc = "fail_run"
  /\ Goto("returned")
  /\ UNCHANGED <<store, clock, local, pending, resume, calls, why>>

FailRun ==
  /\ pc = "fail_run"
  /\ Build(RunEvent("RunFailed"), "returned")
  /\ UNCHANGED <<current, reply, queue, turns, shown, artifacts>>

SucceedRun ==
  /\ pc = "succeed"
  /\ Build(RunEvent("RunSucceeded"), "returned")
  /\ UNCHANGED <<current, reply, queue, turns, shown, artifacts>>

\* mutant: an exhausted budget is waited for
CheckBudget_Waits(kind, next) ==
  /\ IF ~ BudgetCheckable(known, clock) THEN Raise("clock")
     ELSE /\ Goto(IF BudgetExhausted(known, kind, clock) THEN pc ELSE next)
          /\ UNCHANGED why
  /\ UNCHANGED <<store, clock, local, pending, resume, calls>>

\* check_activity_budget, which raises when the clock precedes started_at
CheckBudget(kind, next) ==
  /\ IF ~ BudgetCheckable(known, clock) THEN Raise("clock")
     ELSE /\ Goto(IF BudgetExhausted(known, kind, clock) THEN "fail_run" ELSE next)
          /\ UNCHANGED why
  /\ UNCHANGED <<store, clock, local, pending, resume, calls>>

-----------------------------------------------------------------------------
(* Model Activities *)

CheckModel == pc = "check_model" /\ CheckBudget("model", "context")

\* _events_for and ContextBuilder.build: the oldest complete interactions are
\* left out until the context fits, but never the latest one; what is left may
\* still be too large, for the context or for the Event that records it
BuildContext ==
  /\ pc = "context"
  /\ \/ /\ Len(log) <= MAX_EVENT_QUERY_LIMIT
        /\ \E first \in 1 .. (IF turns = << >> THEN 1 ELSE Len(turns)) :
             shown' = UNION {turns[i] : i \in first .. Len(turns)}
        /\ NewActivities # {} /\ NewModelCalls # {}
        /\ current' = [activity |-> New(NewActivities), call |-> New(NewModelCalls), request |-> None]
        /\ Goto("request_model")
     \/ Goto("fail_run") /\ UNCHANGED <<shown, current>>
  /\ UNCHANGED <<store, clock, known, reply, queue, turns, artifacts, pending, resume, calls, why>>

RequestModel ==
  /\ pc = "request_model"
  /\ Build([ActivityEvent("Requested", "model") EXCEPT !.at = clock], "begin_model")
  /\ UNCHANGED <<current, reply, queue, turns, shown, artifacts>>

\* mutant: the provider is called before Started is committed
BeginModel_Unannounced ==
  /\ pc = "begin_model"
  /\ Goto("call_model")
  /\ UNCHANGED <<store, clock, local, pending, resume, calls, why>>

BeginModel ==
  /\ pc = "begin_model"
  /\ Build(ActivityEvent("Started", "model"), "call_model")
  /\ UNCHANGED <<current, reply, queue, turns, shown, artifacts>>

CallModel ==
  /\ pc = "call_model"
  /\ calls' = Append(calls, [kind |-> "model", activity |-> current.activity])
  /\ Goto("answer")
  /\ UNCHANGED <<store, clock, local, pending, resume, why>>

\* a completed stream reports a ModelUsage, which is priced
Reported == {u \in Usages : Reportable(u)}

\* the collected response: text, or Tool calls with distinct ids
Responses == UNION {[1 .. n -> CallIds] : n \in 0 .. MaxCalls}
Distinct(s) == \A i, j \in DOMAIN s : s[i] = s[j] => i = j
IdsIn(s) == {s[i] : i \in DOMAIN s}

\* mutant: Tool call identities are not compared with the context
AnswerModel_ReusesCalls ==
  /\ pc = "answer"
  /\ \E u \in Reported, s \in Responses :
       /\ Distinct(s)
       /\ reply' = [finish |-> IF s = << >> THEN "stop" ELSE "tool_calls", usage |-> u]
       /\ queue' = s
  /\ Goto("complete_model")
  /\ UNCHANGED <<store, clock, known, current, turns, shown, artifacts, pending, resume, calls, why>>

\* A response that reuses a Tool call of its context is a failed call; so is
\* one without usage, and any error or timeout of the stream.
AnswerModel ==
  /\ pc = "answer"
  /\ \/ \E u \in Reported, s \in Responses :
          /\ Distinct(s) /\ IdsIn(s) \cap shown = {}
          /\ reply' = [finish |-> IF s = << >> THEN "stop" ELSE "tool_calls", usage |-> u]
          /\ queue' = s
          /\ Goto("complete_model")
     \/ /\ reply' = [finish |-> "failed", usage |-> NoUsage]
        /\ queue' = << >>
        /\ Goto("fail_model")
  /\ UNCHANGED <<store, clock, known, current, turns, shown, artifacts, pending, resume, calls, why>>

\* a completion too large for its Event is recorded as a failure with its usage
CompleteModel ==
  /\ pc = "complete_model"
  /\ \/ /\ Build([ActivityEvent("Completed", "model") EXCEPT !.usage = reply.usage],
                 IF reply.finish = "stop" THEN "succeed" ELSE "next_tool")
        /\ turns' = IF reply.finish = "stop" THEN turns ELSE Append(turns, IdsIn(queue))
     \/ /\ Goto("fail_model")
        /\ UNCHANGED <<store, clock, known, turns, pending, resume, calls, why>>
  /\ UNCHANGED <<current, reply, queue, shown, artifacts>>

FailModel ==
  /\ pc = "fail_model"
  /\ Build([ActivityEvent("Failed", "model") EXCEPT !.usage = reply.usage], "fail_run")
  /\ UNCHANGED <<current, reply, queue, turns, shown, artifacts>>

-----------------------------------------------------------------------------
(* Tool Activities: the ToolCallParts of the response in order *)

NextTool ==
  /\ pc = "next_tool"
  /\ IF queue = << >>
     THEN Goto("check_model") /\ UNCHANGED <<store, clock, local, pending, resume, calls, why>>
     ELSE CheckBudget("tool", "request_tool")

RequestTool ==
  /\ pc = "request_tool"
  /\ NewActivities # {}
  /\ \E q \in Requests :
       current' = [activity |-> New(NewActivities), call |-> Head(queue), request |-> q]
  /\ queue' = Tail(queue)
  /\ LET e == [Blank(TheRun, 0, "Requested", "tool") EXCEPT
                 !.activity = current'.activity, !.call = current'.call, !.at = clock,
                 !.version = RUN_EVENT_SCHEMA_VERSION, !.request = current'.request]
     IN  Build(e, "begin_tool")
  /\ UNCHANGED <<reply, turns, shown, artifacts>>

\* mutant: a result is recorded for a Tool that was not executed
BeginTool_SkipsCall ==
  /\ pc = "begin_tool"
  /\ Build(ActivityEvent("Started", "tool"), "finish_tool")
  /\ UNCHANGED <<current, reply, queue, turns, shown, artifacts>>

BeginTool ==
  /\ pc = "begin_tool"
  /\ Build(ActivityEvent("Started", "tool"), "call_tool")
  /\ UNCHANGED <<current, reply, queue, turns, shown, artifacts>>

CallTool ==
  /\ pc = "call_tool"
  /\ calls' = Append(calls, [kind |-> "tool", activity |-> current.activity])
  /\ Goto("execute")
  /\ UNCHANGED <<store, clock, local, pending, resume, why>>

\* execute_recorded returns a record in every case: the Tool succeeded with an
\* Artifact, other data or a malformed Artifact, or failed; and the record may
\* be too large for its Event
ExecuteTool ==
  /\ pc = "execute"
  /\ \E finish \in ToolFinishes : reply' = [finish |-> finish, usage |-> NoUsage]
  /\ Goto("finish_tool")
  /\ UNCHANGED <<store, clock, known, current, queue, turns, shown, artifacts, pending, resume, calls, why>>

FinishTool ==
  /\ pc = "finish_tool"
  /\ LET type == IF reply.finish \in {"failed", "oversized"} THEN "Failed" ELSE "Completed"
     IN  Build(WithEvidence(ActivityEvent(type, "tool")),
               IF reply.finish = "oversized" THEN "fail_run" ELSE "recover_artifact")
  /\ UNCHANGED <<current, reply, queue, turns, shown, artifacts>>

\* artifact_from_tool_result_data, once the result is committed
RecoverArtifact ==
  /\ pc = "recover_artifact"
  /\ Goto(IF reply.finish = "garbled" THEN "fail_run" ELSE "next_tool")
  /\ artifacts' = IF reply.finish = "artifact" THEN artifacts \cup {current.activity} ELSE artifacts
  /\ UNCHANGED <<store, clock, known, current, reply, queue, turns, shown, pending, resume, calls, why>>

-----------------------------------------------------------------------------
Step ==
  \/ CreateRun \/ StartRun \/ FailRun \/ SucceedRun
  \/ CheckModel \/ BuildContext \/ RequestModel \/ BeginModel \/ CallModel \/ AnswerModel
  \/ CompleteModel \/ FailModel
  \/ NextTool \/ RequestTool \/ BeginTool \/ CallTool \/ ExecuteTool \/ FinishTool
  \/ RecoverArtifact
  \/ Appended \/ Rejected

Done == pc \in Ended /\ UNCHANGED vars
Next == Step \/ Tick \/ StoreFails \/ Cancel \/ Crash \/ Done

Spec == Init /\ [][Next]_vars

\* Every await of run() ends: the provider and the Tools run under
\* asyncio.timeout, the store under busy_timeout.
FairSpec == Spec /\ WF_vars(Step)

-----------------------------------------------------------------------------
(* Properties *)

\* Type correctness of the Run and of run()'s local state.
TypeOK ==
  /\ state \in RunState /\ log \in Seq(Event) /\ known \in RunState
  /\ clock \in Times
  /\ pending \in Event \cup {NoEvent}
  /\ current \in [activity : ActivityIds \cup {None}, call : CallIds \cup {None},
                  request : Requests \cup {None}]
  /\ reply \in [finish : {"none", "stop", "tool_calls", "failed"} \cup ToolFinishes, usage : Reported]
  /\ queue \in Seq(CallIds) /\ turns \in Seq(SUBSET CallIds) /\ shown \subseteq CallIds
  /\ artifacts \subseteq ActivityIds
  /\ calls \in Seq([kind : Kinds, activity : ActivityIds])
  /\ why \in {"none", "rejected", "store", "cancelled", "clock"}

\* While run() is running, the state it decides on is the committed one: no
\* append it has not heard of is in the Run.
KnowsItsRun == pc \notin Ended => known = state

Logged(type, call) ==
  \E i \in DOMAIN log : log[i].type = type /\ log[i].activity = call.activity

\* External calls stay within the limits of the Run.
CallsWithinLimits ==
  LET made(kind) == Cardinality({i \in DOMAIN calls : calls[i].kind = kind})
  IN  made("model") <= state.limits.iterations /\ made("tool") <= state.limits.tools

\* The Artifacts that run() collects are those of committed results.
ArtifactsAreCommitted ==
  \A a \in artifacts : Logged("Completed", [activity |-> a])

\* What run() holds in memory is what is committed, and what it did outside is
\* what the committed limits allow, whatever failed or was cancelled before.
LoopInvariant == TypeOK /\ KnowsItsRun /\ CallsWithinLimits /\ ArtifactsAreCommitted

\* No external call without a committed Started, and none twice: whatever
\* fails or is cancelled, and wherever the process dies, the stream tells which
\* calls may have happened.
CallsAreAnnounced ==
  \A i, j \in DOMAIN calls :
    /\ Logged("Started", calls[i])
    /\ calls[i].activity = calls[j].activity => i = j

\* No result without a call: every committed result is that of an external call
\* that was really made, and every earlier Activity has its result before the
\* next call is made.
ResultsAreReal ==
  /\ \A i \in DOMAIN log : log[i].type \in {"Completed", "Failed"} =>
       \E j \in DOMAIN calls : calls[j] = [kind |-> log[i].kind, activity |-> log[i].activity]
  /\ \A j \in 1 .. (Len(calls) - 1) : Logged("Completed", calls[j]) \/ Logged("Failed", calls[j])

\* run() returns only a Run that is committed as terminal, and the state it
\* returns is the committed one.
ReturnsTerminal == pc = "returned" => IsTerminal(state) /\ known = state

\* The reducer never refuses what run() has to report: of all the Events it
\* builds only a request can be refused, and only because the clock moved past
\* the wall time, or behind started_at, after the budget was checked, or because
\* the provider repeats a Tool call of an earlier response that the context left out.
OnlyRequestsRefused ==
  why = "rejected" =>
    /\ pending.type = "Requested"
    /\ \/ pending.at - state.started_at >= state.limits.wall
       \/ pending.at < state.started_at
       \/ pending.kind = "tool" /\ \E i \in 1 .. (Len(turns) - 1) : pending.call \in turns[i] \ shown

\* The Run's stream is a behaviour of the reducer: a step is an Event the reducer
\* takes, the next of the stream, and Offer is RunReducer's Next for that one.
Reducer == INSTANCE RunReducer
ImplementsReducer ==
  Reducer!Init /\ [][Len(log') <= MaxEvents /\ Reducer!Offer(TheRun, Len(log'))]_<<state, log>>

\* run() ends: budgets bound the loop, whatever provider and Tools answer.
Terminates == <>(pc \in Ended)

\* F-0016 AC-3: whenever a budget dimension blocks the next Activity, run()
\* commits a RunFailed before any external call.
BudgetStopCommitsRunFailed ==
  why = "rejected" /\ pending.at >= state.started_at
    /\ BudgetExhausted(state, pending.kind, pending.at) => state.status = "failed"
==============================================================================
