--------------------------- MODULE AgentLoopProofs ---------------------------
(***************************************************************************)
(* Proofs about AgentLoop for every value of the constants: however many   *)
(* calls the budgets allow, whatever provider, Tools and clock do, and at  *)
(* whichever await the store fails, the task is cancelled or the process   *)
(* dies.                                                                   *)
(***************************************************************************)
EXTENDS AgentLoop, ReducerLemmas

-----------------------------------------------------------------------------
(* Where run() is *)

IdleLabels == {"check_model", "context", "request_model", "succeed", "fail_run",
               "next_tool", "request_tool", "recover_artifact"}
ModelUncalled == {"begin_model", "call_model"}
ModelCalled == {"answer", "complete_model", "fail_model"}
ToolUncalled == {"begin_tool", "call_tool"}
ToolCalled == {"execute", "finish_tool"}
ToolLabels == {"next_tool", "request_tool", "recover_artifact"} \cup ToolUncalled \cup ToolCalled
Labels == {"create", "start", "append"} \cup IdleLabels \cup ModelUncalled \cup ModelCalled
          \cup ToolUncalled \cup ToolCalled \cup Ended

\* the label at which run() built an Event
Origin(e) ==
  CASE e.type = "RunCreated" -> "create"
    [] e.type = "RunStarted" -> "start"
    [] e.type = "RunSucceeded" -> "succeed"
    [] e.type = "RunFailed" -> "fail_run"
    [] e.type = "Requested" -> IF e.kind = "model" THEN "request_model" ELSE "request_tool"
    [] e.type = "Started" -> IF e.kind = "model" THEN "begin_model" ELSE "begin_tool"
    [] e.type = "Completed" -> IF e.kind = "model" THEN "complete_model" ELSE "finish_tool"
    [] e.type = "Failed" -> IF e.kind = "model" THEN "fail_model" ELSE "finish_tool"

\* Until the pending Event is committed the Run is where it was when run() built
\* it; in memory run() is already where it will go on.
Phase == IF pc = "append" THEN Origin(pending) ELSE pc
Ahead == IF pc = "append" THEN resume ELSE pc

AsksTool == pc = "append" /\ pending.type = "Requested" /\ pending.kind = "tool"

-----------------------------------------------------------------------------
(* The inductive invariant *)

\* The Events run() builds, by the fields in which they differ.
Written(type, kind, a, c, q, v, t, u, l) ==
  [run |-> TheRun, sequence |-> state.last_sequence + 1, type |-> type, kind |-> kind,
   activity |-> a, call |-> c, request |-> q, version |-> v, at |-> t, usage |-> u,
   limits |-> l]
WrittenRun(type, t, l) == Written(type, "run", None, None, None, 1, t, NoUsage, l)
WrittenModel(type, t, u) ==
  Written(type, "model", current.activity, current.call, None, 1, t, u, NoLimits)
WrittenTool(type, q, v, t) ==
  Written(type, "tool", current.activity, current.call, q, v, t, NoUsage, NoLimits)

\* The Event that is being appended, by where run() goes on after it.
PendingFits ==
  \/ /\ resume = "start"
     /\ \E l \in LimitChoices : pending = WrittenRun("RunCreated", NoTime, l)
  \/ /\ resume = "check_model"
     /\ \E t \in Times : pending = WrittenRun("RunStarted", t, NoLimits)
  \/ /\ resume = "returned"
     /\ \E type \in {"RunSucceeded", "RunFailed"} : pending = WrittenRun(type, NoTime, NoLimits)
  \/ /\ resume = "begin_model"
     /\ \E t \in Times : pending = WrittenModel("Requested", t, NoUsage)
  \/ /\ resume = "begin_tool"
     /\ \E t \in Times : pending =
          WrittenTool("Requested", current.request, RUN_EVENT_SCHEMA_VERSION, t)
  \/ resume = "call_model" /\ pending = WrittenModel("Started", NoTime, NoUsage)
  \/ resume = "call_tool" /\ pending = WrittenTool("Started", None, 1, NoTime)
  \/ /\ resume \in {"succeed", "next_tool"}
     /\ pending = WrittenModel("Completed", NoTime, reply.usage)
  \/ resume = "fail_run" /\ pending = WrittenModel("Failed", NoTime, reply.usage)
  \/ /\ resume \in {"recover_artifact", "fail_run"}
     /\ pending = WrittenTool(IF reply.finish \in {"failed", "oversized"}
                              THEN "Failed" ELSE "Completed",
                              current.request, RUN_EVENT_SCHEMA_VERSION, NoTime)

Mine(kind) == [activity |-> current.activity, kind |-> kind, call |-> current.call]

\* the request of the Tool that is open is the n-th Event
AskedAt(n) ==
  /\ n \in DOMAIN log /\ current.request \in Requests
  /\ log[n].version = RUN_EVENT_SCHEMA_VERSION /\ log[n].request = current.request

\* The committed Run at each label.
RunAt(l) ==
  /\ l = "create" => state = NoRun
  /\ l = "start" => state.status = "queued"
  /\ l \in IdleLabels => RequestReady(state)
  /\ l = "begin_model" => MatchingActivity(state, Mine("model"), "pending")
  /\ l \in {"call_model"} \cup ModelCalled => MatchingActivity(state, Mine("model"), "running")
  /\ l = "begin_tool" => /\ MatchingActivity(state, Mine("tool"), "pending")
                         /\ AskedAt(Len(log))
  /\ l \in {"call_tool"} \cup ToolCalled => /\ MatchingActivity(state, Mine("tool"), "running")
                                            /\ AskedAt(Len(log) - 1)
  /\ l = "returned" => IsTerminal(state)

Resulted(call) == Logged("Completed", call) \/ Logged("Failed", call)
CallsOf(kind) == {i \in DOMAIN calls : calls[i].kind = kind}
Used(kind) == IF kind = "model" THEN state.usage.iterations ELSE state.usage.tools
ThisCall(kind) == [kind |-> kind, activity |-> current.activity]
Uncalled(kind) ==
  /\ \A i \in DOMAIN calls : calls[i].activity # current.activity
  /\ Cardinality(CallsOf(kind)) + 1 <= Used(kind)

\* The external calls at each label: at most the last one has no result yet.
CallsAt(l) ==
  /\ l \in ModelUncalled => Uncalled("model")
  /\ l \in ToolUncalled => Uncalled("tool")
  /\ l \in ModelCalled => calls # << >> /\ calls[Len(calls)] = ThisCall("model")
  /\ l \in ToolCalled => calls # << >> /\ calls[Len(calls)] = ThisCall("tool")
  /\ l \notin ModelCalled \cup ToolCalled => \A i \in DOMAIN calls : Resulted(calls[i])

\* What the check of a budget established for the request that follows; the wall
\* time alone can change before it is committed.
RoomFor(kind) ==
  /\ kind = "model" => state.usage.iterations + 1 <= state.limits.iterations
  /\ kind = "tool" => state.usage.tools + 1 <= state.limits.tools
  /\ Tokens(state.usage) < state.limits.tokens
  /\ state.usage.cost < state.limits.cost

\* The identities that the next request will name are those of no Activity.
FreshActivity == current.activity \in NewActivities
RequestAt(l) ==
  /\ l \in {"context", "request_model"} => RoomFor("model")
  /\ l = "request_tool" => RoomFor("tool")
  /\ l = "request_model" => FreshActivity /\ current.call \in NewModelCalls /\ current.request = None
  /\ AsksTool => FreshActivity /\ current.call \in CallIds /\ current.request \in Requests

\* The Tool calls of the responses: those of the last one that are not asked for
\* yet are new, and were not in the context it answered.
Waiting == IdsIn(queue) \cup (IF AsksTool THEN {current.call} ELSE {})
TurnsKnown ==
  /\ pc = "complete_model" \/ Ahead \in ToolLabels => Distinct(queue) /\ IdsIn(queue) \cap shown = {}
  /\ Ahead \in ToolLabels =>
       turns # << >> /\ Waiting \subseteq turns[Len(turns)] /\ Waiting \cap shown = {}
  /\ pc = "request_tool" => queue # << >>
  /\ AsksTool => current.call \notin IdsIn(queue)
  /\ \A j \in DOMAIN state.activities : state.activities[j].kind = "tool" =>
       \E i \in DOMAIN turns :
         /\ state.activities[j].call \in turns[i]
         /\ i = Len(turns) /\ Ahead \in ToolLabels => state.activities[j].call \notin Waiting

\* An Artifact is returned only once its result is committed.
ArtifactAt(l) ==
  l = "recover_artifact" /\ reply.finish = "artifact" => Logged("Completed", current)

Live ==
  /\ known = state
  /\ pc = "append" => PendingFits
  /\ RunAt(Phase) /\ CallsAt(Phase) /\ RequestAt(Phase) /\ ArtifactAt(Phase)
  /\ TurnsKnown

\* What holds also after run() has ended, however it did.
History ==
  /\ state.status # "absent" => state.run = TheRun
  /\ CallsAreAnnounced /\ ResultsAreReal /\ ArtifactsAreCommitted
  /\ \A i \in DOMAIN calls : \E j \in DOMAIN state.activities :
       state.activities[j].activity = calls[i].activity
  /\ \A kind \in Kinds : Cardinality(CallsOf(kind)) <= Used(kind)

IInv ==
  /\ TypeOK /\ pc \in Labels
  /\ Sound(state, log)
  /\ History
  /\ OnlyRequestsRefused
  /\ pc \notin {"raised", "dead"} => why = "none" /\ Live

-----------------------------------------------------------------------------
(* The Events run() builds *)

\* There is a Run to drive.
LEMMA RunExists == TheRun \in RunIds
BY LoopAssumption DEF TheRun

\* What it is, where it was built and where run() goes on after it, by its type.
PendingIs ==
  /\ pending.run = TheRun /\ pending.sequence = state.last_sequence + 1
  /\ pending.type = "RunCreated" =>
       /\ resume = "start" /\ Phase = "create" /\ pending.limits \in LimitChoices
  /\ pending.type = "RunStarted" => resume = "check_model" /\ Phase = "start"
  /\ pending.type \in {"RunSucceeded", "RunFailed"} =>
       resume = "returned" /\ Phase \in {"succeed", "fail_run"}
  /\ pending.type \in {"Requested", "Started", "Completed", "Failed"} =>
       SameActivity(pending, Mine(pending.kind)) /\ pending.kind \in Kinds
  /\ pending.type = "Requested" /\ pending.kind = "model" =>
       resume = "begin_model" /\ Phase = "request_model" /\ ~ AsksTool
  /\ pending.type = "Requested" /\ pending.kind = "tool" =>
       /\ resume = "begin_tool" /\ Phase = "request_tool" /\ AsksTool
       /\ pending.version = RUN_EVENT_SCHEMA_VERSION /\ pending.request = current.request
  /\ pending.type = "Started" /\ pending.kind = "model" =>
       resume = "call_model" /\ Phase = "begin_model"
  /\ pending.type = "Started" /\ pending.kind = "tool" =>
       resume = "call_tool" /\ Phase = "begin_tool"
  /\ pending.type \in {"Completed", "Failed"} /\ pending.kind = "model" =>
       /\ resume \in {"succeed", "next_tool", "fail_run"}
       /\ Phase \in {"complete_model", "fail_model"}
       /\ resume = "next_tool" => Phase = "complete_model"
  /\ pending.type \in {"Completed", "Failed"} /\ pending.kind = "tool" =>
       /\ resume \in {"recover_artifact", "fail_run"} /\ Phase = "finish_tool"
       /\ pending.version = RUN_EVENT_SCHEMA_VERSION /\ pending.request = current.request
       /\ reply.finish = "artifact" => pending.type = "Completed"

\* What PendingFits says of the pending Event's fields.
LEMMA PendingFields ==
  ASSUME PendingFits, pc = "append"
  PROVE  PendingIs
<1> USE DEF Written, WrittenRun, WrittenModel, WrittenTool, PendingIs, Phase, Origin, AsksTool,
            SameActivity, Mine, Kinds
<1>1. CASE /\ resume = "start"
           /\ \E l \in LimitChoices : pending = WrittenRun("RunCreated", NoTime, l)
  BY <1>1
<1>2. CASE /\ resume = "check_model"
           /\ \E t \in Times : pending = WrittenRun("RunStarted", t, NoLimits)
  BY <1>2
<1>3. CASE /\ resume = "returned"
           /\ \E type \in {"RunSucceeded", "RunFailed"} :
                pending = WrittenRun(type, NoTime, NoLimits)
  BY <1>3
<1>4. CASE /\ resume = "begin_model"
           /\ \E t \in Times : pending = WrittenModel("Requested", t, NoUsage)
  BY <1>4
<1>5. CASE /\ resume = "begin_tool"
           /\ \E t \in Times : pending =
                WrittenTool("Requested", current.request, RUN_EVENT_SCHEMA_VERSION, t)
  BY <1>5
<1>6. CASE resume = "call_model" /\ pending = WrittenModel("Started", NoTime, NoUsage)
  BY <1>6
<1>7. CASE resume = "call_tool" /\ pending = WrittenTool("Started", None, 1, NoTime)
  BY <1>7
<1>8. CASE /\ resume \in {"succeed", "next_tool"}
           /\ pending = WrittenModel("Completed", NoTime, reply.usage)
  BY <1>8
<1>9. CASE resume = "fail_run" /\ pending = WrittenModel("Failed", NoTime, reply.usage)
  BY <1>9
<1>10. CASE /\ resume \in {"recover_artifact", "fail_run"}
            /\ pending = WrittenTool(IF reply.finish \in {"failed", "oversized"}
                                     THEN "Failed" ELSE "Completed",
                                     current.request, RUN_EVENT_SCHEMA_VERSION, NoTime)
  BY <1>10
<1>11. QED
  BY <1>1, <1>2, <1>3, <1>4, <1>5, <1>6, <1>7, <1>8, <1>9, <1>10 DEF PendingFits

\* The open Activity is one that was requested with identities.
LEMMA OpenIsNamed ==
  ASSUME state \in RunState, NEW kind, NEW status, MatchingActivity(state, Mine(kind), status)
  PROVE  /\ current.activity \in ActivityIds /\ current.call \in CallIds /\ kind \in Kinds
         /\ \E i \in DOMAIN state.activities :
              /\ state.activities[i].activity = current.activity
              /\ state.activities[i].kind = kind /\ state.activities[i].call = current.call
              /\ state.activities[i].status = status
<1>1. PICK i \in DOMAIN state.activities :
        state.activities[i] = [activity |-> current.activity, kind |-> kind,
                               call |-> current.call, status |-> status]
  BY DEF MatchingActivity, Mine
<1>2. state.activities[i] \in ActivityState
  BY DEF RunState
<1>3. QED
  BY <1>1, <1>2 DEF ActivityState

\* An Event that fits where run() is is one the payload models accept, and it
\* reports what a ModelUsage can hold.
LEMMA FittingIsWellFormed ==
  ASSUME PendingFits, pc = "append", state \in RunState, reply.usage \in Reported,
         current.request \in Requests \cup {None}, RunAt(Phase), RequestAt(Phase)
  PROVE  WellFormed(pending) /\ Reportable(pending.usage)
<1>2. PendingIs
  BY PendingFields
<1>3. state.last_sequence + 1 \in Nat /\ TheRun \in RunIds
  BY RunExists DEF RunState
<1>4. ASSUME pending.type \in {"Requested", "Started", "Completed", "Failed"}
      PROVE  current.activity \in ActivityIds /\ current.call \in CallIds
  <2>1. CASE pending.type = "Requested" /\ pending.kind = "model"
    BY <1>2, <2>1 DEF PendingIs, RequestAt, FreshActivity, NewActivities, NewModelCalls
  <2>2. CASE pending.type = "Requested" /\ pending.kind = "tool"
    BY <1>2, <2>2 DEF PendingIs, RequestAt, FreshActivity, NewActivities
  <2>3. CASE pending.type # "Requested"
    <3>1. \E kind, status : MatchingActivity(state, Mine(kind), status)
      BY <1>2, <1>4, <2>3 DEF PendingIs, RunAt, ModelCalled, ToolCalled, Kinds
    <3>2. QED
      BY <3>1, OpenIsNamed
  <2>4. QED
    BY <1>2, <1>4, <2>1, <2>2, <2>3 DEF PendingIs, Kinds
<1>5. pending.type = "Requested" /\ pending.kind = "tool" => current.request \in Requests
  BY <1>2 DEF PendingIs, RequestAt
<1>6. WellFormed(pending) /\ Reportable(pending.usage)
  <2>0. Reportable(NoUsage)
    BY BoundsAssumption DEF Reportable, NoUsage
  <2>00. reply.usage \in Usages /\ Reportable(reply.usage)
    BY DEF Reported
  <2> USE <1>3, InputAssumption, NoneAssumption
          DEF Written, WrittenRun, WrittenModel, WrittenTool, WellFormed, Event, EventTypes,
              Kinds, NoUsage, NoLimits, NoTime, Usage, Limits
  <2> DEFINE a == current.activity
             c == current.call
  <2>1. CASE \E l \in LimitChoices : pending = WrittenRun("RunCreated", NoTime, l)
    BY <2>0, <2>1
  <2>2. CASE \E t \in Times : pending = WrittenRun("RunStarted", t, NoLimits)
    BY <2>0, <2>2
  <2>3. CASE \E type \in {"RunSucceeded", "RunFailed"} :
               pending = WrittenRun(type, NoTime, NoLimits)
    BY <2>0, <2>3
  <2>4. CASE \E t \in Times : pending = WrittenModel("Requested", t, NoUsage)
    <3>1. a \in ActivityIds /\ c \in CallIds
      BY <1>4, <2>4
    <3>2. QED
      BY <2>0, <2>4, <3>1
  <2>5. CASE \E t \in Times : pending =
               WrittenTool("Requested", current.request, RUN_EVENT_SCHEMA_VERSION, t)
    <3>1. a \in ActivityIds /\ c \in CallIds
      BY <1>4, <2>5
    <3>2. QED
      BY <2>0, <2>5, <3>1, LoopAssumption
  <2>6. CASE pending = WrittenModel("Started", NoTime, NoUsage)
    <3>1. a \in ActivityIds /\ c \in CallIds
      BY <1>4, <2>6
    <3>2. QED
      BY <2>0, <2>6, <3>1
  <2>7. CASE pending = WrittenTool("Started", None, 1, NoTime)
    <3>1. a \in ActivityIds /\ c \in CallIds
      BY <1>4, <2>7
    <3>2. QED
      BY <2>0, <2>7, <3>1
  <2>8. CASE \E type \in {"Completed", "Failed"} : pending = WrittenModel(type, NoTime, reply.usage)
    <3>1. a \in ActivityIds /\ c \in CallIds
      BY <1>4, <2>8
    <3>2. reply.usage \in [input : Nat, output : Nat, cost : Nat]
      BY <2>00, InputAssumption DEF Usage
    <3>3. QED
      BY <2>8, <3>1, <3>2, <2>00
  <2>9. CASE \E type \in {"Completed", "Failed"} : pending =
               WrittenTool(type, current.request, RUN_EVENT_SCHEMA_VERSION, NoTime)
    <3>1. a \in ActivityIds /\ c \in CallIds
      BY <1>4, <2>9
    <3>2. QED
      BY <2>0, <2>9, <3>1, LoopAssumption
  <2> HIDE DEF Written, WrittenRun, WrittenModel, WrittenTool, WellFormed
  <2>10. QED
    BY <2>1, <2>2, <2>3, <2>4, <2>5, <2>6, <2>7, <2>8, <2>9 DEF PendingFits
<1>7. QED
  BY <1>6

\* An Event that run() appends is well formed and reports no excess.
LEMMA PendingWellFormed ==
  ASSUME IInv, pc = "append"
  PROVE  WellFormed(pending) /\ Reportable(pending.usage) /\ PendingIs /\ Live
<1>1. /\ Live /\ PendingFits /\ state \in RunState /\ reply.usage \in Reported
      /\ current.request \in Requests \cup {None}
  BY DEF IInv, Live, TypeOK
<1>2. RunAt(Phase) /\ RequestAt(Phase)
  BY <1>1 DEF Live
<1>3. QED
  BY <1>1, <1>2, FittingIsWellFormed, PendingFields

\* No usage is a ModelUsage.
LEMMA NoUsageReported == NoUsage \in Reported
<1>1. Reportable(NoUsage)
  BY BoundsAssumption DEF Reportable, NoUsage
<1>2. QED
  BY <1>1, LoopAssumption DEF Reported

-----------------------------------------------------------------------------
(* What a commit leaves of the past *)

\* A commit is a fold of the reducer, so projection and log stay sound.
LEMMA CommitFolds ==
  ASSUME IInv, pc = "append", Commits(pending)
  PROVE  /\ WellFormed(pending) /\ PendingIs /\ Live
         /\ Folds(state, log, pending, state', log')
         /\ Sound(state, log) /\ Sound(state', log')
         /\ Len(log) \in Nat /\ DOMAIN log = 1 .. Len(log) /\ DOMAIN log' = 1 .. (Len(log) + 1)
         /\ Len(log') = Len(log) + 1
         /\ log'[Len(log) + 1] = pending /\ \A i \in 1 .. Len(log) : log'[i] = log[i]
<1>1. WellFormed(pending) /\ PendingIs /\ Live /\ Sound(state, log)
  BY PendingWellFormed DEF IInv
<1>2. Folds(state, log, pending, state', log')
  BY DEF Commits, Folds
<1>3. Sound(state', log')
  BY <1>1, <1>2, FoldSound
<1>4. /\ Len(log) \in Nat /\ Len(log') = Len(log) + 1
      /\ log'[Len(log) + 1] = pending /\ \A i \in 1 .. Len(log) : log'[i] = log[i]
  BY <1>1, <1>2, FoldExtends
<1>5. DOMAIN log = 1 .. Len(log) /\ DOMAIN log' = 1 .. Len(log')
  BY <1>1, <1>3 DEF Sound, Typed
<1>6. QED
  BY <1>1, <1>2, <1>3, <1>4, <1>5

\* Activities keep their place and their counters.
LEMMA CommitKeeps ==
  ASSUME IInv, pc = "append", Commits(pending)
  PROVE  /\ state'.status # "absent" => state'.run = TheRun
         /\ \A i \in DOMAIN state.activities :
              /\ i \in DOMAIN state'.activities
              /\ SameActivity(state'.activities[i], state.activities[i])
         /\ \A kind \in Kinds : Used(kind) \in Nat /\ Used(kind)' \in Nat /\ Used(kind)' >= Used(kind)
<1>1. /\ WellFormed(pending) /\ PendingIs /\ Sound(state, log) /\ Sound(state', log')
      /\ Folds(state, log, pending, state', log')
  BY CommitFolds
<1>2. state'.status # "absent" => state'.run = TheRun
  <2>1. CASE state.status = "absent"
    <3>1. pending.type = "RunCreated"
      <4>1. Projected(state, log) /\ Guard(state, pending)
        BY <1>1, FoldExtends DEF Sound
      <4>2. state.activities = << >>
        BY <2>1, <4>1 DEF Projected, NoRun
      <4>3. QED
        BY <2>1, <4>1, <4>2 DEF Guard, RequestGuard, RequestReady, MatchingActivity
    <3>2. QED
      BY <1>1, <3>1, AfterCreated DEF PendingIs
  <2>2. CASE state.status # "absent"
    BY <1>1, <2>2, FoldKeeps DEF IInv, History
  <2>3. QED
    BY <2>1, <2>2
<1>3. \A i \in DOMAIN state.activities :
        /\ i \in DOMAIN state'.activities
        /\ SameActivity(state'.activities[i], state.activities[i])
  BY <1>1, FoldForward
<1>4. /\ state'.usage.iterations >= state.usage.iterations
      /\ state'.usage.tools >= state.usage.tools
  BY <1>1, FoldKeeps
<1>5. /\ state.usage.iterations \in Nat /\ state.usage.tools \in Nat
      /\ state'.usage.iterations \in Nat /\ state'.usage.tools \in Nat
  BY <1>1 DEF Sound, Typed, RunState, BudgetUsage
<1>6. QED
  BY <1>2, <1>3, <1>4, <1>5 DEF Used, Kinds

\* Calls of a kind can be counted.
LEMMA CallsCounted ==
  ASSUME TypeOK, NEW kind
  PROVE  IsFiniteSet(CallsOf(kind)) /\ Cardinality(CallsOf(kind)) \in Nat
<1>1. \E S : calls \in Seq(S)
  BY DEF TypeOK
<1>2. Len(calls) \in Nat /\ CallsOf(kind) \in SUBSET (1 .. Len(calls))
  BY <1>1 DEF CallsOf
<1>3. IsFiniteSet(1 .. Len(calls))
  BY <1>2, FS_Interval
<1>4. QED
  BY <1>2, <1>3, FS_Subset, FS_CardinalityType

\* What holds after run() has ended is kept by the commit of whatever it was
\* appending, also when nobody waits for it any more.
LEMMA CommitHistory ==
  ASSUME IInv, pc = "append", Commits(pending), UNCHANGED <<calls, artifacts>>
  PROVE  History'
<1>1. /\ PendingIs /\ Live /\ History
      /\ Len(log) \in Nat /\ DOMAIN log = 1 .. Len(log) /\ DOMAIN log' = 1 .. (Len(log) + 1)
      /\ log'[Len(log) + 1] = pending /\ \A i \in 1 .. Len(log) : log'[i] = log[i]
  BY CommitFolds DEF IInv
<1>2. /\ \A i \in DOMAIN log : i \in DOMAIN log' /\ log'[i] = log[i]
      /\ \A i \in DOMAIN log' : i \in DOMAIN log \/ log'[i] = pending
  BY <1>1
<1>3. CallsAreAnnounced'
  BY <1>1, <1>2 DEF History, CallsAreAnnounced, Logged
<1>4. ResultsAreReal'
  <2>1. ASSUME pending.type \in {"Completed", "Failed"}
        PROVE  \E j \in DOMAIN calls :
                 calls[j] = [kind |-> pending.kind, activity |-> pending.activity]
    <3>1. /\ calls # << >> /\ calls[Len(calls)] = ThisCall(pending.kind)
          /\ pending.activity = current.activity
      BY <1>1, <2>1
        DEF PendingIs, Live, CallsAt, ModelCalled, ToolCalled, SameActivity, Mine, Kinds
    <3>2. Len(calls) \in DOMAIN calls
      <4>1. \E S : calls \in Seq(S)
        BY DEF IInv, TypeOK
      <4>2. QED
        BY <3>1, <4>1
    <3>3. QED
      BY <3>1, <3>2 DEF ThisCall
  <2>2. \A i \in DOMAIN log' : log'[i].type \in {"Completed", "Failed"} =>
          \E j \in DOMAIN calls : calls[j] = [kind |-> log'[i].kind, activity |-> log'[i].activity]
    BY <1>1, <1>2, <2>1 DEF History, ResultsAreReal
  <2>3. \A j \in 1 .. (Len(calls) - 1) :
          Logged("Completed", calls[j])' \/ Logged("Failed", calls[j])'
    <3>1. TAKE j \in 1 .. (Len(calls) - 1)
    <3>2. Logged("Completed", calls[j]) \/ Logged("Failed", calls[j])
      BY <1>1 DEF History, ResultsAreReal
    <3>3. calls'[j] = calls[j]
      OBVIOUS
    <3>4. QED
      BY <3>2, <3>3, <1>2 DEF Logged
  <2>4. QED
    BY <2>2, <2>3 DEF ResultsAreReal
<1>5. ArtifactsAreCommitted'
  BY <1>1, <1>2 DEF History, ArtifactsAreCommitted, Logged
<1>6. \A i \in DOMAIN calls' : \E j \in DOMAIN state'.activities :
        state'.activities[j].activity = calls'[i].activity
  BY <1>1, CommitKeeps DEF History, SameActivity
<1>7. \A kind \in Kinds : Cardinality(CallsOf(kind))' <= Used(kind)'
  <2>1. TAKE kind \in Kinds
  <2>2. CallsOf(kind)' = CallsOf(kind)
    BY DEF CallsOf
  <2>3. Cardinality(CallsOf(kind)) \in Nat /\ Cardinality(CallsOf(kind)) <= Used(kind)
    BY <1>1, CallsCounted DEF History, IInv
  <2>4. Cardinality(CallsOf(kind))' = Cardinality(CallsOf(kind))
    BY <2>2
  <2>5. QED
    BY <2>3, <2>4, CommitKeeps
<1>8. QED
  BY <1>3, <1>4, <1>5, <1>6, <1>7, CommitKeeps DEF History

\* A step that leaves the store and the calls alone leaves the past alone.
LEMMA StoreKept ==
  ASSUME IInv, UNCHANGED <<store, calls, artifacts>>
  PROVE  Sound(state, log)' /\ History'
<1>1. UNCHANGED <<state, log, calls, artifacts>> /\ Sound(state, log) /\ History
  BY DEF IInv, store
<1>2. CallsAreAnnounced' /\ ResultsAreReal' /\ ArtifactsAreCommitted'
  BY <1>1 DEF History, CallsAreAnnounced, ResultsAreReal, ArtifactsAreCommitted, Logged
<1>3. \A kind \in Kinds : Cardinality(CallsOf(kind))' <= Used(kind)'
  BY <1>1 DEF History, CallsOf, Used
<1>4. QED
  BY <1>1, <1>2, <1>3 DEF History

-----------------------------------------------------------------------------
(* EventStore.append returns *)

\* The committed Run is then what the label run() goes on at requires.
LEMMA AppendedRunAt ==
  ASSUME IInv, Appended
  PROVE  RunAt(Phase)'
<1>1. /\ WellFormed(pending) /\ PendingIs /\ Live
      /\ Folds(state, log, pending, state', log') /\ Sound(state, log) /\ Sound(state', log')
      /\ Len(log) \in Nat /\ DOMAIN log = 1 .. Len(log) /\ DOMAIN log' = 1 .. (Len(log) + 1)
      /\ Len(log') = Len(log) + 1
      /\ log'[Len(log) + 1] = pending /\ \A i \in 1 .. Len(log) : log'[i] = log[i]
      /\ state' \in RunState
  BY CommitFolds DEF Appended, Sound, Typed
<1>2. pc' = resume /\ current' = current /\ Guard(state, pending)
  BY <1>1, FoldExtends DEF Appended, Goto
<1>3. resume # "append" /\ resume # "create"
  BY <1>1 DEF PendingIs, WellFormed, Event, EventTypes, Kinds
<1>4. Phase' = resume
  BY <1>2, <1>3 DEF Phase
<1> USE DEF RunAt, IdleLabels, ModelCalled, ToolCalled
<1>5. CASE pending.type = "RunCreated"
  BY <1>1, <1>4, <1>5, AfterCreated DEF PendingIs
<1>6. CASE pending.type = "RunStarted"
  BY <1>1, <1>4, <1>6, AfterStarted DEF PendingIs
<1>7. CASE pending.type \in {"RunSucceeded", "RunFailed"}
  BY <1>1, <1>4, <1>7, AfterEnd DEF PendingIs
<1>8. CASE pending.type = "Requested"
  <2>1. MatchingActivity(state', pending, "pending")
    BY <1>1, <1>8, AfterRequest
  <2>2. \A kind : SameActivity(pending, Mine(kind)) =>
                 MatchingActivity(state, Mine(kind), "pending")'
    BY <2>1, <1>2 DEF MatchingActivity, SameActivity, Mine
  <2>3. pending.kind = "tool" => AskedAt(Len(log))'
    BY <1>1, <1>2, <1>8 DEF PendingIs, Live, RequestAt, AskedAt
  <2>4. QED
    BY <1>1, <1>4, <1>8, <2>2, <2>3 DEF PendingIs, Kinds
<1>9. CASE pending.type = "Started"
  <2>1. MatchingActivity(state', pending, "running")
    BY <1>1, <1>9, AfterActivityStarted
  <2>2. \A kind : SameActivity(pending, Mine(kind)) =>
                 MatchingActivity(state, Mine(kind), "running")'
    BY <2>1, <1>2 DEF MatchingActivity, SameActivity, Mine
  <2>3. pending.kind = "tool" => AskedAt(Len(log) - 1)'
    <3>1. ASSUME pending.kind = "tool" PROVE AskedAt(Len(log))
      BY <1>1, <1>9, <3>1 DEF PendingIs, Live
    <3>2. QED
      BY <1>1, <1>2, <3>1 DEF AskedAt
  <2>4. QED
    BY <1>1, <1>4, <1>9, <2>2, <2>3 DEF PendingIs, Kinds
<1>10. CASE pending.type \in {"Completed", "Failed"}
  BY <1>1, <1>4, <1>10, AfterResult DEF PendingIs, Kinds
<1>11. QED
  BY <1>1, <1>5, <1>6, <1>7, <1>8, <1>9, <1>10 DEF WellFormed, Event, EventTypes

\* Of the calls, the one whose result was committed is no longer open; the
\* Activity a request opened has not been called yet, and counts.
LEMMA AppendedCallsAt ==
  ASSUME IInv, Appended
  PROVE  CallsAt(Phase)'
<1>1. /\ WellFormed(pending) /\ PendingIs /\ Live /\ History
      /\ Folds(state, log, pending, state', log') /\ Sound(state, log)
      /\ DOMAIN log = 1 .. Len(log) /\ DOMAIN log' = 1 .. (Len(log) + 1) /\ Len(log) \in Nat
      /\ log'[Len(log) + 1] = pending /\ \A i \in 1 .. Len(log) : log'[i] = log[i]
  BY CommitFolds DEF Appended, IInv
<1>2. pc' = resume /\ UNCHANGED <<current, calls>>
  BY DEF Appended, Goto
<1>3. /\ Phase' = resume
      /\ resume \notin ModelCalled \cup ToolCalled
  BY <1>1, <1>2
    DEF PendingIs, WellFormed, Event, EventTypes, Kinds, Phase, ModelCalled, ToolCalled
<1>4. \E S : calls \in Seq(S)
  BY DEF IInv, TypeOK
<1>5. \A i \in DOMAIN calls : Resulted(calls[i])'
  <2>1. pending.type \in {"Completed", "Failed"} =>
          \E i \in DOMAIN log' : log'[i] = pending
    BY <1>1
  <2>2. TAKE i \in DOMAIN calls
  <2>3. CASE Resulted(calls[i])
    <3>1. PICK k \in DOMAIN log : /\ log[k].type \in {"Completed", "Failed"}
                                  /\ log[k].activity = calls[i].activity
      BY <2>3 DEF Resulted, Logged
    <3>2. calls'[i] = calls[i] /\ k \in DOMAIN log' /\ log'[k] = log[k]
      BY <1>1, <1>2
    <3>3. QED
      BY <3>1, <3>2 DEF Resulted, Logged
  <2>4. CASE ~ Resulted(calls[i])
    <3>1. i \notin 1 .. (Len(calls) - 1)
      BY <1>1, <2>4 DEF History, ResultsAreReal, Resulted
    <3>2. i = Len(calls)
      BY <1>4, <3>1
    <3>3. Phase \in ModelCalled \cup ToolCalled
      BY <1>1, <2>4 DEF Live, CallsAt
    <3>4. pending.type \in {"Completed", "Failed"} /\ pending.activity = current.activity
      BY <1>1, <3>3 DEF PendingIs, ModelCalled, ToolCalled, WellFormed, Event, EventTypes, Kinds,
         SameActivity, Mine
    <3>5. calls[i].activity = current.activity
      BY <1>1, <3>2, <3>3 DEF Live, CallsAt, ThisCall
    <3>6. QED
      BY <1>2, <2>1, <3>4, <3>5 DEF Resulted, Logged
  <2>5. QED
    BY <2>3, <2>4
<1>6. ASSUME NEW kind \in Kinds, pending.kind = kind, pending.type \in {"Requested", "Started"}
      PROVE  Uncalled(kind)'
  <2>1. CallsOf(kind)' = CallsOf(kind) /\ Cardinality(CallsOf(kind)) \in Nat
    BY <1>2, CallsCounted DEF CallsOf, IInv
  <2>2. Cardinality(CallsOf(kind))' = Cardinality(CallsOf(kind))
    BY <2>1
  <2>3. Used(kind) \in Nat /\ Used(kind)' \in Nat /\ Used(kind)' >= Used(kind)
    BY CommitKeeps DEF Appended
  <2>4. CASE pending.type = "Requested"
    <3>1. FreshActivity /\ known = state
      BY <1>1, <1>6, <2>4 DEF PendingIs, Live, RequestAt, Kinds
    <3>2. \A i \in DOMAIN calls : calls[i].activity # current.activity
      BY <1>1, <3>1 DEF FreshActivity, NewActivities, History
    <3>3. Used(kind)' = Used(kind) + 1
      <4>1. state' = WithRequested(state, pending) /\ state \in RunState
        BY <1>1, <2>4, FoldCases DEF Sound, Typed
      <4>2. state'.usage = Counted(state.usage, kind) /\ state.usage \in BudgetUsage
        BY <1>1, <1>6, <2>4, <4>1, WithRequestedFields DEF RunState
      <4>3. QED
        BY <4>2 DEF Counted, Used, BudgetUsage, Kinds
    <3>4. Cardinality(CallsOf(kind)) <= Used(kind)
      BY <1>1 DEF History
    <3>5. QED
      BY <1>2, <2>1, <2>2, <2>3, <3>2, <3>3, <3>4 DEF Uncalled
  <2>5. CASE pending.type = "Started"
    <3>1. Uncalled(kind)
      BY <1>1, <1>6, <2>5 DEF PendingIs, Live, CallsAt, ModelUncalled, ToolUncalled, Kinds
    <3>2. QED
      BY <1>2, <2>1, <2>2, <2>3, <3>1 DEF Uncalled
  <2>6. QED
    BY <1>6, <2>4, <2>5
<1>7. /\ resume \in ModelUncalled => pending.type \in {"Requested", "Started"} /\ pending.kind = "model"
      /\ resume \in ToolUncalled => pending.type \in {"Requested", "Started"} /\ pending.kind = "tool"
  BY <1>1 DEF PendingIs, WellFormed, Event, EventTypes, Kinds, ModelUncalled, ToolUncalled
<1>8. \A l : l = resume => CallsAt(l)'
  BY <1>2, <1>3, <1>5, <1>6, <1>7 DEF CallsAt, Kinds
<1>9. QED
  BY <1>3, <1>8

\* What else run() remembers fits the Run it goes on with.
LEMMA AppendedInductive ==
  ASSUME IInv, Appended
  PROVE  IInv'
<1>1. /\ WellFormed(pending) /\ PendingIs /\ Live
      /\ Folds(state, log, pending, state', log') /\ Sound(state, log) /\ Sound(state', log')
      /\ DOMAIN log = 1 .. Len(log) /\ DOMAIN log' = 1 .. (Len(log) + 1) /\ Len(log) \in Nat
      /\ log'[Len(log) + 1] = pending /\ \A i \in 1 .. Len(log) : log'[i] = log[i]
      /\ state' \in RunState /\ log' \in Seq(Event)
  BY CommitFolds DEF Appended, Sound, Typed
<1>2. /\ pc = "append" /\ pc' = resume /\ known' = state' /\ pending' = NoEvent
      /\ UNCHANGED <<clock, current, reply, queue, turns, shown, artifacts, calls, why>>
  BY DEF Appended, Goto
<1>3. resume \in Labels \ {"append", "complete_model", "context", "request_model", "request_tool",
                           "raised", "dead"}
  BY <1>1 DEF PendingIs, WellFormed, Event, EventTypes, Kinds, Labels, IdleLabels, ModelUncalled,
     ModelCalled, ToolUncalled, ToolCalled, Ended
<1>4. Phase' = resume /\ Ahead' = resume /\ Ahead = resume /\ ~ AsksTool'
  BY <1>2, <1>3 DEF Phase, Ahead, AsksTool
<1>5. TypeOK'
  BY <1>1, <1>2 DEF IInv, TypeOK
<1>6. History'
  BY <1>2, CommitHistory DEF Appended
<1>7. why' = "none"
  BY <1>2 DEF IInv
<1>8. ArtifactAt(Phase)'
  <2>1. ASSUME resume = "recover_artifact", reply.finish = "artifact"
        PROVE  pending.type = "Completed" /\ pending.activity = current.activity
    BY <1>1, <2>1 DEF PendingIs, SameActivity, Mine, WellFormed, Event, EventTypes, Kinds
  <2>2. Len(log) + 1 \in DOMAIN log'
    BY <1>1
  <2>3. QED
    BY <1>1, <1>2, <1>4, <2>1, <2>2 DEF ArtifactAt, Logged
<1>9. TurnsKnown'
  <2>1. Waiting' \subseteq Waiting /\ IdsIn(queue)' = IdsIn(queue)
    BY <1>2, <1>4 DEF Waiting, IdsIn
  <2>2. ASSUME NEW j \in DOMAIN state'.activities, state'.activities[j].kind = "tool"
        PROVE  \E i \in DOMAIN turns :
                 /\ state'.activities[j].call \in turns[i]
                 /\ i = Len(turns) /\ resume \in ToolLabels =>
                      state'.activities[j].call \notin Waiting'
    <3>1. CASE j \in DOMAIN state.activities
      <4>1. SameActivity(state'.activities[j], state.activities[j])
        BY <1>2, <3>1, CommitKeeps DEF Appended
      <4>2. QED
        BY <1>1, <1>4, <2>1, <2>2, <3>1, <4>1 DEF Live, TurnsKnown, SameActivity
    <3>2. CASE pending.type = "Requested" /\ SameActivity(state'.activities[j], pending)
      <4>1. AsksTool /\ state'.activities[j].call = current.call /\ resume = "begin_tool"
        BY <1>1, <2>2, <3>2 DEF PendingIs, SameActivity, Mine, Kinds
      <4>2. /\ turns # << >> /\ current.call \in turns[Len(turns)]
            /\ current.call \notin IdsIn(queue)
        BY <1>1, <1>4, <4>1 DEF Live, TurnsKnown, Waiting, ToolLabels, ToolUncalled
      <4>3. Len(turns) \in DOMAIN turns
        <5>1. turns \in Seq(SUBSET CallIds)
          BY DEF IInv, TypeOK
        <5>2. QED
          BY <4>2, <5>1
      <4>4. current.call \notin Waiting'
        BY <1>4, <2>1, <4>2 DEF Waiting
      <4>5. QED
        BY <4>1, <4>2, <4>3, <4>4
    <3>3. QED
      BY <1>1, <3>1, <3>2, FoldActivities
  <2>3. Ahead \in ToolLabels =>
          /\ Distinct(queue)' /\ IdsIn(queue)' \cap shown' = {}
          /\ turns' # << >> /\ Waiting' \subseteq turns'[Len(turns')] /\ Waiting' \cap shown' = {}
    BY <1>1, <1>2, <2>1 DEF Live, TurnsKnown, Distinct
  <2>4. pc' \notin {"complete_model", "request_tool"}
    BY <1>2, <1>3
  <2>5. QED
    BY <1>2, <1>4, <2>2, <2>3, <2>4 DEF TurnsKnown
<1>10. RequestAt(Phase)'
  BY <1>3, <1>4 DEF RequestAt
<1>11. Live'
  BY <1>2, <1>3, <1>8, <1>9, <1>10, AppendedRunAt, AppendedCallsAt DEF Live
<1>12. OnlyRequestsRefused' /\ pc' \in Labels
  BY <1>2, <1>3, <1>7 DEF OnlyRequestsRefused
<1>13. QED
  BY <1>1, <1>5, <1>6, <1>7, <1>11, <1>12 DEF IInv

-----------------------------------------------------------------------------
(* What the reducer refuses *)

\* A pending Event that passes the guard of its type is taken.
LEMMA GuardedIsTaken ==
  ASSUME IInv, pc = "append", Guard(state, pending)
  PROVE  Reducible(state, pending)
<1>1. /\ WellFormed(pending) /\ Reportable(pending.usage) /\ PendingIs /\ Live
      /\ Sound(state, log) /\ History
  BY PendingWellFormed DEF IInv
<1>2. Addressed(state, pending)
  BY <1>1 DEF Addressed, PendingIs, History
<1>3. ~ IsTerminal(state)
  <2>1. state.status # "absent" => ConsistentProjection(state)
    BY <1>1 DEF Sound, Projected
  <2>2. ASSUME NEW required \in {"pending", "running"}, MatchingActivity(state, pending, required)
        PROVE  HasActive(state)
    BY <2>2 DEF MatchingActivity, HasActive, IsActive
  <2>3. QED
    BY <2>1, <2>2 DEF Guard, RequestGuard, RequestReady, IsTerminal, ConsistentProjection
<1>4. Valid(Reduced(state, pending))
  BY <1>1, <1>3, GuardedIsValid
<1>5. QED
  BY <1>2, <1>3, <1>4 DEF Reducible

\* Whatever run() reports about what it did is taken.
LEMMA ReportsAreTaken ==
  ASSUME IInv, pc = "append", pending.type # "Requested"
  PROVE  HistoryValid(log, pending) /\ Reducible(state, pending)
<1>1. /\ WellFormed(pending) /\ PendingIs /\ Live /\ Sound(state, log)
      /\ state \in RunState /\ log \in Seq(Event)
  BY PendingWellFormed DEF IInv, TypeOK
<1>2. \A kind, status : SameActivity(pending, Mine(kind)) /\ MatchingActivity(state, Mine(kind), status)
        => MatchingActivity(state, pending, status)
  BY DEF MatchingActivity, SameActivity, Mine
<1>3. Guard(state, pending)
  <2> USE DEF PendingIs, Live, RunAt, IdleLabels, ModelCalled, ToolCalled, Guard, Kinds
  <2>1. CASE pending.type = "RunCreated"
    BY <1>1, <2>1 DEF NoRun
  <2>2. CASE pending.type = "RunStarted"
    BY <1>1, <2>2
  <2>3. CASE pending.type \in {"RunSucceeded", "RunFailed"}
    BY <1>1, <2>3
  <2>4. CASE pending.type = "Started"
    BY <1>1, <1>2, <2>4
  <2>5. CASE pending.type \in {"Completed", "Failed"}
    BY <1>1, <1>2, <2>5
  <2>6. QED
    BY <1>1, <2>1, <2>2, <2>3, <2>4, <2>5 DEF WellFormed, Event, EventTypes
<1>4. ASSUME pending.type \in {"Completed", "Failed"}, pending.kind = "tool"
      PROVE  HistoryValid(log, pending)
  <2>1. /\ MatchingActivity(state, Mine("tool"), "running") /\ AskedAt(Len(log) - 1)
        /\ SameActivity(pending, Mine("tool"))
        /\ pending.version = RUN_EVENT_SCHEMA_VERSION /\ pending.request = current.request
    BY <1>1, <1>4 DEF PendingIs, Live, RunAt, ToolCalled
  <2>2. PICK i \in DOMAIN state.activities :
          /\ state.activities[i].kind = "tool" /\ state.activities[i].call = current.call
          /\ state.activities[i].status = "running"
    BY <1>1, <2>1, OpenIsNamed
  <2>3. /\ Len(log) >= 2 /\ log[Len(log) - 1].type = "Requested"
        /\ SameActivity(log[Len(log) - 1], state.activities[i])
    BY <1>1, <2>2 DEF Sound, OpenAtEnd
  <2>4. QED
    BY <2>1, <2>2, <2>3 DEF HistoryValid, AskedAt, SameActivity, Mine
<1>5. HistoryValid(log, pending)
  <2>1. CASE pending.type \in {"Completed", "Failed"} /\ pending.kind = "tool"
    BY <1>4, <2>1
  <2>2. QED
    BY <2>1 DEF HistoryValid
<1>6. QED
  BY <1>3, <1>5, GuardedIsTaken

\* A request is refused for the clock or for a repeated Tool call.
LEMMA RequestsAreTaken ==
  ASSUME IInv, pc = "append", pending.type = "Requested", Refuses(pending)
  PROVE  \/ pending.at - state.started_at >= state.limits.wall
         \/ pending.at < state.started_at
         \/ pending.kind = "tool" /\ \E i \in 1 .. (Len(turns) - 1) : pending.call \in turns[i] \ shown
<1>1. /\ WellFormed(pending) /\ PendingIs /\ Live /\ state \in RunState /\ known = state
      /\ turns \in Seq(SUBSET CallIds)
  BY PendingWellFormed DEF IInv, TypeOK, Live
<1>2. /\ pending.kind \in Kinds /\ SameActivity(pending, Mine(pending.kind))
      /\ RequestReady(state) /\ RoomFor(pending.kind) /\ FreshActivity
  BY <1>1 DEF PendingIs, Live, RunAt, RequestAt, IdleLabels, Kinds
<1>3. ~ RequestGuard(state, pending)
  BY GuardedIsTaken DEF Refuses, HistoryValid, Guard
<1>4. CASE ~ UniqueIds(state, pending)
  <2>1. PICK j \in DOMAIN state.activities :
          \/ state.activities[j].activity = current.activity
          \/ state.activities[j].kind = pending.kind /\ state.activities[j].call = current.call
    BY <1>2, <1>4 DEF UniqueIds, SameActivity, Mine
  <2>2. state.activities[j].activity # current.activity
    BY <1>1, <1>2 DEF FreshActivity, NewActivities
  <2>3. pending.kind # "model"
    <3>1. ASSUME pending.kind = "model" PROVE current.call \in NewModelCalls
      BY <1>1, <3>1 DEF PendingIs, Live, RequestAt
    <3>2. QED
      BY <1>1, <2>1, <2>2, <3>1 DEF NewModelCalls
  <2>4. AsksTool /\ pending.call = current.call /\ Ahead = "begin_tool"
    BY <1>1, <1>2, <2>3 DEF PendingIs, SameActivity, Mine, Kinds, AsksTool, Ahead
  <2>5. /\ state.activities[j].kind = "tool" /\ state.activities[j].call = current.call
        /\ current.call \in Waiting /\ current.call \notin shown
    <3>1. Waiting \cap shown = {}
      BY <1>1, <2>4 DEF Live, TurnsKnown, ToolLabels, ToolUncalled
    <3>2. QED
      BY <1>2, <2>1, <2>2, <2>3, <2>4, <3>1 DEF Waiting, Kinds
  <2>6. PICK i \in DOMAIN turns : current.call \in turns[i] /\ i # Len(turns)
    BY <1>1, <2>4, <2>5 DEF Live, TurnsKnown, ToolLabels, ToolUncalled
  <2>7. i \in 1 .. (Len(turns) - 1)
    BY <1>1, <2>6
  <2>8. QED
    BY <1>2, <2>3, <2>4, <2>5, <2>6, <2>7 DEF Kinds
<1>5. CASE ~ BudgetCheckable(state, pending.at) \/ BudgetExhausted(state, pending.kind, pending.at)
  <2>1. /\ pending.at \in Nat /\ state.started_at \in Int
        /\ state.usage \in BudgetUsage /\ state.limits \in Limits
    BY <1>1 DEF WellFormed, RunState, NoTime
  <2>2. ~ (pending.at >= state.started_at) => pending.at < state.started_at
    BY <2>1
  <2>3. BudgetExhausted(state, pending.kind, pending.at) =>
          pending.at - state.started_at >= state.limits.wall
    BY <2>1, <1>2 DEF BudgetExhausted, RoomFor, BudgetUsage, Limits, Tokens
  <2>4. QED
    BY <1>2, <1>5, <2>2, <2>3 DEF BudgetCheckable, RequestReady
<1>6. QED
  BY <1>2, <1>3, <1>4, <1>5 DEF RequestGuard

\* run() ends with RunReducerError only for a request.
LEMMA RejectedInductive ==
  ASSUME IInv, Rejected
  PROVE  IInv'
<1>1. /\ pc' = "raised" /\ why' = "rejected" /\ pc = "append" /\ Refuses(pending)
      /\ UNCHANGED <<store, clock, local, pending, resume, calls>>
  BY DEF Rejected, Raise
<1>2. pending.type = "Requested"
  BY <1>1, ReportsAreTaken DEF Refuses
<1>3. OnlyRequestsRefused'
  BY <1>1, <1>2, RequestsAreTaken DEF OnlyRequestsRefused, store, local
<1>4. Sound(state, log)' /\ History'
  BY <1>1, StoreKept DEF local
<1>5. TypeOK' /\ pc' \in Labels
  BY <1>1 DEF IInv, TypeOK, store, local, Labels, Ended
<1>6. QED
  BY <1>1, <1>3, <1>4, <1>5 DEF IInv

-----------------------------------------------------------------------------
(* The failures of an await *)

\* However run() ends but by a refusal of the reducer, and whether or not the
\* worker thread still commits the Event it was given, the past stays in order.
LEMMA GoneInductive ==
  ASSUME IInv, pc' \in {"raised", "dead"}, why' \in {"none", "store", "cancelled", "clock"},
         UNCHANGED <<clock, local, pending, resume, calls>>,
         UNCHANGED store \/ (pc = "append" /\ Commits(pending))
  PROVE  IInv'
<1>1. Sound(state, log)' /\ History'
  <2>1. CASE UNCHANGED store
    BY <2>1, StoreKept DEF local
  <2>2. CASE pc = "append" /\ Commits(pending)
    BY <2>2, CommitFolds, CommitHistory DEF local
  <2>3. QED
    BY <2>1, <2>2
<1>2. state' \in RunState /\ log' \in Seq(Event)
  BY <1>1 DEF Sound, Typed
<1>3. TypeOK' /\ pc' \in Labels
  BY <1>2 DEF IInv, TypeOK, local, Labels, Ended
<1>4. OnlyRequestsRefused'
  BY DEF OnlyRequestsRefused
<1>5. QED
  BY <1>1, <1>3, <1>4 DEF IInv

\* A failing store, a cancellation and the death of the process.
LEMMA FailureInductive ==
  ASSUME IInv, StoreFails \/ Cancel \/ Crash
  PROVE  IInv'
<1>1. CASE StoreFails
  BY <1>1, GoneInductive DEF StoreFails, Raise
<1>2. CASE Cancel
  BY <1>2, GoneInductive DEF Cancel, Interrupted
<1>3. CASE Crash
  BY <1>3, GoneInductive DEF Crash, Interrupted
<1>4. QED
  BY <1>1, <1>2, <1>3

-----------------------------------------------------------------------------
(* What a step leaves of the facts about a label *)

\* The committed Run stays at a label as long as store and Activity do.
LEMMA RunAtKept ==
  ASSUME UNCHANGED <<store, current>>, NEW l, RunAt(l)
  PROVE  RunAt(l)'
<1>1. UNCHANGED <<state, log, current>>
  BY DEF store
<1>2. \A kind, status : MatchingActivity(state, Mine(kind), status) =>
                        MatchingActivity(state, Mine(kind), status)'
  BY <1>1 DEF MatchingActivity, Mine
<1>3. \A n : AskedAt(n) => AskedAt(n)'
  BY <1>1 DEF AskedAt
<1>4. (AskedAt(Len(log)) => AskedAt(Len(log))') /\ (AskedAt(Len(log) - 1) => AskedAt(Len(log) - 1)')
  BY <1>1, <1>3
<1>5. QED
  BY <1>1, <1>2, <1>4 DEF RunAt

\* So do the calls and what was established for a request.
LEMMA CallsAtKept ==
  ASSUME UNCHANGED <<store, current, calls>>, NEW l, CallsAt(l)
  PROVE  CallsAt(l)'
<1>1. UNCHANGED <<state, log, current, calls>>
  BY DEF store
<1>2. \A kind : Uncalled(kind) => Uncalled(kind)'
  BY <1>1 DEF Uncalled, CallsOf, Used
<1>3. \A i \in DOMAIN calls : Resulted(calls[i]) => Resulted(calls[i])'
  BY <1>1 DEF Resulted, Logged
<1>4. \A kind : ThisCall(kind)' = ThisCall(kind)
  BY <1>1 DEF ThisCall
<1>5. QED
  BY <1>1, <1>2, <1>3, <1>4 DEF CallsAt

\* run() knows the committed Run, so what it reads there does not change.
LEMMA RoomKept ==
  ASSUME UNCHANGED <<store, known, current>>
  PROVE  /\ \A kind : RoomFor(kind) => RoomFor(kind)'
         /\ FreshActivity' = FreshActivity /\ NewModelCalls' = NewModelCalls
BY DEF store, RoomFor, FreshActivity, NewActivities, NewModelCalls

-----------------------------------------------------------------------------
(* Steps that build an Event, and steps that move on *)

\* Once an Event is built run() waits, and the Run is where it was.
LEMMA BuildInductive ==
  ASSUME IInv, pc \notin Ended \cup {"append"}, NEW e, NEW next, Build(e, next),
         Origin(pending') = pc, PendingFits', UNCHANGED <<reply, shown, artifacts>>,
         current' = current \/ pc = "request_tool",
         current' \in [activity : ActivityIds \cup {None}, call : CallIds \cup {None},
                       request : Requests \cup {None}],
         queue' \in Seq(CallIds), turns' \in Seq(SUBSET CallIds),
         RequestAt(Phase)', TurnsKnown'
  PROVE  IInv'
<1>1. /\ pc' = "append" /\ resume' = next
      /\ UNCHANGED <<store, state, log, clock, known, calls, why, reply, shown, artifacts>>
  BY DEF Build, store
<1>2. Live /\ why = "none" /\ Phase = pc
  BY DEF IInv, Ended, Phase
<1>3. Phase' = pc
  BY <1>1 DEF Phase
<1>4. Sound(state, log)' /\ History'
  BY <1>1, StoreKept
<1>5. RunAt(Phase)'
  <2>1. CASE current' = current
    <3>1. RunAt(pc)
      BY <1>2 DEF Live
    <3>2. \A l : RunAt(l) => RunAt(l)'
      BY <1>1, <2>1, RunAtKept
    <3>3. QED
      BY <1>3, <3>1, <3>2
  <2>2. CASE pc = "request_tool"
    <3>1. RequestReady(state)
      BY <1>2, <2>2 DEF Live, RunAt, IdleLabels
    <3>2. \A l : l = pc => RunAt(l)'
      BY <1>1, <2>2, <3>1 DEF RunAt, ModelCalled, ToolCalled
    <3>3. QED
      BY <1>3, <3>2
  <2>3. QED
    BY <2>1, <2>2
<1>6. CallsAt(Phase)'
  <2>1. CASE current' = current
    <3>1. CallsAt(pc)
      BY <1>2 DEF Live
    <3>2. \A l : CallsAt(l) => CallsAt(l)'
      BY <1>1, <2>1, CallsAtKept
    <3>3. QED
      BY <1>3, <3>1, <3>2
  <2>2. CASE pc = "request_tool"
    <3>1. \A i \in DOMAIN calls : Resulted(calls[i])
      BY <1>2, <2>2 DEF Live, CallsAt, ModelCalled, ToolCalled
    <3>2. \A i \in DOMAIN calls' : Resulted(calls[i])'
      BY <1>1, <3>1 DEF Resulted, Logged
    <3>3. \A l : l = pc => CallsAt(l)'
      BY <2>2, <3>2 DEF CallsAt, ModelCalled, ToolCalled, ModelUncalled, ToolUncalled
    <3>4. QED
      BY <1>3, <3>3
  <2>3. QED
    BY <2>1, <2>2
<1>7. ArtifactAt(Phase)'
  <2>1. ArtifactAt(pc) /\ (current' = current \/ pc # "recover_artifact")
    BY <1>2 DEF Live
  <2>2. \A l : l = pc => ArtifactAt(l)'
    BY <1>1, <2>1 DEF ArtifactAt, Logged
  <2>3. QED
    BY <1>3, <2>2
<1>8. pending' \in Event
  <2>1. (state \in RunState)' /\ (reply.usage \in Reported)' /\ (current.request \in Requests \cup {None})'
    BY <1>1 DEF IInv, TypeOK
  <2>2. (PendingFits /\ pc = "append" /\ state \in RunState /\ reply.usage \in Reported
          /\ current.request \in Requests \cup {None} /\ RunAt(Phase) /\ RequestAt(Phase)
           => WellFormed(pending))'
    BY FittingIsWellFormed, PTL
  <2>3. QED
    BY <1>1, <1>5, <2>1, <2>2 DEF WellFormed
<1>9. TypeOK' /\ pc' \in Labels
  BY <1>1, <1>8 DEF IInv, TypeOK, Labels
<1>10. Live'
  BY <1>1, <1>2, <1>5, <1>6, <1>7 DEF Live
<1>11. OnlyRequestsRefused' /\ why' = "none"
  BY <1>1, <1>2 DEF OnlyRequestsRefused
<1>12. QED
  BY <1>4, <1>9, <1>10, <1>11 DEF IInv

\* Most Events are built from what is known, and change nothing of it.
LEMMA PlainBuildInductive ==
  ASSUME IInv, pc \notin Ended \cup {"append"}, NEW e, NEW next, Build(e, next),
         Origin(pending') = pc, PendingFits',
         UNCHANGED <<current, reply, queue, turns, shown, artifacts>>,
         ~ AsksTool', next \in ToolLabels => pc \in ToolLabels
  PROVE  IInv'
<1>1. /\ pc' = "append" /\ resume' = next
      /\ UNCHANGED <<store, state, log, known>>
  BY DEF Build, store
<1>2. /\ Live /\ Phase = pc /\ Ahead = pc /\ ~ AsksTool
      /\ Phase' = pc /\ Ahead' = next
  BY <1>1 DEF IInv, Ended, Phase, Ahead, AsksTool
<1>3. RequestAt(Phase)'
  <2>1. RequestAt(pc)
    BY <1>2 DEF Live
  <2>2. \A l : RequestAt(l) => RequestAt(l)'
    BY <1>1, RoomKept DEF RequestAt
  <2>3. QED
    BY <1>2, <2>1, <2>2
<1>4. TurnsKnown'
  <2>1. Waiting' = Waiting /\ IdsIn(queue)' = IdsIn(queue) /\ Distinct(queue)' = Distinct(queue)
    BY <1>2 DEF Waiting, IdsIn, Distinct
  <2>2. pc' \notin {"complete_model", "request_tool"}
    BY <1>1
  <2>3. QED
    BY <1>1, <1>2, <2>1, <2>2 DEF Live, TurnsKnown
<1>5. QED
  BY <1>3, <1>4, BuildInductive DEF IInv, TypeOK

\* A step to another label is as good as what it establishes for that label.
LEMMA MoveInductive ==
  ASSUME IInv, pc \notin Ended \cup {"append"},
         pc' \in Labels \ {"append", "raised", "dead"},
         UNCHANGED <<store, known, why>>, TypeOK', History',
         RunAt(pc)', CallsAt(pc)', RequestAt(pc)', ArtifactAt(pc)', TurnsKnown'
  PROVE  IInv'
<1>1. /\ Live /\ why = "none" /\ Phase' = pc'
      /\ UNCHANGED <<state, log, known, why>>
  BY DEF IInv, Ended, Phase, store
<1>2. Sound(state, log)'
  BY <1>1 DEF IInv
<1>3. Live'
  BY <1>1 DEF Live
<1>4. OnlyRequestsRefused'
  BY <1>1 DEF OnlyRequestsRefused
<1>5. QED
  BY <1>1, <1>2, <1>3, <1>4 DEF IInv

-----------------------------------------------------------------------------
(* The Events of the Run and those that need no more than is known *)

\* What Build makes of the constructors of AgentLoop.
LEMMA BuiltEvents ==
  ASSUME IInv, pc \notin Ended, NEW e, NEW next, Build(e, next),
         UNCHANGED <<current, reply>>
  PROVE  /\ \A type, l : e = [RunEvent(type) EXCEPT !.limits = l] =>
              pending' = WrittenRun(type, NoTime, l)'
         /\ \A type, t : e = [RunEvent(type) EXCEPT !.at = t] =>
              pending' = WrittenRun(type, t, NoLimits)'
         /\ \A type : e = RunEvent(type) => pending' = WrittenRun(type, NoTime, NoLimits)'
         /\ \A type, t : e = [ActivityEvent(type, "model") EXCEPT !.at = t] =>
              pending' = WrittenModel(type, t, NoUsage)'
         /\ \A type, u : e = [ActivityEvent(type, "model") EXCEPT !.usage = u] =>
              pending' = WrittenModel(type, NoTime, u)'
         /\ \A type : e = ActivityEvent(type, "model") =>
              pending' = WrittenModel(type, NoTime, NoUsage)'
         /\ \A type : e = ActivityEvent(type, "tool") =>
              pending' = WrittenTool(type, None, 1, NoTime)'
         /\ \A type : e = WithEvidence(ActivityEvent(type, "tool")) =>
              pending' = WrittenTool(type, current.request, RUN_EVENT_SCHEMA_VERSION, NoTime)'
<1>1. /\ pending' = [e EXCEPT !.sequence = state.last_sequence + 1]
      /\ UNCHANGED <<state, current>>
  BY DEF IInv, Live, Build, store, Ended
<1> USE DEF Written, WrittenRun, WrittenModel, WrittenTool, RunEvent, ActivityEvent, Blank
<1>2. /\ \A type, l : e = [RunEvent(type) EXCEPT !.limits = l] =>
           pending' = WrittenRun(type, NoTime, l)'
      /\ \A type, t : e = [RunEvent(type) EXCEPT !.at = t] =>
           pending' = WrittenRun(type, t, NoLimits)'
      /\ \A type : e = RunEvent(type) => pending' = WrittenRun(type, NoTime, NoLimits)'
  BY <1>1
<1>3. ASSUME NEW type, NEW t, e = [ActivityEvent(type, "model") EXCEPT !.at = t]
      PROVE  pending' = WrittenModel(type, t, NoUsage)'
  BY <1>1, <1>3 DEF WithEvidence
<1>4. ASSUME NEW type, NEW u, e = [ActivityEvent(type, "model") EXCEPT !.usage = u]
      PROVE  pending' = WrittenModel(type, NoTime, u)'
  BY <1>1, <1>4 DEF WithEvidence
<1>5. ASSUME NEW type, e = ActivityEvent(type, "model")
      PROVE  pending' = WrittenModel(type, NoTime, NoUsage)'
  BY <1>1, <1>5 DEF WithEvidence
<1>6. ASSUME NEW type, e = ActivityEvent(type, "tool")
      PROVE  pending' = WrittenTool(type, None, 1, NoTime)'
  BY <1>1, <1>6 DEF WithEvidence
<1>7. ASSUME NEW type, e = WithEvidence(ActivityEvent(type, "tool"))
      PROVE  pending' = WrittenTool(type, current.request, RUN_EVENT_SCHEMA_VERSION, NoTime)'
  BY <1>1, <1>7 DEF WithEvidence
<1> HIDE DEF Written, WrittenRun, WrittenModel, WrittenTool, RunEvent, ActivityEvent, Blank
<1>8. QED
  BY <1>2, <1>3, <1>4, <1>5, <1>6, <1>7

\* RunCreated.
LEMMA CreateRunInductive ==
  ASSUME IInv, CreateRun
  PROVE  IInv'
<1> DEFINE e(l) == [RunEvent("RunCreated") EXCEPT !.limits = l]
<1>1. PICK l \in LimitChoices : Build(e(l), "start")
  BY DEF CreateRun
<1>2. pc = "create" /\ UNCHANGED <<current, reply, queue, turns, shown, artifacts>>
  BY DEF CreateRun
<1>3. pending' = WrittenRun("RunCreated", NoTime, l)'
  BY <1>1, <1>2, BuiltEvents DEF Ended
<1>4. resume' = "start" /\ Origin(pending') = pc /\ ~ AsksTool'
  <2>1. resume' = "start"
    BY <1>1 DEF Build
  <2>2. pending'.type = "RunCreated"
    BY <1>3 DEF Written, WrittenRun
  <2>3. QED
    BY <1>2, <2>1, <2>2 DEF Origin, AsksTool
<1>5. PendingFits'
  BY <1>3, <1>4 DEF PendingFits
<1>6. QED
  BY <1>1, <1>2, <1>4, <1>5, PlainBuildInductive DEF Ended, ToolLabels, ToolUncalled, ToolCalled

\* RunStarted.
LEMMA StartRunInductive ==
  ASSUME IInv, StartRun
  PROVE  IInv'
<1> DEFINE e == [RunEvent("RunStarted") EXCEPT !.at = clock]
<1>1. /\ pc = "start" /\ Build(e, "check_model") /\ clock \in Times
      /\ UNCHANGED <<current, reply, queue, turns, shown, artifacts>>
  BY DEF StartRun, IInv, TypeOK
<1>2. pending' = WrittenRun("RunStarted", clock, NoLimits)'
  <2>1. \A type, t : e = [RunEvent(type) EXCEPT !.at = t] =>
          pending' = WrittenRun(type, t, NoLimits)'
    BY <1>1, BuiltEvents DEF Ended
  <2>2. clock' = clock
    BY <1>1 DEF Build
  <2>3. QED
    BY <2>1, <2>2
<1>3. /\ resume' = "check_model" /\ Origin(pending') = pc /\ ~ AsksTool' /\ clock' \in Times
  <2>1. resume' = "check_model" /\ clock' \in Times
    BY <1>1 DEF Build
  <2>2. pending'.type = "RunStarted"
    BY <1>2 DEF Written, WrittenRun
  <2>3. QED
    BY <1>1, <2>1, <2>2 DEF Origin, AsksTool
<1>4. PendingFits'
  BY <1>2, <1>3 DEF PendingFits
<1>5. QED
  BY <1>1, <1>3, <1>4, PlainBuildInductive DEF Ended, ToolLabels, ToolUncalled, ToolCalled

\* RunFailed and RunSucceeded.
LEMMA EndRunInductive ==
  ASSUME IInv, FailRun \/ SucceedRun
  PROVE  IInv'
<1>1. PICK type \in {"RunFailed", "RunSucceeded"} : Build(RunEvent(type), "returned")
                                              /\ pc = IF type = "RunFailed" THEN "fail_run" ELSE "succeed"
  BY DEF FailRun, SucceedRun
<1>2. UNCHANGED <<current, reply, queue, turns, shown, artifacts>>
  BY DEF FailRun, SucceedRun
<1>3. pending' = WrittenRun(type, NoTime, NoLimits)'
  BY <1>1, <1>2, BuiltEvents DEF Ended
<1>4. resume' = "returned" /\ Origin(pending') = pc /\ ~ AsksTool'
  <2>1. resume' = "returned"
    BY <1>1 DEF Build
  <2>2. pending'.type = type
    BY <1>3 DEF Written, WrittenRun
  <2>3. QED
    BY <1>1, <2>1, <2>2 DEF Origin, AsksTool
<1>5. PendingFits'
  BY <1>3, <1>4 DEF PendingFits
<1>6. QED
  BY <1>1, <1>2, <1>4, <1>5, PlainBuildInductive DEF Ended, ToolLabels, ToolUncalled, ToolCalled

-----------------------------------------------------------------------------
(* The Events of an Activity that is open *)

\* A model call's Requested, with the fresh identities of the context.
LEMMA RequestModelInductive ==
  ASSUME IInv, RequestModel
  PROVE  IInv'
<1> DEFINE e == [ActivityEvent("Requested", "model") EXCEPT !.at = clock]
<1>1. /\ pc = "request_model" /\ Build(e, "begin_model") /\ clock \in Times
      /\ UNCHANGED <<current, reply, queue, turns, shown, artifacts>>
  BY DEF RequestModel, IInv, TypeOK
<1>2. pending' = WrittenModel("Requested", clock, NoUsage)'
  <2>1. \A type, t : e = [ActivityEvent(type, "model") EXCEPT !.at = t] =>
          pending' = WrittenModel(type, t, NoUsage)'
    BY <1>1, BuiltEvents DEF Ended
  <2>2. clock' = clock
    BY <1>1 DEF Build
  <2>3. QED
    BY <2>1, <2>2
<1>3. resume' = "begin_model" /\ clock' \in Times
  BY <1>1 DEF Build
<1>4. pending'.type = "Requested" /\ pending'.kind = "model"
  BY <1>2 DEF Written, WrittenModel
<1>5. Origin(pending') = pc /\ ~ AsksTool'
  BY <1>1, <1>4 DEF Origin, AsksTool
<1>6. PendingFits'
  BY <1>2, <1>3 DEF PendingFits
<1>7. QED
  BY <1>1, <1>5, <1>6, PlainBuildInductive DEF Ended, ToolLabels, ToolUncalled, ToolCalled

\* Started, of either kind.
LEMMA BeginInductive ==
  ASSUME IInv, BeginModel \/ BeginTool
  PROVE  IInv'
<1>1. UNCHANGED <<current, reply, queue, turns, shown, artifacts>>
  BY DEF BeginModel, BeginTool
<1>2. CASE BeginModel
  <2>1. pc = "begin_model" /\ Build(ActivityEvent("Started", "model"), "call_model")
    BY <1>2 DEF BeginModel
  <2>2. pending' = WrittenModel("Started", NoTime, NoUsage)' /\ resume' = "call_model"
    BY <1>1, <2>1, BuiltEvents DEF Ended, Build
  <2>3. pending'.type = "Started" /\ pending'.kind = "model"
    BY <2>2 DEF Written, WrittenModel
  <2>4. Origin(pending') = pc /\ ~ AsksTool' /\ PendingFits'
    BY <2>1, <2>2, <2>3 DEF Origin, AsksTool, PendingFits
  <2>5. QED
    BY <1>1, <2>1, <2>4, PlainBuildInductive DEF Ended, ToolLabels, ToolUncalled, ToolCalled
<1>3. CASE BeginTool
  <2>1. pc = "begin_tool" /\ Build(ActivityEvent("Started", "tool"), "call_tool")
    BY <1>3 DEF BeginTool
  <2>2. pending' = WrittenTool("Started", None, 1, NoTime)' /\ resume' = "call_tool"
    BY <1>1, <2>1, BuiltEvents DEF Ended, Build
  <2>3. pending'.type = "Started" /\ pending'.kind = "tool"
    BY <2>2 DEF Written, WrittenTool
  <2>4. Origin(pending') = pc /\ ~ AsksTool' /\ PendingFits'
    BY <2>1, <2>2, <2>3 DEF Origin, AsksTool, PendingFits
  <2>5. QED
    BY <1>1, <2>1, <2>4, PlainBuildInductive DEF Ended, ToolLabels, ToolUncalled, ToolCalled
<1>4. QED
  BY <1>2, <1>3

\* A failed model call.
LEMMA FailModelInductive ==
  ASSUME IInv, FailModel
  PROVE  IInv'
<1> DEFINE e == [ActivityEvent("Failed", "model") EXCEPT !.usage = reply.usage]
<1>1. /\ pc = "fail_model" /\ Build(e, "fail_run")
      /\ UNCHANGED <<current, reply, queue, turns, shown, artifacts>>
  BY DEF FailModel
<1>2. pending' = WrittenModel("Failed", NoTime, reply.usage)' /\ resume' = "fail_run"
  <2>1. \A type, u : e = [ActivityEvent(type, "model") EXCEPT !.usage = u] =>
          pending' = WrittenModel(type, NoTime, u)'
    BY <1>1, BuiltEvents DEF Ended
  <2>2. reply' = reply /\ resume' = "fail_run"
    BY <1>1 DEF Build
  <2>3. QED
    BY <2>1, <2>2
<1>3. pending'.type = "Failed" /\ pending'.kind = "model"
  BY <1>2 DEF Written, WrittenModel
<1>4. Origin(pending') = pc /\ ~ AsksTool' /\ PendingFits'
  BY <1>1, <1>2, <1>3 DEF Origin, AsksTool, PendingFits
<1>5. QED
  BY <1>1, <1>4, PlainBuildInductive DEF Ended, ToolLabels, ToolUncalled, ToolCalled

\* A Tool's result.
LEMMA FinishToolInductive ==
  ASSUME IInv, FinishTool
  PROVE  IInv'
<1> DEFINE type == IF reply.finish \in {"failed", "oversized"} THEN "Failed" ELSE "Completed"
           next == IF reply.finish = "oversized" THEN "fail_run" ELSE "recover_artifact"
<1>1. /\ pc = "finish_tool" /\ Build(WithEvidence(ActivityEvent(type, "tool")), next)
      /\ UNCHANGED <<current, reply, queue, turns, shown, artifacts>>
  BY DEF FinishTool
<1>2. /\ pending' = WrittenTool(type, current.request, RUN_EVENT_SCHEMA_VERSION, NoTime)'
      /\ resume' = next
  <2>1. \A x : WithEvidence(ActivityEvent(type, "tool")) = WithEvidence(ActivityEvent(x, "tool"))
               => pending' = WrittenTool(x, current.request, RUN_EVENT_SCHEMA_VERSION, NoTime)'
    BY <1>1, BuiltEvents DEF Ended
  <2>2. type' = type
    BY <1>1
  <2>3. QED
    BY <1>1, <2>1, <2>2 DEF Build
<1>3. pending'.type = type /\ pending'.kind = "tool"
  BY <1>1, <1>2 DEF Written, WrittenTool
<1>4. Origin(pending') = pc /\ ~ AsksTool'
  BY <1>1, <1>3 DEF Origin, AsksTool
<1>5. PendingFits'
  BY <1>1, <1>2 DEF PendingFits
<1>6. QED
  BY <1>1, <1>4, <1>5, PlainBuildInductive DEF Ended, ToolLabels, ToolUncalled, ToolCalled

\* The completion of a model call, whose Tool calls become the latest ones; or,
\* when it is too large, the way to its failure.
LEMMA CompleteModelInductive ==
  ASSUME IInv, CompleteModel
  PROVE  IInv'
<1> DEFINE e == [ActivityEvent("Completed", "model") EXCEPT !.usage = reply.usage]
           next == IF reply.finish = "stop" THEN "succeed" ELSE "next_tool"
<1>1. /\ pc = "complete_model" /\ UNCHANGED <<current, reply, queue, shown, artifacts>>
      /\ Live /\ TypeOK /\ Phase = pc /\ Ahead = pc /\ ~ AsksTool
  BY DEF CompleteModel, IInv, Ended, Phase, Ahead, AsksTool
<1>2. CASE /\ Build(e, next)
           /\ turns' = IF reply.finish = "stop" THEN turns ELSE Append(turns, IdsIn(queue))
  <2>1. pending' = WrittenModel("Completed", NoTime, reply.usage)' /\ resume' = next
    <3>1. \A type, u : e = [ActivityEvent(type, "model") EXCEPT !.usage = u] =>
            pending' = WrittenModel(type, NoTime, u)'
      BY <1>1, <1>2, BuiltEvents DEF Ended
    <3>2. reply' = reply /\ resume' = next
      BY <1>1, <1>2 DEF Build
    <3>3. QED
      BY <3>1, <3>2
  <2>2. pending'.type = "Completed" /\ pending'.kind = "model"
    BY <2>1 DEF Written, WrittenModel
  <2>3. Origin(pending') = pc /\ ~ AsksTool'
    BY <1>1, <2>2 DEF Origin, AsksTool
  <2>4. PendingFits'
    BY <2>1 DEF PendingFits
  <2>5. pc' = "append" /\ Phase' = pc /\ Ahead' = next /\ UNCHANGED <<state, log, known>>
    BY <1>2, <2>1, <2>3 DEF Build, Phase, Ahead, store
  <2>6. RequestAt(Phase)'
    <3>1. \A l : l = pc => RequestAt(l)'
      BY <1>1, <2>3 DEF RequestAt
    <3>2. QED
      BY <2>5, <3>1
  <2>7. turns' \in Seq(SUBSET CallIds) /\ turns \in Seq(SUBSET CallIds)
    BY <1>1, <1>2 DEF TypeOK, IdsIn
  <2>8. TurnsKnown'
    <3>1. Waiting' = IdsIn(queue) /\ IdsIn(queue)' = IdsIn(queue) /\ Distinct(queue)' = Distinct(queue)
      BY <1>1, <2>3 DEF Waiting, IdsIn, Distinct
    <3>2. Distinct(queue) /\ IdsIn(queue) \cap shown = {}
      BY <1>1 DEF Live, TurnsKnown
    <3>3. ASSUME NEW j \in DOMAIN state.activities, state.activities[j].kind = "tool"
          PROVE  \E i \in DOMAIN turns' :
                   /\ state.activities[j].call \in turns'[i]
                   /\ i = Len(turns') /\ next \in ToolLabels => state.activities[j].call \notin Waiting'
      <4>1. PICK i \in DOMAIN turns : state.activities[j].call \in turns[i]
        BY <1>1, <3>3 DEF Live, TurnsKnown
      <4>2. CASE reply.finish = "stop"
        BY <1>2, <4>1, <4>2 DEF ToolLabels, ToolUncalled, ToolCalled
      <4>3. CASE reply.finish # "stop"
        <5>1. /\ i \in DOMAIN turns' /\ turns'[i] = turns[i] /\ i # Len(turns')
          BY <1>2, <2>7, <4>3
        <5>2. QED
          BY <4>1, <5>1
      <4>4. QED
        BY <4>2, <4>3
    <3>4. next \in ToolLabels => turns' # << >> /\ turns'[Len(turns')] = IdsIn(queue)
      <4>1. IdsIn(queue) \in SUBSET CallIds
        BY <1>1 DEF TypeOK, IdsIn
      <4>2. QED
        BY <1>2, <2>7, <4>1 DEF ToolLabels, ToolUncalled, ToolCalled
    <3> HIDE DEF next
    <3>5. QED
      BY <1>1, <2>3, <2>5, <3>1, <3>2, <3>3, <3>4 DEF TurnsKnown
  <2>9. QED
    BY <1>1, <1>2, <2>3, <2>4, <2>6, <2>7, <2>8, BuildInductive DEF Ended, TypeOK
<1>3. CASE pc' = "fail_model" /\ UNCHANGED <<store, clock, known, turns, pending, resume, calls, why>>
  <2>1. UNCHANGED <<state, log>> /\ Ahead' = pc' /\ ~ AsksTool'
    BY <1>3 DEF store, Ahead, AsksTool
  <2>2. TypeOK' /\ History'
    BY <1>1, <1>3, <2>1, StoreKept DEF TypeOK
  <2>3. RunAt(pc)'
    <3>1. RunAt(pc)
      BY <1>1 DEF Live
    <3>2. RunAt("fail_model")
      BY <1>1, <3>1 DEF RunAt, ModelCalled, ToolCalled, IdleLabels
    <3>3. RunAt("fail_model")'
      BY <1>1, <1>3, <3>2, RunAtKept
    <3>4. QED
      BY <1>3, <3>3
  <2>4. CallsAt(pc)'
    <3>1. CallsAt(pc)
      BY <1>1 DEF Live
    <3>2. CallsAt("fail_model")
      BY <1>1, <3>1 DEF CallsAt, ModelCalled, ToolCalled, ModelUncalled, ToolUncalled
    <3>3. CallsAt("fail_model")'
      BY <1>1, <1>3, <3>2, CallsAtKept
    <3>4. QED
      BY <1>3, <3>3
  <2>5. RequestAt(pc)' /\ ArtifactAt(pc)'
    BY <1>3, <2>1 DEF RequestAt, ArtifactAt
  <2>6. TurnsKnown'
    BY <1>1, <1>3, <2>1 DEF Live, TurnsKnown, ToolLabels, ToolUncalled, ToolCalled
  <2>7. QED
    BY <1>1, <1>3, <2>2, <2>3, <2>4, <2>5, <2>6, MoveInductive
      DEF Ended, Labels, ModelCalled
<1>4. QED
  BY <1>2, <1>3 DEF CompleteModel, Goto

\* A Tool call's Requested takes it from the queue, with a fresh Activity.
LEMMA RequestToolInductive ==
  ASSUME IInv, RequestTool
  PROVE  IInv'
<1>1. /\ pc = "request_tool" /\ UNCHANGED <<reply, turns, shown, artifacts>>
      /\ Live /\ TypeOK /\ known = state /\ NewActivities # {} /\ queue' = Tail(queue)
      /\ Phase = pc /\ Ahead = pc /\ ~ AsksTool
  BY DEF RequestTool, IInv, Ended, Phase, Ahead, AsksTool, Live
<1>2. PICK q \in Requests :
        current' = [activity |-> New(NewActivities), call |-> Head(queue), request |-> q]
  BY DEF RequestTool
<1> DEFINE e == [Blank(TheRun, 0, "Requested", "tool") EXCEPT
                   !.activity = current'.activity, !.call = current'.call, !.at = clock,
                   !.version = RUN_EVENT_SCHEMA_VERSION, !.request = current'.request]
<1>3. Build(e, "begin_tool") /\ clock \in Times
  BY <1>1 DEF RequestTool, TypeOK
<1>4. /\ queue \in Seq(CallIds) /\ queue # << >> /\ Distinct(queue)
      /\ IdsIn(queue) \cap shown = {} /\ turns # << >> /\ IdsIn(queue) \subseteq turns[Len(turns)]
  BY <1>1 DEF TypeOK, Live, TurnsKnown, ToolLabels, Waiting
<1>5. /\ Head(queue) \in CallIds /\ Tail(queue) \in Seq(CallIds)
      /\ IdsIn(Tail(queue)) \cup {Head(queue)} = IdsIn(queue)
      /\ Distinct(Tail(queue)) /\ Head(queue) \notin IdsIn(Tail(queue))
  <2>1. /\ DOMAIN queue = 1 .. Len(queue) /\ Len(queue) \in Nat /\ Len(queue) >= 1
        /\ DOMAIN Tail(queue) = 1 .. (Len(queue) - 1) /\ Head(queue) = queue[1]
        /\ \A i \in 1 .. (Len(queue) - 1) : Tail(queue)[i] = queue[i + 1]
        /\ Head(queue) \in CallIds /\ Tail(queue) \in Seq(CallIds)
    BY <1>4
  <2>2. \A i \in 1 .. Len(queue) : i = 1 \/ (i - 1 \in 1 .. (Len(queue) - 1) /\ queue[i] = Tail(queue)[i - 1])
    BY <2>1
  <2>3. Distinct(Tail(queue)) /\ Head(queue) \notin IdsIn(Tail(queue))
    BY <1>4, <2>1 DEF Distinct, IdsIn
  <2>4. IdsIn(Tail(queue)) \cup {Head(queue)} = IdsIn(queue)
    <3>1. \A i \in DOMAIN queue : queue[i] = Head(queue) \/ queue[i] \in IdsIn(Tail(queue))
      BY <2>1, <2>2 DEF IdsIn
    <3>2. \A i \in DOMAIN Tail(queue) : i + 1 \in DOMAIN queue /\ Tail(queue)[i] = queue[i + 1]
      BY <2>1
    <3>3. 1 \in DOMAIN queue
      BY <2>1
    <3>4. QED
      BY <2>1, <3>1, <3>2, <3>3 DEF IdsIn
  <2>5. QED
    BY <2>1, <2>3, <2>4
<1>6. /\ current'.activity \in NewActivities /\ current'.call = Head(queue)
      /\ current'.request = q
  BY <1>1, <1>2 DEF New
<1>7. current' \in [activity : ActivityIds \cup {None}, call : CallIds \cup {None},
                    request : Requests \cup {None}]
  BY <1>2, <1>5, <1>6 DEF NewActivities
<1>8. /\ pc' = "append" /\ resume' = "begin_tool"
      /\ UNCHANGED <<state, log, known, clock, calls, why>>
      /\ pending' = [e EXCEPT !.sequence = state.last_sequence + 1]
  BY <1>1, <1>3 DEF Build, store
<1>9. pending' = WrittenTool("Requested", current.request, RUN_EVENT_SCHEMA_VERSION, clock)'
  BY <1>8 DEF Written, WrittenTool, Blank
<1>10. pending'.type = "Requested" /\ pending'.kind = "tool"
  BY <1>9 DEF Written, WrittenTool
<1>11. Origin(pending') = pc /\ AsksTool' /\ PendingFits'
  BY <1>1, <1>3, <1>8, <1>9, <1>10 DEF Origin, AsksTool, PendingFits
<1>12. Phase' = pc /\ Ahead' = "begin_tool"
  BY <1>8, <1>11 DEF Phase, Ahead
<1>13. RequestAt(Phase)'
  <2>1. RoomFor("tool")' /\ FreshActivity' /\ (current.call \in CallIds)' /\ (current.request \in Requests)'
    BY <1>1, <1>5, <1>6, <1>8 DEF Live, RequestAt, RoomFor, FreshActivity, NewActivities
  <2>2. \A l : l = pc => RequestAt(l)'
    BY <1>1, <2>1 DEF RequestAt
  <2>3. QED
    BY <1>12, <2>2
<1>14. TurnsKnown'
  <2>1. Waiting' = IdsIn(queue) /\ IdsIn(queue)' = IdsIn(Tail(queue)) /\ Distinct(queue)'
        /\ Waiting = IdsIn(queue)
    BY <1>1, <1>5, <1>6, <1>11 DEF Waiting, IdsIn, Distinct
  <2>2. (IdsIn(queue) \cap shown = {})' /\ (current.call \notin IdsIn(queue))'
    BY <1>1, <1>4, <1>5, <1>6, <2>1
  <2>3. pc' \notin {"complete_model", "request_tool"} /\ Ahead \in ToolLabels
    BY <1>1, <1>8 DEF ToolLabels
  <2>4. \A j \in DOMAIN state.activities : state.activities[j].kind = "tool" =>
          \E i \in DOMAIN turns :
            /\ state.activities[j].call \in turns[i]
            /\ i = Len(turns) => state.activities[j].call \notin Waiting
    BY <1>1, <2>3 DEF Live, TurnsKnown
  <2>5. QED
    BY <1>1, <1>4, <1>8, <2>1, <2>2, <2>3, <2>4 DEF TurnsKnown
<1>15. QED
  BY <1>1, <1>3, <1>5, <1>7, <1>11, <1>13, <1>14, BuildInductive DEF Ended, TypeOK

-----------------------------------------------------------------------------
(* The steps between Events *)

\* Where run() holds no Activity the committed Run stays ready.
LEMMA IdleKept ==
  ASSUME Live, pc \in IdleLabels, pc' \in IdleLabels, UNCHANGED <<store, calls>>
  PROVE  RunAt(pc)' /\ CallsAt(pc)'
<1>1. UNCHANGED <<state, log, calls>> /\ Phase = pc
  BY DEF store, Phase, IdleLabels
<1>2. RequestReady(state) /\ \A i \in DOMAIN calls : Resulted(calls[i])
  BY <1>1 DEF Live, RunAt, CallsAt, IdleLabels, ModelCalled, ToolCalled
<1>3. (RequestReady(state))' /\ \A i \in DOMAIN calls' : Resulted(calls[i])'
  BY <1>1, <1>2 DEF Resulted, Logged
<1>4. \A l \in IdleLabels : RunAt(l)' /\ CallsAt(l)'
  BY <1>3 DEF RunAt, CallsAt, IdleLabels, ModelUncalled, ModelCalled, ToolUncalled, ToolCalled
<1>5. QED
  BY <1>4

\* A budget that is not exhausted has room for the request that follows.
LEMMA CheckBudgetInductive ==
  ASSUME IInv, NEW kind, NEW next, CheckBudget(kind, next),
         \/ kind = "model" /\ pc = "check_model" /\ next = "context"
         \/ kind = "tool" /\ pc = "next_tool" /\ next = "request_tool" /\ queue # << >>
  PROVE  IInv'
<1>1. /\ Live /\ TypeOK /\ Phase = pc /\ Ahead = pc /\ ~ AsksTool /\ known = state
      /\ UNCHANGED <<store, state, log, clock, local, pending, resume, calls>>
  BY DEF CheckBudget, IInv, Ended, Phase, Ahead, AsksTool, Live, store
<1>2. CASE ~ BudgetCheckable(known, clock)
  BY <1>1, <1>2, GoneInductive DEF CheckBudget, Raise
<1>3. CASE BudgetCheckable(known, clock)
  <2>1. /\ pc' = IF BudgetExhausted(state, kind, clock) THEN "fail_run" ELSE next
        /\ UNCHANGED <<why, known, current, reply, queue, turns, shown, artifacts>>
    BY <1>1, <1>3 DEF CheckBudget, Goto, local
  <2>2. pc \in IdleLabels /\ pc' \in IdleLabels
    BY <2>1 DEF IdleLabels
  <2>3. RunAt(pc)' /\ CallsAt(pc)'
    BY <1>1, <2>2, IdleKept
  <2>4. pc' = next => RoomFor(kind)'
    <3>1. pc' = next => ~ BudgetExhausted(state, kind, clock)
      BY <2>1
    <3>2. ~ BudgetExhausted(state, kind, clock) => RoomFor(kind)
      BY <1>1, NotExhausted DEF TypeOK, RoomFor
    <3>3. QED
      BY <1>1, <2>1, <3>1, <3>2, RoomKept
  <2>5. Ahead' = pc' /\ ~ AsksTool' /\ pc' \in {"fail_run", next}
    BY <2>1 DEF Ahead, AsksTool
  <2>6. RequestAt(pc)' /\ ArtifactAt(pc)'
    BY <2>4, <2>5 DEF RequestAt, ArtifactAt
  <2>7. TurnsKnown'
    <3>1. Waiting' = Waiting /\ IdsIn(queue)' = IdsIn(queue) /\ Distinct(queue)' = Distinct(queue)
      BY <1>1, <2>1, <2>5 DEF Waiting, IdsIn, Distinct
    <3>2. Ahead' \in ToolLabels => Ahead \in ToolLabels
      BY <1>1, <2>5 DEF ToolLabels, ToolUncalled, ToolCalled
    <3>3. pc' # "complete_model" /\ (pc' = "request_tool" => queue # << >>)
      BY <2>5
    <3>4. QED
      BY <1>1, <2>1, <2>5, <3>1, <3>2, <3>3 DEF Live, TurnsKnown
  <2>8. TypeOK' /\ History'
    BY <1>1, <2>1, StoreKept DEF TypeOK
  <2>9. QED
    BY <1>1, <2>1, <2>2, <2>3, <2>6, <2>7, <2>8, MoveInductive
      DEF Ended, Labels, IdleLabels
<1>4. QED
  BY <1>2, <1>3

\* The checks before a model call and before a Tool call, and the way back once
\* the response has no Tool calls left.
LEMMA ChecksInductive ==
  ASSUME IInv, CheckModel \/ NextTool
  PROVE  IInv'
<1>1. CASE CheckModel
  BY <1>1, CheckBudgetInductive DEF CheckModel
<1>2. CASE NextTool /\ queue # << >>
  BY <1>2, CheckBudgetInductive DEF NextTool
<1>3. CASE NextTool /\ queue = << >>
  <2>1. /\ pc = "next_tool" /\ pc' = "check_model" /\ Live /\ TypeOK
        /\ Phase = pc /\ Ahead = pc /\ ~ AsksTool /\ Ahead' = pc' /\ ~ AsksTool'
        /\ UNCHANGED <<store, state, log, clock, pending, resume, calls, why>>
        /\ UNCHANGED <<known, current, reply, queue, turns, shown, artifacts>>
    BY <1>3 DEF NextTool, Goto, IInv, Ended, Phase, Ahead, AsksTool, store, local
  <2>2. RunAt(pc)' /\ CallsAt(pc)'
    BY <2>1, IdleKept DEF IdleLabels
  <2>3. RequestAt(pc)' /\ ArtifactAt(pc)'
    BY <2>1 DEF RequestAt, ArtifactAt
  <2>4. TurnsKnown'
    BY <2>1 DEF Live, TurnsKnown, ToolLabels, ToolUncalled, ToolCalled
  <2>5. TypeOK' /\ History'
    BY <2>1, StoreKept DEF TypeOK
  <2>6. QED
    BY <2>1, <2>2, <2>3, <2>4, <2>5, MoveInductive DEF Ended, Labels, IdleLabels
<1>4. QED
  BY <1>1, <1>2, <1>3

\* The identities of the next model call are fresh.
LEMMA BuildContextInductive ==
  ASSUME IInv, BuildContext
  PROVE  IInv'
<1>1. /\ pc = "context" /\ Live /\ TypeOK /\ Phase = pc /\ known = state
      /\ UNCHANGED <<store, state, log, clock, known, reply, queue, turns, artifacts,
                     pending, resume, calls, why>>
  BY DEF BuildContext, IInv, Ended, Phase, Live, store
<1>2. \/ /\ pc' = "request_model" /\ NewActivities # {} /\ NewModelCalls # {}
         /\ current' = [activity |-> New(NewActivities), call |-> New(NewModelCalls),
                        request |-> None]
         /\ \E first \in 1 .. (IF turns = << >> THEN 1 ELSE Len(turns)) :
              shown' = UNION {turns[i] : i \in first .. Len(turns)}
      \/ pc' = "fail_run" /\ UNCHANGED <<shown, current>>
  BY DEF BuildContext, Goto
<1>3. pc' \in {"request_model", "fail_run"} /\ Ahead' = pc' /\ ~ AsksTool'
  BY <1>2 DEF Ahead, AsksTool
<1>4. pc' = "request_model" =>
        /\ current'.activity \in NewActivities /\ current'.call \in NewModelCalls
        /\ current'.request = None
        /\ current' = [activity |-> current'.activity, call |-> current'.call, request |-> None]
  BY <1>2 DEF New
<1>5. TypeOK'
  <2>1. shown' \subseteq CallIds
    <3>1. turns \in Seq(SUBSET CallIds) /\ shown \subseteq CallIds
      BY <1>1 DEF TypeOK
    <3>2. ASSUME NEW first \in 1 .. (IF turns = << >> THEN 1 ELSE Len(turns)),
                 shown' = UNION {turns[i] : i \in first .. Len(turns)}
          PROVE  shown' \subseteq CallIds
      <4>1. first .. Len(turns) \subseteq DOMAIN turns
        BY <3>1
      <4>2. \A i \in first .. Len(turns) : turns[i] \subseteq CallIds
        BY <3>1, <4>1
      <4>3. QED
        BY <3>2, <4>2
    <3>3. QED
      BY <1>2, <3>1, <3>2
  <2>2. current' \in [activity : ActivityIds \cup {None}, call : CallIds \cup {None},
                      request : Requests \cup {None}]
    BY <1>1, <1>2, <1>4 DEF TypeOK, NewActivities, NewModelCalls
  <2>3. QED
    BY <1>1, <2>1, <2>2 DEF TypeOK
<1>6. RunAt(pc)' /\ CallsAt(pc)'
  BY <1>1, <1>3, IdleKept DEF IdleLabels
<1>7. RequestAt(pc)'
  <2>1. RoomFor("model")'
    BY <1>1 DEF Live, RequestAt, RoomFor
  <2>2. pc' = "request_model" =>
          FreshActivity' /\ (current.call \in NewModelCalls)' /\ (current.request = None)'
    BY <1>1, <1>4 DEF FreshActivity, NewActivities, NewModelCalls
  <2>3. QED
    BY <1>3, <2>1, <2>2 DEF RequestAt
<1>8. ArtifactAt(pc)'
  BY <1>3 DEF ArtifactAt
<1>9. TurnsKnown'
  BY <1>1, <1>3 DEF Live, TurnsKnown, ToolLabels, ToolUncalled, ToolCalled
<1>10. History'
  BY <1>1, StoreKept
<1>11. QED
  BY <1>1, <1>3, <1>5, <1>6, <1>7, <1>8, <1>9, <1>10, MoveInductive
    DEF Ended, Labels, IdleLabels

-----------------------------------------------------------------------------
(* External calls and their answers *)

\* A call is made for the Activity whose Started is committed, the first time.
LEMMA CallHistory ==
  ASSUME IInv, NEW kind \in Kinds, MatchingActivity(state, Mine(kind), "running"),
         Uncalled(kind), \A i \in DOMAIN calls : Resulted(calls[i]),
         calls' = Append(calls, ThisCall(kind)), UNCHANGED <<store, artifacts>>
  PROVE  /\ History' /\ calls' \in Seq([kind : Kinds, activity : ActivityIds])
         /\ calls' # << >> /\ calls'[Len(calls')] = ThisCall(kind)
<1> DEFINE n == Len(calls)
           new == ThisCall(kind)
<1>1. /\ TypeOK /\ Sound(state, log) /\ History /\ state \in RunState
      /\ UNCHANGED <<state, log, artifacts>>
  BY DEF IInv, TypeOK, store
<1>2. PICK k \in DOMAIN state.activities :
        /\ state.activities[k].activity = current.activity
        /\ state.activities[k].status = "running"
  BY <1>1, OpenIsNamed
<1>3. new \in [kind : Kinds, activity : ActivityIds]
  BY <1>1, OpenIsNamed DEF ThisCall
<1>4. /\ calls' \in Seq([kind : Kinds, activity : ActivityIds])
      /\ n \in Nat /\ DOMAIN calls = 1 .. n /\ DOMAIN calls' = 1 .. (n + 1) /\ Len(calls') = n + 1
      /\ calls'[n + 1] = new /\ \A i \in 1 .. n : calls'[i] = calls[i]
  BY <1>1, <1>3 DEF TypeOK
<1>5. new.activity = current.activity /\ new.kind = kind
  BY DEF ThisCall
<1> HIDE DEF new
<1>6. Logged("Started", new)
  <2>1. /\ Len(log) >= 2 /\ log[Len(log)].type = "Started"
        /\ SameActivity(log[Len(log)], state.activities[k])
    BY <1>1, <1>2 DEF Sound, OpenAtEnd
  <2>2. Len(log) \in DOMAIN log
    BY <1>1, <2>1 DEF TypeOK
  <2>3. QED
    BY <1>2, <1>5, <2>1, <2>2 DEF Logged, SameActivity
<1>7. CallsAreAnnounced'
  <2>1. \A i \in DOMAIN calls' : Logged("Started", calls[i])'
    <3>1. \A i \in DOMAIN calls : Logged("Started", calls[i])
      BY <1>1 DEF History, CallsAreAnnounced
    <3>2. TAKE i \in DOMAIN calls'
    <3>3. CASE i = n + 1
      BY <1>1, <1>4, <1>6, <3>3 DEF Logged
    <3>4. CASE i \in 1 .. n
      <4>1. calls'[i] = calls[i] /\ Logged("Started", calls[i])
        BY <1>4, <3>1, <3>4
      <4>2. QED
        BY <1>1, <4>1 DEF Logged
    <3>5. QED
      BY <1>4, <3>3, <3>4
  <2>2. \A i, j \in DOMAIN calls' : calls'[i].activity = calls'[j].activity => i = j
    <3>1. \A i, j \in DOMAIN calls : calls[i].activity = calls[j].activity => i = j
      BY <1>1 DEF History, CallsAreAnnounced
    <3>2. \A i \in DOMAIN calls : calls[i].activity # new.activity
      BY <1>5 DEF Uncalled
    <3>3. QED
      BY <1>4, <3>1, <3>2
  <2>3. QED
    BY <2>1, <2>2 DEF CallsAreAnnounced
<1>8. ResultsAreReal'
  <2>1. ASSUME NEW i \in DOMAIN log', log'[i].type \in {"Completed", "Failed"}
        PROVE  \E j \in DOMAIN calls' :
                 calls'[j] = [kind |-> log'[i].kind, activity |-> log'[i].activity]
    <3>1. PICK j \in DOMAIN calls : calls[j] = [kind |-> log[i].kind, activity |-> log[i].activity]
      BY <1>1, <2>1 DEF History, ResultsAreReal
    <3>2. j \in DOMAIN calls' /\ calls'[j] = calls[j]
      BY <1>4
    <3>3. QED
      BY <1>1, <3>1, <3>2
  <2>2. ASSUME NEW j \in 1 .. (Len(calls') - 1)
        PROVE  Logged("Completed", calls[j])' \/ Logged("Failed", calls[j])'
    <3>1. j \in DOMAIN calls /\ calls'[j] = calls[j]
      BY <1>4
    <3>2. Resulted(calls[j])
      BY <3>1
    <3>3. QED
      BY <1>1, <3>1, <3>2 DEF Resulted, Logged
  <2>3. QED
    BY <2>1, <2>2 DEF ResultsAreReal
<1>9. ArtifactsAreCommitted'
  BY <1>1 DEF History, ArtifactsAreCommitted, Logged
<1>10. \A i \in DOMAIN calls' : \E j \in DOMAIN state.activities :
         state.activities[j].activity = calls'[i].activity
  BY <1>1, <1>2, <1>4, <1>5 DEF History
<1>11. ASSUME NEW k1 \in Kinds
       PROVE  Cardinality(CallsOf(k1))' <= Used(k1)'
  <2>1. Cardinality(CallsOf(k1)) <= Used(k1) /\ Used(k1)' = Used(k1)
    BY <1>1 DEF History, Used
  <2>2. IsFiniteSet(CallsOf(k1)) /\ Cardinality(CallsOf(k1)) \in Nat
    BY <1>1, CallsCounted
  <2>3. CASE k1 = kind
    <3>1. CallsOf(k1)' = CallsOf(k1) \cup {n + 1} /\ n + 1 \notin CallsOf(k1)
      BY <1>4, <1>5, <2>3 DEF CallsOf
    <3>2. Cardinality(CallsOf(k1) \cup {n + 1}) = Cardinality(CallsOf(k1)) + 1
      BY <2>2, <3>1, FS_AddElement
    <3>3. Cardinality(CallsOf(k1)) + 1 <= Used(k1)
      BY <2>3 DEF Uncalled
    <3>4. QED
      BY <2>1, <3>1, <3>2, <3>3
  <2>4. CASE k1 # kind
    <3>1. CallsOf(k1)' = CallsOf(k1)
      BY <1>4, <1>5, <2>4 DEF CallsOf
    <3>2. QED
      BY <2>1, <3>1
  <2>5. QED
    BY <2>3, <2>4
<1>12. History'
  BY <1>1, <1>7, <1>8, <1>9, <1>10, <1>11 DEF History
<1>13. calls' # << >>
  BY <1>4
<1>14. QED
  BY <1>4, <1>12, <1>13 DEF new

\* The provider and the Tools are called only now.
LEMMA CallInductive ==
  ASSUME IInv, CallModel \/ CallTool
  PROVE  IInv'
<1> DEFINE kind == IF pc = "call_model" THEN "model" ELSE "tool"
           next == IF pc = "call_model" THEN "answer" ELSE "execute"
<1>1. /\ pc \in {"call_model", "call_tool"} /\ pc' = next
      /\ calls' = Append(calls, ThisCall(kind))
      /\ UNCHANGED <<store, clock, known, current, reply, queue, turns, shown, artifacts,
                     pending, resume, why>>
  BY DEF CallModel, CallTool, Goto, local, ThisCall
<1>2. /\ Live /\ TypeOK /\ Phase = pc /\ Ahead = pc /\ ~ AsksTool /\ Ahead' = pc' /\ ~ AsksTool'
      /\ UNCHANGED <<state, log>>
  BY <1>1 DEF IInv, Ended, Phase, Ahead, AsksTool, store
<1>3. kind \in Kinds
  BY DEF Kinds
<1>4. MatchingActivity(state, Mine(kind), "running") /\ (kind = "tool" => AskedAt(Len(log) - 1))
  BY <1>1, <1>2 DEF Live, RunAt
<1>5. Uncalled(kind) /\ \A i \in DOMAIN calls : Resulted(calls[i])
  BY <1>1, <1>2 DEF Live, CallsAt, ModelUncalled, ToolUncalled, ModelCalled, ToolCalled
<1>6. /\ History' /\ calls' \in Seq([kind : Kinds, activity : ActivityIds])
      /\ calls' # << >> /\ calls'[Len(calls')] = ThisCall(kind)
  <2> HIDE DEF kind
  <2>1. QED
    BY <1>1, <1>3, <1>4, <1>5, CallHistory
<1>7. RunAt(pc)'
  <2>1. RunAt(pc)
    BY <1>2 DEF Live
  <2>2. \A l : RunAt(l) => RunAt(l)'
    BY <1>1, RunAtKept
  <2>3. \A l : l = next => RunAt(l)'
    BY <1>1, <2>1, <2>2 DEF RunAt, IdleLabels, ModelCalled, ToolCalled
  <2>4. QED
    BY <1>1, <2>3
<1>8. CallsAt(pc)'
  <2>1. (kind = "model" => ThisCall("model")' = ThisCall(kind))
        /\ (kind = "tool" => ThisCall("tool")' = ThisCall(kind))
    BY <1>1 DEF ThisCall
  <2>2. \A l : l = next => CallsAt(l)'
    BY <1>1, <1>6, <2>1 DEF CallsAt, ModelUncalled, ToolUncalled, ModelCalled, ToolCalled
  <2>3. QED
    BY <1>1, <2>2
<1>9. RequestAt(pc)' /\ ArtifactAt(pc)'
  BY <1>1, <1>2 DEF RequestAt, ArtifactAt
<1>10. TurnsKnown'
  <2>1. Waiting' = Waiting /\ IdsIn(queue)' = IdsIn(queue) /\ Distinct(queue)' = Distinct(queue)
    BY <1>1, <1>2 DEF Waiting, IdsIn, Distinct
  <2>2. Ahead' \in ToolLabels => Ahead \in ToolLabels
    BY <1>1, <1>2 DEF ToolLabels, ToolUncalled, ToolCalled
  <2>3. pc' \notin {"complete_model", "request_tool"}
    BY <1>1
  <2>4. QED
    BY <1>1, <1>2, <2>1, <2>2, <2>3 DEF Live, TurnsKnown
<1>11. TypeOK'
  BY <1>1, <1>2, <1>6 DEF TypeOK
<1>12. QED
  BY <1>1, <1>2, <1>6, <1>7, <1>8, <1>9, <1>10, <1>11, MoveInductive
    DEF Ended, Labels, ModelCalled, ToolCalled

\* The answer of the provider: its Tool calls are distinct, and not those that
\* its context showed.
LEMMA AnswerModelInductive ==
  ASSUME IInv, AnswerModel
  PROVE  IInv'
<1>1. /\ pc = "answer" /\ pc' \in {"complete_model", "fail_model"}
      /\ Live /\ TypeOK /\ ~ AsksTool
      /\ UNCHANGED <<store, state, log, clock, known, current, turns, shown, artifacts, pending,
                     resume, calls, why>>
      /\ Ahead' = pc' /\ ~ AsksTool' /\ Phase = pc
  BY DEF AnswerModel, Goto, IInv, Ended, AsksTool, Ahead, Phase, store
<1>2. /\ queue' \in Seq(CallIds)
      /\ reply' \in [finish : {"none", "stop", "tool_calls", "failed"} \cup ToolFinishes, usage : Reported]
      /\ pc' = "complete_model" => Distinct(queue') /\ IdsIn(queue') \cap shown = {}
  <2>1. CASE pc' = "complete_model"
    <3>1. PICK u \in Reported, s \in Responses :
            /\ Distinct(s) /\ IdsIn(s) \cap shown = {}
            /\ reply' = [finish |-> IF s = << >> THEN "stop" ELSE "tool_calls", usage |-> u]
            /\ queue' = s
      BY <2>1 DEF AnswerModel, Goto
    <3>2. PICK n \in 0 .. MaxCalls : s \in [1 .. n -> CallIds]
      BY DEF Responses
    <3>3. n \in Nat
      BY LoopAssumption
    <3>4. s \in Seq(CallIds)
      BY <3>2, <3>3
    <3>5. reply' \in [finish : {"none", "stop", "tool_calls", "failed"} \cup ToolFinishes, usage : Reported]
      BY <3>1
    <3>6. QED
      BY <3>1, <3>4, <3>5
  <2>2. CASE pc' = "fail_model"
    <3>1. reply' = [finish |-> "failed", usage |-> NoUsage] /\ queue' = << >>
      BY <2>2 DEF AnswerModel, Goto
    <3>2. QED
      BY <2>2, <3>1, NoUsageReported
  <2>3. QED
    BY <1>1, <2>1, <2>2
<1>3. RunAt(pc)'
  <2>1. RunAt(pc)
    BY <1>1 DEF Live
  <2>2. \A l : RunAt(l) => RunAt(l)'
    BY <1>1, RunAtKept
  <2>3. \A l \in {"complete_model", "fail_model"} : RunAt(l)'
    BY <1>1, <2>1, <2>2 DEF RunAt, IdleLabels, ModelCalled, ToolCalled
  <2>4. QED
    BY <1>1, <2>3
<1>4. CallsAt(pc)'
  <2>1. CallsAt(pc)
    BY <1>1 DEF Live
  <2>2. \A l : CallsAt(l) => CallsAt(l)'
    BY <1>1, CallsAtKept
  <2>3. \A l \in {"complete_model", "fail_model"} : CallsAt(l)'
    BY <1>1, <2>1, <2>2 DEF CallsAt, ModelUncalled, ToolUncalled, ModelCalled, ToolCalled
  <2>4. QED
    BY <1>1, <2>3
<1>5. RequestAt(pc)' /\ ArtifactAt(pc)'
  BY <1>1 DEF RequestAt, ArtifactAt
<1>6. TurnsKnown'
  <2>1. IdsIn(queue)' = IdsIn(queue') /\ Distinct(queue)' = Distinct(queue')
    BY DEF IdsIn, Distinct
  <2>2. Ahead' \notin ToolLabels /\ pc' # "request_tool"
    BY <1>1 DEF ToolLabels, ToolUncalled, ToolCalled
  <2>3. QED
    BY <1>1, <1>2, <2>1, <2>2 DEF Live, TurnsKnown
<1>7. TypeOK' /\ History'
  BY <1>1, <1>2, StoreKept DEF TypeOK
<1>8. QED
  BY <1>1, <1>3, <1>4, <1>5, <1>6, <1>7, MoveInductive DEF Ended, Labels, ModelCalled

\* The answer of a Tool.
LEMMA ExecuteToolInductive ==
  ASSUME IInv, ExecuteTool
  PROVE  IInv'
<1>1. /\ pc = "execute" /\ pc' = "finish_tool"
      /\ Live /\ TypeOK /\ ~ AsksTool /\ Ahead = pc
      /\ UNCHANGED <<store, state, log, clock, known, current, queue, turns, shown, artifacts,
                     pending, resume, calls, why>>
      /\ Ahead' = pc' /\ ~ AsksTool' /\ Phase = pc
  BY DEF ExecuteTool, Goto, IInv, Ended, AsksTool, Ahead, Phase, store
<1>2. reply' \in [finish : {"none", "stop", "tool_calls", "failed"} \cup ToolFinishes, usage : Reported]
  BY NoUsageReported DEF ExecuteTool
<1>3. RunAt(pc)'
  <2>1. RunAt(pc)
    BY <1>1 DEF Live
  <2>2. \A l : RunAt(l) => RunAt(l)'
    BY <1>1, RunAtKept
  <2>3. \A l : l = "finish_tool" => RunAt(l)'
    BY <1>1, <2>1, <2>2 DEF RunAt, IdleLabels, ModelCalled, ToolCalled
  <2>4. QED
    BY <1>1, <2>3
<1>4. CallsAt(pc)'
  <2>1. CallsAt(pc)
    BY <1>1 DEF Live
  <2>2. \A l : CallsAt(l) => CallsAt(l)'
    BY <1>1, CallsAtKept
  <2>3. \A l : l = "finish_tool" => CallsAt(l)'
    BY <1>1, <2>1, <2>2 DEF CallsAt, ModelUncalled, ToolUncalled, ModelCalled, ToolCalled
  <2>4. QED
    BY <1>1, <2>3
<1>5. RequestAt(pc)' /\ ArtifactAt(pc)'
  BY <1>1 DEF RequestAt, ArtifactAt
<1>6. TurnsKnown'
  <2>1. Waiting' = Waiting /\ IdsIn(queue)' = IdsIn(queue) /\ Distinct(queue)' = Distinct(queue)
    BY <1>1 DEF Waiting, IdsIn, Distinct
  <2>2. Ahead \in ToolLabels
    BY <1>1 DEF ToolLabels, ToolCalled
  <2>3. QED
    BY <1>1, <2>1, <2>2 DEF Live, TurnsKnown
<1>7. TypeOK' /\ History'
  BY <1>1, <1>2, StoreKept DEF TypeOK
<1>8. QED
  BY <1>1, <1>3, <1>4, <1>5, <1>6, <1>7, MoveInductive DEF Ended, Labels, ToolCalled

\* An Artifact is collected after its result is committed.
LEMMA RecoverArtifactInductive ==
  ASSUME IInv, RecoverArtifact
  PROVE  IInv'
<1>1. /\ pc = "recover_artifact" /\ pc' \in {"fail_run", "next_tool"}
      /\ artifacts' = IF reply.finish = "artifact" THEN artifacts \cup {current.activity} ELSE artifacts
      /\ Live /\ TypeOK /\ History /\ ~ AsksTool /\ Ahead = pc
      /\ UNCHANGED <<store, state, log, clock, known, current, reply, queue, turns, shown,
                     pending, resume, calls, why>>
      /\ Ahead' = pc' /\ ~ AsksTool' /\ Phase = pc
  BY DEF RecoverArtifact, Goto, IInv, Ended, AsksTool, Ahead, Phase, store
<1>2. reply.finish = "artifact" => Logged("Completed", current)
  BY <1>1 DEF Live, ArtifactAt
<1>3. reply.finish = "artifact" => current.activity \in ActivityIds
  <2>1. ASSUME Logged("Completed", current)
        PROVE  current.activity \in ActivityIds
    <3>1. PICK i \in DOMAIN log : log[i].type = "Completed" /\ log[i].activity = current.activity
      BY <2>1 DEF Logged
    <3>2. PICK j \in DOMAIN calls : calls[j] = [kind |-> log[i].kind, activity |-> log[i].activity]
      BY <1>1, <3>1 DEF History, ResultsAreReal
    <3>3. calls \in Seq([kind : Kinds, activity : ActivityIds])
      BY <1>1 DEF TypeOK
    <3>4. \A S : calls \in Seq(S) => calls[j] \in S
      OBVIOUS
    <3>5. calls[j] \in [kind : Kinds, activity : ActivityIds]
      BY <3>3, <3>4
    <3>6. QED
      BY <3>1, <3>2, <3>5
  <2>2. QED
    BY <1>2, <2>1
<1>4. History'
  <2>1. CallsAreAnnounced' /\ ResultsAreReal'
    BY <1>1 DEF History, CallsAreAnnounced, ResultsAreReal, Logged
  <2>2. ArtifactsAreCommitted'
    <3>1. \A a \in artifacts : Logged("Completed", [activity |-> a])
      BY <1>1 DEF History, ArtifactsAreCommitted
    <3>2. \A a \in artifacts' : Logged("Completed", [activity |-> a])
      BY <1>1, <1>2, <3>1 DEF Logged
    <3>3. QED
      BY <1>1, <3>2 DEF ArtifactsAreCommitted, Logged
  <2>3. \A kind \in Kinds : Cardinality(CallsOf(kind))' <= Used(kind)'
    BY <1>1 DEF History, CallsOf, Used
  <2>4. QED
    BY <1>1, <2>1, <2>2, <2>3 DEF History
<1>5. TypeOK'
  BY <1>1, <1>3 DEF TypeOK
<1>6. RunAt(pc)' /\ CallsAt(pc)'
  BY <1>1, IdleKept DEF IdleLabels
<1>7. RequestAt(pc)' /\ ArtifactAt(pc)'
  BY <1>1 DEF RequestAt, ArtifactAt
<1>8. TurnsKnown'
  <2>1. Waiting' = Waiting /\ IdsIn(queue)' = IdsIn(queue) /\ Distinct(queue)' = Distinct(queue)
    BY <1>1 DEF Waiting, IdsIn, Distinct
  <2>2. Ahead \in ToolLabels /\ pc' \notin {"complete_model", "request_tool"}
    BY <1>1 DEF ToolLabels
  <2>3. QED
    BY <1>1, <2>1, <2>2 DEF Live, TurnsKnown
<1>9. QED
  BY <1>1, <1>4, <1>5, <1>6, <1>7, <1>8, MoveInductive DEF Ended, Labels, IdleLabels

-----------------------------------------------------------------------------
(* The invariant *)

\* The clock moves, or run() has ended: nothing else changes.
LEMMA IdleInductive ==
  ASSUME IInv, Tick \/ UNCHANGED vars
  PROVE  IInv'
<1>1. /\ UNCHANGED <<store, state, log, pc, known, current, reply, queue, turns, shown, artifacts,
                     pending, resume, calls, why>>
      /\ clock' \in Times
  BY DEF Tick, vars, store, local, IInv, TypeOK
<1>2. TypeOK' /\ OnlyRequestsRefused'
  BY <1>1 DEF IInv, TypeOK, OnlyRequestsRefused
<1>3. Sound(state, log)' /\ History'
  BY <1>1, StoreKept
<1>4. Live => Live'
  <2>1. Phase' = Phase /\ Ahead' = Ahead /\ AsksTool' = AsksTool /\ Waiting' = Waiting
        /\ IdsIn(queue)' = IdsIn(queue) /\ Distinct(queue)' = Distinct(queue)
    BY <1>1 DEF Phase, Ahead, AsksTool, Waiting, IdsIn, Distinct
  <2>2. PendingFits => PendingFits'
    BY <1>1 DEF PendingFits, Written, WrittenRun, WrittenModel, WrittenTool
  <2>3. RunAt(Phase) => RunAt(Phase)'
    BY <1>1, <2>1, RunAtKept
  <2>4. CallsAt(Phase) => CallsAt(Phase)'
    BY <1>1, <2>1, CallsAtKept
  <2>5. RequestAt(Phase) => RequestAt(Phase)'
    BY <1>1, <2>1, RoomKept DEF RequestAt
  <2>6. ArtifactAt(Phase) => ArtifactAt(Phase)'
    BY <1>1, <2>1 DEF ArtifactAt, Logged
  <2>7. TurnsKnown => TurnsKnown'
    BY <1>1, <2>1 DEF TurnsKnown
  <2>8. QED
    BY <1>1, <2>2, <2>3, <2>4, <2>5, <2>6, <2>7 DEF Live
<1>5. QED
  BY <1>1, <1>2, <1>3, <1>4 DEF IInv

\* run() starts before the Run exists.
LEMMA Initial == Init => IInv
<1> SUFFICES ASSUME Init PROVE IInv
  OBVIOUS
<1>1. /\ state = NoRun /\ log = << >> /\ known = NoRun /\ pc = "create" /\ why = "none"
      /\ pending = NoEvent /\ current = NoActivity /\ reply = NoReply /\ clock \in Times
      /\ queue = << >> /\ turns = << >> /\ shown = {} /\ artifacts = {} /\ calls = << >>
  BY DEF Init
<1>2. Sound(state, log)
  BY <1>1, NothingSound
<1>3. TypeOK
  <2>1. state \in RunState /\ log \in Seq(Event) /\ known \in RunState
    BY <1>1, <1>2 DEF Sound, Typed
  <2>2. reply \in [finish : {"none", "stop", "tool_calls", "failed"} \cup ToolFinishes, usage : Reported]
    BY <1>1, NoUsageReported DEF NoReply
  <2>3. QED
    BY <1>1, <2>1, <2>2 DEF TypeOK, NoActivity
<1>4. History
  <2>1. \A kind \in Kinds : Cardinality(CallsOf(kind)) <= Used(kind)
    <3>1. \A kind : CallsOf(kind) = {}
      BY <1>1 DEF CallsOf
    <3>2. \A kind : Used(kind) = 0
      BY <1>1 DEF Used, NoRun
    <3>3. QED
      BY <3>1, <3>2, FS_EmptySet
  <2>2. CallsAreAnnounced /\ ResultsAreReal /\ ArtifactsAreCommitted
    BY <1>1 DEF CallsAreAnnounced, ResultsAreReal, ArtifactsAreCommitted
  <2>3. QED
    BY <1>1, <2>1, <2>2 DEF History, NoRun
<1>5. Live
  <2>1. Phase = "create" /\ Ahead = "create" /\ ~ AsksTool
    BY <1>1 DEF Phase, Ahead, AsksTool
  <2>2. RunAt("create") /\ CallsAt("create") /\ RequestAt("create") /\ ArtifactAt("create")
    BY <1>1, <2>1 DEF RunAt, CallsAt, RequestAt, ArtifactAt, IdleLabels, ModelUncalled, ModelCalled,
       ToolUncalled, ToolCalled
  <2>3. TurnsKnown
    BY <1>1, <2>1 DEF TurnsKnown, NoRun, ToolLabels, ToolUncalled, ToolCalled
  <2>4. QED
    BY <1>1, <2>1, <2>2, <2>3 DEF Live
<1>6. QED
  BY <1>1, <1>2, <1>3, <1>4, <1>5 DEF IInv, OnlyRequestsRefused, Labels

\* Every step of the loop and of its surroundings keeps the invariant.
LEMMA Inductive == IInv /\ [Next]_vars => IInv'
<1> SUFFICES ASSUME IInv, [Next]_vars PROVE IInv'
  OBVIOUS
<1>1. CASE CreateRun
  BY <1>1, CreateRunInductive
<1>2. CASE StartRun
  BY <1>2, StartRunInductive
<1>3. CASE FailRun \/ SucceedRun
  BY <1>3, EndRunInductive
<1>4. CASE CheckModel \/ NextTool
  BY <1>4, ChecksInductive
<1>5. CASE BuildContext
  BY <1>5, BuildContextInductive
<1>6. CASE RequestModel
  BY <1>6, RequestModelInductive
<1>7. CASE BeginModel \/ BeginTool
  BY <1>7, BeginInductive
<1>8. CASE CallModel \/ CallTool
  BY <1>8, CallInductive
<1>9. CASE AnswerModel
  BY <1>9, AnswerModelInductive
<1>10. CASE CompleteModel
  BY <1>10, CompleteModelInductive
<1>11. CASE FailModel
  BY <1>11, FailModelInductive
<1>12. CASE RequestTool
  BY <1>12, RequestToolInductive
<1>13. CASE ExecuteTool
  BY <1>13, ExecuteToolInductive
<1>14. CASE FinishTool
  BY <1>14, FinishToolInductive
<1>15. CASE RecoverArtifact
  BY <1>15, RecoverArtifactInductive
<1>16. CASE Appended
  BY <1>16, AppendedInductive
<1>17. CASE Rejected
  BY <1>17, RejectedInductive
<1>18. CASE StoreFails \/ Cancel \/ Crash
  BY <1>18, FailureInductive
<1>19. CASE Tick \/ Done \/ UNCHANGED vars
  BY <1>19, IdleInductive DEF Done
<1>20. QED
  BY <1>1, <1>2, <1>3, <1>4, <1>5, <1>6, <1>7, <1>8, <1>9, <1>10, <1>11, <1>12, <1>13, <1>14,
     <1>15, <1>16, <1>17, <1>18, <1>19 DEF Next, Step

\* The invariant holds of every reachable state.
LEMMA Invariant == Spec => []IInv
BY Initial, Inductive, PTL DEF Spec

-----------------------------------------------------------------------------
(* What it implies *)

\* What run() holds in memory is what is committed, its external calls stay
\* within the limits of the Run, and the Artifacts it returns are those of
\* committed results: for any limits, provider, Tools and failures.
THEOREM MemoryIsCommitted == Spec => []LoopInvariant
<1>1. IInv => LoopInvariant
  <2> SUFFICES ASSUME IInv PROVE LoopInvariant
    OBVIOUS
  <2>1. TypeOK /\ History /\ Sound(state, log)
    BY DEF IInv
  <2>2. KnowsItsRun
    BY DEF IInv, KnowsItsRun, Live, Ended
  <2>3. CallsWithinLimits
    <3>1. /\ state.usage.iterations \in Nat /\ state.limits.iterations \in Nat
          /\ state.usage.tools \in Nat /\ state.limits.tools \in Nat
      BY <2>1 DEF TypeOK, RunState, BudgetUsage, Limits
    <3>2. /\ state.usage.iterations <= state.limits.iterations
          /\ state.usage.tools <= state.limits.tools
      BY <2>1 DEF Sound, BudgetKept
    <3>3. /\ Cardinality(CallsOf("model")) <= state.usage.iterations
          /\ Cardinality(CallsOf("tool")) <= state.usage.tools
          /\ Cardinality(CallsOf("model")) \in Nat /\ Cardinality(CallsOf("tool")) \in Nat
      BY <2>1, CallsCounted DEF History, Used, Kinds
    <3>4. QED
      BY <3>1, <3>2, <3>3 DEF CallsWithinLimits, CallsOf
  <2>4. QED
    BY <2>1, <2>2, <2>3 DEF LoopInvariant, History
<1>2. QED
  BY <1>1, Invariant, PTL

\* No external call without a committed Started, and none twice, wherever run()
\* is interrupted.
THEOREM CallsAnnounced == Spec => []CallsAreAnnounced
<1>1. IInv => CallsAreAnnounced
  BY DEF IInv, History
<1>2. QED
  BY <1>1, Invariant, PTL

\* No committed result without the external call it is the result of, and no
\* second call while the result of the first is missing.
THEOREM ResultsReal == Spec => []ResultsAreReal
<1>1. IInv => ResultsAreReal
  BY DEF IInv, History
<1>2. QED
  BY <1>1, Invariant, PTL

\* run() returns only a Run that is committed as terminal.
THEOREM TerminalReturned == Spec => []ReturnsTerminal
<1>1. IInv => ReturnsTerminal
  BY DEF IInv, Live, RunAt, Phase, ReturnsTerminal
<1>2. QED
  BY <1>1, Invariant, PTL

\* Of what run() appends the reducer refuses at most a request, and only for the
\* clock or for a Tool call that the provider repeats.
THEOREM ReportsAccepted == Spec => []OnlyRequestsRefused
<1>1. IInv => OnlyRequestsRefused
  BY DEF IInv
<1>2. QED
  BY <1>1, Invariant, PTL

-----------------------------------------------------------------------------
(* The loop's stream is one of the reducer's *)

\* RunReducer is instantiated with the loop's constants and variables: its
\* operators are those the loop uses.
LEMMA SameReducer ==
  ASSUME NEW s, NEW h, NEW e
  PROVE  /\ Reducer!Reduced(s, e) = Reduced(s, e)
         /\ Reducer!HistoryValid(h, e) = HistoryValid(h, e)
         /\ Reducer!Reducible(s, e) = Reducible(s, e)
<1>1. Reducer!Reduced(s, e) = Reduced(s, e)
  BY DEF Reducer!Reduced, Reduced, Reducer!Created, Created, Reducer!NoRun, NoRun,
     Reducer!NoLimits, NoLimits, Reducer!NoTime, NoTime, Reducer!WithStatus, WithStatus,
     Reducer!WithRequested, WithRequested, Reducer!Counted, Counted,
     Reducer!WithActivity, WithActivity, Reducer!WithTerminal, WithTerminal,
     Reducer!ModelUsage, ModelUsage
<1>2. Reducer!HistoryValid(h, e) = HistoryValid(h, e)
  BY DEF Reducer!HistoryValid, HistoryValid, Reducer!EVIDENCE_VERSION, EVIDENCE_VERSION,
     Reducer!SameActivity, SameActivity
<1>3. Reducer!Guard(s, e) = Guard(s, e) /\ Reducer!IsTerminal(s) = IsTerminal(s)
  BY DEF Reducer!Guard, Guard, Reducer!RequestGuard, RequestGuard, Reducer!RequestReady,
     RequestReady, Reducer!HasActive, HasActive, Reducer!IsActive, IsActive,
     Reducer!UniqueIds, UniqueIds, Reducer!BudgetCheckable, BudgetCheckable,
     Reducer!BudgetExhausted, BudgetExhausted, Reducer!Tokens, Tokens,
     Reducer!MatchingActivity, MatchingActivity, Reducer!IsTerminal, IsTerminal
<1>4. Reducer!Addressed(s, e) = Addressed(s, e)
  BY DEF Reducer!Addressed, Addressed
<1>5. \A t : Reducer!Valid(t) = Valid(t)
  BY DEF Reducer!Valid, Valid, Reducer!UsageInBounds, UsageInBounds,
     Reducer!MAX_CUMULATIVE_TOKENS, MAX_CUMULATIVE_TOKENS,
     Reducer!MAX_CUMULATIVE_COST_MICROUSD, MAX_CUMULATIVE_COST_MICROUSD,
     Reducer!ConsistentProjection, ConsistentProjection, Reducer!IsTerminal, IsTerminal,
     Reducer!HasActive, HasActive, Reducer!IsActive, IsActive, Reducer!NoTime, NoTime
<1>6. Reducer!Reducible(s, e) = Reducible(s, e)
  BY <1>1, <1>3, <1>4, <1>5 DEF Reducer!Reducible, Reducible
<1>7. QED
  BY <1>1, <1>2, <1>6

\* The store changes only by the commit of the Event that run() appends.
LEMMA StoreSteps ==
  ASSUME [Next]_vars
  PROVE  UNCHANGED <<state, log>> \/ (pc = "append" /\ Commits(pending))
<1> USE DEF store
<1>1. CASE CreateRun \/ StartRun \/ FailRun \/ SucceedRun
  BY <1>1 DEF CreateRun, StartRun, FailRun, SucceedRun, Build
<1>2. CASE CheckModel \/ BuildContext \/ RequestModel \/ BeginModel \/ CallModel
  BY <1>2 DEF CheckModel, CheckBudget, BuildContext, RequestModel, BeginModel, CallModel, Build
<1>3. CASE AnswerModel \/ CompleteModel \/ FailModel
  BY <1>3 DEF AnswerModel, CompleteModel, FailModel, Build
<1>4. CASE NextTool \/ RequestTool \/ BeginTool \/ CallTool
  BY <1>4 DEF NextTool, CheckBudget, RequestTool, BeginTool, CallTool, Build
<1>5. CASE ExecuteTool \/ FinishTool \/ RecoverArtifact
  BY <1>5 DEF ExecuteTool, FinishTool, RecoverArtifact, Build
<1>6. CASE Appended \/ Rejected
  BY <1>6 DEF Appended, Rejected
<1>7. CASE StoreFails \/ Cancel \/ Crash
  BY <1>7 DEF StoreFails, Cancel, Crash, Interrupted
<1>8. CASE Tick \/ Done \/ UNCHANGED vars
  BY <1>8 DEF Tick, Done, vars
<1>9. QED
  BY <1>1, <1>2, <1>3, <1>4, <1>5, <1>6, <1>7, <1>8 DEF Next, Step

\* What is committed next is one of the Events the reducer is offered next.
LEMMA PendingOffered ==
  ASSUME IInv, pc = "append"
  PROVE  LET n == state.last_sequence + 1
         IN  \/ pending \in Reducer!CreatedEvents(TheRun, n)
             \/ pending \in Reducer!StartedEvents(TheRun, n)
             \/ pending \in Reducer!FinishedEvents(TheRun, n)
             \/ pending \in Reducer!ModelRequests(TheRun, n)
             \/ pending \in Reducer!ToolRequests(TheRun, n)
             \/ pending \in Reducer!ActivityStarts(TheRun, n)
             \/ pending \in Reducer!ModelResults(TheRun, n)
             \/ pending \in Reducer!ToolResults(TheRun, n)
<1> DEFINE n == state.last_sequence + 1
           a == current.activity
           c == current.call
           evidence == [version |-> RUN_EVENT_SCHEMA_VERSION, request |-> current.request]
<1>1. /\ PendingFits /\ PendingIs /\ WellFormed(pending) /\ Live /\ TypeOK
      /\ state \in RunState /\ reply.usage \in Reported
  BY PendingWellFormed DEF Live, IInv, TypeOK
<1>2. pending.type \in {"Requested", "Started", "Completed", "Failed"} =>
        a \in ActivityIds /\ c \in CallIds
  BY <1>1 DEF PendingIs, WellFormed, SameActivity, Mine
<1>3. pending.kind = "tool" /\ pending.type \in {"Requested", "Completed", "Failed"} =>
        evidence \in Reducer!Evidence
  <2>1. ASSUME pending.kind = "tool", pending.type = "Requested"
        PROVE  current.request \in Requests
    BY <1>1, <2>1 DEF PendingIs, Live, RequestAt
  <2>2. ASSUME pending.kind = "tool", pending.type \in {"Completed", "Failed"}
        PROVE  current.request \in Requests
    BY <1>1, <2>2 DEF PendingIs, Live, RunAt, ToolCalled, AskedAt
  <2>3. current.request \in Requests => evidence \in Reducer!Evidence
    BY LoopAssumption, NoneAssumption
      DEF Reducer!Evidence, Reducer!EVIDENCE_VERSION, RUN_EVENT_SCHEMA_VERSION
  <2>4. QED
    BY <2>1, <2>2, <2>3
<1> USE DEF Reducer!Blank, Reducer!NoUsage, Reducer!NoLimits, Reducer!NoTime,
            Reducer!NoEvidence, NoUsage, NoLimits, NoTime, Written
<1>4. CASE \E l \in LimitChoices : pending = WrittenRun("RunCreated", NoTime, l)
  BY <1>4 DEF Reducer!CreatedEvents, WrittenRun
<1>5. CASE \E t \in Times : pending = WrittenRun("RunStarted", t, NoLimits)
  BY <1>5 DEF Reducer!StartedEvents, WrittenRun
<1>6. CASE \E type \in {"RunSucceeded", "RunFailed"} :
             pending = WrittenRun(type, NoTime, NoLimits)
  BY <1>6 DEF Reducer!FinishedEvents, WrittenRun
<1>7. CASE \E t \in Times : pending = WrittenModel("Requested", t, NoUsage)
  <2>1. PICK t \in Times : pending = WrittenModel("Requested", t, NoUsage)
    BY <1>7
  <2>2. pending = Reducer!RequestEvent(TheRun, n, "model", a, c, t, Reducer!NoEvidence)
    <3>1. ASSUME NEW x, x = Reducer!RequestEvent(TheRun, n, "model", a, c, t, Reducer!NoEvidence)
          PROVE  x = WrittenModel("Requested", t, NoUsage)
      BY <3>1 DEF Reducer!RequestEvent, WrittenModel
    <3>2. QED
      BY <2>1, <3>1
  <2>3. a \in ActivityIds /\ c \in CallIds
    BY <1>2, <2>1 DEF WrittenModel
  <2>4. QED
    BY <2>2, <2>3 DEF Reducer!ModelRequests
<1>8. CASE \E t \in Times : pending =
             WrittenTool("Requested", current.request, RUN_EVENT_SCHEMA_VERSION, t)
  <2>1. PICK t \in Times : pending =
             WrittenTool("Requested", current.request, RUN_EVENT_SCHEMA_VERSION, t)
    BY <1>8
  <2>2. pending = Reducer!RequestEvent(TheRun, n, "tool", a, c, t, evidence)
    <3>1. ASSUME NEW x, x = Reducer!RequestEvent(TheRun, n, "tool", a, c, t, evidence)
          PROVE  x = WrittenTool("Requested", current.request, RUN_EVENT_SCHEMA_VERSION, t)
      BY <3>1 DEF Reducer!RequestEvent, WrittenTool
    <3>2. QED
      BY <2>1, <3>1
  <2>3. a \in ActivityIds /\ c \in CallIds /\ evidence \in Reducer!Evidence
    BY <1>2, <1>3, <2>1 DEF WrittenTool
  <2>4. QED
    BY <2>2, <2>3 DEF Reducer!ToolRequests
<1>9. CASE pending = WrittenModel("Started", NoTime, NoUsage)
  <2>1. pending = Reducer!StartEvent(TheRun, n, "model", a, c)
    <3>1. ASSUME NEW x, x = Reducer!StartEvent(TheRun, n, "model", a, c)
          PROVE  x = WrittenModel("Started", NoTime, NoUsage)
      BY <3>1 DEF Reducer!StartEvent, WrittenModel
    <3>2. QED
      BY <1>9, <3>1
  <2>2. a \in ActivityIds /\ c \in CallIds
    BY <1>2, <1>9 DEF WrittenModel
  <2>3. QED
    BY <2>1, <2>2 DEF Reducer!ActivityStarts, Reducer!Kinds
<1>10. CASE pending = WrittenTool("Started", None, 1, NoTime)
  <2>1. pending = Reducer!StartEvent(TheRun, n, "tool", a, c)
    <3>1. ASSUME NEW x, x = Reducer!StartEvent(TheRun, n, "tool", a, c)
          PROVE  x = WrittenTool("Started", None, 1, NoTime)
      BY <3>1 DEF Reducer!StartEvent, WrittenTool
    <3>2. QED
      BY <1>10, <3>1
  <2>2. a \in ActivityIds /\ c \in CallIds
    BY <1>2, <1>10 DEF WrittenTool
  <2>3. QED
    BY <2>1, <2>2 DEF Reducer!ActivityStarts, Reducer!Kinds
<1>11. CASE \E type \in {"Completed", "Failed"} : pending = WrittenModel(type, NoTime, reply.usage)
  <2>1. PICK type \in {"Completed", "Failed"} : pending = WrittenModel(type, NoTime, reply.usage)
    BY <1>11
  <2>2. pending = Reducer!ResultEvent(TheRun, n, type, "model", a, c, Reducer!NoEvidence, reply.usage)
    <3>1. ASSUME NEW x, x = Reducer!ResultEvent(TheRun, n, type, "model", a, c, Reducer!NoEvidence, reply.usage)
          PROVE  x = WrittenModel(type, NoTime, reply.usage)
      BY <3>1 DEF Reducer!ResultEvent, WrittenModel
    <3>2. QED
      BY <2>1, <3>1
  <2>3. a \in ActivityIds /\ c \in CallIds
    BY <1>2, <2>1 DEF WrittenModel
  <2>4. QED
    BY <1>1, <2>2, <2>3 DEF Reducer!ModelResults, Reported
<1>12. CASE \E type \in {"Completed", "Failed"} :
              pending = WrittenTool(type, current.request, RUN_EVENT_SCHEMA_VERSION, NoTime)
  <2>1. PICK type \in {"Completed", "Failed"} :
          pending = WrittenTool(type, current.request, RUN_EVENT_SCHEMA_VERSION, NoTime)
    BY <1>12
  <2>2. pending = Reducer!ResultEvent(TheRun, n, type, "tool", a, c, evidence, NoUsage)
    <3>1. ASSUME NEW x, x = Reducer!ResultEvent(TheRun, n, type, "tool", a, c, evidence, NoUsage)
          PROVE  x = WrittenTool(type, current.request, RUN_EVENT_SCHEMA_VERSION, NoTime)
      BY <3>1 DEF Reducer!ResultEvent, WrittenTool
    <3>2. QED
      BY <2>1, <3>1
  <2>3. a \in ActivityIds /\ c \in CallIds /\ evidence \in Reducer!Evidence
    BY <1>2, <1>3, <2>1 DEF WrittenTool
  <2>4. QED
    BY <2>2, <2>3 DEF Reducer!ToolResults
<1> HIDE DEF Reducer!Blank, Reducer!NoUsage, Reducer!NoLimits, Reducer!NoTime,
             Reducer!NoEvidence, NoUsage, NoLimits, NoTime, Written
<1>13. QED
  BY <1>1, <1>4, <1>5, <1>6, <1>7, <1>8, <1>9, <1>10, <1>11, <1>12 DEF PendingFits

\* A commit is the reducer's Offer of the next Event.
LEMMA CommitOffers ==
  ASSUME IInv, Measured(state, log), pc = "append", Commits(pending)
  PROVE  /\ Measured(state', log') /\ Len(log') <= MaxEvents
         /\ Reducer!Offer(TheRun, Len(log'))
<1>1. /\ WellFormed(pending) /\ Sound(state, log) /\ Sound(state', log')
      /\ Folds(state, log, pending, state', log') /\ Len(log') = Len(log) + 1
  BY CommitFolds
<1>2. Measured(state', log')
  BY <1>1, FoldMeasured
<1>3. Len(log') <= MaxEvents
  <2>1. Len(log') <= 3 + 3 * (MAX_MODEL_ITERATIONS + MAX_TOOL_CALLS)
    BY <1>1, <1>2, StreamLength
  <2>2. Len(log') \in Nat
    BY <1>1 DEF Sound, Typed
  <2>3. QED
    BY <2>1, <2>2, LoopAssumption, BoundsAssumption
<1>4. Len(log') = state.last_sequence + 1
  BY <1>1 DEF Measured
<1>5. Reducer!Fold(pending)
  <2>1. /\ Reducer!HistoryValid(log, pending) = HistoryValid(log, pending)
        /\ Reducer!Reducible(state, pending) = Reducible(state, pending)
        /\ Reducer!Reduced(state, pending) = Reduced(state, pending)
    BY SameReducer
  <2>2. QED
    BY <2>1 DEF Commits, Reducer!Fold
<1>6. Reducer!Offer(TheRun, state.last_sequence + 1)
  <2> DEFINE n == state.last_sequence + 1
  <2>1. \/ pending \in Reducer!CreatedEvents(TheRun, n)
        \/ pending \in Reducer!StartedEvents(TheRun, n)
        \/ pending \in Reducer!FinishedEvents(TheRun, n)
        \/ pending \in Reducer!ModelRequests(TheRun, n)
        \/ pending \in Reducer!ToolRequests(TheRun, n)
        \/ pending \in Reducer!ActivityStarts(TheRun, n)
        \/ pending \in Reducer!ModelResults(TheRun, n)
        \/ pending \in Reducer!ToolResults(TheRun, n)
    BY PendingOffered
  <2> HIDE DEF n
  <2>2. Reducer!Offer(TheRun, n)
    BY <1>5, <2>1 DEF Reducer!Offer, Reducer!CreateRun, Reducer!StartRun, Reducer!RequestModel,
       Reducer!RequestTool, Reducer!StartActivity, Reducer!FinishModel, Reducer!FinishTool,
       Reducer!FinishRun
  <2>3. QED
    BY <2>2 DEF n
<1>7. QED
  BY <1>2, <1>3, <1>4, <1>6

\* The stream that the loop commits is a behaviour of the reducer's state
\* machine: every step of the loop is one Event the reducer takes, the next of
\* the Run's stream, or leaves the stream alone.
THEOREM LoopImplementsReducer == Spec => ImplementsReducer
<1>1. Init => Reducer!Init /\ Measured(state, log)
  BY NothingMeasured DEF Init, Reducer!Init, Reducer!NoRun, NoRun, Reducer!NoLimits, NoLimits,
     Reducer!NoTime, NoTime
<1>2. IInv /\ Measured(state, log) /\ [Next]_vars =>
        /\ Measured(state, log)'
        /\ [Len(log') <= MaxEvents /\ Reducer!Offer(TheRun, Len(log'))]_<<state, log>>
  <2> SUFFICES ASSUME IInv, Measured(state, log), [Next]_vars
               PROVE  /\ Measured(state, log)'
                      /\ [Len(log') <= MaxEvents /\ Reducer!Offer(TheRun, Len(log'))]_<<state, log>>
    OBVIOUS
  <2>1. CASE UNCHANGED <<state, log>>
    BY <2>1
  <2>2. CASE pc = "append" /\ Commits(pending)
    BY <2>2, CommitOffers
  <2>3. QED
    BY <2>1, <2>2, StoreSteps
<1>3. QED
  BY <1>1, <1>2, Invariant, PTL DEF Spec, ImplementsReducer
==============================================================================
