------------------------------ MODULE RunReducer ------------------------------
(***************************************************************************)
(* The reducer as a state machine (runtime/reducer.py, reduce_events): an  *)
(* arbitrary stream of Events is offered to it one by one, each is folded  *)
(* into `state` when reduce_event and validate_event_history let it pass,  *)
(* and is refused, changing nothing, when one of them raises.  The stream  *)
(* is not assumed to come from the AgentLoop: the durable store and replay *)
(* meet whatever was written.                                              *)
(***************************************************************************)
EXTENDS RunEvents, FiniteSets

CONSTANT MaxEvents      \* bound: length of the stream that is explored
ASSUME MaxEventsAssumption == MaxEvents \in Nat

VARIABLES
  state,    \* the RunState reduce_events holds, NoRun before the first Event
  log       \* prior_events: the Events accepted so far
vars == <<state, log>>

-----------------------------------------------------------------------------
Init == state = NoRun /\ log = << >>

\* one turn of reduce_events: the history check, then reduce_event
Fold(e) ==
  /\ HistoryValid(log, e)
  /\ Reducible(state, e)
  /\ state' = Reduced(state, e)
  /\ log' = Append(log, e)

CreateRun(r, n) == \E e \in CreatedEvents(r, n) : Fold(e)
StartRun(r, n) == \E e \in StartedEvents(r, n) : Fold(e)
RequestModel(r, n) == \E e \in ModelRequests(r, n) : Fold(e)
RequestTool(r, n) == \E e \in ToolRequests(r, n) : Fold(e)
StartActivity(r, n) == \E e \in ActivityStarts(r, n) : Fold(e)
FinishModel(r, n) == \E e \in ModelResults(r, n) : Fold(e)
FinishTool(r, n) == \E e \in ToolResults(r, n) : Fold(e)
FinishRun(r, n) == \E e \in FinishedEvents(r, n) : Fold(e)

Offer(r, n) ==
  \/ CreateRun(r, n)
  \/ StartRun(r, n)
  \/ RequestModel(r, n)
  \/ RequestTool(r, n)
  \/ StartActivity(r, n)
  \/ FinishModel(r, n)
  \/ FinishTool(r, n)
  \/ FinishRun(r, n)

Next == \E r \in RunIds, n \in 1 .. MaxEvents : Offer(r, n)

Spec == Init /\ [][Next]_vars

-----------------------------------------------------------------------------
(* Properties *)

\* Type correctness of the fold's two accumulators.
TypeOK == state \in RunState /\ log \in Seq(Event)

\* reduce_event re-validates every state it builds and raises "Run Event would
\* produce invalid state" when RunState or BudgetUsage reject it.  Its guards
\* exclude that but for one case, which the payload models let through: usage
\* beyond what a ModelUsage and its price can be.  In particular a model call
\* that passed the budget check can report any ModelUsage, whatever the Run has
\* used before, and no order of Events makes an inconsistent projection.
OnlyExcessIsRefused ==
  \A r \in RunIds : \A e \in Payloads(r, state.last_sequence + 1) :
    Addressed(state, e) /\ ~ IsTerminal(state) /\ Guard(state, e)
    => /\ ConsistentProjection(Reduced(state, e))
       /\ Reportable(e.usage) => UsageInBounds(Reduced(state, e).usage)

\* The stream is serial although reduce_event never looks at the order of
\* Events as such: an Activity's Started directly follows its own Requested,
\* its terminal Event directly follows its own Started, and the next request
\* or the end of the Run waits for that terminal Event.
Serial ==
  \A i \in 1 .. (Len(log) - 1) :
    LET d == log[i]
        e == log[i + 1]
    IN  /\ d.type = "Requested" <=> e.type = "Started"
        /\ d.type = "Started" <=> e.type \in {"Completed", "Failed"}
        /\ d.type \in {"Requested", "Started"} => SameActivity(d, e)

\* validate_event_history finds the request of a Tool by its position, two
\* Events back.  What it finds is always the request of the very Activity
\* that ends, so recorded evidence never answers another request.
EvidenceOfSameActivity ==
  \A i \in DOMAIN log :
    LET e == log[i]
    IN  e.type \in {"Completed", "Failed"} /\ e.kind = "tool" /\ e.version >= EVIDENCE_VERSION
        => \E j \in 1 .. (i - 1) :
             /\ log[j].type = "Requested" /\ SameActivity(log[j], e)
             /\ log[j].request = e.request /\ log[j].version = e.version

\* The projection's counters are those of the stream: every accepted request
\* is counted once and in its own dimension, and no Event of another type is.
CountsRequests ==
  LET requested(k) == {i \in DOMAIN log : log[i].type = "Requested" /\ log[i].kind = k}
  IN  /\ state.usage.iterations = Cardinality(requested("model"))
      /\ state.usage.tools = Cardinality(requested("tool"))

\* Requests never outnumber their limits, and while an Activity is open the
\* Run was below its token and cost limits when it was requested: a Run exceeds
\* those by at most the one model call that was already under way.
WithinBudget ==
  /\ state.usage.iterations <= state.limits.iterations
  /\ state.usage.tools <= state.limits.tools
  /\ HasActive(state) => /\ Tokens(state.usage) < state.limits.tokens
                         /\ state.usage.cost < state.limits.cost

\* No Event takes back what the projection already says: Activities keep their
\* place and identity and move only forward, a finished Activity and a finished
\* Run are final, and usage never decreases.
OnlyForward ==
  /\ IsTerminal(state) => state' = state
  /\ state.status # "absent" => state'.run = state.run /\ state'.limits = state.limits
  /\ \A i \in DOMAIN state.activities :
       /\ i \in DOMAIN state'.activities
       /\ SameActivity(state'.activities[i], state.activities[i])
       /\ state'.activities[i].status \in Successors(state.activities[i].status)
  /\ \A f \in {"iterations", "input", "output", "cost", "tools"} :
       state'.usage[f] >= state.usage[f]
ProjectionOnlyForward == [][OnlyForward]_vars
==============================================================================
