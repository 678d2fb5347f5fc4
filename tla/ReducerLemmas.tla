---------------------------- MODULE ReducerLemmas ----------------------------
(***************************************************************************)
(* Facts about reduce_event and validate_event_history (RunEvents) for     *)
(* every value of the constants, stated over any projection s and history  *)
(* h: what one Event does to a RunState, and that an Event the reducer     *)
(* takes leads from a sound pair of projection and history to a sound one. *)
(* The proofs about the reducer's own machine (RunReducer), the loop       *)
(* (AgentLoop) and the durable store (EventStore) rest on them.            *)
(***************************************************************************)
EXTENDS RunEvents, FiniteSets, FiniteSetTheorems, TLAPS

\* What the payload models guarantee of an Event, whatever its stream.
WellFormed(e) ==
  /\ e \in Event
  /\ e.type = "RunCreated" => e.limits \in LimitChoices
  /\ e.type \in {"RunStarted", "Requested"} => e.at \in Nat
  /\ e.type \in {"Requested", "Started", "Completed", "Failed"} =>
       e.activity \in ActivityIds /\ e.call \in CallIds /\ e.kind \in Kinds
  /\ e.usage \in Usages \cup {NoUsage}

\* The reducer takes e after the history h and leads from s to s1.
Folds(s, h, e, s1, h1) ==
  /\ HistoryValid(h, e) /\ Reducible(s, e)
  /\ s1 = Reduced(s, e) /\ h1 = Append(h, e)

-----------------------------------------------------------------------------
(* What holds of a projection and the history it is the fold of *)

Typed(s, h) == s \in RunState /\ h \in Seq(Event)

\* The projection is one that RunState accepts, for limits that were validated.
Projected(s, h) ==
  /\ s.status = "absent" => s = NoRun /\ h = << >>
  /\ s.status # "absent" => ConsistentProjection(s) /\ s.limits \in LimitChoices
  /\ UsageInBounds(s.usage)

\* The end of the history and the open Activity determine each other: this is
\* what makes the reducer's state-based guards enforce an order of Events.
OpenAtEnd(s, h) ==
  LET acts == s.activities
      m == Len(h)
  IN  /\ \A i \in DOMAIN acts :
           /\ acts[i].status = "pending" =>
                m >= 1 /\ h[m].type = "Requested" /\ SameActivity(h[m], acts[i])
           /\ acts[i].status = "running" =>
                /\ m >= 2
                /\ h[m].type = "Started" /\ SameActivity(h[m], acts[i])
                /\ h[m - 1].type = "Requested" /\ SameActivity(h[m - 1], acts[i])
      /\ m >= 1 =>
           /\ h[m].type = "Requested" => \E i \in DOMAIN acts : acts[i].status = "pending"
           /\ h[m].type = "Started" => \E i \in DOMAIN acts : acts[i].status = "running"

\* Requests stay below their limits, usage does while an Activity is open.
BudgetKept(s) ==
  /\ s.usage.iterations <= s.limits.iterations
  /\ s.usage.tools <= s.limits.tools
  /\ HasActive(s) => /\ Tokens(s.usage) < s.limits.tokens
                     /\ s.usage.cost < s.limits.cost

\* Requested, Started and result of one Activity follow each other.
InSeries(h) ==
  \A i \in 1 .. (Len(h) - 1) :
    LET d == h[i]
        e == h[i + 1]
    IN  /\ d.type = "Requested" <=> e.type = "Started"
        /\ d.type = "Started" <=> e.type \in {"Completed", "Failed"}
        /\ d.type \in {"Requested", "Started"} => SameActivity(d, e)

\* Recorded evidence answers a request of the same Activity.
EvidenceAnswers(h) ==
  \A i \in DOMAIN h :
    LET e == h[i]
    IN  e.type \in {"Completed", "Failed"} /\ e.kind = "tool" /\ e.version >= EVIDENCE_VERSION
        => \E j \in 1 .. (i - 1) :
             /\ h[j].type = "Requested" /\ SameActivity(h[j], e)
             /\ h[j].request = e.request /\ h[j].version = e.version

Sound(s, h) ==
  /\ Typed(s, h) /\ Projected(s, h) /\ OpenAtEnd(s, h)
  /\ BudgetKept(s) /\ InSeries(h) /\ EvidenceAnswers(h)

\* The counters are those of the history.
RequestsCounted(s, h) ==
  LET requested(k) == {i \in DOMAIN h : h[i].type = "Requested" /\ h[i].kind = k}
  IN  /\ s.usage.iterations = Cardinality(requested("model"))
      /\ s.usage.tools = Cardinality(requested("tool"))

-----------------------------------------------------------------------------
(* What one Event does to the RunState *)

\* Every Event that the payload models accept is well formed.
LEMMA PayloadWellFormed ==
  ASSUME NEW r \in RunIds, NEW n \in Nat, NEW e \in Payloads(r, n)
  PROVE  WellFormed(e) /\ e.sequence = n /\ e.run = r
<1> USE InputAssumption
        DEF WellFormed, Event, Blank, Usage, Limits, NoUsage, NoLimits, NoTime,
            EventTypes, Kinds
<1>1. CASE e \in CreatedEvents(r, n)
  BY <1>1 DEF CreatedEvents
<1>2. CASE e \in StartedEvents(r, n)
  BY <1>2 DEF StartedEvents
<1>3. CASE e \in FinishedEvents(r, n)
  BY <1>3 DEF FinishedEvents
<1>4. CASE e \in ModelRequests(r, n)
  <2>1. PICK a \in ActivityIds, c \in CallIds, t \in Times :
          e = RequestEvent(r, n, "model", a, c, t, NoEvidence)
    BY <1>4, SMT DEF ModelRequests
  <2>2. QED
    BY <2>1 DEF RequestEvent, NoEvidence
<1>5. CASE e \in ToolRequests(r, n)
  <2>1. PICK a \in ActivityIds, c \in CallIds, t \in Times, x \in Evidence :
          e = RequestEvent(r, n, "tool", a, c, t, x)
    BY <1>5, SMT DEF ToolRequests
  <2>2. QED
    BY <2>1 DEF RequestEvent, Evidence
<1>6. CASE e \in ActivityStarts(r, n)
  <2>1. PICK k \in Kinds, a \in ActivityIds, c \in CallIds :
          e = StartEvent(r, n, k, a, c)
    BY <1>6, SMT DEF ActivityStarts
  <2>2. QED
    BY <2>1 DEF StartEvent
<1>7. CASE e \in ModelResults(r, n)
  <2>1. PICK type \in {"Completed", "Failed"}, a \in ActivityIds, c \in CallIds, u \in Usages :
          e = ResultEvent(r, n, type, "model", a, c, NoEvidence, u)
    BY <1>7, SMT DEF ModelResults
  <2>2. e = [run |-> r, sequence |-> n, type |-> type, kind |-> "model", activity |-> a,
             call |-> c, request |-> None, version |-> 1, at |-> NoTime, usage |-> u,
             limits |-> NoLimits]
    BY <2>1 DEF ResultEvent, NoEvidence
  <2>3. u \in [input : Nat, output : Nat, cost : Nat]
    OBVIOUS
  <2>4. QED
    BY ONLY <2>2, <2>3, <1>7, NoneAssumption
      DEF WellFormed, Event, NoLimits, Limits, NoTime, Kinds, EventTypes, Usage
<1>8. CASE e \in ToolResults(r, n)
  <2>1. PICK type \in {"Completed", "Failed"}, a \in ActivityIds, c \in CallIds, x \in Evidence :
          e = ResultEvent(r, n, type, "tool", a, c, x, NoUsage)
    BY <1>8, SMT DEF ToolResults
  <2>2. QED
    BY <2>1 DEF ResultEvent, Evidence
<1>9. QED
  BY <1>1, <1>2, <1>3, <1>4, <1>5, <1>6, <1>7, <1>8 DEF Payloads

\* A budget that is not exhausted leaves room for one more Activity.
LEMMA NotExhausted ==
  ASSUME NEW s \in RunState, NEW kind, NEW at, ~ BudgetExhausted(s, kind, at)
  PROVE  /\ kind = "model" => s.usage.iterations + 1 <= s.limits.iterations
         /\ kind = "tool" => s.usage.tools + 1 <= s.limits.tools
         /\ Tokens(s.usage) < s.limits.tokens
         /\ s.usage.cost < s.limits.cost
<1>1. /\ s.usage.iterations \in Nat /\ s.limits.iterations \in Nat
      /\ s.usage.tools \in Nat /\ s.limits.tools \in Nat
      /\ s.usage.cost \in Nat /\ s.limits.cost \in Nat
      /\ Tokens(s.usage) \in Nat /\ s.limits.tokens \in Nat
  BY DEF RunState, BudgetUsage, Limits, Tokens
<1>2. kind = "model" => s.usage.iterations + 1 <= s.limits.iterations
  BY <1>1 DEF BudgetExhausted
<1>3. kind = "tool" => s.usage.tools + 1 <= s.limits.tools
  BY <1>1 DEF BudgetExhausted
<1>4. Tokens(s.usage) < s.limits.tokens
  BY <1>1 DEF BudgetExhausted
<1>5. s.usage.cost < s.limits.cost
  BY <1>1 DEF BudgetExhausted
<1>6. QED
  BY <1>2, <1>3, <1>4, <1>5

\* The Activities after an Event that moves one of them to another status.
LEMMA WithActivityFields ==
  ASSUME NEW s \in RunState, NEW e, WellFormed(e), NEW status \in ActivityStatuses
  PROVE  /\ WithActivity(s, e, status) \in RunState
         /\ WithActivity(s, e, status).usage = s.usage
         /\ WithActivity(s, e, status).limits = s.limits
         /\ WithActivity(s, e, status).status = s.status
         /\ WithActivity(s, e, status).run = s.run
         /\ WithActivity(s, e, status).started_at = s.started_at
         /\ DOMAIN WithActivity(s, e, status).activities = DOMAIN s.activities
         /\ Len(WithActivity(s, e, status).activities) = Len(s.activities)
         /\ \A i \in DOMAIN s.activities :
              WithActivity(s, e, status).activities[i] =
                IF s.activities[i].activity = e.activity
                THEN [s.activities[i] EXCEPT !.status = status]
                ELSE s.activities[i]
<1> DEFINE acts == s.activities
           f(i) == IF acts[i].activity = e.activity
                   THEN [acts[i] EXCEPT !.status = status] ELSE acts[i]
           new == [i \in DOMAIN acts |-> f(i)]
<1>1. acts \in Seq(ActivityState)
  BY DEF RunState
<1>2. ASSUME NEW i \in DOMAIN acts
      PROVE  f(i) \in ActivityState
  <2>1. acts[i] \in ActivityState
    BY <1>1
  <2>2. [acts[i] EXCEPT !.status = status] \in ActivityState
    BY <2>1 DEF ActivityState
  <2>3. QED
    BY <2>1, <2>2
<1>3. new \in Seq(ActivityState) /\ Len(new) = Len(acts) /\ DOMAIN new = DOMAIN acts
  <2> HIDE DEF f, acts
  <2>1. \A i \in DOMAIN acts : f(i) \in ActivityState
    BY <1>2
  <2>2. QED
    BY <1>1, <2>1
<1>4. WithActivity(s, e, status) = [s EXCEPT !.last_sequence = e.sequence, !.activities = new]
  BY DEF WithActivity
<1>5. e.sequence \in Nat
  BY DEF WellFormed, Event
<1> HIDE DEF new
<1>6. /\ WithActivity(s, e, status) \in RunState
      /\ WithActivity(s, e, status).activities = new
      /\ WithActivity(s, e, status).usage = s.usage
      /\ WithActivity(s, e, status).limits = s.limits
      /\ WithActivity(s, e, status).status = s.status
      /\ WithActivity(s, e, status).run = s.run
      /\ WithActivity(s, e, status).started_at = s.started_at
  BY <1>3, <1>4, <1>5 DEF RunState
<1>7. \A i \in DOMAIN acts : new[i] = f(i)
  BY Zenon DEF new
<1>8. QED
  BY <1>3, <1>6, <1>7, Zenon

\* A request appends one pending Activity and counts it.
LEMMA WithRequestedFields ==
  ASSUME NEW s \in RunState, NEW e, WellFormed(e), e.type = "Requested"
  PROVE  LET t == WithRequested(s, e)
             new == [activity |-> e.activity, kind |-> e.kind, call |-> e.call,
                     status |-> "pending"]
         IN  /\ t \in RunState
             /\ t.usage = Counted(s.usage, e.kind)
             /\ t.limits = s.limits /\ t.status = s.status
             /\ t.run = s.run /\ t.started_at = s.started_at
             /\ Len(t.activities) = Len(s.activities) + 1
             /\ t.activities[Len(s.activities) + 1] = new
             /\ \A i \in DOMAIN s.activities : t.activities[i] = s.activities[i]
<1> DEFINE new == [activity |-> e.activity, kind |-> e.kind, call |-> e.call,
                   status |-> "pending"]
           acts == Append(s.activities, new)
           t == WithRequested(s, e)
<1>1. new \in ActivityState
  BY DEF WellFormed, ActivityState, ActivityStatuses
<1>2. s.activities \in Seq(ActivityState)
  BY DEF RunState
<1> HIDE DEF new
<1>3. /\ acts \in Seq(ActivityState)
      /\ Len(acts) = Len(s.activities) + 1
      /\ acts[Len(s.activities) + 1] = new
      /\ \A i \in DOMAIN s.activities : acts[i] = s.activities[i]
  BY <1>1, <1>2
<1>4. Counted(s.usage, e.kind) \in BudgetUsage
  BY DEF RunState, Counted, BudgetUsage
<1>5. t = [s EXCEPT !.last_sequence = e.sequence, !.usage = Counted(s.usage, e.kind),
                    !.activities = acts]
  BY DEF WithRequested, new
<1>6. e.sequence \in Nat
  BY DEF WellFormed, Event
<1> HIDE DEF acts, t
<1>7. /\ t \in RunState
      /\ t.activities = acts
      /\ t.usage = Counted(s.usage, e.kind)
      /\ t.limits = s.limits /\ t.status = s.status
      /\ t.run = s.run /\ t.started_at = s.started_at
  BY <1>3, <1>4, <1>5, <1>6 DEF RunState
<1>8. QED
  BY <1>3, <1>7 DEF t, new

\* What a Model turn reported, added to the usage, is a usage again.
LEMMA ModelUsageType ==
  ASSUME NEW u \in BudgetUsage, NEW reported \in Usage
  PROVE  ModelUsage(u, reported) \in BudgetUsage
<1>1. /\ u.input + reported.input \in Nat
      /\ u.output + reported.output \in Nat
      /\ u.cost + reported.cost \in Nat
  BY DEF BudgetUsage, Usage
<1>2. QED
  BY <1>1 DEF ModelUsage, BudgetUsage

\* A result moves its Activity and adds what it reports.
LEMMA WithTerminalFields ==
  ASSUME NEW s \in RunState, NEW e, WellFormed(e), NEW status \in ActivityStatuses
  PROVE  LET t == WithTerminal(s, e, status)
         IN  /\ t \in RunState
             /\ t.usage = ModelUsage(s.usage, e.usage)
             /\ t.limits = s.limits /\ t.status = s.status
             /\ t.run = s.run /\ t.started_at = s.started_at
             /\ t.activities = WithActivity(s, e, status).activities
<1> DEFINE u == WithActivity(s, e, status)
<1>1. /\ u \in RunState /\ u.usage = s.usage /\ u.limits = s.limits
      /\ u.status = s.status /\ u.run = s.run /\ u.started_at = s.started_at
  BY WithActivityFields
<1>2. ModelUsage(s.usage, e.usage) \in BudgetUsage
  <2>1. s.usage \in BudgetUsage
    BY DEF RunState
  <2>2. e.usage \in Usage
    BY DEF WellFormed, Event, Usage
  <2>3. QED
    BY <2>1, <2>2, ModelUsageType
<1>3. WithTerminal(s, e, status) = [u EXCEPT !.usage = ModelUsage(s.usage, e.usage)]
  BY DEF WithTerminal
<1> DEFINE w == WithTerminal(s, e, status)
<1> HIDE DEF u, w
<1>4. /\ w \in RunState
      /\ w.usage = ModelUsage(s.usage, e.usage)
      /\ w.limits = s.limits /\ w.status = s.status
      /\ w.run = s.run /\ w.started_at = s.started_at
      /\ w.activities = u.activities
  <2>1. w = [u EXCEPT !.usage = ModelUsage(s.usage, e.usage)]
    BY <1>3 DEF w
  <2>2. QED
    BY <2>1, <1>1, <1>2 DEF RunState
<1>5. QED
  BY <1>4 DEF w, u

\* Run transitions leave usage and Activities alone.
LEMMA WithStatusFields ==
  ASSUME NEW s \in RunState, NEW e, WellFormed(e), NEW status \in RunStatuses
  PROVE  LET t == WithStatus(s, e, status)
         IN  /\ t \in RunState
             /\ t.usage = s.usage /\ t.limits = s.limits /\ t.status = status
             /\ t.run = s.run /\ t.started_at = s.started_at
             /\ t.activities = s.activities
BY DEF WithStatus, RunState, WellFormed, Event

-----------------------------------------------------------------------------
(* Every Event the guards accept yields a RunState that validates *)

\* The Activity an Event of type Started, Completed or Failed names.
LEMMA MatchedActivity ==
  ASSUME NEW s \in RunState, ConsistentProjection(s), NEW e, NEW required,
         MatchingActivity(s, e, required)
  PROVE  \E i \in DOMAIN s.activities :
           /\ s.activities[i].activity = e.activity
           /\ s.activities[i].kind = e.kind
           /\ s.activities[i].call = e.call
           /\ s.activities[i].status = required
           /\ \A j \in DOMAIN s.activities :
                s.activities[j].activity = e.activity => j = i
<1>1. PICK i \in DOMAIN s.activities :
        s.activities[i] = [activity |-> e.activity, kind |-> e.kind,
                           call |-> e.call, status |-> required]
  BY DEF MatchingActivity
<1>2. /\ s.activities[i].activity = e.activity /\ s.activities[i].kind = e.kind
      /\ s.activities[i].call = e.call /\ s.activities[i].status = required
  BY <1>1
<1>3. \A j \in DOMAIN s.activities : s.activities[j].activity = e.activity => j = i
  BY <1>2 DEF ConsistentProjection
<1>4. QED
  BY <1>2, <1>3

\* Moving one active Activity to any status keeps the Activities consistent.
LEMMA WithActivityConsistent ==
  ASSUME NEW s \in RunState, ConsistentProjection(s), s.status = "running",
         NEW e, WellFormed(e), NEW required \in {"pending", "running"},
         MatchingActivity(s, e, required),
         NEW t \in RunState, NEW status \in ActivityStatuses,
         t.activities = WithActivity(s, e, status).activities,
         t.status = s.status, t.started_at = s.started_at
  PROVE  ConsistentProjection(t)
<1>1. PICK k \in DOMAIN s.activities :
        /\ s.activities[k].activity = e.activity
        /\ s.activities[k].status = required
        /\ \A j \in DOMAIN s.activities : s.activities[j].activity = e.activity => j = k
  BY MatchedActivity
<1>2. /\ DOMAIN t.activities = DOMAIN s.activities
      /\ \A i \in DOMAIN s.activities :
           t.activities[i] = IF s.activities[i].activity = e.activity
                             THEN [s.activities[i] EXCEPT !.status = status]
                             ELSE s.activities[i]
  BY WithActivityFields
<1>3. \A i \in DOMAIN s.activities : s.activities[i] \in ActivityState
  BY DEF RunState
<1>4. \A i \in DOMAIN s.activities :
        /\ t.activities[i].activity = s.activities[i].activity
        /\ t.activities[i].kind = s.activities[i].kind
        /\ t.activities[i].call = s.activities[i].call
        /\ i # k => t.activities[i].status = s.activities[i].status
  BY <1>1, <1>2, <1>3 DEF ActivityState
<1>5. \A i \in DOMAIN s.activities : i # k => ~ IsActive(s.activities[i])
  BY <1>1 DEF ConsistentProjection, IsActive
<1>6. \A i \in DOMAIN s.activities : i # k => ~ IsActive(t.activities[i])
  BY <1>4, <1>5 DEF IsActive
<1>7. ASSUME NEW i \in DOMAIN t.activities, NEW j \in DOMAIN t.activities, i # j
      PROVE  /\ ~ (IsActive(t.activities[i]) /\ IsActive(t.activities[j]))
             /\ t.activities[i].activity # t.activities[j].activity
             /\ t.activities[i].kind = t.activities[j].kind
                  => t.activities[i].call # t.activities[j].call
  BY <1>2, <1>4, <1>6, <1>7 DEF ConsistentProjection
<1>8. QED
  BY <1>7 DEF ConsistentProjection, IsTerminal

\* A request that finds no open Activity and fresh identifiers is consistent.
LEMMA WithRequestedConsistent ==
  ASSUME NEW s \in RunState, ConsistentProjection(s), NEW e, WellFormed(e),
         e.type = "Requested", RequestReady(s), UniqueIds(s, e)
  PROVE  ConsistentProjection(WithRequested(s, e))
<1> DEFINE t == WithRequested(s, e)
           n == Len(s.activities)
<1>1. /\ t \in RunState /\ t.status = "running" /\ t.started_at = s.started_at
      /\ Len(t.activities) = n + 1
      /\ t.activities[n + 1] = [activity |-> e.activity, kind |-> e.kind,
                                call |-> e.call, status |-> "pending"]
      /\ \A i \in DOMAIN s.activities : t.activities[i] = s.activities[i]
  BY WithRequestedFields DEF RequestReady
<1>2. DOMAIN s.activities = 1 .. n /\ n \in Nat
  BY DEF RunState
<1>3. DOMAIN t.activities = 1 .. (n + 1)
  BY <1>1, <1>2 DEF RunState
<1> HIDE DEF t
<1>4. \A i \in 1 .. n :
        /\ ~ IsActive(t.activities[i])
        /\ t.activities[i].activity # t.activities[n + 1].activity
        /\ t.activities[i].kind = t.activities[n + 1].kind
             => t.activities[i].call # t.activities[n + 1].call
  BY <1>1, <1>2 DEF RequestReady, UniqueIds, HasActive
<1>5. ASSUME NEW i \in DOMAIN t.activities, NEW j \in DOMAIN t.activities, i # j
      PROVE  /\ ~ (IsActive(t.activities[i]) /\ IsActive(t.activities[j]))
             /\ t.activities[i].activity # t.activities[j].activity
             /\ t.activities[i].kind = t.activities[j].kind
                  => t.activities[i].call # t.activities[j].call
  <2>1. CASE i \in 1 .. n /\ j \in 1 .. n
    BY <2>1, <1>1, <1>2, <1>5 DEF ConsistentProjection
  <2>2. CASE i = n + 1 \/ j = n + 1
    <3>1. (i = n + 1 /\ j \in 1 .. n) \/ (j = n + 1 /\ i \in 1 .. n)
      BY <1>2, <1>3, <1>5, <2>2
    <3>2. QED
      BY <3>1, <1>4
  <2>3. QED
    BY <1>2, <1>3, <2>1, <2>2
<1>6. s.started_at # NoTime
  BY DEF ConsistentProjection, RequestReady
<1>7. ConsistentProjection(t)
  BY <1>1, <1>5, <1>6 DEF ConsistentProjection, IsTerminal
<1>8. QED
  BY <1>7 DEF t

\* What a terminal Event does to the usage, without the rest of the state.
LEMMA UsageOfTerminal ==
  ASSUME NEW s \in RunState, NEW e, NEW status
  PROVE  WithTerminal(s, e, status).usage = ModelUsage(s.usage, e.usage)
<1> DEFINE u == WithActivity(s, e, status)
<1>1. u.usage = s.usage /\ DOMAIN u = DOMAIN s /\ "usage" \in DOMAIN s
  BY DEF WithActivity, RunState
<1>2. WithTerminal(s, e, status) = [u EXCEPT !.usage = ModelUsage(s.usage, e.usage)]
  BY DEF WithTerminal
<1> HIDE DEF u
<1>3. QED
  BY <1>1, <1>2

\* The usage counters cannot overflow: a request is counted only below its
\* limit, and a model call that was let through started from usage below the
\* token and cost limits.
LEMMA UsageStaysInBounds ==
  ASSUME NEW s, NEW h, Sound(s, h), NEW e, WellFormed(e), Reportable(e.usage), Guard(s, e)
  PROVE  UsageInBounds(Reduced(s, e).usage)
<1> USE BoundsAssumption
<1>1. s \in RunState /\ UsageInBounds(s.usage)
  BY DEF Sound, Typed, Projected
<1>2. /\ s.usage \in BudgetUsage /\ s.limits \in Limits
      /\ s.usage.input \in Nat /\ s.usage.output \in Nat /\ s.usage.cost \in Nat
      /\ s.usage.iterations \in Nat /\ s.usage.tools \in Nat
  BY <1>1 DEF RunState, BudgetUsage
<1>3. s.status # "absent" => s.limits \in LimitChoices
  BY DEF Sound, Projected
<1>4. CASE e.type = "RunCreated"
  <2>1. Reduced(s, e).usage = NoRun.usage
    BY <1>4 DEF Reduced, Created, NoRun
  <2>2. QED
    BY <2>1 DEF NoRun, UsageInBounds, MAX_CUMULATIVE_TOKENS, MAX_CUMULATIVE_COST_MICROUSD
<1>5. CASE e.type = "RunStarted"
  <2>1. Reduced(s, e).usage = s.usage
    BY <1>5, <1>1 DEF Reduced, WithStatus, RunState
  <2>2. QED
    BY <2>1, <1>1
<1>6. CASE e.type = "Requested"
  <2>1. Reduced(s, e).usage = Counted(s.usage, e.kind)
    BY <1>6, <1>1, WithRequestedFields DEF Reduced
  <2>2. /\ s.status = "running" /\ e.kind \in Kinds
        /\ ~ BudgetExhausted(s, e.kind, e.at)
    BY <1>6 DEF Guard, RequestGuard, RequestReady, WellFormed
  <2>3. s.limits \in LimitChoices
    BY <1>3, <2>2
  <2>4. CASE e.kind = "model"
    <3>1. s.usage.iterations + 1 <= MAX_MODEL_ITERATIONS
      BY <2>2, <2>3, <2>4, <1>2, InputAssumption DEF BudgetExhausted, Limits
    <3>2. QED
      BY <2>1, <2>4, <3>1, <1>1, <1>2 DEF Counted, UsageInBounds, BudgetUsage
  <2>5. CASE e.kind = "tool"
    <3>1. s.usage.tools + 1 <= MAX_TOOL_CALLS
      BY <2>2, <2>3, <2>5, <1>2, InputAssumption DEF BudgetExhausted, Limits
    <3>2. QED
      BY <2>1, <2>5, <3>1, <1>1, <1>2 DEF Counted, UsageInBounds, BudgetUsage
  <2>6. QED
    BY <2>2, <2>4, <2>5 DEF Kinds
<1>7. CASE e.type = "Started"
  <2>1. Reduced(s, e) = WithActivity(s, e, "running")
    BY <1>7 DEF Reduced
  <2>2. Reduced(s, e).usage = s.usage
    BY <2>1, <1>1 DEF WithActivity, RunState
  <2>3. QED
    BY <2>2, <1>1
<1>8. CASE e.type \in {"Completed", "Failed"}
  <2>1. Reduced(s, e).usage = ModelUsage(s.usage, e.usage)
    <3>1. CASE e.type = "Completed"
      <4>1. Reduced(s, e) = WithTerminal(s, e, "succeeded")
        BY <3>1 DEF Reduced
      <4>2. QED
        BY <4>1, <1>1, UsageOfTerminal
    <3>2. CASE e.type = "Failed"
      <4>1. Reduced(s, e) = WithTerminal(s, e, "failed")
        BY <3>2 DEF Reduced
      <4>2. QED
        BY <4>1, <1>1, UsageOfTerminal
    <3>3. QED
      BY <3>1, <3>2, <1>8
  <2>2. PICK i \in DOMAIN s.activities : s.activities[i].status = "running"
    BY <1>8 DEF Guard, MatchingActivity
  <2>3. HasActive(s)
    BY <2>2 DEF HasActive, IsActive
  <2>4. s.limits \in LimitChoices
    <3>1. s.status # "absent"
      BY <2>2 DEF Sound, Projected, NoRun
    <3>2. QED
      BY <3>1, <1>3
  <2>5. Tokens(s.usage) < s.limits.tokens /\ s.usage.cost < s.limits.cost
    BY <2>3 DEF Sound, BudgetKept
  <2>6. /\ s.limits.tokens \in Nat /\ s.limits.tokens <= MAX_TOKENS
        /\ s.limits.cost \in Nat /\ s.limits.cost <= MAX_COST_MICROUSD
    BY <2>4, InputAssumption DEF Limits
  <2>7. /\ e.usage.input \in Nat /\ e.usage.input <= MAX_TOKENS
        /\ e.usage.output \in Nat /\ e.usage.output <= MAX_TOKENS
        /\ e.usage.cost \in Nat /\ e.usage.cost <= MAX_CALL_COST
    <3>1. e.usage \in Usage
      BY DEF WellFormed, Event
    <3>2. QED
      BY <3>1 DEF Usage, Reportable
  <2>8. /\ s.usage.input + e.usage.input <= MAX_CUMULATIVE_TOKENS
        /\ s.usage.output + e.usage.output <= MAX_CUMULATIVE_TOKENS
        /\ s.usage.cost + e.usage.cost <= MAX_CUMULATIVE_COST_MICROUSD
    BY <2>5, <2>6, <2>7, <1>2
      DEF Tokens, MAX_CUMULATIVE_TOKENS, MAX_CUMULATIVE_COST_MICROUSD
  <2>9. QED
    BY <2>1, <2>8, <1>1, <1>2 DEF ModelUsage, UsageInBounds, BudgetUsage
<1>9. CASE e.type \in {"RunSucceeded", "RunFailed"}
  <2>1. Reduced(s, e).usage = s.usage
    <3>1. CASE e.type = "RunSucceeded"
      <4>1. Reduced(s, e) = WithStatus(s, e, "succeeded")
        BY <3>1 DEF Reduced
      <4>2. QED
        BY <4>1, <1>1 DEF WithStatus, RunState
    <3>2. CASE e.type = "RunFailed"
      <4>1. Reduced(s, e) = WithStatus(s, e, "failed")
        BY <3>2 DEF Reduced
      <4>2. QED
        BY <4>1, <1>1 DEF WithStatus, RunState
    <3>3. QED
      BY <3>1, <3>2, <1>9
  <2>2. QED
    BY <2>1, <1>1
<1>10. QED
  BY <1>4, <1>5, <1>6, <1>7, <1>8, <1>9 DEF WellFormed, Event, EventTypes

\* Whatever the guards accept leads to a consistent projection, and RunState
\* validates it unless the Event reports more than a ModelUsage can hold.
LEMMA GuardedIsValid ==
  ASSUME NEW s, NEW h, Sound(s, h), NEW e, WellFormed(e), ~ IsTerminal(s), Guard(s, e)
  PROVE  /\ Reduced(s, e) \in RunState /\ ConsistentProjection(Reduced(s, e))
         /\ Reportable(e.usage) => Valid(Reduced(s, e))
<1> DEFINE t == Reduced(s, e)
<1>1. /\ s \in RunState
      /\ s.status = "absent" => s = NoRun
      /\ s.status # "absent" => ConsistentProjection(s)
  BY DEF Sound, Typed, Projected
<1>2. t \in RunState /\ ConsistentProjection(t)
  <2>1. CASE e.type = "RunCreated"
    <3>1. /\ e.run \in RunIds /\ e.limits \in Limits /\ e.sequence \in Nat
      BY DEF WellFormed, Event
    <3>2. t = [run |-> e.run, status |-> "queued", limits |-> e.limits,
               usage |-> NoRun.usage, activities |-> << >>, started_at |-> NoTime,
               last_sequence |-> e.sequence]
      BY <2>1 DEF Reduced, Created, NoRun
    <3>3. QED
      BY <3>1, <3>2 DEF RunState, RunStatuses, NoRun, BudgetUsage, ConsistentProjection,
                        IsTerminal, NoTime
  <2>2. CASE e.type = "RunStarted"
    <3> DEFINE u == WithStatus(s, e, "running")
    <3>1. s.status = "queued"
      BY <2>2 DEF Guard
    <3>2. s.activities = << >>
      BY <1>1, <3>1 DEF ConsistentProjection
    <3>0. "running" \in RunStatuses
      BY DEF RunStatuses
    <3>3. u \in RunState /\ u.status = "running" /\ u.activities = << >>
      BY <1>1, <3>0, <3>2, WithStatusFields
    <3>4. t = [u EXCEPT !.started_at = e.at] /\ e.at \in Nat
      BY <2>2 DEF Reduced, WellFormed
    <3> HIDE DEF u, t
    <3>5. t \in RunState /\ t.status = "running" /\ t.activities = << >> /\ t.started_at = e.at
      BY <3>3, <3>4 DEF RunState
    <3>6. DOMAIN t.activities = {}
      BY <3>5
    <3>7. QED
      BY <3>4, <3>5, <3>6 DEF ConsistentProjection, IsTerminal, NoTime
  <2>3. CASE e.type = "Requested"
    <3>1. t = WithRequested(s, e) /\ RequestReady(s) /\ UniqueIds(s, e)
      BY <2>3 DEF Reduced, Guard, RequestGuard
    <3>2. QED
      BY <3>1, <1>1, <2>3, WithRequestedFields, WithRequestedConsistent DEF RequestReady
  <2>4. CASE e.type = "Started"
    <3>1. t = WithActivity(s, e, "running") /\ MatchingActivity(s, e, "pending")
      BY <2>4 DEF Reduced, Guard
    <3>2. s.status = "running" /\ ConsistentProjection(s)
      BY <3>1, <1>1 DEF MatchingActivity, ConsistentProjection, IsTerminal, NoRun, RunState, RunStatuses
    <3> HIDE DEF t
    <3>0. "running" \in ActivityStatuses
      BY DEF ActivityStatuses
    <3>3. /\ t \in RunState /\ t.status = s.status /\ t.started_at = s.started_at
          /\ t.activities = WithActivity(s, e, "running").activities
      BY <3>1, <3>0, <1>1, WithActivityFields
    <3>4. QED
      BY <3>1, <3>2, <3>3, <3>0, <1>1, WithActivityConsistent
  <2>5. CASE e.type \in {"Completed", "Failed"}
    <3>1. PICK status \in ActivityStatuses : t = WithTerminal(s, e, status)
      BY <2>5 DEF Reduced, ActivityStatuses
    <3>2. MatchingActivity(s, e, "running")
      BY <2>5 DEF Guard
    <3>3. s.status = "running" /\ ConsistentProjection(s)
      BY <3>2, <1>1 DEF MatchingActivity, ConsistentProjection, IsTerminal, NoRun, RunState, RunStatuses
    <3> HIDE DEF t
    <3>4. /\ t \in RunState /\ t.status = s.status /\ t.started_at = s.started_at
          /\ t.activities = WithActivity(s, e, status).activities
      BY <3>1, <1>1, WithTerminalFields
    <3>5. QED
      BY <3>2, <3>3, <3>4, <1>1, WithActivityConsistent
  <2>6. CASE e.type \in {"RunSucceeded", "RunFailed"}
    <3>1. PICK status \in RunStatuses : t = WithStatus(s, e, status)
                                        /\ status \in {"succeeded", "failed"}
      BY <2>6 DEF Reduced, RunStatuses
    <3>2. RequestReady(s)
      BY <2>6 DEF Guard
    <3> HIDE DEF t
    <3>3. /\ t \in RunState /\ t.status = status /\ t.started_at = s.started_at
          /\ t.activities = s.activities
      BY <3>1, <1>1, WithStatusFields
    <3>4. ConsistentProjection(s) /\ ~ HasActive(s) /\ s.started_at # NoTime
      BY <3>2, <1>1 DEF RequestReady, ConsistentProjection
    <3>5. ~ HasActive(t)
      BY <3>3, <3>4 DEF HasActive
    <3>6. QED
      BY <3>1, <3>3, <3>4, <3>5 DEF ConsistentProjection
  <2>7. QED
    BY <2>1, <2>2, <2>3, <2>4, <2>5, <2>6 DEF WellFormed, Event, EventTypes
<1>3. QED
  BY <1>2, UsageStaysInBounds DEF Valid

-----------------------------------------------------------------------------
(* A fold preserves the inductive invariant *)

\* The stream grows by the Event; no guard accepts an Event of a finished Run.
LEMMA FoldExtends ==
  ASSUME NEW s, NEW h, Sound(s, h), NEW e, WellFormed(e), NEW s1, NEW h1, Folds(s, h, e, s1, h1)
  PROVE  /\ Typed(s1, h1) /\ Valid(s1) /\ s1 = Reduced(s, e)
         /\ Guard(s, e) /\ ~ IsTerminal(s)
         /\ Len(h) \in Nat /\ Len(h1) = Len(h) + 1
         /\ h1[Len(h) + 1] = e
         /\ \A i \in 1 .. Len(h) : h1[i] = h[i]
<1>1. e \in Event /\ h \in Seq(Event) /\ h1 = Append(h, e)
  BY DEF Sound, Typed, WellFormed, Folds
<1>2. Guard(s, e) /\ ~ IsTerminal(s) /\ s1 = Reduced(s, e)
  BY DEF Folds, Reducible
<1>3. s1 \in RunState /\ Valid(s1)
  BY <1>2, GuardedIsValid DEF Folds, Reducible
<1>4. QED
  BY <1>1, <1>2, <1>3 DEF Typed

\* At most one Activity is active, and a Run that has one is running.
LEMMA OneActive ==
  ASSUME NEW s, NEW h, Sound(s, h), NEW i \in DOMAIN s.activities, IsActive(s.activities[i])
  PROVE  /\ s.status = "running" /\ HasActive(s) /\ ConsistentProjection(s)
         /\ \A j \in DOMAIN s.activities : IsActive(s.activities[j]) => j = i
<1>1. s.status # "absent" /\ s \in RunState
  BY DEF Sound, Typed, Projected, NoRun
<1>2. ConsistentProjection(s)
  BY <1>1 DEF Sound, Projected
<1>3. HasActive(s)
  BY DEF HasActive
<1>4. s.status = "running"
  BY <1>1, <1>2, <1>3 DEF ConsistentProjection, IsTerminal, RunState, RunStatuses
<1>5. QED
  BY <1>2, <1>3, <1>4 DEF ConsistentProjection

\* An Event is accepted next to the last one only if their types may follow
\* each other, and then they concern the same Activity.
LEMMA LastBeforeNext ==
  ASSUME NEW s, NEW h, Sound(s, h), NEW e, WellFormed(e), Guard(s, e), Len(h) >= 1
  PROVE  LET d == h[Len(h)]
         IN  /\ d.type = "Requested" <=> e.type = "Started"
             /\ d.type = "Started" <=> e.type \in {"Completed", "Failed"}
             /\ d.type \in {"Requested", "Started"} => SameActivity(d, e)
<1> DEFINE d == h[Len(h)]
           acts == s.activities
<1>1. /\ \A i \in DOMAIN acts :
           /\ acts[i].status = "pending" => d.type = "Requested" /\ SameActivity(d, acts[i])
           /\ acts[i].status = "running" => d.type = "Started" /\ SameActivity(d, acts[i])
      /\ d.type = "Requested" => \E i \in DOMAIN acts : acts[i].status = "pending"
      /\ d.type = "Started" => \E i \in DOMAIN acts : acts[i].status = "running"
  BY DEF Sound, OpenAtEnd
<1> HIDE DEF d
<1>2. ASSUME NEW required \in {"pending", "running"}, MatchingActivity(s, e, required)
      PROVE  \E i \in DOMAIN acts : acts[i].status = required /\ SameActivity(acts[i], e)
  BY <1>2 DEF MatchingActivity, SameActivity
<1>3. CASE e.type = "Started"
  <2>1. PICK i \in DOMAIN acts : acts[i].status = "pending" /\ SameActivity(acts[i], e)
    BY <1>2, <1>3 DEF Guard
  <2>2. d.type = "Requested" /\ SameActivity(d, e)
    BY <1>1, <2>1 DEF SameActivity
  <2>3. QED
    BY <1>3, <2>2 DEF d
<1>4. CASE e.type \in {"Completed", "Failed"}
  <2>1. PICK i \in DOMAIN acts : acts[i].status = "running" /\ SameActivity(acts[i], e)
    BY <1>2, <1>4 DEF Guard
  <2>2. d.type = "Started" /\ SameActivity(d, e)
    BY <1>1, <2>1 DEF SameActivity
  <2>3. QED
    BY <1>4, <2>2 DEF d
<1>5. CASE e.type \notin {"Started", "Completed", "Failed"}
  <2>1. ~ HasActive(s)
    <3>1. e.type \in {"RunCreated", "RunStarted", "Requested", "RunSucceeded", "RunFailed"}
      BY <1>5 DEF WellFormed, Event, EventTypes
    <3>2. s.status \in {"absent", "queued"} \/ RequestReady(s)
      BY <3>1 DEF Guard, RequestGuard
    <3>3. QED
      BY <3>2, OneActive DEF HasActive, RequestReady
  <2>2. d.type \notin {"Requested", "Started"}
    BY <1>1, <2>1 DEF HasActive, IsActive
  <2>3. QED
    BY <1>5, <2>2 DEF d
<1>6. QED
  BY <1>3, <1>4, <1>5

\* An event the reducer takes keeps the log serial.
LEMMA FoldSerial ==
  ASSUME NEW s, NEW h, Sound(s, h), NEW e, WellFormed(e), NEW s1, NEW h1, Folds(s, h, e, s1, h1)
  PROVE  InSeries(h1)
<1>1. /\ Len(h) \in Nat /\ Len(h1) = Len(h) + 1 /\ Guard(s, e)
      /\ h1[Len(h) + 1] = e
      /\ \A i \in 1 .. Len(h) : h1[i] = h[i]
  BY FoldExtends
<1>2. SUFFICES ASSUME NEW i \in 1 .. Len(h)
               PROVE  LET c == h1[i]
                          f == h1[i + 1]
                      IN  /\ c.type = "Requested" <=> f.type = "Started"
                          /\ c.type = "Started" <=> f.type \in {"Completed", "Failed"}
                          /\ c.type \in {"Requested", "Started"} => SameActivity(c, f)
  BY <1>1 DEF InSeries, SameActivity
<1>3. CASE i < Len(h)
  <2>1. i \in 1 .. (Len(h) - 1) /\ h1[i] = h[i] /\ h1[i + 1] = h[i + 1]
    BY <1>1, <1>3
  <2>2. QED
    BY <2>1 DEF Sound, InSeries
<1>4. CASE i = Len(h)
  BY <1>1, <1>4, LastBeforeNext
<1>5. QED
  BY <1>1, <1>3, <1>4

\* Evidence: the running Activity's request is two Events before its result.
LEMMA FoldEvidence ==
  ASSUME NEW s, NEW h, Sound(s, h), NEW e, WellFormed(e), NEW s1, NEW h1, Folds(s, h, e, s1, h1)
  PROVE  EvidenceAnswers(h1)
<1> DEFINE m == Len(h)
           Evidenced(f) == /\ f.type \in {"Completed", "Failed"} /\ f.kind = "tool"
                           /\ f.version >= EVIDENCE_VERSION
           Answers(d, f) == /\ d.type = "Requested" /\ SameActivity(d, f)
                            /\ d.request = f.request /\ d.version = f.version
<1>1. /\ m \in Nat /\ Len(h1) = m + 1 /\ Guard(s, e)
      /\ h1[m + 1] = e
      /\ \A i \in 1 .. m : h1[i] = h[i]
      /\ DOMAIN h1 = 1 .. (m + 1) /\ DOMAIN h = 1 .. m
  BY FoldExtends DEF Sound, Typed
<1>2. ASSUME NEW i \in 1 .. m, Evidenced(h1[i])
      PROVE  \E j \in 1 .. (i - 1) : Answers(h1[j], h1[i])
  <2>1. PICK j \in 1 .. (i - 1) : Answers(h[j], h[i])
    BY <1>1, <1>2 DEF Sound, EvidenceAnswers
  <2>2. h1[j] = h[j] /\ h1[i] = h[i]
    BY <1>1, <2>1
  <2>3. QED
    BY <2>1, <2>2
<1>3. ASSUME Evidenced(e)
      PROVE  m - 1 \in 1 .. m /\ Answers(h[m - 1], e)
  <2>1. /\ m >= 2 /\ h[m - 1].type = "Requested"
        /\ h[m - 1].version = e.version /\ h[m - 1].request = e.request
    BY <1>3 DEF Folds, HistoryValid
  <2>2. PICK i \in DOMAIN s.activities :
          s.activities[i].status = "running" /\ SameActivity(s.activities[i], e)
    BY <1>1, <1>3 DEF Guard, MatchingActivity, SameActivity
  <2>3. SameActivity(h[m - 1], s.activities[i])
    BY <2>2 DEF Sound, OpenAtEnd
  <2>4. QED
    BY <2>1, <2>2, <2>3, <1>1 DEF SameActivity
<1>4. ASSUME NEW i \in 1 .. (m + 1), Evidenced(h1[i])
      PROVE  \E j \in 1 .. (i - 1) : Answers(h1[j], h1[i])
  <2>1. CASE i = m + 1
    <3>1. m - 1 \in 1 .. m /\ Answers(h[m - 1], e)
      BY <1>1, <1>3, <1>4, <2>1
    <3>2. QED
      BY <1>1, <2>1, <3>1
  <2>2. CASE i \in 1 .. m
    BY <1>2, <1>4, <2>2
  <2>3. QED
    BY <1>1, <2>1, <2>2
<1>5. QED
  BY <1>1, <1>4 DEF EvidenceAnswers, SameActivity

\* A result closes the only open Activity.
LEMMA NoneActiveAfterResult ==
  ASSUME NEW s, NEW h, Sound(s, h), NEW e, WellFormed(e), MatchingActivity(s, e, "running"),
         NEW status \in {"succeeded", "failed"}, NEW t \in RunState,
         t.activities = WithActivity(s, e, status).activities
  PROVE  ~ HasActive(t)
<1> DEFINE acts == s.activities
<1>1. s \in RunState /\ acts \in Seq(ActivityState) /\ status \in ActivityStatuses
  BY DEF Sound, Typed, RunState, ActivityStatuses
<1>2. PICK k \in DOMAIN acts : acts[k].activity = e.activity /\ acts[k].status = "running"
  BY DEF MatchingActivity
<1>3. \A j \in DOMAIN acts : IsActive(acts[j]) => j = k
  BY <1>2, OneActive DEF IsActive
<1>4. /\ DOMAIN t.activities = DOMAIN acts
      /\ \A i \in DOMAIN acts :
           t.activities[i] = IF acts[i].activity = e.activity
                             THEN [acts[i] EXCEPT !.status = status] ELSE acts[i]
  BY <1>1, WithActivityFields
<1>5. ASSUME NEW i \in DOMAIN acts
      PROVE  ~ IsActive(t.activities[i])
  <2>1. acts[i] \in ActivityState
    BY <1>1
  <2>2. CASE acts[i].activity = e.activity
    <3>1. t.activities[i].status = status
      BY <1>4, <2>1, <2>2 DEF ActivityState
    <3>2. QED
      BY <3>1 DEF IsActive
  <2>3. CASE acts[i].activity # e.activity
    BY <1>2, <1>3, <1>4, <2>3
  <2>4. QED
    BY <2>2, <2>3
<1>6. QED
  BY <1>4, <1>5 DEF HasActive

\* How each type of Event leaves the fields that the invariants read.
LEMMA FoldCases ==
  ASSUME NEW s, NEW h, Sound(s, h), NEW e, WellFormed(e), NEW s1, NEW h1, Folds(s, h, e, s1, h1)
  PROVE  \/ /\ e.type = "RunCreated"
            /\ s1.activities = << >> /\ s1.usage = NoRun.usage
            /\ s1.limits = e.limits /\ s1.status = "queued"
         \/ /\ e.type \in {"RunStarted", "RunSucceeded", "RunFailed"}
            /\ ~ HasActive(s) /\ s.status \in {"queued", "running"}
            /\ s1.activities = s.activities /\ s1.usage = s.usage
            /\ s1.limits = s.limits
            /\ s1.status \in {"running", "succeeded", "failed"}
         \/ /\ e.type = "Requested" /\ RequestGuard(s, e)
            /\ s1 = WithRequested(s, e)
         \/ /\ e.type = "Started" /\ MatchingActivity(s, e, "pending")
            /\ s1 = WithActivity(s, e, "running")
         \/ /\ e.type \in {"Completed", "Failed"} /\ MatchingActivity(s, e, "running")
            /\ \E status \in {"succeeded", "failed"} : s1 = WithTerminal(s, e, status)
<1>1. /\ s \in RunState /\ s1 = Reduced(s, e)
      /\ Guard(s, e)
  BY FoldExtends DEF Sound, Typed
<1>2. CASE e.type = "RunCreated"
  BY <1>1, <1>2 DEF Reduced, Created, NoRun
<1>3. CASE e.type = "RunStarted"
  <2>1. s.status = "queued" /\ s.activities = << >>
    BY <1>1, <1>3 DEF Guard, Sound, Projected, ConsistentProjection
  <2>2. /\ s1.activities = s.activities /\ s1.usage = s.usage
        /\ s1.limits = s.limits /\ s1.status = "running"
    BY <1>1, <1>3 DEF Reduced, WithStatus, RunState
  <2>3. QED
    BY <1>3, <2>1, <2>2 DEF HasActive
<1>4. CASE e.type \in {"RunSucceeded", "RunFailed"}
  <2>1. RequestReady(s)
    BY <1>1, <1>4 DEF Guard
  <2>2. /\ s1.activities = s.activities /\ s1.usage = s.usage
        /\ s1.limits = s.limits /\ s1.status \in {"succeeded", "failed"}
    BY <1>1, <1>4 DEF Reduced, WithStatus, RunState
  <2>3. QED
    BY <1>4, <2>1, <2>2 DEF RequestReady
<1>5. CASE e.type = "Requested"
  BY <1>1, <1>5 DEF Reduced, Guard
<1>6. CASE e.type = "Started"
  BY <1>1, <1>6 DEF Reduced, Guard
<1>7. CASE e.type \in {"Completed", "Failed"}
  BY <1>1, <1>7 DEF Reduced, Guard
<1>8. QED
  BY <1>2, <1>3, <1>4, <1>5, <1>6, <1>7 DEF WellFormed, Event, EventTypes

\* A request was inside the budget; nothing else opens an Activity, and a result
\* that adds usage closes the only one.
LEMMA FoldWithinBudget ==
  ASSUME NEW s, NEW h, Sound(s, h), NEW e, WellFormed(e), NEW s1, NEW h1, Folds(s, h, e, s1, h1)
  PROVE  BudgetKept(s1)
<1>1. s \in RunState /\ s1 \in RunState /\ BudgetKept(s)
  BY FoldExtends DEF Sound, Typed
<1>2. s.usage \in BudgetUsage /\ s.limits \in Limits
  BY <1>1 DEF RunState
<1>3. CASE e.type = "RunCreated"
  <2>1. /\ s1.usage = NoRun.usage /\ s1.activities = << >>
        /\ s1.limits = e.limits /\ e.limits \in Limits
    BY <1>3, FoldCases DEF WellFormed, Event
  <2>2. QED
    BY <2>1 DEF BudgetKept, HasActive, NoRun, Limits
<1>4. CASE e.type \in {"RunStarted", "RunSucceeded", "RunFailed"}
  <2>1. /\ s1.usage = s.usage /\ s1.activities = s.activities
        /\ s1.limits = s.limits
    BY <1>4, FoldCases
  <2>2. QED
    BY <2>1, <1>1 DEF BudgetKept, HasActive
<1>5. CASE e.type = "Requested"
  <2>0. RequestGuard(s, e) /\ s1 = WithRequested(s, e)
    BY <1>5, FoldCases
  <2>1. /\ s1.usage = Counted(s.usage, e.kind) /\ s1.limits = s.limits
    BY <1>1, <1>5, <2>0, WithRequestedFields
  <2>2. e.kind \in Kinds /\ ~ BudgetExhausted(s, e.kind, e.at)
    BY <1>5, <2>0 DEF RequestGuard, WellFormed
  <2>3. /\ Tokens(s.usage) < s.limits.tokens
        /\ s.usage.cost < s.limits.cost
        /\ e.kind = "model" => s.usage.iterations + 1 <= s.limits.iterations
        /\ e.kind = "tool" => s.usage.tools + 1 <= s.limits.tools
    BY <2>2, <1>2 DEF BudgetExhausted, BudgetUsage, Limits, Tokens
  <2>4. /\ s1.usage.input = s.usage.input /\ s1.usage.output = s.usage.output
        /\ s1.usage.cost = s.usage.cost
        /\ s1.usage.iterations = IF e.kind = "model" THEN s.usage.iterations + 1
                                     ELSE s.usage.iterations
        /\ s1.usage.tools = IF e.kind = "model" THEN s.usage.tools
                                ELSE s.usage.tools + 1
    <3>1. s.usage = [iterations |-> s.usage.iterations, input |-> s.usage.input,
                         output |-> s.usage.output, cost |-> s.usage.cost,
                         tools |-> s.usage.tools]
      BY <1>2 DEF BudgetUsage
    <3>2. QED
      BY <2>1, <3>1 DEF Counted
  <2>5. QED
    BY <2>1, <2>2, <2>3, <2>4, <1>1 DEF BudgetKept, Tokens, Kinds
<1>6. CASE e.type = "Started"
  <2>1. "running" \in ActivityStatuses
    BY DEF ActivityStatuses
  <2>2. MatchingActivity(s, e, "pending") /\ s1 = WithActivity(s, e, "running")
    BY <1>6, FoldCases
  <2>3. s1.usage = s.usage /\ s1.limits = s.limits
    BY <1>1, <2>1, <2>2, WithActivityFields
  <2>4. HasActive(s)
    BY <2>2 DEF MatchingActivity, HasActive, IsActive
  <2>5. QED
    BY <2>3, <2>4, <1>1 DEF BudgetKept
<1>7. CASE e.type \in {"Completed", "Failed"}
  <2>1. PICK status \in {"succeeded", "failed"} : s1 = WithTerminal(s, e, status)
    BY <1>7, FoldCases
  <2>2. status \in ActivityStatuses
    BY DEF ActivityStatuses
  <2>3. /\ s1.usage = ModelUsage(s.usage, e.usage) /\ s1.limits = s.limits
        /\ s1.activities = WithActivity(s, e, status).activities
    BY <1>1, <2>1, <2>2, WithTerminalFields
  <2>4. MatchingActivity(s, e, "running")
    BY <1>7, FoldCases
  <2>5. ~ HasActive(s1)
    BY <1>1, <2>3, <2>4, NoneActiveAfterResult
  <2>6. s1.usage.iterations = s.usage.iterations /\ s1.usage.tools = s.usage.tools
    BY <2>3, <1>2 DEF ModelUsage, BudgetUsage
  <2>7. QED
    BY <2>3, <2>5, <2>6, <1>1 DEF BudgetKept
<1>8. QED
  BY <1>3, <1>4, <1>5, <1>6, <1>7 DEF WellFormed, Event, EventTypes

\* The projection stays one that RunState accepts, under validated limits.
LEMMA FoldProjected ==
  ASSUME NEW s, NEW h, Sound(s, h), NEW e, WellFormed(e), NEW s1, NEW h1, Folds(s, h, e, s1, h1)
  PROVE  Projected(s1, h1)
<1>1. s \in RunState /\ s1 \in RunState /\ Valid(s1)
  BY FoldExtends DEF Sound, Typed
<1>2. "running" \in ActivityStatuses
  BY DEF ActivityStatuses
<1>3. \A required : MatchingActivity(s, e, required) => s.status # "absent"
  BY DEF MatchingActivity, Sound, Projected, NoRun
<1>4. s1.status # "absent" /\ s1.limits \in LimitChoices
  <2>1. CASE e.type = "RunCreated"
    BY <2>1, FoldCases DEF WellFormed
  <2>2. CASE e.type \in {"RunStarted", "RunSucceeded", "RunFailed"}
    BY <2>2, FoldCases DEF Sound, Projected
  <2>3. CASE e.type = "Requested"
    <3>1. RequestGuard(s, e) /\ s1 = WithRequested(s, e)
      BY <2>3, FoldCases
    <3>2. s1.status = s.status /\ s1.limits = s.limits
      BY <1>1, <2>3, <3>1, WithRequestedFields
    <3>3. QED
      BY <3>1, <3>2 DEF RequestGuard, RequestReady, Sound, Projected
  <2>4. CASE e.type = "Started"
    <3>1. MatchingActivity(s, e, "pending") /\ s1 = WithActivity(s, e, "running")
      BY <2>4, FoldCases
    <3>2. s1.status = s.status /\ s1.limits = s.limits
      BY <1>1, <1>2, <3>1, WithActivityFields
    <3>3. QED
      BY <1>3, <3>1, <3>2 DEF Sound, Projected
  <2>5. CASE e.type \in {"Completed", "Failed"}
    <3>1. PICK status \in {"succeeded", "failed"} : s1 = WithTerminal(s, e, status)
      BY <2>5, FoldCases
    <3>2. status \in ActivityStatuses
      BY DEF ActivityStatuses
    <3>3. s1.status = s.status /\ s1.limits = s.limits
      BY <1>1, <3>1, <3>2, WithTerminalFields
    <3>4. MatchingActivity(s, e, "running")
      BY <2>5, FoldCases
    <3>5. QED
      BY <1>3, <3>3, <3>4 DEF Sound, Projected
  <2>6. QED
    BY <2>1, <2>2, <2>3, <2>4, <2>5 DEF WellFormed, Event, EventTypes
<1>5. QED
  BY <1>1, <1>4 DEF Projected, Valid

\* The end of the stream and the open Activity keep determining each other.
LEMMA FoldOpenAtEnd ==
  ASSUME NEW s, NEW h, Sound(s, h), NEW e, WellFormed(e), NEW s1, NEW h1, Folds(s, h, e, s1, h1)
  PROVE  OpenAtEnd(s1, h1)
<1> DEFINE m == Len(h)
           acts == s.activities
<1>1. /\ s \in RunState /\ s1 \in RunState
      /\ acts \in Seq(ActivityState) /\ s1.activities \in Seq(ActivityState)
      /\ m \in Nat /\ Len(h1) = m + 1 /\ h1[m + 1] = e
      /\ \A i \in 1 .. m : h1[i] = h[i]
  BY FoldExtends DEF Sound, Typed, RunState
<1>2. ASSUME ~ HasActive(s1), e.type \notin {"Requested", "Started"}
      PROVE  OpenAtEnd(s1, h1)
  BY <1>1, <1>2 DEF OpenAtEnd, HasActive, IsActive
<1>3. CASE e.type = "RunCreated"
  BY <1>2, <1>3, FoldCases DEF HasActive
<1>4. CASE e.type \in {"RunStarted", "RunSucceeded", "RunFailed"}
  BY <1>2, <1>4, FoldCases DEF HasActive
<1>5. CASE e.type \in {"Completed", "Failed"}
  <2>1. PICK status \in {"succeeded", "failed"} : s1 = WithTerminal(s, e, status)
    BY <1>5, FoldCases
  <2>2. status \in ActivityStatuses
    BY DEF ActivityStatuses
  <2>3. s1.activities = WithActivity(s, e, status).activities
    BY <1>1, <2>1, <2>2, WithTerminalFields
  <2>4. MatchingActivity(s, e, "running")
    BY <1>5, FoldCases
  <2>5. QED
    BY <1>1, <1>2, <1>5, <2>3, <2>4, NoneActiveAfterResult
<1>6. CASE e.type = "Requested"
  <2>1. RequestReady(s) /\ s1 = WithRequested(s, e)
    BY <1>6, FoldCases DEF RequestGuard
  <2> DEFINE new == [activity |-> e.activity, kind |-> e.kind, call |-> e.call,
                     status |-> "pending"]
             n == Len(acts)
  <2>2. s1.activities = Append(acts, new)
    BY <1>1, <1>6, <2>1, WithRequestedFields
  <2>3. new.status = "pending" /\ SameActivity(e, new)
    BY DEF SameActivity
  <2> HIDE DEF new
  <2>4. /\ DOMAIN s1.activities = 1 .. (n + 1) /\ n \in Nat
        /\ s1.activities[n + 1] = new
        /\ \A i \in 1 .. n : i \in DOMAIN acts /\ s1.activities[i] = acts[i]
    BY <1>1, <2>2
  <2>5. ASSUME NEW i \in 1 .. n
        PROVE  ~ IsActive(s1.activities[i])
    BY <2>1, <2>4 DEF RequestReady, HasActive
  <2>6. /\ n + 1 \in DOMAIN s1.activities
        /\ \A i \in DOMAIN s1.activities :
             IsActive(s1.activities[i]) => i = n + 1
    BY <2>4, <2>5
  <2>7. QED
    BY <1>1, <1>6, <2>3, <2>4, <2>6 DEF OpenAtEnd, IsActive
<1>7. CASE e.type = "Started"
  <2>1. "running" \in ActivityStatuses
    BY DEF ActivityStatuses
  <2>2. MatchingActivity(s, e, "pending") /\ s1 = WithActivity(s, e, "running")
    BY <1>7, FoldCases
  <2>3. PICK k \in DOMAIN acts : /\ acts[k].activity = e.activity /\ acts[k].kind = e.kind
                                 /\ acts[k].call = e.call /\ acts[k].status = "pending"
    BY <2>2 DEF MatchingActivity
  <2>4. \A j \in DOMAIN acts : IsActive(acts[j]) => j = k
    BY <2>3, OneActive DEF IsActive
  <2>5. m >= 1 /\ h[m].type = "Requested" /\ SameActivity(h[m], acts[k])
    BY <2>3 DEF Sound, OpenAtEnd
  <2>6. /\ DOMAIN s1.activities = DOMAIN acts
        /\ \A i \in DOMAIN acts :
             s1.activities[i] = IF acts[i].activity = e.activity
                                    THEN [acts[i] EXCEPT !.status = "running"] ELSE acts[i]
    <3> DEFINE t == WithActivity(s, e, "running")
    <3>1. /\ DOMAIN t.activities = DOMAIN acts
          /\ \A i \in DOMAIN acts :
               t.activities[i] = IF acts[i].activity = e.activity
                                 THEN [acts[i] EXCEPT !.status = "running"] ELSE acts[i]
      BY <1>1, <2>1, WithActivityFields
    <3>2. QED
      BY <3>1, <2>2, Zenon
  <2>7. \A i \in DOMAIN acts : acts[i] \in ActivityState
    BY <1>1
  <2>8. /\ s1.activities[k].status = "running"
        /\ s1.activities[k].activity = e.activity
        /\ s1.activities[k].kind = e.kind /\ s1.activities[k].call = e.call
    BY <2>3, <2>6, <2>7 DEF ActivityState
  <2>9. s.status # "absent" /\ ConsistentProjection(s)
    BY <2>3, OneActive DEF IsActive, Sound, Projected
  <2>10. ASSUME NEW i \in DOMAIN acts, i # k
         PROVE  ~ IsActive(s1.activities[i])
    <3>1. acts[i].activity # acts[k].activity
      BY <2>9, <2>10 DEF ConsistentProjection
    <3>2. s1.activities[i] = acts[i]
      BY <2>3, <2>6, <3>1
    <3>3. QED
      BY <2>4, <2>10, <3>2
  <2>11. /\ m + 1 >= 2 /\ h1[m] = h[m]
         /\ SameActivity(e, s1.activities[k])
         /\ SameActivity(h[m], s1.activities[k])
    BY <1>1, <2>3, <2>5, <2>8 DEF SameActivity
  <2>12. /\ \A i \in DOMAIN s1.activities : IsActive(s1.activities[i]) => i = k
         /\ k \in DOMAIN s1.activities
    BY <2>6, <2>10
  <2>13. QED
    BY <1>1, <1>7, <2>5, <2>8, <2>11, <2>12 DEF OpenAtEnd, IsActive
<1>8. QED
  BY <1>3, <1>4, <1>5, <1>6, <1>7 DEF WellFormed, Event, EventTypes

\* The Activities before and after one Event: none is dropped or renamed, and
\* a status changes only to a successor.
LEMMA FoldForward ==
  ASSUME NEW s, NEW h, Sound(s, h), NEW e, WellFormed(e),
         NEW s1, NEW h1, Folds(s, h, e, s1, h1), NEW i \in DOMAIN s.activities
  PROVE  /\ i \in DOMAIN s1.activities
         /\ SameActivity(s1.activities[i], s.activities[i])
         /\ s1.activities[i].status \in Successors(s.activities[i].status)
<1> DEFINE acts == s.activities
<1>1. /\ s \in RunState /\ acts \in Seq(ActivityState)
      /\ s.status # "absent" /\ ConsistentProjection(s)
      /\ Guard(s, e)
  BY FoldExtends DEF Sound, Typed, RunState, Projected, NoRun
<1>2. /\ acts[i] \in ActivityState
      /\ acts[i].status \in ActivityStatuses
      /\ acts[i].status \in Successors(acts[i].status)
  <2>0. acts[i] \in ActivityState
    BY <1>1
  <2>1. acts[i].status \in ActivityStatuses
    BY <2>0 DEF ActivityState
  <2>2. \A status : status \in Successors(status) \/ status \notin ActivityStatuses
    BY DEF Successors, ActivityStatuses
  <2>3. QED
    BY <2>0, <2>1, <2>2
<1>3. ASSUME s1.activities = acts
      PROVE  /\ i \in DOMAIN s1.activities
             /\ SameActivity(s1.activities[i], acts[i])
             /\ s1.activities[i].status \in Successors(acts[i].status)
  BY <1>2, <1>3 DEF SameActivity
<1>4. ASSUME NEW from \in {"pending", "running"}, NEW to \in ActivityStatuses,
             to \in Successors(from), MatchingActivity(s, e, from),
             s1.activities = WithActivity(s, e, to).activities
      PROVE  /\ i \in DOMAIN s1.activities
             /\ SameActivity(s1.activities[i], acts[i])
             /\ s1.activities[i].status \in Successors(acts[i].status)
  <2>1. /\ i \in DOMAIN s1.activities
        /\ s1.activities[i] = IF acts[i].activity = e.activity
                                  THEN [acts[i] EXCEPT !.status = to] ELSE acts[i]
    <3> DEFINE t == WithActivity(s, e, to)
    <3>1. /\ DOMAIN t.activities = DOMAIN acts
          /\ \A j \in DOMAIN acts :
               t.activities[j] = IF acts[j].activity = e.activity
                                 THEN [acts[j] EXCEPT !.status = to] ELSE acts[j]
      <4>1. s \in RunState
        BY <1>1
      <4>2. QED
        BY <4>1, WithActivityFields
    <3>2. QED
      BY <3>1, <1>4, Zenon
  <2>2. CASE acts[i].activity # e.activity
    BY <1>2, <2>1, <2>2 DEF SameActivity
  <2>3. CASE acts[i].activity = e.activity
    <3>1. PICK k \in DOMAIN acts : acts[k].activity = e.activity /\ acts[k].status = from
      BY <1>4 DEF MatchingActivity
    <3>2. acts[i].status = from
      BY <1>1, <2>3, <3>1 DEF ConsistentProjection
    <3>3. /\ s1.activities[i].status = to
          /\ SameActivity(s1.activities[i], acts[i])
      BY <1>2, <2>1, <2>3 DEF ActivityState, SameActivity
    <3>4. QED
      BY <1>4, <2>1, <3>2, <3>3
  <2>4. QED
    BY <2>2, <2>3
<1>5. CASE e.type = "RunCreated"
  BY <1>1, <1>5 DEF Guard
<1>6. CASE e.type \in {"RunStarted", "RunSucceeded", "RunFailed"}
  BY <1>3, <1>6, FoldCases
<1>7. CASE e.type = "Requested"
  <2>1. s1 = WithRequested(s, e) /\ s \in RunState
    BY <1>1, <1>7, FoldCases
  <2>2. /\ Len(s1.activities) = Len(acts) + 1
        /\ s1.activities[i] = acts[i]
    BY <1>7, <2>1, WithRequestedFields
  <2>3. s1.activities \in Seq(ActivityState)
    BY FoldExtends DEF Typed, RunState
  <2>4. i \in DOMAIN s1.activities
    BY <1>1, <2>2, <2>3
  <2>5. QED
    BY <1>2, <2>2, <2>4 DEF SameActivity
<1>8. CASE e.type = "Started"
  <2>1. "running" \in ActivityStatuses /\ "running" \in Successors("pending")
    BY DEF ActivityStatuses, Successors
  <2>2. MatchingActivity(s, e, "pending") /\ s1 = WithActivity(s, e, "running")
    BY <1>8, FoldCases
  <2>3. QED
    BY <1>4, <2>1, <2>2
<1>9. CASE e.type \in {"Completed", "Failed"}
  <2>1. PICK status \in {"succeeded", "failed"} : s1 = WithTerminal(s, e, status)
    BY <1>9, FoldCases
  <2>2. status \in ActivityStatuses /\ status \in Successors("running")
    BY DEF ActivityStatuses, Successors
  <2>3. s1.activities = WithActivity(s, e, status).activities
    BY <1>1, <2>1, <2>2, WithTerminalFields
  <2>4. MatchingActivity(s, e, "running")
    BY <1>9, FoldCases
  <2>5. QED
    BY <1>4, <2>2, <2>3, <2>4
<1>10. QED
  BY <1>5, <1>6, <1>7, <1>8, <1>9 DEF WellFormed, Event, EventTypes

\* The other fields: identity and limits are fixed, usage never decreases.
LEMMA FoldKeeps ==
  ASSUME NEW s, NEW h, Sound(s, h), NEW e, WellFormed(e), NEW s1, NEW h1, Folds(s, h, e, s1, h1)
  PROVE  /\ s.status # "absent" => s1.run = s.run /\ s1.limits = s.limits
         /\ \A f \in {"iterations", "input", "output", "cost", "tools"} :
              s1.usage[f] >= s.usage[f]
<1>1. /\ s \in RunState /\ s.usage \in BudgetUsage /\ Guard(s, e)
      /\ s1 = Reduced(s, e) /\ (s.status = "absent" => s = NoRun)
  BY FoldExtends DEF Sound, Typed, RunState, Projected
<1>2. /\ s.usage.iterations \in Nat /\ s.usage.input \in Nat
      /\ s.usage.output \in Nat /\ s.usage.cost \in Nat /\ s.usage.tools \in Nat
  BY <1>1 DEF BudgetUsage
<1>3. s.usage = [iterations |-> s.usage.iterations, input |-> s.usage.input,
                     output |-> s.usage.output, cost |-> s.usage.cost,
                     tools |-> s.usage.tools]
  BY <1>1 DEF BudgetUsage
<1>4. /\ "running" \in ActivityStatuses /\ "succeeded" \in ActivityStatuses
      /\ "failed" \in ActivityStatuses
      /\ "running" \in RunStatuses /\ "succeeded" \in RunStatuses /\ "failed" \in RunStatuses
  BY DEF ActivityStatuses, RunStatuses
<1>5. ASSUME s1.usage = s.usage
      PROVE  \A f \in {"iterations", "input", "output", "cost", "tools"} :
               s1.usage[f] >= s.usage[f]
  BY <1>2, <1>5
<1>6. CASE e.type = "RunCreated"
  <2>1. s = NoRun
    BY <1>1, <1>6 DEF Guard
  <2>2. s1.usage = s.usage
    BY <1>6, <2>1, FoldCases
  <2>3. QED
    BY <1>5, <2>1, <2>2 DEF NoRun
<1>7. CASE e.type \in {"RunStarted", "RunSucceeded", "RunFailed"}
  <2>1. s1.usage = s.usage /\ s1.limits = s.limits
    BY <1>7, FoldCases
  <2>2. s1.run = s.run
    BY <1>1, <1>7 DEF Reduced, WithStatus, RunState
  <2>3. QED
    BY <1>5, <2>1, <2>2
<1>8. CASE e.type = "Requested"
  <2>1. /\ s1.usage = Counted(s.usage, e.kind)
        /\ s1.run = s.run /\ s1.limits = s.limits
    <3>1. s1 = WithRequested(s, e) /\ s \in RunState
      BY <1>1, <1>8, FoldCases
    <3>2. QED
      BY <1>8, <3>1, WithRequestedFields
  <2>2. \A f \in {"iterations", "input", "output", "cost", "tools"} :
          s1.usage[f] >= s.usage[f]
    BY <2>1, <1>2, <1>3 DEF Counted
  <2>3. QED
    BY <2>1, <2>2
<1>9. CASE e.type = "Started"
  <2>1. s1 = WithActivity(s, e, "running")
    BY <1>9, FoldCases
  <2>2. s1.usage = s.usage /\ s1.run = s.run /\ s1.limits = s.limits
    BY <1>1, <1>4, <2>1, WithActivityFields
  <2>3. QED
    BY <1>5, <2>2
<1>10. CASE e.type \in {"Completed", "Failed"}
  <2>1. PICK status \in {"succeeded", "failed"} : s1 = WithTerminal(s, e, status)
    BY <1>10, FoldCases
  <2>2. status \in ActivityStatuses
    BY <1>4
  <2>3. /\ s1.usage = ModelUsage(s.usage, e.usage)
        /\ s1.run = s.run /\ s1.limits = s.limits
    BY <1>1, <2>1, <2>2, WithTerminalFields
  <2>4. e.usage.input \in Nat /\ e.usage.output \in Nat /\ e.usage.cost \in Nat
    BY DEF WellFormed, Event, Usage
  <2>5. \A f \in {"iterations", "input", "output", "cost", "tools"} :
          s1.usage[f] >= s.usage[f]
    <3>1. /\ s1.usage.iterations = s.usage.iterations
          /\ s1.usage.input = s.usage.input + e.usage.input
          /\ s1.usage.output = s.usage.output + e.usage.output
          /\ s1.usage.cost = s.usage.cost + e.usage.cost
          /\ s1.usage.tools = s.usage.tools
      BY <2>3, <1>3 DEF ModelUsage
    <3>2. QED
      BY <3>1, <2>4, <1>2
  <2>6. QED
    BY <2>3, <2>5
<1>11. QED
  BY <1>6, <1>7, <1>8, <1>9, <1>10 DEF WellFormed, Event, EventTypes

\* One more Event adds at most its own position to the requests of a kind.
LEMMA FoldCounts ==
  ASSUME NEW s, NEW h, Sound(s, h), RequestsCounted(s, h), NEW e, WellFormed(e),
         NEW s1, NEW h1, Folds(s, h, e, s1, h1)
  PROVE  RequestsCounted(s1, h1)
<1> DEFINE m == Len(h)
           before(k) == {i \in DOMAIN h : h[i].type = "Requested" /\ h[i].kind = k}
           after(k) == {i \in DOMAIN h1 : h1[i].type = "Requested" /\ h1[i].kind = k}
<1>1. /\ s \in RunState /\ m \in Nat /\ DOMAIN h = 1 .. m /\ DOMAIN h1 = 1 .. (m + 1)
      /\ h1[m + 1] = e /\ \A i \in 1 .. m : h1[i] = h[i]
  BY FoldExtends DEF Sound, Typed
<1>2. ASSUME NEW k
      PROVE  /\ IsFiniteSet(before(k)) /\ m + 1 \notin before(k)
             /\ after(k) = IF e.type = "Requested" /\ e.kind = k
                           THEN before(k) \cup {m + 1} ELSE before(k)
  <2>1. IsFiniteSet(1 .. m) /\ before(k) \in SUBSET (1 .. m)
    BY <1>1, FS_Interval
  <2>2. IsFiniteSet(before(k))
    BY <2>1, FS_Subset
  <2>3. m + 1 \notin before(k)
    BY <1>1
  <2>4. after(k) = {i \in 1 .. (m + 1) : IF i = m + 1 THEN e.type = "Requested" /\ e.kind = k
                                         ELSE i \in before(k)}
    BY <1>1
  <2> HIDE DEF before
  <2>5. QED
    BY <2>1, <2>2, <2>3, <2>4, <1>1
<1>3. /\ s.usage.iterations = Cardinality(before("model"))
      /\ s.usage.tools = Cardinality(before("tool"))
  BY DEF RequestsCounted
<1> HIDE DEF before, after
<1>4. ASSUME NEW k
      PROVE  Cardinality(after(k)) = IF e.type = "Requested" /\ e.kind = k
                                     THEN Cardinality(before(k)) + 1 ELSE Cardinality(before(k))
  BY <1>2, FS_AddElement
<1>5. /\ s1.usage.iterations = IF e.type = "Requested" /\ e.kind = "model"
                                   THEN s.usage.iterations + 1 ELSE s.usage.iterations
      /\ s1.usage.tools = IF e.type = "Requested" /\ e.kind = "tool"
                              THEN s.usage.tools + 1 ELSE s.usage.tools
  <2>1. s.usage = [iterations |-> s.usage.iterations, input |-> s.usage.input,
                       output |-> s.usage.output, cost |-> s.usage.cost,
                       tools |-> s.usage.tools]
    BY <1>1 DEF RunState, BudgetUsage
  <2>2. CASE e.type = "RunCreated"
    <3>1. s = NoRun
      BY <2>2, FoldExtends DEF Guard, Sound, Projected
    <3>2. QED
      BY <2>2, <3>1, FoldCases
  <2>3. CASE e.type \in {"RunStarted", "RunSucceeded", "RunFailed"}
    BY <2>3, FoldCases
  <2>4. CASE e.type = "Requested"
    <3>1. s1 = WithRequested(s, e)
      BY <2>4, FoldCases
    <3>2. s1.usage = Counted(s.usage, e.kind)
      BY <1>1, <2>4, <3>1, WithRequestedFields
    <3>3. e.kind \in Kinds
      BY <2>4 DEF WellFormed
    <3>4. QED
      BY <2>1, <2>4, <3>2, <3>3 DEF Counted, Kinds
  <2>5. CASE e.type = "Started"
    <3>1. s1 = WithActivity(s, e, "running") /\ "running" \in ActivityStatuses
      BY <2>5, FoldCases DEF ActivityStatuses
    <3>2. s1.usage = s.usage
      BY <1>1, <3>1, WithActivityFields
    <3>3. QED
      BY <2>5, <3>2
  <2>6. CASE e.type \in {"Completed", "Failed"}
    <3>1. PICK status \in {"succeeded", "failed"} : s1 = WithTerminal(s, e, status)
      BY <2>6, FoldCases
    <3>2. status \in ActivityStatuses
      BY DEF ActivityStatuses
    <3>3. s1.usage = ModelUsage(s.usage, e.usage)
      BY <1>1, <3>1, <3>2, WithTerminalFields
    <3>4. QED
      BY <2>1, <2>6, <3>3 DEF ModelUsage
  <2>7. QED
    BY <2>2, <2>3, <2>4, <2>5, <2>6 DEF WellFormed, Event, EventTypes
<1>6. /\ s1.usage.iterations = Cardinality(after("model"))
      /\ s1.usage.tools = Cardinality(after("tool"))
  BY <1>3, <1>4, <1>5
<1>7. QED
  BY <1>6 DEF RequestsCounted, after

-----------------------------------------------------------------------------
(* Soundness starts with no Run and no Event, and every fold keeps it *)

\* Before the first Event.
LEMMA NothingSound == Sound(NoRun, << >>)
<1>1. Typed(NoRun, << >>)
  BY DEF Typed, NoRun, RunState, Limits, BudgetUsage, NoLimits, NoTime, RunStatuses
<1>2. Projected(NoRun, << >>)
  BY BoundsAssumption DEF Projected, NoRun, UsageInBounds, MAX_CUMULATIVE_TOKENS,
     MAX_CUMULATIVE_COST_MICROUSD
<1>3. OpenAtEnd(NoRun, << >>) /\ InSeries(<< >>) /\ EvidenceAnswers(<< >>)
  BY DEF OpenAtEnd, NoRun, InSeries, EvidenceAnswers
<1>4. BudgetKept(NoRun)
  BY DEF NoRun, NoLimits, BudgetKept, HasActive
<1>5. QED
  BY <1>1, <1>2, <1>3, <1>4 DEF Sound

\* The reducer keeps projection and history sound, whatever Event it takes.
LEMMA FoldSound ==
  ASSUME NEW s, NEW h, Sound(s, h), NEW e, WellFormed(e),
         NEW s1, NEW h1, Folds(s, h, e, s1, h1)
  PROVE  Sound(s1, h1)
<1>1. Typed(s1, h1)
  BY FoldExtends
<1>2. Projected(s1, h1)
  BY FoldProjected
<1>3. OpenAtEnd(s1, h1)
  BY FoldOpenAtEnd
<1>4. BudgetKept(s1)
  BY FoldWithinBudget
<1>5. InSeries(h1)
  BY FoldSerial
<1>6. EvidenceAnswers(h1)
  BY FoldEvidence
<1>7. QED
  BY <1>1, <1>2, <1>3, <1>4, <1>5, <1>6 DEF Sound

-----------------------------------------------------------------------------
(* What the committed Run is like after each type of Event *)

\* RunCreated.
LEMMA AfterCreated ==
  ASSUME NEW s, NEW h, Sound(s, h), NEW e, WellFormed(e),
         NEW s1, NEW h1, Folds(s, h, e, s1, h1), e.type = "RunCreated"
  PROVE  s1.status = "queued" /\ s1.run = e.run
BY DEF Folds, Reduced, Created, NoRun

\* RunStarted: no Activity yet.
LEMMA AfterStarted ==
  ASSUME NEW s, NEW h, Sound(s, h), NEW e, WellFormed(e),
         NEW s1, NEW h1, Folds(s, h, e, s1, h1), e.type = "RunStarted"
  PROVE  RequestReady(s1)
<1>1. s \in RunState /\ s1 = [WithStatus(s, e, "running") EXCEPT !.started_at = e.at]
  BY DEF Sound, Typed, Folds, Reduced
<1>2. s1.status = "running" /\ s1.activities = s.activities
  BY <1>1 DEF WithStatus, RunState
<1>3. ~ HasActive(s)
  BY FoldCases
<1>4. QED
  BY <1>2, <1>3 DEF RequestReady, HasActive

\* RunSucceeded and RunFailed.
LEMMA AfterEnd ==
  ASSUME NEW s, NEW h, Sound(s, h), NEW e, WellFormed(e),
         NEW s1, NEW h1, Folds(s, h, e, s1, h1), e.type \in {"RunSucceeded", "RunFailed"}
  PROVE  IsTerminal(s1)
<1>1. s \in RunState /\ \E status \in {"succeeded", "failed"} : s1 = WithStatus(s, e, status)
  BY DEF Sound, Typed, Folds, Reduced
<1>2. QED
  BY <1>1 DEF WithStatus, RunState, IsTerminal

\* A request opens its Activity.
LEMMA AfterRequest ==
  ASSUME NEW s, NEW h, Sound(s, h), NEW e, WellFormed(e),
         NEW s1, NEW h1, Folds(s, h, e, s1, h1), e.type = "Requested"
  PROVE  MatchingActivity(s1, e, "pending")
<1> DEFINE n == Len(s.activities)
           new == [activity |-> e.activity, kind |-> e.kind, call |-> e.call,
                   status |-> "pending"]
<1>1. s \in RunState /\ RequestGuard(s, e) /\ s1 = WithRequested(s, e)
  BY FoldCases DEF Sound, Typed
<1>2. /\ s1 \in RunState /\ Len(s1.activities) = n + 1 /\ s1.activities[n + 1] = new
      /\ \A j \in DOMAIN s.activities : s1.activities[j] = s.activities[j]
  <2>1. s \in RunState /\ s1 = WithRequested(s, e)
    BY <1>1
  <2>2. QED
    BY <2>1, WithRequestedFields
<1>3. s.activities \in Seq(ActivityState) /\ s1.activities \in Seq(ActivityState)
  BY <1>1, <1>2 DEF RunState
<1> HIDE DEF new
<1>4. /\ n \in Nat /\ n + 1 \in DOMAIN s1.activities /\ s1.activities[n + 1] = new
      /\ \A j \in 1 .. n : j \in DOMAIN s.activities /\ s1.activities[j] = s.activities[j]
  BY <1>2, <1>3
<1>5. \A j \in 1 .. n : s1.activities[j].activity # e.activity
  BY <1>1, <1>4 DEF RequestGuard, UniqueIds
<1>6. QED
  BY <1>4, <1>5 DEF MatchingActivity, new

\* Its Started lets it run.
LEMMA AfterActivityStarted ==
  ASSUME NEW s, NEW h, Sound(s, h), NEW e, WellFormed(e),
         NEW s1, NEW h1, Folds(s, h, e, s1, h1), e.type = "Started"
  PROVE  MatchingActivity(s1, e, "running")
<1> DEFINE t == WithActivity(s, e, "running")
<1>1. s \in RunState /\ MatchingActivity(s, e, "pending") /\ s1 = t
  BY FoldCases DEF Sound, Typed
<1>2. PICK i \in DOMAIN s.activities :
        /\ s.activities[i] = [activity |-> e.activity, kind |-> e.kind,
                              call |-> e.call, status |-> "pending"]
        /\ \A j \in 1 .. (i - 1) : s.activities[j].activity # e.activity
  BY <1>1 DEF MatchingActivity
<1>3. "running" \in ActivityStatuses
  BY DEF ActivityStatuses
<1>4. /\ DOMAIN t.activities = DOMAIN s.activities
      /\ \A j \in DOMAIN s.activities :
           t.activities[j] = IF s.activities[j].activity = e.activity
                             THEN [s.activities[j] EXCEPT !.status = "running"]
                             ELSE s.activities[j]
  <2>1. s \in RunState
    BY <1>1
  <2>2. QED
    BY <2>1, <1>3, WithActivityFields
<1>5. s.activities \in Seq(ActivityState)
  BY <1>1 DEF RunState
<1> HIDE DEF t
<1>6. t.activities[i] = [activity |-> e.activity, kind |-> e.kind,
                         call |-> e.call, status |-> "running"]
  BY <1>2, <1>4
<1>7. \A j \in 1 .. (i - 1) : j \in DOMAIN s.activities
  BY <1>2, <1>5
<1>8. \A j \in 1 .. (i - 1) : t.activities[j].activity # e.activity
  BY <1>2, <1>4, <1>7
<1>9. QED
  BY <1>1, <1>2, <1>4, <1>6, <1>8 DEF MatchingActivity

\* Its result leaves the Run ready for the next request.
LEMMA AfterResult ==
  ASSUME NEW s, NEW h, Sound(s, h), NEW e, WellFormed(e),
         NEW s1, NEW h1, Folds(s, h, e, s1, h1), e.type \in {"Completed", "Failed"}
  PROVE  RequestReady(s1)
<1>1. PICK status \in {"succeeded", "failed"} : s1 = WithTerminal(s, e, status)
  BY FoldCases
<1>2. status \in ActivityStatuses /\ s \in RunState
  BY DEF ActivityStatuses, Sound, Typed
<1>3. /\ s1 \in RunState /\ s1.status = s.status
      /\ s1.activities = WithActivity(s, e, status).activities
  BY <1>1, <1>2, WithTerminalFields
<1>4. MatchingActivity(s, e, "running")
  BY FoldCases
<1>5. s.status = "running"
  BY <1>4, OneActive DEF MatchingActivity, IsActive
<1>6. QED
  BY <1>3, <1>4, <1>5, NoneActiveAfterResult DEF RequestReady

\* Only a request adds an Activity, the one it names.
LEMMA FoldActivities ==
  ASSUME NEW s, NEW h, Sound(s, h), NEW e, WellFormed(e),
         NEW s1, NEW h1, Folds(s, h, e, s1, h1), NEW i \in DOMAIN s1.activities
  PROVE  \/ i \in DOMAIN s.activities
         \/ e.type = "Requested" /\ SameActivity(s1.activities[i], e)
<1>1. s \in RunState /\ s.activities \in Seq(ActivityState)
  BY DEF Sound, Typed, RunState
<1>2. CASE e.type = "RunCreated"
  BY <1>2, FoldCases
<1>3. CASE e.type \in {"RunStarted", "RunSucceeded", "RunFailed"}
  BY <1>3, FoldCases
<1>4. CASE e.type = "Requested"
  <2>1. s1 = WithRequested(s, e) /\ s \in RunState
    BY <1>1, <1>4, FoldCases
  <2>2. /\ s1 \in RunState /\ Len(s1.activities) = Len(s.activities) + 1
        /\ s1.activities[Len(s.activities) + 1] =
             [activity |-> e.activity, kind |-> e.kind, call |-> e.call, status |-> "pending"]
    BY <1>4, <2>1, WithRequestedFields
  <2>3. i \in DOMAIN s.activities \/ i = Len(s.activities) + 1
    BY <1>1, <2>2 DEF RunState
  <2>4. QED
    BY <1>4, <2>2, <2>3 DEF SameActivity
<1>5. CASE e.type = "Started"
  <2>1. s1 = WithActivity(s, e, "running") /\ "running" \in ActivityStatuses
    BY <1>5, FoldCases DEF ActivityStatuses
  <2>2. QED
    BY <1>1, <2>1, WithActivityFields
<1>6. CASE e.type \in {"Completed", "Failed"}
  <2>1. PICK status \in {"succeeded", "failed"} : s1 = WithTerminal(s, e, status)
    BY <1>6, FoldCases
  <2>2. status \in ActivityStatuses
    BY DEF ActivityStatuses
  <2>3. s1.activities = WithActivity(s, e, status).activities
    BY <1>1, <2>1, <2>2, WithTerminalFields
  <2>4. QED
    BY <1>1, <2>2, <2>3, WithActivityFields
<1>7. QED
  BY <1>2, <1>3, <1>4, <1>5, <1>6 DEF WellFormed, Event, EventTypes

-----------------------------------------------------------------------------
(* The length of a stream *)

\* Events of the open Activity that are still to come.
Behind(s) ==
  IF \E i \in DOMAIN s.activities : s.activities[i].status = "pending" THEN 2
  ELSE IF \E i \in DOMAIN s.activities : s.activities[i].status = "running" THEN 1
  ELSE 0

\* The projection determines how many Events it is the fold of.
Measured(s, h) ==
  LET n == Len(s.activities)
  IN  /\ s.last_sequence = Len(h)
      /\ n = s.usage.iterations + s.usage.tools
      /\ s.status = "absent" => Len(h) = 0
      /\ s.status = "queued" => Len(h) = 1 /\ n = 0
      /\ s.status = "running" => Len(h) + Behind(s) = 2 + 3 * n
      /\ IsTerminal(s) => Len(h) = 3 + 3 * n

\* The counters of the two kinds together are the Activities, before and after.
LEMMA FoldCountsActivities ==
  ASSUME NEW s, NEW h, Sound(s, h), Measured(s, h), NEW e, WellFormed(e),
         NEW s1, NEW h1, Folds(s, h, e, s1, h1)
  PROVE  /\ s1.last_sequence = Len(h1)
         /\ Len(s1.activities) = s1.usage.iterations + s1.usage.tools
         /\ Len(s1.activities) = CASE e.type = "RunCreated" -> 0
                                   [] e.type = "Requested" -> Len(s.activities) + 1
                                   [] OTHER -> Len(s.activities)
<1>1. /\ s \in RunState /\ s1 \in RunState /\ Len(h) \in Nat /\ Len(h1) = Len(h) + 1
      /\ s1 = Reduced(s, e) /\ s.activities \in Seq(ActivityState)
      /\ s.usage \in BudgetUsage /\ e.sequence = s.last_sequence + 1
  BY FoldExtends DEF Sound, Typed, RunState, Folds, Reducible, Addressed
<1>2. /\ s.usage.iterations \in Nat /\ s.usage.tools \in Nat
      /\ Len(s.activities) = s.usage.iterations + s.usage.tools
      /\ s.last_sequence = Len(h)
  BY <1>1 DEF BudgetUsage, Measured
<1>3. s1.last_sequence = e.sequence
  BY <1>1 DEF Reduced, Created, NoRun, WithStatus, WithRequested, WithActivity, WithTerminal,
     RunState, WellFormed, Event, EventTypes
<1>4. CASE e.type = "RunCreated"
  BY <1>1, <1>2, <1>3, <1>4, FoldCases DEF NoRun
<1>5. CASE e.type \in {"RunStarted", "RunSucceeded", "RunFailed"}
  BY <1>1, <1>2, <1>3, <1>5, FoldCases
<1>6. CASE e.type = "Requested"
  <2>1. s1 = WithRequested(s, e) /\ s \in RunState
    BY <1>1, <1>6, FoldCases
  <2>2. Len(s1.activities) = Len(s.activities) + 1 /\ s1.usage = Counted(s.usage, e.kind)
    BY <1>6, <2>1, WithRequestedFields
  <2>3. s1.usage.iterations + s1.usage.tools = s.usage.iterations + s.usage.tools + 1
    BY <1>1, <1>2, <2>2 DEF Counted, BudgetUsage
  <2>4. QED
    BY <1>1, <1>2, <1>3, <1>6, <2>2, <2>3
<1>7. CASE e.type = "Started"
  <2>1. s1 = WithActivity(s, e, "running") /\ s \in RunState /\ "running" \in ActivityStatuses
    BY <1>1, <1>7, FoldCases DEF ActivityStatuses
  <2>2. Len(s1.activities) = Len(s.activities) /\ s1.usage = s.usage
    BY <2>1, WithActivityFields
  <2>3. QED
    BY <1>1, <1>2, <1>3, <1>7, <2>2
<1>8. CASE e.type \in {"Completed", "Failed"}
  <2>1. PICK status \in {"succeeded", "failed"} : s1 = WithTerminal(s, e, status)
    BY <1>8, FoldCases
  <2>2. status \in ActivityStatuses /\ s \in RunState
    BY <1>1 DEF ActivityStatuses
  <2>3. s1.activities = WithActivity(s, e, status).activities
    BY <1>1, <2>1, <2>2, WithTerminalFields DEF WithTerminal
  <2>4. Len(s1.activities) = Len(s.activities)
    BY <2>2, <2>3, WithActivityFields
  <2>5. s1.usage = ModelUsage(s.usage, e.usage)
    BY <2>1, <2>2, UsageOfTerminal
  <2>6. s1.usage.iterations = s.usage.iterations /\ s1.usage.tools = s.usage.tools
    BY <1>1, <2>5 DEF ModelUsage, BudgetUsage
  <2>7. QED
    BY <1>1, <1>2, <1>3, <1>8, <2>4, <2>6
<1>9. QED
  BY <1>4, <1>5, <1>6, <1>7, <1>8 DEF WellFormed, Event, EventTypes

\* Every Event the reducer takes brings the stream one step nearer to its end.
LEMMA FoldMeasured ==
  ASSUME NEW s, NEW h, Sound(s, h), Measured(s, h), NEW e, WellFormed(e),
         NEW s1, NEW h1, Folds(s, h, e, s1, h1)
  PROVE  Measured(s1, h1)
<1> DEFINE n == Len(s.activities)
           m == Len(h)
<1>1. /\ s \in RunState /\ s1 \in RunState /\ m \in Nat /\ Len(h1) = m + 1 /\ n \in Nat
      /\ Sound(s1, h1) /\ Guard(s, e)
  BY FoldExtends, FoldSound DEF Sound, Typed, RunState
<1>2. ~ HasActive(s) => Behind(s) = 0
  BY DEF Behind, HasActive, IsActive
<1>3. ~ HasActive(s1) => Behind(s1) = 0
  BY DEF Behind, HasActive, IsActive
<1>4. /\ s1.last_sequence = m + 1
      /\ Len(s1.activities) = s1.usage.iterations + s1.usage.tools
  BY <1>1, FoldCountsActivities
<1>5. CASE e.type = "RunCreated"
  <2>1. s.status = "absent" /\ s1.status = "queued" /\ Len(s1.activities) = 0
    BY <1>1, <1>5, AfterCreated, FoldCountsActivities DEF Guard
  <2>2. QED
    BY <1>1, <1>4, <2>1 DEF Measured, IsTerminal
<1>6. CASE e.type = "RunStarted"
  <2>1. /\ s.status = "queued" /\ s1.status = "running" /\ ~ HasActive(s1)
        /\ Len(s1.activities) = n
    BY <1>1, <1>6, AfterStarted, FoldCountsActivities DEF Guard, RequestReady
  <2>2. m = 1 /\ n = 0
    BY <2>1 DEF Measured
  <2>3. QED
    BY <1>1, <1>3, <1>4, <2>1, <2>2 DEF Measured, IsTerminal
<1>7. CASE e.type \in {"RunSucceeded", "RunFailed"}
  <2>1. /\ s.status = "running" /\ ~ HasActive(s) /\ IsTerminal(s1) /\ Len(s1.activities) = n
    BY <1>1, <1>7, AfterEnd, FoldCountsActivities DEF Guard, RequestReady
  <2>2. m = 2 + 3 * n
    BY <1>1, <1>2, <2>1 DEF Measured
  <2>3. Len(h1) = 3 + 3 * Len(s1.activities)
    BY <1>1, <2>1, <2>2
  <2>4. s1.status \in {"succeeded", "failed"}
    BY <2>1 DEF IsTerminal
  <2>5. QED
    BY <1>1, <1>4, <2>3, <2>4 DEF Measured
<1>8. CASE e.type = "Requested"
  <2>1. /\ s.status = "running" /\ ~ HasActive(s) /\ Len(s1.activities) = n + 1
        /\ MatchingActivity(s1, e, "pending")
    BY <1>1, <1>8, AfterRequest, FoldCountsActivities DEF Guard, RequestGuard, RequestReady
  <2>2. Behind(s1) = 2 /\ s1.status = "running"
    <3>1. PICK i \in DOMAIN s1.activities : s1.activities[i].status = "pending"
      BY <2>1 DEF MatchingActivity
    <3>2. QED
      BY <1>1, <3>1, OneActive DEF Behind, IsActive
  <2>3. m = 2 + 3 * n
    BY <1>1, <1>2, <2>1 DEF Measured
  <2>4. QED
    BY <1>1, <1>4, <2>1, <2>2, <2>3 DEF Measured, IsTerminal
<1>9. CASE e.type = "Started"
  <2>1. /\ MatchingActivity(s, e, "pending") /\ MatchingActivity(s1, e, "running")
        /\ Len(s1.activities) = n
    BY <1>1, <1>9, AfterActivityStarted, FoldCountsActivities DEF Guard
  <2>2. Behind(s) = 2 /\ s.status = "running"
    <3>1. PICK i \in DOMAIN s.activities : s.activities[i].status = "pending"
      BY <2>1 DEF MatchingActivity
    <3>2. QED
      BY <3>1, OneActive DEF Behind, IsActive
  <2>3. Behind(s1) = 1 /\ s1.status = "running"
    <3>1. PICK i \in DOMAIN s1.activities : s1.activities[i].status = "running"
      BY <2>1 DEF MatchingActivity
    <3>2. IsActive(s1.activities[i])
      BY <3>1 DEF IsActive
    <3>3. \A j \in DOMAIN s1.activities : s1.activities[j].status # "pending"
      BY <1>1, <3>1, <3>2, OneActive DEF IsActive
    <3>4. QED
      BY <1>1, <3>1, <3>2, <3>3, OneActive DEF Behind
  <2>4. QED
    BY <1>1, <1>4, <2>1, <2>2, <2>3 DEF Measured, IsTerminal
<1>10. CASE e.type \in {"Completed", "Failed"}
  <2>1. /\ MatchingActivity(s, e, "running") /\ s1.status = "running" /\ ~ HasActive(s1)
        /\ Len(s1.activities) = n
    BY <1>1, <1>10, AfterResult, FoldCountsActivities DEF Guard, RequestReady
  <2>2. Behind(s) = 1 /\ s.status = "running"
    <3>1. PICK i \in DOMAIN s.activities : s.activities[i].status = "running"
      BY <2>1 DEF MatchingActivity
    <3>2. IsActive(s.activities[i])
      BY <3>1 DEF IsActive
    <3>3. \A j \in DOMAIN s.activities : s.activities[j].status # "pending"
      BY <3>1, <3>2, OneActive DEF IsActive
    <3>4. QED
      BY <3>1, <3>2, <3>3, OneActive DEF Behind
  <2>3. QED
    BY <1>1, <1>3, <1>4, <2>1, <2>2 DEF Measured, IsTerminal
<1>11. QED
  BY <1>5, <1>6, <1>7, <1>8, <1>9, <1>10 DEF WellFormed, Event, EventTypes

\* Nothing has happened yet.
LEMMA NothingMeasured == Measured(NoRun, << >>)
BY DEF Measured, NoRun, IsTerminal

\* The budgets bound the stream.
LEMMA StreamLength ==
  ASSUME NEW s, NEW h, Sound(s, h), Measured(s, h)
  PROVE  Len(h) <= 3 + 3 * (MAX_MODEL_ITERATIONS + MAX_TOOL_CALLS)
<1> DEFINE n == Len(s.activities)
<1>1. /\ s \in RunState /\ Len(h) \in Nat /\ n \in Nat
      /\ s.status \in RunStatuses
  BY DEF Sound, Typed, RunState
<1>2. n <= MAX_MODEL_ITERATIONS + MAX_TOOL_CALLS
  <2>1. /\ s.usage.iterations \in Nat /\ s.usage.tools \in Nat
        /\ s.usage.iterations <= MAX_MODEL_ITERATIONS /\ s.usage.tools <= MAX_TOOL_CALLS
    BY <1>1 DEF RunState, BudgetUsage, Sound, Projected, UsageInBounds
  <2>2. QED
    BY <2>1, BoundsAssumption DEF Measured
<1>3. Behind(s) \in Nat
  BY DEF Behind
<1>4. Len(h) <= 3 + 3 * n
  <2>1. /\ s.status = "absent" => Len(h) = 0
        /\ s.status = "queued" => Len(h) = 1
        /\ s.status = "running" => Len(h) + Behind(s) = 2 + 3 * n
        /\ s.status \in {"succeeded", "failed"} => Len(h) = 3 + 3 * n
    BY DEF Measured, IsTerminal
  <2> HIDE DEF n
  <2>2. 0 <= 3 + 3 * n /\ 1 <= 3 + 3 * n
    BY <1>1
  <2>3. s.status = "running" => Len(h) <= 3 + 3 * n
    BY <1>1, <1>3, <2>1
  <2>4. s.status \in {"absent", "queued", "running", "succeeded", "failed"}
    BY <1>1 DEF RunStatuses
  <2>5. s.status \in {"absent", "queued"} => Len(h) <= 3 + 3 * n
    BY <2>1, <2>2
  <2>6. s.status \in {"succeeded", "failed"} => Len(h) <= 3 + 3 * n
    BY <1>1, <2>1
  <2>7. QED
    BY <2>3, <2>4, <2>5, <2>6
<1>5. QED
  BY <1>1, <1>2, <1>4, BoundsAssumption
==============================================================================
