------------------------------ MODULE Diagnostics ------------------------------
(***************************************************************************)
(* The decorator that tells a diagnostic sink about every call of the      *)
(* EventStore (DiagnosticEventStore, adapters/diagnostics.py).  A call     *)
(* waits for the store's worker thread; what follows the answer (the       *)
(* measured duration, the record) happens in one step of the coroutine.    *)
(* A cancelled call leaves its thread behind, which may still commit, and  *)
(* the sink takes a record or raises.                                      *)
(*                                                                         *)
(* The store is any EventStore: it accepts an Event once and only after    *)
(* the Events it follows, or fails.  `heard` and `answered` are history.   *)
(***************************************************************************)
EXTENDS Integers, FiniteSets

CONSTANTS
  Calls,       \* calls that may be under way at the same time
  Activities,
  MaxTime,     \* bound of the monotonic clock
  None

Stages == {"requested", "started", "ended"}
Event == [activity : Activities, stage : Stages]
Names == {"event.committed", "event.append_failed", "operation.failed"}
Record == [name : Names, event : Event \cup {None}, at : 0 .. MaxTime,
           duration : (0 .. MaxTime) \cup {None}]

VARIABLES
  committed,  \* the Events the store holds
  pc,         \* "idle", "waiting" for the thread, its "answer" is there, "orphan": cancelled
  job,        \* the Event to append, or None for list_events and get_run
  answer,     \* what the thread answered: "ok" or "error"
  reply,      \* what the caller got
  clock,
  started,    \* _activity_started_at: Activity |-> time
  record,     \* what the sink took in the last step, or None
  heard       \* history: when the append of each Event returned through the decorator

vars == <<committed, pc, job, answer, reply, clock, started, record, heard>>

Init ==
  /\ committed = {}
  /\ pc = [c \in Calls |-> "idle"] /\ job = [c \in Calls |-> None]
  /\ answer = [c \in Calls |-> None] /\ reply = [c \in Calls |-> None]
  /\ clock = 0
  /\ started = [a \in Activities |-> None]
  /\ record = None
  /\ heard = [e \in Event |-> None]

\* the store accepts each Event of an Activity once, in the order of its stages
Follows(e) ==
  CASE e.stage = "requested" -> TRUE
    [] e.stage = "started"   -> [e EXCEPT !.stage = "requested"] \in committed
    [] e.stage = "ended"     -> [e EXCEPT !.stage = "started"] \in committed

Accepts(e) == e \notin committed /\ Follows(e)

-----------------------------------------------------------------------------
(* Calls and their threads *)

Call(c, what) ==
  /\ pc[c] = "idle"
  /\ pc' = [pc EXCEPT ![c] = "waiting"]
  /\ job' = [job EXCEPT ![c] = what]
  /\ answer' = [answer EXCEPT ![c] = None]
  /\ reply' = [reply EXCEPT ![c] = None]
  /\ record' = None
  /\ UNCHANGED <<committed, clock, started, heard>>

Answers(c, what) ==
  /\ pc[c] \in {"waiting", "orphan"}
  /\ answer' = [answer EXCEPT ![c] = what]
  /\ pc' = [pc EXCEPT ![c] = IF pc[c] = "orphan" THEN "idle" ELSE "answer"]
  /\ record' = None
  /\ UNCHANGED <<job, reply, clock, started, heard>>

Work(c) ==
  /\ job[c] # None => Accepts(job[c])
  /\ committed' = IF job[c] = None THEN committed ELSE committed \cup {job[c]}
  /\ Answers(c, "ok")

\* the reducer rejects the Event, or sqlite fails; nothing was committed
WorkFails(c) == Answers(c, "error") /\ UNCHANGED committed

-----------------------------------------------------------------------------
(* The decorator *)

\* emit_safely, and then the result goes to the caller whatever became of it
Emits(c, new, result) ==
  /\ record' \in {None, new}
  /\ reply' = [reply EXCEPT ![c] = result]

\* _ACTIVITY_STARTED_EVENTS
Starts(e) == e.stage = "started"

\* _activity_duration
Duration(e) == IF e.stage = "ended" /\ started[e.activity] # None
               THEN clock - started[e.activity] ELSE None

Timed(e) ==
  started' = IF Starts(e) THEN [started EXCEPT ![e.activity] = clock]
             ELSE IF e.stage = "ended" THEN [started EXCEPT ![e.activity] = None]
             ELSE started

\* the delegate returned
Return(c) ==
  /\ pc[c] = "answer" /\ answer[c] = "ok"
  /\ pc' = [pc EXCEPT ![c] = "idle"]
  /\ IF job[c] = None
     THEN /\ reply' = [reply EXCEPT ![c] = "ok"]
          /\ record' = None
          /\ UNCHANGED <<started, heard>>
     ELSE /\ Timed(job[c])
          /\ Emits(c, [name |-> "event.committed", event |-> job[c], at |-> clock,
                       duration |-> Duration(job[c])], "ok")
          /\ heard' = [heard EXCEPT ![job[c]] = clock]
  /\ UNCHANGED <<committed, job, answer, clock>>

FailureRecord(what) ==
  [name |-> IF what = None THEN "operation.failed" ELSE "event.append_failed",
   event |-> what, at |-> clock, duration |-> None]

\* except Exception: the record, and raise
Raise(c) ==
  /\ pc[c] = "answer" /\ answer[c] = "error"
  /\ pc' = [pc EXCEPT ![c] = "idle"]
  /\ Emits(c, FailureRecord(job[c]), "error")
  /\ UNCHANGED <<committed, job, answer, clock, started, heard>>

\* mutant: except BaseException
Cancel_Records(c) ==
  /\ pc[c] = "waiting"
  /\ pc' = [pc EXCEPT ![c] = "orphan"]
  /\ Emits(c, FailureRecord(job[c]), "cancelled")
  /\ UNCHANGED <<committed, job, answer, clock, started, heard>>

\* CancelledError is no Exception: it passes without a record
Cancel(c) ==
  /\ pc[c] = "waiting"
  /\ pc' = [pc EXCEPT ![c] = "orphan"]
  /\ reply' = [reply EXCEPT ![c] = "cancelled"]
  /\ record' = None
  /\ UNCHANGED <<committed, job, answer, clock, started, heard>>

Tick ==
  /\ clock < MaxTime
  /\ clock' = clock + 1
  /\ record' = None
  /\ UNCHANGED <<committed, pc, job, answer, reply, started, heard>>

Next ==
  \/ \E c \in Calls :
       \/ \E what \in Event \cup {None} : Call(c, what)
       \/ Work(c) \/ WorkFails(c)
       \/ Return(c) \/ Raise(c)
       \/ Cancel(c)
  \/ Tick

Spec == Init /\ [][Next]_vars

-----------------------------------------------------------------------------
(* Properties *)

\* Type correctness; an Activity is being timed only from an append that
\* returned, and not after its end was heard of.
TypeOK ==
  /\ committed \subseteq Event
  /\ pc \in [Calls -> {"idle", "waiting", "answer", "orphan"}]
  /\ job \in [Calls -> Event \cup {None}]
  /\ answer \in [Calls -> {"ok", "error", None}]
  /\ reply \in [Calls -> {"ok", "error", "cancelled", None}]
  /\ clock \in 0 .. MaxTime
  /\ started \in [Activities -> (0 .. MaxTime) \cup {None}]
  /\ record \in Record \cup {None}
  /\ heard \in [Event -> (0 .. MaxTime) \cup {None}]
  /\ \A a \in Activities : started[a] # None =>
       started[a] = heard[[activity |-> a, stage |-> "started"]]

\* F-0019 FR-1: an event.committed record is emitted only for a fact.  An
\* Event whose append failed, was cancelled or is still under way has none.
RecordsAreCommitted ==
  record # None /\ record.name = "event.committed" =>
    record.event \in committed /\ heard[record.event] # None

\* FR-6: the caller is told what the store did.  A sink that raises after a
\* commit turns no committed append into a failure, and none into a success.
SinkNeverDecides ==
  \A c \in Calls : reply[c] \in {"ok", "error"} => reply[c] = answer[c]

\* An event.append_failed record stands for an append the store refused: never
\* for one that was given up while its thread may still commit it.
FailuresAreAnswers ==
  record # None /\ record.name = "event.append_failed" =>
    \E c \in Calls : job[c] = record.event /\ answer[c] = "error"

\* The duration of an Activity is the time between the returns of the appends
\* of its Started and its last Event through this store; without both there is
\* none, whatever was cancelled, failed or returned in another order.
DurationsAreReal ==
  record # None /\ record.duration # None =>
    LET start == heard[[record.event EXCEPT !.stage = "started"]]
    IN  /\ record.event.stage = "ended"
        /\ start # None
        /\ record.duration = record.at - start
==============================================================================
