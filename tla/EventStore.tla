------------------------------ MODULE EventStore ------------------------------
(***************************************************************************)
(* The durable EventStore (adapters/sqlite/store.py): every call of the    *)
(* port runs on a worker thread of its own, with a connection of its own,  *)
(* against one database file.  Writers are serialized by BEGIN IMMEDIATE,  *)
(* readers see the snapshot their transaction took (WAL), and a process    *)
(* that dies loses whatever was not committed.                             *)
(*                                                                         *)
(* A transaction is a private copy `tx` of the tables, which replaces them *)
(* when it commits.  Who called is not modelled: any Event of Offers may   *)
(* be appended by anyone at any time, so stale, repeated and conflicting   *)
(* Events all occur.                                                       *)
(***************************************************************************)
EXTENDS RunEvents, FiniteSets, SequencesExt

CONSTANTS
  Workers,        \* worker threads: the number of calls under way at a time
  EventIds,
  Offers,         \* the rows that callers try to append
  Cursors,        \* after_sequence of a list_events call
  PageLimits,     \* its limit
  MaxEvents       \* parameter of RunReducer, whose Next is not used here

Row == [id : EventIds, event : Event]
ASSUME OffersAssumption == Offers \subseteq Row
ASSUME WorkersAssumption == None \notin Workers
ASSUME QueryAssumption == Cursors \subseteq Nat /\ PageLimits \subseteq Nat \ {0}

VARIABLES
  file,      \* the database file: "absent", "empty" of tables, "migrated"
  rows,      \* table events
  runs,      \* tables run_projections and activity_projections; NoRun: no row
  writer,    \* the worker whose transaction is IMMEDIATE, or None
  pc, job, tx,
  awaited,   \* whether the coroutine still waits for its worker
  outcome,   \* what the caller learned of the worker's last call
  answer     \* what that call read

tables == <<rows, runs>>
vars == <<file, rows, runs, writer, pc, job, tx, awaited, outcome, answer>>

-----------------------------------------------------------------------------
(* Queries *)

EventsOf(R, r) == {row.event : row \in {x \in R : x.event.run = r}}

\* ORDER BY sequence
Ordered(found) ==
  [i \in 1 .. Cardinality(found) |->
     CHOOSE e \in found : Cardinality({d \in found : d.sequence <= e.sequence}) = i]

\* SELECT ... WHERE run_id = r AND sequence < n ORDER BY sequence
LogBefore(R, r, n) == Ordered({e \in EventsOf(R, r) : e.sequence < n})
LogOf(R, r) == Ordered(EventsOf(R, r))

\* MIN(sequence) = 1 and MAX(sequence) = COUNT(*), or no row at all
Contiguous(R, r) ==
  LET sequences == {row.event.sequence : row \in {x \in R : x.event.run = r}}
  IN  sequences # {} => /\ Min(sequences) = 1
                        /\ Max(sequences) = Cardinality({x \in R : x.event.run = r})

\* _validate_projection_sequence: the projection is as long as the stream
Consistent(t, r) ==
  /\ Contiguous(t.rows, r)
  /\ t.runs[r].last_sequence = Cardinality(EventsOf(t.rows, r))

\* mutant: sequence >= after
Page_Inclusive(R, r, after, limit) ==
  SubSeq(LogOf(R, r), after, Min({after + limit - 1, Cardinality(EventsOf(R, r))}))

\* list_events' page: sequence > after ORDER BY sequence LIMIT limit
Page(R, r, after, limit) ==
  SubSeq(LogOf(R, r), after + 1, Min({after + limit, Cardinality(EventsOf(R, r))}))

\* INSERT INTO events: PRIMARY KEY (event_id), UNIQUE (run_id, sequence)
InsertConflicts(R, new) ==
  \E row \in R : \/ row.id = new.id
                 \/ row.event.run = new.event.run /\ row.event.sequence = new.event.sequence

\* INSERT INTO activity_projections: PRIMARY KEY (activity_id), across all Runs
ProjectionConflicts(P, r, s) ==
  \E other \in RunIds \ {r} : \E i \in DOMAIN P[other].activities :
    \E j \in DOMAIN s.activities :
      P[other].activities[i].activity = s.activities[j].activity

Tables == [rows : SUBSET Row, runs : [RunIds -> RunState]]
Committed == [rows |-> rows, runs |-> runs]
Closed == [rows |-> {}, runs |-> [r \in RunIds |-> NoRun]]
NoAnswer == [state |-> NoRun, events |-> << >>]

-----------------------------------------------------------------------------
(* Calls *)

NoJob == [op |-> "none", row |-> None, run |-> None, after |-> 0, limit |-> 0]
AppendJob(row) == [NoJob EXCEPT !.op = "append", !.row = row, !.run = row.event.run]
ListJob(r, after, limit) ==
  [NoJob EXCEPT !.op = "list", !.run = r, !.after = after, !.limit = limit]
GetJob(r) == [NoJob EXCEPT !.op = "get", !.run = r]
InitializeJob == [NoJob EXCEPT !.op = "initialize"]
Jobs == {NoJob, InitializeJob}
        \cup {AppendJob(row) : row \in Offers}
        \cup {ListJob(r, after, limit) : r \in RunIds, after \in Cursors, limit \in PageLimits}
        \cup {GetJob(r) : r \in RunIds}

Outcomes == {"none", "ok", "rejected", "conflict", "error", "busy", "uninitialized", "corrupt"}

Init ==
  /\ file = "absent" /\ rows = {} /\ runs = [r \in RunIds |-> NoRun]
  /\ writer = None
  /\ pc = [w \in Workers |-> "idle"] /\ job = [w \in Workers |-> NoJob]
  /\ tx = [w \in Workers |-> Closed]
  /\ awaited = [w \in Workers |-> FALSE]
  /\ outcome = [w \in Workers |-> "none"]
  /\ answer = [w \in Workers |-> NoAnswer]

\* a coroutine hands its call to a thread: asyncio.to_thread
Call(w, j) ==
  /\ pc[w] = "idle"
  /\ pc' = [pc EXCEPT ![w] = "open"]
  /\ job' = [job EXCEPT ![w] = j]
  /\ awaited' = [awaited EXCEPT ![w] = TRUE]
  /\ outcome' = [outcome EXCEPT ![w] = "none"]
  /\ answer' = [answer EXCEPT ![w] = NoAnswer]
  /\ UNCHANGED <<file, tables, writer, tx>>

\* the coroutine is cancelled; the thread does not notice
Cancel(w) ==
  /\ pc[w] # "idle" /\ awaited[w]
  /\ awaited' = [awaited EXCEPT ![w] = FALSE]
  /\ UNCHANGED <<file, tables, writer, pc, job, tx, outcome, answer>>

\* the call returns or raises, and `finally: connection.close()`; what became
\* of it is known only to a coroutine that still waits
Finish(w, result) ==
  /\ pc' = [pc EXCEPT ![w] = "idle"]
  /\ tx' = [tx EXCEPT ![w] = Closed]
  /\ writer' = IF writer = w THEN None ELSE writer
  /\ outcome' = [outcome EXCEPT ![w] = IF awaited[w] THEN result ELSE "none"]
  /\ job' = [job EXCEPT ![w] = IF awaited[w] THEN @ ELSE NoJob]
  /\ awaited' = [awaited EXCEPT ![w] = FALSE]

Goto(w, label) == pc' = [pc EXCEPT ![w] = label]

\* every error path ends in connection.rollback()
Rollback(w, result) ==
  /\ Finish(w, result)
  /\ answer' = [answer EXCEPT ![w] = NoAnswer]
  /\ UNCHANGED <<file, tables>>

-----------------------------------------------------------------------------
(* Steps of a worker *)

\* _initialize_sync connects, which creates the file, and sets WAL mode
Create(w) ==
  /\ pc[w] = "open" /\ job[w].op = "initialize"
  /\ file' = IF file = "absent" THEN "empty" ELSE file
  /\ Goto(w, "begin")
  /\ UNCHANGED <<tables, writer, job, tx, awaited, outcome, answer>>

\* _open_initialized: is_file, connect, verify_store_schema
Open(w) ==
  /\ pc[w] = "open" /\ job[w].op # "initialize"
  /\ IF file # "migrated"
     THEN Rollback(w, "uninitialized")
     ELSE /\ Goto(w, IF job[w].op = "append" THEN "begin" ELSE "read")
          /\ UNCHANGED <<file, tables, writer, job, tx, awaited, outcome, answer>>

\* mutant: BEGIN without IMMEDIATE
Begin_Deferred(w) ==
  /\ pc[w] = "begin"
  /\ writer' = w
  /\ tx' = [tx EXCEPT ![w] = Committed]
  /\ Goto(w, IF job[w].op = "append" THEN "insert" ELSE "migrate")
  /\ UNCHANGED <<file, tables, job, awaited, outcome, answer>>

\* BEGIN IMMEDIATE
Begin(w) ==
  /\ pc[w] = "begin" /\ writer = None
  /\ writer' = w
  /\ tx' = [tx EXCEPT ![w] = Committed]
  /\ Goto(w, IF job[w].op = "append" THEN "insert" ELSE "migrate")
  /\ UNCHANGED <<file, tables, job, awaited, outcome, answer>>

\* mutant: the adapter tries again by itself
Busy_Retries(w) ==
  /\ pc[w] = "begin" /\ writer # None
  /\ Goto(w, "open")
  /\ UNCHANGED <<file, tables, writer, job, tx, awaited, outcome, answer>>

\* busy_timeout passes while another writer holds the lock
Busy(w) ==
  /\ pc[w] = "begin" /\ writer # None
  /\ Rollback(w, "busy")

\* CREATE TABLE ... and the ledger row, or the check of an applied migration
Migrate(w) ==
  /\ pc[w] = "migrate"
  /\ file' = "migrated"
  /\ Finish(w, "ok")
  /\ UNCHANGED <<tables, answer>>

\* mutant: the identity is looked up before the reducer is asked
Insert_ConflictFirst(w) ==
  /\ pc[w] = "insert"
  /\ LET row == job[w].row
         e == row.event
     IN  IF InsertConflicts(tx[w].rows, row) THEN Rollback(w, "conflict")
         ELSE IF ~ (Parses(e) /\ Reducible(tx[w].runs[e.run], e)) THEN Rollback(w, "rejected")
         ELSE /\ tx' = [tx EXCEPT ![w].rows = @ \cup {row}]
              /\ Goto(w, "project")
              /\ UNCHANGED <<file, tables, writer, job, awaited, outcome, answer>>

\* load and check the projection, validate_event_history over the last two
\* Events before this one, reduce_event, INSERT INTO events
Insert(w) ==
  /\ pc[w] = "insert"
  /\ LET row == job[w].row
         e == row.event
         recent == LogBefore(tx[w].rows, e.run, e.sequence)
     IN  CASE ~ Consistent(tx[w], e.run) -> Rollback(w, "corrupt")
           [] Consistent(tx[w], e.run) /\ ~ (/\ HistoryValid(recent, e) /\ Parses(e)
                                             /\ Reducible(tx[w].runs[e.run], e)) ->
                Rollback(w, "rejected")
           [] OTHER ->
                IF InsertConflicts(tx[w].rows, row)
                THEN Rollback(w, "conflict")
                ELSE /\ tx' = [tx EXCEPT ![w].rows = @ \cup {row}]
                     /\ Goto(w, "project")
                     /\ UNCHANGED <<file, tables, writer, job, awaited, outcome, answer>>

\* mutant: a projection that cannot be written is left as it is
Project_SwallowsError(w) ==
  /\ pc[w] = "project"
  /\ LET e == job[w].row.event
         state == Reduced(tx[w].runs[e.run], e)
     IN  tx' = IF ProjectionConflicts(tx[w].runs, e.run, state) THEN tx
               ELSE [tx EXCEPT ![w].runs[e.run] = state]
  /\ Goto(w, "commit")
  /\ UNCHANGED <<file, tables, writer, job, awaited, outcome, answer>>

\* _write_run_projection: upsert the Run, replace its Activities
Project(w) ==
  /\ pc[w] = "project"
  /\ LET e == job[w].row.event
         state == Reduced(tx[w].runs[e.run], e)
     IN  IF ProjectionConflicts(tx[w].runs, e.run, state)
         THEN Rollback(w, "error")
         ELSE /\ tx' = [tx EXCEPT ![w].runs[e.run] = state]
              /\ Goto(w, "commit")
              /\ UNCHANGED <<file, tables, writer, job, awaited, outcome, answer>>

Commit(w) ==
  /\ pc[w] = "commit"
  /\ rows' = tx[w].rows /\ runs' = tx[w].runs
  /\ Finish(w, "ok")
  /\ UNCHANGED <<file, answer>>

\* mutant: a failed append returns as if it had been committed
Fail_ReportsOk(w) ==
  /\ pc[w] \in {"insert", "project", "commit"}
  /\ Rollback(w, "ok")

\* a statement of the append fails in sqlite: disk full, I/O error
Fail(w) ==
  /\ pc[w] \in {"migrate", "insert", "project", "commit"}
  /\ Rollback(w, "error")

\* BEGIN; the first SELECT takes the snapshot and loads the projection
ReadProjection(w) ==
  /\ pc[w] = "read"
  /\ tx' = [tx EXCEPT ![w] = Committed]
  /\ answer' = [answer EXCEPT ![w].state = runs[job[w].run]]
  /\ Goto(w, "rows")
  /\ UNCHANGED <<file, tables, writer, job, awaited, outcome>>

\* _maximum_sequence, _validate_projection_sequence, then the page of a list
ReadRows(w) ==
  /\ pc[w] = "rows"
  /\ LET r == job[w].run
     IN  IF ~ Consistent([tx[w] EXCEPT !.runs[r] = answer[w].state], r)
         THEN Rollback(w, "corrupt")
         ELSE /\ answer' = IF ~ awaited[w] THEN [answer EXCEPT ![w] = NoAnswer]
                           ELSE IF job[w].op = "list"
                           THEN [answer EXCEPT ![w].events =
                                   Page(tx[w].rows, r, job[w].after, job[w].limit)]
                           ELSE answer
              /\ Finish(w, "ok")
              /\ UNCHANGED <<file, tables>>

\* the process dies: threads, connections and uncommitted transactions are gone
Crash ==
  /\ writer' = None
  /\ pc' = [w \in Workers |-> "idle"] /\ job' = [w \in Workers |-> NoJob]
  /\ tx' = [w \in Workers |-> Closed]
  /\ awaited' = [w \in Workers |-> FALSE]
  /\ outcome' = [w \in Workers |-> "none"]
  /\ answer' = [w \in Workers |-> NoAnswer]
  /\ UNCHANGED <<file, tables>>

Work(w) ==
  \/ Create(w) \/ Open(w) \/ Begin(w) \/ Busy(w) \/ Migrate(w)
  \/ Insert(w) \/ Project(w) \/ Commit(w)
  \/ ReadProjection(w) \/ ReadRows(w)

Next ==
  \/ \E w \in Workers : \/ \E j \in Jobs \ {NoJob} : Call(w, j)
                        \/ Cancel(w)
                        \/ Work(w)
                        \/ Fail(w)
  \/ Crash

Spec == Init /\ [][Next]_vars

-----------------------------------------------------------------------------
(* Properties *)

\* Type correctness of the database and of the workers.
TypeOK ==
  /\ file \in {"absent", "empty", "migrated"}
  /\ Committed \in Tables
  /\ writer \in Workers \cup {None}
  /\ pc \in [Workers -> {"idle", "open", "begin", "migrate", "insert", "project", "commit",
                         "read", "rows"}]
  /\ job \in [Workers -> Jobs]
  /\ tx \in [Workers -> Tables]
  /\ awaited \in [Workers -> BOOLEAN]
  /\ outcome \in [Workers -> Outcomes]
  /\ answer \in [Workers -> [state : RunState, events : Seq(Event)]]

\* The projection tables are a function of the facts: for every Run they hold
\* exactly the state that reduce_events computes from its committed stream,
\* which is gapless, whoever wrote in between and wherever a process died.
Replayed(log) == FoldLeft(Reduced, NoRun, log)
ProjectionIsFold ==
  \A r \in RunIds : Contiguous(rows, r) /\ runs[r] = Replayed(LogOf(rows, r))

\* An append that returned a state to its caller is stored.  Facts are only
\* added (RunsFollowReducer), so it stays stored through every failure and crash.
ReturnedIsStored ==
  \A w \in Workers : outcome[w] = "ok" /\ job[w].op = "append" => job[w].row \in rows

\* EventStoreCorruptionError is not something concurrency can cause: no reader
\* and no writer ever finds projection and stream out of step.
NeverCorrupt == \A w \in Workers : outcome[w] # "corrupt"

\* One fact per identity: no append, however often it is repeated or raced,
\* stores an event_id twice, and no two Runs share an Activity.
IdentitiesUnique ==
  /\ \A x, y \in rows : x.id = y.id => x = y
  /\ \A x, y \in rows :
       x.event.type = "Requested" /\ y.event.type = "Requested"
       /\ x.event.activity = y.event.activity => x = y

\* Whatever the workers do to each other and wherever the process dies, the
\* tables are sound: every fact under one identity, every stream gapless, and
\* the projections what the facts say.
StoreInvariant == TypeOK /\ IdentitiesUnique /\ NeverCorrupt /\ ProjectionIsFold

\* A conflict is final: EventStoreConflictError means another fact has the
\* identity, so the Event itself is not stored and never will be.
ConflictIsFinal ==
  \A w \in Workers :
    outcome[w] = "conflict" => \E row \in rows : row.id = job[w].row.id /\ row # job[w].row

\* What a reader was told is a snapshot that later commits only extend: the
\* state it got is the fold of a prefix of the stream as it is now, and the page
\* it got is the requested segment of that prefix.
ReadsAreSnapshots ==
  \A w \in Workers :
    outcome[w] = "ok" /\ job[w].op \in {"list", "get"} =>
      LET seen == answer[w].state
          prefix == LogBefore(rows, job[w].run, seen.last_sequence + 1)
      IN  /\ seen = Replayed(prefix)
          /\ job[w].op = "list" =>
               LET asked == {n \in DOMAIN prefix : job[w].after < n /\ n <= job[w].after + job[w].limit}
               IN  /\ Len(answer[w].events) = Cardinality(asked)
                   /\ \A i \in DOMAIN answer[w].events : answer[w].events[i] = prefix[job[w].after + i]

\* Every committed Run is a behaviour of the reducer: its stream and projection
\* advance together, one reducible Event at a time.
Stored(r) == INSTANCE RunReducer WITH state <- runs[r], log <- LogOf(rows, r)
RunsFollowReducer ==
  /\ \A r \in RunIds : Stored(r)!Init
  /\ [][\A r \in RunIds :
          UNCHANGED Stored(r)!vars \/ Stored(r)!Offer(r, Len(LogOf(rows', r)))]_tables

\* F-0003 section 9 promises that a duplicate event_id is answered by a stable
\* conflict, whichever way the duplicate arises.
DuplicateIsConflict ==
  [][\A w \in Workers :
       outcome[w] # "rejected" /\ outcome'[w] = "rejected"
       => \A row \in rows : row.id # job[w].row.id]_vars
==============================================================================
