------------------------------ MODULE BoundedRead ------------------------------
(***************************************************************************)
(* run_bounded_read (_bounded_read.py): a coroutine hands a read to a      *)
(* thread of the pool and waits for it behind asyncio.shield.  Deadline,   *)
(* cancellation (again and again), the end of the read and the end of the  *)
(* event loop race.  The thread looks at its ReadControl now and then -    *)
(* between rows, and from the progress handler of sqlite - and nothing     *)
(* else can stop it.                                                       *)
(***************************************************************************)
EXTENDS Naturals, FiniteSets

CONSTANTS
  Reads,        \* calls of run_bounded_read under way together
  PoolSize,     \* threads of the default executor, at least one
  MaxCancels,   \* bound on how often a read is cancelled
  None

VARIABLES
  caller,     \* the coroutine: awaits, joins after a cancellation, or has ended
  cancels,    \* how often CancelledError was thrown into it
  told,       \* control.cancelled: the threading.Event
  late,       \* whether the deadline has passed
  worker,     \* "queued", "working", "closing" or "done"; "never" if it was not started
  open,       \* whether its database connection is open
  answer,     \* what the work returned or raised
  task        \* the asyncio task: "pending", "done" or "cancelled"
vars == <<caller, cancels, told, late, worker, open, answer, task>>

Ended(r) == caller[r] \in {"returned", "raised", "cancelled"}
Set(f, r, v) == [f EXCEPT ![r] = v]

Init ==
  /\ caller = [r \in Reads |-> "awaits"] /\ cancels = [r \in Reads |-> 0]
  /\ told = [r \in Reads |-> FALSE] /\ late = [r \in Reads |-> FALSE]
  /\ worker = [r \in Reads |-> "queued"] /\ open = [r \in Reads |-> FALSE]
  /\ answer = [r \in Reads |-> None] /\ task = [r \in Reads |-> "pending"]

-----------------------------------------------------------------------------
(* The thread *)

\* ReadControl.stopped
Stopped(r) == told[r] \/ late[r]

Answers(r, what) == worker' = Set(worker, r, "closing") /\ answer' = Set(answer, r, what)

\* control.check() before anything is opened
Begin(r) ==
  /\ worker[r] = "queued" /\ Cardinality({q \in Reads : worker[q] \in {"working", "closing"}}) < PoolSize
  /\ IF Stopped(r) THEN Answers(r, "timeout") /\ UNCHANGED open
     ELSE worker' = Set(worker, r, "working") /\ open' = Set(open, r, TRUE) /\ UNCHANGED answer
  /\ UNCHANGED <<caller, cancels, told, late, task>>

\* control.check(), or the progress handler interrupts a query
Check(r) ==
  /\ worker[r] = "working" /\ Stopped(r)
  /\ Answers(r, "timeout")
  /\ UNCHANGED <<caller, cancels, told, late, open, task>>

\* the read ends by itself, if it ever does; a value is checked once more
Finish(r, what) ==
  /\ worker[r] = "working" /\ (what = "value" => ~ Stopped(r))
  /\ Answers(r, what)
  /\ UNCHANGED <<caller, cancels, told, late, open, task>>

\* finally: connection.close()
Close(r) ==
  /\ worker[r] = "closing"
  /\ worker' = Set(worker, r, "done") /\ open' = Set(open, r, FALSE)
  /\ UNCHANGED <<caller, cancels, told, late, answer, task>>

-----------------------------------------------------------------------------
(* The event loop and the coroutine *)

\* the loop hears that the thread has ended
Deliver(r) ==
  /\ worker[r] = "done" /\ task[r] = "pending"
  /\ task' = Set(task, r, "done")
  /\ UNCHANGED <<caller, cancels, told, late, worker, open, answer>>

\* return await asyncio.shield(task)
Return(r) ==
  /\ caller[r] = "awaits" /\ task[r] = "done"
  /\ caller' = Set(caller, r, IF answer[r] = "value" THEN "returned" ELSE "raised")
  /\ UNCHANGED <<cancels, told, late, worker, open, answer, task>>

\* mutant: the cancellation is passed on at once
Cancel_Leaves(r) ==
  /\ caller[r] \in {"awaits", "joins"} /\ cancels[r] < MaxCancels
  /\ cancels' = Set(cancels, r, cancels[r] + 1)
  /\ caller' = Set(caller, r, "cancelled") /\ told' = Set(told, r, TRUE)
  /\ UNCHANGED <<late, worker, open, answer, task>>
\* CancelledError in the coroutine, first in the await and then in the join,
\* also when the task has ended and the coroutine has not run since
Cancel(r) ==
  /\ caller[r] \in {"awaits", "joins"} /\ cancels[r] < MaxCancels
  /\ cancels' = Set(cancels, r, cancels[r] + 1)
  /\ caller' = Set(caller, r, "joins") /\ told' = Set(told, r, TRUE)
  /\ UNCHANGED <<late, worker, open, answer, task>>

Joined(r) == "cancelled"

\* while not task.done(): ...; raise
Join(r) ==
  /\ caller[r] = "joins" /\ task[r] # "pending"
  /\ caller' = Set(caller, r, Joined(r))
  /\ UNCHANGED <<cancels, told, late, worker, open, answer, task>>

\* the loop ends and cancels its tasks: a thread that has not started never
\* will, one that has runs on.  The shield passes the cancellation to the coroutine
CancelTask(r) ==
  /\ task[r] = "pending"
  /\ task' = Set(task, r, "cancelled")
  /\ worker' = IF worker[r] = "queued" THEN Set(worker, r, "never") ELSE worker
  /\ IF caller[r] = "awaits"
     THEN caller' = Set(caller, r, "joins") /\ told' = Set(told, r, TRUE)
     ELSE UNCHANGED <<caller, told>>
  /\ UNCHANGED <<cancels, late, open, answer>>

\* time.monotonic() reaches the deadline
Tick(r) ==
  /\ ~ late[r] /\ ~ Ended(r)
  /\ late' = Set(late, r, TRUE)
  /\ UNCHANGED <<caller, cancels, told, worker, open, answer, task>>

Thread(r) == Begin(r) \/ Check(r) \/ Close(r)
Loop(r) == Deliver(r) \/ Return(r) \/ Join(r)
Next ==
  \E r \in Reads :
    \/ Thread(r) \/ Loop(r) \/ Cancel(r) \/ CancelTask(r) \/ Tick(r)
    \/ \E what \in {"value", "error"} : Finish(r, what)
Spec == Init /\ [][Next]_vars

-----------------------------------------------------------------------------
(* a connection is open only while its thread runs, and answers have their kinds *)
TypeOK ==
  /\ \A r \in Reads : cancels[r] \in 0 .. MaxCancels /\ told[r] \in BOOLEAN /\ late[r] \in BOOLEAN
  /\ \A r \in Reads : open[r] => worker[r] \in {"working", "closing"}
  /\ \A r \in Reads : (answer[r] = None) <=> worker[r] \in {"queued", "working", "never"}
  /\ \A r \in Reads : task[r] = "done" => worker[r] = "done"

(***************************************************************************)
(* run_bounded_read returns or raises only after its thread has ended and  *)
(* its connection is closed, however often it was cancelled meanwhile: the *)
(* caller may delete the database, or start the next read.  Only a loop    *)
(* that is ending leaves a thread behind, and has told it to stop.         *)
(***************************************************************************)
JoinsBeforeReturning ==
  \A r \in Reads : Ended(r) =>
    \/ worker[r] \in {"done", "never"} /\ ~ open[r]
    \/ task[r] = "cancelled" /\ told[r]

(***************************************************************************)
(* A cancellation is not lost: a coroutine it was thrown into ends as      *)
(* cancelled, even if the read has a result by then, or failed.            *)
(***************************************************************************)
CancellationIsRaised ==
  \A r \in Reads : cancels[r] > 0 => caller[r] \in {"joins", "cancelled"}

\* The three together, which is what the caller of run_bounded_read relies on.
ReadsAreJoined == TypeOK /\ JoinsBeforeReturning /\ CancellationIsRaised
===============================================================================
