---------------------------- MODULE MCThreadsLive ----------------------------
(***************************************************************************)
(* Both kinds of threads that calls wait for, each on its own (part,       *)
(* chosen in Init): workers of the EventStore that race for the write      *)
(* lock, and two bounded reads that share a pool of one thread.            *)
(***************************************************************************)
EXTENDS MCEventStore

CONSTANTS Reads, MaxCancels

VARIABLES part, caller, cancels, told, late, worker, open, found, task
reading == <<caller, cancels, told, late, worker, open, found, task>>
allVars == <<part, vars, reading>>

Pool == INSTANCE BoundedRead WITH answer <- found, PoolSize <- 1

NoStore ==
  /\ file = None /\ rows = None /\ runs = None /\ writer = None /\ pc = None
  /\ job = None /\ tx = None /\ awaited = None /\ outcome = None /\ answer = None
NoReads ==
  /\ caller = None /\ cancels = None /\ told = None /\ late = None
  /\ worker = None /\ open = None /\ found = None /\ task = None

ThreadsInit ==
  \/ part = "store" /\ Init /\ NoReads
  \/ part = "reads" /\ NoStore /\ Pool!Init

Store(A) == part = "store" /\ A /\ UNCHANGED <<part, reading>>
Reading(A) == part = "reads" /\ A /\ UNCHANGED <<part, vars>>
ThreadsNext == Store(Next) \/ Reading(Pool!Next)

\* A thread that was started runs: the operating system schedules it, sqlite
\* grants the lock or reports it busy, and no coroutine can stop it.  The event
\* loop and the clock go on as well, and the pool does not start one read for
\* ever before another.  That a read ends by itself is not assumed: no fairness
\* for Finish.
Fairness ==
  /\ \A w \in Workers : WF_allVars(Store(Work(w)))
  /\ \A r \in Reads :
       /\ SF_allVars(Reading(Pool!Begin(r)))
       /\ WF_allVars(Reading(Pool!Check(r))) /\ WF_allVars(Reading(Pool!Close(r)))
       /\ WF_allVars(Reading(Pool!Loop(r))) /\ WF_allVars(Reading(Pool!Tick(r)))
ThreadsSpec == ThreadsInit /\ [][ThreadsNext]_allVars /\ Fairness

-----------------------------------------------------------------------------
(***************************************************************************)
(* Every call of the store ends: no worker waits for ever for the write    *)
(* lock.  So does every bounded read, also one whose query never would,    *)
(* and the connection of a read that was told to stop closes.              *)
(***************************************************************************)
ThreadsEnd ==
  /\ \A w \in Workers : (part = "store" /\ pc[w] # "idle") ~> (part = "store" /\ pc[w] = "idle")
  /\ \A r \in Reads :
       /\ (part = "reads") ~> (part = "reads" /\ Pool!Ended(r))
       /\ (part = "reads" /\ (told[r] \/ late[r])) ~> [](part = "reads" /\ ~ open[r])
==============================================================================
