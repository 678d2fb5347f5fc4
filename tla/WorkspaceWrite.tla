---------------------------- MODULE WorkspaceWrite ----------------------------
(***************************************************************************)
(* Tool calls that write one output file: ToolExecutor._execute around     *)
(* WorkspaceWriteTool.execute and WorkspaceBoundary's stage_output,        *)
(* commit_output and discard_output.  Every process runs one Agent loop,   *)
(* which executes its calls one after the other; the staging of a call is  *)
(* done by a worker thread, which neither a timeout nor a cancellation of  *)
(* the call stops, so the workers of earlier calls may still be at work.   *)
(* Processes share the workspace.                                          *)
(*                                                                         *)
(* Every inspection of the file system may fail for reasons of its own: a  *)
(* link, a directory in the way, a full disk, a directory that was moved.  *)
(* These are one outcome here, "denied".  A call's deadline has two parts: *)
(* the timer of asyncio.timeout, which only fires while the event loop     *)
(* runs, and the Tool's own, later one, which its code compares with the   *)
(* clock.                                                                  *)
(***************************************************************************)
EXTENDS ToolExecution, Integers

CONSTANTS
  Processes, Calls, NoFile,
  ProcessOf,      \* the process each call is made in
  Asks,           \* what each call may ask for, and what the ports make of it
  Pieces,         \* how many 64 KiB pieces the content of each call has
  WriteTool       \* "workspace.write"

NoTemp == -1
Ask == [request : Request, preparation : Preparations, verdict : Verdicts]

ASSUME CallsAssumption ==
  /\ NoFile \notin Calls /\ NoFile \notin [by : Calls, pieces : Nat]
  /\ ProcessOf \in [Calls -> Processes]
  /\ Asks \in [Calls -> SUBSET Ask]
  /\ Pieces \in [Calls -> Nat]
  /\ WriteTool \in Registered

VARIABLES
  pc,         \* of the coroutine that executes each call
  request,    \* what each call asks for
  record,     \* its ToolExecutionRecord, complete once the call is answered
  elapsed,    \* 0 in time, 1 the timer is due, 2 the Tool's deadline is past
  stage,      \* of the worker: where it is, and how it ended
  temp,       \* pieces written to the call's temporary file, or NoTemp
  stuck,      \* calls whose temporary file could not be unlinked
  target      \* the output file: whose content, and how many pieces of it
vars == <<pc, request, record, elapsed, stage, temp, stuck, target>>

Ended == {"answered", "timed_out", "gone"}
InLoop == {"checking", "replacing", "replaced", "discarding"}  \* no await in between
Active == {"staging", "other"} \cup InLoop
Working == {"queued", "create", "write"}
Faults == [late |-> "TOOL_TIMEOUT", denied |-> "WORKSPACE"]

Init ==
  /\ pc = [c \in Calls |-> "new"]
  /\ request = [c \in Calls |-> [name |-> WriteTool, fits |-> FALSE]]
  /\ record = [c \in Calls |-> NoRecord]
  /\ elapsed = [c \in Calls |-> 0]
  /\ stage = [c \in Calls |-> "none"]
  /\ temp = [c \in Calls |-> NoTemp]
  /\ stuck = {} /\ target = NoFile

-----------------------------------------------------------------------------
(* The clock *)

Elapse(c) ==
  /\ pc[c] \in Active \/ stage[c] \in Working
  /\ elapsed[c] < 2
  /\ elapsed' = [elapsed EXCEPT ![c] = @ + 1]
  /\ UNCHANGED <<pc, request, record, stage, temp, stuck, target>>

\* what a check returns that ends in _check_deadline: it may find a fault of
\* the file system first
Checked(c, fine) == {"denied", IF elapsed[c] = 2 THEN "late" ELSE fine}

-----------------------------------------------------------------------------
(* The coroutine: _execute and, for workspace.write, its execute() *)

Goto(c, label) == pc' = [pc EXCEPT ![c] = label]
Conclude(c, answer, code) ==
  record' = [record EXCEPT ![c] = Concluded(@, answer, code)]

\* everything up to the first await
Start(c) ==
  /\ pc[c] = "new"
  /\ \A d \in Calls : ProcessOf[d] = ProcessOf[c] => pc[d] \notin Active
  /\ \E a \in Asks[c] :
       /\ request' = [request EXCEPT ![c] = a.request]
       /\ LET admission == Admission(a.request, a.preparation, a.verdict)
              writes == IsAdmitted(admission) /\ a.request.name = WriteTool
          IN  /\ record' = [record EXCEPT ![c] = admission]
              /\ Goto(c, IF ~ IsAdmitted(admission) THEN "answered"
                         ELSE IF writes THEN "staging" ELSE "other")
              /\ stage' = IF writes THEN [stage EXCEPT ![c] = "queued"] ELSE stage
  /\ UNCHANGED <<elapsed, temp, stuck, target>>

\* another Tool answers
OtherAnswers(c) ==
  /\ pc[c] = "other"
  /\ \E answer \in ToolAnswers : Conclude(c, answer, "TOOL_ERROR")
  /\ Goto(c, "answered")
  /\ UNCHANGED <<request, elapsed, stage, temp, stuck, target>>

\* the worker is done and the coroutine resumes: `staged = await to_thread(...)`
Resume(c) ==
  /\ pc[c] = "staging"
  /\ \/ /\ stage[c] = "staged"
        /\ Goto(c, "checking")
        /\ UNCHANGED record
     \/ /\ stage[c] \in DOMAIN Faults
        /\ Goto(c, "answered")
        /\ Conclude(c, "failed", Faults[stage[c]])
  /\ UNCHANGED <<request, elapsed, stage, temp, stuck, target>>

\* mutant: a failed check returns at once, without discard_output
CheckCommit_KeepsTemp(c) ==
  /\ pc[c] = "checking"
  /\ \E found \in Checked(c, "staged") :
       /\ stage' = [stage EXCEPT ![c] = found]
       /\ IF found = "staged" THEN Goto(c, "replacing") /\ UNCHANGED record
          ELSE Goto(c, "answered") /\ Conclude(c, "failed", Faults[found])
  /\ UNCHANGED <<request, elapsed, temp, stuck, target>>

\* commit_output up to its last deadline check
CheckCommit(c) ==
  /\ pc[c] = "checking"
  /\ \E found \in Checked(c, "staged") :
       /\ stage' = [stage EXCEPT ![c] = found]
       /\ Goto(c, IF found = "staged" THEN "replacing" ELSE "discarding")
  /\ UNCHANGED <<request, record, elapsed, temp, stuck, target>>

\* os.replace(temporary_path, target_path)
Replace(c) ==
  /\ pc[c] = "replacing"
  /\ \/ /\ target' = [by |-> c, pieces |-> temp[c]]
        /\ temp' = [temp EXCEPT ![c] = NoTemp]
        /\ Goto(c, "replaced")
        /\ UNCHANGED stage
     \/ /\ stage' = [stage EXCEPT ![c] = "denied"]
        /\ Goto(c, "discarding")
        /\ UNCHANGED <<temp, target>>
  /\ UNCHANGED <<request, record, elapsed, stuck>>

\* the ToolResult built before staging is returned; it is always small enough
Succeed(c) ==
  /\ pc[c] = "replaced"
  /\ Goto(c, "answered")
  /\ Conclude(c, "succeeded", "none")
  /\ UNCHANGED <<request, elapsed, stage, temp, stuck, target>>

\* unlink a temporary file, which may fail and is not tried again
Unlink(c) ==
  \/ temp' = [temp EXCEPT ![c] = NoTemp] /\ UNCHANGED stuck
  \/ stuck' = stuck \cup {c} /\ UNCHANGED temp

\* discard_output and the failure the Tool returns
Discard(c) ==
  /\ pc[c] = "discarding"
  /\ Unlink(c)
  /\ Goto(c, "answered")
  /\ Conclude(c, "failed", Faults[stage[c]])
  /\ UNCHANGED <<request, elapsed, stage, target>>

\* a CancelledError reaches the await: a worker that has not begun never will
Abandon(c) ==
  /\ pc[c] \in {"staging", "other"}
  /\ stage' = IF stage[c] = "queued" THEN [stage EXCEPT ![c] = "none"] ELSE stage
  /\ UNCHANGED <<request, elapsed, temp, stuck, target>>

\* mutant: the timeout waits for the worker
TimerFires_AfterWorker(c) ==
  /\ elapsed[c] >= 1 /\ stage[c] \notin Working
  /\ Abandon(c)
  /\ Goto(c, "timed_out")
  /\ Conclude(c, "times_out", "none")

\* asyncio.timeout: the executor answers without the Tool
TimerFires(c) ==
  /\ elapsed[c] >= 1
  /\ Abandon(c)
  /\ Goto(c, "timed_out")
  /\ Conclude(c, "times_out", "none")

\* the caller is cancelled and no record is made
Cancel(c) ==
  /\ Abandon(c)
  /\ Goto(c, "gone")
  /\ UNCHANGED record

-----------------------------------------------------------------------------
(* The worker thread: stage_output *)

\* _ensure_output_directory, _validate_output_target
StageDirectory(c) ==
  /\ stage[c] = "queued"
  /\ \E found \in Checked(c, "create") : stage' = [stage EXCEPT ![c] = found]
  /\ UNCHANGED <<pc, request, record, elapsed, temp, stuck, target>>

\* mkstemp
StageCreate(c) ==
  /\ stage[c] = "create"
  /\ \/ /\ temp' = [temp EXCEPT ![c] = 0]
        /\ stage' = [stage EXCEPT ![c] = "write"]
     \/ /\ stage' = [stage EXCEPT ![c] = "denied"]
        /\ UNCHANGED temp
  /\ UNCHANGED <<pc, request, record, elapsed, stuck, target>>

\* mutant: the worker replaces the target itself
StageWrite_Commits(c) ==
  /\ stage[c] = "write"
  /\ IF temp[c] < Pieces[c]
     THEN temp' = [temp EXCEPT ![c] = @ + 1] /\ UNCHANGED <<stage, target>>
     ELSE /\ target' = [by |-> c, pieces |-> temp[c]]
          /\ stage' = [stage EXCEPT ![c] = "staged"] /\ UNCHANGED temp
  /\ UNCHANGED <<pc, request, record, elapsed, stuck>>

\* one turn of the loop over the content, or what follows the loop: flush,
\* fsync, close and the checks of the temporary file and its directory
StageWrite(c) ==
  /\ stage[c] = "write"
  /\ \E found \in Checked(c, "fine") :
       IF found = "fine"
       THEN /\ IF temp[c] < Pieces[c]
               THEN temp' = [temp EXCEPT ![c] = @ + 1] /\ UNCHANGED stage
               ELSE stage' = [stage EXCEPT ![c] = "staged"] /\ UNCHANGED temp
            /\ UNCHANGED stuck
       ELSE stage' = [stage EXCEPT ![c] = found] /\ Unlink(c)
  /\ UNCHANGED <<pc, request, record, elapsed, target>>

-----------------------------------------------------------------------------
\* a process dies with its event loop and its threads; temporary files stay
Crash(p) ==
  LET mine == {c \in Calls : ProcessOf[c] = p}
  IN  /\ \E c \in mine : pc[c] \in Active \/ stage[c] \in Working
      /\ pc' = [c \in Calls |-> IF c \in mine /\ pc[c] \in Active THEN "gone" ELSE pc[c]]
      /\ stage' = [c \in Calls |->
            IF c \in mine /\ (pc[c] \in Active \/ stage[c] \in Working) THEN "none"
            ELSE stage[c]]
      /\ UNCHANGED <<request, record, elapsed, temp, stuck, target>>

Coroutine(c) ==
  OtherAnswers(c) \/ Resume(c) \/ CheckCommit(c) \/ Replace(c) \/ Succeed(c) \/ Discard(c)
Worker(c) == StageDirectory(c) \/ StageCreate(c) \/ StageWrite(c)

Next ==
  \/ \E c \in Calls : \/ Start(c) \/ Coroutine(c) \/ Worker(c)
                      \/ Elapse(c) \/ TimerFires(c) \/ Cancel(c)
  \/ \E p \in Processes : Crash(p)

Spec == Init /\ [][Next]_vars

-----------------------------------------------------------------------------
TypeOK ==
  /\ pc \in [Calls -> {"new"} \cup Active \cup Ended]
  /\ request \in [Calls -> Request]
  /\ record \in [Calls -> Record]
  /\ elapsed \in [Calls -> 0 .. 2]
  /\ stage \in [Calls -> {"none", "staged"} \cup Working \cup DOMAIN Faults]
  /\ temp \in [Calls -> Nat \cup {NoTemp}]
  /\ stuck \subseteq Calls
  /\ target \in {NoFile} \cup [by : Calls, pieces : Nat]

\* The output file never holds a part of what a call was to write: with failing
\* disks, dying processes, and other processes writing the same file.
OutputIsWhole == target # NoFile => target.pieces = Pieces[target.by]

\* Nothing but the caller's leaving, the death of a process or a failed unlink
\* leaves a temporary file behind: a failure that the Tool itself reports has
\* removed it, and so has a worker that fails after its call was given up.
LeftoversExplained ==
  \A c \in Calls : temp[c] # NoTemp /\ c \notin stuck =>
    \/ pc[c] \in Active \/ stage[c] \in Working
    \/ pc[c] \in {"timed_out", "gone"} /\ stage[c] \in {"staged", "none"}

\* No Tool is run, and no worker touches the file system, for a request that
\* does not fit, is not on the allowlist, or whose Tool has a side effect that
\* is denied whatever the allowlist says.
DeniedNeverReached ==
  \A c \in Calls :
    record[c].reached \/ stage[c] # "none" \/ temp[c] # NoTemp
      \/ (target # NoFile /\ target.by = c)
    => /\ request[c].fits /\ request[c].name \in Allowed
       /\ EffectOf[request[c].name] \notin DENIED_SIDE_EFFECTS

\* ToolExecutionRecord rejects evidence that contradicts itself by raising in
\* the middle of an answer.  Whatever the ports return, it never does: neither
\* for the record of the call nor for the compact one stored in its place.
RecordsConsistent ==
  \A c \in Calls : pc[c] \in {"answered", "timed_out"} =>
    Consistent(record[c]) /\ Consistent(Compacted(record[c]))

\* workspace.write implements the atomic output file: in particular a call that
\* was given up never replaces it, however late its worker ends, success is
\* answered only after the replacement, and a failure never after one.
Phase(c) ==
  CASE pc[c] = "new" \/ request[c].name # WriteTool -> "new"
    [] pc[c] \in Active \ {"replaced"} /\ request[c].name = WriteTool -> "pending"
    [] pc[c] = "replaced" /\ request[c].name = WriteTool -> "replaced"
    [] pc[c] \in {"answered", "timed_out"} /\ request[c].name = WriteTool -> record[c].status
    [] pc[c] = "gone" /\ request[c].name = WriteTool -> "lost"
Abstract == INSTANCE AtomicOutput WITH
  output <- IF target = NoFile THEN NoFile ELSE target.by,
  phase <- [c \in Calls |-> Phase(c)]
ImplementsAtomicOutput == Abstract!Spec

\* Time passes, the event loop runs, and the file operations it makes itself
\* return.  Nothing is assumed of worker threads or of other Tools.
LoopStep(c) == Resume(c) \/ CheckCommit(c) \/ Replace(c) \/ Succeed(c) \/ Discard(c)
FairSpec ==
  Spec /\ \A c \in Calls : /\ WF_vars(Elapse(c)) /\ WF_vars(TimerFires(c))
                           /\ WF_vars(LoopStep(c))

\* Every call ends, also when its worker or its Tool hangs.
CallsEnd == \A c \in Calls : pc[c] \in Active ~> pc[c] \in Ended
===============================================================================
