------------------------------- MODULE RunReplay -------------------------------
(***************************************************************************)
(* The commands `replay` and `check`: RunReplayService                     *)
(* (application/run_replay.py) over the read-only SQLite source            *)
(* (adapters/sqlite/replay.py) and reconstruct_run (runtime/replay.py),    *)
(* beside an agent that goes on committing Events to the same file.  Each  *)
(* Run is read in a read transaction of its own, so a page of Runs is not  *)
(* one snapshot.  Some Runs are damaged from the start: rows of theirs     *)
(* were changed by hand.                                                   *)
(***************************************************************************)
EXTENDS RunEvents, FiniteSets, SequencesExt

CONSTANTS
  RunOrder,        \* the RunIds, each once, in the order of their text: ORDER BY run_id
  Scripts,         \* per Run, the Events that it comes to commit
  StartChoices,    \* per Run, how many of them are committed at the start
  DamageChoices,   \* per Run, what was changed: one of Damages
  ScanLimits,      \* the limit a check is called with
  max_events,      \* ReplayLimits.max_events
  Timeout          \* ReplayLimits.timeout_ms, in ticks of the clock
Damages == {"none", "gap", "undecodable", "illegal",
            "no_projection", "bad_projection", "false_projection"}

VARIABLES
  committed,   \* per Run, how many Events of its script are committed
  damage,
  pc,          \* the command's next step; "idle": it is over
  mode,        \* "replay" or "check"
  after, limit, page, next,   \* the cursor, the page and the Run under way
  clock,       \* time since the command began
  snapshot,    \* what the read transaction returned; released with its Run
  items,       \* of the page that is being made
  answer,      \* what the last command printed
  scanned,     \* history: the RunIds on the pages of this scan, a chain of checks,
  known        \* and those that had Events when it began
database == <<committed, damage>>
scan == <<scanned, known>>
command == <<mode, after, limit, page, next>>
vars == <<database, pc, command, clock, snapshot, items, answer, scan>>

Nothing == "none"
NoSnapshot == [events |-> <<>>, projection |-> NoRun]
NoAnswer == [error |-> Nothing, runs |-> <<>>, items |-> <<>>, after |-> 0, has_more |-> FALSE]

Init ==
  /\ committed \in StartChoices /\ damage \in DamageChoices
  /\ \A r \in RunIds : damage[r] # "none" => committed[r] > 0
  /\ pc = "idle" /\ mode = "check" /\ after = 0 /\ limit = 1 /\ page = <<>> /\ next = 1
  /\ clock = 0 /\ snapshot = NoSnapshot /\ items = <<>> /\ answer = NoAnswer /\ scanned = <<>> /\ known = {}

-----------------------------------------------------------------------------
(* The database *)

\* reduce_events with its history checks
Bad == [NoRun EXCEPT !.status = "failed"]
Reconstructed(events) ==
  LET state[n \in 0 .. Len(events)] ==
        IF n = 0 THEN NoRun
        ELSE IF /\ state[n - 1] # Bad
                /\ HistoryValid(SubSeq(events, 1, n - 1), events[n])
                /\ Reducible(state[n - 1], events[n])
        THEN Reduced(state[n - 1], events[n]) ELSE Bad
  IN  state[Len(events)]

Facts(r) == SubSeq(Scripts[r], 1, committed[r])
Rows(r) ==
  CASE damage[r] = "gap" -> IF Facts(r) = <<>> THEN <<>> ELSE Tail(Facts(r))
    \* an Event that the reducer refuses stands at the end
    [] damage[r] = "illegal" -> Facts(r) \o <<Blank(r, committed[r] + 1, "RunCreated", "run")>>
    [] OTHER -> Facts(r)
Projection(r) ==
  IF damage[r] = "false_projection" THEN [Reconstructed(Facts(r)) EXCEPT !.status = "succeeded"]
  ELSE Reconstructed(Facts(r))
WithEvents == {r \in RunIds : Rows(r) # <<>>}

\* AgentLoop, in another process
Commit(r) ==
  /\ damage[r] = "none" /\ committed[r] < Len(Scripts[r])
  /\ committed' = [committed EXCEPT ![r] = @ + 1]
  /\ UNCHANGED <<damage, pc, command, clock, snapshot, items, answer, scan>>

-----------------------------------------------------------------------------
(* The command *)

Late == clock >= Timeout        \* _remaining: less than a millisecond is left
Tick ==
  /\ pc # "idle" /\ ~ Late
  /\ clock' = clock + 1
  /\ UNCHANGED <<database, pc, command, snapshot, items, answer, scan>>

Begins(m) == pc = "idle" /\ mode' = m /\ clock' = 0 /\ items' = <<>> /\ answer' = NoAnswer
Replay(r) ==
  /\ Begins("replay") /\ page' = <<r>> /\ next' = 1 /\ pc' = "read"
  /\ UNCHANGED <<database, after, limit, snapshot, scan>>

\* from the beginning, or with the cursor that the last page gave
StartsAt(cursor) == cursor = 0 \/ (cursor = answer.after /\ mode = "check" /\ answer.error = Nothing)
Check(cursor, n) ==
  /\ Begins("check") /\ StartsAt(cursor) /\ after' = cursor /\ limit' = n /\ pc' = "list"
  /\ scanned' = IF cursor = 0 THEN <<>> ELSE scanned
  /\ known' = IF cursor = 0 THEN WithEvents ELSE known
  /\ UNCHANGED <<database, page, next, snapshot>>

Position(r) == CHOOSE i \in DOMAIN RunOrder : RunOrder[i] = r
\* SELECT DISTINCT run_id FROM events WHERE run_id > ?
Following(cursor) == {r \in WithEvents : Position(r) > cursor}
Ascending(runs) == \A i, j \in DOMAIN runs : i < j => Position(runs[i]) < Position(runs[j])
\* ORDER BY run_id LIMIT ?: what is left out does not fit, and comes later
FirstOf(rows, runs, n) ==
  /\ Ascending(runs)
  /\ \A r \in rows \ ToSet(runs) :
       Len(runs) = n /\ \A i \in DOMAIN runs : Position(runs[i]) < Position(r)

Raise(error) ==
  /\ answer' = [NoAnswer EXCEPT !.error = error] /\ pc' = "idle"
  /\ snapshot' = NoSnapshot
  /\ UNCHANGED <<database, command, clock, items, scan>>

\* list_event_run_ids; the file may be locked or unreadable
List ==
  /\ pc = "list"
  /\ \/ /\ ~ Late /\ pc' = "next" /\ next' = 1
        /\ \E runs \in SeqOf(Following(after), limit) :
             /\ FirstOf(Following(after), runs, limit) /\ page' = runs
             /\ answer' = [NoAnswer EXCEPT !.has_more = ToSet(runs) # Following(after)]
        /\ UNCHANGED <<database, mode, after, limit, clock, snapshot, items, scan>>
     \/ Late /\ Raise("query_timeout")
     \/ ~ Late /\ Raise("persistence_error")

Cursor == IF page = <<>> THEN after ELSE Position(page[Len(page)])

OutOfTime == Late
\* the next Run of the page, or the page is complete
NextRun ==
  /\ pc = "next"
  /\ IF OutOfTime THEN Raise("query_timeout")
     ELSE IF next <= Len(page)
     THEN pc' = "read" /\ UNCHANGED <<database, command, clock, snapshot, items, answer, scan>>
     ELSE /\ answer' = [answer EXCEPT !.runs = page, !.items = items, !.after = Cursor]
          /\ scanned' = scanned \o page /\ UNCHANGED known
          /\ pc' = "idle"
          /\ UNCHANGED <<database, command, clock, snapshot, items>>

Item(r, error, summary) == [run |-> r, error |-> error, summary |-> summary]
NoSummary == [status |-> "absent", last |-> 0, active |-> None, projection |-> "none"]
AddItem(item) ==
  /\ items' = Append(items, item) /\ next' = next + 1 /\ pc' = "next" /\ snapshot' = NoSnapshot
  /\ UNCHANGED <<database, mode, after, limit, page, clock, answer, scan>>

\* except EventReplayError: an item of a check; a replay raises it
RunFails(error) ==
  IF mode = "check" THEN AddItem(Item(page[next], error, NoSummary)) ELSE Raise(error)

\* BEGIN and the SELECT that fixes the snapshot: COUNT(*) and the bytes
Read ==
  /\ pc = "read"
  /\ LET r == page[next] IN
     \/ Late /\ RunFails("query_timeout")
     \/ ~ Late /\ RunFails("persistence_error")
     \/ ~ Late /\ Rows(r) = <<>> /\ RunFails("run_not_found")
     \/ ~ Late /\ Len(Rows(r)) > max_events /\ RunFails("query_limit_exceeded")
     \/ /\ ~ Late /\ Rows(r) # <<>> /\ Len(Rows(r)) <= max_events
        /\ snapshot' = [events |-> Rows(r), projection |-> Projection(r)]
        /\ pc' = "rows"
        /\ UNCHANGED <<database, command, clock, items, answer, scan>>

\* mutant: the projection is read after the transaction of the Events
Snapshot_Later(r) == [snapshot EXCEPT !.projection = Projection(r)]
\* the Event rows and the projection come from the one transaction
Snapshot(r) == snapshot

\* EventReplaySnapshot.require_complete_prefix
CompletePrefix(r, events) ==
  \A i \in DOMAIN events : events[i].run = r /\ events[i].sequence = i

ReadRows ==
  /\ pc = "rows"
  /\ LET r == page[next] IN
     IF Late THEN RunFails("query_timeout")
     ELSE IF damage[r] = "undecodable" \/ ~ CompletePrefix(r, snapshot.events)
     THEN RunFails("invalid_event")
     ELSE /\ snapshot' = Snapshot(r) /\ pc' = "reduce"
          /\ UNCHANGED <<database, command, clock, items, answer, scan>>

Comparison(r, state) ==
  CASE damage[r] = "no_projection" -> "missing"
    [] damage[r] = "bad_projection" -> "unreadable"
    [] OTHER -> IF snapshot.projection = state THEN "matched" ELSE "mismatch"

ActiveOf(state) ==
  IF HasActive(state)
  THEN state.activities[CHOOSE i \in DOMAIN state.activities : IsActive(state.activities[i])].activity
  ELSE None
Summary(r, state) ==
  [status |-> state.status, last |-> state.last_sequence, active |-> ActiveOf(state),
   projection |-> Comparison(r, state)]

NeedsAttention(summary) ==
  summary.status \in {"queued", "running"} \/ summary.projection # "matched"

\* reconstruct_run
Reduce ==
  /\ pc = "reduce"
  /\ LET r == page[next]
         state == Reconstructed(snapshot.events)
         summary == Summary(r, state)
     IN  IF Late THEN RunFails("query_timeout")
         ELSE IF state = Bad THEN RunFails("invalid_event")
         ELSE IF mode = "replay"
         THEN /\ answer' = [NoAnswer EXCEPT !.runs = page, !.items = <<Item(r, Nothing, summary)>>]
              /\ pc' = "idle" /\ snapshot' = NoSnapshot
              /\ UNCHANGED <<database, command, clock, items, scan>>
         ELSE IF NeedsAttention(summary) THEN AddItem(Item(r, Nothing, summary))
         ELSE /\ next' = next + 1 /\ pc' = "next" /\ snapshot' = NoSnapshot
              /\ UNCHANGED <<database, mode, after, limit, page, clock, items, answer, scan>>

Step == List \/ NextRun \/ Read \/ ReadRows \/ Reduce
Next ==
  \/ \E r \in RunIds : Commit(r)
  \/ Tick
  \/ \E r \in RunIds : Replay(r)
  \/ \E cursor \in 0 .. Len(RunOrder), n \in ScanLimits : Check(cursor, n)
  \/ Step
Spec == Init /\ [][Next]_vars

-----------------------------------------------------------------------------
ExitCode(its) ==
  IF \E i \in DOMAIN its : its[i].error # Nothing THEN 2 ELSE IF its # <<>> THEN 1 ELSE 0
Answered == pc = "idle" /\ answer.error = Nothing

(* the items are of the page, in its order, and none of them is a timeout *)
TypeOK ==
  /\ committed \in [RunIds -> Nat] /\ damage \in [RunIds -> Damages] /\ clock \in 0 .. Timeout
  /\ \A i \in DOMAIN answer.items :
       /\ answer.items[i].run \in ToSet(answer.runs)
       /\ answer.items[i].error \in {Nothing, "persistence_error", "query_limit_exceeded", "invalid_event"}
  /\ answer.has_more /\ Answered => answer.runs # <<>>

(***************************************************************************)
(* A summary tells of one committed prefix of the Run, read at one moment: *)
(* status, open Activity and comparison are those of its last_sequence.    *)
(* An agent that commits meanwhile never makes a sound projection look     *)
(* wrong, and a wrong one never looks right.                               *)
(***************************************************************************)
SummaryIsOnePrefix ==
  \A i \in DOMAIN answer.items :
    LET item == answer.items[i]
        s == item.summary
        state == Reconstructed(SubSeq(Scripts[item.run], 1, s.last))
    IN  item.error = Nothing =>
          /\ s.last \in 1 .. committed[item.run]
          /\ s.status = state.status /\ s.active = ActiveOf(state)
          /\ (s.projection = "matched") <=>
               \/ damage[item.run] = "none"
               \/ damage[item.run] = "false_projection" /\ state.status = "succeeded"

(***************************************************************************)
(* A check keeps nothing back: a Run of the page without an item has ended *)
(* and nothing of it is damaged, whatever its projection says, and a Run   *)
(* whose Events are damaged makes the exit code 2.                         *)
(***************************************************************************)
HealthyIsHealthy ==
  Answered /\ mode = "check" =>
    /\ \A r \in ToSet(answer.runs) \ {answer.items[i].run : i \in DOMAIN answer.items} :
         /\ damage[r] \in {"none", "false_projection"} /\ Projection(r) = Reconstructed(Facts(r))
         /\ IsTerminal(Reconstructed(Facts(r)))
    /\ (\E r \in ToSet(answer.runs) : damage[r] \in {"gap", "undecodable", "illegal"})
         => ExitCode(answer.items) = 2

(***************************************************************************)
(* The pages of a scan put together are the Runs with Events, each of them *)
(* once and in order, up to the cursor: those that cannot be read too.     *)
(* When no more is announced, every Run that had Events when the scan      *)
(* began has been checked.                                                 *)
(***************************************************************************)
ScanMissesNoRun ==
  /\ IsInjective(scanned)
  /\ Ascending(scanned)
  /\ Answered /\ mode = "check" =>
       /\ answer.after = IF scanned = <<>> THEN 0 ELSE Position(scanned[Len(scanned)])
       /\ \A r \in known : Position(r) <= answer.after \/ ~ answer.has_more => r \in ToSet(scanned)
===============================================================================
