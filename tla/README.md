# BearAgent in TLA+

BearAgent runs one agent objective (a *Run*) as a bounded loop: ask a model, execute the Tools it
asks for, ask again, until the model stops, a budget is exhausted or something fails. Every step is
a fact (*Event*) that is committed to an append-only store before the next one is taken; the state
of a Run is the fold of its Events. This directory specifies that system: the reducer and the durable
store, the loop with its context, its model providers and its Tools, and what reads and sets up a
database beside it. This file says what is modelled, what TLC checks, what TLAPS proves, and what is
left.

Paths below are relative to `src/src/bearagent/`.

## 1. The system

| Component | State it keeps | Operations | Interacts with | What makes it correct |
|---|---|---|---|---|
| Reducer (`runtime/reducer.py`, `runtime/budgets.py`, `domain/runs.py`, `domain/run_events.py`) | none; a fold over Events | `reduce_event`, `validate_event_history`, `reduce_events` | called by the store in its transaction, by replay over what was stored | accepts only serial streams, keeps budgets, never takes back what a projection says |
| SQLite EventStore (`adapters/sqlite/store.py`) | tables `events`, `run_projections`, `activity_projections`, migration ledger | `initialize`, `append`, `list_events`, `get_run`, each in a worker thread | reducer inside the transaction; callers await the thread | projection = fold of the Events, no half append, no false conflict or corruption report |
| AgentLoop (`application/agent_loop.py`) | local copy of the RunState, open Activity, queue of Tool calls, Artifacts | `run` | store, model provider, Tool executor, clock | no external call without a committed Started, no result without a call, always a terminal Event when it returns |
| Context builder (`runtime/context.py`) | none | `build` | reads the Run's Events, builds the model request | a call is shown with its results or not at all; the latest interaction is never dropped |
| Model stream collector (`runtime/model_stream.py`) and provider adapters (`adapters/model/*`) | partial response of one call | `stream`, `collect` | provider SDK, AgentLoop | only a complete, well-ordered stream becomes a response |
| Tool executor, registry, policy (`runtime/tool_executor.py`, `tool_registry.py`, `policy.py`) | none | `execute_recorded` | Tools, AgentLoop | nothing is executed that the policy did not allow; a record in every case |
| Workspace Tools (`adapters/tools/*`) | files below `outputs/`, temporary files, worker threads | list, read, search, write | file system shared with the user | the target changes only by a call in time, and as a whole |
| Run queries (`application/run_queries.py`) | none | `inspect`, `events` | store, while Runs go on | answers are committed prefixes |
| Replay (`application/run_replay.py`, `runtime/replay.py`, `adapters/sqlite/replay.py`, `_bounded_read.py`) | one read transaction and its worker thread | `replay`, `check` | database, independent of the projections | reports divergence, never repairs; no worker outlives its caller |
| Diagnostics (`adapters/diagnostics.py`) | start times of open Activities | decorates the store | store, sink | never affects a Run |
| Local setup (`local_setup.py`) | files in `data/` | `init` | the user's files, other processes | what exists is kept; what is reported is complete |
| Start-up (`bootstrap.py`) | the profile and the catalog while they are read | `run`, `inspect`, `events` up to their services | files the user edits, database | a file is used in one version; no side effect before the configuration is accepted |
| Test doubles (`adapters/testing`) | dictionaries | those of their ports | tests | not modelled |
| Command line (`interfaces/cli`), live evaluation, schemas and fingerprints, scripts | - | rendering, gates, generation | - | sequential, or outside the running system |

Where it is hard: everything the loop does is an `await` during which the clock moves, the task may
be cancelled and the process may die; an append that is cancelled goes on in its thread; two threads
or processes write one database; readers and writers overlap; the provider and the Tools answer
anything. `PROJECT.json` lists these hazards at their lines.

## 2. The modules

```
Runs and their store
  RunEvents            vocabulary: Events, RunState, guards and results of reduce_event <- ReducerLemmas
    RunReducer         state machine of the fold                                 <- RunHistoryProofs
    EventStore         worker threads over SQLite; per Run it implements RunReducer <- EventStoreProofs
    AgentLoop          AgentLoop.run; its stream implements RunReducer           <- AgentLoopProofs
    RunReplay          replay and check beside a growing database
  StoreSchema          how the tables come to exist
  RunQuery             inspect and events beside a growing Run
  BoundedRead          threads, deadlines and cancellation of those reads
  Diagnostics          the decorator of the store
  Pricing              estimated and exact cost of a Run
Models
  ModelEvents          what an adapter says; the contract Legal
    ModelPort          abstract: ModelProvider.stream
    ModelStream        the collector that reads a port
    ModelAdapter       what the adapters share
      ChatCompletions (WireNames), ResponsesStream, AnthropicStream
                       each implements ModelPort
    MCModelProviders   the adapters and the collector, side by side              <- ModelProvidersProofs
  Context              history to request; HistoryTranslation takes it to the wire,
                       with WireNames                                            <- RunHistoryProofs
Tools
  ToolExecution        the executor's decisions and records
    WorkspaceWrite     calls that write one file; implements AtomicOutput        <- WorkspaceWriteProofs
  AtomicOutput         abstract: a file replaced as a whole or not at all
  WorkspaceRead        pages of a file that changes
  WorkspaceTree        a tree that changes, and the listing of a directory
    WorkspaceList, WorkspaceSearch
  MCWorkspaceTools     the three, side by side                                   <- WorkspaceToolsProofs
Before a Run
  LocalSetup           init
  Startup              profile, catalog and database
Surroundings           Pricing, BoundedRead, RunQuery, RunReplay, StoreSchema, Diagnostics, LocalSetup
                       and Startup, side by side                                 <- SurroundingsProofs
MC*                    instances for TLC (section 3)
```

### Runs and their store

**RunEvents** has no variables. The twelve Event types are eight types and a kind (`model`,
`tool`); an Event carries the fields that some check reads. `Reducible(s, e)` holds when
`reduce_event(s, e)` returns, and `Reduced(s, e)` is what it returns; `HistoryValid(history, e)` is
`validate_event_history`. `Payloads` is what the payload models let an Event of each type and version
carry, and `Parses(e)` that `parse_run_event_payload` accepts one. The payload models bound reported usage
from below only, so `Usages` is any set of usages; `Reportable` is what a `ModelUsage` and its price may
come to, and all that the loop reports. `Valid` is the validation that
`RunState` and `BudgetUsage` repeat on every change. Error texts, Tool names, timestamps no decision reads, and the rounding of costs are left
out.

**RunReducer** (`state`, `log`) offers arbitrary well-formed Events, of any Run, sequence, version
and identity, to the fold. One action per Event family; all of them are `Fold`, which is one turn of
`reduce_events`. The stream is not assumed to come from the loop.

**EventStore** models each call of the port as a worker thread that moves through its statements:
open, `BEGIN IMMEDIATE` or busy, load and check the projection, reduce, insert, write the projection,
commit; readers take a snapshot with their first SELECT. `tx[w]` is the private copy of the tables
inside a transaction; `Rollback` is every error path. `Cancel` cancels the coroutine but not its
thread. `Fail` is any statement failing in SQLite; `Crash` is the death of the process, after which
only the file is left. The callers are arbitrary: any row of `Offers` is appended by anyone at any
time, one whose payload does not parse included, which the transaction refuses.

**AgentLoop** follows `AgentLoop.run` label by label. The store is the committed stream (`state`,
`log`), which EventStore justifies. Every append is two steps: `Build` constructs the Event with the
next sequence of the state run() *knows* and the clock as it is *then*; later the append commits
(`Appended`), is refused (`Rejected`), fails (`StoreFails`), or the task is cancelled or the process
dies while the thread may still commit (`Cancel`, `Crash`). The provider answers with any response of
at most `MaxCalls` Tool calls or fails; a Tool succeeds with an Artifact, other data or a malformed
Artifact, fails, or returns more than an Event can hold. `ContextBuilder` is what it may show: any
suffix of the interactions that holds the latest one. New identities are one that is not used, no
matter which. `calls` is a history variable. The refinements to RunReducer name the Event of a step,
the next of the stream, instead of searching all Events for it (`Offer`, of which RunReducer's `Next`
is the disjunction).

**StoreSchema** takes apart what EventStore has as one step: `initialize` and the check that every
other call makes of the tables, statement by statement, in several processes of two builds that ship
different migrations, beside a newer build that may upgrade the file. `tx[p]` is the private copy of
the schema in a transaction; whoever dies or fails loses it. `disk` is the schema and its ledger.

**RunReplay** is `replay` and chains of `check` over the read-only source. One step is one read
transaction, one turn of the loop over the page, or one reduction; between them agents commit and the
clock runs. A page is what `ORDER BY run_id LIMIT` gives of the Runs after the cursor: in order, as many
as fit, and what it leaves out comes later. Some Runs are damaged from the start (a missing row, an undecodable or illegal Event, a
projection that is missing, unreadable or false). `scanned` and `known` are history.

**RunQuery** reads the projection and then pages, each with a snapshot of its own, while `Commit` goes
on. The EventStore behind the port may cut, shift or lengthen a page (`Faulted`), because the service
checks for that. A client follows `next_after_sequence`.

**BoundedRead** is `run_bounded_read`: the coroutine, the task that `shield` protects, the thread of
the pool, and its `ReadControl`. `Cancel` may happen again and again; `CancelTask` is the end of the
event loop.

**Diagnostics** decorates any EventStore (external: it accepts an Event once, after those it follows,
or fails) with two concurrent callers. What follows the answer is one step of the coroutine, with the
sink taking the record or raising. A cancelled call leaves its thread, which may still commit.

**Pricing** is `estimate_cost_microusd` with the rounding of each component, summed over the calls of
a Run beside the exact cost in millionths.

### Models

**ModelEvents** has the three ModelEvents, and `Legal`, the contract of the port: deltas and calls,
then at most one completion and nothing after it; `stop` carries no call, `tool_calls` carries one.
A text is a sequence of characters, so that joining deltas is joining sequences; `ParseJson` gives the
object a text stands for, so that two spellings of one object can be told from two objects. `Metadata` is
the identifiers and model names that `ModelCompleted` accepts; a call
carries the identity that the Provider gave it; the one BearAgent gives it (`tool`) appears only where it
is compared, in the collector.
**ModelPort** is the abstract generator: Events are yielded and never taken back, and it ends without
an error only after a completion.

**ModelAdapter** has what the three adapters share: reading wire events one at a time, rejecting,
yielding, ending, the failures of the SDK and cancellation. **ChatCompletions** puts calls together
from deltas that name an index and waits for finish reason and usage in either order;
**ResponsesStream** compares the calls that were streamed with those of the final response;
**AnthropicStream** follows content blocks. Each of them validates the metadata at the end only, when the
completion is made, and refuses it when all else fits. The provider is external: it sends any sequence of
at most `MaxWire` wire events from a set that holds one for each way in which the handler goes on, ends or
fails, as far as the models tell them apart; metadata that no `ModelCompleted` takes and finish reasons
that mean an error of the Provider are among them. **WireNames** is the map from Tool names to the names Chat Completions allows.

**ModelStream** is the collector. It does not trust the port: a lawful one keeps `Legal`, another may
send anything, both may raise or hang until the timeout. `MessageFits` is what the parts of a message
refuse at the end although every ModelEvent was valid: a blank text, the same call identity twice, and
arguments in `LargeArguments`, which pass the byte limit that only a ToolRequest has.

**Context** is `ContextBuilder.build` with the validation of ModelRequest, over a Run that grows by
complete interactions. Contents are sizes, calls keep their identities, and a result is shown whole or
cut into its envelope. **HistoryTranslation** extends it with the three translations of a request to
the wire: identities are looked up through the calls, and Chat Completions renames the Tools.

### Tools

**ToolExecution** has no variables. `Admission` is everything `_execute` does before it awaits a Tool,
with each early return, and `Concluded` what it makes of the Tool's answer, a timeout or a malformed
result; `Evaluate` is `FixedToolPolicy.evaluate`; `Consistent` is ToolExecutionRecord's validator and
`Compacted` the record the loop stores when the full one does not fit. The ports may misbehave: a
Tool's `prepare` may change the call, and a policy may raise or decide about another call.

**WorkspaceWrite** runs such calls against one output file. `pc[c]` is the coroutine, `stage[c]` the
worker thread of its `to_thread`, `temp[c]` the temporary file, `target` the output. The worker checks
the destination, creates the file, writes piece by piece; the coroutine resumes, checks again and
replaces, in one turn of the event loop but not in one step: the clock may move and the process may
die in between. A timeout or cancellation leaves `to_thread`, not the thread: the worker goes on
beside the next call of the same loop, and beside other processes. All the reasons the file system
may give for a failure (a link, a full disk, a moved directory) are one outcome, `denied`; what may
happen next does not depend on which it is. A deadline has two parts, because the timer only fires at
an await and the Tool compares its own deadline with the clock. `Crash` is the death of a process, not
a power failure: what was written stays visible.

**AtomicOutput** is the contract, without temporary files, threads, deadlines and checks: a call that
is still waited for replaces the file or does not; success is answered after, failure never after, a
replacement; a lost call may have done either.

**WorkspaceRead** is `workspace.read` with the reader and the boundary it uses: resolve, open, verify,
first `fstat`, lines, second `fstat`. The user edits in place, replaces, links and removes; an inode
number may be given again once no handle holds it, and `birth`, which the code cannot see, tells the
files apart. The client follows `next_start_line`.

**WorkspaceTree** has the tree and the shared listing: names first, each entry inspected at a moment of
its own, the directory's identity compared at the end. A path is a number whose order is that of the
portable paths, in which a file may sort between a directory and its children. **WorkspaceList** pages
through a directory; **WorkspaceSearch** is the heap, the four limits, and what each of them stops or
leaves out. Reading a file is one step there, which WorkspaceRead justifies.

### Before a Run

**LocalSetup** is `init` in two processes beside a user: a file is created with `O_EXCL` and written
later, and a process may die or fail in between. **Startup** is what `run` and the queries do before a
service exists: two bounded files read in pieces while the user saves, replaces, links and removes
them, then the configuration, then the database.

## 3. What is checked

| Run | Shows |
|---|---|
| `reducer` | `Serial`, `EvidenceOfSameActivity`, `WithinBudget`, `ProjectionOnlyForward`, and that the re-validation of what the guards let pass refuses nothing but usage beyond what a ModelUsage may report (`OnlyExcessIsRefused`), over all streams of up to 9 Events |
| `event_store` | two racing workers, two Runs that compete for an `event_id` and an Activity: the projection is the fold of unique facts and no call reports corruption (`StoreInvariant`), `ReturnedIsStored`, `ConflictIsFinal`, `ReadsAreSnapshots`, and each Run implements RunReducer (`RunsFollowReducer`) |
| `threads_live` | calls of the store end, and so do bounded reads that would never end by themselves, one of which waits for the other's thread; they give up their connection (`ThreadsEnd`) |
| `agent_loop` | what run() holds is what is committed, within the limits (`LoopInvariant`); `CallsAreAnnounced`, `ResultsAreReal`, `ReturnsTerminal`, and the stream implements RunReducer (`ImplementsReducer`) |
| `agent_loop_live` | three iterations with interactions left out of the context and a clock that may be set back: `run()` ends (`Terminates`), and only a request is ever refused, because the clock moved after the budget check or because the provider repeats a Tool call that the context left out (`OnlyRequestsRefused`) |
| `tool_calls` | two calls of two processes that ask for anything, with ports that misbehave: `DeniedNeverReached`, `RecordsConsistent`, `LeftoversExplained`, the contract of the output file (`ImplementsAtomicOutput`), and every call ends although its worker or Tool may hang (`CallsEnd`) |
| `model_providers` | for each of the three protocols, what is yielded is what the wire said, and different Tools have different wire names (`YieldsTheMessage`); a stream is accepted exactly when it follows the protocol, metadata and limits included (`AcceptsTheProtocol`); each adapter implements ModelPort (`ImplementsPort`); the collector makes a response of exactly the streams that hold one, with all they said, and counts truly what it gives up (`CollectsTheMessage`) |
| `history` | the newest interactions that fit are shown, and none older (`ShowsTheNewestThatFit`); calls with their results, and no Run that the loop drives is taken for incomplete (`RequestsAreComplete`); results reach their calls and names read back in each translation (`HistoryReachesTheProvider`) |
| `workspace_tools` | matches in the order of paths, complete or announced as a beginning (`SearchIsAPrefix`); pages of an untouched directory or file are all of it, each entry once (`PagesAreTheWhole`); a page of a file that is touched is of one version (`PageIsOneVersion`) |
| `surroundings` | bounded reads are joined before anything is returned and no cancellation is lost (`ReadsAreJoined`); `InspectionIsOnePrefix` (queries), `ScanMissesNoRun` (replay and check), `DatabaseIsWhole` (schema), `RecordsAreCommitted` (diagnostics), `ConfigurationIsWhole` (init and start-up), `NeverBelowTheCost` (prices) |
| `agent_loop_budget`, `event_store_duplicate` | violations: findings 1 and 2 |

**Sums.** Components that share nothing are checked by one run: `MCModelProviders`, `MCWorkspaceTools`,
`Surroundings` and `MCThreadsLive` hold a variable `part`, chosen in the initial state, and take the
steps of that part only; the variables of the others stay constant. The state space is the sum of the
parts, not their product, and a property of such a module is the conjunction of the part's own
invariants, which are defined, with their reasons, in the part's module. Variables of the same name in
two parts are one variable of the sum and mean nothing in common.

**Bounds.** `MaxEvents` = 9 in `reducer` holds two complete Activities between RunStarted and the end
of the Run with one Event to spare, so that requests after a finished Activity, repeated identifiers
and evidence of an earlier Activity all occur; limits are 1 and 2 so that they are met exactly and
passed by one reported usage, and one usage of the four is more than a call may report. `event_store` uses eight rows of two Runs: a whole Tool request, one whose
payload does not parse, a repeated `event_id` in another Run and an Activity identifier both Runs want. Two workers are enough
for every pair of statements to interleave; a third only waits for the same lock. `agent_loop` allows
two iterations and two Tool calls with limits that forbid the second of either; `Times` = {0, 1} with
a wall limit of 1 lets the budget run out between any two readings, and the clock may be set back. `MAX_EVENT_QUERY_LIMIT` = 8 is the
history of one Tool call: after it the loop goes on, after two calls the history outgrows the page.
`agent_loop_live` has the three iterations, of one Tool call each, that are needed for a call to be left
out of the context and then repeated, with `MAX_EVENT_QUERY_LIMIT` = 14, which holds them. The store's
part of `threads_live` races four rows; its bounded reads are two on one thread, with two cancellations,
one more than the code could handle by accident.

`tool_calls` has two calls: the worker of a call only meets other calls through the one output file
and through its process, so two calls show every pair of steps; contents of two and of three pieces let
a file be half written. The allowlist names a Tool with a denied side effect, and one registered Tool is
not on it, so that both halves of the policy decide; one Tool name is not registered.

The streams of the adapters are as long as the shortest that shows their hazard: ten wire events for
two content blocks of the Messages protocol, five items of a response, four chunks, each chunk being
several events in one. Two call identities and texts of which one, put together, is an object are
enough to mix calls up; one object of the collector's calls is too large for a ToolRequest. The wire names are checked for every list of five Tool names. `history` shows
up to three interactions of at most two calls, of which the newest one or two fit, or not even one;
results fit or are cut into their envelope; the whole history may pass `MAX_MODEL_INPUT_CHARS`; a name
may be that of a Tool that is not offered.

In `workspace_tools` the reading takes a limit of 5 bytes, lines of 2 and pages of 3, so that a line may
not fit the rest of a page and a file may be one byte too large, with two changes by the user: the one
that misleads and the one that hides it. The search has one change, seven paths on three levels, and
every limit within reach of some tree; the listing has three entries at most, pages of one and two, and
two changes.

In `surroundings`, the query pages by two below `MAX_INSPECT_EVENTS` = 5, over Runs of three to six
Events, one longer than the bound; the replay has three Runs so that a page of one or two has a Run before
and after it, and every damage of one Run or of all, and a single tick of the clock is the deadline. The
schema needs three processes of two builds for one to upgrade while two others race. The diagnostics
have two callers, one Activity and three ticks: requested, started and ended may each be answered late,
in any order. `init` runs in two processes; a start-up meets one change of one of its files at any moment
of its reading. Prices replace the million by five, with rates and counts on both sides of every
multiple; the theorems hold for all values.

**Fairness.** In `threads_live`: a started thread keeps running (the operating system schedules it and
SQLite grants the lock or reports busy within `busy_timeout`), the event loop runs and time passes, and,
strongly, a queued read is begun, since the executor's queue is first in, first out and a read is passed
over only finitely often. Nothing is assumed of `Finish`, so a query that never ends is covered; that a
thread looks at its control again is (`Check`), because SQLite calls the progress handler. Failures,
cancellation and crashes are never assumed. `AgentLoop!FairSpec` assumes that an await ends: the provider
and the Tools run under `asyncio.timeout`, the store under `busy_timeout`. `WorkspaceWrite!FairSpec`
assumes that time passes, that the event loop runs its due timers and callbacks, and that the few file
operations the loop makes itself return. It assumes nothing of worker threads and of other Tools: they
may hang.

**Deadlock** is checked except where the system really stops: in `reducer` the stream ends at
`MaxEvents`; in the runs of Tools, providers, contexts, bounded reads and surroundings every call,
stream, scan or Run has ended.

## 4. What is proved

Every theorem holds for all values of the constants that satisfy the assumptions named below; TLC
evaluates each assumption in a run. The theorems that state a property of a run have its name in
`PROJECT.json`.

**Reducer.** `ReducerLemmas` states, over any projection `s` and history `h`, what one Event does:
`Sound(s, h)` holds of nothing, and an Event that the reducer takes leads from a sound pair to a sound
one. `RunHistoryProofs` (the fold of an arbitrary stream), `AgentLoopProofs` (the stream of the loop),
`EventStoreProofs` (one stream for each Run of the tables) and `SurroundingsProofs` (the prefixes a
replay reads) all rest on it. `Serial` alone is not inductive: that the next Event is a result says
nothing about which Activity it matches. `Sound` adds `Projected` (at most one Activity is open, it is
the last one of the projection, and identifiers are unique) and `OpenAtEnd` (the open Activity is
exactly the one the last Event of the history requested or started). Then `Started` can only match the
Activity that was just requested, a result only the one just started, and the request lies two Events
back. `RunHistoryProofs` proves `TypeCorrect`, `SerialStream`, `EvidenceCorrect`, `BudgetBound`,
`GuardsSuffice`, `ForwardOnly`, `CountersCorrect`, and `StreamBounded`: whatever is offered, a Run has at
most 3 + 3 * (iterations + Tool calls) Events, because `Measured` ties the length of the stream to the
number of Activities and what the open one still lacks. `GuardsSuffice` follows from `WithinBudget`:
while a model Activity is open the usage is below its limits, so adding one `Reportable` usage stays below
the cumulative bounds (`UsageStaysInBounds`), and all else that the validators ask of a projection holds
whatever is reported (`GuardedIsValid`). An Event that reports more passes the guards too and is refused
by the re-validation alone. Assumed are the bounds of `RunEvents`: natural numbers, limits that respect what
`BudgetLimits` validates, usages that are natural numbers, and `None` is no identifier.

**AgentLoop.** `MemoryIsCommitted`, `CallsAnnounced`, `ResultsReal`, `TerminalReturned`,
`ReportsAccepted` and `LoopImplementsReducer`. The invariant says for each label of `run()` what the
committed Run is there (`RunAt`), which external calls have no result yet (`CallsAt`), what a budget check
established for the request that follows (`RoomFor`), and which Tool calls are still new (`TurnsKnown`).
An append is the hard part: between `Build` and the commit, memory is ahead of the Run. There the
invariant reads the label from the pending Event (`Phase` is where it was built, `Ahead` where run() goes
on) and says in `PendingFits` which Event that is. Whatever interrupts run() leaves the second half of
the invariant, `History`, which speaks of committed facts and calls alone. For the refinement each Event
that commits is one that `RunReducer` offers, and the rest stutters. `LoopAssumption` says that there is
a Run, that `MaxEvents` holds the longest stream (`StreamBounded` shows that this bound is never the
one that stops the loop), and that the loop's own schema version and an empty usage are among the
values.

**EventStore.** `StoreSound`, `ReturnedStored`, `ConflictsFinal`, `ReadsSnapshots`,
`StoreImplementsReducer`, for any workers, Runs and offered rows, with `Offers` a set of rows, `None` no
worker, and cursors and limits numbers. Each worker stands to the tables as its label says: the lock is
held exactly inside a writing transaction, so the writer's copy is the committed tables and what it added
itself, and a reader's snapshot is a sound set of tables that the committed ones extend. Rows are a set,
so a stream is what `ORDER BY sequence` finds; `Stream` says that the positions are the sequences, which
makes one more row one more Event at the end. `ProjectionIsFold` compares with a fold over the log, which
is recursive: the invariant carries `Replays`, that partial results exist and that all of them end in the
projection, and so grows with the stream instead of being proved by induction over it. The identities
that the tables refuse are those `ActivitiesApart` and `RequestsListed` keep apart.

**Replay and check.** `ReplaysConsistent`: the summaries, the silence about healthy Runs and the scan. Its
invariant has the snapshot be of one moment (`Seen`: some number of Events, and the projection of the same
number), every Run of the page before `next` handled (healthy, or among the items), and the scan complete
up to its cursor. What the reduction returns is a recursive function of the rows; `Chain` names it, chains
exist and agree by induction over numbers, and `PrefixSound` makes the fold of every prefix of a script
sound, from which follows what damage can and cannot hide: a missing first row shows as a gap, an illegal
Event as an error, and after a terminal Event nothing follows. `ReplayConstants` assumes that the scripts
are streams that parse and that the reducer takes, and that `RunOrder` lists every Run once.

**The other surroundings.** `CostNeverBelow` and `CostNotFarAbove`: rounding a component up adds less than
one unit (`RoundsUp`, by the definition of integer division), and a call has two components. `ReadsJoined`:
one invariant for each read, that ties the coroutine to its task and its thread. `DiagnosticsTrue`: one
append of an Event is committed, and the Event is heard of, at a reading of the clock, when that append
returns (`CallSound`, `EventSound`). `SchemaWhole`: the file is empty or whole (`DiskWhole`), and
the copy in a transaction is what its statements so far make of it (`TxSound`). `QueriesConsistent`: what
was collected is the segment between the first sequence and the cursor, below the bound that the
projection gave. `SetupWhole`: what a process created is its own until it is whole, and every path it has
passed is an ordinary file. `StartWhole`: while the stamp of the open file is the one it was opened with,
the pieces read are all of what it holds now. `ConfigurationsWhole` puts the last two together. The
assumptions are `PricingAssumption` and `ConstantsAssumption` in `Surroundings`: types, and that `None`
is no value of a set it is distinguished from. Each of these theorems states the part alone and, where a
run's property names it, the composition: `PartsBegin` and `PartsStep` say that a behaviour of the sum is
one of its part.

**Context and history.** `RunHistoryProofs` also proves `RequestsComplete`, `NewestShown` and
`HistoryReaches`, for a Run of any length, and `WireNamesDiffer`. `History(events)` is a fold; `HistoryInv`
says what it holds after any number of Events: the groups lie in the order of the Events and cover them
(`InOrder`, `Covers`), each is an answer of the model with the results of all its calls (`Whole`), the open
one waits for exactly the calls without a result (`Waits`), and calls are numbered as they came
(`Numbered`). `RunInv` adds what the loop knows of it at each of its steps. For `NewestShown` the size of a
request is taken apart: what is shown are the messages of the chosen Events, a sum over a subsequence is the
sum of what was chosen (`TotalOfChosen`, `FlattenOfChosen`), and so the size that `build` measures is the
one that the Events tell (`RequestFrom`). For `WireNamesDiffer` the list of wire names grows name by name
(`WiresGrow`): a name gets what no name before it has and no conforming name is; that the hash finds such
an attempt is assumed of it (`HashedAssumption`). For `HistoryReaches` each message has a place for its items
among those of the request (`PlacesExist`), calls and results are found there (`CallsHaveResults`,
`ResultsHaveCalls`), and what the Provider reads at that place leads back to the call (`ResultsReach`,
`NameComesBack`). Assumed are `ContextAssumption` (numbers, and the order of the three limits that the
configuration validates), `HashedAssumption` and `OfferedAssumption` (the Tools offered differ).

**Models.** `MessagesCollected` and `CollectorCorrect`: for a lawful port or any other, `collect` returns a
response for exactly the streams that hold a message, with all the text and the calls in their order; a
message is one that every part of it accepts, arguments too large for a ToolRequest being refused. While
it collects, `Gathered` equates the fragments, calls and completion with what the stream so far says;
that joining the fragments one by one is joining the texts at once rests on an induction over the
stream. `AdaptersImplementPort`: each of the three adapters refines ModelPort, for any wire events, parsers
and Tools. All three keep what they yielded legal (`Kept`); beyond that Chat Completions needs that there
are calls exactly when the finish reason said so, Responses that the calls it remembers are those it
yielded, Messages that its count of calls is right and that the completion it holds back fits it. Assumed:
`ModelEventsAssumption` (types) and `PortAssumption` (a port yields ModelEvents, which Pydantic has
validated, or something that is none).

**Tools.** `WorkspaceWriteProofs` proves, for all numbers of calls, processes and pieces, all Tools,
allowlists and misbehaviour of the ports: `TypeCorrect`, `WholeOutput`, `DeniedIsNotReached`,
`ValidatorAccepts`, `OnlyExplainedLeftovers` and `Refinement` (WorkspaceWrite implements AtomicOutput). It
assumes `CallsAssumption` and the assumption on the registry in `ToolExecution`. The invariant is one of
each call on its own: it places the worker for every place of the coroutine, bounds what the temporary
file holds, and says that a staged file is complete, which is why what `Replace` moves is whole. It also
carries that an admitted call was allowed and that the record so far is one that can be concluded. Since
a step touches one call (or, in a crash, does the same to each call of a process) and calls share only
`target`, every step is shown for its call and `UntouchedKeeps` answers for the others. For the refinement
the invariant excludes that a given-up call comes back: no action leads from `timed_out` or `gone` to the
loop, and only the loop replaces.

`WorkspaceToolsProofs` proves `PagesOneVersion`, `PagesWhole` and `SearchFindsAPrefix`, of each Tool alone
and in the composition. Reading: three stamps matter. A file that still bears the stamp it was
inspected with is the file that was resolved (`CheckedIsResolved`), although its inode may have been given
again; as long as the open file bears the stamp of the first `fstat` the lines are its first ones
(`LinesAreItsFirst`); and pages of a file nobody touches go on from each other (`PagesSoFar`).
Listing: while nobody touches the directory, what was inspected so far are its entries among the names
already taken (`ScanInv`), and what the client has got is the beginning of the one sorted list that each
listing makes anew (`ListedSoFar`, `SortedIsAll`). Searching: the heap holds, of everything that was listed
and not yet searched, what comes next (`HeapOrder`: nothing pending lies before what was searched), and every
match still to be found lies at or below a path that is pending, unless a limit has left something out
(`HeapCovers`); so what was found is a beginning of all there is, and all of it when the heap is empty and
no limit is named. Depths and the paths below a directory are
recursive functions; `AboveUnfolds` and `DepthOfAChild` give their equations. `ReadAssumption` says that a
page has room for the longest line, as `workspace_limits.py` has it: without it a page could be empty and
its cursor lead nowhere. `PathAssumption` and `ParentAssumption` say what a portable path is (one that comes
after its directory's), `EntriesAssumption`, `ListAssumption` and `SearchAssumption` give types: trees,
limits that are at least one, and contents whose matches are in the order of their lines.

**Induction.** The prover has no induction over numbers with an operator parameter. The few that are needed
(`SetInduction`) are in the form "a set with 0 and with every successor is all of them", from the
well-foundedness of the natural numbers.

**What the proofs found in the models**, and what was corrected: `OnlyRequestsRefused` excused every Tool
request, and now names the repeated call; the type invariant of WorkspaceRead left out the first request of
a page; EventStore stored rows whose payload no model accepts; the scripts of the replay held such
Events; `ScanMissesNoRun` said nothing of a scan whose first pages are empty.

**Only model-checked**, and why:

- liveness under fairness (`ThreadsEnd`, `Terminates`, `CallsEnd`): out of the prover's reach;
- `YieldsTheMessage` and `AcceptsTheProtocol`: their reference definitions are filters, sorts and joins over
  the whole stream of wire events, for each of three protocols; each would need its own lemmas of how the
  reference grows by one event, as `RunHistoryProofs` has them for the history.

## 5. Findings

1. **A budget can stop a Run without a RunFailed.** `run()` checks the budget with one reading of the
   clock and stamps the request with a later one. When the wall budget runs out in between, the
   reducer refuses the request, `RunReducerError` leaves `run()`, and the Run stays `running`. F-0016
   AC-3 promises a RunFailed (`agent_loop_budget`).
2. **A repeated append is not a conflict.** SQLite's `append` asks the reducer before it inserts, so a
   committed Event that is appended again is refused for its sequence. F-0003 section 9 promises a
   stable conflict for a duplicate event ID, which holds only while its sequence is still the next one
   (`event_store_duplicate`); the in-memory store looks the identity up first.

Five further promises of the documents are stated in the modules and are in no configuration. Added as
an INVARIANT to the one that is named, TLC shows a counterexample:

- `HistoryTranslation!UnknownToolsAreCorrectable` (`HistoryTranslation.cfg`): a call for a Tool that
  is not offered is answered "not found" and recorded; Chat Completions then refuses the next request,
  because the name in the history is not among the offered Tools. F-0016 lets the model correct such a
  call, and the two other adapters send the name.
- `Context!FailsOnlyForTheLatest` (`HistoryTranslation.cfg`): `build` validates a request of the whole
  history first, so a Run whose history passes `MAX_MODEL_INPUT_CHARS` fails although its newest
  interactions fit. F-0016 drops the oldest and fails only when the latest does not fit.
- `WorkspaceSearch!ReasonIsWhyItStopped` (`MCWorkspaceTools.cfg`): `limit_reason` keeps the first
  reason, also of a limit that only left something out. Beside this, F-0007 says of a search at its
  deadline both that it is truncated (line 97) and that it fails with `tool_timeout` (line 172); the
  code does the second.
- `LocalSetup!OkMeansComplete` and `Startup!QueryCreatesNothing` (as conjuncts of
  `ConfigurationIsWhole`, which carries them to their part): an `init` that died after creating a file is not repaired by the next one, which
  keeps the empty file; and a query whose database disappears between the check that it exists and its
  opening creates a new one, against the docstring "without creating a missing one".

## 6. Not modelled, and the plan

Left out for good, and why:

- the command line: rendering and exit codes of sequential code; the exit code of `check`, which is a
  promise about damage, is in RunReplay;
- the test doubles: the in-memory store has no concurrency and the scripted model and Tool answer what a
  test gives them;
- the live evaluation gate, development scripts and the documentation site: outside the running system;
- schemas, state hashes and fingerprints: functions of their input without state;
- configuration: Startup takes what a profile or catalog says as one value; the validation of single
  fields, and that profile and catalog are read one after the other and may belong to different moments
  (no document promises otherwise), are not stated;
- texts: wording of errors, previews, how a line is matched;
- in WorkspaceSearch the counts of blocked and skipped entries; in WorkspaceTree the number of a removed
  directory is not given again while it is listed; in WorkspaceWrite the reasons for which the boundary
  denies a path are one outcome.

What could still be proved: `YieldsTheMessage` and `AcceptsTheProtocol`, with an invariant for each adapter
that equates its state with what the wire events so far say. What could still be modelled: the fields of a
configuration and their validation, and the moments at which profile and catalog are read.
