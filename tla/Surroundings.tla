------------------------------ MODULE Surroundings ------------------------------
(***************************************************************************)
(* What stands around the loop, the store and the Tools, each part on its  *)
(* own (part, chosen in Init): the prices of a Run's calls; bounded reads  *)
(* that share a pool of threads; a query of a Run, and replay and check of *)
(* several, beside an agent that commits; the tables of the store, set up  *)
(* by processes of several builds; the diagnostics of its calls; `bearagent *)
(* init` and the start of a command beside a user who changes the same     *)
(* files.  Parts share the variables of equal name.                        *)
(***************************************************************************)
EXTENDS Pricing, RunEvents, FiniteSets

CONSTANTS
  Reads, PoolSize, MaxCancels,          \* bounded reads, the threads they share
  Appends, Activities, MaxTime,         \* calls of the store under diagnosis, and what they are about
  Setups, Builds,                       \* processes and builds that set up the tables
  Creators,                             \* processes that run init
  Artifacts, Unparsable, Histories,     \* of the Run that is queried
  MAX_INSPECT_EVENTS, DEFAULT_EVENT_QUERY_LIMIT, QueryLimits, QueryStarts, PageFaults,
  RunOrder, Scripts, StartChoices, DamageChoices, ScanLimits, max_events, Timeout, \* of the replay
  Inodes, FirstInode, Providers, MaxChanges   \* of a command's start

VARIABLES
  part,
  pc, committed, limit, got, clock, answer, file, created, outcome,  \* of several parts
  caller, cancels, told, late, worker, open, task,                   \* of the reads
  history, last, read, inspected, step, upto, cursor, more,          \* of the query
  damage, mode, after, page, next, snapshot, items, scanned, known,  \* of the replay
  wal, disk, writer, build, tx,                                      \* of the tables
  job, reply, started, record, heard,                                \* of the diagnostics
  directory, creator, at,                                            \* of init
  name, content, changes, command, initial, opened, loaded, result   \* of a command's start

readsOnly == <<caller, cancels, told, late, worker, open, task>>
queryOnly == <<history, last, read, inspected, step, upto, cursor, more>>
replayOnly == <<damage, mode, after, page, next, snapshot, items, scanned, known>>
schemaOnly == <<wal, disk, writer, build, tx>>
diagnosticsOnly == <<job, reply, started, record, heard>>
setupOnly == <<directory, creator, at>>
startupOnly == <<name, content, changes, command, initial, opened, loaded, result>>
sharedVars == <<pc, committed, limit, got, clock, answer, file, created, outcome>>
allVars == <<part, vars, sharedVars, readsOnly, queryOnly, replayOnly, schemaOnly, diagnosticsOnly,
             setupOnly, startupOnly>>

-----------------------------------------------------------------------------
(* The parts, and what the proofs assume of their constants *)

Pool == INSTANCE BoundedRead
Query == INSTANCE RunQuery WITH Starts <- QueryStarts
Replay == INSTANCE RunReplay
Schema == INSTANCE StoreSchema WITH Processes <- Setups
Diagnosed == INSTANCE Diagnostics WITH Calls <- Appends
Setup == INSTANCE LocalSetup WITH Processes <- Creators
Start == INSTANCE Startup

ReadConstants == MaxCancels \in Nat /\ None \notin {"value", "error", "timeout"}
DiagnosticsConstants ==
  /\ MaxTime \in Nat
  /\ None \notin Nat /\ None \notin Diagnosed!Event /\ None \notin Diagnosed!Record
  /\ None \notin {"ok", "error", "cancelled"}
SchemaConstants == None \notin Setups
QueryConstants ==
  /\ Histories \subseteq Seq(Artifacts \cup {None, Unparsable})
  /\ MAX_INSPECT_EVENTS \in Nat /\ DEFAULT_EVENT_QUERY_LIMIT \in Nat
  /\ QueryLimits \subseteq Nat /\ QueryStarts \subseteq Nat
  /\ PageFaults \subseteq {"none", "empty", "hole", "long"}
\* RunOrder lists the Runs, and their scripts are streams that the reducer takes
ReplayConstants ==
  /\ RunOrder \in Seq(RunIds)
  /\ \A i, j \in DOMAIN RunOrder : RunOrder[i] = RunOrder[j] => i = j
  /\ \A r \in RunIds : \E i \in DOMAIN RunOrder : RunOrder[i] = r
  /\ Scripts \in [RunIds -> Seq(Event)]
  /\ \A r \in RunIds : \A n \in DOMAIN Scripts[r] :
       /\ Scripts[r][n] \in Payloads(r, n)
       /\ Replay!Reconstructed(SubSeq(Scripts[r], 1, n)) # Replay!Bad
  /\ StartChoices \subseteq [RunIds -> Nat]
  /\ \A choice \in StartChoices : \A r \in RunIds : choice[r] <= Len(Scripts[r])
  /\ DamageChoices \subseteq [RunIds -> Replay!Damages]
  /\ ScanLimits \subseteq Nat \ {0} /\ max_events \in Nat /\ Timeout \in Nat
SetupConstants == None \notin Creators
StartConstants == FirstInode \in [Start!Paths -> Inodes]

ASSUME ConstantsAssumption ==
  /\ ReadConstants /\ DiagnosticsConstants /\ SchemaConstants
  /\ QueryConstants /\ ReplayConstants /\ SetupConstants /\ StartConstants

-----------------------------------------------------------------------------
NoPricing == pricing = None /\ cost = 0 /\ exact = 0 /\ calls = 0
NoReads ==
  /\ caller = None /\ cancels = None /\ told = None /\ late = None
  /\ worker = None /\ open = None /\ task = None
NoQuery ==
  /\ history = None /\ last = None /\ read = None /\ inspected = None
  /\ step = None /\ upto = None /\ cursor = None /\ more = None
NoReplay ==
  /\ damage = None /\ mode = None /\ after = None /\ page = None /\ next = None
  /\ snapshot = None /\ items = None /\ scanned = None /\ known = None
NoSchema == wal = None /\ disk = None /\ writer = None /\ build = None /\ tx = None
NoDiagnostics == job = None /\ reply = None /\ started = None /\ record = None /\ heard = None
NoSetup == directory = None /\ creator = None /\ at = None
NoStart ==
  /\ name = None /\ content = None /\ changes = None /\ command = None
  /\ initial = None /\ opened = None /\ loaded = None /\ result = None
NoFiles == NoSetup /\ NoStart /\ file = None /\ created = None

SurroundingsInit ==
  \/ /\ part = "pricing" /\ Init
     /\ NoReads /\ NoQuery /\ NoReplay /\ NoSchema /\ NoDiagnostics /\ NoFiles
     /\ pc = None /\ committed = None /\ limit = None /\ got = None /\ clock = None
     /\ answer = None /\ outcome = None
  \/ /\ part = "reads" /\ Pool!Init
     /\ NoPricing /\ NoQuery /\ NoReplay /\ NoSchema /\ NoDiagnostics /\ NoFiles
     /\ pc = None /\ committed = None /\ limit = None /\ got = None /\ clock = None
     /\ outcome = None
  \/ /\ part = "query" /\ Query!Init
     /\ NoPricing /\ NoReads /\ NoReplay /\ NoSchema /\ NoDiagnostics /\ NoFiles
     /\ clock = None /\ answer = None /\ outcome = None
  \/ /\ part = "replay" /\ Replay!Init
     /\ NoPricing /\ NoReads /\ NoQuery /\ NoSchema /\ NoDiagnostics /\ NoFiles
     /\ got = None /\ outcome = None
  \/ /\ part = "schema" /\ Schema!Init
     /\ NoPricing /\ NoReads /\ NoQuery /\ NoReplay /\ NoDiagnostics /\ NoSetup /\ NoStart
     /\ committed = None /\ limit = None /\ got = None /\ clock = None /\ answer = None
  \/ /\ part = "diagnostics" /\ Diagnosed!Init
     /\ NoPricing /\ NoReads /\ NoQuery /\ NoReplay /\ NoSchema /\ NoFiles
     /\ limit = None /\ got = None /\ outcome = None
  \/ /\ part = "setup" /\ Setup!Init
     /\ NoPricing /\ NoReads /\ NoQuery /\ NoReplay /\ NoSchema /\ NoDiagnostics /\ NoStart
     /\ committed = None /\ limit = None /\ got = None /\ clock = None /\ answer = None
  \/ /\ part = "start" /\ Start!Init
     /\ NoPricing /\ NoReads /\ NoQuery /\ NoReplay /\ NoSchema /\ NoDiagnostics /\ NoSetup
     /\ committed = None /\ limit = None /\ clock = None /\ answer = None /\ outcome = None

SurroundingsNext ==
  /\ \/ /\ part = "pricing" /\ Complete
        /\ UNCHANGED <<sharedVars, readsOnly, queryOnly, replayOnly, schemaOnly, diagnosticsOnly, setupOnly, startupOnly>>
     \/ /\ part = "reads" /\ Pool!Next
        /\ UNCHANGED <<vars, queryOnly, replayOnly, schemaOnly, diagnosticsOnly, setupOnly, startupOnly>>
        /\ UNCHANGED <<pc, committed, limit, got, clock, file, created, outcome>>
     \/ /\ part = "query" /\ Query!Next
        /\ UNCHANGED <<vars, readsOnly, replayOnly, schemaOnly, diagnosticsOnly, setupOnly, startupOnly>>
        /\ UNCHANGED <<clock, answer, file, created, outcome>>
     \/ /\ part = "replay" /\ Replay!Next
        /\ UNCHANGED <<vars, readsOnly, queryOnly, schemaOnly, diagnosticsOnly, setupOnly, startupOnly>>
        /\ UNCHANGED <<got, file, created, outcome>>
     \/ /\ part = "schema" /\ Schema!Next
        /\ UNCHANGED <<vars, readsOnly, queryOnly, replayOnly, diagnosticsOnly, setupOnly, startupOnly>>
        /\ UNCHANGED <<committed, limit, got, clock, answer>>
     \/ /\ part = "diagnostics" /\ Diagnosed!Next
        /\ UNCHANGED <<vars, readsOnly, queryOnly, replayOnly, schemaOnly, setupOnly, startupOnly>>
        /\ UNCHANGED <<limit, got, file, created, outcome>>
     \/ /\ part = "setup" /\ Setup!Next
        /\ UNCHANGED <<vars, readsOnly, queryOnly, replayOnly, schemaOnly, diagnosticsOnly, startupOnly>>
        /\ UNCHANGED <<committed, limit, got, clock, answer>>
     \/ /\ part = "start" /\ Start!Next
        /\ UNCHANGED <<vars, readsOnly, queryOnly, replayOnly, schemaOnly, diagnosticsOnly, setupOnly>>
        /\ UNCHANGED <<committed, limit, clock, answer, outcome>>
  /\ UNCHANGED part

SurroundingsSpec == SurroundingsInit /\ [][SurroundingsNext]_allVars

-----------------------------------------------------------------------------
(***************************************************************************)
(* A bounded read returns only after its thread has ended and closed its   *)
(* connection, and a cancellation of it is neither lost nor replaced by a  *)
(* result, however deadline, cancellations and the end of the read race.   *)
(***************************************************************************)
ReadsAreJoined == part = "reads" => Pool!ReadsAreJoined

(***************************************************************************)
(* inspect and events show one prefix of the Run, or raise: state and      *)
(* Artifacts of the same sequence, pages that follow on each other, and    *)
(* `more` when there was more - although projection and pages are read one *)
(* after the other while the Run goes on.                                  *)
(***************************************************************************)
InspectionIsOnePrefix ==
  part = "query" => Query!InspectionIsOnePrefix

(***************************************************************************)
(* check misses no Run and makes no sound one look broken or broken one    *)
(* look sound, although each Run is read in a transaction of its own and   *)
(* some cannot be read; what it says of a Run is true of one prefix of it. *)
(***************************************************************************)
ScanMissesNoRun ==
  part = "replay" =>
    /\ Replay!TypeOK /\ Replay!SummaryIsOnePrefix /\ Replay!HealthyIsHealthy
    /\ Replay!ScanMissesNoRun

(***************************************************************************)
(* The database file holds no part of the schema or all of it, of one      *)
(* build, forever, wherever the processes that set it up die or fail.      *)
(***************************************************************************)
DatabaseIsWhole ==
  [][part = "schema" => Schema!DatabaseIsWhole]_allVars

(***************************************************************************)
(* Diagnostics say that an Event was committed only when it was, and       *)
(* change no answer, whatever is cancelled and whatever the sink does.     *)
(***************************************************************************)
RecordsAreCommitted ==
  part = "diagnostics" =>
    /\ Diagnosed!TypeOK /\ Diagnosed!RecordsAreCommitted /\ Diagnosed!SinkNeverDecides
    /\ Diagnosed!FailuresAreAnswers /\ Diagnosed!DurationsAreReal

(***************************************************************************)
(* init overwrites nothing and reports as created only what it created     *)
(* whole; a command loads one version of each file, and leaves no database *)
(* if what it loaded does not hold together.                               *)
(***************************************************************************)
ConfigurationIsWhole ==
  [][/\ part = "setup" => Setup!ConfigurationIsWhole
     /\ part = "start" => Start!ConfigurationIsWhole']_allVars
=================================================================================
