------------------------------ MODULE StoreSchema ------------------------------
(***************************************************************************)
(* How the tables of the EventStore come to exist: initialize() of         *)
(* adapters/sqlite/store.py, and the check that every other call of the    *)
(* store makes of them before it uses them (_open_initialized).  Several   *)
(* processes set up the same file at once, of builds that do not ship the  *)
(* same migration; any of them dies at any step, and any statement fails.  *)
(*                                                                         *)
(* EventStore takes this as one step; here each statement is a step.       *)
(***************************************************************************)
EXTENDS Naturals, Sequences, FiniteSets

CONSTANTS
  Processes,
  Builds,      \* checksums of the migration that a build ships
  None         \* no process and no build

Schema == <<"events", "run_projections", "activity_projections">>
Objects == {"schema_migrations"} \cup {Schema[i] : i \in DOMAIN Schema}
LedgerRow == [version : {1, 2}, checksum : Builds \cup {None}]
Database == [objects : SUBSET Objects, ledger : SUBSET LedgerRow]

VARIABLES
  file,      \* whether the database file exists
  wal,       \* whether it is in WAL mode
  disk,      \* what is committed
  writer,    \* the process whose transaction is IMMEDIATE, or None
  pc, build,
  tx,        \* its transaction's view of the database
  created,   \* how many statements of the migration it has executed
  outcome    \* how its last call ended

vars == <<file, wal, disk, writer, pc, build, tx, created, outcome>>
shared == <<file, wal, disk>>

Empty == [objects |-> {}, ledger |-> {}]
Required == {Schema[i] : i \in DOMAIN Schema}
RowOf(p) == [version |-> 1, checksum |-> build[p]]

InTransaction == {"ledger", "create", "record", "commit"}
Outcomes == {"none", "ok", "busy", "error", "newer", "mismatch", "incomplete",
             "uninitialized", "unsupported", "not wal"}

Init ==
  /\ file = FALSE /\ wal = FALSE /\ disk = Empty
  /\ writer = None
  /\ pc = [p \in Processes |-> "idle"]
  /\ build \in [Processes -> Builds]
  /\ tx = [p \in Processes |-> Empty]
  /\ created = [p \in Processes |-> 0]
  /\ outcome = [p \in Processes |-> "none"]

Goto(p, label) == pc' = [pc EXCEPT ![p] = label]

Call(p, label) ==
  /\ pc[p] = "idle"
  /\ Goto(p, label)
  /\ outcome' = [outcome EXCEPT ![p] = "none"]
  /\ UNCHANGED <<shared, writer, build, tx, created>>

\* the connection is closed and what it did not commit is rolled back
Ends(p, result) ==
  /\ Goto(p, "idle")
  /\ writer' = IF writer = p THEN None ELSE writer
  /\ tx' = [tx EXCEPT ![p] = Empty]
  /\ created' = [created EXCEPT ![p] = 0]
  /\ outcome' = [outcome EXCEPT ![p] = result]
  /\ UNCHANGED build

Rollback(p, result) == Ends(p, result) /\ UNCHANGED shared

-----------------------------------------------------------------------------
(* initialize() *)

\* _connect: sqlite3.connect creates the file
Connect(p) ==
  /\ pc[p] = "connect"
  /\ file' = TRUE
  /\ Goto(p, "wal")
  /\ UNCHANGED <<wal, disk, writer, build, tx, created, outcome>>

\* PRAGMA journal_mode=WAL; the first time it needs the file for itself
SetWal(p) ==
  /\ pc[p] = "wal"
  /\ \/ /\ wal' = TRUE
        /\ Goto(p, "begin")
        /\ UNCHANGED <<file, disk, writer, build, tx, created, outcome>>
     \/ ~ wal /\ Rollback(p, "busy")

\* BEGIN IMMEDIATE, within the busy timeout or not
Begin(p) ==
  /\ pc[p] = "begin"
  /\ IF writer = None
     THEN /\ writer' = p
          /\ tx' = [tx EXCEPT ![p] = disk]
          /\ Goto(p, "ledger")
          /\ UNCHANGED <<shared, build, created, outcome>>
     ELSE Rollback(p, "busy")

IsNewer(rows) == \E row \in rows : row.version > 1

\* CREATE TABLE IF NOT EXISTS schema_migrations; SELECT version, name, checksum
ReadLedger(p) ==
  /\ pc[p] = "ledger"
  /\ LET rows == tx[p].ledger
         one == {row \in rows : row.version = 1}
     IN  CASE IsNewer(rows) -> Rollback(p, "newer")
           [] ~ IsNewer(rows) /\ one # {} /\ one # {RowOf(p)} -> Rollback(p, "mismatch")
           [] OTHER ->
                /\ tx' = [tx EXCEPT ![p].objects = @ \cup {"schema_migrations"}]
                /\ Goto(p, IF one = {} THEN "create" ELSE "commit")
                /\ UNCHANGED <<shared, writer, build, created, outcome>>

\* mutant: no transaction around the statements of the migration
CreateNext_Autocommit(p) ==
  /\ pc[p] = "create"
  /\ LET table == Schema[created[p] + 1]
     IN  IF table \in tx[p].objects THEN Rollback(p, "incomplete")
         ELSE /\ tx' = [tx EXCEPT ![p].objects = @ \cup {table}]
              /\ disk' = [disk EXCEPT !.objects = @ \cup {"schema_migrations", table}]
              /\ created' = [created EXCEPT ![p] = @ + 1]
              /\ Goto(p, IF created[p] + 1 = Len(Schema) THEN "record" ELSE "create")
              /\ UNCHANGED <<file, wal, writer, build, outcome>>

\* the next CREATE TABLE of the migration, which fails when there is one already
CreateNext(p) ==
  /\ pc[p] = "create"
  /\ LET table == Schema[created[p] + 1]
     IN  IF table \in tx[p].objects THEN Rollback(p, "incomplete")
         ELSE /\ tx' = [tx EXCEPT ![p].objects = @ \cup {table}]
              /\ created' = [created EXCEPT ![p] = @ + 1]
              /\ Goto(p, IF created[p] + 1 = Len(Schema) THEN "record" ELSE "create")
              /\ UNCHANGED <<shared, writer, build, outcome>>

\* INSERT INTO schema_migrations
Record(p) ==
  /\ pc[p] = "record"
  /\ tx' = [tx EXCEPT ![p].ledger = @ \cup {RowOf(p)}]
  /\ Goto(p, "commit")
  /\ UNCHANGED <<shared, writer, build, created, outcome>>

\* _verify_required_tables and COMMIT
Commit(p) ==
  /\ pc[p] = "commit"
  /\ IF Required \subseteq tx[p].objects
     THEN disk' = tx[p] /\ Ends(p, "ok") /\ UNCHANGED <<file, wal>>
     ELSE Rollback(p, "incomplete")

\* a statement fails: disk full, I/O error
Fail(p) == pc[p] \in InTransaction /\ Rollback(p, "error")

-----------------------------------------------------------------------------
(* _open_initialized: each SELECT of verify_store_schema is a snapshot of its own *)

Open(p) ==
  /\ pc[p] = "open"
  /\ IF "schema_migrations" \in disk.objects
     THEN Goto(p, "rows") /\ UNCHANGED <<shared, writer, build, tx, created, outcome>>
     ELSE Rollback(p, "uninitialized")

CheckRows(p) ==
  /\ pc[p] = "rows"
  /\ CASE ~ \E row \in disk.ledger : disk.ledger = {row} /\ row.version = 1 ->
            Rollback(p, "unsupported")
       [] \E row \in disk.ledger : /\ disk.ledger = {row} /\ row.version = 1
                                   /\ row # RowOf(p) -> Rollback(p, "mismatch")
       [] OTHER -> Goto(p, "tables") /\ UNCHANGED <<shared, writer, build, tx, created, outcome>>

CheckTables(p) ==
  /\ pc[p] = "tables"
  /\ Rollback(p, IF ~ Required \subseteq disk.objects THEN "incomplete"
                 ELSE IF ~ wal THEN "not wal" ELSE "ok")

-----------------------------------------------------------------------------
(* The processes *)

Initialize(p) ==
  Connect(p) \/ SetWal(p) \/ Begin(p) \/ ReadLedger(p) \/ CreateNext(p) \/ Record(p) \/ Commit(p)
Verify(p) == Open(p) \/ CheckRows(p) \/ CheckTables(p)

\* the process dies and its transaction with it; whoever starts it again may
\* have installed another build
Crash(p) ==
  /\ pc[p] # "idle"
  /\ Goto(p, "idle")
  /\ writer' = IF writer = p THEN None ELSE writer
  /\ tx' = [tx EXCEPT ![p] = Empty]
  /\ created' = [created EXCEPT ![p] = 0]
  /\ outcome' = [outcome EXCEPT ![p] = "none"]
  /\ \E b \in Builds : build' = [build EXCEPT ![p] = b]
  /\ UNCHANGED shared

\* a later version of the program adds its own migration
Upgrade ==
  /\ writer = None
  /\ \E row \in disk.ledger : disk.ledger = {row}
  /\ disk' = [disk EXCEPT !.ledger = @ \cup {[version |-> 2, checksum |-> None]}]
  /\ UNCHANGED <<file, wal, writer, pc, build, tx, created, outcome>>

Next ==
  \/ \E p \in Processes :
       \/ \E label \in {"connect", "open"} : Call(p, label)
       \/ Initialize(p)
       \/ Verify(p)
       \/ Fail(p)
       \/ Crash(p)
  \/ Upgrade

Spec == Init /\ [][Next]_vars

-----------------------------------------------------------------------------
(* Properties *)

\* Type correctness; the lock belongs to whoever is inside a transaction, and
\* to nobody else.
TypeOK ==
  /\ file \in BOOLEAN /\ wal \in BOOLEAN
  /\ disk \in Database
  /\ writer \in Processes \cup {None}
  /\ pc \in [Processes -> InTransaction \cup {"idle", "connect", "wal", "begin", "open", "rows",
                                              "tables"}]
  /\ build \in [Processes -> Builds]
  /\ tx \in [Processes -> Database]
  /\ created \in [Processes -> 0 .. Len(Schema)]
  /\ outcome \in [Processes -> Outcomes]
  /\ \A p \in Processes : pc[p] \in InTransaction <=> writer = p

\* However many processes set the database up and wherever they die or fail,
\* the file holds nothing of the schema, or all of it with the ledger row that
\* says so.
AllOrNothing ==
  \/ disk = Empty
  \/ disk.objects = Objects /\ disk.ledger # {}

\* So a database never needs repair: no call finds some of its tables or a
\* table that it is about to create, and no reader finds it without WAL.
NeverHalfDone == \A p \in Processes : outcome[p] \notin {"incomplete", "not wal"}

\* In every step: initialize() returns only on a database of its own build;
\* what another build applied, or a newer one added, is refused.
OkIsThisBuild ==
  \A p \in Processes : pc[p] = "commit" /\ outcome'[p] = "ok" => disk'.ledger = {RowOf(p)}

\* In every step: what was applied is never applied again, replaced or removed.
\* A ledger row and the tables it stands for stay as they are, whichever build
\* comes next.
AppliedOnce ==
  disk.ledger # {} =>
    /\ disk.ledger \subseteq disk'.ledger /\ disk'.objects = disk.objects
    /\ \A row, other \in disk'.ledger : row.version = other.version => row = other

\* What every step keeps of the database, for the proofs and the runs.
DatabaseIsWhole ==
  /\ (TypeOK /\ AllOrNothing /\ NeverHalfDone)'
  /\ OkIsThisBuild /\ AppliedOnce
==============================================================================
