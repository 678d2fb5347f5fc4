-------------------------------- MODULE Startup --------------------------------
(***************************************************************************)
(* What `bearagent run`, `bearagent inspect` and `bearagent events` do     *)
(* before a service exists (bootstrap.py): the profile and the catalog of  *)
(* providers are read as bounded regular files, the configuration is put   *)
(* together, the provider is made and the database opened, while the user  *)
(* saves, replaces, links and removes these files.                         *)
(*                                                                         *)
(* A file is read in two pieces.  A profile of version 1 ("legacy") needs  *)
(* no catalog, one of version 2 names a provider; a catalog offers one.    *)
(***************************************************************************)
EXTENDS Naturals, Sequences

CONSTANTS
  Inodes,
  FirstInode, \* the files at first
  Providers,
  MaxChanges

Files == {"profile", "catalog"}
Paths == Files \cup {"database"}
Values == Providers \cup {"legacy", "bad"}
Kinds == {"file", "link", "directory", "absent"}

VARIABLES
  name,     \* what is at each of the three paths
  content,  \* the inodes: what a file holds, and its time stamp
  changes,  \* the user's changes so far; they move the stamps
  command,
  pc,
  file,     \* the file at hand
  initial, opened, \* its lstat before, its fstat after the open
  got,      \* the pieces read so far
  loaded,   \* history: what each file was taken to hold
  result,
  created   \* history: whether the command created the database

world == <<name, content, changes>>
read == <<file, initial, opened, got>>
vars == <<world, command, pc, read, loaded, result, created>>

NoStat == [kind |-> "absent", inode |-> 0, stamp |-> 0]
Lstat(f) == IF name[f].kind = "file"
            THEN [kind |-> "file", inode |-> name[f].inode, stamp |-> content[name[f].inode].stamp]
            ELSE [NoStat EXCEPT !.kind = name[f].kind]
Fstat == [kind |-> "file", inode |-> opened.inode, stamp |-> content[opened.inode].stamp]
SameInode(a, b) == a.inode = b.inode

Init ==
  /\ \E there \in SUBSET Paths :
       name = [f \in Paths |-> [kind |-> IF f \in there THEN "file" ELSE "absent", inode |-> FirstInode[f]]]
  /\ content \in [Inodes -> [value : Values, stamp : {0}]]
  /\ changes = 0
  /\ command \in {"run", "query"}
  /\ pc = "start"
  /\ file = "profile" /\ initial = NoStat /\ opened = NoStat /\ got = << >>
  /\ loaded = [f \in Files |-> << >>]
  /\ result = "none" /\ created = FALSE

-----------------------------------------------------------------------------
(* The user *)

Changes ==
  /\ changes < MaxChanges
  /\ changes' = changes + 1
  /\ UNCHANGED <<command, pc, read, loaded, result, created>>

\* into the file that is there
Save ==
  \E i \in Inodes : \E v \in Values :
    /\ content' = [content EXCEPT ![i] = [value |-> v, stamp |-> changes + 1]]
    /\ UNCHANGED name
    /\ Changes

\* another file, a link, a directory or nothing takes the name
Replace ==
  \E f \in Paths : \E k \in Kinds : \E i \in Inodes :
    /\ name' = [name EXCEPT ![f] = [kind |-> k, inode |-> i]]
    /\ UNCHANGED content
    /\ Changes

-----------------------------------------------------------------------------
(* _read_bounded_regular_file *)

Ends(what) ==
  /\ pc' = "end" /\ result' = what
  /\ UNCHANGED <<world, command, read, loaded, created>>

Start ==
  /\ pc = "start"
  /\ IF command = "run" THEN pc' = "look" /\ UNCHANGED result
     ELSE IF Lstat("database").kind # "file" THEN pc' = "end" /\ result' = "invalid"
     ELSE pc' = "database" /\ UNCHANGED result
  /\ UNCHANGED <<world, command, read, loaded, created>>

Look ==
  /\ pc = "look"
  /\ IF Lstat(file).kind # "file" THEN Ends("invalid")
     ELSE /\ initial' = Lstat(file)
          /\ pc' = "open"
          /\ UNCHANGED <<world, command, file, opened, got, loaded, result, created>>

\* os.open(O_NOFOLLOW), and the first fstat
Open ==
  /\ pc = "open"
  /\ IF Lstat(file).kind # "file" \/ ~ SameInode(initial, Lstat(file)) THEN Ends("invalid")
     ELSE /\ opened' = Lstat(file)
          /\ got' = << >>
          /\ pc' = "read"
          /\ UNCHANGED <<world, command, file, initial, loaded, result, created>>

ReadPiece ==
  /\ pc = "read" /\ Len(got) < 2
  /\ got' = Append(got, content[opened.inode].value)
  /\ UNCHANGED <<world, command, pc, file, initial, opened, loaded, result, created>>

\* mutant: only the path is compared
Unchanged_Path == SameInode(opened, Lstat(file))

\* the open file and the path after the read
Unchanged ==
  /\ SameInode(opened, Lstat(file))
  /\ opened.stamp = Fstat.stamp

\* the file is validated; a profile of version 2 needs the catalog
Check ==
  /\ pc = "read" /\ Len(got) = 2
  /\ IF Lstat(file).kind # "file" \/ ~ Unchanged \/ got[1] = "bad" THEN Ends("invalid")
     ELSE /\ loaded' = [loaded EXCEPT ![file] = got]
          /\ pc' = IF file = "profile" /\ got[1] # "legacy" THEN "look" ELSE "configure"
          /\ file' = "catalog"
          /\ got' = << >>
          /\ UNCHANGED <<world, command, initial, opened, result, created>>

-----------------------------------------------------------------------------
(* _build_run_services *)

\* the provider that the profile names is offered, or the profile needs none
Selected ==
  \/ loaded["profile"][1] = "legacy"
  \/ loaded["catalog"] # << >> /\ loaded["catalog"][1] = loaded["profile"][1]

\* selection, Tools and provider
Configure ==
  /\ pc = "configure"
  /\ \/ Ends("invalid")
     \/ /\ Selected
        /\ pc' = "database"
        /\ UNCHANGED <<world, command, read, loaded, result, created>>

\* SqliteEventStore.initialize: sqlite3.connect creates what is not there
Initialize ==
  /\ pc = "database"
  /\ pc' = "end"
  /\ \/ /\ name["database"].kind # "directory"
        /\ IF name["database"].kind = "absent"
           THEN /\ name' = [name EXCEPT !["database"].kind = "file"]
                /\ created' = TRUE
           ELSE UNCHANGED <<name, created>>
        /\ result' \in {"ok", "failed"}
     \/ result' = "failed" /\ UNCHANGED <<name, created>>
  /\ UNCHANGED <<content, changes, command, read, loaded>>

Next ==
  \/ Save \/ Replace
  \/ Start \/ Look \/ Open \/ ReadPiece \/ Check
  \/ Configure \/ Initialize

Spec == Init /\ [][Next]_vars

-----------------------------------------------------------------------------
(* Properties *)

\* What was loaded is one version of the file, although it is read
\* piece by piece and may be saved in between.
LoadedIsOneVersion == \A f \in Files : loaded[f] # << >> => loaded[f][1] = loaded[f][2]

\* A command whose configuration does not hold together leaves no database:
\* the store is opened last, and only for a provider that the profile names
\* and the catalog offers.
CreatedOnlyWhenConfigured ==
  created /\ command = "run" => result # "invalid" /\ Selected

\* build_run_query_service: an existing database is opened "without creating a
\* missing one".
QueryCreatesNothing == command = "query" => ~ created

\* The first two together, for the proofs and the runs.
ConfigurationIsWhole == LoadedIsOneVersion /\ CreatedOnlyWhenConfigured
==============================================================================
