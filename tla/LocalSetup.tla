------------------------------- MODULE LocalSetup -------------------------------
(***************************************************************************)
(* `bearagent init` (local_setup.py): several processes create what is     *)
(* missing below data/, each file with O_EXCL and its content after that,  *)
(* beside a user who makes and edits files of his own.  Any process dies   *)
(* or fails between the two.                                               *)
(*                                                                         *)
(* A file holds its template, what the user put there, or less than it     *)
(* should ("partial": the text reaches the file when the handle closes);   *)
(* "other" is a link, a junction or anything else that is not ordinary.    *)
(* The user edits no file in the moment a process is creating it.          *)
(***************************************************************************)
EXTENDS Naturals, Sequences

CONSTANTS
  Processes,
  None

Templates == <<".gitignore", "config.json", "p1-run-profile.json">>
Paths == {Templates[i] : i \in DOMAIN Templates}
Ordinary == {"partial", "template", "user"}

VARIABLES
  directory,  \* data/ itself: "absent", "ordinary" or "other"
  file,       \* Path |-> what is there
  creator,    \* Path |-> the process whose O_EXCL made it, or None
  pc,
  at,         \* which template the process is at
  created,    \* its `created` list
  outcome

vars == <<directory, file, creator, pc, at, created, outcome>>

Init ==
  /\ directory \in {"absent", "ordinary", "other"}
  /\ file = [f \in Paths |-> "absent"]
  /\ creator = [f \in Paths |-> None]
  /\ pc = [p \in Processes |-> "idle"]
  /\ at = [p \in Processes |-> 1]
  /\ created = [p \in Processes |-> {}]
  /\ outcome = [p \in Processes |-> "none"]

Goto(p, label) == pc' = [pc EXCEPT ![p] = label]

Ends(p, result) ==
  /\ Goto(p, "idle")
  /\ outcome' = [outcome EXCEPT ![p] = result]
  /\ UNCHANGED at

\* the next template, or the return
Advance(p) ==
  IF at[p] = Len(Templates) THEN Ends(p, "ok")
  ELSE /\ at' = [at EXCEPT ![p] = @ + 1]
       /\ Goto(p, "create")
       /\ UNCHANGED outcome

Start(p) ==
  /\ pc[p] = "idle"
  /\ Goto(p, "mkdir")
  /\ at' = [at EXCEPT ![p] = 1]
  /\ created' = [created EXCEPT ![p] = {}]
  /\ outcome' = [outcome EXCEPT ![p] = "none"]
  /\ UNCHANGED <<directory, file, creator>>

\* directory.mkdir(exist_ok=True), _require_ordinary
MakeDirectory(p) ==
  /\ pc[p] = "mkdir"
  /\ directory' = IF directory = "absent" THEN "ordinary" ELSE directory
  /\ IF directory = "other" THEN Ends(p, "error") ELSE Goto(p, "create") /\ UNCHANGED <<at, outcome>>
  /\ UNCHANGED <<file, creator, created>>

\* _require_ordinary(path) of a file that was there already
KeepsExisting(f) == file[f] \in Ordinary

\* os.open(O_WRONLY | O_CREAT | O_EXCL)
Exclusive(f) == file[f] = "absent"

\* _require_ordinary(directory), then the file is created, kept or refused
Create(p) ==
  /\ pc[p] = "create"
  /\ LET f == Templates[at[p]]
     IN  CASE directory # "ordinary" -> Ends(p, "error") /\ UNCHANGED <<file, creator>>
           [] directory = "ordinary" /\ Exclusive(f) ->
                /\ file' = [file EXCEPT ![f] = "partial"]
                /\ creator' = [creator EXCEPT ![f] = p]
                /\ Goto(p, "write")
                /\ UNCHANGED <<at, outcome>>
           [] OTHER ->
                /\ IF KeepsExisting(f) THEN Advance(p) ELSE Ends(p, "error")
                /\ UNCHANGED <<file, creator>>
  /\ UNCHANGED <<directory, created>>

\* handle.write or the close raises: disk full
WriteFails(p) ==
  /\ pc[p] = "write"
  /\ Ends(p, "error")
  /\ UNCHANGED <<directory, file, creator, created>>

\* handle.write, close, created.append
Write(p) ==
  /\ pc[p] = "write"
  /\ LET f == Templates[at[p]]
     IN  /\ file' = [file EXCEPT ![f] = "template"]
         /\ created' = [created EXCEPT ![p] = @ \cup {f}]
  /\ Advance(p)
  /\ UNCHANGED <<directory, creator>>

\* os.open raises anything but FileExistsError
OpenFails(p) ==
  /\ pc[p] = "create"
  /\ Ends(p, "error")
  /\ UNCHANGED <<directory, file, creator, created>>

Crash(p) ==
  /\ pc[p] # "idle"
  /\ Goto(p, "idle")
  /\ UNCHANGED <<directory, file, creator, at, created, outcome>>

-----------------------------------------------------------------------------
(* The user *)

Untouched(f) == \A p \in Processes : ~ (pc[p] = "write" /\ Templates[at[p]] = f)

UserEdits(f) ==
  /\ directory = "ordinary"
  /\ file[f] \in {"absent", "partial", "template"} /\ Untouched(f)
  /\ \E what \in {"user", "other"} :
       /\ what = "other" => file[f] = "absent"
       /\ file' = [file EXCEPT ![f] = what]
  /\ UNCHANGED <<directory, creator, pc, at, created, outcome>>

UserLinks ==
  /\ directory = "absent"
  /\ directory' = "other"
  /\ UNCHANGED <<file, creator, pc, at, created, outcome>>

Setup(p) == Start(p) \/ MakeDirectory(p) \/ Create(p) \/ Write(p)

Next ==
  \/ \E p \in Processes : Setup(p) \/ WriteFails(p) \/ OpenFails(p) \/ Crash(p)
  \/ \E f \in Paths : UserEdits(f)
  \/ UserLinks

Spec == Init /\ [][Next]_vars

-----------------------------------------------------------------------------
(* Properties *)

\* Type correctness; whoever is about to write has the file to itself: it
\* created it, and nothing has been put there since.
TypeOK ==
  /\ directory \in {"absent", "ordinary", "other"}
  /\ file \in [Paths -> Ordinary \cup {"absent", "other"}]
  /\ creator \in [Paths -> Processes \cup {None}]
  /\ pc \in [Processes -> {"idle", "mkdir", "create", "write"}]
  /\ at \in [Processes -> DOMAIN Templates]
  /\ created \in [Processes -> SUBSET Paths]
  /\ outcome \in [Processes -> {"none", "ok", "error"}]
  /\ \A p \in Processes : pc[p] = "write" =>
       file[Templates[at[p]]] = "partial" /\ creator[Templates[at[p]]] = p

\* F-0020: no step of init replaces a file.  What the user made, what a process
\* completed and what is not ordinary stays, whoever runs init, however often
\* and however many at once; only the user changes it.
OverwritesNothing ==
  \A f \in Paths : file[f] \in {"template", "user", "other"} => file'[f] \in {file[f], "user"}

\* A path that init reports as created was created by this very process, and
\* is complete.
ReportedIsComplete ==
  \A p \in Processes : outcome[p] = "ok" =>
    \A f \in created[p] : creator[f] = p /\ file[f] \in {"template", "user"}

\* init returns only when every path is an ordinary file of an ordinary
\* directory, whatever appeared there while it ran.
OkMeansOrdinary ==
  \A p \in Processes : outcome[p] = "ok" =>
    directory = "ordinary" /\ \A f \in Paths : file[f] \in Ordinary

\* docs/architecture/overview.md says that init establishes the missing config,
\* profile and ignore rules: when it has returned and nobody is still at it, no
\* template is half there.
OkMeansComplete ==
  (\A p \in Processes : pc[p] = "idle") =>
    \A p \in Processes : outcome[p] = "ok" => \A f \in Paths : file[f] # "partial"

\* What every step of init and of the user keeps, for the proofs and the runs.
ConfigurationIsWhole ==
  /\ (TypeOK /\ ReportedIsComplete /\ OkMeansOrdinary)'
  /\ OverwritesNothing
==============================================================================
