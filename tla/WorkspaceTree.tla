----------------------------- MODULE WorkspaceTree -----------------------------
(***************************************************************************)
(* The directories below the workspace root, what the boundary sees of     *)
(* them (adapters/tools/workspace_boundary.py) and the listing that        *)
(* workspace.list and workspace.search share: the names are read, every    *)
(* entry is inspected at a moment of its own, and the identity of the      *)
(* directory is compared at the end, while the user changes the tree.      *)
(*                                                                         *)
(* A path is a number: their order is the order of the portable paths, in  *)
(* which "a" < "a.b" < "a/x".  0 is the root.  What the boundary does not  *)
(* follow - links, special files, hard links, protected names - is         *)
(* "blocked".  A directory has a new birth, its inode, when it is made.    *)
(***************************************************************************)
EXTENDS Naturals, Sequences, FiniteSets

CONSTANTS
  Path,
  Parent,    \* the directory a path lies in
  Contents,  \* what a file may hold
  FirstTree, \* the trees the user starts from
  MaxChanges,
  MAX_DIRECTORY_ENTRIES

ASSUME PathAssumption == Path \subseteq Nat \ {0} /\ Parent \in [Path -> Path \cup {0}]

\* a portable path comes after the path of its directory
ASSUME ParentAssumption == \A p \in Path : Parent[p] < p

ASSUME EntriesAssumption == MAX_DIRECTORY_ENTRIES \in Nat

VARIABLES
  tree,     \* what is at each path, given that its directory is there
  changes,  \* the user's changes so far
  pc, late, \* of the call: where it is, whether the deadline has passed
  scan,     \* the listing: its directory, the names still to inspect, the entries
  steady    \* history: whether nothing changed since the client began

treeVars == <<tree, changes>>

NoContent == [bytes |-> 0, body |-> "text", hits |-> << >>]
Entry == [kind : {"file", "directory", "blocked", "absent"},
          content : Contents \cup {NoContent}, birth : Nat]
NoScan == [dir |-> 0, birth |-> 0, names |-> {}, seen |-> << >>]

Children(d) == {p \in Path : Parent[p] = d}

\* the directories above a path
Above ==
  LET above[p \in Path] == IF Parent[p] = 0 THEN {} ELSE {Parent[p]} \cup above[Parent[p]]
  IN  above

\* what os.stat(follow_symlinks=False) finds: nothing where a directory is missing
Lstat(p) == IF \A d \in Above[p] : tree[d].kind = "directory" THEN tree[p].kind ELSE "absent"

BirthOf(d) == IF d = 0 THEN 0 ELSE tree[d].birth

\* _resolve_existing goes down segment by segment; "none" when all is well
Denial(p, expected) ==
  LET bad == {d \in Above[p] : tree[d].kind # "directory"}
      first == IF bad = {} THEN p ELSE CHOOSE d \in bad : \A other \in bad : d <= other
      kind == tree[first].kind
  IN  CASE kind = "absent" -> "not found"
        [] kind = "blocked" -> "denied"
        [] first = p /\ kind = expected -> "none"
        [] OTHER -> "wrong type"

TreeInit == tree \in FirstTree /\ changes = 0 /\ scan = NoScan /\ steady = FALSE

\* the user writes, creates, replaces, links or removes something
Change ==
  /\ changes < MaxChanges
  /\ changes' = changes + 1
  /\ steady' = FALSE
  /\ \E p \in Path : \E e \in [kind : {"directory", "blocked", "absent"}, content : {NoContent}]
                              \cup [kind : {"file"}, content : Contents] :
       tree' = [tree EXCEPT ![p] = [kind |-> e.kind, content |-> e.content, birth |-> changes + 1]]

-----------------------------------------------------------------------------
(* list_directory *)

\* what has just been created need not be among the names the iterator yields
ScanOf(d) ==
  [dir |-> d, birth |-> BirthOf(d), names |-> {p \in Children(d) : Lstat(p) # "absent"},
   seen |-> << >>]

\* the iterator yields the names in no order
Inspected(p) ==
  [scan EXCEPT !.names = @ \ {p},
               !.seen = Append(@, [path |-> p, kind |-> Lstat(p)])]

\* why the next entry stops the listing
ScanFault(p) ==
  IF late THEN "timeout"
  ELSE IF Len(scan.seen) >= MAX_DIRECTORY_ENTRIES THEN "limit"
  ELSE IF Lstat(p) = "absent" THEN "not found" ELSE "none"

\* the directory's path still leads to the directory that was resolved
EndFault ==
  IF scan.dir = 0 THEN "none"
  ELSE IF Lstat(scan.dir) = "absent" THEN "not found"
  ELSE IF Lstat(scan.dir) # "directory" \/ BirthOf(scan.dir) # scan.birth THEN "denied" ELSE "none"

Elements(s) == {s[i] : i \in 1 .. Len(s)}
InPathOrder(s) == \A i, j \in 1 .. Len(s) : i < j => s[i].path < s[j].path

\* sorted(entries, key=path): no two entries have the same path
SortedByPath(all) ==
  CHOOSE s \in [1 .. Cardinality(all) -> all] : InPathOrder(s) /\ Elements(s) = all

Entries == SortedByPath(Elements(scan.seen))

TreeTypeOK ==
  /\ tree \in [Path -> Entry]
  /\ changes \in 0 .. MaxChanges
  /\ scan.dir \in Path \cup {0} /\ scan.names \subseteq Children(scan.dir)
  /\ Len(scan.seen) <= MAX_DIRECTORY_ENTRIES
  /\ late \in BOOLEAN /\ steady \in BOOLEAN
==============================================================================
