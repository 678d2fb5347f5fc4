---------------------------- MODULE WorkspaceSearch ----------------------------
(***************************************************************************)
(* workspace.search (adapters/tools/workspace_search.py, _search): the     *)
(* entries still to visit lie in a heap; directories are listed when their *)
(* turn comes, files are sized, read and searched, and four limits cut the *)
(* search short or make it leave something out.  Other users change the    *)
(* tree meanwhile.  That a file is read in one version is shown in         *)
(* WorkspaceRead, so that the read is one step here.                       *)
(***************************************************************************)
EXTENDS WorkspaceTree

CONSTANTS
  Results,   \* max_results of a request
  MAX_SEARCH_DEPTH, MAX_SEARCH_FILES, MAX_SEARCH_TOTAL_BYTES, MAX_TEXT_FILE_BYTES

\* A line matches once; the root is searched.
ASSUME SearchAssumption ==
  /\ Contents \subseteq [bytes : Nat, body : {"text", "binary", "long line"}, hits : Seq(Nat)]
  /\ \A c \in Contents : \A i, j \in 1 .. Len(c.hits) : i < j => c.hits[i] < c.hits[j]
  /\ FirstTree \subseteq [Path -> Entry] /\ MaxChanges \in Nat
  /\ Results \subseteq Nat \ {0} /\ MAX_SEARCH_DEPTH \in Nat \ {0}
  /\ {MAX_SEARCH_FILES, MAX_SEARCH_TOTAL_BYTES, MAX_TEXT_FILE_BYTES} \subseteq Nat

VARIABLES
  max_results,
  pending,        \* the heap; a path is in it once
  entry,          \* the entry at hand
  matches,        \* <<path, line>>
  scanned_files, scanned_bytes,
  size,           \* file_size of the entry
  limit_reason,
  moved,          \* whether the file changed, or its path, since the size was taken
  code,           \* of the result
  stop            \* history: the limit that ended the loop

counts == <<scanned_files, scanned_bytes>>
request == <<max_results, late>>
vars == <<treeVars, pc, scan, steady, request, pending, entry, matches, counts, size,
          limit_reason, moved, code, stop>>

NoEntry == [path |-> 0, kind |-> "absent"]
Smaller(a, b) == IF a < b THEN a ELSE b

Init ==
  /\ TreeInit
  /\ pc = "idle" /\ late = FALSE /\ max_results \in Results
  /\ pending = {} /\ entry = NoEntry /\ matches = << >>
  /\ scanned_files = 0 /\ scanned_bytes = 0 /\ size = 0
  /\ limit_reason = "none" /\ moved = FALSE /\ code = "none" /\ stop = "none"

UserChanges ==
  /\ Change
  /\ moved' = (pc = "read" /\ (moved \/ \E p \in {entry.path} \cup Above[entry.path] : tree'[p] # tree[p]))
  /\ UNCHANGED <<pc, scan, request, pending, entry, matches, counts, size, limit_reason, code, stop>>

\* list_directory(arguments.path): the root is taken as it was configured
Start ==
  /\ pc = "idle" /\ code = "none"
  /\ pc' = "scan" /\ scan' = ScanOf(0) /\ steady' = TRUE
  /\ UNCHANGED <<treeVars, request, pending, entry, matches, counts, size, limit_reason, moved, code, stop>>

Elapse ==
  /\ pc # "idle" /\ ~ late
  /\ late' = TRUE
  /\ UNCHANGED <<treeVars, pc, scan, steady, max_results, pending, entry, matches, counts, size,
                 limit_reason, moved, code, stop>>

\* boundary_failure: what was found is lost
Fails(error) ==
  /\ code' = error
  /\ pc' = "idle" /\ scan' = NoScan /\ pending' = {} /\ entry' = NoEntry /\ matches' = << >>
  /\ UNCHANGED <<treeVars, steady, request, counts, size, limit_reason, moved, stop>>

\* `limit_reason or ...`: the first reason is kept
Because(reason) == limit_reason' = IF limit_reason = "none" THEN reason ELSE limit_reason

\* the result is built; what is pending is dropped
Returns ==
  /\ code' = "ok"
  /\ pc' = "idle" /\ pending' = {} /\ entry' = NoEntry
  /\ UNCHANGED <<treeVars, scan, steady, request, size, moved>>

-----------------------------------------------------------------------------
(* A listing *)

Inspect ==
  /\ pc = "scan"
  /\ \E p \in scan.names :
       IF ScanFault(p) # "none" THEN Fails(ScanFault(p))
       ELSE /\ scan' = Inspected(p)
            /\ UNCHANGED <<treeVars, pc, steady, request, pending, entry, matches, counts, size,
                           limit_reason, moved, code, stop>>

Push ==
  /\ pc = "scan" /\ scan.names = {}
  /\ IF EndFault # "none" THEN Fails(EndFault)
     ELSE /\ pending' = pending \cup Elements(Entries)
          /\ pc' = "loop" /\ scan' = NoScan
          /\ UNCHANGED <<treeVars, steady, request, entry, matches, counts, size, limit_reason,
                         moved, code, stop>>

-----------------------------------------------------------------------------
(* The loop *)

\* mutant: a stack, the entries of the deepest directory first
IsNext_Deepest(e) ==
  /\ e \in pending
  /\ \A other \in pending : /\ Cardinality(Above[other.path]) <= Cardinality(Above[e.path])
                            /\ Parent[other.path] = Parent[e.path] => e.path <= other.path

\* heapq.heappop
IsNext(e) == e \in pending /\ \A other \in pending : e.path <= other.path

Exhausted ==
  /\ pc = "loop" /\ pending = {}
  /\ Returns
  /\ UNCHANGED <<matches, counts, limit_reason, stop>>

TimesOut ==
  /\ pc = "loop" /\ pending # {} /\ late
  /\ Fails("timeout")

\* one entry is taken off the heap
Pops(kind) ==
  /\ pc = "loop" /\ ~ late
  /\ \E e \in pending : IsNext(e) /\ e.kind = kind /\ entry' = e /\ pending' = pending \ {e}
  /\ UNCHANGED <<treeVars, steady, request, matches, size, moved>>

SkipBlocked ==
  /\ Pops("blocked")
  /\ UNCHANGED <<pc, scan, counts, limit_reason, code, stop>>

Depth(p) == Cardinality(Above[p]) + 1

Descend ==
  /\ Pops("directory")
  /\ LET d == entry'.path
     IN  IF Depth(d) >= MAX_SEARCH_DEPTH
         THEN Because("max_depth") /\ UNCHANGED <<pc, scan, code>>
         ELSE /\ pc' = "list"
              /\ UNCHANGED <<scan, limit_reason, code>>
  /\ UNCHANGED <<counts, stop>>

\* list_directory of a directory found on the way
List ==
  /\ pc = "list"
  /\ LET fault == Denial(entry.path, "directory")
     IN  IF fault # "none" THEN Fails(fault)
         ELSE /\ pc' = "scan" /\ scan' = ScanOf(entry.path)
              /\ UNCHANGED <<treeVars, steady, request, pending, entry, matches, counts, size,
                             limit_reason, moved, code, stop>>

\* break: one of the limits ends the loop
Breaks(reason) ==
  /\ stop' = reason
  /\ Because(reason)
  /\ Returns
  /\ UNCHANGED <<matches, counts>>

TooManyFiles ==
  /\ pc = "loop" /\ ~ late /\ scanned_files >= MAX_SEARCH_FILES
  /\ \E e \in pending : IsNext(e) /\ e.kind = "file"
  /\ Breaks("max_files")

TakeFile ==
  /\ scanned_files < MAX_SEARCH_FILES
  /\ Pops("file")
  /\ pc' = "size"
  /\ UNCHANGED <<scan, counts, limit_reason, code, stop>>

\* a file is passed over; the search goes on
Skips(bytes) ==
  /\ scanned_bytes' = scanned_bytes + bytes
  /\ pc' = "loop"
  /\ UNCHANGED <<treeVars, scan, steady, request, pending, entry, matches, size, moved, code, stop>>

\* file_size, and the limits that are tested with it
Size ==
  /\ pc = "size"
  /\ LET fault == Denial(entry.path, "file")
         bytes == tree[entry.path].content.bytes
     IN  IF fault # "none" THEN Fails(fault)
         ELSE IF scanned_bytes + bytes > MAX_SEARCH_TOTAL_BYTES THEN Breaks("max_total_bytes")
         ELSE /\ scanned_files' = scanned_files + 1
              /\ IF bytes > MAX_TEXT_FILE_BYTES THEN Because("file_limit") /\ Skips(0)
                 ELSE /\ size' = bytes /\ pc' = "read" /\ moved' = FALSE
                      /\ UNCHANGED <<treeVars, scan, steady, request, pending, entry, matches,
                                     scanned_bytes, limit_reason, code, stop>>

\* max_file_bytes
MostBytes == Smaller(MAX_TEXT_FILE_BYTES, MAX_SEARCH_TOTAL_BYTES - scanned_bytes)

\* what becomes of read_utf8_file
ReadFault ==
  LET fault == Denial(entry.path, "file")
      content == tree[entry.path].content
  IN  IF fault # "none" THEN fault
      ELSE IF content.bytes > MostBytes THEN "limit"
      ELSE IF late THEN "timeout"
      ELSE IF content.body = "long line" THEN "limit"
      ELSE IF content.body = "binary" THEN "not text" ELSE "none"

\* the file changes between its inspection and its last line
ReadIsDisturbed ==
  /\ pc = "read" /\ moved
  /\ Fails("denied")

NotText == Skips(size) /\ UNCHANGED <<scanned_files, limit_reason>>

\* a file over a limit ends the search when the total is nearly used up
OverLimit ==
  IF MAX_SEARCH_TOTAL_BYTES - scanned_bytes < MAX_TEXT_FILE_BYTES THEN Breaks("max_total_bytes")
  ELSE /\ Because("file_limit")
       /\ Skips(size)
       /\ UNCHANGED scanned_files

Found(p) == [i \in 1 .. Len(tree[p].content.hits) |-> <<p, tree[p].content.hits[i]>>]

\* the lines that match, until there are max_results
Matches ==
  LET all == matches \o Found(entry.path)
  IN  /\ scanned_bytes' = scanned_bytes + tree[entry.path].content.bytes
      /\ UNCHANGED scanned_files
      /\ IF Len(Found(entry.path)) > 0 /\ Len(all) >= max_results
         THEN /\ matches' = SubSeq(all, 1, max_results)
              /\ stop' = "max_results"
              /\ Because("max_results")
              /\ Returns
         ELSE /\ matches' = all
              /\ pc' = "loop"
              /\ UNCHANGED <<treeVars, scan, steady, request, pending, entry, size, limit_reason,
                             moved, code, stop>>

Read ==
  /\ pc = "read"
  /\ CASE ReadFault = "none" -> Matches
       [] ReadFault = "limit" -> OverLimit
       [] ReadFault = "not text" -> NotText
       [] OTHER -> Fails(ReadFault)

Searching ==
  \/ Start \/ Inspect \/ Push
  \/ Exhausted \/ TimesOut \/ SkipBlocked \/ Descend \/ List \/ TooManyFiles
  \/ TakeFile \/ Size \/ ReadIsDisturbed \/ Read

Next == UserChanges \/ Elapse \/ Searching

Spec == Init /\ [][Next]_vars

-----------------------------------------------------------------------------
(* Properties *)

\* Type correctness; the counts keep to their limits, also when a file grows
\* between the moment it is sized and the moment it is read.
TypeOK ==
  /\ TreeTypeOK
  /\ pc \in {"idle", "scan", "loop", "list", "size", "read"}
  /\ pending \subseteq [path : Path, kind : {"file", "directory", "blocked"}]
  /\ scanned_files \in 0 .. MAX_SEARCH_FILES
  /\ scanned_bytes \in 0 .. MAX_SEARCH_TOTAL_BYTES
  /\ Len(matches) <= max_results
  /\ limit_reason \in {"none", "max_results", "max_files", "max_total_bytes", "max_depth", "file_limit"}

Before(m, n) == m[1] < n[1] \/ (m[1] = n[1] /\ m[2] < n[2])

\* The matches are in the order of portable paths and lines over the whole
\* tree, not directory by directory, whatever the tree becomes meanwhile.
MatchesInOrder == \A i, j \in 1 .. Len(matches) : i < j => Before(matches[i], matches[j])

Searchable(p) ==
  /\ Lstat(p) = "file" /\ tree[p].content.body = "text"
  /\ tree[p].content.bytes <= MAX_TEXT_FILE_BYTES
  /\ Depth(p) <= MAX_SEARCH_DEPTH

Hits(p) == Elements(Found(p))
AllHits == UNION {Hits(p) : p \in {q \in Path : Searchable(q)}}

\* A search that says nothing was left out has found everything: in a tree
\* that stays as it is, every match of every text file.
UntruncatedIsComplete ==
  code = "ok" /\ limit_reason = "none" /\ steady => Elements(matches) = AllHits

\* Where the limit ended the search, the answer is a prefix of the whole: no
\* match before its last one is missing.
TruncatedIsAPrefix ==
  code = "ok" /\ steady /\ limit_reason = stop =>
    \A m \in AllHits \ Elements(matches) : \A i \in 1 .. Len(matches) : Before(matches[i], m)

\* The result is the whole or its beginning, in order, within all limits.
ResultsAreAPrefix == TypeOK /\ MatchesInOrder /\ UntruncatedIsComplete /\ TruncatedIsAPrefix

\* F-0007: limit_reason says why the search stopped.
ReasonIsWhyItStopped == code = "ok" /\ stop # "none" => limit_reason = stop
==============================================================================
