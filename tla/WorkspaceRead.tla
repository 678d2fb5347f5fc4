----------------------------- MODULE WorkspaceRead -----------------------------
(***************************************************************************)
(* workspace.read (adapters/tools/workspace_read.py) with the reader it    *)
(* shares with workspace.search (workspace_text.py) and the open of the    *)
(* boundary (workspace_boundary.py): a file is inspected, opened, verified *)
(* and read line by line, while the user edits it in place, replaces it,   *)
(* links it and takes it away.  A client follows next_start_line.          *)
(*                                                                         *)
(* Every change of a file moves its time stamp; an inode number may be     *)
(* given to a new file as soon as no open handle holds it.  `birth` tells  *)
(* the files apart that bore the same number: the code cannot see it.      *)
(***************************************************************************)
EXTENDS Naturals, Sequences

CONSTANTS
  Inodes,
  Contents,     \* what a file may hold: sequences of Line
  PageLengths,  \* max_lines of a request, at least 1
  MaxChanges,   \* bound of what the user does
  MAX_TEXT_FILE_BYTES, MAX_TEXT_LINE_BYTES,
  MAX_READ_TEXT_BYTES,  \* a page has room for the longest line (workspace_limits.py)
  None

Line == [id : Nat, bytes : Nat \ {0}, text : BOOLEAN]

Kinds == {"file", "link", "directory", "absent"}
Node == [content : Contents, stamp : Nat, links : {1, 2}, birth : Nat]

VARIABLES
  path,     \* what the requested name is: its kind, and the inode it leads to
  node,     \* the inodes
  changes,  \* the user's changes so far, which are also the clock of the stamps
  pc,
  request,  \* start_line and max_lines
  checked,  \* the lstat of the resolution
  handle,   \* the inode that is open, or None
  before,   \* the fstat before the first line
  lines,    \* the lines read so far, and the file they came from
  late,     \* whether the deadline has passed
  reply,    \* the result, or the error code
  got,      \* what the client put together from its pages
  steady,   \* history: whether the file stayed as it was since the client began
  resolved  \* history: the birth of the file that was resolved

world == <<path, node, changes>>
call == <<pc, request, checked, handle, before, lines, late, reply>>
vars == <<world, call, got, steady, resolved>>

NoReply == [code |-> "none", text |-> << >>, next |-> 0]
NoStat == [kind |-> "absent", inode |-> None, bytes |-> 0, stamp |-> 0, links |-> 0]

Bytes(s) ==
  LET sum[k \in 0 .. Len(s)] == IF k = 0 THEN 0 ELSE sum[k - 1] + s[k].bytes
  IN  sum[Len(s)]

StatOf(kind, i) ==
  [kind |-> kind, inode |-> i, bytes |-> Bytes(node[i].content), stamp |-> node[i].stamp,
   links |-> node[i].links]
Lstat == IF path.kind \in {"file", "link"} THEN StatOf(path.kind, path.inode)
         ELSE [NoStat EXCEPT !.kind = path.kind]
Fstat(i) == StatOf("file", i)

Init ==
  /\ \E i \in Inodes : path = [kind |-> "file", inode |-> i]
  /\ \E c \in Contents : node = [i \in Inodes |-> [content |-> c, stamp |-> 0, links |-> 1, birth |-> 0]]
  /\ changes = 0
  /\ pc = "idle" /\ request = [start |-> 1, lines |-> 1]
  /\ checked = NoStat /\ handle = None /\ before = NoStat
  /\ lines = << >> /\ late = FALSE
  /\ reply = NoReply
  /\ got = << >> /\ steady = FALSE /\ resolved = 0

-----------------------------------------------------------------------------
(* The user *)

Changes ==
  /\ changes < MaxChanges
  /\ changes' = changes + 1
  /\ steady' = FALSE
  /\ UNCHANGED <<call, got, resolved>>

\* writing into the file that is there; also through another name of it
Edit ==
  \E i \in Inodes : \E c \in Contents :
    /\ node' = [node EXCEPT ![i].content = c, ![i].stamp = changes + 1]
    /\ UNCHANGED path
    /\ Changes

\* a new file takes the name, perhaps with the inode number of the old one
Replace ==
  \E i \in Inodes \ {handle} : \E c \in Contents :
    /\ node' = [node EXCEPT ![i] = [content |-> c, stamp |-> changes + 1, links |-> 1,
                                    birth |-> changes + 1]]
    /\ path' = [kind |-> "file", inode |-> i]
    /\ Changes

\* the name becomes a link to some file, a directory, or nothing
Retype ==
  \E what \in {"link", "directory", "absent"} : \E i \in Inodes :
    /\ path' = [kind |-> what, inode |-> i]
    /\ UNCHANGED node
    /\ Changes

\* a second name for the file
Hardlink ==
  /\ path.kind = "file" /\ node[path.inode].links = 1
  /\ node' = [node EXCEPT ![path.inode].links = 2]
  /\ UNCHANGED path
  /\ Changes

-----------------------------------------------------------------------------
(* The call *)

\* the client starts anew, or goes on where the last page said
Ask ==
  /\ pc = "idle"
  /\ \E n \in PageLengths :
       \/ /\ request' = [start |-> 1, lines |-> n]
          /\ got' = << >> /\ steady' = TRUE
       \/ /\ reply.code = "ok" /\ reply.next # None
          /\ request' = [start |-> reply.next, lines |-> n]
          /\ UNCHANGED <<got, steady>>
  /\ pc' = "resolve"
  /\ reply' = NoReply /\ late' = FALSE
  /\ UNCHANGED <<world, checked, handle, before, lines, resolved>>

Elapse ==
  /\ pc # "idle" /\ ~ late
  /\ late' = TRUE
  /\ UNCHANGED <<world, pc, request, checked, handle, before, lines, reply, got, steady, resolved>>

\* the handle is closed and the error becomes the result
Fails(code) ==
  /\ pc' = "idle"
  /\ reply' = [NoReply EXCEPT !.code = code]
  /\ checked' = NoStat /\ handle' = None /\ before' = NoStat /\ lines' = << >>
  /\ UNCHANGED <<world, request, late, got, steady, resolved>>

\* _resolve_existing: an ordinary file, and no other name for it
Resolve ==
  /\ pc = "resolve"
  /\ CASE Lstat.kind = "absent" -> Fails("not found")
       [] Lstat.kind = "directory" -> Fails("wrong type")
       [] Lstat.kind = "link" -> Fails("denied")
       [] OTHER ->
            IF Lstat.links # 1 THEN Fails("denied")
            ELSE /\ pc' = "open"
                 /\ checked' = Lstat
                 /\ resolved' = node[path.inode].birth
                 /\ UNCHANGED <<world, request, handle, before, lines, late, reply, got, steady>>

\* path.open("rb") follows whatever is there now
Open ==
  /\ pc = "open"
  /\ CASE path.kind = "absent" -> Fails("not found")
       [] path.kind = "directory" -> Fails("failed")
       [] OTHER ->
            /\ handle' = path.inode
            /\ pc' = "verify"
            /\ UNCHANGED <<world, request, checked, before, lines, late, reply, got, steady, resolved>>

\* _same_open_file_snapshot, _same_path_file_snapshot
Same(expected, observed) == expected = observed

\* what was opened and what the name is now are both what was resolved
Verify ==
  /\ pc = "verify"
  /\ IF Lstat.kind = "absent" THEN Fails("not found")
     ELSE IF Lstat.kind = "link" \/ ~ Same(checked, Fstat(handle)) \/ ~ Same(checked, Lstat)
     THEN Fails("denied")
     ELSE /\ pc' = "before"
          /\ UNCHANGED <<world, request, checked, handle, before, lines, late, reply, got, steady, resolved>>

\* os.fstat before the first line
Before ==
  /\ pc = "before"
  /\ IF Fstat(handle).bytes > MAX_TEXT_FILE_BYTES THEN Fails("limit")
     ELSE /\ before' = Fstat(handle)
          /\ pc' = "read"
          /\ UNCHANGED <<world, request, checked, handle, lines, late, reply, got, steady, resolved>>

TooMuch(line) ==
  Bytes(lines) + line.bytes > MAX_TEXT_FILE_BYTES \/ line.bytes > MAX_TEXT_LINE_BYTES

\* the next line of what the open file holds by now
ReadLine ==
  /\ pc = "read"
  /\ Len(lines) < Len(node[handle].content)
  /\ LET line == node[handle].content[Len(lines) + 1]
     IN  IF late THEN Fails("timeout")
         ELSE IF TooMuch(line) THEN Fails("limit")
         ELSE IF ~ line.text THEN Fails("not text")
         ELSE /\ lines' = Append(lines, line)
              /\ UNCHANGED <<world, pc, request, checked, handle, before, late, reply, got, steady, resolved>>

\* the lines of the page: complete lines, as many as asked for and as fit
Fitting(all, start, n) ==
  LET Fits(k) == k <= n /\ start + k - 1 <= Len(all)
                 /\ Bytes(SubSeq(all, start, start + k - 1)) <= MAX_READ_TEXT_BYTES
      count == CHOOSE k \in 0 .. n : Fits(k) /\ (k = n \/ ~ Fits(k + 1))
  IN  IF start > Len(all) THEN << >> ELSE SubSeq(all, start, start + count - 1)

\* mutant: the last line of the page is where the next begins
NextLine_Overlaps(start, page, all) ==
  IF start + Len(page) - 1 < Len(all) THEN start + Len(page) - 1 ELSE None

\* next_start_line
NextLine(start, page, all) ==
  IF start + Len(page) - 1 < Len(all) THEN start + Len(page) ELSE None

\* mutant: the size is compared, not the time
Undisturbed_Size == before.bytes = Fstat(handle).bytes /\ Bytes(lines) = Fstat(handle).bytes

\* the fstat after the last line is the one before the first, and all was read
Undisturbed ==
  /\ before.bytes = Fstat(handle).bytes /\ before.stamp = Fstat(handle).stamp
  /\ Bytes(lines) = Fstat(handle).bytes

Finish ==
  /\ pc = "read"
  /\ Len(lines) >= Len(node[handle].content)
  /\ IF ~ Undisturbed THEN Fails("denied")
     ELSE LET page == Fitting(lines, request.start, request.lines)
          IN  /\ pc' = "idle"
              /\ reply' = [code |-> "ok", text |-> page,
                           next |-> NextLine(request.start, page, lines)]
              /\ got' = got \o page
              /\ checked' = NoStat /\ handle' = None /\ before' = NoStat /\ lines' = << >>
              /\ UNCHANGED <<world, request, late, steady, resolved>>

Reading == Resolve \/ Open \/ Verify \/ Before \/ ReadLine \/ Finish

Next ==
  \/ Edit \/ Replace \/ Retype \/ Hardlink
  \/ Ask \/ Elapse
  \/ Reading

Spec == Init /\ [][Next]_vars

-----------------------------------------------------------------------------
(* Properties *)

\* Type correctness; a handle is open only within a call.
TypeOK ==
  /\ path \in [kind : Kinds, inode : Inodes]
  /\ node \in [Inodes -> Node]
  /\ changes \in 0 .. MaxChanges
  /\ pc \in {"idle", "resolve", "open", "verify", "before", "read"}
  /\ request.start \in Nat /\ request.lines \in PageLengths \cup {1}
  /\ handle \in Inodes \cup {None}
  /\ lines \in Seq(Line) /\ got \in Seq(Line)
  /\ late \in BOOLEAN /\ steady \in BOOLEAN
  /\ reply.code \in {"none", "ok", "not found", "wrong type", "denied", "failed", "limit",
                     "not text", "timeout"}
  /\ pc \in {"verify", "before", "read"} <=> handle # None

\* F-0007: a file that is replaced between its inspection and its opening is
\* not read, not even when it was given the same inode number.
ReadsWhatItChecked == pc \in {"before", "read"} => node[handle].birth = resolved

\* A page is cut from one state of the file: lines of two versions are never
\* put together, whatever is written while they are being read.
OneVersion == pc = "read" /\ pc' = "idle" /\ reply'.code = "ok" => lines = node[handle].content

\* A page that is not the last one has at least one line and fits the output,
\* so that a client that follows next_start_line always comes further.
PagesAdvance ==
  reply.code = "ok" => /\ Bytes(reply.text) <= MAX_READ_TEXT_BYTES
                       /\ reply.next # None => reply.next > request.start

\* Who follows next_start_line through a file nobody touches has read the file:
\* every line once and in order, and all of it when there is no next.
PagesAreTheFile ==
  steady /\ reply.code = "ok" =>
    /\ got = SubSeq(node[path.inode].content, 1, Len(got))
    /\ reply.next = None <=> Len(got) = Len(node[path.inode].content)
==============================================================================
