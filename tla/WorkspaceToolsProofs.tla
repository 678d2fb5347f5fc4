------------------------- MODULE WorkspaceToolsProofs --------------------------
(***************************************************************************)
(* Proofs about the Workspace Tools that read (WorkspaceRead,              *)
(* WorkspaceList and WorkspaceSearch), alone and in the composition of     *)
(* MCWorkspaceTools, for all files, trees and contents, page lengths and   *)
(* limits and any number of changes by the user.                           *)
(***************************************************************************)
EXTENDS MCWorkspaceTools, FiniteSetTheorems, WellFoundedInduction, TLAPS

Content(i) == node[i].content
Opened == {"verify", "before", "read"}
Failures == {"not found", "wrong type", "denied", "failed", "limit", "not text", "timeout"}
Codes == {"none", "ok"} \cup Failures

(***************************************************************************)
(* The world, and what a call holds of it.                                 *)
(***************************************************************************)
ReadTypes ==
  /\ path \in [kind : ReadTool!Kinds, inode : Inodes]
  /\ node \in [Inodes -> [content : Files, stamp : Nat, links : {1, 2}, birth : Nat]]
  /\ changes \in 0 .. ReadChanges
  /\ \A i \in Inodes : node[i].stamp <= changes
  /\ pc \in {"idle", "resolve", "open"} \cup Opened
  /\ asked \in [start : Nat \ {0}, lines : PageLengths \cup {1}]
  /\ handle \in Inodes \cup {None}
  /\ pc \in Opened <=> handle # None
  /\ lines \in Seq(ReadTool!Line) /\ got \in Seq(ReadTool!Line)
  /\ pc # "read" => lines = << >>
  /\ late \in BOOLEAN /\ steady \in BOOLEAN
  /\ reply.code \in Codes

\* As long as a file bears the stamp it was inspected with, it is the file that
\* was resolved; the file that is read is.
CheckedIsResolved ==
  /\ pc \in {"open", "verify"} =>
       /\ checked.inode \in Inodes /\ checked.stamp \in Nat /\ checked.stamp <= changes
       /\ node[checked.inode].stamp = checked.stamp => node[checked.inode].birth = resolved
  /\ ReadTool!ReadsWhatItChecked

\* As long as the open file bears the stamp it had before the first line, the
\* lines are its first ones.
LinesAreItsFirst ==
  pc = "read" =>
    /\ before.stamp \in Nat /\ before.stamp <= changes
    /\ before.stamp = node[handle].stamp =>
         /\ Len(lines) <= Len(Content(handle))
         /\ \A k \in 1 .. Len(lines) : lines[k] = Content(handle)[k]
    /\ \A k \in 1 .. Len(lines) : lines[k].bytes <= MAX_TEXT_LINE_BYTES

\* The pages of a file that nobody touches, and where the next of them begins.
PagesSoFar ==
  steady =>
    /\ Len(got) <= Len(Content(path.inode))
    /\ \A k \in 1 .. Len(got) : got[k] = Content(path.inode)[k]
    /\ pc # "idle" => asked.start = Len(got) + 1
    /\ pc \in Opened => handle = path.inode
    /\ pc = "read" => before.stamp = node[handle].stamp
    /\ reply.code = "ok" =>
         \/ reply.next = None /\ Len(got) = Len(Content(path.inode))
         \/ reply.next = Len(got) + 1 /\ Len(got) < Len(Content(path.inode))

\* What was answered, and that only an idle call has answered.
Answered ==
  /\ pc # "idle" => reply.code = "none"
  /\ reply.code = "ok" =>
       /\ reply.next = None \/ reply.next \in Nat \ {0}
       /\ ReadTool!PagesAdvance

FileInv == ReadTypes /\ CheckedIsResolved /\ LinesAreItsFirst /\ PagesSoFar /\ Answered

-----------------------------------------------------------------------------
(* Of the natural numbers, and of bytes *)

\* The order of the natural numbers, as a relation.
LEMMA NaturalOrder ==
  \E R : IsWellFoundedOn(R, Nat) /\ \A x, y \in Nat : <<x, y>> \in R <=> x < y
<1>1. \A x, y \in Nat : <<x, y>> \in OpToRel(<, Nat) <=> x < y
  BY DEF OpToRel
<1>2. QED
  BY <1>1, NatLessThanWellFounded, Zenon

\* A set of natural numbers has a least one.
LEMMA LeastNatural ==
  ASSUME NEW T, T \subseteq Nat, T # {}
  PROVE  \E x \in T : \A y \in T : x <= y
<1>1. PICK R : IsWellFoundedOn(R, Nat) /\ \A x, y \in Nat : <<x, y>> \in R <=> x < y
  BY NaturalOrder
<1>2. T # {} /\ T \subseteq Nat /\ IsWellFoundedOn(R, Nat)
  BY <1>1
<1>3. \E x \in T : \A y \in T : ~ (<<y, x>> \in R)
  BY ONLY <1>2, WFMin, Zenon
<1>4. PICK x \in T : \A y \in T : ~ (<<y, x>> \in R)
  BY <1>3
<1>5. \A y \in T : y \in Nat /\ (<<y, x>> \in R <=> y < x)
  BY <1>1, <1>4, Zenon
<1>6. \A y \in T : ~ (y < x)
  BY <1>4, <1>5, Zenon
<1>7. QED
  BY <1>5, <1>6

\* The bytes of no line and of one.
LEMMA BytesOfFew ==
  /\ ReadTool!Bytes(<< >>) = 0
  /\ \A line \in ReadTool!Line : ReadTool!Bytes(<<line>>) = line.bytes
<1>1. ReadTool!Bytes(<< >>) = 0
  <2> DEFINE Sums(f) == f = [k \in 0 .. Len(<< >>) |-> IF k = 0 THEN 0 ELSE f[k - 1] + << >>[k].bytes]
             zero == [k \in 0 .. Len(<< >>) |-> 0]
  <2>1. Sums(zero)
    OBVIOUS
  <2>2. Sums(CHOOSE f : Sums(f))
    BY <2>1, Zenon
  <2>3. ReadTool!Bytes(<< >>) = (CHOOSE f : Sums(f))[Len(<< >>)]
    BY Zenon DEF ReadTool!Bytes
  <2> DEFINE sum == CHOOSE f : Sums(f)
  <2> HIDE DEF sum
  <2>4. QED
    BY <2>2, <2>3 DEF sum
<1>2. ASSUME NEW line \in ReadTool!Line
      PROVE  ReadTool!Bytes(<<line>>) = line.bytes
  <2> DEFINE Sums(f) == f = [k \in 0 .. Len(<<line>>) |->
                               IF k = 0 THEN 0 ELSE f[k - 1] + <<line>>[k].bytes]
             one == [k \in 0 .. Len(<<line>>) |-> IF k = 0 THEN 0 ELSE line.bytes]
  <2>1. line.bytes \in Nat
    BY DEF ReadTool!Line
  <2>2. \A k \in 0 .. Len(<<line>>) : k # 0 => k = 1 /\ <<line>>[k] = line /\ k - 1 = 0
    OBVIOUS
  <2>3. Sums(one)
    BY <2>1, <2>2
  <2>4. Sums(CHOOSE f : Sums(f))
    BY <2>3, Zenon
  <2>5. ReadTool!Bytes(<<line>>) = (CHOOSE f : Sums(f))[Len(<<line>>)]
    BY Zenon DEF ReadTool!Bytes
  <2> DEFINE sum == CHOOSE f : Sums(f)
  <2> HIDE DEF sum
  <2>6. Len(<<line>>) = 1 /\ 0 \in 0 .. 1 /\ 1 \in 0 .. 1 /\ <<line>>[1] = line
    OBVIOUS
  <2>7. sum[0] = 0 /\ sum[1] = sum[0] + line.bytes
    <3>1. sum = [k \in 0 .. Len(<<line>>) |-> IF k = 0 THEN 0 ELSE sum[k - 1] + <<line>>[k].bytes]
      BY <2>4, Zenon DEF sum
    <3>2. sum[0] = 0
      BY <2>6, <3>1
    <3>3. sum[1] = sum[1 - 1] + <<line>>[1].bytes
      BY <2>6, <3>1
    <3>4. QED
      BY <2>6, <3>2, <3>3
  <2>8. QED
    BY <2>1, <2>5, <2>6, <2>7 DEF sum
<1>3. QED
  BY <1>1, <1>2

\* The page: as many lines as asked for and as fit, at least one if there is one,
\* for a line is never longer than a page.
LEMMA PageFits ==
  ASSUME NEW all \in Seq(ReadTool!Line), NEW start \in Nat \ {0}, NEW n \in Nat \ {0},
         \A k \in 1 .. Len(all) : all[k].bytes <= MAX_READ_TEXT_BYTES
  PROVE  LET page == ReadTool!Fitting(all, start, n)
         IN  /\ ReadTool!Bytes(page) <= MAX_READ_TEXT_BYTES
             /\ start > Len(all) => page = << >>
             /\ start <= Len(all) =>
                  \E k \in 1 .. n : /\ start + k - 1 <= Len(all)
                                    /\ page = SubSeq(all, start, start + k - 1)
<1> DEFINE Fits(k) == /\ k <= n /\ start + k - 1 <= Len(all)
                      /\ ReadTool!Bytes(SubSeq(all, start, start + k - 1)) <= MAX_READ_TEXT_BYTES
           Last(k) == Fits(k) /\ (k = n \/ ~ Fits(k + 1))
           count == CHOOSE k \in 0 .. n : Last(k)
           page == ReadTool!Fitting(all, start, n)
<1>1. page = IF start > Len(all) THEN << >> ELSE SubSeq(all, start, start + count - 1)
  BY Zenon DEF ReadTool!Fitting
<1>2. CASE start > Len(all)
  BY <1>1, <1>2, BytesOfFew, ReadAssumption
<1>3. CASE start <= Len(all)
  <2>1. Fits(0)
    <3>1. 0 <= n /\ start + 0 - 1 <= Len(all) /\ start + 0 - 1 = start - 1
      BY <1>3
    <3>2. SubSeq(all, start, start - 1) = << >>
      OBVIOUS
    <3>3. ReadTool!Bytes(<< >>) <= MAX_READ_TEXT_BYTES
      BY BytesOfFew, ReadAssumption
    <3>4. QED
      BY <3>1, <3>2, <3>3
  <2>2. Fits(1)
    <3>1. start + 1 - 1 = start /\ start \in 1 .. Len(all) /\ all[start] \in ReadTool!Line
      BY <1>3
    <3>2. SubSeq(all, start, start) = <<all[start]>>
      <4>1. /\ SubSeq(all, start, start) = [i \in 1 .. 1 |-> all[i + start - 1]]
            /\ 1 + start - 1 = start
        BY <3>1
      <4>2. \A i \in 1 .. 1 : i = 1
        OBVIOUS
      <4>3. SubSeq(all, start, start) = [i \in 1 .. 1 |-> all[start]]
        BY <4>1, <4>2
      <4>4. QED
        BY <4>3
    <3>3. ReadTool!Bytes(SubSeq(all, start, start)) <= MAX_READ_TEXT_BYTES
      BY <3>1, <3>2, BytesOfFew
    <3>4. QED
      BY <1>3, <3>1, <3>3
  <2> HIDE DEF Fits
  <2>3. \E k \in 0 .. n : Last(k)
    <3> DEFINE Ends == {k \in 0 .. n : k = n \/ ~ Fits(k + 1)}
    <3>1. n \in Ends /\ Ends \subseteq Nat
      OBVIOUS
    <3>2. PICK k \in Ends : \A m \in Ends : k <= m
      BY <3>1, LeastNatural
    <3>3. CASE k = 0
      BY <2>1, <3>2, <3>3
    <3>4. CASE k # 0
      <4>1. k - 1 \in 0 .. n /\ k - 1 \notin Ends /\ (k - 1) + 1 = k
        BY <3>2, <3>4
      <4>2. QED
        BY <3>2, <4>1
    <3>5. QED
      BY <3>3, <3>4
  <2>4. count \in 0 .. n /\ Last(count)
    BY <2>3, Zenon
  <2> HIDE DEF count
  <2>5. count # 0
    <3>1. ASSUME count = 0
          PROVE  FALSE
      <4>1. 0 # n /\ 0 + 1 = 1
        OBVIOUS
      <4>2. QED
        BY <2>2, <2>4, <3>1, <4>1
    <3>2. QED
      BY <3>1
  <2>6. QED
    BY <1>1, <1>3, <2>4, <2>5 DEF Fits
<1>4. QED
  BY <1>2, <1>3
-----------------------------------------------------------------------------
(* The steps *)

\* What the user's changes leave alone: a file whose stamp did not move is the
\* same, and a file that is open is not replaced.
LEMMA UserMoves ==
  ASSUME FileInv, ReadTool!Edit \/ ReadTool!Replace \/ ReadTool!Retype \/ ReadTool!Hardlink
  PROVE  /\ changes' = changes + 1 /\ changes' \in 0 .. ReadChanges /\ steady' = FALSE
         /\ UNCHANGED <<pc, asked, checked, handle, before, lines, late, reply, got, resolved>>
         /\ path' \in [kind : ReadTool!Kinds, inode : Inodes]
         /\ node' \in [Inodes -> [content : Files, stamp : Nat, links : {1, 2}, birth : Nat]]
         /\ \A i \in Inodes :
              /\ node'[i].stamp \in {node[i].stamp, changes + 1}
              /\ node'[i].stamp = node[i].stamp
                   => node'[i].content = node[i].content /\ node'[i].birth = node[i].birth
              /\ i = handle => node'[i].birth = node[i].birth
<1> USE DEF FileInv, ReadTypes, ReadTool!Changes, ReadTool!call, ReadTool!Kinds
<1>1. /\ changes' = changes + 1 /\ changes' \in 0 .. ReadChanges /\ steady' = FALSE
      /\ UNCHANGED <<pc, asked, checked, handle, before, lines, late, reply, got, resolved>>
  <2>1. /\ changes < ReadChanges /\ changes' = changes + 1 /\ steady' = FALSE
        /\ UNCHANGED <<pc, asked, checked, handle, before, lines, late, reply, got, resolved>>
    BY DEF ReadTool!Edit, ReadTool!Replace, ReadTool!Retype, ReadTool!Hardlink
  <2>2. ReadChanges \in Nat /\ changes \in 0 .. ReadChanges
    BY ReadAssumption
  <2>3. QED
    BY <2>1, <2>2
<1>2. \A i \in Inodes : node[i].stamp # changes + 1
  BY DEF FileInv, ReadTypes
<1>3. CASE ReadTool!Edit
  <2>1. PICK i \in Inodes, c \in Files :
          node' = [node EXCEPT ![i].content = c, ![i].stamp = changes + 1] /\ path' = path
    BY <1>3 DEF ReadTool!Edit
  <2>2. /\ node'[i] = [content |-> c, stamp |-> changes + 1, links |-> node[i].links, birth |-> node[i].birth]
        /\ \A j \in Inodes \ {i} : node'[j] = node[j]
    BY <2>1
  <2>3. QED
    BY <1>1, <1>2, <2>1, <2>2
<1>4. CASE ReadTool!Replace
  <2>1. PICK i \in Inodes \ {handle}, c \in Files :
          /\ node' = [node EXCEPT ![i] = [content |-> c, stamp |-> changes + 1, links |-> 1,
                                          birth |-> changes + 1]]
          /\ path' = [kind |-> "file", inode |-> i]
    BY <1>4 DEF ReadTool!Replace
  <2>2. QED
    BY <1>1, <1>2, <2>1
<1>5. CASE ReadTool!Retype
  BY <1>1, <1>5 DEF ReadTool!Retype
<1>6. CASE ReadTool!Hardlink
  <2>1. node' = [node EXCEPT ![path.inode].links = 2] /\ path' = path /\ path.inode \in Inodes
    BY <1>6 DEF ReadTool!Hardlink
  <2>2. /\ node'[path.inode] = [content |-> node[path.inode].content,
                                stamp |-> node[path.inode].stamp, links |-> 2,
                                birth |-> node[path.inode].birth]
        /\ \A j \in Inodes \ {path.inode} : node'[j] = node[j]
    BY <2>1
  <2>3. QED
    BY <1>1, <2>1, <2>2
<1>7. QED
  BY <1>3, <1>4, <1>5, <1>6

\* The user takes nothing back of what a call relies on.
LEMMA UserKeeps ==
  ASSUME FileInv, ReadTool!Edit \/ ReadTool!Replace \/ ReadTool!Retype \/ ReadTool!Hardlink
  PROVE  FileInv'
<1>1. /\ changes' = changes + 1 /\ changes' \in 0 .. ReadChanges /\ steady' = FALSE
      /\ UNCHANGED <<pc, asked, checked, handle, before, lines, late, reply, got, resolved>>
      /\ path' \in [kind : ReadTool!Kinds, inode : Inodes]
      /\ node' \in [Inodes -> [content : Files, stamp : Nat, links : {1, 2}, birth : Nat]]
      /\ \A i \in Inodes :
           /\ node'[i].stamp \in {node[i].stamp, changes + 1}
           /\ node'[i].stamp = node[i].stamp
                => node'[i].content = node[i].content /\ node'[i].birth = node[i].birth
           /\ i = handle => node'[i].birth = node[i].birth
  BY UserMoves
<1>2. ReadTypes'
  <2>1. changes \in Nat /\ \A i \in Inodes : node[i].stamp <= changes
    BY DEF FileInv, ReadTypes
  <2>2. changes' \in 0 .. ReadChanges /\ \A i \in Inodes : node'[i].stamp <= changes'
    BY <1>1, <2>1
  <2>3. steady' \in BOOLEAN
    BY <1>1
  <2>4. QED
    BY <1>1, <2>2, <2>3, Zenon DEF FileInv, ReadTypes
<1>3. /\ changes \in Nat /\ (pc \in {"before", "read"} => handle \in Inodes)
      /\ CheckedIsResolved /\ LinesAreItsFirst
  BY DEF FileInv, ReadTypes, Opened
<1>4. CheckedIsResolved'
  <2>1. ASSUME pc' \in {"open", "verify"}
        PROVE  /\ checked'.inode \in Inodes /\ checked'.stamp \in Nat /\ checked'.stamp <= changes'
               /\ node'[checked'.inode].stamp = checked'.stamp
                    => node'[checked'.inode].birth = resolved'
    <3>1. /\ checked' = checked /\ resolved' = resolved
          /\ checked.inode \in Inodes /\ checked.stamp \in Nat /\ checked.stamp <= changes
          /\ node[checked.inode].stamp = checked.stamp => node[checked.inode].birth = resolved
      BY <1>1, <1>3, <2>1 DEF CheckedIsResolved
    <3>2. QED
      BY <1>1, <1>3, <3>1
  <2>2. pc' \in {"before", "read"} => node'[handle'].birth = resolved'
    BY <1>1, <1>3 DEF CheckedIsResolved, ReadTool!ReadsWhatItChecked
  <2>3. QED
    BY <2>1, <2>2 DEF CheckedIsResolved, ReadTool!ReadsWhatItChecked
<1>5. LinesAreItsFirst'
  <2>1. SUFFICES ASSUME pc = "read"
                 PROVE  LinesAreItsFirst'
    BY <1>1 DEF LinesAreItsFirst
  <2>2. /\ before.stamp \in Nat /\ before.stamp <= changes
        /\ before.stamp = node'[handle].stamp =>
             before.stamp = node[handle].stamp /\ node'[handle].content = node[handle].content
    BY <1>1, <1>3, <2>1 DEF LinesAreItsFirst
  <2>3. before' = before /\ lines' = lines /\ handle' = handle /\ before.stamp <= changes'
    BY <1>1, <1>3, <2>2
  <2>4. QED
    BY <1>3, <2>1, <2>2, <2>3 DEF LinesAreItsFirst, Content
<1>6. PagesSoFar' /\ Answered'
  BY <1>1 DEF FileInv, PagesSoFar, Answered, ReadTool!PagesAdvance
<1>7. QED
  BY <1>2, <1>4, <1>5, <1>6 DEF FileInv

\* No failure is an answer.
LEMMA FailuresAreNoAnswers ==
  \A failure \in Failures : failure \in Codes /\ failure # "ok"
BY Zenon DEF Failures, Codes

\* A call that ends with an error has read nothing.
LEMMA ReadingFails ==
  ASSUME FileInv, NEW failure \in Failures, ReadTool!Fails(failure)
  PROVE  FileInv'
<1>1. /\ pc' = "idle" /\ reply'.code = failure /\ handle' = None /\ lines' = << >>
      /\ UNCHANGED <<path, node, changes, asked, late, got, steady, resolved>>
  BY DEF ReadTool!Fails, ReadTool!NoReply, ReadTool!world
<1>2. << >> \in Seq(ReadTool!Line)
  OBVIOUS
<1>3. ReadTypes'
  BY <1>1, <1>2, FailuresAreNoAnswers DEF FileInv, ReadTypes, Opened
<1>4. QED
  BY <1>1, <1>3, FailuresAreNoAnswers DEF FileInv, CheckedIsResolved, LinesAreItsFirst, PagesSoFar, Answered, Content,
     Opened, ReadTool!ReadsWhatItChecked

\* The kind of what is at the path.
LEMMA LstatIsOfThePath ==
  ASSUME FileInv
  PROVE  /\ ReadTool!Lstat.kind = path.kind /\ path.kind \in {"file", "link", "directory", "absent"}
         /\ path.kind \in {"file", "link"} => ReadTool!Lstat = ReadTool!StatOf(path.kind, path.inode)
<1>1. path.kind \in {"file", "link", "directory", "absent"}
  BY DEF FileInv, ReadTypes, ReadTool!Kinds
<1>2. QED
  BY <1>1 DEF ReadTool!Lstat, ReadTool!StatOf, ReadTool!NoStat

\* The first steps of a call: the question, the deadline and the opening.
LEMMA CallBegins ==
  ASSUME FileInv,
         \/ ReadTool!Ask \/ ReadTool!Elapse
         \/ ReadTool!Resolve \/ ReadTool!Open \/ ReadTool!Verify \/ ReadTool!Before
  PROVE  FileInv'
<1>1. CASE ReadTool!Ask
  <2>1. /\ pc = "idle" /\ pc' = "resolve" /\ reply'.code = "none" /\ late' = FALSE
        /\ UNCHANGED <<path, node, changes, checked, handle, before, lines, resolved>>
    BY <1>1 DEF ReadTool!Ask, ReadTool!NoReply, ReadTool!world
  <2>2. PICK n \in PageLengths :
          \/ asked' = [start |-> 1, lines |-> n] /\ got' = << >> /\ steady' = TRUE
          \/ /\ reply.code = "ok" /\ reply.next # None
             /\ asked' = [start |-> reply.next, lines |-> n]
             /\ UNCHANGED <<got, steady>>
    BY <1>1 DEF ReadTool!Ask
  <2>3. << >> \in Seq(ReadTool!Line) /\ Len(<< >>) = 0
    OBVIOUS
  <2>4. "none" \in Codes
    BY DEF Codes
  <2>5. ReadTypes /\ PagesSoFar /\ Answered
    BY DEF FileInv
  <2>6. Content(path.inode) \in Seq(ReadTool!Line) /\ Len(Content(path.inode)) \in Nat
    BY <2>5, ReadAssumption DEF ReadTypes, Content
  <2>7. asked' \in [start : Nat \ {0}, lines : PageLengths]
    BY <2>2, <2>5 DEF Answered
  <2>8. got' \in Seq(ReadTool!Line) /\ steady' \in BOOLEAN
    BY <2>2, <2>3, <2>5 DEF ReadTypes
  <2>9. ReadTypes'
    <3>1. /\ pc' \in {"idle", "resolve", "open"} \cup Opened /\ lines' = << >> /\ late' \in BOOLEAN
          /\ reply'.code \in Codes /\ pc \notin Opened /\ pc' \notin Opened
      BY <2>1, <2>4, <2>5 DEF ReadTypes, Opened
    <3>2. QED
      BY <2>1, <2>5, <2>7, <2>8, <3>1, Zenon DEF ReadTypes
  <2>10. PagesSoFar'
    <3>1. pc' # "idle" /\ pc' \notin Opened /\ reply'.code # "ok" /\ Content(path.inode)' = Content(path.inode)
      BY <2>1 DEF Opened, Content
    <3>2. CASE asked' = [start |-> 1, lines |-> n] /\ got' = << >>
      <4>1. Len(got') = 0 /\ asked'.start = 1
        BY <2>3, <3>2
      <4>2. QED
        BY <2>1, <2>6, <3>1, <4>1 DEF PagesSoFar, Content, Opened
    <3>3. CASE /\ reply.code = "ok" /\ reply.next # None
               /\ asked' = [start |-> reply.next, lines |-> n]
               /\ UNCHANGED <<got, steady>>
      BY <2>1, <2>5, <3>1, <3>3 DEF PagesSoFar, Content, Opened
    <3>4. QED
      BY <2>2, <3>2, <3>3
  <2>11. QED
    BY <2>1, <2>9, <2>10 DEF FileInv, CheckedIsResolved, LinesAreItsFirst, Answered,
       ReadTool!ReadsWhatItChecked
<1>2. CASE ReadTool!Elapse
  BY <1>2, Zenon DEF ReadTool!Elapse, ReadTool!world, FileInv, ReadTypes, CheckedIsResolved,
     LinesAreItsFirst, PagesSoFar, Answered, Content, ReadTool!ReadsWhatItChecked,
     ReadTool!PagesAdvance
<1>3. CASE ReadTool!Resolve
  <2>1. ReadTool!Lstat.kind = path.kind /\ path.kind \in {"file", "link", "directory", "absent"}
    BY LstatIsOfThePath
  <2>2. CASE path.kind = "absent"
    <3>1. ReadTool!Fails("not found")
      BY <1>3, <2>1, <2>2, Zenon DEF ReadTool!Resolve
    <3>2. QED
      BY <3>1, ReadingFails, Zenon DEF Failures
  <2>3. CASE path.kind = "directory"
    <3>1. ReadTool!Fails("wrong type")
      BY <1>3, <2>1, <2>3, Zenon DEF ReadTool!Resolve
    <3>2. QED
      BY <3>1, ReadingFails, Zenon DEF Failures
  <2>4. CASE path.kind = "link"
    <3>1. ReadTool!Fails("denied")
      BY <1>3, <2>1, <2>4, Zenon DEF ReadTool!Resolve
    <3>2. QED
      BY <3>1, ReadingFails, Zenon DEF Failures
  <2>5. CASE path.kind = "file" /\ ReadTool!Lstat.links # 1
    <3>1. ReadTool!Fails("denied")
      BY <1>3, <2>1, <2>5, Zenon DEF ReadTool!Resolve
    <3>2. QED
      BY <3>1, ReadingFails, Zenon DEF Failures
  <2>6. CASE path.kind = "file" /\ ReadTool!Lstat.links = 1
    <3>1. /\ pc = "resolve" /\ pc' = "open"
          /\ checked' = ReadTool!Lstat /\ resolved' = node[path.inode].birth
          /\ UNCHANGED <<path, node, changes, asked, handle, before, lines, late, reply, got, steady>>
      BY <1>3, <2>1, <2>6, Zenon DEF ReadTool!Resolve, ReadTool!world
    <3>2. checked'.inode = path.inode /\ checked'.stamp = node[path.inode].stamp
      BY <2>6, <3>1, LstatIsOfThePath DEF ReadTool!StatOf
    <3>3. ReadTypes' /\ pc' \notin Opened
      BY <3>1 DEF FileInv, ReadTypes, Opened
    <3>4. CheckedIsResolved'
      BY <3>1, <3>2 DEF FileInv, ReadTypes, CheckedIsResolved, ReadTool!ReadsWhatItChecked
    <3>5. QED
      BY <3>1, <3>3, <3>4 DEF FileInv, LinesAreItsFirst, PagesSoFar, Answered, Content
  <2>7. QED
    BY <2>1, <2>2, <2>3, <2>4, <2>5, <2>6
<1>4. CASE ReadTool!Open
  <2>1. path.kind \in {"file", "link", "directory", "absent"}
    BY LstatIsOfThePath
  <2>2. CASE path.kind = "absent"
    <3>1. ReadTool!Fails("not found")
      BY <1>4, <2>2, Zenon DEF ReadTool!Open
    <3>2. QED
      BY <3>1, ReadingFails, Zenon DEF Failures
  <2>3. CASE path.kind = "directory"
    <3>1. ReadTool!Fails("failed")
      BY <1>4, <2>3, Zenon DEF ReadTool!Open
    <3>2. QED
      BY <3>1, ReadingFails, Zenon DEF Failures
  <2>4. CASE path.kind \in {"file", "link"}
    <3>1. /\ pc = "open" /\ pc' = "verify" /\ handle' = path.inode
          /\ UNCHANGED <<path, node, changes, asked, checked, before, lines, late, reply, got, steady, resolved>>
      BY <1>4, <2>4, Zenon DEF ReadTool!Open, ReadTool!world
    <3>2. ReadTypes'
      BY <3>1, ReadAssumption DEF FileInv, ReadTypes, Opened
    <3>3. QED
      BY <3>1, <3>2 DEF FileInv, CheckedIsResolved, LinesAreItsFirst, PagesSoFar, Answered, Content,
         Opened, ReadTool!ReadsWhatItChecked
  <2>5. QED
    BY <2>1, <2>2, <2>3, <2>4
<1>5. CASE ReadTool!Verify
  <2>1. CASE ReadTool!Lstat.kind = "absent"
    <3>1. ReadTool!Fails("not found")
      BY <1>5, <2>1, Zenon DEF ReadTool!Verify
    <3>2. QED
      BY <3>1, ReadingFails, Zenon DEF Failures
  <2>2. CASE /\ ReadTool!Lstat.kind # "absent"
             /\ \/ ReadTool!Lstat.kind = "link"
                \/ ~ ReadTool!Same(checked, ReadTool!Fstat(handle))
                \/ ~ ReadTool!Same(checked, ReadTool!Lstat)
    <3>1. ReadTool!Fails("denied")
      BY <1>5, <2>2, Zenon DEF ReadTool!Verify
    <3>2. QED
      BY <3>1, ReadingFails, Zenon DEF Failures
  <2>3. CASE /\ ReadTool!Lstat.kind # "absent" /\ ReadTool!Lstat.kind # "link"
             /\ ReadTool!Same(checked, ReadTool!Fstat(handle))
             /\ ReadTool!Same(checked, ReadTool!Lstat)
    <3>1. /\ pc = "verify" /\ pc' = "before"
          /\ UNCHANGED <<path, node, changes, asked, checked, handle, before, lines, late, reply, got, steady, resolved>>
      BY <1>5, <2>3, Zenon DEF ReadTool!Verify, ReadTool!world
    <3>2. checked.inode = handle /\ checked.stamp = node[handle].stamp
      BY <2>3 DEF ReadTool!Same, ReadTool!Fstat, ReadTool!StatOf
    <3>3. node[handle].birth = resolved
      BY <3>1, <3>2 DEF FileInv, CheckedIsResolved
    <3>4. QED
      BY <3>1, <3>3 DEF FileInv, ReadTypes, CheckedIsResolved, LinesAreItsFirst, PagesSoFar, Answered,
         Content, Opened, ReadTool!ReadsWhatItChecked
  <2>4. QED
    BY <2>1, <2>2, <2>3
<1>6. CASE ReadTool!Before
  <2>1. CASE ReadTool!Fstat(handle).bytes > ReadFileBytes
    <3>1. ReadTool!Fails("limit")
      BY <1>6, <2>1, Zenon DEF ReadTool!Before
    <3>2. QED
      BY <3>1, ReadingFails, Zenon DEF Failures
  <2>2. CASE ~ (ReadTool!Fstat(handle).bytes > ReadFileBytes)
    <3>1. /\ pc = "before" /\ pc' = "read" /\ before' = ReadTool!Fstat(handle)
          /\ UNCHANGED <<path, node, changes, asked, checked, handle, lines, late, reply, got, steady, resolved>>
      BY <1>6, <2>2, Zenon DEF ReadTool!Before, ReadTool!world
    <3>2. before'.stamp = node[handle].stamp /\ handle \in Inodes /\ lines = << >>
      BY <3>1 DEF FileInv, ReadTypes, Opened, ReadTool!Fstat, ReadTool!StatOf
    <3>3. LinesAreItsFirst'
      <4>1. Len(lines) = 0 /\ 0 <= Len(Content(handle)) /\ Content(handle)' = Content(handle)
        BY <3>1, <3>2, ReadAssumption DEF FileInv, ReadTypes, Content
      <4>2. QED
        BY <3>1, <3>2, <4>1 DEF FileInv, ReadTypes, LinesAreItsFirst, Content
    <3>4. QED
      BY <3>1, <3>2, <3>3 DEF FileInv, ReadTypes, CheckedIsResolved, PagesSoFar, Answered,
         Content, Opened, ReadTool!ReadsWhatItChecked
  <2>3. QED
    BY <2>1, <2>2
<1>7. QED
  BY <1>1, <1>2, <1>3, <1>4, <1>5, <1>6

\* The next line is the next of the file, unless its stamp has moved.
LEMMA LineIsRead ==
  ASSUME FileInv, ReadTool!ReadLine
  PROVE  FileInv'
<1> DEFINE line == Content(handle)[Len(lines) + 1]
<1>1. /\ pc = "read" /\ Len(lines) < Len(Content(handle)) /\ handle \in Inodes
      /\ lines \in Seq(ReadTool!Line) /\ Content(handle) \in Seq(ReadTool!Line)
  BY ReadAssumption DEF FileInv, ReadTypes, Opened, ReadTool!ReadLine, Content
<1>2. Len(lines) + 1 \in 1 .. Len(Content(handle)) /\ line \in ReadTool!Line
  BY <1>1
<1>3. CASE late
  <2>1. ReadTool!Fails("timeout")
    BY <1>3, Zenon DEF ReadTool!ReadLine
  <2>2. QED
    BY <2>1, ReadingFails, Zenon DEF Failures
<1>4. CASE ~ late /\ ReadTool!TooMuch(line)
  <2>1. ReadTool!Fails("limit")
    BY <1>4, Zenon DEF ReadTool!ReadLine, Content
  <2>2. QED
    BY <2>1, ReadingFails, Zenon DEF Failures
<1>5. CASE ~ late /\ ~ ReadTool!TooMuch(line) /\ ~ line.text
  <2>1. ReadTool!Fails("not text")
    BY <1>5, Zenon DEF ReadTool!ReadLine, Content
  <2>2. QED
    BY <2>1, ReadingFails, Zenon DEF Failures
<1>6. CASE ~ late /\ ~ ReadTool!TooMuch(line) /\ line.text
  <2>1. /\ lines' = Append(lines, line)
        /\ UNCHANGED <<path, node, changes, pc, asked, checked, handle, before, late, reply, got, steady, resolved>>
    BY <1>6, Zenon DEF ReadTool!ReadLine, ReadTool!world, Content
  <2>2. line.bytes <= MAX_TEXT_LINE_BYTES
    BY <1>2, <1>6, ReadAssumption DEF ReadTool!TooMuch, ReadTool!Line
  <2> HIDE DEF line
  <2>3. /\ lines' \in Seq(ReadTool!Line) /\ Len(lines') = Len(lines) + 1
        /\ lines'[Len(lines) + 1] = line
        /\ \A k \in 1 .. Len(lines) : lines'[k] = lines[k]
    BY <1>1, <1>2, <2>1
  <2>4. ReadTypes'
    BY <1>1, <2>1, <2>3, Zenon DEF FileInv, ReadTypes
  <2>5. LinesAreItsFirst'
    <3>1. \A k \in 1 .. Len(lines') : k \in 1 .. Len(lines) \/ k = Len(lines) + 1
      BY <1>1, <2>3
    <3>2. Content(handle)' = Content(handle) /\ before' = before /\ changes' = changes
          /\ node'[handle'].stamp = node[handle].stamp
      BY <2>1 DEF Content
    <3>3. /\ before.stamp \in Nat /\ before.stamp <= changes
          /\ before.stamp = node[handle].stamp =>
               \A k \in 1 .. Len(lines) : lines[k] = Content(handle)[k]
          /\ \A k \in 1 .. Len(lines) : lines[k].bytes <= MAX_TEXT_LINE_BYTES
      BY <1>1 DEF FileInv, LinesAreItsFirst
    <3>4. before.stamp = node[handle].stamp =>
            \A k \in 1 .. Len(lines') : lines'[k] = Content(handle)[k]
      BY <2>3, <3>1, <3>3 DEF line
    <3>5. \A k \in 1 .. Len(lines') : lines'[k].bytes <= MAX_TEXT_LINE_BYTES
      BY <2>2, <2>3, <3>1, <3>3
    <3>6. Len(lines') <= Len(Content(handle))
      BY <1>1, <2>3
    <3>7. QED
      BY <3>2, <3>3, <3>4, <3>5, <3>6 DEF LinesAreItsFirst
  <2>6. QED
    BY <1>1, <2>1, <2>4, <2>5, Zenon DEF FileInv, CheckedIsResolved, PagesSoFar, Answered, Content,
       ReadTool!ReadsWhatItChecked, ReadTool!PagesAdvance
<1>7. QED
  BY <1>3, <1>4, <1>5, <1>6

\* A part of a sequence.
LEMMA PartOf ==
  ASSUME NEW S, NEW s \in Seq(S), NEW a \in 1 .. Len(s), NEW b \in a .. Len(s)
  PROVE  /\ SubSeq(s, a, b) \in Seq(S) /\ Len(SubSeq(s, a, b)) = b - a + 1
         /\ \A m \in 1 .. Len(SubSeq(s, a, b)) : SubSeq(s, a, b)[m] = s[a + m - 1]
OBVIOUS

\* A page is answered only when all lines are those of the file as it is.
LEMMA PageIsTheFile ==
  ASSUME FileInv, ReadTool!Finish
  PROVE  FileInv' /\ (reply'.code = "ok" => lines = Content(handle))
<1>1. /\ pc = "read" /\ Len(lines) >= Len(Content(handle)) /\ handle \in Inodes
      /\ lines \in Seq(ReadTool!Line) /\ Content(handle) \in Seq(ReadTool!Line)
      /\ got \in Seq(ReadTool!Line)
      /\ asked.start \in Nat \ {0} /\ asked.lines \in Nat \ {0}
  <2>1. /\ pc = "read" /\ handle \in Inodes /\ lines \in Seq(ReadTool!Line)
        /\ got \in Seq(ReadTool!Line) /\ Len(lines) >= Len(Content(handle))
        /\ node \in [Inodes -> [content : Files, stamp : Nat, links : {1, 2}, birth : Nat]]
        /\ asked \in [start : Nat \ {0}, lines : PageLengths \cup {1}]
    BY DEF FileInv, ReadTypes, Opened, ReadTool!Finish, Content
  <2>2. Content(handle) \in Seq(ReadTool!Line)
    BY <2>1, ReadAssumption DEF Content
  <2>3. asked.start \in Nat \ {0} /\ asked.lines \in Nat \ {0}
    <3>1. asked.start \in Nat \ {0} /\ asked.lines \in PageLengths \cup {1}
      BY <2>1
    <3>2. \A n \in PageLengths \cup {1} : n \in Nat /\ n # 0
      <4>1. \A n \in PageLengths : n \in Nat /\ n # 0
        BY ReadAssumption, Zenon
      <4>2. \A n \in {1} : n \in Nat /\ n # 0
        OBVIOUS
      <4>3. QED
        BY <4>1, <4>2, Zenon
    <3>3. QED
      BY <3>1, <3>2
  <2>4. QED
    BY <2>1, <2>2, <2>3
<1>2. CASE ~ ReadTool!Undisturbed
  <2>1. ReadTool!Fails("denied")
    BY <1>2, Zenon DEF ReadTool!Finish
  <2>2. FileInv'
    BY <2>1, ReadingFails, Zenon DEF Failures
  <2>3. reply'.code = "denied"
    BY <2>1, Zenon DEF ReadTool!Fails, ReadTool!NoReply
  <2>4. QED
    BY <2>2, <2>3
<1>3. CASE ReadTool!Undisturbed
  <2> DEFINE page == ReadTool!Fitting(lines, asked.start, asked.lines)
             next == ReadTool!NextLine(asked.start, page, lines)
  <2>1. /\ pc' = "idle" /\ reply' = [code |-> "ok", text |-> page, next |-> next]
        /\ got' = got \o page /\ handle' = None /\ lines' = << >>
        /\ UNCHANGED <<path, node, changes, asked, late, steady, resolved>>
    BY <1>3, Zenon DEF ReadTool!Finish, ReadTool!world
  <2>2. lines = Content(handle)
    <3>1. before.stamp = node[handle].stamp
      BY <1>3 DEF ReadTool!Undisturbed, ReadTool!Fstat, ReadTool!StatOf
    <3>2. /\ Len(lines) = Len(Content(handle))
          /\ \A k \in 1 .. Len(lines) : lines[k] = Content(handle)[k]
      BY <1>1, <3>1 DEF FileInv, LinesAreItsFirst
    <3>3. QED
      BY <1>1, <3>2
  <2>3. /\ ReadTool!Bytes(page) <= MAX_READ_TEXT_BYTES
        /\ asked.start > Len(lines) => page = << >>
        /\ asked.start <= Len(lines) =>
             \E k \in 1 .. asked.lines : /\ asked.start + k - 1 <= Len(lines)
                                          /\ page = SubSeq(lines, asked.start, asked.start + k - 1)
    <3>1. \A k \in 1 .. Len(lines) : lines[k].bytes <= MAX_READ_TEXT_BYTES
      <4>1. ASSUME NEW k \in 1 .. Len(lines)
            PROVE  lines[k].bytes <= MAX_READ_TEXT_BYTES
        <5>1. lines[k] \in ReadTool!Line
          BY <1>1
        <5>2. lines[k].bytes \in Nat
          BY <5>1 DEF ReadTool!Line
        <5>3. lines[k].bytes <= MAX_TEXT_LINE_BYTES
          BY <1>1 DEF FileInv, LinesAreItsFirst
        <5>4. QED
          BY <5>2, <5>3, ReadAssumption
      <4>2. QED
        BY <4>1
    <3>2. QED
      BY <1>1, <3>1, PageFits
  <2> HIDE DEF page
  <2>4. /\ page \in Seq(ReadTool!Line) /\ Len(page) \in Nat
        /\ asked.start + Len(page) - 1 <= Len(lines) \/ page = << >>
        /\ asked.start <= Len(lines) => Len(page) > 0
        /\ \A k \in 1 .. Len(page) : page[k] = lines[asked.start + k - 1]
    <3>1. CASE asked.start > Len(lines)
      <4>0. page = << >>
        BY <2>3, <3>1, Zenon
      <4>1. page = << >> /\ Len(page) = 0 /\ page \in Seq(ReadTool!Line)
        BY <4>0
      <4>2. \A k \in 1 .. Len(page) : FALSE
        BY <4>1
      <4>3. ~ (asked.start <= Len(lines))
        BY <1>1, <3>1
      <4>4. QED
        BY <4>1, <4>2, <4>3
    <3>2. CASE asked.start <= Len(lines)
      <4>1. PICK k \in 1 .. asked.lines : /\ asked.start + k - 1 <= Len(lines)
                                          /\ page = SubSeq(lines, asked.start, asked.start + k - 1)
        BY <2>3, <3>2
      <4>2. asked.start + k - 1 \in asked.start .. Len(lines) /\ asked.start \in 1 .. Len(lines)
        BY <1>1, <3>2, <4>1
      <4>3. /\ page \in Seq(ReadTool!Line) /\ Len(page) = k
            /\ \A m \in 1 .. Len(page) : page[m] = lines[asked.start + m - 1]
        <5>1. page = SubSeq(lines, asked.start, asked.start + k - 1)
          BY <4>1
        <5>2. lines \in Seq(ReadTool!Line)
          BY <1>1
        <5>3. asked.start + k - 1 - asked.start + 1 = k
          BY <1>1
        <5>4. QED
          BY ONLY <4>2, <5>1, <5>2, <5>3, PartOf
      <4>4. k \in Nat /\ k > 0
        BY <1>1
      <4>5. Len(page) \in Nat /\ Len(page) > 0 /\ asked.start + Len(page) - 1 <= Len(lines)
        BY <4>1, <4>3, <4>4
      <4>6. QED
        BY <4>3, <4>5
    <3>3. QED
      BY <1>1, <3>1, <3>2
  <2>5. /\ next = IF asked.start + Len(page) - 1 < Len(lines) THEN asked.start + Len(page) ELSE None
        /\ next # None => next \in Nat \ {0} /\ next > asked.start
    <3>1. next = IF asked.start + Len(page) - 1 < Len(lines) THEN asked.start + Len(page) ELSE None
      BY Zenon DEF ReadTool!NextLine
    <3> HIDE DEF next
    <3>2. CASE asked.start + Len(page) - 1 < Len(lines)
      <4>1. asked.start \in Nat /\ asked.start > 0 /\ Len(lines) \in Nat /\ Len(page) \in Nat
        BY <1>1, <2>4
      <4>2. asked.start <= Len(lines)
        BY <3>2, <4>1
      <4>3. Len(page) > 0
        BY <2>4, <4>2
      <4>4. next = asked.start + Len(page)
        BY <3>1, <3>2
      <4>5. QED
        BY <3>1, <4>1, <4>3, <4>4
    <3>3. CASE ~ (asked.start + Len(page) - 1 < Len(lines))
      BY <3>1, <3>3
    <3>4. QED
      BY <3>2, <3>3
  <2>6. ReadTypes'
    <3>1. got' \in Seq(ReadTool!Line) /\ << >> \in Seq(ReadTool!Line)
      BY <1>1, <2>1, <2>4
    <3>2. reply'.code \in Codes
      BY <2>1, Zenon DEF Codes
    <3>3. QED
      BY <2>1, <3>1, <3>2 DEF FileInv, ReadTypes, Opened
  <2>7. PagesSoFar'
    <3>1. SUFFICES ASSUME steady
                   PROVE  PagesSoFar'
      BY <2>1 DEF PagesSoFar
    <3>2. /\ handle = path.inode /\ asked.start = Len(got) + 1 /\ Len(got) <= Len(lines)
          /\ \A k \in 1 .. Len(got) : got[k] = lines[k]
      BY <1>1, <2>2, <3>1 DEF FileInv, PagesSoFar, Opened
    <3>3. Len(got') = Len(got) + Len(page) /\ Len(got') <= Len(lines)
      BY <1>1, <2>1, <2>4, <3>2
    <3>4. ASSUME NEW k \in 1 .. Len(got')
          PROVE  got'[k] = lines[k]
      <4>1. CASE k <= Len(got)
        BY <1>1, <2>1, <2>4, <3>2, <4>1
      <4>2. CASE k > Len(got)
        <5>1. k - Len(got) \in 1 .. Len(page) /\ asked.start + (k - Len(got)) - 1 = k
          BY <1>1, <2>4, <3>2, <3>3, <4>2
        <5>2. got'[k] = page[k - Len(got)]
          BY <1>1, <2>1, <2>4, <4>2, <5>1
        <5>3. QED
          BY <2>4, <5>1, <5>2
      <4>3. QED
        BY <1>1, <4>1, <4>2
    <3>5. \/ reply'.next = None /\ Len(got') = Len(lines)
          \/ reply'.next = Len(got') + 1 /\ Len(got') < Len(lines)
      BY <1>1, <2>1, <2>4, <2>5, <3>2, <3>3
    <3>6. Content(path.inode)' = lines
      BY <2>1, <2>2, <3>2 DEF Content
    <3>7. QED
      BY <2>1, <3>3, <3>4, <3>5, <3>6 DEF PagesSoFar, Opened
  <2>8. Answered'
    BY <2>1, <2>3, <2>5 DEF Answered, ReadTool!PagesAdvance
  <2>9. QED
    BY <2>1, <2>2, <2>6, <2>7, <2>8 DEF FileInv, CheckedIsResolved, LinesAreItsFirst,
       ReadTool!ReadsWhatItChecked
<1>4. QED
  BY <1>2, <1>3

\* The invariant of the reading, and that a page is cut from one version.
LEMMA ReadInductive ==
  /\ ReadTool!Init => FileInv
  /\ FileInv /\ [ReadTool!Next]_ReadTool!vars => FileInv' /\ ReadTool!OneVersion
<1>1. ReadTool!Init => FileInv
  <2>1. SUFFICES ASSUME ReadTool!Init
                 PROVE  FileInv
    OBVIOUS
  <2>2. PICK i \in Inodes : path = [kind |-> "file", inode |-> i]
    BY <2>1 DEF ReadTool!Init
  <2>3. PICK c \in Files :
          node = [j \in Inodes |-> [content |-> c, stamp |-> 0, links |-> 1, birth |-> 0]]
    BY <2>1 DEF ReadTool!Init
  <2>4. /\ changes = 0 /\ pc = "idle" /\ asked = [start |-> 1, lines |-> 1] /\ handle = None
        /\ lines = << >> /\ late = FALSE /\ reply.code = "none" /\ got = << >> /\ steady = FALSE
    BY <2>1 DEF ReadTool!Init, ReadTool!NoReply
  <2>5. node \in [Inodes -> [content : Files, stamp : Nat, links : {1, 2}, birth : Nat]]
    BY <2>3
  <2>6. \A j \in Inodes : node[j].stamp <= changes
    BY <2>3, <2>4
  <2>7. path \in [kind : ReadTool!Kinds, inode : Inodes]
    BY <2>2 DEF ReadTool!Kinds
  <2>8. << >> \in Seq(ReadTool!Line)
    OBVIOUS
  <2>9. asked \in [start : Nat \ {0}, lines : PageLengths \cup {1}]
    BY <2>4, ReadAssumption
  <2>10. reply.code \in Codes /\ None \notin Inodes
    BY <2>4, ReadAssumption DEF Codes
  <2>11. ReadTypes
    <3>1. changes \in 0 .. ReadChanges
      BY <2>4, ReadAssumption
    <3>2. QED
      BY <2>4, <2>5, <2>6, <2>7, <2>8, <2>9, <2>10, <3>1, Zenon DEF ReadTypes, Opened
  <2>12. QED
    BY <2>4, <2>11 DEF FileInv, CheckedIsResolved, LinesAreItsFirst, PagesSoFar, Answered,
       ReadTool!ReadsWhatItChecked
<1>2. ASSUME FileInv, [ReadTool!Next]_ReadTool!vars
      PROVE  FileInv' /\ ReadTool!OneVersion
  <2>1. CASE ReadTool!Edit \/ ReadTool!Replace \/ ReadTool!Retype \/ ReadTool!Hardlink
    <3>1. pc' = pc /\ FileInv'
      BY <1>2, <2>1, UserMoves, UserKeeps
    <3>2. QED
      BY <3>1 DEF ReadTool!OneVersion
  <2>2. CASE \/ ReadTool!Ask \/ ReadTool!Elapse
             \/ ReadTool!Resolve \/ ReadTool!Open \/ ReadTool!Verify \/ ReadTool!Before
    <3>1. FileInv'
      BY <1>2, <2>2, CallBegins
    <3>2. pc = "read" => pc' = "read"
      BY <2>2 DEF ReadTool!Ask, ReadTool!Elapse, ReadTool!Resolve, ReadTool!Open, ReadTool!Verify,
         ReadTool!Before
    <3>3. QED
      BY <3>1, <3>2 DEF ReadTool!OneVersion
  <2>3. CASE ReadTool!ReadLine
    <3>1. FileInv'
      BY <1>2, <2>3, LineIsRead
    <3>2. pc' = "read" \/ reply'.code # "ok"
      BY <2>3, Zenon DEF ReadTool!ReadLine, ReadTool!Fails, ReadTool!NoReply
    <3>3. QED
      BY <3>1, <3>2 DEF ReadTool!OneVersion
  <2>4. CASE ReadTool!Finish
    BY <1>2, <2>4, PageIsTheFile DEF ReadTool!OneVersion, Content
  <2>5. CASE UNCHANGED ReadTool!vars
    BY <1>2, <2>5 DEF ReadTool!vars, ReadTool!world, ReadTool!call, ReadTool!OneVersion, FileInv,
       ReadTypes, CheckedIsResolved, LinesAreItsFirst, PagesSoFar, Answered, Content,
       ReadTool!ReadsWhatItChecked, ReadTool!PagesAdvance
  <2>6. QED
    BY <1>2, <2>1, <2>2, <2>3, <2>4, <2>5 DEF ReadTool!Next, ReadTool!Reading
<1>3. QED
  BY <1>1, <1>2

\* The Tool reads alone in its part of the composition.
LEMMA ReadAlone ==
  /\ ToolsInit /\ part = "read" => ReadTool!Init
  /\ [ToolsNext]_allVars => part' = part
  /\ [ToolsNext]_allVars /\ part = "read" => [ReadTool!Next]_ReadTool!vars
<1>1. UNCHANGED allVars => part' = part /\ UNCHANGED ReadTool!vars
  BY DEF allVars, vars, treeVars, counts, request, readOnly, ReadTool!vars, ReadTool!world, ReadTool!call
<1>2. ToolsNext => part' = part
  BY DEF ToolsNext
<1>3. ToolsNext /\ part = "read" => ReadTool!Next
  BY Zenon DEF ToolsNext
<1>4. ToolsInit /\ part = "read" => ReadTool!Init
  BY Zenon DEF ToolsInit
<1>5. QED
  BY <1>1, <1>2, <1>3, <1>4

-----------------------------------------------------------------------------
(* The listing of a directory, which list and search share *)

\* The entries that lie in path order in a sequence of them all.
Sortable(all) ==
  \E n \in Nat : \E s \in [1 .. n -> all] :
    /\ InPathOrder(s) /\ Elements(s) = all
    /\ \A e \in all : e.path \in Nat

\* What sorted() returns.
LEMMA SortedIsAll ==
  ASSUME NEW all, Sortable(all)
  PROVE  /\ Cardinality(all) \in Nat /\ SortedByPath(all) \in [1 .. Cardinality(all) -> all]
         /\ SortedByPath(all) \in Seq(all) /\ Len(SortedByPath(all)) = Cardinality(all)
         /\ InPathOrder(SortedByPath(all)) /\ Elements(SortedByPath(all)) = all
<1>1. PICK n \in Nat : \E s \in [1 .. n -> all] :
        InPathOrder(s) /\ Elements(s) = all /\ \A e \in all : e.path \in Nat
  BY DEF Sortable
<1>2. PICK s \in [1 .. n -> all] :
        InPathOrder(s) /\ Elements(s) = all /\ \A e \in all : e.path \in Nat
  BY <1>1
<1>3. s \in Seq(all) /\ Len(s) = n
  BY <1>2
<1>4. Cardinality(all) = n
  <2>1. \A i, j \in 1 .. n : s[i] = s[j] => i = j
    BY <1>2, <1>3 DEF InPathOrder
  <2>2. \A e \in all : \E i \in 1 .. n : s[i] = e
    BY <1>2, <1>3 DEF Elements
  <2>3. s \in Bijection(1 .. n, all)
    BY <1>2, <2>1, <2>2 DEF Bijection, Injection, Surjection, IsInjective
  <2>4. QED
    BY <2>3, FS_CountingElements DEF ExistsBijection
<1>5. \E t \in [1 .. Cardinality(all) -> all] : InPathOrder(t) /\ Elements(t) = all
  BY <1>2, <1>4
<1>6. /\ SortedByPath(all) \in [1 .. Cardinality(all) -> all]
      /\ InPathOrder(SortedByPath(all)) /\ Elements(SortedByPath(all)) = all
  BY <1>5, Zenon DEF SortedByPath
<1>7. QED
  BY <1>4, <1>6

\* Entries can be put in path order one by one.
LEMMA OneMoreIsSorted ==
  ASSUME NEW all, Sortable(all), NEW e, e.path \in Nat, \A f \in all : f.path # e.path
  PROVE  Sortable(all \cup {e})
<1>0. PICK n \in Nat : \E s \in [1 .. n -> all] :
        InPathOrder(s) /\ Elements(s) = all /\ \A f \in all : f.path \in Nat
  BY DEF Sortable
<1>1. PICK s \in [1 .. n -> all] :
        InPathOrder(s) /\ Elements(s) = all /\ \A f \in all : f.path \in Nat
  BY <1>0
<1>2. Len(s) = n
  OBVIOUS
<1> DEFINE Later == {i \in 1 .. n + 1 : i = n + 1 \/ e.path < s[i].path}
<1>3. PICK k \in Later : \A i \in Later : k <= i
  <2>1. Later \subseteq Nat /\ n + 1 \in Later
    OBVIOUS
  <2> HIDE DEF Later
  <2>2. QED
    BY <2>1, LeastNatural
<1>4. /\ k \in 1 .. n + 1
      /\ \A i \in 1 .. n : i < k => s[i].path < e.path
      /\ \A i \in 1 .. n : i >= k => e.path < s[i].path
  <2>1. k \in 1 .. n + 1 /\ (k = n + 1 \/ e.path < s[k].path)
    BY <1>3
  <2>2. ASSUME NEW i \in 1 .. n, i < k
        PROVE  s[i].path < e.path
    <3>1. i \notin Later
      BY <1>3, <2>2
    <3>2. s[i] \in all
      OBVIOUS
    <3>3. QED
      BY <1>1, <3>1, <3>2
  <2>3. ASSUME NEW i \in 1 .. n, i >= k
        PROVE  e.path < s[i].path
    <3>1. k \in 1 .. n /\ e.path < s[k].path
      BY <2>1, <2>3
    <3>2. s[i] \in all /\ s[k] \in all /\ s[i].path \in Nat /\ s[k].path \in Nat
      BY <1>1, <3>1
    <3>3. i = k \/ s[k].path < s[i].path
      BY <1>1, <1>2, <2>3, <3>1 DEF InPathOrder
    <3>4. QED
      BY <3>1, <3>2, <3>3
  <2>4. QED
    BY <2>1, <2>2, <2>3
<1> HIDE DEF Later
<1> DEFINE t == [i \in 1 .. n + 1 |-> IF i < k THEN s[i] ELSE IF i = k THEN e ELSE s[i - 1]]
<1>5. t \in [1 .. n + 1 -> all \cup {e}] /\ Len(t) = n + 1
  <2>1. \A i \in 1 .. n + 1 : (i < k => i \in 1 .. n) /\ (i > k => i - 1 \in 1 .. n)
    BY <1>4
  <2>2. t \in [1 .. n + 1 -> all \cup {e}]
    BY <1>4, <2>1
  <2> HIDE DEF t
  <2>3. QED
    BY <2>2
<1>6. InPathOrder(t)
  <2>1. SUFFICES ASSUME NEW i \in 1 .. n + 1, NEW j \in 1 .. n + 1, i < j
                 PROVE  t[i].path < t[j].path
    BY <1>5 DEF InPathOrder
  <2>2. \A m \in 1 .. n : s[m] \in all /\ s[m].path \in Nat
    BY <1>1
  <2>3. CASE j < k
    <3>1. t[i] = s[i] /\ t[j] = s[j] /\ i \in 1 .. n /\ j \in 1 .. n
      BY <1>4, <2>1, <2>3
    <3>2. QED
      BY <1>1, <1>2, <2>1, <3>1 DEF InPathOrder
  <2>4. CASE j = k
    <3>1. t[i] = s[i] /\ t[j] = e /\ i \in 1 .. n /\ i < k
      BY <1>4, <2>1, <2>4
    <3>2. QED
      BY <1>4, <3>1
  <2>5. CASE j > k /\ i < k
    <3>1. t[i] = s[i] /\ t[j] = s[j - 1] /\ i \in 1 .. n /\ j - 1 \in 1 .. n /\ i < j - 1
      BY <1>4, <2>1, <2>5
    <3>2. QED
      BY <1>1, <1>2, <3>1 DEF InPathOrder
  <2>6. CASE j > k /\ i = k
    <3>1. t[i] = e /\ t[j] = s[j - 1] /\ j - 1 \in 1 .. n /\ j - 1 >= k
      BY <1>4, <2>1, <2>6
    <3>2. QED
      BY <1>4, <3>1
  <2>7. CASE j > k /\ i > k
    <3>1. t[i] = s[i - 1] /\ t[j] = s[j - 1] /\ i - 1 \in 1 .. n /\ j - 1 \in 1 .. n /\ i - 1 < j - 1
      BY <1>4, <2>1, <2>7
    <3>2. QED
      BY <1>1, <1>2, <3>1 DEF InPathOrder
  <2>8. QED
    BY <1>4, <2>1, <2>3, <2>4, <2>5, <2>6, <2>7
<1>7. Elements(t) = all \cup {e}
  <2>1. Elements(t) \subseteq all \cup {e}
    BY <1>5 DEF Elements
  <2>2. ASSUME NEW f \in all \cup {e}
        PROVE  \E i \in 1 .. n + 1 : t[i] = f
    <3>1. CASE f = e
      BY <1>4, <3>1
    <3>2. CASE f \in all
      <4>1. PICK m \in 1 .. n : s[m] = f
        BY <1>1, <1>2, <3>2 DEF Elements
      <4>2. CASE m < k
        BY <4>1, <4>2
      <4>3. CASE m >= k
        <5>1. m + 1 \in 1 .. n + 1 /\ ~ (m + 1 < k) /\ m + 1 # k /\ (m + 1) - 1 = m
          BY <1>4, <4>3
        <5>2. t[m + 1] = s[m]
          BY <5>1
        <5>3. QED
          BY <4>1, <5>1, <5>2
      <4>4. QED
        BY <1>4, <4>2, <4>3
    <3>3. QED
      BY <3>1, <3>2
  <2> HIDE DEF t
  <2>3. all \cup {e} \subseteq Elements(t)
    BY <1>5, <2>2 DEF Elements
  <2>4. QED
    BY <2>1, <2>3
<1> HIDE DEF t
<1>8. \A f \in all \cup {e} : f.path \in Nat
  BY <1>1
<1>9. n + 1 \in Nat
  OBVIOUS
<1>10. QED
  BY <1>5, <1>6, <1>7, <1>8, <1>9, Zenon DEF Sortable

Listable == {"file", "directory", "blocked"}
TreeKinds == \A p \in Path : tree[p].kind \in Listable \cup {"absent"}
Listed(p) == [path |-> p, kind |-> Lstat(p)]
Existing(d) == {p \in Children(d) : Lstat(p) # "absent"}
EntriesOf(d) == {Listed(p) : p \in Existing(d)}

(***************************************************************************)
(* The listing: its entries are children of the directory whose names have *)
(* been taken, and in a tree that nobody touches they are what lies there. *)
(***************************************************************************)
ScanInv ==
  /\ scan.dir \in Path \cup {0} /\ scan.names \subseteq Children(scan.dir)
  /\ scan.seen \in Seq([path : Path, kind : Listable])
  /\ Len(scan.seen) <= MAX_DIRECTORY_ENTRIES
  /\ \A e \in Elements(scan.seen) : Parent[e.path] = scan.dir /\ e.path \notin scan.names
  /\ Sortable(Elements(scan.seen))
  /\ IsFiniteSet(Elements(scan.seen)) /\ Cardinality(Elements(scan.seen)) = Len(scan.seen)
  /\ pc = "scan" /\ steady =>
       /\ scan.names \subseteq Existing(scan.dir)
       /\ Elements(scan.seen) = {Listed(p) : p \in Existing(scan.dir) \ scan.names}

LEMMA LstatKinds ==
  ASSUME TreeKinds, NEW p \in Path
  PROVE  Lstat(p) \in Listable \cup {"absent"}
BY DEF TreeKinds, Lstat

\* An entry more.
LEMMA ElementsOfAppend ==
  ASSUME NEW S, NEW s \in Seq(S), NEW e \in S
  PROVE  /\ Append(s, e) \in Seq(S) /\ Len(Append(s, e)) = Len(s) + 1
         /\ Elements(Append(s, e)) = Elements(s) \cup {e}
<1>1. /\ Append(s, e) \in Seq(S) /\ Len(Append(s, e)) = Len(s) + 1
      /\ \A i \in 1 .. Len(s) : Append(s, e)[i] = s[i]
      /\ Append(s, e)[Len(s) + 1] = e
  OBVIOUS
<1>2. \A i \in 1 .. Len(s) + 1 : i \in 1 .. Len(s) \/ i = Len(s) + 1
  OBVIOUS
<1>3. 1 .. Len(s) \subseteq 1 .. Len(s) + 1 /\ Len(s) + 1 \in 1 .. Len(s) + 1
  OBVIOUS
<1> DEFINE t == Append(s, e)
<1> HIDE DEF t
<1>4. Elements(t) = Elements(s) \cup {e}
  BY <1>1, <1>2, <1>3 DEF Elements, t
<1>5. QED
  BY <1>1, <1>4 DEF t

LEMMA EmptyScan ==
  /\ NoScan.dir = 0 /\ NoScan.names = {} /\ NoScan.seen = << >>
  /\ Elements(<< >>) = {} /\ Sortable({}) /\ IsFiniteSet({}) /\ Cardinality({}) = 0
  /\ << >> \in Seq([path : Path, kind : Listable]) /\ Len(<< >>) = 0
<1>1. Elements(<< >>) = {}
  BY DEF Elements
<1>2. Sortable({})
  <2>1. << >> \in [1 .. 0 -> {}] /\ Len(<< >>) = 0 /\ 0 \in Nat
    OBVIOUS
  <2>2. InPathOrder(<< >>)
    BY DEF InPathOrder
  <2>3. QED
    BY <1>1, <2>1, <2>2 DEF Sortable
<1>3. IsFiniteSet({}) /\ Cardinality({}) = 0
  BY FS_EmptySet
<1>4. QED
  BY <1>1, <1>2, <1>3 DEF NoScan

\* The names of a directory are taken.
LEMMA ScanBegins ==
  ASSUME NEW d \in Path \cup {0}, scan' = ScanOf(d), UNCHANGED tree
  PROVE  ScanInv'
<1>1. /\ scan'.dir = d /\ scan'.names = Existing(d) /\ scan'.seen = << >>
  BY DEF ScanOf, Existing
<1>2. Existing(d)' = Existing(d)
  BY DEF Existing, Children, Lstat
<1>3. Existing(d) \subseteq Children(d)
  BY DEF Existing
<1>4. {Listed(p)' : p \in Existing(d) \ Existing(d)} = {}
  OBVIOUS
<1>5. MAX_DIRECTORY_ENTRIES \in Nat
  BY EntriesAssumption
<1>6. Len(scan'.seen) <= MAX_DIRECTORY_ENTRIES /\ Len(scan'.seen) = 0
  BY <1>1, <1>5, EmptyScan
<1>7. Elements(scan'.seen) = {}
  BY <1>1, EmptyScan
<1>8. Children(d)' = Children(d)
  BY DEF Children
<1>9. scan'.seen \in Seq([path : Path, kind : Listable])
  BY <1>1, EmptyScan
<1>10. {Listed(p)' : p \in (Existing(d))' \ Existing(d)} = {}
  BY <1>2
<1>11. QED
  BY <1>1, <1>2, <1>3, <1>6, <1>7, <1>8, <1>9, <1>10, EmptyScan DEF ScanInv

\* An entry of it is inspected.
LEMMA ScanGoesOn ==
  ASSUME ScanInv, TreeKinds, pc = "scan", NEW p \in scan.names, ScanFault(p) = "none",
         scan' = Inspected(p), UNCHANGED <<tree, steady, pc>>
  PROVE  ScanInv'
<1> DEFINE e == [path |-> p, kind |-> Lstat(p)]
<1>1. scan'.dir = scan.dir /\ scan'.names = scan.names \ {p} /\ scan'.seen = Append(scan.seen, e)
  BY DEF Inspected, ScanInv, NoScan
<1>2. p \in Path /\ p \in Nat /\ Parent[p] = scan.dir
  BY PathAssumption DEF ScanInv, Children
<1>3. Lstat(p) # "absent" /\ ~ (Len(scan.seen) >= MAX_DIRECTORY_ENTRIES)
  BY DEF ScanFault
<1>4. e \in [path : Path, kind : Listable] /\ e.path = p /\ e.kind = Lstat(p)
  BY <1>2, <1>3, LstatKinds
<1>5. e = Listed(p)
  BY Zenon DEF Listed
<1> HIDE DEF e
<1>6. /\ scan'.seen \in Seq([path : Path, kind : Listable])
      /\ Len(scan'.seen) = Len(scan.seen) + 1
      /\ Elements(scan'.seen) = Elements(scan.seen) \cup {e}
  <2>1. scan.seen \in Seq([path : Path, kind : Listable])
    BY DEF ScanInv
  <2> DEFINE S == [path : Path, kind : Listable]
  <2>2. scan.seen \in Seq(S) /\ e \in S
    BY <1>4, <2>1
  <2> HIDE DEF S
  <2>3. /\ Append(scan.seen, e) \in Seq(S) /\ Len(Append(scan.seen, e)) = Len(scan.seen) + 1
        /\ Elements(Append(scan.seen, e)) = Elements(scan.seen) \cup {e}
    BY ONLY <2>2, ElementsOfAppend
  <2>4. QED
    BY <1>1, <2>3 DEF S
<1>7. \A f \in Elements(scan.seen) : f.path # e.path /\ Parent[f.path] = scan.dir /\ f.path \notin scan.names
  BY <1>4 DEF ScanInv
<1>8. e \notin Elements(scan.seen)
  BY <1>7
<1>9. Sortable(Elements(scan'.seen))
  <2>1. Sortable(Elements(scan.seen)) /\ e.path \in Nat /\ \A f \in Elements(scan.seen) : f.path # e.path
    BY <1>2, <1>4, <1>7 DEF ScanInv
  <2>2. QED
    BY <1>6, <2>1, OneMoreIsSorted, Zenon
<1>10. /\ IsFiniteSet(Elements(scan'.seen))
       /\ Cardinality(Elements(scan'.seen)) = Len(scan'.seen)
  <2>1. IsFiniteSet(Elements(scan.seen)) /\ Cardinality(Elements(scan.seen)) = Len(scan.seen)
    BY DEF ScanInv
  <2>2. QED
    BY <1>6, <1>8, <2>1, FS_AddElement
<1>11. Len(scan'.seen) <= MAX_DIRECTORY_ENTRIES
  BY <1>3, <1>6, EntriesAssumption DEF ScanInv
<1>12. \A f \in Elements(scan'.seen) : Parent[f.path] = scan'.dir /\ f.path \notin scan'.names
  BY <1>1, <1>2, <1>4, <1>6, <1>7
<1>13. ASSUME steady
       PROVE  /\ scan'.names \subseteq Existing(scan.dir)'
              /\ Elements(scan'.seen) = {Listed(q)' : q \in Existing(scan.dir)' \ scan'.names}
  <2>1. /\ scan.names \subseteq Existing(scan.dir)
        /\ Elements(scan.seen) = {Listed(q) : q \in Existing(scan.dir) \ scan.names}
    BY <1>13 DEF ScanInv
  <2>2. Existing(scan.dir)' = Existing(scan.dir)
    BY <1>1 DEF Existing, Children, Lstat
  <2>3. \A q : Listed(q)' = Listed(q)
    BY DEF Listed, Lstat
  <2>4. Existing(scan.dir) \ scan'.names = (Existing(scan.dir) \ scan.names) \cup {p}
    BY <1>1, <2>1
  <2>5. {Listed(q)' : q \in Existing(scan.dir)' \ scan'.names}
          = {Listed(q) : q \in (Existing(scan.dir) \ scan.names) \cup {p}}
    BY <2>2, <2>3, <2>4
  <2>6. {Listed(q) : q \in (Existing(scan.dir) \ scan.names) \cup {p}}
          = {Listed(q) : q \in Existing(scan.dir) \ scan.names} \cup {Listed(p)}
    OBVIOUS
  <2>7. QED
    BY <1>1, <1>5, <1>6, <2>1, <2>2, <2>5, <2>6
<1>14. scan'.names \subseteq Children(scan.dir)' /\ scan'.dir \in Path \cup {0}
  BY <1>1 DEF ScanInv, Children
<1>15. QED
  BY <1>6, <1>9, <1>10, <1>11, <1>12, <1>13, <1>14 DEF ScanInv

\* While nothing is listed.
LEMMA NothingIsListed ==
  ASSUME scan' = NoScan, pc' # "scan"
  PROVE  ScanInv'
<1>1. /\ scan'.dir = 0 /\ scan'.names = {} /\ scan'.seen = << >>
  BY EmptyScan
<1>2. Elements(scan'.seen) = {} /\ Len(scan'.seen) = 0
  BY <1>1, EmptyScan
<1>3. MAX_DIRECTORY_ENTRIES \in Nat
  BY EntriesAssumption
<1>4. Len(scan'.seen) <= MAX_DIRECTORY_ENTRIES
  BY <1>2, <1>3
<1>5. scan'.seen \in Seq([path : Path, kind : Listable])
  BY <1>1, EmptyScan
<1>6. QED
  BY <1>1, <1>2, <1>4, <1>5, EmptyScan DEF ScanInv

\* What leaves the listing alone.
LEMMA ScanStays ==
  ASSUME ScanInv, UNCHANGED scan,
         steady' = FALSE \/ pc' # "scan" \/ UNCHANGED <<pc, tree, steady>>
  PROVE  ScanInv'
<1>1. CASE steady' = FALSE \/ pc' # "scan"
  BY <1>1 DEF ScanInv, Children, Sortable
<1>2. CASE UNCHANGED <<pc, tree, steady>>
  BY <1>2 DEF ScanInv, Children, Sortable, Existing, Listed, Lstat
<1>3. QED
  BY <1>1, <1>2

\* What is listed at last.
LEMMA ScanEnds ==
  ASSUME ScanInv, pc = "scan", scan.names = {}
  PROVE  /\ steady => Elements(scan.seen) = EntriesOf(scan.dir)
         /\ Elements(Entries) = Elements(scan.seen) /\ InPathOrder(Entries)
         /\ Len(Entries) = Len(scan.seen) /\ Entries \in Seq([path : Path, kind : Listable])
<1>1. steady => Elements(scan.seen) = EntriesOf(scan.dir)
  BY DEF ScanInv, EntriesOf
<1>2. Sortable(Elements(scan.seen)) /\ Cardinality(Elements(scan.seen)) = Len(scan.seen)
  BY DEF ScanInv
<1> DEFINE T == [path : Path, kind : Listable]
<1>3. scan.seen \in Seq(T)
  BY DEF ScanInv
<1> HIDE DEF T
<1>4. Elements(scan.seen) \subseteq T
  BY <1>3 DEF Elements
<1>5. /\ Entries \in Seq(Elements(scan.seen)) /\ Len(Entries) = Cardinality(Elements(scan.seen))
      /\ InPathOrder(Entries) /\ Elements(Entries) = Elements(scan.seen)
  BY <1>2, SortedIsAll, Zenon DEF Entries
<1>6. Entries \in Seq([path : Path, kind : Listable])
  <2> DEFINE s == Entries
             S == Elements(scan.seen)
  <2>1. s \in Seq(S) /\ S \subseteq T
    BY <1>4, <1>5
  <2> HIDE DEF s, S
  <2>2. s \in Seq(T)
    BY <2>1
  <2>3. QED
    BY <2>2 DEF s, T
<1>7. QED
  BY <1>1, <1>2, <1>5, <1>6

-----------------------------------------------------------------------------
(* A client of workspace.list *)

\* The listing Tool sees the tree as the search does.
LEMMA SameTree ==
  /\ ListTool!NoScan = NoScan /\ ListTool!Entries = Entries /\ ListTool!EndFault = EndFault
  /\ \A p : /\ ListTool!Lstat(p) = Lstat(p) /\ ListTool!Inspected(p) = Inspected(p)
            /\ ListTool!ScanFault(p) = ScanFault(p) /\ ListTool!ScanOf(p) = ScanOf(p)
            /\ ListTool!Children(p) = Children(p)
<1>1. \A p : ListTool!Lstat(p) = Lstat(p) /\ ListTool!Children(p) = Children(p)
  BY Zenon DEF ListTool!Lstat, Lstat, ListTool!Above, Above, ListTool!Children, Children
<1>2. ListTool!NoScan = NoScan
  BY Zenon DEF ListTool!NoScan, NoScan
<1>3. \A p : ListTool!BirthOf(p) = BirthOf(p)
  BY Zenon DEF ListTool!BirthOf, BirthOf
<1>4. ListTool!Entries = Entries
  <2>1. \A all : ListTool!SortedByPath(all) = SortedByPath(all)
    BY Zenon DEF ListTool!SortedByPath, SortedByPath, ListTool!Elements, Elements,
       ListTool!InPathOrder, InPathOrder, ListTool!Cardinality, Cardinality
  <2>2. \A s : ListTool!Elements(s) = Elements(s)
    BY Zenon DEF ListTool!Elements, Elements
  <2>3. QED
    BY <2>1, <2>2, Zenon DEF ListTool!Entries, Entries
<1>5. ListTool!EndFault = EndFault
  BY <1>1, <1>3, Zenon DEF ListTool!EndFault, EndFault
<1>6. \A p : ListTool!Inspected(p) = Inspected(p) /\ ListTool!ScanFault(p) = ScanFault(p)
  BY <1>1, Zenon DEF ListTool!Inspected, Inspected, ListTool!ScanFault, ScanFault
<1>7. \A p : ListTool!ScanOf(p) = ScanOf(p)
  BY <1>1, <1>3 DEF ListTool!ScanOf, ScanOf
<1>8. QED
  BY <1>1, <1>2, <1>4, <1>5, <1>6, <1>7

ListCodes == {"none", "ok", "not found", "denied", "wrong type", "timeout", "limit"}

\* The entries of the directory in path order, when they have been listed
Directories == SortedByPath(EntriesOf(Directory))

ListTypes ==
  /\ tree \in [Path -> ListTool!Entry] /\ changes \in 0 .. ListChanges
  /\ pc \in {"idle", "resolve", "scan"}
  /\ asked \in [offset : Nat, limit : Limits \cup {1}]
  /\ reply.code \in ListCodes /\ reply.next \in Nat \cup {None}
  /\ pc # "scan" => scan = NoScan
  /\ pc = "scan" => scan.dir = Directory
  /\ late \in BOOLEAN /\ steady \in BOOLEAN
  /\ pc # "idle" => reply.code = "none"

\* The pages of a directory that nobody touches are the beginning of the whole.
ListedSoFar ==
  steady =>
    /\ \A i \in 1 .. Len(got) : got[i] = Directories[i]
    /\ got # << >> \/ reply.code = "ok" =>
         /\ Len(Directories) \in Nat /\ Len(got) <= Len(Directories)
         /\ InPathOrder(Directories) /\ Elements(Directories) = EntriesOf(Directory)
    /\ pc # "idle" => asked.offset = Len(got) /\ (got # << >> => Len(got) < Len(Directories))
    /\ reply.code = "ok" =>
         \/ reply.next = None /\ Len(got) = Len(Directories)
         \/ reply.next = Len(got) /\ got # << >> /\ Len(got) < Len(Directories)

ListInv == ListTypes /\ ScanInv /\ ListedSoFar /\ got \in Seq([path : Path, kind : Listable])

LEMMA ListKinds ==
  tree \in [Path -> ListTool!Entry] => TreeKinds
BY DEF ListTool!Entry, TreeKinds, Listable

LEMMA ListFaults ==
  /\ \A d, kind : ListTool!Denial(d, kind) # "none" => ListTool!Denial(d, kind) \in ListCodes \ {"none", "ok"}
  /\ \A p : ScanFault(p) # "none" => ScanFault(p) \in ListCodes \ {"none", "ok"}
  /\ EndFault # "none" => EndFault \in ListCodes \ {"none", "ok"}
<1>1. \A d, kind : ListTool!Denial(d, kind) \in {"not found", "denied", "none", "wrong type"}
  BY DEF ListTool!Denial
<1>2. \A p : ScanFault(p) \in {"timeout", "limit", "not found", "none"}
  BY DEF ScanFault
<1>3. EndFault \in {"not found", "denied", "none"}
  BY DEF EndFault
<1>4. QED
  BY <1>1, <1>2, <1>3 DEF ListCodes

\* A call of workspace.list fails.
LEMMA ListingFails ==
  ASSUME ListInv, NEW c \in ListCodes \ {"none", "ok"}, ListTool!Fails(c)
  PROVE  ListInv'
<1>1. /\ pc' = "idle" /\ scan' = NoScan /\ reply'.code = c /\ reply'.next = None
      /\ UNCHANGED <<tree, changes, late, steady, asked, got>>
  BY SameTree DEF ListTool!Fails, ListTool!treeVars, ListTool!NoReply
<1>2. ScanInv'
  BY <1>1, NothingIsListed
<1>3. ListTypes'
  BY <1>1 DEF ListInv, ListTypes, NoScan
<1>4. Directories' = Directories /\ EntriesOf(Directory)' = EntriesOf(Directory)
  BY <1>1 DEF Directories, EntriesOf, Existing, Listed, Lstat, Children
<1>5. ListedSoFar'
  BY <1>1, <1>4 DEF ListInv, ListedSoFar, InPathOrder, Elements
<1>6. QED
  BY <1>1, <1>2, <1>3, <1>5 DEF ListInv

\* What lies in the directory does not change while the tree does not.
LEMMA SameDirectory ==
  UNCHANGED tree => /\ Directories' = Directories /\ EntriesOf(Directory)' = EntriesOf(Directory)
                    /\ InPathOrder(Directories)' = InPathOrder(Directories)
                    /\ Elements(Directories)' = Elements(Directories)
BY DEF Directories, EntriesOf, Existing, Listed, Lstat, Children, InPathOrder, Elements

\* What the user, the clock and the client do, and the listing up to its end.
LEMMA ListingGoesOn ==
  ASSUME ListInv,
         \/ ListTool!UserChanges \/ ListTool!Ask \/ ListTool!Elapse
         \/ ListTool!Resolve \/ ListTool!Inspect
  PROVE  ListInv'
<1> USE DEF ListTool!treeVars
<1>1. CASE ListTool!UserChanges
  <2>1. /\ changes < ListChanges /\ changes' = changes + 1 /\ steady' = FALSE
        /\ UNCHANGED <<pc, late, scan, asked, reply, got>>
    BY <1>1 DEF ListTool!UserChanges, ListTool!Change
  <2>2. tree' \in [Path -> ListTool!Entry]
    <3>1. PICK p \in Path, e \in [kind : {"directory", "blocked", "absent"}, content : {ListTool!NoContent}]
                              \cup [kind : {"file"}, content : ListContents] :
            tree' = [tree EXCEPT ![p] = [kind |-> e.kind, content |-> e.content, birth |-> changes + 1]]
      BY <1>1, Zenon DEF ListTool!UserChanges, ListTool!Change
    <3>2. [kind |-> e.kind, content |-> e.content, birth |-> changes + 1] \in ListTool!Entry
      BY DEF ListInv, ListTypes, ListTool!Entry
    <3>3. QED
      BY <3>1, <3>2 DEF ListInv, ListTypes
  <2>3. changes' \in 0 .. ListChanges
    BY <2>1, ListAssumption DEF ListInv, ListTypes
  <2>4. ScanInv'
    BY <2>1, ScanStays DEF ListInv
  <2>5. ListTypes'
    BY <2>1, <2>2, <2>3 DEF ListInv, ListTypes, NoScan
  <2>6. QED
    BY <2>1, <2>4, <2>5 DEF ListInv, ListedSoFar
<1>2. CASE ListTool!Ask
  <2>1. /\ pc = "idle" /\ pc' = "resolve" /\ late' = FALSE /\ reply'.code = "none" /\ reply'.next = None
        /\ UNCHANGED <<tree, changes, scan>>
    BY <1>2 DEF ListTool!Ask, ListTool!NoReply
  <2>2. PICK n \in Limits :
          \/ asked' = [offset |-> 0, limit |-> n] /\ got' = << >> /\ steady' = TRUE
          \/ /\ reply.code = "ok" /\ reply.next # None
             /\ asked' = [offset |-> reply.next, limit |-> n] /\ UNCHANGED <<got, steady>>
    BY <1>2 DEF ListTool!Ask
  <2>3. scan' = NoScan /\ ScanInv'
    <3>1. scan' = NoScan
      BY <2>1 DEF ListInv, ListTypes
    <3>2. QED
      BY <2>1, <3>1, NothingIsListed
  <2>4. CASE asked' = [offset |-> 0, limit |-> n] /\ got' = << >> /\ steady' = TRUE
    <3>1. ListTypes'
      BY <2>1, <2>3, <2>4 DEF ListInv, ListTypes, ListCodes, NoScan
    <3>2. ListedSoFar'
      BY <2>1, <2>4 DEF ListedSoFar
    <3>3. got' \in Seq([path : Path, kind : Listable])
      BY <2>4, EmptyScan
    <3>4. QED
      BY <2>3, <3>1, <3>2, <3>3 DEF ListInv
  <2>5. CASE /\ reply.code = "ok" /\ reply.next # None
             /\ asked' = [offset |-> reply.next, limit |-> n] /\ UNCHANGED <<got, steady>>
    <3>1. ListTypes'
      BY <2>1, <2>3, <2>5 DEF ListInv, ListTypes, ListCodes, NoScan
    <3>2. ListedSoFar'
      BY <2>1, <2>5, SameDirectory DEF ListInv, ListedSoFar
    <3>3. QED
      BY <2>3, <2>5, <3>1, <3>2 DEF ListInv
  <2>6. QED
    BY <2>2, <2>4, <2>5
<1>3. CASE ListTool!Elapse
  <2>1. /\ late' = TRUE
        /\ UNCHANGED <<tree, changes, pc, scan, steady, asked, reply, got>>
    BY <1>3 DEF ListTool!Elapse
  <2>2. ScanInv'
    BY <2>1, ScanStays DEF ListInv
  <2>3. QED
    BY <2>1, <2>2, SameDirectory DEF ListInv, ListTypes, ListedSoFar, NoScan
<1>4. CASE ListTool!Resolve
  <2> DEFINE fault == IF Directory = 0 THEN "none" ELSE ListTool!Denial(Directory, "directory")
  <2>1. CASE fault # "none"
    <3>1. ListTool!Fails(fault)
      BY <1>4, <2>1, Zenon DEF ListTool!Resolve
    <3>2. fault \in ListCodes \ {"none", "ok"}
      BY <2>1, ListFaults
    <3>3. QED
      BY <3>1, <3>2, ListingFails
  <2>2. CASE fault = "none"
    <3>1. /\ pc = "resolve" /\ pc' = "scan" /\ scan' = ScanOf(Directory)
          /\ UNCHANGED <<tree, changes, late, steady, asked, reply, got>>
      BY <1>4, <2>2, SameTree DEF ListTool!Resolve
    <3>2. ScanInv'
      BY <3>1, ScanBegins, ListAssumption
    <3>3. scan'.dir = Directory
      BY <3>1 DEF ScanOf
    <3>4. ListTypes'
      BY <3>1, <3>3 DEF ListInv, ListTypes
    <3>5. ListedSoFar'
      BY <3>1, SameDirectory DEF ListInv, ListedSoFar
    <3>6. QED
      BY <3>1, <3>2, <3>4, <3>5 DEF ListInv
  <2>3. QED
    BY <2>1, <2>2
<1>5. CASE ListTool!Inspect
  <2>1. pc = "scan"
    BY <1>5 DEF ListTool!Inspect
  <2>2. PICK p \in scan.names :
          IF ListTool!ScanFault(p) # "none" THEN ListTool!Fails(ListTool!ScanFault(p))
          ELSE /\ scan' = ListTool!Inspected(p)
               /\ UNCHANGED <<tree, changes, pc, late, steady, asked, reply, got>>
    BY <1>5 DEF ListTool!Inspect
  <2>3. CASE ScanFault(p) # "none"
    <3>1. ListTool!Fails(ScanFault(p))
      BY <2>2, <2>3, SameTree
    <3>2. ScanFault(p) \in ListCodes \ {"none", "ok"}
      BY <2>3, ListFaults
    <3>3. QED
      BY <3>1, <3>2, ListingFails
  <2>4. CASE ScanFault(p) = "none"
    <3>1. /\ scan' = Inspected(p)
          /\ UNCHANGED <<tree, changes, pc, late, steady, asked, reply, got>>
      BY <2>2, <2>4, SameTree
    <3>2. TreeKinds /\ ScanInv
      BY ListKinds DEF ListInv, ListTypes
    <3>3. ScanInv'
      BY <2>1, <2>4, <3>1, <3>2, ScanGoesOn
    <3>4. scan'.dir = scan.dir
      BY <3>1, <3>2 DEF Inspected
    <3>5. ListTypes'
      BY <2>1, <3>1, <3>4 DEF ListInv, ListTypes
    <3>6. ListedSoFar'
      BY <3>1, SameDirectory DEF ListInv, ListedSoFar
    <3>7. QED
      BY <3>1, <3>3, <3>5, <3>6 DEF ListInv
  <2>5. QED
    BY <2>3, <2>4
<1>6. QED
  BY <1>1, <1>2, <1>3, <1>4, <1>5

\* The page that is answered continues the pages before it.
LEMMA PageIsTheDirectory ==
  ASSUME ListInv, ListTool!Answer
  PROVE  ListInv'
<1>1. pc = "scan" /\ scan.names = {} /\ scan.dir = Directory /\ reply.code = "none"
  BY DEF ListTool!Answer, ListInv, ListTypes
<1>2. CASE EndFault # "none"
  <2>1. ListTool!Fails(EndFault)
    BY <1>2, SameTree DEF ListTool!Answer
  <2>2. EndFault \in ListCodes \ {"none", "ok"}
    BY <1>2, ListFaults
  <2>3. QED
    BY <2>1, <2>2, ListingFails
<1>3. CASE EndFault = "none"
  <2> DEFINE n == Len(scan.seen)
             end == asked.offset + asked.limit
             last == IF end < n THEN end ELSE n
             page == SubSeq(Entries, asked.offset + 1, last)
             T == [path : Path, kind : Listable]
  <2>1. /\ steady => Elements(scan.seen) = EntriesOf(Directory)
        /\ Elements(Entries) = Elements(scan.seen) /\ InPathOrder(Entries)
        /\ Len(Entries) = n /\ Entries \in Seq(T)
    BY <1>1, ScanEnds DEF ListInv
  <2>2. ListTool!Page(asked.offset, asked.limit) = page
    BY <2>1, SameTree DEF ListTool!Page, ListTool!Slice
  <2>3. /\ reply' = [code |-> "ok", entries |-> page, next |-> IF end < n THEN end ELSE None]
        /\ got' = got \o page /\ pc' = "idle" /\ scan' = NoScan
        /\ UNCHANGED <<tree, changes, late, steady, asked>>
    BY <1>3, <2>2, SameTree DEF ListTool!Answer, ListTool!treeVars
  <2>4. /\ n \in Nat /\ asked.offset \in Nat /\ asked.limit \in Nat /\ asked.limit > 0
        /\ end \in Nat /\ end > asked.offset /\ last \in Nat /\ last <= n
    <3>1. n \in Nat
      <4>1. Entries \in Seq(T) /\ Len(Entries) = n
        BY <2>1
      <4>2. QED
        BY <4>1
    <3>2. asked.offset \in Nat /\ asked.limit \in Limits \cup {1}
      BY DEF ListInv, ListTypes
    <3>3. asked.limit \in Nat /\ asked.limit > 0
      <4>1. \A m \in Limits \cup {1} : m \in Nat /\ m # 0
        <5>1. \A m \in Limits : m \in Nat /\ m # 0
          BY ListAssumption, Zenon
        <5>2. \A m \in {1} : m \in Nat /\ m # 0
          OBVIOUS
        <5>3. QED
          BY <5>1, <5>2, Zenon
      <4>2. QED
        BY <3>2, <4>1
    <3>4. QED
      BY <3>1, <3>2, <3>3
  <2>5. ScanInv'
    BY <2>3, NothingIsListed
  <2>6. ListTypes'
    <3>1. reply'.code = "ok" /\ reply'.next \in Nat \cup {None}
      BY <2>3, <2>4
    <3>2. QED
      BY <2>3, <3>1 DEF ListInv, ListTypes, ListCodes
  <2> DEFINE all == Entries
  <2> HIDE DEF n, end, T, all
  <2>7. /\ page \in Seq(T)
        /\ asked.offset < n => /\ Len(page) = last - asked.offset
                               /\ \A i \in 1 .. Len(page) : page[i] = all[asked.offset + i]
        /\ asked.offset >= n => page = << >>
    <3>1. all \in Seq(T) /\ Len(all) = n /\ page = SubSeq(all, asked.offset + 1, last)
      BY <2>1 DEF all
    <3> HIDE DEF page
    <3>2. CASE asked.offset < n
      <4>1. asked.offset + 1 \in 1 .. n /\ last \in 1 .. n /\ asked.offset + 1 <= last
        BY <2>4, <3>2
      <4>2. page \in Seq(T) /\ Len(page) = last - asked.offset
        BY <2>4, <3>1, <4>1
      <4>3. \A i \in 1 .. Len(page) : page[i] = all[asked.offset + i]
        <5>1. asked.offset \in Nat /\ asked.offset + 1 \in Nat /\ last \in Nat
          BY <2>4, <4>1
        <5>2. \A i \in 1 .. (last - asked.offset) : (asked.offset + 1) + i - 1 = asked.offset + i
          BY <5>1
        <5>3. \A i \in 1 .. (last - asked.offset) : page[i] = all[(asked.offset + 1) + i - 1]
          BY ONLY <3>1, <4>1, <5>1
        <5>4. QED
          BY ONLY <4>2, <5>2, <5>3
      <4>4. QED
        BY <2>4, <3>2, <4>2, <4>3
    <3>3. CASE asked.offset >= n
      <4>1. last = n /\ asked.offset + 1 > last
        BY <2>4, <3>3
      <4>2. page = << >>
        BY <2>4, <3>1, <4>1
      <4>3. << >> \in Seq(T) /\ ~ (asked.offset < n)
        BY <2>4, <3>3
      <4>4. QED
        BY <4>2, <4>3
    <3>4. QED
      BY <2>4, <3>2, <3>3
  <2> HIDE DEF page
  <2>8. got \in Seq(T) /\ got' \in Seq(T)
    <3>1. got \in Seq(T)
      BY DEF ListInv, T
    <3>2. QED
      BY <2>3, <2>7, <3>1
  <2>9. ListedSoFar'
    <3>1. SUFFICES ASSUME steady
                   PROVE  ListedSoFar'
      BY <2>3 DEF ListedSoFar
    <3>2. /\ Directories = all /\ Elements(all) = EntriesOf(Directory)
          /\ InPathOrder(all) /\ Len(all) = n
      BY <2>1, <3>1 DEF Directories, Entries, all
    <3>3. /\ \A i \in 1 .. Len(got) : got[i] = all[i]
          /\ asked.offset = Len(got) /\ (got # << >> => Len(got) < n)
      BY <1>1, <3>1, <3>2 DEF ListInv, ListedSoFar
    <3>4. /\ Len(got') = Len(got) + Len(page) /\ Len(got') = last
          /\ n > 0 => got' # << >>
      <4>1. Len(got') = Len(got) + Len(page)
        BY <2>3, <2>7, <2>8
      <4>2. CASE asked.offset < n
        <5>1. last > 0 /\ Len(got') = last
          BY <2>4, <2>7, <2>8, <3>3, <4>1, <4>2
        <5>2. QED
          BY <2>4, <2>8, <4>1, <5>1
      <4>3. CASE asked.offset >= n
        <5>1. got = << >> /\ asked.offset = 0 /\ n = 0
          BY <2>4, <2>8, <3>3, <4>3
        <5>2. last = 0 /\ Len(page) = 0
          BY <2>4, <2>7, <4>3, <5>1
        <5>3. QED
          BY <2>4, <4>1, <5>1, <5>2
      <4>4. QED
        BY <2>4, <4>2, <4>3
    <3>5. \A i \in 1 .. Len(got') : got'[i] = all[i]
      <4>1. SUFFICES ASSUME NEW i \in 1 .. Len(got')
                     PROVE  got'[i] = all[i]
        OBVIOUS
      <4>2. CASE i <= Len(got)
        BY <2>3, <2>7, <2>8, <3>3, <4>2
      <4>3. CASE i > Len(got)
        <5>1. i - Len(got) \in 1 .. Len(page) /\ got'[i] = page[i - Len(got)]
          BY <2>3, <2>7, <2>8, <3>4, <4>3
        <5>2. asked.offset < n
          BY <2>4, <2>7, <5>1
        <5>3. page[i - Len(got)] = all[asked.offset + (i - Len(got))]
              /\ asked.offset + (i - Len(got)) = i
          BY <2>7, <2>8, <3>3, <5>1, <5>2
        <5>4. QED
          BY <5>1, <5>3
      <4>4. QED
        BY <2>8, <4>2, <4>3
    <3>6. \/ reply'.next = None /\ Len(got') = n
          \/ reply'.next = Len(got') /\ got' # << >> /\ Len(got') < n
      <4>1. CASE end < n
        <5>1. reply'.next = end /\ last = end
          BY <2>3, <4>1
        <5>2. QED
          BY <2>4, <3>4, <4>1, <5>1
      <4>2. CASE ~ (end < n)
        BY <2>3, <3>4, <4>2
      <4>3. QED
        BY <4>1, <4>2
    <3>7. Directories' = all /\ EntriesOf(Directory)' = EntriesOf(Directory)
      BY <2>3, <3>2, SameDirectory
    <3>8. pc' = "idle" /\ Len(got') <= n
      BY <2>3, <2>4, <3>4
    <3>9. InPathOrder(Directories)' /\ Elements(Directories)' = EntriesOf(Directory)
      BY <2>3, <3>2, SameDirectory
    <3>10. QED
      BY <2>4, <3>2, <3>5, <3>6, <3>7, <3>8, <3>9 DEF ListedSoFar
  <2>10. QED
    BY <2>5, <2>6, <2>8, <2>9 DEF ListInv, T
<1>4. QED
  BY <1>2, <1>3

\* The invariant of the listing.
LEMMA ListInductive ==
  /\ ListTool!Init => ListInv
  /\ ListInv /\ [ListTool!Next]_ListTool!vars => ListInv'
<1>1. ASSUME ListTool!Init
      PROVE  ListInv
  <2>1. /\ tree \in ListTrees /\ changes = 0 /\ scan = NoScan /\ steady = FALSE
        /\ pc = "idle" /\ late = FALSE /\ asked = [offset |-> 0, limit |-> 1]
        /\ reply.code = "none" /\ reply.next = None /\ got = << >>
    BY <1>1, SameTree DEF ListTool!Init, ListTool!TreeInit, ListTool!NoReply
  <2>2. ScanInv
    <3>1. MAX_DIRECTORY_ENTRIES \in Nat
      BY EntriesAssumption
    <3>2. scan.dir = 0 /\ scan.names = {} /\ scan.seen = << >> /\ pc # "scan"
      BY <2>1, EmptyScan
    <3>3. /\ Elements(scan.seen) = {} /\ Len(scan.seen) = 0 /\ Len(scan.seen) <= MAX_DIRECTORY_ENTRIES
          /\ scan.seen \in Seq([path : Path, kind : Listable])
      BY <3>1, <3>2, EmptyScan
    <3>4. QED
      BY <3>2, <3>3, EmptyScan DEF ScanInv
  <2>3. ListTypes
    <3>1. tree \in [Path -> ListTool!Entry] /\ changes \in 0 .. ListChanges
      BY <2>1, ListAssumption
    <3>2. QED
      BY <2>1, <3>1 DEF ListTypes, ListCodes, NoScan
  <2>4. got \in Seq([path : Path, kind : Listable])
    BY <2>1, EmptyScan
  <2>5. QED
    BY <2>1, <2>2, <2>3, <2>4 DEF ListInv, ListedSoFar
<1>2. ASSUME ListInv, [ListTool!Next]_ListTool!vars
      PROVE  ListInv'
  <2>1. CASE UNCHANGED ListTool!vars
    <3>1. UNCHANGED <<tree, changes, pc, late, scan, steady, asked, reply, got>>
      BY <2>1 DEF ListTool!vars, ListTool!treeVars
    <3>2. ScanInv'
      BY <1>2, <3>1, ScanStays DEF ListInv
    <3>3. QED
      BY <1>2, <3>1, <3>2, SameDirectory DEF ListInv, ListTypes, ListedSoFar, NoScan
  <2>2. CASE ListTool!Next
    BY <1>2, <2>2, ListingGoesOn, PageIsTheDirectory DEF ListTool!Next
  <2>3. QED
    BY <1>2, <2>1, <2>2
<1>3. QED
  BY <1>1, <1>2

\* What the invariant says of the pages a client has put together.
LEMMA PagesOfTheDirectory ==
  ListInv => ListTool!TypeOK /\ ListTool!PagesAreTheDirectory
<1>1. SUFFICES ASSUME ListInv
               PROVE  ListTool!TypeOK /\ ListTool!PagesAreTheDirectory
  OBVIOUS
<1>2. ListTool!TypeOK
  <2>1. scan.names \subseteq ListTool!Children(scan.dir)
    BY <1>1, SameTree DEF ListInv, ScanInv
  <2>2. pc = "scan" \/ scan = ListTool!NoScan
    BY <1>1, SameTree DEF ListInv, ListTypes
  <2>3. QED
    BY <1>1, <2>1, <2>2 DEF ListInv, ListTypes, ScanInv, ListTool!TypeOK, ListTool!TreeTypeOK, ListCodes
<1>3. ASSUME steady, reply.code = "ok"
      PROVE  /\ \A i, j \in 1 .. Len(got) : i < j => got[i].path < got[j].path
             /\ \A p \in Children(Directory) : Lstat(p) # "absent" =>
                  \/ [path |-> p, kind |-> Lstat(p)] \in {got[i] : i \in 1 .. Len(got)}
                  \/ reply.next # None /\ \A i \in 1 .. Len(got) : got[i].path < p
  <2>1. /\ \A i \in 1 .. Len(got) : got[i] = Directories[i]
        /\ Len(Directories) \in Nat /\ Len(got) <= Len(Directories)
        /\ InPathOrder(Directories) /\ Elements(Directories) = EntriesOf(Directory)
        /\ \/ reply.next = None /\ Len(got) = Len(Directories)
           \/ reply.next = Len(got) /\ Len(got) < Len(Directories)
    BY <1>1, <1>3 DEF ListInv, ListedSoFar
  <2>2. Len(got) \in Nat /\ None \notin Nat
    <3> DEFINE T == [path : Path, kind : Listable]
    <3>1. got \in Seq(T)
      BY <1>1 DEF ListInv
    <3> HIDE DEF T
    <3>2. QED
      BY <3>1, ReadAssumption
  <2> DEFINE n == Len(Directories)
  <2> HIDE DEF n
  <2>3. \A i, j \in 1 .. n : i < j => Directories[i].path < Directories[j].path
    BY <2>1 DEF InPathOrder, n
  <2>4. \A i \in 1 .. Len(got) : i \in 1 .. n
    BY <2>1, <2>2 DEF n
  <2>5. \A i, j \in 1 .. Len(got) : i < j => got[i].path < got[j].path
    BY <2>1, <2>3, <2>4
  <2>6. ASSUME NEW p \in Children(Directory), Lstat(p) # "absent",
               [path |-> p, kind |-> Lstat(p)] \notin {got[i] : i \in 1 .. Len(got)}
        PROVE  reply.next # None /\ \A i \in 1 .. Len(got) : got[i].path < p
    <3>1. [path |-> p, kind |-> Lstat(p)] \in EntriesOf(Directory)
      BY <2>6 DEF EntriesOf, Existing, Listed
    <3>2. PICK k \in 1 .. n : Directories[k] = [path |-> p, kind |-> Lstat(p)]
      BY <2>1, <3>1 DEF Elements, n
    <3>3. Directories[k].path = p
      BY <3>2
    <3>4. ~ (k \in 1 .. Len(got))
      BY <2>1, <2>6, <3>2
    <3>5. k \in Nat /\ k > Len(got) /\ k <= n /\ n \in Nat
      BY <2>1, <2>2, <3>4 DEF n
    <3>6. reply.next # None
      BY <2>1, <2>2, <3>5 DEF n
    <3>7. \A i \in 1 .. Len(got) : got[i].path < p
      <4>1. SUFFICES ASSUME NEW i \in 1 .. Len(got)
                     PROVE  got[i].path < p
        OBVIOUS
      <4>2. i < k /\ i \in 1 .. n
        BY <2>2, <2>4, <3>5
      <4>3. Directories[i].path < Directories[k].path
        BY <2>3, <4>2
      <4>4. QED
        BY <2>1, <3>3, <4>3
    <3>8. QED
      BY <3>6, <3>7
  <2>7. QED
    BY <2>5, <2>6
<1>4. ListTool!PagesAreTheDirectory
  BY <1>3, SameTree, Zenon DEF ListTool!PagesAreTheDirectory
<1>5. QED
  BY <1>2, <1>4

\* The Tool lists alone in its part of the composition.
LEMMA ListAlone ==
  /\ ToolsInit /\ part = "list" => ListTool!Init
  /\ [ToolsNext]_allVars /\ part = "list" => [ListTool!Next]_ListTool!vars
<1>1. UNCHANGED allVars => UNCHANGED ListTool!vars
  BY DEF allVars, vars, treeVars, counts, request, readOnly, ListTool!vars, ListTool!treeVars
<1>2. ToolsNext /\ part = "list" => ListTool!Next
  BY Zenon DEF ToolsNext
<1>3. ToolsInit /\ part = "list" => ListTool!Init
  BY Zenon DEF ToolsInit
<1>4. QED
  BY <1>1, <1>2, <1>3

-----------------------------------------------------------------------------
(* The directories above a path *)

\* Whether a path is another one or leads to it.
Leads(q, p) == q = p \/ q \in Above[p]

\* Above is what its equation says.
LEMMA AboveUnfolds ==
  \A p \in Path : Above[p] = IF Parent[p] = 0 THEN {} ELSE {Parent[p]} \cup Above[Parent[p]]
<1> DEFINE Closed(C, p) == /\ Parent[p] # 0 => Parent[p] \in C
                           /\ \A q \in C : Parent[q] # 0 => Parent[q] \in C
           up(p) == {q \in Path : \A C \in SUBSET Path : Closed(C, p) => q \in C}
           g == [p \in Path |-> up(p)]
           IsAbove(f) == f = [p \in Path |-> IF Parent[p] = 0 THEN {} ELSE {Parent[p]} \cup f[Parent[p]]]
<1>1. \A p \in Path : Parent[p] = 0 \/ Parent[p] \in Path
  BY PathAssumption
<1>2. ASSUME NEW p \in Path
      PROVE  up(p) = IF Parent[p] = 0 THEN {} ELSE {Parent[p]} \cup up(Parent[p])
  <2>1. CASE Parent[p] = 0
    <3>1. Closed({}, p)
      BY <2>1
    <3>2. QED
      BY <2>1, <3>1
  <2>2. CASE Parent[p] # 0
    <3>1. Parent[p] \in Path
      BY <1>1, <2>2
    <3>2. Parent[p] \in up(p)
      BY <2>2, <3>1
    <3>3. up(Parent[p]) \subseteq up(p)
      <4>1. ASSUME NEW C \in SUBSET Path, Closed(C, p)
            PROVE  Closed(C, Parent[p])
        BY <2>2, <4>1
      <4>2. QED
        BY <4>1
    <3>4. up(p) \subseteq {Parent[p]} \cup up(Parent[p])
      <4> DEFINE D == {Parent[p]} \cup up(Parent[p])
      <4>1. D \in SUBSET Path
        BY <3>1
      <4>2. ASSUME NEW q \in D, Parent[q] # 0
            PROVE  Parent[q] \in D
        <5>1. q \in Path /\ Parent[q] \in Path
          BY <1>1, <4>1, <4>2
        <5>2. CASE q = Parent[p]
          BY <4>2, <5>1, <5>2
        <5>3. CASE q \in up(Parent[p])
          <6>1. ASSUME NEW C \in SUBSET Path, Closed(C, Parent[p])
                PROVE  Parent[q] \in C
            <7>1. q \in C
              BY <5>3, <6>1
            <7>2. QED
              BY <4>2, <6>1, <7>1
          <6>2. QED
            BY <5>1, <6>1
        <5>4. QED
          BY <4>2, <5>2, <5>3
      <4>3. Closed(D, p)
        BY <4>2
      <4>4. QED
        BY <4>1, <4>3
    <3>5. QED
      BY <2>2, <3>2, <3>3, <3>4
  <2>3. QED
    BY <2>1, <2>2
<1> HIDE DEF up
<1>3. IsAbove(g)
  <2>1. \A p \in Path : g[p] = up(p)
    OBVIOUS
  <2>2. \A p \in Path : up(p) = IF Parent[p] = 0 THEN {} ELSE {Parent[p]} \cup g[Parent[p]]
    BY <1>1, <1>2, <2>1
  <2>3. QED
    BY <2>2
<1>4. IsAbove(CHOOSE f : IsAbove(f))
  BY <1>3, Zenon
<1>5. Above = CHOOSE f : IsAbove(f)
  BY Zenon DEF Above
<1> HIDE DEF g
<1>6. IsAbove(Above)
  BY <1>4, <1>5, Zenon
<1>7. QED
  BY <1>6

\* What the search knows of a path by the directories above it.
LEMMA AboveIsAChain ==
  \A p \in Path :
    /\ Above[p] \subseteq Path /\ IsFiniteSet(Above[p])
    /\ \A q \in Above[p] : q < p /\ Above[q] \subseteq Above[p]
    /\ \A d \in Above[p] \cup {0} : \E q \in Children(d) : Leads(q, p)
<1> DEFINE Good(p) ==
      /\ Above[p] \subseteq Path /\ IsFiniteSet(Above[p])
      /\ \A q \in Above[p] : q < p /\ Above[q] \subseteq Above[p]
      /\ \A d \in Above[p] \cup {0} : \E q \in Children(d) : Leads(q, p)
      Bad == {p \in Path : ~ Good(p)}
<1>1. SUFFICES ASSUME Bad # {}
               PROVE  FALSE
  OBVIOUS
<1>2. Bad \subseteq Nat
  BY PathAssumption
<1>3. PICK p \in Bad : \A q \in Bad : p <= q
  <2> HIDE DEF Bad
  <2>1. QED
    BY <1>1, <1>2, LeastNatural
<1>4. p \in Path /\ p \in Nat
  BY <1>2
<1>5. CASE Parent[p] = 0
  <2>1. Above[p] = {} /\ p \in Children(0)
    BY <1>4, <1>5, AboveUnfolds DEF Children
  <2>2. Good(p)
    BY <1>5, <2>1, FS_EmptySet DEF Leads
  <2>3. QED
    BY <1>3, <2>2
<1>6. CASE Parent[p] # 0
  <2> DEFINE r == Parent[p]
  <2>1. r \in Path /\ r \in Nat /\ r < p
    BY <1>4, <1>6, PathAssumption, ParentAssumption
  <2>2. r \notin Bad
    BY <1>2, <1>3, <1>4, <2>1
  <2>3. Good(r)
    BY <2>1, <2>2
  <2>4. Above[p] = {r} \cup Above[r]
    BY <1>4, <1>6, AboveUnfolds
  <2>5. p \in Children(r)
    BY <1>4 DEF Children
  <2> HIDE DEF r
  <2>6. Above[p] \subseteq Path /\ IsFiniteSet(Above[p])
    <3>1. IsFiniteSet(Above[r])
      BY <2>3
    <3>2. IsFiniteSet(Above[r] \cup {r})
      BY <3>1, FS_AddElement
    <3>3. Above[p] = Above[r] \cup {r}
      BY <2>4
    <3>4. QED
      BY <2>1, <2>3, <3>2, <3>3
  <2>7. \A q \in Above[p] : q < p /\ Above[q] \subseteq Above[p]
    <3>1. ASSUME NEW q \in Above[r]
          PROVE  q < p /\ Above[q] \subseteq Above[p]
      <4>1. q < r /\ Above[q] \subseteq Above[r] /\ q \in Path
        BY <2>3
      <4>2. q \in Nat
        BY <4>1, PathAssumption
      <4>3. QED
        BY <1>4, <2>1, <2>4, <4>1, <4>2
    <3>2. QED
      BY <2>1, <2>4, <3>1
  <2>8. \A d \in Above[p] \cup {0} : \E q \in Children(d) : Leads(q, p)
    <3>1. ASSUME NEW d \in Above[r] \cup {0}
          PROVE  \E q \in Children(d) : Leads(q, p)
      <4>1. PICK q \in Children(d) : Leads(q, r)
        BY <2>3
      <4>2. Leads(q, p)
        BY <2>4, <4>1 DEF Leads
      <4>3. QED
        BY <4>2
    <3>2. \E q \in Children(r) : Leads(q, p)
      BY <2>5 DEF Leads
    <3>3. QED
      BY <2>4, <3>1, <3>2
  <2>9. Good(p)
    BY <2>6, <2>7, <2>8
  <2>10. QED
    BY <1>3, <2>9
<1>7. QED
  BY <1>5, <1>6

\* A child lies one deeper than its directory.
LEMMA DepthOfAChild ==
  ASSUME NEW p \in Path
  PROVE  /\ Depth(p) \in Nat
         /\ Parent[p] = 0 => Depth(p) = 1
         /\ Parent[p] # 0 => Parent[p] \in Path /\ Depth(p) = Depth(Parent[p]) + 1
<1>1. IsFiniteSet(Above[p]) /\ Cardinality(Above[p]) \in Nat
  BY AboveIsAChain, FS_CardinalityType
<1>2. ASSUME Parent[p] = 0
      PROVE  Depth(p) = 1
  <2>1. Above[p] = {}
    BY <1>2, AboveUnfolds
  <2>2. Cardinality(Above[p]) = 0
    BY <2>1, FS_EmptySet
  <2>3. QED
    BY <2>2 DEF Depth
<1>3. ASSUME Parent[p] # 0
      PROVE  Parent[p] \in Path /\ Depth(p) = Depth(Parent[p]) + 1
  <2>1. Parent[p] \in Path
    BY <1>3, PathAssumption
  <2>2. Above[p] = Above[Parent[p]] \cup {Parent[p]}
    BY <1>3, AboveUnfolds
  <2>3. Parent[p] \notin Above[Parent[p]]
    <3>1. \A q \in Above[Parent[p]] : q < Parent[p]
      BY <2>1, AboveIsAChain
    <3>2. Parent[p] \in Nat
      BY <2>1, PathAssumption
    <3>3. QED
      BY <3>1, <3>2
  <2>4. IsFiniteSet(Above[Parent[p]]) /\ Cardinality(Above[Parent[p]]) \in Nat
    BY <2>1, AboveIsAChain, FS_CardinalityType
  <2>5. Cardinality(Above[p]) = Cardinality(Above[Parent[p]]) + 1
    BY <2>2, <2>3, <2>4, FS_AddElement
  <2>6. QED
    BY <2>1, <2>4, <2>5 DEF Depth
<1>4. QED
  BY <1>1, <1>2, <1>3 DEF Depth

-----------------------------------------------------------------------------
(* A search of the tree *)

Item == [path : Path, kind : Listable]
Match == Path \X Nat
Incidents == {"max_depth", "file_limit"}
Limit == {"max_results", "max_files", "max_total_bytes"}

SearchTypes ==
  /\ tree \in [Path -> Entry] /\ changes \in 0 .. MaxChanges
  /\ pc \in {"idle", "scan", "loop", "list", "size", "read"}
  /\ late \in BOOLEAN /\ steady \in BOOLEAN
  /\ max_results \in Results
  /\ pending \subseteq Item
  /\ entry = NoEntry \/ entry \in Item
  /\ matches \in Seq(Match) /\ Len(matches) <= max_results
  /\ scanned_files \in 0 .. MAX_SEARCH_FILES /\ scanned_bytes \in 0 .. MAX_SEARCH_TOTAL_BYTES
  /\ limit_reason \in {"none"} \cup Incidents \cup Limit
  /\ stop \in {"none"} \cup Limit

\* Where the call is; there is one call.
SearchPlace ==
  /\ pc # "scan" => scan = NoScan
  /\ pc = "scan" => scan.dir = entry.path
  /\ pc = "idle" /\ code = "none" =>
       entry = NoEntry /\ pending = {} /\ matches = << >> /\ limit_reason = "none" /\ stop = "none"
  /\ pc # "idle" => /\ code = "none" /\ stop = "none" /\ Len(matches) < max_results
                    /\ limit_reason \in {"none"} \cup Incidents
  /\ pc \in {"list", "size", "read"} => entry \in Item
  /\ pc = "list" => entry.kind = "directory"
  /\ pc \in {"size", "read"} => entry.kind = "file"
  /\ pc = "size" => scanned_files < MAX_SEARCH_FILES
  /\ pc = "read" => size \in Nat /\ scanned_bytes + size <= MAX_SEARCH_TOTAL_BYTES

\* The heap yields the paths in their order, whatever becomes of the tree.
HeapOrder ==
  /\ MatchesInOrder
  /\ pc # "idle" =>
       /\ \A e, f \in pending : e.path = f.path => e = f
       /\ \A e \in pending : entry.path < e.path /\ Parent[e.path] <= entry.path
       /\ pc \in {"list", "scan", "size", "read"} => \A e \in pending : Parent[e.path] # entry.path
       /\ \A i \in 1 .. Len(matches) : matches[i][1] <= entry.path
       /\ pc \in {"size", "read"} => \A i \in 1 .. Len(matches) : matches[i][1] < entry.path

\* What is still to be visited.
Open ==
  {e.path : e \in pending}
  \cup (IF pc = "scan" THEN scan.names \cup {e.path : e \in Elements(scan.seen)} ELSE {})
  \cup (IF pc \in {"list", "size", "read"} THEN {entry.path} ELSE {})

\* In a tree that nobody touches the heap holds what is there, no deeper than is
\* searched, and until a limit matters, all that was not searched is still ahead.
HeapCovers ==
  steady /\ pc # "idle" =>
    /\ \A e \in pending : e.kind = Lstat(e.path) /\ Depth(e.path) <= MAX_SEARCH_DEPTH
    /\ pc \in {"list", "size", "read"} =>
         entry.kind = Lstat(entry.path) /\ Depth(entry.path) <= MAX_SEARCH_DEPTH
    /\ pc \in {"list", "scan"} => entry.path = 0 \/ Depth(entry.path) < MAX_SEARCH_DEPTH
    /\ pc = "read" => ~ moved
    /\ Elements(matches) \subseteq AllHits
    /\ limit_reason = "none" =>
         \A p \in Path : Searchable(p) =>
           Hits(p) \subseteq Elements(matches) \/ \E q \in Open : Leads(q, p)

\* What was returned.
Returned ==
  UntruncatedIsComplete /\ TruncatedIsAPrefix

SearchInv == SearchTypes /\ ScanInv /\ SearchPlace /\ HeapOrder /\ HeapCovers /\ Returned

\* What is in a sequence of things is one of them.
LEMMA ElementsAreOf ==
  ASSUME NEW S, NEW s \in Seq(S)
  PROVE  Elements(s) \subseteq S
BY DEF Elements

\* The limits are numbers.
LEMMA SearchLimits ==
  /\ MaxChanges \in Nat /\ MAX_SEARCH_FILES \in Nat /\ MAX_SEARCH_TOTAL_BYTES \in Nat
  /\ MAX_TEXT_FILE_BYTES \in Nat /\ MAX_SEARCH_DEPTH \in Nat /\ MAX_SEARCH_DEPTH # 0
  /\ \A n \in Results : n \in Nat /\ n # 0
<1>1. /\ MaxChanges \in Nat
      /\ {MAX_SEARCH_FILES, MAX_SEARCH_TOTAL_BYTES, MAX_TEXT_FILE_BYTES} \subseteq Nat
      /\ Results \subseteq Nat \ {0} /\ MAX_SEARCH_DEPTH \in Nat \ {0}
  BY SearchAssumption, Zenon
<1>2. QED
  BY <1>1

\* What the tree holds does not change while nobody touches it.
LEMMA SameFinds ==
  UNCHANGED tree =>
    /\ AllHits' = AllHits
    /\ \A p : Searchable(p)' = Searchable(p) /\ Hits(p)' = Hits(p) /\ Lstat(p)' = Lstat(p)
<1>1. SUFFICES ASSUME UNCHANGED tree
               PROVE  /\ AllHits' = AllHits
                      /\ \A p : Searchable(p)' = Searchable(p) /\ Hits(p)' = Hits(p) /\ Lstat(p)' = Lstat(p)
  OBVIOUS
<1>2. \A p : Lstat(p)' = Lstat(p)
  BY <1>1 DEF Lstat
<1>3. \A p : Searchable(p)' = Searchable(p)
  BY <1>1, <1>2 DEF Searchable, Depth
<1>4. \A p : Hits(p)' = Hits(p)
  BY <1>1 DEF Hits, Found, Elements
<1>5. AllHits' = AllHits
  BY <1>3, <1>4 DEF AllHits
<1>6. QED
  BY <1>2, <1>3, <1>4, <1>5

\* What a file holds, and where its matches stand.
LEMMA FileContents ==
  ASSUME tree \in [Path -> Entry], NEW p \in Path
  PROVE  /\ tree[p].content.bytes \in Nat
         /\ tree[p].content.hits \in Seq(Nat) /\ Found(p) \in Seq(Match)
         /\ Len(Found(p)) = Len(tree[p].content.hits)
         /\ \A i \in 1 .. Len(Found(p)) : Found(p)[i][1] = p
         /\ \A i, j \in 1 .. Len(Found(p)) : i < j => Found(p)[i][2] < Found(p)[j][2]
<1> DEFINE c == tree[p].content
<1>1. c \in Contents \cup {NoContent}
  BY DEF Entry
<1>2. /\ c.bytes \in Nat /\ c.hits \in Seq(Nat)
      /\ \A i, j \in 1 .. Len(c.hits) : i < j => c.hits[i] < c.hits[j]
  <2>1. CASE c \in Contents
    BY <2>1, SearchAssumption
  <2>2. CASE c = NoContent
    <3>1. c.bytes = 0 /\ c.hits = << >>
      BY <2>2 DEF NoContent
    <3>2. << >> \in Seq(Nat) /\ Len(<< >>) = 0
      OBVIOUS
    <3>3. QED
      BY <3>1, <3>2
  <2>3. QED
    BY <1>1, <2>1, <2>2
<1>3. Found(p) = [i \in 1 .. Len(c.hits) |-> <<p, c.hits[i]>>]
  BY DEF Found
<1> HIDE DEF c
<1> DEFINE n == Len(c.hits)
           h == c.hits
<1>4. n \in Nat /\ \A i \in 1 .. n : h[i] \in Nat
  BY <1>2
<1>5. Found(p) \in [1 .. n -> Match]
  BY <1>3, <1>4 DEF Match
<1>6. Found(p) \in Seq(Match) /\ Len(Found(p)) = n
  BY <1>4, <1>5
<1>7. \A i \in 1 .. n : Found(p)[i][1] = p /\ Found(p)[i][2] = h[i]
  BY <1>3
<1>8. QED
  BY <1>2, <1>6, <1>7 DEF c

\* The matches of a path.
LEMMA HitsOfAPath ==
  ASSUME tree \in [Path -> Entry], NEW p \in Path, NEW m \in Hits(p)
  PROVE  m[1] = p /\ m \in Match
<1>1. PICK i \in 1 .. Len(Found(p)) : m = Found(p)[i]
  BY DEF Hits, Elements
<1>2. QED
  BY <1>1, FileContents

\* What leads to a file that is there is there, and a directory.
LEMMA WayToAFile ==
  ASSUME NEW p \in Path, Searchable(p)
  PROVE  /\ \A q \in Above[p] : q \in Path /\ Lstat(q) = "directory"
         /\ Lstat(p) = "file"
         /\ \A d \in Above[p] \cup {0} : \E q \in Existing(d) : Leads(q, p)
         /\ \A q : Leads(q, p) => q <= p
<1>1. Lstat(p) = "file" /\ \A q \in Above[p] : tree[q].kind = "directory"
  BY DEF Searchable, Lstat
<1>2. /\ Above[p] \subseteq Path
      /\ \A q \in Above[p] : q < p /\ Above[q] \subseteq Above[p]
      /\ \A d \in Above[p] \cup {0} : \E q \in Children(d) : Leads(q, p)
  BY AboveIsAChain
<1>3. \A q \in Above[p] : q \in Path /\ Lstat(q) = "directory"
  BY <1>1, <1>2 DEF Lstat
<1>4. \A d \in Above[p] \cup {0} : \E q \in Existing(d) : Leads(q, p)
  BY <1>1, <1>2, <1>3 DEF Existing, Leads
<1>5. \A q : Leads(q, p) => q <= p
  <2>1. p \in Nat /\ Path \subseteq Nat
    BY PathAssumption
  <2>2. QED
    BY <1>2, <2>1 DEF Leads
<1>6. QED
  BY <1>1, <1>3, <1>4, <1>5

\* The type of the tree, and of what a call has put in order.
LEMMA SearchKinds ==
  ASSUME SearchInv
  PROVE  /\ TreeKinds /\ tree \in [Path -> Entry] /\ Path \subseteq Nat \ {0} /\ 0 \in Nat
         /\ \A e \in pending : e \in Item /\ e.path \in Path
         /\ entry.path \in Path \cup {0} /\ entry.path \in Nat
         /\ \A i \in 1 .. Len(matches) : matches[i] \in Match /\ matches[i][1] \in Nat /\ matches[i][2] \in Nat
         /\ Len(matches) \in Nat /\ max_results \in Nat /\ max_results > 0
<1>1. tree \in [Path -> Entry] /\ pending \subseteq Item /\ matches \in Seq(Match)
      /\ max_results \in Results /\ (entry = NoEntry \/ entry \in Item)
  BY DEF SearchInv, SearchTypes
<1>2. TreeKinds
  BY <1>1 DEF TreeKinds, Entry, Listable
<1>3. Path \subseteq Nat \ {0}
  BY PathAssumption
<1>4. \A e \in pending : e \in Item /\ e.path \in Path
  BY <1>1 DEF Item
<1>5. entry.path \in Path \cup {0} /\ entry.path \in Nat
  BY <1>1, <1>3 DEF Item, NoEntry
<1>6. \A i \in 1 .. Len(matches) : matches[i] \in Match /\ matches[i][1] \in Nat /\ matches[i][2] \in Nat
  <2>1. ASSUME NEW i \in 1 .. Len(matches)
        PROVE  matches[i] \in Match /\ matches[i][1] \in Nat /\ matches[i][2] \in Nat
    <3>1. matches[i] \in Match
      BY <1>1
    <3>2. matches[i][1] \in Path /\ matches[i][2] \in Nat
      BY <3>1 DEF Match
    <3>3. QED
      BY <1>3, <3>1, <3>2
  <2>2. QED
    BY <2>1
<1>7. Len(matches) \in Nat
  BY <1>1
<1>8. max_results \in Nat /\ max_results > 0
  BY <1>1, SearchLimits
<1>9. QED
  BY <1>1, <1>2, <1>3, <1>4, <1>5, <1>6, <1>7, <1>8

\* A search fails.
LEMMA SearchFails ==
  ASSUME SearchInv, NEW c, c \notin {"none", "ok"}, Fails(c)
  PROVE  SearchInv'
<1>1. /\ code' = c /\ pc' = "idle" /\ scan' = NoScan /\ pending' = {} /\ entry' = NoEntry
      /\ matches' = << >>
      /\ UNCHANGED <<tree, changes, steady, max_results, late, scanned_files, scanned_bytes, size,
                     limit_reason, stop>>
  BY DEF Fails, treeVars, request, counts
<1>2. ScanInv'
  BY <1>1, NothingIsListed
<1>3. << >> \in Seq(Match) /\ Len(<< >>) = 0 /\ max_results \in Nat
  BY SearchKinds
<1>4. SearchTypes'
  BY <1>1, <1>3 DEF SearchInv, SearchTypes
<1>5. SearchPlace' /\ HeapCovers' /\ Returned'
  BY <1>1 DEF SearchPlace, HeapCovers, Returned, UntruncatedIsComplete, TruncatedIsAPrefix, NoScan
<1>6. HeapOrder'
  BY <1>1, <1>3 DEF HeapOrder, MatchesInOrder
<1>7. QED
  BY <1>2, <1>4, <1>5, <1>6 DEF SearchInv

\* The user and the clock take nothing back.
LEMMA SearchIsWatched ==
  ASSUME SearchInv, UserChanges \/ Elapse \/ UNCHANGED vars
  PROVE  SearchInv'
<1>1. CASE UserChanges
  <2>1. /\ changes < MaxChanges /\ changes' = changes + 1 /\ steady' = FALSE
        /\ UNCHANGED <<pc, scan, max_results, late, pending, entry, matches, scanned_files, scanned_bytes,
                       size, limit_reason, code, stop>>
    BY <1>1 DEF UserChanges, Change, request, counts
  <2>2. tree' \in [Path -> Entry]
    <3>1. PICK p \in Path, e \in [kind : {"directory", "blocked", "absent"}, content : {NoContent}]
                              \cup [kind : {"file"}, content : Contents] :
            tree' = [tree EXCEPT ![p] = [kind |-> e.kind, content |-> e.content, birth |-> changes + 1]]
      BY <1>1, Zenon DEF UserChanges, Change
    <3>2. [kind |-> e.kind, content |-> e.content, birth |-> changes + 1] \in Entry
      BY DEF SearchInv, SearchTypes, Entry
    <3>3. QED
      BY <3>1, <3>2 DEF SearchInv, SearchTypes
  <2>3. changes' \in 0 .. MaxChanges
    BY <2>1, SearchLimits DEF SearchInv, SearchTypes
  <2>4. ScanInv'
    BY <2>1, ScanStays DEF SearchInv
  <2>5. SearchTypes'
    BY <2>1, <2>2, <2>3 DEF SearchInv, SearchTypes
  <2>6. SearchPlace'
    BY <2>1 DEF SearchInv, SearchPlace, NoScan
  <2>7. HeapOrder'
    BY <2>1 DEF SearchInv, HeapOrder, MatchesInOrder, Before
  <2>8. HeapCovers' /\ Returned'
    BY <2>1 DEF HeapCovers, Returned, UntruncatedIsComplete, TruncatedIsAPrefix
  <2>9. QED
    BY <2>4, <2>5, <2>6, <2>7, <2>8 DEF SearchInv
<1>2. CASE Elapse \/ UNCHANGED vars
  <2>1. /\ late' \in BOOLEAN
        /\ UNCHANGED <<tree, changes, pc, scan, steady, max_results, pending, entry, matches, scanned_files,
                       scanned_bytes, size, limit_reason, moved, code, stop>>
    BY <1>2 DEF Elapse, vars, treeVars, request, counts, SearchInv, SearchTypes
  <2>2. ScanInv'
    BY <2>1, ScanStays DEF SearchInv
  <2>3. SearchTypes'
    BY <2>1 DEF SearchInv, SearchTypes
  <2>4. SearchPlace'
    BY <2>1 DEF SearchInv, SearchPlace, NoScan
  <2>5. HeapOrder'
    BY <2>1 DEF SearchInv, HeapOrder, MatchesInOrder, Before
  <2>6. Open' = Open /\ \A q, p : Leads(q, p)' = Leads(q, p)
    BY <2>1 DEF Open, Elements, Leads
  <2>7. HeapCovers'
    BY <2>1, <2>6, SameFinds DEF SearchInv, HeapCovers, Depth, Elements
  <2>8. Returned'
    BY <2>1, SameFinds DEF SearchInv, Returned, UntruncatedIsComplete, TruncatedIsAPrefix, Elements, Before
  <2>9. QED
    BY <2>2, <2>3, <2>4, <2>5, <2>7, <2>8 DEF SearchInv
<1>3. QED
  BY <1>1, <1>2

\* The search begins at the root.
LEMMA SearchBegins ==
  ASSUME SearchInv, Start
  PROVE  SearchInv'
<1>1. /\ pc = "idle" /\ code = "none" /\ pc' = "scan" /\ scan' = ScanOf(0) /\ steady' = TRUE
      /\ UNCHANGED <<tree, changes, max_results, late, pending, entry, matches, scanned_files,
                     scanned_bytes, size, limit_reason, moved, code, stop>>
  BY DEF Start, treeVars, request, counts
<1>2. /\ entry = NoEntry /\ entry.path = 0 /\ pending = {} /\ matches = << >>
      /\ limit_reason = "none" /\ stop = "none"
  BY <1>1 DEF SearchInv, SearchPlace, NoEntry
<1>3. ScanInv'
  BY <1>1, ScanBegins
<1>4. /\ scan'.dir = 0 /\ scan'.names = Existing(0)
  BY <1>1 DEF ScanOf, Existing
<1>5. SearchTypes'
  BY <1>1 DEF SearchInv, SearchTypes
<1>6. SearchPlace'
  BY <1>1, <1>2, <1>4, SearchKinds, EmptyScan DEF SearchPlace
<1>7. HeapOrder'
  BY <1>1, <1>2, EmptyScan DEF HeapOrder, MatchesInOrder
<1>8. HeapCovers'
  <2>1. \A p \in Path : Searchable(p)' => \E q \in Open' : Leads(q, p)
    <3>1. SUFFICES ASSUME NEW p \in Path, Searchable(p)
                   PROVE  \E q \in Open' : Leads(q, p)
      BY <1>1, SameFinds
    <3>2. PICK q \in Existing(0) : Leads(q, p)
      BY <3>1, WayToAFile
    <3>3. q \in Open'
      BY <1>1, <1>4, <3>2 DEF Open
    <3>4. QED
      BY <3>2, <3>3
  <2>2. Elements(matches)' = {}
    BY <1>1, <1>2, EmptyScan DEF Elements
  <2>3. \A q, p : Leads(q, p)' = Leads(q, p)
    BY DEF Leads
  <2>4. QED
    BY <1>1, <1>2, <2>1, <2>2, <2>3 DEF HeapCovers
<1>9. Returned'
  BY <1>1 DEF Returned, UntruncatedIsComplete, TruncatedIsAPrefix
<1>10. QED
  BY <1>3, <1>5, <1>6, <1>7, <1>8, <1>9 DEF SearchInv

\* An entry is inspected.
LEMMA SearchInspects ==
  ASSUME SearchInv, Inspect
  PROVE  SearchInv'
<1>1. pc = "scan"
  BY DEF Inspect
<1>2. PICK p \in scan.names :
        IF ScanFault(p) # "none" THEN Fails(ScanFault(p))
        ELSE /\ scan' = Inspected(p)
             /\ UNCHANGED <<tree, changes, pc, steady, max_results, late, pending, entry, matches,
                            scanned_files, scanned_bytes, size, limit_reason, moved, code, stop>>
  BY DEF Inspect, treeVars, request, counts
<1>3. CASE ScanFault(p) # "none"
  <2>1. ScanFault(p) \notin {"none", "ok"}
    BY <1>3 DEF ScanFault
  <2>2. QED
    BY <1>2, <1>3, <2>1, SearchFails
<1>4. CASE ScanFault(p) = "none"
  <2>1. /\ scan' = Inspected(p)
        /\ UNCHANGED <<tree, changes, pc, steady, max_results, late, pending, entry, matches,
                       scanned_files, scanned_bytes, size, limit_reason, moved, code, stop>>
    BY <1>2, <1>4
  <2>2. ScanInv' /\ ScanInv /\ TreeKinds
    BY <1>1, <1>4, <2>1, ScanGoesOn, SearchKinds DEF SearchInv
  <2>3. /\ scan'.dir = scan.dir /\ scan'.names = scan.names \ {p}
        /\ scan'.seen = Append(scan.seen, [path |-> p, kind |-> Lstat(p)])
    BY <2>1, <2>2 DEF Inspected
  <2>4. SearchTypes'
    BY <2>1 DEF SearchInv, SearchTypes
  <2>5. SearchPlace'
    BY <1>1, <2>1, <2>3 DEF SearchInv, SearchPlace
  <2>6. HeapOrder'
    BY <2>1 DEF SearchInv, HeapOrder, MatchesInOrder, Before
  <2>7. Elements(scan'.seen) = Elements(scan.seen) \cup {[path |-> p, kind |-> Lstat(p)]}
    <3> DEFINE S == [path : Path, kind : Listable]
               e == [path |-> p, kind |-> Lstat(p)]
    <3>1. p \in Path /\ Lstat(p) # "absent"
      BY <1>4, <2>2 DEF ScanInv, Children, ScanFault
    <3>2. scan.seen \in Seq(S) /\ e \in S
      BY <2>2, <3>1, LstatKinds DEF ScanInv
    <3> HIDE DEF S, e
    <3>3. Elements(Append(scan.seen, e)) = Elements(scan.seen) \cup {e}
      BY ONLY <3>2, ElementsOfAppend
    <3>4. QED
      BY <2>3, <3>3 DEF e
  <2>8. Open' = Open
    <3>1. Open = {e.path : e \in pending} \cup scan.names \cup {e.path : e \in Elements(scan.seen)}
      BY <1>1 DEF Open
    <3>2. Open' = {e.path : e \in pending} \cup scan'.names \cup {e.path : e \in Elements(scan'.seen)}
      BY <1>1, <2>1 DEF Open, Elements
    <3>3. {e.path : e \in Elements(scan'.seen)} = {e.path : e \in Elements(scan.seen)} \cup {p}
      <4> DEFINE e == [path |-> p, kind |-> Lstat(p)]
                 S == Elements(scan.seen)
      <4>1. e.path = p /\ Elements(scan'.seen) = S \cup {e}
        BY <2>7
      <4> HIDE DEF e, S
      <4>2. {f.path : f \in S \cup {e}} = {f.path : f \in S} \cup {p}
        BY <4>1
      <4>3. QED
        BY <4>1, <4>2 DEF S
    <3>4. QED
      BY <2>3, <3>1, <3>2, <3>3
  <2>9. \A q, r : Leads(q, r)' = Leads(q, r)
    BY DEF Leads
  <2>10. HeapCovers'
    BY <2>1, <2>8, <2>9, SameFinds DEF SearchInv, HeapCovers, Depth, Elements
  <2>11. Returned'
    BY <1>1, <2>1 DEF SearchInv, SearchPlace, Returned, UntruncatedIsComplete, TruncatedIsAPrefix
  <2>12. QED
    BY <2>2, <2>4, <2>5, <2>6, <2>10, <2>11 DEF SearchInv
<1>5. QED
  BY <1>3, <1>4

\* The entries of a directory join the heap.
LEMMA SearchPushes ==
  ASSUME SearchInv, Push
  PROVE  SearchInv'
<1>1. pc = "scan" /\ scan.names = {}
  BY DEF Push
<1>2. CASE EndFault # "none"
  <2>1. EndFault \notin {"none", "ok"}
    BY <1>2 DEF EndFault
  <2>2. QED
    BY <1>2, <2>1, SearchFails DEF Push
<1>3. CASE EndFault = "none"
  <2> DEFINE new == Elements(scan.seen)
  <2>1. /\ steady => Elements(scan.seen) = EntriesOf(scan.dir)
        /\ Elements(Entries) = Elements(scan.seen) /\ InPathOrder(Entries)
        /\ Len(Entries) = Len(scan.seen) /\ Entries \in Seq(Item)
    BY <1>1, ScanEnds DEF SearchInv, Item
  <2>2. /\ pending' = pending \cup new
        /\ pc' = "loop" /\ scan' = NoScan
        /\ UNCHANGED <<tree, changes, steady, max_results, late, entry, matches, scanned_files,
                       scanned_bytes, size, limit_reason, moved, code, stop>>
    BY <1>3, <2>1 DEF Push, treeVars, request, counts
  <2>3. \A e \in new : e \in Item /\ e.path \in Path /\ Parent[e.path] = entry.path /\ entry.path < e.path
    <3>1. new \subseteq Item
      <4>1. Entries \in Seq(Item)
        BY <2>1
      <4>2. Elements(Entries) \subseteq Item
        BY ONLY <4>1, ElementsAreOf
      <4>3. QED
        BY <2>1, <4>2
    <3>2. \A e \in new : Parent[e.path] = scan.dir
      BY DEF SearchInv, ScanInv
    <3>3. scan.dir = entry.path
      BY <1>1 DEF SearchInv, SearchPlace
    <3>4. QED
      BY <3>1, <3>2, <3>3, ParentAssumption DEF Item
  <2>4. \A e, f \in new : e.path = f.path => e = f
    <3>1. SUFFICES ASSUME NEW e \in new, NEW f \in new, e.path = f.path
                   PROVE  e = f
      OBVIOUS
    <3>2. PICK i \in 1 .. Len(Entries) : Entries[i] = e
      BY <2>1 DEF Elements
    <3>3. PICK j \in 1 .. Len(Entries) : Entries[j] = f
      BY <2>1 DEF Elements
    <3>4. e.path \in Nat /\ f.path \in Nat
      BY <2>3, SearchKinds
    <3>5. ~ (i < j) /\ ~ (j < i)
      BY <2>1, <3>1, <3>2, <3>3, <3>4 DEF InPathOrder
    <3>6. i = j
      BY <3>5
    <3>7. QED
      BY <3>2, <3>3, <3>6
  <2> HIDE DEF new
  <2>5. ScanInv'
    BY <2>2, NothingIsListed
  <2>6. SearchTypes'
    BY <2>2, <2>3 DEF SearchInv, SearchTypes
  <2>7. SearchPlace'
    BY <1>1, <2>2 DEF SearchInv, SearchPlace, NoScan
  <2>8. HeapOrder'
    <3>1. /\ MatchesInOrder
          /\ \A e, f \in pending : e.path = f.path => e = f
          /\ \A e \in pending : /\ entry.path < e.path /\ Parent[e.path] <= entry.path
                                /\ Parent[e.path] # entry.path
          /\ \A i \in 1 .. Len(matches) : matches[i][1] <= entry.path
      BY <1>1 DEF SearchInv, HeapOrder
    <3>2. \A e, f \in pending' : e.path = f.path => e = f
      BY <2>2, <2>3, <2>4, <3>1
    <3>3. \A e \in pending' : entry.path < e.path /\ Parent[e.path] <= entry.path
      BY <2>2, <2>3, <3>1, SearchKinds
    <3>4. MatchesInOrder'
      BY <2>2, <3>1 DEF MatchesInOrder, Before
    <3>5. QED
      BY <2>2, <3>1, <3>2, <3>3, <3>4 DEF HeapOrder
  <2>9. HeapCovers'
    <3>1. SUFFICES ASSUME steady
                   PROVE  HeapCovers'
      BY <2>2 DEF HeapCovers
    <3>2. new = EntriesOf(entry.path)
      BY <1>1, <2>1, <3>1 DEF SearchInv, SearchPlace, new
    <3>3. \A e \in new : e.kind = Lstat(e.path)
      BY <3>2 DEF EntriesOf, Listed
    <3>4. \A e \in new : Depth(e.path) <= MAX_SEARCH_DEPTH
      <4>1. entry.path = 0 \/ Depth(entry.path) < MAX_SEARCH_DEPTH
        BY <1>1, <3>1 DEF SearchInv, HeapCovers
      <4>2. SUFFICES ASSUME NEW e \in new
                     PROVE  Depth(e.path) <= MAX_SEARCH_DEPTH
        OBVIOUS
      <4>3. e.path \in Path /\ Parent[e.path] = entry.path
        BY <2>3
      <4>4. CASE entry.path = 0
        <5>1. Depth(e.path) = 1
          BY <4>3, <4>4, DepthOfAChild
        <5>2. QED
          BY <5>1, SearchLimits
      <4>5. CASE entry.path # 0
        <5>1. entry.path \in Path /\ Depth(e.path) = Depth(entry.path) + 1 /\ Depth(entry.path) \in Nat
          BY <4>3, <4>5, DepthOfAChild
        <5>2. QED
          BY <4>1, <4>5, <5>1, SearchLimits
      <4>6. QED
        BY <4>4, <4>5
    <3>5. Open' = Open
      <4>1. Open = {e.path : e \in pending} \cup {e.path : e \in new}
        BY <1>1 DEF Open, new
      <4>2. Open' = {e.path : e \in pending \cup new}
        BY <2>2 DEF Open
      <4>3. QED
        BY <4>1, <4>2
    <3>6. \A q, r : Leads(q, r)' = Leads(q, r)
      BY DEF Leads
    <3>7. /\ \A e \in pending' : e.kind = Lstat(e.path) /\ Depth(e.path) <= MAX_SEARCH_DEPTH
      BY <1>1, <2>2, <3>1, <3>3, <3>4 DEF SearchInv, HeapCovers
    <3>8. pc # "idle" /\ pc' = "loop"
      BY <1>1, <2>2
    <3>9. QED
      BY <2>2, <3>1, <3>5, <3>6, <3>7, <3>8, SameFinds DEF SearchInv, HeapCovers, Depth, Elements
  <2>10. Returned'
    BY <1>1, <2>2 DEF SearchInv, SearchPlace, Returned, UntruncatedIsComplete, TruncatedIsAPrefix
  <2>11. QED
    BY <2>5, <2>6, <2>7, <2>8, <2>9, <2>10 DEF SearchInv
<1>4. QED
  BY <1>2, <1>3

\* The heap is empty: all has been searched, or left out for a reason.
LEMMA SearchIsExhausted ==
  ASSUME SearchInv, Exhausted
  PROVE  SearchInv'
<1>1. /\ pc = "loop" /\ pending = {} /\ code' = "ok" /\ pc' = "idle" /\ pending' = {} /\ entry' = NoEntry
      /\ UNCHANGED <<tree, changes, scan, steady, max_results, late, size, moved, matches,
                     scanned_files, scanned_bytes, limit_reason, stop>>
  BY DEF Exhausted, Returns, treeVars, request, counts
<1>2. ScanInv'
  <2>1. scan' = NoScan
    BY <1>1 DEF SearchInv, SearchPlace
  <2>2. QED
    BY <1>1, <2>1, NothingIsListed
<1>3. SearchTypes'
  BY <1>1 DEF SearchInv, SearchTypes
<1>4. SearchPlace'
  BY <1>1 DEF SearchInv, SearchPlace, NoScan
<1>5. HeapOrder'
  BY <1>1 DEF SearchInv, HeapOrder, MatchesInOrder, Before
<1>6. HeapCovers'
  BY <1>1 DEF HeapCovers
<1>7. ASSUME steady, limit_reason = "none"
      PROVE  Elements(matches) = AllHits
  <2>1. Open = {}
    BY <1>1 DEF Open
  <2>2. /\ Elements(matches) \subseteq AllHits
        /\ \A p \in Path : Searchable(p) => Hits(p) \subseteq Elements(matches)
    BY <1>1, <1>7, <2>1 DEF SearchInv, HeapCovers
  <2>3. QED
    BY <2>2 DEF AllHits
<1>8. /\ AllHits' = AllHits /\ Elements(matches)' = Elements(matches)
      /\ stop = "none"
  BY <1>1, SameFinds DEF Elements, SearchInv, SearchPlace
<1>9. UntruncatedIsComplete'
  BY <1>1, <1>7, <1>8 DEF UntruncatedIsComplete
<1>10. TruncatedIsAPrefix'
  BY <1>1, <1>7, <1>8 DEF TruncatedIsAPrefix
<1>11. QED
  BY <1>2, <1>3, <1>4, <1>5, <1>6, <1>9, <1>10 DEF SearchInv, Returned

\* The least path comes off the heap.
LEMMA LeastIsPopped ==
  ASSUME SearchInv, pc = "loop", NEW e \in pending, IsNext(e)
  PROVE  /\ e \in Item /\ e.path \in Path /\ e.path \in Nat /\ entry.path < e.path
         /\ \A f \in pending \ {e} : e.path < f.path /\ Parent[f.path] < e.path
         /\ \A i \in 1 .. Len(matches) : matches[i][1] < e.path
<1>1. e \in Item /\ e.path \in Path /\ e.path \in Nat /\ entry.path < e.path /\ entry.path \in Nat
  BY SearchKinds DEF SearchInv, HeapOrder
<1>2. ASSUME NEW f \in pending \ {e}
      PROVE  e.path < f.path /\ Parent[f.path] < e.path
  <2>1. e.path <= f.path /\ e.path # f.path
    BY DEF IsNext, SearchInv, HeapOrder
  <2>2. f.path \in Path /\ f.path \in Nat
    BY SearchKinds
  <2>3. Parent[f.path] <= entry.path /\ Parent[f.path] \in Nat
    BY <2>2, PathAssumption DEF SearchInv, HeapOrder
  <2>4. QED
    BY <1>1, <2>1, <2>2, <2>3
<1>3. ASSUME NEW i \in 1 .. Len(matches)
      PROVE  matches[i][1] < e.path
  <2>1. matches[i][1] <= entry.path /\ matches[i][1] \in Nat
    BY SearchKinds DEF SearchInv, HeapOrder
  <2>2. QED
    BY <1>1, <2>1
<1>4. QED
  BY <1>1, <1>2, <1>3

\* It is passed over, listed, sized or left out as too deep.
LEMMA SearchPops ==
  ASSUME SearchInv, SkipBlocked \/ Descend \/ TakeFile
  PROVE  SearchInv'
<1>1. PICK e \in pending :
        /\ IsNext(e) /\ entry' = e /\ pending' = pending \ {e}
        /\ e.kind \in {"blocked", "directory", "file"}
        /\ SkipBlocked => e.kind = "blocked"
        /\ Descend => e.kind = "directory"
        /\ TakeFile => e.kind = "file"
  BY DEF SkipBlocked, Descend, TakeFile, Pops
<1>2. /\ pc = "loop"
      /\ UNCHANGED <<tree, changes, scan, steady, max_results, late, matches, size, moved,
                     scanned_files, scanned_bytes, code, stop>>
      /\ SkipBlocked => pc' = "loop" /\ limit_reason' = limit_reason
      /\ TakeFile => pc' = "size" /\ limit_reason' = limit_reason /\ scanned_files < MAX_SEARCH_FILES
      /\ Descend /\ Depth(e.path) < MAX_SEARCH_DEPTH => pc' = "list" /\ limit_reason' = limit_reason
      /\ Descend /\ ~ (Depth(e.path) < MAX_SEARCH_DEPTH) => pc' = "loop" /\ Because("max_depth")
  <2>1. /\ pc = "loop" /\ UNCHANGED <<tree, changes, steady, max_results, late, matches, size, moved>>
    BY DEF SkipBlocked, Descend, TakeFile, Pops, treeVars, request
  <2>2. CASE SkipBlocked
    BY <1>1, <2>1, <2>2 DEF SkipBlocked, counts
  <2>3. CASE TakeFile
    BY <1>1, <2>1, <2>3 DEF TakeFile, counts
  <2>4. CASE Descend
    <3>1. Depth(e.path) \in Nat /\ MAX_SEARCH_DEPTH \in Nat
      BY SearchKinds, DepthOfAChild, SearchLimits
    <3>2. /\ entry'.path = e.path
          /\ UNCHANGED <<scanned_files, scanned_bytes, stop>>
          /\ IF Depth(entry'.path) >= MAX_SEARCH_DEPTH
             THEN Because("max_depth") /\ UNCHANGED <<pc, scan, code>>
             ELSE pc' = "list" /\ UNCHANGED <<scan, limit_reason, code>>
      BY <1>1, <2>4 DEF Descend, counts
    <3>3. ~ SkipBlocked /\ ~ TakeFile
      BY <1>1, <2>4
    <3>4. QED
      BY <2>1, <2>4, <3>1, <3>2, <3>3
  <2>5. QED
    BY <2>2, <2>3, <2>4
<1>3. /\ e \in Item /\ e.path \in Path /\ e.path \in Nat /\ entry.path < e.path
      /\ \A f \in pending \ {e} : e.path < f.path /\ Parent[f.path] < e.path
      /\ \A i \in 1 .. Len(matches) : matches[i][1] < e.path
  BY <1>1, <1>2, LeastIsPopped
<1>4. /\ pc' \in {"loop", "list", "size"}
      /\ limit_reason \in {"none"} \cup Incidents
      /\ limit_reason' \in {"none"} \cup Incidents
      /\ limit_reason' = "none" => limit_reason = "none"
      /\ scan' = NoScan
  BY <1>2 DEF SearchInv, SearchPlace, Incidents, Because
<1>5. ScanInv'
  BY <1>4, NothingIsListed
<1>6. SearchTypes'
  BY <1>1, <1>2, <1>3, <1>4 DEF SearchInv, SearchTypes
<1>7. SearchPlace'
  <2>1. code' = "none" /\ stop' = "none" /\ Len(matches') < max_results'
    BY <1>2 DEF SearchInv, SearchPlace
  <2>2. pc' = "list" => Descend
    BY <1>2
  <2>3. pc' = "size" => TakeFile
    BY <1>2
  <2>4. QED
    BY <1>1, <1>2, <1>3, <1>4, <2>1, <2>2, <2>3 DEF SearchPlace
<1>8. HeapOrder'
  <2>1. /\ MatchesInOrder /\ \A f, g \in pending : f.path = g.path => f = g
    BY <1>2 DEF SearchInv, HeapOrder
  <2>2. \A f \in pending' : entry'.path < f.path /\ Parent[f.path] <= entry'.path /\ Parent[f.path] # entry'.path
    <3>1. \A f \in pending : Parent[f.path] \in Nat
      BY SearchKinds, PathAssumption
    <3>2. QED
      BY <1>1, <1>3, <3>1
  <2>3. \A i \in 1 .. Len(matches') : matches'[i][1] <= entry'.path /\ matches'[i][1] < entry'.path
    BY <1>1, <1>2, <1>3, SearchKinds
  <2>4. MatchesInOrder'
    BY <1>2, <2>1 DEF MatchesInOrder, Before
  <2>5. QED
    BY <1>1, <2>1, <2>2, <2>3, <2>4 DEF HeapOrder
<1>9. HeapCovers'
  <2>1. SUFFICES ASSUME steady
                 PROVE  HeapCovers'
    BY <1>2 DEF HeapCovers
  <2>2. /\ \A f \in pending : f.kind = Lstat(f.path) /\ Depth(f.path) <= MAX_SEARCH_DEPTH
        /\ Elements(matches) \subseteq AllHits
        /\ limit_reason = "none" =>
             \A p \in Path : Searchable(p) =>
               Hits(p) \subseteq Elements(matches) \/ \E q \in Open : Leads(q, p)
    BY <1>2, <2>1 DEF SearchInv, HeapCovers
  <2>3. Open = {f.path : f \in pending}
    BY <1>2 DEF Open
  <2>4. Open' = {f.path : f \in pending \ {e}} \cup (IF pc' \in {"list", "size", "read"} THEN {e.path} ELSE {})
    BY <1>1, <1>4 DEF Open
  <2>5. ASSUME limit_reason' = "none", NEW p \in Path, Searchable(p)
        PROVE  Hits(p) \subseteq Elements(matches) \/ \E q \in Open' : Leads(q, p)
    <3>1. CASE Hits(p) \subseteq Elements(matches)
      BY <3>1
    <3>2. CASE ~ (Hits(p) \subseteq Elements(matches))
      <4>1. PICK q \in Open : Leads(q, p)
        BY <1>4, <2>2, <2>5, <3>2
      <4>2. CASE q \in Open'
        BY <4>1, <4>2
      <4>3. CASE q \notin Open'
        <5>1. q = e.path /\ pc' = "loop"
          BY <1>4, <2>3, <2>4, <4>3
        <5>2. ~ Because("max_depth")
          BY <2>5 DEF Because
        <5>3. SkipBlocked
          BY <1>2, <5>1, <5>2
        <5>4. Lstat(q) = "blocked"
          BY <1>1, <2>2, <5>1, <5>3
        <5>5. Lstat(q) = "file" \/ Lstat(q) = "directory"
          BY <2>5, <4>1, WayToAFile DEF Leads
        <5>6. QED
          BY <5>4, <5>5
      <4>4. QED
        BY <4>2, <4>3
    <3>3. QED
      BY <3>1, <3>2
  <2>6. \A q, r : Leads(q, r)' = Leads(q, r)
    BY DEF Leads
  <2>7. \A p : Depth(p)' = Depth(p)
    BY DEF Depth
  <2>8. Elements(matches)' = Elements(matches)
    BY <1>2 DEF Elements
  <2>9. pc' = "list" => Depth(e.path) < MAX_SEARCH_DEPTH
    BY <1>2
  <2>10. /\ \A f \in pending' : (f.kind = Lstat(f.path) /\ Depth(f.path) <= MAX_SEARCH_DEPTH)
         /\ entry'.kind = Lstat(entry'.path) /\ Depth(entry'.path) <= MAX_SEARCH_DEPTH
    BY <1>1, <2>2
  <2>11. pc' # "scan" /\ pc' # "read"
    BY <1>4
  <2>12. /\ \A f \in pending' : (f.kind = Lstat(f.path)' /\ Depth(f.path)' <= MAX_SEARCH_DEPTH)
         /\ entry'.kind = Lstat(entry.path)' /\ Depth(entry.path)' <= MAX_SEARCH_DEPTH
    <3>1. \A f : Lstat(f.path)' = Lstat(f.path)
      BY <1>2, SameFinds
    <3>2. Lstat(entry.path)' = Lstat(entry'.path) /\ Depth(entry.path)' = Depth(entry'.path)
      BY <1>2 DEF Lstat, Depth
    <3>3. QED
      BY <2>7, <2>10, <3>1, <3>2
  <2>13. QED
    BY <1>1, <1>2, <2>1, <2>2, <2>5, <2>6, <2>8, <2>9, <2>11, <2>12, SameFinds DEF HeapCovers, Depth
<1>10. Returned'
  BY <1>2 DEF SearchInv, SearchPlace, Returned, UntruncatedIsComplete, TruncatedIsAPrefix
<1>11. QED
  BY <1>5, <1>6, <1>7, <1>8, <1>9, <1>10 DEF SearchInv

\* No fault is an answer; no fault with a file means that it is there.
LEMMA DenialIsAFault ==
  /\ \A p, kind : Denial(p, kind) \in {"not found", "denied", "none", "wrong type"}
  /\ \A p \in Path : Denial(p, "file") = "none" => Lstat(p) = "file"
<1>1. \A p, kind : Denial(p, kind) \in {"not found", "denied", "none", "wrong type"}
  BY DEF Denial
<1>2. ASSUME NEW p \in Path, Denial(p, "file") = "none"
      PROVE  Lstat(p) = "file"
  <2> DEFINE bad == {d \in Above[p] : tree[d].kind # "directory"}
             first == IF bad = {} THEN p ELSE CHOOSE d \in bad : \A other \in bad : d <= other
  <2>1. first = p /\ tree[first].kind = "file"
    BY <1>2 DEF Denial
  <2>2. ASSUME bad # {}
        PROVE  FALSE
    <3>1. bad \subseteq Nat /\ p \notin bad
      <4>1. \A q \in Above[p] : q \in Path /\ q < p
        BY AboveIsAChain
      <4>2. p \in Nat /\ Path \subseteq Nat
        BY PathAssumption
      <4>3. QED
        BY <4>1, <4>2
    <3> HIDE DEF bad
    <3>2. \E d \in bad : \A other \in bad : d <= other
      BY <2>2, <3>1, LeastNatural
    <3>3. (CHOOSE d \in bad : \A other \in bad : d <= other) \in bad
      BY <3>2
    <3>4. QED
      BY <2>1, <2>2, <3>1, <3>3
  <2>3. QED
    BY <2>1, <2>2 DEF Lstat
<1>3. QED
  BY <1>1, <1>2

\* A directory found on the way is listed.
LEMMA SearchLists ==
  ASSUME SearchInv, List
  PROVE  SearchInv'
<1> DEFINE fault == Denial(entry.path, "directory")
<1>1. pc = "list"
  BY DEF List
<1>2. CASE fault # "none"
  <2>1. fault \notin {"none", "ok"}
    BY <1>2, DenialIsAFault
  <2>2. QED
    BY <1>2, <2>1, SearchFails DEF List
<1>3. CASE fault = "none"
  <2>1. /\ pc' = "scan" /\ scan' = ScanOf(entry.path)
        /\ UNCHANGED <<tree, changes, steady, max_results, late, pending, entry, matches, scanned_files,
                       scanned_bytes, size, limit_reason, moved, code, stop>>
    BY <1>3 DEF List, treeVars, request, counts
  <2>2. entry \in Item /\ entry.kind = "directory" /\ entry.path \in Path
    BY <1>1 DEF SearchInv, SearchPlace, Item
  <2>3. ScanInv'
    <3> DEFINE d == entry.path
    <3>1. d \in Path \cup {0} /\ scan' = ScanOf(d) /\ UNCHANGED tree
      BY <2>1, <2>2
    <3> HIDE DEF d
    <3>2. PICK e : e = d
      OBVIOUS
    <3>3. e \in Path \cup {0} /\ scan' = ScanOf(e)
      BY <3>1, <3>2
    <3>4. QED
      BY <3>1, <3>3, ScanBegins
  <2>4. scan'.dir = entry.path /\ scan'.names = Existing(entry.path) /\ scan'.seen = << >>
    BY <2>1 DEF ScanOf, Existing
  <2>5. SearchTypes'
    BY <2>1 DEF SearchInv, SearchTypes
  <2>6. SearchPlace'
    BY <1>1, <2>1, <2>4 DEF SearchInv, SearchPlace
  <2>7. HeapOrder'
    BY <1>1, <2>1 DEF SearchInv, HeapOrder, MatchesInOrder, Before
  <2>8. HeapCovers'
    <3>1. SUFFICES ASSUME steady
                   PROVE  HeapCovers'
      BY <2>1 DEF HeapCovers
    <3>2. /\ entry.kind = Lstat(entry.path)
          /\ limit_reason = "none" =>
               \A p \in Path : Searchable(p) =>
                 Hits(p) \subseteq Elements(matches) \/ \E q \in Open : Leads(q, p)
      BY <1>1, <3>1 DEF SearchInv, HeapCovers
    <3>3. /\ Open = {e.path : e \in pending} \cup {entry.path}
          /\ {e.path : e \in pending} \cup Existing(entry.path) \subseteq Open'
      BY <1>1, <2>1, <2>4 DEF Open
    <3>4. ASSUME limit_reason = "none", NEW p \in Path, Searchable(p),
                 ~ (Hits(p) \subseteq Elements(matches))
          PROVE  \E q \in Open' : Leads(q, p)
      <4>1. PICK q \in Open : Leads(q, p)
        BY <3>2, <3>4
      <4>2. CASE q \in Open'
        BY <4>1, <4>2
      <4>3. CASE q \notin Open'
        <5>1. q = entry.path /\ Lstat(q) = "directory"
          BY <2>2, <3>2, <3>3, <4>3
        <5>2. Lstat(p) = "file"
          BY <3>4, WayToAFile
        <5>3. entry.path \in Above[p]
          BY <4>1, <5>1, <5>2 DEF Leads
        <5>4. PICK r \in Existing(entry.path) : Leads(r, p)
          BY <3>4, <5>3, WayToAFile
        <5>5. QED
          BY <3>3, <5>4
      <4>4. QED
        BY <4>2, <4>3
    <3>5. \A q, r : Leads(q, r)' = Leads(q, r)
      BY DEF Leads
    <3>6. Elements(matches)' = Elements(matches)
      BY <2>1 DEF Elements
    <3>7. limit_reason' = "none" =>
             \A p \in Path : Searchable(p)' =>
               Hits(p)' \subseteq Elements(matches)' \/ \E q \in Open' : Leads(q, p)'
      BY <2>1, <3>4, <3>5, <3>6, SameFinds
    <3>8. QED
      BY <1>1, <2>1, <3>1, <3>6, <3>7, SameFinds DEF SearchInv, HeapCovers, Depth
  <2>9. Returned'
    BY <1>1, <2>1 DEF SearchInv, SearchPlace, Returned, UntruncatedIsComplete, TruncatedIsAPrefix
  <2>10. QED
    BY <2>3, <2>5, <2>6, <2>7, <2>8, <2>9 DEF SearchInv
<1>4. QED
  BY <1>2, <1>3

\* A limit that ends the loop with all that is found before all that is ahead.
LEMMA BreakIsAPrefix ==
  ASSUME SearchInv, pc \in {"loop", "size", "read"}, NEW reason \in Limit, Breaks(reason),
         \A i \in 1 .. Len(matches) : \A q \in Open : matches[i][1] < q
  PROVE  SearchInv'
<1>1. /\ stop' = reason /\ Because(reason) /\ code' = "ok" /\ pc' = "idle" /\ pending' = {} /\ entry' = NoEntry
      /\ UNCHANGED <<tree, changes, scan, steady, max_results, late, size, moved, matches,
                     scanned_files, scanned_bytes>>
  BY DEF Breaks, Returns, treeVars, request, counts
<1>2. /\ limit_reason \in {"none"} \cup Incidents /\ limit_reason' \in Incidents \cup Limit
      /\ limit_reason' = reason => limit_reason = "none"
      /\ limit_reason' # "none" /\ reason # "none"
  BY <1>1 DEF SearchInv, SearchPlace, Because, Incidents, Limit
<1>3. ScanInv'
  <2>1. scan' = NoScan
    BY <1>1 DEF SearchInv, SearchPlace
  <2>2. QED
    BY <1>1, <2>1, NothingIsListed
<1>4. SearchTypes'
  BY <1>1, <1>2 DEF SearchInv, SearchTypes
<1>5. SearchPlace'
  BY <1>1 DEF SearchInv, SearchPlace, NoScan
<1>6. HeapOrder'
  BY <1>1 DEF SearchInv, HeapOrder, MatchesInOrder, Before
<1>7. HeapCovers'
  BY <1>1 DEF HeapCovers
<1>8. UntruncatedIsComplete'
  BY <1>2 DEF UntruncatedIsComplete
<1>9. TruncatedIsAPrefix'
  <2>1. SUFFICES ASSUME steady, limit_reason' = reason,
                        NEW m \in AllHits \ Elements(matches), NEW i \in 1 .. Len(matches)
                 PROVE  Before(matches[i], m)
    BY <1>1, SameFinds DEF TruncatedIsAPrefix, Elements, Before
  <2>2. limit_reason = "none"
    BY <1>2, <2>1
  <2>3. PICK p \in Path : Searchable(p) /\ m \in Hits(p)
    BY DEF AllHits
  <2>4. \E q \in Open : Leads(q, p)
    BY <2>1, <2>2, <2>3 DEF SearchInv, HeapCovers
  <2>5. PICK q \in Open : Leads(q, p)
    BY <2>4
  <2>6. q <= p /\ matches[i][1] < q /\ m[1] = p
    BY <2>3, <2>5, WayToAFile, HitsOfAPath, SearchKinds
  <2>7. q \in Nat /\ p \in Nat /\ matches[i][1] \in Nat
    <3>1. q \in Path /\ p \in Path
      BY <2>5, AboveIsAChain DEF Leads
    <3>2. QED
      BY <3>1, SearchKinds
  <2>8. QED
    BY <2>6, <2>7 DEF Before
<1>10. QED
  BY <1>3, <1>4, <1>5, <1>6, <1>7, <1>8, <1>9 DEF SearchInv, Returned

\* What is found lies before what is ahead.
LEMMA FoundIsBeforeOpen ==
  ASSUME SearchInv, pc \in {"loop", "size", "read"}
  PROVE  \A i \in 1 .. Len(matches) : \A q \in Open : matches[i][1] < q
<1>1. SUFFICES ASSUME NEW i \in 1 .. Len(matches), NEW q \in Open
               PROVE  matches[i][1] < q
  OBVIOUS
<1>2. CASE \E e \in pending : q = e.path
  <2>1. PICK e \in pending : q = e.path
    BY <1>2
  <2>2. entry.path < e.path /\ matches[i][1] <= entry.path
    BY <2>1 DEF SearchInv, HeapOrder
  <2>3. e.path \in Nat /\ entry.path \in Nat /\ matches[i][1] \in Nat
    BY SearchKinds
  <2>4. QED
    BY <2>1, <2>2, <2>3
<1>3. CASE ~ \E e \in pending : q = e.path
  <2>1. pc \in {"size", "read"} /\ q = entry.path
    BY <1>3 DEF Open
  <2>2. QED
    BY <2>1 DEF SearchInv, HeapOrder
<1>4. QED
  BY <1>2, <1>3

\* A limit on the number of files ends the search.
LEMMA SearchHasTooManyFiles ==
  ASSUME SearchInv, TooManyFiles
  PROVE  SearchInv'
<1>1. pc = "loop" /\ Breaks("max_files") /\ "max_files" \in Limit
  BY DEF TooManyFiles, Limit
<1>2. QED
  BY <1>1, FoundIsBeforeOpen, BreakIsAPrefix

\* The loop goes on after a file: what is left out is given as a reason, or holds
\* no match.
LEMMA SearchGoesOn ==
  ASSUME SearchInv, pc \in {"size", "read"}, pc' = "loop",
         UNCHANGED <<tree, changes, scan, steady, max_results, late, pending, entry, code, stop>>,
         scanned_files' \in 0 .. MAX_SEARCH_FILES, scanned_bytes' \in 0 .. MAX_SEARCH_TOTAL_BYTES,
         limit_reason' \in {"none"} \cup Incidents,
         matches' \in Seq(Match), Len(matches') < max_results, MatchesInOrder',
         \A i \in 1 .. Len(matches') : matches'[i][1] <= entry.path,
         steady => Elements(matches)' \subseteq AllHits /\ Elements(matches) \subseteq Elements(matches)',
         steady /\ limit_reason' = "none" =>
           limit_reason = "none" /\ (Searchable(entry.path) => Hits(entry.path) \subseteq Elements(matches)')
  PROVE  SearchInv'
<1>1. scan' = NoScan
  BY DEF SearchInv, SearchPlace
<1>2. ScanInv'
  BY <1>1, NothingIsListed
<1>3. SearchTypes'
  <2>1. Len(matches') \in Nat /\ max_results \in Nat
    BY SearchKinds
  <2>2. QED
    BY <2>1 DEF SearchInv, SearchTypes
<1>4. SearchPlace'
  BY <1>1 DEF SearchInv, SearchPlace
<1>5. HeapOrder'
  BY DEF SearchInv, HeapOrder
<1>6. HeapCovers'
  <2>1. SUFFICES ASSUME steady
                 PROVE  HeapCovers'
    BY DEF HeapCovers
  <2>2. /\ \A e \in pending : e.kind = Lstat(e.path) /\ Depth(e.path) <= MAX_SEARCH_DEPTH
        /\ entry.kind = Lstat(entry.path) /\ entry.kind = "file"
        /\ limit_reason = "none" =>
             \A p \in Path : Searchable(p) =>
               Hits(p) \subseteq Elements(matches) \/ \E q \in Open : Leads(q, p)
    BY <2>1 DEF SearchInv, SearchPlace, HeapCovers
  <2>3. /\ Open = {e.path : e \in pending} \cup {entry.path}
        /\ Open' = {e.path : e \in pending}
    BY DEF Open
  <2>4. ASSUME limit_reason' = "none", NEW p \in Path, Searchable(p),
               ~ (Hits(p) \subseteq Elements(matches)')
        PROVE  \E q \in Open' : Leads(q, p)
    <3>1. /\ limit_reason = "none" /\ (Searchable(entry.path) => Hits(entry.path) \subseteq Elements(matches)')
          /\ Elements(matches) \subseteq Elements(matches)'
      BY <2>1, <2>4
    <3>2. PICK q \in Open : Leads(q, p)
      BY <2>2, <2>4, <3>1
    <3>3. CASE q = entry.path
      <4>1. q # p
        BY <2>4, <3>1, <3>3
      <4>2. Lstat(q) = "directory"
        BY <2>4, <3>2, <4>1, WayToAFile DEF Leads
      <4>3. QED
        BY <2>2, <3>3, <4>2
    <3>4. QED
      BY <2>3, <3>2, <3>3
  <2>5. \A q, r : Leads(q, r)' = Leads(q, r)
    BY DEF Leads
  <2>6. limit_reason' = "none" =>
          \A p \in Path : Searchable(p)' =>
            Hits(p)' \subseteq Elements(matches)' \/ \E q \in Open' : Leads(q, p)'
    BY <2>4, <2>5, SameFinds
  <2>7. /\ \A e \in pending' : e.kind = Lstat(e.path)' /\ Depth(e.path)' <= MAX_SEARCH_DEPTH
        /\ Elements(matches)' \subseteq AllHits'
    BY <2>1, <2>2, SameFinds DEF Depth
  <2>8. QED
    BY <2>6, <2>7 DEF HeapCovers
<1>7. Returned'
  BY DEF SearchInv, SearchPlace, Returned, UntruncatedIsComplete, TruncatedIsAPrefix
<1>8. QED
  BY <1>2, <1>3, <1>4, <1>5, <1>6, <1>7 DEF SearchInv

\* A reason for leaving something out.
LEMMA BecauseOfAnIncident ==
  ASSUME SearchInv, pc # "idle", Because("file_limit")
  PROVE  limit_reason' \in {"none"} \cup Incidents /\ limit_reason' # "none"
BY DEF SearchInv, SearchPlace, Because, Incidents

\* What stays as it is when a file is passed over.
LEMMA NothingIsFound ==
  ASSUME SearchInv, pc \in {"size", "read"}, UNCHANGED <<tree, matches>>
  PROVE  /\ matches' \in Seq(Match) /\ Len(matches') < max_results /\ MatchesInOrder'
         /\ \A i \in 1 .. Len(matches') : matches'[i][1] <= entry.path
         /\ steady => Elements(matches)' \subseteq AllHits /\ Elements(matches) \subseteq Elements(matches)'
<1>1. MatchesInOrder'
  BY DEF SearchInv, HeapOrder, MatchesInOrder, Before
<1>2. Elements(matches)' = Elements(matches)
  BY DEF Elements
<1>3. steady => Elements(matches) \subseteq AllHits
  BY DEF SearchInv, HeapCovers
<1>4. /\ matches' \in Seq(Match) /\ Len(matches') < max_results
      /\ \A i \in 1 .. Len(matches') : matches'[i][1] <= entry.path
  BY DEF SearchInv, SearchTypes, SearchPlace, HeapOrder
<1>5. QED
  BY <1>1, <1>2, <1>3, <1>4

\* A file is sized.
LEMMA SearchSizes ==
  ASSUME SearchInv, Size
  PROVE  SearchInv'
<1> DEFINE fault == Denial(entry.path, "file")
           bytes == tree[entry.path].content.bytes
<1>1. pc = "size" /\ entry \in Item /\ entry.kind = "file" /\ entry.path \in Path /\ code = "none" /\ stop = "none"
  BY DEF Size, SearchInv, SearchPlace, Item
<1>2. bytes \in Nat /\ scanned_bytes \in Nat /\ scanned_files \in Nat /\ scanned_files < MAX_SEARCH_FILES
      /\ scanned_bytes <= MAX_SEARCH_TOTAL_BYTES
  BY <1>1, FileContents, SearchLimits DEF SearchInv, SearchTypes, SearchPlace
<1>3. CASE fault # "none"
  <2>1. fault \notin {"none", "ok"}
    BY <1>3, DenialIsAFault
  <2>2. QED
    BY <1>3, <2>1, SearchFails DEF Size
<1>4. CASE fault = "none" /\ scanned_bytes + bytes > MAX_SEARCH_TOTAL_BYTES
  <2>1. Breaks("max_total_bytes") /\ "max_total_bytes" \in Limit
    BY <1>4 DEF Size, Limit
  <2>2. QED
    BY <1>1, <2>1, FoundIsBeforeOpen, BreakIsAPrefix
<1>5. CASE fault = "none" /\ ~ (scanned_bytes + bytes > MAX_SEARCH_TOTAL_BYTES)
  <2>1. scanned_files' = scanned_files + 1 /\ scanned_files' \in 0 .. MAX_SEARCH_FILES
    BY <1>2, <1>5, SearchLimits DEF Size
  <2>2. CASE bytes > MAX_TEXT_FILE_BYTES
    <3>1. Because("file_limit") /\ Skips(0)
      BY <1>5, <2>2 DEF Size
    <3>2. /\ scanned_bytes' = scanned_bytes + 0 /\ pc' = "loop"
          /\ UNCHANGED <<tree, changes, scan, steady, max_results, late, pending, entry, matches, code, stop>>
      BY <3>1 DEF Skips, treeVars, request
    <3>3. scanned_bytes' \in 0 .. MAX_SEARCH_TOTAL_BYTES
      BY <1>2, <3>2, SearchLimits
    <3>4. limit_reason' \in {"none"} \cup Incidents /\ limit_reason' # "none"
      BY <1>1, <3>1, BecauseOfAnIncident
    <3>5. /\ matches' \in Seq(Match) /\ Len(matches') < max_results /\ MatchesInOrder'
          /\ \A i \in 1 .. Len(matches') : matches'[i][1] <= entry.path
          /\ steady => Elements(matches)' \subseteq AllHits /\ Elements(matches) \subseteq Elements(matches)'
      BY <1>1, <3>2, NothingIsFound
    <3>6. QED
      BY <1>1, <2>1, <3>2, <3>3, <3>4, <3>5, SearchGoesOn
  <2>3. CASE ~ (bytes > MAX_TEXT_FILE_BYTES)
    <3>1. /\ size' = bytes /\ pc' = "read" /\ moved' = FALSE
          /\ UNCHANGED <<tree, changes, scan, steady, max_results, late, pending, entry, matches,
                         scanned_bytes, limit_reason, code, stop>>
      BY <1>5, <2>3 DEF Size, treeVars, request
    <3>2. scan' = NoScan
      BY <1>1, <3>1 DEF SearchInv, SearchPlace
    <3>3. ScanInv'
      BY <3>1, <3>2, NothingIsListed
    <3>4. SearchTypes'
      BY <2>1, <3>1 DEF SearchInv, SearchTypes
    <3>5. size' \in Nat /\ scanned_bytes' + size' <= MAX_SEARCH_TOTAL_BYTES
      BY <1>2, <1>5, <3>1, SearchLimits
    <3>6. SearchPlace'
      BY <1>1, <3>1, <3>2, <3>5 DEF SearchInv, SearchPlace
    <3>7. HeapOrder'
      BY <1>1, <3>1 DEF SearchInv, HeapOrder, MatchesInOrder, Before
    <3>8. Open' = Open /\ \A q, p : Leads(q, p)' = Leads(q, p)
      BY <1>1, <3>1 DEF Open, Leads
    <3>9. HeapCovers'
      BY <1>1, <3>1, <3>8, SameFinds DEF SearchInv, HeapCovers, Depth, Elements
    <3>10. Returned'
      BY <1>1, <3>1 DEF Returned, UntruncatedIsComplete, TruncatedIsAPrefix
    <3>11. QED
      BY <3>3, <3>4, <3>6, <3>7, <3>9, <3>10 DEF SearchInv
  <2>4. QED
    BY <2>2, <2>3
<1>6. QED
  BY <1>3, <1>4, <1>5

\* The matches of a file after those before it.
LEMMA FileIsSearched ==
  ASSUME SearchInv, pc = "read"
  PROVE  LET all == matches \o Found(entry.path)
         IN  /\ all \in Seq(Match) /\ Len(all) = Len(matches) + Len(Found(entry.path))
             /\ Len(Found(entry.path)) \in Nat
             /\ \A i, j \in 1 .. Len(all) : i < j => Before(all[i], all[j])
             /\ \A i \in 1 .. Len(all) : all[i][1] <= entry.path
             /\ Elements(all) = Elements(matches) \cup Hits(entry.path)
<1> DEFINE p == entry.path
           found == Found(p)
           all == matches \o found
<1>1. p \in Path /\ p \in Nat
  <2>1. entry \in Item
    BY DEF SearchInv, SearchPlace
  <2>2. QED
    BY <2>1, PathAssumption DEF Item
<1>2. /\ found \in Seq(Match)
      /\ \A i \in 1 .. Len(found) : found[i][1] = p
      /\ \A i, j \in 1 .. Len(found) : i < j => found[i][2] < found[j][2]
  BY <1>1, FileContents, SearchKinds
<1>3. /\ matches \in Seq(Match)
      /\ \A i, j \in 1 .. Len(matches) : i < j => Before(matches[i], matches[j])
      /\ \A i \in 1 .. Len(matches) : matches[i][1] < p /\ matches[i][1] <= p
  <2>1. /\ matches \in Seq(Match) /\ MatchesInOrder
        /\ \A i \in 1 .. Len(matches) : matches[i][1] < p
    BY DEF SearchInv, SearchTypes, HeapOrder
  <2>2. \A i \in 1 .. Len(matches) : matches[i][1] \in Nat
    BY SearchKinds
  <2>3. QED
    BY <1>1, <2>1, <2>2 DEF MatchesInOrder
<1> DEFINE m == Len(matches)
           n == Len(found)
           old == matches
<1> HIDE DEF p, found, m, n, old
<1>4. m \in Nat /\ n \in Nat
  BY <1>2, <1>3 DEF m, n
<1>5. /\ all \in Seq(Match) /\ Len(all) = m + n
      /\ \A i \in 1 .. m : all[i] = old[i]
      /\ \A i \in m + 1 .. m + n : all[i] = found[i - m]
  BY <1>2, <1>3 DEF m, n, old
<1> HIDE DEF all
<1>6. \A i \in 1 .. m + n : i \in 1 .. m \/ (i \in m + 1 .. m + n /\ i - m \in 1 .. n)
  BY <1>4
<1>7. \A i, j \in 1 .. m + n : i < j => Before(all[i], all[j])
  <2>1. SUFFICES ASSUME NEW i \in 1 .. m + n, NEW j \in 1 .. m + n, i < j
                 PROVE  Before(all[i], all[j])
    OBVIOUS
  <2>2. CASE j \in 1 .. m
    <3>1. i \in 1 .. m
      BY <1>4, <2>1, <2>2
    <3>2. QED
      BY <1>3, <1>5, <2>1, <2>2, <3>1 DEF m, old
  <2>3. CASE j \notin 1 .. m /\ i \in 1 .. m
    <3>1. j \in m + 1 .. m + n /\ j - m \in 1 .. n
      BY <1>6, <2>3
    <3>2. all[i][1] < p
      BY <1>3, <1>5, <2>3 DEF m, old
    <3>3. all[j][1] = p
      BY <1>2, <1>5, <3>1 DEF n
    <3>4. QED
      BY <3>2, <3>3 DEF Before
  <2>4. CASE j \notin 1 .. m /\ i \notin 1 .. m
    <3>1. /\ j \in m + 1 .. m + n /\ j - m \in 1 .. n
          /\ i \in m + 1 .. m + n /\ i - m \in 1 .. n
      BY <1>6, <2>4
    <3>2. i - m < j - m
      BY <1>4, <2>1
    <3>3. /\ all[i] = found[i - m] /\ all[j] = found[j - m]
          /\ found[i - m][1] = p /\ found[j - m][1] = p
          /\ found[i - m][2] < found[j - m][2]
      BY <1>2, <1>5, <3>1, <3>2 DEF n
    <3>4. QED
      BY <3>3 DEF Before
  <2>5. QED
    BY <2>2, <2>3, <2>4
<1>8. \A i \in 1 .. m + n : all[i][1] <= p
  <2>1. ASSUME NEW i \in 1 .. m + n
        PROVE  all[i][1] <= p
    <3>1. CASE i \in 1 .. m
      BY <1>3, <1>5, <3>1 DEF m, old
    <3>2. CASE i \in m + 1 .. m + n /\ i - m \in 1 .. n
      <4>1. all[i][1] = p
        BY <1>2, <1>5, <3>2 DEF n
      <4>2. QED
        BY <1>1, <4>1
    <3>3. QED
      BY <1>6, <3>1, <3>2
  <2>2. QED
    BY <2>1
<1>9. Elements(all) = Elements(old) \cup Elements(found)
  <2>1. \A i \in 1 .. m : i \in 1 .. m + n
    BY <1>4
  <2>2. \A i \in 1 .. n : i + m \in m + 1 .. m + n /\ i + m \in 1 .. m + n /\ (i + m) - m = i
    BY <1>4
  <2>3. \A i \in 1 .. m + n : all[i] \in Elements(old) \cup Elements(found)
    BY <1>5, <1>6 DEF Elements, m, n, old
  <2>4. \A i \in 1 .. m : old[i] \in Elements(all)
    BY <1>5, <2>1 DEF Elements
  <2>5. \A i \in 1 .. n : found[i] \in Elements(all)
    BY <1>5, <2>2 DEF Elements
  <2>6. Elements(all) \subseteq Elements(old) \cup Elements(found)
    BY <1>5, <2>3 DEF Elements
  <2>7. Elements(old) \subseteq Elements(all)
    BY <2>4 DEF Elements, m, old
  <2>8. Elements(found) \subseteq Elements(all)
    BY <2>5 DEF Elements, n
  <2>9. QED
    BY <2>6, <2>7, <2>8
<1>10. Elements(all) = Elements(matches) \cup Hits(p)
  BY <1>9 DEF Hits, found, old
<1>11. QED
  BY <1>4, <1>5, <1>7, <1>8, <1>10 DEF m, n, p, found, all

\* The matches of a file that is read without fault.
LEMMA SearchMatches ==
  ASSUME SearchInv, pc = "read", ReadFault = "none", Matches
  PROVE  SearchInv'
<1> DEFINE all == matches \o Found(entry.path)
           here == tree[entry.path].content
<1>1. entry \in Item /\ entry.kind = "file" /\ entry.path \in Path /\ entry.path \in Nat /\ code = "none" /\ stop = "none"
  BY PathAssumption DEF SearchInv, SearchPlace, Item
<1>2. /\ Denial(entry.path, "file") = "none" /\ ~ (here.bytes > MostBytes)
      /\ here.body # "long line" /\ here.body # "binary"
  BY DEF ReadFault
<1>3. here.bytes \in Nat /\ here.body \in {"text", "binary", "long line"}
  <2>1. here \in Contents \cup {NoContent} /\ tree \in [Path -> Entry]
    BY <1>1, SearchKinds DEF Entry
  <2>2. here.body \in {"text", "binary", "long line"}
    <3>1. CASE here \in Contents
      <4>1. \A c \in Contents : c.body \in {"text", "binary", "long line"}
        BY SearchAssumption
      <4>2. QED
        BY <3>1, <4>1
    <3>2. CASE here = NoContent
      BY <3>2 DEF NoContent
    <3>3. QED
      BY <2>1, <3>1, <3>2
  <2>3. QED
    BY <1>1, <2>1, <2>2, FileContents
<1>4. here.bytes <= MAX_TEXT_FILE_BYTES /\ scanned_bytes + here.bytes \in 0 .. MAX_SEARCH_TOTAL_BYTES
  <2>1. scanned_bytes \in Nat /\ scanned_bytes <= MAX_SEARCH_TOTAL_BYTES
    BY SearchLimits DEF SearchInv, SearchTypes
  <2>2. MAX_SEARCH_TOTAL_BYTES \in Nat /\ MAX_TEXT_FILE_BYTES \in Nat
    BY SearchLimits
  <2> DEFINE left == MAX_SEARCH_TOTAL_BYTES - scanned_bytes
             most == MostBytes
             bytes == here.bytes
  <2>3. most = (IF MAX_TEXT_FILE_BYTES < left THEN MAX_TEXT_FILE_BYTES ELSE left)
    BY DEF MostBytes, Smaller
  <2>4. bytes \in Nat /\ ~ (bytes > most)
    BY <1>2, <1>3
  <2> HIDE DEF most, bytes, here
  <2>5. bytes <= MAX_TEXT_FILE_BYTES /\ scanned_bytes + bytes \in 0 .. MAX_SEARCH_TOTAL_BYTES
    BY <2>1, <2>2, <2>3, <2>4
  <2>6. QED
    BY <2>5 DEF bytes
<1>5. steady => Searchable(entry.path)
  <2>1. ASSUME steady
        PROVE  Depth(entry.path) <= MAX_SEARCH_DEPTH
    BY <2>1 DEF SearchInv, HeapCovers
  <2>2. Lstat(entry.path) = "file"
    BY <1>1, <1>2, DenialIsAFault
  <2>3. QED
    BY <1>2, <1>3, <1>4, <2>1, <2>2 DEF Searchable
<1>6. steady => Hits(entry.path) \subseteq AllHits
  BY <1>1, <1>5 DEF AllHits
<1>7. /\ all \in Seq(Match) /\ Len(all) = Len(matches) + Len(Found(entry.path))
      /\ Len(Found(entry.path)) \in Nat
      /\ \A i, j \in 1 .. Len(all) : i < j => Before(all[i], all[j])
      /\ \A i \in 1 .. Len(all) : all[i][1] <= entry.path
      /\ Elements(all) = Elements(matches) \cup Hits(entry.path)
  BY FileIsSearched
<1>8. /\ scanned_bytes' = scanned_bytes + here.bytes /\ UNCHANGED scanned_files
      /\ IF Len(Found(entry.path)) > 0 /\ Len(all) >= max_results
         THEN /\ matches' = SubSeq(all, 1, max_results) /\ stop' = "max_results"
              /\ Because("max_results") /\ Returns
         ELSE /\ matches' = all /\ pc' = "loop"
              /\ UNCHANGED <<tree, changes, scan, steady, max_results, late, pending, entry, size,
                             limit_reason, moved, code, stop>>
  BY DEF Matches, treeVars, request
<1>9. /\ max_results \in Nat /\ max_results > 0 /\ Len(matches) \in Nat /\ Len(matches) < max_results
      /\ limit_reason \in {"none"} \cup Incidents
      /\ scanned_files \in 0 .. MAX_SEARCH_FILES
      /\ steady => Elements(matches) \subseteq AllHits
  BY SearchKinds DEF SearchInv, SearchTypes, SearchPlace, HeapCovers
<1> HIDE DEF all, here
<1>10. CASE Len(Found(entry.path)) > 0 /\ Len(all) >= max_results
  <2>1. /\ matches' = SubSeq(all, 1, max_results) /\ stop' = "max_results" /\ Because("max_results")
        /\ code' = "ok" /\ pc' = "idle" /\ pending' = {} /\ entry' = NoEntry
        /\ UNCHANGED <<tree, changes, scan, steady, max_results, late, size, moved>>
    BY <1>8, <1>10 DEF Returns, treeVars, request
  <2>2. /\ matches' \in Seq(Match) /\ Len(matches') = max_results
        /\ \A i \in 1 .. max_results : matches'[i] = all[i] /\ i \in 1 .. Len(all)
    BY <1>7, <1>9, <1>10, <2>1
  <2>3. /\ limit_reason' \in {"max_results"} \cup Incidents
        /\ limit_reason' = "max_results" => limit_reason = "none"
    BY <1>9, <2>1 DEF Because, Incidents
  <2>4. scan' = NoScan
    BY <2>1 DEF SearchInv, SearchPlace
  <2>5. ScanInv'
    BY <2>1, <2>4, NothingIsListed
  <2>6. SearchTypes'
    BY <1>4, <1>8, <1>9, <2>1, <2>2, <2>3 DEF SearchInv, SearchTypes, Limit
  <2>7. SearchPlace'
    BY <2>1, <2>4 DEF SearchPlace
  <2>8. HeapOrder'
    <3>1. \A i, j \in 1 .. Len(matches') : i < j => Before(matches'[i], matches'[j])
      BY <1>7, <2>2
    <3>2. QED
      BY <2>1, <3>1 DEF HeapOrder, MatchesInOrder, Before
  <2>9. HeapCovers'
    BY <2>1 DEF HeapCovers
  <2>10. UntruncatedIsComplete'
    BY <2>3 DEF UntruncatedIsComplete, Incidents
  <2>11. TruncatedIsAPrefix'
    <3>1. SUFFICES ASSUME steady, limit_reason = "none", NEW k \in AllHits \ Elements(matches)',
                          NEW i \in 1 .. Len(matches')
                   PROVE  Before(matches'[i], k)
      BY <2>1, <2>3, SameFinds DEF TruncatedIsAPrefix, Elements, Before
    <3>2. i \in 1 .. max_results /\ matches'[i] = all[i] /\ i \in 1 .. Len(all)
      BY <2>2
    <3>3. PICK p \in Path : Searchable(p) /\ k \in Hits(p)
      BY DEF AllHits
    <3>4. CASE k \in Elements(all)
      <4>1. PICK j \in 1 .. Len(all) : all[j] = k
        BY <3>4 DEF Elements
      <4>2. ~ (j \in 1 .. max_results)
        <5>1. ASSUME j \in 1 .. max_results
              PROVE  FALSE
          <6>1. matches'[j] = k /\ j \in 1 .. Len(matches')
            BY <2>2, <4>1, <5>1
          <6>2. k \in Elements(matches)'
            BY <6>1 DEF Elements
          <6>3. QED
            BY <3>1, <6>2
        <5>2. QED
          BY <5>1
      <4>3. i < j
        BY <1>9, <3>2, <4>2
      <4>4. QED
        BY <1>7, <3>2, <4>1, <4>3
    <3>5. CASE k \notin Elements(all)
      <4>1. ~ (Hits(p) \subseteq Elements(matches)) /\ p # entry.path
        BY <1>7, <3>3, <3>5
      <4>2. \E q \in Open : Leads(q, p)
        BY <3>1, <3>3, <4>1 DEF SearchInv, HeapCovers
      <4>3. PICK q \in Open : Leads(q, p)
        BY <4>2
      <4>4. q # entry.path
        <5>1. Lstat(entry.path) = "file"
          BY <1>1, <1>2, DenialIsAFault
        <5>2. q \in Above[p] => Lstat(q) = "directory"
          BY <3>3, WayToAFile
        <5>3. QED
          BY <4>1, <4>3, <5>1, <5>2 DEF Leads
      <4>5. PICK e \in pending : q = e.path
        BY <4>3, <4>4 DEF Open
      <4>6. entry.path < q /\ q <= p /\ k[1] = p /\ q \in Nat /\ p \in Nat
        <5>1. entry.path < q
          BY <4>5 DEF SearchInv, HeapOrder
        <5>2. q <= p /\ k[1] = p
          BY <3>3, <4>3, WayToAFile, HitsOfAPath, SearchKinds
        <5>3. q \in Path
          BY <4>5, SearchKinds
        <5>4. QED
          BY <5>1, <5>2, <5>3, PathAssumption
      <4>7. all[i][1] <= entry.path /\ all[i][1] \in Nat
        <5>1. all[i] \in Match
          BY <1>7, <3>2
        <5>2. QED
          BY <1>7, <3>2, <5>1, PathAssumption DEF Match
      <4>8. all[i][1] < k[1]
        BY <1>1, <4>6, <4>7
      <4>9. QED
        BY <3>2, <4>8 DEF Before
    <3>6. QED
      BY <3>4, <3>5
  <2>12. QED
    BY <2>5, <2>6, <2>7, <2>8, <2>9, <2>10, <2>11 DEF SearchInv, Returned
<1>11. CASE ~ (Len(Found(entry.path)) > 0 /\ Len(all) >= max_results)
  <2>1. /\ matches' = all /\ pc' = "loop"
        /\ UNCHANGED <<tree, changes, scan, steady, max_results, late, pending, entry, size,
                       limit_reason, moved, code, stop>>
    BY <1>8, <1>11
  <2>2. Len(matches') < max_results /\ matches' \in Seq(Match)
    BY <1>7, <1>9, <1>11, <2>1
  <2>3. MatchesInOrder'
    BY <1>7, <2>1 DEF MatchesInOrder, Before
  <2>4. Elements(matches)' = Elements(matches) \cup Hits(entry.path)
    BY <1>7, <2>1 DEF Elements
  <2>5. \A i \in 1 .. Len(matches') : matches'[i][1] <= entry.path
    BY <1>7, <2>1
  <2>6. scanned_files' \in 0 .. MAX_SEARCH_FILES /\ scanned_bytes' \in 0 .. MAX_SEARCH_TOTAL_BYTES
    BY <1>4, <1>8, <1>9
  <2>7. QED
    BY <1>6, <1>9, <2>1, <2>2, <2>3, <2>4, <2>5, <2>6, SearchGoesOn
<1>12. QED
  BY <1>10, <1>11

\* A file is read.
LEMMA SearchReads ==
  ASSUME SearchInv, ReadIsDisturbed \/ Read
  PROVE  SearchInv'
<1>1. pc = "read" /\ entry \in Item /\ entry.path \in Path /\ code = "none" /\ stop = "none"
  BY DEF ReadIsDisturbed, Read, SearchInv, SearchPlace, Item
<1>2. /\ size \in Nat /\ scanned_bytes \in Nat /\ scanned_bytes + size \in 0 .. MAX_SEARCH_TOTAL_BYTES
      /\ scanned_files \in 0 .. MAX_SEARCH_FILES /\ limit_reason \in {"none"} \cup Incidents
  <2>1. /\ size \in Nat /\ scanned_bytes \in 0 .. MAX_SEARCH_TOTAL_BYTES
        /\ scanned_bytes + size <= MAX_SEARCH_TOTAL_BYTES
        /\ scanned_files \in 0 .. MAX_SEARCH_FILES /\ limit_reason \in {"none"} \cup Incidents
    BY <1>1 DEF SearchInv, SearchTypes, SearchPlace
  <2>2. QED
    BY <2>1, SearchLimits
<1>3. CASE ReadIsDisturbed
  BY <1>3, SearchFails DEF ReadIsDisturbed
<1>4. CASE Read /\ ReadFault = "none"
  BY <1>1, <1>4, SearchMatches DEF Read
<1>5. ASSUME Skips(size)
      PROVE  /\ pc' = "loop" /\ scanned_bytes' \in 0 .. MAX_SEARCH_TOTAL_BYTES
             /\ UNCHANGED <<tree, changes, scan, steady, max_results, late, pending, entry, matches, code, stop>>
             /\ matches' \in Seq(Match) /\ Len(matches') < max_results /\ MatchesInOrder'
             /\ \A i \in 1 .. Len(matches') : matches'[i][1] <= entry.path
             /\ steady => Elements(matches)' \subseteq AllHits /\ Elements(matches) \subseteq Elements(matches)'
  <2>1. /\ scanned_bytes' = scanned_bytes + size /\ pc' = "loop"
        /\ UNCHANGED <<tree, changes, scan, steady, max_results, late, pending, entry, matches, code, stop>>
    BY <1>5 DEF Skips, treeVars, request
  <2>2. /\ matches' \in Seq(Match) /\ Len(matches') < max_results /\ MatchesInOrder'
        /\ \A i \in 1 .. Len(matches') : matches'[i][1] <= entry.path
        /\ steady => Elements(matches)' \subseteq AllHits /\ Elements(matches) \subseteq Elements(matches)'
    BY <1>1, <2>1, NothingIsFound
  <2>3. QED
    BY <1>2, <2>1, <2>2
<1>6. CASE Read /\ ReadFault = "limit"
  <2>1. OverLimit
    BY <1>6 DEF Read
  <2>2. CASE MAX_SEARCH_TOTAL_BYTES - scanned_bytes < MAX_TEXT_FILE_BYTES
    <3>1. Breaks("max_total_bytes") /\ "max_total_bytes" \in Limit
      BY <2>1, <2>2 DEF OverLimit, Limit
    <3>2. QED
      BY <1>1, <3>1, FoundIsBeforeOpen, BreakIsAPrefix
  <2>3. CASE ~ (MAX_SEARCH_TOTAL_BYTES - scanned_bytes < MAX_TEXT_FILE_BYTES)
    <3>1. Because("file_limit") /\ Skips(size) /\ UNCHANGED scanned_files
      BY <2>1, <2>3 DEF OverLimit
    <3>2. limit_reason' \in {"none"} \cup Incidents /\ limit_reason' # "none"
      BY <1>1, <3>1, BecauseOfAnIncident
    <3>3. QED
      BY <1>1, <1>2, <1>5, <3>1, <3>2, SearchGoesOn
  <2>4. QED
    BY <2>2, <2>3
<1>7. CASE Read /\ ReadFault = "not text"
  <2>1. Skips(size) /\ UNCHANGED <<scanned_files, limit_reason>>
    BY <1>7 DEF Read, NotText
  <2>2. ~ Searchable(entry.path)
    <3>1. \A p, kind : Denial(p, kind) # "not text"
      BY DenialIsAFault
    <3>2. tree[entry.path].content.body = "binary"
      BY <1>7, <3>1 DEF ReadFault
    <3>3. QED
      BY <3>2 DEF Searchable
  <2>3. QED
    BY <1>1, <1>2, <1>5, <2>1, <2>2, SearchGoesOn
<1>8. CASE Read /\ ReadFault \notin {"none", "limit", "not text"}
  <2>1. Fails(ReadFault)
    BY <1>8 DEF Read
  <2>2. ReadFault # "ok"
    BY DenialIsAFault DEF ReadFault
  <2>3. QED
    BY <1>8, <2>1, <2>2, SearchFails
<1>9. QED
  BY <1>3, <1>4, <1>6, <1>7, <1>8

\* The invariant of the search.
LEMMA SearchInductive ==
  /\ Init => SearchInv
  /\ SearchInv /\ [Next]_vars => SearchInv'
<1>1. ASSUME Init
      PROVE  SearchInv
  <2>1. /\ tree \in FirstTree /\ changes = 0 /\ scan = NoScan /\ steady = FALSE
        /\ pc = "idle" /\ late = FALSE /\ max_results \in Results
        /\ pending = {} /\ entry = NoEntry /\ matches = << >>
        /\ scanned_files = 0 /\ scanned_bytes = 0
        /\ limit_reason = "none" /\ code = "none" /\ stop = "none"
    BY <1>1 DEF Init, TreeInit
  <2>2. ScanInv
    <3>1. MAX_DIRECTORY_ENTRIES \in Nat
      BY EntriesAssumption
    <3>2. scan.dir = 0 /\ scan.names = {} /\ scan.seen = << >> /\ pc # "scan"
      BY <2>1, EmptyScan
    <3>3. /\ Elements(scan.seen) = {} /\ Len(scan.seen) = 0 /\ Len(scan.seen) <= MAX_DIRECTORY_ENTRIES
          /\ scan.seen \in Seq([path : Path, kind : Listable])
      BY <3>1, <3>2, EmptyScan
    <3>4. QED
      BY <3>2, <3>3, EmptyScan DEF ScanInv
  <2>3. SearchTypes
    <3>1. tree \in [Path -> Entry]
      BY <2>1, SearchAssumption, Zenon
    <3>2. max_results \in Nat /\ << >> \in Seq(Match) /\ Len(<< >>) = 0 /\ max_results > 0
      BY <2>1, SearchLimits
    <3>3. /\ 0 \in 0 .. MaxChanges /\ 0 \in 0 .. MAX_SEARCH_FILES /\ 0 \in 0 .. MAX_SEARCH_TOTAL_BYTES
          /\ 0 <= max_results
      BY <3>2, SearchLimits
    <3>4. matches \in Seq(Match) /\ Len(matches) <= max_results
      BY <2>1, <3>2, <3>3
    <3> HIDE DEF Match
    <3>5. QED
      BY <2>1, <3>1, <3>3, <3>4 DEF SearchTypes
  <2>4. SearchPlace /\ HeapCovers /\ Returned
    BY <2>1 DEF SearchPlace, HeapCovers, Returned, UntruncatedIsComplete, TruncatedIsAPrefix
  <2>5. HeapOrder
    BY <2>1, EmptyScan DEF HeapOrder, MatchesInOrder
  <2>6. QED
    BY <2>2, <2>3, <2>4, <2>5 DEF SearchInv
<1>2. ASSUME SearchInv, [Next]_vars
      PROVE  SearchInv'
  <2>1. CASE UserChanges \/ Elapse \/ UNCHANGED vars
    BY <1>2, <2>1, SearchIsWatched
  <2>2. CASE Searching
    <3>1. CASE Start
      BY <1>2, <3>1, SearchBegins
    <3>2. CASE Inspect \/ Push
      BY <1>2, <3>2, SearchInspects, SearchPushes
    <3>3. CASE Exhausted
      BY <1>2, <3>3, SearchIsExhausted
    <3>4. CASE TimesOut
      BY <1>2, <3>4, SearchFails DEF TimesOut
    <3>5. CASE SkipBlocked \/ Descend \/ TakeFile
      BY <1>2, <3>5, SearchPops
    <3>6. CASE List \/ TooManyFiles \/ Size
      BY <1>2, <3>6, SearchLists, SearchHasTooManyFiles, SearchSizes
    <3>7. CASE ReadIsDisturbed \/ Read
      BY <1>2, <3>7, SearchReads
    <3>8. QED
      BY <2>2, <3>1, <3>2, <3>3, <3>4, <3>5, <3>6, <3>7 DEF Searching
  <2>3. QED
    BY <1>2, <2>1, <2>2 DEF Next
<1>3. QED
  BY <1>1, <1>2

\* What the invariant says of the results.
LEMMA ResultsOfTheSearch ==
  SearchInv => ResultsAreAPrefix
<1>1. SUFFICES ASSUME SearchInv
               PROVE  ResultsAreAPrefix
  OBVIOUS
<1>2. TreeTypeOK
  BY <1>1 DEF SearchInv, SearchTypes, ScanInv, TreeTypeOK
<1>3. TypeOK
  BY <1>1, <1>2 DEF SearchInv, SearchTypes, TypeOK, Item, Listable, Incidents, Limit
<1>4. QED
  BY <1>1, <1>3 DEF SearchInv, HeapOrder, Returned, ResultsAreAPrefix

\* The Tool searches alone in its part of the composition.
LEMMA SearchAlone ==
  /\ ToolsInit /\ part = "search" => Init
  /\ [ToolsNext]_allVars => part' = part
  /\ [ToolsNext]_allVars /\ part = "search" => [Next]_vars
BY Zenon DEF ToolsInit, ToolsNext, allVars

-----------------------------------------------------------------------------
(* The theorems *)

\* What the invariant says of the pages a client has put together.
LEMMA PagesFollow ==
  FileInv => ReadTool!TypeOK /\ ReadTool!PagesAdvance /\ ReadTool!PagesAreTheFile
<1>1. SUFFICES ASSUME FileInv
               PROVE  ReadTool!TypeOK /\ ReadTool!PagesAdvance /\ ReadTool!PagesAreTheFile
  OBVIOUS
<1>5. ReadTool!TypeOK
  BY <1>1 DEF FileInv, ReadTypes, Opened, Codes, Failures, ReadTool!TypeOK, ReadTool!Node
<1>2. ReadTool!PagesAdvance
  BY <1>1, Zenon DEF FileInv, Answered, ReadTool!PagesAdvance
<1>3. ASSUME steady, reply.code = "ok"
      PROVE  /\ got = SubSeq(Content(path.inode), 1, Len(got))
             /\ reply.next = None <=> Len(got) = Len(Content(path.inode))
  <2>1. /\ Content(path.inode) \in Seq(ReadTool!Line) /\ got \in Seq(ReadTool!Line)
        /\ Len(got) <= Len(Content(path.inode))
        /\ \A k \in 1 .. Len(got) : got[k] = Content(path.inode)[k]
        /\ \/ reply.next = None /\ Len(got) = Len(Content(path.inode))
           \/ reply.next = Len(got) + 1 /\ Len(got) < Len(Content(path.inode))
    BY <1>1, <1>3, ReadAssumption DEF FileInv, ReadTypes, PagesSoFar, Content
  <2>2. Len(got) + 1 # None
    BY <2>1, ReadAssumption
  <2>3. got = SubSeq(Content(path.inode), 1, Len(got))
    BY <2>1
  <2>4. QED
    BY <2>1, <2>2, <2>3
<1>4. QED
  BY <1>2, <1>3, <1>5 DEF ReadTool!PagesAreTheFile, Content

(***************************************************************************)
(* For all files, inodes, page lengths and limits: a page that             *)
(* workspace.read answers is cut from one version of the file, the version *)
(* that lies there when it answers, and that file is the one it resolved,  *)
(* not one put in its place under the same inode number, whenever the user *)
(* edits, replaces, links or removes it (workspace_read.py,                *)
(* workspace_text.py, _open_verified of workspace_boundary.py); alone and  *)
(* as the part "read" of the composition.                                  *)
(***************************************************************************)
THEOREM PagesOneVersion ==
  /\ ReadTool!Spec => [][ReadTool!OneVersion /\ ReadTool!ReadsWhatItChecked']_ReadTool!vars
  /\ ToolsSpec => PageIsOneVersion
<1>1. FileInv => ReadTool!ReadsWhatItChecked
  BY Zenon DEF FileInv, CheckedIsResolved
<1>2. ReadTool!Spec => [][ReadTool!OneVersion /\ ReadTool!ReadsWhatItChecked']_ReadTool!vars
  BY <1>1, ReadInductive, PTL DEF ReadTool!Spec
<1>3. ToolsInit => (part = "read" => FileInv)
  BY ReadAlone, ReadInductive
<1>4. (part = "read" => FileInv) /\ [ToolsNext]_allVars
        => /\ (part = "read" => FileInv)'
           /\ part = "read" => ReadTool!OneVersion /\ FileInv'
  <2>1. (part = "read")' <=> part' = "read"
    OBVIOUS
  <2>2. QED
    BY <2>1, ReadAlone, ReadInductive
<1>5. ToolsSpec => PageIsOneVersion
  BY <1>1, <1>3, <1>4, PTL DEF ToolsSpec, PageIsOneVersion
<1>6. QED
  BY <1>2, <1>5

(***************************************************************************)
(* For all files, trees, page lengths and limits: who follows              *)
(* next_start_line of workspace.read through a file, or next_offset of     *)
(* workspace.list through a directory, that nobody touches has had every   *)
(* line or entry once and in order, and all of them when there is no next  *)
(* page, although every page of a directory is a listing of its own        *)
(* (workspace_read.py, workspace_list.py, list_directory of                *)
(* workspace_boundary.py); a page of text fits MAX_READ_TEXT_BYTES, and    *)
(* next_start_line always leads further.                                   *)
(***************************************************************************)
THEOREM PagesWhole ==
  /\ ReadTool!Spec => [](ReadTool!TypeOK /\ ReadTool!PagesAdvance /\ ReadTool!PagesAreTheFile)
  /\ ListTool!Spec => [](ListTool!TypeOK /\ ListTool!PagesAreTheDirectory)
  /\ ToolsSpec => []PagesAreTheWhole
<1>1. ReadTool!Spec => []FileInv
  BY ReadInductive, PTL DEF ReadTool!Spec
<1>2. ListTool!Spec => []ListInv
  BY ListInductive, PTL DEF ListTool!Spec
<1> DEFINE Inv == (part = "read" => FileInv) /\ (part = "list" => ListInv)
<1>3. ToolsInit => Inv
  BY ReadAlone, ReadInductive, ListAlone, ListInductive
<1>4. Inv /\ [ToolsNext]_allVars => Inv'
  BY ReadAlone, ReadInductive, ListAlone, ListInductive
<1>5. Inv => PagesAreTheWhole
  BY PagesFollow, PagesOfTheDirectory, Zenon DEF PagesAreTheWhole
<1> HIDE DEF Inv
<1>6. ToolsSpec => []PagesAreTheWhole
  BY <1>3, <1>4, <1>5, PTL DEF ToolsSpec
<1>7. QED
  BY <1>1, <1>2, <1>6, PagesFollow, PagesOfTheDirectory, PTL

(***************************************************************************)
(* SearchIsAPrefix, for all trees, contents and limits: workspace.search   *)
(* returns its matches in the order of portable paths and lines whatever   *)
(* the tree becomes meanwhile, within the limits on matches, files and     *)
(* bytes; in a tree that nobody touches a result that gives no limit as    *)
(* its reason holds every match there is, and one that a limit ended is    *)
(* the beginning of the whole (_search of workspace_search.py); alone and  *)
(* as the part "search" of the composition.                                *)
(***************************************************************************)
THEOREM SearchFindsAPrefix ==
  /\ Spec => []ResultsAreAPrefix
  /\ ToolsSpec => []SearchIsAPrefix
<1>1. Spec => []ResultsAreAPrefix
  BY SearchInductive, ResultsOfTheSearch, PTL DEF Spec
<1> DEFINE Inv == part = "search" => SearchInv
<1>2. ToolsInit => Inv
  BY SearchAlone, SearchInductive
<1>3. Inv /\ [ToolsNext]_allVars => Inv'
  BY SearchAlone, SearchInductive
<1>4. Inv => SearchIsAPrefix
  BY ResultsOfTheSearch, Zenon DEF SearchIsAPrefix
<1> HIDE DEF Inv
<1>5. ToolsSpec => []SearchIsAPrefix
  BY <1>2, <1>3, <1>4, PTL DEF ToolsSpec
<1>6. QED
  BY <1>1, <1>5
================================================================================
