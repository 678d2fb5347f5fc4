--------------------------- MODULE MCWorkspaceTools ---------------------------
(***************************************************************************)
(* The three workspace Tools that read, each on its own (part, chosen in   *)
(* Init): a search of a tree, a client that lists the directory "a", and a *)
(* client that reads a file, while the user changes what they look at.     *)
(*                                                                         *)
(* The paths are "a", "a.b", "a/c", "a/d", "a/d/e", "a/f", "a/g": the file *)
(* "a.b" comes between the directory "a" and what lies in it.              *)
(***************************************************************************)
EXTENDS WorkspaceSearch

CONSTANTS
  Directory, Limits, ListTrees, ListContents, ListChanges,  \* list
  Inodes, Files, PageLengths, ReadChanges,     \* read
  ReadFileBytes, MAX_TEXT_LINE_BYTES, MAX_READ_TEXT_BYTES,
  None

VARIABLES part, asked, reply, got,                          \* list and read
          path, node, checked, handle, before, lines, resolved   \* read
searchOnly == <<pending, entry, matches, counts, size, limit_reason, moved, code, stop, max_results>>
readOnly == <<path, node, checked, handle, before, lines, resolved>>
allVars == <<part, vars, asked, reply, got, readOnly>>

MCPath == 1 .. 7
MCParent == <<0, 0, 1, 1, 4, 1, 1>>

\* files with up to two matches; one is binary, one has a line too long
MCContents == {[bytes |-> 1, body |-> "text", hits |-> <<1>>],
               [bytes |-> 2, body |-> "text", hits |-> <<1, 2>>],
               [bytes |-> 1, body |-> "binary", hits |-> << >>],
               [bytes |-> 2, body |-> "long line", hits |-> << >>],
               [bytes |-> 3, body |-> "text", hits |-> <<2>>]}
Small == [bytes |-> 1, body |-> "text", hits |-> <<1>>]
File(c) == [kind |-> "file", content |-> c, birth |-> 0]
Other(k) == [kind |-> k, content |-> NoContent, birth |-> 0]

\* for the search: a directory too deep to be searched, or a fourth file, and
\* what comes last
MCTree ==
  {<<Other("directory"), File(b), File(c), de[1], de[2], f, Other("absent")>> :
     b \in {c \in MCContents : c.bytes < 3}, c \in MCContents,
     de \in {<<Other("directory"), File(Small)>>, <<File(Small), Other("absent")>>},
     f \in {Other("absent"), Other("blocked"), File([bytes |-> 2, body |-> "text", hits |-> <<1, 2>>])}}

\* for the listing: two or three entries; there may come one too many
MCListTrees ==
  {<<Other("directory"), Other("absent"), a, b, Other("absent"), c, Other("absent")>> :
     a \in {File(Small), Other("directory")}, b \in {File(Small), Other("blocked")},
     c \in {File(Small), Other("absent")}}
MCListContents == {Small}

ListTool == INSTANCE WorkspaceList WITH
  request <- asked, FirstTree <- ListTrees, Contents <- ListContents, MaxChanges <- ListChanges

ReadTool == INSTANCE WorkspaceRead WITH
  request <- asked, Contents <- Files, MaxChanges <- ReadChanges,
  MAX_TEXT_FILE_BYTES <- ReadFileBytes

\* A page has room for the longest line (workspace_limits.py), and is asked for
\* with at least one line.
ASSUME ReadAssumption ==
  /\ Files \subseteq Seq(ReadTool!Line) /\ PageLengths \subseteq Nat \ {0}
  /\ {ReadChanges, ReadFileBytes, MAX_TEXT_LINE_BYTES, MAX_READ_TEXT_BYTES} \subseteq Nat
  /\ MAX_TEXT_LINE_BYTES <= MAX_READ_TEXT_BYTES
  /\ None \notin Nat \cup Inodes

ASSUME ListAssumption ==
  /\ ListTrees \subseteq [Path -> ListTool!Entry] /\ ListChanges \in Nat
  /\ Directory \in Path \cup {0} /\ Limits \subseteq Nat \ {0}

\* for the reading: up to three lines, two of which fill a page; one line is
\* longer than a line may be and than a page is, and one is not text
L(id, bytes) == [id |-> id, bytes |-> bytes, text |-> TRUE]
MCFiles == {<<L(1, 1), L(2, 2), L(3, 1)>>, <<L(4, 1), L(5, 2), L(6, 1)>>,
            <<L(1, 1), L(7, 4)>>, <<L(1, 1), [L(8, 1) EXCEPT !.text = FALSE]>>, << >>}

-----------------------------------------------------------------------------
NoSearch ==
  /\ max_results = 0 /\ pending = {} /\ entry = NoEntry /\ matches = << >>
  /\ scanned_files = 0 /\ scanned_bytes = 0 /\ size = 0
  /\ limit_reason = "none" /\ moved = FALSE /\ code = "none" /\ stop = "none"
NoRead ==
  /\ path = None /\ node = None /\ checked = None /\ handle = None /\ before = None
  /\ lines = << >> /\ resolved = 0

ToolsInit ==
  \/ part = "search" /\ Init /\ asked = None /\ reply = None /\ got = << >> /\ NoRead
  \/ part = "list" /\ ListTool!Init /\ NoSearch /\ NoRead
  \/ part = "read" /\ ReadTool!Init /\ NoSearch /\ tree = None /\ scan = None

ToolsNext ==
  /\ \/ part = "search" /\ Next /\ UNCHANGED <<asked, reply, got, readOnly>>
     \/ part = "list" /\ ListTool!Next /\ UNCHANGED <<searchOnly, readOnly>>
     \/ part = "read" /\ ReadTool!Next /\ UNCHANGED <<searchOnly, tree, scan>>
  /\ UNCHANGED part
ToolsSpec == ToolsInit /\ [][ToolsNext]_allVars

-----------------------------------------------------------------------------
(***************************************************************************)
(* A search of a tree that nobody touches returns every match in the order *)
(* of portable paths, or says that a limit ended it and returns the        *)
(* beginning; and its counts keep to the limits whatever is touched.       *)
(***************************************************************************)
SearchIsAPrefix == part = "search" => ResultsAreAPrefix

(***************************************************************************)
(* Who follows the cursors of list through a directory nobody touches, or  *)
(* those of read through such a file, has had every entry or line once, in *)
(* order, and all of them when there is no cursor any more; and a cursor   *)
(* always leads further.                                                   *)
(***************************************************************************)
PagesAreTheWhole ==
  /\ part = "list" => ListTool!TypeOK /\ ListTool!PagesAreTheDirectory
  /\ part = "read" => ReadTool!TypeOK /\ ReadTool!PagesAdvance /\ ReadTool!PagesAreTheFile

(***************************************************************************)
(* A page of a file is cut from one version of the file that was resolved: *)
(* not from one put in its place, even under the same inode number, and    *)
(* never from lines of two versions.                                       *)
(***************************************************************************)
PageIsOneVersion ==
  [][part = "read" => ReadTool!OneVersion /\ ReadTool!ReadsWhatItChecked']_allVars
===============================================================================
