----------------------------- MODULE WorkspaceList -----------------------------
(***************************************************************************)
(* workspace.list (adapters/tools/workspace_list.py): a page of the        *)
(* entries of a directory, and a client that follows next_offset.  Every   *)
(* page lists the directory anew.                                          *)
(***************************************************************************)
EXTENDS WorkspaceTree

CONSTANTS Directory, Limits, None

VARIABLES request, reply, got

vars == <<treeVars, pc, late, scan, steady, request, reply, got>>

NoReply == [code |-> "none", entries |-> << >>, next |-> None]

Init ==
  /\ TreeInit
  /\ pc = "idle" /\ late = FALSE
  /\ request = [offset |-> 0, limit |-> 1]
  /\ reply = NoReply /\ got = << >>

UserChanges == Change /\ UNCHANGED <<pc, late, scan, request, reply, got>>

\* the client starts anew, or goes on at next_offset
Ask ==
  /\ pc = "idle"
  /\ \E n \in Limits :
       \/ /\ request' = [offset |-> 0, limit |-> n]
          /\ got' = << >> /\ steady' = TRUE
       \/ /\ reply.code = "ok" /\ reply.next # None
          /\ request' = [offset |-> reply.next, limit |-> n]
          /\ UNCHANGED <<got, steady>>
  /\ pc' = "resolve" /\ late' = FALSE
  /\ reply' = NoReply
  /\ UNCHANGED <<treeVars, scan>>

Elapse ==
  /\ pc # "idle" /\ ~ late
  /\ late' = TRUE
  /\ UNCHANGED <<treeVars, pc, scan, steady, request, reply, got>>

\* boundary_failure
Fails(code) ==
  /\ pc' = "idle" /\ scan' = NoScan
  /\ reply' = [NoReply EXCEPT !.code = code]
  /\ UNCHANGED <<treeVars, late, steady, request, got>>

Resolve ==
  /\ pc = "resolve"
  /\ LET fault == IF Directory = 0 THEN "none" ELSE Denial(Directory, "directory")
     IN  IF fault # "none" THEN Fails(fault)
         ELSE /\ pc' = "scan" /\ scan' = ScanOf(Directory)
              /\ UNCHANGED <<treeVars, late, steady, request, reply, got>>

Inspect ==
  /\ pc = "scan"
  /\ \E p \in scan.names :
       IF ScanFault(p) # "none" THEN Fails(ScanFault(p))
       ELSE /\ scan' = Inspected(p)
            /\ UNCHANGED <<treeVars, pc, late, steady, request, reply, got>>

\* entries[offset:end_offset]
Slice(entries, offset, end) == SubSeq(entries, offset + 1, IF end < Len(entries) THEN end ELSE Len(entries))

Page(offset, limit) == Slice(Entries, offset, offset + limit)

\* the page of the sorted snapshot
Answer ==
  /\ pc = "scan" /\ scan.names = {}
  /\ IF EndFault # "none" THEN Fails(EndFault)
     ELSE LET end == request.offset + request.limit
              page == Page(request.offset, request.limit)
          IN  /\ reply' = [code |-> "ok", entries |-> page,
                           next |-> IF end < Len(scan.seen) THEN end ELSE None]
              /\ got' = got \o page
              /\ pc' = "idle" /\ scan' = NoScan
              /\ UNCHANGED <<treeVars, late, steady, request>>

Next == UserChanges \/ Ask \/ Elapse \/ Resolve \/ Inspect \/ Answer

Spec == Init /\ [][Next]_vars

-----------------------------------------------------------------------------
(* Properties *)

\* Type correctness; a directory with too many entries is never listed in part.
TypeOK ==
  /\ TreeTypeOK
  /\ pc \in {"idle", "resolve", "scan"}
  /\ request.offset \in Nat /\ request.limit \in Limits \cup {1}
  /\ reply.code \in {"none", "ok", "not found", "denied", "wrong type", "timeout", "limit"}
  /\ pc = "scan" \/ scan = NoScan

\* Who follows next_offset through a directory nobody touches has seen every
\* entry once, in path order, although each page is a listing of its own and
\* the iterator yields the names in any order.
PagesAreTheDirectory ==
  steady /\ reply.code = "ok" =>
    /\ \A i, j \in 1 .. Len(got) : i < j => got[i].path < got[j].path
    /\ \A p \in Children(Directory) : Lstat(p) # "absent" =>
         \/ [path |-> p, kind |-> Lstat(p)] \in {got[i] : i \in 1 .. Len(got)}
         \/ reply.next # None /\ \A i \in 1 .. Len(got) : got[i].path < p
==============================================================================
