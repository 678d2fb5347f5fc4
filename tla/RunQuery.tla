------------------------------- MODULE RunQuery -------------------------------
(***************************************************************************)
(* RunQueryService (application/run_queries.py): `inspect` and `events`    *)
(* read the projection of a Run and then pages of its Events, each with a  *)
(* call of the EventStore and so with a snapshot of its own, while the Run *)
(* goes on.  A client follows the cursors that `events` gives it.          *)
(*                                                                         *)
(* What the Run comes to commit is `history`: at each sequence an Artifact,*)
(* None for an Event without one, or Unparsable.                           *)
(***************************************************************************)
EXTENDS Naturals, Sequences, SequencesExt, FiniteSetsExt

CONSTANTS
  Histories,        \* what the Run may come to commit
  Unparsable,       \* a payload that does not parse, or parses to no valid Artifact
  None,
  MAX_INSPECT_EVENTS, DEFAULT_EVENT_QUERY_LIMIT,
  QueryLimits,      \* limits that `events` is called with, positive
  Starts,           \* cursors that a client starts from
  PageFaults        \* what an EventStore may do to a page: "none", "empty", "hole", "long"

VARIABLES
  history, committed,      \* the Run, and how many of its Events are committed
  pc, last, read, inspected,   \* inspect: step, state.last_sequence, Events so far, result
  step, upto, cursor, limit, got, more   \* the client of events, and what it has
run == <<history, committed>>
inspection == <<pc, last, read, inspected>>
following == <<step, upto, cursor, limit, got, more>>
vars == <<run, inspection, following>>

\* the inspection has not ended; it raised; it returned the Artifacts of a state
Open == [last |-> 0, error |-> None, artifacts |-> <<>>]
Error(why) == [Open EXCEPT !.error = why]

Init ==
  /\ history \in Histories /\ committed = 0
  /\ pc = "idle" /\ last = 0 /\ read = <<>> /\ inspected = Open
  /\ step = "idle" /\ upto = 0 /\ cursor \in Starts /\ limit \in QueryLimits
  /\ got = <<>> /\ more = TRUE

\* AgentLoop appends the next Event
Commit ==
  /\ committed < Len(history)
  /\ committed' = committed + 1
  /\ UNCHANGED <<history, inspection, following>>

\* list_events: sequences above `after`, in order, at most n of them
Page(after, n) ==
  [i \in 1 .. Min({n, IF committed > after THEN committed - after ELSE 0}) |-> after + i]
\* what an adapter that does not keep its promise makes of a page
Faulted(page, fault) ==
  CASE fault = "none" -> page
    [] fault = "empty" -> <<>>
    [] fault = "hole" -> [i \in DOMAIN page |-> page[i] + 1]
    [] fault = "long" -> page \o page

-----------------------------------------------------------------------------
(* inspect *)

TooLong == committed > MAX_INSPECT_EVENTS

\* _require_run
BeginInspect ==
  /\ pc = "idle"
  /\ read' = <<>>
  /\ IF committed = 0
     THEN inspected' = Error("run_not_found") /\ UNCHANGED <<pc, last>>
     ELSE IF TooLong
     THEN inspected' = Error("query_limit_exceeded") /\ UNCHANGED <<pc, last>>
     ELSE inspected' = Open /\ last' = committed /\ pc' = "read"
  /\ UNCHANGED <<run, following>>

PageLimit(after) == Min({DEFAULT_EVENT_QUERY_LIMIT, last - after})

\* mutant: that the sequences follow on each other is not looked at
PageFits_Unchecked(page, after) == page # <<>> /\ Len(page) <= PageLimit(after)
\* the page is not empty, not too long, and follows on what was read
PageFits(page, after) ==
  /\ page # <<>> /\ Len(page) <= PageLimit(after)
  /\ \A i \in DOMAIN page : page[i] = after + i
  /\ page[Len(page)] <= last

ReadPage ==
  /\ pc = "read" /\ Len(read) < last
  /\ \E fault \in PageFaults :
       LET after == Len(read)
           page == Faulted(Page(after, PageLimit(after)), fault)
       IN  IF PageFits(page, after)
           THEN read' = read \o page /\ UNCHANGED <<pc, inspected>>
           ELSE inspected' = Error("invalid_event") /\ pc' = "idle" /\ UNCHANGED read
  /\ UNCHANGED <<run, last, following>>

\* the Artifacts of the Events, which must have different identities
Shown(events) == SelectSeq(events, LAMBDA a : a # None)
ArtifactsIn(sequences) == Shown([i \in DOMAIN sequences |-> history[sequences[i]]])
EndInspect ==
  /\ pc = "read" /\ Len(read) >= last
  /\ LET artifacts == ArtifactsIn(read) IN
     inspected' = IF Unparsable \in ToSet(artifacts) \/ ~ IsInjective(artifacts)
                  THEN Error("invalid_event")
                  ELSE [last |-> last, error |-> None, artifacts |-> artifacts]
  /\ pc' = "idle"
  /\ UNCHANGED <<run, last, read, following>>

-----------------------------------------------------------------------------
(* events, called again with the cursor that it gave *)

\* the projection first: how far the Run is
BeginPage ==
  /\ step = "idle" /\ committed > 0
  /\ upto' = committed /\ step' = "page"
  /\ UNCHANGED <<run, inspection, cursor, limit, got, more>>

QueryLimit == Min({limit, IF upto > cursor THEN upto - cursor ELSE 0})

\* EventPage.require_stable_contiguous_cursor
ValidPage(page) == Len(page) <= limit /\ \A i \in DOMAIN page : page[i] = cursor + i

HasMore(page, cur) == cur < upto

\* then the page; the next call may have another limit
EndPage ==
  /\ step = "page" /\ step' = "idle"
  /\ \E fault \in PageFaults, n \in QueryLimits :
       LET page == IF QueryLimit = 0 THEN <<>> ELSE Faulted(Page(cursor, QueryLimit), fault)
           next == IF page = <<>> THEN cursor ELSE page[Len(page)]
       IN  IF ValidPage(page) /\ (HasMore(page, next) => page # <<>>)
           THEN /\ got' = got \o page /\ cursor' = next /\ limit' = n
                /\ more' = HasMore(page, next) /\ UNCHANGED upto
           \* invalid_event: the client learned nothing
           ELSE upto' = 0 /\ UNCHANGED <<got, cursor, limit, more>>
  /\ UNCHANGED <<run, inspection>>

Follow == BeginPage \/ EndPage
Inspect == BeginInspect \/ ReadPage \/ EndInspect
Next == Commit \/ Inspect \/ Follow
Spec == Init /\ [][Next]_vars

-----------------------------------------------------------------------------
(* what an inspection has read is behind its projection, and both behind the Run *)
TypeOK ==
  /\ committed \in 0 .. Len(history) /\ last \in 0 .. committed /\ upto \in 0 .. committed
  /\ cursor \in Nat /\ limit \in QueryLimits
  /\ pc = "read" => last <= MAX_INSPECT_EVENTS /\ Len(read) <= last

(***************************************************************************)
(* An inspection shows one prefix of the Run: with the state of sequence n *)
(* come the Artifacts of the first n Events, all of them and no other,     *)
(* whatever was committed between its reads and whatever the EventStore    *)
(* made of its pages.  Otherwise it raises.                                *)
(***************************************************************************)
InspectsOnePrefix ==
  inspected.error = None /\ inspected.last > 0 =>
    inspected.artifacts = Shown(SubSeq(history, 1, inspected.last))

(***************************************************************************)
(* The pages a client gets by following the cursors are the Events behind  *)
(* its first cursor, each once, in order, and committed.                   *)
(***************************************************************************)
PagesFollowOn ==
  /\ \A i \in DOMAIN got : got[i] = cursor - Len(got) + i
  /\ got # <<>> => cursor <= committed

(***************************************************************************)
(* When no more is announced, the client has every Event that was          *)
(* committed when it asked; more is announced only if there is more.       *)
(***************************************************************************)
MoreIsTrue == step = "idle" /\ upto > 0 => (more <=> cursor < upto)

\* The four together, for the proofs and the runs.
InspectionIsOnePrefix == TypeOK /\ InspectsOnePrefix /\ PagesFollowOn /\ MoreIsTrue
===============================================================================
