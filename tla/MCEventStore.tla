----------------------------- MODULE MCEventStore -----------------------------
(* Two workers and rows that compete: r1 lives through one Tool call, r2 offers
   an event_id and an Activity that r1 may already own, and a stale repeat of
   RunStarted carries a new event_id.  One request lacks what its version needs. *)
EXTENDS EventStore

CONSTANTS r1, r2, a1, c1, q1, e1, e2, e3, e4, e5, e6, e7

MCLimits == [iterations |-> 1, tokens |-> 1, cost |-> 1, wall |-> 1, tools |-> 1]
CreatedRow(id, r) ==
  [id |-> id, event |-> [Blank(r, 1, "RunCreated", "run") EXCEPT !.limits = MCLimits]]
StartedRow(id, r) ==
  [id |-> id, event |-> [Blank(r, 2, "RunStarted", "run") EXCEPT !.at = 0]]
RequestRow(id, r) ==
  [id |-> id, event |-> [Blank(r, 3, "Requested", "tool") EXCEPT
     !.activity = a1, !.call = c1, !.at = 0, !.request = q1, !.version = 2]]

UnreadableRow(id, r) == [RequestRow(id, r) EXCEPT !.event.request = None]

MCLimitChoices == {MCLimits}
MCOffers == {CreatedRow(e1, r1), StartedRow(e2, r1), RequestRow(e3, r1), UnreadableRow(e3, r1),
             CreatedRow(e1, r2), CreatedRow(e4, r2), StartedRow(e5, r2), RequestRow(e6, r2)}
MCRaces == {CreatedRow(e1, r1), StartedRow(e2, r1), StartedRow(e7, r1), CreatedRow(e1, r2)}
Symmetry == Permutations(Workers)
==============================================================================
