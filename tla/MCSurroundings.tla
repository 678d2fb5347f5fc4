----------------------------- MODULE MCSurroundings -----------------------------
(***************************************************************************)
(* Small instances of what stands around: two reads and one thread, a Run  *)
(* of up to five Events to query, three Runs to check, of which one or all *)
(* are damaged, three processes and two builds that set up the tables, two *)
(* appends under diagnosis, two inits.                                     *)
(***************************************************************************)
EXTENDS Surroundings, TLC

CONSTANTS r1, r2, r3, a1, a2, c1, q1

MCHistories ==
  {<<None, a1, None, a2, None, None>>, <<None, a1, a1, None>>, <<None, Unparsable, a1>>,
   <<None, None, a1, a2>>}
\* r1 lives through a Tool call, r2 and r3 only begin and end
MCLimits == [iterations |-> 1, tokens |-> 1, cost |-> 1, wall |-> 1, tools |-> 1]
MCLimitChoices == {MCLimits}
Begin(r) ==
  <<[Blank(r, 1, "RunCreated", "run") EXCEPT !.limits = MCLimits],
    [Blank(r, 2, "RunStarted", "run") EXCEPT !.at = 0]>>
Asked == [version |-> 2, request |-> q1]
MCScripts ==
  (r1 :> (Begin(r1) \o <<RequestEvent(r1, 3, "tool", a1, c1, 0, Asked), StartEvent(r1, 4, "tool", a1, c1),
                         ResultEvent(r1, 5, "Completed", "tool", a1, c1, Asked, NoUsage),
                         Blank(r1, 6, "RunSucceeded", "run")>>))
  @@ (r2 :> (Begin(r2) \o <<Blank(r2, 3, "RunFailed", "run")>>))
  @@ (r3 :> (Begin(r3) \o <<Blank(r3, 3, "RunSucceeded", "run")>>))
MCStarts == {(r1 :> 3) @@ (r2 :> 3) @@ (r3 :> 1), (r1 :> 6) @@ (r2 :> 0) @@ (r3 :> 3)}
MCDamages == {"none", "gap", "undecodable", "illegal", "no_projection", "bad_projection", "false_projection"}
\* one damaged Run, or all three
MCDamage ==
  {[r \in RunIds |-> IF r = x THEN d ELSE "none"] : x \in RunIds, d \in MCDamages}
  \cup {[r \in RunIds |-> d] : d \in {"gap", "illegal"}}
MCRunOrder == <<r1, r2, r3>>
MCFirstInode == [profile |-> 1, catalog |-> 2, database |-> 3]

Symmetry == Permutations(Appends)
=================================================================================
