------------------------------ MODULE MCAgentLoop ------------------------------
(* Two model calls and two Tool calls at most, one of them possibly refused. *)
EXTENDS AgentLoop, TLC

MCUsages == {NoUsage, [input |-> 1, output |-> 0, cost |-> 1]}
MCLimitChoices ==
  {[iterations |-> 2, tokens |-> 2, cost |-> 2, wall |-> 1, tools |-> 1],
   [iterations |-> 2, tokens |-> 1, cost |-> 1, wall |-> 1, tools |-> 2]}
MCLiveLimits == {[iterations |-> 3, tokens |-> 1, cost |-> 1, wall |-> 1, tools |-> 3]}
==============================================================================
