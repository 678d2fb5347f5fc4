----------------------------- MODULE MCRunReducer -----------------------------
(* A small instance of RunReducer: two Activities fit in the stream, limits
   that allow one or two of each kind, usage that may reach and pass them, and
   usage that no ModelUsage holds, which still fits the counters once.  *)
EXTENDS RunReducer, TLC

MCUsages == {[input |-> 0, output |-> 0, cost |-> 0],
             [input |-> 1, output |-> 0, cost |-> 0],
             [input |-> 2, output |-> 2, cost |-> 2],
             [input |-> 4, output |-> 0, cost |-> 0]}
MCLimitChoices ==
  {[iterations |-> 1, tokens |-> 1, cost |-> 1, wall |-> 2, tools |-> 2],
   [iterations |-> 2, tokens |-> 2, cost |-> 2, wall |-> 1, tools |-> 1]}

Symmetry == Permutations(RunIds) \cup Permutations(ActivityIds)
            \cup Permutations(CallIds) \cup Permutations(Requests)
==============================================================================
