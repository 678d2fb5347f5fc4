-------------------------------- MODULE Pricing --------------------------------
(***************************************************************************)
(* The cost of model calls in whole micro-USD (runtime/pricing.py), added  *)
(* up over the calls of a Run as reduce_event does: what the cost budget   *)
(* is compared with, beside the exact cost in millionths of a micro-USD.   *)
(***************************************************************************)
EXTENDS Integers

CONSTANTS
  Rates,       \* micro-USD for TOKENS_PER_MILLION tokens
  TokenCounts, \* what a provider may report
  MaxCalls,
  TOKENS_PER_MILLION

ASSUME PricingAssumption ==
  Rates \subseteq Nat /\ TokenCounts \subseteq Nat /\ TOKENS_PER_MILLION \in Nat \ {0}

VARIABLES
  pricing,  \* of the Run's AgentConfig
  cost,     \* cost_microusd of the Run
  exact,    \* history: tokens times rates
  calls

vars == <<pricing, cost, exact, calls>>

\* mutant: rounded down
RoundedComponent_Down(tokens, rate) == (tokens * rate) \div TOKENS_PER_MILLION

RoundedComponent(tokens, rate) ==
  (tokens * rate + TOKENS_PER_MILLION - 1) \div TOKENS_PER_MILLION

Estimate(input, output) == RoundedComponent(input, pricing.input) + RoundedComponent(output, pricing.output)

Init ==
  /\ pricing \in [input : Rates, output : Rates]
  /\ cost = 0 /\ exact = 0 /\ calls = 0

Complete ==
  /\ calls < MaxCalls
  /\ \E input, output \in TokenCounts :
       /\ cost' = cost + Estimate(input, output)
       /\ exact' = exact + input * pricing.input + output * pricing.output
  /\ calls' = calls + 1
  /\ UNCHANGED pricing

Spec == Init /\ [][Complete]_vars

-----------------------------------------------------------------------------
(* Properties *)

\* The cost budget is never passed unseen: what the budget is compared with is
\* at least what the calls have cost.
NeverBelowTheCost == cost * TOKENS_PER_MILLION >= exact

\* The estimate is too high by less than one micro-USD for each of the two
\* components of each call, also after many calls.
OverestimateIsBounded == calls > 0 => cost * TOKENS_PER_MILLION < exact + 2 * calls * TOKENS_PER_MILLION
==============================================================================
