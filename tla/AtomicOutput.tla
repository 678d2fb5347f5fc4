----------------------------- MODULE AtomicOutput -----------------------------
(***************************************************************************)
(* What workspace.write promises about one output file, whatever happens   *)
(* to the processes that write it: the file is replaced as a whole or not  *)
(* at all, by a call that is still waited for; a call that is answered     *)
(* with success has replaced it, and one answered with a failure has not.  *)
(* A call whose answer is lost may have done either.  This is the contract *)
(* of adapters/tools/workspace_write.py and workspace_boundary.py, stated  *)
(* without temporary files, threads, deadlines or checks.                  *)
(***************************************************************************)
CONSTANTS Calls, NoFile

VARIABLES
  output,     \* the call whose content the file holds
  phase       \* of each call
vars == <<output, phase>>

Phases == {"new", "pending", "replaced", "succeeded", "failed", "lost"}

Init == output = NoFile /\ phase = [c \in Calls |-> "new"]

Move(c, from, to) == phase[c] \in from /\ phase' = [phase EXCEPT ![c] = to]

Begin(c) == Move(c, {"new"}, "pending") /\ UNCHANGED output
Replace(c) == Move(c, {"pending"}, "replaced") /\ output' = c
Succeed(c) == Move(c, {"replaced"}, "succeeded") /\ UNCHANGED output
Fail(c) == Move(c, {"new", "pending"}, "failed") /\ UNCHANGED output

\* the processes of the calls D die, or the calls are cancelled
Lose(D) ==
  /\ \A c \in D : phase[c] \in {"pending", "replaced"}
  /\ phase' = [c \in Calls |-> IF c \in D THEN "lost" ELSE phase[c]]
  /\ UNCHANGED output

Next ==
  \/ \E c \in Calls : Begin(c) \/ Replace(c) \/ Succeed(c) \/ Fail(c)
  \/ \E D \in SUBSET Calls : Lose(D)

Spec == Init /\ [][Next]_vars
===============================================================================
