------------------------------ MODULE ModelPort ------------------------------
(***************************************************************************)
(* ModelProvider.stream as the runtime sees it, whatever the provider and  *)
(* its wire protocol are: Events are yielded and never taken back, what    *)
(* was yielded is legal at every moment, and the iterator ends without an  *)
(* exception only when it has yielded a completion.  A completion is not   *)
(* the end: the stream may still fail after it.                            *)
(***************************************************************************)
EXTENDS ModelEvents

VARIABLES
  out,        \* the ModelEvents yielded so far
  status      \* "open", "ended", "cancelled" or the error that was raised

vars == <<out, status>>

Init == out = <<>> /\ status = "open"

Yield == status = "open" /\ status' = "open" /\ IsPrefix(out, out') /\ Legal(out')
End == status = "open" /\ Completions(out) # {} /\ status' = "ended" /\ out' = out
\* what a wire event yielded before it was found wrong has been consumed
Fail == status = "open" /\ status' \notin {"open", "ended"} /\ IsPrefix(out, out') /\ Legal(out')

Next == Yield \/ End \/ Fail
Spec == Init /\ [][Next]_vars
===============================================================================
