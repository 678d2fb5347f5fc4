----------------------------- MODULE ModelAdapter -----------------------------
(***************************************************************************)
(* What the three adapters share: an asynchronous generator that reads     *)
(* wire events one at a time, yields ModelEvents and ends by returning or  *)
(* by raising a ModelProviderError (adapters/model/*.py).  The provider is *)
(* external: it sends any sequence of at most MaxWire wire events, ends    *)
(* the stream wherever it likes, or the transport fails.                   *)
(***************************************************************************)
EXTENDS ModelEvents

CONSTANTS
  WireEvents,       \* what the provider may send, of the adapter's protocol
  MaxWire           \* bound on the wire events of one stream

VARIABLES
  wire,             \* the wire events received
  out,              \* the ModelEvents yielded
  status,           \* "open", "ended", "cancelled" or the code of the error raised
  state             \* the local variables of stream()

vars == <<wire, out, status, state>>

\* what the classification of an SDK exception may come to
SdkCodes == {"TIMEOUT", "RATE_LIMITED", "AUTHENTICATION", "PERMISSION_DENIED",
             "INVALID_REQUEST", "UNAVAILABLE", "ERROR"}
ErrorCodes == SdkCodes \cup {"PROTOCOL", "REFUSED"}

Receives(w) ==
  /\ status = "open" /\ Len(wire) < MaxWire
  /\ wire' = Append(wire, w)

Yields(events) == out' = out \o events /\ status' = "open"
Raises(code) == status' = code /\ UNCHANGED state
Rejects == Raises("PROTOCOL") /\ UNCHANGED out

\* the iterator of the SDK is exhausted
EndOfStream ==
  /\ status = "open"
  /\ status' = IF Completions(out) # {} THEN "ended" ELSE "PROTOCOL"
  /\ UNCHANGED <<wire, out, state>>

\* the SDK raises: creating the client, connecting or reading; the exception
\* is classified by its type (_openai_errors.py, _anthropic_errors.py)
SdkFails ==
  /\ status = "open"
  /\ status' \in SdkCodes
  /\ UNCHANGED <<wire, out, state>>

Cancelled ==
  /\ status = "open"
  /\ status' = "cancelled"
  /\ UNCHANGED <<wire, out, state>>

Ends == EndOfStream \/ SdkFails \/ Cancelled

AdapterOK ==
  /\ \A i \in 1 .. Len(out) : IsModelEvent(out[i])
  /\ status \in {"open", "ended", "cancelled"} \cup ErrorCodes
===============================================================================
