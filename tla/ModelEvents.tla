----------------------------- MODULE ModelEvents -----------------------------
(***************************************************************************)
(* What a model adapter says to the runtime: the ModelEvents of            *)
(* domain/model.py and the helpers of adapters/model/_common.py.  A text   *)
(* is a sequence of characters, so that deltas are joined as the code      *)
(* joins them; a JSON text stands for the object it parses to.             *)
(***************************************************************************)
EXTENDS Naturals, Sequences, SequencesExt

CONSTANTS
  Chars,            \* the characters of texts
  Blank,            \* those that strip() removes
  CallIds,          \* provider_call_id values that ModelToolCall accepts
  Names,            \* Tool names that match TOOL_NAME_PATTERN
  Metadata,         \* identity and model of a response that ModelCompleted accepts
  ParseJson,        \* from the texts that are JSON objects to the objects
  MAX_TOKENS,
  MAX_MODEL_OUTPUT_CHARS,
  None

Text == Seq(Chars)
IsObject(o) == \E t \in DOMAIN ParseJson : ParseJson[t] = o

ASSUME ModelEventsAssumption ==
  /\ Blank \subseteq Chars
  /\ \A t \in DOMAIN ParseJson : t \in Text
  /\ MAX_TOKENS \in Nat /\ MAX_MODEL_OUTPUT_CHARS \in Nat
  /\ None \notin {"stop", "tool_calls"}

Finishes == {"stop", "tool_calls"}
Usages == [input : 0 .. MAX_TOKENS, output : 0 .. MAX_TOKENS]

ModelTextDelta(text) == [type |-> "text", text |-> text]
ModelToolCall(id, name, arguments) ==
  [type |-> "call", id |-> id, name |-> name, arguments |-> arguments]
ModelCompleted(finish, usage) == [type |-> "completed", finish |-> finish, usage |-> usage]

IsText(e) == e.type = "text"
IsCall(e) == e.type = "call"
IsCompleted(e) == e.type = "completed"

IsModelEvent(e) ==
  \/ IsText(e) /\ e.text \in Text /\ e.text # <<>>
  \/ IsCall(e) /\ e.id \in CallIds /\ e.name \in Names /\ IsObject(e.arguments)
  \/ IsCompleted(e) /\ e.finish \in Finishes /\ e.usage \in Usages \cup {None}

\* ModelUsage accepts the counts
UsageFits(input, output) == input <= MAX_TOKENS /\ output <= MAX_TOKENS

\* translate_json_tool_call: the pieces make a ModelToolCall
MakesCall(id, name, json) == id \in CallIds /\ name \in Names /\ json \in DOMAIN ParseJson
Call(id, name, json) == ModelToolCall(id, name, ParseJson[json])

-----------------------------------------------------------------------------
\* the positions P of a sequence of length n, in order
InOrder(P, n) == SelectSeq([i \in 1 .. n |-> i], LAMBDA i : i \in P)

\* what an event adds to the text of a stream, and to its calls
TextOfEvent(e) == IF IsText(e) THEN e.text ELSE <<>>
CallOfEvent(e) == IF IsCall(e) THEN <<e>> ELSE <<>>
JoinedText(events) == FlattenSeq([i \in 1 .. Len(events) |-> TextOfEvent(events[i])])
Calls(events) == FlattenSeq([i \in 1 .. Len(events) |-> CallOfEvent(events[i])])
Completions(events) == {i \in 1 .. Len(events) : IsCompleted(events[i])}

(***************************************************************************)
(* The contract of ports/model.py, as its consumers rely on it: text       *)
(* deltas and complete calls, then at most one completion and nothing      *)
(* after it; a stop carries no call and tool_calls carries one.            *)
(***************************************************************************)
Legal(events) ==
  \A i \in Completions(events) :
    /\ i = Len(events)
    /\ events[i].finish = "tool_calls" <=> Calls(events) # <<>>
===============================================================================
