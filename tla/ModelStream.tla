----------------------------- MODULE ModelStream -----------------------------
(***************************************************************************)
(* ModelStreamCollector (runtime/model_stream.py): one assistant message   *)
(* out of the ModelEvents of a port.  The port is not trusted: a lawful    *)
(* one keeps the contract Legal of ModelEvents, another may send anything, *)
(* and both may raise, hang until the call is given up, or end early.  A   *)
(* call names its tool_call_id as well, which an adapter takes fresh.      *)
(***************************************************************************)
EXTENDS ModelEvents, FiniteSets

CONSTANTS
  Events,             \* what the port may yield; "unsupported" is no ModelEvent
  MaxEvents,          \* bound on the Events of one stream
  LargeArguments,     \* the objects whose JSON exceeds MAX_TOOL_ARGUMENT_BYTES
  MAX_TEXT_CHARS,
  MAX_MESSAGE_PARTS

VARIABLES
  lawful,             \* the port keeps its contract
  consumed,           \* the Events the port has yielded
  collected,          \* the local variables of collect()
  discarded,          \* discarded_output_chars
  outcome             \* "collecting", "response" or why collect() raised
vars == <<lawful, consumed, collected, discarded, outcome>>

Init ==
  /\ lawful \in BOOLEAN
  /\ consumed = <<>> /\ discarded = 0 /\ outcome = "collecting"
  /\ collected = [fragments |-> <<>>, calls |-> <<>>, completion |-> None]

Take(e) ==
  /\ outcome = "collecting" /\ Len(consumed) < MaxEvents
  /\ consumed' = Append(consumed, e)
  /\ lawful => e.type # "unsupported" /\ Legal(consumed')
  /\ UNCHANGED lawful

Refuse(why) == outcome' = why /\ UNCHANGED collected
Keep(new) == collected' = new /\ UNCHANGED outcome

-----------------------------------------------------------------------------
\* mutant: the text part is not counted among the parts
Parts_Calls(c) == Len(c.calls)
Parts(c) == Len(c.calls) + (IF c.fragments = <<>> THEN 0 ELSE 1)

CountText(e) == discarded' = discarded + Len(e.text)

TakeText(e) ==
  /\ IsText(e) /\ Take(e)
  /\ IF collected.completion # None THEN Refuse("after_completion") /\ UNCHANGED discarded
     ELSE /\ CountText(e)
          /\ IF discarded' > MAX_TEXT_CHARS THEN Refuse("too_long")
             ELSE IF collected.fragments = <<>> /\ Len(collected.calls) >= MAX_MESSAGE_PARTS
             THEN Refuse("too_many_parts")
             ELSE Keep([collected EXCEPT !.fragments = Append(@, e.text)])

Repeats(e) == \E i \in DOMAIN collected.calls : collected.calls[i].id = e.id

TakeCall(e) ==
  /\ IsCall(e) /\ Take(e) /\ UNCHANGED discarded
  /\ IF collected.completion # None THEN Refuse("after_completion")
     ELSE IF Parts(collected) >= MAX_MESSAGE_PARTS THEN Refuse("too_many_parts")
     ELSE IF Repeats(e) THEN Refuse("repeated_call")
     ELSE Keep([collected EXCEPT !.calls = Append(@, e)])

TakeCompletion(e) ==
  /\ IsCompleted(e) /\ Take(e) /\ UNCHANGED discarded
  /\ IF collected.completion # None THEN Refuse("after_completion")
     ELSE Keep([collected EXCEPT !.completion = e])

TakeUnsupported(e) ==
  /\ e.type = "unsupported" /\ Take(e) /\ UNCHANGED discarded
  /\ Refuse(IF collected.completion # None THEN "after_completion" ELSE "unsupported")

JoinedFragments == FlattenSeq(collected.fragments)
IsBlank(text) == \A i \in DOMAIN text : text[i] \in Blank

BadStop(text, calls) ==
  collected.completion.finish = "stop" /\ (IsBlank(text) \/ calls # <<>>)

\* what TextPart, ToolRequest and Message refuse, one after the other: a
\* ModelToolCall bounds neither the bytes of its arguments nor the identities
MessageFits(text, calls) ==
  /\ text # <<>> => ~ IsBlank(text)
  /\ \A i \in DOMAIN calls : calls[i].arguments \notin LargeArguments
  /\ \A i, j \in DOMAIN calls : calls[i].tool = calls[j].tool => i = j

\* the iterator of the port is exhausted
Assemble ==
  /\ outcome = "collecting"
  /\ UNCHANGED <<lawful, consumed, collected, discarded>>
  /\ LET calls == collected.calls
         text == JoinedFragments
     IN  outcome' =
           IF collected.completion = None THEN "no_completion"
           ELSE IF BadStop(text, calls) THEN "bad_stop"
           ELSE IF collected.completion.finish = "tool_calls" /\ calls = <<>> THEN "no_calls"
           ELSE IF ~ MessageFits(text, calls) THEN "invalid_message"
           ELSE "response"
  /\ lawful => collected.completion # None

\* the port raises, or the timeout or a cancellation ends the wait
PortFails ==
  /\ outcome = "collecting" /\ outcome' = "port_failed"
  /\ UNCHANGED <<lawful, consumed, collected, discarded>>

Next ==
  \/ \E e \in Events : TakeText(e) \/ TakeCall(e) \/ TakeCompletion(e) \/ TakeUnsupported(e)
  \/ Assemble \/ PortFails
Spec == Init /\ [][Next]_vars

-----------------------------------------------------------------------------
\* the parts of the message that is returned
Message ==
  (IF JoinedFragments = <<>> THEN <<>> ELSE <<ModelTextDelta(JoinedFragments)>>) \o collected.calls

\* a stream that makes a bounded assistant message
MakesMessage(events) ==
  LET text == JoinedText(events)
      calls == Calls(events)
      ids == {calls[i].id : i \in DOMAIN calls}
      tools == {calls[i].tool : i \in DOMAIN calls}
  IN  /\ \A i \in DOMAIN events : IsModelEvent(events[i])
      /\ Legal(events) /\ Completions(events) # {}
      /\ Cardinality(ids) = Len(calls) /\ Cardinality(tools) = Len(calls)
      /\ \A i \in DOMAIN calls : calls[i].arguments \notin LargeArguments
      /\ Len(text) <= MAX_TEXT_CHARS
      /\ Len(calls) + (IF text = <<>> THEN 0 ELSE 1) <= MAX_MESSAGE_PARTS
      /\ text # <<>> => ~ IsBlank(text)
      /\ calls = <<>> => text # <<>>

Refusals == {"after_completion", "too_long", "too_many_parts", "repeated_call", "unsupported",
             "no_completion", "bad_stop", "no_calls", "invalid_message"}

(* the collector's variables keep their types *)
TypeOK ==
  /\ lawful \in BOOLEAN /\ consumed \in Seq(Events) /\ discarded \in Nat
  /\ outcome \in Refusals \cup {"collecting", "response", "port_failed"}
  /\ collected.completion # None => IsCompleted(collected.completion)
  /\ Parts(collected) <= MAX_MESSAGE_PARTS

(***************************************************************************)
(* A response is returned exactly for the streams that make a message, and *)
(* it holds all they said: the text in one part, then the calls in order.  *)
(***************************************************************************)
CollectsTheMessage ==
  /\ outcome = "response" =>
       /\ MakesMessage(consumed)
       /\ Message = (IF JoinedText(consumed) = <<>> THEN <<>> ELSE <<ModelTextDelta(JoinedText(consumed))>>)
                    \o Calls(consumed)
       /\ collected.completion = consumed[Len(consumed)]
  /\ outcome \in Refusals => ~ MakesMessage(consumed)

(***************************************************************************)
(* discarded_output_chars, which a failed call records in its Event, is    *)
(* the text that was received before the failure, the fragment that broke  *)
(* the limit included.                                                     *)
(***************************************************************************)
DiscardedIsReceived ==
  outcome # "after_completion" => discarded = Len(JoinedText(consumed))

(***************************************************************************)
(* A port that keeps its contract is refused only for what the contract    *)
(* does not promise: the bounds of a message and of the arguments of a     *)
(* call, an identity that is repeated, and text of nothing but blanks.     *)
(***************************************************************************)
LawfulPortsUnderstood ==
  lawful => outcome \notin {"after_completion", "unsupported", "no_completion", "no_calls"}
            /\ (outcome = "bad_stop" => IsBlank(JoinedText(consumed)))
===============================================================================
