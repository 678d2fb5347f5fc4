---------------------------- MODULE ResponsesStream ----------------------------
(***************************************************************************)
(* OpenAIResponsesProvider.stream (adapters/model/openai_responses.py):    *)
(* text deltas and finished output items as they come, then an Event with  *)
(* the whole response, whose function calls must be those that were        *)
(* streamed.  A wire event is a record with a type; "odd" marks a response *)
(* without identity, model or the status "completed".                      *)
(***************************************************************************)
EXTENDS ModelAdapter, FiniteSets

CONSTANT CanonicalSize     \* the length of canonical_json_mapping of each object

Init ==
  /\ wire = <<>> /\ out = <<>> /\ status = "open"
  /\ state = [chars |-> 0, calls |-> <<>>]     \* provider_tool_calls, by identity

WithinLimit(n) == state.chars + n <= MAX_MODEL_OUTPUT_CHARS
Ended == Completions(out) # {}

-----------------------------------------------------------------------------
TextDelta(w) ==
  /\ w.type = "text_delta" /\ Receives(w)
  /\ IF Ended \/ w.text = <<>> \/ ~ WithinLimit(Len(w.text)) THEN Rejects
     ELSE /\ Yields(<<ModelTextDelta(w.text)>>)
          /\ state' = [state EXCEPT !.chars = @ + Len(w.text)]

NewCall(item) == MakesCall(item.id, item.name, item.text) /\ item.id \notin DOMAIN state.calls

CallDone(w) ==
  /\ w.type = "item_done" /\ w.item.kind = "function_call" /\ Receives(w)
  /\ IF Ended \/ ~ NewCall(w.item) \/ ~ WithinLimit(CanonicalSize[ParseJson[w.item.text]])
     THEN Rejects
     ELSE LET call == Call(w.item.id, w.item.name, w.item.text) IN
          /\ Yields(<<call>>)
          /\ state' = [state EXCEPT !.calls = [i \in DOMAIN @ \cup {call.id} |-> IF i = call.id THEN call ELSE @[i]],
                                    !.chars = @ + CanonicalSize[call.arguments]]

\* messages and reasoning have come as deltas, or are not shown
ItemDone(w) ==
  /\ w.type = "item_done" /\ w.item.kind # "function_call" /\ Receives(w)
  /\ IF Ended \/ w.item.kind \notin {"message", "refused_message", "reasoning"} THEN Rejects
     ELSE Yields(<<>>) /\ UNCHANGED state

CallItems(items) == {i \in DOMAIN items : items[i].kind = "function_call"}

\* _validate_completion_tool_calls
CallsConfirmed(items) ==
  LET calls == CallItems(items)
      ids == {items[i].id : i \in calls}
  IN  /\ Cardinality(ids) = Cardinality(calls) /\ ids = DOMAIN state.calls
      /\ \A i \in calls :
           LET streamed == state.calls[items[i].id] IN
           /\ items[i].name = streamed.name
           /\ items[i].text \in DOMAIN ParseJson /\ ParseJson[items[i].text] = streamed.arguments

\* the finish reason is not on the wire
FinishOf(items) == IF CallItems(items) # {} THEN "tool_calls" ELSE "stop"

\* the first item that a completed response may not hold decides the error
Unwanted(items) ==
  {i \in DOMAIN items : items[i].kind \notin {"message", "reasoning", "function_call"}}
Refused(items) ==
  \E i \in Unwanted(items) :
    items[i].kind = "refused_message" /\ \A j \in Unwanted(items) : i <= j

Completed(w) ==
  /\ w.type = "completed" /\ Receives(w)
  /\ LET r == w.response IN
     IF Ended \/ ~ CallsConfirmed(r.items) \/ r.odd THEN Rejects
     ELSE IF Refused(r.items) THEN Raises("REFUSED") /\ UNCHANGED out
     ELSE IF Unwanted(r.items) # {} \/ r.usage = None THEN Rejects
     ELSE IF ~ UsageFits(r.usage.input, r.usage.output) \/ r.meta \notin Metadata THEN Rejects
     ELSE /\ Yields(<<ModelCompleted(FinishOf(r.items), r.usage)>>)
          /\ UNCHANGED state

\* _classify_provider_failure_code
Classified(code) ==
  CASE code \in {"server_error", "rate_limit_exceeded", "vector_store_timeout"} -> "UNAVAILABLE"
    [] code \in {"content_filter", "bio_policy", "image_content_policy_violation"} -> "REFUSED"
    [] code \in {"invalid_prompt", "invalid_image"} -> "INVALID_REQUEST"
    [] OTHER -> "ERROR"

\* incomplete and failed responses, error events and refusals
Failed(w) ==
  /\ w.type \in {"failed", "refusal_done"} /\ Receives(w)
  /\ IF Ended THEN Rejects
     ELSE /\ Raises(IF w.type = "refusal_done" THEN "REFUSED" ELSE Classified(w.code))
          /\ UNCHANGED out

Ignored(w) ==
  /\ w.type = "ignored" /\ Receives(w)
  /\ IF Ended THEN Rejects ELSE Yields(<<>>) /\ UNCHANGED state

OtherEvent(w) == w.type = "other" /\ Receives(w) /\ Rejects

Next ==
  \/ \E w \in WireEvents :
       \/ TextDelta(w) \/ CallDone(w) \/ ItemDone(w) \/ Completed(w)
       \/ Failed(w) \/ Ignored(w) \/ OtherEvent(w)
  \/ Ends
Spec == Init /\ [][Next]_vars

-----------------------------------------------------------------------------
(* The protocol and the message, read off the whole wire history *)

IsDone(w) == w.type = "item_done" /\ w.item.kind = "function_call"
DoneCalls == SelectSeq(wire, IsDone)
Agree(item, done) ==
  /\ item.kind = "function_call" /\ item.id = done.id /\ item.name = done.name
  /\ ParseJson[done.text] = IF item.text \in DOMAIN ParseJson THEN ParseJson[item.text] ELSE None
ResponseFits(r) ==
  /\ ~ r.odd /\ Unwanted(r.items) = {} /\ r.usage # None
  /\ UsageFits(r.usage.input, r.usage.output) /\ r.meta \in Metadata
  /\ Cardinality(CallItems(r.items)) = Len(DoneCalls)
  /\ \A i \in DOMAIN DoneCalls : \E j \in DOMAIN r.items : Agree(r.items[j], DoneCalls[i].item)
EventFits(p) ==
  LET w == wire[p] IN
  CASE w.type = "text_delta" -> w.text # <<>>
    [] IsDone(w) -> MakesCall(w.item.id, w.item.name, w.item.text)
    [] w.type = "item_done" /\ ~ IsDone(w) -> w.item.kind # "other"
    [] w.type = "completed" -> p = Len(wire) /\ ResponseFits(w.response)
    [] OTHER -> w.type = "ignored"
Size(w) == IF w.type = "text_delta" THEN Len(w.text)
           ELSE IF IsDone(w) THEN CanonicalSize[ParseJson[w.item.text]] ELSE 0
(***************************************************************************)
(* The histories that follow the protocol; in particular a response is     *)
(* complete only when its calls are, whatever their order and spelling,    *)
(* the calls that were yielded.                                            *)
(***************************************************************************)
FollowsProtocol ==
  /\ \A p \in 1 .. Len(wire) : EventFits(p)
  /\ \A i, j \in DOMAIN DoneCalls : DoneCalls[i].item.id = DoneCalls[j].item.id => i = j
  /\ FoldLeft(LAMBDA n, w : n + Size(w), 0, wire) <= MAX_MODEL_OUTPUT_CHARS

(* the counters keep their types; what is yielded is a ModelEvent *)
TypeOK ==
  /\ AdapterOK /\ wire \in Seq(WireEvents)
  /\ state.chars \in 0 .. MAX_MODEL_OUTPUT_CHARS
  /\ DOMAIN state.calls \subseteq CallIds

(***************************************************************************)
(* What was yielded is what the wire said, in its order, and the finish    *)
(* reason that the response did not state is the one its calls imply.      *)
(***************************************************************************)
YieldsTheMessage ==
  status \in {"open", "ended"} =>
    LET said == SelectSeq(wire, LAMBDA w : w.type \in {"text_delta", "completed"} \/ IsDone(w))
        Said(w) == CASE w.type = "text_delta" -> ModelTextDelta(w.text)
                     [] w.type = "completed" ->
                          ModelCompleted(IF DoneCalls = <<>> THEN "stop" ELSE "tool_calls", w.response.usage)
                     [] OTHER -> Call(w.item.id, w.item.name, w.item.text)
    IN  out = [i \in DOMAIN said |-> Said(said[i])]
===============================================================================
