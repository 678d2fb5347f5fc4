---------------------------- MODULE AnthropicStream ----------------------------
(***************************************************************************)
(* AnthropicMessagesProvider.stream (adapters/model/anthropic_messages.py) *)
(* over the events of the Messages protocol: message_start, content blocks *)
(* that start, receive deltas and stop one after the other, message_delta  *)
(* with the stop reason and the usage, message_stop.  A wire event is a    *)
(* record with a type; "odd" marks one whose further fields make the code  *)
(* refuse it as unsupported (citations, hosted Tools, server state, an     *)
(* invalid role or missing metadata).                                      *)
(***************************************************************************)
EXTENDS ModelAdapter, FiniteSets

CONSTANTS
  MaxBlockIndex,    \* the highest index the code accepts
  EmptyObject       \* the object {}, which Python takes for false

Init ==
  /\ wire = <<>> /\ out = <<>> /\ status = "open"
  /\ state = [started |-> FALSE, delta |-> FALSE, meta |-> None, input |-> None,
              completion |-> None, chars |-> 0, blocks |-> <<>>, calls |-> 0]

\* blocks[i + 1] is the block of index i: the indexes a stream uses are 0, 1, 2, ...
NewBlock(w) ==
  [kind |-> w.kind, id |-> w.id, name |-> w.name, initial |-> w.initial,
   fragments |-> <<>>, stopped |-> FALSE]

InBody == state.started /\ ~ state.delta                    \* _require_message_body

AllStopped_Ignored == TRUE       \* mutant: blocks may overlap
AllStopped == \A i \in DOMAIN state.blocks : state.blocks[i].stopped

\* _active_block: the block an event is about still runs
Active(w) ==
  w.index + 1 \in DOMAIN state.blocks /\ ~ state.blocks[w.index + 1].stopped

WithinLimit(n) == state.chars + n <= MAX_MODEL_OUTPUT_CHARS  \* _require_output_limit

-----------------------------------------------------------------------------
MessageStart(w) ==
  /\ w.type = "message_start" /\ Receives(w)
  /\ IF state.started \/ w.odd THEN Rejects
     ELSE /\ Yields(<<>>)
          /\ state' = [state EXCEPT !.started = TRUE, !.meta = w.meta, !.input = w.input]

StartText(w) == IF w.text = <<>> THEN <<>> ELSE <<ModelTextDelta(w.text)>>

BlockStart(w) ==
  /\ w.type = "block_start" /\ Receives(w)
  /\ IF \/ ~ InBody \/ ~ AllStopped \/ w.kind = "other" \/ w.odd
        \/ w.index > MaxBlockIndex \/ w.index # Len(state.blocks)
        \/ ~ WithinLimit(Len(w.text))
     THEN Rejects
     ELSE /\ Yields(StartText(w))
          /\ state' = [state EXCEPT !.blocks = Append(@, NewBlock(w)), !.chars = @ + Len(w.text)]

TextDelta(w) ==
  /\ w.type = "text_delta" /\ Receives(w)
  /\ IF \/ ~ InBody \/ ~ Active(w) \/ w.text = <<>> \/ ~ WithinLimit(Len(w.text))
        \/ state.blocks[w.index + 1].kind # "text"
     THEN Rejects
     ELSE /\ Yields(<<ModelTextDelta(w.text)>>)
          /\ state' = [state EXCEPT !.chars = @ + Len(w.text)]

\* an input given with the start of the block is complete and may not go on
JsonDelta(w) ==
  /\ w.type = "json_delta" /\ Receives(w)
  /\ IF \/ ~ InBody \/ ~ Active(w) \/ ~ WithinLimit(Len(w.text))
        \/ state.blocks[w.index + 1].kind # "tool"
        \/ state.blocks[w.index + 1].initial # EmptyObject
     THEN Rejects
     ELSE /\ Yields(<<>>)
          /\ state' = [state EXCEPT !.blocks[w.index + 1].fragments = Append(@, w.text),
                                    !.chars = @ + Len(w.text)]

Fragments(b) == FlattenSeq(b.fragments)

\* the call of a tool block that stops, and whether it is one
BlockCall(b) ==
  IF b.fragments = <<>> THEN ModelToolCall(b.id, b.name, b.initial)
  ELSE Call(b.id, b.name, Fragments(b))
BlockMakesCall(b) ==
  IF b.fragments = <<>> THEN b.id \in CallIds /\ b.name \in Names /\ IsObject(b.initial)
  ELSE MakesCall(b.id, b.name, Fragments(b))

BlockStop(w) ==
  /\ w.type = "block_stop" /\ Receives(w)
  /\ IF ~ InBody \/ ~ Active(w) THEN Rejects
     ELSE LET block == state.blocks[w.index + 1]
              stopped == [state EXCEPT !.blocks[w.index + 1].stopped = TRUE]
          IN  IF block.kind = "text" THEN Yields(<<>>) /\ state' = stopped
              ELSE IF ~ BlockMakesCall(block) THEN Rejects
              ELSE Yields(<<BlockCall(block)>>) /\ state' = [stopped EXCEPT !.calls = @ + 1]

\* _translate_finish_reason
Finish(reason) ==
  CASE reason \in {"end_turn", "stop_sequence"} -> "stop"
    [] reason = "tool_use" -> "tool_calls"
    [] OTHER -> None
FinishError(reason) ==
  CASE reason = "refusal" -> "REFUSED"
    [] reason \in {"max_tokens", "model_context_window_exceeded", "pause_turn"} -> "ERROR"
    [] OTHER -> "PROTOCOL"

\* mutant: the stop reason is not held against the calls
CallsMatch_Unchecked(finish) == TRUE
CallsMatch(finish) == (finish = "tool_calls") <=> (state.calls > 0)

MessageDelta(w) ==
  /\ w.type = "message_delta" /\ Receives(w)
  /\ IF ~ InBody \/ ~ AllStopped \/ w.odd \/ w.input \notin {None, state.input} THEN Rejects
     ELSE IF Finish(w.reason) = None THEN Raises(FinishError(w.reason)) /\ UNCHANGED out
     ELSE IF \/ ~ CallsMatch(Finish(w.reason))
             \/ ~ UsageFits(state.input, w.output) \/ state.meta \notin Metadata
     THEN Rejects
     ELSE /\ Yields(<<>>)
          /\ state' = [state EXCEPT !.delta = TRUE, !.completion =
               ModelCompleted(Finish(w.reason), [input |-> state.input, output |-> w.output])]

MessageStop(w) ==
  /\ w.type = "message_stop" /\ Receives(w)
  /\ IF Completions(out) # {} \/ ~ state.delta THEN Rejects
     ELSE Yields(<<state.completion>>) /\ UNCHANGED state

\* an unsupported content delta or message event
OtherEvent(w) == w.type = "other" /\ Receives(w) /\ Rejects

Next ==
  \/ \E w \in WireEvents :
       \/ MessageStart(w) \/ BlockStart(w) \/ TextDelta(w) \/ JsonDelta(w)
       \/ BlockStop(w) \/ MessageDelta(w) \/ MessageStop(w) \/ OtherEvent(w)
  \/ Ends
Spec == Init /\ [][Next]_vars

-----------------------------------------------------------------------------
(* The Messages protocol, read off the whole wire history *)

Positions(type) == {p \in 1 .. Len(wire) : wire[p].type = type}
Before(type, p) == {q \in Positions(type) : q < p}
\* the block start that is the last before p, if any
StartOf(p) == CHOOSE s \in Before("block_start", p) : \A q \in Before("block_start", p) : q <= s
Deltas(s, type) == {p \in Positions(type) : p > s /\ StartOf(p) = s}
Joined(positions) ==
  LET sorted == InOrder(positions, Len(wire))
  IN  FlattenSeq([i \in 1 .. Len(sorted) |-> wire[sorted[i]].text])
IsTool(s) == wire[s].kind = "tool"
StoppedTools == {s \in Positions("block_start") : IsTool(s) /\ Deltas(s, "block_stop") # {}}
ArgumentsOf(s) ==
  IF Deltas(s, "json_delta") = {} THEN wire[s].initial
  ELSE ParseJson[Joined(Deltas(s, "json_delta"))]
CallAt(s) == ModelToolCall(wire[s].id, wire[s].name, ArgumentsOf(s))
ParsesAt(s) ==
  /\ wire[s].id \in CallIds /\ wire[s].name \in Names
  /\ IF Deltas(s, "json_delta") = {} THEN IsObject(wire[s].initial)
     ELSE Joined(Deltas(s, "json_delta")) \in DOMAIN ParseJson

\* where one event may stand
InBlock(p, kind) ==
  /\ Before("block_start", p) # {} /\ wire[p].index = wire[StartOf(p)].index
  /\ wire[StartOf(p)].kind \in kind
  /\ \A q \in Deltas(StartOf(p), "block_stop") : q >= p
  /\ Before("message_delta", p) = {}
AllClosed(p) == \A s \in Before("block_start", p) : \E q \in Deltas(s, "block_stop") : q < p
StandsWell(p) ==
  LET w == wire[p] IN
  CASE w.type = "message_start" -> p = 1 /\ ~ w.odd
    [] w.type = "block_start" ->
         /\ p > 1 /\ Before("message_delta", p) = {} /\ AllClosed(p)
         /\ w.index = Cardinality(Before("block_start", p)) /\ w.index <= MaxBlockIndex
         /\ ~ w.odd /\ w.kind \in {"text", "tool"}
    [] w.type = "text_delta" -> InBlock(p, {"text"}) /\ w.text # <<>>
    [] w.type = "json_delta" -> InBlock(p, {"tool"}) /\ wire[StartOf(p)].initial = EmptyObject
    [] w.type = "block_stop" ->
         InBlock(p, {"text", "tool"}) /\ (IsTool(StartOf(p)) => ParsesAt(StartOf(p)))
    [] w.type = "message_delta" ->
         /\ p > 1 /\ Before("message_delta", p) = {} /\ AllClosed(p) /\ ~ w.odd
         /\ w.input \in {None, wire[1].input}
         /\ Finish(w.reason) # None /\ UsageFits(wire[1].input, w.output)
         /\ wire[1].meta \in Metadata
         /\ (Finish(w.reason) = "tool_calls") <=> (StoppedTools # {})
    [] w.type = "message_stop" -> p > 1 /\ wire[p - 1].type = "message_delta"
    [] OTHER -> FALSE
CharsOnWire == Len(Joined({p \in 1 .. Len(wire) :
  wire[p].type \in {"block_start", "text_delta", "json_delta"}}))
(***************************************************************************)
(* The histories that follow the protocol.  stream() keeps flags and       *)
(* buffers only, the definition looks at the whole history: no block       *)
(* overlaps, no delta is for a stopped block, no usage changes and every   *)
(* call parses.                                                            *)
(***************************************************************************)
FollowsProtocol ==
  /\ wire # <<>> => wire[1].type = "message_start"
  /\ \A p \in 1 .. Len(wire) : StandsWell(p)
  /\ Before("message_stop", Len(wire)) = {}
  /\ CharsOnWire <= MAX_MODEL_OUTPUT_CHARS

(* mutable pieces keep their types; what is yielded is a ModelEvent *)
TypeOK ==
  /\ AdapterOK /\ wire \in Seq(WireEvents)
  /\ state.started \in BOOLEAN /\ state.delta \in BOOLEAN
  /\ state.chars \in 0 .. MAX_MODEL_OUTPUT_CHARS
  /\ state.calls = Len(Calls(out))

(***************************************************************************)
(* What was yielded is the message on the wire: all text in order, one     *)
(* call for each tool block that stopped, made of the fragments of that    *)
(* block, and the stop reason and usage of this message.                   *)
(***************************************************************************)
YieldsTheMessage ==
  status \in {"open", "ended"} =>
    LET tools == InOrder(StoppedTools, Len(wire))
        text == {p \in Positions("block_start") \cup Positions("text_delta") :
                   wire[p].type = "block_start" => ~ IsTool(p)}
    IN  /\ JoinedText(out) = Joined(text)
        /\ Calls(out) = [i \in 1 .. Len(tools) |-> CallAt(tools[i])]
        /\ (Completions(out) # {}) <=> (Positions("message_stop") # {})
        /\ \A c \in Completions(out), p \in Positions("message_delta") :
             out[c] = ModelCompleted(Finish(wire[p].reason),
                        [input |-> wire[1].input, output |-> wire[p].output])
===============================================================================
