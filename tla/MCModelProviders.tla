--------------------------- MODULE MCModelProviders ---------------------------
(***************************************************************************)
(* The three adapters and the collector side by side.  A behaviour is that *)
(* of one of them (part, chosen in Init); the adapters share the variables *)
(* of ModelAdapter and the contract of the port.  Each has wire events and *)
(* limits of its own, small enough that every limit is met.                *)
(***************************************************************************)
EXTENDS ModelEvents, FiniteSets

CONSTANTS
  ChatEvents, ChatJson, ChatChars, ChatWire, ChatTools, MaxCallIndex,    \* Chat Completions
  Conforming, Normalized, Hashed, MaxAttempt,                           \* its wire names
  ResponseEvents, ResponseJson, ResponseChars, ResponseWire, CanonicalSize,      \* Responses
  MessageEvents, MessageJson, MessageChars, MessageWire, MaxBlockIndex, EmptyObject,  \* Messages
  PortEvents, MaxEvents, LargeArguments, MAX_TEXT_CHARS, MAX_MESSAGE_PARTS       \* the collector

\* A port yields ModelEvents, which Pydantic has validated, or what is none.
ASSUME PortAssumption ==
  /\ \A e \in PortEvents : IsModelEvent(e) \/ e.type = "unsupported"
  /\ None \notin PortEvents
  /\ {MaxEvents, MAX_TEXT_CHARS, MAX_MESSAGE_PARTS} \subseteq Nat

VARIABLES part, wire, out, status, state, tools,            \* the adapters
          lawful, consumed, collected, discarded, outcome   \* the collector
collector == <<lawful, consumed, collected, discarded, outcome>>
vars == <<part, wire, out, status, state, tools, collector>>

-----------------------------------------------------------------------------
(* Chat Completions *)

\* "a_b" conforms; "a.b" and "a-.b" are not told apart by re.sub alone
MCNormalized == ("a.b" :> "a_b") @@ ("c.d" :> "c_d") @@ ("c+d" :> "c_d") @@ ("long." :> "too_long")
MCHashed ==
  [n \in {"a.b", "c.d", "c+d", "long."} |->
     [a \in 0 .. 2 |-> CASE a = 0 -> "h0" [] n = "c+d" -> "h1" \o ToString(a) [] OTHER -> n \o ToString(a)]]

Choice(content, calls, finish) ==
  [unsupported |-> None, refusal |-> FALSE, content |-> content, calls |-> calls, finish |-> finish]
Delta(i, id, name, text) == [index |-> i, id |-> id, name |-> name, text |-> text, odd |-> FALSE]
Chunk(usage, choice) == [meta |-> "m", odd |-> FALSE, usage |-> usage, choice |-> choice]

First == Delta(0, "c1", "a_b", <<"x">>)
Second == Delta(1, "c2", "h0", <<"x", "x">>)
AUsage == [input |-> 1, output |-> 2]
MCChatEvents ==
  {Chunk(u, None) : u \in {None, AUsage}}
  \cup {Chunk(AUsage, Choice(<<>>, <<>>, f)) : f \in {"stop", "tool_calls", None}}
  \cup {Chunk(None, Choice(<<>>, calls, None)) :
          calls \in {<<First>>, <<Second, First>>, <<Delta(2, "c1", "a_b", <<"x", "y">>)>>,
                     <<Delta(1, None, None, <<"y">>), Delta(0, None, None, <<"y">>)>>,
                     <<Delta(0, "c3", None, <<>>)>>, <<Delta(0, None, "h0", <<>>)>>,
                     <<[First EXCEPT !.odd = TRUE]>>}}
  \cup {Chunk(None, Choice(<<"x">>, <<>>, f)) : f \in {None, "stop", "length"}}
  \cup {Chunk(None, Choice(<<"x">>, <<Delta(0, None, None, <<"y">>)>>, f)) : f \in {None, "tool_calls"}}
  \cup {Chunk([AUsage EXCEPT !.output = 9], None), [Chunk(AUsage, None) EXCEPT !.meta = "n"],
        [Chunk(None, Choice(<<>>, <<>>, "stop")) EXCEPT !.odd = TRUE],
        [Chunk(None, Choice(<<>>, <<>>, None)) EXCEPT !.choice.refusal = TRUE],
        [Chunk(None, Choice(<<>>, <<>>, None)) EXCEPT !.choice.unsupported = "role"]}
  \cup {[c EXCEPT !.meta = "blank"] :
          c \in {Chunk(AUsage, None), Chunk(None, Choice(<<"x">>, <<>>, "stop")),
                Chunk(AUsage, Choice(<<"x">>, <<Delta(0, "c1", "a_b", <<"x", "y">>)>>, "tool_calls"))}}

MCChatJson == (<<"x", "y">> :> "obj") @@ (<<"x", "x", "y">> :> "other")
MCChatTools == {<<"a.b">>, <<"a_b", "a.b">>}

Chat == INSTANCE ChatCompletions WITH
  ParseJson <- ChatJson, MAX_MODEL_OUTPUT_CHARS <- ChatChars, WireEvents <- ChatEvents,
  MaxWire <- ChatWire, ToolLists <- ChatTools

\* every list of different names, up to all of them
ToolLists ==
  {l \in SeqOf(Conforming \cup DOMAIN Normalized, 5) : \A i, j \in DOMAIN l : i # j => l[i] # l[j]}

-----------------------------------------------------------------------------
(* Responses *)

Item(kind, id, text) == [kind |-> kind, id |-> id, name |-> "read", text |-> text]
F(id, text) == Item("function_call", id, text)
Plain(kind) == Item(kind, "none", <<>>)
Response(items) ==
  [type |-> "completed", response |->
     [meta |-> "m", odd |-> FALSE, items |-> items, usage |-> [input |-> 1, output |-> 1]]]

MCResponseEvents ==
  {[type |-> "text_delta", text |-> t] : t \in {<<>>, <<"x">>, <<"x", "y">>}}
  \cup {[type |-> "item_done", item |-> i] :
          i \in {F("c1", <<"x", "y">>), F("c1", <<"x">>), F("c2", <<"y", "x">>), F("c2", <<"y">>),
                 F("blank", <<"x">>), Plain("message"), Plain("other")}}
  \cup {Response(items) :
          items \in {<<>>, <<Plain("message")>>, <<Plain("refused_message"), Plain("other")>>,
                     <<Plain("other"), Plain("refused_message")>>,
                     <<F("c1", <<"y", "x">>)>>, <<F("c1", <<"y">>)>>, <<F("c1", <<"x">>), F("c1", <<"x">>)>>,
                     <<[F("c1", <<"x">>) EXCEPT !.name = "write"]>>,
                     <<F("c2", <<"x", "y">>), Plain("reasoning"), F("c1", <<"x">>)>>}}
  \cup {[Response(<<>>) EXCEPT !.response.odd = TRUE], [Response(<<>>) EXCEPT !.response.usage = None],
        [Response(<<>>) EXCEPT !.response.usage.output = 9], [Response(<<>>) EXCEPT !.response.meta = "blank"]}
  \cup {[type |-> "failed", code |-> c] : c \in {"server_error", "bio_policy", "invalid_prompt", None}}
  \cup {[type |-> t] : t \in {"refusal_done", "ignored", "other"}}

\* "xy" and "yx" are two spellings of one object
MCResponseJson == (<<"x", "y">> :> "obj") @@ (<<"y", "x">> :> "obj") @@ (<<"x">> :> "other")
MCCanonicalSize == ("obj" :> 2) @@ ("other" :> 1)

Responses == INSTANCE ResponsesStream WITH
  ParseJson <- ResponseJson, MAX_MODEL_OUTPUT_CHARS <- ResponseChars,
  WireEvents <- ResponseEvents, MaxWire <- ResponseWire

-----------------------------------------------------------------------------
(* Messages *)

Block(kind, index, text, id, initial) ==
  [type |-> "block_start", kind |-> kind, index |-> index, text |-> text,
   id |-> id, name |-> "read", initial |-> initial, odd |-> FALSE]
TextOf(index, text) == [type |-> "text_delta", index |-> index, text |-> text]
Json(index, text) == [type |-> "json_delta", index |-> index, text |-> text]
Done(reason, input) ==
  [type |-> "message_delta", reason |-> reason, input |-> input, output |-> 1, odd |-> FALSE]

MCMessageEvents ==
  {[type |-> "message_start", meta |-> "m", input |-> 1, odd |-> odd] : odd \in BOOLEAN}
  \cup {[type |-> "message_start", meta |-> "blank", input |-> 1, odd |-> FALSE]}
  \cup {Block("text", 0, <<>>, "none", EmptyObject), Block("text", 1, <<"x">>, "none", EmptyObject)}
  \cup {Block("tool", i, <<>>, id, EmptyObject) : i \in 0 .. 1, id \in {"c1"}}
  \cup {Block("tool", 1, <<>>, "c2", "other"), Block("tool", 0, <<>>, "blank", EmptyObject)}
  \cup {[Block("text", 2, <<>>, "none", EmptyObject) EXCEPT !.odd = TRUE]}
  \cup {TextOf(i, <<"x", "y">>) : i \in 0 .. 1} \cup {TextOf(0, <<>>)}
  \cup {Json(i, t) : i \in 0 .. 1, t \in {<<"x">>, <<"y">>}}
  \cup {[type |-> "block_stop", index |-> i] : i \in 0 .. 1}
  \cup {Done(r, i) : r \in {"end_turn", "tool_use", "refusal"}, i \in {None, 1, 2}}
  \cup {[Done(r, None) EXCEPT !.output = 9] : r \in {"model_context_window_exceeded", "tool_use"}}
  \cup {[type |-> "message_stop"], [type |-> "other"]}

\* "xy" is {}, "xxy" some other object
MCMessageJson == (<<"x", "y">> :> EmptyObject) @@ (<<"x", "x", "y">> :> "other")

Anthropic == INSTANCE AnthropicStream WITH
  ParseJson <- MessageJson, MAX_MODEL_OUTPUT_CHARS <- MessageChars,
  WireEvents <- MessageEvents, MaxWire <- MessageWire

-----------------------------------------------------------------------------
(* The collector *)

\* a call with its tool_call_id; two provider_call_ids may come with one of it
PortCall(id, name, arguments, tool) == ModelToolCall(id, name, arguments) @@ [tool |-> tool]
MCPortEvents ==
  {ModelTextDelta(t) : t \in {<<"x">>, <<"y">>, <<"x", "y">>}}
  \cup {PortCall("c1", "read", "obj", "t1"), PortCall("c1", "write", "obj", "t2"),
        PortCall("c2", "read", "obj", "t2"), PortCall("c2", "write", "obj", "t1"),
        PortCall("c2", "read", "large", "t2")}
  \cup {ModelCompleted(f, None) : f \in Finishes}
  \cup {[type |-> "unsupported"]}

Collector == INSTANCE ModelStream WITH Events <- PortEvents

MCParseJson == (<<"x", "y">> :> "obj") @@ (<<"x", "x">> :> "large")

-----------------------------------------------------------------------------
NoCollector == lawful = TRUE /\ consumed = <<>> /\ collected = None /\ discarded = 0 /\ outcome = "none"
NoAdapter == wire = <<>> /\ out = <<>> /\ status = "open" /\ state = None

Init ==
  \/ part = "chat" /\ Chat!Init /\ NoCollector
  \/ part = "responses" /\ Responses!Init /\ tools = <<>> /\ NoCollector
  \/ part = "anthropic" /\ Anthropic!Init /\ tools = <<>> /\ NoCollector
  \/ part = "collector" /\ NoAdapter /\ tools = <<>> /\ Collector!Init

Next ==
  /\ \/ part = "chat" /\ Chat!Next /\ UNCHANGED collector
     \/ part = "responses" /\ Responses!Next /\ UNCHANGED <<tools, collector>>
     \/ part = "anthropic" /\ Anthropic!Next /\ UNCHANGED <<tools, collector>>
     \/ part = "collector" /\ Collector!Next /\ UNCHANGED <<wire, out, status, state, tools>>
  /\ UNCHANGED part
Spec == Init /\ [][Next]_vars

-----------------------------------------------------------------------------
FollowsProtocol ==
  \/ part = "chat" /\ Chat!FollowsProtocol
  \/ part = "responses" /\ Responses!FollowsProtocol
  \/ part = "anthropic" /\ Anthropic!FollowsProtocol

(***************************************************************************)
(* An adapter refuses a wire event exactly when the history leaves its     *)
(* protocol with it: nothing malformed is let through, in whatever order   *)
(* it comes, and no event of a well-formed message is refused.             *)
(***************************************************************************)
AcceptsTheProtocol == [][wire' # wire => (status' = "open" <=> FollowsProtocol')]_vars

\* for every list of Tools the wire names of Chat Completions differ
WireNamesDiffer == \A names \in ToolLists : Chat!NamesDiffer(names)

(***************************************************************************)
(* What an adapter has yielded is the message on its wire: all text in     *)
(* order, every call with the identity, the arguments and the Tool the     *)
(* provider meant, the finish reason and the usage.                        *)
(***************************************************************************)
YieldsTheMessage ==
  /\ part = "chat" => Chat!TypeOK /\ Chat!YieldsTheMessage /\ WireNamesDiffer
  /\ part = "responses" => Responses!TypeOK /\ Responses!YieldsTheMessage
  /\ part = "anthropic" => Anthropic!TypeOK /\ Anthropic!YieldsTheMessage

Port == INSTANCE ModelPort
(* Every adapter keeps the contract of the port, whatever its provider sends. *)
ImplementsPort == Port!Spec

(***************************************************************************)
(* The collector returns a response exactly for the streams that make a    *)
(* message and loses nothing of it, counts the text that was received      *)
(* before a failure, and refuses a port that keeps its contract only for   *)
(* what the contract does not promise.                                     *)
(***************************************************************************)
CollectsTheMessage ==
  part = "collector" =>
    /\ Collector!TypeOK /\ Collector!CollectsTheMessage
    /\ Collector!DiscardedIsReceived /\ Collector!LawfulPortsUnderstood
===============================================================================
