-------------------------- MODULE HistoryTranslation --------------------------
(***************************************************************************)
(* What a Provider is told of a Run: the _translate_messages and           *)
(* _translate_input of the three adapters in adapters/model, over the      *)
(* requests of Context.  They replace the runtime's call identities by the *)
(* Provider's, which only the calls carry, so a result is correlated       *)
(* through the call it answers; Chat Completions also renames the Tools.   *)
(***************************************************************************)
EXTENDS Context, WireNames

CONSTANTS
  Adapters,         \* those of the deployment
  Offered           \* the names of request.tools, in order

ASSUME OfferedAssumption ==
  /\ Offered \in Seq(Conforming \cup DOMAIN Normalized)
  /\ \A i, j \in DOMAIN Offered : Offered[i] = Offered[j] => i = j

VARIABLES
  adapter,          \* the one this Run uses
  sent              \* the items of the last request the Provider got
runVars == <<contextVars, adapter, sent>>

\* the content of an item stands for the call it belongs to
TextItem(m) == [kind |-> "text", role |-> m.role]
CallItem(c, name) == [kind |-> "call", provider |-> c.provider, name |-> name, call |-> c.id]
ResultItem(provider, r) == [kind |-> "result", provider |-> provider, call |-> r.id]

\* _history_wire_tool_name, or the name itself
HasName(name) == adapter = "chat" => name \in DOMAIN InternalToWire(Offered)
SentName(name) == IF adapter = "chat" THEN InternalToWire(Offered)[name] ELSE name

\* mutant: the result of any call is sent as that of the latest call
ProviderOf_Latest(ids, call) == ids[Max(DOMAIN ids)]
ProviderOf(ids, call) == ids[call]

\* a text that is empty is left out; a Message of the Chat protocol holds both
MessageItems(m, ids) ==
  CASE m.role \in {"system", "user"} -> <<TextItem(m)>>
    [] m.role = "assistant" ->
         (IF m.text > 0 THEN <<TextItem(m)>> ELSE <<>>)
         \o [i \in DOMAIN m.calls |-> CallItem(m.calls[i], SentName(m.calls[i].name))]
    [] m.role = "tool" -> <<ResultItem(ProviderOf(ids, m.result.id), m.result)>>

\* call_ids, provider_call_ids: filled as the messages are passed
IdsOf(messages, n) ==
  LET calls == CallsOf(SubSeq(messages, 1, n))
  IN  [id \in {c.id : c \in ToSet(calls)} |-> (CHOOSE c \in ToSet(calls) : c.id = id).provider]

\* a name that is not offered, a result without its call or a late system message raise
Translates(messages) ==
  /\ \A c \in ToSet(CallsOf(messages)) : HasName(c.name)
  /\ \A i \in DOMAIN messages :
       messages[i].role = "tool" => messages[i].result.id \in DOMAIN IdsOf(messages, i)
  /\ adapter = "anthropic" =>
       \A i \in 2 .. Len(messages) : messages[i].role = "system" => messages[i - 1].role = "system"
Translated(messages) ==
  FlattenSeq([i \in DOMAIN messages |-> MessageItems(messages[i], IdsOf(messages, i))])

-----------------------------------------------------------------------------
InitRun == InitContext /\ adapter \in Adapters /\ sent = <<>>

\* stream() translates the request and only then calls the Provider
Send ==
  IF Translates(context.messages)
  THEN AskModel /\ sent' = Translated(context.messages)
  ELSE /\ status = "ask" /\ status' = "protocol"
       /\ UNCHANGED <<events, context, sent>>

NextRun ==
  /\ \/ (BuildContext \/ CallTool) /\ UNCHANGED sent
     \/ status = "ask" /\ Send
  /\ UNCHANGED adapter
RunSpec == InitRun /\ [][NextRun]_runVars

-----------------------------------------------------------------------------
Items(kind) == {i \in DOMAIN sent : sent[i].kind = kind}

(***************************************************************************)
(* The Provider finds behind each of its calls exactly one result under    *)
(* the identity it gave the call, and it is the result of that call; no    *)
(* result stands alone, whatever the context left out.                     *)
(***************************************************************************)
ResultsReachTheirCalls ==
  /\ \A i \in Items("call") : Cardinality({j \in Items("result") :
       j > i /\ sent[j].provider = sent[i].provider /\ sent[j].call = sent[i].call}) = 1
  /\ \A j \in Items("result") : \E i \in Items("call") : i < j /\ sent[i].provider = sent[j].provider
  /\ \A i, j \in Items("call") : sent[i].provider = sent[j].provider => i = j

(***************************************************************************)
(* A call is shown to the Provider under the name of the Tool that was     *)
(* asked for: read back, it names the same Tool.                           *)
(***************************************************************************)
NamesReadBack ==
  \A i \in Items("call") : \E c \in ToSet(Called) :
    c.id = sent[i].call /\ c.name = IF adapter = "chat" THEN ToInternal(Offered, sent[i].name) ELSE sent[i].name

(***************************************************************************)
(* Whatever a committed Run holds, its next request can be translated,     *)
(* except by Chat Completions for a Tool that is not offered.              *)
(***************************************************************************)
HistoryTranslates ==
  status = "protocol" =>
    adapter = "chat" /\ \E c \in ToSet(CallsOf(context.messages)) : c.name \notin ToSet(Offered)

(***************************************************************************)
(* What the Provider gets is the history: results reach their calls, calls *)
(* keep their names, and every history gets there at all.                  *)
(***************************************************************************)
HistoryReachesTheProvider == ResultsReachTheirCalls /\ NamesReadBack /\ HistoryTranslates

(***************************************************************************)
(* docs/specs/F-0016, AC-4: when the model asks for a Tool that does not   *)
(* exist, the failure is recorded and the model may correct itself within  *)
(* the budget that is left.  So such a call never ends the Run.            *)
(***************************************************************************)
UnknownToolsAreCorrectable == status # "protocol"

-----------------------------------------------------------------------------
(* Values for the model checker *)

Symmetry == Permutations(ProviderIds)
MCNormalized == ("a.b" :> "a_b") @@ ("c.d" :> "c_d")
MCHashed == [n \in {"a.b", "c.d"} |-> [a \in 0 .. 1 |-> IF a = 0 THEN "a_b_h" ELSE n]]
MCOffered == <<"a.b", "a_b">>
===============================================================================
