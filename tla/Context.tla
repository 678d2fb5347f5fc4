------------------------------- MODULE Context -------------------------------
(***************************************************************************)
(* ContextBuilder (runtime/context.py) over a Run that goes on: committed  *)
(* Run Events become groups - one model message with the results of all    *)
(* its Tool calls - and the newest groups that fit are shown behind the    *)
(* fixed layers.  ModelRequest is the validated request of domain/model.py.*)
(* Contents are sizes; the calls keep their identities.                    *)
(***************************************************************************)
EXTENDS Naturals, Sequences, SequencesExt, FiniteSets

CONSTANTS
  ToolNames,              \* names a model may call
  ProviderIds,            \* identities a Provider may give its calls
  Sizes,                  \* of texts and arguments
  ResultSizes,            \* of Tool results
  FixedChars,             \* the fixed messages and the Tool schemas together
  max_context_chars,
  max_tool_result_bytes,
  EnvelopeChars,          \* of the preview that replaces a larger result
  MAX_MODEL_MESSAGES,
  MAX_MODEL_INPUT_CHARS,
  MaxInteractions,        \* bound on the model calls of the Run
  MaxCalls,               \* bound on the calls of one message
  Nothing

ASSUME ContextAssumption ==
  /\ Sizes \subseteq Nat /\ ResultSizes \subseteq Nat
  /\ {FixedChars, max_context_chars, max_tool_result_bytes, EnvelopeChars, MAX_MODEL_MESSAGES,
      MAX_MODEL_INPUT_CHARS, MaxInteractions, MaxCalls} \subseteq Nat
  /\ Nothing \notin {"incomplete", "invalid", "too_large"} /\ Nothing \notin [id : Nat, size : Nat]
  /\ EnvelopeChars <= max_tool_result_bytes
  /\ max_tool_result_bytes <= max_context_chars /\ max_context_chars <= MAX_MODEL_INPUT_CHARS

VARIABLES
  events,        \* the committed Events of the Run
  context,       \* what build() returned last
  status         \* "build", "ask" or "tools": the loop's next step, or why it stopped
contextVars == <<events, context, status>>

Other == [type |-> "other"]
ModelCallCompleted(text, calls) == [type |-> "model", text |-> text, calls |-> calls]
ToolCallEnded(id, size) == [type |-> "tool", id |-> id, size |-> size]

\* RunCreated and RunStarted
InitContext == events = <<Other, Other>> /\ context = Nothing /\ status = "build"

Total(seq) ==
  LET sum[n \in 0 .. Len(seq)] == IF n = 0 THEN 0 ELSE sum[n - 1] + seq[n]
  IN  sum[Len(seq)]

-----------------------------------------------------------------------------
(* _tool_result_content and the messages *)

Content(size) == IF size <= max_tool_result_bytes THEN size ELSE EnvelopeChars

FixedMessages ==
  [i \in 1 .. 3 |-> [role |-> IF i < 3 THEN "system" ELSE "user", text |-> 0, calls |-> <<>>, result |-> Nothing]]
AssistantMessage(e) == [role |-> "assistant", text |-> e.text, calls |-> e.calls, result |-> Nothing]
ToolMessage(e) ==
  [role |-> "tool", text |-> 0, calls |-> <<>>,
   result |-> [id |-> e.id, size |-> Content(e.size)]]

MessageChars(m) ==
  m.text + Total([i \in DOMAIN m.calls |-> m.calls[i].size])
         + (IF m.result = Nothing THEN 0 ELSE m.result.size)
InputChars(messages) ==
  FixedChars + Total([i \in DOMAIN messages |-> MessageChars(messages[i])])

-----------------------------------------------------------------------------
(* _history_groups: one pass over the Events *)

NoGroup == [messages |-> <<>>, sequences |-> <<>>, truncated |-> <<>>]
Start == [groups |-> <<>>, current |-> NoGroup, pending |-> {}, ok |-> TRUE]

Settled(acc) ==
  IF acc.pending # {} THEN acc
  ELSE [acc EXCEPT !.groups = Append(@, acc.current), !.current = NoGroup]

TakeEvent(acc, seq, e) ==
  CASE e.type = "other" -> acc
    [] e.type = "model" ->
         IF acc.current # NoGroup THEN [acc EXCEPT !.ok = FALSE]
         ELSE Settled([acc EXCEPT
                !.current = [messages |-> <<AssistantMessage(e)>>, sequences |-> <<seq>>, truncated |-> <<>>],
                !.pending = {e.calls[i].id : i \in DOMAIN e.calls}])
    [] e.type = "tool" ->
         IF e.id \notin acc.pending THEN [acc EXCEPT !.ok = FALSE]
         ELSE Settled([acc EXCEPT
                !.current.messages = Append(@, ToolMessage(e)),
                !.current.sequences = Append(@, seq),
                !.current.truncated = IF e.size > max_tool_result_bytes THEN Append(@, e.id) ELSE @,
                !.pending = @ \ {e.id}])

History(es) ==
  LET after[n \in 0 .. Len(es)] ==
        IF n = 0 THEN Start
        ELSE LET acc == after[n - 1] IN IF acc.ok THEN TakeEvent(acc, n, es[n]) ELSE acc
  IN  after[Len(es)]

-----------------------------------------------------------------------------
(* ModelRequest.validate_history_and_size *)

CallsOf(messages) == FlattenSeq([i \in DOMAIN messages |-> messages[i].calls])
ResultsOf(messages) == {i \in DOMAIN messages : messages[i].result # Nothing}
Different(seq, field(_)) == \A i, j \in DOMAIN seq : field(seq[i]) = field(seq[j]) => i = j
Known(messages, n) == {c.id : c \in ToSet(CallsOf(SubSeq(messages, 1, n)))}
ValidRequest(messages) ==
  /\ Len(messages) <= MAX_MODEL_MESSAGES /\ InputChars(messages) <= MAX_MODEL_INPUT_CHARS
  /\ Different(CallsOf(messages), LAMBDA c : c.id)
  /\ Different(CallsOf(messages), LAMBDA c : c.provider)
  /\ \A i, j \in ResultsOf(messages) : messages[i].result.id = messages[j].result.id => i = j
  /\ \A i \in ResultsOf(messages) : messages[i].result.id \in Known(messages, i)

\* mutant: what the model said in a dropped group is kept
Messages_KeepAnswers(groups, k) ==
  FixedMessages \o FlattenSeq([i \in DOMAIN groups |->
    IF i < k THEN <<Head(groups[i].messages)>> ELSE groups[i].messages])
\* _request: the fixed layers and the groups from the k-th on
Messages(groups, k) ==
  FixedMessages \o FlattenSeq([i \in 1 .. Len(groups) + 1 - k |-> groups[i + k - 1].messages])

-----------------------------------------------------------------------------
(* ContextBuilder.build *)

\* mutant: the latest group is dropped as well when it does not fit
Drop_Latest(groups) ==
  LET from[k \in 1 .. Len(groups) + 1] ==
        IF InputChars(Messages(groups, k)) > max_context_chars /\ k <= Len(groups) THEN from[k + 1] ELSE k
  IN  from[1]
\* the loop: the first group that is still shown
Drop(groups) ==
  LET from[k \in 1 .. Len(groups) + 1] ==
        IF InputChars(Messages(groups, k)) > max_context_chars /\ k < Len(groups) THEN from[k + 1] ELSE k
  IN  from[1]

TooLarge(shown) == InputChars(shown) > max_context_chars

Failure(why) == [error |-> why, first |-> 0, messages |-> <<>>, omitted |-> {}, truncated |-> <<>>]
Build(es) ==
  LET history == History(es)
      groups == history.groups
      first == Drop(groups)
      shown == Messages(groups, first)
  IN  IF ~ history.ok \/ history.current # NoGroup THEN Failure("incomplete")
      \* a request is made, and validated, for every group that is dropped
      ELSE IF \E k \in 1 .. first : ~ ValidRequest(Messages(groups, k)) THEN Failure("invalid")
      ELSE IF TooLarge(shown) THEN Failure("too_large")
      ELSE [error |-> Nothing, first |-> first, messages |-> shown,
            omitted |-> UNION {ToSet(groups[k].sequences) : k \in 1 .. first - 1},
            truncated |-> FlattenSeq([i \in 1 .. Len(groups) + 1 - first |-> groups[i + first - 1].truncated])]

-----------------------------------------------------------------------------
(* The Run: model calls and Tool calls, one at a time (AgentLoop.run) *)

Interactions == {i \in DOMAIN events : events[i].type = "model"}
Called == FlattenSeq([i \in DOMAIN events |-> IF i \in Interactions THEN events[i].calls ELSE <<>>])
Answered == {events[i].id : i \in {j \in DOMAIN events : events[j].type = "tool"}}
Pending == {c.id : c \in ToSet(Called)} \ Answered

\* budget left and no call open
BuildContext ==
  /\ status = "build" /\ Cardinality(Interactions) < MaxInteractions
  /\ context' = Build(events)
  /\ status' = IF context'.error = Nothing THEN "ask" ELSE context'.error
  /\ UNCHANGED events

\* _reused_tool_identity_error: against the calls of the request, no others
Reused(calls) ==
  \E i \in DOMAIN calls : \E c \in ToSet(CallsOf(context.messages)) : c.provider = calls[i].provider

\* the answer's calls get new ToolCallIds; the collector refuses repeated identities
NewCalls(providers, names, size) ==
  [i \in DOMAIN names |->
     [id |-> Len(Called) + i, provider |-> providers[i], name |-> names[i], size |-> size]]

AskModel ==
  /\ status = "ask" /\ UNCHANGED context
  /\ \E n \in 1 .. MaxCalls, text, size \in Sizes :
     \E providers \in Injection(1 .. n, ProviderIds), names \in [1 .. n -> ToolNames] :
       LET calls == NewCalls(providers, names, size) IN
       IF Reused(calls) THEN status' = "reused" /\ UNCHANGED events
       ELSE /\ events' = events \o <<Other, Other, ModelCallCompleted(text, calls)>>
            /\ status' = "tools"

\* requested, started and the execution's result; calls run in order
CallTool ==
  /\ status = "tools"
  /\ \E size \in ResultSizes :
       events' = events \o <<Other, Other,
         ToolCallEnded(CHOOSE c \in Pending : \A d \in Pending : c <= d, size)>>
  /\ status' = IF Cardinality(Pending) = 1 THEN "build" ELSE "tools"
  /\ UNCHANGED context

NextContext == BuildContext \/ AskModel \/ CallTool
ContextSpec == InitContext /\ [][NextContext]_contextVars

-----------------------------------------------------------------------------
Built == status = "ask"
\* the group each model Event opens, found without the pass over the Events
GroupOf(s) ==
  {s} \cup {i \in DOMAIN events : events[i].type = "tool"
                               /\ \E c \in ToSet(events[s].calls) : c.id = events[i].id}
GroupChars(s) ==
  events[s].text + Total([i \in DOMAIN events[s].calls |-> events[s].calls[i].size])
  + Total([i \in DOMAIN events |-> IF i \in GroupOf(s) \ {s} THEN Content(events[i].size) ELSE 0])
\* the request with the groups from the one at s on
CharsFrom(s) ==
  FixedChars + Total([i \in DOMAIN events |-> IF i \in Interactions /\ s <= i THEN GroupChars(i) ELSE 0])

(* the Run's Events have their types, and the reports stay in their bounds *)
ContextTypeOK ==
  /\ status \in {"build", "ask", "tools", "incomplete", "invalid", "too_large", "reused",
                "protocol"}   \* the last one is of HistoryTranslation
  /\ \A i \in DOMAIN events : events[i].type \in {"other", "model", "tool"}
  /\ Built =>
       InputChars(context.messages) <= max_context_chars /\ ValidRequest(context.messages)

(***************************************************************************)
(* The request shows the longest run of newest groups that fits, always    *)
(* with the latest one, and reports exactly the Events that it leaves out. *)
(***************************************************************************)
ShowsTheNewestThatFit ==
  Built /\ Interactions # {} =>
    \E first \in Interactions :
      LET dropped == {s \in Interactions : s < first} IN
        /\ CharsFrom(first) <= max_context_chars
        /\ \A s \in dropped : CharsFrom(s) > max_context_chars
        /\ context.omitted = UNION {GroupOf(s) : s \in dropped}
        /\ CallsOf(context.messages) =
             FlattenSeq([i \in DOMAIN events |-> IF i \in Interactions \ dropped THEN events[i].calls ELSE <<>>])

(***************************************************************************)
(* No call is shown without its result and no result without its call:     *)
(* behind each assistant message stand the results of its calls, and       *)
(* nothing else, whatever was left out.                                    *)
(***************************************************************************)
CallsAnswered ==
  Built =>
    LET ms == context.messages IN
    \A i \in DOMAIN ms : ms[i].role = "assistant" =>
      /\ i + Len(ms[i].calls) <= Len(ms)
      /\ \A j \in i + 1 .. i + Len(ms[i].calls) : ms[j].role = "tool"
      /\ {ms[j].result.id : j \in i + 1 .. i + Len(ms[i].calls)} = {c.id : c \in ToSet(ms[i].calls)}
      /\ i + Len(ms[i].calls) = Len(ms) \/ ms[i + Len(ms[i].calls) + 1].role = "assistant"

(***************************************************************************)
(* A Run that AgentLoop has committed is never told that its history is    *)
(* incomplete: whenever a context is built, every call has its result.     *)
(***************************************************************************)
NeverIncomplete == status # "incomplete"

(***************************************************************************)
(* The requests that are built are complete: types, calls with their       *)
(* results, and no committed history taken for an incomplete one.          *)
(***************************************************************************)
RequestsAreComplete == ContextTypeOK /\ CallsAnswered /\ NeverIncomplete

(***************************************************************************)
(* docs/specs/F-0016 asks that whole groups be dropped, oldest first, when *)
(* the context exceeds its limit, and that building fails only if the      *)
(* fixed layers or one necessary group cannot fit.  If the fixed layers    *)
(* and the latest group make a request that fits, the request is built,    *)
(* at least when no call identity was used twice.                          *)
(***************************************************************************)
FailsOnlyForTheLatest ==
  status \in {"incomplete", "invalid", "too_large"} /\ Different(Called, LAMBDA c : c.provider) =>
    LET groups == History(events).groups
        latest == Messages(groups, IF groups = <<>> THEN 1 ELSE Len(groups))
    IN  InputChars(latest) > max_context_chars \/ ~ ValidRequest(latest)
===============================================================================
