---------------------------- MODULE ChatCompletions ----------------------------
(***************************************************************************)
(* OpenAIChatCompletionsProvider.stream                                    *)
(* (adapters/model/openai_chat_completions.py): one kind of wire event,    *)
(* the chunk.  Text is yielded as it comes; calls are put together from    *)
(* deltas that name an index, and are yielded when the finish reason has   *)
(* come; the completion waits for the usage as well, which may come before *)
(* or after it or with it.                                                 *)
(***************************************************************************)
EXTENDS ModelAdapter, WireNames, FiniteSets

CONSTANTS
  ToolLists,        \* the names of request.tools, in order
  MaxCallIndex      \* the highest index the code accepts

VARIABLE tools      \* the Tools of this request

chatVars == <<vars, tools>>

Init ==
  /\ tools \in ToolLists
  /\ wire = <<>> /\ out = <<>> /\ status = "open"
  /\ state = [meta |-> None, usage |-> None, finish |-> None, chars |-> 0, calls |-> <<>>]

Buffer == [id |-> None, name |-> None, fragments |-> <<>>]
BufferOf(calls, i) == IF i \in DOMAIN calls THEN calls[i] ELSE Buffer

\* a value that a delta gives must not differ from the one before
Agrees(old, new) == new = None \/ old = None \/ new = old
Kept(old, new) == IF new = None THEN old ELSE new

-----------------------------------------------------------------------------
IndexFits(d) == d.index <= MaxCallIndex

\* _merge_tool_call, and the limit that is checked after it
Merges(acc, d) ==
  LET old == BufferOf(acc.calls, d.index) IN
  /\ IndexFits(d) /\ ~ d.odd
  /\ Agrees(old.id, d.id) /\ Agrees(old.name, d.name)
  /\ acc.chars + Len(d.text) <= MAX_MODEL_OUTPUT_CHARS

Merged(acc, d) ==
  LET old == BufferOf(acc.calls, d.index)
      new == [id |-> Kept(old.id, d.id), name |-> Kept(old.name, d.name),
              fragments |-> Append(old.fragments, d.text)]
  IN  [acc EXCEPT !.calls = (d.index :> new) @@ @, !.chars = @ + Len(d.text)]

MergeAll(acc, deltas) ==
  FoldLeft(LAMBDA a, d : IF a.ok /\ Merges(a, d) THEN Merged(a, d) ELSE [a EXCEPT !.ok = FALSE],
           acc, deltas)

\* _complete_tool_calls: no index is left out and every call is whole
BufferMakesCall(b) ==
  /\ b.id # None /\ b.name # None
  /\ MakesCall(b.id, ToInternal(tools, b.name), FlattenSeq(b.fragments))

CallsComplete(calls, finish) ==
  IF finish = "stop" THEN DOMAIN calls = {}
  ELSE /\ \E n \in 0 .. MaxCallIndex : DOMAIN calls = 0 .. n
       /\ \A i \in DOMAIN calls : BufferMakesCall(calls[i])
CompletedCalls(calls) ==
  [i \in 1 .. Cardinality(DOMAIN calls) |->
     LET b == calls[i - 1]
     IN  Call(b.id, ToInternal(tools, b.name), FlattenSeq(b.fragments))]

\* _translate_finish_reason
Finish(reason) == IF reason \in Finishes THEN reason ELSE None
FinishError(reason) ==
  CASE reason = "content_filter" -> "REFUSED" [] reason = "length" -> "ERROR" [] OTHER -> "PROTOCOL"

\* what a chunk says beside its choice, and whether it may stand here
HeadFits(w) ==
  /\ Completions(out) = {}
  /\ w.meta # None /\ state.meta \in {None, w.meta} /\ ~ w.odd
  /\ w.usage # None => state.usage = None /\ UsageFits(w.usage.input, w.usage.output)
  /\ IF w.choice = None THEN w.usage # None /\ state.finish # None
     ELSE state.finish = None /\ w.choice.unsupported \notin {"choices", "reasoning"}
WithHead(w) == [state EXCEPT !.meta = w.meta, !.usage = Kept(@, w.usage)]

\* mutant: usage of an earlier chunk is forgotten
Completion_ThisChunk(w, s) ==
  IF s.finish # None /\ w.usage # None THEN <<ModelCompleted(s.finish, w.usage)>> ELSE <<>>
\* with the finish reason and the usage, in whichever chunk the second of them comes
Completion(w, s) ==
  IF s.finish # None /\ s.usage # None THEN <<ModelCompleted(s.finish, s.usage)>> ELSE <<>>

\* ModelCompleted validates the metadata when the completion is made, not before
CompletionFits(s) == s.finish # None /\ s.usage # None => s.meta \in Metadata

\* a chunk without a choice carries the usage
UsageChunk(w) ==
  /\ w.choice = None /\ Receives(w)
  /\ IF ~ HeadFits(w) \/ ~ CompletionFits(WithHead(w)) THEN Rejects
     ELSE Yields(Completion(w, WithHead(w))) /\ state' = WithHead(w)

\* the text of a chunk has been yielded when its calls are found wrong, and its
\* calls when the completion is
ChoiceChunk(w) ==
  /\ w.choice # None /\ Receives(w)
  /\ LET c == w.choice
         text == IF c.content = <<>> THEN <<>> ELSE <<ModelTextDelta(c.content)>>
         read == state.chars + Len(c.content)
         merged == MergeAll([ok |-> TRUE, calls |-> state.calls, chars |-> read], c.calls)
         finish == Finish(c.finish)
         next == [WithHead(w) EXCEPT !.calls = merged.calls, !.chars = merged.chars, !.finish = finish]
     IN  IF ~ HeadFits(w) THEN Rejects
         ELSE IF c.refusal THEN Raises("REFUSED") /\ UNCHANGED out
         ELSE IF c.unsupported # None \/ read > MAX_MODEL_OUTPUT_CHARS THEN Rejects
         ELSE IF ~ merged.ok THEN Raises("PROTOCOL") /\ out' = out \o text
         ELSE IF c.finish = None THEN Yields(text) /\ state' = next
         ELSE IF finish = None THEN Raises(FinishError(c.finish)) /\ out' = out \o text
         ELSE IF ~ CallsComplete(merged.calls, finish) THEN Raises("PROTOCOL") /\ out' = out \o text
         ELSE IF ~ CompletionFits(next)
         THEN Raises("PROTOCOL") /\ out' = out \o text \o CompletedCalls(merged.calls)
         ELSE /\ Yields(text \o CompletedCalls(merged.calls) \o Completion(w, next))
              /\ state' = next

Next ==
  /\ \/ \E w \in WireEvents : UsageChunk(w) \/ ChoiceChunk(w)
     \/ Ends
  /\ UNCHANGED tools
Spec == Init /\ [][Next]_chatVars

-----------------------------------------------------------------------------
(* The protocol and the message, read off the whole wire history *)

Chunks(P(_)) == {p \in 1 .. Len(wire) : P(wire[p])}
WithUsage == Chunks(LAMBDA w : w.usage # None)
WithChoice == Chunks(LAMBDA w : w.choice # None)
Finishing == Chunks(LAMBDA w : w.choice # None /\ w.choice.finish # None)
\* the call deltas of the stream, in order
CallDeltas ==
  LET choices == InOrder(WithChoice, Len(wire))
  IN  FlattenSeq([i \in 1 .. Len(choices) |-> wire[choices[i]].choice.calls])
DeltasOf(i) == SelectSeq(CallDeltas, LAMBDA d : d.index = i)
Given(i, field(_)) == {field(DeltasOf(i)[k]) : k \in DOMAIN DeltasOf(i)} \ {None}
IdsOf(i) == Given(i, LAMBDA d : d.id)
NamesOf(i) == Given(i, LAMBDA d : d.name)
JsonOf(i) == LET ds == DeltasOf(i) IN FlattenSeq([k \in 1 .. Len(ds) |-> ds[k].text])
Indexes == {CallDeltas[k].index : k \in DOMAIN CallDeltas}
Only(S) == CHOOSE x \in S : TRUE
WireText ==
  LET choices == InOrder(WithChoice, Len(wire))
  IN  FlattenSeq([i \in 1 .. Len(choices) |-> wire[choices[i]].choice.content])

\* the offered Tool that the model meant: the inverse of what it was told
Offered(name) ==
  LET map == InternalToWire(tools)
  IN  IF \E t \in ToSet(tools) : map[t] = name
      THEN CHOOSE t \in ToSet(tools) : map[t] = name ELSE name
WholeCall(i) ==
  /\ IdsOf(i) # {} /\ NamesOf(i) # {}
  /\ MakesCall(Only(IdsOf(i)), Offered(Only(NamesOf(i))), JsonOf(i))

ChunkWellFormed(w) ==
  /\ w.meta # None /\ w.meta = wire[1].meta /\ ~ w.odd
  /\ w.usage # None => UsageFits(w.usage.input, w.usage.output)
  /\ w.choice # None =>
       ~ w.choice.refusal /\ w.choice.unsupported = None
       /\ w.choice.finish \in Finishes \cup {None}
       /\ \A k \in DOMAIN w.choice.calls : ~ w.choice.calls[k].odd
(***************************************************************************)
(* The histories that follow the protocol.  The usage may come before the  *)
(* finish reason, with it or after it, and the deltas of several calls may *)
(* be mixed in any order; an identity, a name or a model does not change.  *)
(* Metadata that ModelCompleted refuses ends a stream only where it would  *)
(* be completed.                                                           *)
(***************************************************************************)
FollowsProtocol ==
  /\ \A p \in 1 .. Len(wire) : ChunkWellFormed(wire[p])
  /\ Cardinality(WithUsage) <= 1 /\ Cardinality(Finishing) <= 1
  /\ WithUsage # {} /\ Finishing # {} => wire[1].meta \in Metadata
  \* nothing but the usage follows the finish reason, and only after it stands alone
  /\ \A p \in 1 .. Len(wire) :
       IF p \in WithChoice THEN \A f \in Finishing : p <= f
       ELSE p \in WithUsage /\ \E f \in Finishing : f < p
  /\ \A i \in Indexes :
       i <= MaxCallIndex /\ Cardinality(IdsOf(i)) <= 1 /\ Cardinality(NamesOf(i)) <= 1
  /\ \A f \in Finishing :
       IF wire[f].choice.finish = "stop" THEN Indexes = {}
       ELSE /\ Indexes # {} /\ \A i \in Indexes : WholeCall(i) /\ \A j \in 0 .. i : j \in Indexes
  /\ Len(WireText) + Len(FlattenSeq([k \in 1 .. Len(CallDeltas) |-> CallDeltas[k].text]))
       <= MAX_MODEL_OUTPUT_CHARS

(* the buffers keep their types; what is yielded is a ModelEvent *)
TypeOK ==
  /\ AdapterOK /\ wire \in Seq(WireEvents) /\ tools \in ToolLists
  /\ DOMAIN state.calls \subseteq 0 .. MaxCallIndex
  /\ state.chars \in 0 .. MAX_MODEL_OUTPUT_CHARS

(***************************************************************************)
(* What was yielded is the message on the wire: all text in order, no call *)
(* before the finish reason and then every call in the order of the        *)
(* indexes, with the identity and the joined arguments its deltas gave,    *)
(* for the Tool that was offered under the name the model used; and the    *)
(* completion as soon as finish reason and usage are both there.           *)
(***************************************************************************)
YieldsTheMessage ==
  status \in {"open", "ended"} =>
    /\ JoinedText(out) = WireText
    /\ Calls(out) =
         IF Finishing = {} THEN <<>>
         ELSE [k \in 1 .. Cardinality(Indexes) |->
                 Call(Only(IdsOf(k - 1)), Offered(Only(NamesOf(k - 1))), JsonOf(k - 1))]
    /\ (Completions(out) # {}) <=> (Finishing # {} /\ WithUsage # {})
    /\ \A c \in Completions(out), f \in Finishing, u \in WithUsage :
         out[c] = ModelCompleted(wire[f].choice.finish, wire[u].usage)
===============================================================================
