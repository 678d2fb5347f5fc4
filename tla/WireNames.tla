------------------------------ MODULE WireNames ------------------------------
(***************************************************************************)
(* The names under which Chat Completions offers Tools: _ToolNameMap and   *)
(* _build_tool_name_map of adapters/model/openai_chat_completions.py.  The *)
(* protocol allows fewer characters than TOOL_NAME_PATTERN and 64 at most, *)
(* so other names are normalised, and hashed when that clashes.            *)
(***************************************************************************)
EXTENDS Naturals, Sequences, SequencesExt

CONSTANTS
  Conforming,       \* the Tools' names that already match _WIRE_TOOL_NAME_PATTERN
  Normalized,       \* re.sub of each other name: any wire name, or "too_long"
  Hashed,           \* the candidates made of a name's hashes, one per attempt
  MaxAttempt        \* bound on the attempts of the loop

Attempts == 0 .. MaxAttempt
\* the loop has no bound of its own: it ends because hashes differ, and a candidate
\* is found that is neither a name of another Tool nor made of one
ASSUME HashedAssumption ==
  /\ MaxAttempt \in Nat /\ DOMAIN Hashed = DOMAIN Normalized
  /\ \A name \in DOMAIN Hashed : \E a \in Attempts :
       /\ Hashed[name][a] \notin Conforming
       /\ \A other \in DOMAIN Hashed \ {name} :
            Hashed[name][a] # Normalized[other] /\ \A b \in Attempts : Hashed[name][a] # Hashed[other][b]

Reserved(names) == {n \in ToSet(names) : n \in Conforming}
Clashes(names, name) ==
  \E other \in ToSet(names) \ {name} : other \notin Conforming /\ Normalized[other] = Normalized[name]

Taken(names, name, used) ==
  Normalized[name] = "too_long" \/ Clashes(names, name) \/ Normalized[name] \in used

\* the first attempt whose candidate is free
FreeHash(name, used) ==
  LET attempt == CHOOSE a \in Attempts :
        Hashed[name][a] \notin used /\ \A b \in Attempts : b < a => Hashed[name][b] \in used
  IN  Hashed[name][attempt]

WireName(names, name, used) ==
  IF Taken(names, name, used) THEN FreeHash(name, used) ELSE Normalized[name]

\* the names in their order: those that conform keep theirs, and are used from the start
WiresOf(names) ==
  LET wires[i \in 0 .. Len(names)] ==
        IF i = 0 THEN <<>>
        ELSE LET before == wires[i - 1] IN
             Append(before, IF names[i] \in Conforming THEN names[i]
                            ELSE WireName(names, names[i], Reserved(names) \cup ToSet(before)))
  IN  wires[Len(names)]
\* internal_to_wire; the names of request.tools are different
InternalToWire(names) ==
  LET wires == WiresOf(names)
  IN  [n \in ToSet(names) |-> wires[CHOOSE i \in DOMAIN names : names[i] = n]]

\* wire_to_internal.get(name, name)
ToInternal(names, wire) ==
  LET map == InternalToWire(names)
  IN  IF wire \in Range(map) THEN CHOOSE n \in DOMAIN map : map[n] = wire ELSE wire

(***************************************************************************)
(* No two Tools of a request share a wire name: a call for one would be    *)
(* executed as a call for the other.                                       *)
(***************************************************************************)
NamesDiffer(names) ==
  LET map == InternalToWire(names)
  IN  DOMAIN map = ToSet(names) /\ \A s, t \in ToSet(names) : map[s] = map[t] => s = t
===============================================================================
