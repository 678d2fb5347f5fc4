-------------------------- MODULE SurroundingsProofs --------------------------
(***************************************************************************)
(* Proofs about what stands around the loop and the store: the prices of a *)
(* Run's calls, the bounded reads, the diagnostics, the set-up of the      *)
(* tables, the queries of a Run, `bearagent init`, the start of a command, *)
(* and the replay and the check of Runs.  Of each part, what it promises   *)
(* on its own, for every value of its constants, and then in the           *)
(* composition of Surroundings.                                            *)
(***************************************************************************)
EXTENDS Surroundings, ReducerLemmas, WellFoundedInduction, TLAPS

-----------------------------------------------------------------------------
(* The composition *)

\* A behaviour of the composition begins as one of its part.
LEMMA PartsBegin ==
  SurroundingsInit =>
    /\ part = "reads" => Pool!Init
    /\ part = "query" => Query!Init
    /\ part = "replay" => Replay!Init
    /\ part = "schema" => Schema!Init
    /\ part = "diagnostics" => Diagnosed!Init
    /\ part = "setup" => Setup!Init
    /\ part = "start" => Start!Init
    /\ part = "pricing" => Init
    /\ part # "pricing" => cost = 0 /\ exact = 0
BY DEF SurroundingsInit, NoPricing

\* No step leaves the part, and a step of the part is one of its module.
LEMMA PartsStep ==
  [SurroundingsNext]_allVars =>
    /\ part' = part
    /\ part = "pricing" => [Complete]_vars
    /\ part # "pricing" => UNCHANGED vars
    /\ part = "reads" => [Pool!Next]_Pool!vars
    /\ part = "query" => [Query!Next]_Query!vars
    /\ part = "replay" => [Replay!Next]_Replay!vars
    /\ part = "schema" => [Schema!Next]_Schema!vars
    /\ part = "diagnostics" => [Diagnosed!Next]_Diagnosed!vars
    /\ part = "setup" => [Setup!Next]_Setup!vars
    /\ part = "start" => [Start!Next]_Start!vars
<1>1. CASE SurroundingsNext
  BY <1>1 DEF SurroundingsNext
<1>2. CASE UNCHANGED allVars
  BY <1>2 DEF allVars, sharedVars, readsOnly, queryOnly, replayOnly, schemaOnly, diagnosticsOnly,
     setupOnly, startupOnly, Replay!vars, Replay!database, Replay!command, Replay!scan, Pool!vars, Query!vars, Query!run, Query!inspection, Query!following,
     Schema!vars, Diagnosed!vars, Setup!vars, Start!vars, Start!world, Start!read
<1>3. QED
  BY <1>1, <1>2

\* A step of the composition that changes nothing of its part changes nothing.
LEMMA PartsStutter ==
  ASSUME [SurroundingsNext]_allVars
  PROVE  /\ part = "schema" /\ UNCHANGED Schema!vars => UNCHANGED allVars
         /\ part = "setup" /\ UNCHANGED Setup!vars => UNCHANGED allVars
BY DEF SurroundingsNext, allVars, sharedVars, queryOnly, schemaOnly, diagnosticsOnly, setupOnly,
   startupOnly, Schema!vars, Setup!vars

-----------------------------------------------------------------------------
(* The prices of a Run's calls *)

\* The quotient rounded up is not below the exact one, and less than one above.
LEMMA RoundsUp ==
  ASSUME NEW n \in Nat, NEW unit \in Nat \ {0}
  PROVE  LET q == (n + unit - 1) \div unit
         IN  q \in Nat /\ n <= q * unit /\ q * unit < n + unit
  OBVIOUS

\* A product of natural numbers is one: what RoundsUp is applied to.
LEMMA ProductIsNat == ASSUME NEW a \in Nat, NEW b \in Nat PROVE a * b \in Nat
  OBVIOUS

\* One component of the estimate against its exact cost.
LEMMA ComponentRoundsUp ==
  ASSUME NEW tokens \in Nat, NEW rate \in Nat
  PROVE  /\ RoundedComponent(tokens, rate) \in Nat
         /\ tokens * rate <= RoundedComponent(tokens, rate) * TOKENS_PER_MILLION
         /\ RoundedComponent(tokens, rate) * TOKENS_PER_MILLION < tokens * rate + TOKENS_PER_MILLION
<1>1. tokens * rate \in Nat
  BY ProductIsNat
<1>2. TOKENS_PER_MILLION \in Nat \ {0}
  BY PricingAssumption
<1> HIDE <1>1
<1> QED
  BY <1>1, <1>2, RoundsUp DEF RoundedComponent

\* What the two invariants rest on: the sums are numbers, and the estimate of
\* a Run with no calls is exact.
PricingInv ==
  /\ pricing \in [input : Nat, output : Nat]
  /\ cost \in Nat /\ exact \in Nat /\ calls \in Nat
  /\ exact <= cost * TOKENS_PER_MILLION
  /\ calls = 0 => cost = 0
  /\ calls > 0 => cost * TOKENS_PER_MILLION < exact + 2 * calls * TOKENS_PER_MILLION

\* The arithmetic of one call: two components are added to the sums.
LEMMA SumsKeepTheirDistance ==
  ASSUME NEW unit \in Nat \ {0}, NEW c \in Nat, NEW e \in Nat, NEW k \in Nat,
         NEW a \in Nat, NEW b \in Nat, NEW m \in Nat, NEW n \in Nat,
         m <= a * unit, a * unit < m + unit,
         n <= b * unit, b * unit < n + unit,
         e <= c * unit, c * unit <= e + 2 * k * unit
  PROVE  /\ e + m + n <= (c + (a + b)) * unit
         /\ (c + (a + b)) * unit < e + m + n + 2 * (k + 1) * unit
<1>1. (c + (a + b)) * unit = c * unit + a * unit + b * unit
  OBVIOUS
<1>2. 2 * (k + 1) * unit = 2 * k * unit + unit + unit
  OBVIOUS
<1>3. /\ c * unit \in Nat /\ a * unit \in Nat /\ b * unit \in Nat /\ 2 * k * unit \in Nat
  OBVIOUS
<1> QED
  BY <1>1, <1>2, <1>3

\* PricingInv holds at first and is kept by every call.
LEMMA PricingInductive ==
  /\ Init => PricingInv
  /\ PricingInv /\ [Complete]_vars => PricingInv'
<1>1. Init => PricingInv
  <2> SUFFICES ASSUME Init PROVE PricingInv
    OBVIOUS
  <2>1. pricing \in [input : Nat, output : Nat]
    BY PricingAssumption DEF Init
  <2>2. 0 <= 0 * TOKENS_PER_MILLION
    BY PricingAssumption
  <2> QED
    BY <2>1, <2>2 DEF Init, PricingInv
<1>2. PricingInv /\ [Complete]_vars => PricingInv'
  <2> SUFFICES ASSUME PricingInv, [Complete]_vars PROVE PricingInv'
    OBVIOUS
  <2>1. CASE UNCHANGED vars
    BY <2>1 DEF vars, PricingInv
  <2>2. CASE Complete
    <3>1. PICK input \in TokenCounts, output \in TokenCounts :
            /\ cost' = cost + Estimate(input, output)
            /\ exact' = exact + input * pricing.input + output * pricing.output
      BY <2>2 DEF Complete
    <3> DEFINE a == RoundedComponent(input, pricing.input)
               b == RoundedComponent(output, pricing.output)
               m == input * pricing.input
               n == output * pricing.output
    <3>2. /\ input \in Nat /\ output \in Nat
          /\ pricing.input \in Nat /\ pricing.output \in Nat
      BY PricingAssumption DEF PricingInv
    <3>3. /\ a \in Nat /\ m <= a * TOKENS_PER_MILLION
          /\ a * TOKENS_PER_MILLION < m + TOKENS_PER_MILLION
      BY <3>2, ComponentRoundsUp
    <3>4. /\ b \in Nat /\ n <= b * TOKENS_PER_MILLION
          /\ b * TOKENS_PER_MILLION < n + TOKENS_PER_MILLION
      BY <3>2, ComponentRoundsUp
    <3>5. m \in Nat /\ n \in Nat
      BY <3>2, ProductIsNat
    <3>6. cost' = cost + (a + b) /\ exact' = exact + m + n
      BY <3>1 DEF Estimate
    <3>7. calls' = calls + 1 /\ pricing' = pricing
      BY <2>2 DEF Complete
    <3>8. TOKENS_PER_MILLION \in Nat \ {0}
      BY PricingAssumption
    <3>9. cost * TOKENS_PER_MILLION <= exact + 2 * calls * TOKENS_PER_MILLION
      BY <3>8 DEF PricingInv
    <3> HIDE DEF a, b, m, n
    <3>10. /\ exact + m + n <= (cost + (a + b)) * TOKENS_PER_MILLION
           /\ (cost + (a + b)) * TOKENS_PER_MILLION
                < exact + m + n + 2 * (calls + 1) * TOKENS_PER_MILLION
      BY <3>3, <3>4, <3>5, <3>8, <3>9, SumsKeepTheirDistance DEF PricingInv
    <3>11. cost' \in Nat /\ exact' \in Nat /\ calls' \in Nat /\ calls' > 0
      BY <3>3, <3>4, <3>5, <3>6, <3>7 DEF PricingInv
    <3> QED
      BY <3>6, <3>7, <3>10, <3>11 DEF PricingInv
  <2> QED
    BY <2>1, <2>2
<1> QED
  BY <1>1, <1>2

\* pricing.py: the cost that the budget sees is at least what was spent.
THEOREM CostNeverBelow ==
  /\ Spec => []NeverBelowTheCost
  /\ SurroundingsSpec => []NeverBelowTheCost
<1> DEFINE Inv == IF part = "pricing" THEN PricingInv ELSE cost = 0 /\ exact = 0
<1>1. PricingInv => NeverBelowTheCost
  BY PricingAssumption DEF PricingInv, NeverBelowTheCost
<1>2. Spec => []NeverBelowTheCost
  BY <1>1, PricingInductive, PTL DEF Spec
<1>3. SurroundingsInit => Inv
  BY PricingInductive, PartsBegin
<1>4. Inv /\ [SurroundingsNext]_allVars => Inv'
  BY PricingInductive, PartsStep DEF vars
<1>5. Inv => NeverBelowTheCost
  BY <1>1, PricingAssumption DEF NeverBelowTheCost
<1> HIDE DEF Inv
<1>6. SurroundingsSpec => []NeverBelowTheCost
  BY <1>3, <1>4, <1>5, PTL DEF SurroundingsSpec
<1>7. QED
  BY <1>2, <1>6

\* pricing.py: it is too high by less than two micro-USD for every call.
THEOREM CostNotFarAbove == Spec => []OverestimateIsBounded
<1>1. PricingInv => OverestimateIsBounded
  BY DEF PricingInv, OverestimateIsBounded
<1> QED
  BY <1>1, PricingInductive, PTL DEF Spec

-----------------------------------------------------------------------------
(* Bounded reads *)

Callers == {"awaits", "joins", "returned", "raised", "cancelled"}
Workers == {"queued", "working", "closing", "done", "never"}
Answers == {"value", "error", "timeout"}

ReadTypes ==
  /\ caller \in [Reads -> Callers] /\ cancels \in [Reads -> 0 .. MaxCancels]
  /\ told \in [Reads -> BOOLEAN] /\ late \in [Reads -> BOOLEAN]
  /\ worker \in [Reads -> Workers] /\ open \in [Reads -> BOOLEAN]
  /\ answer \in [Reads -> Answers \cup {None}]
  /\ task \in [Reads -> {"pending", "done", "cancelled"}]

\* A coroutine that joins has told its thread to stop.
ReadSound(r) ==
  /\ open[r] => worker[r] \in {"working", "closing"}
  /\ (answer[r] = None) <=> worker[r] \in {"queued", "working", "never"}
  /\ task[r] = "done" => worker[r] = "done"
  /\ caller[r] = "joins" => told[r]
  /\ Pool!Ended(r) => \/ worker[r] \in {"done", "never"} /\ ~ open[r]
                      \/ task[r] = "cancelled" /\ told[r]
  /\ cancels[r] > 0 => caller[r] \in {"joins", "cancelled"}

ReadInv == ReadTypes /\ \A r \in Reads : ReadSound(r)

\* What any step of one read does to it.
ReadStep(r) ==
  \/ Pool!Thread(r) \/ Pool!Loop(r) \/ Pool!Cancel(r) \/ Pool!CancelTask(r) \/ Pool!Tick(r)
  \/ \E what \in {"value", "error"} : Pool!Finish(r, what)

\* A read leaves the others alone, and what its step leaves is typed.
LEMMA ReadStepTyped ==
  ASSUME ReadConstants, ReadInv, NEW r \in Reads, ReadStep(r)
  PROVE  /\ ReadTypes'
         /\ \A q \in Reads \ {r} :
              /\ caller'[q] = caller[q] /\ cancels'[q] = cancels[q] /\ told'[q] = told[q]
              /\ worker'[q] = worker[q] /\ open'[q] = open[q] /\ answer'[q] = answer[q]
              /\ task'[q] = task[q]
<1> USE DEF ReadConstants, ReadInv, ReadTypes, Pool!Set, Callers, Workers, Answers
<1>1. CASE Pool!Begin(r) \/ Pool!Check(r) \/ Pool!Close(r)
  BY <1>1 DEF Pool!Begin, Pool!Check, Pool!Close, Pool!Answers
<1>2. CASE Pool!Loop(r)
  BY <1>2 DEF Pool!Loop, Pool!Deliver, Pool!Return, Pool!Join, Pool!Joined
<1>3. CASE Pool!Cancel(r)
  BY <1>3 DEF Pool!Cancel
<1>4. CASE Pool!CancelTask(r)
  BY <1>4 DEF Pool!CancelTask
<1>5. CASE Pool!Tick(r)
  BY <1>5 DEF Pool!Tick
<1>6. ASSUME NEW what \in {"value", "error"}, Pool!Finish(r, what)
      PROVE  /\ ReadTypes'
             /\ \A q \in Reads \ {r} :
                  /\ caller'[q] = caller[q] /\ cancels'[q] = cancels[q] /\ told'[q] = told[q]
                  /\ worker'[q] = worker[q] /\ open'[q] = open[q] /\ answer'[q] = answer[q]
                  /\ task'[q] = task[q]
  BY <1>6 DEF Pool!Finish, Pool!Answers
<1>7. QED
  BY <1>1, <1>2, <1>3, <1>4, <1>5, <1>6 DEF ReadStep, Pool!Thread

\* A step keeps what is sound of its read.
LEMMA ReadStepSound ==
  ASSUME ReadConstants, ReadInv, NEW r \in Reads, ReadStep(r)
  PROVE  ReadSound(r)'
<1> USE DEF ReadConstants, ReadInv, ReadTypes, ReadSound, Pool!Set, Pool!Ended,
            Callers, Workers, Answers
<1>1. CASE Pool!Begin(r)
  BY <1>1 DEF Pool!Begin, Pool!Answers
<1>2. CASE Pool!Check(r) \/ Pool!Close(r)
  BY <1>2 DEF Pool!Check, Pool!Close, Pool!Answers
<1>3. CASE Pool!Loop(r)
  BY <1>3 DEF Pool!Loop, Pool!Deliver, Pool!Return, Pool!Join, Pool!Joined
<1>4. CASE Pool!Cancel(r)
  BY <1>4 DEF Pool!Cancel
<1>5. CASE Pool!CancelTask(r)
  BY <1>5 DEF Pool!CancelTask
<1>6. CASE Pool!Tick(r)
  BY <1>6 DEF Pool!Tick
<1>7. CASE \E what \in {"value", "error"} : Pool!Finish(r, what)
  BY <1>7 DEF Pool!Finish, Pool!Answers
<1>8. QED
  BY <1>1, <1>2, <1>3, <1>4, <1>5, <1>6, <1>7 DEF ReadStep, Pool!Thread

\* The invariant of the bounded reads is inductive.
LEMMA ReadsInductive ==
  ASSUME ReadConstants
  PROVE  /\ Pool!Init => ReadInv
         /\ ReadInv /\ [Pool!Next]_Pool!vars => ReadInv'
<1>1. Pool!Init => ReadInv
  BY DEF ReadConstants, Pool!Init, ReadInv, ReadTypes, ReadSound, Pool!Ended, Callers, Workers,
         Answers
<1>2. ASSUME ReadInv, NEW r \in Reads, ReadStep(r)
      PROVE  ReadInv'
  <2>1. \A q \in Reads \ {r} : ReadSound(q)'
    BY <1>2, ReadStepTyped DEF ReadInv, ReadSound, Pool!Ended
  <2>2. QED
    BY <1>2, <2>1, ReadStepTyped, ReadStepSound DEF ReadInv
<1>3. ASSUME ReadInv, UNCHANGED Pool!vars
      PROVE  ReadInv'
  BY <1>3 DEF Pool!vars, ReadInv, ReadTypes, ReadSound, Pool!Ended
<1>4. Pool!Next => \E r \in Reads : ReadStep(r)
  BY DEF Pool!Next, ReadStep
<1>5. QED
  BY <1>1, <1>2, <1>3, <1>4

\* However many reads share the pool, however often each is cancelled and
\* whatever races: a read returns only after its thread has ended and closed
\* its connection, unless the loop itself ends, and no cancellation is lost.
THEOREM ReadsJoined ==
  /\ Pool!Spec => []Pool!ReadsAreJoined
  /\ SurroundingsSpec => []ReadsAreJoined
<1> DEFINE Inv == part = "reads" => ReadInv
<1>1. /\ Pool!Init => ReadInv
      /\ ReadInv /\ [Pool!Next]_Pool!vars => ReadInv'
  BY ReadsInductive, ConstantsAssumption
<1>2. ReadInv => Pool!ReadsAreJoined
  BY DEF ReadInv, ReadTypes, ReadSound, Pool!ReadsAreJoined, Pool!TypeOK,
         Pool!JoinsBeforeReturning, Pool!CancellationIsRaised
<1>3. Pool!Spec => []Pool!ReadsAreJoined
  BY <1>1, <1>2, PTL DEF Pool!Spec
<1>4. /\ SurroundingsInit => Inv
      /\ Inv /\ [SurroundingsNext]_allVars => Inv'
      /\ Inv => ReadsAreJoined
  BY <1>1, <1>2, PartsBegin, PartsStep DEF ReadsAreJoined
<1> HIDE DEF Inv
<1>5. SurroundingsSpec => []ReadsAreJoined
  BY <1>4, PTL DEF SurroundingsSpec
<1>6. QED
  BY <1>3, <1>5

-----------------------------------------------------------------------------
(* Diagnostics *)

\* The append of c was committed and its return is still to come.
Committing(c) == pc[c] = "answer" /\ answer[c] = "ok" /\ job[c] # None

\* Of an Event one append is committed, and it is heard of when that returns.
CallSound(c) ==
  /\ pc[c] = "answer" => answer[c] \in {"ok", "error"}
  /\ pc[c] \in {"waiting", "answer"} => reply[c] = None
  /\ pc[c] = "orphan" => reply[c] = "cancelled"
  /\ reply[c] \in {"ok", "error"} => reply[c] = answer[c]
  /\ Committing(c) => /\ job[c] \in committed /\ heard[job[c]] = None
                      /\ \A d \in Appends \ {c} : Committing(d) => job[d] # job[c]

EventSound(e) == heard[e] # None => e \in committed /\ heard[e] <= clock

RecordSound ==
  /\ Diagnosed!RecordsAreCommitted /\ Diagnosed!FailuresAreAnswers /\ Diagnosed!DurationsAreReal

DiagnosticsInv ==
  /\ Diagnosed!TypeOK
  /\ \A c \in Appends : CallSound(c)
  /\ \A e \in Diagnosed!Event : EventSound(e)
  /\ RecordSound

\* A step that emits nothing.
LEMMA NoRecord ==
  ASSUME record' = None
  PROVE  RecordSound'
BY DEF RecordSound, Diagnosed!RecordsAreCommitted, Diagnosed!FailuresAreAnswers,
       Diagnosed!DurationsAreReal

\* A call begins.
LEMMA DiagnosedCall ==
  ASSUME DiagnosticsConstants, DiagnosticsInv, NEW c \in Appends,
         NEW what \in Diagnosed!Event \cup {None}, Diagnosed!Call(c, what)
  PROVE  DiagnosticsInv'
<1> USE DEF DiagnosticsConstants, DiagnosticsInv, Diagnosed!TypeOK, Diagnosed!Call
<1>1. Diagnosed!TypeOK'
  OBVIOUS
<1>2. \A d \in Appends : CallSound(d)'
  BY DEF CallSound, Committing
<1>3. \A e \in Diagnosed!Event : EventSound(e)'
  BY DEF EventSound
<1>4. QED
  BY <1>1, <1>2, <1>3, NoRecord

\* The thread answers.
LEMMA DiagnosedAnswer ==
  ASSUME DiagnosticsConstants, DiagnosticsInv, NEW c \in Appends,
         Diagnosed!Work(c) \/ Diagnosed!WorkFails(c)
  PROVE  DiagnosticsInv'
<1> USE DEF DiagnosticsConstants, DiagnosticsInv, Diagnosed!TypeOK, Diagnosed!Work,
            Diagnosed!WorkFails, Diagnosed!Answers, Diagnosed!Accepts
<1>1. Diagnosed!TypeOK'
  OBVIOUS
<1>2. \A d \in Appends : CallSound(d)'
  BY DEF CallSound, Committing, EventSound
<1>3. \A e \in Diagnosed!Event : EventSound(e)'
  BY DEF EventSound
<1>4. QED
  BY <1>1, <1>2, <1>3, NoRecord

\* The delegate returned, and the record is emitted or the sink raised.
LEMMA DiagnosedReturn ==
  ASSUME DiagnosticsConstants, DiagnosticsInv, NEW c \in Appends, Diagnosed!Return(c)
  PROVE  DiagnosticsInv'
<1> USE DEF DiagnosticsConstants, DiagnosticsInv, Diagnosed!TypeOK, Diagnosed!Return
<1>1. CASE job[c] = None
  <2>1. Diagnosed!TypeOK'
    BY <1>1
  <2>2. \A d \in Appends : CallSound(d)'
    BY <1>1 DEF CallSound, Committing
  <2>3. \A e \in Diagnosed!Event : EventSound(e)'
    BY <1>1 DEF EventSound
  <2>4. QED
    BY <1>1, <2>1, <2>2, <2>3, NoRecord
<1>2. CASE job[c] # None
  <2> DEFINE e == job[c]
             a == e.activity
             begin == [e EXCEPT !.stage = "started"]
             new == [name |-> "event.committed", event |-> e, at |-> clock,
                     duration |-> Diagnosed!Duration(e)]
  <2>1. /\ e \in Diagnosed!Event /\ a \in Activities /\ e.stage \in Diagnosed!Stages
        /\ begin \in Diagnosed!Event /\ begin = [activity |-> a, stage |-> "started"]
        /\ e = [activity |-> a, stage |-> e.stage]
    BY <1>2 DEF Diagnosed!Event, Diagnosed!Stages
  <2>2. /\ Diagnosed!Timed(e) /\ record' \in {None, new}
        /\ reply' = [reply EXCEPT ![c] = "ok"] /\ heard' = [heard EXCEPT ![e] = clock]
        /\ Committing(c) /\ pc' = [pc EXCEPT ![c] = "idle"]
        /\ UNCHANGED <<committed, job, answer, clock>>
    BY <1>2 DEF Diagnosed!Emits, Committing
  <2>3. e \in committed /\ heard[e] = None
    BY <2>2 DEF CallSound
  <2>4. started[a] # None => /\ started[a] = heard[begin] /\ heard[begin] # None
                             /\ started[a] \in 0 .. MaxTime /\ started[a] <= clock
    BY <2>1 DEF EventSound
  <2>5. /\ Diagnosed!Duration(e) \in (0 .. MaxTime) \cup {None}
        /\ Diagnosed!Duration(e) # None =>
             /\ e.stage = "ended" /\ heard[begin] # None
             /\ Diagnosed!Duration(e) = clock - heard[begin]
    BY <2>1, <2>4 DEF Diagnosed!Duration
  <2>6. /\ started' \in [Activities -> (0 .. MaxTime) \cup {None}]
        /\ \A b \in Activities : started'[b] # None =>
             started'[b] = heard'[[activity |-> b, stage |-> "started"]]
    <3>1. CASE e.stage = "started"
      <4>1. started' = [started EXCEPT ![a] = clock] /\ begin = e
        BY <2>1, <2>2, <3>1 DEF Diagnosed!Timed, Diagnosed!Starts
      <4>2. ASSUME NEW b \in Activities
            PROVE  heard'[[activity |-> b, stage |-> "started"]]
                   = IF b = a THEN clock ELSE heard[[activity |-> b, stage |-> "started"]]
        <5>1. [activity |-> b, stage |-> "started"] \in Diagnosed!Event
          BY DEF Diagnosed!Event, Diagnosed!Stages
        <5>2. [activity |-> b, stage |-> "started"] = e <=> b = a
          BY <2>1, <3>1
        <5>3. QED
          BY <2>2, <5>1, <5>2
      <4>3. QED
        BY <2>1, <4>1, <4>2
    <3>2. CASE e.stage # "started"
      <4>1. \A b \in Activities : /\ [activity |-> b, stage |-> "started"] \in Diagnosed!Event
                                  /\ [activity |-> b, stage |-> "started"] # e
        BY <3>2 DEF Diagnosed!Event, Diagnosed!Stages
      <4>2. \A b \in Activities : heard'[[activity |-> b, stage |-> "started"]]
                                  = heard[[activity |-> b, stage |-> "started"]]
        BY <2>2, <4>1
      <4>3. started' = started \/ started' = [started EXCEPT ![a] = None]
        BY <2>2, <3>2 DEF Diagnosed!Timed, Diagnosed!Starts
      <4>4. QED
        BY <2>1, <4>2, <4>3
    <3>3. QED
      BY <3>1, <3>2
  <2>7. new \in Diagnosed!Record
    BY <2>1, <2>5 DEF Diagnosed!Record, Diagnosed!Names
  <2> HIDE DEF new
  <2>8. Diagnosed!TypeOK'
    BY <2>1, <2>2, <2>6, <2>7
  <2>9. \A d \in Appends : CallSound(d)'
    BY <2>1, <2>2, <2>3 DEF CallSound, Committing
  <2>10. \A d \in Diagnosed!Event : EventSound(d)'
    BY <2>1, <2>2, <2>3 DEF EventSound
  <2>11. RecordSound'
    <3>1. CASE record' = None
      BY <3>1, NoRecord
    <3>2. CASE record' = new
      <4>1. /\ record'.name = "event.committed" /\ record'.event = e /\ record'.at = clock
            /\ record'.duration = Diagnosed!Duration(e)
        BY <3>2 DEF new
      <4>2. heard'[e] = clock /\ clock # None
        BY <2>1, <2>2
      <4>3. Diagnosed!Duration(e) # None => heard'[begin] = heard[begin] /\ begin # e
        BY <2>1, <2>2, <2>5
      <4>4. Diagnosed!RecordsAreCommitted'
        BY <2>2, <2>3, <4>1, <4>2 DEF Diagnosed!RecordsAreCommitted
      <4>5. Diagnosed!FailuresAreAnswers'
        BY <4>1 DEF Diagnosed!FailuresAreAnswers
      <4>6. Diagnosed!DurationsAreReal'
        BY <2>5, <4>1, <4>3 DEF Diagnosed!DurationsAreReal
      <4>7. QED
        BY <4>4, <4>5, <4>6 DEF RecordSound
    <3>3. QED
      BY <2>2, <3>1, <3>2
  <2>12. QED
    BY <2>8, <2>9, <2>10, <2>11
<1>3. QED
  BY <1>1, <1>2

\* The delegate raised.
LEMMA DiagnosedRaise ==
  ASSUME DiagnosticsConstants, DiagnosticsInv, NEW c \in Appends, Diagnosed!Raise(c)
  PROVE  DiagnosticsInv'
<1> USE DEF DiagnosticsConstants, DiagnosticsInv, Diagnosed!TypeOK, Diagnosed!Raise
<1> DEFINE new == Diagnosed!FailureRecord(job[c])
<1>1. /\ record' \in {None, new} /\ reply' = [reply EXCEPT ![c] = "error"]
      /\ answer[c] = "error" /\ pc' = [pc EXCEPT ![c] = "idle"] /\ pc[c] = "answer"
      /\ UNCHANGED <<committed, job, answer, clock, started, heard>>
  BY DEF Diagnosed!Emits
<1>2. /\ new \in Diagnosed!Record /\ new.event = job[c] /\ new.duration = None
      /\ new.name # "event.committed"
  BY DEF Diagnosed!FailureRecord, Diagnosed!Record, Diagnosed!Names
<1> HIDE DEF new
<1>3. Diagnosed!TypeOK'
  BY <1>1, <1>2
<1>4. \A d \in Appends : CallSound(d)'
  BY <1>1 DEF CallSound, Committing
<1>5. \A e \in Diagnosed!Event : EventSound(e)'
  BY <1>1 DEF EventSound
<1>6. RecordSound'
  <2>1. CASE record' = None
    BY <2>1, NoRecord
  <2>2. CASE record' = new
    BY <1>1, <1>2, <2>2 DEF RecordSound, Diagnosed!RecordsAreCommitted,
       Diagnosed!FailuresAreAnswers, Diagnosed!DurationsAreReal
  <2>3. QED
    BY <1>1, <2>1, <2>2
<1>7. QED
  BY <1>3, <1>4, <1>5, <1>6

\* Cancellation and time.
LEMMA DiagnosedRest ==
  ASSUME DiagnosticsConstants, DiagnosticsInv,
         Diagnosed!Tick \/ \E c \in Appends : Diagnosed!Cancel(c)
  PROVE  DiagnosticsInv'
<1> USE DEF DiagnosticsConstants, DiagnosticsInv, Diagnosed!TypeOK, Diagnosed!Tick,
            Diagnosed!Cancel
<1>1. Diagnosed!TypeOK'
  OBVIOUS
<1>2. \A d \in Appends : CallSound(d)'
  BY DEF CallSound, Committing
<1>3. \A e \in Diagnosed!Event : EventSound(e)'
  BY DEF EventSound
<1>4. QED
  BY <1>1, <1>2, <1>3, NoRecord

\* The invariant of the diagnostics is inductive.
LEMMA DiagnosticsInductive ==
  ASSUME DiagnosticsConstants
  PROVE  /\ Diagnosed!Init => DiagnosticsInv
         /\ DiagnosticsInv /\ [Diagnosed!Next]_Diagnosed!vars => DiagnosticsInv'
<1>1. Diagnosed!Init => DiagnosticsInv
  <2> SUFFICES ASSUME Diagnosed!Init
               PROVE  DiagnosticsInv
    OBVIOUS
  <2> USE DEF DiagnosticsConstants, Diagnosed!Init
  <2>1. Diagnosed!TypeOK
    BY DEF Diagnosed!TypeOK
  <2>2. \A d \in Appends : CallSound(d)
    BY DEF CallSound, Committing
  <2>3. \A e \in Diagnosed!Event : EventSound(e)
    BY DEF EventSound
  <2>4. RecordSound
    BY DEF RecordSound, Diagnosed!RecordsAreCommitted, Diagnosed!FailuresAreAnswers,
           Diagnosed!DurationsAreReal
  <2>5. QED
    BY <2>1, <2>2, <2>3, <2>4 DEF DiagnosticsInv
<1>2. ASSUME DiagnosticsInv, UNCHANGED Diagnosed!vars
      PROVE  DiagnosticsInv'
  BY <1>2 DEF Diagnosed!vars, DiagnosticsInv, Diagnosed!TypeOK, CallSound, Committing, EventSound,
     RecordSound, Diagnosed!RecordsAreCommitted, Diagnosed!FailuresAreAnswers,
     Diagnosed!DurationsAreReal
<1>3. ASSUME DiagnosticsInv, Diagnosed!Next
      PROVE  DiagnosticsInv'
  BY <1>3, DiagnosedCall, DiagnosedAnswer, DiagnosedReturn, DiagnosedRaise, DiagnosedRest
    DEF Diagnosed!Next
<1>4. QED
  BY <1>1, <1>2, <1>3

\* For any number of calls, Activities and readings of the clock, whatever is
\* cancelled and whatever the sink raises: only facts are reported as committed,
\* only refused appends as failed, durations are those between two returned
\* appends, and the caller is told what the store answered.
THEOREM DiagnosticsTrue ==
  /\ Diagnosed!Spec => [](/\ Diagnosed!TypeOK /\ Diagnosed!RecordsAreCommitted
                          /\ Diagnosed!SinkNeverDecides /\ Diagnosed!FailuresAreAnswers
                          /\ Diagnosed!DurationsAreReal)
  /\ SurroundingsSpec => []RecordsAreCommitted
<1> DEFINE Inv == part = "diagnostics" => DiagnosticsInv
<1>1. /\ Diagnosed!Init => DiagnosticsInv
      /\ DiagnosticsInv /\ [Diagnosed!Next]_Diagnosed!vars => DiagnosticsInv'
  BY DiagnosticsInductive, ConstantsAssumption
<1>2. DiagnosticsInv =>
        /\ Diagnosed!TypeOK /\ Diagnosed!RecordsAreCommitted
        /\ Diagnosed!SinkNeverDecides /\ Diagnosed!FailuresAreAnswers
        /\ Diagnosed!DurationsAreReal
  BY DEF DiagnosticsInv, RecordSound, CallSound, Diagnosed!SinkNeverDecides
<1>3. Diagnosed!Spec => [](/\ Diagnosed!TypeOK /\ Diagnosed!RecordsAreCommitted
                           /\ Diagnosed!SinkNeverDecides /\ Diagnosed!FailuresAreAnswers
                           /\ Diagnosed!DurationsAreReal)
  BY <1>1, <1>2, PTL DEF Diagnosed!Spec
<1>4. /\ SurroundingsInit => Inv
      /\ Inv /\ [SurroundingsNext]_allVars => Inv'
      /\ Inv => RecordsAreCommitted
  BY <1>1, <1>2, PartsBegin, PartsStep DEF RecordsAreCommitted
<1> HIDE DEF Inv
<1>5. SurroundingsSpec => []RecordsAreCommitted
  BY <1>4, PTL DEF SurroundingsSpec
<1>6. QED
  BY <1>3, <1>5

-----------------------------------------------------------------------------
(* The schema of the store *)

Applied(b) == [version |-> 1, checksum |-> b]
Newer == [version |-> 2, checksum |-> None]

\* Nothing is committed, or one build's migration, with or without a newer one.
LedgerOf(b) == disk.objects = Schema!Objects /\ disk.ledger \in {{Applied(b)}, {Applied(b), Newer}}
DiskWhole == disk = Schema!Empty \/ \E b \in Builds : LedgerOf(b)

\* How far a transaction has come, and what it found committed.
TxSound(p) ==
  /\ pc[p] = "ledger" => tx[p] = disk
  /\ pc[p] \in {"create", "record"} => disk = Schema!Empty /\ tx[p].ledger = {}
  /\ pc[p] = "create" => /\ created[p] \in 0 .. 2
                         /\ tx[p].objects = {"schema_migrations"}
                                            \cup {Schema!Schema[i] : i \in 1 .. created[p]}
  /\ pc[p] = "record" => tx[p].objects = Schema!Objects
  /\ pc[p] = "commit" => /\ tx[p] = [objects |-> Schema!Objects, ledger |-> {Schema!RowOf(p)}]
                         /\ disk \in {Schema!Empty, tx[p]}
  /\ pc[p] \notin {"create", "record", "commit"} => created[p] = 0

\* How a call may end when the database is whole.
Fine(ending) == ending \in Schema!Outcomes \ {"incomplete", "not wal"}

ProcessSound(p) ==
  /\ pc[p] \in Schema!InTransaction \cup {"begin"} => wal
  /\ pc[p] \in {"rows", "tables"} => disk # Schema!Empty
  /\ pc[p] # "idle" => outcome[p] = "none"
  /\ Fine(outcome[p])

SchemaInv ==
  /\ Schema!TypeOK /\ DiskWhole
  /\ disk # Schema!Empty => wal
  /\ \A p \in Setups : TxSound(p) /\ ProcessSound(p)

\* The outcomes that say something else of the database.
LEMMA FineOutcomes ==
  \A ending \in {"none", "ok", "busy", "error", "newer", "mismatch", "uninitialized",
                 "unsupported"} : Fine(ending) /\ ending \in Schema!Outcomes
BY Zenon DEF Fine, Schema!Outcomes

\* A step of p that writes nothing keeps what is sound of the others.
LEMMA SchemaKeepsOthers ==
  ASSUME SchemaConstants, SchemaInv, NEW p \in Setups, disk' = disk, wal => wal',
         \A q \in Setups \ {p} :
           /\ pc'[q] = pc[q] /\ build'[q] = build[q] /\ tx'[q] = tx[q]
           /\ created'[q] = created[q] /\ outcome'[q] = outcome[q],
         Schema!TypeOK', TxSound(p)', ProcessSound(p)'
  PROVE  SchemaInv'
<1>1. DiskWhole' /\ (disk' # Schema!Empty => wal')
  BY DEF SchemaInv, DiskWhole, LedgerOf
<1>2. ASSUME NEW q \in Setups \ {p}
      PROVE  TxSound(q)' /\ ProcessSound(q)'
  <2>1. /\ pc'[q] = pc[q] /\ build'[q] = build[q] /\ tx'[q] = tx[q]
        /\ created'[q] = created[q] /\ outcome'[q] = outcome[q]
        /\ TxSound(q) /\ ProcessSound(q)
    BY DEF SchemaInv
  <2>2. TxSound(q)'
    BY <2>1 DEF TxSound, Schema!RowOf
  <2>3. ProcessSound(q)'
    BY <2>1 DEF ProcessSound
  <2>4. QED
    BY <2>2, <2>3
<1>3. QED
  BY <1>1, <1>2 DEF SchemaInv

\* A step that ends in `idle` and writes nothing.
LEMMA SchemaEnds ==
  ASSUME SchemaConstants, SchemaInv, NEW p \in Setups,
         NEW ending \in Schema!Outcomes, Fine(ending), pc[p] # "idle", Schema!Rollback(p, ending)
  PROVE  SchemaInv'
<1>1. /\ pc' = [pc EXCEPT ![p] = "idle"] /\ tx' = [tx EXCEPT ![p] = Schema!Empty]
      /\ created' = [created EXCEPT ![p] = 0] /\ outcome' = [outcome EXCEPT ![p] = ending]
      /\ writer' = (IF writer = p THEN None ELSE writer)
      /\ UNCHANGED <<build, file, wal, disk>>
  BY DEF Schema!Rollback, Schema!Ends, Schema!Goto, Schema!shared
<1>2. /\ Schema!Empty \in Schema!Database
      /\ 0 \in 0 .. Len(Schema!Schema)
  <2>1. Schema!Empty \in Schema!Database
    BY DEF Schema!Empty, Schema!Database
  <2>2. Len(Schema!Schema) = 3
    BY DEF Schema!Schema
  <2>3. 0 \in 0 .. 3
    OBVIOUS
  <2>4. QED
    BY <2>1, <2>2, <2>3, Zenon
<1>3. Schema!TypeOK'
  BY <1>1, <1>2 DEF SchemaConstants, SchemaInv, Schema!TypeOK, Schema!InTransaction
<1>4. pc'[p] = "idle" /\ created'[p] = 0 /\ outcome'[p] = ending
  BY <1>1 DEF SchemaInv, Schema!TypeOK
<1>5. TxSound(p)' /\ ProcessSound(p)'
  BY FineOutcomes, <1>4 DEF TxSound, ProcessSound, Schema!InTransaction
<1>6. QED
  BY <1>1, <1>3, <1>5, SchemaKeepsOthers DEF SchemaInv, Schema!TypeOK

\* A call of initialize() or of another operation begins.
LEMMA SchemaCall ==
  ASSUME SchemaConstants, SchemaInv, NEW p \in Setups, NEW label \in {"connect", "open"},
         Schema!Call(p, label)
  PROVE  SchemaInv'
<1> USE DEF SchemaConstants, SchemaInv, Schema!TypeOK, Schema!Call, Schema!Goto, Schema!shared
<1>1. Schema!TypeOK'
  BY FineOutcomes DEF Schema!InTransaction
<1>2. TxSound(p)' /\ ProcessSound(p)'
  BY FineOutcomes DEF TxSound, ProcessSound, Schema!InTransaction
<1>3. QED
  BY <1>1, <1>2, SchemaKeepsOthers

\* Connecting, the journal mode and the lock.
LEMMA SchemaBegins ==
  ASSUME SchemaConstants, SchemaInv, NEW p \in Setups,
         Schema!Connect(p) \/ Schema!SetWal(p) \/ Schema!Begin(p)
  PROVE  SchemaInv'
<1> USE DEF SchemaConstants, SchemaInv, Schema!TypeOK, Schema!Goto, Schema!shared
<1>1. CASE Schema!Connect(p)
  <2> USE <1>1 DEF Schema!Connect
  <2>1. Schema!TypeOK'
    BY DEF Schema!InTransaction
  <2>2. TxSound(p)' /\ ProcessSound(p)'
    BY FineOutcomes DEF TxSound, ProcessSound, Schema!InTransaction
  <2>3. QED
    BY <2>1, <2>2, SchemaKeepsOthers
<1>2. CASE Schema!SetWal(p)
  <2>1. CASE Schema!Rollback(p, "busy")
    BY FineOutcomes, <1>2, <2>1, SchemaEnds DEF Schema!SetWal
  <2>2. CASE ~ Schema!Rollback(p, "busy")
    <3> USE <1>2, <2>2 DEF Schema!SetWal
    <3>1. Schema!TypeOK'
      BY DEF Schema!InTransaction
    <3>2. TxSound(p)' /\ ProcessSound(p)'
      BY FineOutcomes DEF TxSound, ProcessSound, Schema!InTransaction
    <3>3. QED
      BY <3>1, <3>2, SchemaKeepsOthers
  <2>3. QED
    BY <2>1, <2>2
<1>3. CASE Schema!Begin(p)
  <2>1. CASE writer # None
    BY FineOutcomes, <1>3, <2>1, SchemaEnds DEF Schema!Begin
  <2>2. CASE writer = None
    <3> USE <1>3, <2>2 DEF Schema!Begin
    <3>1. Schema!TypeOK'
      BY DEF Schema!InTransaction
    <3>2. TxSound(p)' /\ ProcessSound(p)'
      BY FineOutcomes DEF TxSound, ProcessSound, Schema!InTransaction
    <3>3. QED
      BY <3>1, <3>2, SchemaKeepsOthers
  <2>3. QED
    BY <2>1, <2>2
<1>4. QED
  BY <1>1, <1>2, <1>3

\* The ledger that a transaction finds decides what it still has to do.
LEMMA SchemaReadsLedger ==
  ASSUME SchemaConstants, SchemaInv, NEW p \in Setups, Schema!ReadLedger(p)
  PROVE  SchemaInv'
<1> DEFINE rows == tx[p].ledger
           one == {row \in rows : row.version = 1}
<1>1. /\ pc[p] = "ledger" /\ tx[p] = disk /\ created[p] = 0 /\ wal /\ outcome[p] = "none"
      /\ writer = p
  BY DEF Schema!ReadLedger, SchemaInv, TxSound, ProcessSound, Schema!InTransaction, Schema!TypeOK
<1>2. CASE Schema!IsNewer(rows)
  BY FineOutcomes, <1>1, <1>2, SchemaEnds DEF Schema!ReadLedger
<1>3. CASE ~ Schema!IsNewer(rows) /\ one # {} /\ one # {Schema!RowOf(p)}
  BY FineOutcomes, <1>1, <1>3, SchemaEnds DEF Schema!ReadLedger
<1>4. CASE ~ Schema!IsNewer(rows) /\ (one = {} \/ one = {Schema!RowOf(p)})
  <2>1. /\ tx' = [tx EXCEPT ![p].objects = @ \cup {"schema_migrations"}]
        /\ pc' = [pc EXCEPT ![p] = IF one = {} THEN "create" ELSE "commit"]
        /\ UNCHANGED <<file, wal, disk, writer, build, created, outcome>>
    BY <1>4 DEF Schema!ReadLedger, Schema!Goto, Schema!shared
  <2>2. /\ tx[p] \in Schema!Database /\ disk \in Schema!Database
        /\ tx'[p] = [objects |-> disk.objects \cup {"schema_migrations"}, ledger |-> disk.ledger]
        /\ tx' = [tx EXCEPT ![p] = tx'[p]]
    BY <1>1, <2>1 DEF SchemaInv, Schema!TypeOK, Schema!Database
  <2>3. Schema!TypeOK'
    BY <1>1, <2>1, <2>2 DEF SchemaInv, Schema!TypeOK, Schema!Database, Schema!Objects,
                            Schema!InTransaction
  <2>4. CASE disk = Schema!Empty
    <3>1. one = {}
      BY <1>1, <2>4 DEF Schema!Empty
    <3>2. pc'[p] = "create" /\ created'[p] = 0
      BY <1>1, <2>1, <3>1 DEF SchemaInv, Schema!TypeOK
    <3>3. tx'[p] = [objects |-> {"schema_migrations"}, ledger |-> {}]
      BY <2>2, <2>4 DEF Schema!Empty
    <3>4. {Schema!Schema[i] : i \in 1 .. 0} = {}
      OBVIOUS
    <3>5. {Schema!Schema[i] : i \in 1 .. created'[p]} = {}
      BY <3>2, <3>4
    <3>6. TxSound(p)'
      BY <2>1, <2>4, <3>2, <3>3, <3>5 DEF TxSound, Schema!Empty
    <3>7. ProcessSound(p)'
      BY FineOutcomes, <1>1, <2>1, <3>2 DEF ProcessSound
    <3>8. QED
      BY <2>1, <2>3, <3>6, <3>7, SchemaKeepsOthers DEF SchemaInv, Schema!TypeOK
  <2>5. CASE disk # Schema!Empty
    <3>1. PICK b \in Builds : LedgerOf(b)
      BY <2>5 DEF SchemaInv, DiskWhole
    <3>2. rows = {Applied(b)}
      BY <1>1, <1>4, <3>1 DEF LedgerOf, Schema!IsNewer, Newer
    <3>3. one = {Applied(b)}
      BY <3>2 DEF Applied
    <3>4. one = {Schema!RowOf(p)} /\ rows = {Schema!RowOf(p)}
      BY <1>4, <3>2, <3>3
    <3>5. pc'[p] = "commit" /\ created'[p] = 0
      BY <1>1, <2>1, <3>3 DEF SchemaInv, Schema!TypeOK
    <3>6. tx'[p] = [objects |-> Schema!Objects, ledger |-> {Schema!RowOf(p)}] /\ disk = tx'[p]
      BY <1>1, <2>2, <3>1, <3>4 DEF LedgerOf, Schema!Database, Schema!Objects
    <3>7. TxSound(p)' /\ ProcessSound(p)'
      BY <1>1, <2>1, <3>5, <3>6
        DEF TxSound, ProcessSound, Schema!InTransaction, SchemaInv, Schema!TypeOK, Schema!RowOf
    <3>8. QED
      BY <2>1, <2>3, <3>7, SchemaKeepsOthers DEF SchemaInv, Schema!TypeOK
  <2>6. QED
    BY <2>4, <2>5
<1>5. QED
  BY <1>2, <1>3, <1>4

\* The three tables of the migration, one after the other.
LEMMA SchemaTables ==
  /\ Len(Schema!Schema) = 3 /\ DOMAIN Schema!Schema = 1 .. 3
  /\ Schema!Objects = {"schema_migrations"} \cup {Schema!Schema[i] : i \in 1 .. 3}
  /\ Schema!Required \subseteq Schema!Objects
  /\ \A n \in 0 .. 2 :
       /\ Schema!Schema[n + 1]
            \notin {"schema_migrations"} \cup {Schema!Schema[i] : i \in 1 .. n}
       /\ {Schema!Schema[i] : i \in 1 .. (n + 1)}
            = {Schema!Schema[i] : i \in 1 .. n} \cup {Schema!Schema[n + 1]}
<1> DEFINE S == Schema!Schema
<1>1. S = <<"events", "run_projections", "activity_projections">>
  BY DEF Schema!Schema
<1>2. Len(S) = 3 /\ DOMAIN S = 1 .. 3
  BY <1>1
<1>3. S[1] = "events" /\ S[2] = "run_projections" /\ S[3] = "activity_projections"
  BY <1>1
<1>4. ASSUME NEW n \in 0 .. 2
      PROVE  /\ S[n + 1] \notin {"schema_migrations"} \cup {S[i] : i \in 1 .. n}
             /\ {S[i] : i \in 1 .. (n + 1)} = {S[i] : i \in 1 .. n} \cup {S[n + 1]}
  <2> HIDE DEF S
  <2>1. \A i \in 1 .. n : i \in 1 .. 2 /\ i # n + 1
    OBVIOUS
  <2>2. \A i, j \in 1 .. 3 : S[i] = S[j] => i = j
    BY <1>3
  <2>3. \A i \in 1 .. 3 : S[i] # "schema_migrations"
    BY <1>3
  <2>4. n + 1 \in 1 .. 3 /\ 1 .. (n + 1) = (1 .. n) \cup {n + 1}
    OBVIOUS
  <2>5. S[n + 1] \notin {S[i] : i \in 1 .. n}
    BY <2>1, <2>2, <2>4
  <2>6. QED
    BY <2>3, <2>4, <2>5
<1>5. QED
  BY <1>2, <1>4 DEF Schema!Objects, Schema!Required

\* A statement of the migration never meets a table, and after the last of them
\* the transaction has them all.
LEMMA SchemaCreates ==
  ASSUME SchemaConstants, SchemaInv, NEW p \in Setups, Schema!CreateNext(p)
  PROVE  SchemaInv'
<1> DEFINE table == Schema!Schema[created[p] + 1]
           done == {"schema_migrations"} \cup {Schema!Schema[i] : i \in 1 .. created[p]}
<1>1. /\ pc[p] = "create" /\ disk = Schema!Empty /\ tx[p].ledger = {} /\ created[p] \in 0 .. 2
      /\ tx[p].objects = done /\ wal /\ outcome[p] = "none" /\ writer = p
      /\ tx[p] \in Schema!Database
  BY DEF Schema!CreateNext, SchemaInv, TxSound, ProcessSound, Schema!InTransaction, Schema!TypeOK
<1>2. /\ table \notin done
      /\ {Schema!Schema[i] : i \in 1 .. (created[p] + 1)}
           = {Schema!Schema[i] : i \in 1 .. created[p]} \cup {table}
  BY <1>1, SchemaTables
<1>3. /\ tx' = [tx EXCEPT ![p].objects = @ \cup {table}]
      /\ created' = [created EXCEPT ![p] = @ + 1]
      /\ pc' = [pc EXCEPT ![p] = IF created[p] + 1 = 3 THEN "record" ELSE "create"]
      /\ UNCHANGED <<file, wal, disk, writer, build, outcome>>
  BY <1>1, <1>2, SchemaTables DEF Schema!CreateNext, Schema!Goto, Schema!shared
<1>4. /\ tx'[p] = [objects |-> done \cup {table}, ledger |-> {}]
      /\ tx' = [tx EXCEPT ![p] = tx'[p]]
  BY <1>1, <1>3 DEF SchemaInv, Schema!TypeOK, Schema!Database
<1>5. done \cup {table} = {"schema_migrations"}
                            \cup {Schema!Schema[i] : i \in 1 .. (created[p] + 1)}
  BY <1>2
<1>6. table \in Schema!Objects
  <2>1. created[p] + 1 \in 1 .. 3
    BY <1>1
  <2>2. QED
    BY <2>1, SchemaTables
<1>7. created'[p] = created[p] + 1 /\ outcome'[p] = "none" /\ wal' /\ disk' = Schema!Empty
  BY <1>1, <1>3 DEF SchemaInv, Schema!TypeOK
<1>8. pc'[p] = IF created[p] + 1 = 3 THEN "record" ELSE "create"
  BY <1>3 DEF SchemaInv, Schema!TypeOK
<1> HIDE DEF table, done
<1>9. Schema!TypeOK'
  <2>1. tx'[p] \in Schema!Database
    BY <1>1, <1>4, <1>6 DEF Schema!Database
  <2>2. created[p] + 1 \in 0 .. 3
    BY <1>1
  <2>3. QED
    BY <1>1, <1>3, <1>4, <2>1, <2>2, SchemaTables
      DEF SchemaInv, Schema!TypeOK, Schema!InTransaction
<1>10. TxSound(p)'
  <2>1. tx'[p].ledger = {} /\ tx'[p].objects = done \cup {table}
    BY <1>4
  <2>2. CASE created[p] + 1 = 3
    <3>1. tx'[p].objects = Schema!Objects
      BY <1>5, <2>1, <2>2, SchemaTables
    <3>2. QED
      BY <1>7, <1>8, <2>1, <2>2, <3>1 DEF TxSound
  <2>3. CASE created[p] + 1 # 3
    <3>1. created'[p] \in 0 .. 2
      BY <1>1, <1>7, <2>3
    <3>2. tx'[p].objects = {"schema_migrations"}
                             \cup {Schema!Schema[i] : i \in 1 .. created'[p]}
      BY <1>5, <1>7, <2>1
    <3>3. QED
      BY <1>7, <1>8, <2>1, <2>3, <3>1, <3>2 DEF TxSound
  <2>4. QED
    BY <2>2, <2>3
<1>11. ProcessSound(p)'
  BY FineOutcomes, <1>7, <1>8 DEF ProcessSound
<1>12. QED
  BY <1>3, <1>9, <1>10, <1>11, SchemaKeepsOthers DEF SchemaInv, Schema!TypeOK

\* The row of the ledger that says what was applied.
LEMMA SchemaRecords ==
  ASSUME SchemaConstants, SchemaInv, NEW p \in Setups, Schema!Record(p)
  PROVE  SchemaInv'
<1>1. /\ pc[p] = "record" /\ disk = Schema!Empty /\ wal /\ outcome[p] = "none" /\ writer = p
      /\ tx[p].objects = Schema!Objects /\ tx[p].ledger = {} /\ tx[p] \in Schema!Database
  BY DEF Schema!Record, SchemaInv, TxSound, ProcessSound, Schema!InTransaction, Schema!TypeOK
<1>2. /\ tx' = [tx EXCEPT ![p].ledger = @ \cup {Schema!RowOf(p)}]
      /\ pc' = [pc EXCEPT ![p] = "commit"]
      /\ UNCHANGED <<file, wal, disk, writer, build, created, outcome>>
  BY DEF Schema!Record, Schema!Goto, Schema!shared
<1>3. /\ tx'[p] = [objects |-> Schema!Objects, ledger |-> {Schema!RowOf(p)}]
      /\ tx' = [tx EXCEPT ![p] = tx'[p]]
  BY <1>1, <1>2 DEF SchemaInv, Schema!TypeOK, Schema!Database
<1>4. Schema!RowOf(p) \in Schema!LedgerRow /\ Schema!RowOf(p)' = Schema!RowOf(p)
  BY <1>2 DEF SchemaInv, Schema!TypeOK, Schema!RowOf, Schema!LedgerRow
<1>5. pc'[p] = "commit"
  BY <1>2 DEF SchemaInv, Schema!TypeOK
<1>6. Schema!TypeOK'
  <2>1. tx'[p] \in Schema!Database
    BY <1>3, <1>4 DEF Schema!Database
  <2>2. QED
    BY <1>1, <1>2, <1>3, <2>1 DEF SchemaInv, Schema!TypeOK, Schema!InTransaction
<1>7. TxSound(p)'
  BY <1>1, <1>2, <1>3, <1>4, <1>5 DEF TxSound
<1>8. ProcessSound(p)'
  BY FineOutcomes, <1>1, <1>2, <1>5 DEF ProcessSound
<1>9. QED
  BY <1>2, <1>6, <1>7, <1>8, SchemaKeepsOthers DEF SchemaInv, Schema!TypeOK

\* COMMIT makes the whole schema visible at once, with the row that names the
\* build; where it was applied before, it changes nothing.
LEMMA SchemaCommits ==
  ASSUME SchemaConstants, SchemaInv, NEW p \in Setups, Schema!Commit(p)
  PROVE  /\ SchemaInv'
         /\ disk' = tx[p] /\ disk \in {Schema!Empty, disk'}
         /\ disk'.ledger = {Schema!RowOf(p)}
<1>1. /\ pc[p] = "commit" /\ wal /\ writer = p
      /\ tx[p] = [objects |-> Schema!Objects, ledger |-> {Schema!RowOf(p)}]
      /\ disk \in {Schema!Empty, tx[p]}
  BY DEF Schema!Commit, SchemaInv, TxSound, ProcessSound, Schema!InTransaction, Schema!TypeOK
<1>2. Schema!Required \subseteq tx[p].objects
  BY <1>1, SchemaTables
<1>3. /\ disk' = tx[p] /\ UNCHANGED <<file, wal, build>>
      /\ pc' = [pc EXCEPT ![p] = "idle"] /\ tx' = [tx EXCEPT ![p] = Schema!Empty]
      /\ created' = [created EXCEPT ![p] = 0] /\ outcome' = [outcome EXCEPT ![p] = "ok"]
      /\ writer' = None
  BY <1>1, <1>2 DEF Schema!Commit, Schema!Ends, Schema!Goto
<1>4. disk' # Schema!Empty /\ disk'.ledger = {Schema!RowOf(p)}
  BY <1>1, <1>3 DEF Schema!Empty
<1>5. DiskWhole'
  <2>1. PICK b \in Builds : Schema!RowOf(p) = Applied(b)
    BY DEF SchemaInv, Schema!TypeOK, Schema!RowOf, Applied
  <2>2. LedgerOf(b)'
    BY <1>1, <1>3, <2>1 DEF LedgerOf
  <2>3. QED
    BY <2>1, <2>2 DEF DiskWhole
<1>6. Schema!TypeOK'
  <2>1. Schema!Empty \in Schema!Database /\ tx[p] \in Schema!Database
    BY DEF Schema!Empty, Schema!Database, SchemaInv, Schema!TypeOK
  <2>2. 0 \in 0 .. 3
    OBVIOUS
  <2>3. QED
    BY FineOutcomes, <1>1, <1>3, <2>1, <2>2, SchemaTables
      DEF SchemaConstants, SchemaInv, Schema!TypeOK, Schema!InTransaction
<1>7. ASSUME NEW q \in Setups
      PROVE  TxSound(q)' /\ ProcessSound(q)'
  <2>1. CASE q = p
    <3>1. pc'[q] = "idle" /\ created'[q] = 0 /\ outcome'[q] = "ok"
      BY <1>3, <2>1 DEF SchemaInv, Schema!TypeOK
    <3>2. QED
      BY FineOutcomes, <3>1 DEF TxSound, ProcessSound, Schema!InTransaction
  <2>2. CASE q # p
    <3>1. pc'[q] = pc[q] /\ created'[q] = created[q] /\ outcome'[q] = outcome[q]
      BY <1>3, <2>2 DEF SchemaInv, Schema!TypeOK
    <3>2. pc[q] \notin Schema!InTransaction
      BY <1>1, <2>2 DEF SchemaInv, Schema!TypeOK
    <3>3. TxSound(q) /\ ProcessSound(q)
      BY DEF SchemaInv
    <3>4. TxSound(q)'
      BY <3>1, <3>2, <3>3 DEF TxSound, Schema!InTransaction
    <3>5. ProcessSound(q)'
      BY <1>3, <1>4, <3>1, <3>3 DEF ProcessSound
    <3>6. QED
      BY <3>4, <3>5
  <2>3. QED
    BY <2>1, <2>2
<1>8. QED
  BY <1>1, <1>3, <1>4, <1>5, <1>6, <1>7 DEF SchemaInv

\* A reader that finds the ledger finds it with every table and in WAL mode.
LEMMA SchemaVerifies ==
  ASSUME SchemaConstants, SchemaInv, NEW p \in Setups, Schema!Verify(p)
  PROVE  SchemaInv' /\ disk' = disk
<1>1. DiskWhole /\ (disk # Schema!Empty => wal) /\ TxSound(p) /\ ProcessSound(p)
  BY DEF SchemaInv
<1>2. disk # Schema!Empty => Schema!Required \subseteq disk.objects
  BY <1>1, SchemaTables DEF DiskWhole, LedgerOf
<1>3. ASSUME NEW label \in {"rows", "tables"}, pc[p] \in {"open", "rows"}, Schema!Goto(p, label),
             UNCHANGED <<Schema!shared, writer, build, tx, created, outcome>>,
             disk # Schema!Empty
      PROVE  SchemaInv' /\ disk' = disk
  <2>1. /\ pc' = [pc EXCEPT ![p] = label] /\ pc'[p] = label
        /\ UNCHANGED <<file, wal, disk, writer, build, tx, created, outcome>>
    BY <1>3 DEF Schema!Goto, Schema!shared, SchemaInv, Schema!TypeOK
  <2>2. Schema!TypeOK'
    BY <1>3, <2>1 DEF SchemaInv, Schema!TypeOK, Schema!InTransaction
  <2>3. TxSound(p)' /\ ProcessSound(p)'
    BY <1>1, <1>3, <2>1 DEF TxSound, ProcessSound, Schema!InTransaction
  <2>4. QED
    BY <2>1, <2>2, <2>3, SchemaKeepsOthers DEF SchemaInv, Schema!TypeOK
<1>4. ASSUME NEW ending \in Schema!Outcomes, Fine(ending), pc[p] # "idle",
             Schema!Rollback(p, ending)
      PROVE  SchemaInv' /\ disk' = disk
  BY <1>4, SchemaEnds DEF Schema!Rollback, Schema!shared
<1>5. CASE Schema!Open(p)
  <2>1. "schema_migrations" \in disk.objects => disk # Schema!Empty
    BY DEF Schema!Empty
  <2>2. QED
    BY FineOutcomes, <1>3, <1>4, <1>5, <2>1 DEF Schema!Open
<1>6. CASE Schema!CheckRows(p)
  BY FineOutcomes, <1>1, <1>3, <1>4, <1>6 DEF Schema!CheckRows, ProcessSound
<1>7. CASE Schema!CheckTables(p)
  BY FineOutcomes, <1>1, <1>2, <1>4, <1>7 DEF Schema!CheckTables, ProcessSound
<1>8. QED
  BY <1>5, <1>6, <1>7 DEF Schema!Verify

\* A process dies, and another build may be installed for it.
LEMMA SchemaCrashes ==
  ASSUME SchemaConstants, SchemaInv, NEW p \in Setups, Schema!Crash(p)
  PROVE  SchemaInv' /\ disk' = disk
<1>1. PICK b \in Builds : build' = [build EXCEPT ![p] = b]
  BY DEF Schema!Crash
<1>2. /\ pc' = [pc EXCEPT ![p] = "idle"] /\ tx' = [tx EXCEPT ![p] = Schema!Empty]
      /\ created' = [created EXCEPT ![p] = 0] /\ outcome' = [outcome EXCEPT ![p] = "none"]
      /\ writer' = (IF writer = p THEN None ELSE writer)
      /\ UNCHANGED <<file, wal, disk>>
  BY DEF Schema!Crash, Schema!Goto, Schema!shared
<1>3. Schema!Empty \in Schema!Database /\ 0 \in 0 .. 3
  BY DEF Schema!Empty, Schema!Database
<1>4. Schema!TypeOK'
  BY FineOutcomes, <1>1, <1>2, <1>3, SchemaTables
    DEF SchemaConstants, SchemaInv, Schema!TypeOK, Schema!InTransaction
<1>5. pc'[p] = "idle" /\ created'[p] = 0 /\ outcome'[p] = "none"
  BY <1>2 DEF SchemaInv, Schema!TypeOK
<1>6. TxSound(p)' /\ ProcessSound(p)'
  BY FineOutcomes, <1>5 DEF TxSound, ProcessSound, Schema!InTransaction
<1>7. QED
  BY <1>1, <1>2, <1>4, <1>6, SchemaKeepsOthers DEF SchemaInv, Schema!TypeOK

\* A newer version adds its migration to a database that has the first.
LEMMA SchemaUpgrades ==
  ASSUME SchemaConstants, SchemaInv, Schema!Upgrade
  PROVE  SchemaInv' /\ disk.ledger \subseteq disk'.ledger /\ disk'.objects = disk.objects
<1>1. PICK row \in disk.ledger : disk.ledger = {row}
  BY DEF Schema!Upgrade
<1>2. PICK b \in Builds : LedgerOf(b)
  BY <1>1 DEF SchemaInv, DiskWhole, Schema!Empty
<1>3. disk.ledger = {Applied(b)}
  BY <1>1, <1>2 DEF LedgerOf, Applied, Newer
<1>4. /\ disk' = [disk EXCEPT !.ledger = @ \cup {Newer}] /\ writer = None
      /\ UNCHANGED <<file, wal, writer, pc, build, tx, created, outcome>>
  BY DEF Schema!Upgrade, Newer
<1>5. disk' = [objects |-> Schema!Objects, ledger |-> {Applied(b), Newer}]
  BY <1>2, <1>3, <1>4 DEF SchemaInv, Schema!TypeOK, Schema!Database, LedgerOf
<1>6. DiskWhole' /\ disk' # Schema!Empty /\ disk # Schema!Empty
  BY <1>3, <1>5 DEF DiskWhole, LedgerOf, Schema!Empty
<1>7. Schema!TypeOK'
  <2>1. {Applied(b), Newer} \subseteq Schema!LedgerRow
    BY DEF Applied, Newer, Schema!LedgerRow
  <2>2. disk' \in Schema!Database
    BY <1>5, <2>1 DEF Schema!Database
  <2>3. QED
    BY <1>4, <2>2 DEF SchemaInv, Schema!TypeOK
<1>8. ASSUME NEW q \in Setups
      PROVE  TxSound(q)' /\ ProcessSound(q)'
  <2>1. pc[q] \notin Schema!InTransaction
    BY <1>4 DEF SchemaConstants, SchemaInv, Schema!TypeOK
  <2>2. TxSound(q) /\ ProcessSound(q)
    BY DEF SchemaInv
  <2>3. QED
    BY <1>4, <1>6, <2>1, <2>2 DEF TxSound, ProcessSound, Schema!InTransaction
<1>9. QED
  BY <1>2, <1>3, <1>4, <1>5, <1>6, <1>7, <1>8 DEF SchemaInv, LedgerOf

\* A step of a process, by what it does.
LEMMA SchemaSteps ==
  ASSUME SchemaConstants, SchemaInv, Schema!Next
  PROVE  /\ SchemaInv'
         /\ \/ disk' = disk
            \/ disk = Schema!Empty
            \/ disk.ledger \subseteq disk'.ledger /\ disk'.objects = disk.objects
         /\ Schema!OkIsThisBuild
<1> DEFINE Kept == \/ disk' = disk
                   \/ disk = Schema!Empty
                   \/ disk.ledger \subseteq disk'.ledger /\ disk'.objects = disk.objects
           Steps(p) ==
             \/ \E label \in {"connect", "open"} : Schema!Call(p, label)
             \/ Schema!Connect(p) \/ Schema!SetWal(p) \/ Schema!Begin(p)
             \/ Schema!ReadLedger(p) \/ Schema!CreateNext(p) \/ Schema!Record(p)
             \/ Schema!Verify(p) \/ Schema!Fail(p) \/ Schema!Crash(p)
<1>1. ASSUME NEW p \in Setups, Steps(p)
      PROVE  SchemaInv' /\ disk' = disk
  <2>1. disk' = disk
    BY <1>1, SchemaVerifies, SchemaCrashes
      DEF Schema!Call, Schema!Connect, Schema!SetWal, Schema!Begin, Schema!ReadLedger,
          Schema!CreateNext, Schema!Record, Schema!Fail, Schema!Rollback, Schema!shared
  <2>2. CASE Schema!Fail(p)
    BY FineOutcomes, <2>1, <2>2, SchemaEnds DEF Schema!Fail, Schema!InTransaction
  <2>3. CASE ~ Schema!Fail(p)
    BY <1>1, <2>1, <2>3, SchemaCall, SchemaBegins, SchemaReadsLedger, SchemaCreates, SchemaRecords,
       SchemaVerifies, SchemaCrashes
  <2>4. QED
    BY <2>1, <2>2, <2>3
<1>2. Schema!Upgrade \/ \E p \in Setups : Steps(p) \/ Schema!Commit(p)
  BY DEF Schema!Next, Schema!Initialize
<1>3. SchemaInv' /\ Kept
  BY <1>1, <1>2, SchemaCommits, SchemaUpgrades
<1>4. ASSUME NEW p \in Setups, pc[p] = "commit", outcome'[p] = "ok"
      PROVE  disk'.ledger = {Schema!RowOf(p)}
  <2>1. outcome[p] = "none"
    BY <1>4 DEF SchemaInv, ProcessSound
  <2>2. ASSUME NEW q \in Setups, Steps(q)
        PROVE  FALSE
    <3>1. q = p \/ outcome'[p] = outcome[p]
      BY <2>2 DEF SchemaInv, Schema!TypeOK, Schema!Call, Schema!Connect, Schema!SetWal,
         Schema!Begin, Schema!ReadLedger, Schema!CreateNext, Schema!Record, Schema!Verify,
         Schema!Open, Schema!CheckRows, Schema!CheckTables, Schema!Fail, Schema!Crash,
         Schema!Rollback, Schema!Ends
    <3>2. q = p
      BY <1>4, <2>1, <3>1
    <3>3. Schema!Fail(p) \/ Schema!Crash(p)
      BY <1>4, <2>2, <3>2 DEF Schema!Call, Schema!Connect, Schema!SetWal, Schema!Begin,
         Schema!ReadLedger, Schema!CreateNext, Schema!Record, Schema!Verify, Schema!Open,
         Schema!CheckRows, Schema!CheckTables
    <3>4. QED
      BY <1>4, <3>3 DEF SchemaInv, Schema!TypeOK, Schema!Fail, Schema!Crash, Schema!Rollback,
         Schema!Ends
  <2>3. ~ Schema!Upgrade
    BY <1>4, <2>1 DEF Schema!Upgrade
  <2>4. PICK q \in Setups : Schema!Commit(q)
    BY <1>2, <2>2, <2>3
  <2>5. q = p
    BY <1>4, <2>4 DEF Schema!Commit, SchemaInv, Schema!TypeOK, Schema!InTransaction
  <2>6. QED
    BY <2>4, <2>5, SchemaCommits
<1>5. QED
  BY <1>3, <1>4 DEF Schema!OkIsThisBuild

\* What the invariant says of the database.
LEMMA SchemaGood ==
  SchemaInv => Schema!TypeOK /\ Schema!AllOrNothing /\ Schema!NeverHalfDone
<1>1. SchemaInv => Schema!TypeOK /\ Schema!AllOrNothing
  BY DEF SchemaInv, DiskWhole, LedgerOf, Schema!AllOrNothing
<1>2. SchemaInv => Schema!NeverHalfDone
  BY Zenon DEF SchemaInv, ProcessSound, Fine, Schema!NeverHalfDone
<1>3. QED
  BY <1>1, <1>2

\* The invariant of the schema is inductive, and it bounds every step.
LEMMA SchemaInductive ==
  ASSUME SchemaConstants
  PROVE  /\ Schema!Init => SchemaInv
         /\ SchemaInv /\ [Schema!Next]_Schema!vars
              => SchemaInv' /\ [Schema!DatabaseIsWhole]_Schema!vars
<1>1. Schema!Init => SchemaInv
  <2> SUFFICES ASSUME Schema!Init
               PROVE  SchemaInv
    OBVIOUS
  <2>1. Schema!Empty \in Schema!Database /\ 0 \in 0 .. 3
    BY DEF Schema!Empty, Schema!Database
  <2>2. Schema!TypeOK
    BY FineOutcomes, <2>1, SchemaTables
      DEF SchemaConstants, Schema!Init, Schema!TypeOK, Schema!InTransaction
  <2>3. \A p \in Setups : TxSound(p) /\ ProcessSound(p)
    BY FineOutcomes DEF Schema!Init, TxSound, ProcessSound, Schema!InTransaction
  <2>4. QED
    BY <2>2, <2>3 DEF SchemaInv, DiskWhole, Schema!Init
<1>2. ASSUME SchemaInv, UNCHANGED Schema!vars
      PROVE  SchemaInv'
  BY <1>2 DEF Schema!vars, Schema!shared, SchemaInv, DiskWhole, LedgerOf, TxSound, ProcessSound,
     Schema!TypeOK, Schema!RowOf
<1>3. ASSUME SchemaInv, Schema!Next
      PROVE  Schema!DatabaseIsWhole
  <2>1. SchemaInv' /\ Schema!OkIsThisBuild
    BY <1>3, SchemaSteps
  <2>2. (Schema!TypeOK /\ Schema!AllOrNothing /\ Schema!NeverHalfDone)'
    BY <2>1, SchemaGood, PTL
  <2>3. ASSUME disk.ledger # {}
        PROVE  disk.ledger \subseteq disk'.ledger /\ disk'.objects = disk.objects
    BY <1>3, <2>3, SchemaSteps DEF Schema!Empty
  <2>4. \A row, other \in disk'.ledger : row.version = other.version => row = other
    BY <2>1 DEF SchemaInv, DiskWhole, LedgerOf, Schema!Empty, Applied, Newer
  <2>5. QED
    BY <2>1, <2>2, <2>3, <2>4 DEF Schema!DatabaseIsWhole, Schema!AppliedOnce
<1>4. QED
  BY <1>1, <1>2, <1>3, SchemaSteps

\* However many processes of however many builds set up one file, wherever each
\* of them dies or fails: the schema is there with the ledger row that names its
\* build, or nothing of it is; initialize() returns only on a database of its own
\* build; and what was applied stays as it is.
THEOREM SchemaWhole ==
  /\ Schema!Spec => /\ [](Schema!TypeOK /\ Schema!AllOrNothing /\ Schema!NeverHalfDone)
                    /\ [][Schema!DatabaseIsWhole]_Schema!vars
  /\ SurroundingsSpec => DatabaseIsWhole
<1> DEFINE Inv == part = "schema" => SchemaInv
           Whole == part = "schema" => Schema!DatabaseIsWhole
<1>1. /\ Schema!Init => SchemaInv
      /\ SchemaInv /\ [Schema!Next]_Schema!vars
           => SchemaInv' /\ [Schema!DatabaseIsWhole]_Schema!vars
  BY SchemaInductive, ConstantsAssumption
<1>2. Schema!Spec => /\ [](Schema!TypeOK /\ Schema!AllOrNothing /\ Schema!NeverHalfDone)
                     /\ [][Schema!DatabaseIsWhole]_Schema!vars
  BY <1>1, SchemaGood, PTL DEF Schema!Spec
<1>3. /\ SurroundingsInit => Inv
      /\ Inv /\ [SurroundingsNext]_allVars => Inv' /\ [Whole]_allVars
  BY <1>1, PartsBegin, PartsStep, PartsStutter
<1> HIDE DEF Inv
<1>4. SurroundingsSpec => [][Whole]_allVars
  BY <1>3, PTL DEF SurroundingsSpec
<1>5. QED
  BY <1>2, <1>4 DEF DatabaseIsWhole

-----------------------------------------------------------------------------
(* Queries of a Run *)

\* The Events of a sequence are numbered on from `start`.
Numbered(sequences, start) ==
  /\ sequences \in Seq(Nat)
  /\ \A i \in DOMAIN sequences : sequences[i] = start + i

RunTypes == history \in Seq(Artifacts \cup {None, Unparsable}) /\ committed \in 0 .. Len(history)

InspectInv ==
  /\ pc \in {"idle", "read"} /\ last \in 0 .. committed
  /\ Numbered(read, 0)
  /\ pc = "read" => last <= MAX_INSPECT_EVENTS /\ Len(read) <= last
  /\ inspected.last \in 0 .. committed
  /\ Query!InspectsOnePrefix

FollowInv ==
  /\ step \in {"idle", "page"} /\ upto \in 0 .. committed
  /\ cursor \in Nat /\ limit \in QueryLimits /\ got \in Seq(Nat)
  /\ Query!PagesFollowOn /\ Query!MoreIsTrue

QueryInv == RunTypes /\ InspectInv /\ FollowInv

\* The smaller of two numbers.
LEMMA MinOfTwo ==
  ASSUME NEW a \in Nat, NEW b \in Nat
  PROVE  /\ Query!Min({a, b}) \in {a, b}
         /\ Query!Min({a, b}) <= a /\ Query!Min({a, b}) <= b
<1>1. \E x \in {a, b} : \A y \in {a, b} : x <= y
  OBVIOUS
<1>2. QED
  BY <1>1 DEF Query!Min

\* A page of the store is numbered on from its cursor and is committed.
LEMMA PageNumbered ==
  ASSUME RunTypes, NEW start \in Nat, NEW n \in Nat
  PROVE  /\ Numbered(Query!Page(start, n), start) /\ Len(Query!Page(start, n)) <= n
         /\ Query!Page(start, n) # <<>> => start + Len(Query!Page(start, n)) <= committed
<1> DEFINE most == IF committed > start THEN committed - start ELSE 0
           size == Query!Min({n, most})
<1>1. committed \in Nat /\ most \in Nat
  BY DEF RunTypes
<1>2. size \in Nat /\ size <= n /\ size <= most
  BY <1>1, MinOfTwo
<1>3. Query!Page(start, n) = [i \in 1 .. size |-> start + i]
  BY DEF Query!Page
<1>4. size # 0 => start + size <= committed
  BY <1>1, <1>2
<1> HIDE DEF size, most
<1> DEFINE taken == [i \in 1 .. size |-> start + i]
<1>5. taken \in Seq(Nat) /\ Len(taken) = size /\ \A i \in 1 .. size : taken[i] = start + i
  BY <1>2
<1>6. QED
  BY <1>2, <1>3, <1>4, <1>5 DEF Numbered

\* Of what an adapter may make of a page, only the page itself is numbered on
\* from the cursor, or nothing.
LEMMA FaultsShow ==
  ASSUME NEW taken, NEW start \in Nat, Numbered(taken, start), NEW fault \in PageFaults,
         QueryConstants,
         \A i \in DOMAIN Query!Faulted(taken, fault) : Query!Faulted(taken, fault)[i] = start + i
  PROVE  Query!Faulted(taken, fault) \in {taken, <<>>}
<1>1. CASE fault = "none" \/ fault = "empty"
  BY <1>1 DEF Query!Faulted
<1>2. CASE fault = "hole"
  <2> DEFINE holed == [i \in DOMAIN taken |-> taken[i] + 1]
  <2>1. Query!Faulted(taken, fault) = holed
    BY <1>2 DEF Query!Faulted
  <2>2. \A i \in DOMAIN taken : i \in Nat /\ taken[i] = start + i /\ holed[i] = taken[i] + 1
    BY DEF Numbered
  <2>3. DOMAIN taken = {}
    BY <2>1, <2>2
  <2>4. taken = <<>>
    BY <2>3 DEF Numbered
  <2>5. holed = <<>>
    BY <2>4
  <2>6. QED
    BY <2>1, <2>5
<1>3. CASE fault = "long"
  <2>1. Query!Faulted(taken, fault) = taken \o taken
    BY <1>3 DEF Query!Faulted
  <2>2. ASSUME taken # <<>>
        PROVE  FALSE
    <3>1. Len(taken) \in Nat \ {0} /\ taken[1] = start + 1 /\ taken \in Seq(Nat)
      BY <2>2 DEF Numbered
    <3>2. Len(taken) + 1 \in DOMAIN (taken \o taken) /\ (taken \o taken)[Len(taken) + 1] = taken[1]
      BY <3>1
    <3>3. start + (Len(taken) + 1) = start + 1
      BY <2>1, <3>1, <3>2
    <3>4. QED
      BY <3>1, <3>3
  <2>3. QED
    BY <2>1, <2>2
<1>4. QED
  BY <1>1, <1>2, <1>3 DEF QueryConstants

\* Two sequences that are numbered on from each other.
LEMMA NumberedOn ==
  ASSUME NEW s, NEW t, Numbered(s, 0), t \in Seq(Nat),
         \A i \in DOMAIN t : t[i] = Len(s) + i
  PROVE  Numbered(s \o t, 0) /\ Len(s \o t) = Len(s) + Len(t)
<1>1. s \in Seq(Nat) /\ s \o t \in Seq(Nat) /\ Len(s \o t) = Len(s) + Len(t)
  BY DEF Numbered
<1>2. ASSUME NEW i \in 1 .. Len(s) + Len(t)
      PROVE  (s \o t)[i] = 0 + i
  <2>1. CASE i <= Len(s)
    BY <1>1, <1>2, <2>1 DEF Numbered
  <2>2. CASE i > Len(s)
    <3>1. i - Len(s) \in DOMAIN t /\ (s \o t)[i] = t[i - Len(s)]
      BY <1>1, <1>2, <2>2
    <3>2. QED
      BY <1>1, <1>2, <3>1
  <2>3. QED
    BY <1>1, <2>1, <2>2
<1>3. QED
  BY <1>1, <1>2 DEF Numbered

\* The Run goes on.
LEMMA QueryCommits ==
  ASSUME QueryConstants, QueryInv, Query!Commit
  PROVE  QueryInv'
<1>1. /\ committed \in Nat /\ committed' = committed + 1 /\ committed < Len(history)
      /\ committed \in 0 .. Len(history) /\ Len(history) \in Nat
      /\ UNCHANGED <<history, pc, last, read, inspected, step, upto, cursor, limit, got, more>>
  BY DEF Query!Commit, QueryInv, RunTypes, Query!inspection, Query!following
<1>2. RunTypes'
  BY <1>1 DEF QueryInv, RunTypes
<1>3. InspectInv'
  BY <1>1 DEF QueryInv, InspectInv, Query!InspectsOnePrefix, Numbered
<1>4. FollowInv'
  BY <1>1 DEF QueryInv, FollowInv, Query!PagesFollowOn, Query!MoreIsTrue
<1>5. QED
  BY <1>2, <1>3, <1>4 DEF QueryInv

\* A step of the client leaves the inspection alone, and one of the inspection
\* the client.
LEMMA QueryFrames ==
  /\ QueryInv /\ UNCHANGED Query!run => RunTypes'
  /\ QueryInv /\ UNCHANGED <<Query!run, Query!inspection>> => InspectInv'
  /\ QueryInv /\ UNCHANGED <<Query!run, Query!following>> => FollowInv'
<1>1. QueryInv /\ UNCHANGED Query!run => RunTypes'
  BY DEF QueryInv, RunTypes, Query!run
<1>2. QueryInv /\ UNCHANGED <<Query!run, Query!inspection>> => InspectInv'
  BY DEF QueryInv, InspectInv, Query!InspectsOnePrefix, Numbered, Query!run,
         Query!inspection
<1>3. QueryInv /\ UNCHANGED <<Query!run, Query!following>> => FollowInv'
  BY DEF QueryInv, FollowInv, Query!PagesFollowOn, Query!MoreIsTrue, Query!run, Query!following
<1>4. QED
  BY <1>1, <1>2, <1>3

\* Nothing that ends an inspection with an error is a result.
LEMMA InspectionFails ==
  ASSUME NEW why, inspected' = Query!Error(why)
  PROVE  inspected'.last = 0 /\ Query!InspectsOnePrefix'
BY DEF Query!Error, Query!Open, Query!InspectsOnePrefix

\* The projection, then the pages that follow on it.
LEMMA InspectReads ==
  ASSUME QueryConstants, QueryInv, Query!BeginInspect \/ Query!ReadPage
  PROVE  InspectInv'
<1>1. /\ history' = history /\ committed' = committed /\ committed \in Nat /\ last \in Nat
      /\ last <= committed
  BY DEF Query!BeginInspect, Query!ReadPage, Query!run, QueryInv, RunTypes, InspectInv
<1>2. CASE Query!BeginInspect
  <2>1. read' = <<>> /\ Numbered(<<>>, 0) /\ Len(<<>>) = 0
    BY <1>2 DEF Query!BeginInspect, Numbered
  <2>2. CASE inspected' = Query!Open /\ last' = committed /\ pc' = "read" /\ ~ Query!TooLong
    BY <1>1, <2>1, <2>2
      DEF QueryConstants, InspectInv, Query!Open, Query!TooLong, Query!InspectsOnePrefix, Numbered
  <2>3. ASSUME NEW why, inspected' = Query!Error(why), UNCHANGED <<pc, last>>
        PROVE  InspectInv'
    BY <1>1, <1>2, <2>1, <2>3, InspectionFails
      DEF QueryInv, InspectInv, Query!BeginInspect, Numbered
  <2>4. QED
    BY <1>2, <2>2, <2>3 DEF Query!BeginInspect
<1>3. CASE Query!ReadPage
  <2>1. PICK fault \in PageFaults :
          LET start == Len(read)
              taken == Query!Faulted(Query!Page(start, Query!PageLimit(start)), fault)
          IN  IF Query!PageFits(taken, start)
              THEN read' = read \o taken /\ UNCHANGED <<pc, inspected>>
              ELSE inspected' = Query!Error("invalid_event") /\ pc' = "idle" /\ UNCHANGED read
    BY <1>3 DEF Query!ReadPage
  <2> DEFINE taken == Query!Faulted(Query!Page(Len(read), Query!PageLimit(Len(read))), fault)
  <2>2. /\ pc = "read" /\ Len(read) \in Nat /\ Len(read) < last /\ last' = last
        /\ Numbered(read, 0) /\ last <= MAX_INSPECT_EVENTS
    BY <1>3 DEF Query!ReadPage, QueryInv, InspectInv, Numbered
  <2>3. CASE Query!PageFits(taken, Len(read))
    <3>1. read' = read \o taken /\ UNCHANGED <<pc, inspected>>
      BY <2>1, <2>3
    <3>2. taken # <<>> /\ (\A i \in DOMAIN taken : taken[i] = Len(read) + i) /\ taken[Len(taken)] <= last
      BY <2>3 DEF Query!PageFits
    <3>3. taken \in Seq(Nat)
      <4>1. Query!PageLimit(Len(read)) \in Nat
        <5>1. last - Len(read) \in Nat
          BY <1>1, <2>2
        <5>2. QED
          BY <5>1, MinOfTwo DEF Query!PageLimit, QueryConstants
      <4>2. Numbered(Query!Page(Len(read), Query!PageLimit(Len(read))), Len(read))
        BY <2>2, <4>1, PageNumbered DEF QueryInv
      <4>3. taken \in {Query!Page(Len(read), Query!PageLimit(Len(read))), <<>>}
        BY <2>2, <3>2, <4>2, FaultsShow
      <4>4. <<>> \in Seq(Nat)
        OBVIOUS
      <4>5. QED
        BY <4>2, <4>3, <4>4 DEF Numbered
    <3> HIDE DEF taken
    <3>4. Numbered(read \o taken, 0) /\ Len(read \o taken) = Len(read) + Len(taken)
      BY <2>2, <3>2, <3>3, NumberedOn
    <3>5. Len(read) + Len(taken) <= last
      <4>1. Len(taken) \in DOMAIN taken
        BY <3>2, <3>3
      <4>2. QED
        BY <3>2, <4>1
    <3>6. Numbered(read, 0)' /\ Len(read') <= last
      BY <3>1, <3>4, <3>5 DEF Numbered
    <3>7. QED
      BY <1>1, <2>2, <3>1, <3>6 DEF QueryInv, InspectInv, Query!InspectsOnePrefix
  <2>4. CASE ~ Query!PageFits(taken, Len(read))
    <3>1. inspected' = Query!Error("invalid_event") /\ pc' = "idle" /\ read' = read
      BY <2>1, <2>4
    <3>2. Numbered(read, 0)'
      BY <2>2, <3>1 DEF Numbered
    <3>3. QED
      BY <1>1, <2>2, <3>1, <3>2, InspectionFails DEF InspectInv
  <2>5. QED
    BY <2>3, <2>4
<1>4. QED
  BY <1>2, <1>3

\* The Artifacts are those of the first `last` Events.
LEMMA InspectShows ==
  ASSUME QueryConstants, QueryInv, Query!EndInspect
  PROVE  InspectInv'
<1>1. /\ history' = history /\ committed' = committed /\ pc' = "idle" /\ last' = last
      /\ read' = read /\ committed \in 0 .. Len(history)
      /\ history \in Seq(Artifacts \cup {None, Unparsable})
      /\ last \in 0 .. committed /\ Numbered(read, 0) /\ Len(read) <= last /\ Len(read) >= last
  BY DEF Query!EndInspect, Query!run, QueryInv, RunTypes, InspectInv
<1>2. Len(read) = last /\ last \in Nat /\ last <= Len(history) /\ Len(history) \in Nat
      /\ DOMAIN read = 1 .. last /\ \A i \in 1 .. last : read[i] = i
  BY <1>1 DEF Numbered
<1>3. [i \in DOMAIN read |-> history[read[i]]] = SubSeq(history, 1, last)
  <2>1. [i \in DOMAIN read |-> history[read[i]]] = [i \in 1 .. last |-> history[i]]
    BY <1>2
  <2>2. SubSeq(history, 1, last) = [i \in 1 .. last |-> history[i]]
    BY <1>1, <1>2
  <2>3. QED
    BY <2>1, <2>2
<1>4. Query!ArtifactsIn(read) = Query!Shown(SubSeq(history, 1, last))
  BY <1>3, Zenon DEF Query!ArtifactsIn
<1> DEFINE shown == [last |-> last, error |-> None, artifacts |-> Query!ArtifactsIn(read)]
<1>5. inspected' = Query!Error("invalid_event") \/ inspected' = shown
  BY DEF Query!EndInspect
<1>6. inspected'.last \in 0 .. committed /\ Query!InspectsOnePrefix'
  <2>1. CASE inspected' = Query!Error("invalid_event")
    BY <1>1, <2>1, InspectionFails
  <2>2. CASE inspected' = shown
    <3>1. inspected'.last = last /\ inspected'.artifacts = Query!ArtifactsIn(read)
      BY <2>2
    <3>2. Query!Shown(SubSeq(history, 1, last))' = Query!Shown(SubSeq(history, 1, last))
      BY <1>1
    <3>3. inspected'.artifacts = Query!Shown(SubSeq(history', 1, inspected'.last))
      BY <1>1, <1>4, <3>1
    <3>4. QED
      BY <1>1, <3>1, <3>3 DEF Query!InspectsOnePrefix
  <2>3. QED
    BY <1>5, <2>1, <2>2
<1>7. Numbered(read, 0)'
  BY <1>1 DEF Numbered
<1>8. QED
  BY <1>1, <1>6, <1>7 DEF InspectInv

\* The client asks how far the Run is.
LEMMA FollowAsks ==
  ASSUME QueryConstants, QueryInv, Query!BeginPage
  PROVE  FollowInv'
<1>1. /\ upto' = committed /\ step' = "page" /\ committed' = committed
      /\ UNCHANGED <<cursor, limit, got, more>> /\ committed \in Nat
  BY DEF Query!BeginPage, Query!run, QueryInv, RunTypes
<1>2. QED
  BY <1>1 DEF QueryInv, FollowInv, Query!PagesFollowOn, Query!MoreIsTrue

\* A page that the service passes on goes on where the client's last one ended,
\* and ends at an Event that is committed.
LEMMA FollowReads ==
  ASSUME QueryConstants, QueryInv, Query!EndPage
  PROVE  FollowInv'
<1>1. PICK fault \in PageFaults, n \in QueryLimits :
        LET taken == IF Query!QueryLimit = 0 THEN <<>>
                    ELSE Query!Faulted(Query!Page(cursor, Query!QueryLimit), fault)
            reached == IF taken = <<>> THEN cursor ELSE taken[Len(taken)]
        IN  IF Query!ValidPage(taken) /\ (Query!HasMore(taken, reached) => taken # <<>>)
            THEN /\ got' = got \o taken /\ cursor' = reached /\ limit' = n
                 /\ more' = Query!HasMore(taken, reached) /\ UNCHANGED upto
            ELSE upto' = 0 /\ UNCHANGED <<got, cursor, limit, more>>
  BY DEF Query!EndPage
<1> DEFINE taken == IF Query!QueryLimit = 0 THEN <<>>
                   ELSE Query!Faulted(Query!Page(cursor, Query!QueryLimit), fault)
           reached == IF taken = <<>> THEN cursor ELSE taken[Len(taken)]
<1>2. /\ step' = "idle" /\ committed' = committed /\ committed \in Nat /\ cursor \in Nat
      /\ upto \in 0 .. committed /\ got \in Seq(Nat) /\ limit \in Nat
      /\ (\A i \in DOMAIN got : got[i] = cursor - Len(got) + i)
      /\ (got # <<>> => cursor <= committed)
  BY DEF Query!EndPage, Query!run, QueryInv, RunTypes, FollowInv, Query!PagesFollowOn,
         QueryConstants
<1>3. CASE Query!ValidPage(taken) /\ (Query!HasMore(taken, reached) => taken # <<>>)
  <2>1. /\ got' = got \o taken /\ cursor' = reached /\ limit' = n
        /\ more' = Query!HasMore(taken, reached) /\ upto' = upto
    BY <1>1, <1>3
  <2>2. taken \in Seq(Nat) /\ (taken # <<>> => cursor + Len(taken) <= committed)
    <3>1. Query!QueryLimit \in Nat
      <4>1. (IF upto > cursor THEN upto - cursor ELSE 0) \in Nat
        BY <1>2
      <4>2. QED
        BY <1>2, <4>1, MinOfTwo DEF Query!QueryLimit
    <3>2. /\ Numbered(Query!Page(cursor, Query!QueryLimit), cursor)
          /\ Query!Page(cursor, Query!QueryLimit) # <<>>
               => cursor + Len(Query!Page(cursor, Query!QueryLimit)) <= committed
      BY <1>2, <3>1, PageNumbered DEF QueryInv
    <3>3. taken \in {Query!Page(cursor, Query!QueryLimit), <<>>}
      <4>1. \A i \in DOMAIN taken : taken[i] = cursor + i
        BY <1>3 DEF Query!ValidPage
      <4>2. QED
        BY <1>2, <3>2, <4>1, FaultsShow
    <3>4. <<>> \in Seq(Nat)
      OBVIOUS
    <3>5. QED
      BY <3>2, <3>3, <3>4 DEF Numbered
  <2>3. \A i \in DOMAIN taken : taken[i] = cursor + i
    BY <1>3 DEF Query!ValidPage
  <2>4. reached = cursor + Len(taken)
    <3>1. CASE taken = <<>>
      BY <1>2, <3>1
    <3>2. CASE taken # <<>>
      <4>1. Len(taken) \in DOMAIN taken
        BY <2>2, <3>2
      <4>2. QED
        BY <2>3, <3>2, <4>1
    <3>3. QED
      BY <3>1, <3>2
  <2>5. more' <=> cursor' < upto'
    BY <2>1 DEF Query!HasMore
  <2> HIDE DEF taken, reached
  <2>6. got' \in Seq(Nat) /\ Len(got') = Len(got) + Len(taken) /\ cursor' = cursor + Len(taken)
        /\ Len(got) \in Nat /\ Len(taken) \in Nat
    BY <1>2, <2>1, <2>2, <2>4
  <2>7. ASSUME NEW i \in DOMAIN got'
        PROVE  got'[i] = cursor' - Len(got') + i
    <3>1. i \in 1 .. Len(got) + Len(taken)
      BY <2>6
    <3>2. CASE i <= Len(got)
      <4>1. i \in DOMAIN got /\ got'[i] = got[i]
        BY <1>2, <2>1, <2>2, <3>1, <3>2
      <4>2. got[i] = cursor - Len(got) + i
        BY <1>2, <4>1
      <4>3. cursor - Len(got) + i = cursor' - Len(got') + i
        BY <1>2, <2>6, <3>1
      <4>4. QED
        BY <4>1, <4>2, <4>3
    <3>3. CASE i > Len(got)
      <4>1. i - Len(got) \in DOMAIN taken /\ got'[i] = taken[i - Len(got)]
        BY <1>2, <2>1, <2>2, <2>6, <3>1, <3>3
      <4>2. got'[i] = cursor + (i - Len(got))
        BY <2>3, <4>1
      <4>3. cursor + (i - Len(got)) = cursor' - Len(got') + i
        BY <1>2, <2>6, <3>1
      <4>4. QED
        BY <4>2, <4>3
    <3>4. QED
      BY <2>6, <3>1, <3>2, <3>3
  <2>8. got' # <<>> => cursor' <= committed
    <3>1. CASE taken = <<>>
      BY <1>2, <2>1, <2>2, <2>6, <3>1
    <3>2. CASE taken # <<>>
      BY <2>2, <2>6, <3>2
    <3>3. QED
      BY <3>1, <3>2
  <2>9. QED
    BY <1>2, <2>1, <2>5, <2>6, <2>7, <2>8 DEF FollowInv, Query!PagesFollowOn, Query!MoreIsTrue
<1>4. CASE ~ (Query!ValidPage(taken) /\ (Query!HasMore(taken, reached) => taken # <<>>))
  <2>1. upto' = 0 /\ UNCHANGED <<got, cursor, limit, more>>
    BY <1>1, <1>4
  <2>2. QED
    BY <1>2, <2>1 DEF QueryInv, FollowInv, Query!PagesFollowOn, Query!MoreIsTrue
<1>5. QED
  BY <1>3, <1>4

\* The invariant of the queries is inductive.
LEMMA QueryInductive ==
  ASSUME QueryConstants
  PROVE  /\ Query!Init => QueryInv
         /\ QueryInv /\ [Query!Next]_Query!vars => QueryInv'
<1>1. Query!Init => QueryInv
  <2> SUFFICES ASSUME Query!Init
               PROVE  QueryInv
    OBVIOUS
  <2> USE DEF QueryConstants, Query!Init
  <2>1. RunTypes
    BY DEF RunTypes
  <2>2. InspectInv
    BY DEF InspectInv, Numbered, Query!Open, Query!InspectsOnePrefix
  <2>3. FollowInv
    BY DEF FollowInv, Query!PagesFollowOn, Query!MoreIsTrue
  <2>4. QED
    BY <2>1, <2>2, <2>3 DEF QueryInv
<1>2. ASSUME QueryInv, Query!Inspect
      PROVE  QueryInv'
  <2>1. UNCHANGED <<Query!run, Query!following>>
    BY <1>2 DEF Query!Inspect, Query!BeginInspect, Query!ReadPage, Query!EndInspect
  <2>2. InspectInv'
    BY <1>2, InspectReads, InspectShows DEF Query!Inspect
  <2>3. QED
    BY <1>2, <2>1, <2>2, QueryFrames DEF QueryInv
<1>3. ASSUME QueryInv, Query!Follow
      PROVE  QueryInv'
  <2>1. UNCHANGED <<Query!run, Query!inspection>>
    BY <1>3 DEF Query!Follow, Query!BeginPage, Query!EndPage
  <2>2. FollowInv'
    BY <1>3, FollowAsks, FollowReads DEF Query!Follow
  <2>3. QED
    BY <1>3, <2>1, <2>2, QueryFrames DEF QueryInv
<1>4. ASSUME QueryInv, UNCHANGED Query!vars
      PROVE  QueryInv'
  BY <1>4, QueryFrames DEF Query!vars, QueryInv
<1>5. QED
  BY <1>1, <1>2, <1>3, <1>4, QueryCommits DEF Query!Next

\* Whatever the Run commits between the reads, and whatever the store makes of
\* its pages: an inspection shows the Artifacts of one prefix of the Run, the
\* pages that a client follows go on from each other and are committed, and
\* that there is more is said when there is.
THEOREM QueriesConsistent ==
  /\ Query!Spec => []Query!InspectionIsOnePrefix
  /\ SurroundingsSpec => []InspectionIsOnePrefix
<1> DEFINE Inv == part = "query" => QueryInv
<1>1. /\ Query!Init => QueryInv
      /\ QueryInv /\ [Query!Next]_Query!vars => QueryInv'
  BY QueryInductive, ConstantsAssumption
<1>2. QueryInv => Query!InspectionIsOnePrefix
  BY DEF QueryInv, RunTypes, InspectInv, FollowInv, Query!InspectionIsOnePrefix, Query!TypeOK
<1>3. Query!Spec => []Query!InspectionIsOnePrefix
  BY <1>1, <1>2, PTL DEF Query!Spec
<1>4. /\ SurroundingsInit => Inv
      /\ Inv /\ [SurroundingsNext]_allVars => Inv'
      /\ Inv => InspectionIsOnePrefix
  BY <1>1, <1>2, PartsBegin, PartsStep DEF InspectionIsOnePrefix
<1> HIDE DEF Inv
<1>5. SurroundingsSpec => []InspectionIsOnePrefix
  BY <1>4, PTL DEF SurroundingsSpec
<1>6. QED
  BY <1>3, <1>5

-----------------------------------------------------------------------------
(* The local files: init *)

\* What a process has found or made ordinary, and what it created itself.
SetupSound(p) ==
  /\ pc[p] = "mkdir" => at[p] = 1 /\ outcome[p] = "none"
  /\ pc[p] \in {"create", "write"} =>
       /\ directory = "ordinary"
       /\ \A i \in DOMAIN Setup!Templates : i < at[p] => file[Setup!Templates[i]] \in Setup!Ordinary
  /\ \A f \in created[p] : creator[f] = p /\ file[f] \in {"template", "user"}
  /\ outcome[p] = "ok" => /\ directory = "ordinary"
                          /\ \A f \in Setup!Paths : file[f] \in Setup!Ordinary

SetupInv == Setup!TypeOK /\ \A p \in Creators : SetupSound(p)

\* A file of the templates, and a template that is no other's.
LEMMA TemplatePaths ==
  /\ Len(Setup!Templates) = 3 /\ DOMAIN Setup!Templates = 1 .. 3
  /\ Setup!Paths = {Setup!Templates[i] : i \in 1 .. 3}
BY DEF Setup!Templates, Setup!Paths

\* What was ordinary stays so, and what a process made stays its own.
Grows ==
  /\ directory = "ordinary" => directory' = "ordinary"
  /\ \A f \in Setup!Paths :
       /\ file[f] \in Setup!Ordinary => file'[f] \in Setup!Ordinary
       /\ file[f] \in {"template", "user"} => /\ file'[f] \in {"template", "user"}
                                              /\ creator'[f] = creator[f]

\* The step of another keeps what is sound of a process.
LEMMA SetupKeeps ==
  ASSUME SetupInv, Grows, NEW p \in Creators,
         pc'[p] = pc[p], at'[p] = at[p], created'[p] = created[p], outcome'[p] = outcome[p]
  PROVE  SetupSound(p)'
<1>1. /\ SetupSound(p) /\ created[p] \subseteq Setup!Paths
      /\ \A i \in DOMAIN Setup!Templates : Setup!Templates[i] \in Setup!Paths
  BY DEF SetupInv, Setup!TypeOK, Setup!Paths
<1>2. QED
  BY <1>1 DEF SetupSound, Grows

\* The next template, or the return, once this one is ordinary.
LEMMA SetupAdvances ==
  ASSUME SetupConstants, SetupInv, Grows, NEW p \in Creators, Setup!Advance(p),
         pc[p] \in {"create", "write"}, file'[Setup!Templates[at[p]]] \in Setup!Ordinary,
         \A f \in created'[p] : creator'[f] = p /\ file'[f] \in {"template", "user"}
  PROVE  SetupSound(p)'
<1>1. /\ directory' = "ordinary" /\ at[p] \in 1 .. 3
      /\ \A i \in 1 .. 3 : i <= at[p] => file'[Setup!Templates[i]] \in Setup!Ordinary
  <2>1. /\ directory = "ordinary" /\ at[p] \in 1 .. 3
        /\ \A i \in 1 .. 3 : i < at[p] => file[Setup!Templates[i]] \in Setup!Ordinary
    BY TemplatePaths DEF SetupInv, SetupSound, Setup!TypeOK
  <2>2. \A i \in 1 .. 3 : Setup!Templates[i] \in Setup!Paths
    BY TemplatePaths
  <2>3. \A i \in 1 .. 3 : i < at[p] => file'[Setup!Templates[i]] \in Setup!Ordinary
    BY <2>1, <2>2 DEF Grows
  <2>4. \A i \in 1 .. 3 : i <= at[p] => i < at[p] \/ i = at[p]
    BY <2>1
  <2>5. QED
    BY <2>1, <2>3, <2>4 DEF Grows
<1>2. CASE at[p] = 3
  <2>1. pc'[p] = "idle" /\ outcome'[p] = "ok" /\ at' = at
    BY <1>2, TemplatePaths
      DEF Setup!Advance, Setup!Ends, Setup!Goto, SetupInv, Setup!TypeOK
  <2>2. \A f \in Setup!Paths : file'[f] \in Setup!Ordinary
    <3>1. \A i \in 1 .. 3 : i <= at[p]
      BY <1>2
    <3>2. \A i \in 1 .. 3 : file'[Setup!Templates[i]] \in Setup!Ordinary
      BY <1>1, <3>1
    <3>3. QED
      BY <3>2, TemplatePaths
  <2>3. QED
    BY <1>1, <2>1, <2>2 DEF SetupSound
<1>3. CASE at[p] # 3
  <2>1. pc'[p] = "create" /\ outcome'[p] = outcome[p] /\ at'[p] = at[p] + 1
    BY <1>3, TemplatePaths
      DEF Setup!Advance, Setup!Goto, SetupInv, Setup!TypeOK
  <2>2. \A i \in 1 .. 3 : i < at'[p] => i <= at[p]
    BY <1>1, <2>1
  <2>3. outcome'[p] = "ok" => \A f \in Setup!Paths : file'[f] \in Setup!Ordinary
    <3>1. SetupSound(p)
      BY DEF SetupInv
    <3>2. QED
      BY <2>1, <3>1 DEF SetupSound, Grows
  <2>4. \A i \in 1 .. 3 : i < at'[p] => file'[Setup!Templates[i]] \in Setup!Ordinary
    BY <1>1, <2>2
  <2>5. QED
    BY <1>1, <2>1, <2>3, <2>4, TemplatePaths DEF SetupSound
<1>4. QED
  BY <1>2, <1>3

\* What a process's step does to the files and to the others.
LEMMA SetupStepTyped ==
  ASSUME SetupConstants, SetupInv, NEW p \in Creators,
         Setup!Setup(p) \/ Setup!WriteFails(p) \/ Setup!OpenFails(p) \/ Setup!Crash(p)
  PROVE  /\ Setup!TypeOK' /\ Grows /\ Setup!OverwritesNothing
         /\ \A q \in Creators \ {p} :
              /\ pc'[q] = pc[q] /\ at'[q] = at[q]
              /\ created'[q] = created[q] /\ outcome'[q] = outcome[q]
<1> DEFINE Others == \A q \in Creators \ {p} :
                       /\ pc'[q] = pc[q] /\ at'[q] = at[q]
                       /\ created'[q] = created[q] /\ outcome'[q] = outcome[q]
           f == Setup!Templates[at[p]]
<1>1. /\ f \in Setup!Paths /\ at[p] \in 1 .. 3 /\ (at[p] # 3 => at[p] + 1 \in 1 .. 3)
      /\ 1 \in 1 .. 3 /\ Setup!TypeOK
  BY TemplatePaths DEF SetupInv, Setup!TypeOK
<1> HIDE DEF f
<1>2. CASE Setup!Start(p)
  BY <1>1, <1>2, TemplatePaths
    DEF Setup!Start, Setup!Goto, Setup!TypeOK, Grows, Setup!OverwritesNothing
<1>3. CASE Setup!MakeDirectory(p)
  BY <1>1, <1>3
    DEF Setup!MakeDirectory, Setup!Ends, Setup!Goto, Setup!TypeOK, Grows, Setup!OverwritesNothing
<1>4. CASE Setup!WriteFails(p) \/ Setup!OpenFails(p) \/ Setup!Crash(p)
  BY <1>1, <1>4
    DEF Setup!WriteFails, Setup!OpenFails, Setup!Crash, Setup!Ends, Setup!Goto, Setup!TypeOK,
        Grows, Setup!OverwritesNothing
<1>5. CASE Setup!Create(p)
  <2>1. CASE directory = "ordinary" /\ file[f] = "absent"
    <3>1. /\ file' = [file EXCEPT ![f] = "partial"] /\ creator' = [creator EXCEPT ![f] = p]
          /\ pc' = [pc EXCEPT ![p] = "write"] /\ UNCHANGED <<at, outcome, directory, created>>
      BY <1>5, <2>1 DEF Setup!Create, Setup!Exclusive, Setup!Goto, f
    <3>2. ASSUME NEW q \in Creators, pc'[q] = "write"
          PROVE  file'[Setup!Templates[at'[q]]] = "partial" /\ creator'[Setup!Templates[at'[q]]] = q
      <4>1. CASE q = p
        BY <1>1, <3>1, <4>1 DEF Setup!TypeOK, f
      <4>2. CASE q # p
        <5>1. pc[q] = "write" /\ file[Setup!Templates[at[q]]] = "partial"
          BY <1>1, <3>1, <3>2, <4>2 DEF Setup!TypeOK
        <5>2. Setup!Templates[at[q]] # f
          BY <2>1, <5>1
        <5>3. QED
          BY <1>1, <3>1, <4>2, <5>1, <5>2 DEF Setup!TypeOK
      <4>3. QED
        BY <4>1, <4>2
    <3>3. Setup!TypeOK'
      BY <1>1, <3>1, <3>2 DEF Setup!TypeOK, Setup!Ordinary
    <3>4. Grows /\ Setup!OverwritesNothing
      BY <1>1, <2>1, <3>1 DEF Grows, Setup!OverwritesNothing, Setup!Ordinary, Setup!TypeOK
    <3>5. QED
      BY <1>1, <3>1, <3>3, <3>4 DEF Setup!TypeOK
  <2>2. CASE ~ (directory = "ordinary" /\ file[f] = "absent")
    <3>1. /\ UNCHANGED <<file, creator, directory, created>> /\ pc[p] = "create"
          /\ Setup!Advance(p) \/ Setup!Ends(p, "error")
      BY <1>5, <2>2 DEF Setup!Create, Setup!Exclusive, f
    <3>2. Setup!TypeOK' /\ Others
      BY <1>1, <3>1, TemplatePaths DEF Setup!Advance, Setup!Ends, Setup!Goto, Setup!TypeOK
    <3>3. QED
      BY <3>1, <3>2 DEF Grows, Setup!OverwritesNothing
  <2>3. QED
    BY <2>1, <2>2
<1>6. CASE Setup!Write(p)
  <2>1. /\ file' = [file EXCEPT ![f] = "template"] /\ created' = [created EXCEPT ![p] = @ \cup {f}]
        /\ Setup!Advance(p) /\ pc[p] = "write" /\ UNCHANGED <<directory, creator>>
        /\ file[f] = "partial" /\ creator[f] = p
    BY <1>1, <1>6 DEF Setup!Write, f, Setup!TypeOK
  <2>2. /\ Others /\ pc'[p] # "write" /\ at' \in [Creators -> 1 .. 3]
        /\ pc' \in [Creators -> {"idle", "mkdir", "create", "write"}]
        /\ outcome' \in [Creators -> {"none", "ok", "error"}]
    BY <1>1, <2>1, TemplatePaths DEF Setup!Advance, Setup!Ends, Setup!Goto, Setup!TypeOK
  <2>3. ASSUME NEW q \in Creators, pc'[q] = "write"
        PROVE  file'[Setup!Templates[at'[q]]] = "partial" /\ creator'[Setup!Templates[at'[q]]] = q
    <3>1. q # p /\ pc[q] = "write" /\ at'[q] = at[q]
      BY <2>2, <2>3
    <3>2. file[Setup!Templates[at[q]]] = "partial" /\ creator[Setup!Templates[at[q]]] = q
      BY <1>1, <3>1 DEF Setup!TypeOK
    <3>3. Setup!Templates[at[q]] # f
      BY <2>1, <3>1, <3>2
    <3>4. QED
      BY <1>1, <2>1, <3>1, <3>2, <3>3 DEF Setup!TypeOK
  <2>4. Setup!TypeOK'
    <3>1. /\ file' \in [Setup!Paths -> Setup!Ordinary \cup {"absent", "other"}]
          /\ created' \in [Creators -> SUBSET Setup!Paths]
      BY <1>1, <2>1 DEF Setup!TypeOK, Setup!Ordinary
    <3>2. QED
      BY <1>1, <2>1, <2>2, <2>3, <3>1, TemplatePaths DEF Setup!TypeOK
  <2>5. Grows /\ Setup!OverwritesNothing
    BY <1>1, <2>1 DEF Grows, Setup!OverwritesNothing, Setup!Ordinary, Setup!TypeOK
  <2>6. QED
    BY <2>2, <2>4, <2>5
<1>7. QED
  BY <1>2, <1>3, <1>4, <1>5, <1>6 DEF Setup!Setup

\* A process's step keeps what is sound of it.
LEMMA SetupStepSound ==
  ASSUME SetupConstants, SetupInv, NEW p \in Creators,
         Setup!Setup(p) \/ Setup!WriteFails(p) \/ Setup!OpenFails(p) \/ Setup!Crash(p)
  PROVE  SetupSound(p)'
<1> DEFINE f == Setup!Templates[at[p]]
<1>1. /\ Grows /\ Setup!TypeOK /\ f \in Setup!Paths /\ SetupSound(p) /\ at[p] \in 1 .. 3
      /\ created[p] \subseteq Setup!Paths
      /\ \A i \in 1 .. 3 : Setup!Templates[i] \in Setup!Paths
  <2>1. Grows /\ Setup!TypeOK /\ SetupSound(p)
    BY SetupStepTyped DEF SetupInv
  <2>2. at[p] \in 1 .. 3 /\ created[p] \subseteq Setup!Paths
    BY <2>1, TemplatePaths DEF Setup!TypeOK
  <2>3. \A i \in 1 .. 3 : Setup!Templates[i] \in Setup!Paths
    BY TemplatePaths
  <2>4. QED
    BY <2>1, <2>2, <2>3
<1> HIDE DEF f
<1>2. created'[p] = created[p]
        => \A g \in created'[p] : creator'[g] = p /\ file'[g] \in {"template", "user"}
  BY <1>1 DEF SetupSound, Grows
<1>3. CASE Setup!Start(p)
  BY <1>1, <1>3 DEF Setup!Start, Setup!Goto, SetupSound, Setup!TypeOK
<1>4. CASE Setup!MakeDirectory(p)
  <2>1. created' = created /\ at' = at
    BY <1>4 DEF Setup!MakeDirectory, Setup!Ends
  <2>2. CASE directory = "other"
    <3>1. pc'[p] = "idle" /\ outcome'[p] = "error"
      BY <1>1, <1>4, <2>2 DEF Setup!MakeDirectory, Setup!Ends, Setup!Goto, Setup!TypeOK
    <3>2. QED
      BY <1>2, <2>1, <3>1 DEF SetupSound
  <2>3. CASE directory # "other"
    <3>1. directory' = "ordinary" /\ outcome' = outcome
      BY <1>1, <1>4, <2>3 DEF Setup!MakeDirectory, Setup!TypeOK
    <3>2. pc'[p] = "create" /\ outcome[p] = "none" /\ at[p] = 1
      BY <1>1, <1>4, <2>3 DEF Setup!MakeDirectory, Setup!Goto, Setup!TypeOK, SetupSound
    <3>3. QED
      BY <1>1, <1>2, <2>1, <3>1, <3>2, TemplatePaths DEF SetupSound
  <2>4. QED
    BY <2>2, <2>3
<1>5. ASSUME pc'[p] = "idle", outcome'[p] # "ok" \/ outcome'[p] = outcome[p],
             created'[p] = created[p]
      PROVE  SetupSound(p)'
  BY <1>1, <1>2, <1>5 DEF SetupSound, Grows
<1>6. CASE Setup!WriteFails(p) \/ Setup!OpenFails(p) \/ Setup!Crash(p)
  BY <1>1, <1>5, <1>6
    DEF Setup!WriteFails, Setup!OpenFails, Setup!Crash, Setup!Ends, Setup!Goto, Setup!TypeOK
<1>7. CASE Setup!Create(p)
  <2>1. pc[p] = "create" /\ created' = created /\ directory' = directory
    BY <1>7 DEF Setup!Create
  <2>2. CASE directory = "ordinary" /\ file[f] = "absent"
    <3>1. pc'[p] = "write" /\ at'[p] = at[p] /\ outcome'[p] = outcome[p]
      BY <1>1, <1>7, <2>2 DEF Setup!Create, Setup!Exclusive, Setup!Goto, Setup!TypeOK, f
    <3>2. QED
      BY <1>1, <1>2, <2>1, <3>1, TemplatePaths DEF SetupSound, Grows
  <2>3. CASE ~ (directory = "ordinary" /\ file[f] = "absent")
    <3>1. \/ Setup!Ends(p, "error")
          \/ Setup!Advance(p) /\ file[f] \in Setup!Ordinary
      BY <1>7, <2>3 DEF Setup!Create, Setup!Exclusive, Setup!KeepsExisting, f
    <3>2. CASE Setup!Ends(p, "error")
      BY <1>1, <1>5, <2>1, <3>2 DEF Setup!Ends, Setup!Goto, Setup!TypeOK
    <3>3. CASE Setup!Advance(p) /\ file[f] \in Setup!Ordinary
      <4>1. file'[Setup!Templates[at[p]]] \in Setup!Ordinary
        BY <1>1, <3>3 DEF Grows, f
      <4>2. QED
        BY <1>1, <1>2, <2>1, <3>3, <4>1, SetupAdvances
    <3>4. QED
      BY <3>1, <3>2, <3>3
  <2>4. QED
    BY <2>2, <2>3
<1>8. CASE Setup!Write(p)
  <2>1. /\ file' = [file EXCEPT ![f] = "template"] /\ created' = [created EXCEPT ![p] = @ \cup {f}]
        /\ Setup!Advance(p) /\ pc[p] = "write" /\ UNCHANGED <<directory, creator>>
        /\ creator[f] = p
    BY <1>1, <1>8 DEF Setup!Write, f, Setup!TypeOK
  <2>2. file'[f] = "template" /\ created'[p] = created[p] \cup {f}
    BY <1>1, <2>1 DEF Setup!TypeOK
  <2>3. \A g \in created'[p] : creator'[g] = p /\ file'[g] \in {"template", "user"}
    BY <1>1, <2>1, <2>2 DEF SetupSound, Grows
  <2>4. file'[Setup!Templates[at[p]]] \in Setup!Ordinary
    BY <2>2 DEF f, Setup!Ordinary
  <2>5. QED
    BY <1>1, <2>1, <2>3, <2>4, SetupAdvances
<1>9. QED
  BY <1>3, <1>4, <1>6, <1>7, <1>8 DEF Setup!Setup

\* The user's own steps.
LEMMA UserSteps ==
  ASSUME SetupConstants, SetupInv,
         Setup!UserLinks \/ \E f \in Setup!Paths : Setup!UserEdits(f)
  PROVE  /\ Setup!TypeOK' /\ Grows /\ Setup!OverwritesNothing
         /\ UNCHANGED <<pc, at, created, outcome>>
<1>1. CASE Setup!UserLinks
  BY <1>1 DEF Setup!UserLinks, SetupInv, Setup!TypeOK, Grows, Setup!OverwritesNothing
<1>2. ASSUME NEW f \in Setup!Paths, Setup!UserEdits(f)
      PROVE  /\ Setup!TypeOK' /\ Grows /\ Setup!OverwritesNothing
             /\ UNCHANGED <<pc, at, created, outcome>>
  <2>1. PICK what \in {"user", "other"} :
          /\ file' = [file EXCEPT ![f] = what] /\ (what = "other" => file[f] = "absent")
          /\ UNCHANGED <<directory, creator, pc, at, created, outcome>>
    BY <1>2 DEF Setup!UserEdits
  <2>2. \A p \in Creators : pc[p] = "write" => Setup!Templates[at[p]] # f
    BY <1>2 DEF Setup!UserEdits, Setup!Untouched
  <2>3. Setup!TypeOK'
    BY <1>2, <2>1, <2>2 DEF SetupInv, Setup!TypeOK, Setup!Ordinary
  <2>4. Grows /\ Setup!OverwritesNothing
    BY <1>2, <2>1
      DEF Setup!UserEdits, SetupInv, Setup!TypeOK, Grows, Setup!OverwritesNothing, Setup!Ordinary
  <2>5. QED
    BY <2>1, <2>3, <2>4
<1>3. QED
  BY <1>1, <1>2

\* The invariant of init is inductive, and no step replaces a file.
LEMMA SetupInductive ==
  ASSUME SetupConstants
  PROVE  /\ Setup!Init => SetupInv
         /\ SetupInv /\ [Setup!Next]_Setup!vars
              => SetupInv' /\ [Setup!OverwritesNothing]_Setup!vars
<1>1. Setup!Init => SetupInv
  BY TemplatePaths DEF Setup!Init, SetupInv, Setup!TypeOK, SetupSound
<1>2. ASSUME SetupInv, NEW p \in Creators,
             Setup!Setup(p) \/ Setup!WriteFails(p) \/ Setup!OpenFails(p) \/ Setup!Crash(p)
      PROVE  SetupInv' /\ Setup!OverwritesNothing
  <2>1. \A q \in Creators \ {p} : SetupSound(q)'
    BY <1>2, SetupStepTyped, SetupKeeps
  <2>2. QED
    BY <1>2, <2>1, SetupStepTyped, SetupStepSound DEF SetupInv
<1>3. ASSUME SetupInv, Setup!UserLinks \/ \E f \in Setup!Paths : Setup!UserEdits(f)
      PROVE  SetupInv' /\ Setup!OverwritesNothing
  <2>1. \A q \in Creators : SetupSound(q)'
    BY <1>3, UserSteps, SetupKeeps
  <2>2. QED
    BY <1>3, <2>1, UserSteps DEF SetupInv
<1>4. ASSUME SetupInv, UNCHANGED Setup!vars
      PROVE  SetupInv'
  <2>1. UNCHANGED <<directory, file, creator, pc, at, created, outcome>>
    BY <1>4 DEF Setup!vars
  <2>2. Setup!TypeOK'
    BY <1>4, <2>1 DEF SetupInv, Setup!TypeOK
  <2>3. \A p \in Creators : SetupSound(p)'
    BY <1>4, <2>1 DEF SetupInv, SetupSound
  <2>4. QED
    BY <2>2, <2>3 DEF SetupInv
<1>5. QED
  BY <1>1, <1>2, <1>3, <1>4 DEF Setup!Next

\* However many processes run init, beside a user who makes and edits files, and
\* wherever each of them dies or fails: nothing is replaced, what is reported as
\* created is the process's own and whole, and init returns only when every path
\* is an ordinary file.
THEOREM SetupWhole ==
  Setup!Spec => /\ [](Setup!TypeOK /\ Setup!ReportedIsComplete /\ Setup!OkMeansOrdinary)
                /\ [][Setup!ConfigurationIsWhole]_Setup!vars
<1> DEFINE Good == Setup!TypeOK /\ Setup!ReportedIsComplete /\ Setup!OkMeansOrdinary
<1>1. SetupInv => Good
  BY DEF SetupInv, SetupSound, Setup!ReportedIsComplete, Setup!OkMeansOrdinary
<1>2. Good' /\ [Setup!OverwritesNothing]_Setup!vars => [Setup!ConfigurationIsWhole]_Setup!vars
  BY DEF Setup!ConfigurationIsWhole
<1> HIDE DEF Good
<1>3. /\ Setup!Init => SetupInv
      /\ SetupInv /\ [Setup!Next]_Setup!vars
           => SetupInv' /\ [Setup!OverwritesNothing]_Setup!vars
  BY SetupInductive, ConstantsAssumption
<1>4. Setup!Spec => []Good /\ [][Setup!ConfigurationIsWhole]_Setup!vars
  BY <1>1, <1>2, <1>3, PTL DEF Setup!Spec
<1>5. QED
  BY <1>4 DEF Good

-----------------------------------------------------------------------------
(* The local files: what a command loads *)

StartTypes ==
  /\ name \in [Start!Paths -> [kind : Start!Kinds, inode : Inodes]]
  /\ content \in [Inodes -> [value : Start!Values, stamp : Nat]]
  /\ changes \in Nat
  /\ file \in Start!Files
  /\ pc \in {"start", "look", "open", "read", "configure", "database", "end"}
  /\ \A i \in Inodes : content[i].stamp <= changes

\* While the stamp of the open file is the one it was opened with, what was
\* read of it is what it holds.
ReadSoFar ==
  pc = "read" =>
    /\ opened.inode \in Inodes /\ opened.stamp \in Nat /\ opened.stamp <= changes
    /\ got \in Seq(Start!Values)
    /\ content[opened.inode].stamp = opened.stamp =>
         \A i \in DOMAIN got : got[i] = content[opened.inode].value

\* The store is opened last.
StoreLast ==
  /\ created => pc = "end"
  /\ created /\ command = "run" => result # "invalid"
  /\ command = "run" /\ (pc = "database" \/ created) => Start!Selected

StartInv == StartTypes /\ ReadSoFar /\ Start!LoadedIsOneVersion /\ StoreLast

\* The user changes the files, whose stamps move with it.
LEMMA UserChanges ==
  ASSUME StartConstants, StartInv, Start!Save \/ Start!Replace
  PROVE  StartInv'
<1>1. /\ changes' = changes + 1 /\ changes \in Nat
      /\ UNCHANGED <<command, pc, file, opened, got, loaded, result, created>>
  BY DEF Start!Save, Start!Replace, Start!Changes, Start!read, StartInv, StartTypes
<1>2. /\ name' \in [Start!Paths -> [kind : Start!Kinds, inode : Inodes]]
      /\ content' \in [Inodes -> [value : Start!Values, stamp : Nat]]
      /\ \A i \in Inodes : \/ content'[i] = content[i]
                           \/ content'[i].stamp = changes + 1
  <2>1. CASE Start!Replace
    BY <2>1 DEF Start!Replace, StartInv, StartTypes
  <2>2. ASSUME NEW i \in Inodes, NEW v \in Start!Values, name' = name,
               content' = [content EXCEPT ![i] = [value |-> v, stamp |-> changes + 1]]
        PROVE  /\ content' \in [Inodes -> [value : Start!Values, stamp : Nat]]
               /\ \A j \in Inodes : \/ content'[j] = content[j]
                                    \/ content'[j].stamp = changes + 1
    BY <1>1, <2>2 DEF StartInv, StartTypes
  <2>3. CASE Start!Save
    BY <2>2, <2>3 DEF Start!Save, StartInv, StartTypes
  <2>4. QED
    BY <2>1, <2>3
<1>3. StartTypes'
  BY <1>1, <1>2 DEF StartInv, StartTypes
<1>4. ReadSoFar'
  <2>1. SUFFICES ASSUME pc = "read"
                 PROVE  ReadSoFar'
    BY <1>1 DEF ReadSoFar
  <2>2. /\ opened.inode \in Inodes /\ opened.stamp \in Nat /\ opened.stamp <= changes
        /\ got \in Seq(Start!Values)
        /\ content[opened.inode].stamp = opened.stamp =>
             \A i \in DOMAIN got : got[i] = content[opened.inode].value
    BY <2>1 DEF StartInv, ReadSoFar
  <2>3. \/ content'[opened.inode] = content[opened.inode]
        \/ content'[opened.inode].stamp # opened.stamp
    BY <1>1, <1>2, <2>2
  <2>4. opened.stamp <= changes'
    BY <1>1, <2>2
  <2>5. QED
    BY <1>1, <2>2, <2>3, <2>4 DEF ReadSoFar
<1>5. QED
  BY <1>1, <1>3, <1>4
    DEF StartInv, StoreLast, Start!LoadedIsOneVersion, Start!Selected

\* Reading one file: only a piece that was read with the stamp of the open, and
\* found with it after the last one, is loaded.
LEMMA FileReads ==
  ASSUME StartConstants, StartInv,
         Start!Look \/ Start!Open \/ Start!ReadPiece \/ Start!Check
  PROVE  StartInv'
<1> USE DEF StartInv
<1>1. /\ UNCHANGED <<name, content, changes, command, created>>
      /\ pc \in {"look", "open", "read"} /\ ~ created
  BY DEF Start!Look, Start!Open, Start!ReadPiece, Start!Check, Start!Ends, Start!world, StoreLast
<1>2. ASSUME pc' \in {"look", "open", "read", "configure", "end"}, file' \in Start!Files
      PROVE  StartTypes' /\ StoreLast'
  BY <1>1, <1>2 DEF StartTypes, StoreLast, Start!Selected
<1>3. CASE pc' = "end" /\ loaded' = loaded /\ file' = file
  BY <1>1, <1>2, <1>3 DEF ReadSoFar, Start!LoadedIsOneVersion, StartTypes
<1>4. CASE Start!Look
  BY <1>1, <1>2, <1>3, <1>4
    DEF Start!Look, Start!Ends, Start!read, ReadSoFar, Start!LoadedIsOneVersion, StartTypes
<1>5. CASE Start!Open
  <2>1. CASE Start!Lstat(file).kind = "file" /\ Start!SameInode(initial, Start!Lstat(file))
    <3>1. /\ opened' = Start!Lstat(file) /\ got' = <<>> /\ pc' = "read" /\ file' = file
          /\ loaded' = loaded
      BY <1>5, <2>1 DEF Start!Open
    <3>2. /\ file \in Start!Paths /\ name[file].inode \in Inodes
      BY DEF StartTypes, Start!Paths
    <3>3. Start!Lstat(file) = [kind |-> "file", inode |-> name[file].inode,
                               stamp |-> content[name[file].inode].stamp]
      BY <2>1 DEF Start!Lstat, Start!NoStat
    <3>4. /\ opened'.inode = name[file].inode
          /\ opened'.stamp = content[name[file].inode].stamp
      BY <3>1, <3>3
    <3>5. opened'.stamp \in Nat /\ opened'.stamp <= changes
      BY <3>2, <3>4 DEF StartTypes
    <3>6. ReadSoFar'
      BY <1>1, <3>1, <3>2, <3>4, <3>5 DEF ReadSoFar
    <3>7. QED
      BY <1>2, <3>1, <3>6 DEF Start!LoadedIsOneVersion, StartTypes
  <2>2. CASE ~ (Start!Lstat(file).kind = "file" /\ Start!SameInode(initial, Start!Lstat(file)))
    BY <1>3, <1>5, <2>2 DEF Start!Open, Start!Ends, Start!read
  <2>3. QED
    BY <2>1, <2>2
<1>6. CASE Start!ReadPiece
  <2>1. /\ got' = Append(got, content[opened.inode].value) /\ pc' = "read" /\ pc = "read"
        /\ UNCHANGED <<file, opened, loaded>>
    BY <1>6 DEF Start!ReadPiece
  <2>2. content[opened.inode].value \in Start!Values
    BY <2>1 DEF ReadSoFar, StartTypes
  <2>3. ReadSoFar'
    BY <1>1, <2>1, <2>2 DEF ReadSoFar
  <2>4. QED
    BY <1>2, <2>1, <2>3 DEF Start!LoadedIsOneVersion, StartTypes
<1>7. CASE Start!Check
  <2>1. CASE Start!Lstat(file).kind # "file" \/ ~ Start!Unchanged \/ got[1] = "bad"
    BY <1>3, <1>7, <2>1 DEF Start!Check, Start!Ends, Start!read
  <2>2. CASE ~ (Start!Lstat(file).kind # "file" \/ ~ Start!Unchanged \/ got[1] = "bad")
    <3>1. /\ loaded' = [loaded EXCEPT ![file] = got] /\ pc' \in {"look", "configure"}
          /\ file' = "catalog" /\ pc = "read" /\ Len(got) = 2
      BY <1>7, <2>2 DEF Start!Check
    <3>2. content[opened.inode].stamp = opened.stamp
      BY <2>2 DEF Start!Unchanged, Start!Fstat
    <3>3. got[1] = got[2]
      BY <3>1, <3>2 DEF ReadSoFar
    <3>4. Start!LoadedIsOneVersion'
      BY <3>1, <3>3 DEF Start!LoadedIsOneVersion
    <3>5. QED
      BY <1>2, <3>1, <3>4 DEF ReadSoFar, Start!Files
  <2>3. QED
    BY <2>1, <2>2
<1>8. QED
  BY <1>4, <1>5, <1>6, <1>7

\* Deciding what to do, and opening the store after everything else.
LEMMA CommandDecides ==
  ASSUME StartConstants, StartInv, Start!Start \/ Start!Configure \/ Start!Initialize
  PROVE  StartInv'
<1> USE DEF StartInv
<1>1. /\ UNCHANGED <<content, changes, command, file, loaded>>
      /\ pc \in {"start", "configure", "database"} /\ ~ created
      /\ pc' \in {"look", "database", "end"}
  BY DEF Start!Start, Start!Configure, Start!Initialize, Start!Ends, Start!world, Start!read,
         StoreLast
<1>2. ReadSoFar' /\ Start!LoadedIsOneVersion'
  BY <1>1 DEF ReadSoFar, Start!LoadedIsOneVersion
<1>3. name' \in [Start!Paths -> [kind : Start!Kinds, inode : Inodes]]
  <2>1. CASE name' = name
    BY <2>1 DEF StartTypes
  <2>2. CASE name' = [name EXCEPT !["database"].kind = "file"]
    BY <2>2 DEF StartTypes, Start!Kinds
  <2>3. QED
    BY <2>1, <2>2 DEF Start!Start, Start!Configure, Start!Initialize, Start!Ends, Start!world
<1>4. StartTypes'
  BY <1>1, <1>3 DEF StartTypes
<1>5. StoreLast'
  <2>1. CASE Start!Initialize
    BY <1>1, <2>1 DEF Start!Initialize, StoreLast, Start!Selected
  <2>2. CASE Start!Start \/ Start!Configure
    BY <1>1, <2>2 DEF Start!Start, Start!Configure, Start!Ends, StoreLast, Start!Selected
  <2>3. QED
    BY <2>1, <2>2
<1>6. QED
  BY <1>2, <1>4, <1>5

\* The invariant of a command's start is inductive.
LEMMA StartInductive ==
  ASSUME StartConstants
  PROVE  /\ Start!Init => StartInv
         /\ StartInv /\ [Start!Next]_Start!vars => StartInv'
<1>1. Start!Init => StartInv
  BY DEF StartConstants, Start!Init, StartInv, StartTypes, ReadSoFar, Start!LoadedIsOneVersion,
         StoreLast, Start!Kinds, Start!Files
<1>2. ASSUME StartInv, UNCHANGED Start!vars
      PROVE  StartInv'
  BY <1>2 DEF Start!vars, Start!world, Start!read, StartInv, StartTypes, ReadSoFar,
     Start!LoadedIsOneVersion, StoreLast, Start!Selected
<1>3. QED
  BY <1>1, <1>2, UserChanges, FileReads, CommandDecides DEF Start!Next

\* Whatever the user saves, replaces, links or removes while a command starts:
\* what it loads of a file is one version of it, although it reads it in
\* pieces, and it creates a database only when what it loaded holds together.
THEOREM StartWhole ==
  Start!Spec => []Start!ConfigurationIsWhole
<1>1. /\ Start!Init => StartInv
      /\ StartInv /\ [Start!Next]_Start!vars => StartInv'
  BY StartInductive, ConstantsAssumption
<1>2. StartInv => Start!ConfigurationIsWhole
  BY DEF StartInv, StoreLast, Start!ConfigurationIsWhole, Start!CreatedOnlyWhenConfigured
<1>3. QED
  BY <1>1, <1>2, PTL DEF Start!Spec

\* The composition keeps to both: `bearagent init` makes whole files and replaces
\* none, and a command that starts loads one version of each.
THEOREM ConfigurationsWhole == SurroundingsSpec => ConfigurationIsWhole
<1> DEFINE SetInv == part = "setup" => SetupInv
           LoadInv == part = "start" => StartInv
           Whole == /\ part = "setup" => Setup!ConfigurationIsWhole
                    /\ part = "start" => Start!ConfigurationIsWhole'
<1>1. /\ Setup!Init => SetupInv
      /\ SetupInv /\ [Setup!Next]_Setup!vars
           => SetupInv' /\ [Setup!OverwritesNothing]_Setup!vars
  BY SetupInductive, ConstantsAssumption
<1>2. /\ Start!Init => StartInv
      /\ StartInv /\ [Start!Next]_Start!vars => StartInv'
  BY StartInductive, ConstantsAssumption
<1>3. SurroundingsInit => SetInv /\ LoadInv
  BY <1>1, <1>2, PartsBegin
<1>4. SetInv /\ LoadInv /\ [SurroundingsNext]_allVars => (SetInv /\ LoadInv)'
  BY <1>1, <1>2, PartsStep
<1>5. ASSUME SetInv, LoadInv, [SurroundingsNext]_allVars
      PROVE  [Whole]_allVars
  <2>1. part = "setup" => [Setup!ConfigurationIsWhole]_Setup!vars
    BY <1>1, <1>5, PartsStep DEF SetupInv, SetupSound, Setup!ReportedIsComplete,
       Setup!OkMeansOrdinary, Setup!ConfigurationIsWhole
  <2>2. part = "start" => Start!ConfigurationIsWhole'
    BY <1>2, <1>5, PartsStep DEF StartInv, StoreLast, Start!ConfigurationIsWhole,
       Start!CreatedOnlyWhenConfigured
  <2>3. QED
    BY <1>5, <2>1, <2>2, PartsStutter
<1> HIDE DEF SetInv, LoadInv
<1>6. SurroundingsSpec => [][Whole]_allVars
  BY <1>3, <1>4, <1>5, PTL DEF SurroundingsSpec
<1>7. QED
  BY <1>6 DEF ConfigurationIsWhole

-----------------------------------------------------------------------------
(* Induction over the natural numbers, on sets *)

\* The order of the natural numbers, as a relation.
LEMMA NaturalOrder ==
  \E R : IsWellFoundedOn(R, Nat) /\ \A x, y \in Nat : <<x, y>> \in R <=> x < y
<1>1. \A x, y \in Nat : <<x, y>> \in OpToRel(<, Nat) <=> x < y
  BY DEF OpToRel
<1>2. QED
  BY <1>1, NatLessThanWellFounded, Zenon

\* A set with 0 and with the successor of each of its numbers has them all.
LEMMA SetInduction ==
  ASSUME NEW T, 0 \in T, \A n \in Nat : n \in T => n + 1 \in T
  PROVE  Nat \subseteq T
<1> DEFINE U == {n \in Nat : n \notin T}
<1>1. SUFFICES ASSUME U # {}
               PROVE  FALSE
  OBVIOUS
<1>2. PICK R : IsWellFoundedOn(R, Nat) /\ \A x, y \in Nat : <<x, y>> \in R <=> x < y
  BY NaturalOrder
<1>3. U # {} /\ U \subseteq Nat /\ IsWellFoundedOn(R, Nat)
  BY <1>1, <1>2
<1>4. \E x \in U : \A y \in U : ~ (<<y, x>> \in R)
  BY ONLY <1>3, WFMin, Zenon
<1>5. PICK x \in U : \A y \in U : ~ (<<y, x>> \in R)
  BY <1>4
<1>6. x # 0 /\ x \in Nat
  BY <1>5
<1>7. x - 1 \in Nat /\ x - 1 < x /\ (x - 1) + 1 = x
  BY <1>6
<1>8. x - 1 \notin U
  BY <1>2, <1>5, <1>6, <1>7
<1>9. QED
  BY <1>5, <1>7, <1>8

-----------------------------------------------------------------------------
(* Replay and check *)

\* Replay speaks of Events as RunEvents does.
LEMMA ReplayWords ==
  /\ Replay!NoRun = NoRun
  /\ \A s : /\ Replay!IsTerminal(s) <=> IsTerminal(s)
            /\ Replay!HasActive(s) <=> HasActive(s)
  /\ \A s, e : /\ Replay!Reducible(s, e) <=> Reducible(s, e)
               /\ Replay!Reduced(s, e) = Reduced(s, e)
  /\ \A h, e : Replay!HistoryValid(h, e) <=> HistoryValid(h, e)
  /\ \A r, n, t, k : Replay!Blank(r, n, t, k) = Blank(r, n, t, k)
<1>1. /\ Replay!NoLimits = NoLimits /\ Replay!NoTime = NoTime /\ Replay!NoUsage = NoUsage
      /\ Replay!MAX_CUMULATIVE_TOKENS = MAX_CUMULATIVE_TOKENS
      /\ Replay!MAX_CUMULATIVE_COST_MICROUSD = MAX_CUMULATIVE_COST_MICROUSD
      /\ Replay!EVIDENCE_VERSION = EVIDENCE_VERSION
  BY Zenon DEF Replay!NoLimits, NoLimits, Replay!NoTime, NoTime, Replay!NoUsage, NoUsage,
     Replay!MAX_CUMULATIVE_TOKENS, MAX_CUMULATIVE_TOKENS, Replay!MAX_CUMULATIVE_COST_MICROUSD,
     MAX_CUMULATIVE_COST_MICROUSD, Replay!EVIDENCE_VERSION, EVIDENCE_VERSION
<1>2. Replay!NoRun = NoRun
  BY <1>1, Zenon DEF Replay!NoRun, NoRun
<1>3. \A r, n, t, k : Replay!Blank(r, n, t, k) = Blank(r, n, t, k)
  BY <1>1, Zenon DEF Replay!Blank, Blank
<1>4. \A a : Replay!IsActive(a) <=> IsActive(a)
  BY Zenon DEF Replay!IsActive, IsActive
<1>5. \A s : /\ Replay!IsTerminal(s) <=> IsTerminal(s)
             /\ Replay!HasActive(s) <=> HasActive(s)
  BY <1>4, Zenon DEF Replay!IsTerminal, IsTerminal, Replay!HasActive, HasActive
<1>6. \A h, e : Replay!HistoryValid(h, e) <=> HistoryValid(h, e)
  BY <1>1, Zenon DEF Replay!HistoryValid, HistoryValid
<1>7. /\ \A u, k : Replay!Counted(u, k) = Counted(u, k)
      /\ \A u, v : Replay!ModelUsage(u, v) = ModelUsage(u, v)
      /\ \A e : Replay!Created(e) = Created(e)
      /\ \A s, e, t : /\ Replay!WithActivity(s, e, t) = WithActivity(s, e, t)
                      /\ Replay!WithStatus(s, e, t) = WithStatus(s, e, t)
  BY <1>2, Zenon DEF Replay!Counted, Counted, Replay!ModelUsage, ModelUsage, Replay!Created, Created,
     Replay!WithActivity, WithActivity, Replay!WithStatus, WithStatus
<1>8. /\ \A s, e : Replay!WithRequested(s, e) = WithRequested(s, e)
      /\ \A s, e, t : Replay!WithTerminal(s, e, t) = WithTerminal(s, e, t)
  BY <1>7, Zenon DEF Replay!WithRequested, WithRequested, Replay!WithTerminal, WithTerminal
<1>9. \A s, e : Replay!Reduced(s, e) = Reduced(s, e)
  BY <1>7, <1>8, Zenon DEF Replay!Reduced, Reduced
<1>10. \A s : Replay!Valid(s) <=> Valid(s)
  <2>1. \A u : Replay!UsageInBounds(u) <=> UsageInBounds(u)
    BY <1>1, Zenon DEF Replay!UsageInBounds, UsageInBounds
  <2>2. \A s : Replay!ConsistentProjection(s) <=> ConsistentProjection(s)
    BY <1>1, <1>4, <1>5, Zenon DEF Replay!ConsistentProjection, ConsistentProjection
  <2>3. QED
    BY <2>1, <2>2, Zenon DEF Replay!Valid, Valid
<1>11. \A s, e : Replay!Guard(s, e) <=> Guard(s, e)
  <2>1. \A s : Replay!RequestReady(s) <=> RequestReady(s)
    BY <1>5, Zenon DEF Replay!RequestReady, RequestReady
  <2>2. \A s, e : Replay!RequestGuard(s, e) <=> RequestGuard(s, e)
    <3>1. \A u : Replay!Tokens(u) = Tokens(u)
      BY Zenon DEF Replay!Tokens, Tokens
    <3>2. \A s, e : Replay!UniqueIds(s, e) <=> UniqueIds(s, e)
      BY Zenon DEF Replay!UniqueIds, UniqueIds
    <3>3. \A s, k, t : /\ Replay!BudgetCheckable(s, t) <=> BudgetCheckable(s, t)
                       /\ Replay!BudgetExhausted(s, k, t) <=> BudgetExhausted(s, k, t)
      BY <3>1, Zenon DEF Replay!BudgetCheckable, BudgetCheckable, Replay!BudgetExhausted, BudgetExhausted
    <3>4. QED
      BY <2>1, <3>2, <3>3, Zenon DEF Replay!RequestGuard, RequestGuard
  <2>3. \A s, e, t : Replay!MatchingActivity(s, e, t) <=> MatchingActivity(s, e, t)
    BY Zenon DEF Replay!MatchingActivity, MatchingActivity
  <2>4. QED
    BY <2>1, <2>2, <2>3, Zenon DEF Replay!Guard, Guard
<1>12. \A s, e : Replay!Reducible(s, e) <=> Reducible(s, e)
  <2>1. \A s, e : Replay!Addressed(s, e) <=> Addressed(s, e)
    BY Zenon DEF Replay!Addressed, Addressed
  <2>2. QED
    BY <1>5, <1>9, <1>10, <1>11, <2>1, Zenon DEF Replay!Reducible, Reducible
<1>13. QED
  BY <1>2, <1>3, <1>5, <1>6, <1>9, <1>12

\* One turn of reduce_events, after the history h.
Turn(s, h, e) ==
  IF s # Replay!Bad /\ Replay!HistoryValid(h, e) /\ Replay!Reducible(s, e)
  THEN Replay!Reduced(s, e) ELSE Replay!Bad

\* The states after each of the first n Events.
Chain(f, events, n) ==
  f = [k \in 0 .. n |-> IF k = 0 THEN Replay!NoRun
                        ELSE Turn(f[k - 1], SubSeq(events, 1, k - 1), events[k])]

\* They exist,
LEMMA ChainsExist ==
  ASSUME NEW events, NEW n \in Nat
  PROVE  \E f : Chain(f, events, n)
<1> DEFINE T == {k \in Nat : \E f : Chain(f, events, k)}
<1>1. 0 \in T
  <2>1. Chain([k \in 0 .. 0 |-> Replay!NoRun], events, 0)
    BY DEF Chain
  <2>2. QED
    BY <2>1
<1>2. ASSUME NEW k \in Nat, k \in T
      PROVE  k + 1 \in T
  <2>1. PICK f : Chain(f, events, k)
    BY <1>2
  <2> DEFINE new == Turn(f[k], SubSeq(events, 1, k), events[k + 1])
             g == [i \in 0 .. k + 1 |-> IF i = k + 1 THEN new ELSE f[i]]
             turned(h, i) == IF i = 0 THEN Replay!NoRun
                             ELSE Turn(h[i - 1], SubSeq(events, 1, i - 1), events[i])
  <2>2. \A i \in 0 .. k : g[i] = f[i]
    OBVIOUS
  <2>3. \A i \in 0 .. k : f[i] = turned(f, i)
    BY <2>1 DEF Chain
  <2>4. ASSUME NEW i \in 0 .. k + 1
        PROVE  g[i] = turned(g, i)
    <3>1. CASE i = k + 1
      <4>1. i # 0 /\ i - 1 \in 0 .. k /\ i - 1 = k
        BY <3>1
      <4>2. g[i] = Turn(f[i - 1], SubSeq(events, 1, i - 1), events[i])
        BY <3>1, <4>1
      <4>3. QED
        BY <2>2, <4>1, <4>2
    <3>2. CASE i # k + 1
      <4>1. i \in 0 .. k /\ (i # 0 => i - 1 \in 0 .. k)
        BY <3>2
      <4>2. QED
        BY <2>2, <2>3, <4>1
    <3>3. QED
      BY <3>1, <3>2
  <2>5. g = [i \in 0 .. k + 1 |-> turned(g, i)]
    <3>1. g = [i \in 0 .. k + 1 |-> g[i]]
      OBVIOUS
    <3> HIDE DEF g, turned
    <3>2. QED
      BY <2>4, <3>1
  <2> HIDE DEF g
  <2>6. Chain(g, events, k + 1)
    BY <2>5, Zenon DEF Chain
  <2>7. QED
    BY <2>6
<1>3. n \in T
  <2> HIDE DEF T
  <2>1. QED
    BY <1>1, <1>2, SetInduction
<1>4. QED
  BY <1>3

\* reconstruct_run returns the last of them,
LEMMA ReconstructedIsLast ==
  ASSUME NEW events, NEW n \in Nat, Len(events) = n
  PROVE  \E f : Chain(f, events, n) /\ Replay!Reconstructed(events) = f[n]
<1> DEFINE Good(f) ==
      f = [k \in 0 .. Len(events) |->
             IF k = 0 THEN Replay!NoRun
             ELSE IF /\ f[k - 1] # Replay!Bad
                     /\ Replay!HistoryValid(SubSeq(events, 1, k - 1), events[k])
                     /\ Replay!Reducible(f[k - 1], events[k])
             THEN Replay!Reduced(f[k - 1], events[k]) ELSE Replay!Bad]
<1>1. \E f : Good(f)
  <2>1. PICK f : Chain(f, events, n)
    BY ChainsExist
  <2>2. Good(f)
    BY <2>1, Zenon DEF Chain, Turn
  <2>3. QED
    BY <2>2
<1>2. Good(CHOOSE f : Good(f))
  BY <1>1, Zenon
<1>3. Replay!Reconstructed(events) = (CHOOSE f : Good(f))[Len(events)]
  BY Zenon DEF Replay!Reconstructed
<1>4. QED
  BY <1>2, <1>3, Zenon DEF Chain, Turn

\* and each follows from the one before.
LEMMA ChainAt ==
  ASSUME NEW f, NEW events, NEW n \in Nat, Chain(f, events, n)
  PROVE  /\ f[0] = Replay!NoRun
         /\ \A k \in 1 .. n : f[k] = Turn(f[k - 1], SubSeq(events, 1, k - 1), events[k])
BY DEF Chain

\* They are the same for two streams that begin alike.
LEMMA ChainsAgree ==
  ASSUME NEW f, NEW g, NEW d, NEW e, NEW n \in Nat, NEW m \in Nat, n <= m,
         Chain(f, d, n), Chain(g, e, m),
         \A i \in 1 .. n : d[i] = e[i] /\ SubSeq(d, 1, i - 1) = SubSeq(e, 1, i - 1)
  PROVE  f[n] = g[n]
<1> DEFINE T == {k \in Nat : k <= n => f[k] = g[k]}
<1>1. 0 \in T
  BY ChainAt
<1>2. ASSUME NEW k \in Nat, k \in T
      PROVE  k + 1 \in T
  <2>1. SUFFICES ASSUME k + 1 <= n
                 PROVE  f[k + 1] = g[k + 1]
    OBVIOUS
  <2>2. k + 1 \in 1 .. n /\ k + 1 \in 1 .. m /\ (k + 1) - 1 = k /\ f[k] = g[k]
    BY <1>2, <2>1
  <2>3. f[k + 1] = Turn(f[k], SubSeq(d, 1, k), d[k + 1])
    BY <2>2, ChainAt
  <2>4. g[k + 1] = Turn(g[k], SubSeq(e, 1, k), e[k + 1])
    BY <2>2, ChainAt
  <2>5. d[k + 1] = e[k + 1] /\ SubSeq(d, 1, k) = SubSeq(e, 1, k)
    BY <2>2
  <2>6. QED
    BY <2>2, <2>3, <2>4, <2>5
<1>3. Nat \subseteq T
  <2> HIDE DEF T
  <2>1. QED
    BY <1>1, <1>2, SetInduction
<1>4. QED
  BY <1>3

\* The first elements of a sequence, one by one.
LEMMA SubSeqIs ==
  ASSUME NEW s, NEW m \in Nat
  PROVE  SubSeq(s, 1, m) = [i \in 1 .. m |-> s[i]]
OBVIOUS

\* So reconstruct_run takes a stream Event by Event.
LEMMA ReconstructedStep ==
  ASSUME NEW X, NEW events \in Seq(X), events # <<>>
  PROVE  LET n == Len(events)
             h == SubSeq(events, 1, n - 1)
         IN  /\ n \in Nat \ {0} /\ Len(h) = n - 1 /\ h \in Seq(X)
             /\ Replay!Reconstructed(events) = Turn(Replay!Reconstructed(h), h, events[n])
<1> DEFINE n == Len(events)
           h == SubSeq(events, 1, n - 1)
<1>1. n \in Nat /\ n # 0 /\ n - 1 \in Nat
  OBVIOUS
<1>2. h \in Seq(X) /\ Len(h) = n - 1 /\ \A i \in 1 .. n - 1 : h[i] = events[i]
  <2>1. \A i \in 1 .. n - 1 : events[i] \in X
    BY <1>1
  <2>2. h = [i \in 1 .. n - 1 |-> events[i]]
    BY <1>1, SubSeqIs
  <2> HIDE DEF n, h
  <2>3. QED
    BY <1>1, <2>1, <2>2
<1>3. ASSUME NEW i \in 1 .. n - 1
      PROVE  SubSeq(h, 1, i - 1) = SubSeq(events, 1, i - 1)
  <2> HIDE DEF n, h
  <2>1. i - 1 \in Nat /\ \A j \in 1 .. i - 1 : j \in 1 .. n - 1
    BY <1>1
  <2>2. /\ SubSeq(h, 1, i - 1) = [j \in 1 .. i - 1 |-> h[j]]
        /\ SubSeq(events, 1, i - 1) = [j \in 1 .. i - 1 |-> events[j]]
    BY <1>1, <1>2, <2>1, SubSeqIs
  <2>3. QED
    BY <1>2, <2>1, <2>2
<1> HIDE DEF n, h
<1>4. PICK f : Chain(f, events, n) /\ Replay!Reconstructed(events) = f[n]
  BY <1>1, ReconstructedIsLast DEF n
<1>5. PICK g : Chain(g, h, n - 1) /\ Replay!Reconstructed(h) = g[n - 1]
  BY <1>1, <1>2, ReconstructedIsLast
<1>6. g[n - 1] = f[n - 1]
  <2>1. /\ n - 1 \in Nat /\ n \in Nat /\ n - 1 <= n
        /\ Chain(g, h, n - 1) /\ Chain(f, events, n)
        /\ \A i \in 1 .. n - 1 : h[i] = events[i] /\ SubSeq(h, 1, i - 1) = SubSeq(events, 1, i - 1)
    BY <1>1, <1>2, <1>3, <1>4, <1>5
  <2>2. QED
    BY ONLY <2>1, ChainsAgree
<1>7. f[n] = Turn(f[n - 1], h, events[n])
  BY <1>1, <1>4, ChainAt DEF h
<1>8. QED
  BY <1>1, <1>2, <1>4, <1>5, <1>6, <1>7 DEF n, h

\* Before the first Event there is no Run.
LEMMA ReconstructedNothing == Replay!Reconstructed(<<>>) = Replay!NoRun
<1>1. Len(<<>>) = 0 /\ 0 \in Nat
  OBVIOUS
<1>2. PICK f : Chain(f, <<>>, 0) /\ Replay!Reconstructed(<<>>) = f[0]
  BY <1>1, ReconstructedIsLast
<1>3. QED
  BY <1>1, <1>2, ChainAt

\* The first Events of a Run, and their fold.
Prefix(r, n) == SubSeq(Scripts[r], 1, n)
Recon(r, n) == Replay!Reconstructed(Prefix(r, n))

\* What is committed of a Run is one of its prefixes.
LEMMA PrefixIs ==
  ASSUME ReplayConstants, NEW r \in RunIds, NEW n \in 0 .. Len(Scripts[r])
  PROVE  /\ Scripts[r] \in Seq(Event) /\ Prefix(r, n) \in Seq(Event) /\ Len(Prefix(r, n)) = n
         /\ \A i \in 1 .. n : Prefix(r, n)[i] = Scripts[r][i] /\ Scripts[r][i] \in Event
<1>1. Scripts[r] \in Seq(Event)
  BY DEF ReplayConstants
<1>2. n \in Nat /\ \A i \in 1 .. n : i \in DOMAIN Scripts[r]
  BY <1>1
<1>3. \A i \in 1 .. n : Scripts[r][i] \in Event
  BY <1>1, <1>2
<1> HIDE DEF Event
<1>4. Prefix(r, n) = [i \in 1 .. n |-> Scripts[r][i]]
  BY <1>2, SubSeqIs DEF Prefix
<1>5. QED
  BY <1>1, <1>2, <1>3, <1>4

\* Each Event of a script is one that the reducer takes where it stands.
LEMMA ScriptFolds ==
  ASSUME ReplayConstants, NEW r \in RunIds, NEW n \in Nat, n + 1 <= Len(Scripts[r])
  PROVE  /\ Folds(Recon(r, n), Prefix(r, n), Scripts[r][n + 1], Recon(r, n + 1), Prefix(r, n + 1))
         /\ WellFormed(Scripts[r][n + 1]) /\ Scripts[r][n + 1].sequence = n + 1
<1> DEFINE e == Scripts[r][n + 1]
           h == Prefix(r, n)
           h1 == Prefix(r, n + 1)
<1>1. /\ Scripts[r] \in Seq(Event) /\ Len(Scripts[r]) \in Nat
      /\ n \in 0 .. Len(Scripts[r]) /\ n + 1 \in 0 .. Len(Scripts[r]) /\ n + 1 \in DOMAIN Scripts[r]
  BY DEF ReplayConstants
<1>2. e \in Payloads(r, n + 1) /\ Recon(r, n + 1) # Replay!Bad
  BY <1>1 DEF ReplayConstants, Recon, Prefix
<1>3. WellFormed(e) /\ e.sequence = n + 1
  BY <1>2, PayloadWellFormed
<1>4. /\ h \in Seq(Event) /\ Len(h) = n /\ h1 \in Seq(Event) /\ Len(h1) = n + 1 /\ e \in Event
      /\ h1[n + 1] = e /\ \A i \in 1 .. n : h1[i] = Scripts[r][i] /\ h[i] = Scripts[r][i]
  BY <1>1, PrefixIs
<1> HIDE DEF e, h, h1, Event
<1>5. h1 = Append(h, e)
  BY <1>4
<1>6. SubSeq(h1, 1, n) = h
  <2>1. SubSeq(h1, 1, n) = [i \in 1 .. n |-> h1[i]]
    BY SubSeqIs
  <2>2. h = [i \in 1 .. n |-> h[i]]
    BY <1>4
  <2>3. QED
    BY <1>4, <2>1, <2>2
<1>7. Replay!Reconstructed(h1) = Turn(Replay!Reconstructed(h), h, e)
  <2>1. h1 # <<>> /\ (n + 1) - 1 = n
    BY <1>4
  <2>2. Replay!Reconstructed(h1) = Turn(Replay!Reconstructed(SubSeq(h1, 1, n)), SubSeq(h1, 1, n), h1[n + 1])
    BY <1>4, <2>1, ReconstructedStep
  <2>3. QED
    BY <1>4, <1>6, <2>2
<1>8. /\ Replay!HistoryValid(h, e) /\ Replay!Reducible(Recon(r, n), e)
      /\ Recon(r, n + 1) = Replay!Reduced(Recon(r, n), e)
  BY <1>2, <1>7 DEF Turn, Recon, h, h1
<1>9. Folds(Recon(r, n), h, e, Recon(r, n + 1), h1)
  BY <1>5, <1>8, ReplayWords, Zenon DEF Folds
<1>10. QED
  BY <1>3, <1>9 DEF e, h, h1

\* So its fold is sound at every point.
LEMMA PrefixSound ==
  ASSUME ReplayConstants, NEW r \in RunIds, NEW n \in 0 .. Len(Scripts[r])
  PROVE  Sound(Recon(r, n), Prefix(r, n)) /\ Measured(Recon(r, n), Prefix(r, n))
<1> DEFINE WellFolded(k) == Sound(Recon(r, k), Prefix(r, k)) /\ Measured(Recon(r, k), Prefix(r, k))
           T == {k \in Nat : k <= Len(Scripts[r]) => WellFolded(k)}
<1>1. Scripts[r] \in Seq(Event) /\ Len(Scripts[r]) \in Nat
  BY DEF ReplayConstants
<1>2. 0 \in T
  <2>1. Prefix(r, 0) = <<>>
    BY DEF Prefix
  <2>2. Recon(r, 0) = NoRun
    BY <2>1, ReconstructedNothing, ReplayWords DEF Recon
  <2>3. QED
    BY <2>1, <2>2, NothingSound, NothingMeasured
<1>3. ASSUME NEW k \in Nat, k \in T
      PROVE  k + 1 \in T
  <2>1. SUFFICES ASSUME k + 1 <= Len(Scripts[r])
                 PROVE  WellFolded(k + 1)
    OBVIOUS
  <2>2. k <= Len(Scripts[r])
    BY <1>1, <2>1
  <2>3. WellFolded(k)
    BY <1>3, <2>2
  <2>4. /\ Folds(Recon(r, k), Prefix(r, k), Scripts[r][k + 1], Recon(r, k + 1), Prefix(r, k + 1))
        /\ WellFormed(Scripts[r][k + 1])
    BY <2>1, ScriptFolds
  <2>5. QED
    BY <2>3, <2>4, FoldSound, FoldMeasured
<1>4. Nat \subseteq T
  <2> HIDE DEF T
  <2>1. QED
    BY <1>2, <1>3, SetInduction
<1>5. n \in Nat /\ n <= Len(Scripts[r])
  BY <1>1
<1>6. QED
  BY <1>4, <1>5

\* The fold of a prefix tells how long it is, and is never that of a stream
\* that the reducer refuses.
LEMMA PrefixTells ==
  ASSUME ReplayConstants, NEW r \in RunIds, NEW n \in 1 .. Len(Scripts[r])
  PROVE  /\ Recon(r, n) \in RunState /\ Recon(r, n).last_sequence = n
         /\ Recon(r, n).status # "absent" /\ Recon(r, n) # Replay!Bad
<1>1. /\ Scripts[r] \in Seq(Event) /\ n \in 0 .. Len(Scripts[r]) /\ n \in Nat /\ n # 0
      /\ n \in DOMAIN Scripts[r]
  BY DEF ReplayConstants
<1>2. Sound(Recon(r, n), Prefix(r, n)) /\ Measured(Recon(r, n), Prefix(r, n)) /\ Len(Prefix(r, n)) = n
  BY <1>1, PrefixSound, PrefixIs
<1>3. Recon(r, n) \in RunState /\ Recon(r, n).last_sequence = n /\ Recon(r, n).status # "absent"
  BY <1>1, <1>2 DEF Sound, Typed, Measured
<1>4. QED
  BY <1>1, <1>3 DEF ReplayConstants, Recon, Prefix

\* Nothing follows the end of a Run.
LEMMA EndIsLast ==
  ASSUME ReplayConstants, NEW r \in RunIds, NEW n \in Nat, IsTerminal(Recon(r, n))
  PROVE  ~ n + 1 <= Len(Scripts[r])
BY ScriptFolds DEF Folds, Reducible

\* A stream that goes on with a second beginning is refused,
LEMMA IllegalIsBad ==
  ASSUME ReplayConstants, NEW r \in RunIds, NEW n \in 1 .. Len(Scripts[r])
  PROVE  Replay!Reconstructed(Prefix(r, n) \o <<Replay!Blank(r, n + 1, "RunCreated", "run")>>) = Replay!Bad
<1> DEFINE b == Blank(r, n + 1, "RunCreated", "run")
           h == Prefix(r, n)
           d == h \o <<b>>
<1>1. Scripts[r] \in Seq(Event) /\ n \in 0 .. Len(Scripts[r]) /\ n \in Nat
  BY DEF ReplayConstants
<1>2. h \in Seq(Event) /\ Len(h) = n
  BY <1>1, PrefixIs
<1>3. b.type = "RunCreated"
  BY DEF Blank
<1> DEFINE X == Event \cup {b}
<1> HIDE DEF b, h, Event
<1>4. /\ d \in Seq(X) /\ Len(d) = n + 1 /\ d # <<>> /\ d[n + 1] = b
      /\ \A i \in 1 .. n : d[i] = h[i]
  BY <1>1, <1>2
<1> HIDE DEF d, X
<1>5. SubSeq(d, 1, n) = h
  <2>1. SubSeq(d, 1, n) = [i \in 1 .. n |-> d[i]]
    BY <1>1, SubSeqIs
  <2>2. h = [i \in 1 .. n |-> h[i]]
    BY <1>2
  <2>3. QED
    BY <1>4, <2>1, <2>2
<1>6. Replay!Reconstructed(d) = Turn(Recon(r, n), h, b)
  <2>1. (n + 1) - 1 = n
    BY <1>1
  <2>2. Replay!Reconstructed(d) = Turn(Replay!Reconstructed(SubSeq(d, 1, n)), SubSeq(d, 1, n), d[n + 1])
    BY <1>4, <2>1, ReconstructedStep
  <2>3. QED
    BY <1>4, <1>5, <2>2 DEF Recon, h
<1>7. ~ Reducible(Recon(r, n), b)
  BY <1>3, PrefixTells DEF Reducible, Guard
<1>8. Replay!Reconstructed(d) = Replay!Bad
  BY <1>6, <1>7, ReplayWords, Zenon DEF Turn
<1>9. QED
  BY <1>8, ReplayWords, Zenon DEF d, b, h

\* and one that lacks its first Event is no prefix.
LEMMA GapShows ==
  ASSUME ReplayConstants, NEW r \in RunIds, NEW n \in 1 .. Len(Scripts[r]),
         Tail(Prefix(r, n)) # <<>>
  PROVE  ~ Replay!CompletePrefix(r, Tail(Prefix(r, n)))
<1> DEFINE h == Prefix(r, n)
<1>1. /\ Scripts[r] \in Seq(Event) /\ n \in 0 .. Len(Scripts[r]) /\ n \in Nat /\ n # 0
      /\ \A i \in 1 .. n : i \in DOMAIN Scripts[r]
  BY DEF ReplayConstants
<1>2. h \in Seq(Event) /\ Len(h) = n /\ \A i \in 1 .. n : h[i] = Scripts[r][i]
  BY <1>1, PrefixIs
<1> HIDE DEF h, Event
<1>3. Tail(h) # <<>>
  BY DEF h
<1>4. 2 \in 1 .. n /\ 1 \in DOMAIN Tail(h) /\ Tail(h)[1] = h[2]
  BY <1>1, <1>2, <1>3
<1>5. Scripts[r][2].sequence = 2
  <2>1. 1 \in Nat /\ 1 + 1 <= Len(Scripts[r])
    BY <1>1, <1>4
  <2>2. Scripts[r][1 + 1].sequence = 1 + 1
    BY ONLY <2>1, ReplayConstants, r \in RunIds, ScriptFolds
  <2>3. QED
    BY <2>2
<1>6. QED
  BY <1>2, <1>4, <1>5 DEF Replay!CompletePrefix, h

\* The rows and the projection of a Run of which n Events are committed.
RowsOf(r, n) ==
  CASE damage[r] = "gap" -> IF Prefix(r, n) = <<>> THEN <<>> ELSE Tail(Prefix(r, n))
    [] damage[r] = "illegal" -> Prefix(r, n) \o <<Replay!Blank(r, n + 1, "RunCreated", "run")>>
    [] OTHER -> Prefix(r, n)
ProjectionOf(r, n) ==
  IF damage[r] = "false_projection" THEN [Recon(r, n) EXCEPT !.status = "succeeded"]
  ELSE Recon(r, n)

\* What a command may find of a Run: its Events and projection at one moment.
Seen(r, rows, projection) ==
  \E n \in 0 .. committed[r] :
    /\ damage[r] # "none" => n = committed[r]
    /\ rows = RowsOf(r, n) /\ rows # <<>> /\ projection = ProjectionOf(r, n)

Broken == {"gap", "undecodable", "illegal"}
Healthy(r) ==
  /\ damage[r] \in {"none", "false_projection"}
  /\ ProjectionOf(r, committed[r]) = Recon(r, committed[r])
  /\ IsTerminal(Recon(r, committed[r]))

ItemErrors == {"none", "persistence_error", "query_limit_exceeded", "invalid_event"}
AnswerErrors == ItemErrors \cup {"query_timeout", "run_not_found"}
ReplayItem ==
  [run : RunIds, error : ItemErrors \cup {"query_timeout"},
   summary : [status : RunStatuses, last : Nat, active : ActivityIds \cup {None},
              projection : {"none", "missing", "unreadable", "matched", "mismatch"}]]
ReplayAnswer ==
  [error : AnswerErrors, runs : Seq(RunIds), items : Seq(ReplayItem), after : Nat, has_more : BOOLEAN]

\* A summary is of one prefix.
ItemSound(item) ==
  LET s == item.summary
      state == Recon(item.run, s.last)
  IN  item.error = "none" =>
        /\ s.last \in 1 .. committed[item.run]
        /\ s.status = state.status /\ s.active = Replay!ActiveOf(state)
        /\ (s.projection = "matched") <=>
             \/ damage[item.run] = "none"
             \/ damage[item.run] = "false_projection" /\ state.status = "succeeded"

\* A Run of a check is healthy or among its items, as an error if it is broken.
Handled(r, its) ==
  \/ Healthy(r)
  \/ \E i \in DOMAIN its : its[i].run = r /\ (damage[r] \in Broken => its[i].error # "none")

DatabaseInv ==
  /\ committed \in [RunIds -> Nat] /\ damage \in [RunIds -> Replay!Damages]
  /\ \A r \in RunIds : /\ committed[r] <= Len(Scripts[r])
                       /\ damage[r] # "none" => committed[r] > 0

ReplayTypes ==
  /\ pc \in {"idle", "list", "next", "read", "rows", "reduce"} /\ mode \in {"replay", "check"}
  /\ after \in Nat /\ limit \in Nat \ {0} /\ page \in Seq(RunIds) /\ next \in Nat \ {0}
  /\ clock \in 0 .. Timeout /\ items \in Seq(ReplayItem) /\ answer \in ReplayAnswer
  /\ scanned \in Seq(RunIds) /\ known \subseteq Replay!WithEvents
  /\ pc # "idle" => answer.items = <<>> /\ answer.error = "none"
  /\ pc \in {"read", "rows", "reduce"} => next \in DOMAIN page
  /\ pc \in {"list", "next"} => mode = "check"
  /\ pc = "list" => items = <<>>

OnPage == mode = "check" /\ pc \in {"next", "read", "rows", "reduce"}

\* The Runs of the page that have been checked are handled.
PageInv ==
  OnPage =>
    /\ answer.has_more => page # <<>>
    /\ \A k \in DOMAIN page :
         page[k] \in Replay!WithEvents /\ (k < next => Handled(page[k], items))
    /\ \A i \in DOMAIN items :
         /\ \E k \in DOMAIN page : items[i].run = page[k]
         /\ ItemSound(items[i])
         /\ items[i].error = "query_timeout" => clock >= Timeout

SnapshotInv ==
  /\ pc \in {"rows", "reduce"} => Seen(page[next], snapshot.events, snapshot.projection)
  /\ pc = "reduce" =>
       damage[page[next]] # "undecodable" /\ Replay!CompletePrefix(page[next], snapshot.events)

AnswerInv ==
  /\ \A i \in DOMAIN answer.items :
       /\ \E k \in DOMAIN answer.runs : answer.items[i].run = answer.runs[k]
       /\ ItemSound(answer.items[i]) /\ answer.items[i].error \in ItemErrors
  /\ pc = "idle" /\ answer.error = "none" =>
       /\ answer.has_more => answer.runs # <<>>
       /\ mode = "check" => \A k \in DOMAIN answer.runs : Handled(answer.runs[k], answer.items)

\* The scan holds what was known of, up to the cursor c, which is its last.
Covers(c) ==
  /\ c = IF scanned = <<>> THEN 0 ELSE Replay!Position(scanned[Len(scanned)])
  /\ \A r \in known : Replay!Position(r) <= c => \E i \in DOMAIN scanned : scanned[i] = r

ScanInv ==
  /\ Replay!Ascending(scanned)
  /\ mode = "check" /\ pc # "idle" => Covers(after)
  /\ OnPage =>
       /\ Replay!Ascending(page) /\ \A k \in DOMAIN page : after < Replay!Position(page[k])
       /\ \A r \in known : after < Replay!Position(r) =>
            \/ \E k \in DOMAIN page : page[k] = r
            \/ answer.has_more /\ \A k \in DOMAIN page : Replay!Position(page[k]) < Replay!Position(r)
  /\ mode = "check" /\ pc = "idle" /\ answer.error = "none" =>
       /\ Covers(answer.after)
       /\ ~ answer.has_more => \A r \in known : \E i \in DOMAIN scanned : scanned[i] = r

ReplayInv == DatabaseInv /\ ReplayTypes /\ PageInv /\ SnapshotInv /\ AnswerInv /\ ScanInv

\* A Run has one place in the order.
LEMMA PositionIs ==
  ASSUME ReplayConstants, NEW r \in RunIds
  PROVE  Replay!Position(r) \in Nat \ {0} /\ RunOrder[Replay!Position(r)] = r
<1>1. \E i \in DOMAIN RunOrder : RunOrder[i] = r
  BY DEF ReplayConstants
<1>2. Replay!Position(r) \in DOMAIN RunOrder /\ RunOrder[Replay!Position(r)] = r
  BY <1>1, Zenon DEF Replay!Position
<1>3. QED
  BY <1>2 DEF ReplayConstants

\* What the database answers, in the words of the proof.
LEMMA DatabaseAnswers ==
  ASSUME NEW r \in RunIds
  PROVE  /\ Replay!Rows(r) = RowsOf(r, committed[r])
         /\ Replay!Projection(r) = ProjectionOf(r, committed[r])
         /\ Replay!Reconstructed(Replay!Facts(r)) = Recon(r, committed[r])
<1>1. Replay!Facts(r) = Prefix(r, committed[r])
  BY DEF Replay!Facts, Prefix
<1>2. QED
  BY <1>1, Zenon DEF Replay!Rows, Replay!Projection, RowsOf, ProjectionOf, Recon

\* Rows are not lost when Events are committed.
LEMMA RowsStay ==
  ASSUME ReplayConstants, NEW r \in RunIds, NEW n \in 0 .. Len(Scripts[r]), damage[r] = "none"
  PROVE  RowsOf(r, n) = <<>> <=> n = 0
<1>1. RowsOf(r, n) = Prefix(r, n)
  BY DEF RowsOf
<1>2. Scripts[r] \in Seq(Event) /\ Prefix(r, n) \in Seq(Event) /\ Len(Prefix(r, n)) = n
  BY PrefixIs
<1> HIDE DEF Event
<1>3. QED
  BY <1>1, <1>2

\* A commit disturbs nothing that a command has seen, and touches no Run that
\* has ended.
LEMMA ReplayCommits ==
  ASSUME ReplayConstants, ReplayInv, NEW q \in RunIds, Replay!Commit(q)
  PROVE  ReplayInv'
<1>1. /\ damage[q] = "none" /\ committed[q] < Len(Scripts[q])
      /\ committed' = [committed EXCEPT ![q] = @ + 1] /\ damage' = damage
      /\ UNCHANGED <<pc, mode, after, limit, page, next, clock, snapshot, items, answer, scanned, known>>
  BY DEF Replay!Commit, Replay!command, Replay!scan
<1>2. /\ committed \in [RunIds -> Nat] /\ \A r \in RunIds : Len(Scripts[r]) \in Nat
      /\ \A r \in RunIds : committed[r] <= Len(Scripts[r])
  BY DEF ReplayInv, DatabaseInv, ReplayConstants
<1>3. DatabaseInv'
  BY <1>1, <1>2 DEF ReplayInv, DatabaseInv
<1>4. \A r \in RunIds : committed[r] <= committed'[r] /\ (damage[r] # "none" => committed'[r] = committed[r])
  BY <1>1, <1>2
<1>5. Replay!WithEvents \subseteq Replay!WithEvents'
  <2>1. SUFFICES ASSUME NEW r \in RunIds, RowsOf(r, committed[r]) # <<>>
                 PROVE  RowsOf(r, committed'[r]) # <<>>
    <3>1. \A r \in RunIds : Replay!Rows(r)' = RowsOf(r, committed'[r])
      BY <1>1, Zenon DEF Replay!Rows, RowsOf, Replay!Facts, Prefix
    <3>2. QED
      BY <3>1, DatabaseAnswers DEF Replay!WithEvents
  <2>2. CASE damage[r] # "none"
    BY <1>4, <2>1, <2>2
  <2>3. CASE damage[r] = "none"
    <3>1. committed[r] \in 0 .. Len(Scripts[r]) /\ committed'[r] \in 0 .. Len(Scripts[r])
      BY <1>1, <1>2
    <3>2. committed[r] # 0
      BY <2>1, <2>3, <3>1, RowsStay
    <3>3. committed'[r] # 0
      BY <1>2, <1>4, <3>1, <3>2
    <3>4. QED
      BY <2>3, <3>1, <3>3, RowsStay
  <2>4. QED
    BY <2>2, <2>3
<1>6. \A r \in RunIds : Healthy(r) => Healthy(r)'
  <2>1. SUFFICES ASSUME NEW r \in RunIds, Healthy(r)
                 PROVE  committed'[r] = committed[r]
    BY <1>1 DEF Healthy, ProjectionOf
  <2>2. r # q
    <3>1. SUFFICES ASSUME r = q
                   PROVE  FALSE
      OBVIOUS
    <3>2. committed[q] \in Nat /\ IsTerminal(Recon(q, committed[q])) /\ committed[q] + 1 <= Len(Scripts[q])
      BY <1>1, <1>2, <2>1, <3>1 DEF Healthy
    <3>3. QED
      BY <3>2, EndIsLast
  <2>3. QED
    BY <1>1, <1>2, <2>2
<1>7. \A item \in ReplayItem : ItemSound(item) => ItemSound(item)'
  BY <1>1, <1>2, <1>4 DEF ItemSound, ReplayItem
<1>8. \A r \in RunIds : \A its : Handled(r, its) => Handled(r, its)'
  BY <1>1, <1>6 DEF Handled
<1>9. \A r \in RunIds : \A rows, projection : Seen(r, rows, projection) => Seen(r, rows, projection)'
  <2>1. SUFFICES ASSUME NEW r \in RunIds, NEW rows, NEW projection, Seen(r, rows, projection)
                 PROVE  Seen(r, rows, projection)'
    OBVIOUS
  <2>2. PICK n \in 0 .. committed[r] :
          /\ damage[r] # "none" => n = committed[r]
          /\ rows = RowsOf(r, n) /\ rows # <<>> /\ projection = ProjectionOf(r, n)
    BY <2>1 DEF Seen
  <2>3. n \in 0 .. committed'[r] /\ (damage[r] # "none" => n = committed'[r])
    BY <1>1, <1>2, <1>4, <2>2
  <2>4. rows = RowsOf(r, n)' /\ projection = ProjectionOf(r, n)'
    BY <1>1, <2>2 DEF RowsOf, ProjectionOf
  <2>5. QED
    BY <1>1, <2>2, <2>3, <2>4 DEF Seen
<1>10. ReplayTypes'
  BY <1>1, <1>5 DEF ReplayInv, ReplayTypes
<1>11. PageInv'
  <2>1. SUFFICES ASSUME OnPage
                 PROVE  PageInv'
    BY <1>1 DEF PageInv, OnPage
  <2>2. /\ page \in Seq(RunIds) /\ items \in Seq(ReplayItem) /\ PageInv
        /\ \A k \in DOMAIN page : page[k] \in RunIds
        /\ \A i \in DOMAIN items : items[i] \in ReplayItem
    BY DEF ReplayInv, ReplayTypes
  <2>3. \A k \in DOMAIN page :
          page[k] \in Replay!WithEvents' /\ (k < next => Handled(page[k], items)')
    BY <1>1, <1>5, <1>8, <2>1, <2>2 DEF PageInv
  <2>4. \A i \in DOMAIN items :
          /\ \E k \in DOMAIN page : items[i].run = page[k]
          /\ ItemSound(items[i])'
          /\ items[i].error = "query_timeout" => clock >= Timeout
    BY <1>1, <1>7, <2>1, <2>2 DEF PageInv
  <2>5. answer.has_more => page # <<>>
    BY <2>1, <2>2 DEF PageInv
  <2>6. QED
    BY <1>1, <2>3, <2>4, <2>5, Zenon DEF PageInv, Handled, ItemSound
<1>12. SnapshotInv'
  BY <1>1, <1>9 DEF ReplayInv, ReplayTypes, SnapshotInv, Replay!CompletePrefix
<1>13. AnswerInv'
  <2>1. answer.runs \in Seq(RunIds) /\ answer.items \in Seq(ReplayItem)
    BY DEF ReplayInv, ReplayTypes, ReplayAnswer
  <2>2. QED
    BY <1>1, <1>7, <1>8, <2>1 DEF ReplayInv, AnswerInv
<1>14. ScanInv'
  BY <1>1 DEF ReplayInv, ScanInv, OnPage, Covers, Replay!Ascending, Replay!Position
<1>15. QED
  BY <1>3, <1>10, <1>11, <1>12, <1>13, <1>14 DEF ReplayInv

\* What the database says does not depend on the command.
LEMMA SameDatabase ==
  ASSUME UNCHANGED <<committed, damage>>
  PROVE  /\ Replay!WithEvents' = Replay!WithEvents
         /\ \A item : ItemSound(item)' <=> ItemSound(item)
         /\ \A r, its : Handled(r, its)' <=> Handled(r, its)
         /\ \A r, rows, projection : Seen(r, rows, projection)' <=> Seen(r, rows, projection)
         /\ DatabaseInv => DatabaseInv'
<1>1. \A r, n : RowsOf(r, n)' = RowsOf(r, n) /\ ProjectionOf(r, n)' = ProjectionOf(r, n)
  BY Zenon DEF RowsOf, ProjectionOf
<1>2. \A r : Healthy(r)' <=> Healthy(r)
  BY <1>1, Zenon DEF Healthy
<1>3. Replay!WithEvents' = Replay!WithEvents
  BY Zenon DEF Replay!WithEvents, Replay!Rows, Replay!Facts
<1>4. \A item : ItemSound(item)' <=> ItemSound(item)
  BY Zenon DEF ItemSound
<1>5. \A r, its : Handled(r, its)' <=> Handled(r, its)
  BY <1>2, Zenon DEF Handled
<1>6. \A r, rows, projection : Seen(r, rows, projection)' <=> Seen(r, rows, projection)
  BY <1>1, Zenon DEF Seen
<1>7. DatabaseInv => DatabaseInv'
  BY Zenon DEF DatabaseInv
<1>8. QED
  BY <1>3, <1>4, <1>5, <1>6, <1>7

\* Nothing has been answered.
LEMMA NothingAnswered ==
  /\ Replay!NoAnswer \in ReplayAnswer
  /\ Replay!NoAnswer.items = <<>> /\ Replay!NoAnswer.runs = <<>> /\ Replay!NoAnswer.error = "none"
  /\ Replay!NoAnswer.after = 0 /\ Replay!NoAnswer.has_more = FALSE
  /\ \A e \in AnswerErrors :
       /\ [Replay!NoAnswer EXCEPT !.error = e] \in ReplayAnswer
       /\ [Replay!NoAnswer EXCEPT !.error = e].items = <<>>
       /\ [Replay!NoAnswer EXCEPT !.error = e].error = e
  /\ \A further \in BOOLEAN :
       /\ [Replay!NoAnswer EXCEPT !.has_more = further] \in ReplayAnswer
       /\ [Replay!NoAnswer EXCEPT !.has_more = further].items = <<>>
       /\ [Replay!NoAnswer EXCEPT !.has_more = further].error = "none"
       /\ [Replay!NoAnswer EXCEPT !.has_more = further].has_more = further
<1>1. Replay!NoAnswer = [error |-> "none", runs |-> <<>>, items |-> <<>>, after |-> 0, has_more |-> FALSE]
  BY DEF Replay!NoAnswer, Replay!Nothing
<1>2. <<>> \in Seq(RunIds) /\ <<>> \in Seq(ReplayItem) /\ "none" \in AnswerErrors
  BY DEF AnswerErrors, ItemErrors
<1> DEFINE empty == <<>>
<1>3. Replay!NoAnswer = [error |-> "none", runs |-> empty, items |-> empty, after |-> 0, has_more |-> FALSE]
  BY <1>1
<1>4. empty \in Seq(RunIds) /\ empty \in Seq(ReplayItem)
  BY <1>2
<1> HIDE DEF empty, ReplayItem, AnswerErrors
<1>5. Replay!NoAnswer \in ReplayAnswer
  BY <1>2, <1>3, <1>4 DEF ReplayAnswer
<1>6. ASSUME NEW e \in AnswerErrors
      PROVE  /\ [Replay!NoAnswer EXCEPT !.error = e] \in ReplayAnswer
             /\ [Replay!NoAnswer EXCEPT !.error = e].items = Replay!NoAnswer.items
             /\ [Replay!NoAnswer EXCEPT !.error = e].error = e
  BY ONLY <1>5, e \in AnswerErrors DEF ReplayAnswer
<1>7. ASSUME NEW further \in BOOLEAN
      PROVE  /\ [Replay!NoAnswer EXCEPT !.has_more = further] \in ReplayAnswer
             /\ [Replay!NoAnswer EXCEPT !.has_more = further].items = Replay!NoAnswer.items
             /\ [Replay!NoAnswer EXCEPT !.has_more = further].error = Replay!NoAnswer.error
             /\ [Replay!NoAnswer EXCEPT !.has_more = further].has_more = further
  BY ONLY <1>5, further \in BOOLEAN DEF ReplayAnswer
<1>8. /\ Replay!NoAnswer.items = <<>> /\ Replay!NoAnswer.runs = <<>> /\ Replay!NoAnswer.error = "none"
      /\ Replay!NoAnswer.after = 0 /\ Replay!NoAnswer.has_more = FALSE
  BY <1>3 DEF empty
<1>9. QED
  BY <1>5, <1>6, <1>7, <1>8

\* The clock only makes a command late.
LEMMA ReplayTicks ==
  ASSUME ReplayConstants, ReplayInv, Replay!Tick
  PROVE  ReplayInv'
<1>1. /\ clock' = clock + 1 /\ clock \in 0 .. Timeout /\ clock < Timeout /\ Timeout \in Nat
      /\ UNCHANGED <<committed, damage, pc, mode, after, limit, page, next, snapshot, items, answer, scanned, known>>
  BY DEF Replay!Tick, Replay!Late, Replay!database, Replay!command, Replay!scan, ReplayConstants, ReplayInv,
     ReplayTypes
<1>2. DatabaseInv'
  BY <1>1, SameDatabase DEF ReplayInv
<1>3. ReplayTypes'
  BY <1>1, SameDatabase DEF ReplayInv, ReplayTypes
<1>4. PageInv'
  <2>1. clock >= Timeout => clock' >= Timeout
    BY <1>1
  <2>2. QED
    BY <1>1, <2>1, SameDatabase DEF ReplayInv, PageInv, OnPage
<1>5. SnapshotInv'
  BY <1>1, SameDatabase DEF ReplayInv, SnapshotInv, Replay!CompletePrefix
<1>6. AnswerInv'
  BY <1>1, SameDatabase DEF ReplayInv, AnswerInv
<1>7. ScanInv'
  BY <1>1 DEF ReplayInv, ScanInv, OnPage, Covers, Replay!Ascending, Replay!Position
<1>8. QED
  BY <1>2, <1>3, <1>4, <1>5, <1>6, <1>7 DEF ReplayInv

\* A command begins with nothing, a check where the last page ended.
LEMMA ReplayBegins ==
  ASSUME ReplayConstants, ReplayInv,
         \/ \E r \in RunIds : Replay!Replay(r)
         \/ \E start \in 0 .. Len(RunOrder), n \in ScanLimits : Replay!Check(start, n)
  PROVE  ReplayInv'
<1>1. /\ UNCHANGED <<committed, damage, snapshot>> /\ pc = "idle" /\ clock' = 0 /\ items' = <<>>
      /\ answer' = Replay!NoAnswer /\ pc' \in {"read", "list"}
  BY DEF Replay!Replay, Replay!Check, Replay!Begins, Replay!database
<1>2. DatabaseInv'
  BY <1>1, SameDatabase DEF ReplayInv
<1>3. ReplayAnswer' = ReplayAnswer /\ answer' \in ReplayAnswer /\ answer'.items = <<>> /\ answer'.error = "none"
  BY <1>1, NothingAnswered
<1>4. AnswerInv'
  BY <1>1, <1>3 DEF AnswerInv
<1>5. SnapshotInv'
  BY <1>1 DEF SnapshotInv
<1>6. Timeout \in Nat /\ items' \in Seq(ReplayItem) /\ 0 \in 0 .. Timeout
  BY <1>1 DEF ReplayConstants
<1>7. CASE \E r \in RunIds : Replay!Replay(r)
  <2>1. PICK r \in RunIds : Replay!Replay(r)
    BY <1>7
  <2>2. /\ mode' = "replay" /\ page' = <<r>> /\ next' = 1 /\ pc' = "read"
        /\ UNCHANGED <<after, limit, scanned, known>>
    BY <2>1 DEF Replay!Replay, Replay!Begins, Replay!scan
  <2>3. page' \in Seq(RunIds) /\ next' \in DOMAIN page'
    BY <2>2
  <2>4. ReplayTypes'
    BY <1>1, <1>3, <1>6, <2>2, <2>3, SameDatabase DEF ReplayInv, ReplayTypes
  <2>5. PageInv'
    BY <2>2 DEF PageInv, OnPage
  <2>6. ScanInv'
    BY <2>2 DEF ReplayInv, ScanInv, OnPage, Replay!Ascending, Replay!Position
  <2>7. QED
    BY <1>2, <1>4, <1>5, <2>4, <2>5, <2>6 DEF ReplayInv
<1>8. CASE \E start \in 0 .. Len(RunOrder), n \in ScanLimits : Replay!Check(start, n)
  <2>1. PICK start \in 0 .. Len(RunOrder), n \in ScanLimits : Replay!Check(start, n)
    BY <1>8
  <2>2. /\ mode' = "check" /\ after' = start /\ limit' = n /\ pc' = "list" /\ UNCHANGED <<page, next>>
        /\ scanned' = (IF start = 0 THEN <<>> ELSE scanned)
        /\ known' = (IF start = 0 THEN Replay!WithEvents ELSE known)
        /\ (start = 0 \/ (start = answer.after /\ mode = "check" /\ answer.error = "none"))
    BY <2>1 DEF Replay!Check, Replay!Begins, Replay!StartsAt, Replay!Nothing
  <2>3. n \in Nat \ {0} /\ start \in Nat /\ scanned' \in Seq(RunIds)
    BY <2>2 DEF ReplayConstants, ReplayInv, ReplayTypes
  <2>4. known' \subseteq Replay!WithEvents'
    BY <1>1, <2>2, SameDatabase DEF ReplayInv, ReplayTypes
  <2>5. ReplayTypes'
    BY <1>1, <1>3, <1>6, <2>2, <2>3, <2>4 DEF ReplayInv, ReplayTypes
  <2>6. PageInv'
    BY <2>2 DEF PageInv, OnPage
  <2>7. CASE start = 0
    <3>1. scanned' = <<>> /\ known' = Replay!WithEvents /\ after' = 0
      BY <2>2, <2>7
    <3>2. known' \subseteq RunIds
      BY <3>1 DEF Replay!WithEvents
    <3>3. Covers(after)'
      BY <3>1, <3>2, PositionIs DEF Covers, Replay!Position
    <3>4. Replay!Ascending(scanned)'
      BY <3>1 DEF Replay!Ascending
    <3>5. QED
      BY <1>2, <1>4, <1>5, <2>2, <2>5, <2>6, <3>3, <3>4 DEF ReplayInv, ScanInv, OnPage
  <2>8. CASE start # 0
    <3>1. scanned' = scanned /\ known' = known /\ after' = answer.after /\ Covers(answer.after)
      BY <1>1, <2>2, <2>8 DEF ReplayInv, ScanInv
    <3>2. Covers(after)'
      BY <3>1 DEF Covers, Replay!Position
    <3>3. Replay!Ascending(scanned)'
      BY <3>1 DEF ReplayInv, ScanInv, Replay!Ascending, Replay!Position
    <3>4. QED
      BY <1>2, <1>4, <1>5, <2>2, <2>5, <2>6, <3>2, <3>3 DEF ReplayInv, ScanInv, OnPage
  <2>9. QED
    BY <2>7, <2>8
<1>9. QED
  BY <1>7, <1>8

\* A command that raises leaves nothing behind.
LEMMA ReplayRaises ==
  ASSUME ReplayConstants, ReplayInv, NEW e \in AnswerErrors \ {"none"}, Replay!Raise(e)
  PROVE  ReplayInv'
<1>1. /\ UNCHANGED <<committed, damage, mode, after, limit, page, next, clock, items, scanned, known>>
      /\ pc' = "idle" /\ answer' = [Replay!NoAnswer EXCEPT !.error = e]
  BY DEF Replay!Raise, Replay!database, Replay!command, Replay!scan
<1>2. answer' \in ReplayAnswer /\ answer'.items = <<>> /\ answer'.error = e /\ e # "none"
  BY <1>1, NothingAnswered
<1>3. DatabaseInv'
  BY <1>1, SameDatabase DEF ReplayInv
<1>4. ReplayTypes'
  BY <1>1, <1>2, SameDatabase DEF ReplayInv, ReplayTypes
<1>5. PageInv' /\ SnapshotInv'
  BY <1>1 DEF PageInv, SnapshotInv, OnPage
<1>6. AnswerInv'
  BY <1>1, <1>2 DEF AnswerInv
<1>7. ScanInv'
  BY <1>1, <1>2 DEF ReplayInv, ScanInv, OnPage, Replay!Ascending, Replay!Position
<1>8. QED
  BY <1>3, <1>4, <1>5, <1>6, <1>7 DEF ReplayInv

\* A sequence of n elements of a set, and no more.
LEMMA SeqOfIs ==
  ASSUME NEW S, NEW n \in Nat, NEW runs \in Replay!SeqOf(S, n)
  PROVE  runs \in Seq(S) /\ Len(runs) <= n
<1>1. PICK m \in 0 .. n : runs \in [1 .. m -> S]
  BY DEF Replay!SeqOf
<1>2. QED
  BY <1>1

\* A page holds what comes next in the order, or says that there is more.
LEMMA ReplayLists ==
  ASSUME ReplayConstants, ReplayInv, Replay!List
  PROVE  ReplayInv'
<1>1. pc = "list" /\ mode = "check" /\ items = <<>>
  BY DEF Replay!List, ReplayInv, ReplayTypes
<1>2. CASE Replay!Raise("query_timeout") \/ Replay!Raise("persistence_error")
  <2>1. {"query_timeout", "persistence_error"} \subseteq AnswerErrors \ {"none"}
    BY DEF AnswerErrors, ItemErrors
  <2>2. QED
    BY <1>2, <2>1, ReplayRaises
<1>3. CASE ~ (Replay!Raise("query_timeout") \/ Replay!Raise("persistence_error"))
  <2> DEFINE S == Replay!Following(after)
  <2>1. PICK runs \in Replay!SeqOf(S, limit) :
          /\ Replay!FirstOf(S, runs, limit) /\ page' = runs
          /\ answer' = [Replay!NoAnswer EXCEPT !.has_more = (Replay!ToSet(runs) # S)]
    BY <1>3 DEF Replay!List
  <2>2. /\ pc' = "next" /\ next' = 1
        /\ UNCHANGED <<committed, damage, mode, after, limit, clock, snapshot, items, scanned, known>>
    BY <1>3 DEF Replay!List, Replay!database, Replay!scan
  <2>3. /\ limit \in Nat /\ limit > 0 /\ after \in Nat /\ S \subseteq RunIds /\ S \subseteq Replay!WithEvents
        /\ \A r \in S : after < Replay!Position(r)
        /\ \A r \in Replay!WithEvents : after < Replay!Position(r) => r \in S
    <3>1. limit \in Nat /\ limit > 0 /\ after \in Nat
      BY DEF ReplayInv, ReplayTypes
    <3>2. \A r \in RunIds : Replay!Position(r) \in Nat
      BY PositionIs
    <3>3. QED
      BY <3>1, <3>2 DEF Replay!Following, Replay!WithEvents
  <2> HIDE DEF S
  <2>4. runs \in Seq(S) /\ Len(runs) <= limit /\ runs \in Seq(RunIds)
    <3>1. runs \in Seq(S) /\ Len(runs) <= limit
      BY <2>3, SeqOfIs
    <3>2. QED
      BY <2>3, <3>1
  <2>5. /\ answer' \in ReplayAnswer /\ answer'.items = <<>> /\ answer'.error = "none"
        /\ answer'.has_more = (Replay!ToSet(runs) # S)
    BY <2>1, NothingAnswered
  <2>6. \A k \in DOMAIN runs : runs[k] \in S
    BY <2>4
  <2>7. /\ Replay!Ascending(runs)
        /\ \A r \in S \ Replay!ToSet(runs) :
             Len(runs) = limit /\ \A k \in DOMAIN runs : Replay!Position(runs[k]) < Replay!Position(r)
    BY <2>1 DEF Replay!FirstOf
  <2>8. \A r : r \in Replay!ToSet(runs) <=> \E k \in DOMAIN runs : runs[k] = r
    BY DEF Replay!ToSet
  <2>9. answer'.has_more => runs # <<>>
    <3>1. SUFFICES ASSUME Replay!ToSet(runs) # S
                   PROVE  runs # <<>>
      BY <2>5
    <3>2. Replay!ToSet(runs) \subseteq S
      BY <2>6, <2>8
    <3>3. PICK r \in S : r \notin Replay!ToSet(runs)
      BY <3>1, <3>2
    <3>4. Len(runs) = limit
      BY <2>7, <3>3
    <3>5. QED
      BY <2>3, <3>4
  <2>10. DatabaseInv'
    BY <2>2, SameDatabase DEF ReplayInv
  <2>11. ReplayTypes'
    <3>1. ReplayTypes
      BY DEF ReplayInv
    <3>2. page' \in Seq(RunIds) /\ next' \in Nat \ {0}
      BY <2>1, <2>2, <2>4
    <3>3. Replay!WithEvents' = Replay!WithEvents
      BY <2>2, SameDatabase
    <3>4. QED
      BY <1>1, <2>2, <2>5, <3>1, <3>2, <3>3 DEF ReplayTypes
  <2>12. PageInv'
    <3>1. \A k \in DOMAIN page' : page'[k] \in Replay!WithEvents' /\ ~ k < next'
      <4>1. Replay!WithEvents' = Replay!WithEvents
        BY <2>2, SameDatabase
      <4>2. \A k \in DOMAIN runs : ~ k < 1
        BY <2>4
      <4>3. QED
        BY <2>1, <2>2, <2>3, <2>6, <4>1, <4>2
    <3>2. items' = <<>>
      BY <1>1, <2>2
    <3>3. QED
      BY <2>1, <2>9, <3>1, <3>2 DEF PageInv
  <2>13. SnapshotInv' /\ AnswerInv'
    BY <2>2, <2>5 DEF SnapshotInv, AnswerInv
  <2>14. ScanInv'
    <3>1. Replay!Ascending(scanned)' /\ Covers(after)'
      BY <1>1, <2>2 DEF ReplayInv, ScanInv, Replay!Ascending, Replay!Position, Covers
    <3>2. Replay!Ascending(page)' /\ \A k \in DOMAIN page' : after' < Replay!Position(page'[k])
      BY <2>1, <2>2, <2>3, <2>6, <2>7 DEF Replay!Ascending
    <3>3. ASSUME NEW r \in known', after' < Replay!Position(r)
          PROVE  \/ \E k \in DOMAIN page' : page'[k] = r
                 \/ answer'.has_more /\ \A k \in DOMAIN page' : Replay!Position(page'[k]) < Replay!Position(r)
      <4>1. r \in S
        BY <2>2, <2>3, <3>3 DEF ReplayInv, ReplayTypes
      <4>2. CASE r \in Replay!ToSet(runs)
        BY <2>1, <2>8, <4>2
      <4>3. CASE r \notin Replay!ToSet(runs)
        BY <2>1, <2>5, <2>7, <4>1, <4>3
      <4>4. QED
        BY <4>2, <4>3
    <3>4. QED
      BY <2>2, <3>1, <3>2, <3>3 DEF ScanInv, Replay!Position
  <2>15. QED
    BY <2>10, <2>11, <2>12, <2>13, <2>14 DEF ReplayInv
<1>4. QED
  BY <1>2, <1>3

\* A sequence that goes on with another.
LEMMA ConcatIs ==
  ASSUME NEW X, NEW s \in Seq(X), NEW t \in Seq(X)
  PROVE  /\ s \o t \in Seq(X) /\ Len(s \o t) = Len(s) + Len(t)
         /\ \A i \in DOMAIN s : i \in DOMAIN (s \o t) /\ (s \o t)[i] = s[i]
         /\ \A k \in DOMAIN t : Len(s) + k \in DOMAIN (s \o t) /\ (s \o t)[Len(s) + k] = t[k]
         /\ \A i \in DOMAIN (s \o t) : i \in DOMAIN s \/ (i - Len(s) \in DOMAIN t /\ Len(s) < i)
OBVIOUS

\* A page that is complete continues the scan.
LEMMA ScanGoesOn ==
  ASSUME ReplayConstants, ReplayInv, mode = "check", pc = "next", next > Len(page),
         NEW further, further = answer.has_more
  PROVE  LET seen == scanned \o page
             c == Replay!Cursor
         IN  /\ seen \in Seq(RunIds) /\ Replay!Ascending(seen) /\ c \in Nat
             /\ c = IF seen = <<>> THEN 0 ELSE Replay!Position(seen[Len(seen)])
             /\ \A r \in known : Replay!Position(r) <= c => \E i \in DOMAIN seen : seen[i] = r
             /\ ~ further => \A r \in known : \E i \in DOMAIN seen : seen[i] = r
<1> DEFINE seen == scanned \o page
           c == Replay!Cursor
           place(r) == Replay!Position(r)
           final == Len(page)
<1>1. /\ scanned \in Seq(RunIds) /\ page \in Seq(RunIds) /\ after \in Nat /\ known \subseteq RunIds
      /\ Replay!Ascending(scanned) /\ Replay!Ascending(page) /\ Covers(after)
      /\ \A k \in DOMAIN page : after < place(page[k])
      /\ \A r \in known : after < place(r) =>
           \/ \E k \in DOMAIN page : page[k] = r
           \/ answer.has_more /\ \A k \in DOMAIN page : place(page[k]) < place(r)
  BY DEF ReplayInv, ReplayTypes, ScanInv, OnPage, Replay!WithEvents
<1>2. \A r \in RunIds : place(r) \in Nat \ {0}
  BY PositionIs
<1>3. /\ seen \in Seq(RunIds) /\ Len(seen) = Len(scanned) + Len(page)
      /\ \A i \in DOMAIN scanned : i \in DOMAIN seen /\ seen[i] = scanned[i]
      /\ \A k \in DOMAIN page : Len(scanned) + k \in DOMAIN seen /\ seen[Len(scanned) + k] = page[k]
      /\ \A i \in DOMAIN seen : i \in DOMAIN scanned \/ (i - Len(scanned) \in DOMAIN page /\ Len(scanned) < i)
  BY <1>1, ConcatIs
<1>4. c = IF page = <<>> THEN after ELSE place(page[final])
  BY DEF Replay!Cursor
<1> HIDE DEF seen, c
<1>5. \A i \in DOMAIN scanned : scanned[i] \in RunIds /\ place(scanned[i]) <= after
  <2>1. ASSUME NEW i \in DOMAIN scanned
        PROVE  scanned[i] \in RunIds /\ place(scanned[i]) <= after
    <3>1. scanned # <<>> /\ Len(scanned) \in DOMAIN scanned /\ scanned[i] \in RunIds /\ i <= Len(scanned)
          /\ scanned[Len(scanned)] \in RunIds
      BY <1>1
    <3>2. after = place(scanned[Len(scanned)])
      BY <1>1, <3>1 DEF Covers
    <3>3. i # Len(scanned) => place(scanned[i]) < place(scanned[Len(scanned)])
      BY <1>1, <3>1 DEF Replay!Ascending
    <3>4. place(scanned[i]) \in Nat /\ place(scanned[Len(scanned)]) \in Nat
      BY <1>2, <3>1
    <3> HIDE DEF place
    <3>5. QED
      BY <1>1, <3>1, <3>2, <3>3, <3>4
  <2>2. QED
    BY <2>1
<1>6. \A k \in DOMAIN page : page[k] \in RunIds /\ place(page[k]) <= c
  <2>1. ASSUME NEW k \in DOMAIN page
        PROVE  page[k] \in RunIds /\ place(page[k]) <= c
    <3>1. page # <<>> /\ final \in DOMAIN page /\ page[k] \in RunIds /\ k <= final /\ page[final] \in RunIds
      BY <1>1
    <3>2. k # final => place(page[k]) < place(page[final])
      BY <1>1, <3>1 DEF Replay!Ascending
    <3>3. place(page[k]) \in Nat /\ place(page[final]) \in Nat /\ c = place(page[final])
      BY <1>2, <1>4, <3>1
    <3> HIDE DEF place, final
    <3>4. QED
      BY <3>1, <3>2, <3>3
  <2>2. QED
    BY <2>1
<1>7. Replay!Ascending(seen)
  <2>1. ASSUME NEW i \in DOMAIN seen, NEW j \in DOMAIN seen, i < j
        PROVE  place(seen[i]) < place(seen[j])
    <3> DEFINE m == Len(scanned)
    <3>1. m \in Nat /\ DOMAIN scanned = 1 .. m /\ DOMAIN page = 1 .. final /\ i \in Nat /\ j \in Nat
      BY <1>1, <1>3
    <3>2. CASE j \in DOMAIN scanned
      <4>1. i \in DOMAIN scanned
        BY <1>3, <2>1, <3>1, <3>2
      <4>2. place(scanned[i]) < place(scanned[j])
        BY <1>1, <2>1, <3>2, <4>1 DEF Replay!Ascending
      <4>3. QED
        BY <1>3, <3>2, <4>1, <4>2
    <3>3. CASE j - m \in DOMAIN page /\ i \in DOMAIN scanned
      <4>1. seen[i] = scanned[i] /\ seen[j] = page[j - m]
        <5>1. m + (j - m) = j
          BY <3>1
        <5>2. QED
          BY <1>3, <3>3, <5>1
      <4>2. place(scanned[i]) <= after /\ after < place(page[j - m]) /\ scanned[i] \in RunIds /\ page[j - m] \in RunIds
        BY <1>1, <1>5, <1>6, <3>3
      <4>3. place(scanned[i]) \in Nat /\ place(page[j - m]) \in Nat
        BY <1>2, <4>2
      <4> HIDE DEF place
      <4>4. QED
        BY <1>1, <4>1, <4>2, <4>3
    <3>4. CASE j - m \in DOMAIN page /\ i - m \in DOMAIN page
      <4>1. seen[i] = page[i - m] /\ seen[j] = page[j - m]
        <5>1. m + (j - m) = j /\ m + (i - m) = i
          BY <3>1
        <5>2. QED
          BY <1>3, <3>4, <5>1
      <4>2. i - m < j - m
        BY <2>1, <3>1
      <4>3. QED
        BY <1>1, <3>4, <4>1, <4>2 DEF Replay!Ascending
    <3>5. QED
      BY <1>3, <3>2, <3>3, <3>4
  <2>2. QED
    BY <2>1 DEF Replay!Ascending
<1>8. c \in Nat /\ c = IF seen = <<>> THEN 0 ELSE place(seen[Len(seen)])
  <2>1. CASE page = <<>>
    <3>1. seen = scanned
      BY <1>1, <2>1 DEF seen
    <3>2. QED
      BY <1>1, <1>4, <2>1, <3>1 DEF Covers
  <2>2. CASE page # <<>>
    <3>1. final \in DOMAIN page /\ page[final] \in RunIds /\ final \in Nat
      BY <1>1, <2>2
    <3>2. seen[Len(seen)] = page[final] /\ seen # <<>>
      BY <1>3, <3>1
    <3>3. QED
      BY <1>2, <1>4, <2>2, <3>1, <3>2
  <2>3. QED
    BY <2>1, <2>2
<1>9. ASSUME NEW r \in known, place(r) <= c \/ ~ answer.has_more
      PROVE  \E i \in DOMAIN seen : seen[i] = r
  <2>1. r \in RunIds /\ place(r) \in Nat
    BY <1>1, <1>2
  <2>2. CASE place(r) <= after
    <3>1. \E i \in DOMAIN scanned : scanned[i] = r
      BY <1>1, <2>2 DEF Covers
    <3>2. QED
      BY <1>3, <3>1
  <2>3. CASE \E k \in DOMAIN page : page[k] = r
    BY <1>3, <2>3
  <2>4. CASE after < place(r) /\ ~ \E k \in DOMAIN page : page[k] = r
    <3>1. answer.has_more /\ \A k \in DOMAIN page : place(page[k]) < place(r)
      BY <1>1, <2>4
    <3>2. place(r) <= c
      BY <1>9, <3>1
    <3>3. CASE page = <<>>
      <4>1. c = after
        BY <1>4, <3>3
      <4> HIDE DEF place
      <4>2. QED
        BY <1>1, <2>1, <2>4, <3>2, <4>1
    <3>4. CASE page # <<>>
      <4>1. final \in DOMAIN page /\ page[final] \in RunIds
        BY <1>1, <3>4
      <4>2. place(page[final]) < place(r) /\ c = place(page[final]) /\ c \in Nat
        BY <1>4, <1>8, <3>1, <3>4, <4>1
      <4> HIDE DEF place
      <4>3. QED
        BY <2>1, <3>2, <4>2
    <3>5. QED
      BY <3>3, <3>4
  <2>5. place(r) <= after \/ after < place(r)
    <3> HIDE DEF place
    <3>1. QED
      BY <1>1, <2>1
  <2>6. QED
    BY <2>2, <2>3, <2>4, <2>5
<1>10. QED
  BY <1>3, <1>7, <1>8, <1>9 DEF seen, c
\* The next Run of the page is read, or the page is answered.
LEMMA ReplayGoesOn ==
  ASSUME ReplayConstants, ReplayInv, Replay!NextRun
  PROVE  ReplayInv'
<1>1. pc = "next" /\ mode = "check" /\ OnPage /\ "query_timeout" \in AnswerErrors \ {"none"}
  BY DEF Replay!NextRun, ReplayInv, ReplayTypes, OnPage, AnswerErrors
<1>2. CASE Replay!OutOfTime
  <2>1. Replay!Raise("query_timeout")
    BY <1>2 DEF Replay!NextRun
  <2>2. QED
    BY <1>1, <2>1, ReplayRaises
<1>3. CASE ~ Replay!OutOfTime /\ next <= Len(page)
  <2>1. /\ pc' = "read"
        /\ UNCHANGED <<committed, damage, mode, after, limit, page, next, clock, snapshot, items, answer,
                       scanned, known>>
    BY <1>3 DEF Replay!NextRun, Replay!database, Replay!command, Replay!scan
  <2>2. DatabaseInv'
    BY <2>1, SameDatabase DEF ReplayInv
  <2>3. ReplayTypes'
    <3>1. ReplayTypes /\ next \in DOMAIN page
      BY <1>3 DEF ReplayInv, ReplayTypes
    <3>2. QED
      BY <1>1, <2>1, <3>1, SameDatabase DEF ReplayTypes
  <2>4. PageInv'
    BY <1>1, <2>1, SameDatabase DEF ReplayInv, PageInv
  <2>5. SnapshotInv'
    BY <2>1 DEF SnapshotInv
  <2>6. AnswerInv'
    BY <2>1, SameDatabase DEF ReplayInv, AnswerInv
  <2>7. ScanInv'
    BY <1>1, <2>1 DEF ReplayInv, ScanInv, OnPage, Covers, Replay!Ascending, Replay!Position
  <2>8. QED
    BY <2>2, <2>3, <2>4, <2>5, <2>6, <2>7 DEF ReplayInv
<1>4. CASE ~ Replay!OutOfTime /\ ~ next <= Len(page)
  <2>1. /\ answer' = [answer EXCEPT !.runs = page, !.items = items, !.after = Replay!Cursor]
        /\ scanned' = scanned \o page /\ pc' = "idle"
        /\ UNCHANGED <<committed, damage, mode, after, limit, page, next, clock, snapshot, items, known>>
    BY <1>4 DEF Replay!NextRun, Replay!database, Replay!command
  <2>2. /\ page \in Seq(RunIds) /\ items \in Seq(ReplayItem) /\ answer \in ReplayAnswer /\ next \in Nat
        /\ Len(page) \in Nat /\ next > Len(page) /\ answer.error = "none" /\ ~ clock >= Timeout
    BY <1>1, <1>4 DEF ReplayInv, ReplayTypes, Replay!OutOfTime, Replay!Late
  <2> DEFINE further == answer.has_more
  <2>3. /\ scanned' \in Seq(RunIds) /\ Replay!Ascending(scanned') /\ Replay!Cursor \in Nat
        /\ Replay!Cursor = IF scanned' = <<>> THEN 0 ELSE Replay!Position(scanned'[Len(scanned')])
        /\ \A r \in known : Replay!Position(r) <= Replay!Cursor => \E i \in DOMAIN scanned' : scanned'[i] = r
        /\ ~ further => \A r \in known : \E i \in DOMAIN scanned' : scanned'[i] = r
    BY <1>1, <2>1, <2>2, ScanGoesOn
  <2>4. /\ answer' \in ReplayAnswer /\ answer'.runs = page /\ answer'.items = items
        /\ answer'.after = Replay!Cursor /\ answer'.has_more = further /\ answer'.error = "none"
    <3> HIDE DEF ReplayItem, AnswerErrors
    <3>1. QED
      BY <2>1, <2>2, <2>3 DEF ReplayAnswer
  <2>5. DatabaseInv'
    BY <2>1, SameDatabase DEF ReplayInv
  <2>6. ReplayTypes'
    <3>1. ReplayTypes
      BY DEF ReplayInv
    <3>2. QED
      BY <2>1, <2>3, <2>4, <3>1, SameDatabase DEF ReplayTypes
  <2>7. PageInv' /\ SnapshotInv'
    BY <2>1 DEF PageInv, OnPage, SnapshotInv
  <2>8. AnswerInv'
    <3>1. /\ further => page # <<>>
          /\ \A k \in DOMAIN page : k < next /\ Handled(page[k], items)
          /\ \A i \in DOMAIN items :
               /\ \E k \in DOMAIN page : items[i].run = page[k]
               /\ ItemSound(items[i]) /\ items[i].error # "query_timeout"
      BY <1>1, <2>2 DEF ReplayInv, PageInv
    <3>2. \A i \in DOMAIN items : items[i].error \in ItemErrors
      <4>1. \A i \in DOMAIN items : items[i] \in ReplayItem
        BY <2>2
      <4>2. \A item \in ReplayItem : item.error \in ItemErrors \cup {"query_timeout"}
        BY DEF ReplayItem
      <4>3. QED
        BY <3>1, <4>1, <4>2
    <3>3. QED
      BY <2>1, <2>4, <3>1, <3>2, SameDatabase DEF AnswerInv
  <2>9. ScanInv'
    <3>1. Covers(answer.after)'
      BY <2>1, <2>3, <2>4 DEF Covers, Replay!Position
    <3>2. Replay!Ascending(scanned)'
      BY <2>3 DEF Replay!Ascending, Replay!Position
    <3>3. QED
      BY <2>1, <2>3, <2>4, <3>1, <3>2 DEF ScanInv, OnPage
  <2>10. QED
    BY <2>5, <2>6, <2>7, <2>8, <2>9 DEF ReplayInv
<1>5. QED
  BY <1>2, <1>3, <1>4

\* A Run of a check is done with, and an item of the page tells why it needs
\* attention; a Run that is left out is healthy.
LEMMA ReplayDone ==
  ASSUME ReplayConstants, ReplayInv, mode = "check", pc \in {"read", "rows", "reduce"},
         next' = next + 1, pc' = "next",
         UNCHANGED <<committed, damage, mode, after, limit, page, clock, answer, scanned, known>>,
         \/ items' = items /\ Healthy(page[next])
         \/ \E item \in ReplayItem :
              /\ items' = Append(items, item) /\ item.run = page[next] /\ ItemSound(item)
              /\ item.error = "query_timeout" => clock >= Timeout
              /\ damage[page[next]] \in Broken => item.error # "none"
  PROVE  ReplayInv'
<1>1. /\ OnPage /\ ReplayTypes /\ items \in Seq(ReplayItem) /\ page \in Seq(RunIds)
      /\ next \in DOMAIN page /\ next \in Nat
  BY DEF OnPage, ReplayInv, ReplayTypes
<1>2. /\ items' \in Seq(ReplayItem)
      /\ \A i \in DOMAIN items : i \in DOMAIN items' /\ items'[i] = items[i]
  <2>1. CASE items' = items
    BY <1>1, <2>1
  <2>2. CASE items' # items
    <3>1. PICK item \in ReplayItem : items' = Append(items, item)
      BY <2>2
    <3> HIDE DEF ReplayItem
    <3>2. QED
      BY <1>1, <3>1
  <2>3. QED
    BY <2>1, <2>2
<1>3. \A r : Handled(r, items) => Handled(r, items')
  BY <1>2 DEF Handled
<1>4. Handled(page[next], items')
  <2>1. CASE items' = items
    BY <2>1 DEF Handled
  <2>2. CASE items' # items
    <3>1. PICK item \in ReplayItem :
            /\ items' = Append(items, item) /\ item.run = page[next]
            /\ damage[page[next]] \in Broken => item.error # "none"
      BY <2>2
    <3> HIDE DEF ReplayItem
    <3>2. Len(items) + 1 \in DOMAIN items' /\ items'[Len(items) + 1] = item
      BY <1>1, <3>1
    <3>3. QED
      BY <3>1, <3>2 DEF Handled
  <2>3. QED
    BY <2>1, <2>2
<1>5. ASSUME NEW i \in DOMAIN items'
      PROVE  /\ \E k \in DOMAIN page : items'[i].run = page[k]
             /\ ItemSound(items'[i])
             /\ items'[i].error = "query_timeout" => clock >= Timeout
  <2>1. CASE i \in DOMAIN items
    BY <1>1, <1>2, <2>1 DEF ReplayInv, PageInv
  <2>2. CASE i \notin DOMAIN items
    <3>1. PICK item \in ReplayItem :
            /\ items' = Append(items, item) /\ item.run = page[next] /\ ItemSound(item)
            /\ item.error = "query_timeout" => clock >= Timeout
      BY <2>2
    <3>2. items'[i] = item
      <4> HIDE DEF ReplayItem
      <4>1. QED
        BY <1>1, <2>2, <3>1
    <3>3. QED
      BY <1>1, <3>1, <3>2
  <2>3. QED
    BY <2>1, <2>2
<1>6. DatabaseInv'
  BY SameDatabase DEF ReplayInv
<1>7. ReplayTypes'
  BY <1>1, <1>2, SameDatabase DEF ReplayTypes
<1>8. PageInv'
  <2>1. ASSUME NEW k \in DOMAIN page
        PROVE  page[k] \in Replay!WithEvents /\ (k < next + 1 => Handled(page[k], items'))
    <3>1. page[k] \in Replay!WithEvents /\ (k < next => Handled(page[k], items))
      BY <1>1 DEF ReplayInv, PageInv
    <3>2. k < next + 1 => k < next \/ k = next
      BY <1>1
    <3>3. QED
      BY <1>3, <1>4, <3>1, <3>2
  <2>2. answer.has_more => page # <<>>
    BY <1>1 DEF ReplayInv, PageInv
  <2>3. QED
    BY <1>5, <2>1, <2>2, SameDatabase DEF PageInv
<1>9. SnapshotInv'
  BY DEF SnapshotInv
<1>10. AnswerInv'
  BY SameDatabase DEF ReplayInv, AnswerInv
<1>11. ScanInv'
  BY <1>1 DEF ReplayInv, ScanInv, OnPage, Covers, Replay!Ascending, Replay!Position
<1>12. QED
  BY <1>6, <1>7, <1>8, <1>9, <1>10, <1>11 DEF ReplayInv

\* A Run that cannot be read is an item of a check and ends a replay.
LEMMA ReplayRunFails ==
  ASSUME ReplayConstants, ReplayInv, pc \in {"read", "rows", "reduce"},
         NEW e \in AnswerErrors \ {"none"}, Replay!RunFails(e),
         e = "query_timeout" => clock >= Timeout,
         e = "run_not_found" => Replay!Rows(page[next]) = <<>>
  PROVE  ReplayInv'
<1>1. CASE mode # "check"
  <2>1. Replay!Raise(e)
    BY <1>1 DEF Replay!RunFails
  <2>2. QED
    BY <2>1, ReplayRaises
<1>2. CASE mode = "check"
  <2> DEFINE item == Replay!Item(page[next], e, Replay!NoSummary)
  <2>1. /\ items' = Append(items, item) /\ next' = next + 1 /\ pc' = "next"
        /\ UNCHANGED <<committed, damage, mode, after, limit, page, clock, answer, scanned, known>>
    BY <1>2 DEF Replay!RunFails, Replay!AddItem, Replay!database, Replay!scan
  <2>2. page[next] \in Replay!WithEvents /\ page[next] \in RunIds
    BY <1>2 DEF ReplayInv, ReplayTypes, PageInv, OnPage
  <2>3. e # "run_not_found"
    BY <2>2 DEF Replay!WithEvents
  <2>4. item \in ReplayItem /\ item.run = page[next] /\ item.error = e
    BY <2>2, <2>3 DEF Replay!Item, Replay!NoSummary, ReplayItem, AnswerErrors, ItemErrors, RunStatuses
  <2> HIDE DEF item
  <2>5. ItemSound(item) /\ (item.error = "query_timeout" => clock >= Timeout) /\ item.error # "none"
    BY <2>4 DEF ItemSound
  <2>6. QED
    BY <1>2, <2>1, <2>4, <2>5, ReplayDone
<1>3. QED
  BY <1>1, <1>2

\* The read transaction sees one moment of the Run.
LEMMA ReplayReads ==
  ASSUME ReplayConstants, ReplayInv, Replay!Read
  PROVE  ReplayInv'
<1> DEFINE r == page[next]
<1>1. pc = "read" /\ {"query_timeout", "persistence_error", "run_not_found", "query_limit_exceeded"} \subseteq AnswerErrors \ {"none"}
  BY DEF Replay!Read, AnswerErrors, ItemErrors
<1>2. CASE \/ Replay!Late /\ Replay!RunFails("query_timeout")
           \/ Replay!RunFails("persistence_error")
           \/ Replay!Rows(r) = <<>> /\ Replay!RunFails("run_not_found")
           \/ Replay!RunFails("query_limit_exceeded")
  BY <1>1, <1>2, ReplayRunFails DEF Replay!Late
<1>3. CASE /\ Replay!Rows(r) # <<>>
           /\ snapshot' = [events |-> Replay!Rows(r), projection |-> Replay!Projection(r)]
           /\ pc' = "rows"
           /\ UNCHANGED <<Replay!database, Replay!command, clock, items, answer, Replay!scan>>
  <2>1. UNCHANGED <<committed, damage, mode, after, limit, page, next, clock, items, answer, scanned, known>>
    BY <1>3 DEF Replay!database, Replay!command, Replay!scan
  <2>2. ReplayTypes /\ r \in RunIds /\ committed[r] \in Nat
    BY <1>1 DEF ReplayInv, ReplayTypes, DatabaseInv
  <2>3. Seen(r, snapshot'.events, snapshot'.projection)
    <3>1. /\ Replay!Rows(r) = RowsOf(r, committed[r]) /\ Replay!Projection(r) = ProjectionOf(r, committed[r])
      BY <2>2, DatabaseAnswers
    <3>2. snapshot'.events = Replay!Rows(r) /\ snapshot'.projection = Replay!Projection(r)
      BY <1>3
    <3>3. committed[r] \in 0 .. committed[r]
      BY <2>2
    <3> HIDE DEF r
    <3>4. QED
      BY <1>3, <3>1, <3>2, <3>3 DEF Seen
  <2>4. DatabaseInv'
    BY <2>1, SameDatabase DEF ReplayInv
  <2>5. ReplayTypes'
    BY <1>1, <1>3, <2>1, <2>2, SameDatabase DEF ReplayTypes
  <2>6. PageInv'
    BY <1>1, <1>3, <2>1, SameDatabase DEF ReplayInv, PageInv, OnPage
  <2>7. SnapshotInv'
    BY <1>3, <2>1, <2>3, SameDatabase DEF SnapshotInv
  <2>8. AnswerInv'
    BY <1>1, <1>3, <2>1, SameDatabase DEF ReplayInv, AnswerInv
  <2>9. ScanInv'
    BY <1>1, <1>3, <2>1 DEF ReplayInv, ScanInv, OnPage, Covers, Replay!Ascending, Replay!Position
  <2>10. QED
    BY <2>4, <2>5, <2>6, <2>7, <2>8, <2>9 DEF ReplayInv
<1>4. QED
  BY <1>2, <1>3 DEF Replay!Read

\* What was read is reduced, unless it is no prefix of a Run.
LEMMA ReplayReadsRows ==
  ASSUME ReplayConstants, ReplayInv, Replay!ReadRows
  PROVE  ReplayInv'
<1> DEFINE r == page[next]
<1>1. pc = "rows" /\ {"query_timeout", "invalid_event"} \subseteq AnswerErrors \ {"none"}
  BY DEF Replay!ReadRows, AnswerErrors, ItemErrors
<1>2. CASE Replay!Late /\ Replay!RunFails("query_timeout")
  BY <1>1, <1>2, ReplayRunFails DEF Replay!Late
<1>3. CASE Replay!RunFails("invalid_event")
  BY <1>1, <1>3, ReplayRunFails
<1>4. CASE /\ damage[r] # "undecodable" /\ Replay!CompletePrefix(r, snapshot.events)
           /\ snapshot' = snapshot /\ pc' = "reduce"
           /\ UNCHANGED <<Replay!database, Replay!command, clock, items, answer, Replay!scan>>
  <2>1. UNCHANGED <<committed, damage, mode, after, limit, page, next, clock, snapshot, items, answer, scanned, known>>
    BY <1>4 DEF Replay!database, Replay!command, Replay!scan
  <2>2. DatabaseInv'
    BY <2>1, SameDatabase DEF ReplayInv
  <2>3. ReplayTypes'
    BY <1>1, <1>4, <2>1, SameDatabase DEF ReplayInv, ReplayTypes
  <2>4. PageInv'
    BY <1>1, <1>4, <2>1, SameDatabase DEF ReplayInv, PageInv, OnPage
  <2>5. SnapshotInv'
    BY <1>1, <1>4, <2>1, SameDatabase DEF ReplayInv, SnapshotInv, Replay!CompletePrefix
  <2>6. AnswerInv'
    BY <1>1, <1>4, <2>1, SameDatabase DEF ReplayInv, AnswerInv
  <2>7. ScanInv'
    BY <1>1, <1>4, <2>1 DEF ReplayInv, ScanInv, OnPage, Covers, Replay!Ascending, Replay!Position
  <2>8. QED
    BY <2>2, <2>3, <2>4, <2>5, <2>6, <2>7 DEF ReplayInv
<1>5. QED
  BY <1>2, <1>3, <1>4 DEF Replay!ReadRows, Replay!Snapshot

\* A stream that passes is a prefix of its Run.
LEMMA PassesAsPrefix ==
  ASSUME ReplayConstants, DatabaseInv, NEW r \in RunIds, NEW rows, NEW projection,
         Seen(r, rows, projection), damage[r] # "undecodable",
         Replay!CompletePrefix(r, rows), Replay!Reconstructed(rows) # Replay!Bad
  PROVE  \E n \in 1 .. committed[r] :
           /\ damage[r] # "none" => n = committed[r]
           /\ n \in 1 .. Len(Scripts[r]) /\ Replay!Reconstructed(rows) = Recon(r, n)
           /\ projection = ProjectionOf(r, n) /\ damage[r] \notin Broken
<1>1. PICK n \in 0 .. committed[r] :
        /\ damage[r] # "none" => n = committed[r]
        /\ rows = RowsOf(r, n) /\ rows # <<>> /\ projection = ProjectionOf(r, n)
  BY DEF Seen
<1>2. /\ committed[r] \in Nat /\ committed[r] <= Len(Scripts[r]) /\ Len(Scripts[r]) \in Nat
      /\ damage[r] \in Replay!Damages /\ (damage[r] # "none" => committed[r] > 0)
  BY DEF DatabaseInv, ReplayConstants
<1>3. n \in 0 .. Len(Scripts[r]) /\ n \in Nat /\ (n # 0 => n \in 1 .. Len(Scripts[r]))
  BY <1>1, <1>2
<1>4. Prefix(r, n) \in Seq(Event) /\ Len(Prefix(r, n)) = n
  BY <1>3, PrefixIs
<1>5. damage[r] # "gap"
  <2>1. SUFFICES ASSUME damage[r] = "gap"
                 PROVE  FALSE
    OBVIOUS
  <2>2. n \in 1 .. Len(Scripts[r]) /\ n # 0
    BY <1>1, <1>2, <1>3, <2>1
  <2>3. Prefix(r, n) # <<>>
    <3> HIDE DEF Event
    <3>1. QED
      BY <1>4, <2>2
  <2>4. rows = Tail(Prefix(r, n))
    BY <1>1, <2>1, <2>3 DEF RowsOf
  <2>5. QED
    BY <1>1, <2>2, <2>4, GapShows
<1>6. damage[r] # "illegal"
  <2>1. SUFFICES ASSUME damage[r] = "illegal"
                 PROVE  FALSE
    OBVIOUS
  <2>2. n \in 1 .. Len(Scripts[r])
    BY <1>1, <1>2, <1>3, <2>1
  <2>3. rows = Prefix(r, n) \o <<Replay!Blank(r, n + 1, "RunCreated", "run")>>
    BY <1>1, <2>1 DEF RowsOf
  <2>4. QED
    BY <2>2, <2>3, IllegalIsBad
<1>7. rows = Prefix(r, n)
  BY <1>1, <1>5, <1>6 DEF RowsOf
<1>8. n # 0
  <2> HIDE DEF Event
  <2>1. QED
    BY <1>1, <1>4, <1>7
<1>9. QED
  BY <1>1, <1>2, <1>3, <1>5, <1>6, <1>7, <1>8 DEF Recon, Broken

\* What replay says of a stream that it takes is true of one prefix, and a Run
\* that needs no attention is healthy.
LEMMA SummaryIsTrue ==
  ASSUME ReplayConstants, DatabaseInv, NEW r \in RunIds,
         Seen(r, snapshot.events, snapshot.projection), damage[r] # "undecodable",
         Replay!CompletePrefix(r, snapshot.events),
         NEW state, state = Replay!Reconstructed(snapshot.events), state # Replay!Bad,
         NEW item, item = Replay!Item(r, "none", Replay!Summary(r, state))
  PROVE  /\ item \in ReplayItem /\ item.run = r /\ item.error = "none" /\ ItemSound(item)
         /\ damage[r] \notin Broken
         /\ ~ Replay!NeedsAttention(Replay!Summary(r, state)) => Healthy(r)
<1> DEFINE summary == Replay!Summary(r, state)
           compared == Replay!Comparison(r, state)
<1>1. PICK n \in 1 .. committed[r] :
           /\ damage[r] # "none" => n = committed[r]
           /\ n \in 1 .. Len(Scripts[r]) /\ state = Recon(r, n)
           /\ snapshot.projection = ProjectionOf(r, n) /\ damage[r] \notin Broken
  BY PassesAsPrefix
<1>2. /\ committed[r] \in Nat /\ committed[r] <= Len(Scripts[r]) /\ Len(Scripts[r]) \in Nat
      /\ damage[r] \in Replay!Damages /\ n \in Nat
  BY DEF DatabaseInv, ReplayConstants
<1>3. /\ state \in RunState /\ state.last_sequence = n /\ state.status # "absent"
      /\ state.status \in RunStatuses
  <2>1. state \in RunState /\ state.last_sequence = n /\ state.status # "absent"
    BY <1>1, PrefixTells
  <2>2. QED
    BY <2>1 DEF RunState
<1>4. Replay!ActiveOf(state) \in ActivityIds \cup {None}
  <2>1. CASE Replay!HasActive(state)
    <3> DEFINE i == CHOOSE i \in DOMAIN state.activities : Replay!IsActive(state.activities[i])
    <3>1. \E i_1 \in DOMAIN state.activities : Replay!IsActive(state.activities[i_1])
      BY <2>1 DEF Replay!HasActive
    <3>2. i \in DOMAIN state.activities
      BY <3>1
    <3>3. state.activities \in Seq(ActivityState)
      BY <1>3 DEF RunState
    <3>4. state.activities[i].activity \in ActivityIds
      <4> HIDE DEF i
      <4>1. state.activities[i] \in ActivityState
        BY <3>2, <3>3
      <4>2. QED
        BY <4>1 DEF ActivityState
    <3>5. Replay!ActiveOf(state) = state.activities[i].activity
      BY <2>1 DEF Replay!ActiveOf
    <3>6. QED
      BY <3>4, <3>5
  <2>2. CASE ~ Replay!HasActive(state)
    BY <2>2 DEF Replay!ActiveOf
  <2>3. QED
    BY <2>1, <2>2
<1>5. compared = "matched" <=>
        \/ damage[r] = "none"
        \/ damage[r] = "false_projection" /\ state.status = "succeeded"
  <2>1. damage[r] = "none" => snapshot.projection = state
    BY <1>1 DEF ProjectionOf
  <2>2. damage[r] = "false_projection" =>
          (snapshot.projection = state <=> state.status = "succeeded")
    <3>1. SUFFICES ASSUME damage[r] = "false_projection"
                   PROVE  [state EXCEPT !.status = "succeeded"] = state <=> state.status = "succeeded"
      BY <1>1 DEF ProjectionOf
    <3>2. QED
      BY <1>3 DEF RunState
  <2>3. damage[r] \in {"none", "no_projection", "bad_projection", "false_projection"}
    BY <1>1, <1>2 DEF Replay!Damages, Broken
  <2>4. /\ damage[r] \in {"none", "false_projection"} =>
             (compared = "matched" <=> snapshot.projection = state)
        /\ damage[r] = "no_projection" => compared = "missing"
        /\ damage[r] = "bad_projection" => compared = "unreadable"
    BY DEF Replay!Comparison
  <2> HIDE DEF compared
  <2>5. QED
    <3>1. CASE damage[r] = "none"
      BY <2>1, <2>4, <3>1
    <3>2. CASE damage[r] = "false_projection"
      BY <2>2, <2>4, <3>2
    <3>3. CASE damage[r] \in {"no_projection", "bad_projection"}
      BY <2>4, <3>3
    <3>4. QED
      BY <2>3, <3>1, <3>2, <3>3
<1>6. compared \in {"none", "missing", "unreadable", "matched", "mismatch"}
  BY DEF Replay!Comparison
<1>7. summary = [status |-> state.status, last |-> n, active |-> Replay!ActiveOf(state), projection |-> compared]
  BY <1>3 DEF Replay!Summary
<1> HIDE DEF compared, summary
<1>8. item = [run |-> r, error |-> "none", summary |-> summary]
  BY DEF Replay!Item, summary
<1>9. item \in ReplayItem /\ item.run = r /\ item.error = "none" /\ item.summary = summary
  BY <1>2, <1>3, <1>4, <1>6, <1>7, <1>8 DEF ReplayItem, ItemErrors
<1>10. ItemSound(item)
  <2>1. /\ summary.last = n /\ summary.status = state.status
        /\ summary.active = Replay!ActiveOf(state) /\ summary.projection = compared
    BY <1>7
  <2>2. QED
    <3>1. /\ item.run = r /\ item.summary.last = n /\ item.summary.status = state.status
          /\ item.summary.active = Replay!ActiveOf(state) /\ item.summary.projection = compared
          /\ Recon(item.run, item.summary.last) = state
      BY <1>1, <1>9, <2>1
    <3>2. n \in 1 .. committed[r]
      OBVIOUS
    <3>3. QED
      BY ONLY <1>5, <3>1, <3>2, Zenon DEF ItemSound
<1>11. ASSUME ~ Replay!NeedsAttention(summary)
       PROVE  Healthy(r)
  <2>1. compared = "matched" /\ state.status \notin {"queued", "running"}
    BY <1>7, <1>11 DEF Replay!NeedsAttention
  <2>2. IsTerminal(state)
    BY <1>3, <2>1 DEF IsTerminal, RunStatuses
  <2>3. n = committed[r]
    <3>1. CASE damage[r] # "none"
      BY <1>1, <3>1
    <3>2. CASE damage[r] = "none"
      <4>1. ~ n + 1 <= Len(Scripts[r])
        BY <1>1, <1>2, <2>2, EndIsLast
      <4>2. n <= committed[r]
        BY <1>1, <1>2
      <4>3. QED
        BY <1>2, <4>1, <4>2
    <3>3. QED
      BY <3>1, <3>2
  <2>4. ProjectionOf(r, n) = state
    BY <1>1, <1>5, <1>3, <2>1 DEF ProjectionOf, RunState
  <2>5. damage[r] \in {"none", "false_projection"}
    BY <1>5, <2>1
  <2>6. QED
    BY <1>1, <2>2, <2>3, <2>4, <2>5 DEF Healthy
<1>12. QED
  BY <1>1, <1>9, <1>10, <1>11 DEF summary

\* A Run that was reduced is answered, an item of the page, or healthy.
LEMMA ReplayReduces ==
  ASSUME ReplayConstants, ReplayInv, Replay!Reduce
  PROVE  ReplayInv'
<1> DEFINE r == page[next]
           state == Replay!Reconstructed(snapshot.events)
           summary == Replay!Summary(r, state)
           item == Replay!Item(r, "none", summary)
<1>1. pc = "reduce" /\ {"query_timeout", "invalid_event"} \subseteq AnswerErrors \ {"none"}
  BY DEF Replay!Reduce, AnswerErrors, ItemErrors
<1>2. CASE Replay!Late /\ Replay!RunFails("query_timeout")
  BY <1>1, <1>2, ReplayRunFails DEF Replay!Late
<1>3. CASE Replay!RunFails("invalid_event")
  BY <1>1, <1>3, ReplayRunFails
<1>4. CASE ~ Replay!Late /\ ~ Replay!RunFails("invalid_event")
  <2>1. /\ state # Replay!Bad /\ ReplayTypes /\ r \in RunIds /\ next \in DOMAIN page
        /\ page \in Seq(RunIds)
    BY <1>1, <1>4 DEF Replay!Reduce, ReplayInv, ReplayTypes
  <2>2. /\ item \in ReplayItem /\ item.run = r /\ item.error = "none" /\ ItemSound(item)
        /\ damage[r] \notin Broken
        /\ ~ Replay!NeedsAttention(summary) => Healthy(r)
    <3>1. /\ DatabaseInv /\ Seen(r, snapshot.events, snapshot.projection)
          /\ damage[r] # "undecodable" /\ Replay!CompletePrefix(r, snapshot.events)
      BY <1>1 DEF ReplayInv, SnapshotInv
    <3> HIDE DEF r, state, item
    <3>2. state = Replay!Reconstructed(snapshot.events) /\ item = Replay!Item(r, "none", Replay!Summary(r, state))
      BY DEF state, item
    <3>3. QED
      BY <2>1, <3>1, <3>2, SummaryIsTrue
  <2>3. CASE mode = "replay"
    <3>1. /\ answer' = [Replay!NoAnswer EXCEPT !.runs = page, !.items = <<item>>]
          /\ pc' = "idle"
          /\ UNCHANGED <<committed, damage, mode, after, limit, page, next, clock, items, scanned, known>>
      BY <1>1, <1>4, <2>1, <2>3 DEF Replay!Reduce, Replay!Nothing, Replay!database, Replay!command, Replay!scan
    <3> HIDE DEF item, r
    <3>2. <<item>> \in Seq(ReplayItem) /\ DOMAIN <<item>> = {1} /\ <<item>>[1] = item
      <4> HIDE DEF ReplayItem
      <4>1. QED
        BY <2>2
    <3> DEFINE one == <<item>>
    <3>3. one \in Seq(ReplayItem) /\ DOMAIN one = {1} /\ one[1] = item
      BY <3>2
    <3> HIDE DEF one
    <3>4. answer' = [Replay!NoAnswer EXCEPT !.runs = page, !.items = one]
      BY <3>1 DEF one
    <3>5. /\ answer' \in ReplayAnswer /\ answer'.items = one /\ answer'.runs = page
          /\ answer'.has_more = FALSE
      <4>1. Replay!NoAnswer \in ReplayAnswer /\ Replay!NoAnswer.has_more = FALSE
        BY NothingAnswered
      <4> HIDE DEF ReplayItem, AnswerErrors
      <4>2. QED
        BY <2>1, <3>3, <3>4, <4>1 DEF ReplayAnswer
    <3>6. DatabaseInv'
      BY <3>1, SameDatabase DEF ReplayInv
    <3>7. ReplayTypes'
      BY <2>1, <3>1, <3>5, SameDatabase DEF ReplayTypes
    <3>8. PageInv' /\ SnapshotInv'
      BY <3>1 DEF PageInv, OnPage, SnapshotInv
    <3>9. AnswerInv'
      <4>1. PICK it : it = item
        OBVIOUS
      <4>2. /\ it.run = page[next] /\ it.error = "none" /\ ItemSound(it)
            /\ one[1] = it /\ DOMAIN one = {1}
        BY <2>2, <3>3, <4>1 DEF r
      <4>3. ItemSound(it)'
        BY <3>1, <4>2, SameDatabase
      <4>4. answer'.items = one /\ answer'.runs = page' /\ mode' = mode /\ next' = next
        BY <3>1, <3>5
      <4>5. QED
        BY <2>1, <2>3, <3>1, <3>5, <4>2, <4>3, <4>4 DEF AnswerInv, ItemErrors
    <3>10. ScanInv'
      BY <2>3, <3>1 DEF ReplayInv, ScanInv, OnPage, Replay!Ascending, Replay!Position
    <3>11. QED
      BY <3>6, <3>7, <3>8, <3>9, <3>10 DEF ReplayInv
  <2>4. CASE mode = "check"
    <3>1. /\ next' = next + 1 /\ pc' = "next"
          /\ UNCHANGED <<committed, damage, mode, after, limit, page, clock, answer, scanned, known>>
          /\ \/ items' = Append(items, item)
             \/ items' = items /\ ~ Replay!NeedsAttention(summary)
      BY <1>4, <2>1, <2>4 DEF Replay!Reduce, Replay!AddItem, Replay!database, Replay!scan, Replay!Nothing
    <3>2. \/ items' = items /\ Healthy(page[next])
          \/ \E it \in ReplayItem :
              /\ items' = Append(items, it) /\ it.run = page[next] /\ ItemSound(it)
              /\ it.error = "query_timeout" => clock >= Timeout
              /\ damage[page[next]] \in Broken => it.error # "none"
      <4>1. item \in ReplayItem /\ item.run = page[next] /\ item.error # "query_timeout"
            /\ ItemSound(item) /\ damage[page[next]] \notin Broken
        BY <2>2
      <4>2. ~ Replay!NeedsAttention(summary) => Healthy(page[next])
        BY <2>2
      <4> HIDE DEF item, summary
      <4>3. QED
        BY <3>1, <4>1, <4>2
    <3>3. QED
      BY <1>1, <2>4, <3>1, <3>2, ReplayDone
  <2>5. QED
    BY <2>1, <2>3, <2>4 DEF ReplayTypes
<1>5. QED
  BY <1>2, <1>3, <1>4 DEF Replay!Reduce

\* The invariant of replay and check is inductive.
LEMMA ReplayInductive ==
  ASSUME ReplayConstants
  PROVE  /\ Replay!Init => ReplayInv
         /\ ReplayInv /\ [Replay!Next]_Replay!vars => ReplayInv'
<1>1. ASSUME Replay!Init
      PROVE  ReplayInv
  <2>1. /\ committed \in StartChoices /\ damage \in DamageChoices
        /\ \A r \in RunIds : damage[r] # "none" => committed[r] > 0
        /\ pc = "idle" /\ mode = "check" /\ after = 0 /\ limit = 1 /\ page = <<>> /\ next = 1
        /\ clock = 0 /\ items = <<>> /\ answer = Replay!NoAnswer /\ scanned = <<>> /\ known = {}
    BY <1>1 DEF Replay!Init
  <2>2. DatabaseInv
    BY <2>1 DEF ReplayConstants, DatabaseInv
  <2>3. ReplayTypes
    <3>1. answer \in ReplayAnswer /\ clock \in 0 .. Timeout
      BY <2>1, NothingAnswered DEF ReplayConstants
    <3>2. QED
      BY <2>1, <3>1 DEF ReplayTypes
  <2>4. PageInv /\ SnapshotInv
    BY <2>1 DEF PageInv, OnPage, SnapshotInv
  <2>5. /\ answer.items = <<>> /\ answer.runs = <<>> /\ answer.has_more = FALSE /\ answer.after = 0
    BY <2>1, NothingAnswered
  <2>6. AnswerInv
    BY <2>5 DEF AnswerInv
  <2>7. ScanInv
    BY <2>1, <2>5 DEF ScanInv, OnPage, Covers, Replay!Ascending
  <2>8. QED
    BY <2>2, <2>3, <2>4, <2>6, <2>7 DEF ReplayInv
<1>2. ASSUME ReplayInv, UNCHANGED Replay!vars
      PROVE  ReplayInv'
  <2>1. UNCHANGED <<committed, damage, pc, mode, after, limit, page, next, clock, snapshot, items, answer,
                    scanned, known>>
    BY <1>2 DEF Replay!vars, Replay!database, Replay!command, Replay!scan
  <2>2. DatabaseInv'
    BY <1>2, <2>1, SameDatabase DEF ReplayInv
  <2>3. ReplayTypes'
    BY <1>2, <2>1, SameDatabase DEF ReplayInv, ReplayTypes
  <2>4. PageInv'
    BY <1>2, <2>1, SameDatabase DEF ReplayInv, PageInv, OnPage
  <2>5. SnapshotInv'
    BY <1>2, <2>1, SameDatabase DEF ReplayInv, SnapshotInv, Replay!CompletePrefix
  <2>6. AnswerInv'
    BY <1>2, <2>1, SameDatabase DEF ReplayInv, AnswerInv
  <2>7. ScanInv'
    BY <1>2, <2>1 DEF ReplayInv, ScanInv, OnPage, Covers, Replay!Ascending, Replay!Position
  <2>8. QED
    BY <2>2, <2>3, <2>4, <2>5, <2>6, <2>7 DEF ReplayInv
<1>3. ASSUME ReplayInv, Replay!Next
      PROVE  ReplayInv'
  BY <1>3, ReplayCommits, ReplayTicks, ReplayBegins, ReplayLists, ReplayGoesOn, ReplayReads, ReplayReadsRows,
     ReplayReduces DEF Replay!Next, Replay!Step
<1>4. QED
  BY <1>1, <1>2, <1>3

\* What the invariant says of the pages and of what is printed.
LEMMA ReplayShows ==
  ASSUME ReplayConstants, ReplayInv
  PROVE  /\ Replay!TypeOK /\ Replay!SummaryIsOnePrefix /\ Replay!HealthyIsHealthy
         /\ Replay!ScanMissesNoRun
<1>1. /\ answer.runs \in Seq(RunIds) /\ answer.items \in Seq(ReplayItem) /\ AnswerInv /\ DatabaseInv
      /\ ScanInv /\ clock \in 0 .. Timeout /\ scanned \in Seq(RunIds) /\ known \subseteq RunIds
  BY DEF ReplayInv, ReplayTypes, ReplayAnswer, Replay!WithEvents
<1>2. Replay!Answered <=> pc = "idle" /\ answer.error = "none"
  BY DEF Replay!Answered, Replay!Nothing
<1>3. \A s, x : x \in Replay!ToSet(s) <=> \E k \in DOMAIN s : s[k] = x
  BY DEF Replay!ToSet
<1>4. Replay!TypeOK
  <2>1. \A i \in DOMAIN answer.items :
          /\ answer.items[i].run \in Replay!ToSet(answer.runs)
          /\ answer.items[i].error \in {Replay!Nothing, "persistence_error", "query_limit_exceeded", "invalid_event"}
    BY <1>1, <1>3 DEF AnswerInv, ItemErrors, Replay!Nothing
  <2>2. answer.has_more /\ Replay!Answered => answer.runs # <<>>
    BY <1>1, <1>2 DEF AnswerInv
  <2>3. QED
    BY <1>1, <2>1, <2>2 DEF Replay!TypeOK, DatabaseInv
<1>5. Replay!SummaryIsOnePrefix
  BY <1>1 DEF AnswerInv, Replay!SummaryIsOnePrefix, ItemSound, Recon, Prefix, Replay!Nothing
<1>6. Replay!HealthyIsHealthy
  <2>1. SUFFICES ASSUME Replay!Answered, mode = "check"
                 PROVE  /\ \A r \in Replay!ToSet(answer.runs) \ {answer.items[i].run : i \in DOMAIN answer.items} :
                             Healthy(r)
                        /\ (\E r \in Replay!ToSet(answer.runs) : damage[r] \in Broken)
                             => \E i \in DOMAIN answer.items : answer.items[i].error # "none"
    <3>1. ASSUME NEW r \in Replay!ToSet(answer.runs), Healthy(r)
          PROVE  /\ damage[r] \in {"none", "false_projection"}
                 /\ Replay!Projection(r) = Replay!Reconstructed(Replay!Facts(r))
                 /\ Replay!IsTerminal(Replay!Reconstructed(Replay!Facts(r)))
      <4>1. r \in RunIds
        BY <1>1, <1>3
      <4>2. QED
        BY <3>1, <4>1, DatabaseAnswers, ReplayWords DEF Healthy
    <3>2. (\E i \in DOMAIN answer.items : answer.items[i].error # "none") => Replay!ExitCode(answer.items) = 2
      BY DEF Replay!ExitCode, Replay!Nothing
    <3>3. QED
      BY <3>1, <3>2 DEF Replay!HealthyIsHealthy, Broken
  <2>2. \A r \in Replay!ToSet(answer.runs) : Handled(r, answer.items)
    BY <1>1, <1>2, <1>3, <2>1 DEF AnswerInv
  <2>3. \A r : Healthy(r) => damage[r] \notin Broken
    BY DEF Healthy, Broken
  <2>4. QED
    BY <2>2, <2>3 DEF Handled
<1>7. Replay!ScanMissesNoRun
  <2>1. Replay!Ascending(scanned)
    BY <1>1 DEF ScanInv
  <2>2. Replay!IsInjective(scanned)
    <3>1. ASSUME NEW i \in DOMAIN scanned, NEW j \in DOMAIN scanned, scanned[i] = scanned[j]
          PROVE  i = j
      <4>1. i \in Nat /\ j \in Nat /\ Replay!Position(scanned[i]) \in Nat
        BY <1>1, PositionIs
      <4>2. ~ i < j /\ ~ j < i
        BY <2>1, <3>1, <4>1 DEF Replay!Ascending
      <4>3. QED
        BY <4>1, <4>2
    <3>2. QED
      BY <3>1 DEF Replay!IsInjective
  <2>3. ASSUME Replay!Answered, mode = "check"
        PROVE  /\ answer.after = IF scanned = <<>> THEN 0 ELSE Replay!Position(scanned[Len(scanned)])
               /\ \A r \in known : Replay!Position(r) <= answer.after \/ ~ answer.has_more
                                    => r \in Replay!ToSet(scanned)
    <3>1. Covers(answer.after) /\ (~ answer.has_more => \A r \in known : \E i \in DOMAIN scanned : scanned[i] = r)
      BY <1>1, <1>2, <2>3 DEF ScanInv
    <3>2. QED
      BY <1>3, <3>1 DEF Covers
  <2>4. QED
    BY <2>1, <2>2, <2>3 DEF Replay!ScanMissesNoRun
<1>8. QED
  BY <1>4, <1>5, <1>6, <1>7

\* Whatever the Runs commit between the reads, and whatever is damaged: a summary
\* that replay or check prints is of one prefix of its Run and true of it, a Run
\* of which a check prints nothing is healthy and ended, and a scan that follows
\* the pages is in order, twice at no Run, and past none that had Events.
THEOREM ReplaysConsistent ==
  /\ Replay!Spec => [](/\ Replay!TypeOK /\ Replay!SummaryIsOnePrefix
                      /\ Replay!HealthyIsHealthy /\ Replay!ScanMissesNoRun)
  /\ SurroundingsSpec => []ScanMissesNoRun
<1> DEFINE Inv == part = "replay" => ReplayInv
           Shown == /\ Replay!TypeOK /\ Replay!SummaryIsOnePrefix
                    /\ Replay!HealthyIsHealthy /\ Replay!ScanMissesNoRun
<1>1. /\ Replay!Init => ReplayInv
      /\ ReplayInv /\ [Replay!Next]_Replay!vars => ReplayInv'
  BY ReplayInductive, ConstantsAssumption
<1>2. ReplayInv => Shown
  BY ReplayShows, ConstantsAssumption
<1>3. Replay!Spec => []Shown
  <2> HIDE DEF Shown
  <2>1. QED
    BY <1>1, <1>2, PTL DEF Replay!Spec
<1>4. /\ SurroundingsInit => Inv
      /\ Inv /\ [SurroundingsNext]_allVars => Inv'
      /\ Inv => ScanMissesNoRun
  BY <1>1, <1>2, PartsBegin, PartsStep DEF ScanMissesNoRun
<1> HIDE DEF Inv
<1>5. SurroundingsSpec => []ScanMissesNoRun
  BY <1>4, PTL DEF SurroundingsSpec
<1>6. QED
  BY <1>3, <1>5, PTL

================================================================================
