-------------------------- MODULE RunHistoryProofs --------------------------
(***************************************************************************)
(* The history of a Run, in three parts.  First, that the reducer takes no *)
(* history that the Contract forbids.  Then that what ContextBuilder makes *)
(* of a history is complete and as large as fits: facts about sums and     *)
(* concatenations, the pass over the Events, the requests of its groups,   *)
(* the invariant of the Run.  Last, that what an adapter makes of a        *)
(* request reaches the Provider: wire names, and the places of calls and   *)
(* results among the items.                                                *)
(***************************************************************************)
EXTENDS RunReducer, HistoryTranslation, ReducerLemmas, SequenceTheorems, WellFoundedInduction

\* A step folds one well-formed Event.
LEMMA StepFolds ==
  ASSUME Next
  PROVE  \E e \in Event : WellFormed(e) /\ Folds(state, log, e, state', log')
<1>1. PICK r \in RunIds, n \in 1 .. MaxEvents :
        \E e \in Payloads(r, n) : Fold(e)
  BY DEF Next, Offer, CreateRun, StartRun, RequestModel, RequestTool, StartActivity,
         FinishModel, FinishTool, FinishRun, Payloads
<1>2. PICK e \in Payloads(r, n) : Fold(e)
  BY <1>1
<1>3. WellFormed(e)
  BY PayloadWellFormed, MaxEventsAssumption
<1>4. QED
  BY <1>2, <1>3 DEF WellFormed, Fold, Folds

-----------------------------------------------------------------------------
(* The inductive invariant *)

IInv == Sound(state, log)

\* The invariant says what the properties say.
LEMMA SoundProjection ==
  IInv => TypeOK /\ Serial /\ EvidenceOfSameActivity /\ WithinBudget
<1> SUFFICES ASSUME Sound(state, log)
             PROVE  TypeOK /\ Serial /\ EvidenceOfSameActivity /\ WithinBudget
  BY DEF IInv
<1>1. TypeOK
  BY DEF Sound, Typed, TypeOK
<1>2. Serial
  BY DEF Sound, InSeries, Serial
<1>3. EvidenceOfSameActivity
  BY DEF Sound, EvidenceAnswers, EvidenceOfSameActivity
<1>4. WithinBudget
  BY DEF Sound, BudgetKept, WithinBudget
<1>5. QED
  BY <1>1, <1>2, <1>3, <1>4

\* The invariant holds before the first Event, and every Event that is folded
\* keeps it.
LEMMA Inductive == Spec => []IInv
<1>1. Init => IInv
  BY NothingSound DEF Init, IInv
<1>2. IInv /\ [Next]_vars => IInv'
  <2>1. SUFFICES ASSUME IInv, [Next]_vars PROVE IInv'
    OBVIOUS
  <2>2. CASE Next
    BY <2>1, <2>2, StepFolds, FoldSound DEF IInv
  <2>3. CASE UNCHANGED vars
    BY <2>1, <2>3 DEF vars, IInv
  <2>4. QED
    BY <2>1, <2>2, <2>3
<1>3. QED
  BY <1>1, <1>2, PTL DEF Spec

-----------------------------------------------------------------------------
(* The results *)

\* TypeOK for every value of the constants: the accumulators of reduce_events
\* are a RunState and a list of Events, whatever stream is offered.
THEOREM TypeCorrect == Spec => []TypeOK
<1>1. IInv => TypeOK
  BY SoundProjection
<1>2. QED
  BY <1>1, Inductive, PTL

\* Serial for every value of the constants: the guards of reduce_event, which
\* read the state only, impose the order Requested, Started, result on Events.
THEOREM SerialStream == Spec => []Serial
<1>1. IInv => Serial
  BY SoundProjection
<1>2. QED
  BY <1>1, Inductive, PTL

\* EvidenceOfSameActivity for every value of the constants: the position that
\* validate_event_history looks at holds the request of the Activity that ends.
THEOREM EvidenceCorrect == Spec => []EvidenceOfSameActivity
<1>1. IInv => EvidenceOfSameActivity
  BY SoundProjection
<1>2. QED
  BY <1>1, Inductive, PTL

\* WithinBudget for every value of the constants: no stream of Events gets a Run
\* past its limits by more than the model call that was already under way.
THEOREM BudgetBound == Spec => []WithinBudget
<1>1. IInv => WithinBudget
  BY SoundProjection
<1>2. QED
  BY <1>1, Inductive, PTL

\* OnlyExcessIsRefused for every value of the constants: an Event that passes
\* the guards of reduce_event leads to a consistent projection, whatever it
\* reports; "Run Event would produce invalid state" is left for an Event that
\* reports more than a ModelUsage and its price can be.
THEOREM GuardsSuffice == Spec => []OnlyExcessIsRefused
<1>1. IInv => OnlyExcessIsRefused
  <2>1. SUFFICES ASSUME IInv, NEW r \in RunIds, NEW e \in Payloads(r, state.last_sequence + 1),
                        ~ IsTerminal(state), Guard(state, e)
                 PROVE  /\ ConsistentProjection(Reduced(state, e))
                        /\ Reportable(e.usage) => UsageInBounds(Reduced(state, e).usage)
    BY DEF OnlyExcessIsRefused
  <2>2. state.last_sequence + 1 \in Nat
    <3>1. state \in RunState
      BY <2>1, SoundProjection DEF TypeOK
    <3>2. state.last_sequence \in Nat
      BY <3>1 DEF RunState
    <3>3. QED
      BY <3>2
  <2>3. WellFormed(e)
    BY <2>2, PayloadWellFormed
  <2>4. QED
    BY <2>1, <2>3, GuardedIsValid DEF IInv, Valid
<1>2. QED
  BY <1>1, Inductive, PTL

\* ProjectionOnlyForward for every value of the constants: no Event takes back
\* what the projection already says, and nothing is accepted after the end.
THEOREM ForwardOnly == Spec => ProjectionOnlyForward
<1>1. IInv /\ [Next]_vars => [OnlyForward]_vars
  <2>1. SUFFICES ASSUME IInv, Next PROVE OnlyForward
    BY DEF vars
  <2>2. PICK e \in Event : WellFormed(e) /\ Folds(state, log, e, state', log')
    BY <2>1, StepFolds
  <2>3. ~ IsTerminal(state)
    BY <2>1, <2>2, FoldExtends DEF IInv
  <2>4. QED
    BY <2>1, <2>2, <2>3, FoldForward, FoldKeeps DEF IInv, OnlyForward
<1>2. QED
  BY <1>1, Inductive, PTL DEF Spec, ProjectionOnlyForward

\* CountsRequests for every value of the constants: usage.model_iterations and
\* usage.tool_calls are the numbers of requests in the stream.
THEOREM CountersCorrect == Spec => []CountsRequests
<1>1. Init => CountsRequests
  BY FS_EmptySet DEF Init, NoRun, CountsRequests
<1>2. IInv /\ CountsRequests /\ [Next]_vars => CountsRequests'
  <2>1. SUFFICES ASSUME IInv, CountsRequests, [Next]_vars PROVE CountsRequests'
    OBVIOUS
  <2>0. RequestsCounted(state, log)
    BY <2>1 DEF CountsRequests, RequestsCounted
  <2>2. CASE Next
    <3>1. PICK e \in Event : WellFormed(e) /\ Folds(state, log, e, state', log')
      BY <2>2, StepFolds
    <3>2. RequestsCounted(state', log')
      BY <2>0, <2>1, <3>1, FoldCounts DEF IInv
    <3>3. QED
      BY <3>2 DEF CountsRequests, RequestsCounted
  <2>3. CASE UNCHANGED vars
    BY <2>1, <2>3 DEF vars, CountsRequests
  <2>4. QED
    BY <2>1, <2>2, <2>3
<1>3. QED
  BY <1>1, <1>2, Inductive, PTL DEF Spec

\* Every stream the reducer accepts is finite, however long the offered one is:
\* a Run has at most three Events of its own and three of each Activity.
THEOREM StreamBounded ==
  Spec => [](Len(log) <= 3 + 3 * (MAX_MODEL_ITERATIONS + MAX_TOOL_CALLS))
<1>1. Init => Measured(state, log)
  BY NothingMeasured DEF Init
<1>2. IInv /\ Measured(state, log) /\ [Next]_vars => Measured(state, log)'
  <2> SUFFICES ASSUME IInv, Measured(state, log), [Next]_vars
               PROVE  Measured(state, log)'
    OBVIOUS
  <2>1. CASE Next
    <3>1. PICK e \in Event : WellFormed(e) /\ Folds(state, log, e, state', log')
      BY <2>1, StepFolds
    <3>2. QED
      BY <3>1, FoldMeasured DEF IInv
  <2>2. CASE UNCHANGED vars
    BY <2>2 DEF vars
  <2>3. QED
    BY <2>1, <2>2
<1>3. IInv /\ Measured(state, log) =>
        Len(log) <= 3 + 3 * (MAX_MODEL_ITERATIONS + MAX_TOOL_CALLS)
  BY StreamLength DEF IInv
<1>4. QED
  BY <1>1, <1>2, <1>3, Inductive, PTL DEF Spec

-----------------------------------------------------------------------------
(* Induction and recursion over the natural numbers *)

\* A set with 0 and with the successor of each of its numbers has them all.
LEMMA SetInduction ==
  ASSUME NEW T, 0 \in T, \A n \in Nat : n \in T => n + 1 \in T
  PROVE  Nat \subseteq T
<1> DEFINE U == {n \in Nat : n \notin T}
<1>1. SUFFICES ASSUME U # {}
               PROVE  FALSE
  OBVIOUS
<1>2. PICK R : IsWellFoundedOn(R, Nat) /\ \A x, y \in Nat : <<x, y>> \in R <=> x < y
  <2>1. \A x, y \in Nat : <<x, y>> \in OpToRel(<, Nat) <=> x < y
    BY DEF OpToRel
  <2>2. QED
    BY <2>1, NatLessThanWellFounded, Zenon
<1>3. U # {} /\ U \subseteq Nat /\ IsWellFoundedOn(R, Nat)
  BY <1>1, <1>2
<1>4. \E x \in U : \A y \in U : ~ (<<y, x>> \in R)
  BY ONLY <1>3, WFMin, Zenon
<1>5. PICK x \in U : \A y \in U : ~ (<<y, x>> \in R)
  BY <1>4
<1>6. x # 0 /\ x \in Nat
  BY <1>5
<1>7. x - 1 \in Nat /\ x - 1 < x /\ (x - 1) + 1 = x
  BY <1>6
<1>8. x - 1 \notin U
  BY <1>2, <1>5, <1>6, <1>7
<1>9. QED
  BY <1>5, <1>7, <1>8

\* The same up to a number.
LEMMA InductionUpTo ==
  ASSUME NEW N \in Nat, NEW T, 0 \in T, \A n \in 1 .. N : n - 1 \in T => n \in T
  PROVE  0 .. N \subseteq T
<1> DEFINE U == {n \in Nat : n \in 0 .. N => n \in T}
<1>1. 0 \in U
  OBVIOUS
<1>2. ASSUME NEW n \in Nat, n \in U
      PROVE  n + 1 \in U
  <2>1. n + 1 \in 0 .. N => n + 1 \in 1 .. N /\ n \in 0 .. N /\ (n + 1) - 1 = n
    OBVIOUS
  <2>2. QED
    BY <1>2, <2>1
<1>3. Nat \subseteq U
  <2> HIDE DEF U
  <2>1. QED
    BY <1>1, <1>2, SetInduction
<1>4. QED
  BY <1>3

Steps(V, N, base, step) == N \in Nat /\ base \in V /\ step \in [(1 .. N) \X V -> V]
Follows(f, N, base, step) == f[0] = base /\ \A n \in 1 .. N : f[n] = step[<<n, f[n - 1]>>]
Alike(N, f, g) == N \in Nat /\ f[0] = g[0] /\ \A n \in 1 .. N : f[n - 1] = g[n - 1] => f[n] = g[n]

\* A value for each number, made of the one before it.
LEMMA RecursionExists ==
  ASSUME NEW V, NEW N, NEW base, NEW step, Steps(V, N, base, step)
  PROVE  \E f \in [0 .. N -> V] : Follows(f, N, base, step)
<1> DEFINE Upto(m, f) == f[0] = base /\ \A n \in 1 .. m : f[n] = step[<<n, f[n - 1]>>]
           T == {m \in Nat : \E f \in [0 .. m -> V] : Upto(m, f)}
<1>0. N \in Nat /\ base \in V /\ step \in [(1 .. N) \X V -> V]
  BY DEF Steps
<1>1. 0 \in T
  <2>1. [n \in 0 .. 0 |-> base] \in [0 .. 0 -> V] /\ Upto(0, [n \in 0 .. 0 |-> base])
    BY <1>0
  <2>2. QED
    BY <2>1
<1>2. ASSUME NEW m \in 1 .. N, m - 1 \in T
      PROVE  m \in T
  <2>1. PICK f \in [0 .. m - 1 -> V] : Upto(m - 1, f)
    BY <1>2
  <2> DEFINE new == step[<<m, f[m - 1]>>]
             g == [n \in 0 .. m |-> IF n = m THEN new ELSE f[n]]
  <2>2. f[m - 1] \in V /\ new \in V
    BY <1>0
  <2>3. g \in [0 .. m -> V]
    BY <2>2
  <2>4. Upto(m, g)
    <3>1. g[0] = base
      BY <2>1
    <3>2. ASSUME NEW n \in 1 .. m
          PROVE  g[n] = step[<<n, g[n - 1]>>]
      <4>1. CASE n = m
        <5>1. n - 1 \in 0 .. m /\ n - 1 # m /\ n \in 0 .. m
          BY <4>1
        <5>2. g[n] = step[<<m, f[m - 1]>>] /\ g[n - 1] = f[n - 1]
          BY <4>1, <5>1
        <5>3. QED
          BY <4>1, <5>2
      <4>2. CASE n # m
        <5>1. n \in 1 .. m - 1 /\ n - 1 \in 0 .. m - 1 /\ n - 1 # m /\ n \in 0 .. m /\ n - 1 \in 0 .. m
          BY <4>2
        <5>2. f[n] = step[<<n, f[n - 1]>>]
          BY <2>1, <5>1
        <5>3. g[n] = f[n] /\ g[n - 1] = f[n - 1]
          BY <4>2, <5>1
        <5>4. QED
          BY <5>2, <5>3
      <4>3. QED
        BY <4>1, <4>2
    <3>3. QED
      BY <3>1, <3>2
  <2> HIDE DEF g, Upto
  <2>5. QED
    BY <2>3, <2>4
<1>3. N \in T
  <2> HIDE DEF T
  <2>1. 0 .. N \subseteq T
    BY <1>0, <1>1, <1>2, InductionUpTo
  <2>2. QED
    BY <1>0, <2>1
<1>4. QED
  BY <1>3 DEF Follows

\* Two functions that are made in the same way are the same.
LEMMA RecursionAgrees ==
  ASSUME NEW N, NEW one, NEW two, Alike(N, one, two)
  PROVE  \A n \in 0 .. N : one[n] = two[n]
<1> DEFINE T == {n \in Nat : one[n] = two[n]}
<1>1. N \in Nat /\ 0 \in T /\ \A n \in 1 .. N : n - 1 \in T => n \in T
  BY DEF Alike
<1>2. 0 .. N \subseteq T
  <2> HIDE DEF T
  <2>1. QED
    BY <1>1, InductionUpTo
<1>3. QED
  BY <1>2

-----------------------------------------------------------------------------
(* Sums *)

Sums(f, seq) == f = [n \in 0 .. Len(seq) |-> IF n = 0 THEN 0 ELSE f[n - 1] + seq[n]]

\* Its values, one after the other.
LEMMA SumsAt ==
  ASSUME NEW seq, Len(seq) \in Nat, NEW f, Sums(f, seq)
  PROVE  f[0] = 0 /\ \A n \in 1 .. Len(seq) : f[n] = f[n - 1] + seq[n]
<1> DEFINE N == Len(seq)
<1>1. f = [n \in 0 .. N |-> IF n = 0 THEN 0 ELSE f[n - 1] + seq[n]]
  BY DEF Sums
<1>2. 0 \in 0 .. N /\ \A n \in 1 .. N : n \in 0 .. N /\ n # 0
  OBVIOUS
<1>3. QED
  BY ONLY <1>1, <1>2

\* The function that Total defines exists.
LEMMA TotalIsSum ==
  ASSUME NEW seq \in Seq(Nat)
  PROVE  \E f \in [0 .. Len(seq) -> Nat] : Sums(f, seq) /\ Total(seq) = f[Len(seq)]
<1> DEFINE N == Len(seq)
           step == [p \in (1 .. N) \X Nat |-> p[2] + seq[p[1]]]
<1>1. N \in Nat /\ Steps(Nat, N, 0, step)
  BY DEF Steps
<1>2. PICK f \in [0 .. N -> Nat] : f[0] = 0 /\ \A n \in 1 .. N : f[n] = step[<<n, f[n - 1]>>]
  <2> HIDE DEF N, step
  <2>1. \E f \in [0 .. N -> Nat] : Follows(f, N, 0, step)
    BY <1>1, RecursionExists, Zenon
  <2>2. QED
    BY <2>1 DEF Follows
<1>3. ASSUME NEW n \in 1 .. N
      PROVE  f[n - 1] \in Nat /\ f[n] = f[n - 1] + seq[n]
  <2>1. n - 1 \in 0 .. N /\ f[n - 1] \in Nat
    BY <1>2
  <2>2. <<n, f[n - 1]>> \in (1 .. N) \X Nat
    BY <2>1
  <2>3. step[<<n, f[n - 1]>>] = f[n - 1] + seq[n]
    BY <2>2
  <2>4. QED
    BY <1>2, <2>1, <2>3
<1>4. Sums(f, seq)
  BY <1>2, <1>3 DEF Sums
<1> DEFINE Good(g) == g = [n \in 0 .. Len(seq) |-> IF n = 0 THEN 0 ELSE g[n - 1] + seq[n]]
<1>5. Good(CHOOSE g : Good(g))
  BY <1>4, Zenon DEF Sums
<1>6. Total(seq) = (CHOOSE g : Good(g))[Len(seq)]
  BY Zenon DEF Total
<1>7. PICK g : Good(g) /\ Total(seq) = g[Len(seq)]
  BY <1>5, <1>6
<1> HIDE DEF step
<1>8. \A n \in 0 .. N : f[n] = g[n]
  <2>1. f[0] = g[0]
    BY <1>2, <1>7
  <2>2. ASSUME NEW n \in 1 .. N
        PROVE  g[n] = g[n - 1] + seq[n]
    <3>1. n \in 0 .. Len(seq) /\ n # 0
      OBVIOUS
    <3>2. QED
      BY <1>7, <3>1
  <2>3. \A n \in 1 .. N : f[n - 1] = g[n - 1] => f[n] = g[n]
    BY <1>3, <2>2
  <2>4. Alike(N, f, g)
    BY <1>1, <2>1, <2>3 DEF Alike
  <2>5. QED
    BY ONLY <2>4, RecursionAgrees
<1>9. Total(seq) = f[Len(seq)]
  BY <1>7, <1>8
<1>10. QED
  BY <1>4, <1>9

\* Sums are numbers, and grow with their sequences.
LEMMA TotalGrows ==
  /\ Total(<<>>) = 0
  /\ \A seq \in Seq(Nat) : Total(seq) \in Nat /\ \A x \in Nat : Total(Append(seq, x)) = Total(seq) + x
<1>1. Total(<<>>) = 0
  <2>1. <<>> \in Seq(Nat) /\ Len(<<>>) = 0
    OBVIOUS
  <2>2. PICK f \in [0 .. 0 -> Nat] : Sums(f, <<>>) /\ Total(<<>>) = f[0]
    BY <2>1, TotalIsSum
  <2>3. QED
    BY <2>1, <2>2 DEF Sums
<1>2. ASSUME NEW seq \in Seq(Nat)
      PROVE  Total(seq) \in Nat
  BY TotalIsSum
<1>3. ASSUME NEW seq \in Seq(Nat), NEW x \in Nat
      PROVE  Total(Append(seq, x)) = Total(seq) + x
  <2> DEFINE N == Len(seq)
             more == Append(seq, x)
  <2>1. /\ N \in Nat /\ more \in Seq(Nat) /\ Len(more) = N + 1
        /\ more[N + 1] = x /\ \A n \in 1 .. N : more[n] = seq[n]
    OBVIOUS
  <2> HIDE DEF more
  <2>2. PICK f \in [0 .. N -> Nat] : Sums(f, seq) /\ Total(seq) = f[N]
    BY TotalIsSum
  <2>3. PICK g \in [0 .. N + 1 -> Nat] : Sums(g, more) /\ Total(more) = g[N + 1]
    BY <2>1, TotalIsSum
  <2>4. f[0] = 0 /\ \A n \in 1 .. N : f[n] = f[n - 1] + seq[n]
    BY <2>2, SumsAt
  <2>5. g[0] = 0 /\ \A n \in 1 .. N + 1 : g[n] = g[n - 1] + more[n]
    <3>1. Len(more) \in Nat /\ Sums(g, more)
      BY <2>1, <2>3
    <3>2. g[0] = 0 /\ \A n \in 1 .. Len(more) : g[n] = g[n - 1] + more[n]
      BY <3>1, SumsAt
    <3>3. QED
      BY <2>1, <3>2
  <2>6. \A n \in 0 .. N : f[n] = g[n]
    <3>1. \A n \in 1 .. N : f[n - 1] = g[n - 1] => f[n] = g[n]
      BY <2>1, <2>4, <2>5
    <3>2. Alike(N, f, g)
      BY <2>1, <2>4, <2>5, <3>1 DEF Alike
    <3>3. QED
      BY ONLY <3>2, RecursionAgrees
  <2>7. g[N + 1] = g[N] + x
    BY <2>1, <2>5
  <2>8. f[N] = g[N]
    BY <2>1, <2>6
  <2>9. QED
    BY <2>2, <2>3, <2>7, <2>8 DEF more
<1>4. QED
  BY <1>1, <1>2, <1>3

-----------------------------------------------------------------------------
(* Sequences and their concatenation *)

\* What holds of no elements and with each element more holds of all sequences.
LEMMA SequenceInduction ==
  ASSUME NEW S, NEW T, <<>> \in T, \A s \in Seq(S), x \in S : s \in T => Append(s, x) \in T
  PROVE  Seq(S) \subseteq T
<1> DEFINE U == {n \in Nat : \A s \in Seq(S) : Len(s) = n => s \in T}
<1>1. 0 \in U
  OBVIOUS
<1>2. ASSUME NEW n \in Nat, n \in U
      PROVE  n + 1 \in U
  <2>1. SUFFICES ASSUME NEW s \in Seq(S), Len(s) = n + 1
                 PROVE  s \in T
    OBVIOUS
  <2> DEFINE front == SubSeq(s, 1, n)
  <2>2. front \in Seq(S) /\ Len(front) = n /\ s[n + 1] \in S
    BY <2>1
  <2>3. s = Append(front, s[n + 1])
    BY <2>1, <2>2
  <2>4. front \in T
    BY <1>2, <2>2
  <2> HIDE DEF front
  <2>5. QED
    BY <2>2, <2>3, <2>4
<1>3. Nat \subseteq U
  <2> HIDE DEF U
  <2>1. QED
    BY <1>1, <1>2, SetInduction
<1>4. QED
  BY <1>3

Joins(f, t) == f[0] = <<>> /\ \A n \in 1 .. Len(t) : f[n] = f[n - 1] \o t[n]

\* The function that FlattenSeq defines exists.
LEMMA FlattenIsJoin ==
  ASSUME NEW X, NEW t \in Seq(Seq(X))
  PROVE  \E f \in [0 .. Len(t) -> Seq(X)] : Joins(f, t) /\ FlattenSeq(t) = f[Len(t)]
<1> DEFINE step == [p \in (1 .. Len(t)) \X Seq(X) |-> p[2] \o t[p[1]]]
<1>1. Len(t) \in Nat /\ Steps(Seq(X), Len(t), <<>>, step)
  <2>1. \A p \in (1 .. Len(t)) \X Seq(X) : p[2] \o t[p[1]] \in Seq(X)
    OBVIOUS
  <2>2. QED
    BY <2>1 DEF Steps
<1> HIDE DEF step
<1>2. PICK f \in [0 .. Len(t) -> Seq(X)] : Follows(f, Len(t), <<>>, step)
  BY <1>1, RecursionExists, Zenon
<1>3. ASSUME NEW n \in 1 .. Len(t)
      PROVE  f[n - 1] \in Seq(X) /\ f[n] = f[n - 1] \o t[n]
  <2>1. n - 1 \in 0 .. Len(t)
    BY <1>1
  <2>2. f[n - 1] \in Seq(X)
    BY <2>1
  <2>3. step[<<n, f[n - 1]>>] = f[n - 1] \o t[n]
    BY <2>2 DEF step
  <2>4. QED
    BY <1>2, <2>2, <2>3 DEF Follows
<1>4. Joins(f, t)
  BY <1>2, <1>3 DEF Joins, Follows
<1>5. FlattenSeq(t) = f[Len(t)]
  <2>1. CASE Len(t) = 0
    <3>1. FlattenSeq(t) = t
      BY <2>1, Zenon DEF FlattenSeq
    <3>2. t = <<>>
      BY <2>1
    <3>3. QED
      BY <1>4, <2>1, <3>1, <3>2 DEF Joins
  <2>2. CASE Len(t) # 0
    <3> DEFINE Good(g) == g = [i \in 1 .. Len(t) |-> IF i = 1 THEN t[i] ELSE g[i - 1] \o t[i]]
    <3>1. \E g : Good(g)
      <4> DEFINE h == [i \in 1 .. Len(t) |-> f[i]]
      <4>1. ASSUME NEW i \in 1 .. Len(t)
            PROVE  h[i] = IF i = 1 THEN t[i] ELSE h[i - 1] \o t[i]
        <5>1. CASE i = 1
          <6>1. i - 1 = 0 /\ f[0] = <<>> /\ t[i] \in Seq(X)
            BY <1>2, <5>1 DEF Follows
          <6>2. f[i] = f[0] \o t[i]
            BY <1>3, <6>1
          <6>3. <<>> \o t[i] = t[i]
            BY <6>1
          <6>4. QED
            BY <5>1, <6>1, <6>2, <6>3
        <5>2. CASE i # 1
          <6>1. i - 1 \in 1 .. Len(t)
            BY <5>2
          <6>2. QED
            BY <1>3, <5>2, <6>1
        <5>3. QED
          BY <5>1, <5>2
      <4>2. h = [i \in 1 .. Len(t) |-> h[i]]
        OBVIOUS
      <4> HIDE DEF h
      <4>3. Good(h)
        BY <4>1, <4>2
      <4>4. QED
        BY <4>3
    <3>2. Good(CHOOSE g : Good(g))
      BY <3>1, Zenon
    <3>3. FlattenSeq(t) = (CHOOSE g : Good(g))[Len(t)]
      BY <2>2, Zenon DEF FlattenSeq
    <3>4. PICK g : Good(g) /\ FlattenSeq(t) = g[Len(t)]
      BY <3>2, <3>3
    <3> DEFINE h == [n \in 0 .. Len(t) |-> IF n = 0 THEN <<>> ELSE g[n]]
    <3>5. ASSUME NEW n \in 1 .. Len(t)
          PROVE  h[n] = h[n - 1] \o t[n]
      <4>1. g[n] = IF n = 1 THEN t[n] ELSE g[n - 1] \o t[n]
        BY <3>4
      <4>2. n - 1 \in 0 .. Len(t) /\ n \in 0 .. Len(t) /\ n # 0 /\ (n - 1 = 0 <=> n = 1) /\ t[n] \in Seq(X)
        BY <1>1
      <4>3. QED
        BY <4>1, <4>2
    <3>6. h[0] = <<>> /\ h[Len(t)] = g[Len(t)]
      BY <1>1, <2>2
    <3> HIDE DEF h, Good
    <3>7. Alike(Len(t), f, h)
      BY <1>1, <1>3, <1>4, <3>5, <3>6 DEF Alike, Joins
    <3>8. \A n \in 0 .. Len(t) : f[n] = h[n]
      BY ONLY <3>7, RecursionAgrees
    <3>9. Len(t) \in 0 .. Len(t)
      BY <1>1
    <3>10. QED
      BY <3>4, <3>6, <3>8, <3>9
  <2>3. QED
    BY <2>1, <2>2
<1>6. QED
  BY <1>4, <1>5

\* The pieces that are joined, with one more.
LEMMA FlattenGrows ==
  /\ FlattenSeq(<<>>) = <<>>
  /\ \A X : \A t \in Seq(Seq(X)) :
       /\ FlattenSeq(t) \in Seq(X)
       /\ \A s \in Seq(X) : FlattenSeq(Append(t, s)) = FlattenSeq(t) \o s
<1>1. FlattenSeq(<<>>) = <<>>
  <2>1. Len(<<>>) = 0
    OBVIOUS
  <2>2. QED
    BY <2>1, Zenon DEF FlattenSeq
<1>2. ASSUME NEW X, NEW t \in Seq(Seq(X))
      PROVE  FlattenSeq(t) \in Seq(X)
  <2>1. PICK f \in [0 .. Len(t) -> Seq(X)] : FlattenSeq(t) = f[Len(t)]
    BY FlattenIsJoin
  <2>2. QED
    BY <2>1
<1>3. ASSUME NEW X, NEW t \in Seq(Seq(X)), NEW s \in Seq(X)
      PROVE  FlattenSeq(Append(t, s)) = FlattenSeq(t) \o s
  <2> DEFINE u == Append(t, s)
  <2>1. /\ Len(t) \in Nat /\ u \in Seq(Seq(X)) /\ Len(u) = Len(t) + 1
        /\ u[Len(t) + 1] = s /\ \A n \in 1 .. Len(t) : u[n] = t[n]
    OBVIOUS
  <2> HIDE DEF u
  <2>2. PICK f : Joins(f, t) /\ FlattenSeq(t) = f[Len(t)]
    BY FlattenIsJoin
  <2>3. PICK g : Joins(g, u) /\ FlattenSeq(u) = g[Len(u)]
    BY <2>1, FlattenIsJoin
  <2>4. f[0] = g[0]
    BY <2>2, <2>3 DEF Joins
  <2>5. \A n \in 1 .. Len(t) : f[n - 1] = g[n - 1] => f[n] = g[n]
    <3>1. \A n \in 1 .. Len(t) : f[n] = f[n - 1] \o t[n]
      BY <2>2 DEF Joins
    <3>2. ASSUME NEW n \in 1 .. Len(t)
          PROVE  g[n] = g[n - 1] \o t[n]
      <4>1. n \in 1 .. Len(u) /\ u[n] = t[n]
        BY <2>1
      <4>2. QED
        BY <2>3, <4>1 DEF Joins
    <3>3. QED
      BY <3>1, <3>2
  <2>6. Alike(Len(t), f, g)
    BY <2>1, <2>4, <2>5 DEF Alike
  <2>7. \A n \in 0 .. Len(t) : f[n] = g[n]
    BY ONLY <2>6, RecursionAgrees
  <2>8. g[Len(t) + 1] = g[Len(t)] \o s
    <3>1. Len(t) + 1 \in 1 .. Len(u) /\ (Len(t) + 1) - 1 = Len(t)
      BY <2>1
    <3>2. QED
      BY <2>1, <2>3, <3>1 DEF Joins
  <2>9. f[Len(t)] = g[Len(t)]
    BY <2>1, <2>7
  <2>10. QED
    BY <2>1, <2>2, <2>3, <2>8, <2>9 DEF u
<1>4. QED
  BY <1>1, <1>2, <1>3

-----------------------------------------------------------------------------
(* What a Run holds *)

Call == [id : Nat, provider : ProviderIds, name : ToolNames, size : Sizes]
ModelEvent == [type : {"model"}, text : Sizes, calls : Seq(Call)]
ToolEvent == [type : {"tool"}, id : Nat, size : ResultSizes]
RunEvent == {Other} \cup ModelEvent \cup ToolEvent

Fixed == [role : {"system", "user"}, text : {0}, calls : {<<>>}, result : {Nothing}]
Answer == [role : {"assistant"}, text : Nat, calls : Seq(Call), result : {Nothing}]
Outcome == [role : {"tool"}, text : {0}, calls : {<<>>}, result : [id : Nat, size : Nat]]
Message == Fixed \cup Answer \cup Outcome

Group == [messages : Seq(Message), sequences : Seq(Nat), truncated : Seq(Nat)]
Groups == [groups : Seq(Group), current : Group, pending : SUBSET Nat, ok : BOOLEAN]

\* The limits are numbers.
LEMMA ContextLimits ==
  /\ Sizes \subseteq Nat /\ ResultSizes \subseteq Nat
  /\ FixedChars \in Nat /\ max_context_chars \in Nat /\ max_tool_result_bytes \in Nat
  /\ EnvelopeChars \in Nat /\ MAX_MODEL_MESSAGES \in Nat /\ MAX_MODEL_INPUT_CHARS \in Nat
  /\ MaxInteractions \in Nat /\ MaxCalls \in Nat
  /\ Nothing # "incomplete" /\ Nothing # "invalid" /\ Nothing # "too_large"
BY ContextAssumption

\* The messages that are made of Events.
LEMMA MessagesOfEvents ==
  /\ \A e \in ModelEvent : AssistantMessage(e) \in Answer
  /\ \A e \in ToolEvent : ToolMessage(e) \in Outcome
  /\ \A size \in ResultSizes : Content(size) \in Nat
<1>1. \A size \in ResultSizes : Content(size) \in Nat
  BY ContextLimits DEF Content
<1>2. ASSUME NEW e \in ModelEvent
      PROVE  AssistantMessage(e) \in Answer
  BY ContextLimits DEF ModelEvent, AssistantMessage, Answer
<1>3. ASSUME NEW e \in ToolEvent
      PROVE  ToolMessage(e) \in Outcome
  <2>1. e.id \in Nat /\ Content(e.size) \in Nat
    BY <1>1 DEF ToolEvent
  <2>2. QED
    BY <2>1 DEF ToolMessage, Outcome
<1>4. QED
  BY <1>1, <1>2, <1>3

\* The pass takes what is no call and no result without a trace.
LEMMA TakesOther ==
  \A acc, n : TakeEvent(acc, n, Other) = acc
BY DEF TakeEvent, Other

\* A group is closed when it waits for nothing.
LEMMA SettledIs ==
  ASSUME NEW acc \in Groups
  PROVE  /\ Settled(acc) \in Groups /\ Settled(acc).ok = acc.ok /\ Settled(acc).pending = acc.pending
         /\ acc.pending = {} => /\ Settled(acc).groups = Append(acc.groups, acc.current)
                                /\ Settled(acc).current = NoGroup
         /\ acc.pending # {} => Settled(acc) = acc
<1>1. NoGroup \in Group
  BY DEF NoGroup, Group
<1> HIDE DEF Group
<1>2. CASE acc.pending = {}
  <2> DEFINE more == Append(acc.groups, acc.current)
             new == [acc EXCEPT !.groups = more, !.current = NoGroup]
  <2>1. Settled(acc) = new
    BY <1>2 DEF Settled
  <2>2. more \in Seq(Group)
    BY DEF Groups
  <2> HIDE DEF more
  <2>3. /\ new \in Groups /\ new.ok = acc.ok /\ new.pending = acc.pending
        /\ new.groups = more /\ new.current = NoGroup
    BY <1>1, <2>2 DEF Groups
  <2> HIDE DEF new
  <2>4. QED
    BY <1>2, <2>1, <2>3 DEF more
<1>3. CASE acc.pending # {}
  BY <1>3 DEF Settled
<1>4. QED
  BY <1>2, <1>3

\* A model message opens a group.
LEMMA TakesModel ==
  ASSUME NEW acc \in Groups, NEW n \in Nat, NEW e \in ModelEvent, acc.current = NoGroup
  PROVE  LET ids == {e.calls[i].id : i \in DOMAIN e.calls}
             group == [messages |-> <<AssistantMessage(e)>>, sequences |-> <<n>>, truncated |-> <<>>]
             next == TakeEvent(acc, n, e)
         IN  /\ next \in Groups /\ next.ok = acc.ok /\ next.pending = ids /\ group \in Group
             /\ ids = {} => next.groups = Append(acc.groups, group) /\ next.current = NoGroup
             /\ ids # {} => next.groups = acc.groups /\ next.current = group
<1> DEFINE ids == {e.calls[i].id : i \in DOMAIN e.calls}
           group == [messages |-> <<AssistantMessage(e)>>, sequences |-> <<n>>, truncated |-> <<>>]
           open == [acc EXCEPT !.current = group, !.pending = ids]
<1>1. e.type = "model"
  BY DEF ModelEvent
<1>2. TakeEvent(acc, n, e) = Settled(open)
  BY <1>1, Zenon DEF TakeEvent
<1>3. ids \in SUBSET Nat
  <2>1. e.calls \in Seq(Call)
    BY DEF ModelEvent
  <2>2. \A i \in DOMAIN e.calls : e.calls[i] \in Call
    BY <2>1
  <2>3. QED
    BY <2>2 DEF Call
<1>4. group \in Group
  <2>1. <<AssistantMessage(e)>> \in Seq(Message)
    BY MessagesOfEvents DEF Message
  <2>2. QED
    BY <2>1 DEF Group
<1> HIDE DEF group, ids
<1>5. open \in Groups /\ open.groups = acc.groups /\ open.current = group /\ open.pending = ids /\ open.ok = acc.ok
  BY <1>3, <1>4 DEF Groups
<1> HIDE DEF open
<1>6. QED
  BY <1>2, <1>4, <1>5, SettledIs DEF group, ids

\* A result goes to the group that waits for it, and closes it when it is the last.
WithResult(group, n, e) ==
  [messages |-> Append(group.messages, ToolMessage(e)),
   sequences |-> Append(group.sequences, n),
   truncated |-> IF e.size > max_tool_result_bytes THEN Append(group.truncated, e.id) ELSE group.truncated]
Given(acc, group, ids, next) ==
  /\ next \in Groups /\ next.ok = acc.ok /\ next.pending = ids /\ group \in Group
  /\ ids = {} => next.groups = Append(acc.groups, group) /\ next.current = NoGroup
  /\ ids # {} => next.groups = acc.groups /\ next.current = group

\* The pass does so.
LEMMA TakesTool ==
  ASSUME NEW acc \in Groups, NEW n \in Nat, NEW e \in ToolEvent, e.id \in acc.pending
  PROVE  Given(acc, WithResult(acc.current, n, e), acc.pending \ {e.id}, TakeEvent(acc, n, e))
<1> DEFINE ids == acc.pending \ {e.id}
           cut == IF e.size > max_tool_result_bytes
                  THEN Append(acc.current.truncated, e.id) ELSE acc.current.truncated
           group == [messages |-> Append(acc.current.messages, ToolMessage(e)),
                     sequences |-> Append(acc.current.sequences, n), truncated |-> cut]
           grown == [acc.current EXCEPT !.messages = Append(@, ToolMessage(e)),
                                        !.sequences = Append(@, n), !.truncated = cut]
           open == [acc EXCEPT
                !.current.messages = Append(@, ToolMessage(e)),
                !.current.sequences = Append(@, n),
                !.current.truncated = IF e.size > max_tool_result_bytes THEN Append(@, e.id) ELSE @,
                !.pending = @ \ {e.id}]
<1>1. e.type = "tool"
  BY DEF ToolEvent
<1>2. TakeEvent(acc, n, e) = Settled(open)
  BY <1>1, Zenon DEF TakeEvent
<1>3. ids \in SUBSET Nat
  BY DEF Groups
<1>4. group \in Group
  <2>1. Append(acc.current.messages, ToolMessage(e)) \in Seq(Message)
    <3>1. acc.current.messages \in Seq(Message) /\ ToolMessage(e) \in Message
      BY MessagesOfEvents DEF Message, Groups, Group
    <3>2. QED
      BY ONLY <3>1
  <2>2. cut \in Seq(Nat) /\ Append(acc.current.sequences, n) \in Seq(Nat)
    BY DEF Groups, Group, ToolEvent
  <2>3. QED
    BY <2>1, <2>2 DEF Group
<1>5. open.groups = acc.groups /\ open.current = group /\ open.pending = ids /\ open.ok = acc.ok /\ open \in Groups
  <2>1. open.groups = acc.groups /\ open.pending = ids /\ open.ok = acc.ok
    BY DEF Groups
  <2>2. open.current = group
    BY DEF Groups, Group
  <2>3. QED
    BY <1>3, <1>4, <2>1, <2>2 DEF Groups
<1> HIDE DEF open, group, ids
<1>6. QED
  BY <1>2, <1>4, <1>5, SettledIs DEF group, ids, Given, WithResult

\* Whatever Event comes, the pass has its groups.
LEMMA TakeKeepsGroups ==
  ASSUME NEW acc \in Groups, NEW n \in Nat, NEW e \in RunEvent
  PROVE  TakeEvent(acc, n, e) \in Groups
<1>1. CASE e = Other
  BY <1>1, TakesOther
<1>2. CASE e \in ModelEvent
  <2>1. CASE acc.current = NoGroup
    BY <1>2, <2>1, TakesModel
  <2>2. CASE acc.current # NoGroup
    <3>1. e.type = "model"
      BY <1>2 DEF ModelEvent
    <3>2. TakeEvent(acc, n, e) = [acc EXCEPT !.ok = FALSE]
      BY <2>2, <3>1, Zenon DEF TakeEvent
    <3>3. QED
      BY <3>2 DEF Groups
  <2>3. QED
    BY <2>1, <2>2
<1>3. CASE e \in ToolEvent
  <2>1. CASE e.id \in acc.pending
    BY <1>3, <2>1, TakesTool DEF Given
  <2>2. CASE e.id \notin acc.pending
    <3>1. e.type = "tool"
      BY <1>3 DEF ToolEvent
    <3>2. TakeEvent(acc, n, e) = [acc EXCEPT !.ok = FALSE]
      BY <2>2, <3>1, Zenon DEF TakeEvent
    <3>3. QED
      BY <3>2 DEF Groups
  <2>3. QED
    BY <2>1, <2>2
<1>4. QED
  BY <1>1, <1>2, <1>3 DEF RunEvent

\* What the pass makes of one Event more.
Turn(acc, n, e) == IF acc.ok THEN TakeEvent(acc, n, e) ELSE acc
Passes(f, es) == f[0] = Start /\ \A n \in 1 .. Len(es) : f[n] = Turn(f[n - 1], n, es[n])

\* The function that History defines exists.
LEMMA HistoryIsPass ==
  ASSUME NEW es \in Seq(RunEvent)
  PROVE  \E f \in [0 .. Len(es) -> Groups] : Passes(f, es) /\ History(es) = f[Len(es)]
<1> DEFINE step == [p \in (1 .. Len(es)) \X Groups |-> Turn(p[2], p[1], es[p[1]])]
<1>1. Start \in Groups
  <2>1. NoGroup \in Group /\ <<>> \in Seq(Group)
    BY DEF NoGroup, Group
  <2>2. QED
    BY <2>1 DEF Start, Groups
<1>2. Len(es) \in Nat /\ Steps(Groups, Len(es), Start, step)
  <2>1. ASSUME NEW acc \in Groups, NEW n \in 1 .. Len(es)
        PROVE  Turn(acc, n, es[n]) \in Groups
    <3>1. n \in Nat /\ es[n] \in RunEvent
      OBVIOUS
    <3>2. QED
      BY <3>1, TakeKeepsGroups DEF Turn
  <2>2. \A p \in (1 .. Len(es)) \X Groups : Turn(p[2], p[1], es[p[1]]) \in Groups
    BY <2>1
  <2>3. step \in [(1 .. Len(es)) \X Groups -> Groups]
    BY <2>2
  <2> HIDE DEF step
  <2>4. QED
    BY <1>1, <2>3 DEF Steps
<1> HIDE DEF step
<1>3. PICK f : f \in [0 .. Len(es) -> Groups] /\ Follows(f, Len(es), Start, step)
  BY <1>2, RecursionExists, Zenon
<1>4. ASSUME NEW n \in 1 .. Len(es)
      PROVE  f[n] = Turn(f[n - 1], n, es[n])
  <2>1. n - 1 \in 0 .. Len(es)
    BY <1>2
  <2>2. f[n - 1] \in Groups
    BY <1>3, <2>1
  <2>3. step[<<n, f[n - 1]>>] = Turn(f[n - 1], n, es[n])
    BY <2>2 DEF step
  <2>4. QED
    BY <1>3, <2>3 DEF Follows
<1>5. Passes(f, es)
  BY <1>3, <1>4 DEF Passes, Follows
<1> DEFINE Good(g) ==
      g = [n \in 0 .. Len(es) |->
             IF n = 0 THEN Start
             ELSE LET acc == g[n - 1] IN IF acc.ok THEN TakeEvent(acc, n, es[n]) ELSE acc]
<1>6. Good(f)
  <2>1. f = [n \in 0 .. Len(es) |-> f[n]]
    BY <1>3
  <2>2. ASSUME NEW n \in 0 .. Len(es)
        PROVE  f[n] = IF n = 0 THEN Start
                      ELSE LET acc == f[n - 1] IN IF acc.ok THEN TakeEvent(acc, n, es[n]) ELSE acc
    <3>1. CASE n = 0
      BY <1>5, <3>1 DEF Passes
    <3>2. CASE n # 0
      <4>1. n \in 1 .. Len(es)
        BY <3>2
      <4>2. QED
        BY <1>4, <3>2, <4>1 DEF Turn
    <3>3. QED
      BY <3>1, <3>2
  <2>3. QED
    BY <2>1, <2>2
<1>7. Good(CHOOSE g : Good(g))
  BY <1>6, Zenon
<1>8. History(es) = (CHOOSE g : Good(g))[Len(es)]
  BY Zenon DEF History
<1>9. PICK g : Good(g) /\ History(es) = g[Len(es)]
  BY <1>7, <1>8
<1>10. g[0] = Start /\ \A n \in 1 .. Len(es) : g[n] = Turn(g[n - 1], n, es[n])
  <2>1. g[0] = Start
    <3>1. 0 \in 0 .. Len(es)
      BY <1>2
    <3>2. QED
      BY <1>9, <3>1
  <2>2. ASSUME NEW n \in 1 .. Len(es)
        PROVE  g[n] = Turn(g[n - 1], n, es[n])
    <3>1. n \in 0 .. Len(es) /\ n # 0
      BY <1>2
    <3>2. QED
      BY <1>9, <3>1 DEF Turn
  <2>3. QED
    BY <2>1, <2>2
<1> HIDE DEF Good
<1>11. Alike(Len(es), f, g)
  BY <1>2, <1>4, <1>5, <1>10 DEF Alike, Passes
<1>12. \A n \in 0 .. Len(es) : f[n] = g[n]
  BY ONLY <1>11, RecursionAgrees
<1>13. History(es) = f[Len(es)]
  <2>1. Len(es) \in 0 .. Len(es)
    BY <1>2
  <2>2. QED
    BY <1>9, <1>12, <2>1
<1>14. QED
  BY <1>3, <1>5, <1>13

\* The history of no Event, and of one Event more.
LEMMA HistoryGrows ==
  /\ History(<<>>) = Start
  /\ \A es \in Seq(RunEvent) :
       /\ History(es) \in Groups
       /\ \A e \in RunEvent : History(Append(es, e)) = Turn(History(es), Len(es) + 1, e)
<1>1. History(<<>>) = Start
  <2>1. <<>> \in Seq(RunEvent) /\ Len(<<>>) = 0
    OBVIOUS
  <2>2. PICK f : Passes(f, <<>>) /\ History(<<>>) = f[0]
    BY <2>1, HistoryIsPass
  <2>3. QED
    BY <2>2 DEF Passes
<1>2. ASSUME NEW es \in Seq(RunEvent)
      PROVE  History(es) \in Groups
  <2>1. PICK f \in [0 .. Len(es) -> Groups] : History(es) = f[Len(es)]
    BY HistoryIsPass
  <2>2. QED
    BY <2>1
<1>3. ASSUME NEW es \in Seq(RunEvent), NEW e \in RunEvent
      PROVE  History(Append(es, e)) = Turn(History(es), Len(es) + 1, e)
  <2> DEFINE u == Append(es, e)
  <2>1. /\ Len(es) \in Nat /\ u \in Seq(RunEvent) /\ Len(u) = Len(es) + 1
        /\ u[Len(es) + 1] = e /\ \A n \in 1 .. Len(es) : u[n] = es[n]
    OBVIOUS
  <2> HIDE DEF u
  <2>2. PICK f : Passes(f, es) /\ History(es) = f[Len(es)]
    BY HistoryIsPass
  <2>3. PICK g : Passes(g, u) /\ History(u) = g[Len(u)]
    BY <2>1, HistoryIsPass
  <2>4. f[0] = g[0]
    BY <2>2, <2>3 DEF Passes
  <2>5. ASSUME NEW n \in 1 .. Len(es), f[n - 1] = g[n - 1]
        PROVE  f[n] = g[n]
    <3>1. f[n] = Turn(f[n - 1], n, es[n])
      BY <2>2 DEF Passes
    <3>2. n \in 1 .. Len(u) /\ u[n] = es[n]
      BY <2>1
    <3>3. g[n] = Turn(g[n - 1], n, u[n])
      BY <2>3, <3>2 DEF Passes
    <3>4. QED
      BY <2>5, <3>1, <3>2, <3>3
  <2>6. Alike(Len(es), f, g)
    BY <2>1, <2>4, <2>5 DEF Alike
  <2>7. \A n \in 0 .. Len(es) : f[n] = g[n]
    BY ONLY <2>6, RecursionAgrees
  <2>8. g[Len(es) + 1] = Turn(g[Len(es)], Len(es) + 1, e)
    <3>1. Len(es) + 1 \in 1 .. Len(u) /\ (Len(es) + 1) - 1 = Len(es)
      BY <2>1
    <3>2. QED
      BY <2>1, <2>3, <3>1 DEF Passes
  <2>9. f[Len(es)] = g[Len(es)]
    BY <2>1, <2>7
  <2>10. QED
    BY <2>1, <2>2, <2>3, <2>8, <2>9 DEF u
<1>4. QED
  BY <1>1, <1>2, <1>3

-----------------------------------------------------------------------------
(* The calls of a Run and their results *)

CallsIn(es) == FlattenSeq([i \in DOMAIN es |-> IF es[i].type = "model" THEN es[i].calls ELSE <<>>])
AnsweredIn(es) == {es[i].id : i \in {j \in DOMAIN es : es[j].type = "tool"}}

\* They are those of all its Events.
LEMMA CalledIsCallsIn ==
  Called = CallsIn(events) /\ Answered = AnsweredIn(events)
<1>1. [i \in DOMAIN events |-> IF i \in Interactions THEN events[i].calls ELSE <<>>]
      = [i \in DOMAIN events |-> IF events[i].type = "model" THEN events[i].calls ELSE <<>>]
  BY DEF Interactions
<1>2. QED
  BY <1>1 DEF Called, CallsIn, Answered, AnsweredIn

\* The kinds of Events.
LEMMA EventKinds ==
  /\ Other.type = "other"
  /\ \A e \in ModelEvent : e.type = "model" /\ e.calls \in Seq(Call) /\ e.text \in Sizes
  /\ \A e \in ToolEvent : e.type = "tool" /\ e.id \in Nat /\ e.size \in ResultSizes
BY DEF Other, ModelEvent, ToolEvent

\* One Event more.
LEMMA CallsGrow ==
  ASSUME NEW es \in Seq(RunEvent), NEW e \in RunEvent
  PROVE  /\ CallsIn(es) \in Seq(Call)
         /\ CallsIn(Append(es, e)) = CallsIn(es) \o (IF e.type = "model" THEN e.calls ELSE <<>>)
         /\ AnsweredIn(Append(es, e)) = AnsweredIn(es) \cup (IF e.type = "tool" THEN {e.id} ELSE {})
<1> DEFINE of(x) == IF x.type = "model" THEN x.calls ELSE <<>>
           t == [i \in DOMAIN es |-> of(es[i])]
           u == Append(es, e)
<1>1. \A x \in RunEvent : of(x) \in Seq(Call)
  BY EventKinds DEF RunEvent
<1>2. Len(u) = Len(es) + 1 /\ u[Len(es) + 1] = e /\ \A i \in 1 .. Len(es) : u[i] = es[i] /\ es[i] \in RunEvent
  OBVIOUS
<1>3. DOMAIN es = 1 .. Len(es) /\ DOMAIN u = 1 .. Len(es) + 1 /\ Len(es) \in Nat
  OBVIOUS
<1> HIDE DEF of, u
<1>4. t \in Seq(Seq(Call)) /\ Len(t) = Len(es)
  BY <1>1, <1>2, <1>3
<1>5. [i \in DOMAIN u |-> of(u[i])] = Append(t, of(e))
  BY <1>2, <1>3, <1>4
<1> HIDE DEF t
<1>6. FlattenSeq(Append(t, of(e))) = FlattenSeq(t) \o of(e) /\ FlattenSeq(t) \in Seq(Call)
  BY <1>1, <1>4, FlattenGrows
<1>7. CallsIn(es) = FlattenSeq(t) /\ CallsIn(u) = FlattenSeq(Append(t, of(e)))
  BY <1>5 DEF CallsIn, of, t
<1>8. AnsweredIn(u) = AnsweredIn(es) \cup (IF e.type = "tool" THEN {e.id} ELSE {})
  BY <1>2, <1>3 DEF AnsweredIn
<1>9. QED
  BY <1>6, <1>7, <1>8 DEF u, of

-----------------------------------------------------------------------------
(* The request *)

\* The size of a message is a number.
LEMMA CharsOfMessage ==
  \A m \in Message : MessageChars(m) \in Nat
<1>1. ASSUME NEW m \in Message
      PROVE  MessageChars(m) \in Nat
  <2>1. m.text \in Nat /\ m.calls \in Seq(Call) /\ (m.result = Nothing \/ m.result.size \in Nat)
    <3>1. <<>> \in Seq(Call) /\ 0 \in Nat
      OBVIOUS
    <3>2. CASE m \in Fixed
      <4>1. m.text = 0 /\ m.calls = <<>> /\ m.result = Nothing
        BY <3>2 DEF Fixed
      <4>2. QED
        BY ONLY <3>1, <4>1, Zenon
    <3>3. CASE m \in Answer
      BY <3>3 DEF Answer
    <3>4. CASE m \in Outcome
      <4>1. m.text = 0 /\ m.calls = <<>> /\ m.result.size \in Nat
        BY <3>4 DEF Outcome
      <4>2. QED
        BY ONLY <3>1, <4>1, Zenon
    <3>5. QED
      BY <3>2, <3>3, <3>4 DEF Message
  <2> DEFINE sizes == [i \in DOMAIN m.calls |-> m.calls[i].size]
  <2>2. sizes \in Seq(Nat)
    <3>1. \A i \in DOMAIN m.calls : m.calls[i] \in Call
      BY <2>1
    <3>2. \A i \in DOMAIN m.calls : m.calls[i].size \in Nat
      BY <3>1, ContextLimits DEF Call
    <3>3. DOMAIN m.calls = 1 .. Len(m.calls) /\ Len(m.calls) \in Nat
      BY <2>1
    <3>4. QED
      BY <3>2, <3>3
  <2>3. Total(sizes) \in Nat
    BY <2>2, TotalGrows
  <2>4. MessageChars(m) = m.text + Total(sizes) + (IF m.result = Nothing THEN 0 ELSE m.result.size)
    BY DEF MessageChars
  <2> HIDE DEF sizes
  <2>5. QED
    BY <2>1, <2>3, <2>4
<1>2. QED
  BY <1>1

\* The size of a request is a number, and grows with its messages.
LEMMA CharsOfRequest ==
  ASSUME NEW ms \in Seq(Message)
  PROVE  /\ InputChars(ms) \in Nat
         /\ \A m \in Message : InputChars(Append(ms, m)) = InputChars(ms) + MessageChars(m)
<1> DEFINE sizes(s) == [i \in DOMAIN s |-> MessageChars(s[i])]
<1>1. ASSUME NEW s \in Seq(Message)
      PROVE  sizes(s) \in Seq(Nat) /\ InputChars(s) = FixedChars + Total(sizes(s))
  <2>1. \A i \in DOMAIN s : MessageChars(s[i]) \in Nat
    BY CharsOfMessage
  <2>2. DOMAIN s = 1 .. Len(s) /\ Len(s) \in Nat
    OBVIOUS
  <2>3. QED
    BY <2>1, <2>2 DEF InputChars
<1>2. ASSUME NEW m \in Message
      PROVE  sizes(Append(ms, m)) = Append(sizes(ms), MessageChars(m))
  OBVIOUS
<1>3. \A m \in Message : Append(ms, m) \in Seq(Message)
  OBVIOUS
<1> HIDE DEF sizes
<1>4. Total(sizes(ms)) \in Nat /\ InputChars(ms) \in Nat
  BY <1>1, TotalGrows, ContextLimits
<1>5. ASSUME NEW m \in Message
      PROVE  InputChars(Append(ms, m)) = InputChars(ms) + MessageChars(m)
  <2>1. InputChars(Append(ms, m)) = FixedChars + Total(Append(sizes(ms), MessageChars(m)))
    BY <1>1, <1>2, <1>3
  <2>2. MessageChars(m) \in Nat
    BY CharsOfMessage
  <2>3. Total(Append(sizes(ms), MessageChars(m))) = Total(sizes(ms)) + MessageChars(m)
    BY <1>1, <2>2, TotalGrows
  <2>4. QED
    BY <1>1, <1>4, <2>1, <2>2, <2>3, ContextLimits
<1>6. QED
  BY <1>4, <1>5

\* The fixed layers are messages.
LEMMA FixedAreMessages ==
  /\ FixedMessages \in Seq(Message) /\ Len(FixedMessages) = 3
  /\ \A i \in 1 .. 3 : FixedMessages[i].role # "assistant" /\ FixedMessages[i].calls = <<>>
                       /\ FixedMessages[i] \in Fixed
<1>1. ASSUME NEW i \in 1 .. 3
      PROVE  FixedMessages[i].role # "assistant" /\ FixedMessages[i].calls = <<>> /\ FixedMessages[i] \in Fixed
  BY DEF FixedMessages, Fixed
<1>2. FixedMessages = [i \in 1 .. 3 |-> FixedMessages[i]]
  BY DEF FixedMessages
<1>3. \A i \in 1 .. 3 : FixedMessages[i] \in Message
  BY <1>1 DEF Message
<1>4. QED
  BY <1>1, <1>2, <1>3

\* The messages of the groups from the k-th on.
Pieces(groups, k) == [i \in 1 .. Len(groups) + 1 - k |-> groups[i + k - 1].messages]

\* The request is made of messages.
LEMMA RequestIsMessages ==
  ASSUME NEW groups \in Seq(Group), NEW k \in 1 .. Len(groups) + 1
  PROVE  /\ Pieces(groups, k) \in Seq(Seq(Message)) /\ Len(Pieces(groups, k)) = Len(groups) + 1 - k
         /\ Messages(groups, k) = FixedMessages \o FlattenSeq(Pieces(groups, k))
         /\ Messages(groups, k) \in Seq(Message) /\ InputChars(Messages(groups, k)) \in Nat
<1>1. Messages(groups, k) = FixedMessages \o FlattenSeq(Pieces(groups, k))
  BY DEF Messages, Pieces
<1>2. Pieces(groups, k) \in Seq(Seq(Message)) /\ Len(Pieces(groups, k)) = Len(groups) + 1 - k
  <2>1. \A i \in 1 .. Len(groups) + 1 - k : groups[i + k - 1] \in Group
    OBVIOUS
  <2>2. \A i \in 1 .. Len(groups) + 1 - k : groups[i + k - 1].messages \in Seq(Message)
    BY <2>1 DEF Group
  <2>3. Len(groups) + 1 - k \in Nat
    OBVIOUS
  <2>4. QED
    BY <2>2, <2>3 DEF Pieces
<1>3. FlattenSeq(Pieces(groups, k)) \in Seq(Message)
  BY <1>2, FlattenGrows
<1>4. Messages(groups, k) \in Seq(Message)
  BY <1>1, <1>3, FixedAreMessages
<1>5. QED
  BY <1>1, <1>2, <1>4, CharsOfRequest

\* The loop of build: it drops a group as long as the request is too large and another is left.
LEMMA DropsTheOldest ==
  ASSUME NEW groups \in Seq(Group)
  PROVE  LET d == Drop(groups)
             big(k) == InputChars(Messages(groups, k)) > max_context_chars
         IN  /\ d \in 1 .. Len(groups) + 1
             /\ groups # <<>> => d <= Len(groups)
             /\ \A k \in 1 .. d - 1 : big(k)
             /\ d < Len(groups) => ~ big(d)
<1> DEFINE L == Len(groups)
           big(k) == InputChars(Messages(groups, k)) > max_context_chars
           V == 1 .. L + 1
           step == [p \in (1 .. L) \X V |->
                      IF big(L + 1 - p[1]) /\ L + 1 - p[1] < L THEN p[2] ELSE L + 1 - p[1]]
           Good(g) == g = [k \in 1 .. L + 1 |-> IF big(k) /\ k < L THEN g[k + 1] ELSE k]
<1>1. L \in Nat /\ Steps(V, L, L + 1, step)
  <2> HIDE DEF big
  <2>1. step \in [(1 .. L) \X V -> V]
    OBVIOUS
  <2>2. QED
    BY <2>1 DEF Steps
<1>2. PICK h : h \in [0 .. L -> V] /\ Follows(h, L, L + 1, step)
  <2> HIDE DEF step, L, V
  <2>1. QED
    BY <1>1, RecursionExists, Zenon
<1>3. \A n \in 1 .. L : h[n] = IF big(L + 1 - n) /\ L + 1 - n < L THEN h[n - 1] ELSE L + 1 - n
  <2> HIDE DEF big
  <2>1. ASSUME NEW n \in 1 .. L
        PROVE  h[n] = IF big(L + 1 - n) /\ L + 1 - n < L THEN h[n - 1] ELSE L + 1 - n
    <3>1. n - 1 \in 0 .. L
      OBVIOUS
    <3>2. <<n, h[n - 1]>> \in (1 .. L) \X V
      BY <1>2, <3>1
    <3>3. h[n] = step[<<n, h[n - 1]>>]
      BY <1>2 DEF Follows
    <3>4. QED
      BY <3>2, <3>3
  <2>2. QED
    BY <2>1
<1>4. \E g : Good(g)
  <2> DEFINE g == [k \in 1 .. L + 1 |-> h[L + 1 - k]]
  <2>1. ASSUME NEW k \in 1 .. L + 1
        PROVE  g[k] = IF big(k) /\ k < L THEN g[k + 1] ELSE k
    <3> HIDE DEF big
    <3>1. CASE k = L + 1
      <4>1. g[k] = h[0] /\ ~ (k < L)
        BY <3>1
      <4>2. QED
        BY <1>2, <3>1, <4>1 DEF Follows
    <3>2. CASE k # L + 1
      <4>1. L + 1 - k \in 1 .. L /\ L + 1 - (L + 1 - k) = k /\ (L + 1 - k) - 1 = L + 1 - (k + 1) /\ k + 1 \in 1 .. L + 1
        BY <3>2
      <4>2. g[k + 1] = h[(L + 1 - k) - 1]
        BY <4>1
      <4>3. QED
        BY <1>3, <4>1, <4>2
    <3>3. QED
      BY <3>1, <3>2
  <2>2. g = [k \in 1 .. L + 1 |-> g[k]]
    OBVIOUS
  <2> HIDE DEF g, big
  <2>3. Good(g)
    BY <2>1, <2>2
  <2>4. QED
    BY <2>3
<1>5. Good(CHOOSE g : Good(g))
  BY <1>4, Zenon
<1>6. Drop(groups) = (CHOOSE g : Good(g))[1]
  BY Zenon DEF Drop
<1>7. PICK g : Good(g) /\ Drop(groups) = g[1]
  BY <1>5, <1>6
<1> HIDE DEF big
<1>8. \A k \in 1 .. L + 1 : g[k] = IF big(k) /\ k < L THEN g[k + 1] ELSE k
  BY <1>7
<1> HIDE DEF Good
\* from the last group back to the first
<1> DEFINE Ends(k) == /\ g[k] \in k .. L + 1 /\ (k <= L => g[k] <= L)
                      /\ \A j \in k .. g[k] - 1 : big(j)
                      /\ g[k] < L => ~ big(g[k])
           T == {n \in 0 .. L : Ends(L + 1 - n)}
<1>9. 0 \in T
  <2>1. g[L + 1] = L + 1
    BY <1>1, <1>8
  <2>2. QED
    BY <1>1, <2>1
<1>10. ASSUME NEW n \in 1 .. L, n - 1 \in T
       PROVE  n \in T
  <2> DEFINE k == L + 1 - n
  <2>1. k \in 1 .. L /\ Ends(k + 1)
    <3>1. L + 1 - (n - 1) = k + 1
      OBVIOUS
    <3>2. QED
      BY <1>10, <3>1
  <2>2. CASE big(k) /\ k < L
    <3>1. g[k] = g[k + 1]
      BY <1>8, <2>1, <2>2
    <3>2. Ends(k)
      BY <2>1, <2>2, <3>1
    <3>3. QED
      BY <3>2
  <2>3. CASE ~ (big(k) /\ k < L)
    <3>1. g[k] = k
      BY <1>8, <2>1, <2>3
    <3>2. Ends(k)
      BY <2>1, <2>3, <3>1
    <3>3. QED
      BY <3>2
  <2>4. QED
    BY <2>2, <2>3
<1>11. L \in T
  <2> HIDE DEF T
  <2>1. 0 .. L \subseteq T
    BY <1>1, <1>9, <1>10, InductionUpTo
  <2>2. QED
    BY <1>1, <2>1
<1>12. Ends(1)
  <2>1. L + 1 - L = 1
    BY <1>1
  <2>2. QED
    BY <1>11, <2>1
<1>13. L = 0 <=> groups = <<>>
  OBVIOUS
<1>14. QED
  BY <1>1, <1>7, <1>12, <1>13 DEF big

-----------------------------------------------------------------------------
(* The groups of a Run: what each says of the Events, and that nothing is left over *)

\* The group of a model Event and of the results it has so far, in the order of its calls.
Block(es, g) ==
  /\ g \in Group /\ Len(g.sequences) = Len(g.messages) /\ Len(g.sequences) >= 1
  /\ \A j \in 1 .. Len(g.sequences) : g.sequences[j] \in 1 .. Len(es)
  /\ \A i, j \in 1 .. Len(g.sequences) : i < j => g.sequences[i] < g.sequences[j]
  /\ es[g.sequences[1]] \in ModelEvent /\ g.messages[1] = AssistantMessage(es[g.sequences[1]])
  /\ Len(g.messages) <= Len(es[g.sequences[1]].calls) + 1
  /\ \A j \in 2 .. Len(g.sequences) :
       /\ es[g.sequences[j]] \in ToolEvent /\ g.messages[j] = ToolMessage(es[g.sequences[j]])
       /\ es[g.sequences[j]].id = es[g.sequences[1]].calls[j - 1].id
Whole(es, g) == Block(es, g) /\ Len(g.messages) = Len(es[g.sequences[1]].calls) + 1
Waits(es, g, pending) ==
  /\ Block(es, g) /\ Len(g.messages) <= Len(es[g.sequences[1]].calls)
  /\ pending = {es[g.sequences[1]].calls[a].id : a \in Len(g.messages) .. Len(es[g.sequences[1]].calls)}

\* The groups are in the order of their model Events, and every Event of a call is in one.
InOrder(all) == \A k, l \in 1 .. Len(all) : k < l => all[k].sequences[1] < all[l].sequences[1]
Covers(es, all) ==
  \A i \in 1 .. Len(es) :
    /\ es[i] \in ModelEvent => \E k \in 1 .. Len(all) : all[k].sequences[1] = i
    /\ es[i] \in ToolEvent =>
         \E k \in 1 .. Len(all) : \E j \in 2 .. Len(all[k].sequences) : all[k].sequences[j] = i

\* The identities of the calls, in the order in which they were made.
Numbered(es) ==
  /\ \A i \in 1 .. Len(es) : es[i] \in ModelEvent =>
       /\ \A a \in 1 .. Len(es[i].calls) : es[i].calls[a].id \in 1 .. Len(CallsIn(es))
       /\ \A a, b \in 1 .. Len(es[i].calls) : a < b => es[i].calls[a].id < es[i].calls[b].id
  /\ \A i, j \in 1 .. Len(es) : es[i] \in ModelEvent /\ es[j] \in ModelEvent /\ i < j =>
       \A a \in 1 .. Len(es[i].calls), b \in 1 .. Len(es[j].calls) : es[i].calls[a].id < es[j].calls[b].id
  /\ AnsweredIn(es) \subseteq 1 .. Len(CallsIn(es))

AllGroups(h) == IF h.current = NoGroup THEN h.groups ELSE Append(h.groups, h.current)
IdsIn(es) == {c.id : c \in ToSet(CallsIn(es))}

HistoryInv(es) ==
  LET h == History(es) IN
    /\ es \in Seq(RunEvent) /\ h \in Groups /\ h.ok
    /\ \A k \in 1 .. Len(h.groups) : Whole(es, h.groups[k])
    /\ h.current = NoGroup => h.pending = {}
    /\ h.current # NoGroup => Waits(es, h.current, h.pending)
    /\ InOrder(AllGroups(h)) /\ Covers(es, AllGroups(h))
    /\ Numbered(es)
    /\ IdsIn(es) \ AnsweredIn(es) = h.pending

\* The kinds of Events exclude each other.
LEMMA KindsDiffer ==
  /\ Other \notin ModelEvent /\ Other \notin ToolEvent /\ \A e \in ToolEvent : e \notin ModelEvent
BY DEF Other, ModelEvent, ToolEvent

\* The model Event of a group.
LEMMA BlockHead ==
  ASSUME NEW es, NEW g, Block(es, g)
  PROVE  /\ Len(g.sequences) \in Nat /\ Len(g.sequences) >= 1 /\ Len(g.messages) = Len(g.sequences)
         /\ g.sequences[1] \in 1 .. Len(es) /\ es[g.sequences[1]] \in ModelEvent
         /\ es[g.sequences[1]].calls \in Seq(Call) /\ Len(es[g.sequences[1]].calls) \in Nat
<1>1. g.sequences \in Seq(Nat) /\ Len(g.sequences) >= 1 /\ Len(g.messages) = Len(g.sequences)
  BY DEF Block, Group
<1>2. Len(g.sequences) \in Nat /\ 1 \in 1 .. Len(g.sequences)
  BY <1>1
<1>3. g.sequences[1] \in 1 .. Len(es) /\ es[g.sequences[1]] \in ModelEvent
  BY <1>2 DEF Block
<1>4. es[g.sequences[1]].calls \in Seq(Call)
  BY <1>3, EventKinds
<1> HIDE DEF Call
<1>5. Len(es[g.sequences[1]].calls) \in Nat
  BY <1>4
<1>6. QED
  BY <1>1, <1>2, <1>3, <1>4, <1>5

\* A group stays what it is.
LEMMA BlocksStay ==
  ASSUME NEW es \in Seq(RunEvent), NEW e \in RunEvent, NEW g
  PROVE  /\ Block(es, g) => Block(Append(es, e), g)
         /\ Whole(es, g) => Whole(Append(es, e), g)
         /\ \A p : Waits(es, g, p) => Waits(Append(es, e), g, p)
<1> DEFINE u == Append(es, e)
<1>1. Len(u) = Len(es) + 1 /\ Len(es) \in Nat /\ \A i \in 1 .. Len(es) : u[i] = es[i]
  OBVIOUS
<1> HIDE DEF u
<1>2. ASSUME Block(es, g)
      PROVE  Block(u, g) /\ u[g.sequences[1]] = es[g.sequences[1]]
  <2>1. Len(g.sequences) >= 1 /\ Len(g.sequences) \in Nat
    BY <1>2 DEF Block, Group
  <2>2. \A j \in 1 .. Len(g.sequences) : g.sequences[j] \in 1 .. Len(es)
    BY <1>2 DEF Block
  <2>3. \A j \in 1 .. Len(g.sequences) : u[g.sequences[j]] = es[g.sequences[j]] /\ g.sequences[j] \in 1 .. Len(u)
    BY <1>1, <2>2
  <2>4. u[g.sequences[1]] = es[g.sequences[1]]
    BY <2>1, <2>3
  <2>5. \A j \in 2 .. Len(g.sequences) : j \in 1 .. Len(g.sequences)
    BY <2>1
  <2>6. /\ u[g.sequences[1]] \in ModelEvent /\ g.messages[1] = AssistantMessage(u[g.sequences[1]])
        /\ Len(g.messages) <= Len(u[g.sequences[1]].calls) + 1
    BY <1>2, <2>4 DEF Block
  <2>7. \A j \in 2 .. Len(g.sequences) :
          /\ u[g.sequences[j]] \in ToolEvent /\ g.messages[j] = ToolMessage(u[g.sequences[j]])
          /\ u[g.sequences[j]].id = u[g.sequences[1]].calls[j - 1].id
    <3>1. ASSUME NEW j \in 2 .. Len(g.sequences)
          PROVE  /\ u[g.sequences[j]] \in ToolEvent /\ g.messages[j] = ToolMessage(u[g.sequences[j]])
                 /\ u[g.sequences[j]].id = u[g.sequences[1]].calls[j - 1].id
      <4>1. u[g.sequences[j]] = es[g.sequences[j]]
        BY <2>3, <2>5
      <4>2. /\ es[g.sequences[j]] \in ToolEvent /\ g.messages[j] = ToolMessage(es[g.sequences[j]])
            /\ es[g.sequences[j]].id = es[g.sequences[1]].calls[j - 1].id
        BY <1>2 DEF Block
      <4>3. QED
        BY <2>4, <4>1, <4>2
    <3>2. QED
      BY <3>1
  <2>8. /\ g \in Group /\ Len(g.sequences) = Len(g.messages)
        /\ \A i, j \in 1 .. Len(g.sequences) : i < j => g.sequences[i] < g.sequences[j]
    BY <1>2 DEF Block
  <2>9. QED
    BY <2>1, <2>3, <2>4, <2>6, <2>7, <2>8 DEF Block
<1>3. QED
  BY <1>2, Zenon DEF Whole, Waits, u

\* The identities of the calls, with one Event more.
LEMMA IdsGrow ==
  ASSUME NEW es \in Seq(RunEvent), NEW e \in RunEvent
  PROVE  /\ Len(CallsIn(es)) \in Nat
         /\ Len(CallsIn(Append(es, e))) = Len(CallsIn(es)) + (IF e \in ModelEvent THEN Len(e.calls) ELSE 0)
         /\ e \notin ModelEvent => IdsIn(Append(es, e)) = IdsIn(es)
         /\ e \in ModelEvent =>
              IdsIn(Append(es, e)) = IdsIn(es) \cup {e.calls[a].id : a \in 1 .. Len(e.calls)}
         /\ AnsweredIn(Append(es, e)) = AnsweredIn(es) \cup (IF e \in ToolEvent THEN {e.id} ELSE {})
<1> DEFINE old == CallsIn(es)
           new == CallsIn(Append(es, e))
           more == IF e.type = "model" THEN e.calls ELSE <<>>
<1>1. e.type = "model" <=> e \in ModelEvent
  BY DEF RunEvent, Other, ModelEvent, ToolEvent
<1>2. e.type = "tool" <=> e \in ToolEvent
  BY DEF RunEvent, Other, ModelEvent, ToolEvent
<1>3. old \in Seq(Call) /\ new = old \o more
      /\ AnsweredIn(Append(es, e)) = AnsweredIn(es) \cup (IF e.type = "tool" THEN {e.id} ELSE {})
  BY CallsGrow
<1>4. more \in Seq(Call) /\ (e \in ModelEvent => more = e.calls) /\ (e \notin ModelEvent => more = <<>>)
  BY <1>1, EventKinds
<1> HIDE DEF old, new, more
<1>5. Len(new) = Len(old) + Len(more) /\ Len(old) \in Nat
  BY <1>3, <1>4
<1>6. ToSet(new) = ToSet(old) \cup {more[a] : a \in 1 .. Len(more)}
  <2>1. DOMAIN new = 1 .. Len(old) + Len(more) /\ DOMAIN old = 1 .. Len(old) /\ Len(more) \in Nat
    BY <1>3, <1>4, <1>5
  <2>2. /\ \A i \in 1 .. Len(old) : new[i] = old[i]
        /\ \A i \in 1 .. Len(more) : new[Len(old) + i] = more[i]
    BY <1>3, <1>4
  <2>3. ASSUME NEW x \in ToSet(new)
        PROVE  x \in ToSet(old) \cup {more[a] : a \in 1 .. Len(more)}
    <3>1. PICK i \in 1 .. Len(old) + Len(more) : x = new[i]
      BY <2>1, <2>3 DEF ToSet
    <3>2. CASE i \in 1 .. Len(old)
      BY <2>1, <2>2, <3>1, <3>2 DEF ToSet
    <3>3. CASE i \notin 1 .. Len(old)
      <4>1. i - Len(old) \in 1 .. Len(more) /\ Len(old) + (i - Len(old)) = i
        BY <1>5, <2>1, <3>3
      <4>2. x = more[i - Len(old)]
        BY <2>2, <3>1, <4>1
      <4>3. QED
        BY <4>1, <4>2
    <3>4. QED
      BY <3>2, <3>3
  <2>4. ASSUME NEW x \in ToSet(old) \cup {more[a] : a \in 1 .. Len(more)}
        PROVE  x \in ToSet(new)
    <3>1. CASE x \in ToSet(old)
      <4>1. PICK i \in 1 .. Len(old) : x = old[i]
        BY <2>1, <3>1 DEF ToSet
      <4>2. i \in 1 .. Len(old) + Len(more) /\ x = new[i]
        BY <1>5, <2>1, <2>2, <4>1
      <4>3. QED
        BY <2>1, <4>2 DEF ToSet
    <3>2. CASE x \in {more[a] : a \in 1 .. Len(more)}
      <4>1. PICK i \in 1 .. Len(more) : x = more[i]
        BY <3>2
      <4>2. Len(old) + i \in 1 .. Len(old) + Len(more) /\ x = new[Len(old) + i]
        BY <1>5, <2>1, <2>2, <4>1
      <4>3. QED
        BY <2>1, <4>2 DEF ToSet
    <3>3. QED
      BY <2>4, <3>1, <3>2
  <2>5. QED
    BY <2>3, <2>4
<1>7. IdsIn(Append(es, e)) = IdsIn(es) \cup {more[a].id : a \in 1 .. Len(more)}
  BY <1>6 DEF IdsIn, old, new
<1>8. e \notin ModelEvent => Len(more) = 0
  BY <1>4
<1>9. e \notin ModelEvent => {more[a].id : a \in 1 .. Len(more)} = {}
  BY <1>8
<1>10. AnsweredIn(Append(es, e)) = AnsweredIn(es) \cup (IF e \in ToolEvent THEN {e.id} ELSE {})
  BY <1>2, <1>3
<1>11. Len(new) = Len(old) + (IF e \in ModelEvent THEN Len(e.calls) ELSE 0)
  BY <1>4, <1>5, <1>8
<1>12. e \in ModelEvent =>
         IdsIn(Append(es, e)) = IdsIn(es) \cup {e.calls[a].id : a \in 1 .. Len(e.calls)}
  BY <1>4, <1>7, Zenon
<1>13. e \notin ModelEvent => IdsIn(Append(es, e)) = IdsIn(es)
  BY <1>7, <1>9
<1>14. QED
  BY <1>5, <1>10, <1>11, <1>12, <1>13, Zenon DEF old, new

\* What is no model Event leaves the numbers of the calls alone.
LEMMA NumbersStay ==
  ASSUME NEW es \in Seq(RunEvent), NEW e \in RunEvent, e \notin ModelEvent, Numbered(es),
         e \in ToolEvent => e.id \in 1 .. Len(CallsIn(es))
  PROVE  Numbered(Append(es, e))
<1> DEFINE u == Append(es, e)
<1>1. /\ Len(u) = Len(es) + 1 /\ Len(es) \in Nat
      /\ \A i \in 1 .. Len(es) : u[i] = es[i] /\ u[Len(es) + 1] = e
  OBVIOUS
<1>2. u[Len(es) + 1] = e
  OBVIOUS
<1>3. Len(CallsIn(u)) = Len(CallsIn(es))
  BY IdsGrow
<1>4. AnsweredIn(u) \subseteq 1 .. Len(CallsIn(es))
  <2>1. AnsweredIn(u) = AnsweredIn(es) \cup (IF e \in ToolEvent THEN {e.id} ELSE {})
    BY IdsGrow
  <2>2. AnsweredIn(es) \subseteq 1 .. Len(CallsIn(es))
    BY DEF Numbered
  <2>3. QED
    BY <2>1, <2>2
<1> HIDE DEF u
<1>5. \A i \in 1 .. Len(u) : u[i] \in ModelEvent => i \in 1 .. Len(es) /\ u[i] = es[i]
  BY <1>1, <1>2
<1>6. Numbered(u)
  <2>1. ASSUME NEW i \in 1 .. Len(u), u[i] \in ModelEvent
        PROVE  /\ \A a \in 1 .. Len(u[i].calls) : u[i].calls[a].id \in 1 .. Len(CallsIn(u))
               /\ \A a, b \in 1 .. Len(u[i].calls) : a < b => u[i].calls[a].id < u[i].calls[b].id
    <3>1. i \in 1 .. Len(es) /\ u[i] = es[i]
      BY <1>5, <2>1
    <3>2. QED
      BY <1>3, <2>1, <3>1 DEF Numbered
  <2>2. ASSUME NEW i \in 1 .. Len(u), NEW j \in 1 .. Len(u), u[i] \in ModelEvent, u[j] \in ModelEvent, i < j
        PROVE  \A a \in 1 .. Len(u[i].calls), b \in 1 .. Len(u[j].calls) : u[i].calls[a].id < u[j].calls[b].id
    <3>1. i \in 1 .. Len(es) /\ u[i] = es[i] /\ j \in 1 .. Len(es) /\ u[j] = es[j]
      BY <1>5, <2>2
    <3>2. QED
      BY <2>2, <3>1 DEF Numbered
  <2>3. AnsweredIn(u) \subseteq 1 .. Len(CallsIn(u))
    BY <1>3, <1>4
  <2>4. QED
    BY <2>1, <2>2, <2>3 DEF Numbered
<1>7. QED
  BY <1>6 DEF u

\* What is no call and no result leaves the history alone.
LEMMA OtherKeeps ==
  ASSUME NEW es, HistoryInv(es)
  PROVE  /\ HistoryInv(Append(es, Other)) /\ History(Append(es, Other)) = History(es)
         /\ CallsIn(Append(es, Other)) = CallsIn(es) /\ AnsweredIn(Append(es, Other)) = AnsweredIn(es)
<1> DEFINE u == Append(es, Other)
           h == History(es)
           all == AllGroups(h)
<1>1. es \in Seq(RunEvent) /\ Other \in RunEvent /\ Other \notin ModelEvent /\ Other \notin ToolEvent
  BY KindsDiffer DEF HistoryInv, RunEvent
<1>2. u \in Seq(RunEvent) /\ Len(u) = Len(es) + 1 /\ u[Len(es) + 1] = Other /\ \A i \in 1 .. Len(es) : u[i] = es[i]
  BY <1>1
<1>3. History(u) = h
  BY <1>1, HistoryGrows, TakesOther DEF Turn
<1>4. CallsIn(u) = CallsIn(es) /\ AnsweredIn(u) = AnsweredIn(es)
  <2>1. CallsIn(u) = CallsIn(es) \o <<>> /\ CallsIn(es) \in Seq(Call)
    BY <1>1, CallsGrow, EventKinds
  <2>2. AnsweredIn(u) = AnsweredIn(es)
    BY <1>1, IdsGrow
  <2>3. QED
    BY <2>1, <2>2
<1>5. Numbered(u)
  BY <1>1, NumbersStay DEF HistoryInv
<1>6. Covers(u, all)
  <2>1. Covers(es, all) /\ Len(es) \in Nat
    BY <1>1 DEF HistoryInv
  <2> HIDE DEF u, all
  <2>2. ASSUME NEW i \in 1 .. Len(u)
        PROVE  (u[i] \in ModelEvent \/ u[i] \in ToolEvent) => i \in 1 .. Len(es) /\ u[i] = es[i]
    BY <1>1, <1>2, <2>1
  <2>3. QED
    BY <2>1, <2>2 DEF Covers
<1>7. \A k \in 1 .. Len(h.groups) : Whole(u, h.groups[k])
  BY <1>1, BlocksStay DEF HistoryInv
<1>8. h.current # NoGroup => Waits(u, h.current, h.pending)
  BY <1>1, BlocksStay DEF HistoryInv
<1>9. IdsIn(u) \ AnsweredIn(u) = h.pending
  BY <1>4 DEF IdsIn, HistoryInv
<1> HIDE DEF u
<1>10. HistoryInv(u)
  BY <1>2, <1>3, <1>5, <1>6, <1>7, <1>8, <1>9 DEF HistoryInv
<1>11. QED
  BY <1>3, <1>4, <1>10 DEF u

\* An answer of the model opens a group, behind all others.
LEMMA ModelKeeps ==
  ASSUME NEW es, HistoryInv(es), History(es).current = NoGroup, NEW e \in ModelEvent, Len(e.calls) >= 1,
         \A a \in 1 .. Len(e.calls) : e.calls[a].id = Len(CallsIn(es)) + a
  PROVE  HistoryInv(Append(es, e)) /\ History(Append(es, e)).current # NoGroup
<1> DEFINE u == Append(es, e)
           n == Len(es) + 1
           h == History(es)
           ids == {e.calls[a].id : a \in 1 .. Len(e.calls)}
           group == [messages |-> <<AssistantMessage(e)>>, sequences |-> <<n>>, truncated |-> <<>>]
           new == History(u)
<1>1. es \in Seq(RunEvent) /\ e \in RunEvent /\ h \in Groups /\ h.ok /\ h.pending = {} /\ e \notin ToolEvent
  BY KindsDiffer DEF HistoryInv, RunEvent
<1>2. u \in Seq(RunEvent) /\ Len(u) = n /\ n \in Nat /\ Len(es) \in Nat /\ u[n] = e /\ \A i \in 1 .. Len(es) : u[i] = es[i]
  BY <1>1
<1>3. e.calls \in Seq(Call) /\ DOMAIN e.calls = 1 .. Len(e.calls) /\ Len(e.calls) \in Nat
  BY EventKinds
<1>4. ids # {}
  <2>1. 1 \in 1 .. Len(e.calls)
    BY <1>3
  <2>2. QED
    BY <2>1
<1>5. /\ new \in Groups /\ new.ok /\ new.pending = ids /\ group \in Group
      /\ new.groups = h.groups /\ new.current = group
  <2>1. new = TakeEvent(h, n, e)
    BY <1>1, HistoryGrows DEF Turn
  <2>2. {e.calls[i].id : i \in DOMAIN e.calls} = ids
    BY <1>3
  <2>3. h.current = NoGroup
    OBVIOUS
  <2> DEFINE next == TakeEvent(h, n, e)
             wanted == {e.calls[i].id : i \in DOMAIN e.calls}
  <2> HIDE DEF new, ids, h, u, n
  <2>4. /\ next \in Groups /\ next.ok = h.ok /\ next.pending = wanted /\ group \in Group
        /\ wanted # {} => next.groups = h.groups /\ next.current = group
    <3>1. h \in Groups /\ n \in Nat /\ h.current = NoGroup
      BY <1>1, <1>2, <2>3
    <3> HIDE DEF next, wanted
    <3>2. QED
      BY <3>1, TakesModel DEF next, wanted
  <2> HIDE DEF next, group, wanted
  <2>5. new = next /\ wanted = ids
    BY <2>1, <2>2 DEF next, wanted
  <2>6. QED
    BY <1>1, <1>4, <2>4, <2>5
<1>6. Len(group.messages) = 1 /\ Len(group.sequences) = 1 /\ group.sequences[1] = n
      /\ group.messages[1] = AssistantMessage(e) /\ group # NoGroup
  <2>1. group.messages = <<AssistantMessage(e)>> /\ group.sequences = <<n>>
    OBVIOUS
  <2> HIDE DEF group
  <2>2. Len(group.messages) = 1 /\ Len(group.sequences) = 1 /\ group.sequences[1] = n
        /\ group.messages[1] = AssistantMessage(e)
    BY <2>1
  <2>3. Len(NoGroup.messages) = 0
    BY DEF NoGroup
  <2>4. QED
    BY <2>2, <2>3
<1> HIDE DEF u, new, group
<1>7. Waits(u, group, ids)
  <2>1. \A j \in 2 .. Len(group.sequences) : FALSE
    BY <1>6
  <2>2. Block(u, group)
    BY <1>2, <1>3, <1>5, <1>6, <2>1 DEF Block
  <2>3. Len(group.messages) .. Len(u[group.sequences[1]].calls) = 1 .. Len(e.calls)
    BY <1>2, <1>6
  <2>4. Len(group.messages) <= Len(u[group.sequences[1]].calls)
    BY <1>2, <1>6
  <2>5. ids = {u[group.sequences[1]].calls[a].id : a \in Len(group.messages) .. Len(u[group.sequences[1]].calls)}
    BY <1>2, <1>6, <2>3
  <2> HIDE DEF ids
  <2>6. QED
    BY <2>2, <2>4, <2>5 DEF Waits
<1>8. \A k \in 1 .. Len(h.groups) : Whole(u, h.groups[k])
  BY <1>1, BlocksStay DEF HistoryInv, u
<1>9. AllGroups(h) = h.groups /\ AllGroups(new) = Append(h.groups, group) /\ h.groups \in Seq(Group)
  BY <1>1, <1>5, <1>6 DEF AllGroups, Groups
<1> DEFINE old == h.groups
           all == Append(h.groups, group)
<1>10. /\ Len(all) = Len(old) + 1 /\ Len(old) \in Nat /\ all[Len(old) + 1] = group
       /\ \A k \in 1 .. Len(old) : all[k] = old[k]
  BY <1>9
<1>11. InOrder(old) /\ Covers(es, old)
  BY <1>9 DEF HistoryInv
<1>12. \A k \in 1 .. Len(old) : old[k].sequences[1] \in 1 .. Len(es)
  <2>1. ASSUME NEW k \in 1 .. Len(old)
        PROVE  old[k].sequences[1] \in 1 .. Len(es)
    <3>1. Block(es, old[k]) /\ old[k] \in Group
      BY DEF HistoryInv, Whole, Block
    <3>2. QED
      BY <3>1, BlockHead
  <2>2. QED
    BY <2>1
<1> HIDE DEF all, old
<1>13. InOrder(all)
  <2>1. ASSUME NEW k \in 1 .. Len(all), NEW l \in 1 .. Len(all), k < l
        PROVE  all[k].sequences[1] < all[l].sequences[1]
    <3>1. k \in 1 .. Len(old) /\ all[k] = old[k]
      BY <1>10, <2>1
    <3>2. CASE l \in 1 .. Len(old)
      BY <1>10, <1>11, <2>1, <3>1, <3>2 DEF InOrder
    <3>3. CASE l = Len(old) + 1
      BY <1>2, <1>6, <1>10, <1>12, <3>1, <3>3
    <3>4. QED
      BY <1>10, <3>2, <3>3
  <2>2. QED
    BY <2>1 DEF InOrder
<1>14. Covers(u, all)
  <2>1. ASSUME NEW i \in 1 .. Len(es)
        PROVE  /\ u[i] \in ModelEvent => \E k \in 1 .. Len(all) : all[k].sequences[1] = i
               /\ u[i] \in ToolEvent =>
                    \E k \in 1 .. Len(all) : \E j \in 2 .. Len(all[k].sequences) : all[k].sequences[j] = i
    <3>1. u[i] = es[i]
      BY <1>2
    <3>2. \A k \in 1 .. Len(old) : k \in 1 .. Len(all) /\ all[k] = old[k]
      BY <1>10
    <3>3. es[i] \in ModelEvent => \E k \in 1 .. Len(old) : old[k].sequences[1] = i
      BY <1>11 DEF Covers
    <3>4. es[i] \in ToolEvent =>
            \E k \in 1 .. Len(old) : \E j \in 2 .. Len(old[k].sequences) : old[k].sequences[j] = i
      BY <1>11 DEF Covers
    <3>5. u[i] \in ModelEvent => \E k \in 1 .. Len(all) : all[k].sequences[1] = i
      BY <3>1, <3>2, <3>3
    <3>6. u[i] \in ToolEvent =>
            \E k \in 1 .. Len(all) : \E j \in 2 .. Len(all[k].sequences) : all[k].sequences[j] = i
      BY <3>1, <3>2, <3>4
    <3>7. QED
      BY <3>5, <3>6
  <2>2. Len(old) + 1 \in 1 .. Len(all) /\ all[Len(old) + 1].sequences[1] = n
    BY <1>6, <1>10
  <2>3. QED
    BY <1>1, <1>2, <2>1, <2>2 DEF Covers
<1>15. Len(CallsIn(es)) \in Nat /\ Len(CallsIn(u)) = Len(CallsIn(es)) + Len(e.calls)
       /\ IdsIn(u) = IdsIn(es) \cup ids /\ AnsweredIn(u) = AnsweredIn(es)
  BY <1>1, IdsGrow DEF u
<1>16. Numbered(es) /\ AnsweredIn(es) \subseteq 1 .. Len(CallsIn(es)) /\ IdsIn(es) \ AnsweredIn(es) = {}
  BY <1>1 DEF HistoryInv, Numbered
<1>17. Numbered(u)
  <2> DEFINE N == Len(CallsIn(es))
  <2>1. \A i \in 1 .. Len(u) : i = n \/ (i \in 1 .. Len(es) /\ u[i] = es[i])
    BY <1>2
  <2>2. ASSUME NEW i \in 1 .. Len(u), u[i] \in ModelEvent
        PROVE  /\ \A a \in 1 .. Len(u[i].calls) : u[i].calls[a].id \in 1 .. Len(CallsIn(u))
               /\ \A a, b \in 1 .. Len(u[i].calls) : a < b => u[i].calls[a].id < u[i].calls[b].id
    <3>1. CASE i = n
      <4>1. u[i] = e
        BY <1>2, <3>1
      <4>2. \A a \in 1 .. Len(e.calls) : e.calls[a].id = N + a
        OBVIOUS
      <4> HIDE DEF N
      <4>3. N \in Nat /\ Len(CallsIn(u)) = N + Len(e.calls)
        BY <1>15 DEF N
      <4>4. QED
        BY ONLY <1>3, <4>1, <4>2, <4>3
    <3>2. CASE i \in 1 .. Len(es) /\ u[i] = es[i]
      <4>1. /\ \A a \in 1 .. Len(es[i].calls) : es[i].calls[a].id \in 1 .. N
            /\ \A a, b \in 1 .. Len(es[i].calls) : a < b => es[i].calls[a].id < es[i].calls[b].id
        BY <1>16, <2>2, <3>2 DEF Numbered
      <4>2. \A x \in 1 .. N : x \in 1 .. Len(CallsIn(u))
        BY <1>3, <1>15
      <4>3. QED
        BY <3>2, <4>1, <4>2
    <3>3. QED
      BY <2>1, <3>1, <3>2
  <2>3. ASSUME NEW i \in 1 .. Len(u), NEW j \in 1 .. Len(u), u[i] \in ModelEvent, u[j] \in ModelEvent, i < j,
               NEW a \in 1 .. Len(u[i].calls), NEW b \in 1 .. Len(u[j].calls)
        PROVE  u[i].calls[a].id < u[j].calls[b].id
    <3>1. i \in 1 .. Len(es) /\ u[i] = es[i]
      BY <1>2, <2>3
    <3>2. CASE j = n
      <4>1. es[i].calls[a].id \in 1 .. N
        BY <1>16, <2>3, <3>1 DEF Numbered
      <4>2. u[j].calls[b].id = N + b /\ b \in Nat /\ b >= 1
        BY <1>2, <3>2
      <4>3. \A x \in 1 .. N, y \in Nat : y >= 1 => x < N + y
        BY <1>15
      <4>4. u[i].calls[a].id = es[i].calls[a].id
        BY <3>1
      <4> HIDE DEF N
      <4>5. QED
        BY ONLY <4>1, <4>2, <4>3, <4>4
    <3>3. CASE j \in 1 .. Len(es) /\ u[j] = es[j]
      BY <1>16, <2>3, <3>1, <3>3 DEF Numbered
    <3>4. QED
      BY <2>1, <3>2, <3>3
  <2>4. AnsweredIn(u) \subseteq 1 .. Len(CallsIn(u))
    BY <1>3, <1>15, <1>16
  <2>5. QED
    BY <2>2, <2>3, <2>4 DEF Numbered
<1>18. IdsIn(u) \ AnsweredIn(u) = ids
  <2>1. \A x \in ids : x \notin 1 .. Len(CallsIn(es))
    BY <1>3, <1>15
  <2> HIDE DEF ids
  <2>2. QED
    BY <1>15, <1>16, <2>1
<1> HIDE DEF ids
<1>19. HistoryInv(u)
  BY <1>2, <1>5, <1>6, <1>7, <1>8, <1>9, <1>13, <1>14, <1>17, <1>18 DEF HistoryInv, new, all
<1>20. QED
  BY <1>5, <1>6, <1>19 DEF u, new

\* The call that the open group waits for first.
NextCall(es) ==
  LET g == History(es).current IN es[g.sequences[1]].calls[Len(g.messages)].id

Grown(es, g, p, e, new) ==
  /\ es \in Seq(RunEvent) /\ Waits(es, g, p) /\ Numbered(es)
  /\ e \in ToolEvent /\ e.id = es[g.sequences[1]].calls[Len(g.messages)].id
  /\ new \in Group /\ new.messages = Append(g.messages, ToolMessage(e))
  /\ new.sequences = Append(g.sequences, Len(es) + 1)

\* A group grows by the result of its next call.
LEMMA GroupGrows ==
  ASSUME NEW es, NEW g, NEW p, NEW e, NEW new, Grown(es, g, p, e, new)
  PROVE  /\ e.id \in p /\ e.id \in 1 .. Len(CallsIn(es))
         /\ p \ {e.id} = {} => Whole(Append(es, e), new)
         /\ p \ {e.id} # {} => Waits(Append(es, e), new, p \ {e.id})
<1> DEFINE u == Append(es, e)
           n == Len(es) + 1
           m == Len(g.messages)
           s == g.sequences[1]
           calls == es[s].calls
<1>1. es \in Seq(RunEvent) /\ e \in RunEvent /\ Waits(es, g, p) /\ Numbered(es) /\ e \in ToolEvent /\ new \in Group
  BY DEF Grown, RunEvent
<1>2. /\ u \in Seq(RunEvent) /\ Len(u) = n /\ n \in Nat /\ Len(es) \in Nat /\ u[n] = e
      /\ \A i \in 1 .. Len(es) : u[i] = es[i]
  BY <1>1
<1> HIDE DEF u
<1>3. Block(es, g)
  BY <1>1 DEF Waits
<1>4. /\ m \in Nat /\ m >= 1 /\ Len(g.sequences) = m /\ s \in 1 .. Len(es) /\ es[s] \in ModelEvent
      /\ calls \in Seq(Call) /\ Len(calls) \in Nat
  BY <1>3, BlockHead
<1>5. m <= Len(calls) /\ p = {calls[a].id : a \in m .. Len(calls)}
  BY <1>1 DEF Waits
<1>6. /\ \A a \in 1 .. Len(calls) : calls[a].id \in 1 .. Len(CallsIn(es))
      /\ \A a, b \in 1 .. Len(calls) : a < b => calls[a].id < calls[b].id
  BY <1>1, <1>4 DEF Numbered
<1>7. Len(CallsIn(es)) \in Nat
  BY <1>1, IdsGrow
<1> DEFINE N == Len(CallsIn(es))
<1> HIDE DEF calls, m, N
<1>8. e.id = calls[m].id /\ e.id \in p /\ e.id \in 1 .. N /\ u[s] = es[s] /\ u[s].calls = calls
  <2>1. m \in 1 .. Len(calls) /\ m \in m .. Len(calls)
    BY <1>4, <1>5 DEF m, calls
  <2>2. e.id = calls[m].id /\ u[s] = es[s]
    BY <1>2, <1>4 DEF m, calls, Grown
  <2>3. e.id \in p
    BY <1>5, <2>1, <2>2
  <2>4. e.id \in 1 .. N
    BY <1>6, <2>1, <2>2 DEF N
  <2>5. QED
    BY <2>2, <2>3, <2>4 DEF calls
<1>9. p \ {e.id} = {calls[a].id : a \in m + 1 .. Len(calls)}
  <2>1. ASSUME NEW x \in p, x # e.id
        PROVE  x \in {calls[a].id : a \in m + 1 .. Len(calls)}
    <3>1. PICK a \in m .. Len(calls) : x = calls[a].id
      BY <1>5, <2>1
    <3>2. a # m
      BY <1>8, <2>1, <3>1
    <3>3. a \in m + 1 .. Len(calls)
      BY <1>4, <3>2 DEF m, calls
    <3>4. QED
      BY <3>1, <3>3
  <2>2. ASSUME NEW a \in m + 1 .. Len(calls)
        PROVE  calls[a].id \in p /\ calls[a].id # e.id
    <3>1. a \in m .. Len(calls) /\ a \in 1 .. Len(calls) /\ m \in 1 .. Len(calls) /\ m < a
      BY <1>4, <1>5 DEF m, calls
    <3>2. calls[m].id < calls[a].id /\ calls[m].id \in Nat /\ calls[a].id \in Nat
      <4>1. calls[m].id < calls[a].id
        BY <1>6, <3>1
      <4>2. calls[m].id \in 1 .. N /\ calls[a].id \in 1 .. N
        BY <1>6, <3>1 DEF N
      <4>3. QED
        BY <4>1, <4>2
    <3>3. calls[m].id # calls[a].id
      BY <3>2
    <3>4. QED
      BY <1>5, <1>8, <3>1, <3>3
  <2>3. QED
    BY <2>1, <2>2
<1>10. g.messages \in Seq(Message) /\ g.sequences \in Seq(Nat) /\ ToolMessage(e) \in Message
  BY <1>1, <1>3, MessagesOfEvents DEF Block, Group, Message
<1>11. /\ Len(new.sequences) = m + 1 /\ new.sequences[m + 1] = n
       /\ \A j \in 1 .. m : new.sequences[j] = g.sequences[j]
  BY <1>4, <1>10 DEF m, Grown
<1>12. /\ Len(new.messages) = m + 1 /\ new.messages[m + 1] = ToolMessage(e)
       /\ \A j \in 1 .. m : new.messages[j] = g.messages[j]
  <2> HIDE DEF Message
  <2>1. QED
    BY <1>4, <1>10 DEF m, Grown
<1>13. Block(u, new)
  <2>1. m \in Nat /\ m >= 1 /\ Len(calls) \in Nat
    BY <1>4 DEF m, calls
  <2>2. new.sequences[1] = s /\ new.messages[1] = g.messages[1]
    BY <1>11, <1>12, <2>1
  <2>3. \A j \in 1 .. m : g.sequences[j] \in 1 .. Len(es)
    BY <1>3, <1>4 DEF Block, m
  <2>4. \A j \in 1 .. Len(new.sequences) : new.sequences[j] \in 1 .. Len(u)
    BY <1>2, <1>11, <2>1, <2>3
  <2>5. \A i, j \in 1 .. Len(new.sequences) : i < j => new.sequences[i] < new.sequences[j]
    <3>1. ASSUME NEW i \in 1 .. m + 1, NEW j \in 1 .. m + 1, i < j
          PROVE  new.sequences[i] < new.sequences[j]
      <4>1. i \in 1 .. m /\ new.sequences[i] = g.sequences[i] /\ g.sequences[i] \in 1 .. Len(es)
        BY <1>11, <2>1, <2>3, <3>1
      <4>2. CASE j \in 1 .. m
        <5>1. g.sequences[i] < g.sequences[j]
          BY <1>3, <1>4, <3>1, <4>1, <4>2 DEF Block, m
        <5>2. QED
          BY <1>11, <4>1, <4>2, <5>1
      <4>3. CASE j \notin 1 .. m
        <5>1. j = m + 1
          BY <2>1, <4>3
        <5>2. QED
          BY <1>2, <1>11, <4>1, <5>1
      <4>4. QED
        BY <4>2, <4>3
    <3>2. QED
      BY <1>11, <3>1
  <2>6. u[s] \in ModelEvent /\ new.messages[1] = AssistantMessage(u[s]) /\ Len(new.messages) <= Len(u[s].calls) + 1
    <3>1. u[s] = es[s] /\ g.messages[1] = AssistantMessage(es[s])
      BY <1>3, <1>8 DEF Block
    <3>2. m <= Len(calls)
      BY <1>5
    <3>3. QED
      BY <1>4, <1>8, <1>12, <2>1, <2>2, <3>1, <3>2
  <2>7. ASSUME NEW j \in 2 .. Len(new.sequences)
        PROVE  /\ u[new.sequences[j]] \in ToolEvent /\ new.messages[j] = ToolMessage(u[new.sequences[j]])
               /\ u[new.sequences[j]].id = u[s].calls[j - 1].id
    <3>1. CASE j \in 2 .. m
      <4>1. j \in 1 .. m /\ j \in 2 .. Len(g.sequences)
        BY <1>4, <2>1, <3>1 DEF m
      <4>2. /\ es[g.sequences[j]] \in ToolEvent /\ g.messages[j] = ToolMessage(es[g.sequences[j]])
            /\ es[g.sequences[j]].id = es[s].calls[j - 1].id
        BY <1>3, <4>1 DEF Block
      <4>3. new.sequences[j] = g.sequences[j] /\ new.messages[j] = g.messages[j] /\ u[g.sequences[j]] = es[g.sequences[j]]
        BY <1>2, <1>11, <1>12, <2>3, <4>1
      <4>4. QED
        BY <1>8, <4>2, <4>3
    <3>2. CASE j \notin 2 .. m
      <4>1. j = m + 1 /\ j - 1 = m
        BY <1>11, <2>1, <3>2
      <4>2. new.sequences[j] = n /\ new.messages[j] = ToolMessage(e)
        BY <1>11, <1>12, <4>1
      <4>3. QED
        BY <1>1, <1>2, <1>8, <4>1, <4>2
    <3>3. QED
      BY <3>1, <3>2
  <2>8. Len(new.sequences) = Len(new.messages) /\ Len(new.sequences) >= 1
    BY <1>11, <1>12, <2>1
  <2> HIDE DEF n, s
  <2>9. QED
    BY <1>1, <2>2, <2>4, <2>5, <2>6, <2>7, <2>8 DEF Block
<1>14. new.sequences[1] = s /\ u[new.sequences[1]].calls = calls
  BY <1>4, <1>8, <1>11 DEF m
<1>15. p \ {e.id} = {} => Len(calls) = m
  <2>1. ASSUME Len(calls) # m
        PROVE  p \ {e.id} # {}
    <3>1. m + 1 \in m + 1 .. Len(calls)
      BY <1>4, <1>5, <2>1 DEF m, calls
    <3>2. QED
      BY <1>9, <3>1
  <2>2. QED
    BY <2>1
<1>16. p \ {e.id} # {} => m + 1 <= Len(calls)
  <2>1. ASSUME NEW a \in m + 1 .. Len(calls)
        PROVE  m + 1 <= Len(calls)
    BY <1>4, <2>1 DEF m, calls
  <2>2. QED
    BY <1>9, <2>1
<1>17. p \ {e.id} = {} => Whole(u, new)
  BY <1>12, <1>13, <1>14, <1>15 DEF Whole
<1>18. p \ {e.id} # {} => Waits(u, new, p \ {e.id})
  <2>1. ASSUME p \ {e.id} # {}
        PROVE  Waits(u, new, p \ {e.id})
    <3>1. Len(new.messages) <= Len(u[new.sequences[1]].calls)
      BY <1>12, <1>14, <1>16, <2>1
    <3>2. Len(new.messages) .. Len(u[new.sequences[1]].calls) = m + 1 .. Len(calls)
      BY <1>12, <1>14
    <3>3. p \ {e.id} = {u[new.sequences[1]].calls[a].id : a \in Len(new.messages) .. Len(u[new.sequences[1]].calls)}
      BY <1>9, <1>14, <3>2
    <3>4. QED
      BY <1>13, <3>1, <3>3, Zenon DEF Waits
  <2>2. QED
    BY <2>1
<1>19. QED
  BY <1>4, <1>8, <1>11, <1>17, <1>18 DEF u, m, N

\* The result of the next call goes to the open group, and closes it when it is the last.
LEMMA ToolKeeps ==
  ASSUME NEW es, HistoryInv(es), History(es).current # NoGroup, NEW e \in ToolEvent, e.id = NextCall(es)
  PROVE  /\ HistoryInv(Append(es, e)) /\ e.id \in History(es).pending
         /\ History(Append(es, e)).pending = History(es).pending \ {e.id}
         /\ History(Append(es, e)).current = NoGroup <=> History(es).pending = {e.id}
<1> DEFINE u == Append(es, e)
           n == Len(es) + 1
           h == History(es)
           g == h.current
           ids == h.pending \ {e.id}
           group == WithResult(g, n, e)
           new == History(u)
           old == h.groups
           was == Append(old, g)
           all == Append(old, group)
<1>1. es \in Seq(RunEvent) /\ e \in RunEvent /\ h \in Groups /\ h.ok /\ e \notin ModelEvent
  BY KindsDiffer DEF HistoryInv, RunEvent
<1>2. /\ u \in Seq(RunEvent) /\ Len(u) = n /\ n \in Nat /\ Len(es) \in Nat /\ u[n] = e
      /\ \A i \in 1 .. Len(es) : u[i] = es[i]
  BY <1>1
<1>3. Waits(es, g, h.pending) /\ Numbered(es)
  BY DEF HistoryInv
<1>4. e.id \in h.pending
  <2>1. Block(es, g) /\ h.pending = {es[g.sequences[1]].calls[a].id : a \in Len(g.messages) .. Len(es[g.sequences[1]].calls)}
        /\ Len(g.messages) <= Len(es[g.sequences[1]].calls)
    BY <1>3 DEF Waits
  <2>2. Len(g.messages) \in Nat /\ Len(es[g.sequences[1]].calls) \in Nat
    BY <2>1, BlockHead
  <2>3. Len(g.messages) \in Len(g.messages) .. Len(es[g.sequences[1]].calls)
    BY <2>1, <2>2
  <2>4. e.id = es[g.sequences[1]].calls[Len(g.messages)].id
    BY DEF NextCall
  <2>5. QED
    BY <2>1, <2>3, <2>4, Zenon
<1>5. /\ new \in Groups /\ new.ok /\ new.pending = ids /\ group \in Group
      /\ ids = {} => new.groups = Append(old, group) /\ new.current = NoGroup
      /\ ids # {} => new.groups = old /\ new.current = group
  <2>1. new = TakeEvent(h, n, e)
    BY <1>1, HistoryGrows DEF Turn
  <2> DEFINE next == TakeEvent(h, n, e)
  <2> HIDE DEF next, u, h, n, new
  <2>2. /\ next \in Groups /\ next.ok = h.ok /\ next.pending = ids /\ group \in Group
        /\ ids = {} => next.groups = Append(old, group) /\ next.current = NoGroup
        /\ ids # {} => next.groups = old /\ next.current = group
    <3>1. h \in Groups /\ n \in Nat /\ e.id \in h.pending
      BY <1>1, <1>2, <1>4
    <3>2. Given(h, group, ids, next)
      BY <3>1, TakesTool DEF next
    <3> HIDE DEF group, ids
    <3>3. QED
      BY <3>2 DEF Given
  <2>3. new = next
    BY <2>1 DEF next
  <2> HIDE DEF group, ids
  <2>4. QED
    BY <1>1, <2>2, <2>3
<1>6. group.messages = Append(g.messages, ToolMessage(e)) /\ group.sequences = Append(g.sequences, n)
  BY DEF WithResult
<1> HIDE DEF group, u, new
<1>7. /\ e.id \in 1 .. Len(CallsIn(es))
      /\ ids = {} => Whole(u, group)
      /\ ids # {} => Waits(u, group, ids)
      /\ Len(group.sequences) = Len(g.sequences) + 1
      /\ group.sequences[Len(g.sequences) + 1] = n
      /\ \A j \in 1 .. Len(g.sequences) : group.sequences[j] = g.sequences[j]
  <2>1. e.id = es[g.sequences[1]].calls[Len(g.messages)].id
    BY DEF NextCall
  <2>2. es \in Seq(RunEvent) /\ Waits(es, g, h.pending) /\ Numbered(es) /\ group \in Group
    BY <1>1, <1>3, <1>5
  <2>3. /\ Len(group.sequences) = Len(g.sequences) + 1
        /\ group.sequences[Len(g.sequences) + 1] = n
        /\ \A j \in 1 .. Len(g.sequences) : group.sequences[j] = g.sequences[j]
    <3>1. g.sequences \in Seq(Nat)
      BY <2>2 DEF Waits, Block, Group
    <3> HIDE DEF g, n
    <3>2. QED
      BY ONLY <1>6, <3>1
  <2> DEFINE p == h.pending
  <2>4. Grown(es, g, p, e, group)
    <3> HIDE DEF g, p, h
    <3>1. Waits(es, g, p)
      BY <2>2 DEF p
    <3>2. QED
      BY <1>6, <2>1, <2>2, <3>1, Zenon DEF Grown, n
  <2>5. /\ e.id \in 1 .. Len(CallsIn(es))
        /\ p \ {e.id} = {} => Whole(Append(es, e), group)
        /\ p \ {e.id} # {} => Waits(Append(es, e), group, p \ {e.id})
    <3> HIDE DEF g, p
    <3>1. QED
      BY <2>4, GroupGrows
  <2>6. QED
    BY <2>3, <2>5 DEF u
<1>8. Block(es, g)
  BY <1>3 DEF Waits
<1>9. /\ Len(g.sequences) \in Nat /\ Len(g.sequences) >= 1
      /\ group.sequences[1] = g.sequences[1] /\ group # NoGroup
  <2>1. Len(g.sequences) \in Nat /\ Len(g.sequences) >= 1
    BY <1>8, BlockHead
  <2>2. Len(NoGroup.sequences) = 0
    BY DEF NoGroup
  <2>3. Len(group.sequences) # 0 /\ 1 \in 1 .. Len(g.sequences)
    BY <1>7, <2>1
  <2> HIDE DEF g
  <2>4. QED
    BY <1>7, <2>1, <2>2, <2>3
<1>10. AllGroups(h) = was /\ AllGroups(new) = all /\ old \in Seq(Group)
  <2>1. AllGroups(h) = was
    BY DEF AllGroups
  <2>2. AllGroups(new) = all
    BY <1>5, <1>9 DEF AllGroups
  <2>3. QED
    BY <1>1, <2>1, <2>2 DEF Groups
<1>11. /\ Len(all) = Len(old) + 1 /\ Len(was) = Len(old) + 1 /\ Len(old) \in Nat
       /\ all[Len(old) + 1] = group /\ was[Len(old) + 1] = g
       /\ \A k \in 1 .. Len(old) : all[k] = old[k] /\ was[k] = old[k]
  <2> HIDE DEF old
  <2>1. QED
    BY <1>10
<1>12. InOrder(was) /\ Covers(es, was)
  BY <1>10 DEF HistoryInv
<1>13. \A k \in 1 .. Len(old) : Whole(u, old[k])
  BY <1>1, BlocksStay DEF HistoryInv, u
<1> HIDE DEF was, all, old
<1>14. \A k \in 1 .. Len(all) : k \in 1 .. Len(was) /\ all[k].sequences[1] = was[k].sequences[1]
  BY <1>9, <1>11
<1>15. InOrder(all)
  BY <1>12, <1>14 DEF InOrder
<1>16. Covers(u, all)
  <2>1. ASSUME NEW i \in 1 .. Len(es), u[i] \in ModelEvent
        PROVE  \E k \in 1 .. Len(all) : all[k].sequences[1] = i
    <3>1. PICK k \in 1 .. Len(was) : was[k].sequences[1] = i
      BY <1>2, <1>12, <2>1 DEF Covers
    <3>2. k \in 1 .. Len(all)
      BY <1>11
    <3>3. QED
      BY <1>14, <3>1, <3>2
  <2>2. ASSUME NEW i \in 1 .. Len(es), u[i] \in ToolEvent
        PROVE  \E k \in 1 .. Len(all) : \E j \in 2 .. Len(all[k].sequences) : all[k].sequences[j] = i
    <3>1. PICK k \in 1 .. Len(was) : \E j \in 2 .. Len(was[k].sequences) : was[k].sequences[j] = i
      BY <1>2, <1>12, <2>2 DEF Covers
    <3>2. PICK j \in 2 .. Len(was[k].sequences) : was[k].sequences[j] = i
      BY <3>1
    <3>3. k \in 1 .. Len(all)
      BY <1>11
    <3>4. CASE k \in 1 .. Len(old)
      BY <1>11, <3>2, <3>3, <3>4
    <3>5. CASE k \notin 1 .. Len(old)
      <4>1. k = Len(old) + 1
        BY <1>11, <3>5
      <4>2. was[k] = g /\ all[k] = group
        BY <1>11, <4>1
      <4>3. j \in 2 .. Len(g.sequences) /\ g.sequences[j] = i
        BY <3>2, <4>2
      <4>4. j \in 1 .. Len(g.sequences) /\ j \in 2 .. Len(group.sequences)
        BY <1>7, <1>9, <4>3
      <4>5. group.sequences[j] = i
        BY <1>7, <4>3, <4>4
      <4>6. QED
        BY <3>3, <4>2, <4>4, <4>5
    <3>6. QED
      BY <3>4, <3>5
  <2>3. \E k \in 1 .. Len(all) : \E j \in 2 .. Len(all[k].sequences) : all[k].sequences[j] = n
    <3>1. Len(old) + 1 \in 1 .. Len(all) /\ Len(g.sequences) + 1 \in 2 .. Len(group.sequences)
      BY <1>7, <1>9, <1>11
    <3>2. QED
      BY <1>7, <1>11, <3>1
  <2>4. \A i \in 1 .. Len(u) : i = n \/ i \in 1 .. Len(es)
    BY <1>2
  <2>5. u[n] \notin ModelEvent
    BY <1>1, <1>2
  <2> HIDE DEF n
  <2>6. QED
    BY <2>1, <2>2, <2>3, <2>4, <2>5 DEF Covers
<1>17. Numbered(u)
  BY <1>1, <1>3, <1>7, NumbersStay DEF u
<1>18. IdsIn(u) \ AnsweredIn(u) = ids
  <2>1. IdsIn(u) = IdsIn(es) /\ AnsweredIn(u) = AnsweredIn(es) \cup {e.id}
    BY <1>1, IdsGrow DEF u
  <2>2. IdsIn(es) \ AnsweredIn(es) = h.pending
    BY DEF HistoryInv
  <2>3. QED
    BY <2>1, <2>2
<1>19. ids = {} <=> h.pending = {e.id}
  BY <1>4
<1> HIDE DEF ids
<1>20. \A k \in 1 .. Len(new.groups) : Whole(u, new.groups[k])
  <2>1. CASE ids = {}
    <3>1. new.groups = all
      BY <1>5, <2>1 DEF all
    <3>2. \A k \in 1 .. Len(all) : k \in 1 .. Len(old) \/ k = Len(old) + 1
      BY <1>11
    <3>3. QED
      BY <1>7, <1>11, <1>13, <2>1, <3>1, <3>2
  <2>2. CASE ids # {}
    BY <1>5, <1>13, <2>2
  <2>3. QED
    BY <2>1, <2>2
<1>21. HistoryInv(u)
  <2> HIDE DEF g, h, n
  <2>1. new.current = NoGroup => new.pending = {}
    BY <1>5, <1>9
  <2>2. new.current # NoGroup => Waits(u, new.current, new.pending)
    BY <1>5, <1>7
  <2>3. QED
    BY <1>2, <1>5, <1>10, <1>15, <1>16, <1>17, <1>18, <1>20, <2>1, <2>2 DEF HistoryInv, new
<1>22. QED
  BY <1>4, <1>5, <1>9, <1>19, <1>21 DEF u, new, ids

-----------------------------------------------------------------------------
(* The Run *)

\* The call that the group waits for first is the one with the smallest identity.
LEMMA NextIsSmallest ==
  ASSUME NEW es, HistoryInv(es), History(es).current # NoGroup
  PROVE  LET p == History(es).pending IN
           /\ NextCall(es) \in p /\ NextCall(es) \in Nat
           /\ (CHOOSE c \in p : \A d \in p : c <= d) = NextCall(es)
           /\ Cardinality(p) = 1 <=> p = {NextCall(es)}
<1> DEFINE h == History(es)
           g == h.current
           p == h.pending
           m == Len(g.messages)
           calls == es[g.sequences[1]].calls
<1>1. Block(es, g) /\ m <= Len(calls) /\ p = {calls[a].id : a \in m .. Len(calls)} /\ Numbered(es) /\ p \in SUBSET Nat
  BY DEF HistoryInv, Waits, Groups
<1>2. m \in Nat /\ m >= 1 /\ Len(calls) \in Nat /\ es[g.sequences[1]] \in ModelEvent /\ g.sequences[1] \in 1 .. Len(es)
  BY <1>1, BlockHead
<1>3. \A a, b \in 1 .. Len(calls) : a < b => calls[a].id < calls[b].id
  BY <1>1, <1>2 DEF Numbered
<1>4. NextCall(es) = calls[m].id
  BY DEF NextCall
<1> HIDE DEF calls, m
<1>5. calls[m].id \in p /\ \A d \in p : calls[m].id <= d
  <2>1. m \in m .. Len(calls) /\ m \in 1 .. Len(calls)
    BY <1>1, <1>2 DEF m, calls
  <2>2. calls[m].id \in p
    BY <1>1, <2>1
  <2>3. ASSUME NEW d \in p
        PROVE  calls[m].id <= d
    <3>1. PICK a \in m .. Len(calls) : d = calls[a].id
      BY <1>1
    <3>2. a \in 1 .. Len(calls) /\ m <= a
      BY <1>2, <3>1 DEF m, calls
    <3>3. m = a \/ m < a
      BY <1>2, <3>2 DEF m, calls
    <3>4. d \in Nat /\ calls[m].id \in Nat
      BY <1>1, <2>2
    <3>5. CASE m = a
      BY <3>1, <3>4, <3>5
    <3>6. CASE m < a
      BY <1>3, <2>1, <3>1, <3>2, <3>4, <3>6
    <3>7. QED
      BY <3>3, <3>5, <3>6
  <2>4. QED
    BY <2>2, <2>3
<1>6. \A x, y \in p : x <= y /\ y <= x => x = y
  <2>1. p \subseteq Nat
    BY <1>1
  <2> HIDE DEF p
  <2>2. QED
    BY ONLY <2>1
<1>7. (CHOOSE c \in p : \A d \in p : c <= d) = calls[m].id
  <2> DEFINE c == CHOOSE x \in p : \A d \in p : x <= d
  <2> HIDE DEF p
  <2>1. c \in p /\ \A d \in p : c <= d
    BY <1>5
  <2> HIDE DEF c
  <2>2. c = calls[m].id
    BY <1>5, <1>6, <2>1
  <2>3. QED
    BY <2>2 DEF c
<1>8. IsFiniteSet(p)
  <2>1. \A a \in m .. Len(calls) : calls[a].id \in 1 .. Len(CallsIn(es))
    <3>1. \A a \in m .. Len(calls) : a \in 1 .. Len(calls)
      BY <1>2 DEF m, calls
    <3>2. \A a \in 1 .. Len(calls) : calls[a].id \in 1 .. Len(CallsIn(es))
      BY <1>1, <1>2 DEF Numbered, calls
    <3>3. QED
      BY <3>1, <3>2
  <2>2. p \subseteq 1 .. Len(CallsIn(es))
    BY <1>1, <2>1
  <2>3. Len(CallsIn(es)) \in Nat
    BY IdsGrow, KindsDiffer DEF HistoryInv, RunEvent
  <2>4. IsFiniteSet(1 .. Len(CallsIn(es)))
    BY <2>3, FS_Interval
  <2>5. QED
    BY <2>2, <2>4, FS_Subset
<1>9. Cardinality(p) = 1 <=> p = {calls[m].id}
  <2> HIDE DEF p
  <2>1. Cardinality(p) = 1 <=> \E x : p = {x}
    BY <1>8, FS_Singleton
  <2>2. QED
    BY <1>5, <2>1
<1>10. QED
  BY <1>1, <1>4, <1>5, <1>7, <1>9

\* The history of the Run's first two Events.
LEMMA HistoryStarts ==
  HistoryInv(<<Other, Other>>) /\ History(<<Other, Other>>).current = NoGroup
<1> DEFINE none == << >>
<1>1. none \in Seq(RunEvent) /\ Len(none) = 0 /\ DOMAIN none = {}
  OBVIOUS
<1>2. History(none) = Start
  BY HistoryGrows
<1>3. CallsIn(none) = <<>>
  <2>1. [i \in DOMAIN none |-> IF none[i].type = "model" THEN none[i].calls ELSE <<>>] = <<>>
    BY <1>1
  <2>2. QED
    BY <2>1, FlattenGrows DEF CallsIn
<1>4. AnsweredIn(none) = {} /\ IdsIn(none) = {}
  BY <1>1, <1>3 DEF AnsweredIn, IdsIn, ToSet
<1>5. /\ Start.groups = <<>> /\ Start.current = NoGroup /\ Start.pending = {} /\ Start.ok = TRUE
      /\ AllGroups(Start) = <<>>
  BY DEF Start, AllGroups
<1>6. Start \in Groups
  BY <1>1, <1>2, HistoryGrows
<1> HIDE DEF none
<1>7. HistoryInv(none)
  <2>1. \A i \in 1 .. Len(none) : FALSE
    BY <1>1
  <2>2. \A i \in 1 .. Len(<<>>) : FALSE
    OBVIOUS
  <2>3. Numbered(none)
    BY <1>4, <2>1 DEF Numbered
  <2>4. InOrder(<<>>) /\ Covers(none, <<>>)
    BY <2>1, <2>2 DEF InOrder, Covers
  <2>5. QED
    BY <1>1, <1>2, <1>4, <1>5, <1>6, <2>2, <2>3, <2>4 DEF HistoryInv
<1>8. HistoryInv(Append(none, Other)) /\ History(Append(none, Other)) = Start
  BY <1>2, <1>7, OtherKeeps
<1>9. HistoryInv(Append(Append(none, Other), Other)) /\ History(Append(Append(none, Other), Other)) = Start
  BY <1>8, OtherKeeps
<1>10. Append(Append(none, Other), Other) = <<Other, Other>>
  <2> DEFINE o == Other
  <2> HIDE DEF o
  <2>1. Append(<<>>, o) = <<o>>
    OBVIOUS
  <2>2. Append(<<o>>, o) = <<o, o>>
    <3> DEFINE s == Append(<<o>>, o)
    <3>1. <<o>> \in Seq({o}) /\ <<o, o>> \in Seq({o}) /\ Len(<<o>>) = 1 /\ Len(<<o, o>>) = 2
      OBVIOUS
    <3>2. s \in Seq({o}) /\ Len(s) = 2
      BY <3>1
    <3>3. \A i \in 1 .. 2 : s[i] = o /\ <<o, o>>[i] = o
      BY <3>1
    <3>4. s = [i \in 1 .. 2 |-> s[i]] /\ <<o, o>> = [i \in 1 .. 2 |-> <<o, o>>[i]]
      BY <3>1, <3>2
    <3> HIDE DEF s
    <3>5. QED
      BY <3>3, <3>4 DEF s
  <2>3. QED
    BY <2>1, <2>2 DEF none, o
<1>11. QED
  BY <1>5, <1>9, <1>10

\* Three Events at once are three Events one after the other.
LEMMA ThreeEvents ==
  ASSUME NEW es \in Seq(RunEvent), NEW e \in RunEvent
  PROVE  es \o <<Other, Other, e>> = Append(Append(Append(es, Other), Other), e)
<1>1. Other \in RunEvent
  BY DEF RunEvent
<1> HIDE DEF RunEvent, Other
<1>2. QED
  BY <1>1

\* Two of them leave the history alone.
LEMMA OthersKeep ==
  ASSUME NEW es, HistoryInv(es)
  PROVE  LET u == Append(Append(es, Other), Other) IN
           /\ HistoryInv(u) /\ History(u) = History(es) /\ CallsIn(u) = CallsIn(es)
           /\ History(es).current # NoGroup => NextCall(u) = NextCall(es)
<1> DEFINE v == Append(es, Other)
           u == Append(v, Other)
<1>1. HistoryInv(v) /\ History(v) = History(es) /\ CallsIn(v) = CallsIn(es)
  BY OtherKeeps
<1> HIDE DEF v
<1>2. HistoryInv(u) /\ History(u) = History(v) /\ CallsIn(u) = CallsIn(v)
  BY <1>1, OtherKeeps
<1>3. ASSUME History(es).current # NoGroup
      PROVE  NextCall(u) = NextCall(es)
  <2> DEFINE g == History(es).current
  <2>1. Block(es, g) /\ es \in Seq(RunEvent) /\ Other \in RunEvent
    BY <1>3 DEF HistoryInv, Waits, RunEvent
  <2>2. g.sequences[1] \in 1 .. Len(es)
    BY <2>1, BlockHead
  <2> HIDE DEF g
  <2>3. u[g.sequences[1]] = es[g.sequences[1]]
    <3> DEFINE s == g.sequences[1]
    <3>1. s \in 1 .. Len(es)
      BY <2>2
    <3> HIDE DEF s, RunEvent, Other
    <3>2. v[s] = es[s] /\ s \in 1 .. Len(v) /\ v \in Seq(RunEvent)
      BY <2>1, <3>1 DEF v
    <3>3. u[s] = v[s]
      BY <2>1, <3>2
    <3>4. QED
      BY <3>2, <3>3 DEF s
  <2>4. History(u).current = g
    BY <1>1, <1>2 DEF g
  <2> HIDE DEF u
  <2>5. QED
    BY <2>3, <2>4 DEF NextCall, g
<1>4. QED
  BY <1>1, <1>2, <1>3 DEF v

-----------------------------------------------------------------------------
(* Requests of whole groups *)

\* The calls of a message are followed by their results, and by nothing else.
AnsweredAt(ms, i) ==
  LET n == Len(ms[i].calls) IN
    /\ i + n <= Len(ms)
    /\ \A j \in i + 1 .. i + n : ms[j].role = "tool"
    /\ {ms[j].result.id : j \in i + 1 .. i + n} = {c.id : c \in ToSet(ms[i].calls)}
    /\ i + n = Len(ms) \/ ms[i + n + 1].role = "assistant"
Complete(ms) == \A i \in DOMAIN ms : ms[i].role = "assistant" => AnsweredAt(ms, i)

\* The messages of a group that waits for nothing.
WholeMessages ==
  {w \in Seq(Message) :
     /\ Len(w) >= 1 /\ w[1].role = "assistant" /\ w[1].calls \in Seq(Call) /\ Len(w) = Len(w[1].calls) + 1
     /\ \A j \in 2 .. Len(w) : w[j].role = "tool" /\ w[j].result.id = w[1].calls[j - 1].id}

\* A whole group consists of such messages.
LEMMA WholeGroups ==
  ASSUME NEW es, NEW g, Whole(es, g)
  PROVE  g.messages \in WholeMessages
<1> DEFINE e == es[g.sequences[1]]
           w == g.messages
<1>1. Block(es, g) /\ Len(w) = Len(e.calls) + 1
  BY DEF Whole
<1>2. /\ Len(g.sequences) \in Nat /\ Len(g.sequences) >= 1 /\ Len(w) = Len(g.sequences)
      /\ e \in ModelEvent /\ e.calls \in Seq(Call) /\ Len(e.calls) \in Nat
  BY <1>1, BlockHead
<1>3. w \in Seq(Message)
  BY <1>1 DEF Block, Group
<1>4. w[1].role = "assistant" /\ w[1].calls = e.calls
  BY <1>1 DEF Block, AssistantMessage
<1>5. ASSUME NEW j \in 2 .. Len(w)
      PROVE  w[j].role = "tool" /\ w[j].result.id = e.calls[j - 1].id
  <2>1. j \in 2 .. Len(g.sequences)
    BY <1>2
  <2>2. w[j] = ToolMessage(es[g.sequences[j]]) /\ es[g.sequences[j]].id = e.calls[j - 1].id
    BY <1>1, <2>1 DEF Block
  <2>3. w[j].role = "tool" /\ w[j].result.id = es[g.sequences[j]].id
    BY <2>2 DEF ToolMessage
  <2>4. QED
    BY <2>2, <2>3
<1> HIDE DEF w, e, Call, Message
<1>6. Len(w) >= 1
  BY <1>2
<1>7. QED
  BY <1>1, <1>2, <1>3, <1>4, <1>5, <1>6 DEF WholeMessages, w

\* Another whole group behind a complete request leaves it complete.
LEMMA CompleteGrows ==
  ASSUME NEW ms \in Seq(Message), Complete(ms), NEW w \in WholeMessages
  PROVE  Complete(ms \o w)
<1> DEFINE u == ms \o w
           N == Len(ms)
           c == w[1].calls
<1>1. /\ w \in Seq(Message) /\ Len(w) >= 1 /\ w[1].role = "assistant" /\ c \in Seq(Call) /\ Len(w) = Len(c) + 1
      /\ \A j \in 2 .. Len(w) : w[j].role = "tool" /\ w[j].result.id = c[j - 1].id
  BY DEF WholeMessages
<1>2. N \in Nat /\ DOMAIN ms = 1 .. N /\ Len(c) \in Nat /\ DOMAIN c = 1 .. Len(c)
  BY <1>1
<1>3. /\ Len(u) = N + Len(c) + 1 /\ DOMAIN u = 1 .. N + Len(c) + 1
      /\ \A i \in 1 .. N : u[i] = ms[i]
      /\ \A j \in 1 .. Len(w) : u[N + j] = w[j]
  <2> HIDE DEF c, Message, u
  <2>1. u \in Seq(Message) /\ Len(u) = N + Len(w)
    BY <1>1, <1>2 DEF u
  <2>2. DOMAIN u = 1 .. Len(u)
    BY <2>1
  <2>3. \A i \in 1 .. N : u[i] = ms[i]
    BY <1>1, <1>2 DEF u
  <2>4. \A j \in 1 .. Len(w) : u[N + j] = w[j]
    BY <1>1, <1>2 DEF u
  <2> HIDE DEF N
  <2>5. QED
    BY <1>1, <1>2, <2>1, <2>2, <2>3, <2>4
<1> HIDE DEF u, N, c
<1>4. ASSUME NEW i \in 1 .. N, u[i].role = "assistant"
      PROVE  AnsweredAt(u, i)
  <2> DEFINE n == Len(ms[i].calls)
  <2>1. u[i] = ms[i] /\ AnsweredAt(ms, i)
    BY <1>2, <1>3, <1>4 DEF Complete
  <2>2. n \in Nat
    <3>1. ms[i] \in Message
      BY <1>2 DEF N
    <3>2. <<>> \in Seq(Call)
      OBVIOUS
    <3>3. ms[i].calls \in Seq(Call)
      <4>1. CASE ms[i] \in Fixed
        <5>1. ms[i].calls = <<>>
          BY <4>1 DEF Fixed
        <5>2. QED
          BY <3>2, <5>1
      <4>2. CASE ms[i] \in Answer
        BY <4>2 DEF Answer
      <4>3. CASE ms[i] \in Outcome
        <5>1. ms[i].calls = <<>>
          BY <4>3 DEF Outcome
        <5>2. QED
          BY <3>2, <5>1
      <4>4. QED
        BY <3>1, <4>1, <4>2, <4>3 DEF Message
    <3> HIDE DEF Call
    <3>4. QED
      BY <3>3
  <2>3. i + n <= N /\ (i + n = N \/ ms[i + n + 1].role = "assistant")
    BY <2>1 DEF AnsweredAt, N
  <2>4. \A j \in i + 1 .. i + n : j \in 1 .. N /\ u[j] = ms[j]
    <3> HIDE DEF n
    <3>1. QED
      BY <1>2, <1>3, <2>2, <2>3
  <2>5. \A j \in i + 1 .. i + n : u[j].role = "tool"
    BY <2>1, <2>4 DEF AnsweredAt
  <2>6. {u[j].result.id : j \in i + 1 .. i + n} = {x.id : x \in ToSet(ms[i].calls)}
    <3>1. {u[j].result.id : j \in i + 1 .. i + n} = {ms[j].result.id : j \in i + 1 .. i + n}
      BY <2>4
    <3>2. QED
      BY <2>1, <3>1 DEF AnsweredAt
  <2> HIDE DEF n
  <2>7. i + n <= Len(u)
    BY <1>2, <1>3, <2>2, <2>3
  <2>8. u[i + n + 1].role = "assistant"
    <3>1. CASE i + n = N
      <4>1. 1 \in 1 .. Len(w) /\ u[N + 1] = w[1]
        BY <1>1, <1>2, <1>3
      <4>2. QED
        BY <1>1, <3>1, <4>1
    <3>2. CASE i + n # N
      <4>1. i + n + 1 \in 1 .. N
        BY <1>2, <2>2, <2>3, <3>2
      <4>2. QED
        BY <1>3, <2>3, <3>2, <4>1
    <3>3. QED
      BY <3>1, <3>2
  <2>9. QED
    BY <2>1, <2>5, <2>6, <2>7, <2>8 DEF AnsweredAt, n
<1>5. ASSUME NEW i \in DOMAIN u, i \notin 1 .. N, u[i].role = "assistant"
      PROVE  AnsweredAt(u, i)
  <2>1. i - N \in 1 .. Len(w) /\ N + (i - N) = i
    BY <1>1, <1>2, <1>3, <1>5
  <2>2. u[i] = w[i - N]
    BY <1>3, <2>1
  <2>3. i - N = 1
    <3>1. i - N \notin 2 .. Len(w)
      BY <1>1, <1>5, <2>2
    <3>2. QED
      BY <2>1, <3>1
  <2>4. i = N + 1 /\ u[i].calls = c
    BY <1>2, <2>1, <2>2, <2>3 DEF c
  <2>5. i + Len(c) = Len(u)
    BY <1>2, <1>3, <2>4
  <2>6. ASSUME NEW j \in i + 1 .. i + Len(c)
        PROVE  u[j].role = "tool" /\ j - i \in 1 .. Len(c) /\ u[j].result.id = c[j - i].id
    <3>1. j - N \in 2 .. Len(w) /\ j - N \in 1 .. Len(w) /\ N + (j - N) = j /\ (j - N) - 1 = j - i /\ j - i \in 1 .. Len(c)
      BY <1>1, <1>2, <2>4
    <3>2. u[j] = w[j - N]
      BY <1>3, <3>1
    <3>3. w[j - N].role = "tool" /\ w[j - N].result.id = c[(j - N) - 1].id
      BY <1>1, <3>1
    <3>4. QED
      BY <3>1, <3>2, <3>3
  <2>7. {u[j].result.id : j \in i + 1 .. i + Len(c)} = {x.id : x \in ToSet(c)}
    <3>1. ASSUME NEW j \in i + 1 .. i + Len(c)
          PROVE  u[j].result.id \in {x.id : x \in ToSet(c)}
      BY <1>2, <2>6 DEF ToSet
    <3>2. ASSUME NEW x \in ToSet(c)
          PROVE  x.id \in {u[j].result.id : j \in i + 1 .. i + Len(c)}
      <4>1. PICK a \in 1 .. Len(c) : x = c[a]
        BY <1>2 DEF ToSet
      <4>2. i + a \in i + 1 .. i + Len(c) /\ (i + a) - i = a
        BY <1>2, <2>4
      <4>3. u[i + a].result.id = c[a].id
        BY <2>6, <4>2
      <4>4. QED
        BY <4>1, <4>2, <4>3
    <3>3. QED
      BY <3>1, <3>2
  <2>8. i + Len(c) <= Len(u)
    BY <1>2, <2>4, <2>5
  <2>9. QED
    BY <2>4, <2>5, <2>6, <2>7, <2>8 DEF AnsweredAt
<1>6. QED
  BY <1>4, <1>5 DEF Complete, u

\* The fixed layers with any number of whole groups behind them are complete.
LEMMA WholeGroupsComplete ==
  ASSUME NEW t \in Seq(WholeMessages)
  PROVE  Complete(FixedMessages \o FlattenSeq(t))
<1> DEFINE S == Seq(WholeMessages)
           T == {s \in S : Complete(FixedMessages \o FlattenSeq(s))}
<1>1. FixedMessages \in Seq(Message) /\ Len(FixedMessages) = 3 /\ \A i \in 1 .. 3 : FixedMessages[i].role # "assistant"
  BY FixedAreMessages
<1>2. <<>> \in T
  <2>1. FixedMessages \o <<>> = FixedMessages /\ DOMAIN FixedMessages = 1 .. 3
    <3> HIDE DEF Message
    <3>1. QED
      BY <1>1
  <2>2. Complete(FixedMessages)
    BY <1>1, <2>1 DEF Complete
  <2>3. QED
    <3>1. <<>> \in S
      OBVIOUS
    <3>2. QED
      BY <2>1, <2>2, <3>1, FlattenGrows
<1>3. ASSUME NEW s \in S, NEW w \in WholeMessages, s \in T
      PROVE  Append(s, w) \in T
  <2>1. WholeMessages \subseteq Seq(Message)
    BY DEF WholeMessages
  <2>2. s \in Seq(Seq(Message)) /\ w \in Seq(Message)
    <3> HIDE DEF Message, WholeMessages
    <3>1. QED
      BY <2>1
  <2>3. FlattenSeq(Append(s, w)) = FlattenSeq(s) \o w /\ FlattenSeq(s) \in Seq(Message)
    BY <2>2, FlattenGrows
  <2>4. FixedMessages \o (FlattenSeq(s) \o w) = (FixedMessages \o FlattenSeq(s)) \o w
    <3> DEFINE f == FlattenSeq(s)
    <3>1. FixedMessages \in Seq(Message) /\ f \in Seq(Message) /\ w \in Seq(Message)
      BY <1>1, <2>2, <2>3
    <3> HIDE DEF f, Message
    <3>2. (FixedMessages \o f) \o w = FixedMessages \o (f \o w)
      BY <3>1, ConcatAssociative
    <3>3. QED
      BY <3>2 DEF f
  <2>5. FixedMessages \o FlattenSeq(s) \in Seq(Message)
    <3> HIDE DEF Message
    <3>1. QED
      BY <1>1, <2>3
  <2>6. Complete((FixedMessages \o FlattenSeq(s)) \o w)
    BY <1>3, <2>5, CompleteGrows
  <2>7. Append(s, w) \in S
    OBVIOUS
  <2>8. QED
    BY <2>3, <2>4, <2>6, <2>7
<1>4. S \subseteq T
  <2> HIDE DEF T
  <2>1. QED
    BY <1>2, <1>3, SequenceInduction
<1>5. QED
  BY <1>4

-----------------------------------------------------------------------------
(* What is built, and the invariant of the Run *)

\* The groups that were dropped, one after the other, and the request that is left.
Fits(es, b) ==
  LET groups == History(es).groups
      d == Drop(groups)
  IN  /\ d \in 1 .. Len(groups) + 1 /\ (groups # <<>> => d <= Len(groups))
      /\ \A k \in 1 .. d - 1 : InputChars(Messages(groups, k)) > max_context_chars
      /\ b.messages = Messages(groups, d)
      /\ b.omitted = UNION {ToSet(groups[k].sequences) : k \in 1 .. d - 1}
      /\ InputChars(b.messages) <= max_context_chars /\ ValidRequest(b.messages)

\* While no call is open, building fails for the size of a request or for its validation only.
LEMMA BuildIs ==
  ASSUME NEW es, HistoryInv(es), History(es).current = NoGroup
  PROVE  /\ Build(es).error \in {Nothing, "invalid", "too_large"}
         /\ Build(es).error = Nothing => Fits(es, Build(es))
<1> DEFINE groups == History(es).groups
           first == Drop(groups)
           shown == Messages(groups, first)
           bad == \E k \in 1 .. first : ~ ValidRequest(Messages(groups, k))
           good == [error |-> Nothing, first |-> first, messages |-> shown,
                    omitted |-> UNION {ToSet(groups[k].sequences) : k \in 1 .. first - 1},
                    truncated |-> FlattenSeq([i \in 1 .. Len(groups) + 1 - first |-> groups[i + first - 1].truncated])]
<1>1. History(es).ok /\ groups \in Seq(Group)
  BY DEF HistoryInv, Groups
<1>2. Build(es) = IF bad THEN Failure("invalid") ELSE IF TooLarge(shown) THEN Failure("too_large") ELSE good
  BY <1>1, Zenon DEF Build
<1>3. Failure("invalid").error = "invalid" /\ Failure("too_large").error = "too_large" /\ good.error = Nothing
  BY DEF Failure
<1>4. /\ first \in 1 .. Len(groups) + 1 /\ (groups # <<>> => first <= Len(groups))
      /\ \A k \in 1 .. first - 1 : InputChars(Messages(groups, k)) > max_context_chars
  BY <1>1, DropsTheOldest
<1>5. good.messages = shown /\ good.omitted = UNION {ToSet(groups[k].sequences) : k \in 1 .. first - 1}
  OBVIOUS
<1>6. InputChars(shown) \in Nat /\ Len(groups) \in Nat
  BY <1>1, <1>4, RequestIsMessages
<1> HIDE DEF good, bad, first, shown, groups
<1>7. ASSUME ~ bad, ~ TooLarge(shown)
      PROVE  Fits(es, good)
  <2>1. InputChars(shown) <= max_context_chars
    BY <1>6, <1>7, ContextLimits DEF TooLarge
  <2>2. first \in 1 .. first
    BY <1>4, <1>6
  <2>3. ValidRequest(shown)
    BY <1>7, <2>2 DEF bad, shown
  <2>4. QED
    BY <1>4, <1>5, <2>1, <2>3 DEF Fits, first, shown, groups
<1>8. QED
  BY <1>2, <1>3, <1>7, ContextLimits

RunInv ==
  /\ HistoryInv(events)
  /\ status \in {"build", "ask", "tools", "invalid", "too_large", "reused", "protocol"}
  /\ status = "tools" <=> History(events).current # NoGroup
  /\ status \in {"ask", "reused", "protocol"} => context = Build(events) /\ context.error = Nothing

\* The calls that are open are those the open group waits for.
LEMMA PendingIs ==
  ASSUME HistoryInv(events)
  PROVE  Pending = History(events).pending
<1>1. Pending = IdsIn(events) \ AnsweredIn(events)
  BY CalledIsCallsIn DEF Pending, IdsIn
<1>2. QED
  BY <1>1 DEF HistoryInv

\* An answer of the model, with as many calls as it asks for.
LEMMA AnswerIs ==
  ASSUME NEW n \in 1 .. MaxCalls, NEW text \in Sizes, NEW size \in Sizes,
         NEW ps \in Injection(1 .. n, ProviderIds), NEW ns \in [1 .. n -> ToolNames], HistoryInv(events)
  PROVE  LET e == ModelCallCompleted(text, NewCalls(ps, ns, size)) IN
           /\ e \in ModelEvent /\ Len(e.calls) >= 1
           /\ \A a \in 1 .. Len(e.calls) : e.calls[a].id = Len(CallsIn(events)) + a
<1> DEFINE N == Len(CallsIn(events))
           calls == NewCalls(ps, ns, size)
           e == ModelCallCompleted(text, calls)
<1>1. N \in Nat
  BY IdsGrow, KindsDiffer DEF HistoryInv, RunEvent
<1>2. N = Len(Called) /\ n \in Nat /\ n >= 1 /\ ps \in [1 .. n -> ProviderIds]
  BY CalledIsCallsIn, ContextLimits DEF Injection
<1>3. calls = [i \in 1 .. n |-> [id |-> Len(Called) + i, provider |-> ps[i], name |-> ns[i], size |-> size]]
  BY DEF NewCalls
<1> HIDE DEF N, calls
<1>4. ASSUME NEW i \in 1 .. n
      PROVE  calls[i] \in Call /\ calls[i].id = N + i
  <2>1. calls[i] = [id |-> N + i, provider |-> ps[i], name |-> ns[i], size |-> size]
    BY <1>2, <1>3
  <2>2. N + i \in Nat /\ ps[i] \in ProviderIds /\ ns[i] \in ToolNames
    BY <1>1, <1>2
  <2>3. QED
    BY <2>1, <2>2 DEF Call
<1>5. calls = [i \in 1 .. n |-> calls[i]]
  BY <1>3
<1>6. calls \in Seq(Call) /\ Len(calls) = n
  <2> HIDE DEF Call
  <2>1. QED
    BY <1>2, <1>4, <1>5
<1>7. e.calls = calls /\ e \in ModelEvent
  BY <1>6 DEF ModelCallCompleted, ModelEvent
<1>8. QED
  BY <1>2, <1>4, <1>6, <1>7 DEF N, calls

\* Initially.
LEMMA RunInvStarts ==
  InitContext => RunInv
BY HistoryStarts DEF InitContext, RunInv

\* Building.
LEMMA RunInvBuild ==
  RunInv /\ BuildContext => RunInv'
<1> SUFFICES ASSUME RunInv, BuildContext
             PROVE  RunInv'
  OBVIOUS
<1>1. /\ HistoryInv(events) /\ History(events).current = NoGroup
      /\ context' = Build(events) /\ events' = events
      /\ status' = IF context'.error = Nothing THEN "ask" ELSE context'.error
  BY DEF RunInv, BuildContext
<1>2. Build(events).error \in {Nothing, "invalid", "too_large"}
  BY <1>1, BuildIs
<1> DEFINE b == Build(events)
           h == History(events)
<1> HIDE DEF b, h
<1>3. context' = b /\ b.error \in {Nothing, "invalid", "too_large"} /\ h.current = NoGroup
  BY <1>1, <1>2 DEF b, h
<1>4. status' \in {"ask", "invalid", "too_large"} /\ (status' = "ask" => b.error = Nothing)
  BY <1>1, <1>3, ContextLimits
<1>5. status' # "tools"
  BY <1>4
<1>6. status' \in {"ask", "reused", "protocol"} => status' = "ask"
  BY <1>4
<1>7. HistoryInv(events)' /\ History(events)' = h /\ Build(events)' = b
  BY <1>1 DEF h, b
<1>8. status' \in {"build", "ask", "tools", "invalid", "too_large", "reused", "protocol"}
  BY <1>4
<1>9. QED
  BY <1>3, <1>4, <1>5, <1>6, <1>7, <1>8 DEF RunInv

\* Asking the model.
LEMMA RunInvAsk ==
  RunInv /\ AskModel => RunInv'
<1> SUFFICES ASSUME RunInv, AskModel
             PROVE  RunInv'
  OBVIOUS
<1>1. HistoryInv(events) /\ History(events).current = NoGroup /\ status = "ask" /\ context' = context
      /\ context = Build(events) /\ context.error = Nothing
  BY DEF RunInv, AskModel
<1>2. PICK n \in 1 .. MaxCalls, text \in Sizes, size \in Sizes :
        \E ps \in Injection(1 .. n, ProviderIds), ns \in [1 .. n -> ToolNames] :
          LET calls == NewCalls(ps, ns, size) IN
            IF Reused(calls) THEN status' = "reused" /\ UNCHANGED events
            ELSE /\ events' = events \o <<Other, Other, ModelCallCompleted(text, calls)>>
                 /\ status' = "tools"
  BY DEF AskModel
<1>3. PICK ps \in Injection(1 .. n, ProviderIds), ns \in [1 .. n -> ToolNames] :
          LET calls == NewCalls(ps, ns, size) IN
            IF Reused(calls) THEN status' = "reused" /\ UNCHANGED events
            ELSE /\ events' = events \o <<Other, Other, ModelCallCompleted(text, calls)>>
                 /\ status' = "tools"
  BY <1>2
<1> DEFINE calls == NewCalls(ps, ns, size)
<1>4. CASE Reused(calls)
  <2>1. status' = "reused" /\ events' = events
    BY <1>3, <1>4
  <2>2. HistoryInv(events)' /\ History(events)' = History(events) /\ Build(events)' = Build(events)
    BY <1>1, <2>1
  <2>3. QED
    BY <1>1, <2>1, <2>2 DEF RunInv
<1>5. CASE ~ Reused(calls)
  <2> DEFINE e == ModelCallCompleted(text, calls)
             es == events
             u == Append(Append(es, Other), Other)
             v == Append(u, e)
  <2>1. e \in ModelEvent /\ Len(e.calls) >= 1 /\ \A a \in 1 .. Len(e.calls) : e.calls[a].id = Len(CallsIn(es)) + a
    BY <1>1, AnswerIs
  <2>2. HistoryInv(u) /\ History(u) = History(es) /\ CallsIn(u) = CallsIn(es)
    BY <1>1, OthersKeep
  <2> HIDE DEF u, e
  <2>3. HistoryInv(v) /\ History(v).current # NoGroup
    BY <1>1, <2>1, <2>2, ModelKeeps
  <2>4. es \in Seq(RunEvent) /\ e \in RunEvent
    BY <1>1, <2>1 DEF HistoryInv, RunEvent
  <2>5. events' = v
    BY <1>3, <1>5, <2>4, ThreeEvents DEF e, u
  <2> HIDE DEF v
  <2>6. HistoryInv(events)' /\ (History(events)').current # NoGroup
    BY <2>3, <2>5
  <2>7. status' = "tools"
    BY <1>3, <1>5
  <2>8. QED
    BY <2>6, <2>7 DEF RunInv
<1>6. QED
  BY <1>4, <1>5

\* Calling a Tool.
LEMMA RunInvTool ==
  RunInv /\ CallTool => RunInv'
<1> SUFFICES ASSUME RunInv, CallTool
             PROVE  RunInv'
  OBVIOUS
<1> DEFINE es == events
           h == History(es)
           p == h.pending
           u == Append(Append(es, Other), Other)
<1>1. HistoryInv(es) /\ h.current # NoGroup /\ Pending = p
  BY PendingIs DEF RunInv, CallTool
<1>2. PICK size \in ResultSizes :
        events' = es \o <<Other, Other, ToolCallEnded(CHOOSE c \in Pending : \A d \in Pending : c <= d, size)>>
  BY DEF CallTool
<1>3. status' = IF Cardinality(Pending) = 1 THEN "build" ELSE "tools"
  BY DEF CallTool
<1> DEFINE e == ToolCallEnded(NextCall(es), size)
           v == Append(u, e)
<1>4. /\ NextCall(es) \in Nat /\ (CHOOSE c \in p : \A d \in p : c <= d) = NextCall(es)
      /\ Cardinality(p) = 1 <=> p = {NextCall(es)}
  BY <1>1, NextIsSmallest
<1>5. e \in ToolEvent /\ e.id = NextCall(es)
  BY <1>4 DEF ToolCallEnded, ToolEvent
<1>6. HistoryInv(u) /\ History(u) = h /\ NextCall(u) = NextCall(es)
  BY <1>1, OthersKeep
<1> HIDE DEF p
<1>7. events' = es \o <<Other, Other, e>>
  BY <1>1, <1>2, <1>4
<1> HIDE DEF u, e
<1>8. HistoryInv(v) /\ (History(v).current = NoGroup <=> p = {NextCall(es)})
  <2>1. History(u).current # NoGroup /\ e.id = NextCall(u)
    BY <1>1, <1>5, <1>6
  <2>2. /\ HistoryInv(Append(u, e))
        /\ History(Append(u, e)).current = NoGroup <=> History(u).pending = {e.id}
    BY <1>5, <1>6, <2>1, ToolKeeps
  <2>3. QED
    BY <1>5, <1>6, <2>2 DEF p
<1>9. es \in Seq(RunEvent) /\ e \in RunEvent
  BY <1>1, <1>5 DEF HistoryInv, RunEvent
<1>10. events' = v
  BY <1>7, <1>9, ThreeEvents DEF u
<1> HIDE DEF v, h
<1>11. HistoryInv(events)' /\ ((History(events)').current = NoGroup <=> p = {NextCall(es)})
  BY <1>8, <1>10
<1>12. status' = IF p = {NextCall(es)} THEN "build" ELSE "tools"
  BY <1>1, <1>3, <1>4
<1>13. CASE p = {NextCall(es)}
  BY <1>11, <1>12, <1>13 DEF RunInv
<1>14. CASE p # {NextCall(es)}
  BY <1>11, <1>12, <1>14 DEF RunInv
<1>15. QED
  BY <1>13, <1>14

\* No step leaves the invariant.
LEMMA RunInvKept ==
  /\ RunInv /\ [NextContext]_contextVars => RunInv'
  /\ RunInv /\ [NextRun]_runVars => RunInv'
<1>1. ASSUME RunInv, UNCHANGED contextVars
      PROVE  RunInv'
  BY <1>1, Zenon DEF RunInv, contextVars
<1>2. ASSUME RunInv, status = "ask", status' = "protocol", UNCHANGED <<events, context>>
      PROVE  RunInv'
  <2>1. HistoryInv(events)' /\ History(events)' = History(events) /\ Build(events)' = Build(events) /\ HistoryInv(events)
    BY <1>2 DEF RunInv
  <2>2. context = Build(events) /\ context.error = Nothing /\ History(events).current = NoGroup /\ context' = context
    BY <1>2 DEF RunInv
  <2>3. QED
    BY <1>2, <2>1, <2>2 DEF RunInv
<1>3. RunInv /\ [NextContext]_contextVars => RunInv'
  BY <1>1, RunInvBuild, RunInvAsk, RunInvTool DEF NextContext
<1>4. RunInv /\ [NextRun]_runVars => RunInv'
  BY <1>1, <1>2, RunInvBuild, RunInvAsk, RunInvTool DEF NextRun, Send, runVars
<1>5. QED
  BY <1>3, <1>4

\* With the invariant every request is complete.
LEMMA RequestsFollow ==
  RunInv => RequestsAreComplete
<1> SUFFICES ASSUME RunInv
             PROVE  RequestsAreComplete
  OBVIOUS
<1>1. HistoryInv(events) /\ events \in Seq(RunEvent)
  BY DEF RunInv, HistoryInv
<1>2. ASSUME Built
      PROVE  Fits(events, context) /\ context = Build(events)
  BY <1>1, <1>2, BuildIs DEF Built, RunInv
<1>3. ContextTypeOK
  <2>1. \A i \in DOMAIN events : events[i].type \in {"other", "model", "tool"}
    <3>1. \A i \in DOMAIN events : events[i] \in RunEvent
      BY <1>1
    <3>2. QED
      BY <3>1, EventKinds DEF RunEvent
  <2>2. Built => InputChars(context.messages) <= max_context_chars /\ ValidRequest(context.messages)
    BY <1>2 DEF Fits
  <2>3. status \in {"build", "ask", "tools", "incomplete", "invalid", "too_large", "reused", "protocol"}
    BY DEF RunInv
  <2>4. QED
    BY <2>1, <2>2, <2>3 DEF ContextTypeOK
<1>4. CallsAnswered
  <2>1. SUFFICES ASSUME Built
                 PROVE  Complete(context.messages)
    BY Zenon DEF CallsAnswered, Complete, AnsweredAt
  <2> DEFINE groups == History(events).groups
             d == Drop(groups)
             t == Pieces(groups, d)
  <2>2. groups \in Seq(Group) /\ d \in 1 .. Len(groups) + 1 /\ context.messages = Messages(groups, d)
    BY <1>1, <1>2, <2>1 DEF Fits, HistoryInv, Groups
  <2>3. /\ t = [i \in 1 .. Len(groups) + 1 - d |-> groups[i + d - 1].messages] /\ Len(groups) + 1 - d \in Nat
        /\ Messages(groups, d) = FixedMessages \o FlattenSeq(t)
    <3>1. groups \in Seq(Group) /\ d \in 1 .. Len(groups) + 1
      BY <2>2
    <3> HIDE DEF groups, d
    <3>2. Len(Pieces(groups, d)) = Len(groups) + 1 - d /\ Messages(groups, d) = FixedMessages \o FlattenSeq(Pieces(groups, d))
      BY <3>1, RequestIsMessages
    <3>3. Len(groups) + 1 - d \in Nat
      <4> HIDE DEF Group
      <4>1. QED
        BY <3>1
    <3>4. QED
      BY <3>2, <3>3 DEF Pieces
  <2>4. \A k \in 1 .. Len(groups) : groups[k].messages \in WholeMessages
    BY <1>1, WholeGroups DEF HistoryInv
  <2> HIDE DEF groups, d, t, WholeMessages
  <2>5. t \in Seq(WholeMessages)
    <3>1. \A i \in 1 .. Len(groups) + 1 - d : i + d - 1 \in 1 .. Len(groups)
      BY <2>2
    <3>2. \A i \in 1 .. Len(groups) + 1 - d : groups[i + d - 1].messages \in WholeMessages
      BY <2>4, <3>1
    <3>3. QED
      BY <2>3, <3>2
  <2>6. QED
    BY <2>2, <2>3, <2>5, WholeGroupsComplete
<1>5. NeverIncomplete
  BY DEF RunInv, NeverIncomplete
<1>6. QED
  BY <1>3, <1>4, <1>5 DEF RequestsAreComplete

(***************************************************************************)
(* RequestsAreComplete, for all limits, sizes and Tools and a Run of any   *)
(* length: whatever ContextBuilder.build drops, a request it returns holds *)
(* each call with all its results behind it and no result without its      *)
(* call, and the history of a Run that the loop drives is never taken for  *)
(* incomplete (runtime/context.py, _history_groups, build); alone and        *)
(* under the translation.                                                  *)
(***************************************************************************)
THEOREM RequestsComplete ==
  (ContextSpec => []RequestsAreComplete) /\ (RunSpec => []RequestsAreComplete)
<1>1. ContextSpec => []RunInv
  BY RunInvStarts, RunInvKept, PTL DEF ContextSpec
<1>2. InitRun => RunInv
  BY RunInvStarts DEF InitRun
<1>3. RunSpec => []RunInv
  BY <1>2, RunInvKept, PTL DEF RunSpec
<1>4. QED
  BY <1>1, <1>3, RequestsFollow, PTL

-----------------------------------------------------------------------------
(* Sums and concatenations over parts of a sequence *)

\* Appending to the second of two joined sequences.
LEMMA AppendJoins ==
  ASSUME NEW X, NEW a \in Seq(X), NEW b \in Seq(X), NEW x \in X
  PROVE  a \o Append(b, x) = Append(a \o b, x)
<1> DEFINE l == a \o Append(b, x)
           r == Append(a \o b, x)
           N == Len(a) + Len(b) + 1
<1>1. /\ Len(a) \in Nat /\ Len(b) \in Nat /\ a \o b \in Seq(X) /\ Len(a \o b) = Len(a) + Len(b)
      /\ Append(b, x) \in Seq(X) /\ Len(Append(b, x)) = Len(b) + 1
  OBVIOUS
<1>2. l \in Seq(X) /\ r \in Seq(X) /\ Len(l) = N /\ Len(r) = N
  BY <1>1
<1>3. ASSUME NEW i \in 1 .. N
      PROVE  l[i] = r[i]
  OBVIOUS
<1> HIDE DEF l, r
<1>4. l = r
  BY <1>2, <1>3, SeqEqual
<1>5. QED
  BY <1>4 DEF l, r

\* The sum of two joined sequences.
LEMMA TotalJoins ==
  ASSUME NEW a \in Seq(Nat), NEW b \in Seq(Nat)
  PROVE  Total(a \o b) = Total(a) + Total(b)
<1> DEFINE T == {s \in Seq(Nat) : Total(a \o s) = Total(a) + Total(s)}
<1>1. Total(a) \in Nat /\ Total(<<>>) = 0
  BY TotalGrows
<1>2. <<>> \in T
  <2>1. a \o <<>> = a /\ <<>> \in Seq(Nat)
    OBVIOUS
  <2>2. QED
    BY <1>1, <2>1
<1>3. ASSUME NEW s \in Seq(Nat), NEW x \in Nat, s \in T
      PROVE  Append(s, x) \in T
  <2>1. a \o Append(s, x) = Append(a \o s, x) /\ a \o s \in Seq(Nat) /\ Append(s, x) \in Seq(Nat)
    BY AppendJoins
  <2>2. Total(Append(a \o s, x)) = Total(a \o s) + x /\ Total(Append(s, x)) = Total(s) + x /\ Total(s) \in Nat
    BY <2>1, TotalGrows
  <2>3. Total(a \o s) = Total(a) + Total(s)
    BY <1>3
  <2>4. Total(a \o Append(s, x)) = Total(Append(a \o s, x))
    BY <2>1
  <2>5. Total(a \o Append(s, x)) = Total(a) + Total(Append(s, x))
    BY <1>1, <2>2, <2>3, <2>4
  <2>6. QED
    BY <2>1, <2>5
<1>4. Seq(Nat) \subseteq T
  <2> HIDE DEF T
  <2>1. QED
    BY <1>2, <1>3, SequenceInduction
<1>5. QED
  BY <1>4

\* The concatenation of two joined sequences.
LEMMA FlattenJoins ==
  ASSUME NEW X, NEW a \in Seq(Seq(X)), NEW b \in Seq(Seq(X))
  PROVE  FlattenSeq(a \o b) = FlattenSeq(a) \o FlattenSeq(b)
<1> DEFINE S == Seq(X)
           T == {s \in Seq(S) : FlattenSeq(a \o s) = FlattenSeq(a) \o FlattenSeq(s)}
<1>1. FlattenSeq(a) \in S /\ FlattenSeq(<<>>) = <<>>
  BY FlattenGrows
<1>2. <<>> \in T
  <2>1. a \o <<>> = a /\ <<>> \in Seq(S)
    OBVIOUS
  <2>2. FlattenSeq(a) \o <<>> = FlattenSeq(a)
    BY <1>1
  <2>3. QED
    BY <1>1, <2>1, <2>2
<1>3. ASSUME NEW s \in Seq(S), NEW x \in S, s \in T
      PROVE  Append(s, x) \in T
  <2>1. a \o s \in Seq(S) /\ Append(s, x) \in Seq(S)
    OBVIOUS
  <2>2. a \o Append(s, x) = Append(a \o s, x)
    <3> HIDE DEF S
    <3>1. a \in Seq(S)
      BY DEF S
    <3>2. QED
      BY <3>1, AppendJoins
  <2>3. /\ FlattenSeq(Append(a \o s, x)) = FlattenSeq(a \o s) \o x
        /\ FlattenSeq(Append(s, x)) = FlattenSeq(s) \o x /\ FlattenSeq(s) \in S
    BY <2>1, FlattenGrows
  <2>4. (FlattenSeq(a) \o FlattenSeq(s)) \o x = FlattenSeq(a) \o (FlattenSeq(s) \o x)
    BY <1>1, <2>3, ConcatAssociative
  <2>5. QED
    BY <1>3, <2>1, <2>2, <2>3, <2>4
<1>4. Seq(S) \subseteq T
  <2> HIDE DEF T, S
  <2>1. QED
    BY <1>2, <1>3, SequenceInduction
<1>5. QED
  BY <1>4

\* A function of sequences that an element does not change, and that grows with the others.
Ignores(H, V, zero) ==
  /\ zero \in V /\ \A s \in Seq(V) : H[Append(s, zero)] = H[s]
  /\ \A s, t \in Seq(V) : \A v \in V : H[s] = H[t] => H[Append(s, v)] = H[Append(t, v)]
\* A choice of places, in order, with that element at all others.
Chosen(q, n, seq, N, V, zero) ==
  /\ n \in Nat /\ q \in [1 .. n -> 1 .. N] /\ seq \in [1 .. N -> V]
  /\ \A i, j \in 1 .. n : i < j => q[i] < q[j]
  /\ \A i \in 1 .. N : (\A j \in 1 .. n : q[j] # i) => seq[i] = zero

Picked(part, q, n, seq) == part = [j \in 1 .. n |-> seq[q[j]]]

\* Such a function tells no difference between a sequence and what was chosen of it.
LEMMA OnlyTheChosen ==
  ASSUME NEW H, NEW V, NEW zero, Ignores(H, V, zero),
         NEW N \in Nat, NEW n, NEW q, NEW seq, Chosen(q, n, seq, N, V, zero)
  PROVE  H[seq] = H[[j \in 1 .. n |-> seq[q[j]]]]
<1> DEFINE picked(p, m, f) == [j \in 1 .. m |-> f[p[j]]]
           T == {M \in Nat : \A m, p, f : Chosen(p, m, f, M, V, zero) => H[f] = H[picked(p, m, f)]}
<1>1. 0 \in T
  <2>1. ASSUME NEW m, NEW p, NEW f, Chosen(p, m, f, 0, V, zero)
        PROVE  f = picked(p, m, f)
    <3>1. m \in Nat /\ p \in [1 .. m -> 1 .. 0] /\ f \in [1 .. 0 -> V]
      BY <2>1 DEF Chosen
    <3>2. m = 0
      <4>1. ASSUME m # 0
            PROVE  FALSE
        <5>1. 1 \in 1 .. m
          BY <3>1, <4>1
        <5>2. p[1] \in 1 .. 0
          BY <3>1, <5>1
        <5>3. QED
          BY <5>2
      <4>2. QED
        BY <4>1
    <3>3. QED
      BY <3>1, <3>2
  <2>2. QED
    BY <2>1
<1>2. ASSUME NEW M \in Nat, M \in T
      PROVE  M + 1 \in T
  <2>1. SUFFICES ASSUME NEW m, NEW p, NEW f, Chosen(p, m, f, M + 1, V, zero)
                 PROVE  H[f] = H[picked(p, m, f)]
    OBVIOUS
  <2>2. m \in Nat /\ p \in [1 .. m -> 1 .. M + 1] /\ f \in [1 .. M + 1 -> V] /\ \A i, j \in 1 .. m : i < j => p[i] < p[j]
    BY <2>1 DEF Chosen
  <2>3. \A i \in 1 .. M + 1 : (\A j \in 1 .. m : p[j] # i) => f[i] = zero
    BY <2>1 DEF Chosen
  <2> DEFINE front == [i \in 1 .. M |-> f[i]]
  <2>4. front \in [1 .. M -> V] /\ front \in Seq(V) /\ Len(front) = M /\ f[M + 1] \in V
    BY <2>2
  <2>5. f = Append(front, f[M + 1])
    BY <2>2, <2>4
  <2>6. \A i \in 1 .. M : front[i] = f[i]
    OBVIOUS
  <2> HIDE DEF front
  <2>7. CASE m # 0 /\ p[m] = M + 1
    <3> DEFINE b == m - 1
               r == [j \in 1 .. b |-> p[j]]
    <3>1. b \in Nat /\ m = b + 1 /\ m \in 1 .. m /\ \A j \in 1 .. b : j \in 1 .. m /\ j < m
      BY <2>2, <2>7
    <3> HIDE DEF b
    <3>2. \A j \in 1 .. b : p[j] \in 1 .. M
      <4>1. ASSUME NEW j \in 1 .. b
            PROVE  p[j] \in 1 .. M
        <5>1. p[j] < p[m] /\ p[j] \in 1 .. M + 1
          BY <2>2, <3>1
        <5>2. QED
          BY <2>7, <5>1
      <4>2. QED
        BY <4>1
    <3>3. Chosen(r, b, front, M, V, zero)
      <4>1. r \in [1 .. b -> 1 .. M]
        BY <3>2
      <4>2. \A i, j \in 1 .. b : i < j => r[i] < r[j]
        BY <2>2, <3>1
      <4>3. ASSUME NEW i \in 1 .. M, \A j \in 1 .. b : r[j] # i
            PROVE  front[i] = zero
        <5>1. i \in 1 .. M + 1 /\ i # M + 1
          OBVIOUS
        <5>2. ASSUME NEW j \in 1 .. m
              PROVE  p[j] # i
          <6>1. CASE j = m
            BY <2>7, <5>1, <6>1
          <6>2. CASE j # m
            <7>1. j \in 1 .. b
              BY <3>1, <6>2
            <7>2. QED
              BY <4>3, <7>1
          <6>3. QED
            BY <6>1, <6>2
        <5>3. QED
          BY <2>3, <2>6, <5>1, <5>2
      <4> HIDE DEF r
      <4>4. QED
        BY <2>4, <3>1, <4>1, <4>2, <4>3 DEF Chosen
    <3>4. H[front] = H[picked(r, b, front)]
      <4> HIDE DEF r, picked
      <4>1. QED
        BY <1>2, <3>3
    <3>5. picked(r, b, front) \in Seq(V) /\ picked(p, m, f) = Append(picked(r, b, front), f[M + 1])
      <4>1. \A j \in 1 .. b : front[r[j]] = f[p[j]] /\ f[p[j]] \in V
        BY <2>2, <2>6, <3>2
      <4> DEFINE w == picked(r, b, front)
      <4>2. w \in Seq(V) /\ Len(w) = b /\ \A j \in 1 .. b : w[j] = f[p[j]]
        BY <3>1, <4>1
      <4> HIDE DEF w
      <4>3. Append(w, f[M + 1]) = [j \in 1 .. b + 1 |-> IF j = b + 1 THEN f[M + 1] ELSE w[j]]
        BY <2>4, <3>1, <4>2
      <4>4. \A j \in 1 .. b + 1 : f[p[j]] = IF j = b + 1 THEN f[M + 1] ELSE w[j]
        BY <2>7, <3>1, <4>2
      <4>5. QED
        BY <3>1, <4>2, <4>3, <4>4 DEF w
    <3> HIDE DEF picked, r
    <3>6. QED
      <4>1. f[M + 1] \in V /\ front \in Seq(V) /\ picked(r, b, front) \in Seq(V)
        BY <2>4, <3>5
      <4>2. H[Append(front, f[M + 1])] = H[Append(picked(r, b, front), f[M + 1])]
        BY <3>4, <4>1 DEF Ignores
      <4>3. QED
        BY <2>5, <3>5, <4>2
  <2>8. CASE ~ (m # 0 /\ p[m] = M + 1)
    <3>1. \A j \in 1 .. m : p[j] # M + 1 /\ p[j] \in 1 .. M
      <4>1. ASSUME NEW j \in 1 .. m
            PROVE  p[j] # M + 1
        <5>1. m \in 1 .. m /\ m # 0
          BY <2>2
        <5>2. p[m] \in 1 .. M + 1 /\ p[m] # M + 1 /\ p[j] \in 1 .. M + 1
          BY <2>2, <2>8, <5>1
        <5>3. j = m \/ p[j] < p[m]
          BY <2>2, <5>1
        <5>4. QED
          BY <5>2, <5>3
      <4>2. QED
        BY <2>2, <4>1
    <3>2. f[M + 1] = zero
      BY <2>3, <3>1
    <3>3. Chosen(p, m, front, M, V, zero)
      <4>1. p \in [1 .. m -> 1 .. M]
        BY <2>2, <3>1
      <4>2. \A i \in 1 .. M : (\A j \in 1 .. m : p[j] # i) => front[i] = zero
        BY <2>3, <2>6
      <4>3. QED
        BY <2>2, <2>4, <4>1, <4>2 DEF Chosen
    <3>4. H[front] = H[picked(p, m, front)]
      <4> HIDE DEF picked
      <4>1. QED
        BY <1>2, <3>3
    <3>5. picked(p, m, front) = picked(p, m, f)
      BY <2>6, <3>1
    <3> HIDE DEF picked
    <3>6. QED
      BY <2>4, <2>5, <3>2, <3>4, <3>5 DEF Ignores
  <2>9. QED
    BY <2>7, <2>8
<1>3. N \in T
  <2> HIDE DEF T
  <2>1. QED
    BY <1>1, <1>2, SetInduction
<1>4. QED
  BY <1>3

\* So a sum needs its summands only.
LEMMA TotalOfChosen ==
  ASSUME NEW N \in Nat, NEW n, NEW q, NEW seq, Chosen(q, n, seq, N, Nat, 0), NEW part, Picked(part, q, n, seq)
  PROVE  Total(seq) = Total(part)
<1> DEFINE H == [s \in Seq(Nat) |-> Total(s)]
<1>1. seq \in Seq(Nat) /\ part \in Seq(Nat)
  <2>1. n \in Nat /\ seq \in [1 .. N -> Nat] /\ q \in [1 .. n -> 1 .. N]
    BY DEF Chosen
  <2>2. QED
    BY <2>1 DEF Picked
<1>2. \A s \in Seq(Nat) : H[s] = Total(s)
  OBVIOUS
<1> HIDE DEF H
<1>3. Ignores(H, Nat, 0)
  <2>1. ASSUME NEW s \in Seq(Nat), NEW x \in Nat
        PROVE  H[Append(s, x)] = H[s] + x /\ H[s] \in Nat
    <3>1. Append(s, x) \in Seq(Nat)
      OBVIOUS
    <3>2. H[Append(s, x)] = Total(Append(s, x)) /\ H[s] = Total(s)
      BY <1>2, <3>1
    <3>3. QED
      BY <3>2, TotalGrows
  <2>2. \A s \in Seq(Nat) : H[Append(s, 0)] = H[s]
    BY <2>1
  <2>3. ASSUME NEW s \in Seq(Nat), NEW t \in Seq(Nat), NEW v \in Nat, H[s] = H[t]
        PROVE  H[Append(s, v)] = H[Append(t, v)]
    BY <2>1, <2>3
  <2>4. QED
    BY <2>2, <2>3 DEF Ignores
<1>4. H[seq] = H[part]
  BY <1>3, OnlyTheChosen DEF Picked
<1>5. Total(seq) = Total(part)
  BY <1>1, <1>2, <1>4
<1>6. QED
  BY <1>5

\* And a concatenation the pieces that are not empty.
LEMMA FlattenOfChosen ==
  ASSUME NEW X, NEW N \in Nat, NEW n, NEW q, NEW seq, Chosen(q, n, seq, N, Seq(X), <<>>),
         NEW part, Picked(part, q, n, seq)
  PROVE  FlattenSeq(seq) = FlattenSeq(part)
<1> DEFINE V == Seq(X)
           H == [s \in Seq(V) |-> FlattenSeq(s)]
<1>1. seq \in Seq(V) /\ part \in Seq(V)
  <2>1. n \in Nat /\ seq \in [1 .. N -> V] /\ q \in [1 .. n -> 1 .. N]
    BY DEF Chosen
  <2> HIDE DEF V
  <2>2. QED
    BY <2>1 DEF Picked
<1>2. \A s \in Seq(V) : H[s] = FlattenSeq(s)
  OBVIOUS
<1> HIDE DEF H
<1>3. Ignores(H, V, <<>>)
  <2>1. ASSUME NEW s \in Seq(V), NEW x \in V
        PROVE  H[Append(s, x)] = H[s] \o x /\ H[s] \in V
    <3>1. Append(s, x) \in Seq(V)
      OBVIOUS
    <3>2. QED
      BY <1>2, <3>1, FlattenGrows
  <2>2. <<>> \in V /\ \A w \in V : w \o <<>> = w
    OBVIOUS
  <2> HIDE DEF V
  <2>3. \A s \in Seq(V) : H[Append(s, <<>>)] = H[s]
    BY <2>1, <2>2
  <2>4. ASSUME NEW s \in Seq(V), NEW t \in Seq(V), NEW v \in V, H[s] = H[t]
        PROVE  H[Append(s, v)] = H[Append(t, v)]
    BY <2>1, <2>4
  <2>5. QED
    BY <2>2, <2>3, <2>4 DEF Ignores
<1>4. H[seq] = H[part]
  BY <1>3, OnlyTheChosen DEF Picked
<1> HIDE DEF V
<1>5. FlattenSeq(seq) = FlattenSeq(part)
  BY <1>1, <1>2, <1>4
<1>6. QED
  BY <1>5

-----------------------------------------------------------------------------
(* The size and the calls of a request, group by group *)

Chars(w) == Total([i \in DOMAIN w |-> MessageChars(w[i])])

\* The fields of the messages, message by message.
LEMMA FieldsOfMessages ==
  ASSUME NEW m \in Message
  PROVE  m.calls \in Seq(Call) /\ (m.role = "tool" => m.calls = <<>>)
<1>1. <<>> \in Seq(Call)
  OBVIOUS
<1>2. CASE m \in Fixed
  <2>1. m.calls = <<>>
    BY <1>2 DEF Fixed
  <2>2. QED
    BY <1>1, <2>1
<1>3. CASE m \in Answer
  <2>1. m.calls \in Seq(Call) /\ m.role = "assistant"
    BY <1>3 DEF Answer
  <2>2. QED
    BY <2>1
<1>4. CASE m \in Outcome
  <2>1. m.calls = <<>>
    BY <1>4 DEF Outcome
  <2>2. QED
    BY <1>1, <2>1
<1>5. QED
  BY <1>2, <1>3, <1>4 DEF Message

Each(f, s) == [i \in DOMAIN s |-> f[s[i]]]
Gives(S, V, f, s) == f \in [S -> V] /\ s \in Seq(S)

\* The values of a function for the elements of a sequence.
LEMMA EachIs ==
  ASSUME NEW S, NEW V, NEW f, NEW s, Gives(S, V, f, s)
  PROVE  Each(f, s) \in Seq(V) /\ Len(Each(f, s)) = Len(s) /\ \A i \in 1 .. Len(s) : Each(f, s)[i] = f[s[i]]
<1>1. DOMAIN s = 1 .. Len(s) /\ Len(s) \in Nat /\ \A i \in 1 .. Len(s) : f[s[i]] \in V
  BY DEF Gives
<1>2. QED
  BY <1>1 DEF Each

\* They are joined as the sequences are, and grow as they do.
LEMMA EachJoins ==
  ASSUME NEW S, NEW V, NEW f, NEW a, Gives(S, V, f, a)
  PROVE  /\ \A b : Gives(S, V, f, b) => Each(f, a \o b) = Each(f, a) \o Each(f, b)
         /\ \A x \in S : Each(f, Append(a, x)) = Append(Each(f, a), f[x])
<1>0. f \in [S -> V] /\ a \in Seq(S)
  BY DEF Gives
<1>1. ASSUME NEW b, Gives(S, V, f, b)
      PROVE  Each(f, a \o b) = Each(f, a) \o Each(f, b)
  <2> DEFINE l == Each(f, a \o b)
             c == Each(f, a)
             d == Each(f, b)
             r == c \o d
  <2>1. Len(a) \in Nat /\ Len(b) \in Nat /\ a \o b \in Seq(S) /\ Len(a \o b) = Len(a) + Len(b)
        /\ b \in Seq(S) /\ Gives(S, V, f, a \o b)
    BY <1>0, <1>1 DEF Gives
  <2>2. /\ c \in Seq(V) /\ Len(c) = Len(a) /\ \A i \in 1 .. Len(a) : c[i] = f[a[i]]
        /\ d \in Seq(V) /\ Len(d) = Len(b) /\ \A i \in 1 .. Len(b) : d[i] = f[b[i]]
    BY <1>1, EachIs
  <2>3. l \in Seq(V) /\ Len(l) = Len(a) + Len(b) /\ \A i \in 1 .. Len(a) + Len(b) : l[i] = f[(a \o b)[i]]
    <3> DEFINE w == a \o b
    <3>1. Gives(S, V, f, w) /\ Len(w) = Len(a) + Len(b)
      BY <2>1
    <3> HIDE DEF w
    <3>2. Each(f, w) \in Seq(V) /\ Len(Each(f, w)) = Len(w) /\ \A i \in 1 .. Len(w) : Each(f, w)[i] = f[w[i]]
      BY <3>1, EachIs
    <3>3. /\ Each(f, w) \in Seq(V) /\ Len(Each(f, w)) = Len(a) + Len(b)
          /\ \A i \in 1 .. Len(a) + Len(b) : Each(f, w)[i] = f[w[i]]
      BY <3>1, <3>2
    <3>4. QED
      BY <3>3 DEF w
  <2> HIDE DEF l, c, d
  <2>4. r \in Seq(V) /\ Len(r) = Len(a) + Len(b)
    <3>1. c \in Seq(V) /\ d \in Seq(V) /\ Len(c) = Len(a) /\ Len(d) = Len(b)
      BY <2>2
    <3>2. QED
      BY ONLY <3>1
  <2>5. ASSUME NEW i \in 1 .. Len(a) + Len(b)
        PROVE  l[i] = r[i]
    <3>1. CASE i <= Len(a)
      <4>1. i \in 1 .. Len(a) /\ (a \o b)[i] = a[i]
        BY <1>0, <2>1, <3>1
      <4>2. r[i] = c[i]
        BY <2>2, <4>1
      <4>3. QED
        BY <2>2, <2>3, <4>1, <4>2
    <3>2. CASE ~ (i <= Len(a))
      <4>1. i - Len(a) \in 1 .. Len(b) /\ (a \o b)[i] = b[i - Len(a)]
        BY <1>0, <2>1, <3>2
      <4>2. r[i] = d[i - Len(a)]
        BY <2>1, <2>2, <3>2, <4>1
      <4>3. QED
        BY <2>2, <2>3, <4>1, <4>2
    <3>3. QED
      BY <3>1, <3>2
  <2> HIDE DEF r
  <2>6. l = r
    BY <2>3, <2>4, <2>5, SeqEqual
  <2>7. QED
    BY <2>6 DEF l, r, c, d
<1>2. ASSUME NEW x \in S
      PROVE  Each(f, Append(a, x)) = Append(Each(f, a), f[x])
  <2> DEFINE l == Each(f, Append(a, x))
             c == Each(f, a)
             r == Append(c, f[x])
  <2>1. Append(a, x) \in Seq(S) /\ Len(Append(a, x)) = Len(a) + 1 /\ Len(a) \in Nat /\ f[x] \in V
        /\ Gives(S, V, f, Append(a, x))
    BY <1>0 DEF Gives
  <2>2. c \in Seq(V) /\ Len(c) = Len(a) /\ \A i \in 1 .. Len(a) : c[i] = f[a[i]]
    BY EachIs
  <2>3. l \in Seq(V) /\ Len(l) = Len(a) + 1 /\ \A i \in 1 .. Len(a) + 1 : l[i] = f[Append(a, x)[i]]
    <3> DEFINE w == Append(a, x)
    <3>1. Gives(S, V, f, w) /\ Len(w) = Len(a) + 1
      BY <2>1
    <3> HIDE DEF w
    <3>2. Each(f, w) \in Seq(V) /\ Len(Each(f, w)) = Len(w) /\ \A i \in 1 .. Len(w) : Each(f, w)[i] = f[w[i]]
      BY <3>1, EachIs
    <3>3. /\ Each(f, w) \in Seq(V) /\ Len(Each(f, w)) = Len(a) + 1
          /\ \A i \in 1 .. Len(a) + 1 : Each(f, w)[i] = f[w[i]]
      BY <3>1, <3>2
    <3>4. QED
      BY <3>3 DEF w
  <2> HIDE DEF l, c
  <2>4. r \in Seq(V) /\ Len(r) = Len(a) + 1
    BY <2>1, <2>2
  <2>5. ASSUME NEW i \in 1 .. Len(a) + 1
        PROVE  l[i] = r[i]
    <3>1. CASE i = Len(a) + 1
      <4>1. Append(a, x)[i] = x
        BY <1>0, <2>1, <3>1
      <4>2. r[i] = f[x]
        BY <2>1, <2>2, <3>1
      <4>3. QED
        BY <2>3, <4>1, <4>2
    <3>2. CASE i # Len(a) + 1
      <4>1. i \in 1 .. Len(a) /\ Append(a, x)[i] = a[i]
        BY <1>0, <2>1, <3>2
      <4>2. r[i] = c[i]
        BY <2>1, <2>2, <4>1
      <4>3. QED
        BY <2>2, <2>3, <4>1, <4>2
    <3>3. QED
      BY <3>1, <3>2
  <2> HIDE DEF r
  <2>6. l = r
    BY <2>3, <2>4, <2>5, SeqEqual
  <2>7. QED
    BY <2>6 DEF l, r, c
<1>3. QED
  BY <1>1, <1>2

\* Messages behind a request make it larger by their own size, and add their calls.
LEMMA RequestsJoin ==
  ASSUME NEW a \in Seq(Message), NEW b \in Seq(Message)
  PROVE  /\ InputChars(a \o b) = InputChars(a) + Chars(b) /\ Chars(b) \in Nat
         /\ CallsOf(a \o b) = CallsOf(a) \o CallsOf(b) /\ CallsOf(b) \in Seq(Call)
<1> DEFINE f == [m \in Message |-> MessageChars(m)]
           g == [m \in Message |-> m.calls]
           chars(s) == [i \in DOMAIN s |-> MessageChars(s[i])]
           calls(s) == [i \in DOMAIN s |-> s[i].calls]
           fs(s) == Each(f, s)
           gs(s) == Each(g, s)
<1>1. f \in [Message -> Nat] /\ g \in [Message -> Seq(Call)]
  BY CharsOfMessage, FieldsOfMessages
<1>2. ASSUME NEW s \in Seq(Message)
      PROVE  chars(s) = fs(s) /\ calls(s) = gs(s)
  <2>1. \A i \in DOMAIN s : s[i] \in Message
    OBVIOUS
  <2> HIDE DEF Message
  <2>2. QED
    BY <2>1 DEF Each
<1> HIDE DEF f, g
<1>3. a \o b \in Seq(Message)
  <2> HIDE DEF Message
  <2>1. QED
    OBVIOUS
<1>a. Gives(Message, Nat, f, a) /\ Gives(Message, Nat, f, b)
  BY <1>1 DEF Gives
<1>b. Gives(Message, Seq(Call), g, a) /\ Gives(Message, Seq(Call), g, b)
  BY <1>1 DEF Gives
<1> HIDE DEF Message
<1>4. fs(a \o b) = fs(a) \o fs(b) /\ fs(a) \in Seq(Nat) /\ fs(b) \in Seq(Nat)
  BY <1>a, EachIs, EachJoins
<1>5. gs(a \o b) = gs(a) \o gs(b) /\ gs(a) \in Seq(Seq(Call)) /\ gs(b) \in Seq(Seq(Call))
  BY <1>b, EachIs, EachJoins
<1>6. /\ chars(a \o b) = chars(a) \o chars(b) /\ chars(a) \in Seq(Nat) /\ chars(b) \in Seq(Nat)
      /\ calls(a \o b) = calls(a) \o calls(b) /\ calls(a) \in Seq(Seq(Call)) /\ calls(b) \in Seq(Seq(Call))
  <2> HIDE DEF fs, gs, chars, calls
  <2>1. QED
    BY <1>2, <1>3, <1>4, <1>5
<1>7. /\ \A s : InputChars(s) = FixedChars + Total(chars(s)) /\ Chars(s) = Total(chars(s))
      /\ \A s : CallsOf(s) = FlattenSeq(calls(s))
  BY DEF InputChars, Chars, CallsOf
<1> HIDE DEF chars, calls
<1>8. Total(chars(a \o b)) = Total(chars(a)) + Total(chars(b)) /\ Total(chars(a)) \in Nat /\ Total(chars(b)) \in Nat
  BY <1>6, TotalJoins, TotalGrows
<1>9. FlattenSeq(calls(a \o b)) = FlattenSeq(calls(a)) \o FlattenSeq(calls(b)) /\ FlattenSeq(calls(b)) \in Seq(Call)
  <2> HIDE DEF Call
  <2>1. FlattenSeq(calls(a) \o calls(b)) = FlattenSeq(calls(a)) \o FlattenSeq(calls(b))
    BY <1>6, FlattenJoins
  <2>2. FlattenSeq(calls(b)) \in Seq(Call)
    BY <1>6, FlattenGrows
  <2>3. QED
    BY <1>6, <2>1, <2>2
<1>10. InputChars(a \o b) = InputChars(a) + Chars(b) /\ Chars(b) \in Nat
  BY <1>7, <1>8, ContextLimits
<1>11. CallsOf(a \o b) = CallsOf(a) \o CallsOf(b) /\ CallsOf(b) \in Seq(Call)
  BY <1>7, <1>9
<1>12. QED
  BY <1>10, <1>11

\* The fixed messages have no size of their own here, and no calls.
LEMMA FixedHaveNothing ==
  InputChars(FixedMessages) = FixedChars /\ CallsOf(FixedMessages) = <<>>
<1>1. /\ FixedMessages \in Seq(Message) /\ Len(FixedMessages) = 3
      /\ \A i \in 1 .. 3 : FixedMessages[i].calls = <<>> /\ FixedMessages[i] \in Fixed
  BY FixedAreMessages
<1>2. DOMAIN FixedMessages = 1 .. 3
  <2> HIDE DEF Message
  <2>1. QED
    BY <1>1
<1>3. ASSUME NEW i \in 1 .. 3
      PROVE  MessageChars(FixedMessages[i]) = 0
  <2> DEFINE m == FixedMessages[i]
  <2>1. m.text = 0 /\ m.calls = <<>> /\ m.result = Nothing
    BY <1>1 DEF Fixed
  <2> HIDE DEF m
  <2>2. [j \in DOMAIN m.calls |-> m.calls[j].size] = <<>>
    BY <2>1
  <2>3. MessageChars(m) = 0
    BY <2>1, <2>2, TotalGrows DEF MessageChars
  <2>4. QED
    BY <2>3 DEF m
<1> DEFINE chars == [i \in DOMAIN FixedMessages |-> MessageChars(FixedMessages[i])]
           calls == [i \in DOMAIN FixedMessages |-> FixedMessages[i].calls]
           q == <<>>
<1>4. chars = [i \in 1 .. 3 |-> 0] /\ calls = [i \in 1 .. 3 |-> <<>>]
  BY <1>1, <1>2, <1>3
<1> HIDE DEF chars, calls
<1> DEFINE none == <<>>
           n == 0
           N == 3
<1>b. n = 0 /\ N = 3 /\ N \in Nat
  OBVIOUS
<1>c. Picked(none, q, n, chars) /\ Picked(none, q, n, calls)
  BY DEF Picked
<1>5. Total(chars) = 0
  <2>1. Chosen(q, n, chars, N, Nat, 0)
    BY <1>4 DEF Chosen
  <2>2. Total(none) = 0
    BY TotalGrows
  <2> HIDE DEF q, n, N, none
  <2>3. Total(chars) = Total(none)
    BY <1>b, <1>c, <2>1, TotalOfChosen
  <2>4. QED
    BY <2>2, <2>3
<1>6. FlattenSeq(calls) = <<>>
  <2>1. Chosen(q, n, calls, N, Seq(Call), <<>>)
    <3>1. <<>> \in Seq(Call)
      OBVIOUS
    <3>2. calls \in [1 .. N -> Seq(Call)] /\ \A i \in 1 .. N : calls[i] = <<>>
      BY <1>4, <3>1
    <3>3. q \in [1 .. n -> 1 .. N] /\ n \in Nat /\ \A i, j \in 1 .. n : i < j => q[i] < q[j]
      OBVIOUS
    <3> HIDE DEF q, n, N, Call
    <3>4. QED
      BY <3>1, <3>2, <3>3 DEF Chosen
  <2>2. FlattenSeq(none) = <<>>
    BY FlattenGrows
  <2> HIDE DEF q, n, N, none, Call
  <2>3. FlattenSeq(calls) = FlattenSeq(none)
    BY <1>b, <1>c, <2>1, FlattenOfChosen
  <2>4. QED
    BY <2>2, <2>3
<1>7. QED
  BY <1>5, <1>6, ContextLimits DEF InputChars, CallsOf, chars, calls

-----------------------------------------------------------------------------
(* Groups, requests and the Events they are made of *)

CharsAsFunction == [w \in Seq(Message) |-> Chars(w)]
CallsAsFunction == [w \in Seq(Message) |-> CallsOf(w)]

\* The size of the messages of a group and their calls are values of functions.
LEMMA AsFunctions ==
  /\ CharsAsFunction \in [Seq(Message) -> Nat] /\ \A w \in Seq(Message) : CharsAsFunction[w] = Chars(w)
  /\ CallsAsFunction \in [Seq(Message) -> Seq(Call)] /\ \A w \in Seq(Message) : CallsAsFunction[w] = CallsOf(w)
<1>1. \A w \in Seq(Message) : Chars(w) \in Nat /\ CallsOf(w) \in Seq(Call)
  BY FixedAreMessages, RequestsJoin
<1> HIDE DEF Message, Call
<1>2. QED
  BY <1>1 DEF CharsAsFunction, CallsAsFunction

\* A request has the size of its groups and their calls.
LEMMA RequestOfPieces ==
  ASSUME NEW t \in Seq(Seq(Message))
  PROVE  /\ InputChars(FixedMessages \o FlattenSeq(t)) = FixedChars + Total(Each(CharsAsFunction, t))
         /\ CallsOf(FixedMessages \o FlattenSeq(t)) = FlattenSeq(Each(CallsAsFunction, t))
<1> DEFINE S == Seq(Message)
           F == CharsAsFunction
           C == CallsAsFunction
           ms(s) == FixedMessages \o FlattenSeq(s)
           T == {s \in Seq(S) : /\ InputChars(ms(s)) = FixedChars + Total(Each(F, s))
                                /\ CallsOf(ms(s)) = FlattenSeq(Each(C, s))}
<1>1. FixedMessages \in S /\ F \in [S -> Nat] /\ C \in [S -> Seq(Call)]
  BY FixedAreMessages, AsFunctions
<1>2. <<>> \in T
  <2>1. ms(<<>>) = FixedMessages
    <3>1. FixedMessages \o <<>> = FixedMessages
      <4> HIDE DEF Message
      <4>1. QED
        BY <1>1
    <3>2. QED
      BY <3>1, FlattenGrows
  <2>2. Each(F, <<>>) = <<>> /\ Each(C, <<>>) = <<>> /\ <<>> \in Seq(S)
    BY DEF Each
  <2>3. InputChars(FixedMessages) = FixedChars + Total(<<>>) /\ CallsOf(FixedMessages) = FlattenSeq(<<>>)
    BY FixedHaveNothing, TotalGrows, FlattenGrows, ContextLimits
  <2>4. QED
    BY <2>1, <2>2, <2>3
<1>3. ASSUME NEW s \in Seq(S), NEW w \in S, s \in T
      PROVE  Append(s, w) \in T
  <2> DEFINE u == Append(s, w)
  <2>1. u \in Seq(S)
    <3> HIDE DEF S
    <3>1. QED
      OBVIOUS
  <2>2. FlattenSeq(u) = FlattenSeq(s) \o w /\ FlattenSeq(s) \in S
    BY FlattenGrows
  <2>3. ms(u) = ms(s) \o w /\ ms(s) \in S
    <3> DEFINE f == FlattenSeq(s)
    <3>1. FixedMessages \in Seq(Message) /\ f \in Seq(Message) /\ w \in Seq(Message) /\ FlattenSeq(u) = f \o w
      BY <1>1, <2>2
    <3> HIDE DEF f, u, Message
    <3>2. FixedMessages \o f \in Seq(Message)
      BY <3>1
    <3>3. (FixedMessages \o f) \o w = FixedMessages \o (f \o w)
      BY <3>1, ConcatAssociative
    <3>4. QED
      BY <3>1, <3>2, <3>3 DEF f
  <2>4. /\ InputChars(ms(u)) = InputChars(ms(s)) + Chars(w) /\ Chars(w) \in Nat
        /\ CallsOf(ms(u)) = CallsOf(ms(s)) \o CallsOf(w)
    BY <2>3, RequestsJoin
  <2>5. Gives(S, Nat, F, s) /\ Gives(S, Seq(Call), C, s)
    BY <1>1 DEF Gives
  <2>6. F[w] = Chars(w) /\ C[w] = CallsOf(w) /\ CallsOf(w) \in Seq(Call)
    BY <1>1, AsFunctions
  <2> HIDE DEF S
  <2>7. Each(F, u) = Append(Each(F, s), Chars(w)) /\ Each(F, s) \in Seq(Nat)
    <3>1. Each(F, Append(s, w)) = Append(Each(F, s), F[w])
      BY <2>5, EachJoins
    <3>2. Each(F, s) \in Seq(Nat)
      BY <2>5, EachIs
    <3>3. QED
      BY <2>6, <3>1, <3>2
  <2>8. Each(C, u) = Append(Each(C, s), CallsOf(w)) /\ Each(C, s) \in Seq(Seq(Call))
    <3>1. Each(C, Append(s, w)) = Append(Each(C, s), C[w])
      BY <2>5, EachJoins
    <3>2. Each(C, s) \in Seq(Seq(Call))
      BY <2>5, EachIs
    <3>3. QED
      BY <2>6, <3>1, <3>2
  <2> HIDE DEF F, C, u
  <2>9. Total(Each(F, u)) = Total(Each(F, s)) + Chars(w) /\ Total(Each(F, s)) \in Nat
    BY <2>4, <2>7, TotalGrows
  <2>10. FlattenSeq(Each(C, u)) = FlattenSeq(Each(C, s)) \o CallsOf(w)
    BY <2>6, <2>8, FlattenGrows
  <2>11. InputChars(ms(s)) = FixedChars + Total(Each(F, s)) /\ CallsOf(ms(s)) = FlattenSeq(Each(C, s))
    BY <1>3
  <2> HIDE DEF ms
  <2>12. InputChars(ms(u)) = FixedChars + Total(Each(F, u))
    BY <2>4, <2>9, <2>11, ContextLimits
  <2>13. CallsOf(ms(u)) = FlattenSeq(Each(C, u))
    BY <2>4, <2>10, <2>11
  <2>14. QED
    BY <2>1, <2>12, <2>13 DEF u
<1>4. Seq(S) \subseteq T
  <2> HIDE DEF T, S
  <2>1. QED
    BY <1>2, <1>3, SequenceInduction
<1>5. QED
  BY <1>4

\* The groups of a Run in which no call is open, and the model Event of each.
Closed == HistoryInv(events) /\ History(events).current = NoGroup
GroupsNow == History(events).groups
HeadOf(k) == GroupsNow[k].sequences[1]

\* Each model Event is the first of one group, in their order.
LEMMA HeadsOfGroups ==
  ASSUME Closed
  PROVE  /\ events \in Seq(RunEvent) /\ Len(events) \in Nat /\ DOMAIN events = 1 .. Len(events)
         /\ GroupsNow \in Seq(Group) /\ Len(GroupsNow) \in Nat
         /\ \A k \in 1 .. Len(GroupsNow) :
              Whole(events, GroupsNow[k]) /\ HeadOf(k) \in 1 .. Len(events) /\ events[HeadOf(k)] \in ModelEvent
         /\ \A k, l \in 1 .. Len(GroupsNow) : k < l => HeadOf(k) < HeadOf(l)
         /\ Interactions = {HeadOf(k) : k \in 1 .. Len(GroupsNow)}
         /\ Covers(events, GroupsNow) /\ Numbered(events)
<1> DEFINE h == History(events)
<1>1. /\ events \in Seq(RunEvent) /\ h \in Groups /\ \A k \in 1 .. Len(h.groups) : Whole(events, h.groups[k])
      /\ InOrder(AllGroups(h)) /\ Covers(events, AllGroups(h)) /\ Numbered(events) /\ AllGroups(h) = h.groups
  BY DEF Closed, HistoryInv, AllGroups
<1>2. h.groups = GroupsNow /\ GroupsNow \in Seq(Group)
  BY <1>1 DEF GroupsNow, Groups
<1> HIDE DEF h
<1>3. Len(events) \in Nat /\ DOMAIN events = 1 .. Len(events) /\ \A i \in 1 .. Len(events) : events[i] \in RunEvent
  <2> HIDE DEF RunEvent
  <2>1. QED
    BY <1>1
<1>4. Len(GroupsNow) \in Nat
  <2> HIDE DEF Group
  <2>1. QED
    BY <1>2
<1>5. ASSUME NEW k \in 1 .. Len(GroupsNow)
      PROVE  Whole(events, GroupsNow[k]) /\ HeadOf(k) \in 1 .. Len(events) /\ events[HeadOf(k)] \in ModelEvent
  <2>1. Whole(events, GroupsNow[k])
    BY <1>1, <1>2
  <2>2. QED
    BY <2>1, BlockHead DEF Whole, HeadOf
<1>6. \A k, l \in 1 .. Len(GroupsNow) : k < l => HeadOf(k) < HeadOf(l)
  BY <1>1, <1>2 DEF InOrder, HeadOf
<1>7. Interactions = {HeadOf(k) : k \in 1 .. Len(GroupsNow)}
  <2>1. ASSUME NEW i \in 1 .. Len(events), events[i].type = "model"
        PROVE  \E k \in 1 .. Len(GroupsNow) : HeadOf(k) = i
    <3>1. events[i] \in ModelEvent
      BY <1>3, <2>1, EventKinds DEF RunEvent
    <3>2. QED
      BY <1>1, <1>2, <3>1 DEF Covers, HeadOf
  <2>2. ASSUME NEW k \in 1 .. Len(GroupsNow)
        PROVE  HeadOf(k) \in Interactions
    BY <1>3, <1>5, EventKinds DEF Interactions
  <2>3. QED
    BY <1>3, <2>1, <2>2 DEF Interactions
<1>8. QED
  BY <1>1, <1>2, <1>3, <1>4, <1>5, <1>6, <1>7

\* The Events of a group are the model Event and the results of its calls.
LEMMA EventsOfGroup ==
  ASSUME Closed, NEW k \in 1 .. Len(GroupsNow)
  PROVE  GroupOf(HeadOf(k)) = ToSet(GroupsNow[k].sequences)
<1> DEFINE g == GroupsNow[k]
           s == HeadOf(k)
           q == g.sequences
           calls == events[s].calls
<1>1. Whole(events, g) /\ s \in 1 .. Len(events) /\ events[s] \in ModelEvent /\ s = q[1]
  BY HeadsOfGroups DEF HeadOf
<1>2. /\ Len(q) \in Nat /\ Len(q) >= 1 /\ Len(g.messages) = Len(q) /\ calls \in Seq(Call) /\ Len(calls) \in Nat
      /\ Len(q) = Len(calls) + 1
  BY <1>1, BlockHead DEF Whole
<1>3. q \in Seq(Nat) /\ DOMAIN q = 1 .. Len(q) /\ ToSet(q) = {q[j] : j \in 1 .. Len(q)}
  <2>1. q \in Seq(Nat)
    BY <1>1 DEF Whole, Block, Group
  <2>2. QED
    BY <2>1 DEF ToSet
<1>4. DOMAIN calls = 1 .. Len(calls)
  <2> HIDE DEF Call
  <2>1. QED
    BY <1>2
<1>a. DOMAIN events = 1 .. Len(events)
  BY HeadsOfGroups
<1> HIDE DEF q, calls, s
<1>5. ASSUME NEW j \in 1 .. Len(q)
      PROVE  q[j] \in GroupOf(s)
  <2>1. CASE j = 1
    BY <1>1, <2>1 DEF GroupOf
  <2>2. CASE j # 1
    <3>1. j \in 2 .. Len(q) /\ j - 1 \in 1 .. Len(calls)
      BY <1>2, <2>2
    <3>2. events[q[j]] \in ToolEvent /\ events[q[j]].id = calls[j - 1].id /\ q[j] \in 1 .. Len(events)
      BY <1>1, <3>1, Zenon DEF Whole, Block, q, calls, s, HeadOf
    <3>3. calls[j - 1] \in ToSet(calls)
      BY <1>4, <3>1 DEF ToSet
    <3>4. events[q[j]].type = "tool"
      BY <3>2, EventKinds
    <3>5. QED
      BY <1>a, <3>2, <3>3, <3>4 DEF GroupOf, calls
  <2>3. QED
    BY <2>1, <2>2
<1>6. ASSUME NEW i \in 1 .. Len(events), events[i].type = "tool", NEW c \in ToSet(calls), c.id = events[i].id
      PROVE  i \in ToSet(q)
  <2>1. PICK a \in 1 .. Len(calls) : c = calls[a]
    BY <1>4 DEF ToSet
  <2>2. events[i] \in ToolEvent
    <3>1. events[i] \in RunEvent
      <4> HIDE DEF RunEvent
      <4>1. QED
        BY HeadsOfGroups
    <3>2. QED
      BY <1>6, <3>1, EventKinds DEF RunEvent
  <2>3. PICK l \in 1 .. Len(GroupsNow) : \E j \in 2 .. Len(GroupsNow[l].sequences) : GroupsNow[l].sequences[j] = i
    BY <2>2, HeadsOfGroups DEF Covers
  <2>4. PICK j \in 2 .. Len(GroupsNow[l].sequences) : GroupsNow[l].sequences[j] = i
    BY <2>3
  <2> DEFINE r == GroupsNow[l].sequences
             other == events[HeadOf(l)].calls
  <2>5. /\ Len(r) \in Nat /\ other \in Seq(Call) /\ Len(other) \in Nat /\ Len(r) = Len(other) + 1
        /\ events[HeadOf(l)] \in ModelEvent /\ HeadOf(l) \in 1 .. Len(events)
    BY HeadsOfGroups, BlockHead DEF Whole, HeadOf
  <2>6. events[r[j]].id = other[j - 1].id
    BY HeadsOfGroups, Zenon DEF Whole, Block, HeadOf
  <2>7. j - 1 \in 1 .. Len(other)
    BY <2>5
  <2>8. calls[a].id = other[j - 1].id
    BY <1>6, <2>1, <2>4, <2>6
  <2>9. k = l
    <3>1. /\ k < l => s < HeadOf(l)
          /\ l < k => HeadOf(l) < s
      BY HeadsOfGroups DEF s
    <3>2. /\ \A b \in 1 .. Len(calls) : calls[b].id \in 1 .. Len(CallsIn(events))
          /\ \A b \in 1 .. Len(other) : other[b].id \in 1 .. Len(CallsIn(events))
      BY <1>1, <2>5, HeadsOfGroups DEF Numbered, calls
    <3>3. s < HeadOf(l) => calls[a].id < other[j - 1].id
      BY <1>1, <2>5, <2>7, HeadsOfGroups DEF Numbered, calls
    <3>4. HeadOf(l) < s => other[j - 1].id < calls[a].id
      BY <1>1, <2>5, <2>7, HeadsOfGroups DEF Numbered, calls
    <3>5. calls[a].id \in Int
      BY <3>2
    <3>6. ~ (k < l) /\ ~ (l < k)
      BY <2>8, <3>1, <3>3, <3>4, <3>5
    <3>7. QED
      BY <3>6, HeadsOfGroups
  <2>10. j \in 1 .. Len(q) /\ q[j] = i
    BY <1>2, <2>4, <2>9 DEF q
  <2>11. QED
    BY <1>3, <2>10
<1>7. GroupOf(s) = {s} \cup {i \in 1 .. Len(events) : events[i].type = "tool" /\ \E c \in ToSet(calls) : c.id = events[i].id}
  BY <1>a DEF GroupOf, calls
<1>8. GroupOf(s) = ToSet(q)
  <2>1. s \in ToSet(q)
    BY <1>1, <1>2, <1>3
  <2>2. ToSet(q) \subseteq GroupOf(s)
    BY <1>3, <1>5
  <2>3. GroupOf(s) \subseteq ToSet(q)
    BY <1>6, <1>7, <2>1
  <2>4. QED
    BY <2>2, <2>3
<1>9. QED
  BY <1>8 DEF s, q

-----------------------------------------------------------------------------
(* A group has the size and the calls that the Events tell *)

\* The size of a message that is made of an Event.
LEMMA CharsOfEvent ==
  /\ \A e \in ModelEvent : /\ MessageChars(AssistantMessage(e)) = e.text + Total([i \in DOMAIN e.calls |-> e.calls[i].size])
                           /\ MessageChars(AssistantMessage(e)) \in Nat
  /\ \A e \in ToolEvent : MessageChars(ToolMessage(e)) = Content(e.size) /\ Content(e.size) \in Nat
<1>1. ASSUME NEW e \in ModelEvent
      PROVE  /\ MessageChars(AssistantMessage(e)) = e.text + Total([i \in DOMAIN e.calls |-> e.calls[i].size])
             /\ MessageChars(AssistantMessage(e)) \in Nat
  <2> DEFINE m == AssistantMessage(e)
             sum == Total([i \in DOMAIN e.calls |-> e.calls[i].size])
  <2>1. m.text = e.text /\ m.calls = e.calls /\ m.result = Nothing
    BY DEF AssistantMessage
  <2>2. m \in Message
    BY MessagesOfEvents DEF Message
  <2> HIDE DEF m
  <2>3. sum \in Nat
    <3> DEFINE sizes == [i \in DOMAIN e.calls |-> e.calls[i].size]
    <3>1. e.calls \in Seq(Call) /\ \A c \in Call : c.size \in Nat
      BY EventKinds, ContextLimits DEF Call
    <3>2. sizes \in Seq(Nat)
      <4> HIDE DEF Call
      <4>1. QED
        BY <3>1
    <3> HIDE DEF sizes
    <3>3. Total(sizes) \in Nat
      BY <3>2, TotalGrows
    <3>4. QED
      BY <3>3 DEF sizes
  <2>4. MessageChars(m) = e.text + sum + 0
    BY <2>1 DEF MessageChars
  <2>5. e.text \in Nat
    BY EventKinds, ContextLimits
  <2> HIDE DEF sum
  <2>6. MessageChars(m) = e.text + sum /\ MessageChars(m) \in Nat
    BY <2>3, <2>4, <2>5
  <2>7. QED
    BY <2>6 DEF m, sum
<1>2. ASSUME NEW e \in ToolEvent
      PROVE  MessageChars(ToolMessage(e)) = Content(e.size) /\ Content(e.size) \in Nat
  <2> DEFINE m == ToolMessage(e)
  <2>1. Content(e.size) \in Nat /\ e.id \in Nat
    BY EventKinds, MessagesOfEvents
  <2>2. m.text = 0 /\ m.calls = <<>> /\ m.result = [id |-> e.id, size |-> Content(e.size)]
    BY DEF ToolMessage
  <2>3. m.result \in [id : Nat, size : Nat] /\ m.result.size = Content(e.size)
    BY <2>1, <2>2
  <2>4. m.result # Nothing
    BY <2>3, ContextAssumption
  <2> HIDE DEF m
  <2>5. [i \in DOMAIN m.calls |-> m.calls[i].size] = <<>>
    BY <2>2
  <2>6. MessageChars(m) = 0 + 0 + Content(e.size)
    BY <2>2, <2>3, <2>4, <2>5, TotalGrows DEF MessageChars
  <2>7. QED
    BY <2>1, <2>6 DEF m
<1>3. QED
  BY <1>1, <1>2

\* The calls of a group are those of its model Event.
LEMMA CallsOfGroup ==
  ASSUME NEW w \in WholeMessages
  PROVE  CallsOf(w) = w[1].calls
<1> DEFINE calls == w[1].calls
           cs == [i \in DOMAIN w |-> w[i].calls]
           N == Len(w)
           n == 1
           q == [j \in 1 .. 1 |-> 1]
           part == Append(<<>>, calls)
<1>1. /\ w \in Seq(Message) /\ N >= 1 /\ calls \in Seq(Call)
      /\ \A j \in 2 .. N : w[j].role = "tool"
  BY DEF WholeMessages
<1>2. N \in Nat /\ DOMAIN w = 1 .. N /\ \A i \in 1 .. N : w[i] \in Message
  <2> HIDE DEF Message, Call
  <2>1. QED
    BY <1>1
<1>3. \A i \in 1 .. N : w[i].calls \in Seq(Call) /\ (i # 1 => w[i].calls = <<>>)
  <2>1. \A i \in 1 .. N : i # 1 => i \in 2 .. N
    BY <1>2
  <2>2. QED
    BY <1>1, <1>2, <2>1, FieldsOfMessages
<1>4. cs \in [1 .. N -> Seq(Call)] /\ cs[1] = calls /\ \A i \in 1 .. N : i # 1 => cs[i] = <<>>
  BY <1>1, <1>2, <1>3
<1>5. CallsOf(w) = FlattenSeq(cs)
  BY DEF CallsOf
<1>6. n \in Nat /\ q \in [1 .. n -> 1 .. N] /\ q[1] = 1 /\ \A i, j \in 1 .. n : i < j => q[i] < q[j]
  BY <1>1, <1>2
<1>7. part = [j \in 1 .. n |-> cs[q[j]]]
  BY <1>1, <1>4, <1>6
<1>8. <<>> \in Seq(Call) /\ <<>> \in Seq(Seq(Call))
  OBVIOUS
<1>9. FlattenSeq(part) = calls
  <2> DEFINE none == <<>>
  <2>1. FlattenSeq(none) = <<>> /\ none \in Seq(Seq(Call))
    BY <1>8, FlattenGrows
  <2> HIDE DEF none, calls, Call
  <2>2. FlattenSeq(Append(none, calls)) = FlattenSeq(none) \o calls
    BY <1>1, <2>1, FlattenGrows
  <2>3. <<>> \o calls = calls
    BY <1>1
  <2>4. QED
    BY <2>1, <2>2, <2>3 DEF none
<1>a. 1 \in 1 .. n
  OBVIOUS
<1> HIDE DEF cs, calls, n, q, part, N, Call
<1>10. Chosen(q, n, cs, N, Seq(Call), <<>>) /\ Picked(part, q, n, cs)
  <2>1. ASSUME NEW i \in 1 .. N, \A j \in 1 .. n : q[j] # i
        PROVE  cs[i] = <<>>
    BY <1>4, <1>6, <1>a, <2>1
  <2>2. QED
    BY <1>4, <1>6, <1>7, <2>1 DEF Chosen, Picked
<1>11. FlattenSeq(cs) = FlattenSeq(part)
  BY <1>2, <1>10, FlattenOfChosen
<1>12. QED
  BY <1>5, <1>9, <1>11 DEF calls

\* And its size is that of its Events.
LEMMA CharsOfGroup ==
  ASSUME Closed, NEW k \in 1 .. Len(GroupsNow)
  PROVE  /\ GroupChars(HeadOf(k)) = Chars(GroupsNow[k].messages) /\ GroupsNow[k].messages \in Seq(Message)
         /\ CallsOf(GroupsNow[k].messages) = events[HeadOf(k)].calls /\ events[HeadOf(k)].calls \in Seq(Call)
<1> DEFINE g == GroupsNow[k]
           s == HeadOf(k)
           q == g.sequences
           w == g.messages
           e == events[s]
           L == Len(q)
           n == L - 1
           N == Len(events)
           r == [j \in 1 .. n |-> q[j + 1]]
           seq == [i \in DOMAIN events |-> IF i \in GroupOf(s) \ {s} THEN Content(events[i].size) ELSE 0]
           part == [j \in 1 .. n |-> Content(events[q[j + 1]].size)]
           mc == [i \in DOMAIN w |-> MessageChars(w[i])]
           head == Append(<<>>, MessageChars(w[1]))
<1>1. Whole(events, g) /\ s = q[1] /\ N \in Nat /\ DOMAIN events = 1 .. N
  BY HeadsOfGroups DEF HeadOf
<1>2. /\ L \in Nat /\ L >= 1 /\ Len(w) = L /\ e \in ModelEvent /\ e.calls \in Seq(Call) /\ s \in 1 .. N
  BY <1>1, BlockHead DEF Whole
<1>3. n \in Nat /\ L = n + 1 /\ \A j \in 1 .. n : j + 1 \in 2 .. L /\ j + 1 \in 1 .. L
  BY <1>2
<1>4. /\ w \in Seq(Message) /\ w[1] = AssistantMessage(e)
      /\ \A j \in 1 .. L : q[j] \in 1 .. N
      /\ \A i, j \in 1 .. L : i < j => q[i] < q[j]
      /\ \A j \in 2 .. L : events[q[j]] \in ToolEvent /\ w[j] = ToolMessage(events[q[j]])
  <2>1. w \in Seq(Message) /\ w[1] = AssistantMessage(e)
    BY <1>1 DEF Whole, Block, Group
  <2>2. QED
    BY <1>1, <2>1, Zenon DEF Whole, Block
<1>5. GroupOf(s) = {q[j] : j \in 1 .. L}
  <2>1. q \in Seq(Nat)
    BY <1>1 DEF Whole, Block, Group
  <2>2. ToSet(q) = {q[j] : j \in 1 .. L}
    BY <2>1 DEF ToSet
  <2>3. QED
    BY <2>2, EventsOfGroup
<1>6. DOMAIN w = 1 .. L
  <2> HIDE DEF Message
  <2>1. QED
    BY <1>2, <1>4
<1>7. /\ MessageChars(w[1]) = e.text + Total([i \in DOMAIN e.calls |-> e.calls[i].size])
      /\ MessageChars(w[1]) \in Nat
  BY <1>2, <1>4, CharsOfEvent
<1>8. GroupChars(s) = MessageChars(w[1]) + Total(seq)
  BY <1>7 DEF GroupChars
<1>9. Chars(w) = Total(mc)
  BY DEF Chars
<1>10. CallsOf(w) = e.calls
  <2>1. w \in WholeMessages
    BY <1>1, WholeGroups
  <2>2. CallsOf(w) = w[1].calls
    BY <2>1, CallsOfGroup
  <2>3. QED
    BY <1>4, <2>2 DEF AssistantMessage
<1> HIDE DEF g, s, q, w, e, L, n, N
<1>11. ASSUME NEW j \in 1 .. n
       PROVE  /\ q[j + 1] \in 1 .. N /\ q[j + 1] \in GroupOf(s) \ {s}
              /\ MessageChars(w[j + 1]) = Content(events[q[j + 1]].size) /\ Content(events[q[j + 1]].size) \in Nat
  <2>1. j + 1 \in 2 .. L /\ j + 1 \in 1 .. L /\ 1 \in 1 .. L /\ 1 < j + 1
    BY <1>2, <1>3
  <2>2. q[1] < q[j + 1] /\ q[j + 1] \in 1 .. N /\ q[1] \in 1 .. N
    BY <1>4, <2>1
  <2>3. q[j + 1] # s
    BY <1>1, <2>2
  <2>4. MessageChars(w[j + 1]) = Content(events[q[j + 1]].size) /\ Content(events[q[j + 1]].size) \in Nat
    BY <1>4, <2>1, CharsOfEvent
  <2>5. QED
    BY <1>5, <2>1, <2>2, <2>3, <2>4
<1>12. ASSUME NEW i \in GroupOf(s) \ {s}
       PROVE  \E j \in 1 .. n : q[j + 1] = i
  <2>1. PICK b \in 1 .. L : q[b] = i
    BY <1>5
  <2>2. b # 1
    BY <1>1, <2>1
  <2>3. b - 1 \in 1 .. n /\ (b - 1) + 1 = b
    BY <1>2, <1>3, <2>2
  <2>4. QED
    BY <2>1, <2>3
<1>13. seq \in [1 .. N -> Nat] /\ \A i \in 1 .. N : i \notin GroupOf(s) \ {s} => seq[i] = 0
  <2>1. ASSUME NEW i \in GroupOf(s) \ {s}
        PROVE  Content(events[i].size) \in Nat
    BY <1>11, <1>12
  <2>2. QED
    BY <1>1, <2>1
<1>14. r \in [1 .. n -> 1 .. N] /\ \A i, j \in 1 .. n : i < j => r[i] < r[j]
  <2>1. ASSUME NEW i \in 1 .. n, NEW j \in 1 .. n, i < j
        PROVE  q[i + 1] < q[j + 1]
    <3>1. i + 1 \in 1 .. L /\ j + 1 \in 1 .. L /\ i + 1 < j + 1
      BY <1>3, <2>1
    <3>2. QED
      BY <1>4, <3>1
  <2>2. QED
    BY <1>11, <2>1
<1>15. part = [j \in 1 .. n |-> seq[r[j]]] /\ part \in Seq(Nat)
  <2>1. \A j \in 1 .. n : seq[r[j]] = Content(events[q[j + 1]].size)
    BY <1>1, <1>11
  <2>2. part \in Seq(Nat)
    BY <1>3, <1>11
  <2>3. QED
    BY <2>1, <2>2
<1>16. mc = head \o part
  <2>1. mc = [i \in 1 .. n + 1 |-> MessageChars(w[i])]
    BY <1>3, <1>6
  <2>2. head \in Seq(Nat) /\ Len(head) = 1 /\ head[1] = MessageChars(w[1])
    BY <1>7
  <2>3. Len(part) = n /\ \A j \in 1 .. n : part[j] = MessageChars(w[j + 1])
    BY <1>3, <1>11
  <2> HIDE DEF head, part
  <2> DEFINE l == mc
             u == head \o part
  <2>a. head \in Seq(Nat) /\ part \in Seq(Nat) /\ Len(head) = 1 /\ Len(part) = n /\ n \in Nat
    BY <1>3, <1>15, <2>2, <2>3
  <2>4. /\ u \in Seq(Nat) /\ Len(u) = n + 1
        /\ \A i \in 1 .. n + 1 : u[i] = IF i <= 1 THEN head[i] ELSE part[i - 1]
    <3>1. /\ u \in Seq(Nat) /\ Len(u) = Len(head) + Len(part)
          /\ \A i \in 1 .. Len(head) + Len(part) : u[i] = IF i <= Len(head) THEN head[i] ELSE part[i - Len(head)]
      BY <2>a, ConcatProperties
    <3>2. Len(head) + Len(part) = n + 1
      BY <2>a
    <3> HIDE DEF u
    <3>3. QED
      BY <2>a, <3>1, <3>2
  <2>5. ASSUME NEW i \in 1 .. n + 1
        PROVE  MessageChars(w[i]) = u[i] /\ u[i] \in Nat
    <3>1. CASE i = 1
      <4>1. u[1] = head[1]
        BY <2>4, <3>1
      <4>2. QED
        BY <1>7, <2>2, <3>1, <4>1
    <3>2. CASE i # 1
      <4>1. i - 1 \in 1 .. n /\ (i - 1) + 1 = i /\ u[i] = part[i - 1]
        BY <2>4, <2>a, <3>2
      <4>2. part[i - 1] = MessageChars(w[(i - 1) + 1]) /\ part[i - 1] \in Nat
        BY <2>3, <2>a, <4>1
      <4>3. QED
        BY <4>1, <4>2
    <3>3. QED
      BY <3>1, <3>2
  <2> HIDE DEF u
  <2>6. l \in Seq(Nat) /\ Len(l) = n + 1 /\ \A i \in 1 .. n + 1 : l[i] = u[i]
    BY <1>3, <2>1, <2>5
  <2> HIDE DEF l
  <2>7. l = u
    BY <2>4, <2>6, SeqEqual
  <2>8. QED
    BY <2>7 DEF l, u
<1>17. Total(head) = MessageChars(w[1]) /\ head \in Seq(Nat)
  <2> DEFINE none == <<>>
  <2>1. none \in Seq(Nat) /\ Total(none) = 0
    BY TotalGrows
  <2> HIDE DEF none
  <2>2. Total(Append(none, MessageChars(w[1]))) = Total(none) + MessageChars(w[1])
    BY <1>7, <2>1, TotalGrows
  <2>3. head \in Seq(Nat)
    BY <1>7
  <2>4. QED
    BY <1>7, <2>1, <2>2, <2>3 DEF none
<1> HIDE DEF seq, r, part, mc, head
<1>18. Total(seq) = Total(part)
  <2>1. Chosen(r, n, seq, N, Nat, 0)
    <3>1. ASSUME NEW i \in 1 .. N, \A j \in 1 .. n : r[j] # i
          PROVE  seq[i] = 0
      <4>1. i \notin GroupOf(s) \ {s}
        BY <1>12, <3>1 DEF r
      <4>2. QED
        BY <1>13, <4>1
    <3>2. QED
      BY <1>3, <1>13, <1>14, <3>1 DEF Chosen
  <2>2. Picked(part, r, n, seq)
    BY <1>15 DEF Picked
  <2>3. QED
    BY <1>1, <2>1, <2>2, TotalOfChosen
<1>19. Total(mc) = Total(head) + Total(part)
  BY <1>15, <1>16, <1>17, TotalJoins
<1>20. QED
  BY <1>2, <1>4, <1>8, <1>9, <1>10, <1>17, <1>18, <1>19 DEF s, w, e, g

-----------------------------------------------------------------------------
(* The request from one group on *)

\* Its size and its calls are those that the Events tell.
LEMMA RequestFrom ==
  ASSUME Closed, NEW k \in 1 .. Len(GroupsNow)
  PROVE  /\ CharsFrom(HeadOf(k)) = InputChars(Messages(GroupsNow, k))
         /\ CallsOf(Messages(GroupsNow, k)) =
              FlattenSeq([i \in DOMAIN events |->
                IF i \in Interactions /\ HeadOf(k) <= i THEN events[i].calls ELSE <<>>])
<1> DEFINE G == GroupsNow
           L == Len(G)
           N == Len(events)
           n == L + 1 - k
           t == Pieces(G, k)
           F == CharsAsFunction
           C == CallsAsFunction
           r == [j \in 1 .. n |-> HeadOf(j + k - 1)]
           sizes == [i \in DOMAIN events |-> IF i \in Interactions /\ HeadOf(k) <= i THEN GroupChars(i) ELSE 0]
           calls == [i \in DOMAIN events |-> IF i \in Interactions /\ HeadOf(k) <= i THEN events[i].calls ELSE <<>>]
<1>1. /\ G \in Seq(Group) /\ L \in Nat /\ N \in Nat /\ DOMAIN events = 1 .. N
      /\ \A l \in 1 .. L : HeadOf(l) \in 1 .. N
      /\ \A l, m \in 1 .. L : l < m => HeadOf(l) < HeadOf(m)
      /\ Interactions = {HeadOf(l) : l \in 1 .. L}
  BY HeadsOfGroups
<1>2. k \in 1 .. L /\ k \in Nat /\ n \in Nat /\ k \in 1 .. L + 1
  BY <1>1
<1>3. /\ t \in Seq(Seq(Message)) /\ Len(t) = n /\ Messages(G, k) = FixedMessages \o FlattenSeq(t)
      /\ \A j \in 1 .. n : t[j] = G[j + k - 1].messages
  <2>1. t \in Seq(Seq(Message)) /\ Len(t) = n /\ Messages(G, k) = FixedMessages \o FlattenSeq(t)
    BY <1>1, <1>2, RequestIsMessages
  <2>2. \A j \in 1 .. n : t[j] = G[j + k - 1].messages
    BY DEF Pieces
  <2>3. QED
    BY <2>1, <2>2
<1>4. /\ InputChars(Messages(G, k)) = FixedChars + Total(Each(F, t))
      /\ CallsOf(Messages(G, k)) = FlattenSeq(Each(C, t))
  BY <1>3, RequestOfPieces
<1>5. \A l \in 1 .. L :
        /\ GroupChars(HeadOf(l)) = F[G[l].messages] /\ GroupChars(HeadOf(l)) \in Nat
        /\ events[HeadOf(l)].calls = C[G[l].messages] /\ events[HeadOf(l)].calls \in Seq(Call)
  <2>1. ASSUME NEW l \in 1 .. L
        PROVE  /\ GroupChars(HeadOf(l)) = F[G[l].messages] /\ GroupChars(HeadOf(l)) \in Nat
               /\ events[HeadOf(l)].calls = C[G[l].messages] /\ events[HeadOf(l)].calls \in Seq(Call)
    <3> DEFINE w == G[l].messages
    <3>1. GroupChars(HeadOf(l)) = Chars(w) /\ w \in Seq(Message) /\ CallsOf(w) = events[HeadOf(l)].calls
          /\ events[HeadOf(l)].calls \in Seq(Call)
      BY CharsOfGroup
    <3> HIDE DEF w, F, C
    <3>2. F[w] = Chars(w) /\ C[w] = CallsOf(w) /\ Chars(w) \in Nat
      <4>1. Chars(w) \in Nat
        BY <3>1, FixedAreMessages, RequestsJoin
      <4>2. QED
        BY <3>1, <4>1, AsFunctions DEF F, C
    <3>3. QED
      BY <3>1, <3>2 DEF w
  <2>2. QED
    BY <2>1
<1>6. CharsFrom(HeadOf(k)) = FixedChars + Total(sizes)
  BY DEF CharsFrom
<1> HIDE DEF G, L, N, n, t, F, C
<1>7. ASSUME NEW j \in 1 .. n
      PROVE  /\ j + k - 1 \in 1 .. L /\ r[j] = HeadOf(j + k - 1) /\ r[j] \in 1 .. N
             /\ r[j] \in Interactions /\ HeadOf(k) <= r[j]
  <2>1. j + k - 1 \in 1 .. L /\ k <= j + k - 1
    BY <1>1, <1>2 DEF n
  <2>2. r[j] = HeadOf(j + k - 1)
    OBVIOUS
  <2>3. HeadOf(j + k - 1) \in 1 .. N /\ HeadOf(k) \in 1 .. N
    BY <1>1, <1>2, <2>1
  <2>4. k = j + k - 1 \/ HeadOf(k) < HeadOf(j + k - 1)
    BY <1>1, <1>2, <2>1
  <2>5. QED
    BY <1>1, <2>1, <2>2, <2>3, <2>4
<1>8. ASSUME NEW i \in Interactions, HeadOf(k) <= i
      PROVE  \E j \in 1 .. n : r[j] = i
  <2>1. PICK l \in 1 .. L : HeadOf(l) = i
    BY <1>1
  <2>2. HeadOf(l) \in 1 .. N /\ HeadOf(k) \in 1 .. N
    BY <1>1, <1>2
  <2>3. ~ (l < k)
    BY <1>1, <1>2, <1>8, <2>1, <2>2
  <2>4. l - k + 1 \in 1 .. n /\ (l - k + 1) + k - 1 = l
    BY <1>1, <1>2, <2>3 DEF n
  <2>5. QED
    BY <2>1, <2>4
<1>9. r \in [1 .. n -> 1 .. N] /\ \A i, j \in 1 .. n : i < j => r[i] < r[j]
  <2>1. ASSUME NEW i \in 1 .. n, NEW j \in 1 .. n, i < j
        PROVE  r[i] < r[j]
    <3>1. i + k - 1 < j + k - 1
      BY <1>2, <2>1
    <3>2. QED
      BY <1>1, <1>7, <3>1
  <2>2. QED
    BY <1>7, <2>1
<1>10. DOMAIN t = 1 .. n
  <2> HIDE DEF Message
  <2>1. QED
    BY <1>3
<1>11. /\ sizes \in [1 .. N -> Nat] /\ \A i \in 1 .. N : ~ (i \in Interactions /\ HeadOf(k) <= i) => sizes[i] = 0
       /\ \A j \in 1 .. n : sizes[r[j]] = F[t[j]]
  <2>1. \A i \in Interactions : GroupChars(i) \in Nat
    BY <1>1, <1>5
  <2>2. ASSUME NEW j \in 1 .. n
        PROVE  sizes[r[j]] = F[t[j]]
    <3>1. sizes[r[j]] = GroupChars(r[j])
      BY <1>1, <1>7
    <3>2. QED
      BY <1>3, <1>5, <1>7, <3>1
  <2>3. QED
    BY <1>1, <2>1, <2>2
<1>12. /\ calls \in [1 .. N -> Seq(Call)] /\ \A i \in 1 .. N : ~ (i \in Interactions /\ HeadOf(k) <= i) => calls[i] = <<>>
       /\ \A j \in 1 .. n : calls[r[j]] = C[t[j]]
  <2>1. <<>> \in Seq(Call) /\ \A i \in Interactions : events[i].calls \in Seq(Call)
    BY <1>1, <1>5
  <2>2. ASSUME NEW j \in 1 .. n
        PROVE  calls[r[j]] = C[t[j]]
    <3>1. calls[r[j]] = events[r[j]].calls
      BY <1>1, <1>7
    <3>2. QED
      BY <1>3, <1>5, <1>7, <3>1
  <2> HIDE DEF Call
  <2>3. QED
    BY <1>1, <2>1, <2>2
<1> HIDE DEF r, sizes, calls, Call
<1>13. \A i \in 1 .. N : (\A j \in 1 .. n : r[j] # i) => ~ (i \in Interactions /\ HeadOf(k) <= i)
  BY <1>8
<1>14. Chosen(r, n, sizes, N, Nat, 0) /\ Chosen(r, n, calls, N, Seq(Call), <<>>)
  BY <1>2, <1>9, <1>11, <1>12, <1>13 DEF Chosen
<1>15. Picked(Each(F, t), r, n, sizes) /\ Picked(Each(C, t), r, n, calls)
  BY <1>10, <1>11, <1>12 DEF Picked, Each
<1>16. Total(sizes) = Total(Each(F, t))
  BY <1>1, <1>14, <1>15, TotalOfChosen
<1>17. FlattenSeq(calls) = FlattenSeq(Each(C, t))
  BY <1>1, <1>14, <1>15, FlattenOfChosen
<1>18. QED
  BY <1>4, <1>6, <1>16, <1>17 DEF G, calls

\* With the invariant the request shows the newest groups that fit.
LEMMA NewestFollow ==
  RunInv => ShowsTheNewestThatFit
<1> SUFFICES ASSUME RunInv, Built, Interactions # {}
             PROVE  \E first \in Interactions :
                      LET dropped == {s \in Interactions : s < first} IN
                        /\ CharsFrom(first) <= max_context_chars
                        /\ \A s \in dropped : CharsFrom(s) > max_context_chars
                        /\ context.omitted = UNION {GroupOf(s) : s \in dropped}
                        /\ CallsOf(context.messages) =
                             FlattenSeq([i \in DOMAIN events |->
                               IF i \in Interactions \ dropped THEN events[i].calls ELSE <<>>])
  BY DEF ShowsTheNewestThatFit
<1>1. Closed /\ Fits(events, context)
  <2>1. HistoryInv(events) /\ History(events).current = NoGroup /\ context = Build(events) /\ context.error = Nothing
    BY DEF RunInv, Built
  <2>2. QED
    BY <2>1, BuildIs DEF Closed
<1> DEFINE G == GroupsNow
           L == Len(G)
           d == Drop(G)
           dropped == {s \in Interactions : s < HeadOf(d)}
<1>2. /\ L \in Nat /\ DOMAIN events = 1 .. Len(events) /\ G \in Seq(Group)
      /\ \A l \in 1 .. L : HeadOf(l) \in 1 .. Len(events)
      /\ \A l, m \in 1 .. L : l < m => HeadOf(l) < HeadOf(m)
      /\ Interactions = {HeadOf(l) : l \in 1 .. L}
  BY <1>1, HeadsOfGroups
<1>3. L # 0
  BY <1>2
<1>4. /\ d \in 1 .. L
      /\ \A k \in 1 .. d - 1 : InputChars(Messages(G, k)) > max_context_chars
      /\ context.messages = Messages(G, d)
      /\ context.omitted = UNION {ToSet(G[k].sequences) : k \in 1 .. d - 1}
      /\ InputChars(context.messages) <= max_context_chars
  <2>1. G # <<>>
    BY <1>3
  <2>2. d \in 1 .. L + 1 /\ (G # <<>> => d <= L)
    BY <1>1 DEF Fits, GroupsNow
  <2>3. d \in 1 .. L
    BY <1>2, <2>1, <2>2
  <2>4. QED
    BY <1>1, <2>3 DEF Fits, GroupsNow
<1> HIDE DEF G, L, d
<1>5. \A k \in 1 .. L : CharsFrom(HeadOf(k)) = InputChars(Messages(G, k)) /\ GroupOf(HeadOf(k)) = ToSet(G[k].sequences)
  BY <1>1, RequestFrom, EventsOfGroup DEF G, L
<1>6. dropped = {HeadOf(k) : k \in 1 .. d - 1}
  <2>1. ASSUME NEW k \in 1 .. d - 1
        PROVE  HeadOf(k) \in dropped
    <3>1. k \in 1 .. L /\ k < d
      BY <1>2, <1>4
    <3>2. QED
      BY <1>2, <1>4, <3>1
  <2>2. ASSUME NEW s \in dropped
        PROVE  \E k \in 1 .. d - 1 : HeadOf(k) = s
    <3>1. PICK k \in 1 .. L : s = HeadOf(k)
      BY <1>2
    <3>2. HeadOf(k) \in 1 .. Len(events) /\ HeadOf(d) \in 1 .. Len(events) /\ HeadOf(k) < HeadOf(d)
      BY <1>2, <1>4, <3>1
    <3>3. ~ (d < k) /\ d # k
      <4>1. d # k
        BY <3>2
      <4>2. d < k => HeadOf(d) < HeadOf(k)
        BY <1>2, <1>4
      <4>3. QED
        BY <3>2, <4>1, <4>2
    <3>4. k \in 1 .. d - 1
      BY <1>2, <1>4, <3>3
    <3>5. QED
      BY <3>1, <3>4
  <2>3. QED
    BY <2>1, <2>2
<1>7. HeadOf(d) \in Interactions /\ CharsFrom(HeadOf(d)) <= max_context_chars
  BY <1>2, <1>4, <1>5
<1>8. \A k \in 1 .. d - 1 : k \in 1 .. L
  BY <1>2, <1>4
<1>9. \A s \in dropped : CharsFrom(s) > max_context_chars
  BY <1>4, <1>5, <1>6, <1>8
<1>10. context.omitted = UNION {GroupOf(s) : s \in dropped}
  <2>1. {GroupOf(s) : s \in dropped} = {GroupOf(HeadOf(k)) : k \in 1 .. d - 1}
    BY <1>6
  <2>2. {GroupOf(HeadOf(k)) : k \in 1 .. d - 1} = {ToSet(G[k].sequences) : k \in 1 .. d - 1}
    BY <1>5, <1>8
  <2>3. QED
    BY <1>4, <2>1, <2>2
<1>11. CallsOf(context.messages) =
         FlattenSeq([i \in DOMAIN events |-> IF i \in Interactions \ dropped THEN events[i].calls ELSE <<>>])
  <2>1. CallsOf(Messages(G, d)) =
          FlattenSeq([i \in DOMAIN events |->
            IF i \in Interactions /\ HeadOf(d) <= i THEN events[i].calls ELSE <<>>])
    BY <1>1, <1>4, RequestFrom DEF G, L
  <2>2. \A i \in DOMAIN events : i \in Interactions \ dropped <=> i \in Interactions /\ HeadOf(d) <= i
    <3>1. HeadOf(d) \in Int /\ \A i \in DOMAIN events : i \in Int
      BY <1>2, <1>4
    <3>2. QED
      BY <3>1
  <2>3. [i \in DOMAIN events |-> IF i \in Interactions \ dropped THEN events[i].calls ELSE <<>>]
          = [i \in DOMAIN events |-> IF i \in Interactions /\ HeadOf(d) <= i THEN events[i].calls ELSE <<>>]
    <3> HIDE DEF dropped
    <3>1. QED
      BY <2>2
  <2>4. QED
    BY <1>4, <2>1, <2>3
<1>12. QED
  BY <1>7, <1>9, <1>10, <1>11

(***************************************************************************)
(* ShowsTheNewestThatFit, for all limits, sizes and Runs: build() shows    *)
(* the longest run of newest interactions whose messages fit the limits,   *)
(* always with the latest one, and what it reports as dropped are exactly  *)
(* the Events that are not in the request (build of runtime/context.py,    *)
(* its loop over the oldest group); alone and under the translation.       *)
(***************************************************************************)
THEOREM NewestShown ==
  (ContextSpec => []ShowsTheNewestThatFit) /\ (RunSpec => []ShowsTheNewestThatFit)
<1>1. ContextSpec => []RunInv
  BY RunInvStarts, RunInvKept, PTL DEF ContextSpec
<1>2. InitRun => RunInv
  BY RunInvStarts DEF InitRun
<1>3. RunSpec => []RunInv
  BY <1>2, RunInvKept, PTL DEF RunSpec
<1>4. QED
  BY <1>1, <1>3, NewestFollow, PTL

-----------------------------------------------------------------------------
(* Wire names *)

Names == Conforming \cup DOMAIN Normalized
\* The lists of different names.
ListsNames(names) ==
  names \in Seq(Names) /\ \A i, j \in DOMAIN names : names[i] = names[j] => i = j
\* What may become of a name.
Marks(name) ==
  IF name \in Conforming THEN {name} ELSE {Normalized[name]} \cup {Hashed[name][a] : a \in Attempts}

\* A candidate that is free is found when there is one.
LEMMA HashIsFree ==
  ASSUME NEW name, NEW used, \E a \in Attempts : Hashed[name][a] \notin used
  PROVE  FreeHash(name, used) \notin used /\ \E a \in Attempts : FreeHash(name, used) = Hashed[name][a]
<1> DEFINE First(a) == Hashed[name][a] \notin used /\ \A b \in Attempts : b < a => Hashed[name][b] \in used
           T == {n \in Nat : \A a \in Attempts : a < n => Hashed[name][a] \in used}
<1>1. Attempts \subseteq Nat
  BY HashedAssumption DEF Attempts
<1>2. \E a \in Attempts : First(a)
  <2>1. SUFFICES ASSUME \A a \in Attempts : ~ First(a)
                 PROVE  FALSE
    OBVIOUS
  <2>2. 0 \in T
    BY <1>1
  <2>3. ASSUME NEW n \in Nat, n \in T
        PROVE  n + 1 \in T
    <3>1. ASSUME NEW a \in Attempts, a < n + 1
          PROVE  Hashed[name][a] \in used
      <4>1. a < n \/ a = n
        BY <1>1, <3>1
      <4>2. CASE a = n
        BY <2>1, <2>3, <4>2
      <4>3. QED
        BY <2>3, <4>1, <4>2
    <3>2. QED
      BY <3>1
  <2>4. Nat \subseteq T
    <3> HIDE DEF T
    <3>1. QED
      BY <2>2, <2>3, SetInduction
  <2>5. PICK a \in Attempts : Hashed[name][a] \notin used
    OBVIOUS
  <2>6. a + 1 \in T /\ a < a + 1
    BY <1>1, <2>4
  <2>7. QED
    BY <2>5, <2>6
<1> DEFINE c == CHOOSE a \in Attempts : First(a)
<1>3. c \in Attempts /\ First(c)
  BY <1>2
<1>4. FreeHash(name, used) = Hashed[name][c]
  BY DEF FreeHash
<1> HIDE DEF c
<1>5. QED
  BY <1>3, <1>4

\* What the names before it have become.
Before(names, w) ==
  /\ Len(w) \in 0 .. Len(names) /\ DOMAIN w = 1 .. Len(w)
  /\ \A j \in 1 .. Len(w) :
       w[j] \in Marks(names[j]) /\ (names[j] \notin Conforming => w[j] \notin Reserved(names))
  /\ \A i, j \in 1 .. Len(w) : w[i] = w[j] => i = j

\* The next name becomes a new one.
LEMMA WireIsNew ==
  ASSUME NEW names, ListsNames(names), NEW w, Before(names, w), NEW i \in 1 .. Len(names), i = Len(w) + 1,
         names[i] \notin Conforming
  PROVE  LET used == Reserved(names) \cup ToSet(w)
             new == WireName(names, names[i], used)
         IN  new \in Marks(names[i]) /\ new \notin used
<1> DEFINE used == Reserved(names) \cup ToSet(w)
           name == names[i]
           new == WireName(names, name, used)
<1>1. /\ names \in Seq(Names) /\ Len(names) \in Nat /\ DOMAIN names = 1 .. Len(names)
      /\ \A j \in 1 .. Len(names) : names[j] \in Names
  BY DEF ListsNames
<1>2. Len(w) \in Nat /\ DOMAIN w = 1 .. Len(w) /\ \A j \in 1 .. Len(w) : j \in 1 .. Len(names) /\ j # i
  BY <1>1 DEF Before
<1>3. name \in DOMAIN Hashed
  BY <1>1, HashedAssumption DEF Names
<1>4. CASE Taken(names, name, used)
  <2>1. PICK a \in Attempts :
          /\ Hashed[name][a] \notin Conforming
          /\ \A other \in DOMAIN Hashed \ {name} :
               Hashed[name][a] # Normalized[other] /\ \A b \in Attempts : Hashed[name][a] # Hashed[other][b]
    BY <1>3, HashedAssumption
  <2>2. Hashed[name][a] \notin Reserved(names)
    BY <2>1 DEF Reserved
  <2>3. ASSUME NEW j \in 1 .. Len(w)
        PROVE  w[j] # Hashed[name][a]
    <3>1. w[j] \in Marks(names[j]) /\ names[j] # name /\ names[j] \in Names
      BY <1>1, <1>2 DEF Before, ListsNames
    <3>2. CASE names[j] \in Conforming
      BY <2>1, <3>1, <3>2 DEF Marks
    <3>3. CASE names[j] \notin Conforming
      <4>1. names[j] \in DOMAIN Hashed \ {name}
        BY <3>1, <3>3, HashedAssumption DEF Names
      <4>2. w[j] = Normalized[names[j]] \/ \E b \in Attempts : w[j] = Hashed[names[j]][b]
        BY <3>1, <3>3 DEF Marks
      <4>3. QED
        BY <2>1, <4>1, <4>2
    <3>4. QED
      BY <3>2, <3>3
  <2>4. Hashed[name][a] \notin used
    BY <1>2, <2>2, <2>3 DEF ToSet
  <2> HIDE DEF used, name
  <2>5. FreeHash(name, used) \notin used /\ \E b \in Attempts : FreeHash(name, used) = Hashed[name][b]
    BY <2>4, HashIsFree
  <2>6. new = FreeHash(name, used)
    BY <1>4 DEF WireName
  <2> HIDE DEF new
  <2>7. new \in Marks(name) /\ new \notin used
    BY <2>5, <2>6 DEF Marks, name
  <2>8. QED
    BY <2>7 DEF new, used, name
<1>5. CASE ~ Taken(names, name, used)
  <2>1. new = Normalized[name] /\ Normalized[name] \notin used
    BY <1>5 DEF WireName, Taken
  <2>2. QED
    BY <2>1 DEF Marks
<1>6. QED
  BY <1>4, <1>5

NextWire(names, i, w) ==
  IF names[i] \in Conforming THEN names[i] ELSE WireName(names, names[i], Reserved(names) \cup ToSet(w))
AllMarks == UNION {Marks(n) : n \in Names}
WireLists(names) == {w \in Seq(AllMarks) : Before(names, w)}

\* The list of wire names grows by the next one.
LEMMA WiresGrow ==
  ASSUME NEW names, ListsNames(names), NEW w \in WireLists(names), NEW i \in 1 .. Len(names), i = Len(w) + 1
  PROVE  Append(w, NextWire(names, i, w)) \in WireLists(names)
<1> DEFINE new == NextWire(names, i, w)
           v == Append(w, new)
<1>1. /\ Len(names) \in Nat /\ DOMAIN names = 1 .. Len(names) /\ names[i] \in Names
      /\ \A j, k \in 1 .. Len(names) : names[j] = names[k] => j = k
  BY DEF ListsNames
<1>2. /\ w \in Seq(AllMarks) /\ Before(names, w) /\ Len(w) \in Nat
      /\ \A j \in 1 .. Len(w) : j \in 1 .. Len(names) /\ j # i
  BY <1>1 DEF WireLists
<1>3. /\ new \in Marks(names[i]) /\ (names[i] \notin Conforming => new \notin Reserved(names))
      /\ \A j \in 1 .. Len(w) : w[j] # new
  <2>1. CASE names[i] \in Conforming
    <3>1. new = names[i] /\ new \in Marks(names[i])
      BY <2>1 DEF NextWire, Marks
    <3>2. names[i] \in Reserved(names)
      BY <1>1, <2>1 DEF Reserved, ToSet
    <3>3. ASSUME NEW j \in 1 .. Len(w)
          PROVE  w[j] # names[i]
      <4>1. names[j] # names[i] /\ w[j] \in Marks(names[j]) /\ (names[j] \notin Conforming => w[j] \notin Reserved(names))
        BY <1>1, <1>2 DEF Before
      <4>2. QED
        BY <3>2, <4>1 DEF Marks
    <3>4. QED
      BY <2>1, <3>1, <3>3
  <2>2. CASE names[i] \notin Conforming
    <3>1. new = WireName(names, names[i], Reserved(names) \cup ToSet(w))
      BY <2>2 DEF NextWire
    <3>2. new \in Marks(names[i]) /\ new \notin Reserved(names) \cup ToSet(w)
      BY <1>2, <2>2, <3>1, WireIsNew
    <3>3. \A j \in 1 .. Len(w) : w[j] \in ToSet(w)
      BY <1>2 DEF Before, ToSet
    <3>4. QED
      BY <3>2, <3>3
  <2>3. QED
    BY <2>1, <2>2
<1> HIDE DEF new
<1>4. new \in AllMarks
  BY <1>1, <1>3 DEF AllMarks
<1>5. /\ v \in Seq(AllMarks) /\ Len(v) = Len(w) + 1 /\ v[Len(w) + 1] = new /\ DOMAIN v = 1 .. Len(v)
      /\ \A j \in 1 .. Len(w) : v[j] = w[j]
  BY <1>2, <1>4
<1> HIDE DEF v
<1>6. \A j \in 1 .. Len(v) : j = i \/ j \in 1 .. Len(w)
  BY <1>2, <1>5
<1>7. Before(names, v)
  <2>1. Len(v) \in 0 .. Len(names)
    BY <1>1, <1>2, <1>5
  <2>2. \A j \in 1 .. Len(v) : v[j] \in Marks(names[j]) /\ (names[j] \notin Conforming => v[j] \notin Reserved(names))
    BY <1>2, <1>3, <1>5, <1>6 DEF Before
  <2>3. ASSUME NEW j \in 1 .. Len(v), NEW k \in 1 .. Len(v), v[j] = v[k]
        PROVE  j = k
    <3>1. j = i \/ j \in 1 .. Len(w)
      BY <1>6
    <3>2. k = i \/ k \in 1 .. Len(w)
      BY <1>6
    <3>3. v[i] = new /\ \A l \in 1 .. Len(w) : v[l] # new
      BY <1>3, <1>5
    <3>4. CASE j \in 1 .. Len(w) /\ k \in 1 .. Len(w)
      <4>1. w[j] = w[k]
        BY <1>5, <2>3, <3>4
      <4>2. QED
        BY <1>2, <3>4, <4>1 DEF Before
    <3>5. QED
      BY <2>3, <3>1, <3>2, <3>3, <3>4
  <2>4. QED
    BY <1>5, <2>1, <2>2, <2>3 DEF Before
<1>8. QED
  BY <1>5, <1>7 DEF WireLists, v, new

\* What WiresOf computes.
LEMMA WiresAre ==
  ASSUME NEW names, ListsNames(names)
  PROVE  WiresOf(names) \in WireLists(names) /\ Len(WiresOf(names)) = Len(names)
<1> DEFINE N == Len(names)
           V == WireLists(names)
           next(i, w) == IF i = Len(w) + 1 THEN Append(w, NextWire(names, i, w)) ELSE w
           step == [p \in (1 .. N) \X V |-> next(p[1], p[2])]
<1>1. N \in Nat
  BY DEF ListsNames
<1>2. <<>> \in V
  BY <1>1 DEF WireLists, Before
<1>3. ASSUME NEW i \in 1 .. N, NEW w \in V
      PROVE  next(i, w) \in V
  BY <1>3, WiresGrow
<1>4. Steps(V, N, <<>>, step)
  <2> HIDE DEF next, V
  <2>1. step \in [(1 .. N) \X V -> V]
    BY <1>3
  <2> HIDE DEF step
  <2>2. QED
    BY <1>1, <1>2, <2>1 DEF Steps
<1>5. PICK f : f \in [0 .. N -> V] /\ f[0] = <<>> /\ \A n \in 1 .. N : f[n] = step[<<n, f[n - 1]>>]
  <2> HIDE DEF N, step, V
  <2>1. \E f \in [0 .. N -> V] : Follows(f, N, <<>>, step)
    BY <1>4, RecursionExists, Zenon
  <2>2. QED
    BY <2>1 DEF Follows
<1>6. ASSUME NEW n \in 1 .. N
      PROVE  f[n] = next(n, f[n - 1]) /\ f[n - 1] \in V
  <2> HIDE DEF V, next
  <2>1. n - 1 \in 0 .. N /\ f[n - 1] \in V
    BY <1>1, <1>5
  <2>2. <<n, f[n - 1]>> \in (1 .. N) \X V
    BY <2>1
  <2>3. step[<<n, f[n - 1]>>] = next(n, f[n - 1])
    BY <2>2
  <2>4. QED
    BY <1>5, <2>1, <2>3
<1> DEFINE T == {n \in Nat : Len(f[n]) = n}
<1>7. 0 .. N \subseteq T
  <2>1. 0 \in T
    BY <1>5
  <2>2. ASSUME NEW n \in 1 .. N, n - 1 \in T
        PROVE  n \in T
    <3>1. Len(f[n - 1]) = n - 1 /\ f[n - 1] \in Seq(AllMarks)
      BY <1>6, <2>2 DEF WireLists
    <3>2. f[n] = Append(f[n - 1], NextWire(names, n, f[n - 1]))
      <4>1. n = Len(f[n - 1]) + 1
        BY <3>1
      <4>2. QED
        BY <1>6, <4>1
    <3>3. f[n] \in Seq(AllMarks)
      BY <1>1, <1>5 DEF WireLists
    <3>4. Len(f[n]) = Len(f[n - 1]) + 1
      <4> DEFINE x == NextWire(names, n, f[n - 1])
                 s == f[n - 1]
      <4>1. s \in Seq(AllMarks)
        BY <3>1
      <4> HIDE DEF x, s
      <4>2. Len(Append(s, x)) = Len(s) + 1
        BY <4>1
      <4>3. QED
        BY <3>2, <4>2 DEF x, s
    <3>5. QED
      BY <3>1, <3>4
  <2> HIDE DEF T, N
  <2>3. QED
    BY <1>1, <2>1, <2>2, InductionUpTo
<1>8. ASSUME NEW n \in 1 .. N
      PROVE  f[n] = Append(f[n - 1], NextWire(names, n, f[n - 1]))
  <2>1. n - 1 \in 0 .. N
    BY <1>1
  <2>2. Len(f[n - 1]) = n - 1
    BY <1>7, <2>1
  <2>3. n = Len(f[n - 1]) + 1
    BY <2>2
  <2>4. QED
    BY <1>6, <2>3
<1> DEFINE Good(g) ==
             g = [i \in 0 .. Len(names) |->
                    IF i = 0 THEN <<>>
                    ELSE LET before == g[i - 1] IN
                         Append(before, IF names[i] \in Conforming THEN names[i]
                                        ELSE WireName(names, names[i], Reserved(names) \cup ToSet(before)))]
<1>9. f = [i \in 0 .. N |-> IF i = 0 THEN <<>> ELSE Append(f[i - 1], NextWire(names, i, f[i - 1]))]
  <2> HIDE DEF V
  <2>1. \A i \in 0 .. N : i = 0 \/ i \in 1 .. N
    BY <1>1
  <2>2. \A i \in 0 .. N : f[i] = IF i = 0 THEN <<>> ELSE Append(f[i - 1], NextWire(names, i, f[i - 1]))
    BY <1>5, <1>8, <2>1
  <2>3. f = [i \in 0 .. N |-> f[i]]
    BY <1>5
  <2>4. QED
    BY <2>2, <2>3
<1>10. Good(f)
  BY <1>9, Zenon DEF NextWire
<1>11. Good(CHOOSE g : Good(g))
  BY <1>10, Zenon
<1>12. WiresOf(names) = (CHOOSE g : Good(g))[Len(names)]
  BY Zenon DEF WiresOf
<1>13. PICK g : Good(g) /\ WiresOf(names) = g[Len(names)]
  BY <1>11, <1>12
<1>14. g = [i \in 0 .. N |-> IF i = 0 THEN <<>> ELSE Append(g[i - 1], NextWire(names, i, g[i - 1]))]
  BY <1>13, Zenon DEF NextWire
<1> HIDE DEF Good
<1>15. \A n \in 0 .. N : f[n] = g[n]
  <2>1. f[0] = g[0]
    BY <1>1, <1>5, <1>14
  <2>2. ASSUME NEW n \in 1 .. N
        PROVE  g[n] = Append(g[n - 1], NextWire(names, n, g[n - 1]))
    <3>1. n \in 0 .. N /\ n # 0
      BY <1>1
    <3>2. QED
      BY <1>14, <3>1
  <2>3. \A n \in 1 .. N : f[n - 1] = g[n - 1] => f[n] = g[n]
    BY <1>8, <2>2
  <2>4. Alike(N, f, g)
    BY <1>1, <2>1, <2>3 DEF Alike
  <2>5. QED
    BY ONLY <2>4, RecursionAgrees
<1>16. WiresOf(names) = f[N] /\ N \in 0 .. N
  BY <1>1, <1>13, <1>15
<1>17. QED
  BY <1>5, <1>7, <1>16

(***************************************************************************)
(* For every list of different Tool names, however long, and whatever the  *)
(* normalisation and the hash make of them: two Tools never get the same   *)
(* wire name, so that a call the Provider makes is for one Tool only       *)
(* (_build_tool_name_map of openai_chat_completions.py).                   *)
(***************************************************************************)
THEOREM WireNamesDiffer ==
  ASSUME NEW names, ListsNames(names)
  PROVE  NamesDiffer(names)
<1> DEFINE wires == WiresOf(names)
           map == InternalToWire(names)
           at(n) == CHOOSE i \in DOMAIN names : names[i] = n
<1>1. Before(names, wires) /\ Len(wires) = Len(names) /\ DOMAIN names = 1 .. Len(names)
  BY WiresAre DEF WireLists, ListsNames
<1>2. map = [n \in ToSet(names) |-> wires[at(n)]]
  BY DEF InternalToWire
<1>3. ASSUME NEW n \in ToSet(names)
      PROVE  at(n) \in 1 .. Len(names) /\ names[at(n)] = n
  <2>1. \E i \in DOMAIN names : names[i] = n
    BY DEF ToSet
  <2>2. at(n) \in DOMAIN names /\ names[at(n)] = n
    BY <2>1
  <2>3. QED
    BY <1>1, <2>2
<1> HIDE DEF wires, map, at
<1>4. DOMAIN map = ToSet(names)
  BY <1>2
<1>5. ASSUME NEW s \in ToSet(names), NEW t \in ToSet(names), map[s] = map[t]
      PROVE  s = t
  <2>1. wires[at(s)] = wires[at(t)]
    BY <1>2, <1>5
  <2>2. at(s) = at(t)
    BY <1>1, <1>3, <2>1 DEF Before
  <2>3. QED
    BY <1>3, <2>2
<1>6. QED
  BY <1>4, <1>5 DEF NamesDiffer, map

-----------------------------------------------------------------------------
(* The places of a concatenation *)

\* The lengths up to each sequence, and where its elements are.
Places(off, t) ==
  /\ off \in [0 .. Len(t) -> Nat] /\ off[0] = 0 /\ \A i \in 1 .. Len(t) : off[i] = off[i - 1] + Len(t[i])
  /\ Len(FlattenSeq(t)) = off[Len(t)]
  /\ \A i \in 1 .. Len(t) : \A j \in 1 .. Len(t[i]) : FlattenSeq(t)[off[i - 1] + j] = t[i][j]
At(t, i, j) == (CHOOSE off : Places(off, t))[i - 1] + j

\* Every concatenation has such lengths.
LEMMA PlacesExist ==
  ASSUME NEW X, NEW t \in Seq(Seq(X))
  PROVE  \E off : Places(off, t)
<1> DEFINE S == Seq(X)
           T == {s \in Seq(S) : \E off : Places(off, s)}
<1>1. <<>> \in T
  <2> DEFINE none == <<>>
             off == [i \in 0 .. 0 |-> 0]
  <2>1. none \in Seq(S) /\ Len(none) = 0 /\ FlattenSeq(none) = <<>>
    BY FlattenGrows
  <2>2. Len(FlattenSeq(none)) = 0
    BY <2>1
  <2>3. off \in [0 .. 0 -> Nat] /\ off[0] = 0
    OBVIOUS
  <2> HIDE DEF none, off
  <2>4. Places(off, none)
    BY <2>1, <2>2, <2>3 DEF Places
  <2>5. QED
    BY <2>1, <2>4 DEF none
<1>2. ASSUME NEW s \in Seq(S), NEW x \in S, s \in T
      PROVE  Append(s, x) \in T
  <2> DEFINE u == Append(s, x)
             N == Len(s)
             M == Len(x)
  <2>1. PICK off : Places(off, s)
    BY <1>2
  <2>2. u \in Seq(S) /\ N \in Nat /\ Len(u) = N + 1 /\ u[N + 1] = x /\ \A i \in 1 .. N : u[i] = s[i]
    <3> HIDE DEF S
    <3>1. QED
      OBVIOUS
  <2>3. M \in Nat /\ x \in Seq(X) /\ \A i \in 1 .. N : s[i] \in Seq(X) /\ Len(s[i]) \in Nat
    <3>1. \A i \in 1 .. N : s[i] \in S
      <4> HIDE DEF S
      <4>1. QED
        OBVIOUS
    <3>2. QED
      BY <3>1
  <2> DEFINE a == FlattenSeq(s)
             b == FlattenSeq(u)
             new == [i \in 0 .. N + 1 |-> IF i <= N THEN off[i] ELSE off[N] + M]
  <2>4. b = a \o x /\ a \in Seq(X)
    BY FlattenGrows
  <2>5. /\ off \in [0 .. N -> Nat] /\ off[0] = 0 /\ \A i \in 1 .. N : off[i] = off[i - 1] + Len(s[i])
        /\ Len(a) = off[N]
        /\ \A i \in 1 .. N : \A j \in 1 .. Len(s[i]) : a[off[i - 1] + j] = s[i][j]
    BY <2>1 DEF Places
  <2>6. /\ Len(a) \in Nat /\ Len(b) = Len(a) + M
        /\ \A p \in 1 .. Len(a) : b[p] = a[p]
        /\ \A j \in 1 .. M : b[Len(a) + j] = x[j]
    <3> HIDE DEF a, b
    <3>1. QED
      BY <2>3, <2>4
  <2> HIDE DEF u, N, M, a, b, S
  <2>7. new \in [0 .. N + 1 -> Nat] /\ new[0] = 0 /\ new[N + 1] = off[N] + M /\ \A i \in 0 .. N : new[i] = off[i]
    BY <2>2, <2>3, <2>5
  <2> HIDE DEF new
  <2>8. \A i \in 1 .. N + 1 : i = N + 1 \/ i \in 1 .. N
    BY <2>2
  <2>9. \A i \in 1 .. N + 1 : new[i] = new[i - 1] + Len(u[i])
    <3>1. ASSUME NEW i \in 1 .. N
          PROVE  new[i] = new[i - 1] + Len(u[i])
      <4>1. i \in 0 .. N /\ i - 1 \in 0 .. N
        BY <2>2
      <4>2. QED
        BY <2>2, <2>5, <2>7, <4>1
    <3>2. new[N + 1] = new[(N + 1) - 1] + Len(u[N + 1])
      <4>1. (N + 1) - 1 = N /\ N \in 0 .. N
        BY <2>2
      <4>2. QED
        BY <2>2, <2>7, <4>1 DEF M
    <3>3. QED
      BY <2>8, <3>1, <3>2
  <2>10. ASSUME NEW i \in 1 .. N + 1, NEW j \in 1 .. Len(u[i])
         PROVE  b[new[i - 1] + j] = u[i][j]
    <3>1. CASE i = N + 1
      <4>1. i - 1 = N /\ u[i] = x /\ new[i - 1] = Len(a) /\ j \in 1 .. M
        BY <2>2, <2>5, <2>7, <3>1 DEF M
      <4>2. b[Len(a) + j] = x[j]
        BY <2>6, <4>1
      <4>3. QED
        BY ONLY <4>1, <4>2
    <3>2. CASE i \in 1 .. N
      <4>1. u[i] = s[i] /\ i - 1 \in 0 .. N /\ new[i - 1] = off[i - 1] /\ i \in 0 .. N
        BY <2>2, <2>7, <3>2
      <4>2. a[off[i - 1] + j] = s[i][j]
        BY <2>5, <3>2, <4>1
      <4>3. off[i - 1] + j \in 1 .. off[i] /\ off[i - 1] \in Nat
        <5>1. off[i - 1] \in Nat /\ off[i] = off[i - 1] + Len(s[i]) /\ Len(s[i]) \in Nat /\ j \in 1 .. Len(s[i])
          BY <2>3, <2>5, <3>2, <4>1
        <5>2. QED
          BY ONLY <5>1
      <4>4. off[i] <= off[N]
        <5> DEFINE G == {n \in Nat : n < i \/ off[i] <= off[n]}
        <5>1. 0 \in G
          BY <3>2
        <5>2. ASSUME NEW n \in 1 .. N, n - 1 \in G
              PROVE  n \in G
          <6>1. off[n] = off[n - 1] + Len(s[n]) /\ Len(s[n]) \in Nat /\ n - 1 \in 0 .. N /\ n \in 0 .. N
            BY <2>2, <2>3, <2>5
          <6>2. off[n] \in Nat /\ off[n - 1] \in Nat /\ off[i] \in Nat
            BY <2>5, <4>1, <6>1
          <6>3. n < i \/ n = i \/ off[i] <= off[n - 1]
            BY <2>2, <3>2, <5>2
          <6>4. QED
            BY <6>1, <6>2, <6>3
        <5>3. 0 .. N \subseteq G
          <6> HIDE DEF G
          <6>1. QED
            BY <2>2, <5>1, <5>2, InductionUpTo
        <5>4. N \in G
          BY <2>2, <5>3
        <5>5. QED
          BY <2>2, <3>2, <5>4
      <4>5. off[i] \in Nat /\ off[N] \in Nat
        BY <2>2, <2>5, <4>1
      <4>6. off[i - 1] + j \in 1 .. Len(a)
        BY <2>5, <4>3, <4>4, <4>5
      <4>7. QED
        BY <2>6, <4>1, <4>2, <4>6
    <3>3. QED
      BY <2>8, <3>1, <3>2
  <2>11. Places(new, u)
    BY <2>2, <2>5, <2>6, <2>7, <2>9, <2>10 DEF Places, b
  <2>12. QED
    BY <2>2, <2>11 DEF u
<1>3. Seq(S) \subseteq T
  <2> HIDE DEF T, S
  <2>1. QED
    BY <1>1, <1>2, SequenceInduction
<1>4. QED
  BY <1>3

\* Each element of the parts has its place, in their order, and there are no others.
LEMMA FlattenAt ==
  ASSUME NEW X, NEW t \in Seq(Seq(X))
  PROVE  /\ \A i \in 1 .. Len(t) : \A j \in 1 .. Len(t[i]) :
              At(t, i, j) \in 1 .. Len(FlattenSeq(t)) /\ FlattenSeq(t)[At(t, i, j)] = t[i][j]
         /\ \A p \in 1 .. Len(FlattenSeq(t)) : \E i \in 1 .. Len(t) : \E j \in 1 .. Len(t[i]) : p = At(t, i, j)
         /\ \A i, k \in 1 .. Len(t) : i < k =>
              \A j \in 1 .. Len(t[i]), l \in 1 .. Len(t[k]) : At(t, i, j) < At(t, k, l)
         /\ \A i \in 1 .. Len(t) : \A j, l \in 1 .. Len(t[i]) : At(t, i, j) = At(t, i, l) => j = l
<1> DEFINE off == CHOOSE f : Places(f, t)
           N == Len(t)
           s == FlattenSeq(t)
<1>1. Places(off, t)
  BY PlacesExist
<1>2. \A i, j : At(t, i, j) = off[i - 1] + j
  BY DEF At
<1> HIDE DEF off, s
<1>3. /\ off \in [0 .. N -> Nat] /\ off[0] = 0 /\ \A i \in 1 .. N : off[i] = off[i - 1] + Len(t[i])
      /\ Len(s) = off[N] /\ \A i \in 1 .. N : \A j \in 1 .. Len(t[i]) : s[off[i - 1] + j] = t[i][j]
  BY <1>1 DEF Places, s
<1>4. N \in Nat /\ \A i \in 1 .. N : Len(t[i]) \in Nat /\ i - 1 \in 0 .. N /\ i \in 0 .. N
  <2>1. \A i \in 1 .. N : t[i] \in Seq(X)
    <3> DEFINE S == Seq(X)
    <3>1. t \in Seq(S)
      OBVIOUS
    <3> HIDE DEF S
    <3>2. \A i \in 1 .. N : t[i] \in S
      BY <3>1
    <3>3. QED
      BY <3>2 DEF S
  <2>2. QED
    BY <2>1
<1> HIDE DEF N
<1>5. \A i, k \in 0 .. N : i <= k => off[i] <= off[k]
  <2>1. ASSUME NEW i \in 0 .. N
        PROVE  \A k \in 0 .. N : i <= k => off[i] <= off[k]
    <3> DEFINE G == {n \in Nat : i <= n => off[i] <= off[n]}
    <3>1. 0 \in G
      BY <1>3
    <3>2. ASSUME NEW n \in 1 .. N, n - 1 \in G
          PROVE  n \in G
      <4>1. off[n] = off[n - 1] + Len(t[n]) /\ Len(t[n]) \in Nat /\ off[n] \in Nat /\ off[n - 1] \in Nat /\ off[i] \in Nat
        BY <1>3, <1>4
      <4>2. i = n \/ (i <= n => i <= n - 1)
        OBVIOUS
      <4>3. QED
        BY <3>2, <4>1, <4>2
    <3>3. 0 .. N \subseteq G
      <4> HIDE DEF G
      <4>1. QED
        BY <1>4, <3>1, <3>2, InductionUpTo
    <3>4. QED
      BY <3>3
  <2>2. QED
    BY <2>1
<1>6. ASSUME NEW i \in 1 .. N, NEW j \in 1 .. Len(t[i])
      PROVE  At(t, i, j) \in 1 .. Len(s) /\ s[At(t, i, j)] = t[i][j]
  <2>1. off[i - 1] \in Nat /\ off[i] \in Nat /\ off[N] \in Nat /\ off[i] = off[i - 1] + Len(t[i]) /\ Len(t[i]) \in Nat
    BY <1>3, <1>4
  <2>2. off[i] <= off[N]
    BY <1>4, <1>5
  <2>3. off[i - 1] + j \in 1 .. off[N] /\ j \in 1 .. Len(t[i])
    BY ONLY <2>1, <2>2, j \in 1 .. Len(t[i])
  <2>4. s[off[i - 1] + j] = t[i][j]
    BY <1>3
  <2>5. QED
    BY <1>2, <1>3, <2>3, <2>4
<1>7. ASSUME NEW p \in 1 .. Len(s)
      PROVE  \E i \in 1 .. N : \E j \in 1 .. Len(t[i]) : p = At(t, i, j)
  <2> DEFINE G == {n \in Nat : p <= off[n] => \E i \in 1 .. N : \E j \in 1 .. Len(t[i]) : p = off[i - 1] + j}
  <2>1. 0 \in G
    BY <1>3
  <2>2. ASSUME NEW n \in 1 .. N, n - 1 \in G
        PROVE  n \in G
    <3>1. off[n] = off[n - 1] + Len(t[n]) /\ Len(t[n]) \in Nat /\ off[n] \in Nat /\ off[n - 1] \in Nat
      BY <1>3, <1>4
    <3>2. CASE p <= off[n - 1]
      BY <2>2, <3>2
    <3>3. CASE ~ (p <= off[n - 1]) /\ p <= off[n]
      <4>1. p - off[n - 1] \in 1 .. Len(t[n]) /\ p = off[n - 1] + (p - off[n - 1])
        BY <3>1, <3>3
      <4>2. QED
        BY <4>1
    <3>4. QED
      BY <3>2, <3>3
  <2>3. 0 .. N \subseteq G
    <3> HIDE DEF G
    <3>1. QED
      BY <1>4, <2>1, <2>2, InductionUpTo
  <2>4. N \in G /\ p <= off[N]
    BY <1>3, <1>4, <2>3
  <2>5. QED
    BY <1>2, <2>4
<1>8. ASSUME NEW i \in 1 .. N, NEW k \in 1 .. N, i < k, NEW j \in 1 .. Len(t[i]), NEW l \in 1 .. Len(t[k])
      PROVE  At(t, i, j) < At(t, k, l)
  <2>1. i \in 0 .. N /\ k - 1 \in 0 .. N /\ i <= k - 1 /\ i - 1 \in 0 .. N
    BY <1>4, <1>8
  <2>2. off[i] <= off[k - 1]
    BY <1>5, <2>1
  <2>3. off[i - 1] \in Nat /\ off[i] \in Nat /\ off[k - 1] \in Nat /\ off[i] = off[i - 1] + Len(t[i]) /\ Len(t[i]) \in Nat
    BY <1>3, <1>4, <2>1
  <2>4. off[i - 1] + j < off[k - 1] + l
    <3>1. j \in 1 .. Len(t[i]) /\ l \in 1 .. Len(t[k])
      OBVIOUS
    <3>2. j \in Nat /\ j <= Len(t[i]) /\ l \in Nat /\ l >= 1
      BY ONLY <3>1, <1>4, i \in 1 .. N, k \in 1 .. N
    <3> DEFINE a == off[i - 1]
               b == off[k - 1]
               c == off[i]
               L == Len(t[i])
    <3>3. a \in Nat /\ b \in Nat /\ c \in Nat /\ L \in Nat /\ c = a + L /\ c <= b /\ j <= L
      BY <2>2, <2>3, <3>2
    <3> HIDE DEF a, b, c, L
    <3>4. a + j < b + l
      BY ONLY <3>2, <3>3
    <3>5. QED
      BY <3>4 DEF a, b
  <2>5. QED
    BY <1>2, <2>4
<1>9. ASSUME NEW i \in 1 .. N, NEW j \in 1 .. Len(t[i]), NEW l \in 1 .. Len(t[i]), At(t, i, j) = At(t, i, l)
      PROVE  j = l
  <2>a. i - 1 \in 0 .. N /\ At(t, i, j) = off[i - 1] + j /\ At(t, i, l) = off[i - 1] + l
    BY <1>2, <1>4
  <2>1. off[i - 1] \in Nat /\ off[i - 1] + j = off[i - 1] + l
    BY <1>3, <1>9, <2>a
  <2>2. j \in Int /\ l \in Int
    OBVIOUS
  <2>3. QED
    BY ONLY <2>1, <2>2
<1>10. QED
  BY <1>6, <1>7, <1>8, <1>9 DEF N, s

-----------------------------------------------------------------------------
(* The calls of a valid request *)

CallLists(ms) == [i \in DOMAIN ms |-> ms[i].calls]

\* The calls of a request are those of its messages.
LEMMA CallsOfMessages ==
  ASSUME NEW ms \in Seq(Message)
  PROVE  /\ Len(ms) \in Nat /\ DOMAIN ms = 1 .. Len(ms) /\ \A i \in 1 .. Len(ms) : ms[i] \in Message
         /\ \A i \in 1 .. Len(ms) : ms[i].calls \in Seq(Call) /\ Len(ms[i].calls) \in Nat
         /\ CallLists(ms) \in Seq(Seq(Call)) /\ Len(CallLists(ms)) = Len(ms)
         /\ \A i \in 1 .. Len(ms) : CallLists(ms)[i] = ms[i].calls
         /\ CallsOf(ms) = FlattenSeq(CallLists(ms)) /\ CallsOf(ms) \in Seq(Call)
<1>1. Len(ms) \in Nat /\ DOMAIN ms = 1 .. Len(ms) /\ \A i \in 1 .. Len(ms) : ms[i] \in Message
  <2> HIDE DEF Message
  <2>1. QED
    OBVIOUS
<1>2. \A i \in 1 .. Len(ms) : ms[i].calls \in Seq(Call)
  BY <1>1, FieldsOfMessages
<1> HIDE DEF Call
<1>3. \A i \in 1 .. Len(ms) : Len(ms[i].calls) \in Nat
  BY <1>2
<1>4. CallLists(ms) = [i \in 1 .. Len(ms) |-> ms[i].calls]
  BY <1>1 DEF CallLists
<1> DEFINE S == Seq(Call)
<1>5. \A i \in 1 .. Len(ms) : ms[i].calls \in S
  BY <1>2
<1> HIDE DEF S
<1>6. CallLists(ms) \in Seq(S) /\ Len(CallLists(ms)) = Len(ms) /\ \A i \in 1 .. Len(ms) : CallLists(ms)[i] = ms[i].calls
  BY <1>1, <1>4, <1>5
<1>7. CallsOf(ms) = FlattenSeq(CallLists(ms))
  BY DEF CallsOf, CallLists
<1>8. FlattenSeq(CallLists(ms)) \in Seq(Call)
  BY <1>6, FlattenGrows DEF S
<1>9. QED
  BY <1>1, <1>2, <1>3, <1>6, <1>7, <1>8 DEF S

\* Each of them stands at a place of its own.
LEMMA CallsHavePlaces ==
  ASSUME NEW ms \in Seq(Message)
  PROVE  LET cs == CallsOf(ms)
             at(i, a) == At(CallLists(ms), i, a)
         IN  /\ DOMAIN cs = 1 .. Len(cs)
             /\ \A i \in 1 .. Len(ms) : \A a \in 1 .. Len(ms[i].calls) :
                  at(i, a) \in DOMAIN cs /\ cs[at(i, a)] = ms[i].calls[a]
             /\ \A p \in DOMAIN cs : \E i \in 1 .. Len(ms) : \E a \in 1 .. Len(ms[i].calls) : p = at(i, a)
             /\ \A i, k \in 1 .. Len(ms) : \A a \in 1 .. Len(ms[i].calls), b \in 1 .. Len(ms[k].calls) :
                  at(i, a) = at(k, b) => i = k /\ a = b
<1> DEFINE t == CallLists(ms)
           cs == CallsOf(ms)
           N == Len(ms)
           at(i, a) == At(t, i, a)
<1>1. /\ t \in Seq(Seq(Call)) /\ Len(t) = N /\ N \in Nat /\ \A i \in 1 .. N : t[i] = ms[i].calls
      /\ cs = FlattenSeq(t) /\ cs \in Seq(Call)
  BY CallsOfMessages
<1> HIDE DEF t, cs, Call
<1>2. DOMAIN cs = 1 .. Len(cs)
  BY <1>1
<1>3. /\ \A i \in 1 .. Len(t) : \A j \in 1 .. Len(t[i]) : At(t, i, j) \in 1 .. Len(FlattenSeq(t)) /\ FlattenSeq(t)[At(t, i, j)] = t[i][j]
      /\ \A p \in 1 .. Len(FlattenSeq(t)) : \E i \in 1 .. Len(t) : \E j \in 1 .. Len(t[i]) : p = At(t, i, j)
      /\ \A i, k \in 1 .. Len(t) : i < k => \A j \in 1 .. Len(t[i]), l \in 1 .. Len(t[k]) : At(t, i, j) < At(t, k, l)
      /\ \A i \in 1 .. Len(t) : \A j, l \in 1 .. Len(t[i]) : At(t, i, j) = At(t, i, l) => j = l
  BY <1>1, FlattenAt
<1> HIDE DEF N
<1>4. \A i \in 1 .. N : \A a \in 1 .. Len(ms[i].calls) : at(i, a) \in DOMAIN cs /\ cs[at(i, a)] = ms[i].calls[a]
  BY <1>1, <1>2, <1>3
<1>5. \A p \in DOMAIN cs : \E i \in 1 .. N : \E a \in 1 .. Len(ms[i].calls) : p = at(i, a)
  <2>1. ASSUME NEW p \in DOMAIN cs
        PROVE  \E i \in 1 .. N : \E a \in 1 .. Len(ms[i].calls) : p = at(i, a)
    <3>1. PICK i \in 1 .. Len(t) : \E j \in 1 .. Len(t[i]) : p = At(t, i, j)
      BY <1>1, <1>2, <1>3
    <3>2. i \in 1 .. N /\ t[i] = ms[i].calls
      BY <1>1
    <3>3. QED
      BY <3>1, <3>2
  <2>2. QED
    BY <2>1
<1>6. ASSUME NEW i \in 1 .. N, NEW k \in 1 .. N, NEW a \in 1 .. Len(ms[i].calls), NEW b \in 1 .. Len(ms[k].calls),
             at(i, a) = at(k, b)
      PROVE  i = k /\ a = b
  <2>1. at(i, a) \in Int /\ at(k, b) \in Int
    BY <1>2, <1>4
  <2>2. t[i] = ms[i].calls /\ t[k] = ms[k].calls /\ i \in 1 .. Len(t) /\ k \in 1 .. Len(t)
    BY <1>1
  <2>3. ~ (i < k)
    <3>1. i < k => at(i, a) < at(k, b)
      BY <1>3, <2>2
    <3>2. QED
      BY <1>6, <2>1, <3>1
  <2>4. ~ (k < i)
    <3>1. k < i => at(k, b) < at(i, a)
      BY <1>3, <2>2
    <3>2. QED
      BY <1>6, <2>1, <3>1
  <2>5. i = k
    BY <1>1, <2>3, <2>4
  <2>6. a = b
    BY <1>3, <1>6, <2>2, <2>5
  <2>7. QED
    BY <2>5, <2>6
<1>7. QED
  BY <1>2, <1>4, <1>5, <1>6 DEF t, cs, N

\* As a set.
LEMMA CallsAsSet ==
  ASSUME NEW ms \in Seq(Message), NEW c
  PROVE  c \in ToSet(CallsOf(ms)) <=> \E i \in 1 .. Len(ms) : \E a \in 1 .. Len(ms[i].calls) : c = ms[i].calls[a]
<1> DEFINE cs == CallsOf(ms)
           at(i, a) == At(CallLists(ms), i, a)
<1>1. /\ \A i \in 1 .. Len(ms) : \A a \in 1 .. Len(ms[i].calls) : at(i, a) \in DOMAIN cs /\ cs[at(i, a)] = ms[i].calls[a]
      /\ \A p \in DOMAIN cs : \E i \in 1 .. Len(ms) : \E a \in 1 .. Len(ms[i].calls) : p = at(i, a)
  BY CallsHavePlaces
<1> HIDE DEF cs, at
<1>2. ToSet(cs) = {cs[p] : p \in DOMAIN cs}
  BY DEF ToSet
<1>3. ASSUME c \in ToSet(cs)
      PROVE  \E i \in 1 .. Len(ms) : \E a \in 1 .. Len(ms[i].calls) : c = ms[i].calls[a]
  <2>1. PICK p \in DOMAIN cs : c = cs[p]
    BY <1>2, <1>3
  <2>2. PICK i \in 1 .. Len(ms) : \E a \in 1 .. Len(ms[i].calls) : p = at(i, a)
    BY <1>1
  <2>3. PICK a \in 1 .. Len(ms[i].calls) : p = at(i, a)
    BY <2>2
  <2>4. QED
    BY <1>1, <2>1, <2>3
<1>4. ASSUME NEW i \in 1 .. Len(ms), NEW a \in 1 .. Len(ms[i].calls), c = ms[i].calls[a]
      PROVE  c \in ToSet(cs)
  BY <1>1, <1>2, <1>4
<1>5. QED
  BY <1>3, <1>4 DEF cs

\* No two calls of a valid request share an identity.
LEMMA CallsDiffer ==
  ASSUME NEW ms \in Seq(Message), ValidRequest(ms),
         NEW i \in 1 .. Len(ms), NEW k \in 1 .. Len(ms),
         NEW a \in 1 .. Len(ms[i].calls), NEW b \in 1 .. Len(ms[k].calls),
         ms[i].calls[a].id = ms[k].calls[b].id \/ ms[i].calls[a].provider = ms[k].calls[b].provider
  PROVE  i = k /\ a = b
<1> DEFINE cs == CallsOf(ms)
           at(j, c) == At(CallLists(ms), j, c)
<1>1. /\ \A j \in 1 .. Len(ms) : \A c \in 1 .. Len(ms[j].calls) : at(j, c) \in DOMAIN cs /\ cs[at(j, c)] = ms[j].calls[c]
      /\ at(i, a) = at(k, b) => i = k /\ a = b
  BY CallsHavePlaces
<1>2. /\ \A p, q \in DOMAIN cs : cs[p].id = cs[q].id => p = q
      /\ \A p, q \in DOMAIN cs : cs[p].provider = cs[q].provider => p = q
  BY DEF ValidRequest, Different
<1> HIDE DEF cs, at
<1>3. at(i, a) = at(k, b)
  BY <1>1, <1>2
<1>4. QED
  BY <1>1, <1>3

\* The calls that were passed before a message, and the identities that are known there.
LEMMA PassedCalls ==
  ASSUME NEW ms \in Seq(Message), NEW n \in 1 .. Len(ms)
  PROVE  \A c : c \in ToSet(CallsOf(SubSeq(ms, 1, n))) <=>
                  \E i \in 1 .. n : \E a \in 1 .. Len(ms[i].calls) : c = ms[i].calls[a]
<1> DEFINE part == SubSeq(ms, 1, n)
<1>1. part \in Seq(Message) /\ Len(part) = n /\ \A i \in 1 .. n : part[i] = ms[i]
  <2> HIDE DEF Message
  <2>1. QED
    OBVIOUS
<1> HIDE DEF part
<1>2. ASSUME NEW c
      PROVE  c \in ToSet(CallsOf(part)) <=> \E i \in 1 .. n : \E a \in 1 .. Len(ms[i].calls) : c = ms[i].calls[a]
  <2>1. c \in ToSet(CallsOf(part)) <=> \E i \in 1 .. Len(part) : \E a \in 1 .. Len(part[i].calls) : c = part[i].calls[a]
    BY <1>1, CallsAsSet
  <2>2. QED
    BY <1>1, <2>1
<1>3. QED
  BY <1>2 DEF part

\* The identities of the Provider's that are known at a message.
LEMMA IdsAre ==
  ASSUME NEW ms \in Seq(Message), ValidRequest(ms), NEW n \in 1 .. Len(ms)
  PROVE  /\ \A i \in 1 .. n : \A a \in 1 .. Len(ms[i].calls) :
              IdsOf(ms, n)[ms[i].calls[a].id] = ms[i].calls[a].provider
         /\ \A id : id \in DOMAIN IdsOf(ms, n) <=> \E i \in 1 .. n : \E a \in 1 .. Len(ms[i].calls) : id = ms[i].calls[a].id
         /\ DOMAIN IdsOf(ms, n) = Known(ms, n)
<1> DEFINE cs == CallsOf(SubSeq(ms, 1, n))
           ids == {c.id : c \in ToSet(cs)}
           of(id) == CHOOSE c \in ToSet(cs) : c.id = id
<1>1. \A c : c \in ToSet(cs) <=> \E i \in 1 .. n : \E a \in 1 .. Len(ms[i].calls) : c = ms[i].calls[a]
  BY PassedCalls
<1>2. IdsOf(ms, n) = [id \in ids |-> of(id).provider] /\ Known(ms, n) = ids
  BY DEF IdsOf, Known
<1>3. Len(ms) \in Nat /\ \A i \in 1 .. n : i \in 1 .. Len(ms)
  BY CallsOfMessages
<1> HIDE DEF cs
<1>4. ASSUME NEW i \in 1 .. n, NEW a \in 1 .. Len(ms[i].calls)
      PROVE  IdsOf(ms, n)[ms[i].calls[a].id] = ms[i].calls[a].provider
  <2> DEFINE c == ms[i].calls[a]
  <2>1. c \in ToSet(cs)
    BY <1>1
  <2>2. of(c.id) \in ToSet(cs) /\ of(c.id).id = c.id
    BY <2>1
  <2>a. PICK k \in 1 .. n : \E b \in 1 .. Len(ms[k].calls) : of(c.id) = ms[k].calls[b]
    BY <1>1, <2>2
  <2>3. PICK b \in 1 .. Len(ms[k].calls) : of(c.id) = ms[k].calls[b]
    BY <2>a
  <2>4. k = i /\ b = a
    <3>1. ms[k].calls[b].id = ms[i].calls[a].id
      BY <2>2, <2>3
    <3>2. QED
      BY <1>3, <3>1, CallsDiffer
  <2>5. of(c.id) = c
    BY <2>3, <2>4
  <2>6. c.id \in ids
    BY <2>1
  <2> HIDE DEF c, of, ids
  <2>7. IdsOf(ms, n)[c.id] = c.provider
    BY <1>2, <2>5, <2>6
  <2>8. QED
    BY <2>7 DEF c
<1>5. ASSUME NEW id
      PROVE  id \in ids <=> \E i \in 1 .. n : \E a \in 1 .. Len(ms[i].calls) : id = ms[i].calls[a].id
  BY <1>1
<1> HIDE DEF of, ids
<1>6. DOMAIN IdsOf(ms, n) = ids
  BY <1>2
<1>7. QED
  BY <1>2, <1>4, <1>5, <1>6

\* Which messages carry a result.
LEMMA RolesOfMessages ==
  ASSUME NEW m \in Message
  PROVE  /\ m.role \in {"system", "user", "assistant", "tool"}
         /\ m.role = "tool" <=> m.result # Nothing
<1>1. CASE m \in Fixed
  <2>1. m.role \in {"system", "user"} /\ m.result = Nothing
    BY <1>1 DEF Fixed
  <2>2. QED
    BY <2>1
<1>2. CASE m \in Answer
  <2>1. m.role = "assistant" /\ m.result = Nothing
    BY <1>2 DEF Answer
  <2>2. QED
    BY <2>1
<1>3. CASE m \in Outcome
  <2>1. m.role = "tool" /\ m.result \in [id : Nat, size : Nat]
    BY <1>3 DEF Outcome
  <2>2. m.result # Nothing
    BY <2>1, ContextAssumption
  <2>3. QED
    BY <2>1, <2>2
<1>4. QED
  BY <1>1, <1>2, <1>3 DEF Message

-----------------------------------------------------------------------------
(* The items of a translated request *)

TextsOf(m) == IF m.text > 0 THEN 1 ELSE 0
ItemLists(ms) == [i \in DOMAIN ms |-> MessageItems(ms[i], IdsOf(ms, i))]
CallAt(ms, i, a) == At(ItemLists(ms), i, TextsOf(ms[i]) + a)
ResultAt(ms, i) == At(ItemLists(ms), i, 1)

\* The items of a message: perhaps a text, then its calls, or its result.
HasItems(m, ids, t) ==
  LET h == TextsOf(m)
      n == Len(m.calls)
  IN  /\ t \in Seq({t[j] : j \in DOMAIN t})
      /\ m.role = "tool" => Len(t) = 1 /\ t[1] = ResultItem(ProviderOf(ids, m.result.id), m.result)
      /\ n \in Nat /\ h \in {0, 1}
      /\ \A a \in 1 .. n :
           h + a \in 1 .. Len(t) /\ t[h + a] = CallItem(m.calls[a], SentName(m.calls[a].name))
      /\ \A j \in 1 .. Len(t) :
           t[j] = TextItem(m) \/ (j = 1 /\ m.role = "tool") \/ \E a \in 1 .. n : j = h + a

\* Every message is translated to such items.
LEMMA ItemsOfMessage ==
  ASSUME NEW m \in Message, NEW ids
  PROVE  HasItems(m, ids, MessageItems(m, ids))
<1> DEFINE t == MessageItems(m, ids)
           h == TextsOf(m)
           n == Len(m.calls)
           text == <<TextItem(m)>>
           item == ResultItem(ProviderOf(ids, m.result.id), m.result)
           f(a) == CallItem(m.calls[a], SentName(m.calls[a].name))
           calls == [i \in DOMAIN m.calls |-> f(i)]
           begin == IF m.text > 0 THEN text ELSE <<>>
           all == begin \o calls
           Y == {TextItem(m)} \cup {f(i) : i \in DOMAIN m.calls}
<1>1. m.calls \in Seq(Call) /\ (m.role = "tool" => m.calls = <<>>)
  BY FieldsOfMessages
<1>2. n \in Nat /\ DOMAIN m.calls = 1 .. n /\ h \in {0, 1}
  <2> HIDE DEF Call
  <2>1. QED
    BY <1>1 DEF TextsOf
<1>3. CASE m.role \in {"system", "user"}
  <2>1. t = text
    BY <1>3 DEF MessageItems
  <2>2. m.calls = <<>>
    <3>1. m \in Fixed
      BY <1>3 DEF Message, Answer, Outcome
    <3>2. QED
      BY <3>1 DEF Fixed
  <2>3. text[1] = TextItem(m) /\ Len(text) = 1 /\ text \in Seq({text[j] : j \in DOMAIN text}) /\ n = 0
    BY <2>2
  <2> HIDE DEF text, t
  <2>4. QED
    BY <1>2, <1>3, <2>1, <2>3 DEF t, HasItems
<1>4. CASE m.role = "tool"
  <2>1. t = <<item>>
    BY <1>4, Zenon DEF MessageItems
  <2>2. n = 0
    BY <1>1, <1>4
  <2> HIDE DEF item
  <2>3. Len(t) = 1 /\ t[1] = item /\ t \in Seq({t[j] : j \in DOMAIN t})
    BY <2>1
  <2> HIDE DEF t, n
  <2>4. QED
    BY <1>2, <1>4, <2>2, <2>3 DEF t, n, item, HasItems
<1>5. CASE m.role = "assistant"
  <2>1. t = all
    BY <1>5, Zenon DEF MessageItems
  <2>2. begin \in Seq(Y) /\ Len(begin) = h /\ (h = 1 => begin[1] = TextItem(m))
    <3>1. text \in Seq(Y) /\ Len(text) = 1 /\ text[1] = TextItem(m)
      <4> DEFINE x == TextItem(m)
                 fs == {f(i) : i \in DOMAIN m.calls}
      <4> HIDE DEF x, fs
      <4>1. <<x>> \in Seq({x} \cup fs) /\ Len(<<x>>) = 1 /\ <<x>>[1] = x
        OBVIOUS
      <4>2. QED
        BY <4>1 DEF x, fs
    <3>2. <<>> \in Seq(Y) /\ Len(<<>>) = 0
      OBVIOUS
    <3> HIDE DEF text, Y
    <3>3. CASE m.text > 0
      <4>1. begin = text /\ h = 1
        BY <3>3 DEF TextsOf
      <4> HIDE DEF begin, h
      <4>2. QED
        BY <3>1, <4>1
    <3>4. CASE ~ (m.text > 0)
      <4>1. begin = <<>> /\ h = 0
        BY <3>4 DEF TextsOf
      <4> HIDE DEF begin, h
      <4>2. QED
        BY <3>2, <4>1
    <3>5. QED
      BY <3>3, <3>4
  <2> HIDE DEF begin, f, n, h, Y
  <2>3. calls \in Seq(Y) /\ Len(calls) = n /\ \A a \in 1 .. n : calls[a] = f(a)
    BY <1>2 DEF Y
  <2> HIDE DEF calls
  <2>4. /\ all \in Seq(Y) /\ Len(all) = Len(begin) + Len(calls)
        /\ \A i \in 1 .. Len(begin) + Len(calls) :
             all[i] = IF i <= Len(begin) THEN begin[i] ELSE calls[i - Len(begin)]
    BY <2>2, <2>3, ConcatProperties
  <2>5. Len(all) = h + n /\ \A i \in 1 .. h + n : all[i] = IF i <= h THEN begin[i] ELSE f(i - h)
    <3>1. Len(begin) = h /\ Len(calls) = n
      BY <2>2, <2>3
    <3>2. ASSUME NEW i \in 1 .. h + n, ~ (i <= h)
          PROVE  calls[i - h] = f(i - h)
      <4>1. i - h \in 1 .. n
        BY <1>2, <3>2
      <4>2. QED
        BY <2>3, <4>1
    <3> HIDE DEF all
    <3>3. QED
      BY <2>4, <3>1, <3>2
  <2> HIDE DEF all
  <2>6. t \in Seq({t[j] : j \in DOMAIN t})
    <3> DEFINE N == Len(all)
    <3>1. N \in Nat /\ DOMAIN all = 1 .. N /\ all = [i \in 1 .. N |-> all[i]]
      BY <2>4
    <3>2. QED
      BY <2>1, <3>1
  <2>7. \A a \in 1 .. n : h + a \in 1 .. h + n /\ all[h + a] = f(a)
    <3>1. ASSUME NEW a \in 1 .. n
          PROVE  h + a \in 1 .. h + n /\ all[h + a] = f(a)
      <4>1. h + a \in 1 .. h + n /\ ~ (h + a <= h) /\ (h + a) - h = a
        BY <1>2
      <4>2. all[h + a] = f((h + a) - h)
        BY <2>5, <4>1
      <4>3. QED
        BY <4>1, <4>2
    <3>2. QED
      BY <3>1
  <2>8. \A j \in 1 .. h + n : all[j] = TextItem(m) \/ \E a \in 1 .. n : j = h + a
    <3>1. ASSUME NEW j \in 1 .. h + n
          PROVE  all[j] = TextItem(m) \/ \E a \in 1 .. n : j = h + a
      <4>1. CASE j <= h
        <5>1. h = 1 /\ j = 1
          BY <1>2, <4>1
        <5>2. QED
          BY <2>2, <2>5, <4>1, <5>1
      <4>2. CASE ~ (j <= h)
        <5>1. j - h \in 1 .. n /\ j = h + (j - h)
          BY <1>2, <4>2
        <5>2. QED
          BY <5>1
      <4>3. QED
        BY <4>1, <4>2
    <3>2. QED
      BY <3>1
  <2>9. m.role # "tool"
    BY <1>5
  <2> HIDE DEF t
  <2>10. QED
    BY <1>2, <2>1, <2>5, <2>6, <2>7, <2>8, <2>9 DEF t, h, n, f, HasItems
<1>6. QED
  BY <1>3, <1>4, <1>5, RolesOfMessages

\* The kinds of items.
LEMMA ItemKinds ==
  /\ \A m : TextItem(m).kind = "text"
  /\ \A c, name : LET t == CallItem(c, name) IN
       t.kind = "call" /\ t.provider = c.provider /\ t.name = name /\ t.call = c.id
  /\ \A provider, r : LET t == ResultItem(provider, r) IN
       t.kind = "result" /\ t.provider = provider /\ t.call = r.id
BY DEF TextItem, CallItem, ResultItem

\* What a request is translated to: an item for each call and for each result, in their order.
LEMMA ItemsOfRequest ==
  ASSUME NEW ms \in Seq(Message)
  PROVE  LET s == Translated(ms) IN
         /\ DOMAIN s = 1 .. Len(s) /\ Len(s) \in Nat
         /\ \A i \in 1 .. Len(ms) : \A a \in 1 .. Len(ms[i].calls) :
              /\ CallAt(ms, i, a) \in DOMAIN s
              /\ s[CallAt(ms, i, a)] = CallItem(ms[i].calls[a], SentName(ms[i].calls[a].name))
         /\ \A i \in 1 .. Len(ms) : ms[i].role = "tool" =>
              /\ ResultAt(ms, i) \in DOMAIN s
              /\ s[ResultAt(ms, i)] = ResultItem(ProviderOf(IdsOf(ms, i), ms[i].result.id), ms[i].result)
         /\ \A p \in DOMAIN s : s[p].kind = "call" =>
              \E i \in 1 .. Len(ms) : \E a \in 1 .. Len(ms[i].calls) : p = CallAt(ms, i, a)
         /\ \A p \in DOMAIN s : s[p].kind = "result" =>
              \E i \in 1 .. Len(ms) : ms[i].role = "tool" /\ p = ResultAt(ms, i)
         /\ \A i, k \in 1 .. Len(ms) : i < k /\ ms[k].role = "tool" =>
              \A a \in 1 .. Len(ms[i].calls) : CallAt(ms, i, a) < ResultAt(ms, k)
<1> DEFINE t == ItemLists(ms)
           s == Translated(ms)
           N == Len(ms)
           X == UNION {{t[i][j] : j \in DOMAIN t[i]} : i \in 1 .. N}
           h(i) == TextsOf(ms[i])
           n(i) == Len(ms[i].calls)
<1>1. N \in Nat /\ DOMAIN ms = 1 .. N /\ \A i \in 1 .. N : ms[i] \in Message
  BY CallsOfMessages
<1>2. t = [i \in 1 .. N |-> MessageItems(ms[i], IdsOf(ms, i))] /\ s = FlattenSeq(t)
  BY <1>1 DEF ItemLists, Translated
<1> HIDE DEF t, s, N
<1>3. ASSUME NEW i \in 1 .. N
      PROVE  /\ t[i] \in Seq({t[i][j] : j \in DOMAIN t[i]})
             /\ ms[i].role = "tool" =>
                  Len(t[i]) = 1 /\ t[i][1] = ResultItem(ProviderOf(IdsOf(ms, i), ms[i].result.id), ms[i].result)
             /\ n(i) \in Nat /\ h(i) \in {0, 1}
             /\ \A a \in 1 .. n(i) :
                  h(i) + a \in 1 .. Len(t[i]) /\ t[i][h(i) + a] = CallItem(ms[i].calls[a], SentName(ms[i].calls[a].name))
             /\ \A j \in 1 .. Len(t[i]) :
                  t[i][j] = TextItem(ms[i]) \/ (j = 1 /\ ms[i].role = "tool") \/ \E a \in 1 .. n(i) : j = h(i) + a
  <2>1. t[i] = MessageItems(ms[i], IdsOf(ms, i)) /\ ms[i] \in Message
    BY <1>1, <1>2
  <2>2. HasItems(ms[i], IdsOf(ms, i), t[i])
    BY <2>1, ItemsOfMessage
  <2>3. QED
    BY <2>2, Zenon DEF HasItems
<1>4. t \in Seq(Seq(X)) /\ Len(t) = N /\ DOMAIN s = 1 .. Len(s) /\ Len(s) \in Nat
  <2>1. ASSUME NEW i \in 1 .. N
        PROVE  t[i] \in Seq(X)
    <3> DEFINE Z == {t[i][j] : j \in DOMAIN t[i]}
    <3>1. t[i] \in Seq(Z) /\ Z \subseteq X
      BY <1>3
    <3> HIDE DEF Z, X
    <3>2. QED
      BY <3>1
  <2> HIDE DEF X
  <2> DEFINE S == Seq(X)
  <2>2. \A i \in 1 .. N : t[i] \in S
    BY <2>1
  <2> HIDE DEF S
  <2>3. t \in Seq(S) /\ Len(t) = N
    BY <1>1, <1>2, <2>2
  <2>4. s \in Seq(X)
    BY <1>2, <2>3, FlattenGrows DEF S
  <2>5. QED
    BY <2>3, <2>4 DEF S
<1>5. /\ \A i \in 1 .. N : \A j \in 1 .. Len(t[i]) : At(t, i, j) \in DOMAIN s /\ s[At(t, i, j)] = t[i][j]
      /\ \A p \in DOMAIN s : \E i \in 1 .. N : \E j \in 1 .. Len(t[i]) : p = At(t, i, j)
      /\ \A i, k \in 1 .. N : i < k => \A j \in 1 .. Len(t[i]), l \in 1 .. Len(t[k]) : At(t, i, j) < At(t, k, l)
  <2> HIDE DEF X
  <2>1. /\ \A i \in 1 .. Len(t) : \A j \in 1 .. Len(t[i]) :
             At(t, i, j) \in 1 .. Len(FlattenSeq(t)) /\ FlattenSeq(t)[At(t, i, j)] = t[i][j]
        /\ \A p \in 1 .. Len(FlattenSeq(t)) : \E i \in 1 .. Len(t) : \E j \in 1 .. Len(t[i]) : p = At(t, i, j)
        /\ \A i, k \in 1 .. Len(t) : i < k =>
             \A j \in 1 .. Len(t[i]), l \in 1 .. Len(t[k]) : At(t, i, j) < At(t, k, l)
        /\ \A i \in 1 .. Len(t) : \A j, l \in 1 .. Len(t[i]) : At(t, i, j) = At(t, i, l) => j = l
    BY <1>4, FlattenAt
  <2>2. s = FlattenSeq(t) /\ Len(t) = N /\ DOMAIN s = 1 .. Len(s)
    BY <1>2, <1>4
  <2>3. QED
    BY ONLY <2>1, <2>2
<1> HIDE DEF X
<1>a. \A i \in 1 .. N : ms[i].role = "tool" =>
        1 \in 1 .. Len(t[i]) /\ t[i][1] = ResultItem(ProviderOf(IdsOf(ms, i), ms[i].result.id), ms[i].result)
  <2>1. \A i \in 1 .. N : ms[i].role = "tool" =>
          Len(t[i]) = 1 /\ t[i][1] = ResultItem(ProviderOf(IdsOf(ms, i), ms[i].result.id), ms[i].result)
    BY <1>3, Zenon
  <2>2. 1 \in 1 .. 1
    OBVIOUS
  <2>3. QED
    BY <2>1, <2>2, Zenon
<1>b. \A i \in 1 .. N : \A a \in 1 .. n(i) :
        h(i) + a \in 1 .. Len(t[i]) /\ t[i][h(i) + a] = CallItem(ms[i].calls[a], SentName(ms[i].calls[a].name))
  BY <1>3
<1>c. \A i \in 1 .. N : \A j \in 1 .. Len(t[i]) :
        t[i][j] = TextItem(ms[i]) \/ (j = 1 /\ ms[i].role = "tool") \/ \E a \in 1 .. n(i) : j = h(i) + a
  BY <1>3
<1> HIDE DEF h, n
<1>6. \A i, a : CallAt(ms, i, a) = At(t, i, h(i) + a) /\ ResultAt(ms, i) = At(t, i, 1)
  BY DEF CallAt, ResultAt, t, h
<1>7. \A i \in 1 .. N : \A a \in 1 .. n(i) :
        /\ CallAt(ms, i, a) \in DOMAIN s
        /\ s[CallAt(ms, i, a)] = CallItem(ms[i].calls[a], SentName(ms[i].calls[a].name))
  BY <1>b, <1>5, <1>6
<1>9. \A i \in 1 .. N : ms[i].role = "tool" =>
        /\ ResultAt(ms, i) \in DOMAIN s
        /\ s[ResultAt(ms, i)] = ResultItem(ProviderOf(IdsOf(ms, i), ms[i].result.id), ms[i].result)
  BY <1>a, <1>5, <1>6
<1>10. ASSUME NEW p \in DOMAIN s
       PROVE  /\ s[p].kind = "call" => \E i \in 1 .. N : \E a \in 1 .. n(i) : p = CallAt(ms, i, a)
              /\ s[p].kind = "result" => \E i \in 1 .. N : ms[i].role = "tool" /\ p = ResultAt(ms, i)
  <2>1. PICK i \in 1 .. N : \E j \in 1 .. Len(t[i]) : p = At(t, i, j)
    BY <1>5
  <2>2. PICK j \in 1 .. Len(t[i]) : p = At(t, i, j)
    BY <2>1
  <2>3. s[p] = t[i][j]
    BY <1>5, <2>2
  <2>4. CASE t[i][j] = TextItem(ms[i])
    <3>1. s[p].kind = "text"
      BY <2>3, <2>4, ItemKinds
    <3>2. QED
      BY <3>1
  <2>5. CASE j = 1 /\ ms[i].role = "tool"
    <3>1. p = ResultAt(ms, i)
      BY <1>6, <2>2, <2>5
    <3>2. s[p].kind = "result"
      BY <1>9, <2>5, <3>1, ItemKinds
    <3>3. QED
      BY <2>5, <3>1, <3>2
  <2>6. CASE \E a \in 1 .. n(i) : j = h(i) + a
    <3>1. PICK a \in 1 .. n(i) : j = h(i) + a
      BY <2>6
    <3>2. p = CallAt(ms, i, a)
      BY <1>6, <2>2, <3>1
    <3>3. s[p].kind = "call"
      BY <1>7, <3>2, ItemKinds
    <3>4. QED
      BY <3>2, <3>3
  <2>7. QED
    BY <1>c, <2>4, <2>5, <2>6
<1>11. ASSUME NEW i \in 1 .. N, NEW k \in 1 .. N, i < k, ms[k].role = "tool", NEW a \in 1 .. n(i)
       PROVE  CallAt(ms, i, a) < ResultAt(ms, k)
  BY <1>a, <1>b, <1>5, <1>6, <1>11
<1>12. QED
  BY <1>4, <1>7, <1>9, <1>10, <1>11 DEF s, n, N

-----------------------------------------------------------------------------
(* Results reach their calls *)

\* ResultsReachTheirCalls, of any items.
Reach(s) ==
  LET items(kind) == {i \in DOMAIN s : s[i].kind = kind} IN
    /\ \A i \in items("call") : Cardinality({j \in items("result") :
         j > i /\ s[j].provider = s[i].provider /\ s[j].call = s[i].call}) = 1
    /\ \A j \in items("result") : \E i \in items("call") : i < j /\ s[i].provider = s[j].provider
    /\ \A i, j \in items("call") : s[i].provider = s[j].provider => i = j

\* Only the model's messages have calls.
LEMMA CallersAreAnswers ==
  ASSUME NEW m \in Message, m.role # "assistant"
  PROVE  m.calls = <<>>
<1>1. m \in Fixed \/ m \in Outcome
  BY DEF Message, Answer
<1>2. QED
  BY <1>1 DEF Fixed, Outcome

\* In a complete request each call has its one result, behind it.
LEMMA CallsHaveResults ==
  ASSUME NEW ms \in Seq(Message), ValidRequest(ms), Complete(ms),
         NEW i \in 1 .. Len(ms), NEW a \in 1 .. Len(ms[i].calls)
  PROVE  \E k \in 1 .. Len(ms) :
           /\ i < k /\ ms[k].role = "tool" /\ ms[k].result.id = ms[i].calls[a].id
           /\ IdsOf(ms, k)[ms[k].result.id] = ms[i].calls[a].provider
           /\ \A l \in 1 .. Len(ms) : ms[l].role = "tool" /\ ms[l].result.id = ms[i].calls[a].id => l = k
<1> DEFINE N == Len(ms)
           n == Len(ms[i].calls)
           c == ms[i].calls[a]
<1>1. /\ N \in Nat /\ DOMAIN ms = 1 .. N /\ \A l \in 1 .. N : ms[l] \in Message
      /\ n \in Nat /\ ms[i].calls \in Seq(Call)
  BY CallsOfMessages
<1>2. ms[i].role = "assistant"
  <2>1. ms[i].calls # <<>>
    BY <1>1
  <2>2. QED
    BY <1>1, <2>1, CallersAreAnswers
<1>3. /\ i + n <= N
      /\ \A j \in i + 1 .. i + n : ms[j].role = "tool"
      /\ {ms[j].result.id : j \in i + 1 .. i + n} = {x.id : x \in ToSet(ms[i].calls)}
  BY <1>1, <1>2, Zenon DEF Complete, AnsweredAt
<1>4. c \in ToSet(ms[i].calls)
  <2>1. DOMAIN ms[i].calls = 1 .. n
    <3> HIDE DEF Call
    <3>1. QED
      BY <1>1
  <2>2. QED
    BY <2>1 DEF ToSet
<1> HIDE DEF c, n, N
<1>5. PICK k \in i + 1 .. i + n : ms[k].result.id = c.id
  BY <1>3, <1>4
<1>6. k \in 1 .. N /\ i < k /\ ms[k].role = "tool" /\ i \in 1 .. k
  BY <1>1, <1>3, <1>5 DEF N
<1>7. IdsOf(ms, k)[c.id] = c.provider
  BY <1>6, IdsAre DEF c, N
<1>8. ASSUME NEW l \in 1 .. N, ms[l].role = "tool", ms[l].result.id = c.id
      PROVE  l = k
  <2>1. ms[l].result # Nothing /\ ms[k].result # Nothing
    BY <1>1, <1>6, <1>8, RolesOfMessages
  <2>2. l \in ResultsOf(ms) /\ k \in ResultsOf(ms)
    BY <1>1, <1>6, <2>1 DEF ResultsOf
  <2>3. \A u, v \in ResultsOf(ms) : ms[u].result.id = ms[v].result.id => u = v
    BY Zenon DEF ValidRequest
  <2>4. QED
    BY <1>5, <1>8, <2>2, <2>3
<1>9. QED
  BY <1>5, <1>6, <1>7, <1>8 DEF c, N

\* And each result has a call before it.
LEMMA ResultsHaveCalls ==
  ASSUME NEW ms \in Seq(Message), ValidRequest(ms), NEW k \in 1 .. Len(ms), ms[k].role = "tool"
  PROVE  \E i \in 1 .. Len(ms) : \E a \in 1 .. Len(ms[i].calls) :
           /\ i < k /\ ms[k].result.id = ms[i].calls[a].id
           /\ IdsOf(ms, k)[ms[k].result.id] = ms[i].calls[a].provider
<1> DEFINE N == Len(ms)
<1>1. N \in Nat /\ DOMAIN ms = 1 .. N /\ ms[k] \in Message
  BY CallsOfMessages
<1>2. ms[k].result # Nothing /\ ms[k].calls = <<>>
  BY <1>1, RolesOfMessages, CallersAreAnswers
<1>3. ms[k].result.id \in Known(ms, k)
  <2>1. k \in ResultsOf(ms)
    BY <1>1, <1>2 DEF ResultsOf
  <2>2. \A i \in ResultsOf(ms) : ms[i].result.id \in Known(ms, i)
    BY Zenon DEF ValidRequest
  <2>3. QED
    BY <2>1, <2>2
<1>4. PICK i \in 1 .. k : \E a \in 1 .. Len(ms[i].calls) : ms[k].result.id = ms[i].calls[a].id
  <2>1. \A id : id \in DOMAIN IdsOf(ms, k) <=> \E i \in 1 .. k : \E a \in 1 .. Len(ms[i].calls) : id = ms[i].calls[a].id
    BY IdsAre
  <2>2. DOMAIN IdsOf(ms, k) = Known(ms, k)
    BY IdsAre
  <2>3. QED
    BY <1>3, <2>1, <2>2
<1>5. PICK a \in 1 .. Len(ms[i].calls) : ms[k].result.id = ms[i].calls[a].id
  BY <1>4
<1>6. i # k
  BY <1>2, <1>5
<1>7. i \in 1 .. N /\ i < k
  BY <1>1, <1>6
<1>8. IdsOf(ms, k)[ms[i].calls[a].id] = ms[i].calls[a].provider
  BY IdsAre
<1>9. QED
  BY <1>5, <1>7, <1>8

\* What a complete request is translated to lets every result reach its call.
LEMMA ResultsReach ==
  ASSUME NEW ms \in Seq(Message), ValidRequest(ms), Complete(ms)
  PROVE  Reach(Translated(ms))
<1> DEFINE s == Translated(ms)
           N == Len(ms)
           items(kind) == {i \in DOMAIN s : s[i].kind = kind}
           n(i) == Len(ms[i].calls)
           c(i, a) == ms[i].calls[a]
           p(i, a) == CallAt(ms, i, a)
           q(k) == ResultAt(ms, k)
<1>1. /\ DOMAIN s = 1 .. Len(s) /\ Len(s) \in Nat
      /\ \A i \in 1 .. N : \A a \in 1 .. n(i) :
           p(i, a) \in DOMAIN s /\ s[p(i, a)] = CallItem(c(i, a), SentName(c(i, a).name))
      /\ \A k \in 1 .. N : ms[k].role = "tool" =>
           q(k) \in DOMAIN s /\ s[q(k)] = ResultItem(ProviderOf(IdsOf(ms, k), ms[k].result.id), ms[k].result)
      /\ \A j \in DOMAIN s : s[j].kind = "call" => \E i \in 1 .. N : \E a \in 1 .. n(i) : j = p(i, a)
      /\ \A j \in DOMAIN s : s[j].kind = "result" => \E k \in 1 .. N : ms[k].role = "tool" /\ j = q(k)
      /\ \A i, k \in 1 .. N : i < k /\ ms[k].role = "tool" => \A a \in 1 .. n(i) : p(i, a) < q(k)
  BY ItemsOfRequest
<1>2. \A i \in 1 .. N : \A a \in 1 .. n(i) :
        \E k \in 1 .. N :
           /\ i < k /\ ms[k].role = "tool" /\ ms[k].result.id = c(i, a).id
           /\ IdsOf(ms, k)[ms[k].result.id] = c(i, a).provider
           /\ \A l \in 1 .. N : ms[l].role = "tool" /\ ms[l].result.id = c(i, a).id => l = k
  BY CallsHaveResults
<1>3. \A k \in 1 .. N : ms[k].role = "tool" =>
        \E i \in 1 .. N : \E a \in 1 .. n(i) :
           /\ i < k /\ ms[k].result.id = c(i, a).id
           /\ IdsOf(ms, k)[ms[k].result.id] = c(i, a).provider
  BY ResultsHaveCalls
<1>4. \A i, k \in 1 .. N : \A a \in 1 .. n(i), b \in 1 .. n(k) : c(i, a).provider = c(k, b).provider => i = k /\ a = b
  BY CallsDiffer
<1> HIDE DEF s, N, n, c, p, q
<1>5. \A i \in 1 .. N : \A a \in 1 .. n(i) :
        /\ p(i, a) \in items("call")
        /\ s[p(i, a)].provider = c(i, a).provider /\ s[p(i, a)].call = c(i, a).id
  BY <1>1, ItemKinds
<1>6. \A k \in 1 .. N : ms[k].role = "tool" =>
        /\ q(k) \in items("result")
        /\ s[q(k)].provider = IdsOf(ms, k)[ms[k].result.id] /\ s[q(k)].call = ms[k].result.id
  BY <1>1, ItemKinds DEF ProviderOf
<1>7. \A j \in items("call") : \E i \in 1 .. N : \E a \in 1 .. n(i) : j = p(i, a)
  BY <1>1
<1>8. \A j \in items("result") : \E k \in 1 .. N : ms[k].role = "tool" /\ j = q(k)
  BY <1>1
<1> HIDE DEF items
<1>9. ASSUME NEW x \in items("call")
      PROVE  Cardinality({j \in items("result") :
               j > x /\ s[j].provider = s[x].provider /\ s[j].call = s[x].call}) = 1
  <2> DEFINE R == {j \in items("result") : j > x /\ s[j].provider = s[x].provider /\ s[j].call = s[x].call}
  <2>1. PICK i \in 1 .. N : \E a \in 1 .. n(i) : x = p(i, a)
    BY <1>7
  <2>2. PICK a \in 1 .. n(i) : x = p(i, a)
    BY <2>1
  <2>3. s[x].provider = c(i, a).provider /\ s[x].call = c(i, a).id
    BY <1>5, <2>2
  <2>4. PICK k \in 1 .. N :
           /\ i < k /\ ms[k].role = "tool" /\ ms[k].result.id = c(i, a).id
           /\ IdsOf(ms, k)[ms[k].result.id] = c(i, a).provider
           /\ \A l \in 1 .. N : ms[l].role = "tool" /\ ms[l].result.id = c(i, a).id => l = k
    BY <1>2
  <2>5. x < q(k)
    BY <1>1, <2>2, <2>4
  <2>a. x \in Int /\ \A j \in items("result") : j \in Int
    <3>1. \A j \in DOMAIN s : j \in Int
      BY <1>1
    <3>2. QED
      BY <3>1 DEF items
  <2>6. q(k) \in R
    BY <1>6, <2>3, <2>4, <2>5, <2>a
  <2>7. ASSUME NEW j \in R
        PROVE  j = q(k)
    <3>1. PICK l \in 1 .. N : ms[l].role = "tool" /\ j = q(l)
      BY <1>8
    <3>2. ms[l].result.id = c(i, a).id
      BY <1>6, <2>3, <3>1
    <3>3. QED
      BY <2>4, <3>1, <3>2
  <2>8. R = {q(k)}
    BY <2>6, <2>7
  <2>9. QED
    BY <2>8, FS_Singleton
<1>10. ASSUME NEW j \in items("result")
       PROVE  \E x \in items("call") : x < j /\ s[x].provider = s[j].provider
  <2>1. PICK k \in 1 .. N : ms[k].role = "tool" /\ j = q(k)
    BY <1>8
  <2>2. PICK i \in 1 .. N : \E a \in 1 .. n(i) :
          i < k /\ ms[k].result.id = c(i, a).id /\ IdsOf(ms, k)[ms[k].result.id] = c(i, a).provider
    BY <1>3, <2>1
  <2>3. PICK a \in 1 .. n(i) :
          i < k /\ ms[k].result.id = c(i, a).id /\ IdsOf(ms, k)[ms[k].result.id] = c(i, a).provider
    BY <2>2
  <2>4. p(i, a) \in items("call") /\ p(i, a) < j /\ s[p(i, a)].provider = c(i, a).provider
    BY <1>1, <1>5, <2>1, <2>3
  <2>5. s[j].provider = c(i, a).provider
    BY <1>6, <2>1, <2>3
  <2>6. QED
    BY <2>4, <2>5
<1>11. ASSUME NEW x \in items("call"), NEW y \in items("call"), s[x].provider = s[y].provider
       PROVE  x = y
  <2>1. PICK i \in 1 .. N : \E a \in 1 .. n(i) : x = p(i, a)
    BY <1>7
  <2>2. PICK a \in 1 .. n(i) : x = p(i, a)
    BY <2>1
  <2>3. PICK k \in 1 .. N : \E b \in 1 .. n(k) : y = p(k, b)
    BY <1>7
  <2>4. PICK b \in 1 .. n(k) : y = p(k, b)
    BY <2>3
  <2>5. c(i, a).provider = c(k, b).provider
    BY <1>5, <1>11, <2>2, <2>4
  <2>6. i = k /\ a = b
    BY <1>4, <2>5
  <2>7. QED
    BY <2>2, <2>4, <2>6
<1>12. Reach(s)
  BY <1>9, <1>10, <1>11 DEF Reach, items
<1>13. QED
  BY <1>12 DEF s

-----------------------------------------------------------------------------
(* What a request is made of *)

\* The elements of a concatenation are those of its parts.
LEMMA ElementsOfJoin ==
  ASSUME NEW X, NEW t \in Seq(Seq(X)), NEW x
  PROVE  x \in ToSet(FlattenSeq(t)) <=> \E i \in 1 .. Len(t) : x \in ToSet(t[i])
<1> DEFINE s == FlattenSeq(t)
           S == Seq(X)
<1>1. t \in Seq(S)
  OBVIOUS
<1>2. \A i \in 1 .. Len(t) : t[i] \in S
  <2> HIDE DEF S
  <2>1. QED
    BY <1>1
<1>3. s \in Seq(X)
  BY FlattenGrows
<1>4. /\ \A i \in 1 .. Len(t) : \A j \in 1 .. Len(t[i]) : At(t, i, j) \in 1 .. Len(s) /\ s[At(t, i, j)] = t[i][j]
      /\ \A p \in 1 .. Len(s) : \E i \in 1 .. Len(t) : \E j \in 1 .. Len(t[i]) : p = At(t, i, j)
      /\ \A i, k \in 1 .. Len(t) : i < k =>
           \A j \in 1 .. Len(t[i]), l \in 1 .. Len(t[k]) : At(t, i, j) < At(t, k, l)
      /\ \A i \in 1 .. Len(t) : \A j, l \in 1 .. Len(t[i]) : At(t, i, j) = At(t, i, l) => j = l
  BY FlattenAt
<1> HIDE DEF s
<1>5. /\ ToSet(s) = {s[p] : p \in 1 .. Len(s)}
      /\ \A i \in 1 .. Len(t) : ToSet(t[i]) = {t[i][j] : j \in 1 .. Len(t[i])}
  <2>1. DOMAIN s = 1 .. Len(s) /\ \A i \in 1 .. Len(t) : DOMAIN t[i] = 1 .. Len(t[i])
    BY <1>2, <1>3
  <2>2. QED
    BY <2>1 DEF ToSet
<1>6. ASSUME x \in ToSet(s)
      PROVE  \E i \in 1 .. Len(t) : x \in ToSet(t[i])
  <2>1. PICK p \in 1 .. Len(s) : x = s[p]
    BY <1>5, <1>6
  <2>2. PICK i \in 1 .. Len(t) : \E j \in 1 .. Len(t[i]) : p = At(t, i, j)
    BY <1>4
  <2>3. PICK j \in 1 .. Len(t[i]) : p = At(t, i, j)
    BY <2>2
  <2>4. x = t[i][j]
    BY <1>4, <2>1, <2>3
  <2>5. QED
    BY <1>5, <2>4
<1>7. ASSUME NEW i \in 1 .. Len(t), x \in ToSet(t[i])
      PROVE  x \in ToSet(s)
  <2>1. PICK j \in 1 .. Len(t[i]) : x = t[i][j]
    BY <1>5, <1>7
  <2>2. At(t, i, j) \in 1 .. Len(s) /\ s[At(t, i, j)] = x
    BY <1>4, <2>1
  <2>3. QED
    BY <1>5, <2>2
<1>8. QED
  BY <1>6, <1>7 DEF s

\* The calls of all the Events of a Run.
LEMMA CalledAre ==
  ASSUME NEW es \in Seq(RunEvent), NEW c
  PROVE  c \in ToSet(CallsIn(es)) <=> \E i \in 1 .. Len(es) : es[i].type = "model" /\ c \in ToSet(es[i].calls)
<1> DEFINE of(e) == IF e.type = "model" THEN e.calls ELSE <<>>
           t == [i \in DOMAIN es |-> of(es[i])]
           N == Len(es)
<1>1. N \in Nat /\ DOMAIN es = 1 .. N /\ \A i \in 1 .. N : es[i] \in RunEvent
  <2> HIDE DEF RunEvent
  <2>1. QED
    OBVIOUS
<1>2. \A i \in 1 .. N : of(es[i]) \in Seq(Call)
  BY <1>1, EventKinds DEF RunEvent
<1> HIDE DEF N, of, RunEvent
<1>3. t \in Seq(Seq(Call)) /\ Len(t) = N /\ \A i \in 1 .. N : t[i] = of(es[i])
  BY <1>1, <1>2
<1>4. CallsIn(es) = FlattenSeq(t)
  BY DEF CallsIn, of
<1> HIDE DEF t
<1>5. c \in ToSet(CallsIn(es)) <=> \E i \in 1 .. N : c \in ToSet(of(es[i]))
  BY <1>3, <1>4, ElementsOfJoin
<1>6. c \notin ToSet(<<>>)
  BY DEF ToSet
<1>7. \A i \in 1 .. N : c \in ToSet(of(es[i])) <=> es[i].type = "model" /\ c \in ToSet(es[i].calls)
  BY <1>6 DEF of
<1>8. QED
  BY <1>5, <1>7 DEF N

\* With the invariant: a request that was built is complete, has no calls but those of
\* the Run, and begins with its system messages.
LEMMA RequestIsHistory ==
  ASSUME RunInv, status = "ask"
  PROVE  LET ms == context.messages IN
           /\ ms \in Seq(Message) /\ ValidRequest(ms) /\ Complete(ms)
           /\ \A c \in ToSet(CallsOf(ms)) : c \in ToSet(Called)
           /\ \A i \in 2 .. Len(ms) : ms[i].role = "system" => ms[i - 1].role = "system"
<1> DEFINE ms == context.messages
           G == GroupsNow
           L == Len(G)
           d == Drop(G)
           n == L + 1 - d
           t == Pieces(G, d)
           rest == FlattenSeq(t)
<1>1. Closed /\ Fits(events, context)
  <2>1. HistoryInv(events) /\ History(events).current = NoGroup /\ context = Build(events) /\ context.error = Nothing
    BY DEF RunInv
  <2>2. QED
    BY <2>1, BuildIs DEF Closed
<1>2. Complete(ms) /\ ValidRequest(ms)
  <2>1. CallsAnswered /\ ContextTypeOK
    BY RequestsFollow DEF RequestsAreComplete
  <2>2. QED
    BY <2>1, Zenon DEF CallsAnswered, ContextTypeOK, Built, Complete, AnsweredAt
<1>3. /\ events \in Seq(RunEvent) /\ DOMAIN events = 1 .. Len(events)
      /\ G \in Seq(Group) /\ L \in Nat
      /\ \A k \in 1 .. L : Whole(events, G[k]) /\ HeadOf(k) \in 1 .. Len(events) /\ events[HeadOf(k)] \in ModelEvent
  BY <1>1, HeadsOfGroups
<1>4. d \in 1 .. L + 1 /\ ms = Messages(G, d)
  BY <1>1 DEF Fits, GroupsNow
<1>5. /\ t \in Seq(Seq(Message)) /\ Len(t) = n /\ ms = FixedMessages \o rest /\ ms \in Seq(Message)
      /\ \A j \in 1 .. n : t[j] = G[j + d - 1].messages
  <2>1. t \in Seq(Seq(Message)) /\ Len(t) = n /\ ms = FixedMessages \o rest /\ ms \in Seq(Message)
    BY <1>3, <1>4, RequestIsMessages
  <2>2. \A j \in 1 .. n : t[j] = G[j + d - 1].messages
    BY DEF Pieces
  <2>3. QED
    BY <2>1, <2>2
<1>6. n \in Nat /\ \A j \in 1 .. n : j + d - 1 \in 1 .. L
  BY <1>3, <1>4
<1> HIDE DEF ms, G, L, d, n, t
<1>7. \A j \in 1 .. n : t[j] \in WholeMessages /\ CallsOf(t[j]) = events[HeadOf(j + d - 1)].calls
  <2>1. ASSUME NEW j \in 1 .. n
        PROVE  t[j] \in WholeMessages /\ CallsOf(t[j]) = events[HeadOf(j + d - 1)].calls
    <3>1. j + d - 1 \in 1 .. L /\ t[j] = G[j + d - 1].messages
      BY <1>5, <1>6
    <3>2. CallsOf(G[j + d - 1].messages) = events[HeadOf(j + d - 1)].calls
      BY <1>1, <3>1, CharsOfGroup DEF G, L
    <3>3. G[j + d - 1].messages \in WholeMessages
      BY <1>3, <3>1, WholeGroups
    <3>4. QED
      BY <3>1, <3>2, <3>3
  <2>2. QED
    BY <2>1
<1>8. ASSUME NEW c \in ToSet(CallsOf(ms))
      PROVE  c \in ToSet(Called)
  <2>1. CallsOf(ms) = FlattenSeq(Each(CallsAsFunction, t))
    BY <1>5, RequestOfPieces
  <2>2. Gives(Seq(Message), Seq(Call), CallsAsFunction, t)
    BY <1>5, AsFunctions DEF Gives
  <2> DEFINE u == Each(CallsAsFunction, t)
  <2>3. u \in Seq(Seq(Call)) /\ Len(u) = n /\ \A j \in 1 .. n : u[j] = CallsAsFunction[t[j]]
    BY <1>5, <2>2, EachIs
  <2> HIDE DEF u
  <2>4. PICK j \in 1 .. n : c \in ToSet(u[j])
    BY <1>8, <2>1, <2>3, ElementsOfJoin DEF u
  <2>5. u[j] = events[HeadOf(j + d - 1)].calls
    <3>1. t[j] \in Seq(Message)
      BY <1>7 DEF WholeMessages
    <3>2. QED
      BY <1>7, <2>3, <3>1, AsFunctions
  <2>6. HeadOf(j + d - 1) \in 1 .. Len(events) /\ events[HeadOf(j + d - 1)].type = "model"
    BY <1>3, <1>6, EventKinds
  <2>7. c \in ToSet(CallsIn(events))
    BY <1>3, <2>4, <2>5, <2>6, CalledAre
  <2>8. QED
    BY <2>7, CalledIsCallsIn
<1>9. \A m \in ToSet(rest) : m.role # "system"
  <2>1. ASSUME NEW m \in ToSet(rest)
        PROVE  m.role # "system"
    <3>1. PICK j \in 1 .. n : m \in ToSet(t[j])
      BY <1>5, ElementsOfJoin
    <3> DEFINE w == t[j]
    <3>2. w \in Seq(Message) /\ w[1].role = "assistant" /\ \A l \in 2 .. Len(w) : w[l].role = "tool"
      BY <1>7 DEF WholeMessages
    <3> HIDE DEF w, Message
    <3>3. PICK l \in 1 .. Len(w) : m = w[l]
      BY <3>1, <3>2 DEF ToSet, w
    <3>4. l = 1 \/ l \in 2 .. Len(w)
      BY <3>2
    <3>5. QED
      BY <3>2, <3>3, <3>4
  <2>2. QED
    BY <2>1
<1>10. ASSUME NEW i \in 2 .. Len(ms), ms[i].role = "system"
       PROVE  ms[i - 1].role = "system"
  <2> DEFINE F == FixedMessages
  <2>1. rest \in Seq(Message) /\ F \in Seq(Message) /\ Len(F) = 3
    BY <1>5, FlattenGrows, FixedAreMessages
  <2>2. /\ F[1].role = "system" /\ F[2].role = "system" /\ F[3].role = "user"
    BY DEF FixedMessages
  <2> HIDE DEF rest, F, Message
  <2>3. /\ ms = F \o rest /\ Len(ms) = 3 + Len(rest) /\ Len(rest) \in Nat
        /\ ms[1] = F[1] /\ ms[2] = F[2] /\ ms[3] = F[3]
        /\ \A j \in 1 .. Len(rest) : ms[3 + j] = rest[j]
    <3> DEFINE all == F \o rest
    <3>1. /\ all \in Seq(Message) /\ Len(all) = Len(F) + Len(rest)
          /\ \A j \in 1 .. Len(F) + Len(rest) : all[j] = IF j <= Len(F) THEN F[j] ELSE rest[j - Len(F)]
      BY <2>1, ConcatProperties
    <3>2. Len(rest) \in Nat
      BY <2>1
    <3> HIDE DEF all
    <3>3. Len(all) = 3 + Len(rest) /\ all[1] = F[1] /\ all[2] = F[2] /\ all[3] = F[3]
      BY <2>1, <3>1, <3>2
    <3>4. ASSUME NEW j \in 1 .. Len(rest)
          PROVE  all[3 + j] = rest[j]
      <4>1. 3 + j \in 1 .. 3 + Len(rest) /\ ~ (3 + j <= 3) /\ (3 + j) - 3 = j
        BY <3>2
      <4>2. all[3 + j] = rest[(3 + j) - 3]
        BY <2>1, <3>1, <4>1
      <4>3. QED
        BY <4>1, <4>2
    <3>5. ms = all
      BY <1>5 DEF F, all
    <3>6. QED
      BY <3>2, <3>3, <3>4, <3>5 DEF all
  <2>4. CASE i > 3
    <3>1. i - 3 \in 1 .. Len(rest) /\ 3 + (i - 3) = i
      BY <2>3, <2>4
    <3>2. ms[i] = rest[i - 3]
      BY <2>3, <3>1
    <3>3. rest[i - 3] \in ToSet(rest)
      BY <2>1, <3>1 DEF ToSet
    <3>4. QED
      BY <1>9, <1>10, <3>2, <3>3
  <2>5. CASE i = 2
    BY <2>2, <2>3, <2>5
  <2>6. CASE i = 3
    BY <1>10, <2>2, <2>3, <2>6
  <2>7. i \in Int /\ i >= 2
    BY <2>3
  <2>8. QED
    BY <2>4, <2>5, <2>6, <2>7
<1>11. QED
  BY <1>2, <1>5, <1>8, <1>10 DEF ms

-----------------------------------------------------------------------------
(* The history reaches the Provider *)

\* NamesReadBack, of any items.
ReadBack(s) ==
  \A i \in {j \in DOMAIN s : s[j].kind = "call"} : \E c \in ToSet(Called) :
    c.id = s[i].call /\ c.name = IF adapter = "chat" THEN ToInternal(Offered, s[i].name) ELSE s[i].name

\* A name that is sent is read back as itself.
LEMMA NameComesBack ==
  ASSUME NEW name, HasName(name)
  PROVE  name = IF adapter = "chat" THEN ToInternal(Offered, SentName(name)) ELSE SentName(name)
<1>1. CASE adapter # "chat"
  BY <1>1 DEF SentName
<1>2. CASE adapter = "chat"
  <2> DEFINE map == InternalToWire(Offered)
             wire == SentName(name)
  <2>1. ListsNames(Offered)
    BY OfferedAssumption DEF ListsNames, Names
  <2>2. DOMAIN map = ToSet(Offered) /\ \A s, t \in ToSet(Offered) : map[s] = map[t] => s = t
    BY <2>1, WireNamesDiffer DEF NamesDiffer
  <2>3. name \in DOMAIN map /\ wire = map[name]
    BY <1>2 DEF HasName, SentName
  <2>4. ToInternal(Offered, wire) = IF wire \in Range(map) THEN CHOOSE n \in DOMAIN map : map[n] = wire ELSE wire
    BY DEF ToInternal
  <2> HIDE DEF map, wire
  <2>5. wire \in Range(map)
    BY <2>3 DEF Range
  <2>6. (CHOOSE n \in DOMAIN map : map[n] = wire) = name
    BY <2>2, <2>3
  <2>7. QED
    BY <1>2, <2>4, <2>5, <2>6 DEF wire
<1>3. QED
  BY <1>1, <1>2

\* Nothing that was called is forgotten.
LEMMA CalledStay ==
  ASSUME RunInv, RunInv', [NextRun]_runVars
  PROVE  \A c \in ToSet(Called) : c \in (ToSet(Called))'
<1>1. events \in Seq(RunEvent) /\ events' \in Seq(RunEvent)
  BY DEF RunInv, HistoryInv
<1>2. events' = events \/ \E x, y, z : events' = events \o <<x, y, z>>
  <2>1. CASE BuildContext
    BY <2>1 DEF BuildContext
  <2>2. CASE AskModel
    BY <2>2 DEF AskModel
  <2>3. CASE CallTool
    BY <2>3 DEF CallTool
  <2>4. CASE UNCHANGED events
    BY <2>4
  <2>5. QED
    BY <2>1, <2>2, <2>3, <2>4 DEF NextRun, Send, runVars, contextVars
<1>3. Len(events) \in Nat /\ \A i \in 1 .. Len(events) : i \in 1 .. Len(events') /\ events'[i] = events[i]
  <2>1. Len(events) \in Nat
    <3> HIDE DEF RunEvent
    <3>1. QED
      BY <1>1
  <2>2. ASSUME NEW x, NEW y, NEW z, events' = events \o <<x, y, z>>
        PROVE  \A i \in 1 .. Len(events) : i \in 1 .. Len(events') /\ events'[i] = events[i]
    <3> DEFINE X == RunEvent \cup {x, y, z}
               es == events
               more == <<x, y, z>>
               all == es \o more
    <3>1. es \in Seq(X) /\ more \in Seq(X) /\ Len(more) = 3
      <4> HIDE DEF RunEvent
      <4>1. QED
        BY <1>1
    <3> HIDE DEF X, more
    <3>2. /\ Len(all) = Len(es) + Len(more)
          /\ \A i \in 1 .. Len(es) + Len(more) : all[i] = IF i <= Len(es) THEN es[i] ELSE more[i - Len(es)]
      BY <3>1, ConcatProperties
    <3> HIDE DEF all, es
    <3>3. \A i \in 1 .. Len(es) : i \in 1 .. Len(all) /\ all[i] = es[i]
      BY <3>1, <3>2, <2>1 DEF es
    <3>4. QED
      BY <2>2, <3>3 DEF all, es, more
  <2>3. QED
    BY <1>2, <2>1, <2>2
<1>4. Called = CallsIn(events)
  BY CalledIsCallsIn
<1>5. Called' = CallsIn(events')
  <2>1. (Called = CallsIn(events))'
    BY CalledIsCallsIn, PTL
  <2>2. QED
    BY <2>1
<1>6. ASSUME NEW c \in ToSet(Called)
      PROVE  c \in (ToSet(Called))'
  <2> DEFINE es == events'
  <2>1. PICK i \in 1 .. Len(events) : events[i].type = "model" /\ c \in ToSet(events[i].calls)
    BY <1>1, <1>4, CalledAre
  <2>2. i \in 1 .. Len(es) /\ es[i].type = "model" /\ c \in ToSet(es[i].calls) /\ es \in Seq(RunEvent)
    BY <1>1, <1>3, <2>1
  <2> HIDE DEF es
  <2>3. c \in ToSet(CallsIn(es))
    BY <2>2, CalledAre
  <2>4. QED
    BY <1>5, <2>3 DEF es, ToSet
<1>7. QED
  BY <1>6

\* What the property says, of the items that were sent.
LEMMA ReachesIs ==
  HistoryReachesTheProvider <=> Reach(sent) /\ ReadBack(sent) /\ HistoryTranslates
<1>1. ResultsReachTheirCalls <=> Reach(sent)
  BY Zenon DEF ResultsReachTheirCalls, Reach, Items
<1>2. NamesReadBack <=> ReadBack(sent)
  BY Zenon DEF NamesReadBack, ReadBack, Items
<1>3. QED
  BY <1>1, <1>2 DEF HistoryReachesTheProvider

\* A request that can be translated is sent with its results and its names.
LEMMA SentReaches ==
  ASSUME RunInv, status = "ask", Translates(context.messages)
  PROVE  Reach(Translated(context.messages)) /\ ReadBack(Translated(context.messages))
<1> DEFINE ms == context.messages
           s == Translated(ms)
<1>1. ms \in Seq(Message) /\ ValidRequest(ms) /\ Complete(ms) /\ \A c \in ToSet(CallsOf(ms)) : c \in ToSet(Called)
  BY RequestIsHistory
<1>2. \A c \in ToSet(CallsOf(ms)) : HasName(c.name)
  BY DEF Translates
<1> HIDE DEF ms
<1>3. Reach(s)
  BY <1>1, ResultsReach
<1>4. /\ \A i \in 1 .. Len(ms) : \A a \in 1 .. Len(ms[i].calls) :
           /\ CallAt(ms, i, a) \in DOMAIN s
           /\ s[CallAt(ms, i, a)] = CallItem(ms[i].calls[a], SentName(ms[i].calls[a].name))
      /\ \A p \in DOMAIN s : s[p].kind = "call" =>
           \E i \in 1 .. Len(ms) : \E a \in 1 .. Len(ms[i].calls) : p = CallAt(ms, i, a)
  BY <1>1, ItemsOfRequest
<1>5. ASSUME NEW p \in DOMAIN s, s[p].kind = "call"
      PROVE  \E c \in ToSet(Called) :
               c.id = s[p].call /\ c.name = IF adapter = "chat" THEN ToInternal(Offered, s[p].name) ELSE s[p].name
  <2>1. PICK i \in 1 .. Len(ms) : \E a \in 1 .. Len(ms[i].calls) : p = CallAt(ms, i, a)
    BY <1>4, <1>5
  <2>2. PICK a \in 1 .. Len(ms[i].calls) : p = CallAt(ms, i, a)
    BY <2>1
  <2> DEFINE c == ms[i].calls[a]
  <2>3. s[p].call = c.id /\ s[p].name = SentName(c.name)
    BY <1>4, <2>2, ItemKinds
  <2>4. c \in ToSet(CallsOf(ms))
    BY <1>1, CallsAsSet
  <2>5. c \in ToSet(Called) /\ HasName(c.name)
    BY <1>1, <1>2, <2>4
  <2> HIDE DEF c
  <2>6. c.name = IF adapter = "chat" THEN ToInternal(Offered, SentName(c.name)) ELSE SentName(c.name)
    BY <2>5, NameComesBack
  <2>7. QED
    BY <2>3, <2>5, <2>6
<1>6. ReadBack(s)
  BY <1>5 DEF ReadBack
<1>7. QED
  BY <1>3, <1>6 DEF ms

\* A request that cannot be translated has a Tool that is not offered.
LEMMA OnlyNamesAreMissing ==
  ASSUME RunInv, status = "ask", ~ Translates(context.messages)
  PROVE  adapter = "chat" /\ \E c \in ToSet(CallsOf(context.messages)) : c.name \notin ToSet(Offered)
<1> DEFINE ms == context.messages
<1>1. /\ ms \in Seq(Message) /\ ValidRequest(ms)
      /\ \A i \in 2 .. Len(ms) : ms[i].role = "system" => ms[i - 1].role = "system"
  BY RequestIsHistory
<1>2. DOMAIN ms = 1 .. Len(ms)
  BY <1>1, CallsOfMessages
<1> HIDE DEF ms
<1>3. ASSUME NEW i \in DOMAIN ms, ms[i].role = "tool"
      PROVE  ms[i].result.id \in DOMAIN IdsOf(ms, i)
  <2>1. PICK k \in 1 .. Len(ms) : \E a \in 1 .. Len(ms[k].calls) : k < i /\ ms[i].result.id = ms[k].calls[a].id
    BY <1>1, <1>2, <1>3, ResultsHaveCalls
  <2>2. PICK a \in 1 .. Len(ms[k].calls) : k < i /\ ms[i].result.id = ms[k].calls[a].id
    BY <2>1
  <2>3. k \in 1 .. i
    BY <1>1, <1>2, <2>2
  <2>4. \A id : id \in DOMAIN IdsOf(ms, i) <=> \E j \in 1 .. i : \E b \in 1 .. Len(ms[j].calls) : id = ms[j].calls[b].id
    BY <1>1, <1>2, IdsAre
  <2>5. QED
    BY <2>2, <2>3, <2>4
<1>4. PICK c \in ToSet(CallsOf(ms)) : ~ HasName(c.name)
  BY <1>1, <1>3, Zenon DEF Translates, ms
<1>5. adapter = "chat" /\ c.name \notin DOMAIN InternalToWire(Offered)
  BY <1>4 DEF HasName
<1>6. DOMAIN InternalToWire(Offered) = ToSet(Offered)
  BY DEF InternalToWire
<1>7. QED
  BY <1>4, <1>5, <1>6 DEF ms

\* No step leaves the property.
LEMMA ReachesKept ==
  ASSUME RunInv, RunInv', HistoryReachesTheProvider, [NextRun]_runVars
  PROVE  HistoryReachesTheProvider'
<1>1. Reach(sent) /\ ReadBack(sent) /\ HistoryTranslates
  BY ReachesIs
<1>2. \A c \in ToSet(Called) : c \in (ToSet(Called))'
  BY CalledStay
<1>3. adapter' = adapter
  BY DEF NextRun, runVars
<1>4. ASSUME NEW s, ReadBack(s), s = sent'
      PROVE  ReadBack(sent)'
  <2> DEFINE of(i) == IF adapter = "chat" THEN ToInternal(Offered, s[i].name) ELSE s[i].name
  <2>1. \A i \in {j \in DOMAIN s : s[j].kind = "call"} : \E c \in ToSet(Called) : c.id = s[i].call /\ c.name = of(i)
    BY <1>4 DEF ReadBack
  <2>2. \A i \in {j \in DOMAIN s : s[j].kind = "call"} : \E c \in (ToSet(Called))' : c.id = s[i].call /\ c.name = of(i)
    BY <1>2, <2>1
  <2>3. QED
    BY <1>3, <1>4, <2>2 DEF ReadBack
<1>5. (HistoryReachesTheProvider <=> Reach(sent) /\ ReadBack(sent) /\ HistoryTranslates)'
  BY ReachesIs, PTL
<1>6. CASE sent' = sent
  <2>1. Reach(sent)' /\ ReadBack(sent)'
    BY <1>1, <1>4, <1>6 DEF Reach
  <2>2. HistoryTranslates'
    <3>1. CASE status' # "protocol"
      BY <3>1 DEF HistoryTranslates
    <3>2. CASE status' = "protocol" /\ status = "ask" /\ ~ Translates(context.messages) /\ context' = context
      BY <1>3, <3>2, OnlyNamesAreMissing DEF HistoryTranslates
    <3>3. CASE UNCHANGED <<status, context>>
      BY <1>1, <1>3, <3>3 DEF HistoryTranslates
    <3>4. QED
      <4>1. CASE BuildContext
        <5>1. status' # "protocol"
          BY <4>1, BuildIs DEF BuildContext, RunInv
        <5>2. QED
          BY <3>1, <5>1
      <4>2. CASE AskModel
        BY <3>1, <4>2 DEF AskModel
      <4>3. CASE CallTool
        BY <3>1, <4>3 DEF CallTool
      <4>4. CASE Send
        BY <3>2, <4>2, <4>4 DEF Send
      <4>5. CASE UNCHANGED runVars
        BY <3>3, <4>5 DEF runVars, contextVars
      <4>6. QED
        BY <4>1, <4>2, <4>3, <4>4, <4>5 DEF NextRun
  <2>3. QED
    BY <1>5, <2>1, <2>2
<1>7. CASE sent' # sent
  <2>1. status = "ask" /\ Translates(context.messages) /\ AskModel /\ sent' = Translated(context.messages)
    BY <1>7 DEF NextRun, Send, runVars
  <2>2. Reach(sent') /\ ReadBack(sent)'
    BY <1>4, <2>1, SentReaches
  <2>3. HistoryTranslates'
    BY <2>1 DEF AskModel, HistoryTranslates
  <2>4. QED
    BY <1>5, <2>2, <2>3
<1>8. QED
  BY <1>6, <1>7

(***************************************************************************)
(* HistoryReachesTheProvider, for each adapter, all Tools and a Run of any *)
(* length: in the request that is sent each result stands under the        *)
(* identity that the Provider gave to its call, each name is the one of    *)
(* the Tool that was called, and a history fails to be translated only     *)
(* because of a Tool that is not offered (the request builders of          *)
(* openai_chat_completions.py, openai_responses.py, anthropic_messages.py).*)
(***************************************************************************)
THEOREM HistoryReaches ==
  RunSpec => []HistoryReachesTheProvider
<1>1. InitRun => RunInv /\ HistoryReachesTheProvider
  <2>1. InitRun => RunInv
    BY RunInvStarts DEF InitRun
  <2>2. InitRun => HistoryReachesTheProvider
    <3>1. ASSUME InitRun
          PROVE  Reach(sent) /\ ReadBack(sent) /\ HistoryTranslates
      <4>1. DOMAIN sent = {} /\ status = "build"
        BY <3>1 DEF InitRun, InitContext
      <4>2. QED
        BY <4>1 DEF Reach, ReadBack, HistoryTranslates
    <3>2. QED
      BY <3>1, ReachesIs
  <2>3. QED
    BY <2>1, <2>2
<1>2. RunInv /\ [NextRun]_runVars => RunInv'
  BY RunInvKept
<1>3. RunInv /\ RunInv' /\ HistoryReachesTheProvider /\ [NextRun]_runVars => HistoryReachesTheProvider'
  BY ReachesKept
<1>4. QED
  BY <1>1, <1>2, <1>3, PTL DEF RunSpec
=============================================================================
