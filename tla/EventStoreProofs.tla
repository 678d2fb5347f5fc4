--------------------------- MODULE EventStoreProofs ---------------------------
(***************************************************************************)
(* Proofs about EventStore for every value of the constants: any number of *)
(* workers, Runs and offered Events, any crash and any failure.            *)
(***************************************************************************)
EXTENDS EventStore, ReducerLemmas

-----------------------------------------------------------------------------
(* Streams: the Events of one Run in a table, and what the queries find *)

\* Positions are sequence numbers.
Numbered(h) == h \in Seq(Event) /\ \A i \in DOMAIN h : h[i].sequence = i

\* The first n Events of h.
First(h, n) == {h[i] : i \in 1 .. n}

\* h is the stream of the Run r in the table R.
Stream(R, r, h) ==
  /\ Numbered(h)
  /\ EventsOf(R, r) = First(h, Len(h))
  /\ \A i \in DOMAIN h : h[i].run = r
  /\ \A x, y \in R : x.event.run = r /\ x.event = y.event => x = y

\* A numbered sequence has as many Events as positions.
LEMMA NumberedCount ==
  ASSUME NEW h, Numbered(h), NEW n \in Nat, n <= Len(h)
  PROVE  IsFiniteSet(First(h, n)) /\ Cardinality(First(h, n)) = n
<1> DEFINE S == {h[i] : i \in 1 .. n}
           f == [i \in 1 .. n |-> h[i]]
<1>1. \A i \in 1 .. n : i \in DOMAIN h
  BY DEF Numbered
<1>2. f \in [1 .. n -> S] /\ \A x \in S : \E i \in 1 .. n : f[i] = x
  OBVIOUS
<1>3. \A i, j \in 1 .. n : f[i] = f[j] => i = j
  BY <1>1 DEF Numbered
<1>4. f \in Bijection(1 .. n, S)
  <2> HIDE DEF S, f
  <2>1. IsInjective(f)
    BY <1>2, <1>3 DEF IsInjective
  <2>2. f \in Injection(1 .. n, S) /\ f \in Surjection(1 .. n, S)
    BY <1>2, <2>1 DEF Injection, Surjection
  <2>3. QED
    BY <2>2 DEF Bijection
<1>5. IsFiniteSet(1 .. n) /\ Cardinality(1 .. n) = n
  BY FS_Interval
<1>6. ExistsBijection(1 .. n, S)
  BY <1>4 DEF ExistsBijection
<1> HIDE DEF S
<1>7. IsFiniteSet(S) /\ Cardinality(S) = n
  BY <1>5, <1>6, FS_Bijection
<1>8. QED
  BY <1>7 DEF S, First

\* ORDER BY sequence returns a numbered sequence, and each part of it from its
\* beginning, in its own order.
LEMMA OrderedIsPrefix ==
  ASSUME NEW h, Numbered(h), NEW n \in Nat, n <= Len(h)
  PROVE  Ordered(First(h, n)) = SubSeq(h, 1, n)
<1> DEFINE S == First(h, n)
           before(e) == {d \in S : d.sequence <= e.sequence}
<1>1. /\ Len(h) \in Nat
      /\ \A i \in 1 .. n : i \in DOMAIN h /\ h[i].sequence = i /\ h[i] \in S
  BY DEF Numbered, First
<1>2. Cardinality(S) = n
  BY NumberedCount
<1>3. ASSUME NEW j \in 1 .. n
      PROVE  Cardinality(before(h[j])) = j
  <2>1. ASSUME NEW d \in before(h[j])
        PROVE  d \in First(h, j)
    <3>1. PICK i \in 1 .. n : d = h[i]
      BY DEF First
    <3>2. i \in 1 .. j
      BY <1>1, <3>1
    <3>3. QED
      BY <3>1, <3>2 DEF First
  <2>2. ASSUME NEW d \in First(h, j)
        PROVE  d \in before(h[j])
    <3>1. PICK i \in 1 .. j : d = h[i]
      BY DEF First
    <3>2. i \in 1 .. n /\ h[i].sequence <= h[j].sequence
      BY <1>1
    <3>3. QED
      BY <1>1, <3>1, <3>2
  <2>3. before(h[j]) = First(h, j)
    BY <2>1, <2>2
  <2>4. j \in Nat /\ j <= Len(h)
    BY <1>1
  <2>5. QED
    BY <2>3, <2>4, NumberedCount
<1>4. ASSUME NEW i \in 1 .. n
      PROVE  (CHOOSE e \in S : Cardinality(before(e)) = i) = h[i]
  <2> HIDE DEF before
  <2>1. h[i] \in S /\ Cardinality(before(h[i])) = i
    BY <1>1, <1>3
  <2>2. ASSUME NEW e \in S, Cardinality(before(e)) = i
        PROVE  e = h[i]
    <3>1. PICK j \in 1 .. n : e = h[j]
      BY DEF First
    <3>2. QED
      BY <1>3, <2>2, <3>1
  <2> HIDE DEF S
  <2>3. QED
    BY <2>1, <2>2
<1>5. Ordered(S) = [i \in 1 .. n |-> CHOOSE e \in S : Cardinality(before(e)) = i]
  BY <1>2 DEF Ordered
<1> HIDE DEF S, before
<1>6. Ordered(S) = [i \in 1 .. n |-> h[i]]
  BY <1>4, <1>5
<1>7. SubSeq(h, 1, n) = [i \in 1 .. n |-> h[i]]
  BY DEF Numbered
<1>8. QED
  BY <1>6, <1>7 DEF S

\* What the queries find in a table that holds the stream h of the Run r.
LEMMA StreamQueries ==
  ASSUME NEW R, NEW r, NEW h, Stream(R, r, h)
  PROVE  /\ LogOf(R, r) = h
         /\ Cardinality(EventsOf(R, r)) = Len(h)
         /\ \A n \in 0 .. Len(h) : LogBefore(R, r, n + 1) = SubSeq(h, 1, n)
         /\ Contiguous(R, r)
<1> DEFINE m == Len(h)
           own == {x \in R : x.event.run = r}
<1>1. /\ Numbered(h) /\ h \in Seq(Event) /\ m \in Nat /\ DOMAIN h = 1 .. m
      /\ EventsOf(R, r) = First(h, m)
  BY DEF Stream, Numbered
<1>2. LogOf(R, r) = h
  <2>1. Ordered(First(h, m)) = SubSeq(h, 1, m)
    BY <1>1, OrderedIsPrefix
  <2>2. SubSeq(h, 1, m) = h
    BY <1>1
  <2>3. QED
    BY <1>1, <2>1, <2>2 DEF LogOf
<1>3. Cardinality(EventsOf(R, r)) = m
  BY <1>1, NumberedCount
<1>4. ASSUME NEW n \in 0 .. m
      PROVE  LogBefore(R, r, n + 1) = SubSeq(h, 1, n)
  <2>1. {e \in EventsOf(R, r) : e.sequence < n + 1} = First(h, n)
    <3>1. ASSUME NEW e \in First(h, m), e.sequence < n + 1
          PROVE  e \in First(h, n)
      <4>1. PICK i \in 1 .. m : e = h[i]
        BY DEF First
      <4>2. i \in 1 .. n
        BY <1>1, <3>1, <4>1 DEF Numbered
      <4>3. QED
        BY <4>1, <4>2 DEF First
    <3>2. ASSUME NEW e \in First(h, n)
          PROVE  e \in First(h, m) /\ e.sequence < n + 1
      <4>1. PICK i \in 1 .. n : e = h[i]
        BY DEF First
      <4>2. i \in 1 .. m /\ h[i].sequence = i
        BY <1>1 DEF Numbered
      <4>3. QED
        BY <4>1, <4>2 DEF First
    <3>3. QED
      BY <1>1, <3>1, <3>2
  <2>2. LogBefore(R, r, n + 1) = Ordered(First(h, n))
    BY <2>1, Zenon DEF LogBefore
  <2>3. n \in Nat /\ n <= Len(h)
    BY <1>1
  <2>4. QED
    BY <1>1, <2>2, <2>3, OrderedIsPrefix
<1>5. Contiguous(R, r)
  <2> DEFINE sequences == {row.event.sequence : row \in own}
             g == [i \in 1 .. m |-> CHOOSE x \in own : x.event = h[i]]
  <2>1. \A x \in own : \E i \in 1 .. m : x.event = h[i]
    BY <1>1 DEF EventsOf, First
  <2>2. \A i \in 1 .. m : \E x \in own : x.event = h[i]
    BY <1>1 DEF EventsOf, First
  <2>3. sequences = 1 .. m
    BY <1>1, <2>1, <2>2 DEF Numbered
  <2>4. \A i \in 1 .. m : g[i] \in own /\ g[i].event = h[i]
    <3> HIDE DEF own
    <3>1. QED
      BY <2>2
  <2>5. g \in [1 .. m -> own] /\ \A x \in own : \E i \in 1 .. m : g[i] = x
    BY <2>1, <2>4 DEF Stream
  <2>6. ASSUME NEW i \in 1 .. m, NEW j \in 1 .. m, g[i] = g[j]
        PROVE  i = j
    <3>1. h[i] = h[j]
      BY <2>4, <2>6
    <3>2. QED
      BY <1>1, <3>1 DEF Numbered
  <2>7. ExistsBijection(1 .. m, own)
    <3> HIDE DEF own, g
    <3>1. IsInjective(g)
      BY <2>5, <2>6 DEF IsInjective
    <3>2. g \in Injection(1 .. m, own) /\ g \in Surjection(1 .. m, own)
      BY <2>5, <3>1 DEF Injection, Surjection
    <3>3. QED
      BY <3>2 DEF Bijection, ExistsBijection
  <2>8. Cardinality(own) = m
    <3> HIDE DEF own
    <3>1. IsFiniteSet(1 .. m) /\ Cardinality(1 .. m) = m
      BY <1>1, FS_Interval
    <3>2. QED
      BY <2>7, <3>1, FS_Bijection
  <2>9. ASSUME sequences # {}
        PROVE  Min(sequences) = 1 /\ Max(sequences) = m
    <3>1. m >= 1
      <4> HIDE DEF sequences
      <4>1. QED
        BY <1>1, <2>3, <2>9
    <3> HIDE DEF sequences
    <3>2. Min(1 .. m) = 1
      BY <1>1, <3>1 DEF Min
    <3>3. Max(1 .. m) = m
      BY <1>1, <3>1 DEF Max
    <3>4. QED
      BY <2>3, <3>2, <3>3
  <2>10. Contiguous(R, r) = (sequences # {} => /\ Min(sequences) = 1
                                               /\ Max(sequences) = Cardinality(own))
    BY DEF Contiguous
  <2> HIDE DEF sequences
  <2>11. QED
    BY <2>8, <2>9, <2>10
<1>6. QED
  BY <1>2, <1>3, <1>4, <1>5

-----------------------------------------------------------------------------
(* Replay: FoldLeft over a growing history *)

\* f holds the partial results of FoldLeft(Reduced, NoRun, h): the recursive
\* function that its definition chooses.
Partial(f, h) ==
  f = [S \in SUBSET DOMAIN h |->
         IF S = {} THEN NoRun ELSE Reduced(f[S \ {Max(S)}], h[Max(S)])]

\* Folding h yields s.  Growing with the history, the three conjuncts need no
\* induction over it: sets of positions have a largest one, partial results
\* exist, and all of them end in s.
Replays(s, h) ==
  /\ \A S \in SUBSET DOMAIN h : S # {} => \E m \in S : \A n \in S : m >= n
  /\ \E f : Partial(f, h)
  /\ \A f : Partial(f, h) => f[DOMAIN h] = s

\* FoldLeft returns what Replays says.
LEMMA ReplaysIsReplayed ==
  ASSUME NEW s, NEW h, Replays(s, h)
  PROVE  Replayed(h) = s
<1>1. Replayed(h) = (CHOOSE f : Partial(f, h))[DOMAIN h]
  BY DEF Replayed, FoldLeft, MapThenFoldSet, Partial
<1>2. QED
  BY <1>1 DEF Replays

\* Before the first Event there is no Run.
LEMMA NothingReplayed == Replays(NoRun, << >>)
<1>1. DOMAIN << >> = {} /\ SUBSET {} = {{}}
  OBVIOUS
<1>2. \A S \in SUBSET {} : S # {} => \E m \in S : \A n \in S : m >= n
  OBVIOUS
<1>3. Partial([S \in {{}} |-> NoRun], << >>)
  BY <1>1 DEF Partial
<1>4. ASSUME NEW f, Partial(f, << >>)
      PROVE  f[{}] = NoRun
  BY <1>1, <1>4 DEF Partial
<1>5. QED
  BY <1>1, <1>2, <1>3, <1>4 DEF Replays

\* One more Event is one more step of the reducer.
LEMMA ReplayStep ==
  ASSUME NEW s, NEW h \in Seq(Event), NEW e \in Event, Replays(s, h)
  PROVE  Replays(Reduced(s, e), Append(h, e))
<1> DEFINE n == Len(h)
           H == Append(h, e)
<1>1. /\ n \in Nat /\ DOMAIN h = 1 .. n /\ DOMAIN H = 1 .. (n + 1)
      /\ H[n + 1] = e /\ \A i \in 1 .. n : H[i] = h[i]
  OBVIOUS
<1> HIDE DEF n, H
<1>2. \A S \in SUBSET (1 .. n) : S # {} => \E m \in S : \A k \in S : m >= k
  BY <1>1 DEF Replays
<1>3. \A S \in SUBSET (1 .. (n + 1)) : n + 1 \notin S => S \in SUBSET (1 .. n)
  BY <1>1
<1>4. \A S \in SUBSET (1 .. (n + 1)) : S \ {n + 1} \in SUBSET (1 .. n)
  BY <1>1
<1>5. \A S \in SUBSET (1 .. n) : S # {} => Max(S) \in S /\ Max(S) \in 1 .. n
  BY <1>2 DEF Max
<1>6. ASSUME NEW S \in SUBSET (1 .. (n + 1)), n + 1 \in S
      PROVE  Max(S) = n + 1
  <2>1. \A k \in S : n + 1 >= k /\ k \in Int
    BY <1>1
  <2>2. ASSUME NEW x \in S, \A y \in S : x >= y
        PROVE  x = n + 1
    <3>1. x >= n + 1 /\ n + 1 >= x /\ x \in Int
      BY <1>6, <2>1, <2>2
    <3>2. QED
      BY <1>1, <3>1
  <2>3. QED
    BY <1>6, <2>1, <2>2 DEF Max
<1>7. \A S \in SUBSET (1 .. (n + 1)) : S # {} => \E m \in S : \A k \in S : m >= k
  <2>1. SUFFICES ASSUME NEW S \in SUBSET (1 .. (n + 1)), S # {}
                 PROVE  \E m \in S : \A k \in S : m >= k
    OBVIOUS
  <2>2. CASE n + 1 \in S
    BY <1>1, <2>2
  <2>3. CASE n + 1 \notin S
    BY <1>2, <1>3, <2>1, <2>3
  <2>4. QED
    BY <2>2, <2>3
<1>8. \E g : Partial(g, H)
  <2>1. PICK f : Partial(f, h)
    BY DEF Replays
  <2>2. \A S \in SUBSET (1 .. n) :
          f[S] = IF S = {} THEN NoRun ELSE Reduced(f[S \ {Max(S)}], h[Max(S)])
    BY <1>1, <2>1 DEF Partial
  <2> DEFINE g == [S \in SUBSET (1 .. (n + 1)) |->
                     IF n + 1 \in S THEN Reduced(f[S \ {n + 1}], e) ELSE f[S]]
  <2>3. \A S \in SUBSET (1 .. n) : g[S] = f[S]
    BY <1>1
  <2>4. ASSUME NEW S \in SUBSET (1 .. (n + 1))
        PROVE  g[S] = IF S = {} THEN NoRun ELSE Reduced(g[S \ {Max(S)}], H[Max(S)])
    <3>1. CASE n + 1 \in S
      <4>1. g[S] = Reduced(f[S \ {n + 1}], e)
        BY <3>1
      <4> HIDE DEF g
      <4>2. g[S \ {n + 1}] = f[S \ {n + 1}]
        BY <1>4, <2>3
      <4>3. QED
        BY <1>1, <1>6, <3>1, <4>1, <4>2
    <3>2. CASE S = {}
      <4>1. S \in SUBSET (1 .. n)
        BY <3>2
      <4> HIDE DEF g
      <4>2. QED
        BY <2>2, <2>3, <3>2, <4>1
    <3>3. CASE n + 1 \notin S /\ S # {}
      <4>1. S \in SUBSET (1 .. n) /\ S \ {Max(S)} \in SUBSET (1 .. n)
        BY <1>3, <3>3
      <4> HIDE DEF g
      <4>2. H[Max(S)] = h[Max(S)]
        BY <1>1, <1>5, <3>3, <4>1
      <4>3. QED
        BY <2>2, <2>3, <3>3, <4>1, <4>2
    <3>4. QED
      BY <3>1, <3>2, <3>3
  <2>5. g = [S \in SUBSET (1 .. (n + 1)) |-> g[S]]
    OBVIOUS
  <2> HIDE DEF g
  <2>6. Partial(g, H)
    BY <1>1, <2>4, <2>5 DEF Partial
  <2>7. QED
    BY <2>6
<1>9. ASSUME NEW g, Partial(g, H)
      PROVE  g[1 .. (n + 1)] = Reduced(s, e)
  <2>1. \A S \in SUBSET (1 .. (n + 1)) :
          g[S] = IF S = {} THEN NoRun ELSE Reduced(g[S \ {Max(S)}], H[Max(S)])
    BY <1>1, <1>9 DEF Partial
  <2> DEFINE f == [S \in SUBSET (1 .. n) |-> g[S]]
  <2>2. \A S \in SUBSET (1 .. n) : f[S] = g[S] /\ S \in SUBSET (1 .. (n + 1))
    BY <1>1
  <2>3. ASSUME NEW S \in SUBSET (1 .. n)
        PROVE  f[S] = IF S = {} THEN NoRun ELSE Reduced(f[S \ {Max(S)}], h[Max(S)])
    <3> HIDE DEF f
    <3>1. S \ {Max(S)} \in SUBSET (1 .. n)
      OBVIOUS
    <3>2. S # {} => H[Max(S)] = h[Max(S)]
      BY <1>1, <1>5
    <3>3. QED
      BY <2>1, <2>2, <3>1, <3>2
  <2>4. f = [S \in SUBSET (1 .. n) |-> f[S]]
    OBVIOUS
  <2> HIDE DEF f
  <2>5. Partial(f, h)
    BY <1>1, <2>3, <2>4 DEF Partial
  <2>6. f[1 .. n] = s
    BY <1>1, <2>5 DEF Replays
  <2>7. g[1 .. n] = s
    BY <2>2, <2>6
  <2>8. (1 .. (n + 1)) \ {n + 1} = 1 .. n
    BY <1>1
  <2>9. Max(1 .. (n + 1)) = n + 1 /\ 1 .. (n + 1) # {}
    <3>1. n + 1 \in 1 .. (n + 1)
      BY <1>1
    <3>2. QED
      BY <1>6, <3>1
  <2>10. QED
    BY <1>1, <2>1, <2>7, <2>8, <2>9
<1>10. QED
  BY <1>1, <1>7, <1>8, <1>9 DEF Replays, H

-----------------------------------------------------------------------------
(* One more fact in the tables *)

\* Every request has its Activity in the projection, and the Activity no other
\* request.
RequestsListed(s, h) ==
  /\ \A i \in DOMAIN h : h[i].type = "Requested" =>
       \E j \in DOMAIN s.activities : s.activities[j].activity = h[i].activity
  /\ \A i, j \in DOMAIN h :
       h[i].type = "Requested" /\ h[j].type = "Requested" /\ h[i].activity = h[j].activity
       => i = j

\* An Event that the reducer takes lists its Activity, if it requests one.
LEMMA FoldListed ==
  ASSUME NEW s, NEW h, Sound(s, h), RequestsListed(s, h), NEW e, WellFormed(e),
         NEW s1, NEW h1, Folds(s, h, e, s1, h1)
  PROVE  RequestsListed(s1, h1)
<1> DEFINE n == Len(h)
<1>1. /\ n \in Nat /\ DOMAIN h = 1 .. n /\ DOMAIN h1 = 1 .. (n + 1) /\ h1[n + 1] = e
      /\ \A i \in 1 .. n : h1[i] = h[i]
      /\ Guard(s, e) /\ s \in RunState
  BY FoldExtends DEF Sound, Typed
<1>2. \A i \in DOMAIN s.activities :
        i \in DOMAIN s1.activities /\ s1.activities[i].activity = s.activities[i].activity
  BY FoldForward DEF SameActivity
<1>3. ASSUME e.type = "Requested"
      PROVE  /\ \E j \in DOMAIN s1.activities : s1.activities[j].activity = e.activity
             /\ \A i \in 1 .. n : h[i].type = "Requested" => h[i].activity # e.activity
  <2>1. RequestGuard(s, e) /\ s1 = WithRequested(s, e)
    BY <1>3, FoldCases
  <2>2. \E j \in DOMAIN s1.activities : s1.activities[j].activity = e.activity
    <3>1. s1 \in RunState /\ Len(s1.activities) = Len(s.activities) + 1
      BY <1>1, <1>3, <2>1, WithRequestedFields
    <3>2. s1.activities[Len(s.activities) + 1]
          = [activity |-> e.activity, kind |-> e.kind, call |-> e.call, status |-> "pending"]
      BY <1>1, <1>3, <2>1, WithRequestedFields
    <3>3. Len(s.activities) + 1 \in DOMAIN s1.activities
      BY <1>1, <3>1 DEF RunState
    <3>4. QED
      BY <3>2, <3>3
  <2>3. \A i \in DOMAIN s.activities : s.activities[i].activity # e.activity
    BY <2>1 DEF RequestGuard, UniqueIds
  <2>4. QED
    BY <1>1, <2>2, <2>3 DEF RequestsListed
<1> HIDE DEF n
<1>4. ASSUME NEW i \in DOMAIN h1, h1[i].type = "Requested"
      PROVE  \E j \in DOMAIN s1.activities : s1.activities[j].activity = h1[i].activity
  <2>1. CASE i = n + 1
    BY <1>1, <1>3, <1>4, <2>1
  <2>2. CASE i \in 1 .. n
    <3>1. PICK j \in DOMAIN s.activities : s.activities[j].activity = h[i].activity
      BY <1>1, <1>4, <2>2 DEF RequestsListed
    <3>2. QED
      BY <1>1, <1>2, <2>2, <3>1
  <2>3. QED
    BY <1>1, <1>4, <2>1, <2>2
<1>5. ASSUME NEW i \in DOMAIN h1, NEW j \in DOMAIN h1, h1[i].type = "Requested",
             h1[j].type = "Requested", h1[i].activity = h1[j].activity
      PROVE  i = j
  <2>1. CASE i \in 1 .. n /\ j \in 1 .. n
    BY <1>1, <1>5, <2>1 DEF RequestsListed
  <2>2. CASE i = n + 1 /\ j \in 1 .. n
    BY <1>1, <1>3, <1>5, <2>2
  <2>3. CASE i \in 1 .. n /\ j = n + 1
    BY <1>1, <1>3, <1>5, <2>3
  <2>4. QED
    BY <1>1, <2>1, <2>2, <2>3
<1>6. QED
  BY <1>4, <1>5 DEF RequestsListed

\* A row of another Run leaves the stream as it is.
LEMMA StreamOther ==
  ASSUME NEW R, NEW r, NEW h, Stream(R, r, h), NEW row, row.event.run # r
  PROVE  Stream(R \cup {row}, r, h)
<1>1. EventsOf(R \cup {row}, r) = EventsOf(R, r)
  BY DEF EventsOf
<1>2. QED
  BY <1>1 DEF Stream

\* A row with the next sequence number extends it.
LEMMA StreamGrows ==
  ASSUME NEW R, NEW r, NEW h, Stream(R, r, h), NEW row, row.event \in Event,
         row.event.run = r, row.event.sequence = Len(h) + 1
  PROVE  Stream(R \cup {row}, r, Append(h, row.event))
<1> DEFINE e == row.event
           n == Len(h)
           H == Append(h, e)
<1>1. /\ h \in Seq(Event) /\ n \in Nat /\ DOMAIN h = 1 .. n
      /\ \A i \in 1 .. n : h[i].sequence = i /\ h[i].run = r
  BY DEF Stream, Numbered
<1>2. /\ H \in Seq(Event) /\ Len(H) = n + 1 /\ DOMAIN H = 1 .. (n + 1)
      /\ H[n + 1] = e /\ \A i \in 1 .. n : H[i] = h[i]
  BY <1>1
<1> HIDE DEF H, n
<1>3. Numbered(H) /\ \A i \in DOMAIN H : H[i].run = r
  BY <1>1, <1>2 DEF Numbered, n
<1>4. EventsOf(R \cup {row}, r) = EventsOf(R, r) \cup {e}
  BY DEF EventsOf
<1>5. First(H, n + 1) = First(h, n) \cup {e}
  BY <1>1, <1>2 DEF First
<1>6. \A x \in R : x.event.run = r => \E i \in 1 .. n : x.event = h[i]
  BY DEF Stream, EventsOf, First, n
<1>7. \A x \in R : x.event.run = r => x.event # e
  BY <1>1, <1>6 DEF n
<1>8. \A x, y \in R \cup {row} : x.event.run = r /\ x.event = y.event => x = y
  BY <1>7 DEF Stream
<1>9. QED
  BY <1>2, <1>3, <1>4, <1>5, <1>8 DEF Stream, n, H

-----------------------------------------------------------------------------
(* What makes the tables sound *)

\* PRIMARY KEY (event_id), UNIQUE (run_id, sequence)
OneIdentity(R) ==
  \A x, y \in R :
    x.id = y.id \/ (x.event.run = y.event.run /\ x.event.sequence = y.event.sequence) => x = y

\* PRIMARY KEY (activity_id)
ActivitiesApart(P) ==
  \A r, q \in RunIds : r # q =>
    \A i \in DOMAIN P[r].activities : \A j \in DOMAIN P[q].activities :
      P[r].activities[i].activity # P[q].activities[j].activity

\* The projection s of the Run r and its stream in R belong together.
RunSound(R, s, r) ==
  LET h == LogOf(R, r)
  IN  /\ Stream(R, r, h)
      /\ Sound(s, h) /\ Measured(s, h) /\ Replays(s, h) /\ RequestsListed(s, h)

TablesSound(t) ==
  /\ t \in Tables
  /\ OneIdentity(t.rows)
  /\ ActivitiesApart(t.runs)
  /\ \A r \in RunIds : RunSound(t.rows, t.runs[r], r)

\* The row passes the checks of _append_sync in the tables t.
Acceptable(t, row) ==
  LET e == row.event
  IN  /\ row \in Offers /\ Parses(e)
      /\ HistoryValid(LogOf(t.rows, e.run), e) /\ Reducible(t.runs[e.run], e)
      /\ ~ InsertConflicts(t.rows, row)

NextState(t, row) == Reduced(t.runs[row.event.run], row.event)
WithRow(t, row) == [t EXCEPT !.rows = @ \cup {row}]
WithFact(t, row) == [WithRow(t, row) EXCEPT !.runs[row.event.run] = NextState(t, row)]


\* The tables with one more row, and with its projection.
LEMMA TablesWith ==
  ASSUME NEW t, TablesSound(t), NEW row
  PROVE  /\ WithRow(t, row) = [rows |-> t.rows \cup {row}, runs |-> t.runs]
         /\ WithFact(t, row) = [rows |-> t.rows \cup {row},
                                runs |-> [t.runs EXCEPT ![row.event.run] = NextState(t, row)]]
<1>1. t.rows \in SUBSET Row /\ t = [rows |-> t.rows, runs |-> t.runs]
  BY DEF TablesSound, Tables
<1>2. WithRow(t, row) = [rows |-> t.rows \cup {row}, runs |-> t.runs]
  BY <1>1 DEF WithRow
<1>3. WithFact(t, row) = [rows |-> t.rows \cup {row},
                          runs |-> [t.runs EXCEPT ![row.event.run] = NextState(t, row)]]
  BY <1>2 DEF WithFact
<1>4. QED
  BY <1>2, <1>3

\* What the parameters of a call are.
LEMMA JobFields ==
  ASSUME NEW j \in Jobs
  PROVE  /\ j.op \in {"none", "initialize", "append", "list", "get"}
         /\ j.op = "append" => j.row \in Offers /\ j.run = j.row.event.run
         /\ j.op \in {"list", "get"} => j.run \in RunIds
         /\ j.op = "list" => j.after \in Nat /\ j.limit \in Nat \ {0}
         /\ j.op = "none" => j = NoJob
<1> DEFINE Fields ==
             /\ j.op \in {"none", "initialize", "append", "list", "get"}
             /\ j.op = "append" => j.row \in Offers /\ j.run = j.row.event.run
             /\ j.op \in {"list", "get"} => j.run \in RunIds
             /\ j.op = "list" => j.after \in Nat /\ j.limit \in Nat \ {0}
             /\ j.op = "none" => j = NoJob
<1>1. CASE j = NoJob \/ j = InitializeJob
  BY <1>1 DEF NoJob, InitializeJob
<1>2. CASE \E row \in Offers : j = AppendJob(row)
  BY <1>2 DEF NoJob, AppendJob
<1>3. CASE \E r \in RunIds, after \in Cursors, limit \in PageLimits : j = ListJob(r, after, limit)
  BY <1>3, QueryAssumption DEF NoJob, ListJob
<1>4. CASE \E r \in RunIds : j = GetJob(r)
  BY <1>4 DEF NoJob, GetJob
<1> DEFINE appends == {AppendJob(row) : row \in Offers}
           lists == {ListJob(r, after, limit) :
                       r \in RunIds, after \in Cursors, limit \in PageLimits}
           gets == {GetJob(r) : r \in RunIds}
<1>5. j \in appends => Fields
  BY <1>2
<1>6. j \in lists => Fields
  BY <1>3
<1>7. j \in gets => Fields
  BY <1>4
<1>8. Jobs = {NoJob, InitializeJob} \cup appends \cup lists \cup gets
  BY DEF Jobs
<1> HIDE DEF Fields, appends, lists, gets
<1>9. j = NoJob \/ j = InitializeJob \/ j \in appends \/ j \in lists \/ j \in gets
  BY <1>8
<1>10. Fields
  BY <1>1, <1>5, <1>6, <1>7, <1>9 DEF Fields
<1>11. QED
  BY <1>10 DEF Fields

\* What a caller offers, and what parse_run_event_payload accepts of it.
LEMMA OfferWellFormed ==
  ASSUME NEW row \in Offers
  PROVE  /\ row \in Row /\ row.event \in Event /\ row.event.run \in RunIds
         /\ Parses(row.event) => WellFormed(row.event)
<1>1. /\ row \in Row /\ row.event \in Event /\ row.event.run \in RunIds
      /\ row.event.sequence \in Nat
  BY OffersAssumption DEF Row, Event
<1>2. QED
  BY <1>1, PayloadWellFormed DEF Parses

\* validate_event_history saw the two Events it reads, and the sequence number
\* is the next one: the reducer takes the Event after the whole stream.
LEMMA AcceptableFolds ==
  ASSUME NEW t, TablesSound(t), NEW row, Acceptable(t, row)
  PROVE  LET r == row.event.run
             h == LogOf(t.rows, r)
         IN  /\ Folds(t.runs[r], h, row.event, NextState(t, row), Append(h, row.event))
             /\ row.event.sequence = Len(h) + 1
<1>1. RunSound(t.rows, t.runs[row.event.run], row.event.run)
  BY OfferWellFormed DEF Acceptable, TablesSound
<1>2. QED
  BY <1>1 DEF Acceptable, Folds, NextState, Reducible, Addressed, RunSound, Measured

\* The streams after an INSERT of an acceptable row.
LEMMA RowStreams ==
  ASSUME NEW t, TablesSound(t), NEW row, Acceptable(t, row), NEW r \in RunIds
  PROVE  LET h == LogOf(t.rows, r)
             h1 == IF r = row.event.run THEN Append(h, row.event) ELSE h
         IN  /\ Stream(t.rows, r, h)
             /\ Stream(t.rows \cup {row}, r, h1)
             /\ LogOf(t.rows \cup {row}, r) = h1
<1>1. /\ row.event \in Event
      /\ row.event.sequence = Len(LogOf(t.rows, row.event.run)) + 1
  BY OfferWellFormed, AcceptableFolds DEF Acceptable
<1>2. Stream(t.rows, r, LogOf(t.rows, r))
  BY DEF TablesSound, RunSound
<1>3. CASE r = row.event.run
  <2>1. Stream(t.rows \cup {row}, r, Append(LogOf(t.rows, r), row.event))
    BY <1>1, <1>2, <1>3, StreamGrows
  <2>2. QED
    BY <1>2, <1>3, <2>1, StreamQueries
<1>4. CASE r # row.event.run
  <2>1. Stream(t.rows \cup {row}, r, LogOf(t.rows, r))
    BY <1>2, <1>4, StreamOther
  <2>2. QED
    BY <1>2, <1>4, <2>1, StreamQueries
<1>5. QED
  BY <1>2, <1>3, <1>4

\* An appended fact leaves the tables sound.
LEMMA FactSound ==
  ASSUME NEW t, TablesSound(t), NEW row, Acceptable(t, row),
         ~ ProjectionConflicts(t.runs, row.event.run, NextState(t, row))
  PROVE  TablesSound(WithFact(t, row))
<1> DEFINE q == row.event.run
           e == row.event
           s1 == NextState(t, row)
           t1 == WithFact(t, row)
<1>1. /\ row \in Row /\ e \in Event /\ q \in RunIds /\ WellFormed(e)
      /\ t.rows \in SUBSET Row /\ t.runs \in [RunIds -> RunState]
      /\ t = [rows |-> t.rows, runs |-> t.runs]
  BY OfferWellFormed DEF Acceptable, TablesSound, Tables
<1>2. /\ t1.rows = t.rows \cup {row} /\ t1.runs = [t.runs EXCEPT ![q] = s1]
      /\ t1 = [rows |-> t.rows \cup {row}, runs |-> [t.runs EXCEPT ![q] = s1]]
  <2>1. t1 = [rows |-> t.rows \cup {row}, runs |-> [t.runs EXCEPT ![q] = s1]]
    BY TablesWith, Zenon
  <2> HIDE DEF t1, s1
  <2>2. QED
    BY <2>1
<1>3. RunSound(t.rows, t.runs[q], q)
  BY <1>1 DEF TablesSound
<1>4. /\ Folds(t.runs[q], LogOf(t.rows, q), e, s1, Append(LogOf(t.rows, q), e))
      /\ s1 = Reduced(t.runs[q], e)
  BY AcceptableFolds DEF NextState
<1> HIDE DEF t1, s1
<1>5. RunSound(t1.rows, s1, q)
  <2> DEFINE h == LogOf(t.rows, q)
             h1 == Append(h, e)
  <2>1. LogOf(t1.rows, q) = h1 /\ Stream(t1.rows, q, h1)
    BY <1>1, <1>2, RowStreams
  <2>2. /\ Sound(t.runs[q], h) /\ Measured(t.runs[q], h) /\ RequestsListed(t.runs[q], h)
        /\ Replays(t.runs[q], h) /\ h \in Seq(Event)
    BY <1>3 DEF RunSound, Sound, Typed
  <2> HIDE DEF h
  <2>3. Sound(s1, h1) /\ Measured(s1, h1) /\ RequestsListed(s1, h1)
    BY <1>1, <1>4, <2>2, FoldSound, FoldMeasured, FoldListed DEF h
  <2>4. Replays(s1, h1)
    BY <1>1, <1>4, <2>2, ReplayStep
  <2>5. QED
    BY <2>1, <2>3, <2>4 DEF RunSound
<1>6. s1 \in RunState
  BY <1>5 DEF RunSound, Sound, Typed
<1>7. t1 \in Tables
  BY <1>1, <1>2, <1>6 DEF Tables
<1>8. OneIdentity(t1.rows)
  BY <1>2 DEF OneIdentity, Acceptable, InsertConflicts, TablesSound
<1>9. ActivitiesApart(t1.runs)
  <2>1. ASSUME NEW r \in RunIds, r # q, NEW i \in DOMAIN t.runs[r].activities,
               NEW j \in DOMAIN s1.activities
        PROVE  t.runs[r].activities[i].activity # s1.activities[j].activity
    BY <2>1 DEF ProjectionConflicts, s1
  <2>2. /\ t1.runs[q] = s1 /\ \A r \in RunIds : r # q => t1.runs[r] = t.runs[r]
    BY <1>1, <1>2
  <2>3. QED
    BY <2>1, <2>2 DEF ActivitiesApart, TablesSound
<1>10. ASSUME NEW r \in RunIds
       PROVE  RunSound(t1.rows, t1.runs[r], r)
  <2>1. CASE r = q
    BY <1>1, <1>2, <1>5, <2>1
  <2>2. CASE r # q
    <3>1. LogOf(t1.rows, r) = LogOf(t.rows, r) /\ Stream(t1.rows, r, LogOf(t.rows, r))
      <4>1. t1.rows = t.rows \cup {row} /\ r # row.event.run
        BY <1>2, <2>2
      <4>2. /\ LogOf(t.rows \cup {row}, r) = LogOf(t.rows, r)
            /\ Stream(t.rows \cup {row}, r, LogOf(t.rows, r))
        BY <4>1, RowStreams
      <4>3. QED
        BY <4>1, <4>2
    <3>2. t1.runs[r] = t.runs[r] /\ RunSound(t.rows, t.runs[r], r)
      BY <1>1, <1>2, <2>2 DEF TablesSound
    <3>3. QED
      BY <3>1, <3>2 DEF RunSound
  <2>3. QED
    BY <2>1, <2>2
<1>11. QED
  BY <1>7, <1>8, <1>9, <1>10 DEF TablesSound, t1

-----------------------------------------------------------------------------
(* The inductive invariant: the committed tables t are sound, and each       *)
(* worker, at label l of its call j with the transaction x, the answer a and *)
(* the outcome o, stands to them as its label says.                          *)

\* The write lock is held exactly inside a writing transaction.
Label(l, j, o, own) ==
  /\ own <=> l \in {"migrate", "insert", "project", "commit"}
  /\ l \in {"insert", "project", "commit"} => j.op = "append"
  /\ l \in {"read", "rows"} => j.op \in {"list", "get"}
  /\ l = "begin" => j.op \in {"append", "initialize"}
  /\ l = "migrate" => j.op = "initialize"
  /\ l = "open" => j.op # "none"
  /\ o # "none" => l = "idle"

\* The writer's copy is the committed tables and what it has written itself, a
\* reader's is a sound snapshot that the committed tables extend.
Transaction(t, l, j, x, a) ==
  /\ l = "insert" => x = t
  /\ l = "project" => Acceptable(t, j.row) /\ x = WithRow(t, j.row)
  /\ l = "commit" => /\ Acceptable(t, j.row)
                     /\ ~ ProjectionConflicts(t.runs, j.row.event.run, NextState(t, j.row))
                     /\ x = WithFact(t, j.row)
  /\ l = "rows" => /\ TablesSound(x) /\ x.rows \subseteq t.rows
                   /\ a.state = x.runs[j.run]

\* The answer is the fold of a prefix of the stream and the page of it.
Answers(t, j, a) ==
  LET h == LogOf(t.rows, j.run)
      n == a.state.last_sequence
      seen == SubSeq(h, 1, n)
  IN  /\ n <= Len(h) /\ Replays(a.state, seen)
      /\ j.op = "list" =>
           a.events = SubSeq(seen, j.after + 1, Min({j.after + j.limit, n}))

\* What a caller was told of its call is true of the tables.
Told(t, j, o, a) ==
  /\ o = "ok" /\ j.op = "append" => j.row \in t.rows
  /\ o = "conflict" => \E row \in t.rows : row.id = j.row.id /\ row # j.row
  /\ o = "ok" /\ j.op \in {"list", "get"} => Answers(t, j, a)
  /\ o # "corrupt"

WorkerSound(w) ==
  /\ Label(pc[w], job[w], outcome[w], writer = w)
  /\ Transaction(Committed, pc[w], job[w], tx[w], answer[w])
  /\ Told(Committed, job[w], outcome[w], answer[w])

IInv == TypeOK /\ TablesSound(Committed) /\ \A w \in Workers : WorkerSound(w)

-----------------------------------------------------------------------------
(* What a snapshot keeps *)

\* The stream of an earlier table is a prefix.
LEMMA StreamPrefix ==
  ASSUME NEW R, NEW r, NEW h, Stream(R, r, h), NEW R1, NEW h1, Stream(R1, r, h1), R1 \subseteq R
  PROVE  Len(h1) <= Len(h) /\ h1 = SubSeq(h, 1, Len(h1))
<1>1. /\ h \in Seq(Event) /\ h1 \in Seq(Event) /\ Len(h) \in Nat /\ Len(h1) \in Nat
      /\ \A i \in 1 .. Len(h) : h[i].sequence = i
      /\ \A i \in 1 .. Len(h1) : h1[i].sequence = i
  BY DEF Stream, Numbered
<1>2. ASSUME NEW i \in 1 .. Len(h1)
      PROVE  i \in 1 .. Len(h) /\ h1[i] = h[i]
  <2>1. h1[i] \in EventsOf(R1, r)
    BY DEF Stream, First
  <2>2. h1[i] \in EventsOf(R, r)
    BY <2>1 DEF EventsOf
  <2>3. PICK j \in 1 .. Len(h) : h1[i] = h[j]
    BY <2>2 DEF Stream, First
  <2>4. QED
    BY <1>1, <2>3
<1>3. Len(h1) <= Len(h)
  BY <1>1, <1>2
<1>4. SubSeq(h, 1, Len(h1)) = [i \in 1 .. Len(h1) |-> h[i]]
  BY <1>1, <1>3
<1>5. h1 = [i \in 1 .. Len(h1) |-> h1[i]]
  BY <1>1
<1>6. QED
  BY <1>2, <1>3, <1>4, <1>5

\* What a caller was told stays true when a fact is added.
LEMMA ToldForEver ==
  ASSUME NEW t, TablesSound(t), NEW row, Acceptable(t, row), NEW j \in Jobs, NEW o,
         NEW a \in [state : RunState, events : Seq(Event)], Told(t, j, o, a)
  PROVE  Told(WithFact(t, row), j, o, a)
<1> DEFINE t1 == WithFact(t, row)
<1>2. t1.rows = t.rows \cup {row}
  <2>1. t1 = [rows |-> t.rows \cup {row},
              runs |-> [t.runs EXCEPT ![row.event.run] = NextState(t, row)]]
    BY TablesWith, Zenon
  <2> HIDE DEF t1
  <2>2. QED
    BY <2>1
<1> HIDE DEF t1
<1>3. ASSUME j.op \in {"list", "get"}, Answers(t, j, a)
      PROVE  Answers(t1, j, a)
  <2> DEFINE h == LogOf(t.rows, j.run)
             h1 == LogOf(t1.rows, j.run)
             n == a.state.last_sequence
  <2>1. j.run \in RunIds
    BY <1>3, JobFields
  <2>2. Stream(t.rows, j.run, h) /\ Stream(t1.rows, j.run, h1)
    <3>1. RunSound(t.rows, t.runs[j.run], j.run)
      BY <2>1 DEF TablesSound
    <3>2. \E g : Stream(t1.rows, j.run, g)
      <4>1. Stream(t.rows \cup {row}, j.run,
                   IF j.run = row.event.run THEN Append(h, row.event) ELSE h)
        BY <2>1, RowStreams
      <4>2. QED
        BY <1>2, <4>1
    <3>3. QED
      BY <3>1, <3>2, StreamQueries DEF RunSound
  <2>3. t.rows \subseteq t1.rows
    BY <1>2
  <2>4. Len(h) <= Len(h1) /\ h = SubSeq(h1, 1, Len(h))
    BY <2>2, <2>3, StreamPrefix
  <2>5. h1 \in Seq(Event) /\ h \in Seq(Event) /\ n \in Nat /\ n <= Len(h)
    BY <1>3, <2>2 DEF Stream, Numbered, RunState, Answers
  <2> HIDE DEF h, h1
  <2>6. SubSeq(h, 1, n) = SubSeq(h1, 1, n)
    <3>1. \A i \in 1 .. n : h[i] = h1[i]
      BY <2>4, <2>5
    <3>2. /\ SubSeq(h, 1, n) = [i \in 1 .. n |-> h[i]]
          /\ SubSeq(h1, 1, n) = [i \in 1 .. n |-> h1[i]]
      BY <2>4, <2>5
    <3>3. QED
      BY <3>1, <3>2
  <2>7. n <= Len(h1)
    BY <2>4, <2>5
  <2>8. QED
    BY <1>3, <2>6, <2>7, Zenon DEF Answers, h, h1
<1>4. QED
  BY <1>2, <1>3 DEF Told, t1

-----------------------------------------------------------------------------
(* A step of one worker leaves the others alone *)

Step(w) == (\E j \in Jobs \ {NoJob} : Call(w, j)) \/ Cancel(w) \/ Work(w) \/ Fail(w)

Same(u) ==
  /\ pc'[u] = pc[u] /\ job'[u] = job[u] /\ tx'[u] = tx[u]
  /\ outcome'[u] = outcome[u] /\ answer'[u] = answer[u]
  /\ (writer' = u) <=> (writer = u)

Functions ==
  /\ DOMAIN pc = Workers /\ DOMAIN job = Workers /\ DOMAIN tx = Workers
  /\ DOMAIN outcome = Workers /\ DOMAIN answer = Workers /\ DOMAIN awaited = Workers

\* The end of a call, as a return or as an error.
LEMMA FinishIsLocal ==
  ASSUME Functions, NEW w \in Workers, NEW result, Finish(w, result), NEW u \in Workers, u # w
  PROVE  /\ pc'[u] = pc[u] /\ job'[u] = job[u] /\ tx'[u] = tx[u] /\ outcome'[u] = outcome[u]
         /\ (writer' = u) <=> (writer = u)
  BY WorkersAssumption DEF Finish, Functions

\* An error.
LEMMA RollbackIsLocal ==
  ASSUME Functions, NEW w \in Workers, NEW result, Rollback(w, result), NEW u \in Workers, u # w
  PROVE  Same(u)
<1>1. answer'[u] = answer[u]
  BY DEF Rollback, Functions
<1>2. QED
  BY <1>1, FinishIsLocal DEF Rollback, Same

\* Every step.
LEMMA StepIsLocal ==
  ASSUME Functions, NEW w \in Workers, Step(w), NEW u \in Workers, u # w
  PROVE  Same(u)
<1>1. ASSUME NEW j \in Jobs, Call(w, j)
      PROVE  Same(u)
  BY <1>1 DEF Call, Same, Functions, tables
<1>2. CASE Cancel(w)
  BY <1>2 DEF Cancel, Same, Functions, tables
<1>3. CASE Create(w)
  BY <1>3 DEF Create, Goto, Same, Functions, tables
<1>4. CASE Open(w)
  <2>1. CASE file # "migrated"
    BY <1>4, <2>1, RollbackIsLocal DEF Open
  <2>2. CASE file = "migrated"
    BY <1>4, <2>2 DEF Open, Goto, Same, Functions, tables
  <2>3. QED
    BY <2>1, <2>2
<1>5. CASE Begin(w)
  BY <1>5, WorkersAssumption DEF Begin, Goto, Same, Functions, tables
<1>6. CASE Busy(w)
  BY <1>6, RollbackIsLocal DEF Busy
<1>7. CASE Migrate(w)
  BY <1>7, FinishIsLocal DEF Migrate, Same
<1>8. CASE Insert(w)
  <2>1. CASE \E result : Rollback(w, result)
    BY <2>1, RollbackIsLocal
  <2>2. CASE ~ \E result : Rollback(w, result)
    <3>1. /\ tx' = [tx EXCEPT ![w].rows = @ \cup {job[w].row}]
          /\ Goto(w, "project")
          /\ UNCHANGED <<file, tables, writer, job, awaited, outcome, answer>>
      BY <1>8, <2>2, Zenon DEF Insert
    <3>2. QED
      BY <3>1 DEF Goto, Same, Functions
  <2>3. QED
    BY <2>1, <2>2
<1>9. CASE Project(w)
  <2>1. CASE Rollback(w, "error")
    BY <2>1, RollbackIsLocal
  <2>2. CASE ~ Rollback(w, "error")
    <3>1. /\ \E state : tx' = [tx EXCEPT ![w].runs[job[w].row.event.run] = state]
          /\ Goto(w, "commit")
          /\ UNCHANGED <<file, tables, writer, job, awaited, outcome, answer>>
      BY <1>9, <2>2, Zenon DEF Project
    <3>2. QED
      BY <3>1 DEF Goto, Same, Functions
  <2>3. QED
    BY <2>1, <2>2
<1>10. CASE Commit(w)
  BY <1>10, FinishIsLocal DEF Commit, Same
<1>11. CASE Fail(w)
  BY <1>11, RollbackIsLocal DEF Fail
<1>12. CASE ReadProjection(w)
  BY <1>12 DEF ReadProjection, Goto, Same, Functions, tables
<1>13. CASE ReadRows(w)
  <2>1. CASE Rollback(w, "corrupt")
    BY <2>1, RollbackIsLocal
  <2>2. CASE ~ Rollback(w, "corrupt")
    <3>1. /\ \/ answer' = [answer EXCEPT ![w] = NoAnswer]
             \/ answer' = [answer EXCEPT ![w].events =
                   Page(tx[w].rows, job[w].run, job[w].after, job[w].limit)]
             \/ answer' = answer
          /\ Finish(w, "ok")
      BY <1>13, <2>2, Zenon DEF ReadRows
    <3>2. answer'[u] = answer[u]
      BY <3>1 DEF Functions
    <3>3. QED
      BY <3>1, <3>2, FinishIsLocal DEF Same
  <2>3. QED
    BY <2>1, <2>2
<1>14. QED
  BY <1>1, <1>2, <1>3, <1>4, <1>5, <1>6, <1>7, <1>8, <1>9, <1>10, <1>11, <1>12, <1>13
    DEF Step, Work

-----------------------------------------------------------------------------
(* Induction *)

\* The values a worker starts with are of their types.
LEMMA NothingTyped ==
  /\ NoRun \in RunState /\ NoJob \in Jobs /\ Closed \in Tables
  /\ NoAnswer \in [state : RunState, events : Seq(Event)]
<1>1. NoRun \in RunState
  BY NothingSound DEF Sound, Typed
<1>2. NoJob \in Jobs
  BY DEF Jobs
<1>3. Closed \in Tables
  BY <1>1 DEF Closed, Tables
<1>4. << >> \in Seq(Event)
  OBVIOUS
<1>5. NoAnswer \in [state : RunState, events : Seq(Event)]
  BY <1>1, <1>4 DEF NoAnswer
<1>6. QED
  BY <1>1, <1>2, <1>3, <1>5

\* Empty tables are sound.
LEMMA EmptySound == TablesSound(Closed)
<1>1. Closed \in Tables /\ Closed.rows = {} /\ Closed.runs = [r \in RunIds |-> NoRun]
  BY NothingTyped DEF Closed
<1>2. OneIdentity({})
  BY DEF OneIdentity
<1>3. NoRun.activities = << >>
  BY DEF NoRun
<1>4. ActivitiesApart(Closed.runs)
  BY <1>1, <1>3 DEF ActivitiesApart
<1>5. ASSUME NEW r \in RunIds
      PROVE  RunSound({}, NoRun, r)
  <2>1. EventsOf({}, r) = {} /\ First(<< >>, 0) = {}
    BY DEF EventsOf, First
  <2>2. Stream({}, r, << >>)
    BY <2>1 DEF Stream, Numbered
  <2>3. LogOf({}, r) = << >>
    BY <2>2, StreamQueries
  <2>4. RequestsListed(NoRun, << >>)
    BY DEF RequestsListed
  <2>5. QED
    BY <2>2, <2>3, <2>4, NothingSound, NothingMeasured, NothingReplayed DEF RunSound
<1>6. QED
  BY <1>1, <1>2, <1>4, <1>5 DEF TablesSound

\* The database file before its first connection.
LEMMA Initial == Init => IInv
<1> SUFFICES ASSUME Init
             PROVE  IInv
  OBVIOUS
<1>1. Committed = Closed
  BY DEF Init, Committed, Closed
<1>2. TypeOK
  BY <1>1, NothingTyped DEF Init, TypeOK, Outcomes
<1>3. ASSUME NEW w \in Workers
      PROVE  WorkerSound(w)
  <2>1. /\ pc[w] = "idle" /\ job[w] = NoJob /\ outcome[w] = "none" /\ writer # w
        /\ tx[w] = Closed /\ answer[w] = NoAnswer
    BY WorkersAssumption DEF Init
  <2>2. QED
    BY <2>1 DEF WorkerSound, Label, Transaction, Told
<1>4. QED
  BY <1>1, <1>2, <1>3, EmptySound DEF IInv

\* Nothing was committed: a worker that did not move is where it was.
LEMMA OthersKeep ==
  ASSUME IInv, tables' = tables, NEW u \in Workers, Same(u)
  PROVE  WorkerSound(u)'
<1>1. Committed' = Committed
  BY DEF Committed, tables
<1>2. WorkerSound(u)
  BY DEF IInv
<1>3. QED
  BY <1>1, <1>2 DEF WorkerSound, Same

\* A step of w that commits nothing.
LEMMA StepWithoutCommit ==
  ASSUME IInv, NEW w \in Workers, Step(w), tables' = tables, TypeOK', WorkerSound(w)'
  PROVE  IInv'
<1>1. Functions
  BY DEF IInv, TypeOK, Functions
<1>2. \A u \in Workers : WorkerSound(u)'
  BY <1>1, StepIsLocal, OthersKeep
<1>3. Committed' = Committed
  BY DEF Committed, tables
<1>4. TablesSound(Committed)'
  BY <1>3 DEF IInv
<1>5. QED
  BY <1>2, <1>4 DEF IInv

\* A return or an error leaves a worker idle.
LEMMA FinishTyped ==
  ASSUME TypeOK, NEW w \in Workers, NEW result \in Outcomes, Finish(w, result)
  PROVE  /\ writer' \in Workers \cup {None}
         /\ pc' \in [Workers -> {"idle", "open", "begin", "migrate", "insert", "project", "commit",
                                 "read", "rows"}]
         /\ job' \in [Workers -> Jobs] /\ tx' \in [Workers -> Tables]
         /\ awaited' \in [Workers -> BOOLEAN] /\ outcome' \in [Workers -> Outcomes]
         /\ pc'[w] = "idle" /\ writer' # w
         /\ outcome'[w] = "none" \/ (outcome'[w] = result /\ job'[w] = job[w])
<1>1. pc' = [pc EXCEPT ![w] = "idle"] /\ tx' = [tx EXCEPT ![w] = Closed]
  BY DEF Finish
<1>2. /\ awaited' = [awaited EXCEPT ![w] = FALSE]
      /\ writer' = IF writer = w THEN None ELSE writer
  BY DEF Finish
<1>3. /\ pc' \in [Workers -> {"idle", "open", "begin", "migrate", "insert", "project", "commit",
                              "read", "rows"}]
      /\ pc'[w] = "idle"
  BY <1>1 DEF TypeOK
<1>4. tx' \in [Workers -> Tables] /\ awaited' \in [Workers -> BOOLEAN]
  BY <1>1, <1>2, NothingTyped DEF TypeOK
<1>5. writer' \in Workers \cup {None} /\ writer' # w
  BY <1>2, WorkersAssumption DEF TypeOK
<1>6. /\ outcome' \in [Workers -> Outcomes] /\ job' \in [Workers -> Jobs]
      /\ outcome'[w] = "none" \/ (outcome'[w] = result /\ job'[w] = job[w])
  <2>1. CASE awaited[w]
    BY <2>1, NothingTyped DEF TypeOK, Finish
  <2>2. CASE ~ awaited[w]
    <3>1. "none" \in Outcomes
      BY DEF Outcomes
    <3>2. /\ outcome' = [outcome EXCEPT ![w] = "none"]
          /\ job' = [job EXCEPT ![w] = NoJob]
      BY <2>2 DEF Finish
    <3>3. outcome' \in [Workers -> Outcomes] /\ outcome'[w] = "none"
      BY <3>1, <3>2 DEF TypeOK
    <3>4. job' \in [Workers -> Jobs]
      BY <3>2, NothingTyped DEF TypeOK
    <3>5. QED
      BY <3>3, <3>4
  <2>3. QED
    BY <2>1, <2>2
<1>7. QED
  BY <1>3, <1>4, <1>5, <1>6

\* An error commits nothing, and a conflict is one.
LEMMA RollbackSound ==
  ASSUME IInv, NEW w \in Workers, Step(w), Rollback(w, "rejected") \/ Rollback(w, "error")
           \/ Rollback(w, "busy") \/ Rollback(w, "uninitialized")
           \/ (Rollback(w, "conflict")
               /\ \E row \in rows : row.id = job[w].row.id /\ row # job[w].row)
  PROVE  IInv'
<1>1. PICK result \in Outcomes \ {"ok", "corrupt", "none"} :
        /\ Rollback(w, result)
        /\ result = "conflict"
           => \E row \in rows : row.id = job[w].row.id /\ row # job[w].row
  BY DEF Outcomes
<1>2. TypeOK
  BY DEF IInv
<1>3. Finish(w, result) /\ tables' = tables /\ file' = file
      /\ answer' = [answer EXCEPT ![w] = NoAnswer]
  BY <1>1 DEF Rollback, tables
<1>4. Committed' = Committed
  BY <1>3 DEF tables, Committed
<1>5. answer' \in [Workers -> [state : RunState, events : Seq(Event)]]
  BY <1>2, <1>3, NothingTyped DEF TypeOK
<1>6. TypeOK'
  BY <1>2, <1>3, <1>4, <1>5, FinishTyped DEF TypeOK
<1>7. /\ pc'[w] = "idle" /\ writer' # w
      /\ outcome'[w] = "none" \/ (outcome'[w] = result /\ job'[w] = job[w])
  BY <1>2, <1>3, FinishTyped
<1>8. Label(pc[w], job[w], outcome[w], writer = w)'
  BY <1>7 DEF Label
<1>9. Transaction(Committed, pc[w], job[w], tx[w], answer[w])'
  BY <1>7 DEF Transaction
<1>10. Told(Committed, job[w], outcome[w], answer[w])'
  BY <1>1, <1>4, <1>7 DEF Told, Committed
<1>11. QED
  BY <1>3, <1>6, <1>8, <1>9, <1>10, StepWithoutCommit DEF WorkerSound

\* The steps that neither commit nor end a call.
LEMMA CallSound ==
  ASSUME IInv, NEW w \in Workers, NEW j \in Jobs \ {NoJob}, Call(w, j)
  PROVE  IInv'
<1>1. TypeOK /\ WorkerSound(w)
  BY DEF IInv
<1>2. /\ pc' = [pc EXCEPT ![w] = "open"] /\ job' = [job EXCEPT ![w] = j]
      /\ awaited' = [awaited EXCEPT ![w] = TRUE] /\ outcome' = [outcome EXCEPT ![w] = "none"]
      /\ answer' = [answer EXCEPT ![w] = NoAnswer]
      /\ file' = file /\ tables' = tables /\ writer' = writer /\ tx' = tx
      /\ Committed' = Committed /\ pc[w] = "idle"
  BY DEF Call, tables, Committed
<1>3. TypeOK'
  BY <1>1, <1>2, NothingTyped DEF TypeOK, Outcomes
<1>4. pc'[w] = "open" /\ job'[w] = j /\ outcome'[w] = "none" /\ writer' # w
  BY <1>1, <1>2 DEF TypeOK, WorkerSound, Label
<1>5. j.op # "none"
  BY JobFields
<1>6. WorkerSound(w)'
  BY <1>4, <1>5 DEF WorkerSound, Label, Transaction, Told
<1>7. QED
  BY <1>2, <1>3, <1>6, StepWithoutCommit DEF Step

\* A cancelled coroutine changes nothing of its worker.
LEMMA CancelSound ==
  ASSUME IInv, NEW w \in Workers, Cancel(w)
  PROVE  IInv'
<1>1. TypeOK /\ WorkerSound(w)
  BY DEF IInv
<1>2. /\ awaited' = [awaited EXCEPT ![w] = FALSE]
      /\ UNCHANGED <<file, tables, writer, pc, job, tx, outcome, answer>>
      /\ Committed' = Committed
  BY DEF Cancel, tables, Committed
<1>3. TypeOK'
  BY <1>1, <1>2 DEF TypeOK
<1>4. WorkerSound(w)'
  BY <1>1, <1>2 DEF WorkerSound
<1>5. QED
  BY <1>2, <1>3, <1>4, StepWithoutCommit DEF Step

\* A step that only moves the label, under a condition of the call.
LEMMA MoveSound ==
  ASSUME IInv, NEW w \in Workers, Step(w),
         NEW label \in {"begin", "read"}, Goto(w, label), pc[w] \in {"open"},
         label = "begin" => job[w].op \in {"append", "initialize"},
         label = "read" => job[w].op \in {"list", "get"},
         file' \in {"absent", "empty", "migrated"},
         UNCHANGED <<tables, writer, job, tx, awaited, outcome, answer>>
  PROVE  IInv'
<1>1. TypeOK /\ WorkerSound(w)
  BY DEF IInv
<1>2. pc' = [pc EXCEPT ![w] = label] /\ Committed' = Committed /\ tables' = tables
  BY DEF Goto, Committed, tables
<1>3. TypeOK'
  BY <1>1, <1>2 DEF TypeOK
<1>4. pc'[w] = label /\ outcome[w] = "none" /\ writer # w
  BY <1>1, <1>2 DEF TypeOK, WorkerSound, Label
<1>5. WorkerSound(w)'
  BY <1>1, <1>2, <1>4 DEF WorkerSound, Label, Transaction, Told
<1>6. QED
  BY <1>2, <1>3, <1>5, StepWithoutCommit

\* A connection is opened, or refused.
LEMMA OpenSound ==
  ASSUME IInv, NEW w \in Workers, Create(w) \/ Open(w)
  PROVE  IInv'
<1>1. Step(w)
  BY DEF Step, Work
<1>2. TypeOK /\ WorkerSound(w)
  BY DEF IInv
<1>3. job[w] \in Jobs /\ (pc[w] = "open" => job[w].op # "none")
  BY <1>2 DEF TypeOK, WorkerSound, Label
<1>4. CASE Create(w)
  <2>1. /\ Goto(w, "begin") /\ pc[w] = "open" /\ job[w].op = "initialize"
        /\ file' \in {"absent", "empty", "migrated"}
        /\ UNCHANGED <<tables, writer, job, tx, awaited, outcome, answer>>
    BY <1>2, <1>4 DEF Create, TypeOK
  <2>2. QED
    BY <1>1, <2>1, MoveSound
<1>5. CASE Open(w) /\ file # "migrated"
  BY <1>1, <1>5, RollbackSound DEF Open
<1>6. CASE Open(w) /\ file = "migrated"
  <2>1. /\ Goto(w, IF job[w].op = "append" THEN "begin" ELSE "read")
        /\ pc[w] = "open" /\ job[w].op # "initialize"
        /\ file' = "migrated" /\ UNCHANGED <<tables, writer, job, tx, awaited, outcome, answer>>
    BY <1>6 DEF Open
  <2>2. CASE job[w].op = "append"
    BY <1>1, <2>1, <2>2, MoveSound
  <2>3. CASE job[w].op # "append"
    <3>1. job[w].op \in {"list", "get"}
      BY <1>3, <2>1, <2>3, JobFields
    <3>2. QED
      BY <1>1, <2>1, <2>3, <3>1, MoveSound
  <2>4. QED
    BY <2>2, <2>3
<1>7. QED
  BY <1>4, <1>5, <1>6

\* BEGIN IMMEDIATE takes the lock and sees what is committed.
LEMMA BeginSound ==
  ASSUME IInv, NEW w \in Workers, Begin(w)
  PROVE  IInv'
<1>1. TypeOK /\ WorkerSound(w) /\ Step(w)
  BY DEF IInv, Step, Work
<1>2. /\ writer' = w /\ tx' = [tx EXCEPT ![w] = Committed]
      /\ pc' = [pc EXCEPT ![w] = IF job[w].op = "append" THEN "insert" ELSE "migrate"]
      /\ UNCHANGED <<file, tables, job, awaited, outcome, answer>>
      /\ Committed' = Committed /\ pc[w] = "begin"
  BY DEF Begin, Goto, Committed, tables
<1>3. Committed \in Tables
  BY <1>1 DEF TypeOK
<1>4. TypeOK'
  <2>1. pc' \in [Workers -> {"idle", "open", "begin", "migrate", "insert", "project", "commit",
                             "read", "rows"}]
    BY <1>1, <1>2 DEF TypeOK
  <2>2. tx' \in [Workers -> Tables] /\ writer' \in Workers \cup {None}
    BY <1>1, <1>2, <1>3 DEF TypeOK
  <2>3. QED
    BY <1>1, <1>2, <2>1, <2>2 DEF TypeOK
<1>5. /\ pc'[w] = (IF job[w].op = "append" THEN "insert" ELSE "migrate")
      /\ tx'[w] = Committed /\ outcome[w] = "none"
      /\ job[w].op \in {"append", "initialize"}
  BY <1>1, <1>2 DEF TypeOK, WorkerSound, Label
<1>6. Label(pc[w], job[w], outcome[w], writer = w)'
  BY <1>2, <1>5 DEF Label
<1>7. Transaction(Committed, pc[w], job[w], tx[w], answer[w])'
  BY <1>2, <1>5 DEF Transaction
<1>8. Told(Committed, job[w], outcome[w], answer[w])'
  BY <1>2, <1>5 DEF Told
<1>9. QED
  BY <1>1, <1>2, <1>4, <1>6, <1>7, <1>8, StepWithoutCommit DEF WorkerSound

\* The tables were created.
LEMMA MigrateSound ==
  ASSUME IInv, NEW w \in Workers, Migrate(w)
  PROVE  IInv'
<1>1. TypeOK /\ WorkerSound(w) /\ Step(w)
  BY DEF IInv, Step, Work
<1>2. /\ Finish(w, "ok") /\ file' = "migrated" /\ tables' = tables /\ answer' = answer
      /\ Committed' = Committed /\ pc[w] = "migrate"
  BY DEF Migrate, Committed, tables
<1>3. "ok" \in Outcomes
  BY DEF Outcomes
<1>4. TypeOK'
  BY <1>1, <1>2, <1>3, FinishTyped DEF TypeOK
<1>5. /\ pc'[w] = "idle" /\ writer' # w
      /\ outcome'[w] = "none" \/ (outcome'[w] = "ok" /\ job'[w] = job[w])
  BY <1>1, <1>2, <1>3, FinishTyped
<1>6. job[w].op = "initialize"
  BY <1>1, <1>2 DEF WorkerSound, Label
<1>7. Label(pc[w], job[w], outcome[w], writer = w)'
  BY <1>5 DEF Label
<1>8. Transaction(Committed, pc[w], job[w], tx[w], answer[w])'
  BY <1>5 DEF Transaction
<1>9. Told(Committed, job[w], outcome[w], answer[w])'
  BY <1>5, <1>6 DEF Told
<1>10. QED
  BY <1>1, <1>2, <1>4, <1>7, <1>8, <1>9, StepWithoutCommit DEF WorkerSound

\* _validate_projection_sequence never fails on sound tables.
LEMMA SoundConsistent ==
  ASSUME NEW t, TablesSound(t), NEW r \in RunIds
  PROVE  Consistent(t, r)
<1> DEFINE h == LogOf(t.rows, r)
<1>1. Stream(t.rows, r, h) /\ t.runs[r].last_sequence = Len(h)
  BY DEF TablesSound, RunSound, Measured
<1>2. Contiguous(t.rows, r) /\ Cardinality(EventsOf(t.rows, r)) = Len(h)
  BY <1>1, StreamQueries
<1>3. QED
  BY <1>1, <1>2 DEF Consistent

\* The checks and the INSERT of an append.
LEMMA InsertSound ==
  ASSUME IInv, NEW w \in Workers, Insert(w)
  PROVE  IInv'
<1> DEFINE row == job[w].row
           e == row.event
           h == LogOf(rows, e.run)
<1>1. TypeOK /\ WorkerSound(w) /\ Step(w) /\ TablesSound(Committed)
  BY DEF IInv, Step, Work
<1>2. pc[w] = "insert" /\ job[w].op = "append" /\ tx[w] = Committed
  BY <1>1 DEF Insert, WorkerSound, Label, Transaction
<1>3. row \in Offers /\ row \in Row /\ e \in Event /\ e.run \in RunIds
  BY <1>1, <1>2, JobFields, OfferWellFormed DEF TypeOK
<1>4. /\ Stream(rows, e.run, h) /\ runs[e.run].last_sequence = Len(h)
      /\ Consistent(Committed, e.run)
      /\ h \in Seq(Event) /\ Len(h) \in Nat
  <2>1. RunSound(rows, runs[e.run], e.run)
    BY <1>1, <1>3 DEF TablesSound, Committed
  <2>2. Consistent(Committed, e.run)
    BY <1>1, <1>3, SoundConsistent
  <2>3. Stream(rows, e.run, h) /\ Measured(runs[e.run], h)
    BY <2>1 DEF RunSound
  <2> HIDE DEF h
  <2>4. h \in Seq(Event) /\ Len(h) \in Nat
    BY <2>3 DEF Stream, Numbered
  <2>5. QED
    BY <2>2, <2>3, <2>4 DEF Measured
<1> DEFINE passes == /\ HistoryValid(LogBefore(rows, e.run, e.sequence), e) /\ Parses(e)
                     /\ Reducible(runs[e.run], e)
           inserts == /\ tx' = [tx EXCEPT ![w].rows = @ \cup {row}]
                      /\ Goto(w, "project")
                      /\ UNCHANGED <<file, tables, writer, job, awaited, outcome, answer>>
<1>5. IF ~ passes THEN Rollback(w, "rejected")
      ELSE IF InsertConflicts(rows, row) THEN Rollback(w, "conflict") ELSE inserts
  <2>1. Consistent(tx[w], e.run) /\ tx[w].rows = rows /\ tx[w].runs = runs
    BY <1>2, <1>4 DEF Committed
  <2>2. QED
    BY <2>1 DEF Insert
<1>6. CASE ~ passes
  BY <1>1, <1>5, <1>6, RollbackSound
<1>7. ASSUME passes
      PROVE  /\ HistoryValid(h, e) /\ Reducible(runs[e.run], e)
             /\ \A x \in rows : x.event.run = e.run => x.event.sequence # e.sequence
  <2>1. e.sequence = Len(h) + 1
    BY <1>4, <1>7 DEF Reducible, Addressed
  <2>2. LogBefore(rows, e.run, Len(h) + 1) = SubSeq(h, 1, Len(h))
    BY <1>4, StreamQueries
  <2>3. SubSeq(h, 1, Len(h)) = h
    BY <1>4
  <2>4. \A x \in rows : x.event.run = e.run => x.event.sequence # Len(h) + 1
    <3>1. SUFFICES ASSUME NEW x \in rows, x.event.run = e.run
                   PROVE  x.event.sequence # Len(h) + 1
      OBVIOUS
    <3>2. x.event \in EventsOf(rows, e.run)
      BY <3>1 DEF EventsOf
    <3>3. PICK i \in 1 .. Len(h) : x.event = h[i]
      BY <1>4, <3>2 DEF Stream, First
    <3>4. QED
      BY <1>4, <3>3 DEF Stream, Numbered
  <2> HIDE DEF h
  <2>5. QED
    BY <1>7, <2>1, <2>2, <2>3, <2>4
<1>8. CASE passes /\ InsertConflicts(rows, row)
  <2>1. Rollback(w, "conflict")
    BY <1>5, <1>8
  <2>2. \E x \in rows : x.id = row.id /\ x # row
    BY <1>7, <1>8 DEF InsertConflicts
  <2>3. QED
    BY <1>1, <2>1, <2>2, RollbackSound
<1>9. CASE passes /\ ~ InsertConflicts(rows, row)
  <2>1. inserts
    BY <1>5, <1>9
  <2>2. Acceptable(Committed, row)
    BY <1>3, <1>7, <1>9 DEF Acceptable, Committed
  <2>3. /\ Committed' = Committed /\ tables' = tables /\ file' = file /\ writer' = writer
        /\ job' = job /\ awaited' = awaited /\ outcome' = outcome /\ answer' = answer
        /\ pc' = [pc EXCEPT ![w] = "project"]
    BY <2>1 DEF Committed, tables, Goto
  <2>4. tx' = [tx EXCEPT ![w] = WithRow(Committed, row)]
    BY <1>2, <2>1 DEF WithRow
  <2>5. WithRow(Committed, row) \in Tables
    <3>1. WithRow(Committed, row) = [rows |-> Committed.rows \cup {row}, runs |-> Committed.runs]
      BY <1>1, TablesWith, Zenon
    <3>2. Committed.rows \in SUBSET Row /\ Committed.runs \in [RunIds -> RunState]
      BY <1>1 DEF TypeOK, Tables
    <3>3. QED
      BY <1>3, <3>1, <3>2 DEF Tables
  <2>6. TypeOK'
    BY <1>1, <2>3, <2>4, <2>5 DEF TypeOK
  <2>7. /\ pc'[w] = "project" /\ tx'[w] = WithRow(Committed, row) /\ outcome[w] = "none"
        /\ writer = w
    BY <1>1, <1>2, <2>3, <2>4 DEF TypeOK, WorkerSound, Label
  <2>8. Label(pc[w], job[w], outcome[w], writer = w)'
    BY <1>2, <2>3, <2>7 DEF Label
  <2>9. Transaction(Committed, pc[w], job[w], tx[w], answer[w])'
    BY <2>2, <2>3, <2>7 DEF Transaction
  <2>10. Told(Committed, job[w], outcome[w], answer[w])'
    BY <2>3, <2>7 DEF Told
  <2>11. QED
    BY <1>1, <2>3, <2>6, <2>8, <2>9, <2>10, StepWithoutCommit DEF WorkerSound
<1>10. QED
  BY <1>6, <1>8, <1>9

\* The projection is written in the same transaction.
LEMMA ProjectSound ==
  ASSUME IInv, NEW w \in Workers, Project(w)
  PROVE  IInv'
<1> DEFINE row == job[w].row
           e == row.event
           state == NextState(Committed, row)
<1>1. TypeOK /\ WorkerSound(w) /\ Step(w) /\ TablesSound(Committed)
  BY DEF IInv, Step, Work
<1>2. /\ pc[w] = "project" /\ job[w].op = "append" /\ Acceptable(Committed, row)
      /\ tx[w] = WithRow(Committed, row)
  BY <1>1 DEF Project, WorkerSound, Label, Transaction
<1>3. tx[w].runs = runs /\ state = Reduced(runs[e.run], e)
  BY <1>1, <1>2, TablesWith DEF Committed, NextState
<1> HIDE DEF state
<1>4. CASE ProjectionConflicts(runs, e.run, state)
  <2>1. Rollback(w, "error")
    BY <1>3, <1>4 DEF Project
  <2>2. QED
    BY <1>1, <2>1, RollbackSound
<1>5. CASE ~ ProjectionConflicts(runs, e.run, state)
  <2>1. /\ tx' = [tx EXCEPT ![w].runs[e.run] = state]
        /\ pc' = [pc EXCEPT ![w] = "commit"]
        /\ UNCHANGED <<file, tables, writer, job, awaited, outcome, answer>>
    BY <1>3, <1>5 DEF Project, Goto
  <2>2. Committed' = Committed /\ tables' = tables
    BY <2>1 DEF Committed, tables
  <2>3. tx' = [tx EXCEPT ![w] = WithFact(Committed, row)]
    BY <1>2, <2>1 DEF WithFact, state
  <2>4. WithFact(Committed, row) \in Tables
    BY <1>1, <1>2, <1>5, FactSound DEF TablesSound, Committed, state
  <2>5. TypeOK'
    BY <1>1, <2>1, <2>2, <2>3, <2>4 DEF TypeOK
  <2>6. /\ pc'[w] = "commit" /\ tx'[w] = WithFact(Committed, row) /\ outcome[w] = "none"
        /\ writer = w
    BY <1>1, <1>2, <2>1, <2>3 DEF TypeOK, WorkerSound, Label
  <2>7. Label(pc[w], job[w], outcome[w], writer = w)'
    BY <1>2, <2>1, <2>6 DEF Label
  <2>8. ~ ProjectionConflicts(Committed.runs, row.event.run, NextState(Committed, row))
    BY <1>5 DEF Committed, state
  <2>9. Transaction(Committed, pc[w], job[w], tx[w], answer[w])'
    BY <1>2, <2>1, <2>2, <2>6, <2>8 DEF Transaction
  <2>10. Told(Committed, job[w], outcome[w], answer[w])'
    BY <2>1, <2>2, <2>6 DEF Told
  <2>11. QED
    BY <1>1, <2>2, <2>5, <2>7, <2>9, <2>10, StepWithoutCommit DEF WorkerSound
<1>6. QED
  BY <1>4, <1>5

\* A commit leaves the other workers sound: none of them writes, a snapshot is
\* part of the new tables as well, and what was told stays true.
LEMMA OthersAfterCommit ==
  ASSUME IInv, NEW row, Acceptable(Committed, row), Committed' = WithFact(Committed, row),
         NEW u \in Workers, Same(u), writer # u
  PROVE  WorkerSound(u)'
<1>1. /\ TypeOK /\ TablesSound(Committed)
      /\ Label(pc[u], job[u], outcome[u], writer = u)
      /\ Transaction(Committed, pc[u], job[u], tx[u], answer[u])
      /\ Told(Committed, job[u], outcome[u], answer[u])
  BY DEF IInv, WorkerSound
<1>2. Label(pc[u], job[u], outcome[u], writer = u)'
  BY <1>1 DEF Same
<1>3. pc[u] \notin {"insert", "project", "commit"}
  BY <1>1 DEF Label
<1>4. Committed.rows \subseteq WithFact(Committed, row).rows
  <2>1. WithFact(Committed, row) = [rows |-> Committed.rows \cup {row},
          runs |-> [Committed.runs EXCEPT ![row.event.run] = NextState(Committed, row)]]
    BY <1>1, TablesWith, Zenon
  <2>2. QED
    BY <2>1
<1>5. Transaction(WithFact(Committed, row), pc[u], job[u], tx[u], answer[u])
  BY <1>1, <1>3, <1>4 DEF Transaction
<1>6. job[u] \in Jobs /\ answer[u] \in [state : RunState, events : Seq(Event)]
  BY <1>1 DEF TypeOK
<1>7. Told(WithFact(Committed, row), job[u], outcome[u], answer[u])
  BY <1>1, <1>6, ToldForEver
<1>8. QED
  BY <1>2, <1>5, <1>7 DEF WorkerSound, Same

\* COMMIT.
LEMMA CommitSound ==
  ASSUME IInv, NEW w \in Workers, Commit(w)
  PROVE  /\ IInv'
         /\ \E row \in Offers : /\ Acceptable(Committed, row)
                                /\ Committed' = WithFact(Committed, row)
<1> DEFINE row == job[w].row
           t1 == WithFact(Committed, row)
<1>1. TypeOK /\ WorkerSound(w) /\ Step(w) /\ TablesSound(Committed)
  BY DEF IInv, Step, Work
<1>2. /\ pc[w] = "commit" /\ job[w].op = "append" /\ Acceptable(Committed, row)
      /\ ~ ProjectionConflicts(Committed.runs, row.event.run, NextState(Committed, row))
      /\ tx[w] = t1 /\ writer = w
  BY <1>1 DEF Commit, WorkerSound, Label, Transaction
<1>3. TablesSound(t1)
  BY <1>1, <1>2, FactSound
<1>4. t1 = [rows |-> Committed.rows \cup {row},
            runs |-> [Committed.runs EXCEPT ![row.event.run] = NextState(Committed, row)]]
  BY <1>1, TablesWith, Zenon
<1> HIDE DEF t1
<1>5. Committed' = t1 /\ file' = file /\ answer' = answer /\ Finish(w, "ok")
  <2>1. rows' = t1.rows /\ runs' = t1.runs
    BY <1>2 DEF Commit
  <2>2. t1 = [rows |-> t1.rows, runs |-> t1.runs]
    BY <1>4
  <2>3. QED
    BY <2>1, <2>2 DEF Commit, Committed
<1>6. "ok" \in Outcomes
  BY DEF Outcomes
<1>7. TypeOK'
  <2>1. t1 \in Tables
    BY <1>3 DEF TablesSound
  <2>2. QED
    BY <1>1, <1>5, <1>6, <2>1, FinishTyped DEF TypeOK
<1>8. /\ pc'[w] = "idle" /\ writer' # w
      /\ outcome'[w] = "none" \/ (outcome'[w] = "ok" /\ job'[w] = job[w])
  BY <1>1, <1>5, <1>6, FinishTyped
<1>9. row \in t1.rows
  BY <1>4
<1>10. WorkerSound(w)'
  <2>1. Label(pc[w], job[w], outcome[w], writer = w)'
    BY <1>8 DEF Label
  <2>2. Transaction(Committed, pc[w], job[w], tx[w], answer[w])'
    BY <1>8 DEF Transaction
  <2>3. Told(Committed, job[w], outcome[w], answer[w])'
    BY <1>2, <1>5, <1>8, <1>9 DEF Told
  <2>4. QED
    BY <2>1, <2>2, <2>3 DEF WorkerSound
<1>11. ASSUME NEW u \in Workers, u # w
       PROVE  WorkerSound(u)'
  <2>1. Functions
    BY <1>1 DEF TypeOK, Functions
  <2>2. Same(u) /\ writer # u
    BY <1>1, <1>2, <1>11, <2>1, StepIsLocal
  <2>3. QED
    BY <1>2, <1>5, <2>2, OthersAfterCommit DEF t1
<1>12. \A u \in Workers : WorkerSound(u)'
  BY <1>10, <1>11
<1>13. IInv'
  BY <1>3, <1>5, <1>7, <1>12 DEF IInv
<1>14. row \in Offers
  BY <1>2 DEF Acceptable
<1>15. QED
  BY <1>2, <1>5, <1>13, <1>14 DEF t1

\* The first SELECT of a read takes the snapshot.
LEMMA ReadProjectionSound ==
  ASSUME IInv, NEW w \in Workers, ReadProjection(w)
  PROVE  IInv'
<1> DEFINE r == job[w].run
<1>1. TypeOK /\ WorkerSound(w) /\ Step(w) /\ TablesSound(Committed)
  BY DEF IInv, Step, Work
<1>2. /\ tx' = [tx EXCEPT ![w] = Committed]
      /\ answer' = [answer EXCEPT ![w].state = runs[r]]
      /\ pc' = [pc EXCEPT ![w] = "rows"]
      /\ UNCHANGED <<file, tables, writer, job, awaited, outcome>>
      /\ Committed' = Committed /\ tables' = tables /\ pc[w] = "read"
  BY DEF ReadProjection, Goto, Committed, tables
<1>3. job[w].op \in {"list", "get"} /\ r \in RunIds /\ outcome[w] = "none" /\ writer # w
  BY <1>1, <1>2, JobFields DEF WorkerSound, Label, TypeOK
<1>4. Committed \in Tables /\ runs[r] \in RunState /\ runs = Committed.runs
  BY <1>1, <1>3 DEF TypeOK, Tables, Committed
<1>5. TypeOK'
  <2>1. tx' \in [Workers -> Tables]
    BY <1>1, <1>2, <1>4 DEF TypeOK
  <2>2. answer' \in [Workers -> [state : RunState, events : Seq(Event)]]
    BY <1>1, <1>2, <1>4 DEF TypeOK
  <2>3. pc' \in [Workers -> {"idle", "open", "begin", "migrate", "insert", "project", "commit",
                             "read", "rows"}]
    BY <1>1, <1>2 DEF TypeOK
  <2>4. QED
    BY <1>1, <1>2, <2>1, <2>2, <2>3 DEF TypeOK
<1>6. pc'[w] = "rows" /\ tx'[w] = Committed /\ answer'[w].state = runs[r]
  BY <1>1, <1>2 DEF TypeOK
<1>7. Label(pc[w], job[w], outcome[w], writer = w)'
  BY <1>2, <1>3, <1>6 DEF Label
<1>8. Transaction(Committed, pc[w], job[w], tx[w], answer[w])'
  BY <1>1, <1>2, <1>4, <1>6 DEF Transaction
<1>9. Told(Committed, job[w], outcome[w], answer[w])'
  BY <1>2, <1>3 DEF Told
<1>10. QED
  BY <1>1, <1>2, <1>5, <1>7, <1>8, <1>9, StepWithoutCommit DEF WorkerSound

\* The page of a snapshot is a page of Events.
LEMMA PageIsSegment ==
  ASSUME NEW R, NEW r, NEW h, Stream(R, r, h), NEW after \in Nat, NEW limit \in Nat
  PROVE  /\ Page(R, r, after, limit) = SubSeq(h, after + 1, Min({after + limit, Len(h)}))
         /\ Page(R, r, after, limit) \in Seq(Event)
<1>1. LogOf(R, r) = h /\ Cardinality(EventsOf(R, r)) = Len(h) /\ h \in Seq(Event)
  BY StreamQueries DEF Stream, Numbered
<1>2. Min({after + limit, Len(h)}) \in {after + limit, Len(h)}
      /\ Min({after + limit, Len(h)}) <= Len(h)
  BY <1>1 DEF Min
<1>3. Page(R, r, after, limit) = SubSeq(h, after + 1, Min({after + limit, Len(h)}))
  BY <1>1 DEF Page
<1>4. ASSUME NEW n \in Nat, n <= Len(h)
      PROVE  SubSeq(h, after + 1, n) \in Seq(Event)
  BY <1>1, <1>4
<1>5. Min({after + limit, Len(h)}) \in Nat
  BY <1>1, <1>2
<1>6. QED
  BY <1>2, <1>3, <1>4, <1>5

\* The rest of a read: its answer is the snapshot's.
LEMMA ReadRowsSound ==
  ASSUME IInv, NEW w \in Workers, ReadRows(w)
  PROVE  IInv'
<1> DEFINE r == job[w].run
           j == job[w]
           s == answer[w].state
           h == LogOf(tx[w].rows, r)
<1>1. TypeOK /\ WorkerSound(w) /\ Step(w) /\ TablesSound(Committed)
  BY DEF IInv, Step, Work
<1>2. /\ pc[w] = "rows" /\ j.op \in {"list", "get"} /\ outcome[w] = "none" /\ writer # w
      /\ TablesSound(tx[w]) /\ tx[w].rows \subseteq rows /\ s = tx[w].runs[r]
      /\ r \in RunIds /\ j \in Jobs
      /\ j.op = "list" => j.after \in Nat /\ j.limit \in Nat
  BY <1>1, JobFields DEF ReadRows, WorkerSound, Label, Transaction, Committed, TypeOK
<1>3. Consistent([tx[w] EXCEPT !.runs[r] = s], r)
  <2>1. tx[w] \in Tables
    BY <1>2 DEF TablesSound
  <2>2. [tx[w] EXCEPT !.runs[r] = s] = tx[w]
    BY <1>2, <2>1 DEF Tables
  <2>3. QED
    BY <1>2, <2>2, SoundConsistent
<1>4. /\ answer' = IF ~ awaited[w] THEN [answer EXCEPT ![w] = NoAnswer]
                   ELSE IF j.op = "list"
                   THEN [answer EXCEPT ![w].events = Page(tx[w].rows, r, j.after, j.limit)]
                   ELSE answer
      /\ Finish(w, "ok") /\ file' = file /\ tables' = tables /\ Committed' = Committed
  BY <1>3 DEF ReadRows, tables, Committed
<1>5. /\ Stream(tx[w].rows, r, h) /\ h \in Seq(Event)
      /\ Measured(s, h) /\ Replays(s, h)
  BY <1>2 DEF TablesSound, RunSound, Stream, Numbered
<1>6. j.op = "list" =>
        /\ Page(tx[w].rows, r, j.after, j.limit)
           = SubSeq(h, j.after + 1, Min({j.after + j.limit, Len(h)}))
        /\ Page(tx[w].rows, r, j.after, j.limit) \in Seq(Event)
  BY <1>2, <1>5, PageIsSegment
<1>7. "ok" \in Outcomes
  BY DEF Outcomes
<1>8. /\ pc'[w] = "idle" /\ writer' # w
      /\ outcome'[w] = "none" \/ (outcome'[w] = "ok" /\ job'[w] = j)
  BY <1>1, <1>4, <1>7, FinishTyped
<1>9. answer' \in [Workers -> [state : RunState, events : Seq(Event)]]
  BY <1>1, <1>4, <1>6, NothingTyped DEF TypeOK
<1>10. TypeOK'
  BY <1>1, <1>4, <1>7, <1>9, FinishTyped DEF TypeOK, Committed
<1>11. Label(pc[w], job[w], outcome[w], writer = w)'
  BY <1>8 DEF Label
<1>12. Transaction(Committed, pc[w], job[w], tx[w], answer[w])'
  BY <1>8 DEF Transaction
<1>13. ASSUME awaited[w]
       PROVE  Answers(Committed, j, answer'[w])
  <2>1. Stream(rows, r, LogOf(rows, r))
    BY <1>1, <1>2 DEF TablesSound, RunSound, Committed
  <2>2. Len(h) <= Len(LogOf(rows, r)) /\ h = SubSeq(LogOf(rows, r), 1, Len(h))
    BY <1>2, <1>5, <2>1, StreamPrefix
  <2>3. s.last_sequence = Len(h)
    BY <1>5 DEF Measured
  <2>4. answer'[w].state = s
    BY <1>1, <1>4, <1>13 DEF TypeOK
  <2>5. j.op = "list" => answer'[w].events = SubSeq(h, j.after + 1, Min({j.after + j.limit, Len(h)}))
    BY <1>1, <1>4, <1>6, <1>13 DEF TypeOK
  <2> HIDE DEF h, s
  <2>6. QED
    BY <1>5, <2>2, <2>3, <2>4, <2>5 DEF Answers, Committed
<1>14. Told(Committed, job[w], outcome[w], answer[w])'
  <2>1. CASE outcome'[w] = "none"
    BY <2>1 DEF Told
  <2>2. CASE outcome'[w] # "none"
    <3>1. awaited[w]
      BY <1>1, <1>4, <2>2 DEF Finish, TypeOK
    <3>2. QED
      BY <1>2, <1>4, <1>8, <1>13, <2>2, <3>1 DEF Told
  <2>3. QED
    BY <2>1, <2>2
<1>15. QED
  BY <1>1, <1>4, <1>10, <1>11, <1>12, <1>14, StepWithoutCommit DEF WorkerSound

\* The process dies.
LEMMA CrashSound ==
  ASSUME IInv, Crash
  PROVE  IInv'
<1>1. TypeOK /\ TablesSound(Committed)
  BY DEF IInv
<1>2. Committed' = Committed /\ file' = file
  BY DEF Crash, Committed, tables
<1>3. TypeOK'
  BY <1>1, <1>2, NothingTyped DEF Crash, TypeOK, Outcomes
<1>4. ASSUME NEW w \in Workers
      PROVE  WorkerSound(w)'
  <2>1. pc'[w] = "idle" /\ job'[w] = NoJob /\ outcome'[w] = "none" /\ writer' # w
    BY WorkersAssumption DEF Crash
  <2>2. QED
    BY <2>1 DEF WorkerSound, Label, Transaction, Told
<1>5. QED
  BY <1>1, <1>2, <1>3, <1>4 DEF IInv

\* What a step does to the tables: nothing, or it adds an acceptable fact.
LEMMA TablesStep ==
  ASSUME IInv, [Next]_vars
  PROVE  \/ tables' = tables
         \/ \E row \in Offers : /\ Acceptable(Committed, row)
                                /\ Committed' = WithFact(Committed, row)
<1>1. CASE UNCHANGED vars
  BY <1>1 DEF vars, tables
<1>2. CASE Crash
  BY <1>2 DEF Crash
<1>3. ASSUME NEW w \in Workers, Step(w)
      PROVE  \/ tables' = tables
             \/ \E row \in Offers : /\ Acceptable(Committed, row)
                                    /\ Committed' = WithFact(Committed, row)
  <2>1. CASE Commit(w)
    BY <2>1, CommitSound
  <2>2. ASSUME NEW result, Rollback(w, result)
        PROVE  tables' = tables
    BY <2>2 DEF Rollback
  <2>3. CASE Insert(w)
    BY <2>2, <2>3, Zenon DEF Insert
  <2>4. CASE Project(w)
    BY <2>2, <2>4, Zenon DEF Project
  <2>5. CASE ReadRows(w)
    BY <2>2, <2>5, Zenon DEF ReadRows
  <2>6. CASE Open(w) \/ Busy(w) \/ Fail(w)
    BY <2>2, <2>6, Zenon DEF Open, Busy, Fail
  <2>7. CASE (\E j \in Jobs \ {NoJob} : Call(w, j)) \/ Cancel(w) \/ Create(w) \/ Begin(w)
    BY <2>7, Zenon DEF Call, Cancel, Create, Begin
  <2>8. CASE Migrate(w) \/ ReadProjection(w)
    BY <2>8, Zenon DEF Migrate, ReadProjection
  <2>9. QED
    BY <1>3, <2>1, <2>3, <2>4, <2>5, <2>6, <2>7, <2>8 DEF Step, Work
<1>4. QED
  BY <1>1, <1>2, <1>3 DEF Next, Step

\* Each step preserves the invariant.
LEMMA Inductive == IInv /\ [Next]_vars => IInv'
<1> SUFFICES ASSUME IInv, [Next]_vars
             PROVE  IInv'
  OBVIOUS
<1>1. CASE UNCHANGED vars
  <2>1. TypeOK'
    BY <1>1 DEF IInv, TypeOK, vars, tables, Committed
  <2>2. Committed' = Committed
    BY <1>1 DEF vars, tables, Committed
  <2>3. \A w \in Workers : WorkerSound(w)'
    BY <1>1, <2>2 DEF IInv, vars, WorkerSound
  <2>4. QED
    BY <2>1, <2>2, <2>3 DEF IInv
<1>2. CASE Crash
  BY <1>2, CrashSound
<1>3. ASSUME NEW w \in Workers, Step(w)
      PROVE  IInv'
  <2>1. ASSUME NEW j \in Jobs \ {NoJob}, Call(w, j)
        PROVE  IInv'
    BY <2>1, CallSound
  <2>2. CASE Cancel(w)
    BY <2>2, CancelSound
  <2>3. CASE Create(w) \/ Open(w)
    BY <2>3, OpenSound
  <2>4. CASE Begin(w)
    BY <2>4, BeginSound
  <2>5. CASE Busy(w) \/ Fail(w)
    BY <1>3, <2>5, RollbackSound DEF Busy, Fail
  <2>6. CASE Migrate(w)
    BY <2>6, MigrateSound
  <2>7. CASE Insert(w)
    BY <2>7, InsertSound
  <2>8. CASE Project(w)
    BY <2>8, ProjectSound
  <2>9. CASE Commit(w)
    BY <2>9, CommitSound
  <2>10. CASE ReadProjection(w)
    BY <2>10, ReadProjectionSound
  <2>11. CASE ReadRows(w)
    BY <2>11, ReadRowsSound
  <2>12. QED
    BY <1>3, <2>1, <2>2, <2>3, <2>4, <2>5, <2>6, <2>7, <2>8, <2>9, <2>10, <2>11 DEF Step, Work
<1>4. QED
  BY <1>1, <1>2, <1>3 DEF Next, Step

\* The invariant holds in every state of every behaviour.
LEMMA Invariant == Spec => []IInv
BY Initial, Inductive, PTL DEF Spec

-----------------------------------------------------------------------------
(* Results *)

\* One event_id, one fact; one Activity, one request, in one Run.
LEMMA SoundIdentities == IInv => IdentitiesUnique
<1> SUFFICES ASSUME IInv
             PROVE  IdentitiesUnique
  OBVIOUS
<1>1. /\ rows \in SUBSET Row /\ OneIdentity(rows) /\ ActivitiesApart(runs)
      /\ \A r \in RunIds : RunSound(rows, runs[r], r)
  BY DEF IInv, TablesSound, Committed, Tables
<1>2. ASSUME NEW x \in rows
      PROVE  /\ x.event.run \in RunIds
             /\ \E i \in 1 .. Len(LogOf(rows, x.event.run)) :
                  x.event = LogOf(rows, x.event.run)[i]
  <2>1. x.event.run \in RunIds
    BY <1>1 DEF Row, Event
  <2>2. Stream(rows, x.event.run, LogOf(rows, x.event.run))
    BY <1>1, <2>1 DEF RunSound
  <2>3. x.event \in EventsOf(rows, x.event.run)
    BY DEF EventsOf
  <2>4. QED
    BY <2>1, <2>2, <2>3 DEF Stream, First
<1>3. ASSUME NEW x \in rows, NEW y \in rows,
             x.event.type = "Requested", y.event.type = "Requested",
             x.event.activity = y.event.activity
      PROVE  x = y
  <2> DEFINE r == x.event.run
             q == y.event.run
             h == LogOf(rows, r)
             g == LogOf(rows, q)
  <2>1. PICK i \in 1 .. Len(h) : x.event = h[i]
    BY <1>2
  <2>2. PICK j \in 1 .. Len(g) : y.event = g[j]
    BY <1>2
  <2>3. /\ r \in RunIds /\ q \in RunIds
        /\ h \in Seq(Event) /\ g \in Seq(Event)
        /\ RequestsListed(runs[r], h) /\ RequestsListed(runs[q], g)
    BY <1>1, <1>2 DEF RunSound, Stream, Numbered
  <2> HIDE DEF h, g
  <2>4. CASE r = q
    <3>1. i = j
      BY <1>3, <2>1, <2>2, <2>3, <2>4 DEF RequestsListed, h, g
    <3>2. x.event.sequence = y.event.sequence
      BY <2>1, <2>2, <2>4, <3>1 DEF h, g
    <3>3. QED
      BY <1>1, <2>4, <3>2 DEF OneIdentity
  <2>5. CASE r # q
    <3>1. \E k \in DOMAIN runs[r].activities : runs[r].activities[k].activity = h[i].activity
      BY <1>3, <2>1, <2>3 DEF RequestsListed
    <3>2. \E k \in DOMAIN runs[q].activities : runs[q].activities[k].activity = g[j].activity
      BY <1>3, <2>2, <2>3 DEF RequestsListed
    <3>3. QED
      BY <1>1, <1>3, <2>1, <2>2, <2>3, <2>5, <3>1, <3>2 DEF ActivitiesApart
  <2>6. QED
    BY <2>4, <2>5
<1>4. QED
  BY <1>1, <1>3 DEF IdentitiesUnique, OneIdentity

\* For any number of workers, Runs and Events, whatever fails and wherever the
\* process dies: the database and the workers keep their types, every fact has
\* one identity, no call finds projection and stream out of step, every stream
\* is gapless, and every projection is what reduce_events makes of its stream.
THEOREM StoreSound == Spec => []StoreInvariant
<1>1. IInv => StoreInvariant
  <2> SUFFICES ASSUME IInv
               PROVE  StoreInvariant
    OBVIOUS
  <2>1. TypeOK /\ IdentitiesUnique
    BY SoundIdentities DEF IInv
  <2>2. NeverCorrupt
    BY DEF IInv, WorkerSound, Told, NeverCorrupt
  <2>3. ASSUME NEW r \in RunIds
        PROVE  Contiguous(rows, r) /\ runs[r] = Replayed(LogOf(rows, r))
    <3>1. Stream(rows, r, LogOf(rows, r)) /\ Replays(runs[r], LogOf(rows, r))
      BY DEF IInv, TablesSound, Committed, RunSound
    <3>2. QED
      BY <3>1, StreamQueries, ReplaysIsReplayed
  <2>4. QED
    BY <2>1, <2>2, <2>3 DEF StoreInvariant, ProjectionIsFold
<1>2. QED
  BY <1>1, Invariant, PTL

\* An append that returned is stored, through every failure and crash.
THEOREM ReturnedStored == Spec => []ReturnedIsStored
<1>1. IInv => ReturnedIsStored
  BY DEF IInv, WorkerSound, Told, Committed, ReturnedIsStored
<1>2. QED
  BY <1>1, Invariant, PTL

\* A conflict was told to the caller of another fact, and stays right.
THEOREM ConflictsFinal == Spec => []ConflictIsFinal
<1>1. IInv => ConflictIsFinal
  BY DEF IInv, WorkerSound, Told, Committed, ConflictIsFinal
<1>2. QED
  BY <1>1, Invariant, PTL

\* What a reader was told is the fold of a prefix of the stream as it is now,
\* and its page the segment of that prefix it asked for.
THEOREM ReadsSnapshots == Spec => []ReadsAreSnapshots
<1>1. ASSUME IInv, NEW w \in Workers, outcome[w] = "ok", job[w].op \in {"list", "get"}
      PROVE  LET seen == answer[w].state
                 prefix == LogBefore(rows, job[w].run, seen.last_sequence + 1)
             IN  /\ seen = Replayed(prefix)
                 /\ job[w].op = "list" =>
                      LET asked == {i \in DOMAIN prefix :
                                      job[w].after < i /\ i <= job[w].after + job[w].limit}
                      IN  /\ Len(answer[w].events) = Cardinality(asked)
                          /\ \A i \in DOMAIN answer[w].events :
                               answer[w].events[i] = prefix[job[w].after + i]
  <2> DEFINE r == job[w].run
             h == LogOf(rows, r)
             seen == answer[w].state
             n == seen.last_sequence
             prefix == LogBefore(rows, r, n + 1)
             page == answer[w].events
             after == job[w].after
             limit == job[w].limit
             asked == {i \in DOMAIN prefix : after < i /\ i <= after + limit}
  <2>1. /\ job[w] \in Jobs /\ r \in RunIds /\ n \in Nat
        /\ job[w].op = "list" => after \in Nat /\ limit \in Nat \ {0}
    <3>1. job[w] \in Jobs /\ answer[w] \in [state : RunState, events : Seq(Event)]
      BY <1>1 DEF IInv, TypeOK
    <3>2. n \in Nat
      BY <3>1 DEF RunState
    <3>3. QED
      BY <1>1, <3>1, <3>2, JobFields
  <2>2. Stream(rows, r, h) /\ h \in Seq(Event)
    BY <1>1, <2>1 DEF IInv, TablesSound, Committed, RunSound, Stream, Numbered
  <2>3. Answers(Committed, job[w], answer[w])
    BY <1>1 DEF IInv, WorkerSound, Told
  <2>4. /\ n <= Len(h) /\ Replays(seen, SubSeq(h, 1, n))
        /\ job[w].op = "list" =>
             page = SubSeq(SubSeq(h, 1, n), after + 1, Min({after + limit, n}))
    BY <2>3 DEF Answers, Committed
  <2>5. prefix = SubSeq(h, 1, n)
    BY <2>1, <2>2, <2>4, StreamQueries
  <2>6. prefix \in Seq(Event) /\ Len(prefix) = n /\ DOMAIN prefix = 1 .. n
    <3> HIDE DEF h, n, prefix
    <3>1. QED
      BY <2>1, <2>2, <2>4, <2>5
  <2>7. seen = Replayed(prefix)
    BY <2>4, <2>5, ReplaysIsReplayed
  <2>8. ASSUME job[w].op = "list"
        PROVE  Len(page) = Cardinality(asked) /\ \A i \in DOMAIN page : page[i] = prefix[after + i]
    <3> HIDE DEF h, n, prefix, page, after, limit
    <3> DEFINE last == Min({after + limit, n})
    <3>1. after \in Nat /\ limit \in Nat \ {0} /\ n \in Nat
      BY <2>1, <2>8
    <3>2. last \in {after + limit, n} /\ last <= n /\ last <= after + limit
      BY <3>1 DEF Min
    <3>3. page = SubSeq(prefix, after + 1, last)
      BY <2>4, <2>5, <2>8
    <3> HIDE DEF last
    <3>4. last \in Nat
      BY <3>1, <3>2
    <3>5. asked = (after + 1) .. last
      BY <2>6, <3>1, <3>2, <3>4
    <3> HIDE DEF asked
    <3>6. Cardinality(asked) = IF after + 1 > last THEN 0 ELSE last - after
      <4>1. Cardinality((after + 1) .. last)
            = IF after + 1 > last THEN 0 ELSE last - (after + 1) + 1
        BY <3>1, <3>4, FS_Interval
      <4>2. QED
        BY <3>1, <3>4, <3>5, <4>1
    <3>7. Len(page) = Cardinality(asked)
      BY <2>6, <3>1, <3>2, <3>3, <3>4, <3>6
    <3>8. \A i \in DOMAIN page : page[i] = prefix[after + i]
      BY <2>6, <3>1, <3>2, <3>3, <3>4
    <3>9. QED
      BY <3>7, <3>8
  <2>9. QED
    BY <2>7, <2>8
<1>2. IInv => ReadsAreSnapshots
  BY <1>1 DEF ReadsAreSnapshots
<1>3. QED
  BY <1>2, Invariant, PTL

-----------------------------------------------------------------------------
(* Refinement: every committed Run is a behaviour of the reducer *)

\* RunReducer is instantiated with the store's constants: its operators are those
\* that _append_sync calls.
LEMMA SameChecks ==
  ASSUME NEW r \in RunIds, NEW s, NEW h, NEW e
  PROVE  /\ Stored(r)!HistoryValid(h, e) = HistoryValid(h, e)
         /\ Stored(r)!Reducible(s, e) = Reducible(s, e)
         /\ Stored(r)!Reduced(s, e) = Reduced(s, e)
<1>1. Stored(r)!Reduced(s, e) = Reduced(s, e)
  BY DEF Stored!Reduced, Reduced, Stored!Created, Created, Stored!NoRun, NoRun,
     Stored!NoLimits, NoLimits, Stored!NoTime, NoTime, Stored!WithStatus, WithStatus,
     Stored!WithRequested, WithRequested, Stored!Counted, Counted,
     Stored!WithActivity, WithActivity, Stored!WithTerminal, WithTerminal,
     Stored!ModelUsage, ModelUsage
<1>2. Stored(r)!HistoryValid(h, e) = HistoryValid(h, e)
  BY DEF Stored!HistoryValid, HistoryValid, Stored!EVIDENCE_VERSION, EVIDENCE_VERSION
<1>3. Stored(r)!Guard(s, e) = Guard(s, e) /\ Stored(r)!IsTerminal(s) = IsTerminal(s)
  BY DEF Stored!Guard, Guard, Stored!RequestGuard, RequestGuard, Stored!RequestReady,
     RequestReady, Stored!HasActive, HasActive, Stored!IsActive, IsActive,
     Stored!UniqueIds, UniqueIds, Stored!BudgetCheckable, BudgetCheckable,
     Stored!BudgetExhausted, BudgetExhausted, Stored!Tokens, Tokens,
     Stored!MatchingActivity, MatchingActivity, Stored!IsTerminal, IsTerminal
<1>4. Stored(r)!Addressed(s, e) = Addressed(s, e)
  BY DEF Stored!Addressed, Addressed
<1>5. \A t : Stored(r)!Valid(t) = Valid(t)
  BY DEF Stored!Valid, Valid, Stored!UsageInBounds, UsageInBounds,
     Stored!MAX_CUMULATIVE_TOKENS, MAX_CUMULATIVE_TOKENS,
     Stored!MAX_CUMULATIVE_COST_MICROUSD, MAX_CUMULATIVE_COST_MICROUSD,
     Stored!ConsistentProjection, ConsistentProjection, Stored!IsTerminal, IsTerminal,
     Stored!HasActive, HasActive, Stored!IsActive, IsActive, Stored!NoTime, NoTime
<1>6. Stored(r)!Reducible(s, e) = Reducible(s, e)
  BY <1>1, <1>3, <1>4, <1>5 DEF Stored!Reducible, Reducible
<1>7. QED
  BY <1>1, <1>2, <1>6

\* So are the Events that it is offered.
LEMMA SamePayloads ==
  ASSUME NEW r \in RunIds, NEW q \in RunIds, NEW n \in Nat, NEW e \in Payloads(q, n)
  PROVE  \/ e \in Stored(r)!CreatedEvents(q, n)
         \/ e \in Stored(r)!StartedEvents(q, n)
         \/ e \in Stored(r)!FinishedEvents(q, n)
         \/ e \in Stored(r)!ModelRequests(q, n)
         \/ e \in Stored(r)!ToolRequests(q, n)
         \/ e \in Stored(r)!ActivityStarts(q, n)
         \/ e \in Stored(r)!ModelResults(q, n)
         \/ e \in Stored(r)!ToolResults(q, n)
<1> USE DEF Stored!Blank, Blank, Stored!NoUsage, NoUsage, Stored!NoLimits, NoLimits,
            Stored!NoTime, NoTime, Stored!NoEvidence, NoEvidence, Stored!Kinds, Kinds
<1>1. Stored(r)!CreatedEvents(q, n) = CreatedEvents(q, n)
  BY DEF Stored!CreatedEvents, CreatedEvents
<1>2. Stored(r)!StartedEvents(q, n) = StartedEvents(q, n)
  BY DEF Stored!StartedEvents, StartedEvents
<1>3. Stored(r)!FinishedEvents(q, n) = FinishedEvents(q, n)
  BY DEF Stored!FinishedEvents, FinishedEvents
<1>4. \A k, a, c, t, x :
        Stored(r)!RequestEvent(q, n, k, a, c, t, x) = RequestEvent(q, n, k, a, c, t, x)
  BY DEF Stored!RequestEvent, RequestEvent
<1>5. \A k, a, c : Stored(r)!StartEvent(q, n, k, a, c) = StartEvent(q, n, k, a, c)
  BY DEF Stored!StartEvent, StartEvent
<1>6. \A type, k, a, c, x, u : Stored(r)!ResultEvent(q, n, type, k, a, c, x, u)
                               = ResultEvent(q, n, type, k, a, c, x, u)
  BY DEF Stored!ResultEvent, ResultEvent
<1>7. Stored(r)!Evidence = Evidence
  BY DEF Stored!Evidence, Evidence, Stored!EVIDENCE_VERSION, EVIDENCE_VERSION
<1>8. Stored(r)!ModelRequests(q, n) = ModelRequests(q, n)
  BY <1>4 DEF Stored!ModelRequests, ModelRequests
<1>9. Stored(r)!ToolRequests(q, n) = ToolRequests(q, n)
  BY <1>4, <1>7 DEF Stored!ToolRequests, ToolRequests
<1>10. Stored(r)!ActivityStarts(q, n) = ActivityStarts(q, n)
  BY <1>5 DEF Stored!ActivityStarts, ActivityStarts
<1>11. Stored(r)!ModelResults(q, n) = ModelResults(q, n)
  BY <1>6 DEF Stored!ModelResults, ModelResults
<1>12. Stored(r)!ToolResults(q, n) = ToolResults(q, n)
  BY <1>6, <1>7 DEF Stored!ToolResults, ToolResults
<1>13. QED
  BY <1>1, <1>2, <1>3, <1>8, <1>9, <1>10, <1>11, <1>12 DEF Payloads

\* The commit of a fact is an Offer to the Run's reducer, and no Event to another's.
LEMMA CommitOffers ==
  ASSUME TablesSound(Committed), NEW row \in Offers, Acceptable(Committed, row),
         Committed' = WithFact(Committed, row), NEW r \in RunIds
  PROVE  UNCHANGED Stored(r)!vars \/ Stored(r)!Offer(r, Len(LogOf(rows', r)))
<1> DEFINE e == row.event
           h == LogOf(rows, r)
           h1 == LogOf(rows', r)
<1>1. /\ rows' = rows \cup {row}
      /\ runs' = [runs EXCEPT ![e.run] = NextState(Committed, row)]
  <2>1. Committed' = [rows |-> Committed.rows \cup {row},
                      runs |-> [Committed.runs EXCEPT ![e.run] = NextState(Committed, row)]]
    BY TablesWith, Zenon
  <2>2. /\ Committed.rows = rows /\ Committed.runs = runs
        /\ (Committed').rows = rows' /\ (Committed').runs = runs'
    BY DEF Committed
  <2>3. QED
    BY <2>1, <2>2
<1>2. h1 = IF r = e.run THEN Append(h, e) ELSE h
  <2>1. LogOf(Committed.rows \cup {row}, r)
        = IF r = e.run THEN Append(LogOf(Committed.rows, r), e) ELSE LogOf(Committed.rows, r)
    BY RowStreams, Zenon
  <2>2. Committed.rows = rows
    BY DEF Committed
  <2>3. QED
    BY <1>1, <2>1, <2>2
<1>3. runs \in [RunIds -> RunState] /\ h \in Seq(Event)
  BY DEF TablesSound, Tables, Committed, RunSound, Stream, Numbered
<1>4. CASE r # e.run
  <2>1. runs'[r] = runs[r]
    BY <1>1, <1>3, <1>4
  <2>2. QED
    BY <1>2, <1>4, <2>1 DEF Stored!vars
<1>5. CASE r = e.run
  <2>1. /\ Folds(runs[r], h, e, NextState(Committed, row), Append(h, e))
        /\ e.sequence = Len(h) + 1
    BY <1>5, AcceptableFolds DEF Committed
  <2>2. runs'[r] = Reduced(runs[r], e) /\ h1 = Append(h, e)
    BY <1>1, <1>2, <1>3, <1>5 DEF NextState, Committed
  <2>3. Stored(r)!Fold(e)
    <3>1. HistoryValid(h, e) /\ Reducible(runs[r], e)
      BY <2>1 DEF Folds
    <3>2. QED
      BY <2>2, <3>1, SameChecks DEF Stored!Fold
  <2>4. Len(h1) = e.sequence /\ Len(h1) \in Nat
    BY <1>3, <2>1, <2>2
  <2>5. e \in Payloads(r, Len(h1))
    BY <1>5, <2>4 DEF Acceptable, Parses
  <2> DEFINE n == Len(h1)
  <2> HIDE DEF n, h1, h, e
  <2>6. Stored(r)!Offer(r, n)
    BY <2>3, <2>4, <2>5, SamePayloads
      DEF n, Stored!Offer, Stored!CreateRun, Stored!StartRun, Stored!RequestModel,
          Stored!RequestTool, Stored!StartActivity, Stored!FinishModel, Stored!FinishTool,
          Stored!FinishRun
  <2>7. QED
    BY <2>6 DEF n, h1
<1>6. QED
  BY <1>4, <1>5

\* Every committed Run is a behaviour of the reducer's state machine: whatever
\* workers do to each other and wherever the process dies, the stream and the
\* projection of a Run change together, by one Event the reducer takes.
THEOREM StoreImplementsReducer == Spec => RunsFollowReducer
<1>1. Init => \A r \in RunIds : Stored(r)!Init
  <2> SUFFICES ASSUME Init, NEW r \in RunIds
               PROVE  Stored(r)!Init
    OBVIOUS
  <2>1. runs[r] = NoRun /\ LogOf(rows, r) = << >>
    <3>1. Numbered(<< >>) /\ rows = {} /\ Len(<< >>) = 0 /\ DOMAIN << >> = {}
      BY DEF Init, Numbered
    <3>2. EventsOf(rows, r) = {} /\ First(<< >>, 0) = {}
      BY <3>1 DEF First, EventsOf
    <3>3. Stream(rows, r, << >>)
      BY <3>1, <3>2 DEF Stream
    <3>4. QED
      BY <3>3, StreamQueries DEF Init
  <2>2. QED
    BY <2>1 DEF Stored!Init, Stored!NoRun, NoRun, Stored!NoLimits, NoLimits,
       Stored!NoTime, NoTime
<1>2. IInv /\ [Next]_vars =>
        [\A r \in RunIds :
           UNCHANGED Stored(r)!vars \/ Stored(r)!Offer(r, Len(LogOf(rows', r)))]_tables
  <2> SUFFICES ASSUME IInv, [Next]_vars, tables' # tables, NEW r \in RunIds
               PROVE  UNCHANGED Stored(r)!vars \/ Stored(r)!Offer(r, Len(LogOf(rows', r)))
    OBVIOUS
  <2>1. PICK row \in Offers : /\ Acceptable(Committed, row)
                              /\ Committed' = WithFact(Committed, row)
    BY TablesStep
  <2>2. QED
    BY <2>1, CommitOffers DEF IInv
<1>3. QED
  BY <1>1, <1>2, Invariant, PTL DEF Spec, RunsFollowReducer
==============================================================================
