-------------------------- MODULE ModelProvidersProofs --------------------------
(***************************************************************************)
(* Proofs about the model providers: the collector returns exactly the     *)
(* messages, and the three adapters keep the contract of the port, for all *)
(* wire events, parsers and limits.                                        *)
(***************************************************************************)
EXTENDS MCModelProviders, FiniteSetTheorems, SequenceTheorems, WellFoundedInduction, TLAPS

-----------------------------------------------------------------------------
(* Induction over the natural numbers, on sets *)

\* The order of the natural numbers, as a relation.
LEMMA NaturalOrder ==
  \E R : IsWellFoundedOn(R, Nat) /\ \A x, y \in Nat : <<x, y>> \in R <=> x < y
<1>1. \A x, y \in Nat : <<x, y>> \in OpToRel(<, Nat) <=> x < y
  BY DEF OpToRel
<1>2. QED
  BY <1>1, NatLessThanWellFounded, Zenon

\* A set with 0 and with the successor of each of its numbers has them all.
LEMMA SetInduction ==
  ASSUME NEW T, 0 \in T, \A n \in Nat : n \in T => n + 1 \in T
  PROVE  Nat \subseteq T
<1> DEFINE U == {n \in Nat : n \notin T}
<1>1. SUFFICES ASSUME U # {}
               PROVE  FALSE
  OBVIOUS
<1>2. PICK R : IsWellFoundedOn(R, Nat) /\ \A x, y \in Nat : <<x, y>> \in R <=> x < y
  BY NaturalOrder
<1>3. U # {} /\ U \subseteq Nat /\ IsWellFoundedOn(R, Nat)
  BY <1>1, <1>2
<1>4. \E x \in U : \A y \in U : ~ (<<y, x>> \in R)
  BY ONLY <1>3, WFMin, Zenon
<1>5. PICK x \in U : \A y \in U : ~ (<<y, x>> \in R)
  BY <1>4
<1>6. x # 0 /\ x \in Nat
  BY <1>5
<1>7. x - 1 \in Nat /\ x - 1 < x /\ (x - 1) + 1 = x
  BY <1>6
<1>8. x - 1 \notin U
  BY <1>2, <1>5, <1>6, <1>7
<1>9. QED
  BY <1>5, <1>7, <1>8

-----------------------------------------------------------------------------
(* Joining the pieces of a text, and the calls of a stream *)

\* The function of which FlattenSeq returns the last value.
Joins(f, t, n) == f = [i \in 1 .. n |-> IF i = 1 THEN t[i] ELSE f[i - 1] \o t[i]]

\* Such a function exists for the first n pieces.
LEMMA JoinsExist ==
  ASSUME NEW t, NEW n \in Nat
  PROVE  \E f : Joins(f, t, n)
<1> DEFINE T == {k \in Nat : \E f : Joins(f, t, k)}
<1>1. 0 \in T
  <2>1. Joins([i \in 1 .. 0 |-> <<>>], t, 0)
    BY DEF Joins
  <2>2. QED
    BY <2>1
<1>2. ASSUME NEW k \in Nat, k \in T
      PROVE  k + 1 \in T
  <2>1. PICK f : Joins(f, t, k)
    BY <1>2
  <2> DEFINE new == IF k + 1 = 1 THEN t[k + 1] ELSE f[k] \o t[k + 1]
             g == [i \in 1 .. k + 1 |-> IF i = k + 1 THEN new ELSE f[i]]
  <2>2. \A i \in 1 .. k : g[i] = f[i]
    OBVIOUS
  <2>3. \A i \in 1 .. k : f[i] = IF i = 1 THEN t[i] ELSE f[i - 1] \o t[i]
    BY <2>1 DEF Joins
  <2>4. ASSUME NEW i \in 1 .. k + 1
        PROVE  g[i] = IF i = 1 THEN t[i] ELSE g[i - 1] \o t[i]
    <3>1. CASE i = k + 1
      <4>1. i # 1 => i - 1 \in 1 .. k /\ i - 1 = k
        BY <3>1
      <4>2. g[i] = IF i = 1 THEN t[i] ELSE f[i - 1] \o t[i]
        BY <3>1
      <4>3. QED
        BY <2>2, <4>1, <4>2
    <3>2. CASE i # k + 1
      <4>1. i \in 1 .. k /\ (i # 1 => i - 1 \in 1 .. k)
        BY <3>2
      <4>2. QED
        BY <2>2, <2>3, <4>1
    <3>3. QED
      BY <3>1, <3>2
  <2>5. g = [i \in 1 .. k + 1 |-> IF i = 1 THEN t[i] ELSE g[i - 1] \o t[i]]
    <3>1. g = [i \in 1 .. k + 1 |-> g[i]]
      OBVIOUS
    <3> HIDE DEF g
    <3>2. QED
      BY <2>4, <3>1
  <2> HIDE DEF g
  <2>6. Joins(g, t, k + 1)
    BY <2>5, Zenon DEF Joins
  <2>7. QED
    BY <2>6
<1>3. n \in T
  <2> HIDE DEF T
  <2>1. QED
    BY <1>1, <1>2, SetInduction
<1>4. QED
  BY <1>3

\* Its values, one after the other.
LEMMA JoinsAt ==
  ASSUME NEW f, NEW t, NEW n \in Nat, Joins(f, t, n), NEW k \in 0 .. n - 1
  PROVE  /\ k = 0 => f[k + 1] = t[k + 1]
         /\ k # 0 => k \in 1 .. n /\ f[k + 1] = f[k] \o t[k + 1]
<1>1. k + 1 \in 1 .. n /\ (k + 1) - 1 = k /\ (k + 1 = 1 <=> k = 0) /\ (k # 0 => k \in 1 .. n)
  OBVIOUS
<1>2. f = [i \in 1 .. n |-> IF i = 1 THEN t[i] ELSE f[i - 1] \o t[i]]
  BY DEF Joins
<1>3. f[k + 1] = IF k + 1 = 1 THEN t[k + 1] ELSE f[(k + 1) - 1] \o t[k + 1]
  BY ONLY <1>1, <1>2
<1>4. QED
  BY ONLY <1>1, <1>3

\* What FlattenSeq returns of no piece and of some.
LEMMA FlattenIsLast ==
  ASSUME NEW t, NEW n \in Nat, Len(t) = n
  PROVE  /\ n = 0 => FlattenSeq(t) = t
         /\ n # 0 => \E f : Joins(f, t, n) /\ FlattenSeq(t) = f[n]
<1>1. ASSUME n = 0
      PROVE  FlattenSeq(t) = t
  BY <1>1, Zenon DEF FlattenSeq
<1>2. ASSUME n # 0
      PROVE  \E f : Joins(f, t, n) /\ FlattenSeq(t) = f[n]
  <2> DEFINE Good(f) == f = [i \in 1 .. Len(t) |-> IF i = 1 THEN t[i] ELSE f[i - 1] \o t[i]]
  <2>1. \E f : Good(f)
    BY JoinsExist, Zenon DEF Joins
  <2>2. Good(CHOOSE f : Good(f))
    BY <2>1, Zenon
  <2>3. FlattenSeq(t) = (CHOOSE f : Good(f))[Len(t)]
    BY <1>2, Zenon DEF FlattenSeq
  <2>4. QED
    BY <2>2, <2>3, Zenon DEF Joins
<1>3. QED
  BY <1>1, <1>2

\* Two such functions are the same where both are defined and the pieces are.
LEMMA JoinsAgree ==
  ASSUME NEW f, NEW g, NEW t, NEW u, NEW n \in Nat, NEW m \in Nat, n <= m,
         Joins(f, t, n), Joins(g, u, m), \A i \in 1 .. n : t[i] = u[i]
  PROVE  \A i \in 1 .. n : f[i] = g[i]
<1> DEFINE T == {k \in Nat : k \in 1 .. n => f[k] = g[k]}
<1>1. 0 \in T
  OBVIOUS
<1>2. ASSUME NEW k \in Nat, k \in T
      PROVE  k + 1 \in T
  <2>1. SUFFICES ASSUME k + 1 \in 1 .. n
                 PROVE  f[k + 1] = g[k + 1]
    OBVIOUS
  <2>2. k \in 0 .. n - 1 /\ k \in 0 .. m - 1
    BY <2>1
  <2>3. /\ k = 0 => f[k + 1] = t[k + 1]
        /\ k # 0 => k \in 1 .. n /\ f[k + 1] = f[k] \o t[k + 1]
    BY ONLY Joins(f, t, n), n \in Nat, <2>2, JoinsAt
  <2>4. /\ k = 0 => g[k + 1] = u[k + 1]
        /\ k # 0 => k \in 1 .. m /\ g[k + 1] = g[k] \o u[k + 1]
    BY ONLY Joins(g, u, m), m \in Nat, <2>2, JoinsAt
  <2>5. QED
    BY <1>2, <2>1, <2>3, <2>4
<1>3. Nat \subseteq T
  <2> HIDE DEF T
  <2>1. QED
    BY <1>1, <1>2, SetInduction
<1>4. QED
  BY <1>3

\* The pieces that are joined with one more.
LEMMA FlattenGrows ==
  ASSUME NEW X, NEW t \in Seq(Seq(X)), NEW s \in Seq(X)
  PROVE  /\ FlattenSeq(t) \in Seq(X)
         /\ FlattenSeq(Append(t, s)) = FlattenSeq(t) \o s
<1> DEFINE n == Len(t)
           u == Append(t, s)
<1>1. n \in Nat /\ Len(u) = n + 1 /\ n + 1 # 0 /\ u[n + 1] = s /\ \A i \in 1 .. n : t[i] = u[i] /\ t[i] \in Seq(X)
  OBVIOUS
<1>2. PICK g : Joins(g, u, n + 1) /\ FlattenSeq(u) = g[n + 1]
  <2>1. n + 1 \in Nat /\ Len(u) = n + 1 /\ n + 1 # 0
    BY <1>1
  <2> HIDE DEF n, u
  <2>2. QED
    BY <2>1, FlattenIsLast
<1>3. CASE n = 0
  <2>1. FlattenSeq(t) = <<>>
    BY <1>1, <1>3, FlattenIsLast
  <2>2. g[1] = s
    BY <1>1, <1>2, <1>3 DEF Joins
  <2>3. QED
    BY <1>2, <1>3, <2>1, <2>2
<1>4. CASE n # 0
  <2>1. PICK f : Joins(f, t, n) /\ FlattenSeq(t) = f[n]
    BY <1>1, <1>4, FlattenIsLast
  <2>2. f[n] = g[n]
    <3>1. n <= n + 1 /\ n \in 1 .. n /\ n + 1 \in Nat
      BY <1>1, <1>4
    <3> HIDE DEF n, u
    <3>2. \A i \in 1 .. n : f[i] = g[i]
      BY <1>1, <1>2, <2>1, <3>1, JoinsAgree
    <3>3. QED
      BY <3>1, <3>2
  <2>3. g[n + 1] = g[n] \o s
    <3>1. n + 1 \in Nat /\ n \in 0 .. (n + 1) - 1
      BY <1>1
    <3> HIDE DEF n, u
    <3>2. n # 0 => g[n + 1] = g[n] \o u[n + 1]
      BY <1>2, <3>1, JoinsAt
    <3>3. QED
      BY <1>1, <1>4, <3>2
  <2>4. f[n] \in Seq(X)
    <3> DEFINE T == {k \in Nat : k \in 1 .. n => f[k] \in Seq(X)}
    <3>1. 0 \in T
      OBVIOUS
    <3>2. ASSUME NEW k \in Nat, k \in T
          PROVE  k + 1 \in T
      <4>1. SUFFICES ASSUME k + 1 \in 1 .. n
                     PROVE  f[k + 1] \in Seq(X)
        OBVIOUS
      <4>2. t[k + 1] \in Seq(X) /\ k \in 0 .. n - 1
        BY <1>1, <4>1
      <4> HIDE DEF n
      <4>3. /\ k = 0 => f[k + 1] = t[k + 1]
            /\ k # 0 => k \in 1 .. n /\ f[k + 1] = f[k] \o t[k + 1]
        BY <1>1, <2>1, <4>2, JoinsAt
      <4>4. k # 0 => f[k] \in Seq(X)
        BY <3>2, <4>3
      <4>5. CASE k = 0
        BY <4>2, <4>3, <4>5
      <4>6. CASE k # 0
        <5>1. f[k] \o t[k + 1] \in Seq(X)
          BY ONLY <4>2, <4>4, <4>6
        <5>2. QED
          BY <4>3, <4>6, <5>1
      <4>7. QED
        BY <4>5, <4>6
    <3>3. Nat \subseteq T
      <4> HIDE DEF T
      <4>1. QED
        BY <3>1, <3>2, SetInduction
    <3>4. QED
      BY <1>1, <1>4, <3>3
  <2>5. QED
    BY <1>2, <2>1, <2>2, <2>3, <2>4
<1>5. QED
  BY <1>3, <1>4

\* A sequence with one element more, given element by element.
LEMMA AppendIs ==
  ASSUME NEW X, NEW p \in Seq(X), NEW x \in X, NEW f,
         f = [i \in 1 .. Len(p) + 1 |-> f[i]], f[Len(p) + 1] = x,
         \A i \in 1 .. Len(p) : f[i] = p[i]
  PROVE  f = Append(p, x)
<1> DEFINE n == Len(p)
           a == Append(p, x)
<1>1. n \in Nat /\ Len(a) = n + 1 /\ a \in Seq(X) /\ a[n + 1] = x /\ \A i \in 1 .. n : a[i] = p[i]
  OBVIOUS
<1> HIDE DEF n, a
<1>2. a = [i \in 1 .. n + 1 |-> a[i]]
  <2>1. a = [i \in 1 .. Len(a) |-> a[i]]
    BY <1>1
  <2>2. QED
    BY <1>1, <2>1
<1>3. \A i \in 1 .. n + 1 : i \in 1 .. n \/ i = n + 1
  BY <1>1
<1>4. \A i \in 1 .. n + 1 : f[i] = a[i]
  <2>1. f[n + 1] = x /\ \A i \in 1 .. n : f[i] = p[i]
    BY Zenon DEF n
  <2>2. QED
    BY <1>1, <1>3, <2>1, Zenon
<1>5. f = [i \in 1 .. n + 1 |-> f[i]]
  BY Zenon DEF n
<1>6. f = a
  BY <1>2, <1>4, <1>5, Zenon
<1>7. QED
  BY <1>6 DEF a

\* A sequence that was appended to is not empty.
LEMMA AppendIsSome ==
  ASSUME NEW X, NEW p \in Seq(X), NEW x \in X
  PROVE  Append(p, x) # <<>>
<1> DEFINE a == Append(p, x)
<1>1. Len(a) = Len(p) + 1 /\ Len(p) \in Nat
  OBVIOUS
<1> HIDE DEF a
<1>2. Len(<<>>) = 0
  OBVIOUS
<1>3. a # <<>>
  BY <1>1, <1>2
<1>4. QED
  BY <1>3 DEF a

\* The calls of no event, and of one event more.
LEMMA CallsGrow ==
  ASSUME NEW S, NEW events \in Seq(S), NEW e \in S
  PROVE  /\ Calls(<<>>) = <<>>
         /\ Calls(events) \in Seq(S)
         /\ Calls(Append(events, e)) = Calls(events) \o CallOfEvent(e)
<1> DEFINE pieces == [i \in 1 .. Len(events) |-> CallOfEvent(events[i])]
<1>1. Calls(<<>>) = <<>>
  <2>1. [i \in 1 .. Len(<<>>) |-> CallOfEvent(<<>>[i])] = <<>>
    OBVIOUS
  <2>2. FlattenSeq(<<>>) = <<>>
    BY FlattenIsLast
  <2>3. QED
    BY <2>1, <2>2, Zenon DEF Calls
<1>2. \A d \in S : CallOfEvent(d) \in Seq(S)
  BY DEF CallOfEvent
<1>3. pieces \in Seq(Seq(S))
  BY <1>2
<1>4. [i \in 1 .. Len(Append(events, e)) |-> CallOfEvent(Append(events, e)[i])]
        = Append(pieces, CallOfEvent(e))
  <2>1. /\ Len(Append(events, e)) = Len(events) + 1 /\ Append(events, e)[Len(events) + 1] = e
        /\ \A i \in 1 .. Len(events) : Append(events, e)[i] = events[i]
    OBVIOUS
  <2>2. Len(pieces) = Len(events) /\ \A i \in 1 .. Len(events) : pieces[i] = CallOfEvent(events[i])
    OBVIOUS
  <2> DEFINE new == [i \in 1 .. Len(Append(events, e)) |-> CallOfEvent(Append(events, e)[i])]
  <2>3. /\ new = [i \in 1 .. Len(events) + 1 |-> new[i]]
        /\ new[Len(events) + 1] = CallOfEvent(e)
        /\ \A i \in 1 .. Len(events) : new[i] = CallOfEvent(events[i])
    BY <2>1
  <2> HIDE DEF pieces, new
  <2>4. /\ CallOfEvent(e) \in Seq(S)
        /\ new = [i \in 1 .. Len(pieces) + 1 |-> new[i]]
        /\ new[Len(pieces) + 1] = CallOfEvent(e)
        /\ \A i \in 1 .. Len(pieces) : new[i] = pieces[i]
    BY <1>2, <2>2, <2>3
  <2>5. new = Append(pieces, CallOfEvent(e))
    BY ONLY <1>3, <2>4, AppendIs
  <2>6. QED
    BY <2>5 DEF new
<1> HIDE DEF pieces
<1>5. FlattenSeq(pieces) \in Seq(S)
      /\ FlattenSeq(Append(pieces, CallOfEvent(e))) = FlattenSeq(pieces) \o CallOfEvent(e)
  BY <1>2, <1>3, FlattenGrows
<1>6. Calls(events) = FlattenSeq(pieces)
  BY Zenon DEF Calls, pieces
<1>7. Calls(Append(events, e)) = FlattenSeq(Append(pieces, CallOfEvent(e)))
  BY <1>4, Zenon DEF Calls
<1>8. QED
  BY <1>1, <1>5, <1>6, <1>7

\* The text of no event, and of one event more.
LEMMA TextGrows ==
  ASSUME NEW S, \A d \in S : TextOfEvent(d) \in Text, NEW events \in Seq(S), NEW e \in S
  PROVE  /\ JoinedText(<<>>) = <<>>
         /\ JoinedText(events) \in Text
         /\ JoinedText(Append(events, e)) = JoinedText(events) \o TextOfEvent(e)
<1> DEFINE pieces == [i \in 1 .. Len(events) |-> TextOfEvent(events[i])]
<1>1. JoinedText(<<>>) = <<>>
  <2>1. [i \in 1 .. Len(<<>>) |-> TextOfEvent(<<>>[i])] = <<>>
    OBVIOUS
  <2>2. FlattenSeq(<<>>) = <<>>
    BY FlattenIsLast
  <2>3. QED
    BY <2>1, <2>2, Zenon DEF JoinedText
<1>2. \A d \in S : TextOfEvent(d) \in Seq(Chars)
  BY DEF Text
<1>3. pieces \in Seq(Seq(Chars))
  BY <1>2
<1>4. [i \in 1 .. Len(Append(events, e)) |-> TextOfEvent(Append(events, e)[i])]
        = Append(pieces, TextOfEvent(e))
  <2>1. /\ Len(Append(events, e)) = Len(events) + 1 /\ Append(events, e)[Len(events) + 1] = e
        /\ \A i \in 1 .. Len(events) : Append(events, e)[i] = events[i]
    OBVIOUS
  <2>2. Len(pieces) = Len(events) /\ \A i \in 1 .. Len(events) : pieces[i] = TextOfEvent(events[i])
    OBVIOUS
  <2> DEFINE new == [i \in 1 .. Len(Append(events, e)) |-> TextOfEvent(Append(events, e)[i])]
  <2>3. /\ new = [i \in 1 .. Len(events) + 1 |-> new[i]]
        /\ new[Len(events) + 1] = TextOfEvent(e)
        /\ \A i \in 1 .. Len(events) : new[i] = TextOfEvent(events[i])
    BY <2>1
  <2> HIDE DEF pieces, new
  <2>4. /\ TextOfEvent(e) \in Seq(Chars)
        /\ new = [i \in 1 .. Len(pieces) + 1 |-> new[i]]
        /\ new[Len(pieces) + 1] = TextOfEvent(e)
        /\ \A i \in 1 .. Len(pieces) : new[i] = pieces[i]
    BY <1>2, <2>2, <2>3
  <2>5. new = Append(pieces, TextOfEvent(e))
    BY ONLY <1>3, <2>4, AppendIs
  <2>6. QED
    BY <2>5 DEF new
<1> HIDE DEF pieces
<1>5. FlattenSeq(pieces) \in Seq(Chars)
      /\ FlattenSeq(Append(pieces, TextOfEvent(e))) = FlattenSeq(pieces) \o TextOfEvent(e)
  BY <1>2, <1>3, FlattenGrows
<1>6. JoinedText(events) = FlattenSeq(pieces)
  BY Zenon DEF JoinedText, pieces
<1>7. JoinedText(Append(events, e)) = FlattenSeq(Append(pieces, TextOfEvent(e)))
  BY <1>4, Zenon DEF JoinedText
<1>8. QED
  BY <1>1, <1>5, <1>6, <1>7 DEF Text

\* The completions of no event, and of one event more.
LEMMA CompletionsGrow ==
  ASSUME NEW S, NEW events \in Seq(S), NEW e
  PROVE  /\ Completions(<<>>) = {}
         /\ Completions(Append(events, e))
              = Completions(events) \cup (IF IsCompleted(e) THEN {Len(events) + 1} ELSE {})
BY DEF Completions

\* A stream has calls when one of its events is one.
LEMMA CallsAreEvents ==
  ASSUME NEW S, NEW events \in Seq(S)
  PROVE  Calls(events) # <<>> <=> \E i \in 1 .. Len(events) : IsCall(events[i])
<1> DEFINE first(n) == SubSeq(events, 1, n)
           T == {n \in Nat : n <= Len(events) =>
                   (Calls(first(n)) # <<>> <=> \E i \in 1 .. n : IsCall(events[i]))}
<1>1. 0 \in T
  <2>1. first(0) = <<>>
    OBVIOUS
  <2>2. Calls(<<>>) = <<>>
    <3>1. [i \in 1 .. Len(<<>>) |-> CallOfEvent(<<>>[i])] = <<>>
      OBVIOUS
    <3>2. FlattenSeq(<<>>) = <<>>
      BY FlattenIsLast
    <3>3. QED
      BY <3>1, <3>2, Zenon DEF Calls
  <2> HIDE DEF first
  <2>3. QED
    BY <2>1, <2>2
<1>2. ASSUME NEW n \in Nat, n \in T
      PROVE  n + 1 \in T
  <2>1. SUFFICES ASSUME n + 1 <= Len(events)
                 PROVE  Calls(first(n + 1)) # <<>> <=> \E i \in 1 .. n + 1 : IsCall(events[i])
    OBVIOUS
  <2>2. n + 1 \in 1 .. Len(events) /\ events[n + 1] \in S
    BY <2>1
  <2>3. first(n) \in Seq(S) /\ first(n + 1) = Append(first(n), events[n + 1])
    BY <2>1, <2>2
  <2>4. Calls(first(n)) # <<>> <=> \E i \in 1 .. n : IsCall(events[i])
    BY <1>2, <2>1
  <2> HIDE DEF first
  <2>5. /\ Calls(first(n)) \in Seq(S)
        /\ Calls(first(n + 1)) = Calls(first(n)) \o CallOfEvent(events[n + 1])
    BY <2>2, <2>3, CallsGrow
  <2>6. (\E i \in 1 .. n + 1 : IsCall(events[i]))
          <=> (\E i \in 1 .. n : IsCall(events[i])) \/ IsCall(events[n + 1])
    <3>1. \A i \in 1 .. n + 1 : i \in 1 .. n \/ i = n + 1
      OBVIOUS
    <3>2. \A i \in 1 .. n : i \in 1 .. n + 1
      OBVIOUS
    <3>3. n + 1 \in 1 .. n + 1
      OBVIOUS
    <3>4. QED
      BY <3>1, <3>2, <3>3, Zenon
  <2>7. CASE IsCall(events[n + 1])
    <3>1. CallOfEvent(events[n + 1]) = <<events[n + 1]>>
      BY <2>7 DEF CallOfEvent
    <3>2. Calls(first(n)) \o <<events[n + 1]>> # <<>>
      BY <2>2, <2>5
    <3>3. QED
      BY <2>5, <2>6, <2>7, <3>1, <3>2
  <2>8. CASE ~ IsCall(events[n + 1])
    <3>1. CallOfEvent(events[n + 1]) = <<>>
      BY <2>8 DEF CallOfEvent
    <3>2. Calls(first(n)) \o <<>> = Calls(first(n))
      BY <2>5
    <3>3. QED
      BY <2>4, <2>5, <2>6, <2>8, <3>1, <3>2
  <2>9. QED
    BY <2>7, <2>8
<1>3. Len(events) \in T
  <2> HIDE DEF T
  <2>1. QED
    BY <1>1, <1>2, SetInduction
<1>4. first(Len(events)) = events /\ Len(events) \in Nat /\ Len(events) <= Len(events)
  OBVIOUS
<1> HIDE DEF first
<1>5. QED
  BY <1>3, <1>4

-----------------------------------------------------------------------------
(* The collector *)

\* The collector speaks of the events of the port.
LEMMA CollectorWords ==
  /\ \A t : Collector!FlattenSeq(t) = FlattenSeq(t)
  /\ \A e : /\ Collector!IsText(e) <=> IsText(e)
            /\ Collector!IsCall(e) <=> IsCall(e)
            /\ Collector!IsCompleted(e) <=> IsCompleted(e)
            /\ Collector!IsModelEvent(e) <=> IsModelEvent(e)
  /\ \A s : /\ Collector!JoinedText(s) = JoinedText(s)
            /\ Collector!Calls(s) = Calls(s)
            /\ Collector!Completions(s) = Completions(s)
            /\ Collector!Legal(s) <=> Legal(s)
<1>1. \A t : Collector!FlattenSeq(t) = FlattenSeq(t)
  BY Zenon DEF Collector!FlattenSeq, FlattenSeq
<1>2. \A e : /\ Collector!IsText(e) <=> IsText(e)
             /\ Collector!IsCall(e) <=> IsCall(e)
             /\ Collector!IsCompleted(e) <=> IsCompleted(e)
  BY Zenon DEF Collector!IsText, IsText, Collector!IsCall, IsCall, Collector!IsCompleted, IsCompleted
<1>3. \A e : Collector!IsModelEvent(e) <=> IsModelEvent(e)
  BY <1>2, Zenon DEF Collector!IsModelEvent, IsModelEvent, Collector!Text, Text, Collector!IsObject,
     IsObject, Collector!Finishes, Finishes, Collector!Usages, Usages
<1>4. \A e : Collector!TextOfEvent(e) = TextOfEvent(e) /\ Collector!CallOfEvent(e) = CallOfEvent(e)
  BY <1>2, Zenon DEF Collector!TextOfEvent, TextOfEvent, Collector!CallOfEvent, CallOfEvent
<1>5. \A s : Collector!JoinedText(s) = JoinedText(s)
  BY <1>1, <1>4, Zenon DEF Collector!JoinedText, JoinedText
<1>6. \A s : Collector!Calls(s) = Calls(s)
  BY <1>1, <1>4, Zenon DEF Collector!Calls, Calls
<1>7. \A s : Collector!Completions(s) = Completions(s)
  BY <1>2, Zenon DEF Collector!Completions, Completions
<1>8. \A s : Collector!Legal(s) <=> Legal(s)
  BY <1>6, <1>7, Zenon DEF Collector!Legal, Legal
<1>9. QED
  BY <1>1, <1>2, <1>3, <1>5, <1>6, <1>7, <1>8

\* What collect() has gathered of the events so far.
Gathered ==
  /\ \A i \in 1 .. Len(consumed) : IsModelEvent(consumed[i])
  /\ discarded = Len(JoinedText(consumed)) /\ discarded <= MAX_TEXT_CHARS
  /\ collected = [fragments |-> collected.fragments, calls |-> collected.calls,
                  completion |-> collected.completion]
  /\ collected.fragments \in Seq(Text)
  /\ FlattenSeq(collected.fragments) = JoinedText(consumed)
  /\ collected.fragments = <<>> <=> JoinedText(consumed) = <<>>
  /\ collected.calls = Calls(consumed)
  /\ \A i, j \in 1 .. Len(Calls(consumed)) :
       Calls(consumed)[i].id = Calls(consumed)[j].id => i = j
  /\ Collector!Parts(collected) <= MAX_MESSAGE_PARTS
  /\ collected.completion = None => Completions(consumed) = {}
  /\ collected.completion # None =>
       /\ Completions(consumed) = {Len(consumed)}
       /\ collected.completion = consumed[Len(consumed)]

CollectorProps ==
  /\ Collector!TypeOK /\ Collector!CollectsTheMessage
  /\ Collector!DiscardedIsReceived /\ Collector!LawfulPortsUnderstood

\* The invariant: what is gathered as long as it collects, then the properties.
CollectInv ==
  /\ lawful \in BOOLEAN /\ consumed \in Seq(PortEvents)
  /\ outcome \in Collector!Refusals \cup {"collecting", "response", "port_failed"}
  /\ lawful => Legal(consumed)
  /\ IF outcome = "collecting" THEN Gathered ELSE CollectorProps

\* The text of every event of the port, and that each is of one kind.
LEMMA PortEventsAreEvents ==
  ASSUME NEW e \in PortEvents
  PROVE  /\ TextOfEvent(e) \in Text
         /\ IsText(e) => e.text \in Text /\ e.text # <<>> /\ ~ IsCall(e) /\ ~ IsCompleted(e) /\ IsModelEvent(e)
         /\ IsCall(e) => ~ IsText(e) /\ ~ IsCompleted(e) /\ IsModelEvent(e)
         /\ IsCompleted(e) => ~ IsText(e) /\ ~ IsCall(e) /\ IsModelEvent(e) /\ e.finish \in {"stop", "tool_calls"}
         /\ e.type = "unsupported" => ~ IsModelEvent(e)
<1>1. IsModelEvent(e) \/ e.type = "unsupported"
  BY PortAssumption
<1>2. IsText(e) => e.text \in Text /\ e.text # <<>> /\ ~ IsCall(e) /\ ~ IsCompleted(e) /\ IsModelEvent(e)
  BY <1>1 DEF IsModelEvent, IsText, IsCall, IsCompleted
<1>3. <<>> \in Text
  BY DEF Text
<1>4. QED
  BY <1>1, <1>2, <1>3 DEF IsModelEvent, IsText, IsCall, IsCompleted, TextOfEvent, Finishes

\* What one event more makes of the stream.
LEMMA StreamGrows ==
  ASSUME consumed \in Seq(PortEvents), NEW e \in PortEvents, consumed' = Append(consumed, e)
  PROVE  /\ consumed' \in Seq(PortEvents) /\ Len(consumed') = Len(consumed) + 1 /\ Len(consumed) \in Nat
         /\ consumed'[Len(consumed')] = e
         /\ \A i \in 1 .. Len(consumed) : consumed'[i] = consumed[i]
         /\ JoinedText(consumed) \in Text
         /\ JoinedText(consumed') = JoinedText(consumed) \o TextOfEvent(e)
         /\ Calls(consumed) \in Seq(PortEvents)
         /\ Calls(consumed') = Calls(consumed) \o CallOfEvent(e)
         /\ Completions(consumed')
              = Completions(consumed) \cup (IF IsCompleted(e) THEN {Len(consumed')} ELSE {})
<1>1. /\ consumed' \in Seq(PortEvents) /\ Len(consumed') = Len(consumed) + 1 /\ Len(consumed) \in Nat
      /\ consumed'[Len(consumed')] = e
      /\ \A i \in 1 .. Len(consumed) : consumed'[i] = consumed[i]
  OBVIOUS
<1>2. /\ JoinedText(consumed) \in Text
      /\ JoinedText(Append(consumed, e)) = JoinedText(consumed) \o TextOfEvent(e)
  <2>1. \A d \in PortEvents : TextOfEvent(d) \in Text
    BY PortEventsAreEvents
  <2>2. QED
    BY <2>1, TextGrows
<1>3. /\ Calls(consumed) \in Seq(PortEvents)
      /\ Calls(Append(consumed, e)) = Calls(consumed) \o CallOfEvent(e)
  BY CallsGrow
<1>4. Completions(Append(consumed, e))
        = Completions(consumed) \cup (IF IsCompleted(e) THEN {Len(consumed) + 1} ELSE {})
  BY CompletionsGrow
<1>5. QED
  BY <1>1, <1>2, <1>3, <1>4

\* A sequence has as many values as places when none repeats.
LEMMA ValuesDiffer ==
  ASSUME NEW n \in Nat, NEW f, f = [i \in 1 .. n |-> f[i]]
  PROVE  Cardinality({f[i] : i \in 1 .. n}) = n
           <=> \A i, j \in 1 .. n : f[i] = f[j] => i = j
<1> DEFINE D == 1 .. n
           values == {f[i] : i \in D}
<1>1. IsFiniteSet(D) /\ Cardinality(D) = n
  BY FS_Interval
<1>2. f \in Surjection(D, values)
  BY DEF Surjection
<1>3. Cardinality(values) = Cardinality(D) <=> f \in Injection(D, values)
  BY ONLY <1>1, <1>2, FS_Surjection
<1>4. f \in Injection(D, values) <=> \A i, j \in D : f[i] = f[j] => i = j
  BY <1>2 DEF Injection, IsInjective, Surjection
<1>5. QED
  BY <1>1, <1>3, <1>4

\* So has a sequence of calls, of both identities of a call.
LEMMA IdsDiffer ==
  ASSUME NEW S, NEW c \in Seq(S)
  PROVE  /\ Cardinality({c[i].id : i \in DOMAIN c}) = Len(c)
              <=> \A i, j \in 1 .. Len(c) : c[i].id = c[j].id => i = j
         /\ Cardinality({c[i].tool : i \in DOMAIN c}) = Len(c)
              <=> \A i, j \in 1 .. Len(c) : c[i].tool = c[j].tool => i = j
<1> DEFINE n == Len(c)
           f == [i \in 1 .. n |-> c[i].id]
           g == [i \in 1 .. n |-> c[i].tool]
<1>1. n \in Nat /\ DOMAIN c = 1 .. n
  OBVIOUS
<1> HIDE DEF n
<1>2. /\ f = [i \in 1 .. n |-> f[i]] /\ {f[i] : i \in 1 .. n} = {c[i].id : i \in 1 .. n}
      /\ g = [i \in 1 .. n |-> g[i]] /\ {g[i] : i \in 1 .. n} = {c[i].tool : i \in 1 .. n}
      /\ \A i \in 1 .. n : f[i] = c[i].id /\ g[i] = c[i].tool
  OBVIOUS
<1> HIDE DEF f, g
<1>3. Cardinality({f[i] : i \in 1 .. n}) = n <=> \A i, j \in 1 .. n : f[i] = f[j] => i = j
  BY ONLY <1>1, <1>2, ValuesDiffer
<1>4. Cardinality({g[i] : i \in 1 .. n}) = n <=> \A i, j \in 1 .. n : g[i] = g[j] => i = j
  BY ONLY <1>1, <1>2, ValuesDiffer
<1>5. Cardinality({c[i].id : i \in 1 .. n}) = n <=> \A i, j \in 1 .. n : c[i].id = c[j].id => i = j
  <2>1. {f[i] : i \in 1 .. n} = {c[i].id : i \in 1 .. n}
    BY <1>2
  <2>2. (\A i, j \in 1 .. n : f[i] = f[j] => i = j) <=> \A i, j \in 1 .. n : c[i].id = c[j].id => i = j
    BY <1>2
  <2>3. QED
    BY ONLY <1>3, <2>1, <2>2
<1>6. Cardinality({c[i].tool : i \in 1 .. n}) = n <=> \A i, j \in 1 .. n : c[i].tool = c[j].tool => i = j
  <2>1. {g[i] : i \in 1 .. n} = {c[i].tool : i \in 1 .. n}
    BY <1>2
  <2>2. (\A i, j \in 1 .. n : g[i] = g[j] => i = j) <=> \A i, j \in 1 .. n : c[i].tool = c[j].tool => i = j
    BY <1>2
  <2>3. QED
    BY ONLY <1>4, <2>1, <2>2
<1>7. QED
  BY <1>1, <1>5, <1>6, Zenon DEF n

\* A stream that makes a message.
Message(s) ==
  /\ \A i \in 1 .. Len(s) : IsModelEvent(s[i])
  /\ Legal(s) /\ Completions(s) # {}
  /\ \A i, j \in 1 .. Len(Calls(s)) : Calls(s)[i].id = Calls(s)[j].id => i = j
  /\ Len(JoinedText(s)) <= MAX_TEXT_CHARS
  /\ Len(Calls(s)) + (IF JoinedText(s) = <<>> THEN 0 ELSE 1) <= MAX_MESSAGE_PARTS
  /\ Collector!MessageFits(JoinedText(s), Calls(s))
  /\ Calls(s) = <<>> => JoinedText(s) # <<>>

\* It is what the collector takes for one.
LEMMA MakesMessageIs ==
  ASSUME NEW s \in Seq(PortEvents)
  PROVE  Collector!MakesMessage(s) <=> Message(s)
<1>1. DOMAIN s = 1 .. Len(s)
  OBVIOUS
<1>2. Calls(s) \in Seq(PortEvents)
  <2>1. CASE s = <<>>
    <3>1. Calls(<<>>) = <<>>
      <4>1. [i \in 1 .. Len(<<>>) |-> CallOfEvent(<<>>[i])] = <<>>
        OBVIOUS
      <4>2. FlattenSeq(<<>>) = <<>>
        BY FlattenIsLast
      <4>3. QED
        BY <4>1, <4>2, Zenon DEF Calls
    <3>2. QED
      BY <2>1, <3>1
  <2>2. CASE s # <<>>
    <3>1. s[1] \in PortEvents
      BY <2>2
    <3>2. QED
      BY <3>1, CallsGrow
  <2>3. QED
    BY <2>1, <2>2
<1>3. /\ Cardinality({Calls(s)[i].id : i \in DOMAIN Calls(s)}) = Len(Calls(s))
           <=> \A i, j \in 1 .. Len(Calls(s)) : Calls(s)[i].id = Calls(s)[j].id => i = j
      /\ Cardinality({Calls(s)[i].tool : i \in DOMAIN Calls(s)}) = Len(Calls(s))
           <=> \A i, j \in DOMAIN Calls(s) : Calls(s)[i].tool = Calls(s)[j].tool => i = j
  <2>1. DOMAIN Calls(s) = 1 .. Len(Calls(s))
    BY <1>2
  <2>2. QED
    BY ONLY <1>2, <2>1, IdsDiffer
<1>4. Collector!MakesMessage(s) <=>
        /\ \A i \in DOMAIN s : IsModelEvent(s[i])
        /\ Legal(s) /\ Completions(s) # {}
        /\ Cardinality({Calls(s)[i].id : i \in DOMAIN Calls(s)}) = Len(Calls(s))
        /\ Cardinality({Calls(s)[i].tool : i \in DOMAIN Calls(s)}) = Len(Calls(s))
        /\ \A i \in DOMAIN Calls(s) : Calls(s)[i].arguments \notin LargeArguments
        /\ Len(JoinedText(s)) <= MAX_TEXT_CHARS
        /\ Len(Calls(s)) + (IF JoinedText(s) = <<>> THEN 0 ELSE 1) <= MAX_MESSAGE_PARTS
        /\ JoinedText(s) # <<>> => ~ Collector!IsBlank(JoinedText(s))
        /\ Calls(s) = <<>> => JoinedText(s) # <<>>
  <2> DEFINE C == Collector!Calls(s)
             J == Collector!JoinedText(s)
  <2>1. C = Calls(s) /\ J = JoinedText(s)
    BY CollectorWords, Zenon
  <2>2. Collector!MakesMessage(s) <=>
          /\ \A i \in DOMAIN s : Collector!IsModelEvent(s[i])
          /\ Collector!Legal(s) /\ Collector!Completions(s) # {}
          /\ Collector!Cardinality({C[i].id : i \in DOMAIN C}) = Len(C)
          /\ Collector!Cardinality({C[i].tool : i \in DOMAIN C}) = Len(C)
          /\ \A i \in DOMAIN C : C[i].arguments \notin LargeArguments
          /\ Len(J) <= MAX_TEXT_CHARS
          /\ Len(C) + (IF J = <<>> THEN 0 ELSE 1) <= MAX_MESSAGE_PARTS
          /\ J # <<>> => ~ Collector!IsBlank(J)
          /\ C = <<>> => J # <<>>
    BY Zenon DEF Collector!MakesMessage
  <2> HIDE DEF C, J
  <2>3. QED
    <3>1. \A S : Collector!Cardinality(S) = Cardinality(S)
      BY Zenon DEF Collector!Cardinality, Cardinality
    <3>2. \A i : Collector!IsModelEvent(s[i]) <=> IsModelEvent(s[i])
      BY CollectorWords, Zenon
    <3>3. (Collector!Legal(s) <=> Legal(s)) /\ Collector!Completions(s) = Completions(s)
      BY CollectorWords, Zenon
    <3>4. QED
      BY <2>1, <2>2, <3>1, <3>2, <3>3
<1>5. QED
  BY <1>1, <1>3, <1>4, Zenon DEF Message, Collector!MessageFits

\* A refusal keeps the properties when what was received is no message.
LEMMA RefusalKeeps ==
  ASSUME consumed \in Seq(PortEvents), lawful \in BOOLEAN, Gathered,
         UNCHANGED <<lawful, collected>>, consumed' \in Seq(PortEvents),
         outcome' \in Collector!Refusals,
         discarded' \in Nat,
         outcome' # "after_completion" => discarded' = Len(JoinedText(consumed')),
         ~ Message(consumed'),
         lawful => /\ Legal(consumed')
                   /\ outcome' \notin {"after_completion", "unsupported", "no_completion", "no_calls"}
                   /\ outcome' = "bad_stop" => Collector!IsBlank(JoinedText(consumed'))
  PROVE  CollectInv'
<1>1. outcome' # "collecting" /\ outcome' # "response"
  BY DEF Collector!Refusals
<1>2. collected.completion # None => Collector!IsCompleted(collected.completion)
  <2>1. ASSUME collected.completion # None
        PROVE  IsCompleted(collected.completion)
    <3>1. Len(consumed) \in Completions(consumed) /\ collected.completion = consumed[Len(consumed)]
      BY <2>1 DEF Gathered
    <3>2. QED
      BY <3>1 DEF Completions
  <2>2. QED
    BY <2>1, CollectorWords
<1>3. Collector!TypeOK'
  BY <1>2 DEF Collector!TypeOK, Gathered, Collector!Parts
<1>4. Collector!CollectsTheMessage'
  <2>1. ~ Collector!MakesMessage(consumed')
    BY MakesMessageIs
  <2>2. QED
    BY <1>1, <2>1 DEF Collector!CollectsTheMessage
<1>5. Collector!DiscardedIsReceived'
  BY CollectorWords DEF Collector!DiscardedIsReceived
<1>6. Collector!LawfulPortsUnderstood'
  BY CollectorWords DEF Collector!LawfulPortsUnderstood
<1>7. QED
  BY <1>1, <1>3, <1>4, <1>5, <1>6 DEF CollectInv, CollectorProps

\* An event after the completion is refused, and rightly.
LEMMA NothingFollows ==
  ASSUME consumed \in Seq(PortEvents), lawful \in BOOLEAN, Gathered, collected.completion # None,
         NEW e \in PortEvents, consumed' = Append(consumed, e), lawful => Legal(consumed'),
         UNCHANGED <<lawful, collected>>, discarded' = discarded, outcome' = "after_completion"
  PROVE  CollectInv'
<1>1. /\ consumed' \in Seq(PortEvents) /\ Len(consumed') = Len(consumed) + 1 /\ Len(consumed) \in Nat
      /\ Completions(consumed') = Completions(consumed) \cup (IF IsCompleted(e) THEN {Len(consumed')} ELSE {})
  BY StreamGrows
<1>2. Len(consumed) \in Completions(consumed') /\ Len(consumed) # Len(consumed')
  BY <1>1 DEF Gathered
<1>3. ~ Legal(consumed')
  BY <1>2 DEF Legal
<1>4. discarded' \in Nat
  <2>1. JoinedText(consumed) \in Text
    BY StreamGrows
  <2>2. QED
    BY <2>1 DEF Gathered, Text
<1>5. QED
  BY <1>1, <1>3, <1>4, RefusalKeeps DEF Message, Collector!Refusals

\* What the invariant says while the stream is collected.
LEMMA WhileCollecting ==
  ASSUME CollectInv, outcome = "collecting"
  PROVE  /\ consumed \in Seq(PortEvents) /\ lawful \in BOOLEAN /\ Gathered
         /\ lawful => Legal(consumed)
         /\ discarded \in Nat
<1>1. consumed \in Seq(PortEvents) /\ lawful \in BOOLEAN /\ Gathered /\ (lawful => Legal(consumed))
  BY DEF CollectInv
<1>2. JoinedText(consumed) \in Text
  <2>1. CASE consumed = <<>>
    <3>1. JoinedText(<<>>) = <<>>
      <4>1. [i \in 1 .. Len(<<>>) |-> TextOfEvent(<<>>[i])] = <<>>
        OBVIOUS
      <4>2. FlattenSeq(<<>>) = <<>>
        BY FlattenIsLast
      <4>3. QED
        BY <4>1, <4>2, Zenon DEF JoinedText
    <3>2. <<>> \in Text
      BY DEF Text
    <3>3. QED
      BY <2>1, <3>1, <3>2, Zenon
  <2>2. CASE consumed # <<>>
    <3>1. consumed[1] \in PortEvents
      BY <1>1, <2>2
    <3>2. \A d \in PortEvents : TextOfEvent(d) \in Text
      BY PortEventsAreEvents
    <3>3. QED
      BY <1>1, <3>1, <3>2, TextGrows
  <2>3. QED
    BY <2>1, <2>2
<1>3. QED
  BY <1>1, <1>2 DEF Gathered, Text

\* The text is gathered, or refused because it is too long or makes a part too many.
LEMMA TakesText ==
  ASSUME CollectInv, NEW e \in PortEvents, Collector!TakeText(e)
  PROVE  CollectInv'
<1>1. /\ outcome = "collecting" /\ consumed' = Append(consumed, e) /\ lawful' = lawful
      /\ lawful => Legal(consumed')
      /\ IsText(e)
  BY CollectorWords DEF Collector!TakeText, Collector!Take
<1>2. /\ consumed \in Seq(PortEvents) /\ lawful \in BOOLEAN /\ Gathered /\ discarded \in Nat
  BY <1>1, WhileCollecting
<1>3. /\ consumed' \in Seq(PortEvents) /\ Len(consumed') = Len(consumed) + 1 /\ Len(consumed) \in Nat
      /\ consumed'[Len(consumed')] = e
      /\ \A i \in 1 .. Len(consumed) : consumed'[i] = consumed[i]
      /\ JoinedText(consumed) \in Text
      /\ JoinedText(consumed') = JoinedText(consumed) \o TextOfEvent(e)
      /\ Calls(consumed) \in Seq(PortEvents)
      /\ Calls(consumed') = Calls(consumed) \o CallOfEvent(e)
      /\ Completions(consumed')
           = Completions(consumed) \cup (IF IsCompleted(e) THEN {Len(consumed')} ELSE {})
  BY <1>1, <1>2, StreamGrows
<1>4. e.text \in Text /\ e.text # <<>> /\ ~ IsCall(e) /\ ~ IsCompleted(e) /\ IsModelEvent(e)
  BY <1>1, PortEventsAreEvents
<1>5. Calls(consumed') = Calls(consumed) /\ Completions(consumed') = Completions(consumed)
      /\ JoinedText(consumed') = JoinedText(consumed) \o e.text
  BY <1>1, <1>3, <1>4 DEF CallOfEvent, TextOfEvent
<1>6. CASE collected.completion # None
  <2>1. UNCHANGED <<collected, discarded>> /\ outcome' = "after_completion"
    BY <1>6 DEF Collector!TakeText, Collector!Refuse
  <2>2. QED
    BY <1>1, <1>2, <1>6, <2>1, NothingFollows
<1>7. CASE collected.completion = None
  <2>1. discarded' = discarded + Len(e.text)
    BY <1>7 DEF Collector!TakeText, Collector!CountText
  <2>2. /\ discarded' = Len(JoinedText(consumed')) /\ discarded' \in Nat
        /\ JoinedText(consumed') \in Text /\ JoinedText(consumed') # <<>>
    BY <1>2, <1>3, <1>4, <1>5, <2>1 DEF Gathered, Text
  <2>3. CASE discarded' > MAX_TEXT_CHARS
    <3>1. outcome' = "too_long" /\ UNCHANGED collected
      BY <1>7, <2>3 DEF Collector!TakeText, Collector!Refuse
    <3>2. ~ Message(consumed')
      BY <2>2, <2>3, PortAssumption DEF Message
    <3>3. QED
      BY <1>1, <1>2, <1>3, <2>2, <3>1, <3>2, RefusalKeeps DEF Collector!Refusals
  <2>4. CASE ~ (discarded' > MAX_TEXT_CHARS) /\ collected.fragments = <<>>
             /\ Len(collected.calls) >= MAX_MESSAGE_PARTS
    <3>1. outcome' = "too_many_parts" /\ UNCHANGED collected
      BY <1>7, <2>4 DEF Collector!TakeText, Collector!Refuse
    <3>2. ~ Message(consumed')
      <4>1. Len(Calls(consumed')) \in Nat /\ Len(Calls(consumed')) >= MAX_MESSAGE_PARTS
        BY <1>2, <1>3, <1>5, <2>4 DEF Gathered
      <4>2. QED
        BY <2>2, <4>1, PortAssumption DEF Message
    <3>3. QED
      BY <1>1, <1>2, <1>3, <2>2, <3>1, <3>2, RefusalKeeps DEF Collector!Refusals
  <2>5. CASE ~ (discarded' > MAX_TEXT_CHARS)
             /\ ~ (collected.fragments = <<>> /\ Len(collected.calls) >= MAX_MESSAGE_PARTS)
    <3>1. /\ collected' = [collected EXCEPT !.fragments = Append(@, e.text)] /\ outcome' = outcome
      BY <1>7, <2>5 DEF Collector!TakeText, Collector!Keep
    <3>2. collected' = [fragments |-> Append(collected.fragments, e.text), calls |-> collected.calls,
                        completion |-> None]
      BY <1>2, <1>7, <3>1 DEF Gathered
    <3>3. /\ Append(collected.fragments, e.text) \in Seq(Text)
          /\ Append(collected.fragments, e.text) # <<>>
          /\ FlattenSeq(Append(collected.fragments, e.text)) = JoinedText(consumed')
      <4>1. collected.fragments \in Seq(Seq(Chars)) /\ e.text \in Seq(Chars)
            /\ FlattenSeq(collected.fragments) = JoinedText(consumed)
        BY <1>2, <1>4 DEF Gathered, Text
      <4>2. FlattenSeq(Append(collected.fragments, e.text)) = FlattenSeq(collected.fragments) \o e.text
        BY <4>1, FlattenGrows
      <4>3. Append(collected.fragments, e.text) # <<>>
        BY ONLY <4>1, AppendIsSome
      <4>4. QED
        BY <1>5, <4>1, <4>2, <4>3 DEF Text
    <3>4. Collector!Parts(collected') <= MAX_MESSAGE_PARTS
      <4>1. /\ Collector!Parts(collected') = Len(Calls(consumed)) + 1 /\ Len(Calls(consumed)) \in Nat
            /\ collected.calls = Calls(consumed)
        BY <1>2, <1>3, <3>2, <3>3 DEF Gathered, Collector!Parts
      <4>2. CASE collected.fragments = <<>>
        BY <2>5, <4>1, <4>2, PortAssumption
      <4>3. CASE collected.fragments # <<>>
        BY <1>2, <4>1, <4>3 DEF Gathered, Collector!Parts
      <4>4. QED
        BY <4>2, <4>3
    <3>5. \A i \in 1 .. Len(consumed') : IsModelEvent(consumed'[i])
      <4>1. \A i \in 1 .. Len(consumed') : i \in 1 .. Len(consumed) \/ i = Len(consumed')
        BY <1>3
      <4>2. QED
        BY <1>2, <1>3, <1>4, <4>1, Zenon DEF Gathered
    <3>6. discarded' <= MAX_TEXT_CHARS
      BY <2>2, <2>5, PortAssumption
    <3>7. Gathered'
      BY <1>2, <1>5, <1>7, <2>2, <3>2, <3>3, <3>4, <3>5, <3>6 DEF Gathered
    <3>8. QED
      BY <1>1, <1>2, <1>3, <3>1, <3>7 DEF CollectInv
  <2>6. QED
    BY <2>3, <2>4, <2>5
<1>8. QED
  BY <1>6, <1>7

\* The call is gathered, or refused because it is one too many or repeats an identity.
LEMMA TakesCall ==
  ASSUME CollectInv, NEW e \in PortEvents, Collector!TakeCall(e)
  PROVE  CollectInv'
<1>1. /\ outcome = "collecting" /\ consumed' = Append(consumed, e) /\ lawful' = lawful
      /\ lawful => Legal(consumed')
      /\ IsCall(e) /\ discarded' = discarded
  BY CollectorWords DEF Collector!TakeCall, Collector!Take
<1>2. /\ consumed \in Seq(PortEvents) /\ lawful \in BOOLEAN /\ Gathered /\ discarded \in Nat
  BY <1>1, WhileCollecting
<1>3. /\ consumed' \in Seq(PortEvents) /\ Len(consumed') = Len(consumed) + 1 /\ Len(consumed) \in Nat
      /\ consumed'[Len(consumed')] = e
      /\ \A i \in 1 .. Len(consumed) : consumed'[i] = consumed[i]
      /\ JoinedText(consumed) \in Text
      /\ JoinedText(consumed') = JoinedText(consumed) \o TextOfEvent(e)
      /\ Calls(consumed) \in Seq(PortEvents)
      /\ Calls(consumed') = Calls(consumed) \o CallOfEvent(e)
      /\ Completions(consumed')
           = Completions(consumed) \cup (IF IsCompleted(e) THEN {Len(consumed')} ELSE {})
  BY <1>1, <1>2, StreamGrows
<1>4. ~ IsText(e) /\ ~ IsCompleted(e) /\ IsModelEvent(e)
  BY <1>1, PortEventsAreEvents
<1>5. Completions(consumed') = Completions(consumed)
  BY <1>3, <1>4
<1>6. JoinedText(consumed') = JoinedText(consumed)
  <2>1. TextOfEvent(e) = <<>>
    BY <1>4 DEF TextOfEvent
  <2>2. JoinedText(consumed) \o <<>> = JoinedText(consumed)
    BY <1>3 DEF Text
  <2>3. QED
    BY <1>3, <2>1, <2>2
<1>7. Calls(consumed') = Append(Calls(consumed), e)
  <2>1. CallOfEvent(e) = <<e>>
    BY <1>1 DEF CallOfEvent
  <2>2. Calls(consumed) \o <<e>> = Append(Calls(consumed), e)
    BY <1>3
  <2>3. QED
    BY <1>3, <2>1, <2>2
<1>8. /\ Len(Calls(consumed')) = Len(Calls(consumed)) + 1 /\ Len(Calls(consumed)) \in Nat
      /\ Calls(consumed')[Len(Calls(consumed))+ 1] = e
      /\ \A i \in 1 .. Len(Calls(consumed)) : Calls(consumed')[i] = Calls(consumed)[i]
      /\ DOMAIN Calls(consumed) = 1 .. Len(Calls(consumed))
  BY <1>3, <1>7
<1>9. Collector!Parts(collected)
        = Len(Calls(consumed)) + (IF JoinedText(consumed) = <<>> THEN 0 ELSE 1)
  BY <1>2 DEF Gathered, Collector!Parts
<1>10. CASE collected.completion # None
  <2>1. UNCHANGED collected /\ outcome' = "after_completion"
    BY <1>10 DEF Collector!TakeCall, Collector!Refuse
  <2>2. QED
    BY <1>1, <1>2, <1>10, <2>1, NothingFollows
<1>11. CASE collected.completion = None /\ Collector!Parts(collected) >= MAX_MESSAGE_PARTS
  <2>1. UNCHANGED collected /\ outcome' = "too_many_parts"
    BY <1>11 DEF Collector!TakeCall, Collector!Refuse
  <2>2. ~ Message(consumed')
    <3>1. Len(Calls(consumed')) + (IF JoinedText(consumed') = <<>> THEN 0 ELSE 1)
            = Collector!Parts(collected) + 1 /\ Collector!Parts(collected) \in Nat
      BY <1>6, <1>8, <1>9
    <3>2. QED
      BY <1>11, <3>1, PortAssumption DEF Message
  <2>3. QED
    BY <1>1, <1>2, <1>3, <1>6, <2>1, <2>2, RefusalKeeps DEF Collector!Refusals, Gathered
<1>12. CASE collected.completion = None /\ ~ (Collector!Parts(collected) >= MAX_MESSAGE_PARTS)
            /\ Collector!Repeats(e)
  <2>1. UNCHANGED collected /\ outcome' = "repeated_call"
    BY <1>12 DEF Collector!TakeCall, Collector!Refuse
  <2>2. PICK i \in 1 .. Len(Calls(consumed)) : Calls(consumed)[i].id = e.id
    BY <1>2, <1>8, <1>12 DEF Collector!Repeats, Gathered
  <2>3. /\ i \in 1 .. Len(Calls(consumed')) /\ Len(Calls(consumed)) + 1 \in 1 .. Len(Calls(consumed'))
        /\ Calls(consumed')[i].id = Calls(consumed')[Len(Calls(consumed)) + 1].id
        /\ i # Len(Calls(consumed)) + 1
    BY <1>8, <2>2
  <2>4. ~ Message(consumed')
    BY <2>3 DEF Message
  <2>5. QED
    BY <1>1, <1>2, <1>3, <1>6, <2>1, <2>4, RefusalKeeps DEF Collector!Refusals, Gathered
<1>13. CASE collected.completion = None /\ ~ (Collector!Parts(collected) >= MAX_MESSAGE_PARTS)
            /\ ~ Collector!Repeats(e)
  <2>1. collected' = [collected EXCEPT !.calls = Append(@, e)] /\ outcome' = outcome
    BY <1>13 DEF Collector!TakeCall, Collector!Keep
  <2>2. collected' = [fragments |-> collected.fragments, calls |-> Append(collected.calls, e),
                      completion |-> None]
    BY <1>2, <1>13, <2>1 DEF Gathered
  <2>3. collected'.calls = Calls(consumed')
    BY <1>2, <1>7, <2>2 DEF Gathered
  <2>4. ASSUME NEW i \in 1 .. Len(Calls(consumed')), NEW j \in 1 .. Len(Calls(consumed')),
               Calls(consumed')[i].id = Calls(consumed')[j].id
        PROVE  i = j
    <3>1. /\ i \in 1 .. Len(Calls(consumed)) \/ i = Len(Calls(consumed)) + 1
          /\ j \in 1 .. Len(Calls(consumed)) \/ j = Len(Calls(consumed)) + 1
      BY <1>8
    <3>2. \A k \in 1 .. Len(Calls(consumed)) : Calls(consumed)[k].id # e.id
      BY <1>2, <1>8, <1>13 DEF Collector!Repeats, Gathered
    <3>3. QED
      BY <1>2, <1>8, <2>4, <3>1, <3>2 DEF Gathered
  <2>5. Collector!Parts(collected') <= MAX_MESSAGE_PARTS
    <3>1. Collector!Parts(collected') = Collector!Parts(collected) + 1 /\ Collector!Parts(collected) \in Nat
      BY <1>2, <1>8, <1>9, <2>2, <2>3 DEF Gathered, Collector!Parts
    <3>2. QED
      BY <1>13, <3>1, PortAssumption
  <2>6. \A i \in 1 .. Len(consumed') : IsModelEvent(consumed'[i])
    <3>1. \A i \in 1 .. Len(consumed') : i \in 1 .. Len(consumed) \/ i = Len(consumed')
      BY <1>3
    <3>2. QED
      BY <1>2, <1>3, <1>4, <3>1, Zenon DEF Gathered
  <2>7. Gathered'
    BY <1>1, <1>2, <1>5, <1>6, <1>13, <2>2, <2>3, <2>4, <2>5, <2>6 DEF Gathered
  <2>8. QED
    BY <1>1, <1>2, <1>3, <2>1, <2>7 DEF CollectInv
<1>14. QED
  BY <1>10, <1>11, <1>12, <1>13

\* The completion is taken, or refused because it is the second.
LEMMA TakesCompletion ==
  ASSUME CollectInv, NEW e \in PortEvents, Collector!TakeCompletion(e)
  PROVE  CollectInv'
<1>1. /\ outcome = "collecting" /\ consumed' = Append(consumed, e) /\ lawful' = lawful
      /\ lawful => Legal(consumed')
      /\ IsCompleted(e) /\ discarded' = discarded
  BY CollectorWords DEF Collector!TakeCompletion, Collector!Take
<1>2. /\ consumed \in Seq(PortEvents) /\ lawful \in BOOLEAN /\ Gathered /\ discarded \in Nat
  BY <1>1, WhileCollecting
<1>3. /\ consumed' \in Seq(PortEvents) /\ Len(consumed') = Len(consumed) + 1 /\ Len(consumed) \in Nat
      /\ consumed'[Len(consumed')] = e
      /\ \A i \in 1 .. Len(consumed) : consumed'[i] = consumed[i]
      /\ JoinedText(consumed) \in Text
      /\ JoinedText(consumed') = JoinedText(consumed) \o TextOfEvent(e)
      /\ Calls(consumed) \in Seq(PortEvents)
      /\ Calls(consumed') = Calls(consumed) \o CallOfEvent(e)
      /\ Completions(consumed')
           = Completions(consumed) \cup (IF IsCompleted(e) THEN {Len(consumed')} ELSE {})
  BY <1>1, <1>2, StreamGrows
<1>4. ~ IsText(e) /\ ~ IsCall(e) /\ IsModelEvent(e)
  BY <1>1, PortEventsAreEvents
<1>5. JoinedText(consumed') = JoinedText(consumed) /\ Calls(consumed') = Calls(consumed)
  <2>1. TextOfEvent(e) = <<>> /\ CallOfEvent(e) = <<>>
    BY <1>4 DEF TextOfEvent, CallOfEvent
  <2>2. JoinedText(consumed) \o <<>> = JoinedText(consumed) /\ Calls(consumed) \o <<>> = Calls(consumed)
    BY <1>3 DEF Text
  <2>3. QED
    BY <1>3, <2>1, <2>2
<1>6. CASE collected.completion # None
  <2>1. UNCHANGED collected /\ outcome' = "after_completion"
    BY <1>6 DEF Collector!TakeCompletion, Collector!Refuse
  <2>2. QED
    BY <1>1, <1>2, <1>6, <2>1, NothingFollows
<1>7. CASE collected.completion = None
  <2>1. collected' = [collected EXCEPT !.completion = e] /\ outcome' = outcome
    BY <1>7 DEF Collector!TakeCompletion, Collector!Keep
  <2>2. collected' = [fragments |-> collected.fragments, calls |-> collected.calls, completion |-> e]
    BY <1>2, <2>1 DEF Gathered
  <2>3. Completions(consumed') = {Len(consumed')}
    BY <1>1, <1>2, <1>3, <1>7 DEF Gathered
  <2>4. Completions(consumed') # {}
    BY <2>3
  <2>5. \A i \in 1 .. Len(consumed') : IsModelEvent(consumed'[i])
    <3>1. \A i \in 1 .. Len(consumed') : i \in 1 .. Len(consumed) \/ i = Len(consumed')
      BY <1>3
    <3>2. QED
      BY <1>2, <1>3, <1>4, <3>1, Zenon DEF Gathered
  <2>6. e # None
    <3>1. e.type = "completed" /\ e \in PortEvents
      BY <1>1 DEF IsCompleted
    <3>2. QED
      BY <3>1, PortAssumption
  <2>7. Gathered'
    BY <1>1, <1>2, <1>3, <1>5, <2>2, <2>3, <2>5, <2>6 DEF Gathered, Collector!Parts
  <2>8. QED
    BY <1>1, <1>2, <1>3, <2>1, <2>7 DEF CollectInv
<1>8. QED
  BY <1>6, <1>7

\* What was gathered keeps the types of the collector's variables.
LEMMA CollectedTyped ==
  ASSUME Gathered
  PROVE  /\ collected.completion # None => Collector!IsCompleted(collected.completion)
         /\ Collector!Parts(collected) <= MAX_MESSAGE_PARTS
<1>1. ASSUME collected.completion # None
      PROVE  IsCompleted(collected.completion)
  <2>1. Len(consumed) \in Completions(consumed) /\ collected.completion = consumed[Len(consumed)]
    BY <1>1 DEF Gathered
  <2>2. QED
    BY <2>1 DEF Completions
<1>2. QED
  BY <1>1, CollectorWords DEF Gathered

\* What is no ModelEvent is refused, as the second completion is.
LEMMA TakesUnsupported ==
  ASSUME CollectInv, NEW e \in PortEvents, Collector!TakeUnsupported(e)
  PROVE  CollectInv'
<1>1. /\ outcome = "collecting" /\ consumed' = Append(consumed, e) /\ lawful' = lawful
      /\ ~ lawful /\ UNCHANGED <<discarded, collected>> /\ e.type = "unsupported"
      /\ outcome' = IF collected.completion # None THEN "after_completion" ELSE "unsupported"
  BY DEF Collector!TakeUnsupported, Collector!Take, Collector!Refuse
<1>2. /\ consumed \in Seq(PortEvents) /\ lawful \in BOOLEAN /\ Gathered /\ discarded \in Nat
  BY <1>1, WhileCollecting
<1>3. /\ consumed' \in Seq(PortEvents) /\ Len(consumed') = Len(consumed) + 1 /\ Len(consumed) \in Nat
      /\ consumed'[Len(consumed')] = e
      /\ JoinedText(consumed) \in Text
      /\ JoinedText(consumed') = JoinedText(consumed) \o TextOfEvent(e)
  BY <1>1, <1>2, StreamGrows
<1>4. ~ IsModelEvent(e)
  BY <1>1, PortEventsAreEvents
<1>5. ~ Message(consumed')
  <2>1. Len(consumed') \in 1 .. Len(consumed')
    BY <1>3
  <2>2. QED
    BY <1>3, <1>4, <2>1 DEF Message
<1>6. JoinedText(consumed') = JoinedText(consumed)
  <2>1. TextOfEvent(e) = <<>>
    BY <1>1 DEF TextOfEvent, IsText
  <2>2. JoinedText(consumed) \o <<>> = JoinedText(consumed)
    BY <1>3 DEF Text
  <2>3. QED
    BY <1>3, <2>1, <2>2
<1>7. outcome' \in Collector!Refusals
  BY <1>1 DEF Collector!Refusals
<1>8. discarded' \in Nat /\ discarded' = Len(JoinedText(consumed'))
  BY <1>1, <1>2, <1>6 DEF Gathered
<1>9. QED
  BY <1>1, <1>2, <1>3, <1>5, <1>7, <1>8, RefusalKeeps

\* The call is given up: nothing is said of what was gathered but its length.
LEMMA PortFailure ==
  ASSUME CollectInv, Collector!PortFails
  PROVE  CollectInv'
<1>1. outcome = "collecting" /\ outcome' = "port_failed" /\ UNCHANGED <<lawful, consumed, collected, discarded>>
  BY DEF Collector!PortFails
<1>2. /\ consumed \in Seq(PortEvents) /\ lawful \in BOOLEAN /\ Gathered /\ discarded \in Nat
      /\ lawful => Legal(consumed)
  BY <1>1, WhileCollecting
<1>3. CollectorProps'
  BY <1>1, <1>2, CollectedTyped, CollectorWords DEF CollectorProps, Gathered, Collector!TypeOK, Collector!DiscardedIsReceived, Collector!CollectsTheMessage, Collector!LawfulPortsUnderstood,
     Collector!Refusals
<1>4. QED
  BY <1>1, <1>2, <1>3 DEF CollectInv

\* The message is assembled, or refused because it is none.
LEMMA Assembles ==
  ASSUME CollectInv, Collector!Assemble
  PROVE  CollectInv'
<1> DEFINE calls == collected.calls
           text == FlattenSeq(collected.fragments)
           finish == collected.completion.finish
<1>1. /\ outcome = "collecting" /\ UNCHANGED <<lawful, consumed, collected, discarded>>
      /\ lawful => collected.completion # None
  BY DEF Collector!Assemble
<1>2. /\ consumed \in Seq(PortEvents) /\ lawful \in BOOLEAN /\ Gathered /\ discarded \in Nat
      /\ lawful => Legal(consumed)
  BY <1>1, WhileCollecting
<1>3. outcome' =
        IF collected.completion = None THEN "no_completion"
        ELSE IF finish = "stop" /\ (Collector!IsBlank(text) \/ calls # <<>>) THEN "bad_stop"
        ELSE IF finish = "tool_calls" /\ calls = <<>> THEN "no_calls"
        ELSE IF ~ Collector!MessageFits(text, calls) THEN "invalid_message"
        ELSE "response"
  <2>1. Collector!JoinedFragments = text
    BY CollectorWords DEF Collector!JoinedFragments
  <2>2. QED
    BY <2>1 DEF Collector!Assemble, Collector!BadStop
<1>4. calls = Calls(consumed) /\ text = JoinedText(consumed)
  BY <1>2 DEF Gathered
<1> HIDE DEF calls, text
<1>5. CASE collected.completion = None
  <2>1. outcome' = "no_completion" /\ ~ lawful
    BY <1>1, <1>3, <1>5
  <2>2. ~ Message(consumed')
    BY <1>1, <1>2, <1>5 DEF Gathered, Message
  <2>3. QED
    BY <1>1, <1>2, <2>1, <2>2, RefusalKeeps DEF Collector!Refusals, Gathered
<1>6. CASE collected.completion # None
  <2>1. /\ Completions(consumed) = {Len(consumed)} /\ collected.completion = consumed[Len(consumed)]
        /\ finish = consumed[Len(consumed)].finish
    BY <1>2, <1>6 DEF Gathered
  <2>2. Len(consumed) \in 1 .. Len(consumed) /\ IsCompleted(consumed[Len(consumed)])
    BY <2>1 DEF Completions
  <2>3. finish \in {"stop", "tool_calls"}
    BY <1>2, <2>1, <2>2, PortEventsAreEvents
  <2>4. Legal(consumed) <=> (finish = "tool_calls" <=> Calls(consumed) # <<>>)
    BY <2>1, Zenon DEF Legal
  <2> HIDE DEF finish
  <2>5. CASE finish = "stop" /\ (Collector!IsBlank(text) \/ calls # <<>>)
    <3>1. outcome' = "bad_stop"
      BY <1>3, <1>6, <2>5
    <3>2. ~ Message(consumed')
      BY <1>1, <1>4, <2>4, <2>5 DEF Message, Collector!MessageFits
    <3>3. lawful => Collector!IsBlank(JoinedText(consumed))
      BY <1>2, <1>4, <2>4, <2>5
    <3>4. QED
      BY <1>1, <1>2, <3>1, <3>2, <3>3, RefusalKeeps DEF Collector!Refusals, Gathered
  <2>6. CASE finish = "tool_calls" /\ calls = <<>>
    <3>1. outcome' = "no_calls"
      BY <1>3, <1>6, <2>6
    <3>2. ~ Legal(consumed)
      BY <1>4, <2>4, <2>6
    <3>3. ~ Message(consumed') /\ ~ lawful
      BY <1>1, <1>2, <3>2 DEF Message
    <3>4. QED
      BY <1>1, <1>2, <3>1, <3>3, RefusalKeeps DEF Collector!Refusals, Gathered
  <2>7. CASE /\ ~ (finish = "stop" /\ (Collector!IsBlank(text) \/ calls # <<>>))
             /\ ~ (finish = "tool_calls" /\ calls = <<>>)
             /\ ~ Collector!MessageFits(text, calls)
    <3>1. outcome' = "invalid_message"
      BY <1>3, <1>6, <2>7
    <3>2. ~ Message(consumed')
      BY <1>1, <1>4, <2>7 DEF Message
    <3>3. QED
      BY <1>1, <1>2, <3>1, <3>2, RefusalKeeps DEF Collector!Refusals, Gathered
  <2>8. CASE /\ ~ (finish = "stop" /\ (Collector!IsBlank(text) \/ calls # <<>>))
             /\ ~ (finish = "tool_calls" /\ calls = <<>>)
             /\ Collector!MessageFits(text, calls)
    <3>1. outcome' = "response"
      BY <1>3, <1>6, <2>7, <2>8
    <3>2. Legal(consumed)
      BY <1>4, <2>3, <2>4, <2>8
    <3>3. Calls(consumed) = <<>> => JoinedText(consumed) # <<>>
      <4>1. Collector!IsBlank(<<>>)
        BY DEF Collector!IsBlank
      <4>2. QED
        BY <1>4, <2>3, <2>8, <4>1
    <3>4. Completions(consumed) # {}
      BY <2>1
    <3>5. Len(Calls(consumed)) + (IF JoinedText(consumed) = <<>> THEN 0 ELSE 1) <= MAX_MESSAGE_PARTS
      BY <1>2 DEF Gathered, Collector!Parts
    <3>6. Message(consumed)
      BY <1>2, <1>4, <2>8, <3>2, <3>3, <3>4, <3>5 DEF Message, Gathered
    <3>7. Collector!MakesMessage(consumed')
      BY <1>1, <1>2, <3>6, MakesMessageIs
    <3>8. Collector!Message'
            = (IF JoinedText(consumed) = <<>> THEN <<>> ELSE <<Collector!ModelTextDelta(JoinedText(consumed))>>)
              \o Calls(consumed)
      <4>1. Collector!JoinedFragments' = JoinedText(consumed)
        BY <1>1, <1>4, CollectorWords DEF Collector!JoinedFragments, text
      <4>2. collected'.calls = Calls(consumed)
        BY <1>1, <1>4 DEF calls
      <4>3. QED
        BY <4>1, <4>2, Zenon DEF Collector!Message
    <3>9. Collector!CollectsTheMessage'
      <4>1. outcome' \notin Collector!Refusals
        BY <3>1 DEF Collector!Refusals
      <4>2. Collector!JoinedText(consumed') = JoinedText(consumed) /\ Collector!Calls(consumed') = Calls(consumed)
        BY <1>1, CollectorWords
      <4>3. collected'.completion = consumed'[Len(consumed')]
        BY <1>1, <2>1
      <4>4. QED
        BY <3>1, <3>7, <3>8, <4>1, <4>2, <4>3, Zenon DEF Collector!CollectsTheMessage
    <3>10. Collector!TypeOK'
      BY <1>1, <1>2, <3>1, CollectedTyped DEF Collector!TypeOK, Collector!Parts
    <3>11. Collector!DiscardedIsReceived' /\ Collector!LawfulPortsUnderstood'
      BY <1>1, <1>2, <3>1, CollectorWords DEF Collector!DiscardedIsReceived, Collector!LawfulPortsUnderstood, Gathered
    <3>12. QED
      BY <1>1, <1>2, <3>1, <3>9, <3>10, <3>11 DEF CollectInv, CollectorProps
  <2>9. QED
    BY <2>5, <2>6, <2>7, <2>8
<1>7. QED
  BY <1>5, <1>6

\* Nothing has been gathered of no event.
LEMMA CollectInit ==
  ASSUME Collector!Init
  PROVE  CollectInv
<1>1. /\ lawful \in BOOLEAN /\ consumed = <<>> /\ discarded = 0 /\ outcome = "collecting"
      /\ collected = [fragments |-> <<>>, calls |-> <<>>, completion |-> None]
  BY DEF Collector!Init
<1>2. JoinedText(<<>>) = <<>> /\ Calls(<<>>) = <<>> /\ Completions(<<>>) = {} /\ FlattenSeq(<<>>) = <<>>
  <2>1. [i \in 1 .. Len(<<>>) |-> TextOfEvent(<<>>[i])] = <<>>
    OBVIOUS
  <2>2. [i \in 1 .. Len(<<>>) |-> CallOfEvent(<<>>[i])] = <<>>
    OBVIOUS
  <2>3. FlattenSeq(<<>>) = <<>>
    BY FlattenIsLast
  <2>4. JoinedText(<<>>) = <<>> /\ Calls(<<>>) = <<>>
    BY <2>1, <2>2, <2>3, Zenon DEF JoinedText, Calls
  <2>5. Completions(<<>>) = {}
    BY DEF Completions
  <2>6. QED
    BY <2>3, <2>4, <2>5
<1>3. Collector!Parts(collected) <= MAX_MESSAGE_PARTS
  BY <1>1, PortAssumption DEF Collector!Parts
<1>4. Gathered
  BY <1>1, <1>2, <1>3, PortAssumption DEF Gathered
<1>5. Legal(consumed)
  BY <1>1, <1>2 DEF Legal
<1>6. QED
  BY <1>1, <1>4, <1>5 DEF CollectInv

\* Every step of the collector keeps the invariant.
LEMMA CollectNext ==
  ASSUME CollectInv, [Collector!Next]_(Collector!vars)
  PROVE  CollectInv'
<1>1. CASE UNCHANGED Collector!vars
  BY <1>1 DEF Collector!vars, CollectInv, Gathered, CollectorProps, Collector!TypeOK,
     Collector!CollectsTheMessage, Collector!DiscardedIsReceived, Collector!LawfulPortsUnderstood,
     Collector!Message, Collector!JoinedFragments
<1>2. CASE Collector!Next
  BY <1>2, TakesText, TakesCall, TakesCompletion, TakesUnsupported, Assembles, PortFailure
     DEF Collector!Next
<1>3. QED
  BY <1>1, <1>2

\* The invariant holds the properties: what is still collected breaks none.
LEMMA CollectImplies ==
  ASSUME CollectInv
  PROVE  CollectorProps
<1>1. CASE outcome = "collecting"
  <2>1. /\ consumed \in Seq(PortEvents) /\ lawful \in BOOLEAN /\ Gathered /\ discarded \in Nat
    BY <1>1, WhileCollecting
  <2>2. QED
    BY <1>1, <2>1, CollectedTyped, CollectorWords DEF CollectorProps, Collector!TypeOK,
       Collector!CollectsTheMessage, Collector!DiscardedIsReceived, Collector!LawfulPortsUnderstood,
       Collector!Refusals, Gathered
<1>2. CASE outcome # "collecting"
  BY <1>2 DEF CollectInv
<1>3. QED
  BY <1>1, <1>2

(***************************************************************************)
(* The collector of runtime/model_stream.py returns a response exactly for *)
(* the streams that make a message and loses nothing of it, counts the     *)
(* text received before a failure, and refuses a port that keeps its       *)
(* contract only for what the contract does not promise.                   *)
(***************************************************************************)
THEOREM MessagesCollected == Collector!Spec => []CollectorProps
<1>1. Collector!Init => CollectInv
  BY CollectInit
<1>2. CollectInv /\ [Collector!Next]_(Collector!vars) => CollectInv'
  BY CollectNext
<1>3. CollectInv => CollectorProps
  BY CollectImplies
<1>4. QED
  BY <1>1, <1>2, <1>3, PTL DEF Collector!Spec

(***************************************************************************)
(* The same in the composition of adapters and collector: in a behaviour   *)
(* of the collector, CollectsTheMessage holds in every state.              *)
(***************************************************************************)
THEOREM CollectorCorrect == Spec => []CollectsTheMessage
<1> DEFINE Inv == part = "collector" => CollectInv
<1>1. Init => Inv
  BY CollectInit DEF Init
<1>2. Inv /\ [Next]_vars => Inv'
  <2>1. SUFFICES ASSUME Inv, [Next]_vars, part' = "collector"
                 PROVE  CollectInv'
    OBVIOUS
  <2>2. part = "collector" /\ [Collector!Next]_(Collector!vars)
    BY <2>1 DEF Next, vars, collector, Collector!vars
  <2>3. QED
    BY <2>1, <2>2, CollectNext
<1>3. Inv => CollectsTheMessage
  BY CollectImplies DEF CollectsTheMessage, CollectorProps
<1>4. QED
  BY <1>1, <1>2, <1>3, PTL DEF Spec

-----------------------------------------------------------------------------
(* The contract of the port *)

IsStream(s) == \E S : s \in Seq(S)
HasCall(s) == \E i \in 1 .. Len(s) : IsCall(s[i])

\* A stream with no completion keeps the contract, and one that ends with a fitting one.
LEMMA LegalIs ==
  ASSUME NEW s, IsStream(s)
  PROVE  Legal(s) <=> \A i \in Completions(s) : i = Len(s) /\ (s[i].finish = "tool_calls" <=> HasCall(s))
<1>1. Calls(s) # <<>> <=> HasCall(s)
  <2>1. PICK S : s \in Seq(S)
    BY DEF IsStream
  <2>2. QED
    BY <2>1, CallsAreEvents DEF HasCall
<1>2. QED
  BY <1>1, Zenon DEF Legal

\* What a stream and a further piece of it make.
LEMMA Continues ==
  ASSUME NEW s, NEW t, IsStream(s), IsStream(t)
  PROVE  /\ IsStream(s \o t) /\ IsPrefix(s, s \o t)
         /\ HasCall(s \o t) <=> HasCall(s) \/ HasCall(t)
         /\ Completions(s \o t) = {} <=> Completions(s) = {} /\ Completions(t) = {}
<1>1. PICK S : s \in Seq(S)
  BY DEF IsStream
<1>2. PICK T : t \in Seq(T)
  BY DEF IsStream
<1> DEFINE U == S \cup T
           u == s \o t
<1>3. s \in Seq(U) /\ t \in Seq(U)
  BY <1>1, <1>2
<1>4. /\ u \in Seq(U) /\ Len(u) = Len(s) + Len(t) /\ Len(s) \in Nat /\ Len(t) \in Nat
      /\ \A i \in 1 .. Len(s) : u[i] = s[i]
      /\ \A i \in 1 .. Len(t) : u[Len(s) + i] = t[i]
  BY <1>3
<1>5. IsPrefix(s, u)
  BY <1>3, <1>4 DEF IsPrefix
<1> HIDE DEF U, u
<1>6. \A i \in 1 .. Len(u) : i \in 1 .. Len(s) \/ \E j \in 1 .. Len(t) : i = Len(s) + j
  <2>1. SUFFICES ASSUME NEW i \in 1 .. Len(u), i \notin 1 .. Len(s)
                 PROVE  \E j \in 1 .. Len(t) : i = Len(s) + j
    OBVIOUS
  <2>2. i - Len(s) \in 1 .. Len(t) /\ i = Len(s) + (i - Len(s))
    BY <1>4, <2>1
  <2>3. QED
    BY <2>2
<1>7. /\ \A i \in 1 .. Len(s) : i \in 1 .. Len(u)
      /\ \A j \in 1 .. Len(t) : Len(s) + j \in 1 .. Len(u)
  BY <1>4
<1>8. HasCall(u) <=> HasCall(s) \/ HasCall(t)
  BY <1>4, <1>6, <1>7 DEF HasCall
<1>9. Completions(u) = {} <=> Completions(s) = {} /\ Completions(t) = {}
  <2>1. Completions(u) = {} <=> \A i \in 1 .. Len(u) : ~ IsCompleted(u[i])
    BY DEF Completions
  <2>2. /\ Completions(s) = {} <=> \A i \in 1 .. Len(s) : ~ IsCompleted(s[i])
        /\ Completions(t) = {} <=> \A i \in 1 .. Len(t) : ~ IsCompleted(t[i])
    BY DEF Completions
  <2>3. QED
    BY <1>4, <1>6, <1>7, <2>1, <2>2
<1>10. QED
  BY <1>4, <1>5, <1>8, <1>9 DEF u, IsStream

\* A piece of one event.
LEMMA OneEvent ==
  ASSUME NEW e
  PROVE  /\ IsStream(<<e>>) /\ (HasCall(<<e>>) <=> IsCall(e))
         /\ Completions(<<e>>) = IF IsCompleted(e) THEN {1} ELSE {}
<1> DEFINE p == <<e>>
<1>1. p \in Seq({e}) /\ 1 .. Len(p) = {1} /\ p[1] = e
  OBVIOUS
<1> HIDE DEF p
<1>2. IsStream(p) /\ (HasCall(p) <=> IsCall(e))
  BY <1>1 DEF IsStream, HasCall
<1>3. Completions(p) = {i \in {1} : IsCompleted(e)}
  BY <1>1 DEF Completions
<1>4. QED
  BY <1>2, <1>3 DEF p

\* A fitting completion ends a stream.
LEMMA Closes ==
  ASSUME NEW s, IsStream(s), Completions(s) = {}, NEW c, IsCompleted(c),
         c.finish = "tool_calls" <=> HasCall(s)
  PROVE  IsStream(s \o <<c>>) /\ IsPrefix(s, s \o <<c>>) /\ Legal(s \o <<c>>) /\ Completions(s \o <<c>>) # {}
<1>1. IsStream(<<c>>) /\ Completions(<<c>>) = {1} /\ ~ HasCall(<<c>>)
  <2>1. ~ IsCall(c)
    BY DEF IsCompleted, IsCall
  <2>2. QED
    BY <2>1, OneEvent
<1> DEFINE u == s \o <<c>>
<1>2. /\ IsStream(u) /\ IsPrefix(s, u) /\ Completions(u) # {}
      /\ HasCall(u) <=> HasCall(s)
  BY <1>1, Continues
<1>3. Len(u) = Len(s) + 1 /\ Len(s) \in Nat /\ u[Len(s) + 1] = c /\ \A i \in 1 .. Len(s) : u[i] = s[i]
  <2>1. PICK S : s \in Seq(S)
    BY DEF IsStream
  <2>2. s \in Seq(S \cup {c}) /\ <<c>> \in Seq(S \cup {c})
    BY <2>1
  <2>3. QED
    BY <2>2
<1> HIDE DEF u
<1>4. \A i \in Completions(u) : i = Len(u) /\ u[i] = c
  <2>1. SUFFICES ASSUME NEW i \in 1 .. Len(u), IsCompleted(u[i])
                 PROVE  i = Len(u) /\ u[i] = c
    BY DEF Completions
  <2>2. i \in 1 .. Len(s) \/ i = Len(u)
    BY <1>3
  <2>3. i \notin 1 .. Len(s)
    BY <1>3, <2>1 DEF Completions
  <2>4. QED
    BY <1>3, <2>2, <2>3
<1>5. Legal(u)
  BY <1>2, <1>4, LegalIs
<1>6. QED
  BY <1>2, <1>5 DEF u

\* The pieces that adapters yield: nothing, a text, a call.
LEMMA Pieces ==
  /\ IsStream(<<>>) /\ ~ HasCall(<<>>) /\ Completions(<<>>) = {}
  /\ \A text : LET t == <<ModelTextDelta(text)>>
               IN  IsStream(t) /\ ~ HasCall(t) /\ Completions(t) = {}
  /\ \A call : IsCall(call) => IsStream(<<call>>) /\ HasCall(<<call>>) /\ Completions(<<call>>) = {}
  /\ \A s : IsStream(s) => s \o <<>> = s /\ <<>> \o s = s
<1>1. IsStream(<<>>) /\ ~ HasCall(<<>>) /\ Completions(<<>>) = {}
  BY DEF IsStream, HasCall, Completions
<1>2. ASSUME NEW e, ~ IsCompleted(e)
      PROVE  IsStream(<<e>>) /\ (HasCall(<<e>>) <=> IsCall(e)) /\ Completions(<<e>>) = {}
  <2>1. QED
    BY <1>2, OneEvent
<1>3. \A text : ~ IsCompleted(ModelTextDelta(text)) /\ ~ IsCall(ModelTextDelta(text))
  BY DEF ModelTextDelta, IsCompleted, IsCall
<1>4. \A call : IsCall(call) => ~ IsCompleted(call)
  BY DEF IsCall, IsCompleted
<1>5. \A s : IsStream(s) => s \o <<>> = s /\ <<>> \o s = s
  BY DEF IsStream
<1>6. QED
  BY <1>1, <1>2, <1>3, <1>4, <1>5

\* The port, and each adapter, speak of the same events.
LEMMA PortWords ==
  /\ \A s : Port!Completions(s) = Completions(s) /\ (Port!Legal(s) <=> Legal(s))
  /\ \A s, t : Port!IsPrefix(s, t) <=> IsPrefix(s, t)
<1>1. \A t : Port!FlattenSeq(t) = FlattenSeq(t)
  BY Zenon DEF Port!FlattenSeq, FlattenSeq
<1>2. \A e : (Port!IsCall(e) <=> IsCall(e)) /\ (Port!IsCompleted(e) <=> IsCompleted(e))
  BY Zenon DEF Port!IsCall, IsCall, Port!IsCompleted, IsCompleted
<1>3. \A s : Port!Calls(s) = Calls(s)
  BY <1>1, <1>2, Zenon DEF Port!Calls, Calls, Port!CallOfEvent, CallOfEvent
<1>4. \A s : Port!Completions(s) = Completions(s)
  BY <1>2, Zenon DEF Port!Completions, Completions
<1>5. \A s : Port!Legal(s) <=> Legal(s)
  BY <1>3, <1>4, Zenon DEF Port!Legal, Legal
<1>6. \A s, t : Port!IsPrefix(s, t) <=> IsPrefix(s, t)
  BY Zenon DEF Port!IsPrefix, IsPrefix
<1>7. QED
  BY <1>4, <1>5, <1>6

\* What an adapter has yielded so far keeps the contract.
Kept == IsStream(out) /\ Legal(out)

\* It yields what continues the stream legally.
LEMMA PortYields ==
  ASSUME status = "open", status' = "open", IsPrefix(out, out'), Legal(out')
  PROVE  Port!Next
BY PortWords DEF Port!Next, Port!Yield

\* A piece without a completion may come until there is one.
LEMMA YieldsPiece ==
  ASSUME Kept, Completions(out) = {}, NEW t, IsStream(t), Completions(t) = {}, out' = out \o t
  PROVE  /\ Kept' /\ IsPrefix(out, out') /\ Completions(out') = {}
         /\ HasCall(out') <=> HasCall(out) \/ HasCall(t)
<1>1. /\ IsStream(out') /\ IsPrefix(out, out') /\ Completions(out') = {}
      /\ HasCall(out') <=> HasCall(out) \/ HasCall(t)
  BY Continues DEF Kept
<1>2. Legal(out')
  BY <1>1 DEF Legal
<1>3. QED
  BY <1>1, <1>2 DEF Kept

\* It ends with an error, whatever it has yielded legally.
LEMMA PortFailsAfter ==
  ASSUME Kept, status = "open", status' \notin {"open", "ended"},
         out' = out \/ (IsPrefix(out, out') /\ Kept')
  PROVE  Port!Next /\ Kept'
<1>1. IsPrefix(out, out)
  <2>1. PICK S : out \in Seq(S)
    BY DEF Kept, IsStream
  <2>2. QED
    BY <2>1 DEF IsPrefix
<1>2. IsPrefix(out, out') /\ Kept'
  <2>1. CASE out' = out
    BY <1>1, <2>1 DEF Kept
  <2>2. CASE out' # out
    BY <2>2
  <2>3. QED
    BY <2>1, <2>2
<1>3. QED
  BY <1>2, PortWords DEF Port!Next, Port!Fail, Kept

\* It ends with or without a completion.
LEMMA PortEnds ==
  ASSUME Kept, status = "open", out' = out,
         \/ status' = IF Completions(out) # {} THEN "ended" ELSE "PROTOCOL"
         \/ status' \in {"TIMEOUT", "RATE_LIMITED", "AUTHENTICATION", "PERMISSION_DENIED",
                         "INVALID_REQUEST", "UNAVAILABLE", "ERROR", "cancelled"}
  PROVE  Port!Next /\ Kept' /\ status' # "open"
<1>1. CASE Completions(out) # {} /\ status' = "ended"
  BY <1>1, PortWords DEF Port!Next, Port!End, Kept
<1>2. CASE status' \notin {"open", "ended"}
  BY <1>2, PortFailsAfter
<1>3. QED
  BY <1>1, <1>2

-----------------------------------------------------------------------------
(* Responses *)

\* The adapter speaks of the events of the port.
LEMMA ResponsesWords ==
  /\ \A s : Responses!Completions(s) = Completions(s)
  /\ \A t : Responses!ModelTextDelta(t) = ModelTextDelta(t)
  /\ \A f, u : Responses!ModelCompleted(f, u) = [type |-> "completed", finish |-> f, usage |-> u]
  /\ \A i, n, j : IsCall(Responses!Call(i, n, j)) /\ Responses!Call(i, n, j).id = i
<1>1. \A s : Responses!Completions(s) = Completions(s)
  BY Zenon DEF Responses!Completions, Responses!IsCompleted, Completions, IsCompleted
<1>2. \A t : Responses!ModelTextDelta(t) = ModelTextDelta(t)
  BY Zenon DEF Responses!ModelTextDelta, ModelTextDelta
<1>3. QED
  BY <1>1, <1>2 DEF Responses!ModelCompleted, Responses!Call, Responses!ModelToolCall, IsCall

\* As long as no response is complete, the calls it remembers are those it has yielded.
ResponsesInv ==
  /\ Kept
  /\ status = "open" =>
       /\ state = [chars |-> state.chars, calls |-> state.calls]
       /\ Completions(out) = {} => (HasCall(out) <=> DOMAIN state.calls # {})

\* Every step yields a legal piece, ends or fails.
LEMMA ResponsesStep ==
  ASSUME ResponsesInv, Responses!Next
  PROVE  ResponsesInv' /\ Port!Next
<1>1. Kept
  BY DEF ResponsesInv
<1>2. CASE Responses!Ends
  <2>1. Port!Next /\ Kept' /\ status' # "open"
    BY <1>1, <1>2, PortEnds, ResponsesWords DEF Responses!Ends, Responses!EndOfStream, Responses!SdkFails,
       Responses!Cancelled, Responses!SdkCodes
  <2>2. QED
    BY <2>1 DEF ResponsesInv
<1>3. ASSUME status = "open", out' = out, status' \notin {"open", "ended"}
      PROVE  ResponsesInv' /\ Port!Next
  <2>1. Port!Next /\ Kept'
    BY <1>1, <1>3, PortFailsAfter
  <2>2. QED
    BY <1>3, <2>1 DEF ResponsesInv
<1>4. ASSUME status = "open", status' = "open", Completions(out) = {}, NEW t, IsStream(t), Completions(t) = {},
             out' = out \o t, state' = [chars |-> state'.chars, calls |-> state'.calls],
             DOMAIN state'.calls # {} <=> DOMAIN state.calls # {} \/ HasCall(t)
      PROVE  ResponsesInv' /\ Port!Next
  <2>1. /\ Kept' /\ IsPrefix(out, out') /\ Completions(out') = {}
        /\ HasCall(out') <=> HasCall(out) \/ HasCall(t)
    BY <1>1, <1>4, YieldsPiece
  <2>2. Port!Next
    BY <1>4, <2>1, PortYields DEF Kept
  <2>3. QED
    BY <1>4, <2>1, <2>2 DEF ResponsesInv
<1>5. ASSUME NEW w, Responses!TextDelta(w)
      PROVE  ResponsesInv' /\ Port!Next
  <2>1. CASE Responses!Rejects
    BY <1>3, <1>5, <2>1 DEF Responses!TextDelta, Responses!Receives, Responses!Rejects, Responses!Raises
  <2>2. CASE ~ Responses!Rejects
    <3> DEFINE t == <<ModelTextDelta(w.text)>>
    <3>1. /\ status = "open" /\ status' = "open" /\ Completions(out) = {} /\ out' = out \o t
          /\ \E n : state' = [state EXCEPT !.chars = n]
      BY <1>5, <2>2, ResponsesWords, Zenon DEF Responses!TextDelta, Responses!Receives, Responses!Yields, Responses!Ended
    <3>2. state' = [chars |-> state'.chars, calls |-> state'.calls] /\ state'.calls = state.calls
      BY <3>1 DEF ResponsesInv
    <3>3. IsStream(t) /\ ~ HasCall(t) /\ Completions(t) = {}
      BY Pieces, Zenon
    <3> HIDE DEF t
    <3>4. QED
      BY <1>4, <3>1, <3>2, <3>3
  <2>3. QED
    BY <2>1, <2>2
<1>6. ASSUME NEW w, Responses!CallDone(w)
      PROVE  ResponsesInv' /\ Port!Next
  <2>1. CASE Responses!Rejects
    BY <1>3, <1>6, <2>1 DEF Responses!CallDone, Responses!Receives, Responses!Rejects, Responses!Raises
  <2>2. CASE ~ Responses!Rejects
    <3> DEFINE call == Responses!Call(w.item.id, w.item.name, w.item.text)
    <3>1. /\ status = "open" /\ status' = "open" /\ Completions(out) = {} /\ out' = out \o <<call>>
          /\ \E n : state' = [state EXCEPT
               !.calls = [i \in DOMAIN @ \cup {call.id} |-> IF i = call.id THEN call ELSE @[i]],
               !.chars = @ + n]
      BY <1>6, <2>2, ResponsesWords, Zenon DEF Responses!CallDone, Responses!Receives, Responses!Yields, Responses!Ended
    <3>2. IsCall(call)
      BY ResponsesWords
    <3> HIDE DEF call
    <3>3. state' = [chars |-> state'.chars, calls |-> state'.calls]
          /\ DOMAIN state'.calls = DOMAIN state.calls \cup {call.id}
      BY <3>1 DEF ResponsesInv
    <3>4. IsStream(<<call>>) /\ HasCall(<<call>>) /\ Completions(<<call>>) = {}
      BY <3>2, Pieces, Zenon
    <3>5. QED
      BY <1>4, <3>1, <3>3, <3>4
  <2>3. QED
    BY <2>1, <2>2
<1>7. ASSUME NEW w, Responses!ItemDone(w) \/ Responses!Ignored(w)
      PROVE  ResponsesInv' /\ Port!Next
  <2>1. CASE Responses!Rejects
    BY <1>3, <1>7, <2>1 DEF Responses!ItemDone, Responses!Ignored, Responses!Receives, Responses!Rejects, Responses!Raises
  <2>2. CASE ~ Responses!Rejects
    <3>1. /\ status = "open" /\ status' = "open" /\ Completions(out) = {} /\ out' = out \o <<>> /\ state' = state
      BY <1>7, <2>2, ResponsesWords, Zenon
         DEF Responses!ItemDone, Responses!Ignored, Responses!Receives, Responses!Yields, Responses!Ended
    <3>2. state' = [chars |-> state'.chars, calls |-> state'.calls]
      BY <3>1 DEF ResponsesInv
    <3>3. QED
      BY <1>4, <3>1, <3>2, Pieces
  <2>3. QED
    BY <2>1, <2>2
<1>8. ASSUME NEW w, Responses!Completed(w)
      PROVE  ResponsesInv' /\ Port!Next
  <2> DEFINE items == w.response.items
             done == Responses!ModelCompleted(Responses!FinishOf(items), w.response.usage)
  <2>1. CASE status = "open" /\ out' = out /\ status' \notin {"open", "ended"}
    BY <1>3, <2>1
  <2>2. CASE ~ (status = "open" /\ out' = out /\ status' \notin {"open", "ended"})
    <3>1. /\ status = "open" /\ status' = "open" /\ Completions(out) = {} /\ out' = out \o <<done>>
          /\ state' = state /\ Responses!CallsConfirmed(items)
      <4>1. /\ status = "open"
            /\ \/ Responses!Rejects
               \/ Responses!Raises("REFUSED") /\ out' = out
               \/ /\ ~ Responses!Ended /\ Responses!CallsConfirmed(items)
                  /\ Responses!Yields(<<done>>) /\ state' = state
        BY <1>8, Zenon DEF Responses!Completed, Responses!Receives
      <4> HIDE DEF done
      <4>2. QED
        BY <2>2, <4>1, ResponsesWords DEF Responses!Rejects, Responses!Raises, Responses!Yields, Responses!Ended
    <3>2. HasCall(out) <=> Responses!CallItems(items) # {}
      <4>1. {items[i].id : i \in Responses!CallItems(items)} = DOMAIN state.calls
        BY <3>1, Zenon DEF Responses!CallsConfirmed
      <4>2. Responses!CallItems(items) # {} <=> DOMAIN state.calls # {}
        BY <4>1
      <4>3. QED
        BY <3>1, <4>2 DEF ResponsesInv
    <3>3. IsCompleted(done) /\ (done.finish = "tool_calls" <=> HasCall(out))
      BY <3>2, ResponsesWords DEF IsCompleted, Responses!FinishOf
    <3> HIDE DEF done
    <3>4. IsStream(out') /\ IsPrefix(out, out') /\ Legal(out') /\ Completions(out') # {}
      BY <1>1, <3>1, <3>3, Closes DEF Kept
    <3>5. Port!Next
      BY <3>1, <3>4, PortYields
    <3>6. QED
      BY <3>1, <3>4, <3>5 DEF ResponsesInv, Kept
  <2>3. QED
    BY <2>1, <2>2
<1>9. ASSUME NEW w, Responses!Failed(w) \/ Responses!OtherEvent(w)
      PROVE  ResponsesInv' /\ Port!Next
  <2>1. status = "open" /\ out' = out /\ status' \notin {"open", "ended"}
    <3>1. \A code : Responses!Classified(code) \in {"UNAVAILABLE", "REFUSED", "INVALID_REQUEST", "ERROR"}
      BY DEF Responses!Classified
    <3>2. QED
      BY <1>9, <3>1 DEF Responses!Failed, Responses!OtherEvent, Responses!Receives, Responses!Rejects, Responses!Raises
  <2>2. QED
    BY <1>3, <2>1
<1>10. QED
  BY <1>2, <1>5, <1>6, <1>7, <1>8, <1>9 DEF Responses!Next

-----------------------------------------------------------------------------
(* Messages *)

\* The adapter speaks of the events of the port.
LEMMA AnthropicWords ==
  /\ \A s : Anthropic!Completions(s) = Completions(s)
  /\ \A t : Anthropic!ModelTextDelta(t) = ModelTextDelta(t)
  /\ \A f, u : Anthropic!ModelCompleted(f, u) = [type |-> "completed", finish |-> f, usage |-> u]
  /\ \A b : IsCall(Anthropic!BlockCall(b))
<1>1. \A s : Anthropic!Completions(s) = Completions(s)
  BY Zenon DEF Anthropic!Completions, Anthropic!IsCompleted, Completions, IsCompleted
<1>2. \A t : Anthropic!ModelTextDelta(t) = ModelTextDelta(t)
  BY Zenon DEF Anthropic!ModelTextDelta, ModelTextDelta
<1>3. \A i, n, a : IsCall(Anthropic!ModelToolCall(i, n, a))
  BY DEF Anthropic!ModelToolCall, IsCall
<1>4. \A b : IsCall(Anthropic!BlockCall(b))
  BY <1>3, Zenon DEF Anthropic!BlockCall, Anthropic!Call
<1>5. QED
  BY <1>1, <1>2, <1>4 DEF Anthropic!ModelCompleted

\* The fields of stream()'s state.
AnthropicState(s) ==
  s = [started |-> s.started, delta |-> s.delta, meta |-> s.meta, input |-> s.input,
       completion |-> s.completion, chars |-> s.chars, blocks |-> s.blocks, calls |-> s.calls]

\* It counts the calls that it has yielded; the completion it keeps fits them.
AnthropicInv ==
  /\ Kept
  /\ status = "open" =>
       /\ AnthropicState(state) /\ state.delta \in BOOLEAN /\ state.calls \in Nat
       /\ ~ state.delta => Completions(out) = {}
       /\ state.delta => state.started
       /\ Completions(out) = {} => (HasCall(out) <=> state.calls > 0)
       /\ state.delta => /\ IsCompleted(state.completion)
                         /\ state.completion.finish = "tool_calls" <=> state.calls > 0

\* A step in the body of the message: a piece is yielded and the calls in it are counted.
LEMMA AnthropicBody ==
  ASSUME AnthropicInv, status = "open", status' = "open", ~ state.delta,
         NEW t, IsStream(t), Completions(t) = {}, out' = out \o t,
         AnthropicState(state'), state'.delta = FALSE,
         \/ state'.calls = state.calls /\ ~ HasCall(t)
         \/ state'.calls = state.calls + 1 /\ HasCall(t)
  PROVE  AnthropicInv' /\ Port!Next
<1>1. Kept /\ Completions(out) = {} /\ state.calls \in Nat /\ (HasCall(out) <=> state.calls > 0)
  BY DEF AnthropicInv
<1>2. /\ Kept' /\ IsPrefix(out, out') /\ Completions(out') = {}
      /\ HasCall(out') <=> HasCall(out) \/ HasCall(t)
  BY <1>1, YieldsPiece
<1>3. Port!Next
  BY <1>2, PortYields DEF Kept
<1>4. state'.calls \in Nat /\ (HasCall(out') <=> state'.calls > 0)
  BY <1>1, <1>2
<1>5. QED
  BY <1>2, <1>3, <1>4 DEF AnthropicInv

\* A step that raises.
LEMMA AnthropicFails ==
  ASSUME AnthropicInv, status = "open", out' = out, status' \notin {"open", "ended"}
  PROVE  AnthropicInv' /\ Port!Next
BY PortFailsAfter DEF AnthropicInv

\* The step of message_delta: the completion is kept for message_stop.
LEMMA AnthropicCompletes ==
  ASSUME AnthropicInv, NEW w, Anthropic!MessageDelta(w)
  PROVE  AnthropicInv' /\ Port!Next
<1> DEFINE finish == Anthropic!Finish(w.reason)
           done == Anthropic!ModelCompleted(finish, [input |-> state.input, output |-> w.output])
           Refuses == Anthropic!Rejects \/ (Anthropic!Raises(Anthropic!FinishError(w.reason)) /\ out' = out)
           Keeps == /\ Anthropic!InBody /\ Anthropic!CallsMatch(finish)
                    /\ Anthropic!Yields(<<>>)
                    /\ state' = [state EXCEPT !.delta = TRUE, !.completion = done]
<1>1. status = "open" /\ (Refuses \/ Keeps)
  BY Zenon DEF Anthropic!MessageDelta, Anthropic!Receives
<1>2. Anthropic!FinishError(w.reason) \in {"REFUSED", "ERROR", "PROTOCOL"}
  BY DEF Anthropic!FinishError
<1>3. CASE Refuses
  <2>1. out' = out /\ status' \notin {"open", "ended"}
    BY <1>2, <1>3 DEF Anthropic!Rejects, Anthropic!Raises
  <2>2. QED
    BY <1>1, <2>1, AnthropicFails
<1>4. CASE Keeps
  <2>1. IsCompleted(done) /\ done.finish = finish
    BY AnthropicWords DEF IsCompleted
  <2>2. finish = "tool_calls" <=> state.calls > 0
    BY <1>4 DEF Anthropic!CallsMatch
  <2>3. ~ state.delta /\ state.started
    BY <1>4 DEF Anthropic!InBody
  <2> HIDE DEF finish, done
  <2>4. /\ AnthropicState(state') /\ state'.delta = TRUE /\ state'.completion = done
        /\ state'.calls = state.calls /\ state'.started = state.started
    BY <1>1, <1>4 DEF AnthropicInv, AnthropicState
  <2>5. Kept /\ Completions(out) = {} /\ state.calls \in Nat /\ (HasCall(out) <=> state.calls > 0)
    BY <1>1, <2>3 DEF AnthropicInv
  <2>6. status' = "open" /\ out' = out \o <<>>
    BY <1>4 DEF Anthropic!Yields
  <2>7. /\ Kept' /\ IsPrefix(out, out') /\ Completions(out') = {}
        /\ HasCall(out') <=> HasCall(out)
    BY <2>5, <2>6, Pieces, YieldsPiece
  <2>8. Port!Next
    BY <1>1, <2>6, <2>7, PortYields DEF Kept
  <2>9. QED
    <3>1. state'.calls \in Nat /\ (HasCall(out') <=> state'.calls > 0)
      BY <2>4, <2>5, <2>7
    <3>2. IsCompleted(state'.completion) /\ (state'.completion.finish = "tool_calls" <=> state'.calls > 0)
      BY <2>1, <2>2, <2>4
    <3>3. state'.started /\ state'.delta \in BOOLEAN
      BY <2>3, <2>4
    <3>4. QED
      BY <2>4, <2>7, <2>8, <3>1, <3>2, <3>3 DEF AnthropicInv
<1> HIDE DEF Refuses, Keeps
<1>5. QED
  BY <1>1, <1>3, <1>4

\* Every step yields a legal piece, ends or fails.
LEMMA AnthropicStep ==
  ASSUME AnthropicInv, Anthropic!Next
  PROVE  AnthropicInv' /\ Port!Next
<1>1. Kept
  BY DEF AnthropicInv
<1>2. CASE Anthropic!Ends
  <2>1. Port!Next /\ Kept' /\ status' # "open"
    BY <1>1, <1>2, PortEnds, AnthropicWords DEF Anthropic!Ends, Anthropic!EndOfStream, Anthropic!SdkFails,
       Anthropic!Cancelled, Anthropic!SdkCodes
  <2>2. QED
    BY <2>1 DEF AnthropicInv
<1>3. ASSUME status = "open", Anthropic!Rejects
      PROVE  AnthropicInv' /\ Port!Next
  BY <1>3, AnthropicFails DEF Anthropic!Rejects, Anthropic!Raises
<1>4. ASSUME NEW w, Anthropic!MessageStart(w)
      PROVE  AnthropicInv' /\ Port!Next
  <2>1. /\ status = "open"
        /\ \/ Anthropic!Rejects
           \/ /\ ~ state.started /\ status' = "open" /\ out' = out \o <<>>
              /\ state' = [state EXCEPT !.started = TRUE, !.meta = w.meta, !.input = w.input]
    BY <1>4, Zenon DEF Anthropic!MessageStart, Anthropic!Receives, Anthropic!Yields
  <2>2. CASE /\ ~ state.started /\ status' = "open" /\ out' = out \o <<>>
             /\ state' = [state EXCEPT !.started = TRUE, !.meta = w.meta, !.input = w.input]
    <3>1. AnthropicState(state') /\ state'.delta = FALSE /\ state'.calls = state.calls /\ ~ state.delta
      BY <2>1, <2>2 DEF AnthropicInv, AnthropicState
    <3>2. QED
      BY <2>1, <2>2, <3>1, AnthropicBody, Pieces
  <2>3. QED
    BY <1>3, <2>1, <2>2
<1>5. ASSUME NEW w, Anthropic!BlockStart(w)
      PROVE  AnthropicInv' /\ Port!Next
  <2> DEFINE t == Anthropic!StartText(w)
  <2>1. /\ status = "open"
        /\ \/ Anthropic!Rejects
           \/ /\ ~ state.delta /\ status' = "open" /\ out' = out \o t
              /\ \E b, n : state' = [state EXCEPT !.blocks = b, !.chars = n]
    BY <1>5, Zenon DEF Anthropic!BlockStart, Anthropic!Receives, Anthropic!Yields, Anthropic!InBody
  <2>2. IsStream(t) /\ ~ HasCall(t) /\ Completions(t) = {}
    BY AnthropicWords, Pieces, Zenon DEF Anthropic!StartText
  <2> HIDE DEF t
  <2>3. CASE /\ ~ state.delta /\ status' = "open" /\ out' = out \o t
             /\ \E b, n : state' = [state EXCEPT !.blocks = b, !.chars = n]
    <3>1. AnthropicState(state') /\ state'.delta = FALSE /\ state'.calls = state.calls
      BY <2>1, <2>3 DEF AnthropicInv, AnthropicState
    <3>2. QED
      BY <2>1, <2>2, <2>3, <3>1, AnthropicBody
  <2>4. QED
    BY <1>3, <2>1, <2>3
<1>6. ASSUME NEW w, Anthropic!TextDelta(w)
      PROVE  AnthropicInv' /\ Port!Next
  <2> DEFINE t == <<ModelTextDelta(w.text)>>
  <2>1. /\ status = "open"
        /\ \/ Anthropic!Rejects
           \/ /\ ~ state.delta /\ status' = "open" /\ out' = out \o t
              /\ \E n : state' = [state EXCEPT !.chars = n]
    BY <1>6, AnthropicWords, Zenon DEF Anthropic!TextDelta, Anthropic!Receives, Anthropic!Yields, Anthropic!InBody
  <2>2. IsStream(t) /\ ~ HasCall(t) /\ Completions(t) = {}
    BY Pieces, Zenon
  <2> HIDE DEF t
  <2>3. CASE /\ ~ state.delta /\ status' = "open" /\ out' = out \o t
             /\ \E n : state' = [state EXCEPT !.chars = n]
    <3>1. AnthropicState(state') /\ state'.delta = FALSE /\ state'.calls = state.calls
      BY <2>1, <2>3 DEF AnthropicInv, AnthropicState
    <3>2. QED
      BY <2>1, <2>2, <2>3, <3>1, AnthropicBody
  <2>4. QED
    BY <1>3, <2>1, <2>3
<1>7. ASSUME NEW w, Anthropic!JsonDelta(w)
      PROVE  AnthropicInv' /\ Port!Next
  <2>1. /\ status = "open"
        /\ \/ Anthropic!Rejects
           \/ /\ ~ state.delta /\ status' = "open" /\ out' = out \o <<>>
              /\ state' = [state EXCEPT !.blocks[w.index + 1].fragments = Append(@, w.text),
                                        !.chars = @ + Len(w.text)]
    BY <1>7, Zenon DEF Anthropic!JsonDelta, Anthropic!Receives, Anthropic!Yields, Anthropic!InBody
  <2>2. CASE /\ ~ state.delta /\ status' = "open" /\ out' = out \o <<>>
             /\ state' = [state EXCEPT !.blocks[w.index + 1].fragments = Append(@, w.text),
                                       !.chars = @ + Len(w.text)]
    <3>1. AnthropicState(state') /\ state'.delta = FALSE /\ state'.calls = state.calls
      BY <2>1, <2>2 DEF AnthropicInv, AnthropicState
    <3>2. QED
      BY <2>1, <2>2, <3>1, AnthropicBody, Pieces
  <2>3. QED
    BY <1>3, <2>1, <2>2
<1>8. ASSUME NEW w, Anthropic!BlockStop(w)
      PROVE  AnthropicInv' /\ Port!Next
  <2> DEFINE block == state.blocks[w.index + 1]
             stopped == [state EXCEPT !.blocks[w.index + 1].stopped = TRUE]
             call == Anthropic!BlockCall(block)
  <2>1. /\ status = "open"
        /\ \/ Anthropic!Rejects
           \/ ~ state.delta /\ status' = "open" /\ out' = out \o <<>> /\ state' = stopped
           \/ /\ ~ state.delta /\ status' = "open" /\ out' = out \o <<call>>
              /\ state' = [stopped EXCEPT !.calls = @ + 1]
    BY <1>8, Zenon DEF Anthropic!BlockStop, Anthropic!Receives, Anthropic!Yields, Anthropic!InBody
  <2>2. IsCall(call)
    BY AnthropicWords
  <2> HIDE DEF call
  <2>3. AnthropicState(stopped) /\ stopped.delta = state.delta /\ stopped.calls = state.calls
    BY <2>1 DEF AnthropicInv, AnthropicState
  <2> HIDE DEF stopped
  <2>4. CASE ~ state.delta /\ status' = "open" /\ out' = out \o <<>> /\ state' = stopped
    <3>1. AnthropicState(state') /\ state'.delta = FALSE /\ state'.calls = state.calls
      BY <2>1, <2>3, <2>4 DEF AnthropicInv
    <3>2. QED
      BY <2>1, <2>4, <3>1, AnthropicBody, Pieces
  <2>5. CASE /\ ~ state.delta /\ status' = "open" /\ out' = out \o <<call>>
             /\ state' = [stopped EXCEPT !.calls = @ + 1]
    <3>1. AnthropicState(state') /\ state'.delta = FALSE /\ state'.calls = state.calls + 1
      BY <2>1, <2>3, <2>5 DEF AnthropicInv, AnthropicState
    <3>2. IsStream(<<call>>) /\ HasCall(<<call>>) /\ Completions(<<call>>) = {}
      BY <2>2, Pieces, Zenon
    <3>3. QED
      BY <2>1, <2>5, <3>1, <3>2, AnthropicBody
  <2>6. QED
    BY <1>3, <2>1, <2>4, <2>5
<1>9. ASSUME NEW w, Anthropic!MessageStop(w)
      PROVE  AnthropicInv' /\ Port!Next
  <2>1. /\ status = "open"
        /\ \/ Anthropic!Rejects
           \/ /\ Completions(out) = {} /\ state.delta /\ status' = "open"
              /\ out' = out \o <<state.completion>> /\ state' = state
    BY <1>9, AnthropicWords, Zenon DEF Anthropic!MessageStop, Anthropic!Receives, Anthropic!Yields
  <2>2. CASE /\ Completions(out) = {} /\ state.delta /\ status' = "open"
             /\ out' = out \o <<state.completion>> /\ state' = state
    <3>1. IsCompleted(state.completion) /\ (state.completion.finish = "tool_calls" <=> HasCall(out))
      BY <2>1, <2>2 DEF AnthropicInv
    <3>2. IsStream(out') /\ IsPrefix(out, out') /\ Legal(out') /\ Completions(out') # {}
      BY <1>1, <2>2, <3>1, Closes DEF Kept
    <3>3. Port!Next
      BY <2>1, <2>2, <3>2, PortYields
    <3>4. QED
      BY <2>1, <2>2, <3>2, <3>3 DEF AnthropicInv, Kept
  <2>3. QED
    BY <1>3, <2>1, <2>2
<1>10. ASSUME NEW w, Anthropic!OtherEvent(w)
       PROVE  AnthropicInv' /\ Port!Next
  BY <1>3, <1>10 DEF Anthropic!OtherEvent, Anthropic!Receives
<1>11. QED
  BY <1>2, <1>4, <1>5, <1>6, <1>7, <1>8, <1>9, <1>10, AnthropicCompletes DEF Anthropic!Next

-----------------------------------------------------------------------------
(* Chat Completions *)

\* A stream that is continued twice.
LEMMA Associative ==
  ASSUME NEW p, NEW q, NEW r, IsStream(p), IsStream(q), IsStream(r)
  PROVE  (p \o q) \o r = p \o (q \o r)
<1>1. PICK P : p \in Seq(P)
  BY DEF IsStream
<1>2. PICK Q : q \in Seq(Q)
  BY DEF IsStream
<1>3. PICK R : r \in Seq(R)
  BY DEF IsStream
<1>4. p \in Seq(P \cup Q \cup R) /\ q \in Seq(P \cup Q \cup R) /\ r \in Seq(P \cup Q \cup R)
  BY <1>1, <1>2, <1>3
<1>5. QED
  BY <1>4, ConcatAssociative

\* A prefix of a prefix.
LEMMA PrefixOfPrefix ==
  ASSUME NEW p, NEW q, NEW r, IsStream(p), IsStream(q), IsStream(r), IsPrefix(p, q), IsPrefix(q, r)
  PROVE  IsPrefix(p, r)
<1>1. PICK P : p \in Seq(P)
  BY DEF IsStream
<1>2. PICK Q : q \in Seq(Q)
  BY DEF IsStream
<1>3. PICK R : r \in Seq(R)
  BY DEF IsStream
<1>4. /\ Len(p) \in Nat /\ Len(q) \in Nat /\ Len(r) \in Nat /\ Len(p) <= Len(q) /\ Len(q) <= Len(r)
      /\ SubSeq(p, 1, Len(p)) = SubSeq(q, 1, Len(p))
      /\ SubSeq(q, 1, Len(q)) = SubSeq(r, 1, Len(q))
  BY <1>1, <1>2, <1>3 DEF IsPrefix
<1>5. \A i \in 1 .. Len(p) : q[i] = r[i]
  <2>1. ASSUME NEW i \in 1 .. Len(p)
        PROVE  q[i] = r[i]
    <3>1. i \in 1 .. Len(q)
      BY <1>4, <2>1
    <3>2. SubSeq(q, 1, Len(q))[i] = q[i] /\ SubSeq(r, 1, Len(q))[i] = r[i]
      BY <1>2, <1>3, <1>4, <3>1
    <3>3. QED
      BY <1>4, <3>2
  <2>2. QED
    BY <2>1
<1>6. SubSeq(q, 1, Len(p)) = SubSeq(r, 1, Len(p))
  BY <1>2, <1>3, <1>4, <1>5
<1>7. QED
  BY <1>4, <1>6 DEF IsPrefix

\* The adapter speaks of the events of the port.
LEMMA ChatWords ==
  /\ \A s : Chat!Completions(s) = Completions(s)
  /\ \A t : Chat!ModelTextDelta(t) = ModelTextDelta(t)
  /\ \A f, u : LET done == Chat!ModelCompleted(f, u) IN IsCompleted(done) /\ done.finish = f
  /\ \A i, n, j : IsCall(Chat!Call(i, n, j))
  /\ \A S : Chat!Cardinality(S) = Cardinality(S)
<1>1. \A s : Chat!Completions(s) = Completions(s)
  BY Zenon DEF Chat!Completions, Chat!IsCompleted, Completions, IsCompleted
<1>2. \A t : Chat!ModelTextDelta(t) = ModelTextDelta(t)
  BY Zenon DEF Chat!ModelTextDelta, ModelTextDelta
<1>3. \A S : Chat!Cardinality(S) = Cardinality(S)
  BY Zenon DEF Chat!Cardinality, Cardinality
<1>4. QED
  BY <1>1, <1>2, <1>3 DEF Chat!ModelCompleted, Chat!Call, Chat!ModelToolCall, IsCall, IsCompleted

\* The calls that come with the finish reason are calls, and there are some for tool_calls only.
LEMMA CompleteCalls ==
  ASSUME NEW calls, NEW finish \in {"stop", "tool_calls"}, Chat!CallsComplete(calls, finish)
  PROVE  LET t == Chat!CompletedCalls(calls)
         IN  IsStream(t) /\ Completions(t) = {} /\ (HasCall(t) <=> finish = "tool_calls")
<1> DEFINE t == Chat!CompletedCalls(calls)
           n == Cardinality(DOMAIN calls)
<1>1. n \in Nat /\ (finish = "stop" => n = 0) /\ (finish = "tool_calls" => n > 0)
  <2>1. CASE finish = "stop"
    <3>1. DOMAIN calls = {}
      BY <2>1 DEF Chat!CallsComplete
    <3>2. QED
      BY <2>1, <3>1, FS_EmptySet
  <2>2. CASE finish = "tool_calls"
    <3>1. PICK k \in 0 .. MaxCallIndex : DOMAIN calls = 0 .. k
      BY <2>2 DEF Chat!CallsComplete
    <3>2. Cardinality(0 .. k) = k - 0 + 1 /\ k \in Nat
      BY <3>1, FS_Interval
    <3>3. QED
      BY <2>2, <3>1, <3>2
  <2>3. QED
    BY <2>1, <2>2
<1>2. /\ t = [i \in 1 .. n |-> t[i]]
      /\ \A i \in 1 .. n : IsCall(t[i])
  BY ChatWords DEF Chat!CompletedCalls
<1> HIDE DEF t, n
<1>3. Len(t) = n /\ t \in Seq({t[i] : i \in 1 .. n})
  BY <1>1, <1>2
<1>4. Completions(t) = {}
  BY <1>2, <1>3 DEF Completions, IsCompleted, IsCall
<1>5. HasCall(t) <=> n > 0
  <2>1. n > 0 => 1 \in 1 .. n
    BY <1>1
  <2>2. 1 .. n # {} => n > 0
    BY <1>1
  <2>3. QED
    BY <1>2, <1>3, <2>1, <2>2 DEF HasCall
<1>6. QED
  BY <1>1, <1>3, <1>4, <1>5 DEF IsStream, t

\* The fields of stream()'s state.
ChatState(s) ==
  s = [meta |-> s.meta, usage |-> s.usage, finish |-> s.finish, chars |-> s.chars, calls |-> s.calls]

\* As long as the usage is missing, there are calls exactly when the finish reason said so.
ChatInv ==
  /\ Kept
  /\ status = "open" =>
       /\ ChatState(state) /\ state.finish \in {None, "stop", "tool_calls"}
       /\ Completions(out) = {} => (HasCall(out) <=> state.finish = "tool_calls")

\* A step that yields a piece, and the completion when finish reason and usage are known.
LEMMA ChatYields ==
  ASSUME ChatInv, status = "open", status' = "open", Completions(out) = {}, ChatState(state'),
         NEW t, IsStream(t), Completions(t) = {}, NEW w,
         state'.finish \in {None, "stop", "tool_calls"},
         HasCall(out) \/ HasCall(t) <=> state'.finish = "tool_calls",
         out' = (out \o t) \o Chat!Completion(w, state')
  PROVE  ChatInv' /\ Port!Next
<1> DEFINE u == out \o t
           done == Chat!ModelCompleted(state'.finish, state'.usage)
<1>1. /\ IsStream(u) /\ IsPrefix(out, u) /\ Completions(u) = {}
      /\ HasCall(u) <=> state'.finish = "tool_calls"
  BY Continues DEF ChatInv, Kept
<1>2. IsCompleted(done) /\ done.finish = state'.finish
  BY ChatWords, Zenon
<1>3. Chat!Completion(w, state') = IF state'.finish # None /\ state'.usage # None THEN <<done>> ELSE <<>>
  BY Zenon DEF Chat!Completion
<1>4. \A p, q, r : IsStream(p) /\ IsStream(q) /\ IsStream(r) /\ IsPrefix(p, q) /\ IsPrefix(q, r) => IsPrefix(p, r)
  BY PrefixOfPrefix
<1>5. out' = u \o Chat!Completion(w, state')
  OBVIOUS
<1> HIDE DEF u, done
<1>6. CASE state'.finish # None /\ state'.usage # None
  <2>1. out' = u \o <<done>>
    BY <1>3, <1>5, <1>6
  <2>2. IsStream(out') /\ IsPrefix(u, out') /\ Legal(out') /\ Completions(out') # {}
    BY <1>1, <1>2, <2>1, Closes
  <2>3. IsPrefix(out, out')
    BY <1>1, <1>4, <2>2 DEF ChatInv, Kept
  <2>4. Port!Next
    BY <2>2, <2>3, PortYields
  <2>5. QED
    BY <2>2, <2>4 DEF ChatInv, Kept
<1>7. CASE ~ (state'.finish # None /\ state'.usage # None)
  <2>1. out' = u
    BY <1>1, <1>3, <1>5, <1>7, Pieces
  <2>2. Legal(out') /\ Completions(out') = {} /\ IsStream(out') /\ IsPrefix(out, out')
    BY <1>1, <2>1, LegalIs
  <2>3. Port!Next
    BY <2>2, PortYields
  <2>4. QED
    BY <1>1, <2>1, <2>2, <2>3 DEF ChatInv, Kept
<1>8. QED
  BY <1>6, <1>7

\* A step that raises, perhaps after the text of the chunk.
LEMMA ChatFails ==
  ASSUME ChatInv, status = "open", status' \notin {"open", "ended"},
         \/ out' = out
         \/ Completions(out) = {} /\ \E t : IsStream(t) /\ Completions(t) = {} /\ out' = out \o t
  PROVE  ChatInv' /\ Port!Next
<1>1. Kept
  BY DEF ChatInv
<1>2. out' = out \/ (IsPrefix(out, out') /\ Kept')
  BY <1>1, YieldsPiece
<1>3. Port!Next /\ Kept'
  BY <1>1, <1>2, PortFailsAfter
<1>4. QED
  BY <1>3 DEF ChatInv

\* The step of a chunk with the usage alone.
LEMMA ChatUsage ==
  ASSUME ChatInv, NEW w, Chat!UsageChunk(w)
  PROVE  ChatInv' /\ Port!Next
<1>1. status = "open" /\ w.choice = None
  BY DEF Chat!UsageChunk, Chat!Receives
<1>2. CASE ~ Chat!HeadFits(w) \/ ~ Chat!CompletionFits(Chat!WithHead(w))
  <2>1. out' = out /\ status' \notin {"open", "ended"}
    BY <1>2 DEF Chat!UsageChunk, Chat!Rejects, Chat!Raises
  <2>2. QED
    BY <1>1, <2>1, ChatFails
<1>3. CASE Chat!HeadFits(w) /\ Chat!CompletionFits(Chat!WithHead(w))
  <2>1. /\ status' = "open" /\ state' = Chat!WithHead(w)
        /\ out' = out \o Chat!Completion(w, state')
    <3>1. Chat!Yields(Chat!Completion(w, Chat!WithHead(w))) /\ state' = Chat!WithHead(w)
      BY <1>3, Zenon DEF Chat!UsageChunk
    <3>2. QED
      BY <3>1, Zenon DEF Chat!Yields
  <2>2. Completions(out) = {}
    BY <1>3, ChatWords DEF Chat!HeadFits
  <2>3. ChatState(state') /\ state'.finish = state.finish
    BY <1>1, <2>1 DEF ChatInv, ChatState, Chat!WithHead
  <2> DEFINE t == <<>>
  <2>4. /\ IsStream(t) /\ Completions(t) = {} /\ ~ HasCall(t)
        /\ out \o t = out
    BY Pieces DEF ChatInv, Kept
  <2> HIDE DEF t
  <2>5. state'.finish \in {None, "stop", "tool_calls"} /\ (HasCall(out) <=> state'.finish = "tool_calls")
    BY <1>1, <2>2, <2>3 DEF ChatInv
  <2>6. /\ HasCall(out) \/ HasCall(t) <=> state'.finish = "tool_calls"
        /\ out' = (out \o t) \o Chat!Completion(w, state')
    BY <2>1, <2>4, <2>5
  <2>7. /\ status = "open" /\ status' = "open" /\ ChatState(state') /\ IsStream(t) /\ Completions(t) = {}
        /\ state'.finish \in {None, "stop", "tool_calls"}
    BY <1>1, <2>1, <2>3, <2>4, <2>5
  <2>8. QED
    BY ONLY ChatInv, <2>2, <2>6, <2>7, ChatYields
<1>4. QED
  BY <1>2, <1>3

\* The step of a chunk with a choice.
LEMMA ChatChoice ==
  ASSUME ChatInv, NEW w, Chat!ChoiceChunk(w)
  PROVE  ChatInv' /\ Port!Next
<1> DEFINE c == w.choice
           text == IF c.content = <<>> THEN <<>> ELSE <<ModelTextDelta(c.content)>>
           merged == Chat!MergeAll([ok |-> TRUE, calls |-> state.calls, chars |-> state.chars + Len(c.content)], c.calls)
           finish == Chat!Finish(c.finish)
           next == [Chat!WithHead(w) EXCEPT !.calls = merged.calls, !.chars = merged.chars, !.finish = finish]
           Fails(code) == Chat!Raises(code) /\ out' = out \o text
           Goes == Chat!Yields(text) /\ state' = next /\ c.finish = None
           Spoils == /\ finish # None /\ Chat!CallsComplete(merged.calls, finish)
                     /\ Chat!Raises("PROTOCOL") /\ out' = out \o text \o Chat!CompletedCalls(merged.calls)
           Finishing == /\ finish # None /\ Chat!CallsComplete(merged.calls, finish)
                        /\ Chat!Yields(text \o Chat!CompletedCalls(merged.calls) \o Chat!Completion(w, next))
                        /\ state' = next
<1>1. /\ status = "open"
      /\ \/ Chat!Rejects
         \/ Chat!Raises("REFUSED") /\ out' = out
         \/ /\ Chat!HeadFits(w) /\ c # None
            /\ \/ Fails("PROTOCOL")
               \/ Fails(Chat!FinishError(c.finish))
               \/ Goes
               \/ Spoils
               \/ Finishing
  BY ChatWords, Zenon DEF Chat!ChoiceChunk, Chat!Receives
<1>2. IsStream(text) /\ Completions(text) = {} /\ ~ HasCall(text)
  BY Pieces, Zenon
<1>3. Chat!FinishError(c.finish) \in {"REFUSED", "ERROR", "PROTOCOL"}
  BY DEF Chat!FinishError
<1>4. finish \in {None, "stop", "tool_calls"} /\ (c.finish = None => finish = None)
  BY ModelEventsAssumption DEF Chat!Finish, Chat!Finishes
<1>5. CASE Chat!Rejects \/ (Chat!Raises("REFUSED") /\ out' = out)
  <2>1. out' = out /\ status' \notin {"open", "ended"}
    BY <1>5 DEF Chat!Rejects, Chat!Raises
  <2>2. QED
    BY <1>1, <2>1, ChatFails
<1>6. ASSUME Chat!HeadFits(w), c # None
      PROVE  Completions(out) = {} /\ state.finish = None /\ ~ HasCall(out)
  <2>1. Completions(out) = {} /\ state.finish = None
    BY <1>6, ChatWords DEF Chat!HeadFits
  <2>2. QED
    BY <1>1, <2>1, ModelEventsAssumption DEF ChatInv
<1>7. ASSUME Chat!HeadFits(w), c # None, NEW code \in {"REFUSED", "ERROR", "PROTOCOL"}, Fails(code)
      PROVE  ChatInv' /\ Port!Next
  <2>1. status' \notin {"open", "ended"} /\ out' = out \o text
    BY <1>7, Zenon DEF Chat!Raises
  <2> HIDE DEF text
  <2>2. QED
    BY <1>1, <1>2, <1>6, <1>7, <2>1, ChatFails
<1>8. ASSUME state' = next
      PROVE  ChatState(state') /\ state'.finish = finish
  <2> DEFINE head == Chat!WithHead(w)
  <2>1. head = [state EXCEPT !.meta = w.meta, !.usage = Chat!Kept(@, w.usage)]
    BY Zenon DEF Chat!WithHead
  <2> HIDE DEF head, merged, finish
  <2>2. head = [meta |-> head.meta, usage |-> head.usage, finish |-> head.finish, chars |-> head.chars,
                calls |-> head.calls]
    BY <1>1, <2>1 DEF ChatInv, ChatState
  <2>3. state' = [head EXCEPT !.calls = merged.calls, !.chars = merged.chars, !.finish = finish]
    BY <1>8 DEF head
  <2>4. QED
    BY <2>2, <2>3 DEF ChatState
<1>9. ASSUME Chat!HeadFits(w), c # None, Goes
      PROVE  ChatInv' /\ Port!Next
  <2>1. status' = "open" /\ out' = out \o text /\ state' = next /\ c.finish = None
    BY <1>9, Zenon DEF Chat!Yields
  <2>2. ChatState(state') /\ state'.finish = None
    BY <1>4, <1>8, <2>1
  <2> HIDE DEF text, next
  <2>3. Chat!Completion(w, state') = <<>>
    BY <2>2 DEF Chat!Completion
  <2>4. (out \o text) \o <<>> = out \o text
    BY <1>2, Continues, Pieces DEF ChatInv, Kept
  <2>5. HasCall(out) \/ HasCall(text) <=> state'.finish = "tool_calls"
    BY <1>2, <1>6, <1>9, <2>2, ModelEventsAssumption
  <2>6. out' = (out \o text) \o Chat!Completion(w, state')
    BY <2>1, <2>3, <2>4
  <2>7. QED
    BY <1>1, <1>2, <1>6, <1>9, <2>1, <2>2, <2>5, <2>6, ChatYields
<1>10. ASSUME Chat!HeadFits(w), c # None, Finishing
       PROVE  ChatInv' /\ Port!Next
  <2> DEFINE calls == Chat!CompletedCalls(merged.calls)
             t == text \o calls
             last == Chat!Completion(w, state')
  <2>1. /\ status' = "open" /\ state' = next /\ out' = out \o (t \o last)
        /\ finish # None /\ Chat!CallsComplete(merged.calls, finish)
    BY <1>10, Zenon DEF Chat!Yields
  <2>2. ChatState(state') /\ state'.finish = finish
    BY <1>8, <2>1
  <2> HIDE DEF text, next, finish, merged
  <2>3. IsStream(calls) /\ Completions(calls) = {} /\ (HasCall(calls) <=> finish = "tool_calls")
    BY <1>4, <2>1, CompleteCalls, Zenon
  <2> HIDE DEF calls
  <2>4. IsStream(t) /\ Completions(t) = {} /\ (HasCall(t) <=> finish = "tool_calls")
    BY <1>2, <2>3, Continues
  <2>5. IsStream(last)
    <3>1. IsStream(<<Chat!ModelCompleted(state'.finish, state'.usage)>>)
      BY OneEvent
    <3>2. QED
      BY <3>1, Pieces, Zenon DEF Chat!Completion
  <2> HIDE DEF t, last
  <2>6. out \o (t \o last) = (out \o t) \o last
    BY <2>4, <2>5, Associative DEF ChatInv, Kept
  <2>7. HasCall(out) \/ HasCall(t) <=> state'.finish = "tool_calls"
    BY <1>6, <1>10, <2>2, <2>4
  <2>8. out' = (out \o t) \o Chat!Completion(w, state')
    BY <2>1, <2>6 DEF last
  <2>9. QED
    BY <1>1, <1>4, <1>6, <1>10, <2>1, <2>2, <2>4, <2>7, <2>8, ChatYields
<1>11. ASSUME Chat!HeadFits(w), c # None, Spoils
       PROVE  ChatInv' /\ Port!Next
  <2> DEFINE calls == Chat!CompletedCalls(merged.calls)
             t == text \o calls
  <2>1. /\ status' \notin {"open", "ended"} /\ out' = (out \o text) \o calls
        /\ finish # None /\ Chat!CallsComplete(merged.calls, finish)
    BY <1>11, Zenon DEF Chat!Raises
  <2> HIDE DEF text, finish, merged
  <2>2. IsStream(calls) /\ Completions(calls) = {}
    BY <1>4, <2>1, CompleteCalls, Zenon
  <2> HIDE DEF calls
  <2>3. IsStream(t) /\ Completions(t) = {}
    BY <1>2, <2>2, Continues
  <2>4. (out \o text) \o calls = out \o t
    BY <1>2, <2>2, Associative DEF ChatInv, Kept
  <2> HIDE DEF t
  <2>5. QED
    BY <1>1, <1>6, <1>11, <2>1, <2>3, <2>4, ChatFails
<1> HIDE DEF Fails, Goes, Spoils, Finishing
<1>12. QED
  BY <1>1, <1>3, <1>5, <1>7, <1>9, <1>10, <1>11

\* Every step yields a legal piece, ends or fails.
LEMMA ChatStep ==
  ASSUME ChatInv, Chat!Next
  PROVE  ChatInv' /\ Port!Next
<1>1. CASE Chat!Ends
  <2>1. Port!Next /\ Kept' /\ status' # "open"
    BY <1>1, PortEnds, ChatWords DEF ChatInv, Chat!Ends, Chat!EndOfStream, Chat!SdkFails,
       Chat!Cancelled, Chat!SdkCodes
  <2>2. QED
    BY <2>1 DEF ChatInv
<1>2. QED
  BY <1>1, ChatUsage, ChatChoice DEF Chat!Next

-----------------------------------------------------------------------------
(* The composition *)

\* What the adapters share is legal whichever of them runs; the collector yields nothing.
AdapterInv ==
  /\ part = "chat" => ChatInv
  /\ part = "responses" => ResponsesInv
  /\ part = "anthropic" => AnthropicInv
  /\ part = "collector" => out = <<>> /\ status = "open"

(***************************************************************************)
(* Every adapter implements the port of ports/model.py, whatever its       *)
(* provider sends: what it has yielded is never taken back and legal at    *)
(* every moment, and it ends without an error only with a completion.      *)
(***************************************************************************)
THEOREM AdaptersImplementPort == Spec => ImplementsPort
<1>1. Init => AdapterInv /\ Port!Init
  <2>1. SUFFICES ASSUME Init
                 PROVE  AdapterInv /\ Port!Init
    OBVIOUS
  <2>2. out = <<>> /\ status = "open"
    BY <2>1 DEF Init, Chat!Init, Responses!Init, Anthropic!Init, NoAdapter
  <2>3. Kept /\ Completions(out) = {} /\ ~ HasCall(out)
    BY <2>2, Pieces DEF Kept, Legal
  <2>4. part = "chat" => ChatInv
    BY <2>1, <2>3, ModelEventsAssumption DEF Init, Chat!Init, ChatInv, ChatState
  <2>5. part = "responses" => ResponsesInv
    BY <2>1, <2>3 DEF Init, Responses!Init, ResponsesInv
  <2>6. part = "anthropic" => AnthropicInv
    <3>1. ASSUME part = "anthropic"
          PROVE  AnthropicState(state) /\ state.delta = FALSE /\ state.calls = 0
      BY <2>1, <3>1 DEF Init, Anthropic!Init, AnthropicState
    <3>2. 0 \in Nat /\ ~ (0 > 0) /\ FALSE \in BOOLEAN
      OBVIOUS
    <3>3. QED
      BY <2>3, <3>1, <3>2, Zenon DEF AnthropicInv
  <2>7. QED
    BY <2>2, <2>4, <2>5, <2>6 DEF AdapterInv, Port!Init
<1>2. AdapterInv /\ [Next]_vars => AdapterInv' /\ [Port!Next]_(Port!vars)
  <2>1. SUFFICES ASSUME AdapterInv, [Next]_vars
                 PROVE  AdapterInv' /\ [Port!Next]_(Port!vars)
    OBVIOUS
  <2>2. CASE UNCHANGED vars
    BY <2>1, <2>2 DEF vars, Port!vars, AdapterInv, ChatInv, ResponsesInv, AnthropicInv, Kept
  <2>3. CASE part = "chat" /\ Chat!Next /\ part' = part
    BY <2>1, <2>3, ChatStep DEF AdapterInv
  <2>4. CASE part = "responses" /\ Responses!Next /\ part' = part
    BY <2>1, <2>4, ResponsesStep DEF AdapterInv
  <2>5. CASE part = "anthropic" /\ Anthropic!Next /\ part' = part
    BY <2>1, <2>5, AnthropicStep DEF AdapterInv
  <2>6. CASE part = "collector" /\ UNCHANGED <<out, status>> /\ part' = part
    BY <2>1, <2>6 DEF AdapterInv, Port!vars
  <2>7. QED
    BY <2>1, <2>2, <2>3, <2>4, <2>5, <2>6 DEF Next
<1>3. QED
  BY <1>1, <1>2, PTL DEF Spec, ImplementsPort, Port!Spec
================================================================================
