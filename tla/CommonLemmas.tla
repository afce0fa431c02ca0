---------------------------- MODULE CommonLemmas ----------------------------
(***************************************************************************)
(* Facts the proofs share: about ring positions and stretches of           *)
(* consecutively numbered elements, induction on the naturals, and what    *)
(* the recursions in Only and SumFunction define.                          *)
(*                                                                         *)
(* The library states induction with an operator as a parameter.  Stated   *)
(* about a set, as here, it can be cited for any property P by way of      *)
(* {n \in Nat : P(n)}, and serves to prove what recursive functions do.    *)
(***************************************************************************)
EXTENDS Integers, Sequences, Functions, Filter, FiniteSetTheorems, SequenceTheorems,
        WellFoundedInduction, TLAPS

\* The elements h + 1, ..., t in order: what positions h .. t - 1 of a channel
\* hold when the e-th element sent is the number e.
Stretch(h, t) == [i \in 1 .. t - h |-> h + i]

\* A masked position is a valid slot: RingBuffer::load and store stay in bounds.
LEMMA SlotInRange ==
  ASSUME NEW n \in Nat \ {0}, NEW a \in Nat
  PROVE  a % n \in 0 .. n - 1
OBVIOUS

\* Two positions less than a whole ring apart never share a slot.
LEMMA SlotsApart ==
  ASSUME NEW n \in Nat \ {0}, NEW a \in Nat, NEW b \in Nat, a < b, b < a + n
  PROVE  a % n # b % n
<1> DEFINE p == a \div n
           q == b \div n
<1> SUFFICES ASSUME a % n = b % n PROVE FALSE
  OBVIOUS
<1>1. /\ p \in Nat /\ q \in Nat
      /\ a = n * p + (a % n)
      /\ b = n * q + (b % n)
  OBVIOUS
<1>2. a % n \in Nat /\ b % n \in Nat
  BY SlotInRange
<1> HIDE DEF p, q
<1>3. b - a = n * (q - p)
  BY <1>1, <1>2
<1>4. CASE q <= p
  <2>1. n * (q - p) <= 0
    BY <1>1, <1>4
  <2> QED
    BY <2>1, <1>3
<1>5. CASE q > p
  <2>1. n * (q - p) >= n
    BY <1>1, <1>5
  <2> QED
    BY <2>1, <1>3
<1> QED
  BY <1>1, <1>4, <1>5

\* A stretch is a sequence, of the length its bounds say.
LEMMA StretchLen ==
  ASSUME NEW h \in Nat, NEW t \in Nat, h <= t
  PROVE  /\ Stretch(h, t) \in Seq(Nat)
         /\ Len(Stretch(h, t)) = t - h
         /\ Stretch(h, t) = <<>> <=> h = t
BY DEF Stretch

\* Publishing the next element makes the stretch one longer at the back.
LEMMA StretchAppend ==
  ASSUME NEW h \in Nat, NEW t \in Nat, h <= t
  PROVE  Append(Stretch(h, t), t + 1) = Stretch(h, t + 1)
<1>1. /\ Len(Stretch(h, t)) = t - h
      /\ Len(Stretch(h, t + 1)) = t - h + 1
  BY StretchLen
<1> QED
  BY <1>1 DEF Stretch

\* Receiving takes the front element off.
LEMMA StretchTail ==
  ASSUME NEW h \in Nat, NEW t \in Nat, h < t
  PROVE  /\ Head(Stretch(h, t)) = h + 1
         /\ Tail(Stretch(h, t)) = Stretch(h + 1, t)
<1>1. /\ Stretch(h, t) \in Seq(Nat) /\ Len(Stretch(h, t)) = t - h
      /\ Stretch(h + 1, t) \in Seq(Nat) /\ Len(Stretch(h + 1, t)) = t - (h + 1)
      /\ Stretch(h, t) # <<>>
  BY DEF Stretch
<1>2. Head(Stretch(h, t)) = h + 1
  BY <1>1 DEF Stretch
<1>3. /\ Tail(Stretch(h, t)) \in Seq(Nat)
      /\ Len(Tail(Stretch(h, t))) = t - (h + 1)
      /\ \A i \in 1 .. t - (h + 1) : Tail(Stretch(h, t))[i] = Stretch(h, t)[i + 1]
  BY <1>1
<1>4. \A i \in 1 .. t - (h + 1) : Stretch(h, t)[i + 1] = Stretch(h + 1, t)[i]
  BY DEF Stretch
<1> QED
  BY <1>1, <1>2, <1>3, <1>4, SeqEqual

\* What was received followed by what is still inside is everything accepted.
LEMMA StretchConcat ==
  ASSUME NEW h \in Nat, NEW t \in Nat, h <= t
  PROVE  Stretch(0, h) \o Stretch(h, t) = Stretch(0, t)
<1>1. /\ Stretch(0, h) \in Seq(Nat) /\ Len(Stretch(0, h)) = h
      /\ Stretch(h, t) \in Seq(Nat) /\ Len(Stretch(h, t)) = t - h
      /\ Stretch(0, t) \in Seq(Nat) /\ Len(Stretch(0, t)) = t
  BY DEF Stretch
<1> QED
  BY <1>1 DEF Stretch
-----------------------------------------------------------------------------
\* A set of naturals that is not empty has a least member: {0 .. n : n \in T} is a set of finite
\* sets, and inclusion of finite sets is well founded.
LEMMA LeastNatural ==
  ASSUME NEW T, T \subseteq Nat, T # {}
  PROVE  \E m \in T : \A k \in T : m <= k
<1> DEFINE Below == {0 .. n : n \in T}
<1>1. Below \subseteq FiniteSubsetsOf(Nat) /\ Below # {}
  <2>1. \A n \in T : IsFiniteSet(0 .. n)
    BY FS_Interval
  <2>2. \A n \in T : 0 .. n \in FiniteSubsetsOf(Nat)
    BY <2>1 DEF FiniteSubsetsOf
  <2> QED
    BY <2>2
<1>2. \E x \in Below : \A y \in Below : ~(<<y, x>> \in StrictSubsetOrdering(Nat))
  <2> HIDE DEF Below
  <2> QED
    BY <1>1, FS_StrictSubsetOrderingWellFounded, WFMin
<1>3. PICK m \in T : \A y \in Below : ~(<<y, 0 .. m>> \in StrictSubsetOrdering(Nat))
  BY <1>2
<1>4. ASSUME NEW k \in T, k < m PROVE FALSE
  <2>1. 0 .. k \in Below /\ 0 .. k \subseteq 0 .. m /\ 0 .. k # 0 .. m
    BY <1>4
  <2>2. <<0 .. k, 0 .. m>> \in StrictSubsetOrdering(Nat)
    BY <2>1 DEF StrictSubsetOrdering
  <2> QED
    BY <2>1, <2>2, <1>3
<1> QED
  BY <1>3, <1>4

\* Induction, about a set instead of a predicate.
LEMMA SetInduction ==
  ASSUME NEW T, 0 \in T, \A n \in Nat : n \in T => n + 1 \in T
  PROVE  \A n \in Nat : n \in T
<1> DEFINE Bad == Nat \ T
<1> SUFFICES ASSUME Bad # {} PROVE FALSE
  OBVIOUS
<1>1. PICK m \in Nat : m \in Bad /\ \A k \in Bad : m <= k
  <2>1. Bad \subseteq Nat
    OBVIOUS
  <2> HIDE DEF Bad
  <2> QED
    BY <2>1, LeastNatural
<1>2. m # 0
  BY <1>1
<1>3. m - 1 \in Nat /\ ~(m <= m - 1) /\ (m - 1) + 1 = m
  BY <1>1, <1>2
<1>4. m - 1 \in T
  BY <1>1, <1>3
<1> QED
  BY <1>1, <1>3, <1>4

\* A function on 0 .. N can be defined by its first value and by how each value follows from the
\* one before.
LEMMA Iterates ==
  ASSUME NEW V, NEW v \in V, NEW N \in Nat, NEW g \in [1 .. N -> [V -> V]]
  PROVE  \E f \in [0 .. N -> V] : f[0] = v /\ \A n \in 1 .. N : f[n] = g[n][f[n - 1]]
<1> DEFINE Upto(f, m) == f[0] = v /\ \A n \in 1 .. m : f[n] = g[n][f[n - 1]]
           Good == {m \in Nat : m <= N => \E f \in [0 .. m -> V] : Upto(f, m)}
<1>1. 0 \in Good
  <2>1. [n \in 0 .. 0 |-> v] \in [0 .. 0 -> V] /\ Upto([n \in 0 .. 0 |-> v], 0)
    OBVIOUS
  <2> QED
    BY <2>1
<1>2. ASSUME NEW m \in Nat, m \in Good PROVE m + 1 \in Good
  <2> SUFFICES ASSUME m + 1 <= N PROVE \E f \in [0 .. m + 1 -> V] : Upto(f, m + 1)
    OBVIOUS
  <2>1. PICK h \in [0 .. m -> V] : Upto(h, m)
    BY <1>2
  <2>2. g[m + 1][h[m]] \in V
    BY <2>1
  <2> DEFINE f == [n \in 0 .. m + 1 |-> IF n = m + 1 THEN g[m + 1][h[m]] ELSE h[n]]
  <2>3. f \in [0 .. m + 1 -> V]
    BY <2>1, <2>2
  <2>4. f[0] = v
    BY <2>1
  <2>5. \A n \in 1 .. m + 1 : f[n] = g[n][f[n - 1]]
    <3> SUFFICES ASSUME NEW n \in 1 .. m + 1 PROVE f[n] = g[n][f[n - 1]]
      OBVIOUS
    <3>1. f[n - 1] = h[n - 1]
      OBVIOUS
    <3>2. CASE n = m + 1
      BY <3>1, <3>2
    <3>3. CASE n # m + 1
      <4>1. n \in 1 .. m /\ f[n] = h[n]
        BY <3>3
      <4> QED
        BY <2>1, <3>1, <4>1
    <3> QED
      BY <3>2, <3>3
  <2> HIDE DEF f
  <2> QED
    BY <2>3, <2>4, <2>5
<1>3. \A m \in Nat : m \in Good
  <2> HIDE DEF Good
  <2> QED
    BY <1>1, <1>2, SetInduction
<1> QED
  BY <1>3
-----------------------------------------------------------------------------
\* An element at the end of the second of two sequences is one at the end of both.
LEMMA ConcatAppend ==
  ASSUME NEW V, NEW s \in Seq(V), NEW t \in Seq(V), NEW x \in V
  PROVE  s \o Append(t, x) = Append(s \o t, x) /\ s \o t \in Seq(V)
<1>1. Append(t, x) = t \o <<x>>
  OBVIOUS
<1>2. s \o (t \o <<x>>) = (s \o t) \o <<x>>
  BY ConcatAssociative
<1>3. s \o t \in Seq(V)
  OBVIOUS
<1>4. (s \o t) \o <<x>> = Append(s \o t, x)
  BY <1>3
<1> QED
  BY <1>1, <1>2, <1>3, <1>4

\* What the recursion in Only defines: there is a function of the prefixes that satisfies it.
LEMMA OnlyRecursion ==
  ASSUME NEW s, Len(s) \in Nat, NEW S
  PROVE  \E o \in [0 .. Len(s) -> Seq(S)] :
           /\ o[0] = <<>>
           /\ \A n \in 1 .. Len(s) :
                o[n] = IF s[n] \in S THEN Append(o[n - 1], s[n]) ELSE o[n - 1]
           /\ Only(s, S) = o[Len(s)]
<1> DEFINE N == Len(s)
           Step(n, prev) == IF s[n] \in S THEN Append(prev, s[n]) ELSE prev
           only == CHOOSE f : f = [n \in 0 .. N |-> IF n = 0 THEN <<>> ELSE Step(n, f[n - 1])]
           Good == {n \in Nat : n <= N => only[n] \in Seq(S)}
<1>1. Only(s, S) = only[N]
  BY DEF Only
<1>2. \E f : f = [n \in 0 .. N |-> IF n = 0 THEN <<>> ELSE Step(n, f[n - 1])]
  <2> DEFINE g == [n \in 1 .. N |-> [prev \in Seq(S) |-> Step(n, prev)]]
  <2>1. g \in [1 .. N -> [Seq(S) -> Seq(S)]]
    OBVIOUS
  <2>2. PICK f \in [0 .. N -> Seq(S)] :
               f[0] = <<>> /\ \A n \in 1 .. N : f[n] = g[n][f[n - 1]]
    <3> DEFINE V == Seq(S)
    <3>1. <<>> \in V /\ N \in Nat /\ g \in [1 .. N -> [V -> V]]
      BY <2>1
    <3> HIDE DEF g, N, V
    <3>2. \E f \in [0 .. N -> V] : f[0] = <<>> /\ \A n \in 1 .. N : f[n] = g[n][f[n - 1]]
      BY <3>1, Iterates
    <3> QED
      BY <3>2 DEF V
  <2>3. \A n \in 0 .. N : f[n] = IF n = 0 THEN <<>> ELSE Step(n, f[n - 1])
    <3> SUFFICES ASSUME NEW n \in 0 .. N, n # 0 PROVE f[n] = Step(n, f[n - 1])
      <4> HIDE DEF Step, g
      <4> QED
        BY <2>2
    <3>1. n \in 1 .. N /\ f[n - 1] \in Seq(S)
      OBVIOUS
    <3>2. f[n] = g[n][f[n - 1]]
      <4> HIDE DEF Step, g
      <4> QED
        BY <2>2, <3>1
    <3> HIDE DEF Step
    <3> QED
      BY <3>2
  <2> HIDE DEF Step
  <2>4. f = [n \in 0 .. N |-> IF n = 0 THEN <<>> ELSE Step(n, f[n - 1])]
    BY <2>3
  <2> QED
    BY <2>4
<1>3. only = [n \in 0 .. N |-> IF n = 0 THEN <<>> ELSE Step(n, only[n - 1])]
  <2> HIDE DEF Step
  <2> QED
    BY <1>2
<1> HIDE DEF only
<1>4. 0 \in Good
  BY <1>3
<1>5. ASSUME NEW n \in Nat, n \in Good PROVE n + 1 \in Good
  <2> SUFFICES ASSUME n + 1 <= N PROVE only[n + 1] \in Seq(S)
    OBVIOUS
  <2>1. only[n] \in Seq(S)
    BY <1>5
  <2>2. only[n + 1] = Step(n + 1, only[n])
    <3> HIDE DEF Step
    <3> QED
      BY <1>3
  <2> QED
    BY <2>1, <2>2
<1>6. \A n \in Nat : n \in Good
  <2> HIDE DEF Good
  <2> QED
    BY <1>4, <1>5, SetInduction
<1>7. only \in [0 .. N -> Seq(S)]
  <2>1. \A n \in 0 .. N : only[n] \in Seq(S)
    BY <1>6
  <2>2. DOMAIN only = 0 .. N /\ only = [n \in 0 .. N |-> only[n]]
    <3>1. DOMAIN only = 0 .. N
      BY <1>3
    <3> HIDE DEF Step
    <3> QED
      BY <1>3, <3>1
  <2> HIDE DEF N
  <2> QED
    BY <2>1, <2>2
<1>8. only[0] = <<>>
  BY <1>3
<1>9. \A n \in 1 .. N : only[n] = IF s[n] \in S THEN Append(only[n - 1], s[n]) ELSE only[n - 1]
  <2> SUFFICES ASSUME NEW n \in 1 .. N
               PROVE  only[n] = IF s[n] \in S THEN Append(only[n - 1], s[n]) ELSE only[n - 1]
    OBVIOUS
  <2>1. n \in 0 .. N /\ n # 0
    OBVIOUS
  <2>2. only[n] = Step(n, only[n - 1])
    <3> HIDE DEF Step
    <3> QED
      BY <1>3, <2>1
  <2> QED
    BY <2>2
<1> QED
  BY <1>1, <1>7, <1>8, <1>9

\* Two sequences of one length that keep the same elements at the same places keep the same.
LEMMA OnlySame ==
  ASSUME NEW s, NEW t, NEW S, NEW T, Len(s) \in Nat, Len(t) = Len(s),
         \A i \in 1 .. Len(s) : \/ s[i] \in S /\ t[i] \in T /\ s[i] = t[i]
                                \/ s[i] \notin S /\ t[i] \notin T
  PROVE  Only(s, S) = Only(t, T)
<1> DEFINE N == Len(s)
<1>1. PICK o \in [0 .. N -> Seq(S)] :
        /\ o[0] = <<>>
        /\ \A n \in 1 .. N : o[n] = IF s[n] \in S THEN Append(o[n - 1], s[n]) ELSE o[n - 1]
        /\ Only(s, S) = o[N]
  BY OnlyRecursion
<1>2. PICK u \in [0 .. N -> Seq(T)] :
        /\ u[0] = <<>>
        /\ \A n \in 1 .. N : u[n] = IF t[n] \in T THEN Append(u[n - 1], t[n]) ELSE u[n - 1]
        /\ Only(t, T) = u[N]
  BY OnlyRecursion
<1> DEFINE Good == {n \in Nat : n <= N => o[n] = u[n]}
<1>3. 0 \in Good
  BY <1>1, <1>2
<1>4. ASSUME NEW n \in Nat, n \in Good PROVE n + 1 \in Good
  <2> SUFFICES ASSUME n + 1 <= N PROVE o[n + 1] = u[n + 1]
    OBVIOUS
  <2>1. n + 1 \in 1 .. N /\ o[n] = u[n]
    BY <1>4
  <2> QED
    BY <1>1, <1>2, <2>1
<1>5. N \in Good
  <2> HIDE DEF Good
  <2> QED
    BY <1>3, <1>4, SetInduction
<1> QED
  BY <1>1, <1>2, <1>5

\* One element more is kept or not.
LEMMA OnlyAppend ==
  ASSUME NEW V, NEW s \in Seq(V), NEW x, NEW S
  PROVE  Only(Append(s, x), S) = IF x \in S THEN Append(Only(s, S), x) ELSE Only(s, S)
<1> DEFINE t == Append(s, x)
           N == Len(s)
<1>1. N \in Nat /\ Len(t) = N + 1 /\ t[N + 1] = x /\ \A i \in 1 .. N : t[i] = s[i]
  <2>1. s \in Seq(V \cup {x})
    OBVIOUS
  <2> QED
    BY <2>1, AppendProperties
<1> HIDE DEF t
<1>2. PICK o \in [0 .. N -> Seq(S)] :
        /\ o[0] = <<>>
        /\ \A n \in 1 .. N : o[n] = IF s[n] \in S THEN Append(o[n - 1], s[n]) ELSE o[n - 1]
        /\ Only(s, S) = o[N]
  BY <1>1, OnlyRecursion
<1>3. PICK u \in [0 .. N + 1 -> Seq(S)] :
        /\ u[0] = <<>>
        /\ \A n \in 1 .. N + 1 : u[n] = IF t[n] \in S THEN Append(u[n - 1], t[n]) ELSE u[n - 1]
        /\ Only(t, S) = u[N + 1]
  BY <1>1, OnlyRecursion
<1> DEFINE Good == {n \in Nat : n <= N => o[n] = u[n]}
<1>4. 0 \in Good
  BY <1>2, <1>3
<1>5. ASSUME NEW n \in Nat, n \in Good PROVE n + 1 \in Good
  <2> SUFFICES ASSUME n + 1 <= N PROVE o[n + 1] = u[n + 1]
    OBVIOUS
  <2>1. n + 1 \in 1 .. N /\ n + 1 \in 1 .. N + 1 /\ (n + 1) - 1 = n /\ o[n] = u[n]
    BY <1>1, <1>5
  <2> HIDE DEF N
  <2>2. o[n + 1] = IF s[n + 1] \in S THEN Append(o[n], s[n + 1]) ELSE o[n]
    BY <1>2, <2>1
  <2>3. u[n + 1] = IF t[n + 1] \in S THEN Append(u[n], t[n + 1]) ELSE u[n]
    BY <1>3, <2>1
  <2>4. t[n + 1] = s[n + 1]
    BY <1>1, <2>1
  <2> QED
    BY <2>1, <2>2, <2>3, <2>4
<1>6. N \in Good
  <2> HIDE DEF Good
  <2> QED
    BY <1>1, <1>4, <1>5, SetInduction
<1>7. u[N + 1] = IF x \in S THEN Append(u[N], x) ELSE u[N]
  <2>1. N + 1 \in 1 .. N + 1 /\ (N + 1) - 1 = N
    BY <1>1
  <2> HIDE DEF N
  <2> QED
    BY <1>1, <1>3, <2>1
<1> QED
  BY <1>1, <1>2, <1>3, <1>6, <1>7 DEF t

\* What is kept is a sequence, and of nothing nothing is kept.
LEMMA OnlyInSeq ==
  ASSUME NEW s, Len(s) \in Nat, NEW S
  PROVE  Only(s, S) \in Seq(S)
BY OnlyRecursion

\* Of nothing, nothing is kept.
LEMMA OnlyEmpty ==
  ASSUME NEW S
  PROVE  Only(<<>>, S) = <<>>
BY OnlyRecursion

\* Of a sequence without a member of S nothing is kept.
LEMMA OnlyNone ==
  ASSUME NEW s, Len(s) \in Nat, NEW S, \A i \in 1 .. Len(s) : s[i] \notin S
  PROVE  Only(s, S) = <<>>
<1> DEFINE N == Len(s)
<1>1. PICK o \in [0 .. N -> Seq(S)] :
        /\ o[0] = <<>>
        /\ \A n \in 1 .. N : o[n] = IF s[n] \in S THEN Append(o[n - 1], s[n]) ELSE o[n - 1]
        /\ Only(s, S) = o[N]
  BY OnlyRecursion
<1> DEFINE Good == {n \in Nat : n <= N => o[n] = <<>>}
<1>2. 0 \in Good
  BY <1>1
<1>3. ASSUME NEW n \in Nat, n \in Good PROVE n + 1 \in Good
  <2> SUFFICES ASSUME n + 1 <= N PROVE o[n + 1] = <<>>
    OBVIOUS
  <2>1. n + 1 \in 1 .. N /\ o[n] = <<>>
    BY <1>3
  <2> QED
    BY <1>1, <2>1
<1>4. N \in Good
  <2> HIDE DEF Good
  <2> QED
    BY <1>2, <1>3, SetInduction
<1> QED
  BY <1>1, <1>4

\* What is kept of one sequence after another is kept of the one, then of the other.
LEMMA OnlyConcat ==
  ASSUME NEW V, NEW s \in Seq(V), NEW t \in Seq(V), NEW S
  PROVE  Only(s \o t, S) = Only(s, S) \o Only(t, S)
<1> DEFINE P(n) == SubSeq(t, 1, n)
           Good == {n \in Nat : n <= Len(t) => Only(s \o P(n), S) = Only(s, S) \o Only(P(n), S)}
<1>1. Only(s, S) \in Seq(S)
  BY OnlyInSeq
<1>2. 0 \in Good
  <2>1. P(0) = <<>> /\ s \o <<>> = s
    OBVIOUS
  <2>2. Only(P(0), S) = <<>>
    BY <2>1, OnlyEmpty
  <2>3. Only(s, S) \o <<>> = Only(s, S)
    BY <1>1
  <2> QED
    BY <2>1, <2>2, <2>3
<1>3. ASSUME NEW r \in Seq(V), NEW x \in V, Only(s \o r, S) = Only(s, S) \o Only(r, S)
      PROVE  Only(s \o Append(r, x), S) = Only(s, S) \o Only(Append(r, x), S)
  <2>1. s \o Append(r, x) = Append(s \o r, x) /\ s \o r \in Seq(V)
    BY ConcatAppend
  <2>2. Only(Append(s \o r, x), S) = IF x \in S THEN Append(Only(s \o r, S), x) ELSE Only(s \o r, S)
    BY <2>1, OnlyAppend
  <2>3. Only(Append(r, x), S) = IF x \in S THEN Append(Only(r, S), x) ELSE Only(r, S)
    BY OnlyAppend
  <2>4. Only(r, S) \in Seq(S)
    BY OnlyInSeq
  <2>5. ASSUME x \in S
        PROVE  Append(Only(s, S) \o Only(r, S), x) = Only(s, S) \o Append(Only(r, S), x)
    <3> DEFINE a == Only(s, S)
               b == Only(r, S)
    <3>1. a \in Seq(S) /\ b \in Seq(S)
      BY <1>1, <2>4
    <3> HIDE DEF a, b
    <3>2. a \o Append(b, x) = Append(a \o b, x)
      BY <2>5, <3>1, ConcatAppend
    <3> QED
      BY <3>2 DEF a, b
  <2> QED
    BY <1>3, <2>1, <2>2, <2>3, <2>5
<1>4. ASSUME NEW n \in Nat, n \in Good PROVE n + 1 \in Good
  <2> SUFFICES ASSUME n + 1 <= Len(t)
               PROVE  Only(s \o P(n + 1), S) = Only(s, S) \o Only(P(n + 1), S)
    OBVIOUS
  <2>1. Only(s \o P(n), S) = Only(s, S) \o Only(P(n), S)
    BY <1>4
  <2>2. t[n + 1] \in V /\ P(n) \in Seq(V) /\ P(n + 1) = Append(P(n), t[n + 1])
    OBVIOUS
  <2> HIDE DEF P, Good
  <2> QED
    BY <1>3, <2>1, <2>2
<1>5. Len(t) \in Good
  <2> HIDE DEF Good
  <2> QED
    BY <1>2, <1>4, SetInduction
<1>6. P(Len(t)) = t
  OBVIOUS
<1> HIDE DEF P
<1> QED
  BY <1>5, <1>6

\* Of a sequence over S all is kept.
LEMMA OnlyAll ==
  ASSUME NEW S, NEW s \in Seq(S)
  PROVE  Only(s, S) = s
<1> DEFINE P(n) == SubSeq(s, 1, n)
           Good == {n \in Nat : n <= Len(s) => Only(P(n), S) = P(n)}
<1>1. 0 \in Good
  <2>1. P(0) = <<>>
    OBVIOUS
  <2> QED
    BY <2>1, OnlyEmpty
<1>2. ASSUME NEW n \in Nat, n \in Good PROVE n + 1 \in Good
  <2> SUFFICES ASSUME n + 1 <= Len(s) PROVE Only(P(n + 1), S) = P(n + 1)
    OBVIOUS
  <2>1. Only(P(n), S) = P(n)
    BY <1>2
  <2> DEFINE x == s[n + 1]
  <2>2. x \in S /\ P(n) \in Seq(S) /\ P(n + 1) = Append(P(n), x)
    OBVIOUS
  <2> HIDE DEF P, x
  <2>3. Only(Append(P(n), x), S) = Append(Only(P(n), S), x)
    BY <2>2, OnlyAppend
  <2> QED
    BY <2>1, <2>2, <2>3
<1>3. Len(s) \in Good
  <2> HIDE DEF Good
  <2> QED
    BY <1>1, <1>2, SetInduction
<1>4. P(Len(s)) = s
  OBVIOUS
<1> HIDE DEF P
<1> QED
  BY <1>3, <1>4

\* What is kept of a sequence begins with its head, if that is kept.
LEMMA OnlyTail ==
  ASSUME NEW V, NEW s \in Seq(V), s # <<>>, NEW S
  PROVE  /\ Head(s) \in S => /\ Only(s, S) # <<>> /\ Head(Only(s, S)) = Head(s)
                             /\ Only(Tail(s), S) = Tail(Only(s, S))
         /\ Head(s) \notin S => Only(Tail(s), S) = Only(s, S)
<1> DEFINE x == Head(s)
           r == Tail(s)
<1>1. /\ x \in V /\ r \in Seq(V) /\ Len(r) \in Nat /\ <<x>> \in Seq(V)
      /\ s = <<x>> \o r /\ <<x>> = Append(<<>>, x)
  OBVIOUS
<1> HIDE DEF x, r
<1>2. Only(r, S) \in Seq(S)
  BY <1>1, OnlyInSeq
<1>3. Only(<<x>>, S) = IF x \in S THEN Append(Only(<<>>, S), x) ELSE Only(<<>>, S)
  <2>1. <<>> \in Seq(V)
    OBVIOUS
  <2> QED
    BY <2>1, <1>1, OnlyAppend
<1>4. Only(<<>>, S) = <<>>
  BY OnlyEmpty
<1>5. Only(s, S) = Only(<<x>>, S) \o Only(r, S)
  <2> DEFINE h == <<x>>
  <2>1. h \in Seq(V) /\ s = h \o r
    BY <1>1
  <2> HIDE DEF h
  <2>2. Only(h \o r, S) = Only(h, S) \o Only(r, S)
    BY <1>1, <2>1, OnlyConcat
  <2> QED
    BY <2>1, <2>2 DEF h
<1>6. ASSUME x \in S
      PROVE  Only(s, S) # <<>> /\ Head(Only(s, S)) = x /\ Only(r, S) = Tail(Only(s, S))
  <2> DEFINE k == Only(r, S)
  <2>1. k \in Seq(S) /\ Only(s, S) = <<x>> \o k
    BY <1>2, <1>3, <1>4, <1>5, <1>6
  <2> HIDE DEF k
  <2>2. <<x>> \o k # <<>> /\ Head(<<x>> \o k) = x /\ k = Tail(<<x>> \o k)
    BY <2>1, <1>6
  <2> QED
    BY <2>1, <2>2 DEF k
<1>7. ASSUME x \notin S PROVE Only(r, S) = Only(s, S)
  <2> DEFINE k == Only(r, S)
  <2>1. k \in Seq(S) /\ Only(s, S) = <<>> \o k
    BY <1>2, <1>3, <1>4, <1>5, <1>7
  <2> HIDE DEF k
  <2>2. <<>> \o k = k
    BY <2>1
  <2> QED
    BY <2>1, <2>2 DEF k
<1> QED
  BY <1>6, <1>7 DEF x, r

\* Keeping T first makes no difference to what is kept of its subset S.
LEMMA OnlyOnly ==
  ASSUME NEW V, NEW s \in Seq(V), NEW T, NEW S \in SUBSET T
  PROVE  Only(Only(s, T), S) = Only(s, S)
<1> DEFINE P(n) == SubSeq(s, 1, n)
           Good == {n \in Nat : n <= Len(s) => Only(Only(P(n), T), S) = Only(P(n), S)}
<1>1. 0 \in Good
  <2>1. P(0) = <<>>
    OBVIOUS
  <2> QED
    BY <2>1, OnlyEmpty
<1>2. ASSUME NEW r \in Seq(V), NEW x \in V, Only(Only(r, T), S) = Only(r, S)
      PROVE  Only(Only(Append(r, x), T), S) = Only(Append(r, x), S)
  <2>1. Only(r, T) \in Seq(T)
    BY OnlyInSeq
  <2>2. Only(Append(r, x), T) = IF x \in T THEN Append(Only(r, T), x) ELSE Only(r, T)
    BY OnlyAppend
  <2>3. Only(Append(r, x), S) = IF x \in S THEN Append(Only(r, S), x) ELSE Only(r, S)
    BY OnlyAppend
  <2>4. Only(Append(Only(r, T), x), S) =
          IF x \in S THEN Append(Only(Only(r, T), S), x) ELSE Only(Only(r, T), S)
    BY <2>1, OnlyAppend
  <2> QED
    BY <1>2, <2>2, <2>3, <2>4
<1>3. ASSUME NEW n \in Nat, n \in Good PROVE n + 1 \in Good
  <2> SUFFICES ASSUME n + 1 <= Len(s) PROVE Only(Only(P(n + 1), T), S) = Only(P(n + 1), S)
    OBVIOUS
  <2>1. Only(Only(P(n), T), S) = Only(P(n), S)
    BY <1>3
  <2>2. s[n + 1] \in V /\ P(n) \in Seq(V) /\ P(n + 1) = Append(P(n), s[n + 1])
    OBVIOUS
  <2> HIDE DEF P, Good
  <2> QED
    BY <1>2, <2>1, <2>2
<1>4. Len(s) \in Good
  <2> HIDE DEF Good
  <2> QED
    BY <1>1, <1>3, SetInduction
<1>5. P(Len(s)) = s
  OBVIOUS
<1> HIDE DEF P
<1> QED
  BY <1>4, <1>5
-----------------------------------------------------------------------------
\* The element the sum of a set begins with.
FirstTerm(s) == CHOOSE x \in s : TRUE

Summing(f, S, h) ==
  h = [s \in SUBSET S |-> IF s = {} THEN 0 ELSE f[FirstTerm(s)] + h[s \ {FirstTerm(s)}]]

\* On sets where two functions agree, so do their sums, whatever larger sets the recursion ran over.
LEMMA SumUnique ==
  ASSUME NEW S, NEW f, NEW h, Summing(f, S, h),
         NEW T, NEW g, NEW k, Summing(g, T, k),
         NEW U, U \subseteq S, U \subseteq T, IsFiniteSet(U), \A x \in U : f[x] = g[x]
  PROVE  h[U] = k[U]
<1> DEFINE Same == {n \in Nat : \A s \in SUBSET U : Cardinality(s) <= n => h[s] = k[s]}
<1>1. ASSUME NEW s \in SUBSET U
      PROVE  /\ Cardinality(s) \in Nat
             /\ Cardinality(s) = 0 <=> s = {}
             /\ s = {} => h[s] = 0 /\ k[s] = 0
             /\ s # {} => /\ h[s] = f[FirstTerm(s)] + h[s \ {FirstTerm(s)}]
                          /\ k[s] = f[FirstTerm(s)] + k[s \ {FirstTerm(s)}]
                          /\ Cardinality(s \ {FirstTerm(s)}) = Cardinality(s) - 1
  <2>1. IsFiniteSet(s) /\ s \in SUBSET S /\ s \in SUBSET T
    BY FS_Subset
  <2>2. Cardinality(s) \in Nat /\ (Cardinality(s) = 0 <=> s = {})
    BY <2>1, FS_CardinalityType, FS_EmptySet
  <2>3. s # {} => FirstTerm(s) \in s
    BY DEF FirstTerm
  <2>4. s # {} => Cardinality(s \ {FirstTerm(s)}) = Cardinality(s) - 1
    BY <2>1, <2>3, FS_RemoveElement
  <2>5. /\ s = {} => h[s] = 0
        /\ s # {} => h[s] = f[FirstTerm(s)] + h[s \ {FirstTerm(s)}]
    BY <2>1 DEF Summing
  <2>6. /\ s = {} => k[s] = 0
        /\ s # {} => k[s] = g[FirstTerm(s)] + k[s \ {FirstTerm(s)}]
    BY <2>1 DEF Summing
  <2> QED
    BY <2>2, <2>3, <2>4, <2>5, <2>6
<1>2. 0 \in Same
  <2> SUFFICES ASSUME NEW s \in SUBSET U, Cardinality(s) <= 0 PROVE h[s] = k[s]
    OBVIOUS
  <2>1. Cardinality(s) \in Nat
    BY <1>1
  <2>2. Cardinality(s) = 0
    BY <2>1
  <2> QED
    BY <1>1, <2>2
<1>3. ASSUME NEW n \in Nat, n \in Same PROVE n + 1 \in Same
  <2> SUFFICES ASSUME NEW s \in SUBSET U, Cardinality(s) <= n + 1 PROVE h[s] = k[s]
    OBVIOUS
  <2>1. CASE s = {}
    BY <1>1, <2>1
  <2>2. CASE s # {}
    <3>1. s \ {FirstTerm(s)} \in SUBSET U /\ Cardinality(s \ {FirstTerm(s)}) <= n
      BY <1>1, <2>2
    <3>2. h[s \ {FirstTerm(s)}] = k[s \ {FirstTerm(s)}]
      BY <1>3, <3>1
    <3>3. f[FirstTerm(s)] = g[FirstTerm(s)]
      BY <2>2 DEF FirstTerm
    <3>4. /\ h[s] = f[FirstTerm(s)] + h[s \ {FirstTerm(s)}]
          /\ k[s] = g[FirstTerm(s)] + k[s \ {FirstTerm(s)}]
      BY <1>1, <2>2, <3>3
    <3> QED
      BY <3>2, <3>3, <3>4
  <2> QED
    BY <2>1, <2>2
<1>4. Cardinality(U) \in Same
  <2>1. Cardinality(U) \in Nat
    BY FS_CardinalityType
  <2> HIDE DEF Same
  <2> QED
    BY <1>2, <1>3, <2>1, SetInduction
<1> QED
  BY <1>1, <1>4

\* What the recursion in SumFunction defines: there is a function of the subsets that satisfies it.
LEMMA SumRecursion ==
  ASSUME NEW S, IsFiniteSet(S), NEW f, \A x \in S : f[x] \in Nat
  PROVE  \E h \in [SUBSET S -> Nat] : Summing(f, S, h) /\ SumFunctionOnSet(f, S) = h[S]
<1> DEFINE N == Cardinality(S)
           V == [SUBSET S -> Nat]
           Step(h) == [s \in SUBSET S |-> IF s = {} THEN 0 ELSE f[FirstTerm(s)] + h[s \ {FirstTerm(s)}]]
           g == [n \in 1 .. N + 1 |-> [h \in V |-> Step(h)]]
<1>1. N \in Nat
  BY FS_CardinalityType
<1>2. \A s \in SUBSET S : s # {} => /\ FirstTerm(s) \in s /\ f[FirstTerm(s)] \in Nat
                                     /\ s \ {FirstTerm(s)} \in SUBSET S
                                     /\ Cardinality(s \ {FirstTerm(s)}) = Cardinality(s) - 1
                                     /\ Cardinality(s) \in Nat
  <2> SUFFICES ASSUME NEW s \in SUBSET S, s # {}
               PROVE  /\ FirstTerm(s) \in s /\ f[FirstTerm(s)] \in Nat
                      /\ s \ {FirstTerm(s)} \in SUBSET S
                      /\ Cardinality(s \ {FirstTerm(s)}) = Cardinality(s) - 1
                      /\ Cardinality(s) \in Nat
    OBVIOUS
  <2>1. FirstTerm(s) \in s
    BY DEF FirstTerm
  <2>2. IsFiniteSet(s)
    BY FS_Subset
  <2> QED
    BY <2>1, <2>2, FS_RemoveElement, FS_CardinalityType
<1>3. \A h \in V : Step(h) \in V
  <2> SUFFICES ASSUME NEW h \in V, NEW s \in SUBSET S
               PROVE  (IF s = {} THEN 0 ELSE f[FirstTerm(s)] + h[s \ {FirstTerm(s)}]) \in Nat
    OBVIOUS
  <2>1. s # {} => s \ {FirstTerm(s)} \in SUBSET S /\ f[FirstTerm(s)] \in Nat
    BY <1>2
  <2>2. s # {} => h[s \ {FirstTerm(s)}] \in Nat
    BY <2>1
  <2> QED
    BY <2>1, <2>2
<1>4. PICK F \in [0 .. N + 1 -> V] :
             F[0] = [s \in SUBSET S |-> 0] /\ \A n \in 1 .. N + 1 : F[n] = g[n][F[n - 1]]
  <2>1. [s \in SUBSET S |-> 0] \in V
    OBVIOUS
  <2>2. g \in [1 .. N + 1 -> [V -> V]]
    <3> HIDE DEF Step, V
    <3> QED
      BY <1>3
  <2> DEFINE zero == [s \in SUBSET S |-> 0]
             M == N + 1
  <2>3. M \in Nat
    BY <1>1
  <2>4. zero \in V /\ g \in [1 .. M -> [V -> V]]
    BY <2>1, <2>2
  <2> HIDE DEF g, V, M, zero
  <2>5. \E F \in [0 .. M -> V] : F[0] = zero /\ \A n \in 1 .. M : F[n] = g[n][F[n - 1]]
    BY <2>3, <2>4, Iterates
  <2> QED
    BY <2>5 DEF zero, M
<1>5. \A n \in 0 .. N : F[n] \in V /\ F[n + 1] \in V /\ F[n + 1] = Step(F[n])
  <2> SUFFICES ASSUME NEW n \in 0 .. N
               PROVE  F[n] \in V /\ F[n + 1] \in V /\ F[n + 1] = Step(F[n])
    OBVIOUS
  <2>1. n \in 0 .. N + 1 /\ n + 1 \in 1 .. N + 1 /\ n + 1 \in 0 .. N + 1 /\ (n + 1) - 1 = n
    BY <1>1
  <2> HIDE DEF Step, V, N
  <2>2. F[n] \in V /\ F[n + 1] \in V /\ F[n + 1] = g[n + 1][F[n]]
    BY <1>4, <2>1
  <2> QED
    BY <2>1, <2>2
<1> DEFINE Settled == {n \in Nat : n <= N =>
                         \A s \in SUBSET S : Cardinality(s) <= n => F[n + 1][s] = F[n][s]}
<1>6. 0 \in Settled
  <2> SUFFICES ASSUME NEW s \in SUBSET S, Cardinality(s) <= 0 PROVE F[1][s] = F[0][s]
    BY <1>1
  <2>1. s = {}
    <3>1. IsFiniteSet(s) /\ Cardinality(s) \in Nat
      BY FS_Subset, FS_CardinalityType
    <3> QED
      BY <3>1, FS_EmptySet
  <2>2. F[0] \in V /\ F[1] = Step(F[0])
    <3>1. 0 \in 0 .. N /\ 0 + 1 = 1
      BY <1>1
    <3> HIDE DEF Step, V
    <3> QED
      BY <1>5, <3>1
  <2> QED
    BY <1>4, <2>1, <2>2
<1>7. ASSUME NEW n \in Nat, n \in Settled PROVE n + 1 \in Settled
  <2> SUFFICES ASSUME n + 1 <= N, NEW s \in SUBSET S, Cardinality(s) <= n + 1
               PROVE  F[n + 2][s] = F[n + 1][s]
    OBVIOUS
  <2>1. F[n + 1] = Step(F[n]) /\ F[n + 2] = Step(F[n + 1])
    <3>1. n \in 0 .. N /\ n + 1 \in 0 .. N /\ (n + 1) + 1 = n + 2
      BY <1>1
    <3> HIDE DEF Step
    <3> QED
      BY <1>5, <3>1
  <2>2. CASE s = {}
    BY <2>1, <2>2
  <2>3. CASE s # {}
    <3>1. s \ {FirstTerm(s)} \in SUBSET S /\ Cardinality(s \ {FirstTerm(s)}) <= n
      BY <1>2, <2>3
    <3>2. F[n + 1][s \ {FirstTerm(s)}] = F[n][s \ {FirstTerm(s)}]
      BY <1>1, <1>7, <3>1
    <3> QED
      BY <2>1, <2>3, <3>2
  <2> QED
    BY <2>2, <2>3
<1> DEFINE h == F[N + 1]
<1>8. Summing(f, S, h)
  <2>1. N \in Settled
    <3> HIDE DEF Settled
    <3> QED
      BY <1>1, <1>6, <1>7, SetInduction
  <2>2. \A s \in SUBSET S : F[N + 1][s] = F[N][s]
    <3> SUFFICES ASSUME NEW s \in SUBSET S PROVE Cardinality(s) <= N
      BY <1>1, <2>1
    <3> QED
      BY FS_Subset
  <2>3. h = Step(F[N])
    <3>1. N \in 0 .. N
      BY <1>1
    <3> HIDE DEF Step
    <3> QED
      BY <1>5, <3>1
  <2> HIDE DEF N, h
  <2>4. \A s \in SUBSET S : s # {} => F[N][s \ {FirstTerm(s)}] = h[s \ {FirstTerm(s)}]
    BY <2>2 DEF h
  <2>5. Step(F[N]) = [s \in SUBSET S |-> IF s = {} THEN 0 ELSE f[FirstTerm(s)] + h[s \ {FirstTerm(s)}]]
    BY <2>4
  <2> QED
    BY <2>3, <2>5 DEF Summing
<1>9. h \in V
  <2>1. N + 1 \in 0 .. N + 1
    BY <1>1
  <2> HIDE DEF N, V
  <2> QED
    BY <1>4, <2>1
<1>10. SumFunctionOnSet(f, S) = (CHOOSE k : Summing(f, S, k))[S]
  BY DEF SumFunctionOnSet, FoldFunctionOnSet, MapThenFoldSet, Summing, FirstTerm
<1> HIDE DEF h, V
<1>11. Summing(f, S, CHOOSE k : Summing(f, S, k))
  BY <1>8
<1>12. SumFunctionOnSet(f, S) = h[S]
  BY <1>8, <1>10, <1>11, SumUnique
<1> QED
  BY <1>8, <1>9, <1>12 DEF V

\* The sum of nothing, and a sum with one of its terms taken out: the order of summation is immaterial.
LEMMA SumEmpty ==
  ASSUME NEW f
  PROVE  SumFunctionOnSet(f, {}) = 0
<1>1. PICK h : Summing(f, {}, h) /\ SumFunctionOnSet(f, {}) = h[{}]
  BY SumRecursion, FS_EmptySet
<1> QED
  BY <1>1 DEF Summing

\* A sum is one of its terms and the sum of the others.
LEMMA SumTerm ==
  ASSUME NEW S, IsFiniteSet(S), NEW f, \A x \in S : f[x] \in Nat, NEW a \in S
  PROVE  /\ SumFunctionOnSet(f, S \ {a}) \in Nat
         /\ SumFunctionOnSet(f, S) = f[a] + SumFunctionOnSet(f, S \ {a})
<1>1. PICK h \in [SUBSET S -> Nat] : Summing(f, S, h) /\ SumFunctionOnSet(f, S) = h[S]
  BY SumRecursion
<1>2. SumFunctionOnSet(f, S \ {a}) = h[S \ {a}]
  <2>1. IsFiniteSet(S \ {a}) /\ S \ {a} \subseteq S
    BY FS_Subset
  <2>2. PICK k : Summing(f, S \ {a}, k) /\ SumFunctionOnSet(f, S \ {a}) = k[S \ {a}]
    BY <2>1, SumRecursion
  <2> QED
    BY <1>1, <2>1, <2>2, SumUnique
<1> DEFINE Good == {n \in Nat : \A s \in SUBSET S :
                      Cardinality(s) <= n => \A b \in s : h[s] = f[b] + h[s \ {b}]}
<1>3. 0 \in Good
  <2> SUFFICES ASSUME NEW s \in SUBSET S, Cardinality(s) <= 0 PROVE s = {}
    OBVIOUS
  <2>1. IsFiniteSet(s) /\ Cardinality(s) \in Nat
    BY FS_Subset, FS_CardinalityType
  <2> QED
    BY <2>1, FS_EmptySet
<1>4. ASSUME NEW n \in Nat, n \in Good PROVE n + 1 \in Good
  <2> SUFFICES ASSUME NEW s \in SUBSET S, Cardinality(s) <= n + 1, NEW b \in s
               PROVE  h[s] = f[b] + h[s \ {b}]
    OBVIOUS
  <2> DEFINE x == FirstTerm(s)
  <2>1. x \in s /\ h[s] = f[x] + h[s \ {x}]
    BY <1>1 DEF Summing, FirstTerm
  <2>2. CASE x = b
    BY <2>1, <2>2
  <2>3. CASE x # b
    <3> DEFINE both == s \ {b, x}
    <3>1. IsFiniteSet(s) /\ Cardinality(s) \in Nat
      BY FS_Subset, FS_CardinalityType
    <3>2. ASSUME NEW y \in s PROVE Cardinality(s \ {y}) <= n
      <4>1. Cardinality(s \ {y}) = Cardinality(s) - 1
        BY <3>1, FS_RemoveElement
      <4> QED
        BY <3>1, <4>1
    <3>3. /\ s \ {x} \in SUBSET S /\ b \in s \ {x} /\ (s \ {x}) \ {b} = both
          /\ s \ {b} \in SUBSET S /\ x \in s \ {b} /\ (s \ {b}) \ {x} = both
          /\ both \in SUBSET S
      BY <2>1, <2>3
    <3> HIDE DEF x, both
    <3>4. h[s \ {x}] = f[b] + h[both]
      BY <1>4, <2>1, <3>2, <3>3
    <3>5. h[s \ {b}] = f[x] + h[both]
      BY <1>4, <3>2, <3>3
    <3>6. h[both] \in Nat /\ f[x] \in Nat /\ f[b] \in Nat
      BY <2>1, <3>3
    <3> QED
      BY <2>1, <3>4, <3>5, <3>6
  <2> QED
    BY <2>2, <2>3
<1>5. h[S] = f[a] + h[S \ {a}]
  <2>1. Cardinality(S) \in Nat
    BY FS_CardinalityType
  <2>2. Cardinality(S) \in Good
    <3> HIDE DEF Good
    <3> QED
      BY <1>3, <1>4, <2>1, SetInduction
  <2> QED
    BY <2>1, <2>2
<1> QED
  BY <1>1, <1>2, <1>5

\* Terms decide a sum.
LEMMA SumSame ==
  ASSUME NEW S, IsFiniteSet(S), NEW f, \A x \in S : f[x] \in Nat,
         NEW g, \A x \in S : f[x] = g[x]
  PROVE  SumFunctionOnSet(f, S) = SumFunctionOnSet(g, S)
<1>1. PICK h : Summing(f, S, h) /\ SumFunctionOnSet(f, S) = h[S]
  BY SumRecursion
<1>2. PICK k : Summing(g, S, k) /\ SumFunctionOnSet(g, S) = k[S]
  BY SumRecursion
<1> QED
  BY <1>1, <1>2, SumUnique

\* A sum of zeros.
LEMMA SumZeros ==
  ASSUME NEW S, IsFiniteSet(S), NEW f, \A x \in S : f[x] = 0
  PROVE  SumFunctionOnSet(f, S) = 0
<1> DEFINE Zero == {n \in Nat : \A T \in SUBSET S : Cardinality(T) = n => SumFunctionOnSet(f, T) = 0}
<1>1. ASSUME NEW T \in SUBSET S PROVE IsFiniteSet(T) /\ Cardinality(T) \in Nat
  BY FS_Subset, FS_CardinalityType
<1>2. 0 \in Zero
  <2>1. ASSUME NEW T \in SUBSET S, Cardinality(T) = 0 PROVE SumFunctionOnSet(f, T) = 0
    <3>1. T = {}
      BY <1>1, <2>1, FS_EmptySet
    <3> QED
      BY <3>1, SumEmpty
  <2> QED
    BY <2>1
<1>3. ASSUME NEW n \in Nat, n \in Zero PROVE n + 1 \in Zero
  <2>1. ASSUME NEW T \in SUBSET S, Cardinality(T) = n + 1 PROVE SumFunctionOnSet(f, T) = 0
    <3>1. PICK a : a \in T
      BY <1>1, <2>1, FS_EmptySet
    <3>2. IsFiniteSet(T) /\ a \in T /\ (\A x \in T : f[x] \in Nat) /\ f[a] = 0
      BY <1>1, <3>1
    <3>3. T \ {a} \in SUBSET S /\ Cardinality(T \ {a}) = n
      <4>1. Cardinality(T \ {a}) = Cardinality(T) - 1
        BY <3>2, FS_RemoveElement
      <4> QED
        BY <2>1, <4>1
    <3>4. SumFunctionOnSet(f, T \ {a}) = 0
      BY <1>3, <3>3
    <3>5. SumFunctionOnSet(f, T) = f[a] + SumFunctionOnSet(f, T \ {a})
      BY <3>2, SumTerm
    <3> QED
      BY <3>2, <3>4, <3>5
  <2> QED
    BY <2>1
<1> HIDE DEF Zero
<1>4. \A n \in Nat : n \in Zero
  BY <1>2, <1>3, SetInduction
<1> QED
  BY <1>1, <1>4 DEF Zero
=============================================================================
