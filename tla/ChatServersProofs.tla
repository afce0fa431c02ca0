------------------------- MODULE ChatServersProofs -------------------------
(***************************************************************************)
(* Theorems about ChatServers, for any users, names, number of commands,   *)
(* room in a socket and length of a line: types, and that everyone hears   *)
(* what is said unless a frame or a line was broken.                       *)
(*                                                                         *)
(* The argument looks at one user c at a time.  The lines of c that were   *)
(* said, those in the queue and the one its reader is about to announce    *)
(* make one flow, which only the reader makes longer: the broker moves a   *)
(* line from the queue to those said and leaves the flow as it is.  All    *)
(* that can happen to c in the queue is in Post(c), c's own part of it: a  *)
(* Connect before c is a client, a Disconnect only when c has hung up, one *)
(* farewell, and nothing of c behind it.  What c was sent is then compared *)
(* with the order in which the broker said the lines.                      *)
(***************************************************************************)
EXTENDS ChatServers, CommonLemmas

\* The messages of c, those that carry a line of c, and among these commands and farewells.
SaysOf(c)       == {m \in ServerCmd : m.cmd = "say" /\ m.line.of = c}
Mine(c)         == SaysOf(c) \cup {Connecting(c), Disconnect(c)}
NumberedSays(c) == {m \in SaysOf(c) : m.line.no # 0}
LeftSays(c)     == {m \in SaysOf(c) : m.line.kind = "left"}
Numbered(c)     == {l \in LinesOf(c) : l.no # 0}
Leavings(c)     == {l \in LinesOf(c) : l.kind = "left"}

Talk(c) == Only(said, LinesOf(c))
Post(c) == Only(queue, Mine(c))
Left(c) == Only(Talk(c), Leavings(c))

\* Is an element of S in the sequence, is there one at most.
Has(p, S)  == \E i \in 1 .. Len(p) : p[i] \in S
Lone(p, S) == \A i, j \in 1 .. Len(p) : p[i] \in S /\ p[j] \in S => i = j

\* Behind a Disconnect comes no line but the farewell, and behind that none.
Behind(c, p) ==
  \A i, j \in 1 .. Len(p) :
    i < j /\ p[j] \in SaysOf(c) /\ p[i] \in LeftSays(c) \cup {Disconnect(c)}
      => p[i] = Disconnect(c) /\ p[j] \in LeftSays(c)

\* The flow of commands of c, of its talk t, its post p and u that its reader is about to send.
LinesIn(p)       == [i \in 1 .. Len(p) |-> p[i].line]
Stream(c, t, p, u) == Only(t, Numbered(c)) \o (LinesIn(Only(p, NumberedSays(c))) \o u)
Unsaid(c)        == IF rpc[c] = "announce" /\ note[c] \in Numbered(c) THEN <<note[c]>> ELSE <<>>
Flow(c)          == Stream(c, Talk(c), Post(c), Unsaid(c))
NameAfter(f)     == IF f = <<>> THEN NoName ELSE Last(f).now

\* Numbers go up, and before the nth command none is left out and the names link up.
Chained(c, f, n) ==
  /\ f \in Seq(Numbered(c))
  /\ \A i \in 1 .. Len(f) :
       /\ i > 1 => f[i].no > f[i - 1].no
       /\ i < n => f[i].no = i /\ f[i].was = IF i = 1 THEN NoName ELSE f[i - 1].now

\* The flow holds commands read so far, each once and in order, and all of them before a frame was
\* lost ...
Counted(c) ==
  /\ Chained(c, Flow(c), lost[c])
  /\ \A i \in 1 .. Len(Flow(c)) : Flow(c)[i].no < Number(c)
  /\ Len(inbox[c]) <= sent[c]

\* ... and while none was, the name is that of the last.
Told(c) ==
  /\ Counted(c)
  /\ rpc[c] = "announce" => note[c] \in LinesOf(c) /\ note[c].kind = "announcement"
  /\ Intact(c) => /\ name[c] = NameAfter(Flow(c))
                  /\ \/ Len(Flow(c)) = sent[c] - Len(inbox[c])
                     \/ sock[c] = "closed" /\ inbox[c] = <<>>
  /\ ~Intact(c) => Len(Flow(c)) + 1 >= lost[c]

\* The broker is between starting the reader of c and inserting c.
Inserting(c) == bpc = "insert" /\ Head(queue) = Connecting(c)

\* A user connects once, is sent nothing before it is inserted, and stays.
Entry(c) ==
  /\ sock[c] = "none" => rpc[c] = "none" /\ Talk(c) = <<>> /\ Post(c) = <<>>
  /\ Has(Post(c), {Connecting(c)}) => c \notin clients /\ (rpc[c] = "none" \/ Inserting(c))
  /\ Lone(Post(c), {Connecting(c)})
  /\ Inserting(c) => rpc[c] # "none"
  /\ rpc[c] = "none" \/ Has(Post(c), {Connecting(c)}) => got[c] = <<>>
  /\ sock[c] = "open" => c \in clients \/ rpc[c] = "none" \/ Inserting(c)

Silent(c) == rpc[c] \in {"ended", "failing"}

Gone(c) == Left(c) # <<>> \/ Has(Post(c), LeftSays(c))

\* When the reader has noticed that c hung up, what c said is all on its way, and the farewell
\* comes after it.
Orderly(c) ==
  /\ Has(Post(c), {Disconnect(c)}) \/ Gone(c) => Silent(c)
  /\ Behind(c, Post(c))
  /\ ~Has(Post(c), {m \in LeftSays(c) : m.line.now # name[c]})
  /\ Left(c) # <<>> => /\ Last(Left(c)).now = name[c] /\ Last(Talk(c)) = Last(Left(c))
                       /\ ~Has(Post(c), SaysOf(c))

\* A user leaves once and for good, after hanging up.
Leaving(c) ==
  /\ Has(Post(c), {Disconnect(c)}) => sock[c] = "closed"
  /\ Gone(c) => c \notin clients /\ rpc[c] # "none" /\ ~Has(Post(c), {Connecting(c)})
  /\ Len(Left(c)) <= 1
  /\ Lone(Post(c), LeftSays(c))
  /\ Has(Post(c), LeftSays(c)) => Left(c) = <<>>
  /\ ~cut[c] /\ Intact(c) => Orderly(c)

\* The broker is telling the line said last, to clients inserted before it was said and not to
\* the one whose message it is.
Telling ==
  /\ todo # {} => said # <<>> /\ line = Last(said)
  /\ \A c \in todo : joined[c] < Len(said) /\ ~(line.kind = "broadcast" /\ line.of = c)

\* The server with threads breaks nothing.
Plain == kind = "threads" => cur = Nobody /\ \A c \in Users : part[c] = NoName /\ ~astray[c]

\* Commands written and those written in part stay within the bound.
Within == Cardinality(InParts) + SumFunction(sent) <= MaxSends

Safe ==
  /\ AsyncTypeOK /\ kind \in {"threads", "tasks"}
  /\ Within /\ Plain /\ Telling
  /\ \A c \in Users : Told(c) /\ Entry(c) /\ Leaving(c) /\ (~resumed[c] => ToldAll(c))
  /\ bpc = "panicked" => \E c \in Users : resumed[c]
-----------------------------------------------------------------------------
(* Sequences *)

\* One message more at the end.
LEMMA HasAppend ==
  ASSUME NEW V, NEW p \in Seq(V), NEW m \in V, NEW S
  PROVE  Has(Append(p, m), S) <=> Has(p, S) \/ m \in S
BY DEF Has

\* The message at the head and those behind it.
LEMMA HasTail ==
  ASSUME NEW V, NEW p \in Seq(V), p # <<>>, NEW S
  PROVE  Has(p, S) <=> Head(p) \in S \/ Has(Tail(p), S)
<1> DEFINE r == Tail(p)
<1>1. /\ Len(p) \in Nat \ {0} /\ Len(r) = Len(p) - 1 /\ Head(p) = p[1]
      /\ \A i \in 1 .. Len(r) : r[i] = p[i + 1]
  OBVIOUS
<1> HIDE DEF r
<1>2. ASSUME NEW i \in 1 .. Len(p), p[i] \in S, p[1] \notin S PROVE Has(r, S)
  <2>1. i - 1 \in 1 .. Len(r) /\ r[i - 1] = p[i]
    <3>1. i # 1
      BY <1>2
    <3>2. i - 1 \in 1 .. Len(r) /\ (i - 1) + 1 = i
      BY <1>1, <3>1
    <3> QED
      BY <1>1, <3>2
  <2> QED
    BY <1>2, <2>1 DEF Has
<1>3. ASSUME NEW i \in 1 .. Len(r), r[i] \in S PROVE Has(p, S)
  <2>1. i + 1 \in 1 .. Len(p) /\ p[i + 1] = r[i]
    BY <1>1
  <2> QED
    BY <1>3, <2>1 DEF Has
<1>4. Head(p) \in S => Has(p, S)
  BY <1>1 DEF Has
<1> QED
  BY <1>1, <1>2, <1>3, <1>4 DEF Has, r

\* Nothing waits in an empty sequence.
LEMMA HasNone ==
  ASSUME NEW S
  PROVE  ~Has(<<>>, S) /\ Lone(<<>>, S)
BY DEF Has, Lone

\* Larger sets are easier to meet.
LEMMA HasMore ==
  ASSUME NEW p, NEW T, NEW S \in SUBSET T, Has(p, S)
  PROVE  Has(p, T)
BY DEF Has

\* One stays the only one behind other messages ...
LEMMA LoneAppend ==
  ASSUME NEW V, NEW p \in Seq(V), NEW m \in V, NEW S, Lone(p, S), ~(m \in S /\ Has(p, S))
  PROVE  Lone(Append(p, m), S)
BY DEF Lone, Has

\* ... and is gone when it was at the head.
LEMMA LoneTail ==
  ASSUME NEW V, NEW p \in Seq(V), p # <<>>, NEW S, Lone(p, S)
  PROVE  Lone(Tail(p), S) /\ (Head(p) \in S => ~Has(Tail(p), S))
<1> DEFINE r == Tail(p)
<1>1. /\ Len(p) \in Nat \ {0} /\ Len(r) = Len(p) - 1 /\ Head(p) = p[1]
      /\ \A i \in 1 .. Len(r) : r[i] = p[i + 1]
  OBVIOUS
<1> HIDE DEF r
<1>2. \A i \in 1 .. Len(r) : i + 1 \in 1 .. Len(p) /\ i + 1 # 1
  BY <1>1
<1>3. 1 \in 1 .. Len(p)
  BY <1>1
<1> QED
  BY <1>1, <1>2, <1>3 DEF Lone, Has, r

\* A message may come last if it is no line, if nothing of c went before that closes the post,
\* or if it is the farewell.
LEMMA BehindAppend ==
  ASSUME NEW c, NEW p \in Seq(ServerCmd), NEW m \in ServerCmd, Behind(c, p),
         \/ m \notin SaysOf(c)
         \/ ~Has(p, LeftSays(c) \cup {Disconnect(c)})
         \/ m \in LeftSays(c) /\ ~Has(p, LeftSays(c))
  PROVE  Behind(c, Append(p, m))
<1> DEFINE q == Append(p, m)
           L == LeftSays(c)
           S == SaysOf(c)
           d == Disconnect(c)
<1>1. /\ Len(p) \in Nat /\ Len(q) = Len(p) + 1 /\ q[Len(q)] = m
      /\ \A i \in 1 .. Len(p) : q[i] = p[i]
  OBVIOUS
<1> HIDE DEF q, L, S, d
<1> SUFFICES ASSUME NEW i \in 1 .. Len(q), NEW j \in 1 .. Len(q),
                    i < j, q[j] \in S, q[i] \in L \cup {d}
             PROVE  q[i] = d /\ q[j] \in L
  BY DEF Behind, q, L, S, d
<1>2. i \in 1 .. Len(p) /\ q[i] = p[i]
  BY <1>1
<1>3. CASE j \in 1 .. Len(p)
  BY <1>1, <1>2, <1>3 DEF Behind, L, S, d
<1>4. CASE j = Len(q)
  <2>1. p[i] \in L \cup {d} /\ m \in S
    BY <1>1, <1>2, <1>4
  <2>2. m \in L /\ p[i] \notin L
    BY <1>2, <2>1 DEF Has, L, S, d
  <2> QED
    BY <1>1, <1>2, <1>4, <2>1, <2>2
<1> QED
  BY <1>1, <1>3, <1>4

\* What the head of the post lets follow it.
LEMMA BehindTail ==
  ASSUME NEW c, NEW p \in Seq(ServerCmd), p # <<>>, Behind(c, p)
  PROVE  /\ Behind(c, Tail(p))
         /\ Head(p) \in LeftSays(c) => ~Has(Tail(p), SaysOf(c))
         /\ Head(p) = Disconnect(c) => ~Has(Tail(p), SaysOf(c) \ LeftSays(c))
<1> DEFINE r == Tail(p)
           L == LeftSays(c)
           S == SaysOf(c)
           d == Disconnect(c)
<1>1. /\ Len(p) \in Nat \ {0} /\ Len(r) = Len(p) - 1 /\ Head(p) = p[1]
      /\ \A i \in 1 .. Len(r) : r[i] = p[i + 1]
  OBVIOUS
<1>2. d \notin L
  BY DEF LeftSays, SaysOf, Disconnect
<1>3. \A i, j \in 1 .. Len(p) : i < j /\ p[j] \in S /\ p[i] \in L \cup {d} => p[i] = d /\ p[j] \in L
  BY DEF Behind
<1> HIDE DEF r, L, S, d
<1>4. \A i, j \in 1 .. Len(r) : i < j => /\ i + 1 \in 1 .. Len(p) /\ j + 1 \in 1 .. Len(p)
                                         /\ i + 1 < j + 1
  BY <1>1
<1>5. \A i, j \in 1 .. Len(r) : i < j /\ r[j] \in S /\ r[i] \in L \cup {d} => r[i] = d /\ r[j] \in L
  BY <1>1, <1>3, <1>4
<1>6. \A j \in 1 .. Len(r) : 1 \in 1 .. Len(p) /\ j + 1 \in 1 .. Len(p) /\ 1 < j + 1
  BY <1>1
<1>7. \A j \in 1 .. Len(r) : r[j] \in S /\ p[1] \in L \cup {d} => p[1] = d /\ r[j] \in L
  BY <1>1, <1>3, <1>6
<1> QED
  BY <1>1, <1>2, <1>5, <1>7 DEF Behind, Has, r, L, S, d

\* The lines of messages ...
LEMMA LinesInSeq ==
  ASSUME NEW S, NEW L, \A m \in S : m.line \in L, NEW p \in Seq(S)
  PROVE  /\ LinesIn(p) \in Seq(L) /\ Len(LinesIn(p)) = Len(p)
         /\ \A i \in 1 .. Len(p) : LinesIn(p)[i] = p[i].line
<1>1. \A i \in 1 .. Len(p) : p[i] \in S
  OBVIOUS
<1> QED
  BY <1>1 DEF LinesIn

\* ... with one message more at the end one line more at the end ...
LEMMA LinesInAppend ==
  ASSUME NEW S, NEW L, \A m \in S : m.line \in L, NEW p \in Seq(S), NEW m \in S
  PROVE  LinesIn(Append(p, m)) = LinesIn(p) \o <<m.line>>
<1> DEFINE q == Append(p, m)
           a == LinesIn(p)
           b == LinesIn(q)
<1>1. /\ q \in Seq(S) /\ Len(q) = Len(p) + 1 /\ Len(p) \in Nat /\ q[Len(p) + 1] = m
      /\ \A i \in 1 .. Len(p) : q[i] = p[i]
  OBVIOUS
<1> HIDE DEF q, a, b
<1>2. /\ a \in Seq(L) /\ Len(a) = Len(p) /\ \A i \in 1 .. Len(p) : a[i] = p[i].line
      /\ b \in Seq(L) /\ Len(b) = Len(q) /\ \A i \in 1 .. Len(q) : b[i] = q[i].line
  BY <1>1, LinesInSeq DEF a, b
<1>3. m.line \in L
  OBVIOUS
<1>4. Append(a, m.line) \in Seq(L) /\ Len(Append(a, m.line)) = Len(b)
  BY <1>1, <1>2, <1>3
<1>5. \A i \in 1 .. Len(b) : Append(a, m.line)[i] = b[i]
  BY <1>1, <1>2, <1>3
<1>6. Append(a, m.line) = b
  BY <1>2, <1>4, <1>5, SeqEqual, SMTT(30)
<1>7. Append(a, m.line) = a \o <<m.line>>
  BY <1>2, <1>3
<1> QED
  BY <1>6, <1>7 DEF a, b, q

\* ... and the line of the message at the head comes first.
LEMMA LinesInTail ==
  ASSUME NEW S, NEW L, \A m \in S : m.line \in L, NEW p \in Seq(S), p # <<>>
  PROVE  LinesIn(p) = <<Head(p).line>> \o LinesIn(Tail(p))
<1> DEFINE r == Tail(p)
           a == LinesIn(r)
           b == LinesIn(p)
           l == Head(p).line
<1>1. /\ r \in Seq(S) /\ Len(r) = Len(p) - 1 /\ Len(p) \in Nat \ {0} /\ Head(p) = p[1]
      /\ \A i \in 1 .. Len(r) : r[i] = p[i + 1]
  OBVIOUS
<1>2. l \in L
  BY <1>1
<1> HIDE DEF r, a, b
<1>3. /\ a \in Seq(L) /\ Len(a) = Len(r) /\ \A i \in 1 .. Len(r) : a[i] = r[i].line
      /\ b \in Seq(L) /\ Len(b) = Len(p) /\ \A i \in 1 .. Len(p) : b[i] = p[i].line
  BY <1>1, LinesInSeq DEF a, b
<1>4. b[1] = l
  BY <1>1, <1>3
<1> HIDE DEF l
<1>5. /\ b = <<Head(b)>> \o Tail(b) /\ Head(b) = b[1] /\ Tail(b) \in Seq(L)
      /\ Len(Tail(b)) = Len(a) /\ \A i \in 1 .. Len(a) : Tail(b)[i] = b[i + 1]
  BY <1>1, <1>3
<1>6. \A i \in 1 .. Len(a) : i + 1 \in 1 .. Len(p) /\ i \in 1 .. Len(r)
  BY <1>1, <1>3
<1>7. Tail(b) = a
  BY <1>1, <1>3, <1>5, <1>6, SeqEqual
<1> QED
  BY <1>4, <1>5, <1>7 DEF a, b, r, l
-----------------------------------------------------------------------------
(* The flow of one user *)

\* An element at the end of one sequence or at the beginning of the next.
LEMMA ConcatMoves ==
  ASSUME NEW V, NEW s \in Seq(V), NEW l \in V, NEW b \in Seq(V), NEW u \in Seq(V)
  PROVE  Append(s, l) \o (b \o u) = s \o ((<<l>> \o b) \o u)
<1> DEFINE h == <<l>>
           r == b \o u
<1>1. h \in Seq(V) /\ r \in Seq(V) /\ Append(s, l) = s \o h
  OBVIOUS
<1>2. (h \o b) \o u = h \o r
  BY <1>1, ConcatAssociative
<1> HIDE DEF h, r
<1>3. (s \o h) \o r = s \o (h \o r)
  BY <1>1, ConcatAssociative, SMTT(30)
<1> QED
  BY <1>1, <1>2, <1>3 DEF h, r

\* The pieces of a flow are sequences of commands.
LEMMA StreamPieces ==
  ASSUME NEW c, NEW t, Len(t) \in Nat, NEW p, Len(p) \in Nat
  PROVE  /\ Only(t, Numbered(c)) \in Seq(Numbered(c))
         /\ Only(p, NumberedSays(c)) \in Seq(NumberedSays(c))
         /\ LinesIn(Only(p, NumberedSays(c))) \in Seq(Numbered(c))
         /\ \A m \in NumberedSays(c) : m.line \in Numbered(c)
<1>1. \A m \in NumberedSays(c) : m.line \in Numbered(c)
  BY DEF NumberedSays, SaysOf, ServerCmd, Numbered, LinesOf
<1>2. Only(t, Numbered(c)) \in Seq(Numbered(c)) /\ Only(p, NumberedSays(c)) \in Seq(NumberedSays(c))
  BY OnlyInSeq
<1> QED
  BY <1>1, <1>2, LinesInSeq

\* A command that is sent takes the place of the one about to be sent; other messages make no
\* difference.
LEMMA StreamSent ==
  ASSUME NEW c, NEW t \in Seq(LinesOf(c)), NEW p \in Seq(Mine(c)), NEW m \in Mine(c),
         NEW u \in Seq(Numbered(c))
  PROVE  IF m \in NumberedSays(c)
         THEN Stream(c, t, Append(p, m), <<>>) = Stream(c, t, p, <<m.line>>)
         ELSE Stream(c, t, Append(p, m), u) = Stream(c, t, p, u)
<1> DEFINE N == NumberedSays(c)
           k == Only(p, N)
<1>1. Only(Append(p, m), N) = IF m \in N THEN Append(k, m) ELSE k
  BY OnlyAppend
<1>2. CASE m \in N
  <2>1. k \in Seq(N) /\ LinesIn(k) \in Seq(Numbered(c)) /\ \A x \in N : x.line \in Numbered(c)
    <3>1. Len(t) \in Nat /\ Len(p) \in Nat
      OBVIOUS
    <3> QED
      BY <3>1, StreamPieces
  <2> HIDE DEF k, N
  <2>2. LinesIn(Append(k, m)) = LinesIn(k) \o <<m.line>>
    BY <1>2, <2>1, LinesInAppend
  <2>3. LinesIn(k) \o <<m.line>> \in Seq(Numbered(c))
    BY <1>2, <2>1
  <2>4. (LinesIn(k) \o <<m.line>>) \o <<>> = LinesIn(k) \o <<m.line>>
    BY <2>3
  <2> QED
    BY <1>1, <1>2, <2>2, <2>4 DEF Stream, k, N
<1>3. CASE m \notin N
  BY <1>1, <1>3 DEF Stream
<1> QED
  BY <1>2, <1>3

\* Saying a line moves it inside the flow, and taking another message leaves the flow as it is.
LEMMA StreamSaid ==
  ASSUME NEW c, NEW t \in Seq(LinesOf(c)), NEW p \in Seq(Mine(c)), p # <<>>,
         NEW u \in Seq(Numbered(c))
  PROVE  /\ Head(p) \in SaysOf(c) =>
              Stream(c, Append(t, Head(p).line), Tail(p), u) = Stream(c, t, p, u)
         /\ Head(p) \notin SaysOf(c) => Stream(c, t, Tail(p), u) = Stream(c, t, p, u)
<1> DEFINE N == NumberedSays(c)
           k == Only(p, N)
           s == Only(t, Numbered(c))
           m == Head(p)
<1>1. /\ m \in N => k # <<>> /\ Head(k) = m /\ Only(Tail(p), N) = Tail(k)
      /\ m \notin N => Only(Tail(p), N) = k
  BY OnlyTail
<1>2. /\ s \in Seq(Numbered(c)) /\ k \in Seq(N) /\ LinesIn(k) \in Seq(Numbered(c))
      /\ \A x \in N : x.line \in Numbered(c)
  <2>1. Len(t) \in Nat /\ Len(p) \in Nat
    OBVIOUS
  <2> QED
    BY <2>1, StreamPieces
<1>3. Only(Append(t, m.line), Numbered(c)) = IF m.line \in Numbered(c) THEN Append(s, m.line) ELSE s
  <2> DEFINE l == m.line
  <2> HIDE DEF l, m
  <2>1. Only(Append(t, l), Numbered(c)) = IF l \in Numbered(c) THEN Append(s, l) ELSE s
    BY OnlyAppend
  <2> QED
    BY <2>1 DEF l
<1>4. m \in SaysOf(c) => (m \in N <=> m.line \in Numbered(c))
  BY DEF NumberedSays, SaysOf, ServerCmd, Numbered, LinesOf
<1>5. CASE m \in SaysOf(c) /\ m \in N
  <2> DEFINE l == m.line
             b == LinesIn(Tail(k))
  <2>1. l \in Numbered(c)
    BY <1>4, <1>5
  <2>2. b \in Seq(Numbered(c))
    <3>1. Tail(k) \in Seq(N)
      BY <1>1, <1>2, <1>5
    <3> HIDE DEF k, N
    <3> QED
      BY <1>2, <3>1, LinesInSeq
  <2>3. LinesIn(k) = <<l>> \o b
    <3> HIDE DEF k, N, m
    <3> QED
      BY <1>1, <1>2, <1>5, LinesInTail
  <2>4. Stream(c, Append(t, l), Tail(p), u) = Append(s, l) \o (b \o u)
    BY <1>1, <1>3, <1>4, <1>5 DEF Stream
  <2>5. Stream(c, t, p, u) = s \o ((<<l>> \o b) \o u)
    BY <2>3 DEF Stream
  <2> HIDE DEF l, b, s, k, N, m
  <2>6. Append(s, l) \o (b \o u) = s \o ((<<l>> \o b) \o u)
    <3> DEFINE C == Numbered(c)
    <3>1. s \in Seq(C) /\ l \in C /\ b \in Seq(C) /\ u \in Seq(C)
      BY <1>2, <2>1, <2>2
    <3> HIDE DEF C
    <3> QED
      BY ONLY <3>1, ConcatMoves, SMTT(30)
  <2> QED
    BY <1>5, <2>4, <2>5, <2>6 DEF l, m
<1>6. CASE m \in SaysOf(c) /\ m \notin N
  BY <1>1, <1>3, <1>4, <1>6 DEF Stream
<1>7. CASE m \notin SaysOf(c)
  <2>1. m \notin N
    BY <1>7 DEF NumberedSays
  <2> QED
    BY <1>1, <1>7, <2>1 DEF Stream
<1> QED
  BY <1>5, <1>6, <1>7

\* A command that is read comes last in the flow.
LEMMA StreamRead ==
  ASSUME NEW c, NEW t \in Seq(LinesOf(c)), NEW p \in Seq(Mine(c)), NEW l \in Numbered(c)
  PROVE  Stream(c, t, p, <<l>>) = Append(Stream(c, t, p, <<>>), l)
<1> DEFINE s == Only(t, Numbered(c))
           b == LinesIn(Only(p, NumberedSays(c)))
<1>1. s \in Seq(Numbered(c)) /\ b \in Seq(Numbered(c))
  BY StreamPieces
<1> HIDE DEF s, b
<1>2. b \o <<>> = b /\ b \o <<l>> = Append(b, l)
  BY <1>1
<1>3. s \o Append(b, l) = Append(s \o b, l)
  BY <1>1, ConcatAppend
<1> QED
  BY <1>2, <1>3 DEF Stream, s, b

\* The numbers of commands are numbers.
LEMMA NumberedNat ==
  ASSUME NEW c, NEW l \in Numbered(c)
  PROVE  l.no \in Nat
BY BoundsAssumption DEF Numbered, LinesOf, Lines

\* A command read now comes after those read before it, and links up with them if none was lost.
LEMMA ChainedRead ==
  ASSUME NEW c, NEW n \in Nat, NEW f, Chained(c, f, n), NEW l \in Numbered(c),
         \A i \in 1 .. Len(f) : f[i].no < l.no,
         Len(f) + 1 < n => l.no = Len(f) + 1 /\ l.was = NameAfter(f)
  PROVE  /\ Chained(c, Append(f, l), n) /\ NameAfter(Append(f, l)) = l.now
         /\ Len(Append(f, l)) = Len(f) + 1
         /\ \A i \in 1 .. Len(f) + 1 : Append(f, l)[i] = IF i = Len(f) + 1 THEN l ELSE f[i]
<1> DEFINE g == Append(f, l)
<1>1. /\ f \in Seq(Numbered(c)) /\ Len(f) \in Nat
      /\ g \in Seq(Numbered(c)) /\ Len(g) = Len(f) + 1 /\ g[Len(g)] = l
      /\ \A i \in 1 .. Len(f) : g[i] = f[i]
  BY DEF Chained
<1>2. f = <<>> <=> Len(f) = 0
  BY <1>1
<1>3. g # <<>>
  BY <1>1
<1> HIDE DEF g
<1>4. ASSUME NEW i \in 1 .. Len(g)
      PROVE  /\ i > 1 => g[i].no > g[i - 1].no
             /\ i < n => g[i].no = i /\ g[i].was = IF i = 1 THEN NoName ELSE g[i - 1].now
  <2>1. CASE i = Len(g)
    <3>1. i # 1 => i - 1 = Len(f) /\ Len(f) \in 1 .. Len(f)
      BY <1>1, <2>1
    <3>2. i # 1 => g[i - 1] = f[Len(f)] /\ f[Len(f)].no < l.no
      BY <1>1, <3>1
    <3>3. i = 1 <=> f = <<>>
      BY <1>1, <1>2, <2>1
    <3>4. i > 1 => g[i].no > g[i - 1].no
      <4>1. ASSUME i > 1 PROVE g[i].no > g[i - 1].no
        <5>1. g[i - 1] = f[Len(f)] /\ f[Len(f)].no < l.no /\ g[i] = l
          BY <1>1, <2>1, <3>2, <4>1
        <5>2. Len(f) \in 1 .. Len(f)
          BY <1>1, <2>1, <3>1, <4>1
        <5>3. f[Len(f)].no \in Nat /\ l.no \in Nat
          BY <1>1, <5>2, NumberedNat
        <5> QED
          BY <5>1, <5>3
      <4> QED
        BY <4>1
    <3>5. i < n => g[i].no = i /\ g[i].was = IF i = 1 THEN NoName ELSE g[i - 1].now
      BY <1>1, <2>1, <3>2, <3>3 DEF NameAfter, Last
    <3> QED
      BY <3>4, <3>5
  <2>2. CASE i # Len(g)
    <3>1. i \in 1 .. Len(f) /\ (i # 1 => i - 1 \in 1 .. Len(f))
      BY <1>1, <2>2
    <3>2. g[i] = f[i] /\ (i # 1 => g[i - 1] = f[i - 1])
      BY <1>1, <3>1
    <3> QED
      BY <3>1, <3>2 DEF Chained
  <2> QED
    BY <2>1, <2>2
<1>5. NameAfter(g) = l.now
  BY <1>1, <1>3 DEF NameAfter, Last
<1>6. \A i \in 1 .. Len(f) + 1 : g[i] = IF i = Len(f) + 1 THEN l ELSE f[i]
  BY <1>1
<1> QED
  BY <1>1, <1>4, <1>5, <1>6 DEF Chained, g

\* Earlier claims hold for fewer commands.
LEMMA ChainedLess ==
  ASSUME NEW c, NEW n \in Nat, NEW k \in Nat, k <= n, NEW f, Chained(c, f, n)
  PROVE  Chained(c, f, k)
<1>1. f \in Seq(Numbered(c))
  BY DEF Chained
<1>2. ASSUME NEW i \in 1 .. Len(f), i < k PROVE i < n
  BY <1>1, <1>2
<1> QED
  BY <1>2 DEF Chained
-----------------------------------------------------------------------------
(* The steps of both servers, as far as the invariant tells them apart *)

Rest == UNCHANGED <<framingVars, writerVars, kind>>

NobodyLeft == cur' = Nobody /\ cursor' = 0 /\ from' \in 0 .. LineLength - 1

MoveWrite(c) ==
  Write(c) /\ Rest /\ c \notin InParts /\ Cardinality(InParts) + SumFunction(sent) < MaxSends

MoveRead(c) == (ReadName(c) \/ ReadMessage(c)) /\ ~astray[c] /\ Rest

MoveFails(c) ==
  SendFails(c) /\ cur \in {Nobody, c} /\ NobodyLeft /\ UNCHANGED <<framingVars, resumed, kind>>

\* A line counts as sent, and unless it was written in pieces the user was sent it.
MoveSent(c) ==
  /\ bpc = "notify" /\ c \in todo
  /\ cur \in {Nobody, c} /\ NobodyLeft
  /\ resumed' = [resumed EXCEPT ![c] = @ \/ cur = c]
  /\ \/ /\ sock[c] = "open" /\ unread[c] < Room
        /\ \E s \in {got[c], Append(got[c], line)} :
             got' = [got EXCEPT ![c] = s] /\ (~resumed'[c] => s = Append(got[c], line))
        /\ unread' = [unread EXCEPT ![c] = @ + 1]
     \/ sock[c] # "open" /\ UNCHANGED socketVars
  /\ Done(c)
  /\ UNCHANGED <<queue, cut, framingVars, kind>>

MoveUser(c) ==
  \/ (Accept(c) \/ Read(c) \/ Close(c)) /\ Rest
  \/ MoveWrite(c)
  \/ (WritePart(c) \/ ArriveRest(c)) /\ UNCHANGED kind

MoveReader(c) ==
  \/ MoveRead(c)
  \/ (Announce(c) \/ ReaderEnds(c)) /\ Rest
  \/ /\ PollPart(c) \/ DropsAll(c) \/ ReadAstray(c) \/ ReadPanics(c) \/ ReaderFails(c)
     /\ UNCHANGED kind

MoveBroker ==
  \/ (Notify \/ Spawn \/ Insert \/ DropClient) /\ Rest
  \/ \E c \in Users : \/ MoveSent(c) \/ MoveFails(c)
                      \/ (SendPart(c) \/ SendPanics(c) \/ SendWaits(c)) /\ UNCHANGED kind

\* In the server with threads nothing has been written in part.
LEMMA NoParts ==
  ASSUME AsyncTypeOK, Plain, kind = "threads"
  PROVE  InParts = {} /\ Cardinality(InParts) = 0 /\ cur = Nobody /\ cursor = 0
<1>1. InParts = {} /\ cur = Nobody
  BY DEF Plain, InParts
<1>2. Cardinality(InParts) = 0
  BY <1>1, FS_EmptySet
<1>3. cursor = 0
  BY <1>1 DEF AsyncTypeOK
<1> QED
  BY <1>1, <1>2, <1>3

\* A sum of naturals, one of them, and one of them increased.
LEMMA SentSum ==
  ASSUME sent \in [Users -> Nat], NEW c \in Users
  PROVE  /\ SumFunction(sent) \in Nat /\ sent[c] <= SumFunction(sent)
         /\ SumFunction([sent EXCEPT ![c] = @ + 1]) = SumFunction(sent) + 1
<1> DEFINE more == [sent EXCEPT ![c] = @ + 1]
           rest == SumFunctionOnSet(sent, Users \ {c})
<1>1. DOMAIN sent = Users /\ DOMAIN more = Users
  OBVIOUS
<1>2. IsFiniteSet(Users) /\ IsFiniteSet(Users \ {c})
  BY BoundsAssumption, FS_RemoveElement
<1>3. more \in [Users -> Nat] /\ more[c] = sent[c] + 1 /\ \A d \in Users \ {c} : more[d] = sent[d]
  OBVIOUS
<1>4. (\A d \in Users : sent[d] \in Nat) /\ \A d \in Users : more[d] \in Nat
  BY <1>3
<1> HIDE DEF more, rest
<1>5. SumFunction(sent) = sent[c] + rest /\ rest \in Nat
  BY <1>1, <1>2, <1>4, SumTerm DEF SumFunction, rest
<1>6. SumFunction(more) = more[c] + SumFunctionOnSet(more, Users \ {c})
  BY <1>1, <1>2, <1>4, SumTerm DEF SumFunction
<1>7. SumFunctionOnSet(more, Users \ {c}) = rest
  BY <1>2, <1>3, <1>4, SumSame DEF rest
<1> QED
  BY <1>3, <1>4, <1>5, <1>6, <1>7 DEF more

\* Every step is one of these moves.
LEMMA Moves ==
  ASSUME Safe, ChatNext
  PROVE  MoveBroker \/ \E c \in Users : MoveUser(c) \/ MoveReader(c)
<1> USE DEF Rest
<1>1. AsyncTypeOK /\ Plain
  BY DEF Safe
<1>2. sent \in [Users -> Nat]
  BY <1>1 DEF AsyncTypeOK, TypeOK
<1>3. CASE kind = "threads"
  <2>1. InParts = {} /\ Cardinality(InParts) = 0 /\ cur = Nobody /\ cursor = 0
    BY <1>1, <1>3, NoParts
  <2>2. from \in 0 .. LineLength - 1 /\ resumed \in [Users -> BOOLEAN]
    BY <1>1 DEF AsyncTypeOK
  <2>3. CASE BrokerStep
    <3>1. Whole(Broker) /\ UNCHANGED kind
      BY <1>3, <2>3 DEF BrokerStep
    <3>2. CASE Notify \/ Spawn \/ Insert \/ DropClient
      BY <3>1, <3>2 DEF MoveBroker, Whole
    <3>3. ASSUME NEW c \in Users, SendLine(c) PROVE MoveSent(c)
      <4>1. cur # c
        BY <2>1, BoundsAssumption DEF Nobody
      <4>2. resumed' = [resumed EXCEPT ![c] = @ \/ cur = c]
        BY <2>2, <3>1, <4>1 DEF Whole, writerVars
      <4>3. cur \in {Nobody, c} /\ NobodyLeft
        BY <2>1, <2>2, <3>1 DEF Whole, writerVars, NobodyLeft
      <4>4. Done(c) /\ UNCHANGED <<queue, cut, framingVars, kind>> /\ bpc = "notify" /\ c \in todo
        BY <3>1, <3>3 DEF SendLine, Whole
      <4> QED
        BY <3>3, <4>2, <4>3, <4>4 DEF SendLine, MoveSent
    <3>4. ASSUME NEW c \in Users, SendFails(c) PROVE MoveFails(c)
      BY <2>1, <2>2, <3>1, <3>4 DEF MoveFails, NobodyLeft, Whole, writerVars
    <3> QED
      BY <3>1, <3>2, <3>3, <3>4 DEF Broker, Whole, MoveBroker
  <2>4. ASSUME NEW c \in Users, UserStep(c) PROVE MoveUser(c)
    <3>1. Whole(User(c)) /\ UNCHANGED kind
      BY <1>3, <2>4 DEF UserStep
    <3>2. ASSUME Write(c) PROVE MoveWrite(c)
      <4>1. SumFunction(sent) < MaxSends /\ SumFunction(sent) \in Nat
        BY <1>2, <3>2, SentSum DEF Write
      <4>2. Cardinality(InParts) + SumFunction(sent) < MaxSends
        BY <2>1, <4>1
      <4> QED
        BY <2>1, <3>1, <3>2, <4>2 DEF MoveWrite, Whole
    <3> QED
      BY <3>1, <3>2 DEF User, Whole, MoveUser
  <2>5. ASSUME NEW c \in Users, ReaderStep(c) PROVE MoveReader(c)
    <3>1. Whole(Reader(c)) /\ UNCHANGED kind
      BY <1>3, <2>5 DEF ReaderStep
    <3>2. ~astray[c]
      BY <1>1, <1>3 DEF Plain
    <3> QED
      BY <3>1, <3>2 DEF Reader, Whole, MoveReader, MoveRead
  <2> QED
    BY <2>3, <2>4, <2>5 DEF ChatNext
<1>4. CASE kind = "tasks"
  <2>1. LineLength \in Nat \ {0}
    BY LineAssumption
  <2>2. CASE BrokerStep
    <3>1. AsyncBroker /\ UNCHANGED kind
      BY <1>4, <2>2 DEF BrokerStep
    <3>2. CASE (Notify \/ Spawn \/ Insert \/ DropClient) /\ UNCHANGED <<framingVars, writerVars>>
      BY <3>1, <3>2 DEF MoveBroker
    <3>3. ASSUME NEW c \in Users, SendRest(c) PROVE MoveSent(c)
      <4>1. PICK n \in 1 .. LineLength : Takes(c, n)
        BY <3>3 DEF SendRest
      <4>2. /\ bpc = "notify" /\ c \in todo /\ cur \in {Nobody, c}
            /\ resumed' = [resumed EXCEPT ![c] = @ \/ cur = c]
            /\ sock[c] = "open" => unread[c] < Room
        BY <4>1 DEF Takes
      <4>3. NobodyLeft /\ Done(c) /\ UNCHANGED <<queue, cut, framingVars, kind>>
        BY <2>1, <3>1, <3>3 DEF SendRest, NoLineLeft, NobodyLeft
      <4>4. CASE sock[c] = "open"
        <5> DEFINE s == IF resumed'[c] THEN got[c] ELSE Append(got[c], line)
        <5>1. got' = [got EXCEPT ![c] = s] /\ unread' = [unread EXCEPT ![c] = @ + 1]
          BY <3>3, <4>4 DEF SendRest
        <5>2. s \in {got[c], Append(got[c], line)} /\ (~resumed'[c] => s = Append(got[c], line))
          OBVIOUS
        <5> HIDE DEF s
        <5> QED
          BY <4>2, <4>3, <4>4, <5>1, <5>2 DEF MoveSent
      <4>5. CASE sock[c] # "open"
        BY <3>3, <4>2, <4>3, <4>5 DEF SendRest, MoveSent
      <4> QED
        BY <4>4, <4>5
    <3>4. ASSUME NEW c \in Users, AsyncSendFails(c) PROVE MoveFails(c)
      BY <2>1, <3>1, <3>4 DEF AsyncSendFails, MoveFails, NoLineLeft, NobodyLeft
    <3> QED
      BY <3>1, <3>2, <3>3, <3>4 DEF AsyncBroker, MoveBroker
  <2>3. ASSUME NEW c \in Users, UserStep(c) PROVE MoveUser(c)
    BY <1>4, <2>3 DEF UserStep, AsyncUser, WriteWhole, MoveUser, MoveWrite
  <2>4. ASSUME NEW c \in Users, ReaderStep(c) PROVE MoveReader(c)
    BY <1>4, <2>4 DEF ReaderStep, AsyncReader, AsyncRead, AsyncAnnounce, MoveReader, MoveRead
  <2> QED
    BY <2>2, <2>3, <2>4 DEF ChatNext
<1> QED
  BY <1>3, <1>4 DEF Safe
-----------------------------------------------------------------------------
(* Types *)

\* What goes through the queue is a command of the server.
LEMMA Messages ==
  /\ \A l \in Lines : Say(l) \in ServerCmd
  /\ \A c \in Users : Connecting(c) \in ServerCmd /\ Disconnect(c) \in ServerCmd
  /\ \A m \in ServerCmd : m.cmd = "say" => m.line \in Lines
  /\ \A m \in ServerCmd : m.cmd # "say" => m.of \in Users
BY DEF Say, Connecting, Disconnect, ServerCmd

\* What is counted of a user.
LEMMA Counts ==
  ASSUME AsyncTypeOK, NEW c \in Users
  PROVE  /\ MaxSends \in Nat /\ sent[c] \in Nat /\ lost[c] \in 1 .. MaxSends + 1 /\ lost[c] \in Nat
         /\ inbox[c] \in Seq(Names \cup {Message}) /\ Len(inbox[c]) \in Nat
<1>1. /\ MaxSends \in Nat /\ sent \in [Users -> 0 .. MaxSends] /\ lost \in [Users -> 1 .. MaxSends + 1]
      /\ inbox \in [Users -> Seq(Names \cup {Message})]
  BY BoundsAssumption DEF AsyncTypeOK, TypeOK
<1>2. sent[c] \in 0 .. MaxSends /\ lost[c] \in 1 .. MaxSends + 1
  BY <1>1
<1> QED
  BY <1>1, <1>2

\* The command at the head of the inbox has a number within the bound, and is the next of the flow
\* as far as none was lost.
LEMMA NextNumber ==
  ASSUME Safe, NEW c \in Users, inbox[c] # <<>>
  PROVE  /\ Number(c) \in 1 .. MaxSends
         /\ Intact(c) \/ Len(Flow(c)) + 1 < lost[c] => Intact(c) /\ Number(c) = Len(Flow(c)) + 1
         /\ Head(inbox[c]) \in Names \cup {Message} /\ Tail(inbox[c]) \in Seq(Names \cup {Message})
<1>1. Len(inbox[c]) <= sent[c] /\ Len(Flow(c)) \in Nat
  BY DEF Safe, Told, Counted, Chained
<1>2. /\ sent[c] \in 0 .. MaxSends /\ inbox[c] \in Seq(Names \cup {Message}) /\ MaxSends \in Nat
      /\ lost[c] \in 1 .. MaxSends + 1
  BY BoundsAssumption DEF Safe, AsyncTypeOK, TypeOK
<1>3. Len(inbox[c]) \in Nat \ {0}
  BY <1>2
<1>4. Number(c) \in 1 .. MaxSends
  BY <1>1, <1>2, <1>3 DEF Number
<1>5. Intact(c) \/ Len(Flow(c)) + 1 < lost[c] => Intact(c)
  <2>1. ~Intact(c) => Len(Flow(c)) + 1 >= lost[c]
    BY DEF Safe, Told
  <2> QED
    BY <1>1, <1>2, <2>1
<1>6. Intact(c) => Number(c) = Len(Flow(c)) + 1
  <2>1. Intact(c) => Len(Flow(c)) = sent[c] - Len(inbox[c])
    BY DEF Safe, Told
  <2> QED
    BY <1>1, <1>2, <1>3, <2>1 DEF Number
<1> QED
  BY <1>2, <1>4, <1>5, <1>6

\* The lines the readers and the broker make.
LEMMA LineTypes ==
  ASSUME NEW c \in Users, NEW k \in {"announcement", "broadcast", "left"},
         NEW n \in 0 .. MaxSends, NEW was \in Names \cup {NoName, Garbled},
         NEW now \in Names \cup {NoName, Garbled}
  PROVE  [kind |-> k, of |-> c, no |-> n, was |-> was, now |-> now] \in Lines
BY DEF Lines

\* The types after a step of a user: what it writes stays within the bound.
LEMMA UserTypes ==
  ASSUME Safe, NEW c \in Users, MoveUser(c)
  PROVE  AsyncTypeOK'
<1> USE DEF Rest, userVars, socketVars, readerVars, brokerVars, framingVars, writerVars, Intact
<1>1. AsyncTypeOK
  BY DEF Safe
<1>2. /\ MaxSends \in Nat /\ Room \in Nat \ {0} /\ sent \in [Users -> 0 .. MaxSends]
      /\ unread \in [Users -> 0 .. Room]
  BY <1>1, BoundsAssumption DEF AsyncTypeOK, TypeOK
<1>3. /\ SumFunction(sent) \in Nat /\ sent[c] <= SumFunction(sent) /\ sent[c] \in Nat
  <2>1. sent \in [Users -> Nat]
    BY <1>2
  <2> QED
    BY <2>1, SentSum
<1>4. CASE Accept(c) /\ Rest
  <2>1. Connecting(c) \in ServerCmd
    BY Messages
  <2>2. queue \in Seq(ServerCmd)
    BY <1>1 DEF AsyncTypeOK, TypeOK
  <2>3. /\ queue' \in Seq(ServerCmd) /\ (queue # <<>> => queue' # <<>> /\ Head(queue') = Head(queue))
    BY <1>4, <2>1, <2>2 DEF Accept
  <2> QED
    BY <1>1, <1>4, <2>3 DEF Accept, AsyncTypeOK, TypeOK
<1>5. CASE MoveWrite(c)
  <2>1. sent[c] + 1 \in 0 .. MaxSends
    <3>1. Cardinality(InParts) \in Nat
      BY FS_Subset, FS_CardinalityType, BoundsAssumption DEF InParts
    <3> QED
      BY <1>2, <1>3, <1>5, <3>1 DEF MoveWrite
  <2>2. sent' \in [Users -> 0 .. MaxSends]
    BY <1>2, <1>5, <2>1 DEF MoveWrite, Write
  <2>3. inbox' \in [Users -> Seq(Names \cup {Message})]
    <3>1. PICK command \in Names \cup {Message} :
                 inbox' = [inbox EXCEPT ![c] = Append(@, command)]
      BY <1>5 DEF MoveWrite, Write
    <3>2. inbox \in [Users -> Seq(Names \cup {Message})]
      BY <1>1 DEF AsyncTypeOK, TypeOK
    <3>3. Append(inbox[c], command) \in Seq(Names \cup {Message})
      BY <3>2
    <3> QED
      BY <3>1, <3>2, <3>3
  <2> QED
    BY <1>1, <1>5, <2>2, <2>3 DEF MoveWrite, Write, AsyncTypeOK, TypeOK
<1>6. CASE WritePart(c)
  <2>1. part' \in [Users -> Names \cup {Message, NoName}]
    <3>1. PICK command \in Names \cup {Message} : part' = [part EXCEPT ![c] = command]
      BY <1>6, LineAssumption DEF WritePart
    <3> QED
      BY <1>1, <3>1 DEF AsyncTypeOK
  <2> QED
    BY <1>1, <1>6, <2>1 DEF WritePart, AsyncTypeOK, TypeOK, vars
<1>7. CASE ArriveRest(c)
  <2>1. sent[c] + 1 \in 0 .. MaxSends
    <3>1. c \in InParts /\ IsFiniteSet(InParts)
      BY <1>7, FS_Subset, BoundsAssumption DEF ArriveRest, InParts
    <3>2. Cardinality(InParts) \in Nat /\ Cardinality(InParts) # 0
      BY <3>1, FS_EmptySet, FS_CardinalityType
    <3> QED
      BY <1>2, <1>3, <3>2 DEF Safe, Within
  <2>2. sent' \in [Users -> 0 .. MaxSends]
    BY <1>2, <1>7, <2>1 DEF ArriveRest
  <2>3. inbox' \in [Users -> Seq(Names \cup {Message})]
    <3>1. inbox \in [Users -> Seq(Names \cup {Message})] /\ part[c] \in Names \cup {Message}
      BY <1>1, <1>7 DEF AsyncTypeOK, TypeOK, ArriveRest, InParts
    <3>2. Append(inbox[c], part[c]) \in Seq(Names \cup {Message})
      BY <3>1
    <3> QED
      BY <1>7, <3>1, <3>2 DEF ArriveRest
  <2>4. part' \in [Users -> Names \cup {Message, NoName}]
    BY <1>1, <1>7 DEF ArriveRest, AsyncTypeOK
  <2> QED
    BY <1>1, <1>7, <2>2, <2>3, <2>4 DEF ArriveRest, AsyncTypeOK, TypeOK
<1>8. CASE Read(c) /\ Rest
  <2>1. unread' \in [Users -> 0 .. Room]
    BY <1>2, <1>8 DEF Read
  <2> QED
    BY <1>1, <1>8, <2>1 DEF Read, AsyncTypeOK, TypeOK
<1>9. CASE Close(c) /\ Rest
  <2>1. unread' \in [Users -> 0 .. Room]
    BY <1>2, <1>9 DEF Close
  <2> QED
    BY <1>1, <1>9, <2>1 DEF Close, AsyncTypeOK, TypeOK
<1> QED
  BY <1>4, <1>5, <1>6, <1>7, <1>8, <1>9 DEF MoveUser

\* The types after a step of a reader: the numbers of its lines stay within the bound.
LEMMA ReaderTypes ==
  ASSUME Safe, NEW c \in Users, MoveReader(c)
  PROVE  AsyncTypeOK'
<1> USE DEF Rest, userVars, socketVars, readerVars, brokerVars, framingVars, writerVars, Intact
<1>1. AsyncTypeOK
  BY DEF Safe
<1>2. /\ queue \in Seq(ServerCmd) /\ inbox \in [Users -> Seq(Names \cup {Message})]
      /\ name \in [Users -> Names \cup {NoName, Garbled}] /\ note \in [Users -> Lines \cup {NoLine}]
  BY <1>1 DEF AsyncTypeOK, TypeOK
<1>3. ASSUME NEW m \in ServerCmd, queue' = Append(queue, m)
      PROVE  /\ queue' \in Seq(ServerCmd)
             /\ queue # <<>> => queue' # <<>> /\ Head(queue') = Head(queue)
  BY <1>2, <1>3
<1>4. NoLine \notin Lines
  BY DEF NoLine, Lines
<1>5. inbox' = [inbox EXCEPT ![c] = <<>>] => inbox' \in [Users -> Seq(Names \cup {Message})]
  BY <1>2
<1>6. CASE ReadName(c) /\ ~astray[c] /\ Rest
  <2> DEFINE l == [kind |-> "announcement", of |-> c, no |-> Number(c),
                   was |-> name[c], now |-> Head(inbox[c])]
  <2>1. inbox[c] # <<>> /\ Head(inbox[c]) \in Names
    BY <1>6 DEF ReadName
  <2>2. Number(c) \in 1 .. MaxSends /\ Tail(inbox[c]) \in Seq(Names \cup {Message})
    BY <1>6, <2>1, NextNumber
  <2>3. l \in Lines
    <3>1. Number(c) \in 0 .. MaxSends
      BY <2>2, BoundsAssumption
    <3> QED
      BY <1>2, <2>1, <3>1, LineTypes
  <2>4. note' = [note EXCEPT ![c] = l]
    BY <1>6 DEF ReadName
  <2> HIDE DEF l
  <2>5. inbox' \in [Users -> Seq(Names \cup {Message})]
    BY <1>2, <1>6, <2>2 DEF ReadName
  <2>6. name' \in [Users -> Names \cup {NoName, Garbled}]
    BY <1>2, <1>6, <2>1 DEF ReadName
  <2>7. note' \in [Users -> Lines \cup {NoLine}] /\ note'[c] # NoLine
    BY <1>2, <1>4, <2>3, <2>4
  <2> QED
    BY <1>1, <1>6, <2>4, <2>5, <2>6, <2>7 DEF ReadName, AsyncTypeOK, TypeOK
<1>7. CASE Announce(c) /\ Rest
  <2>1. note[c] \in Lines
    BY <1>1, <1>7 DEF Announce, AsyncTypeOK, TypeOK
  <2>2. Say(note[c]) \in ServerCmd
    BY <2>1, Messages
  <2>3. queue' = Append(queue, Say(note[c]))
    BY <1>7 DEF Announce
  <2>4. /\ queue' \in Seq(ServerCmd)
        /\ queue # <<>> => queue' # <<>> /\ Head(queue') = Head(queue)
    BY <1>3, <2>2, <2>3
  <2> QED
    BY <1>1, <1>7, <2>4 DEF Announce, AsyncTypeOK, TypeOK
<1>8. CASE ReadMessage(c) /\ ~astray[c] /\ Rest
  <2> DEFINE l == [kind |-> "broadcast", of |-> c, no |-> Number(c), was |-> name[c], now |-> name[c]]
  <2>1. inbox[c] # <<>>
    BY <1>8 DEF ReadMessage
  <2>2. Number(c) \in 1 .. MaxSends /\ Tail(inbox[c]) \in Seq(Names \cup {Message})
    BY <1>8, <2>1, NextNumber
  <2>3. l \in Lines
    <3>1. Number(c) \in 0 .. MaxSends
      BY <2>2, BoundsAssumption
    <3> QED
      BY <1>2, <3>1, LineTypes
  <2>4. queue' = Append(queue, Say(l))
    BY <1>8 DEF ReadMessage
  <2> HIDE DEF l
  <2>5. /\ queue' \in Seq(ServerCmd)
        /\ queue # <<>> => queue' # <<>> /\ Head(queue') = Head(queue)
    BY <1>3, <2>3, <2>4, Messages
  <2>6. inbox' \in [Users -> Seq(Names \cup {Message})]
    BY <1>2, <1>8, <2>2 DEF ReadMessage
  <2> QED
    BY <1>1, <1>8, <2>5, <2>6 DEF ReadMessage, AsyncTypeOK, TypeOK
<1>9. CASE ReaderEnds(c) /\ Rest
  <2>1. queue' = Append(queue, Disconnect(c))
    BY <1>9 DEF ReaderEnds
  <2>2. /\ queue' \in Seq(ServerCmd)
        /\ queue # <<>> => queue' # <<>> /\ Head(queue') = Head(queue)
    BY <1>3, <2>1, Messages
  <2> QED
    BY <1>1, <1>9, <2>2 DEF ReaderEnds, AsyncTypeOK, TypeOK
<1>10. CASE PollPart(c)
  <2>1. sent[c] + 1 \in 1 .. MaxSends
    <3>1. c \in InParts /\ IsFiniteSet(InParts)
      BY <1>10, FS_Subset, BoundsAssumption DEF PollPart, InParts
    <3>2. Cardinality(InParts) \in Nat /\ Cardinality(InParts) # 0
      BY <3>1, FS_EmptySet, FS_CardinalityType
    <3>3. sent \in [Users -> Nat] /\ MaxSends \in Nat /\ sent[c] \in Nat
      BY <1>1, BoundsAssumption DEF AsyncTypeOK, TypeOK
    <3>4. SumFunction(sent) \in Nat /\ sent[c] <= SumFunction(sent)
      BY <3>3, SentSum
    <3> QED
      BY <3>2, <3>3, <3>4 DEF Safe, Within
  <2>2. MaxSends \in Nat /\ lost \in [Users -> 1 .. MaxSends + 1] /\ astray \in [Users -> BOOLEAN]
    BY <1>1, BoundsAssumption DEF AsyncTypeOK
  <2>3. /\ lost' \in [Users -> 1 .. MaxSends + 1] /\ astray' \in [Users -> BOOLEAN]
        /\ lost'[c] <= MaxSends /\ \A d \in Users : d # c => lost'[d] = lost[d] /\ astray'[d] = astray[d]
    BY <1>10, <2>1, <2>2 DEF PollPart, Intact
  <2>4. \A d \in Users : astray'[d] => ~(lost'[d] > MaxSends)
    <3>1. \A d \in Users : astray[d] => ~(lost[d] > MaxSends)
      BY <1>1 DEF AsyncTypeOK, Intact
    <3>2. ~(lost'[c] > MaxSends)
      BY <2>2, <2>3
    <3> QED
      BY <2>3, <3>1, <3>2
  <2> QED
    BY <1>1, <1>10, <2>3, <2>4 DEF PollPart, AsyncTypeOK, TypeOK, vars, Intact
<1>11. CASE DropsAll(c) \/ ReadAstray(c)
  <2>1. astray' \in [Users -> BOOLEAN] /\ \A d \in Users : astray'[d] => ~Intact(d)
    <3>1. \A d \in Users : astray[d] => ~Intact(d)
      BY <1>1 DEF AsyncTypeOK
    <3>2. PICK b \in BOOLEAN : astray' = [astray EXCEPT ![c] = b]
      <4>1. CASE DropsAll(c)
        <5> DEFINE b == c \in InParts
        <5>1. astray' = [astray EXCEPT ![c] = b] /\ b \in BOOLEAN
          BY <4>1 DEF DropsAll
        <5> HIDE DEF b
        <5> QED
          BY <5>1
      <4>2. CASE ReadAstray(c)
        BY <4>2 DEF ReadAstray
      <4> QED
        BY <1>11, <4>1, <4>2
    <3>3. astray[c] /\ astray \in [Users -> BOOLEAN]
      BY <1>1, <1>11 DEF DropsAll, ReadAstray, AsyncTypeOK
    <3> QED
      BY <3>1, <3>2, <3>3
  <2>2. UNCHANGED lost
    BY <1>11 DEF DropsAll, ReadAstray
  <2>3. inbox' \in [Users -> Seq(Names \cup {Message})]
    <3>1. CASE DropsAll(c)
      BY <1>5, <3>1 DEF DropsAll
    <3>2. CASE ReadAstray(c)
      <4>1. PICK k \in 0 .. Len(inbox[c]) :
                   inbox' = [inbox EXCEPT ![c] = SubSeq(@, k + 1, Len(@))]
        BY <3>2 DEF ReadAstray
      <4>2. SubSeq(inbox[c], k + 1, Len(inbox[c])) \in Seq(Names \cup {Message})
        BY <1>2
      <4> QED
        BY <1>2, <4>1, <4>2
    <3> QED
      BY <1>11, <3>1, <3>2
  <2>4. CASE DropsAll(c)
    BY <1>1, <2>1, <2>2, <2>3, <2>4 DEF DropsAll, AsyncTypeOK, TypeOK, Intact
  <2>5. CASE ReadAstray(c)
    <3>1. ASSUME NEW k \in {"announcement", "broadcast"}, NEW now \in Names \cup {NoName, Garbled}
          PROVE  Garbage(k, c, now) \in Lines
      <4>1. 0 \in 0 .. MaxSends
        BY BoundsAssumption
      <4> QED
        BY <1>2, <4>1, LineTypes DEF Garbage
    <3>2. CASE UNCHANGED queue
      <4> DEFINE l == Garbage("announcement", c, Garbled)
      <4>1. l \in Lines
        BY <3>1
      <4>2. UNCHANGED readerVars \/ (/\ name' = [name EXCEPT ![c] = Garbled]
                                    /\ note' = [note EXCEPT ![c] = l]
                                    /\ rpc' = [rpc EXCEPT ![c] = "announce"])
        BY <2>5 DEF ReadAstray
      <4> HIDE DEF l
      <4>3. CASE UNCHANGED readerVars
        BY <1>1, <2>1, <2>2, <2>3, <2>5, <3>2, <4>3 DEF ReadAstray, AsyncTypeOK, TypeOK, Intact
      <4>4. CASE /\ name' = [name EXCEPT ![c] = Garbled]
                 /\ note' = [note EXCEPT ![c] = l]
                 /\ rpc' = [rpc EXCEPT ![c] = "announce"]
        <5>1. /\ note' \in [Users -> Lines \cup {NoLine}] /\ note'[c] # NoLine
              /\ name' \in [Users -> Names \cup {NoName, Garbled}]
          BY <1>2, <1>4, <4>1, <4>4
        <5> QED
          BY <1>1, <2>1, <2>2, <2>3, <2>5, <3>2, <4>4, <5>1 DEF ReadAstray, AsyncTypeOK, TypeOK, Intact
      <4> QED
        BY <4>2, <4>3, <4>4
    <3>3. CASE queue' = Append(queue, Say(Garbage("broadcast", c, name[c]))) /\ UNCHANGED readerVars
      <4>1. Garbage("broadcast", c, name[c]) \in Lines
        BY <1>2, <3>1
      <4>2. /\ queue' \in Seq(ServerCmd)
            /\ queue # <<>> => queue' # <<>> /\ Head(queue') = Head(queue)
        BY <1>3, <3>3, <4>1, Messages
      <4> QED
        BY <1>1, <2>1, <2>2, <2>3, <2>5, <3>3, <4>2 DEF ReadAstray, AsyncTypeOK, TypeOK, Intact
    <3> QED
      BY <2>5, <3>2, <3>3 DEF ReadAstray
  <2> QED
    BY <1>11, <2>4, <2>5
<1>12. CASE ReadPanics(c)
  BY <1>1, <1>12 DEF ReadPanics, AsyncTypeOK, TypeOK
<1>13. CASE ReaderFails(c)
  <2>1. queue' = Append(queue, Disconnect(c))
    BY <1>13 DEF ReaderFails
  <2>2. /\ queue' \in Seq(ServerCmd)
        /\ queue # <<>> => queue' # <<>> /\ Head(queue') = Head(queue)
    BY <1>3, <2>1, Messages
  <2>3. inbox' \in [Users -> Seq(Names \cup {Message})]
    BY <1>5, <1>13 DEF ReaderFails
  <2> QED
    BY <1>1, <1>13, <2>2, <2>3 DEF ReaderFails, AsyncTypeOK, TypeOK
<1> QED
  BY <1>6, <1>7, <1>8, <1>9, <1>10, <1>11, <1>12, <1>13 DEF MoveReader, MoveRead

\* The types after a step of the broker: the line in the loop was said, the slice stays in it.
LEMMA BrokerTypes ==
  ASSUME Safe, MoveBroker
  PROVE  AsyncTypeOK'
<1> USE DEF Rest, userVars, socketVars, readerVars, brokerVars, framingVars, writerVars, Intact
<1>1. AsyncTypeOK
  BY DEF Safe
<1>2. /\ queue \in Seq(ServerCmd) /\ said \in Seq(Lines) /\ clients \subseteq Users
      /\ name \in [Users -> Names \cup {NoName, Garbled}]
      /\ got \in [Users -> Seq(Lines)] /\ unread \in [Users -> 0 .. Room] /\ Room \in Nat \ {0}
      /\ resumed \in [Users -> BOOLEAN] /\ todo \subseteq clients
      /\ joined \in [Users -> 0 .. Len(said)]
  BY <1>1, BoundsAssumption DEF AsyncTypeOK, TypeOK
<1>3. /\ from \in 0 .. LineLength - 1 /\ cursor \in 0 .. from /\ (cursor > 0 <=> cur # Nobody)
      /\ (cur # Nobody => cur \in todo) /\ LineLength \in Nat \ {0}
  BY <1>1, LineAssumption DEF AsyncTypeOK
<1>4. Nobody \notin Users /\ Nobody = 0
  BY BoundsAssumption DEF Nobody
<1>5. queue # <<>> => Head(queue) \in ServerCmd /\ Tail(queue) \in Seq(ServerCmd)
  BY <1>2
<1>6. CASE Notify /\ Rest
  <2>1. queue # <<>> /\ Head(queue).cmd = "say" /\ bpc = "recv"
    BY <1>6 DEF Notify
  <2>2. Head(queue).line \in Lines
    BY <1>5, <2>1, Messages
  <2>3. line' = Head(queue).line /\ said' = Append(said, Head(queue).line)
    BY <1>6 DEF Notify
  <2>4. said' \in Seq(Lines) /\ Len(said') = Len(said) + 1 /\ Len(said) \in Nat
    BY <1>2, <2>2, <2>3
  <2>5. joined' \in [Users -> 0 .. Len(said')]
    <3>1. \A c \in Users : joined[c] \in 0 .. Len(said')
      BY <1>2, <2>4
    <3> QED
      BY <1>2, <1>6, <3>1 DEF Notify
  <2>6. todo = {}
    BY <1>1, <2>1 DEF AsyncTypeOK, TypeOK
  <2>7. /\ todo' \subseteq clients
        /\ bpc' \in {"recv", "notify"} /\ (bpc' = "notify" <=> todo' # {})
    BY <1>6 DEF Notify
  <2> QED
    BY <1>1, <1>5, <1>6, <2>1, <2>2, <2>3, <2>4, <2>5, <2>6, <2>7 DEF Notify, AsyncTypeOK, TypeOK
<1>7. CASE Spawn /\ Rest
  <2>1. queue # <<>> /\ Head(queue).cmd = "connect" /\ bpc = "recv"
    BY <1>7 DEF Spawn
  <2>2. Head(queue).of \in Users
    BY <1>5, <2>1, Messages
  <2>3. rpc' = [rpc EXCEPT ![Head(queue).of] = "decode"] /\ rpc[Head(queue).of] # "announce"
    <3>1. Head(queue) = Connecting(Head(queue).of)
      BY <1>5, <2>1 DEF ServerCmd, Connecting
    <3>2. Head(queue) \in Mine(Head(queue).of)
      BY <3>1 DEF Mine
    <3>3. Has(Post(Head(queue).of), {Connecting(Head(queue).of)})
      <4> DEFINE c == Head(queue).of
      <4>1. Head(queue) = Connecting(c) /\ Head(queue) \in Mine(c)
        BY <3>1, <3>2
      <4> HIDE DEF c
      <4>2. Post(c) # <<>> /\ Head(Post(c)) = Head(queue)
        BY <1>2, <2>1, <4>1, OnlyTail DEF Post
      <4>3. Post(c) \in Seq(Mine(c))
        <5>1. Len(queue) \in Nat
          BY <1>2
        <5> QED
          BY <5>1, OnlyInSeq DEF Post
      <4>4. Has(Post(c), {Connecting(c)})
        BY <4>1, <4>2, <4>3, HasTail
      <4> QED
        BY <4>4 DEF c
    <3> QED
      BY <1>7, <2>1, <2>2, <3>3 DEF Safe, Entry, Inserting, Spawn
  <2> QED
    BY <1>1, <1>7, <2>1, <2>2, <2>3 DEF Spawn, AsyncTypeOK, TypeOK
<1>8. CASE Insert /\ Rest
  <2>1. queue # <<>> /\ Head(queue).cmd = "connect" /\ bpc = "insert"
    BY <1>1, <1>8 DEF Insert, AsyncTypeOK, TypeOK
  <2>2. Head(queue).of \in Users
    BY <1>5, <2>1, Messages
  <2>3. joined' \in [Users -> 0 .. Len(said)]
    <3>1. Len(said) \in 0 .. Len(said)
      BY <1>2
    <3> QED
      BY <1>2, <1>8, <3>1 DEF Insert
  <2>4. rpc[Head(queue).of] # "none"
    <3>1. Head(queue) = Connecting(Head(queue).of)
      BY <1>5, <2>1 DEF ServerCmd, Connecting
    <3> QED
      BY <2>1, <2>2, <3>1 DEF Safe, Entry, Inserting
  <2> QED
    BY <1>1, <1>5, <1>8, <2>1, <2>2, <2>3, <2>4 DEF Insert, AsyncTypeOK, TypeOK
<1>9. CASE DropClient /\ Rest
  <2>1. queue # <<>> /\ Head(queue).cmd = "disconnect" /\ bpc = "recv"
    BY <1>9 DEF DropClient
  <2>2. Head(queue).of \in Users
    BY <1>5, <2>1, Messages
  <2>3. queue' \in Seq(ServerCmd)
    <3> DEFINE c == Head(queue).of
               l == [kind |-> "left", of |-> c, no |-> 0, was |-> name[c], now |-> name[c]]
    <3>1. Say(l) \in ServerCmd
      <4>1. 0 \in 0 .. MaxSends /\ c \in Users /\ name[c] \in Names \cup {NoName, Garbled}
        BY <1>2, <2>2, BoundsAssumption, SMTT(30)
      <4> HIDE DEF c
      <4> QED
        BY <4>1, LineTypes, Messages
    <3>2. queue' = IF c \in clients THEN Append(Tail(queue), Say(l)) ELSE Tail(queue)
      BY <1>9 DEF DropClient
    <3> HIDE DEF l, c
    <3> QED
      BY <1>5, <2>1, <3>1, <3>2
  <2>4. clients' \subseteq clients /\ todo = {}
    BY <1>1, <1>9, <2>1 DEF DropClient, AsyncTypeOK, TypeOK
  <2> QED
    BY <1>1, <1>9, <2>1, <2>3, <2>4 DEF DropClient, AsyncTypeOK, TypeOK
<1>10. ASSUME NEW c \in Users, MoveSent(c) PROVE AsyncTypeOK'
  <2>1. bpc = "notify" /\ c \in todo /\ Done(c)
    BY <1>10 DEF MoveSent
  <2>2. got' \in [Users -> Seq(Lines)]
    <3>1. line \in Lines \cup {NoLine} /\ (todo # {} => said # <<>> /\ line = Last(said))
      BY <1>1 DEF AsyncTypeOK, TypeOK, Safe, Telling
    <3>2. line \in Lines
      BY <1>2, <2>1, <3>1 DEF Last
    <3>3. got[c] \in Seq(Lines) /\ Append(got[c], line) \in Seq(Lines)
      BY <1>2, <3>2
    <3>4. \/ UNCHANGED got
          \/ \E s \in {got[c], Append(got[c], line)} : got' = [got EXCEPT ![c] = s]
      BY <1>10 DEF MoveSent
    <3> QED
      BY <1>2, <3>3, <3>4
  <2>3. unread' \in [Users -> 0 .. Room]
    <3>1. UNCHANGED unread \/ (unread[c] < Room /\ unread' = [unread EXCEPT ![c] = @ + 1])
      BY <1>10 DEF MoveSent
    <3>2. unread \in [Users -> 0 .. Room] /\ Room \in Nat
      BY <1>2
    <3>3. unread[c] < Room => unread[c] + 1 \in 0 .. Room
      BY <3>2
    <3> QED
      BY <3>1, <3>2, <3>3
  <2>4. resumed' \in [Users -> BOOLEAN]
    <3> DEFINE b == resumed[c] \/ cur = c
    <3>1. resumed' = [resumed EXCEPT ![c] = b] /\ b \in BOOLEAN
      BY <1>10 DEF MoveSent
    <3> HIDE DEF b
    <3> QED
      BY <1>2, <3>1
  <2>5. /\ cur' = Nobody /\ cursor' = 0 /\ from' \in 0 .. LineLength - 1
        /\ UNCHANGED <<userVars, readerVars, clients, line, said, joined, queue, cut, framingVars>>
    BY <1>10 DEF MoveSent, NobodyLeft, Done
  <2>6. /\ todo' \subseteq todo /\ bpc' \in {"recv", "notify"} /\ (bpc' = "notify" <=> todo' # {})
    BY <2>1 DEF Done
  <2>7. TypeOK'
    BY <1>1, <1>2, <2>2, <2>3, <2>5, <2>6 DEF AsyncTypeOK, TypeOK
  <2> QED
    BY <1>1, <2>4, <2>5, <2>7 DEF AsyncTypeOK
<1>11. ASSUME NEW c \in Users, MoveFails(c) PROVE AsyncTypeOK'
  <2>1. bpc = "notify" /\ c \in todo /\ Done(c) /\ queue' = Append(queue, Disconnect(c))
    BY <1>11 DEF MoveFails, SendFails
  <2>2. queue' \in Seq(ServerCmd)
    <3>1. Disconnect(c) \in ServerCmd
      BY Messages
    <3> QED
      BY <1>2, <2>1, <3>1
  <2>3. cut' \in [Users -> BOOLEAN]
    BY <1>1, <1>11 DEF MoveFails, SendFails, AsyncTypeOK, TypeOK
  <2>4. cur' = Nobody /\ cursor' = 0 /\ from' \in 0 .. LineLength - 1
    BY <1>11 DEF MoveFails, NobodyLeft
  <2>5. /\ todo' \subseteq todo /\ bpc' \in {"recv", "notify"} /\ (bpc' = "notify" <=> todo' # {})
    BY <2>1 DEF Done
  <2>6. UNCHANGED <<userVars, readerVars, socketVars, clients, line, said, joined, framingVars, resumed>>
    BY <1>11 DEF MoveFails, SendFails, Done
  <2>7. TypeOK'
    BY <1>1, <1>2, <2>2, <2>3, <2>5, <2>6 DEF AsyncTypeOK, TypeOK
  <2> QED
    BY <1>1, <2>4, <2>6, <2>7 DEF AsyncTypeOK
<1>12. ASSUME NEW c \in Users, SendPart(c) PROVE AsyncTypeOK'
  <2>1. PICK n \in 1 .. LineLength :
               Takes(c, n) /\ Cut(n) < LineLength /\ cursor' = cursor + n /\ from' = Cut(n)
    BY <1>12 DEF SendPart
  <2>2. /\ c \in todo /\ cur' = c /\ resumed' \in [Users -> BOOLEAN]
        /\ from' \in 0 .. LineLength - 1 /\ cursor' \in 0 .. from' /\ cursor' > 0
    <3> DEFINE b == resumed[c] \/ cur = c
    <3>1. resumed' = [resumed EXCEPT ![c] = b] /\ b \in BOOLEAN /\ c \in todo
      BY <2>1 DEF Takes
    <3> HIDE DEF b
    <3>2. resumed' \in [Users -> BOOLEAN]
      BY <1>2, <3>1
    <3>3. from' \in 0 .. LineLength - 1 /\ cursor' \in 0 .. from' /\ cursor' > 0
      BY <1>3, <2>1 DEF Cut
    <3>4. cur' = c
      BY <1>12 DEF SendPart
    <3> QED
      BY <3>1, <3>2, <3>3, <3>4
  <2>3. UNCHANGED <<vars, framingVars>>
    BY <1>12 DEF SendPart
  <2>4. TypeOK'
    BY <1>1, <2>3 DEF AsyncTypeOK, TypeOK, vars
  <2>5. /\ part' \in [Users -> Names \cup {Message, NoName}]
        /\ astray' \in [Users -> BOOLEAN] /\ lost' \in [Users -> 1 .. MaxSends + 1]
        /\ \A d \in Users : astray'[d] => ~(lost'[d] > MaxSends)
    BY <1>1, <2>3 DEF AsyncTypeOK
  <2> QED
    BY <1>4, <2>2, <2>3, <2>4, <2>5 DEF AsyncTypeOK, vars
<1>13. ASSUME NEW c \in Users, SendPanics(c) PROVE AsyncTypeOK'
  <2>1. PICK n \in 1 .. LineLength : Takes(c, n)
    BY <1>13 DEF SendPanics
  <2>2. resumed' \in [Users -> BOOLEAN] /\ todo # {} /\ bpc' = "panicked"
    BY <1>2, <1>13, <2>1 DEF Takes, SendPanics
  <2> QED
    BY <1>1, <1>13, <2>2 DEF SendPanics, AsyncTypeOK, TypeOK
<1>14. ASSUME NEW c \in Users, SendWaits(c) PROVE AsyncTypeOK'
  <2>1. from' = cursor /\ cursor \in 0 .. cursor /\ cursor \in 0 .. LineLength - 1
    BY <1>3, <1>14 DEF SendWaits
  <2> QED
    BY <1>1, <1>14, <2>1 DEF SendWaits, AsyncTypeOK, TypeOK, vars
<1> QED
  BY <1>6, <1>7, <1>8, <1>9, <1>10, <1>11, <1>12, <1>13, <1>14 DEF MoveBroker
-----------------------------------------------------------------------------
(* The bound on the commands, the server with threads, and the line being told *)

\* What a step leaves alone of the broker.
LEMMA BrokerLeft ==
  ASSUME NEW c \in Users, MoveUser(c) \/ MoveReader(c)
  PROVE  /\ UNCHANGED <<brokerVars, writerVars, cut, got>>
         /\ \/ UNCHANGED queue
            \/ Accept(c) /\ queue' = Append(queue, Connecting(c))
            \/ \E m \in {Disconnect(c), Say(note[c])} : queue' = Append(queue, m)
            \/ ReadMessage(c) \/ ReadAstray(c)
<1> USE DEF Rest, socketVars
<1>1. CASE MoveUser(c)
  BY <1>1 DEF MoveUser, Accept, Read, Close, MoveWrite, Write, WritePart, ArriveRest, vars
<1>2. CASE MoveReader(c)
  BY <1>2 DEF MoveReader, MoveRead, ReadName, ReadMessage, Announce, ReaderEnds, PollPart,
              DropsAll, ReadAstray, ReadPanics, ReaderFails, vars
<1> QED
  BY <1>1, <1>2

\* A command written in part is counted until it is written whole.
LEMMA WithinStep ==
  ASSUME Safe, ChatNext
  PROVE  Within'
<1> USE DEF Rest, userVars, framingVars
<1>1. /\ sent \in [Users -> Nat] /\ Cardinality(InParts) + SumFunction(sent) <= MaxSends
      /\ MaxSends \in Nat /\ part \in [Users -> Names \cup {Message, NoName}]
  BY BoundsAssumption DEF Safe, Within, AsyncTypeOK, TypeOK
<1>2. IsFiniteSet(InParts) /\ Cardinality(InParts) \in Nat /\ InParts \subseteq Users
  BY FS_Subset, FS_CardinalityType, BoundsAssumption DEF InParts
<1>3. ASSUME UNCHANGED <<sent, part>> PROVE Within'
  <2>1. InParts' = InParts
    BY <1>3 DEF InParts
  <2> QED
    BY <1>1, <1>3, <2>1 DEF Within
<1>4. ASSUME NEW c \in Users, MoveWrite(c) PROVE Within'
  <2>1. InParts' = InParts /\ sent' = [sent EXCEPT ![c] = @ + 1]
    BY <1>4 DEF MoveWrite, Write, InParts
  <2>2. SumFunction(sent') = SumFunction(sent) + 1 /\ SumFunction(sent) \in Nat
    BY <1>1, <2>1, SentSum
  <2>3. Cardinality(InParts) + SumFunction(sent) < MaxSends
    BY <1>4 DEF MoveWrite
  <2> QED
    BY <1>1, <1>2, <2>1, <2>2, <2>3 DEF Within
<1>5. ASSUME NEW c \in Users, WritePart(c) PROVE Within'
  <2>1. UNCHANGED sent /\ Cardinality(InParts) + SumFunction(sent) < MaxSends
    BY <1>5 DEF WritePart, vars
  <2>2. SumFunction(sent) \in Nat
    BY <1>1, SentSum
  <2>3. InParts' \subseteq InParts \cup {c}
    <3>1. \A d \in Users : d # c => part'[d] = part[d]
      BY <1>1, <1>5 DEF WritePart
    <3> QED
      BY <3>1 DEF InParts
  <2>4. /\ IsFiniteSet(InParts \cup {c}) /\ Cardinality(InParts \cup {c}) \in Nat
        /\ Cardinality(InParts \cup {c}) <= Cardinality(InParts) + 1
    BY <1>2, FS_AddElement, FS_CardinalityType
  <2>5. Cardinality(InParts') \in Nat /\ Cardinality(InParts') <= Cardinality(InParts) + 1
    BY <1>2, <2>3, <2>4, FS_Subset, FS_CardinalityType
  <2> QED
    BY <1>1, <1>2, <2>1, <2>2, <2>5 DEF Within
<1>6. ASSUME NEW c \in Users, ArriveRest(c) PROVE Within'
  <2>1. sent' = [sent EXCEPT ![c] = @ + 1] /\ c \in InParts
    BY <1>6 DEF ArriveRest
  <2>2. SumFunction(sent') = SumFunction(sent) + 1 /\ SumFunction(sent) \in Nat
    BY <1>1, <2>1, SentSum
  <2>3. InParts' = InParts \ {c}
    <3>1. /\ \A d \in Users : d # c => part'[d] = part[d]
          /\ part'[c] = NoName
      BY <1>1, <1>6 DEF ArriveRest
    <3> QED
      BY <3>1 DEF InParts
  <2>4. Cardinality(InParts') = Cardinality(InParts) - 1
    BY <1>2, <2>1, <2>3, FS_RemoveElement
  <2> QED
    BY <1>1, <1>2, <2>2, <2>4 DEF Within
<1>7. ASSUME NEW c \in Users, MoveUser(c) PROVE Within'
  <2>1. CASE (Accept(c) \/ Read(c) \/ Close(c)) /\ Rest
    BY <1>3, <2>1 DEF Accept, Read, Close
  <2> QED
    BY <1>4, <1>5, <1>6, <1>7, <2>1 DEF MoveUser
<1>8. ASSUME NEW c \in Users, MoveReader(c) PROVE Within'
  <2>1. UNCHANGED <<sent, part>>
    BY <1>8 DEF MoveReader, MoveRead, ReadName, ReadMessage, Announce, ReaderEnds, PollPart,
                DropsAll, ReadAstray, ReadPanics, ReaderFails, vars
  <2> QED
    BY <1>3, <2>1
<1>9. ASSUME MoveBroker PROVE Within'
  <2>1. UNCHANGED <<sent, part>>
    BY <1>9 DEF MoveBroker, Notify, Spawn, Insert, DropClient, MoveSent, MoveFails, SendFails, Done,
                SendPart, SendPanics, SendWaits, vars
  <2> QED
    BY <1>3, <2>1
<1> QED
  BY <1>7, <1>8, <1>9, Moves

\* The program that runs does not change, and the server with threads breaks nothing.
LEMMA PlainStep ==
  ASSUME Safe, ChatNext
  PROVE  Plain' /\ UNCHANGED kind
<1>1. UNCHANGED kind
  BY DEF ChatNext, BrokerStep, ReaderStep, UserStep
<1>2. ASSUME kind = "threads" PROVE UNCHANGED <<framingVars, writerVars>>
  BY <1>2 DEF ChatNext, BrokerStep, ReaderStep, UserStep, Whole
<1> QED
  BY <1>1, <1>2 DEF Safe, Plain, framingVars, writerVars

\* The line in the loop is the one said last, to clients that had joined; and the broker panics
\* only over a line in pieces.
LEMMA TellingStep ==
  ASSUME Safe, ChatNext
  PROVE  /\ Telling'
         /\ bpc' = "panicked" => \E c \in Users : resumed'[c]
<1> USE DEF Rest, brokerVars, writerVars, framingVars
<1>1. /\ Telling /\ AsyncTypeOK /\ (bpc = "panicked" => \E c \in Users : resumed[c])
  BY DEF Safe
<1>2. /\ said \in Seq(Lines) /\ joined \in [Users -> 0 .. Len(said)] /\ clients \subseteq Users
      /\ todo \subseteq clients /\ (bpc \in {"notify", "panicked"} <=> todo # {})
      /\ queue \in Seq(ServerCmd)
  BY <1>1 DEF AsyncTypeOK, TypeOK
<1>3. ASSUME UNCHANGED <<todo, said, line, joined>> PROVE Telling'
  BY <1>1, <1>3 DEF Telling
<1>4. CASE \E c \in Users : MoveUser(c) \/ MoveReader(c)
  <2>1. UNCHANGED <<brokerVars, writerVars>>
    BY <1>4, BrokerLeft
  <2> QED
    BY <1>1, <1>3, <2>1
<1>5. CASE Notify /\ Rest
  <2>1. queue # <<>> /\ Head(queue).cmd = "say" /\ bpc = "recv" /\ bpc' # "panicked"
    BY <1>5 DEF Notify
  <2>2. Head(queue).line \in Lines
    BY <1>2, <2>1, Messages
  <2>3. line' = Head(queue).line /\ said' = Append(said, line') /\ UNCHANGED joined
    BY <1>5 DEF Notify
  <2>4. said' # <<>> /\ line' = Last(said') /\ Len(said') = Len(said) + 1 /\ Len(said) \in Nat
    BY <1>2, <2>2, <2>3 DEF Last
  <2>5. \A c \in todo' : c \in Users /\ ~(line'.kind = "broadcast" /\ line'.of = c)
    BY <1>2, <1>5 DEF Notify
  <2>6. \A c \in todo' : joined'[c] < Len(said')
    BY <1>2, <2>3, <2>4, <2>5
  <2> QED
    BY <2>1, <2>4, <2>5, <2>6 DEF Telling
<1>6. CASE (Spawn \/ DropClient) /\ Rest
  <2>1. UNCHANGED <<todo, said, line, joined, resumed>> /\ bpc' # "panicked"
    BY <1>6 DEF Spawn, DropClient
  <2> QED
    BY <1>3, <2>1
<1>7. CASE Insert /\ Rest
  <2>1. todo' = {} /\ bpc' # "panicked"
    BY <1>2, <1>7 DEF Insert
  <2> QED
    BY <2>1 DEF Telling
<1>8. ASSUME NEW c \in Users, MoveSent(c) \/ MoveFails(c) PROVE Telling' /\ bpc' # "panicked"
  <2>1. UNCHANGED <<said, line, joined>> /\ todo' \subseteq todo /\ bpc' # "panicked"
    BY <1>8 DEF MoveSent, MoveFails, SendFails, Done
  <2> QED
    BY <1>1, <2>1 DEF Telling
<1>9. ASSUME NEW c \in Users, SendPart(c) \/ SendWaits(c) PROVE Telling' /\ bpc' # "panicked"
  <2>1. UNCHANGED <<said, line, joined, todo, bpc>> /\ bpc = "notify"
    BY <1>9 DEF SendPart, SendWaits, Takes, vars
  <2> QED
    BY <1>3, <2>1
<1>10. ASSUME NEW c \in Users, SendPanics(c) PROVE Telling' /\ resumed'[c]
  <2>1. UNCHANGED <<said, line, joined, todo>>
    BY <1>10 DEF SendPanics
  <2>2. PICK n \in 1 .. LineLength : Takes(c, n) /\ Cut(n) > LineLength
    BY <1>10 DEF SendPanics
  <2>3. /\ from \in 0 .. LineLength - 1 /\ cursor \in 0 .. from /\ (cursor > 0 <=> cur # Nobody)
        /\ LineLength \in Nat \ {0} /\ resumed \in [Users -> BOOLEAN]
    BY <1>1, LineAssumption DEF AsyncTypeOK
  <2>4. n <= LineLength - from /\ cur \in {Nobody, c} /\ resumed' = [resumed EXCEPT ![c] = @ \/ cur = c]
    BY <2>2 DEF Takes
  <2>5. cursor > 0
    BY <2>2, <2>3, <2>4 DEF Cut
  <2>6. cur = c
    BY <2>3, <2>4, <2>5
  <2>7. resumed'[c]
    BY <2>3, <2>4, <2>6, Zenon
  <2> QED
    BY <1>3, <2>1, <2>7
<1> QED
  BY <1>4, <1>5, <1>6, <1>7, <1>8, <1>9, <1>10, Moves DEF MoveBroker
-----------------------------------------------------------------------------
(* One user's part of the queue and of the lines said *)

\* A message belongs to one user.
LEMMA Owner ==
  ASSUME NEW c \in Users, NEW d \in Users, c # d
  PROVE  /\ \A m \in Mine(c) : m \notin Mine(d)
         /\ \A l \in LinesOf(c) : l \notin LinesOf(d)
BY DEF Mine, SaysOf, ServerCmd, Connecting, Disconnect, LinesOf

\* Kinds of messages differ.
LEMMA Kinds ==
  ASSUME NEW c \in Users
  PROVE  /\ Connecting(c) \in Mine(c) /\ Disconnect(c) \in Mine(c) /\ Connecting(c) # Disconnect(c)
         /\ Connecting(c) \notin SaysOf(c) /\ Disconnect(c) \notin SaysOf(c)
         /\ NumberedSays(c) \subseteq SaysOf(c) /\ LeftSays(c) \subseteq SaysOf(c)
         /\ SaysOf(c) \subseteq Mine(c) /\ Mine(c) \subseteq ServerCmd
         /\ \A l \in LinesOf(c) : /\ Say(l) \in SaysOf(c) /\ Say(l).line = l
                                  /\ Say(l) \in NumberedSays(c) <=> l \in Numbered(c)
                                  /\ Say(l) \in LeftSays(c) <=> l \in Leavings(c)
         /\ \A m \in SaysOf(c) : m.line \in LinesOf(c) /\ m = Say(m.line)
BY DEF Mine, SaysOf, NumberedSays, LeftSays, ServerCmd, Connecting, Disconnect, LinesOf, Say,
       Numbered, Leavings

\* The parts of the queue and of the lines are sequences of the user's messages and lines.
LEMMA Views ==
  ASSUME AsyncTypeOK, NEW c
  PROVE  /\ queue \in Seq(ServerCmd) /\ said \in Seq(Lines)
         /\ Talk(c) \in Seq(LinesOf(c)) /\ Post(c) \in Seq(Mine(c)) /\ Left(c) \in Seq(Leavings(c))
<1>1. queue \in Seq(ServerCmd) /\ said \in Seq(Lines) /\ Len(queue) \in Nat /\ Len(said) \in Nat
  BY DEF AsyncTypeOK, TypeOK
<1>2. Talk(c) \in Seq(LinesOf(c)) /\ Post(c) \in Seq(Mine(c))
  BY <1>1, OnlyInSeq DEF Talk, Post
<1>3. Len(Talk(c)) \in Nat
  BY <1>2
<1> QED
  BY <1>1, <1>2, <1>3, OnlyInSeq DEF Left

\* What a message sent changes in the messages of a user.
LEMMA PostSent ==
  ASSUME AsyncTypeOK, NEW c \in Users, NEW m, queue' = Append(queue, m)
  PROVE  Post(c)' = IF m \in Mine(c) THEN Append(Post(c), m) ELSE Post(c)
BY Views, OnlyAppend DEF Post

\* What a message taken from the head changes in them.
LEMMA PostTaken ==
  ASSUME AsyncTypeOK, NEW c \in Users, queue # <<>>
  PROVE  /\ Head(queue) \in Mine(c) => /\ Post(c) # <<>> /\ Head(Post(c)) = Head(queue)
                                       /\ Only(Tail(queue), Mine(c)) = Tail(Post(c))
         /\ Head(queue) \notin Mine(c) => Only(Tail(queue), Mine(c)) = Post(c)
BY Views, OnlyTail DEF Post

\* What a line said changes in the lines of a user, and in its farewells.
LEMMA TalkSaid ==
  ASSUME AsyncTypeOK, NEW c \in Users, NEW l, said' = Append(said, l)
  PROVE  /\ Talk(c)' = IF l \in LinesOf(c) THEN Append(Talk(c), l) ELSE Talk(c)
         /\ Left(c)' = IF l \in Leavings(c) THEN Append(Left(c), l) ELSE Left(c)
<1>1. Talk(c)' = IF l \in LinesOf(c) THEN Append(Talk(c), l) ELSE Talk(c)
  BY Views, OnlyAppend DEF Talk
<1>2. Talk(c) \in Seq(LinesOf(c))
  BY Views
<1>3. Only(Append(Talk(c), l), Leavings(c)) =
        IF l \in Leavings(c) THEN Append(Left(c), l) ELSE Left(c)
  BY <1>2, OnlyAppend DEF Left
<1>4. Left(c)' = Only(Talk(c)', Leavings(c))
  BY DEF Left
<1>5. l \in Leavings(c) => l \in LinesOf(c)
  BY DEF Leavings
<1>6. CASE l \in LinesOf(c)
  BY <1>1, <1>3, <1>4, <1>6
<1>7. CASE l \notin LinesOf(c)
  BY <1>1, <1>4, <1>5, <1>7 DEF Left
<1> QED
  BY <1>6, <1>7

\* Where nothing is sent or said nothing changes.
LEMMA PostSame ==
  ASSUME NEW c
  PROVE  /\ UNCHANGED queue => Post(c)' = Post(c)
         /\ UNCHANGED said => Talk(c)' = Talk(c) /\ Left(c)' = Left(c)
BY DEF Post, Talk, Left

\* What is true of c as long as nothing happens to c.
Aside(c) == Told(c) /\ Entry(c) /\ Leaving(c)

Untouched(c) ==
  /\ UNCHANGED <<Talk(c), Post(c), Left(c)>>
  /\ UNCHANGED <<sock[c], inbox[c], sent[c], name[c], rpc[c], note[c], lost[c], cut[c]>>
  /\ c \in clients' <=> c \in clients
  /\ Inserting(c)' <=> Inserting(c)
  /\ got'[c] = got[c] \/ c \in clients

\* What is true of c stays true as long as nothing happens to c.
LEMMA AsideUntouched ==
  ASSUME AsyncTypeOK, NEW c \in Users, Aside(c), Untouched(c)
  PROVE  Aside(c)'
<1>1. c \in clients => rpc[c] # "none"
  BY DEF AsyncTypeOK, TypeOK
<1>2. Told(c)'
  <2>1. Flow(c)' = Flow(c) /\ Number(c)' = Number(c) /\ Intact(c)' = Intact(c)
    BY DEF Untouched, Flow, Unsaid, Number, Intact
  <2>2. Counted(c)'
    BY <2>1 DEF Aside, Untouched, Told, Counted
  <2> QED
    BY <2>1, <2>2 DEF Aside, Untouched, Told
<1>3. Entry(c)'
  BY <1>1 DEF Aside, Untouched, Entry
<1>4. Gone(c)' <=> Gone(c)
  BY DEF Untouched, Gone
<1>5. Silent(c)' <=> Silent(c)
  BY DEF Untouched, Silent
<1>6. Orderly(c)' <=> Orderly(c)
  BY <1>4, <1>5 DEF Untouched, Orderly
<1>7. Leaving(c)'
  BY <1>4, <1>6 DEF Aside, Untouched, Leaving, Intact
<1> QED
  BY <1>2, <1>3, <1>7 DEF Aside

\* While the flow stays as it is and the inbox gets no longer than what the user wrote, the numbers
\* stay in order; so they do when a frame is lost.
LEMMA CountedKept ==
  ASSUME AsyncTypeOK, AsyncTypeOK', NEW c \in Users, Counted(c), Flow(c)' = Flow(c),
         lost'[c] <= lost[c], sent'[c] - Len(inbox'[c]) >= sent[c] - Len(inbox[c])
  PROVE  Counted(c)'
<1>1. /\ MaxSends \in Nat /\ lost[c] \in Nat /\ lost'[c] \in Nat
      /\ sent[c] \in Nat /\ sent'[c] \in Nat /\ Len(inbox[c]) \in Nat /\ Len(inbox'[c]) \in Nat
  <2>1. /\ sent' \in [Users -> 0 .. MaxSends] /\ lost' \in [Users -> 1 .. MaxSends + 1]
        /\ inbox' \in [Users -> Seq(Names \cup {Message})]
    BY DEF AsyncTypeOK, TypeOK
  <2>2. sent'[c] \in 0 .. MaxSends /\ lost'[c] \in 1 .. MaxSends + 1
    BY <2>1
  <2> QED
    BY <2>1, <2>2, Counts
<1>2. Number(c)' >= Number(c) /\ Number(c) \in Int /\ Number(c)' \in Int /\ Len(inbox'[c]) <= sent'[c]
  BY <1>1 DEF Number, Counted
<1> DEFINE f == Flow(c)
<1>3. Chained(c, f, lost[c]) /\ \A i \in 1 .. Len(f) : f[i].no < Number(c)
  BY DEF Counted
<1> HIDE DEF f
<1>4. Chained(c, f, lost'[c])
  BY <1>1, <1>3, ChainedLess
<1>5. ASSUME NEW i \in 1 .. Len(f) PROVE f[i].no < Number(c)'
  <2>1. f[i].no \in Nat
    BY <1>3, NumberedNat DEF Chained
  <2> QED
    BY <1>2, <1>3, <2>1
<1>6. Flow(c)' = f
  BY DEF f
<1> QED
  BY <1>2, <1>4, <1>5, <1>6 DEF Counted, Chained

\* What is true of the flow of a user stays true while the flow stays as it is.
LEMMA ToldKept ==
  ASSUME NEW c \in Users, Told(c), Flow(c)' = Flow(c),
         UNCHANGED <<sock, inbox, sent, name, note, lost>>, rpc'[c] = "announce" => rpc[c] = "announce"
  PROVE  Told(c)'
BY DEF Told, Counted, Number, Intact

\* The head of the queue stays there while messages are sent.
LEMMA InsertingSame ==
  ASSUME AsyncTypeOK, AsyncTypeOK', NEW c \in Users, UNCHANGED bpc,
         UNCHANGED queue \/ \E m : queue' = Append(queue, m)
  PROVE  Inserting(c)' <=> Inserting(c)
<1>1. CASE UNCHANGED queue
  BY <1>1 DEF Inserting
<1>2. ASSUME NEW m, queue' = Append(queue, m) PROVE Inserting(c)' <=> Inserting(c)
  <2>1. bpc = "insert" => queue # <<>> /\ queue \in Seq(ServerCmd)
    BY DEF AsyncTypeOK, TypeOK
  <2>2. bpc = "insert" => Head(queue') = Head(queue)
    BY <1>2, <2>1
  <2> QED
    BY <2>2 DEF Inserting
<1> QED
  BY <1>1, <1>2
-----------------------------------------------------------------------------
(* Steps of a user and of its reader *)

\* They send messages of their own user only.
Sends(c) == UNCHANGED queue \/ \E m \in Mine(c) : queue' = Append(queue, m)

\* What sending does to what waits.
LEMMA PostHas ==
  ASSUME AsyncTypeOK, NEW c \in Users, NEW m \in Mine(c), queue' = Append(queue, m)
  PROVE  /\ Post(c)' = Append(Post(c), m)
         /\ \A S : Has(Post(c)', S) <=> Has(Post(c), S) \/ m \in S
         /\ \A S : Lone(Post(c), S) /\ ~(m \in S /\ Has(Post(c), S)) => Lone(Post(c)', S)
<1>1. Post(c)' = Append(Post(c), m) /\ Post(c) \in Seq(Mine(c))
  BY PostSent, Views
<1>2. ASSUME NEW S PROVE Has(Append(Post(c), m), S) <=> Has(Post(c), S) \/ m \in S
  BY <1>1, HasAppend
<1>3. ASSUME NEW S, Lone(Post(c), S), ~(m \in S /\ Has(Post(c), S)) PROVE Lone(Append(Post(c), m), S)
  BY <1>1, <1>3, LoneAppend
<1> QED
  BY <1>1, <1>2, <1>3

\* A user connects: its Connect is the first message of its own.
LEMMA StepAccept ==
  ASSUME Safe, AsyncTypeOK', NEW c \in Users, Accept(c), Rest
  PROVE  Aside(c)' /\ Sends(c)
<1> USE DEF Rest, userVars, socketVars, readerVars, brokerVars, framingVars, writerVars
<1>1. /\ AsyncTypeOK /\ Told(c) /\ Entry(c) /\ Leaving(c)
  BY DEF Safe
<1> DEFINE m == Connecting(c)
<1>2. m \in Mine(c) /\ queue' = Append(queue, m)
  BY Kinds DEF Accept
<1>3. /\ m # Disconnect(c) /\ m \notin SaysOf(c) /\ m \notin NumberedSays(c) /\ m \notin LeftSays(c)
  BY Kinds
<1>4. m \in {Connecting(c)}
  OBVIOUS
<1> HIDE DEF m
<1>5. /\ sock[c] = "none" /\ sock'[c] = "open" /\ UNCHANGED said
      /\ UNCHANGED <<rpc, note, name, inbox, sent, lost, clients, got, bpc, cut>>
  BY <1>1 DEF Accept, AsyncTypeOK, TypeOK
<1>6. /\ rpc[c] = "none" /\ Post(c) = <<>> /\ Talk(c)' = Talk(c) /\ Talk(c) = <<>>
  BY <1>1, <1>5, PostSame DEF Entry
<1>7. /\ Post(c)' = Append(Post(c), m)
      /\ \A S : Has(Post(c)', S) <=> m \in S
      /\ \A S : Lone(Post(c)', S)
  <2>1. /\ Post(c)' = Append(Post(c), m)
        /\ \A S : Has(Post(c)', S) <=> Has(Post(c), S) \/ m \in S
        /\ \A S : Lone(Post(c), S) /\ ~(m \in S /\ Has(Post(c), S)) => Lone(Post(c)', S)
    BY <1>1, <1>2, PostHas
  <2>2. \A S : ~Has(Post(c), S) /\ Lone(Post(c), S)
    BY <1>6, HasNone
  <2> QED
    BY <2>1, <2>2
<1>8. Inserting(c)' <=> Inserting(c)
  BY <1>1, <1>2, <1>5, InsertingSame
<1>9. Told(c)'
  <2>1. Unsaid(c)' = Unsaid(c) /\ Unsaid(c) = <<>>
    BY <1>5, <1>6 DEF Unsaid
  <2>2. Stream(c, Talk(c), Append(Post(c), m), <<>>) = Stream(c, Talk(c), Post(c), <<>>)
    <3>1. <<>> \in Seq(Numbered(c))
      OBVIOUS
    <3> QED
      BY <1>1, <1>2, <1>3, <3>1, Views, StreamSent
  <2>3. Flow(c)' = Flow(c)
    BY <1>6, <1>7, <2>1, <2>2 DEF Flow
  <2>4. Counted(c)'
    BY <1>1, <1>5, <2>3 DEF Told, Counted, Number
  <2> QED
    BY <1>1, <1>5, <2>3, <2>4 DEF Told, Intact
<1>10. Entry(c)'
  <2>1. c \notin clients
    BY <1>1, <1>6 DEF AsyncTypeOK, TypeOK
  <2> QED
    BY <1>1, <1>4, <1>5, <1>6, <1>7, <1>8, <2>1 DEF Entry
<1>11. Leaving(c)'
  <2>1. Left(c)' = Left(c) /\ Left(c) = <<>>
    BY <1>5, <1>6, PostSame, OnlyEmpty DEF Left
  <2>2. ~Gone(c)' /\ ~Has(Post(c)', {Disconnect(c)}) /\ ~Has(Post(c)', LeftSays(c))
    BY <1>3, <1>7, <2>1 DEF Gone
  <2>3. Behind(c, Post(c)')
    <3>1. Behind(c, <<>>) /\ <<>> \in Seq(ServerCmd) /\ m \in ServerCmd
      BY <1>2, Kinds DEF Behind
    <3>2. Behind(c, Append(<<>>, m))
      BY <1>3, <3>1, BehindAppend
    <3> QED
      BY <1>6, <1>7, <3>2
  <2>4. Orderly(c)'
    <3>1. ~Has(Post(c)', {l \in LeftSays(c) : l.line.now # name'[c]})
      BY <1>3, <1>7
    <3> QED
      BY <2>1, <2>2, <2>3, <3>1 DEF Orderly
  <2>5. Len(Left(c)') <= 1
    BY <2>1
  <2> QED
    BY <1>7, <2>1, <2>2, <2>4, <2>5 DEF Leaving
<1> QED
  BY <1>2, <1>9, <1>10, <1>11 DEF Aside, Sends

\* What the user does apart from connecting changes neither the queue nor what is said.
LEMMA StepUser ==
  ASSUME Safe, AsyncTypeOK', NEW c \in Users, MoveUser(c), ~Accept(c)
  PROVE  Aside(c)' /\ Sends(c)
<1> USE DEF Rest, userVars, socketVars, readerVars, brokerVars, framingVars, writerVars
<1>1. /\ AsyncTypeOK /\ Told(c) /\ Entry(c) /\ Leaving(c)
  BY DEF Safe
<1>2. /\ UNCHANGED <<queue, said, rpc, note, name, lost, clients, got, bpc, cut>>
      /\ sock[c] = "open"
  BY DEF MoveUser, Read, Close, MoveWrite, Write, WritePart, ArriveRest, vars
<1>3. Talk(c)' = Talk(c) /\ Post(c)' = Post(c) /\ Left(c)' = Left(c)
  BY <1>2, PostSame
<1>4. Inserting(c)' <=> Inserting(c)
  BY <1>2 DEF Inserting
<1>5. sock'[c] \in {"open", "closed"}
  BY <1>1, <1>2 DEF AsyncTypeOK, TypeOK, MoveUser, Read, Close, MoveWrite, Write, WritePart, ArriveRest, vars
<1>6. sent'[c] - Len(inbox'[c]) = sent[c] - Len(inbox[c])
  <2>1. /\ sent \in [Users -> 0 .. MaxSends] /\ inbox \in [Users -> Seq(Names \cup {Message})]
    BY <1>1 DEF AsyncTypeOK, TypeOK
  <2>2. CASE UNCHANGED <<sent, inbox>>
    BY <2>2
  <2>3. ASSUME NEW x \in Names \cup {Message}, inbox' = [inbox EXCEPT ![c] = Append(@, x)],
               sent' = [sent EXCEPT ![c] = @ + 1]
        PROVE  sent'[c] - Len(inbox'[c]) = sent[c] - Len(inbox[c])
    <3>1. Len(Append(inbox[c], x)) = Len(inbox[c]) + 1 /\ Len(inbox[c]) \in Nat
      BY <2>1
    <3>2. sent[c] \in Nat /\ sent'[c] = sent[c] + 1 /\ inbox'[c] = Append(inbox[c], x)
      BY <2>1, <2>3
    <3> QED
      BY <3>1, <3>2
  <2>4. CASE Read(c) \/ Close(c) \/ WritePart(c)
    BY <2>2, <2>4 DEF Read, Close, WritePart, vars
  <2>5. CASE MoveWrite(c)
    <3>1. PICK x \in Names \cup {Message} : inbox' = [inbox EXCEPT ![c] = Append(@, x)]
      BY <2>5 DEF MoveWrite, Write
    <3> QED
      BY <2>3, <2>5, <3>1 DEF MoveWrite, Write
  <2>6. CASE ArriveRest(c)
    <3>1. part[c] \in Names \cup {Message}
      BY <1>1, <2>6 DEF AsyncTypeOK, ArriveRest, InParts
    <3> QED
      BY <2>3, <2>6, <3>1 DEF ArriveRest
  <2> QED
    BY <2>4, <2>5, <2>6 DEF MoveUser
<1>7. Told(c)'
  <2>1. Flow(c)' = Flow(c)
    BY <1>2, <1>3 DEF Flow, Unsaid
  <2>2. Intact(c) => Len(Flow(c)) = sent'[c] - Len(inbox'[c])
    BY <1>1, <1>2, <1>6 DEF Told
  <2>3. Counted(c)'
    <3>1. lost'[c] <= lost[c] /\ sent'[c] - Len(inbox'[c]) >= sent[c] - Len(inbox[c])
      BY <1>1, <1>2, <1>6, Counts
    <3> QED
      BY <1>1, <2>1, <3>1, CountedKept DEF Told
  <2> QED
    BY <1>1, <1>2, <2>1, <2>2, <2>3 DEF Told, Intact
<1>8. Entry(c)'
  BY <1>1, <1>2, <1>3, <1>4, <1>5 DEF Entry
<1>9. Leaving(c)'
  <2>1. Gone(c)' <=> Gone(c)
    BY <1>3 DEF Gone
  <2>2. ~Has(Post(c), {Disconnect(c)})
    BY <1>1, <1>2 DEF Leaving
  <2>3. Silent(c) => Silent(c)'
    BY <1>2 DEF Silent
  <2>4. Orderly(c) => Orderly(c)'
    BY <1>2, <1>3, <2>1, <2>3 DEF Orderly
  <2> QED
    BY <1>1, <1>2, <1>3, <2>1, <2>2, <2>4 DEF Leaving, Intact
<1> QED
  BY <1>2, <1>7, <1>8, <1>9 DEF Aside, Sends

\* Whatever the reader of a connected user sends, there is no second Connect.
LEMMA EntrySends ==
  ASSUME Safe, AsyncTypeOK', NEW c \in Users, sock[c] # "none",
         UNCHANGED queue \/ \E m \in Mine(c) \ {Connecting(c)} : queue' = Append(queue, m),
         UNCHANGED <<said, clients, got, bpc>>, UNCHANGED sock[c],
         rpc[c] # "none", rpc'[c] # "none"
  PROVE  Entry(c)'
<1>1. AsyncTypeOK /\ Entry(c)
  BY DEF Safe
<1>2. Inserting(c)' <=> Inserting(c)
  BY <1>1, InsertingSame
<1>3. /\ Has(Post(c)', {Connecting(c)}) <=> Has(Post(c), {Connecting(c)})
      /\ Lone(Post(c)', {Connecting(c)})
  <2>1. CASE UNCHANGED queue
    BY <1>1, <2>1, PostSame DEF Entry
  <2>2. ASSUME NEW m \in Mine(c), m # Connecting(c), queue' = Append(queue, m)
        PROVE  /\ Has(Post(c)', {Connecting(c)}) <=> Has(Post(c), {Connecting(c)})
               /\ Lone(Post(c)', {Connecting(c)})
    <3>1. m \notin {Connecting(c)}
      BY <2>2
    <3> QED
      BY <1>1, <2>2, <3>1, PostHas DEF Entry
  <2> QED
    BY <2>1, <2>2
<1> QED
  BY <1>1, <1>2, <1>3 DEF Entry

\* A reader that is not silent may read and say what it likes.
LEMMA LeavingSays ==
  ASSUME Safe, NEW c \in Users,
         UNCHANGED queue \/ \E m \in SaysOf(c) \ LeftSays(c) : queue' = Append(queue, m),
         UNCHANGED <<said, sock, clients, cut>>, rpc'[c] # "none",
         Intact(c)' => Intact(c) /\ ~Silent(c)
  PROVE  Leaving(c)'
<1>1. AsyncTypeOK /\ Leaving(c)
  BY DEF Safe
<1>2. Left(c)' = Left(c) /\ Talk(c)' = Talk(c)
  BY PostSame
<1>3. /\ Has(Post(c)', {Disconnect(c)}) <=> Has(Post(c), {Disconnect(c)})
      /\ Has(Post(c)', {Connecting(c)}) <=> Has(Post(c), {Connecting(c)})
      /\ Has(Post(c)', LeftSays(c)) <=> Has(Post(c), LeftSays(c))
      /\ Lone(Post(c)', LeftSays(c))
      /\ Behind(c, Post(c)) /\ ~Has(Post(c), LeftSays(c) \cup {Disconnect(c)}) => Behind(c, Post(c)')
  <2>1. CASE UNCHANGED queue
    BY <1>1, <2>1, PostSame DEF Leaving
  <2>2. ASSUME NEW m \in SaysOf(c), m \notin LeftSays(c), queue' = Append(queue, m)
        PROVE  /\ Has(Post(c)', {Disconnect(c)}) <=> Has(Post(c), {Disconnect(c)})
               /\ Has(Post(c)', {Connecting(c)}) <=> Has(Post(c), {Connecting(c)})
               /\ Has(Post(c)', LeftSays(c)) <=> Has(Post(c), LeftSays(c))
               /\ Lone(Post(c)', LeftSays(c))
               /\ Behind(c, Post(c)) /\ ~Has(Post(c), LeftSays(c) \cup {Disconnect(c)})
                    => Behind(c, Post(c)')
    <3>1. m \in Mine(c) /\ m \in ServerCmd /\ m \notin {Disconnect(c)} /\ m \notin {Connecting(c)}
      BY Kinds
    <3>2. /\ Post(c)' = Append(Post(c), m) /\ \A S : Has(Post(c)', S) <=> Has(Post(c), S) \/ m \in S
          /\ Lone(Post(c), LeftSays(c)) => Lone(Post(c)', LeftSays(c))
      BY <1>1, <2>2, <3>1, PostHas
    <3>3. Post(c) \in Seq(ServerCmd)
      BY <1>1, Views, Kinds
    <3>4. Behind(c, Post(c)) /\ ~Has(Post(c), LeftSays(c) \cup {Disconnect(c)})
            => Behind(c, Append(Post(c), m))
      BY <3>1, <3>3, BehindAppend
    <3> QED
      BY <1>1, <2>2, <3>1, <3>2, <3>4 DEF Leaving
  <2> QED
    BY <2>1, <2>2
<1>4. Gone(c)' <=> Gone(c)
  BY <1>2, <1>3 DEF Gone
<1>5. ASSUME ~cut'[c], Intact(c)' PROVE Orderly(c)'
  <2>1. Orderly(c) /\ ~Silent(c)
    BY <1>1, <1>5 DEF Leaving
  <2>2. ~Gone(c) /\ ~Has(Post(c), {Disconnect(c)}) /\ ~Has(Post(c), LeftSays(c)) /\ Left(c) = <<>>
    BY <2>1 DEF Orderly, Gone
  <2>3. ~Has(Post(c), LeftSays(c) \cup {Disconnect(c)})
    BY <2>2 DEF Has
  <2>4. ~Has(Post(c)', {l \in LeftSays(c) : l.line.now # name'[c]})
    <3>1. ~Has(Post(c)', LeftSays(c))
      BY <1>3, <2>2
    <3> QED
      BY <3>1 DEF Has
  <2> QED
    BY <1>2, <1>3, <1>4, <2>1, <2>2, <2>3, <2>4 DEF Orderly
<1> QED
  BY <1>1, <1>2, <1>3, <1>4, <1>5 DEF Leaving

\* A Disconnect is sent for a user that hung up, by the reader, now silent, or by the broker.
LEMMA LeavingHangs ==
  ASSUME Safe, NEW c \in Users, queue' = Append(queue, Disconnect(c)),
         UNCHANGED <<said, clients, name>>, sock'[c] = "closed",
         rpc[c] # "none", rpc'[c] # "none",
         ~cut'[c] /\ Intact(c)' => ~cut[c] /\ Intact(c) /\ Silent(c)'
  PROVE  Leaving(c)'
<1>1. AsyncTypeOK /\ Leaving(c)
  BY DEF Safe
<1>2. Left(c)' = Left(c) /\ Talk(c)' = Talk(c)
  BY PostSame
<1> DEFINE m == Disconnect(c)
<1>3. /\ m \in Mine(c) /\ m \in ServerCmd /\ m \notin {Connecting(c)} /\ m \notin SaysOf(c)
      /\ m \notin LeftSays(c)
  BY Kinds
<1>4. queue' = Append(queue, m)
  OBVIOUS
<1> HIDE DEF m
<1>5. /\ Post(c)' = Append(Post(c), m) /\ \A S : Has(Post(c)', S) <=> Has(Post(c), S) \/ m \in S
      /\ Lone(Post(c), LeftSays(c)) => Lone(Post(c)', LeftSays(c))
  BY <1>1, <1>3, <1>4, PostHas
<1>6. /\ Has(Post(c)', {Connecting(c)}) <=> Has(Post(c), {Connecting(c)})
      /\ Has(Post(c)', LeftSays(c)) <=> Has(Post(c), LeftSays(c))
      /\ Has(Post(c)', SaysOf(c)) <=> Has(Post(c), SaysOf(c))
  BY <1>3, <1>5
<1>7. Gone(c)' <=> Gone(c)
  BY <1>2, <1>6 DEF Gone
<1>8. ASSUME Orderly(c), Silent(c)' PROVE Orderly(c)'
  <2>1. Behind(c, Post(c)')
    <3>1. Post(c) \in Seq(ServerCmd) /\ Behind(c, Post(c))
      BY <1>1, <1>8, Views, Kinds DEF Orderly
    <3>2. Behind(c, Append(Post(c), m))
      BY <1>3, <3>1, BehindAppend
    <3> QED
      BY <1>5, <3>2
  <2>2. ~Has(Post(c)', {l \in LeftSays(c) : l.line.now # name'[c]})
    <3>1. m \notin {l \in LeftSays(c) : l.line.now # name[c]}
      BY <1>3
    <3>2. ~Has(Post(c)', {l \in LeftSays(c) : l.line.now # name[c]})
      BY <1>5, <1>8, <3>1 DEF Orderly
    <3> QED
      BY <3>2
  <2> QED
    BY <1>2, <1>6, <1>8, <2>1, <2>2 DEF Orderly
<1> QED
  BY <1>1, <1>2, <1>5, <1>6, <1>7, <1>8 DEF Leaving

\* A command read next, wherever it is now, carries the flow on.
LEMMA ToldReads ==
  ASSUME Safe, NEW c \in Users, inbox[c] # <<>>,
         inbox' = [inbox EXCEPT ![c] = Tail(@)], UNCHANGED <<sent, lost>>,
         NEW l \in Numbered(c), l.no = Number(c), l.was = name[c], name'[c] = l.now,
         Flow(c)' = Append(Flow(c), l),
         rpc'[c] = "announce" => note'[c] = l /\ l.kind = "announcement"
  PROVE  Told(c)'
<1>1. AsyncTypeOK /\ Told(c)
  BY DEF Safe
<1>2. /\ inbox \in [Users -> Seq(Names \cup {Message})] /\ sent \in [Users -> 0 .. MaxSends]
      /\ lost[c] \in Nat /\ MaxSends \in Nat
  BY <1>1, Counts DEF AsyncTypeOK, TypeOK
<1>3. /\ Number(c)' = Number(c) + 1 /\ Number(c) \in Int
      /\ sent'[c] - Len(inbox'[c]) = Number(c)
      /\ Len(inbox[c]) <= sent[c] => Len(inbox'[c]) <= sent'[c]
  <2>1. Len(inbox[c]) \in Nat /\ sent[c] \in Nat
    BY <1>2
  <2>2. Len(inbox'[c]) = Len(inbox[c]) - 1
    BY <1>2
  <2>3. sent'[c] = sent[c]
    OBVIOUS
  <2> QED
    BY <2>1, <2>2, <2>3 DEF Number
<1> DEFINE f == Flow(c)
<1>4. /\ Chained(c, f, lost[c]) /\ \A i \in 1 .. Len(f) : f[i].no < l.no
      /\ Len(inbox[c]) <= sent[c]
  BY <1>1 DEF Told, Counted
<1>5. /\ Intact(c) => l.was = NameAfter(f)
      /\ Intact(c) \/ Len(f) + 1 < lost[c] => Intact(c) /\ Number(c) = Len(f) + 1
  BY <1>1, NextNumber DEF Told
<1>6. ~Intact(c) => Len(f) + 1 >= lost[c]
  BY <1>1 DEF Told
<1>7. Flow(c)' = Append(f, l) /\ (Intact(c)' <=> Intact(c))
  BY DEF Intact
<1> HIDE DEF f
<1> DEFINE n == lost[c]
<1>7a. /\ n \in Nat /\ Chained(c, f, n)
       /\ \A i \in 1 .. Len(f) : f[i].no < l.no
       /\ Len(f) + 1 < n => l.no = Len(f) + 1 /\ l.was = NameAfter(f)
  BY <1>2, <1>4, <1>5
<1> HIDE DEF n
<1>8. /\ Chained(c, Append(f, l), n) /\ NameAfter(Append(f, l)) = l.now
      /\ Len(Append(f, l)) = Len(f) + 1
      /\ \A i \in 1 .. Len(f) + 1 : Append(f, l)[i] = IF i = Len(f) + 1 THEN l ELSE f[i]
  BY <1>7a, ChainedRead
<1>9. Len(f) \in Nat /\ \A i \in 1 .. Len(f) : f[i].no \in Nat
  BY <1>4, NumberedNat DEF Chained
<1>10. Counted(c)'
  <2>1. ASSUME NEW i \in 1 .. Len(f) + 1 PROVE Append(f, l)[i].no < Number(c)'
    <3>1. CASE i = Len(f) + 1
      BY <1>3, <1>8, <3>1
    <3>2. CASE i # Len(f) + 1
      <4>1. i \in 1 .. Len(f)
        BY <1>9, <3>2
      <4>2. Append(f, l)[i] = f[i] /\ f[i].no < Number(c) /\ f[i].no \in Nat
        BY <1>4, <1>8, <1>9, <3>2, <4>1
      <4> QED
        BY <1>3, <4>2
    <3> QED
      BY <3>1, <3>2
  <2> QED
    BY <1>3, <1>4, <1>7, <1>8, <2>1 DEF Counted, Chained, n
<1>11. ~Intact(c)' => Len(Flow(c)') + 1 >= lost'[c]
  BY <1>2, <1>6, <1>7, <1>8, <1>9
<1>12. Intact(c)' => Len(Flow(c)') = sent'[c] - Len(inbox'[c])
  BY <1>3, <1>5, <1>7, <1>8
<1>13. rpc'[c] = "announce" => note'[c] \in LinesOf(c) /\ note'[c].kind = "announcement"
  BY DEF Numbered
<1> QED
  BY <1>7, <1>8, <1>10, <1>11, <1>12, <1>13 DEF Told

\* The line a command is made of.
LEMMA NextLine ==
  ASSUME Safe, NEW c \in Users, inbox[c] # <<>>,
         NEW k \in {"announcement", "broadcast"}, NEW now \in Names \cup {NoName, Garbled}
  PROVE  [kind |-> k, of |-> c, no |-> Number(c), was |-> name[c], now |-> now]
           \in Numbered(c) \ Leavings(c)
<1>1. Number(c) \in 1 .. MaxSends /\ name[c] \in Names \cup {NoName, Garbled}
  BY NextNumber DEF Safe, AsyncTypeOK, TypeOK
<1>2. Number(c) \in 0 .. MaxSends /\ Number(c) # 0
  BY <1>1, BoundsAssumption
<1>3. [kind |-> k, of |-> c, no |-> Number(c), was |-> name[c], now |-> now] \in Lines
  BY <1>1, <1>2, LineTypes
<1> QED
  BY <1>2, <1>3 DEF Numbered, LinesOf, Leavings

\* A name is read, and is about to be announced.
LEMMA StepReadName ==
  ASSUME Safe, AsyncTypeOK', NEW c \in Users, ReadName(c), ~astray[c], Rest
  PROVE  Aside(c)' /\ Sends(c)
<1> USE DEF Rest, userVars, socketVars, readerVars, brokerVars, framingVars, writerVars
<1>1. AsyncTypeOK /\ Told(c) /\ Entry(c) /\ Leaving(c)
  BY DEF Safe
<1>2. /\ rpc[c] = "decode" /\ inbox[c] # <<>> /\ Head(inbox[c]) \in Names
      /\ inbox' = [inbox EXCEPT ![c] = Tail(@)]
      /\ UNCHANGED <<sock, sent, queue, said, lost, clients, got, bpc, cut>>
  BY DEF ReadName
<1> DEFINE l == [kind |-> "announcement", of |-> c, no |-> Number(c),
                 was |-> name[c], now |-> Head(inbox[c])]
<1>3. l \in Numbered(c)
  BY <1>2, NextLine
<1>4. l.kind = "announcement" /\ l.no = Number(c) /\ l.was = name[c] /\ l.now = Head(inbox[c])
  OBVIOUS
<1>5. note' = [note EXCEPT ![c] = l]
  BY DEF ReadName
<1> HIDE DEF l
<1>6. rpc'[c] = "announce" /\ note'[c] = l /\ name'[c] = l.now
  BY <1>1, <1>4, <1>5 DEF ReadName, AsyncTypeOK, TypeOK
<1>7. Talk(c)' = Talk(c) /\ Post(c)' = Post(c)
  BY <1>2, PostSame
<1>8. Flow(c)' = Append(Flow(c), l)
  <2>1. Unsaid(c) = <<>> /\ Unsaid(c)' = <<l>>
    BY <1>2, <1>3, <1>6 DEF Unsaid, Numbered, LinesOf
  <2>2. Stream(c, Talk(c), Post(c), <<l>>) = Append(Stream(c, Talk(c), Post(c), <<>>), l)
    BY <1>1, <1>3, Views, StreamRead
  <2> QED
    BY <1>7, <2>1, <2>2 DEF Flow
<1>9. Told(c)'
  BY <1>2, <1>3, <1>4, <1>6, <1>8, ToldReads
<1>10. sock[c] # "none"
  BY <1>1, <1>2 DEF Entry
<1>11. Entry(c)'
  BY <1>2, <1>6, <1>10, EntrySends
<1>12. ~Silent(c)
  BY <1>2 DEF Silent
<1>13. Leaving(c)'
  BY <1>2, <1>6, <1>12, LeavingSays DEF Intact
<1> QED
  BY <1>2, <1>9, <1>11, <1>13 DEF Aside, Sends

\* The announcement leaves the reader for the queue.
LEMMA StepAnnounce ==
  ASSUME Safe, AsyncTypeOK', NEW c \in Users, Announce(c), Rest
  PROVE  Aside(c)' /\ Sends(c)
<1> USE DEF Rest, userVars, socketVars, readerVars, brokerVars, framingVars, writerVars
<1>1. AsyncTypeOK /\ Told(c) /\ Entry(c) /\ Leaving(c)
  BY DEF Safe
<1>2. /\ rpc[c] = "announce" /\ queue' = Append(queue, Say(note[c]))
      /\ UNCHANGED <<sock, inbox, sent, name, said, lost, clients, got, bpc, cut>>
  BY DEF Announce
<1>3. rpc'[c] = "decode"
  BY <1>1 DEF Announce, AsyncTypeOK, TypeOK
<1> DEFINE l == note[c]
           m == Say(l)
<1>4. l \in LinesOf(c) /\ l.kind = "announcement"
  BY <1>1, <1>2 DEF Told
<1>5. /\ m \in SaysOf(c) /\ m.line = l /\ m \notin LeftSays(c)
      /\ m \in NumberedSays(c) <=> l \in Numbered(c)
  <2>1. l \notin Leavings(c)
    BY <1>4 DEF Leavings
  <2> HIDE DEF l
  <2> QED
    BY <1>4, <2>1, Kinds
<1>6. m \in Mine(c) /\ m # Connecting(c) /\ queue' = Append(queue, m)
  BY <1>2, <1>5, Kinds
<1> HIDE DEF m
<1>7. Talk(c)' = Talk(c) /\ Post(c)' = Append(Post(c), m)
  BY <1>1, <1>2, <1>6, PostSame, PostHas
<1>8. Flow(c)' = Flow(c)
  <2>1. Unsaid(c) = (IF m \in NumberedSays(c) THEN <<m.line>> ELSE <<>>) /\ Unsaid(c)' = <<>>
    BY <1>2, <1>3, <1>5 DEF Unsaid
  <2>2. IF m \in NumberedSays(c)
        THEN Stream(c, Talk(c), Append(Post(c), m), <<>>) = Stream(c, Talk(c), Post(c), <<m.line>>)
        ELSE Stream(c, Talk(c), Append(Post(c), m), <<>>) = Stream(c, Talk(c), Post(c), <<>>)
    <3>1. <<>> \in Seq(Numbered(c))
      OBVIOUS
    <3> QED
      BY <1>1, <1>6, <3>1, Views, StreamSent
  <2> QED
    BY <1>7, <2>1, <2>2 DEF Flow
<1>9. Told(c)'
  <2>1. Counted(c)'
    BY <1>1, <1>2, <1>8 DEF Told, Counted, Number
  <2> QED
    BY <1>1, <1>2, <1>3, <1>8, <2>1 DEF Told, Intact
<1>10. sock[c] # "none"
  BY <1>1, <1>2 DEF Entry
<1>11. Entry(c)'
  BY <1>2, <1>3, <1>6, <1>10, EntrySends
<1>12. ~Silent(c)
  BY <1>2 DEF Silent
<1>13. Leaving(c)'
  BY <1>2, <1>3, <1>5, <1>6, <1>12, LeavingSays DEF Intact
<1> QED
  BY <1>6, <1>9, <1>11, <1>13 DEF Aside, Sends

\* A message is read and sent at once.
LEMMA StepReadMessage ==
  ASSUME Safe, AsyncTypeOK', NEW c \in Users, ReadMessage(c), ~astray[c], Rest
  PROVE  Aside(c)' /\ Sends(c)
<1> USE DEF Rest, userVars, socketVars, readerVars, brokerVars, framingVars, writerVars
<1>1. AsyncTypeOK /\ Told(c) /\ Entry(c) /\ Leaving(c)
  BY DEF Safe
<1>2. /\ rpc[c] = "decode" /\ inbox[c] # <<>>
      /\ inbox' = [inbox EXCEPT ![c] = Tail(@)]
      /\ UNCHANGED <<sock, sent, name, rpc, note, said, lost, clients, got, bpc, cut>>
  BY DEF ReadMessage
<1> DEFINE l == [kind |-> "broadcast", of |-> c, no |-> Number(c), was |-> name[c], now |-> name[c]]
           m == Say(l)
<1>3. l \in Numbered(c) /\ l \notin Leavings(c)
  <2>1. name[c] \in Names \cup {NoName, Garbled}
    BY <1>1 DEF AsyncTypeOK, TypeOK
  <2> QED
    BY <1>2, <2>1, NextLine
<1>4. l.no = Number(c) /\ l.was = name[c] /\ l.now = name[c]
  OBVIOUS
<1>5. queue' = Append(queue, m)
  BY DEF ReadMessage
<1> HIDE DEF l
<1>6. m \in SaysOf(c) /\ m \in NumberedSays(c) /\ m.line = l /\ m \notin LeftSays(c)
  <2>1. l \in LinesOf(c)
    BY <1>3 DEF Numbered
  <2> QED
    BY <1>3, <2>1, Kinds
<1>7. m \in Mine(c) /\ m # Connecting(c)
  BY <1>6, Kinds
<1> HIDE DEF m
<1>8. Talk(c)' = Talk(c) /\ Post(c)' = Append(Post(c), m)
  BY <1>1, <1>2, <1>5, <1>7, PostSame, PostHas
<1>9. Flow(c)' = Append(Flow(c), l)
  <2>1. Unsaid(c) = <<>> /\ Unsaid(c)' = <<>>
    BY <1>2 DEF Unsaid
  <2>2. Stream(c, Talk(c), Append(Post(c), m), <<>>) = Stream(c, Talk(c), Post(c), <<l>>)
    <3>1. <<>> \in Seq(Numbered(c))
      OBVIOUS
    <3> QED
      BY <1>1, <1>6, <1>7, <3>1, Views, StreamSent
  <2>3. Stream(c, Talk(c), Post(c), <<l>>) = Append(Stream(c, Talk(c), Post(c), <<>>), l)
    BY <1>1, <1>3, Views, StreamRead
  <2> QED
    BY <1>8, <2>1, <2>2, <2>3 DEF Flow
<1>10. Told(c)'
  BY <1>2, <1>3, <1>4, <1>9, ToldReads
<1>11. sock[c] # "none"
  BY <1>1, <1>2 DEF Entry
<1>12. Entry(c)'
  BY <1>2, <1>5, <1>7, <1>11, EntrySends
<1>13. ~Silent(c)
  BY <1>2 DEF Silent
<1>14. Leaving(c)'
  BY <1>2, <1>5, <1>6, <1>13, LeavingSays DEF Intact
<1> QED
  BY <1>5, <1>7, <1>10, <1>12, <1>14 DEF Aside, Sends

\* The reader notices that the user hung up; or fails to read, again and again.
LEMMA StepHangs ==
  ASSUME Safe, AsyncTypeOK', NEW c \in Users, (ReaderEnds(c) /\ Rest) \/ ReaderFails(c)
  PROVE  Aside(c)' /\ Sends(c)
<1> USE DEF Rest, userVars, socketVars, readerVars, brokerVars, framingVars, writerVars
<1>1. AsyncTypeOK /\ Told(c) /\ Entry(c) /\ Leaving(c)
  BY DEF Safe
<1> DEFINE m == Disconnect(c)
<1>2. /\ rpc[c] \in {"decode", "failing"} /\ sock[c] = "closed" /\ queue' = Append(queue, m)
      /\ UNCHANGED <<sock, sent, name, note, said, lost, clients, got, bpc, cut>>
  BY DEF ReaderEnds, ReaderFails
<1>3. /\ inbox'[c] = inbox[c] \/ inbox'[c] = <<>>
      /\ rpc'[c] \in {"ended", "failing"}
  BY <1>1 DEF ReaderEnds, ReaderFails, AsyncTypeOK, TypeOK
<1>4. m \in Mine(c) /\ m # Connecting(c) /\ m \notin NumberedSays(c)
  BY Kinds
<1>5. Silent(c)'
  BY <1>2, <1>3 DEF Silent
<1>6. Leaving(c)'
  BY <1>2, <1>3, <1>5, LeavingHangs DEF Intact
<1> HIDE DEF m
<1>7. Talk(c)' = Talk(c) /\ Post(c)' = Append(Post(c), m)
  BY <1>1, <1>2, <1>4, PostSame, PostHas
<1>8. Flow(c)' = Flow(c)
  <2>1. Unsaid(c) = <<>> /\ Unsaid(c)' = <<>>
    BY <1>2, <1>3 DEF Unsaid
  <2>2. Stream(c, Talk(c), Append(Post(c), m), <<>>) = Stream(c, Talk(c), Post(c), <<>>)
    <3>1. <<>> \in Seq(Numbered(c))
      OBVIOUS
    <3> QED
      BY <1>1, <1>4, <3>1, Views, StreamSent
  <2> QED
    BY <1>7, <2>1, <2>2 DEF Flow
<1>9. Told(c)'
  <2>1. Counted(c)'
    <3>1. /\ lost'[c] <= lost[c] /\ sent'[c] = sent[c] /\ sent[c] \in Nat
          /\ Len(inbox[c]) \in Nat /\ Len(inbox'[c]) <= Len(inbox[c])
      BY <1>1, <1>2, <1>3, BoundsAssumption, SMTT(30) DEF AsyncTypeOK, TypeOK
    <3>2. sent'[c] - Len(inbox'[c]) >= sent[c] - Len(inbox[c])
      BY <1>3, <3>1
    <3> QED
      BY <1>1, <1>8, <3>1, <3>2, CountedKept DEF Told
  <2> QED
    BY <1>1, <1>2, <1>3, <1>8, <2>1 DEF Told, Intact
<1>10. Entry(c)'
  BY <1>2, <1>3, <1>4, EntrySends
<1> QED
  BY <1>2, <1>4, <1>6, <1>9, <1>10 DEF Aside, Sends

\* A frame is read in two parts, and text taken for frames.
LEMMA StepAstray ==
  ASSUME Safe, AsyncTypeOK', NEW c \in Users,
         PollPart(c) \/ DropsAll(c) \/ ReadAstray(c) \/ ReadPanics(c)
  PROVE  Aside(c)' /\ Sends(c)
<1> USE DEF userVars, socketVars, readerVars, brokerVars, framingVars, writerVars
<1>1. AsyncTypeOK /\ Told(c) /\ Entry(c) /\ Leaving(c)
  BY DEF Safe
<1>2. /\ rpc[c] = "decode" /\ UNCHANGED <<sock, sent, said, clients, got, bpc, cut>>
  BY DEF PollPart, DropsAll, ReadAstray, ReadPanics, vars
<1>3. ASSUME NEW k \in {"announcement", "broadcast"}, NEW now \in Names \cup {NoName, Garbled}
      PROVE  /\ Garbage(k, c, now) \in LinesOf(c) \ (Numbered(c) \cup Leavings(c))
             /\ Garbage(k, c, now).kind = k
  <2> DEFINE l == [kind |-> k, of |-> c, no |-> 0, was |-> name[c], now |-> now]
  <2>1. 0 \in 0 .. MaxSends /\ name[c] \in Names \cup {NoName, Garbled}
    BY <1>1, BoundsAssumption DEF AsyncTypeOK, TypeOK
  <2>2. l \in Lines
    BY <2>1, LineTypes
  <2>3. l \in LinesOf(c) /\ l \notin Numbered(c) /\ l \notin Leavings(c) /\ l.kind = k
    BY <2>2 DEF LinesOf, Numbered, Leavings
  <2>4. Garbage(k, c, now) = l
    BY DEF Garbage
  <2> HIDE DEF l
  <2> QED
    BY <2>3, <2>4
<1>4. /\ rpc'[c] # "none"
      /\ rpc'[c] = "announce" =>
           note'[c] \in LinesOf(c) /\ note'[c].kind = "announcement" /\ note'[c] \notin Numbered(c)
  <2> DEFINE l == Garbage("announcement", c, Garbled)
  <2>1. l \in LinesOf(c) /\ l.kind = "announcement" /\ l \notin Numbered(c)
    BY <1>3
  <2>2. \/ UNCHANGED rpc
        \/ rpc' = [rpc EXCEPT ![c] = "panicked"]
        \/ rpc' = [rpc EXCEPT ![c] = "announce"] /\ note' = [note EXCEPT ![c] = l]
    BY DEF PollPart, DropsAll, ReadAstray, ReadPanics, vars
  <2> HIDE DEF l
  <2>3. CASE UNCHANGED rpc
    BY <1>2, <2>3
  <2>4. CASE rpc' = [rpc EXCEPT ![c] = "panicked"]
    BY <1>1, <2>4 DEF AsyncTypeOK, TypeOK
  <2>5. CASE rpc' = [rpc EXCEPT ![c] = "announce"] /\ note' = [note EXCEPT ![c] = l]
    BY <1>1, <2>1, <2>5 DEF AsyncTypeOK, TypeOK
  <2> QED
    BY <2>2, <2>3, <2>4, <2>5
<1>5. UNCHANGED queue
      \/ \E m \in SaysOf(c) \ LeftSays(c) : m \notin NumberedSays(c) /\ queue' = Append(queue, m)
  <2>1. CASE UNCHANGED queue
    BY <2>1
  <2>2. CASE ReadAstray(c) /\ ~UNCHANGED queue
    <3> DEFINE l == Garbage("broadcast", c, name[c])
    <3>1. name[c] \in Names \cup {NoName, Garbled}
      BY <1>1 DEF AsyncTypeOK, TypeOK
    <3>2. l \in LinesOf(c) /\ l \notin Numbered(c) /\ l \notin Leavings(c)
      BY <1>3, <3>1
    <3>3. queue' = Append(queue, Say(l))
      BY <2>2 DEF ReadAstray
    <3> HIDE DEF l
    <3>4. Say(l) \in SaysOf(c) \ LeftSays(c) /\ Say(l) \notin NumberedSays(c)
      BY <3>2, Kinds
    <3> QED
      BY <3>3, <3>4
  <2> QED
    BY <2>1, <2>2 DEF PollPart, DropsAll, ReadPanics, vars
<1>6. UNCHANGED queue \/ \E m \in Mine(c) \ {Connecting(c)} : queue' = Append(queue, m)
  <2>1. \A m \in SaysOf(c) : m \in Mine(c) /\ m # Connecting(c)
    BY Kinds
  <2> QED
    BY <1>5, <2>1
<1>7. Flow(c)' = Flow(c)
  <2>1. Unsaid(c) = <<>> /\ Unsaid(c)' = <<>> /\ Talk(c)' = Talk(c)
    BY <1>2, <1>4, PostSame DEF Unsaid
  <2>2. CASE UNCHANGED queue
    <3>1. Post(c)' = Post(c)
      BY <2>2, PostSame
    <3> QED
      BY <2>1, <3>1 DEF Flow
  <2>3. ASSUME NEW m \in SaysOf(c), m \notin NumberedSays(c), queue' = Append(queue, m)
        PROVE  Flow(c)' = Flow(c)
    <3>1. m \in Mine(c)
      BY Kinds
    <3>2. Post(c)' = Append(Post(c), m)
      BY <1>1, <2>3, <3>1, PostHas
    <3>3. Stream(c, Talk(c), Append(Post(c), m), <<>>) = Stream(c, Talk(c), Post(c), <<>>)
      <4>1. <<>> \in Seq(Numbered(c))
        OBVIOUS
      <4> QED
        BY <1>1, <2>3, <3>1, <4>1, Views, StreamSent
    <3> QED
      BY <2>1, <3>2, <3>3 DEF Flow
  <2> QED
    BY <1>5, <2>2, <2>3
<1>8. /\ MaxSends \in Nat /\ lost \in [Users -> 1 .. MaxSends + 1] /\ lost'[c] \in 1 .. MaxSends + 1
      /\ inbox \in [Users -> Seq(Names \cup {Message})] /\ sent[c] \in Nat
  BY <1>1, Counts DEF AsyncTypeOK, TypeOK
<1>9. Len(inbox'[c]) <= Len(inbox[c]) /\ Len(inbox[c]) \in Nat /\ Len(inbox'[c]) \in Nat
  <2>1. CASE UNCHANGED inbox
    BY <1>8, <2>1
  <2>2. CASE DropsAll(c)
    BY <1>8, <2>2 DEF DropsAll
  <2>3. CASE ReadAstray(c)
    <3>1. PICK k \in 0 .. Len(inbox[c]) : inbox' = [inbox EXCEPT ![c] = SubSeq(@, k + 1, Len(@))]
      BY <2>3 DEF ReadAstray
    <3>2. Len(SubSeq(inbox[c], k + 1, Len(inbox[c]))) = Len(inbox[c]) - k /\ Len(inbox[c]) \in Nat
      BY <1>8
    <3> QED
      BY <1>8, <3>1, <3>2
  <2> QED
    BY <2>1, <2>2, <2>3 DEF PollPart, ReadPanics, vars
<1>10. ~Intact(c)' /\ lost'[c] <= lost[c] /\ Len(Flow(c)) + 1 >= lost'[c]
  <2> DEFINE n == Len(Flow(c))
  <2>1. CASE PollPart(c)
    <3>1. ~Intact(c)'
      <4>1. astray'[c]
        BY <1>1, <2>1 DEF PollPart, AsyncTypeOK
      <4> QED
        BY <4>1 DEF AsyncTypeOK
    <3>2. lost'[c] = IF Intact(c) THEN sent[c] + 1 ELSE lost[c]
      BY <1>8, <2>1 DEF PollPart
    <3>3. ASSUME Intact(c) PROVE lost'[c] <= lost[c] /\ n + 1 >= lost'[c]
      <4>1. n = sent[c]
        <5>1. inbox[c] = <<>> /\ sock[c] = "open" /\ Len(<<>>) = 0
          BY <2>1 DEF PollPart
        <5> QED
          BY <1>1, <1>8, <3>3, <5>1 DEF Told
      <4>2. lost[c] = MaxSends + 1
        BY <1>8, <3>3 DEF Intact
      <4> HIDE DEF n
      <4> QED
        BY <1>8, <3>2, <3>3, <4>1, <4>2
    <3>4. ASSUME ~Intact(c) PROVE lost'[c] <= lost[c] /\ n + 1 >= lost'[c]
      BY <1>1, <1>8, <3>2, <3>4 DEF Told
    <3> QED
      BY <3>1, <3>3, <3>4
  <2>2. CASE DropsAll(c) \/ ReadAstray(c) \/ ReadPanics(c)
    <3>1. astray[c] /\ UNCHANGED lost
      BY <2>2 DEF DropsAll, ReadAstray, ReadPanics
    <3>2. ~Intact(c) /\ ~Intact(c)'
      BY <1>1, <3>1 DEF AsyncTypeOK, Intact
    <3> QED
      BY <1>1, <1>8, <3>1, <3>2 DEF Told
  <2> QED
    BY <2>1, <2>2
<1>11. Told(c)'
  <2>1. Counted(c)'
    <3>1. sent'[c] - Len(inbox'[c]) >= sent[c] - Len(inbox[c])
      BY <1>2, <1>8, <1>9
    <3> QED
      BY <1>1, <1>7, <1>10, <3>1, CountedKept DEF Told
  <2> QED
    BY <1>4, <1>7, <1>10, <2>1 DEF Told
<1>12. sock[c] # "none"
  BY <1>1, <1>2 DEF Entry
<1>13. Entry(c)'
  BY <1>2, <1>4, <1>6, <1>12, EntrySends
<1>14. Leaving(c)'
  BY <1>2, <1>4, <1>5, <1>10, LeavingSays
<1> QED
  BY <1>6, <1>11, <1>13, <1>14 DEF Aside, Sends

\* What a user and its reader do keeps what is true of the user, and sends messages of its own.
LEMMA StepOwn ==
  ASSUME Safe, AsyncTypeOK', NEW c \in Users, MoveUser(c) \/ MoveReader(c)
  PROVE  Aside(c)' /\ Sends(c)
<1>1. CASE MoveUser(c)
  <2>1. CASE Accept(c)
    <3>1. Rest
      <4>1. sock[c] = "none"
        BY <2>1 DEF Accept
      <4>2. Accept(c) => ~MoveWrite(c) /\ ~WritePart(c) /\ ~ArriveRest(c)
        BY <4>1 DEF MoveWrite, Write, WritePart, ArriveRest
      <4> QED
        BY <1>1, <2>1, <4>2 DEF MoveUser
    <3> QED
      BY <2>1, <3>1, StepAccept
  <2> QED
    BY <1>1, <2>1, StepUser
<1>2. CASE MoveReader(c)
  <2>1. CASE MoveRead(c)
    BY <2>1, StepReadName, StepReadMessage DEF MoveRead
  <2>2. CASE Announce(c) /\ Rest
    BY <2>2, StepAnnounce
  <2>3. CASE (ReaderEnds(c) /\ Rest) \/ ReaderFails(c)
    BY <2>3, StepHangs
  <2>4. CASE PollPart(c) \/ DropsAll(c) \/ ReadAstray(c) \/ ReadPanics(c)
    BY <2>4, StepAstray
  <2> QED
    BY <1>2, <2>1, <2>2, <2>3, <2>4 DEF MoveReader
<1> QED
  BY <1>1, <1>2

\* To everybody else it is nothing.
LEMMA StepOther ==
  ASSUME Safe, AsyncTypeOK', NEW d \in Users, MoveUser(d) \/ MoveReader(d), Sends(d),
         NEW c \in Users, c # d
  PROVE  Untouched(c)
<1> USE DEF Rest, userVars, socketVars, readerVars, brokerVars, framingVars, writerVars
<1>1. AsyncTypeOK
  BY DEF Safe
<1>2. UNCHANGED <<brokerVars, cut, got>>
  BY BrokerLeft
<1>3. Talk(c)' = Talk(c) /\ Left(c)' = Left(c)
  BY <1>2, PostSame
<1>4. Post(c)' = Post(c)
  <2>1. ASSUME NEW m \in Mine(d), queue' = Append(queue, m) PROVE Post(c)' = Post(c)
    <3>1. m \notin Mine(c)
      BY Owner
    <3> QED
      BY <1>1, <2>1, <3>1, PostSent
  <2> QED
    BY <2>1, PostSame DEF Sends
<1>5. Inserting(c)' <=> Inserting(c)
  BY <1>1, <1>2, InsertingSame DEF Sends
<1>6. /\ DOMAIN sock = Users /\ DOMAIN inbox = Users /\ DOMAIN sent = Users /\ DOMAIN name = Users
      /\ DOMAIN rpc = Users /\ DOMAIN note = Users /\ DOMAIN lost = Users
  BY <1>1 DEF AsyncTypeOK, TypeOK
<1>7. UNCHANGED <<sock[c], inbox[c], sent[c], name[c], rpc[c], note[c], lost[c]>>
  <2> DEFINE Elsewhere(f) == \E v : f' = [f EXCEPT ![d] = v]
  <2>0. ASSUME NEW f, DOMAIN f = Users, NEW v PROVE [f EXCEPT ![d] = v][c] = f[c]
    OBVIOUS
  <2>1. CASE MoveUser(d)
    <3>1. /\ UNCHANGED sock \/ Elsewhere(sock)
          /\ UNCHANGED inbox \/ Elsewhere(inbox)
          /\ UNCHANGED sent \/ Elsewhere(sent)
          /\ UNCHANGED <<name, rpc, note, lost>>
      BY <2>1 DEF MoveUser, Accept, Read, Close, MoveWrite, Write, WritePart, ArriveRest, vars
    <3> QED
      BY <1>6, <2>0, <3>1
  <2>2. CASE MoveReader(d)
    <3>1. /\ UNCHANGED inbox \/ Elsewhere(inbox)
          /\ UNCHANGED name \/ Elsewhere(name)
          /\ UNCHANGED rpc \/ Elsewhere(rpc)
          /\ UNCHANGED note \/ Elsewhere(note)
          /\ UNCHANGED lost \/ Elsewhere(lost)
          /\ UNCHANGED <<sock, sent>>
      BY <2>2 DEF MoveReader, MoveRead, ReadName, ReadMessage, Announce, ReaderEnds, PollPart,
                  DropsAll, ReadAstray, ReadPanics, ReaderFails, vars
    <3> QED
      BY <1>6, <2>0, <3>1
  <2> QED
    BY <2>1, <2>2
<1> QED
  BY <1>2, <1>3, <1>4, <1>5, <1>7 DEF Untouched
-----------------------------------------------------------------------------
(* Steps of the broker *)

\* What taking the message at the head does to what waits.
LEMMA PostPops ==
  ASSUME AsyncTypeOK, NEW c \in Users, queue # <<>>, NEW m \in Mine(c), Head(queue) = m,
         NEW r, r = Only(Tail(queue), Mine(c))
  PROVE  /\ Post(c) # <<>> /\ Head(Post(c)) = m /\ r = Tail(Post(c)) /\ r \in Seq(Mine(c))
         /\ \A S : Has(Post(c), S) <=> m \in S \/ Has(r, S)
         /\ \A S : Lone(Post(c), S) => Lone(r, S) /\ (m \in S => ~Has(r, S))
         /\ Behind(c, Post(c)) =>
              /\ Behind(c, r)
              /\ m \in LeftSays(c) => ~Has(r, SaysOf(c))
              /\ m = Disconnect(c) => ~Has(r, SaysOf(c) \ LeftSays(c))
<1>1. Post(c) \in Seq(Mine(c)) /\ Post(c) \in Seq(ServerCmd)
  BY Views, Kinds
<1>2. Post(c) # <<>> /\ Head(Post(c)) = m /\ r = Tail(Post(c))
  BY PostTaken
<1>3. r \in Seq(Mine(c))
  BY <1>1, <1>2
<1>4. ASSUME NEW S PROVE Has(Post(c), S) <=> m \in S \/ Has(r, S)
  BY <1>1, <1>2, HasTail
<1>5. ASSUME NEW S, Lone(Post(c), S) PROVE Lone(r, S) /\ (m \in S => ~Has(r, S))
  BY <1>1, <1>2, <1>5, LoneTail
<1>6. ASSUME Behind(c, Post(c))
      PROVE  /\ Behind(c, r)
             /\ m \in LeftSays(c) => ~Has(r, SaysOf(c))
             /\ m = Disconnect(c) => ~Has(r, SaysOf(c) \ LeftSays(c))
  BY <1>1, <1>2, <1>6, BehindTail
<1> QED
  BY <1>2, <1>3, <1>4, <1>5, <1>6

\* Nothing happens to those the message at the head is not of.
LEMMA PostKept ==
  ASSUME AsyncTypeOK, NEW c \in Users, queue # <<>>, Head(queue) \notin Mine(c),
         \/ queue' = Tail(queue)
         \/ \E m \in ServerCmd \ Mine(c) : queue' = Append(Tail(queue), m)
  PROVE  Post(c)' = Post(c)
<1>1. Only(Tail(queue), Mine(c)) = Post(c)
  BY PostTaken
<1>2. CASE queue' = Tail(queue)
  BY <1>1, <1>2 DEF Post
<1>3. ASSUME NEW m \in ServerCmd \ Mine(c), queue' = Append(Tail(queue), m) PROVE Post(c)' = Post(c)
  <2>1. Tail(queue) \in Seq(ServerCmd)
    BY Views
  <2>2. Only(Append(Tail(queue), m), Mine(c)) = Only(Tail(queue), Mine(c))
    BY <2>1, OnlyAppend
  <2>3. Post(c)' = Only(Append(Tail(queue), m), Mine(c))
    BY <1>3 DEF Post
  <2> QED
    BY <1>1, <2>2, <2>3
<1> QED
  BY <1>2, <1>3

\* A line is said.
LEMMA StepNotify ==
  ASSUME Safe, AsyncTypeOK', Notify, Rest, NEW c \in Users
  PROVE  Aside(c)'
<1> USE DEF Rest, userVars, socketVars, readerVars, brokerVars, framingVars, writerVars
<1>1. AsyncTypeOK /\ Told(c) /\ Entry(c) /\ Leaving(c)
  BY DEF Safe
<1> DEFINE m == Head(queue)
           l == m.line
<1>2. /\ bpc = "recv" /\ bpc' # "insert" /\ queue # <<>> /\ m.cmd = "say" /\ queue' = Tail(queue)
      /\ said' = Append(said, l)
      /\ UNCHANGED <<sock, inbox, sent, got, name, rpc, note, clients, lost, cut>>
  BY DEF Notify
<1>3. ~Inserting(c) /\ ~Inserting(c)'
  BY <1>2 DEF Inserting
<1>4. m \in ServerCmd /\ l \in Lines
  <2>1. m \in ServerCmd
    <3>1. queue \in Seq(ServerCmd)
      BY <1>1, Views
    <3> QED
      BY <1>2, <3>1
  <2> QED
    BY <1>2, <2>1, Messages
<1>5. /\ m \in Mine(c) <=> l.of = c
      /\ m \in Mine(c) => m \in SaysOf(c)
      /\ l \in LinesOf(c) <=> l.of = c
      /\ m \in LeftSays(c) <=> l \in Leavings(c)
      /\ m \notin {Connecting(c)} /\ m \notin {Disconnect(c)}
  BY <1>2, <1>4 DEF Mine, SaysOf, LeftSays, Leavings, LinesOf, Connecting, Disconnect
<1>6. /\ Talk(c)' = IF l \in LinesOf(c) THEN Append(Talk(c), l) ELSE Talk(c)
      /\ Left(c)' = IF l \in Leavings(c) THEN Append(Left(c), l) ELSE Left(c)
  BY <1>1, <1>2, TalkSaid
<1>7. CASE l.of # c
  <2>1. Post(c)' = Post(c)
    BY <1>1, <1>2, <1>5, <1>7, PostKept
  <2>2. Untouched(c)
    <3>1. l \notin LinesOf(c) /\ l \notin Leavings(c)
      BY <1>5, <1>7 DEF Leavings
    <3> QED
      BY <1>2, <1>3, <1>6, <2>1, <3>1 DEF Untouched
  <2> QED
    BY <1>1, <2>2, AsideUntouched DEF Aside
<1>8. CASE l.of = c
  <2>1. /\ m \in Mine(c) /\ m \in SaysOf(c) /\ Talk(c)' = Append(Talk(c), l)
    BY <1>5, <1>6, <1>8
  <2> DEFINE p == Post(c)
             r == Only(Tail(queue), Mine(c))
  <2>2. Post(c)' = r
    BY <1>2 DEF Post
  <2> HIDE DEF m, r
  <2>3. /\ p # <<>> /\ Head(p) = m /\ r = Tail(p) /\ r \in Seq(Mine(c))
        /\ \A S : Has(p, S) <=> m \in S \/ Has(r, S)
        /\ \A S : Lone(p, S) => Lone(r, S) /\ (m \in S => ~Has(r, S))
        /\ Behind(c, p) => Behind(c, r) /\ (m \in LeftSays(c) => ~Has(r, SaysOf(c)))
    BY <1>1, <1>2, <2>1, PostPops DEF m, r
  <2>4. Flow(c)' = Flow(c)
    <3>1. Unsaid(c)' = Unsaid(c) /\ Unsaid(c) \in Seq(Numbered(c))
      BY <1>1, <1>2 DEF Unsaid
    <3>2. Stream(c, Append(Talk(c), l), r, Unsaid(c)) = Stream(c, Talk(c), p, Unsaid(c))
      <4> DEFINE u == Unsaid(c)
      <4>1. u \in Seq(Numbered(c)) /\ Talk(c) \in Seq(LinesOf(c)) /\ p \in Seq(Mine(c))
        BY <1>1, <3>1, Views
      <4> HIDE DEF u, p
      <4>2. Stream(c, Append(Talk(c), Head(p).line), Tail(p), u) = Stream(c, Talk(c), p, u)
        BY <2>1, <2>3, <4>1, StreamSaid
      <4> QED
        BY <2>3, <4>2 DEF u
    <3> QED
      BY <2>1, <2>2, <3>1, <3>2 DEF Flow
  <2>5. Told(c)'
    BY <1>1, <1>2, <2>4, ToldKept
  <2>6. sock[c] # "none"
    BY <1>1, <2>3 DEF Entry
  <2>7. /\ Has(p, {Connecting(c)}) <=> Has(r, {Connecting(c)})
        /\ Has(p, {Disconnect(c)}) <=> Has(r, {Disconnect(c)})
    BY <1>5, <2>3
  <2>8. Entry(c)'
    BY <1>1, <1>2, <1>3, <2>2, <2>3, <2>6, <2>7 DEF Entry
  <2>9. Leaving(c)'
    <3> DEFINE Wrong == {x \in LeftSays(c) : x.line.now # name[c]}
    <3>1. Behind(c, p) /\ ~Has(p, Wrong) => Behind(c, r) /\ ~Has(r, Wrong) /\ m \notin Wrong
      BY <2>3
    <3>2. CASE m \in LeftSays(c)
      <4>1. Left(c)' = Append(Left(c), l) /\ l \in Leavings(c) /\ Left(c) \in Seq(Leavings(c))
        BY <1>1, <1>5, <1>6, <3>2, Views
      <4>2. Has(p, LeftSays(c)) /\ ~Has(r, LeftSays(c)) /\ Lone(r, LeftSays(c))
        BY <1>1, <2>3, <3>2 DEF Leaving, Intact
      <4>3. Left(c) = <<>> /\ Gone(c)
        BY <1>1, <4>2 DEF Leaving, Gone
      <4>4. Left(c)' = <<l>> /\ Left(c)' # <<>> /\ Len(Left(c)') = 1 /\ Last(Left(c)') = l
        BY <4>1, <4>3 DEF Last
      <4>5. Last(Talk(c)') = l
        <5>1. Talk(c) \in Seq(LinesOf(c)) /\ l \in LinesOf(c)
          BY <1>1, <1>5, <1>8, Views
        <5> HIDE DEF l
        <5> QED
          BY <2>1, <5>1 DEF Last
      <4>6. ASSUME Orderly(c) PROVE Orderly(c)'
        <5>1. ~Has(p, Wrong) /\ Behind(c, p) /\ Silent(c)
          BY <4>3, <4>6 DEF Orderly
        <5>2. l.now = name[c]
          BY <3>1, <3>2, <5>1 DEF m
        <5>3. ~Has(r, SaysOf(c))
          BY <2>3, <3>2, <5>1
        <5>4. Silent(c)'
          BY <1>2, <5>1 DEF Silent
        <5>5. ~Has(Post(c)', {x \in LeftSays(c) : x.line.now # name'[c]})
          BY <1>2, <2>2, <3>1, <5>1
        <5> QED
          BY <1>2, <2>2, <3>1, <4>4, <4>5, <5>1, <5>2, <5>3, <5>4, <5>5 DEF Orderly
      <4> QED
        BY <1>1, <1>2, <2>2, <2>7, <4>2, <4>3, <4>4, <4>6 DEF Leaving, Intact
    <3>3. CASE m \notin LeftSays(c)
      <4>1. Left(c)' = Left(c) /\ (Has(p, LeftSays(c)) <=> Has(r, LeftSays(c)))
        BY <1>5, <1>6, <2>3, <3>3
      <4>2. Gone(c)' <=> Gone(c)
        BY <2>2, <4>1 DEF Gone
      <4>3. ASSUME Orderly(c) PROVE Orderly(c)'
        <5>1. Left(c) = <<>>
          BY <2>1, <2>3, <4>3 DEF Orderly
        <5>2. ~Has(Post(c)', {x \in LeftSays(c) : x.line.now # name'[c]}) /\ Behind(c, Post(c)')
          <6>1. Behind(c, p) /\ ~Has(p, Wrong)
            BY <4>3 DEF Orderly
          <6> QED
            BY <1>2, <2>2, <3>1, <6>1
        <5>3. Silent(c)' <=> Silent(c)
          BY <1>2 DEF Silent
        <5> QED
          BY <2>2, <2>7, <4>1, <4>2, <4>3, <5>1, <5>2, <5>3 DEF Orderly
      <4>4. Lone(r, LeftSays(c))
        BY <1>1, <2>3 DEF Leaving, Intact
      <4> QED
        BY <1>1, <1>2, <2>2, <2>7, <4>1, <4>2, <4>3, <4>4 DEF Leaving, Intact
    <3> QED
      BY <3>2, <3>3
  <2> QED
    BY <2>5, <2>8, <2>9 DEF Aside
<1> QED
  BY <1>7, <1>8

\* The message at the head of the queue belongs to one user.
LEMMA HeadOwner ==
  ASSUME AsyncTypeOK, queue # <<>>, Head(queue).cmd # "say"
  PROVE  /\ Head(queue).of \in Users
         /\ Head(queue).cmd = "connect" => Head(queue) = Connecting(Head(queue).of)
         /\ Head(queue).cmd = "disconnect" => Head(queue) = Disconnect(Head(queue).of)
         /\ \A c \in Users : Head(queue) \in Mine(c) <=> c = Head(queue).of
<1>1. Head(queue) \in ServerCmd
  <2>1. queue \in Seq(ServerCmd)
    BY Views
  <2> QED
    BY <2>1
<1> QED
  BY <1>1 DEF ServerCmd, Connecting, Disconnect, Mine, SaysOf

\* The reader of a new user is started.
LEMMA StepSpawn ==
  ASSUME Safe, AsyncTypeOK', Spawn, Rest, NEW c \in Users
  PROVE  Aside(c)'
<1> USE DEF Rest, userVars, socketVars, readerVars, brokerVars, framingVars, writerVars
<1>1. AsyncTypeOK /\ Told(c) /\ Entry(c) /\ Leaving(c)
  BY DEF Safe
<1> DEFINE m == Head(queue)
<1>2. /\ bpc = "recv" /\ bpc' = "insert" /\ queue # <<>> /\ m.cmd = "connect"
      /\ rpc' = [rpc EXCEPT ![m.of] = "decode"]
      /\ UNCHANGED <<queue, said, sock, inbox, sent, got, name, note, clients, lost, cut>>
  BY DEF Spawn
<1>3. m.of \in Users /\ m = Connecting(m.of) /\ (m \in Mine(c) <=> c = m.of)
  BY <1>1, <1>2, HeadOwner
<1>4. Talk(c)' = Talk(c) /\ Left(c)' = Left(c) /\ Post(c)' = Post(c) /\ ~Inserting(c)
  BY <1>2, PostSame DEF Inserting
<1>5. CASE m.of # c
  <2>1. m # Connecting(c) /\ rpc'[c] = rpc[c]
    BY <1>1, <1>2, <1>3, <1>5, SMTT(30) DEF Connecting, AsyncTypeOK, TypeOK
  <2>2. ~Inserting(c)'
    BY <1>2, <2>1 DEF Inserting
  <2>3. Untouched(c)
    BY <1>2, <1>4, <2>1, <2>2 DEF Untouched
  <2> QED
    BY <1>1, <2>3, AsideUntouched DEF Aside
<1>6. CASE m.of = c
  <2>1. m = Connecting(c) /\ m \in Mine(c)
    BY <1>3, <1>6
  <2>2. Inserting(c)' /\ rpc'[c] = "decode"
    BY <1>1, <1>2, <1>6, <2>1 DEF Inserting, AsyncTypeOK, TypeOK
  <2> HIDE DEF m
  <2>3. Has(Post(c), {Connecting(c)}) /\ Post(c) # <<>>
    <3>1. m = Head(queue)
      BY DEF m
    <3>2. \A S : Has(Post(c), S) <=> m \in S \/ Has(Only(Tail(queue), Mine(c)), S)
      BY <1>1, <1>2, <2>1, <3>1, PostPops
    <3>3. Post(c) # <<>>
      BY <1>1, <1>2, <2>1, <3>1, PostPops
    <3> QED
      BY <2>1, <3>2, <3>3
  <2>4. rpc[c] = "none" /\ c \notin clients /\ got[c] = <<>> /\ sock[c] # "none" /\ ~Gone(c)
    BY <1>1, <1>4, <2>3 DEF Entry, Leaving
  <2>5. Told(c)'
    <3>1. Flow(c)' = Flow(c)
      BY <1>4, <2>2, <2>4 DEF Flow, Unsaid
    <3> QED
      BY <1>1, <1>2, <2>2, <3>1, ToldKept
  <2>6. Entry(c)'
    BY <1>1, <1>2, <1>4, <2>2, <2>4 DEF Entry
  <2>7. Leaving(c)'
    <3>1. Gone(c)' <=> Gone(c)
      BY <1>4 DEF Gone
    <3>2. Orderly(c) => Orderly(c)'
      <4>1. ~Silent(c)
        BY <2>4 DEF Silent
      <4> QED
        BY <1>2, <1>4, <2>4, <3>1, <4>1 DEF Orderly
    <3> QED
      BY <1>1, <1>2, <1>4, <2>4, <3>1, <3>2 DEF Leaving, Intact
  <2> QED
    BY <2>5, <2>6, <2>7 DEF Aside
<1> QED
  BY <1>5, <1>6

\* A new user is inserted.
LEMMA StepInsert ==
  ASSUME Safe, AsyncTypeOK', Insert, Rest, NEW c \in Users
  PROVE  Aside(c)'
<1> USE DEF Rest, userVars, socketVars, readerVars, brokerVars, framingVars, writerVars
<1>1. AsyncTypeOK /\ Told(c) /\ Entry(c) /\ Leaving(c)
  BY DEF Safe
<1> DEFINE m == Head(queue)
<1>2. /\ bpc = "insert" /\ bpc' = "recv" /\ queue # <<>> /\ m.cmd = "connect" /\ queue' = Tail(queue)
      /\ clients' = clients \cup {m.of}
      /\ UNCHANGED <<said, sock, inbox, sent, got, name, rpc, note, lost, cut>>
  BY <1>1 DEF Insert, AsyncTypeOK, TypeOK
<1>3. m.of \in Users /\ m = Connecting(m.of) /\ (m \in Mine(c) <=> c = m.of)
  BY <1>1, <1>2, HeadOwner
<1>4. Talk(c)' = Talk(c) /\ Left(c)' = Left(c) /\ ~Inserting(c)'
  BY <1>2, PostSame DEF Inserting
<1>5. CASE m.of # c
  <2>1. m # Connecting(c)
    BY <1>3, <1>5 DEF Connecting
  <2>2. ~Inserting(c)
    BY <2>1 DEF Inserting
  <2>3. Post(c)' = Post(c)
    BY <1>1, <1>2, <1>3, <1>5, PostKept
  <2>4. Untouched(c)
    BY <1>2, <1>4, <1>5, <2>2, <2>3 DEF Untouched
  <2> QED
    BY <1>1, <2>4, AsideUntouched DEF Aside
<1>6. CASE m.of = c
  <2>1. m = Connecting(c) /\ m \in Mine(c) /\ clients' = clients \cup {c} /\ Inserting(c)
    BY <1>2, <1>3, <1>6 DEF Inserting
  <2> DEFINE p == Post(c)
             r == Only(Tail(queue), Mine(c))
  <2>2. Post(c)' = r
    BY <1>2 DEF Post
  <2> HIDE DEF m, r
  <2>3. /\ p # <<>> /\ Head(p) = m /\ r = Tail(p)
        /\ \A S : Has(p, S) <=> m \in S \/ Has(r, S)
        /\ \A S : Lone(p, S) => Lone(r, S) /\ (m \in S => ~Has(r, S))
        /\ Behind(c, p) => Behind(c, r)
    BY <1>1, <1>2, <2>1, PostPops DEF m, r
  <2>4. /\ rpc[c] # "none" /\ sock[c] # "none" /\ Has(p, {Connecting(c)})
        /\ ~Has(r, {Connecting(c)}) /\ Lone(r, {Connecting(c)})
    BY <1>1, <2>1, <2>3 DEF Entry
  <2>5. ~Gone(c)
    BY <1>1, <2>4 DEF Leaving, Intact
  <2>6. m \notin SaysOf(c) /\ m \notin LeftSays(c) /\ m \notin {Disconnect(c)}
    BY <2>1, Kinds
  <2>7. Told(c)'
    <3>1. Unsaid(c)' = Unsaid(c) /\ Unsaid(c) \in Seq(Numbered(c))
      BY <1>1, <1>2 DEF Unsaid
    <3>2. Stream(c, Talk(c), r, Unsaid(c)) = Stream(c, Talk(c), p, Unsaid(c))
      <4> DEFINE u == Unsaid(c)
      <4>1. u \in Seq(Numbered(c)) /\ Talk(c) \in Seq(LinesOf(c)) /\ p \in Seq(Mine(c))
        BY <1>1, <3>1, Views
      <4> HIDE DEF u, p
      <4>2. Stream(c, Talk(c), Tail(p), u) = Stream(c, Talk(c), p, u)
        BY <2>3, <2>6, <4>1, StreamSaid
      <4> QED
        BY <2>3, <4>2 DEF u
    <3>3. Flow(c)' = Flow(c)
      BY <1>4, <2>2, <3>1, <3>2 DEF Flow
    <3> QED
      BY <1>1, <1>2, <3>3, ToldKept
  <2>8. Entry(c)'
    BY <1>2, <1>4, <2>1, <2>2, <2>4 DEF Entry
  <2>9. Leaving(c)'
    <3>1. /\ Has(p, {Disconnect(c)}) <=> Has(r, {Disconnect(c)})
          /\ Has(p, LeftSays(c)) <=> Has(r, LeftSays(c))
          /\ Has(p, SaysOf(c)) <=> Has(r, SaysOf(c))
      BY <2>3, <2>6
    <3>2. ~Gone(c)' /\ ~Has(r, LeftSays(c)) /\ Lone(r, LeftSays(c))
      BY <1>1, <1>4, <2>2, <2>3, <2>5, <3>1 DEF Gone, Leaving
    <3>3. ASSUME Orderly(c) PROVE Orderly(c)'
      <4>1. ~Has(r, {x \in LeftSays(c) : x.line.now # name[c]})
        BY <2>3, <3>3 DEF Orderly
      <4>2. Behind(c, r)
        BY <2>3, <3>3 DEF Orderly
      <4>3. Silent(c)' <=> Silent(c)
        BY <1>2 DEF Silent
      <4>4. ~Has(Post(c)', {x \in LeftSays(c) : x.line.now # name'[c]})
        BY <1>2, <2>2, <4>1
      <4> QED
        BY <1>2, <1>4, <2>2, <3>1, <3>2, <3>3, <4>2, <4>3, <4>4 DEF Orderly
    <3> QED
      BY <1>1, <1>2, <1>4, <2>2, <3>1, <3>2, <3>3 DEF Leaving, Intact
  <2> QED
    BY <2>7, <2>8, <2>9 DEF Aside
<1> QED
  BY <1>5, <1>6

\* A user is dropped, and its farewell sent; or it was before.
LEMMA StepDrop ==
  ASSUME Safe, AsyncTypeOK', DropClient, Rest, NEW c \in Users
  PROVE  Aside(c)'
<1> USE DEF Rest, userVars, socketVars, readerVars, brokerVars, framingVars, writerVars
<1>1. AsyncTypeOK /\ Told(c) /\ Entry(c) /\ Leaving(c)
  BY DEF Safe
<1> DEFINE m == Head(queue)
           l == [kind |-> "left", of |-> m.of, no |-> 0, was |-> name[m.of], now |-> name[m.of]]
           n == Say(l)
<1>2. /\ bpc = "recv" /\ bpc' = "recv" /\ queue # <<>> /\ m.cmd = "disconnect"
      /\ clients' = clients \ {m.of}
      /\ queue' = IF m.of \in clients THEN Append(Tail(queue), n) ELSE Tail(queue)
      /\ UNCHANGED <<said, sock, inbox, sent, got, name, rpc, note, lost, cut>>
  BY DEF DropClient
<1>3. m.of \in Users /\ m = Disconnect(m.of) /\ (m \in Mine(c) <=> c = m.of)
  BY <1>1, <1>2, HeadOwner
<1>4. /\ Talk(c)' = Talk(c) /\ Left(c)' = Left(c) /\ ~Inserting(c) /\ ~Inserting(c)'
  BY <1>2, PostSame DEF Inserting
<1>5. n \in LeftSays(m.of) /\ n.line = l /\ l.no = 0 /\ l.now = name[m.of] /\ n \in SaysOf(m.of)
  <2>1. 0 \in 0 .. MaxSends /\ name[m.of] \in Names \cup {NoName, Garbled}
    <3>1. 0 \in 0 .. MaxSends
      BY BoundsAssumption
    <3>2. name \in [Users -> Names \cup {NoName, Garbled}]
      BY <1>1 DEF AsyncTypeOK, TypeOK
    <3> QED
      BY <1>3, <3>1, <3>2
  <2>2. l \in Lines
    BY <1>3, <2>1, LineTypes
  <2>3. l \in LinesOf(m.of) /\ l \in Leavings(m.of) /\ l.no = 0 /\ l.now = name[m.of]
    BY <2>2 DEF LinesOf, Leavings
  <2> HIDE DEF l, m
  <2> QED
    BY <1>3, <2>3, Kinds
<1>6. n \in Mine(m.of) /\ n \in ServerCmd /\ n \notin NumberedSays(m.of)
  <2> HIDE DEF n, m, l
  <2> QED
    BY <1>3, <1>5, Kinds DEF NumberedSays
<1> HIDE DEF n, l
<1>7. CASE m.of # c
  <2>1. Post(c)' = Post(c)
    <3>1. n \notin Mine(c)
      BY <1>3, <1>6, <1>7, Owner
    <3> QED
      BY <1>1, <1>2, <1>3, <1>6, <1>7, <3>1, PostKept
  <2>2. Untouched(c)
    BY <1>2, <1>4, <1>7, <2>1 DEF Untouched
  <2> QED
    BY <1>1, <2>2, AsideUntouched DEF Aside
<1>8. CASE m.of = c
  <2>1. m = Disconnect(c) /\ m \in Mine(c) /\ clients' = clients \ {c}
    BY <1>2, <1>3, <1>8
  <2> DEFINE p == Post(c)
             r == Only(Tail(queue), Mine(c))
             Wrong == {x \in LeftSays(c) : x.line.now # name[c]}
  <2>2. Post(c)' = IF c \in clients THEN Append(r, n) ELSE r
    <3>1. Tail(queue) \in Seq(ServerCmd)
      <4>1. queue \in Seq(ServerCmd)
        BY <1>1, Views
      <4> QED
        BY <1>2, <4>1
    <3>2. Only(Append(Tail(queue), n), Mine(c)) = Append(r, n)
      <4>1. n \in Mine(c)
        BY <1>6, <1>8
      <4> DEFINE q == Tail(queue)
                 M == Mine(c)
      <4>2. q \in Seq(ServerCmd) /\ n \in M
        BY <3>1, <4>1
      <4> HIDE DEF m, q, M
      <4>3. Only(Append(q, n), M) = Append(Only(q, M), n)
        BY <4>2, OnlyAppend
      <4> QED
        BY <4>3 DEF q, M
    <3> QED
      BY <1>2, <1>8, <3>2 DEF Post
  <2> HIDE DEF m, r
  <2>3. /\ p # <<>> /\ Head(p) = m /\ r = Tail(p) /\ r \in Seq(Mine(c))
        /\ \A S : Has(p, S) <=> m \in S \/ Has(r, S)
        /\ \A S : Lone(p, S) => Lone(r, S) /\ (m \in S => ~Has(r, S))
        /\ Behind(c, p) => Behind(c, r) /\ ~Has(r, SaysOf(c) \ LeftSays(c))
    BY <1>1, <1>2, <2>1, PostPops DEF m, r
  <2>4. m \notin {Connecting(c)} /\ m \notin SaysOf(c) /\ m \notin LeftSays(c) /\ m \in {Disconnect(c)}
    BY <2>1, Kinds
  <2>5. /\ Has(p, {Disconnect(c)}) /\ sock[c] = "closed"
        /\ Has(p, {Connecting(c)}) <=> Has(r, {Connecting(c)})
        /\ Has(p, LeftSays(c)) <=> Has(r, LeftSays(c))
        /\ Has(p, SaysOf(c)) <=> Has(r, SaysOf(c))
        /\ Lone(r, {Connecting(c)}) /\ Lone(r, LeftSays(c))
    BY <1>1, <2>3, <2>4 DEF Leaving, Entry
  <2>6. n \in LeftSays(c) /\ n \in SaysOf(c) /\ n.line.now = name[c] /\ n.line.no = 0
        /\ n \in Mine(c) /\ n \in ServerCmd /\ n \notin NumberedSays(c)
    BY <1>5, <1>6, <1>8
  <2>7. n \notin {Connecting(c)} /\ n \notin {Disconnect(c)} /\ n \notin Wrong
    BY <2>6, Kinds
  <2>8. /\ c \in clients => \A S : Has(Post(c)', S) <=> Has(r, S) \/ n \in S
        /\ c \in clients => \A S : Lone(r, S) /\ ~(n \in S /\ Has(r, S)) => Lone(Post(c)', S)
    <3>1. \A S : Has(Append(r, n), S) <=> Has(r, S) \/ n \in S
      BY <2>3, <2>6, HasAppend
    <3>2. ASSUME NEW S, Lone(r, S), ~(n \in S /\ Has(r, S)) PROVE Lone(Append(r, n), S)
      BY <2>3, <2>6, <3>2, LoneAppend
    <3> QED
      BY <2>2, <3>1, <3>2
  <2>9. Flow(c)' = Flow(c)
    <3> DEFINE u == Unsaid(c)
    <3>1. Unsaid(c)' = u /\ u \in Seq(Numbered(c))
      BY <1>1, <1>2 DEF Unsaid
    <3>2. u \in Seq(Numbered(c)) /\ Talk(c) \in Seq(LinesOf(c)) /\ p \in Seq(Mine(c))
      BY <1>1, <3>1, Views
    <3>3. Flow(c) = Stream(c, Talk(c), p, u) /\ Flow(c)' = Stream(c, Talk(c), Post(c)', u)
      BY <1>4, <3>1 DEF Flow
    <3> HIDE DEF u, p
    <3>4. Stream(c, Talk(c), r, u) = Stream(c, Talk(c), p, u)
      BY <2>3, <2>4, <3>2, StreamSaid
    <3>5. Stream(c, Talk(c), Append(r, n), u) = Stream(c, Talk(c), r, u)
      <4> DEFINE t == Talk(c)
      <4>1. t \in Seq(LinesOf(c)) /\ r \in Seq(Mine(c))
        BY <2>3, <3>2
      <4> HIDE DEF t
      <4>2. Stream(c, t, Append(r, n), u) = Stream(c, t, r, u)
        BY <2>6, <3>2, <4>1, StreamSent
      <4> QED
        BY <4>2 DEF t
    <3> QED
      BY <2>2, <3>3, <3>4, <3>5
  <2>10. Told(c)'
    BY <1>1, <1>2, <2>9, ToldKept
  <2>11. sock[c] # "none" /\ (c \in clients => rpc[c] # "none" /\ ~Has(r, {Connecting(c)}))
    BY <1>1, <2>3, <2>5 DEF Entry, AsyncTypeOK, TypeOK
  <2>12. CASE c \notin clients
    <3>1. Entry(c)'
      BY <1>1, <1>2, <1>4, <2>1, <2>2, <2>5, <2>11, <2>12 DEF Entry
    <3>2. Gone(c)' <=> Gone(c)
      BY <1>4, <2>2, <2>5, <2>12 DEF Gone
    <3>3. ASSUME Orderly(c) PROVE Orderly(c)'
      <4>1. ~Has(r, Wrong) /\ Behind(c, r)
        BY <2>3, <3>3 DEF Orderly
      <4>2. ~Has(Post(c)', {x \in LeftSays(c) : x.line.now # name'[c]}) /\ Behind(c, Post(c)')
        BY <1>2, <2>2, <2>12, <4>1
      <4>3. Silent(c) /\ Silent(c)'
        BY <1>2, <2>5, <3>3 DEF Silent, Orderly
      <4> QED
        BY <1>2, <1>4, <2>2, <2>5, <2>12, <3>3, <4>2, <4>3 DEF Orderly
    <3>4. Has(r, {Disconnect(c)}) => Has(p, {Disconnect(c)})
      BY <2>3
    <3>5. Leaving(c)'
      BY <1>1, <1>2, <1>4, <2>1, <2>2, <2>5, <2>12, <3>2, <3>3, <3>4 DEF Leaving, Intact
    <3> QED
      BY <2>10, <3>1, <3>5 DEF Aside
  <2>13. CASE c \in clients
    <3>1. Post(c)' = Append(r, n) /\ ~Gone(c) /\ Left(c) = <<>> /\ ~Has(r, LeftSays(c))
      BY <1>1, <2>2, <2>5, <2>13 DEF Leaving, Gone
    <3>2. /\ ~Has(Post(c)', {Connecting(c)}) /\ Lone(Post(c)', {Connecting(c)})
          /\ Lone(Post(c)', LeftSays(c))
          /\ Has(Post(c)', {Disconnect(c)}) => Has(p, {Disconnect(c)})
      BY <2>3, <2>5, <2>7, <2>8, <2>11, <2>13, <3>1
    <3>3. Entry(c)'
      BY <1>2, <2>1, <2>5, <2>11, <2>13, <3>2 DEF Entry
    <3>4. ASSUME Orderly(c) PROVE Orderly(c)'
      <4>1. Behind(c, r) /\ ~Has(p, Wrong)
        BY <2>3, <3>4 DEF Orderly
      <4>2. Behind(c, Append(r, n))
        <5>1. r \in Seq(ServerCmd)
          BY <2>3, Kinds
        <5> QED
          BY <2>6, <3>1, <4>1, <5>1, BehindAppend
      <4>3. ~Has(Post(c)', Wrong)
        BY <2>3, <2>7, <2>8, <2>13, <4>1
      <4>4. ~Has(Post(c)', {x \in LeftSays(c) : x.line.now # name'[c]})
        BY <1>2, <4>3
      <4>5. Silent(c)'
        BY <1>2, <2>5, <3>4 DEF Silent, Orderly
      <4> QED
        BY <1>4, <3>1, <4>2, <4>4, <4>5 DEF Orderly
    <3>5. Leaving(c)'
      BY <1>1, <1>2, <1>4, <2>1, <2>5, <2>11, <2>13, <3>1, <3>2, <3>4 DEF Leaving, Intact
    <3> QED
      BY <2>10, <3>3, <3>5 DEF Aside
  <2> QED
    BY <2>12, <2>13
<1> QED
  BY <1>7, <1>8

\* A line is written to a user, or a piece of it.
LEMMA StepSent ==
  ASSUME Safe, AsyncTypeOK', NEW d \in Users, NEW c \in Users,
         MoveSent(d) \/ SendPart(d) \/ SendPanics(d) \/ SendWaits(d)
  PROVE  Aside(c)'
<1> USE DEF userVars, socketVars, readerVars, brokerVars, framingVars, writerVars
<1>1. AsyncTypeOK /\ Aside(c)
  BY DEF Safe, Aside
<1>2. /\ bpc = "notify" /\ bpc' # "insert"
      /\ UNCHANGED <<queue, said, sock, inbox, sent, name, rpc, note, clients, lost, cut>>
  BY DEF MoveSent, Done, SendPart, SendPanics, SendWaits, Takes, vars
<1>3. got'[c] = got[c] \/ c \in clients
  <2>1. MoveSent(d) => d \in clients /\ (UNCHANGED got \/ \E s : got' = [got EXCEPT ![d] = s])
    BY <1>1 DEF MoveSent, AsyncTypeOK, TypeOK
  <2>2. ASSUME NEW s, c # d PROVE [got EXCEPT ![d] = s][c] = got[c]
    BY <1>1, <2>2 DEF AsyncTypeOK, TypeOK
  <2>3. ~MoveSent(d) => UNCHANGED got
    BY DEF SendPart, SendPanics, SendWaits, vars
  <2> QED
    BY <2>1, <2>2, <2>3
<1>4. Untouched(c)
  BY <1>2, <1>3, PostSame DEF Untouched, Inserting
<1> QED
  BY <1>1, <1>4, AsideUntouched

\* A write to a user that hung up fails: the broker sends itself a Disconnect.
LEMMA StepFails ==
  ASSUME Safe, AsyncTypeOK', NEW d \in Users, NEW c \in Users, MoveFails(d)
  PROVE  Aside(c)'
<1> USE DEF userVars, socketVars, readerVars, brokerVars, framingVars, writerVars
<1>1. AsyncTypeOK /\ Told(c) /\ Entry(c) /\ Leaving(c)
  BY DEF Safe
<1> DEFINE m == Disconnect(d)
<1>2. /\ bpc = "notify" /\ bpc' # "insert" /\ d \in clients /\ sock[d] = "closed"
      /\ queue' = Append(queue, m) /\ cut' = [cut EXCEPT ![d] = TRUE]
      /\ UNCHANGED <<said, sock, inbox, sent, name, rpc, note, clients, lost, got>>
  BY <1>1 DEF MoveFails, SendFails, Done, AsyncTypeOK, TypeOK
<1>3. Talk(c)' = Talk(c) /\ Left(c)' = Left(c) /\ ~Inserting(c) /\ ~Inserting(c)'
  BY <1>2, PostSame DEF Inserting
<1>4. CASE c # d
  <2>1. m \notin Mine(c)
    <3>1. m \in Mine(d)
      BY Kinds
    <3> QED
      BY <1>4, <3>1, Owner
  <2>2. Post(c)' = Post(c)
    BY <1>1, <1>2, <2>1, PostSent
  <2>3. cut'[c] = cut[c]
    BY <1>1, <1>2, <1>4 DEF AsyncTypeOK, TypeOK
  <2>4. Untouched(c)
    BY <1>2, <1>3, <2>2, <2>3 DEF Untouched
  <2> QED
    BY <1>1, <2>4, AsideUntouched DEF Aside
<1>5. CASE c = d
  <2>1. m \in Mine(c) /\ m \notin {Connecting(c)} /\ m \notin NumberedSays(c)
    BY <1>5, Kinds
  <2>2. cut'[c] /\ rpc[c] # "none"
    BY <1>1, <1>2, <1>5 DEF AsyncTypeOK, TypeOK
  <2>3. Leaving(c)'
    BY <1>2, <1>5, <2>2, LeavingHangs
  <2> HIDE DEF m
  <2>4. /\ Post(c)' = Append(Post(c), m)
        /\ Has(Post(c)', {Connecting(c)}) <=> Has(Post(c), {Connecting(c)})
        /\ Lone(Post(c), {Connecting(c)}) => Lone(Post(c)', {Connecting(c)})
    BY <1>1, <1>2, <2>1, PostHas
  <2>5. Flow(c)' = Flow(c)
    <3> DEFINE u == Unsaid(c)
               t == Talk(c)
               p == Post(c)
    <3>1. Unsaid(c)' = u /\ u \in Seq(Numbered(c)) /\ t \in Seq(LinesOf(c)) /\ p \in Seq(Mine(c))
      BY <1>1, <1>2, Views DEF Unsaid
    <3>2. Flow(c) = Stream(c, t, p, u) /\ Flow(c)' = Stream(c, t, Append(p, m), u)
      BY <1>3, <2>4, <3>1 DEF Flow
    <3> HIDE DEF u, t, p
    <3>3. Stream(c, t, Append(p, m), u) = Stream(c, t, p, u)
      BY <2>1, <3>1, StreamSent
    <3> QED
      BY <3>2, <3>3
  <2>6. Told(c)'
    BY <1>1, <1>2, <2>5, ToldKept
  <2>7. Entry(c)'
    BY <1>1, <1>2, <1>3, <1>5, <2>2, <2>4 DEF Entry
  <2> QED
    BY <2>3, <2>6, <2>7 DEF Aside
<1> QED
  BY <1>4, <1>5

\* No step takes anything from what is true of a user.
LEMMA AsideStep ==
  ASSUME Safe, AsyncTypeOK', MoveBroker \/ \E d \in Users : MoveUser(d) \/ MoveReader(d),
         NEW c \in Users
  PROVE  Aside(c)'
<1>1. ASSUME NEW d \in Users, MoveUser(d) \/ MoveReader(d) PROVE Aside(c)'
  <2>1. Aside(d)' /\ Sends(d)
    BY <1>1, StepOwn
  <2>2. CASE c # d
    <3>1. Untouched(c)
      BY <1>1, <2>1, <2>2, StepOther
    <3> QED
      BY <3>1, AsideUntouched DEF Safe, Aside
  <2> QED
    BY <2>1, <2>2
<1>2. CASE MoveBroker
  <2>1. CASE (Notify \/ Spawn \/ Insert \/ DropClient) /\ Rest
    BY <2>1, StepNotify, StepSpawn, StepInsert, StepDrop
  <2>2. ASSUME NEW d \in Users,
               MoveSent(d) \/ MoveFails(d) \/ SendPart(d) \/ SendPanics(d) \/ SendWaits(d)
        PROVE  Aside(c)'
    BY <2>2, StepSent, StepFails
  <2> QED
    BY <1>2, <2>1, <2>2 DEF MoveBroker
<1> QED
  BY <1>1, <1>2
-----------------------------------------------------------------------------
(* What a user was sent *)

\* What c is to be sent of the lines s, when it joined behind line j, up to line n.
Audible(c) == {l \in Lines : ~(l.kind = "broadcast" /\ l.of = c)}
Hearing(c, s, j, n) == Only(SubSeq(s, j + 1, n), Audible(c))

\* A prefix element by element.
LEMMA PrefixOf ==
  ASSUME NEW V, NEW s \in Seq(V), NEW t \in Seq(V)
  PROVE  IsPrefix(s, t) <=> Len(s) <= Len(t) /\ \A i \in 1 .. Len(s) : s[i] = t[i]
<1> DEFINE n == Len(s)
           a == SubSeq(s, 1, n)
           b == SubSeq(t, 1, n)
<1>1. n \in Nat /\ Len(t) \in Nat
  OBVIOUS
<1>2. a = s
  BY SubSeqFull
<1>3. ASSUME n <= Len(t) PROVE Len(b) = n /\ b \in Seq(V) /\ \A i \in 1 .. n : b[i] = t[i]
  <2>1. \A i \in 1 .. n : t[i] \in V
    BY <1>1, <1>3
  <2>2. /\ b \in Seq(V) /\ Len(b) = IF 1 <= n THEN n - 1 + 1 ELSE 0
        /\ \A i \in 1 .. n - 1 + 1 : b[i] = t[1 + i - 1]
    BY <1>1, <2>1, SubSeqProperties
  <2> HIDE DEF b, n
  <2>3. Len(b) = n
    BY <1>1, <2>2
  <2>4. \A i \in 1 .. n : b[i] = t[i]
    BY <1>1, <2>2
  <2> QED
    BY <2>2, <2>3, <2>4
<1>4. IsPrefix(s, t) <=> n <= Len(t) /\ a = b
  BY DEF IsPrefix
<1> HIDE DEF a, b
<1>5. ASSUME n <= Len(t), \A i \in 1 .. n : s[i] = t[i] PROVE s = b
  BY <1>1, <1>3, <1>5, SeqEqual
<1> QED
  BY <1>2, <1>3, <1>4, <1>5

\* Nothing and all there is are prefixes, and a prefix stays one of a longer sequence.
LEMMA PrefixGrows ==
  ASSUME NEW V, NEW t \in Seq(V)
  PROVE  /\ IsPrefix(<<>>, t) /\ IsPrefix(t, t)
         /\ \A s \in Seq(V), x \in V : IsPrefix(s, t) => IsPrefix(s, Append(t, x))
<1>1. <<>> \in Seq(V) /\ Len(t) \in Nat
  OBVIOUS
<1>2. ASSUME NEW s \in Seq(V), NEW x \in V, IsPrefix(s, t) PROVE IsPrefix(s, Append(t, x))
  <2> DEFINE u == Append(t, x)
  <2>1. u \in Seq(V) /\ Len(u) = Len(t) + 1 /\ \A i \in 1 .. Len(t) : u[i] = t[i]
    OBVIOUS
  <2>2. Len(s) \in Nat /\ Len(s) <= Len(t) /\ \A i \in 1 .. Len(s) : s[i] = t[i]
    BY <1>2, PrefixOf
  <2> HIDE DEF u
  <2>3. Len(s) <= Len(u) /\ \A i \in 1 .. Len(s) : s[i] = u[i]
    BY <1>1, <2>1, <2>2
  <2> QED
    BY <2>1, <2>3, PrefixOf DEF u
<1>3. IsPrefix(<<>>, t)
  <2> DEFINE e == <<>>
  <2>1. e \in Seq(V) /\ Len(e) = 0
    OBVIOUS
  <2> HIDE DEF e
  <2>2. Len(e) <= Len(t) /\ \A i \in 1 .. Len(e) : e[i] = t[i]
    BY <1>1, <2>1
  <2>3. IsPrefix(e, t)
    BY <2>1, <2>2, PrefixOf
  <2> QED
    BY <2>3 DEF e
<1>4. IsPrefix(t, t)
  BY <1>1, PrefixOf
<1> QED
  BY <1>2, <1>3, <1>4

\* A stretch of lines is a sequence of lines.
LEMMA HearingSeq ==
  ASSUME NEW c, NEW s \in Seq(Lines), NEW j \in 0 .. Len(s), NEW n \in 0 .. Len(s)
  PROVE  SubSeq(s, j + 1, n) \in Seq(Lines) /\ Hearing(c, s, j, n) \in Seq(Lines)
<1>1. SubSeq(s, j + 1, n) \in Seq(Lines)
  <2>1. \A i \in j + 1 .. n : s[i] \in Lines
    OBVIOUS
  <2> QED
    BY <2>1, SubSeqProperties
<1>2. Len(SubSeq(s, j + 1, n)) \in Nat
  BY <1>1
<1>3. Hearing(c, s, j, n) \in Seq(Audible(c))
  BY <1>2, OnlyInSeq DEF Hearing
<1>4. Audible(c) \subseteq Lines
  BY DEF Audible
<1> QED
  BY <1>1, <1>3, <1>4

\* The line said last is heard last, if it is for c.
LEMMA HearingLast ==
  ASSUME NEW c, NEW s \in Seq(Lines), NEW j \in Nat, j < Len(s)
  PROVE  Hearing(c, s, j, Len(s)) =
           IF Last(s) \in Audible(c) THEN Append(Hearing(c, s, j, Len(s) - 1), Last(s))
                                     ELSE Hearing(c, s, j, Len(s) - 1)
<1> DEFINE n == Len(s)
           b == SubSeq(s, j + 1, n - 1)
           x == s[n]
           A == Audible(c)
<1>1. n \in Nat \ {0} /\ j + 1 \in 1 .. n /\ n \in j + 1 .. n /\ n - 1 \in 0 .. n /\ j \in 0 .. n
  OBVIOUS
<1>2. x \in Lines /\ Last(s) = x
  BY <1>1 DEF Last
<1>3. b \in Seq(Lines)
  BY <1>1, HearingSeq
<1>4. SubSeq(s, j + 1, n) = b \o <<x>>
  BY <1>1, SubSeqRecursiveSecond
<1> HIDE DEF b, x, A
<1>5. b \o <<x>> = Append(b, x)
  BY <1>2, <1>3
<1>6. Only(Append(b, x), A) = IF x \in A THEN Append(Only(b, A), x) ELSE Only(b, A)
  BY <1>3, OnlyAppend
<1> QED
  BY <1>2, <1>4, <1>5, <1>6 DEF Hearing, b, A

\* Saying a line changes nothing of what was said before.
LEMMA HearingSaid ==
  ASSUME NEW c, NEW s \in Seq(Lines), NEW l \in Lines
  PROVE  \A j \in 0 .. Len(s) : Hearing(c, Append(s, l), j, Len(s)) = Hearing(c, s, j, Len(s))
<1> DEFINE n == Len(s)
           t == Append(s, l)
<1>1. n \in Nat /\ t \in Seq(Lines) /\ Len(t) = n + 1 /\ \A i \in 1 .. n : t[i] = s[i]
  OBVIOUS
<1>2. ASSUME NEW j \in 0 .. n PROVE SubSeq(t, j + 1, n) = SubSeq(s, j + 1, n)
  <2> DEFINE a == SubSeq(s, j + 1, n)
             b == SubSeq(t, j + 1, n)
  <2>1. \A i \in j + 1 .. n : s[i] \in Lines /\ t[i] \in Lines
    BY <1>1
  <2>2. j + 1 \in Int /\ n \in Int
    BY <1>1
  <2> HIDE DEF n, t
  <2>3. /\ a \in Seq(Lines) /\ Len(a) = IF j + 1 <= n THEN n - (j + 1) + 1 ELSE 0
        /\ \A i \in 1 .. n - (j + 1) + 1 : a[i] = s[(j + 1) + i - 1]
    BY <2>1, <2>2, SubSeqProperties
  <2>4. /\ b \in Seq(Lines) /\ Len(b) = IF j + 1 <= n THEN n - (j + 1) + 1 ELSE 0
        /\ \A i \in 1 .. n - (j + 1) + 1 : b[i] = t[(j + 1) + i - 1]
    BY <2>1, <2>2, SubSeqProperties
  <2> HIDE DEF a, b
  <2>5. Len(a) = Len(b) /\ Len(a) = n - (j + 1) + 1
    BY <1>1, <2>3, <2>4
  <2>6. \A i \in 1 .. n - (j + 1) + 1 : (j + 1) + i - 1 \in 1 .. n
    BY <1>1
  <2>7. \A i \in 1 .. Len(a) : a[i] = b[i]
    BY <1>1, <2>3, <2>4, <2>5, <2>6
  <2>8. a = b
    BY <2>3, <2>4, <2>5, <2>7, SeqEqual
  <2> QED
    BY <2>8 DEF a, b
<1> QED
  BY <1>2 DEF Hearing

\* ToldAll, in these words; connected or not, what c was sent is a part from the start.
LEMMA ToldWords ==
  ASSUME Safe, NEW c \in Users
  PROVE  /\ joined[c] \in 0 .. Len(said) /\ said \in Seq(Lines) /\ Len(said) \in Nat
         /\ Hearing(c, said, joined[c], Len(said)) \in Seq(Lines)
         /\ ToldAll(c) <=>
              IF c \in clients /\ sock[c] = "open"
              THEN got[c] = Hearing(c, said, joined[c], IF c \in todo THEN Len(said) - 1 ELSE Len(said))
              ELSE IsPrefix(got[c], Hearing(c, said, joined[c], Len(said)))
         /\ c \in todo => /\ joined[c] < Len(said) /\ line = Last(said) /\ line \in Audible(c)
                          /\ Hearing(c, said, joined[c], Len(said))
                               = Append(Hearing(c, said, joined[c], Len(said) - 1), line)
         /\ ~resumed[c] => IsPrefix(got[c], Hearing(c, said, joined[c], Len(said)))
<1> DEFINE n == Len(said)
           j == joined[c]
           all == Hearing(c, said, j, n)
           most == Hearing(c, said, j, n - 1)
<1>1. /\ j \in 0 .. n /\ said \in Seq(Lines) /\ n \in Nat /\ got[c] \in Seq(Lines)
  BY DEF Safe, AsyncTypeOK, TypeOK
<1>2. all \in Seq(Lines)
  <2>1. n \in 0 .. n
    BY <1>1
  <2> HIDE DEF n
  <2> QED
    BY <1>1, <2>1, HearingSeq DEF n
<1>3. ToldAll(c) <=> IF c \in clients /\ sock[c] = "open"
                     THEN got[c] = Hearing(c, said, j, IF c \in todo THEN n - 1 ELSE n)
                     ELSE IsPrefix(got[c], all)
  BY DEF ToldAll, Heard, Hearing, Audible
<1>4. ASSUME c \in todo
      PROVE  j < n /\ line = Last(said) /\ line \in Audible(c) /\ all = Append(most, line)
  <2>1. j < n /\ said # <<>> /\ line = Last(said) /\ ~(line.kind = "broadcast" /\ line.of = c)
    BY <1>4 DEF Safe, Telling
  <2>2. Last(said) \in Lines
    BY <1>1, <2>1 DEF Last
  <2>3. line \in Audible(c)
    BY <2>1, <2>2 DEF Audible
  <2>4. all = IF Last(said) \in Audible(c) THEN Append(most, Last(said)) ELSE most
    <3>1. j \in Nat /\ j < Len(said) /\ said \in Seq(Lines)
      BY <1>1, <2>1
    <3> HIDE DEF j
    <3> QED
      BY <3>1, HearingLast
  <2> QED
    BY <2>1, <2>3, <2>4
<1>5. ASSUME ~resumed[c] PROVE IsPrefix(got[c], all)
  <2>1. ToldAll(c)
    BY <1>5 DEF Safe
  <2>2. CASE ~(c \in clients /\ sock[c] = "open")
    BY <1>3, <2>1, <2>2
  <2>3. CASE c \in clients /\ sock[c] = "open" /\ c \notin todo
    BY <1>2, <1>3, <2>1, <2>3, PrefixGrows
  <2>4. CASE c \in clients /\ sock[c] = "open" /\ c \in todo
    <3>1. got[c] = most /\ all = Append(most, line) /\ line \in Lines
      BY <1>3, <1>4, <2>1, <2>4 DEF Audible
    <3> HIDE DEF most, all
    <3>2. IsPrefix(got[c], got[c])
      BY <1>1, PrefixGrows
    <3>3. IsPrefix(got[c], Append(got[c], line))
      BY <1>1, <3>1, <3>2, PrefixGrows
    <3> QED
      BY <3>1, <3>3
  <2> QED
    BY <2>2, <2>3, <2>4
<1> QED
  BY <1>1, <1>2, <1>3, <1>4, <1>5

\* What c was sent is right as long as neither it nor what is said changes, nor c's place among
\* the clients, unless c hangs up or is removed.
LEMMA ToldSame ==
  ASSUME Safe, NEW c \in Users, ~resumed[c],
         UNCHANGED said, UNCHANGED <<joined[c], got[c]>>,
         \/ ~(c \in clients' /\ sock'[c] = "open")
         \/ UNCHANGED sock[c] /\ (c \in clients' <=> c \in clients) /\ (c \in todo' <=> c \in todo)
  PROVE  ToldAll(c)'
<1> DEFINE n == Len(said)
           j == joined[c]
           all == Hearing(c, said, j, n)
           some == Hearing(c, said, j, IF c \in todo THEN n - 1 ELSE n)
<1>1. /\ ToldAll(c)
      /\ ToldAll(c) <=> IF c \in clients /\ sock[c] = "open" THEN got[c] = some ELSE IsPrefix(got[c], all)
      /\ IsPrefix(got[c], all)
  BY ToldWords DEF Safe
<1>2. ToldAll(c)' <=> IF c \in clients' /\ sock'[c] = "open"
                      THEN got'[c] = Hearing(c, said, j, IF c \in todo' THEN n - 1 ELSE n)
                      ELSE IsPrefix(got'[c], all)
  BY DEF ToldAll, Heard, Hearing, Audible
<1> HIDE DEF all
<1> QED
  BY <1>1, <1>2

\* A line is said: to a client still to be told it, one line more is to be heard; to the others,
\* none.
LEMMA HearsNotify ==
  ASSUME Safe, Notify, NEW c \in Users, ~resumed[c]
  PROVE  ToldAll(c)'
<1> USE DEF userVars, socketVars
<1> DEFINE l == Head(queue).line
           n == Len(said)
           j == joined[c]
           all == Hearing(c, said, j, n)
           all1 == Hearing(c, said', j, n + 1)
<1>1. /\ bpc = "recv" /\ queue # <<>> /\ Head(queue).cmd = "say"
      /\ said' = Append(said, l) /\ line' = l
      /\ todo' = IF l.kind = "broadcast" THEN clients \ {l.of} ELSE clients
      /\ UNCHANGED <<sock, clients, got, joined>>
  BY DEF Notify
<1>2. l \in Lines
  <2>1. queue \in Seq(ServerCmd)
    BY DEF Safe, AsyncTypeOK, TypeOK
  <2>2. Head(queue) \in ServerCmd
    BY <1>1, <2>1
  <2> QED
    BY <1>1, <2>2, Messages
<1>3. c \notin todo
  BY <1>1 DEF Safe, AsyncTypeOK, TypeOK
<1> HIDE DEF l
<1>4. /\ j \in 0 .. n /\ said \in Seq(Lines) /\ n \in Nat /\ all \in Seq(Lines) /\ ToldAll(c)
      /\ ToldAll(c) <=> IF c \in clients /\ sock[c] = "open" THEN got[c] = all ELSE IsPrefix(got[c], all)
      /\ IsPrefix(got[c], all) /\ got[c] \in Seq(Lines)
  BY <1>3, ToldWords DEF Safe, AsyncTypeOK, TypeOK
<1>5. said' \in Seq(Lines) /\ Len(said') = n + 1 /\ Last(said') = l
  BY <1>1, <1>2, <1>4 DEF Last
<1>6. Hearing(c, said', j, n) = all
  BY <1>1, <1>2, <1>4, HearingSaid
<1>7. all1 = IF l \in Audible(c) THEN Append(all, l) ELSE all
  <2> DEFINE s == said'
  <2>1. s \in Seq(Lines) /\ j \in Nat /\ j < Len(s) /\ Len(s) = n + 1 /\ Len(s) - 1 = n
    BY <1>4, <1>5
  <2> HIDE DEF s, j, n
  <2>2. Hearing(c, s, j, Len(s)) = IF Last(s) \in Audible(c) THEN Append(Hearing(c, s, j, Len(s) - 1), Last(s))
                                                             ELSE Hearing(c, s, j, Len(s) - 1)
    BY <2>1, HearingLast
  <2> QED
    BY <1>5, <1>6, <2>1, <2>2 DEF s
<1>8. l \in Audible(c) <=> ~(l.kind = "broadcast" /\ l.of = c)
  BY <1>2 DEF Audible
<1>9. ToldAll(c)' <=> IF c \in clients /\ sock[c] = "open"
                      THEN got[c] = Hearing(c, said', j, IF c \in todo' THEN Len(said') - 1 ELSE Len(said'))
                      ELSE IsPrefix(got[c], Hearing(c, said', j, Len(said')))
  BY <1>1 DEF ToldAll, Heard, Hearing, Audible
<1> HIDE DEF all, all1
<1>10. Len(said') - 1 = n
  BY <1>4, <1>5
<1>11. CASE c \in clients /\ sock[c] = "open" /\ c \in todo'
  BY <1>4, <1>6, <1>9, <1>10, <1>11
<1>12. CASE c \in clients /\ sock[c] = "open" /\ c \notin todo'
  <2>1. l \notin Audible(c)
    BY <1>1, <1>8, <1>12
  <2> QED
    BY <1>4, <1>5, <1>7, <1>9, <1>12, <2>1 DEF all1
<1>13. CASE ~(c \in clients /\ sock[c] = "open")
  <2>1. IsPrefix(got[c], all1)
    BY <1>2, <1>4, <1>7, PrefixGrows
  <2> QED
    BY <1>5, <1>9, <1>13, <2>1 DEF all1
<1> QED
  BY <1>11, <1>12, <1>13

\* A user that is inserted has heard nothing, and nothing was said since.
LEMMA HearsInsert ==
  ASSUME Safe, Insert, NEW c \in Users, ~resumed[c]
  PROVE  ToldAll(c)'
<1> USE DEF userVars, socketVars
<1>1. AsyncTypeOK /\ Entry(c)
  BY DEF Safe
<1> DEFINE m == Head(queue)
<1>2. /\ bpc = "insert" /\ queue # <<>> /\ m.cmd = "connect" /\ todo = {}
      /\ clients' = clients \cup {m.of} /\ joined' = [joined EXCEPT ![m.of] = Len(said)]
      /\ UNCHANGED <<said, sock, got, todo>>
  BY <1>1 DEF Insert, AsyncTypeOK, TypeOK
<1>3. m.of \in Users /\ m = Connecting(m.of) /\ (m \in Mine(c) <=> c = m.of)
  BY <1>1, <1>2, HeadOwner
<1>4. CASE m.of # c
  <2>1. joined'[c] = joined[c] /\ (c \in clients' <=> c \in clients)
    BY <1>1, <1>2, <1>4 DEF AsyncTypeOK, TypeOK
  <2> QED
    BY <1>2, <2>1, ToldSame
<1>5. CASE m.of = c
  <2>1. joined'[c] = Len(said)
    BY <1>1, <1>2, <1>5 DEF AsyncTypeOK, TypeOK
  <2>2. m \in Mine(c) /\ m = Connecting(c) /\ Head(queue) = m
    BY <1>3, <1>5
  <2> HIDE DEF m
  <2>3. Has(Post(c), {Connecting(c)})
    <3>1. \A S : Has(Post(c), S) <=> m \in S \/ Has(Only(Tail(queue), Mine(c)), S)
      BY <1>1, <1>2, <2>2, PostPops
    <3> QED
      BY <2>2, <3>1
  <2>4. got[c] = <<>>
    BY <1>1, <2>3 DEF Entry
  <2>5. Hearing(c, said, Len(said), Len(said)) = <<>>
    <3>1. said \in Seq(Lines)
      BY <1>1, Views
    <3>2. SubSeq(said, Len(said) + 1, Len(said)) = <<>>
      <4>1. Len(said) \in Nat
        BY <3>1
      <4> QED
        BY <4>1, SubSeqEmpty
    <3> QED
      BY <3>2, OnlyEmpty DEF Hearing
  <2>6. ToldAll(c)' <=> IF c \in clients' /\ sock'[c] = "open"
                        THEN got'[c] = Hearing(c, said', joined'[c],
                                               IF c \in todo' THEN Len(said') - 1 ELSE Len(said'))
                        ELSE IsPrefix(got'[c], Hearing(c, said', joined'[c], Len(said')))
    BY DEF ToldAll, Heard, Hearing, Audible
  <2>7. IsPrefix(got[c], <<>>)
    <3>1. <<>> \in Seq(Lines)
      OBVIOUS
    <3> QED
      BY <2>4, <3>1, PrefixGrows
  <2> QED
    BY <1>2, <2>1, <2>4, <2>5, <2>6, <2>7
<1> QED
  BY <1>4, <1>5

\* A line is sent to a user, whole.
LEMMA HearsSent ==
  ASSUME Safe, NEW d \in Users, MoveSent(d), NEW c \in Users, ~resumed[c], ~resumed'[c]
  PROVE  ToldAll(c)'
<1> USE DEF userVars, socketVars
<1>1. AsyncTypeOK
  BY DEF Safe
<1>2. /\ bpc = "notify" /\ d \in todo /\ d \in clients /\ todo' = todo \ {d}
      /\ UNCHANGED <<said, sock, joined, clients>>
  BY <1>1 DEF MoveSent, Done, AsyncTypeOK, TypeOK
<1>3. CASE c # d
  <2>1. got'[c] = got[c]
    <3>1. UNCHANGED got \/ \E s : got' = [got EXCEPT ![d] = s]
      BY DEF MoveSent
    <3>2. ASSUME NEW s PROVE [got EXCEPT ![d] = s][c] = got[c]
      BY <1>1, <1>3 DEF AsyncTypeOK, TypeOK
    <3> QED
      BY <3>1, <3>2
  <2> QED
    BY <1>2, <1>3, <2>1, ToldSame
<1>4. CASE c = d /\ sock[c] # "open"
  <2>1. UNCHANGED got
    BY <1>4 DEF MoveSent
  <2> QED
    BY <1>2, <1>4, <2>1, ToldSame
<1>5. CASE c = d /\ sock[c] = "open"
  <2>1. got'[c] = Append(got[c], line)
    <3>1. PICK s \in {got[c], Append(got[c], line)} :
                 got' = [got EXCEPT ![c] = s] /\ (~resumed'[c] => s = Append(got[c], line))
      BY <1>5 DEF MoveSent
    <3>2. got \in [Users -> Seq(Lines)]
      BY <1>1 DEF AsyncTypeOK, TypeOK
    <3> QED
      BY <3>1, <3>2
  <2>2. /\ ToldAll(c)
        /\ ToldAll(c) => got[c] = Hearing(c, said, joined[c], Len(said) - 1)
        /\ Hearing(c, said, joined[c], Len(said))
             = Append(Hearing(c, said, joined[c], Len(said) - 1), line)
    BY <1>2, <1>5, ToldWords DEF Safe
  <2>3. ToldAll(c)' <=> got'[c] = Hearing(c, said, joined[c], Len(said))
    BY <1>2, <1>5 DEF ToldAll, Heard, Hearing, Audible
  <2> QED
    BY <2>1, <2>2, <2>3
<1> QED
  BY <1>3, <1>4, <1>5

\* No step takes anything from what a user was sent and is to be sent.
LEMMA HearsStep ==
  ASSUME Safe, MoveBroker \/ \E d \in Users : MoveUser(d) \/ MoveReader(d),
         NEW c \in Users, ~resumed'[c]
  PROVE  ToldAll(c)'
<1> USE DEF Rest, userVars, socketVars, readerVars, brokerVars, framingVars, writerVars
<1>1. AsyncTypeOK /\ resumed \in [Users -> BOOLEAN]
  BY DEF Safe, AsyncTypeOK
<1>2. ASSUME NEW d \in Users, resumed' = [resumed EXCEPT ![d] = @ \/ cur = d] PROVE ~resumed[c]
  <2>1. CASE c # d
    BY <1>1, <1>2, <2>1
  <2>2. CASE c = d
    <3> DEFINE b == resumed[c] \/ cur = c
    <3>1. resumed' = [resumed EXCEPT ![c] = b]
      BY <1>2, <2>2
    <3> HIDE DEF b
    <3>2. resumed'[c] = b
      BY <1>1, <3>1
    <3> QED
      BY <3>2 DEF b
  <2> QED
    BY <2>1, <2>2
<1>3. ASSUME NEW d \in Users, MoveUser(d) \/ MoveReader(d) PROVE ToldAll(c)'
  <2>1. UNCHANGED <<brokerVars, writerVars, got>>
    BY <1>3, BrokerLeft
  <2>2. UNCHANGED sock[c] \/ sock'[c] = "closed" \/ (sock[c] = "none" /\ c \notin clients)
    <3>1. DOMAIN sock = Users
      BY <1>1 DEF AsyncTypeOK, TypeOK
    <3>2. \/ UNCHANGED sock
          \/ sock[d] = "none" /\ \E v : sock' = [sock EXCEPT ![d] = v]
          \/ sock' = [sock EXCEPT ![d] = "closed"]
      BY <1>3 DEF MoveUser, Accept, Read, Close, MoveWrite, Write, WritePart, ArriveRest, vars,
                  MoveReader, MoveRead, ReadName, ReadMessage, Announce, ReaderEnds, PollPart,
                  DropsAll, ReadAstray, ReadPanics, ReaderFails
    <3>3. sock[c] = "none" => c \notin clients
      BY DEF Safe, Entry, AsyncTypeOK, TypeOK
    <3>4. CASE c # d
      <4>1. ASSUME NEW v PROVE [sock EXCEPT ![d] = v][c] = sock[c]
        BY <3>1, <3>4
      <4> QED
        BY <3>2, <4>1
    <3>5. CASE c = d
      BY <3>1, <3>2, <3>3, <3>5
    <3> QED
      BY <3>4, <3>5
  <2> QED
    BY <2>1, <2>2, ToldSame
<1>4. CASE Notify /\ Rest
  BY <1>4, HearsNotify
<1>5. CASE Insert /\ Rest
  BY <1>5, HearsInsert
<1>6. CASE (Spawn \/ DropClient) /\ Rest
  <2>1. /\ UNCHANGED <<said, joined, got, sock, todo, resumed>>
        /\ UNCHANGED clients \/ clients' = clients \ {Head(queue).of}
    BY <1>6 DEF Spawn, DropClient
  <2> QED
    BY <2>1, ToldSame
<1>7. ASSUME NEW d \in Users, MoveSent(d) PROVE ToldAll(c)'
  <2>1. ~resumed[c]
    BY <1>2, <1>7 DEF MoveSent
  <2> QED
    BY <1>7, <2>1, HearsSent
<1>8. ASSUME NEW d \in Users, MoveFails(d) PROVE ToldAll(c)'
  <2>1. /\ UNCHANGED <<said, joined, got, sock, clients, resumed>> /\ sock[d] = "closed"
        /\ todo' = todo \ {d}
    BY <1>8 DEF MoveFails, SendFails, Done
  <2> QED
    BY <2>1, ToldSame
<1>9. ASSUME NEW d \in Users, SendPart(d) \/ SendPanics(d) \/ SendWaits(d) PROVE ToldAll(c)'
  <2>1. UNCHANGED <<said, joined, got, sock, clients, todo>>
    BY <1>9 DEF SendPart, SendPanics, SendWaits, vars
  <2>2. ~resumed[c]
    <3>1. UNCHANGED resumed \/ resumed' = [resumed EXCEPT ![d] = @ \/ cur = d]
      BY <1>9 DEF SendPart, SendPanics, SendWaits, Takes
    <3> QED
      BY <1>2, <3>1
  <2> QED
    BY <2>1, <2>2, ToldSame
<1> QED
  BY <1>3, <1>4, <1>5, <1>6, <1>7, <1>8, <1>9 DEF MoveBroker
-----------------------------------------------------------------------------
(* The theorems *)

\* Before anybody connects.
LEMMA SafeInit ==
  ASSUME ChatInit
  PROVE  Safe
<1> USE DEF ChatInit, AsyncInit, Init
<1>1. MaxSends \in Nat /\ Room \in Nat \ {0} /\ IsFiniteSet(Users) /\ LineLength \in Nat \ {0}
      /\ Nobody \notin Users
  BY BoundsAssumption, LineAssumption DEF Nobody
<1>2. TypeOK
  <2>1. 0 \in 0 .. MaxSends /\ 0 \in 0 .. Room /\ 0 \in 0 .. Len(said) /\ said = <<>>
    BY <1>1
  <2> QED
    BY <2>1 DEF TypeOK
<1>3. AsyncTypeOK
  <2>1. from \in 0 .. LineLength - 1 /\ cursor \in 0 .. from /\ cursor = 0 /\ cur = Nobody
    BY <1>1
  <2> QED
    BY <1>1, <1>2, <2>1 DEF AsyncTypeOK
<1>4. Within
  <2>1. InParts = {}
    BY DEF InParts
  <2>2. Cardinality(InParts) = 0
    BY <2>1, FS_EmptySet
  <2>3. SumFunction(sent) = 0
    <3>1. DOMAIN sent = Users /\ \A c \in Users : sent[c] = 0
      OBVIOUS
    <3> QED
      BY <1>1, <3>1, SumZeros DEF SumFunction
  <2> QED
    BY <1>1, <2>2, <2>3 DEF Within
<1>5. Plain /\ Telling
  BY DEF Plain, Telling
<1>6. ASSUME NEW c \in Users PROVE Told(c) /\ Entry(c) /\ Leaving(c) /\ ToldAll(c)
  <2>1. Talk(c) = <<>> /\ Post(c) = <<>> /\ Left(c) = <<>> /\ Unsaid(c) = <<>>
    BY OnlyEmpty DEF Talk, Post, Left, Unsaid
  <2>2. Flow(c) = <<>>
    <3>1. LinesIn(<<>>) = <<>>
      BY DEF LinesIn
    <3> QED
      BY <2>1, <3>1, OnlyEmpty DEF Flow, Stream
  <2>3. Told(c)
    <3>1. Chained(c, <<>>, lost[c]) /\ NameAfter(<<>>) = NoName
      BY DEF Chained, NameAfter
    <3>2. Counted(c)
      BY <2>2, <3>1 DEF Counted
    <3>3. Intact(c) /\ Len(<<>>) = sent[c] - Len(inbox[c]) /\ rpc[c] # "announce"
      BY <1>1 DEF Intact
    <3> QED
      BY <2>2, <3>1, <3>2, <3>3 DEF Told
  <2>4. Entry(c)
    BY <2>1, HasNone DEF Entry, Inserting
  <2>5. ~Gone(c)
    BY <2>1, HasNone DEF Gone
  <2>6. Leaving(c)
    <3>1. Orderly(c)
      BY <2>1, <2>5, HasNone DEF Orderly, Behind
    <3> QED
      BY <2>1, <2>5, <3>1, HasNone DEF Leaving
  <2>7. ToldAll(c)
    <3>1. Heard(c, Len(said)) = <<>>
      <4>1. SubSeq(said, joined[c] + 1, Len(said)) = <<>>
        BY SubSeqEmpty
      <4> QED
        BY <4>1, OnlyEmpty DEF Heard
    <3>2. IsPrefix(got[c], <<>>)
      <4>1. got[c] = <<>> /\ <<>> \in Seq(Lines)
        OBVIOUS
      <4> QED
        BY <4>1, PrefixGrows
    <3> QED
      BY <3>1, <3>2 DEF ToldAll
  <2> QED
    BY <2>3, <2>4, <2>6, <2>7
<1> QED
  BY <1>3, <1>4, <1>5, <1>6 DEF Safe

\* Every step of either server keeps the invariant.
LEMMA SafeStep ==
  ASSUME Safe, [ChatNext]_allVars
  PROVE  Safe'
<1>1. CASE ChatNext
  <2>1. MoveBroker \/ \E d \in Users : MoveUser(d) \/ MoveReader(d)
    BY <1>1, Moves
  <2>2. AsyncTypeOK'
    BY <2>1, UserTypes, ReaderTypes, BrokerTypes
  <2>3. Within' /\ Plain' /\ Telling' /\ UNCHANGED kind
        /\ (bpc' = "panicked" => \E c \in Users : resumed'[c])
    BY <1>1, WithinStep, PlainStep, TellingStep
  <2>4. \A c \in Users : Aside(c)' /\ (~resumed'[c] => ToldAll(c)')
    BY <2>1, <2>2, AsideStep, HearsStep
  <2> QED
    BY <2>2, <2>3, <2>4 DEF Safe, Aside
<1>2. CASE UNCHANGED allVars
  <2> USE DEF allVars, asyncVars, vars, userVars, socketVars, readerVars, brokerVars, framingVars,
              writerVars
  <2>1. AsyncTypeOK'
    BY <1>2 DEF Safe, AsyncTypeOK, TypeOK, Intact
  <2>2. Within' /\ Plain' /\ Telling'
    BY <1>2 DEF Safe, Within, InParts, Plain, Telling
  <2>3. ASSUME NEW c \in Users PROVE Aside(c)' /\ (~resumed'[c] => ToldAll(c)')
    <3>1. Untouched(c)
      BY <1>2, PostSame DEF Untouched, Inserting
    <3>2. Aside(c)'
      BY <3>1, AsideUntouched DEF Safe, Aside
    <3>3. ~resumed'[c] => ToldAll(c)'
      BY <1>2, ToldSame
    <3> QED
      BY <3>2, <3>3
  <2> QED
    BY <1>2, <2>1, <2>2, <2>3 DEF Safe, Aside
<1> QED
  BY <1>1, <1>2

\* What the broker said of a user is the beginning of the flow.
LEMMA SpokenFirst ==
  ASSUME Safe, NEW c \in Users
  PROVE  /\ Farewells(c) = Left(c)
         /\ Spoken(c) \in Seq(Numbered(c)) /\ Len(Spoken(c)) <= Len(Flow(c))
         /\ \A i \in 1 .. Len(Spoken(c)) : Spoken(c)[i] = Flow(c)[i]
         /\ ~Has(Post(c), SaysOf(c)) /\ rpc[c] # "announce" => Flow(c) = Spoken(c)
<1>1. said \in Seq(Lines) /\ Post(c) \in Seq(Mine(c)) /\ Talk(c) \in Seq(LinesOf(c))
  BY Views DEF Safe
<1>2. Numbered(c) \subseteq LinesOf(c) /\ Leavings(c) \subseteq LinesOf(c)
  BY DEF Numbered, Leavings
<1> DEFINE s == Only(Talk(c), Numbered(c))
           b == LinesIn(Only(Post(c), NumberedSays(c)))
           u == Unsaid(c)
<1>3. Spoken(c) = s
  BY <1>1, <1>2, OnlyOnly DEF Spoken, Talk, Numbered
<1>4. Farewells(c) = Left(c)
  BY <1>1, <1>2, OnlyOnly DEF Farewells, Left, Talk, Leavings
<1>5. s \in Seq(Numbered(c)) /\ b \in Seq(Numbered(c))
  <2>1. Len(Talk(c)) \in Nat /\ Len(Post(c)) \in Nat
    BY <1>1
  <2> QED
    BY <2>1, StreamPieces
<1>6. u \in Seq(Numbered(c))
  BY DEF Unsaid
<1>7. Flow(c) = s \o (b \o u)
  BY DEF Flow, Stream
<1>8. ASSUME ~Has(Post(c), SaysOf(c)), rpc[c] # "announce" PROVE b = <<>> /\ u = <<>>
  <2>1. Only(Post(c), NumberedSays(c)) = <<>>
    <3>1. Len(Post(c)) \in Nat /\ \A i \in 1 .. Len(Post(c)) : Post(c)[i] \notin NumberedSays(c)
      BY <1>1, <1>8, Kinds DEF Has
    <3> QED
      BY <3>1, OnlyNone
  <2>2. LinesIn(<<>>) = <<>>
    BY DEF LinesIn
  <2> QED
    BY <1>8, <2>1, <2>2 DEF Unsaid
<1> HIDE DEF s, b, u
<1>9. /\ Len(s) <= Len(s \o (b \o u)) /\ \A i \in 1 .. Len(s) : (s \o (b \o u))[i] = s[i]
  <2> DEFINE r == b \o u
  <2>1. r \in Seq(Numbered(c))
    BY <1>5, <1>6
  <2> HIDE DEF r
  <2>2. Len(s) <= Len(s \o r) /\ \A i \in 1 .. Len(s) : (s \o r)[i] = s[i]
    BY <1>5, <2>1
  <2> QED
    BY <2>2 DEF r
<1>10. s \o (<<>> \o <<>>) = s
  BY <1>5
<1> QED
  BY <1>3, <1>4, <1>5, <1>7, <1>8, <1>9, <1>10

\* The invariant says what the run checks.
LEMMA SafeHears ==
  ASSUME Safe
  PROVE  EveryoneHearsUnlessBroken
<1>1. ASSUME NEW c \in Users PROVE SaidOnceInOrder(c, lost[c])
  <2> DEFINE f == Flow(c)
             s == Spoken(c)
             n == lost[c]
  <2>1. Chained(c, f, n) /\ Len(Left(c)) <= 1
    BY DEF Safe, Told, Counted, Leaving
  <2>2. /\ Farewells(c) = Left(c) /\ s \in Seq(Numbered(c)) /\ Len(s) <= Len(f)
        /\ \A i \in 1 .. Len(s) : s[i] = f[i]
    BY SpokenFirst
  <2>3. f \in Seq(Numbered(c))
    BY <2>1 DEF Chained
  <2> HIDE DEF f, s, n
  <2>4. ASSUME NEW i \in 1 .. Len(s)
        PROVE  /\ i > 1 => s[i].no > s[i - 1].no
               /\ i < n => s[i].no = i /\ s[i].was = IF i = 1 THEN NoName ELSE s[i - 1].now
    <3>1. i \in 1 .. Len(f) /\ (i # 1 => i > 1 /\ i - 1 \in 1 .. Len(s))
      BY <2>2, <2>3
    <3>2. s[i] = f[i] /\ (i # 1 => s[i - 1] = f[i - 1])
      BY <2>2, <3>1
    <3> QED
      BY <2>1, <3>1, <3>2 DEF Chained
  <2>5. DOMAIN s = 1 .. Len(s)
    BY <2>2
  <2> QED
    BY <2>1, <2>2, <2>4, <2>5 DEF SaidOnceInOrder, s, n
<1>2. ASSUME NEW c \in Users, ~cut[c], Intact(c) PROVE LeavesLast(c)
  <2>1. Orderly(c) /\ name[c] = NameAfter(Flow(c))
    BY <1>2 DEF Safe, Told, Leaving
  <2>2. ASSUME Left(c) # <<>>
        PROVE  /\ Last(Left(c)).now = name[c] /\ Last(Talk(c)) = Last(Left(c))
               /\ Flow(c) = Spoken(c)
    <3>1. ~Has(Post(c), SaysOf(c)) /\ Silent(c)
      BY <2>1, <2>2 DEF Orderly, Gone
    <3>2. rpc[c] # "announce"
      BY <3>1 DEF Silent
    <3> QED
      BY <2>1, <2>2, <3>1, <3>2, SpokenFirst DEF Orderly
  <2>3. Farewells(c) = Left(c)
    BY SpokenFirst
  <2> QED
    BY <2>1, <2>2, <2>3 DEF LeavesLast, NameAfter, Talk
<1>3. ASSUME NEW c \in Users PROVE Stays(c)
  <2>1. sock[c] = "open" => c \in clients \/ rpc[c] = "none" \/ Inserting(c)
    BY DEF Safe, Entry
  <2>2. Inserting(c) => bpc = "insert" /\ Head(queue).of = c
    BY DEF Inserting, Connecting
  <2> QED
    BY <2>1, <2>2 DEF Stays
<1>4. ASSUME NEW c \in Users, ~resumed[c] PROVE ToldAll(c)
  BY <1>4 DEF Safe
<1>5. bpc = "panicked" => \E c \in Users : resumed[c]
  BY DEF Safe
<1> QED
  BY <1>1, <1>2, <1>3, <1>4, <1>5 DEF EveryoneHearsUnlessBroken

\* The inductive invariant of both servers: types, the flow of each user's commands, its way in
\* and out, and what it was sent.
THEOREM ChatSafe == ChatSpec => []Safe
<1>1. ChatInit => Safe
  BY SafeInit
<1>2. Safe /\ [ChatNext]_allVars => Safe'
  BY SafeStep
<1> QED
  BY <1>1, <1>2, PTL DEF ChatSpec

\* The variables of both servers stay in their types, a line is in pieces only in the loop over
\* the clients, and its slice starts inside it (poll_flush, notify_all).
THEOREM ChatTypes == ChatSpec => []AsyncTypeOK
<1>1. Safe => AsyncTypeOK
  BY DEF Safe
<1> QED
  BY <1>1, ChatSafe, PTL

\* Whatever the threads or tasks, the users and their sockets do and in whatever order: commands
\* are said once and in order, and all of them before the first whose frame was read in parts; a
\* connected user stays and is sent every line since it joined, until one to it was written in
\* pieces; and who hangs up leaves once, for good unless a frame was read in parts or a write
\* failed (broker_loop and accept_loop, main, notify_all, notify_all_exclude).
THEOREM ChatHears == ChatSpec => []EveryoneHearsUnlessBroken
<1>1. Safe => EveryoneHearsUnlessBroken
  BY SafeHears
<1> QED
  BY <1>1, ChatSafe, PTL
=============================================================================
