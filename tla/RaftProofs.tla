----------------------------- MODULE RaftProofs -----------------------------
(***************************************************************************)
(* Theorems about Raft for any number of commands, terms and disruptions:  *)
(* its types, for any offices, and that a term has one winner, for three   *)
(* offices, or for any number of them if nobody stands for election before *)
(* all are connected.  (For four that stand before it is false.)           *)
(*                                                                         *)
(* The argument: to vote is to enter the term of the candidate, and so is  *)
(* to stand for election, and nobody enters a term twice.  So there is a   *)
(* ballot v, a function that says of every office whom it voted for in     *)
(* every term, and a candidate has no more votes, those on their way       *)
(* included, than offices that voted for it.  The code keeps no such       *)
(* record: votes carry no name, and a candidate forgets its count when it  *)
(* stands again.  The invariant says that a ballot exists.                 *)
(*                                                                         *)
(* The last part begins the argument about the logs, which RaftLogProofs   *)
(* and ConsensusProofs go on with: the invariant, how logs grow, and what  *)
(* may be done to a chain of requests.                                     *)
(***************************************************************************)
EXTENDS Raft, CommonLemmas

Terms == 1 .. MaxTerm

\* Entries as they are sent: the first one, and only that, has none before it.
Sendable ==
  {e \in [index : Nat, prev_term : 0 .. MaxTerm, term : Terms, cmd : Commands] :
     e.index = 0 <=> e.prev_term = 0}

\* The first entry always fits.
Response ==
  {msg \in [type : {"AppendEntryResponse"}, src : Nodes, term : 0 .. MaxTerm,
            index : Nat, success : BOOLEAN] : msg.success \/ msg.index > 0}

Message ==
  [type : {"Accept"}, src : Nodes]
  \cup [type : {"AppendEntry"}, src : Nodes, term : 0 .. MaxTerm, committed : Nat,
        entry : Sendable \cup {None}]
  \cup Response
  \cup [type : {"RequestVote"}, src : Nodes, term : Terms, latest_term : 0 .. MaxTerm, len : Nat]
  \cup [type : {"Vote"}, term : Terms]
  \cup [type : {"Command"}, cmd : Commands]

\* Types, of messages on their way too; and an office is told of the others only.
SetupType ==
  /\ nodes \in [Nodes -> SUBSET Nodes] /\ told \in [Nodes -> SUBSET Nodes]
  /\ \A n \in Nodes : nodes[n] \subseteq told[n] /\ told[n] \subseteq Others(n)

NetType ==
  /\ inbox \in [Nodes -> Seq(Message)]
  /\ \A n \in Nodes : \A i \in DOMAIN inbox[n] :
       inbox[n][i].type = "Accept" => inbox[n][i].src \in told[n]
  /\ part \in [Nodes -> 0 .. Cardinality(Nodes) - 1]
  /\ disruptions \in Nat

ElectionType ==
  /\ role \in [Nodes -> Roles]
  /\ leader \in [Nodes -> Nodes \cup {None}]
  /\ term \in [Nodes -> 0 .. MaxTerm]
  /\ votes \in [Nodes -> 0 .. Cardinality(Nodes)]
  /\ elected \subseteq Nodes \X Terms
  /\ \A n \in Nodes : role[n] = "Leader" => term[n] > 0

LogType ==
  /\ log \in [Nodes -> Seq(Entries)]
  /\ applied \in [Nodes -> Seq(Entries)]
  /\ acks \in [Nodes -> Seq(SUBSET Nodes)]
  /\ \A n \in Nodes : Len(acks[n]) = Len(log[n])
  /\ pending_cmds \in [Nodes -> Seq(Commands)]
  /\ pending \in [Nodes -> [Nodes -> Sendable \cup {None}]]

TypeInv == SetupType /\ NetType /\ ElectionType /\ LogType

\* Where x occurs in the sequence s.
Copies(s, x) == {i \in DOMAIN s : s[i] = x}

\* The votes for n in term t that n has not taken out of its inbox.
Arriving(n, t) == Cardinality(Copies(inbox[n], Vote(t)))

Ballots == [Nodes -> [Terms -> Nodes \cup {None}]]
Voters(v, n, t) == {m \in Nodes : v[m][t] = n}

\* What makes two majorities meet: three offices, or majorities of all.
MajoritiesMeet == Cardinality(Nodes) <= 3 \/ MaxEarlyTerm = 0

\* v says who voted for whom.
Explains(v) ==
  /\ \A m \in Nodes, t \in Terms : v[m][t] # None => term[m] >= t
  /\ \A m \in Nodes : \A i \in DOMAIN inbox[m] :
       inbox[m][i].type = "RequestVote" =>
         v[inbox[m][i].src][inbox[m][i].term] = inbox[m][i].src
  /\ \A n \in Nodes : \A i \in DOMAIN inbox[n] :
       inbox[n][i].type = "Vote" => v[n][inbox[n][i].term] = n
  /\ \A n \in Nodes : role[n] = "Candidate" =>
       /\ votes[n] > 0
       /\ \A t \in Terms : term[n] = t /\ v[n][t] = n =>
            votes[n] + Arriving(n, t) <= Cardinality(Voters(v, n, t))
  /\ MaxEarlyTerm = 0 => \A m \in Nodes, t \in Terms : v[m][t] # None => SetUp
  /\ MajoritiesMeet => \A n \in Nodes, t \in Terms :
       <<n, t>> \in elected => 2 * Cardinality(Voters(v, n, t)) > Cardinality(Nodes)

Explained(v) == TypeInv /\ Explains(v)

IndInv == \E v \in Ballots : Explained(v)

\* The ballot w is v with the vote of n for c in term t.
Cast(v, w, n, c, t) ==
  w[n][t] = c /\ \A m \in Nodes, u \in Terms : m # n \/ u # t => w[m][u] = v[m][u]
-----------------------------------------------------------------------------
\* Which messages there are.
LEMMA Kinds ==
  /\ \A m \in Nodes : [type |-> "Accept", src |-> m] \in Message
  /\ \A t \in Terms : Vote(t) \in Message /\ Vote(t).type = "Vote" /\ Vote(t).term = t
  /\ \A c \in Commands : Command(c) \in Message /\ Command(c).type = "Command"
  /\ \A m \in Nodes, t \in 0 .. MaxTerm, i \in Nat, ok \in BOOLEAN : ok \/ i > 0 =>
       AppendEntryResponse(m, t, i, ok) \in Message
BY DEF Message, Vote, Command, AppendEntryResponse, Response

\* What a message of each kind carries.
LEMMA Carries ==
  ASSUME NEW msg \in Message
  PROVE  /\ msg.type = "Accept" => msg.src \in Nodes
         /\ msg.type = "AppendEntry" => /\ msg.src \in Nodes /\ msg.term \in 0 .. MaxTerm
                                        /\ msg.committed \in Nat
                                        /\ msg.entry \in Sendable \cup {None}
         /\ msg.type = "AppendEntryResponse" => /\ msg.src \in Nodes /\ msg.term \in 0 .. MaxTerm
                                                /\ msg.index \in Nat /\ msg.success \in BOOLEAN
                                                /\ msg.success \/ msg.index > 0
         /\ msg.type = "RequestVote" => /\ msg.src \in Nodes /\ msg.term \in Terms
                                        /\ msg.latest_term \in 0 .. MaxTerm /\ msg.len \in Nat
         /\ msg.type = "Vote" => msg.term \in Terms /\ msg = Vote(msg.term)
         /\ msg.type = "Command" => msg.cmd \in Commands
<1>1. CASE msg \in [type : {"Accept"}, src : Nodes]
  BY <1>1
<1>2. CASE msg \in [type : {"AppendEntry"}, src : Nodes, term : 0 .. MaxTerm, committed : Nat,
                    entry : Sendable \cup {None}]
  BY <1>2
<1>3. CASE msg \in Response
  BY <1>3 DEF Response
<1>4. CASE msg \in [type : {"RequestVote"}, src : Nodes, term : Terms,
                    latest_term : 0 .. MaxTerm, len : Nat]
  BY <1>4
<1>5. CASE msg \in [type : {"Vote"}, term : Terms]
  BY <1>5 DEF Vote
<1>6. CASE msg \in [type : {"Command"}, cmd : Commands]
  BY <1>6
<1> QED
  BY <1>1, <1>2, <1>3, <1>4, <1>5, <1>6 DEF Message

\* The message whose turn it is.
LEMMA FirstInInbox ==
  ASSUME TypeInv, NEW n \in Nodes, NEW type, Received(n, type)
  PROVE  /\ Head(inbox[n]) \in Message /\ Head(inbox[n]).type = type
         /\ inbox[n] # <<>> /\ 1 \in DOMAIN inbox[n] /\ Head(inbox[n]) = inbox[n][1]
BY DEF TypeInv, NetType, Received

\* PrevTerm is a term, and 0 only before the first entry.
LEMMA PrevTermType ==
  ASSUME NEW lg \in Seq(Entries), NEW i \in Nat
  PROVE  /\ PrevTerm(lg, i) \in 0 .. MaxTerm
         /\ i \in 1 .. Len(lg) => PrevTerm(lg, i) > 0
         /\ i \notin 1 .. Len(lg) => PrevTerm(lg, i) = 0
<1>1. CASE i \in 1 .. Len(lg)
  <2>1. lg[i] \in Entries
    BY <1>1
  <2> QED
    BY <1>1, <2>1, BoundsAssumption DEF PrevTerm, Entries
<1> QED
  BY <1>1, BoundsAssumption DEF PrevTerm

\* An entry of the log is one that can be sent.
LEMMA EntryDataType ==
  ASSUME NEW lg \in Seq(Entries), NEW i \in Nat
  PROVE  EntryData(lg, i) \in Sendable \cup {None}
<1>1. CASE i < Len(lg)
  <2>1. lg[i + 1] \in Entries
    BY <1>1
  <2>2. PrevTerm(lg, i) \in 0 .. MaxTerm /\ (PrevTerm(lg, i) = 0 <=> i = 0)
    BY <1>1, PrevTermType
  <2> QED
    BY <1>1, <2>1, <2>2 DEF EntryData, Sendable, Entries, Terms
<1> QED
  BY <1>1 DEF EntryData

\* What a heartbeat or an election sends.
LEMMA Broadcasts ==
  ASSUME TypeInv, NEW n \in Nodes
  PROVE  /\ \A e \in Sendable \cup {None} : AppendEntry(n, e) \in Message
         /\ \A t \in Terms : RequestVote(n, t) \in Message
<1>1. LatestTerm(log[n]) \in 0 .. MaxTerm /\ Len(log[n]) \in Nat /\ committed(n) \in Nat
  <2>1. log[n] \in Seq(Entries) /\ applied[n] \in Seq(Entries)
    BY DEF TypeInv, LogType
  <2>2. Len(log[n]) \in Nat /\ committed(n) \in Nat
    BY <2>1 DEF committed
  <2>3. PrevTerm(log[n], Len(log[n])) \in 0 .. MaxTerm
    BY <2>1, <2>2, PrevTermType
  <2> QED
    BY <2>2, <2>3 DEF LatestTerm
<1>2. term[n] \in 0 .. MaxTerm
  BY DEF TypeInv, ElectionType
<1> QED
  BY <1>1, <1>2 DEF AppendEntry, RequestVote, Message
-----------------------------------------------------------------------------
\* There are as many copies as places at most.
LEMMA CopiesFinite ==
  ASSUME NEW V, NEW s \in Seq(V), NEW x
  PROVE  /\ IsFiniteSet(Copies(s, x)) /\ Cardinality(Copies(s, x)) \in Nat
         /\ Copies(s, x) \in SUBSET (1 .. Len(s))
<1>1. Copies(s, x) \in SUBSET (1 .. Len(s)) /\ IsFiniteSet(1 .. Len(s))
  BY FS_Interval DEF Copies
<1> QED
  BY <1>1, FS_Subset, FS_CardinalityType

\* Taking out the head takes out one copy of it and none of anything else.
LEMMA CopiesTail ==
  ASSUME NEW V, NEW s \in Seq(V), s # <<>>, NEW x
  PROVE  /\ Cardinality(Copies(Tail(s), x)) <= Cardinality(Copies(s, x))
         /\ Head(s) = x => Cardinality(Copies(Tail(s), x)) + 1 <= Cardinality(Copies(s, x))
<1> DEFINE S == Copies(Tail(s), x)
           T == Copies(s, x) \ {1}
           f == [i \in S |-> i + 1]
<1>1. Tail(s) \in Seq(V) /\ Len(Tail(s)) = Len(s) - 1 /\ \A i \in 1 .. Len(s) - 1 : Tail(s)[i] = s[i + 1]
  OBVIOUS
<1>2. f \in Injection(S, T)
  <2>1. \A i \in S : i \in 1 .. Len(s) - 1 /\ i + 1 \in T
    BY <1>1 DEF Copies
  <2> HIDE DEF T, S
  <2>2. f \in [S -> T]
    BY <2>1
  <2>3. \A i, j \in S : f[i] = f[j] => i = j
    BY <2>1
  <2> QED
    BY <2>2, <2>3 DEF Injection, IsInjective
<1>3. IsFiniteSet(Copies(s, x)) /\ Cardinality(Copies(s, x)) \in Nat
  BY CopiesFinite
<1>4. /\ IsFiniteSet(T)
      /\ Cardinality(T) = IF 1 \in Copies(s, x) THEN Cardinality(Copies(s, x)) - 1
                          ELSE Cardinality(Copies(s, x))
  BY <1>3, FS_RemoveElement
<1>5. Cardinality(S) <= Cardinality(T)
  <2> HIDE DEF S, T, f
  <2> QED
    BY <1>2, <1>4, FS_Injection
<1>6. Cardinality(S) \in Nat
  BY <1>1, CopiesFinite
<1>7. Head(s) = x => 1 \in Copies(s, x)
  BY DEF Copies
<1> HIDE DEF S, T
<1>8. Cardinality(S) <= Cardinality(Copies(s, x))
  BY <1>3, <1>4, <1>5, <1>6
<1>9. Head(s) = x => Cardinality(S) + 1 <= Cardinality(Copies(s, x))
  BY <1>3, <1>4, <1>5, <1>6, <1>7
<1> QED
  BY <1>8, <1>9 DEF S

\* Appending something else adds no copy; appending x adds one.
LEMMA CopiesConcat ==
  ASSUME NEW V, NEW s \in Seq(V), NEW u \in Seq(V), NEW x, Copies(u, x) = {}
  PROVE  Copies(s \o u, x) = Copies(s, x)
<1>1. Len(s \o u) = Len(s) + Len(u) /\ \A i \in 1 .. Len(s) : (s \o u)[i] = s[i]
  OBVIOUS
<1>2. \A i \in 1 .. Len(s) + Len(u) : i \notin 1 .. Len(s) =>
        i - Len(s) \in DOMAIN u /\ (s \o u)[i] = u[i - Len(s)]
  OBVIOUS
<1>3. \A j \in DOMAIN u : u[j] # x
  BY DEF Copies
<1>4. DOMAIN (s \o u) = 1 .. Len(s) + Len(u) /\ DOMAIN s = 1 .. Len(s) /\ Len(s) \in Nat /\ Len(u) \in Nat
  OBVIOUS
<1> QED
  BY <1>1, <1>2, <1>3, <1>4 DEF Copies

\* The same, one element at a time.
LEMMA CopiesAppend ==
  ASSUME NEW V, NEW s \in Seq(V), NEW y \in V, NEW x
  PROVE  /\ y # x => Copies(Append(s, y), x) = Copies(s, x)
         /\ Cardinality(Copies(Append(s, x), x)) <= Cardinality(Copies(s, x)) + 1
<1>1. y # x => Copies(Append(s, y), x) = Copies(s, x)
  BY DEF Copies
<1>2. Copies(Append(s, x), x) = Copies(s, x) \cup {Len(s) + 1}
  BY DEF Copies
<1>3. IsFiniteSet(Copies(s, x)) /\ Cardinality(Copies(s, x)) \in Nat
  BY CopiesFinite
<1>4. Cardinality(Copies(s, x) \cup {Len(s) + 1}) <= Cardinality(Copies(s, x)) + 1
  <2> DEFINE C == Copies(s, x)
             k == Len(s) + 1
  <2>1. Cardinality(C \cup {k}) = IF k \in C THEN Cardinality(C) ELSE Cardinality(C) + 1
    <3> HIDE DEF C, k
    <3> QED
      BY <1>3, FS_AddElement DEF C
  <2> QED
    BY <1>3, <2>1
<1> QED
  BY <1>1, <1>2, <1>4
-----------------------------------------------------------------------------
\* How a handler changes the inboxes: it takes one message out, and what it adds it sends.
LEMMA Delivered ==
  ASSUME TypeInv, NEW n \in Nodes, inbox[n] # <<>>, NEW out \in [Nodes -> Seq(Message)],
         Deliver(n, out)
  PROVE  /\ inbox' \in [Nodes -> Seq(Message)]
         /\ \A m \in Nodes : \A i \in DOMAIN inbox'[m] :
              \/ \E j \in DOMAIN inbox[m] : inbox'[m][i] = inbox[m][j]
              \/ m \in nodes[n] /\ \E j \in DOMAIN out[m] : inbox'[m][i] = out[m][j]
         /\ \A m \in Nodes, t \in Terms :
              Copies(out[m], Vote(t)) = {} => Arriving(m, t)' <= Arriving(m, t)
         /\ \A t \in Terms : Head(inbox[n]) = Vote(t) => Arriving(n, t)' + 1 <= Arriving(n, t)
<1>1. inbox \in [Nodes -> Seq(Message)]
  BY DEF TypeInv, NetType
<1>2. inbox' = [m \in Nodes |->
                  IF m = n THEN Tail(inbox[n])
                  ELSE IF m \in nodes[n] /\ Reaches(n, m) THEN inbox[m] \o out[m] ELSE inbox[m]]
  BY DEF Deliver
<1>3. Tail(inbox[n]) \in Seq(Message)
      /\ \A i \in DOMAIN Tail(inbox[n]) : i + 1 \in DOMAIN inbox[n]
                                          /\ Tail(inbox[n])[i] = inbox[n][i + 1]
  BY <1>1
<1>4. inbox' \in [Nodes -> Seq(Message)]
  <2>1. \A m \in Nodes : inbox[m] \o out[m] \in Seq(Message)
    BY <1>1
  <2> QED
    BY <1>1, <1>2, <1>3, <2>1
<1>5. ASSUME NEW m \in Nodes, NEW i \in DOMAIN inbox'[m]
      PROVE  \/ \E j \in DOMAIN inbox[m] : inbox'[m][i] = inbox[m][j]
             \/ m \in nodes[n] /\ \E j \in DOMAIN out[m] : inbox'[m][i] = out[m][j]
  <2>1. CASE m = n
    BY <1>2, <1>3, <2>1
  <2>2. CASE m # n /\ m \in nodes[n] /\ Reaches(n, m)
    <3>1. inbox'[m] = inbox[m] \o out[m] /\ inbox[m] \in Seq(Message) /\ out[m] \in Seq(Message)
      BY <1>1, <1>2, <2>2
    <3>2. i \in 1 .. Len(inbox[m]) + Len(out[m])
      BY <3>1
    <3>3. CASE i \in 1 .. Len(inbox[m])
      BY <3>1, <3>3
    <3>4. CASE i \notin 1 .. Len(inbox[m])
      <4>1. i - Len(inbox[m]) \in DOMAIN out[m] /\ inbox'[m][i] = out[m][i - Len(inbox[m])]
        BY <3>1, <3>2, <3>4
      <4> QED
        BY <2>2, <4>1
    <3> QED
      BY <3>3, <3>4
  <2>3. CASE m # n /\ ~(m \in nodes[n] /\ Reaches(n, m))
    BY <1>2, <2>3
  <2> QED
    BY <2>1, <2>2, <2>3
<1>6. ASSUME NEW m \in Nodes, NEW t \in Terms, Copies(out[m], Vote(t)) = {}
      PROVE  Arriving(m, t)' <= Arriving(m, t)
  <2>1. inbox[m] \in Seq(Message) /\ out[m] \in Seq(Message) /\ Arriving(m, t) \in Nat
    BY <1>1, CopiesFinite DEF Arriving
  <2>2. Arriving(m, t)' = Cardinality(Copies(inbox'[m], Vote(t)))
    BY DEF Arriving, Vote
  <2>3. CASE m = n
    <3>1. inbox'[m] = Tail(inbox[m]) /\ inbox[m] # <<>>
      BY <1>2, <2>3
    <3> QED
      BY <2>1, <2>2, <3>1, CopiesTail DEF Arriving
  <2>4. CASE m # n /\ m \in nodes[n] /\ Reaches(n, m)
    <3>1. inbox'[m] = inbox[m] \o out[m]
      BY <1>2, <2>4
    <3>2. Copies(inbox[m] \o out[m], Vote(t)) = Copies(inbox[m], Vote(t))
      BY <1>6, <2>1, CopiesConcat
    <3> QED
      BY <2>1, <2>2, <3>1, <3>2 DEF Arriving
  <2>5. CASE m # n /\ ~(m \in nodes[n] /\ Reaches(n, m))
    <3>1. inbox'[m] = inbox[m]
      BY <1>2, <2>5
    <3> QED
      BY <2>1, <2>2, <3>1 DEF Arriving
  <2> QED
    BY <2>3, <2>4, <2>5
<1>7. ASSUME NEW t \in Terms, Head(inbox[n]) = Vote(t) PROVE Arriving(n, t)' + 1 <= Arriving(n, t)
  <2>1. inbox[n] \in Seq(Message) /\ inbox'[n] = Tail(inbox[n])
    BY <1>1, <1>2
  <2>2. Arriving(n, t)' = Cardinality(Copies(inbox'[n], Vote(t)))
    BY DEF Arriving, Vote
  <2> QED
    BY <1>7, <2>1, <2>2, CopiesTail DEF Arriving
<1> QED
  BY <1>4, <1>5, <1>6, <1>7

\* The same for what is sent without taking a message out.
LEMMA Posted ==
  ASSUME TypeInv, NEW S \in SUBSET Nodes, NEW out \in [Nodes -> Message],
         inbox' = [m \in Nodes |-> IF m \in S THEN Append(inbox[m], out[m]) ELSE inbox[m]]
  PROVE  /\ inbox' \in [Nodes -> Seq(Message)]
         /\ \A m \in Nodes : \A i \in DOMAIN inbox'[m] :
              \/ \E j \in DOMAIN inbox[m] : inbox'[m][i] = inbox[m][j]
              \/ m \in S /\ inbox'[m][i] = out[m]
         /\ \A m \in Nodes, t \in Terms :
              out[m] # Vote(t) => Arriving(m, t)' <= Arriving(m, t)
<1>1. inbox \in [Nodes -> Seq(Message)]
  BY DEF TypeInv, NetType
<1>2. inbox' \in [Nodes -> Seq(Message)]
  BY <1>1
<1>3. ASSUME NEW m \in Nodes, NEW i \in DOMAIN inbox'[m]
      PROVE  \/ \E j \in DOMAIN inbox[m] : inbox'[m][i] = inbox[m][j]
             \/ m \in S /\ inbox'[m][i] = out[m]
  <2>1. inbox[m] \in Seq(Message)
    BY <1>1
  <2>2. CASE m \in S
    <3>1. inbox'[m] = Append(inbox[m], out[m])
      BY <2>2
    <3>2. i \in 1 .. Len(inbox[m]) + 1
      BY <2>1, <3>1
    <3>3. CASE i = Len(inbox[m]) + 1
      <4>1. Append(inbox[m], out[m])[Len(inbox[m]) + 1] = out[m]
        BY <2>1
      <4> QED
        BY <2>2, <3>1, <3>3, <4>1
    <3>4. CASE i # Len(inbox[m]) + 1
      <4>1. i \in 1 .. Len(inbox[m])
        BY <2>1, <3>2, <3>4
      <4>2. Append(inbox[m], out[m])[i] = inbox[m][i]
        BY <2>1, <4>1
      <4> QED
        BY <2>1, <3>1, <4>1, <4>2
    <3> QED
      BY <3>3, <3>4
  <2> QED
    BY <2>2
<1>4. ASSUME NEW m \in Nodes, NEW t \in Terms, out[m] # Vote(t)
      PROVE  Arriving(m, t)' <= Arriving(m, t)
  <2>1. inbox[m] \in Seq(Message) /\ Arriving(m, t) \in Nat
    BY <1>1, CopiesFinite DEF Arriving
  <2>2. Arriving(m, t)' = Cardinality(Copies(inbox'[m], Vote(t)))
    BY DEF Arriving, Vote
  <2>3. Copies(inbox'[m], Vote(t)) = Copies(inbox[m], Vote(t))
    <3>1. Copies(Append(inbox[m], out[m]), Vote(t)) = Copies(inbox[m], Vote(t))
      BY <1>4, <2>1, CopiesAppend
    <3> QED
      BY <3>1
  <2> QED
    BY <2>1, <2>2, <2>3 DEF Arriving
<1> QED
  BY <1>2, <1>3, <1>4

\* Emptying inboxes, as the end of a thread does.
LEMMA Emptied ==
  ASSUME TypeInv, NEW S \in SUBSET Nodes,
         inbox' = [m \in Nodes |-> IF m \in S THEN <<>> ELSE inbox[m]]
  PROVE  /\ inbox' \in [Nodes -> Seq(Message)]
         /\ \A m \in Nodes : \A i \in DOMAIN inbox'[m] :
              i \in DOMAIN inbox[m] /\ inbox'[m][i] = inbox[m][i]
         /\ \A m \in Nodes, t \in Terms : Arriving(m, t)' <= Arriving(m, t)
<1>1. inbox \in [Nodes -> Seq(Message)]
  BY DEF TypeInv, NetType
<1>2. \A m \in Nodes : \A i \in DOMAIN inbox'[m] : i \in DOMAIN inbox[m] /\ inbox'[m][i] = inbox[m][i]
  OBVIOUS
<1>3. ASSUME NEW m \in Nodes, NEW t \in Terms PROVE Arriving(m, t)' <= Arriving(m, t)
  <2>1. Arriving(m, t)' = Cardinality(Copies(inbox'[m], Vote(t)))
    BY DEF Arriving, Vote
  <2>2. Copies(inbox'[m], Vote(t)) \in SUBSET Copies(inbox[m], Vote(t))
    BY <1>2 DEF Copies
  <2>3. IsFiniteSet(Copies(inbox[m], Vote(t)))
    BY <1>1, CopiesFinite
  <2> QED
    BY <2>1, <2>2, <2>3, FS_Subset DEF Arriving
<1> QED
  BY <1>1, <1>2, <1>3
-----------------------------------------------------------------------------
\* What a step leaves alone keeps its type.
LEMMA SameTypes ==
  ASSUME TypeInv
  PROVE  /\ UNCHANGED setupVars => SetupType'
         /\ UNCHANGED electionVars => ElectionType'
         /\ UNCHANGED logVars => LogType'
<1>1. UNCHANGED setupVars => SetupType'
  BY DEF TypeInv, SetupType, setupVars, Others
<1>2. UNCHANGED electionVars => ElectionType'
  BY DEF TypeInv, ElectionType, electionVars
<1>3. UNCHANGED logVars => LogType'
  BY DEF TypeInv, LogType, logVars
<1> QED
  BY <1>1, <1>2, <1>3

\* Inboxes that get no Accept keep their type.
LEMMA NetSame ==
  ASSUME TypeInv, inbox' \in [Nodes -> Seq(Message)], UNCHANGED <<told, part, disruptions>>,
         \A m \in Nodes : \A i \in DOMAIN inbox'[m] :
           \/ \E j \in DOMAIN inbox[m] : inbox'[m][i] = inbox[m][j]
           \/ inbox'[m][i].type # "Accept"
  PROVE  NetType'
BY DEF TypeInv, NetType

\* A vote that counts is one of at most as many as there are offices.
LEMMA VotesFit ==
  ASSUME TypeInv, NEW v \in Ballots, Explains(v), NEW n \in Nodes, Received(n, "Vote"),
         role[n] = "Candidate", term[n] = Head(inbox[n]).term
  PROVE  /\ term[n] \in Terms /\ Head(inbox[n]) = Vote(term[n]) /\ v[n][term[n]] = n
         /\ votes[n] > 0 /\ votes[n] + 1 <= Cardinality(Voters(v, n, term[n]))
         /\ Cardinality(Voters(v, n, term[n])) <= Cardinality(Nodes)
         /\ Cardinality(Voters(v, n, term[n])) \in Nat /\ Cardinality(Nodes) \in Nat
<1>1. term[n] \in Terms /\ Head(inbox[n]) = Vote(term[n]) /\ v[n][term[n]] = n
  <2>1. /\ Head(inbox[n]) \in Message /\ Head(inbox[n]).type = "Vote"
        /\ 1 \in DOMAIN inbox[n] /\ Head(inbox[n]) = inbox[n][1]
    BY FirstInInbox
  <2>2. Head(inbox[n]).term \in Terms /\ Head(inbox[n]) = Vote(Head(inbox[n]).term)
    BY <2>1, Carries
  <2>3. v[n][Head(inbox[n]).term] = n
    BY <2>1 DEF Explains
  <2> QED
    BY <2>2, <2>3
<1>2. inbox[n] \in Seq(Message) /\ inbox[n] # <<>>
  BY FirstInInbox DEF TypeInv, NetType
<1>3. Arriving(n, term[n]) \in Nat /\ Arriving(n, term[n]) > 0
  <2>1. Arriving(n, term[n]) \in Nat
    BY <1>2, CopiesFinite DEF Arriving
  <2>2. /\ Cardinality(Copies(Tail(inbox[n]), Vote(term[n]))) + 1 <= Arriving(n, term[n])
        /\ Cardinality(Copies(Tail(inbox[n]), Vote(term[n]))) \in Nat
    <3>1. Tail(inbox[n]) \in Seq(Message)
      BY <1>2
    <3> QED
      BY <1>1, <1>2, <3>1, CopiesTail, CopiesFinite DEF Arriving
  <2> QED
    BY <2>1, <2>2
<1>4. votes[n] > 0 /\ votes[n] + Arriving(n, term[n]) <= Cardinality(Voters(v, n, term[n]))
  BY <1>1 DEF Explains
<1>5. Voters(v, n, term[n]) \in SUBSET Nodes
  BY DEF Voters
<1>6. /\ IsFiniteSet(Voters(v, n, term[n]))
      /\ Cardinality(Voters(v, n, term[n])) <= Cardinality(Nodes)
  BY <1>5, NodesAssumption, FS_Subset
<1>7. Cardinality(Voters(v, n, term[n])) \in Nat /\ Cardinality(Nodes) \in Nat
  BY <1>6, NodesAssumption, FS_CardinalityType
<1>8. votes[n] \in Nat
  BY DEF TypeInv, ElectionType
<1> QED
  BY <1>1, <1>3, <1>4, <1>6, <1>7, <1>8

\* Under either condition any two majorities of a term meet.
LEMMA MajorityIsHalf ==
  ASSUME TypeInv, NEW v \in Ballots, Explains(v), MajoritiesMeet,
         NEW n \in Nodes, NEW t \in Terms, v[n][t] = n,
         NEW k \in Nat, k > 1, Majority(n, k)
  PROVE  2 * k > Cardinality(Nodes)
<1>1. Cardinality(Nodes) \in Nat
  BY NodesAssumption, FS_CardinalityType
<1>2. CASE Cardinality(Nodes) <= 3
  BY <1>1, <1>2
<1>3. CASE MaxEarlyTerm = 0
  <2>1. nodes[n] = Nodes \ {n}
    BY <1>3, NodesAssumption DEF Explains, SetUp, Others
  <2>2. Cardinality(nodes[n]) = Cardinality(Nodes) - 1
    BY <2>1, NodesAssumption, FS_RemoveElement
  <2>3. k > ((Cardinality(Nodes) - 1) + 1) \div 2
    BY <2>2 DEF Majority
  <2> QED
    BY <1>1, <2>3
<1> QED
  BY <1>2, <1>3 DEF MajoritiesMeet

\* A step in which nobody votes needs no new ballot, if a candidate counts no more votes than
\* it takes out, and is elected by a majority.
LEMMA SteadyStep ==
  ASSUME TypeInv, TypeInv', NEW v \in Ballots, Explains(v),
         \A m \in Nodes : term'[m] >= term[m] /\ nodes[m] \subseteq nodes'[m],
         \A m \in Nodes : role'[m] = "Candidate" =>
           /\ role[m] = "Candidate" /\ votes'[m] > 0
           /\ \A t \in Terms : term'[m] = t /\ v[m][t] = m =>
                term[m] = t /\ votes'[m] + Arriving(m, t)' <= votes[m] + Arriving(m, t),
         \A m \in Nodes : \A i \in DOMAIN inbox'[m] :
           \/ \E j \in DOMAIN inbox[m] : inbox'[m][i] = inbox[m][j]
           \/ inbox'[m][i].type \notin {"RequestVote", "Vote"},
         \A m \in Nodes, t \in Terms : <<m, t>> \in elected' /\ <<m, t>> \notin elected =>
           (MajoritiesMeet => 2 * Cardinality(Voters(v, m, t)) > Cardinality(Nodes))
  PROVE  Explains(v)'
<1>types. /\ \A m \in Nodes : /\ term[m] \in 0 .. MaxTerm /\ term'[m] \in 0 .. MaxTerm
                              /\ votes[m] \in Nat /\ votes'[m] \in Nat
          /\ inbox \in [Nodes -> Seq(Message)] /\ inbox' \in [Nodes -> Seq(Message)]
  BY DEF TypeInv, NetType, ElectionType
<1>1. (\A m \in Nodes, t \in Terms : v[m][t] # None => term[m] >= t)'
  <2> SUFFICES ASSUME NEW m \in Nodes, NEW t \in Terms, v[m][t] # None PROVE term'[m] >= t
    OBVIOUS
  <2>1. term[m] >= t /\ term'[m] >= term[m]
    BY DEF Explains
  <2> QED
    BY <1>types, <2>1, BoundsAssumption DEF Terms
<1>2. /\ \A m \in Nodes : \A i \in DOMAIN inbox'[m] :
           inbox'[m][i].type = "RequestVote" =>
             v[inbox'[m][i].src][inbox'[m][i].term] = inbox'[m][i].src
      /\ \A n \in Nodes : \A i \in DOMAIN inbox'[n] :
           inbox'[n][i].type = "Vote" => v[n][inbox'[n][i].term] = n
  BY DEF Explains
<1>3. ASSUME NEW n \in Nodes, role'[n] = "Candidate"
      PROVE  /\ votes'[n] > 0
             /\ \A t \in Terms : term'[n] = t /\ v[n][t] = n =>
                  votes'[n] + Arriving(n, t)' <= Cardinality(Voters(v, n, t))
  <2>1. ASSUME NEW t \in Terms, term'[n] = t, v[n][t] = n
        PROVE  votes'[n] + Arriving(n, t)' <= Cardinality(Voters(v, n, t))
    <3>1. votes[n] + Arriving(n, t) <= Cardinality(Voters(v, n, t))
          /\ votes'[n] + Arriving(n, t)' <= votes[n] + Arriving(n, t)
      BY <1>3, <2>1 DEF Explains
    <3>2. Arriving(n, t) \in Nat /\ Arriving(n, t)' \in Nat
      <4>1. Arriving(n, t)' = Cardinality(Copies(inbox'[n], Vote(t)))
        BY DEF Arriving, Vote
      <4> QED
        BY <1>types, <4>1, CopiesFinite DEF Arriving
    <3>3. Voters(v, n, t) \in SUBSET Nodes
      BY DEF Voters
    <3>4. Cardinality(Voters(v, n, t)) \in Nat
      BY <3>3, NodesAssumption, FS_Subset, FS_CardinalityType
    <3> QED
      BY <1>types, <3>1, <3>2, <3>4
  <2> QED
    BY <1>3, <2>1
<1>4. MaxEarlyTerm = 0 => \A m \in Nodes, t \in Terms : v[m][t] # None => SetUp'
  <2>1. SetUp => SetUp'
    BY DEF SetUp, TypeInv, SetupType, Others
  <2> QED
    BY <2>1 DEF Explains
<1>5. MajoritiesMeet => \A n \in Nodes, t \in Terms :
        <<n, t>> \in elected' => 2 * Cardinality(Voters(v, n, t)) > Cardinality(Nodes)
  BY DEF Explains
<1> QED
  BY <1>1, <1>2, <1>3, <1>4, <1>5 DEF Explains, Voters, MajoritiesMeet, Arriving

\* Least of all one in which nobody counts, or is elected.
LEMMA QuietStep ==
  ASSUME TypeInv, TypeInv', NEW v \in Ballots, Explains(v), elected' = elected,
         \A m \in Nodes : term'[m] >= term[m] /\ nodes[m] \subseteq nodes'[m],
         \A m \in Nodes : role'[m] = "Candidate" =>
           /\ role[m] = "Candidate" /\ votes'[m] = votes[m]
           /\ term'[m] = term[m] \/ \A t \in Terms : term'[m] = t => v[m][t] # m,
         \A m \in Nodes : \A i \in DOMAIN inbox'[m] :
           \/ \E j \in DOMAIN inbox[m] : inbox'[m][i] = inbox[m][j]
           \/ inbox'[m][i].type \notin {"RequestVote", "Vote"},
         \A m \in Nodes, t \in Terms : Arriving(m, t)' <= Arriving(m, t)
  PROVE  Explains(v)'
<1>1. ASSUME NEW m \in Nodes, role'[m] = "Candidate"
      PROVE  /\ role[m] = "Candidate" /\ votes'[m] > 0
             /\ \A t \in Terms : term'[m] = t /\ v[m][t] = m =>
                  term[m] = t /\ votes'[m] + Arriving(m, t)' <= votes[m] + Arriving(m, t)
  <2>1. role[m] = "Candidate" /\ votes'[m] = votes[m] /\ votes[m] > 0 /\ votes[m] \in Nat
    BY <1>1 DEF Explains, TypeInv, ElectionType
  <2>2. \A t \in Terms : Arriving(m, t) \in Nat /\ Arriving(m, t)' \in Nat
    <3>1. \A t \in Terms : Arriving(m, t)' = Cardinality(Copies(inbox'[m], Vote(t)))
      BY DEF Arriving, Vote
    <3> QED
      BY <3>1, CopiesFinite DEF Arriving, TypeInv, NetType
  <2> QED
    BY <1>1, <2>1, <2>2
<1> QED
  BY <1>1, SteadyStep
-----------------------------------------------------------------------------
\* A step as QuietStep has it, seen from the inboxes.
Quiet ==
  /\ \A m \in Nodes : \A i \in DOMAIN inbox'[m] :
       \/ \E j \in DOMAIN inbox[m] : inbox'[m][i] = inbox[m][j]
       \/ inbox'[m][i].type \notin {"RequestVote", "Vote"}
  /\ \A m \in Nodes, t \in Terms : Arriving(m, t)' <= Arriving(m, t)

\* What handlers send most of the time.
Plain(u) == \A i \in DOMAIN u : u[i].type \notin {"RequestVote", "Vote", "Accept"}

\* A handler that sends nothing but plain messages is quiet.
LEMMA QuietOut ==
  ASSUME TypeInv, NEW n \in Nodes, NEW type, Received(n, type),
         NEW out \in [Nodes -> Seq(Message)], \A m \in Nodes : Plain(out[m]),
         Deliver(n, out), UNCHANGED <<told, part, disruptions>>
  PROVE  NetType' /\ Quiet
<1>1. inbox[n] # <<>>
  BY FirstInInbox
<1>2. /\ inbox' \in [Nodes -> Seq(Message)]
      /\ \A m \in Nodes : \A i \in DOMAIN inbox'[m] :
           \/ \E j \in DOMAIN inbox[m] : inbox'[m][i] = inbox[m][j]
           \/ m \in nodes[n] /\ \E j \in DOMAIN out[m] : inbox'[m][i] = out[m][j]
      /\ \A m \in Nodes, t \in Terms :
           Copies(out[m], Vote(t)) = {} => Arriving(m, t)' <= Arriving(m, t)
  BY <1>1, Delivered
<1>3. \A m \in Nodes, t \in Terms : Copies(out[m], Vote(t)) = {}
  BY Kinds DEF Copies, Plain
<1>4. \A m \in Nodes : \A i \in DOMAIN inbox'[m] :
           \/ \E j \in DOMAIN inbox[m] : inbox'[m][i] = inbox[m][j]
           \/ inbox'[m][i].type \notin {"RequestVote", "Vote", "Accept"}
  <2> SUFFICES ASSUME NEW m \in Nodes, NEW i \in DOMAIN inbox'[m],
                      NEW j \in DOMAIN out[m], inbox'[m][i] = out[m][j]
               PROVE  inbox'[m][i].type \notin {"RequestVote", "Vote", "Accept"}
    BY <1>2
  <2>1. Plain(out[m])
    OBVIOUS
  <2> QED
    BY <2>1 DEF Plain
<1>5. NetType'
  BY <1>2, <1>4, NetSame
<1> QED
  BY <1>2, <1>3, <1>4, <1>5 DEF Quiet

\* So is a step that sends a plain message without taking one out.
LEMMA QuietPosted ==
  ASSUME TypeInv, NEW S \in SUBSET Nodes, NEW out \in [Nodes -> Message],
         inbox' = [m \in Nodes |-> IF m \in S THEN Append(inbox[m], out[m]) ELSE inbox[m]],
         \A m \in Nodes : out[m].type \notin {"RequestVote", "Vote", "Accept"},
         UNCHANGED <<told, part, disruptions>>
  PROVE  NetType' /\ Quiet
<1>1. /\ inbox' \in [Nodes -> Seq(Message)]
      /\ \A m \in Nodes : \A i \in DOMAIN inbox'[m] :
           \/ \E j \in DOMAIN inbox[m] : inbox'[m][i] = inbox[m][j]
           \/ m \in S /\ inbox'[m][i] = out[m]
      /\ \A m \in Nodes, t \in Terms :
           out[m] # Vote(t) => Arriving(m, t)' <= Arriving(m, t)
  BY Posted
<1>2. \A m \in Nodes, t \in Terms : out[m] # Vote(t)
  BY Kinds
<1>3. \A m \in Nodes : \A i \in DOMAIN inbox'[m] :
           \/ \E j \in DOMAIN inbox[m] : inbox'[m][i] = inbox[m][j]
           \/ inbox'[m][i].type \notin {"RequestVote", "Vote", "Accept"}
  BY <1>1
<1>4. NetType'
  BY <1>1, <1>3, NetSame
<1> QED
  BY <1>1, <1>2, <1>3, <1>4 DEF Quiet

\* Inboxes that stay or are emptied.
LEMMA QuietEmptied ==
  ASSUME TypeInv, NEW S \in SUBSET Nodes,
         inbox' = [m \in Nodes |-> IF m \in S THEN <<>> ELSE inbox[m]],
         \A m \in Nodes : told[m] \subseteq told'[m], UNCHANGED <<part, disruptions>>
  PROVE  NetType' /\ Quiet
<1>1. /\ inbox' \in [Nodes -> Seq(Message)]
      /\ \A m \in Nodes : \A i \in DOMAIN inbox'[m] :
           i \in DOMAIN inbox[m] /\ inbox'[m][i] = inbox[m][i]
      /\ \A m \in Nodes, t \in Terms : Arriving(m, t)' <= Arriving(m, t)
  BY Emptied
<1>2. NetType'
  BY <1>1 DEF TypeInv, NetType
<1> QED
  BY <1>1, <1>2 DEF Quiet

\* Replies go to one office.
LEMMA Reply ==
  ASSUME NEW d, NEW msgs \in Seq(Message), Plain(msgs)
  PROVE  To(d, msgs) \in [Nodes -> Seq(Message)] /\ \A m \in Nodes : Plain(To(d, msgs)[m])
BY DEF To, Plain

\* Nothing is a reply, too.
LEMMA NoReply == <<>> \in Seq(Message) /\ Plain(<<>>)
BY DEF Plain

\* QuietStep, for the steps that leave the offices' terms and votes alone.
LEMMA SameElection ==
  ASSUME NEW v \in Ballots, Explained(v), TypeInv', Quiet, UNCHANGED <<term, votes, elected>>,
         \A m \in Nodes : nodes[m] \subseteq nodes'[m],
         \A m \in Nodes : role'[m] = "Candidate" => role[m] = "Candidate"
  PROVE  Explained(v)'
<1>1. v \in Ballots /\ Explains(v)
  BY DEF Explained
<1>2. \A m \in Nodes : term'[m] >= term[m]
  BY BoundsAssumption DEF Explained, TypeInv, ElectionType
<1>3. Explains(v)'
  BY <1>1, <1>2, QuietStep DEF Quiet, Explained
<1> QED
  BY <1>3 DEF Explained
-----------------------------------------------------------------------------
\* Offices start without a term, and nobody has voted.
LEMMA InitInd == Init => IndInv
<1> SUFFICES ASSUME Init PROVE IndInv
  OBVIOUS
<1>1. Cardinality(Nodes) \in Nat
  BY NodesAssumption, FS_CardinalityType
<1>2. SetupType
  BY DEF Init, SetupType, Others
<1>3. NetType
  <2>1. \A n \in Nodes : 0 \in 0 .. Cardinality(Nodes) - 1
    BY <1>1, NodesAssumption, FS_EmptySet
  <2> QED
    BY <2>1 DEF Init, NetType
<1>4. ElectionType
  BY <1>1, BoundsAssumption DEF Init, ElectionType, Roles
<1>5. LogType
  BY DEF Init, LogType
<1> DEFINE v == [m \in Nodes |-> [t \in Terms |-> None]]
<1>6. v \in Ballots
  BY DEF Ballots
<1>7. Explains(v)
  BY NodesAssumption DEF Init, Explains
<1> QED
  BY <1>2, <1>3, <1>4, <1>5, <1>6, <1>7 DEF IndInv, Explained, TypeInv

\* Handlers that change the logs, but nobody's term, role or votes.
LEMMA LogStep ==
  ASSUME NEW v \in Ballots, Explained(v), LogType', NetType', Quiet, UNCHANGED <<setupVars, electionVars>>
  PROVE  Explained(v)'
<1>1. TypeInv'
  BY SameTypes DEF Explained, TypeInv
<1> QED
  BY <1>1, SameElection DEF setupVars, electionVars

\* A leader sends its entries again.
LEMMA HeartbeatInd ==
  ASSUME NEW v \in Ballots, Explained(v), NEW n \in Nodes, Heartbeat(n)
  PROVE  Explained(v)'
<1> DEFINE S == {m \in Nodes : m \in nodes[n] /\ Reaches(n, m)}
           out == [m \in Nodes |-> AppendEntry(n, pending[n][m])]
<1>1. out \in [Nodes -> Message]
  BY Broadcasts DEF Explained, TypeInv, LogType
<1>2. \A m \in Nodes : out[m].type = "AppendEntry"
  BY DEF AppendEntry
<1>3. inbox' = [m \in Nodes |-> IF m \in S THEN Append(inbox[m], out[m]) ELSE inbox[m]]
  BY DEF Heartbeat
<1>4. UNCHANGED <<setupVars, part, disruptions, electionVars, logVars, told>>
  BY DEF Heartbeat, setupVars
<1> HIDE DEF S, out
<1>5. NetType' /\ Quiet
  <2>1. S \in SUBSET Nodes
    BY DEF S
  <2> QED
    BY <1>1, <1>2, <1>3, <1>4, <2>1, QuietPosted DEF Explained
<1> QED
  BY <1>4, <1>5, LogStep, SameTypes DEF Explained

\* One more office to send to; a majority of those known may be larger now, but no vote counts here.
LEMMA AcceptInd ==
  ASSUME NEW v \in Ballots, Explained(v), NEW n \in Nodes, Accept(n)
  PROVE  Explained(v)'
<1> DEFINE src == Head(inbox[n]).src
<1>1. Received(n, "Accept") /\ Deliver(n, To(n, <<>>))
      /\ UNCHANGED <<told, part, disruptions, electionVars, log, acks, pending_cmds, applied>>
      /\ nodes' = [nodes EXCEPT ![n] = @ \cup {src}]
      /\ pending' = [pending EXCEPT ![n][src] = None]
  BY DEF Accept
<1>2. NetType' /\ Quiet
  BY <1>1, QuietOut, Reply, NoReply DEF Explained
<1>3. src \in Nodes /\ src \in told[n]
  <2>1. /\ Head(inbox[n]) \in Message /\ Head(inbox[n]).type = "Accept"
        /\ 1 \in DOMAIN inbox[n] /\ Head(inbox[n]) = inbox[n][1]
    BY <1>1, FirstInInbox DEF Explained
  <2> QED
    BY <2>1, Carries DEF Explained, TypeInv, NetType
<1> HIDE DEF src
<1>4. SetupType' /\ \A m \in Nodes : nodes[m] \subseteq nodes'[m]
  BY <1>1, <1>3 DEF Explained, TypeInv, SetupType, Others
<1>5. LogType'
  BY <1>1, <1>3 DEF Explained, TypeInv, LogType
<1>6. ElectionType'
  BY <1>1, SameTypes DEF Explained
<1> QED
  BY <1>1, <1>2, <1>4, <1>5, <1>6, SameElection DEF TypeInv, electionVars

\* The end of one thread, or of all.
LEMMA EndsInd ==
  ASSUME NEW v \in Ballots, Explained(v), NEW S \in SUBSET Nodes,
         inbox' = [m \in Nodes |-> IF m \in S THEN <<>> ELSE inbox[m]],
         role' = [m \in Nodes |-> IF m \in S THEN "Panicked" ELSE role[m]],
         told' = told \/ told' = [m \in Nodes |-> Others(m)],
         UNCHANGED <<nodes, part, disruptions, leader, term, votes, elected, strayed, logVars>>
  PROVE  Explained(v)'
<1>1. \A m \in Nodes : told[m] \subseteq told'[m]
  BY DEF Explained, TypeInv, SetupType
<1>2. NetType' /\ Quiet
  BY <1>1, QuietEmptied DEF Explained
<1>3. SetupType'
  BY <1>1 DEF Explained, TypeInv, SetupType, Others
<1>4. ElectionType'
  BY DEF Explained, TypeInv, ElectionType, Roles
<1>5. LogType'
  BY SameTypes DEF Explained
<1>6. \A m \in Nodes : role'[m] = "Candidate" => role[m] = "Candidate"
  OBVIOUS
<1> QED
  BY <1>2, <1>3, <1>4, <1>5, <1>6, SameElection DEF TypeInv

\* A thread that ends takes nothing with it but what it had not read.
LEMMA PanicInd ==
  ASSUME NEW v \in Ballots, Explained(v), NEW n \in Nodes, Panic(n)
  PROVE  Explained(v)'
<1>1. /\ inbox' = [m \in Nodes |-> IF m \in {n} THEN <<>> ELSE inbox[m]]
      /\ role' = [m \in Nodes |-> IF m \in {n} THEN "Panicked" ELSE role[m]]
  BY DEF Panic, Explained, TypeInv, NetType, ElectionType
<1>2. /\ told' = told \/ told' = [m \in Nodes |-> Others(m)]
      /\ UNCHANGED <<nodes, part, disruptions, leader, term, votes, elected, strayed, logVars>>
  BY DEF Panic, setupVars
<1>3. {n} \in SUBSET Nodes
  OBVIOUS
<1> QED
  BY <1>1, <1>2, <1>3, EndsInd

\* So does the program.
LEMMA ProgramEndsInd ==
  ASSUME NEW v \in Ballots, Explained(v), NEW n \in Nodes, ClientFails(n) \/ \E m \in Nodes : TellFails(n, m)
  PROVE  Explained(v)'
<1>1. /\ inbox' = [m \in Nodes |-> IF m \in Nodes THEN <<>> ELSE inbox[m]]
      /\ role' = [m \in Nodes |-> IF m \in Nodes THEN "Panicked" ELSE role[m]]
  BY DEF ClientFails, TellFails, ProgramEnds
<1>2. /\ told' = told \/ told' = [m \in Nodes |-> Others(m)]
      /\ UNCHANGED <<nodes, part, disruptions, leader, term, votes, elected, strayed, logVars>>
  BY DEF ClientFails, TellFails, setupVars
<1> QED
  BY <1>1, <1>2, EndsInd

\* What comes too late is taken out and changes nothing.
LEMMA RejectAppendEntryInd ==
  ASSUME NEW v \in Ballots, Explained(v), NEW n \in Nodes, RejectAppendEntry(n) \/ IgnoreResponse(n)
  PROVE  Explained(v)'
<1>1. \E type : Received(n, type)
  BY DEF RejectAppendEntry, IgnoreResponse
<1>2. Deliver(n, To(n, <<>>))
      /\ UNCHANGED <<setupVars, told, part, disruptions, electionVars, logVars>>
  BY DEF RejectAppendEntry, IgnoreResponse, setupVars
<1>3. NetType' /\ Quiet
  BY <1>1, <1>2, QuietOut, Reply, NoReply DEF Explained
<1> QED
  BY <1>2, <1>3, LogStep, SameTypes DEF Explained

\* The driver, the script and the daemon.
LEMMA TellInd ==
  ASSUME NEW v \in Ballots, Explained(v), NEW n \in Nodes, NEW m \in Nodes, Tell(n, m)
  PROVE  Explained(v)'
<1> DEFINE msg == [type |-> "Accept", src |-> m]
           out == [k \in Nodes |-> msg]
<1>1. /\ m \notin told[n] \cup {n} /\ told' = [told EXCEPT ![n] = @ \cup {m}]
      /\ inbox' = [inbox EXCEPT ![n] = Append(@, msg)]
      /\ UNCHANGED <<nodes, part, disruptions, electionVars, logVars>>
  BY DEF Tell, MayTell
<1>2. inbox' = [k \in Nodes |-> IF k \in {n} THEN Append(inbox[k], out[k]) ELSE inbox[k]]
  BY <1>1 DEF Explained, TypeInv, NetType
<1>3. out \in [Nodes -> Message]
  BY Kinds
<1>4. /\ inbox' \in [Nodes -> Seq(Message)]
      /\ \A k \in Nodes : \A i \in DOMAIN inbox'[k] :
           \/ \E j \in DOMAIN inbox[k] : inbox'[k][i] = inbox[k][j]
           \/ k \in {n} /\ inbox'[k][i] = out[k]
      /\ \A k \in Nodes, t \in Terms : out[k] # Vote(t) => Arriving(k, t)' <= Arriving(k, t)
  <2> HIDE DEF out
  <2> QED
    BY <1>2, <1>3, Posted DEF Explained
<1>5. Quiet
  <2>1. \A k \in Nodes, t \in Terms : out[k] # Vote(t)
    BY Kinds
  <2> QED
    BY <1>4, <2>1 DEF Quiet
<1>6. NetType'
  <2>1. \A k \in Nodes : told[k] \subseteq told'[k]
    BY <1>1 DEF Explained, TypeInv, SetupType
  <2>2. \A k \in Nodes : \A i \in DOMAIN inbox'[k] :
          inbox'[k][i].type = "Accept" => inbox'[k][i].src \in told'[k]
    BY <1>1, <1>4, <2>1 DEF Explained, TypeInv, NetType, SetupType
  <2> QED
    BY <1>1, <1>4, <2>2 DEF Explained, TypeInv, NetType
<1>7. SetupType'
  BY <1>1 DEF Explained, TypeInv, SetupType, Others
<1> QED
  BY <1>1, <1>5, <1>6, <1>7, SameTypes, SameElection DEF Explained, TypeInv, electionVars

\* A command is one more message.
LEMMA ClientInd ==
  ASSUME NEW v \in Ballots, Explained(v), NEW n \in Nodes, NEW c \in Commands, Client(n, c)
  PROVE  Explained(v)'
<1> DEFINE out == [k \in Nodes |-> Command(c)]
<1>1. /\ inbox' = [k \in Nodes |-> IF k \in {n} THEN Append(inbox[k], out[k]) ELSE inbox[k]]
      /\ UNCHANGED <<setupVars, told, part, disruptions, electionVars, logVars>>
  BY DEF Client, Explained, TypeInv, NetType, setupVars
<1>2. out \in [Nodes -> Message] /\ \A m \in Nodes : out[m].type = "Command"
  BY Kinds
<1>3. NetType' /\ Quiet
  <2> HIDE DEF out
  <2> QED
    BY <1>1, <1>2, QuietPosted DEF Explained
<1> QED
  BY <1>1, <1>3, LogStep, SameTypes DEF Explained

\* The daemon moves offices between partitions.
LEMMA DaemonInd ==
  ASSUME NEW v \in Ballots, Explained(v), NEW n \in Nodes, Disrupt(n) \/ Restore(n)
  PROVE  Explained(v)'
<1>1. UNCHANGED <<inbox, setupVars, told, electionVars, logVars>>
  BY DEF Disrupt, Restore, setupVars
<1>2. Cardinality(Nodes) \in Nat /\ Cardinality(Nodes) > 0
  <2>1. Cardinality(Nodes) \in Nat /\ Cardinality(Nodes) # 0
    BY NodesAssumption, FS_CardinalityType, FS_EmptySet
  <2> QED
    BY <2>1
<1>3. part' \in [Nodes -> 0 .. Cardinality(Nodes) - 1] /\ disruptions' \in Nat
  <2>1. CASE Disrupt(n)
    <3>1. Min({Cardinality(Nodes) - 1, MaxDisruptions}) <= Cardinality(Nodes) - 1
          /\ Min({Cardinality(Nodes) - 1, MaxDisruptions}) \in Int
      BY <1>2, BoundsAssumption DEF Min
    <3>2. PICK p \in 1 .. Min({Cardinality(Nodes) - 1, MaxDisruptions}) : part' = [part EXCEPT ![n] = p]
      BY <2>1 DEF Disrupt
    <3> QED
      BY <1>2, <2>1, <3>1, <3>2 DEF Disrupt, Explained, TypeInv, NetType
  <2>2. CASE Restore(n)
    BY <1>2, <2>2 DEF Restore, Explained, TypeInv, NetType
  <2> QED
    BY <2>1, <2>2
<1>4. NetType'
  BY <1>1, <1>3 DEF Explained, TypeInv, NetType
<1>5. Quiet
  <2>1. \A m \in Nodes, t \in Terms : Arriving(m, t)' = Arriving(m, t) /\ Arriving(m, t) \in Nat
    BY <1>1, CopiesFinite DEF Arriving, Vote, Explained, TypeInv, NetType
  <2> QED
    BY <1>1, <2>1 DEF Quiet
<1> QED
  BY <1>1, <1>4, <1>5, LogStep, SameTypes DEF Explained
-----------------------------------------------------------------------------
\* One more office votes: the candidate has one voter more, and all others those they had.
LEMMA NewVoter ==
  ASSUME NEW v \in Ballots, NEW n \in Nodes, NEW c \in Nodes, NEW t \in Terms, v[n][t] = None
  PROVE  \E w \in Ballots :
           /\ w[n][t] = c
           /\ \A m \in Nodes, u \in Terms : v[m][u] # None => w[m][u] = v[m][u]
           /\ \A m \in Nodes, u \in Terms : m # n \/ u # t => w[m][u] = v[m][u]
           /\ \A m \in Nodes, u \in Terms : m # c \/ u # t => Voters(w, m, u) = Voters(v, m, u)
           /\ Cardinality(Voters(w, c, t)) = Cardinality(Voters(v, c, t)) + 1
           /\ \A m \in Nodes, u \in Terms : Cardinality(Voters(v, m, u)) \in Nat
<1> DEFINE w == [v EXCEPT ![n][t] = c]
<1>1. w \in Ballots /\ w[n][t] = c
  BY DEF Ballots
<1>2. \A m \in Nodes, u \in Terms : m # n \/ u # t => w[m][u] = v[m][u]
  BY DEF Ballots
<1> HIDE DEF w
<1>3. \A m \in Nodes, u \in Terms : v[m][u] # None => w[m][u] = v[m][u]
  BY <1>2
<1>4. ASSUME NEW m \in Nodes, NEW u \in Terms, m # c \/ u # t
      PROVE  Voters(w, m, u) = Voters(v, m, u)
  <2>1. \A k \in Nodes : w[k][u] = m <=> v[k][u] = m
    BY <1>1, <1>2, <1>4, NodesAssumption
  <2> QED
    BY <2>1 DEF Voters
<1>5. \A m \in Nodes, u \in Terms :
        IsFiniteSet(Voters(v, m, u)) /\ Cardinality(Voters(v, m, u)) \in Nat
  <2>1. \A m \in Nodes, u \in Terms : Voters(v, m, u) \in SUBSET Nodes
    BY DEF Voters
  <2> QED
    BY <2>1, NodesAssumption, FS_Subset, FS_CardinalityType
<1>6. Cardinality(Voters(w, c, t)) = Cardinality(Voters(v, c, t)) + 1
  <2>1. Voters(w, c, t) = Voters(v, c, t) \cup {n} /\ n \notin Voters(v, c, t)
    BY <1>1, <1>2, NodesAssumption DEF Voters
  <2> QED
    BY <1>5, <2>1, FS_AddElement
<1> QED
  BY <1>1, <1>2, <1>3, <1>4, <1>5, <1>6

\* A step in which n votes for c in a term of theirs, n itself perhaps: all that is new is the
\* candidate, which counts itself, or the vote on its way.
LEMMA VoteStep ==
  ASSUME TypeInv, TypeInv', NEW v \in Ballots, Explains(v),
         NEW n \in Nodes, NEW c \in Nodes, NEW t \in Terms,
         term[n] < t, term'[n] = t, UNCHANGED <<nodes, elected>>,
         \A m \in Nodes : m # n => UNCHANGED <<term[m], role[m], votes[m]>>,
         c # n => role'[n] # "Candidate" /\ \E u \in Terms : v[c][u] = c /\ u = t,
         c = n => role'[n] = "Candidate" /\ votes'[n] = 1 /\ Arriving(n, t)' = 0
                  /\ (MaxEarlyTerm = 0 => SetUp),
         \A m \in Nodes : \A i \in DOMAIN inbox'[m] :
           \/ \E j \in DOMAIN inbox[m] : inbox'[m][i] = inbox[m][j]
           \/ inbox'[m][i].type = "RequestVote" /\ inbox'[m][i].src = n
              /\ inbox'[m][i].term = t /\ c = n
           \/ inbox'[m][i].type = "Vote" /\ inbox'[m][i].term = t /\ m = c /\ c # n,
         \A m \in Nodes, u \in Terms : m # c \/ u # t => Arriving(m, u)' <= Arriving(m, u),
         c # n => Arriving(c, t)' <= Arriving(c, t) + 1
  PROVE  \E w \in Ballots : Explains(w)' /\ Cast(v, w, n, c, t)
<1>types. /\ \A m \in Nodes : /\ term[m] \in 0 .. MaxTerm /\ term'[m] \in 0 .. MaxTerm
                              /\ votes[m] \in Nat /\ votes'[m] \in Nat
          /\ inbox \in [Nodes -> Seq(Message)] /\ inbox' \in [Nodes -> Seq(Message)]
  BY DEF TypeInv, NetType, ElectionType
<1>0. v[n][t] = None
  BY <1>types, BoundsAssumption DEF Explains, Terms
<1>1. PICK w \in Ballots :
        /\ w[n][t] = c
        /\ \A m \in Nodes, u \in Terms : v[m][u] # None => w[m][u] = v[m][u]
        /\ \A m \in Nodes, u \in Terms : m # n \/ u # t => w[m][u] = v[m][u]
        /\ \A m \in Nodes, u \in Terms : m # c \/ u # t => Voters(w, m, u) = Voters(v, m, u)
        /\ Cardinality(Voters(w, c, t)) = Cardinality(Voters(v, c, t)) + 1
        /\ \A m \in Nodes, u \in Terms : Cardinality(Voters(v, m, u)) \in Nat
  BY <1>0, NewVoter
<1>2. \A m \in Nodes, u \in Terms : w[m][u] # None => term'[m] >= u
  <2> SUFFICES ASSUME NEW m \in Nodes, NEW u \in Terms, w[m][u] # None PROVE term'[m] >= u
    OBVIOUS
  <2>1. CASE m = n /\ u = t
    BY <1>types, <2>1, BoundsAssumption DEF Terms
  <2>2. CASE m # n \/ u # t
    <3>1. term[m] >= u
      BY <1>1, <2>2 DEF Explains
    <3>2. term'[m] >= term[m]
      <4>1. CASE m = n
        BY <1>types, <4>1, BoundsAssumption DEF Terms
      <4>2. CASE m # n
        <5>1. term'[m] = term[m]
          BY <4>2
        <5> QED
          BY <1>types, <5>1, BoundsAssumption
      <4> QED
        BY <4>1, <4>2
    <3> QED
      BY <1>types, <3>1, <3>2, BoundsAssumption DEF Terms
  <2> QED
    BY <2>1, <2>2
<1>3. \A m \in Nodes : \A i \in DOMAIN inbox'[m] :
        inbox'[m][i].type = "RequestVote" =>
          w[inbox'[m][i].src][inbox'[m][i].term] = inbox'[m][i].src
  <2> SUFFICES ASSUME NEW m \in Nodes, NEW i \in DOMAIN inbox'[m],
                      inbox'[m][i].type = "RequestVote"
               PROVE  w[inbox'[m][i].src][inbox'[m][i].term] = inbox'[m][i].src
    OBVIOUS
  <2>1. inbox'[m][i] \in Message
    BY <1>types
  <2>2. inbox'[m][i].src \in Nodes /\ inbox'[m][i].term \in Terms
    BY <2>1, Carries
  <2>3. CASE \E j \in DOMAIN inbox[m] : inbox'[m][i] = inbox[m][j]
    <3>1. v[inbox'[m][i].src][inbox'[m][i].term] = inbox'[m][i].src
      BY <2>3 DEF Explains
    <3> QED
      BY <1>1, <2>2, <3>1, NodesAssumption
  <2>4. CASE inbox'[m][i].src = n /\ inbox'[m][i].term = t /\ c = n
    BY <1>1, <2>4
  <2> QED
    BY <2>3, <2>4
<1>4. \A m \in Nodes : \A i \in DOMAIN inbox'[m] :
        inbox'[m][i].type = "Vote" => w[m][inbox'[m][i].term] = m
  <2> SUFFICES ASSUME NEW m \in Nodes, NEW i \in DOMAIN inbox'[m], inbox'[m][i].type = "Vote"
               PROVE  w[m][inbox'[m][i].term] = m
    OBVIOUS
  <2>1. inbox'[m][i] \in Message
    BY <1>types
  <2>2. inbox'[m][i].term \in Terms
    BY <2>1, Carries
  <2>3. CASE \E j \in DOMAIN inbox[m] : inbox'[m][i] = inbox[m][j]
    <3>1. v[m][inbox'[m][i].term] = m
      BY <2>3 DEF Explains
    <3> QED
      BY <1>1, <2>2, <3>1, NodesAssumption
  <2>4. CASE inbox'[m][i].term = t /\ m = c /\ c # n
    BY <1>1, <2>4, NodesAssumption
  <2> QED
    BY <2>3, <2>4
<1>5. ASSUME NEW m \in Nodes, role'[m] = "Candidate"
      PROVE  /\ votes'[m] > 0
             /\ \A u \in Terms : term'[m] = u /\ w[m][u] = m =>
                  votes'[m] + Arriving(m, u)' <= Cardinality(Voters(w, m, u))
  <2>1. CASE m = n
    <3>1. c = n /\ votes'[n] = 1 /\ Arriving(n, t)' = 0
      BY <1>5, <2>1
    <3>2. Cardinality(Voters(v, n, t)) \in Nat
      BY <1>1
    <3> QED
      BY <1>1, <2>1, <3>1, <3>2
  <2>2. CASE m # n
    <3>1. term'[m] = term[m] /\ role[m] = "Candidate" /\ votes'[m] = votes[m] /\ votes[m] > 0
      BY <1>5, <2>2 DEF Explains
    <3>2. ASSUME NEW u \in Terms, term'[m] = u, w[m][u] = m
          PROVE  votes'[m] + Arriving(m, u)' <= Cardinality(Voters(w, m, u))
      <4>1. v[m][u] = m
        BY <1>1, <2>2, <3>2
      <4>2. votes[m] + Arriving(m, u) <= Cardinality(Voters(v, m, u))
        BY <3>1, <3>2, <4>1 DEF Explains
      <4>3. Arriving(m, u) \in Nat /\ Arriving(m, u)' \in Nat
        <5>1. Arriving(m, u)' = Cardinality(Copies(inbox'[m], Vote(u)))
          BY DEF Arriving, Vote
        <5> QED
          BY <1>types, <5>1, CopiesFinite DEF Arriving
      <4>4. Cardinality(Voters(v, m, u)) \in Nat
        BY <1>1
      <4>5. CASE m = c /\ u = t
        <5>1. Arriving(m, u)' <= Arriving(m, u) + 1
              /\ Cardinality(Voters(w, m, u)) = Cardinality(Voters(v, m, u)) + 1
          BY <1>1, <2>2, <4>5
        <5> QED
          BY <1>types, <3>1, <4>2, <4>3, <4>4, <5>1
      <4>6. CASE m # c \/ u # t
        <5>1. Arriving(m, u)' <= Arriving(m, u) /\ Voters(w, m, u) = Voters(v, m, u)
          BY <1>1, <4>6
        <5> QED
          BY <1>types, <3>1, <4>2, <4>3, <4>4, <5>1
      <4> QED
        BY <4>5, <4>6
    <3> QED
      BY <3>1, <3>2
  <2> QED
    BY <2>1, <2>2
<1>6. MaxEarlyTerm = 0 => \A m \in Nodes, u \in Terms : w[m][u] # None => SetUp'
  <2> SUFFICES ASSUME MaxEarlyTerm = 0, NEW m \in Nodes, NEW u \in Terms, w[m][u] # None
               PROVE  SetUp
    BY DEF SetUp
  <2>1. CASE m # n \/ u # t
    BY <1>1, <2>1 DEF Explains
  <2>2. CASE c # n
    BY <2>2, NodesAssumption DEF Explains
  <2>3. CASE c = n
    BY <2>3
  <2> QED
    BY <2>1, <2>2, <2>3
<1>7. MajoritiesMeet => \A m \in Nodes, u \in Terms :
        <<m, u>> \in elected' => 2 * Cardinality(Voters(w, m, u)) > Cardinality(Nodes)
  <2> SUFFICES ASSUME MajoritiesMeet, NEW m \in Nodes, NEW u \in Terms, <<m, u>> \in elected
               PROVE  2 * Cardinality(Voters(w, m, u)) > Cardinality(Nodes)
    OBVIOUS
  <2>1. 2 * Cardinality(Voters(v, m, u)) > Cardinality(Nodes) /\ Cardinality(Nodes) \in Nat
    BY NodesAssumption, FS_CardinalityType DEF Explains
  <2>2. /\ Cardinality(Voters(v, m, u)) \in Nat
        /\ \/ Cardinality(Voters(w, m, u)) = Cardinality(Voters(v, m, u))
           \/ Cardinality(Voters(w, m, u)) = Cardinality(Voters(v, m, u)) + 1
    BY <1>1
  <2> QED
    BY <2>1, <2>2
<1>8. Explains(w)'
  BY <1>2, <1>3, <1>4, <1>5, <1>6, <1>7 DEF Explains, Voters, MajoritiesMeet
<1> QED
  BY <1>1, <1>8 DEF Cast
-----------------------------------------------------------------------------
\* An office that stands for election votes for itself; its requests say whose vote that was.
LEMMA ElectionInd ==
  ASSUME NEW v \in Ballots, Explained(v), NEW n \in Nodes, Election(n)
  PROVE  \E w \in Ballots : Explained(w)' /\ Cast(v, w, n, n, term'[n])
<1>t. PICK t : t = term[n] + 1
  OBVIOUS
<1> DEFINE S == {m \in Nodes : m \in nodes[n] /\ Reaches(n, m)}
           out == [m \in Nodes |-> RequestVote(n, t)]
<1>1. /\ TimedOut(n) /\ role[n] # "Leader"
      /\ term[n] < (IF SetUp THEN MaxTerm ELSE MaxEarlyTerm)
      /\ term' = [term EXCEPT ![n] = t]
      /\ leader' = [leader EXCEPT ![n] = None]
      /\ votes' = [votes EXCEPT ![n] = 1]
      /\ role' = [role EXCEPT ![n] = "Candidate"]
      /\ inbox' = [m \in Nodes |-> IF m \in S THEN Append(inbox[m], out[m]) ELSE inbox[m]]
      /\ UNCHANGED <<setupVars, nodes, told, part, disruptions, elected, logVars>>
  BY <1>t DEF Election, setupVars
<1>2. term[n] \in 0 .. MaxTerm /\ t \in Terms
  BY <1>t, <1>1, BoundsAssumption DEF Explained, TypeInv, ElectionType, Terms
<1>3. out \in [Nodes -> Message]
      /\ \A m \in Nodes : out[m].type = "RequestVote" /\ out[m].src = n /\ out[m].term = t
  <2>1. RequestVote(n, t) \in Message
    BY <1>2, Broadcasts DEF Explained
  <2> QED
    BY <2>1 DEF RequestVote
<1>4. S \in SUBSET Nodes /\ n \notin S
  BY DEF Explained, TypeInv, SetupType, Others
<1> HIDE DEF S, out
<1>5. /\ inbox' \in [Nodes -> Seq(Message)]
      /\ \A m \in Nodes : \A i \in DOMAIN inbox'[m] :
           \/ \E j \in DOMAIN inbox[m] : inbox'[m][i] = inbox[m][j]
           \/ m \in S /\ inbox'[m][i] = out[m]
      /\ \A m \in Nodes, u \in Terms : out[m] # Vote(u) => Arriving(m, u)' <= Arriving(m, u)
  BY <1>1, <1>3, <1>4, Posted DEF Explained
<1>6. \A m \in Nodes, u \in Terms : Arriving(m, u)' <= Arriving(m, u)
  <2>1. \A m \in Nodes, u \in Terms : out[m] # Vote(u)
    BY <1>3, Kinds
  <2> QED
    BY <1>5, <2>1
<1>7. Arriving(n, t)' = 0
  <2>1. inbox'[n] = <<>>
    BY <1>1, <1>4 DEF TimedOut
  <2>2. Copies(inbox'[n], Vote(t)) = {}
    BY <2>1 DEF Copies
  <2>3. Arriving(n, t)' = Cardinality(Copies(inbox'[n], Vote(t)))
    BY DEF Arriving, Vote
  <2> QED
    BY <2>2, <2>3, FS_EmptySet
<1>8. TypeInv'
  <2>1. NetType'
    BY <1>1, <1>3, <1>5, NetSame DEF Explained
  <2>2. 1 \in 0 .. Cardinality(Nodes)
    <3>1. Cardinality(Nodes) \in Nat /\ Cardinality(Nodes) # 0
      BY NodesAssumption, FS_CardinalityType, FS_EmptySet
    <3> QED
      BY <3>1
  <2>3. ElectionType'
    BY <1>1, <1>2, <2>2 DEF Explained, TypeInv, ElectionType, Roles, Terms
  <2> QED
    BY <1>1, <2>1, <2>3, SameTypes DEF Explained, TypeInv
<1>9. v \in Ballots /\ Explains(v)
  BY DEF Explained
<1>10. \E w \in Ballots : Explains(w)' /\ Cast(v, w, n, n, t)
  <2>1. term[n] < t /\ term'[n] = t
    BY <1>t, <1>1, <1>2 DEF Explained, TypeInv, ElectionType
  <2>2. \A m \in Nodes : m # n => UNCHANGED <<term[m], role[m], votes[m]>>
    BY <1>1 DEF Explained, TypeInv, ElectionType
  <2>3. role'[n] = "Candidate" /\ votes'[n] = 1
    BY <1>1 DEF Explained, TypeInv, ElectionType
  <2>4. MaxEarlyTerm = 0 => SetUp
    BY <1>1, <1>2
  <2>5. \A m \in Nodes : \A i \in DOMAIN inbox'[m] :
          \/ \E j \in DOMAIN inbox[m] : inbox'[m][i] = inbox[m][j]
          \/ inbox'[m][i].type = "RequestVote" /\ inbox'[m][i].src = n /\ inbox'[m][i].term = t
    BY <1>3, <1>5
  <2>6. UNCHANGED <<nodes, elected>>
    BY <1>1
  <2> QED
    BY <1>2, <1>6, <1>7, <1>8, <1>9, <2>1, <2>2, <2>3, <2>4, <2>5, <2>6, VoteStep DEF Explained
<1>11. term'[n] = t
  BY <1>1 DEF Explained, TypeInv, ElectionType
<1> QED
  BY <1>8, <1>10, <1>11 DEF Explained

\* The thread of an office asked by one it does not know ends without a vote.
LEMMA UnknownCandidateInd ==
  ASSUME NEW v \in Ballots, Explained(v), NEW n \in Nodes, UnknownCandidate(n)
  PROVE  Explained(v)'
<1> DEFINE msg == Head(inbox[n])
<1>1. /\ Received(n, "RequestVote") /\ Unseen(n, msg.term)
      /\ term' = [term EXCEPT ![n] = msg.term]
      /\ role' = [role EXCEPT ![n] = "Panicked"]
      /\ inbox' = [inbox EXCEPT ![n] = <<>>]
      /\ UNCHANGED <<setupVars, told, nodes, part, disruptions, leader, votes, elected, logVars>>
  BY DEF UnknownCandidate, Willing, setupVars
<1>2. msg.term \in Terms
  BY <1>1, FirstInInbox, Carries DEF Explained
<1> HIDE DEF msg
<1>3. NetType' /\ Quiet
  <2>1. inbox' = [m \in Nodes |-> IF m \in {n} THEN <<>> ELSE inbox[m]]
    BY <1>1 DEF Explained, TypeInv, NetType
  <2>2. \A m \in Nodes : told[m] \subseteq told'[m]
    BY <1>1
  <2> QED
    BY <1>1, <2>1, <2>2, QuietEmptied DEF Explained
<1>4. ElectionType'
  BY <1>1, <1>2, BoundsAssumption DEF Explained, TypeInv, ElectionType, Roles, Terms
<1>5. TypeInv'
  BY <1>1, <1>3, <1>4, SameTypes DEF Explained, TypeInv
<1>6. v \in Ballots /\ Explains(v)
  BY DEF Explained
<1>7. \A m \in Nodes : term'[m] >= term[m] /\ nodes[m] \subseteq nodes'[m]
  BY <1>1, <1>2, BoundsAssumption DEF Unseen, Explained, TypeInv, ElectionType, Terms
<1>8. \A m \in Nodes : role'[m] = "Candidate" =>
        /\ role[m] = "Candidate" /\ votes'[m] = votes[m] /\ term'[m] = term[m]
  BY <1>1 DEF Explained, TypeInv, ElectionType
<1>9. Explains(v)'
  BY <1>1, <1>3, <1>5, <1>6, <1>7, <1>8, QuietStep DEF Quiet, Explained
<1> QED
  BY <1>5, <1>9 DEF Explained

\* The later of two terms.
LEMMA LaterTerm ==
  ASSUME NEW a \in Int, NEW b \in Int
  PROVE  Max({a, b}) = IF a < b THEN b ELSE a
<1> DEFINE m == IF a < b THEN b ELSE a
<1>1. m \in {a, b} /\ \A y \in {a, b} : m >= y
  OBVIOUS
<1>2. \A x \in {a, b} : (\A y \in {a, b} : x >= y) => x = m
  OBVIOUS
<1> QED
  BY <1>1, <1>2 DEF Max

\* A request for a vote: with the vote it is a VoteStep, without it a term perhaps entered.
LEMMA HandleRequestVoteInd ==
  ASSUME NEW v \in Ballots, Explained(v), NEW n \in Nodes, HandleRequestVote(n)
  PROVE  \E w \in Ballots :
           /\ Explained(w)'
           /\ IF Willing(n, Head(inbox[n])) /\ Reaches(n, Head(inbox[n]).src)
              THEN Cast(v, w, n, Head(inbox[n]).src, Head(inbox[n]).term)
              ELSE w = v
<1>m. PICK msg : msg = Head(inbox[n])
  OBVIOUS
<1> DEFINE grant == Willing(n, msg) /\ Reaches(n, msg.src)
           reply == IF grant THEN <<Vote(msg.term)>> ELSE <<>>
<1>1. /\ Received(n, "RequestVote")
      /\ Willing(n, msg) => msg.src \in nodes[n]
      /\ Deliver(n, To(msg.src, reply))
      /\ term' = [term EXCEPT ![n] = Max({@, msg.term})]
      /\ role' = IF grant THEN [role EXCEPT ![n] = "Follower"] ELSE role
      /\ leader' = IF grant THEN [leader EXCEPT ![n] = None] ELSE leader
      /\ UNCHANGED <<setupVars, nodes, told, part, disruptions, votes, elected, logVars>>
  BY <1>m DEF HandleRequestVote, setupVars
<1>2. /\ msg \in Message /\ msg.type = "RequestVote" /\ inbox[n] # <<>>
      /\ 1 \in DOMAIN inbox[n] /\ msg = inbox[n][1]
      /\ msg.term \in Terms /\ msg.src \in Nodes
  BY <1>m, <1>1, FirstInInbox, Carries DEF Explained
<1>3. /\ grant => term[n] < msg.term /\ msg.src \in nodes[n]
      /\ term'[n] = IF term[n] < msg.term THEN msg.term ELSE term[n]
      /\ term[n] \in 0 .. MaxTerm /\ term'[n] \in 0 .. MaxTerm /\ term'[n] >= term[n]
      /\ \A m \in Nodes : m # n => term'[m] = term[m] /\ role'[m] = role[m]
      /\ term' \in [Nodes -> 0 .. MaxTerm]
  <2>1. term \in [Nodes -> 0 .. MaxTerm] /\ role \in [Nodes -> Roles]
    BY DEF Explained, TypeInv, ElectionType
  <2>2. Max({term[n], msg.term}) = IF term[n] < msg.term THEN msg.term ELSE term[n]
    <3>1. term[n] \in Int /\ msg.term \in Int
      BY <1>2, <2>1, BoundsAssumption DEF Terms
    <3> QED
      BY <3>1, LaterTerm
  <2>3. grant => term[n] < msg.term /\ msg.src \in nodes[n]
    BY <1>1 DEF Willing, Unseen
  <2> HIDE DEF grant
  <2> QED
    BY <1>1, <1>2, <2>1, <2>2, <2>3, BoundsAssumption DEF Terms
<1>4. reply \in Seq(Message) /\ \A i \in DOMAIN reply : grant /\ reply[i] = Vote(msg.term)
  BY <1>2, Kinds
<1>5. grant => role'[n] = "Follower"
  BY <1>1 DEF Explained, TypeInv, ElectionType
<1>6. role' \in [Nodes -> Roles] /\ leader' \in [Nodes -> Nodes \cup {None}]
      /\ \A m \in Nodes : role'[m] \in {"Candidate", "Leader"} => role'[m] = role[m]
  BY <1>1 DEF Explained, TypeInv, ElectionType, Roles
<1> HIDE DEF grant, reply
<1>7. ElectionType'
  <2>1. \A m \in Nodes : role'[m] = "Leader" => term'[m] > 0
    <3>1. \A m \in Nodes : role'[m] = "Leader" => term[m] > 0
      BY <1>6 DEF Explained, TypeInv, ElectionType
    <3> QED
      BY <1>3, <3>1
  <2> QED
    BY <1>1, <1>3, <1>6, <2>1 DEF Explained, TypeInv, ElectionType
<1> DEFINE out == To(msg.src, reply)
<1>8. /\ out \in [Nodes -> Seq(Message)]
      /\ \A m \in Nodes : \A j \in DOMAIN out[m] :
           m = msg.src /\ grant /\ out[m][j] = Vote(msg.term)
      /\ out[msg.src] = reply
  BY <1>2, <1>4 DEF To
<1> HIDE DEF out
<1>9. /\ inbox' \in [Nodes -> Seq(Message)]
      /\ \A m \in Nodes : \A i \in DOMAIN inbox'[m] :
           \/ \E j \in DOMAIN inbox[m] : inbox'[m][i] = inbox[m][j]
           \/ m \in nodes[n] /\ \E j \in DOMAIN out[m] : inbox'[m][i] = out[m][j]
      /\ \A m \in Nodes, t \in Terms :
           Copies(out[m], Vote(t)) = {} => Arriving(m, t)' <= Arriving(m, t)
  BY <1>1, <1>2, <1>8, Delivered DEF Explained, out
<1>10. Vote(msg.term).type = "Vote" /\ Vote(msg.term).term = msg.term
  BY DEF Vote
<1>11. \A m \in Nodes : \A i \in DOMAIN inbox'[m] :
         \/ \E j \in DOMAIN inbox[m] : inbox'[m][i] = inbox[m][j]
         \/ m = msg.src /\ grant /\ inbox'[m][i] = Vote(msg.term)
  <2> SUFFICES ASSUME NEW m \in Nodes, NEW i \in DOMAIN inbox'[m],
                      NEW j \in DOMAIN out[m], inbox'[m][i] = out[m][j]
               PROVE  m = msg.src /\ grant /\ inbox'[m][i] = Vote(msg.term)
    BY <1>9
  <2> QED
    BY <1>8
<1>12. \A m \in Nodes, t \in Terms :
         m # msg.src \/ t # msg.term \/ ~grant => Arriving(m, t)' <= Arriving(m, t)
  <2>1. \A m \in Nodes, t \in Terms :
          m # msg.src \/ t # msg.term \/ ~grant => Copies(out[m], Vote(t)) = {}
    BY <1>8, <1>10 DEF Copies, Vote
  <2> QED
    BY <1>9, <2>1
<1>13. TypeInv'
  <2>1. NetType'
    BY <1>1, <1>9, <1>10, <1>11, NetSame DEF Explained
  <2> QED
    BY <1>1, <1>7, <2>1, SameTypes DEF Explained, TypeInv
<1>14. v \in Ballots /\ Explains(v)
  BY DEF Explained
<1>15. CASE grant
  <2>1. msg.src # n /\ msg.src \in nodes[n]
    BY <1>3, <1>15 DEF Explained, TypeInv, SetupType, Others
  <2>2. Arriving(msg.src, msg.term)' <= Arriving(msg.src, msg.term) + 1
    <3>1. inbox[msg.src] \in Seq(Message)
      BY <1>2 DEF Explained, TypeInv, NetType
    <3>2. inbox'[msg.src] = IF Reaches(n, msg.src) THEN inbox[msg.src] \o reply ELSE inbox[msg.src]
      BY <1>1, <1>2, <1>8, <2>1 DEF Deliver, out
    <3>3. inbox[msg.src] \o reply = Append(inbox[msg.src], Vote(msg.term))
      <4>1. reply = <<Vote(msg.term)>>
        BY <1>15 DEF reply
      <4> QED
        BY <1>2, <3>1, <4>1, Kinds
    <3>4. Arriving(msg.src, msg.term)' = Cardinality(Copies(inbox'[msg.src], Vote(msg.term)))
      BY DEF Arriving, Vote
    <3>5. Reaches(n, msg.src)
      BY <1>15 DEF grant
    <3>6. /\ Cardinality(Copies(Append(inbox[msg.src], Vote(msg.term)), Vote(msg.term)))
               <= Cardinality(Copies(inbox[msg.src], Vote(msg.term))) + 1
      BY <1>2, <3>1, CopiesAppend, Kinds
    <3> QED
      BY <3>2, <3>3, <3>4, <3>5, <3>6 DEF Arriving
  <2>3. v[msg.src][msg.term] = msg.src
    BY <1>2, <1>14 DEF Explains
  <2>4. term[n] < msg.term /\ term'[n] = msg.term
    BY <1>3, <1>15
  <2>5. \A m \in Nodes : m # n => UNCHANGED <<term[m], role[m], votes[m]>>
    BY <1>1, <1>3
  <2>6. role'[n] # "Candidate"
    BY <1>5, <1>15
  <2>7. \A m \in Nodes : \A i \in DOMAIN inbox'[m] :
          \/ \E j \in DOMAIN inbox[m] : inbox'[m][i] = inbox[m][j]
          \/ inbox'[m][i].type = "Vote" /\ inbox'[m][i].term = msg.term /\ m = msg.src
    BY <1>10, <1>11
  <2>8. UNCHANGED <<nodes, elected>>
    BY <1>1
  <2>9. \E w \in Ballots : Explains(w)' /\ Cast(v, w, n, msg.src, msg.term)
    <3> DEFINE c == msg.src
               t == msg.term
    <3>1. c \in Nodes /\ t \in Terms /\ c # n
      BY <1>2, <2>1
    <3>2. role'[n] # "Candidate" /\ \E u \in Terms : v[c][u] = c /\ u = t
      BY <2>3, <2>6, <3>1
    <3>3. \A m \in Nodes : \A i \in DOMAIN inbox'[m] :
            \/ \E j \in DOMAIN inbox[m] : inbox'[m][i] = inbox[m][j]
            \/ inbox'[m][i].type = "Vote" /\ inbox'[m][i].term = t /\ m = c /\ c # n
      BY <2>7, <3>1
    <3>4. /\ \A m \in Nodes, u \in Terms : m # c \/ u # t => Arriving(m, u)' <= Arriving(m, u)
          /\ Arriving(c, t)' <= Arriving(c, t) + 1
      BY <1>12, <2>2
    <3>5. term[n] < t /\ term'[n] = t
      BY <2>4
    <3>6. TypeInv
      BY DEF Explained
    <3>7. \E w \in Ballots : Explains(w)' /\ Cast(v, w, n, c, t)
      <4> HIDE DEF c, t
      <4> QED
        BY <1>13, <1>14, <2>5, <2>8, <3>1, <3>2, <3>3, <3>4, <3>5, <3>6, VoteStep
    <3> QED
      BY <3>7
  <2> QED
    BY <1>m, <1>13, <1>15, <2>9 DEF Explained, grant
<1>16. CASE ~grant
  <2>1. \A m \in Nodes : term'[m] >= term[m] /\ nodes[m] \subseteq nodes'[m]
    <3>1. \A m \in Nodes : term[m] \in 0 .. MaxTerm
      BY DEF Explained, TypeInv, ElectionType
    <3> QED
      BY <1>1, <1>3, <3>1, BoundsAssumption
  <2>2. \A m \in Nodes : role'[m] = "Candidate" =>
          /\ role[m] = "Candidate" /\ votes'[m] = votes[m]
          /\ term'[m] = term[m] \/ \A t \in Terms : term'[m] = t => v[m][t] # m
    <3> SUFFICES ASSUME NEW m \in Nodes, role'[m] = "Candidate", term'[m] # term[m],
                        NEW t \in Terms, term'[m] = t
                 PROVE  v[m][t] # m
      BY <1>1, <1>6
    <3>1. m = n /\ term[n] < t
      BY <1>3
    <3>2. ~(term[m] >= t)
      BY <1>3, <3>1, BoundsAssumption DEF Terms
    <3>3. v[m][t] = None
      BY <1>14, <3>2 DEF Explains
    <3> QED
      BY <3>3, NodesAssumption
  <2>3. \A m \in Nodes : \A i \in DOMAIN inbox'[m] :
          \E j \in DOMAIN inbox[m] : inbox'[m][i] = inbox[m][j]
    BY <1>11, <1>16
  <2>4. \A m \in Nodes, t \in Terms : Arriving(m, t)' <= Arriving(m, t)
    BY <1>12, <1>16
  <2>5. Explains(v)'
    BY <1>1, <1>13, <1>14, <2>1, <2>2, <2>3, <2>4, QuietStep DEF Explained
  <2> QED
    BY <1>m, <1>13, <1>16, <2>5 DEF Explained, grant
<1> QED
  BY <1>15, <1>16

\* A vote: it leaves the inbox, and if it counts, joins those the candidate has.
LEMMA HandleVoteInd ==
  ASSUME NEW v \in Ballots, Explained(v), NEW n \in Nodes, HandleVote(n)
  PROVE  Explained(v)'
<1> DEFINE counts == role[n] = "Candidate" /\ term[n] = Head(inbox[n]).term
<1>1. /\ Received(n, "Vote") /\ Deliver(n, To(n, <<>>))
      /\ votes' = IF counts THEN [votes EXCEPT ![n] = @ + 1] ELSE votes
      /\ UNCHANGED <<setupVars, nodes, told, part, disruptions, role, leader, term, elected, logVars>>
  BY DEF HandleVote, setupVars
<1>2. NetType' /\ Quiet
  BY <1>1, QuietOut, Reply, NoReply DEF Explained
<1>3. v \in Ballots /\ Explains(v)
  BY DEF Explained
<1>4. votes \in [Nodes -> 0 .. Cardinality(Nodes)] /\ Cardinality(Nodes) \in Nat
  BY NodesAssumption, FS_CardinalityType DEF Explained, TypeInv, ElectionType
<1>5. CASE counts
  <2>1. PICK t \in Terms : t = term[n]
    BY <1>1, <1>3, <1>5, VotesFit DEF Explained
  <2>2. /\ Head(inbox[n]) = Vote(t)
        /\ votes[n] > 0 /\ votes[n] + 1 <= Cardinality(Nodes)
    <3>1. /\ Head(inbox[n]) = Vote(term[n]) /\ votes[n] > 0
          /\ votes[n] + 1 <= Cardinality(Voters(v, n, term[n]))
          /\ Cardinality(Voters(v, n, term[n])) <= Cardinality(Nodes)
          /\ Cardinality(Voters(v, n, term[n])) \in Nat
      BY <1>1, <1>3, <1>5, VotesFit DEF Explained
    <3> QED
      BY <1>4, <2>1, <3>1
  <2>3. votes' = [votes EXCEPT ![n] = @ + 1] /\ votes' \in [Nodes -> 0 .. Cardinality(Nodes)]
    BY <1>1, <1>4, <1>5, <2>2
  <2>4. ElectionType'
    BY <1>1, <2>3 DEF Explained, TypeInv, ElectionType
  <2>5. TypeInv'
    BY <1>1, <1>2, <2>4, SameTypes DEF Explained, TypeInv
  <2>6. Arriving(n, t)' + 1 <= Arriving(n, t)
    <3>1. inbox[n] # <<>> /\ To(n, <<>>) \in [Nodes -> Seq(Message)]
      BY <1>1, FirstInInbox, Reply, NoReply DEF Explained
    <3> QED
      BY <1>1, <2>2, <3>1, Delivered DEF Explained
  <2>7. ASSUME NEW m \in Nodes, role'[m] = "Candidate"
        PROVE  /\ role[m] = "Candidate" /\ votes'[m] > 0
               /\ \A u \in Terms : term'[m] = u /\ v[m][u] = m =>
                    term[m] = u /\ votes'[m] + Arriving(m, u)' <= votes[m] + Arriving(m, u)
    <3>1. role[m] = "Candidate" /\ votes[m] > 0 /\ term'[m] = term[m]
      BY <1>1, <1>3, <2>7 DEF Explains
    <3>2. \A u \in Terms : Arriving(m, u) \in Nat /\ Arriving(m, u)' \in Nat
      <4>1. \A u \in Terms : Arriving(m, u)' = Cardinality(Copies(inbox'[m], Vote(u)))
        BY DEF Arriving, Vote
      <4> QED
        BY <2>5, <4>1, CopiesFinite DEF Arriving, Explained, TypeInv, NetType
    <3>3. CASE m = n
      <4>1. votes'[n] = votes[n] + 1 /\ votes[n] \in Nat
        BY <1>4, <2>3
      <4> QED
        BY <2>1, <2>6, <3>1, <3>2, <3>3, <4>1
    <3>4. CASE m # n
      <4>1. votes'[m] = votes[m] /\ votes[m] \in Nat
        BY <1>4, <2>3, <3>4
      <4>2. \A u \in Terms : Arriving(m, u)' <= Arriving(m, u)
        BY <1>2 DEF Quiet
      <4> QED
        BY <3>1, <3>2, <4>1, <4>2
    <3> QED
      BY <3>3, <3>4
  <2>8. \A m \in Nodes : term'[m] >= term[m] /\ nodes[m] \subseteq nodes'[m]
    BY <1>1, BoundsAssumption DEF Explained, TypeInv, ElectionType
  <2>9. Explains(v)'
    BY <1>1, <1>2, <1>3, <2>5, <2>7, <2>8, SteadyStep DEF Explained, Quiet
  <2> QED
    BY <2>5, <2>9 DEF Explained
<1>6. CASE ~counts
  <2>1. votes' = votes
    BY <1>1, <1>6
  <2>2. TypeInv'
    BY <1>1, <1>2, <2>1, SameTypes DEF Explained, TypeInv, ElectionType
  <2> QED
    BY <1>1, <1>2, <2>1, <2>2, SameElection
<1> QED
  BY <1>5, <1>6

\* A sequence has the length of the one it is made from.
LEMMA Mapped ==
  ASSUME NEW V, NEW W, NEW s \in Seq(V), NEW f, DOMAIN f = DOMAIN s, f \in [DOMAIN s -> W]
  PROVE  f \in Seq(W) /\ Len(f) = Len(s)
<1>1. DOMAIN s = 1 .. Len(s) /\ Len(s) \in Nat
  OBVIOUS
<1>2. f \in Seq(W)
  BY <1>1
<1> QED
  BY <1>1, <1>2

\* Two sequences joined.
LEMMA Joined ==
  ASSUME NEW V, NEW s \in Seq(V), NEW u \in Seq(V)
  PROVE  s \o u \in Seq(V) /\ Len(s \o u) = Len(s) + Len(u)
OBVIOUS

\* A piece of a sequence.
LEMMA Piece ==
  ASSUME NEW V, NEW s \in Seq(V), NEW a \in Nat \ {0}, NEW b \in Int, b <= Len(s)
  PROVE  SubSeq(s, a, b) \in Seq(V) /\ (a = 1 /\ b >= 0 => Len(SubSeq(s, a, b)) = b)
OBVIOUS

\* The vote that makes a leader: with it the candidate has a majority of the offices it knows.
LEMMA BecomeLeaderInd ==
  ASSUME NEW v \in Ballots, Explained(v), NEW n \in Nodes, BecomeLeader(n)
  PROVE  Explained(v)'
<1>m. PICK cmds, last, out, newLog, newAcks :
        /\ cmds = pending_cmds[n]
        /\ last = IF log[n] = <<>> THEN None ELSE EntryData(log[n], Len(log[n]) - 1)
        /\ out = ToAll(AppendEntry(n, last))
        /\ newLog = [i \in DOMAIN cmds |-> [term |-> term[n], cmd |-> cmds[i]]]
        /\ newAcks = [i \in DOMAIN cmds |-> {n}]
  OBVIOUS
<1>1. /\ Received(n, "Vote") /\ role[n] = "Candidate" /\ term[n] = Head(inbox[n]).term
      /\ Majority(n, votes[n] + 1)
      /\ votes' = [votes EXCEPT ![n] = @ + 1]
      /\ role' = [role EXCEPT ![n] = "Leader"]
      /\ leader' = [leader EXCEPT ![n] = None]
      /\ elected' = elected \cup {<<n, term[n]>>}
      /\ pending' = [pending EXCEPT ![n] = [m \in Nodes |-> IF m \in nodes[n] THEN last ELSE None]]
      /\ log' = [log EXCEPT ![n] = @ \o newLog]
      /\ acks' = [acks EXCEPT ![n] = @ \o newAcks]
      /\ Deliver(n, out)
      /\ pending_cmds' = [pending_cmds EXCEPT ![n] = <<>>]
      /\ UNCHANGED <<setupVars, nodes, told, part, disruptions, term, applied>>
  BY <1>m DEF BecomeLeader, setupVars
<1>2. v \in Ballots /\ Explains(v)
  BY DEF Explained
<1>3. /\ term[n] \in Terms /\ v[n][term[n]] = n
      /\ votes[n] > 0 /\ votes[n] + 1 <= Cardinality(Voters(v, n, term[n]))
      /\ Cardinality(Voters(v, n, term[n])) <= Cardinality(Nodes)
      /\ Cardinality(Voters(v, n, term[n])) \in Nat /\ Cardinality(Nodes) \in Nat
  BY <1>1, <1>2, VotesFit DEF Explained
<1>4. votes[n] + 1 \in 0 .. Cardinality(Nodes) /\ votes[n] \in Nat
  BY <1>3 DEF Explained, TypeInv, ElectionType
<1>5. last \in Sendable \cup {None}
  <2>1. log[n] \in Seq(Entries)
    BY DEF Explained, TypeInv, LogType
  <2>2. log[n] # <<>> => Len(log[n]) - 1 \in Nat
    BY <2>1
  <2> QED
    BY <1>m, <2>1, <2>2, EntryDataType
<1>6. out \in [Nodes -> Seq(Message)] /\ \A m \in Nodes : Plain(out[m])
  <2>1. AppendEntry(n, last) \in Message /\ AppendEntry(n, last).type = "AppendEntry"
    BY <1>5, Broadcasts DEF Explained, AppendEntry
  <2>2. out = [m \in Nodes |-> <<AppendEntry(n, last)>>]
    BY <1>m DEF ToAll
  <2> QED
    BY <2>1, <2>2 DEF Plain
<1>7. NetType' /\ Quiet
  BY <1>1, <1>6, QuietOut DEF Explained
<1>8. ElectionType'
  BY <1>1, <1>3, <1>4, BoundsAssumption DEF Explained, TypeInv, ElectionType, Roles, Terms
<1>9. LogType'
  <2>1. cmds \in Seq(Commands) /\ log[n] \in Seq(Entries) /\ acks[n] \in Seq(SUBSET Nodes)
        /\ Len(acks[n]) = Len(log[n])
    BY <1>m DEF Explained, TypeInv, LogType
  <2>2. newLog \in Seq(Entries) /\ Len(newLog) = Len(cmds)
    <3>1. \A i \in DOMAIN cmds : [term |-> term[n], cmd |-> cmds[i]] \in Entries
      BY <1>3, <2>1 DEF Entries, Terms
    <3>2. newLog \in [DOMAIN cmds -> Entries] /\ DOMAIN newLog = DOMAIN cmds
      BY <1>m, <3>1
    <3> QED
      BY <2>1, <3>2, Mapped
  <2>3. newAcks \in Seq(SUBSET Nodes) /\ Len(newAcks) = Len(cmds)
    <3>1. newAcks \in [DOMAIN cmds -> SUBSET Nodes] /\ DOMAIN newAcks = DOMAIN cmds
      BY <1>m
    <3> QED
      BY <2>1, <3>1, Mapped
  <2>4. /\ log[n] \o newLog \in Seq(Entries) /\ acks[n] \o newAcks \in Seq(SUBSET Nodes)
        /\ Len(log[n] \o newLog) = Len(acks[n] \o newAcks)
    <3>1. log[n] \o newLog \in Seq(Entries) /\ Len(log[n] \o newLog) = Len(log[n]) + Len(newLog)
      BY <2>1, <2>2, Joined
    <3>2. acks[n] \o newAcks \in Seq(SUBSET Nodes) /\ Len(acks[n] \o newAcks) = Len(acks[n]) + Len(newAcks)
      BY <2>1, <2>3, Joined
    <3> QED
      BY <2>1, <2>2, <2>3, <3>1, <3>2
  <2> QED
    BY <1>1, <1>5, <2>4 DEF Explained, TypeInv, LogType
<1>10. TypeInv'
  BY <1>1, <1>7, <1>8, <1>9, SameTypes DEF Explained, TypeInv
<1>11. \A m \in Nodes : role'[m] = "Candidate" =>
         /\ role[m] = "Candidate" /\ votes'[m] > 0
         /\ \A t \in Terms : term'[m] = t /\ v[m][t] = m =>
              term[m] = t /\ votes'[m] + Arriving(m, t)' <= votes[m] + Arriving(m, t)
  <2> SUFFICES ASSUME NEW m \in Nodes, role'[m] = "Candidate"
               PROVE  /\ role[m] = "Candidate" /\ votes'[m] > 0
                      /\ \A t \in Terms : term'[m] = t /\ v[m][t] = m =>
                           term[m] = t /\ votes'[m] + Arriving(m, t)' <= votes[m] + Arriving(m, t)
    OBVIOUS
  <2>1. m # n /\ role[m] = "Candidate" /\ term'[m] = term[m] /\ votes'[m] = votes[m] /\ votes[m] \in Nat
    BY <1>1 DEF Explained, TypeInv, ElectionType
  <2>2. votes[m] > 0
    BY <1>2, <2>1 DEF Explains
  <2>3. \A t \in Terms : /\ Arriving(m, t)' <= Arriving(m, t)
                         /\ Arriving(m, t) \in Nat /\ Arriving(m, t)' \in Nat
    <3>1. \A t \in Terms : Arriving(m, t)' = Cardinality(Copies(inbox'[m], Vote(t)))
      BY DEF Arriving, Vote
    <3> QED
      BY <1>7, <1>10, <3>1, CopiesFinite DEF Quiet, Arriving, Explained, TypeInv, NetType
  <2> QED
    BY <2>1, <2>2, <2>3
<1>12. \A m \in Nodes, t \in Terms : <<m, t>> \in elected' /\ <<m, t>> \notin elected =>
         (MajoritiesMeet => 2 * Cardinality(Voters(v, m, t)) > Cardinality(Nodes))
  <2>1. MajoritiesMeet => 2 * (votes[n] + 1) > Cardinality(Nodes)
    BY <1>1, <1>2, <1>3, <1>4, MajorityIsHalf DEF Explained
  <2>2. MajoritiesMeet => 2 * Cardinality(Voters(v, n, term[n])) > Cardinality(Nodes)
    BY <1>3, <1>4, <2>1
  <2> QED
    BY <1>1, <2>2
<1>13. \A m \in Nodes : term'[m] >= term[m] /\ nodes[m] \subseteq nodes'[m]
  BY <1>1, BoundsAssumption DEF Explained, TypeInv, ElectionType
<1>14. Explains(v)'
  BY <1>2, <1>7, <1>10, <1>11, <1>12, <1>13, SteadyStep DEF Explained, Quiet
<1> QED
  BY <1>10, <1>14 DEF Explained
-----------------------------------------------------------------------------
\* What is passed on to a leader.
LEMMA ForwardedType ==
  ASSUME NEW n \in Nodes, NEW cmds \in Seq(Commands), NEW l
  PROVE  Forwarded(n, cmds, l) \in Seq(Message) /\ Plain(Forwarded(n, cmds, l))
<1> DEFINE f == [i \in DOMAIN cmds |-> Command(cmds[i])]
<1>1. f \in [DOMAIN cmds -> Message] /\ DOMAIN f = DOMAIN cmds
      /\ \A i \in DOMAIN f : f[i].type = "Command"
  BY Kinds
<1>2. f \in Seq(Message)
  <2> HIDE DEF f
  <2> QED
    BY <1>1, Mapped
<1>3. Plain(f)
  BY <1>1 DEF Plain
<1>4. Forwarded(n, cmds, l) \in {f, <<>>}
  BY DEF Forwarded
<1> HIDE DEF f
<1> QED
  BY <1>2, <1>3, <1>4, NoReply

\* One more message in front.
LEMMA PlainPair ==
  ASSUME NEW msg \in Message, msg.type \notin {"RequestVote", "Vote", "Accept"},
         NEW u \in Seq(Message), Plain(u)
  PROVE  <<msg>> \o u \in Seq(Message) /\ Plain(<<msg>> \o u)
<1>1. <<msg>> \o u \in Seq(Message) /\ Len(<<msg>> \o u) = 1 + Len(u)
  BY Joined
<1>2. ASSUME NEW i \in DOMAIN (<<msg>> \o u)
      PROVE  (<<msg>> \o u)[i] = msg \/ \E j \in DOMAIN u : (<<msg>> \o u)[i] = u[j]
  <2>1. i \in 1 .. 1 + Len(u) /\ Len(u) \in Nat
    BY <1>1
  <2>2. CASE i = 1
    BY <2>2
  <2>3. CASE i # 1
    <3>1. i - 1 \in DOMAIN u /\ (<<msg>> \o u)[i] = u[i - 1]
      BY <2>1, <2>3
    <3> QED
      BY <3>1
  <2> QED
    BY <2>2, <2>3
<1> QED
  BY <1>1, <1>2 DEF Plain

\* Whoever follows a leader enters its term and is no candidate.
LEMMA FollowStep ==
  ASSUME NEW v \in Ballots, Explained(v), NEW n \in Nodes, Follow(n, Head(inbox[n])), LogType',
         NEW msgs \in Seq(Message), Plain(msgs), Deliver(n, To(Head(inbox[n]).src, msgs))
  PROVE  Explained(v)'
<1>m. PICK msg : msg = Head(inbox[n])
  OBVIOUS
<1>1. /\ Received(n, "AppendEntry") /\ msg.term >= term[n]
      /\ role' = [role EXCEPT ![n] = "Follower"]
      /\ term' = [term EXCEPT ![n] = msg.term]
      /\ leader' = [leader EXCEPT ![n] = msg.src]
      /\ UNCHANGED <<setupVars, nodes, told, part, disruptions, votes, elected>>
  BY <1>m DEF Follow, setupVars
<1>2. msg.src \in Nodes /\ msg.term \in 0 .. MaxTerm
  BY <1>m, <1>1, FirstInInbox, Carries DEF Explained
<1>3. NetType' /\ Quiet
  BY <1>1, QuietOut, Reply DEF Explained
<1>4. ElectionType'
  BY <1>1, <1>2 DEF Explained, TypeInv, ElectionType, Roles
<1>5. TypeInv'
  BY <1>1, <1>3, <1>4, SameTypes DEF Explained, TypeInv
<1>6. v \in Ballots /\ Explains(v)
  BY DEF Explained
<1>7. \A m \in Nodes : term'[m] >= term[m] /\ nodes[m] \subseteq nodes'[m]
  BY <1>1, <1>2, BoundsAssumption DEF Explained, TypeInv, ElectionType
<1>8. \A m \in Nodes : role'[m] = "Candidate" =>
        /\ role[m] = "Candidate" /\ votes'[m] = votes[m] /\ term'[m] = term[m]
  BY <1>1 DEF Explained, TypeInv, ElectionType
<1>9. Explains(v)'
  BY <1>1, <1>3, <1>5, <1>6, <1>7, <1>8, QuietStep DEF Quiet, Explained
<1> QED
  BY <1>5, <1>9 DEF Explained

\* An entry that fits lies in the log or right behind it; one that does not is not the first.
LEMMA FitsInside ==
  ASSUME NEW lg \in Seq(Entries), NEW e \in Sendable
  PROVE  /\ Fits(lg, e) => e.index <= Len(lg)
         /\ Fits(lg, e) \/ e.index > 0
<1>1. /\ e.index \in Nat /\ e.prev_term \in 0 .. MaxTerm /\ (e.index = 0 <=> e.prev_term = 0)
  BY DEF Sendable
<1>2. /\ e.index \in 1 .. Len(lg) => PrevTerm(lg, e.index) > 0
      /\ e.index \notin 1 .. Len(lg) => PrevTerm(lg, e.index) = 0
  BY <1>1, PrevTermType
<1>3. Len(lg) \in Nat
  OBVIOUS
<1> QED
  BY <1>1, <1>2, <1>3 DEF Fits

\* Commands that wait stay or are passed on.
LEMMA CommandsType ==
  ASSUME TypeInv, NEW n \in Nodes,
         pending_cmds' = [pending_cmds EXCEPT ![n] = <<>>] \/ pending_cmds' = pending_cmds
  PROVE  pending_cmds' \in [Nodes -> Seq(Commands)]
<1>1. pending_cmds \in [Nodes -> Seq(Commands)] /\ <<>> \in Seq(Commands)
  BY DEF TypeInv, LogType
<1> QED
  BY <1>1

\* An entry from a leader: the log is cut where the entry goes, and stays as long as its acks.
LEMMA FollowEntryInd ==
  ASSUME NEW v \in Ballots, Explained(v), NEW n \in Nodes, FollowEntry(n)
  PROVE  Explained(v)'
<1>m. PICK msg, e, fits, reply :
        /\ msg = Head(inbox[n]) /\ e = msg.entry /\ fits = Fits(log[n], e)
        /\ reply = AppendEntryResponse(n, msg.term, e.index, fits)
  OBVIOUS
<1>1. /\ Follow(n, msg) /\ e # None
      /\ Deliver(n, To(msg.src, <<reply>> \o Forwarded(n, pending_cmds[n], msg.src)))
      /\ \/ /\ fits
            /\ log' = [log EXCEPT ![n] = Append(SubSeq(@, 1, e.index), [term |-> e.term, cmd |-> e.cmd])]
            /\ acks' = [acks EXCEPT ![n] = Append(SubSeq(@, 1, e.index), {n})]
         \/ UNCHANGED <<log, acks>>
      /\ UNCHANGED <<applied, pending>>
      /\ pending_cmds' = [pending_cmds EXCEPT ![n] = <<>>] \/ pending_cmds' = pending_cmds
  BY <1>m DEF FollowEntry, Follow, TruncatedAcks
<1>2. /\ msg.src \in Nodes /\ msg.term \in 0 .. MaxTerm /\ e \in Sendable
  <2>1. msg \in Message /\ msg.type = "AppendEntry"
    BY <1>m, <1>1, FirstInInbox DEF Explained, Follow
  <2> QED
    BY <1>m, <1>1, <2>1, Carries
<1>3. /\ e.index \in Nat /\ [term |-> e.term, cmd |-> e.cmd] \in Entries
  BY <1>2 DEF Sendable, Entries, Terms
<1>4. /\ log \in [Nodes -> Seq(Entries)] /\ acks \in [Nodes -> Seq(SUBSET Nodes)]
      /\ Len(acks[n]) = Len(log[n]) /\ pending_cmds \in [Nodes -> Seq(Commands)]
  BY DEF Explained, TypeInv, LogType
<1>5. fits \in BOOLEAN /\ (fits => e.index <= Len(log[n])) /\ (fits \/ e.index > 0)
  BY <1>m, <1>2, <1>4, FitsInside DEF Fits
<1>6. LogType'
  <2>0. pending_cmds' \in [Nodes -> Seq(Commands)] /\ UNCHANGED <<applied, pending>>
    BY <1>1, CommandsType DEF Explained
  <2>1. CASE /\ fits
             /\ log' = [log EXCEPT ![n] = Append(SubSeq(@, 1, e.index), [term |-> e.term, cmd |-> e.cmd])]
             /\ acks' = [acks EXCEPT ![n] = Append(SubSeq(@, 1, e.index), {n})]
    <3>1. SubSeq(log[n], 1, e.index) \in Seq(Entries) /\ Len(SubSeq(log[n], 1, e.index)) = e.index
      BY <1>3, <1>4, <1>5, <2>1, Piece
    <3>2. SubSeq(acks[n], 1, e.index) \in Seq(SUBSET Nodes) /\ Len(SubSeq(acks[n], 1, e.index)) = e.index
      BY <1>3, <1>4, <1>5, <2>1, Piece
    <3>3. /\ log'[n] \in Seq(Entries) /\ acks'[n] \in Seq(SUBSET Nodes)
          /\ Len(log'[n]) = e.index + 1 /\ Len(acks'[n]) = e.index + 1
      BY <1>3, <1>4, <2>1, <3>1, <3>2
    <3>4. log' \in [Nodes -> Seq(Entries)] /\ acks' \in [Nodes -> Seq(SUBSET Nodes)]
          /\ \A m \in Nodes : m # n => log'[m] = log[m] /\ acks'[m] = acks[m]
      BY <1>4, <2>1, <3>3
    <3> QED
      <4>1. \A m \in Nodes : Len(acks'[m]) = Len(log'[m])
        BY <3>3, <3>4 DEF Explained, TypeInv, LogType
      <4> QED
        BY <2>0, <3>4, <4>1 DEF Explained, TypeInv, LogType
  <2>2. CASE UNCHANGED <<log, acks>>
    BY <2>0, <2>2 DEF Explained, TypeInv, LogType
  <2> QED
    BY <1>1, <2>1, <2>2
<1>7. reply \in Message /\ reply.type = "AppendEntryResponse"
  BY <1>m, <1>2, <1>3, <1>5, Kinds DEF AppendEntryResponse
<1>8. pending_cmds[n] \in Seq(Commands)
  BY <1>4
<1> DEFINE msgs == <<reply>> \o Forwarded(n, pending_cmds[n], msg.src)
<1>9. msgs \in Seq(Message) /\ Plain(msgs)
  BY <1>7, <1>8, ForwardedType, PlainPair
<1>10. Follow(n, Head(inbox[n])) /\ Deliver(n, To(Head(inbox[n]).src, msgs))
  BY <1>m, <1>1
<1> HIDE DEF msgs
<1> QED
  BY <1>6, <1>9, <1>10, FollowStep

\* A bare heartbeat: what is applied comes from the log.
LEMMA FollowHeartbeatInd ==
  ASSUME NEW v \in Ballots, Explained(v), NEW n \in Nodes, FollowHeartbeat(n)
  PROVE  Explained(v)'
<1>m. PICK msg, upto :
        /\ msg = Head(inbox[n]) /\ upto = Min({msg.committed, Len(log[n])})
  OBVIOUS
<1>1. /\ Follow(n, msg)
      /\ Deliver(n, To(msg.src, Forwarded(n, pending_cmds[n], msg.src)))
      /\ applied' = [applied EXCEPT ![n] = @ \o SubSeq(log[n], Len(@) + 1, upto)]
      /\ UNCHANGED <<log, acks, pending>>
      /\ pending_cmds' = [pending_cmds EXCEPT ![n] = <<>>] \/ pending_cmds' = pending_cmds
  BY <1>m DEF FollowHeartbeat, Follow
<1>2. msg.committed \in Nat
  BY <1>m, <1>1, FirstInInbox, Carries DEF Explained, Follow
<1>3. /\ log[n] \in Seq(Entries) /\ applied[n] \in Seq(Entries) /\ pending_cmds[n] \in Seq(Commands)
  BY DEF Explained, TypeInv, LogType
<1>4. upto \in Int /\ upto <= Len(log[n])
  <2>1. \A a, b \in Int : Min({a, b}) \in Int /\ Min({a, b}) <= b
    BY DEF Min
  <2>2. Len(log[n]) \in Int /\ msg.committed \in Int
    BY <1>2, <1>3
  <2> QED
    BY <1>m, <2>1, <2>2
<1>5. applied[n] \o SubSeq(log[n], Len(applied[n]) + 1, upto) \in Seq(Entries)
  <2>1. Len(applied[n]) + 1 \in Nat \ {0}
    BY <1>3
  <2>2. SubSeq(log[n], Len(applied[n]) + 1, upto) \in Seq(Entries)
    BY <1>3, <1>4, <2>1, Piece
  <2> QED
    BY <1>3, <2>2, Joined
<1>6. LogType'
  <2>1. pending_cmds' \in [Nodes -> Seq(Commands)]
    BY <1>1, CommandsType DEF Explained
  <2>2. applied' \in [Nodes -> Seq(Entries)]
    BY <1>1, <1>5 DEF Explained, TypeInv, LogType
  <2> QED
    BY <1>1, <2>1, <2>2 DEF Explained, TypeInv, LogType
<1>7. Forwarded(n, pending_cmds[n], msg.src) \in Seq(Message)
      /\ Plain(Forwarded(n, pending_cmds[n], msg.src))
  BY <1>3, ForwardedType
<1> QED
  BY <1>m, <1>1, <1>6, <1>7, FollowStep

\* An answer: the entry it is about is in the log, so what is applied comes from there.
LEMMA HandleResponseInd ==
  ASSUME NEW v \in Ballots, Explained(v), NEW n \in Nodes, HandleResponse(n)
  PROVE  Explained(v)'
<1>m. PICK msg, counts, next, reply :
        /\ msg = Head(inbox[n])
        /\ counts = (msg.success /\ committed(n) <= msg.index)
        /\ next = EntryData(log[n], IF msg.success THEN msg.index + 1 ELSE msg.index - 1)
        /\ reply = IF next = None THEN <<>>
                   ELSE <<[AppendEntry(n, next) EXCEPT !.committed = Len(applied'[n])]>>
  OBVIOUS
<1>1. /\ Received(n, "AppendEntryResponse") /\ ~Panics(n, msg)
      /\ \/ counts /\ acks' = [acks EXCEPT ![n][msg.index + 1] = @ \cup {msg.src}]
         \/ acks' = acks
      /\ \/ counts /\ applied' = [applied EXCEPT ![n] = @ \o SubSeq(log[n], Len(@) + 1, msg.index + 1)]
         \/ applied' = applied
      /\ pending' = [pending EXCEPT ![n][msg.src] = next]
      /\ Deliver(n, To(msg.src, reply))
      /\ UNCHANGED <<setupVars, nodes, told, part, disruptions, role, leader, term, votes, elected,
                     log, pending_cmds>>
  BY <1>m DEF HandleResponse, setupVars
<1>2. /\ msg.src \in Nodes /\ msg.index \in Nat /\ msg.success \in BOOLEAN
      /\ msg.success \/ msg.index > 0
  BY <1>m, <1>1, FirstInInbox, Carries DEF Explained
<1>3. /\ log[n] \in Seq(Entries) /\ applied[n] \in Seq(Entries) /\ acks[n] \in Seq(SUBSET Nodes)
      /\ Len(acks[n]) = Len(log[n])
      /\ applied \in [Nodes -> Seq(Entries)] /\ acks \in [Nodes -> Seq(SUBSET Nodes)]
  BY DEF Explained, TypeInv, LogType
<1>4. counts => msg.index + 1 \in 1 .. Len(log[n])
  <2>1. counts => ~(msg.index >= Len(acks[n]))
    BY <1>m, <1>1 DEF Panics
  <2> QED
    BY <1>2, <1>3, <2>1
<1>5. next \in Sendable \cup {None}
  <2>1. (IF msg.success THEN msg.index + 1 ELSE msg.index - 1) \in Nat
    BY <1>2
  <2> QED
    BY <1>m, <1>3, <2>1, EntryDataType
<1>6. acks' \in [Nodes -> Seq(SUBSET Nodes)] /\ \A m \in Nodes : Len(acks'[m]) = Len(acks[m])
  <2>1. CASE counts /\ acks' = [acks EXCEPT ![n][msg.index + 1] = @ \cup {msg.src}]
    <3> DEFINE i == msg.index + 1
               a == [acks[n] EXCEPT ![i] = @ \cup {msg.src}]
    <3>1. a \in Seq(SUBSET Nodes) /\ Len(a) = Len(acks[n])
      BY <1>2, <1>3, <1>4, <2>1
    <3>2. acks' = [acks EXCEPT ![n] = a]
      BY <2>1
    <3> HIDE DEF a
    <3> QED
      BY <1>3, <3>1, <3>2
  <2>2. CASE acks' = acks
    BY <1>3, <2>2
  <2> QED
    BY <1>1, <2>1, <2>2
<1>7. applied' \in [Nodes -> Seq(Entries)]
  <2>1. CASE counts /\ applied' = [applied EXCEPT ![n] = @ \o SubSeq(log[n], Len(@) + 1, msg.index + 1)]
    <3>1. Len(applied[n]) + 1 \in Nat \ {0}
      BY <1>3
    <3>2. SubSeq(log[n], Len(applied[n]) + 1, msg.index + 1) \in Seq(Entries)
      BY <1>2, <1>3, <1>4, <2>1, <3>1, Piece
    <3>3. applied[n] \o SubSeq(log[n], Len(applied[n]) + 1, msg.index + 1) \in Seq(Entries)
      BY <1>3, <3>2, Joined
    <3> QED
      BY <1>3, <2>1, <3>3
  <2>2. CASE applied' = applied
    BY <1>3, <2>2
  <2> QED
    BY <1>1, <2>1, <2>2
<1>8. LogType'
  <2>1. pending' \in [Nodes -> [Nodes -> Sendable \cup {None}]]
    BY <1>1, <1>2, <1>5 DEF Explained, TypeInv, LogType
  <2> QED
    BY <1>1, <1>6, <1>7, <2>1 DEF Explained, TypeInv, LogType
<1>9. reply \in Seq(Message) /\ Plain(reply)
  <2>1. CASE next = None
    BY <1>m, <2>1, NoReply
  <2>2. CASE next # None
    <3> DEFINE sent == [AppendEntry(n, next) EXCEPT !.committed = Len(applied'[n])]
    <3>1. Len(applied'[n]) \in Nat /\ term[n] \in 0 .. MaxTerm
      BY <1>7 DEF Explained, TypeInv, ElectionType
    <3>2. sent = [type |-> "AppendEntry", src |-> n, term |-> term[n],
                  committed |-> Len(applied'[n]), entry |-> next]
      BY DEF AppendEntry
    <3>3. sent \in Message /\ sent.type = "AppendEntry"
      BY <1>5, <3>1, <3>2 DEF Message
    <3>4. reply = <<sent>>
      BY <1>m, <2>2
    <3> HIDE DEF sent
    <3> QED
      BY <3>3, <3>4 DEF Plain
  <2> QED
    BY <2>1, <2>2
<1>10. NetType' /\ Quiet
  BY <1>1, <1>9, QuietOut, Reply DEF Explained
<1>11. ElectionType'
  BY <1>1 DEF Explained, TypeInv, ElectionType
<1>12. TypeInv'
  BY <1>1, <1>8, <1>10, <1>11, SameTypes DEF Explained, TypeInv
<1> QED
  BY <1>1, <1>10, <1>12, SameElection

\* A command at the leader makes an entry of the leader's term, which is not 0.
LEMMA LeaderCommandInd ==
  ASSUME NEW v \in Ballots, Explained(v), NEW n \in Nodes, LeaderCommand(n)
  PROVE  Explained(v)'
<1>m. PICK new, log1, e, out :
        /\ new = [term |-> term[n], cmd |-> Head(inbox[n]).cmd]
        /\ log1 = Append(log[n], new)
        /\ e = EntryData(log1, Len(log1) - 1)
        /\ out = [m \in Nodes |-> IF m \in Idle(n) THEN <<AppendEntry(n, e)>> ELSE <<>>]
  OBVIOUS
<1>1. /\ Received(n, "Command") /\ role[n] = "Leader"
      /\ log' = [log EXCEPT ![n] = log1]
      /\ acks' = [acks EXCEPT ![n] = Append(@, {n})]
      /\ pending' = [pending EXCEPT ![n] = [m \in Nodes |-> IF m \in Idle(n) THEN e ELSE @[m]]]
      /\ Deliver(n, out)
      /\ UNCHANGED <<setupVars, told, part, disruptions, electionVars, pending_cmds, applied>>
  BY <1>m DEF LeaderCommand, setupVars
<1>2. new \in Entries
  <2>1. Head(inbox[n]).cmd \in Commands
    BY <1>1, FirstInInbox, Carries DEF Explained
  <2>2. term[n] \in Terms
    BY <1>1, BoundsAssumption DEF Explained, TypeInv, ElectionType, Terms
  <2> QED
    BY <1>m, <2>1, <2>2 DEF Entries, Terms
<1>3. /\ log \in [Nodes -> Seq(Entries)] /\ acks \in [Nodes -> Seq(SUBSET Nodes)]
      /\ log[n] \in Seq(Entries) /\ acks[n] \in Seq(SUBSET Nodes) /\ Len(acks[n]) = Len(log[n])
  BY DEF Explained, TypeInv, LogType
<1>4. log1 \in Seq(Entries) /\ Len(log1) - 1 \in Nat /\ Len(log1) = Len(log[n]) + 1
  BY <1>m, <1>2, <1>3
<1>5. e \in Sendable \cup {None}
  BY <1>m, <1>4, EntryDataType
<1>6. LogType'
  <2>1. /\ Append(acks[n], {n}) \in Seq(SUBSET Nodes) /\ Len(Append(acks[n], {n})) = Len(log1)
    BY <1>3, <1>4
  <2>2. /\ log' \in [Nodes -> Seq(Entries)] /\ acks' \in [Nodes -> Seq(SUBSET Nodes)]
        /\ \A m \in Nodes : Len(acks'[m]) = Len(log'[m])
    BY <1>1, <1>3, <1>4, <2>1 DEF Explained, TypeInv, LogType
  <2>3. pending' \in [Nodes -> [Nodes -> Sendable \cup {None}]]
    BY <1>1, <1>5 DEF Explained, TypeInv, LogType
  <2> QED
    BY <1>1, <2>2, <2>3 DEF Explained, TypeInv, LogType
<1>7. out \in [Nodes -> Seq(Message)] /\ \A m \in Nodes : Plain(out[m])
  <2>1. AppendEntry(n, e) \in Message /\ AppendEntry(n, e).type = "AppendEntry"
    BY <1>5, Broadcasts DEF Explained, AppendEntry
  <2>2. <<AppendEntry(n, e)>> \in Seq(Message) /\ Plain(<<AppendEntry(n, e)>>)
    BY <2>1 DEF Plain
  <2> QED
    BY <1>m, <2>2, NoReply
<1>8. NetType' /\ Quiet
  BY <1>1, <1>7, QuietOut DEF Explained
<1> QED
  BY <1>1, <1>6, <1>8, LogStep

\* A command anywhere else is kept or passed on.
LEMMA ForwardCommandInd ==
  ASSUME NEW v \in Ballots, Explained(v), NEW n \in Nodes, ForwardCommand(n)
  PROVE  Explained(v)'
<1>m. PICK cmds, known, out :
        /\ cmds = Append(pending_cmds[n], Head(inbox[n]).cmd)
        /\ known = (leader[n] # None)
        /\ out = IF known THEN To(leader[n], Forwarded(n, cmds, leader[n])) ELSE To(n, <<>>)
  OBVIOUS
<1>1. /\ Received(n, "Command") /\ Deliver(n, out)
      /\ pending_cmds' = [pending_cmds EXCEPT ![n] = <<>>]
         \/ pending_cmds' = [pending_cmds EXCEPT ![n] = cmds]
      /\ UNCHANGED <<setupVars, told, part, disruptions, electionVars, log, acks, applied, pending>>
  BY <1>m DEF ForwardCommand, setupVars
<1>2. Head(inbox[n]).cmd \in Commands
  BY <1>1, FirstInInbox, Carries DEF Explained
<1>3. cmds \in Seq(Commands)
  BY <1>m, <1>2 DEF Explained, TypeInv, LogType
<1>4. LogType'
  <2>1. pending_cmds \in [Nodes -> Seq(Commands)] /\ <<>> \in Seq(Commands)
    BY DEF Explained, TypeInv, LogType
  <2>2. pending_cmds' \in [Nodes -> Seq(Commands)]
    BY <1>1, <1>3, <2>1
  <2> QED
    BY <1>1, <2>2 DEF Explained, TypeInv, LogType
<1>5. out \in [Nodes -> Seq(Message)] /\ \A m \in Nodes : Plain(out[m])
  <2>1. /\ Forwarded(n, cmds, leader[n]) \in Seq(Message)
        /\ Plain(Forwarded(n, cmds, leader[n]))
    BY <1>3, ForwardedType
  <2> QED
    BY <1>m, <2>1, Reply, NoReply
<1>6. NetType' /\ Quiet
  BY <1>1, <1>5, QuietOut DEF Explained
<1> QED
  BY <1>1, <1>4, <1>6, LogStep
-----------------------------------------------------------------------------
\* Every step keeps the invariant.
LEMMA StepInd == IndInv /\ [Next]_vars => IndInv'
<1> SUFFICES ASSUME NEW v \in Ballots, Explained(v), [Next]_vars PROVE \E w \in Ballots : Explained(w)'
  BY DEF IndInv, Ballots
<1>1. CASE UNCHANGED vars
  <2>1. UNCHANGED <<inbox, nodes, setupVars, part, disruptions, told, electionVars, logVars>>
    BY <1>1 DEF vars, setupVars, netVars
  <2>2. NetType' /\ Quiet
    <3>1. inbox' = [m \in Nodes |-> IF m \in {} THEN <<>> ELSE inbox[m]]
      BY <2>1 DEF Explained, TypeInv, NetType
    <3>2. TypeInv /\ \A m \in Nodes : told[m] \subseteq told'[m]
      BY <2>1 DEF Explained
    <3>3. {} \in SUBSET Nodes /\ UNCHANGED <<part, disruptions>>
      BY <2>1
    <3> QED
      BY <3>1, <3>2, <3>3, QuietEmptied
  <2> QED
    BY <2>1, <2>2, LogStep, SameTypes DEF Explained
<1>2. ASSUME NEW n \in Nodes, Handle(n) PROVE \E w \in Ballots : Explained(w)'
  <2>1. CASE HandleRequestVote(n)
    BY <2>1, HandleRequestVoteInd
  <2>2. CASE ~HandleRequestVote(n)
    BY <1>2, <2>2, AcceptInd, UnknownCandidateInd, HandleVoteInd, BecomeLeaderInd,
       RejectAppendEntryInd, FollowEntryInd, FollowHeartbeatInd, HandleResponseInd, PanicInd,
       LeaderCommandInd, ForwardCommandInd DEF Handle
  <2> QED
    BY <2>1, <2>2
<1>3. ASSUME NEW n \in Nodes, Election(n) PROVE \E w \in Ballots : Explained(w)'
  BY <1>3, ElectionInd
<1>4. CASE Next
  BY <1>2, <1>3, <1>4, HeartbeatInd, ProgramEndsInd, ClientInd, TellInd, DaemonInd DEF Next
<1> QED
  BY <1>1, <1>4

\* The inductive invariant: types, and a ballot that explains every vote, those counted and
\* those on their way (protocol.rs, the handlers of RequestVote and Vote).
THEOREM Invariance == Spec => []IndInv
BY InitInd, StepInd, PTL DEF Spec

\* RaftNode's fields, the logs, the log files and the acknowledgements keep their types, and the
\* acknowledgements are as many as the entries, however long the logs grow.
THEOREM TypeCorrect == Spec => []TypeOK
<1>1. IndInv => TypeOK
  <2> SUFFICES ASSUME IndInv PROVE TypeOK
    OBVIOUS
  <2>1. \A n \in Nodes : acks[n] \in [1 .. Len(log[n]) -> SUBSET Nodes]
    <3>1. \A n \in Nodes : acks[n] \in Seq(SUBSET Nodes) /\ Len(acks[n]) = Len(log[n])
      BY DEF IndInv, Explained, TypeInv, LogType
    <3> QED
      BY <3>1
  <2> QED
    BY <2>1 DEF TypeOK, IndInv, Explained, TypeInv, SetupType, NetType, ElectionType, LogType
<1> QED
  BY <1>1, Invariance, PTL

\* Two majorities of the same offices have one in common.
LEMMA MajoritiesOverlap ==
  ASSUME NEW A \in SUBSET Nodes, NEW B \in SUBSET Nodes,
         2 * Cardinality(A) > Cardinality(Nodes), 2 * Cardinality(B) > Cardinality(Nodes)
  PROVE  A \cap B # {}
<1>1. IsFiniteSet(A) /\ IsFiniteSet(B) /\ IsFiniteSet(A \cup B)
      /\ Cardinality(A \cup B) <= Cardinality(Nodes)
  BY NodesAssumption, FS_Subset
<1>2. Cardinality(A \cup B) = Cardinality(A) + Cardinality(B) - Cardinality(A \cap B)
  BY <1>1, FS_Union
<1>3. /\ Cardinality(A) \in Nat /\ Cardinality(B) \in Nat
      /\ Cardinality(A \cup B) \in Nat /\ Cardinality(Nodes) \in Nat
  BY <1>1, NodesAssumption, FS_CardinalityType
<1>4. SUFFICES ASSUME A \cap B = {} PROVE FALSE
  OBVIOUS
<1>5. Cardinality(A \cap B) = 0
  BY <1>4, FS_EmptySet
<1> QED
  BY <1>1, <1>2, <1>3, <1>5

\* Whom two winners of a term have both as a voter: the winners are one.
LEMMA OneWins ==
  ASSUME NEW v \in Ballots, NEW E \in SUBSET (Nodes \X Terms),
         \A n \in Nodes, t \in Terms : <<n, t>> \in E => 2 * Cardinality(Voters(v, n, t)) > Cardinality(Nodes)
  PROVE  \A a, b \in E : a[2] = b[2] => a[1] = b[1]
<1> SUFFICES ASSUME NEW a \in E, NEW b \in E, a[2] = b[2] PROVE a[1] = b[1]
  OBVIOUS
<1>2. PICK n \in Nodes, m \in Nodes, t \in Terms : a = <<n, t>> /\ b = <<m, t>>
  OBVIOUS
<1>3. /\ 2 * Cardinality(Voters(v, n, t)) > Cardinality(Nodes)
      /\ 2 * Cardinality(Voters(v, m, t)) > Cardinality(Nodes)
  BY <1>2
<1>4. Voters(v, n, t) \cap Voters(v, m, t) # {}
  <2>1. Voters(v, n, t) \in SUBSET Nodes /\ Voters(v, m, t) \in SUBSET Nodes
    BY DEF Voters
  <2> QED
    BY <1>3, <2>1, MajoritiesOverlap
<1>5. n = m
  BY <1>4 DEF Voters
<1> QED
  BY <1>2, <1>5

\* Then a term has one winner.
LEMMA Winner ==
  ASSUME MajoritiesMeet, NEW v \in Ballots, Explained(v)
  PROVE  ElectedOncePerTerm
<1>1. /\ elected \in SUBSET (Nodes \X Terms)
      /\ \A n \in Nodes, t \in Terms :
           <<n, t>> \in elected => 2 * Cardinality(Voters(v, n, t)) > Cardinality(Nodes)
  BY DEF Explained, TypeInv, ElectionType, Explains
<1> QED
  BY <1>1, OneWins DEF ElectedOncePerTerm

\* handle_vote counts votes against the offices the candidate knows.  A term has one winner if
\* there are three offices, or if nobody stands for election before all know each other.
THEOREM OneWinnerPerTerm ==
  ASSUME MajoritiesMeet
  PROVE  Spec => []ElectedOncePerTerm
<1>1. IndInv => ElectedOncePerTerm
  BY Winner DEF IndInv
<1> QED
  BY <1>1, Invariance, PTL
-----------------------------------------------------------------------------
(***************************************************************************)
(* The logs.  Beside the ballot the argument needs two records the code    *)
(* does not keep: the book H[t], the longest log the leader of term t has  *)
(* had in that term, and A[x][t], how much of it x took over while it was  *)
(* in that term.  What a majority took over is chosen; an entry is lost    *)
(* once a majority went on to later terms without it, and then it can      *)
(* never be chosen.  Who votes for a candidate has seen no longer log, so  *)
(* a winner starts with every entry of an earlier term that is not lost.   *)
(***************************************************************************)

\* The first k elements of two sequences are there and the same.
Same(s, r, k) == k <= Len(s) /\ k <= Len(r) /\ \A i \in 1 .. k : s[i] = r[i]

Books  == [Terms -> Seq(Entries)]
Counts == [Nodes -> [Terms -> Nat]]

Maj(Q) == 2 * Cardinality(Q) > Cardinality(Nodes)

\* Entry k of the book of t, which is of term t, has been taken over by a majority; it cannot
\* come to be, because a majority has gone on without it.
Chosen(H, A, t, k) ==
  /\ k \in 1 .. Len(H[t]) /\ H[t][k].term = t
  /\ \E Q \in SUBSET Nodes : Maj(Q) /\ \A y \in Q : k <= A[y][t]
Lost(A, t, k) == \E Q \in SUBSET Nodes : Maj(Q) /\ \A y \in Q : t < term[y] /\ A[y][t] < k

Won(t) == \E n \in Nodes : <<n, t>> \in elected

-----------------------------------------------------------------------------
(* The invariant: the logs and the books. *)

\* A leader was elected, and its log is the book of its term.
Leaders(H, A) ==
  /\ \A n \in Nodes : role[n] # "Panicked"
  /\ \A n \in Nodes : role[n] = "Leader" =>
       <<n, term[n]>> \in elected /\ H[term[n]] = log[n] /\ A[n][term[n]] = Len(log[n])
  /\ \A n \in Nodes, t \in Terms : <<n, t>> \in elected =>
       t <= term[n] /\ (term[n] = t => role[n] = "Leader")
  /\ \A t \in Terms : H[t] # <<>> => Won(t)

\* Every log is, up to its last entry of a term, the book of that term.
Logs(H, A) ==
  \A n \in Nodes : \A i \in 1 .. Len(log[n]) :
    /\ Same(log[n], H[log[n][i].term], i)
    /\ log[n][i].term <= term[n]
    /\ role[n] = "Candidate" => log[n][i].term < term[n]
    /\ log[n][i].term = term[n] => i <= A[n][term[n]]

\* So are the books; terms do not fall within one.
Bound(H) ==
  \A t \in Terms : \A i \in 1 .. Len(H[t]) :
    /\ H[t][i].term <= t
    /\ Same(H[t], H[H[t][i].term], i)
    /\ \A j \in 1 .. i : H[t][j].term <= H[t][i].term

\* What x took over is its log as long as it is in that term.
Held(H, A) ==
  \A x \in Nodes, t \in Terms :
    /\ A[x][t] <= Len(H[t])
    /\ A[x][t] > 0 => t <= term[x]
    /\ A[x][t] > 0 /\ term[x] = t => Len(log[x]) = A[x][t] /\ Same(log[x], H[t], A[x][t])

\* What x took over stays in its log, and a winner has it, unless it is lost.
Kept(H, A) ==
  \A x \in Nodes, t \in Terms : \A k \in 1 .. A[x][t] :
    H[t][k].term = t => Lost(A, t, k) \/ Same(log[x], H[t], k)

Complete(H, A) ==
  \A t, u \in Terms : t < u /\ Won(u) =>
    \A k \in 1 .. Len(H[t]) : H[t][k].term = t => Lost(A, t, k) \/ Same(H[u], H[t], k)

Core(H, A) == Leaders(H, A) /\ Logs(H, A) /\ Bound(H) /\ Held(H, A) /\ Kept(H, A) /\ Complete(H, A)

\* Who is counted as having an entry of the term took it over.
Acked(A) ==
  \A n \in Nodes : role[n] = "Leader" =>
    \A i \in 1 .. Len(log[n]) : log[n][i].term = term[n] => \A y \in acks[n][i] : i <= A[y][term[n]]

\* The sequence s, or the first c entries of the book of u, are chosen by term u.
Covered(H, A, s, u) ==
  s = <<>> \/ \E t \in Terms, k \in Nat :
                t <= u /\ Chosen(H, A, t, k) /\ Len(s) <= k /\ Same(s, H[t], Len(s))
Settled(H, A, u, c) ==
  c = 0 \/ \E t \in Terms, k \in Nat : t <= u /\ Chosen(H, A, t, k) /\ c <= k /\ Same(H[u], H[t], c)

Files(H, A) ==
  \A m \in Nodes : Covered(H, A, applied[m], term[m]) /\ Same(log[m], applied[m], Len(applied[m]))

(* The elections. *)

\* Who votes also votes for itself; a voter has nothing its candidate lacks but what is lost.
SelfVoted(v) == \A x \in Nodes, u \in Terms : v[x][u] # None => v[v[x][u]][u] = v[x][u]

Backed(v, H, A) ==
  \A c, x \in Nodes, u \in Terms :
    role[c] = "Candidate" /\ term[c] = u /\ v[c][u] = c /\ v[x][u] = c =>
      \A t \in Terms : t < u => \A k \in 1 .. A[x][t] :
        H[t][k].term = t => Lost(A, t, k) \/ Same(log[c], H[t], k)

(* What is on its way to x. *)
MailOk(H, A, x, msg) ==
  /\ msg.type = "AppendEntry" =>
       /\ msg.src # x /\ <<msg.src, msg.term>> \in elected
       /\ msg.entry # None => /\ msg.entry.index < Len(H[msg.term])
                              /\ msg.entry = EntryData(H[msg.term], msg.entry.index)
       /\ msg.entry = None => /\ term[x] <= msg.term => msg.committed <= A[x][msg.term]
                              /\ Settled(H, A, msg.term, msg.committed)
  /\ msg.type = "AppendEntryResponse" =>
       /\ msg.src # x /\ <<x, msg.term>> \in elected
       /\ msg.index < Len(H[msg.term])
       /\ msg.success => msg.index < A[msg.src][msg.term]
  /\ msg.type = "RequestVote" =>
       (role[msg.src] = "Candidate" /\ term[msg.src] = msg.term =>
          msg.latest_term = LatestTerm(log[msg.src]) /\ msg.len = Len(log[msg.src]))
  /\ msg.type = "Command" => SetUp

Mail(H, A) == \A x \in Nodes : \A i \in 1 .. Len(inbox[x]) : MailOk(H, A, x, inbox[x][i])

(* The chain between the leader n of term u and x. *)
Probes(n, u) ==
  {msg \in Message : msg.type = "AppendEntry" /\ msg.src = n /\ msg.term = u /\ msg.entry # None}
Answers(x, u) ==
  {msg \in Message : msg.type = "AppendEntryResponse" /\ msg.src = x /\ msg.term = u}

Goal(n, x) == IF pending[n][x] = None THEN Len(log[n]) ELSE pending[n][x].index
NextIndex(msg) == IF msg.success THEN msg.index + 1 ELSE msg.index - 1

Indices(s) == [i \in 1 .. Len(s) |-> s[i].entry.index]
NextIndices(s) == [i \in 1 .. Len(s) |-> NextIndex(s[i])]

Ahead(n, x, u) == Indices(Only(inbox[x], Probes(n, u)))
Back(n, x, u)  == NextIndices(Only(inbox[n], Answers(x, u)))

\* To overwrite from a on loses nothing.
Fine(H, A, x, u, a) ==
  /\ a <= Len(H[u])
  /\ A[x][u] > 0 => a = A[x][u] \/ a + 1 = A[x][u]
  /\ A[x][u] = 0 /\ term[x] < u => \A l \in 1 .. Len(H[u]) : H[u][l].term < u => l <= a + 1
  /\ A[x][u] = 0 /\ term[x] = u => \A l \in Nat : Same(log[x], H[u], l) => l <= a + 1

\* b may come after a.
Follows(H, A, x, u, a, b) ==
  IF A[x][u] > 0 THEN a <= b
  ELSE a = b \/ (a = b + 1 /\ term[x] = u /\ ~Same(log[x], H[u], a))

InStep(H, A, x, u, c) ==
  /\ \A i \in 1 .. Len(c) : Fine(H, A, x, u, c[i])
  /\ \A i, j \in 1 .. Len(c) : i < j => Follows(H, A, x, u, c[i], c[j])

\* The chain p, g, q: requests under way, the entry noted, entries answers ask for.
Linked(H, A, x, u, p, g, q) ==
  /\ InStep(H, A, x, u, p) /\ InStep(H, A, x, u, q) /\ Fine(H, A, x, u, g)
  /\ \A i \in 1 .. Len(p) : Follows(H, A, x, u, p[i], g)
  /\ \A j \in 1 .. Len(q) : Follows(H, A, x, u, g, q[j])
  /\ \A i \in 1 .. Len(p), j \in 1 .. Len(q) : Follows(H, A, x, u, p[i], q[j])

ChainAt(H, A, n, x, u) ==
  /\ InStep(H, A, x, u, Ahead(n, x, u))
  /\ term[n] = u => Linked(H, A, x, u, Ahead(n, x, u), Goal(n, x), Back(n, x, u))

Chains(H, A) ==
  \A n, x \in Nodes, u \in Terms :
    <<n, u>> \in elected /\ x # n /\ term[x] <= u => ChainAt(H, A, n, x, u)

\* What a leader has noted is an entry of its log.
Noted ==
  \A n, x \in Nodes : role[n] = "Leader" /\ pending[n][x] # None =>
    pending[n][x].index < Len(log[n]) /\ pending[n][x] = EntryData(log[n], pending[n][x].index)

\* A leader that has told nobody yet, as OnlyKept has it; any other has an entry noted for
\* whoever took over none.
Untold(A, n) ==
  /\ applied[n] = <<>>
  /\ \A i \in 1 .. Len(log[n]) : log[n][i].term = term[n] /\ acks[n][i] = {n}
  /\ \A x \in Others(n) :
       /\ pending[n][x] = None /\ A[x][term[n]] = 0
       /\ Only(inbox[x], Probes(n, term[n])) = <<>> /\ Only(inbox[n], Answers(x, term[n])) = <<>>
Telling(A) ==
  \A n \in Nodes : role[n] = "Leader" =>
    Untold(A, n) \/ \A x \in Others(n) : A[x][term[n]] = 0 => pending[n][x] # None

(* Before all are connected there is nothing in the logs. *)
Setting(H) ==
  ~SetUp => /\ \A n \in Nodes : log[n] = <<>> /\ pending_cmds[n] = <<>>
            /\ \A t \in Terms : H[t] = <<>>

\* An office is told of another once.
Accepts ==
  \A n \in Nodes : \A i \in 1 .. Len(inbox[n]) : inbox[n][i].type = "Accept" =>
    /\ inbox[n][i].src \notin nodes[n]
    /\ \A j \in 1 .. Len(inbox[n]) :
         inbox[n][j].type = "Accept" /\ inbox[n][j].src = inbox[n][i].src => i = j

LogInv(v, H, A) ==
  /\ Core(H, A) /\ Acked(A) /\ Files(H, A)
  /\ SelfVoted(v) /\ Backed(v, H, A)
  /\ Mail(H, A) /\ Chains(H, A) /\ Noted /\ Telling(A) /\ Setting(H) /\ Accepts

Safe(v) == \E H \in Books, A \in Counts : LogInv(v, H, A)

LogIndInv == \E v \in Ballots : Explained(v) /\ (strayed \/ Safe(v))
-----------------------------------------------------------------------------
(* Sequences that agree. *)

\* Beginnings that are the same have shorter ones that are.
LEMMA SameLess ==
  ASSUME NEW s, NEW r, NEW k, NEW j, Same(s, r, k), Len(s) \in Nat, Len(r) \in Nat,
         j \in Int, k \in Int, j <= k
  PROVE  Same(s, r, j)
BY DEF Same

\* Being the same has no direction.
LEMMA SameSwapped ==
  ASSUME NEW s, NEW r, NEW k, Same(s, r, k)
  PROVE  Same(r, s, k)
BY DEF Same

\* It goes on from one sequence to the next.
LEMMA SameTwice ==
  ASSUME NEW s, NEW r, NEW q, NEW k, Same(s, r, k), Same(r, q, k)
  PROVE  Same(s, q, k)
BY DEF Same

\* A sequence is the same as itself as far as it goes.
LEMMA SameSelf ==
  ASSUME NEW s, Len(s) \in Nat, NEW k \in Int, k <= Len(s)
  PROVE  Same(s, s, k)
BY DEF Same

\* Two majorities have one in common, so nothing chosen is lost.
LEMMA MajMeet ==
  ASSUME NEW P \in SUBSET Nodes, NEW Q \in SUBSET Nodes, Maj(P), Maj(Q)
  PROVE  \E y \in P : y \in Q
<1>1. P \cap Q # {}
  BY MajoritiesOverlap DEF Maj
<1> QED
  BY <1>1

\* A majority took the entry over, so none can have gone on without it.
LEMMA ChosenNotLost ==
  ASSUME NEW H, NEW A \in Counts, NEW t \in Terms, NEW k \in Nat, Chosen(H, A, t, k)
  PROVE  ~Lost(A, t, k)
<1>1. SUFFICES ASSUME Lost(A, t, k) PROVE FALSE
  OBVIOUS
<1>2. PICK P \in SUBSET Nodes : Maj(P) /\ \A y \in P : k <= A[y][t]
  BY DEF Chosen
<1>3. PICK Q \in SUBSET Nodes : Maj(Q) /\ \A y \in Q : A[y][t] < k
  BY <1>1 DEF Lost
<1>4. PICK y \in P : y \in Q
  BY <1>2, <1>3, MajMeet
<1>5. A[y][t] \in Nat
  BY <1>4 DEF Counts
<1> QED
  BY <1>2, <1>3, <1>4, <1>5
-----------------------------------------------------------------------------
(* Types at hand. *)

\* What the types say of one node, in the form the steps below use.
LEMMA AtHand ==
  ASSUME TypeInv
  PROVE  /\ MaxTerm \in Nat /\ Terms \subseteq 1 .. MaxTerm /\ Terms \subseteq Nat
         /\ \A n \in Nodes : /\ term[n] \in 0 .. MaxTerm /\ term[n] \in Nat /\ role[n] \in Roles
                             /\ log[n] \in Seq(Entries) /\ Len(log[n]) \in Nat
                             /\ applied[n] \in Seq(Entries) /\ Len(applied[n]) \in Nat
                             /\ inbox[n] \in Seq(Message) /\ Len(inbox[n]) \in Nat
                             /\ acks[n] \in Seq(SUBSET Nodes) /\ Len(acks[n]) = Len(log[n])
                             /\ pending_cmds[n] \in Seq(Commands)
                             /\ \A m \in Nodes : pending[n][m] \in Sendable \cup {None}
                             /\ role[n] = "Leader" => term[n] \in Terms
         /\ \A n \in Nodes : \A i \in 1 .. Len(log[n]) : log[n][i] \in Entries /\ log[n][i].term \in Terms
         /\ \A n \in Nodes : \A i \in 1 .. Len(inbox[n]) : inbox[n][i] \in Message
<1>1. MaxTerm \in Nat /\ Terms = 1 .. MaxTerm
  BY BoundsAssumption DEF Terms
<1>2. \A n \in Nodes : /\ term[n] \in 0 .. MaxTerm /\ role[n] \in Roles
                       /\ role[n] = "Leader" => term[n] > 0
  BY DEF TypeInv, ElectionType
<1>3. \A n \in Nodes : /\ log[n] \in Seq(Entries) /\ applied[n] \in Seq(Entries)
                       /\ acks[n] \in Seq(SUBSET Nodes) /\ Len(acks[n]) = Len(log[n])
                       /\ pending_cmds[n] \in Seq(Commands)
                       /\ \A m \in Nodes : pending[n][m] \in Sendable \cup {None}
  BY DEF TypeInv, LogType
<1>4. \A n \in Nodes : inbox[n] \in Seq(Message)
  BY DEF TypeInv, NetType
<1>5. \A n \in Nodes : \A i \in 1 .. Len(log[n]) : log[n][i] \in Entries /\ log[n][i].term \in Terms
  <2>1. \A e \in Entries : e.term \in Terms
    BY DEF Entries, Terms
  <2> QED
    BY <1>3, <2>1
<1>6. \A n \in Nodes : \A i \in 1 .. Len(inbox[n]) : inbox[n][i] \in Message
  BY <1>4
<1>7. \A n \in Nodes : term[n] \in Nat /\ (role[n] = "Leader" => term[n] \in Terms)
  BY <1>1, <1>2
<1>8. \A n \in Nodes : Len(log[n]) \in Nat /\ Len(applied[n]) \in Nat /\ Len(inbox[n]) \in Nat
  BY <1>3, <1>4
<1>9. Terms \subseteq 1 .. MaxTerm /\ Terms \subseteq Nat
  BY <1>1
<1> QED
  BY <1>1, <1>2, <1>3, <1>4, <1>5, <1>6, <1>7, <1>8, <1>9

\* The same after a step.
LEMMA AtHandNext ==
  ASSUME TypeInv'
  PROVE  \A n \in Nodes :
           /\ term'[n] \in Nat /\ role'[n] \in Roles
           /\ log'[n] \in Seq(Entries) /\ Len(log'[n]) \in Nat
           /\ applied'[n] \in Seq(Entries) /\ Len(applied'[n]) \in Nat
           /\ inbox'[n] \in Seq(Message) /\ Len(inbox'[n]) \in Nat
           /\ Len(acks'[n]) = Len(log'[n])
           /\ role'[n] = "Leader" => term'[n] \in Terms
           /\ \A i \in 1 .. Len(log'[n]) : log'[n][i] \in Entries /\ log'[n][i].term \in Terms
<1>1. \A n \in Nodes : /\ term'[n] \in 0 .. MaxTerm /\ role'[n] \in Roles
                       /\ role'[n] = "Leader" => term'[n] > 0
  BY DEF TypeInv, ElectionType
<1>2. \A n \in Nodes : /\ log'[n] \in Seq(Entries) /\ applied'[n] \in Seq(Entries)
                       /\ Len(acks'[n]) = Len(log'[n])
  BY DEF TypeInv, LogType
<1>3. \A n \in Nodes : inbox'[n] \in Seq(Message)
  BY DEF TypeInv, NetType
<1>4. \A e \in Entries : e.term \in Terms
  BY DEF Entries, Terms
<1>5. \A n \in Nodes : term'[n] \in Nat /\ (role'[n] = "Leader" => term'[n] \in Terms)
  BY <1>1, BoundsAssumption DEF Terms
<1> QED
  BY <1>1, <1>2, <1>3, <1>4, <1>5

\* The same office wins after a step.
LEMMA WinnerNext ==
  ASSUME MajoritiesMeet, NEW v \in Ballots, Explained(v)'
  PROVE  ElectedOncePerTerm'
<1>1. /\ elected' \in SUBSET (Nodes \X Terms)
      /\ \A n \in Nodes, t \in Terms :
           <<n, t>> \in elected' => 2 * Cardinality(Voters(v, n, t)) > Cardinality(Nodes)
  BY DEF Explained, TypeInv, ElectionType, Explains, MajoritiesMeet, Voters
<1> QED
  BY <1>1, OneWins DEF ElectedOncePerTerm

\* The types of the books and of the counts.
LEMMA BookAtHand ==
  ASSUME NEW H \in Books, NEW A \in Counts
  PROVE  /\ \A t \in Terms : H[t] \in Seq(Entries) /\ Len(H[t]) \in Nat
         /\ \A t \in Terms : \A i \in 1 .. Len(H[t]) : H[t][i] \in Entries /\ H[t][i].term \in Terms
         /\ \A x \in Nodes, t \in Terms : A[x][t] \in Nat
<1>1. \A t \in Terms : H[t] \in Seq(Entries)
  BY DEF Books
<1>2. \A e \in Entries : e.term \in Terms
  BY DEF Entries, Terms
<1>3. \A t \in Terms : \A i \in 1 .. Len(H[t]) : H[t][i] \in Entries /\ H[t][i].term \in Terms
  BY <1>1, <1>2
<1>4. \A x \in Nodes, t \in Terms : A[x][t] \in Nat
  BY DEF Counts
<1> QED
  BY <1>1, <1>3, <1>4

\* What a leader that won knows of itself, and others of it.
LEMMA WinnerLeads ==
  ASSUME TypeInv, NEW H, NEW A, Leaders(H, A), NEW n \in Nodes, NEW t \in Terms, <<n, t>> \in elected
  PROVE  /\ t <= term[n]
         /\ term[n] = t => role[n] = "Leader" /\ H[t] = log[n] /\ A[n][t] = Len(log[n])
BY DEF Leaders

\* The terms within a log do not fall.
LEMMA LogRises ==
  ASSUME TypeInv, NEW H \in Books, NEW A \in Counts, Logs(H, A), Bound(H),
         NEW n \in Nodes, NEW i \in 1 .. Len(log[n]), NEW j \in 1 .. i
  PROVE  log[n][j].term <= log[n][i].term
<1> DEFINE t == log[n][i].term
<1>1. t \in Terms /\ Len(log[n]) \in Nat
  BY AtHand
<1>2. Same(log[n], H[t], i)
  BY DEF Logs
<1>3. Len(H[t]) \in Nat
  BY <1>1, BookAtHand
<1> HIDE DEF t
<1>4. i \in 1 .. Len(H[t]) /\ log[n][i] = H[t][i] /\ log[n][j] = H[t][j]
  BY <1>1, <1>2, <1>3 DEF Same
<1>5. H[t][j].term <= H[t][i].term
  BY <1>1, <1>4 DEF Bound
<1> QED
  BY <1>4, <1>5 DEF t

\* The entry before is in the log, so all before it are: Fits tests no more.
LEMMA FitsIsSame ==
  ASSUME TypeInv, NEW H \in Books, NEW A \in Counts, Logs(H, A), Bound(H),
         NEW n \in Nodes, NEW u \in Terms, NEW e, NEW a \in Nat, a < Len(H[u]),
         e = EntryData(H[u], a)
  PROVE  /\ Fits(log[n], e) <=> Same(log[n], H[u], a)
         /\ e.index = a /\ e.term = H[u][a + 1].term /\ e.cmd = H[u][a + 1].cmd
<1>1. e = [index |-> a, prev_term |-> PrevTerm(H[u], a), term |-> H[u][a + 1].term, cmd |-> H[u][a + 1].cmd]
  BY DEF EntryData
<1>2. e.index = a /\ e.prev_term = PrevTerm(H[u], a) /\ e.term = H[u][a + 1].term /\ e.cmd = H[u][a + 1].cmd
  BY <1>1
<1>3. Len(H[u]) \in Nat /\ Len(log[n]) \in Nat /\ log[n] \in Seq(Entries)
  BY AtHand, BookAtHand
<1>4. CASE a = 0
  BY <1>2, <1>3, <1>4 DEF Fits, PrevTerm, Same
<1>5. CASE a > 0
  <2> DEFINE t == H[u][a].term
  <2>1. a \in 1 .. Len(H[u]) /\ t \in Terms
    BY <1>3, <1>5, BookAtHand
  <2>2. PrevTerm(H[u], a) = t
    BY <2>1 DEF PrevTerm
  <2>3. Same(H[u], H[t], a)
    BY <2>1 DEF Bound
  <2> HIDE DEF t
  <2>4. ASSUME Fits(log[n], e) PROVE Same(log[n], H[u], a)
    <3>1. PrevTerm(log[n], a) = t
      BY <1>2, <2>2, <2>4 DEF Fits
    <3>2. a \in 1 .. Len(log[n]) /\ log[n][a].term = t
      BY <1>3, <2>1, <3>1, AtHand DEF PrevTerm
    <3>3. Same(log[n], H[t], a)
      BY <3>2 DEF Logs
    <3> QED
      BY <2>3, <3>3, SameSwapped, SameTwice
  <2>5. ASSUME Same(log[n], H[u], a) PROVE Fits(log[n], e)
    <3>1. a \in 1 .. Len(log[n]) /\ log[n][a] = H[u][a]
      BY <1>3, <1>5, <2>5 DEF Same
    <3> QED
      BY <1>2, <2>1, <2>2, <3>1 DEF Fits, PrevTerm, t
  <2> QED
    BY <1>2, <2>4, <2>5
<1> QED
  BY <1>3, <1>4, <1>5
-----------------------------------------------------------------------------
(* Books and counts grow; what was chosen, lost or settled stays so. *)

\* The books H2 and the counts A2 after a step, beside H and A before it.
Grown(H, A, H2, A2) ==
  /\ \A t \in Terms : Same(H[t], H2[t], Len(H[t]))
  /\ \A y \in Nodes, t \in Terms : A[y][t] <= A2[y][t] /\ (A2[y][t] # A[y][t] => term[y] <= t)
  /\ \A y \in Nodes : term[y] <= term'[y]
  /\ elected \subseteq elected'

\* Where nobody falls back to an earlier term, the same books will do.
LEMMA NotGrown ==
  ASSUME TypeInv, NEW H \in Books, NEW A \in Counts, elected \subseteq elected',
         \A y \in Nodes : term[y] <= term'[y]
  PROVE  Grown(H, A, H, A)
BY BookAtHand, SameSelf DEF Grown

\* A term that a node has left is over for it: what is lost stays so.
LEMMA LostStays ==
  ASSUME TypeInv, TypeInv', NEW H \in Books, NEW A \in Counts, NEW H2 \in Books, NEW A2 \in Counts,
         Grown(H, A, H2, A2), NEW t \in Terms, NEW k \in Nat, Lost(A, t, k)
  PROVE  Lost(A2, t, k)'
<1>1. PICK Q \in SUBSET Nodes : Maj(Q) /\ \A y \in Q : t < term[y] /\ A[y][t] < k
  BY DEF Lost
<1>2. ASSUME NEW y \in Q PROVE t < term'[y] /\ A2[y][t] < k
  <2>1. term[y] \in Nat /\ term'[y] \in Nat /\ t \in Nat
    BY AtHand, AtHandNext
  <2> QED
    BY <1>1, <2>1 DEF Grown
<1> QED
  BY <1>1, <1>2 DEF Lost, Maj

\* A book grows at its end only, so what is the same as its beginning stays so.
LEMMA BookStays ==
  ASSUME NEW H \in Books, NEW A \in Counts, NEW H2 \in Books, NEW A2 \in Counts,
         Grown(H, A, H2, A2), NEW t \in Terms
  PROVE  /\ Len(H[t]) <= Len(H2[t])
         /\ \A k \in 1 .. Len(H[t]) : H2[t][k] = H[t][k]
         /\ \A s : \A k \in Int : k <= Len(H[t]) => (Same(s, H[t], k) <=> Same(s, H2[t], k))
         /\ \A s : \A k \in Int : Same(s, H[t], k) => Same(s, H2[t], k)
         /\ \A k \in Int : k <= Len(H[t]) => Same(H2[t], H[t], k) /\ Same(H[t], H2[t], k)
<1>1. Len(H[t]) \in Nat /\ Len(H2[t]) \in Nat
  BY BookAtHand
<1>2. Len(H[t]) <= Len(H2[t]) /\ \A k \in 1 .. Len(H[t]) : H2[t][k] = H[t][k]
  BY <1>1 DEF Grown, Same
<1>3. ASSUME NEW s, NEW k \in Int, k <= Len(H[t]) PROVE Same(s, H[t], k) <=> Same(s, H2[t], k)
  <2>1. k <= Len(H2[t])
    BY <1>1, <1>2, <1>3
  <2>2. \A i \in 1 .. k : H2[t][i] = H[t][i]
    BY <1>1, <1>2, <1>3
  <2> QED
    BY <1>3, <2>1, <2>2 DEF Same
<1>4. ASSUME NEW s, NEW k \in Int, Same(s, H[t], k) PROVE Same(s, H2[t], k)
  BY <1>3, <1>4 DEF Same
<1>5. ASSUME NEW k \in Int, k <= Len(H[t]) PROVE Same(H2[t], H[t], k) /\ Same(H[t], H2[t], k)
  <2>1. Same(H[t], H2[t], k)
    BY <1>1, <1>2, <1>5 DEF Same
  <2> QED
    BY <2>1, SameSwapped
<1> QED
  BY <1>2, <1>3, <1>4, <1>5

\* What is chosen stays chosen.
LEMMA ChosenStays ==
  ASSUME NEW H \in Books, NEW A \in Counts, NEW H2 \in Books, NEW A2 \in Counts,
         Grown(H, A, H2, A2), NEW t \in Terms, NEW k \in Nat, Chosen(H, A, t, k)
  PROVE  Chosen(H2, A2, t, k)
<1>1. PICK Q \in SUBSET Nodes : Maj(Q) /\ \A y \in Q : k <= A[y][t]
  BY DEF Chosen
<1>2. \A y \in Q : k <= A2[y][t]
  BY <1>1, BookAtHand DEF Grown
<1>3. k \in 1 .. Len(H2[t]) /\ H2[t][k].term = t
  BY BookStays, BookAtHand DEF Chosen
<1> QED
  BY <1>1, <1>2, <1>3 DEF Chosen

\* So does what begins with it.
LEMMA CoveredStays ==
  ASSUME NEW H \in Books, NEW A \in Counts, NEW H2 \in Books, NEW A2 \in Counts,
         Grown(H, A, H2, A2), NEW s \in Seq(Entries), NEW u \in Nat, NEW w \in Nat, u <= w,
         Covered(H, A, s, u)
  PROVE  Covered(H2, A2, s, w)
<1>1. CASE s = <<>>
  BY <1>1 DEF Covered
<1>2. CASE s # <<>>
  <2>1. PICK t \in Terms, k \in Nat :
          t <= u /\ Chosen(H, A, t, k) /\ Len(s) <= k /\ Same(s, H[t], Len(s))
    BY <1>2 DEF Covered
  <2>2. Chosen(H2, A2, t, k)
    BY <2>1, ChosenStays
  <2>3. Same(s, H2[t], Len(s))
    <3>1. \A r : \A j \in Int : Same(r, H[t], j) => Same(r, H2[t], j)
      BY BookStays
    <3>2. Len(s) \in Int
      OBVIOUS
    <3> QED
      BY <2>1, <3>1, <3>2
  <2>4. t <= w
    BY <2>1, BoundsAssumption DEF Terms
  <2> QED
    BY <2>1, <2>2, <2>3, <2>4 DEF Covered
<1> QED
  BY <1>1, <1>2

\* So does what a heartbeat says is committed.
LEMMA SettledStays ==
  ASSUME NEW H \in Books, NEW A \in Counts, NEW H2 \in Books, NEW A2 \in Counts,
         Grown(H, A, H2, A2), NEW u \in Terms, NEW c \in Nat, Settled(H, A, u, c)
  PROVE  Settled(H2, A2, u, c)
<1>1. CASE c = 0
  BY <1>1 DEF Settled
<1>2. CASE c # 0
  <2>1. PICK t \in Terms, k \in Nat :
          t <= u /\ Chosen(H, A, t, k) /\ c <= k /\ Same(H[u], H[t], c)
    BY <1>2 DEF Settled
  <2>2. Chosen(H2, A2, t, k)
    BY <2>1, ChosenStays
  <2>3. c <= Len(H[u]) /\ c <= Len(H[t])
    BY <2>1 DEF Same
  <2>4. Same(H2[u], H[u], c) /\ Same(H[t], H2[t], c)
    BY <2>3, BookStays
  <2>5. Same(H2[u], H2[t], c)
    BY <2>1, <2>4, SameTwice
  <2> QED
    BY <2>1, <2>2, <2>5 DEF Settled
<1> QED
  BY <1>1, <1>2

\* An entry to send is not None.
LEMMA SentEntry ==
  ASSUME NEW s \in Seq(Entries), NEW a \in Nat, a < Len(s)
  PROVE  EntryData(s, a) # None
<1>1. s[a + 1] \in Entries /\ PrevTerm(s, a) \in Nat
  BY PrevTermType, BoundsAssumption
<1> QED
  BY <1>1, NoneAssumption, BoundsAssumption DEF EntryData, Entries

\* An entry is sent as it is in a longer log.
LEMMA EntryDataStays ==
  ASSUME NEW s \in Seq(Entries), NEW r \in Seq(Entries), Same(s, r, Len(s)), NEW a \in Nat, a < Len(s)
  PROVE  EntryData(r, a) = EntryData(s, a) /\ EntryData(s, a) # None
<1>1. a < Len(r) /\ a + 1 \in 1 .. Len(s) /\ s[a + 1] = r[a + 1]
  BY DEF Same
<1>2. PrevTerm(r, a) = PrevTerm(s, a)
  <2>1. CASE a = 0
    BY <2>1 DEF PrevTerm
  <2>2. CASE a > 0
    <3>1. a \in 1 .. Len(s) /\ a \in 1 .. Len(r) /\ s[a] = r[a]
      BY <1>1, <2>2 DEF Same
    <3> QED
      BY <3>1 DEF PrevTerm
  <2> QED
    BY <2>1, <2>2
<1>3. EntryData(s, a) = EntryData(r, a)
  BY <1>1, <1>2 DEF EntryData
<1>4. EntryData(s, a) # None
  BY SentEntry
<1> QED
  BY <1>3, <1>4
-----------------------------------------------------------------------------
(* The logs and the books from step to step. *)

\* A step that only moves offices to higher terms, where they are no leaders.
Moved ==
  /\ UNCHANGED <<log, elected>>
  /\ \A y \in Nodes : /\ term[y] <= term'[y]
                      /\ role'[y] # "Panicked"
                      /\ term'[y] = term[y] => (role'[y] = "Leader" <=> role[y] = "Leader")
                      /\ term'[y] # term[y] => role'[y] # "Leader"
                      /\ role'[y] = "Candidate" => term'[y] # term[y] \/ role[y] = "Candidate"

\* A step that leaves the logs alone keeps what is said of logs and books.
LEMMA CoreMoved ==
  ASSUME TypeInv, TypeInv', NEW H \in Books, NEW A \in Counts, Core(H, A), Moved
  PROVE  Core(H, A)'
<1> USE DEF Core
<1>1. \A y \in Nodes : term[y] \in Nat /\ term'[y] \in Nat
  BY AtHand, AtHandNext
<1>2. Terms \subseteq Nat /\ \A t \in Terms : Len(H[t]) \in Nat /\ \A x \in Nodes : A[x][t] \in Nat
  BY AtHand, BookAtHand
<1>3. Grown(H, A, H, A)
  BY NotGrown DEF Moved
<1>4. \A t \in Terms, k \in Nat : Lost(A, t, k) => Lost(A, t, k)'
  BY <1>3, LostStays
<1>5. Leaders(H, A)'
  <2>1. ASSUME NEW n \in Nodes, role'[n] = "Leader"
        PROVE  <<n, term'[n]>> \in elected' /\ H[term'[n]] = log'[n] /\ A[n][term'[n]] = Len(log'[n])
    BY <2>1 DEF Moved, Leaders
  <2>2. ASSUME NEW n \in Nodes, NEW t \in Terms, <<n, t>> \in elected'
        PROVE  t <= term'[n] /\ (term'[n] = t => role'[n] = "Leader")
    <3>1. t <= term[n] /\ (term[n] = t => role[n] = "Leader")
      BY <2>2 DEF Moved, Leaders
    <3> QED
      BY <1>1, <1>2, <3>1 DEF Moved
  <2>3. \A t \in Terms : H[t] # <<>> => Won(t)'
    BY DEF Moved, Leaders, Won
  <2>4. \A n \in Nodes : role'[n] # "Panicked"
    BY DEF Moved
  <2> QED
    BY <2>1, <2>2, <2>3, <2>4 DEF Leaders
<1>6. Logs(H, A)'
  <2>1. SUFFICES ASSUME NEW n \in Nodes, NEW i \in 1 .. Len(log[n])
                 PROVE  /\ Same(log[n], H[log[n][i].term], i)
                        /\ log[n][i].term <= term'[n]
                        /\ role'[n] = "Candidate" => log[n][i].term < term'[n]
                        /\ log[n][i].term = term'[n] => i <= A[n][term'[n]]
    BY DEF Logs, Moved
  <2>2. /\ Same(log[n], H[log[n][i].term], i)
        /\ log[n][i].term <= term[n]
        /\ role[n] = "Candidate" => log[n][i].term < term[n]
        /\ log[n][i].term = term[n] => i <= A[n][term[n]]
    BY DEF Logs
  <2>3. log[n][i].term \in Nat /\ term[n] <= term'[n]
    BY <1>2, AtHand DEF Moved
  <2> QED
    BY <1>1, <2>2, <2>3 DEF Moved
<1>7. Held(H, A)'
  <2>1. SUFFICES ASSUME NEW x \in Nodes, NEW t \in Terms
                 PROVE  /\ A[x][t] <= Len(H[t])
                        /\ A[x][t] > 0 => t <= term'[x]
                        /\ A[x][t] > 0 /\ term'[x] = t => Len(log[x]) = A[x][t] /\ Same(log[x], H[t], A[x][t])
    BY DEF Held, Moved
  <2>2. term[x] <= term'[x]
    BY DEF Moved
  <2> QED
    BY <1>1, <1>2, <2>2 DEF Held
<1>8. Kept(H, A)'
  <2>1. SUFFICES ASSUME NEW x \in Nodes, NEW t \in Terms, NEW k \in 1 .. A[x][t], H[t][k].term = t
                 PROVE  Lost(A, t, k)' \/ Same(log[x], H[t], k)
    BY DEF Kept, Moved
  <2>2. k \in Nat
    OBVIOUS
  <2> QED
    BY <1>4, <2>1, <2>2 DEF Kept
<1>9. Complete(H, A)'
  <2>1. SUFFICES ASSUME NEW t \in Terms, NEW u \in Terms, t < u, Won(u),
                        NEW k \in 1 .. Len(H[t]), H[t][k].term = t
                 PROVE  Lost(A, t, k)' \/ Same(H[u], H[t], k)
    BY DEF Complete, Moved, Won
  <2>2. k \in Nat
    OBVIOUS
  <2> QED
    BY <1>4, <2>1, <2>2 DEF Complete
<1>10. Bound(H)'
  BY DEF Bound
<1> QED
  BY <1>5, <1>6, <1>7, <1>8, <1>9, <1>10
-----------------------------------------------------------------------------
(* A leader, new or not, makes entries. *)

\* n, a leader or a candidate that wins, adds the entries es of its term to its log.
Extended(H, A, H2, A2, n, es) ==
  /\ role[n] \in {"Leader", "Candidate"}
  /\ role' = [role EXCEPT ![n] = "Leader"]
  /\ term' = term
  /\ elected' = elected \cup {<<n, term[n]>>}
  /\ log' = [log EXCEPT ![n] = @ \o es]
  /\ \A i \in 1 .. Len(es) : es[i].term = term[n]
  /\ H2 = [H EXCEPT ![term[n]] = log[n] \o es]
  /\ A2 = [A EXCEPT ![n][term[n]] = Len(log[n] \o es)]

\* What it means that the leader of a term, or who becomes it, writes es to its log.
LEMMA ExtendedFacts ==
  ASSUME TypeInv, TypeInv', NEW H \in Books, NEW A \in Counts, NEW H2 \in Books, NEW A2 \in Counts,
         NEW n \in Nodes, NEW es \in Seq(Entries), Core(H, A), Extended(H, A, H2, A2, n, es),
         ElectedOncePerTerm'
  PROVE  /\ term[n] \in Terms
         /\ \A m \in Nodes : <<m, term[n]>> \in elected' => m = n
         /\ role[n] = "Candidate" => H[term[n]] = <<>> /\ \A x \in Nodes : A[x][term[n]] = 0
         /\ role[n] = "Leader" => H[term[n]] = log[n]
         /\ log'[n] = log[n] \o es /\ Len(log'[n]) = Len(log[n]) + Len(es) /\ Len(es) \in Nat
         /\ H2[term[n]] = log'[n] /\ A2[n][term[n]] = Len(log'[n])
         /\ \A m \in Nodes : m # n => log'[m] = log[m] /\ role'[m] = role[m]
         /\ \A t \in Terms : t # term[n] => H2[t] = H[t]
         /\ \A m \in Nodes, t \in Terms : m # n \/ t # term[n] => A2[m][t] = A[m][t]
         /\ \A i \in 1 .. Len(log[n]) : log'[n][i] = log[n][i]
         /\ \A i \in 1 .. Len(log'[n]) : i > Len(log[n]) => log'[n][i].term = term[n]
         /\ Grown(H, A, H2, A2)
<1> DEFINE t == term[n]
<1>1. log \in [Nodes -> Seq(Entries)] /\ role \in [Nodes -> Roles]
  BY DEF TypeInv, LogType, ElectionType
<1>2. role'[n] = "Leader" /\ term'[n] = t
  BY <1>1 DEF Extended
<1>3. t \in Terms
  BY <1>2, AtHandNext
<1>4. <<n, t>> \in elected' /\ elected \subseteq elected'
  BY DEF Extended
<1>5. \A m \in Nodes : <<m, t>> \in elected' => m = n
  BY <1>4 DEF ElectedOncePerTerm
<1>6. log'[n] = log[n] \o es /\ Len(log'[n]) = Len(log[n]) + Len(es) /\ Len(es) \in Nat
  BY <1>1 DEF Extended
<1>7. H2[t] = log'[n] /\ \A u \in Terms : u # t => H2[u] = H[u]
  BY <1>3, <1>6 DEF Extended, Books
<1>8. A2[n][t] = Len(log'[n]) /\ \A m \in Nodes, u \in Terms : m # n \/ u # t => A2[m][u] = A[m][u]
  BY <1>3, <1>6 DEF Extended, Counts
<1>9. \A m \in Nodes : m # n => log'[m] = log[m] /\ role'[m] = role[m]
  BY <1>1 DEF Extended
<1>10. \A i \in 1 .. Len(log[n]) : log'[n][i] = log[n][i]
  BY <1>1, <1>6
<1>11. \A i \in 1 .. Len(log'[n]) : i > Len(log[n]) => log'[n][i].term = t
  <2> SUFFICES ASSUME NEW i \in 1 .. Len(log'[n]), i > Len(log[n]) PROVE log'[n][i].term = t
    OBVIOUS
  <2>1. i - Len(log[n]) \in 1 .. Len(es) /\ (log[n] \o es)[i] = es[i - Len(log[n])]
    BY <1>1, <1>6
  <2> QED
    BY <1>6, <2>1 DEF Extended
<1>12. \A x \in Nodes, u \in Terms : A[x][u] \in Nat /\ Len(H[u]) \in Nat /\ H[u] \in Seq(Entries)
  BY BookAtHand
<1>13. role[n] = "Candidate" => H[t] = <<>> /\ \A x \in Nodes : A[x][t] = 0
  <2> SUFFICES ASSUME role[n] = "Candidate" PROVE H[t] = <<>> /\ \A x \in Nodes : A[x][t] = 0
    OBVIOUS
  <2>1. ASSUME NEW m \in Nodes, <<m, t>> \in elected PROVE FALSE
    <3>1. m = n
      BY <1>4, <1>5, <2>1
    <3>2. role[n] = "Leader"
      BY <1>3, <2>1, <3>1 DEF Core, Leaders
    <3> QED
      BY <3>2
  <2>2. H[t] = <<>>
    BY <1>3, <2>1 DEF Core, Leaders, Won
  <2>3. \A x \in Nodes : A[x][t] <= 0
    BY <1>3, <2>2 DEF Core, Held
  <2> QED
    BY <1>3, <1>12, <2>2, <2>3
<1>14. role[n] = "Leader" => H[t] = log[n] /\ A[n][t] = Len(log[n])
  BY DEF Core, Leaders
<1>15. Grown(H, A, H2, A2)
  <2>1. \A u \in Terms : Same(H[u], H2[u], Len(H[u]))
    <3> SUFFICES ASSUME NEW u \in Terms PROVE Same(H[u], H2[u], Len(H[u]))
      OBVIOUS
    <3>1. CASE u # t
      BY <1>7, <1>12, <3>1, SameSelf
    <3>2. CASE u = t /\ role[n] = "Leader"
      <4>1. Len(log[n]) \in Nat
        BY <1>1
      <4> QED
        BY <1>6, <1>7, <1>10, <1>14, <3>2, <4>1 DEF Same
    <3>3. CASE u = t /\ role[n] = "Candidate"
      <4>1. H[u] = <<>> /\ Len(H[u]) = 0 /\ Len(log'[n]) \in Nat
        BY <1>13, <3>3, AtHandNext
      <4> QED
        BY <1>7, <3>3, <4>1 DEF Same
    <3> QED
      BY <3>1, <3>2, <3>3 DEF Extended
  <2>2. \A y \in Nodes, u \in Terms : A[y][u] <= A2[y][u] /\ (A2[y][u] # A[y][u] => term[y] <= u)
    <3> SUFFICES ASSUME NEW y \in Nodes, NEW u \in Terms
                 PROVE  A[y][u] <= A2[y][u] /\ (A2[y][u] # A[y][u] => term[y] <= u)
      OBVIOUS
    <3>1. CASE y # n \/ u # t
      BY <1>8, <1>12, <3>1
    <3>2. CASE y = n /\ u = t
      <4>1. A[n][t] <= Len(log[n]) \/ A[n][t] = 0
        BY <1>12, <1>13, <1>14, <3>2 DEF Extended
      <4>2. Len(log[n]) \in Nat /\ term[n] \in Nat
        BY AtHand
      <4> QED
        BY <1>3, <1>6, <1>8, <1>12, <3>2, <4>1, <4>2
    <3> QED
      BY <3>1, <3>2
  <2>3. \A y \in Nodes : term[y] <= term'[y]
    BY AtHand DEF Extended
  <2> QED
    BY <1>4, <2>1, <2>2, <2>3 DEF Grown
<1> QED
  BY <1>3, <1>5, <1>6, <1>7, <1>8, <1>9, <1>10, <1>11, <1>13, <1>14, <1>15

\* Then all that is said of logs and books still holds: a new leader has been voted for by a
\* majority, and has what those took over unless it is lost.
LEMMA CoreExtended ==
  ASSUME MajoritiesMeet, NEW v \in Ballots, Explained(v), Explained(v)',
         NEW H \in Books, NEW A \in Counts, NEW H2 \in Books, NEW A2 \in Counts,
         NEW n \in Nodes, NEW es \in Seq(Entries), Core(H, A), Extended(H, A, H2, A2, n, es),
         role[n] = "Candidate" =>
           \A x \in Nodes, u \in Terms : v[x][term[n]] = n /\ u < term[n] =>
             \A k \in 1 .. A[x][u] : H[u][k].term = u => Lost(A, u, k) \/ Same(log[n], H[u], k)
  PROVE  Core(H2, A2)'
<1> DEFINE t == term[n]
<1>a. TypeInv /\ TypeInv'
  BY DEF Explained
<1>b. ElectedOncePerTerm'
  BY WinnerNext
<1>1. /\ t \in Terms
      /\ \A m \in Nodes : <<m, t>> \in elected' => m = n
      /\ role[n] = "Candidate" => H[t] = <<>> /\ \A x \in Nodes : A[x][t] = 0
      /\ role[n] = "Leader" => H[t] = log[n]
      /\ H2[t] = log'[n] /\ A2[n][t] = Len(log'[n])
      /\ \A m \in Nodes : m # n => log'[m] = log[m] /\ role'[m] = role[m]
      /\ \A u \in Terms : u # t => H2[u] = H[u]
      /\ \A m \in Nodes, u \in Terms : m # n \/ u # t => A2[m][u] = A[m][u]
  BY <1>a, <1>b, ExtendedFacts
<1>2. /\ Len(log[n]) <= Len(log'[n]) /\ \A i \in 1 .. Len(log[n]) : log'[n][i] = log[n][i]
      /\ \A i \in 1 .. Len(log'[n]) : i > Len(log[n]) => log'[n][i].term = t
  BY <1>a, <1>b, ExtendedFacts, AtHand
<1>3. Grown(H, A, H2, A2)
  BY <1>a, <1>b, ExtendedFacts
<1>4. \A u \in Terms, k \in Nat : Lost(A, u, k) => Lost(A2, u, k)'
  BY <1>3, <1>a, LostStays
<1>5. /\ Terms \subseteq Nat
      /\ \A m \in Nodes : /\ term[m] \in Nat /\ term'[m] = term[m]
                          /\ Len(log[m]) \in Nat /\ Len(log'[m]) \in Nat
                          /\ \A i \in 1 .. Len(log[m]) : log[m][i].term \in Terms
      /\ \A u \in Terms : /\ Len(H[u]) \in Nat /\ Len(H2[u]) \in Nat
                          /\ \A i \in 1 .. Len(H[u]) : H[u][i].term \in Terms
                          /\ \A i \in 1 .. Len(H2[u]) : H2[u][i].term \in Terms
                          /\ \A m \in Nodes : A[m][u] \in Nat /\ A2[m][u] \in Nat
  BY <1>a, AtHand, AtHandNext, BookAtHand DEF Extended
<1>6. /\ elected' = elected \cup {<<n, t>>} /\ role'[n] = "Leader"
      /\ role[n] \in {"Leader", "Candidate"}
  <2>1. role \in [Nodes -> Roles]
    BY <1>a DEF TypeInv, ElectionType
  <2> QED
    BY <2>1 DEF Extended
<1>7. \A u \in Terms : /\ \A k \in 1 .. Len(H[u]) : H2[u][k] = H[u][k]
                       /\ Len(H[u]) <= Len(H2[u])
                       /\ \A s : \A k \in Int : Same(s, H[u], k) => Same(s, H2[u], k)
                       /\ \A k \in Int : k <= Len(H[u]) => Same(H2[u], H[u], k) /\ Same(H[u], H2[u], k)
  BY <1>3, BookStays
<1> HIDE DEF t
<1>16. ASSUME NEW m \in Nodes
       PROVE  /\ Len(log[m]) <= Len(log'[m])
              /\ \A i \in 1 .. Len(log[m]) : log'[m][i] = log[m][i]
              /\ m = n \/ log'[m] = log[m]
  BY <1>1, <1>2, <1>5
<1>8. Leaders(H2, A2)'
  <2>1. ASSUME NEW m \in Nodes, role'[m] = "Leader"
        PROVE  /\ <<m, term'[m]>> \in elected' /\ H2[term'[m]] = log'[m]
               /\ A2[m][term'[m]] = Len(log'[m])
    <3>1. CASE m = n
      BY <1>1, <1>5, <1>6, <3>1 DEF t
    <3>2. CASE m # n
      <4>1. role[m] = "Leader" /\ log'[m] = log[m]
        BY <1>1, <2>1, <3>2
      <4>2. <<m, term[m]>> \in elected /\ H[term[m]] = log[m] /\ A[m][term[m]] = Len(log[m])
        BY <4>1 DEF Core, Leaders
      <4>3. term[m] \in Terms /\ term[m] # t
        BY <1>1, <1>6, <1>a, <3>2, <4>1, <4>2, AtHand
      <4>4. H2[term[m]] = H[term[m]] /\ A2[m][term[m]] = A[m][term[m]]
        BY <1>1, <4>3
      <4> QED
        BY <1>5, <1>6, <4>1, <4>2, <4>4
    <3> QED
      BY <3>1, <3>2
  <2>2. ASSUME NEW m \in Nodes, NEW u \in Terms, <<m, u>> \in elected'
        PROVE  u <= term'[m] /\ (term'[m] = u => role'[m] = "Leader")
    <3>1. CASE m = n
      <4>1. <<m, u>> \in elected => u <= term[n]
        BY <3>1 DEF Core, Leaders
      <4> QED
        BY <1>1, <1>5, <1>6, <2>2, <3>1, <4>1 DEF t
    <3>2. CASE m # n
      <4>1. <<m, u>> \in elected
        BY <1>6, <2>2, <3>2
      <4> QED
        BY <1>1, <1>5, <3>2, <4>1 DEF Core, Leaders
    <3> QED
      BY <3>1, <3>2
  <2>3. ASSUME NEW u \in Terms, H2[u] # <<>> PROVE Won(u)'
    <3>1. CASE u = t
      BY <1>6, <3>1 DEF Won
    <3>2. CASE u # t
      <4>1. Won(u)
        BY <1>1, <2>3, <3>2 DEF Core, Leaders
      <4> QED
        BY <1>6, <4>1 DEF Won
    <3> QED
      BY <3>1, <3>2
  <2>4. ASSUME NEW m \in Nodes PROVE role'[m] # "Panicked"
    BY <1>1, <1>6 DEF Core, Leaders
  <2> QED
    BY <2>1, <2>2, <2>3, <2>4 DEF Leaders
<1>9. ASSUME NEW m \in Nodes, NEW i \in 1 .. Len(log'[m])
      PROVE  /\ Same(log'[m], H2[log'[m][i].term], i)
             /\ log'[m][i].term <= term[m]
             /\ role'[m] = "Candidate" => log'[m][i].term < term[m]
             /\ log'[m][i].term = term[m] => i <= A2[m][term[m]]
  <2>1. CASE i <= Len(log[m])
    <3>1. i \in 1 .. Len(log[m]) /\ i \in Int
      BY <1>5, <2>1
    <3>2. log'[m][i] = log[m][i] /\ Len(log[m]) <= Len(log'[m])
      BY <1>1, <1>2, <1>5, <3>1
    <3> DEFINE u == log[m][i].term
    <3>3. /\ Same(log[m], H[u], i) /\ u <= term[m]
          /\ role[m] = "Candidate" => u < term[m]
          /\ u = term[m] => i <= A[m][term[m]]
      BY <3>1 DEF Core, Logs
    <3>4. u \in Terms
      BY <1>5, <3>1
    <3> HIDE DEF u
    <3>5. Same(log[m], H2[u], i)
      BY <1>7, <3>1, <3>3, <3>4
    <3>6. Same(log'[m], H2[u], i)
      <4>1. \A j \in 1 .. i : log'[m][j] = log[m][j]
        <5> SUFFICES ASSUME NEW j \in 1 .. i PROVE log'[m][j] = log[m][j]
          OBVIOUS
        <5>1. j \in 1 .. Len(log[m])
          BY <1>5, <3>1
        <5> QED
          BY <1>16, <5>1
      <4> QED
        BY <1>5, <3>1, <3>2, <3>5, <4>1 DEF Same
    <3>7. u = term[m] => i <= A2[m][term[m]]
      BY <1>3, <1>5, <3>1, <3>3, <3>4 DEF Grown
    <3>8. role'[m] = "Candidate" => u < term[m]
      BY <1>1, <1>6, <3>3
    <3> QED
      BY <3>2, <3>3, <3>6, <3>7, <3>8 DEF u
  <2>2. CASE i > Len(log[m])
    <3>1. m = n /\ t = term[n]
      BY <1>5, <1>16, <2>2 DEF t
    <3>3. log'[n][i].term = t
      BY <1>2, <2>2, <3>1
    <3>2. Same(log'[n], log'[n], i)
      BY <1>5, <3>1, SameSelf
    <3> QED
      BY <1>1, <1>5, <1>6, <3>1, <3>2, <3>3
  <2> QED
    BY <1>5, <2>1, <2>2
<1>10. Logs(H2, A2)'
  BY <1>5, <1>9 DEF Logs
<1>11. Bound(H2)
  <2> SUFFICES ASSUME NEW u \in Terms, NEW i \in 1 .. Len(H2[u])
               PROVE  /\ H2[u][i].term <= u
                      /\ Same(H2[u], H2[H2[u][i].term], i)
                      /\ \A j \in 1 .. i : H2[u][j].term <= H2[u][i].term
    BY DEF Bound
  <2>1. CASE u # t
    <3>0. H2[u] = H[u]
      BY <1>1, <2>1
    <3>1. H2[u] = H[u] /\ H[u][i].term \in Terms /\ i \in Int
      BY <1>5, <3>0
    <3>2. /\ H[u][i].term <= u
          /\ Same(H[u], H[H[u][i].term], i)
          /\ \A j \in 1 .. i : H[u][j].term <= H[u][i].term
      BY <3>1 DEF Core, Bound
    <3> QED
      BY <1>7, <3>1, <3>2
  <2>2. CASE u = t
    <3>1. i \in 1 .. Len(log'[n]) /\ term[n] = t
      BY <1>1, <2>2 DEF t
    <3>2. H2[u][i].term <= u /\ Same(H2[u], H2[H2[u][i].term], i)
      BY <1>1, <1>9, <2>2, <3>1
    <3>3. ASSUME NEW j \in 1 .. i PROVE log'[n][j].term <= log'[n][i].term
      <4>1. j \in 1 .. Len(log'[n])
        BY <1>5, <3>1
      <4>2. CASE i <= Len(log[n])
        <5>1. i \in 1 .. Len(log[n]) /\ j \in 1 .. Len(log[n])
          BY <1>5, <3>1, <4>1, <4>2
        <5>2. log[n][j].term <= log[n][i].term
          BY <1>a, <5>1, LogRises DEF Core
        <5> QED
          BY <1>2, <5>1, <5>2
      <4>3. CASE i > Len(log[n])
        <5>1. log'[n][i].term = t
          BY <1>2, <3>1, <4>3
        <5> QED
          BY <1>9, <3>1, <4>1, <5>1
      <4> QED
        BY <1>5, <3>1, <4>2, <4>3
    <3> QED
      BY <1>1, <2>2, <3>2, <3>3
  <2> QED
    BY <2>1, <2>2
<1>12. Held(H2, A2)'
  <2> SUFFICES ASSUME NEW x \in Nodes, NEW u \in Terms
               PROVE  /\ A2[x][u] <= Len(H2[u])
                      /\ A2[x][u] > 0 => u <= term[x]
                      /\ A2[x][u] > 0 /\ term[x] = u =>
                           Len(log'[x]) = A2[x][u] /\ Same(log'[x], H2[u], A2[x][u])
    BY <1>5 DEF Held
  <2>1. CASE x = n /\ u = t
    <3>1. Same(log'[n], log'[n], Len(log'[n]))
      BY <1>5, SameSelf
    <3> QED
      BY <1>1, <1>5, <2>1, <3>1 DEF t
  <2>2. CASE x # n \/ u # t
    <3>1. A2[x][u] = A[x][u]
      BY <1>1, <2>2
    <3>2. /\ A[x][u] <= Len(H[u])
          /\ A[x][u] > 0 => u <= term[x]
          /\ A[x][u] > 0 /\ term[x] = u => Len(log[x]) = A[x][u] /\ Same(log[x], H[u], A[x][u])
      BY DEF Core, Held
    <3>3. A2[x][u] <= Len(H2[u])
      BY <1>5, <1>7, <3>1, <3>2
    <3>4. ASSUME A2[x][u] > 0, term[x] = u
          PROVE  Len(log'[x]) = A2[x][u] /\ Same(log'[x], H2[u], A2[x][u])
      <4>1. x # n
        BY <2>2, <3>4 DEF t
      <4>2. log'[x] = log[x] /\ A[x][u] \in Int
        BY <1>1, <1>5, <4>1
      <4> QED
        BY <1>7, <3>1, <3>2, <3>4, <4>2
    <3> QED
      BY <3>1, <3>2, <3>3, <3>4
  <2> QED
    BY <2>1, <2>2
<1>13. Kept(H2, A2)'
  <2> SUFFICES ASSUME NEW x \in Nodes, NEW u \in Terms, NEW k \in 1 .. A2[x][u], H2[u][k].term = u
               PROVE  Lost(A2, u, k)' \/ Same(log'[x], H2[u], k)
    BY DEF Kept
  <2>1. CASE x = n /\ u = t
    <3>1. k <= Len(log'[n]) /\ k \in Int
      BY <1>1, <1>5, <2>1
    <3> QED
      BY <1>1, <1>5, <2>1, <3>1, SameSelf
  <2>2. CASE x # n \/ u # t
    <3>1. A2[x][u] = A[x][u] /\ A[x][u] <= Len(H[u])
      BY <1>1, <2>2 DEF Core, Held
    <3>2. k \in 1 .. A[x][u] /\ k \in 1 .. Len(H[u]) /\ k \in Nat
      BY <1>5, <3>1
    <3>3. H[u][k].term = u
      BY <1>7, <3>2
    <3>4. Lost(A, u, k) \/ Same(log[x], H[u], k)
      BY <3>2, <3>3 DEF Core, Kept
    <3>5. ASSUME Same(log[x], H[u], k) PROVE Same(log'[x], H2[u], k)
      <4>1. Same(log[x], H2[u], k)
        <5>1. k \in Int
          BY <3>2
        <5>2. Len(H[u]) \in Int /\ Len(H2[u]) \in Int
          BY <1>5
        <5>3. Len(H[u]) <= Len(H2[u]) /\ \A j \in 1 .. Len(H[u]) : H2[u][j] = H[u][j]
          BY <1>7
        <5> QED
          BY <3>5, <5>1, <5>2, <5>3 DEF Same
      <4>2. Len(log[x]) <= Len(log'[x]) /\ \A j \in 1 .. Len(log[x]) : log'[x][j] = log[x][j]
        BY <1>1, <1>2, <1>5
      <4> QED
        BY <1>5, <3>2, <4>1, <4>2 DEF Same
    <3> QED
      BY <1>4, <3>2, <3>4, <3>5
  <2> QED
    BY <2>1, <2>2
<1>14. Complete(H2, A2)'
  <2> SUFFICES ASSUME NEW u \in Terms, NEW w \in Terms, u < w, Won(w)',
                      NEW k \in 1 .. Len(H2[u]), H2[u][k].term = u
               PROVE  Lost(A2, u, k)' \/ Same(H2[w], H2[u], k)
    BY DEF Complete
  <2>0. k \in Nat
    OBVIOUS
  <2>1. CASE w # t
    <3>1. Won(w)
      BY <1>6, <2>1 DEF Won
    <3>2. CASE k <= Len(H[u])
      <4>1. k \in 1 .. Len(H[u]) /\ H[u][k].term = u
        BY <1>5, <1>7, <2>0, <3>2
      <4>2. Lost(A, u, k) \/ Same(H[w], H[u], k)
        BY <3>1, <4>1 DEF Core, Complete
      <4>3. ASSUME Same(H[w], H[u], k) PROVE Same(H2[w], H2[u], k)
        <5>1. Same(H2[w], H[w], k)
          BY <1>7, <2>0, <4>3 DEF Same
        <5>2. Same(H[u], H2[u], k)
          BY <1>7, <2>0, <3>2
        <5> QED
          BY <4>3, <5>1, <5>2, SameTwice
      <4> QED
        BY <1>4, <2>0, <4>2, <4>3
    <3>3. CASE k > Len(H[u])
      <4>1. u = t
        BY <1>1, <2>0, <3>3
      <4>2. PICK m \in Nodes : <<m, w>> \in elected
        BY <3>1 DEF Won
      <4>3. Maj(Voters(v, m, w))
        BY <4>2 DEF Explained, Explains, Maj
      <4>4. ASSUME NEW y \in Voters(v, m, w) PROVE u < term[y] /\ A2[y][u] < k
        <5>1. y \in Nodes /\ v[y][w] = m
          BY DEF Voters
        <5>2. term[y] >= w
          BY <5>1, NodesAssumption DEF Explained, Explains
        <5>3. y # n
          BY <1>5, <4>1, <5>1, <5>2 DEF t
        <5>4. A2[y][u] = A[y][u] /\ A[y][u] <= Len(H[u])
          BY <1>1, <5>1, <5>3 DEF Core, Held
        <5> QED
          BY <1>5, <2>0, <3>3, <5>1, <5>2, <5>4
      <4>5. Voters(v, m, w) \in SUBSET Nodes /\ \A y \in Nodes : term'[y] = term[y]
        BY <1>5 DEF Voters
      <4>6. Lost(A2, u, k)'
        BY <4>3, <4>4, <4>5 DEF Lost, Maj
      <4> QED
        BY <4>6
    <3> QED
      BY <1>5, <2>0, <3>2, <3>3
  <2>2. CASE w = t
    <3>1. H2[u] = H[u] /\ u # t
      BY <1>1, <1>5, <2>2
    <3>2. k \in 1 .. Len(H[u]) /\ H[u][k].term = u
      BY <3>1
    <3>3. CASE role[n] = "Leader"
      <4>1. Won(t)
        BY <3>3 DEF Core, Leaders, Won, t
      <4>2. Lost(A, u, k) \/ Same(H[t], H[u], k)
        BY <1>1, <2>2, <3>2, <4>1 DEF Core, Complete
      <4>3. ASSUME Same(H[t], H[u], k) PROVE Same(H2[t], H2[u], k)
        <5>1. Same(H2[t], H[t], k)
          BY <1>1, <1>7, <2>0, <4>3 DEF Same
        <5> QED
          BY <3>1, <4>3, <5>1, SameTwice
      <4> QED
        BY <1>4, <2>0, <2>2, <4>2, <4>3
    <3>4. CASE role[n] = "Candidate"
      <4>1. Maj(Voters(v, n, t))
        BY <1>1, <1>6 DEF Explained, Explains, Maj
      <4>2. Voters(v, n, t) \in SUBSET Nodes /\ \A y \in Voters(v, n, t) : y \in Nodes /\ v[y][t] = n
        BY DEF Voters
      <4>3. ASSUME NEW y \in Voters(v, n, t) PROVE u < term[y]
        <5>1. term[y] >= t
          BY <1>1, <4>2, NodesAssumption DEF Explained, Explains
        <5> QED
          BY <1>5, <2>2, <4>2, <5>1
      <4>4. CASE \A y \in Voters(v, n, t) : A[y][u] < k
        <5>1. Lost(A, u, k)
          BY <4>1, <4>2, <4>3, <4>4 DEF Lost
        <5> QED
          BY <1>4, <2>0, <5>1
      <4>5. CASE \E y \in Voters(v, n, t) : ~(A[y][u] < k)
        <5>1. PICK y \in Voters(v, n, t) : ~(A[y][u] < k)
          BY <4>5
        <5>2. k \in 1 .. A[y][u] /\ v[y][t] = n
          BY <1>5, <2>0, <4>2, <5>1
        <5>3. Lost(A, u, k) \/ Same(log[n], H[u], k)
          BY <2>2, <3>2, <3>4, <4>2, <5>2 DEF t
        <5>4. ASSUME Same(log[n], H[u], k) PROVE Same(H2[t], H2[u], k)
          BY <1>1, <1>2, <1>5, <2>0, <3>1, <5>4 DEF Same
        <5> QED
          BY <1>4, <2>0, <2>2, <5>3, <5>4
      <4> QED
        BY <4>4, <4>5
    <3> QED
      BY <1>6, <3>3, <3>4
  <2> QED
    BY <2>1, <2>2
<1>15. Bound(H2)'
  BY <1>11 DEF Bound
<1> QED
  BY <1>8, <1>10, <1>12, <1>13, <1>14, <1>15 DEF Core
-----------------------------------------------------------------------------
(* An office takes over an entry. *)

\* An index in the chain is not before anything the log of x shares with the leader's.
LEMMA NoLoss ==
  ASSUME TypeInv, NEW H \in Books, NEW A \in Counts, Core(H, A), NEW x \in Nodes, NEW u \in Terms,
         NEW a \in Nat, Fine(H, A, x, u, a), term[x] <= u, NEW l \in Nat, Same(log[x], H[u], l)
  PROVE  l <= a + 1
<1>1. A[x][u] \in Nat /\ Len(H[u]) \in Nat /\ term[x] \in Nat /\ u \in Nat /\ Len(log[x]) \in Nat
  BY AtHand, BookAtHand
<1>2. CASE A[x][u] > 0
  <2>1. u <= term[x] /\ (term[x] = u => Len(log[x]) = A[x][u])
    BY <1>2 DEF Core, Held
  <2>2. Len(log[x]) = A[x][u] /\ l <= Len(log[x])
    BY <1>1, <2>1 DEF Same
  <2>3. a = A[x][u] \/ a + 1 = A[x][u]
    BY <1>2 DEF Fine
  <2> QED
    BY <1>1, <2>2, <2>3
<1>3. CASE A[x][u] = 0 /\ term[x] = u
  BY <1>3 DEF Fine
<1>4. CASE A[x][u] = 0 /\ term[x] < u
  <2>1. CASE l = 0
    BY <2>1
  <2>2. CASE l > 0
    <3>0. l <= Len(log[x]) /\ l <= Len(H[u]) /\ \A i \in 1 .. l : log[x][i] = H[u][i]
      BY DEF Same
    <3>1. l \in 1 .. Len(log[x]) /\ l \in 1 .. Len(H[u]) /\ log[x][l] = H[u][l]
      BY <1>1, <2>2, <3>0
    <3>2. log[x][l].term <= term[x] /\ log[x][l].term \in Nat
      BY <3>1, AtHand DEF Core, Logs
    <3>3. H[u][l].term < u
      BY <1>1, <1>4, <3>1, <3>2
    <3> QED
      BY <1>4, <3>1, <3>3 DEF Fine
  <2> QED
    BY <2>1, <2>2
<1>5. (A[x][u] > 0 \/ A[x][u] = 0) /\ (term[x] < u \/ term[x] = u)
  BY <1>1
<1> QED
  BY <1>2, <1>3, <1>4, <1>5

\* x takes the entry a of the leader of u over: what it had from there on is gone.
Adopted(H, A, A2, x, u, a) ==
  /\ a < Len(H[u]) /\ term[x] <= u /\ Same(log[x], H[u], a) /\ Fine(H, A, x, u, a)
  /\ \E m \in Nodes : m # x /\ <<m, u>> \in elected
  /\ \A y \in Nodes : y # x => log'[y] = log[y]
  /\ Len(log'[x]) = a + 1 /\ Same(log'[x], H[u], a + 1)
  /\ A2 = [A EXCEPT ![x][u] = a + 1]
  /\ term' = [term EXCEPT ![x] = u] /\ role' = [role EXCEPT ![x] = "Follower"]
  /\ elected' = elected

\* What it means that x takes over the entry a of the leader of u.
LEMMA AdoptedFacts ==
  ASSUME TypeInv, NEW H \in Books, NEW A \in Counts, NEW A2 \in Counts,
         NEW x \in Nodes, NEW u \in Terms, NEW a \in Nat, Core(H, A), Adopted(H, A, A2, x, u, a)
  PROVE  /\ A2[x][u] = a + 1 /\ A[x][u] <= a + 1
         /\ \A y \in Nodes, t \in Terms : y # x \/ t # u => A2[y][t] = A[y][t]
         /\ term'[x] = u /\ role'[x] = "Follower"
         /\ \A y \in Nodes : y # x => term'[y] = term[y] /\ role'[y] = role[y]
         /\ Grown(H, A, H, A2)
<1>1. A2[x][u] = a + 1 /\ \A y \in Nodes, t \in Terms : y # x \/ t # u => A2[y][t] = A[y][t]
  BY DEF Adopted, Counts
<1>2. /\ term'[x] = u /\ role'[x] = "Follower"
      /\ \A y \in Nodes : y # x => term'[y] = term[y] /\ role'[y] = role[y]
  BY DEF Adopted, TypeInv, ElectionType
<1>3. \A y \in Nodes, t \in Terms : A[y][t] \in Nat /\ Len(H[t]) \in Nat /\ term[y] \in Nat /\ t \in Nat
  BY AtHand, BookAtHand
<1>4. A[x][u] <= a + 1
  <2>1. A[x][u] > 0 => a = A[x][u] \/ a + 1 = A[x][u]
    BY DEF Adopted, Fine
  <2> QED
    BY <1>3, <2>1
<1>5. Grown(H, A, H, A2)
  <2>1. \A t \in Terms : Same(H[t], H[t], Len(H[t]))
    BY <1>3, SameSelf
  <2>2. \A y \in Nodes, t \in Terms : A[y][t] <= A2[y][t] /\ (A2[y][t] # A[y][t] => term[y] <= t)
    BY <1>1, <1>3, <1>4 DEF Adopted
  <2>3. \A y \in Nodes : term[y] <= term'[y]
    BY <1>2, <1>3 DEF Adopted
  <2> QED
    BY <2>1, <2>2, <2>3 DEF Grown, Adopted
<1> QED
  BY <1>1, <1>2, <1>4, <1>5

\* What it gives up by that was nothing chosen.
LEMMA CoreAdopted ==
  ASSUME TypeInv, TypeInv', ElectedOncePerTerm,
         NEW H \in Books, NEW A \in Counts, NEW A2 \in Counts,
         NEW x \in Nodes, NEW u \in Terms, NEW a \in Nat, Core(H, A), Adopted(H, A, A2, x, u, a)
  PROVE  Core(H, A2)'
<1>1. A2[x][u] = a + 1 /\ \A y \in Nodes, t \in Terms : y # x \/ t # u => A2[y][t] = A[y][t]
  BY AdoptedFacts
<1>2. /\ term'[x] = u /\ role'[x] = "Follower"
      /\ \A y \in Nodes : y # x => term'[y] = term[y] /\ role'[y] = role[y]
  BY AdoptedFacts
<1>3. Grown(H, A, H, A2)
  BY AdoptedFacts
<1>4. \A t \in Terms, k \in Nat : Lost(A, t, k) => Lost(A2, t, k)'
  BY <1>3, LostStays
<1>5. /\ a + 1 \in 1 .. Len(H[u]) /\ term[x] <= u /\ Same(log[x], H[u], a)
      /\ \A y \in Nodes : y # x => log'[y] = log[y]
      /\ Len(log'[x]) = a + 1 /\ Same(log'[x], H[u], a + 1) /\ elected' = elected
  BY BookAtHand DEF Adopted
<1>6. <<x, u>> \notin elected
  BY DEF Adopted, ElectedOncePerTerm
<1>7. Terms \subseteq Nat /\ \A y \in Nodes : term[y] \in Nat /\ term'[y] \in Nat /\ Len(log[y]) \in Nat
  BY AtHand, AtHandNext
<1>8. \A t \in Terms : /\ Len(H[t]) \in Nat /\ \A y \in Nodes : A[y][t] \in Nat
                       /\ \A i \in 1 .. Len(H[t]) : H[t][i].term \in Terms
  BY BookAtHand
<1>9. Leaders(H, A2)'
  <2>1. ASSUME NEW m \in Nodes, role'[m] = "Leader"
        PROVE  /\ <<m, term'[m]>> \in elected' /\ H[term'[m]] = log'[m]
               /\ A2[m][term'[m]] = Len(log'[m])
    <3>1. m # x /\ role[m] = "Leader" /\ log'[m] = log[m] /\ term'[m] = term[m]
      BY <1>2, <1>5, <2>1
    <3>2. <<m, term[m]>> \in elected /\ H[term[m]] = log[m] /\ A[m][term[m]] = Len(log[m])
      BY <3>1 DEF Core, Leaders
    <3>3. term[m] \in Terms
      BY <3>1, AtHand
    <3>4. A2[m][term[m]] = A[m][term[m]]
      BY <1>1, <3>1, <3>3
    <3> QED
      BY <1>5, <3>1, <3>2, <3>4
  <2>2. ASSUME NEW m \in Nodes, NEW t \in Terms, <<m, t>> \in elected'
        PROVE  t <= term'[m] /\ (term'[m] = t => role'[m] = "Leader")
    <3>1. t <= term[m] /\ (term[m] = t => role[m] = "Leader")
      BY <1>5, <2>2 DEF Core, Leaders
    <3>2. CASE m = x
      <4>1. t # u
        BY <1>5, <1>6, <2>2, <3>2
      <4> QED
        BY <1>2, <1>5, <1>7, <3>1, <3>2, <4>1
    <3>3. CASE m # x
      BY <1>2, <3>1, <3>3
    <3> QED
      BY <3>2, <3>3
  <2>3. \A t \in Terms : H[t] # <<>> => Won(t)'
    BY <1>5 DEF Core, Leaders, Won
  <2>4. \A m \in Nodes : role'[m] # "Panicked"
    BY <1>2 DEF Core, Leaders
  <2> QED
    BY <2>1, <2>2, <2>3, <2>4 DEF Leaders
<1>10. Logs(H, A2)'
  <2> SUFFICES ASSUME NEW n \in Nodes, NEW i \in 1 .. Len(log'[n])
               PROVE  /\ Same(log'[n], H[log'[n][i].term], i)
                      /\ log'[n][i].term <= term'[n]
                      /\ role'[n] = "Candidate" => log'[n][i].term < term'[n]
                      /\ log'[n][i].term = term'[n] => i <= A2[n][term'[n]]
    BY DEF Logs
  <2>1. CASE n = x
    <3>1. i \in 1 .. a + 1 /\ i \in 1 .. Len(H[u])
      BY <1>5, <1>8, <2>1
    <3>2. log'[x][i] = H[u][i] /\ Same(log'[x], H[u], i)
      <4>1. \A j \in 1 .. a + 1 : log'[x][j] = H[u][j]
        BY <1>5 DEF Same
      <4> QED
        BY <1>5, <1>8, <3>1, <4>1 DEF Same
    <3>3. H[u][i].term <= u /\ Same(H[u], H[H[u][i].term], i)
      BY <3>1 DEF Core, Bound
    <3>4. Same(log'[x], H[H[u][i].term], i)
      BY <3>2, <3>3, SameTwice
    <3> QED
      BY <1>1, <1>2, <2>1, <3>1, <3>2, <3>3, <3>4
  <2>2. CASE n # x
    <3>1. log'[n] = log[n] /\ term'[n] = term[n] /\ role'[n] = role[n] /\ i \in 1 .. Len(log[n])
      BY <1>2, <1>5, <2>2
    <3>2. /\ Same(log[n], H[log[n][i].term], i)
          /\ log[n][i].term <= term[n]
          /\ role[n] = "Candidate" => log[n][i].term < term[n]
          /\ log[n][i].term = term[n] => i <= A[n][term[n]]
      BY <3>1 DEF Core, Logs
    <3>3. log[n][i].term \in Terms
      BY <3>1, AtHand
    <3>4. A2[n][log[n][i].term] = A[n][log[n][i].term]
      BY <1>1, <2>2, <3>3
    <3> QED
      BY <3>1, <3>2, <3>4
  <2> QED
    BY <2>1, <2>2
<1>11. Held(H, A2)'
  <2> SUFFICES ASSUME NEW y \in Nodes, NEW t \in Terms
               PROVE  /\ A2[y][t] <= Len(H[t])
                      /\ A2[y][t] > 0 => t <= term'[y]
                      /\ A2[y][t] > 0 /\ term'[y] = t =>
                           Len(log'[y]) = A2[y][t] /\ Same(log'[y], H[t], A2[y][t])
    BY DEF Held
  <2>1. CASE y = x /\ t = u
    BY <1>1, <1>2, <1>5, <1>7, <2>1
  <2>2. CASE y # x \/ t # u
    <3>1. /\ A2[y][t] = A[y][t] /\ A[y][t] <= Len(H[t])
          /\ A[y][t] > 0 => t <= term[y]
          /\ A[y][t] > 0 /\ term[y] = t => Len(log[y]) = A[y][t] /\ Same(log[y], H[t], A[y][t])
      BY <1>1, <2>2 DEF Core, Held
    <3>2. CASE y = x
      BY <1>2, <1>5, <1>7, <2>2, <3>1, <3>2
    <3>3. CASE y # x
      BY <1>2, <1>5, <3>1, <3>3
    <3> QED
      BY <3>2, <3>3
  <2> QED
    BY <2>1, <2>2
<1>12. Kept(H, A2)'
  <2> SUFFICES ASSUME NEW y \in Nodes, NEW t \in Terms, NEW k \in 1 .. A2[y][t], H[t][k].term = t
               PROVE  Lost(A2, t, k)' \/ Same(log'[y], H[t], k)
    BY DEF Kept
  <2>0. k \in Nat /\ k \in Int
    OBVIOUS
  <2>1. CASE y = x /\ t = u
    <3>1. k <= a + 1 /\ Len(log'[x]) \in Nat
      BY <1>1, <2>1, AtHandNext
    <3> QED
      BY <1>5, <1>8, <2>0, <2>1, <3>1, SameLess
  <2>2. CASE y # x \/ t # u
    <3>1. A2[y][t] = A[y][t] /\ k \in 1 .. A[y][t]
      BY <1>1, <2>2
    <3>2. Lost(A, t, k) \/ Same(log[y], H[t], k)
      BY <3>1 DEF Core, Kept
    <3>3. CASE y # x
      BY <1>4, <1>5, <2>0, <3>2, <3>3
    <3>4. CASE y = x /\ t # u
      <4>1. t < u /\ k \in 1 .. Len(H[t])
        <5>1. t <= term[x] /\ A[x][t] <= Len(H[t])
          BY <1>8, <2>0, <3>1, <3>4 DEF Core, Held
        <5> QED
          BY <1>5, <1>7, <1>8, <2>0, <3>1, <3>4, <5>1
      <4>2. Won(u)
        BY DEF Adopted, Won
      <4>3. Lost(A, t, k) \/ Same(H[u], H[t], k)
        BY <4>1, <4>2 DEF Core, Complete
      <4>4. ASSUME Same(log[x], H[t], k), Same(H[u], H[t], k) PROVE Same(log'[x], H[t], k)
        <5>1. Same(log[x], H[u], k)
          BY <4>4, SameSwapped, SameTwice
        <5>2. k <= a + 1
          BY <1>5, <2>0, <5>1, NoLoss DEF Adopted
        <5>3. Same(log'[x], H[u], k)
          BY <1>5, <1>8, <2>0, <5>2, SameLess, AtHandNext
        <5> QED
          BY <4>4, <5>3, SameTwice
      <4> QED
        BY <1>4, <2>0, <3>2, <3>4, <4>3, <4>4
    <3> QED
      BY <2>2, <3>3, <3>4
  <2> QED
    BY <2>1, <2>2
<1>13. Complete(H, A2)'
  <2> SUFFICES ASSUME NEW t \in Terms, NEW w \in Terms, t < w, Won(w),
                      NEW k \in 1 .. Len(H[t]), H[t][k].term = t
               PROVE  Lost(A2, t, k)' \/ Same(H[w], H[t], k)
    BY <1>5 DEF Complete, Won
  <2>1. k \in Nat
    OBVIOUS
  <2> QED
    BY <1>4, <2>1 DEF Core, Complete
<1>14. Bound(H)'
  BY DEF Core, Bound
<1> QED
  BY <1>9, <1>10, <1>11, <1>12, <1>13, <1>14 DEF Core
-----------------------------------------------------------------------------
(* What a step does to the inboxes: n may take its first message out, o is what is sent. *)

\* What is sent comes behind what is there.
Mailed(n, took, o) ==
  inbox' = [m \in Nodes |-> (IF took /\ m = n THEN Tail(inbox[m]) ELSE inbox[m]) \o o[m]]

\* What a handler sends arrives, except where it is off, or who sends is not told of it.
LEMMA DeliverMailed ==
  ASSUME TypeInv, NEW n \in Nodes, inbox[n] # <<>>, NEW out \in [Nodes -> Seq(Message)], Deliver(n, out)
  PROVE  \E o \in [Nodes -> Seq(Message)] :
           /\ Mailed(n, TRUE, o)
           /\ o = [m \in Nodes |-> IF m # n /\ m \in nodes[n] /\ Reaches(n, m) THEN out[m] ELSE <<>>]
<1> DEFINE o == [m \in Nodes |-> IF m # n /\ m \in nodes[n] /\ Reaches(n, m) THEN out[m] ELSE <<>>]
<1>1. o \in [Nodes -> Seq(Message)]
  OBVIOUS
<1>2. inbox \in [Nodes -> Seq(Message)]
  BY DEF TypeInv, NetType
<1>3. \A s \in Seq(Message) : s \o <<>> = s
  OBVIOUS
<1>4. Tail(inbox[n]) \in Seq(Message)
  BY <1>2
<1>5. Mailed(n, TRUE, o)
  BY <1>2, <1>3, <1>4 DEF Mailed, Deliver
<1> QED
  BY <1>1, <1>5

\* What is in an inbox after a step was there before, or was sent.
LEMMA MailMembers ==
  ASSUME TypeInv, NEW n \in Nodes, NEW took \in BOOLEAN, took => inbox[n] # <<>>,
         NEW o \in [Nodes -> Seq(Message)], Mailed(n, took, o), NEW x \in Nodes, NEW i \in 1 .. Len(inbox'[x])
  PROVE  \/ \E j \in 1 .. Len(inbox[x]) : inbox'[x][i] = inbox[x][j]
         \/ \E j \in 1 .. Len(o[x]) : inbox'[x][i] = o[x][j]
<1> DEFINE s == IF took /\ x = n THEN Tail(inbox[x]) ELSE inbox[x]
<1>1. inbox[x] \in Seq(Message) /\ o[x] \in Seq(Message)
  BY DEF TypeInv, NetType
<1>2. inbox'[x] = s \o o[x]
  BY DEF Mailed
<1>3. s \in Seq(Message) /\ \A j \in 1 .. Len(s) : \E k \in 1 .. Len(inbox[x]) : s[j] = inbox[x][k]
  <2>1. CASE took /\ x = n
    <3>1. s = Tail(inbox[x]) /\ inbox[x] # <<>>
      BY <2>1
    <3> HIDE DEF s
    <3>2. s \in Seq(Message) /\ \A j \in 1 .. Len(s) : j + 1 \in 1 .. Len(inbox[x]) /\ s[j] = inbox[x][j + 1]
      BY <1>1, <3>1
    <3> QED
      BY <3>2
  <2>2. CASE ~(took /\ x = n)
    BY <1>1, <2>2
  <2> QED
    BY <2>1, <2>2
<1> HIDE DEF s
<1>4. CASE i <= Len(s)
  <2>1. i \in 1 .. Len(s) /\ inbox'[x][i] = s[i]
    BY <1>1, <1>2, <1>3, <1>4
  <2> QED
    BY <1>3, <2>1
<1>5. CASE i > Len(s)
  <2>1. i - Len(s) \in 1 .. Len(o[x]) /\ inbox'[x][i] = o[x][i - Len(s)]
    BY <1>1, <1>2, <1>3, <1>5
  <2> QED
    BY <2>1
<1> QED
  BY <1>1, <1>3, <1>4, <1>5

\* The same for the messages of one kind.
MailedOnly(n, took, o, x, S) ==
  IF took /\ x = n /\ Head(inbox[n]) \in S
  THEN /\ Only(inbox[x], S) # <<>> /\ Head(Only(inbox[x], S)) = Head(inbox[x])
       /\ Only(inbox'[x], S) = Tail(Only(inbox[x], S)) \o Only(o[x], S)
  ELSE Only(inbox'[x], S) = Only(inbox[x], S) \o Only(o[x], S)

\* The messages of one kind in two parts of an inbox.
LEMMA OnlyOfMail ==
  ASSUME NEW S, NEW r \in Seq(Message), NEW q \in Seq(Message)
  PROVE  Only(r \o q, S) = Only(r, S) \o Only(q, S)
BY OnlyConcat

\* Of any kind of message, too: the rest of the old ones and then the new ones.
LEMMA MailOnly ==
  ASSUME TypeInv, NEW n \in Nodes, NEW took \in BOOLEAN, took => inbox[n] # <<>>,
         NEW o \in [Nodes -> Seq(Message)], Mailed(n, took, o), NEW x \in Nodes, NEW S
  PROVE  MailedOnly(n, took, o, x, S)
<1> DEFINE s == IF took /\ x = n THEN Tail(inbox[x]) ELSE inbox[x]
<1>1. inbox[x] \in Seq(Message) /\ o[x] \in Seq(Message)
  BY DEF TypeInv, NetType
<1>2. inbox'[x] = s \o o[x]
  BY DEF Mailed
<1>5. took /\ x = n => s = Tail(inbox[x]) /\ s \in Seq(Message)
  BY <1>1
<1>6. ~(took /\ x = n) => s = inbox[x] /\ s \in Seq(Message)
  BY <1>1
<1> HIDE DEF s
<1>7. ASSUME NEW r \in Seq(Message), NEW q \in Seq(Message)
      PROVE  Only(r \o q, S) = Only(r, S) \o Only(q, S)
  BY <1>7, OnlyOfMail
<1>3. CASE took /\ x = n
  <2>1. s = Tail(inbox[x]) /\ s \in Seq(Message)
    BY <1>3, <1>5
  <2>2. Only(s \o o[x], S) = Only(s, S) \o Only(o[x], S)
    BY <1>1, <1>7, <2>1
  <2>3. /\ Head(inbox[x]) \in S => /\ Only(inbox[x], S) # <<>> /\ Head(Only(inbox[x], S)) = Head(inbox[x])
                                   /\ Only(Tail(inbox[x]), S) = Tail(Only(inbox[x], S))
        /\ Head(inbox[x]) \notin S => Only(Tail(inbox[x]), S) = Only(inbox[x], S)
    BY <1>1, <1>3, OnlyTail
  <2> QED
    BY <1>2, <1>3, <2>1, <2>2, <2>3 DEF MailedOnly
<1>4. CASE ~(took /\ x = n)
  <2>1. s = inbox[x] /\ s \in Seq(Message)
    BY <1>4, <1>6
  <2>2. Only(s \o o[x], S) = Only(s, S) \o Only(o[x], S)
    BY <1>1, <1>7, <2>1
  <2> QED
    BY <1>2, <1>4, <2>1, <2>2 DEF MailedOnly
<1> QED
  BY <1>3, <1>4

\* What is on its way stays in order.
LEMMA EntryStays ==
  ASSUME NEW H \in Books, NEW A \in Counts, NEW H2 \in Books, NEW A2 \in Counts, Grown(H, A, H2, A2),
         NEW w \in Terms, NEW i \in Nat, i < Len(H[w])
  PROVE  i < Len(H2[w]) /\ EntryData(H2[w], i) = EntryData(H[w], i)
<1>1. /\ H[w] \in Seq(Entries) /\ H2[w] \in Seq(Entries) /\ Len(H[w]) \in Nat /\ Len(H2[w]) \in Nat
      /\ Len(H[w]) <= Len(H2[w])
  BY BookAtHand, BookStays
<1>2. Same(H[w], H2[w], Len(H[w]))
  BY DEF Grown
<1>3. EntryData(H2[w], i) = EntryData(H[w], i)
  BY <1>1, <1>2, EntryDataStays
<1> QED
  BY <1>1, <1>3

\* The counts of a term do not fall while a node is in it.
LEMMA CountStays ==
  ASSUME TypeInv, TypeInv',
         NEW H \in Books, NEW A \in Counts, NEW H2 \in Books, NEW A2 \in Counts, Grown(H, A, H2, A2),
         NEW w \in Terms, NEW c \in Nat, NEW x \in Nodes
  PROVE  /\ c < A[x][w] => c < A2[x][w]
         /\ (term[x] <= w => c <= A[x][w]) => (term'[x] <= w => c <= A2[x][w])
<1>1. A[x][w] \in Nat /\ A2[x][w] \in Nat /\ A[x][w] <= A2[x][w]
  BY BookAtHand DEF Grown
<1>2. term[x] <= term'[x] /\ term[x] \in Nat /\ term'[x] \in Nat /\ w \in Nat
  BY AtHand, AtHandNext DEF Grown
<1> QED
  BY <1>1, <1>2

\* What is on its way stays sound while the books grow, if what is sent is.
LEMMA MailStep ==
  ASSUME NEW v \in Ballots, Explained(v), TypeInv', NEW H \in Books, NEW A \in Counts, NEW H2 \in Books, NEW A2 \in Counts,
         Grown(H, A, H2, A2), Mail(H, A),
         NEW n \in Nodes, NEW took \in BOOLEAN, took => inbox[n] # <<>>,
         NEW o \in [Nodes -> Seq(Message)], Mailed(n, took, o),
         SetUp => SetUp',
         \A y \in Nodes : role'[y] = "Candidate" =>
           \/ role[y] = "Candidate" /\ term'[y] = term[y] /\ log'[y] = log[y]
           \/ term'[y] # term[y],
         \A x \in Nodes : \A i \in 1 .. Len(o[x]) : MailOk(H2, A2, x, o[x][i])'
  PROVE  Mail(H2, A2)'
<1> SUFFICES ASSUME NEW x \in Nodes, NEW i \in 1 .. Len(inbox'[x])
             PROVE  MailOk(H2, A2, x, inbox[x][i])'
  BY DEF Mail
<1>0. TypeInv
  BY DEF Explained
<1>3. PICK got : got = inbox'[x][i]
  OBVIOUS
<1>4. MailOk(H2, A2, x, got)' => MailOk(H2, A2, x, inbox[x][i])'
  BY <1>3 DEF MailOk
<1>1. CASE \E j \in 1 .. Len(o[x]) : inbox'[x][i] = o[x][j]
  <2>1. PICK j \in 1 .. Len(o[x]) : got = o[x][j]
    BY <1>1, <1>3
  <2>2. MailOk(H2, A2, x, got)'
    BY <2>1 DEF MailOk
  <2> QED
    BY <1>4, <2>2
<1>2. CASE \E j \in 1 .. Len(inbox[x]) : inbox'[x][i] = inbox[x][j]
  <2>1. PICK j \in 1 .. Len(inbox[x]) : inbox'[x][i] = inbox[x][j]
    BY <1>2
  <2>a. PICK msg : msg = inbox[x][j]
    OBVIOUS
  <2>2. MailOk(H, A, x, msg)
    BY <2>a DEF Mail
  <2>3. msg \in Message
    BY <1>0, <2>a, AtHand
  <2>4. msg.type = "RequestVote" => v[msg.src][msg.term] = msg.src
    BY <1>0, <2>a DEF Explained, Explains, TypeInv, NetType
  <2>5. elected \subseteq elected' /\ term[x] <= term'[x] /\ term[x] \in Nat /\ term'[x] \in Nat
    BY <1>0, AtHand, AtHandNext DEF Grown
  <2>6. ASSUME msg.type = "AppendEntry" 
        PROVE  /\ msg.src # x /\ <<msg.src, msg.term>> \in elected'
               /\ msg.entry # None => /\ msg.entry.index < Len(H2[msg.term])
                                      /\ msg.entry = EntryData(H2[msg.term], msg.entry.index)
               /\ msg.entry = None => /\ term'[x] <= msg.term => msg.committed <= A2[x][msg.term]
                                      /\ Settled(H2, A2, msg.term, msg.committed)
    <3>1. msg.src # x /\ <<msg.src, msg.term>> \in elected
      BY <2>2, <2>6 DEF MailOk
    <3>2. msg.term \in Terms /\ msg.term \in Nat
      BY <1>0, <3>1, AtHand DEF TypeInv, ElectionType
    <3>3. msg.entry \in Sendable \cup {None} /\ msg.committed \in Nat
      BY <2>3, <2>6, Carries
    <3>5. ASSUME msg.entry # None
          PROVE  /\ msg.entry.index < Len(H2[msg.term])
                 /\ msg.entry = EntryData(H2[msg.term], msg.entry.index)
      <4>1. msg.entry.index \in Nat
        BY <3>3, <3>5 DEF Sendable
      <4>2. msg.entry.index < Len(H[msg.term]) /\ msg.entry = EntryData(H[msg.term], msg.entry.index)
        BY <2>2, <2>6, <3>5 DEF MailOk
      <4> QED
        BY <3>2, <4>1, <4>2, EntryStays
    <3>6. ASSUME msg.entry = None
          PROVE  /\ term'[x] <= msg.term => msg.committed <= A2[x][msg.term]
                 /\ Settled(H2, A2, msg.term, msg.committed)
      <4>1. /\ term[x] <= msg.term => msg.committed <= A[x][msg.term]
            /\ Settled(H, A, msg.term, msg.committed)
        BY <2>2, <2>6, <3>6 DEF MailOk
      <4>2. term'[x] <= msg.term => msg.committed <= A2[x][msg.term]
        BY <1>0, <3>2, <3>3, <4>1, CountStays
      <4>3. Settled(H2, A2, msg.term, msg.committed)
        BY <3>2, <3>3, <4>1, SettledStays
      <4> QED
        BY <4>2, <4>3
    <3> QED
      BY <2>5, <3>1, <3>5, <3>6
  <2>7. ASSUME msg.type = "AppendEntryResponse" 
        PROVE  /\ msg.src # x /\ <<x, msg.term>> \in elected'
               /\ msg.index < Len(H2[msg.term])
               /\ msg.success => msg.index < A2[msg.src][msg.term]
    <3>1. /\ msg.src # x /\ <<x, msg.term>> \in elected /\ msg.index < Len(H[msg.term])
          /\ msg.success => msg.index < A[msg.src][msg.term]
      BY <2>2, <2>7 DEF MailOk
    <3>2. msg.term \in Terms
      BY <1>0, <3>1 DEF TypeInv, ElectionType
    <3>3. msg.src \in Nodes /\ msg.index \in Nat
      BY <2>3, <2>7, Carries
    <3>4. msg.index < Len(H2[msg.term])
      BY <3>1, <3>2, <3>3, EntryStays
    <3>5. ASSUME msg.success PROVE msg.index < A2[msg.src][msg.term]
      <4>1. msg.index < A[msg.src][msg.term]
        BY <3>1, <3>5
      <4> QED
        BY <1>0, <3>2, <3>3, <4>1, CountStays
    <3> QED
      BY <2>5, <3>1, <3>4, <3>5
  <2>8. ASSUME msg.type = "RequestVote", role'[msg.src] = "Candidate", term'[msg.src] = msg.term
        PROVE  msg.latest_term = LatestTerm(log'[msg.src]) /\ msg.len = Len(log'[msg.src])
    <3>1. msg.src \in Nodes /\ msg.term \in Terms
      BY <2>3, <2>8, Carries
    <3>2. term[msg.src] >= msg.term
      BY <2>4, <2>8, <3>1, NodesAssumption DEF Explained, Explains
    <3>3. term[msg.src] <= term'[msg.src] /\ term[msg.src] \in Nat /\ term'[msg.src] \in Nat
      BY <1>0, <3>1, AtHand, AtHandNext DEF Grown
    <3>4. term[msg.src] = term'[msg.src]
      BY <2>8, <3>2, <3>3
    <3>5. role[msg.src] = "Candidate" /\ log'[msg.src] = log[msg.src]
      BY <2>8, <3>1, <3>4
    <3> QED
      BY <2>2, <2>8, <3>4, <3>5 DEF MailOk
  <2>9. msg.type = "Command" => SetUp'
    BY <2>2 DEF MailOk
  <2>10. MailOk(H2, A2, x, msg)'
    BY <2>6, <2>7, <2>8, <2>9 DEF MailOk, LatestTerm, PrevTerm
  <2>11. got = msg
    BY <1>3, <2>1, <2>a
  <2> QED
    BY <1>4, <2>10, <2>11 DEF MailOk
<1>5. \/ \E j \in 1 .. Len(inbox[x]) : inbox'[x][i] = inbox[x][j]
      \/ \E j \in 1 .. Len(o[x]) : inbox'[x][i] = o[x][j]
  BY <1>0, MailMembers, Zenon
<1> QED
  BY <1>1, <1>2, <1>5
-----------------------------------------------------------------------------
(* Chains: what may be done to one. *)

\* The rest of a sequence of numbers.
LEMMA NumbersTail ==
  ASSUME NEW c \in Seq(Nat), c # <<>>
  PROVE  /\ Tail(c) \in Seq(Nat) /\ Len(Tail(c)) = Len(c) - 1 /\ Len(c) \in Nat /\ 1 \in 1 .. Len(c)
         /\ \A i \in 1 .. Len(c) - 1 : Tail(c)[i] = c[i + 1]
         /\ \A i \in 1 .. Len(Tail(c)) : i + 1 \in 1 .. Len(c) /\ Tail(c)[i] = c[i + 1]
OBVIOUS

\* A member of a sequence of numbers is one.
LEMMA Numbers ==
  ASSUME NEW c \in Seq(Nat)
  PROVE  \A i \in 1 .. Len(c) : c[i] \in Nat
OBVIOUS

\* A chain without its first is one.
LEMMA InStepTail ==
  ASSUME NEW H, NEW A, NEW x, NEW u, NEW c \in Seq(Nat), c # <<>>, InStep(H, A, x, u, c)
  PROVE  InStep(H, A, x, u, Tail(c))
<1>1. Len(Tail(c)) = Len(c) - 1 /\ Len(c) \in Nat /\ \A i \in 1 .. Len(c) - 1 : Tail(c)[i] = c[i + 1]
  OBVIOUS
<1>2. ASSUME NEW i \in 1 .. Len(Tail(c)) PROVE Fine(H, A, x, u, Tail(c)[i])
  BY <1>1 DEF InStep
<1>3. ASSUME NEW i \in 1 .. Len(Tail(c)), NEW j \in 1 .. Len(Tail(c)), i < j
      PROVE  Follows(H, A, x, u, Tail(c)[i], Tail(c)[j])
  <2>1. i + 1 \in 1 .. Len(c) /\ j + 1 \in 1 .. Len(c) /\ i + 1 < j + 1
        /\ Tail(c)[i] = c[i + 1] /\ Tail(c)[j] = c[j + 1]
    BY <1>1, <1>3
  <2> QED
    BY <2>1 DEF InStep
<1> QED
  BY <1>2, <1>3 DEF InStep

\* Also when it is followed by what is noted and by the answers.
LEMMA LinkedTail ==
  ASSUME NEW H, NEW A, NEW x, NEW u, NEW p \in Seq(Nat), NEW g, NEW q, p # <<>>, Linked(H, A, x, u, p, g, q)
  PROVE  Linked(H, A, x, u, Tail(p), g, q)
<1>1. \A i \in 1 .. Len(Tail(p)) : i + 1 \in 1 .. Len(p) /\ Tail(p)[i] = p[i + 1]
  BY NumbersTail
<1>2. InStep(H, A, x, u, Tail(p))
  BY InStepTail DEF Linked
<1>3. ASSUME NEW i \in 1 .. Len(Tail(p)) PROVE Follows(H, A, x, u, Tail(p)[i], g)
  BY <1>1 DEF Linked
<1>4. ASSUME NEW i \in 1 .. Len(Tail(p)), NEW j \in 1 .. Len(q) PROVE Follows(H, A, x, u, Tail(p)[i], q[j])
  BY <1>1 DEF Linked
<1> QED
  BY <1>2, <1>3, <1>4 DEF Linked

\* What was noted is sent again.
LEMMA LinkedAgain ==
  ASSUME NEW H, NEW A, NEW x, NEW u, NEW p \in Seq(Nat), NEW g \in Nat, NEW q, Linked(H, A, x, u, p, g, q)
  PROVE  Linked(H, A, x, u, Append(p, g), g, q)
<1> DEFINE r == Append(p, g)
<1>1. Len(r) = Len(p) + 1 /\ Len(p) \in Nat
  OBVIOUS
<1>2. \A i \in 1 .. Len(r) : (r[i] = g /\ i = Len(p) + 1) \/ (i \in 1 .. Len(p) /\ r[i] = p[i])
  OBVIOUS
<1> HIDE DEF r
<1>3. Follows(H, A, x, u, g, g)
  BY DEF Follows
<1>4. ASSUME NEW i \in 1 .. Len(r)
      PROVE  Fine(H, A, x, u, r[i]) /\ Follows(H, A, x, u, r[i], g)
             /\ \A j \in 1 .. Len(q) : Follows(H, A, x, u, r[i], q[j])
  BY <1>2, <1>3 DEF Linked, InStep
<1>5. ASSUME NEW i \in 1 .. Len(r), NEW j \in 1 .. Len(r), i < j PROVE Follows(H, A, x, u, r[i], r[j])
  <2>1. i \in 1 .. Len(p) /\ r[i] = p[i]
    BY <1>1, <1>2, <1>5
  <2>2. CASE r[j] = g
    BY <1>4, <2>2
  <2>3. CASE j \in 1 .. Len(p) /\ r[j] = p[j]
    BY <1>5, <2>1, <2>3 DEF Linked, InStep
  <2> QED
    BY <1>2, <2>2, <2>3
<1> QED
  BY <1>4, <1>5 DEF Linked, InStep, r

\* The next answer says what to note.
LEMMA LinkedAnswer ==
  ASSUME NEW H, NEW A, NEW x, NEW u, NEW p, NEW g, NEW q \in Seq(Nat), q # <<>>, Linked(H, A, x, u, p, g, q)
  PROVE  Linked(H, A, x, u, p, q[1], Tail(q))
<1>1. /\ 1 \in 1 .. Len(q)
      /\ \A i \in 1 .. Len(Tail(q)) : i + 1 \in 1 .. Len(q) /\ 1 < i + 1 /\ Tail(q)[i] = q[i + 1]
  OBVIOUS
<1>2. InStep(H, A, x, u, Tail(q))
  BY InStepTail DEF Linked
<1>3. ASSUME NEW j \in 1 .. Len(Tail(q)) PROVE Follows(H, A, x, u, q[1], Tail(q)[j])
  BY <1>1 DEF Linked, InStep
<1>4. ASSUME NEW i \in 1 .. Len(p), NEW j \in 1 .. Len(Tail(q)) PROVE Follows(H, A, x, u, p[i], Tail(q)[j])
  BY <1>1 DEF Linked
<1>5. Fine(H, A, x, u, q[1]) /\ \A i \in 1 .. Len(p) : Follows(H, A, x, u, p[i], q[1])
  BY <1>1 DEF Linked, InStep
<1> QED
  BY <1>2, <1>3, <1>4, <1>5 DEF Linked

(* A step that gives x nothing of term u leaves its chain as it is. *)

\* For x and the leader of u only the end of the book changes, and the term of x.
Steady(H, A, H2, A2, x, u) ==
  /\ A2[x][u] = A[x][u]
  /\ \A l \in 1 .. Len(H2[u]) : l > Len(H[u]) => H2[u][l].term = u
  /\ term'[x] <= u /\ (term'[x] = u => log'[x] = log[x])

\* A node that keeps its log, and a book that grows, leave an index as good as it was.
LEMMA FineStays ==
  ASSUME TypeInv, TypeInv', NEW H \in Books, NEW A \in Counts, NEW H2 \in Books, NEW A2 \in Counts,
         Core(H, A), Grown(H, A, H2, A2), NEW x \in Nodes, NEW u \in Terms, Steady(H, A, H2, A2, x, u),
         NEW a \in Nat, Fine(H, A, x, u, a)
  PROVE  Fine(H2, A2, x, u, a)'
<1>1. /\ term[x] \in Nat /\ term'[x] \in Nat /\ u \in Nat /\ term[x] <= term'[x] /\ term'[x] <= u
      /\ Len(log[x]) \in Nat
  BY AtHand, AtHandNext DEF Steady, Grown
<1>2. A2[x][u] = A[x][u] /\ A[x][u] \in Nat
  BY BookAtHand DEF Steady
<1>3. Len(H[u]) \in Nat /\ Len(H2[u]) \in Nat /\ Len(H[u]) <= Len(H2[u])
      /\ \A l \in 1 .. Len(H[u]) : H2[u][l] = H[u][l]
  BY BookAtHand, BookStays
<1>4. a <= Len(H2[u])
  BY <1>3 DEF Fine
<1>5. A2[x][u] > 0 => a = A2[x][u] \/ a + 1 = A2[x][u]
  BY <1>2 DEF Fine
<1>6. ASSUME A2[x][u] = 0, term[x] < u, NEW l \in 1 .. Len(H2[u]), H2[u][l].term < u PROVE l <= a + 1
  <2>1. l <= Len(H[u])
    BY <1>1, <1>3, <1>6 DEF Steady
  <2>2. l \in 1 .. Len(H[u]) /\ H[u][l].term < u
    BY <1>3, <1>6, <2>1
  <2> QED
    BY <1>2, <1>6, <2>2 DEF Fine
<1>7. ASSUME A2[x][u] = 0, term'[x] = u, NEW l \in Nat, Same(log'[x], H2[u], l) PROVE l <= a + 1
  <2>0. log'[x] = log[x]
    BY <1>7 DEF Steady
  <2>1. CASE l = 0
    BY <2>1
  <2>2. CASE l > 0
    <3>0. l <= Len(log[x]) /\ l <= Len(H2[u]) /\ \A i \in 1 .. l : log[x][i] = H2[u][i]
      BY <1>7, <2>0 DEF Same
    <3>1. l \in 1 .. Len(log[x]) /\ l \in 1 .. Len(H2[u]) /\ log[x][l] = H2[u][l]
      BY <1>1, <1>3, <2>2, <3>0
    <3>2. /\ log[x][l].term <= term[x] /\ log[x][l].term \in Nat
          /\ log[x][l].term = term[x] => l <= A[x][term[x]]
      BY <3>1, AtHand DEF Core, Logs
    <3>3. CASE term[x] < u
      <4>1. H2[u][l].term < u
        BY <1>1, <3>1, <3>2, <3>3
      <4> QED
        BY <1>6, <1>7, <3>1, <3>3, <4>1
    <3>4. CASE term[x] = u
      <4>1. H2[u][l].term # u
        <5> SUFFICES ASSUME H2[u][l].term = u PROVE FALSE
          OBVIOUS
        <5>1. l <= A[x][u]
          BY <3>1, <3>2, <3>4
        <5>2. A[x][u] = 0
          BY <1>2, <1>7
        <5> QED
          BY <2>2, <5>1, <5>2
      <4>2. l <= Len(H[u])
        BY <1>3, <3>1, <4>1 DEF Steady
      <4>3. Same(log[x], H[u], l)
        BY <1>3, <3>0, <4>2 DEF Same
      <4> QED
        BY <1>2, <1>7, <3>4, <4>3 DEF Fine
    <3> QED
      BY <1>1, <3>3, <3>4
  <2> QED
    BY <2>1, <2>2
<1>8. ASSUME A2[x][u] = 0, term'[x] < u, NEW l \in 1 .. Len(H2[u]), H2[u][l].term < u PROVE l <= a + 1
  <2>1. term[x] < u
    BY <1>1, <1>8
  <2> QED
    BY <1>6, <1>8, <2>1
<1> QED
  BY <1>4, <1>5, <1>7, <1>8 DEF Fine

\* They leave two in order,
LEMMA FollowsStays ==
  ASSUME TypeInv, TypeInv', NEW H \in Books, NEW A \in Counts, NEW H2 \in Books, NEW A2 \in Counts,
         Core(H, A), Grown(H, A, H2, A2), NEW x \in Nodes, NEW u \in Terms, Steady(H, A, H2, A2, x, u),
         NEW a \in Nat, NEW b \in Nat, Fine(H, A, x, u, a), Follows(H, A, x, u, a, b)
  PROVE  Follows(H2, A2, x, u, a, b)'
<1>1. /\ term[x] \in Nat /\ term'[x] \in Nat /\ u \in Nat /\ term[x] <= term'[x] /\ term'[x] <= u
  BY AtHand, AtHandNext DEF Steady, Grown
<1>2. A2[x][u] = A[x][u]
  BY DEF Steady
<1>3. CASE A[x][u] > 0
  BY <1>2, <1>3 DEF Follows
<1>4. CASE ~(A[x][u] > 0) /\ a = b
  BY <1>2, <1>4 DEF Follows
<1>5. CASE ~(A[x][u] > 0) /\ a # b
  <2>1. a = b + 1 /\ term[x] = u /\ ~Same(log[x], H[u], a)
    BY <1>5 DEF Follows
  <2>2. term'[x] = u /\ log'[x] = log[x]
    BY <1>1, <2>1 DEF Steady
  <2>3. a <= Len(H[u])
    BY DEF Fine
  <2>4. ~Same(log'[x], H2[u], a)
    <3>1. /\ Len(H[u]) \in Nat /\ Len(H2[u]) \in Nat /\ Len(H[u]) <= Len(H2[u])
          /\ \A l \in 1 .. Len(H[u]) : H2[u][l] = H[u][l]
      BY BookAtHand, BookStays
    <3> QED
      BY <2>1, <2>2, <2>3, <3>1 DEF Same
  <2> QED
    BY <1>2, <1>5, <2>1, <2>2, <2>4 DEF Follows
<1> QED
  BY <1>3, <1>4, <1>5

\* a chain,
LEMMA InStepStays ==
  ASSUME TypeInv, TypeInv', NEW H \in Books, NEW A \in Counts, NEW H2 \in Books, NEW A2 \in Counts,
         Core(H, A), Grown(H, A, H2, A2), NEW x \in Nodes, NEW u \in Terms, Steady(H, A, H2, A2, x, u),
         NEW c \in Seq(Nat), InStep(H, A, x, u, c)
  PROVE  InStep(H2, A2, x, u, c)'
<1>1. \A i \in 1 .. Len(c) : c[i] \in Nat
  OBVIOUS
<1>2. ASSUME NEW i \in 1 .. Len(c) PROVE Fine(H2, A2, x, u, c[i])'
  BY <1>1, FineStays DEF InStep
<1>3. ASSUME NEW i \in 1 .. Len(c), NEW j \in 1 .. Len(c), i < j PROVE Follows(H2, A2, x, u, c[i], c[j])'
  BY <1>1, <1>3, FollowsStays DEF InStep
<1> QED
  BY <1>2, <1>3 DEF InStep

\* and a chain with what is noted and with the answers.
LEMMA LinkedStays ==
  ASSUME TypeInv, TypeInv', NEW H \in Books, NEW A \in Counts, NEW H2 \in Books, NEW A2 \in Counts,
         Core(H, A), Grown(H, A, H2, A2), NEW x \in Nodes, NEW u \in Terms, Steady(H, A, H2, A2, x, u),
         NEW p \in Seq(Nat), NEW g \in Nat, NEW q \in Seq(Nat), Linked(H, A, x, u, p, g, q)
  PROVE  Linked(H2, A2, x, u, p, g, q)'
<1>0. (\A i \in 1 .. Len(p) : p[i] \in Nat) /\ (\A j \in 1 .. Len(q) : q[j] \in Nat)
  BY Numbers
<1>1. /\ \A i \in 1 .. Len(p) : p[i] \in Nat /\ Fine(H, A, x, u, p[i])
      /\ \A j \in 1 .. Len(q) : q[j] \in Nat
  BY <1>0 DEF Linked, InStep
<1>2. InStep(H2, A2, x, u, p)' /\ InStep(H2, A2, x, u, q)'
  BY InStepStays DEF Linked
<1>3. Fine(H2, A2, x, u, g)'
  BY FineStays DEF Linked
<1>4. ASSUME NEW i \in 1 .. Len(p) PROVE Follows(H2, A2, x, u, p[i], g)'
  BY <1>1, FollowsStays DEF Linked
<1>5. ASSUME NEW j \in 1 .. Len(q) PROVE Follows(H2, A2, x, u, g, q[j])'
  BY <1>1, FollowsStays DEF Linked
<1>6. ASSUME NEW i \in 1 .. Len(p), NEW j \in 1 .. Len(q) PROVE Follows(H2, A2, x, u, p[i], q[j])'
  BY <1>1, FollowsStays DEF Linked
<1> QED
  BY <1>2, <1>3, <1>4, <1>5, <1>6 DEF Linked
-----------------------------------------------------------------------------
(* The pieces of a chain in the inboxes. *)

\* Sequences with the same members are equal.
LEMMA SameSequence ==
  ASSUME NEW V, NEW s \in Seq(V), NEW r \in Seq(V), Len(s) = Len(r), \A i \in 1 .. Len(s) : s[i] = r[i]
  PROVE  s = r
OBVIOUS

\* The indices of requests are numbers.
LEMMA IndicesType ==
  ASSUME NEW n, NEW u, NEW s \in Seq(Probes(n, u))
  PROVE  /\ Indices(s) \in Seq(Nat) /\ Len(Indices(s)) = Len(s)
         /\ \A i \in 1 .. Len(s) : Indices(s)[i] = s[i].entry.index
<1>1. \A e \in Probes(n, u) : e.entry.index \in Nat
  BY Carries DEF Probes, Sendable
<1>2. Len(s) \in Nat /\ \A i \in 1 .. Len(s) : s[i] \in Probes(n, u)
  OBVIOUS
<1> QED
  BY <1>1, <1>2 DEF Indices

\* Taking off the first request, or adding one at the end, does so with the indices.
LEMMA IndicesOf ==
  ASSUME NEW n, NEW u, NEW s \in Seq(Probes(n, u))
  PROVE  /\ Indices(s) \in Seq(Nat) /\ Len(Indices(s)) = Len(s)
         /\ \A i \in 1 .. Len(s) : Indices(s)[i] = s[i].entry.index
         /\ s # <<>> => Indices(s) # <<>> /\ Indices(Tail(s)) = Tail(Indices(s))
         /\ \A e \in Probes(n, u) : Indices(s \o <<e>>) = Append(Indices(s), e.entry.index)
<1>1. \A e \in Probes(n, u) : e.entry.index \in Nat
  BY Carries DEF Probes, Sendable
<1>2. Len(s) \in Nat /\ \A i \in 1 .. Len(s) : s[i] \in Probes(n, u)
  OBVIOUS
<1>3. /\ Indices(s) \in Seq(Nat) /\ Len(Indices(s)) = Len(s)
      /\ \A i \in 1 .. Len(s) : Indices(s)[i] = s[i].entry.index
  BY IndicesType
<1>4. ASSUME s # <<>> PROVE Indices(s) # <<>> /\ Indices(Tail(s)) = Tail(Indices(s))
  <2>1. /\ Len(Tail(s)) = Len(s) - 1 /\ \A i \in 1 .. Len(s) - 1 : Tail(s)[i] = s[i + 1]
        /\ Tail(s) \in Seq(Probes(n, u)) /\ Len(s) > 0
    BY <1>4
  <2>2. /\ Indices(s) # <<>> /\ Tail(Indices(s)) \in Seq(Nat) /\ Len(Tail(Indices(s))) = Len(s) - 1
        /\ \A i \in 1 .. Len(s) - 1 : Tail(Indices(s))[i] = Indices(s)[i + 1]
    BY <1>3, <2>1
  <2>3. \A i \in 1 .. Len(s) - 1 : Tail(Indices(s))[i] = Tail(s)[i].entry.index
    BY <1>2, <1>3, <2>1, <2>2
  <2>4. Indices(Tail(s)) = [i \in 1 .. Len(s) - 1 |-> Tail(s)[i].entry.index]
    BY <2>1 DEF Indices
  <2>5. Indices(Tail(s)) \in Seq(Nat) /\ Len(Indices(Tail(s))) = Len(s) - 1
    <3>1. PICK r \in Seq(Probes(n, u)) : r = Tail(s)
      BY <2>1
    <3>2. Indices(r) \in Seq(Nat) /\ Len(Indices(r)) = Len(r)
      BY IndicesType
    <3>3. Len(r) = Len(s) - 1
      BY <2>1, <3>1
    <3>4. Indices(r) = Indices(Tail(s))
      BY <3>1
    <3> QED
      BY <3>2, <3>3, <3>4
  <2>6. \A i \in 1 .. Len(s) - 1 : Indices(Tail(s))[i] = Tail(Indices(s))[i]
    BY <2>3, <2>4
  <2>7. Indices(Tail(s)) = Tail(Indices(s))
    BY <2>2, <2>5, <2>6, SameSequence
  <2> QED
    BY <2>2, <2>7
<1>5. ASSUME NEW e \in Probes(n, u) PROVE Indices(s \o <<e>>) = Append(Indices(s), e.entry.index)
  <2>1. /\ Len(s \o <<e>>) = Len(s) + 1 /\ \A i \in 1 .. Len(s) : (s \o <<e>>)[i] = s[i]
        /\ (s \o <<e>>)[Len(s) + 1] = e
    OBVIOUS
  <2>2. Indices(s \o <<e>>) = [i \in 1 .. Len(s) + 1 |-> (s \o <<e>>)[i].entry.index]
    BY <2>1 DEF Indices
  <2>3. /\ Append(Indices(s), e.entry.index) \in Seq(Nat)
        /\ Len(Append(Indices(s), e.entry.index)) = Len(s) + 1
        /\ \A i \in 1 .. Len(s) : Append(Indices(s), e.entry.index)[i] = s[i].entry.index
        /\ Append(Indices(s), e.entry.index)[Len(s) + 1] = e.entry.index
    BY <1>1, <1>2, <1>3
  <2>4. \A i \in 1 .. Len(s) + 1 : Append(Indices(s), e.entry.index)[i] = (s \o <<e>>)[i].entry.index
    BY <1>2, <2>1, <2>3
  <2>5. s \o <<e>> \in Seq(Probes(n, u))
    OBVIOUS
  <2>6. Indices(s \o <<e>>) \in Seq(Nat) /\ Len(Indices(s \o <<e>>)) = Len(s) + 1
    BY <2>1, <2>5, IndicesType
  <2>7. \A i \in 1 .. Len(s) + 1 : Indices(s \o <<e>>)[i] = Append(Indices(s), e.entry.index)[i]
    BY <2>2, <2>4
  <2> QED
    BY <2>3, <2>6, <2>7, SameSequence
<1> QED
  BY <1>3, <1>4, <1>5

\* The indices that answers ask for are numbers.
LEMMA NextIndicesType ==
  ASSUME NEW x, NEW u, NEW s \in Seq(Answers(x, u))
  PROVE  /\ NextIndices(s) \in Seq(Nat) /\ Len(NextIndices(s)) = Len(s)
         /\ \A i \in 1 .. Len(s) : NextIndices(s)[i] = NextIndex(s[i])
<1>1. \A e \in Answers(x, u) : NextIndex(e) \in Nat
  <2> SUFFICES ASSUME NEW e \in Answers(x, u) PROVE NextIndex(e) \in Nat
    OBVIOUS
  <2>1. e.index \in Nat /\ (e.success \/ e.index > 0)
    BY Carries DEF Answers
  <2> QED
    BY <2>1 DEF NextIndex
<1>2. Len(s) \in Nat /\ \A i \in 1 .. Len(s) : s[i] \in Answers(x, u)
  OBVIOUS
<1> QED
  BY <1>1, <1>2 DEF NextIndices

\* They go along with the answers, too.
LEMMA NextIndicesOf ==
  ASSUME NEW x, NEW u, NEW s \in Seq(Answers(x, u))
  PROVE  /\ NextIndices(s) \in Seq(Nat) /\ Len(NextIndices(s)) = Len(s)
         /\ \A i \in 1 .. Len(s) : NextIndices(s)[i] = NextIndex(s[i])
         /\ s # <<>> => NextIndices(s) # <<>> /\ NextIndices(Tail(s)) = Tail(NextIndices(s))
         /\ \A e \in Answers(x, u) : NextIndices(s \o <<e>>) = Append(NextIndices(s), NextIndex(e))
<1>1. \A e \in Answers(x, u) : NextIndex(e) \in Nat
  <2> SUFFICES ASSUME NEW e \in Answers(x, u) PROVE NextIndex(e) \in Nat
    OBVIOUS
  <2>1. e.index \in Nat /\ (e.success \/ e.index > 0)
    BY Carries DEF Answers
  <2> QED
    BY <2>1 DEF NextIndex
<1>2. Len(s) \in Nat /\ \A i \in 1 .. Len(s) : s[i] \in Answers(x, u)
  OBVIOUS
<1>3. /\ NextIndices(s) \in Seq(Nat) /\ Len(NextIndices(s)) = Len(s)
      /\ \A i \in 1 .. Len(s) : NextIndices(s)[i] = NextIndex(s[i])
  BY NextIndicesType
<1>4. ASSUME s # <<>> PROVE NextIndices(s) # <<>> /\ NextIndices(Tail(s)) = Tail(NextIndices(s))
  <2>1. /\ Len(Tail(s)) = Len(s) - 1 /\ \A i \in 1 .. Len(s) - 1 : Tail(s)[i] = s[i + 1]
        /\ Tail(s) \in Seq(Answers(x, u)) /\ Len(s) > 0
    BY <1>4
  <2>2. /\ NextIndices(s) # <<>> /\ Tail(NextIndices(s)) \in Seq(Nat)
        /\ Len(Tail(NextIndices(s))) = Len(s) - 1
        /\ \A i \in 1 .. Len(s) - 1 : Tail(NextIndices(s))[i] = NextIndices(s)[i + 1]
    BY <1>3, <2>1
  <2>3. \A i \in 1 .. Len(s) - 1 : Tail(NextIndices(s))[i] = NextIndex(Tail(s)[i])
    BY <1>2, <1>3, <2>1, <2>2
  <2>4. NextIndices(Tail(s)) = [i \in 1 .. Len(s) - 1 |-> NextIndex(Tail(s)[i])]
    BY <2>1 DEF NextIndices
  <2>5. NextIndices(Tail(s)) \in Seq(Nat) /\ Len(NextIndices(Tail(s))) = Len(s) - 1
    <3>1. PICK r \in Seq(Answers(x, u)) : r = Tail(s)
      BY <2>1
    <3>2. NextIndices(r) \in Seq(Nat) /\ Len(NextIndices(r)) = Len(r)
      BY NextIndicesType
    <3>3. Len(r) = Len(s) - 1
      BY <2>1, <3>1
    <3>4. NextIndices(r) = NextIndices(Tail(s))
      BY <3>1
    <3> QED
      BY <3>2, <3>3, <3>4
  <2>6. \A i \in 1 .. Len(s) - 1 : NextIndices(Tail(s))[i] = Tail(NextIndices(s))[i]
    BY <2>3, <2>4
  <2>7. NextIndices(Tail(s)) = Tail(NextIndices(s))
    BY <2>2, <2>5, <2>6, SameSequence
  <2> QED
    BY <2>2, <2>7
<1>5. ASSUME NEW e \in Answers(x, u) PROVE NextIndices(s \o <<e>>) = Append(NextIndices(s), NextIndex(e))
  <2>1. /\ Len(s \o <<e>>) = Len(s) + 1 /\ \A i \in 1 .. Len(s) : (s \o <<e>>)[i] = s[i]
        /\ (s \o <<e>>)[Len(s) + 1] = e
    OBVIOUS
  <2>2. NextIndices(s \o <<e>>) = [i \in 1 .. Len(s) + 1 |-> NextIndex((s \o <<e>>)[i])]
    BY <2>1 DEF NextIndices
  <2>3. /\ Append(NextIndices(s), NextIndex(e)) \in Seq(Nat)
        /\ Len(Append(NextIndices(s), NextIndex(e))) = Len(s) + 1
        /\ \A i \in 1 .. Len(s) : Append(NextIndices(s), NextIndex(e))[i] = NextIndex(s[i])
        /\ Append(NextIndices(s), NextIndex(e))[Len(s) + 1] = NextIndex(e)
    BY <1>1, <1>2, <1>3
  <2>4. \A i \in 1 .. Len(s) + 1 : Append(NextIndices(s), NextIndex(e))[i] = NextIndex((s \o <<e>>)[i])
    BY <1>2, <2>1, <2>3
  <2>5. s \o <<e>> \in Seq(Answers(x, u))
    OBVIOUS
  <2>6. NextIndices(s \o <<e>>) \in Seq(Nat) /\ Len(NextIndices(s \o <<e>>)) = Len(s) + 1
    BY <2>1, <2>5, NextIndicesType
  <2>7. \A i \in 1 .. Len(s) + 1 : NextIndices(s \o <<e>>)[i] = Append(NextIndices(s), NextIndex(e))[i]
    BY <2>2, <2>4
  <2> QED
    BY <2>3, <2>6, <2>7, SameSequence
<1> QED
  BY <1>3, <1>4, <1>5

\* The three pieces of a chain are numbers.
LEMMA Pieces ==
  ASSUME TypeInv, NEW n \in Nodes, NEW x \in Nodes, NEW u \in Terms
  PROVE  /\ Only(inbox[x], Probes(n, u)) \in Seq(Probes(n, u)) /\ Ahead(n, x, u) \in Seq(Nat)
         /\ Only(inbox[n], Answers(x, u)) \in Seq(Answers(x, u)) /\ Back(n, x, u) \in Seq(Nat)
         /\ Goal(n, x) \in Nat
<1>1. Len(inbox[x]) \in Nat /\ Len(inbox[n]) \in Nat /\ Len(log[n]) \in Nat
      /\ pending[n][x] \in Sendable \cup {None}
  BY AtHand
<1>2. /\ Only(inbox[x], Probes(n, u)) \in Seq(Probes(n, u))
      /\ Only(inbox[n], Answers(x, u)) \in Seq(Answers(x, u))
  BY <1>1, OnlyInSeq
<1>3. Ahead(n, x, u) \in Seq(Nat)
  BY <1>2, IndicesOf DEF Ahead
<1>4. Back(n, x, u) \in Seq(Nat)
  BY <1>2, NextIndicesOf DEF Back
<1>5. Goal(n, x) \in Nat
  BY <1>1 DEF Goal, Sendable
<1> QED
  BY <1>2, <1>3, <1>4, <1>5

\* The message n takes out is one of S, in the inbox of x.
Took(a, took, x, S) == took /\ x = a /\ Head(inbox[a]) \in S

\* The requests on their way from n to x: p is what is left of them.
AheadGoes(a, took, o, n, x, u, p) ==
  /\ IF Took(a, took, x, Probes(n, u))
     THEN /\ Ahead(n, x, u) # <<>> /\ Ahead(n, x, u)[1] = Head(inbox[a]).entry.index
          /\ p = Tail(Ahead(n, x, u))
     ELSE p = Ahead(n, x, u)
  /\ Only(o[x], Probes(n, u)) = <<>> => Ahead(n, x, u)' = p
  /\ \A e \in Probes(n, u) : Only(o[x], Probes(n, u)) = <<e>> =>
       Ahead(n, x, u)' = Append(p, e.entry.index)

\* The answers on their way back: q is what is left of them.
BackGoes(a, took, o, n, x, u, q) ==
  /\ IF Took(a, took, n, Answers(x, u))
     THEN /\ Back(n, x, u) # <<>> /\ Back(n, x, u)[1] = NextIndex(Head(inbox[a]))
          /\ q = Tail(Back(n, x, u))
     ELSE q = Back(n, x, u)
  /\ Only(o[n], Answers(x, u)) = <<>> => Back(n, x, u)' = q
  /\ \A e \in Answers(x, u) : Only(o[n], Answers(x, u)) = <<e>> =>
       Back(n, x, u)' = Append(q, NextIndex(e))

\* What is sent to x makes its part of the chain longer; what x takes out makes it shorter.
LEMMA AheadNext ==
  ASSUME TypeInv, NEW a \in Nodes, NEW took \in BOOLEAN, took => inbox[a] # <<>>,
         NEW o \in [Nodes -> Seq(Message)], Mailed(a, took, o),
         NEW n \in Nodes, NEW x \in Nodes, NEW u \in Terms
  PROVE  \E p \in Seq(Nat) : AheadGoes(a, took, o, n, x, u, p)
<1>0. PICK S : S = Probes(n, u)
  OBVIOUS
<1> DEFINE s == Only(inbox[x], S)
<1>1. s \in Seq(S) /\ Ahead(n, x, u) = Indices(s) /\ Ahead(n, x, u)' = Indices(Only(inbox'[x], S))
  BY <1>0, Pieces DEF Ahead
<1>2. PICK r \in Seq(S) : /\ IF Took(a, took, x, S) THEN s # <<>> /\ Head(s) = Head(inbox[a]) /\ r = Tail(s)
                             ELSE r = s
                          /\ Only(inbox'[x], S) = r \o Only(o[x], S)
  <2>0. MailedOnly(a, took, o, x, S)
    BY MailOnly
  <2>1. CASE Took(a, took, x, S)
    <3>1. /\ s # <<>> /\ Head(s) = Head(inbox[a])
          /\ Only(inbox'[x], S) = Tail(s) \o Only(o[x], S)
      BY <2>0, <2>1 DEF MailedOnly, Took
    <3>2. Tail(s) \in Seq(S)
      BY <1>1, <3>1
    <3> QED
      BY <2>1, <3>1, <3>2
  <2>2. CASE ~Took(a, took, x, S)
    <3>1. Only(inbox'[x], S) = s \o Only(o[x], S)
      BY <2>0, <2>2 DEF MailedOnly, Took
    <3> QED
      BY <1>1, <2>2, <3>1
  <2> QED
    BY <2>1, <2>2
<1> HIDE DEF s
<1>3. r \o <<>> = r
  OBVIOUS
<1>4. /\ Indices(r) \in Seq(Nat)
      /\ \A e \in S : Indices(r \o <<e>>) = Append(Indices(r), e.entry.index)
  BY <1>0, IndicesOf
<1>5. s # <<>> => /\ Indices(s) # <<>> /\ Indices(Tail(s)) = Tail(Indices(s))
                  /\ Indices(s)[1] = Head(s).entry.index
  <2>1. s # <<>> => 1 \in 1 .. Len(s) /\ Head(s) = s[1]
    BY <1>1
  <2>2. s \in Seq(Probes(n, u))
    BY <1>0, <1>1
  <2>3. /\ \A i \in 1 .. Len(s) : Indices(s)[i] = s[i].entry.index
        /\ s # <<>> => Indices(s) # <<>> /\ Indices(Tail(s)) = Tail(Indices(s))
    BY <2>2, IndicesOf
  <2> QED
    BY <2>1, <2>3
<1>6. IF Took(a, took, x, S)
      THEN /\ Ahead(n, x, u) # <<>> /\ Ahead(n, x, u)[1] = Head(inbox[a]).entry.index
           /\ Indices(r) = Tail(Ahead(n, x, u))
      ELSE Indices(r) = Ahead(n, x, u)
  BY <1>1, <1>2, <1>5
<1>7. Only(o[x], S) = <<>> => Ahead(n, x, u)' = Indices(r)
  BY <1>1, <1>2, <1>3
<1>8. ASSUME NEW e \in S, Only(o[x], S) = <<e>> PROVE Ahead(n, x, u)' = Append(Indices(r), e.entry.index)
  <2>1. Only(inbox'[x], S) = r \o <<e>>
    BY <1>2, <1>8
  <2> QED
    BY <1>1, <1>4, <2>1
<1> QED
  BY <1>0, <1>4, <1>6, <1>7, <1>8 DEF AheadGoes

\* The same of the answers.
LEMMA BackNext ==
  ASSUME TypeInv, NEW a \in Nodes, NEW took \in BOOLEAN, took => inbox[a] # <<>>,
         NEW o \in [Nodes -> Seq(Message)], Mailed(a, took, o),
         NEW n \in Nodes, NEW x \in Nodes, NEW u \in Terms
  PROVE  \E q \in Seq(Nat) : BackGoes(a, took, o, n, x, u, q)
<1>0. PICK S : S = Answers(x, u)
  OBVIOUS
<1> DEFINE s == Only(inbox[n], S)
<1>1. s \in Seq(S) /\ Back(n, x, u) = NextIndices(s) /\ Back(n, x, u)' = NextIndices(Only(inbox'[n], S))
  BY <1>0, Pieces DEF Back
<1>2. PICK r \in Seq(S) : /\ IF Took(a, took, n, S) THEN s # <<>> /\ Head(s) = Head(inbox[a]) /\ r = Tail(s)
                             ELSE r = s
                          /\ Only(inbox'[n], S) = r \o Only(o[n], S)
  <2>0. MailedOnly(a, took, o, n, S)
    BY MailOnly
  <2>1. CASE Took(a, took, n, S)
    <3>1. /\ s # <<>> /\ Head(s) = Head(inbox[a])
          /\ Only(inbox'[n], S) = Tail(s) \o Only(o[n], S)
      BY <2>0, <2>1 DEF MailedOnly, Took
    <3>2. Tail(s) \in Seq(S)
      BY <1>1, <3>1
    <3> QED
      BY <2>1, <3>1, <3>2
  <2>2. CASE ~Took(a, took, n, S)
    <3>1. Only(inbox'[n], S) = s \o Only(o[n], S)
      BY <2>0, <2>2 DEF MailedOnly, Took
    <3> QED
      BY <1>1, <2>2, <3>1
  <2> QED
    BY <2>1, <2>2
<1> HIDE DEF s
<1>3. r \o <<>> = r
  OBVIOUS
<1>4. /\ NextIndices(r) \in Seq(Nat)
      /\ \A e \in S : NextIndices(r \o <<e>>) = Append(NextIndices(r), NextIndex(e))
  BY <1>0, NextIndicesOf
<1>5. s # <<>> => /\ NextIndices(s) # <<>> /\ NextIndices(Tail(s)) = Tail(NextIndices(s))
                  /\ NextIndices(s)[1] = NextIndex(Head(s))
  <2>1. s # <<>> => 1 \in 1 .. Len(s) /\ Head(s) = s[1]
    BY <1>1
  <2>2. s \in Seq(Answers(x, u))
    BY <1>0, <1>1
  <2>3. /\ \A i \in 1 .. Len(s) : NextIndices(s)[i] = NextIndex(s[i])
        /\ s # <<>> => NextIndices(s) # <<>> /\ NextIndices(Tail(s)) = Tail(NextIndices(s))
    BY <2>2, NextIndicesOf
  <2> QED
    BY <2>1, <2>3
<1>6. IF Took(a, took, n, S)
      THEN /\ Back(n, x, u) # <<>> /\ Back(n, x, u)[1] = NextIndex(Head(inbox[a]))
           /\ NextIndices(r) = Tail(Back(n, x, u))
      ELSE NextIndices(r) = Back(n, x, u)
  BY <1>1, <1>2, <1>5
<1>7. Only(o[n], S) = <<>> => Back(n, x, u)' = NextIndices(r)
  BY <1>1, <1>2, <1>3
<1>8. ASSUME NEW e \in S, Only(o[n], S) = <<e>> PROVE Back(n, x, u)' = Append(NextIndices(r), NextIndex(e))
  <2>1. Only(inbox'[n], S) = r \o <<e>>
    BY <1>2, <1>8
  <2> QED
    BY <1>1, <1>4, <2>1
<1> QED
  BY <1>0, <1>4, <1>6, <1>7, <1>8 DEF BackGoes

\* A step that adds to the chain what is noted, or nothing.
LEMMA ChainQuiet ==
  ASSUME TypeInv, TypeInv', NEW H \in Books, NEW A \in Counts, NEW H2 \in Books, NEW A2 \in Counts,
         Core(H, A), Grown(H, A, H2, A2),
         NEW a \in Nodes, NEW took \in BOOLEAN, took => inbox[a] # <<>>,
         NEW o \in [Nodes -> Seq(Message)], Mailed(a, took, o),
         NEW n \in Nodes, NEW x \in Nodes, NEW u \in Terms, <<n, u>> \in elected, x # n,
         Steady(H, A, H2, A2, x, u), ChainAt(H, A, n, x, u),
         \/ Only(o[x], Probes(n, u)) = <<>>
         \/ term[n] = u /\ \E e \in Probes(n, u) : Only(o[x], Probes(n, u)) = <<e>> /\ e.entry.index = Goal(n, x),
         term'[n] = u => /\ Only(o[n], Answers(x, u)) = <<>> /\ ~Took(a, took, n, Answers(x, u))
                         /\ Goal(n, x)' = Goal(n, x)
  PROVE  ChainAt(H2, A2, n, x, u)'
<1>0. PICK g, q, p0 : g = Goal(n, x) /\ q = Back(n, x, u) /\ p0 = Ahead(n, x, u)
  OBVIOUS
<1>1. g \in Nat /\ q \in Seq(Nat) /\ p0 \in Seq(Nat)
  BY <1>0, Pieces
<1>2. u <= term[n] /\ term[n] <= term'[n] /\ u \in Nat /\ term[n] \in Nat /\ term'[n] \in Nat
  BY AtHand, AtHandNext, WinnerLeads DEF Core, Grown
<1>3. InStep(H, A, x, u, p0) /\ (term[n] = u => Linked(H, A, x, u, p0, g, q))
  BY <1>0 DEF ChainAt
<1>12. PICK p \in Seq(Nat) : AheadGoes(a, took, o, n, x, u, p)
  BY AheadNext
<1>4. /\ p \in Seq(Nat)
      /\ p = p0 \/ (p0 # <<>> /\ p = Tail(p0))
      /\ Only(o[x], Probes(n, u)) = <<>> => Ahead(n, x, u)' = p
      /\ \A e \in Probes(n, u) : Only(o[x], Probes(n, u)) = <<e>> =>
             Ahead(n, x, u)' = Append(p, e.entry.index)
  BY <1>0, <1>12 DEF AheadGoes
<1>5. InStep(H, A, x, u, p)
  BY <1>1, <1>3, <1>4, InStepTail
<1>6. term[n] = u => Linked(H, A, x, u, p, g, q)
  BY <1>1, <1>3, <1>4, LinkedTail
<1>7. PICK r : r = Ahead(n, x, u)'
  OBVIOUS
<1>8. /\ r \in Seq(Nat) /\ InStep(H, A, x, u, r)
      /\ term[n] = u => Linked(H, A, x, u, r, g, q)
  <2>1. CASE Only(o[x], Probes(n, u)) = <<>>
    <3>1. r = p
      BY <1>4, <1>7, <2>1
    <3> QED
      BY <1>5, <1>6, <3>1
  <2>2. CASE term[n] = u /\ \E e \in Probes(n, u) : Only(o[x], Probes(n, u)) = <<e>> /\ e.entry.index = Goal(n, x)
    <3>1. r = Append(p, g)
      BY <1>0, <1>4, <1>7, <2>2
    <3>2. Linked(H, A, x, u, r, g, q)
      BY <1>1, <1>6, <2>2, <3>1, LinkedAgain
    <3>3. r \in Seq(Nat)
      BY <1>1, <3>1
    <3> QED
      BY <3>2, <3>3 DEF Linked
  <2> QED
    BY <2>1, <2>2
<1>9. InStep(H2, A2, x, u, r)'
  BY <1>8, InStepStays
<1>10. ASSUME term'[n] = u PROVE Linked(H2, A2, x, u, Ahead(n, x, u), Goal(n, x), Back(n, x, u))'
  <2>1. term[n] = u
    BY <1>2, <1>10
  <2>2. Linked(H2, A2, x, u, r, g, q)'
    BY <1>1, <1>8, <2>1, LinkedStays
  <2>3. Back(n, x, u)' = q
    <3>1. PICK q1 \in Seq(Nat) : BackGoes(a, took, o, n, x, u, q1)
      BY BackNext
    <3> QED
      BY <1>0, <1>10, <3>1 DEF BackGoes
  <2>4. Goal(n, x)' = g
    BY <1>0, <1>10
  <2> QED
    BY <1>7, <2>2, <2>3, <2>4
<1>11. InStep(H2, A2, x, u, Ahead(n, x, u))'
  BY <1>7, <1>9
<1> QED
  BY <1>10, <1>11 DEF ChainAt
-----------------------------------------------------------------------------
(* What answers and elections do to a chain. *)

\* x took over the first entry of the chain: the rest asks for that one or the next.
LEMMA AdoptedRest ==
  ASSUME TypeInv, NEW H \in Books, NEW A \in Counts, NEW A2 \in Counts,
         NEW x \in Nodes, NEW u \in Terms, NEW a \in Nat, Core(H, A), Adopted(H, A, A2, x, u, a),
         NEW c \in Nat, Fine(H, A, x, u, c), Follows(H, A, x, u, a, c)
  PROVE  /\ c = a \/ c = a + 1
         /\ Fine(H, A2, x, u, c)'
         /\ A[x][u] = 0 => c = a
<1>1. A2[x][u] = a + 1 /\ A[x][u] <= a + 1
  BY AdoptedFacts
<1>2. A[x][u] \in Nat /\ A2[x][u] \in Nat
  BY BookAtHand
<1>3. Fine(H, A, x, u, a) /\ Same(log[x], H[u], a)
  BY DEF Adopted
<1>4. A[x][u] = 0 => c = a
  BY <1>2, <1>3 DEF Follows
<1>5. c = a \/ c = a + 1
  BY <1>1, <1>2, <1>3, <1>4 DEF Fine, Follows
<1>6. c <= Len(H[u])
  BY DEF Fine
<1>7. Fine(H, A2, x, u, c)'
  BY <1>1, <1>5, <1>6 DEF Fine
<1> QED
  BY <1>4, <1>5, <1>7

\* Of what follows the entry x took over, the order is kept.
LEMMA AdoptedOrder ==
  ASSUME TypeInv, NEW H \in Books, NEW A \in Counts, NEW A2 \in Counts,
         NEW x \in Nodes, NEW u \in Terms, NEW a \in Nat, Core(H, A), Adopted(H, A, A2, x, u, a),
         NEW c \in Nat, Fine(H, A, x, u, c), Follows(H, A, x, u, a, c),
         NEW d \in Nat, Fine(H, A, x, u, d), Follows(H, A, x, u, a, d), Follows(H, A, x, u, c, d)
  PROVE  Follows(H, A2, x, u, c, d)'
<1>1. A2[x][u] = a + 1 /\ A[x][u] \in Nat
  BY AdoptedFacts, BookAtHand
<1>2. A[x][u] = 0 => c = a /\ d = a
  BY AdoptedRest
<1>3. c <= d
  BY <1>1, <1>2 DEF Follows
<1> QED
  BY <1>1, <1>3 DEF Follows

\* What follows it is a chain still,
LEMMA InStepAdopted ==
  ASSUME TypeInv, NEW H \in Books, NEW A \in Counts, NEW A2 \in Counts,
         NEW x \in Nodes, NEW u \in Terms, NEW a \in Nat, Core(H, A), Adopted(H, A, A2, x, u, a),
         NEW c \in Seq(Nat), InStep(H, A, x, u, c), \A i \in 1 .. Len(c) : Follows(H, A, x, u, a, c[i])
  PROVE  InStep(H, A2, x, u, c)'
<1>1. \A i \in 1 .. Len(c) : c[i] \in Nat
  BY Numbers
<1>2. ASSUME NEW i \in 1 .. Len(c) PROVE Fine(H, A2, x, u, c[i])'
  BY <1>1, AdoptedRest DEF InStep
<1>3. ASSUME NEW i \in 1 .. Len(c), NEW j \in 1 .. Len(c), i < j PROVE Follows(H, A2, x, u, c[i], c[j])'
  BY <1>1, <1>3, AdoptedOrder DEF InStep
<1> QED
  BY <1>2, <1>3 DEF InStep

\* and linked to what is noted and to the answers.
LEMMA LinkedAdopted ==
  ASSUME TypeInv, NEW H \in Books, NEW A \in Counts, NEW A2 \in Counts,
         NEW x \in Nodes, NEW u \in Terms, NEW a \in Nat, Core(H, A), Adopted(H, A, A2, x, u, a),
         NEW p \in Seq(Nat), NEW g \in Nat, NEW q \in Seq(Nat), Linked(H, A, x, u, p, g, q),
         Follows(H, A, x, u, a, g),
         \A i \in 1 .. Len(p) : Follows(H, A, x, u, a, p[i]), \A i \in 1 .. Len(q) : Follows(H, A, x, u, a, q[i])
  PROVE  Linked(H, A2, x, u, p, g, q)'
<1>1. (\A i \in 1 .. Len(p) : p[i] \in Nat) /\ (\A i \in 1 .. Len(q) : q[i] \in Nat)
  BY Numbers
<1>2. /\ \A i \in 1 .. Len(p) : Fine(H, A, x, u, p[i])
      /\ \A i \in 1 .. Len(q) : Fine(H, A, x, u, q[i])
  BY DEF Linked, InStep
<1>3. InStep(H, A2, x, u, p)' /\ InStep(H, A2, x, u, q)'
  BY InStepAdopted DEF Linked
<1>4. Fine(H, A2, x, u, g)'
  BY AdoptedRest DEF Linked
<1>5. ASSUME NEW i \in 1 .. Len(p) PROVE Follows(H, A2, x, u, p[i], g)'
  BY <1>1, <1>2, AdoptedOrder DEF Linked
<1>6. ASSUME NEW j \in 1 .. Len(q) PROVE Follows(H, A2, x, u, g, q[j])'
  BY <1>1, <1>2, AdoptedOrder DEF Linked
<1>7. ASSUME NEW i \in 1 .. Len(p), NEW j \in 1 .. Len(q) PROVE Follows(H, A2, x, u, p[i], q[j])'
  <2>1. Follows(H, A, x, u, p[i], q[j]) /\ p[i] \in Nat /\ q[j] \in Nat
    BY <1>1 DEF Linked
  <2> QED
    BY <1>2, <2>1, AdoptedOrder
<1> QED
  BY <1>3, <1>4, <1>5, <1>6, <1>7 DEF Linked

\* One more answer at the end.
LEMMA LinkedMore ==
  ASSUME NEW H, NEW A, NEW x, NEW u, NEW p \in Seq(Nat), NEW g \in Nat, NEW q \in Seq(Nat), NEW b \in Nat,
         Linked(H, A, x, u, p, g, q)', Fine(H, A, x, u, b)', Follows(H, A, x, u, g, b)',
         \A i \in 1 .. Len(p) : Follows(H, A, x, u, p[i], b)',
         \A i \in 1 .. Len(q) : Follows(H, A, x, u, q[i], b)'
  PROVE  Linked(H, A, x, u, p, g, Append(q, b))'
<1> DEFINE r == Append(q, b)
<1>1. /\ Len(r) = Len(q) + 1 /\ Len(q) \in Nat /\ r[Len(q) + 1] = b
      /\ \A i \in 1 .. Len(q) : r[i] = q[i]
  OBVIOUS
<1> HIDE DEF r
<1>2. ASSUME NEW i \in 1 .. Len(r) PROVE (i \in 1 .. Len(q) /\ r[i] = q[i]) \/ (i = Len(q) + 1 /\ r[i] = b)
  <2>1. i \in 1 .. Len(q) \/ i = Len(q) + 1
    BY <1>1
  <2> QED
    BY <1>1, <2>1
<1>3. ASSUME NEW i \in 1 .. Len(r) PROVE Fine(H, A, x, u, r[i])'
  BY <1>2 DEF Linked, InStep
<1>4. ASSUME NEW i \in 1 .. Len(r), NEW j \in 1 .. Len(r), i < j PROVE Follows(H, A, x, u, r[i], r[j])'
  <2>1. i \in 1 .. Len(q) /\ r[i] = q[i]
    BY <1>1, <1>4
  <2>2. CASE j \in 1 .. Len(q) /\ r[j] = q[j]
    BY <1>4, <2>1, <2>2 DEF Linked, InStep
  <2>3. CASE r[j] = b
    BY <2>1, <2>3
  <2> QED
    BY <1>2, <2>2, <2>3
<1>5. ASSUME NEW j \in 1 .. Len(r) PROVE Follows(H, A, x, u, g, r[j])'
  BY <1>2 DEF Linked
<1>6. ASSUME NEW i \in 1 .. Len(p), NEW j \in 1 .. Len(r) PROVE Follows(H, A, x, u, p[i], r[j])'
  BY <1>2 DEF Linked
<1>7. InStep(H, A, x, u, r)'
  BY <1>3, <1>4 DEF InStep
<1>8. Linked(H, A, x, u, p, g, r)'
  BY <1>5, <1>6, <1>7 DEF Linked
<1> QED
  BY <1>8 DEF r

\* The first of a chain and the rest.
LEMMA LinkedFirst ==
  ASSUME NEW H, NEW A, NEW x, NEW u, NEW p \in Seq(Nat), p # <<>>, NEW g, NEW q
  PROVE  /\ InStep(H, A, x, u, p) => /\ Fine(H, A, x, u, p[1])
                                     /\ \A i \in 1 .. Len(Tail(p)) : Follows(H, A, x, u, p[1], Tail(p)[i])
         /\ Linked(H, A, x, u, p, g, q) => /\ Follows(H, A, x, u, p[1], g)
                                           /\ \A j \in 1 .. Len(q) : Follows(H, A, x, u, p[1], q[j])
<1>1. /\ 1 \in 1 .. Len(p) /\ \A i \in 1 .. Len(Tail(p)) : i \in Int /\ i + 1 \in 1 .. Len(p) /\ Tail(p)[i] = p[i + 1]
  BY NumbersTail
<1>2. \A i \in 1 .. Len(Tail(p)) : 1 < i + 1
  OBVIOUS
<1> QED
  BY <1>1, <1>2 DEF Linked, InStep

\* A request that is taken over leaves the chain, and its answer, if it arrives, asks for the
\* next.
LEMMA ChainAdopted ==
  ASSUME TypeInv, TypeInv', NEW H \in Books, NEW A \in Counts, NEW A2 \in Counts, Core(H, A),
         NEW x \in Nodes, inbox[x] # <<>>, NEW o \in [Nodes -> Seq(Message)], Mailed(x, TRUE, o),
         NEW n \in Nodes, NEW u \in Terms, x # n,
         Head(inbox[x]) \in Probes(n, u), ChainAt(H, A, n, x, u),
         NEW a \in Nat, Head(inbox[x]).entry.index \in {a}, Adopted(H, A, A2, x, u, a),
         Goal(n, x)' = Goal(n, x), Only(o[x], Probes(n, u)) = <<>>,
         \/ Only(o[n], Answers(x, u)) = <<>>
         \/ \E r \in Answers(x, u) : Only(o[n], Answers(x, u)) = <<r>> /\ NextIndex(r) = a + 1
  PROVE  ChainAt(H, A2, n, x, u)'
<1>0. PICK g, q, p0 : g = Goal(n, x) /\ q = Back(n, x, u) /\ p0 = Ahead(n, x, u)
  OBVIOUS
<1>1. g \in Nat /\ q \in Seq(Nat) /\ p0 \in Seq(Nat)
  BY <1>0, Pieces
<1>2. term'[n] = term[n]
  BY DEF Adopted, TypeInv, ElectionType
<1>3. InStep(H, A, x, u, p0) /\ (term[n] = u => Linked(H, A, x, u, p0, g, q))
  BY <1>0 DEF ChainAt
<1>4. PICK p \in Seq(Nat) : AheadGoes(x, TRUE, o, n, x, u, p)
  BY AheadNext
<1>5. p0 # <<>> /\ p0[1] = a /\ p = Tail(p0) /\ Ahead(n, x, u)' = p
  BY <1>0, <1>4 DEF AheadGoes, Took
<1>6. InStep(H, A, x, u, p) /\ \A i \in 1 .. Len(p) : Follows(H, A, x, u, a, p[i])
  BY <1>1, <1>3, <1>5, InStepTail, LinkedFirst
<1>7. InStep(H, A2, x, u, p)'
  BY <1>6, InStepAdopted
<1>8. InStep(H, A2, x, u, Ahead(n, x, u))'
  BY <1>5, <1>7
<1>9. ASSUME term'[n] = u PROVE Linked(H, A2, x, u, Ahead(n, x, u), Goal(n, x), Back(n, x, u))'
  <2>1. Linked(H, A, x, u, p0, g, q)
    BY <1>2, <1>3, <1>9
  <2>2. Linked(H, A, x, u, p, g, q) /\ Follows(H, A, x, u, a, g) /\ \A j \in 1 .. Len(q) : Follows(H, A, x, u, a, q[j])
    BY <1>1, <1>5, <2>1, LinkedTail, LinkedFirst
  <2>3. Linked(H, A2, x, u, p, g, q)'
    BY <1>1, <1>6, <2>2, LinkedAdopted
  <2>4. PICK q1 \in Seq(Nat) : BackGoes(x, TRUE, o, n, x, u, q1)
    BY BackNext
  <2>5. q1 = q
    BY <1>0, <2>4 DEF BackGoes, Took
  <2>6. CASE Only(o[n], Answers(x, u)) = <<>>
    <3>1. Back(n, x, u)' = q
      BY <2>4, <2>5, <2>6 DEF BackGoes
    <3> QED
      BY <1>0, <1>5, <2>3, <3>1
  <2>7. CASE \E r \in Answers(x, u) : Only(o[n], Answers(x, u)) = <<r>> /\ NextIndex(r) = a + 1
    <3>1. Back(n, x, u)' = Append(q, a + 1)
      BY <2>4, <2>5, <2>7 DEF BackGoes
    <3>2. A2[x][u] = a + 1 /\ A2[x][u] > 0 /\ a + 1 <= Len(H[u])
      <4>1. a < Len(H[u]) /\ Len(H[u]) \in Nat
        BY BookAtHand DEF Adopted
      <4>2. A2[x][u] = a + 1
        BY AdoptedFacts
      <4> QED
        BY <4>1, <4>2
    <3>3. Fine(H, A2, x, u, a + 1)'
      BY <3>2 DEF Fine
    <3>4. ASSUME NEW c \in Nat, Fine(H, A, x, u, c), Follows(H, A, x, u, a, c)
          PROVE  Follows(H, A2, x, u, c, a + 1)'
      <4>1. c = a \/ c = a + 1
        BY <3>4, AdoptedRest
      <4> QED
        BY <3>2, <4>1 DEF Follows
    <3>5. (\A i \in 1 .. Len(p) : p[i] \in Nat) /\ (\A i \in 1 .. Len(q) : q[i] \in Nat)
      BY <1>1, Numbers
    <3>6. Follows(H, A2, x, u, g, a + 1)'
      BY <1>1, <2>2, <3>4 DEF Linked
    <3>7. ASSUME NEW i \in 1 .. Len(p) PROVE Follows(H, A2, x, u, p[i], a + 1)'
      BY <1>6, <3>4, <3>5 DEF InStep
    <3>8. ASSUME NEW i \in 1 .. Len(q) PROVE Follows(H, A2, x, u, q[i], a + 1)'
      BY <2>2, <3>4, <3>5 DEF Linked, InStep
    <3>9. Linked(H, A2, x, u, p, g, Append(q, a + 1))'
      <4>1. a + 1 \in Nat
        OBVIOUS
      <4> QED
        BY <1>1, <2>3, <3>3, <3>6, <3>7, <3>8, <4>1, LinkedMore
    <3> QED
      BY <1>0, <1>5, <3>1, <3>9
  <2> QED
    BY <2>6, <2>7
<1> QED
  BY <1>8, <1>9 DEF ChainAt

\* What does not fit is nothing x took over; and all it shares with the leader is before it.
LEMMA RefusedFacts ==
  ASSUME TypeInv, NEW H \in Books, NEW A \in Counts, Core(H, A), NEW x \in Nodes, NEW u \in Terms,
         term[x] <= u, NEW a \in Nat, Fine(H, A, x, u, a), ~Same(log[x], H[u], a)
  PROVE  /\ A[x][u] = 0 /\ a - 1 \in Nat
         /\ \A l \in Nat : Same(log[x], H[u], l) => l <= a
<1>1. PICK k \in Nat : k = A[x][u]
  BY BookAtHand
<1>2. Len(H[u]) \in Nat /\ Len(log[x]) \in Nat /\ term[x] \in Nat /\ u \in Nat
  BY BookAtHand, AtHand
<1>3. k = 0
  <2> SUFFICES ASSUME k > 0 PROVE FALSE
    OBVIOUS
  <2>1. a = k \/ a + 1 = k
    BY <1>1 DEF Fine
  <2>2. u <= term[x] /\ (term[x] = u => Same(log[x], H[u], k))
    BY <1>1 DEF Core, Held
  <2>3. Same(log[x], H[u], k)
    BY <1>2, <2>2
  <2>4. a <= k
    BY <2>1
  <2> QED
    BY <1>2, <2>3, <2>4, SameLess
<1>4. a # 0
  BY <1>2 DEF Same
<1>5. ASSUME NEW l \in Nat, Same(log[x], H[u], l) PROVE l <= a
  <2> SUFFICES ASSUME a <= l PROVE FALSE
    OBVIOUS
  <2> QED
    BY <1>2, <1>5, SameLess
<1> QED
  BY <1>1, <1>3, <1>4, <1>5

\* A request that is not goes too, and its answer asks for the one before.
LEMMA ChainRefused ==
  ASSUME TypeInv, TypeInv', NEW H \in Books, NEW A \in Counts, Core(H, A), Grown(H, A, H, A),
         NEW x \in Nodes, inbox[x] # <<>>, NEW o \in [Nodes -> Seq(Message)], Mailed(x, TRUE, o),
         NEW n \in Nodes, NEW u \in Terms, x # n, term[x] <= u,
         Head(inbox[x]) \in Probes(n, u), ChainAt(H, A, n, x, u),
         NEW a \in Nat, Head(inbox[x]).entry.index \in {a}, log' = log, term'[x] = u, term'[n] = term[n],
         ~Same(log[x], H[u], a),
         Goal(n, x)' = Goal(n, x), Only(o[x], Probes(n, u)) = <<>>,
         NEW r \in Answers(x, u), Only(o[n], Answers(x, u)) = <<r>>, NextIndex(r) = a - 1
  PROVE  ChainAt(H, A, n, x, u)'
<1>0. PICK g, q, p0 : g = Goal(n, x) /\ q = Back(n, x, u) /\ p0 = Ahead(n, x, u)
  OBVIOUS
<1>1. g \in Nat /\ q \in Seq(Nat) /\ p0 \in Seq(Nat)
  BY <1>0, Pieces
<1>3. InStep(H, A, x, u, p0) /\ (term[n] = u => Linked(H, A, x, u, p0, g, q))
  BY <1>0 DEF ChainAt
<1>4. PICK p \in Seq(Nat) : AheadGoes(x, TRUE, o, n, x, u, p)
  BY AheadNext
<1>5. p0 # <<>> /\ p0[1] = a /\ p = Tail(p0) /\ Ahead(n, x, u)' = p
  BY <1>0, <1>4 DEF AheadGoes, Took
<1>6. InStep(H, A, x, u, p) /\ \A i \in 1 .. Len(p) : Follows(H, A, x, u, a, p[i])
  BY <1>1, <1>3, <1>5, InStepTail, LinkedFirst
<1>s. Steady(H, A, H, A, x, u)
  <2>1. Len(H[u]) \in Nat /\ term'[x] <= u
    BY BookAtHand, AtHand
  <2> QED
    BY <2>1 DEF Steady
<1>7. InStep(H, A, x, u, p)'
  BY <1>6, <1>s, InStepStays
<1>8. InStep(H, A, x, u, Ahead(n, x, u))'
  BY <1>5, <1>7
<1>9. ASSUME term'[n] = u PROVE Linked(H, A, x, u, Ahead(n, x, u), Goal(n, x), Back(n, x, u))'
  <2>1. Linked(H, A, x, u, p0, g, q)
    BY <1>3, <1>9
  <2>2. Linked(H, A, x, u, p, g, q) /\ Follows(H, A, x, u, a, g) /\ \A j \in 1 .. Len(q) : Follows(H, A, x, u, a, q[j])
    BY <1>1, <1>5, <2>1, LinkedTail, LinkedFirst
  <2>3. Linked(H, A, x, u, p, g, q)'
    BY <1>1, <1>s, <2>2, LinkedStays
  <2>4. PICK q1 \in Seq(Nat) : BackGoes(x, TRUE, o, n, x, u, q1)
    BY BackNext
  <2>5. Back(n, x, u)' = Append(q, a - 1)
    BY <1>0, <2>4 DEF BackGoes, Took
  <2>6. Fine(H, A, x, u, a)
    BY <1>1, <1>3, <1>5, LinkedFirst
  <2>7. /\ Len(H[u]) \in Nat /\ Len(log[x]) \in Nat /\ A[x][u] \in Nat
        /\ term[x] \in Nat /\ u \in Nat
    BY BookAtHand, AtHand
  <2>8. A[x][u] = 0 /\ a - 1 \in Nat
    BY <2>6, RefusedFacts
  <2>9. a - 1 \in Nat
    BY <2>8
  <2>10. \A l \in Nat : Same(log[x], H[u], l) => l <= a
    BY <2>6, RefusedFacts
  <2>11. Fine(H, A, x, u, a - 1)'
    BY <2>6, <2>7, <2>8, <2>9, <2>10 DEF Fine
  <2>12. ASSUME NEW c \in Nat, Follows(H, A, x, u, a, c) PROVE Follows(H, A, x, u, c, a - 1)'
    BY <2>8, <2>9, <2>12 DEF Follows
  <2>13. (\A i \in 1 .. Len(p) : p[i] \in Nat) /\ (\A i \in 1 .. Len(q) : q[i] \in Nat)
    BY <1>1, Numbers
  <2>14. Linked(H, A, x, u, p, g, Append(q, a - 1))'
    BY <1>1, <1>6, <2>2, <2>3, <2>9, <2>11, <2>12, <2>13, LinkedMore
  <2> QED
    BY <1>0, <1>5, <2>5, <2>14
<1> QED
  BY <1>8, <1>9 DEF ChainAt

\* The leader takes an answer out and notes what it asks for.
LEMMA ChainAnswered ==
  ASSUME TypeInv, TypeInv', NEW H \in Books, NEW A \in Counts, Core(H, A), Grown(H, A, H, A),
         NEW n \in Nodes, inbox[n] # <<>>, NEW o \in [Nodes -> Seq(Message)], Mailed(n, TRUE, o),
         NEW x \in Nodes, NEW u \in Terms, x # n, term[n] = u, <<n, u>> \in elected,
         Steady(H, A, H, A, x, u), ChainAt(H, A, n, x, u),
         Head(inbox[n]) \in Answers(x, u), Only(o[n], Answers(x, u)) = <<>>,
         Goal(n, x)' = NextIndex(Head(inbox[n])) \/ (NextIndex(Head(inbox[n])) >= Len(H[u]) /\ Goal(n, x)' = Len(H[u])),
         \/ Only(o[x], Probes(n, u)) = <<>>
         \/ \E e \in Probes(n, u) : Only(o[x], Probes(n, u)) = <<e>> /\ e.entry.index = NextIndex(Head(inbox[n]))
  PROVE  ChainAt(H, A, n, x, u)'
<1>0. PICK g, q, p0 : g = Goal(n, x) /\ q = Back(n, x, u) /\ p0 = Ahead(n, x, u)
  OBVIOUS
<1>1. g \in Nat /\ q \in Seq(Nat) /\ p0 \in Seq(Nat)
  BY <1>0, Pieces
<1>2. Linked(H, A, x, u, p0, g, q)
  BY <1>0 DEF ChainAt
<1>3. PICK p \in Seq(Nat) : AheadGoes(n, TRUE, o, n, x, u, p)
  BY AheadNext
<1>4. /\ p = p0
      /\ Only(o[x], Probes(n, u)) = <<>> => Ahead(n, x, u)' = p
      /\ \A e \in Probes(n, u) : Only(o[x], Probes(n, u)) = <<e>> =>
           Ahead(n, x, u)' = Append(p, e.entry.index)
  BY <1>0, <1>3 DEF AheadGoes, Took
<1>5. PICK q1 \in Seq(Nat) : BackGoes(n, TRUE, o, n, x, u, q1)
  BY BackNext
<1>6. q # <<>> /\ q[1] = NextIndex(Head(inbox[n])) /\ q1 = Tail(q) /\ Back(n, x, u)' = q1
  BY <1>0, <1>5 DEF BackGoes, Took
<1>7. PICK b \in Nat : b = q[1]
  <2>1. 1 \in 1 .. Len(q)
    BY <1>1, <1>6
  <2> QED
    BY <1>1, <2>1, Numbers
<1>8. Linked(H, A, x, u, p, b, q1)
  BY <1>1, <1>2, <1>4, <1>6, <1>7, LinkedAnswer
<1>9. PICK r : r = Ahead(n, x, u)'
  OBVIOUS
<1>10. r \in Seq(Nat) /\ Linked(H, A, x, u, r, b, q1)
  <2>1. CASE Only(o[x], Probes(n, u)) = <<>>
    BY <1>4, <1>8, <1>9, <2>1
  <2>2. CASE \E e \in Probes(n, u) : Only(o[x], Probes(n, u)) = <<e>> /\ e.entry.index = NextIndex(Head(inbox[n]))
    <3>1. r = Append(p, b)
      BY <1>4, <1>6, <1>7, <1>9, <2>2
    <3> QED
      BY <1>8, <3>1, LinkedAgain
  <2> QED
    BY <2>1, <2>2
<1>11. Linked(H, A, x, u, r, b, q1)'
  BY <1>10, LinkedStays
<1>12. Goal(n, x)' = b
  <2>1. b <= Len(H[u]) /\ Len(H[u]) \in Nat
    BY <1>8, BookAtHand DEF Linked, Fine
  <2>2. NextIndex(Head(inbox[n])) = b
    BY <1>6, <1>7
  <2>3. Goal(n, x)' = b \/ (b >= Len(H[u]) /\ Goal(n, x)' = Len(H[u]))
    BY <2>2
  <2> QED
    BY <2>1, <2>3
<1>13. Linked(H, A, x, u, Ahead(n, x, u), Goal(n, x), Back(n, x, u))'
  BY <1>6, <1>9, <1>11, <1>12
<1> QED
  BY <1>13 DEF ChainAt, Linked

\* A new leader's chain begins with the last entry of its log, sent or not.
LEMMA ChainBegun ==
  ASSUME TypeInv, TypeInv', NEW H \in Books, NEW A \in Counts, NEW H2 \in Books, NEW A2 \in Counts,
         Core(H2, A2)',
         NEW n \in Nodes, inbox[n] # <<>>, NEW o \in [Nodes -> Seq(Message)], Mailed(n, TRUE, o),
         NEW x \in Nodes, NEW u \in Terms, x # n, term'[x] <= u,
         A2[x][u] = 0, NEW k \in Nat, k <= Len(H2[u]),
         \A i \in 1 .. Len(H2[u]) : i > k => H2[u][i].term = u,
         Only(inbox[x], Probes(n, u)) = <<>>, Only(inbox[n], Answers(x, u)) = <<>>,
         Only(o[n], Answers(x, u)) = <<>>,
         IF k = 0 THEN Goal(n, x)' = Len(H2[u]) ELSE Goal(n, x)' = k - 1,
         \/ Only(o[x], Probes(n, u)) = <<>>
         \/ \E e \in Probes(n, u) : Only(o[x], Probes(n, u)) = <<e>> /\ e.entry.index = Goal(n, x)'
  PROVE  ChainAt(H2, A2, n, x, u)'
<1>1. PICK g : g = Goal(n, x)'
  OBVIOUS
<1>2. Len(H2[u]) \in Nat /\ u \in Nat /\ \A i \in 1 .. Len(H2[u]) : H2[u][i].term \in Nat
  BY BookAtHand, AtHand
<1>3. g \in Nat /\ g <= Len(H2[u]) /\ k <= g + 1
  BY <1>1, <1>2
<1>4. ASSUME NEW l \in 1 .. Len(H2[u]), H2[u][l].term < u PROVE l <= g + 1
  <2>1. ~(l > k)
    BY <1>2, <1>4
  <2> QED
    BY <1>3, <2>1
<1>5. ASSUME term'[x] = u, NEW l \in Nat, Same(log'[x], H2[u], l) PROVE l <= g + 1
  <2> SUFFICES ASSUME l > k PROVE FALSE
    BY <1>3
  <2>1. l \in 1 .. Len(H2[u]) /\ l \in 1 .. Len(log'[x]) /\ log'[x][l] = H2[u][l]
    <3>1. Len(log'[x]) \in Nat
      BY AtHandNext
    <3> QED
      BY <1>2, <1>5, <3>1 DEF Same
  <2>2. log'[x][l].term = u
    BY <2>1
  <2>3. l <= A2[x][u]
    BY <1>5, <2>1, <2>2 DEF Core, Logs
  <2> QED
    BY <2>3
<1>6. Fine(H2, A2, x, u, g)'
  BY <1>3, <1>4, <1>5 DEF Fine
<1>7. Follows(H2, A2, x, u, g, g)'
  BY <1>3 DEF Follows
<1>8. Ahead(n, x, u) = <<>> /\ Back(n, x, u) = <<>>
  <2>1. Len(<<>>) = 0
    OBVIOUS
  <2> QED
    BY <2>1 DEF Ahead, Back, Indices, NextIndices
<1>9. PICK r : r = Ahead(n, x, u)'
  OBVIOUS
<1>10. r = <<>> \/ r = <<g>>
  <2>1. PICK p \in Seq(Nat) : AheadGoes(n, TRUE, o, n, x, u, p)
    BY AheadNext
  <2>2. p = <<>> /\ Append(p, g) = <<g>>
    BY <1>8, <2>1 DEF AheadGoes, Took
  <2>3. CASE Only(o[x], Probes(n, u)) = <<>>
    BY <1>9, <2>1, <2>2, <2>3 DEF AheadGoes
  <2>4. CASE \E e \in Probes(n, u) : Only(o[x], Probes(n, u)) = <<e>> /\ e.entry.index = Goal(n, x)'
    BY <1>1, <1>9, <2>1, <2>2, <2>4 DEF AheadGoes
  <2> QED
    BY <2>3, <2>4
<1>11. Back(n, x, u)' = <<>>
  <2>1. PICK q \in Seq(Nat) : BackGoes(n, TRUE, o, n, x, u, q)
    BY BackNext
  <2> QED
    BY <1>8, <2>1 DEF BackGoes, Took
<1>12. \A i \in 1 .. Len(r) : r[i] = g /\ i = 1
  <2>1. Len(<<>>) = 0 /\ Len(<<g>>) = 1 /\ <<g>>[1] = g
    OBVIOUS
  <2>2. CASE r = <<>>
    BY <2>1, <2>2
  <2>3. CASE r = <<g>>
    BY <2>1, <2>3
  <2> QED
    BY <1>10, <2>2, <2>3
<1>13. InStep(H2, A2, x, u, r)'
  BY <1>6, <1>12 DEF InStep
<1>14. Linked(H2, A2, x, u, r, g, <<>>)'
  BY <1>6, <1>7, <1>12, <1>13 DEF Linked, InStep
<1>15. Linked(H2, A2, x, u, Ahead(n, x, u), Goal(n, x), Back(n, x, u))'
  BY <1>1, <1>9, <1>11, <1>14
<1> QED
  BY <1>15 DEF ChainAt, Linked
=============================================================================
