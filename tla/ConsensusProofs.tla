-------------------------- MODULE ConsensusProofs --------------------------
(***************************************************************************)
(* Theorems about what the offices agree on, for any number of commands,   *)
(* terms and disruptions and any offices whose majorities meet: unless a   *)
(* node broke one of the three rules, log files agree, a majority has what *)
(* is in one, and no leader forgets to send an entry.  First the steps of  *)
(* leaders, then the invariant, then the theorems.                         *)
(*                                                                         *)
(* At the end, about Bank, for any accounts and any width of a usize: no   *)
(* sequence of commands takes a balance out of its range, and none makes   *)
(* or loses money.  The second needs what the recursion in SumFunction     *)
(* defines: a sum does not depend on the order of its terms, so changing   *)
(* one balance changes it by the difference.  That is proved by induction  *)
(* over the size of the set that is summed.  Books have finitely many      *)
(* accounts, because each was opened by a command.                         *)
(***************************************************************************)
EXTENDS RaftLogProofs, Bank

-----------------------------------------------------------------------------
(* The answers a leader gets. *)
\* The answer of x to entry a of the leader n of term u; b is the entry it asks for.
Heard(A, n, x, u, a, b) ==
  /\ x # n /\ <<n, u>> \in elected /\ term[n] = u /\ role[n] = "Leader"
  /\ inbox[n] # <<>> /\ Head(inbox[n]) \in Answers(x, u) /\ NextIndex(Head(inbox[n])) \in {b}
  /\ a < Len(log[n]) /\ SetUp
  /\ (b = a + 1 /\ a < A[x][u]) \/ b + 1 = a

\* For one entry of n's one office more is counted, and rightly.
Counted(A, n, x, u, a) ==
  \A m \in Nodes : \A i \in 1 .. Len(log[m]) : \A y \in acks'[m][i] :
    y \in acks[m][i] \/ (m = n /\ i = a + 1 /\ y = x /\ a < A[x][u])

\* n writes its log file up to entry a, if a majority has that, or not at all.
Filed(n, u, a) ==
  \/ applied'[n] = applied[n]
  \/ /\ Len(applied[n]) <= a /\ log[n][a + 1].term = u /\ Majority(n, Cardinality(acks'[n][a + 1]))
     /\ applied'[n] = applied[n] \o SubSeq(log[n], Len(applied[n]) + 1, a + 1)

\* The entry b is noted for x, or none if there is none.
Notes(n, x, b) == pending' = [pending EXCEPT ![n][x] = EntryData(log[n], b)]

\* What the leader does with an answer of its term, if it does not stray.
LEMMA ResponseFacts ==
  ASSUME NEW v \in Ballots, Explained(v), NEW H \in Books, NEW A \in Counts, LogInv(v, H, A),
         NEW n \in Nodes, HandleResponse(n), ~strayed'
  PROVE  /\ UNCHANGED <<nodes, role, term, elected, log, pending_cmds>>
         /\ \A m \in Nodes : m # n => acks'[m] = acks[m] /\ applied'[m] = applied[m]
         /\ \E x \in Nodes, u \in Terms, a \in Nat, b \in Nat, reply \in Seq(Message) :
              /\ Heard(A, n, x, u, a, b) /\ H[u] = log[n]
              /\ Counted(A, n, x, u, a) /\ Filed(n, u, a)
              /\ Notes(n, x, b)
              /\ Deliver(n, To(x, reply))
              /\ \/ reply = <<>>
                 \/ \E e \in Probes(n, u) : reply = <<e>> /\ e.entry = EntryData(log[n], b)
<1> DEFINE msg == Head(inbox[n])
           counts == msg.success /\ committed(n) <= msg.index
           acks1 == IF counts THEN [acks EXCEPT ![n][msg.index + 1] = @ \cup {msg.src}] ELSE acks
           commit == counts /\ Majority(n, Cardinality(acks1[n][msg.index + 1]))
           applied1 == IF commit
                       THEN [applied EXCEPT ![n] = @ \o SubSeq(log[n], Len(@) + 1, msg.index + 1)]
                       ELSE applied
           next == EntryData(log[n], IF msg.success THEN msg.index + 1 ELSE msg.index - 1)
           reply == IF next = None THEN <<>>
                     ELSE <<[AppendEntry(n, next) EXCEPT !.committed = Len(applied1[n])]>>
<1>d. /\ Received(n, "AppendEntryResponse") /\ msg.term = term[n]
      /\ acks' = acks1 /\ applied' = applied1
      /\ pending' = [pending EXCEPT ![n][msg.src] = next]
      /\ strayed' = (strayed \/ (commit /\ log[n][msg.index + 1].term # term[n]))
      /\ Deliver(n, To(msg.src, reply))
      /\ UNCHANGED <<nodes, role, term, elected, log, pending_cmds>>
  BY Zenon DEF HandleResponse, setupVars
<1>e. acks1 = IF counts THEN [acks EXCEPT ![n][msg.index + 1] = @ \cup {msg.src}] ELSE acks
  OBVIOUS
<1>f. applied1 = IF commit THEN [applied EXCEPT ![n] = @ \o SubSeq(log[n], Len(@) + 1, msg.index + 1)]
                 ELSE applied
  OBVIOUS
<1>g. commit = (counts /\ Majority(n, Cardinality(acks1[n][msg.index + 1])))
  OBVIOUS
<1>h. reply = IF next = None THEN <<>> ELSE <<[AppendEntry(n, next) EXCEPT !.committed = Len(applied1[n])]>>
  OBVIOUS
<1>m. /\ msg = Head(inbox[n])
      /\ counts = (msg.success /\ committed(n) <= msg.index)
      /\ next = EntryData(log[n], IF msg.success THEN msg.index + 1 ELSE msg.index - 1)
  OBVIOUS
<1> HIDE DEF msg, counts, acks1, commit, applied1, next, reply
<1>0. TypeInv /\ TypeInv' /\ Core(H, A) /\ Mail(H, A) /\ Setting(H) /\ Leaders(H, A)
  BY HandleResponseInd DEF Explained, LogInv, Core
<1>1. /\ Received(n, "AppendEntryResponse") /\ msg.term = term[n]
      /\ acks' = acks1
      /\ \/ /\ counts /\ Majority(n, Cardinality(acks1[n][msg.index + 1]))
            /\ applied' = [applied EXCEPT ![n] = @ \o SubSeq(log[n], Len(@) + 1, msg.index + 1)]
            /\ log[n][msg.index + 1].term = term[n]
         \/ applied' = applied
      /\ pending' = [pending EXCEPT ![n][msg.src] = next]
      /\ Deliver(n, To(msg.src, reply))
      /\ UNCHANGED <<nodes, role, term, elected, log, pending_cmds>>
  <2>1. CASE commit
    <3>1. applied' = [applied EXCEPT ![n] = @ \o SubSeq(log[n], Len(@) + 1, msg.index + 1)]
      BY <1>d, <1>f, <2>1, Zenon
    <3>2. log[n][msg.index + 1].term = term[n]
      BY <1>d, <2>1
    <3>3. counts /\ Majority(n, Cardinality(acks1[n][msg.index + 1]))
      BY <1>g, <2>1, Zenon
    <3> QED
      BY <1>d, <3>1, <3>2, <3>3, Zenon
  <2>2. CASE ~commit
    <3>1. applied' = applied
      BY <1>d, <1>f, <2>2, Zenon
    <3> QED
      BY <1>d, <3>1, Zenon
  <2> QED
    BY <2>1, <2>2, Zenon
<1>2. /\ msg \in Message /\ inbox[n] # <<>> /\ msg.type = "AppendEntryResponse"
      /\ msg.src \in Nodes /\ msg.index \in Nat /\ msg.success \in BOOLEAN
      /\ msg.success \/ msg.index > 0
      /\ MailOk(H, A, n, msg)
  <2>1. msg \in Message /\ inbox[n] # <<>> /\ msg.type = "AppendEntryResponse"
    BY <1>m, <1>0, <1>1, FirstInInbox
  <2>2. MailOk(H, A, n, msg)
    BY <1>m, <1>0, <2>1, FirstMail
  <2> QED
    BY <2>1, <2>2, Carries
<1>3. /\ msg.src # n /\ <<n, msg.term>> \in elected /\ msg.index < Len(H[msg.term])
      /\ msg.success => msg.index < A[msg.src][msg.term]
  BY <1>2 DEF MailOk
<1>4. PICK x \in Nodes, u \in Terms, a \in Nat : x = msg.src /\ u = msg.term /\ a = msg.index
  BY <1>0, <1>2, <1>3 DEF TypeInv, ElectionType
<1>5. role[n] = "Leader" /\ H[u] = log[n] /\ term[n] = u
  BY <1>0, <1>1, <1>3, <1>4, WinnerLeads
<1>6. /\ log[n] \in Seq(Entries) /\ applied[n] \in Seq(Entries) /\ acks[n] \in Seq(SUBSET Nodes)
      /\ Len(acks[n]) = Len(log[n]) /\ Len(log[n]) \in Nat
      /\ applied \in [Nodes -> Seq(Entries)] /\ acks \in [Nodes -> Seq(SUBSET Nodes)]
  <2>1. applied \in [Nodes -> Seq(Entries)] /\ acks \in [Nodes -> Seq(SUBSET Nodes)]
    BY <1>0 DEF TypeInv, LogType
  <2> QED
    BY <1>0, <2>1, AtHand
<1>7. a < Len(log[n]) /\ SetUp
  <2>1. a < Len(log[n])
    BY <1>3, <1>4, <1>5
  <2>2. log[n] # <<>>
    <3>1. Len(<<>>) = 0
      OBVIOUS
    <3> QED
      BY <2>1, <3>1
  <2> QED
    BY <1>0, <2>1, <2>2 DEF Setting
<1>8. PICK b \in Nat : /\ b = (IF msg.success THEN msg.index + 1 ELSE msg.index - 1)
                       /\ (b = a + 1 /\ a < A[x][u]) \/ b + 1 = a
  <2>1. CASE msg.success = TRUE
    BY <1>3, <1>4, <2>1
  <2>2. CASE msg.success = FALSE
    <3>1. a > 0
      BY <1>2, <1>4, <2>2
    <3> QED
      BY <1>4, <2>2, <3>1
  <2> QED
    BY <1>2, <2>1, <2>2
<1>9. next = EntryData(log[n], b)
  BY <1>m, <1>8
<1>10. Heard(A, n, x, u, a, b)
  <2>1. msg \in Answers(x, u) /\ NextIndex(msg) = b
    BY <1>2, <1>4, <1>8 DEF Answers, NextIndex
  <2> QED
    BY <1>m, <1>2, <1>3, <1>4, <1>5, <1>7, <1>8, <2>1 DEF Heard
<1>11. a + 1 \in 1 .. Len(log[n]) /\ a + 1 \in DOMAIN acks[n]
  BY <1>6, <1>7
<1>12. Counted(A, n, x, u, a)
  <2> SUFFICES ASSUME NEW m \in Nodes, NEW i \in 1 .. Len(log[m]), NEW y \in acks'[m][i],
                      y \notin acks[m][i]
               PROVE  m = n /\ i = a + 1 /\ y = x /\ a < A[x][u]
    BY DEF Counted
  <2>1. counts /\ acks' = [acks EXCEPT ![n][a + 1] = @ \cup {x}]
    <3>1. CASE ~counts
      <4>1. acks' = acks
        BY <1>e, <1>1, <3>1
      <4>2. acks'[m][i] = acks[m][i]
        BY <4>1
      <4> QED
        BY <4>2
    <3>2. CASE counts
      <4>1. acks' = [acks EXCEPT ![n][msg.index + 1] = @ \cup {msg.src}]
        BY <1>e, <1>1, <3>2, Zenon
      <4> QED
        BY <1>4, <3>2, <4>1
    <3> QED
      BY <3>1, <3>2
  <2>2. a < A[x][u]
    BY <1>m, <1>3, <1>4, <2>1
  <2>3. m = n
    BY <1>6, <2>1
  <2>4. acks'[n] = [acks[n] EXCEPT ![a + 1] = @ \cup {x}]
    BY <1>6, <2>1
  <2>5. i \in DOMAIN acks[n]
    BY <1>6, <2>3
  <2>6. i = a + 1 /\ y = x
    BY <1>11, <2>3, <2>4, <2>5
  <2> QED
    BY <2>2, <2>3, <2>6
<1>13. Filed(n, u, a) /\ \A m \in Nodes : m # n => acks'[m] = acks[m] /\ applied'[m] = applied[m]
  <2>1. CASE applied' = applied
    <3>1. \A m \in Nodes : m # n => acks'[m] = acks[m]
      BY <1>e, <1>1, <1>6
    <3> QED
      BY <2>1, <3>1 DEF Filed
  <2>2. CASE /\ counts /\ Majority(n, Cardinality(acks1[n][msg.index + 1]))
             /\ applied' = [applied EXCEPT ![n] = @ \o SubSeq(log[n], Len(@) + 1, msg.index + 1)]
             /\ log[n][msg.index + 1].term = term[n]
    <3>1. Len(applied[n]) <= a
      BY <1>m, <1>4, <2>2 DEF committed
    <3>2. log[n][a + 1].term = u /\ Majority(n, Cardinality(acks'[n][a + 1]))
      BY <1>1, <1>4, <1>5, <2>2
    <3>3. /\ applied'[n] = applied[n] \o SubSeq(log[n], Len(applied[n]) + 1, a + 1)
          /\ \A m \in Nodes : m # n => applied'[m] = applied[m]
      BY <1>4, <1>6, <2>2
    <3>4. \A m \in Nodes : m # n => acks'[m] = acks[m]
      BY <1>e, <1>1, <1>6
    <3> QED
      BY <3>1, <3>2, <3>3, <3>4 DEF Filed
  <2> QED
    BY <1>1, <2>1, <2>2
<1>14. /\ reply \in Seq(Message)
       /\ reply = <<>> \/ \E e \in Probes(n, u) : reply = <<e>> /\ e.entry = EntryData(log[n], b)
  <2>1. CASE next = None
    BY <1>h, <2>1
  <2>2. CASE next # None
    <3>1. PICK sent : sent = [AppendEntry(n, next) EXCEPT !.committed = Len(applied'[n])]
      OBVIOUS
    <3>2. Len(applied'[n]) \in Nat /\ term[n] \in 0 .. MaxTerm
      BY <1>0, AtHand, AtHandNext
    <3>3. sent = [type |-> "AppendEntry", src |-> n, term |-> term[n],
                  committed |-> Len(applied'[n]), entry |-> next]
      BY <3>1 DEF AppendEntry
    <3>4. next \in Sendable
      BY <1>6, <1>9, <2>2, EntryDataType
    <3>5. sent \in Message /\ sent.type = "AppendEntry" /\ sent.src = n /\ sent.term = u /\ sent.entry = next
      BY <1>5, <3>2, <3>3, <3>4 DEF Message
    <3>6. sent \in Probes(n, u)
      BY <2>2, <3>5 DEF Probes
    <3>7. reply = <<sent>>
      BY <1>d, <1>h, <2>2, <3>1
    <3>8. reply \in Seq(Message)
      BY <3>5, <3>7
    <3> QED
      BY <1>9, <3>5, <3>6, <3>7, <3>8
  <2> QED
    BY <2>1, <2>2
<1>15. Notes(n, x, b) /\ Deliver(n, To(x, reply))
  BY <1>1, <1>4, <1>9 DEF Notes
<1> QED
  BY <1>1, <1>5, <1>10, <1>12, <1>13, <1>14, <1>15

\* Once all are connected, a majority of those a node knows is one of all.
LEMMA MajorityOfAll ==
  ASSUME SetUp, NEW n \in Nodes, NEW k \in Nat, Majority(n, k)
  PROVE  2 * k > Cardinality(Nodes)
<1>1. Cardinality(Nodes) \in Nat
  BY NodesAssumption, FS_CardinalityType
<1>2. nodes[n] = Nodes \ {n}
  BY DEF SetUp, Others
<1>3. Cardinality(nodes[n]) = Cardinality(Nodes) - 1
  BY <1>2, NodesAssumption, FS_RemoveElement
<1>4. k > ((Cardinality(Nodes) - 1) + 1) \div 2
  BY <1>3 DEF Majority
<1> QED
  BY <1>1, <1>4

\* What a leader commits is chosen: it counts offices that took it over, and the entry is of its term.
LEMMA HeardFiles ==
  ASSUME TypeInv, TypeInv', NEW H \in Books, NEW A \in Counts, Core(H, A), Files(H, A), Acked(A)',
         Grown(H, A, H, A), UNCHANGED <<role, term, log>>,
         NEW n \in Nodes, NEW u \in Terms, NEW a \in Nat, role[n] = "Leader", term[n] = u, SetUp,
         a < Len(log[n]), H[u] = log[n], Filed(n, u, a),
         \A m \in Nodes : m # n => applied'[m] = applied[m]
  PROVE  Files(H, A)'
<1> SUFFICES ASSUME NEW m \in Nodes
             PROVE  Covered(H, A, applied[m], term[m])' /\ Same(log'[m], applied'[m], Len(applied'[m]))
  BY DEF Files
<1>1. /\ Len(applied[m]) \in Nat /\ Len(log[m]) \in Nat /\ log[m] \in Seq(Entries)
      /\ applied[m] \in Seq(Entries) /\ u \in Nat
      /\ Same(log[m], applied[m], Len(applied[m]))
  BY AtHand DEF Files
<1>2. CASE applied'[m] = applied[m]
  <2>1. Len(applied[m]) <= Len(log[m])
    BY <1>1 DEF Same
  <2>2. Same(log'[m], log[m], Len(applied[m]))
    BY <1>1, <2>1, SameSelf
  <2> QED
    BY <1>2, <2>2, FilesStay
<1>3. CASE applied'[m] # applied[m]
  <2>1. m = n
    BY <1>3
  <2>2. /\ Len(applied[n]) <= a /\ log[n][a + 1].term = u /\ Majority(n, Cardinality(acks'[n][a + 1]))
        /\ applied'[n] = applied[n] \o SubSeq(log[n], Len(applied[n]) + 1, a + 1)
    BY <1>3, <2>1 DEF Filed
  <2>3. PICK s \in Seq(Entries), c \in Nat : s = applied[n] /\ c = a + 1 /\ Len(s) <= c /\ c <= Len(log[n])
    <3>1. applied[n] \in Seq(Entries) /\ Len(applied[n]) \in Nat /\ Len(log[n]) \in Nat
      BY AtHand
    <3>2. a + 1 \in Nat /\ Len(applied[n]) <= a + 1 /\ a + 1 <= Len(log[n])
      <4>1. Len(applied[n]) <= a
        BY <2>2
      <4>2. PICK i \in Nat, j \in Nat : i = Len(applied[n]) /\ j = Len(log[n]) /\ i <= a /\ a < j
        BY <3>1, <4>1
      <4> QED
        BY <4>2
    <3> QED
      BY <3>1, <3>2
  <2>4. PICK r \in Seq(Entries) : r = applied'[n] /\ Len(r) = c /\ Same(log[n], r, c)
    <3>1. /\ Len(s \o SubSeq(log[n], Len(s) + 1, c)) = c
          /\ Same(log[n], s \o SubSeq(log[n], Len(s) + 1, c), c)
          /\ s \o SubSeq(log[n], Len(s) + 1, c) \in Seq(Entries)
      <4>1. log[n] \in Seq(Entries) /\ Same(log[n], s, Len(s))
        BY <1>1, <2>1, <2>3
      <4>2. PICK lg \in Seq(Entries) :
                   lg = log[n] /\ Same(lg, s, Len(s)) /\ Len(s) <= c /\ c <= Len(lg)
        BY <2>3, <4>1
      <4>3. /\ Len(s \o SubSeq(lg, Len(s) + 1, c)) = c
            /\ Same(lg, s \o SubSeq(lg, Len(s) + 1, c), c)
            /\ s \o SubSeq(lg, Len(s) + 1, c) \in Seq(Entries)
        BY <4>2, LongerFile
      <4> QED
        BY <4>2, <4>3
    <3>2. applied'[n] = s \o SubSeq(log[n], Len(s) + 1, c)
      BY <2>2, <2>3
    <3> QED
      BY <3>1, <3>2
  <2>5. PICK Q \in SUBSET Nodes : Q = acks'[n][c]
    <3>1. acks'[n] \in Seq(SUBSET Nodes) /\ Len(acks'[n]) = Len(log'[n])
      BY DEF TypeInv, LogType
    <3>2. c \in 1 .. Len(acks'[n])
      BY <2>3, <3>1
    <3> QED
      BY <3>1, <3>2
  <2>6. Maj(Q)
    <3>1. Cardinality(Q) \in Nat
      BY NodesAssumption, FS_Subset, FS_CardinalityType
    <3>2. Majority(n, Cardinality(Q))
      BY <2>2, <2>3, <2>5
    <3> QED
      BY <3>1, <3>2, MajorityOfAll DEF Maj
  <2>7. \A y \in Q : c <= A[y][u]
    <3>1. c \in 1 .. Len(log'[n]) /\ log'[n][c].term = term'[n] /\ role'[n] = "Leader"
      BY <2>2, <2>3
    <3>2. \A y \in acks'[n][c] : c <= A[y][term'[n]]
      BY <3>1 DEF Acked
    <3> QED
      BY <2>5, <3>2
  <2>8. Chosen(H, A, u, c)
    <3>1. c \in 1 .. Len(H[u]) /\ H[u][c].term = u
      BY <2>2, <2>3
    <3> QED
      BY <2>6, <2>7, <3>1 DEF Chosen
  <2>9. Same(r, H[u], Len(r))
    BY <2>4, SameSwapped
  <2>10. Covered(H, A, r, u)
    <3>1. u <= u /\ Len(r) <= c
      BY <1>1, <2>4
    <3> QED
      BY <2>8, <2>9, <3>1 DEF Covered
  <2>11. Covered(H, A, applied[m], term[m])'
    <3>1. Covered(H, A, applied'[n], term'[n])
      BY <2>4, <2>10
    <3> QED
      BY <2>1, <3>1 DEF Covered, Chosen
  <2>12. Same(log'[m], applied'[m], Len(applied'[m]))
    BY <2>1, <2>4
  <2> QED
    BY <2>11, <2>12
<1> QED
  BY <1>2, <1>3

\* Who answered that it has the entry is counted for it, and has it.
LEMMA HeardAcked ==
  ASSUME TypeInv, TypeInv', NEW A \in Counts, Acked(A), UNCHANGED <<role, term, log>>,
         NEW n \in Nodes, NEW x \in Nodes, NEW u \in Terms, NEW a \in Nat, term[n] = u,
         Counted(A, n, x, u, a)
  PROVE  Acked(A)'
<1> SUFFICES ASSUME NEW m \in Nodes, role'[m] = "Leader", NEW i \in 1 .. Len(log'[m]),
                    log'[m][i].term = term'[m], NEW y \in acks'[m][i]
             PROVE  i <= A[y][term'[m]]
  BY DEF Acked
<1>1. y \in acks[m][i] \/ (m = n /\ i = a + 1 /\ y = x /\ a < A[x][u])
  BY DEF Counted
<1>2. CASE y \in acks[m][i]
  BY <1>2 DEF Acked
<1>3. CASE m = n /\ i = a + 1 /\ y = x /\ a < A[x][u]
  <2>1. PICK k \in Nat : k = A[x][u]
    BY DEF Counts
  <2>2. a + 1 <= k
    BY <1>3, <2>1
  <2> QED
    BY <1>3, <2>1, <2>2
<1> QED
  BY <1>1, <1>2, <1>3

\* The only message sent is a request to x for entry b.
Probed(o, n, x, u, b) ==
  /\ \A y \in Nodes : y # x => o[y] = <<>>
  /\ o[x] = <<>> \/ \E e \in Probes(n, u) : o[x] = <<e>> /\ e.entry = EntryData(log[n], b)

\* What is sent back goes to who answered, if it goes at all.
LEMMA HeardMailed ==
  ASSUME TypeInv, NEW n \in Nodes, inbox[n] # <<>>, NEW x \in Nodes, NEW u \in Terms, NEW b \in Nat,
         NEW reply \in Seq(Message), Deliver(n, To(x, reply)),
         reply = <<>> \/ \E e \in Probes(n, u) : reply = <<e>> /\ e.entry = EntryData(log[n], b)
  PROVE  \E o \in [Nodes -> Seq(Message)] : Mailed(n, TRUE, o) /\ Probed(o, n, x, u, b)
<1>1. PICK out \in [Nodes -> Seq(Message)] : out = To(x, reply)
  <2>1. To(x, reply) \in [Nodes -> Seq(Message)]
    BY DEF To
  <2> QED
    BY <2>1
<1>2. out[x] = reply /\ \A y \in Nodes : y # x => out[y] = <<>>
  BY <1>1 DEF To
<1>3. PICK o \in [Nodes -> Seq(Message)] :
        /\ Mailed(n, TRUE, o)
        /\ o = [m \in Nodes |-> IF m # n /\ m \in nodes[n] /\ Reaches(n, m) THEN out[m] ELSE <<>>]
  BY <1>1, DeliverMailed
<1>4. \A m \in Nodes : o[m] = <<>> \/ o[m] = out[m]
  BY <1>3
<1>5. Probed(o, n, x, u, b)
  <2>1. \A y \in Nodes : y # x => o[y] = <<>>
    BY <1>2, <1>4
  <2>2. o[x] = <<>> \/ o[x] = reply
    BY <1>2, <1>4
  <2> QED
    BY <2>1, <2>2 DEF Probed
<1> QED
  BY <1>3, <1>5

\* What is on its way then is at most one request more.
LEMMA ProbedFacts ==
  ASSUME TypeInv, NEW n \in Nodes, NEW x \in Nodes, x # n, NEW u \in Terms, NEW b \in Nat,
         NEW o \in [Nodes -> Seq(Message)], Probed(o, n, x, u, b)
  PROVE  /\ \A k, y \in Nodes, w \in Terms : Only(o[k], Answers(y, w)) = <<>>
         /\ \A k, y \in Nodes, w \in Terms : k # n \/ y # x \/ w # u => Only(o[y], Probes(k, w)) = <<>>
         /\ \A y \in Nodes : \A i \in 1 .. Len(o[y]) :
              y = x /\ o[y][i] \in Probes(n, u) /\ o[y][i].entry = EntryData(log[n], b)
         /\ \/ Only(o[x], Probes(n, u)) = <<>>
            \/ \E e \in Probes(n, u) : Only(o[x], Probes(n, u)) = <<e>> /\ e.entry = EntryData(log[n], b)
<1>1. \A S : Only(<<>>, S) = <<>>
  BY OnlyEmpty
<1>2. Len(<<>>) = 0
  OBVIOUS
<1>3. CASE o[x] = <<>>
  <2>1. \A y \in Nodes : o[y] = <<>>
    BY <1>3 DEF Probed
  <2> QED
    BY <1>1, <1>2, <2>1
<1>4. CASE o[x] # <<>>
  <2>1. PICK e \in Probes(n, u) : o[x] = <<e>> /\ e.entry = EntryData(log[n], b)
    BY <1>4 DEF Probed
  <2>2. \A y \in Nodes : y # x => o[y] = <<>>
    BY DEF Probed
  <2>3. e \in Message /\ e.type = "AppendEntry" /\ e.src = n /\ e.term = u
    BY DEF Probes
  <2>4. ASSUME NEW S, e \notin S PROVE Only(o[x], S) = <<>>
    BY <2>1, <2>3, <2>4, OnlyOne
  <2>5. ASSUME NEW k \in Nodes, NEW y \in Nodes, NEW w \in Terms PROVE Only(o[k], Answers(y, w)) = <<>>
    <3>1. e \notin Answers(y, w)
      BY <2>3 DEF Answers
    <3> QED
      BY <1>1, <2>2, <2>4, <3>1
  <2>6. ASSUME NEW k \in Nodes, NEW y \in Nodes, NEW w \in Terms, k # n \/ y # x \/ w # u
        PROVE  Only(o[y], Probes(k, w)) = <<>>
    <3>1. y = x => e \notin Probes(k, w)
      BY <2>3, <2>6 DEF Probes
    <3> QED
      BY <1>1, <2>2, <2>4, <3>1
  <2>7. ASSUME NEW y \in Nodes, NEW i \in 1 .. Len(o[y])
        PROVE  y = x /\ o[y][i] = e
    <3>1. y = x
      BY <1>2, <2>2, <2>7
    <3>2. Len(<<e>>) = 1 /\ <<e>>[1] = e
      OBVIOUS
    <3> QED
      BY <2>1, <2>7, <3>1, <3>2
  <2>8. Only(o[x], Probes(n, u)) = <<e>>
    BY <2>1, <2>3, OnlyOne
  <2> QED
    BY <2>1, <2>5, <2>6, <2>7, <2>8
<1> QED
  BY <1>3, <1>4

\* What is sent, if anything, is one entry for x.
ProbedOnly(o, n, x, u, b) ==
  \A y \in Nodes : \A i \in 1 .. Len(o[y]) :
    y = x /\ o[y][i] \in Probes(n, u) /\ o[y][i].entry = EntryData(log[n], b)

\* The same in one formula.
LEMMA OnlyProbed ==
  ASSUME TypeInv, NEW n \in Nodes, NEW x \in Nodes, x # n, NEW u \in Terms, NEW b \in Nat,
         NEW o \in [Nodes -> Seq(Message)], Probed(o, n, x, u, b)
  PROVE  ProbedOnly(o, n, x, u, b)
BY ProbedFacts DEF ProbedOnly
\* What n notes for x after its answer.
LEMMA HeardNote ==
  ASSUME TypeInv, NEW n \in Nodes, NEW x \in Nodes, NEW b \in Nat,
         Notes(n, x, b), UNCHANGED log
  PROVE  /\ b < Len(log[n]) => /\ pending'[n][x] # None /\ pending'[n][x] = EntryData(log[n], b)
                               /\ pending'[n][x].index = b
         /\ b >= Len(log[n]) => pending'[n][x] = None
         /\ \A k, y \in Nodes : k # n \/ y # x => pending'[k][y] = pending[k][y] /\ Goal(k, y)' = Goal(k, y)
         /\ Goal(n, x)' = (IF b < Len(log[n]) THEN b ELSE Len(log[n]))
<1>1. /\ pending'[n][x] = EntryData(log[n], b)
      /\ \A k, y \in Nodes : k # n \/ y # x => pending'[k][y] = pending[k][y]
  BY DEF TypeInv, LogType, Notes
<1>2. log[n] \in Seq(Entries) /\ Len(log[n]) \in Nat
  BY AtHand
<1>3. \A k, y \in Nodes : k # n \/ y # x => Goal(k, y)' = Goal(k, y)
  BY <1>1 DEF Goal
<1>4. CASE b < Len(log[n])
  <2>1. EntryData(log[n], b) # None
    BY <1>2, <1>4, SentEntry
  <2>2. EntryData(log[n], b).index = b
    BY <1>4 DEF EntryData
  <2>3. Goal(n, x)' = b
    BY <1>1, <2>1, <2>2 DEF Goal
  <2> QED
    BY <1>1, <1>2, <1>3, <1>4, <2>1, <2>2, <2>3
<1>5. CASE ~(b < Len(log[n]))
  <2>1. EntryData(log[n], b) = None
    BY <1>5 DEF EntryData
  <2>2. Goal(n, x)' = Len(log[n])
    BY <1>1, <2>1 DEF Goal
  <2> QED
    BY <1>1, <1>3, <1>5, <2>1, <2>2
<1> QED
  BY <1>4, <1>5

\* The answer leaves its chain; what it asks for is noted, and perhaps sent.
LEMMA HeardChains ==
  ASSUME TypeInv, TypeInv', NEW H \in Books, NEW A \in Counts, Core(H, A), Grown(H, A, H, A), Chains(H, A),
         UNCHANGED <<role, term, elected, log>>,
         NEW n \in Nodes, NEW x \in Nodes, NEW u \in Terms, NEW a \in Nat, NEW b \in Nat,
         Heard(A, n, x, u, a, b), H[u] = log[n],
         Notes(n, x, b),
         NEW o \in [Nodes -> Seq(Message)], Mailed(n, TRUE, o), Probed(o, n, x, u, b)
  PROVE  Chains(H, A)'
<1>1. /\ x # n /\ <<n, u>> \in elected /\ term[n] = u
      /\ inbox[n] # <<>> /\ Head(inbox[n]) \in Answers(x, u) /\ NextIndex(Head(inbox[n])) \in {b}
  BY DEF Heard
<1>0. /\ \A k, y \in Nodes, w \in Terms : Only(o[k], Answers(y, w)) = <<>>
      /\ \A k, y \in Nodes, w \in Terms : k # n \/ y # x \/ w # u => Only(o[y], Probes(k, w)) = <<>>
      /\ \/ Only(o[x], Probes(n, u)) = <<>>
         \/ \E e \in Probes(n, u) : Only(o[x], Probes(n, u)) = <<e>> /\ e.entry = EntryData(log[n], b)
  <2>1. x # n
    BY <1>1
  <2> QED
    BY <2>1, ProbedFacts
<1> SUFFICES ASSUME NEW k \in Nodes, NEW y \in Nodes, NEW w \in Terms,
                    <<k, w>> \in elected', y # k, term'[y] <= w
             PROVE  ChainAt(H, A, k, y, w)'
  BY DEF Chains
<1>2. ChainAt(H, A, k, y, w) /\ <<k, w>> \in elected
  BY DEF Chains
<1>3. Steady(H, A, H, A, y, w)
  <2>1. Len(H[w]) \in Nat
    BY BookAtHand
  <2> QED
    BY <2>1 DEF Steady
<1>5. CASE k = n /\ y = x /\ w = u
  <2>1. Goal(n, x)' = (IF b < Len(log[n]) THEN b ELSE Len(log[n]))
    BY HeardNote
  <2>2. PICK c \in Nat : c = Len(log[n])
    BY AtHand
  <2>3. /\ Goal(n, x)' = NextIndex(Head(inbox[n]))
           \/ (NextIndex(Head(inbox[n])) >= Len(H[u]) /\ Goal(n, x)' = Len(H[u]))
    BY <1>1, <2>1, <2>2
  <2>4. \/ Only(o[x], Probes(n, u)) = <<>>
        \/ \E e \in Probes(n, u) : Only(o[x], Probes(n, u)) = <<e>> /\ e.entry.index = NextIndex(Head(inbox[n]))
    <3>1. CASE Only(o[x], Probes(n, u)) = <<>>
      BY <3>1
    <3>2. CASE Only(o[x], Probes(n, u)) # <<>>
      <4>1. PICK e \in Probes(n, u) : Only(o[x], Probes(n, u)) = <<e>> /\ e.entry = EntryData(log[n], b)
        BY <1>0, <3>2
      <4>2. e.entry # None
        BY DEF Probes
      <4>3. e.entry.index = b
        BY <4>1, <4>2 DEF EntryData
      <4> QED
        BY <1>1, <4>1, <4>3
    <3> QED
      BY <3>1, <3>2
  <2>5. Steady(H, A, H, A, x, u) /\ ChainAt(H, A, n, x, u)
    BY <1>2, <1>3, <1>5
  <2>6. Only(o[n], Answers(x, u)) = <<>>
    BY <1>0
  <2>7. ChainAt(H, A, n, x, u)'
    BY <1>1, <2>3, <2>4, <2>5, <2>6, ChainAnswered
  <2> QED
    BY <1>5, <2>7
<1>6. CASE ~(k = n /\ y = x /\ w = u)
  <2>1. Only(o[y], Probes(k, w)) = <<>> /\ Only(o[k], Answers(y, w)) = <<>>
    BY <1>0, <1>6
  <2>2. ~Took(n, TRUE, k, Answers(y, w))
    BY <1>1, <1>6 DEF Took, Answers
  <2>3. ASSUME term'[k] = w PROVE Goal(k, y)' = Goal(k, y)
    <3>1. k # n \/ y # x
      BY <1>1, <1>6, <2>3
    <3> QED
      BY <3>1, HeardNote
  <2> QED
    BY <1>1, <1>2, <1>3, <2>1, <2>2, <2>3, ChainQuiet
<1> QED
  BY <1>5, <1>6

\* What is noted is in the log.
LEMMA HeardNoted ==
  ASSUME TypeInv, UNCHANGED <<role, log>>, Noted,
         NEW n \in Nodes, NEW x \in Nodes, NEW b \in Nat,
         Notes(n, x, b)
  PROVE  Noted'
<1> SUFFICES ASSUME NEW k \in Nodes, NEW y \in Nodes, role'[k] = "Leader", pending'[k][y] # None
             PROVE  /\ pending'[k][y].index < Len(log'[k])
                    /\ pending'[k][y] = EntryData(log'[k], pending'[k][y].index)
  BY DEF Noted
<1>1. /\ b < Len(log[n]) => /\ pending'[n][x] # None /\ pending'[n][x] = EntryData(log[n], b)
                            /\ pending'[n][x].index = b
      /\ b >= Len(log[n]) => pending'[n][x] = None
      /\ \A i, j \in Nodes : i # n \/ j # x => pending'[i][j] = pending[i][j]
  BY HeardNote
<1>2. CASE k = n /\ y = x
  <2>1. Len(log[n]) \in Nat
    BY AtHand
  <2>2. b < Len(log[n])
    BY <1>1, <1>2, <2>1
  <2> QED
    BY <1>1, <1>2, <2>2
<1>3. CASE ~(k = n /\ y = x)
  BY <1>1, <1>3 DEF Noted
<1> QED
  BY <1>2, <1>3

\* A leader that gets an answer has told somebody.
LEMMA HeardTelling ==
  ASSUME TypeInv, NEW A \in Counts, UNCHANGED <<role, term, log>>, Telling(A),
         NEW n \in Nodes, NEW x \in Nodes, NEW u \in Terms, NEW a \in Nat, NEW b \in Nat,
         Heard(A, n, x, u, a, b),
         \A m \in Nodes : m # n => acks'[m] = acks[m] /\ applied'[m] = applied[m],
         Notes(n, x, b),
         NEW o \in [Nodes -> Seq(Message)], Mailed(n, TRUE, o), Probed(o, n, x, u, b)
  PROVE  Telling(A)'
<1> SUFFICES ASSUME NEW k \in Nodes, role'[k] = "Leader"
             PROVE  Untold(A, k)' \/ \A y \in Others(k) : A[y][term'[k]] = 0 => pending'[k][y] # None
  BY DEF Telling, Others
<1>1. /\ x # n /\ term[n] = u /\ a < Len(log[n]) /\ ((b = a + 1 /\ a < A[x][u]) \/ b + 1 = a)
      /\ inbox[n] # <<>> /\ Head(inbox[n]) \in Answers(x, u)
  BY DEF Heard
<1>2. /\ b < Len(log[n]) => pending'[n][x] # None
      /\ \A i, j \in Nodes : i # n \/ j # x => pending'[i][j] = pending[i][j]
  BY HeardNote
<1>3. PICK t \in Terms : t = term[k]
  BY AtHand
<1>4. CASE k = n
  <2>1. ~Untold(A, n)
    <3>1. MailedOnly(n, TRUE, o, n, Answers(x, u))
      BY <1>1, MailOnly
    <3>2. Only(inbox[n], Answers(x, u)) # <<>>
      BY <1>1, <3>1 DEF MailedOnly
    <3> QED
      BY <1>1, <3>2 DEF Untold, Others
  <2>2. \A y \in Others(n) : A[y][u] = 0 => pending[n][y] # None
    BY <1>1, <1>4, <2>1 DEF Telling
  <2>3. ASSUME NEW y \in Others(n), A[y][u] = 0 PROVE pending'[n][y] # None
    <3>1. CASE y # x
      <4>1. y \in Nodes
        BY DEF Others
      <4> QED
        BY <1>2, <2>2, <2>3, <3>1, <4>1
    <3>2. CASE y = x
      <4>1. PICK c \in Nat : c = Len(log[n])
        BY AtHand
      <4>2. ~(a < A[x][u])
        BY <2>3, <3>2
      <4>3. b + 1 = a /\ a < c
        BY <1>1, <4>1, <4>2
      <4>4. b < c
        BY <4>3
      <4> QED
        BY <1>2, <3>2, <4>1, <4>4
    <3> QED
      BY <3>1, <3>2
  <2> QED
    BY <1>1, <1>4, <2>3
<1>5. CASE k # n
  <2>1. \A y \in Nodes : pending'[k][y] = pending[k][y]
    BY <1>2, <1>5
  <2>2. CASE Untold(A, k)
    <3>1. applied'[k] = <<>> /\ \A i \in 1 .. Len(log'[k]) : log'[k][i].term = term'[k] /\ acks'[k][i] = {k}
      BY <1>5, <2>2 DEF Untold
    <3>2. ASSUME NEW y \in Others(k)
          PROVE  /\ pending'[k][y] = None /\ A[y][t] = 0
                 /\ Only(inbox'[y], Probes(k, t)) = <<>> /\ Only(inbox'[k], Answers(y, t)) = <<>>
      <4>1. y \in Nodes
        BY DEF Others
      <4>2. /\ pending[k][y] = None /\ A[y][t] = 0
            /\ Only(inbox[y], Probes(k, t)) = <<>> /\ Only(inbox[k], Answers(y, t)) = <<>>
        BY <1>3, <2>2 DEF Untold
      <4>3. Only(o[y], Probes(k, t)) = <<>> /\ Only(o[k], Answers(y, t)) = <<>>
        <5>1. /\ \A m, z \in Nodes, w \in Terms : Only(o[m], Answers(z, w)) = <<>>
              /\ \A m, z \in Nodes, w \in Terms : m # n \/ z # x \/ w # u => Only(o[z], Probes(m, w)) = <<>>
          BY <1>1, ProbedFacts
        <5> QED
          BY <1>5, <4>1, <5>1
      <4>4. \A z \in Nodes : \A S : Only(inbox[z], S) = <<>> /\ Only(o[z], S) = <<>> => Only(inbox'[z], S) = <<>>
        BY <1>1, StillNone
      <4>5. Only(inbox'[y], Probes(k, t)) = <<>>
        BY <4>1, <4>2, <4>3, <4>4
      <4>6. Only(inbox'[k], Answers(y, t)) = <<>>
        BY <4>1, <4>2, <4>3, <4>4
      <4> QED
        BY <2>1, <4>1, <4>2, <4>5, <4>6
    <3>3. \A y \in Others(k)' : /\ pending'[k][y] = None /\ A[y][term'[k]] = 0
                                /\ Only(inbox'[y], Probes(k, term'[k])) = <<>>
                                /\ Only(inbox'[k], Answers(y, term'[k])) = <<>>
      BY <1>3, <3>2 DEF Others
    <3> QED
      BY <3>1, <3>3 DEF Untold
  <2>3. CASE ~Untold(A, k)
    <3>1. \A y \in Others(k) : A[y][term[k]] = 0 => pending[k][y] # None
      BY <2>3 DEF Telling
    <3> QED
      BY <2>1, <3>1 DEF Others
  <2> QED
    BY <2>2, <2>3
<1> QED
  BY <1>4, <1>5

\* An answer counts, lets the leader write its file, and makes it send the next entry.
LEMMA HandleResponseLog ==
  ASSUME NEW v \in Ballots, Explained(v), NEW H \in Books, NEW A \in Counts, LogInv(v, H, A),
         NEW n \in Nodes, HandleResponse(n), ~strayed'
  PROVE  Explained(v)' /\ LogInv(v, H, A)'
<1>1. Explained(v)'
  BY HandleResponseInd
<1>2. /\ TypeInv /\ TypeInv' /\ Core(H, A) /\ Files(H, A) /\ Accepts /\ Mail(H, A) /\ Chains(H, A) /\ Acked(A)
      /\ SelfVoted(v) /\ Backed(v, H, A) /\ Noted /\ Telling(A) /\ Setting(H)
  BY <1>1 DEF Explained, LogInv
<1>3. /\ UNCHANGED <<nodes, role, term, elected, log, pending_cmds>>
      /\ \A m \in Nodes : m # n => acks'[m] = acks[m] /\ applied'[m] = applied[m]
  BY ResponseFacts
<1>4. PICK x \in Nodes, u \in Terms, a \in Nat, b \in Nat, reply \in Seq(Message) :
        /\ Heard(A, n, x, u, a, b) /\ H[u] = log[n]
        /\ Counted(A, n, x, u, a) /\ Filed(n, u, a)
        /\ Notes(n, x, b)
        /\ Deliver(n, To(x, reply))
        /\ \/ reply = <<>>
           \/ \E e \in Probes(n, u) : reply = <<e>> /\ e.entry = EntryData(log[n], b)
  BY ResponseFacts
<1>5. /\ x # n /\ <<n, u>> \in elected /\ term[n] = u /\ role[n] = "Leader" /\ SetUp
      /\ inbox[n] # <<>> /\ a < Len(log[n])
  BY <1>4 DEF Heard
<1>6. PICK o \in [Nodes -> Seq(Message)] : Mailed(n, TRUE, o) /\ Probed(o, n, x, u, b)
  BY <1>2, <1>4, <1>5, HeardMailed
<1>7. Moved
  BY <1>2, <1>3, StillMoved
<1>8. Core(H, A)' /\ Grown(H, A, H, A)
  BY <1>2, <1>7, CoreMoved, NotGrown DEF Moved
<1>9. Acked(A)'
  BY <1>2, <1>3, <1>4, <1>5, HeardAcked
<1>10. Files(H, A)'
  BY <1>2, <1>3, <1>4, <1>5, <1>8, <1>9, HeardFiles
<1>11. SelfVoted(v)' /\ Backed(v, H, A)'
  <2>1. \A c \in Nodes : role'[c] = "Candidate" => role[c] = "Candidate" /\ term'[c] = term[c] /\ log'[c] = log[c]
    BY <1>3
  <2>2. Backed(v, H, A)'
    BY <1>2, <1>8, <2>1, BackedStays
  <2> QED
    BY <1>2, <2>2 DEF SelfVoted
<1>12. \A y \in Nodes : \A i \in 1 .. Len(o[y]) :
         y = x /\ o[y][i] \in Probes(n, u) /\ o[y][i].entry = EntryData(log[n], b)
  <2>1. ProbedOnly(o, n, x, u, b)
    BY <1>2, <1>5, <1>6, OnlyProbed
  <2> QED
    BY <2>1 DEF ProbedOnly
<1>13. Mail(H, A)'
  <2>1. \A y \in Nodes : role'[y] = "Candidate" =>
          \/ role[y] = "Candidate" /\ term'[y] = term[y] /\ log'[y] = log[y]
          \/ term'[y] # term[y]
    BY <1>3
  <2>2. ASSUME NEW y \in Nodes, NEW i \in 1 .. Len(o[y]) PROVE MailOk(H, A, y, o[y][i])'
    <3>1. PICK e : e = o[y][i] /\ e \in Probes(n, u) /\ e.entry = EntryData(log[n], b) /\ y = x
      BY <1>12, <2>2
    <3>2. e.type = "AppendEntry" /\ e.src = n /\ e.term = u /\ e.entry # None
      BY <3>1 DEF Probes
    <3>3. b < Len(log[n]) /\ e.entry.index = b
      BY <3>1, <3>2 DEF EntryData
    <3>4. MailOk(H, A, y, e)'
      BY <1>3, <1>4, <1>5, <3>1, <3>2, <3>3 DEF MailOk
    <3> QED
      BY <3>1, <3>4
  <2> QED
    BY <1>2, <1>3, <1>5, <1>6, <1>8, <2>1, <2>2, MailStep DEF SetUp, Others
<1>14. Chains(H, A)'
  BY <1>2, <1>3, <1>4, <1>6, <1>8, HeardChains
<1>15. Noted'
  BY <1>2, <1>3, <1>4, HeardNoted
<1>16. Telling(A)'
  BY <1>2, <1>3, <1>4, <1>6, HeardTelling
<1>17. Setting(H)' /\ Accepts'
  <2>1. Setting(H)'
    BY <1>2, <1>3 DEF Setting, SetUp, Others
  <2>2. \A y \in Nodes : \A i \in 1 .. Len(o[y]) : o[y][i].type # "Accept"
    BY <1>12 DEF Probes
  <2>3. Accepts'
    BY <1>2, <1>3, <1>5, <1>6, <2>2, AcceptsStay
  <2> QED
    BY <2>1, <2>3
<1> QED
  BY <1>1, <1>8, <1>9, <1>10, <1>11, <1>13, <1>14, <1>15, <1>16, <1>17 DEF LogInv
\* n's log grows by es, of n's term; its books follow.
Appends(n, es) ==
  /\ UNCHANGED <<nodes, applied>>
  /\ \A y \in Nodes : y # n => acks'[y] = acks[y] /\ pending'[y] = pending[y]
  /\ \A i \in 1 .. Len(log[n]) : acks'[n][i] = acks[n][i]
  /\ \A i \in 1 .. Len(log'[n]) : i > Len(log[n]) => acks'[n][i] = {n}
  /\ \A y \in Nodes : pending_cmds'[y] = pending_cmds[y] \/ pending_cmds'[y] = <<>>
  /\ SetUp \/ es = <<>>
  /\ \A x \in Nodes : pending'[n][x] # None =>
       pending'[n][x].index < Len(log'[n]) /\ pending'[n][x] = EntryData(log'[n], pending'[n][x].index)
  /\ inbox[n] # <<>> /\ Head(inbox[n]).type \in {"Vote", "Command"}
\* Who is sent something is sent what is noted for it.
Announced(o, n, u) ==
  /\ o[n] = <<>>
  /\ \A x \in Nodes :
       o[x] = <<>> \/ \E e \in Message : /\ o[x] = <<e>> /\ e.type = "AppendEntry" /\ e.src = n /\ e.term = u
                                         /\ e.entry = pending'[n][x] /\ (e.entry = None => e.committed = 0)

\* What a leader sends to all: at most one request to each, with what is noted for it.
LEMMA AnnouncedFacts ==
  ASSUME NEW n \in Nodes, NEW u \in Terms, NEW o \in [Nodes -> Seq(Message)], Announced(o, n, u)
  PROVE  /\ \A k, y \in Nodes, w \in Terms : Only(o[k], Answers(y, w)) = <<>>
         /\ \A k, y \in Nodes, w \in Terms : k # n \/ w # u => Only(o[y], Probes(k, w)) = <<>>
         /\ \A y \in Nodes : \A i \in 1 .. Len(o[y]) :
              /\ y # n /\ o[y][i].type = "AppendEntry" /\ o[y][i].src = n /\ o[y][i].term = u
              /\ o[y][i].entry = pending'[n][y] /\ (o[y][i].entry = None => o[y][i].committed = 0)
         /\ \A x \in Nodes :
              \/ Only(o[x], Probes(n, u)) = <<>>
              \/ \E e \in Probes(n, u) : Only(o[x], Probes(n, u)) = <<e>> /\ e.entry = pending'[n][x]
<1>1. \A S : Only(<<>>, S) = <<>>
  BY OnlyEmpty
<1>2. Len(<<>>) = 0
  OBVIOUS
<1>3. ASSUME NEW y \in Nodes, o[y] # <<>>
      PROVE  /\ y # n
             /\ \E e \in Message :
                  /\ o[y] = <<e>> /\ e.type = "AppendEntry" /\ e.src = n /\ e.term = u
                  /\ e.entry = pending'[n][y] /\ (e.entry = None => e.committed = 0)
  BY <1>3 DEF Announced
<1>4. ASSUME NEW k \in Nodes, NEW y \in Nodes, NEW w \in Terms PROVE Only(o[k], Answers(y, w)) = <<>>
  <2>1. CASE o[k] = <<>>
    BY <1>1, <2>1
  <2>2. CASE o[k] # <<>>
    <3>1. PICK e \in Message : o[k] = <<e>> /\ e.type = "AppendEntry"
      BY <1>3, <2>2
    <3>2. e \notin Answers(y, w)
      BY <3>1 DEF Answers
    <3> QED
      BY <3>1, <3>2, OnlyOne
  <2> QED
    BY <2>1, <2>2
<1>5. ASSUME NEW k \in Nodes, NEW y \in Nodes, NEW w \in Terms, k # n \/ w # u
      PROVE  Only(o[y], Probes(k, w)) = <<>>
  <2>1. CASE o[y] = <<>>
    BY <1>1, <2>1
  <2>2. CASE o[y] # <<>>
    <3>1. PICK e \in Message : o[y] = <<e>> /\ e.src = n /\ e.term = u
      BY <1>3, <2>2
    <3>2. e \notin Probes(k, w)
      BY <1>5, <3>1 DEF Probes
    <3> QED
      BY <3>1, <3>2, OnlyOne
  <2> QED
    BY <2>1, <2>2
<1>6. ASSUME NEW y \in Nodes, NEW i \in 1 .. Len(o[y])
      PROVE  /\ y # n /\ o[y][i].type = "AppendEntry" /\ o[y][i].src = n /\ o[y][i].term = u
             /\ o[y][i].entry = pending'[n][y] /\ (o[y][i].entry = None => o[y][i].committed = 0)
  <2>1. o[y] # <<>>
    BY <1>2, <1>6
  <2>2. PICK e \in Message :
          /\ o[y] = <<e>> /\ e.type = "AppendEntry" /\ e.src = n /\ e.term = u
          /\ e.entry = pending'[n][y] /\ (e.entry = None => e.committed = 0)
    BY <1>3, <2>1
  <2>3. Len(<<e>>) = 1 /\ <<e>>[1] = e
    OBVIOUS
  <2>4. o[y][i] = e
    BY <1>6, <2>2, <2>3
  <2> QED
    BY <1>3, <2>1, <2>2, <2>4
<1>7. ASSUME NEW x \in Nodes
      PROVE  \/ Only(o[x], Probes(n, u)) = <<>>
             \/ \E e \in Probes(n, u) : Only(o[x], Probes(n, u)) = <<e>> /\ e.entry = pending'[n][x]
  <2>1. CASE o[x] = <<>>
    BY <1>1, <2>1
  <2>2. CASE o[x] # <<>>
    <3>1. PICK e \in Message : o[x] = <<e>> /\ e.entry = pending'[n][x]
      BY <1>3, <2>2
    <3>2. e \in Probes(n, u) => Only(o[x], Probes(n, u)) = <<e>>
      BY <3>1, OnlyOne
    <3>3. e \notin Probes(n, u) => Only(o[x], Probes(n, u)) = <<>>
      BY <3>1, OnlyOne
    <3> QED
      BY <3>1, <3>2, <3>3
  <2> QED
    BY <2>1, <2>2
<1> QED
  BY <1>4, <1>5, <1>6, <1>7

\* At most one request of n goes to x, for what is noted for x.
ProbedAlone(o, n, u, x) ==
  \/ Only(o[x], Probes(n, u)) = <<>>
  \/ \E e \in Probes(n, u) : Only(o[x], Probes(n, u)) = <<e>> /\ e.entry = pending'[n][x]

\* The request to x.
LEMMA AnnouncedProbe ==
  ASSUME NEW n \in Nodes, NEW u \in Terms, NEW o \in [Nodes -> Seq(Message)], Announced(o, n, u), NEW x \in Nodes
  PROVE  ProbedAlone(o, n, u, x)
BY AnnouncedFacts DEF ProbedAlone

\* New entries are counted for the leader, who has them.
LEMMA AppendsAcked ==
  ASSUME TypeInv, TypeInv', NEW H \in Books, NEW A \in Counts, NEW H2 \in Books, NEW A2 \in Counts,
         NEW n \in Nodes, NEW es \in Seq(Entries), Core(H, A), Extended(H, A, H2, A2, n, es),
         ElectedOncePerTerm', Acked(A), Appends(n, es)
  PROVE  Acked(A2)'
<1> SUFFICES ASSUME NEW k \in Nodes, role'[k] = "Leader", NEW i \in 1 .. Len(log'[k]),
                    log'[k][i].term = term'[k], NEW y \in acks'[k][i]
             PROVE  i <= A2[y][term'[k]]
  BY DEF Acked
<1>1. /\ A2[n][term[n]] = Len(log'[n]) /\ Grown(H, A, H2, A2)
      /\ \A m \in Nodes : m # n => log'[m] = log[m] /\ role'[m] = role[m]
      /\ \A j \in 1 .. Len(log[n]) : log'[n][j] = log[n][j]
  BY ExtendedFacts
<1>2. PICK t \in Terms : t = term[k] /\ t = term'[k]
  BY AtHandNext DEF Extended
<1>3. PICK ln \in Nat, lk \in Nat : ln = Len(log[n]) /\ lk = Len(log'[k])
  BY AtHand, AtHandNext
<1>4. y \in Nodes
  <2>1. acks'[k] \in Seq(SUBSET Nodes) /\ Len(acks'[k]) = Len(log'[k])
    BY DEF TypeInv, LogType
  <2>2. acks'[k][i] \in SUBSET Nodes
    BY <2>1
  <2> QED
    BY <2>2
<1>5. ASSUME i <= A[y][t] PROVE i <= A2[y][t]
  <2>1. PICK p \in Nat, q \in Nat : p = A[y][t] /\ q = A2[y][t] /\ p <= q
    BY <1>1, <1>4, BookAtHand DEF Grown
  <2>2. i <= p
    BY <1>5, <2>1
  <2> QED
    BY <1>3, <2>1, <2>2
<1>6. CASE k = n /\ i > Len(log[n])
  <2>1. y = n
    BY <1>6 DEF Appends
  <2>2. A2[n][t] = lk
    BY <1>1, <1>2, <1>3, <1>6
  <2>3. i <= lk
    BY <1>3
  <2> QED
    BY <1>2, <2>1, <2>2, <2>3
<1>7. CASE k = n /\ ~(i > Len(log[n]))
  <2>1. i \in 1 .. Len(log[n])
    BY <1>3, <1>7
  <2>2. acks'[n][i] = acks[n][i] /\ log'[n][i] = log[n][i]
    BY <1>1, <2>1 DEF Appends
  <2>3. role[n] = "Leader"
    <3>1. role[n] = "Candidate" => log[n][i].term < term[n]
      BY <2>1 DEF Core, Logs
    <3>2. log[n][i].term = t /\ t \in Nat
      <4>1. t \in Nat
        BY AtHand
      <4>2. log'[n][i].term = t
        BY <1>2, <1>7
      <4> QED
        BY <2>2, <4>1, <4>2
    <3> QED
      BY <1>2, <1>7, <3>1, <3>2 DEF Extended
  <2>4. i <= A[y][t]
    BY <1>2, <1>7, <2>1, <2>2, <2>3 DEF Acked
  <2> QED
    BY <1>2, <1>5, <2>4
<1>8. CASE k # n
  <2>1. role[k] = "Leader" /\ log'[k] = log[k] /\ acks'[k] = acks[k]
    BY <1>1, <1>8 DEF Appends
  <2>2. i <= A[y][t]
    BY <1>2, <2>1 DEF Acked
  <2> QED
    BY <1>2, <1>5, <2>2
<1> QED
  BY <1>6, <1>7, <1>8

\* The log files stay, and the log behind the leader's only grows.
LEMMA AppendsFiles ==
  ASSUME TypeInv, TypeInv', NEW H \in Books, NEW A \in Counts, NEW H2 \in Books, NEW A2 \in Counts,
         NEW n \in Nodes, NEW es \in Seq(Entries), Core(H, A), Extended(H, A, H2, A2, n, es),
         ElectedOncePerTerm', Files(H, A), Appends(n, es)
  PROVE  Files(H2, A2)'
<1> SUFFICES ASSUME NEW m \in Nodes
             PROVE  Covered(H2, A2, applied[m], term[m])' /\ Same(log'[m], applied'[m], Len(applied'[m]))
  BY DEF Files
<1>1. /\ Grown(H, A, H2, A2)
      /\ log'[n] = log[n] \o es /\ Len(log'[n]) = Len(log[n]) + Len(es) /\ Len(es) \in Nat
      /\ \A k \in Nodes : k # n => log'[k] = log[k]
      /\ \A j \in 1 .. Len(log[n]) : log'[n][j] = log[n][j]
  BY ExtendedFacts
<1>2. Len(log[m]) \in Nat /\ Len(applied[m]) \in Nat /\ Len(applied[m]) <= Len(log[m])
  <2>1. Same(log[m], applied[m], Len(applied[m]))
    BY DEF Files
  <2> QED
    BY <2>1, AtHand DEF Same
<1>3. Same(log'[m], log[m], Len(applied[m]))
  <2>1. CASE m = n
    <3>1. PICK p \in Nat, q \in Nat, r \in Nat : p = Len(log[n]) /\ q = Len(es) /\ r = Len(applied[n])
      BY <1>1, <1>2, <2>1
    <3>2. r <= p /\ r <= p + q
      BY <1>2, <2>1, <3>1
    <3>3. Len(applied[n]) <= Len(log[n]) /\ Len(applied[n]) <= Len(log'[n])
      BY <1>1, <3>1, <3>2
    <3>4. \A i \in 1 .. Len(applied[n]) : log'[n][i] = log[n][i]
      BY <1>1, <3>1, <3>2
    <3> QED
      BY <2>1, <3>3, <3>4 DEF Same
  <2>2. CASE m # n
    BY <1>1, <1>2, <2>2, SameSelf
  <2> QED
    BY <2>1, <2>2
<1>4. applied'[m] = applied[m]
  BY DEF Appends
<1> QED
  BY <1>1, <1>3, <1>4, FilesStay

\* What is sent to all is sound.
LEMMA AppendsMail ==
  ASSUME NEW v \in Ballots, Explained(v), TypeInv',
         NEW H \in Books, NEW A \in Counts, NEW H2 \in Books, NEW A2 \in Counts,
         NEW n \in Nodes, NEW es \in Seq(Entries), Core(H, A), Extended(H, A, H2, A2, n, es),
         ElectedOncePerTerm', Mail(H, A), Appends(n, es), NEW u \in Terms, term[n] = u,
         NEW o \in [Nodes -> Seq(Message)], Mailed(n, TRUE, o), Announced(o, n, u)
  PROVE  Mail(H2, A2)'
<1>1. TypeInv /\ inbox[n] # <<>> /\ UNCHANGED nodes
  BY DEF Explained, Appends
<1>2. /\ Grown(H, A, H2, A2) /\ H2[u] = log'[n]
      /\ \A m \in Nodes : m # n => log'[m] = log[m] /\ role'[m] = role[m]
  BY <1>1, ExtendedFacts
<1>3. term' = term /\ <<n, u>> \in elected' /\ role'[n] = "Leader"
  BY <1>1 DEF Extended, TypeInv, ElectionType
<1>4. \A y \in Nodes : role'[y] = "Candidate" =>
        \/ role[y] = "Candidate" /\ term'[y] = term[y] /\ log'[y] = log[y]
        \/ term'[y] # term[y]
  <2> SUFFICES ASSUME NEW y \in Nodes, role'[y] = "Candidate"
               PROVE  role[y] = "Candidate" /\ term'[y] = term[y] /\ log'[y] = log[y]
    OBVIOUS
  <2>1. y # n
    BY <1>3
  <2> QED
    BY <1>2, <1>3, <2>1
<1>5. ASSUME NEW y \in Nodes, NEW i \in 1 .. Len(o[y]) PROVE MailOk(H2, A2, y, o[y][i])'
  <2>0. /\ y # n /\ o[y][i].type = "AppendEntry" /\ o[y][i].src = n /\ o[y][i].term = u
        /\ o[y][i].entry = pending'[n][y] /\ (o[y][i].entry = None => o[y][i].committed = 0)
    BY <1>5 DEF Announced
  <2>1. PICK e : /\ e = o[y][i] /\ y # n /\ e.type = "AppendEntry" /\ e.src = n /\ e.term = u
                 /\ e.entry = pending'[n][y] /\ (e.entry = None => e.committed = 0)
    BY <2>0
  <2>2. CASE e.entry = None
    <3>1. A2[y][u] \in Nat
      BY BookAtHand
    <3>2. e.committed = 0 /\ 0 <= A2[y][u] /\ Settled(H2, A2, u, 0)
      BY <2>1, <2>2, <3>1 DEF Settled
    <3>3. MailOk(H2, A2, y, e)'
      BY <1>3, <2>1, <2>2, <3>2 DEF MailOk, Settled
    <3> QED
      BY <2>1, <3>3
  <2>3. CASE e.entry # None
    <3>1. e.entry.index < Len(H2[u]) /\ e.entry = EntryData(H2[u], e.entry.index)
      BY <1>2, <2>1, <2>3 DEF Appends
    <3>2. MailOk(H2, A2, y, e)'
      BY <1>3, <2>1, <2>3, <3>1 DEF MailOk
    <3> QED
      BY <2>1, <3>2
  <2> QED
    BY <2>2, <2>3
<1>6. SetUp => SetUp'
  BY <1>1 DEF SetUp, Others
<1> QED
  BY <1>1, <1>2, <1>4, <1>5, <1>6, MailStep

\* n goes on with each office where it was.
Aimed(n) ==
  \A y \in Nodes : y # n =>
    Goal(n, y)' = Goal(n, y) /\ (pending'[n][y] # None => pending'[n][y].index = Goal(n, y))

\* The chains of other leaders.
LEMMA AppendsChains ==
  ASSUME TypeInv, TypeInv', NEW H \in Books, NEW A \in Counts, NEW H2 \in Books, NEW A2 \in Counts,
         NEW n \in Nodes, NEW es \in Seq(Entries), Core(H, A), Extended(H, A, H2, A2, n, es),
         ElectedOncePerTerm', Chains(H, A), Appends(n, es), NEW u \in Terms, term[n] = u,
         NEW o \in [Nodes -> Seq(Message)], Mailed(n, TRUE, o), Announced(o, n, u),
         NEW k \in Nodes, NEW x \in Nodes, NEW w \in Terms,
         <<k, w>> \in elected, x # k, term'[x] <= w,
         term[k] = w /\ k = n => Aimed(n)
  PROVE  ChainAt(H2, A2, k, x, w)'
<1>1. inbox[n] # <<>> /\ Head(inbox[n]).type \in {"Vote", "Command"} /\ term' = term /\ <<n, u>> \in elected'
  BY DEF Appends, Extended
<1>2. /\ Grown(H, A, H2, A2)
      /\ \A m \in Nodes : <<m, u>> \in elected' => m = n
      /\ \A m \in Nodes : m # n => log'[m] = log[m]
      /\ \A t \in Terms : t # u => H2[t] = H[t]
      /\ \A m \in Nodes, t \in Terms : m # n \/ t # u => A2[m][t] = A[m][t]
      /\ \A i \in 1 .. Len(log'[n]) : i > Len(log[n]) => log'[n][i].term = u
      /\ H2[u] = log'[n]
  <2>1. Grown(H, A, H2, A2) /\ H2[u] = log'[n]
    BY ExtendedFacts
  <2>2. \A m \in Nodes : <<m, u>> \in elected' => m = n
    BY ExtendedFacts
  <2>3. /\ \A m \in Nodes : m # n => log'[m] = log[m]
        /\ \A t \in Terms : t # u => H2[t] = H[t]
    BY ExtendedFacts
  <2>4. \A m \in Nodes, t \in Terms : m # n \/ t # u => A2[m][t] = A[m][t]
    BY ExtendedFacts
  <2>5. \A i \in 1 .. Len(log'[n]) : i > Len(log[n]) => log'[n][i].term = u
    BY ExtendedFacts
  <2> QED
    BY <2>1, <2>2, <2>3, <2>4, <2>5
<1>r. role[n] = "Leader" => H[u] = log[n]
  BY ExtendedFacts
<1>3. <<k, w>> \in elected' /\ (x = n => w # u)
  <2>1. <<k, w>> \in elected'
    BY DEF Extended
  <2> QED
    BY <1>2, <2>1
<1>4. ChainAt(H, A, k, x, w)
  BY <1>1 DEF Chains
<1>5. Steady(H, A, H2, A2, x, w)
  <2>1. A2[x][w] = A[x][w]
    BY <1>2, <1>3
  <2>2. \A l \in 1 .. Len(H2[w]) : l > Len(H[w]) => H2[w][l].term = w
    <3>1. CASE w # u
      <4>1. Len(H[w]) \in Nat /\ H2[w] = H[w]
        BY <1>2, <3>1, BookAtHand
      <4> QED
        BY <4>1
    <3>2. CASE w = u
      <4>1. k = n
        BY <1>2, <1>3, <3>2
      <4>2. role[n] = "Leader"
        BY <3>2, <4>1 DEF Core, Leaders
      <4> QED
        BY <1>2, <1>r, <3>2, <4>2
    <3> QED
      BY <3>1, <3>2
  <2>3. term'[x] = w => log'[x] = log[x]
    BY <1>1, <1>2, <1>3
  <2> QED
    BY <2>1, <2>2, <2>3 DEF Steady
<1>6. Only(o[k], Answers(x, w)) = <<>> /\ ~Took(n, TRUE, k, Answers(x, w))
  <2>1. \A m, y \in Nodes, t \in Terms : Only(o[m], Answers(y, t)) = <<>>
    BY AnnouncedFacts
  <2> QED
    BY <1>1, <2>1 DEF Took, Answers
<1>7. term'[k] = w => Goal(k, x)' = Goal(k, x)
  <2>1. CASE k # n
    BY <1>2, <2>1 DEF Goal, Appends
  <2>2. CASE k = n
    BY <1>1, <2>2 DEF Aimed
  <2> QED
    BY <2>1, <2>2
<1>8. \/ Only(o[x], Probes(k, w)) = <<>>
      \/ term[k] = w /\ \E e \in Probes(k, w) : Only(o[x], Probes(k, w)) = <<e>> /\ e.entry.index = Goal(k, x)
  <2>1. CASE k # n \/ w # u
    <3>1. \A m, y \in Nodes, t \in Terms : m # n \/ t # u => Only(o[y], Probes(m, t)) = <<>>
      BY AnnouncedFacts
    <3> QED
      BY <2>1, <3>1
  <2>2. CASE k = n /\ w = u /\ Only(o[x], Probes(n, u)) # <<>>
    <3>2. PICK e \in Probes(n, u) : Only(o[x], Probes(n, u)) = <<e>> /\ e.entry = pending'[n][x]
      <4>1. ProbedAlone(o, n, u, x)
        BY AnnouncedProbe
      <4> QED
        BY <2>2, <4>1 DEF ProbedAlone
    <3>3. e.entry # None
      BY DEF Probes
    <3>4. e.entry.index = Goal(n, x)
      <4>1. Aimed(n) /\ x # n
        BY <2>2
      <4> QED
        BY <3>2, <3>3, <4>1 DEF Aimed
    <3> QED
      BY <2>2, <3>2, <3>4
  <2> QED
    BY <2>1, <2>2
<1>9. term'[k] = w => /\ Only(o[k], Answers(x, w)) = <<>> /\ ~Took(n, TRUE, k, Answers(x, w))
                      /\ Goal(k, x)' = Goal(k, x)
  BY <1>6, <1>7
<1>10. inbox[n] # <<>> /\ Grown(H, A, H2, A2)
  BY <1>1, <1>2
<1> QED
  BY <1>4, <1>5, <1>8, <1>9, <1>10, ChainQuiet

\* What is noted is in the logs.
LEMMA AppendsNoted ==
  ASSUME TypeInv, NEW H \in Books, NEW A \in Counts, NEW H2 \in Books, NEW A2 \in Counts, TypeInv',
         NEW n \in Nodes, NEW es \in Seq(Entries), Core(H, A), Extended(H, A, H2, A2, n, es),
         ElectedOncePerTerm', Noted, Appends(n, es)
  PROVE  Noted'
<1> SUFFICES ASSUME NEW k \in Nodes, NEW y \in Nodes, role'[k] = "Leader", pending'[k][y] # None
             PROVE  /\ pending'[k][y].index < Len(log'[k])
                    /\ pending'[k][y] = EntryData(log'[k], pending'[k][y].index)
  BY DEF Noted
<1>1. CASE k = n
  BY <1>1 DEF Appends
<1>2. CASE k # n
  <2>1. log'[k] = log[k] /\ role'[k] = role[k]
    BY <1>2, ExtendedFacts
  <2>2. pending'[k] = pending[k]
    BY <1>2 DEF Appends
  <2> QED
    BY <2>1, <2>2 DEF Noted
<1> QED
  BY <1>1, <1>2

\* A leader has told somebody, or this one has yet to begin.
LEMMA AppendsTelling ==
  ASSUME TypeInv, TypeInv', NEW H \in Books, NEW A \in Counts, NEW H2 \in Books, NEW A2 \in Counts,
         NEW n \in Nodes, NEW es \in Seq(Entries), Core(H, A), Extended(H, A, H2, A2, n, es),
         ElectedOncePerTerm', Telling(A), Appends(n, es), NEW u \in Terms, term[n] = u,
         NEW o \in [Nodes -> Seq(Message)], Mailed(n, TRUE, o), Announced(o, n, u),
         Untold(A2, n)' \/ \A y \in Others(n) : A2[y][term'[n]] = 0 => pending'[n][y] # None
  PROVE  Telling(A2)'
<1> SUFFICES ASSUME NEW k \in Nodes, role'[k] = "Leader", k # n
             PROVE  Untold(A2, k)' \/ \A y \in Others(k) : A2[y][term'[k]] = 0 => pending'[k][y] # None
  BY DEF Telling, Others
<1>1. /\ \A m \in Nodes : <<m, u>> \in elected' => m = n
      /\ \A m \in Nodes : m # n => log'[m] = log[m] /\ role'[m] = role[m]
      /\ \A m \in Nodes, t \in Terms : m # n \/ t # u => A2[m][t] = A[m][t]
  BY ExtendedFacts
<1>2. role[k] = "Leader" /\ log'[k] = log[k] /\ term' = term /\ inbox[n] # <<>>
  BY <1>1 DEF Extended, Appends
<1>3. applied' = applied /\ acks'[k] = acks[k] /\ pending'[k] = pending[k]
  BY DEF Appends
<1>4. PICK t \in Terms : t = term[k]
  BY <1>2, AtHand
<1>5. t # u
  <2>1. <<k, t>> \in elected'
    BY <1>2, <1>4 DEF Core, Leaders, Extended
  <2> QED
    BY <1>1, <2>1
<1>6. CASE Untold(A, k)
  <2>1. applied'[k] = <<>> /\ \A i \in 1 .. Len(log'[k]) : log'[k][i].term = term'[k] /\ acks'[k][i] = {k}
    BY <1>2, <1>3, <1>6 DEF Untold
  <2>2. ASSUME NEW y \in Others(k)
        PROVE  /\ pending'[k][y] = None /\ A2[y][t] = 0
               /\ Only(inbox'[y], Probes(k, t)) = <<>> /\ Only(inbox'[k], Answers(y, t)) = <<>>
    <3>1. y \in Nodes
      BY DEF Others
    <3>2. /\ pending[k][y] = None /\ A[y][t] = 0
          /\ Only(inbox[y], Probes(k, t)) = <<>> /\ Only(inbox[k], Answers(y, t)) = <<>>
      BY <1>4, <1>6 DEF Untold
    <3>3. Only(o[y], Probes(k, t)) = <<>> /\ Only(o[k], Answers(y, t)) = <<>>
      <4>1. /\ \A m, z \in Nodes, w \in Terms : Only(o[m], Answers(z, w)) = <<>>
            /\ \A m, z \in Nodes, w \in Terms : m # n \/ w # u => Only(o[z], Probes(m, w)) = <<>>
        BY AnnouncedFacts
      <4> QED
        BY <1>5, <3>1, <4>1
    <3>4. \A z \in Nodes : \A S : Only(inbox[z], S) = <<>> /\ Only(o[z], S) = <<>> => Only(inbox'[z], S) = <<>>
      BY <1>2, StillNone
    <3>5. Only(inbox'[y], Probes(k, t)) = <<>>
      BY <3>1, <3>2, <3>3, <3>4
    <3>6. Only(inbox'[k], Answers(y, t)) = <<>>
      BY <3>1, <3>2, <3>3, <3>4
    <3>7. A2[y][t] = 0
      BY <1>1, <1>5, <3>1, <3>2
    <3> QED
      BY <1>3, <3>1, <3>2, <3>5, <3>6, <3>7
  <2>3. \A y \in Others(k)' : /\ pending'[k][y] = None /\ A2[y][term'[k]] = 0
                              /\ Only(inbox'[y], Probes(k, term'[k])) = <<>>
                              /\ Only(inbox'[k], Answers(y, term'[k])) = <<>>
    BY <1>2, <1>4, <2>2 DEF Others
  <2> QED
    BY <2>1, <2>3 DEF Untold
<1>7. CASE ~Untold(A, k)
  <2>1. \A y \in Others(k) : A[y][term[k]] = 0 => pending[k][y] # None
    BY <1>2, <1>7 DEF Telling
  <2> QED
    BY <1>1, <1>2, <1>3, <1>4, <1>5, <2>1 DEF Others
<1> QED
  BY <1>6, <1>7
\* The chains of the leader n of term u, and what it owes to those who took over nothing.
Linking(H, A, n, u) == \A x \in Nodes : x # n /\ term[x] <= u => ChainAt(H, A, n, x, u)
Tells(A, n) == Untold(A, n) \/ \A y \in Others(n) : A[y][term[n]] = 0 => pending[n][y] # None

\* What is said of logs and books.
LEMMA AppendsCore ==
  ASSUME MajoritiesMeet, NEW v \in Ballots, Explained(v), Explained(v)',
         NEW H \in Books, NEW A \in Counts, NEW H2 \in Books, NEW A2 \in Counts,
         NEW n \in Nodes, NEW es \in Seq(Entries), Core(H, A), Extended(H, A, H2, A2, n, es),
         SelfVoted(v), Backed(v, H, A)
  PROVE  Core(H2, A2)'
<1>1. TypeInv /\ TypeInv' /\ ElectedOncePerTerm'
  BY WinnerNext DEF Explained
<1>2. PICK w \in Terms : w = term[n]
  BY <1>1, ExtendedFacts
<1>3. ASSUME role[n] = "Candidate", NEW x \in Nodes, NEW t \in Terms, v[x][w] = n, t < w,
             NEW k \in 1 .. A[x][t], H[t][k].term = t
      PROVE  Lost(A, t, k) \/ Same(log[n], H[t], k)
  <2>1. n # None
    BY NodesAssumption
  <2>2. v[n][w] = n
    BY <1>3, <2>1 DEF SelfVoted
  <2> QED
    BY <1>2, <1>3, <2>2 DEF Backed
<1>4. role[n] = "Candidate" =>
        \A x \in Nodes, t \in Terms : v[x][term[n]] = n /\ t < term[n] =>
          \A k \in 1 .. A[x][t] : H[t][k].term = t => Lost(A, t, k) \/ Same(log[n], H[t], k)
  BY <1>2, <1>3
<1> QED
  BY <1>4, CoreExtended

\* All chains, when those of the leader itself are known.
LEMMA AppendsAllChains ==
  ASSUME TypeInv, TypeInv', NEW H \in Books, NEW A \in Counts, NEW H2 \in Books, NEW A2 \in Counts,
         NEW n \in Nodes, NEW es \in Seq(Entries), Core(H, A), Extended(H, A, H2, A2, n, es),
         ElectedOncePerTerm', Chains(H, A), Appends(n, es), NEW u \in Terms, term[n] = u,
         NEW o \in [Nodes -> Seq(Message)], Mailed(n, TRUE, o), Announced(o, n, u),
         Linking(H2, A2, n, u)'
  PROVE  Chains(H2, A2)'
<1> SUFFICES ASSUME NEW k \in Nodes, NEW x \in Nodes, NEW w \in Terms,
                    <<k, w>> \in elected', x # k, term'[x] <= w
             PROVE  ChainAt(H2, A2, k, x, w)'
  BY DEF Chains
<1>1. CASE k = n /\ w = u
  BY <1>1 DEF Linking
<1>2. CASE k # n \/ w # u
  <2>1. <<k, w>> \in elected
    <3>1. elected' = elected \cup {<<n, u>>}
      BY DEF Extended
    <3> QED
      BY <1>2, <3>1
  <2>2. term[k] = w /\ k = n => Aimed(n)
    BY <1>2
  <2> QED
    BY <2>1, <2>2, AppendsChains
<1> QED
  BY <1>1, <1>2

\* Entries come once all are connected only.
LEMMA AppendsSetting ==
  ASSUME TypeInv, TypeInv', NEW H \in Books, NEW A \in Counts, NEW H2 \in Books, NEW A2 \in Counts,
         NEW n \in Nodes, NEW es \in Seq(Entries), Core(H, A), Extended(H, A, H2, A2, n, es),
         ElectedOncePerTerm', Setting(H), Appends(n, es)
  PROVE  Setting(H2)'
<1>1. nodes' = nodes /\ (SetUp \/ es = <<>>)
      /\ \A y \in Nodes : pending_cmds'[y] = pending_cmds[y] \/ pending_cmds'[y] = <<>>
  BY DEF Appends
<1>2. PICK w \in Terms : w = term[n]
  BY ExtendedFacts
<1>3. /\ log'[n] = log[n] \o es /\ H2[w] = log'[n]
      /\ \A m \in Nodes : m # n => log'[m] = log[m]
      /\ \A t \in Terms : t # w => H2[t] = H[t]
  BY <1>2, ExtendedFacts
<1>4. SUFFICES ASSUME ~SetUp
               PROVE  /\ \A m \in Nodes : log'[m] = <<>> /\ pending_cmds'[m] = <<>>
                      /\ \A t \in Terms : H2[t] = <<>>
  BY <1>1 DEF Setting, SetUp, Others
<1>5. /\ \A m \in Nodes : log[m] = <<>> /\ pending_cmds[m] = <<>>
      /\ \A t \in Terms : H[t] = <<>>
  BY <1>4 DEF Setting
<1>6. log'[n] = <<>>
  <2>1. <<>> \o <<>> = <<>>
    OBVIOUS
  <2> QED
    BY <1>1, <1>3, <1>4, <1>5, <2>1
<1> QED
  BY <1>1, <1>3, <1>5, <1>6

\* All together: a leader's log grows and it sends that to all.
LEMMA AppendsDone ==
  ASSUME MajoritiesMeet, NEW v \in Ballots, Explained(v), Explained(v)',
         NEW H \in Books, NEW A \in Counts, LogInv(v, H, A), NEW H2 \in Books, NEW A2 \in Counts,
         NEW n \in Nodes, NEW es \in Seq(Entries), Extended(H, A, H2, A2, n, es),
         Appends(n, es), NEW u \in Terms, term[n] = u,
         NEW o \in [Nodes -> Seq(Message)], Mailed(n, TRUE, o), Announced(o, n, u),
         Linking(H2, A2, n, u)', Tells(A2, n)'
  PROVE  LogInv(v, H2, A2)'
<1>1. /\ TypeInv /\ TypeInv' /\ Core(H, A) /\ Files(H, A) /\ Accepts /\ Mail(H, A) /\ Chains(H, A) /\ Acked(A)
      /\ SelfVoted(v) /\ Backed(v, H, A) /\ Noted /\ Telling(A) /\ Setting(H)
  BY DEF Explained, LogInv
<1>2. ElectedOncePerTerm'
  BY WinnerNext
<1>3. Core(H2, A2)'
  BY <1>1, AppendsCore
<1>4. Acked(A2)'
  BY <1>1, <1>2, AppendsAcked
<1>5. Files(H2, A2)'
  BY <1>1, <1>2, AppendsFiles
<1>6. Mail(H2, A2)'
  BY <1>1, <1>2, AppendsMail
<1>7. Chains(H2, A2)'
  BY <1>1, <1>2, AppendsAllChains
<1>8. Noted'
  BY <1>1, <1>2, AppendsNoted
<1>9. Telling(A2)'
  <2>1. Untold(A2, n)' \/ \A y \in Others(n) : A2[y][term'[n]] = 0 => pending'[n][y] # None
    BY DEF Tells, Others
  <2> QED
    BY <1>1, <1>2, <2>1, AppendsTelling
<1>10. Setting(H2)'
  BY <1>1, <1>2, AppendsSetting
<1>11. Grown(H, A, H2, A2) /\ \A m \in Nodes : m # n => log'[m] = log[m] /\ role'[m] = role[m]
  BY <1>1, <1>2, ExtendedFacts
<1>12. Backed(v, H2, A2)'
  <2>1. role'[n] = "Leader" /\ term' = term
    BY <1>1 DEF Extended, TypeInv, ElectionType
  <2>2. \A c \in Nodes : role'[c] = "Candidate" => role[c] = "Candidate" /\ term'[c] = term[c] /\ log'[c] = log[c]
    BY <1>11, <2>1
  <2> QED
    BY <1>1, <1>11, <2>2, BackedStays
<1>13. Accepts'
  <2>1. inbox[n] # <<>> /\ nodes' = nodes
    BY DEF Appends
  <2>2. \A x \in Nodes : \A i \in 1 .. Len(o[x]) : o[x][i].type = "AppendEntry"
    BY AnnouncedFacts
  <2> QED
    BY <1>1, <2>1, <2>2, AcceptsStay
<1> QED
  BY <1>1, <1>3, <1>4, <1>5, <1>6, <1>7, <1>8, <1>9, <1>10, <1>12, <1>13 DEF LogInv, SelfVoted
\* The books of the term of n with its new entries.
Later(H, A, H2, A2, n, es) ==
  H2 = [H EXCEPT ![term[n]] = log[n] \o es] /\ A2 = [A EXCEPT ![n][term[n]] = Len(log[n] \o es)]

\* There are such books.
LEMMA LaterBooks ==
  ASSUME TypeInv, NEW H \in Books, NEW A \in Counts, NEW n \in Nodes, term[n] \in Terms,
         NEW es \in Seq(Entries)
  PROVE  \E H2 \in Books, A2 \in Counts : Later(H, A, H2, A2, n, es)
<1>1. log[n] \in Seq(Entries)
  BY AtHand
<1>2. log[n] \o es \in Seq(Entries) /\ Len(log[n] \o es) \in Nat
  BY <1>1
<1>3. [H EXCEPT ![term[n]] = log[n] \o es] \in Books
  BY <1>2 DEF Books
<1>4. [A EXCEPT ![n][term[n]] = Len(log[n] \o es)] \in Counts
  BY <1>2 DEF Counts
<1> QED
  BY <1>3, <1>4 DEF Later

\* A client's command at the leader n: the entry e for whoever is idle.
Commanded(n, es, e, out) ==
  /\ inbox[n] # <<>> /\ Head(inbox[n]).type = "Command" /\ role[n] = "Leader"
  /\ Len(es) = 1 /\ es[1].term = term[n]
  /\ log' = [log EXCEPT ![n] = @ \o es] /\ acks' = [acks EXCEPT ![n] = Append(@, {n})]
  /\ e = EntryData(log[n] \o es, Len(log[n]))
  /\ \A m \in Nodes : pending'[n][m] = IF m \in Idle(n) THEN e ELSE pending[n][m]
  /\ \A k \in Nodes : k # n => pending'[k] = pending[k]
  /\ \A m \in Nodes : out[m] = IF m \in Idle(n) THEN <<AppendEntry(n, e)>> ELSE <<>>
  /\ Deliver(n, out) /\ AppendEntry(n, e) \in Message
  /\ UNCHANGED <<nodes, role, term, elected, pending_cmds, applied>>

\* The code of a leader that gets a command, with names for what it computes.
LEMMA CommandTaken ==
  ASSUME NEW v \in Ballots, Explained(v), NEW n \in Nodes, LeaderCommand(n)
  PROVE  \E es \in Seq(Entries), e \in Sendable \cup {None}, out \in [Nodes -> Seq(Message)] :
           Commanded(n, es, e, out)
<1>m. PICK new, log1, e, out :
        /\ new = [term |-> term[n], cmd |-> Head(inbox[n]).cmd]
        /\ log1 = Append(log[n], new)
        /\ e = EntryData(log1, Len(log1) - 1)
        /\ out = [m \in Nodes |-> IF m \in Idle(n) THEN <<AppendEntry(n, e)>> ELSE <<>>]
  OBVIOUS
<1>1. /\ Received(n, "Command") /\ role[n] = "Leader"
      /\ log' = [log EXCEPT ![n] = log1]
      /\ acks' = [acks EXCEPT ![n] = Append(@, {n})]
      /\ pending' = [pending EXCEPT ![n] = [m \in Nodes |-> IF m \in Idle(n) THEN e ELSE @[m]]]
      /\ Deliver(n, out)
      /\ UNCHANGED <<nodes, role, term, elected, pending_cmds, applied>>
  BY <1>m DEF LeaderCommand, setupVars, electionVars
<1>2. new \in Entries /\ new.term = term[n]
  <2>1. Head(inbox[n]).cmd \in Commands
    BY <1>1, FirstInInbox, Carries DEF Explained
  <2>2. term[n] \in Terms
    BY <1>1, AtHand DEF Explained
  <2> QED
    BY <1>m, <2>1, <2>2 DEF Entries, Terms
<1>3. log[n] \in Seq(Entries) /\ log \in [Nodes -> Seq(Entries)]
  BY DEF Explained, TypeInv, LogType
<1>4. /\ log1 \in Seq(Entries) /\ Len(log1) - 1 = Len(log[n]) /\ Len(log[n]) \in Nat
      /\ log1 = log[n] \o <<new>> /\ <<new>> \in Seq(Entries) /\ Len(<<new>>) = 1 /\ <<new>>[1] = new
  BY <1>m, <1>2, <1>3
<1>5. e \in Sendable \cup {None} /\ e = EntryData(log[n] \o <<new>>, Len(log[n]))
  BY <1>m, <1>4, EntryDataType
<1>6. AppendEntry(n, e) \in Message
  BY <1>5, Broadcasts DEF Explained
<1>7. out \in [Nodes -> Seq(Message)]
  <2>1. <<AppendEntry(n, e)>> \in Seq(Message)
    BY <1>6
  <2> QED
    BY <1>m, <2>1, NoReply
<1>8. inbox[n] # <<>> /\ Head(inbox[n]).type = "Command"
  BY <1>1 DEF Received
<1>9. log' = [log EXCEPT ![n] = @ \o <<new>>]
  BY <1>1, <1>4
<1>10. /\ \A m \in Nodes : pending'[n][m] = IF m \in Idle(n) THEN e ELSE pending[n][m]
       /\ \A k \in Nodes : k # n => pending'[k] = pending[k]
  BY <1>1 DEF Explained, TypeInv, LogType
<1>11. \A m \in Nodes : out[m] = IF m \in Idle(n) THEN <<AppendEntry(n, e)>> ELSE <<>>
  BY <1>m
<1>12. Commanded(n, <<new>>, e, out)
  BY <1>1, <1>2, <1>4, <1>5, <1>6, <1>8, <1>9, <1>10, <1>11 DEF Commanded
<1> QED
  BY <1>4, <1>5, <1>7, <1>12

\* The entry is noted for all it has nothing noted for.
LEMMA CommandNoted ==
  ASSUME TypeInv, TypeInv', Noted, SetUp, NEW n \in Nodes, NEW es \in Seq(Entries), NEW e, NEW out,
         Commanded(n, es, e, out)
  PROVE  /\ e # None /\ e.index = Len(log[n])
         /\ log'[n] = log[n] \o es /\ Len(log'[n]) = Len(log[n]) + 1
         /\ \A x \in Nodes : pending'[n][x] # None =>
              pending'[n][x].index < Len(log'[n]) /\ pending'[n][x] = EntryData(log'[n], pending'[n][x].index)
         /\ \A y \in Nodes : y # n =>
              pending'[n][y] # None /\ Goal(n, y)' = Goal(n, y) /\ pending'[n][y].index = Goal(n, y)
<1>1. /\ role[n] = "Leader" /\ Len(es) = 1 /\ log' = [log EXCEPT ![n] = @ \o es]
      /\ e = EntryData(log[n] \o es, Len(log[n]))
      /\ \A m \in Nodes : pending'[n][m] = IF m \in Idle(n) THEN e ELSE pending[n][m]
  BY DEF Commanded
<1>2. log \in [Nodes -> Seq(Entries)] /\ log[n] \in Seq(Entries) /\ Len(log[n]) \in Nat
  BY DEF TypeInv, LogType
<1>3. log'[n] = log[n] \o es /\ Len(log'[n]) = Len(log[n]) + 1 /\ log'[n] \in Seq(Entries)
      /\ \A i \in 1 .. Len(log[n]) : log'[n][i] = log[n][i]
  <2>1. log'[n] = log[n] \o es
    BY <1>1, <1>2
  <2>2. /\ log[n] \o es \in Seq(Entries) /\ Len(log[n] \o es) = Len(log[n]) + Len(es)
        /\ \A i \in 1 .. Len(log[n]) : (log[n] \o es)[i] = log[n][i]
    BY <1>2
  <2> QED
    BY <1>1, <2>1, <2>2
<1>4. Len(log[n]) < Len(log'[n]) /\ Same(log[n], log'[n], Len(log[n]))
  BY <1>2, <1>3 DEF Same
<1>5. e # None /\ e = EntryData(log'[n], Len(log[n]))
  BY <1>1, <1>2, <1>3, <1>4, SentEntry
<1>6. e.index = Len(log[n])
  BY <1>4, <1>5 DEF EntryData
<1>7. ASSUME NEW x \in Nodes, pending[n][x] # None
      PROVE  /\ pending[n][x].index < Len(log'[n]) /\ pending[n][x].index \in Nat
             /\ pending[n][x] = EntryData(log'[n], pending[n][x].index)
  <2>1. PICK i : i = pending[n][x].index /\ i < Len(log[n]) /\ pending[n][x] = EntryData(log[n], i)
    BY <1>1, <1>7 DEF Noted
  <2>2. i \in Nat
    BY <1>7, <2>1 DEF TypeInv, LogType, Sendable
  <2>3. i < Len(log'[n])
    BY <1>2, <1>3, <2>1, <2>2
  <2>4. EntryData(log'[n], i) = EntryData(log[n], i)
    BY <1>2, <1>3, <1>4, <2>1, <2>2, EntryDataStays
  <2> QED
    BY <2>1, <2>2, <2>3, <2>4
<1>8. ASSUME NEW x \in Nodes, pending'[n][x] # None
      PROVE  pending'[n][x].index < Len(log'[n]) /\ pending'[n][x] = EntryData(log'[n], pending'[n][x].index)
  <2>1. CASE x \in Idle(n)
    BY <1>1, <1>4, <1>5, <1>6, <2>1
  <2>2. CASE x \notin Idle(n)
    BY <1>1, <1>7, <1>8, <2>2
  <2> QED
    BY <2>1, <2>2
<1>9. ASSUME NEW y \in Nodes, y # n
      PROVE  pending'[n][y] # None /\ Goal(n, y)' = Goal(n, y) /\ pending'[n][y].index = Goal(n, y)
  <2>1. CASE pending[n][y] = None
    <3>1. y \in Idle(n)
      BY <1>9, <2>1 DEF Idle, SetUp, Others
    <3>2. pending'[n][y] = e /\ Goal(n, y) = Len(log[n])
      BY <1>1, <2>1, <3>1 DEF Goal
    <3> QED
      BY <1>5, <1>6, <3>2 DEF Goal
  <2>2. CASE pending[n][y] # None
    <3>1. y \notin Idle(n)
      BY <2>2 DEF Idle
    <3>2. pending'[n][y] = pending[n][y]
      BY <1>1, <3>1
    <3> QED
      BY <2>2, <3>2 DEF Goal
  <2> QED
    BY <2>1, <2>2
<1> QED
  BY <1>3, <1>5, <1>6, <1>8, <1>9

\* The log grows by it,
LEMMA CommandAppends ==
  ASSUME TypeInv, TypeInv', Noted, SetUp, NEW n \in Nodes, NEW es \in Seq(Entries), NEW e, NEW out,
         Commanded(n, es, e, out)
  PROVE  Appends(n, es)
<1>1. /\ UNCHANGED <<nodes, applied, pending_cmds>>
      /\ acks' = [acks EXCEPT ![n] = Append(@, {n})]
      /\ \A k \in Nodes : k # n => pending'[k] = pending[k]
      /\ inbox[n] # <<>> /\ Head(inbox[n]).type = "Command"
  BY DEF Commanded
<1>2. /\ acks \in [Nodes -> Seq(SUBSET Nodes)] /\ acks[n] \in Seq(SUBSET Nodes)
      /\ Len(acks[n]) = Len(log[n]) /\ Len(log[n]) \in Nat
  BY DEF TypeInv, LogType
<1>3. Len(log'[n]) = Len(log[n]) + 1
      /\ \A x \in Nodes : pending'[n][x] # None =>
           pending'[n][x].index < Len(log'[n]) /\ pending'[n][x] = EntryData(log'[n], pending'[n][x].index)
  BY CommandNoted
<1>4. acks'[n] = Append(acks[n], {n})
  BY <1>1, <1>2
<1>5. \A i \in 1 .. Len(log[n]) : acks'[n][i] = acks[n][i]
  BY <1>2, <1>4
<1>6. \A i \in 1 .. Len(log'[n]) : i > Len(log[n]) => acks'[n][i] = {n}
  <2> SUFFICES ASSUME NEW i \in 1 .. Len(log'[n]), i > Len(log[n]) PROVE acks'[n][i] = {n}
    OBVIOUS
  <2>1. i = Len(acks[n]) + 1
    BY <1>2, <1>3
  <2> QED
    BY <1>2, <1>4, <2>1
<1>7. \A y \in Nodes : y # n => acks'[y] = acks[y]
  BY <1>1, <1>2
<1> QED
  BY <1>1, <1>3, <1>5, <1>6, <1>7 DEF Appends

\* and it is sent to all.
LEMMA CommandAnnounced ==
  ASSUME TypeInv, TypeInv', Noted, SetUp, NEW n \in Nodes, NEW es \in Seq(Entries), NEW e,
         NEW out \in [Nodes -> Seq(Message)], Commanded(n, es, e, out), NEW u, term[n] = u
  PROVE  \E o \in [Nodes -> Seq(Message)] : Mailed(n, TRUE, o) /\ Announced(o, n, u)
<1>1. /\ inbox[n] # <<>> /\ Deliver(n, out) /\ AppendEntry(n, e) \in Message
      /\ \A m \in Nodes : pending'[n][m] = IF m \in Idle(n) THEN e ELSE pending[n][m]
      /\ \A m \in Nodes : out[m] = IF m \in Idle(n) THEN <<AppendEntry(n, e)>> ELSE <<>>
  BY DEF Commanded
<1>2. PICK o \in [Nodes -> Seq(Message)] :
        /\ Mailed(n, TRUE, o)
        /\ o = [m \in Nodes |-> IF m # n /\ m \in nodes[n] /\ Reaches(n, m) THEN out[m] ELSE <<>>]
  BY <1>1, DeliverMailed
<1>3. e # None
  BY CommandNoted
<1>4. PICK msg \in Message : msg = AppendEntry(n, e) /\ msg.type = "AppendEntry" /\ msg.src = n /\ msg.term = u
                             /\ msg.entry = e
  BY <1>1 DEF AppendEntry
<1>5. ASSUME NEW x \in Nodes, o[x] # <<>>
      PROVE  o[x] = <<msg>> /\ msg.entry = pending'[n][x] /\ msg.entry # None
  <2>1. o[x] = out[x]
    BY <1>2, <1>5
  <2>2. x \in Idle(n)
    BY <1>1, <1>5, <2>1
  <2> QED
    BY <1>1, <1>3, <1>4, <2>1, <2>2
<1>6. o[n] = <<>>
  BY <1>2
<1>7. Announced(o, n, u)
  BY <1>4, <1>5, <1>6 DEF Announced
<1> QED
  BY <1>2, <1>7
\* A client's command at a leader becomes an entry of its log.
LEMMA LeaderCommandLog ==
  ASSUME MajoritiesMeet, NEW v \in Ballots, Explained(v), NEW H \in Books, NEW A \in Counts, LogInv(v, H, A),
         NEW n \in Nodes, LeaderCommand(n)
  PROVE  Explained(v)' /\ \E H2 \in Books, A2 \in Counts : LogInv(v, H2, A2)'
<1>1. Explained(v)'
  BY LeaderCommandInd
<1>2. /\ TypeInv /\ TypeInv' /\ Core(H, A) /\ Chains(H, A) /\ Noted /\ Mail(H, A)
  BY <1>1 DEF Explained, LogInv
<1>3. PICK es \in Seq(Entries), e \in Sendable \cup {None}, out \in [Nodes -> Seq(Message)] :
        Commanded(n, es, e, out)
  BY CommandTaken
<1>4. /\ role[n] = "Leader" /\ inbox[n] # <<>> /\ Head(inbox[n]).type = "Command"
      /\ Len(es) = 1 /\ es[1].term = term[n] /\ log' = [log EXCEPT ![n] = @ \o es]
      /\ UNCHANGED <<role, term, elected>>
  BY <1>3 DEF Commanded
<1>5. PICK u \in Terms : u = term[n]
  BY <1>2, <1>4, AtHand
<1>6. SetUp
  <2>1. MailOk(H, A, n, Head(inbox[n]))
    BY <1>2, <1>4, FirstMail
  <2> QED
    BY <1>4, <2>1 DEF MailOk
<1>7. PICK H2 \in Books, A2 \in Counts : Later(H, A, H2, A2, n, es)
  BY <1>2, <1>5, LaterBooks
<1>8. <<n, u>> \in elected
  BY <1>2, <1>4, <1>5 DEF Core, Leaders
<1>9. Extended(H, A, H2, A2, n, es)
  <2>1. role' = [role EXCEPT ![n] = "Leader"]
    BY <1>2, <1>4 DEF TypeInv, ElectionType
  <2>2. elected' = elected \cup {<<n, term[n]>>}
    BY <1>4, <1>5, <1>8
  <2>3. \A i \in 1 .. Len(es) : es[i].term = term[n]
    BY <1>4
  <2> QED
    BY <1>4, <1>7, <2>1, <2>2, <2>3 DEF Extended, Later
<1>10. ElectedOncePerTerm'
  BY <1>1, WinnerNext
<1>11. Appends(n, es)
  BY <1>2, <1>3, <1>6, CommandAppends
<1>12. PICK o \in [Nodes -> Seq(Message)] : Mailed(n, TRUE, o) /\ Announced(o, n, u)
  BY <1>2, <1>3, <1>5, <1>6, CommandAnnounced
<1>13. \A y \in Nodes : y # n =>
         pending'[n][y] # None /\ Goal(n, y)' = Goal(n, y) /\ pending'[n][y].index = Goal(n, y)
  BY <1>2, <1>3, <1>6, CommandNoted
<1>14. Linking(H2, A2, n, u)'
  <2> SUFFICES ASSUME NEW x \in Nodes, x # n, term'[x] <= u PROVE ChainAt(H2, A2, n, x, u)'
    BY DEF Linking
  <2>1. Aimed(n)
    BY <1>13 DEF Aimed
  <2> QED
    BY <1>2, <1>5, <1>8, <1>9, <1>10, <1>11, <1>12, <2>1, AppendsChains
<1>15. Tells(A2, n)'
  BY <1>13 DEF Tells, Others
<1>16. LogInv(v, H2, A2)'
  BY <1>1, <1>5, <1>9, <1>11, <1>12, <1>14, <1>15, AppendsDone
<1> QED
  BY <1>1, <1>16
\* The vote that makes n a leader: es are the commands it kept, last the entry it begins with.
Turned(n, es, last, out) ==
  /\ inbox[n] # <<>> /\ Head(inbox[n]).type = "Vote" /\ role[n] = "Candidate"
  /\ \A i \in 1 .. Len(es) : es[i].term = term[n]
  /\ pending_cmds[n] = <<>> => es = <<>>
  /\ log' = [log EXCEPT ![n] = @ \o es]
  /\ role' = [role EXCEPT ![n] = "Leader"] /\ elected' = elected \cup {<<n, term[n]>>}
  /\ \A y \in Nodes : y # n => acks'[y] = acks[y] /\ pending'[y] = pending[y]
  /\ \A i \in 1 .. Len(log[n]) : acks'[n][i] = acks[n][i]
  /\ \A i \in 1 .. Len(log'[n]) : i > Len(log[n]) => acks'[n][i] = {n}
  /\ log[n] = <<>> => last = None
  /\ log[n] # <<>> => last = EntryData(log[n], Len(log[n]) - 1)
  /\ \A m \in Nodes : pending'[n][m] = IF m \in nodes[n] THEN last ELSE None
  /\ \A y \in Nodes : pending_cmds'[y] = pending_cmds[y] \/ pending_cmds'[y] = <<>>
  /\ \A m \in Nodes : out[m] = <<AppendEntry(n, last)>>
  /\ Deliver(n, out) /\ AppendEntry(n, last) \in Message
  /\ UNCHANGED <<nodes, term, applied>>

\* The code of a candidate that gets its last vote, with names for what it computes.
LEMMA TurnTaken ==
  ASSUME NEW v \in Ballots, Explained(v), NEW n \in Nodes, BecomeLeader(n)
  PROVE  \E es \in Seq(Entries), last \in Sendable \cup {None}, out \in [Nodes -> Seq(Message)] : Turned(n, es, last, out)
<1>m. PICK cmds, last, out, newLog, newAcks :
        /\ cmds = pending_cmds[n]
        /\ last = IF log[n] = <<>> THEN None ELSE EntryData(log[n], Len(log[n]) - 1)
        /\ out = ToAll(AppendEntry(n, last))
        /\ newLog = [i \in DOMAIN cmds |-> [term |-> term[n], cmd |-> cmds[i]]]
        /\ newAcks = [i \in DOMAIN cmds |-> {n}]
  OBVIOUS
<1>1. /\ Received(n, "Vote") /\ role[n] = "Candidate" /\ term[n] = Head(inbox[n]).term
      /\ role' = [role EXCEPT ![n] = "Leader"]
      /\ elected' = elected \cup {<<n, term[n]>>}
      /\ pending' = [pending EXCEPT ![n] = [m \in Nodes |-> IF m \in nodes[n] THEN last ELSE None]]
      /\ log' = [log EXCEPT ![n] = @ \o newLog]
      /\ acks' = [acks EXCEPT ![n] = @ \o newAcks]
      /\ Deliver(n, out)
      /\ pending_cmds' = [pending_cmds EXCEPT ![n] = <<>>]
      /\ UNCHANGED <<nodes, term, applied>>
  BY <1>m DEF BecomeLeader, setupVars
<1>2. TypeInv /\ term[n] \in Terms
  BY <1>1, FirstInInbox, Carries DEF Explained
<1>3. /\ cmds \in Seq(Commands) /\ log[n] \in Seq(Entries) /\ Len(log[n]) \in Nat
      /\ acks[n] \in Seq(SUBSET Nodes) /\ Len(acks[n]) = Len(log[n])
  BY <1>m, <1>2, AtHand
<1>4. newLog \in Seq(Entries) /\ Len(newLog) = Len(cmds)
  <2>1. \A i \in DOMAIN cmds : [term |-> term[n], cmd |-> cmds[i]] \in Entries
    BY <1>2, <1>3 DEF Entries, Terms
  <2>2. newLog \in [DOMAIN cmds -> Entries] /\ DOMAIN newLog = DOMAIN cmds
    BY <1>m, <2>1
  <2> QED
    BY <1>3, <2>2, Mapped
<1>5. newAcks \in Seq(SUBSET Nodes) /\ Len(newAcks) = Len(cmds) /\ \A i \in 1 .. Len(cmds) : newAcks[i] = {n}
  <2>1. newAcks \in [DOMAIN cmds -> SUBSET Nodes] /\ DOMAIN newAcks = DOMAIN cmds
    BY <1>m
  <2>2. newAcks \in Seq(SUBSET Nodes) /\ Len(newAcks) = Len(cmds)
    BY <1>3, <2>1, Mapped
  <2>3. DOMAIN cmds = 1 .. Len(cmds)
    BY <1>3
  <2> QED
    BY <1>m, <2>2, <2>3
<1>6. \A i \in 1 .. Len(newLog) : newLog[i].term = term[n]
  <2>1. DOMAIN cmds = 1 .. Len(newLog)
    BY <1>3, <1>4
  <2> QED
    BY <1>m, <2>1
<1>7. pending_cmds[n] = <<>> => newLog = <<>>
  BY <1>m, <1>3, <1>4
<1>8. /\ log'[n] = log[n] \o newLog /\ Len(log'[n]) = Len(log[n]) + Len(newLog)
      /\ acks'[n] = acks[n] \o newAcks
      /\ \A y \in Nodes : y # n => acks'[y] = acks[y] /\ pending'[y] = pending[y]
      /\ \A m \in Nodes : pending'[n][m] = IF m \in nodes[n] THEN last ELSE None
      /\ \A y \in Nodes : pending_cmds'[y] = pending_cmds[y] \/ pending_cmds'[y] = <<>>
  <2>1. /\ log \in [Nodes -> Seq(Entries)] /\ acks \in [Nodes -> Seq(SUBSET Nodes)]
        /\ pending_cmds \in [Nodes -> Seq(Commands)] /\ pending \in [Nodes -> [Nodes -> Sendable \cup {None}]]
    BY <1>2 DEF TypeInv, LogType
  <2>2. log'[n] = log[n] \o newLog /\ acks'[n] = acks[n] \o newAcks
    BY <1>1, <2>1
  <2>3. Len(log[n] \o newLog) = Len(log[n]) + Len(newLog)
    BY <1>3, <1>4, Joined
  <2>4. \A y \in Nodes : y # n => acks'[y] = acks[y] /\ pending'[y] = pending[y]
    BY <1>1, <2>1
  <2>5. \A m \in Nodes : pending'[n][m] = IF m \in nodes[n] THEN last ELSE None
    BY <1>1, <2>1
  <2>6. \A y \in Nodes : pending_cmds'[y] = pending_cmds[y] \/ pending_cmds'[y] = <<>>
    BY <1>1, <2>1
  <2> QED
    BY <2>2, <2>3, <2>4, <2>5, <2>6
<1>9. \A i \in 1 .. Len(log[n]) : acks'[n][i] = acks[n][i]
  BY <1>3, <1>5, <1>8
<1>10. \A i \in 1 .. Len(log'[n]) : i > Len(log[n]) => acks'[n][i] = {n}
  <2> SUFFICES ASSUME NEW i \in 1 .. Len(log'[n]), i > Len(log[n]) PROVE acks'[n][i] = {n}
    OBVIOUS
  <2>1. i - Len(acks[n]) \in 1 .. Len(newAcks) /\ i \in 1 .. Len(acks[n] \o newAcks) /\ i > Len(acks[n])
    BY <1>3, <1>4, <1>5, <1>8
  <2>2. PICK j \in 1 .. Len(newAcks) : (acks[n] \o newAcks)[i] = newAcks[j]
    <3>1. PICK ac \in Seq(SUBSET Nodes), more \in Seq(SUBSET Nodes) :
                 ac = acks[n] /\ more = newAcks /\ i \in 1 .. Len(ac \o more) /\ i > Len(ac)
      BY <1>3, <1>5, <2>1
    <3>2. i - Len(ac) \in 1 .. Len(more) /\ (ac \o more)[i] = more[i - Len(ac)]
      BY <3>1
    <3> QED
      BY <3>1, <3>2
  <2> QED
    BY <1>5, <1>8, <2>2
<1>11. last \in Sendable \cup {None}
  <2>1. log[n] # <<>> => Len(log[n]) - 1 \in Nat
    BY <1>3
  <2> QED
    BY <1>m, <1>3, <2>1, EntryDataType
<1>12. AppendEntry(n, last) \in Message
  BY <1>2, <1>11, Broadcasts
<1>13. out \in [Nodes -> Seq(Message)] /\ \A m \in Nodes : out[m] = <<AppendEntry(n, last)>>
  BY <1>m, <1>12 DEF ToAll
<1>14. inbox[n] # <<>> /\ Head(inbox[n]).type = "Vote"
  BY <1>1 DEF Received
<1>15. /\ log[n] = <<>> => last = None
       /\ log[n] # <<>> => last = EntryData(log[n], Len(log[n]) - 1)
  BY <1>m
<1>16. Turned(n, newLog, last, out)
  BY <1>1, <1>6, <1>7, <1>8, <1>9, <1>10, <1>12, <1>13, <1>14, <1>15 DEF Turned
<1> QED
  BY <1>4, <1>11, <1>13, <1>16

\* The last entry of the log it was elected with is noted for all.
LEMMA TurnNoted ==
  ASSUME TypeInv, TypeInv', NEW H \in Books, Setting(H), NEW n \in Nodes, NEW es \in Seq(Entries),
         NEW last, NEW out, Turned(n, es, last, out)
  PROVE  /\ log'[n] = log[n] \o es /\ Len(log'[n]) = Len(log[n]) + Len(es)
         /\ log[n] # <<>> => /\ last # None /\ last.index = Len(log[n]) - 1 /\ SetUp
         /\ \A x \in Nodes : pending'[n][x] # None => pending'[n][x] = last
         /\ \A y \in Nodes : y # n /\ log[n] # <<>> => pending'[n][y] = last
         /\ \A x \in Nodes : pending'[n][x] # None =>
              pending'[n][x].index < Len(log'[n]) /\ pending'[n][x] = EntryData(log'[n], pending'[n][x].index)
<1>1. /\ log' = [log EXCEPT ![n] = @ \o es]
      /\ log[n] = <<>> => last = None
      /\ log[n] # <<>> => last = EntryData(log[n], Len(log[n]) - 1)
      /\ \A m \in Nodes : pending'[n][m] = IF m \in nodes[n] THEN last ELSE None
  BY DEF Turned
<1>2. /\ log \in [Nodes -> Seq(Entries)] /\ log[n] \in Seq(Entries) /\ Len(log[n]) \in Nat
      /\ Len(es) \in Nat
  BY DEF TypeInv, LogType
<1>3. log'[n] = log[n] \o es
  BY <1>1, <1>2
<1>4. /\ log'[n] \in Seq(Entries) /\ Len(log'[n]) = Len(log[n]) + Len(es)
      /\ \A i \in 1 .. Len(log[n]) : log'[n][i] = log[n][i]
  <2>1. /\ log[n] \o es \in Seq(Entries) /\ Len(log[n] \o es) = Len(log[n]) + Len(es)
        /\ \A i \in 1 .. Len(log[n]) : (log[n] \o es)[i] = log[n][i]
    BY <1>2
  <2> QED
    BY <1>3, <2>1
<1>5. Same(log[n], log'[n], Len(log[n]))
  BY <1>2, <1>4 DEF Same
<1>6. ASSUME log[n] # <<>>
      PROVE  /\ last # None /\ last.index = Len(log[n]) - 1 /\ SetUp
             /\ Len(log[n]) - 1 \in Nat /\ Len(log[n]) - 1 < Len(log'[n])
             /\ last = EntryData(log'[n], Len(log[n]) - 1)
  <2>1. PICK i \in Nat : i = Len(log[n]) - 1 /\ i < Len(log[n])
    <3>1. \A s \in Seq(Entries) : s # <<>> => Len(s) - 1 \in Nat /\ Len(s) - 1 < Len(s)
      OBVIOUS
    <3> QED
      BY <1>2, <1>6, <3>1
  <2>2. last = EntryData(log[n], i)
    BY <1>1, <1>6, <2>1
  <2>3. EntryData(log'[n], i) = EntryData(log[n], i) /\ EntryData(log[n], i) # None
    BY <1>2, <1>4, <1>5, <2>1, EntryDataStays
  <2>4. EntryData(log[n], i).index = i
    BY <2>1 DEF EntryData
  <2>5. i < Len(log'[n])
    BY <1>2, <1>4, <2>1
  <2>6. SetUp
    BY <1>6 DEF Setting
  <2> QED
    BY <2>1, <2>2, <2>3, <2>4, <2>5, <2>6
<1>7. \A x \in Nodes : pending'[n][x] # None => pending'[n][x] = last
  BY <1>1
<1>8. \A y \in Nodes : y # n /\ log[n] # <<>> => pending'[n][y] = last
  <2> SUFFICES ASSUME NEW y \in Nodes, y # n, log[n] # <<>> PROVE pending'[n][y] = last
    OBVIOUS
  <2>1. y \in nodes[n]
    BY <1>6 DEF SetUp, Others
  <2> QED
    BY <1>1, <2>1
<1>9. ASSUME NEW x \in Nodes, pending'[n][x] # None
      PROVE  pending'[n][x].index < Len(log'[n]) /\ pending'[n][x] = EntryData(log'[n], pending'[n][x].index)
  <2>1. pending'[n][x] = last /\ log[n] # <<>>
    BY <1>1, <1>7, <1>9
  <2> QED
    BY <1>6, <2>1
<1> QED
  BY <1>3, <1>4, <1>6, <1>7, <1>8, <1>9

\* The log grows by the commands it kept,
LEMMA TurnAppends ==
  ASSUME TypeInv, TypeInv', NEW H \in Books, Setting(H), NEW n \in Nodes, NEW es \in Seq(Entries),
         NEW last, NEW out, Turned(n, es, last, out)
  PROVE  Appends(n, es)
<1>1. \A x \in Nodes : pending'[n][x] # None =>
        pending'[n][x].index < Len(log'[n]) /\ pending'[n][x] = EntryData(log'[n], pending'[n][x].index)
  BY TurnNoted
<1>2. SetUp \/ es = <<>>
  BY DEF Setting, Turned
<1> QED
  BY <1>1, <1>2 DEF Turned, Appends

\* and that entry is sent to all.
LEMMA TurnAnnounced ==
  ASSUME TypeInv, TypeInv', NEW H \in Books, NEW A \in Counts, Setting(H), Files(H, A),
         NEW n \in Nodes, NEW es \in Seq(Entries), NEW last,
         NEW out \in [Nodes -> Seq(Message)], Turned(n, es, last, out), NEW u, term[n] = u
  PROVE  \E o \in [Nodes -> Seq(Message)] : Mailed(n, TRUE, o) /\ Announced(o, n, u)
<1>1. /\ inbox[n] # <<>> /\ Deliver(n, out) /\ AppendEntry(n, last) \in Message
      /\ \A m \in Nodes : pending'[n][m] = IF m \in nodes[n] THEN last ELSE None
      /\ \A m \in Nodes : out[m] = <<AppendEntry(n, last)>>
  BY DEF Turned
<1>2. PICK o \in [Nodes -> Seq(Message)] :
        /\ Mailed(n, TRUE, o)
        /\ o = [m \in Nodes |-> IF m # n /\ m \in nodes[n] /\ Reaches(n, m) THEN out[m] ELSE <<>>]
  BY <1>1, DeliverMailed
<1>3. last = None => Len(applied[n]) = 0
  <2> SUFFICES ASSUME last = None PROVE Len(applied[n]) = 0
    OBVIOUS
  <2>1. log[n] = <<>>
    BY TurnNoted
  <2>2. Same(log[n], applied[n], Len(applied[n])) /\ Len(applied[n]) \in Nat
    BY AtHand DEF Files
  <2>3. Len(log[n]) = 0
    BY <2>1
  <2> QED
    BY <2>2, <2>3 DEF Same
<1>4. PICK msg \in Message : msg = AppendEntry(n, last) /\ msg.type = "AppendEntry" /\ msg.src = n /\ msg.term = u
                             /\ msg.entry = last /\ msg.committed = Len(applied[n])
  BY <1>1 DEF AppendEntry, committed
<1>5. ASSUME NEW x \in Nodes, o[x] # <<>>
      PROVE  o[x] = <<msg>> /\ msg.entry = pending'[n][x] /\ (msg.entry = None => msg.committed = 0)
  <2>1. o[x] = out[x] /\ x \in nodes[n]
    BY <1>2, <1>5
  <2> QED
    BY <1>1, <1>3, <1>4, <2>1
<1>6. o[n] = <<>>
  BY <1>2
<1>7. Announced(o, n, u)
  BY <1>4, <1>5, <1>6 DEF Announced
<1> QED
  BY <1>2, <1>7
\* Nobody leads a term before its election, so there is nothing of it in the inboxes.
LEMMA NothingYet ==
  ASSUME TypeInv, NEW H \in Books, NEW A \in Counts, Core(H, A), Mail(H, A),
         NEW n \in Nodes, NEW u \in Terms, term[n] = u, role[n] = "Candidate", NEW x \in Nodes
  PROVE  Only(inbox[x], Probes(n, u)) = <<>> /\ Only(inbox[n], Answers(x, u)) = <<>>
<1>1. <<n, u>> \notin elected
  BY DEF Core, Leaders
<1>2. Len(inbox[x]) \in Nat /\ Len(inbox[n]) \in Nat
  BY AtHand
<1>3. \A i \in 1 .. Len(inbox[x]) : inbox[x][i] \notin Probes(n, u)
  <2> SUFFICES ASSUME NEW i \in 1 .. Len(inbox[x]), inbox[x][i] \in Probes(n, u) PROVE FALSE
    OBVIOUS
  <2>1. MailOk(H, A, x, inbox[x][i])
    BY DEF Mail
  <2> QED
    BY <1>1, <2>1 DEF MailOk, Probes
<1>4. \A i \in 1 .. Len(inbox[n]) : inbox[n][i] \notin Answers(x, u)
  <2> SUFFICES ASSUME NEW i \in 1 .. Len(inbox[n]), inbox[n][i] \in Answers(x, u) PROVE FALSE
    OBVIOUS
  <2>1. MailOk(H, A, n, inbox[n][i])
    BY DEF Mail
  <2> QED
    BY <1>1, <2>1 DEF MailOk, Answers
<1>5. Only(inbox[x], Probes(n, u)) = <<>>
  BY <1>2, <1>3, OnlyNone
<1>6. Only(inbox[n], Answers(x, u)) = <<>>
  BY <1>2, <1>4, OnlyNone
<1> QED
  BY <1>5, <1>6

\* Its chains begin there.
LEMMA TurnChain ==
  ASSUME TypeInv, TypeInv', NEW H \in Books, NEW A \in Counts, NEW H2 \in Books, NEW A2 \in Counts,
         NEW n \in Nodes, NEW es \in Seq(Entries), Core(H, A), Extended(H, A, H2, A2, n, es), Core(H2, A2)',
         ElectedOncePerTerm', Mail(H, A), Setting(H), NEW last, NEW out, Turned(n, es, last, out),
         NEW u \in Terms, term[n] = u,
         NEW o \in [Nodes -> Seq(Message)], Mailed(n, TRUE, o), Announced(o, n, u),
         NEW x \in Nodes, x # n, term'[x] <= u
  PROVE  ChainAt(H2, A2, n, x, u)'
<1>1. inbox[n] # <<>> /\ role[n] = "Candidate"
  BY DEF Turned
<1>2. A2[x][u] = 0 /\ H2[u] = log'[n] /\ \A i \in 1 .. Len(log'[n]) : i > Len(log[n]) => log'[n][i].term = u
  <2>1. /\ role[n] = "Candidate" => \A y \in Nodes : A[y][term[n]] = 0
        /\ H2[term[n]] = log'[n]
        /\ \A m \in Nodes, t \in Terms : m # n \/ t # term[n] => A2[m][t] = A[m][t]
        /\ \A i \in 1 .. Len(log'[n]) : i > Len(log[n]) => log'[n][i].term = term[n]
    BY ExtendedFacts
  <2> QED
    BY <1>1, <2>1
<1>3. PICK k \in Nat : k = Len(log[n]) /\ k <= Len(H2[u]) /\ (log[n] = <<>> <=> k = 0)
  <2>1. log[n] \in Seq(Entries) /\ Len(log[n]) \in Nat /\ Len(es) \in Nat
    BY AtHand
  <2>2. Len(log'[n]) = Len(log[n]) + Len(es)
    BY TurnNoted
  <2> QED
    BY <1>2, <2>1, <2>2
<1>4. /\ k = 0 => pending'[n][x] = None
      /\ k # 0 => pending'[n][x] # None /\ pending'[n][x].index = k - 1
  <2>1. CASE k = 0
    <3>1. last = None
      BY <1>3, <2>1 DEF Turned
    <3> QED
      BY <2>1, <3>1, TurnNoted
  <2>2. CASE k # 0
    <3>1. last # None /\ last.index = Len(log[n]) - 1 /\ pending'[n][x] = last
      BY <1>3, <2>2, TurnNoted
    <3> QED
      BY <1>3, <2>2, <3>1
  <2> QED
    BY <2>1, <2>2
<1>5. IF k = 0 THEN Goal(n, x)' = Len(H2[u]) ELSE Goal(n, x)' = k - 1
  BY <1>2, <1>4 DEF Goal
<1>6. Only(inbox[x], Probes(n, u)) = <<>> /\ Only(inbox[n], Answers(x, u)) = <<>>
  BY <1>1, NothingYet
<1>7. Only(o[n], Answers(x, u)) = <<>>
  <2>1. \A m, y \in Nodes, w \in Terms : Only(o[m], Answers(y, w)) = <<>>
    BY AnnouncedFacts
  <2> QED
    BY <2>1
<1>8. \/ Only(o[x], Probes(n, u)) = <<>>
      \/ \E e \in Probes(n, u) : Only(o[x], Probes(n, u)) = <<e>> /\ e.entry.index = Goal(n, x)'
  <2> SUFFICES ASSUME Only(o[x], Probes(n, u)) # <<>>
               PROVE  \E e \in Probes(n, u) : Only(o[x], Probes(n, u)) = <<e>> /\ e.entry.index = Goal(n, x)'
    OBVIOUS
  <2>1. ProbedAlone(o, n, u, x)
    BY AnnouncedProbe
  <2>2. PICK e \in Probes(n, u) : Only(o[x], Probes(n, u)) = <<e>> /\ e.entry = pending'[n][x]
    BY <2>1 DEF ProbedAlone
  <2>3. e.entry # None
    BY DEF Probes
  <2>4. e.entry.index = Goal(n, x)'
    BY <2>2, <2>3 DEF Goal
  <2> QED
    BY <2>2, <2>4
<1>9. \A i \in 1 .. Len(H2[u]) : i > k => H2[u][i].term = u
  BY <1>2, <1>3
<1> QED
  BY <1>1, <1>2, <1>3, <1>5, <1>6, <1>7, <1>8, <1>9, ChainBegun

\* It has told all, or it was elected with an empty log and has only kept commands.
LEMMA TurnTells ==
  ASSUME TypeInv, TypeInv', NEW H \in Books, NEW A \in Counts, NEW H2 \in Books, NEW A2 \in Counts,
         NEW n \in Nodes, NEW es \in Seq(Entries), Core(H, A), Extended(H, A, H2, A2, n, es),
         ElectedOncePerTerm', Mail(H, A), Files(H, A), Setting(H), NEW last, NEW out, Turned(n, es, last, out),
         NEW u \in Terms, term[n] = u,
         NEW o \in [Nodes -> Seq(Message)], Mailed(n, TRUE, o), Announced(o, n, u)
  PROVE  Tells(A2, n)'
<1>1. inbox[n] # <<>> /\ role[n] = "Candidate" /\ applied' = applied /\ term' = term
  BY DEF Turned
<1>2. CASE log[n] # <<>>
  <2>1. last # None /\ \A y \in Nodes : y # n => pending'[n][y] = last
    BY <1>2, TurnNoted
  <2> QED
    BY <2>1 DEF Tells, Others
<1>3. CASE log[n] = <<>>
  <2>1. /\ role[n] = "Candidate" => \A y \in Nodes : A[y][term[n]] = 0
        /\ \A m \in Nodes, t \in Terms : m # n \/ t # term[n] => A2[m][t] = A[m][t]
        /\ \A i \in 1 .. Len(log'[n]) : i > Len(log[n]) => log'[n][i].term = term[n]
    BY ExtendedFacts
  <2>2. Len(log[n]) = 0
    BY <1>3
  <2>3. applied'[n] = <<>>
    <3>1. Same(log[n], applied[n], Len(applied[n])) /\ applied[n] \in Seq(Entries)
      BY AtHand DEF Files
    <3>2. Len(applied[n]) = 0
      BY <2>2, <3>1 DEF Same
    <3> QED
      BY <1>1, <3>1, <3>2
  <2>4. \A i \in 1 .. Len(log'[n]) : log'[n][i].term = u /\ acks'[n][i] = {n}
    <3>1. \A i \in 1 .. Len(log'[n]) : i > Len(log[n])
      BY <2>2
    <3> QED
      BY <2>1, <3>1 DEF Turned
  <2>5. ASSUME NEW x \in Others(n)
        PROVE  /\ pending'[n][x] = None /\ A2[x][u] = 0
               /\ Only(inbox'[x], Probes(n, u)) = <<>> /\ Only(inbox'[n], Answers(x, u)) = <<>>
    <3>1. x \in Nodes /\ x # n
      BY DEF Others
    <3>2. pending'[n][x] = None
      BY <1>3, <3>1 DEF Turned
    <3>3. A2[x][u] = 0
      BY <1>1, <2>1, <3>1
    <3>4. Only(inbox[x], Probes(n, u)) = <<>> /\ Only(inbox[n], Answers(x, u)) = <<>>
      BY <1>1, <3>1, NothingYet
    <3>5. Only(o[x], Probes(n, u)) = <<>>
      <4>1. ProbedAlone(o, n, u, x)
        BY <3>1, AnnouncedProbe
      <4> QED
        BY <3>2, <4>1 DEF ProbedAlone, Probes
    <3>6. Only(o[n], Answers(x, u)) = <<>>
      <4>1. \A m, y \in Nodes, w \in Terms : Only(o[m], Answers(y, w)) = <<>>
        BY AnnouncedFacts
      <4> QED
        BY <3>1, <4>1
    <3>7. \A z \in Nodes : \A S : Only(inbox[z], S) = <<>> /\ Only(o[z], S) = <<>> => Only(inbox'[z], S) = <<>>
      BY <1>1, StillNone
    <3>8. Only(inbox'[x], Probes(n, u)) = <<>>
      BY <3>1, <3>4, <3>5, <3>7
    <3>9. Only(inbox'[n], Answers(x, u)) = <<>>
      BY <3>4, <3>6, <3>7
    <3> QED
      BY <3>2, <3>3, <3>8, <3>9
  <2>6. term'[n] = u
    BY <1>1
  <2>7. \A x \in Others(n)' : /\ pending'[n][x] = None /\ A2[x][term'[n]] = 0
                              /\ Only(inbox'[x], Probes(n, term'[n])) = <<>>
                              /\ Only(inbox'[n], Answers(x, term'[n])) = <<>>
    BY <2>5, <2>6 DEF Others
  <2>8. Untold(A2, n)'
    BY <2>3, <2>4, <2>6, <2>7 DEF Untold
  <2> QED
    BY <2>8 DEF Tells
<1> QED
  BY <1>2, <1>3
\* The vote that makes a leader.
LEMMA BecomeLeaderLog ==
  ASSUME MajoritiesMeet, NEW v \in Ballots, Explained(v), NEW H \in Books, NEW A \in Counts, LogInv(v, H, A),
         NEW n \in Nodes, BecomeLeader(n)
  PROVE  Explained(v)' /\ \E H2 \in Books, A2 \in Counts : LogInv(v, H2, A2)'
<1>1. Explained(v)'
  BY BecomeLeaderInd
<1>2. /\ TypeInv /\ TypeInv' /\ Core(H, A) /\ Files(H, A) /\ Mail(H, A) /\ Setting(H)
      /\ SelfVoted(v) /\ Backed(v, H, A)
  BY <1>1 DEF Explained, LogInv
<1>3. PICK es \in Seq(Entries), last \in Sendable \cup {None}, out \in [Nodes -> Seq(Message)] :
        Turned(n, es, last, out)
  BY TurnTaken
<1>4. /\ role[n] = "Candidate" /\ \A i \in 1 .. Len(es) : es[i].term = term[n]
      /\ log' = [log EXCEPT ![n] = @ \o es]
      /\ role' = [role EXCEPT ![n] = "Leader"] /\ elected' = elected \cup {<<n, term[n]>>} /\ term' = term
  BY <1>3 DEF Turned
<1>5. PICK u \in Terms : u = term[n]
  <2>1. Head(inbox[n]) \in Message /\ Head(inbox[n]).type = "Vote" /\ term[n] = Head(inbox[n]).term
    BY <1>2, FirstInInbox DEF BecomeLeader
  <2>2. term[n] \in Terms
    BY <2>1, Carries
  <2> QED
    BY <2>2
<1>6. PICK H2 \in Books, A2 \in Counts : Later(H, A, H2, A2, n, es)
  BY <1>2, <1>5, LaterBooks
<1>7. Extended(H, A, H2, A2, n, es)
  BY <1>4, <1>6 DEF Extended, Later
<1>8. ElectedOncePerTerm'
  BY <1>1, WinnerNext
<1>9. Appends(n, es)
  BY <1>2, <1>3, TurnAppends
<1>10. PICK o \in [Nodes -> Seq(Message)] : Mailed(n, TRUE, o) /\ Announced(o, n, u)
  BY <1>2, <1>3, <1>5, TurnAnnounced
<1>11. Core(H2, A2)'
  BY <1>1, <1>2, <1>7, AppendsCore
<1>12. Linking(H2, A2, n, u)'
  <2> SUFFICES ASSUME NEW x \in Nodes, x # n, term'[x] <= u PROVE ChainAt(H2, A2, n, x, u)'
    BY DEF Linking
  <2> QED
    BY <1>2, <1>3, <1>5, <1>7, <1>8, <1>10, <1>11, TurnChain
<1>13. Tells(A2, n)'
  BY <1>2, <1>3, <1>5, <1>7, <1>8, <1>10, TurnTells
<1>14. LogInv(v, H2, A2)'
  BY <1>1, <1>5, <1>7, <1>9, <1>10, <1>12, <1>13, AppendsDone
<1> QED
  BY <1>1, <1>14

\* No answer on its way is beyond the log of the leader it answers.
LEMMA NoPanic ==
  ASSUME NEW v \in Ballots, Explained(v), NEW H \in Books, NEW A \in Counts, LogInv(v, H, A), NEW n \in Nodes
  PROVE  /\ ~Panic(n) /\ ~ClientFails(n) /\ \A m \in Nodes : ~TellFails(n, m)
         /\ role[n] # "Panicked"
<1>1. TypeInv /\ Core(H, A) /\ Mail(H, A)
  BY DEF Explained, LogInv
<1>2. role[n] # "Panicked"
  BY <1>1 DEF Core, Leaders
<1>3. ASSUME Panic(n) PROVE FALSE
  <2>1. PICK msg : msg = Head(inbox[n])
    OBVIOUS
  <2>2. msg.type = "AppendEntryResponse" /\ inbox[n] # <<>> /\ msg.term = term[n] /\ Panics(n, msg)
    BY <1>3, <2>1 DEF Panic, Received
  <2>3. MailOk(H, A, n, msg) /\ msg \in Message
    BY <1>1, <2>1, <2>2, FirstMail
  <2>4. <<n, msg.term>> \in elected /\ msg.index < Len(H[msg.term]) /\ msg.index \in Nat
    BY <2>2, <2>3, Carries DEF MailOk
  <2>5. PICK t \in Terms : t = msg.term
    BY <1>1, <2>4 DEF TypeInv, ElectionType
  <2>6. H[t] = log[n]
    BY <1>1, <2>2, <2>4, <2>5, WinnerLeads DEF Core
  <2>7. Len(acks[n]) = Len(log[n]) /\ Len(log[n]) \in Nat
    BY <1>1, AtHand
  <2> QED
    BY <2>2, <2>4, <2>5, <2>6, <2>7 DEF Panics
<1> QED
  BY <1>2, <1>3 DEF ClientFails, TellFails

\* A step that changes nothing keeps the invariant.
LEMMA LogsUnchanged ==
  ASSUME NEW v \in Ballots, Explained(v), NEW H \in Books, NEW A \in Counts, LogInv(v, H, A), UNCHANGED vars
  PROVE  LogInv(v, H, A)'
<1>1. UNCHANGED <<nodes, told, inbox, part, role, term, elected, log, acks, pending_cmds, applied, pending>>
  BY DEF vars, setupVars, netVars, electionVars, logVars
<1>2. /\ Core(H, A) /\ Acked(A) /\ Files(H, A) /\ SelfVoted(v) /\ Backed(v, H, A)
      /\ Mail(H, A) /\ Chains(H, A) /\ Noted /\ Telling(A) /\ Setting(H) /\ Accepts
  BY DEF LogInv
<1>3. \A t, k : Lost(A, t, k)' <=> Lost(A, t, k)
  BY <1>1 DEF Lost
<1>4. Core(H, A)'
  <2>1. Leaders(H, A)' /\ Logs(H, A)' /\ Bound(H)' /\ Held(H, A)'
    BY <1>1, <1>2 DEF Core, Leaders, Logs, Bound, Held, Won
  <2>2. Kept(H, A)'
    BY <1>1, <1>2, <1>3 DEF Core, Kept
  <2>3. Complete(H, A)'
    BY <1>1, <1>2, <1>3 DEF Core, Complete, Won
  <2> QED
    BY <2>1, <2>2, <2>3 DEF Core
<1>5. Acked(A)' /\ Files(H, A)'
  BY <1>1, <1>2 DEF Acked, Files
<1>6. SelfVoted(v)' /\ Backed(v, H, A)'
  BY <1>1, <1>2, <1>3 DEF SelfVoted, Backed
<1>7. Mail(H, A)'
  BY <1>1, <1>2 DEF Mail, MailOk, SetUp, Others
<1>8. Chains(H, A)'
  <2>1. \A x, u, a : Fine(H, A, x, u, a)' <=> Fine(H, A, x, u, a)
    BY <1>1 DEF Fine
  <2>2. \A x, u, a, b : Follows(H, A, x, u, a, b)' <=> Follows(H, A, x, u, a, b)
    BY <1>1 DEF Follows
  <2>3. /\ \A x, u, c : InStep(H, A, x, u, c)' <=> InStep(H, A, x, u, c)
        /\ \A x, u, p, g, q : Linked(H, A, x, u, p, g, q)' <=> Linked(H, A, x, u, p, g, q)
    BY <2>1, <2>2 DEF InStep, Linked
  <2>4. \A n, x, u : Ahead(n, x, u)' = Ahead(n, x, u) /\ Back(n, x, u)' = Back(n, x, u) /\ Goal(n, x)' = Goal(n, x)
    BY <1>1 DEF Ahead, Back, Goal
  <2>5. \A n, x, u : ChainAt(H, A, n, x, u)' <=> ChainAt(H, A, n, x, u)
    BY <1>1, <2>3, <2>4 DEF ChainAt
  <2> QED
    BY <1>1, <1>2, <2>5 DEF Chains
<1>9. Noted' /\ Telling(A)'
  BY <1>1, <1>2 DEF Noted, Telling, Untold, Others
<1>10. Setting(H)' /\ Accepts'
  BY <1>1, <1>2 DEF Setting, Accepts, SetUp, Others
<1> QED
  BY <1>4, <1>5, <1>6, <1>7, <1>8, <1>9, <1>10 DEF LogInv

\* At first there is nothing, in the books neither.
LEMMA InitSafe == Init => LogIndInv
<1> SUFFICES ASSUME Init PROVE \E v \in Ballots : Explained(v) /\ Safe(v)
  BY DEF LogIndInv
<1>1. PICK v \in Ballots : Explained(v)
  BY InitInd DEF IndInv
<1>2. TypeInv /\ \A x \in Nodes, t \in Terms : v[x][t] = None
  <2>1. \A x \in Nodes, t \in Terms : v[x][t] # None => term[x] >= t
    BY <1>1 DEF Explained, Explains
  <2> QED
    BY <1>1, <2>1 DEF Explained, Init, Terms
<1>3. PICK H \in Books, A \in Counts :
        /\ \A t \in Terms : H[t] = <<>>
        /\ \A x \in Nodes, t \in Terms : A[x][t] = 0
  <2>1. [t \in Terms |-> <<>>] \in Books /\ [x \in Nodes |-> [t \in Terms |-> 0]] \in Counts
    BY DEF Books, Counts
  <2> QED
    BY <2>1
<1>4. /\ \A n \in Nodes : /\ role[n] = "Follower" /\ log[n] = <<>> /\ applied[n] = <<>> /\ inbox[n] = <<>>
                          /\ pending_cmds[n] = <<>>
      /\ elected = {}
  BY DEF Init
<1>5. Len(<<>>) = 0 /\ \A i : i \notin 1 .. 0
  OBVIOUS
<1>6. Core(H, A)
  <2>1. Leaders(H, A)
    BY <1>3, <1>4 DEF Leaders
  <2>2. Logs(H, A) /\ Bound(H) /\ Held(H, A)
    BY <1>3, <1>4, <1>5 DEF Logs, Bound, Held
  <2>3. Kept(H, A) /\ Complete(H, A)
    BY <1>3, <1>5 DEF Kept, Complete
  <2> QED
    BY <2>1, <2>2, <2>3 DEF Core
<1>7. Acked(A) /\ Noted /\ Telling(A)
  BY <1>4 DEF Acked, Noted, Telling
<1>8. Files(H, A)
  BY <1>4, <1>5 DEF Files, Covered, Same
<1>9. SelfVoted(v) /\ Backed(v, H, A)
  BY <1>2, <1>4 DEF SelfVoted, Backed
<1>10. Mail(H, A) /\ Accepts
  BY <1>4, <1>5 DEF Mail, Accepts
<1>11. Chains(H, A)
  BY <1>4 DEF Chains
<1>12. Setting(H)
  BY <1>3, <1>4 DEF Setting
<1> QED
  BY <1>1, <1>6, <1>7, <1>8, <1>9, <1>10, <1>11, <1>12 DEF Safe, LogInv

\* Who has strayed has strayed for ever.
LEMMA StrayedStays == strayed /\ [Next]_vars => strayed'
<1> SUFFICES ASSUME strayed, [Next]_vars PROVE strayed'
  OBVIOUS
<1>1. ASSUME NEW n \in Nodes, Handle(n) PROVE strayed'
  <2>1. CASE HandleRequestVote(n)
    BY <2>1 DEF HandleRequestVote
  <2>2. CASE HandleResponse(n)
    BY <2>2 DEF HandleResponse
  <2>3. CASE Accept(n) \/ UnknownCandidate(n) \/ HandleVote(n) \/ BecomeLeader(n)
    <3>1. Accept(n) => UNCHANGED strayed
      BY DEF Accept, electionVars
    <3>2. UnknownCandidate(n) => strayed'
      BY DEF UnknownCandidate
    <3>3. HandleVote(n) => UNCHANGED strayed
      BY DEF HandleVote
    <3>4. BecomeLeader(n) => UNCHANGED strayed
      BY DEF BecomeLeader
    <3> QED
      BY <2>3, <3>1, <3>2, <3>3, <3>4
  <2>4. CASE RejectAppendEntry(n) \/ FollowEntry(n) \/ FollowHeartbeat(n) \/ IgnoreResponse(n)
    <3>1. Follow(n, Head(inbox[n])) => UNCHANGED strayed
      BY DEF Follow
    <3>2. FollowEntry(n) => Follow(n, Head(inbox[n]))
      BY Zenon DEF FollowEntry
    <3>3. FollowHeartbeat(n) => Follow(n, Head(inbox[n]))
      BY Zenon DEF FollowHeartbeat
    <3>4. RejectAppendEntry(n) \/ IgnoreResponse(n) => UNCHANGED strayed
      BY DEF RejectAppendEntry, IgnoreResponse, electionVars
    <3> QED
      BY <2>4, <3>1, <3>2, <3>3, <3>4
  <2>5. CASE Panic(n) \/ LeaderCommand(n) \/ ForwardCommand(n)
    BY <2>5 DEF Panic, LeaderCommand, ForwardCommand, electionVars
  <2> QED
    BY <1>1, <2>1, <2>2, <2>3, <2>4, <2>5 DEF Handle
<1>2. ASSUME NEW n \in Nodes, Heartbeat(n) \/ Election(n) \/ Disrupt(n) \/ Restore(n) PROVE strayed'
  BY <1>2 DEF Heartbeat, Election, Disrupt, Restore, electionVars
<1>3. ASSUME NEW n \in Nodes, NEW c \in Commands, Client(n, c) \/ ClientFails(n) PROVE strayed'
  BY <1>3 DEF Client, ClientFails, electionVars
<1>4. ASSUME NEW n \in Nodes, ClientFails(n) PROVE strayed'
  BY <1>4 DEF ClientFails
<1>5. ASSUME NEW n \in Nodes, NEW m \in Nodes, Tell(n, m) \/ TellFails(n, m) PROVE strayed'
  BY <1>5 DEF Tell, TellFails, electionVars
<1>6. CASE UNCHANGED vars
  BY <1>6 DEF vars, electionVars
<1> QED
  BY <1>1, <1>2, <1>3, <1>4, <1>5, <1>6 DEF Next

\* Any message a node handles without straying.
LEMMA HandleSafe ==
  ASSUME MajoritiesMeet, NEW v \in Ballots, Explained(v), NEW H \in Books, NEW A \in Counts, LogInv(v, H, A),
         NEW n \in Nodes, Handle(n), ~strayed'
  PROVE  \E w \in Ballots : Explained(w)' /\ \E H2 \in Books, A2 \in Counts : LogInv(w, H2, A2)'
<1>1. CASE HandleRequestVote(n)
  BY <1>1, HandleRequestVoteLog
<1>2. CASE Accept(n) \/ HandleVote(n) \/ RejectAppendEntry(n) \/ IgnoreResponse(n) \/ ForwardCommand(n)
  <2>1. Explained(v)' /\ LogInv(v, H, A)'
    BY <1>2, AcceptLog, HandleVoteLog, RejectLog, ForwardCommandLog
  <2> QED
    BY <2>1
<1>3. CASE BecomeLeader(n)
  BY <1>3, BecomeLeaderLog
<1>4. CASE LeaderCommand(n)
  BY <1>4, LeaderCommandLog
<1>5. CASE FollowEntry(n)
  BY <1>5, FollowEntryLog
<1>6. CASE FollowHeartbeat(n)
  <2>1. Explained(v)' /\ LogInv(v, H, A)'
    BY <1>6, FollowHeartbeatLog
  <2> QED
    BY <2>1
<1>7. CASE HandleResponse(n)
  <2>1. Explained(v)' /\ LogInv(v, H, A)'
    BY <1>7, HandleResponseLog
  <2> QED
    BY <2>1
<1>8. CASE Panic(n)
  BY <1>8, NoPanic
<1>9. CASE UnknownCandidate(n)
  BY <1>9 DEF UnknownCandidate
<1> QED
  BY <1>1, <1>2, <1>3, <1>4, <1>5, <1>6, <1>7, <1>8, <1>9 DEF Handle

\* Any step.
LEMMA StepSafe ==
  ASSUME MajoritiesMeet
  PROVE  LogIndInv /\ [Next]_vars => LogIndInv'
<1> SUFFICES ASSUME NEW v \in Ballots, Explained(v), strayed \/ Safe(v), [Next]_vars
             PROVE  \E w \in Ballots : Explained(w)' /\ (strayed' \/ Safe(w)')
  BY DEF LogIndInv, Ballots
<1>1. CASE strayed'
  <2>1. \E w \in Ballots : Explained(w)'
    BY StepInd DEF IndInv
  <2> QED
    BY <1>1, <2>1
<1>2. CASE ~strayed'
  <2>1. ~strayed
    BY <1>2, StrayedStays
  <2>2. PICK H \in Books, A \in Counts : LogInv(v, H, A)
    BY <2>1 DEF Safe
  <2>3. SUFFICES \E w \in Ballots : Explained(w)' /\ \E H2 \in Books, A2 \in Counts : LogInv(w, H2, A2)'
    BY DEF Safe
  <2>4. CASE UNCHANGED vars
    <3>1. LogInv(v, H, A)'
      BY <2>2, <2>4, LogsUnchanged
    <3>2. Explained(v)'
      <4>1. UNCHANGED <<nodes, told, inbox, part, disruptions, role, leader, term, votes, elected, log, acks,
                        pending_cmds, applied, pending>>
        BY <2>4 DEF vars, setupVars, netVars, electionVars, logVars
      <4>2. TypeInv'
        BY <4>1 DEF Explained, TypeInv, SetupType, NetType, ElectionType, LogType
      <4>3. Explains(v)'
        BY <4>1 DEF Explained, Explains, SetUp, Others, Arriving
      <4> QED
        BY <4>2, <4>3 DEF Explained
    <3> QED
      BY <3>1, <3>2
  <2>5. ASSUME NEW n \in Nodes, Handle(n)
        PROVE  \E w \in Ballots : Explained(w)' /\ \E H2 \in Books, A2 \in Counts : LogInv(w, H2, A2)'
    BY <1>2, <2>2, <2>5, HandleSafe
  <2>6. ASSUME NEW n \in Nodes, Election(n)
        PROVE  \E w \in Ballots : Explained(w)' /\ \E H2 \in Books, A2 \in Counts : LogInv(w, H2, A2)'
    BY <2>2, <2>6, ElectionLog
  <2>7. ASSUME NEW n \in Nodes, Heartbeat(n) \/ Disrupt(n) \/ Restore(n)
        PROVE  Explained(v)' /\ LogInv(v, H, A)'
    BY <2>2, <2>7, HeartbeatLog, DaemonLog
  <2>8. ASSUME NEW n \in Nodes, NEW c \in Commands, Client(n, c)
        PROVE  Explained(v)' /\ LogInv(v, H, A)'
    BY <2>2, <2>8, ClientLog
  <2>9. ASSUME NEW n \in Nodes, NEW m \in Nodes, Tell(n, m)
        PROVE  Explained(v)' /\ LogInv(v, H, A)'
    BY <2>2, <2>9, TellLog
  <2>10. ASSUME NEW n \in Nodes PROVE ~ClientFails(n) /\ \A m \in Nodes : ~TellFails(n, m)
    BY <2>2, NoPanic
  <2> QED
    BY <2>4, <2>5, <2>6, <2>7, <2>8, <2>9, <2>10 DEF Next
<1> QED
  BY <1>1, <1>2

\* There are always a ballot, books and counts that explain the logs, the messages on their way
\* and what the leaders have noted, until a node strays.
THEOREM LogInvariance ==
  ASSUME MajoritiesMeet
  PROVE  Spec => []LogIndInv
BY InitSafe, StepSafe, PTL DEF Spec

\* The same as all of a sequence is to begin with it.
LEMMA PrefixOf ==
  ASSUME NEW V, NEW s \in Seq(V), NEW r \in Seq(V), Same(s, r, Len(s))
  PROVE  IsPrefixOf(s, r)
<1>1. Len(s) <= Len(r) /\ \A i \in 1 .. Len(s) : s[i] = r[i]
  BY DEF Same
<1>2. /\ SubSeq(r, 1, Len(s)) \in Seq(V) /\ Len(SubSeq(r, 1, Len(s))) = Len(s)
      /\ \A i \in 1 .. Len(s) : SubSeq(r, 1, Len(s))[i] = r[i]
  BY <1>1
<1>3. s = SubSeq(r, 1, Len(s))
  BY <1>1, <1>2, SameSequence
<1> QED
  BY <1>1, <1>3 DEF IsPrefixOf

\* Of two chosen entries the book of the later term has both.
LEMMA ChosenAgree ==
  ASSUME TypeInv, NEW H \in Books, NEW A \in Counts, Core(H, A),
         NEW t \in Terms, NEW k \in Nat, Chosen(H, A, t, k),
         NEW u \in Terms, NEW l \in Nat, Chosen(H, A, u, l), t <= u
  PROVE  Same(H[u], H[t], k)
<1>1. /\ k \in 1 .. Len(H[t]) /\ H[t][k].term = t /\ l \in 1 .. Len(H[u])
      /\ Len(H[t]) \in Nat /\ Len(H[u]) \in Nat /\ t \in Nat /\ u \in Nat
  BY BookAtHand, AtHand DEF Chosen
<1>2. CASE t = u
  BY <1>1, <1>2, SameSelf
<1>3. CASE t < u
  <2>1. H[u] # <<>>
    BY <1>1
  <2>2. Won(u)
    BY <2>1 DEF Core, Leaders
  <2>3. ~Lost(A, t, k)
    BY ChosenNotLost
  <2> QED
    BY <1>1, <1>3, <2>2, <2>3 DEF Core, Complete
<1> QED
  BY <1>1, <1>2, <1>3

\* Two beginnings of one sequence.
LEMMA BothBegin ==
  ASSUME NEW V, NEW s \in Seq(V), NEW r \in Seq(V), NEW h \in Seq(V), Same(s, h, Len(s)), Same(r, h, Len(r))
  PROVE  IsPrefixOf(s, r) \/ IsPrefixOf(r, s)
<1>1. CASE Len(s) <= Len(r)
  <2>1. Same(s, r, Len(s))
    BY <1>1 DEF Same
  <2> QED
    BY <2>1, PrefixOf
<1>2. CASE Len(r) <= Len(s)
  <2>1. Same(r, s, Len(r))
    BY <1>2 DEF Same
  <2> QED
    BY <2>1, PrefixOf
<1> QED
  BY <1>1, <1>2

\* All begins with nothing.
LEMMA EmptyPrefix ==
  ASSUME NEW V, NEW r \in Seq(V)
  PROVE  IsPrefixOf(<<>>, r)
<1>1. Same(<<>>, r, Len(<<>>)) /\ <<>> \in Seq(V)
  BY DEF Same
<1> QED
  BY <1>1, PrefixOf

\* What n has filed is chosen, and so are the books that begin with it.
LEMMA FiledChosen ==
  ASSUME TypeInv, NEW H \in Books, NEW A \in Counts, Files(H, A), NEW n \in Nodes, applied[n] # <<>>
  PROVE  \E t \in Terms, k \in Nat :
           Chosen(H, A, t, k) /\ Len(applied[n]) <= k /\ Same(applied[n], H[t], Len(applied[n]))
BY DEF Files, Covered

\* Of two files the one chosen in the later term has both beginnings.
LEMMA FilesAgreeInOrder ==
  ASSUME TypeInv, NEW H \in Books, NEW A \in Counts, Core(H, A),
         NEW s \in Seq(Entries), NEW t \in Terms, NEW k \in Nat, Chosen(H, A, t, k), Len(s) <= k, Same(s, H[t], Len(s)),
         NEW r \in Seq(Entries), NEW u \in Terms, NEW l \in Nat, Chosen(H, A, u, l), Len(r) <= l, Same(r, H[u], Len(r)),
         t <= u
  PROVE  IsPrefixOf(s, r) \/ IsPrefixOf(r, s)
<1>1. Same(H[u], H[t], k) /\ Len(H[u]) \in Nat /\ Len(H[t]) \in Nat /\ H[u] \in Seq(Entries) /\ Len(s) \in Nat
  BY ChosenAgree, BookAtHand
<1>2. Same(H[u], H[t], Len(s))
  BY <1>1, SameLess
<1>3. Same(H[t], H[u], Len(s))
  BY <1>2, SameSwapped
<1>4. Same(s, H[u], Len(s))
  BY <1>3, SameTwice
<1> QED
  BY <1>1, <1>4, BothBegin

\* So the log files agree,
LEMMA FilesAgree ==
  ASSUME TypeInv, NEW H \in Books, NEW A \in Counts, Core(H, A), Files(H, A)
  PROVE  LogFilesAgree
<1> SUFFICES ASSUME NEW n \in Nodes, NEW m \in Nodes
             PROVE  IsPrefixOf(applied[n], applied[m]) \/ IsPrefixOf(applied[m], applied[n])
  BY DEF LogFilesAgree
<1>1. applied[n] \in Seq(Entries) /\ applied[m] \in Seq(Entries)
  BY AtHand
<1>2. CASE applied[n] = <<>> \/ applied[m] = <<>>
  BY <1>1, <1>2, EmptyPrefix
<1>3. CASE applied[n] # <<>> /\ applied[m] # <<>>
  <2>1. PICK t \in Terms, k \in Nat :
          Chosen(H, A, t, k) /\ Len(applied[n]) <= k /\ Same(applied[n], H[t], Len(applied[n]))
    BY <1>3, FiledChosen
  <2>2. PICK u \in Terms, l \in Nat :
          Chosen(H, A, u, l) /\ Len(applied[m]) <= l /\ Same(applied[m], H[u], Len(applied[m]))
    BY <1>3, FiledChosen
  <2>3. t <= u \/ u <= t
    BY AtHand
  <2>4. CASE t <= u
    BY <1>1, <2>1, <2>2, <2>4, FilesAgreeInOrder
  <2>5. CASE u <= t
    BY <1>1, <2>1, <2>2, <2>5, FilesAgreeInOrder
  <2> QED
    BY <2>3, <2>4, <2>5
<1> QED
  BY <1>2, <1>3

\* and a majority has what is in one.
LEMMA FiledByMajority ==
  ASSUME TypeInv, NEW H \in Books, NEW A \in Counts, Core(H, A), Files(H, A)
  PROVE  AppliedOnMajority
<1> SUFFICES ASSUME NEW n \in Nodes
             PROVE  2 * Cardinality({m \in Nodes : IsPrefixOf(applied[n], log[m])}) > Cardinality(Nodes)
  BY DEF AppliedOnMajority
<1> DEFINE S == {m \in Nodes : IsPrefixOf(applied[n], log[m])}
<1>1. SUFFICES \E Q \in SUBSET S : Maj(Q)
  <2>1. PICK Q \in SUBSET S : Maj(Q)
    BY <1>1
  <2>2. IsFiniteSet(Nodes) /\ IsFiniteSet(S) /\ IsFiniteSet(Q)
    BY NodesAssumption, FS_Subset
  <2>3. Cardinality(Q) <= Cardinality(S) /\ Cardinality(Q) \in Nat /\ Cardinality(S) \in Nat /\ Cardinality(Nodes) \in Nat
    BY <2>2, FS_Subset, FS_CardinalityType
  <2> QED
    BY <2>1, <2>3 DEF Maj
<1>2. applied[n] \in Seq(Entries) /\ \A m \in Nodes : log[m] \in Seq(Entries)
  BY AtHand
<1>3. CASE applied[n] = <<>>
  <2>1. S = Nodes
    BY <1>2, <1>3, EmptyPrefix
  <2>2. Cardinality(Nodes) \in Nat /\ Cardinality(Nodes) # 0
    BY NodesAssumption, FS_CardinalityType, FS_EmptySet
  <2> QED
    BY <2>1, <2>2 DEF Maj
<1>4. CASE applied[n] # <<>>
  <2>1. PICK t \in Terms, k \in Nat :
          Chosen(H, A, t, k) /\ Len(applied[n]) <= k /\ Same(applied[n], H[t], Len(applied[n]))
    BY <1>4, FiledChosen
  <2>2. PICK Q \in SUBSET Nodes : Maj(Q) /\ \A y \in Q : k <= A[y][t]
    BY <2>1 DEF Chosen
  <2>3. k \in 1 .. Len(H[t]) /\ H[t][k].term = t /\ ~Lost(A, t, k)
    BY <2>1, ChosenNotLost DEF Chosen
  <2>4. ASSUME NEW y \in Q PROVE y \in S
    <3>1. y \in Nodes /\ A[y][t] \in Nat /\ k <= A[y][t] /\ Len(H[t]) \in Nat
      BY <2>2, BookAtHand
    <3>2. k \in 1 .. A[y][t]
      BY <2>3, <3>1
    <3>3. Same(log[y], H[t], k)
      BY <2>3, <3>1, <3>2 DEF Core, Kept
    <3>4. Len(applied[n]) \in Nat /\ Len(log[y]) \in Nat
      BY <1>2, <3>1
    <3>5. Same(log[y], H[t], Len(applied[n]))
      BY <2>1, <3>1, <3>3, <3>4, SameLess
    <3>6. Same(applied[n], log[y], Len(applied[n]))
      BY <2>1, <3>5, SameSwapped, SameTwice
    <3>7. IsPrefixOf(applied[n], log[y])
      BY <1>2, <3>1, <3>6, PrefixOf
    <3> QED
      BY <3>1, <3>7
  <2> QED
    BY <2>2, <2>4
<1> QED
  BY <1>3, <1>4

\* As long as no node breaks one of the three rules, log files agree, a majority has what any of them
\* has, and no handler indexes past the end of a log (protocol.rs, the handlers of AppendEntry and
\* AppendEntryResponse).
THEOREM NothingFiledIsLost ==
  ASSUME MajoritiesMeet
  PROVE  Spec => []SafeUnlessStrayed
<1>1. LogIndInv => SafeUnlessStrayed
  <2> SUFFICES ASSUME NEW v \in Ballots, Explained(v), NEW H \in Books, NEW A \in Counts, LogInv(v, H, A)
               PROVE  /\ LogFilesAgree /\ AppliedOnMajority
                      /\ \A n \in Nodes : role[n] # "Panicked" /\ IsPrefixOf(applied[n], log[n])
    BY DEF LogIndInv, Safe, SafeUnlessStrayed
  <2>1. TypeInv /\ Core(H, A) /\ Files(H, A)
    BY DEF Explained, LogInv
  <2>2. LogFilesAgree /\ AppliedOnMajority
    BY <2>1, FilesAgree, FiledByMajority
  <2>3. ASSUME NEW n \in Nodes PROVE role[n] # "Panicked" /\ IsPrefixOf(applied[n], log[n])
    <3>1. Same(log[n], applied[n], Len(applied[n])) /\ applied[n] \in Seq(Entries) /\ log[n] \in Seq(Entries)
      BY <2>1, AtHand DEF Files
    <3>2. Same(applied[n], log[n], Len(applied[n]))
      BY <3>1, SameSwapped
    <3>3. IsPrefixOf(applied[n], log[n])
      BY <3>1, <3>2, PrefixOf
    <3> QED
      BY <2>1, <3>3 DEF Core, Leaders
  <2> QED
    BY <2>2, <2>3
<1> QED
  BY <1>1, LogInvariance, PTL

\* A leader with nothing noted for an office has told it all, unless it has told nobody yet.
LEMMA ReachedHas ==
  ASSUME TypeInv, NEW H \in Books, NEW A \in Counts, Core(H, A), Chains(H, A), Telling(A),
         NEW n \in Nodes, role[n] = "Leader", ~Untold(A, n), NEW m \in Behind(n), pending[n][m] = None
  PROVE  FALSE
<1>1. m \in Nodes /\ m # n /\ term[m] <= term[n] /\ ~IsPrefixOf(log[n], log[m])
  BY DEF Behind, TypeInv, SetupType, Others
<1>2. PICK u \in Terms : u = term[n]
  BY AtHand
<1>3. A[m][u] = Len(log[n])
  BY <1>1, <1>2, AllReached
<1>4. log[n] \in Seq(Entries) /\ log[m] \in Seq(Entries) /\ Len(log[n]) \in Nat /\ term[m] \in Nat /\ u \in Nat
  BY <1>1, AtHand
<1>5. Len(log[n]) # 0
  <2>1. log[n] = <<>> => IsPrefixOf(log[n], log[m])
    BY <1>4, EmptyPrefix
  <2> QED
    BY <1>1, <1>4, <2>1
<1>6. A[m][u] > 0
  BY <1>3, <1>4, <1>5
<1>7. term[m] = u
  <2>1. u <= term[m]
    BY <1>1, <1>6 DEF Core, Held
  <2> QED
    BY <1>1, <1>2, <1>4, <2>1
<1>8. Same(log[m], H[u], A[m][u]) /\ H[u] = log[n]
  BY <1>1, <1>2, <1>6, <1>7 DEF Core, Held, Leaders
<1>9. Same(log[n], log[m], Len(log[n]))
  BY <1>3, <1>8, SameSwapped
<1> QED
  BY <1>1, <1>4, <1>9, PrefixOf

\* As long as no node breaks one of the three rules, a leader has an entry pending for everyone who
\* is behind it, or is one of the leaders with nothing but commands they had kept (become_leader).
THEOREM NobodyIsForgotten ==
  ASSUME MajoritiesMeet
  PROVE  Spec => []NobodyForgottenUnlessKept
<1>1. LogIndInv => NobodyForgottenUnlessKept
  <2> SUFFICES ASSUME NEW v \in Ballots, Explained(v), NEW H \in Books, NEW A \in Counts, LogInv(v, H, A),
                      NEW n \in Nodes, role[n] = "Leader"
               PROVE  Behind(n) \cap Idle(n) = {} \/ OnlyKept(n)
    BY DEF LogIndInv, Safe, NobodyForgottenUnlessKept
  <2>1. TypeInv /\ Core(H, A) /\ Chains(H, A) /\ Telling(A)
    BY DEF Explained, LogInv
  <2>2. CASE Untold(A, n)
    <3>1. \A x \in nodes[n] : pending[n][x] = None
      BY <2>1, <2>2 DEF Untold, TypeInv, SetupType, Others
    <3>2. Idle(n) = nodes[n]
      BY <3>1 DEF Idle
    <3>3. DOMAIN log[n] = 1 .. Len(log[n])
      BY <2>1, AtHand
    <3> QED
      BY <2>2, <3>2, <3>3 DEF Untold, OnlyKept
  <2>3. CASE ~Untold(A, n)
    BY <2>1, <2>3, ReachedHas DEF Idle
  <2> QED
    BY <2>2, <2>3
<1> QED
  BY <1>1, LogInvariance, PTL
-----------------------------------------------------------------------------
(* The book of balances: apply_log. *)

\* Arithmetic that wraps around stays in range.
LEMMA WrapsInRange ==
  ASSUME NEW n \in Nat
  PROVE  n % Width \in Usize
  BY WidthAssumption DEF Usize

\* Crediting an account of a book, as apply_log does in deposits and transfers, keeps its
\* accounts and the range of its balances.
LEMMA CreditKeepsRange ==
  ASSUME NEW b, b \in [DOMAIN b -> Usize],
         NEW account \in DOMAIN b, NEW amount \in Usize
  PROVE  /\ Credited(b, account, amount) \in [DOMAIN b -> Usize]
         /\ DOMAIN Credited(b, account, amount) = DOMAIN b
<1>1. b[account] + amount \in Nat
  BY WidthAssumption DEF Usize
<1>2. (b[account] + amount) % Width \in Usize
  BY <1>1, WrapsInRange
<1> QED
  BY <1>2 DEF Credited

\* Debiting an account by no more than its balance does, too.
LEMMA DebitKeepsRange ==
  ASSUME NEW b, b \in [DOMAIN b -> Usize],
         NEW account \in DOMAIN b, NEW amount \in Usize, amount <= b[account]
  PROVE  LET d == [b EXCEPT ![account] = @ - amount]
         IN  d \in [DOMAIN b -> Usize] /\ DOMAIN d = DOMAIN b
<1>1. b[account] - amount \in Usize
  BY WidthAssumption DEF Usize
<1> QED
  BY <1>1

\* The type invariant holds at first and after each command.
LEMMA TypeInit == BankInit => BankTypeOK
BY WidthAssumption DEF BankInit, BankTypeOK, Usize

\* A command keeps balances that are usize.
LEMMA TypeStep == BankTypeOK /\ [BankNext]_bankVars => BankTypeOK'
<1> SUFFICES ASSUME BankTypeOK, [BankNext]_bankVars PROVE BankTypeOK'
  OBVIOUS
<1> USE DEF BankTypeOK
<1>1. ASSUME NEW account \in Accounts, Open(account) PROVE BankTypeOK'
  <2>1. 0 \in Usize
    BY WidthAssumption DEF Usize
  <2> QED
    BY <1>1, <2>1 DEF Open, Exists
<1>2. ASSUME NEW account \in Accounts, NEW amount \in Usize, Deposit(account, amount)
      PROVE  BankTypeOK'
  <2>1. net + amount \in Nat
    BY WidthAssumption DEF Usize
  <2>2. net' \in Usize
    BY <1>2, <2>1, WrapsInRange DEF Deposit
  <2>3. book' \in [DOMAIN book -> Usize] /\ DOMAIN book' = DOMAIN book
    BY <1>2, CreditKeepsRange DEF Deposit, Exists
  <2> QED
    BY <1>2, <2>2, <2>3 DEF Deposit
<1>3. ASSUME NEW account \in Accounts, NEW amount \in Usize, Withdraw(account, amount)
      PROVE  BankTypeOK'
  <2>1. net + Width - amount \in Nat
    BY WidthAssumption DEF Usize
  <2>2. net' \in Usize
    BY <1>3, <2>1, WrapsInRange DEF Withdraw
  <2>3. book' \in [DOMAIN book -> Usize] /\ DOMAIN book' = DOMAIN book
    BY <1>3, DebitKeepsRange DEF Withdraw, Exists
  <2> QED
    BY <1>3, <2>2, <2>3 DEF Withdraw
<1>4. ASSUME NEW src \in Accounts, NEW dst \in Accounts, NEW amount \in Usize,
             Transfer(src, dst, amount)
      PROVE  BankTypeOK'
  <2> DEFINE paid == [book EXCEPT ![src] = @ - amount]
  <2>1. paid \in [DOMAIN book -> Usize] /\ DOMAIN paid = DOMAIN book
    BY <1>4, DebitKeepsRange DEF Transfer, Exists
  <2>2. book' = Credited(paid, dst, amount) /\ dst \in DOMAIN paid
    BY <1>4, <2>1 DEF Transfer, Exists
  <2> HIDE DEF paid
  <2>3. book' \in [DOMAIN book -> Usize] /\ DOMAIN book' = DOMAIN book
    BY <2>1, <2>2, CreditKeepsRange
  <2> QED
    BY <1>4, <2>3 DEF Transfer
<1>5. ASSUME NEW account \in Accounts, NEW amount \in Usize, Overflow(account, amount)
      PROVE  BankTypeOK'
  <2>1. CASE UNCHANGED book
    BY <1>5, <2>1 DEF Overflow
  <2>2. CASE \E src \in DOMAIN book \ {account} :
               amount <= book[src] /\ book' = [book EXCEPT ![src] = @ - amount]
    <3>1. book' \in [DOMAIN book -> Usize] /\ DOMAIN book' = DOMAIN book
      BY <2>2, DebitKeepsRange
    <3> QED
      BY <1>5, <3>1 DEF Overflow
  <2> QED
    BY <1>5, <2>1, <2>2 DEF Overflow
<1>6. CASE UNCHANGED bankVars
  BY <1>6 DEF bankVars
<1> QED
  BY <1>1, <1>2, <1>3, <1>4, <1>5, <1>6 DEF BankNext

\* Every balance is a usize and every account one that was opened, for any number of accounts
\* and any width: apply_log checks the cover before each subtraction.
THEOREM BalancesInRange == BankSpec => []BankTypeOK
BY TypeInit, TypeStep, PTL DEF BankSpec
-----------------------------------------------------------------------------
\* A number is its multiples of the width and the usize that is left.
LEMMA Parts ==
  ASSUME NEW a \in Nat
  PROVE  /\ a \div Width \in Nat
         /\ a % Width \in 0 .. Width - 1
         /\ a = Width * (a \div Width) + (a % Width)
<1> DEFINE p == a \div Width
           r == a % Width
<1>1. p \in Nat /\ r \in 0 .. Width - 1 /\ a = Width * p + r
  BY WidthAssumption
<1> QED
  BY <1>1

\* Numbers that differ by a multiple of the width are the same usize.
LEMMA SameUsize ==
  ASSUME NEW a \in Nat, NEW b \in Nat, NEW k \in Int, a = b + Width * k
  PROVE  a % Width = b % Width
<1> DEFINE p == a \div Width
           q == b \div Width
           r == a % Width
           s == b % Width
<1>1. /\ p \in Nat /\ q \in Nat /\ r \in 0 .. Width - 1 /\ s \in 0 .. Width - 1
      /\ a = Width * p + r /\ b = Width * q + s
  BY Parts
<1>2. Width \in Nat \ {0}
  BY WidthAssumption
<1> HIDE DEF p, q, r, s
<1>3. Width * (p - q - k) = s - r
  BY <1>1, <1>2
<1>4. p - q - k = 0
  <2>1. p - q - k \in Int
    BY <1>1
  <2> DEFINE d == p - q - k
  <2> HIDE DEF d
  <2>2. CASE d >= 1
    <3>1. Width * d >= Width
      BY <1>2, <2>1, <2>2 DEF d
    <3> QED
      BY <1>1, <1>2, <1>3, <3>1 DEF d
  <2>3. CASE d <= -1
    <3>1. Width * d <= -Width
      BY <1>2, <2>1, <2>3 DEF d
    <3> QED
      BY <1>1, <1>2, <1>3, <3>1 DEF d
  <2> QED
    BY <2>1, <2>2, <2>3 DEF d
<1>5. s - r = 0
  BY <1>2, <1>3, <1>4
<1>6. r = s
  BY <1>1, <1>5
<1> QED
  BY <1>6 DEF r, s

\* Setting one balance changes the sum by the difference.
LEMMA SumUpdated ==
  ASSUME NEW b, b \in [DOMAIN b -> Usize], IsFiniteSet(DOMAIN b),
         NEW account \in DOMAIN b, NEW v \in Usize
  PROVE  /\ SumFunction(b) \in Nat
         /\ SumFunction([b EXCEPT ![account] = v]) \in Nat
         /\ SumFunction([b EXCEPT ![account] = v]) = SumFunction(b) - b[account] + v
<1> DEFINE c == [b EXCEPT ![account] = v]
           D == DOMAIN b
           rest == SumFunctionOnSet(b, D \ {account})
<1>1. /\ DOMAIN c = D /\ c[account] = v
      /\ \A x \in D : b[x] \in Nat /\ c[x] \in Nat
      /\ \A x \in D \ {account} : b[x] = c[x]
  BY WidthAssumption DEF Usize
<1> HIDE DEF c
<1>2. rest \in Nat /\ SumFunctionOnSet(b, D) = b[account] + rest
  BY <1>1, SumTerm
<1>3. /\ SumFunctionOnSet(c, D \ {account}) \in Nat
      /\ SumFunctionOnSet(c, D) = v + SumFunctionOnSet(c, D \ {account})
  BY <1>1, SumTerm
<1>4. SumFunctionOnSet(c, D \ {account}) = rest
  <2>1. IsFiniteSet(D \ {account})
    BY FS_Subset
  <2> QED
    BY <1>1, <2>1, SumSame
<1>5. SumFunction(b) = b[account] + rest /\ SumFunction(c) = v + rest
  BY <1>1, <1>2, <1>3, <1>4 DEF SumFunction
<1>6. b[account] \in Nat /\ v \in Nat
  BY <1>1
<1> HIDE DEF rest
<1> QED
  BY <1>2, <1>5, <1>6 DEF c

\* A new account has nothing on it.
LEMMA SumOpened ==
  ASSUME NEW b, b \in [DOMAIN b -> Usize], IsFiniteSet(DOMAIN b), NEW account, account \notin DOMAIN b,
         NEW c, DOMAIN c = DOMAIN b \cup {account}, c[account] = 0,
         \A x \in DOMAIN b : c[x] = b[x]
  PROVE  SumFunction(c) = SumFunction(b)
<1> DEFINE D == DOMAIN b
<1>1. IsFiniteSet(D \cup {account}) /\ (D \cup {account}) \ {account} = D
  BY FS_AddElement
<1>2. \A x \in D \cup {account} : c[x] \in Nat
  BY WidthAssumption DEF Usize
<1>3. SumFunctionOnSet(c, D) \in Nat /\ SumFunctionOnSet(c, D \cup {account}) = 0 + SumFunctionOnSet(c, D)
  BY <1>1, <1>2, SumTerm
<1>4. SumFunctionOnSet(c, D) = SumFunctionOnSet(b, D)
  BY <1>2, SumSame
<1> QED
  BY <1>3, <1>4 DEF SumFunction

\* What is deposited and paid out is what the accounts hold: the inductive invariant.
MoneyInv == BankTypeOK /\ IsFiniteSet(DOMAIN book) /\ MoneyIsConserved

\* Adding to a balance adds the amount to the sum, up to a multiple of the width.
LEMMA CreditAdds ==
  ASSUME NEW b, b \in [DOMAIN b -> Usize], IsFiniteSet(DOMAIN b),
         NEW account \in DOMAIN b, NEW amount \in Usize
  PROVE  /\ SumFunction(b) \in Nat /\ SumFunction(Credited(b, account, amount)) \in Nat
         /\ \E k \in Int : SumFunction(Credited(b, account, amount)) =
                             SumFunction(b) + amount + Width * k
<1> DEFINE v == (b[account] + amount) % Width
           j == (b[account] + amount) \div Width
<1>1. b[account] \in Nat /\ amount \in Nat /\ Width \in Nat \ {0}
  BY WidthAssumption DEF Usize
<1>2. v \in Usize /\ j \in Nat /\ b[account] + amount = Width * j + v
  BY <1>1 DEF Usize
<1>3. Credited(b, account, amount) = [b EXCEPT ![account] = v]
  BY DEF Credited
<1> HIDE DEF v, j
<1>4. /\ SumFunction(b) \in Nat
      /\ SumFunction(Credited(b, account, amount)) \in Nat
      /\ SumFunction(Credited(b, account, amount)) = SumFunction(b) - b[account] + v
  <2>1. /\ SumFunction(b) \in Nat
        /\ SumFunction([b EXCEPT ![account] = v]) \in Nat
        /\ SumFunction([b EXCEPT ![account] = v]) = SumFunction(b) - b[account] + v
    BY <1>2, SumUpdated
  <2> QED
    BY <1>3, <2>1
<1>5. v \in Nat /\ v = b[account] + amount - Width * j
  BY <1>1, <1>2 DEF Usize
<1>6. -j \in Int /\ Width * (-j) = -(Width * j)
  BY <1>1, <1>2
<1>7. SumFunction(Credited(b, account, amount)) = SumFunction(b) + amount + Width * (-j)
  BY <1>1, <1>2, <1>4, <1>5, <1>6
<1> QED
  BY <1>4, <1>6, <1>7

\* Taking from a balance takes the amount from the sum.
LEMMA DebitTakes ==
  ASSUME NEW b, b \in [DOMAIN b -> Usize], IsFiniteSet(DOMAIN b),
         NEW account \in DOMAIN b, NEW amount \in Usize, amount <= b[account]
  PROVE  LET d == [b EXCEPT ![account] = @ - amount]
         IN  /\ SumFunction(b) \in Nat /\ SumFunction(d) \in Nat
             /\ SumFunction(d) = SumFunction(b) - amount
<1>1. b[account] \in Nat /\ amount \in Nat /\ b[account] - amount \in Usize
  BY WidthAssumption DEF Usize
<1>2. /\ SumFunction(b) \in Nat
      /\ SumFunction([b EXCEPT ![account] = b[account] - amount]) \in Nat
      /\ SumFunction([b EXCEPT ![account] = b[account] - amount]) =
           SumFunction(b) - b[account] + (b[account] - amount)
  BY <1>1, SumUpdated
<1> QED
  BY <1>1, <1>2

\* One command keeps it.
LEMMA MoneyStep == MoneyInv /\ [BankNext]_bankVars => MoneyInv'
<1> SUFFICES ASSUME MoneyInv, [BankNext]_bankVars PROVE MoneyInv'
  OBVIOUS
<1>1. BankTypeOK'
  BY TypeStep DEF MoneyInv
<1>2. /\ book \in [DOMAIN book -> Usize] /\ IsFiniteSet(DOMAIN book)
      /\ net \in Nat /\ Width \in Nat \ {0}
      /\ running => SumFunction(book) % Width = net
  BY WidthAssumption DEF MoneyInv, BankTypeOK, MoneyIsConserved, Usize
<1>3. ASSUME NEW account \in Accounts, Open(account)
      PROVE  IsFiniteSet(DOMAIN book)' /\ MoneyIsConserved'
  <2>1. DOMAIN book' = DOMAIN book \cup {account} /\ running /\ net' = net
    BY <1>3 DEF Open
  <2>2. \A x \in DOMAIN book' : book'[x] = IF Exists(x) THEN book[x] ELSE 0
    BY <1>3 DEF Open
  <2>3. IsFiniteSet(DOMAIN book')
    BY <1>2, <2>1, FS_AddElement
  <2>4. SumFunction(book') = SumFunction(book)
    <3>1. CASE account \in DOMAIN book
      BY <1>2, <1>3, <3>1, <2>1 DEF Open, Exists
    <3>2. CASE account \notin DOMAIN book
      BY <1>2, <3>2, <2>1, <2>2, SumOpened DEF Exists
    <3> QED
      BY <3>1, <3>2
  <2> QED
    BY <1>2, <2>1, <2>3, <2>4 DEF MoneyIsConserved
<1>4. ASSUME NEW account \in Accounts, NEW amount \in Usize, Deposit(account, amount)
      PROVE  IsFiniteSet(DOMAIN book)' /\ MoneyIsConserved'
  <2>1. /\ account \in DOMAIN book /\ book' = Credited(book, account, amount)
        /\ net' = (net + amount) % Width /\ running
    BY <1>4 DEF Deposit, Exists
  <2>2. DOMAIN book' = DOMAIN book
    BY <1>2, <2>1, CreditKeepsRange
  <2>3. /\ SumFunction(book) \in Nat /\ SumFunction(book') \in Nat
        /\ \E k \in Int : SumFunction(book') = SumFunction(book) + amount + Width * k
    BY <1>2, <2>1, CreditAdds
  <2>4. PICK k \in Int : SumFunction(book') = SumFunction(book) + amount + Width * k
    BY <2>3
  <2>5. /\ SumFunction(book) \div Width \in Int
        /\ SumFunction(book) = Width * (SumFunction(book) \div Width) + net
    BY <1>2, <2>1, <2>3, Parts
  <2> DEFINE q == SumFunction(book) \div Width
  <2> HIDE DEF q
  <2>6. amount \in Nat
    BY <1>2 DEF Usize
  <2>7. SumFunction(book') = (net + amount) + Width * (q + k)
    BY <1>2, <2>3, <2>4, <2>5, <2>6 DEF q
  <2>8. q + k \in Int /\ net + amount \in Nat
    BY <1>2, <2>5, <2>6 DEF q
  <2>9. SumFunction(book') % Width = (net + amount) % Width
    BY <2>3, <2>7, <2>8, SameUsize
  <2> QED
    BY <1>2, <2>1, <2>2, <2>9 DEF MoneyIsConserved
<1>5. ASSUME NEW account \in Accounts, NEW amount \in Usize, Withdraw(account, amount)
      PROVE  IsFiniteSet(DOMAIN book)' /\ MoneyIsConserved'
  <2>1. /\ account \in DOMAIN book /\ amount <= book[account]
        /\ book' = [book EXCEPT ![account] = @ - amount]
        /\ net' = (net + Width - amount) % Width /\ running
    BY <1>5 DEF Withdraw, Exists
  <2>2. DOMAIN book' = DOMAIN book
    BY <2>1
  <2>3. /\ SumFunction(book) \in Nat /\ SumFunction(book') \in Nat
        /\ SumFunction(book') = SumFunction(book) - amount
    BY <1>2, <2>1, DebitTakes
  <2>4. /\ SumFunction(book) \div Width \in Int
        /\ SumFunction(book) = Width * (SumFunction(book) \div Width) + net
    BY <1>2, <2>1, <2>3, Parts
  <2> DEFINE q == SumFunction(book) \div Width
  <2> HIDE DEF q
  <2>5. amount \in Nat /\ net + Width - amount \in Nat
    BY <1>2 DEF Usize
  <2>6. SumFunction(book') = (net + Width - amount) + Width * (q - 1)
    BY <1>2, <2>3, <2>4, <2>5 DEF q
  <2>7. q - 1 \in Int
    BY <2>4 DEF q
  <2>8. SumFunction(book') % Width = (net + Width - amount) % Width
    BY <2>3, <2>5, <2>6, <2>7, SameUsize
  <2> QED
    BY <1>2, <2>1, <2>2, <2>8 DEF MoneyIsConserved
<1>6. ASSUME NEW src \in Accounts, NEW dst \in Accounts, NEW amount \in Usize,
             Transfer(src, dst, amount)
      PROVE  IsFiniteSet(DOMAIN book)' /\ MoneyIsConserved'
  <2> DEFINE paid == [book EXCEPT ![src] = @ - amount]
  <2>1. /\ src \in DOMAIN book /\ dst \in DOMAIN book /\ amount <= book[src]
        /\ book' = Credited(paid, dst, amount)
        /\ net' = net /\ running
    BY <1>6 DEF Transfer, Exists
  <2>2. paid \in [DOMAIN book -> Usize] /\ DOMAIN paid = DOMAIN book
    BY <1>2, <2>1, DebitKeepsRange
  <2>3. /\ SumFunction(book) \in Nat /\ SumFunction(paid) \in Nat
        /\ SumFunction(paid) = SumFunction(book) - amount
    BY <1>2, <2>1, DebitTakes
  <2> HIDE DEF paid
  <2>4. DOMAIN book' = DOMAIN book
    BY <2>1, <2>2, CreditKeepsRange
  <2>5. /\ SumFunction(book') \in Nat
        /\ \E k \in Int : SumFunction(book') = SumFunction(paid) + amount + Width * k
    BY <1>2, <2>1, <2>2, CreditAdds
  <2>6. PICK k \in Int : SumFunction(book') = SumFunction(paid) + amount + Width * k
    BY <2>5
  <2>7. amount \in Nat
    BY <1>2 DEF Usize
  <2>8. SumFunction(book') = SumFunction(book) + Width * k
    BY <1>2, <2>3, <2>5, <2>6, <2>7
  <2>9. SumFunction(book') % Width = SumFunction(book) % Width
    BY <2>3, <2>5, <2>8, SameUsize
  <2> QED
    BY <1>2, <2>1, <2>4, <2>9 DEF MoneyIsConserved
<1>7. ASSUME NEW account \in Accounts, NEW amount \in Usize, Overflow(account, amount)
      PROVE  IsFiniteSet(DOMAIN book)' /\ MoneyIsConserved'
  <2>1. ~running' /\ DOMAIN book' = DOMAIN book
    BY <1>7 DEF Overflow
  <2> QED
    BY <1>2, <2>1 DEF MoneyIsConserved
<1>8. ASSUME UNCHANGED bankVars
      PROVE  IsFiniteSet(DOMAIN book)' /\ MoneyIsConserved'
  <2>1. book' = book /\ net' = net /\ running' = running
    BY <1>8 DEF bankVars
  <2> QED
    BY <1>2, <2>1 DEF MoneyIsConserved
<1> QED
  BY <1>1, <1>3, <1>4, <1>5, <1>6, <1>7, <1>8 DEF BankNext, MoneyInv

\* Deposits, withdrawals and transfers that apply_log carries out, refuses or wraps around leave
\* the accounts together with exactly what was paid in and not taken out, in whatever order the
\* offices agreed on them, and for transfers from an account to itself.
THEOREM MoneyConserved == BankSpec => []MoneyIsConserved
<1>1. BankInit => MoneyInv
  <2> SUFFICES ASSUME BankInit PROVE MoneyInv
    OBVIOUS
  <2>1. DOMAIN book = {} /\ net = 0
    BY DEF BankInit
  <2>2. SumFunction(book) = 0
    BY <2>1, SumEmpty DEF SumFunction
  <2>3. 0 % Width = 0
    BY WidthAssumption
  <2> QED
    BY <2>1, <2>2, <2>3, TypeInit, FS_EmptySet DEF MoneyInv, MoneyIsConserved
<1>2. MoneyInv /\ [BankNext]_bankVars => MoneyInv'
  BY MoneyStep
<1>3. MoneyInv => MoneyIsConserved
  BY DEF MoneyInv
<1> QED
  BY <1>1, <1>2, <1>3, PTL DEF BankSpec
=============================================================================
