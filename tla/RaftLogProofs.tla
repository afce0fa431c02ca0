--------------------------- MODULE RaftLogProofs ---------------------------
(***************************************************************************)
(* Lemmas about the logs of Raft: what the steps of a node that follows,   *)
(* votes or stands for election do to the invariant LogInv of RaftProofs.  *)
(* What leaders do, and the theorems, are in ConsensusProofs.              *)
(*                                                                         *)
(* A request overwrites the log from its index on, whatever is there, so   *)
(* its safety rests on order.  The indices a leader sends to an office,    *)
(* the one it has noted for it and those the answers will make it send     *)
(* form a chain.  Until the first entry fits they go down, one at a time,  *)
(* and none below the first that fits; from then on they go up.            *)
(***************************************************************************)
EXTENDS RaftProofs
-----------------------------------------------------------------------------
(* Steps that take over nothing and make no leader. *)

Calm(a, took, o) ==
  /\ Moved
  /\ UNCHANGED <<nodes, acks, pending>>
  /\ \A y \in Nodes : SetUp \/ pending_cmds'[y] = pending_cmds[y] \/ pending_cmds'[y] = <<>>
  /\ \A y \in Nodes : role'[y] = "Leader" => applied'[y] = applied[y]
  /\ Mailed(a, took, o) /\ (took => inbox[a] # <<>>)
  /\ \A n, x \in Nodes, u \in Terms :
       /\ Only(o[n], Answers(x, u)) = <<>>
       /\ <<n, u>> \in elected /\ term'[n] = u => ~Took(a, took, n, Answers(x, u))
       /\ \/ Only(o[x], Probes(n, u)) = <<>>
          \/ /\ term[n] = u /\ pending[n][x] # None
             /\ \E e \in Probes(n, u) : Only(o[x], Probes(n, u)) = <<e>> /\ e.entry.index = Goal(n, x)

\* A step that changes no log, acks or notes keeps who is counted,
LEMMA CalmAcked ==
  ASSUME TypeInv, TypeInv', NEW A \in Counts, NEW a, NEW took, NEW o, Calm(a, took, o), Acked(A)
  PROVE  Acked(A)'
<1> SUFFICES ASSUME NEW n \in Nodes, role'[n] = "Leader", NEW i \in 1 .. Len(log'[n]),
                    log'[n][i].term = term'[n], NEW y \in acks'[n][i]
             PROVE  i <= A[y][term'[n]]
  BY DEF Acked
<1>1. role[n] = "Leader" /\ term'[n] = term[n] /\ log' = log /\ acks' = acks
  BY DEF Calm, Moved
<1> QED
  BY <1>1 DEF Acked

\* the chains,
LEMMA CalmChains ==
  ASSUME TypeInv, TypeInv', NEW H \in Books, NEW A \in Counts, Core(H, A), Chains(H, A),
         NEW a \in Nodes, NEW took \in BOOLEAN, NEW o \in [Nodes -> Seq(Message)], Calm(a, took, o)
  PROVE  Chains(H, A)'
<1> SUFFICES ASSUME NEW n \in Nodes, NEW x \in Nodes, NEW u \in Terms,
                    <<n, u>> \in elected', x # n, term'[x] <= u
             PROVE  ChainAt(H, A, n, x, u)'
  BY DEF Chains
<1>1. /\ elected' = elected /\ log' = log /\ pending' = pending /\ Mailed(a, took, o)
      /\ took => inbox[a] # <<>>
  BY DEF Calm, Moved
<1>2. Grown(H, A, H, A)
  BY <1>1, NotGrown DEF Calm, Moved
<1>3. term[x] \in Nat /\ term'[x] \in Nat /\ term[x] <= term'[x] /\ u \in Nat
  BY AtHand, AtHandNext DEF Calm, Moved
<1>4. ChainAt(H, A, n, x, u)
  BY <1>1, <1>3 DEF Chains
<1>5. Steady(H, A, H, A, x, u)
  BY <1>1, BookAtHand DEF Steady
<1>6. Goal(n, x)' = Goal(n, x)
  BY <1>1 DEF Goal
<1>7. /\ Only(o[n], Answers(x, u)) = <<>>
      /\ <<n, u>> \in elected /\ term'[n] = u => ~Took(a, took, n, Answers(x, u))
      /\ \/ Only(o[x], Probes(n, u)) = <<>>
         \/ term[n] = u /\ \E e \in Probes(n, u) : Only(o[x], Probes(n, u)) = <<e>> /\ e.entry.index = Goal(n, x)
  BY DEF Calm
<1>8. <<n, u>> \in elected
  BY <1>1
<1>9. term'[n] = u => /\ Only(o[n], Answers(x, u)) = <<>> /\ ~Took(a, took, n, Answers(x, u))
                      /\ Goal(n, x)' = Goal(n, x)
  BY <1>6, <1>7, <1>8
<1> QED
  BY <1>1, <1>2, <1>4, <1>5, <1>7, <1>8, <1>9, ChainQuiet

\* what is noted,
LEMMA CalmNoted ==
  ASSUME TypeInv, NEW a, NEW took, NEW o, Calm(a, took, o), Noted
  PROVE  Noted'
<1> SUFFICES ASSUME NEW n \in Nodes, NEW x \in Nodes, role'[n] = "Leader", pending'[n][x] # None
             PROVE  pending'[n][x].index < Len(log'[n]) /\ pending'[n][x] = EntryData(log'[n], pending'[n][x].index)
  BY DEF Noted
<1>1. role[n] = "Leader" /\ log' = log /\ pending' = pending
  BY DEF Calm, Moved
<1> QED
  BY <1>1 DEF Noted

\* Nothing comes to what is empty from what is.
LEMMA StillNone ==
  ASSUME TypeInv, NEW a \in Nodes, NEW took \in BOOLEAN, took => inbox[a] # <<>>,
         NEW o \in [Nodes -> Seq(Message)], Mailed(a, took, o), NEW x \in Nodes, NEW S,
         Only(inbox[x], S) = <<>>, Only(o[x], S) = <<>>
  PROVE  Only(inbox'[x], S) = <<>>
<1>1. MailedOnly(a, took, o, x, S)
  BY MailOnly
<1>2. <<>> \o <<>> = <<>>
  OBVIOUS
<1> QED
  BY <1>1, <1>2 DEF MailedOnly

\* whom leaders have told,
LEMMA CalmTelling ==
  ASSUME TypeInv, TypeInv', NEW A \in Counts, NEW a \in Nodes, NEW took \in BOOLEAN,
         NEW o \in [Nodes -> Seq(Message)], Calm(a, took, o), Telling(A)
  PROVE  Telling(A)'
<1> SUFFICES ASSUME NEW n \in Nodes, role'[n] = "Leader"
             PROVE  Untold(A, n)' \/ \A x \in Others(n) : A[x][term'[n]] = 0 => pending'[n][x] # None
  BY DEF Telling, Others
<1>1. /\ role[n] = "Leader" /\ log' = log /\ acks' = acks /\ pending' = pending
      /\ applied'[n] = applied[n] /\ term'[n] = term[n]
      /\ Mailed(a, took, o) /\ (took => inbox[a] # <<>>)
  BY DEF Calm, Moved
<1>2. PICK u \in Terms : u = term[n]
  BY <1>1, AtHand
<1>3. CASE Untold(A, n)
  <2>1. ASSUME NEW x \in Others(n)
        PROVE  /\ Only(inbox'[x], Probes(n, u)) = <<>> /\ Only(inbox'[n], Answers(x, u)) = <<>>
               /\ pending[n][x] = None /\ A[x][u] = 0
    <3>0. x \in Nodes
      BY DEF Others
    <3>1. /\ pending[n][x] = None /\ A[x][u] = 0
          /\ Only(inbox[x], Probes(n, u)) = <<>> /\ Only(inbox[n], Answers(x, u)) = <<>>
      BY <1>2, <1>3 DEF Untold
    <3>2. Only(o[x], Probes(n, u)) = <<>> /\ Only(o[n], Answers(x, u)) = <<>>
      BY <3>0, <3>1 DEF Calm
    <3> QED
      BY <1>1, <3>0, <3>1, <3>2, StillNone
  <2>2. /\ applied'[n] = <<>>
        /\ \A i \in 1 .. Len(log'[n]) : log'[n][i].term = term'[n] /\ acks'[n][i] = {n}
    BY <1>1, <1>3 DEF Untold
  <2>3. \A x \in Others(n)' : /\ pending'[n][x] = None /\ A[x][term'[n]] = 0
                              /\ Only(inbox'[x], Probes(n, term'[n])) = <<>>
                              /\ Only(inbox'[n], Answers(x, term'[n])) = <<>>
    BY <1>1, <1>2, <2>1 DEF Others
  <2>4. Untold(A, n)'
    BY <2>2, <2>3 DEF Untold
  <2> QED
    BY <2>4
<1>4. CASE \A x \in Others(n) : A[x][term[n]] = 0 => pending[n][x] # None
  BY <1>1, <1>4
<1> QED
  BY <1>1, <1>3, <1>4 DEF Telling

\* and that there is nothing before all are connected.
LEMMA CalmSetting ==
  ASSUME TypeInv, NEW H \in Books, NEW a, NEW took, NEW o, Calm(a, took, o), Setting(H)
  PROVE  Setting(H)'
<1>1. (SetUp' <=> SetUp) /\ log' = log
  BY DEF Calm, SetUp, Moved, Others
<1>2. ~SetUp => \A y \in Nodes : pending_cmds'[y] = pending_cmds[y] \/ pending_cmds'[y] = <<>>
  BY DEF Calm
<1> QED
  BY <1>1, <1>2 DEF Setting

\* What of the invariant is left by such a step is about votes and files.
LEMMA CalmLog ==
  ASSUME NEW v \in Ballots, Explained(v), TypeInv', NEW H \in Books, NEW A \in Counts, LogInv(v, H, A),
         NEW a \in Nodes, NEW took \in BOOLEAN, NEW o \in [Nodes -> Seq(Message)], Calm(a, took, o),
         \A x \in Nodes : \A i \in 1 .. Len(o[x]) : MailOk(H, A, x, o[x][i])'
  PROVE  /\ Core(H, A)' /\ Acked(A)' /\ Mail(H, A)' /\ Chains(H, A)' /\ Noted' /\ Telling(A)' /\ Setting(H)'
         /\ Grown(H, A, H, A)
<1>0. TypeInv /\ Core(H, A) /\ Acked(A) /\ Mail(H, A) /\ Chains(H, A) /\ Noted /\ Telling(A) /\ Setting(H)
  BY DEF Explained, LogInv
<1>1. Core(H, A)'
  BY <1>0, CoreMoved DEF Calm
<1>2. Acked(A)'
  BY <1>0, CalmAcked
<1>3. Chains(H, A)'
  BY <1>0, CalmChains
<1>4. Noted'
  BY <1>0, CalmNoted
<1>5. Telling(A)'
  BY <1>0, CalmTelling
<1>6. Setting(H)'
  BY <1>0, CalmSetting
<1>7. Grown(H, A, H, A)
  BY <1>0, NotGrown DEF Calm, Moved
<1>8. Mailed(a, took, o) /\ (took => inbox[a] # <<>>) /\ (SetUp => SetUp')
  BY DEF Calm, SetUp, Others
<1>9. \A y \in Nodes : role'[y] = "Candidate" =>
        \/ role[y] = "Candidate" /\ term'[y] = term[y] /\ log'[y] = log[y]
        \/ term'[y] # term[y]
  BY DEF Calm, Moved
<1>10. Mail(H, A)'
  BY <1>0, <1>7, <1>8, <1>9, MailStep
<1> QED
  BY <1>1, <1>2, <1>3, <1>4, <1>5, <1>6, <1>7, <1>10
-----------------------------------------------------------------------------
(* Files, votes and the offices' first messages. *)

\* A log file that is left alone is still chosen, and the log still says the same as far as the
\* file goes.
LEMMA FilesStay ==
  ASSUME TypeInv, TypeInv', NEW H \in Books, NEW A \in Counts, NEW H2 \in Books, NEW A2 \in Counts,
         Grown(H, A, H2, A2), Files(H, A), NEW m \in Nodes, applied'[m] = applied[m],
         Same(log'[m], log[m], Len(applied[m]))
  PROVE  Covered(H2, A2, applied[m], term[m])' /\ Same(log'[m], applied'[m], Len(applied'[m]))
<1>1. /\ applied[m] \in Seq(Entries) /\ term[m] \in Nat /\ term'[m] \in Nat /\ term[m] <= term'[m]
      /\ Len(applied[m]) \in Nat
  BY AtHand, AtHandNext DEF Grown
<1>2. Covered(H, A, applied[m], term[m]) /\ Same(log[m], applied[m], Len(applied[m]))
  BY DEF Files
<1>3. PICK s, w : s = applied[m] /\ w = term'[m]
  OBVIOUS
<1>4. Covered(H2, A2, s, w)
  BY <1>1, <1>2, <1>3, CoveredStays
<1>5. Covered(H2, A2, applied[m], term[m])'
  BY <1>3, <1>4 DEF Covered, Chosen
<1>6. Same(log'[m], applied[m], Len(applied[m]))
  BY <1>2, SameTwice
<1> QED
  BY <1>5, <1>6

\* So are all of them if none is written.
LEMMA FilesUnchanged ==
  ASSUME TypeInv, TypeInv', NEW H \in Books, NEW A \in Counts, NEW H2 \in Books, NEW A2 \in Counts,
         Grown(H, A, H2, A2), Files(H, A), applied' = applied, log' = log
  PROVE  Files(H2, A2)'
<1> SUFFICES ASSUME NEW m \in Nodes
             PROVE  Covered(H2, A2, applied[m], term[m])' /\ Same(log'[m], applied'[m], Len(applied'[m]))
  BY DEF Files
<1>1. Same(log'[m], log[m], Len(applied[m]))
  BY AtHand, SameSelf DEF Files, Same
<1> QED
  BY <1>1, FilesStay

\* A voter is past the terms its candidate must make up for.
LEMMA BackedStays ==
  ASSUME NEW v \in Ballots, Explained(v), TypeInv',
         NEW H \in Books, NEW A \in Counts, NEW H2 \in Books, NEW A2 \in Counts,
         Core(H, A), Grown(H, A, H2, A2), Backed(v, H, A),
         \A c \in Nodes : role'[c] = "Candidate" =>
           \/ role[c] = "Candidate" /\ term'[c] = term[c] /\ log'[c] = log[c]
           \/ \A u \in Terms : term'[c] = u => v[c][u] # c
  PROVE  Backed(v, H2, A2)'
<1> SUFFICES ASSUME NEW c \in Nodes, NEW x \in Nodes, NEW u \in Terms,
                    role'[c] = "Candidate", term'[c] = u, v[c][u] = c, v[x][u] = c,
                    NEW t \in Terms, t < u, NEW k \in 1 .. A2[x][t], H2[t][k].term = t
             PROVE  Lost(A2, t, k)' \/ Same(log'[c], H2[t], k)
  BY DEF Backed
<1>0. TypeInv
  BY DEF Explained
<1>1. role[c] = "Candidate" /\ term'[c] = term[c] /\ log'[c] = log[c]
  OBVIOUS
<1>2. term[x] >= u
  BY NodesAssumption DEF Explained, Explains
<1>3. A2[x][t] = A[x][t]
  <2>1. term[x] \in Nat /\ t \in Nat /\ u \in Nat
    BY <1>0, AtHand
  <2>2. ~(term[x] <= t)
    BY <1>2, <2>1
  <2> QED
    BY <2>2 DEF Grown
<1>4. k \in 1 .. A[x][t] /\ k \in Nat /\ k \in 1 .. Len(H[t])
  <2>1. A[x][t] <= Len(H[t]) /\ A[x][t] \in Nat /\ Len(H[t]) \in Nat
    BY BookAtHand DEF Core, Held
  <2> QED
    BY <1>3, <2>1
<1>5. H[t][k].term = t
  BY <1>4, BookStays
<1>6. Lost(A, t, k) \/ Same(log[c], H[t], k)
  BY <1>1, <1>4, <1>5 DEF Backed
<1>7. CASE Lost(A, t, k)
  BY <1>0, <1>4, <1>7, LostStays
<1>8. CASE Same(log[c], H[t], k)
  <2>1. Len(H[t]) \in Nat /\ Len(H2[t]) \in Nat /\ Len(H[t]) <= Len(H2[t])
        /\ \A i \in 1 .. Len(H[t]) : H2[t][i] = H[t][i]
    BY BookAtHand, BookStays
  <2> QED
    BY <1>1, <1>4, <1>8, <2>1 DEF Same
<1> QED
  BY <1>6, <1>7, <1>8

\* What is behind the end of the first of two sequences is in the second.
LEMMA JoinedLater ==
  ASSUME NEW V, NEW s \in Seq(V), NEW r \in Seq(V), NEW i \in 1 .. Len(s \o r), i > Len(s)
  PROVE  \E k \in 1 .. Len(r) : (s \o r)[i] = r[k]
<1>1. i - Len(s) \in 1 .. Len(r) /\ (s \o r)[i] = r[i - Len(s)]
  OBVIOUS
<1> QED
  BY <1>1

\* Nobody is told of a node again, if no Accept is sent.
LEMMA AcceptsStay ==
  ASSUME TypeInv, NEW a \in Nodes, NEW took \in BOOLEAN, took => inbox[a] # <<>>,
         NEW o \in [Nodes -> Seq(Message)], Mailed(a, took, o), Accepts, nodes' = nodes,
         \A x \in Nodes : \A i \in 1 .. Len(o[x]) : o[x][i].type # "Accept"
  PROVE  Accepts'
<1> SUFFICES ASSUME NEW n \in Nodes, NEW i \in 1 .. Len(inbox'[n]), inbox'[n][i].type = "Accept"
             PROVE  /\ inbox'[n][i].src \notin nodes[n]
                    /\ \A j \in 1 .. Len(inbox'[n]) :
                         inbox'[n][j].type = "Accept" /\ inbox'[n][j].src = inbox'[n][i].src => i = j
  BY DEF Accepts
<1>1. PICK d \in {0, 1} : d = IF took /\ n = a THEN 1 ELSE 0
  OBVIOUS
<1>2. ASSUME NEW j \in 1 .. Len(inbox'[n])
      PROVE  \/ j + d \in 1 .. Len(inbox[n]) /\ inbox'[n][j] = inbox[n][j + d]
             \/ inbox'[n][j].type # "Accept"
  <2>1. inbox[n] \in Seq(Message) /\ o[n] \in Seq(Message)
    BY DEF TypeInv, NetType
  <2>2. PICK s : s = IF took /\ n = a THEN Tail(inbox[n]) ELSE inbox[n]
    OBVIOUS
  <2>3. s \in Seq(Message) /\ Len(s) = Len(inbox[n]) - d /\ \A k \in 1 .. Len(s) : s[k] = inbox[n][k + d]
    <3>1. CASE took /\ n = a
      <4>1. s = Tail(inbox[n]) /\ inbox[n] # <<>> /\ d = 1
        BY <1>1, <2>2, <3>1
      <4> QED
        BY <2>1, <4>1
    <3>2. CASE ~(took /\ n = a)
      <4>1. s = inbox[n] /\ d = 0
        BY <1>1, <2>2, <3>2
      <4> QED
        BY <2>1, <4>1
    <3> QED
      BY <3>1, <3>2
  <2>4. inbox'[n] = s \o o[n]
    BY <2>2 DEF Mailed
  <2>5. CASE j <= Len(s)
    BY <2>1, <2>3, <2>4, <2>5
  <2>6. CASE j > Len(s)
    <3>1. \E k \in 1 .. Len(o[n]) : inbox'[n][j] = o[n][k]
      <4>1. s \in Seq(Message) /\ o[n] \in Seq(Message)
        BY <2>1, <2>3
      <4>2. j \in 1 .. Len(s \o o[n])
        BY <2>4
      <4>3. \E k \in 1 .. Len(o[n]) : (s \o o[n])[j] = o[n][k]
        BY <2>6, <4>1, <4>2, JoinedLater
      <4> QED
        BY <2>4, <4>3
    <3> QED
      BY <3>1
  <2> QED
    BY <2>1, <2>3, <2>5, <2>6
<1>3. PICK k : k = i + d
  OBVIOUS
<1>4. k \in 1 .. Len(inbox[n]) /\ inbox'[n][i] = inbox[n][k]
  BY <1>2, <1>3
<1>5. inbox'[n][i].src \notin nodes[n]
  BY <1>4 DEF Accepts
<1>6. ASSUME NEW j \in 1 .. Len(inbox'[n]), inbox'[n][j].type = "Accept", inbox'[n][j].src = inbox'[n][i].src
      PROVE  i = j
  <2>1. j + d \in 1 .. Len(inbox[n]) /\ inbox'[n][j] = inbox[n][j + d]
    BY <1>2, <1>6
  <2>2. k = j + d
    BY <1>4, <1>6, <2>1 DEF Accepts
  <2>3. Len(inbox'[n]) \in Nat \/ TRUE
    OBVIOUS
  <2> QED
    BY <1>3, <2>2
<1> QED
  BY <1>5, <1>6
-----------------------------------------------------------------------------
(* Handlers and the driver, where no entry is taken over and nobody is elected. *)

\* Such a step keeps the invariant, if it keeps the files, and nobody stands but whom no vote
\* is for.
LEMMA CalmDone ==
  ASSUME NEW v \in Ballots, Explained(v), TypeInv', NEW H \in Books, NEW A \in Counts, LogInv(v, H, A),
         NEW a \in Nodes, NEW took \in BOOLEAN, NEW o \in [Nodes -> Seq(Message)], Calm(a, took, o),
         \A x \in Nodes : \A i \in 1 .. Len(o[x]) : MailOk(H, A, x, o[x][i])',
         Files(H, A)', Accepts',
         \A c \in Nodes : role'[c] = "Candidate" =>
           \/ role[c] = "Candidate" /\ term'[c] = term[c] /\ log'[c] = log[c]
           \/ \A u \in Terms : term'[c] = u => v[c][u] # c
  PROVE  LogInv(v, H, A)'
<1>1. /\ Core(H, A)' /\ Acked(A)' /\ Mail(H, A)' /\ Chains(H, A)' /\ Noted' /\ Telling(A)' /\ Setting(H)'
      /\ Grown(H, A, H, A)
  BY CalmLog
<1>2. Backed(v, H, A)'
  BY <1>1, BackedStays DEF LogInv
<1>3. SelfVoted(v)'
  BY DEF LogInv, SelfVoted
<1> QED
  BY <1>1, <1>2, <1>3 DEF LogInv

\* In particular a step that writes no file.
LEMMA CalmUnchanged ==
  ASSUME NEW v \in Ballots, Explained(v), TypeInv', NEW H \in Books, NEW A \in Counts, LogInv(v, H, A),
         NEW a \in Nodes, NEW took \in BOOLEAN, NEW o \in [Nodes -> Seq(Message)], Calm(a, took, o),
         \A x \in Nodes : \A i \in 1 .. Len(o[x]) : MailOk(H, A, x, o[x][i])' /\ o[x][i].type # "Accept",
         applied' = applied,
         \A c \in Nodes : role'[c] = "Candidate" =>
           \/ role[c] = "Candidate" /\ term'[c] = term[c]
           \/ \A u \in Terms : term'[c] = u => v[c][u] # c
  PROVE  LogInv(v, H, A)'
<1>0. TypeInv /\ Files(H, A) /\ Accepts
  BY DEF Explained, LogInv
<1>1. Grown(H, A, H, A)
  BY CalmLog
<1>2. log' = log /\ nodes' = nodes /\ Mailed(a, took, o) /\ (took => inbox[a] # <<>>)
  BY DEF Calm, Moved
<1>3. Files(H, A)'
  BY <1>0, <1>1, <1>2, FilesUnchanged
<1>4. Accepts'
  BY <1>0, <1>2, AcceptsStay
<1>5. \A c \in Nodes : role'[c] = "Candidate" =>
           \/ role[c] = "Candidate" /\ term'[c] = term[c] /\ log'[c] = log[c]
           \/ \A u \in Terms : term'[c] = u => v[c][u] # c
  BY <1>2
<1> QED
  BY <1>3, <1>4, <1>5, CalmDone

\* Other messages are no part of a chain.
LEMMA NotInChain ==
  ASSUME NEW s \in Seq(Message),
         \A i \in 1 .. Len(s) : s[i].type \notin {"AppendEntry", "AppendEntryResponse"},
         NEW n, NEW x, NEW u
  PROVE  Only(s, Answers(x, u)) = <<>> /\ Only(s, Probes(n, u)) = <<>>
<1>1. Len(s) \in Nat
  OBVIOUS
<1>2. \A i \in 1 .. Len(s) : s[i] \notin Answers(x, u) /\ s[i] \notin Probes(n, u)
  BY DEF Answers, Probes
<1> QED
  BY <1>1, <1>2, OnlyNone

\* What a handler has to send arrives or does not.
LEMMA DeliverPlain ==
  ASSUME TypeInv, NEW n \in Nodes, inbox[n] # <<>>, NEW out \in [Nodes -> Seq(Message)], Deliver(n, out),
         \A x \in Nodes : \A i \in 1 .. Len(out[x]) :
           out[x][i].type \notin {"AppendEntry", "AppendEntryResponse", "Accept"}
  PROVE  \E o \in [Nodes -> Seq(Message)] :
           /\ Mailed(n, TRUE, o)
           /\ \A x \in Nodes : o[x] = <<>> \/ o[x] = out[x]
           /\ \A x \in Nodes : \A i \in 1 .. Len(o[x]) : o[x][i].type # "Accept"
           /\ \A k, x \in Nodes, u \in Terms :
                Only(o[k], Answers(x, u)) = <<>> /\ Only(o[x], Probes(k, u)) = <<>>
<1>1. PICK o \in [Nodes -> Seq(Message)] :
        /\ Mailed(n, TRUE, o)
        /\ o = [m \in Nodes |-> IF m # n /\ m \in nodes[n] /\ Reaches(n, m) THEN out[m] ELSE <<>>]
  BY DeliverMailed
<1>2. \A x \in Nodes : o[x] = <<>> \/ o[x] = out[x]
  BY <1>1
<1>3. ASSUME NEW x \in Nodes, NEW i \in 1 .. Len(o[x])
      PROVE  o[x][i].type \notin {"AppendEntry", "AppendEntryResponse", "Accept"}
  <2>1. Len(<<>>) = 0
    OBVIOUS
  <2>2. o[x] = out[x]
    BY <1>2, <1>3, <2>1
  <2> QED
    BY <2>2
<1>4. ASSUME NEW k \in Nodes, NEW x \in Nodes, NEW u \in Terms
      PROVE  Only(o[k], Answers(x, u)) = <<>> /\ Only(o[x], Probes(k, u)) = <<>>
  BY <1>3, NotInChain
<1> QED
  BY <1>1, <1>2, <1>3, <1>4

\* What is sent without taking a message out.
Posts(S, out) == inbox' = [m \in Nodes |-> IF m \in S THEN Append(inbox[m], out[m]) ELSE inbox[m]]

\* What a driver or the daemon sends arrives where it is sent.
LEMMA PostedMailed ==
  ASSUME TypeInv, NEW n \in Nodes, NEW S \in SUBSET Nodes, NEW out \in [Nodes -> Message],
         Posts(S, out)
  PROVE  \E o \in [Nodes -> Seq(Message)] :
           Mailed(n, FALSE, o) /\ \A m \in Nodes : (m \in S => o[m] = <<out[m]>>) /\ (m \notin S => o[m] = <<>>)
<1> DEFINE o == [m \in Nodes |-> IF m \in S THEN <<out[m]>> ELSE <<>>]
<1>1. o \in [Nodes -> Seq(Message)]
  OBVIOUS
<1>2. \A m \in Nodes : inbox[m] \in Seq(Message) /\ out[m] \in Message
  BY DEF TypeInv, NetType
<1>3. \A s \in Seq(Message) : s \o <<>> = s /\ \A e \in Message : s \o <<e>> = Append(s, e)
  OBVIOUS
<1>4. Mailed(n, FALSE, o)
  BY <1>2, <1>3 DEF Mailed, Posts
<1> QED
  BY <1>1, <1>4

\* What is to be sent is no part of a chain, and sound.
Light(out, H, A) ==
  \A x \in Nodes : \A i \in 1 .. Len(out[x]) :
    /\ out[x][i].type \notin {"AppendEntry", "AppendEntryResponse", "Accept"}
    /\ MailOk(H, A, x, out[x][i])'
Sound(o, H, A) ==
  \A x \in Nodes : \A i \in 1 .. Len(o[x]) : MailOk(H, A, x, o[x][i])' /\ o[x][i].type # "Accept"
Waiting ==
  /\ \A y \in Nodes : SetUp \/ pending_cmds'[y] = pending_cmds[y] \/ pending_cmds'[y] = <<>>
  /\ \A y \in Nodes : role'[y] = "Leader" => applied'[y] = applied[y]

\* A handler that sends neither requests nor answers nor Accepts is such a step.
LEMMA CalmDelivered ==
  ASSUME TypeInv, NEW H, NEW A, NEW n \in Nodes, inbox[n] # <<>>,
         NEW out \in [Nodes -> Seq(Message)], Deliver(n, out),
         Light(out, H, A), Moved, UNCHANGED <<nodes, acks, pending>>, Waiting,
         Head(inbox[n]).type = "AppendEntryResponse" => Head(inbox[n]).term # term'[n]
  PROVE  \E o \in [Nodes -> Seq(Message)] : Calm(n, TRUE, o) /\ Sound(o, H, A)
<1>1. PICK o \in [Nodes -> Seq(Message)] :
        /\ Mailed(n, TRUE, o)
        /\ \A x \in Nodes : o[x] = <<>> \/ o[x] = out[x]
        /\ \A x \in Nodes : \A i \in 1 .. Len(o[x]) : o[x][i].type # "Accept"
        /\ \A k, x \in Nodes, u \in Terms :
             Only(o[k], Answers(x, u)) = <<>> /\ Only(o[x], Probes(k, u)) = <<>>
  BY DeliverPlain DEF Light
<1>2. ASSUME NEW x \in Nodes, NEW i \in 1 .. Len(o[x]) PROVE MailOk(H, A, x, o[x][i])'
  <2>1. Len(<<>>) = 0
    OBVIOUS
  <2>2. o[x] = out[x]
    BY <1>1, <1>2, <2>1
  <2>3. PICK msg : msg = o[x][i]
    OBVIOUS
  <2>4. MailOk(H, A, x, msg)'
    BY <2>2, <2>3 DEF Light
  <2> QED
    BY <2>3, <2>4
<1>3. ASSUME NEW k \in Nodes, NEW x \in Nodes, NEW u \in Terms, term'[k] = u
      PROVE  ~Took(n, TRUE, k, Answers(x, u))
  BY <1>3 DEF Took, Answers
<1>4. Calm(n, TRUE, o)
  BY <1>1, <1>3 DEF Calm, Waiting
<1> QED
  BY <1>1, <1>2, <1>4 DEF Sound

\* So little is changed if no role, term or log is.
LEMMA StillMoved ==
  ASSUME TypeInv, NEW H, NEW A, Core(H, A), UNCHANGED <<role, term, elected, log>>
  PROVE  Moved
BY AtHand DEF Moved, Core, Leaders

\* Votes and commands on their way say nothing of logs.
LEMMA MailPlain ==
  ASSUME NEW H, NEW A, NEW x, NEW msg,
         msg.type = "Vote" \/ msg.type = "Accept" \/ (msg.type = "Command" /\ SetUp')
  PROVE  MailOk(H, A, x, msg)'
BY DEF MailOk

\* Sending nothing sends nothing.
LEMMA ToNobody == \A d, x \in Nodes : Len(To(d, <<>>)[x]) = 0 /\ To(d, <<>>) \in [Nodes -> Seq(Message)]
BY DEF To

\* What comes too late changes nothing.
LEMMA RejectLog ==
  ASSUME NEW v \in Ballots, Explained(v), NEW H \in Books, NEW A \in Counts, LogInv(v, H, A),
         NEW n \in Nodes, RejectAppendEntry(n) \/ IgnoreResponse(n)
  PROVE  Explained(v)' /\ LogInv(v, H, A)'
<1>1. Explained(v)'
  BY RejectAppendEntryInd
<1>2. TypeInv /\ TypeInv' /\ Core(H, A)
  BY <1>1 DEF Explained, LogInv
<1>3. /\ Deliver(n, To(n, <<>>)) /\ inbox[n] # <<>>
      /\ UNCHANGED <<nodes, electionVars, logVars>>
      /\ Head(inbox[n]).type = "AppendEntryResponse" => Head(inbox[n]).term # term[n]
  BY DEF RejectAppendEntry, IgnoreResponse, Received, setupVars
<1>4. UNCHANGED <<role, term, elected, log, acks, pending_cmds, applied, pending>>
  BY <1>3 DEF electionVars, logVars
<1>5. Moved
  BY <1>2, <1>4, StillMoved
<1>6. PICK out \in [Nodes -> Seq(Message)] : out = To(n, <<>>) /\ \A x \in Nodes : Len(out[x]) = 0
  BY ToNobody
<1>9. Light(out, H, A) /\ Waiting
  BY <1>4, <1>6 DEF Light, Waiting
<1>10. Head(inbox[n]).type = "AppendEntryResponse" => Head(inbox[n]).term # term'[n]
  BY <1>3, <1>4
<1>7. PICK o \in [Nodes -> Seq(Message)] : Calm(n, TRUE, o) /\ Sound(o, H, A)
  BY <1>2, <1>3, <1>4, <1>5, <1>6, <1>9, <1>10, CalmDelivered
<1>8. LogInv(v, H, A)'
  BY <1>2, <1>4, <1>7, CalmUnchanged DEF Sound
<1> QED
  BY <1>1, <1>8

\* A vote that makes no leader.
LEMMA HandleVoteLog ==
  ASSUME NEW v \in Ballots, Explained(v), NEW H \in Books, NEW A \in Counts, LogInv(v, H, A),
         NEW n \in Nodes, HandleVote(n)
  PROVE  Explained(v)' /\ LogInv(v, H, A)'
<1>1. Explained(v)'
  BY HandleVoteInd
<1>2. TypeInv /\ TypeInv' /\ Core(H, A)
  BY <1>1 DEF Explained, LogInv
<1>3. /\ Deliver(n, To(n, <<>>)) /\ inbox[n] # <<>> /\ Head(inbox[n]).type = "Vote"
      /\ UNCHANGED <<nodes, role, term, elected, logVars>>
  BY DEF HandleVote, Received, setupVars
<1>4. UNCHANGED <<role, term, elected, log, acks, pending_cmds, applied, pending>>
  BY <1>3 DEF logVars
<1>5. Moved
  BY <1>2, <1>4, StillMoved
<1>6. PICK out \in [Nodes -> Seq(Message)] : out = To(n, <<>>) /\ \A x \in Nodes : Len(out[x]) = 0
  BY ToNobody
<1>9. Light(out, H, A) /\ Waiting
  BY <1>4, <1>6 DEF Light, Waiting
<1>10. Head(inbox[n]).type = "AppendEntryResponse" => Head(inbox[n]).term # term'[n]
  BY <1>3, <1>4
<1>7. PICK o \in [Nodes -> Seq(Message)] : Calm(n, TRUE, o) /\ Sound(o, H, A)
  BY <1>2, <1>3, <1>4, <1>5, <1>6, <1>9, <1>10, CalmDelivered
<1>8. LogInv(v, H, A)'
  BY <1>2, <1>4, <1>7, CalmUnchanged DEF Sound
<1> QED
  BY <1>1, <1>8

\* Commands are passed on to one office.
LEMMA ForwardedTo ==
  ASSUME NEW n \in Nodes, NEW cmds \in Seq(Commands), NEW l, NEW d
  PROVE  /\ To(d, Forwarded(n, cmds, l)) \in [Nodes -> Seq(Message)]
         /\ \A x \in Nodes : \A i \in 1 .. Len(To(d, Forwarded(n, cmds, l))[x]) :
              To(d, Forwarded(n, cmds, l))[x][i].type = "Command" /\ cmds # <<>>
<1>1. Forwarded(n, cmds, l) \in Seq(Message)
  BY ForwardedType
<1>2. ASSUME NEW i \in 1 .. Len(Forwarded(n, cmds, l)) PROVE Forwarded(n, cmds, l)[i].type = "Command" /\ cmds # <<>>
  <2>1. Len(<<>>) = 0
    OBVIOUS
  <2>2. cmds # <<>> /\ Forwarded(n, cmds, l) = [j \in DOMAIN cmds |-> Command(cmds[j])]
    BY <1>2, <2>1 DEF Forwarded
  <2>3. i \in DOMAIN cmds
    BY <1>1, <1>2, <2>2
  <2> QED
    BY <2>2, <2>3 DEF Command
<1>3. Len(<<>>) = 0 /\ <<>> \in Seq(Message)
  OBVIOUS
<1>4. \A x \in Nodes : To(d, Forwarded(n, cmds, l))[x] = IF x = d THEN Forwarded(n, cmds, l) ELSE <<>>
  BY DEF To
<1>5. To(d, Forwarded(n, cmds, l)) \in [Nodes -> Seq(Message)]
  BY <1>1, <1>3 DEF To
<1> QED
  BY <1>2, <1>3, <1>4, <1>5

\* A command is kept or passed on; where there are commands, all are connected.
LEMMA ForwardCommandLog ==
  ASSUME NEW v \in Ballots, Explained(v), NEW H \in Books, NEW A \in Counts, LogInv(v, H, A),
         NEW n \in Nodes, ForwardCommand(n)
  PROVE  Explained(v)' /\ LogInv(v, H, A)'
<1>1. Explained(v)'
  BY ForwardCommandInd
<1>2. TypeInv /\ TypeInv' /\ Core(H, A) /\ Mail(H, A)
  BY <1>1 DEF Explained, LogInv
<1>m. PICK cmds, known, out :
        /\ cmds = Append(pending_cmds[n], Head(inbox[n]).cmd)
        /\ known = (leader[n] # None)
        /\ out = IF known THEN To(leader[n], Forwarded(n, cmds, leader[n])) ELSE To(n, <<>>)
  OBVIOUS
<1>3. /\ Received(n, "Command") /\ Deliver(n, out)
      /\ UNCHANGED <<nodes, electionVars, log, acks, applied, pending>>
  BY <1>m DEF ForwardCommand, setupVars
<1>4. Head(inbox[n]).cmd \in Commands /\ Head(inbox[n]).type = "Command" /\ inbox[n] # <<>> /\ SetUp
  <2>1. 1 \in 1 .. Len(inbox[n]) /\ Head(inbox[n]) = inbox[n][1]
    BY <1>2, <1>3, FirstInInbox, AtHand
  <2>2. MailOk(H, A, n, inbox[n][1])
    BY <1>2, <2>1 DEF Mail
  <2> QED
    BY <1>2, <1>3, <2>1, <2>2, FirstInInbox, Carries DEF MailOk
<1>5. cmds \in Seq(Commands)
  BY <1>2, <1>m, <1>4, AtHand
<1>6. /\ out \in [Nodes -> Seq(Message)]
      /\ \A x \in Nodes : \A i \in 1 .. Len(out[x]) : out[x][i].type = "Command"
  <2>1. CASE known
    <3>1. /\ To(leader[n], Forwarded(n, cmds, leader[n])) \in [Nodes -> Seq(Message)]
          /\ \A x \in Nodes : \A i \in 1 .. Len(To(leader[n], Forwarded(n, cmds, leader[n]))[x]) :
               To(leader[n], Forwarded(n, cmds, leader[n]))[x][i].type = "Command"
      BY <1>5, ForwardedTo
    <3> QED
      BY <1>m, <2>1, <3>1
  <2>2. CASE ~known
    BY <1>m, <2>2, ToNobody
  <2> QED
    BY <2>1, <2>2
<1>7. SetUp' /\ UNCHANGED <<role, term, elected, log, acks, applied, pending, nodes>>
  BY <1>3, <1>4 DEF electionVars, SetUp, Others
<1>8. Light(out, H, A)
  <2> SUFFICES ASSUME NEW x \in Nodes, NEW i \in 1 .. Len(out[x])
               PROVE  /\ out[x][i].type \notin {"AppendEntry", "AppendEntryResponse", "Accept"}
                      /\ MailOk(H, A, x, out[x][i])'
    BY DEF Light
  <2>1. PICK msg : msg = out[x][i]
    OBVIOUS
  <2>2. msg.type = "Command"
    BY <1>6, <2>1
  <2>3. MailOk(H, A, x, msg)'
    BY <1>7, <2>2, MailPlain
  <2> QED
    BY <2>1, <2>2, <2>3
<1>9. Moved
  BY <1>2, <1>7, StillMoved
<1>10. PICK o \in [Nodes -> Seq(Message)] : Calm(n, TRUE, o) /\ Sound(o, H, A)
  <2>1. Waiting
    BY <1>4, <1>7 DEF Waiting
  <2> QED
    BY <1>2, <1>3, <1>4, <1>6, <1>7, <1>8, <1>9, <2>1, CalmDelivered
<1>11. LogInv(v, H, A)'
  BY <1>2, <1>7, <1>10, CalmUnchanged DEF Sound
<1> QED
  BY <1>1, <1>11
-----------------------------------------------------------------------------
(* Following a leader. *)

\* The first message is sound, and a candidate has voted for itself.
LEMMA FirstMail ==
  ASSUME NEW v \in Ballots, Explained(v), NEW H, NEW A, Mail(H, A), NEW n \in Nodes, inbox[n] # <<>>
  PROVE  /\ MailOk(H, A, n, Head(inbox[n])) /\ Head(inbox[n]) \in Message
         /\ Head(inbox[n]) = inbox[n][1] /\ 1 \in 1 .. Len(inbox[n])
         /\ Head(inbox[n]).type = "RequestVote" => v[Head(inbox[n]).src][Head(inbox[n]).term] = Head(inbox[n]).src
<1>1. Head(inbox[n]) = inbox[n][1] /\ 1 \in 1 .. Len(inbox[n]) /\ inbox[n][1] \in Message
      /\ 1 \in DOMAIN inbox[n]
  BY AtHand DEF Explained
<1>2. MailOk(H, A, n, inbox[n][1])
  BY <1>1 DEF Mail
<1>3. inbox[n][1].type = "RequestVote" => v[inbox[n][1].src][inbox[n][1].term] = inbox[n][1].src
  BY <1>1 DEF Explained, Explains
<1> QED
  BY <1>1, <1>2, <1>3

\* Following the sender of msg, which is the leader of its term.
Followed(n, msg) ==
  /\ msg \in Message /\ msg.type = "AppendEntry" /\ inbox[n] # <<>>
  /\ msg.src \in Nodes /\ msg.src # n /\ msg.term \in Terms /\ term[n] <= msg.term
  /\ <<msg.src, msg.term>> \in elected
  /\ msg.committed \in Nat /\ msg.entry \in Sendable \cup {None}
  /\ role[n] = "Leader" => term[n] < msg.term
  /\ role'[n] = "Follower" /\ term'[n] = msg.term
  /\ role' = [role EXCEPT ![n] = "Follower"] /\ term' = [term EXCEPT ![n] = msg.term]
  /\ \A y \in Nodes : y # n => role'[y] = role[y] /\ term'[y] = term[y]
  /\ UNCHANGED <<elected, nodes, pending>>
  /\ \A y \in Nodes : pending_cmds'[y] = pending_cmds[y] \/ pending_cmds'[y] = <<>>

\* A request of the term of a winner, or of one before it: who follows enters that term.
LEMMA FollowFacts ==
  ASSUME MajoritiesMeet, NEW v \in Ballots, Explained(v), NEW H \in Books, NEW A \in Counts, LogInv(v, H, A),
         NEW n \in Nodes, NEW msg, msg = Head(inbox[n]), Follow(n, msg)
  PROVE  Followed(n, msg) /\ MailOk(H, A, n, msg)
<1>0. TypeInv /\ Mail(H, A) /\ Leaders(H, A) /\ ElectedOncePerTerm
  BY Winner DEF Explained, LogInv, Core
<1>1. /\ inbox[n] # <<>> /\ msg.type = "AppendEntry" /\ msg.term >= term[n]
      /\ role' = [role EXCEPT ![n] = "Follower"] /\ term' = [term EXCEPT ![n] = msg.term]
      /\ UNCHANGED <<elected, nodes, pending>>
      /\ pending_cmds' = [pending_cmds EXCEPT ![n] = <<>>] \/ pending_cmds' = pending_cmds
  BY DEF Follow, Received, setupVars
<1>2. msg \in Message /\ MailOk(H, A, n, msg)
  BY <1>0, <1>1, FirstMail
<1>3. msg.src # n /\ <<msg.src, msg.term>> \in elected
  BY <1>1, <1>2 DEF MailOk
<1>4. msg.src \in Nodes /\ msg.term \in Terms /\ msg.committed \in Nat /\ msg.entry \in Sendable \cup {None}
  <2>1. msg.src \in Nodes /\ msg.committed \in Nat /\ msg.entry \in Sendable \cup {None}
    BY <1>1, <1>2, Carries
  <2>2. msg.term \in Terms
    BY <1>0, <1>3 DEF TypeInv, ElectionType
  <2> QED
    BY <2>1, <2>2
<1>5. term[n] \in Nat /\ msg.term \in Nat
  BY <1>0, <1>4, AtHand
<1>6. role[n] = "Leader" => term[n] < msg.term
  <2> SUFFICES ASSUME role[n] = "Leader", term[n] = msg.term PROVE FALSE
    BY <1>1, <1>5
  <2>1. <<n, msg.term>> \in elected
    BY <1>0 DEF Leaders
  <2> QED
    BY <1>0, <1>3, <2>1 DEF ElectedOncePerTerm
<1>7. role \in [Nodes -> Roles] /\ term \in [Nodes -> 0 .. MaxTerm] /\ pending_cmds \in [Nodes -> Seq(Commands)]
  BY <1>0 DEF TypeInv, ElectionType, LogType
<1>8. /\ role'[n] = "Follower" /\ term'[n] = msg.term
      /\ \A y \in Nodes : y # n => role'[y] = role[y] /\ term'[y] = term[y]
      /\ \A y \in Nodes : pending_cmds'[y] = pending_cmds[y] \/ pending_cmds'[y] = <<>>
  BY <1>1, <1>7
<1> QED
  BY <1>1, <1>2, <1>3, <1>4, <1>5, <1>6, <1>8 DEF Followed

\* Without an entry taken over the logs stay.
LEMMA FollowMoved ==
  ASSUME MajoritiesMeet, NEW v \in Ballots, Explained(v), NEW H \in Books, NEW A \in Counts, LogInv(v, H, A),
         NEW n \in Nodes, Follow(n, Head(inbox[n])), log' = log
  PROVE  Moved
<1>1. PICK msg : msg = Head(inbox[n])
  OBVIOUS
<1>2. /\ msg.term \in Terms /\ term[n] <= msg.term
      /\ role[n] = "Leader" => term[n] < msg.term
      /\ role'[n] = "Follower" /\ term'[n] = msg.term
      /\ \A y \in Nodes : y # n => role'[y] = role[y] /\ term'[y] = term[y]
      /\ elected' = elected
  <2>1. Followed(n, msg)
    BY <1>1, FollowFacts
  <2> QED
    BY <2>1 DEF Followed
<1>3. \A y \in Nodes : term[y] \in Nat /\ role[y] # "Panicked"
  BY AtHand DEF Explained, LogInv, Core, Leaders
<1>4. msg.term \in Nat
  BY <1>2, AtHand DEF Explained
<1>5. \A y \in Nodes : term[y] <= term'[y]
  BY <1>2, <1>3
<1>6. term'[n] = term[n] => role[n] # "Leader"
  BY <1>2, <1>3, <1>4
<1> QED
  BY <1>2, <1>3, <1>5, <1>6 DEF Moved

\* What is added to a file comes from the log.
LEMMA LongerFile ==
  ASSUME NEW lg \in Seq(Entries), NEW s \in Seq(Entries), Same(lg, s, Len(s)),
         NEW c \in Nat, Len(s) <= c, c <= Len(lg)
  PROVE  /\ Len(s \o SubSeq(lg, Len(s) + 1, c)) = c
         /\ Same(lg, s \o SubSeq(lg, Len(s) + 1, c), c)
         /\ s \o SubSeq(lg, Len(s) + 1, c) \in Seq(Entries)
<1>1. PICK r : r = SubSeq(lg, Len(s) + 1, c)
  OBVIOUS
<1>2. r \in Seq(Entries) /\ Len(r) = c - Len(s) /\ \A i \in 1 .. Len(r) : r[i] = lg[Len(s) + i]
  BY <1>1
<1>3. PICK q : q = s \o r
  OBVIOUS
<1>4. q \in Seq(Entries) /\ Len(q) = c
  BY <1>2, <1>3
<1>5. ASSUME NEW i \in 1 .. c PROVE lg[i] = q[i]
  <2>1. CASE i <= Len(s)
    <3>1. q[i] = s[i]
      BY <1>2, <1>3, <2>1
    <3> QED
      BY <2>1, <3>1 DEF Same
  <2>2. CASE i > Len(s)
    <3>1. i - Len(s) \in 1 .. Len(r) /\ q[i] = r[i - Len(s)]
      BY <1>2, <1>3, <2>2
    <3>2. Len(s) + (i - Len(s)) = i
      OBVIOUS
    <3> QED
      BY <1>2, <3>1, <3>2
  <2> QED
    BY <2>1, <2>2
<1> QED
  BY <1>1, <1>3, <1>4, <1>5 DEF Same

\* The minimum, by cases.
LEMMA SmallerOf ==
  ASSUME NEW a \in Int, NEW b \in Int
  PROVE  Min({a, b}) = IF a <= b THEN a ELSE b
  BY DEF Min

\* Nothing is added to a file that is long enough.
LEMMA SameFile ==
  ASSUME NEW lg \in Seq(Entries), NEW s \in Seq(Entries), NEW c \in Int, c <= Len(s)
  PROVE  s \o SubSeq(lg, Len(s) + 1, c) = s
<1>1. SubSeq(lg, Len(s) + 1, c) = <<>>
  OBVIOUS
<1> QED
  BY <1>1

\* A bare heartbeat: what it says is committed is settled, and in the log if it is more than is
\* in the file.
LEMMA FollowHeartbeatLog ==
  ASSUME MajoritiesMeet, NEW v \in Ballots, Explained(v), NEW H \in Books, NEW A \in Counts, LogInv(v, H, A),
         NEW n \in Nodes, FollowHeartbeat(n)
  PROVE  Explained(v)' /\ LogInv(v, H, A)'
<1>1. Explained(v)'
  BY FollowHeartbeatInd
<1>2. TypeInv /\ TypeInv' /\ Core(H, A) /\ Mail(H, A) /\ Files(H, A) /\ Setting(H) /\ Accepts
  BY <1>1 DEF Explained, LogInv
<1>m. PICK msg, upto, sent : /\ msg = Head(inbox[n]) /\ upto = Min({msg.committed, Len(log[n])})
                             /\ sent = To(msg.src, Forwarded(n, pending_cmds[n], msg.src))
  OBVIOUS
<1>3. /\ Follow(n, msg) /\ msg.entry = None
      /\ Deliver(n, sent)
      /\ applied' = [applied EXCEPT ![n] = @ \o SubSeq(log[n], Len(@) + 1, upto)]
      /\ UNCHANGED <<log, acks>>
  BY <1>m DEF FollowHeartbeat
<1>4. Followed(n, msg) /\ MailOk(H, A, n, msg)
  BY <1>m, <1>3, FollowFacts
<1>5. Moved
  BY <1>m, <1>3, FollowMoved
<1>6. sent \in [Nodes -> Seq(Message)] /\ Light(sent, H, A)
  <2>1. /\ sent \in [Nodes -> Seq(Message)]
        /\ \A x \in Nodes : \A i \in 1 .. Len(sent[x]) : sent[x][i].type = "Command" /\ pending_cmds[n] # <<>>
    BY <1>2, <1>m, AtHand, ForwardedTo
  <2>2. ASSUME NEW x \in Nodes, NEW i \in 1 .. Len(sent[x])
        PROVE  /\ sent[x][i].type \notin {"AppendEntry", "AppendEntryResponse", "Accept"}
               /\ MailOk(H, A, x, sent[x][i])'
    <3>1. PICK c : c = sent[x][i]
      OBVIOUS
    <3>2. c.type = "Command" /\ SetUp
      BY <1>2, <2>1, <3>1 DEF Setting
    <3>3. SetUp'
      BY <1>4, <3>2 DEF SetUp, Others, Followed
    <3>4. MailOk(H, A, x, c)'
      BY <3>2, <3>3, MailPlain
    <3> QED
      BY <3>1, <3>2, <3>4
  <2> QED
    BY <2>1, <2>2 DEF Light
<1>7. Waiting
  <2>1. \A y \in Nodes : role'[y] = "Leader" => applied'[y] = applied[y]
    BY <1>3, <1>4 DEF Followed
  <2> QED
    BY <1>4, <2>1 DEF Waiting, Followed
<1>8. PICK o \in [Nodes -> Seq(Message)] : Calm(n, TRUE, o) /\ Sound(o, H, A)
  BY <1>m, <1>2, <1>3, <1>4, <1>5, <1>6, <1>7, CalmDelivered DEF Followed
<1>9. Grown(H, A, H, A)
  BY <1>2, NotGrown, <1>5 DEF Moved
<1>10. PICK u, c : u = msg.term /\ c = msg.committed
  OBVIOUS
<1>11. /\ u \in Terms /\ u \in Nat /\ c \in Nat /\ term[n] \in Nat /\ term[n] <= u /\ term'[n] = u
       /\ c <= A[n][u] /\ Settled(H, A, u, c)
  <2>1. /\ u \in Terms /\ c \in Nat /\ term[n] <= u /\ term'[n] = u
        /\ term[n] <= u => c <= A[n][u]
        /\ Settled(H, A, u, c)
    BY <1>3, <1>4, <1>10 DEF Followed, MailOk
  <2> QED
    BY <1>2, <2>1, AtHand
<1>12. /\ log[n] \in Seq(Entries) /\ applied[n] \in Seq(Entries) /\ Len(log[n]) \in Nat /\ Len(applied[n]) \in Nat
       /\ Len(H[u]) \in Nat /\ A[n][u] \in Nat /\ applied \in [Nodes -> Seq(Entries)]
       /\ Same(log[n], applied[n], Len(applied[n]))
  BY <1>2, <1>11, AtHand, BookAtHand DEF Files, TypeInv, LogType
<1>13. upto = c \/ (upto <= c /\ upto = Len(log[n]))
  <2>1. PICK l \in Nat : l = Len(log[n])
    BY <1>12
  <2>2. upto = IF c <= l THEN c ELSE l
    BY <1>m, <1>10, <1>11, <2>1, SmallerOf
  <2>3. upto = c \/ (upto <= c /\ upto = l)
    BY <1>11, <2>1, <2>2
  <2> QED
    BY <2>1, <2>3
<1>a. PICK la \in Nat, k2 \in Nat : la = Len(applied[n]) /\ k2 = A[n][u]
  BY <1>12
<1>b. c <= la \/ c > la
  BY <1>11, <1>a
<1>14. applied'[n] = applied[n] \o SubSeq(log[n], Len(applied[n]) + 1, upto)
  BY <1>3, <1>12
<1>15. Covered(H, A, applied[n], term[n])' /\ Same(log'[n], applied'[n], Len(applied'[n]))
  <2>1. CASE c <= Len(applied[n])
    <3>1. upto <= Len(applied[n]) /\ upto \in Int
      BY <1>11, <1>12, <1>13, <2>1
    <3>2. applied'[n] = applied[n]
      BY <1>12, <1>14, <3>1, SameFile
    <3>3. Same(log'[n], log[n], Len(applied[n]))
      BY <1>3, <1>12, SameSelf DEF Same
    <3> QED
      BY <1>2, <1>9, <3>2, <3>3, FilesStay
  <2>2. CASE c > Len(applied[n])
    <3>1. A[n][u] > 0 /\ c > 0
      <4>1. c \in Nat /\ c <= k2
        BY <1>11, <1>a
      <4>2. c > la
        BY <1>a, <2>2
      <4>3. k2 > 0 /\ c > 0
        BY <4>1, <4>2
      <4> QED
        BY <1>a, <4>3
    <3>2. term[n] = u /\ Len(log[n]) = A[n][u] /\ Same(log[n], H[u], A[n][u])
      BY <1>2, <1>11, <3>1 DEF Core, Held
    <3>3. upto = c /\ c <= Len(log[n])
      BY <1>11, <1>12, <1>13, <3>2
    <3>4. PICK s : s = applied'[n]
      OBVIOUS
    <3>5. s \in Seq(Entries) /\ Len(s) = c /\ Same(log[n], s, c)
      <4>1. PICK lg \in Seq(Entries), f \in Seq(Entries) :
                   /\ lg = log[n] /\ f = applied[n] /\ Same(lg, f, Len(f))
                   /\ Len(f) <= c /\ c <= Len(lg)
        BY <1>11, <1>12, <2>2, <3>3
      <4>2. s = f \o SubSeq(lg, Len(f) + 1, c)
        BY <1>14, <3>3, <3>4, <4>1
      <4>3. /\ Len(f \o SubSeq(lg, Len(f) + 1, c)) = c
            /\ Same(lg, f \o SubSeq(lg, Len(f) + 1, c), c)
            /\ f \o SubSeq(lg, Len(f) + 1, c) \in Seq(Entries)
        BY <1>11, <4>1, LongerFile
      <4> QED
        BY <4>1, <4>2, <4>3
    <3>6. PICK t \in Terms, k \in Nat : t <= u /\ Chosen(H, A, t, k) /\ c <= k /\ Same(H[u], H[t], c)
      <4>1. c # 0 /\ Settled(H, A, u, c)
        BY <1>11, <3>1
      <4> QED
        BY <4>1 DEF Settled
    <3>7. Same(log[n], H[u], c)
      BY <1>11, <1>12, <3>2, SameLess
    <3>8. Same(s, H[t], c)
      BY <3>5, <3>6, <3>7, SameSwapped, SameTwice
    <3>9. Covered(H, A, s, u)
      BY <3>5, <3>6, <3>8 DEF Covered
    <3>10. Covered(H, A, applied[n], term[n])'
      BY <1>11, <3>4, <3>9 DEF Covered, Chosen
    <3> QED
      BY <1>3, <3>4, <3>5, <3>10
  <2> QED
    BY <1>a, <1>b, <2>1, <2>2
<1>16. Files(H, A)'
  <2>1. ASSUME NEW m \in Nodes, m # n
        PROVE  Covered(H, A, applied[m], term[m])' /\ Same(log'[m], applied'[m], Len(applied'[m]))
    <3>1. applied'[m] = applied[m]
      BY <1>3, <1>12, <2>1
    <3>2. Len(applied[m]) \in Nat /\ Len(log[m]) \in Nat /\ Len(applied[m]) <= Len(log[m])
      BY <1>2, AtHand DEF Files, Same
    <3>3. Same(log'[m], log[m], Len(applied[m]))
      BY <1>3, <3>2, SameSelf
    <3> QED
      BY <1>2, <1>9, <3>1, <3>3, FilesStay
  <2> QED
    BY <1>15, <2>1 DEF Files
<1>17. Accepts'
  <2>1. Mailed(n, TRUE, o) /\ inbox[n] # <<>> /\ nodes' = nodes
    BY <1>8 DEF Calm
  <2> QED
    BY <1>2, <1>8, <2>1, AcceptsStay DEF Sound
<1>18. \A y \in Nodes : role'[y] = "Candidate" => role[y] = "Candidate" /\ term'[y] = term[y] /\ log'[y] = log[y]
  BY <1>3, <1>4 DEF Followed
<1> QED
  BY <1>1, <1>2, <1>8, <1>16, <1>17, <1>18, CalmDone DEF Sound
-----------------------------------------------------------------------------
(* Steps that send without taking a message out. *)

\* A driver or the daemon that sends neither requests nor answers takes such a step.
LEMMA CalmPosted ==
  ASSUME TypeInv, NEW H, NEW A, NEW n \in Nodes, NEW S \in SUBSET Nodes, NEW out \in [Nodes -> Message],
         Posts(S, out),
         \A x \in S : out[x].type \notin {"AppendEntry", "AppendEntryResponse"} /\ MailOk(H, A, x, out[x])',
         Moved, UNCHANGED <<nodes, acks, pending>>, Waiting
  PROVE  \E o \in [Nodes -> Seq(Message)] :
           /\ Calm(n, FALSE, o)
           /\ \A x \in Nodes : \A i \in 1 .. Len(o[x]) : MailOk(H, A, x, o[x][i])'
           /\ (\A x \in S : out[x].type # "Accept") => Sound(o, H, A)
<1>1. PICK o \in [Nodes -> Seq(Message)] :
        Mailed(n, FALSE, o) /\ \A m \in Nodes : (m \in S => o[m] = <<out[m]>>) /\ (m \notin S => o[m] = <<>>)
  BY PostedMailed
<1>2. ASSUME NEW x \in Nodes, NEW i \in 1 .. Len(o[x])
      PROVE  x \in S /\ o[x][i] = out[x]
  <2>1. Len(<<>>) = 0 /\ Len(<<out[x]>>) = 1 /\ <<out[x]>>[1] = out[x]
    OBVIOUS
  <2>2. CASE x \in S
    <3>1. o[x] = <<out[x]>>
      BY <1>1, <2>2
    <3> QED
      BY <1>2, <2>1, <2>2, <3>1
  <2>3. CASE x \notin S
    <3>1. o[x] = <<>>
      BY <1>1, <2>3
    <3> QED
      BY <1>2, <2>1, <3>1
  <2> QED
    BY <2>2, <2>3
<1>3. ASSUME NEW x \in Nodes, NEW i \in 1 .. Len(o[x])
      PROVE  MailOk(H, A, x, o[x][i])' /\ o[x][i].type \notin {"AppendEntry", "AppendEntryResponse"}
  <2>1. PICK msg : msg = out[x]
    OBVIOUS
  <2>2. x \in S /\ o[x][i] = msg
    BY <1>2, <1>3, <2>1
  <2>3. MailOk(H, A, x, msg)' /\ msg.type \notin {"AppendEntry", "AppendEntryResponse"}
    BY <2>1, <2>2
  <2>4. PICK e : e = o[x][i]
    OBVIOUS
  <2> QED
    BY <2>2, <2>3, <2>4
<1>4. ASSUME NEW k \in Nodes, NEW x \in Nodes, NEW u \in Terms
      PROVE  Only(o[k], Answers(x, u)) = <<>> /\ Only(o[x], Probes(k, u)) = <<>>
  <2>1. o[k] \in Seq(Message) /\ o[x] \in Seq(Message)
    OBVIOUS
  <2> QED
    BY <1>3, <2>1, NotInChain
<1>5. \A k, x \in Nodes, u \in Terms : ~Took(n, FALSE, k, Answers(x, u))
  BY DEF Took
<1>6. Calm(n, FALSE, o)
  BY <1>1, <1>4, <1>5 DEF Calm, Waiting
<1>7. ASSUME \A x \in S : out[x].type # "Accept" PROVE Sound(o, H, A)
  BY <1>2, <1>3, <1>7 DEF Sound
<1> QED
  BY <1>3, <1>6, <1>7

\* A client's command, once all are connected.
LEMMA ClientLog ==
  ASSUME NEW v \in Ballots, Explained(v), NEW H \in Books, NEW A \in Counts, LogInv(v, H, A),
         NEW n \in Nodes, NEW c \in Commands, Client(n, c)
  PROVE  Explained(v)' /\ LogInv(v, H, A)'
<1>1. Explained(v)'
  BY ClientInd
<1>2. TypeInv /\ TypeInv' /\ Core(H, A)
  BY <1>1 DEF Explained, LogInv
<1>3. /\ SetUp /\ inbox' = [inbox EXCEPT ![n] = Append(@, Command(c))]
      /\ UNCHANGED <<nodes, role, term, elected, log, acks, pending_cmds, applied, pending>>
  BY DEF Client, setupVars, electionVars, logVars
<1>4. PICK msg : msg = Command(c)
  OBVIOUS
<1>5. PICK out \in [Nodes -> Message] : \A x \in Nodes : out[x] = msg
  <2>1. [x \in Nodes |-> msg] \in [Nodes -> Message]
    BY <1>4, Kinds
  <2> QED
    BY <2>1
<1>s. PICK S \in SUBSET Nodes : S = {n}
  OBVIOUS
<1>6. Posts(S, out)
  BY <1>2, <1>3, <1>4, <1>5, <1>s DEF TypeInv, NetType, Posts
<1>7. SetUp' /\ msg.type = "Command"
  BY <1>3, <1>4 DEF SetUp, Others, Command
<1>8. ASSUME NEW x \in S
      PROVE  out[x].type \notin {"AppendEntry", "AppendEntryResponse", "Accept"} /\ MailOk(H, A, x, out[x])'
  <2>1. PICK e : e = out[x]
    OBVIOUS
  <2>2. e.type = "Command"
    BY <1>5, <1>7, <1>s, <2>1
  <2>3. MailOk(H, A, x, e)'
    BY <1>7, <2>2, MailPlain
  <2> QED
    BY <2>1, <2>2, <2>3
<1>9. Moved /\ Waiting
  BY <1>2, <1>3, StillMoved DEF Waiting
<1>n. /\ \A x \in S : out[x].type # "Accept"
      /\ \A x \in S : out[x].type \notin {"AppendEntry", "AppendEntryResponse"} /\ MailOk(H, A, x, out[x])'
  BY <1>8
<1>10. PICK o \in [Nodes -> Seq(Message)] : Calm(n, FALSE, o) /\ Sound(o, H, A)
  BY <1>2, <1>3, <1>6, <1>n, <1>9, CalmPosted
<1>11. LogInv(v, H, A)'
  BY <1>2, <1>3, <1>10, CalmUnchanged DEF Sound
<1> QED
  BY <1>1, <1>11

\* The daemon touches nothing an office keeps.
LEMMA DaemonLog ==
  ASSUME NEW v \in Ballots, Explained(v), NEW H \in Books, NEW A \in Counts, LogInv(v, H, A),
         NEW n \in Nodes, Disrupt(n) \/ Restore(n)
  PROVE  Explained(v)' /\ LogInv(v, H, A)'
<1>1. Explained(v)'
  BY DaemonInd
<1>2. TypeInv /\ TypeInv' /\ Core(H, A)
  BY <1>1 DEF Explained, LogInv
<1>3. UNCHANGED <<inbox, nodes, role, term, elected, log, acks, pending_cmds, applied, pending>>
  BY DEF Disrupt, Restore, setupVars, electionVars, logVars
<1>4. PICK out \in [Nodes -> Message] : TRUE
  <2>1. [x \in Nodes |-> [type |-> "Accept", src |-> n]] \in [Nodes -> Message]
    BY Kinds
  <2> QED
    BY <2>1
<1>s. PICK S \in SUBSET Nodes : S = {}
  OBVIOUS
<1>5. Posts(S, out)
  BY <1>2, <1>3, <1>s DEF TypeInv, NetType, Posts
<1>6. Moved /\ Waiting
  BY <1>2, <1>3, StillMoved DEF Waiting
<1>9. UNCHANGED <<nodes, acks, pending>>
  BY <1>3
<1>10. /\ \A x \in S : out[x].type # "Accept"
       /\ \A x \in S : out[x].type \notin {"AppendEntry", "AppendEntryResponse"} /\ MailOk(H, A, x, out[x])'
  BY <1>s
<1>7. PICK o \in [Nodes -> Seq(Message)] : Calm(n, FALSE, o) /\ Sound(o, H, A)
  BY <1>2, <1>5, <1>6, <1>9, <1>10, CalmPosted
<1>8. LogInv(v, H, A)'
  BY <1>2, <1>3, <1>7, CalmUnchanged DEF Sound
<1> QED
  BY <1>1, <1>8

\* An office is told of one it has not been told of.
LEMMA TellLog ==
  ASSUME NEW v \in Ballots, Explained(v), NEW H \in Books, NEW A \in Counts, LogInv(v, H, A),
         NEW n \in Nodes, NEW m \in Nodes, Tell(n, m)
  PROVE  Explained(v)' /\ LogInv(v, H, A)'
<1>1. Explained(v)'
  BY TellInd
<1>2. TypeInv /\ TypeInv' /\ Core(H, A) /\ Files(H, A) /\ Accepts
  BY <1>1 DEF Explained, LogInv
<1>4. PICK msg \in Message : msg = [type |-> "Accept", src |-> m]
  BY Kinds
<1>3. /\ m \notin told[n] /\ inbox' = [inbox EXCEPT ![n] = Append(@, msg)]
      /\ UNCHANGED <<nodes, role, term, elected, log, acks, pending_cmds, applied, pending>>
  BY <1>4 DEF Tell, MayTell, electionVars, logVars
<1>5. PICK out \in [Nodes -> Message] : \A x \in Nodes : out[x] = msg
  <2>1. [x \in Nodes |-> msg] \in [Nodes -> Message]
    OBVIOUS
  <2> QED
    BY <2>1
<1>s. PICK S \in SUBSET Nodes : S = {n}
  OBVIOUS
<1>6. Posts(S, out)
  BY <1>2, <1>3, <1>5, <1>s DEF TypeInv, NetType, Posts
<1>7. \A x \in S : out[x].type \notin {"AppendEntry", "AppendEntryResponse"} /\ MailOk(H, A, x, out[x])'
  <2>1. \A x \in Nodes : MailOk(H, A, x, msg)'
    BY <1>4, MailPlain
  <2> QED
    BY <1>4, <1>5, <2>1
<1>9. Moved /\ Waiting
  BY <1>2, <1>3, StillMoved DEF Waiting
<1>10. PICK o \in [Nodes -> Seq(Message)] :
         /\ Calm(n, FALSE, o)
         /\ \A x \in Nodes : \A i \in 1 .. Len(o[x]) : MailOk(H, A, x, o[x][i])'
  BY <1>2, <1>3, <1>6, <1>7, <1>9, CalmPosted
<1>11. Accepts'
  <2>1. inbox[n] \in Seq(Message) /\ Len(inbox[n]) \in Nat /\ inbox'[n] = Append(inbox[n], msg)
        /\ \A x \in Nodes : x # n => inbox'[x] = inbox[x]
    BY <1>2, <1>3, AtHand DEF TypeInv, NetType
  <2>2. PICK l \in Nat : l = Len(inbox[n])
    BY <2>1
  <2>3. Len(inbox'[n]) = l + 1 /\ inbox'[n][l + 1] = msg /\ \A i \in 1 .. l : inbox'[n][i] = inbox[n][i]
    BY <2>1, <2>2
  <2>4. m \notin nodes[n]
    BY <1>2, <1>3 DEF TypeInv, SetupType
  <2>5. \A i \in 1 .. l : inbox[n][i].type = "Accept" => inbox[n][i].src # m
    <3>1. \A i \in DOMAIN inbox[n] : inbox[n][i].type = "Accept" => inbox[n][i].src \in told[n]
      BY <1>2 DEF TypeInv, NetType
    <3>2. DOMAIN inbox[n] = 1 .. l
      BY <2>1, <2>2
    <3> QED
      BY <1>3, <3>1, <3>2
  <2>6. ASSUME NEW i \in 1 .. l + 1, inbox'[n][i].type = "Accept",
               NEW j \in 1 .. l + 1, inbox'[n][j].type = "Accept", inbox'[n][j].src = inbox'[n][i].src
        PROVE  i = j
    <3>1. CASE i \in 1 .. l /\ j \in 1 .. l
      BY <1>2, <2>2, <2>3, <2>6, <3>1 DEF Accepts
    <3>m. msg.src = m
      BY <1>4
    <3>2. CASE i = l + 1 /\ j \in 1 .. l
      <4>1. inbox'[n][i] = msg /\ inbox'[n][j] = inbox[n][j]
        BY <2>3, <3>2
      <4> QED
        BY <2>5, <2>6, <3>m, <3>2, <4>1
    <3>3. CASE i \in 1 .. l /\ j = l + 1
      <4>1. inbox'[n][j] = msg /\ inbox'[n][i] = inbox[n][i]
        BY <2>3, <3>3
      <4> QED
        BY <2>5, <2>6, <3>m, <3>3, <4>1
    <3> QED
      BY <3>1, <3>2, <3>3
  <2>7. ASSUME NEW i \in 1 .. l + 1, inbox'[n][i].type = "Accept" PROVE inbox'[n][i].src \notin nodes[n]
    <3>1. CASE i \in 1 .. l
      BY <1>2, <2>2, <2>3, <2>7, <3>1 DEF Accepts
    <3>2. CASE i = l + 1
      BY <1>4, <2>3, <2>4, <3>2
    <3> QED
      BY <3>1, <3>2
  <2>8. ASSUME NEW x \in Nodes, NEW i \in 1 .. Len(inbox'[x]), inbox'[x][i].type = "Accept"
        PROVE  /\ inbox'[x][i].src \notin nodes'[x]
               /\ \A j \in 1 .. Len(inbox'[x]) :
                    inbox'[x][j].type = "Accept" /\ inbox'[x][j].src = inbox'[x][i].src => i = j
    <3>1. CASE x = n
      BY <1>3, <2>3, <2>6, <2>7, <2>8, <3>1
    <3>2. CASE x # n
      BY <1>2, <1>3, <2>1, <2>8, <3>2 DEF Accepts
    <3> QED
      BY <3>1, <3>2
  <2> QED
    BY <2>8 DEF Accepts
<1>12. Files(H, A)'
  <2>1. Grown(H, A, H, A)
    BY <1>2, <1>9, NotGrown DEF Moved
  <2> QED
    BY <1>2, <1>3, <2>1, FilesUnchanged
<1>13. \A c \in Nodes : role'[c] = "Candidate" => role[c] = "Candidate" /\ term'[c] = term[c] /\ log'[c] = log[c]
  BY <1>3
<1>14. LogInv(v, H, A)'
  BY <1>2, <1>10, <1>11, <1>12, <1>13, CalmDone
<1> QED
  BY <1>1, <1>14
-----------------------------------------------------------------------------
(* A leader's heartbeat. *)

\* Whoever has nothing noted for it has all there is, unless nobody has been told.
LEMMA AllReached ==
  ASSUME TypeInv, NEW H \in Books, NEW A \in Counts, Core(H, A), Chains(H, A), Telling(A),
         NEW n \in Nodes, NEW x \in Nodes, NEW u \in Terms,
         role[n] = "Leader", x # n, term[n] = u, term[x] <= u, pending[n][x] = None
  PROVE  A[x][u] = Len(log[n]) \/ Untold(A, n)
<1> SUFFICES ASSUME ~Untold(A, n) PROVE A[x][u] = Len(log[n])
  OBVIOUS
<1>1. <<n, u>> \in elected /\ H[u] = log[n]
  BY DEF Core, Leaders
<1>2. A[x][u] # 0
  BY DEF Telling, Others
<1>3. ChainAt(H, A, n, x, u)
  BY <1>1 DEF Chains
<1>4. Fine(H, A, x, u, Goal(n, x)) /\ Goal(n, x) = Len(log[n])
  BY <1>3 DEF ChainAt, Linked, Goal
<1>5. PICK k \in Nat, l \in Nat : k = A[x][u] /\ l = Len(log[n])
  BY AtHand, BookAtHand
<1>6. k <= l
  BY <1>1, <1>5 DEF Core, Held
<1>7. k > 0 => (l = k \/ l + 1 = k)
  BY <1>4, <1>5 DEF Fine
<1>8. k = l
  BY <1>2, <1>5, <1>6, <1>7
<1> QED
  BY <1>5, <1>8

\* What a leader has in its file is settled, and it is in its log.
LEMMA FileSettled ==
  ASSUME TypeInv, NEW H \in Books, NEW A \in Counts, Core(H, A), Files(H, A),
         NEW n \in Nodes, NEW u \in Terms, role[n] = "Leader", term[n] = u
  PROVE  Settled(H, A, u, Len(applied[n])) /\ Len(applied[n]) <= Len(log[n])
<1>1. H[u] = log[n]
  BY DEF Core, Leaders
<1>2. Covered(H, A, applied[n], u) /\ Same(log[n], applied[n], Len(applied[n]))
  BY DEF Files
<1>3. CASE applied[n] = <<>>
  <2>1. Len(applied[n]) = 0
    BY <1>3
  <2> QED
    BY <1>2, <2>1 DEF Settled, Same
<1>4. CASE applied[n] # <<>>
  <2>1. PICK t \in Terms, k \in Nat :
          t <= u /\ Chosen(H, A, t, k) /\ Len(applied[n]) <= k /\ Same(applied[n], H[t], Len(applied[n]))
    BY <1>2, <1>4 DEF Covered
  <2>2. Same(H[u], H[t], Len(applied[n]))
    BY <1>1, <1>2, <2>1, SameTwice
  <2> QED
    BY <1>2, <2>1, <2>2 DEF Settled, Same
<1> QED
  BY <1>3, <1>4

\* A leader's heartbeat is sound.
LEMMA HeartbeatSound ==
  ASSUME TypeInv, NEW H \in Books, NEW A \in Counts, Core(H, A), Files(H, A), Chains(H, A), Telling(A), Noted,
         NEW n \in Nodes, NEW x \in Nodes, NEW u \in Terms, role[n] = "Leader", x # n, term[n] = u,
         NEW msg, msg = AppendEntry(n, pending[n][x])
  PROVE  MailOk(H, A, x, msg)
<1>1. <<n, u>> \in elected /\ H[u] = log[n]
  BY DEF Core, Leaders
<1>2. /\ msg.type = "AppendEntry" /\ msg.src = n /\ msg.term = u
      /\ msg.committed = Len(applied[n]) /\ msg.entry = pending[n][x]
  BY DEF AppendEntry, committed
<1>3. ASSUME msg.entry # None
      PROVE  msg.entry.index < Len(H[u]) /\ msg.entry = EntryData(H[u], msg.entry.index)
  BY <1>1, <1>2, <1>3 DEF Noted
<1>4. ASSUME msg.entry = None
      PROVE  /\ term[x] <= u => msg.committed <= A[x][u]
             /\ Settled(H, A, u, msg.committed)
  <2>1. Settled(H, A, u, msg.committed) /\ msg.committed <= Len(log[n])
    BY <1>2, FileSettled
  <2>2. ASSUME term[x] <= u PROVE msg.committed <= A[x][u]
    <3>1. A[x][u] = Len(log[n]) \/ Untold(A, n)
      BY <1>2, <1>4, <2>2, AllReached
    <3>2. CASE A[x][u] = Len(log[n])
      BY <2>1, <3>2
    <3>3. CASE Untold(A, n)
      <4>1. msg.committed = 0
        BY <1>2, <3>3 DEF Untold
      <4>2. PICK k \in Nat : k = A[x][u]
        BY BookAtHand
      <4> QED
        BY <4>1, <4>2
    <3> QED
      BY <3>1, <3>2, <3>3
  <2> QED
    BY <2>1, <2>2
<1> QED
  BY <1>1, <1>2, <1>3, <1>4 DEF MailOk

\* MailOk looks at little of the state.
LEMMA MailOkKept ==
  ASSUME NEW H, NEW A, NEW x, NEW msg, MailOk(H, A, x, msg), UNCHANGED <<nodes, term, role, elected, log>>
  PROVE  MailOk(H, A, x, msg)'
<1>1. SetUp' = SetUp
  BY DEF SetUp, Others
<1>2. \A u, c : Settled(H, A, u, c)' <=> Settled(H, A, u, c)
  BY DEF Settled, Chosen
<1> QED
  BY <1>1, <1>2 DEF MailOk

\* One message is all there is of it.
LEMMA OnlyOne ==
  ASSUME NEW msg \in Message, NEW S
  PROVE  (msg \in S => Only(<<msg>>, S) = <<msg>>) /\ (msg \notin S => Only(<<msg>>, S) = <<>>)
<1>1. <<msg>> \in Seq(Message) /\ Len(<<msg>>) = 1 /\ <<msg>>[1] = msg
  OBVIOUS
<1>2. ASSUME msg \in S PROVE Only(<<msg>>, S) = <<msg>>
  <2>1. <<msg>> \in Seq(S)
    BY <1>2
  <2> QED
    BY <2>1, OnlyAll
<1>3. ASSUME msg \notin S PROVE Only(<<msg>>, S) = <<>>
  <2>1. \A i \in 1 .. Len(<<msg>>) : <<msg>>[i] \notin S
    BY <1>1, <1>3
  <2> QED
    BY <1>1, <2>1, OnlyNone
<1> QED
  BY <1>2, <1>3

\* A leader with its inbox empty sends again what it has noted, or what it has committed.
LEMMA HeartbeatLog ==
  ASSUME NEW v \in Ballots, Explained(v), NEW H \in Books, NEW A \in Counts, LogInv(v, H, A),
         NEW n \in Nodes, Heartbeat(n)
  PROVE  Explained(v)' /\ LogInv(v, H, A)'
<1>1. Explained(v)'
  BY HeartbeatInd
<1>2. /\ TypeInv /\ TypeInv' /\ Core(H, A)
      /\ Files(H, A) /\ Chains(H, A) /\ Telling(A) /\ Noted /\ Accepts
  BY <1>1 DEF Explained, LogInv
<1>3. /\ role[n] = "Leader"
      /\ UNCHANGED <<nodes, role, term, elected, log, acks, pending_cmds, applied, pending>>
  BY DEF Heartbeat, setupVars, electionVars, logVars
<1>4. PICK u \in Terms : term[n] = u
  BY <1>2, <1>3, AtHand
<1>5. PICK out \in [Nodes -> Message] : \A x \in Nodes : out[x] = AppendEntry(n, pending[n][x])
  <2>1. [x \in Nodes |-> AppendEntry(n, pending[n][x])] \in [Nodes -> Message]
    BY <1>2, AtHand, Broadcasts
  <2> QED
    BY <2>1
<1>s. PICK S \in SUBSET Nodes : S = {m \in Nodes : m \in nodes[n] /\ Reaches(n, m)}
  OBVIOUS
<1>6. Posts(S, out) /\ n \notin S
  <2>1. inbox' = [m \in Nodes |-> IF m \in S THEN Append(inbox[m], out[m]) ELSE inbox[m]]
    BY <1>5, <1>s DEF Heartbeat
  <2>2. n \notin nodes[n]
    BY <1>2 DEF TypeInv, SetupType, Others
  <2> QED
    BY <1>s, <2>1, <2>2 DEF Posts
<1>7. PICK o \in [Nodes -> Seq(Message)] :
        Mailed(n, FALSE, o) /\ \A m \in Nodes : (m \in S => o[m] = <<out[m]>>) /\ (m \notin S => o[m] = <<>>)
  BY <1>2, <1>6, PostedMailed, Zenon
<1>8. \A x \in S : MailOk(H, A, x, out[x])' /\ out[x].type = "AppendEntry"
  <2> SUFFICES ASSUME NEW x \in S PROVE MailOk(H, A, x, out[x])' /\ out[x].type = "AppendEntry"
    OBVIOUS
  <2>1. PICK msg : msg = out[x]
    OBVIOUS
  <2>2. msg = AppendEntry(n, pending[n][x]) /\ x # n /\ x \in Nodes
    BY <1>5, <1>6, <2>1
  <2>3. MailOk(H, A, x, msg)
    BY <1>2, <1>3, <1>4, <2>2, HeartbeatSound
  <2>4. MailOk(H, A, x, msg)'
    BY <1>3, <2>3, MailOkKept
  <2> QED
    BY <2>1, <2>2, <2>4 DEF AppendEntry
<1>9. ASSUME NEW x \in Nodes, NEW i \in 1 .. Len(o[x])
      PROVE  MailOk(H, A, x, o[x][i])' /\ o[x][i].type = "AppendEntry"
  <2>1. Len(<<>>) = 0 /\ Len(<<out[x]>>) = 1 /\ <<out[x]>>[1] = out[x]
    OBVIOUS
  <2>2. x \in S
    BY <1>7, <1>9, <2>1
  <2>3. PICK msg : msg = out[x]
    OBVIOUS
  <2>4. o[x][i] = msg
    <3>1. o[x] = <<out[x]>>
      BY <1>7, <2>2
    <3> QED
      BY <1>9, <2>1, <2>3, <3>1
  <2>5. MailOk(H, A, x, msg)' /\ msg.type = "AppendEntry"
    BY <1>8, <2>2, <2>3
  <2> QED
    BY <2>4, <2>5
<1>10. ASSUME NEW k \in Nodes, NEW x \in Nodes, NEW w \in Terms
       PROVE  /\ Only(o[k], Answers(x, w)) = <<>>
              /\ \/ Only(o[x], Probes(k, w)) = <<>>
                 \/ /\ term[k] = w /\ pending[k][x] # None
                    /\ \E e \in Probes(k, w) : Only(o[x], Probes(k, w)) = <<e>> /\ e.entry.index = Goal(k, x)
  <2>1. Only(o[k], Answers(x, w)) = <<>>
    <3>1. o[k] \in Seq(Message) /\ Len(o[k]) \in Nat
      OBVIOUS
    <3>2. \A i \in 1 .. Len(o[k]) : o[k][i] \notin Answers(x, w)
      BY <1>9 DEF Answers
    <3> QED
      BY <3>1, <3>2, OnlyNone
  <2>2. CASE x \notin S
    BY <1>7, <2>1, <2>2, OnlyEmpty
  <2>3. CASE x \in S /\ out[x] \notin Probes(k, w)
    <3>1. Only(<<out[x]>>, Probes(k, w)) = <<>> /\ o[x] = <<out[x]>>
      BY <1>7, <2>3, OnlyOne
    <3> QED
      BY <2>1, <3>1
  <2>4. CASE x \in S /\ out[x] \in Probes(k, w)
    <3>1. PICK msg \in Message : msg = out[x] /\ msg = AppendEntry(n, pending[n][x])
      BY <1>5
    <3>2. /\ msg.src = n /\ msg.term = u /\ msg.entry = pending[n][x]
          /\ msg.src = k /\ msg.term = w /\ msg.entry # None
      BY <1>4, <2>4, <3>1 DEF AppendEntry, Probes
    <3>3. k = n /\ w = u /\ pending[k][x] # None
      BY <3>2
    <3>4. msg.entry.index = Goal(k, x)
      BY <3>2, <3>3 DEF Goal
    <3>5. Only(o[x], Probes(k, w)) = <<msg>> /\ msg \in Probes(k, w)
      <4>1. Only(<<msg>>, Probes(k, w)) = <<msg>> /\ o[x] = <<msg>>
        BY <1>7, <2>4, <3>1, OnlyOne
      <4> QED
        BY <2>4, <3>1, <4>1
    <3> QED
      BY <1>4, <2>1, <3>3, <3>4, <3>5
  <2> QED
    BY <2>2, <2>3, <2>4
<1>11. Calm(n, FALSE, o)
  <2>1. Moved /\ Waiting
    BY <1>2, <1>3, StillMoved DEF Waiting
  <2>2. \A k, x \in Nodes, w \in Terms : ~Took(n, FALSE, k, Answers(x, w))
    BY DEF Took
  <2>3. UNCHANGED <<nodes, acks, pending>>
    BY <1>3
  <2>4. \A k, x \in Nodes, w \in Terms :
          /\ Only(o[k], Answers(x, w)) = <<>>
          /\ <<k, w>> \in elected /\ term'[k] = w => ~Took(n, FALSE, k, Answers(x, w))
          /\ \/ Only(o[x], Probes(k, w)) = <<>>
             \/ /\ term[k] = w /\ pending[k][x] # None
                /\ \E e \in Probes(k, w) : Only(o[x], Probes(k, w)) = <<e>> /\ e.entry.index = Goal(k, x)
    BY <1>10, <2>2
  <2>5. Mailed(n, FALSE, o)
    BY <1>7
  <2> QED
    BY <2>1, <2>3, <2>4, <2>5 DEF Calm, Waiting
<1>12. LogInv(v, H, A)'
  BY <1>2, <1>3, <1>9, <1>11, CalmUnchanged
<1> QED
  BY <1>1, <1>12
-----------------------------------------------------------------------------
(* Elections. *)

\* The vote of n for c, who votes for itself.
LEMMA CastSelf ==
  ASSUME NEW v \in Ballots, NEW w \in Ballots, NEW n \in Nodes, NEW c \in Nodes, NEW t \in Terms,
         v[n][t] = None, Cast(v, w, n, c, t), SelfVoted(v), c = n \/ v[c][t] = c
  PROVE  SelfVoted(w)
<1>0. \A x \in Nodes, u \in Terms : v[x][u] \in Nodes \cup {None} /\ w[x][u] \in Nodes \cup {None}
  BY DEF Ballots
<1>1. ASSUME NEW x \in Nodes, NEW u \in Terms, w[x][u] # None
      PROVE  w[w[x][u]][u] = w[x][u]
  <2>1. CASE x = n /\ u = t
    BY <2>1 DEF Cast
  <2>2. CASE x # n \/ u # t
    <3>1. PICK d \in Nodes : d = w[x][u] /\ d = v[x][u]
      BY <1>0, <1>1, <2>2 DEF Cast
    <3>2. v[d][u] = d
      BY <1>1, <3>1 DEF SelfVoted
    <3>3. ~(d = n /\ u = t)
      BY <3>2, NodesAssumption
    <3> QED
      BY <3>1, <3>2, <3>3 DEF Cast
  <2> QED
    BY <2>1, <2>2
<1> QED
  BY <1>1 DEF SelfVoted

\* With a vote more, only the new voter is to be looked at.
LEMMA BackedCast ==
  ASSUME NEW v \in Ballots, NEW w \in Ballots, NEW n \in Nodes, NEW c \in Nodes, NEW t \in Terms,
         v[n][t] = None, Cast(v, w, n, c, t), SelfVoted(v), NEW H, NEW A, Backed(v, H, A)',
         role'[c] = "Candidate" /\ term'[c] = t =>
           \A u \in Terms : u < t => \A k \in 1 .. A[n][u] :
             H[u][k].term = u => Lost(A, u, k)' \/ Same(log'[c], H[u], k)
  PROVE  Backed(w, H, A)'
<1>1. ASSUME NEW d \in Nodes, NEW x \in Nodes, NEW u \in Terms,
             role'[d] = "Candidate", term'[d] = u, w[d][u] = d, w[x][u] = d,
             NEW s \in Terms, s < u, NEW k \in 1 .. A[x][s], H[s][k].term = s
      PROVE  Lost(A, s, k)' \/ Same(log'[d], H[s], k)
  <2>1. CASE x = n /\ u = t
    <3>1. d = c
      BY <1>1, <2>1 DEF Cast
    <3> QED
      BY <1>1, <2>1, <3>1
  <2>2. CASE x # n \/ u # t
    <3>1. v[x][u] = d
      BY <1>1, <2>2 DEF Cast
    <3>2. v[d][u] = d
      BY <3>1, NodesAssumption DEF SelfVoted
    <3> QED
      BY <1>1, <3>1, <3>2 DEF Backed
  <2> QED
    BY <2>1, <2>2
<1> QED
  BY <1>1 DEF Backed

\* A log that is not ahead of another has nothing the other lacks but what is lost.
LEMMA VoterBehind ==
  ASSUME TypeInv, NEW H \in Books, NEW A \in Counts, Core(H, A), NEW n \in Nodes, NEW c \in Nodes,
         NotAhead(log[n], LatestTerm(log[c]), Len(log[c])),
         NEW t \in Terms, NEW k \in 1 .. A[n][t], H[t][k].term = t
  PROVE  Lost(A, t, k) \/ Same(log[c], H[t], k)
<1>0. /\ Kept(H, A) /\ Logs(H, A) /\ Bound(H) /\ Complete(H, A) /\ Leaders(H, A)
      /\ k \in Nat /\ t \in Nat /\ k > 0 /\ t > 0
  BY AtHand, BookAtHand DEF Core, Terms
<1> SUFFICES ASSUME ~Lost(A, t, k) PROVE Same(log[c], H[t], k)
  OBVIOUS
<1>1. Same(log[n], H[t], k)
  BY <1>0 DEF Kept
<1>2. PICK l \in Nat : l = Len(log[n])
  BY AtHand
<1>3. k \in 1 .. l /\ log[n][k].term = t
  BY <1>0, <1>1, <1>2 DEF Same
<1>4. PICK p \in Nat : p = LatestTerm(log[n]) /\ t <= p
  <2>1. l \in 1 .. Len(log[n])
    BY <1>2, <1>3
  <2>2. log[n][k].term <= log[n][l].term
    BY <1>0, <1>2, <1>3, <2>1, LogRises
  <2>3. LatestTerm(log[n]) = log[n][l].term
    BY <1>2, <2>1 DEF LatestTerm, PrevTerm
  <2>4. log[n][l].term \in Nat
    BY <2>1, AtHand
  <2> QED
    BY <1>3, <2>2, <2>3, <2>4
<1>5. PICK m \in Nat : m = Len(log[c])
  BY AtHand
<1>6. PICK q \in Nat : q = LatestTerm(log[c])
  <2>1. LatestTerm(log[c]) \in 0 .. MaxTerm
    BY <1>5, AtHand, PrevTermType DEF LatestTerm
  <2> QED
    BY <2>1, AtHand
<1>7. p < q \/ (p = q /\ l <= m)
  BY <1>2, <1>4, <1>5, <1>6 DEF NotAhead
<1>8. t <= q /\ q > 0
  BY <1>0, <1>4, <1>7
<1>9. m \in 1 .. Len(log[c]) /\ log[c][m].term = q /\ q \in Terms
  <2>1. m \in 1 .. m /\ q = log[c][m].term
    BY <1>5, <1>6, <1>8 DEF LatestTerm, PrevTerm
  <2> QED
    BY <1>5, <2>1, AtHand
<1>10. Same(log[c], H[q], m)
  BY <1>0, <1>9 DEF Logs
<1>11. CASE q = t
  <2>1. k <= m
    BY <1>3, <1>4, <1>7, <1>11
  <2>2. Len(H[q]) \in Nat /\ Len(log[c]) \in Nat
    BY <1>9, AtHand, BookAtHand
  <2> QED
    BY <1>0, <1>10, <1>11, <2>1, <2>2, SameLess
<1>12. CASE q # t
  <2>1. t < q
    BY <1>0, <1>8, <1>12
  <2>2. m <= Len(H[q]) /\ H[q][m] = log[c][m] /\ Len(H[q]) \in Nat
    BY <1>5, <1>9, <1>10, BookAtHand DEF Same
  <2>3. Won(q)
    <3>1. H[q] # <<>>
      BY <1>9, <2>2
    <3> QED
      BY <1>0, <1>9, <3>1 DEF Leaders
  <2>4. k \in 1 .. Len(H[t])
    BY <1>0, <1>1, BookAtHand DEF Same
  <2>5. Same(H[q], H[t], k)
    BY <1>0, <1>9, <2>1, <2>3, <2>4 DEF Complete
  <2>6. k <= m
    <3> SUFFICES ASSUME k > m PROVE FALSE
      BY <1>0
    <3>1. k \in 1 .. Len(H[q]) /\ m \in 1 .. k
      BY <1>0, <1>9, <2>2, <2>5 DEF Same
    <3>2. H[q][m].term <= H[q][k].term
      BY <1>0, <1>9, <3>1 DEF Bound
    <3>3. H[q][k].term = t /\ H[q][m].term = q
      BY <1>9, <2>2, <2>5, <3>1 DEF Same
    <3> QED
      BY <1>0, <2>1, <3>2, <3>3
  <2>7. Same(log[c], H[q], k)
    BY <1>0, <1>5, <1>10, <2>2, <2>6, SameLess
  <2> QED
    BY <2>5, <2>7, SameTwice
<1> QED
  BY <1>11, <1>12

\* An office that stands for election has voted for itself only, and has all it took over itself.
LEMMA ElectionLog ==
  ASSUME NEW v \in Ballots, Explained(v), NEW H \in Books, NEW A \in Counts, LogInv(v, H, A),
         NEW n \in Nodes, Election(n)
  PROVE  \E w \in Ballots : Explained(w)' /\ LogInv(w, H, A)'
<1>1. PICK w \in Ballots : Explained(w)' /\ Cast(v, w, n, n, term'[n])
  BY ElectionInd
<1>2. /\ TypeInv /\ TypeInv' /\ Core(H, A) /\ Files(H, A) /\ Accepts
      /\ SelfVoted(v) /\ Backed(v, H, A) /\ Explains(v)
  BY <1>1 DEF Explained, LogInv
<1>3. PICK t \in Terms : t = term[n] + 1
  BY <1>2, BoundsAssumption DEF Election, TypeInv, ElectionType, Terms
<1>4. /\ role[n] # "Leader" /\ term'[n] = t /\ role'[n] = "Candidate"
      /\ \A y \in Nodes : y # n => role'[y] = role[y] /\ term'[y] = term[y]
      /\ UNCHANGED <<nodes, elected, log, acks, pending_cmds, applied, pending>>
  BY <1>2, <1>3 DEF Election, setupVars, logVars, TypeInv, ElectionType
<1>5. term[n] \in Nat /\ t \in Nat /\ term[n] < t
  BY <1>2, <1>3, AtHand
<1>6. v[n][t] = None
  <2>1. v[n][t] # None => term[n] >= t
    BY <1>2 DEF Explains
  <2> QED
    BY <1>5, <2>1
<1>7. Moved /\ Waiting
  <2>1. \A y \in Nodes : term[y] \in Nat /\ role[y] # "Panicked"
    BY <1>2, AtHand DEF Core, Leaders
  <2>2. ASSUME NEW y \in Nodes
        PROVE  /\ term[y] <= term'[y]
               /\ role'[y] # "Panicked"
               /\ term'[y] = term[y] => (role'[y] = "Leader" <=> role[y] = "Leader")
               /\ term'[y] # term[y] => role'[y] # "Leader"
               /\ role'[y] = "Candidate" => term'[y] # term[y] \/ role[y] = "Candidate"
    <3>1. CASE y = n
      BY <1>4, <1>5, <3>1
    <3>2. CASE y # n
      BY <1>4, <2>1, <3>2
    <3> QED
      BY <3>1, <3>2
  <2> QED
    BY <1>4, <2>2 DEF Moved, Waiting
<1>8. PICK msg \in Message : msg = RequestVote(n, t)
  BY <1>2, Broadcasts
<1>9. PICK out \in [Nodes -> Message] : \A x \in Nodes : out[x] = msg
  <2>1. [x \in Nodes |-> msg] \in [Nodes -> Message]
    OBVIOUS
  <2> QED
    BY <2>1
<1>s. PICK S \in SUBSET Nodes : S = {m \in Nodes : m \in nodes[n] /\ Reaches(n, m)}
  OBVIOUS
<1>10. Posts(S, out)
  BY <1>3, <1>8, <1>9, <1>s DEF Election, Posts
<1>11. msg.type = "RequestVote" /\ \A x \in Nodes : MailOk(H, A, x, msg)'
  <2>1. /\ msg.type = "RequestVote" /\ msg.src = n
        /\ msg.latest_term = LatestTerm(log[n]) /\ msg.len = Len(log[n])
    BY <1>8 DEF RequestVote
  <2> QED
    BY <1>4, <2>1 DEF MailOk
<1>12. /\ \A x \in S : out[x].type \notin {"AppendEntry", "AppendEntryResponse"} /\ MailOk(H, A, x, out[x])'
       /\ \A x \in S : out[x].type # "Accept"
  BY <1>9, <1>11
<1>13. PICK o \in [Nodes -> Seq(Message)] :
         /\ Calm(n, FALSE, o) /\ Sound(o, H, A)
         /\ \A x \in Nodes : \A i \in 1 .. Len(o[x]) : MailOk(H, A, x, o[x][i])'
  <2>1. UNCHANGED <<nodes, acks, pending>>
    BY <1>4
  <2> QED
    BY <1>2, <1>7, <1>10, <1>12, <2>1, CalmPosted
<1>14. /\ Core(H, A)' /\ Acked(A)' /\ Mail(H, A)' /\ Chains(H, A)' /\ Noted' /\ Telling(A)' /\ Setting(H)'
       /\ Grown(H, A, H, A)
  BY <1>2, <1>13, CalmLog
<1>15. Files(H, A)'
  BY <1>2, <1>4, <1>14, FilesUnchanged
<1>16. Accepts'
  <2>1. Mailed(n, FALSE, o)
    BY <1>13 DEF Calm
  <2> QED
    BY <1>2, <1>4, <1>13, <2>1, AcceptsStay DEF Sound
<1>17. SelfVoted(w)'
  <2>1. SelfVoted(w)
    BY <1>1, <1>2, <1>4, <1>6, CastSelf
  <2> QED
    BY <2>1 DEF SelfVoted
<1>18. Backed(v, H, A)'
  <2>1. \A c \in Nodes : role'[c] = "Candidate" =>
          \/ role[c] = "Candidate" /\ term'[c] = term[c] /\ log'[c] = log[c]
          \/ \A u \in Terms : term'[c] = u => v[c][u] # c
    BY <1>4, <1>6, NodesAssumption
  <2> QED
    BY <1>2, <1>14, <2>1, BackedStays
<1>19. Backed(w, H, A)'
  <2>1. \A u \in Terms : u < t => \A k \in 1 .. A[n][u] :
          H[u][k].term = u => Lost(A, u, k)' \/ Same(log'[n], H[u], k)
    BY <1>14 DEF Core, Kept
  <2> QED
    BY <1>1, <1>2, <1>4, <1>6, <1>18, <2>1, BackedCast
<1> QED
  BY <1>1, <1>14, <1>15, <1>16, <1>17, <1>19 DEF LogInv
\* A request for a vote, with the vote or without: no leader takes a higher term from it, or it
\* strays.
LEMMA HandleRequestVoteLog ==
  ASSUME NEW v \in Ballots, Explained(v), NEW H \in Books, NEW A \in Counts, LogInv(v, H, A),
         NEW n \in Nodes, HandleRequestVote(n), ~strayed'
  PROVE  \E w \in Ballots : Explained(w)' /\ LogInv(w, H, A)'
<1>m. PICK msg : msg = Head(inbox[n])
  OBVIOUS
<1>g. PICK grant \in BOOLEAN : grant <=> (Willing(n, msg) /\ Reaches(n, msg.src))
  BY DEF Reaches
<1>1. PICK w \in Ballots :
        /\ Explained(w)'
        /\ IF grant THEN Cast(v, w, n, msg.src, msg.term) ELSE w = v
  BY <1>m, <1>g, HandleRequestVoteInd
<1>2. /\ TypeInv /\ TypeInv' /\ Core(H, A) /\ Files(H, A) /\ Accepts /\ Mail(H, A)
      /\ SelfVoted(v) /\ Backed(v, H, A) /\ Explains(v)
  BY <1>1 DEF Explained, LogInv
<1>3. /\ inbox[n] # <<>> /\ msg \in Message /\ msg.type = "RequestVote" /\ MailOk(H, A, n, msg)
      /\ v[msg.src][msg.term] = msg.src
  BY <1>2, <1>m, FirstMail DEF HandleRequestVote, Received
<1>4. PICK c \in Nodes, t \in Terms : c = msg.src /\ t = msg.term
  BY <1>3, Carries
<1>5. PICK out : out = To(c, IF grant THEN <<Vote(t)>> ELSE <<>>)
  OBVIOUS
<1>6. /\ Willing(n, msg) => c \in nodes[n]
      /\ Deliver(n, out)
      /\ term' = [term EXCEPT ![n] = Max({@, t})]
      /\ role' = IF grant THEN [role EXCEPT ![n] = "Follower"] ELSE role
      /\ strayed' = (strayed \/ (term[n] < t /\ role'[n] = "Leader"))
      /\ UNCHANGED <<nodes, elected, log, acks, pending_cmds, applied, pending>>
  BY <1>m, <1>g, <1>4, <1>5 DEF HandleRequestVote, setupVars, logVars
<1>7. term[n] \in Nat /\ t \in Nat /\ (grant => term[n] < t)
  BY <1>2, <1>4, <1>g, AtHand DEF Willing, Unseen
<1>8. /\ term'[n] = IF term[n] < t THEN t ELSE term[n]
      /\ role'[n] = IF grant THEN "Follower" ELSE role[n]
      /\ \A y \in Nodes : y # n => role'[y] = role[y] /\ term'[y] = term[y]
  <2>1. term \in [Nodes -> 0 .. MaxTerm] /\ role \in [Nodes -> Roles]
    BY <1>2 DEF TypeInv, ElectionType
  <2>2. term'[n] = Max({term[n], t}) /\ \A y \in Nodes : y # n => term'[y] = term[y]
    BY <1>6, <2>1
  <2>3. Max({term[n], t}) = IF term[n] < t THEN t ELSE term[n]
    BY <1>7, LaterTerm
  <2>4. role'[n] = (IF grant THEN "Follower" ELSE role[n]) /\ \A y \in Nodes : y # n => role'[y] = role[y]
    BY <1>6, <2>1
  <2> QED
    BY <2>2, <2>3, <2>4
<1>9. term[n] < t => role'[n] # "Leader"
  BY <1>6
<1>10. Moved /\ Waiting
  <2>1. \A y \in Nodes : term[y] \in Nat /\ role[y] # "Panicked"
    BY <1>2, AtHand DEF Core, Leaders
  <2>2. ASSUME NEW y \in Nodes
        PROVE  /\ term[y] <= term'[y]
               /\ role'[y] # "Panicked"
               /\ term'[y] = term[y] => (role'[y] = "Leader" <=> role[y] = "Leader")
               /\ term'[y] # term[y] => role'[y] # "Leader"
               /\ role'[y] = "Candidate" => term'[y] # term[y] \/ role[y] = "Candidate"
    <3>1. CASE y = n
      BY <1>7, <1>8, <1>9, <2>1, <3>1
    <3>2. CASE y # n
      BY <1>8, <2>1, <3>2
    <3> QED
      BY <3>1, <3>2
  <2> QED
    BY <1>6, <2>2 DEF Moved, Waiting
<1>11. out \in [Nodes -> Seq(Message)] /\ Light(out, H, A)
  <2>1. PICK e \in Message : e = Vote(t) /\ e.type = "Vote"
    BY Kinds
  <2>2. <<e>> \in Seq(Message) /\ <<>> \in Seq(Message) /\ Len(<<>>) = 0 /\ Len(<<e>>) = 1 /\ <<e>>[1] = e
    OBVIOUS
  <2>3. \A x \in Nodes : out[x] = <<>> \/ out[x] = <<e>>
    BY <1>5, <2>1 DEF To
  <2>4. out \in [Nodes -> Seq(Message)]
    BY <1>5, <2>1, <2>2 DEF To
  <2>5. \A x \in Nodes : \A i \in 1 .. Len(out[x]) : out[x][i] = e
    BY <2>2, <2>3
  <2>6. \A x \in Nodes : MailOk(H, A, x, e)'
    BY <2>1, MailPlain
  <2> QED
    BY <2>1, <2>4, <2>5, <2>6 DEF Light
<1>12. PICK o \in [Nodes -> Seq(Message)] : Calm(n, TRUE, o) /\ Sound(o, H, A)
  <2>1. Head(inbox[n]).type # "AppendEntryResponse"
    BY <1>m, <1>3
  <2> QED
    BY <1>2, <1>3, <1>6, <1>10, <1>11, <2>1, CalmDelivered
<1>13. v[n][t] # None => term[n] >= t
  BY <1>2 DEF Explains
<1>14. CASE ~grant
  <2>1. w = v
    BY <1>1, <1>14
  <2>2. \A d \in Nodes : role'[d] = "Candidate" =>
          \/ role[d] = "Candidate" /\ term'[d] = term[d]
          \/ \A u \in Terms : term'[d] = u => v[d][u] # d
    BY <1>7, <1>8, <1>13, <1>14, NodesAssumption
  <2>3. LogInv(v, H, A)'
    BY <1>2, <1>6, <1>12, <2>2, CalmUnchanged DEF Sound
  <2> QED
    BY <1>1, <2>1, <2>3
<1>15. CASE grant
  <2>1. Cast(v, w, n, c, t) /\ v[n][t] = None /\ v[c][t] = c /\ c # n
    <3>1. Cast(v, w, n, c, t) /\ v[c][t] = c
      BY <1>1, <1>3, <1>4, <1>15
    <3>2. v[n][t] = None
      BY <1>7, <1>13, <1>15
    <3> QED
      BY <3>1, <3>2, NodesAssumption
  <2>2. /\ Core(H, A)' /\ Acked(A)' /\ Mail(H, A)' /\ Chains(H, A)' /\ Noted' /\ Telling(A)' /\ Setting(H)'
        /\ Grown(H, A, H, A)
    BY <1>2, <1>12, CalmLog DEF Sound
  <2>3. Files(H, A)'
    BY <1>2, <1>6, <2>2, FilesUnchanged
  <2>4. Accepts'
    <3>1. Mailed(n, TRUE, o)
      BY <1>12 DEF Calm
    <3> QED
      BY <1>2, <1>3, <1>6, <1>12, <3>1, AcceptsStay DEF Sound
  <2>5. SelfVoted(w)'
    <3>1. SelfVoted(w)
      BY <1>2, <2>1, CastSelf
    <3> QED
      BY <3>1 DEF SelfVoted
  <2>6. Backed(v, H, A)'
    <3>1. \A d \in Nodes : role'[d] = "Candidate" =>
            \/ role[d] = "Candidate" /\ term'[d] = term[d] /\ log'[d] = log[d]
            \/ \A u \in Terms : term'[d] = u => v[d][u] # d
      BY <1>6, <1>8, <1>15
    <3> QED
      BY <1>2, <2>2, <3>1, BackedStays
  <2>7. ASSUME role'[c] = "Candidate", term'[c] = t,
               NEW u \in Terms, u < t, NEW k \in 1 .. A[n][u], H[u][k].term = u
        PROVE  Lost(A, u, k)' \/ Same(log'[c], H[u], k)
    <3>1. role[c] = "Candidate" /\ term[c] = t
      BY <1>8, <2>1, <2>7
    <3>2. msg.latest_term = LatestTerm(log[c]) /\ msg.len = Len(log[c])
      BY <1>3, <1>4, <3>1 DEF MailOk
    <3>3. NotAhead(log[n], LatestTerm(log[c]), Len(log[c]))
      BY <1>g, <1>15, <3>2 DEF Willing
    <3>4. Lost(A, u, k) \/ Same(log[c], H[u], k)
      BY <1>2, <2>7, <3>3, VoterBehind
    <3>5. k \in Nat
      BY BookAtHand
    <3>6. Lost(A, u, k) => Lost(A, u, k)'
      BY <1>2, <2>2, <3>5, LostStays
    <3> QED
      BY <1>6, <3>4, <3>6
  <2>8. Backed(w, H, A)'
    BY <2>1, <1>2, <2>6, <2>7, BackedCast
  <2> QED
    BY <1>1, <2>2, <2>3, <2>4, <2>5, <2>8 DEF LogInv
<1> QED
  BY <1>14, <1>15
-----------------------------------------------------------------------------
\* One more office to send to: not all are connected yet, so there is nothing to send.
LEMMA AcceptLog ==
  ASSUME NEW v \in Ballots, Explained(v), NEW H \in Books, NEW A \in Counts, LogInv(v, H, A),
         NEW n \in Nodes, Accept(n)
  PROVE  Explained(v)' /\ LogInv(v, H, A)'
<1>1. Explained(v)'
  BY AcceptInd
<1>2. /\ TypeInv /\ TypeInv' /\ Core(H, A) /\ Files(H, A) /\ Accepts /\ Mail(H, A) /\ Chains(H, A)
      /\ SelfVoted(v) /\ Backed(v, H, A) /\ Explains(v) /\ Noted /\ Telling(A) /\ Setting(H)
  BY <1>1 DEF Explained, LogInv
<1>3. PICK msg \in Message : msg = Head(inbox[n]) /\ msg = inbox[n][1] /\ msg.type = "Accept" /\ inbox[n] # <<>>
  BY <1>2, FirstInInbox DEF Accept
<1>4. PICK m \in Nodes : m = msg.src
  BY <1>3, Carries
<1>5. PICK l \in Nat : l = Len(inbox[n]) /\ 1 \in 1 .. l /\ inbox[n] \in Seq(Message)
  <2>1. inbox[n] \in Seq(Message)
    BY <1>2, AtHand
  <2> QED
    BY <1>3, <2>1
<1>6. /\ nodes' = [nodes EXCEPT ![n] = @ \cup {m}]
      /\ pending' = [pending EXCEPT ![n][m] = None]
      /\ Deliver(n, To(n, <<>>))
      /\ UNCHANGED <<role, term, elected, log, acks, pending_cmds, applied>>
  BY <1>3, <1>4 DEF Accept, electionVars
<1>7. m \notin nodes[n] /\ m \in Others(n)
  <2>1. m \notin nodes[n]
    BY <1>2, <1>3, <1>4, <1>5 DEF Accepts
  <2>2. m \in told[n]
    BY <1>2, <1>3, <1>4, <1>5 DEF TypeInv, NetType
  <2> QED
    BY <1>2, <2>1, <2>2 DEF TypeInv, SetupType
<1>8. ~SetUp
  BY <1>7 DEF SetUp
<1>9. /\ \A k \in Nodes : log[k] = <<>> /\ pending_cmds[k] = <<>>
      /\ \A t \in Terms : H[t] = <<>>
  BY <1>2, <1>8 DEF Setting
<1>10. PICK o \in [Nodes -> Seq(Message)] :
         /\ Mailed(n, TRUE, o)
         /\ \A x \in Nodes : Len(o[x]) = 0
         /\ \A k, x \in Nodes, u \in Terms : Only(o[k], Answers(x, u)) = <<>> /\ Only(o[x], Probes(k, u)) = <<>>
  <2>1. PICK out \in [Nodes -> Seq(Message)] : out = To(n, <<>>) /\ \A x \in Nodes : Len(out[x]) = 0
    BY ToNobody
  <2>2. \A x \in Nodes : \A i \in 1 .. Len(out[x]) :
          out[x][i].type \notin {"AppendEntry", "AppendEntryResponse", "Accept"}
    BY <2>1
  <2>3. PICK o \in [Nodes -> Seq(Message)] :
          /\ Mailed(n, TRUE, o)
          /\ \A x \in Nodes : o[x] = <<>> \/ o[x] = out[x]
          /\ \A x \in Nodes : \A i \in 1 .. Len(o[x]) : o[x][i].type # "Accept"
          /\ \A k, x \in Nodes, u \in Terms :
               Only(o[k], Answers(x, u)) = <<>> /\ Only(o[x], Probes(k, u)) = <<>>
    BY <1>2, <1>3, <1>6, <2>1, <2>2, DeliverPlain
  <2>4. Len(<<>>) = 0
    OBVIOUS
  <2>5. \A x \in Nodes : Len(o[x]) = 0
    BY <2>1, <2>3, <2>4
  <2> QED
    BY <2>3, <2>5
<1>11. Moved
  BY <1>2, <1>6, StillMoved
<1>12. Core(H, A)' /\ Grown(H, A, H, A)
  BY <1>2, <1>11, CoreMoved, NotGrown DEF Moved
<1>13. Files(H, A)' /\ Acked(A)' /\ Setting(H)'
  <2>1. Files(H, A)'
    BY <1>2, <1>6, <1>12, FilesUnchanged
  <2>2. \A k \in Nodes : Len(log'[k]) = 0 /\ log'[k] = <<>> /\ pending_cmds'[k] = <<>>
    BY <1>6, <1>9
  <2>3. Acked(A)'
    BY <2>2 DEF Acked
  <2> QED
    BY <1>9, <2>1, <2>2, <2>3 DEF Setting
<1>14. SelfVoted(v)' /\ Backed(v, H, A)'
  <2>1. \A c \in Nodes : role'[c] = "Candidate" => role[c] = "Candidate" /\ term'[c] = term[c] /\ log'[c] = log[c]
    BY <1>6
  <2>2. Backed(v, H, A)'
    BY <1>2, <1>12, <2>1, BackedStays
  <2> QED
    BY <1>2, <2>2 DEF SelfVoted
<1>15. Mail(H, A)'
  <2>1. \A y \in Nodes : role'[y] = "Candidate" =>
          \/ role[y] = "Candidate" /\ term'[y] = term[y] /\ log'[y] = log[y]
          \/ term'[y] # term[y]
    BY <1>6
  <2>2. \A x \in Nodes : \A i \in 1 .. Len(o[x]) : MailOk(H, A, x, o[x][i])'
    BY <1>10
  <2> QED
    BY <1>2, <1>3, <1>8, <1>10, <1>12, <2>1, <2>2, MailStep
<1>16. /\ \A k, x \in Nodes : pending'[k][x] = IF k = n /\ x = m THEN None ELSE pending[k][x]
       /\ pending'[n][m] = None
  BY <1>2, <1>6 DEF TypeInv, LogType
<1>17. \A x \in Nodes, t \in Terms : Len(H[t]) = 0 /\ A[x][t] = 0
  <2>1. \A t \in Terms : Len(H[t]) = 0
    BY <1>9
  <2>2. \A x \in Nodes, t \in Terms : A[x][t] \in Nat /\ A[x][t] <= Len(H[t])
    BY <1>2, BookAtHand DEF Core, Held
  <2> QED
    BY <2>1, <2>2
<1>18. Chains(H, A)'
  <2> SUFFICES ASSUME NEW k \in Nodes, NEW x \in Nodes, NEW u \in Terms,
                      <<k, u>> \in elected', x # k, term'[x] <= u
               PROVE  ChainAt(H, A, k, x, u)'
    BY DEF Chains
  <2>1. ChainAt(H, A, k, x, u) /\ <<k, u>> \in elected
    BY <1>2, <1>6 DEF Chains
  <2>2. Steady(H, A, H, A, x, u)
    BY <1>6, <1>17 DEF Steady
  <2>3. ASSUME term[k] = u PROVE Goal(k, x)' = Goal(k, x)
    <3>1. Fine(H, A, x, u, Goal(k, x)) /\ Goal(k, x) \in Nat
      BY <1>2, <2>1, <2>3, Pieces DEF ChainAt, Linked
    <3>2. Goal(k, x) = 0
      BY <1>17, <3>1 DEF Fine
    <3>3. CASE k = n /\ x = m
      <4>1. Goal(k, x)' = Len(log'[k])
        BY <1>16, <3>3 DEF Goal
      <4>2. Len(log'[k]) = 0
        BY <1>6, <1>9
      <4> QED
        BY <3>2, <4>1, <4>2
    <3>4. CASE ~(k = n /\ x = m)
      BY <1>6, <1>16, <3>4 DEF Goal
    <3> QED
      BY <3>3, <3>4
  <2>4. ~Took(n, TRUE, k, Answers(x, u))
    BY <1>3 DEF Took, Answers
  <2> QED
    BY <1>2, <1>3, <1>6, <1>10, <1>12, <2>1, <2>2, <2>3, <2>4, ChainQuiet
<1>19. Noted'
  <2> SUFFICES ASSUME NEW k \in Nodes, NEW x \in Nodes, role'[k] = "Leader", pending'[k][x] # None
               PROVE  /\ pending'[k][x].index < Len(log'[k])
                      /\ pending'[k][x] = EntryData(log'[k], pending'[k][x].index)
    BY DEF Noted
  <2>1. pending'[k][x] = pending[k][x] /\ role[k] = "Leader" /\ log'[k] = log[k]
    BY <1>6, <1>16
  <2> QED
    BY <1>2, <2>1 DEF Noted
<1>20. Telling(A)'
  <2> SUFFICES ASSUME NEW k \in Nodes, role'[k] = "Leader"
               PROVE  Untold(A, k)' \/ \A x \in Others(k) : A[x][term'[k]] = 0 => pending'[k][x] # None
    BY DEF Telling, Others
  <2>1. role[k] = "Leader" /\ term'[k] = term[k]
    BY <1>6
  <2>2. PICK u \in Terms : u = term[k]
    BY <1>2, <2>1, AtHand
  <2>3. ASSUME NEW x \in Nodes PROVE pending[k][x] = None /\ A[x][u] = 0
    <3>1. Len(log[k]) = 0
      BY <1>9
    <3>2. pending[k][x] # None => pending[k][x].index \in Nat
      BY <1>2, AtHand DEF Sendable
    <3>3. pending[k][x] # None => pending[k][x].index < Len(log[k])
      BY <1>2, <2>1 DEF Noted
    <3>4. pending[k][x] = None
      BY <3>1, <3>2, <3>3
    <3> QED
      BY <1>17, <3>4
  <2>4. CASE Untold(A, k)
    <3>1. applied'[k] = <<>> /\ Len(log'[k]) = 0
      BY <1>6, <1>9, <2>4 DEF Untold
    <3>2. ASSUME NEW x \in Others(k)
          PROVE  /\ pending'[k][x] = None /\ A[x][term'[k]] = 0
                 /\ Only(inbox'[x], Probes(k, term'[k])) = <<>>
                 /\ Only(inbox'[k], Answers(x, term'[k])) = <<>>
      <4>0. x \in Nodes
        BY DEF Others
      <4>1. Only(inbox[x], Probes(k, u)) = <<>> /\ Only(inbox[k], Answers(x, u)) = <<>>
        BY <2>2, <2>4 DEF Untold
      <4>2. Only(inbox'[x], Probes(k, u)) = <<>> /\ Only(inbox'[k], Answers(x, u)) = <<>>
        BY <1>2, <1>3, <1>10, <4>0, <4>1, StillNone
      <4>3. pending'[k][x] = None /\ A[x][u] = 0
        BY <1>16, <2>3, <4>0
      <4> QED
        BY <2>1, <2>2, <4>2, <4>3
    <3>3. \A x \in Others(k)' : /\ pending'[k][x] = None /\ A[x][term'[k]] = 0
                                /\ Only(inbox'[x], Probes(k, term'[k])) = <<>>
                                /\ Only(inbox'[k], Answers(x, term'[k])) = <<>>
      BY <3>2 DEF Others
    <3> QED
      BY <3>1, <3>3 DEF Untold
  <2>5. CASE ~Untold(A, k)
    <3>1. \A x \in Others(k) : A[x][term[k]] = 0 => pending[k][x] # None
      BY <1>2, <2>1, <2>5 DEF Telling
    <3>2. \A x \in Others(k) : FALSE
      BY <2>2, <2>3, <3>1 DEF Others
    <3> QED
      BY <3>2
  <2> QED
    BY <2>4, <2>5
<1>21. Accepts'
  <2>1. inbox'[n] = Tail(inbox[n]) /\ \A x \in Nodes : x # n => inbox'[x] = inbox[x]
    <3>2. \A x \in Nodes : inbox[x] \o <<>> = inbox[x]
      BY <1>2 DEF TypeInv, NetType
    <3>3. \A x \in Nodes : x # n => inbox'[x] = inbox[x]
      BY <1>6, <3>2 DEF Deliver, To
    <3>4. inbox'[n] = Tail(inbox[n])
      BY <1>6 DEF Deliver
    <3> QED
      BY <3>3, <3>4
  <2>2. Len(inbox'[n]) = l - 1 /\ \A i \in 1 .. l - 1 : inbox'[n][i] = inbox[n][i + 1]
    BY <1>5, <2>1
  <2>3. ASSUME NEW i \in 1 .. l - 1, inbox'[n][i].type = "Accept"
        PROVE  inbox'[n][i].src # m /\ inbox'[n][i].src \notin nodes[n]
    <3>1. PICK j \in 1 .. l : j = i + 1 /\ inbox'[n][i] = inbox[n][j]
      BY <1>5, <2>2
    <3>2. inbox[n][j].src \notin nodes[n]
      BY <1>2, <1>5, <2>3, <3>1 DEF Accepts
    <3>3. inbox[n][j].src = m => 1 = j
      BY <1>2, <1>3, <1>4, <1>5, <2>3, <3>1 DEF Accepts
    <3> QED
      BY <3>1, <3>2, <3>3
  <2>4. ASSUME NEW i \in 1 .. l - 1, NEW j \in 1 .. l - 1, inbox'[n][i].type = "Accept",
               inbox'[n][j].type = "Accept", inbox'[n][j].src = inbox'[n][i].src
        PROVE  i = j
    <3>1. i + 1 \in 1 .. l /\ j + 1 \in 1 .. l
      BY <1>5
    <3>2. inbox'[n][i] = inbox[n][i + 1] /\ inbox'[n][j] = inbox[n][j + 1]
      BY <2>2
    <3>3. i + 1 = j + 1
      BY <1>2, <1>5, <2>4, <3>1, <3>2 DEF Accepts
    <3> QED
      BY <3>3
  <2>5. nodes'[n] = nodes[n] \cup {m} /\ \A x \in Nodes : x # n => nodes'[x] = nodes[x]
    BY <1>2, <1>6 DEF TypeInv, SetupType
  <2>6. ASSUME NEW x \in Nodes, NEW i \in 1 .. Len(inbox'[x]), inbox'[x][i].type = "Accept"
        PROVE  /\ inbox'[x][i].src \notin nodes'[x]
               /\ \A j \in 1 .. Len(inbox'[x]) :
                    inbox'[x][j].type = "Accept" /\ inbox'[x][j].src = inbox'[x][i].src => i = j
    <3>1. CASE x = n
      <4>1. i \in 1 .. l - 1
        BY <2>2, <2>6, <3>1
      <4>2. inbox'[n][i].src \notin nodes'[n]
        BY <2>3, <2>5, <2>6, <3>1, <4>1
      <4> QED
        BY <2>2, <2>4, <2>6, <3>1, <4>1, <4>2
    <3>2. CASE x # n
      BY <1>2, <2>1, <2>5, <2>6, <3>2 DEF Accepts
    <3> QED
      BY <3>1, <3>2
  <2> QED
    BY <2>6 DEF Accepts
<1> QED
  BY <1>1, <1>12, <1>13, <1>14, <1>15, <1>18, <1>19, <1>20, <1>21 DEF LogInv
-----------------------------------------------------------------------------
(* An entry from a leader. *)

\* What an office answers: r, and then perhaps commands.
LEMMA Replied ==
  ASSUME NEW r \in Message, r.type = "AppendEntryResponse",
         NEW f \in Seq(Message), \A i \in 1 .. Len(f) : f[i].type = "Command"
  PROVE  /\ <<r>> \o f \in Seq(Message)
         /\ \A i \in 1 .. Len(<<r>> \o f) : (<<r>> \o f)[i] = r \/ (<<r>> \o f)[i].type = "Command"
         /\ \A x, u : /\ r \in Answers(x, u) => Only(<<r>> \o f, Answers(x, u)) = <<r>>
                      /\ r \notin Answers(x, u) => Only(<<r>> \o f, Answers(x, u)) = <<>>
         /\ \A n, u : Only(<<r>> \o f, Probes(n, u)) = <<>>
<1>1. /\ <<r>> \in Seq(Message) /\ <<r>> \o f \in Seq(Message) /\ Len(<<r>>) = 1 /\ <<r>>[1] = r
      /\ Len(<<r>> \o f) = 1 + Len(f) /\ <<r>> \o <<>> = <<r>> /\ <<>> \o <<>> = <<>> /\ Len(f) \in Nat
  OBVIOUS
<1>2. ASSUME NEW i \in 1 .. Len(<<r>> \o f) PROVE (<<r>> \o f)[i] = r \/ (<<r>> \o f)[i].type = "Command"
  <2>1. CASE i = 1
    BY <1>1, <2>1
  <2>2. CASE i # 1
    <3>1. i > Len(<<r>>)
      BY <1>1, <1>2, <2>2
    <3>2. \E k \in 1 .. Len(f) : (<<r>> \o f)[i] = f[k]
      BY <1>1, <1>2, <3>1, JoinedLater
    <3> QED
      BY <3>2
  <2> QED
    BY <2>1, <2>2
<1>3. ASSUME NEW S, \A i \in 1 .. Len(f) : f[i] \notin S
      PROVE  (r \in S => Only(<<r>> \o f, S) = <<r>>) /\ (r \notin S => Only(<<r>> \o f, S) = <<>>)
  <2>1. Only(f, S) = <<>>
    BY <1>1, <1>3, OnlyNone
  <2>2. Only(<<r>> \o f, S) = Only(<<r>>, S) \o Only(f, S)
    <3>1. \A p, q \in Seq(Message) : Only(p \o q, S) = Only(p, S) \o Only(q, S)
      BY OnlyConcat
    <3> QED
      BY <1>1, <3>1
  <2>3. (r \in S => Only(<<r>>, S) = <<r>>) /\ (r \notin S => Only(<<r>>, S) = <<>>)
    BY OnlyOne
  <2> QED
    BY <1>1, <2>1, <2>2, <2>3
<1>4. ASSUME NEW x, NEW u PROVE \A i \in 1 .. Len(f) : f[i] \notin Answers(x, u)
  BY DEF Answers
<1>5. ASSUME NEW x, NEW u PROVE (\A i \in 1 .. Len(f) : f[i] \notin Probes(x, u)) /\ r \notin Probes(x, u)
  BY DEF Probes
<1> QED
  BY <1>1, <1>2, <1>3, <1>4, <1>5

\* The whole of what an answer to entry a says: it asks for b.
Answered(o, n, l, u, a, ok, b) ==
  /\ \E r \in Answers(n, u) : Only(o[l], Answers(n, u)) = <<r>> /\ NextIndex(r) = b
  /\ \A i \in 1 .. Len(o[l]) :
       \/ o[l][i].type = "Command"
       \/ o[l][i] \in Answers(n, u) /\ o[l][i].index = a /\ o[l][i].success = ok
NotAnswered(o) == \A x \in Nodes : o[x] = <<>>

\* No other answers, and no requests.
Nothing(o, n, l, u) ==
  /\ \A k, x \in Nodes, w \in Terms :
       /\ Only(o[x], Probes(k, w)) = <<>>
       /\ k # l \/ x # n \/ w # u => Only(o[k], Answers(x, w)) = <<>>
  /\ \A x \in Nodes : x # l => o[x] = <<>>
  /\ \A x \in Nodes : \A i \in 1 .. Len(o[x]) : o[x][i].type # "Accept"

\* n enters, or is in, the term u of l, and has taken out its request for the entry a.
Entered(H, n, l, u, a) ==
  /\ l # n /\ <<l, u>> \in elected /\ term[n] <= u /\ (role[n] = "Leader" => term[n] < u)
  /\ inbox[n] # <<>> /\ Head(inbox[n]) \in Probes(l, u) /\ Head(inbox[n]).entry.index \in {a}
  /\ a < Len(H[u]) /\ Head(inbox[n]).entry = EntryData(H[u], a)
  /\ SetUp /\ SetUp'
  /\ role' = [role EXCEPT ![n] = "Follower"] /\ term' = [term EXCEPT ![n] = u]
  /\ role'[n] = "Follower" /\ term'[n] = u
  /\ UNCHANGED <<elected, nodes, pending, applied>>
  /\ \A y \in Nodes : y # n => /\ role'[y] = role[y] /\ term'[y] = term[y]
                               /\ log'[y] = log[y] /\ acks'[y] = acks[y]

\* A request with an entry is one of the leader of its term, whose index is in its book.
LEMMA EnteredFacts ==
  ASSUME MajoritiesMeet, NEW v \in Ballots, Explained(v), NEW H \in Books, NEW A \in Counts, LogInv(v, H, A),
         NEW n \in Nodes, FollowEntry(n)
  PROVE  \E l \in Nodes, u \in Terms, a \in Nat :
           l = Head(inbox[n]).src /\ u = Head(inbox[n]).term /\ Entered(H, n, l, u, a)
<1>m. PICK msg : msg = Head(inbox[n])
  OBVIOUS
<1>0. TypeInv /\ Setting(H)
  BY DEF Explained, LogInv
<1>1. /\ Follow(n, msg) /\ msg.entry # None /\ UNCHANGED applied
      /\ \A y \in Nodes : y # n => log'[y] = log[y] /\ acks'[y] = acks[y]
  <2>1. log \in [Nodes -> Seq(Entries)] /\ acks \in [Nodes -> Seq(SUBSET Nodes)]
    BY <1>0 DEF TypeInv, LogType
  <2> QED
    BY <1>m, <2>1 DEF FollowEntry
<1>2. Followed(n, msg) /\ MailOk(H, A, n, msg)
  BY <1>m, <1>1, FollowFacts
<1>3. PICK l \in Nodes, u \in Terms : l = msg.src /\ u = msg.term
  BY <1>2 DEF Followed
<1>4. msg.entry \in Sendable
  BY <1>1, <1>2 DEF Followed
<1>5. PICK a \in Nat : a = msg.entry.index
  BY <1>4 DEF Sendable
<1>6. a < Len(H[u]) /\ msg.entry = EntryData(H[u], a)
  BY <1>1, <1>2, <1>3, <1>5 DEF MailOk, Followed
<1>7. SetUp /\ SetUp'
  <2>1. H[u] # <<>>
    <3>1. Len(<<>>) = 0
      OBVIOUS
    <3> QED
      BY <1>6, <3>1
  <2>2. SetUp
    BY <1>0, <2>1 DEF Setting
  <2> QED
    BY <1>2, <2>2 DEF SetUp, Others, Followed
<1>8. msg \in Probes(l, u)
  BY <1>1, <1>2, <1>3 DEF Probes, Followed
<1>9. Entered(H, n, l, u, a)
  BY <1>m, <1>1, <1>2, <1>3, <1>5, <1>6, <1>7, <1>8 DEF Entered, Followed
<1> QED
  BY <1>m, <1>3, <1>9

\* What becomes of a request to take over an entry: it is taken over and answered, or refused and
\* answered, or the answer cannot be sent and nothing is changed.
LEMMA EntryOutcome ==
  ASSUME MajoritiesMeet, NEW v \in Ballots, Explained(v), NEW H \in Books, NEW A \in Counts, LogInv(v, H, A),
         NEW n \in Nodes, FollowEntry(n),
         NEW l \in Nodes, NEW u \in Terms, NEW a \in Nat,
         l = Head(inbox[n]).src, u = Head(inbox[n]).term, Entered(H, n, l, u, a)
  PROVE  \E o \in [Nodes -> Seq(Message)] :
           /\ Mailed(n, TRUE, o) /\ Nothing(o, n, l, u)
           /\ \/ /\ Same(log[n], H[u], a) /\ Len(log'[n]) = a + 1 /\ Same(log'[n], H[u], a + 1)
                 /\ Answered(o, n, l, u, a, TRUE, a + 1)
              \/ ~Same(log[n], H[u], a) /\ log' = log /\ Answered(o, n, l, u, a, FALSE, a - 1)
              \/ log' = log /\ NotAnswered(o)
<1>m. PICK msg, e : msg = Head(inbox[n]) /\ e = msg.entry
  OBVIOUS
<1>0. /\ TypeInv /\ Logs(H, A) /\ Bound(H) /\ log[n] \in Seq(Entries) /\ Len(log[n]) \in Nat
      /\ pending_cmds[n] \in Seq(Commands) /\ log \in [Nodes -> Seq(Entries)]
  BY AtHand DEF Explained, LogInv, Core, TypeInv, LogType
<1>1. /\ l # n /\ inbox[n] # <<>> /\ msg \in Probes(l, u) /\ e.index = a /\ a < Len(H[u])
      /\ e = EntryData(H[u], a) /\ l \in nodes[n]
  <2>1. nodes[n] = Others(n)
    BY DEF Entered, SetUp
  <2> QED
    BY <1>m, <2>1 DEF Entered, Others
<1>2. PICK fits \in BOOLEAN : fits = Fits(log[n], e)
  BY DEF Fits
<1>3. /\ fits <=> Same(log[n], H[u], a)
      /\ e.term = H[u][a + 1].term /\ e.cmd = H[u][a + 1].cmd
  BY <1>0, <1>1, <1>2, FitsIsSame
<1>4. PICK r, f : r = AppendEntryResponse(n, u, a, fits) /\ f = Forwarded(n, pending_cmds[n], l)
  OBVIOUS
<1>5. /\ r \in Message /\ r.type = "AppendEntryResponse" /\ r \in Answers(n, u)
      /\ r.src = n /\ r.term = u /\ r.index = a /\ r.success = fits
      /\ NextIndex(r) = IF fits THEN a + 1 ELSE a - 1
  <2>1. fits \/ a > 0
    <3>1. Same(log[n], H[u], 0)
      <4>1. Len(H[u]) \in Nat
        BY BookAtHand
      <4> QED
        BY <1>0, <4>1 DEF Same
    <3> QED
      BY <1>3, <3>1
  <2>2. u \in 0 .. MaxTerm
    BY DEF Terms
  <2>3. r \in Message
    BY <1>4, <2>1, <2>2, Kinds
  <2>4. /\ r.type = "AppendEntryResponse" /\ r.src = n /\ r.term = u /\ r.index = a /\ r.success = fits
    BY <1>4 DEF AppendEntryResponse
  <2> QED
    BY <2>3, <2>4 DEF Answers, NextIndex
<1>6. f \in Seq(Message) /\ \A i \in 1 .. Len(f) : f[i].type = "Command"
  <2>1. /\ To(l, f) \in [Nodes -> Seq(Message)]
        /\ \A x \in Nodes : \A i \in 1 .. Len(To(l, f)[x]) : To(l, f)[x][i].type = "Command"
    BY <1>0, <1>4, ForwardedTo
  <2>2. To(l, f)[l] = f
    BY DEF To
  <2> QED
    BY <2>1, <2>2
<1>7. PICK s, out : s = <<r>> \o f /\ out = To(l, s)
  OBVIOUS
<1>8. /\ s \in Seq(Message)
      /\ \A i \in 1 .. Len(s) : s[i] = r \/ s[i].type = "Command"
      /\ \A x, w : /\ r \in Answers(x, w) => Only(s, Answers(x, w)) = <<r>>
                   /\ r \notin Answers(x, w) => Only(s, Answers(x, w)) = <<>>
      /\ \A k, w : Only(s, Probes(k, w)) = <<>>
  <2>1. /\ <<r>> \o f \in Seq(Message)
        /\ \A i \in 1 .. Len(<<r>> \o f) : (<<r>> \o f)[i] = r \/ (<<r>> \o f)[i].type = "Command"
        /\ \A x, w : /\ r \in Answers(x, w) => Only(<<r>> \o f, Answers(x, w)) = <<r>>
                     /\ r \notin Answers(x, w) => Only(<<r>> \o f, Answers(x, w)) = <<>>
        /\ \A k, w : Only(<<r>> \o f, Probes(k, w)) = <<>>
    <3>1. r \in Message /\ r.type = "AppendEntryResponse"
      BY <1>5
    <3> QED
      BY <1>6, <3>1, Replied
  <2> QED
    BY <1>7, <2>1
<1>9. out \in [Nodes -> Seq(Message)] /\ out[l] = s /\ \A x \in Nodes : x # l => out[x] = <<>>
  BY <1>7, <1>8 DEF To
<1>10. /\ Deliver(n, out)
       /\ log' = IF fits /\ Reaches(n, l)
                 THEN [log EXCEPT ![n] = Append(SubSeq(@, 1, e.index), [term |-> e.term, cmd |-> e.cmd])]
                 ELSE log
  <2>1. Deliver(n, To(msg.src, <<AppendEntryResponse(n, msg.term, e.index, fits)>>
                              \o Forwarded(n, pending_cmds[n], msg.src)))
    BY <1>m, <1>2 DEF FollowEntry
  <2>2. msg.src = l /\ msg.term = u
    BY <1>m
  <2>3. Deliver(n, out)
    BY <1>1, <1>4, <1>7, <2>1, <2>2
  <2>4. log' = IF fits /\ Reaches(n, l)
               THEN [log EXCEPT ![n] = Append(SubSeq(@, 1, e.index), [term |-> e.term, cmd |-> e.cmd])]
               ELSE log
    BY <1>m, <1>2, <2>2 DEF FollowEntry
  <2> QED
    BY <2>3, <2>4
<1>11. PICK o \in [Nodes -> Seq(Message)] :
         /\ Mailed(n, TRUE, o)
         /\ o[l] = IF Reaches(n, l) THEN s ELSE <<>>
         /\ \A x \in Nodes : x # l => o[x] = <<>>
  <2>1. PICK o \in [Nodes -> Seq(Message)] :
          /\ Mailed(n, TRUE, o)
          /\ o = [m \in Nodes |-> IF m # n /\ m \in nodes[n] /\ Reaches(n, m) THEN out[m] ELSE <<>>]
    BY <1>0, <1>1, <1>9, <1>10, DeliverMailed
  <2>2. o[l] = IF Reaches(n, l) THEN s ELSE <<>>
    BY <1>1, <1>9, <2>1
  <2>3. \A x \in Nodes : x # l => o[x] = <<>>
    BY <1>9, <2>1
  <2> QED
    BY <2>1, <2>2, <2>3
<1>12. Nothing(o, n, l, u)
  <2>1. \A S : Only(<<>>, S) = <<>>
    BY OnlyEmpty
  <2>2. ASSUME NEW k \in Nodes, NEW x \in Nodes, NEW w \in Terms
        PROVE  Only(o[x], Probes(k, w)) = <<>>
    BY <1>8, <1>11, <2>1
  <2>3. ASSUME NEW k \in Nodes, NEW x \in Nodes, NEW w \in Terms, k # l \/ x # n \/ w # u
        PROVE  Only(o[k], Answers(x, w)) = <<>>
    <3>1. CASE k # l
      BY <1>11, <2>1, <3>1
    <3>2. CASE k = l /\ (x # n \/ w # u)
      <4>1. r \notin Answers(x, w)
        BY <1>5, <3>2 DEF Answers
      <4>2. Only(s, Answers(x, w)) = <<>>
        BY <1>8, <4>1
      <4> QED
        BY <1>11, <2>1, <3>2, <4>2
    <3> QED
      BY <2>3, <3>1, <3>2
  <2>4. ASSUME NEW x \in Nodes, NEW i \in 1 .. Len(o[x]) PROVE o[x][i].type # "Accept"
    <3>1. Len(<<>>) = 0
      OBVIOUS
    <3>2. x = l /\ o[x] = s
      BY <1>11, <2>4, <3>1
    <3>3. s[i] = r \/ s[i].type = "Command"
      BY <1>8, <2>4, <3>2
    <3> QED
      BY <1>5, <3>2, <3>3
  <2> QED
    BY <1>11, <2>2, <2>3, <2>4 DEF Nothing
<1>13. ASSUME Reaches(n, l), NEW b, NextIndex(r) = b PROVE Answered(o, n, l, u, a, fits, b)
  <2>1. o[l] = s
    BY <1>11, <1>13
  <2>2. Only(s, Answers(n, u)) = <<r>>
    BY <1>5, <1>8
  <2> QED
    BY <1>5, <1>8, <1>13, <2>1, <2>2 DEF Answered
<1>14. CASE ~Reaches(n, l)
  BY <1>10, <1>11, <1>12, <1>14 DEF NotAnswered
<1>15. CASE Reaches(n, l) /\ ~fits
  <2>1. Answered(o, n, l, u, a, fits, a - 1)
    BY <1>5, <1>13, <1>15
  <2>2. fits = FALSE
    BY <1>15
  <2>3. Answered(o, n, l, u, a, FALSE, a - 1)
    BY <2>1, <2>2
  <2> QED
    BY <1>3, <1>10, <1>11, <1>12, <1>15, <2>3
<1>16. CASE Reaches(n, l) /\ fits
  <2>1. Answered(o, n, l, u, a, fits, a + 1)
    BY <1>5, <1>13, <1>16
  <2>2. fits = TRUE
    BY <1>16
  <2>3. Answered(o, n, l, u, a, TRUE, a + 1)
    BY <2>1, <2>2
  <2>4. Same(log[n], H[u], a) /\ a <= Len(log[n])
    BY <1>3, <1>16 DEF Same
  <2>5. PICK d \in Entries : d = [term |-> e.term, cmd |-> e.cmd] /\ d = H[u][a + 1]
    <3>1. a + 1 \in 1 .. Len(H[u]) /\ H[u][a + 1] \in Entries
      BY <1>1, BookAtHand
    <3>2. H[u][a + 1] = [term |-> e.term, cmd |-> e.cmd]
      BY <1>3, <3>1 DEF Entries
    <3> QED
      BY <3>1, <3>2
  <2>6. log'[n] = Append(SubSeq(log[n], 1, a), d)
    <3>1. log' = [log EXCEPT ![n] = Append(SubSeq(@, 1, e.index), [term |-> e.term, cmd |-> e.cmd])]
      BY <1>10, <1>16
    <3>2. log'[n] = Append(SubSeq(log[n], 1, e.index), [term |-> e.term, cmd |-> e.cmd])
      BY <1>0, <3>1
    <3>3. e.index = a /\ d = [term |-> e.term, cmd |-> e.cmd]
      BY <1>1, <2>5
    <3> QED
      BY <3>2, <3>3, Zenon
  <2>7. PICK p \in Seq(Entries) : p = SubSeq(log[n], 1, a) /\ Len(p) = a /\ \A i \in 1 .. a : p[i] = log[n][i]
    <3>1. SubSeq(log[n], 1, a) \in Seq(Entries) /\ Len(SubSeq(log[n], 1, a)) = a
      BY <1>0, <2>4, Piece
    <3>2. \A i \in 1 .. a : SubSeq(log[n], 1, a)[i] = log[n][i]
      BY <1>0, <2>4
    <3> QED
      BY <3>1, <3>2
  <2>8. PICK q : q = Append(p, d)
    OBVIOUS
  <2>9. Len(q) = a + 1 /\ q[a + 1] = d /\ \A i \in 1 .. a : q[i] = p[i]
    BY <2>7, <2>8
  <2>10. Same(q, H[u], a + 1)
    <3>1. a + 1 <= Len(H[u])
      BY <1>1, BookAtHand
    <3>2. \A i \in 1 .. a : q[i] = H[u][i]
      BY <2>4, <2>7, <2>9 DEF Same
    <3>3. \A i \in 1 .. a + 1 : q[i] = H[u][i]
      BY <2>5, <2>9, <3>2
    <3> QED
      BY <2>9, <3>1, <3>3 DEF Same
  <2>11. log'[n] = q
    BY <2>6, <2>7, <2>8
  <2>12. Len(log'[n]) = a + 1 /\ Same(log'[n], H[u], a + 1)
    BY <2>9, <2>10, <2>11
  <2> QED
    BY <1>11, <1>12, <2>3, <2>4, <2>12
<1> QED
  BY <1>14, <1>15, <1>16

\* Only what n took over in term u is counted anew.
Beside(A, A2, n, u) == \A y \in Nodes, t \in Terms : y # n \/ t # u => A2[y][t] = A[y][t]

\* What is sent to l is sound.
SoundTo(o, l, H, A) == \A i \in 1 .. Len(o[l]) : MailOk(H, A, l, o[l][i])'

\* Whatever becomes of the request, it concerns one office, one leader and one term only.
LEMMA EntryDone ==
  ASSUME NEW v \in Ballots, Explained(v), Explained(v)', ElectedOncePerTerm,
         NEW H \in Books, NEW A \in Counts, LogInv(v, H, A), NEW A2 \in Counts,
         NEW n \in Nodes, NEW l \in Nodes, NEW u \in Terms, NEW a \in Nat, Entered(H, n, l, u, a),
         NEW o \in [Nodes -> Seq(Message)], Mailed(n, TRUE, o), Nothing(o, n, l, u),
         Core(H, A2)', Grown(H, A, H, A2), Beside(A, A2, n, u), SoundTo(o, l, H, A2),
         ChainAt(H, A2, l, n, u)', Files(H, A2)'
  PROVE  LogInv(v, H, A2)'
<1>0. /\ \A y \in Nodes, t \in Terms : y # n \/ t # u => A2[y][t] = A[y][t]
      /\ \A i \in 1 .. Len(o[l]) : MailOk(H, A2, l, o[l][i])'
  BY DEF Beside, SoundTo
<1>1. /\ TypeInv /\ TypeInv' /\ Core(H, A) /\ Accepts /\ Mail(H, A) /\ Chains(H, A) /\ Acked(A)
      /\ SelfVoted(v) /\ Backed(v, H, A) /\ Noted /\ Telling(A)
  BY DEF Explained, LogInv
<1>2. /\ l # n /\ <<l, u>> \in elected /\ term[n] <= u /\ inbox[n] # <<>>
      /\ Head(inbox[n]) \in Probes(l, u) /\ SetUp /\ SetUp'
      /\ role'[n] = "Follower" /\ term'[n] = u
      /\ UNCHANGED <<elected, nodes, pending, applied>>
      /\ \A y \in Nodes : y # n => /\ role'[y] = role[y] /\ term'[y] = term[y]
                                   /\ log'[y] = log[y] /\ acks'[y] = acks[y]
  BY DEF Entered
<1>3. ASSUME NEW k \in Nodes, <<k, u>> \in elected PROVE k = l
  BY <1>2, <1>3 DEF ElectedOncePerTerm
<1>4. /\ \A k, x \in Nodes, w \in Terms :
           /\ Only(o[x], Probes(k, w)) = <<>>
           /\ k # l \/ x # n \/ w # u => Only(o[k], Answers(x, w)) = <<>>
      /\ \A x \in Nodes : x # l => o[x] = <<>>
      /\ \A x \in Nodes : \A i \in 1 .. Len(o[x]) : o[x][i].type # "Accept"
  BY DEF Nothing
<1>5. \A y \in Nodes, t \in Terms : A[y][t] \in Nat /\ A2[y][t] \in Nat /\ A[y][t] <= A2[y][t]
  BY BookAtHand DEF Grown
<1>6. Acked(A2)'
  <2> SUFFICES ASSUME NEW k \in Nodes, role'[k] = "Leader",
                      NEW i \in 1 .. Len(log'[k]), log'[k][i].term = term'[k], NEW y \in acks'[k][i]
               PROVE  i <= A2[y][term'[k]]
    BY DEF Acked
  <2>1. k # n
    BY <1>2
  <2>2. role[k] = "Leader" /\ term'[k] = term[k] /\ log'[k] = log[k] /\ acks'[k] = acks[k]
    BY <1>2, <2>1
  <2>3. PICK t \in Terms : t = term[k]
    BY <1>1, <2>2, AtHand
  <2>4. y \in Nodes
    <3>1. acks[k] \in Seq(SUBSET Nodes) /\ Len(acks[k]) = Len(log[k])
      BY <1>1, AtHand
    <3>2. acks[k][i] \in SUBSET Nodes
      BY <2>2, <3>1
    <3> QED
      BY <2>2, <3>2
  <2>5. i <= A[y][t]
    BY <1>1, <2>2, <2>3 DEF Acked
  <2>6. i <= A2[y][t]
    <3>1. PICK p \in Nat, q \in Nat : p = A[y][t] /\ q = A2[y][t] /\ p <= q
      BY <1>5, <2>4
    <3> QED
      BY <2>5, <3>1
  <2> QED
    BY <2>2, <2>3, <2>6
<1>7. SelfVoted(v)' /\ Backed(v, H, A2)'
  <2>1. \A c \in Nodes : role'[c] = "Candidate" => role[c] = "Candidate" /\ term'[c] = term[c] /\ log'[c] = log[c]
    BY <1>2
  <2>2. Backed(v, H, A2)'
    BY <1>1, <2>1, BackedStays
  <2> QED
    BY <1>1, <2>2 DEF SelfVoted
<1>8. Mail(H, A2)'
  <2>1. \A x \in Nodes : \A i \in 1 .. Len(o[x]) : MailOk(H, A2, x, o[x][i])'
    <3>1. Len(<<>>) = 0
      OBVIOUS
    <3> QED
      BY <1>0, <1>4, <3>1
  <2>2. \A y \in Nodes : role'[y] = "Candidate" =>
          \/ role[y] = "Candidate" /\ term'[y] = term[y] /\ log'[y] = log[y]
          \/ term'[y] # term[y]
    BY <1>2
  <2> QED
    BY <1>1, <1>2, <2>1, <2>2, MailStep
<1>9. Chains(H, A2)'
  <2> SUFFICES ASSUME NEW k \in Nodes, NEW x \in Nodes, NEW w \in Terms,
                      <<k, w>> \in elected', x # k, term'[x] <= w
               PROVE  ChainAt(H, A2, k, x, w)'
    BY DEF Chains
  <2>1. CASE x = n /\ w = u
    <3>1. k = l
      BY <1>2, <1>3, <2>1
    <3> QED
      BY <2>1, <3>1
  <2>2. CASE x # n \/ w # u
    <3>1. term[x] \in Nat /\ term'[x] \in Nat /\ w \in Nat /\ u \in Nat /\ term[n] \in Nat
      BY <1>1, AtHand, AtHandNext
    <3>2. ChainAt(H, A, k, x, w)
      <4>1. term[x] <= w
        <5>1. term[x] <= term'[x]
          BY DEF Grown
        <5>2. PICK i \in Nat, j \in Nat : i = term[x] /\ j = term'[x]
          BY <3>1
        <5>3. i <= j /\ j <= w
          BY <5>1, <5>2
        <5>4. w \in Nat
          BY <3>1
        <5>5. i <= w
          BY <5>3, <5>4
        <5> QED
          BY <5>2, <5>5
      <4> QED
        BY <1>1, <1>2, <4>1 DEF Chains
    <3>3. Steady(H, A, H, A2, x, w)
      <4>1. A2[x][w] = A[x][w]
        BY <1>0, <2>2
      <4>2. term'[x] = w => x # n
        BY <1>2, <2>2
      <4>3. Len(H[w]) \in Nat
        BY BookAtHand
      <4> QED
        BY <1>2, <4>1, <4>2, <4>3 DEF Steady
    <3>4. Only(o[x], Probes(k, w)) = <<>> /\ Only(o[k], Answers(x, w)) = <<>>
      BY <1>4, <2>2
    <3>5. ~Took(n, TRUE, k, Answers(x, w))
      BY <1>2 DEF Took, Probes, Answers
    <3>6. ASSUME term'[k] = w PROVE Goal(k, x)' = Goal(k, x)
      <4>1. k # n
        BY <1>2, <1>3, <3>6
      <4> QED
        BY <1>2, <4>1 DEF Goal
    <3> QED
      BY <1>1, <1>2, <3>2, <3>3, <3>4, <3>5, <3>6, ChainQuiet
  <2> QED
    BY <2>1, <2>2
<1>10. Noted'
  <2> SUFFICES ASSUME NEW k \in Nodes, NEW x \in Nodes, role'[k] = "Leader", pending'[k][x] # None
               PROVE  /\ pending'[k][x].index < Len(log'[k])
                      /\ pending'[k][x] = EntryData(log'[k], pending'[k][x].index)
    BY DEF Noted
  <2>1. pending'[k][x] = pending[k][x] /\ role[k] = "Leader" /\ log'[k] = log[k]
    BY <1>2
  <2> QED
    BY <1>1, <2>1 DEF Noted
<1>11. Telling(A2)'
  <2> SUFFICES ASSUME NEW k \in Nodes, role'[k] = "Leader"
               PROVE  Untold(A2, k)' \/ \A x \in Others(k) : A2[x][term'[k]] = 0 => pending'[k][x] # None
    BY DEF Telling, Others
  <2>1. k # n /\ role[k] = "Leader" /\ term'[k] = term[k] /\ log'[k] = log[k] /\ acks'[k] = acks[k]
    BY <1>2
  <2>2. PICK t \in Terms : t = term[k]
    BY <1>1, <2>1, AtHand
  <2>3. CASE Untold(A, k)
    <3>1. t = u => k # l
      <4> SUFFICES ASSUME t = u, k = l PROVE FALSE
        OBVIOUS
      <4>1. Only(inbox[n], Probes(l, u)) = <<>>
        BY <1>2, <2>2, <2>3 DEF Untold, Others
      <4>2. MailedOnly(n, TRUE, o, n, Probes(l, u))
        BY <1>1, <1>2, MailOnly
      <4> QED
        BY <1>2, <4>1, <4>2 DEF MailedOnly
    <3>2. t # u
      <4>1. <<k, t>> \in elected
        BY <1>1, <2>1, <2>2 DEF Core, Leaders
      <4> QED
        BY <1>3, <3>1, <4>1
    <3>3. applied'[k] = <<>> /\ \A i \in 1 .. Len(log'[k]) : log'[k][i].term = term'[k] /\ acks'[k][i] = {k}
      BY <1>2, <2>1, <2>3 DEF Untold
    <3>4. ASSUME NEW x \in Others(k)
          PROVE  /\ pending'[k][x] = None /\ A2[x][t] = 0
                 /\ Only(inbox'[x], Probes(k, t)) = <<>> /\ Only(inbox'[k], Answers(x, t)) = <<>>
      <4>0. x \in Nodes
        BY DEF Others
      <4>1. /\ pending[k][x] = None /\ A[x][t] = 0
            /\ Only(inbox[x], Probes(k, t)) = <<>> /\ Only(inbox[k], Answers(x, t)) = <<>>
        BY <2>2, <2>3 DEF Untold
      <4>2. Only(o[x], Probes(k, t)) = <<>> /\ Only(o[k], Answers(x, t)) = <<>>
        BY <1>4, <3>2, <4>0
      <4>3. Only(inbox'[x], Probes(k, t)) = <<>> /\ Only(inbox'[k], Answers(x, t)) = <<>>
        <5>1. TypeInv /\ inbox[n] # <<>>
          BY <1>1, <1>2
        <5>2. \A y \in Nodes : \A S : Only(inbox[y], S) = <<>> /\ Only(o[y], S) = <<>> => Only(inbox'[y], S) = <<>>
          BY <5>1, StillNone
        <5>3. Only(inbox'[x], Probes(k, t)) = <<>>
          BY <4>0, <4>1, <4>2, <5>2
        <5>4. Only(inbox'[k], Answers(x, t)) = <<>>
          BY <4>0, <4>1, <4>2, <5>2
        <5> QED
          BY <5>3, <5>4
      <4> QED
        BY <1>0, <1>2, <3>2, <4>0, <4>1, <4>3
    <3>5. \A x \in Others(k)' : /\ pending'[k][x] = None /\ A2[x][term'[k]] = 0
                                /\ Only(inbox'[x], Probes(k, term'[k])) = <<>>
                                /\ Only(inbox'[k], Answers(x, term'[k])) = <<>>
      BY <2>1, <2>2, <3>4 DEF Others
    <3> QED
      BY <3>3, <3>5 DEF Untold
  <2>4. CASE ~Untold(A, k)
    <3>1. \A x \in Others(k) : A[x][t] = 0 => pending[k][x] # None
      BY <1>1, <2>1, <2>2, <2>4 DEF Telling
    <3>2. ASSUME NEW x \in Others(k), A2[x][t] = 0 PROVE A[x][t] = 0
      <4>1. x \in Nodes
        BY DEF Others
      <4>2. PICK p \in Nat : p = A[x][t] /\ p <= 0
        BY <1>5, <3>2, <4>1
      <4> QED
        BY <4>2
    <3> QED
      BY <1>2, <2>1, <2>2, <3>1, <3>2
  <2> QED
    BY <2>3, <2>4
<1>12. Setting(H)'
  BY <1>2 DEF Setting
<1>13. Accepts'
  BY <1>1, <1>2, <1>4, AcceptsStay
<1> QED
  BY <1>6, <1>7, <1>8, <1>9, <1>10, <1>11, <1>12, <1>13 DEF LogInv
\* What a node has written to its file is in the books of all later winners.
LEMMA FileInBook ==
  ASSUME TypeInv, NEW H \in Books, NEW A \in Counts, Core(H, A), Files(H, A),
         NEW n \in Nodes, NEW l \in Nodes, NEW u \in Terms, <<l, u>> \in elected, term[n] <= u
  PROVE  Same(log[n], H[u], Len(applied[n]))
<1>1. Covered(H, A, applied[n], term[n]) /\ Same(log[n], applied[n], Len(applied[n]))
  BY DEF Files
<1>2. Len(applied[n]) \in Nat /\ Len(log[n]) \in Nat /\ Len(H[u]) \in Nat /\ u \in Nat /\ term[n] \in Nat
  BY AtHand, BookAtHand
<1>3. CASE applied[n] = <<>>
  BY <1>2, <1>3 DEF Same
<1>4. CASE applied[n] # <<>>
  <2>1. PICK t \in Terms, k \in Nat : /\ t <= term[n] /\ Chosen(H, A, t, k)
                                      /\ Len(applied[n]) <= k /\ Same(applied[n], H[t], Len(applied[n]))
    BY <1>1, <1>4 DEF Covered
  <2>2. Same(log[n], H[t], Len(applied[n]))
    BY <1>1, <2>1, SameTwice
  <2>3. CASE t = u
    BY <2>2, <2>3
  <2>4. CASE t # u
    <3>1. t < u
      <4>1. t \in Nat
        BY AtHand
      <4> QED
        BY <1>2, <2>1, <2>4, <4>1
    <3>2. k \in 1 .. Len(H[t]) /\ H[t][k].term = t
      BY <2>1 DEF Chosen
    <3>3. ~Lost(A, t, k)
      BY <2>1, ChosenNotLost
    <3>4. Won(u)
      BY DEF Won
    <3>5. Same(H[u], H[t], k)
      BY <3>1, <3>2, <3>3, <3>4 DEF Core, Complete
    <3>6. Same(H[u], H[t], Len(applied[n]))
      <4>1. Len(H[t]) \in Nat
        BY BookAtHand
      <4>2. Len(applied[n]) \in Int /\ k \in Int /\ Len(applied[n]) <= k
        BY <1>2, <2>1
      <4> QED
        BY <1>2, <3>5, <4>1, <4>2, SameLess
    <3>7. Same(H[t], H[u], Len(applied[n]))
      BY <3>6, SameSwapped
    <3> QED
      BY <2>2, <3>7, SameTwice
  <2> QED
    BY <2>3, <2>4
<1> QED
  BY <1>3, <1>4

\* The request's index is the first of its chain.
LEMMA FirstOfChain ==
  ASSUME TypeInv, NEW H \in Books, NEW A \in Counts, Chains(H, A),
         NEW n \in Nodes, NEW l \in Nodes, NEW u \in Terms, NEW a \in Nat, Entered(H, n, l, u, a)
  PROVE  ChainAt(H, A, l, n, u) /\ Fine(H, A, n, u, a)
<1>1. /\ l # n /\ <<l, u>> \in elected /\ term[n] <= u /\ inbox[n] # <<>>
      /\ Head(inbox[n]) \in Probes(l, u) /\ Head(inbox[n]).entry.index \in {a}
  BY DEF Entered
<1>2. ChainAt(H, A, l, n, u)
  BY <1>1 DEF Chains
<1>3. PICK s \in Seq(Message) : s = inbox[n]
  BY AtHand
<1>4. s # <<>> /\ Head(s) \in Probes(l, u)
  BY <1>1, <1>3
<1>5. Only(s, Probes(l, u)) # <<>> /\ Head(Only(s, Probes(l, u))) = Head(s)
  BY <1>4, OnlyTail
<1>7. PICK c \in Seq(Probes(l, u)) : c = Only(inbox[n], Probes(l, u))
  BY <1>1, Pieces
<1>10. c # <<>> /\ Len(c) > 0 /\ c[1] = Head(s)
  BY <1>3, <1>5, <1>7
<1>11. Indices(c)[1] = c[1].entry.index /\ 1 \in 1 .. Len(Indices(c))
  <2>1. 1 \in 1 .. Len(c)
    BY <1>10
  <2>2. Len(Indices(c)) = Len(c) /\ \A i \in 1 .. Len(c) : Indices(c)[i] = c[i].entry.index
    BY IndicesType
  <2> QED
    BY <2>1, <2>2
<1>12. Ahead(l, n, u) = Indices(c)
  BY <1>7 DEF Ahead
<1>13. Ahead(l, n, u)[1] = a /\ 1 \in 1 .. Len(Ahead(l, n, u))
  BY <1>1, <1>3, <1>10, <1>11, <1>12
<1> QED
  BY <1>2, <1>13 DEF ChainAt, InStep

\* The answer is sound.
LEMMA AnswersOk ==
  ASSUME NEW H, NEW A, NEW n \in Nodes, NEW l \in Nodes, NEW u \in Terms, NEW a \in Nat, Entered(H, n, l, u, a),
         NEW o, NEW ok \in BOOLEAN, NEW b, Answered(o, n, l, u, a, ok, b), ok => a < A[n][u],
         NEW i \in 1 .. Len(o[l])
  PROVE  MailOk(H, A, l, o[l][i])'
<1>1. l # n /\ <<l, u>> \in elected' /\ a < Len(H[u]) /\ SetUp'
  BY DEF Entered
<1>2. PICK msg : msg = o[l][i]
  OBVIOUS
<1>3. \/ msg.type = "Command"
      \/ msg \in Answers(n, u) /\ msg.index = a /\ msg.success = ok
  BY <1>2 DEF Answered
<1>4. CASE msg.type = "Command"
  BY <1>1, <1>2, <1>4, MailPlain
<1>5. CASE msg \in Answers(n, u) /\ msg.index = a /\ msg.success = ok
  <2>1. msg.type = "AppendEntryResponse" /\ msg.src = n /\ msg.term = u
    BY <1>5 DEF Answers
  <2>2. MailOk(H, A, l, msg)'
    BY <1>1, <1>5, <2>1 DEF MailOk
  <2> QED
    BY <1>2, <2>2
<1> QED
  BY <1>3, <1>4, <1>5

\* The entry is taken over: nothing is lost by it.
LEMMA EntryTaken ==
  ASSUME MajoritiesMeet, NEW v \in Ballots, Explained(v), Explained(v)',
         NEW H \in Books, NEW A \in Counts, LogInv(v, H, A),
         NEW n \in Nodes, NEW l \in Nodes, NEW u \in Terms, NEW a \in Nat, Entered(H, n, l, u, a),
         NEW o \in [Nodes -> Seq(Message)], Mailed(n, TRUE, o), Nothing(o, n, l, u),
         Same(log[n], H[u], a), Len(log'[n]) = a + 1, Same(log'[n], H[u], a + 1),
         Answered(o, n, l, u, a, TRUE, a + 1)
  PROVE  \E A2 \in Counts : LogInv(v, H, A2)'
<1>1. TypeInv /\ TypeInv' /\ Core(H, A) /\ Chains(H, A) /\ Files(H, A) /\ ElectedOncePerTerm
  BY Winner DEF Explained, LogInv
<1>2. /\ l # n /\ <<l, u>> \in elected /\ term[n] <= u /\ inbox[n] # <<>>
      /\ Head(inbox[n]) \in Probes(l, u) /\ Head(inbox[n]).entry.index \in {a} /\ a < Len(H[u])
      /\ role' = [role EXCEPT ![n] = "Follower"] /\ term' = [term EXCEPT ![n] = u]
      /\ UNCHANGED <<elected, nodes, pending, applied>>
      /\ \A y \in Nodes : y # n => log'[y] = log[y]
  BY DEF Entered
<1>3. ChainAt(H, A, l, n, u) /\ Fine(H, A, n, u, a)
  BY <1>1, FirstOfChain
<1>4. PICK A2 \in Counts : A2 = [A EXCEPT ![n][u] = a + 1]
  <2>1. [A EXCEPT ![n][u] = a + 1] \in Counts
    BY DEF Counts
  <2> QED
    BY <2>1
<1>5. Adopted(H, A, A2, n, u, a)
  BY <1>2, <1>3, <1>4 DEF Adopted
<1>6. /\ A2[n][u] = a + 1 /\ Grown(H, A, H, A2)
      /\ Beside(A, A2, n, u)
  BY <1>1, <1>5, AdoptedFacts DEF Beside
<1>7. Core(H, A2)'
  BY <1>1, <1>5, CoreAdopted
<1>8. ChainAt(H, A2, l, n, u)'
  <2>1. Goal(l, n)' = Goal(l, n)
    BY <1>2 DEF Goal
  <2>2. Only(o[n], Probes(l, u)) = <<>>
    BY DEF Nothing
  <2>3. \E r \in Answers(n, u) : Only(o[l], Answers(n, u)) = <<r>> /\ NextIndex(r) = a + 1
    BY DEF Answered
  <2> QED
    BY <1>1, <1>2, <1>3, <1>5, <2>1, <2>2, <2>3, ChainAdopted
<1>9. Files(H, A2)'
  <2> SUFFICES ASSUME NEW m \in Nodes
               PROVE  Covered(H, A2, applied[m], term[m])' /\ Same(log'[m], applied'[m], Len(applied'[m]))
    BY DEF Files
  <2>1. Same(log'[m], log[m], Len(applied[m]))
    <3>1. Same(log[m], applied[m], Len(applied[m])) /\ Len(applied[m]) \in Nat /\ Len(log[m]) \in Nat
      BY <1>1, AtHand DEF Files
    <3>2. CASE m # n
      <4>1. Len(applied[m]) <= Len(log[m])
        BY <3>1 DEF Same
      <4> QED
        BY <1>2, <3>1, <3>2, <4>1, SameSelf
    <3>3. CASE m = n
      <4>1. Same(log[n], H[u], Len(applied[n]))
        BY <1>1, <1>2, FileInBook
      <4>2. Len(applied[n]) <= a + 1
        BY <1>1, <1>2, <1>3, <3>1, <3>3, <4>1, NoLoss
      <4>3. Same(log'[n], H[u], Len(applied[n]))
        <5>1. Len(log'[n]) \in Nat /\ Len(H[u]) \in Nat /\ Len(applied[n]) \in Int /\ a + 1 \in Int
          BY <1>1, <3>1, <3>3, AtHandNext, BookAtHand
        <5> QED
          BY <4>2, <5>1, SameLess
      <4>4. Same(H[u], log[n], Len(applied[n]))
        BY <4>1, SameSwapped
      <4> QED
        BY <3>3, <4>3, <4>4, SameTwice
    <3> QED
      BY <3>2, <3>3
  <2> QED
    BY <1>1, <1>2, <1>6, <2>1, FilesStay
<1>10. SoundTo(o, l, H, A2)
  <2>1. a < A2[n][u]
    BY <1>6
  <2> QED
    BY <2>1, AnswersOk DEF SoundTo
<1>11. LogInv(v, H, A2)'
  BY <1>1, <1>6, <1>7, <1>8, <1>9, <1>10, EntryDone
<1> QED
  BY <1>11

\* The entry does not fit, or the answer could not be sent: the log is left alone.
LEMMA EntryMissed ==
  ASSUME MajoritiesMeet, NEW v \in Ballots, Explained(v), Explained(v)',
         NEW H \in Books, NEW A \in Counts, LogInv(v, H, A),
         NEW n \in Nodes, NEW l \in Nodes, NEW u \in Terms, NEW a \in Nat, Entered(H, n, l, u, a),
         NEW o \in [Nodes -> Seq(Message)], Mailed(n, TRUE, o), Nothing(o, n, l, u), log' = log, Moved,
         \/ ~Same(log[n], H[u], a) /\ Answered(o, n, l, u, a, FALSE, a - 1)
         \/ NotAnswered(o)
  PROVE  LogInv(v, H, A)'
<1>1. TypeInv /\ TypeInv' /\ Core(H, A) /\ Chains(H, A) /\ Files(H, A) /\ ElectedOncePerTerm
  BY Winner DEF Explained, LogInv
<1>2. /\ l # n /\ <<l, u>> \in elected /\ term[n] <= u /\ inbox[n] # <<>>
      /\ Head(inbox[n]) \in Probes(l, u) /\ Head(inbox[n]).entry.index \in {a}
      /\ term'[n] = u /\ term'[l] = term[l]
      /\ UNCHANGED <<elected, nodes, pending, applied>>
  BY DEF Entered
<1>3. ChainAt(H, A, l, n, u)
  BY <1>1, FirstOfChain
<1>4. Grown(H, A, H, A)
  BY <1>1, NotGrown DEF Moved
<1>5. Core(H, A)' /\ Files(H, A)'
  BY <1>1, <1>2, <1>4, CoreMoved, FilesUnchanged
<1>6. Goal(l, n)' = Goal(l, n)
  BY <1>2 DEF Goal
<1>7. Only(o[n], Probes(l, u)) = <<>>
  BY DEF Nothing
<1>8. ChainAt(H, A, l, n, u)' /\ SoundTo(o, l, H, A)
  <2>1. CASE ~Same(log[n], H[u], a) /\ Answered(o, n, l, u, a, FALSE, a - 1)
    <3>1. PICK r \in Answers(n, u) : Only(o[l], Answers(n, u)) = <<r>> /\ NextIndex(r) = a - 1
      BY <2>1 DEF Answered
    <3>2. ChainAt(H, A, l, n, u)'
      BY <1>1, <1>2, <1>3, <1>4, <1>6, <1>7, <2>1, <3>1, ChainRefused
    <3>3. SoundTo(o, l, H, A)
      BY <2>1, AnswersOk DEF SoundTo
    <3> QED
      BY <3>2, <3>3
  <2>2. CASE NotAnswered(o)
    <3>1. o[l] = <<>> /\ Len(o[l]) = 0
      BY <2>2 DEF NotAnswered
    <3>2. Only(o[l], Answers(n, u)) = <<>>
      BY <3>1, OnlyEmpty
    <3>3. Steady(H, A, H, A, n, u)
      <4>1. Len(H[u]) \in Nat /\ u \in Nat
        BY <1>1, BookAtHand, AtHand
      <4> QED
        BY <1>2, <4>1 DEF Steady
    <3>4. ~Took(n, TRUE, l, Answers(n, u))
      BY <1>2 DEF Took
    <3>5. ChainAt(H, A, l, n, u)'
      BY <1>1, <1>2, <1>3, <1>4, <1>6, <1>7, <3>2, <3>3, <3>4, ChainQuiet
    <3>6. SoundTo(o, l, H, A)
      BY <3>1 DEF SoundTo
    <3> QED
      BY <3>5, <3>6
  <2> QED
    BY <2>1, <2>2
<1>9. Beside(A, A, n, u)
  BY DEF Beside
<1> QED
  BY <1>1, <1>4, <1>5, <1>8, <1>9, EntryDone

\* A request with an entry: it is taken over or refused, and that is answered, or not.
LEMMA FollowEntryLog ==
  ASSUME MajoritiesMeet, NEW v \in Ballots, Explained(v), NEW H \in Books, NEW A \in Counts, LogInv(v, H, A),
         NEW n \in Nodes, FollowEntry(n)
  PROVE  Explained(v)' /\ \E A2 \in Counts : LogInv(v, H, A2)'
<1>1. Explained(v)'
  BY FollowEntryInd
<1>2. PICK l \in Nodes, u \in Terms, a \in Nat :
        l = Head(inbox[n]).src /\ u = Head(inbox[n]).term /\ Entered(H, n, l, u, a)
  BY EnteredFacts
<1>3. PICK o \in [Nodes -> Seq(Message)] :
        /\ Mailed(n, TRUE, o) /\ Nothing(o, n, l, u)
        /\ \/ /\ Same(log[n], H[u], a) /\ Len(log'[n]) = a + 1 /\ Same(log'[n], H[u], a + 1)
              /\ Answered(o, n, l, u, a, TRUE, a + 1)
           \/ ~Same(log[n], H[u], a) /\ log' = log /\ Answered(o, n, l, u, a, FALSE, a - 1)
           \/ log' = log /\ NotAnswered(o)
  BY <1>2, EntryOutcome
<1>4. CASE /\ Same(log[n], H[u], a) /\ Len(log'[n]) = a + 1 /\ Same(log'[n], H[u], a + 1)
           /\ Answered(o, n, l, u, a, TRUE, a + 1)
  <2>1. \E A2 \in Counts : LogInv(v, H, A2)'
    BY <1>1, <1>2, <1>3, <1>4, EntryTaken
  <2> QED
    BY <1>1, <2>1
<1>5. CASE log' = log /\ ((~Same(log[n], H[u], a) /\ Answered(o, n, l, u, a, FALSE, a - 1)) \/ NotAnswered(o))
  <2>1. Follow(n, Head(inbox[n]))
    BY DEF FollowEntry
  <2>2. Moved
    BY <1>5, <2>1, FollowMoved
  <2>3. LogInv(v, H, A)'
    BY <1>1, <1>2, <1>3, <1>5, <2>2, EntryMissed
  <2> QED
    BY <1>1, <2>3
<1> QED
  BY <1>3, <1>4, <1>5
=============================================================================
