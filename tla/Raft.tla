-------------------------------- MODULE Raft --------------------------------
(***************************************************************************)
(* The crate consensus: branch offices of a bank replicate a log of        *)
(* commands.  Each office is a thread around RaftNode::start, which takes  *)
(* one message at a time from its inbox and runs the message's handler to  *)
(* the end; a handler is one action.  Only with its inbox empty does a     *)
(* node look at its timeout: a leader then sends heartbeats, anyone else   *)
(* stands for election.                                                    *)
(*                                                                         *)
(* The simulated network keeps order and content, but a message sent to    *)
(* another partition is lost, and the sender sees that it is.              *)
(* A node counts the offices it has accepted so far; setup_offices tells   *)
(* it of them one by one, while its thread runs already.                   *)
(***************************************************************************)
EXTENDS Naturals, Sequences, FiniteSets, FiniteSetsExt

CONSTANTS Nodes,           \* the offices
          Commands,        \* client commands, each issued at most once
          None,            \* no leader known; no pending entry
          MaxTerm,         \* bound: nodes stand for election up to this term
          MaxEarlyTerm,    \* bound: and up to this one before all have accepted each other
          MaxDisruptions,  \* bound: how often the daemon disrupts a node
          MaxInbox         \* bound: an inbox this long gets no heartbeat or request

ASSUME NodesAssumption == IsFiniteSet(Nodes) /\ None \notin Nodes
ASSUME NoneAssumption == None \notin [index : Nat, prev_term : Nat, term : Nat, cmd : Commands]
ASSUME BoundsAssumption == MaxTerm \in Nat /\ MaxEarlyTerm \in 0 .. MaxTerm /\ MaxDisruptions \in Nat

VARIABLES nodes,         \* keys of RaftNode.nodes: the offices n has accepted
          told,          \* the offices setup_offices has told n of
          inbox,         \* NetworkNode.channel: what n has not taken out yet
          part,          \* NetworkNode.partition
          disruptions,   \* how often the daemon struck
          issued,        \* commands clients have sent
          role, leader, term, votes,   \* fields of RaftNode
          log,           \* RaftNode.log
          acks,          \* RaftNode.log_entry_success
          pending_cmds,  \* RaftNode.pending_cmds
          applied,       \* the log file: entries append()ed to it; `committed` of them
          pending,       \* pending[n][m]: n's nodes[m].pending_entry
          elected,       \* history: <<n, t>> if n won the election of term t
          strayed        \* history: has a node broken one of the three rules below

setupVars == <<nodes, told>>
netVars == <<inbox, part, disruptions, issued>>
electionVars == <<role, leader, term, votes, elected, strayed>>
logVars == <<log, acks, pending_cmds, applied, pending>>
vars == <<setupVars, netVars, electionVars, logVars>>

Roles == {"Candidate", "Follower", "Leader", "Panicked"}

Others(n) == Nodes \ {n}
committed(n) == Len(applied[n])

\* Three rules these handlers do not keep: a leader that learns of a higher term
\* steps down; a leader counts answers only to commit an entry of its own term;
\* and nobody hears from an office it has not accepted.  strayed remembers a
\* step that broke one of them.

\* More than half of the offices n knows, itself included.
Majority(n, k) == k > (Cardinality(nodes[n]) + 1) \div 2
-----------------------------------------------------------------------------
(* Messages *)

\* Entries are numbered from 0 as in the code: entry i is log[i + 1].
\* RaftNode::prev_entry_term
PrevTerm(lg, i) == IF i \in 1 .. Len(lg) THEN lg[i].term ELSE 0

\* RaftNode::new_entry_data
EntryData(lg, i) ==
  IF i < Len(lg)
  THEN [index |-> i, prev_term |-> PrevTerm(lg, i), term |-> lg[i + 1].term, cmd |-> lg[i + 1].cmd]
  ELSE None

\* The term of the last entry, 0 without one.
LatestTerm(lg) == PrevTerm(lg, Len(lg))

\* Mutant: between logs of one latest term the length does not count.
NotAheadByTerm(lg, t, l) == LatestTerm(lg) <= t

\* RaftNode::latest_log_info, compared field by field as derived PartialOrd does.
NotAhead(lg, t, l) == \/ LatestTerm(lg) < t
                      \/ LatestTerm(lg) = t /\ Len(lg) <= l

AppendEntry(n, e) ==
  [type |-> "AppendEntry", src |-> n, term |-> term[n], committed |-> committed(n), entry |-> e]
AppendEntryResponse(n, t, i, ok) ==
  [type |-> "AppendEntryResponse", src |-> n, term |-> t, index |-> i, success |-> ok]
RequestVote(n, t) ==
  [type |-> "RequestVote", src |-> n, term |-> t,
   latest_term |-> LatestTerm(log[n]), len |-> Len(log[n])]
Vote(t) == [type |-> "Vote", term |-> t]
Command(c) == [type |-> "Command", cmd |-> c]

\* Connection::encode succeeds.
Reaches(n, m) == part[n] = part[m] /\ role[m] # "Panicked"

\* n's turn: its message is the first of its inbox.
Received(n, type) ==
  /\ role[n] # "Panicked"
  /\ inbox[n] # <<>>
  /\ Head(inbox[n]).type = type

\* n is done with its message and has sent out[m] to each m it reaches.
Deliver(n, out) ==
  inbox' = [m \in Nodes |->
              IF m = n THEN Tail(inbox[n])
              ELSE IF m \in nodes[n] /\ Reaches(n, m) THEN inbox[m] \o out[m] ELSE inbox[m]]

ToAll(msg) == [m \in Nodes |-> <<msg>>]
To(d, msgs) == [m \in Nodes |-> IF m = d THEN msgs ELSE <<>>]
-----------------------------------------------------------------------------
Init ==
  /\ nodes = [n \in Nodes |-> {}]
  /\ told = [n \in Nodes |-> {}]
  /\ inbox = [n \in Nodes |-> <<>>]
  /\ part = [n \in Nodes |-> 0]
  /\ disruptions = 0
  /\ issued = {}
  /\ role = [n \in Nodes |-> "Follower"]
  /\ leader = [n \in Nodes |-> None]
  /\ term = [n \in Nodes |-> 0]
  /\ votes = [n \in Nodes |-> 0]
  /\ log = [n \in Nodes |-> <<>>]
  /\ acks = [n \in Nodes |-> <<>>]
  /\ pending_cmds = [n \in Nodes |-> <<>>]
  /\ applied = [n \in Nodes |-> <<>>]
  /\ pending = [n \in Nodes |-> [m \in Nodes |-> None]]
  /\ elected = {}
  /\ strayed = FALSE
-----------------------------------------------------------------------------
(* RaftNode::start, with the inbox empty and the timeout over *)

\* Everyone has accepted everyone; a bound: script and daemon wait for it.
SetUp == \A n \in Nodes : nodes[n] = Others(n)

TimedOut(n) == role[n] # "Panicked" /\ inbox[n] = <<>>

Heartbeat(n) ==
  /\ TimedOut(n)
  /\ role[n] = "Leader"
  /\ \A m \in Nodes : Len(inbox[m]) < MaxInbox
  /\ inbox' = [m \in Nodes |->
                 IF m \in nodes[n] /\ Reaches(n, m)
                 THEN Append(inbox[m], AppendEntry(n, pending[n][m]))
                 ELSE inbox[m]]
  /\ UNCHANGED <<setupVars, part, disruptions, issued, electionVars, logVars>>

Election(n) ==
  /\ TimedOut(n)
  /\ role[n] # "Leader"
  /\ term[n] < IF SetUp THEN MaxTerm ELSE MaxEarlyTerm
  /\ term' = [term EXCEPT ![n] = @ + 1]
  /\ leader' = [leader EXCEPT ![n] = None]
  /\ votes' = [votes EXCEPT ![n] = 1]
  /\ role' = [role EXCEPT ![n] = "Candidate"]
  /\ inbox' = [m \in Nodes |->
                 IF m \in nodes[n] /\ Reaches(n, m)
                 THEN Append(inbox[m], RequestVote(n, term[n] + 1))
                 ELSE inbox[m]]
  /\ UNCHANGED <<setupVars, part, disruptions, issued, elected, strayed, logVars>>
-----------------------------------------------------------------------------
(* Handlers *)

\* Accept: a connection to one more office.
Accept(n) ==
  /\ Received(n, "Accept")
  /\ nodes' = [nodes EXCEPT ![n] = @ \cup {Head(inbox[n]).src}]
  /\ pending' = [pending EXCEPT ![n][Head(inbox[n]).src] = None]
  /\ Deliver(n, To(n, <<>>))
  /\ UNCHANGED <<told, part, disruptions, issued, electionVars, log, acks, pending_cmds, applied>>

\* Mutant: a node votes again for whoever asks in the term it is in.
UnseenOrCurrent(n, t) == term[n] <= t

\* t is a term n has not been in.
Unseen(n, t) == term[n] < t

\* n would vote for the sender of msg.
Willing(n, msg) == Unseen(n, msg.term) /\ NotAhead(log[n], msg.latest_term, msg.len)

\* The term is raised in any case; role and leader change only with the vote.
HandleRequestVote(n) ==
  /\ Received(n, "RequestVote")
  /\ LET msg   == Head(inbox[n])
         grant == Willing(n, msg) /\ Reaches(n, msg.src)
     IN  /\ Willing(n, msg) => msg.src \in nodes[n]
         /\ Deliver(n, To(msg.src, IF grant THEN <<Vote(msg.term)>> ELSE <<>>))
         /\ term' = [term EXCEPT ![n] = Max({@, msg.term})]
         /\ role' = IF grant THEN [role EXCEPT ![n] = "Follower"] ELSE role
         /\ leader' = IF grant THEN [leader EXCEPT ![n] = None] ELSE leader
         /\ strayed' = (strayed \/ (term[n] < msg.term /\ role'[n] = "Leader"))
  /\ UNCHANGED <<setupVars, part, disruptions, issued, votes, elected, logVars>>

\* nodes[&self.node_id] of an office that is not there: the node's thread ends.
UnknownCandidate(n) ==
  /\ Received(n, "RequestVote")
  /\ LET msg == Head(inbox[n])
     IN  /\ Willing(n, msg) /\ msg.src \notin nodes[n]
         /\ term' = [term EXCEPT ![n] = msg.term]
  /\ role' = [role EXCEPT ![n] = "Panicked"]
  /\ inbox' = [inbox EXCEPT ![n] = <<>>]
  /\ strayed' = TRUE
  /\ UNCHANGED <<setupVars, part, disruptions, issued, leader, votes, elected, logVars>>

\* A vote that is late, or not the last one needed.
HandleVote(n) ==
  /\ Received(n, "Vote")
  /\ LET counts == role[n] = "Candidate" /\ term[n] = Head(inbox[n]).term
     IN  /\ ~(counts /\ Majority(n, votes[n] + 1))
         /\ votes' = IF counts THEN [votes EXCEPT ![n] = @ + 1] ELSE votes
  /\ Deliver(n, To(n, <<>>))
  /\ UNCHANGED <<setupVars, part, disruptions, issued, role, leader, term, elected, strayed, logVars>>

\* The vote that makes a leader.  The last entry it had goes to everybody; the
\* commands it kept for a leader become entries of its own.
BecomeLeader(n) ==
  /\ Received(n, "Vote")
  /\ role[n] = "Candidate"
  /\ term[n] = Head(inbox[n]).term
  /\ Majority(n, votes[n] + 1)
  /\ votes' = [votes EXCEPT ![n] = @ + 1]
  /\ role' = [role EXCEPT ![n] = "Leader"]
  /\ leader' = [leader EXCEPT ![n] = None]
  /\ elected' = elected \cup {<<n, term[n]>>}
  /\ LET cmds == pending_cmds[n]
         last == IF log[n] = <<>> THEN None ELSE EntryData(log[n], Len(log[n]) - 1)
     IN  /\ pending' = [pending EXCEPT ![n] = [m \in Nodes |-> IF m \in nodes[n] THEN last ELSE None]]
         /\ log' = [log EXCEPT ![n] = @ \o [i \in DOMAIN cmds |-> [term |-> term[n], cmd |-> cmds[i]]]]
         /\ acks' = [acks EXCEPT ![n] = @ \o [i \in DOMAIN cmds |-> {n}]]
         /\ Deliver(n, ToAll(AppendEntry(n, last)))
  /\ pending_cmds' = [pending_cmds EXCEPT ![n] = <<>>]
  /\ UNCHANGED <<setupVars, part, disruptions, issued, term, strayed, applied>>

\* RaftNode::send_pending_cmds_to_leader: all or, if l is out of reach, none.
Forwarded(n, cmds, l) ==
  IF cmds # <<>> /\ Reaches(n, l)
  THEN [i \in DOMAIN cmds |-> Command(cmds[i])]
  ELSE <<>>

\* A request of an earlier term is dropped.
RejectAppendEntry(n) ==
  /\ Received(n, "AppendEntry")
  /\ Head(inbox[n]).term < term[n]
  /\ Deliver(n, To(n, <<>>))
  /\ UNCHANGED <<setupVars, part, disruptions, issued, electionVars, logVars>>

\* Both kinds of AppendEntry make the sender the leader and hand it what waits.
\* (Whoever has an entry or a command waiting has accepted everyone, so nodes[&id] is there.)
Follow(n, msg) ==
  /\ Received(n, "AppendEntry")
  /\ msg.term >= term[n]
  /\ role' = [role EXCEPT ![n] = "Follower"]
  /\ term' = [term EXCEPT ![n] = msg.term]
  /\ leader' = [leader EXCEPT ![n] = msg.src]
  /\ pending_cmds' = IF Reaches(n, msg.src) THEN [pending_cmds EXCEPT ![n] = <<>>] ELSE pending_cmds
  /\ UNCHANGED <<setupVars, part, disruptions, issued, votes, elected, strayed, pending>>

\* The entry before e has the same term in this log.
Fits(lg, e) == e.prev_term = PrevTerm(lg, e.index)

\* Mutant: log is truncated, log_entry_success is not.
TruncatedAcksKept(as, len) == as

\* RaftNode::truncate_log on log_entry_success
TruncatedAcks(as, len) == SubSeq(as, 1, len)

\* An entry: it overwrites the log from its index on if the entry before it
\* fits and the answer could be sent.
FollowEntry(n) ==
  LET msg == Head(inbox[n])
      e == msg.entry
      fits == Fits(log[n], e)
      ok == fits /\ Reaches(n, msg.src)
  IN  /\ Follow(n, msg)
      /\ e # None
      /\ Deliver(n, To(msg.src, <<AppendEntryResponse(n, msg.term, e.index, fits)>>
                                  \o Forwarded(n, pending_cmds[n], msg.src)))
      /\ log' = IF ok
                THEN [log EXCEPT ![n] = Append(SubSeq(@, 1, e.index), [term |-> e.term, cmd |-> e.cmd])]
                ELSE log
      /\ acks' = IF ok THEN [acks EXCEPT ![n] = Append(TruncatedAcks(@, e.index), {n})] ELSE acks
      /\ UNCHANGED applied

\* A bare heartbeat: whatever the leader has committed and this log reaches.
FollowHeartbeat(n) ==
  LET msg == Head(inbox[n])
  IN  /\ Follow(n, msg)
      /\ msg.entry = None
      /\ Deliver(n, To(msg.src, Forwarded(n, pending_cmds[n], msg.src)))
      /\ applied' = [applied EXCEPT ![n] =
                       @ \o SubSeq(log[n], Len(@) + 1, Min({msg.committed, Len(log[n])}))]
      /\ UNCHANGED <<log, acks>>

\* An answer of another term.
IgnoreResponse(n) ==
  /\ Received(n, "AppendEntryResponse")
  /\ Head(inbox[n]).term # term[n]
  /\ Deliver(n, To(n, <<>>))
  /\ UNCHANGED <<setupVars, part, disruptions, issued, electionVars, logVars>>

\* The answer counts for an entry that is not committed, but there is no such
\* entry: log_entry_success[index] is out of bounds.
Panics(n, msg) == msg.success /\ committed(n) <= msg.index /\ msg.index >= Len(acks[n])

\* The answer to an entry: count it, commit with a majority, send the next
\* entry (or, if it did not fit, the one before).  No role is asked for.
HandleResponse(n) ==
  /\ Received(n, "AppendEntryResponse")
  /\ LET msg    == Head(inbox[n])
         counts == msg.success /\ committed(n) <= msg.index
         acks1  == IF counts THEN [acks EXCEPT ![n][msg.index + 1] = @ \cup {msg.src}] ELSE acks
         commit == counts /\ Majority(n, Cardinality(acks1[n][msg.index + 1]))
         applied1 == IF commit
                     THEN [applied EXCEPT ![n] = @ \o SubSeq(log[n], Len(@) + 1, msg.index + 1)]
                     ELSE applied
         next   == EntryData(log[n], IF msg.success THEN msg.index + 1 ELSE msg.index - 1)
     IN  /\ msg.term = term[n]
         /\ ~Panics(n, msg)
         /\ acks' = acks1
         /\ applied' = applied1
         /\ pending' = [pending EXCEPT ![n][msg.src] = next]
         /\ strayed' = (strayed \/ (commit /\ log[n][msg.index + 1].term # term[n]))
         /\ Deliver(n, To(msg.src, IF next = None THEN <<>>
                                   ELSE <<[AppendEntry(n, next) EXCEPT !.committed = Len(applied1[n])]>>))
  /\ UNCHANGED <<setupVars, part, disruptions, issued, role, leader, term, votes, elected, log, pending_cmds>>

\* The index is out of bounds: the node's thread ends and its inbox with it.
Panic(n) ==
  /\ Received(n, "AppendEntryResponse")
  /\ Head(inbox[n]).term = term[n]
  /\ Panics(n, Head(inbox[n]))
  /\ role' = [role EXCEPT ![n] = "Panicked"]
  /\ inbox' = [inbox EXCEPT ![n] = <<>>]
  /\ UNCHANGED <<setupVars, part, disruptions, issued, leader, term, votes, elected, strayed, logVars>>

\* Mutant: only those the entry can be sent to have it noted as pending.
IdleInReach(n) == {m \in nodes[n] : pending[n][m] = None /\ Reaches(n, m)}

\* The nodes that have confirmed everything so far, by n's books.
Idle(n) == {m \in nodes[n] : pending[n][m] = None}

\* A client's command at the leader: a new entry, sent to every node that has
\* confirmed all earlier ones.
LeaderCommand(n) ==
  /\ Received(n, "Command")
  /\ role[n] = "Leader"
  /\ LET log1  == Append(log[n], [term |-> term[n], cmd |-> Head(inbox[n]).cmd])
         e     == EntryData(log1, Len(log1) - 1)
     IN  /\ log' = [log EXCEPT ![n] = log1]
         /\ acks' = [acks EXCEPT ![n] = Append(@, {n})]
         /\ pending' = [pending EXCEPT ![n] = [m \in Nodes |-> IF m \in Idle(n) THEN e ELSE @[m]]]
         /\ Deliver(n, [m \in Nodes |-> IF m \in Idle(n) THEN <<AppendEntry(n, e)>> ELSE <<>>])
  /\ UNCHANGED <<setupVars, part, disruptions, issued, electionVars, pending_cmds, applied>>

\* A command at any other node: kept, and passed on if a leader is known.
ForwardCommand(n) ==
  /\ Received(n, "Command")
  /\ role[n] # "Leader"
  /\ LET cmds == Append(pending_cmds[n], Head(inbox[n]).cmd)
         known == leader[n] # None
     IN  /\ pending_cmds' = [pending_cmds EXCEPT ![n] =
                               IF known /\ Reaches(n, leader[n]) THEN <<>> ELSE cmds]
         /\ Deliver(n, IF known THEN To(leader[n], Forwarded(n, cmds, leader[n])) ELSE To(n, <<>>))
  /\ UNCHANGED <<setupVars, part, disruptions, issued, electionVars, log, acks, applied, pending>>
-----------------------------------------------------------------------------
(* The driver, the clients and the daemon *)

\* setup_offices tells the offices of each other, one office after the other, in random order.
MayTell(n, m) ==
  /\ m \notin told[n] \cup {n}
  /\ \A k \in Others(n) : told[k] \in {{}, Others(k)}

Tell(n, m) ==
  /\ MayTell(n, m)
  /\ role[n] # "Panicked"
  /\ told' = [told EXCEPT ![n] = @ \cup {m}]
  /\ inbox' = [inbox EXCEPT ![n] = Append(@, [type |-> "Accept", src |-> m])]
  /\ UNCHANGED <<nodes, part, disruptions, issued, electionVars, logVars>>

\* Channel::send is unwrapped: told to send to an office whose thread has ended, main
\* panics, and the program ends with all offices.
ProgramEnds ==
  /\ role' = [k \in Nodes |-> "Panicked"]
  /\ inbox' = [k \in Nodes |-> <<>>]

TellFails(n, m) ==
  /\ MayTell(n, m)
  /\ role[n] = "Panicked"
  /\ ProgramEnds
  /\ told' = [k \in Nodes |-> Others(k)]
  /\ UNCHANGED <<nodes, part, disruptions, issued, leader, term, votes, elected, strayed, logVars>>

\* The script sends a command to a branch over its reliable channel.
Client(n, c) ==
  /\ SetUp
  /\ role[n] # "Panicked"
  /\ c \notin issued
  /\ Len(inbox[n]) < MaxInbox
  /\ issued' = issued \cup {c}
  /\ inbox' = [inbox EXCEPT ![n] = Append(@, Command(c))]
  /\ UNCHANGED <<setupVars, part, disruptions, electionVars, logVars>>

ClientFails(n) ==
  /\ \A k \in Nodes : told[k] = Others(k)
  /\ role[n] = "Panicked"
  /\ \E m \in Nodes : role[m] # "Panicked"
  /\ issued # Commands
  /\ ProgramEnds
  /\ UNCHANGED <<setupVars, part, disruptions, issued, leader, term, votes, elected, strayed, logVars>>

\* A node that is online moves to one of the partitions 1 .. number of nodes - 1;
\* with few disruptions the higher ones only rename the lower.
Disrupt(n) ==
  /\ SetUp
  /\ part[n] = 0
  /\ disruptions < MaxDisruptions
  /\ disruptions' = disruptions + 1
  /\ \E p \in 1 .. Min({Cardinality(Nodes) - 1, MaxDisruptions}) : part' = [part EXCEPT ![n] = p]
  /\ UNCHANGED <<setupVars, inbox, issued, electionVars, logVars>>

Restore(n) ==
  /\ part[n] # 0
  /\ part' = [part EXCEPT ![n] = 0]
  /\ UNCHANGED <<setupVars, inbox, disruptions, issued, electionVars, logVars>>

Handle(n) ==
  \/ Accept(n) \/ UnknownCandidate(n) \/ HandleRequestVote(n) \/ HandleVote(n) \/ BecomeLeader(n)
  \/ RejectAppendEntry(n) \/ FollowEntry(n) \/ FollowHeartbeat(n)
  \/ IgnoreResponse(n) \/ HandleResponse(n) \/ Panic(n)
  \/ LeaderCommand(n) \/ ForwardCommand(n)

Next ==
  \E n \in Nodes :
    \/ Heartbeat(n) \/ Election(n) \/ Handle(n)
    \/ ClientFails(n) \/ \E c \in Commands : Client(n, c)
    \/ \E m \in Nodes : Tell(n, m) \/ TellFails(n, m)
    \/ Disrupt(n) \/ Restore(n)

Spec == Init /\ [][Next]_vars
-----------------------------------------------------------------------------
Entries == [term : 1 .. MaxTerm, cmd : Commands]

TypeOK ==
  /\ \A n \in Nodes : nodes[n] \subseteq told[n] /\ told[n] \subseteq Others(n)
  /\ part \in [Nodes -> 0 .. Cardinality(Nodes) - 1]
  /\ role \in [Nodes -> Roles]
  /\ leader \in [Nodes -> Nodes \cup {None}]
  /\ term \in [Nodes -> 0 .. MaxTerm]
  /\ votes \in [Nodes -> 0 .. Cardinality(Nodes)]
  /\ log \in [Nodes -> Seq(Entries)]
  /\ applied \in [Nodes -> Seq(Entries)]
  /\ \A n \in Nodes : acks[n] \in [1 .. Len(log[n]) -> SUBSET Nodes]
  /\ pending_cmds \in [Nodes -> Seq(Commands)]

\* At most one node wins the election of a term: a node gives its vote away
\* once per term, and standing for election gives it to itself.  Of three
\* offices any two have one in common; of four, a node that has accepted one
\* other so far is elected by the two of them, and so are the remaining two.
ElectedOncePerTerm ==
  \A a, b \in elected : a[2] = b[2] => a[1] = b[1]

IsPrefixOf(s, t) == Len(s) <= Len(t) /\ s = SubSeq(t, 1, Len(s))

\* README: "The logs from different branches must have no conflict"; of the
\* log file network.rs says "This can not be undone. Make sure it's consistent
\* with the other nodes."
LogFilesAgree ==
  \A n, m \in Nodes : IsPrefixOf(applied[n], applied[m]) \/ IsPrefixOf(applied[m], applied[n])

\* README: "the longest log must be identically replicated by the majority of
\* branches": what any node has written to its file a majority has in its log.
AppliedOnMajority ==
  \A n \in Nodes :
    2 * Cardinality({m \in Nodes : IsPrefixOf(applied[n], log[m])}) > Cardinality(Nodes)

\* As long as nobody has broken one of the three rules both promises hold, through elections,
\* partitions, lost messages and forwarded commands; nor does any handler index past the end
\* of the log, and no node applies an entry it then overwrites.
SafeUnlessStrayed ==
  ~strayed =>
    /\ LogFilesAgree /\ AppliedOnMajority
    /\ \A n \in Nodes : role[n] # "Panicked" /\ IsPrefixOf(applied[n], log[n])

\* Offices of n's term or an earlier one that do not have all of n's log.
Behind(n) == {m \in nodes[n] : term[m] <= term[n] /\ ~IsPrefixOf(log[n], log[m])}

\* n's log is what it made of the commands it had kept, and nobody has been told.
OnlyKept(n) ==
  /\ Idle(n) = nodes[n]
  /\ \A i \in DOMAIN log[n] : log[n][i].term = term[n] /\ acks[n][i] = {n}

\* Replication does not stop short: a leader has an entry pending, which its next heartbeat
\* carries, for everyone behind it, whatever was lost, repeated or overwritten in between.  The
\* one exception is a leader that was elected with an empty log and commands kept for a leader:
\* it looks for the entry to send before it moves them into its log.
NobodyForgottenUnlessKept ==
  ~strayed => \A n \in Nodes :
    role[n] = "Leader" => Behind(n) \cap Idle(n) = {} \/ OnlyKept(n)
=============================================================================
