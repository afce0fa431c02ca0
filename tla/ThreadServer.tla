---------------------------- MODULE ThreadServer ----------------------------
(***************************************************************************)
(* The chat server with threads: groupchat/src/bin/thread_server.rs.       *)
(* A broker (the main thread) owns the table of clients and takes commands *)
(* from one queue.  Every connection has a reader thread that turns what   *)
(* its client writes into commands.  The broker writes to all clients      *)
(* itself, with blocking writes.                                           *)
(*                                                                         *)
(* An action is one step of one thread: one access to the queue, to a      *)
(* socket or to a name another thread reads.  Frames arrive whole here.    *)
(* The users and their sockets are external (bin/client.rs).  AsyncServer  *)
(* is this server with tasks; ChatServers says of both what they promise.  *)
(***************************************************************************)
EXTENDS Naturals, FiniteSets, SequencesExt, Filter

CONSTANTS Users,     \* connections, numbered as they are made; each has its reader thread and ThreadId
          Names,     \* names users give themselves
          MaxSends,  \* bound: commands all users together write
          Room       \* lines a socket holds that its user has not read yet

ASSUME BoundsAssumption ==
  Users \subseteq Nat \ {0} /\ IsFiniteSet(Users) /\ MaxSends \in Nat /\ Room \in Nat \ {0}

VARIABLES sock,    \* the user's end of the connection
          inbox,   \* what the user wrote and the reader thread has not read
          sent,    \* number of commands the user wrote
          got,     \* history: the lines the user was sent while connected
          unread,  \* how many of them fill the socket
          queue,   \* the channel of ServerCmds
          clients, \* keys of the table Clients
          name,    \* Client.name
          rpc,     \* where the reader thread is
          note,    \* the announcement the reader thread is about to send
          bpc,     \* where the broker is
          line,    \* what the broker is telling everybody
          todo,    \* clients the loop of notify_all has not come to
          said,    \* history: lines the broker took from the queue
          joined,  \* history: number of lines said when the user was inserted
          cut      \* history: has a write to the user failed

userVars   == <<sock, inbox, sent>>
socketVars == <<got, unread>>
readerVars == <<name, rpc, note>>
brokerVars == <<clients, bpc, line, todo, said, joined>>
vars == <<userVars, socketVars, readerVars, brokerVars, queue, cut>>

NoName  == ""
NoLine  == [kind |-> "none"]
Message == "message"   \* Command::Message; a Command::Name is the name
Garbled == "garbled"   \* text that was no name (AsyncServer)

\* A line of chat: whose, their name before and now, and which of their commands it comes from
\* (0: none, for a farewell and for garbled text).
Lines == [kind : {"announcement", "broadcast", "left"}, of : Users, no : 0 .. MaxSends,
          was : Names \cup {NoName, Garbled}, now : Names \cup {NoName, Garbled}]

\* enum ServerCmd
ServerCmd == [cmd : {"say"}, line : Lines] \cup [cmd : {"connect", "disconnect"}, of : Users]
Say(l)        == [cmd |-> "say", line |-> l]
Connecting(c) == [cmd |-> "connect", of |-> c]
Disconnect(c) == [cmd |-> "disconnect", of |-> c]

\* The number of the command at the head of inbox[c].
Number(c) == sent[c] - Len(inbox[c]) + 1
-----------------------------------------------------------------------------
Init ==
  /\ sock = [c \in Users |-> "none"]
  /\ inbox = [c \in Users |-> <<>>]
  /\ sent = [c \in Users |-> 0]
  /\ got = [c \in Users |-> <<>>]
  /\ unread = [c \in Users |-> 0]
  /\ queue = <<>>
  /\ clients = {}
  /\ name = [c \in Users |-> NoName]
  /\ rpc = [c \in Users |-> "none"]
  /\ note = [c \in Users |-> NoLine]
  /\ bpc = "recv"
  /\ line = NoLine
  /\ todo = {}
  /\ said = <<>>
  /\ joined = [c \in Users |-> 0]
  /\ cut = [c \in Users |-> FALSE]
-----------------------------------------------------------------------------
(* The users *)

\* A user connects; the accept thread hands the stream to the broker.
Accept(c) ==
  /\ sock[c] = "none" /\ \A d \in Users : d < c => sock[d] # "none"
  /\ sock' = [sock EXCEPT ![c] = "open"]
  /\ queue' = Append(queue, Connecting(c))
  /\ UNCHANGED <<inbox, sent, socketVars, readerVars, brokerVars, cut>>

\* A user writes a command; the first one is a name.
Write(c) ==
  /\ sock[c] = "open"
  /\ SumFunction(sent) < MaxSends
  /\ sent' = [sent EXCEPT ![c] = @ + 1]
  /\ \E command \in Names \cup (IF sent[c] > 0 THEN {Message} ELSE {}) :
       inbox' = [inbox EXCEPT ![c] = Append(@, command)]
  /\ UNCHANGED <<sock, socketVars, readerVars, brokerVars, queue, cut>>

Read(c) ==
  /\ sock[c] = "open"
  /\ unread[c] > 0
  /\ unread' = [unread EXCEPT ![c] = @ - 1]
  /\ UNCHANGED <<userVars, got, readerVars, brokerVars, queue, cut>>

\* The user's program ends; what it has not read yet is gone.
Close(c) ==
  /\ sock[c] = "open"
  /\ sock' = [sock EXCEPT ![c] = "closed"]
  /\ unread' = [unread EXCEPT ![c] = 0]
  /\ UNCHANGED <<inbox, sent, got, readerVars, brokerVars, queue, cut>>
-----------------------------------------------------------------------------
(* The reader threads *)

\* Command::Name: the name is set now, and announced in a step of its own.
ReadName(c) ==
  /\ rpc[c] = "decode"
  /\ inbox[c] # <<>> /\ Head(inbox[c]) \in Names
  /\ inbox' = [inbox EXCEPT ![c] = Tail(@)]
  /\ name' = [name EXCEPT ![c] = Head(inbox[c])]
  /\ note' = [note EXCEPT ![c] = [kind |-> "announcement", of |-> c, no |-> Number(c),
                                  was |-> name[c], now |-> Head(inbox[c])]]
  /\ rpc' = [rpc EXCEPT ![c] = "announce"]
  /\ UNCHANGED <<sock, sent, socketVars, brokerVars, queue, cut>>

Announce(c) ==
  /\ rpc[c] = "announce"
  /\ queue' = Append(queue, Say(note[c]))
  /\ rpc' = [rpc EXCEPT ![c] = "decode"]
  /\ note' = [note EXCEPT ![c] = NoLine]
  /\ UNCHANGED <<userVars, socketVars, name, brokerVars, cut>>

\* Command::Message
ReadMessage(c) ==
  /\ rpc[c] = "decode"
  /\ inbox[c] # <<>> /\ Head(inbox[c]) = Message
  /\ inbox' = [inbox EXCEPT ![c] = Tail(@)]
  /\ queue' = Append(queue, Say([kind |-> "broadcast", of |-> c, no |-> Number(c),
                                 was |-> name[c], now |-> name[c]]))
  /\ UNCHANGED <<sock, sent, socketVars, readerVars, brokerVars, cut>>

\* decode fails: at the end of the stream, or before it when the connection was reset.
ReaderEnds(c) ==
  /\ rpc[c] = "decode"
  /\ sock[c] = "closed"
  /\ queue' = Append(queue, Disconnect(c))
  /\ rpc' = [rpc EXCEPT ![c] = "ended"]
  /\ UNCHANGED <<userVars, socketVars, name, note, brokerVars, cut>>
-----------------------------------------------------------------------------
(* The broker *)

\* Announcement or Broadcast: notify_all, notify_all_exclude
Notify ==
  /\ bpc = "recv"
  /\ queue # <<>> /\ Head(queue).cmd = "say"
  /\ queue' = Tail(queue)
  /\ line' = Head(queue).line
  /\ said' = Append(said, line')
  /\ todo' = IF line'.kind = "broadcast" THEN clients \ {line'.of} ELSE clients
  /\ bpc' = IF todo' = {} THEN "recv" ELSE "notify"
  /\ UNCHANGED <<userVars, socketVars, readerVars, clients, joined, cut>>

\* One round of the loop is over.
Done(c) ==
  /\ todo' = todo \ {c}
  /\ bpc' = IF todo' = {} THEN "recv" ELSE "notify"
  /\ UNCHANGED <<userVars, readerVars, clients, line, said, joined>>

\* send_msg returns Ok.  It waits for room; to a closed socket it may still succeed, in vain.
SendLine(c) ==
  /\ bpc = "notify" /\ c \in todo
  /\ \/ /\ sock[c] = "open" /\ unread[c] < Room
        /\ got' = [got EXCEPT ![c] = Append(@, line)]
        /\ unread' = [unread EXCEPT ![c] = @ + 1]
     \/ sock[c] = "closed" /\ ~cut[c] /\ UNCHANGED socketVars
  /\ Done(c)
  /\ UNCHANGED <<queue, cut>>

\* send_msg fails: the broker tells itself to drop the client.
SendFails(c) ==
  /\ bpc = "notify" /\ c \in todo
  /\ sock[c] = "closed"
  /\ queue' = Append(queue, Disconnect(c))
  /\ cut' = [cut EXCEPT ![c] = TRUE]
  /\ Done(c)
  /\ UNCHANGED socketVars

\* Connect: the reader thread is started (the command leaves the queue with Insert) ...
Spawn ==
  /\ bpc = "recv"
  /\ queue # <<>> /\ Head(queue).cmd = "connect"
  /\ rpc' = [rpc EXCEPT ![Head(queue).of] = "decode"]
  /\ bpc' = "insert"
  /\ UNCHANGED <<userVars, socketVars, name, note, clients, line, todo, said, joined, queue, cut>>

\* ... and runs already when its client is put into the table.
Insert ==
  /\ bpc = "insert"
  /\ queue' = Tail(queue)
  /\ clients' = clients \cup {Head(queue).of}
  /\ joined' = [joined EXCEPT ![Head(queue).of] = Len(said)]
  /\ bpc' = "recv"
  /\ UNCHANGED <<userVars, socketVars, readerVars, line, todo, said, cut>>

\* Mutant: the line is sent whether or not the client was still there.
DropClientAlways ==
  /\ bpc = "recv"
  /\ queue # <<>> /\ Head(queue).cmd = "disconnect"
  /\ LET c == Head(queue).of IN
       /\ clients' = clients \ {c}
       /\ queue' = Append(Tail(queue), Say([kind |-> "left", of |-> c, no |-> 0,
                                            was |-> name[c], now |-> name[c]]))
  /\ UNCHANGED <<userVars, socketVars, readerVars, bpc, line, todo, said, joined, cut>>

\* Mutant: a client is removed as soon as it hangs up, a loop over the table or not.
DropClientAnyTime ==
  /\ bpc # "insert"
  /\ queue # <<>> /\ Head(queue).cmd = "disconnect"
  /\ LET c == Head(queue).of IN
       /\ clients' = clients \ {c}
       /\ queue' = IF c \in clients
                   THEN Append(Tail(queue), Say([kind |-> "left", of |-> c, no |-> 0,
                                                 was |-> name[c], now |-> name[c]]))
                   ELSE Tail(queue)
  /\ UNCHANGED <<userVars, socketVars, readerVars, bpc, line, todo, said, joined, cut>>

\* Disconnect, from a reader or from the broker itself; only the first finds the client.
DropClient ==
  /\ bpc = "recv"
  /\ queue # <<>> /\ Head(queue).cmd = "disconnect"
  /\ LET c == Head(queue).of IN
       /\ clients' = clients \ {c}
       /\ queue' = IF c \in clients
                   THEN Append(Tail(queue), Say([kind |-> "left", of |-> c, no |-> 0,
                                                 was |-> name[c], now |-> name[c]]))
                   ELSE Tail(queue)
  /\ UNCHANGED <<userVars, socketVars, readerVars, bpc, line, todo, said, joined, cut>>
-----------------------------------------------------------------------------
Reader(c) == ReadName(c) \/ Announce(c) \/ ReadMessage(c) \/ ReaderEnds(c)
User(c)   == Accept(c) \/ Write(c) \/ Read(c) \/ Close(c)
Broker    == \/ Notify \/ Spawn \/ Insert \/ DropClient
             \/ \E c \in Users : SendLine(c) \/ SendFails(c)

Next == Broker \/ \E c \in Users : Reader(c) \/ User(c)

Spec == Init /\ [][Next]_vars
-----------------------------------------------------------------------------
\* Types; an insert or a round of the loop is always one the broker has begun, for a client
\* whose reader was started.  (Threads do not panic on what users send; AsyncServer's tasks do.)
TypeOK ==
  /\ sock \in [Users -> {"none", "open", "closed"}]
  /\ sent \in [Users -> 0 .. MaxSends] /\ inbox \in [Users -> Seq(Names \cup {Message})]
  /\ got \in [Users -> Seq(Lines)] /\ unread \in [Users -> 0 .. Room]
  /\ queue \in Seq(ServerCmd) /\ said \in Seq(Lines)
  /\ name \in [Users -> Names \cup {NoName, Garbled}]
  /\ rpc \in [Users -> {"none", "decode", "announce", "ended", "failing", "panicked"}]
  /\ note \in [Users -> Lines \cup {NoLine}]
  /\ \A c \in Users : rpc[c] = "announce" <=> note[c] # NoLine
  /\ clients \subseteq {c \in Users : rpc[c] # "none"}
  /\ bpc \in {"recv", "notify", "insert", "panicked"}
  /\ line \in Lines \cup {NoLine}
  /\ todo \subseteq clients /\ (bpc \in {"notify", "panicked"} <=> todo # {})
  /\ bpc = "insert" => queue # <<>> /\ Head(queue).cmd = "connect"
  /\ joined \in [Users -> 0 .. Len(said)] /\ cut \in [Users -> BOOLEAN]

LinesOf(c)   == {l \in Lines : l.of = c}
Spoken(c)    == Only(said, {l \in LinesOf(c) : l.no # 0})
Farewells(c) == Only(said, {l \in LinesOf(c) : l.kind = "left"})

\* The broker says commands of c once and in the order written, and all of them before the nth;
\* names link up until then, the one somebody changed from being the one last announced; c
\* leaves at most once ...
SaidOnceInOrder(c, n) ==
  /\ \A i \in DOMAIN Spoken(c) :
       /\ i > 1 => Spoken(c)[i].no > Spoken(c)[i - 1].no
       /\ i < n => /\ Spoken(c)[i].no = i
                  /\ Spoken(c)[i].was = IF i = 1 THEN NoName ELSE Spoken(c)[i - 1].now
  /\ Len(Farewells(c)) <= 1

\* ... and says nothing after that.
LeavesLast(c) ==
  Farewells(c) # <<>> =>
    /\ Last(Only(said, LinesOf(c))) = Last(Farewells(c))
    /\ Last(Farewells(c)).now = IF Spoken(c) = <<>> THEN NoName ELSE Last(Spoken(c)).now

\* The first n lines said, without those before c joined and the user's own messages.
Heard(c, n) ==
  Only(SubSeq(said, joined[c] + 1, n), {l \in Lines : ~(l.kind = "broadcast" /\ l.of = c)})

\* A connected c has been sent every line since joining, in the one order of the broker and
\* without its own messages; one that has left, a part from the start.
ToldAll(c) ==
  IF c \in clients /\ sock[c] = "open"
  THEN got[c] = Heard(c, IF c \in todo THEN Len(said) - 1 ELSE Len(said))
  ELSE IsPrefix(got[c], Heard(c, Len(said)))

\* A connected user is never dropped.
Stays(c) ==
  sock[c] = "open" => c \in clients \/ rpc[c] = "none" \/ (bpc = "insert" /\ Head(queue).of = c)
=============================================================================
