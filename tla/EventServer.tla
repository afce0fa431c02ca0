---------------------------- MODULE EventServer ----------------------------
(***************************************************************************)
(* The chat server with an event loop, groupchat/src/bin/event_server.rs,  *)
(* and the StreamAgent it buffers its sockets with (groupchat/src/lib.rs). *)
(* One thread polls edge-triggered sockets, handles the events it is given *)
(* and then carries out the commands they led to.                          *)
(*                                                                         *)
(* Bytes come in units: a frame is two, the first (tag and length) and the *)
(* second (the text), so that it can be cut in the middle.  One action is  *)
(* one event, one command or one write to a socket; users, network and     *)
(* kernel, which are external, take steps in between.                      *)
(***************************************************************************)
EXTENDS Naturals, SequencesExt

CONSTANTS Users,     \* connections, numbered as they are made, as next_token does
          MaxUnits,  \* bound: units a user writes when the others write none
          MaxShared, \* bound: units users write together
          MaxGarbled \* bound: commands of one client made of text

ASSUME BoundsAssumption ==
  /\ Users \subseteq Nat \ {0}
  /\ MaxUnits \in Nat /\ MaxShared \in 0 .. MaxUnits /\ MaxGarbled \in Nat

Nobody == 0

VARIABLES sock,    \* the user's end of the connection
          sent,    \* units the user wrote; all of them have arrived
          inbox,   \* those of them the server has not read
          backlog, \* connections the listener has not accepted
          edge,    \* has something happened on the socket since it was last polled
          blocked, \* is the socket full
          wire,    \* history: units an open socket took
          clients, \* keys of the table `clients`
          wbuf,    \* AgentWriter.buf
          cursor,  \* AgentWriter.cursor
          queue,   \* server_cmds_channel
          pc,      \* where the server is
          batch,   \* the events of this round of poll that are left to handle
          todo,    \* clients the loop over the table has not come to
          cur,     \* the client whose stream is being flushed
          ret,     \* where the server goes on after that
          from,    \* flush: the slice `buf` starts after this unit of wbuf
          said,    \* history: lines the server carried out, by number of command
          joined,  \* history: number of lines said when the client was inserted
          resumed, \* history: has a write of this agent started past the beginning of wbuf
          astray,  \* has decode just dropped the first part of a frame
          lost,    \* history: number of the first command whose frame was cut in that way
          missed   \* history: was the end of the stream read together with data

userVars   == <<sock, sent, backlog>>
socketVars == <<inbox, edge, blocked, wire>>
agentVars  == <<wbuf, cursor, from, resumed>>
tableVars  == <<clients, joined>>
loopVars   == <<batch, todo, cur, ret>>
readVars   == <<astray, lost, missed>>
vars == <<userVars, socketVars, agentVars, tableVars, loopVars, readVars, pc, queue, said>>

\* enum ServerCmd.  A line: whose, and the number of their command, 0 if it has none (a farewell,
\* and text that was garbled).
Line(kind, c, n) == [cmd |-> kind, of |-> c, no |-> n]
Commands == [cmd : {"announcement", "broadcast", "left", "connect", "disconnect"},
             of : Users, no : 0 .. MaxUnits]
Says     == {"announcement", "broadcast", "left"}
Connecting(c) == Line("connect", c, 0)
Disconnect(c) == Line("disconnect", c, 0)

\* The units of line number n of `said`, and of a sequence of them.
Frame(n) == <<<<n, 1>>, <<n, 2>>>>
Frames(ns) == FlattenSeq([i \in DOMAIN ns |-> Frame(ns[i])])
-----------------------------------------------------------------------------
Init ==
  /\ sock = [c \in Users |-> "none"]
  /\ sent = [c \in Users |-> 0]
  /\ inbox = [c \in Users |-> <<>>]
  /\ backlog = <<>>
  /\ edge = [c \in Users |-> FALSE]
  /\ blocked = [c \in Users |-> FALSE]
  /\ wire = [c \in Users |-> <<>>]
  /\ clients = {}
  /\ wbuf = [c \in Users |-> <<>>]
  /\ cursor = [c \in Users |-> 0]
  /\ queue = <<>>
  /\ pc = "poll"
  /\ batch = {}
  /\ todo = {}
  /\ cur = Nobody
  /\ ret = "poll"
  /\ from = 0
  /\ said = <<>>
  /\ joined = [c \in Users |-> 0]
  /\ resumed = [c \in Users |-> FALSE]
  /\ astray = [c \in Users |-> FALSE]
  /\ lost = [c \in Users |-> MaxUnits + 1]
  /\ missed = [c \in Users |-> FALSE]
-----------------------------------------------------------------------------
(* Users, network and kernel; with the server's process gone there is nothing to see *)

Up == pc # "panicked"

Connect(c) ==
  /\ Up
  /\ sock[c] = "none" /\ \A d \in Users : d < c => sock[d] # "none"
  /\ sock' = [sock EXCEPT ![c] = "open"]
  /\ backlog' = Append(backlog, c)
  /\ UNCHANGED <<sent, socketVars, agentVars, tableVars, loopVars, readVars, pc, queue, said>>

\* The next unit arrives: the second of a frame begun, or the first of a new one.
Arrive(c) ==
  /\ Up
  /\ sock[c] = "open"
  /\ FoldFunction(+, 0, sent) < IF \A d \in Users \ {c} : sent[d] = 0 THEN MaxUnits ELSE MaxShared
  /\ sent' = [sent EXCEPT ![c] = @ + 1]
  /\ inbox' = [inbox EXCEPT ![c] = Append(@, sent'[c])]
  /\ edge' = [edge EXCEPT ![c] = TRUE]
  /\ UNCHANGED <<sock, backlog, blocked, wire, agentVars, tableVars, loopVars, readVars, pc, queue, said>>

Close(c) ==
  /\ Up
  /\ sock[c] = "open"
  /\ sock' = [sock EXCEPT ![c] = "closed"]
  /\ edge' = [edge EXCEPT ![c] = TRUE]
  /\ blocked' = [blocked EXCEPT ![c] = FALSE]
  /\ wire' = [wire EXCEPT ![c] = <<>>]
  /\ UNCHANGED <<sent, backlog, inbox, agentVars, tableVars, loopVars, readVars, pc, queue, said>>

\* The user reads, and the full socket has room again.
Drain(c) ==
  /\ Up
  /\ blocked[c]
  /\ blocked' = [blocked EXCEPT ![c] = FALSE]
  /\ edge' = [edge EXCEPT ![c] = TRUE]
  /\ UNCHANGED <<userVars, inbox, wire, agentVars, tableVars, loopVars, readVars, pc, queue, said>>
-----------------------------------------------------------------------------
(* The event loop *)

SERVER == 0

Ready == {c \in clients : edge[c]} \cup (IF backlog = <<>> THEN {} ELSE {SERVER})

Poll ==
  /\ pc = "poll"
  /\ Ready # {}
  /\ batch' = Ready
  /\ edge' = [c \in Users |-> edge[c] /\ c \notin batch']
  /\ pc' = "events"
  /\ UNCHANGED <<userVars, inbox, blocked, wire, agentVars, tableVars, todo, cur, ret, readVars, queue, said>>

AcceptAll ==
  /\ pc = "events" /\ SERVER \in batch
  /\ batch' = batch \ {SERVER}
  /\ queue' = queue \o [i \in DOMAIN backlog |-> Connecting(backlog[i])]
  /\ backlog' = <<>>
  /\ UNCHANGED <<sock, sent, socketVars, agentVars, tableVars, todo, cur, ret, readVars, pc, said>>

EventsDone ==
  /\ pc = "events" /\ batch = {}
  /\ pc' = "commands"
  /\ UNCHANGED <<userVars, socketVars, agentVars, tableVars, loopVars, readVars, queue, said>>

\* The stream of c is flushed next, then the server goes on where it is.
Flush(c) ==
  /\ pc' = "flush"
  /\ cur' = c
  /\ ret' = pc
  /\ from' = cursor[c]

\* The rest of handle_client_event: the stream is flushed if the event says it takes data.
Writable(c) ==
  /\ batch' = batch \ {c}
  /\ \/ ~blocked[c] /\ Flush(c)
     \/ UNCHANGED <<pc, cur, ret, from>>
  /\ UNCHANGED <<userVars, edge, blocked, wire, wbuf, cursor, resumed, tableVars, todo, said>>

\* The commands the whole frames in `units` may stand for: a name or a message, the first a name.
Decoded(c, units) ==
  {cmds \in [1 .. Len(units) \div 2 ->
             [cmd : {"announcement", "broadcast"}, of : {c}, no : 1 .. MaxUnits]] :
     \A i \in DOMAIN cmds : /\ cmds[i].no = units[2 * i] \div 2
                            /\ cmds[i].no = 1 => cmds[i].cmd = "announcement"}

\* read_from_stream returns Ok, with data or without.  decode is called until it fails, and has then
\* emptied the buffer: of a frame of which only the first part is there, that part is dropped.
Emptied(c) ==
  /\ sock[c] = "open" \/ inbox[c] # <<>>
  /\ missed' = [missed EXCEPT ![c] = @ \/ (sock[c] = "closed" /\ ~edge[c])]
  /\ inbox' = [inbox EXCEPT ![c] = <<>>]
  /\ IF inbox[c] = <<>>
     THEN UNCHANGED <<astray, lost>>
     ELSE LET u == Last(inbox[c]) IN
          /\ astray' = [astray EXCEPT ![c] = u % 2 = 1]
          /\ lost' = [lost EXCEPT ![c] = IF u % 2 = 1 /\ @ > MaxUnits THEN (u + 1) \div 2 ELSE @]

ReadEvent(c) ==
  /\ pc = "events" /\ c \in batch
  /\ ~astray[c]
  /\ \E cmds \in Decoded(c, inbox[c]) : queue' = queue \o cmds
  /\ Emptied(c)
  /\ Writable(c)

GarbledLines(c) == {Line(kind, c, 0) : kind \in {"announcement", "broadcast"}}
GarbledSoFar(c) == Len(SelectSeq(said \o queue, LAMBDA l : l \in GarbledLines(c)))

\* What a decode that starts in the second part of a frame makes of the units: text is read as tag
\* and length.  There may be no command in it, or some; the last may end where a frame does, and
\* the frames behind it are decoded as they should be.
Garbled(c, units) ==
  LET garbled == {cmds \in BoundedSeq(GarbledLines(c), MaxGarbled - GarbledSoFar(c)) : cmds # <<>>}
      proper  == UNION {Decoded(c, SubSeq(units, k, Len(units))) :
                          k \in {i \in 2 .. Len(units) : i % 2 = 0}}
  IN {<<>>} \cup garbled \cup {g \o p : g \in garbled, p \in proper}

\* The last read had dropped the first part of a frame.
ReadAstray(c) ==
  /\ pc = "events" /\ c \in batch
  /\ astray[c]
  /\ IF inbox[c] = <<>> THEN UNCHANGED queue
     ELSE \E cmds \in Garbled(c, inbox[c]) : queue' = queue \o cmds
  /\ Emptied(c)
  /\ Writable(c)

\* ... and an unknown tag, or text that is not UTF-8, ends the server.
ReadPanics(c) ==
  /\ pc = "events" /\ c \in batch
  /\ astray[c]
  /\ inbox[c] # <<>>
  /\ pc' = "panicked"
  /\ UNCHANGED <<userVars, socketVars, agentVars, tableVars, loopVars, readVars, queue, said>>

\* Mutant: the end of the stream is taken for a socket without data.
ReadEndIgnored(c) ==
  /\ pc = "events" /\ c \in batch
  /\ sock[c] = "closed"
  /\ inbox' = [inbox EXCEPT ![c] = <<>>]
  /\ Writable(c)
  /\ UNCHANGED <<readVars, queue>>

\* read_from_stream fails: the stream has ended, or the connection was reset.
ReadEnd(c) ==
  /\ pc = "events" /\ c \in batch
  /\ sock[c] = "closed"
  /\ queue' = Append(queue, Disconnect(c))
  /\ inbox' = [inbox EXCEPT ![c] = <<>>]
  /\ Writable(c)
  /\ UNCHANGED readVars
-----------------------------------------------------------------------------
(* StreamAgent::flush, one action for one round of its loop *)

flushRest == <<userVars, inbox, edge, tableVars, readVars, batch, todo, said>>

\* Mutant: clear empties the buffer only.
FlushDoneKeepingCursor(c) ==
  /\ pc = "flush" /\ cur = c
  /\ from = Len(wbuf[c])
  /\ wbuf' = [wbuf EXCEPT ![c] = <<>>]
  /\ pc' = ret
  /\ ret' = "poll"
  /\ cur' = Nobody
  /\ from' = 0
  /\ UNCHANGED <<flushRest, blocked, wire, cursor, resumed, queue>>

\* Back to the caller; the locals of flush are gone.
Return ==
  /\ pc' = ret
  /\ ret' = "poll"
  /\ cur' = Nobody
  /\ from' = 0

\* Nothing is left of the slice.
FlushDone(c) ==
  /\ pc = "flush" /\ cur = c
  /\ from = Len(wbuf[c])
  /\ wbuf' = [wbuf EXCEPT ![c] = <<>>]
  /\ cursor' = [cursor EXCEPT ![c] = 0]
  /\ Return
  /\ UNCHANGED <<flushRest, blocked, wire, resumed, queue>>

\* The socket takes n units; the slice is cut at the new cursor, counted from where it starts.
FlushWrite(c) ==
  /\ pc = "flush" /\ cur = c
  /\ \E n \in 1 .. Len(wbuf[c]) - from :
       /\ wire' = IF sock[c] = "open"
                  THEN [wire EXCEPT ![c] = @ \o SubSeq(wbuf[c], from + 1, from + n)]
                  ELSE wire
       /\ cursor' = [cursor EXCEPT ![c] = @ + n]
  /\ from' = from + cursor'[c]
  /\ resumed' = [resumed EXCEPT ![c] = @ \/ from > 0]
  /\ pc' = IF from' > Len(wbuf[c]) THEN "panicked" ELSE pc
  /\ UNCHANGED <<flushRest, cur, ret, blocked, wbuf, queue>>

\* Mutant: what the socket does not take is dropped.
FlushBlocksAndClears(c) ==
  /\ pc = "flush" /\ cur = c
  /\ from < Len(wbuf[c]) /\ sock[c] = "open"
  /\ blocked' = [blocked EXCEPT ![c] = TRUE]
  /\ wbuf' = [wbuf EXCEPT ![c] = <<>>]
  /\ cursor' = [cursor EXCEPT ![c] = 0]
  /\ Return
  /\ UNCHANGED <<flushRest, wire, resumed, queue>>

\* WouldBlock
FlushBlocks(c) ==
  /\ pc = "flush" /\ cur = c
  /\ from < Len(wbuf[c]) /\ sock[c] = "open"
  /\ blocked' = [blocked EXCEPT ![c] = TRUE]
  /\ Return
  /\ UNCHANGED <<flushRest, wire, wbuf, cursor, resumed, queue>>

\* Any other error; both callers of flush have the client dropped.
FlushFails(c) ==
  /\ pc = "flush" /\ cur = c
  /\ from < Len(wbuf[c]) /\ sock[c] = "closed"
  /\ queue' = Append(queue, Disconnect(c))
  /\ Return
  /\ UNCHANGED <<flushRest, blocked, wire, wbuf, cursor, resumed>>
-----------------------------------------------------------------------------
(* The commands *)

Takes(cmds) == pc = "commands" /\ todo = {} /\ queue # <<>> /\ Head(queue).cmd \in cmds

\* Announcement or Broadcast
Notify ==
  /\ Takes(Says)
  /\ queue' = Tail(queue)
  /\ said' = Append(said, Head(queue))
  /\ todo' = IF Head(queue).cmd = "broadcast" THEN clients \ {Head(queue).of} ELSE clients
  /\ UNCHANGED <<userVars, socketVars, agentVars, tableVars, batch, cur, ret, readVars, pc>>

\* encode puts the frame behind what is buffered and flushes.
Encode(c) ==
  /\ pc = "commands" /\ c \in todo
  /\ todo' = todo \ {c}
  /\ wbuf' = [wbuf EXCEPT ![c] = @ \o Frame(Len(said))]
  /\ Flush(c)
  /\ UNCHANGED <<userVars, socketVars, cursor, resumed, tableVars, batch, readVars, queue, said>>

\* Connect: registering the socket reports what is there already.
Insert ==
  /\ Takes({"connect"})
  /\ LET c == Head(queue).of IN
       /\ clients' = clients \cup {c}
       /\ joined' = [joined EXCEPT ![c] = Len(said)]
       /\ edge' = [edge EXCEPT ![c] = TRUE]
  /\ queue' = Tail(queue)
  /\ UNCHANGED <<userVars, inbox, blocked, wire, agentVars, loopVars, readVars, pc, said>>

\* Dropping the agent frees its buffer and closes the server's end of the socket.
DropAgent(c) ==
  /\ wbuf' = [wbuf EXCEPT ![c] = <<>>]
  /\ cursor' = [cursor EXCEPT ![c] = 0]
  /\ resumed' = [resumed EXCEPT ![c] = FALSE]
  /\ inbox' = [inbox EXCEPT ![c] = <<>>]
  /\ edge' = [edge EXCEPT ![c] = FALSE]

\* Disconnect, from either half of an event or from encode; only the first finds the client.
DropClient ==
  /\ Takes({"disconnect"})
  /\ LET c == Head(queue).of IN
       /\ clients' = clients \ {c}
       /\ DropAgent(c)
       /\ queue' = IF c \in clients THEN Append(Tail(queue), Line("left", c, 0)) ELSE Tail(queue)
  /\ UNCHANGED <<userVars, blocked, wire, from, joined, loopVars, readVars, pc, said>>

CommandsDone ==
  /\ pc = "commands" /\ todo = {} /\ queue = <<>>
  /\ pc' = "poll"
  /\ UNCHANGED <<userVars, socketVars, agentVars, tableVars, loopVars, readVars, queue, said>>
-----------------------------------------------------------------------------
Network == \E c \in Users : Connect(c) \/ Arrive(c) \/ Close(c) \/ Drain(c)

Server ==
  \/ Poll \/ AcceptAll \/ EventsDone \/ Notify \/ Insert \/ DropClient \/ CommandsDone
  \/ \E c \in Users : \/ ReadEvent(c) \/ ReadAstray(c) \/ ReadPanics(c) \/ ReadEnd(c)
                      \/ Encode(c)
                      \/ FlushDone(c) \/ FlushWrite(c) \/ FlushBlocks(c) \/ FlushFails(c)

Next == Network \/ Server

Spec == Init /\ [][Next]_vars

\* The loop runs whenever it has something to do; of users and network nothing is assumed.
FairSpec == Spec /\ WF_vars(Server)
-----------------------------------------------------------------------------
\* Types; the cursor stays within the buffer, and the loops over events and clients only
\* meet clients that are in the table.
TypeOK ==
  /\ sock \in [Users -> {"none", "open", "closed"}]
  /\ \A c \in Users : sent[c] \in 0 .. MaxUnits /\ inbox[c] \in Seq(1 .. MaxUnits)
  /\ backlog \in Seq(Users \ clients)
  /\ edge \in [Users -> BOOLEAN] /\ blocked \in [Users -> BOOLEAN]
  /\ \A c \in Users : /\ wire[c] \in Seq((1 .. Len(said)) \X {1, 2})
                     /\ wbuf[c] \in Seq((1 .. Len(said)) \X {1, 2})
                     /\ cursor[c] \in 0 .. Len(wbuf[c])
                     /\ joined[c] \in 0 .. Len(said)
  /\ queue \in Seq(Commands) /\ said \in Seq(Commands)
  /\ pc \in {"poll", "events", "commands", "flush", "panicked"}
  /\ ret \in {"poll", "events", "commands"}
  /\ clients \subseteq Users /\ todo \subseteq clients /\ batch \subseteq clients \cup {SERVER}
  /\ pc = "flush" => cur \in clients /\ from \in 0 .. Len(wbuf[cur])
  /\ lost \in [Users -> 1 .. MaxUnits + 1] /\ \A c \in Users : astray[c] => lost[c] <= MaxUnits
  /\ resumed \in [Users -> BOOLEAN] /\ astray \in [Users -> BOOLEAN] /\ missed \in [Users -> BOOLEAN]

Of(c)        == SelectSeq(said, LAMBDA l : l.of = c)
Spoken(c)    == SelectSeq(Of(c), LAMBDA l : l.no # 0)
Farewells(c) == SelectSeq(Of(c), LAMBDA l : l.cmd = "left")

\* A user's commands are carried out once each at most and in order, and none is left out before
\* the first whose frame was cut, whatever is garbled after it; a user leaves at most once, after
\* the last of them.
SaidOnceInOrder(c) ==
  /\ \A i \in DOMAIN Spoken(c) :
       /\ i < lost[c] => Spoken(c)[i].no = i
       /\ i > 1 => Spoken(c)[i].no > Spoken(c)[i - 1].no
  /\ Len(Farewells(c)) <= 1
  /\ Farewells(c) # <<>> => Last(Of(c)).cmd = "left"

\* Numbers of the lines told to c: those since it joined, without its own messages.
Told(c) ==
  SelectSeq([i \in 1 .. Len(said) - joined[c] |-> joined[c] + i],
            LAMBDA n : /\ ~(said[n].cmd = "broadcast" /\ said[n].of = c)
                       /\ ~(n = Len(said) /\ c \in todo))

\* What a connected client was sent and what is still buffered for it are the lines told to it.
ToldAll(c) ==
  c \in clients /\ sock[c] = "open" =>
    wire[c] \o SubSeq(wbuf[c], cursor[c] + 1, Len(wbuf[c])) = Frames(Told(c))

\* From what a user writes to what the others are sent nothing is repeated or out of order, nor
\* lost before the first frame that came in two reads (its command is lost, and those of frames that
\* came with its second part may be; later ones are carried out again), but for a client to which a
\* write was resumed inside its buffer; without such a write and such a frame the server does not
\* panic.
EveryoneHearsUnlessResumed ==
  /\ \A c \in Users : SaidOnceInOrder(c) /\ (~resumed[c] => ToldAll(c))
  /\ pc = "panicked" => \E c \in Users : resumed[c] \/ lost[c] <= MaxUnits

\* "this is needed, because it will return when write operation returns `WouldBlock` error."
\* (lib.rs:177, on cursor): flushing goes on where it stopped, and the client gets every unit once.
FlushGoesOn == \A c \in clients : IsPrefix(wire[c], Frames(Told(c)))

\* A client whose user hung up is removed and everybody is told, unless the end of the stream
\* came with data, or a panic ended the server.  (Nobody comes back.)
HangUpsNoticed ==
  []<>(\A c \in Users : sock[c] = "closed" =>
         \/ c \notin clients /\ Farewells(c) # <<>>
         \/ missed[c] \/ pc = "panicked")
=============================================================================
