---------------------------- MODULE AsyncServer ----------------------------
(***************************************************************************)
(* The chat server with tasks: groupchat/src/bin/async_server.rs, over     *)
(* AsyncStreamAgent of groupchat/src/lib.rs.  It is the server of          *)
(* ThreadServer with tasks for threads, and takes its steps where the two  *)
(* programs agree.  Where they do not: a frame that comes in two parts is  *)
(* read with futures that are dropped, a line is written piece by piece,   *)
(* and the task that reads never ends.                                     *)
(***************************************************************************)
EXTENDS ThreadServer

CONSTANTS LineLength,      \* units of a line on its way into a socket
          MaxDisconnects,  \* bound: Disconnects of one client in the queue
          MaxGarbled,      \* bound: commands of one client made of text
          MaxBroken,       \* bound: readers with a frame in parts, and clients with a line in pieces
          TaskNames        \* bound: of Names, those that users of this server give themselves

ASSUME LineAssumption ==
  LineLength \in Nat \ {0} /\ MaxDisconnects \in Nat \ {0} /\ MaxBroken \in Nat /\ MaxGarbled \in Nat
  /\ TaskNames \subseteq Names

Nobody == 0

VARIABLES part,     \* the command whose first part has arrived, without the rest
          astray,   \* is the reader inside a frame: that at the head of inbox, of part if it is empty
          lost,     \* history: number of the first command whose frame was read in two parts
          cur,      \* the client whose line has been taken by its socket in part
          cursor,   \* AgentAsyncWriter.cursor of that client
          from,     \* poll_flush: the slice `buf` starts after this unit of the line
          resumed   \* history: has a line to this client been written in pieces

framingVars == <<part, astray, lost>>
writerVars  == <<cur, cursor, from, resumed>>
asyncVars   == <<vars, framingVars, writerVars>>

AsyncInit ==
  /\ Init
  /\ part = [c \in Users |-> NoName]
  /\ astray = [c \in Users |-> FALSE]
  /\ lost = [c \in Users |-> MaxSends + 1]
  /\ cur = Nobody /\ cursor = 0 /\ from = 0
  /\ resumed = [c \in Users |-> FALSE]

\* With the broker gone, the next command ends the task that sends it: nothing is left to see.
Up == bpc # "panicked"

InParts == {c \in Users : part[c] # NoName}
Intact(c) == lost[c] > MaxSends
Broken == Cardinality(InParts \cup {c \in Users : ~Intact(c)})
          + Cardinality({c \in Users : c = cur \/ resumed[c]})
MayBreak == Broken < MaxBroken

-----------------------------------------------------------------------------
(* The users; what one of them writes may arrive in two parts. *)

WriteWhole(c) ==
  /\ c \notin InParts
  /\ Cardinality(InParts) + SumFunction(sent) < MaxSends
  /\ Write(c)
  /\ Last(inbox'[c]) \in TaskNames \cup {Message}
  /\ UNCHANGED <<framingVars, writerVars>>

WritePart(c) ==
  /\ sock[c] = "open"
  /\ c \notin InParts
  /\ MayBreak \/ ~Intact(c)
  /\ Cardinality(InParts) + SumFunction(sent) < MaxSends
  /\ \E command \in TaskNames \cup (IF sent[c] > 0 THEN {Message} ELSE {}) :
       part' = [part EXCEPT ![c] = command]
  /\ UNCHANGED <<vars, astray, lost, writerVars>>

ArriveRest(c) ==
  /\ sock[c] = "open"
  /\ c \in InParts
  /\ inbox' = [inbox EXCEPT ![c] = Append(@, part[c])]
  /\ sent' = [sent EXCEPT ![c] = @ + 1]
  /\ part' = [part EXCEPT ![c] = NoName]
  /\ UNCHANGED <<sock, socketVars, readerVars, brokerVars, queue, cut, astray, lost, writerVars>>

AsyncUser(c) ==
  \/ (Accept(c) \/ Read(c) \/ Close(c)) /\ UNCHANGED <<framingVars, writerVars>>
  \/ WriteWhole(c) \/ WritePart(c) \/ ArriveRest(c)
-----------------------------------------------------------------------------
(* The reading tasks *)

\* poll_next builds a new read_frame each time: while the frames are whole it reads like decode.
AsyncRead(c) ==
  /\ ~astray[c]
  /\ ReadName(c) \/ ReadMessage(c)
  /\ UNCHANGED <<framingVars, writerVars>>

AsyncAnnounce(c) == Announce(c) /\ UNCHANGED <<framingVars, writerVars>>

\* Pending: the future is dropped, with the bytes it has read.
PollPart(c) ==
  /\ rpc[c] = "decode"
  /\ sock[c] = "open" /\ inbox[c] = <<>>
  /\ c \in InParts /\ ~astray[c]
  /\ astray' = [astray EXCEPT ![c] = TRUE]
  /\ lost' = [lost EXCEPT ![c] = IF Intact(c) THEN sent[c] + 1 ELSE @]
  /\ UNCHANGED <<vars, part, writerVars>>

\* From there text is read as tag and length.  Mostly the length is more than there is: Pending
\* again, with all there is read and dropped, so that the next frame is read from its start.
DropsAll(c) ==
  /\ rpc[c] = "decode"
  /\ sock[c] = "open" /\ inbox[c] # <<>>
  /\ astray[c]
  /\ inbox' = [inbox EXCEPT ![c] = <<>>]
  /\ astray' = [astray EXCEPT ![c] = c \in InParts]
  /\ UNCHANGED <<sock, sent, socketVars, readerVars, brokerVars, queue, cut, part, lost, writerVars>>

Garbage(kind, c, now) == [kind |-> kind, of |-> c, no |-> 0, was |-> name[c], now |-> now]
GarbledLines(c) == {l \in Lines : l.of = c /\ l.no = 0 /\ l.kind # "left"}
GarbledSoFar(c) == Len(Only(said, GarbledLines(c))) + Len(Only(queue, {Say(l) : l \in GarbledLines(c)}))

\* It may also make a command of its own, which ends anywhere in what there is ...
ReadAstray(c) ==
  /\ rpc[c] = "decode"
  /\ astray[c] /\ inbox[c] # <<>>
  /\ GarbledSoFar(c) < MaxGarbled
  /\ \E k \in 0 .. Len(inbox[c]), inside \in BOOLEAN :
       /\ IF inside THEN k < Len(inbox[c]) \/ c \in InParts ELSE k > 0
       /\ inbox' = [inbox EXCEPT ![c] = SubSeq(@, k + 1, Len(@))]
       /\ astray' = [astray EXCEPT ![c] = inside]
  /\ \/ /\ name' = [name EXCEPT ![c] = Garbled]
        /\ note' = [note EXCEPT ![c] = Garbage("announcement", c, Garbled)]
        /\ rpc' = [rpc EXCEPT ![c] = "announce"]
        /\ UNCHANGED queue
     \/ queue' = Append(queue, Say(Garbage("broadcast", c, name[c]))) /\ UNCHANGED readerVars
  /\ UNCHANGED <<sock, sent, socketVars, brokerVars, cut, part, lost, writerVars>>

\* ... or, with an unknown tag or text that is not UTF-8, ends the task.
ReadPanics(c) ==
  /\ rpc[c] = "decode"
  /\ astray[c] /\ inbox[c] # <<>>
  /\ rpc' = [rpc EXCEPT ![c] = "panicked"]
  /\ UNCHANGED <<userVars, socketVars, name, note, brokerVars, queue, cut, framingVars, writerVars>>

\* Mutant: the task takes an error for the end of the stream.
ReaderStops(c) ==
  /\ rpc[c] = "decode"
  /\ sock[c] = "closed"
  /\ rpc' = [rpc EXCEPT ![c] = "ended"]
  /\ UNCHANGED <<userVars, socketVars, name, note, brokerVars, queue, cut, framingVars, writerVars>>

\* read_frame fails, at the end of the stream or because it was reset: Disconnect.  The stream
\* never yields None, so the task polls again, and fails again; never Pending, it never yields.
ReaderFails(c) ==
  /\ rpc[c] \in {"decode", "failing"}
  /\ sock[c] = "closed"
  /\ Len(Only(queue, {Disconnect(c)})) < MaxDisconnects
  /\ rpc' = [rpc EXCEPT ![c] = "failing"]
  /\ inbox' = [inbox EXCEPT ![c] = <<>>]
  /\ queue' = Append(queue, Disconnect(c))
  /\ UNCHANGED <<sock, sent, socketVars, name, note, brokerVars, cut, framingVars, writerVars>>

\* The threads of the executor that are lost to such tasks.
Hanging == Cardinality({c \in Users : rpc[c] = "failing"})

AsyncReader(c) ==
  \/ AsyncRead(c) \/ AsyncAnnounce(c)
  \/ PollPart(c) \/ DropsAll(c) \/ ReadAstray(c) \/ ReadPanics(c) \/ ReaderFails(c)
-----------------------------------------------------------------------------
(* The broker: start_send puts the line into the buffer, poll_flush writes it. *)

\* The socket of c takes n units; a slice that starts at `from` is cut at the new cursor.
Takes(c, n) ==
  /\ bpc = "notify" /\ c \in todo
  /\ cur \in {Nobody, c}
  /\ IF sock[c] = "open" THEN unread[c] < Room ELSE ~cut[c]
  /\ n <= LineLength - from
  /\ resumed' = [resumed EXCEPT ![c] = @ \/ cur = c]

Cut(n) == from + cursor + n

\* Something of the slice is left.
SendPart(c) ==
  /\ \E n \in 1 .. LineLength :
       /\ Takes(c, n)
       /\ Cut(n) < LineLength
       /\ cur = c \/ resumed[c] \/ MayBreak
       /\ cursor' = cursor + n
       /\ from' = Cut(n)
  /\ cur' = c
  /\ UNCHANGED <<vars, framingVars>>

NoLineLeft == cur' = Nobody /\ cursor' = 0 /\ from' = 0

\* Nothing is left of the slice, and the line counts as sent.
SendRest(c) ==
  /\ \E n \in 1 .. LineLength : Takes(c, n) /\ Cut(n) = LineLength
  /\ NoLineLeft
  /\ IF sock[c] = "open"
     THEN /\ got' = [got EXCEPT ![c] = IF resumed'[c] THEN @ ELSE Append(@, line)]
          /\ unread' = [unread EXCEPT ![c] = @ + 1]
     ELSE UNCHANGED socketVars
  /\ Done(c)
  /\ UNCHANGED <<queue, cut, framingVars>>

\* The cut lies behind the end of the slice.
SendPanics(c) ==
  /\ \E n \in 1 .. LineLength : Takes(c, n) /\ Cut(n) > LineLength
  /\ bpc' = "panicked"
  /\ UNCHANGED <<userVars, socketVars, readerVars, clients, line, todo, said, joined, queue, cut,
                 framingVars, cur, cursor, from>>

\* Pending: the next poll starts with the rest of the buffer.
SendWaits(c) ==
  /\ bpc = "notify" /\ cur = c
  /\ sock[c] = "open"
  /\ from # cursor
  /\ from' = cursor
  /\ UNCHANGED <<vars, framingVars, cur, cursor, resumed>>

\* An error; every write to c after it fails too, so that what stays in its buffer is never sent.
AsyncSendFails(c) ==
  /\ cur \in {Nobody, c}
  /\ SendFails(c)
  /\ NoLineLeft
  /\ UNCHANGED <<framingVars, resumed>>

AsyncBroker ==
  \/ (Notify \/ Spawn \/ Insert \/ DropClient) /\ UNCHANGED <<framingVars, writerVars>>
  \/ \E c \in Users : SendPart(c) \/ SendRest(c) \/ SendPanics(c) \/ SendWaits(c) \/ AsyncSendFails(c)

AsyncNext == Up /\ (AsyncBroker \/ \E c \in Users : AsyncReader(c) \/ AsyncUser(c))

AsyncSpec == AsyncInit /\ [][AsyncNext]_asyncVars
-----------------------------------------------------------------------------
\* Types; a line is being written only in the loop over the clients, and its slice starts in it.
AsyncTypeOK ==
  /\ TypeOK
  /\ part \in [Users -> Names \cup {Message, NoName}]
  /\ astray \in [Users -> BOOLEAN] /\ lost \in [Users -> 1 .. MaxSends + 1]
  /\ \A c \in Users : astray[c] => ~Intact(c)
  /\ resumed \in [Users -> BOOLEAN]
  /\ cur # Nobody => cur \in todo
  /\ from \in 0 .. LineLength - 1 /\ cursor \in 0 .. from /\ (cursor > 0 <=> cur # Nobody)
=============================================================================
