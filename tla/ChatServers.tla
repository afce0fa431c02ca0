---------------------------- MODULE ChatServers ----------------------------
(***************************************************************************)
(* The chat served by threads or by tasks, and what both servers promise   *)
(* their users.  In the server with threads frames and lines come whole,   *)
(* and the variables AsyncServer adds stay as they are.                    *)
(***************************************************************************)
EXTENDS AsyncServer

CONSTANT Workers   \* threads of the executor: as many as the machine has processors

ASSUME WorkersAssumption == Workers \in Nat \ {0}

VARIABLE kind   \* the program that runs: thread_server or async_server

allVars == <<asyncVars, kind>>

ChatInit == AsyncInit /\ kind \in {"threads", "tasks"}

Whole(A) == A /\ UNCHANGED <<framingVars, writerVars>>

BrokerStep ==
  /\ UNCHANGED kind
  /\ \/ kind = "threads" /\ Whole(Broker)
     \/ kind = "tasks" /\ Up /\ AsyncBroker

ReaderStep(c) ==
  /\ UNCHANGED kind
  /\ \/ kind = "threads" /\ Whole(Reader(c))
     \/ kind = "tasks" /\ Up /\ AsyncReader(c)

UserStep(c) ==
  /\ UNCHANGED kind
  /\ \/ kind = "threads" /\ Whole(User(c))
     \/ kind = "tasks" /\ Up /\ AsyncUser(c)

ChatNext == BrokerStep \/ \E c \in Users : ReaderStep(c) \/ UserStep(c)

\* A task whose read fails never gives up its thread of the executor.  The broker is sure to be run
\* while there is a thread left; it may then be fed with Disconnects for ever and not give up that
\* one, so that readers are sure to be run only if there is one more.  (A task without a thread may
\* still take a step: a failing task can give way when the broker is using its socket.)
BrokerRuns    == kind = "threads" \/ Hanging < Workers
ReaderRuns(c) == kind = "threads" \/ rpc[c] = "failing" \/ Hanging = 0 \/ Hanging + 1 < Workers

\* Threads that can go on are run, and tasks as far as there are threads of the executor for them.
\* A user the broker waits for reads some time; of anyone else's reading, or of users writing,
\* nothing is assumed.
ChatSpec ==
  /\ ChatInit /\ [][ChatNext]_allVars
  /\ WF_allVars(BrokerRuns /\ (BrokerStep \/ \E c \in Users : UserStep(c) /\ Read(c)))
  /\ \A c \in Users : WF_allVars(ReaderRuns(c) /\ ReaderStep(c))
-----------------------------------------------------------------------------
\* From what a user writes to what the others are sent nothing is repeated or out of order, and
\* nothing lost before the first frame that was read in two parts (that one is, and what came with
\* it may be; later ones are carried out again), until a line to the other is written in pieces; a
\* connected user stays, and only a line in pieces ends the broker.  A user dropped over a failed
\* write may go on speaking after its farewell: its reader is still running.
EveryoneHearsUnlessBroken ==
  /\ \A c \in Users :
       /\ SaidOnceInOrder(c, lost[c])
       /\ ~cut[c] /\ Intact(c) => LeavesLast(c)
       /\ ~resumed[c] => ToldAll(c)
       /\ Stays(c)
  /\ bpc = "panicked" => \E c \in Users : resumed[c]

\* When a user hangs up the client is removed and everybody is told, whoever else is hanging up,
\* writing or slow to read at the time, and though the task that reads goes on sending Disconnects
\* for ever; unless such tasks have taken the threads that the broker or that task needs, or one of
\* the two has panicked.  (Nobody comes back, so what is true of everybody again and again is so of
\* each one who hung up from some time on.)
HangUpsAnnounced ==
  []<>(\A c \in Users : sock[c] = "closed" =>
         \/ c \notin clients /\ Farewells(c) # <<>>
         \/ ~BrokerRuns \/ ~ReaderRuns(c)
         \/ rpc[c] = "panicked" \/ bpc = "panicked")
=============================================================================
