------------------------------ MODULE Channel ------------------------------
(***************************************************************************)
(* What the four channel crates (spsc_bounded, spsc_bounded_cached,        *)
(* mpsc_bounded, mpsc_bounded_cached) promise to their users, with no ring *)
(* buffer, cached index, lock or atomic in sight: a bounded first-in       *)
(* first-out queue whose two ends can be dropped.                          *)
(*                                                                         *)
(* The tests of the crates state the promise: elements_arrive_ordered,     *)
(* no_elements_lost and unused_elements_are_dropped.                       *)
(***************************************************************************)
EXTENDS Naturals, Sequences

CONSTANTS Senders,    \* identities a Producer handle can have
          Elements,   \* the values that travel
          Capacity    \* most elements the channel holds at once

VARIABLES queue,      \* elements accepted and not yet received, oldest first
          out,        \* what recv has returned so far, in order
          rejected,   \* elements handed back inside SendError
          freed,      \* elements dropped together with the channel
          eof,        \* has some recv returned RecvError
          senders,    \* live Producer handles
          receiver    \* is the Consumer alive

vars == <<queue, out, rejected, freed, eof, senders, receiver>>

Init ==
  /\ queue = <<>>
  /\ out = <<>>
  /\ rejected = {}
  /\ freed = <<>>
  /\ eof = FALSE
  /\ \E s \in Senders : senders = {s}
  /\ receiver = TRUE

\* send returns Ok: there was room, and the element is behind all others.
Send(s, e) ==
  /\ s \in senders
  /\ Len(queue) < Capacity
  /\ queue' = Append(queue, e)
  /\ UNCHANGED <<out, rejected, freed, eof, senders, receiver>>

\* send returns Err(SendError(e)): only when nobody is left to receive e.
Reject(s, e) ==
  /\ s \in senders
  /\ ~receiver
  /\ rejected' = rejected \cup {e}
  /\ UNCHANGED <<queue, out, freed, eof, senders, receiver>>

\* recv returns the oldest element.
Recv ==
  /\ receiver
  /\ queue # <<>>
  /\ out' = Append(out, Head(queue))
  /\ queue' = Tail(queue)
  /\ UNCHANGED <<rejected, freed, eof, senders, receiver>>

\* recv returns Err(RecvError): nothing is left and nobody can send more.
EndOfStream ==
  /\ receiver
  /\ senders = {}
  /\ queue = <<>>
  /\ eof' = TRUE
  /\ UNCHANGED <<queue, out, rejected, freed, senders, receiver>>

Clone(s, t) ==
  /\ s \in senders
  /\ t \in Senders \ senders
  /\ senders' = senders \cup {t}
  /\ UNCHANGED <<queue, out, rejected, freed, eof, receiver>>

DropSender(s) ==
  /\ s \in senders
  /\ senders' = senders \ {s}
  /\ UNCHANGED <<queue, out, rejected, freed, eof, receiver>>

DropReceiver ==
  /\ receiver
  /\ receiver' = FALSE
  /\ UNCHANGED <<queue, out, rejected, freed, eof, senders>>

\* With the last handle the channel goes, and everything still inside it.
Free ==
  /\ senders = {}
  /\ ~receiver
  /\ freed' = freed \o queue
  /\ queue' = <<>>
  /\ UNCHANGED <<out, rejected, eof, senders, receiver>>

Next ==
  \/ \E s \in Senders, e \in Elements : Send(s, e) \/ Reject(s, e)
  \/ Recv
  \/ EndOfStream
  \/ \E s, t \in Senders : Clone(s, t)
  \/ \E s \in Senders : DropSender(s)
  \/ DropReceiver
  \/ Free

Spec == Init /\ [][Next]_vars
=============================================================================
