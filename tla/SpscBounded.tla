---------------------------- MODULE SpscBounded ----------------------------
(***************************************************************************)
(* The crate spsc_bounded: a lock-free ring buffer with one Producer and   *)
(* one Consumer on two threads.  Every send and recv reads the other end's *)
(* index.  The test for a full ring compares a masked tail with an         *)
(* unmasked head, so it works only until head has gone once around.        *)
(*                                                                         *)
(* One action is one access to memory the other thread writes.  An end's   *)
(* own index has no other writer; reading it is part of the next access.   *)
(* Element e is the e-th value the producer's owner builds for sending, so *)
(* order and identity are visible.  SpscCached extends this module.        *)
(***************************************************************************)
EXTENDS Naturals, Sequences

CONSTANTS Cap,      \* slots of the ring: 256 in channel(), any power of two in new()
          MaxSend   \* bound: number of elements the owner of the producer sends

\* next_power_of_two never returns 0; nothing below needs more than that.
ASSUME CapAssumption == Cap \in Nat \ {0}
ASSUME MaxSendAssumption == MaxSend \in Nat

Empty == 0             \* content of a slot nothing was written to yet
Torn  == MaxSend + 1   \* what a read racing with a write of the same slot may see

VARIABLES slot,       \* RingBuffer.inner
          head,       \* RingBuffer.head
          tail,       \* RingBuffer.tail
          available,  \* RingBuffer.available
          ppc,        \* where the producer's thread is
          made,       \* elements built so far; the one being sent, if any, is the last
          cpc,        \* where the consumer's thread is
          seen,       \* pop_front's local `available`
          res,        \* pop_front's local `res`
          out,        \* history: what recv returned, in order
          accepted,   \* history: elements published, in order
          rejected,   \* history: elements SendError handed back
          eof,        \* history: has recv returned RecvError
          ring,       \* is the RingBuffer still allocated
          freed       \* history: elements dropped by RingBuffer::drop, in order

ringVars == <<slot, head, tail, available, ring, freed>>
producerVars == <<ppc, made, accepted, rejected>>
consumerVars == <<cpc, seen, res, out, eof>>
vars == <<ringVars, producerVars, consumerVars>>

PCs == {"idle", "head", "available", "store", "publish", "dropped"}
CCs == {"idle", "tail", "available", "recheck", "load", "publish", "dropped"}

\* Mutant: a mask one bit short.
IndexHalf(pos) == pos % ((Cap + 1) \div 2)

\* pos & (inner.len() - 1), for a power of two: the slot a position lives in.
Index(pos) == pos % Cap

\* Mutant: no slot is kept free, so a full ring looks like an empty one.
FullWithoutGap(t, h) == t % Cap = h /\ t # h

\* RingBuffer::full: the tail is masked, the head is not.
Full(t, h) == Index(t + 1) = h
-----------------------------------------------------------------------------
Init ==
  /\ slot = [i \in 0 .. Cap - 1 |-> Empty]
  /\ head = 0
  /\ tail = 0
  /\ available = TRUE
  /\ ring = TRUE
  /\ freed = <<>>
  /\ ppc = "idle"
  /\ made = 0
  /\ accepted = <<>>
  /\ rejected = {}
  /\ cpc = "idle"
  /\ seen = TRUE
  /\ res = Empty
  /\ out = <<>>
  /\ eof = FALSE
-----------------------------------------------------------------------------
(* RingBuffer::push_back *)

SendCall ==
  /\ ppc = "idle"
  /\ made < MaxSend
  /\ made' = made + 1
  /\ ppc' = "head"
  /\ UNCHANGED <<ringVars, consumerVars, accepted, rejected>>

\* The loop test reads the consumer's index.
SendFull ==
  /\ ppc = "head"
  /\ ppc' = IF Full(tail, head) THEN "available" ELSE "store"
  /\ UNCHANGED <<ringVars, consumerVars, made, accepted, rejected>>

SendAvailable ==
  /\ ppc = "available"
  /\ \/ /\ available
        /\ ppc' = "head"
        /\ UNCHANGED rejected
     \/ /\ ~available
        /\ ppc' = "idle"
        /\ rejected' = rejected \cup {made}
  /\ UNCHANGED <<ringVars, consumerVars, made, accepted>>

SendStore ==
  /\ ppc = "store"
  /\ slot' = [slot EXCEPT ![Index(tail)] = made]
  /\ ppc' = "publish"
  /\ UNCHANGED <<head, tail, available, ring, freed, consumerVars, made, accepted, rejected>>

SendPublish ==
  /\ ppc = "publish"
  /\ tail' = tail + 1
  /\ accepted' = Append(accepted, made)
  /\ ppc' = "idle"
  /\ UNCHANGED <<slot, head, available, ring, freed, consumerVars, made, rejected>>

DropProducer ==
  /\ ppc = "idle"
  /\ available' = FALSE
  /\ ppc' = "dropped"
  /\ UNCHANGED <<slot, head, tail, ring, freed, consumerVars, made, accepted, rejected>>
-----------------------------------------------------------------------------
(* RingBuffer::pop_front *)

RecvCall ==
  /\ cpc = "idle"
  /\ cpc' = "tail"
  /\ UNCHANGED <<ringVars, producerVars, seen, res, out, eof>>

RecvEmpty ==
  /\ cpc = "tail"
  /\ cpc' = IF head = tail THEN "available" ELSE "load"
  /\ UNCHANGED <<ringVars, producerVars, seen, res, out, eof>>

RecvAvailable ==
  /\ cpc = "available"
  /\ seen' = available
  /\ cpc' = "recheck"
  /\ UNCHANGED <<ringVars, producerVars, res, out, eof>>

\* Mutant: the flag decides alone, without a second look at the tail.
RecvNoRecheck ==
  /\ cpc = "recheck"
  /\ \/ seen /\ cpc' = "tail" /\ UNCHANGED eof
     \/ ~seen /\ cpc' = "idle" /\ eof' = TRUE
  /\ UNCHANGED <<ringVars, producerVars, seen, res, out>>

\* Mutant: pop_front tests for an empty ring once instead of in a loop.
RecvRecheckOnce ==
  /\ cpc = "recheck"
  /\ \/ (head # tail \/ seen) /\ cpc' = "load" /\ UNCHANGED eof
     \/ head = tail /\ ~seen /\ cpc' = "idle" /\ eof' = TRUE
  /\ UNCHANGED <<ringVars, producerVars, seen, res, out>>

RecvRecheck ==
  /\ cpc = "recheck"
  /\ \/ /\ head # tail
        /\ cpc' = "load"
        /\ UNCHANGED eof
     \/ /\ head = tail
        /\ seen
        /\ cpc' = "tail"
        /\ UNCHANGED eof
     \/ /\ head = tail
        /\ ~seen
        /\ cpc' = "idle"
        /\ eof' = TRUE
  /\ UNCHANGED <<ringVars, producerVars, seen, res, out>>

\* The producer is about to write the slot the consumer is about to read.
SameSlot == ppc = "store" /\ cpc = "load" /\ Index(tail) = Index(head)

RecvLoad ==
  /\ cpc = "load"
  /\ \/ res' = slot[Index(head)]
     \/ SameSlot /\ res' = Torn
  /\ cpc' = "publish"
  /\ UNCHANGED <<ringVars, producerVars, seen, out, eof>>

RecvPublish ==
  /\ cpc = "publish"
  /\ head' = head + 1
  /\ out' = Append(out, res)
  /\ cpc' = "idle"
  /\ UNCHANGED <<slot, tail, available, ring, freed, producerVars, seen, res, eof>>

\* Mutant: the producer is not told.
DropConsumerSilently ==
  /\ cpc = "idle"
  /\ cpc' = "dropped"
  /\ UNCHANGED <<ringVars, producerVars, seen, res, out, eof>>

DropConsumer ==
  /\ cpc = "idle"
  /\ available' = FALSE
  /\ cpc' = "dropped"
  /\ UNCHANGED <<slot, head, tail, ring, freed, producerVars, seen, res, out, eof>>
-----------------------------------------------------------------------------
\* What the slots at positions head .. tail - 1 hold, oldest first.
Content == [i \in 1 .. tail - head |-> slot[Index(head + i - 1)]]

\* Mutant: the destructor drops the whole ring, received elements included.
DropRingWhole ==
  /\ ppc = "dropped"
  /\ cpc = "dropped"
  /\ ring
  /\ ring' = FALSE
  /\ freed' = [i \in 1 .. Cap |-> slot[i - 1]]
  /\ UNCHANGED <<slot, head, tail, available, producerVars, consumerVars>>

\* The last Arc goes: RingBuffer::drop drops what it finds from head to tail.
DropRing ==
  /\ ppc = "dropped"
  /\ cpc = "dropped"
  /\ ring
  /\ ring' = FALSE
  /\ freed' = Content
  /\ UNCHANGED <<slot, head, tail, available, producerVars, consumerVars>>

Producer == SendCall \/ SendFull \/ SendAvailable \/ SendStore \/ SendPublish \/ DropProducer
Consumer == RecvCall \/ RecvEmpty \/ RecvAvailable \/ RecvRecheck \/ RecvLoad
              \/ RecvPublish \/ DropConsumer
Terminated == ~ring /\ UNCHANGED vars

Next == Producer \/ Consumer \/ DropRing \/ Terminated

Spec == Init /\ [][Next]_vars

\* Two threads the scheduler keeps running, and a destructor that runs once due.
FairSpec == Spec /\ WF_vars(Producer) /\ WF_vars(Consumer) /\ WF_vars(DropRing)
-----------------------------------------------------------------------------
TypeOK ==
  /\ slot \in [0 .. Cap - 1 -> 0 .. MaxSend]
  /\ tail \in 0 .. MaxSend /\ head \in 0 .. tail
  /\ available \in BOOLEAN /\ seen \in BOOLEAN /\ eof \in BOOLEAN /\ ring \in BOOLEAN
  /\ made \in 0 .. MaxSend
  /\ res \in 0 .. Torn
  /\ ppc \in PCs /\ cpc \in CCs
  /\ out \in Seq(0 .. Torn)
  /\ freed \in Seq(0 .. MaxSend)
  /\ accepted \in Seq(1 .. MaxSend)
  /\ rejected \in SUBSET (1 .. MaxSend)

\* On the first lap the crate does what it promises: as long as fewer than
\* Cap elements have been received the producer stops one slot short of the
\* consumer, no slot is written while it is read, and what was received
\* followed by what is inside is what was sent.
FirstLapIsExact ==
  head < Cap =>
    /\ tail - head < Cap
    /\ ~SameSlot
    /\ out \o Content = accepted

\* RecvError means the end, on every lap: the producer is gone and as many
\* elements were received as were published.
EofOnlyAtEnd ==
  eof => ppc = "dropped" /\ Len(out) = tail

\* No call spins for ever: a send ends when the consumer makes room or is
\* dropped, a recv when the producer publishes or is dropped.
CallsReturn ==
  /\ ppc \in PCs \ {"idle", "dropped"} ~> ppc = "idle"
  /\ cpc \in CCs \ {"idle", "dropped"} ~> cpc = "idle"

\* The tests elements_arrive_ordered and no_elements_lost, for any number of
\* elements: recv returns the accepted elements in order, none missing.
\* full() breaks it: with head past the first lap the ring is never full, and
\* the producer overwrites elements nobody has received.
ElementsArriveOrdered ==
  \A i \in DOMAIN out : out[i] = accepted[i]
=============================================================================
