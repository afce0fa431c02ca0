----------------------------- MODULE SpscCached -----------------------------
(***************************************************************************)
(* The crate spsc_bounded_cached: the ring buffer of SpscBounded with      *)
(* caches.  Each end works on a private copy of its own index and of the   *)
(* room it believes it has, and reads the other end's index only when that *)
(* belief is exhausted.  Indices are compared unmasked, so the ring is not *)
(* worn out by its first lap.                                              *)
(*                                                                         *)
(* One action is one access to shared memory: an atomic load or store, or  *)
(* the plain read or write of a slot.  Arithmetic on the private Cells is  *)
(* part of the access it follows.  Where the two crates agree this one     *)
(* takes the step of the other and says what becomes of its Cells.         *)
(***************************************************************************)
EXTENDS SpscBounded

VARIABLES ptail,      \* Producer.tail
          free,       \* Producer.free
          chead,      \* Consumer.head
          full        \* Consumer.full

cells == <<ptail, free, chead, full>>
cachedVars == <<vars, cells>>

\* Mutants: one slot too many, and one slot kept empty as other rings do.
RoomOffByOne(taken) == Cap + 1 - taken
RoomReservingASlot(taken) == Cap - 1 - taken

\* Producer::send recomputes the room it has from the consumer's index.
Room(taken) == Cap - taken
-----------------------------------------------------------------------------
ProducerInit ==   \* Producer::new
  /\ ptail = 0
  /\ free = Cap

ConsumerInit ==   \* Consumer::new
  /\ chead = 0
  /\ full = 0

CachedInit == Init /\ ProducerInit /\ ConsumerInit
-----------------------------------------------------------------------------
(* Producer::send *)

\* The owner calls send with a new element; the loop test reads only a Cell.
CachedSendCall ==
  /\ ppc = "idle"
  /\ made < MaxSend
  /\ made' = made + 1
  /\ ppc' = IF free = 0 THEN "available" ELSE "store"
  /\ UNCHANGED <<ringVars, consumerVars, accepted, rejected, cells>>

CachedSendAvailable == SendAvailable /\ UNCHANGED cells

SendLoadHead ==
  /\ ppc = "head"
  /\ free' = Room(ptail - head)
  /\ ppc' = IF free' = 0 THEN "available" ELSE "store"
  /\ UNCHANGED <<ringVars, consumerVars, made, accepted, rejected, ptail, chead, full>>

CachedSendStore ==
  /\ ppc = "store"
  /\ slot' = [slot EXCEPT ![Index(ptail)] = made]
  /\ ppc' = "publish"
  /\ UNCHANGED <<head, tail, available, ring, freed, consumerVars,
                 made, accepted, rejected, cells>>

\* Mutant: the private room count is not used up.
SendPublishKeepingRoom ==
  /\ ppc = "publish"
  /\ ptail' = ptail + 1
  /\ tail' = ptail + 1
  /\ accepted' = Append(accepted, made)
  /\ ppc' = "idle"
  /\ UNCHANGED <<slot, head, available, ring, freed, consumerVars,
                 made, rejected, free, chead, full>>

CachedSendPublish ==
  /\ ppc = "publish"
  /\ ptail' = ptail + 1
  /\ tail' = ptail + 1
  /\ free' = free - 1
  /\ accepted' = Append(accepted, made)
  /\ ppc' = "idle"
  /\ UNCHANGED <<slot, head, available, ring, freed, consumerVars,
                 made, rejected, chead, full>>

CachedDropProducer == DropProducer /\ UNCHANGED cells
-----------------------------------------------------------------------------
(* Consumer::recv *)

CachedRecvCall ==
  /\ cpc = "idle"
  /\ cpc' = IF full = 0 THEN "available" ELSE "load"
  /\ UNCHANGED <<ringVars, producerVars, seen, res, out, eof, cells>>

\* Mutant: a dropped producer ends the stream without another look at its index.
RecvAvailableNoRecheck ==
  /\ cpc = "available"
  /\ seen' = available
  /\ \/ available /\ cpc' = "tail" /\ UNCHANGED eof
     \/ ~available /\ cpc' = "idle" /\ eof' = TRUE
  /\ UNCHANGED <<ringVars, producerVars, res, out, cells>>

CachedRecvAvailable ==
  /\ cpc = "available"
  /\ seen' = available
  /\ cpc' = "tail"
  /\ UNCHANGED <<ringVars, producerVars, res, out, eof, cells>>

RecvLoadTail ==
  /\ cpc = "tail"
  /\ full' = tail - chead
  /\ \/ /\ full' > 0
        /\ cpc' = "load"
        /\ UNCHANGED eof
     \/ /\ full' = 0
        /\ seen
        /\ cpc' = "available"
        /\ UNCHANGED eof
     \/ /\ full' = 0
        /\ ~seen
        /\ cpc' = "idle"
        /\ eof' = TRUE
  /\ UNCHANGED <<ringVars, producerVars, seen, res, out, ptail, free, chead>>

CachedRecvLoad ==
  /\ cpc = "load"
  /\ res' = slot[Index(chead)]
  /\ cpc' = "publish"
  /\ UNCHANGED <<ringVars, producerVars, seen, out, eof, cells>>

CachedRecvPublish ==
  /\ cpc = "publish"
  /\ chead' = chead + 1
  /\ head' = chead + 1
  /\ full' = full - 1
  /\ out' = Append(out, res)
  /\ cpc' = "idle"
  /\ UNCHANGED <<slot, tail, available, ring, freed, producerVars, seen, res, eof, ptail, free>>

\* Mutant: the producer is not told.
CachedDropConsumerSilently == DropConsumerSilently /\ UNCHANGED cells

CachedDropConsumer == DropConsumer /\ UNCHANGED cells
-----------------------------------------------------------------------------
\* The last Arc goes: RingBuffer::drop reads out and drops what was never received.
CachedDropRing == DropRing /\ UNCHANGED cells

CachedProducer == CachedSendCall \/ CachedSendAvailable \/ SendLoadHead \/ CachedSendStore
                    \/ CachedSendPublish \/ CachedDropProducer
CachedConsumer == CachedRecvCall \/ CachedRecvAvailable \/ RecvLoadTail \/ CachedRecvLoad
                    \/ CachedRecvPublish \/ CachedDropConsumer
CachedTerminated == ~ring /\ UNCHANGED cachedVars

CachedNext == CachedProducer \/ CachedConsumer \/ CachedDropRing \/ CachedTerminated

CachedSpec == CachedInit /\ [][CachedNext]_cachedVars

\* Two threads the scheduler keeps running, and a destructor that runs once due.
CachedFairSpec ==
  /\ CachedSpec
  /\ WF_cachedVars(CachedProducer) /\ WF_cachedVars(CachedConsumer) /\ WF_cachedVars(CachedDropRing)
-----------------------------------------------------------------------------
CachedTypeOK ==
  /\ slot \in [0 .. Cap - 1 -> 0 .. MaxSend]
  /\ head \in Nat /\ tail \in Nat /\ ptail \in Nat /\ chead \in Nat
  /\ available \in BOOLEAN /\ seen \in BOOLEAN /\ eof \in BOOLEAN /\ ring \in BOOLEAN
  /\ free \in 0 .. Cap /\ full \in 0 .. Cap
  /\ made \in 0 .. MaxSend
  /\ res \in 0 .. MaxSend
  /\ ppc \in PCs /\ cpc \in CCs \ {"recheck"}
  /\ out \in Seq(1 .. MaxSend)
  /\ freed \in Seq(1 .. MaxSend)
  /\ accepted \in Seq(1 .. MaxSend)
  /\ rejected \in SUBSET (1 .. MaxSend)

\* The producer never writes the slot the consumer is reading: the plain
\* accesses in store and load do not race, which is what makes the two
\* `unsafe` blocks of send and recv sound.
NoDataRace ==
  ppc = "store" /\ cpc = "load" => Index(ptail) # Index(chead)

\* The private counts may be stale but only on the safe side: the producer
\* never believes in more room than there is, nor the consumer in more elements.
CachesConservative ==
  /\ free + (ptail - head) <= Cap
  /\ full <= tail - chead

\* Elements 1 .. Decided are those whose send has returned.
Decided == IF ppc \in {"idle", "dropped"} THEN made ELSE made - 1

\* elements_arrive_ordered, no_elements_lost and unused_elements_are_dropped
\* at once: what recv returned, followed by what is inside the ring (or was
\* dropped with it), is every accepted element once, in the order of sending;
\* the rest, no more and no less, went back to the caller in SendError.
FifoExactlyOnce ==
  /\ out \o (IF ring THEN Content ELSE freed) = [i \in 1 .. tail |-> i]
  /\ rejected = tail + 1 .. Decided

\* The specification this crate implements: send takes effect when tail is
\* stored, recv when head is.
Abs == INSTANCE Channel WITH
  Senders <- {"producer"},
  Elements <- 1 .. MaxSend,
  Capacity <- Cap,
  queue <- IF ring THEN Content ELSE <<>>,
  senders <- IF ppc = "dropped" THEN {} ELSE {"producer"},
  receiver <- cpc # "dropped"

\* Seen from outside, the ring with its cached indices is a bounded queue.
ImplementsChannel == Abs!Spec

\* Every element the owner hands to send is received, handed back or dropped
\* with the ring, and neither side spins for ever on a stale index or flag, the
\* consumer of an empty ring whose producer is gone included.
EveryElementSettled ==
  /\ \A e \in 1 .. MaxSend :
       made >= e ~> \/ e \in rejected
                    \/ \E i \in DOMAIN out : out[i] = e
                    \/ \E i \in DOMAIN freed : freed[i] = e
  /\ CallsReturn
=============================================================================
