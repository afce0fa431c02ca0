---------------------------- MODULE MpscBounded ----------------------------
(***************************************************************************)
(* The crate mpsc_bounded: a ring buffer whose producers take turns under  *)
(* a mutex around tail, while the single consumer takes no lock.  What     *)
(* passes between the two sides is the atomic count `len`.                 *)
(*                                                                         *)
(* One action is one access to memory another thread may touch; a value    *)
(* only the lock's holder or only the consumer touches moves with the next *)
(* access, and giving the lock back is part of the last access under it.   *)
(* The n-th element producer p's owner sends is <<p, n>>.                  *)
(***************************************************************************)
EXTENDS Naturals, Sequences, FiniteSets

CONSTANTS Producers,  \* handles that can exist: the first and its clones
          Nobody,     \* the mutex is free
          Cap,        \* slots of the ring: 256 in channel(), any power of two in new()
          MaxSend     \* bound: number of elements each owner sends

ASSUME CapAssumption == Cap \in Nat \ {0}
ASSUME MaxSendAssumption == MaxSend \in Nat
ASSUME ProducersAssumption == IsFiniteSet(Producers) /\ Nobody \notin Producers

Empty  == <<>>   \* content of a slot nothing was written to yet
Elements == Producers \X (1 .. MaxSend)

VARIABLES slot,      \* RingBuffer.inner
          head,      \* RingBuffer.head
          tail,      \* the number inside RingBuffer.tail
          lock,      \* who holds the mutex of RingBuffer.tail
          len,       \* RingBuffer.len
          px_count,  \* RingBuffer.px_count
          cx_count,  \* RingBuffer.cx_count
          ppc,       \* ppc[p]: where p's thread is
          made,      \* made[p]: elements p's owner has built
          cpc,       \* where the consumer's thread is
          seen,      \* pop_front's local `px_exist`
          res,       \* pop_front's local `res`
          out,       \* history: what recv returned, in order
          rejected,  \* history: elements SendError handed back
          eof,       \* history: has recv returned RecvError
          ring,      \* is the RingBuffer still allocated
          freed      \* history: elements dropped by RingBuffer::drop, in order

producerVars == <<ppc, made, rejected>>
consumerVars == <<cpc, seen, res, out, eof>>
dropVars == <<ring, freed>>
vars == <<slot, head, tail, lock, len, px_count, cx_count,
          producerVars, consumerVars, dropVars>>

PCs == {"unborn", "idle", "lock", "full", "alive", "store", "publish", "dropped"}
CCs == {"idle", "empty", "exist", "recheck", "load", "release", "dropped"}

\* pos & (inner.len() - 1), for a power of two: the slot a position lives in.
Index(pos) == pos % Cap

Live(p) == ppc[p] \notin {"unborn", "dropped"}
InCall(p) == ppc[p] \notin {"unborn", "idle", "dropped"}
-----------------------------------------------------------------------------
RingInit ==   \* RingBuffer::new
  /\ slot = [i \in 0 .. Cap - 1 |-> Empty]
  /\ head = 0
  /\ tail = 0
  /\ lock = Nobody
  /\ len = 0
  /\ px_count = 1
  /\ cx_count = TRUE
  /\ ring = TRUE
  /\ freed = <<>>

HandlesInit ==   \* channel(): one Producer and one Consumer
  /\ \E p \in Producers : ppc = [q \in Producers |-> IF q = p THEN "idle" ELSE "unborn"]
  /\ made = [p \in Producers |-> 0]
  /\ rejected = {}
  /\ cpc = "idle"
  /\ seen = TRUE
  /\ res = Empty
  /\ out = <<>>
  /\ eof = FALSE

Init == RingInit /\ HandlesInit
-----------------------------------------------------------------------------
(* RingBuffer::push_back *)

SendCall(p) ==
  /\ ppc[p] = "idle"
  /\ made[p] < MaxSend
  /\ made' = [made EXCEPT ![p] = @ + 1]
  /\ ppc' = [ppc EXCEPT ![p] = "lock"]
  /\ UNCHANGED <<slot, head, tail, lock, len, px_count, cx_count,
                 rejected, consumerVars, dropVars>>

\* The top of the loop.
SendLock(p) ==
  /\ ppc[p] = "lock"
  /\ lock = Nobody
  /\ lock' = p
  /\ ppc' = [ppc EXCEPT ![p] = "full"]
  /\ UNCHANGED <<slot, head, tail, len, px_count, cx_count,
                 made, rejected, consumerVars, dropVars>>

\* Mutant: `>` where `>=` is meant.
SendFullLate(p) ==
  /\ ppc[p] = "full"
  /\ ppc' = [ppc EXCEPT ![p] = IF len > Cap THEN "alive" ELSE "store"]
  /\ UNCHANGED <<slot, head, tail, lock, len, px_count, cx_count,
                 made, rejected, consumerVars, dropVars>>

SendFull(p) ==
  /\ ppc[p] = "full"
  /\ ppc' = [ppc EXCEPT ![p] = IF len = Cap THEN "alive" ELSE "store"]
  /\ UNCHANGED <<slot, head, tail, lock, len, px_count, cx_count,
                 made, rejected, consumerVars, dropVars>>

\* Mutant: the producer goes round the loop without giving the lock back.
SendAliveKeepingLock(p) ==
  /\ ppc[p] = "alive"
  /\ \/ cx_count /\ ppc' = [ppc EXCEPT ![p] = "lock"] /\ UNCHANGED rejected
     \/ ~cx_count /\ ppc' = [ppc EXCEPT ![p] = "idle"]
                  /\ rejected' = rejected \cup {<<p, made[p]>>}
  /\ UNCHANGED <<slot, head, tail, lock, len, px_count, cx_count,
                 made, consumerVars, dropVars>>

\* Both ways out of the branch drop the guard and with it the lock.
SendAlive(p) ==
  /\ ppc[p] = "alive"
  /\ lock' = Nobody
  /\ \/ /\ cx_count
        /\ ppc' = [ppc EXCEPT ![p] = "lock"]
        /\ UNCHANGED rejected
     \/ /\ ~cx_count
        /\ ppc' = [ppc EXCEPT ![p] = "idle"]
        /\ rejected' = rejected \cup {<<p, made[p]>>}
  /\ UNCHANGED <<slot, head, tail, len, px_count, cx_count,
                 made, consumerVars, dropVars>>

SendStore(p) ==
  /\ ppc[p] = "store"
  /\ slot' = [slot EXCEPT ![Index(tail)] = <<p, made[p]>>]
  /\ tail' = tail + 1
  /\ ppc' = [ppc EXCEPT ![p] = "publish"]
  /\ UNCHANGED <<head, lock, len, px_count, cx_count,
                 made, rejected, consumerVars, dropVars>>

SendPublish(p) ==
  /\ ppc[p] = "publish"
  /\ len' = len + 1
  /\ lock' = Nobody
  /\ ppc' = [ppc EXCEPT ![p] = "idle"]
  /\ UNCHANGED <<slot, head, tail, px_count, cx_count,
                 made, rejected, consumerVars, dropVars>>

\* Mutant: a clone is not counted.
CloneUncounted(p, q) ==
  /\ ppc[p] = "idle"
  /\ ppc[q] = "unborn"
  /\ ppc' = [ppc EXCEPT ![q] = "idle"]
  /\ UNCHANGED <<slot, head, tail, lock, len, px_count, cx_count,
                 made, rejected, consumerVars, dropVars>>

\* Producer::clone: a new handle, born idle.
Clone(p, q) ==
  /\ ppc[p] = "idle"
  /\ ppc[q] = "unborn"
  /\ px_count' = px_count + 1
  /\ ppc' = [ppc EXCEPT ![q] = "idle"]
  /\ UNCHANGED <<slot, head, tail, lock, len, cx_count,
                 made, rejected, consumerVars, dropVars>>

DropProducer(p) ==
  /\ ppc[p] = "idle"
  /\ px_count' = px_count - 1
  /\ ppc' = [ppc EXCEPT ![p] = "dropped"]
  /\ UNCHANGED <<slot, head, tail, lock, len, cx_count,
                 made, rejected, consumerVars, dropVars>>
-----------------------------------------------------------------------------
(* RingBuffer::pop_front *)

RecvCall ==
  /\ cpc = "idle"
  /\ cpc' = "empty"
  /\ UNCHANGED <<slot, head, tail, lock, len, px_count, cx_count,
                 producerVars, seen, res, out, eof, dropVars>>

RecvEmpty ==
  /\ cpc = "empty"
  /\ cpc' = IF len = 0 THEN "exist" ELSE "load"
  /\ UNCHANGED <<slot, head, tail, lock, len, px_count, cx_count,
                 producerVars, seen, res, out, eof, dropVars>>

RecvExist ==
  /\ cpc = "exist"
  /\ seen' = (px_count > 0)
  /\ cpc' = "recheck"
  /\ UNCHANGED <<slot, head, tail, lock, len, px_count, cx_count,
                 producerVars, res, out, eof, dropVars>>

RecvRecheck ==
  /\ cpc = "recheck"
  /\ \/ /\ len # 0
        /\ cpc' = "load"
        /\ UNCHANGED eof
     \/ /\ len = 0
        /\ seen
        /\ cpc' = "empty"
        /\ UNCHANGED eof
     \/ /\ len = 0
        /\ ~seen
        /\ cpc' = "idle"
        /\ eof' = TRUE
  /\ UNCHANGED <<slot, head, tail, lock, len, px_count, cx_count,
                 producerVars, seen, res, out, dropVars>>

\* Mutant: the room is given back before the element is taken out.
RecvLoadReleased ==
  /\ cpc = "load"
  /\ head' = head + 1
  /\ res' = slot[Index(head)]
  /\ len' = len - 1
  /\ cpc' = "release"
  /\ UNCHANGED <<slot, tail, lock, px_count, cx_count,
                 producerVars, seen, out, eof, dropVars>>

\* head.fetch_add and the read of the slot: nobody else uses head.
RecvLoad ==
  /\ cpc = "load"
  /\ head' = head + 1
  /\ res' = slot[Index(head)]
  /\ cpc' = "release"
  /\ UNCHANGED <<slot, tail, lock, len, px_count, cx_count,
                 producerVars, seen, out, eof, dropVars>>

RecvRelease ==
  /\ cpc = "release"
  /\ len' = len - 1
  /\ out' = Append(out, res)
  /\ cpc' = "idle"
  /\ UNCHANGED <<slot, head, tail, lock, px_count, cx_count,
                 producerVars, seen, res, eof, dropVars>>

DropConsumer ==
  /\ cpc = "idle"
  /\ cx_count' = FALSE
  /\ cpc' = "dropped"
  /\ UNCHANGED <<slot, head, tail, lock, len, px_count,
                 producerVars, seen, res, out, eof, dropVars>>
-----------------------------------------------------------------------------
\* The oldest position still counted in len: recv moves head first and len last.
First == IF cpc = "release" THEN head - 1 ELSE head

\* The elements counted in len, oldest first.
Content == [i \in 1 .. len |-> slot[Index(First + i - 1)]]

\* The last Arc goes: RingBuffer::drop drops positions head .. head + len - 1.
DropRing ==
  /\ \A p \in Producers : ~Live(p)
  /\ cpc = "dropped"
  /\ ring
  /\ ring' = FALSE
  /\ freed' = Content
  /\ UNCHANGED <<slot, head, tail, lock, len, px_count, cx_count,
                 producerVars, consumerVars>>

Producer(p) ==
  \/ SendCall(p) \/ SendLock(p) \/ SendFull(p) \/ SendAlive(p)
  \/ SendStore(p) \/ SendPublish(p) \/ DropProducer(p)
  \/ \E q \in Producers : Clone(p, q)

Consumer ==
  \/ RecvCall \/ RecvEmpty \/ RecvExist \/ RecvRecheck
  \/ RecvLoad \/ RecvRelease \/ DropConsumer

Terminated == ~ring /\ UNCHANGED vars

Next == (\E p \in Producers : Producer(p)) \/ Consumer \/ DropRing \/ Terminated

Spec == Init /\ [][Next]_vars

\* The scheduler keeps every thread running, but std's Mutex promises no turn:
\* weak fairness lets a waiting producer be overtaken again and again.
FairSpec ==
  /\ Spec
  /\ \A p \in Producers : WF_vars(Producer(p))
  /\ WF_vars(Consumer)
  /\ WF_vars(DropRing)
-----------------------------------------------------------------------------
TypeOK ==
  /\ slot \in [0 .. Cap - 1 -> Elements \cup {Empty}]
  /\ head \in Nat /\ tail \in Nat /\ len \in 0 .. Cap
  /\ lock \in Producers \cup {Nobody}
  /\ px_count \in 0 .. Cardinality(Producers)
  /\ cx_count \in BOOLEAN /\ seen \in BOOLEAN /\ eof \in BOOLEAN /\ ring \in BOOLEAN
  /\ ppc \in [Producers -> PCs]
  /\ made \in [Producers -> 0 .. MaxSend]
  /\ cpc \in CCs
  /\ res \in Elements \cup {Empty}
  /\ out \in Seq(Elements) /\ freed \in Seq(Elements)
  /\ rejected \in SUBSET Elements

\* No producer writes the slot the consumer is reading, although the consumer
\* takes no lock: what makes the unsafe blocks of push_back and pop_front sound.
NoDataRace ==
  \A p \in Producers :
    ppc[p] = "store" /\ cpc = "load" => Index(tail) # Index(head)

\* The count both sides trust is the distance of the two indices, give or take
\* the element a producer has stored and not counted yet and the one the
\* consumer has taken and not uncounted yet.
LenIsDistance ==
  First + len = tail - Cardinality({p \in Producers : ppc[p] = "publish"})

\* The specification this crate implements: send takes effect when len is
\* raised, recv when it is lowered.
Abs == INSTANCE Channel WITH
  Senders <- Producers,
  Capacity <- Cap,
  queue <- IF ring THEN Content ELSE <<>>,
  senders <- {p \in Producers : Live(p)},
  receiver <- cpc # "dropped"

\* Seen from outside, mutex, count and ring are a bounded first-in first-out
\* queue, whichever way the producers interleave.
ImplementsChannel == Abs!Spec

Finished(p) == IF InCall(p) THEN made[p] - 1 ELSE made[p]
AllFinished == [p \in Producers |-> Finished(p)]

\* A recv returns: with an element, or once the last producer has gone.  While
\* some send is under way, some send eventually returns: the mutex may pass a
\* producer over, but the producers as a whole are never stuck.
CallsReturn ==
  /\ cpc \notin {"idle", "dropped"} ~> cpc = "idle"
  /\ \A f \in [Producers -> 0 .. MaxSend] :
       AllFinished = f /\ (\E p \in Producers : InCall(p)) ~> AllFinished # f
=============================================================================
