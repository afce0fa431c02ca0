----------------------------- MODULE MpscCached -----------------------------
(***************************************************************************)
(* The crate mpsc_bounded_cached: a producer applies for a slice of the    *)
(* ring, gathers elements in a local buffer and writes the whole slice at  *)
(* once, padded with None if it is flushed early.  A filled slice becomes  *)
(* readable when every slice before it is: filled_slices keeps the ones    *)
(* that wait.                                                              *)
(*                                                                         *)
(* One action is one access to memory another thread may touch.  What is   *)
(* only touched under a mutex (tail; filled_slices with readable_till)     *)
(* moves with the acquisition or with the last atomic access before the    *)
(* release.  The n-th element producer p's owner sends is <<p, n>>.        *)
(***************************************************************************)
EXTENDS Integers, Sequences, FiniteSets, SequencesExt, Filter

CONSTANTS Producers,  \* handles that can exist: the first and its clones
          Nobody,     \* a mutex is free
          Cap,        \* slots of the ring: 256 in channel(), any power of two in new()
          ApplySize,  \* APPLY_SIZE
          MaxSend     \* bound: number of elements each owner sends

ASSUME CapAssumption == Cap \in Nat \ {0}
ASSUME ApplySizeAssumption == ApplySize \in Nat \ {0}
ASSUME MaxSendAssumption == MaxSend \in Nat
ASSUME ProducersAssumption == IsFiniteSet(Producers) /\ Nobody \notin Producers

None  == <<>>          \* an Option<T> that is None: padding, or a slot never written
Elements == Producers \X (1 .. MaxSend)
NoSlice == <<0, 0>>    \* allocated_slice is None

VARIABLES slot,           \* RingBuffer.inner
          head,           \* RingBuffer.head
          tail,           \* the number inside RingBuffer.tail
          tailLock,       \* who holds the mutex of RingBuffer.tail
          readable_till,  \* RingBuffer.readable_till
          len,            \* RingBuffer.len
          reserved,       \* RingBuffer.reserved
          free,           \* RingBuffer.free
          filled_slices,  \* the set inside RingBuffer.filled_slices
          filledLock,     \* who holds its mutex
          px_count,       \* RingBuffer.px_count
          cx_count,       \* RingBuffer.cx_count
          ppc,            \* ppc[p]: where p's thread is
          buf_local,      \* buf_local[p]
          slice,          \* slice[p]: allocated_slice, or the slice being applied for or merged
          made,           \* made[p]: elements p's owner has built
          closing,        \* closing[p]: p's flush is that of its destructor
          cpc,            \* where the consumer's thread is
          seen,           \* pop_front's local `px_exist`
          res,            \* pop_front's local `res`
          out,            \* history: the elements recv took out, in order
          rejected,       \* history: elements SendError handed back
          eof,            \* history: has recv returned RecvError
          ring,           \* is the RingBuffer still allocated
          freed           \* history: elements dropped by RingBuffer::drop, in order

tailVars == <<tail, tailLock>>
mergeVars == <<readable_till, filled_slices, filledLock>>
countVars == <<len, reserved, free>>
aliveVars == <<px_count, cx_count>>
producerVars == <<ppc, buf_local, slice, made, closing, rejected>>
consumerVars == <<head, cpc, seen, res, out, eof>>
dropVars == <<ring, freed>>
vars == <<slot, tailVars, mergeVars, countVars, aliveVars,
          producerVars, consumerVars, dropVars>>

PCs == {"unborn", "idle", "apply", "free", "alive", "reserve", "take",
        "store", "merge", "count", "uncount", "dropped"}
CCs == {"idle", "empty", "exist", "recheck", "reserved", "load", "unlen", "unfree",
        "dropped"}

\* pos & (inner.len() - 1), for a power of two: the slot a position lives in.
Index(pos) == pos % Cap

Live(p) == ppc[p] \notin {"unborn", "dropped"}

\* A slice is its first position and its length.
Positions(s) == s[1] .. s[1] + s[2] - 1
-----------------------------------------------------------------------------
RingInit ==   \* RingBuffer::new
  /\ slot = [i \in 0 .. Cap - 1 |-> None]
  /\ head = 0
  /\ tail = 0 /\ tailLock = Nobody
  /\ readable_till = 0 /\ filled_slices = {} /\ filledLock = Nobody
  /\ len = 0 /\ reserved = 0 /\ free = Cap
  /\ px_count = 1 /\ cx_count = TRUE
  /\ ring = TRUE /\ freed = <<>>

HandlesInit ==   \* channel(): one Producer and one Consumer
  /\ \E p \in Producers : ppc = [q \in Producers |-> IF q = p THEN "idle" ELSE "unborn"]
  /\ buf_local = [p \in Producers |-> <<>>]
  /\ slice = [p \in Producers |-> NoSlice]
  /\ made = [p \in Producers |-> 0]
  /\ closing = [p \in Producers |-> FALSE]
  /\ rejected = {}
  /\ cpc = "idle" /\ seen = TRUE /\ res = None
  /\ out = <<>> /\ eof = FALSE

Init == RingInit /\ HandlesInit
-----------------------------------------------------------------------------
(* Producer::send *)

\* The element goes to the local buffer; a full one is flushed at once.
Push(p, e, s) ==
  /\ buf_local' = [buf_local EXCEPT ![p] = Append(@, e)]
  /\ ppc' = [ppc EXCEPT ![p] = IF Len(buf_local[p]) + 1 = s[2] THEN "store" ELSE "idle"]

SendLocal(p) ==
  /\ ppc[p] = "idle"
  /\ made[p] < MaxSend
  /\ slice[p] # NoSlice
  /\ made' = [made EXCEPT ![p] = @ + 1]
  /\ Push(p, <<p, made'[p]>>, slice[p])
  /\ UNCHANGED <<slot, tailVars, mergeVars, countVars, aliveVars, slice, closing,
                 rejected, consumerVars, dropVars>>

SendCall(p) ==
  /\ ppc[p] = "idle"
  /\ made[p] < MaxSend
  /\ slice[p] = NoSlice
  /\ made' = [made EXCEPT ![p] = @ + 1]
  /\ ppc' = [ppc EXCEPT ![p] = "apply"]
  /\ UNCHANGED <<slot, tailVars, mergeVars, countVars, aliveVars, buf_local, slice, closing,
                 rejected, consumerVars, dropVars>>

\* Mutant: tail is read without its mutex.
ApplyUnlocked(p) ==
  /\ ppc[p] = "apply"
  /\ tailLock' = p
  /\ ppc' = [ppc EXCEPT ![p] = "free"]
  /\ UNCHANGED <<slot, tail, mergeVars, countVars, aliveVars, buf_local, slice, made, closing,
                 rejected, consumerVars, dropVars>>

\* RingBuffer::apply takes the mutex of tail.
ApplyLock(p) ==
  /\ ppc[p] = "apply"
  /\ tailLock = Nobody
  /\ tailLock' = p
  /\ ppc' = [ppc EXCEPT ![p] = "free"]
  /\ UNCHANGED <<slot, tail, mergeVars, countVars, aliveVars, buf_local, slice, made, closing,
                 rejected, consumerVars, dropVars>>

\* Mutant: whatever is free, a whole slice is taken.
ApplyFreeWhole(p) ==
  /\ ppc[p] = "free"
  /\ \/ /\ free > 0
        /\ slice' = [slice EXCEPT ![p] = <<tail, ApplySize>>]
        /\ ppc' = [ppc EXCEPT ![p] = "reserve"]
        /\ UNCHANGED tailLock
     \/ /\ free = 0
        /\ tailLock' = Nobody
        /\ ppc' = [ppc EXCEPT ![p] = "alive"]
        /\ UNCHANGED slice
  /\ UNCHANGED <<slot, tail, mergeVars, countVars, aliveVars, buf_local, made, closing,
                 rejected, consumerVars, dropVars>>

\* The slice is as long as asked for, or as what is free; none if nothing is.
ApplyFree(p) ==
  /\ ppc[p] = "free"
  /\ \/ /\ free > 0
        /\ slice' = [slice EXCEPT ![p] = <<tail, IF free >= ApplySize THEN ApplySize ELSE free>>]
        /\ ppc' = [ppc EXCEPT ![p] = "reserve"]
        /\ UNCHANGED tailLock
     \/ /\ free = 0
        /\ tailLock' = Nobody
        /\ ppc' = [ppc EXCEPT ![p] = "alive"]
        /\ UNCHANGED slice
  /\ UNCHANGED <<slot, tail, mergeVars, countVars, aliveVars, buf_local, made, closing,
                 rejected, consumerVars, dropVars>>

\* No room: ask again, or give the element back if nobody can make any.
SendAlive(p) ==
  /\ ppc[p] = "alive"
  /\ \/ /\ cx_count
        /\ ppc' = [ppc EXCEPT ![p] = "apply"]
        /\ UNCHANGED rejected
     \/ /\ ~cx_count
        /\ ppc' = [ppc EXCEPT ![p] = "idle"]
        /\ rejected' = rejected \cup {<<p, made[p]>>}
  /\ UNCHANGED <<slot, tailVars, mergeVars, countVars, aliveVars, buf_local, slice, made,
                 closing, consumerVars, dropVars>>

ApplyReserve(p) ==
  /\ ppc[p] = "reserve"
  /\ tail' = tail + slice[p][2]
  /\ reserved' = reserved + slice[p][2]
  /\ ppc' = [ppc EXCEPT ![p] = "take"]
  /\ UNCHANGED <<slot, tailLock, mergeVars, len, free, aliveVars, buf_local, slice, made,
                 closing, rejected, consumerVars, dropVars>>

\* Mutant: the free room is overwritten with what was left when it was read.
ApplyTakeStale(p) ==
  /\ ppc[p] = "take"
  /\ free' = Cap - len - reserved
  /\ tailLock' = Nobody
  /\ Push(p, <<p, made[p]>>, slice[p])
  /\ UNCHANGED <<slot, tail, mergeVars, len, reserved, aliveVars, slice, made, closing,
                 rejected, consumerVars, dropVars>>

\* The room is taken, the lock given back, and send starts over with a slice.
ApplyTake(p) ==
  /\ ppc[p] = "take"
  /\ free' = free - slice[p][2]
  /\ tailLock' = Nobody
  /\ Push(p, <<p, made[p]>>, slice[p])
  /\ UNCHANGED <<slot, tail, mergeVars, len, reserved, aliveVars, slice, made, closing,
                 rejected, consumerVars, dropVars>>
-----------------------------------------------------------------------------
(* Producer::flush, the destructor of Producer, Producer::clone *)

\* Called by the owner, or by drop: without a slice there is nothing to flush.
FlushCall(p) ==
  /\ ppc[p] = "idle"
  /\ slice[p] # NoSlice
  /\ closing' \in {closing, [closing EXCEPT ![p] = TRUE]}
  /\ ppc' = [ppc EXCEPT ![p] = "store"]
  /\ UNCHANGED <<slot, tailVars, mergeVars, countVars, aliveVars, buf_local, slice, made,
                 rejected, consumerVars, dropVars>>

\* The local buffer, padded with None to the length of the slice.
Padded(p) == [k \in 1 .. slice[p][2] |->
                IF k <= Len(buf_local[p]) THEN buf_local[p][k] ELSE None]

\* Mutant: the part beyond the end of the ring is not copied to its start.
StoreValsUnwrapped(s, vals) ==
  [i \in 0 .. Cap - 1 |->
     IF Index(s[1]) <= i /\ i < Index(s[1]) + s[2] THEN vals[i - Index(s[1]) + 1] ELSE slot[i]]

\* RingBuffer::store_vals, both of its copies.
StoreVals(s, vals) ==
  [i \in 0 .. Cap - 1 |->
     IF \E j \in Positions(s) : Index(j) = i
     THEN vals[(CHOOSE j \in Positions(s) : Index(j) = i) - s[1] + 1]
     ELSE slot[i]]

FlushStore(p) ==
  /\ ppc[p] = "store"
  /\ slot' = StoreVals(slice[p], Padded(p))
  /\ buf_local' = [buf_local EXCEPT ![p] = <<>>]
  /\ ppc' = [ppc EXCEPT ![p] = "merge"]
  /\ UNCHANGED <<tailVars, mergeVars, countVars, aliveVars, slice, made, closing,
                 rejected, consumerVars, dropVars>>

\* flush and, after it, drop: a closing producer is counted out.
Leave(p) ==
  /\ ppc' = [ppc EXCEPT ![p] = IF closing[p] THEN "dropped" ELSE "idle"]
  /\ px_count' = IF closing[p] THEN px_count - 1 ELSE px_count

\* Mutant: the producer goes once its own slice is handed in, merged or not.
MergeOnce(p) ==
  /\ ppc[p] = "merge"
  /\ filledLock = Nobody
  /\ LET filled == IF slice[p] = NoSlice THEN filled_slices ELSE filled_slices \cup {slice[p]}
     IN  \/ /\ slice[p] # NoSlice
            /\ slice[p][1] = readable_till
            /\ slice' = slice
            /\ readable_till' = readable_till + slice[p][2]
            /\ filled_slices' = filled \ {slice[p]}
            /\ filledLock' = p
            /\ ppc' = [ppc EXCEPT ![p] = "count"]
            /\ UNCHANGED px_count
         \/ /\ slice[p] = NoSlice \/ slice[p][1] # readable_till
            /\ slice' = [slice EXCEPT ![p] = NoSlice]
            /\ filled_slices' = filled
            /\ Leave(p)
            /\ UNCHANGED <<readable_till, filledLock>>
  /\ UNCHANGED <<slot, tailVars, countVars, cx_count, buf_local, made, closing,
                 rejected, consumerVars, dropVars>>

\* RingBuffer::merge_with_filled_slices, one turn of its loop under the mutex:
\* hand in the own slice (the first time), then take the first slice out if it
\* starts where the readable part ends, else leave.
Merge(p) ==
  /\ ppc[p] = "merge"
  /\ filledLock = Nobody
  /\ LET filled == IF slice[p] = NoSlice THEN filled_slices ELSE filled_slices \cup {slice[p]}
         ready  == {s \in filled : s[1] = readable_till}
     IN  \/ \E s \in ready :
              /\ slice' = [slice EXCEPT ![p] = s]
              /\ readable_till' = readable_till + s[2]
              /\ filled_slices' = filled \ {s}
              /\ filledLock' = p
              /\ ppc' = [ppc EXCEPT ![p] = "count"]
              /\ UNCHANGED px_count
         \/ /\ ready = {}
            /\ slice' = [slice EXCEPT ![p] = NoSlice]
            /\ filled_slices' = filled
            /\ Leave(p)
            /\ UNCHANGED <<readable_till, filledLock>>
  /\ UNCHANGED <<slot, tailVars, countVars, cx_count, buf_local, made, closing,
                 rejected, consumerVars, dropVars>>

MergeCount(p) ==
  /\ ppc[p] = "count"
  /\ len' = len + slice[p][2]
  /\ ppc' = [ppc EXCEPT ![p] = "uncount"]
  /\ UNCHANGED <<slot, tailVars, mergeVars, reserved, free, aliveVars, buf_local, slice, made,
                 closing, rejected, consumerVars, dropVars>>

\* `continue`: the mutex is given back and taken again.
MergeUncount(p) ==
  /\ ppc[p] = "uncount"
  /\ reserved' = reserved - slice[p][2]
  /\ slice' = [slice EXCEPT ![p] = NoSlice]
  /\ filledLock' = Nobody
  /\ ppc' = [ppc EXCEPT ![p] = "merge"]
  /\ UNCHANGED <<slot, tailVars, readable_till, filled_slices, len, free, aliveVars, buf_local,
                 made, closing, rejected, consumerVars, dropVars>>

\* drop with nothing to flush.
DropProducer(p) ==
  /\ ppc[p] = "idle"
  /\ slice[p] = NoSlice
  /\ px_count' = px_count - 1
  /\ ppc' = [ppc EXCEPT ![p] = "dropped"]
  /\ UNCHANGED <<slot, tailVars, mergeVars, countVars, cx_count, buf_local, slice, made,
                 closing, rejected, consumerVars, dropVars>>

Clone(p, q) ==
  /\ ppc[p] = "idle"
  /\ ppc[q] = "unborn"
  /\ px_count' = px_count + 1
  /\ ppc' = [ppc EXCEPT ![q] = "idle"]
  /\ UNCHANGED <<slot, tailVars, mergeVars, countVars, cx_count, buf_local, slice, made,
                 closing, rejected, consumerVars, dropVars>>
-----------------------------------------------------------------------------
(* Consumer::recv and RingBuffer::pop_front *)

RecvCall ==
  /\ cpc = "idle"
  /\ cpc' = "empty"
  /\ UNCHANGED <<slot, tailVars, mergeVars, countVars, aliveVars, producerVars,
                 head, seen, res, out, eof, dropVars>>

RecvEmpty ==
  /\ cpc = "empty"
  /\ cpc' = IF len = 0 THEN "exist" ELSE "load"
  /\ UNCHANGED <<slot, tailVars, mergeVars, countVars, aliveVars, producerVars,
                 head, seen, res, out, eof, dropVars>>

RecvExist ==
  /\ cpc = "exist"
  /\ seen' = (px_count > 0)
  /\ cpc' = "recheck"
  /\ UNCHANGED <<slot, tailVars, mergeVars, countVars, aliveVars, producerVars,
                 head, res, out, eof, dropVars>>

\* Mutant: with the producers gone, no second look at len.
RecvNoRecheck ==
  /\ cpc = "recheck"
  /\ cpc' = IF seen THEN "empty" ELSE "reserved"
  /\ UNCHANGED <<slot, tailVars, mergeVars, countVars, aliveVars, producerVars,
                 head, seen, res, out, eof, dropVars>>

RecvRecheck ==
  /\ cpc = "recheck"
  /\ cpc' = IF len # 0 THEN "load" ELSE IF seen THEN "empty" ELSE "reserved"
  /\ UNCHANGED <<slot, tailVars, mergeVars, countVars, aliveVars, producerVars,
                 head, seen, res, out, eof, dropVars>>

\* The producers are gone and the ring is empty: the end of the stream.  pop_front has a branch for
\* reserved > 0, in which the consumer merges the slices itself (lines 88-91).  It has no action
\* here because nothing is reserved any more when the producers are gone: the last part of
\* GoneMeansMerged, checked by the run and proved for all constants (NothingLeftBehind).  Were
\* it not so the guard below would leave the consumer stuck, which the run reports as a deadlock.
RecvReserved ==
  /\ cpc = "reserved"
  /\ reserved = 0
  /\ cpc' = "idle"
  /\ eof' = TRUE
  /\ UNCHANGED <<slot, tailVars, mergeVars, countVars, aliveVars, producerVars,
                 head, seen, res, out, dropVars>>

\* head.fetch_add and the read of the slot: nobody else uses head.
RecvLoad ==
  /\ cpc = "load"
  /\ head' = head + 1
  /\ res' = slot[Index(head)]
  /\ out' = IF res' = None THEN out ELSE Append(out, res')
  /\ cpc' = "unlen"
  /\ UNCHANGED <<slot, tailVars, mergeVars, countVars, aliveVars, producerVars,
                 seen, eof, dropVars>>

RecvUnlen ==
  /\ cpc = "unlen"
  /\ len' = len - 1
  /\ cpc' = "unfree"
  /\ UNCHANGED <<slot, tailVars, mergeVars, reserved, free, aliveVars, producerVars,
                 head, seen, res, out, eof, dropVars>>

\* pop_front returns; recv returns too unless it got padding.
RecvUnfree ==
  /\ cpc = "unfree"
  /\ free' = free + 1
  /\ cpc' = IF res = None THEN "empty" ELSE "idle"
  /\ UNCHANGED <<slot, tailVars, mergeVars, len, reserved, aliveVars, producerVars,
                 head, seen, res, out, eof, dropVars>>

\* Mutant: the producers are not told.
DropConsumerSilently ==
  /\ cpc = "idle"
  /\ cpc' = "dropped"
  /\ UNCHANGED <<slot, tailVars, mergeVars, countVars, aliveVars, producerVars,
                 head, seen, res, out, eof, dropVars>>

DropConsumer ==
  /\ cpc = "idle"
  /\ cx_count' = FALSE
  /\ cpc' = "dropped"
  /\ UNCHANGED <<slot, tailVars, mergeVars, countVars, px_count, producerVars,
                 head, seen, res, out, eof, dropVars>>
-----------------------------------------------------------------------------
\* The contents of the given run of positions, padding left out.
Stored(from, till) ==
  Only([i \in 1 .. till - from |-> slot[Index(from + i - 1)]], Elements)

\* The last Arc goes: RingBuffer::drop drops what lies between head and readable_till.
DropRing ==
  /\ \A p \in Producers : ~Live(p)
  /\ cpc = "dropped"
  /\ ring
  /\ ring' = FALSE
  /\ freed' = Stored(head, readable_till)
  /\ UNCHANGED <<slot, tailVars, mergeVars, countVars, aliveVars, producerVars, consumerVars>>

Producer(p) ==
  \/ SendLocal(p) \/ SendCall(p) \/ ApplyLock(p) \/ ApplyFree(p) \/ SendAlive(p)
  \/ ApplyReserve(p) \/ ApplyTake(p)
  \/ FlushCall(p) \/ FlushStore(p) \/ Merge(p) \/ MergeCount(p) \/ MergeUncount(p)
  \/ DropProducer(p)
  \/ \E q \in Producers : Clone(p, q)

Consumer ==
  \/ RecvCall \/ RecvEmpty \/ RecvExist \/ RecvRecheck \/ RecvReserved
  \/ RecvLoad \/ RecvUnlen \/ RecvUnfree \/ DropConsumer

Terminated == ~ring /\ UNCHANGED vars

Next == (\E p \in Producers : Producer(p)) \/ Consumer \/ DropRing \/ Terminated

Spec == Init /\ [][Next]_vars

\* Every thread keeps running, and an owner keeps using its handle until it
\* drops it: an idle handle on a half-filled slice would block everybody else.
FairSpec ==
  /\ Spec
  /\ \A p \in Producers : WF_vars(Producer(p))
  /\ WF_vars(Consumer)
  /\ WF_vars(DropRing)
-----------------------------------------------------------------------------
TypeOK ==
  /\ slot \in [0 .. Cap - 1 -> Elements \cup {None}]
  /\ head \in Nat /\ tail \in Nat /\ readable_till \in Nat
  /\ len \in 0 .. Cap /\ free \in 0 .. Cap /\ reserved \in Nat
  /\ {tailLock, filledLock} \subseteq Producers \cup {Nobody}
  /\ filled_slices \in SUBSET (Nat \X (1 .. Cap))
  /\ px_count \in 0 .. Cardinality(Producers) /\ cx_count \in BOOLEAN
  /\ ppc \in [Producers -> PCs] /\ cpc \in CCs
  /\ buf_local \in [Producers -> Seq(Elements)]
  /\ slice \in [Producers -> Nat \X (0 .. Cap)]
  /\ made \in [Producers -> 0 .. MaxSend]
  /\ closing \in [Producers -> BOOLEAN]
  /\ seen \in BOOLEAN /\ eof \in BOOLEAN /\ ring \in BOOLEAN
  /\ res \in Elements \cup {None}
  /\ out \in Seq(Elements) /\ freed \in Seq(Elements)
  /\ rejected \in SUBSET Elements

\* Slices that were taken from the free room and are not merged yet.
Unmerged ==
  filled_slices \cup
    {slice[p] : p \in {q \in Producers :
       slice[q] # NoSlice /\ ppc[q] \in {"take", "idle", "store", "merge"}}}

\* The slices out for filling, filled and waiting lie end to end behind the
\* readable part: no position is lost or given out twice, in whatever order
\* the producers hand their slices in.
SlicesTile ==
  /\ \A s, t \in Unmerged : s # t => Positions(s) \cap Positions(t) = {}
  /\ UNION {Positions(s) : s \in Unmerged} = readable_till .. tail - 1

\* The batch copies of two producers never overlap, and none touches the slot
\* the consumer reads: neither side holds a lock while it does so.
NoDataRace ==
  \A p \in Producers : ppc[p] = "store" =>
    LET mine == {Index(j) : j \in Positions(slice[p])}
    IN  /\ cpc = "load" => Index(head) \notin mine
        /\ \A q \in Producers \ {p} : ppc[q] = "store" =>
             mine \cap {Index(j) : j \in Positions(slice[q])} = {}

SizeAt(pc) ==
  LET at == {p \in Producers : ppc[p] = pc}
  IN  IF at = {} THEN 0 ELSE slice[CHOOSE p \in at : TRUE][2]

\* free is cap - len - reserved, as its comment says, except between the two
\* halves of one update: three counters changed by three kinds of threads,
\* each atomically and none together with another.
FreeIsTheRest ==
  free + len + reserved =
    Cap + SizeAt("take") + SizeAt("uncount") - (IF cpc = "unfree" THEN 1 ELSE 0)

\* What the ring holds from head to tail: what is readable, and what is stored but
\* still behind a slice of somebody else.
Waiting ==
  filled_slices \cup {slice[q] : q \in {r \in Producers : ppc[r] = "merge" /\ slice[r] # NoSlice}}
Written == (head .. readable_till - 1) \cup UNION {Positions(s) : s \in Waiting}
Contents ==
  [i \in 1 .. tail - head |-> IF head + i - 1 \in Written THEN slot[Index(head + i - 1)] ELSE None]

\* p's elements; those it built and was not handed back; and whether it still holds the last one.
By(p) == {p} \X (1 .. MaxSend)
Sent(p) == Only([n \in 1 .. made[p] |-> <<p, n>>], Elements \ rejected)
Sending(p) == ppc[p] \in {"apply", "free", "alive", "reserve", "take"}

\* elements_arrive_ordered, no_elements_lost and unused_elements_are_dropped
\* for many producers: what was received from p, what is in the ring and in
\* p's local buffer is exactly what p sent, in the order p sent it, less what
\* SendError handed back; and so is what is dropped with the ring.
PerProducerFifo ==
  \A p \in Producers :
    LET inside == IF ring THEN Only(Contents, By(p)) \o buf_local[p] ELSE Only(freed, By(p))
    IN  Only(out, By(p)) \o inside = IF Sending(p) THEN Front(Sent(p)) ELSE Sent(p)

\* When the last producer has gone everything it held is readable: the branch
\* of pop_front that lets the consumer merge what is left is never taken.
GoneMeansMerged ==
  px_count = 0 => reserved = 0 /\ filled_slices = {} /\ readable_till = tail

\* RecvError means the end.
EofOnlyAtEnd ==
  eof => (\A p \in Producers : ~Live(p)) /\ head = tail

Settled(e) ==
  \/ e \in rejected
  \/ \E i \in DOMAIN out : out[i] = e
  \/ \E i \in DOMAIN freed : freed[i] = e

\* Every element an owner hands to send is received, handed back or dropped
\* with the ring, however it waits in a local buffer or behind another slice.
\* Owners send finitely many, so there is a time from which on none is owed.
EveryElementSettled ==
  <>[](\A e \in Elements : made[e[1]] >= e[2] => Settled(e))
=============================================================================
