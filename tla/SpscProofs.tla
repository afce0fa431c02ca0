----------------------------- MODULE SpscProofs -----------------------------
(***************************************************************************)
(* Theorems about the two channels with one producer, for every ring size  *)
(* and every number of elements: the invariants the runs of SpscBounded    *)
(* and SpscCached check, and that the second implements the abstract       *)
(* Channel.                                                                *)
(*                                                                         *)
(* The argument for SpscBounded: while head is smaller than the ring,      *)
(* full() says what it should, so a producer past the test still has a gap *)
(* behind its element.  Meanwhile head can only have grown.  The positions *)
(* the two ends touch are then less than a ring apart, and every position  *)
(* in between still holds what was published there.  On later laps little  *)
(* more than the types is left to prove, since full() no longer works.     *)
(*                                                                         *)
(* The argument for SpscCached: a thread's private index is the shared one *)
(* it last published; the shared indices are at most a ring apart; the     *)
(* room and the content each side believes in are lower bounds; so, on     *)
(* every lap, the positions the two sides touch at once fall on different  *)
(* slots, and every position between head and tail still holds the element *)
(* that was published there.                                               *)
(***************************************************************************)
EXTENDS SpscCached, CommonLemmas

Sending == ppc \notin {"idle", "dropped"}

\* What either thread knows where it is, on every lap.
ThreadInv ==
  /\ Sending => made > 0 /\ tail < made
  /\ tail <= made
  /\ ppc = "publish" => slot[Index(tail)] = made
  /\ cpc \in {"load", "publish"} => head < tail
  /\ cpc = "recheck" /\ ~seen => ppc = "dropped"
  /\ eof => ppc = "dropped" /\ head = tail
  /\ available <=> ppc # "dropped" /\ cpc # "dropped"
  /\ Len(accepted) = tail
  /\ Len(out) = head

\* What holds until head has gone once around the ring.
FirstLap ==
  head < Cap =>
    /\ tail - head < Cap
    /\ ppc \in {"store", "publish"} => tail + 1 - head < Cap
    /\ \A i \in head .. tail - 1 : slot[Index(i)] = accepted[i + 1]
    /\ \A i \in 1 .. head : out[i] = accepted[i]
    /\ cpc = "publish" => res = accepted[head + 1]

IndInv == TypeOK /\ ThreadInv /\ FirstLap
-----------------------------------------------------------------------------
\* A position is masked to a slot of the ring.
LEMMA IndexInRange == \A i \in Nat : Index(i) \in 0 .. Cap - 1
BY SlotInRange, CapAssumption DEF Index

\* Positions less than a ring apart live in different slots.
LEMMA IndexApart ==
  ASSUME NEW i \in Nat, NEW j \in Nat, i # j, i < j + Cap, j < i + Cap
  PROVE  Index(i) # Index(j)
<1>1. CASE i < j
  BY <1>1, SlotsApart, CapAssumption DEF Index
<1>2. CASE j < i
  BY <1>2, SlotsApart, CapAssumption DEF Index
<1> QED
  BY <1>1, <1>2

\* On the first lap full() is exact: what it lets through leaves a gap.
LEMMA FullIsExactAtFirst ==
  ASSUME NEW t \in Nat, NEW h \in Nat, h < Cap, h <= t, t - h < Cap, ~Full(t, h)
  PROVE  t + 1 - h < Cap
<1> SUFFICES ASSUME t + 1 = h + Cap PROVE FALSE
  BY CapAssumption
<1>1. (h + Cap) % Cap = h
  BY CapAssumption
<1> QED
  BY <1>1 DEF Full, Index

\* The ring starts in a state the invariant describes.
LEMMA InitInd == Init => IndInv
BY CapAssumption, MaxSendAssumption
DEF Init, IndInv, TypeOK, ThreadInv, FirstLap, Sending, PCs, CCs, Empty, Torn

\* On the first lap a slot is never written while it is read.
LEMMA NoSameSlotAtFirst == IndInv /\ head < Cap => ~SameSlot
<1> SUFFICES ASSUME IndInv, head < Cap, ppc = "store", cpc = "load"
             PROVE  Index(tail) # Index(head)
  BY DEF SameSlot
<1>1. /\ head \in Nat /\ tail \in Nat /\ head # tail
      /\ head < tail + Cap /\ tail < head + Cap
  BY CapAssumption DEF IndInv, TypeOK, ThreadInv, FirstLap
<1> QED
  BY <1>1, IndexApart

\* Every step of either thread keeps it.
LEMMA StepInd == IndInv /\ [Next]_vars => IndInv'
<1> SUFFICES ASSUME IndInv, [Next]_vars PROVE IndInv'
  OBVIOUS
<1> USE CapAssumption, MaxSendAssumption
        DEF IndInv, TypeOK, ringVars, producerVars, consumerVars
<1>1. CASE SendCall
  <2>1. TypeOK'
    BY <1>1 DEF SendCall, ThreadInv, Sending, PCs, CCs
  <2>2. ThreadInv'
    BY <1>1 DEF SendCall, ThreadInv, Sending
  <2>3. FirstLap'
    BY <1>1 DEF SendCall, ThreadInv, FirstLap, Sending
  <2> QED
    BY <2>1, <2>2, <2>3
<1>2. CASE SendFull
  <2>1. TypeOK'
    BY <1>2 DEF SendFull, ThreadInv, Sending, PCs, CCs
  <2>2. ThreadInv'
    BY <1>2 DEF SendFull, ThreadInv, Sending
  <2>3. FirstLap'
    <3>1. head < Cap /\ ppc' = "store" => tail + 1 - head < Cap
      BY <1>2, FullIsExactAtFirst DEF SendFull, FirstLap
    <3>2. UNCHANGED <<slot, head, tail, accepted, out, cpc, res>> /\ ppc' # "publish"
      BY <1>2 DEF SendFull
    <3> QED
      BY <3>1, <3>2 DEF FirstLap
  <2> QED
    BY <2>1, <2>2, <2>3
<1>3. CASE SendAvailable
  <2>1. TypeOK'
    <3>1. made \in 1 .. MaxSend
      BY <1>3 DEF SendAvailable, ThreadInv, Sending
    <3>2. rejected' \in SUBSET (1 .. MaxSend)
      BY <1>3, <3>1 DEF SendAvailable
    <3> QED
      BY <1>3, <3>2 DEF SendAvailable, PCs
  <2>2. ThreadInv'
    BY <1>3 DEF SendAvailable, ThreadInv, Sending
  <2>3. FirstLap'
    BY <1>3 DEF SendAvailable, ThreadInv, FirstLap, Sending
  <2> QED
    BY <2>1, <2>2, <2>3
<1>4. CASE SendStore
  <2>1. TypeOK'
    BY <1>4 DEF SendStore, ThreadInv, Sending, PCs, CCs
  <2>2. ThreadInv'
    <3>1. slot'[Index(tail)] = made
      BY <1>4, IndexInRange DEF SendStore
    <3> QED
      BY <1>4, <3>1 DEF SendStore, ThreadInv, Sending
  <2>3. FirstLap'
    <3>1. \A i \in head .. tail - 1 : head < Cap => slot'[Index(i)] = slot[Index(i)]
      <4> SUFFICES ASSUME NEW i \in head .. tail - 1, head < Cap
                   PROVE  slot'[Index(i)] = slot[Index(i)]
        OBVIOUS
      <4>1. i \in Nat /\ i # tail /\ i < tail + Cap /\ tail < i + Cap
        BY <1>4 DEF SendStore, FirstLap
      <4>2. Index(i) # Index(tail)
        BY <4>1, IndexApart
      <4> QED
        BY <1>4, <4>2 DEF SendStore
    <3>2. UNCHANGED <<head, tail, accepted, out, cpc, res>>
      BY <1>4 DEF SendStore
    <3>3. head < Cap => tail + 1 - head < Cap
      BY <1>4 DEF SendStore, FirstLap
    <3> QED
      BY <3>1, <3>2, <3>3 DEF FirstLap
  <2> QED
    BY <2>1, <2>2, <2>3
<1>5. CASE SendPublish
  <2>1. TypeOK'
    BY <1>5 DEF SendPublish, ThreadInv, Sending, PCs, CCs
  <2>2. ThreadInv'
    <3>1. Len(accepted') = Len(accepted) + 1
      BY <1>5 DEF SendPublish
    <3> QED
      BY <1>5, <3>1 DEF SendPublish, ThreadInv, Sending
  <2>3. FirstLap'
    <3>1. /\ accepted' = Append(accepted, made) /\ tail' = tail + 1 /\ ppc' = "idle"
          /\ UNCHANGED <<slot, head, out, cpc, res>>
      BY <1>5 DEF SendPublish
    <3>2. accepted'[tail + 1] = made /\ \A i \in 1 .. tail : accepted'[i] = accepted[i]
      <4>1. accepted \in Seq(1 .. MaxSend) /\ Len(accepted) = tail /\ tail \in Nat
        BY DEF ThreadInv
      <4>2. made \in 1 .. MaxSend
        BY <1>5 DEF SendPublish, ThreadInv, Sending
      <4>3. accepted' = Append(accepted, made)
        BY <3>1
      <4> HIDE DEF IndInv, TypeOK, ThreadInv
      <4>4. /\ Append(accepted, made)[Len(accepted) + 1] = made
            /\ \A i \in 1 .. Len(accepted) : Append(accepted, made)[i] = accepted[i]
        BY <4>1, <4>2, AppendProperties
      <4> QED
        BY <4>1, <4>3, <4>4
    <3>3. slot[Index(tail)] = made
      BY <1>5 DEF SendPublish, ThreadInv
    <3>4. cpc = "publish" => head + 1 \in 1 .. tail
      BY DEF ThreadInv
    <3>5. head < Cap => \A i \in head .. tail' - 1 : slot[Index(i)] = accepted'[i + 1]
      <4> SUFFICES ASSUME head < Cap, NEW i \in head .. tail
                   PROVE  slot[Index(i)] = accepted'[i + 1]
        <5>1. tail' - 1 = tail
          BY <3>1
        <5> QED
          BY <5>1
      <4>1. CASE i = tail
        BY <4>1, <3>2, <3>3
      <4>2. CASE i < tail
        <5>1. i \in head .. tail - 1 /\ i + 1 \in 1 .. tail
          BY <4>2
        <5> QED
          BY <5>1, <3>2 DEF FirstLap
      <4> QED
        BY <4>1, <4>2
    <3>6. \A i \in 1 .. head : accepted'[i] = accepted[i]
      BY <3>2
    <3>7. head < Cap => tail' - head < Cap
      BY <1>5, <3>1 DEF SendPublish, FirstLap
    <3> QED
      BY <3>1, <3>2, <3>4, <3>5, <3>6, <3>7 DEF FirstLap
  <2> QED
    BY <2>1, <2>2, <2>3
<1>6. CASE DropProducer
  <2>1. TypeOK'
    BY <1>6 DEF DropProducer, ThreadInv, Sending, PCs, CCs
  <2>2. ThreadInv'
    BY <1>6 DEF DropProducer, ThreadInv, Sending
  <2>3. FirstLap'
    BY <1>6 DEF DropProducer, ThreadInv, FirstLap, Sending
  <2> QED
    BY <2>1, <2>2, <2>3
<1>7. CASE RecvCall
  <2>1. TypeOK'
    BY <1>7 DEF RecvCall, ThreadInv, Sending, PCs, CCs
  <2>2. ThreadInv'
    BY <1>7 DEF RecvCall, ThreadInv, Sending
  <2>3. FirstLap'
    BY <1>7 DEF RecvCall, ThreadInv, FirstLap, Sending
  <2> QED
    BY <2>1, <2>2, <2>3
<1>8. CASE RecvEmpty
  <2>1. TypeOK'
    BY <1>8 DEF RecvEmpty, ThreadInv, Sending, PCs, CCs
  <2>2. ThreadInv'
    BY <1>8 DEF RecvEmpty, ThreadInv, Sending
  <2>3. FirstLap'
    BY <1>8 DEF RecvEmpty, ThreadInv, FirstLap, Sending
  <2> QED
    BY <2>1, <2>2, <2>3
<1>9. CASE RecvAvailable
  <2>1. TypeOK'
    BY <1>9 DEF RecvAvailable, ThreadInv, Sending, PCs, CCs
  <2>2. ThreadInv'
    BY <1>9 DEF RecvAvailable, ThreadInv, Sending
  <2>3. FirstLap'
    BY <1>9 DEF RecvAvailable, ThreadInv, FirstLap, Sending
  <2> QED
    BY <2>1, <2>2, <2>3
<1>10. CASE RecvRecheck
  <2>1. TypeOK'
    BY <1>10 DEF RecvRecheck, ThreadInv, Sending, PCs, CCs
  <2>2. ThreadInv'
    BY <1>10 DEF RecvRecheck, ThreadInv, Sending
  <2>3. FirstLap'
    BY <1>10 DEF RecvRecheck, ThreadInv, FirstLap, Sending
  <2> QED
    BY <2>1, <2>2, <2>3
<1>11. CASE RecvLoad
  <2>1. TypeOK'
    <3>1. slot[Index(head)] \in 0 .. MaxSend
      <4>1. head \in Nat
        OBVIOUS
      <4>2. Index(head) \in 0 .. Cap - 1
        BY <4>1, IndexInRange
      <4> QED
        BY <4>2
    <3>2. slot[Index(head)] \in 0 .. Torn /\ Torn \in 0 .. Torn
      BY <3>1 DEF Torn
    <3> QED
      BY <1>11, <3>2 DEF RecvLoad, CCs
  <2>2. ThreadInv'
    BY <1>11 DEF RecvLoad, ThreadInv, Sending
  <2>3. FirstLap'
    <3>1. head < Cap => res' = accepted[head + 1]
      <4> SUFFICES ASSUME head < Cap PROVE res' = accepted[head + 1]
        OBVIOUS
      <4>1. head \in head .. tail - 1
        BY <1>11 DEF RecvLoad, ThreadInv
      <4>2. ~SameSlot
        BY NoSameSlotAtFirst
      <4> QED
        BY <1>11, <4>1, <4>2 DEF RecvLoad, FirstLap
    <3> QED
      BY <1>11, <3>1 DEF RecvLoad, FirstLap
  <2> QED
    BY <2>1, <2>2, <2>3
<1>12. CASE RecvPublish
  <2>1. TypeOK'
    BY <1>12 DEF RecvPublish, ThreadInv, Sending, PCs, CCs
  <2>2. ThreadInv'
    BY <1>12 DEF RecvPublish, ThreadInv, Sending
  <2>3. FirstLap'
    <3>1. /\ head' = head + 1 /\ out' = Append(out, res) /\ cpc = "publish" /\ cpc' = "idle"
          /\ UNCHANGED <<slot, tail, accepted, ppc>>
      BY <1>12 DEF RecvPublish, producerVars
    <3>2. head \in Nat /\ tail \in Nat
      BY DEF TypeOK
    <3>3. out'[head + 1] = res /\ \A i \in 1 .. head : out'[i] = out[i]
      <4>1. out \in Seq(0 .. Torn) /\ Len(out) = head /\ res \in 0 .. Torn
        BY <3>1 DEF ThreadInv, TypeOK
      <4> HIDE DEF IndInv, TypeOK, ThreadInv
      <4>2. /\ Append(out, res)[Len(out) + 1] = res
            /\ \A i \in 1 .. Len(out) : Append(out, res)[i] = out[i]
        BY <4>1, AppendProperties
      <4> QED
        BY <3>1, <4>1, <4>2
    <3> SUFFICES ASSUME head' < Cap PROVE FirstLap'
      BY DEF FirstLap
    <3>4. head < Cap /\ FirstLap
      BY <3>1, <3>2, CapAssumption
    <3> HIDE DEF TypeOK, ThreadInv
    <3>5. /\ tail - head < Cap
          /\ ppc \in {"store", "publish"} => tail + 1 - head < Cap
          /\ \A i \in head .. tail - 1 : slot[Index(i)] = accepted[i + 1]
          /\ \A i \in 1 .. head : out[i] = accepted[i]
          /\ res = accepted[head + 1]
      BY <3>1, <3>4 DEF FirstLap
    <3>6. /\ tail' - head' < Cap
          /\ ppc' \in {"store", "publish"} => tail' + 1 - head' < Cap
      BY <3>1, <3>2, <3>5, CapAssumption
    <3>7. \A i \in head' .. tail' - 1 : slot'[Index(i)] = accepted'[i + 1]
      BY <3>1, <3>2, <3>5
    <3>8. \A i \in 1 .. head' : out'[i] = accepted'[i]
      <4> SUFFICES ASSUME NEW i \in 1 .. head + 1 PROVE out'[i] = accepted[i]
        BY <3>1
      <4>1. CASE i = head + 1
        BY <3>3, <3>5, <4>1
      <4>2. CASE i # head + 1
        <5>1. i \in 1 .. head
          BY <3>2, <4>2
        <5> QED
          BY <3>3, <3>5, <5>1
      <4> QED
        BY <4>1, <4>2
    <3> QED
      BY <3>1, <3>6, <3>7, <3>8 DEF FirstLap, Index
  <2> QED
    BY <2>1, <2>2, <2>3
<1>13. CASE DropConsumer
  <2>1. TypeOK'
    BY <1>13 DEF DropConsumer, ThreadInv, Sending, PCs, CCs
  <2>2. ThreadInv'
    BY <1>13 DEF DropConsumer, ThreadInv, Sending
  <2>3. FirstLap'
    BY <1>13 DEF DropConsumer, ThreadInv, FirstLap, Sending
  <2> QED
    BY <2>1, <2>2, <2>3
<1>14. CASE DropRing
  <2>1. TypeOK'
    <3>1. freed' \in Seq(0 .. MaxSend)
      <4>1. \A i \in 1 .. tail - head : slot[Index(head + i - 1)] \in 0 .. MaxSend
        <5> SUFFICES ASSUME NEW i \in 1 .. tail - head
                     PROVE  Index(head + i - 1) \in 0 .. Cap - 1
          OBVIOUS
        <5>1. head + i - 1 \in Nat
          OBVIOUS
        <5> QED
          BY <5>1, IndexInRange
      <4> QED
        BY <1>14, <4>1 DEF DropRing, Content
    <3> QED
      BY <1>14, <3>1 DEF DropRing
  <2>2. ThreadInv'
    BY <1>14 DEF DropRing, ThreadInv, Sending
  <2>3. FirstLap'
    BY <1>14 DEF DropRing, ThreadInv, FirstLap, Sending
  <2> QED
    BY <2>1, <2>2, <2>3
<1>15. CASE UNCHANGED vars
  BY <1>15 DEF vars, ThreadInv, FirstLap, Sending
<1> QED
  BY <1>1, <1>2, <1>3, <1>4, <1>5, <1>6, <1>7, <1>8, <1>9, <1>10, <1>11, <1>12, <1>13, <1>14, <1>15
  DEF Next, Producer, Consumer, Terminated

\* The invariant holds throughout: what the theorems below are read off.
THEOREM Invariance == Spec => []IndInv
<1>1. Init => IndInv
  BY InitInd
<1>2. IndInv /\ [Next]_vars => IndInv'
  BY StepInd
<1> QED
  BY <1>1, <1>2, PTL DEF Spec

\* On every lap, and even where full() lets the producer overwrite what was not received: each
\* variable stays within its type, and head never overtakes tail.
THEOREM TypeCorrect == Spec => []TypeOK
BY Invariance, PTL DEF IndInv

\* Until Cap elements have been received, push_back stops one slot short of the consumer, no slot
\* is written while it is read, and nothing is lost, duplicated or reordered.
THEOREM FirstLapExact == Spec => []FirstLapIsExact
<1>1. IndInv => FirstLapIsExact
  <2> SUFFICES ASSUME IndInv, head < Cap
               PROVE  tail - head < Cap /\ ~SameSlot /\ out \o Content = accepted
    BY DEF FirstLapIsExact
  <2>1. tail - head < Cap /\ ~SameSlot
    BY NoSameSlotAtFirst DEF IndInv, FirstLap
  <2>2. /\ head \in Nat /\ tail \in Nat /\ head <= tail
        /\ out \in Seq(0 .. Torn) /\ Len(out) = head
        /\ accepted \in Seq(1 .. MaxSend) /\ Len(accepted) = tail
    BY MaxSendAssumption DEF IndInv, TypeOK, ThreadInv
  <2>3. \A i \in 1 .. tail - head : slot[Index(head + i - 1)] = accepted[head + i]
    <3> SUFFICES ASSUME NEW i \in 1 .. tail - head
                 PROVE  slot[Index(head + i - 1)] = accepted[head + i]
      OBVIOUS
    <3>1. head + i - 1 \in head .. tail - 1 /\ (head + i - 1) + 1 = head + i
      BY <2>2
    <3> QED
      BY <3>1 DEF IndInv, FirstLap
  <2>4. \A i \in 1 .. tail - head : accepted[head + i] \in 0 .. Torn
    <3> SUFFICES ASSUME NEW i \in 1 .. tail - head PROVE accepted[head + i] \in 0 .. Torn
      OBVIOUS
    <3>1. head + i \in 1 .. Len(accepted)
      BY <2>2
    <3>2. accepted[head + i] \in 1 .. MaxSend
      BY <3>1, <2>2, ElementOfSeq
    <3> QED
      BY <3>2, MaxSendAssumption DEF Torn
  <2>5. Content \in Seq(0 .. Torn) /\ Len(Content) = tail - head
    <3>1. \A i \in 1 .. tail - head : slot[Index(head + i - 1)] \in 0 .. Torn
      BY <2>3, <2>4
    <3> QED
      BY <2>2, <3>1 DEF Content
  <2>6. Len(out \o Content) = tail
    BY <2>2, <2>5
  <2>7. \A i \in 1 .. tail : (out \o Content)[i] = accepted[i]
    <3> SUFFICES ASSUME NEW i \in 1 .. tail PROVE (out \o Content)[i] = accepted[i]
      OBVIOUS
    <3>1. CASE i <= head
      BY <3>1, <2>2, <2>5 DEF IndInv, FirstLap
    <3>2. CASE i > head
      <4>1. i - head \in 1 .. tail - head /\ head + (i - head) = i
        BY <3>2, <2>2
      <4>2. (out \o Content)[i] = Content[i - head]
        BY <3>2, <2>2, <2>5
      <4>3. Content[i - head] = slot[Index(head + (i - head) - 1)]
        BY <4>1 DEF Content
      <4> QED
        BY <4>1, <4>2, <4>3, <2>3
    <3> QED
      <4>1. i <= head \/ i > head
        BY <2>2
      <4> QED
        BY <3>1, <3>2, <4>1
  <2>8. out \o Content \in Seq(0 .. Torn)
    BY <2>2, <2>5
  <2>9. out \o Content = accepted
    BY <2>2, <2>6, <2>7, <2>8, SeqEqual
  <2> QED
    BY <2>1, <2>9
<1> QED
  BY <1>1, Invariance, PTL

\* RecvError comes when the producer has gone and as much was received as was published, on
\* every lap: pop_front looks at tail again after it has seen the flag.
THEOREM EofIsTheEnd == Spec => []EofOnlyAtEnd
<1>1. IndInv => EofOnlyAtEnd
  BY DEF IndInv, TypeOK, ThreadInv, EofOnlyAtEnd
<1> QED
  BY <1>1, Invariance, PTL
-----------------------------------------------------------------------------
(* SpscCached *)

\* The positions head .. tail - 1 hold the elements that were sent there.
Stored == \A i \in Nat : head <= i /\ i < tail => slot[Index(i)] = i + 1

\* What the private Cells and program counters of the producer stand for.
ProducerInv ==
  /\ ptail = tail
  /\ free + (tail - head) <= Cap
  /\ ppc \in {"store", "publish"} => free > 0 /\ made = tail + 1 /\ rejected = {}
  /\ ppc \in {"available", "head"} => free = 0 /\ made > 0
  /\ ppc = "head" => rejected = {}
  /\ ppc = "publish" => slot[Index(tail)] = made
  /\ rejected # {} => free = 0 /\ ~available
  /\ tail <= Decided
  /\ rejected = tail + 1 .. Decided

\* The same for the consumer, and what it knows once it has seen the flag down.
ConsumerInv ==
  /\ chead = head
  /\ head <= tail
  /\ full <= tail - head
  /\ cpc \in {"load", "publish"} => full > 0
  /\ cpc = "publish" => res = head + 1
  /\ cpc = "tail" /\ ~seen => ppc = "dropped"
  /\ eof => ppc = "dropped" /\ head = tail
  /\ out = Stretch(0, head)

RingInv ==
  /\ available <=> ppc # "dropped" /\ cpc # "dropped"
  /\ ring => freed = <<>>
  /\ ~ring => /\ ppc = "dropped"
              /\ cpc = "dropped"
              /\ freed = Stretch(head, tail)

CachedIndInv == CachedTypeOK /\ Stored /\ ProducerInv /\ ConsumerInv /\ RingInv
-----------------------------------------------------------------------------
\* What the ring holds is what was sent and not received yet.
LEMMA ContentIsStretch == CachedIndInv => Content = Stretch(head, tail)
<1> SUFFICES ASSUME CachedIndInv PROVE Content = Stretch(head, tail)
  OBVIOUS
<1>1. head \in Nat /\ tail \in Nat
  BY DEF CachedIndInv, CachedTypeOK
<1>2. \A i \in 1 .. tail - head : slot[Index(head + i - 1)] = head + i
  <2> SUFFICES ASSUME NEW i \in 1 .. tail - head
               PROVE  slot[Index(head + i - 1)] = head + i
    OBVIOUS
  <2>1. head + i - 1 \in Nat /\ head <= head + i - 1 /\ head + i - 1 < tail
    BY <1>1
  <2>2. slot[Index(head + i - 1)] = (head + i - 1) + 1
    BY <2>1 DEF CachedIndInv, Stored
  <2>3. (head + i - 1) + 1 = head + i
    BY <1>1
  <2> QED
    BY <2>2, <2>3
<1> QED
  BY <1>2 DEF Content, Stretch

\* A stretch of accepted elements is a sequence of elements.
LEMMA StretchOfElements ==
  ASSUME NEW h \in Nat, NEW t \in Nat, t <= MaxSend
  PROVE  Stretch(h, t) \in Seq(1 .. MaxSend)
BY MaxSendAssumption DEF Stretch

\* The ring starts in a state the invariant describes.
LEMMA CachedInitInd == CachedInit => CachedIndInv
<1> SUFFICES ASSUME CachedInit PROVE CachedIndInv
  OBVIOUS
<1>1. CachedTypeOK
  <2>1. <<>> \in Seq(1 .. MaxSend)
    OBVIOUS
  <2>2. slot \in [0 .. Cap - 1 -> 0 .. MaxSend]
    BY MaxSendAssumption DEF CachedInit, Init, ProducerInit, ConsumerInit, Empty
  <2>3. 0 \in 0 .. MaxSend /\ 0 \in 0 .. Cap /\ Cap \in 0 .. Cap
    BY CapAssumption, MaxSendAssumption
  <2> QED
    BY <2>1, <2>2, <2>3 DEF CachedInit, Init, ProducerInit, ConsumerInit, CachedTypeOK, PCs, CCs, Empty
<1>2. Stored
  BY DEF CachedInit, Init, ProducerInit, ConsumerInit, Stored
<1>3. ProducerInv
  BY CapAssumption DEF CachedInit, Init, ProducerInit, ConsumerInit, ProducerInv, Decided
<1>4. ConsumerInv
  BY DEF CachedInit, Init, ProducerInit, ConsumerInit, ConsumerInv, Stretch
<1>5. RingInv
  BY DEF CachedInit, Init, ProducerInit, ConsumerInit, RingInv
<1> QED
  BY <1>1, <1>2, <1>3, <1>4, <1>5 DEF CachedIndInv

\* While nothing was handed back, every send that returned was accepted.
LEMMA NothingRejected == CachedIndInv /\ rejected = {} => Decided = tail
<1> SUFFICES ASSUME CachedIndInv, rejected = {}, Decided # tail PROVE FALSE
  OBVIOUS
<1>1. tail \in Nat /\ Decided \in Int /\ tail < Decided
  BY DEF CachedIndInv, CachedTypeOK, ProducerInv, Decided
<1>2. tail + 1 \in tail + 1 .. Decided
  BY <1>1
<1> QED
  BY <1>2 DEF CachedIndInv, ProducerInv

\* Every step of either thread keeps it.
LEMMA CachedStepInd == CachedIndInv /\ [CachedNext]_cachedVars => CachedIndInv'
<1> SUFFICES ASSUME CachedIndInv, [CachedNext]_cachedVars PROVE CachedIndInv'
  OBVIOUS
<1> USE CapAssumption, MaxSendAssumption DEF CachedIndInv, CachedTypeOK
<1>1. CASE CachedSendCall
  <2>1. CachedTypeOK'
    BY <1>1 DEF CachedSendCall, ringVars, consumerVars, PCs, cells
  <2>2. Stored'
    BY <1>1 DEF CachedSendCall, ringVars, consumerVars, Stored, cells
  <2>3. ProducerInv'
    <3>1. Decided' = Decided
      BY <1>1 DEF CachedSendCall, Decided
    <3>2. free # 0 => rejected = {} /\ made = tail
      BY <1>1, NothingRejected DEF CachedSendCall, ProducerInv, Decided
    <3> QED
      BY <1>1, <3>1, <3>2 DEF CachedSendCall, ringVars, consumerVars, ProducerInv, Decided, cells
  <2>4. ConsumerInv'
    BY <1>1 DEF CachedSendCall, ringVars, consumerVars, ConsumerInv, cells
  <2>5. RingInv'
    BY <1>1 DEF CachedSendCall, ringVars, consumerVars, RingInv, cells
  <2> QED
    BY <2>1, <2>2, <2>3, <2>4, <2>5
<1>2. CASE CachedSendAvailable
  <2>1. CachedTypeOK'
    <3>1. made \in 1 .. MaxSend
      BY <1>2 DEF CachedSendAvailable, SendAvailable, ProducerInv
    <3>2. rejected' \in SUBSET (1 .. MaxSend)
      BY <1>2, <3>1 DEF CachedSendAvailable, SendAvailable
    <3> QED
      BY <1>2, <3>2 DEF CachedSendAvailable, SendAvailable, ringVars, consumerVars, PCs, cells
  <2>2. Stored'
    BY <1>2 DEF CachedSendAvailable, SendAvailable, ringVars, consumerVars, Stored, cells
  <2>3. ProducerInv'
    <3>1. CASE available
      <4>1. rejected = {}
        BY <3>1 DEF ProducerInv
      <4> QED
        BY <1>2, <3>1, <4>1 DEF CachedSendAvailable, SendAvailable, ringVars, consumerVars, ProducerInv, Decided, cells
    <3>2. CASE ~available
      <4>1. ppc' = "idle" /\ rejected' = rejected \cup {made} /\ Decided = made - 1
        BY <1>2, <3>2 DEF CachedSendAvailable, SendAvailable, Decided
      <4>2. Decided' = made
        BY <1>2, <4>1 DEF CachedSendAvailable, SendAvailable, Decided
      <4>3. tail <= made - 1 /\ rejected = tail + 1 .. made - 1 /\ free = 0
        BY <1>2, <4>1 DEF CachedSendAvailable, SendAvailable, ProducerInv
      <4>4. rejected' = tail + 1 .. made
        BY <4>1, <4>3
      <4> QED
        BY <1>2, <3>2, <4>1, <4>2, <4>3, <4>4 DEF CachedSendAvailable, SendAvailable, ringVars, consumerVars, ProducerInv, cells
    <3> QED
      BY <3>1, <3>2
  <2>4. ConsumerInv'
    BY <1>2 DEF CachedSendAvailable, SendAvailable, ringVars, consumerVars, ConsumerInv, cells
  <2>5. RingInv'
    BY <1>2 DEF CachedSendAvailable, SendAvailable, ringVars, consumerVars, RingInv, cells
  <2> QED
    BY <2>1, <2>2, <2>3, <2>4, <2>5
<1>3. CASE SendLoadHead
  <2>1. CachedTypeOK'
    <3>1. Room(ptail - head) \in 0 .. Cap
      BY DEF ProducerInv, ConsumerInv, Room
    <3> QED
      BY <1>3, <3>1 DEF SendLoadHead, ringVars, consumerVars, PCs, cells
  <2>2. Stored'
    BY <1>3 DEF SendLoadHead, ringVars, consumerVars, Stored, cells
  <2>3. ProducerInv'
    <3>1. free' = Cap - (tail - head) /\ free' \in 0 .. Cap
      BY <1>3 DEF SendLoadHead, ProducerInv, ConsumerInv, Room
    <3>2. rejected = {} /\ made - 1 = tail
      BY <1>3, NothingRejected DEF SendLoadHead, ProducerInv, Decided
    <3>3. free' = 0 \/ free' > 0
      BY <3>1
    <3> QED
      BY <1>3, <3>1, <3>2, <3>3 DEF SendLoadHead, ringVars, consumerVars, ProducerInv, Decided, cells
  <2>4. ConsumerInv'
    BY <1>3 DEF SendLoadHead, ringVars, consumerVars, ConsumerInv, cells
  <2>5. RingInv'
    BY <1>3 DEF SendLoadHead, ringVars, consumerVars, RingInv, cells
  <2> QED
    BY <2>1, <2>2, <2>3, <2>4, <2>5
<1>4. CASE CachedSendStore
  <2>1. CachedTypeOK'
    <3>1. Index(ptail) \in 0 .. Cap - 1
      BY IndexInRange
    <3> QED
      BY <1>4, <3>1 DEF CachedSendStore, consumerVars, PCs, cells
  <2>2. Stored'
    <3> SUFFICES ASSUME NEW i \in Nat, head <= i, i < tail
                 PROVE  slot'[Index(i)] = i + 1
      BY <1>4 DEF CachedSendStore, consumerVars, Stored, cells
    <3>1. tail < i + Cap
      BY <1>4 DEF CachedSendStore, ProducerInv, cells
    <3>2. Index(i) # Index(tail)
      BY <3>1, IndexApart
    <3>3. Index(i) \in 0 .. Cap - 1 /\ slot[Index(i)] = i + 1
      BY IndexInRange DEF Stored
    <3> QED
      BY <1>4, <3>2, <3>3 DEF CachedSendStore, ProducerInv, cells
  <2>3. ProducerInv'
    <3>1. slot'[Index(tail)] = made
      BY <1>4, IndexInRange DEF CachedSendStore, ProducerInv, cells
    <3> QED
      BY <1>4, <3>1 DEF CachedSendStore, consumerVars, ProducerInv, Decided, cells
  <2>4. ConsumerInv'
    BY <1>4 DEF CachedSendStore, consumerVars, ConsumerInv, cells
  <2>5. RingInv'
    BY <1>4 DEF CachedSendStore, consumerVars, RingInv, cells
  <2> QED
    BY <2>1, <2>2, <2>3, <2>4, <2>5
<1>5. CASE CachedSendPublish
  <2>1. CachedTypeOK'
    BY <1>5 DEF CachedSendPublish, consumerVars, PCs, ProducerInv, cells
  <2>2. Stored'
    BY <1>5 DEF CachedSendPublish, consumerVars, Stored, ProducerInv, cells
  <2>3. ProducerInv'
    BY <1>5 DEF CachedSendPublish, consumerVars, ProducerInv, ConsumerInv, Decided, cells
  <2>4. ConsumerInv'
    BY <1>5 DEF CachedSendPublish, consumerVars, ConsumerInv, ProducerInv, cells
  <2>5. RingInv'
    BY <1>5 DEF CachedSendPublish, consumerVars, RingInv, cells
  <2> QED
    BY <2>1, <2>2, <2>3, <2>4, <2>5
<1>6. CASE CachedDropProducer
  <2>1. CachedTypeOK'
    BY <1>6 DEF CachedDropProducer, DropProducer, consumerVars, PCs, cells
  <2>2. Stored'
    BY <1>6 DEF CachedDropProducer, DropProducer, consumerVars, Stored, cells
  <2>3. ProducerInv'
    BY <1>6 DEF CachedDropProducer, DropProducer, consumerVars, ProducerInv, Decided, RingInv, cells
  <2>4. ConsumerInv'
    BY <1>6 DEF CachedDropProducer, DropProducer, consumerVars, ConsumerInv, cells
  <2>5. RingInv'
    BY <1>6 DEF CachedDropProducer, DropProducer, consumerVars, RingInv, cells
  <2> QED
    BY <2>1, <2>2, <2>3, <2>4, <2>5
<1>7. CASE CachedRecvCall
  <2>1. CachedTypeOK'
    BY <1>7 DEF CachedRecvCall, ringVars, producerVars, CCs, cells
  <2>2. Stored'
    BY <1>7 DEF CachedRecvCall, ringVars, producerVars, Stored, cells
  <2>3. ProducerInv'
    BY <1>7 DEF CachedRecvCall, ringVars, producerVars, ProducerInv, Decided, cells
  <2>4. ConsumerInv'
    BY <1>7 DEF CachedRecvCall, ringVars, producerVars, ConsumerInv, cells
  <2>5. RingInv'
    BY <1>7 DEF CachedRecvCall, ringVars, producerVars, RingInv, cells
  <2> QED
    BY <2>1, <2>2, <2>3, <2>4, <2>5
<1>8. CASE CachedRecvAvailable
  <2>1. CachedTypeOK'
    BY <1>8 DEF CachedRecvAvailable, ringVars, producerVars, CCs, cells
  <2>2. Stored'
    BY <1>8 DEF CachedRecvAvailable, ringVars, producerVars, Stored, cells
  <2>3. ProducerInv'
    BY <1>8 DEF CachedRecvAvailable, ringVars, producerVars, ProducerInv, Decided, cells
  <2>4. ConsumerInv'
    BY <1>8 DEF CachedRecvAvailable, ringVars, producerVars, ConsumerInv, RingInv, cells
  <2>5. RingInv'
    BY <1>8 DEF CachedRecvAvailable, ringVars, producerVars, RingInv, cells
  <2> QED
    BY <2>1, <2>2, <2>3, <2>4, <2>5
<1>9. CASE RecvLoadTail
  <2>1. CachedTypeOK'
    <3>1. tail - chead \in 0 .. Cap
      BY DEF ProducerInv, ConsumerInv
    <3> QED
      BY <1>9, <3>1 DEF RecvLoadTail, ringVars, producerVars, CCs, cells
  <2>2. Stored'
    BY <1>9 DEF RecvLoadTail, ringVars, producerVars, Stored, cells
  <2>3. ProducerInv'
    BY <1>9 DEF RecvLoadTail, ringVars, producerVars, ProducerInv, Decided, cells
  <2>4. ConsumerInv'
    BY <1>9 DEF RecvLoadTail, ringVars, producerVars, ConsumerInv, cells
  <2>5. RingInv'
    BY <1>9 DEF RecvLoadTail, ringVars, producerVars, RingInv, cells
  <2> QED
    BY <2>1, <2>2, <2>3, <2>4, <2>5
<1>10. CASE CachedRecvLoad
  <2>1. CachedTypeOK'
    <3>1. Index(chead) \in 0 .. Cap - 1
      BY IndexInRange
    <3> QED
      BY <1>10, <3>1 DEF CachedRecvLoad, ringVars, producerVars, CCs, cells
  <2>2. Stored'
    BY <1>10 DEF CachedRecvLoad, ringVars, producerVars, Stored, cells
  <2>3. ProducerInv'
    BY <1>10 DEF CachedRecvLoad, ringVars, producerVars, ProducerInv, Decided, cells
  <2>4. ConsumerInv'
    <3>1. slot[Index(head)] = head + 1
      BY <1>10 DEF CachedRecvLoad, ConsumerInv, Stored
    <3> QED
      BY <1>10, <3>1 DEF CachedRecvLoad, ringVars, producerVars, ConsumerInv, cells
  <2>5. RingInv'
    BY <1>10 DEF CachedRecvLoad, ringVars, producerVars, RingInv, cells
  <2> QED
    BY <2>1, <2>2, <2>3, <2>4, <2>5
<1>11. CASE CachedRecvPublish
  <2>1. CachedTypeOK'
    <3>1. res \in 1 .. MaxSend /\ full > 0
      BY <1>11 DEF CachedRecvPublish, ConsumerInv, cells
    <3> QED
      BY <1>11, <3>1 DEF CachedRecvPublish, producerVars, CCs, cells
  <2>2. Stored'
    BY <1>11 DEF CachedRecvPublish, producerVars, Stored, ConsumerInv, cells
  <2>3. ProducerInv'
    <3>1. head' = head + 1 /\ tail' = tail /\ free' = free
      BY <1>11 DEF CachedRecvPublish, producerVars, ConsumerInv, cells
    <3>2. free + (tail - (head + 1)) <= Cap
      BY DEF ProducerInv
    <3>3. Decided' = Decided
      BY <1>11 DEF CachedRecvPublish, producerVars, Decided, cells
    <3> QED
      BY <1>11, <3>1, <3>2, <3>3 DEF CachedRecvPublish, producerVars, ProducerInv, cells
  <2>4. ConsumerInv'
    <3>1. head < tail /\ full <= tail - head /\ full > 0
      BY <1>11 DEF CachedRecvPublish, ConsumerInv, cells
    <3>2. Append(Stretch(0, head), head + 1) = Stretch(0, head + 1)
      <4>1. 0 \in Nat /\ head \in Nat /\ 0 <= head
        OBVIOUS
      <4> QED
        BY ONLY <4>1, StretchAppend
    <3>3. out' = Stretch(0, head + 1)
      BY <1>11, <3>2 DEF CachedRecvPublish, ConsumerInv, cells
    <3> QED
      BY <1>11, <3>1, <3>3 DEF CachedRecvPublish, producerVars, ConsumerInv, cells
  <2>5. RingInv'
    BY <1>11 DEF CachedRecvPublish, producerVars, RingInv, cells
  <2> QED
    BY <2>1, <2>2, <2>3, <2>4, <2>5
<1>12. CASE CachedDropConsumer
  <2>1. CachedTypeOK'
    BY <1>12 DEF CachedDropConsumer, DropConsumer, producerVars, CCs, cells
  <2>2. Stored'
    BY <1>12 DEF CachedDropConsumer, DropConsumer, producerVars, Stored, cells
  <2>3. ProducerInv'
    BY <1>12 DEF CachedDropConsumer, DropConsumer, producerVars, ProducerInv, Decided, RingInv, cells
  <2>4. ConsumerInv'
    BY <1>12 DEF CachedDropConsumer, DropConsumer, producerVars, ConsumerInv, cells
  <2>5. RingInv'
    BY <1>12 DEF CachedDropConsumer, DropConsumer, producerVars, RingInv, cells
  <2> QED
    BY <2>1, <2>2, <2>3, <2>4, <2>5
<1>13. CASE CachedDropRing
  <2>1. CachedTypeOK'
    <3>1. tail <= MaxSend
      BY <1>13 DEF CachedDropRing, DropRing, ProducerInv, Decided, cells
    <3>2. freed' \in Seq(1 .. MaxSend)
      BY <1>13, <3>1, ContentIsStretch, StretchOfElements DEF CachedDropRing, DropRing, cells
    <3> QED
      BY <1>13, <3>2 DEF CachedDropRing, DropRing, producerVars, consumerVars, cells
  <2>2. Stored'
    BY <1>13 DEF CachedDropRing, DropRing, producerVars, consumerVars, Stored, cells
  <2>3. ProducerInv'
    BY <1>13 DEF CachedDropRing, DropRing, producerVars, consumerVars, ProducerInv, Decided, cells
  <2>4. ConsumerInv'
    BY <1>13 DEF CachedDropRing, DropRing, producerVars, consumerVars, ConsumerInv, cells
  <2>5. RingInv'
    BY <1>13, ContentIsStretch DEF CachedDropRing, DropRing, producerVars, consumerVars, RingInv, cells
  <2> QED
    BY <2>1, <2>2, <2>3, <2>4, <2>5
<1>14. CASE UNCHANGED cachedVars
  BY <1>14 DEF cachedVars, vars, ringVars, producerVars, consumerVars, PCs, CCs, Stored,
    ProducerInv, ConsumerInv, RingInv, Decided, cells
<1> QED
  BY <1>1, <1>2, <1>3, <1>4, <1>5, <1>6, <1>7, <1>8, <1>9, <1>10, <1>11, <1>12, <1>13, <1>14
  DEF CachedNext, CachedProducer, CachedConsumer, CachedTerminated

\* The invariant holds throughout: what the theorems below are read off.
THEOREM CachedInvariance == CachedSpec => []CachedIndInv
<1>1. CachedInit => CachedIndInv
  BY CachedInitInd
<1>2. CachedIndInv /\ [CachedNext]_cachedVars => CachedIndInv'
  BY CachedStepInd
<1> QED
  BY <1>1, <1>2, PTL DEF CachedSpec

\* Every variable stays within its type: no index runs away, and neither
\* `capacity - cnt` nor the private counts ever wrap below zero.
THEOREM CachedTypeCorrect == CachedSpec => []CachedTypeOK
BY CachedInvariance, PTL DEF CachedIndInv

\* The two unsafe slot accesses never meet on one slot.
THEOREM SlotsNeverRace == CachedSpec => []NoDataRace
<1>1. CachedIndInv => NoDataRace
  <2> SUFFICES ASSUME CachedIndInv, ppc = "store", cpc = "load"
               PROVE  Index(ptail) # Index(chead)
    BY DEF NoDataRace
  <2>1. /\ head \in Nat /\ tail \in Nat
        /\ ptail = tail /\ chead = head
        /\ head # tail /\ head < tail + Cap /\ tail < head + Cap
    BY CapAssumption DEF CachedIndInv, CachedTypeOK, ProducerInv, ConsumerInv
  <2> QED
    BY <2>1, IndexApart
<1> QED
  BY <1>1, CachedInvariance, PTL

\* Stale private counts err on the safe side only.
THEOREM CachesSafe == CachedSpec => []CachesConservative
<1>1. CachedIndInv => CachesConservative
  BY DEF CachedIndInv, CachesConservative, ProducerInv, ConsumerInv
<1> QED
  BY <1>1, CachedInvariance, PTL

\* RecvError is returned only when nothing is left and nothing can follow.
THEOREM CachedEofIsTheEnd == CachedSpec => []EofOnlyAtEnd
<1>1. CachedIndInv => EofOnlyAtEnd
  <2> SUFFICES ASSUME CachedIndInv, eof PROVE ppc = "dropped" /\ Len(out) = tail
    BY DEF EofOnlyAtEnd
  <2>1. ppc = "dropped" /\ head = tail /\ head \in Nat /\ out = Stretch(0, head)
    BY DEF CachedIndInv, CachedTypeOK, ConsumerInv
  <2>2. Len(Stretch(0, head)) = head
    BY <2>1 DEF Stretch
  <2> QED
    BY <2>1, <2>2
<1> QED
  BY <1>1, CachedInvariance, PTL

\* Nothing is lost, duplicated or reordered between send and recv, nor by
\* dropping the channel with elements still in it.
THEOREM ExactlyOnce == CachedSpec => []FifoExactlyOnce
<1>1. CachedIndInv => FifoExactlyOnce
  <2> SUFFICES ASSUME CachedIndInv PROVE FifoExactlyOnce
    OBVIOUS
  <2>1. head \in Nat /\ tail \in Nat /\ head <= tail /\ out = Stretch(0, head)
    BY DEF CachedIndInv, CachedTypeOK, ConsumerInv
  <2>2. (IF ring THEN Content ELSE freed) = Stretch(head, tail)
    BY ContentIsStretch DEF CachedIndInv, RingInv
  <2>3. Stretch(0, head) \o Stretch(head, tail) = Stretch(0, tail)
    BY <2>1, StretchConcat
  <2>4. Stretch(0, tail) = [i \in 1 .. tail |-> i]
    BY <2>1 DEF Stretch
  <2> QED
    BY <2>1, <2>2, <2>3, <2>4 DEF FifoExactlyOnce, CachedIndInv, ProducerInv
<1> QED
  BY <1>1, CachedInvariance, PTL
-----------------------------------------------------------------------------
(* The ring implements the abstract channel. *)

\* An empty channel is an initial state of the abstract channel.
LEMMA InitRefines == CachedInit => Abs!Init
<1> SUFFICES ASSUME CachedInit PROVE Abs!Init
  OBVIOUS
<1>1. Content = <<>>
  BY DEF CachedInit, Init, ProducerInit, ConsumerInit, Content
<1> QED
  BY <1>1 DEF CachedInit, Init, ProducerInit, ConsumerInit, Abs!Init

\* Every step of the ring is a step of the channel or invisible: send takes
\* effect when tail is published, recv when head is.
LEMMA StepRefines == CachedIndInv /\ CachedIndInv' /\ [CachedNext]_cachedVars => [Abs!Next]_Abs!vars
<1> SUFFICES ASSUME CachedIndInv, CachedIndInv', [CachedNext]_cachedVars PROVE [Abs!Next]_Abs!vars
  OBVIOUS
<1>1. /\ head \in Nat /\ tail \in Nat /\ head <= tail
      /\ Content = Stretch(head, tail)
  BY ContentIsStretch DEF CachedIndInv, CachedTypeOK, ConsumerInv
<1>2. (CachedIndInv => Content = Stretch(head, tail))'
  BY ContentIsStretch, PTL
<1>3. Content' = Stretch(head', tail')
  BY <1>2
<1>4. Len(Content) = tail - head /\ (Content = <<>> <=> head = tail)
  BY <1>1, StretchLen
<1>5. CASE CachedSendPublish
  <2>1. made \in 1 .. MaxSend /\ tail - head < Cap /\ tail' = tail + 1
    BY <1>5, <1>1, CapAssumption DEF CachedSendPublish, CachedIndInv, CachedTypeOK, ProducerInv, Decided, cells
  <2>2. Content' = Append(Content, made)
    <3>1. Append(Stretch(head, tail), tail + 1) = Stretch(head, tail + 1)
      BY <1>1, StretchAppend
    <3> QED
      BY <1>5, <1>1, <1>3, <3>1 DEF CachedSendPublish, CachedIndInv, ProducerInv, cells
  <2>3. ring /\ ring'
    BY <1>5 DEF CachedSendPublish, CachedIndInv, RingInv, cells
  <2>4. Abs!Send("producer", made)
    BY <1>5, <1>4, <2>1, <2>2, <2>3 DEF CachedSendPublish, Abs!Send, consumerVars, cells
  <2> QED
    BY <2>1, <2>4 DEF Abs!Next
<1>6. CASE CachedSendAvailable
  <2>1. CASE available
    <3>1. UNCHANGED <<Content, ring, out, rejected, freed, eof, cpc>>
      BY <1>6, <2>1 DEF CachedSendAvailable, SendAvailable, ringVars, consumerVars, Content, cells
    <3>2. ppc # "dropped" /\ ppc' # "dropped"
      BY <1>6, <2>1 DEF CachedSendAvailable, SendAvailable
    <3> QED
      BY <3>1, <3>2 DEF Abs!vars
  <2>2. CASE ~available
    <3>1. UNCHANGED <<Content, ring, out, freed, eof, cpc>>
      BY <1>6, <2>2 DEF CachedSendAvailable, SendAvailable, ringVars, consumerVars, Content, cells
    <3>2. made \in 1 .. MaxSend /\ cpc = "dropped"
      BY <1>6, <2>2 DEF CachedSendAvailable, SendAvailable, CachedIndInv, CachedTypeOK, ProducerInv, RingInv
    <3>3. ppc # "dropped" /\ ppc' # "dropped" /\ rejected' = rejected \cup {made}
      BY <1>6, <2>2 DEF CachedSendAvailable, SendAvailable
    <3>4. Abs!Reject("producer", made)
      BY <3>1, <3>2, <3>3 DEF Abs!Reject
    <3> QED
      BY <3>2, <3>4 DEF Abs!Next
  <2> QED
    BY <2>1, <2>2
<1>7. CASE CachedDropProducer
  <2>1. UNCHANGED <<Content, ring, out, rejected, freed, eof, cpc>>
    BY <1>7 DEF CachedDropProducer, DropProducer, consumerVars, Content, cells
  <2>2. Abs!DropSender("producer")
    BY <1>7, <2>1 DEF CachedDropProducer, DropProducer, Abs!DropSender, cells
  <2> QED
    BY <2>2 DEF Abs!Next
<1>8. CASE RecvLoadTail
  <2>1. UNCHANGED <<Content, ring, out, rejected, freed, ppc>> /\ cpc # "dropped" /\ cpc' # "dropped"
    BY <1>8 DEF RecvLoadTail, ringVars, producerVars, Content, cells
  <2>2. CASE eof' = eof
    BY <2>1, <2>2 DEF Abs!vars
  <2>3. CASE eof' # eof
    <3>1. eof' /\ ppc = "dropped" /\ head = tail
      BY <1>8, <2>3 DEF RecvLoadTail, CachedIndInv, CachedTypeOK, ConsumerInv
    <3>2. Abs!EndOfStream
      BY <1>4, <2>1, <3>1 DEF Abs!EndOfStream
    <3> QED
      BY <3>2 DEF Abs!Next
  <2> QED
    BY <2>2, <2>3
<1>9. CASE CachedRecvPublish
  <2>1. head < tail /\ res = head + 1 /\ head' = head + 1 /\ tail' = tail
    BY <1>9, <1>1 DEF CachedRecvPublish, CachedIndInv, CachedTypeOK, ConsumerInv, cells
  <2>2. Head(Content) = res /\ Content' = Tail(Content)
    <3>1. /\ Head(Stretch(head, tail)) = head + 1
          /\ Tail(Stretch(head, tail)) = Stretch(head + 1, tail)
      BY <1>1, <2>1, StretchTail
    <3> QED
      BY <1>1, <1>3, <2>1, <3>1
  <2>3. ring /\ ring' /\ Content # <<>>
    <3>1. ring /\ ring'
      BY <1>9 DEF CachedRecvPublish, CachedIndInv, RingInv, cells
    <3>2. Content # <<>>
      BY <1>1, <1>4, <2>1
    <3> QED
      BY <3>1, <3>2
  <2>4. Abs!Recv
    BY <1>9, <2>2, <2>3 DEF CachedRecvPublish, Abs!Recv, producerVars, cells
  <2> QED
    BY <2>4 DEF Abs!Next
<1>10. CASE CachedDropConsumer
  <2>1. UNCHANGED <<Content, ring, out, rejected, freed, eof, ppc>>
    BY <1>10 DEF CachedDropConsumer, DropConsumer, producerVars, Content, cells
  <2>2. Abs!DropReceiver
    BY <1>10, <2>1 DEF CachedDropConsumer, DropConsumer, Abs!DropReceiver, cells
  <2> QED
    BY <2>2 DEF Abs!Next
<1>11. CASE CachedDropRing
  <2>1. freed' = freed \o Content
    <3>1. freed = <<>> /\ freed' = Content
      BY <1>11 DEF CachedDropRing, DropRing, CachedIndInv, RingInv, cells
    <3>2. Content \in Seq(Nat)
      BY <1>1, StretchLen
    <3> QED
      BY <3>1, <3>2, ConcatEmptySeq
  <2>2. Abs!Free
    BY <1>11, <2>1 DEF CachedDropRing, DropRing, Abs!Free, producerVars, consumerVars, cells
  <2> QED
    BY <2>2 DEF Abs!Next
<1>12. CASE CachedSendStore
  <2>1. Content' = Content
    BY <1>1, <1>3, <1>12 DEF CachedSendStore, cells
  <2> QED
    BY <1>12, <2>1 DEF CachedSendStore, Abs!vars, consumerVars, cells
<1>13. CASE CachedSendCall \/ SendLoadHead
  <2>1. UNCHANGED <<Content, ring, out, rejected, freed, eof, cpc>>
    BY <1>13 DEF CachedSendCall, SendLoadHead, ringVars, consumerVars, Content, cells
  <2>2. ppc # "dropped" /\ ppc' # "dropped"
    BY <1>13 DEF CachedSendCall, SendLoadHead
  <2> QED
    BY <2>1, <2>2 DEF Abs!vars
<1>14. CASE CachedRecvCall \/ CachedRecvAvailable \/ CachedRecvLoad
  <2>1. UNCHANGED <<Content, ring, out, rejected, freed, eof, ppc>>
    BY <1>14 DEF CachedRecvCall, CachedRecvAvailable, CachedRecvLoad, ringVars, producerVars, Content, cells
  <2>2. cpc # "dropped" /\ cpc' # "dropped"
    BY <1>14 DEF CachedRecvCall, CachedRecvAvailable, CachedRecvLoad
  <2> QED
    BY <2>1, <2>2 DEF Abs!vars
<1>15. CASE UNCHANGED cachedVars
  BY <1>15 DEF cachedVars, vars, ringVars, producerVars, consumerVars, Abs!vars, Content, cells
<1> QED
  BY <1>5, <1>6, <1>7, <1>8, <1>9, <1>10, <1>11, <1>12, <1>13, <1>14, <1>15
  DEF CachedNext, CachedProducer, CachedConsumer, CachedTerminated

\* The crate's main theorem: from outside, the lock-free ring with its cached
\* indices is a bounded first-in first-out channel with two droppable ends.
THEOREM Refinement == CachedSpec => ImplementsChannel
<1>1. CachedInit => Abs!Init
  BY InitRefines
<1>2. CachedIndInv /\ CachedIndInv' /\ [CachedNext]_cachedVars => [Abs!Next]_Abs!vars
  BY StepRefines
<1> QED
  BY <1>1, <1>2, CachedInvariance, PTL DEF CachedSpec, ImplementsChannel, Abs!Spec
=============================================================================
