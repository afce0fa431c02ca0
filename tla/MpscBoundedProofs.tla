------------------------- MODULE MpscBoundedProofs -------------------------
(***************************************************************************)
(* Theorems about MpscBounded, for every ring size, any finite number of   *)
(* producers and any number of elements: the invariants its run checks,    *)
(* and that it implements the abstract Channel.                            *)
(*                                                                         *)
(* The argument: between lock and unlock a producer is alone, so at most   *)
(* one element is stored and not counted yet; up to that one and the one   *)
(* the consumer is taking out, len is the distance of the two indices.  A  *)
(* producer that found len below the ring's size has at least one slot     *)
(* between itself and the oldest position counted, and only it raises len. *)
(***************************************************************************)
EXTENDS MpscBounded, CommonLemmas

\* The guard of the mutex is alive.
Holds(p) == ppc[p] \in {"full", "alive", "store", "publish"}

\* The element that is stored and not counted in len yet.
Uncounted == IF \E p \in Producers : ppc[p] = "publish" THEN 1 ELSE 0

\* The mutex is held by whoever is past it.
LockInv == \A p \in Producers : Holds(p) <=> lock = p

\* What len counts, and what a thread knows that has looked at it.
CountInv ==
  /\ cpc = "release" => head > 0
  /\ First + len + Uncounted = tail
  /\ \A p \in Producers : ppc[p] \in {"store", "publish"} => len < Cap
  /\ cpc \in {"load", "release"} => len > 0

\* What the slots hold.
SlotInv ==
  /\ \A i \in First .. tail - 1 : slot[Index(i)] \in Elements
  /\ cpc = "release" => res = slot[Index(head - 1)]
  /\ \A p \in Producers : ppc[p] = "publish" => slot[Index(tail - 1)] = <<p, made[p]>>
  /\ \A p \in Producers : InCall(p) => made[p] > 0

\* Who is there, and what the consumer knows of it.
AliveInv ==
  /\ px_count = Cardinality({p \in Producers : Live(p)})
  /\ cx_count <=> cpc # "dropped"
  /\ cpc = "recheck" /\ ~seen => \A p \in Producers : ~Live(p)
  /\ ring => freed = <<>>
  /\ ~ring => cpc = "dropped" /\ \A p \in Producers : ~Live(p)

IndInv == TypeOK /\ LockInv /\ CountInv /\ SlotInv /\ AliveInv
-----------------------------------------------------------------------------
\* A position is masked to a slot of the ring.
LEMMA IndexInRange == \A i \in Nat : Index(i) \in 0 .. Cap - 1
BY SlotInRange, CapAssumption DEF Index

\* Positions less than a ring apart live in different slots.
LEMMA IndexApart ==
  ASSUME NEW i \in Nat, NEW j \in Nat, i # j, i < j + Cap, j < i + Cap
  PROVE  Index(i) # Index(j)
<1>1. CASE i < j
  BY <1>1, SlotsApart, CapAssumption DEF Index
<1>2. CASE j < i
  BY <1>2, SlotsApart, CapAssumption DEF Index
<1> QED
  BY <1>1, <1>2

\* px_count can count every handle there may be.
LEMMA HandlesCounted ==
  ASSUME NEW S \in SUBSET Producers
  PROVE  IsFiniteSet(S) /\ Cardinality(S) \in 0 .. Cardinality(Producers)
BY ProducersAssumption, FS_Subset, FS_CardinalityType

\* The ring starts in a state the invariant describes.
LEMMA InitInd == Init => IndInv
<1> SUFFICES ASSUME Init PROVE IndInv
  OBVIOUS
<1> USE CapAssumption, MaxSendAssumption, ProducersAssumption
        DEF Init, RingInit, HandlesInit
<1>1. PICK p \in Producers : ppc = [q \in Producers |-> IF q = p THEN "idle" ELSE "unborn"]
  OBVIOUS
<1>2. {q \in Producers : Live(q)} = {p} /\ Cardinality({p}) = 1
  BY <1>1, FS_Singleton DEF Live
<1>3. px_count \in 0 .. Cardinality(Producers)
  BY <1>2, HandlesCounted
<1>4. TypeOK
  <2>1. slot \in [0 .. Cap - 1 -> Elements \cup {Empty}]
    OBVIOUS
  <2>2. ppc \in [Producers -> PCs] /\ made \in [Producers -> 0 .. MaxSend]
    BY <1>1 DEF PCs
  <2>3. out \in Seq(Elements) /\ freed \in Seq(Elements) /\ res \in Elements \cup {Empty}
    OBVIOUS
  <2> QED
    BY <1>3, <2>1, <2>2, <2>3 DEF TypeOK, CCs
<1>5. LockInv
  BY <1>1 DEF LockInv, Holds
<1>6. CountInv
  BY <1>1 DEF CountInv, First, Uncounted
<1>7. SlotInv
  BY <1>1 DEF SlotInv, First, InCall
<1>8. AliveInv
  BY <1>1, <1>2 DEF AliveInv
<1> QED
  BY <1>4, <1>5, <1>6, <1>7, <1>8 DEF IndInv

\* Whether an element is stored and not counted only changes when a producer stores or counts.
LEMMA SameUncounted ==
  ASSUME \A p \in Producers : ppc'[p] = "publish" <=> ppc[p] = "publish"
  PROVE  Uncounted' = Uncounted
BY DEF Uncounted

\* Between lock and unlock a producer is alone, and one that may store leaves a gap.
LEMMA HolderAlone ==
  ASSUME LockInv, NEW p \in Producers, Holds(p)
  PROVE  /\ \A q \in Producers : q # p => ~Holds(q)
         /\ Uncounted = IF ppc[p] = "publish" THEN 1 ELSE 0
BY DEF LockInv, Holds, Uncounted

\* The slot a producer is about to write is none of those counted or being read.
LEMMA StoreIsApart ==
  ASSUME IndInv, NEW p \in Producers, ppc[p] = "store",
         NEW i \in First .. tail - 1
  PROVE  Index(i) # Index(tail)
<1>1. Holds(p)
  BY DEF Holds
<1>2. Uncounted = 0
  BY <1>1, HolderAlone DEF IndInv
<1>3. First \in Nat /\ First + len = tail /\ len < Cap
  BY <1>2 DEF IndInv, TypeOK, CountInv, First
<1>4. i \in Nat /\ tail \in Nat /\ i # tail /\ i < tail + Cap /\ tail < i + Cap
  BY <1>3, CapAssumption DEF IndInv, TypeOK
<1> QED
  BY <1>4, IndexApart

\* Every step of every thread keeps the invariant.
LEMMA StepInd == IndInv /\ [Next]_vars => IndInv'
<1> SUFFICES ASSUME IndInv, [Next]_vars PROVE IndInv'
  OBVIOUS
<1> USE CapAssumption, MaxSendAssumption, ProducersAssumption
        DEF IndInv, TypeOK, producerVars, consumerVars, dropVars
<1>1. ASSUME NEW p \in Producers, SendCall(p) PROVE IndInv'
  <2>1. TypeOK'
    BY <1>1 DEF SendCall, PCs, CCs
  <2>2. LockInv'
    BY <1>1 DEF SendCall, LockInv, Holds
  <2>3. CountInv'
    <3>1. Uncounted' = Uncounted
      BY <1>1, SameUncounted DEF SendCall
    <3> QED
      BY <1>1, <3>1 DEF SendCall, CountInv, First
  <2>4. SlotInv'
    BY <1>1 DEF SendCall, SlotInv, First, InCall
  <2>5. AliveInv'
    <3>1. \A q \in Producers : Live(q)' <=> Live(q)
      BY <1>1 DEF SendCall, Live
    <3>2. {q \in Producers : Live(q)}' = {q \in Producers : Live(q)}
      BY <3>1
    <3> QED
      BY <1>1, <3>1, <3>2 DEF SendCall, AliveInv
  <2> QED
    BY <2>1, <2>2, <2>3, <2>4, <2>5
<1>2. ASSUME NEW p \in Producers, SendLock(p) PROVE IndInv'
  <2>1. TypeOK'
    BY <1>2 DEF SendLock, PCs, CCs
  <2>2. LockInv'
    BY <1>2 DEF SendLock, LockInv, Holds
  <2>3. CountInv'
    <3>1. Uncounted' = Uncounted
      BY <1>2, SameUncounted DEF SendLock
    <3> QED
      BY <1>2, <3>1 DEF SendLock, CountInv, First
  <2>4. SlotInv'
    BY <1>2 DEF SendLock, SlotInv, First, InCall
  <2>5. AliveInv'
    <3>1. \A q \in Producers : Live(q)' <=> Live(q)
      BY <1>2 DEF SendLock, Live
    <3>2. {q \in Producers : Live(q)}' = {q \in Producers : Live(q)}
      BY <3>1
    <3> QED
      BY <1>2, <3>1, <3>2 DEF SendLock, AliveInv
  <2> QED
    BY <2>1, <2>2, <2>3, <2>4, <2>5
<1>3. ASSUME NEW p \in Producers, SendFull(p) PROVE IndInv'
  <2>1. TypeOK'
    BY <1>3 DEF SendFull, PCs, CCs
  <2>2. LockInv'
    BY <1>3 DEF SendFull, LockInv, Holds
  <2>3. CountInv'
    <3>1. Uncounted' = Uncounted
      BY <1>3, SameUncounted DEF SendFull
    <3> QED
      BY <1>3, <3>1 DEF SendFull, CountInv, First
  <2>4. SlotInv'
    BY <1>3 DEF SendFull, SlotInv, First, InCall
  <2>5. AliveInv'
    <3>1. \A q \in Producers : Live(q)' <=> Live(q)
      BY <1>3 DEF SendFull, Live
    <3>2. {q \in Producers : Live(q)}' = {q \in Producers : Live(q)}
      BY <3>1
    <3> QED
      BY <1>3, <3>1, <3>2 DEF SendFull, AliveInv
  <2> QED
    BY <2>1, <2>2, <2>3, <2>4, <2>5
<1>4. ASSUME NEW p \in Producers, SendAlive(p) PROVE IndInv'
  <2>1. TypeOK'
    <3>1. <<p, made[p]>> \in Elements
      <4>1. made[p] \in 1 .. MaxSend
        <5>1. made[p] \in 0 .. MaxSend
          OBVIOUS
        <5>2. made[p] > 0
          BY <1>4 DEF SendAlive, SlotInv, InCall
        <5> QED
          BY <5>1, <5>2
      <4> QED
        BY <4>1 DEF Elements
    <3>2. rejected' \in SUBSET Elements
      BY <1>4, <3>1 DEF SendAlive
    <3>3. ppc' \in [Producers -> PCs] /\ lock' \in Producers \cup {Nobody}
      BY <1>4 DEF SendAlive, PCs
    <3> QED
      BY <1>4, <3>2, <3>3 DEF SendAlive
  <2>2. LockInv'
    BY <1>4 DEF SendAlive, LockInv, Holds
  <2>3. CountInv'
    <3>1. Uncounted' = Uncounted
      BY <1>4, SameUncounted DEF SendAlive
    <3> QED
      BY <1>4, <3>1 DEF SendAlive, CountInv, First
  <2>4. SlotInv'
    BY <1>4 DEF SendAlive, SlotInv, First, InCall
  <2>5. AliveInv'
    <3>1. \A q \in Producers : Live(q)' <=> Live(q)
      BY <1>4 DEF SendAlive, Live
    <3>2. {q \in Producers : Live(q)}' = {q \in Producers : Live(q)}
      BY <3>1
    <3> QED
      BY <1>4, <3>1, <3>2 DEF SendAlive, AliveInv
  <2> QED
    BY <2>1, <2>2, <2>3, <2>4, <2>5
<1>5. ASSUME NEW p \in Producers, SendStore(p) PROVE IndInv'
  <2>1. TypeOK'
    <3>1. <<p, made[p]>> \in Elements
      <4>1. made[p] \in 1 .. MaxSend
        <5>1. made[p] \in 0 .. MaxSend
          OBVIOUS
        <5>2. made[p] > 0
          BY <1>5 DEF SendStore, SlotInv, InCall
        <5> QED
          BY <5>1, <5>2
      <4> QED
        BY <4>1 DEF Elements
    <3>2. Index(tail) \in 0 .. Cap - 1
      <4>1. tail \in Nat
        OBVIOUS
      <4> QED
        BY <4>1, IndexInRange
    <3>3. slot' \in [0 .. Cap - 1 -> Elements \cup {Empty}]
      BY <1>5, <3>1, <3>2 DEF SendStore
    <3>4. ppc' \in [Producers -> PCs]
      BY <1>5 DEF SendStore, PCs
    <3> QED
      BY <1>5, <3>3, <3>4 DEF SendStore
  <2>2. LockInv'
    BY <1>5 DEF SendStore, LockInv, Holds
  <2>3. CountInv'
    <3>1. Uncounted = 0 /\ Uncounted' = 1
      <4>1. Uncounted = 0
        BY <1>5, HolderAlone DEF SendStore, Holds
      <4>2. Uncounted' = 1
        BY <1>5 DEF SendStore, Uncounted
      <4> QED
        BY <4>1, <4>2
    <3> QED
      BY <1>5, <3>1 DEF SendStore, CountInv, First
  <2>4. SlotInv'
    <3>1. /\ slot' = [slot EXCEPT ![Index(tail)] = <<p, made[p]>>] /\ tail' = tail + 1
          /\ ppc[p] = "store" /\ ppc' = [ppc EXCEPT ![p] = "publish"]
          /\ UNCHANGED <<head, cpc, res, made>>
      BY <1>5 DEF SendStore
    <3>2. Index(tail) \in 0 .. Cap - 1
      <4>1. tail \in Nat
        OBVIOUS
      <4> QED
        BY <4>1, IndexInRange
    <3>3. First \in Nat /\ First' = First /\ First + len = tail
      <4>1. Uncounted = 0
        BY <3>1, HolderAlone DEF Holds
      <4> QED
        BY <3>1, <4>1 DEF CountInv, First
    <3>4. slot'[Index(tail)] = <<p, made[p]>>
      BY <3>1, <3>2
    <3>5. \A i \in First .. tail - 1 : slot'[Index(i)] = slot[Index(i)]
      BY <3>1, StoreIsApart
    <3>6. <<p, made[p]>> \in Elements
      BY <2>1, <3>1, <3>2, <3>4 DEF Empty, SlotInv, InCall, Elements
    <3>7. \A i \in First .. tail : slot'[Index(i)] \in Elements
      <4> SUFFICES ASSUME NEW i \in First .. tail PROVE slot'[Index(i)] \in Elements
        OBVIOUS
      <4>1. CASE i = tail
        BY <4>1, <3>4, <3>6
      <4>2. CASE i # tail
        <5>1. i \in First .. tail - 1
          BY <4>2, <3>3
        <5> QED
          BY <5>1, <3>5 DEF SlotInv
      <4> QED
        BY <4>1, <4>2
    <3>8. cpc' = "release" => res' = slot'[Index(head' - 1)]
      <4> SUFFICES ASSUME cpc = "release" PROVE res = slot'[Index(head - 1)]
        BY <3>1
      <4>1. head - 1 \in First .. tail - 1
        BY <3>3 DEF First, CountInv
      <4> QED
        BY <4>1, <3>5 DEF SlotInv
    <3>9. \A q \in Producers : ppc'[q] = "publish" => q = p
      BY <3>1, HolderAlone DEF Holds
    <3>10. tail' - 1 = tail
      BY <3>1
    <3> QED
      BY <3>1, <3>3, <3>4, <3>7, <3>8, <3>9, <3>10 DEF SlotInv, InCall
  <2>5. AliveInv'
    <3>1. \A q \in Producers : Live(q)' <=> Live(q)
      BY <1>5 DEF SendStore, Live
    <3>2. {q \in Producers : Live(q)}' = {q \in Producers : Live(q)}
      BY <3>1
    <3> QED
      BY <1>5, <3>1, <3>2 DEF SendStore, AliveInv
  <2> QED
    BY <2>1, <2>2, <2>3, <2>4, <2>5
<1>6. ASSUME NEW p \in Producers, SendPublish(p) PROVE IndInv'
  <2>1. TypeOK'
    <3>1. len < Cap
      BY <1>6 DEF SendPublish, CountInv
    <3>2. len' \in 0 .. Cap
      BY <1>6, <3>1 DEF SendPublish
    <3>3. ppc' \in [Producers -> PCs]
      BY <1>6 DEF SendPublish, PCs
    <3> QED
      BY <1>6, <3>2, <3>3 DEF SendPublish
  <2>2. LockInv'
    BY <1>6 DEF SendPublish, LockInv, Holds
  <2>3. CountInv'
    <3>1. Holds(p) /\ \A q \in Producers : q # p => ~Holds(q)
      BY <1>6, HolderAlone DEF SendPublish, Holds
    <3>2. Uncounted = 1 /\ Uncounted' = 0
      <4>1. Uncounted = 1
        BY <1>6 DEF SendPublish, Uncounted
      <4>2. Uncounted' = 0
        BY <1>6, <3>1 DEF SendPublish, Uncounted, Holds
      <4> QED
        BY <4>1, <4>2
    <3>3. \A q \in Producers : ppc'[q] \notin {"store", "publish"}
      BY <1>6, <3>1 DEF SendPublish, Holds
    <3> QED
      BY <1>6, <3>2, <3>3 DEF SendPublish, CountInv, First
  <2>4. SlotInv'
    BY <1>6 DEF SendPublish, SlotInv, First, InCall
  <2>5. AliveInv'
    <3>1. \A q \in Producers : Live(q)' <=> Live(q)
      BY <1>6 DEF SendPublish, Live
    <3>2. {q \in Producers : Live(q)}' = {q \in Producers : Live(q)}
      BY <3>1
    <3> QED
      BY <1>6, <3>1, <3>2 DEF SendPublish, AliveInv
  <2> QED
    BY <2>1, <2>2, <2>3, <2>4, <2>5
<1>7. ASSUME NEW p \in Producers, DropProducer(p) PROVE IndInv'
  <2>1. AliveInv'
    <3>1. {q \in Producers : Live(q)}' = {q \in Producers : Live(q)} \ {p}
      BY <1>7 DEF DropProducer, Live
    <3>2. p \in {q \in Producers : Live(q)}
      BY <1>7 DEF DropProducer, Live
    <3>3. Cardinality({q \in Producers : Live(q)}') = Cardinality({q \in Producers : Live(q)}) - 1
      <4> DEFINE S == {q \in Producers : Live(q)}
      <4>1. IsFiniteSet(S) /\ p \in S
        BY <3>2, HandlesCounted
      <4>2. Cardinality(S \ {p}) = Cardinality(S) - 1
        <5> HIDE DEF S, IndInv, TypeOK
        <5> QED
          BY <4>1, FS_RemoveElement
      <4> QED
        BY <4>2, <3>1
    <3>4. \A q \in Producers : ~Live(q) => ~Live(q)'
      BY <1>7 DEF DropProducer, Live
    <3> QED
      BY <1>7, <3>2, <3>3, <3>4 DEF DropProducer, AliveInv
  <2>2. TypeOK'
    <3>1. px_count' \in 0 .. Cardinality(Producers)
      BY <2>1, HandlesCounted DEF AliveInv
    <3>2. ppc' \in [Producers -> PCs]
      BY <1>7 DEF DropProducer, PCs
    <3> QED
      BY <1>7, <3>1, <3>2 DEF DropProducer
  <2>3. LockInv'
    BY <1>7 DEF DropProducer, LockInv, Holds
  <2>4. CountInv'
    <3>1. Uncounted' = Uncounted
      BY <1>7, SameUncounted DEF DropProducer
    <3> QED
      BY <1>7, <3>1 DEF DropProducer, CountInv, First
  <2>5. SlotInv'
    BY <1>7 DEF DropProducer, SlotInv, First, InCall
  <2> QED
    BY <2>1, <2>2, <2>3, <2>4, <2>5
<1>8. ASSUME NEW p \in Producers, NEW q \in Producers, Clone(p, q) PROVE IndInv'
  <2>1. AliveInv'
    <3>1. {r \in Producers : Live(r)}' = {r \in Producers : Live(r)} \cup {q}
      BY <1>8 DEF Clone, Live
    <3>2. q \notin {r \in Producers : Live(r)} /\ Live(p)
      BY <1>8 DEF Clone, Live
    <3>3. Cardinality({r \in Producers : Live(r)}') = Cardinality({r \in Producers : Live(r)}) + 1
      BY <3>1, <3>2, HandlesCounted, FS_AddElement
    <3> QED
      BY <1>8, <3>2, <3>3 DEF Clone, AliveInv
  <2>2. TypeOK'
    <3>1. px_count' \in 0 .. Cardinality(Producers)
      BY <2>1, HandlesCounted DEF AliveInv
    <3>2. ppc' \in [Producers -> PCs]
      BY <1>8 DEF Clone, PCs
    <3> QED
      BY <1>8, <3>1, <3>2 DEF Clone
  <2>3. LockInv'
    BY <1>8 DEF Clone, LockInv, Holds
  <2>4. CountInv'
    <3>1. Uncounted' = Uncounted
      BY <1>8, SameUncounted DEF Clone
    <3> QED
      BY <1>8, <3>1 DEF Clone, CountInv, First
  <2>5. SlotInv'
    BY <1>8 DEF Clone, SlotInv, First, InCall
  <2> QED
    BY <2>1, <2>2, <2>3, <2>4, <2>5
<1>9. CASE RecvCall
  <2>1. TypeOK'
    BY <1>9 DEF RecvCall, PCs, CCs
  <2>2. LockInv'
    BY <1>9 DEF RecvCall, LockInv, Holds
  <2>3. CountInv'
    <3>1. Uncounted' = Uncounted
      BY <1>9, SameUncounted DEF RecvCall
    <3> QED
      BY <1>9, <3>1 DEF RecvCall, CountInv, First
  <2>4. SlotInv'
    BY <1>9 DEF RecvCall, SlotInv, First, InCall
  <2>5. AliveInv'
    <3>1. {q \in Producers : Live(q)}' = {q \in Producers : Live(q)}
      BY <1>9 DEF RecvCall, Live
    <3> QED
      BY <1>9, <3>1 DEF RecvCall, AliveInv, Live
  <2> QED
    BY <2>1, <2>2, <2>3, <2>4, <2>5
<1>10. CASE RecvEmpty
  <2>1. TypeOK'
    BY <1>10 DEF RecvEmpty, PCs, CCs
  <2>2. LockInv'
    BY <1>10 DEF RecvEmpty, LockInv, Holds
  <2>3. CountInv'
    <3>1. Uncounted' = Uncounted
      BY <1>10, SameUncounted DEF RecvEmpty
    <3> QED
      BY <1>10, <3>1 DEF RecvEmpty, CountInv, First
  <2>4. SlotInv'
    BY <1>10 DEF RecvEmpty, SlotInv, First, InCall
  <2>5. AliveInv'
    <3>1. {q \in Producers : Live(q)}' = {q \in Producers : Live(q)}
      BY <1>10 DEF RecvEmpty, Live
    <3> QED
      BY <1>10, <3>1 DEF RecvEmpty, AliveInv, Live
  <2> QED
    BY <2>1, <2>2, <2>3, <2>4, <2>5
<1>11. CASE RecvExist
  <2>1. TypeOK'
    BY <1>11 DEF RecvExist, PCs, CCs
  <2>2. LockInv'
    BY <1>11 DEF RecvExist, LockInv, Holds
  <2>3. CountInv'
    <3>1. Uncounted' = Uncounted
      BY <1>11, SameUncounted DEF RecvExist
    <3> QED
      BY <1>11, <3>1 DEF RecvExist, CountInv, First
  <2>4. SlotInv'
    BY <1>11 DEF RecvExist, SlotInv, First, InCall
  <2>5. AliveInv'
    <3>1. {q \in Producers : Live(q)}' = {q \in Producers : Live(q)}
      BY <1>11 DEF RecvExist, Live
    <3>2. ~seen' => \A q \in Producers : ~Live(q)
      <4> SUFFICES ASSUME ~seen', NEW q \in Producers, Live(q) PROVE FALSE
        OBVIOUS
      <4>1. Cardinality({r \in Producers : Live(r)}) = 0
        BY <1>11 DEF RecvExist, AliveInv
      <4>2. {r \in Producers : Live(r)} = {}
        BY <4>1, HandlesCounted, FS_EmptySet
      <4> QED
        BY <4>2
    <3>3. \A q \in Producers : Live(q)' <=> Live(q)
      BY <1>11 DEF RecvExist, Live
    <3> QED
      BY <1>11, <3>1, <3>2, <3>3 DEF RecvExist, AliveInv
  <2> QED
    BY <2>1, <2>2, <2>3, <2>4, <2>5
<1>12. CASE RecvRecheck
  <2>1. TypeOK'
    BY <1>12 DEF RecvRecheck, PCs, CCs
  <2>2. LockInv'
    BY <1>12 DEF RecvRecheck, LockInv, Holds
  <2>3. CountInv'
    <3>1. Uncounted' = Uncounted
      BY <1>12, SameUncounted DEF RecvRecheck
    <3> QED
      BY <1>12, <3>1 DEF RecvRecheck, CountInv, First
  <2>4. SlotInv'
    BY <1>12 DEF RecvRecheck, SlotInv, First, InCall
  <2>5. AliveInv'
    <3>1. {q \in Producers : Live(q)}' = {q \in Producers : Live(q)}
      BY <1>12 DEF RecvRecheck, Live
    <3> QED
      BY <1>12, <3>1 DEF RecvRecheck, AliveInv, Live
  <2> QED
    BY <2>1, <2>2, <2>3, <2>4, <2>5
<1>13. CASE RecvLoad
  <2>1. TypeOK'
    <3>1. Index(head) \in 0 .. Cap - 1
      <4>1. head \in Nat
        OBVIOUS
      <4> QED
        BY <4>1, IndexInRange
    <3>2. slot[Index(head)] \in Elements \cup {Empty}
      BY <3>1
    <3> QED
      BY <1>13, <3>2 DEF RecvLoad, CCs
  <2>2. LockInv'
    BY <1>13 DEF RecvLoad, LockInv, Holds
  <2>3. CountInv'
    <3>1. Uncounted' = Uncounted
      BY <1>13, SameUncounted DEF RecvLoad
    <3> QED
      BY <1>13, <3>1 DEF RecvLoad, CountInv, First
  <2>4. SlotInv'
    BY <1>13 DEF RecvLoad, SlotInv, First, InCall
  <2>5. AliveInv'
    <3>1. {q \in Producers : Live(q)}' = {q \in Producers : Live(q)}
      BY <1>13 DEF RecvLoad, Live
    <3> QED
      BY <1>13, <3>1 DEF RecvLoad, AliveInv, Live
  <2> QED
    BY <2>1, <2>2, <2>3, <2>4, <2>5
<1>14. CASE RecvRelease
  <2>1. TypeOK'
    <3>1. res \in Elements
      <4>1. head - 1 \in First .. tail - 1
        BY <1>14 DEF RecvRelease, CountInv, First, Uncounted
      <4> QED
        BY <1>14, <4>1 DEF RecvRelease, SlotInv
    <3>2. len' \in 0 .. Cap
      BY <1>14 DEF RecvRelease, CountInv
    <3>3. out' \in Seq(Elements)
      BY <1>14, <3>1 DEF RecvRelease
    <3> QED
      BY <1>14, <3>2, <3>3 DEF RecvRelease, CCs
  <2>2. LockInv'
    BY <1>14 DEF RecvRelease, LockInv, Holds
  <2>3. CountInv'
    <3>1. Uncounted' = Uncounted
      BY <1>14, SameUncounted DEF RecvRelease
    <3> QED
      BY <1>14, <3>1 DEF RecvRelease, CountInv, First
  <2>4. SlotInv'
    BY <1>14 DEF RecvRelease, SlotInv, First, InCall
  <2>5. AliveInv'
    <3>1. {q \in Producers : Live(q)}' = {q \in Producers : Live(q)}
      BY <1>14 DEF RecvRelease, Live
    <3> QED
      BY <1>14, <3>1 DEF RecvRelease, AliveInv, Live
  <2> QED
    BY <2>1, <2>2, <2>3, <2>4, <2>5
<1>15. CASE DropConsumer
  <2>1. TypeOK'
    BY <1>15 DEF DropConsumer, PCs, CCs
  <2>2. LockInv'
    BY <1>15 DEF DropConsumer, LockInv, Holds
  <2>3. CountInv'
    <3>1. Uncounted' = Uncounted
      BY <1>15, SameUncounted DEF DropConsumer
    <3> QED
      BY <1>15, <3>1 DEF DropConsumer, CountInv, First
  <2>4. SlotInv'
    BY <1>15 DEF DropConsumer, SlotInv, First, InCall
  <2>5. AliveInv'
    <3>1. {q \in Producers : Live(q)}' = {q \in Producers : Live(q)}
      BY <1>15 DEF DropConsumer, Live
    <3> QED
      BY <1>15, <3>1 DEF DropConsumer, AliveInv, Live
  <2> QED
    BY <2>1, <2>2, <2>3, <2>4, <2>5
<1>16. CASE DropRing
  <2>1. TypeOK'
    <3>1. Content \in Seq(Elements)
      <4>1. First \in Nat /\ First + len <= tail
        BY DEF CountInv, First, Uncounted
      <4>2. \A i \in 1 .. len : First + i - 1 \in First .. tail - 1
        BY <4>1
      <4>3. \A i \in 1 .. len : slot[Index(First + i - 1)] \in Elements
        BY <4>2 DEF SlotInv
      <4> QED
        BY <4>3 DEF Content
    <3> QED
      BY <1>16, <3>1 DEF DropRing
  <2>2. LockInv'
    BY <1>16 DEF DropRing, LockInv, Holds
  <2>3. CountInv'
    <3>1. Uncounted' = Uncounted
      BY <1>16, SameUncounted DEF DropRing
    <3> QED
      BY <1>16, <3>1 DEF DropRing, CountInv, First
  <2>4. SlotInv'
    BY <1>16 DEF DropRing, SlotInv, First, InCall
  <2>5. AliveInv'
    <3>1. {q \in Producers : Live(q)}' = {q \in Producers : Live(q)}
      BY <1>16 DEF DropRing, Live
    <3> QED
      BY <1>16, <3>1 DEF DropRing, AliveInv, Live
  <2> QED
    BY <2>1, <2>2, <2>3, <2>4, <2>5
<1>17. CASE UNCHANGED vars
  BY <1>17 DEF vars, LockInv, Holds, CountInv, First, Uncounted, SlotInv, InCall, AliveInv, Live
<1> QED
  BY <1>1, <1>2, <1>3, <1>4, <1>5, <1>6, <1>7, <1>8, <1>9, <1>10, <1>11, <1>12, <1>13, <1>14, <1>15, <1>16, <1>17
  DEF Next, Producer, Consumer, Terminated

\* The invariant holds throughout: what the theorems below are read off.
THEOREM Invariance == Spec => []IndInv
<1>1. Init => IndInv
  BY InitInd
<1>2. IndInv /\ [Next]_vars => IndInv'
  BY StepInd
<1> QED
  BY <1>1, <1>2, PTL DEF Spec

\* Whatever the producers and the consumer do and however often they clone and drop handles, each
\* variable stays within its type: len never passes the ring's size, px_count never drops below
\* zero, and recv only returns elements somebody sent.
THEOREM TypeCorrect == Spec => []TypeOK
BY Invariance, PTL DEF IndInv

\* push_back never writes the slot pop_front is reading, although pop_front takes no lock.
THEOREM SlotsNeverRace == Spec => []NoDataRace
<1>1. IndInv => NoDataRace
  <2> SUFFICES ASSUME IndInv, NEW p \in Producers, ppc[p] = "store", cpc = "load"
               PROVE  Index(tail) # Index(head)
    BY DEF NoDataRace
  <2>1. head \in First .. tail - 1
    BY DEF IndInv, TypeOK, CountInv, First, HolderAlone, Uncounted
  <2> QED
    BY <2>1, StoreIsApart
<1> QED
  BY <1>1, Invariance, PTL

\* The count that alone passes between the two sides never drifts from the indices.
THEOREM LenNeverDrifts == Spec => []LenIsDistance
<1>1. IndInv => LenIsDistance
  <2> SUFFICES ASSUME IndInv PROVE LenIsDistance
    OBVIOUS
  <2> DEFINE S == {p \in Producers : ppc[p] = "publish"}
  <2>1. Cardinality(S) = Uncounted
    <3>1. CASE \E p \in Producers : ppc[p] = "publish"
      <4>1. PICK p \in Producers : ppc[p] = "publish"
        BY <3>1
      <4>2. S = {p}
        BY <4>1, HolderAlone DEF IndInv, Holds
      <4> QED
        BY <3>1, <4>2, FS_Singleton DEF Uncounted
    <3>2. CASE ~\E p \in Producers : ppc[p] = "publish"
      <4>1. S = {}
        BY <3>2
      <4> QED
        BY <3>2, <4>1, FS_EmptySet DEF Uncounted
    <3> QED
      BY <3>1, <3>2
  <2>2. First \in Nat /\ Uncounted \in {0, 1} /\ First + len + Uncounted = tail
    BY DEF IndInv, TypeOK, CountInv, First, Uncounted
  <2> QED
    BY <2>1, <2>2 DEF LenIsDistance, IndInv, TypeOK
<1> QED
  BY <1>1, Invariance, PTL
-----------------------------------------------------------------------------
(* The refinement: sending takes effect at SendPublish, receiving at        *)
(* RecvRelease; stores, loads and looks at the lock leave the queue alone.  *)

\* The elements counted in len, as a sequence.
LEMMA ContentIsSeq ==
  ASSUME IndInv
  PROVE  /\ First \in Nat
         /\ Content \in Seq(Elements)
         /\ Len(Content) = len
         /\ \A i \in 1 .. len : First + i - 1 \in First .. tail - 1
<1>1. First \in Nat /\ len \in Nat /\ First + len <= tail
  BY DEF IndInv, TypeOK, CountInv, First, Uncounted
<1>2. \A i \in 1 .. len : First + i - 1 \in First .. tail - 1
  BY <1>1 DEF IndInv, TypeOK
<1>3. \A i \in 1 .. len : slot[Index(First + i - 1)] \in Elements
  BY <1>2 DEF IndInv, SlotInv
<1> QED
  BY <1>1, <1>2, <1>3 DEF Content

\* While a thread is in the ring, the ring is there.
LEMMA RingIsThere ==
  IndInv => /\ \A p \in Producers : Live(p) => ring
            /\ cpc # "dropped" => ring
BY DEF IndInv, TypeOK, AliveInv

\* A channel starts empty, with one producer and the consumer.
LEMMA InitRefines == Init => Abs!Init
<1> SUFFICES ASSUME Init PROVE Abs!Init
  OBVIOUS
<1>1. Content = <<>>
  BY DEF Init, RingInit, Content
<1>2. PICK p \in Producers : ppc = [q \in Producers |-> IF q = p THEN "idle" ELSE "unborn"]
  BY DEF Init, HandlesInit
<1>3. {q \in Producers : Live(q)} = {p}
  BY <1>2 DEF Live
<1> QED
  BY <1>1, <1>3 DEF Init, RingInit, HandlesInit, Abs!Init

\* Storing an element changes nothing that is counted.
LEMMA StoreKeepsContent ==
  ASSUME IndInv, NEW p \in Producers, SendStore(p)
  PROVE  Content' = Content
<1>1. /\ slot' = [slot EXCEPT ![Index(tail)] = <<p, made[p]>>]
      /\ UNCHANGED <<len, First>> /\ ppc[p] = "store"
  BY DEF SendStore, First, consumerVars
<1>2. \A i \in First .. tail - 1 : slot'[Index(i)] = slot[Index(i)]
  BY <1>1, StoreIsApart DEF IndInv, TypeOK
<1>3. \A i \in 1 .. len : slot'[Index(First + i - 1)] = slot[Index(First + i - 1)]
  BY <1>2, ContentIsSeq
<1> QED
  BY <1>1, <1>3 DEF Content

\* Raising len puts the stored element behind all others.
LEMMA PublishAppends ==
  ASSUME IndInv, IndInv', NEW p \in Producers, SendPublish(p)
  PROVE  /\ Content' = Append(Content, <<p, made[p]>>)
         /\ len < Cap
         /\ <<p, made[p]>> \in Elements
<1>1. /\ ppc[p] = "publish" /\ len' = len + 1 /\ UNCHANGED <<slot, First>>
  BY DEF SendPublish, First, consumerVars
<1>2. Uncounted = 1
  BY <1>1 DEF Uncounted
<1>3. First \in Nat /\ len \in Nat /\ First + len + 1 = tail /\ len < Cap
  BY <1>1, <1>2, ContentIsSeq DEF IndInv, TypeOK, CountInv
<1>4. slot[Index(First + len)] = <<p, made[p]>>
  <2>1. First + len = tail - 1
    BY <1>3 DEF IndInv, TypeOK
  <2> QED
    BY <1>1, <2>1 DEF IndInv, SlotInv
<1>5. made[p] \in 1 .. MaxSend
  <2>1. made[p] \in 0 .. MaxSend /\ made[p] > 0
    BY <1>1 DEF IndInv, TypeOK, SlotInv, InCall
  <2> QED
    BY <2>1, MaxSendAssumption
<1>6. <<p, made[p]>> \in Elements
  BY <1>5 DEF Elements
<1>7. /\ Content' \in Seq(Elements) /\ Len(Content') = len + 1
      /\ Content \in Seq(Elements) /\ Len(Content) = len
  <2>1. (IndInv => Content \in Seq(Elements) /\ Len(Content) = len)'
    BY ContentIsSeq, PTL
  <2> QED
    BY <1>1, <2>1, ContentIsSeq
<1>8. \A i \in 1 .. len + 1 : Content'[i] = Append(Content, <<p, made[p]>>)[i]
  <2> SUFFICES ASSUME NEW i \in 1 .. len + 1
               PROVE  Content'[i] = Append(Content, <<p, made[p]>>)[i]
    OBVIOUS
  <2>1. Content'[i] = slot[Index(First + i - 1)]
    BY <1>1 DEF Content
  <2>2. CASE i = len + 1
    <3>1. First + i - 1 = First + len
      BY <2>2, <1>3
    <3> QED
      BY <2>1, <2>2, <3>1, <1>4, <1>6, <1>7, AppendProperties
  <2>3. CASE i # len + 1
    <3>1. i \in 1 .. len
      BY <2>3, <1>3
    <3>2. Content[i] = slot[Index(First + i - 1)]
      BY <3>1 DEF Content
    <3> QED
      BY <2>1, <3>1, <3>2, <1>6, <1>7, AppendProperties
  <2> QED
    BY <2>2, <2>3
<1>9. /\ Append(Content, <<p, made[p]>>) \in Seq(Elements)
      /\ Len(Append(Content, <<p, made[p]>>)) = len + 1
  BY <1>6, <1>7, AppendProperties
<1> QED
  BY <1>3, <1>6, <1>7, <1>8, <1>9, SeqEqual

\* Lowering len takes the front element off: the one recv returns.
LEMMA ReleaseTakesHead ==
  ASSUME IndInv, IndInv', RecvRelease
  PROVE  Content # <<>> /\ res = Head(Content) /\ Content' = Tail(Content)
<1>1. /\ cpc = "release" /\ len' = len - 1 /\ len \in Nat /\ len > 0
      /\ UNCHANGED <<slot, head>> /\ head \in Nat /\ head > 0
  BY DEF RecvRelease, IndInv, TypeOK, CountInv
<1>2. First = head - 1 /\ First' = First + 1
  <2>1. cpc' = "idle"
    BY DEF RecvRelease
  <2> QED
    BY <1>1, <2>1 DEF First
<1>3. /\ Content' \in Seq(Elements) /\ Len(Content') = len - 1
      /\ Content \in Seq(Elements) /\ Len(Content) = len
  <2>1. (IndInv => Content \in Seq(Elements) /\ Len(Content) = len)'
    BY ContentIsSeq, PTL
  <2> QED
    BY <1>1, <2>1, ContentIsSeq
<1>4. Content # <<>>
  BY <1>1, <1>3
<1>5. Head(Content) = res
  <2>1. Content[1] = slot[Index(First + 1 - 1)]
    BY <1>1 DEF Content
  <2>2. First + 1 - 1 = head - 1
    BY <1>1, <1>2
  <2> QED
    BY <1>1, <1>3, <1>4, <2>1, <2>2 DEF IndInv, SlotInv
<1>6. /\ Tail(Content) \in Seq(Elements) /\ Len(Tail(Content)) = len - 1
      /\ \A i \in 1 .. len - 1 : Tail(Content)[i] = Content[i + 1]
  BY <1>1, <1>3, <1>4
<1>7. \A i \in 1 .. len - 1 : Content'[i] = Tail(Content)[i]
  <2> SUFFICES ASSUME NEW i \in 1 .. len - 1 PROVE Content'[i] = Content[i + 1]
    BY <1>6
  <2>1. Content'[i] = slot[Index(First + 1 + i - 1)]
    BY <1>1, <1>2 DEF Content
  <2>2. i + 1 \in 1 .. len
    BY <1>1
  <2>3. Content[i + 1] = slot[Index(First + (i + 1) - 1)]
    BY <2>2 DEF Content
  <2>4. First + 1 + i - 1 = First + (i + 1) - 1
    BY <1>1, <1>2
  <2> QED
    BY <2>1, <2>3, <2>4
<1> QED
  BY <1>3, <1>4, <1>5, <1>6, <1>7, SeqEqual

\* Every step is a step of the abstract channel or leaves it alone.
LEMMA StepRefines == IndInv /\ IndInv' /\ [Next]_vars => [Abs!Next]_Abs!vars
<1> SUFFICES ASSUME IndInv, IndInv', [Next]_vars PROVE [Abs!Next]_Abs!vars
  OBVIOUS
<1> USE DEF producerVars, consumerVars, dropVars
<1>1. ppc \in [Producers -> PCs] /\ freed \in Seq(Elements)
  BY DEF IndInv, TypeOK
<1>2. ASSUME NEW p \in Producers,
             SendCall(p) \/ SendLock(p) \/ SendFull(p) \/ SendStore(p)
      PROVE  UNCHANGED Abs!vars
  <2>1. Content' = Content
    <3>1. CASE SendStore(p)
      BY <3>1, StoreKeepsContent
    <3>2. CASE SendCall(p) \/ SendLock(p) \/ SendFull(p)
      BY <3>2 DEF SendCall, SendLock, SendFull, Content, First
    <3> QED
      BY <1>2, <3>1, <3>2
  <2>2. {q \in Producers : Live(q)}' = {q \in Producers : Live(q)}
    BY <1>1, <1>2 DEF SendCall, SendLock, SendFull, SendStore, Live
  <2>3. UNCHANGED <<ring, out, rejected, freed, eof, cpc>>
    BY <1>2 DEF SendCall, SendLock, SendFull, SendStore
  <2> QED
    BY <2>1, <2>2, <2>3 DEF Abs!vars
<1>3. ASSUME NEW p \in Producers, SendAlive(p) PROVE [Abs!Next]_Abs!vars
  <2>1. UNCHANGED <<Content, ring, out, freed, eof, cpc>>
    BY <1>3 DEF SendAlive, Content, First
  <2>2. {q \in Producers : Live(q)}' = {q \in Producers : Live(q)}
    BY <1>1, <1>3 DEF SendAlive, Live
  <2>3. CASE cx_count
    <3>1. rejected' = rejected
      BY <1>3, <2>3 DEF SendAlive
    <3> QED
      BY <2>1, <2>2, <3>1 DEF Abs!vars
  <2>4. CASE ~cx_count
    <3>1. rejected' = rejected \cup {<<p, made[p]>>} /\ cpc = "dropped" /\ Live(p)
      BY <1>3, <2>4 DEF SendAlive, IndInv, AliveInv, Live
    <3>2. <<p, made[p]>> \in Elements
      <4>1. made[p] \in 0 .. MaxSend /\ made[p] > 0
        BY <1>3 DEF SendAlive, IndInv, TypeOK, SlotInv, InCall
      <4>2. made[p] \in 1 .. MaxSend
        BY <4>1, MaxSendAssumption
      <4> QED
        BY <4>2 DEF Elements
    <3>3. Abs!Reject(p, <<p, made[p]>>)
      BY <2>1, <2>2, <3>1 DEF Abs!Reject
    <3> QED
      BY <3>2, <3>3 DEF Abs!Next
  <2> QED
    BY <2>3, <2>4
<1>4. ASSUME NEW p \in Producers, SendPublish(p) PROVE Abs!Next
  <2>1. /\ Content' = Append(Content, <<p, made[p]>>)
        /\ Len(Content) < Cap
        /\ <<p, made[p]>> \in Elements
    BY <1>4, PublishAppends, ContentIsSeq
  <2>2. {q \in Producers : Live(q)}' = {q \in Producers : Live(q)}
    BY <1>1, <1>4 DEF SendPublish, Live
  <2>3. Live(p) /\ ring /\ UNCHANGED <<ring, out, rejected, freed, eof, cpc>>
    BY <1>4, RingIsThere DEF SendPublish, Live
  <2>4. Abs!Send(p, <<p, made[p]>>)
    BY <2>1, <2>2, <2>3 DEF Abs!Send
  <2> QED
    BY <2>1, <2>4 DEF Abs!Next
<1>5. ASSUME NEW p \in Producers, DropProducer(p) PROVE Abs!Next
  <2>1. UNCHANGED <<Content, ring, out, rejected, freed, eof, cpc>>
    BY <1>5 DEF DropProducer, Content, First
  <2>2. {q \in Producers : Live(q)}' = {q \in Producers : Live(q)} \ {p} /\ Live(p)
    BY <1>1, <1>5 DEF DropProducer, Live
  <2>3. Abs!DropSender(p)
    BY <2>1, <2>2 DEF Abs!DropSender
  <2> QED
    BY <2>3 DEF Abs!Next
<1>6. ASSUME NEW p \in Producers, NEW q \in Producers, Clone(p, q) PROVE Abs!Next
  <2>1. UNCHANGED <<Content, ring, out, rejected, freed, eof, cpc>>
    BY <1>6 DEF Clone, Content, First
  <2>2. {r \in Producers : Live(r)}' = {r \in Producers : Live(r)} \cup {q}
    BY <1>1, <1>6 DEF Clone, Live
  <2>3. Live(p) /\ ~Live(q)
    BY <1>6 DEF Clone, Live
  <2>4. Abs!Clone(p, q)
    BY <2>1, <2>2, <2>3 DEF Abs!Clone
  <2> QED
    BY <2>4 DEF Abs!Next
<1>7. CASE RecvCall \/ RecvEmpty \/ RecvExist \/ RecvLoad
  <2>1. UNCHANGED <<ring, out, rejected, freed, eof, ppc>> /\ cpc # "dropped" /\ cpc' # "dropped"
    BY <1>7 DEF RecvCall, RecvEmpty, RecvExist, RecvLoad
  <2>2. First' = First
    <3>1. CASE RecvLoad
      <4>1. cpc = "load" /\ cpc' = "release" /\ head' = head + 1 /\ head \in Nat
        BY <3>1 DEF RecvLoad, IndInv, TypeOK
      <4> QED
        BY <4>1 DEF First
    <3>2. CASE RecvCall \/ RecvEmpty \/ RecvExist
      BY <3>2 DEF RecvCall, RecvEmpty, RecvExist, First
    <3> QED
      BY <1>7, <3>1, <3>2
  <2>3. Content' = Content
    BY <1>7, <2>2 DEF RecvCall, RecvEmpty, RecvExist, RecvLoad, Content
  <2> QED
    BY <2>1, <2>3 DEF Abs!vars, Live
<1>8. CASE RecvRecheck
  <2>1. UNCHANGED <<Content, ring, out, rejected, freed, ppc>> /\ cpc # "dropped" /\ cpc' # "dropped"
    BY <1>8 DEF RecvRecheck, Content, First
  <2>2. CASE eof' = eof
    BY <2>1, <2>2 DEF Abs!vars, Live
  <2>3. CASE eof' # eof
    <3>1. eof' /\ len = 0 /\ ~seen /\ cpc = "recheck"
      BY <1>8, <2>3 DEF RecvRecheck
    <3>2. {p \in Producers : Live(p)} = {}
      BY <3>1 DEF IndInv, AliveInv
    <3>3. Content = <<>>
      BY <3>1, ContentIsSeq
    <3>4. Abs!EndOfStream
      BY <2>1, <3>1, <3>2, <3>3 DEF Abs!EndOfStream, Live
    <3> QED
      BY <3>4 DEF Abs!Next
  <2> QED
    BY <2>2, <2>3
<1>9. CASE RecvRelease
  <2>1. Content # <<>> /\ res = Head(Content) /\ Content' = Tail(Content)
    BY <1>9, ReleaseTakesHead
  <2>2. /\ out' = Append(out, res) /\ cpc # "dropped" /\ cpc' # "dropped" /\ ring
        /\ UNCHANGED <<ring, rejected, freed, eof, ppc>>
    BY <1>9, RingIsThere DEF RecvRelease
  <2>3. Abs!Recv
    BY <2>1, <2>2 DEF Abs!Recv, Live
  <2> QED
    BY <2>3 DEF Abs!Next
<1>10. CASE DropConsumer
  <2>1. UNCHANGED <<Content, ring, out, rejected, freed, eof, ppc>>
    BY <1>10 DEF DropConsumer, Content, First
  <2>2. Abs!DropReceiver
    BY <1>10, <2>1 DEF DropConsumer, Abs!DropReceiver, Live
  <2> QED
    BY <2>2 DEF Abs!Next
<1>11. CASE DropRing
  <2>1. freed' = freed \o Content
    <3>1. freed = <<>> /\ freed' = Content
      BY <1>11 DEF DropRing, IndInv, AliveInv
    <3> QED
      BY <3>1, ContentIsSeq, ConcatEmptySeq
  <2>2. Abs!Free
    BY <1>11, <2>1 DEF DropRing, Abs!Free, Live
  <2> QED
    BY <2>2 DEF Abs!Next
<1>12. CASE UNCHANGED vars
  BY <1>12 DEF vars, Abs!vars, Content, First, Live
<1> QED
  BY <1>2, <1>3, <1>4, <1>5, <1>6, <1>7, <1>8, <1>9, <1>10, <1>11, <1>12
  DEF Next, Producer, Consumer, Terminated

\* The crate's main theorem: from outside, mutex, count and ring are a bounded first-in first-out
\* channel, whichever way any number of producers interleave.
THEOREM Refinement == Spec => ImplementsChannel
<1>1. Init => Abs!Init
  BY InitRefines
<1>2. IndInv /\ IndInv' /\ [Next]_vars => [Abs!Next]_Abs!vars
  BY StepRefines
<1> QED
  BY <1>1, <1>2, Invariance, PTL DEF Spec, ImplementsChannel, Abs!Spec
=============================================================================
