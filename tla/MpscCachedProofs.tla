-------------------------- MODULE MpscCachedProofs --------------------------
(***************************************************************************)
(* Theorems about MpscCached, for every ring size, slice size, any finite  *)
(* number of producers and any number of elements: all the invariants its  *)
(* run checks.                                                             *)
(*                                                                         *)
(* The argument: the slices that are out or wait in filled_slices lie      *)
(* apart from each other and fill the stretch from readable_till to tail.  *)
(* Up to the update one holder of a lock or the consumer is in the middle  *)
(* of, each of the three counters is a difference of indices, whence the   *)
(* comment over `free`.  A slice at the front of the stretch always has    *)
(* somebody in merge_with_filled_slices to take it in, so that nothing is  *)
(* left when the last producer goes.                                       *)
(*                                                                         *)
(* On top of that, for the order of the elements: p's elements in the ring *)
(* lie before the slice p fills now, so that storing the slice puts its    *)
(* elements behind them, and merging moves nothing.                        *)
(***************************************************************************)
EXTENDS MpscCached, CommonLemmas

HoldsTail(p) == ppc[p] \in {"free", "reserve", "take"}
HoldsFilled(p) == ppc[p] \in {"count", "uncount"}
Merging(p) == ppc[p] \in {"merge", "count", "uncount"}

\* p's slice is still to be written or handed in.
Out(p) == slice[p] # NoSlice /\ ppc[p] \in {"take", "idle", "store", "merge"}

\* The slice lies in the part of the ring that is given out and not readable.
Inside(s) == s[2] > 0 /\ readable_till <= s[1] /\ s[1] + s[2] <= tail

\* The slices that wait, with the one p hands in.
Handed(p) == IF slice[p] = NoSlice THEN filled_slices ELSE filled_slices \cup {slice[p]}

Apart(s, t) == s[1] + s[2] <= t[1] \/ t[1] + t[2] <= s[1]

\* The mutexes are held by whoever is past them.
LockInv ==
  /\ \A p \in Producers : HoldsTail(p) <=> tailLock = p
  /\ \A p \in Producers : HoldsFilled(p) <=> filledLock = p

\* What a producer knows where it is.
Place(p) ==
  /\ ppc[p] \in {"unborn", "apply", "free", "alive"} => slice[p] = NoSlice
  /\ ppc[p] = "reserve" => slice[p][1] = tail /\ 0 < slice[p][2] /\ slice[p][2] <= free
  /\ ppc[p] = "take" => slice[p][1] + slice[p][2] = tail /\ slice[p][2] <= free
  /\ ppc[p] \in {"take", "store"} => slice[p] # NoSlice
  /\ ppc[p] \in {"apply", "free", "alive", "reserve", "take"} => made[p] > 0

PlaceInv == \A p \in Producers : Place(p)

\* What the three counters count.
CountInv ==
  /\ reserved = tail - readable_till + SizeAt("count") + SizeAt("uncount")
  /\ len = readable_till - head - SizeAt("count") + (IF cpc = "unlen" THEN 1 ELSE 0)
  /\ free = Cap - (tail - head) + SizeAt("take") - (IF cpc \in {"unlen", "unfree"} THEN 1 ELSE 0)
  /\ head + SizeAt("count") <= readable_till
  /\ cpc = "load" => len > 0

\* The unmerged slices, with who has them.
TileInv ==
  /\ readable_till <= tail
  /\ \A p \in Producers : Out(p) => Inside(slice[p])
  /\ \A s \in filled_slices : Inside(s)
  /\ \A p, q \in Producers : p # q /\ Out(p) /\ Out(q) => Apart(slice[p], slice[q])
  /\ \A p \in Producers, s \in filled_slices : Out(p) => Apart(slice[p], s)
  /\ \A s, t \in filled_slices : s # t => Apart(s, t)
  /\ \A i \in readable_till .. tail - 1 :
       \/ \E s \in filled_slices : i \in Positions(s)
       \/ \E p \in Producers : Out(p) /\ i \in Positions(slice[p])

\* A slice that could become readable has somebody at it.
MergeInv ==
  (\E s \in filled_slices : s[1] = readable_till) => \E p \in Producers : Merging(p)

\* Who is there, and what the consumer knows of it.
AliveInv ==
  /\ px_count = Cardinality({p \in Producers : Live(p)})
  /\ cpc = "recheck" /\ ~seen => \A p \in Producers : ~Live(p)
  /\ cpc = "reserved" => len = 0 /\ \A p \in Producers : ~Live(p)
  /\ eof => head = tail /\ \A p \in Producers : ~Live(p)

IndInv == TypeOK /\ LockInv /\ PlaceInv /\ CountInv /\ TileInv /\ MergeInv /\ AliveInv
-----------------------------------------------------------------------------
\* A position is masked to a slot of the ring.
LEMMA IndexInRange == \A i \in Nat : Index(i) \in 0 .. Cap - 1
BY SlotInRange, CapAssumption DEF Index

\* Positions less than a ring apart live in different slots.
LEMMA IndexApart ==
  ASSUME NEW i \in Nat, NEW j \in Nat, i # j, i < j + Cap, j < i + Cap
  PROVE  Index(i) # Index(j)
<1>1. CASE i < j
  BY <1>1, SlotsApart, CapAssumption DEF Index
<1>2. CASE j < i
  BY <1>2, SlotsApart, CapAssumption DEF Index
<1> QED
  BY <1>1, <1>2

\* px_count can count every handle there may be.
LEMMA HandlesCounted ==
  ASSUME NEW S \in SUBSET Producers
  PROVE  IsFiniteSet(S) /\ Cardinality(S) \in 0 .. Cardinality(Producers)
BY ProducersAssumption, FS_Subset, FS_CardinalityType

\* SizeAt with nobody at the place, and with one producer there.
LEMMA SizeNone ==
  ASSUME NEW pc, \A p \in Producers : ppc[p] # pc
  PROVE  SizeAt(pc) = 0
BY DEF SizeAt

\* The size at a place with one producer is the length of its slice.
LEMMA SizeOne ==
  ASSUME NEW pc, NEW p \in Producers, ppc[p] = pc, \A q \in Producers : q # p => ppc[q] # pc
  PROVE  SizeAt(pc) = slice[p][2]
<1>1. {q \in Producers : ppc[q] = pc} = {p}
  OBVIOUS
<1> QED
  BY <1>1 DEF SizeAt

\* The same after a step.
LEMMA SizeNoneNext ==
  ASSUME NEW pc, \A p \in Producers : ppc'[p] # pc
  PROVE  SizeAt(pc)' = 0
BY DEF SizeAt

\* And with one producer there.
LEMMA SizeOneNext ==
  ASSUME NEW pc, NEW p \in Producers, ppc'[p] = pc, \A q \in Producers : q # p => ppc'[q] # pc
  PROVE  SizeAt(pc)' = slice'[p][2]
<1>1. {q \in Producers : ppc'[q] = pc} = {p}
  OBVIOUS
<1> QED
  BY <1>1 DEF SizeAt

\* A step that moves nobody to or from the place leaves its size alone.
LEMMA SizeSame ==
  ASSUME NEW pc,
         \A p \in Producers : /\ ppc'[p] = pc <=> ppc[p] = pc
                              /\ ppc[p] = pc => slice'[p] = slice[p]
  PROVE  SizeAt(pc)' = SizeAt(pc)
<1> DEFINE at == {p \in Producers : ppc[p] = pc}
           next == {p \in Producers : ppc'[p] = pc}
           one == CHOOSE p \in at : TRUE
<1>1. next = at
  OBVIOUS
<1>2. SizeAt(pc) = IF at = {} THEN 0 ELSE slice[one][2]
  BY DEF SizeAt
<1>3. SizeAt(pc)' = IF next = {} THEN 0 ELSE slice'[CHOOSE p \in next : TRUE][2]
  BY DEF SizeAt
<1>4. at # {} => slice'[one] = slice[one]
  OBVIOUS
<1> HIDE DEF at, next
<1> QED
  BY <1>1, <1>2, <1>3, <1>4

\* SizeAt is the length of a slice, or 0.
LEMMA SizeType ==
  ASSUME TypeOK, NEW pc
  PROVE  SizeAt(pc) \in 0 .. Cap
<1> DEFINE at == {p \in Producers : ppc[p] = pc}
<1>1. CASE at = {}
  BY <1>1, CapAssumption DEF SizeAt
<1>2. CASE at # {}
  <2>1. (CHOOSE p \in at : TRUE) \in Producers
    BY <1>2
  <2> HIDE DEF at
  <2> QED
    BY <1>2, <2>1 DEF SizeAt, at, TypeOK
<1> QED
  BY <1>1, <1>2

\* A step that gives no slice out and hands none in leaves the tiling alone.
LEMMA SameTiles ==
  ASSUME TileInv, UNCHANGED <<readable_till, tail, filled_slices>>,
         \A r \in Producers : (Out(r)' <=> Out(r)) /\ (Out(r) => slice'[r] = slice[r])
  PROVE  TileInv'
BY DEF TileInv, Inside, Apart, Positions

\* The ring starts in a state the invariant describes.
LEMMA InitInd == Init => IndInv
<1> SUFFICES ASSUME Init PROVE IndInv
  OBVIOUS
<1> USE CapAssumption, MaxSendAssumption, ProducersAssumption
        DEF Init, RingInit, HandlesInit
<1>1. PICK p \in Producers : ppc = [q \in Producers |-> IF q = p THEN "idle" ELSE "unborn"]
  OBVIOUS
<1>2. {q \in Producers : Live(q)} = {p} /\ Cardinality({p}) = 1
  <2>1. \A q \in Producers : Live(q) <=> q = p
    BY <1>1 DEF Live
  <2>2. {q \in Producers : Live(q)} = {p}
    BY <2>1
  <2> QED
    BY <2>2, FS_Singleton
<1>3. px_count \in 0 .. Cardinality(Producers)
  BY <1>2, HandlesCounted
<1>4. TypeOK
  <2>1. slot \in [0 .. Cap - 1 -> Elements \cup {None}]
    OBVIOUS
  <2>2. ppc \in [Producers -> PCs]
    BY <1>1 DEF PCs
  <2>3. slice \in [Producers -> Nat \X (0 .. Cap)]
    BY DEF NoSlice
  <2>4. /\ buf_local \in [Producers -> Seq(Elements)]
        /\ made \in [Producers -> 0 .. MaxSend]
        /\ closing \in [Producers -> BOOLEAN]
    OBVIOUS
  <2>5. out \in Seq(Elements) /\ freed \in Seq(Elements) /\ res \in Elements \cup {None}
    OBVIOUS
  <2>6. {tailLock, filledLock} \subseteq Producers \cup {Nobody}
    OBVIOUS
  <2>7. filled_slices \in SUBSET (Nat \X (1 .. Cap)) /\ rejected \in SUBSET Elements
    OBVIOUS
  <2>8. len \in 0 .. Cap /\ free \in 0 .. Cap
    OBVIOUS
  <2> QED
    BY <1>3, <2>1, <2>2, <2>3, <2>4, <2>5, <2>6, <2>7, <2>8 DEF TypeOK, CCs
<1>5. LockInv
  BY <1>1 DEF LockInv, HoldsTail, HoldsFilled
<1>6. PlaceInv
  BY <1>1 DEF PlaceInv, Place
<1>7. CountInv
  <2>1. SizeAt("take") = 0 /\ SizeAt("count") = 0 /\ SizeAt("uncount") = 0
    BY <1>1, SizeNone
  <2> QED
    BY <2>1 DEF CountInv
<1>8. TileInv
  BY <1>1 DEF TileInv, Out
<1>9. MergeInv /\ AliveInv
  BY <1>1, <1>2 DEF MergeInv, AliveInv
<1> QED
  BY <1>4, <1>5, <1>6, <1>7, <1>8, <1>9 DEF IndInv

\* Whoever is past a lock is alone there.
LEMMA HolderAlone ==
  ASSUME LockInv, NEW p \in Producers, NEW q \in Producers, p # q
  PROVE  /\ HoldsTail(p) => ~HoldsTail(q)
         /\ HoldsFilled(p) => ~HoldsFilled(q)
BY DEF LockInv

\* The room that is being taken is there, and its slice is at the end of what is given out.
LEMMA TakeSize ==
  ASSUME IndInv
  PROVE  SizeAt("take") <= free /\ readable_till + SizeAt("take") <= tail
<1>1. CASE \A p \in Producers : ppc[p] # "take"
  <2>1. SizeAt("take") = 0
    BY <1>1, SizeNone
  <2> QED
    BY <2>1 DEF IndInv, TypeOK, TileInv
<1>2. CASE \E p \in Producers : ppc[p] = "take"
  <2>1. PICK p \in Producers : ppc[p] = "take"
    BY <1>2
  <2>2. SizeAt("take") = slice[p][2]
    BY <2>1, HolderAlone, SizeOne DEF IndInv, HoldsTail
  <2>3. /\ slice[p][1] + slice[p][2] = tail /\ slice[p][2] <= free
        /\ readable_till <= slice[p][1]
    BY <2>1 DEF IndInv, PlaceInv, Place, TileInv, Out, Inside
  <2>4. slice[p] \in Nat \X (0 .. Cap) /\ readable_till \in Nat
    BY DEF IndInv, TypeOK
  <2>5. slice[p][1] \in Nat /\ slice[p][2] \in Nat
    BY <2>4, CapAssumption
  <2> QED
    BY <2>2, <2>3, <2>4, <2>5
<1> QED
  BY <1>1, <1>2

\* The indices follow each other, never more than a ring apart.
LEMMA IndicesInOrder ==
  ASSUME IndInv
  PROVE  /\ head <= readable_till /\ readable_till <= tail
         /\ tail - head + (IF cpc \in {"unlen", "unfree"} THEN 1 ELSE 0) <= Cap
<1>1. SizeAt("count") \in Nat /\ SizeAt("take") \in Nat
  BY SizeType DEF IndInv
<1>2. /\ head \in Nat /\ tail \in Nat /\ readable_till \in Nat /\ free \in Nat
      /\ readable_till <= tail
  BY DEF IndInv, TypeOK, TileInv
<1> QED
  BY <1>1, <1>2, TakeSize, CapAssumption DEF IndInv, CountInv

\* After p has handed its slice in, what waits and what the others have out still tile.
LEMMA HandedTile ==
  ASSUME IndInv, NEW p \in Producers, ppc[p] = "merge"
  PROVE  /\ Handed(p) \in SUBSET (Nat \X (1 .. Cap))
         /\ \A s \in Handed(p) : Inside(s)
         /\ \A s, t \in Handed(p) : s # t => Apart(s, t)
         /\ \A q \in Producers, s \in Handed(p) : q # p /\ Out(q) => Apart(slice[q], s)
         /\ \A i \in readable_till .. tail - 1 :
              \/ \E s \in Handed(p) : i \in Positions(s)
              \/ \E q \in Producers : q # p /\ Out(q) /\ i \in Positions(slice[q])
<1>1. CASE slice[p] = NoSlice
  BY <1>1 DEF IndInv, TypeOK, TileInv, Handed, Out
<1>2. CASE slice[p] # NoSlice
  <2>1. Out(p) /\ Handed(p) = filled_slices \cup {slice[p]}
    BY <1>2 DEF Handed, Out
  <2>2. Inside(slice[p]) /\ slice[p] \in Nat \X (0 .. Cap)
    BY <2>1 DEF IndInv, TypeOK, TileInv
  <2>3. slice[p] \in Nat \X (1 .. Cap)
    BY <2>2 DEF Inside
  <2>4. Handed(p) \in SUBSET (Nat \X (1 .. Cap))
    BY <2>1, <2>3 DEF IndInv, TypeOK
  <2>5. \A s \in Handed(p) : Inside(s)
    BY <2>1, <2>2 DEF IndInv, TileInv
  <2>6. \A s \in filled_slices : Apart(slice[p], s) /\ Apart(s, slice[p])
    BY <2>1 DEF IndInv, TileInv, Apart
  <2>7. \A s, t \in Handed(p) : s # t => Apart(s, t)
    BY <2>1, <2>6 DEF IndInv, TileInv
  <2>8. \A q \in Producers, s \in Handed(p) : q # p /\ Out(q) => Apart(slice[q], s)
    BY <2>1 DEF IndInv, TileInv
  <2>9. \A i \in readable_till .. tail - 1 :
          \/ \E s \in Handed(p) : i \in Positions(s)
          \/ \E q \in Producers : q # p /\ Out(q) /\ i \in Positions(slice[q])
    BY <2>1 DEF IndInv, TileInv
  <2> QED
    BY <2>4, <2>5, <2>7, <2>8, <2>9
<1> QED
  BY <1>1, <1>2

\* Every step of every thread keeps the invariant.
LEMMA StepInd == IndInv /\ [Next]_vars => IndInv'
<1> SUFFICES ASSUME IndInv, [Next]_vars PROVE IndInv'
  OBVIOUS
<1> USE CapAssumption, ApplySizeAssumption, MaxSendAssumption, ProducersAssumption
        DEF IndInv, TypeOK, tailVars, mergeVars, countVars, aliveVars, producerVars, consumerVars,
            dropVars
<1>ints. /\ head \in Nat /\ tail \in Nat /\ readable_till \in Nat
         /\ len \in Nat /\ free \in Nat /\ reserved \in Nat
  OBVIOUS
<1>sizes. SizeAt("take") \in Nat /\ SizeAt("count") \in Nat /\ SizeAt("uncount") \in Nat
  BY SizeType
<1>1. ASSUME NEW p \in Producers, SendLocal(p) PROVE IndInv'
  <2>1. TypeOK'
    <3>1. made[p] + 1 \in 1 .. MaxSend
      <4>1. made[p] \in 0 .. MaxSend /\ made[p] < MaxSend
        BY <1>1 DEF SendLocal
      <4> HIDE DEF TypeOK
      <4> QED
        BY <4>1
    <3>2. made' \in [Producers -> 0 .. MaxSend] /\ made'[p] = made[p] + 1
      <4>1. made' = [made EXCEPT ![p] = made[p] + 1] /\ made \in [Producers -> 0 .. MaxSend]
        BY <1>1 DEF SendLocal
      <4>2. made[p] + 1 \in 0 .. MaxSend
        BY <3>1
      <4> HIDE DEF IndInv, TypeOK
      <4> QED
        BY <4>1, <4>2
    <3>3. <<p, made'[p]>> \in Elements
      BY <3>1, <3>2 DEF Elements
    <3>4. buf_local' \in [Producers -> Seq(Elements)]
      BY <1>1, <3>3 DEF SendLocal, Push
    <3>5. ppc' \in [Producers -> PCs]
      BY <1>1 DEF SendLocal, Push, PCs
    <3> QED
      BY <1>1, <3>2, <3>4, <3>5 DEF SendLocal
  <2>2. LockInv'
    BY <1>1 DEF SendLocal, Push, LockInv, HoldsTail, HoldsFilled
  <2>3. PlaceInv'
    BY <1>1 DEF SendLocal, Push, PlaceInv, Place, NoSlice
  <2>4. CountInv'
    <3>1. UNCHANGED <<SizeAt("take"), SizeAt("count"), SizeAt("uncount")>>
      BY <1>1, SizeSame DEF SendLocal, Push
    <3> QED
      BY <1>1, <3>1 DEF SendLocal, Push, CountInv
  <2>5. TileInv'
    <3>1. \A r \in Producers : (Out(r)' <=> Out(r)) /\ (Out(r) => slice'[r] = slice[r])
      BY <1>1 DEF SendLocal, Push, PlaceInv, Place, Out
    <3>2. UNCHANGED <<readable_till, tail, filled_slices>>
      BY <1>1 DEF SendLocal, Push
    <3> QED
      BY <3>1, <3>2, SameTiles
  <2>6. MergeInv'
    BY <1>1 DEF SendLocal, Push, MergeInv, Merging
  <2>7. AliveInv'
    <3>1. {r \in Producers : Live(r)}' = {r \in Producers : Live(r)} /\ Live(p)
      BY <1>1 DEF SendLocal, Push, Live
    <3> QED
      BY <1>1, <3>1 DEF SendLocal, Push, AliveInv
  <2> QED
    BY <2>1, <2>2, <2>3, <2>4, <2>5, <2>6, <2>7
<1>2. ASSUME NEW p \in Producers, SendCall(p) PROVE IndInv'
  <2>1. TypeOK'
    <3>1. made' \in [Producers -> 0 .. MaxSend]
      <4>1. made[p] \in 0 .. MaxSend /\ made[p] < MaxSend
        BY <1>2 DEF SendCall
      <4>2. made[p] + 1 \in 0 .. MaxSend
        <5> HIDE DEF TypeOK
        <5> QED
          BY <4>1
      <4> QED
        BY <1>2, <4>2 DEF SendCall
    <3>2. ppc' \in [Producers -> PCs]
      BY <1>2 DEF SendCall, PCs
    <3> QED
      BY <1>2, <3>1, <3>2 DEF SendCall
  <2>2. LockInv'
    BY <1>2 DEF SendCall, LockInv, HoldsTail, HoldsFilled
  <2>3. PlaceInv'
    <3> SUFFICES ASSUME NEW r \in Producers PROVE Place(r)'
      BY DEF PlaceInv
    <3>1. Place(r)
      BY DEF PlaceInv
    <3>2. CASE r = p
      <4>1. ppc'[p] = "apply" /\ slice'[p] = NoSlice /\ made'[p] = made[p] + 1 /\ made[p] \in Nat
        BY <1>2 DEF SendCall
      <4> HIDE DEF IndInv, TypeOK
      <4> QED
        BY <3>2, <4>1 DEF Place
    <3>3. CASE r # p
      BY <1>2, <3>1, <3>3 DEF SendCall, Place, HoldsTail
    <3> QED
      BY <3>2, <3>3
  <2>4. CountInv'
    <3>1. UNCHANGED <<SizeAt("take"), SizeAt("count"), SizeAt("uncount")>>
      BY <1>2, SizeSame DEF SendCall
    <3> QED
      BY <1>2, <3>1 DEF SendCall, CountInv
  <2>5. TileInv'
    <3>1. \A r \in Producers : (Out(r)' <=> Out(r)) /\ (Out(r) => slice'[r] = slice[r])
      BY <1>2 DEF SendCall, PlaceInv, Place, Out
    <3>2. UNCHANGED <<readable_till, tail, filled_slices>>
      BY <1>2 DEF SendCall
    <3> QED
      BY <3>1, <3>2, SameTiles
  <2>6. MergeInv'
    BY <1>2 DEF SendCall, MergeInv, Merging
  <2>7. AliveInv'
    <3>1. {r \in Producers : Live(r)}' = {r \in Producers : Live(r)} /\ Live(p)
      BY <1>2 DEF SendCall, Live
    <3> QED
      BY <1>2, <3>1 DEF SendCall, AliveInv
  <2> QED
    BY <2>1, <2>2, <2>3, <2>4, <2>5, <2>6, <2>7
<1>3. ASSUME NEW p \in Producers, ApplyLock(p) PROVE IndInv'
  <2>1. TypeOK'
    BY <1>3 DEF ApplyLock, PCs, CCs
  <2>2. LockInv'
    BY <1>3 DEF ApplyLock, LockInv, HoldsTail, HoldsFilled
  <2>3. PlaceInv'
    BY <1>3 DEF ApplyLock, PlaceInv, Place, NoSlice
  <2>4. CountInv'
    <3>1. UNCHANGED <<SizeAt("take"), SizeAt("count"), SizeAt("uncount")>>
      BY <1>3, SizeSame DEF ApplyLock
    <3> QED
      BY <1>3, <3>1 DEF ApplyLock, CountInv
  <2>5. TileInv'
    <3>1. \A r \in Producers : (Out(r)' <=> Out(r)) /\ (Out(r) => slice'[r] = slice[r])
      BY <1>3 DEF ApplyLock, PlaceInv, Place, Out
    <3>2. UNCHANGED <<readable_till, tail, filled_slices>>
      BY <1>3 DEF ApplyLock
    <3> QED
      BY <3>1, <3>2, SameTiles
  <2>6. MergeInv'
    BY <1>3 DEF ApplyLock, MergeInv, Merging
  <2>7. AliveInv'
    <3>1. {r \in Producers : Live(r)}' = {r \in Producers : Live(r)} /\ Live(p)
      BY <1>3 DEF ApplyLock, Live
    <3> QED
      BY <1>3, <3>1 DEF ApplyLock, AliveInv
  <2> QED
    BY <2>1, <2>2, <2>3, <2>4, <2>5, <2>6, <2>7
<1>4. ASSUME NEW p \in Producers, ApplyFree(p) PROVE IndInv'
  <2>1. TypeOK'
    <3>1. slice' \in [Producers -> Nat \X (0 .. Cap)]
      <4>1. CASE free > 0
        <5>1. (IF free >= ApplySize THEN ApplySize ELSE free) \in 0 .. Cap
          <6>1. free \in 0 .. Cap
            OBVIOUS
          <6> HIDE DEF TypeOK
          <6> QED
            BY <6>1
        <5>2. <<tail, IF free >= ApplySize THEN ApplySize ELSE free>> \in Nat \X (0 .. Cap)
          <6> HIDE DEF TypeOK
          <6> QED
            BY <1>ints, <5>1
        <5>3. slice' = [slice EXCEPT ![p] = <<tail, IF free >= ApplySize THEN ApplySize ELSE free>>]
          <6>1. ~(free = 0)
            BY <1>ints, <4>1
          <6> HIDE DEF TypeOK
          <6> QED
            BY <1>4, <6>1 DEF ApplyFree
        <5>4. slice \in [Producers -> Nat \X (0 .. Cap)]
          OBVIOUS
        <5> DEFINE s == <<tail, IF free >= ApplySize THEN ApplySize ELSE free>>
        <5> HIDE DEF TypeOK, s
        <5> QED
          BY <5>2, <5>3, <5>4 DEF s
      <4>2. CASE free = 0
        BY <1>4, <4>2 DEF ApplyFree
      <4> QED
        BY <4>1, <4>2
    <3>2. ppc' \in [Producers -> PCs] /\ tailLock' \in Producers \cup {Nobody}
      BY <1>4 DEF ApplyFree, PCs
    <3> QED
      BY <1>4, <3>1, <3>2 DEF ApplyFree
  <2>2. LockInv'
    <3>1. \A r \in Producers : HoldsFilled(r)' <=> HoldsFilled(r)
      BY <1>4 DEF ApplyFree, HoldsFilled
    <3>2. \A r \in Producers : HoldsTail(r)' <=> tailLock' = r
      <4>1. /\ ppc[p] = "free" /\ ppc \in [Producers -> PCs] /\ LockInv
            /\ \/ tailLock' = tailLock /\ ppc' = [ppc EXCEPT ![p] = "reserve"]
               \/ tailLock' = Nobody /\ ppc' = [ppc EXCEPT ![p] = "alive"]
        BY <1>4 DEF ApplyFree
      <4> HIDE DEF IndInv, TypeOK
      <4>2. HoldsTail(p) /\ \A r \in Producers : r # p => ~HoldsTail(r) /\ tailLock # r
        BY <4>1 DEF LockInv, HoldsTail
      <4>3. \A r \in Producers : r # p => (HoldsTail(r)' <=> HoldsTail(r))
        BY <4>1 DEF HoldsTail
      <4>4. CASE tailLock' = tailLock /\ ppc' = [ppc EXCEPT ![p] = "reserve"]
        BY <4>1, <4>2, <4>3, <4>4 DEF LockInv, HoldsTail
      <4>5. CASE tailLock' = Nobody /\ ppc' = [ppc EXCEPT ![p] = "alive"]
        BY <4>1, <4>2, <4>3, <4>5 DEF HoldsTail
      <4> QED
        BY <4>1, <4>4, <4>5
    <3>3. filledLock' = filledLock
      BY <1>4 DEF ApplyFree
    <3> QED
      BY <3>1, <3>2, <3>3 DEF LockInv
  <2>3. PlaceInv'
    <3> SUFFICES ASSUME NEW r \in Producers PROVE Place(r)'
      BY DEF PlaceInv
    <3>1. Place(r)
      BY DEF PlaceInv
    <3>2. CASE r = p
      <4> DEFINE n == IF free >= ApplySize THEN ApplySize ELSE free
      <4>1. CASE free > 0
        <5>1. slice'[p] = <<tail, n>> /\ ppc'[p] = "reserve"
          <6>1. ~(free = 0)
            BY <1>ints, <4>1
          <6>2. /\ slice' = [slice EXCEPT ![p] = <<tail, n>>]
                /\ ppc' = [ppc EXCEPT ![p] = "reserve"]
            <7> HIDE DEF TypeOK
            <7> QED
              BY <1>4, <6>1 DEF ApplyFree
          <6>3. p \in DOMAIN slice /\ p \in DOMAIN ppc
            OBVIOUS
          <6> HIDE DEF n, TypeOK
          <6> QED
            BY <6>2, <6>3
        <5>2. n \in Nat /\ 0 < n /\ n <= free /\ made[p] > 0 /\ UNCHANGED <<made, free, tail>>
          <6>1. made[p] > 0 /\ UNCHANGED <<made, free, tail>>
            BY <1>4, <3>1, <3>2 DEF ApplyFree, Place
          <6> HIDE DEF TypeOK
          <6> QED
            BY <1>ints, <4>1, <6>1
        <5> HIDE DEF TypeOK, n
        <5> QED
          BY <3>2, <5>1, <5>2 DEF Place
      <4>2. CASE free = 0
        BY <1>4, <4>2, <3>1, <3>2 DEF ApplyFree, Place
      <4> QED
        <5>1. free > 0 \/ free = 0
          BY <1>ints
        <5> QED
          BY <4>1, <4>2, <5>1
    <3>3. CASE r # p
      BY <1>4, <3>1, <3>3 DEF ApplyFree, Place, HoldsTail
    <3> QED
      BY <3>2, <3>3
  <2>4. CountInv'
    <3>1. UNCHANGED <<SizeAt("take"), SizeAt("count"), SizeAt("uncount")>>
      BY <1>4, SizeSame DEF ApplyFree
    <3> QED
      BY <1>4, <3>1 DEF ApplyFree, CountInv
  <2>5. TileInv'
    <3>1. \A r \in Producers : (Out(r)' <=> Out(r)) /\ (Out(r) => slice'[r] = slice[r])
      BY <1>4 DEF ApplyFree, PlaceInv, Place, Out
    <3>2. UNCHANGED <<readable_till, tail, filled_slices>>
      BY <1>4 DEF ApplyFree
    <3> QED
      BY <3>1, <3>2, SameTiles
  <2>6. MergeInv'
    BY <1>4 DEF ApplyFree, MergeInv, Merging
  <2>7. AliveInv'
    <3>1. {r \in Producers : Live(r)}' = {r \in Producers : Live(r)} /\ Live(p)
      BY <1>4 DEF ApplyFree, Live
    <3> QED
      BY <1>4, <3>1 DEF ApplyFree, AliveInv
  <2> QED
    BY <2>1, <2>2, <2>3, <2>4, <2>5, <2>6, <2>7
<1>5. ASSUME NEW p \in Producers, SendAlive(p) PROVE IndInv'
  <2>1. TypeOK'
    <3>1. <<p, made[p]>> \in Elements
      <4>1. made[p] \in 0 .. MaxSend /\ made[p] > 0
        BY <1>5 DEF SendAlive, PlaceInv, Place
      <4>2. made[p] \in 1 .. MaxSend
        BY <4>1
      <4> QED
        BY <4>2 DEF Elements
    <3>2. ppc' \in [Producers -> PCs] /\ rejected' \in SUBSET Elements
      BY <1>5, <3>1 DEF SendAlive, PCs
    <3> QED
      BY <1>5, <3>2 DEF SendAlive
  <2>2. LockInv'
    BY <1>5 DEF SendAlive, LockInv, HoldsTail, HoldsFilled
  <2>3. PlaceInv'
    BY <1>5 DEF SendAlive, PlaceInv, Place, NoSlice
  <2>4. CountInv'
    <3>1. UNCHANGED <<SizeAt("take"), SizeAt("count"), SizeAt("uncount")>>
      BY <1>5, SizeSame DEF SendAlive
    <3> QED
      BY <1>5, <3>1 DEF SendAlive, CountInv
  <2>5. TileInv'
    <3>1. \A r \in Producers : (Out(r)' <=> Out(r)) /\ (Out(r) => slice'[r] = slice[r])
      BY <1>5 DEF SendAlive, PlaceInv, Place, Out
    <3>2. UNCHANGED <<readable_till, tail, filled_slices>>
      BY <1>5 DEF SendAlive
    <3> QED
      BY <3>1, <3>2, SameTiles
  <2>6. MergeInv'
    BY <1>5 DEF SendAlive, MergeInv, Merging
  <2>7. AliveInv'
    <3>1. {r \in Producers : Live(r)}' = {r \in Producers : Live(r)} /\ Live(p)
      BY <1>5 DEF SendAlive, Live
    <3> QED
      BY <1>5, <3>1 DEF SendAlive, AliveInv
  <2> QED
    BY <2>1, <2>2, <2>3, <2>4, <2>5, <2>6, <2>7
<1>6. ASSUME NEW p \in Producers, ApplyReserve(p) PROVE IndInv'
  <2>1. TypeOK'
    <3>1. slice[p][2] \in Nat
      OBVIOUS
    <3>2. tail' \in Nat /\ reserved' \in Nat
      <4> HIDE DEF TypeOK
      <4> QED
        BY <1>6, <1>ints, <3>1 DEF ApplyReserve
    <3>3. ppc' \in [Producers -> PCs]
      BY <1>6 DEF ApplyReserve, PCs
    <3> QED
      BY <1>6, <3>2, <3>3 DEF ApplyReserve
  <2>2. LockInv'
    BY <1>6 DEF ApplyReserve, LockInv, HoldsTail, HoldsFilled
  <2>3. PlaceInv'
    <3> SUFFICES ASSUME NEW r \in Producers PROVE Place(r)'
      BY DEF PlaceInv
    <3>1. Place(r)
      BY DEF PlaceInv
    <3>2. CASE r = p
      <4>1. /\ ppc[p] = "reserve" /\ ppc'[p] = "take" /\ tail' = tail + slice[p][2]
            /\ slice' = slice /\ free' = free /\ made' = made
        BY <1>6 DEF ApplyReserve
      <4>2. slice[p] \in Nat \X (0 .. Cap) /\ Cap \in Nat
        OBVIOUS
      <4>3. slice[p][1] \in Nat /\ slice[p][2] \in Nat
        <5> HIDE DEF TypeOK
        <5> QED
          BY <4>2
      <4> HIDE DEF TypeOK
      <4> QED
        BY <1>ints, <3>1, <3>2, <4>1, <4>3 DEF Place, NoSlice
    <3>3. CASE r # p
      BY <1>6, <3>1, <3>3, HolderAlone DEF ApplyReserve, Place, HoldsTail
    <3> QED
      BY <3>2, <3>3
  <2>4. CountInv'
    <3>1. HoldsTail(p) /\ ~HoldsFilled(p) /\ slice[p][2] \in Nat
      BY <1>6 DEF ApplyReserve, HoldsTail, HoldsFilled
    <3>2. SizeAt("take") = 0
      BY <1>6, <3>1, HolderAlone, SizeNone DEF ApplyReserve, HoldsTail
    <3>3. SizeAt("take")' = slice[p][2]
      <4>1. ppc'[p] = "take" /\ slice'[p] = slice[p]
        BY <1>6 DEF ApplyReserve
      <4>2. \A q \in Producers : q # p => ppc'[q] # "take"
        BY <1>6, <3>1, HolderAlone DEF ApplyReserve, HoldsTail
      <4> HIDE DEF IndInv, TypeOK
      <4> QED
        BY <4>1, <4>2, SizeOneNext
    <3>4. UNCHANGED <<SizeAt("count"), SizeAt("uncount")>>
      BY <1>6, SizeSame DEF ApplyReserve
    <3>5. SizeAt("count") \in Nat /\ SizeAt("uncount") \in Nat
      BY <1>sizes
    <3>7. UNCHANGED <<head, readable_till, len, free, cpc>>
      BY <1>6 DEF ApplyReserve
    <3> HIDE DEF TypeOK
    <3> QED
      BY <1>6, <1>ints, <1>sizes, <3>1, <3>2, <3>3, <3>4, <3>5, <3>7 DEF ApplyReserve, CountInv
  <2>5. TileInv'
    <3>1. /\ slice[p][1] = tail /\ 0 < slice[p][2] /\ slice[p] # NoSlice
          /\ slice[p] \in Nat \X (0 .. Cap)
      BY <1>6 DEF ApplyReserve, PlaceInv, Place, NoSlice
    <3>2. UNCHANGED <<slice, filled_slices, readable_till>> /\ tail' = tail + slice[p][2]
      BY <1>6 DEF ApplyReserve
    <3>3. \A r \in Producers : Out(r)' <=> Out(r) \/ r = p
      BY <1>6, <3>1 DEF ApplyReserve, Out
    <3>4. ~Out(p)
      BY <1>6 DEF ApplyReserve, Out
    <3>5. readable_till <= tail'
      BY <3>1, <3>2 DEF TileInv
    <3>6. \A s \in filled_slices : Inside(s)' /\ Apart(slice[p], s) /\ Apart(s, slice[p])
      BY <3>1, <3>2 DEF TileInv, Inside, Apart
    <3>7. \A r \in Producers : Out(r) => Inside(slice[r])' /\ Apart(slice[p], slice[r])
                                         /\ Apart(slice[r], slice[p])
      <4> SUFFICES ASSUME NEW r \in Producers, Out(r)
                   PROVE  Inside(slice[r])' /\ Apart(slice[p], slice[r])
                          /\ Apart(slice[r], slice[p])
        OBVIOUS
      <4>1. Inside(slice[r]) /\ slice[r] \in Nat \X (0 .. Cap)
        BY DEF TileInv
      <4>2. slice[r][1] \in Nat /\ slice[r][2] \in Nat
        BY <4>1
      <4>3. tail \in Nat /\ readable_till' = readable_till
        BY <3>2
      <4> HIDE DEF IndInv, TypeOK
      <4> QED
        BY <3>1, <3>2, <4>1, <4>2, <4>3 DEF Inside, Apart
    <3>8. Inside(slice[p])'
      <4>1. readable_till <= tail
        BY DEF TileInv
      <4> HIDE DEF TypeOK
      <4> QED
        BY <1>ints, <3>1, <3>2, <4>1 DEF Inside
    <3>9. \A i \in tail .. tail' - 1 : i \in Positions(slice[p])
      BY <3>1, <3>2 DEF Positions
    <3>10. \A i \in readable_till .. tail' - 1 :
             \/ \E s \in filled_slices : i \in Positions(s)
             \/ \E r \in Producers : (Out(r) \/ r = p) /\ i \in Positions(slice[r])
      <4> SUFFICES ASSUME NEW i \in readable_till .. tail' - 1
                   PROVE  \/ \E s \in filled_slices : i \in Positions(s)
                          \/ \E r \in Producers : (Out(r) \/ r = p) /\ i \in Positions(slice[r])
        OBVIOUS
      <4>1. CASE i < tail
        <5>1. i \in readable_till .. tail - 1
          BY <4>1, <3>2
        <5> QED
          BY <5>1 DEF TileInv
      <4>2. CASE i >= tail
        <5>1. i \in tail .. tail' - 1
          BY <4>2, <3>1, <3>2
        <5> QED
          BY <5>1, <3>9
      <4> QED
        BY <4>1, <4>2
    <3>11. \A r, q \in Producers : r # q /\ (Out(r) \/ r = p) /\ (Out(q) \/ q = p)
             => Apart(slice[r], slice[q])
      BY <3>7 DEF TileInv
    <3>12. \A r \in Producers, s \in filled_slices : Out(r) \/ r = p => Apart(slice[r], s)
      BY <3>6 DEF TileInv
    <3>13. \A s, t : Apart(s, t)' <=> Apart(s, t)
      BY DEF Apart
    <3>14. \A s : Positions(s)' = Positions(s)
      BY DEF Positions
    <3> QED
      BY <3>2, <3>3, <3>5, <3>6, <3>7, <3>8, <3>10, <3>11, <3>12 DEF TileInv, Apart, Positions
  <2>6. MergeInv'
    BY <1>6 DEF ApplyReserve, MergeInv, Merging
  <2>7. AliveInv'
    <3>1. {r \in Producers : Live(r)}' = {r \in Producers : Live(r)} /\ Live(p)
      BY <1>6 DEF ApplyReserve, Live
    <3> QED
      BY <1>6, <3>1 DEF ApplyReserve, AliveInv
  <2> QED
    BY <2>1, <2>2, <2>3, <2>4, <2>5, <2>6, <2>7
<1>7. ASSUME NEW p \in Producers, ApplyTake(p) PROVE IndInv'
  <2>1. TypeOK'
    <3>1. <<p, made[p]>> \in Elements
      <4>1. made[p] \in 0 .. MaxSend /\ made[p] > 0
        BY <1>7 DEF ApplyTake, PlaceInv, Place
      <4>2. made[p] \in 1 .. MaxSend
        BY <4>1
      <4> QED
        BY <4>2 DEF Elements
    <3>2. buf_local' \in [Producers -> Seq(Elements)]
      BY <1>7, <3>1 DEF ApplyTake, Push
    <3>3. ppc' \in [Producers -> PCs]
      BY <1>7 DEF ApplyTake, Push, PCs
    <3>4. free' \in 0 .. Cap
      <4>1. slice[p][2] \in Nat /\ slice[p][2] <= free /\ free \in 0 .. Cap
        BY <1>7 DEF ApplyTake, PlaceInv, Place
      <4> HIDE DEF TypeOK
      <4> QED
        BY <1>7, <4>1 DEF ApplyTake
    <3> QED
      BY <1>7, <3>2, <3>3, <3>4 DEF ApplyTake
  <2>2. LockInv'
    BY <1>7 DEF ApplyTake, Push, LockInv, HoldsTail, HoldsFilled
  <2>3. PlaceInv'
    <3> SUFFICES ASSUME NEW r \in Producers PROVE Place(r)'
      BY DEF PlaceInv
    <3>1. Place(r)
      BY DEF PlaceInv
    <3>2. CASE r = p
      BY <1>7, <3>1, <3>2 DEF ApplyTake, Push, Place, NoSlice
    <3>3. CASE r # p
      BY <1>7, <3>1, <3>3, HolderAlone DEF ApplyTake, Push, Place, HoldsTail
    <3> QED
      BY <3>2, <3>3
  <2>4. CountInv'
    <3>1. HoldsTail(p) /\ ppc[p] = "take" /\ slice[p][2] \in Nat /\ ppc'[p] \in {"store", "idle"}
      BY <1>7 DEF ApplyTake, Push, HoldsTail
    <3>2. SizeAt("take") = slice[p][2]
      BY <3>1, HolderAlone, SizeOne DEF HoldsTail
    <3>3. SizeAt("take")' = 0
      <4>1. \A q \in Producers : ppc'[q] # "take"
        BY <1>7, <3>1, HolderAlone DEF ApplyTake, Push, HoldsTail
      <4> QED
        BY <4>1, SizeNoneNext
    <3>4. UNCHANGED <<SizeAt("count"), SizeAt("uncount")>>
      BY <1>7, SizeSame DEF ApplyTake, Push
    <3>7. UNCHANGED <<head, tail, readable_till, len, reserved, cpc>>
      BY <1>7 DEF ApplyTake
    <3> HIDE DEF TypeOK
    <3> QED
      BY <1>7, <1>ints, <1>sizes, <3>1, <3>2, <3>3, <3>4, <3>7 DEF ApplyTake, CountInv
  <2>5. TileInv'
    <3>1. \A r \in Producers : (Out(r)' <=> Out(r)) /\ (Out(r) => slice'[r] = slice[r])
      BY <1>7 DEF ApplyTake, Push, PlaceInv, Place, Out
    <3>2. UNCHANGED <<readable_till, tail, filled_slices>>
      BY <1>7 DEF ApplyTake, Push
    <3> QED
      BY <3>1, <3>2, SameTiles
  <2>6. MergeInv'
    BY <1>7 DEF ApplyTake, Push, MergeInv, Merging
  <2>7. AliveInv'
    <3>1. {r \in Producers : Live(r)}' = {r \in Producers : Live(r)} /\ Live(p)
      BY <1>7 DEF ApplyTake, Push, Live
    <3> QED
      BY <1>7, <3>1 DEF ApplyTake, Push, AliveInv
  <2> QED
    BY <2>1, <2>2, <2>3, <2>4, <2>5, <2>6, <2>7
<1>8. ASSUME NEW p \in Producers, FlushCall(p) PROVE IndInv'
  <2>1. TypeOK'
    BY <1>8 DEF FlushCall, PCs, CCs
  <2>2. LockInv'
    BY <1>8 DEF FlushCall, LockInv, HoldsTail, HoldsFilled
  <2>3. PlaceInv'
    BY <1>8 DEF FlushCall, PlaceInv, Place, NoSlice
  <2>4. CountInv'
    <3>1. UNCHANGED <<SizeAt("take"), SizeAt("count"), SizeAt("uncount")>>
      BY <1>8, SizeSame DEF FlushCall
    <3> QED
      BY <1>8, <3>1 DEF FlushCall, CountInv
  <2>5. TileInv'
    <3>1. \A r \in Producers : (Out(r)' <=> Out(r)) /\ (Out(r) => slice'[r] = slice[r])
      BY <1>8 DEF FlushCall, PlaceInv, Place, Out
    <3>2. UNCHANGED <<readable_till, tail, filled_slices>>
      BY <1>8 DEF FlushCall
    <3> QED
      BY <3>1, <3>2, SameTiles
  <2>6. MergeInv'
    BY <1>8 DEF FlushCall, MergeInv, Merging
  <2>7. AliveInv'
    <3>1. {r \in Producers : Live(r)}' = {r \in Producers : Live(r)} /\ Live(p)
      BY <1>8 DEF FlushCall, Live
    <3> QED
      BY <1>8, <3>1 DEF FlushCall, AliveInv
  <2> QED
    BY <2>1, <2>2, <2>3, <2>4, <2>5, <2>6, <2>7
<1>9. ASSUME NEW p \in Producers, FlushStore(p) PROVE IndInv'
  <2>1. TypeOK'
    <3>1. slot' \in [0 .. Cap - 1 -> Elements \cup {None}]
      <4> DEFINE at(i) == CHOOSE j \in Positions(slice[p]) : Index(j) = i
                 k(i) == at(i) - slice[p][1] + 1
      <4>1. \A j \in Positions(slice[p]) : j - slice[p][1] + 1 \in 1 .. slice[p][2]
        <5>1. slice[p] \in Nat \X (0 .. Cap)
          OBVIOUS
        <5> HIDE DEF TypeOK, IndInv
        <5>2. slice[p][1] \in Nat /\ slice[p][2] \in Nat
          BY <5>1
        <5> QED
          BY <5>2 DEF Positions
      <4>2. \A n \in 1 .. slice[p][2] : Padded(p)[n] \in Elements \cup {None}
        <5> SUFFICES ASSUME NEW n \in 1 .. slice[p][2] PROVE Padded(p)[n] \in Elements \cup {None}
          OBVIOUS
        <5>1. Padded(p)[n] = IF n <= Len(buf_local[p]) THEN buf_local[p][n] ELSE None
          BY DEF Padded
        <5>2. buf_local[p] \in Seq(Elements)
          OBVIOUS
        <5>3. n <= Len(buf_local[p]) => buf_local[p][n] \in Elements
          BY <5>2
        <5> QED
          BY <5>1, <5>3
      <4>3. \A i \in 0 .. Cap - 1 : (\E j \in Positions(slice[p]) : Index(j) = i)
                                      => Padded(p)[k(i)] \in Elements \cup {None}
        <5> SUFFICES ASSUME NEW i, \E j \in Positions(slice[p]) : Index(j) = i
                     PROVE  Padded(p)[k(i)] \in Elements \cup {None}
          OBVIOUS
        <5>1. at(i) \in Positions(slice[p])
          OBVIOUS
        <5> HIDE DEF at
        <5> QED
          BY <4>1, <4>2, <5>1
      <4>4. slot' = [i \in 0 .. Cap - 1 |->
                       IF \E j \in Positions(slice[p]) : Index(j) = i
                       THEN Padded(p)[k(i)] ELSE slot[i]]
        BY <1>9 DEF FlushStore, StoreVals
      <4> HIDE DEF k
      <4> QED
        BY <4>3, <4>4
    <3>2. buf_local' \in [Producers -> Seq(Elements)]
      BY <1>9 DEF FlushStore
    <3>3. ppc' \in [Producers -> PCs]
      BY <1>9 DEF FlushStore, PCs
    <3> QED
      BY <1>9, <3>1, <3>2, <3>3 DEF FlushStore
  <2>2. LockInv'
    BY <1>9 DEF FlushStore, LockInv, HoldsTail, HoldsFilled
  <2>3. PlaceInv'
    BY <1>9 DEF FlushStore, PlaceInv, Place, NoSlice
  <2>4. CountInv'
    <3>1. UNCHANGED <<SizeAt("take"), SizeAt("count"), SizeAt("uncount")>>
      BY <1>9, SizeSame DEF FlushStore
    <3> QED
      BY <1>9, <3>1 DEF FlushStore, CountInv
  <2>5. TileInv'
    <3>1. \A r \in Producers : (Out(r)' <=> Out(r)) /\ (Out(r) => slice'[r] = slice[r])
      BY <1>9 DEF FlushStore, PlaceInv, Place, Out
    <3>2. UNCHANGED <<readable_till, tail, filled_slices>>
      BY <1>9 DEF FlushStore
    <3> QED
      BY <3>1, <3>2, SameTiles
  <2>6. MergeInv'
    BY <1>9 DEF FlushStore, MergeInv, Merging
  <2>7. AliveInv'
    <3>1. {r \in Producers : Live(r)}' = {r \in Producers : Live(r)} /\ Live(p)
      BY <1>9 DEF FlushStore, Live
    <3> QED
      BY <1>9, <3>1 DEF FlushStore, AliveInv
  <2> QED
    BY <2>1, <2>2, <2>3, <2>4, <2>5, <2>6, <2>7
<1>10. ASSUME NEW p \in Producers, Merge(p) PROVE IndInv'
  <2>1. ppc[p] = "merge" /\ filledLock = Nobody /\ Live(p)
    BY <1>10 DEF Merge, Live
  <2>2. /\ Handed(p) \in SUBSET (Nat \X (1 .. Cap))
        /\ \A s \in Handed(p) : Inside(s)
        /\ \A s, t \in Handed(p) : s # t => Apart(s, t)
        /\ \A q \in Producers, s \in Handed(p) : q # p /\ Out(q) => Apart(slice[q], s)
        /\ \A i \in readable_till .. tail - 1 :
             \/ \E s \in Handed(p) : i \in Positions(s)
             \/ \E q \in Producers : q # p /\ Out(q) /\ i \in Positions(slice[q])
    BY <2>1, HandedTile
  <2>3. \A q \in Producers : ppc[q] \notin {"count", "uncount"}
    BY <2>1 DEF LockInv, HoldsFilled
  <2>4. UNCHANGED <<slot, tail, tailLock, len, reserved, free, cx_count, buf_local, made, closing,
                    rejected, consumerVars, dropVars>>
    BY <1>10 DEF Merge
  <2>5. CASE \E s \in Handed(p) : s[1] = readable_till
    <3>1. PICK s \in Handed(p) :
            /\ s[1] = readable_till
            /\ slice' = [slice EXCEPT ![p] = s]
            /\ readable_till' = readable_till + s[2]
            /\ filled_slices' = Handed(p) \ {s}
            /\ filledLock' = p
            /\ ppc' = [ppc EXCEPT ![p] = "count"]
            /\ px_count' = px_count
      BY <1>10, <2>5 DEF Merge, Handed
    <3>2. s[1] \in Nat /\ s[2] \in 1 .. Cap /\ s \in Nat \X (1 .. Cap)
      BY <2>2
    <3>3. TypeOK'
      <4>1. slice' \in [Producers -> Nat \X (0 .. Cap)]
        BY <3>1, <3>2
      <4>2. readable_till' \in Nat /\ filled_slices' \in SUBSET (Nat \X (1 .. Cap))
        BY <2>2, <3>1, <3>2
      <4>3. ppc' \in [Producers -> PCs] /\ filledLock' \in Producers \cup {Nobody}
        BY <3>1 DEF PCs
      <4> QED
        BY <2>4, <3>1, <4>1, <4>2, <4>3
    <3>4. LockInv'
      BY <2>1, <2>3, <2>4, <3>1 DEF LockInv, HoldsTail, HoldsFilled
    <3>5. PlaceInv'
      BY <2>4, <3>1 DEF PlaceInv, Place
    <3>6. CountInv'
      <4>1. SizeAt("count") = 0 /\ SizeAt("uncount") = 0 /\ SizeAt("uncount")' = 0
        BY <2>3, <3>1, SizeNone, SizeNoneNext
      <4>2. SizeAt("count")' = s[2]
        <5>1. ppc'[p] = "count" /\ slice'[p] = s /\ \A q \in Producers : q # p => ppc'[q] # "count"
          BY <2>3, <3>1
        <5> QED
          BY <5>1, SizeOneNext
      <4>3. SizeAt("take")' = SizeAt("take")
        BY <2>1, <3>1, SizeSame
      <4> HIDE DEF TypeOK
      <4> QED
        BY <1>ints, <2>4, <3>1, <3>2, <4>1, <4>2, <4>3 DEF CountInv
    <3>7. TileInv'
      <4>1. readable_till' <= tail
        BY <2>2, <3>1, <3>2 DEF Inside
      <4>2. \A t : t \in Nat \X (0 .. Cap) /\ Inside(t) /\ (Apart(s, t) \/ Apart(t, s))
                    => Inside(t)'
        <5> SUFFICES ASSUME NEW t \in Nat \X (0 .. Cap), Inside(t), Apart(s, t) \/ Apart(t, s)
                     PROVE  Inside(t)'
          OBVIOUS
        <5>1. t[1] \in Nat /\ t[2] \in Nat
          OBVIOUS
        <5> QED
          BY <5>1, <3>1, <3>2, <2>4 DEF Inside, Apart
      <4>3. \A r \in Producers : /\ Out(r)' <=> Out(r) /\ r # p
                                 /\ r # p => slice'[r] = slice[r]
        BY <3>1 DEF Out
      <4>4. \A r \in Producers : Out(r)' => Inside(slice[r])'
        <5> SUFFICES ASSUME NEW r \in Producers, Out(r), r # p PROVE Inside(slice[r])'
          BY <4>3
        <5>1. /\ slice[r] \in Nat \X (0 .. Cap) /\ Inside(slice[r])
              /\ Apart(slice[r], s) /\ slice'[r] = slice[r]
          BY <2>2, <4>3 DEF TileInv
        <5>2. slice[r][1] \in Nat /\ slice[r][2] \in Nat
          BY <5>1
        <5> HIDE DEF TypeOK
        <5> QED
          BY <1>ints, <2>4, <3>1, <3>2, <5>1, <5>2 DEF Inside, Apart
      <4>5. \A t \in filled_slices' : Inside(t)'
        BY <2>2, <3>1, <4>2
      <4>6. \A r, q \in Producers : r # q /\ Out(r)' /\ Out(q)' => Apart(slice'[r], slice'[q])
        BY <4>3 DEF TileInv
      <4>7. \A r \in Producers, t \in filled_slices' : Out(r)' => Apart(slice'[r], t)
        BY <2>2, <3>1, <4>3
      <4>8. \A t, u \in filled_slices' : t # u => Apart(t, u)
        BY <2>2, <3>1
      <4>9. \A i \in readable_till' .. tail - 1 :
              \/ \E t \in filled_slices' : i \in Positions(t)
              \/ \E r \in Producers : Out(r)' /\ i \in Positions(slice'[r])
        <5> SUFFICES ASSUME NEW i \in readable_till' .. tail - 1
                     PROVE  \/ \E t \in filled_slices' : i \in Positions(t)
                            \/ \E r \in Producers : Out(r)' /\ i \in Positions(slice'[r])
          OBVIOUS
        <5>1. i \in readable_till .. tail - 1 /\ i \notin Positions(s)
          <6> HIDE DEF TypeOK
          <6> QED
            BY <1>ints, <3>1, <3>2 DEF Positions
        <5>2. CASE \E t \in Handed(p) : i \in Positions(t)
          BY <5>1, <5>2, <3>1
        <5>3. CASE \E q \in Producers : q # p /\ Out(q) /\ i \in Positions(slice[q])
          BY <5>3, <4>3
        <5> QED
          BY <2>2, <5>1, <5>2, <5>3
      <4> QED
        BY <2>4, <4>1, <4>4, <4>5, <4>6, <4>7, <4>8, <4>9, <4>3 DEF TileInv, Apart, Positions
    <3>8. MergeInv'
      BY <3>1 DEF MergeInv, Merging
    <3>9. AliveInv'
      <4>1. {r \in Producers : Live(r)}' = {r \in Producers : Live(r)}
        BY <2>1, <3>1 DEF Live
      <4> QED
        BY <2>1, <2>4, <3>1, <4>1 DEF AliveInv
    <3> QED
      BY <3>3, <3>4, <3>5, <3>6, <3>7, <3>8, <3>9
  <2>6. CASE ~\E s \in Handed(p) : s[1] = readable_till
    <3>1. /\ slice' = [slice EXCEPT ![p] = NoSlice]
          /\ filled_slices' = Handed(p)
          /\ UNCHANGED <<readable_till, filledLock>>
          /\ Leave(p)
      BY <1>10, <2>6 DEF Merge, Handed
    <3>2. ppc' = [ppc EXCEPT ![p] = IF closing[p] THEN "dropped" ELSE "idle"]
      BY <3>1 DEF Leave
    <3>3. AliveInv'
      <4> DEFINE live == {r \in Producers : Live(r)}
      <4>1. p \in live /\ IsFiniteSet(live)
        BY <2>1, HandlesCounted
      <4>2. live' = IF closing[p] THEN live \ {p} ELSE live
        BY <2>1, <3>2 DEF Live
      <4>3. Cardinality(live') = IF closing[p] THEN Cardinality(live) - 1 ELSE Cardinality(live)
        <5> HIDE DEF live
        <5> QED
          BY <4>1, <4>2, FS_RemoveElement
      <4>4. px_count' = Cardinality(live')
        BY <3>1, <4>3 DEF Leave, AliveInv
      <4> QED
        BY <2>1, <2>4, <4>4 DEF AliveInv
    <3>4. TypeOK'
      <4>1. slice' \in [Producers -> Nat \X (0 .. Cap)]
        <5>1. slice \in [Producers -> Nat \X (0 .. Cap)]
          OBVIOUS
        <5> HIDE DEF IndInv, TypeOK
        <5>2. NoSlice \in Nat \X (0 .. Cap)
          BY CapAssumption DEF NoSlice
        <5> QED
          BY <3>1, <5>1, <5>2
      <4>2. px_count' \in 0 .. Cardinality(Producers)
        BY <3>3, HandlesCounted DEF AliveInv
      <4>3. ppc' \in [Producers -> PCs]
        BY <3>2 DEF PCs
      <4> QED
        BY <2>2, <2>4, <3>1, <4>1, <4>2, <4>3
    <3>5. LockInv'
      BY <2>1, <2>4, <3>1, <3>2 DEF LockInv, HoldsTail, HoldsFilled
    <3>6. PlaceInv'
      BY <2>4, <3>1, <3>2 DEF PlaceInv, Place
    <3>7. CountInv'
      <4>1. UNCHANGED <<SizeAt("take"), SizeAt("count"), SizeAt("uncount")>>
        BY <2>1, <3>1, <3>2, SizeSame
      <4> QED
        BY <2>4, <3>1, <4>1 DEF CountInv
    <3>8. TileInv'
      <4>1. \A r \in Producers : /\ Out(r)' <=> Out(r) /\ r # p
                                 /\ r # p => slice'[r] = slice[r]
        BY <3>1, <3>2 DEF Out
      <4>2. UNCHANGED <<readable_till, tail>>
        BY <2>4, <3>1
      <4>3. /\ readable_till <= tail /\ filled_slices' = Handed(p)
            /\ \A r \in Producers : Out(r) => Inside(slice[r])
            /\ \A r, q \in Producers : r # q /\ Out(r) /\ Out(q) => Apart(slice[r], slice[q])
        BY <3>1 DEF TileInv
      <4> HIDE DEF IndInv, TypeOK
      <4> QED
        BY <2>2, <4>1, <4>2, <4>3 DEF TileInv, Inside, Apart, Positions
    <3>9. MergeInv'
      BY <2>6, <3>1 DEF MergeInv
    <3> QED
      BY <3>3, <3>4, <3>5, <3>6, <3>7, <3>8, <3>9
  <2> QED
    BY <2>5, <2>6
<1>11. ASSUME NEW p \in Producers, MergeCount(p) PROVE IndInv'
  <2>1. TypeOK'
    <3>1. len' \in 0 .. Cap
      <4>1. HoldsFilled(p) /\ ppc[p] = "count" /\ slice[p][2] \in Nat
        BY <1>11 DEF MergeCount, HoldsFilled
      <4>2. SizeAt("count") = slice[p][2]
        BY <4>1, HolderAlone, SizeOne DEF HoldsFilled
      <4>3. len' = len + slice[p][2]
        BY <1>11 DEF MergeCount
      <4>4. /\ head <= readable_till /\ readable_till <= tail
            /\ tail - head + (IF cpc \in {"unlen", "unfree"} THEN 1 ELSE 0) <= Cap
        BY IndicesInOrder
      <4> HIDE DEF TypeOK
      <4> QED
        BY <1>ints, <4>1, <4>2, <4>3, <4>4 DEF CountInv
    <3>2. ppc' \in [Producers -> PCs]
      BY <1>11 DEF MergeCount, PCs
    <3> QED
      BY <1>11, <3>1, <3>2 DEF MergeCount
  <2>2. LockInv'
    BY <1>11 DEF MergeCount, LockInv, HoldsTail, HoldsFilled
  <2>3. PlaceInv'
    BY <1>11 DEF MergeCount, PlaceInv, Place, NoSlice
  <2>4. CountInv'
    <3>1. HoldsFilled(p) /\ ppc[p] = "count" /\ slice[p][2] \in Nat
      BY <1>11 DEF MergeCount, HoldsFilled
    <3>2. ppc'[p] = "uncount" /\ slice' = slice
          /\ \A q \in Producers : q # p => ppc'[q] \notin {"count", "uncount"}
      BY <1>11, <3>1, HolderAlone DEF MergeCount, HoldsFilled
    <3>3. SizeAt("count") = slice[p][2] /\ SizeAt("count")' = 0
      <4>1. SizeAt("count") = slice[p][2]
        BY <3>1, HolderAlone, SizeOne DEF HoldsFilled
      <4>2. SizeAt("count")' = 0
        BY <3>2, SizeNoneNext
      <4> QED
        BY <4>1, <4>2
    <3>4. SizeAt("uncount") = 0 /\ SizeAt("uncount")' = slice[p][2]
      <4>1. SizeAt("uncount") = 0
        BY <3>1, HolderAlone, SizeNone DEF HoldsFilled
      <4>2. SizeAt("uncount")' = slice'[p][2]
        <5> HIDE DEF TypeOK
        <5> QED
          BY <3>2, SizeOneNext
      <4> QED
        BY <4>1, <4>2, <3>2
    <3>5. SizeAt("take")' = SizeAt("take")
      BY <1>11, SizeSame DEF MergeCount
    <3>7. UNCHANGED <<head, tail, readable_till, reserved, free, cpc>>
      BY <1>11 DEF MergeCount
    <3> HIDE DEF TypeOK
    <3> QED
      BY <1>11, <1>ints, <1>sizes, <3>1, <3>2, <3>3, <3>4, <3>5, <3>7 DEF MergeCount, CountInv
  <2>5. TileInv'
    <3>1. \A r \in Producers : (Out(r)' <=> Out(r)) /\ (Out(r) => slice'[r] = slice[r])
      BY <1>11 DEF MergeCount, PlaceInv, Place, Out
    <3>2. UNCHANGED <<readable_till, tail, filled_slices>>
      BY <1>11 DEF MergeCount
    <3> QED
      BY <3>1, <3>2, SameTiles
  <2>6. MergeInv'
    BY <1>11 DEF MergeCount, MergeInv, Merging
  <2>7. AliveInv'
    <3>1. {r \in Producers : Live(r)}' = {r \in Producers : Live(r)} /\ Live(p)
      BY <1>11 DEF MergeCount, Live
    <3> QED
      BY <1>11, <3>1 DEF MergeCount, AliveInv
  <2> QED
    BY <2>1, <2>2, <2>3, <2>4, <2>5, <2>6, <2>7
<1>12. ASSUME NEW p \in Producers, MergeUncount(p) PROVE IndInv'
  <2>1. TypeOK'
    <3>1. reserved' \in Nat
      <4>1. HoldsFilled(p) /\ ppc[p] = "uncount" /\ slice[p][2] \in Nat
        BY <1>12 DEF MergeUncount, HoldsFilled
      <4>2. SizeAt("uncount") = slice[p][2] /\ SizeAt("count") = 0
        <5>1. LockInv
          OBVIOUS
        <5> HIDE DEF IndInv, TypeOK
        <5>2. \A q \in Producers : q # p => ppc[q] \notin {"count", "uncount"}
          BY <4>1, <5>1, HolderAlone DEF HoldsFilled
        <5> QED
          BY <4>1, <5>2, SizeOne, SizeNone
      <4>3. reserved' = reserved - slice[p][2] /\ readable_till <= tail
        BY <1>12, IndicesInOrder DEF MergeUncount
      <4> HIDE DEF TypeOK
      <4> QED
        BY <1>ints, <4>1, <4>2, <4>3 DEF CountInv
    <3>2. slice' \in [Producers -> Nat \X (0 .. Cap)]
      <4>1. NoSlice \in Nat \X (0 .. Cap)
        <5> HIDE DEF TypeOK
        <5> QED
          BY DEF NoSlice
      <4> QED
        BY <1>12, <4>1 DEF MergeUncount
    <3>3. ppc' \in [Producers -> PCs] /\ filledLock' \in Producers \cup {Nobody}
      BY <1>12 DEF MergeUncount, PCs
    <3> QED
      BY <1>12, <3>1, <3>2, <3>3 DEF MergeUncount
  <2>2. LockInv'
    BY <1>12 DEF MergeUncount, LockInv, HoldsTail, HoldsFilled
  <2>3. PlaceInv'
    BY <1>12 DEF MergeUncount, PlaceInv, Place, NoSlice
  <2>4. CountInv'
    <3>1. HoldsFilled(p) /\ ppc[p] = "uncount" /\ slice[p][2] \in Nat
      BY <1>12 DEF MergeUncount, HoldsFilled
    <3>2. \A q \in Producers : ppc'[q] \notin {"count", "uncount"}
      BY <1>12, <3>1, HolderAlone DEF MergeUncount, HoldsFilled
    <3>3. SizeAt("count") = 0 /\ SizeAt("count")' = 0
      BY <3>1, <3>2, HolderAlone, SizeNone, SizeNoneNext DEF HoldsFilled
    <3>4. SizeAt("uncount") = slice[p][2] /\ SizeAt("uncount")' = 0
      <4>1. SizeAt("uncount") = slice[p][2]
        BY <3>1, HolderAlone, SizeOne DEF HoldsFilled
      <4>2. SizeAt("uncount")' = 0
        BY <3>2, SizeNoneNext
      <4> QED
        BY <4>1, <4>2
    <3>5. SizeAt("take")' = SizeAt("take")
      BY <1>12, SizeSame DEF MergeUncount
    <3>7. UNCHANGED <<head, tail, readable_till, len, free, cpc>>
      BY <1>12 DEF MergeUncount
    <3> HIDE DEF TypeOK
    <3> QED
      BY <1>12, <1>ints, <1>sizes, <3>1, <3>2, <3>3, <3>4, <3>5, <3>7 DEF MergeUncount, CountInv
  <2>5. TileInv'
    <3>1. \A r \in Producers : (Out(r)' <=> Out(r)) /\ (Out(r) => slice'[r] = slice[r])
      BY <1>12 DEF MergeUncount, PlaceInv, Place, Out
    <3>2. UNCHANGED <<readable_till, tail, filled_slices>>
      BY <1>12 DEF MergeUncount
    <3> QED
      BY <3>1, <3>2, SameTiles
  <2>6. MergeInv'
    BY <1>12 DEF MergeUncount, MergeInv, Merging
  <2>7. AliveInv'
    <3>1. {r \in Producers : Live(r)}' = {r \in Producers : Live(r)} /\ Live(p)
      BY <1>12 DEF MergeUncount, Live
    <3> QED
      BY <1>12, <3>1 DEF MergeUncount, AliveInv
  <2> QED
    BY <2>1, <2>2, <2>3, <2>4, <2>5, <2>6, <2>7
<1>13. ASSUME NEW p \in Producers, DropProducer(p) PROVE IndInv'
  <2>1. AliveInv'
    <3> DEFINE live == {r \in Producers : Live(r)}
    <3>1. live' = live \ {p} /\ p \in live
      BY <1>13 DEF DropProducer, Live
    <3>2. Cardinality(live') = Cardinality(live) - 1
      <4>1. IsFiniteSet(live)
        BY HandlesCounted
      <4> HIDE DEF live
      <4> QED
        BY <3>1, <4>1, FS_RemoveElement
    <3> QED
      BY <1>13, <3>1, <3>2 DEF DropProducer, AliveInv
  <2>2. TypeOK'
    <3>1. px_count' \in 0 .. Cardinality(Producers)
      BY <2>1, HandlesCounted DEF AliveInv
    <3>2. ppc' \in [Producers -> PCs]
      BY <1>13 DEF DropProducer, PCs
    <3> QED
      BY <1>13, <3>1, <3>2 DEF DropProducer
  <2>3. LockInv'
    BY <1>13 DEF DropProducer, LockInv, HoldsTail, HoldsFilled
  <2>4. PlaceInv'
    BY <1>13 DEF DropProducer, PlaceInv, Place, NoSlice
  <2>5. CountInv'
    <3>1. UNCHANGED <<SizeAt("take"), SizeAt("count"), SizeAt("uncount")>>
      BY <1>13, SizeSame DEF DropProducer
    <3> QED
      BY <1>13, <3>1 DEF DropProducer, CountInv
  <2>6. TileInv'
    <3>1. \A r \in Producers : (Out(r)' <=> Out(r)) /\ (Out(r) => slice'[r] = slice[r])
      BY <1>13 DEF DropProducer, PlaceInv, Place, Out
    <3>2. UNCHANGED <<readable_till, tail, filled_slices>>
      BY <1>13 DEF DropProducer
    <3> QED
      BY <3>1, <3>2, SameTiles
  <2>7. MergeInv'
    BY <1>13 DEF DropProducer, MergeInv, Merging
  <2> QED
    BY <2>1, <2>2, <2>3, <2>4, <2>5, <2>6, <2>7
<1>14. ASSUME NEW p \in Producers, NEW q \in Producers, Clone(p, q) PROVE IndInv'
  <2>1. AliveInv'
    <3> DEFINE live == {r \in Producers : Live(r)}
    <3>1. live' = live \cup {q} /\ q \notin live /\ p \in live
      BY <1>14 DEF Clone, Live
    <3>2. Cardinality(live') = Cardinality(live) + 1
      <4>1. IsFiniteSet(live)
        BY HandlesCounted
      <4> HIDE DEF live
      <4> QED
        BY <3>1, <4>1, FS_AddElement
    <3> QED
      BY <1>14, <3>1, <3>2 DEF Clone, AliveInv
  <2>2. TypeOK'
    <3>1. px_count' \in 0 .. Cardinality(Producers)
      BY <2>1, HandlesCounted DEF AliveInv
    <3>2. ppc' \in [Producers -> PCs]
      BY <1>14 DEF Clone, PCs
    <3> QED
      BY <1>14, <3>1, <3>2 DEF Clone
  <2>3. LockInv'
    BY <1>14 DEF Clone, LockInv, HoldsTail, HoldsFilled
  <2>4. PlaceInv'
    BY <1>14 DEF Clone, PlaceInv, Place, NoSlice
  <2>5. CountInv'
    <3>1. UNCHANGED <<SizeAt("take"), SizeAt("count"), SizeAt("uncount")>>
      BY <1>14, SizeSame DEF Clone
    <3> QED
      BY <1>14, <3>1 DEF Clone, CountInv
  <2>6. TileInv'
    <3>1. \A r \in Producers : (Out(r)' <=> Out(r)) /\ (Out(r) => slice'[r] = slice[r])
      BY <1>14 DEF Clone, PlaceInv, Place, Out
    <3>2. UNCHANGED <<readable_till, tail, filled_slices>>
      BY <1>14 DEF Clone
    <3> QED
      BY <3>1, <3>2, SameTiles
  <2>7. MergeInv'
    BY <1>14 DEF Clone, MergeInv, Merging
  <2> QED
    BY <2>1, <2>2, <2>3, <2>4, <2>5, <2>6, <2>7
<1>15. CASE RecvCall
  <2>1. TypeOK'
    BY <1>15 DEF RecvCall, PCs, CCs
  <2>2. LockInv'
    BY <1>15 DEF RecvCall, LockInv, HoldsTail, HoldsFilled
  <2>3. PlaceInv'
    BY <1>15 DEF RecvCall, PlaceInv, Place, NoSlice
  <2>4. CountInv'
    <3>1. UNCHANGED <<SizeAt("take"), SizeAt("count"), SizeAt("uncount")>>
      BY <1>15 DEF RecvCall, SizeAt
    <3> QED
      BY <1>15, <3>1 DEF RecvCall, CountInv
  <2>5. TileInv'
    <3>1. \A r \in Producers : (Out(r)' <=> Out(r)) /\ (Out(r) => slice'[r] = slice[r])
      BY <1>15 DEF RecvCall, PlaceInv, Place, Out
    <3>2. UNCHANGED <<readable_till, tail, filled_slices>>
      BY <1>15 DEF RecvCall
    <3> QED
      BY <3>1, <3>2, SameTiles
  <2>6. MergeInv'
    BY <1>15 DEF RecvCall, MergeInv, Merging
  <2>7. AliveInv'
    <3>1. \A r \in Producers : Live(r)' <=> Live(r)
      BY <1>15 DEF RecvCall, Live
    <3>2. {r \in Producers : Live(r)}' = {r \in Producers : Live(r)}
      BY <3>1
    <3> QED
      BY <1>15, <3>1, <3>2 DEF RecvCall, AliveInv
  <2> QED
    BY <2>1, <2>2, <2>3, <2>4, <2>5, <2>6, <2>7
<1>16. CASE RecvEmpty
  <2>1. TypeOK'
    BY <1>16 DEF RecvEmpty, PCs, CCs
  <2>2. LockInv'
    BY <1>16 DEF RecvEmpty, LockInv, HoldsTail, HoldsFilled
  <2>3. PlaceInv'
    BY <1>16 DEF RecvEmpty, PlaceInv, Place, NoSlice
  <2>4. CountInv'
    <3>1. UNCHANGED <<SizeAt("take"), SizeAt("count"), SizeAt("uncount")>>
      BY <1>16 DEF RecvEmpty, SizeAt
    <3> QED
      BY <1>16, <3>1 DEF RecvEmpty, CountInv
  <2>5. TileInv'
    <3>1. \A r \in Producers : (Out(r)' <=> Out(r)) /\ (Out(r) => slice'[r] = slice[r])
      BY <1>16 DEF RecvEmpty, PlaceInv, Place, Out
    <3>2. UNCHANGED <<readable_till, tail, filled_slices>>
      BY <1>16 DEF RecvEmpty
    <3> QED
      BY <3>1, <3>2, SameTiles
  <2>6. MergeInv'
    BY <1>16 DEF RecvEmpty, MergeInv, Merging
  <2>7. AliveInv'
    <3>1. \A r \in Producers : Live(r)' <=> Live(r)
      BY <1>16 DEF RecvEmpty, Live
    <3>2. {r \in Producers : Live(r)}' = {r \in Producers : Live(r)}
      BY <3>1
    <3> QED
      BY <1>16, <3>1, <3>2 DEF RecvEmpty, AliveInv
  <2> QED
    BY <2>1, <2>2, <2>3, <2>4, <2>5, <2>6, <2>7
<1>17. CASE RecvExist
  <2>1. TypeOK'
    BY <1>17 DEF RecvExist, PCs, CCs
  <2>2. LockInv'
    BY <1>17 DEF RecvExist, LockInv, HoldsTail, HoldsFilled
  <2>3. PlaceInv'
    BY <1>17 DEF RecvExist, PlaceInv, Place, NoSlice
  <2>4. CountInv'
    <3>1. UNCHANGED <<SizeAt("take"), SizeAt("count"), SizeAt("uncount")>>
      BY <1>17 DEF RecvExist, SizeAt
    <3> QED
      BY <1>17, <3>1 DEF RecvExist, CountInv
  <2>5. TileInv'
    <3>1. \A r \in Producers : (Out(r)' <=> Out(r)) /\ (Out(r) => slice'[r] = slice[r])
      BY <1>17 DEF RecvExist, PlaceInv, Place, Out
    <3>2. UNCHANGED <<readable_till, tail, filled_slices>>
      BY <1>17 DEF RecvExist
    <3> QED
      BY <3>1, <3>2, SameTiles
  <2>6. MergeInv'
    BY <1>17 DEF RecvExist, MergeInv, Merging
  <2>7. AliveInv'
    <3> DEFINE live == {r \in Producers : Live(r)}
    <3>1. live' = live /\ \A r \in Producers : Live(r)' <=> Live(r)
      BY <1>17 DEF RecvExist, Live
    <3>2. ~seen' => live = {}
      <4> SUFFICES ASSUME ~seen' PROVE live = {}
        OBVIOUS
      <4>1. Cardinality(live) = 0 /\ IsFiniteSet(live)
        <5>1. IsFiniteSet(live) /\ Cardinality(live) \in Nat
          BY HandlesCounted, FS_CardinalityType
        <5>2. ~(Cardinality(live) > 0)
          BY <1>17 DEF RecvExist, AliveInv
        <5> HIDE DEF live, TypeOK
        <5> QED
          BY <5>1, <5>2
      <4> HIDE DEF live
      <4> QED
        BY <4>1, FS_EmptySet
    <3> QED
      BY <1>17, <3>1, <3>2 DEF RecvExist, AliveInv
  <2> QED
    BY <2>1, <2>2, <2>3, <2>4, <2>5, <2>6, <2>7
<1>18. CASE RecvRecheck
  <2>1. TypeOK'
    BY <1>18 DEF RecvRecheck, PCs, CCs
  <2>2. LockInv'
    BY <1>18 DEF RecvRecheck, LockInv, HoldsTail, HoldsFilled
  <2>3. PlaceInv'
    BY <1>18 DEF RecvRecheck, PlaceInv, Place, NoSlice
  <2>4. CountInv'
    <3>1. UNCHANGED <<SizeAt("take"), SizeAt("count"), SizeAt("uncount")>>
      BY <1>18 DEF RecvRecheck, SizeAt
    <3> QED
      BY <1>18, <3>1 DEF RecvRecheck, CountInv
  <2>5. TileInv'
    <3>1. \A r \in Producers : (Out(r)' <=> Out(r)) /\ (Out(r) => slice'[r] = slice[r])
      BY <1>18 DEF RecvRecheck, PlaceInv, Place, Out
    <3>2. UNCHANGED <<readable_till, tail, filled_slices>>
      BY <1>18 DEF RecvRecheck
    <3> QED
      BY <3>1, <3>2, SameTiles
  <2>6. MergeInv'
    BY <1>18 DEF RecvRecheck, MergeInv, Merging
  <2>7. AliveInv'
    <3>1. \A r \in Producers : Live(r)' <=> Live(r)
      BY <1>18 DEF RecvRecheck, Live
    <3>2. {r \in Producers : Live(r)}' = {r \in Producers : Live(r)}
      BY <3>1
    <3> QED
      BY <1>18, <3>1, <3>2 DEF RecvRecheck, AliveInv
  <2> QED
    BY <2>1, <2>2, <2>3, <2>4, <2>5, <2>6, <2>7
<1>19. CASE RecvReserved
  <2>1. TypeOK'
    BY <1>19 DEF RecvReserved, PCs, CCs
  <2>2. LockInv'
    BY <1>19 DEF RecvReserved, LockInv, HoldsTail, HoldsFilled
  <2>3. PlaceInv'
    BY <1>19 DEF RecvReserved, PlaceInv, Place, NoSlice
  <2>4. CountInv'
    <3>1. UNCHANGED <<SizeAt("take"), SizeAt("count"), SizeAt("uncount")>>
      BY <1>19 DEF RecvReserved, SizeAt
    <3> QED
      BY <1>19, <3>1 DEF RecvReserved, CountInv
  <2>5. TileInv'
    <3>1. \A r \in Producers : (Out(r)' <=> Out(r)) /\ (Out(r) => slice'[r] = slice[r])
      BY <1>19 DEF RecvReserved, PlaceInv, Place, Out
    <3>2. UNCHANGED <<readable_till, tail, filled_slices>>
      BY <1>19 DEF RecvReserved
    <3> QED
      BY <3>1, <3>2, SameTiles
  <2>6. MergeInv'
    BY <1>19 DEF RecvReserved, MergeInv, Merging
  <2>7. AliveInv'
    <3>1. {r \in Producers : Live(r)}' = {r \in Producers : Live(r)}
          /\ \A r \in Producers : Live(r)' <=> Live(r)
      BY <1>19 DEF RecvReserved, Live
    <3>2. SizeAt("count") \in Nat /\ SizeAt("uncount") \in Nat
      BY SizeType
    <3>3. readable_till <= tail /\ reserved = 0 /\ len = 0 /\ cpc = "reserved"
      BY <1>19 DEF RecvReserved, TileInv, AliveInv
    <3>4. head = tail
      <4> HIDE DEF TypeOK
      <4> QED
        BY <1>ints, <3>2, <3>3 DEF CountInv
    <3> QED
      BY <1>19, <3>1, <3>4 DEF RecvReserved, AliveInv
  <2> QED
    BY <2>1, <2>2, <2>3, <2>4, <2>5, <2>6, <2>7
<1>20. CASE RecvLoad
  <2>1. TypeOK'
    <3>1. slot[Index(head)] \in Elements \cup {None}
      <4>1. head \in Nat
        OBVIOUS
      <4>2. Index(head) \in 0 .. Cap - 1
        BY <4>1, IndexInRange
      <4> QED
        BY <4>2
    <3>2. res' \in Elements \cup {None} /\ out' \in Seq(Elements)
      BY <1>20, <3>1 DEF RecvLoad
    <3>3. head' \in Nat /\ cpc' \in CCs
      BY <1>20, <1>ints DEF RecvLoad, CCs
    <3> QED
      BY <1>20, <3>2, <3>3 DEF RecvLoad
  <2>2. LockInv'
    BY <1>20 DEF RecvLoad, LockInv, HoldsTail, HoldsFilled
  <2>3. PlaceInv'
    BY <1>20 DEF RecvLoad, PlaceInv, Place, NoSlice
  <2>4. CountInv'
    <3>1. UNCHANGED <<SizeAt("take"), SizeAt("count"), SizeAt("uncount")>>
      BY <1>20 DEF RecvLoad, SizeAt
    <3>2. SizeAt("count") \in Nat
      BY SizeType
    <3>3. len > 0 /\ len = readable_till - head - SizeAt("count")
      <4>1. cpc = "load"
        BY <1>20 DEF RecvLoad
      <4> HIDE DEF TypeOK
      <4> QED
        BY <1>ints, <1>sizes, <4>1 DEF CountInv
    <3>4. cpc = "load" /\ cpc' = "unlen" /\ head' = head + 1
          /\ UNCHANGED <<tail, readable_till, len, reserved, free>>
      BY <1>20 DEF RecvLoad
    <3> HIDE DEF TypeOK
    <3> QED
      BY <1>ints, <1>sizes, <3>1, <3>2, <3>3, <3>4 DEF CountInv
  <2>5. TileInv'
    <3>1. \A r \in Producers : (Out(r)' <=> Out(r)) /\ (Out(r) => slice'[r] = slice[r])
      BY <1>20 DEF RecvLoad, PlaceInv, Place, Out
    <3>2. UNCHANGED <<readable_till, tail, filled_slices>>
      BY <1>20 DEF RecvLoad
    <3> QED
      BY <3>1, <3>2, SameTiles
  <2>6. MergeInv'
    BY <1>20 DEF RecvLoad, MergeInv, Merging
  <2>7. AliveInv'
    <3>1. {r \in Producers : Live(r)}' = {r \in Producers : Live(r)}
          /\ \A r \in Producers : Live(r)' <=> Live(r)
      BY <1>20 DEF RecvLoad, Live
    <3>2. head # tail
      <4>1. SizeAt("count") \in Nat
        BY SizeType
      <4>2. cpc = "load" /\ readable_till <= tail
        BY <1>20, IndicesInOrder DEF RecvLoad
      <4> HIDE DEF TypeOK
      <4> QED
        BY <1>ints, <4>1, <4>2 DEF CountInv
    <3> QED
      BY <1>20, <3>1, <3>2 DEF RecvLoad, AliveInv
  <2> QED
    BY <2>1, <2>2, <2>3, <2>4, <2>5, <2>6, <2>7
<1>21. CASE RecvUnlen
  <2>1. TypeOK'
    <3>1. len' \in 0 .. Cap
      <4>1. SizeAt("count") \in Nat
        BY SizeType
      <4>2. len' = len - 1 /\ cpc = "unlen" /\ len \in 0 .. Cap
        BY <1>21 DEF RecvUnlen
      <4> HIDE DEF TypeOK
      <4> QED
        BY <1>ints, <4>1, <4>2 DEF CountInv
    <3> QED
      BY <1>21, <3>1 DEF RecvUnlen, CCs
  <2>2. LockInv'
    BY <1>21 DEF RecvUnlen, LockInv, HoldsTail, HoldsFilled
  <2>3. PlaceInv'
    BY <1>21 DEF RecvUnlen, PlaceInv, Place, NoSlice
  <2>4. CountInv'
    <3>1. UNCHANGED <<SizeAt("take"), SizeAt("count"), SizeAt("uncount")>>
      BY <1>21 DEF RecvUnlen, SizeAt
    <3>2. SizeAt("count") \in Nat
      BY SizeType
    <3>3. cpc = "unlen" /\ cpc' = "unfree" /\ len' = len - 1
          /\ UNCHANGED <<tail, head, readable_till, reserved, free>>
      BY <1>21 DEF RecvUnlen
    <3> HIDE DEF TypeOK
    <3> QED
      BY <1>ints, <1>sizes, <3>1, <3>2, <3>3 DEF CountInv
  <2>5. TileInv'
    <3>1. \A r \in Producers : (Out(r)' <=> Out(r)) /\ (Out(r) => slice'[r] = slice[r])
      BY <1>21 DEF RecvUnlen, PlaceInv, Place, Out
    <3>2. UNCHANGED <<readable_till, tail, filled_slices>>
      BY <1>21 DEF RecvUnlen
    <3> QED
      BY <3>1, <3>2, SameTiles
  <2>6. MergeInv'
    BY <1>21 DEF RecvUnlen, MergeInv, Merging
  <2>7. AliveInv'
    <3>1. \A r \in Producers : Live(r)' <=> Live(r)
      BY <1>21 DEF RecvUnlen, Live
    <3>2. {r \in Producers : Live(r)}' = {r \in Producers : Live(r)}
      BY <3>1
    <3> QED
      BY <1>21, <3>1, <3>2 DEF RecvUnlen, AliveInv
  <2> QED
    BY <2>1, <2>2, <2>3, <2>4, <2>5, <2>6, <2>7
<1>22. CASE RecvUnfree
  <2>1. TypeOK'
    <3>1. free' \in 0 .. Cap
      <4>1. SizeAt("take") \in Nat
        BY SizeType
      <4>2. free' = free + 1 /\ cpc = "unfree"
        BY <1>22 DEF RecvUnfree
      <4>3. readable_till + SizeAt("take") <= tail /\ head <= readable_till
        BY TakeSize, IndicesInOrder
      <4> HIDE DEF TypeOK
      <4> QED
        BY <1>ints, <4>1, <4>2, <4>3 DEF CountInv
    <3> QED
      BY <1>22, <3>1 DEF RecvUnfree, CCs
  <2>2. LockInv'
    BY <1>22 DEF RecvUnfree, LockInv, HoldsTail, HoldsFilled
  <2>3. PlaceInv'
    <3> SUFFICES ASSUME NEW r \in Producers PROVE Place(r)'
      BY DEF PlaceInv
    <3>1. Place(r) /\ slice[r][2] \in Nat
      BY DEF PlaceInv
    <3>2. UNCHANGED <<ppc, slice, tail, made>> /\ free' = free + 1 /\ free \in Nat
      BY <1>22 DEF RecvUnfree
    <3> QED
      BY <3>1, <3>2 DEF Place
  <2>4. CountInv'
    <3>1. UNCHANGED <<SizeAt("take"), SizeAt("count"), SizeAt("uncount")>>
      BY <1>22 DEF RecvUnfree, SizeAt
    <3>2. SizeAt("take") \in Nat
      BY SizeType
    <3>3. cpc = "unfree" /\ cpc' \in {"empty", "idle"} /\ free' = free + 1
          /\ UNCHANGED <<tail, head, readable_till, reserved, len>>
      BY <1>22 DEF RecvUnfree
    <3> HIDE DEF TypeOK
    <3> QED
      BY <1>ints, <1>sizes, <3>1, <3>2, <3>3 DEF CountInv
  <2>5. TileInv'
    <3>1. \A r \in Producers : (Out(r)' <=> Out(r)) /\ (Out(r) => slice'[r] = slice[r])
      BY <1>22 DEF RecvUnfree, PlaceInv, Place, Out
    <3>2. UNCHANGED <<readable_till, tail, filled_slices>>
      BY <1>22 DEF RecvUnfree
    <3> QED
      BY <3>1, <3>2, SameTiles
  <2>6. MergeInv'
    BY <1>22 DEF RecvUnfree, MergeInv, Merging
  <2>7. AliveInv'
    <3>1. \A r \in Producers : Live(r)' <=> Live(r)
      BY <1>22 DEF RecvUnfree, Live
    <3>2. {r \in Producers : Live(r)}' = {r \in Producers : Live(r)}
      BY <3>1
    <3> QED
      BY <1>22, <3>1, <3>2 DEF RecvUnfree, AliveInv
  <2> QED
    BY <2>1, <2>2, <2>3, <2>4, <2>5, <2>6, <2>7
<1>23. CASE DropConsumer
  <2>1. TypeOK'
    BY <1>23 DEF DropConsumer, PCs, CCs
  <2>2. LockInv'
    BY <1>23 DEF DropConsumer, LockInv, HoldsTail, HoldsFilled
  <2>3. PlaceInv'
    BY <1>23 DEF DropConsumer, PlaceInv, Place, NoSlice
  <2>4. CountInv'
    <3>1. UNCHANGED <<SizeAt("take"), SizeAt("count"), SizeAt("uncount")>>
      BY <1>23 DEF DropConsumer, SizeAt
    <3> QED
      BY <1>23, <3>1 DEF DropConsumer, CountInv
  <2>5. TileInv'
    <3>1. \A r \in Producers : (Out(r)' <=> Out(r)) /\ (Out(r) => slice'[r] = slice[r])
      BY <1>23 DEF DropConsumer, PlaceInv, Place, Out
    <3>2. UNCHANGED <<readable_till, tail, filled_slices>>
      BY <1>23 DEF DropConsumer
    <3> QED
      BY <3>1, <3>2, SameTiles
  <2>6. MergeInv'
    BY <1>23 DEF DropConsumer, MergeInv, Merging
  <2>7. AliveInv'
    <3>1. \A r \in Producers : Live(r)' <=> Live(r)
      BY <1>23 DEF DropConsumer, Live
    <3>2. {r \in Producers : Live(r)}' = {r \in Producers : Live(r)}
      BY <3>1
    <3> QED
      BY <1>23, <3>1, <3>2 DEF DropConsumer, AliveInv
  <2> QED
    BY <2>1, <2>2, <2>3, <2>4, <2>5, <2>6, <2>7
<1>24. CASE DropRing
  <2>1. TypeOK'
    <3>1. Stored(head, readable_till) \in Seq(Elements)
      <4> DEFINE s == [i \in 1 .. readable_till - head |-> slot[Index(head + i - 1)]]
      <4>1. readable_till - head \in Nat
        BY IndicesInOrder
      <4>2. Len(s) \in Nat
        BY <4>1
      <4> HIDE DEF s
      <4>3. Only(s, Elements) \in Seq(Elements)
        BY <4>2, OnlyInSeq
      <4> QED
        BY <4>3 DEF Stored, s
    <3> QED
      BY <1>24, <3>1 DEF DropRing
  <2>2. LockInv'
    BY <1>24 DEF DropRing, LockInv, HoldsTail, HoldsFilled
  <2>3. PlaceInv'
    BY <1>24 DEF DropRing, PlaceInv, Place, NoSlice
  <2>4. CountInv'
    <3>1. UNCHANGED <<SizeAt("take"), SizeAt("count"), SizeAt("uncount")>>
      BY <1>24 DEF DropRing, SizeAt
    <3> QED
      BY <1>24, <3>1 DEF DropRing, CountInv
  <2>5. TileInv'
    <3>1. \A r \in Producers : (Out(r)' <=> Out(r)) /\ (Out(r) => slice'[r] = slice[r])
      BY <1>24 DEF DropRing, PlaceInv, Place, Out
    <3>2. UNCHANGED <<readable_till, tail, filled_slices>>
      BY <1>24 DEF DropRing
    <3> QED
      BY <3>1, <3>2, SameTiles
  <2>6. MergeInv'
    BY <1>24 DEF DropRing, MergeInv, Merging
  <2>7. AliveInv'
    <3>1. \A r \in Producers : Live(r)' <=> Live(r)
      BY <1>24 DEF DropRing, Live
    <3>2. {r \in Producers : Live(r)}' = {r \in Producers : Live(r)}
      BY <3>1
    <3> QED
      BY <1>24, <3>1, <3>2 DEF DropRing, AliveInv
  <2> QED
    BY <2>1, <2>2, <2>3, <2>4, <2>5, <2>6, <2>7
<1>25. CASE UNCHANGED vars
  <2>1. LockInv' /\ PlaceInv'
    BY <1>25 DEF vars, LockInv, HoldsTail, HoldsFilled, PlaceInv, Place
  <2>2. CountInv'
    <3>1. UNCHANGED <<SizeAt("take"), SizeAt("count"), SizeAt("uncount")>>
      BY <1>25 DEF vars, SizeAt
    <3>2. UNCHANGED <<head, tail, readable_till, len, free, reserved, cpc>>
      BY <1>25 DEF vars
    <3> QED
      BY <3>1, <3>2 DEF CountInv
  <2>3. TileInv'
    BY <1>25 DEF vars, TileInv, Out, Inside, Apart, Positions
  <2>4. MergeInv' /\ AliveInv'
    BY <1>25 DEF vars, MergeInv, Merging, AliveInv, Live
  <2> QED
    BY <1>25, <2>1, <2>2, <2>3, <2>4 DEF vars
<1> QED
  BY <1>1, <1>2, <1>3, <1>4, <1>5, <1>6, <1>7, <1>8, <1>9, <1>10, <1>11, <1>12,
     <1>13, <1>14, <1>15, <1>16, <1>17, <1>18, <1>19, <1>20, <1>21, <1>22, <1>23, <1>24, <1>25
  DEF Next, Producer, Consumer, Terminated

\* Every reachable state satisfies the inductive invariant.
THEOREM Invariance == Spec => []IndInv
<1>1. Init => IndInv
  BY InitInd
<1>2. IndInv /\ [Next]_vars => IndInv'
  BY StepInd
<1> QED
  BY <1>1, <1>2, PTL DEF Spec

\* Whatever the producers and the consumer do, each variable stays within its type: len and free
\* never pass the ring's size nor drop below zero, px_count counts handles that exist, what recv
\* returns and what RingBuffer::drop drops are elements somebody sent.
THEOREM TypeCorrect == Spec => []TypeOK
BY Invariance, PTL DEF IndInv

\* Unmerged, in the words of the tiling invariant: what waits and what producers have out.
LEMMA UnmergedIsOut ==
  /\ \A s \in Unmerged : s \in filled_slices \/ \E p \in Producers : Out(p) /\ s = slice[p]
  /\ filled_slices \subseteq Unmerged
  /\ \A p \in Producers : Out(p) => slice[p] \in Unmerged
BY DEF Unmerged, Out

\* Slices are given out and merged end to end: apply under the mutex of tail and the merge loop
\* under that of filled_slices lose no position and give none out twice.
THEOREM SlicesLieEndToEnd == Spec => []SlicesTile
<1>1. IndInv => SlicesTile
  <2> SUFFICES ASSUME IndInv PROVE SlicesTile
    OBVIOUS
  <2>1. ASSUME NEW s \in Unmerged
        PROVE  Inside(s) /\ s[1] \in Nat /\ s[2] \in Nat
    BY UnmergedIsOut DEF IndInv, TypeOK, TileInv
  <2>2. ASSUME NEW s \in Unmerged, NEW t \in Unmerged, s # t
        PROVE  Positions(s) \cap Positions(t) = {}
    <3>1. Apart(s, t)
      BY <2>2, UnmergedIsOut DEF IndInv, TileInv, Apart
    <3>2. s[1] \in Nat /\ s[2] \in Nat /\ t[1] \in Nat /\ t[2] \in Nat
      BY <2>1
    <3> QED
      BY <3>1, <3>2 DEF Apart, Positions
  <2>3. readable_till \in Nat /\ tail \in Nat
    BY DEF IndInv, TypeOK
  <2>4. ASSUME NEW s \in Unmerged PROVE Positions(s) \subseteq readable_till .. tail - 1
    <3>1. /\ s[1] \in Nat /\ s[2] \in Nat
          /\ readable_till <= s[1] /\ s[1] + s[2] <= tail
      BY <2>1 DEF Inside
    <3> QED
      BY <2>3, <3>1 DEF Positions
  <2>5. ASSUME NEW i \in readable_till .. tail - 1
        PROVE  \E s \in Unmerged : i \in Positions(s)
    BY UnmergedIsOut DEF IndInv, TileInv
  <2> QED
    BY <2>2, <2>4, <2>5 DEF SlicesTile
<1> QED
  BY <1>1, Invariance, PTL

\* Positions given out and not yet released, wherever they are, live in different slots.
LEMMA UnreleasedApart ==
  ASSUME IndInv, NEW i \in head .. tail - 1, NEW j \in head .. tail - 1, i # j
  PROVE  Index(i) # Index(j)
<1>1. head \in Nat /\ tail \in Nat /\ tail - head <= Cap /\ i \in Nat /\ j \in Nat
  <2>1. head \in Nat /\ tail \in Nat /\ Cap \in Nat
    BY CapAssumption DEF IndInv, TypeOK
  <2> QED
    BY <2>1, IndicesInOrder
<1>2. i < j + Cap /\ j < i + Cap
  BY <1>1, CapAssumption
<1> QED
  BY <1>1, <1>2, IndexApart

\* pop_front reads a position that is readable.
LEMMA LoadReads ==
  ASSUME IndInv, cpc = "load"
  PROVE  head < readable_till
<1>1. head \in Nat /\ readable_till \in Nat /\ len \in Nat /\ SizeAt("count") \in Nat
  <2>1. SizeAt("count") \in 0 .. Cap
    BY SizeType DEF IndInv
  <2>2. head \in Nat /\ readable_till \in Nat /\ len \in 0 .. Cap
    BY DEF IndInv, TypeOK
  <2> QED
    BY <2>1, <2>2
<1>2. len > 0 /\ len = readable_till - head - SizeAt("count")
  BY <1>1 DEF IndInv, CountInv
<1> QED
  BY <1>1, <1>2

\* store_vals copies a slice and pop_front reads a slot without any lock, and they never meet: not
\* two copies, and no copy and the read.
THEOREM SlotsNeverRace == Spec => []NoDataRace
<1>1. IndInv => NoDataRace
  <2> SUFFICES ASSUME IndInv, NEW p \in Producers, ppc[p] = "store"
               PROVE  /\ cpc = "load" => \A j \in Positions(slice[p]) : Index(head) # Index(j)
                      /\ \A q \in Producers \ {p} : ppc[q] = "store" =>
                           \A i \in Positions(slice[p]), j \in Positions(slice[q]) :
                             Index(i) # Index(j)
    BY DEF NoDataRace
  <2>1. head \in Nat /\ tail \in Nat /\ readable_till \in Nat /\ head <= readable_till
    BY IndicesInOrder DEF IndInv, TypeOK
  <2>2. ASSUME NEW r \in Producers, ppc[r] = "store"
        PROVE  /\ Out(r)
               /\ Positions(slice[r]) \subseteq readable_till .. tail - 1
               /\ slice[r][1] \in Nat /\ slice[r][2] \in Nat
    <3>1. Out(r)
      BY <2>2 DEF IndInv, PlaceInv, Place, Out
    <3>2. Inside(slice[r]) /\ slice[r] \in Nat \X (0 .. Cap)
      BY <3>1 DEF IndInv, TypeOK, TileInv
    <3>3. slice[r][1] \in Nat /\ slice[r][2] \in Nat
      BY <3>2, CapAssumption
    <3> QED
      BY <2>1, <3>1, <3>2, <3>3 DEF Inside, Positions
  <2>3. ASSUME cpc = "load", NEW j \in Positions(slice[p]) PROVE Index(head) # Index(j)
    <3>1. j \in readable_till .. tail - 1
      BY <2>2
    <3>2. head < readable_till
      BY <2>3, LoadReads
    <3>3. head \in head .. tail - 1 /\ j \in head .. tail - 1 /\ head # j
      BY <2>1, <3>1, <3>2
    <3> QED
      BY <3>3, UnreleasedApart
  <2>4. ASSUME NEW q \in Producers \ {p}, ppc[q] = "store",
               NEW i \in Positions(slice[p]), NEW j \in Positions(slice[q])
        PROVE  Index(i) # Index(j)
    <3>1. i \in readable_till .. tail - 1 /\ j \in readable_till .. tail - 1
      BY <2>2, <2>4
    <3>2. Apart(slice[p], slice[q])
      BY <2>2, <2>4 DEF IndInv, TileInv
    <3>3. i # j
      BY <2>2, <2>4, <3>2 DEF Apart, Positions
    <3>4. i \in head .. tail - 1 /\ j \in head .. tail - 1
      BY <2>1, <3>1
    <3> QED
      BY <3>3, <3>4, UnreleasedApart
  <2> QED
    BY <2>3, <2>4
<1> QED
  BY <1>1, Invariance, PTL

\* The comment over `free` is true up to the update somebody is in the middle of: an apply between
\* its two counters, a merge between its two, a pop_front between its two.
THEOREM CountersAgree == Spec => []FreeIsTheRest
<1>1. IndInv => FreeIsTheRest
  <2> SUFFICES ASSUME IndInv PROVE FreeIsTheRest
    OBVIOUS
  <2>1. /\ head \in Nat /\ tail \in Nat /\ readable_till \in Nat
        /\ len \in Nat /\ free \in Nat /\ reserved \in Nat
    BY DEF IndInv, TypeOK
  <2>2. SizeAt("take") \in Nat /\ SizeAt("count") \in Nat /\ SizeAt("uncount") \in Nat
    BY SizeType DEF IndInv
  <2> QED
    BY <2>1, <2>2, CapAssumption DEF IndInv, CountInv, FreeIsTheRest
<1> QED
  BY <1>1, Invariance, PTL

\* With no producer left nothing is reserved, and nothing waits.
LEMMA GoneMerged == IndInv => GoneMeansMerged
<1> SUFFICES ASSUME IndInv, px_count = 0
             PROVE  reserved = 0 /\ filled_slices = {} /\ readable_till = tail
  BY DEF GoneMeansMerged
<1>1. \A p \in Producers : ~Live(p)
  <2> DEFINE L == {p \in Producers : Live(p)}
  <2>1. IsFiniteSet(L) /\ Cardinality(L) = 0
    BY HandlesCounted DEF IndInv, AliveInv
  <2>2. L = {}
    <3> HIDE DEF L
    <3> QED
      BY <2>1, FS_EmptySet
  <2> QED
    BY <2>2
<1>2. \A p \in Producers : ~Out(p) /\ ~Merging(p)
  BY <1>1 DEF Live, Out, Merging
<1>3. readable_till \in Nat /\ tail \in Nat /\ readable_till <= tail
  BY DEF IndInv, TypeOK, TileInv
<1>4. \A s \in filled_slices : s[1] \in Nat /\ s[2] \in Nat /\ Inside(s)
  BY DEF IndInv, TypeOK, TileInv
<1>5. readable_till = tail
  <2> SUFFICES ASSUME readable_till < tail PROVE FALSE
    BY <1>3
  <2>1. readable_till \in readable_till .. tail - 1
    BY <1>3
  <2>2. PICK s \in filled_slices : readable_till \in Positions(s)
    BY <2>1, <1>2 DEF IndInv, TileInv
  <2>3. s[1] = readable_till
    BY <1>3, <1>4, <2>2 DEF Positions, Inside
  <2> QED
    BY <1>2, <2>3 DEF IndInv, MergeInv
<1>6. filled_slices = {}
  BY <1>3, <1>4, <1>5 DEF Inside
<1>7. SizeAt("count") = 0 /\ SizeAt("uncount") = 0
  BY <1>2, SizeNone DEF Merging
<1>8. reserved = 0
  BY <1>3, <1>5, <1>7 DEF IndInv, CountInv
<1> QED
  BY <1>5, <1>6, <1>8

\* A slice that cannot be merged has another before it, and whoever hands that one in merges both:
\* when the last producer has gone nothing is left to merge, and pop_front never has to.
THEOREM NothingLeftBehind == Spec => []GoneMeansMerged
BY GoneMerged, Invariance, PTL

\* recv reports the end only once every producer has gone and every position has been read: the
\* second look at len catches whatever was merged between the first look and the count of producers.
THEOREM EofIsTheEnd == Spec => []EofOnlyAtEnd
BY Invariance, PTL DEF IndInv, AliveInv, EofOnlyAtEnd
-----------------------------------------------------------------------------
(* Exactly once and in order, for each producer. *)

\* The first element of a tuple tells whose it is; padding is nobody's.
LEMMA Whose ==
  /\ None \notin Elements
  /\ \A p \in Producers : /\ None \notin By(p) /\ By(p) \subseteq Elements
                          /\ \A q \in Producers : q # p => By(p) \cap By(q) = {}
BY DEF None, Elements, By

\* Everything but the last element of a sequence just made longer.
LEMMA FrontAppend ==
  ASSUME NEW V, NEW s \in Seq(V), NEW x \in V
  PROVE  Front(Append(s, x)) = s
<1>1. Append(s, x) \in Seq(V) /\ Len(Append(s, x)) = Len(s) + 1
  OBVIOUS
<1>2. Front(Append(s, x)) = SubSeq(Append(s, x), 1, Len(s))
  BY <1>1 DEF Front
<1> QED
  BY <1>2

\* Where p's elements are, all together, and what they should be.
Total(p) ==
  Only(out, By(p)) \o (IF ring THEN Only(Contents, By(p)) \o buf_local[p] ELSE Only(freed, By(p)))
Due(p) == IF Sending(p) THEN Front(Sent(p)) ELSE Sent(p)

\* p has a slice it has not stored.
Held(p) == slice[p] # NoSlice /\ ppc[p] \in {"take", "idle", "store"}

\* The local buffer has room for what is put in, and is empty without a slice.
Buf(p) ==
  /\ buf_local[p] \in Seq(By(p))
  /\ buf_local[p] # <<>> => slice[p] # NoSlice /\ ppc[p] \in {"idle", "store"}
  /\ ppc[p] = "store" => Len(buf_local[p]) <= slice[p][2]
  /\ ppc[p] = "idle" /\ slice[p] # NoSlice => Len(buf_local[p]) < slice[p][2]

BufInv == \A p \in Producers : Buf(p)

\* What was handed back was built before, and is not what is being sent.
RejectInv ==
  /\ \A e \in rejected : e[2] <= made[e[1]]
  /\ \A p \in Producers : Sending(p) => <<p, made[p]>> \notin rejected

\* p's elements in the ring lie before the slice it fills now.
OrderInv ==
  \A p \in Producers : Held(p) =>
    \A j \in Written : slot[Index(j)] \in By(p) => j < slice[p][1]

\* The ring is freed by whoever is last.
GoneInv == ~ring => cpc = "dropped" /\ \A p \in Producers : ~Live(p)

FifoInv == BufInv /\ RejectInv /\ OrderInv /\ GoneInv /\ PerProducerFifo

\* What is written is given out and not released, and Contents is a sequence of that length.
LEMMA ContentsType ==
  ASSUME IndInv
  PROVE  /\ Written \subseteq head .. tail - 1
         /\ Contents \in Seq(Elements \cup {None}) /\ Len(Contents) = tail - head
         /\ \A i \in 1 .. tail - head :
              /\ head + i - 1 \in head .. tail - 1
              /\ Contents[i] = IF head + i - 1 \in Written THEN slot[Index(head + i - 1)] ELSE None
<1>1. /\ head \in Nat /\ tail \in Nat /\ readable_till \in Nat
      /\ head <= readable_till /\ readable_till <= tail
  BY IndicesInOrder DEF IndInv, TypeOK
<1>2. Written \subseteq head .. tail - 1
  <2>1. \A s \in Waiting : s[1] \in Nat /\ s[2] \in Nat /\ Inside(s)
    <3>1. \A s \in Waiting : s \in filled_slices \/ \E q \in Producers : Out(q) /\ s = slice[q]
      BY DEF Waiting, Out
    <3> QED
      BY <3>1 DEF IndInv, TypeOK, TileInv
  <2>2. \A s \in Waiting : Positions(s) \subseteq head .. tail - 1
    BY <1>1, <2>1 DEF Inside, Positions
  <2> QED
    BY <1>1, <2>2 DEF Written
<1>3. \A j \in head .. tail - 1 : slot[Index(j)] \in Elements \cup {None}
  <2> SUFFICES ASSUME NEW j \in head .. tail - 1 PROVE slot[Index(j)] \in Elements \cup {None}
    OBVIOUS
  <2>1. Index(j) \in 0 .. Cap - 1
    BY <1>1, IndexInRange
  <2> QED
    BY <2>1 DEF IndInv, TypeOK
<1>4. \A i \in 1 .. tail - head : head + i - 1 \in head .. tail - 1
  BY <1>1
<1>5. tail - head \in Nat
  BY <1>1
<1>6. Contents \in [1 .. tail - head -> Elements \cup {None}]
  BY <1>3, <1>4 DEF Contents
<1>7. Contents \in Seq(Elements \cup {None}) /\ Len(Contents) = tail - head
  BY <1>5, <1>6
<1>8. \A i \in 1 .. tail - head :
        Contents[i] = IF head + i - 1 \in Written THEN slot[Index(head + i - 1)] ELSE None
  BY DEF Contents
<1> QED
  BY <1>2, <1>4, <1>7, <1>8

\* A step that neither moves readable_till nor hands a slice in leaves what is written alone.
LEMMA SameWritten ==
  ASSUME UNCHANGED <<head, readable_till, filled_slices>>,
         \A r \in Producers :
           /\ (ppc'[r] = "merge" /\ slice'[r] # NoSlice) <=> (ppc[r] = "merge" /\ slice[r] # NoSlice)
           /\ ppc[r] = "merge" /\ slice[r] # NoSlice => slice'[r] = slice[r]
  PROVE  Written' = Written
<1>1. Waiting' = Waiting
  BY DEF Waiting
<1> QED
  BY <1>1 DEF Written, Positions

\* The same slots written with the same: the ring holds what it held.
LEMMA SameContents ==
  ASSUME UNCHANGED <<head, tail, slot>>, Written' = Written
  PROVE  Contents' = Contents
BY DEF Contents, Index

\* The place before the elements p sends now.
LEMMA SameOrder ==
  ASSUME OrderInv, Written' \subseteq Written, slot' = slot,
         \A r \in Producers : Held(r)' => Held(r) /\ slice'[r] = slice[r]
  PROVE  OrderInv'
BY DEF OrderInv, Index, By

\* A step that touches none of p's elements keeps them in order.
LEMMA SameTotal ==
  ASSUME NEW p \in Producers, Contents' = Contents,
         UNCHANGED <<out, ring, freed>>, buf_local'[p] = buf_local[p]
  PROVE  Total(p)' = Total(p)
BY DEF Total, By

\* What p owes stays the same while it builds and is handed back nothing.
LEMMA SameDue ==
  ASSUME NEW p \in Producers, made'[p] = made[p], rejected' = rejected, Sending(p)' <=> Sending(p)
  PROVE  Due(p)' = Due(p)
<1>1. Sent(p)' = Sent(p)
  BY DEF Sent, Elements
<1> QED
  BY <1>1 DEF Due

\* What p was told to send: its length is only what it was not handed back.
LEMMA SentType ==
  ASSUME TypeOK, NEW p \in Producers
  PROVE  Sent(p) \in Seq(Elements)
<1> DEFINE all == [n \in 1 .. made[p] |-> <<p, n>>]
<1>1. Len(all) \in Nat
  BY DEF TypeOK
<1> HIDE DEF all
<1>2. Only(all, Elements \ rejected) \in Seq(Elements \ rejected)
  BY <1>1, OnlyInSeq
<1> QED
  BY <1>2 DEF Sent, all

\* The first n elements p built, less those handed back.
SentUpto(p, n, back) == Only([k \in 1 .. n |-> <<p, k>>], Elements \ back)

\* One element more is built, and not handed back.
LEMMA SentGrows ==
  ASSUME NEW p \in Producers, NEW n \in Nat, n < MaxSend, NEW back, <<p, n + 1>> \notin back
  PROVE  /\ SentUpto(p, n, back) \in Seq(Elements)
         /\ SentUpto(p, n + 1, back) = Append(SentUpto(p, n, back), <<p, n + 1>>)
<1> DEFINE s == [k \in 1 .. n |-> <<p, k>>]
           t == [k \in 1 .. n + 1 |-> <<p, k>>]
           x == <<p, n + 1>>
           V == Producers \X Nat
           R == Elements \ back
<1>1. s \in Seq(V) /\ Len(s) = n
  OBVIOUS
<1>2. t = Append(s, x)
  <2>1. Append(s, x) \in Seq(V) /\ Len(Append(s, x)) = n + 1
    BY <1>1
  <2>2. t \in Seq(V) /\ Len(t) = n + 1
    OBVIOUS
  <2>3. ASSUME NEW k \in 1 .. n + 1 PROVE Append(s, x)[k] = t[k]
    OBVIOUS
  <2> HIDE DEF s, t, x, V
  <2> QED
    BY <2>1, <2>2, <2>3, SeqEqual
<1>3. x \in R /\ R \subseteq Elements
  BY MaxSendAssumption DEF Elements
<1>4. SentUpto(p, n, back) = Only(s, R) /\ SentUpto(p, n + 1, back) = Only(t, R)
  BY DEF SentUpto
<1> HIDE DEF s, t, x, V, R
<1>5. Only(Append(s, x), R) = Append(Only(s, R), x)
  <2>1. Only(Append(s, x), R) = IF x \in R THEN Append(Only(s, R), x) ELSE Only(s, R)
    BY <1>1, OnlyAppend
  <2> QED
    BY <1>3, <2>1
<1>6. Only(s, R) \in Seq(R)
  BY <1>1, OnlyInSeq
<1>7. Only(s, R) \in Seq(Elements)
  BY <1>3, <1>6
<1> QED
  BY <1>2, <1>4, <1>5, <1>7 DEF x

\* Who has built the same and been handed back the same of it was told to send the same.
LEMMA SentSame ==
  ASSUME NEW p \in Producers, NEW n \in Nat, n <= MaxSend, NEW back, NEW next,
         \A k \in 1 .. n : <<p, k>> \in next <=> <<p, k>> \in back
  PROVE  SentUpto(p, n, next) = SentUpto(p, n, back)
<1> DEFINE s == [k \in 1 .. n |-> <<p, k>>]
<1>1. Len(s) = n /\ \A k \in 1 .. n : s[k] = <<p, k>> /\ s[k] \in Elements
  BY MaxSendAssumption DEF Elements
<1> HIDE DEF s
<1>2. Only(s, Elements \ next) = Only(s, Elements \ back)
  <2>1. \A k \in 1 .. Len(s) : s[k] \in Elements \ next <=> s[k] \in Elements \ back
    BY <1>1
  <2> QED
    BY <1>1, <2>1, OnlySame
<1> QED
  BY <1>2 DEF SentUpto, s

\* One element more in the local buffer is one more in all.
LEMMA TotalGrows ==
  ASSUME NEW p \in Producers, IndInv, buf_local[p] \in Seq(By(p)), ring, NEW x \in By(p),
         buf_local'[p] = Append(buf_local[p], x), Contents' = Contents, out' = out, ring' = ring
  PROVE  Total(p)' = Append(Total(p), x) /\ Total(p) \in Seq(By(p))
<1> DEFINE o == Only(out, By(p))
           c == Only(Contents, By(p))
           b == buf_local[p]
<1>1. o \in Seq(By(p)) /\ c \in Seq(By(p))
  <2>1. Len(out) \in Nat
    BY DEF IndInv, TypeOK
  <2>2. Len(Contents) \in Nat
    BY ContentsType
  <2> QED
    BY <2>1, <2>2, OnlyInSeq
<1>2. Total(p) = o \o (c \o b) /\ Total(p)' = o \o (c \o Append(b, x))
  BY DEF Total, By
<1> HIDE DEF o, c, b
<1>3. b \in Seq(By(p))
  BY DEF b
<1>4. c \o Append(b, x) = Append(c \o b, x) /\ c \o b \in Seq(By(p))
  BY <1>1, <1>3, ConcatAppend
<1>5. o \o Append(c \o b, x) = Append(o \o (c \o b), x) /\ o \o (c \o b) \in Seq(By(p))
  BY <1>1, <1>4, ConcatAppend
<1> QED
  BY <1>2, <1>4, <1>5

\* What the slots hold after store_vals: the slice's positions what was copied there, the others
\* given out and not released what they held.
LEMMA StoreSlots ==
  ASSUME IndInv, NEW p \in Producers, FlushStore(p)
  PROVE  \A j \in head .. tail - 1 :
           slot'[Index(j)] = IF j \in Positions(slice[p]) THEN Padded(p)[j - slice[p][1] + 1]
                                                          ELSE slot[Index(j)]
<1> DEFINE s == slice[p]
           vals == Padded(p)
<1>1. /\ head \in Nat /\ tail \in Nat /\ readable_till \in Nat
      /\ head <= readable_till /\ readable_till <= tail
  BY IndicesInOrder DEF IndInv, TypeOK
<1>2. Out(p)
  BY DEF FlushStore, IndInv, PlaceInv, Place, Out
<1>3. s[1] \in Nat /\ s[2] \in Nat /\ readable_till <= s[1] /\ s[1] + s[2] <= tail
  <2>1. Inside(s) /\ s \in Nat \X (0 .. Cap)
    BY <1>2 DEF IndInv, TypeOK, TileInv
  <2> QED
    BY <2>1, CapAssumption DEF Inside
<1>4. Positions(s) \subseteq head .. tail - 1
  BY <1>1, <1>3 DEF Positions
<1>5. slot' = [i \in 0 .. Cap - 1 |->
                 IF \E k \in Positions(s) : Index(k) = i
                 THEN vals[(CHOOSE k \in Positions(s) : Index(k) = i) - s[1] + 1]
                 ELSE slot[i]]
  BY DEF FlushStore, StoreVals
<1> HIDE DEF s, vals
<1> SUFFICES ASSUME NEW j \in head .. tail - 1
             PROVE  slot'[Index(j)] = IF j \in Positions(s) THEN vals[j - s[1] + 1] ELSE slot[Index(j)]
  BY DEF s, vals
<1>6. Index(j) \in 0 .. Cap - 1
  BY <1>1, IndexInRange
<1>7. \A k \in Positions(s) : Index(k) = Index(j) => k = j
  BY <1>4, UnreleasedApart
<1>8. CASE j \in Positions(s)
  <2>1. (CHOOSE k \in Positions(s) : Index(k) = Index(j)) = j
    BY <1>7, <1>8
  <2>2. \E k \in Positions(s) : Index(k) = Index(j)
    BY <1>8
  <2> HIDE DEF Index
  <2>3. slot'[Index(j)] = vals[(CHOOSE k \in Positions(s) : Index(k) = Index(j)) - s[1] + 1]
    BY <1>5, <1>6, <2>2
  <2> QED
    BY <1>8, <2>1, <2>3
<1>9. CASE j \notin Positions(s)
  <2>1. ~\E k \in Positions(s) : Index(k) = Index(j)
    BY <1>7, <1>9
  <2> HIDE DEF Index
  <2> QED
    BY <1>5, <1>6, <1>9, <2>1
<1> QED
  BY <1>8, <1>9

\* Storing a slice writes its positions, none of which was written.
LEMMA StoreWrites ==
  ASSUME IndInv, NEW p \in Producers, FlushStore(p)
  PROVE  /\ Written' = Written \cup Positions(slice[p])
         /\ Written \cap Positions(slice[p]) = {}
         /\ slice[p][1] \in head .. tail /\ slice[p][2] \in Nat /\ slice[p][1] + slice[p][2] <= tail
<1>1. /\ head \in Nat /\ tail \in Nat /\ readable_till \in Nat
      /\ head <= readable_till /\ readable_till <= tail
  BY IndicesInOrder DEF IndInv, TypeOK
<1>2. ppc[p] = "store" /\ slice[p] # NoSlice /\ Out(p)
  BY DEF FlushStore, IndInv, PlaceInv, Place, Out
<1>3. /\ slice[p][1] \in Nat /\ slice[p][2] \in Nat
      /\ readable_till <= slice[p][1] /\ slice[p][1] + slice[p][2] <= tail
  <2>1. Inside(slice[p]) /\ slice[p] \in Nat \X (0 .. Cap)
    BY <1>2 DEF IndInv, TypeOK, TileInv
  <2> QED
    BY <2>1, CapAssumption DEF Inside
<1>4. Waiting' = Waiting \cup {slice[p]}
  <2>1. /\ filled_slices' = filled_slices /\ slice' = slice
        /\ ppc' = [ppc EXCEPT ![p] = "merge"] /\ ppc \in [Producers -> PCs]
    BY DEF FlushStore, mergeVars, IndInv, TypeOK
  <2>2. \A r \in Producers : ppc'[r] = "merge" <=> ppc[r] = "merge" \/ r = p
    BY <2>1
  <2>3. {r \in Producers : ppc'[r] = "merge" /\ slice'[r] # NoSlice} =
          {r \in Producers : ppc[r] = "merge" /\ slice[r] # NoSlice} \cup {p}
    BY <1>2, <2>1, <2>2
  <2> QED
    BY <2>1, <2>3 DEF Waiting
<1>5. Written' = Written \cup Positions(slice[p])
  <2>1. head' = head /\ readable_till' = readable_till
    BY DEF FlushStore, mergeVars, consumerVars
  <2>2. Written' = (head .. readable_till - 1) \cup UNION {Positions(s) : s \in Waiting'}
    BY <2>1 DEF Written, Positions
  <2> QED
    BY <1>4, <2>2 DEF Written
<1>6. \A s \in Waiting : Positions(s) \cap Positions(slice[p]) = {}
  <2> SUFFICES ASSUME NEW s \in Waiting PROVE Positions(s) \cap Positions(slice[p]) = {}
    OBVIOUS
  <2>1. s \in filled_slices \/ \E q \in Producers : q # p /\ Out(q) /\ s = slice[q]
    BY <1>2 DEF Waiting, Out
  <2>2. CASE s \in filled_slices
    <3>1. Apart(slice[p], s)
      BY <1>2, <2>2 DEF IndInv, TileInv
    <3>2. s \in Nat \X (1 .. Cap)
      BY <2>2 DEF IndInv, TypeOK
    <3>3. s[1] \in Nat /\ s[2] \in Nat
      BY <3>2, CapAssumption
    <3> QED
      BY <1>3, <3>1, <3>3 DEF Apart, Positions
  <2>3. CASE \E q \in Producers : q # p /\ Out(q) /\ s = slice[q]
    <3>1. PICK q \in Producers : q # p /\ Out(q) /\ s = slice[q]
      BY <2>3
    <3>2. Apart(slice[p], slice[q])
      BY <1>2, <3>1 DEF IndInv, TileInv
    <3>3. slice[q][1] \in Nat /\ slice[q][2] \in Nat
      <4>1. slice[q] \in Nat \X (0 .. Cap)
        BY DEF IndInv, TypeOK
      <4> QED
        BY <4>1, CapAssumption
    <3> QED
      BY <1>3, <3>1, <3>2, <3>3 DEF Apart, Positions
  <2> QED
    BY <2>1, <2>2, <2>3
<1>7. (head .. readable_till - 1) \cap Positions(slice[p]) = {}
  BY <1>1, <1>3 DEF Positions
<1> QED
  BY <1>1, <1>3, <1>5, <1>6, <1>7 DEF Written

\* Storing puts what was in the local buffer behind p's elements in the ring, and leaves those of
\* the others where they are.
LEMMA StoreTotal ==
  ASSUME IndInv, IndInv', FifoInv, NEW p \in Producers, FlushStore(p)
  PROVE  \A q \in Producers : Total(q)' = Total(q)
<1> DEFINE a == slice[p][1]
           n == slice[p][2]
           b == buf_local[p]
           V == Elements \cup {None}
<1>1. /\ head \in Nat /\ tail \in Nat /\ a \in head .. tail /\ n \in Nat /\ a + n <= tail
  BY StoreWrites DEF IndInv, TypeOK
<1>2. /\ head' = head /\ tail' = tail /\ out' = out /\ ring' = ring
      /\ buf_local' = [buf_local EXCEPT ![p] = <<>>] /\ ppc[p] = "store"
  BY DEF FlushStore, tailVars, consumerVars, dropVars
<1>3. ring
  BY <1>2 DEF FifoInv, GoneInv, Live
<1>4. b \in Seq(By(p)) /\ Len(b) \in Nat /\ Len(b) <= n
  BY <1>2 DEF FifoInv, BufInv, Buf
<1>5. /\ Contents \in Seq(V) /\ Len(Contents) = tail - head
      /\ Contents' \in Seq(V) /\ Len(Contents') = tail - head
  <2>1. Contents \in Seq(V) /\ Len(Contents) = tail - head
    BY ContentsType
  <2>2. (IndInv => Contents \in Seq(V) /\ Len(Contents) = tail - head)'
    BY ContentsType, PTL DEF Elements
  <2> QED
    BY <1>2, <2>1, <2>2 DEF Elements
<1>6. ASSUME NEW i \in 1 .. tail - head
      PROVE  Contents'[i] = IF head + i - 1 \in Positions(slice[p])
                            THEN Padded(p)[head + i - a] ELSE Contents[i]
  <2>1. head + i - 1 \in head .. tail - 1 /\ (head + i - 1) - a + 1 = head + i - a
    BY <1>1
  <2>2. Contents'[i] = IF head + i - 1 \in Written' THEN slot'[Index(head + i - 1)] ELSE None
    BY <1>2 DEF Contents, Index
  <2>3. Contents[i] = IF head + i - 1 \in Written THEN slot[Index(head + i - 1)] ELSE None
    BY DEF Contents
  <2> HIDE DEF a
  <2>4. slot'[Index(head + i - 1)] =
          IF head + i - 1 \in Positions(slice[p]) THEN Padded(p)[(head + i - 1) - slice[p][1] + 1]
                                                  ELSE slot[Index(head + i - 1)]
    BY <2>1, StoreSlots
  <2>5. Written' = Written \cup Positions(slice[p]) /\ Written \cap Positions(slice[p]) = {}
    BY StoreWrites
  <2> QED
    BY <2>1, <2>2, <2>3, <2>4, <2>5 DEF a
<1>7. ASSUME NEW i \in 1 .. tail - head
      PROVE  /\ head + i - 1 \in Positions(slice[p]) <=> a - head < i /\ i <= a - head + n
             /\ head + i - 1 \in Positions(slice[p]) =>
                  /\ Padded(p)[head + i - a] = IF i - (a - head) <= Len(b) THEN b[i - (a - head)] ELSE None
                  /\ i - (a - head) <= Len(b) => b[i - (a - head)] \in By(p)
                  /\ Contents[i] = None
  <2>1. head + i - 1 \in Positions(slice[p]) <=> a - head < i /\ i <= a - head + n
    BY <1>1 DEF Positions
  <2>2. ASSUME head + i - 1 \in Positions(slice[p])
        PROVE  /\ Padded(p)[head + i - a] = IF i - (a - head) <= Len(b) THEN b[i - (a - head)] ELSE None
               /\ i - (a - head) <= Len(b) => b[i - (a - head)] \in By(p)
    <3>1. head + i - a \in 1 .. n /\ head + i - a = i - (a - head)
      BY <1>1, <2>1, <2>2
    <3>2. Padded(p)[head + i - a] = IF head + i - a <= Len(b) THEN b[head + i - a] ELSE None
      BY <3>1 DEF Padded
    <3> HIDE DEF a, n, b
    <3>3. head + i - a <= Len(b) => b[head + i - a] \in By(p)
      BY <1>4, <3>1
    <3> QED
      BY <3>1, <3>2, <3>3
  <2>3. head + i - 1 \in Positions(slice[p]) => Contents[i] = None
    BY StoreWrites DEF Contents
  <2> QED
    BY <2>1, <2>2, <2>3
<1>8. ASSUME NEW q \in Producers, q # p PROVE Only(Contents', By(q)) = Only(Contents, By(q))
  <2> DEFINE s == Contents
             t == Contents'
  <2>1. Len(s) \in Nat /\ Len(t) = Len(s) /\ Len(s) = tail - head
    BY <1>1, <1>5
  <2>2. ASSUME NEW i \in 1 .. Len(s)
        PROVE  t[i] = s[i] \/ (t[i] \notin By(q) /\ s[i] \notin By(q))
    <3>1. i \in 1 .. tail - head
      BY <2>1
    <3>2. t[i] = IF head + i - 1 \in Positions(slice[p]) THEN Padded(p)[head + i - a] ELSE s[i]
      BY <1>6, <3>1
    <3> HIDE DEF a, b, n, s, t
    <3>3. head + i - 1 \in Positions(slice[p]) =>
             (t[i] \in By(p) \/ t[i] = None) /\ s[i] = None
      BY <1>7, <3>1, <3>2 DEF s
    <3> QED
      BY <1>8, <3>2, <3>3, Whose
  <2> HIDE DEF s, t
  <2>3. Only(t, By(q)) = Only(s, By(q))
    BY <2>1, <2>2, OnlySame
  <2> QED
    BY <2>3 DEF s, t
<1>9. Only(Contents', By(p)) = Only(Contents, By(p)) \o b
  <2> DEFINE m == a - head
             A == [i \in 1 .. m |-> Contents[i]]
             M == [i \in 1 .. (tail - a) |-> None]
             N == [i \in 1 .. (tail - a) - Len(b) |-> None]
  <2>1. m \in Nat /\ tail - a \in Nat /\ (tail - a) - Len(b) \in Nat /\ m + (tail - a) = tail - head
    <3> HIDE DEF a, n, b
    <3> QED
      BY <1>1, <1>4
  <2>2. A \in Seq(V) /\ Len(A) = m
    <3>1. \A i \in 1 .. m : Contents[i] \in V
      BY <1>1, <1>5
    <3> QED
      BY <2>1, <3>1
  <2>3. M \in Seq(V) /\ Len(M) = tail - a /\ N \in Seq(V) /\ Len(N) = (tail - a) - Len(b)
    BY <2>1
  <2>4. b \in Seq(V)
    BY <1>4, Whose
  <2>5. \A i \in 1 .. tail - head : i > m => Contents[i] \notin By(p)
    <3> SUFFICES ASSUME NEW i \in 1 .. tail - head, i > m, Contents[i] \in By(p) PROVE FALSE
      OBVIOUS
    <3>1. head + i - 1 \in Written /\ slot[Index(head + i - 1)] \in By(p)
      BY Whose DEF Contents
    <3>2. Held(p)
      BY <1>2 DEF Held, IndInv, PlaceInv, Place
    <3>3. head + i - 1 < a
      BY <3>1, <3>2 DEF FifoInv, OrderInv
    <3> QED
      BY <1>1, <3>3
  <2>6. Only(Contents, By(p)) = Only(A, By(p))
    <3> DEFINE s == Contents
               t == A \o M
    <3>1. t \in Seq(V) /\ Len(t) = tail - head
      BY <2>1, <2>2, <2>3
    <3>2. ASSUME NEW i \in 1 .. tail - head
          PROVE  t[i] = s[i] \/ (t[i] \notin By(p) /\ s[i] \notin By(p))
      <4>1. CASE i <= m
        BY <2>1, <2>2, <4>1
      <4>2. CASE i > m
        <5>1. t[i] = None
          BY <2>1, <2>2, <2>3, <4>2
        <5> HIDE DEF t, A, M, m
        <5> QED
          BY <2>5, <4>2, <5>1, Whose
      <4> QED
        BY <2>1, <4>1, <4>2
    <3>3. Len(s) = tail - head /\ tail - head \in Nat
      BY <1>1, <1>5
    <3> HIDE DEF s, t, A, M, V
    <3>4. Only(s, By(p)) = Only(t, By(p))
      BY <3>1, <3>2, <3>3, OnlySame
    <3>5. Only(t, By(p)) = Only(A, By(p)) \o Only(M, By(p))
      BY <2>2, <2>3, OnlyConcat DEF t
    <3>6. Only(M, By(p)) = <<>>
      <4>1. \A i \in 1 .. Len(M) : M[i] \notin By(p)
        BY <2>3, Whose DEF M
      <4> QED
        BY <2>1, <2>3, <4>1, OnlyNone
    <3>7. Only(A, By(p)) \in Seq(By(p))
      BY <2>1, <2>2, OnlyInSeq
    <3> QED
      BY <3>4, <3>5, <3>6, <3>7, ConcatEmptySeq DEF s
  <2>7. Only(Contents', By(p)) = Only(A, By(p)) \o b
    <3> DEFINE s == Contents'
               t == (A \o b) \o N
    <3>1. A \o b \in Seq(V) /\ Len(A \o b) = m + Len(b)
      <4> HIDE DEF A, V, b, m
      <4> QED
        BY <1>4, <2>1, <2>2, <2>4, ConcatProperties
    <3>2. t \in Seq(V) /\ Len(t) = tail - head
      <4> DEFINE c == A \o b
      <4>1. c \in Seq(V) /\ N \in Seq(V) /\ t = c \o N
        BY <2>3, <3>1
      <4>2. Len(c) = m + Len(b) /\ Len(N) = (tail - a) - Len(b)
        BY <2>3, <3>1
      <4> HIDE DEF t, c, N, V, b, m, a
      <4>3. t \in Seq(V) /\ Len(t) = Len(c) + Len(N)
        BY <4>1, ConcatProperties
      <4>4. Len(t) = (m + Len(b)) + ((tail - a) - Len(b))
        BY <4>2, <4>3
      <4>5. m \in Nat /\ Len(b) \in Nat /\ (tail - a) \in Nat /\ m + (tail - a) = tail - head
        BY <1>4, <2>1
      <4> QED
        BY <4>3, <4>4, <4>5
    <3>3. ASSUME NEW i \in 1 .. tail - head
          PROVE  t[i] = s[i] \/ (t[i] \notin By(p) /\ s[i] \notin By(p))
      <4>1. CASE i <= m
        <5>1. t[i] = (A \o b)[i] /\ (A \o b)[i] = A[i] /\ A[i] = Contents[i]
          <6>1. i \in 1 .. m /\ i \in 1 .. Len(A \o b)
            BY <1>4, <2>1, <3>1, <4>1
          <6>2. A[i] = Contents[i]
            BY <6>1
          <6> HIDE DEF A, N, V, b, m
          <6>3. t[i] = (A \o b)[i]
            BY <2>3, <3>1, <6>1
          <6>4. (A \o b)[i] = A[i]
            BY <2>2, <2>4, <6>1
          <6> QED
            BY <6>2, <6>3, <6>4
        <5>2. s[i] = Contents[i]
          <6>1. ~(a - head < i)
            <7>1. m \in Nat /\ i \in Nat /\ i <= m /\ m = a - head
              BY <2>1, <4>1
            <7> HIDE DEF m, a
            <7> QED
              BY <7>1
          <6>2. head + i - 1 \notin Positions(slice[p])
            BY <1>7, <6>1
          <6> QED
            BY <1>6, <6>2
        <5> QED
          BY <5>1, <5>2
      <4>2. CASE m < i /\ i <= m + Len(b)
        <5>1. t[i] = b[i - m]
          <6>1. i \in 1 .. Len(A \o b) /\ i - m \in 1 .. Len(b)
            <7> HIDE DEF A, b, m, a
            <7> QED
              BY <1>4, <2>1, <3>1, <4>2
          <6> HIDE DEF A, N, V, b, m
          <6>2. t[i] = (A \o b)[i]
            BY <2>3, <3>1, <6>1
          <6>3. (A \o b)[i] = b[i - m]
            BY <2>1, <2>2, <2>4, <4>2, <6>1
          <6> QED
            BY <6>2, <6>3
        <5>2. s[i] = b[i - m]
          <6>1. i <= m + n /\ i - m <= Len(b)
            <7> HIDE DEF b, m, a, n
            <7> QED
              BY <1>1, <1>4, <2>1, <4>2
          <6>2. head + i - 1 \in Positions(slice[p])
            BY <1>7, <4>2, <6>1
          <6> HIDE DEF Contents, Padded
          <6> QED
            BY <1>6, <1>7, <6>1, <6>2
        <5> QED
          BY <5>1, <5>2
      <4>3. CASE m + Len(b) < i
        <5>1. t[i] = None
          <6>1. i \in Len(A \o b) + 1 .. Len(A \o b) + Len(N) /\ i - Len(A \o b) \in 1 .. Len(N)
            <7>1. i <= m + (tail - a)
              BY <2>1
            <7> HIDE DEF A, N, b, m, a
            <7> QED
              BY <1>4, <2>1, <2>3, <3>1, <4>3, <7>1
          <6>2. N[i - Len(A \o b)] = None
            BY <2>3, <6>1
          <6> HIDE DEF A, N, V, b, m
          <6>3. t[i] = N[i - Len(A \o b)]
            BY <2>3, <3>1, <6>1
          <6> QED
            BY <6>2, <6>3
        <5>2. s[i] \notin By(p)
          <6>1. i > m /\ ~(i - m <= Len(b))
            <7> HIDE DEF b, m
            <7> QED
              BY <1>4, <2>1, <4>3
          <6>2. CASE head + i - 1 \in Positions(slice[p])
            <7>1. s[i] = None
              BY <1>6, <1>7, <6>1, <6>2
            <7> QED
              BY <7>1, Whose
          <6>3. CASE head + i - 1 \notin Positions(slice[p])
            <7>1. s[i] = Contents[i]
              BY <1>6, <6>3
            <7> QED
              BY <2>5, <6>1, <7>1
          <6> QED
            BY <6>2, <6>3
        <5> QED
          BY <5>1, <5>2, Whose
      <4>4. i <= m \/ (m < i /\ i <= m + Len(b)) \/ m + Len(b) < i
        <5>1. i \in Nat
          OBVIOUS
        <5> HIDE DEF m, b
        <5> QED
          BY <1>4, <2>1, <5>1
      <4> QED
        BY <4>1, <4>2, <4>3, <4>4
    <3>4. Len(s) = tail - head /\ tail - head \in Nat
      BY <1>1, <1>5
    <3> HIDE DEF s, t, A, N, V, b
    <3>5. Only(s, By(p)) = Only(t, By(p))
      BY <3>2, <3>3, <3>4, OnlySame
    <3>6. Only(t, By(p)) = Only(A \o b, By(p)) \o Only(N, By(p))
      <4> DEFINE c == A \o b
      <4>1. c \in Seq(V) /\ N \in Seq(V) /\ t = c \o N
        BY <2>3, <3>1 DEF t
      <4> HIDE DEF c
      <4>2. Only(c \o N, By(p)) = Only(c, By(p)) \o Only(N, By(p))
        BY <4>1, OnlyConcat
      <4> QED
        BY <4>1, <4>2 DEF c
    <3>7. Only(A \o b, By(p)) = Only(A, By(p)) \o Only(b, By(p))
      BY <2>2, <2>4, OnlyConcat
    <3>8. Only(b, By(p)) = b
      BY <1>4, OnlyAll
    <3>9. Only(N, By(p)) = <<>>
      <4>1. \A i \in 1 .. Len(N) : N[i] \notin By(p)
        BY <2>3, Whose DEF N
      <4> QED
        BY <2>1, <2>3, <4>1, OnlyNone
    <3>10. Only(A \o b, By(p)) \in Seq(By(p))
      <4>1. Len(A \o b) \in Nat
        BY <1>4, <2>1, <3>1
      <4> QED
        BY <4>1, OnlyInSeq
    <3> QED
      BY <3>5, <3>6, <3>7, <3>8, <3>9, <3>10, ConcatEmptySeq DEF s
  <2> QED
    BY <2>6, <2>7
<1>10. ASSUME NEW q \in Producers PROVE Total(q)' = Total(q)
  <2>1. /\ Total(q) = Only(out, By(q)) \o (Only(Contents, By(q)) \o buf_local[q])
        /\ Total(q)' = Only(out, By(q)) \o (Only(Contents', By(q)) \o buf_local'[q])
    BY <1>2, <1>3 DEF Total, By
  <2>2. CASE q # p
    <3>1. buf_local'[q] = buf_local[q]
      BY <1>2, <2>2 DEF IndInv, TypeOK
    <3> QED
      BY <1>8, <2>1, <2>2, <3>1
  <2>3. CASE q = p
    <3>1. buf_local'[p] = <<>>
      BY <1>2 DEF IndInv, TypeOK
    <3>2. Only(Contents, By(p)) \in Seq(By(p))
      <4>1. Len(Contents) \in Nat
        BY <1>1, <1>5
      <4> QED
        BY <4>1, OnlyInSeq
    <3>3. Only(Contents, By(p)) \o b \in Seq(By(p))
      BY <1>4, <3>2, ConcatProperties
    <3>4. Only(Contents', By(p)) \o <<>> = Only(Contents, By(p)) \o b
      BY <1>9, <3>3, ConcatEmptySeq
    <3> QED
      BY <2>1, <2>3, <3>1, <3>4
  <2> QED
    BY <2>2, <2>3
<1> QED
  BY <1>10

\* A step of one producer keeps the invariant of the buffers if it keeps that of its own.
LEMMA OneBuf ==
  ASSUME BufInv, NEW p \in Producers, Buf(p)',
         \A q \in Producers \ {p} : UNCHANGED <<buf_local[q], ppc[q], slice[q]>>
  PROVE  BufInv'
BY DEF BufInv, Buf, By

\* Only its owner touches a producer's buffer, and it never takes more than the slice holds.
LEMMA BufStep ==
  ASSUME IndInv, IndInv', BufInv, [Next]_vars
  PROVE  BufInv'
<1> USE DEF IndInv, TypeOK, tailVars, mergeVars, countVars, aliveVars, producerVars, consumerVars,
            dropVars
<1>e. ASSUME NEW p \in Producers, NEW e \in Elements, e[1] = p, buf_local[p] \in Seq(By(p))
      PROVE  /\ Append(buf_local[p], e) \in Seq(By(p))
             /\ Len(Append(buf_local[p], e)) = Len(buf_local[p]) + 1
  <2>1. e \in By(p)
    BY <1>e DEF Elements, By
  <2> QED
    BY <1>e, <2>1, AppendProperties
<1>len. \A p \in Producers : Len(buf_local[p]) \in Nat /\ slice[p][2] \in Nat
  <2> SUFFICES ASSUME NEW p \in Producers PROVE Len(buf_local[p]) \in Nat /\ slice[p][2] \in Nat
    OBVIOUS
  <2>1. buf_local[p] \in Seq(Elements) /\ slice[p] \in Nat \X (0 .. Cap)
    OBVIOUS
  <2> QED
    BY <2>1, CapAssumption
<1>add. ASSUME NEW p \in Producers, slice'[p] = slice[p], Len(buf_local[p]) < slice[p][2],
               Len(buf_local'[p]) = Len(buf_local[p]) + 1,
               ppc'[p] = IF Len(buf_local[p]) + 1 = slice[p][2] THEN "store" ELSE "idle"
        PROVE  /\ Len(buf_local'[p]) <= slice'[p][2]
               /\ ppc'[p] = "idle" => Len(buf_local'[p]) < slice'[p][2]
  <2> DEFINE k == Len(buf_local[p])
             c == slice[p][2]
  <2>1. k \in Nat /\ c \in Nat /\ k < c
    BY <1>len, <1>add
  <2>2. Len(buf_local'[p]) = k + 1 /\ slice'[p][2] = c
    BY <1>add
  <2>3. ppc'[p] = "idle" => k + 1 # c
    BY <1>add
  <2> HIDE DEF k, c, IndInv, TypeOK
  <2> QED
    BY <2>1, <2>2, <2>3
<1>1. ASSUME NEW p \in Producers, SendLocal(p) PROVE BufInv'
  <2>1. \A q \in Producers \ {p} : UNCHANGED <<buf_local[q], ppc[q], slice[q]>>
    BY <1>1 DEF SendLocal, Push
  <2>2. <<p, made'[p]>> \in Elements
    <3>1. made'[p] = made[p] + 1 /\ made[p] + 1 \in 1 .. MaxSend
      BY <1>1, MaxSendAssumption DEF SendLocal
    <3> QED
      BY <3>1 DEF Elements
  <2>3. buf_local'[p] = Append(buf_local[p], <<p, made'[p]>>) /\ slice'[p] = slice[p]
    BY <1>1 DEF SendLocal, Push
  <2>4. ppc'[p] = IF Len(buf_local[p]) + 1 = slice[p][2] THEN "store" ELSE "idle"
    BY <1>1 DEF SendLocal, Push
  <2>5. /\ slice[p] # NoSlice /\ buf_local[p] \in Seq(By(p))
        /\ Len(buf_local[p]) < slice[p][2]
    BY <1>1 DEF SendLocal, BufInv, Buf
  <2>6. buf_local'[p] \in Seq(By(p)) /\ Len(buf_local'[p]) = Len(buf_local[p]) + 1
    BY <1>e, <2>2, <2>3, <2>5
  <2>7. (buf_local[p] \in Seq(By(p)))'
    BY <2>6 DEF By
  <2>8. ppc'[p] \in {"idle", "store"}
    BY <2>4
  <2>9. Len(buf_local'[p]) <= slice'[p][2] /\ (ppc'[p] = "idle" => Len(buf_local'[p]) < slice'[p][2])
    BY <1>add, <2>3, <2>4, <2>5, <2>6
  <2>10. Buf(p)'
    BY <2>3, <2>5, <2>7, <2>8, <2>9 DEF Buf
  <2> QED
    BY <2>1, <2>10, OneBuf
<1>2. ASSUME NEW p \in Producers, ApplyTake(p) PROVE BufInv'
  <2>1. \A q \in Producers \ {p} : UNCHANGED <<buf_local[q], ppc[q], slice[q]>>
    BY <1>2 DEF ApplyTake, Push
  <2>2. <<p, made[p]>> \in Elements
    <3>1. made[p] \in 1 .. MaxSend
      BY <1>2, MaxSendAssumption DEF ApplyTake, PlaceInv, Place
    <3> QED
      BY <3>1 DEF Elements
  <2>3. buf_local'[p] = Append(buf_local[p], <<p, made[p]>>) /\ slice'[p] = slice[p]
    BY <1>2 DEF ApplyTake, Push
  <2>4. ppc'[p] = IF Len(buf_local[p]) + 1 = slice[p][2] THEN "store" ELSE "idle"
    BY <1>2 DEF ApplyTake, Push
  <2>5. buf_local[p] \in Seq(By(p)) /\ buf_local[p] = <<>>
    BY <1>2 DEF ApplyTake, BufInv, Buf
  <2>6. slice[p] # NoSlice /\ slice[p][2] > 0
    BY <1>2 DEF ApplyTake, PlaceInv, Place, TileInv, Out, Inside
  <2>7. buf_local'[p] \in Seq(By(p)) /\ Len(buf_local'[p]) = Len(buf_local[p]) + 1
    BY <1>e, <2>2, <2>3, <2>5
  <2>8. (buf_local[p] \in Seq(By(p)))'
    BY <2>7 DEF By
  <2>9. ppc'[p] \in {"idle", "store"}
    BY <2>4
  <2>10. Len(buf_local'[p]) <= slice'[p][2] /\ (ppc'[p] = "idle" => Len(buf_local'[p]) < slice'[p][2])
    <3>1. Len(buf_local[p]) = 0 /\ slice[p][2] \in Nat
      BY <1>len, <2>5
    <3>2. Len(buf_local[p]) < slice[p][2]
      BY <2>6, <3>1
    <3> QED
      BY <1>add, <2>3, <2>4, <2>7, <3>2
  <2>11. Buf(p)'
    BY <2>3, <2>6, <2>8, <2>9, <2>10 DEF Buf
  <2> QED
    BY <2>1, <2>11, OneBuf
<1>3. ASSUME NEW p \in Producers,
             \/ SendCall(p) \/ ApplyLock(p) \/ ApplyFree(p) \/ SendAlive(p) \/ ApplyReserve(p)
             \/ MergeCount(p) \/ MergeUncount(p) \/ DropProducer(p)
      PROVE  BufInv'
  <2>1. \A q \in Producers \ {p} : UNCHANGED <<buf_local[q], ppc[q], slice[q]>>
    BY <1>3 DEF SendCall, ApplyLock, ApplyFree, SendAlive, ApplyReserve, MergeCount, MergeUncount,
                DropProducer
  <2>2. buf_local'[p] = buf_local[p] /\ buf_local[p] = <<>>
    BY <1>3 DEF SendCall, ApplyLock, ApplyFree, SendAlive, ApplyReserve, MergeCount, MergeUncount,
                DropProducer, BufInv, Buf
  <2>3. ppc'[p] # "store" /\ (ppc'[p] = "idle" => slice'[p] = NoSlice)
    BY <1>3 DEF SendCall, ApplyLock, ApplyFree, SendAlive, ApplyReserve, MergeCount, MergeUncount,
                DropProducer, PlaceInv, Place
  <2>4. Buf(p)'
    BY <2>2, <2>3 DEF Buf
  <2> QED
    BY <2>1, <2>4, OneBuf
<1>4. ASSUME NEW p \in Producers, FlushCall(p) PROVE BufInv'
  <2>1. \A q \in Producers \ {p} : UNCHANGED <<buf_local[q], ppc[q], slice[q]>>
    BY <1>4 DEF FlushCall
  <2>2. buf_local'[p] = buf_local[p] /\ slice'[p] = slice[p] /\ ppc'[p] = "store"
    BY <1>4 DEF FlushCall
  <2>3. buf_local[p] \in Seq(By(p)) /\ slice[p] # NoSlice /\ Len(buf_local[p]) < slice[p][2]
    BY <1>4 DEF FlushCall, BufInv, Buf
  <2>4. (buf_local[p] \in Seq(By(p)))'
    BY <2>2, <2>3 DEF By
  <2>5. Len(buf_local'[p]) <= slice'[p][2]
    <3> DEFINE k == Len(buf_local[p])
               c == slice[p][2]
    <3>1. k \in Nat /\ c \in Nat /\ k < c
      BY <1>len, <2>3
    <3>2. Len(buf_local'[p]) = k /\ slice'[p][2] = c
      BY <2>2
    <3> HIDE DEF k, c, IndInv, TypeOK
    <3> QED
      BY <3>1, <3>2
  <2>6. Buf(p)'
    BY <2>2, <2>3, <2>4, <2>5 DEF Buf
  <2> QED
    BY <2>1, <2>6, OneBuf
<1>5. ASSUME NEW p \in Producers, FlushStore(p) PROVE BufInv'
  <2>1. \A q \in Producers \ {p} : UNCHANGED <<buf_local[q], ppc[q], slice[q]>>
    BY <1>5 DEF FlushStore
  <2>2. buf_local'[p] = <<>> /\ ppc'[p] = "merge"
    BY <1>5 DEF FlushStore
  <2>3. Buf(p)'
    BY <2>2 DEF Buf
  <2> QED
    BY <2>1, <2>3, OneBuf
<1>6. ASSUME NEW p \in Producers, Merge(p) PROVE BufInv'
  <2>1. \A q \in Producers \ {p} : UNCHANGED <<buf_local[q], ppc[q], slice[q]>>
    BY <1>6 DEF Merge, Leave
  <2>2. buf_local'[p] = buf_local[p] /\ buf_local[p] = <<>>
    BY <1>6 DEF Merge, BufInv, Buf
  <2>3. ppc'[p] # "store" /\ (ppc'[p] = "idle" => slice'[p] = NoSlice)
    BY <1>6 DEF Merge, Leave
  <2>4. Buf(p)'
    BY <2>2, <2>3 DEF Buf
  <2> QED
    BY <2>1, <2>4, OneBuf
<1>7. ASSUME NEW p \in Producers, NEW q \in Producers, Clone(p, q) PROVE BufInv'
  <2>1. \A r \in Producers \ {q} : UNCHANGED <<buf_local[r], ppc[r], slice[r]>>
    BY <1>7 DEF Clone
  <2>2. buf_local'[q] = buf_local[q] /\ buf_local[q] = <<>>
    BY <1>7 DEF Clone, BufInv, Buf
  <2>3. ppc'[q] = "idle" /\ slice'[q] = NoSlice
    BY <1>7 DEF Clone, PlaceInv, Place
  <2>4. Buf(q)'
    BY <2>2, <2>3 DEF Buf
  <2> QED
    BY <2>1, <2>4, OneBuf
<1>8. CASE Consumer \/ DropRing \/ UNCHANGED vars
  <2>1. UNCHANGED <<buf_local, ppc, slice>>
    BY <1>8 DEF Consumer, RecvCall, RecvEmpty, RecvExist, RecvRecheck, RecvReserved, RecvLoad,
                RecvUnlen, RecvUnfree, DropConsumer, DropRing, vars
  <2> QED
    BY <2>1 DEF BufInv, Buf, By
<1> HIDE DEF IndInv, TypeOK
<1> QED
  BY <1>1, <1>2, <1>3, <1>4, <1>5, <1>6, <1>7, <1>8 DEF Next, Producer, Terminated

\* A step that hands nothing back and builds nothing.
LEMMA SameReject ==
  ASSUME RejectInv, UNCHANGED <<rejected, made>>, \A q \in Producers : Sending(q)' => Sending(q)
  PROVE  RejectInv'
BY DEF RejectInv

\* What is handed back was built before, and no longer being sent.
LEMMA RejectStep ==
  ASSUME IndInv, IndInv', RejectInv, [Next]_vars
  PROVE  RejectInv'
<1> USE DEF IndInv, TypeOK, tailVars, mergeVars, countVars, aliveVars, producerVars, consumerVars,
            dropVars
<1>rej. \A e \in rejected : e[1] \in Producers /\ e[2] \in Nat /\ e[2] <= made[e[1]]
  <2>1. rejected \subseteq Elements /\ \A e \in rejected : e[2] <= made[e[1]]
    BY DEF RejectInv
  <2> HIDE DEF IndInv, TypeOK
  <2> QED
    BY <2>1, MaxSendAssumption DEF Elements
<1>1. ASSUME NEW p \in Producers, SendLocal(p) \/ SendCall(p) PROVE RejectInv'
  <2>1. /\ made' = [made EXCEPT ![p] = made[p] + 1] /\ rejected' = rejected
        /\ \A q \in Producers : q # p /\ Sending(q)' => Sending(q)
    BY <1>1 DEF SendLocal, SendCall, Push, Sending
  <2>2. /\ \A q \in Producers : made[q] \in Nat
        /\ made'[p] = made[p] + 1 /\ \A q \in Producers \ {p} : made'[q] = made[q]
    BY <2>1, MaxSendAssumption
  <2>4. \A e \in rejected' : e[2] <= made'[e[1]]
    <3> HIDE DEF IndInv, TypeOK
    <3> SUFFICES ASSUME NEW e \in rejected' PROVE e[2] <= made'[e[1]]
      OBVIOUS
    <3>1. e[1] \in Producers /\ e[2] \in Nat /\ e[2] <= made[e[1]] /\ made[e[1]] \in Nat
      BY <1>rej, <2>1, <2>2
    <3>2. made'[e[1]] = made[e[1]] \/ made'[e[1]] = made[e[1]] + 1
      BY <2>2, <3>1
    <3> QED
      BY <3>1, <3>2
  <2>5. <<p, made'[p]>> \notin rejected
    <3> SUFFICES ASSUME <<p, made'[p]>> \in rejected PROVE FALSE
      OBVIOUS
    <3> HIDE DEF IndInv, TypeOK
    <3>1. made'[p] <= made[p]
      BY <1>rej
    <3>2. made[p] \in Nat /\ made'[p] = made[p] + 1
      BY <2>2
    <3> QED
      BY <3>1, <3>2
  <2>6. \A q \in Producers : Sending(q)' => <<q, made'[q]>> \notin rejected'
    BY <2>1, <2>2, <2>5 DEF RejectInv
  <2> QED
    BY <2>4, <2>6 DEF RejectInv
<1>2. ASSUME NEW p \in Producers, SendAlive(p) PROVE RejectInv'
  <2>1. CASE rejected' = rejected
    BY <1>2, <2>1, SameReject DEF SendAlive, Sending
  <2>2. CASE rejected' = rejected \cup {<<p, made[p]>>} /\ ppc' = [ppc EXCEPT ![p] = "idle"]
    <3>1. made' = made /\ made[p] \in Nat
      BY <1>2, MaxSendAssumption DEF SendAlive
    <3>2. \A e \in rejected' : e[2] <= made'[e[1]]
      <4> HIDE DEF IndInv, TypeOK
      <4> SUFFICES ASSUME NEW e \in rejected' PROVE e[2] <= made[e[1]]
        BY <3>1
      <4>1. CASE e \in rejected
        BY <1>rej, <4>1
      <4>2. CASE e = <<p, made[p]>>
        BY <3>1, <4>2
      <4> QED
        BY <2>2, <4>1, <4>2
    <3>3. \A q \in Producers : Sending(q)' => q # p /\ Sending(q)
      BY <2>2 DEF Sending
    <3> QED
      BY <2>2, <3>1, <3>2, <3>3 DEF RejectInv
  <2> QED
    BY <1>2, <2>1, <2>2 DEF SendAlive
<1>3. ASSUME NEW p \in Producers,
             \/ ApplyLock(p) \/ ApplyFree(p) \/ ApplyReserve(p) \/ ApplyTake(p) \/ FlushCall(p)
             \/ FlushStore(p) \/ Merge(p) \/ MergeCount(p) \/ MergeUncount(p) \/ DropProducer(p)
             \/ \E q \in Producers : Clone(p, q)
      PROVE  RejectInv'
  <2>1. UNCHANGED <<rejected, made>>
    BY <1>3 DEF ApplyLock, ApplyFree, ApplyReserve, ApplyTake, FlushCall, FlushStore, Merge,
                MergeCount, MergeUncount, DropProducer, Clone
  <2>2. \A q \in Producers : Sending(q)' => Sending(q)
    <3>0. ppc \in [Producers -> PCs]
      OBVIOUS
    <3> HIDE DEF IndInv, TypeOK
    <3>1. CASE ApplyLock(p) \/ ApplyFree(p) \/ ApplyReserve(p) \/ ApplyTake(p)
      BY <3>0, <3>1 DEF ApplyLock, ApplyFree, ApplyReserve, ApplyTake, Push, Sending
    <3>2. CASE \/ FlushCall(p) \/ FlushStore(p) \/ MergeCount(p) \/ MergeUncount(p)
               \/ DropProducer(p) \/ \E q \in Producers : Clone(p, q)
      BY <3>0, <3>2 DEF FlushCall, FlushStore, MergeCount, MergeUncount, DropProducer, Clone,
                        Sending
    <3>3. CASE Merge(p)
      BY <3>0, <3>3 DEF Merge, Leave, Sending
    <3> QED
      BY <1>3, <3>1, <3>2, <3>3
  <2> QED
    BY <2>1, <2>2, SameReject
<1>4. CASE Consumer \/ DropRing \/ UNCHANGED vars
  <2>1. UNCHANGED <<rejected, made, ppc>>
    BY <1>4 DEF Consumer, RecvCall, RecvEmpty, RecvExist, RecvRecheck, RecvReserved, RecvLoad,
                RecvUnlen, RecvUnfree, DropConsumer, DropRing, vars
  <2> QED
    BY <2>1, SameReject DEF Sending
<1> HIDE DEF IndInv, TypeOK
<1> QED
  BY <1>1, <1>2, <1>3, <1>4 DEF Next, Producer, Terminated

\* While anybody is left so is the ring.
LEMMA GoneStep ==
  ASSUME IndInv, GoneInv, [Next]_vars
  PROVE  GoneInv'
<1> USE DEF tailVars, mergeVars, countVars, aliveVars, producerVars, consumerVars, dropVars
<1>1. ASSUME NEW p \in Producers, Producer(p) PROVE ring /\ ring' = ring
  <2>1. Live(p)
    BY <1>1 DEF Producer, SendLocal, SendCall, ApplyLock, ApplyFree, SendAlive, ApplyReserve,
                ApplyTake, FlushCall, FlushStore, Merge, MergeCount, MergeUncount, DropProducer,
                Clone, Live
  <2>2. ring' = ring
    BY <1>1 DEF Producer, SendLocal, SendCall, ApplyLock, ApplyFree, SendAlive, ApplyReserve,
                ApplyTake, FlushCall, FlushStore, Merge, MergeCount, MergeUncount, DropProducer,
                Clone
  <2> QED
    BY <2>1, <2>2 DEF GoneInv
<1>2. ASSUME Consumer PROVE ring /\ ring' = ring
  BY <1>2 DEF GoneInv, Consumer, RecvCall, RecvEmpty, RecvExist, RecvRecheck, RecvReserved, RecvLoad,
              RecvUnlen, RecvUnfree, DropConsumer
<1>3. CASE DropRing \/ UNCHANGED vars
  BY <1>3 DEF GoneInv, DropRing, Live, vars
<1> QED
  BY <1>1, <1>2, <1>3 DEF Next, Terminated, GoneInv

\* What the owner of a producer, and the consumer, do without handing a slice in or releasing a
\* position.
Quiet(p) ==
  \/ SendLocal(p) \/ SendCall(p) \/ ApplyLock(p) \/ ApplyFree(p) \/ SendAlive(p) \/ ApplyTake(p)
  \/ FlushCall(p) \/ MergeCount(p) \/ MergeUncount(p) \/ DropProducer(p)
  \/ \E q \in Producers : Clone(p, q)

QuietConsumer ==
  \/ RecvCall \/ RecvEmpty \/ RecvExist \/ RecvRecheck \/ RecvReserved
  \/ RecvUnlen \/ RecvUnfree \/ DropConsumer \/ UNCHANGED vars

\* A quiet step of a producer leaves what is written and what the ring holds.
LEMMA QuietWritten ==
  ASSUME IndInv, NEW p \in Producers, Quiet(p)
  PROVE  /\ Written' = Written /\ Contents' = Contents
         /\ UNCHANGED <<head, tail, slot, out, ring, freed>>
         /\ \A r \in Producers : Held(r)' => Held(r) /\ slice'[r] = slice[r]
<1> USE DEF IndInv, TypeOK, tailVars, mergeVars, countVars, aliveVars, producerVars, consumerVars,
            dropVars
<1>1. UNCHANGED <<head, tail, readable_till, filled_slices, slot, out, ring, freed>>
  BY DEF Quiet, SendLocal, SendCall, ApplyLock, ApplyFree, SendAlive, ApplyTake, FlushCall,
         MergeCount, MergeUncount, DropProducer, Clone
<1>2. \A r \in Producers :
        /\ (ppc'[r] = "merge" /\ slice'[r] # NoSlice) <=> (ppc[r] = "merge" /\ slice[r] # NoSlice)
        /\ ppc[r] = "merge" /\ slice[r] # NoSlice => slice'[r] = slice[r]
  BY DEF Quiet, SendLocal, SendCall, ApplyLock, ApplyFree, SendAlive, ApplyTake, FlushCall,
         MergeCount, MergeUncount, DropProducer, Clone, Push
<1>3. \A r \in Producers : Held(r)' => Held(r) /\ slice'[r] = slice[r]
  BY DEF Quiet, SendLocal, SendCall, ApplyLock, ApplyFree, SendAlive, ApplyTake, FlushCall,
         MergeCount, MergeUncount, DropProducer, Clone, Push, Held, PlaceInv, Place
<1> HIDE DEF IndInv, TypeOK
<1>4. Written' = Written
  BY <1>1, <1>2, SameWritten
<1> QED
  BY <1>1, <1>3, <1>4, SameContents

\* So does a quiet step of the consumer.
LEMMA QuietConsumerWritten ==
  ASSUME QuietConsumer
  PROVE  /\ Written' = Written /\ Contents' = Contents
         /\ UNCHANGED <<head, tail, slot, producerVars, out, ring, freed>>
<1>1. UNCHANGED <<head, tail, slot, readable_till, filled_slices, producerVars, out, ring, freed>>
  BY DEF QuietConsumer, RecvCall, RecvEmpty, RecvExist, RecvRecheck, RecvReserved, RecvUnlen,
         RecvUnfree, DropConsumer, vars, tailVars, mergeVars, consumerVars, dropVars
<1>2. Written' = Written
  BY <1>1, SameWritten DEF producerVars
<1> QED
  BY <1>1, <1>2, SameContents

\* A slice is taken at the end of the ring: what lies there is not written.
LEMMA ReserveWritten ==
  ASSUME IndInv, NEW p \in Producers, ApplyReserve(p)
  PROVE  /\ Written' = Written
         /\ slice[p][1] = tail /\ slice[p][2] \in Nat /\ tail' = tail + slice[p][2]
         /\ UNCHANGED <<head, slot, slice, out, ring, freed>>
<1> USE DEF IndInv, TypeOK, tailVars, mergeVars, countVars, aliveVars, producerVars, consumerVars,
            dropVars
<1>1. /\ UNCHANGED <<head, readable_till, filled_slices, slot, slice, out, ring, freed>>
      /\ tail' = tail + slice[p][2]
  BY DEF ApplyReserve
<1>2. \A r \in Producers :
        /\ (ppc'[r] = "merge" /\ slice'[r] # NoSlice) <=> (ppc[r] = "merge" /\ slice[r] # NoSlice)
        /\ ppc[r] = "merge" /\ slice[r] # NoSlice => slice'[r] = slice[r]
  BY DEF ApplyReserve
<1>3. slice[p][1] = tail
  BY DEF ApplyReserve, PlaceInv, Place
<1>4. slice[p][2] \in Nat
  <2>1. slice[p] \in Nat \X (0 .. Cap)
    OBVIOUS
  <2> QED
    BY <2>1, CapAssumption
<1> HIDE DEF IndInv, TypeOK
<1> QED
  BY <1>1, <1>2, <1>3, <1>4, SameWritten

\* Handing a slice in and taking a ready one out moves positions from what waits to what is readable.
LEMMA MergeWritten ==
  ASSUME IndInv, NEW p \in Producers, Merge(p)
  PROVE  /\ Written' = Written /\ Contents' = Contents
         /\ UNCHANGED <<head, tail, slot, buf_local, made, rejected, out, ring, freed>>
         /\ \A r \in Producers : /\ Held(r)' => Held(r) /\ slice'[r] = slice[r]
                                 /\ Sending(r)' <=> Sending(r)
<1>1. UNCHANGED <<head, tail, slot, buf_local, made, rejected, out, ring, freed>>
  BY DEF Merge, tailVars, consumerVars, dropVars
<1>2. ppc[p] = "merge" /\ ppc \in [Producers -> PCs] /\ slice \in [Producers -> Nat \X (0 .. Cap)]
  BY DEF Merge, IndInv, TypeOK
<1> DEFINE others == {q \in Producers : q # p /\ ppc[q] = "merge" /\ slice[q] # NoSlice}
           W == {slice[q] : q \in others}
<1>3. Waiting = Handed(p) \cup W
  BY <1>2 DEF Waiting, Handed
<1>4. Written = (head .. readable_till - 1) \cup UNION {Positions(s) : s \in Handed(p) \cup W}
  BY <1>3 DEF Written
<1>5. CASE \E s \in Handed(p) :
             /\ s[1] = readable_till /\ readable_till' = readable_till + s[2]
             /\ slice' = [slice EXCEPT ![p] = s] /\ ppc' = [ppc EXCEPT ![p] = "count"]
             /\ filled_slices' = Handed(p) \ {s}
  <2>1. PICK s \in Handed(p) :
             /\ s[1] = readable_till /\ readable_till' = readable_till + s[2]
             /\ slice' = [slice EXCEPT ![p] = s] /\ ppc' = [ppc EXCEPT ![p] = "count"]
             /\ filled_slices' = Handed(p) \ {s}
    BY <1>5
  <2>2. /\ ppc'[p] = "count"
        /\ \A q \in Producers \ {p} : ppc'[q] = ppc[q] /\ slice'[q] = slice[q]
    BY <1>2, <2>1
  <2>3. Waiting' = (Handed(p) \ {s}) \cup W
    <3>1. {q \in Producers : ppc'[q] = "merge" /\ slice'[q] # NoSlice} = others
      BY <2>2
    <3>2. \A q \in others : slice'[q] = slice[q]
      BY <2>2
    <3>3. Waiting' = (Handed(p) \ {s}) \cup {slice'[q] : q \in others}
      BY <2>1, <3>1 DEF Waiting
    <3> HIDE DEF others
    <3> QED
      BY <3>2, <3>3
  <2>4. Positions(s) \cup (head .. readable_till - 1) = head .. readable_till' - 1
    <3>1. /\ head \in Nat /\ readable_till \in Nat /\ head <= readable_till
      BY IndicesInOrder DEF IndInv, TypeOK
    <3>2. s[2] \in Nat
      <4>1. s \in Nat \X (1 .. Cap)
        BY <1>2, HandedTile
      <4> QED
        BY <4>1, CapAssumption
    <3> QED
      BY <2>1, <3>1, <3>2 DEF Positions
  <2>5. Written' = (head .. readable_till' - 1) \cup
                     UNION {Positions(t) : t \in (Handed(p) \ {s}) \cup W}
    BY <1>1, <2>3 DEF Written, Positions
  <2>6. Written' = Written
    <3> HIDE DEF W
    <3>1. UNION {Positions(t) : t \in Handed(p) \cup W} =
            Positions(s) \cup UNION {Positions(t) : t \in (Handed(p) \ {s}) \cup W}
      BY <2>1
    <3> QED
      BY <1>4, <2>4, <2>5, <3>1
  <2>7. \A r \in Producers : /\ Held(r)' => Held(r) /\ slice'[r] = slice[r]
                             /\ Sending(r)' <=> Sending(r)
    BY <1>2, <2>2 DEF Held, Sending
  <2> QED
    BY <1>1, <2>6, <2>7, SameContents
<1>6. CASE /\ slice' = [slice EXCEPT ![p] = NoSlice] /\ filled_slices' = Handed(p)
           /\ ppc' = [ppc EXCEPT ![p] = IF closing[p] THEN "dropped" ELSE "idle"]
           /\ readable_till' = readable_till
  <2>1. /\ ppc'[p] \in {"dropped", "idle"} /\ slice'[p] = NoSlice
        /\ \A q \in Producers \ {p} : ppc'[q] = ppc[q] /\ slice'[q] = slice[q]
    BY <1>2, <1>6
  <2>2. Waiting' = Handed(p) \cup W
    <3>1. {q \in Producers : ppc'[q] = "merge" /\ slice'[q] # NoSlice} = others
      BY <2>1
    <3>2. \A q \in others : slice'[q] = slice[q]
      BY <2>1
    <3>3. Waiting' = Handed(p) \cup {slice'[q] : q \in others}
      BY <1>6, <3>1 DEF Waiting
    <3> HIDE DEF others
    <3> QED
      BY <3>2, <3>3
  <2>3. Written' = Written
    BY <1>1, <1>4, <1>6, <2>2 DEF Written, Positions
  <2>4. \A r \in Producers : /\ Held(r)' => Held(r) /\ slice'[r] = slice[r]
                             /\ Sending(r)' <=> Sending(r)
    BY <1>2, <2>1 DEF Held, Sending
  <2> QED
    BY <1>1, <2>3, <2>4, SameContents
<1> QED
  BY <1>5, <1>6 DEF Merge, Leave, Handed

\* The consumer releases the first position, which is written, and nothing else.
LEMMA LoadWritten ==
  ASSUME IndInv, RecvLoad
  PROVE  /\ head \in Written /\ head < tail
         /\ Written' = Written \ {head}
         /\ Contents = <<slot[Index(head)]>> \o Contents'
         /\ slot[Index(head)] \in Elements \cup {None}
         /\ Contents' \in Seq(Elements \cup {None})
         /\ UNCHANGED <<tail, slot, producerVars, ring, freed>>
<1>1. /\ head' = head + 1 /\ cpc = "load"
      /\ UNCHANGED <<tail, readable_till, filled_slices, slot, producerVars, ring, freed>>
  BY DEF RecvLoad, tailVars, mergeVars, dropVars
<1>2. /\ head \in Nat /\ readable_till \in Nat /\ tail \in Nat
      /\ head < readable_till /\ readable_till <= tail
  BY <1>1, LoadReads, IndicesInOrder DEF IndInv, TypeOK
<1>3. Waiting' = Waiting
  BY <1>1 DEF Waiting, producerVars
<1>4. \A s \in Waiting : head \notin Positions(s)
  <2> SUFFICES ASSUME NEW s \in Waiting PROVE head \notin Positions(s)
    OBVIOUS
  <2>1. s \in filled_slices \/ \E q \in Producers : Out(q) /\ s = slice[q]
    BY DEF Waiting, Out
  <2>2. Inside(s) /\ s[1] \in Nat
    BY <2>1 DEF IndInv, TypeOK, TileInv
  <2> QED
    BY <1>2, <2>2 DEF Inside, Positions
<1>5. head .. readable_till - 1 = (head + 1 .. readable_till - 1) \cup {head}
  BY <1>2
<1>6. head \in Written /\ Written' = Written \ {head}
  <2>1. Written' = (head + 1 .. readable_till - 1) \cup UNION {Positions(s) : s \in Waiting}
    BY <1>1, <1>3 DEF Written, Positions
  <2>2. head \notin head + 1 .. readable_till - 1
    BY <1>2
  <2> QED
    BY <1>4, <1>5, <2>1, <2>2 DEF Written
<1> DEFINE x == slot[Index(head)]
           V == Elements \cup {None}
           N == tail - head
           c == [i \in 1 .. N - 1 |-> Contents[i + 1]]
<1>7. Contents \in Seq(V) /\ Len(Contents) = N /\ N \in Nat /\ N > 0
  BY <1>2, ContentsType
<1>8. Contents[1] = x /\ x \in V
  <2>1. 1 \in 1 .. tail - head /\ head + 1 - 1 = head
    BY <1>2
  <2>2. Contents[1] = x
    BY <1>6, <2>1 DEF Contents
  <2> HIDE DEF x, V, N
  <2> QED
    BY <1>7, <2>2
<1>9. Contents' = c
  <2>1. Contents' = [i \in 1 .. tail - (head + 1) |->
                       IF (head + 1) + i - 1 \in Written' THEN slot[Index((head + 1) + i - 1)] ELSE None]
    BY <1>1 DEF Contents, Index
  <2>2. tail - (head + 1) = N - 1
    BY <1>2
  <2>3. ASSUME NEW i \in 1 .. N - 1
        PROVE  Contents[i + 1] =
                 IF (head + 1) + i - 1 \in Written' THEN slot[Index((head + 1) + i - 1)] ELSE None
    <3>1. i + 1 \in 1 .. tail - head /\ head + (i + 1) - 1 = (head + 1) + i - 1
      BY <1>2
    <3>2. (head + 1) + i - 1 # head
      BY <1>2
    <3>3. Contents[i + 1] = IF head + (i + 1) - 1 \in Written
                            THEN slot[Index(head + (i + 1) - 1)] ELSE None
      BY <3>1 DEF Contents
    <3> HIDE DEF Contents, Index
    <3> QED
      BY <1>6, <3>1, <3>2, <3>3
  <2> HIDE DEF Contents, Index, N
  <2> QED
    BY <2>1, <2>2, <2>3
<1>10. c \in Seq(V) /\ Len(c) = N - 1 /\ \A i \in 1 .. N - 1 : c[i] = Contents[i + 1]
  <2> HIDE DEF V, N, Contents
  <2>1. \A i \in 1 .. N - 1 : Contents[i + 1] \in V
    BY <1>7
  <2> QED
    BY <1>7, <2>1
<1>11. Contents = <<x>> \o c
  <2> HIDE DEF x, c, V, N, Contents
  <2>1. <<x>> \in Seq(V) /\ Len(<<x>>) = 1
    BY <1>8
  <2>2. <<x>> \o c \in Seq(V) /\ Len(<<x>> \o c) = N
    BY <1>7, <1>10, <2>1, ConcatProperties
  <2>3. ASSUME NEW i \in 1 .. N PROVE (<<x>> \o c)[i] = Contents[i]
    <3>1. CASE i = 1
      BY <1>8, <1>10, <2>1, <3>1
    <3>2. CASE i # 1
      <4>1. i - 1 \in 1 .. N - 1 /\ (i - 1) + 1 = i
        BY <1>7, <3>2
      <4>2. (<<x>> \o c)[i] = c[i - 1]
        BY <1>7, <1>10, <2>1, <3>2, <4>1
      <4> QED
        BY <1>10, <4>1, <4>2
    <3> QED
      BY <3>1, <3>2
  <2> QED
    BY <1>7, <2>2, <2>3, SeqEqual
<1> QED
  BY <1>1, <1>2, <1>6, <1>8, <1>9, <1>10, <1>11

\* Nobody's elements get behind the slice it fills.
LEMMA OrderStep ==
  ASSUME IndInv, IndInv', FifoInv, [Next]_vars
  PROVE  OrderInv'
<1>0. OrderInv
  BY DEF FifoInv
<1>1. ASSUME NEW p \in Producers, Quiet(p) PROVE OrderInv'
  BY <1>0, <1>1, QuietWritten, SameOrder
<1>2. ASSUME NEW p \in Producers, ApplyReserve(p) PROVE OrderInv'
  <2>1. Written' = Written /\ slot' = slot /\ slice' = slice /\ slice[p][1] = tail
    BY <1>2, ReserveWritten
  <2>2. \A q \in Producers : q # p /\ Held(q)' => Held(q)
    BY <1>2 DEF ApplyReserve, Held
  <2>3. \A j \in Written : j < tail
    <3>1. Written \subseteq head .. tail - 1 /\ head \in Nat /\ tail \in Nat
      BY ContentsType DEF IndInv, TypeOK
    <3> QED
      BY <3>1
  <2> QED
    BY <1>0, <2>1, <2>2, <2>3 DEF OrderInv, Index, By
<1>3. ASSUME NEW p \in Producers, FlushStore(p) PROVE OrderInv'
  <2>1. \A q \in Producers : Held(q)' => q # p /\ Held(q) /\ slice'[q] = slice[q]
    BY <1>3 DEF FlushStore, Held, IndInv, TypeOK
  <2>2. Written' = Written \cup Positions(slice[p]) /\ Written' \subseteq head .. tail - 1
    <3>1. Written' = Written \cup Positions(slice[p])
      BY <1>3, StoreWrites
    <3>2. (IndInv => Written \subseteq head .. tail - 1)'
      BY ContentsType, PTL
    <3>3. head' = head /\ tail' = tail
      BY <1>3 DEF FlushStore, tailVars, consumerVars
    <3> QED
      BY <3>1, <3>2, <3>3
  <2>3. ASSUME NEW q \in Producers, q # p, Held(q), NEW j \in Written', slot'[Index(j)] \in By(q)
        PROVE  j \in Written /\ slot[Index(j)] \in By(q)
    <3>1. slot'[Index(j)] = IF j \in Positions(slice[p]) THEN Padded(p)[j - slice[p][1] + 1]
                                                         ELSE slot[Index(j)]
      BY <1>3, <2>2, <2>3, StoreSlots
    <3>2. ASSUME j \in Positions(slice[p]) PROVE slot'[Index(j)] \notin By(q)
      <4> DEFINE k == j - slice[p][1] + 1
                 b == buf_local[p]
      <4>1. k \in 1 .. slice[p][2]
        <5>1. slice[p][1] \in head .. tail /\ slice[p][2] \in Nat /\ head \in Nat
          BY <1>3, StoreWrites DEF IndInv, TypeOK
        <5>2. slice[p][1] \in Nat
          BY <5>1
        <5> QED
          BY <3>2, <5>1, <5>2 DEF Positions
      <4>2. Padded(p)[k] = IF k <= Len(b) THEN b[k] ELSE None
        BY <4>1 DEF Padded
      <4>3. b \in Seq(By(p)) /\ slice[p][2] \in Nat
        BY <1>3, StoreWrites DEF FifoInv, BufInv, Buf
      <4>4. Padded(p)[k] \in By(p) \/ Padded(p)[k] = None
        <5> HIDE DEF k, b
        <5> QED
          BY <4>1, <4>2, <4>3
      <4>5. slot'[Index(j)] = Padded(p)[k]
        BY <3>1, <3>2
      <4> QED
        BY <2>3, <4>4, <4>5, Whose
    <3> QED
      BY <2>2, <2>3, <3>1, <3>2
  <2>4. ASSUME NEW q \in Producers, Held(q)', NEW j \in Written', slot'[Index(j)] \in By(q)
        PROVE  j < slice'[q][1]
    BY <1>0, <2>1, <2>3, <2>4 DEF OrderInv
  <2> QED
    BY <2>4 DEF OrderInv, Index, By
<1>4. ASSUME NEW p \in Producers, Merge(p) PROVE OrderInv'
  BY <1>0, <1>4, MergeWritten, SameOrder
<1>5. CASE QuietConsumer
  BY <1>0, <1>5, QuietConsumerWritten, SameOrder DEF producerVars, Held
<1>6. CASE RecvLoad
  BY <1>0, <1>6, LoadWritten, SameOrder DEF producerVars, Held
<1>7. CASE DropRing
  <2>1. UNCHANGED <<head, tail, slot, readable_till, filled_slices, producerVars>>
    BY <1>7 DEF DropRing, tailVars, mergeVars, consumerVars
  <2>2. Written' = Written
    BY <2>1, SameWritten DEF producerVars
  <2> QED
    BY <1>0, <2>1, <2>2, SameOrder DEF producerVars, Held
<1> QED
  BY <1>1, <1>2, <1>3, <1>4, <1>5, <1>6, <1>7
  DEF Next, Producer, Consumer, Terminated, Quiet, QuietConsumer

\* PerProducerFifo in the words of Total and Due, now and after a step.
LEMMA FifoMeans ==
  PerProducerFifo <=> \A p \in Producers : Total(p) = Due(p)
BY DEF PerProducerFifo, Total, Due

\* The same after a step.
LEMMA FifoNext ==
  ASSUME \A p \in Producers : Total(p)' = Due(p)'
  PROVE  PerProducerFifo'
<1>1. (PerProducerFifo <=> \A p \in Producers : Total(p) = Due(p))'
  BY FifoMeans, PTL
<1> QED
  BY <1>1

\* Somebody who has not built or been handed back anything, whose elements are where they were.
LEMMA SameFifo ==
  ASSUME NEW p \in Producers, Total(p) = Due(p), Contents' = Contents,
         UNCHANGED <<out, ring, freed, rejected>>,
         buf_local'[p] = buf_local[p], made'[p] = made[p], Sending(p)' <=> Sending(p)
  PROVE  Total(p)' = Due(p)'
BY SameTotal, SameDue

\* What p built, to the last.
LEMMA SentIsUpto ==
  ASSUME NEW p \in Producers
  PROVE  /\ Sent(p) = SentUpto(p, made[p], rejected)
         /\ Sent(p)' = SentUpto(p, made'[p], rejected')
<1>1. Sent(p) = SentUpto(p, made[p], rejected)
  BY DEF Sent, SentUpto
<1>2. Sent(p)' = SentUpto(p, made'[p], rejected')
  BY DEF Sent, SentUpto, Elements
<1> QED
  BY <1>1, <1>2

\* What was handed back is not among what was sent.
LEMMA SentSkips ==
  ASSUME NEW p \in Producers, NEW n \in Nat, NEW back, <<p, n + 1>> \in back
  PROVE  SentUpto(p, n + 1, back) = SentUpto(p, n, back)
<1> DEFINE s == [k \in 1 .. n |-> <<p, k>>]
           t == [k \in 1 .. n + 1 |-> <<p, k>>]
           x == <<p, n + 1>>
           V == Producers \X Nat
           R == Elements \ back
<1>1. s \in Seq(V) /\ Len(s) = n
  OBVIOUS
<1>2. t = Append(s, x)
  <2>1. Append(s, x) \in Seq(V) /\ Len(Append(s, x)) = n + 1
    BY <1>1
  <2>2. t \in Seq(V) /\ Len(t) = n + 1
    OBVIOUS
  <2>3. ASSUME NEW k \in 1 .. n + 1 PROVE Append(s, x)[k] = t[k]
    OBVIOUS
  <2> HIDE DEF s, t, x, V
  <2> QED
    BY <2>1, <2>2, <2>3, SeqEqual
<1>3. x \notin R
  OBVIOUS
<1> HIDE DEF s, t, x, V, R
<1>4. Only(Append(s, x), R) = IF x \in R THEN Append(Only(s, R), x) ELSE Only(s, R)
  BY <1>1, OnlyAppend
<1>5. Only(t, R) = Only(s, R)
  BY <1>2, <1>3, <1>4
<1> QED
  BY <1>5 DEF SentUpto, s, t, R

\* The last element p built is the last it was told to send, while it sends it.
LEMMA LastSent ==
  ASSUME TypeOK, RejectInv, NEW p \in Producers, Sending(p), made[p] > 0
  PROVE  /\ made[p] \in Nat /\ made[p] - 1 \in Nat
         /\ SentUpto(p, made[p] - 1, rejected) \in Seq(Elements)
         /\ Sent(p) = Append(SentUpto(p, made[p] - 1, rejected), <<p, made[p]>>)
         /\ Due(p) = SentUpto(p, made[p] - 1, rejected)
<1> DEFINE n == made[p] - 1
<1>1. made[p] \in Nat /\ made[p] <= MaxSend
  BY MaxSendAssumption DEF TypeOK
<1>2. n \in Nat /\ n < MaxSend /\ n + 1 = made[p]
  BY <1>1, MaxSendAssumption
<1>3. <<p, n + 1>> \notin rejected
  BY <1>2 DEF RejectInv
<1> HIDE DEF n
<1>4. /\ SentUpto(p, n, rejected) \in Seq(Elements)
      /\ SentUpto(p, n + 1, rejected) = Append(SentUpto(p, n, rejected), <<p, n + 1>>)
  BY <1>2, <1>3, SentGrows
<1>5. Sent(p) = Append(SentUpto(p, n, rejected), <<p, n + 1>>)
  BY <1>2, <1>4, SentIsUpto
<1>6. <<p, n + 1>> \in Elements
  <2>1. n + 1 \in 1 .. MaxSend
    BY <1>2, MaxSendAssumption
  <2> QED
    BY <2>1 DEF Elements
<1>7. Front(Append(SentUpto(p, n, rejected), <<p, n + 1>>)) = SentUpto(p, n, rejected)
  BY <1>4, <1>6, FrontAppend
<1>8. Due(p) = SentUpto(p, n, rejected)
  BY <1>5, <1>7 DEF Due
<1> QED
  BY <1>1, <1>2, <1>4, <1>5, <1>8 DEF n

\* One element more is built: it comes behind what was sent before.
LEMMA BuildsOne ==
  ASSUME TypeOK, RejectInv, NEW p \in Producers, made[p] < MaxSend, made'[p] = made[p] + 1,
         rejected' = rejected
  PROVE  /\ Sent(p) \in Seq(Elements)
         /\ <<p, made'[p]>> \in By(p) /\ <<p, made'[p]>> \in Elements
         /\ Sent(p)' = Append(Sent(p), <<p, made'[p]>>)
<1> DEFINE n == made[p]
<1>1. n \in Nat /\ n < MaxSend /\ made'[p] = n + 1
  BY MaxSendAssumption DEF TypeOK
<1>2. <<p, n + 1>> \notin rejected
  <2> SUFFICES ASSUME <<p, n + 1>> \in rejected PROVE FALSE
    OBVIOUS
  <2>1. \A e \in rejected : e[2] <= made[e[1]]
    BY DEF RejectInv
  <2>2. n + 1 <= n
    BY <2>1
  <2> QED
    BY <1>1, <2>2
<1>3. Sent(p) = SentUpto(p, n, rejected)
  BY SentIsUpto
<1> HIDE DEF n
<1>4. /\ SentUpto(p, n, rejected) \in Seq(Elements)
      /\ SentUpto(p, n + 1, rejected) = Append(SentUpto(p, n, rejected), <<p, n + 1>>)
  BY <1>1, <1>2, SentGrows
<1>5. Sent(p)' = SentUpto(p, n + 1, rejected)
  BY <1>1, SentIsUpto
<1>6. n + 1 \in 1 .. MaxSend
  BY <1>1, MaxSendAssumption
<1>7. <<p, n + 1>> \in By(p) /\ <<p, n + 1>> \in Elements
  BY <1>6 DEF By, Elements
<1> QED
  BY <1>1, <1>3, <1>4, <1>5, <1>7

\* send of an element that fits the slice at hand.
LEMMA SendLocalFifo ==
  ASSUME IndInv, FifoInv, NEW p \in Producers, SendLocal(p)
  PROVE  \A q \in Producers : Total(q)' = Due(q)'
<1>1. /\ Contents' = Contents /\ UNCHANGED <<out, ring, freed>>
  BY QuietWritten DEF Quiet
<1>2. TypeOK /\ RejectInv /\ ring /\ \A q \in Producers : Total(q) = Due(q)
  <2>1. Live(p)
    BY DEF SendLocal, Live
  <2> QED
    BY <2>1, FifoMeans DEF IndInv, FifoInv, GoneInv
<1>3. /\ made[p] < MaxSend /\ made'[p] = made[p] + 1 /\ rejected' = rejected
      /\ buf_local'[p] = Append(buf_local[p], <<p, made'[p]>>)
      /\ ~Sending(p) /\ ~Sending(p)'
  BY <1>2 DEF SendLocal, Push, TypeOK, Sending
<1>4. \A q \in Producers \ {p} :
        made'[q] = made[q] /\ buf_local'[q] = buf_local[q] /\ (Sending(q)' <=> Sending(q))
  BY <1>2 DEF SendLocal, Push, TypeOK, Sending
<1>5. Total(p)' = Due(p)'
  <2>1. buf_local[p] \in Seq(By(p))
    BY DEF FifoInv, BufInv, Buf
  <2>2. <<p, made'[p]>> \in By(p) /\ Sent(p)' = Append(Sent(p), <<p, made'[p]>>)
    BY <1>2, <1>3, BuildsOne
  <2> DEFINE e == <<p, made'[p]>>
  <2>3. e \in By(p) /\ buf_local'[p] = Append(buf_local[p], e) /\ Sent(p)' = Append(Sent(p), e)
    BY <1>3, <2>2
  <2> HIDE DEF e
  <2>4. Total(p)' = Append(Total(p), e)
    BY <1>1, <1>2, <2>1, <2>3, TotalGrows
  <2>5. Due(p) = Sent(p) /\ Due(p)' = Sent(p)'
    BY <1>3 DEF Due
  <2> QED
    BY <1>2, <2>3, <2>4, <2>5
<1>6. ASSUME NEW q \in Producers, q # p PROVE Total(q)' = Due(q)'
  BY <1>1, <1>2, <1>3, <1>4, <1>6, SameFifo
<1> QED
  BY <1>5, <1>6

\* send of an element that needs a slice first: until it has one it keeps the element itself.
LEMMA SendCallFifo ==
  ASSUME IndInv, FifoInv, NEW p \in Producers, SendCall(p)
  PROVE  \A q \in Producers : Total(q)' = Due(q)'
<1>1. Contents' = Contents /\ UNCHANGED <<out, ring, freed>>
  BY QuietWritten DEF Quiet
<1>2. TypeOK /\ RejectInv /\ \A q \in Producers : Total(q) = Due(q)
  BY FifoMeans DEF IndInv, FifoInv
<1>3. /\ made[p] < MaxSend /\ made'[p] = made[p] + 1 /\ rejected' = rejected
      /\ buf_local' = buf_local /\ ~Sending(p) /\ Sending(p)'
  BY <1>2 DEF SendCall, TypeOK, Sending
<1>4. \A q \in Producers \ {p} : made'[q] = made[q] /\ (Sending(q)' <=> Sending(q))
  BY <1>2 DEF SendCall, TypeOK, Sending
<1>5. Total(p)' = Due(p)'
  <2> DEFINE e == <<p, made'[p]>>
  <2>1. Sent(p) \in Seq(Elements) /\ e \in Elements /\ Sent(p)' = Append(Sent(p), e)
    BY <1>2, <1>3, BuildsOne
  <2> HIDE DEF e
  <2>2. Front(Append(Sent(p), e)) = Sent(p)
    BY <2>1, FrontAppend
  <2>3. Due(p) = Sent(p) /\ Due(p)' = Front(Sent(p)')
    BY <1>3 DEF Due
  <2>4. Total(p)' = Total(p)
    BY <1>1, <1>3, SameTotal
  <2> QED
    BY <1>2, <2>1, <2>2, <2>3, <2>4
<1>6. ASSUME NEW q \in Producers, q # p PROVE Total(q)' = Due(q)'
  BY <1>1, <1>2, <1>3, <1>4, <1>6, SameFifo
<1> QED
  BY <1>5, <1>6

\* apply has found room: the element it kept goes to the empty local buffer.
LEMMA ApplyTakeFifo ==
  ASSUME IndInv, FifoInv, NEW p \in Producers, ApplyTake(p)
  PROVE  \A q \in Producers : Total(q)' = Due(q)'
<1>1. Contents' = Contents /\ UNCHANGED <<out, ring, freed>>
  BY QuietWritten DEF Quiet
<1>2. TypeOK /\ RejectInv /\ ring /\ \A q \in Producers : Total(q) = Due(q)
  <2>1. Live(p)
    BY DEF ApplyTake, Live
  <2> QED
    BY <2>1, FifoMeans DEF IndInv, FifoInv, GoneInv
<1>3. /\ made' = made /\ rejected' = rejected /\ made[p] > 0
      /\ buf_local'[p] = Append(buf_local[p], <<p, made[p]>>)
      /\ Sending(p) /\ ~Sending(p)'
  BY <1>2 DEF ApplyTake, Push, TypeOK, Sending, IndInv, PlaceInv, Place
<1>4. \A q \in Producers \ {p} : buf_local'[q] = buf_local[q] /\ (Sending(q)' <=> Sending(q))
  BY <1>2 DEF ApplyTake, Push, TypeOK, Sending
<1>5. Total(p)' = Due(p)'
  <2> DEFINE e == <<p, made[p]>>
  <2>1. buf_local[p] \in Seq(By(p)) /\ buf_local'[p] = Append(buf_local[p], e)
    BY <1>3 DEF FifoInv, BufInv, Buf
  <2>2. e \in By(p)
    <3>1. made[p] \in 1 .. MaxSend
      BY <1>2, <1>3, MaxSendAssumption DEF TypeOK
    <3> QED
      BY <3>1 DEF By
  <2>3. /\ Sent(p) = Append(SentUpto(p, made[p] - 1, rejected), e)
        /\ Due(p) = SentUpto(p, made[p] - 1, rejected)
    BY <1>2, <1>3, LastSent
  <2> HIDE DEF e
  <2>4. Total(p)' = Append(Total(p), e)
    BY <1>1, <1>2, <2>1, <2>2, TotalGrows
  <2>5. Due(p)' = Sent(p)'
    BY <1>3 DEF Due
  <2>6. Sent(p)' = Sent(p)
    BY <1>3 DEF Sent, Elements
  <2> QED
    BY <1>2, <2>3, <2>4, <2>5, <2>6
<1>6. ASSUME NEW q \in Producers, q # p PROVE Total(q)' = Due(q)'
  BY <1>1, <1>2, <1>3, <1>4, <1>6, SameFifo
<1> QED
  BY <1>5, <1>6

\* The consumer has gone: the element is handed back, and was never in the ring.
LEMMA SendAliveFifo ==
  ASSUME IndInv, FifoInv, NEW p \in Producers, SendAlive(p)
  PROVE  \A q \in Producers : Total(q)' = Due(q)'
<1>1. Contents' = Contents /\ UNCHANGED <<out, ring, freed>>
  BY QuietWritten DEF Quiet
<1>2. TypeOK /\ RejectInv /\ \A q \in Producers : Total(q) = Due(q)
  BY FifoMeans DEF IndInv, FifoInv
<1>3. made' = made /\ buf_local' = buf_local /\ Sending(p) /\ made[p] > 0
  BY DEF SendAlive, Sending, IndInv, PlaceInv, Place
<1>4. \A q \in Producers \ {p} : Sending(q)' <=> Sending(q)
  BY <1>2 DEF SendAlive, TypeOK, Sending
<1>5. CASE rejected' = rejected /\ ppc' = [ppc EXCEPT ![p] = "apply"]
  <2>1. Sending(p)'
    BY <1>2, <1>5 DEF TypeOK, Sending
  <2> QED
    BY <1>1, <1>2, <1>3, <1>4, <1>5, <2>1, SameFifo
<1>6. CASE rejected' = rejected \cup {<<p, made[p]>>} /\ ppc' = [ppc EXCEPT ![p] = "idle"]
  <2>1. ~Sending(p)'
    BY <1>2, <1>6 DEF TypeOK, Sending
  <2>2. ASSUME NEW q \in Producers PROVE Total(q)' = Total(q)
    BY <1>1, <1>3, SameTotal
  <2>3. Due(p)' = Due(p)
    <3> DEFINE n == made[p] - 1
    <3>1. n \in Nat /\ n + 1 = made[p] /\ n <= MaxSend /\ Due(p) = SentUpto(p, n, rejected)
      <4>1. n \in Nat /\ made[p] \in Nat /\ Due(p) = SentUpto(p, n, rejected)
        BY <1>2, <1>3, LastSent
      <4>2. made[p] <= MaxSend
        BY <1>2, MaxSendAssumption DEF TypeOK
      <4> QED
        BY <4>1, <4>2, MaxSendAssumption
    <3> HIDE DEF n
    <3>2. Due(p)' = SentUpto(p, n + 1, rejected')
      <4>1. Due(p)' = Sent(p)'
        BY <2>1 DEF Due
      <4> QED
        BY <1>3, <3>1, <4>1, SentIsUpto
    <3>3. SentUpto(p, n + 1, rejected') = SentUpto(p, n, rejected')
      <4>1. <<p, n + 1>> \in rejected'
        BY <1>6, <3>1
      <4> QED
        BY <3>1, <4>1, SentSkips
    <3>4. SentUpto(p, n, rejected') = SentUpto(p, n, rejected)
      <4>1. \A k \in 1 .. n : <<p, k>> \in rejected' <=> <<p, k>> \in rejected
        BY <1>6, <3>1
      <4> QED
        BY <3>1, <4>1, SentSame
    <3> QED
      BY <3>1, <3>2, <3>3, <3>4
  <2>4. ASSUME NEW q \in Producers, q # p PROVE Due(q)' = Due(q)
    <3>1. made[q] \in Nat /\ made[q] <= MaxSend
      BY <1>2, MaxSendAssumption DEF TypeOK
    <3>2. \A k \in 1 .. made[q] : <<q, k>> \in rejected' <=> <<q, k>> \in rejected
      BY <1>6, <2>4
    <3>3. SentUpto(q, made[q], rejected') = SentUpto(q, made[q], rejected)
      BY <3>1, <3>2, SentSame
    <3>4. Sent(q)' = Sent(q)
      BY <1>3, <3>3, SentIsUpto
    <3> QED
      BY <1>4, <2>4, <3>4 DEF Due
  <2> QED
    BY <1>2, <2>2, <2>3, <2>4
<1> QED
  BY <1>5, <1>6 DEF SendAlive

\* The positions of a new slice hold nothing yet.
LEMMA ApplyReserveFifo ==
  ASSUME IndInv, IndInv', FifoInv, NEW p \in Producers, ApplyReserve(p)
  PROVE  \A q \in Producers : Total(q)' = Due(q)'
<1> DEFINE V == Elements \cup {None}
           n == slice[p][2]
           N == tail - head
           z == [i \in 1 .. n |-> None]
           c == Contents
<1>1. /\ Written' = Written /\ n \in Nat /\ tail' = tail + n
      /\ UNCHANGED <<head, slot, out, ring, freed>>
  BY ReserveWritten
<1>2. c \in Seq(V) /\ Len(c) = N /\ N \in Nat
  <2>1. /\ head \in Nat /\ readable_till \in Nat /\ tail \in Nat
        /\ head <= readable_till /\ readable_till <= tail
    BY IndicesInOrder DEF IndInv, TypeOK
  <2> QED
    BY <2>1, ContentsType
<1>3. Written \subseteq head .. tail - 1 /\ head \in Nat /\ tail \in Nat
  BY ContentsType DEF IndInv, TypeOK
<1>4. Contents' \in Seq(V) /\ Len(Contents') = N + n
  <2>1. (IndInv => Contents \in Seq(V) /\ Len(Contents) = tail - head)'
    BY ContentsType, PTL DEF Elements
  <2>2. tail' - head' = N + n
    BY <1>1, <1>3
  <2> QED
    BY <2>1, <2>2 DEF Elements
<1>5. z \in Seq(V) /\ Len(z) = n
  BY <1>1
<1>6. Contents' = c \o z
  <2>1. c \o z \in Seq(V) /\ Len(c \o z) = N + n
    <3> HIDE DEF c, z, V, N, n
    <3> QED
      BY <1>1, <1>2, <1>5, ConcatProperties
  <2>2. ASSUME NEW i \in 1 .. N + n PROVE Contents'[i] = (c \o z)[i]
    <3>1. Contents'[i] = IF head + i - 1 \in Written THEN slot[Index(head + i - 1)] ELSE None
      <4>1. Contents' = [k \in 1 .. tail' - head |->
                           IF head + k - 1 \in Written THEN slot[Index(head + k - 1)] ELSE None]
        BY <1>1 DEF Contents, Index
      <4>2. i \in 1 .. tail' - head
        BY <1>1, <1>3
      <4> QED
        BY <4>1, <4>2
    <3>2. CASE i <= N
      <4>1. i \in 1 .. N
        BY <1>2, <3>2
      <4>2. c[i] = IF head + i - 1 \in Written THEN slot[Index(head + i - 1)] ELSE None
        BY <4>1 DEF Contents
      <4>3. (c \o z)[i] = c[i]
        <5> HIDE DEF c, z, V, N, n
        <5> QED
          BY <1>2, <1>5, <4>1
      <4> QED
        BY <3>1, <4>2, <4>3
    <3>3. CASE N < i
      <4>1. i - N \in 1 .. n
        <5> HIDE DEF N, n
        <5> QED
          BY <1>1, <1>2, <3>3
      <4>2. z[i - N] = None
        BY <4>1
      <4>3. (c \o z)[i] = z[i - N]
        <5> HIDE DEF c, z, V, N, n
        <5> QED
          BY <1>1, <1>2, <1>5, <3>3, <4>1
      <4>4. head + i - 1 \notin Written
        BY <1>3, <3>3
      <4> QED
        BY <3>1, <4>2, <4>3, <4>4
    <3>4. i <= N \/ N < i
      <4> HIDE DEF N, n
      <4> QED
        BY <1>2
    <3> QED
      BY <3>2, <3>3, <3>4
  <2> HIDE DEF c, z, V, N, n, Contents
  <2> QED
    BY <1>4, <2>1, <2>2, SeqEqual
<1>7. ASSUME NEW q \in Producers PROVE Only(Contents', By(q)) = Only(Contents, By(q))
  <2>1. Only(z, By(q)) = <<>>
    <3>1. \A i \in 1 .. Len(z) : z[i] \notin By(q)
      BY <1>5, Whose
    <3> QED
      BY <1>1, <1>5, <3>1, OnlyNone
  <2> HIDE DEF c, z, V, N, n
  <2>2. Only(c \o z, By(q)) = Only(c, By(q)) \o Only(z, By(q))
    BY <1>2, <1>5, OnlyConcat
  <2>3. Only(c, By(q)) \in Seq(By(q))
    BY <1>2, OnlyInSeq
  <2>4. Only(c \o z, By(q)) = Only(c, By(q))
    BY <2>1, <2>2, <2>3, ConcatEmptySeq
  <2> QED
    BY <1>6, <2>4 DEF c
<1>8. /\ UNCHANGED <<buf_local, made, rejected>>
      /\ \A q \in Producers : Sending(q)' <=> Sending(q)
  BY DEF ApplyReserve, IndInv, TypeOK, Sending
<1>9. ASSUME NEW q \in Producers PROVE Total(q)' = Total(q) /\ Due(q)' = Due(q)
  <2>1. Due(q)' = Due(q)
    BY <1>8, SameDue
  <2>2. Total(q)' = Total(q)
    BY <1>1, <1>7, <1>8 DEF Total, By
  <2> QED
    BY <2>1, <2>2
<1>10. \A q \in Producers : Total(q) = Due(q)
  BY FifoMeans DEF FifoInv
<1> QED
  BY <1>9, <1>10

\* Storing moves elements from the local buffer to the ring.
LEMMA FlushStoreFifo ==
  ASSUME IndInv, IndInv', FifoInv, NEW p \in Producers, FlushStore(p)
  PROVE  \A q \in Producers : Total(q)' = Due(q)'
<1>1. /\ UNCHANGED <<made, rejected>>
      /\ \A q \in Producers : Sending(q)' <=> Sending(q)
  BY DEF FlushStore, IndInv, TypeOK, Sending
<1>2. \A q \in Producers : Total(q) = Due(q)
  BY FifoMeans DEF FifoInv
<1>3. ASSUME NEW q \in Producers PROVE Due(q)' = Due(q)
  BY <1>1, SameDue
<1>4. \A q \in Producers : Total(q)' = Total(q)
  BY StoreTotal
<1> QED
  BY <1>2, <1>3, <1>4

\* Reading moves an element, unless it is padding, from the ring to what was received.
LEMMA RecvLoadFifo ==
  ASSUME IndInv, FifoInv, RecvLoad
  PROVE  \A q \in Producers : Total(q)' = Due(q)'
<1> DEFINE x == slot[Index(head)]
           V == Elements \cup {None}
           d == Contents'
<1>1. /\ Contents = <<x>> \o d /\ x \in V /\ d \in Seq(V)
      /\ UNCHANGED <<producerVars, ring, freed>>
  BY LoadWritten
<1>2. /\ out \in Seq(Elements) /\ out' = IF x = None THEN out ELSE Append(out, x)
      /\ cpc = "load"
  BY DEF RecvLoad, IndInv, TypeOK
<1>3. ring /\ ring'
  BY <1>1, <1>2 DEF FifoInv, GoneInv
<1>4. ASSUME NEW q \in Producers PROVE Total(q)' = Total(q) /\ Due(q)' = Due(q)
  <2> DEFINE B == By(q)
             o == Only(out, B)
             k == Only(<<x>>, B)
             c == Only(d, B)
             b == buf_local[q]
  <2>1. /\ Total(q) = o \o (Only(Contents, B) \o b)
        /\ Total(q)' = Only(out', B) \o (c \o b)
    BY <1>1, <1>3 DEF Total, By, producerVars
  <2>2. B \subseteq Elements /\ None \notin B /\ b \in Seq(B)
    BY Whose DEF FifoInv, BufInv, Buf
  <2>3. k = IF x \in B THEN <<x>> ELSE <<>>
    <3> DEFINE e == <<>>
    <3> HIDE DEF x, B, V
    <3>1. e \in Seq(V)
      OBVIOUS
    <3>2. Append(e, x) = <<x>>
      OBVIOUS
    <3>3. Only(e, B) = e
      BY OnlyEmpty
    <3> HIDE DEF e
    <3>4. Only(Append(e, x), B) = IF x \in B THEN Append(Only(e, B), x) ELSE Only(e, B)
      BY <3>1, OnlyAppend
    <3> QED
      BY <3>2, <3>3, <3>4 DEF e
  <2>4. Only(Contents, B) = k \o c
    <3> DEFINE h == <<x>>
    <3>1. h \in Seq(V)
      BY <1>1
    <3> HIDE DEF h, d, B, V
    <3>2. Only(h \o d, B) = Only(h, B) \o Only(d, B)
      BY <1>1, <3>1, OnlyConcat
    <3>3. Contents = h \o d
      BY <1>1 DEF h
    <3> QED
      BY <3>2, <3>3 DEF h
  <2>5. o \in Seq(B) /\ c \in Seq(B) /\ k \in Seq(B)
    <3>1. Len(out) \in Nat /\ Len(d) \in Nat
      BY <1>1, <1>2
    <3>2. o \in Seq(B)
      BY <3>1, OnlyInSeq
    <3>3. c \in Seq(B)
      <4> HIDE DEF d
      <4> QED
        BY <3>1, OnlyInSeq
    <3>4. k \in Seq(B)
      <4> HIDE DEF k, x, B
      <4> QED
        BY <2>3
    <3> QED
      BY <3>2, <3>3, <3>4
  <2>6. Only(out', B) = o \o k
    <3>1. CASE x \in B
      <4>1. x # None /\ out' = Append(out, x)
        BY <1>2, <2>2, <3>1
      <4> HIDE DEF x, B
      <4>2. Only(Append(out, x), B) = Append(o, x)
        BY <1>2, <3>1, OnlyAppend
      <4> HIDE DEF o, k
      <4>3. o \o <<x>> = Append(o, x)
        BY <2>5, <3>1
      <4> QED
        BY <2>3, <3>1, <4>1, <4>2, <4>3
    <3>2. CASE x \notin B
      <4> HIDE DEF x, B
      <4>1. Only(out', B) = o
        BY <1>2, <3>2, OnlyAppend
      <4> HIDE DEF o, k
      <4>2. o \o <<>> = o
        BY <2>5, ConcatEmptySeq
      <4> QED
        BY <2>3, <3>2, <4>1, <4>2
    <3> QED
      BY <3>1, <3>2
  <2>7. o \o ((k \o c) \o b) = (o \o k) \o (c \o b)
    <3> HIDE DEF o, k, c, b, B
    <3>1. (k \o c) \o b = k \o (c \o b) /\ c \o b \in Seq(B)
      BY <2>2, <2>5, ConcatAssociative, ConcatProperties
    <3> DEFINE r == c \o b
    <3>2. r \in Seq(B)
      BY <3>1
    <3> HIDE DEF r
    <3>3. o \o (k \o r) = (o \o k) \o r
      BY <2>5, <3>2, ConcatAssociative
    <3> QED
      BY <3>1, <3>3 DEF r
  <2>8. Total(q)' = Total(q)
    <3> HIDE DEF o, k, c, b, B
    <3> QED
      BY <2>1, <2>4, <2>6, <2>7
  <2>9. Due(q)' = Due(q)
    BY <1>1, SameDue DEF producerVars, Sending
  <2> QED
    BY <2>8, <2>9
<1>5. \A q \in Producers : Total(q) = Due(q)
  BY FifoMeans DEF FifoInv
<1> QED
  BY <1>4, <1>5

\* What is dropped with the ring is what was in it: everything had been merged.
LEMMA DropRingFifo ==
  ASSUME IndInv, FifoInv, DropRing
  PROVE  \A q \in Producers : Total(q)' = Due(q)'
<1>1. /\ \A p \in Producers : ~Live(p)
      /\ ring /\ ~ring' /\ freed' = Stored(head, readable_till) /\ UNCHANGED <<out, producerVars>>
  BY DEF DropRing, consumerVars, IndInv, TypeOK
<1>2. readable_till = tail /\ filled_slices = {}
  <2>1. {p \in Producers : Live(p)} = {}
    BY <1>1
  <2>2. px_count = 0
    BY <2>1, FS_EmptySet DEF IndInv, AliveInv
  <2> QED
    BY <2>2, GoneMerged DEF GoneMeansMerged
<1>3. Waiting = {}
  BY <1>1, <1>2 DEF Waiting, Live
<1>4. Written = head .. tail - 1
  BY <1>2, <1>3 DEF Written
<1>5. Contents = [i \in 1 .. tail - head |-> slot[Index(head + i - 1)]]
  <2>1. \A i \in 1 .. tail - head : head + i - 1 \in Written
    BY <1>4, ContentsType
  <2> QED
    BY <2>1 DEF Contents
<1>6. freed' = Only(Contents, Elements)
  BY <1>1, <1>2, <1>5 DEF Stored
<1>7. Contents \in Seq(Elements \cup {None})
  BY ContentsType
<1>8. ASSUME NEW q \in Producers PROVE Total(q)' = Total(q) /\ Due(q)' = Due(q)
  <2> DEFINE B == By(q)
             c == Only(Contents, B)
  <2>1. ppc[q] \in {"unborn", "dropped"}
    BY <1>1 DEF Live
  <2>2. buf_local[q] = <<>>
    BY <2>1 DEF FifoInv, BufInv, Buf
  <2>3. c \in Seq(B)
    <3>1. Len(Contents) \in Nat
      BY <1>7
    <3> QED
      BY <3>1, OnlyInSeq
  <2>4. Total(q) = Only(out, B) \o c
    <3>1. Total(q) = Only(out, B) \o (c \o <<>>)
      BY <1>1, <2>2 DEF Total
    <3> HIDE DEF c, B
    <3> QED
      BY <2>3, <3>1, ConcatEmptySeq
  <2>5. Only(freed', B) = c
    <3>1. B \subseteq Elements
      BY Whose
    <3> HIDE DEF B
    <3> QED
      BY <1>6, <1>7, <3>1, OnlyOnly
  <2>6. Total(q)' = Only(out, B) \o c
    <3>1. Total(q)' = Only(out', B) \o Only(freed', B)
      BY <1>1 DEF Total, By
    <3> QED
      BY <1>1, <2>5, <3>1
  <2>7. Due(q)' = Due(q)
    BY <1>1, SameDue DEF producerVars, Sending
  <2> QED
    BY <2>4, <2>6, <2>7
<1>9. \A q \in Producers : Total(q) = Due(q)
  BY FifoMeans DEF FifoInv
<1> QED
  BY <1>8, <1>9

\* Every step of every thread leaves each producer's elements in order, none twice and none lost.
LEMMA StepFifo ==
  ASSUME IndInv, IndInv', FifoInv, [Next]_vars
  PROVE  FifoInv'
<1>1. \A q \in Producers : Total(q) = Due(q)
  BY FifoMeans DEF FifoInv
<1>2. ASSUME NEW p \in Producers, Producer(p)
      PROVE  \A q \in Producers : Total(q)' = Due(q)'
  <2>1. CASE SendLocal(p)
    BY <2>1, SendLocalFifo
  <2>2. CASE SendCall(p)
    BY <2>2, SendCallFifo
  <2>3. CASE SendAlive(p)
    BY <2>3, SendAliveFifo
  <2>4. CASE ApplyTake(p)
    BY <2>4, ApplyTakeFifo
  <2>5. CASE ApplyReserve(p)
    BY <2>5, ApplyReserveFifo
  <2>6. CASE FlushStore(p)
    BY <2>6, FlushStoreFifo
  <2>7. CASE Merge(p)
    <3> SUFFICES ASSUME NEW q \in Producers PROVE Total(q)' = Due(q)'
      OBVIOUS
    <3> QED
      BY <1>1, <2>7, MergeWritten, SameFifo
  <2>8. CASE \/ ApplyLock(p) \/ ApplyFree(p) \/ FlushCall(p) \/ MergeCount(p) \/ MergeUncount(p)
             \/ DropProducer(p) \/ \E q \in Producers : Clone(p, q)
    <3>1. Contents' = Contents /\ UNCHANGED <<out, ring, freed>>
      BY <2>8, QuietWritten DEF Quiet
    <3>2. /\ UNCHANGED <<buf_local, made, rejected>>
          /\ \A q \in Producers : Sending(q)' <=> Sending(q)
      BY <2>8 DEF ApplyLock, ApplyFree, FlushCall, MergeCount, MergeUncount, DropProducer, Clone,
                  IndInv, TypeOK, Sending
    <3> SUFFICES ASSUME NEW q \in Producers PROVE Total(q)' = Due(q)'
      OBVIOUS
    <3> QED
      BY <1>1, <3>1, <3>2, SameFifo
  <2> QED
    BY <1>2, <2>1, <2>2, <2>3, <2>4, <2>5, <2>6, <2>7, <2>8 DEF Producer
<1>3. CASE QuietConsumer
  <2>1. Contents' = Contents /\ UNCHANGED <<producerVars, out, ring, freed>>
    BY <1>3, QuietConsumerWritten
  <2> SUFFICES ASSUME NEW q \in Producers PROVE Total(q)' = Due(q)'
    BY OrderStep, BufStep, RejectStep, GoneStep, FifoNext DEF FifoInv
  <2> QED
    BY <1>1, <2>1, SameFifo DEF producerVars, Sending
<1>4. CASE RecvLoad \/ DropRing
  BY <1>4, RecvLoadFifo, DropRingFifo, OrderStep, BufStep, RejectStep, GoneStep, FifoNext DEF FifoInv
<1>5. CASE \E p \in Producers : Producer(p)
  BY <1>2, <1>5, OrderStep, BufStep, RejectStep, GoneStep, FifoNext DEF FifoInv
<1> QED
  BY <1>3, <1>4, <1>5 DEF Next, Consumer, QuietConsumer, Terminated

\* Nothing was sent yet, and nothing is anywhere.
LEMMA InitFifo == Init => FifoInv
<1> SUFFICES ASSUME Init PROVE FifoInv
  OBVIOUS
<1> USE DEF Init, RingInit, HandlesInit
<1>1. BufInv /\ RejectInv /\ OrderInv /\ GoneInv
  BY DEF BufInv, Buf, RejectInv, OrderInv, Held, GoneInv
<1>2. ASSUME NEW q \in Producers PROVE Total(q) = Due(q)
  <2>1. Contents = <<>>
    BY DEF Contents
  <2>2. Sent(q) = <<>>
    <3>1. made[q] = 0
      OBVIOUS
    <3>2. [n \in 1 .. made[q] |-> <<q, n>>] = <<>>
      BY <3>1
    <3> QED
      BY <3>2, OnlyEmpty DEF Sent
  <2>3. ~Sending(q)
    BY DEF Sending
  <2>4. Total(q) = <<>> \o (<<>> \o <<>>)
    BY <2>1, OnlyEmpty DEF Total
  <2> QED
    BY <2>2, <2>3, <2>4 DEF Due
<1> QED
  BY <1>1, <1>2, FifoMeans DEF FifoInv

\* What elements_arrive_ordered, no_elements_lost and unused_elements_are_dropped test with a few
\* producers holds for any number of them, any ring and any slice size: what each one sent is
\* received or still inside once, in the order it was sent, except for what SendError gave back.
THEOREM OrderedPerProducer == Spec => []PerProducerFifo
<1>1. Init => FifoInv
  BY InitFifo
<1>2. IndInv /\ IndInv' /\ FifoInv /\ [Next]_vars => FifoInv'
  BY StepFifo
<1>3. FifoInv => PerProducerFifo
  BY DEF FifoInv
<1> QED
  BY <1>1, <1>2, <1>3, Invariance, PTL DEF Spec
=============================================================================
