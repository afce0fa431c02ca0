----------------------------- MODULE MCRecovery -----------------------------
(* Recovery for TLC: devices with two deleted pictures, a short one beside a longer one. *)
EXTENDS Recovery

Metadata == 0 .. 2

\* The bitmaps: of every group the same, with little or much in use; or of group 0 and of the others.
Bitmaps ==
  {[g \in Groups |-> u] : u \in {Metadata, Metadata \cup {9, 10, 23}, 0 .. 19}}
  \cup {[g \in Groups |-> IF g = 0 THEN Metadata ELSE {0, 3}],
        [g \in Groups |-> IF g = 0 THEN InGroup ELSE Metadata]}

\* The device blocks that are free indeed, in order.
Free(bitmaps) ==
  SelectSeq([b \in 1 .. BlockCount - 1 |-> b], LAMBDA b :
              (b - FirstDataBlock) % BlocksPerGroup \notin bitmaps[GroupOf(b - FirstDataBlock)])

Shape(length, start, end) == [length |-> length, start |-> start, end |-> end]

\* Of all lengths a file can have; the end pattern at either end of a block, or cut in two.
Long == {Shape(n, 0, e) : n \in {i \in 2 .. Len(HoldsAddresses) : ~HoldsAddresses[i]},
                          e \in {0, BlockSize - 2, BlockSize - 1}}

\* In one block: a picture, and headers further on in a block of something else.
Short == {Shape(1, 0, 6), Shape(1, 4, 9), Shape(1, 5, 7)}

\* The shape in the free blocks behind the first `skip` ones.
Place(free, skip, s) ==
  [blocks |-> SubSeq(free, skip + 1, skip + s.length), start |-> s.start, end |-> s.end]

MCDevices ==
  UNION {LET free == Free(b)
             pairs == {st \in (Long \X Short) \cup (Short \X Long) :
                         1 + st[1].length + st[2].length <= Len(free)}
         IN  {[used |-> b, pictures |-> <<Place(free, 1, st[1]),
                                          Place(free, 1 + st[1].length, st[2])>>] : st \in pairs}
         : b \in Bitmaps}
=============================================================================
