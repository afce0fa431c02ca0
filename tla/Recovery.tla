------------------------------ MODULE Recovery ------------------------------
(***************************************************************************)
(* recover_files of recovery/src/main.rs: the free blocks are read one     *)
(* after the other; from the header of a JPEG on they are collected until  *)
(* the end of the picture, and what was collected is written to files.     *)
(*                                                                         *)
(* Of the data of a block only where a header and where an end pattern     *)
(* begin is kept.  A file is the sequence of its pieces, [block, from, to) *)
(* each.  The lengths of a block and of the header are scaled down.        *)
(***************************************************************************)
EXTENDS Ext2

CONSTANTS HeaderLength,  \* JFIF_HEADER.len()
          Devices        \* the devices to run on: [used |-> bitmaps, pictures |-> deleted pictures]

EndLength == 2           \* JFIF_EOI.len()

ASSUME LengthsAssumption ==
  /\ HeaderLength \in Nat /\ HeaderLength >= EndLength
  /\ \A d \in Devices : 0 \in d.used[0]      \* the superblock is in use

VARIABLES pictures,   \* the device: deleted pictures, each [blocks, start, end]
          pc,         \* "scan", "collect", and "done" or "panicked"
          block_cnt, img, imgs,
          files       \* the directory for the results

device == <<used, pictures>>
vars == <<used, block_id, block_bitmap, pictures, pc, block_cnt, img, imgs, files>>

-----------------------------------------------------------------------------
(* The device: a picture fills its blocks in the order of allocation, has its header at start *)
(* in the first one and the end pattern at end in the last.                                   *)

Headers(b) == {p.start : p \in {q \in Range(pictures) : Head(q.blocks) = b}}

\* Where windows() finds an end pattern: one that begins with the last byte of a block is cut in two.
Ends(b) == {p.end : p \in {q \in Range(pictures) : Last(q.blocks) = b}} \ {BlockSize - 1}

\* pattern_position: the position is counted from where the search began.
PatternPosition(positions, offset) == Min({p \in positions : p >= offset}) - offset

Piece(b, from, to) == [block |-> b, from |-> from, to |-> to]

Init ==
  /\ \E d \in Devices : used = d.used /\ pictures = d.pictures
  /\ IterInit
  /\ pc = "scan"
  /\ block_cnt = 0
  /\ img = <<>> /\ imgs = <<>> /\ files = <<>>

-----------------------------------------------------------------------------
(* The outer loop. *)

ThisBlock == block_id' + FirstDataBlock

Scan ==
  /\ pc = "scan"
  /\ Given
  /\ UNCHANGED <<device, files>>

\* No header in the block.
Skip ==
  /\ Scan
  /\ Headers(ThisBlock) = {}
  /\ UNCHANGED <<pc, block_cnt, img, imgs>>

\* Mutant: a slice that ends before it begins is taken for a picture.
FoundWholeUnchecked ==
  /\ Scan
  /\ \E start \in Headers(ThisBlock) :
       /\ \E e \in Ends(ThisBlock) : e >= start
       /\ imgs' = Append(imgs, <<Piece(ThisBlock, start,
                                      PatternPosition(Ends(ThisBlock), start) + EndLength)>>)
  /\ UNCHANGED <<pc, block_cnt, img>>

\* The whole picture in one block: block_data[start .. end + 2], with end counted from start.
FoundWhole ==
  /\ Scan
  /\ \E start \in Headers(ThisBlock) :
       /\ \E e \in Ends(ThisBlock) : e >= start
       /\ LET to == PatternPosition(Ends(ThisBlock), start) + EndLength
          IN  IF start <= to
              THEN /\ imgs' = Append(imgs, <<Piece(ThisBlock, start, to)>>)
                   /\ UNCHANGED pc
              ELSE /\ pc' = "panicked"
                   /\ UNCHANGED imgs
  /\ UNCHANGED <<block_cnt, img>>

\* The picture goes on in the blocks that follow.
StartPicture ==
  /\ Scan
  /\ \E start \in Headers(ThisBlock) :
       /\ \A e \in Ends(ThisBlock) : e < start
       /\ img' = <<Piece(ThisBlock, start, BlockSize)>>
  /\ block_cnt' = 0
  /\ pc' = "collect"
  /\ UNCHANGED imgs

\* No block left: the pictures are written.
WriteFiles ==
  /\ pc = "scan"
  /\ Exhausted
  /\ files' = imgs
  /\ pc' = "done"
  /\ UNCHANGED <<device, block_cnt, img, imgs>>

-----------------------------------------------------------------------------
(* The inner loop. *)

Collect ==
  /\ pc = "collect"
  /\ Given
  /\ block_cnt' = block_cnt + 1
  /\ UNCHANGED <<device, files>>

\* The assertion of block_is_indirect.
OverMaximum ==
  /\ Collect
  /\ block_cnt' >= MaxBlocks
  /\ pc' = "panicked"
  /\ UNCHANGED <<img, imgs>>

SkipIndirect ==
  /\ Collect
  /\ block_cnt' < MaxBlocks /\ BlockIsIndirect(block_cnt')
  /\ UNCHANGED <<pc, img, imgs>>

CollectData == Collect /\ block_cnt' < MaxBlocks /\ ~BlockIsIndirect(block_cnt')

TakeLast ==
  /\ CollectData
  /\ Ends(ThisBlock) # {}
  /\ imgs' = Append(imgs, Append(img,
               Piece(ThisBlock, 0, PatternPosition(Ends(ThisBlock), 0) + EndLength)))
  /\ img' = <<>>
  /\ pc' = "scan"

TakeWhole ==
  /\ CollectData
  /\ Ends(ThisBlock) = {}
  /\ img' = Append(img, Piece(ThisBlock, 0, BlockSize))
  /\ UNCHANGED <<pc, imgs>>

\* No block left: what was collected is dropped, and the outer loop asks once more.
DropPicture ==
  /\ pc = "collect"
  /\ Exhausted
  /\ img' = <<>>
  /\ pc' = "scan"
  /\ UNCHANGED <<device, block_cnt, imgs, files>>

Next ==
  \/ Skip \/ FoundWhole \/ StartPicture \/ WriteFiles
  \/ OverMaximum \/ SkipIndirect \/ TakeLast \/ TakeWhole \/ DropPicture

\* One thread, and no step waits for another.
Spec == Init /\ [][Next]_vars /\ WF_vars(Next)

-----------------------------------------------------------------------------
(* What ext2 lays down, written from the format and not from the code: which blocks of a file *)
(* hold addresses, in the order of allocation.                                                *)

\* A tree of depth d: its block of addresses, then the trees below it.
Tree[d \in 0 .. 3] ==
  IF d = 0 THEN <<FALSE>>
           ELSE <<TRUE>> \o FlattenSeq([i \in 1 .. Addresses |-> Tree[d - 1]])

HoldsAddresses == [i \in 1 .. 12 |-> FALSE] \o Tree[1] \o Tree[2] \o Tree[3]

\* The file a picture was: its blocks of data, from the header to behind the end pattern.
FileOf(p) ==
  LET last == Len(p.blocks)
      places == SelectSeq([i \in 1 .. last |-> i], LAMBDA i : ~HoldsAddresses[i])
  IN  [k \in DOMAIN places |->
         LET i == places[k]
         IN  Piece(p.blocks[i], IF i = 1 THEN p.start ELSE 0,
                                IF i = last THEN p.end + EndLength ELSE BlockSize)]

\* Group g is read with the bitmap of group 0: is it the same?
BitmapRight(g) == used[g] = used[0]

\* The pictures the program can be asked to find: it begins with its header (every file of its own
\* does), the end pattern lies in one block, the last row of the triply-indirect table is not
\* reached, and it lies in groups whose bitmap is the one the code has.
Findable(p) ==
  /\ p.start = 0
  /\ p.end < BlockSize - 1
  /\ Len(p.blocks) <= TIndirect + 2 + RowSize * (Addresses - 1)
  /\ \A b \in Range(p.blocks) : BitmapRight(GroupOf(b - FirstDataBlock))
-----------------------------------------------------------------------------
(* Types and ranges; the images are made of blocks of the device. *)
TypeOK ==
  /\ pc \in {"scan", "collect", "done", "panicked"}
  /\ block_id \in 0 .. GroupCount * BlocksPerGroup - 1
  /\ block_bitmap \subseteq InGroup
  /\ block_cnt \in 0 .. MaxBlocks
  /\ \A i \in DOMAIN imgs : imgs[i] # <<>>
  /\ \A p \in Range(img) \cup UNION {Range(i) : i \in Range(imgs)} :
       p.block < BlockCount /\ p.from <= p.to /\ p.to <= BlockSize

(* A run that ends well has written, for every deleted picture that is findable and has only   *)
(* findable ones before it, exactly its bytes, as the file with its number: no block of        *)
(* addresses in it, none missing, none of a neighbour.  It panics, and loses what it had, only *)
(* where a picture is not findable.  (recover_files, block_is_indirect and its assertion.)     *)
RecoversPictures ==
  /\ pc = "done" =>
       \A k \in DOMAIN pictures :
         (\A j \in 1 .. k : Findable(pictures[j])) =>
           k \in DOMAIN files /\ files[k] = FileOf(pictures[k])
  /\ pc = "panicked" => \E p \in Range(pictures) : ~Findable(p)

(* A call of BlockIter::next goes forward and passes over no free block: between the block it  *)
(* began at and the one it gives, or the end of the device, all blocks are in use, wherever    *)
(* the bitmap is the right one.                                                                *)
PassesNoFreeBlock ==
  [][LET next == IF Given THEN block_id' ELSE BlockCount - FirstDataBlock
     IN  /\ Given => block_id' > block_id /\ (BitmapRight(GroupOf(block_id')) =>
                       block_id' % BlocksPerGroup \notin used[GroupOf(block_id')])
         /\ \A n \in block_id + 1 .. next - 1 :
              BitmapRight(GroupOf(n)) => n % BlocksPerGroup \in used[GroupOf(n)]]_vars

(* The search ends, on every device. *)
Terminates == <>(pc \in {"done", "panicked"})
=============================================================================
