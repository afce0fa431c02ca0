-------------------------------- MODULE Ext2 --------------------------------
(***************************************************************************)
(* What recovery/src/ext2.rs computes from an ext2 image: which blocks are *)
(* free, one after the other (BlockIter), and which blocks of a file hold  *)
(* addresses instead of data (block_is_indirect).                          *)
(*                                                                         *)
(* Blocks are numbered within the groups, from 0; FirstDataBlock is added  *)
(* for the device.  A bitmap is the set of the places of its ones: byte n  *)
(* holds places 8n to 8n + 7, the lowest bit first.                        *)
(***************************************************************************)
EXTENDS Naturals, SequencesExt

CONSTANTS BlockSize,       \* fields of the superblock
          BlocksPerGroup,
          BlockCount,
          FirstDataBlock

ASSUME SuperblockAssumption ==
  /\ BlockSize \in Nat /\ BlockSize >= 4 /\ BlockSize % 4 = 0
  /\ BlocksPerGroup \in Nat \ {0} /\ BlocksPerGroup % 8 = 0
  /\ BlocksPerGroup <= 8 * BlockSize   \* the bitmap of a group is one block
  /\ FirstDataBlock = 1   \* blocks of 1 KiB: the only ones whose table of groups is at byte 2048
  /\ BlockCount \in Nat /\ BlockCount > FirstDataBlock

VARIABLES used,         \* the device: the numbers in use in each group
          block_id,     \* BlockIter.block_id
          block_bitmap  \* BlockIter.block_bitmap

\* Superblock::block_group_count
GroupCount == 1 + (BlockCount - 1) \div BlocksPerGroup
Groups == 0 .. GroupCount - 1

InGroup == 0 .. BlocksPerGroup - 1
GroupOf(b) == b \div BlocksPerGroup

\* The group whose descriptor the code has for group g: from_file reads all from one offset.
Descriptor(g) == 0

\* Ext2FS::read_bitmap
ReadBitmap(g) == used[Descriptor(g)]

IterInit ==
  /\ block_id = 0
  /\ block_bitmap = ReadBitmap(0)

\* Superblock::bitmap_size, in bytes
BitmapSize == 1 + (BlocksPerGroup - 1) \div 8

\* Mutant: the bits are inverted after the shift, so that the ones shifted in are free.
BitsInvertedLast(bitmap, byte, bit) == {k \in 0 .. 7 : bit + k > 7 \/ byte * 8 + bit + k \notin bitmap}

\* The places of the ones in !bitmap[byte] >> bit; what is shifted in is zero.
Bits(bitmap, byte, bit) == {k \in 0 .. 7 - bit : byte * 8 + bit + k \notin bitmap}

\* The loop of next: byte by byte of the bitmap, then of the one of the next group; the number of
\* the first free block from there on, if there is one, and the bitmap at hand.
RECURSIVE Search(_, _, _, _)
Search(bitmap, group, byte, bit) ==
  IF byte >= BitmapSize
  THEN IF group + 1 < GroupCount
       THEN Search(ReadBitmap(group + 1), group + 1, 0, 0)
       ELSE [found |-> FALSE, id |-> block_id, bitmap |-> bitmap]
  ELSE IF Bits(bitmap, byte, bit) = {}
       THEN Search(bitmap, group, byte + 1, 0)
       ELSE [found |-> TRUE, bitmap |-> bitmap,
             id |-> group * BlocksPerGroup + byte * 8 + bit + Min(Bits(bitmap, byte, bit))]

\* Mutant: the search goes on at the block that was given last.
LastInGroup == block_id % BlocksPerGroup

\* The search goes on behind the block that was given last.
BlockIdxInGroup == (block_id % BlocksPerGroup) + 1

Found == Search(block_bitmap, GroupOf(block_id), BlockIdxInGroup \div 8, BlockIdxInGroup % 8)

Advance == block_id' = Found.id /\ block_bitmap' = Found.bitmap

OnDevice(id) == id + FirstDataBlock < BlockCount

\* BlockIter::next returns a block ...
Given == Found.found /\ OnDevice(Found.id) /\ Advance

\* ... or None: no group is left, or the number is past the end of the device.
Exhausted == ~(Found.found /\ OnDevice(Found.id)) /\ Advance
-----------------------------------------------------------------------------
(* Ext2FS::block_is_indirect: is the n-th block of a file, in the order of allocation, one of *)
(* addresses?  A block holds Addresses of them.                                               *)

Addresses == BlockSize \div 4

\* A file has 12 blocks of data, then trees of depth 1, 2 and 3; what is asked for must be one of them.
MaxBlocks ==
  12 + Addresses + Addresses^2 + Addresses^3 + (3 + 2 * Addresses + Addresses^2)

DIndirect == 13 + Addresses
TIndirect == DIndirect + 1 + (Addresses + 1) * Addresses

\* The tree under the doubly-indirect block is a table with rows of Addresses + 1 ...
InDTable(n) == n > DIndirect /\ n <= DIndirect + 1 + (Addresses + 1) * (Addresses - 1)

\* ... the one under the triply-indirect block has rows of RowSize.
RowSize == 1 + Addresses * (Addresses + 1)
InTTable(n) == n > TIndirect /\ n <= TIndirect + 1 + RowSize * (Addresses - 1)

\* Mutant: a row of the second table begins with one block of addresses, not two.
BlockIsIndirectFlat(n) ==
  \/ n \in {12, DIndirect, TIndirect}
  \/ InDTable(n) /\ (n - (DIndirect + 1)) % (Addresses + 1) = 0
  \/ InTTable(n) /\ ((n - (TIndirect + 1)) % RowSize) % (Addresses + 1) = 0

BlockIsIndirect(n) ==
  \/ n \in {12, DIndirect, TIndirect}
  \/ InDTable(n) /\ (n - (DIndirect + 1)) % (Addresses + 1) = 0
  \/ InTTable(n) /\ LET col == (n - (TIndirect + 1)) % RowSize
                    IN  col \in {0, 1} \/ (col - 1) % (Addresses + 1) = 0
=============================================================================
