------------------------------- MODULE Layout -------------------------------
(***************************************************************************)
(* How FS_PartitionFormat (fs/fs.c) divides a partition of n sectors: boot *)
(* sector, super block, block bitmap, inode bitmap, inode table, data.     *)
(* Sectors are counted from the start of the partition.                    *)
(***************************************************************************)
EXTENDS Integers

CONSTANTS
  ByteBits,         \* bits of a byte (8)
  SectorBits,       \* BITS_PER_SECTOR (4096)
  InodeBitmapSects, \* 1
  InodeTableSects   \* 608

ASSUME LayoutAssumption ==
  /\ {ByteBits, SectorBits, InodeBitmapSects, InodeTableSects} \subseteq Nat \ {0}
  /\ SectorBits % ByteBits = 0

UsedSects == 1 + 1 + InodeBitmapSects + InodeTableSects
FreeSects(n) == n - UsedSects

DivRoundUp(x, step) == (x + step - 1) \div step

(* The first estimate counts the sectors of the bitmap as blocks.          *)
BlockBitmapBitLen(n) == FreeSects(n) - DivRoundUp(FreeSects(n), SectorBits)
BlockBitmapSects(n) == DivRoundUp(BlockBitmapBitLen(n), SectorBits)

BlockBitmapLBA == 2
InodeBitmapLBA(n) == BlockBitmapLBA + BlockBitmapSects(n)
InodeTableLBA(n) == InodeBitmapLBA(n) + InodeBitmapSects
DataStartLBA(n) == InodeTableLBA(n) + InodeTableSects

(* The partitions FS_PartitionFormat is made for: a smaller one makes line *)
(* 30 wrap around, or loses the root's bit to the memset of line 120.      *)
LargeEnough(n) == BlockBitmapBitLen(n) >= ByteBits

(* The bits of the block bitmap on the disk that stay 0: memset sets those *)
(* of the last byte and behind it, and the loop clears as many of the last *)
(* byte as the remainder says, and one.                                    *)
LastFree_TwoMore(n) == (BlockBitmapBitLen(n) % ByteBits) + 1
LastFree(n) == BlockBitmapBitLen(n) % ByteBits

FreeBits(n) ==
  LET lastByte == BlockBitmapBitLen(n) \div ByteBits
  IN {b \in 1 .. BlockBitmapSects(n) * SectorBits - 1 :
        \/ b \div ByteBits < lastByte
        \/ b \div ByteBits = lastByte /\ b % ByteBits <= LastFree(n)}
=============================================================================
