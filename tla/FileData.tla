------------------------------ MODULE FileData ------------------------------
(***************************************************************************)
(* The bytes of one file: File_Write and File_Read (fs/file.c), sys_read,  *)
(* sys_write and sys_lseek (kernel/syscall.c), the block map of its inode  *)
(* and the block bitmap, in memory and on the disk.  One task writes, as   *)
(* writeDeny wants it; any task reads, each through a File of its own; the *)
(* rest of the file system takes and gives back blocks.  A step is the     *)
(* code from one disk access to the next.  What the disk holds is right in *)
(* every state exactly when it is right wherever the machine may stop.     *)
(***************************************************************************)
EXTENDS Integers, Sequences, FiniteSets, FiniteSetsExt

CONSTANTS
  Writer, Readers,
  BlockSize,     \* BLOCK_PER_SIZE (512), also the size of a sector
  MaxDirect,     \* MAX_DIRECT_BLOCK (12)
  NBlocks,       \* the blocks of the data area
  BitsPerSector, \* bits of the block bitmap in one sector (4096)
  MaxCount,      \* bound: bytes of one read or write
  Wrap           \* 2^32

Tasks == {Writer} \cup Readers
Blocks == 1 .. NBlocks            \* 0 is "no block", and sector 0 of the disk
MaxSectors == MaxDirect + 1       \* MAX_SECTOR_PRE_INODE
Index == 0 .. MaxDirect           \* of iSectors; MaxDirect: the indirect table

ASSUME FileDataAssumption ==
  /\ Writer \notin Readers
  /\ {BlockSize, MaxDirect, NBlocks, BitsPerSector, MaxCount} \subseteq Nat \ {0}
  /\ Wrap \in Nat /\ Wrap > MaxSectors * BlockSize + MaxCount

VARIABLES
  memBits, diskBits,   \* the block bitmap: the blocks taken
  others,              \* the blocks the rest of the file system has taken
  iSize, iSectors,     \* the inode in memory
  dSize, dSectors,     \* the inode on the disk
  twoSec,              \* the inode lies across two sectors
  sect,                \* the sectors: offset -> byte; byte p of the file is
                       \* written as p + 1, and 0 is what nobody has written
  bootIntact,          \* sector 0 of the disk has not been overwritten
  pos,                 \* fdPos of each task's File
  pc, call,            \* where each task is, and its local variables
  acked,               \* history: the size at the last return of a write
  shortage,            \* history: a write has failed for want of a block
  panic                \* "none", or where the kernel stopped

bitVars == <<memBits, diskBits, others>>
inodeVars == <<iSize, iSectors, twoSec>>
diskVars == <<dSize, dSectors, sect, bootIntact>>
histVars == <<acked, shortage>>
vars == <<bitVars, inodeVars, diskVars, pos, pc, call, histVars, panic>>

Zeros == [o \in 0 .. BlockSize - 1 |-> 0]
NoCall == [count |-> 0, has |-> 0, will |-> 0, idx |-> 0,
           all |-> [i \in Index |-> 0], buf |-> Zeros, left |-> 0, got |-> <<>>]

(* The file has just been created and opened. *)
Init ==
  /\ memBits = {} /\ diskBits = {} /\ others = {}
  /\ iSize = 0 /\ iSectors = [i \in Index |-> 0]
  /\ dSize = 0 /\ dSectors = [i \in Index |-> 0]
  /\ twoSec \in BOOLEAN
  /\ sect = [b \in 0 .. NBlocks |-> Zeros]
  /\ bootIntact = TRUE
  /\ pos = [t \in Tasks |-> 0]
  /\ pc = [t \in Tasks |-> "idle"]
  /\ call = [t \in Tasks |-> NoCall]
  /\ acked = 0 /\ shortage = FALSE
  /\ panic = "none"

(* A failed ASSERT; or the use of memory or addresses nobody has written,  *)
(* after which nothing is known.                                           *)
Panic(where) ==
  /\ panic' = where
  /\ UNCHANGED <<bitVars, inodeVars, diskVars, pos, pc, call, histVars>>

Return(t) ==
  /\ pc' = [pc EXCEPT ![t] = "idle"]
  /\ call' = [call EXCEPT ![t] = NoCall]

(* File_AllocBlockInBlockBitmap finds the first free block. *)
Free == Blocks \ memBits

Taken_Unset(b) == memBits
Taken(b) == memBits \cup {b}

(* File_BitmapSync: the bitmap on the disk once the sector with b's bit is *)
(* written from the bitmap in memory, bits.                                *)
SameSector(b) == {c \in Blocks : (c - 1) \div BitsPerSector = (b - 1) \div BitsPerSector}

Synced_Never(b, bits) == diskBits
Synced(b, bits) == (diskBits \ SameSector(b)) \cup (bits \cap SameSector(b))

-----------------------------------------------------------------------------
(* File_Write *)

OutOfBlocks(t) ==
  /\ Return(t)
  /\ shortage' = TRUE
  /\ UNCHANGED <<bitVars, inodeVars, diskVars, pos, acked, panic>>

Fits_Any(count) == TRUE
Fits(count) == iSize + count <= MaxSectors * BlockSize

(* sys_write and File_Write up to line 404: the size is checked, and the   *)
(* first write takes the first block.                                      *)
Write(t, count) ==
  LET b == Min(Free)
      start == [NoCall EXCEPT !.count = count, !.left = count]
  IN /\ pc[t] = "idle"
     /\ Fits(count)
     /\ IF iSectors[0] # 0
        THEN UNCHANGED <<memBits, diskBits, iSectors, shortage>> /\ pc' = [pc EXCEPT ![t] = "plan"]
        ELSE IF Free = {}
        THEN shortage' = TRUE /\ UNCHANGED <<memBits, diskBits, iSectors, pc>>
        ELSE /\ memBits' = Taken(b)
             /\ diskBits' = Synced(b, memBits')
             /\ iSectors' = [iSectors EXCEPT ![0] = b]
             /\ pc' = [pc EXCEPT ![t] = "plan"]
             /\ UNCHANGED shortage
     /\ call' = IF pc'[t] = "idle" THEN call ELSE [call EXCEPT ![t] = start]
     /\ UNCHANGED <<others, iSize, twoSec, diskVars, pos, acked, panic>>

BlocksUsed(size) == size \div BlockSize + 1

(***************************************************************************)
(* Lines 406 to 454 and 473 to 491: buffers, how many blocks are missing,  *)
(* and the indirect table when the direct blocks do not suffice.  Case 3   *)
(* (line 518) is behind the ASSERT of line 423 and cannot happen.          *)
(***************************************************************************)
Plan(t) ==
  LET has == BlocksUsed(iSize)
      will == BlocksUsed(iSize + call[t].count)
      Go(label) ==
        /\ pc' = [pc EXCEPT ![t] = label]
        /\ call' = [call EXCEPT ![t].has = has, ![t].will = will, ![t].idx = has,
                                ![t].all = [call[t].all EXCEPT ![has - 1] = iSectors[has - 1]]]
        /\ UNCHANGED shortage
  IN /\ pc[t] = "plan"
     /\ \/ Return(t) /\ UNCHANGED <<bitVars, inodeVars, diskVars, pos, histVars, panic>>
        \/ will > MaxSectors /\ Panic("file.c:423")
        \/ /\ will <= MaxDirect
           /\ IF will > has /\ iSectors[has - 1] = 0
              THEN Panic("file.c:450")
              ELSE /\ Go(IF will > has THEN "grow" ELSE "read")
                   /\ UNCHANGED <<bitVars, inodeVars, diskVars, pos, acked, panic>>
        \/ /\ will = MaxSectors /\ has = will
           /\ Panic(IF iSectors[MaxDirect] = 0 THEN "file.c:440" ELSE "file.c:443")
        \/ /\ will = MaxSectors /\ has < will
           /\ IF Free = {}
              THEN OutOfBlocks(t)
              ELSE IF iSectors[MaxDirect] # 0
              THEN Panic("file.c:488")
              ELSE /\ memBits' = Taken(Min(Free))
                   /\ iSectors' = [iSectors EXCEPT ![MaxDirect] = Min(Free)]
                   /\ Go("grow")
                   /\ UNCHANGED <<diskBits, others, iSize, twoSec, diskVars, pos,
                                  acked, panic>>

(* One block more (lines 455 to 472 and 492 to 515), and the new table at  *)
(* last, which goes to sector 0: indirectBlockTable still is 0.            *)
Grow(t) ==
  LET c == call[t]
      b == Min(Free)
  IN /\ pc[t] = "grow"
     /\ IF c.idx = c.will
        THEN /\ pc' = [pc EXCEPT ![t] = "read"]
             /\ bootIntact' = (bootIntact /\ c.will <= MaxDirect)
             /\ UNCHANGED <<bitVars, inodeVars, dSize, dSectors, sect, pos, call, histVars, panic>>
        ELSE IF Free = {}
        THEN OutOfBlocks(t)
        ELSE IF c.idx < MaxDirect /\ iSectors[c.idx] # 0
        THEN Panic(IF c.will <= MaxDirect THEN "file.c:465" ELSE "file.c:505")
        ELSE /\ memBits' = Taken(b)
             /\ diskBits' = Synced(b, memBits')
             /\ iSectors' = IF c.idx < MaxDirect THEN [iSectors EXCEPT ![c.idx] = b] ELSE iSectors
             /\ call' = [call EXCEPT ![t].all[c.idx] = b, ![t].idx = @ + 1]
             /\ UNCHANGED <<others, iSize, twoSec, diskVars, pos, pc, histVars, panic>>

(* The sector to be filled up is read (lines 547 to 564). *)
ReadLast(t) ==
  /\ pc[t] = "read"
  /\ pos' = [pos EXCEPT ![t] = (iSize - 1) % Wrap]
  /\ call' = [call EXCEPT ![t].buf = sect[call[t].all[iSize \div BlockSize]]]
  /\ pc' = [pc EXCEPT ![t] = "write"]
  /\ UNCHANGED <<bitVars, inodeVars, diskVars, histVars, panic>>

Offset_Stale == 0
Offset_Next == (iSize + 1) % BlockSize
Offset == iSize % BlockSize

(* The rest of the loop (lines 566 to 581).  bytesLeft -= bytesLeft: after *)
(* the first sector nothing is left, and the loop never ends.              *)
WriteChunk(t) ==
  LET c == call[t]
      lba == c.all[iSize \div BlockSize]
      chunk == Min({c.left, BlockSize - Offset})
  IN /\ pc[t] = "write"
     /\ sect' = [sect EXCEPT ![lba] =
                   [o \in DOMAIN Zeros |->
                      IF o \in Offset .. Offset + chunk - 1 THEN iSize - Offset + o + 1 ELSE c.buf[o]]]
     /\ iSize' = iSize + chunk
     /\ pos' = [pos EXCEPT ![t] = (@ + chunk) % Wrap]
     /\ call' = [call EXCEPT ![t].left = 0]
     /\ pc' = [pc EXCEPT ![t] = IF chunk < c.count THEN "spin" ELSE "inode"]
     /\ UNCHANGED <<bitVars, iSectors, twoSec, dSize, dSectors, bootIntact, acked, shortage, panic>>

Spin(t) ==
  /\ pc[t] = "spin"
  /\ sect' = [sect EXCEPT ![call[t].all[iSize \div BlockSize]] = Zeros]
  /\ UNCHANGED <<bitVars, inodeVars, dSize, dSectors, bootIntact, pos, pc, call, histVars, panic>>

(* Inode_Write, with a buffer of one sector, and the return. *)
WriteInode(t) ==
  /\ pc[t] = "inode"
  /\ IF twoSec
     THEN Panic("file.c:585")
     ELSE /\ dSize' = iSize
          /\ dSectors' = iSectors
          /\ acked' = iSize
          /\ Return(t)
          /\ UNCHANGED <<bitVars, inodeVars, sect, bootIntact, pos, shortage, panic>>

-----------------------------------------------------------------------------
(* File_Read and sys_lseek *)

NeedRead(t, count) ==
  IF (pos[t] + count) % Wrap > iSize THEN (iSize - pos[t]) % Wrap ELSE count

LastBlock_Short(t, need) == (pos[t] + need - 2) \div BlockSize
LastBlock(t, need) == (pos[t] + need) \div BlockSize

(* Up to line 354: the addresses of the blocks.  Those behind the direct   *)
(* blocks come from a table that File_Write has not written.               *)
Read(t, count) ==
  LET need == NeedRead(t, count)
      first == pos[t] \div BlockSize
      last == LastBlock(t, need)
  IN /\ pc[t] = "idle"
     /\ need # 0
     /\ IF last >= MaxDirect
        THEN Panic(IF first = last THEN "file.c:327"
                   ELSE IF iSectors[MaxDirect] = 0 THEN "file.c:345" ELSE "file.c:347")
        ELSE /\ pc' = [pc EXCEPT ![t] = "rchunk"]
             /\ call' = [call EXCEPT ![t] =
                           [NoCall EXCEPT !.left = need,
                                          !.all = [i \in Index |-> IF i \in first .. last
                                                                   THEN iSectors[i] ELSE 0]]]
             /\ UNCHANGED <<bitVars, inodeVars, diskVars, pos, histVars, panic>>

Beyond == -1    \* a byte behind the buffer of one sector

(* One round of the loop of line 359.  It copies from secLeftBytes on, not *)
(* from secOffBytes on.                                                    *)
ReadChunk(t) ==
  LET c == call[t]
      left == BlockSize - (pos[t] % BlockSize)
      chunk == Min({c.left, left})
      Byte(o) == IF o < BlockSize THEN sect[c.all[pos[t] \div BlockSize]][o] ELSE Beyond
  IN /\ pc[t] = "rchunk" /\ c.left > 0
     /\ pos' = [pos EXCEPT ![t] = @ + chunk]
     /\ call' = [call EXCEPT ![t].left = @ - chunk,
                             ![t].got = @ \o [k \in 1 .. chunk |-> Byte(left + k - 1)]]
     /\ UNCHANGED <<bitVars, inodeVars, diskVars, pc, histVars, panic>>

ReadReturn(t) ==
  /\ pc[t] = "rchunk" /\ call[t].left = 0
  /\ Return(t)
  /\ UNCHANGED <<bitVars, inodeVars, diskVars, pos, histVars, panic>>

(* SEEK_SET and SEEK_CUR; SEEK_END asks for the size itself, which the     *)
(* check of line 103 always refuses.                                       *)
Lseek(t, whence, offset) ==
  LET new == CASE whence = "set" -> offset
               [] whence = "cur" -> pos[t] + offset
               [] whence = "end" -> iSize
  IN /\ pc[t] = "idle"
     /\ new \in 0 .. iSize - 1
     /\ pos' = [pos EXCEPT ![t] = new]
     /\ UNCHANGED <<bitVars, inodeVars, diskVars, pc, call, histVars, panic>>

-----------------------------------------------------------------------------
(* Other files and directories take a block, and write the bitmap or, for  *)
(* the number of a new inode, do not; and give blocks back.                *)
OtherAlloc ==
  /\ Free # {}
  /\ memBits' = memBits \cup {Min(Free)}
  /\ others' = others \cup {Min(Free)}
  /\ diskBits' \in {diskBits, Synced(Min(Free), memBits')}
  /\ UNCHANGED <<inodeVars, diskVars, pos, pc, call, histVars, panic>>

OtherFree ==
  \E b \in others :
    /\ memBits' = memBits \ {b}
    /\ diskBits' = Synced(b, memBits')
    /\ others' = others \ {b}
    /\ UNCHANGED <<inodeVars, diskVars, pos, pc, call, histVars, panic>>

WriterStep(t) ==
  \/ Plan(t) \/ Grow(t) \/ ReadLast(t) \/ WriteChunk(t) \/ Spin(t) \/ WriteInode(t)

Step(t) ==
  \/ \E count \in 1 .. MaxCount : Read(t, count)
  \/ ReadChunk(t) \/ ReadReturn(t)
  \/ \E whence \in {"set", "cur", "end"}, offset \in -1 .. 1 : Lseek(t, whence, offset)

Next ==
  \/ /\ panic = "none"
     /\ \/ \E t \in Tasks : Step(t)
        \/ \E count \in 1 .. MaxCount : Write(Writer, count)
        \/ WriterStep(Writer)
        \/ OtherAlloc \/ OtherFree
  \/ panic # "none" /\ UNCHANGED vars

Running(A) == panic = "none" /\ A

(* A task that runs reaches its next disk access, and the disk answers.    *)
Fairness ==
  /\ WF_vars(Running(WriterStep(Writer)))
  /\ \A t \in Tasks : WF_vars(Running(ReadChunk(t)))

Spec == Init /\ [][Next]_vars /\ Fairness

-----------------------------------------------------------------------------
Mapped(sectors) == {sectors[i] : i \in Index} \ {0}

(* Types; the file never grows beyond MAX_SECTOR_PRE_INODE sectors.        *)
TypeOK ==
  /\ memBits \subseteq Blocks /\ diskBits \subseteq Blocks /\ others \subseteq Blocks
  /\ iSize \in 0 .. MaxSectors * BlockSize /\ dSize \in 0 .. iSize
  /\ {iSectors, dSectors} \subseteq [Index -> 0 .. NBlocks]
  /\ sect \in [0 .. NBlocks -> [DOMAIN Zeros -> 0 .. MaxSectors * BlockSize]]
  /\ pos \in [Tasks -> 0 .. Wrap - 1]
  /\ pc \in [Tasks -> {"idle", "plan", "grow", "read", "write", "spin", "inode", "rchunk"}]
  /\ \A t \in Tasks : pc[t] \in {"idle", "rchunk"} \/ t = Writer

(***************************************************************************)
(* File_Write writes data, then the inode: wherever the machine stops, the *)
(* inode on the disk describes a prefix of what was appended, at least as  *)
(* long as at the last return of File_Write, and its direct blocks hold    *)
(* exactly these bytes.                                                    *)
(***************************************************************************)
DurablePrefix ==
  /\ acked <= dSize /\ dSize <= iSize
  /\ \A p \in 0 .. Min({dSize, MaxDirect * BlockSize}) - 1 :
       /\ dSectors[p \div BlockSize] # 0
       /\ sect[dSectors[p \div BlockSize]][p % BlockSize] = p + 1

(* File_Write writes the bitmap before the inode: no block of data of the  *)
(* inode on the disk is free on the disk, so that no restart gives it away *)
(* (the block of the indirect table may be: its bit is not synced).        *)
DiskBlocksTaken == {dSectors[i] : i \in Index \ {MaxDirect}} \ {0} \subseteq diskBits

(* A block has one user: no two places of the inode and nobody else share  *)
(* one, also after writes that ran out of blocks halfway.                  *)
NoSharedBlock ==
  /\ Mapped(iSectors) \cap others = {}
  /\ \A i, j \in Index : iSectors[i] # 0 /\ iSectors[i] = iSectors[j] => i = j

(* File_Read reads blocks of the file and no other sector, also while the  *)
(* file grows.                                                             *)
ReadsFile ==
  \A t \in Tasks : pc[t] = "rchunk" /\ call[t].left > 0 =>
    LET i == pos[t] \div BlockSize
    IN i < MaxDirect /\ call[t].all[i] # 0 /\ call[t].all[i] = iSectors[i]

(* The ASSERTs of File_Write that a place of the inode is empty fail only  *)
(* after an earlier write has run out of blocks, which keeps the blocks it *)
(* had got; that of line 423 only for a file of the greatest size; and     *)
(* sector 0 of the disk is overwritten (line 517) only by a file that has  *)
(* got a block for its indirect table.                                     *)
DamageExplained ==
  /\ panic \notin {"file.c:440", "file.c:450", "file.c:345"}
  /\ panic \in {"file.c:465", "file.c:488", "file.c:505"} => shortage
  /\ panic = "file.c:423" => iSize + call[Writer].count = MaxSectors * BlockSize
  /\ bootIntact \/ iSectors[MaxDirect] # 0

(* A write that does not go beyond its sector returns (or stops the        *)
(* kernel), whoever else takes blocks.                                     *)
FitsSector == pc[Writer] = "plan" /\ call[Writer].count <= BlockSize - (iSize % BlockSize)

WriteReturns == FitsSector ~> (pc[Writer] = "idle" \/ panic # "none")

(* file.c:290, "reads the content of the file": what File_Read hands to    *)
(* its caller are the bytes of the file from fdPos on.                     *)
ReadBack ==
  \A t \in Tasks : pc[t] = "rchunk" =>
    \A k \in DOMAIN call[t].got : call[t].got[k] = pos[t] - Len(call[t].got) + k
=============================================================================
