--------------------------- MODULE FileDataProofs ---------------------------
(***************************************************************************)
(* Proofs about FileData, for files, disks and sectors of every size and   *)
(* any number of readers: wherever the machine stops, the disk holds a     *)
(* prefix of what was written, in blocks that are taken and not shared;    *)
(* readers read the file; and which ASSERTs of File_Write can fail when.   *)
(***************************************************************************)
EXTENDS FileData, TLAPS, WellFoundedInduction

Labels == {"idle", "plan", "grow", "read", "write", "spin", "inode", "rchunk"}
Offsets == 0 .. BlockSize - 1
Addresses == [Index -> 0 .. NBlocks]
Calls == [count : Nat, has : Nat, will : Nat, idx : Nat, all : Addresses,
          buf : [Offsets -> Int], left : Nat, got : Seq(Int)]

(* The file ends within the direct blocks: the write that would go beyond  *)
(* them does not return.                                                   *)
FType ==
  /\ memBits \subseteq Blocks /\ diskBits \subseteq Blocks /\ others \subseteq memBits
  /\ iSize \in Nat /\ iSize <= MaxDirect * BlockSize
  /\ dSize \in Nat /\ dSize <= iSize /\ acked = dSize
  /\ iSectors \in Addresses /\ dSectors \in Addresses
  /\ sect \in [0 .. NBlocks -> [Offsets -> Int]]
  /\ bootIntact \in BOOLEAN /\ shortage \in BOOLEAN /\ twoSec \in BOOLEAN
  /\ pos \in [Tasks -> Nat]
  /\ pc \in [Tasks -> Labels]
  /\ \A t \in Tasks : pc[t] \in {"idle", "rchunk"} \/ t = Writer
  /\ call \in [Tasks -> Calls]

(* The blocks of the inode in memory: taken, also on the disk but for the  *)
(* indirect table, and used once.                                          *)
Owned ==
  /\ \A i \in Index : iSectors[i] # 0 =>
       iSectors[i] \in memBits \ others /\ (i # MaxDirect => iSectors[i] \in diskBits)
  /\ \A i, j \in Index : iSectors[i] # 0 /\ iSectors[i] = iSectors[j] => i = j

(* The inode on the disk is an earlier one of the inode in memory.         *)
Copied ==
  /\ \A i \in Index : dSectors[i] # 0 => dSectors[i] = iSectors[i]
  /\ \A p \in 0 .. dSize - 1 : dSectors[p \div BlockSize] # 0

Quiet == {"idle", "rchunk"}

(* The file has a block for every byte and for the one to come.            *)
Backed ==
  iSize > 0 \/ pc[Writer] \notin Quiet =>
    \A i \in Index : i <= iSize \div BlockSize => iSectors[i] # 0

(* The blocks hold the bytes.                                              *)
Written ==
  \A p \in 0 .. iSize - 1 : sect[iSectors[p \div BlockSize]][p % BlockSize] = p + 1

(* Until a write runs out of blocks, the inode has none beyond its size    *)
(* and what File_Write is about to need.                                   *)
Tidy ==
  shortage \/
    LET c == call[Writer]
    IN /\ pc[Writer] \in Quiet \cup {"plan", "inode"} =>
            \A i \in Index : i > iSize \div BlockSize => iSectors[i] = 0
       /\ pc[Writer] \in {"grow", "read", "write"} =>
            \A i \in Index : i >= c.idx /\ (i < MaxDirect \/ c.will <= MaxDirect) => iSectors[i] = 0

(* The local variables of File_Write between line 425 and the loop.        *)
Writing ==
  LET c == call[Writer]
  IN /\ pc[Writer] \in {"plan", "grow", "read", "write"} =>
          /\ c.count > 0 /\ c.left = c.count
          /\ iSize + c.count <= MaxSectors * BlockSize
     /\ pc[Writer] \in {"grow", "read", "write"} =>
          /\ c.has = BlocksUsed(iSize) /\ c.has <= MaxDirect
          /\ c.will = BlocksUsed(iSize + c.count) /\ c.will <= MaxSectors
          /\ c.has <= c.idx /\ c.idx <= c.will
          /\ c.will = MaxSectors => iSectors[MaxDirect] # 0
          /\ \A i \in Index : i < c.idx /\ i < MaxDirect => iSectors[i] # 0
          /\ \A i \in Index : c.has - 1 <= i /\ i < c.idx =>
               IF i < MaxDirect THEN c.all[i] = iSectors[i]
               ELSE \A j \in Index : iSectors[j] # c.all[i]
     /\ pc[Writer] \in {"read", "write"} => c.idx = c.will
     /\ pc[Writer] = "write" => c.buf = sect[iSectors[iSize \div BlockSize]]
     /\ pc[Writer] = "spin" =>
          \A p \in 0 .. iSize - 1 : iSectors[p \div BlockSize] # c.all[iSize \div BlockSize]

(* Positions lie within the file, but for the writer's in the loop, and    *)
(* what a reader has still to read has blocks.                             *)
Reading ==
  \A t \in Tasks :
    /\ pos[t] <= iSize \/ pc[t] = "write"
    /\ pc[t] = "write" => pos[t] = (iSize - 1) % Wrap
    /\ pc[t] = "rchunk" =>
         /\ pos[t] + call[t].left <= iSize
         /\ \A p \in pos[t] .. pos[t] + call[t].left - 1 :
              call[t].all[p \div BlockSize] = iSectors[p \div BlockSize]

FileInv ==
  /\ FType /\ Owned /\ Copied /\ Backed /\ Written /\ Tidy /\ Writing /\ Reading
  /\ DamageExplained

-----------------------------------------------------------------------------
(* Division by the size of a block.                                        *)
LEMMA DivMod ==
  ASSUME NEW x \in Int, NEW k \in Nat \ {0}
  PROVE  /\ x \div k \in Int /\ (x \in Nat => x \div k \in Nat)
         /\ x % k \in 0 .. k - 1
         /\ x = k * (x \div k) + (x % k)
  OBVIOUS

(* The same for naturals: the index of a block and the place in it.        *)
LEMMA DivNat ==
  ASSUME NEW x \in Nat, NEW k \in Nat \ {0}
  PROVE  x \div k \in Nat /\ x % k \in 0 .. k - 1
<1>1. x \in Int
  OBVIOUS
<1> QED BY <1>1, DivMod, Zenon

(* Products with a size.                                                   *)
LEMMA MulMono ==
  ASSUME NEW k \in Nat \ {0}, NEW a \in Int, NEW b \in Int, a < b
  PROVE  k * a + k <= k * b
<1>1. k * (a + 1) <= k * b
  OBVIOUS
<1>2. k * (a + 1) = k * a + k
  OBVIOUS
<1> QED BY <1>1, <1>2

(* The number is all that a quotient and a remainder say.                  *)
LEMMA DivUnique ==
  ASSUME NEW x \in Int, NEW k \in Nat \ {0}, NEW q \in Int, NEW r \in 0 .. k - 1,
         x = k * q + r
  PROVE  x \div k = q /\ x % k = r
<1> DEFINE d == x \div k
           m == x % k
<1>1. d \in Int /\ m \in 0 .. k - 1 /\ x = k * d + m
  BY DivMod
<1> HIDE DEF d, m
<1>2. ~(d < q)
  <2>1. d < q => k * d + k <= k * q
    BY <1>1, MulMono
  <2>2. k * d \in Int /\ k * q \in Int
    BY <1>1
  <2> QED BY <1>1, <2>1, <2>2
<1>3. ~(q < d)
  <2>1. q < d => k * q + k <= k * d
    BY <1>1, MulMono
  <2>2. k * d \in Int /\ k * q \in Int
    BY <1>1
  <2> QED BY <1>1, <2>1, <2>2
<1>4. d = q
  BY <1>1, <1>2, <1>3
<1> QED BY <1>1, <1>4 DEF d, m

(* A larger number has no smaller quotient, and k multiples have k         *)
(* quotients.                                                              *)
LEMMA DivMono ==
  ASSUME NEW x \in Nat, NEW y \in Nat, NEW k \in Nat \ {0}, x <= y
  PROVE  x \div k <= y \div k
<1> DEFINE d == x \div k
           e == y \div k
           m == x % k
           n == y % k
<1>1. d \in Int /\ m \in 0 .. k - 1 /\ x = k * d + m
  BY DivMod
<1>2. e \in Int /\ n \in 0 .. k - 1 /\ y = k * e + n
  BY DivMod
<1> HIDE DEF d, m, e, n
<1>3. ~(e < d)
  <2>1. e < d => k * e + k <= k * d
    BY <1>1, <1>2, MulMono
  <2>2. k * d \in Int /\ k * e \in Int
    BY <1>1, <1>2
  <2> QED BY <1>1, <1>2, <2>1, <2>2
<1>4. d <= e
  BY <1>1, <1>2, <1>3
<1> QED BY <1>4 DEF d, e

(* The blocks of a file of n blocks.                                       *)
LEMMA DivBelow ==
  ASSUME NEW x \in Nat, NEW n \in Nat, NEW k \in Nat \ {0}
  PROVE  x < n * k <=> x \div k < n
<1> DEFINE d == x \div k
           m == x % k
<1>1. d \in Int /\ m \in 0 .. k - 1 /\ x = k * d + m
  BY DivMod
<1> HIDE DEF d, m
<1>2. n * k = k * n /\ k * n \in Int /\ k * d \in Int
  BY <1>1
<1>3. CASE d < n
  <2>1. k * d + k <= k * n
    BY <1>1, <1>3, MulMono
  <2> QED BY <1>1, <1>2, <1>3, <2>1 DEF d
<1>4. CASE ~(d < n)
  <2>1. n = d \/ k * n + k <= k * d
    BY <1>1, <1>4, MulMono
  <2> QED BY <1>1, <1>2, <1>4, <2>1 DEF d
<1> QED BY <1>3, <1>4

(* The first free block is a free block.                                   *)
LEMMA MinIn ==
  ASSUME NEW S \in SUBSET Nat, S # {}
  PROVE  Min(S) \in S /\ \A y \in S : Min(S) <= y
<1>1. PICK x \in S : \A y \in S : ~(<<y, x>> \in OpToRel(<, Nat))
  BY NatLessThanWellFounded, WFMin
<1>2. \A y \in S : x <= y
  <2> SUFFICES ASSUME NEW y \in S, y < x PROVE FALSE
    OBVIOUS
  <2>1. <<y, x>> \in {ss \in Nat \X Nat : ss[1] < ss[2]}
    OBVIOUS
  <2>2. <<y, x>> \in OpToRel(<, Nat)
    BY <2>1, Zenon DEF OpToRel
  <2> QED BY <1>1, <2>2
<1> QED BY <1>2 DEF Min

-----------------------------------------------------------------------------
(* The constants, in the form the steps need them.                         *)
LEMMA Sizes ==
  ASSUME FileDataAssumption
  PROVE  /\ BlockSize \in Nat \ {0} /\ MaxDirect \in Nat \ {0} /\ NBlocks \in Nat \ {0}
         /\ BitsPerSector \in Nat \ {0} /\ MaxCount \in Nat \ {0}
         /\ Wrap \in Nat /\ Wrap > MaxSectors * BlockSize + MaxCount
         /\ MaxSectors = MaxDirect + 1 /\ Index = 0 .. MaxDirect
         /\ Writer \in Tasks /\ Writer \notin Readers
         /\ MaxSectors * BlockSize = MaxDirect * BlockSize + BlockSize
         /\ MaxDirect * BlockSize \in Nat /\ MaxSectors * BlockSize \in Nat
<1>1. /\ BlockSize \in Nat \ {0} /\ MaxDirect \in Nat \ {0} /\ NBlocks \in Nat \ {0}
      /\ BitsPerSector \in Nat \ {0} /\ MaxCount \in Nat \ {0}
      /\ Wrap \in Nat /\ Wrap > MaxSectors * BlockSize + MaxCount
      /\ MaxSectors = MaxDirect + 1 /\ Index = 0 .. MaxDirect
      /\ Writer \in Tasks /\ Writer \notin Readers
  BY DEF FileDataAssumption, MaxSectors, Index, Tasks
<1>2. (MaxDirect + 1) * BlockSize = MaxDirect * BlockSize + BlockSize
  BY <1>1
<1>3. MaxDirect * BlockSize \in Nat
  BY <1>1
<1> QED BY <1>1, <1>2, <1>3

(* Every byte of the file lies in a direct block that the inode has, and   *)
(* the byte to come in a direct block or where the table would be.         *)
LEMMA BytesMapped ==
  ASSUME FileDataAssumption, FType, Backed
  PROVE  /\ iSize \div BlockSize \in Index
         /\ \A p \in 0 .. iSize - 1 :
              /\ p \div BlockSize \in Index /\ p \div BlockSize < MaxDirect
              /\ p \div BlockSize <= iSize \div BlockSize
              /\ p % BlockSize \in Offsets
              /\ iSectors[p \div BlockSize] # 0
<1>0. /\ iSize \in Nat /\ iSize <= MaxDirect * BlockSize
      /\ BlockSize \in Nat \ {0} /\ MaxDirect \in Nat \ {0} /\ Index = 0 .. MaxDirect
      /\ MaxDirect * BlockSize \in Nat /\ MaxSectors \in Nat
      /\ MaxSectors = MaxDirect + 1 /\ MaxSectors * BlockSize = MaxDirect * BlockSize + BlockSize
  BY Sizes DEF FType
<1>1. iSize \div BlockSize \in Index
  <2>1. iSize < MaxSectors * BlockSize
    BY <1>0
  <2>2. iSize \div BlockSize \in Nat /\ iSize \div BlockSize < MaxSectors
    <3>1. iSize \div BlockSize \in Nat
      <4>1. BlockSize \in Nat \ {0} /\ iSize \in Nat /\ iSize \in Int
        BY <1>0
      <4> QED BY <4>1, DivMod, Zenon
    <3>2. iSize < MaxSectors * BlockSize <=> iSize \div BlockSize < MaxSectors
      BY <1>0, DivBelow
    <3> QED BY <2>1, <3>1, <3>2
  <2> QED BY <1>0, <2>2
<1>2. ASSUME NEW p \in 0 .. iSize - 1
      PROVE  /\ p \div BlockSize \in Index /\ p \div BlockSize < MaxDirect
             /\ p \div BlockSize <= iSize \div BlockSize
             /\ p % BlockSize \in Offsets
             /\ iSectors[p \div BlockSize] # 0
  <2>1. p \in Nat /\ p < MaxDirect * BlockSize /\ p <= iSize
    BY <1>0
  <2>2. p \div BlockSize \in Nat /\ p % BlockSize \in Offsets /\ p \div BlockSize < MaxDirect
    <3>1. p \div BlockSize \in Nat /\ p % BlockSize \in 0 .. BlockSize - 1
      <4>1. BlockSize \in Nat \ {0} /\ p \in Nat /\ p \in Int
        BY <1>0, <2>1
      <4> QED BY <4>1, DivMod, Zenon
    <3>2. p < MaxDirect * BlockSize <=> p \div BlockSize < MaxDirect
      BY <1>0, <2>1, DivBelow
    <3> QED BY <2>1, <3>1, <3>2 DEF Offsets
  <2>3. p \div BlockSize <= iSize \div BlockSize
    BY <1>0, <2>1, DivMono
  <2>4. p \div BlockSize \in Index
    BY <1>0, <2>2
  <2>5. iSectors[p \div BlockSize] # 0
    <3>1. iSize > 0
      BY <1>0
    <3> QED BY <2>3, <2>4, <3>1 DEF Backed
  <2> QED BY <2>2, <2>3, <2>4, <2>5
<1> QED BY <1>1, <1>2

(* File_BitmapSync keeps the bits that both bitmaps have, and writes the   *)
(* new one.                                                                *)
LEMMA SyncedBits ==
  ASSUME NEW b \in Blocks, NEW bits \in SUBSET Blocks, diskBits \subseteq Blocks
  PROVE  /\ Synced(b, bits) \subseteq Blocks
         /\ bits \cap diskBits \subseteq Synced(b, bits)
         /\ b \in bits => b \in Synced(b, bits)
  BY DEF Synced, SameSector

(* File_AllocBlockInBlockBitmap returns a block that nobody has.           *)
LEMMA FirstFree ==
  ASSUME FileDataAssumption, Free # {}
  PROVE  Min(Free) \in Blocks \ memBits
<1>1. Free \in SUBSET Nat
  BY Sizes DEF Free, Blocks
<1> QED BY <1>1, MinIn DEF Free

(* The places of the inode that are in use keep their blocks.              *)
Kept == \A i \in Index : iSectors[i] # 0 => iSectors'[i] = iSectors[i]

(* A free block is taken and, if it is for the inode, put in an empty      *)
(* place; only the indirect table goes without the sync.                   *)
LEMMA TakeBlock ==
  ASSUME FileDataAssumption, FType, Owned, NEW b, b = Min(Free), Free # {},
         memBits' = memBits \cup {b}, others' = others,
         \/ diskBits' = Synced(b, memBits')
         \/ diskBits' = diskBits /\ iSectors' = [iSectors EXCEPT ![MaxDirect] = b],
         \/ iSectors' = iSectors
         \/ \E i \in Index : iSectors[i] = 0 /\ iSectors' = [iSectors EXCEPT ![i] = b]
  PROVE  /\ memBits' \subseteq Blocks /\ diskBits' \subseteq Blocks /\ others' \subseteq memBits'
         /\ iSectors' \in Addresses /\ b \in Blocks /\ b # 0
         /\ Owned' /\ Kept
         /\ \A i \in Index : iSectors[i] # b
<1>0. /\ b \in Blocks \ memBits /\ b \in 0 .. NBlocks /\ b # 0
      /\ MaxDirect \in Index /\ Index = 0 .. MaxDirect /\ 0 \notin Blocks
  BY FirstFree, Sizes DEF Blocks
<1>1. /\ memBits \subseteq Blocks /\ diskBits \subseteq Blocks /\ others \subseteq memBits
      /\ iSectors \in [Index -> 0 .. NBlocks]
  BY DEF FType, Addresses
<1>2. /\ diskBits' \subseteq Blocks /\ memBits \cap diskBits \subseteq diskBits'
      /\ b \in diskBits' \/ iSectors' = [iSectors EXCEPT ![MaxDirect] = b]
  <2>1. memBits' \in SUBSET Blocks /\ b \in memBits'
    BY <1>0, <1>1
  <2>2. diskBits' = Synced(b, memBits') =>
          diskBits' \subseteq Blocks /\ memBits' \cap diskBits \subseteq diskBits' /\ b \in diskBits'
    BY <1>0, <1>1, <2>1, SyncedBits
  <2> QED BY <1>1, <2>1, <2>2
<1>3. \A i \in Index : iSectors[i] # b
  BY <1>0 DEF Owned
<1>4. iSectors' \in Addresses /\ Kept
  BY <1>0, <1>1 DEF Kept, Addresses
<1>5. \A j \in Index : \/ iSectors'[j] = iSectors[j]
                       \/ /\ iSectors'[j] = b
                          /\ \A i \in Index : i # j => iSectors'[i] = iSectors[i]
                          /\ iSectors' = [iSectors EXCEPT ![MaxDirect] = b] => j = MaxDirect
  BY <1>0, <1>1, <1>3
<1>6. Owned'
  <2>1. ASSUME NEW i \in Index, iSectors'[i] # 0
        PROVE  iSectors'[i] \in memBits' \ others' /\ (i # MaxDirect => iSectors'[i] \in diskBits')
    BY <1>0, <1>1, <1>2, <1>5, <2>1 DEF Owned
  <2>2. ASSUME NEW i \in Index, NEW j \in Index, iSectors'[i] # 0, iSectors'[i] = iSectors'[j]
        PROVE  i = j
    BY <1>0, <1>3, <1>5, <2>2 DEF Owned
  <2> QED BY <2>1, <2>2 DEF Owned
<1> QED BY <1>0, <1>1, <1>2, <1>3, <1>4, <1>6

(* The bytes, and the inode on the disk, of steps that only give the inode *)
(* more blocks.                                                            *)
LEMMA KeptBytes ==
  ASSUME FileDataAssumption, FType, Backed, Copied, Written, Kept,
         UNCHANGED <<dSectors, dSize, sect, iSize>>
  PROVE  Copied' /\ Written'
<1>1. dSectors \in [Index -> 0 .. NBlocks]
  BY DEF FType, Addresses
<1>2. Copied'
  BY <1>1 DEF Copied, Kept
<1>3. ASSUME NEW p \in 0 .. iSize - 1
      PROVE  sect[iSectors'[p \div BlockSize]][p % BlockSize] = p + 1
  <2>1. iSectors'[p \div BlockSize] = iSectors[p \div BlockSize]
    BY BytesMapped DEF Kept
  <2> QED BY <2>1 DEF Written
<1>4. Written'
  BY <1>3 DEF Written
<1> QED BY <1>2, <1>4

(* Readers whom the writer overtakes: what they read stays where it is.    *)
LEMMA ReadersKept ==
  ASSUME FileDataAssumption, FType, Backed, Reading, Kept, iSize' \in Nat, iSize' >= iSize,
         \A t \in Tasks \ {Writer} : pos'[t] = pos[t] /\ pc'[t] = pc[t] /\ call'[t] = call[t],
         pc'[Writer] # "rchunk",
         pc'[Writer] # "write" => pos'[Writer] <= iSize',
         pc'[Writer] = "write" => pos'[Writer] = (iSize' - 1) % Wrap
  PROVE  Reading'
<1> SUFFICES ASSUME NEW t \in Tasks
             PROVE  /\ pos'[t] <= iSize' \/ pc'[t] = "write"
                    /\ pc'[t] = "write" => pos'[t] = (iSize' - 1) % Wrap
                    /\ pc'[t] = "rchunk" =>
                         /\ pos'[t] + call'[t].left <= iSize'
                         /\ \A p \in pos'[t] .. pos'[t] + call'[t].left - 1 :
                              call'[t].all[p \div BlockSize] = iSectors'[p \div BlockSize]
  BY DEF Reading
<1>1. CASE t = Writer
  BY <1>1
<1>2. CASE t # Writer
  <2>1. pos'[t] = pos[t] /\ pc'[t] = pc[t] /\ call'[t] = call[t] /\ pc[t] \in {"idle", "rchunk"}
    BY <1>2 DEF FType
  <2>2. pos[t] \in Nat /\ call[t] \in Calls /\ call[t].left \in Nat /\ iSize \in Nat
    BY DEF FType, Calls
  <2>3. pos[t] <= iSize /\ pos'[t] <= iSize'
    BY <2>1, <2>2 DEF Reading
  <2>4. ASSUME pc[t] = "rchunk"
        PROVE  /\ pos[t] + call[t].left <= iSize'
               /\ \A p \in pos[t] .. pos[t] + call[t].left - 1 :
                    call[t].all[p \div BlockSize] = iSectors'[p \div BlockSize]
    <3>1. pos[t] + call[t].left <= iSize
      BY <2>4 DEF Reading
    <3>2. ASSUME NEW p \in pos[t] .. pos[t] + call[t].left - 1
          PROVE  call[t].all[p \div BlockSize] = iSectors'[p \div BlockSize]
      <4>1. p \in 0 .. iSize - 1
        BY <2>2, <3>1
      <4>2. iSectors'[p \div BlockSize] = iSectors[p \div BlockSize]
        BY <4>1, BytesMapped DEF Kept
      <4> QED BY <2>4, <4>2 DEF Reading
    <3> QED BY <2>2, <3>1, <3>2
  <2> QED BY <2>1, <2>3, <2>4
<1> QED BY <1>1, <1>2

(* A failed ASSERT stops the kernel where it is.                           *)
LEMMA PanicStep ==
  ASSUME FileDataAssumption, FileInv, NEW where, Panic(where), DamageExplained'
  PROVE  FileInv'
<1>1. UNCHANGED <<memBits, diskBits, others, iSize, iSectors, twoSec, dSize, dSectors, sect,
                  bootIntact, pos, pc, call, acked, shortage>>
  BY DEF Panic, bitVars, inodeVars, diskVars, histVars
<1>2. FType' /\ Owned' /\ Copied'
  BY <1>1 DEF FileInv, FType, Owned, Copied
<1>3. Backed' /\ Written' /\ Reading'
  BY <1>1 DEF FileInv, Backed, Written, Reading
<1>4. Tidy' /\ Writing'
  BY <1>1 DEF FileInv, Tidy, Writing, BlocksUsed
<1> QED BY <1>2, <1>3, <1>4 DEF FileInv

(* Steps of the rest of the file system: only bits change, and not those   *)
(* of the file.                                                            *)
LEMMA OtherStep ==
  ASSUME FileDataAssumption, FileInv, panic = "none", OtherAlloc \/ OtherFree
  PROVE  FileInv'
<1>0. UNCHANGED <<iSize, iSectors, twoSec, dSize, dSectors, sect,
                  bootIntact, pos, pc, call, acked, shortage, panic>>
  BY DEF OtherAlloc, OtherFree, inodeVars, diskVars, histVars
<1>1. /\ memBits \subseteq Blocks /\ diskBits \subseteq Blocks /\ others \subseteq memBits
  BY DEF FileInv, FType
<1>2. /\ memBits' \subseteq Blocks /\ diskBits' \subseteq Blocks /\ others' \subseteq memBits'
      /\ memBits \ others \subseteq memBits' \ others'
      /\ memBits' \cap diskBits \subseteq diskBits'
  <2>1. CASE OtherAlloc
    <3>1. PICK b : b = Min(Free)
      OBVIOUS
    <3>2. b \in Blocks \ memBits
      BY <2>1, <3>1, FirstFree DEF OtherAlloc
    <3>3. /\ memBits' = memBits \cup {b} /\ others' = others \cup {b}
          /\ diskBits' \in {diskBits, Synced(b, memBits')}
      BY <2>1, <3>1 DEF OtherAlloc
    <3>4. Synced(b, memBits') \subseteq Blocks /\ memBits' \cap diskBits \subseteq Synced(b, memBits')
      BY <1>1, <3>2, <3>3, SyncedBits
    <3> QED BY <1>1, <3>2, <3>3, <3>4
  <2>2. CASE OtherFree
    <3>1. PICK b \in others : memBits' = memBits \ {b} /\ others' = others \ {b}
                              /\ diskBits' = Synced(b, memBits')
      BY <2>2 DEF OtherFree
    <3>2. diskBits' \subseteq Blocks /\ memBits' \cap diskBits \subseteq diskBits'
      BY <1>1, <3>1, SyncedBits
    <3> QED BY <1>1, <3>1, <3>2
  <2> QED BY <2>1, <2>2
<1>3. FType'
  BY <1>0, <1>2 DEF FileInv, FType
<1>4. Owned'
  BY <1>0, <1>2 DEF FileInv, Owned
<1>5. Copied' /\ Backed' /\ Written' /\ Reading'
  BY <1>0 DEF FileInv, Copied, Backed, Written, Reading
<1>6. Tidy' /\ Writing'
  BY <1>0 DEF FileInv, Tidy, Writing, BlocksUsed
<1>7. DamageExplained'
  BY <1>0 DEF FileInv, DamageExplained
<1> QED BY <1>3, <1>4, <1>5, <1>6, <1>7 DEF FileInv

-----------------------------------------------------------------------------
(* Steps of File_Read and sys_lseek, which change the caller's position    *)
(* and local variables.                                                    *)
LEMMA ReaderFrame ==
  ASSUME FileDataAssumption, FileInv, panic = "none", NEW t \in Tasks,
         pc[t] \in Quiet, pc'[t] \in Quiet,
         pc' \in [Tasks -> Labels], pos' \in [Tasks -> Nat], call' \in [Tasks -> Calls],
         \A u \in Tasks : u # t => pos'[u] = pos[u] /\ pc'[u] = pc[u] /\ call'[u] = call[u],
         UNCHANGED <<bitVars, inodeVars, diskVars, histVars, panic>>,
         pos'[t] <= iSize,
         pc'[t] = "rchunk" =>
           /\ pos'[t] + call'[t].left <= iSize
           /\ \A p \in pos'[t] .. pos'[t] + call'[t].left - 1 :
                call'[t].all[p \div BlockSize] = iSectors[p \div BlockSize]
  PROVE  FileInv'
<1>0. UNCHANGED <<memBits, diskBits, others, iSize, iSectors, twoSec, dSize, dSectors, sect,
                  bootIntact, acked, shortage, panic>>
  BY DEF bitVars, inodeVars, diskVars, histVars
<1>1. /\ Writer \in Tasks
      /\ \/ pc[Writer] \in Quiet /\ pc'[Writer] \in Quiet
         \/ pc'[Writer] = pc[Writer] /\ call'[Writer] = call[Writer]
  BY Sizes
<1>2. FType'
  <2>1. \A u \in Tasks : pc'[u] \in {"idle", "rchunk"} \/ u = Writer
    BY DEF FileInv, FType, Quiet
  <2> QED BY <1>0, <2>1 DEF FileInv, FType
<1>3. Owned' /\ Copied' /\ Written'
  BY <1>0 DEF FileInv, Owned, Copied, Written
<1>4. Backed'
  BY <1>0, <1>1 DEF FileInv, Backed
<1>5. Tidy'
  BY <1>0, <1>1 DEF FileInv, Tidy, Quiet
<1>6. Writing'
  BY <1>0, <1>1 DEF FileInv, Writing, Quiet, BlocksUsed
<1>7. Reading'
  <2>1. ASSUME NEW u \in Tasks, u # t
        PROVE  /\ pos'[u] <= iSize' \/ pc'[u] = "write"
               /\ pc'[u] = "write" => pos'[u] = (iSize' - 1) % Wrap
               /\ pc'[u] = "rchunk" =>
                    /\ pos'[u] + call'[u].left <= iSize'
                    /\ \A p \in pos'[u] .. pos'[u] + call'[u].left - 1 :
                         call'[u].all[p \div BlockSize] = iSectors'[p \div BlockSize]
    BY <1>0, <2>1 DEF FileInv, Reading
  <2>2. pc'[t] # "write"
    BY DEF Quiet
  <2> QED BY <1>0, <2>1, <2>2 DEF Reading
<1>8. DamageExplained'
  BY <1>0 DEF FileInv, DamageExplained
<1> QED BY <1>2, <1>3, <1>4, <1>5, <1>6, <1>7, <1>8 DEF FileInv

(* Min of two numbers, as File_Write and File_Read bound their chunks.     *)
LEMMA MinOfTwo ==
  ASSUME NEW x \in Nat, NEW y \in Nat
  PROVE  /\ Min({x, y}) \in {x, y} /\ Min({x, y}) \in Nat
         /\ Min({x, y}) <= x /\ Min({x, y}) <= y
<1>1. {x, y} \in SUBSET Nat /\ {x, y} # {}
  OBVIOUS
<1>2. Min({x, y}) \in {x, y} /\ \A z \in {x, y} : Min({x, y}) <= z
  BY <1>1, MinIn
<1> QED BY <1>2

(* A call that has not begun.                                              *)
LEMMA NoCallTyped ==
  ASSUME FileDataAssumption
  PROVE  NoCall \in Calls
<1>1. Zeros \in [Offsets -> Int]
  BY DEF Zeros, Offsets
<1>2. [i \in Index |-> 0] \in Addresses
  BY Sizes DEF Addresses
<1>3. <<>> \in Seq(Int)
  OBVIOUS
<1> QED BY <1>1, <1>2, <1>3 DEF NoCall, Calls

(* File_Read cuts the bytes to be read at the end of the file.             *)
LEMMA NeedWithin ==
  ASSUME FileDataAssumption, FType, NEW t \in Tasks, pos[t] <= iSize,
         NEW count \in 1 .. MaxCount
  PROVE  /\ NeedRead(t, count) \in Nat
         /\ pos[t] + NeedRead(t, count) <= iSize
<1>0. /\ iSize \in Nat /\ pos[t] \in Nat /\ count \in Nat /\ count <= MaxCount
      /\ iSize <= MaxDirect * BlockSize /\ MaxDirect * BlockSize \in Nat
      /\ MaxSectors * BlockSize \in Nat /\ MaxDirect * BlockSize <= MaxSectors * BlockSize
      /\ Wrap \in Nat \ {0} /\ Wrap > MaxSectors * BlockSize + MaxCount /\ MaxCount \in Nat
  BY Sizes, SMTT(30) DEF FType
<1>1. ASSUME NEW x \in Nat, x < Wrap PROVE x % Wrap = x
  <2>1. x = Wrap * 0 + x /\ x \in 0 .. Wrap - 1 /\ x \in Int /\ 0 \in Int
    BY <1>0, <1>1
  <2>2. Wrap \in Nat \ {0}
    BY <1>0
  <2> QED BY <2>1, <2>2, DivUnique, Zenon
<1>2. pos[t] + count \in Nat /\ pos[t] + count < Wrap
  BY <1>0
<1>3. iSize - pos[t] \in Nat /\ iSize - pos[t] < Wrap
  BY <1>0
<1>4. (pos[t] + count) % Wrap = pos[t] + count /\ (iSize - pos[t]) % Wrap = iSize - pos[t]
  BY <1>1, <1>2, <1>3
<1>5. NeedRead(t, count) = IF pos[t] + count > iSize THEN iSize - pos[t] ELSE count
  BY <1>4 DEF NeedRead
<1> QED BY <1>0, <1>5

(* Each step of File_Read and sys_lseek.                                   *)
LEMMA ReaderStep ==
  ASSUME FileDataAssumption, FileInv, panic = "none", NEW t \in Tasks, Step(t)
  PROVE  FileInv'
<1>0. /\ pc \in [Tasks -> Labels] /\ pos \in [Tasks -> Nat] /\ call \in [Tasks -> Calls]
      /\ iSize \in Nat /\ pos[t] \in Nat /\ call[t] \in Calls /\ FType /\ Backed
      /\ iSectors \in Addresses /\ sect \in [0 .. NBlocks -> [Offsets -> Int]]
      /\ BlockSize \in Nat \ {0} /\ MaxDirect \in Nat /\ Index = 0 .. MaxDirect
  BY Sizes DEF FileInv, FType
<1>1. pc[t] \in Quiet => pos[t] <= iSize
  BY DEF FileInv, Reading, Quiet
<1>2. ASSUME NEW count \in 1 .. MaxCount, Read(t, count)
      PROVE  FileInv'
  <2> DEFINE need == NeedRead(t, count)
             first == pos[t] \div BlockSize
             last == LastBlock(t, need)
  <2>1. need \in Nat /\ pos[t] + need <= iSize /\ pos[t] <= iSize
    BY <1>0, <1>1, <1>2, NeedWithin DEF Read, Quiet
  <2>2. /\ first \in Nat /\ last \in Nat /\ last <= iSize \div BlockSize
        /\ \A p \in pos[t] .. pos[t] + need - 1 : p \div BlockSize \in first .. last
    <3> HIDE DEF need
    <3>1. pos[t] + need \in Nat
      BY <1>0, <2>1
    <3>2. first \in Nat /\ last \in Nat
      BY <1>0, <3>1, DivNat, Zenon DEF LastBlock
    <3>3. last <= iSize \div BlockSize
      BY <1>0, <2>1, <3>1, DivMono DEF LastBlock
    <3>4. ASSUME NEW p \in pos[t] .. pos[t] + need - 1
          PROVE  p \div BlockSize \in first .. last
      <4>1. p \in Nat /\ pos[t] <= p /\ p <= pos[t] + need
        BY <1>0, <2>1
      <4>2. first <= p \div BlockSize /\ p \div BlockSize <= last
        BY <1>0, <3>1, <4>1, DivMono DEF LastBlock
      <4>3. p \div BlockSize \in Nat
        BY <1>0, <4>1, DivNat, Zenon
      <4> QED BY <3>2, <4>2, <4>3
    <3> QED BY <3>2, <3>3, <3>4
  <2>3. CASE last >= MaxDirect
    <3>1. iSectors[MaxDirect] # 0
      <4>1. iSize \div BlockSize >= MaxDirect /\ iSize \div BlockSize \in Index
        BY <1>0, <2>2, <2>3, BytesMapped
      <4>2. iSize > 0
        <5>1. CASE iSize = 0
          <6>1. pos[t] = 0 /\ need = 0
            BY <1>0, <2>1, <5>1
          <6> QED BY <1>2, <6>1 DEF Read
        <5> QED BY <1>0, <5>1
      <4>3. MaxDirect \in Index /\ MaxDirect <= iSize \div BlockSize
        BY <1>0, <4>1
      <4> QED BY <1>0, <4>2, <4>3 DEF Backed
    <3>2. Panic("file.c:327") \/ Panic("file.c:347")
      BY <1>2, <2>3, <3>1 DEF Read
    <3>3. DamageExplained'
      BY <3>2 DEF FileInv, DamageExplained, Panic, bitVars, inodeVars, diskVars, histVars
    <3> QED BY <3>2, <3>3, PanicStep
  <2>4. CASE ~(last >= MaxDirect)
    <3> DEFINE all == [i \in Index |-> IF i \in first .. last THEN iSectors[i] ELSE 0]
               new == [NoCall EXCEPT !.left = need, !.all = all]
    <3>1. all \in Addresses
      BY <1>0, Sizes DEF Addresses
    <3>2. \A p \in pos[t] .. pos[t] + need - 1 :
            all[p \div BlockSize] = iSectors[p \div BlockSize]
      <4> SUFFICES ASSUME NEW p \in pos[t] .. pos[t] + need - 1
                   PROVE  all[p \div BlockSize] = iSectors[p \div BlockSize]
        OBVIOUS
      <4>1. p \in 0 .. iSize - 1
        BY <1>0, <2>1
      <4>2. p \div BlockSize \in Index /\ p \div BlockSize \in first .. last
        BY <1>0, <2>2, <4>1, BytesMapped
      <4> QED BY <4>2
    <3>3. /\ pc' = [pc EXCEPT ![t] = "rchunk"] /\ call' = [call EXCEPT ![t] = new]
          /\ pos' = pos /\ pc[t] = "idle"
          /\ UNCHANGED <<bitVars, inodeVars, diskVars, histVars, panic>>
      BY <1>2, <2>4 DEF Read
    <3> HIDE DEF all, need, first, last
    <3>4. new \in Calls /\ new.left = need /\ new.all = all
      BY <2>1, <3>1, NoCallTyped DEF Calls
    <3> HIDE DEF new
    <3>5. /\ pc' \in [Tasks -> Labels] /\ pos' \in [Tasks -> Nat] /\ call' \in [Tasks -> Calls]
          /\ pc'[t] = "rchunk" /\ pc'[t] \in Quiet /\ pc[t] \in Quiet /\ call'[t] = new
          /\ \A u \in Tasks : u # t => pos'[u] = pos[u] /\ pc'[u] = pc[u] /\ call'[u] = call[u]
          /\ pos'[t] = pos[t]
      BY <1>0, <3>3, <3>4 DEF Quiet, Labels
    <3>6. /\ pos'[t] + call'[t].left <= iSize
          /\ \A p \in pos'[t] .. pos'[t] + call'[t].left - 1 :
               call'[t].all[p \div BlockSize] = iSectors[p \div BlockSize]
      BY <2>1, <3>2, <3>4, <3>5
    <3>7. UNCHANGED <<bitVars, inodeVars, diskVars, histVars, panic>>
      BY <3>3
    <3>8. pos'[t] <= iSize
      BY <2>1, <3>5
    <3> HIDE <3>3
    <3> QED BY <3>5, <3>6, <3>7, <3>8, ReaderFrame
  <2> QED BY <2>3, <2>4
<1>3. ASSUME ReadChunk(t)
      PROVE  FileInv'
  <2> DEFINE c == call[t]
             left == BlockSize - (pos[t] % BlockSize)
             chunk == Min({c.left, left})
             Fetched(o) == IF o < BlockSize THEN sect[c.all[pos[t] \div BlockSize]][o] ELSE Beyond
             bytes == [k \in 1 .. chunk |-> Fetched(left + k - 1)]
             new == [c EXCEPT !.left = @ - chunk, !.got = @ \o bytes]
  <2>1. /\ pc[t] = "rchunk" /\ c.left > 0 /\ c.left \in Nat /\ c.got \in Seq(Int)
        /\ c.all \in Addresses
        /\ pos[t] + c.left <= iSize
        /\ \A p \in pos[t] .. pos[t] + c.left - 1 : c.all[p \div BlockSize] = iSectors[p \div BlockSize]
    BY <1>0, <1>3 DEF ReadChunk, FileInv, Reading, Calls
  <2>2. left \in Nat \ {0}
    <3>1. pos[t] % BlockSize \in 0 .. BlockSize - 1
      BY <1>0, DivNat, Zenon
    <3> QED BY <1>0, <3>1
  <2> HIDE DEF left, c
  <2>3. chunk \in Nat /\ chunk <= c.left /\ c.left - chunk \in Nat
    <3>1. c.left \in Nat /\ left \in Nat
      BY <2>1, <2>2
    <3>2. chunk \in Nat /\ chunk <= c.left
      BY <3>1, MinOfTwo, Zenon
    <3> HIDE DEF chunk
    <3> QED BY <3>1, <3>2
  <2> HIDE DEF chunk
  <2>4. bytes \in Seq(Int)
    <3>1. pos[t] \in 0 .. iSize - 1
      <4>1. /\ pos[t] \in Nat /\ iSize \in Nat /\ c.left \in Nat /\ c.left > 0
            /\ pos[t] + c.left <= iSize
        BY <1>0, <2>1
      <4> QED BY <4>1
    <3>2. c.all[pos[t] \div BlockSize] \in 0 .. NBlocks
      BY <1>0, <2>1, <3>1, BytesMapped DEF Addresses
    <3>3. sect[c.all[pos[t] \div BlockSize]] \in [Offsets -> Int]
      BY <1>0, <3>2
    <3>4. ASSUME NEW k \in 1 .. chunk PROVE Fetched(left + k - 1) \in Int
      <4>1. left + k - 1 \in Nat
        BY <2>2, <2>3
      <4>2. ASSUME left + k - 1 < BlockSize
            PROVE  sect[c.all[pos[t] \div BlockSize]][left + k - 1] \in Int
        <5>1. left + k - 1 \in Offsets
          BY <1>0, <4>1, <4>2 DEF Offsets
        <5> QED BY <3>3, <5>1
      <4> QED BY <4>2 DEF Beyond
    <3> HIDE DEF Fetched
    <3> QED BY <2>3, <3>4
  <2>5. /\ pc' = pc /\ call' = [call EXCEPT ![t] = new]
        /\ pos' = [pos EXCEPT ![t] = pos[t] + chunk]
        /\ UNCHANGED <<bitVars, inodeVars, diskVars, histVars, panic>>
    BY <1>0, <1>3 DEF ReadChunk, c, left, chunk
  <2> HIDE DEF bytes, Fetched
  <2>6. c.got \o bytes \in Seq(Int)
    BY <2>1, <2>4
  <2>7. new \in Calls /\ new.left = c.left - chunk /\ new.all = c.all
    <3>1. c \in Calls
      BY <1>0 DEF c
    <3> QED BY <2>3, <2>6, <3>1 DEF Calls
  <2> HIDE DEF new
  <2>8. /\ pc' \in [Tasks -> Labels] /\ pos' \in [Tasks -> Nat] /\ call' \in [Tasks -> Calls]
        /\ pc'[t] \in Quiet /\ pc[t] \in Quiet /\ call'[t] = new /\ pos'[t] = pos[t] + chunk
        /\ \A u \in Tasks : u # t => pos'[u] = pos[u] /\ pc'[u] = pc[u] /\ call'[u] = call[u]
    <3>1. pos[t] + chunk \in Nat
      BY <1>0, <2>3
    <3> QED BY <1>0, <2>1, <2>5, <2>7, <3>1 DEF Quiet
  <2>9. /\ pos'[t] + call'[t].left <= iSize /\ pos'[t] <= iSize
        /\ \A p \in pos'[t] .. pos'[t] + call'[t].left - 1 :
             call'[t].all[p \div BlockSize] = iSectors[p \div BlockSize]
    <3>1. /\ pos'[t] + call'[t].left = pos[t] + c.left /\ pos'[t] >= pos[t]
          /\ pos'[t] \in Nat /\ call'[t].left \in Nat
      <4>1. pos'[t] = pos[t] + chunk /\ call'[t].left = c.left - chunk
        BY <2>7, <2>8
      <4>2. pos[t] \in Nat /\ c.left \in Nat
        BY <1>0, <2>1
      <4> QED BY <2>3, <4>1, <4>2
    <3>2. call'[t].all = c.all
      BY <2>7, <2>8
    <3>3. pos'[t] <= iSize /\ pos'[t] + call'[t].left <= iSize
      <4>1. iSize \in Nat /\ pos[t] + c.left <= iSize
        BY <1>0, <2>1
      <4> QED BY <3>1, <4>1
    <3>4. ASSUME NEW p \in pos'[t] .. pos'[t] + call'[t].left - 1
          PROVE  c.all[p \div BlockSize] = iSectors[p \div BlockSize]
      <4>1. pos[t] \in Nat /\ c.left \in Nat
        BY <1>0, <2>1
      <4>2. p \in Int /\ pos'[t] <= p /\ p < pos'[t] + call'[t].left
        BY <3>1
      <4>3. p \in pos[t] .. pos[t] + c.left - 1
        BY <3>1, <4>1, <4>2
      <4> QED BY <2>1, <4>3
    <3> QED BY <3>2, <3>3, <3>4
  <2>10. UNCHANGED <<bitVars, inodeVars, diskVars, histVars, panic>>
    BY <2>5
  <2> QED BY <2>8, <2>9, <2>10, ReaderFrame
<1>4. ASSUME ReadReturn(t)
      PROVE  FileInv'
  <2>1. /\ pc' = [pc EXCEPT ![t] = "idle"] /\ call' = [call EXCEPT ![t] = NoCall] /\ pos' = pos
        /\ pc[t] = "rchunk" /\ UNCHANGED <<bitVars, inodeVars, diskVars, histVars, panic>>
    BY <1>4 DEF ReadReturn, Return
  <2>2. /\ pc' \in [Tasks -> Labels] /\ pos' \in [Tasks -> Nat] /\ call' \in [Tasks -> Calls]
        /\ pc'[t] = "idle" /\ pc'[t] \in Quiet /\ pc[t] \in Quiet /\ pos'[t] = pos[t]
        /\ \A u \in Tasks : u # t => pos'[u] = pos[u] /\ pc'[u] = pc[u] /\ call'[u] = call[u]
    BY <1>0, <2>1, NoCallTyped DEF Quiet, Labels
  <2>3. pos'[t] <= iSize /\ pc'[t] # "rchunk"
    BY <1>1, <2>2
  <2>4. UNCHANGED <<bitVars, inodeVars, diskVars, histVars, panic>>
    BY <2>1
  <2> QED BY <2>2, <2>3, <2>4, ReaderFrame
<1>5. ASSUME NEW whence, NEW offset, Lseek(t, whence, offset)
      PROVE  FileInv'
  <2>1. PICK new \in 0 .. iSize - 1 : pos' = [pos EXCEPT ![t] = new]
    BY <1>5 DEF Lseek
  <2>2. /\ pc' = pc /\ call' = call /\ pc[t] = "idle"
        /\ UNCHANGED <<bitVars, inodeVars, diskVars, histVars, panic>>
    BY <1>5 DEF Lseek
  <2>3. /\ pc' \in [Tasks -> Labels] /\ pos' \in [Tasks -> Nat] /\ call' \in [Tasks -> Calls]
        /\ pc'[t] = "idle" /\ pc'[t] \in Quiet /\ pc[t] \in Quiet /\ pos'[t] <= iSize
        /\ \A u \in Tasks : u # t => pos'[u] = pos[u] /\ pc'[u] = pc[u] /\ call'[u] = call[u]
    BY <1>0, <2>1, <2>2 DEF Quiet
  <2>4. UNCHANGED <<bitVars, inodeVars, diskVars, histVars, panic>> /\ pc'[t] # "rchunk"
    BY <2>2, <2>3
  <2> QED BY <2>3, <2>4, ReaderFrame
<1> QED BY <1>2, <1>3, <1>4, <1>5 DEF Step

-----------------------------------------------------------------------------
(* Steps of File_Write before the loop: blocks are taken and local         *)
(* variables change, the bytes and the inode on the disk do not.           *)
LEMMA WriterFrame ==
  ASSUME FileDataAssumption, FileInv, panic = "none",
         pc[Writer] \in {"idle", "plan", "grow"}, pc'[Writer] \in {"idle", "plan", "grow", "read"},
         memBits' \subseteq Blocks, diskBits' \subseteq Blocks, others' \subseteq memBits',
         iSectors' \in Addresses, shortage' \in BOOLEAN, bootIntact' \in BOOLEAN,
         bootIntact' \/ iSectors'[MaxDirect] # 0,
         pc' \in [Tasks -> Labels], call' \in [Tasks -> Calls],
         \A u \in Tasks \ {Writer} : pc'[u] = pc[u] /\ call'[u] = call[u],
         UNCHANGED <<iSize, twoSec, dSize, dSectors, sect, pos, acked, panic>>,
         Owned', Kept, Backed', Tidy', Writing'
  PROVE  FileInv'
<1>1. FType /\ Backed /\ Copied /\ Written /\ Reading
  BY DEF FileInv
<1>2. FType'
  BY <1>1, Sizes DEF FType
<1>3. Copied' /\ Written'
  BY <1>1, KeptBytes
<1>4. Reading'
  <2>1. iSize' \in Nat /\ iSize' >= iSize
    BY <1>1 DEF FType
  <2>2. pos'[Writer] <= iSize'
    BY <1>1, Sizes DEF Reading
  <2> QED BY <1>1, <2>1, <2>2, ReadersKept
<1>5. DamageExplained'
  BY DEF DamageExplained
<1> QED BY <1>2, <1>3, <1>4, <1>5 DEF FileInv

(* sys_write gets an error and the file stays as it is, though perhaps     *)
(* with blocks that a write had got before it ran out of them.             *)
LEMMA GivesUp ==
  ASSUME FileDataAssumption, FileInv, panic = "none",
         pc[Writer] \in {"idle", "plan", "grow"}, pc'[Writer] = "idle",
         pc' \in [Tasks -> Labels], call' \in [Tasks -> Calls],
         \A u \in Tasks \ {Writer} : pc'[u] = pc[u] /\ call'[u] = call[u],
         shortage' \/ (pc[Writer] # "grow" /\ shortage' = shortage), shortage' \in BOOLEAN,
         UNCHANGED <<bitVars, inodeVars, diskVars, pos, acked, panic>>
  PROVE  FileInv'
<1>0. UNCHANGED <<memBits, diskBits, others, iSize, iSectors, twoSec, dSize, dSectors, sect,
                  bootIntact, pos, acked, panic>>
  BY DEF bitVars, inodeVars, diskVars
<1>1. FType /\ Owned /\ Backed /\ Tidy /\ DamageExplained
  BY DEF FileInv
<1>2. /\ memBits' \subseteq Blocks /\ diskBits' \subseteq Blocks /\ others' \subseteq memBits'
      /\ iSectors' \in Addresses /\ bootIntact' \in BOOLEAN
  BY <1>0, <1>1 DEF FType
<1>3. bootIntact' \/ iSectors'[MaxDirect] # 0
  BY <1>0, <1>1 DEF DamageExplained
<1>4. Owned' /\ Kept
  BY <1>0, <1>1 DEF Owned, Kept
<1>5. Backed'
  BY <1>0, <1>1 DEF Backed, Quiet
<1>6. Tidy'
  BY <1>0, <1>1 DEF Tidy, Quiet
<1>7. Writing'
  BY DEF Writing
<1> QED BY <1>0, <1>2, <1>3, <1>4, <1>5, <1>6, <1>7, WriterFrame

(* sys_write up to line 404.                                               *)
LEMMA WriteStep ==
  ASSUME FileDataAssumption, FileInv, panic = "none",
         NEW count \in 1 .. MaxCount, Write(Writer, count)
  PROVE  FileInv'
<1>0. /\ FType /\ Owned /\ Backed /\ Tidy /\ DamageExplained
      /\ pc \in [Tasks -> Labels] /\ call \in [Tasks -> Calls] /\ shortage \in BOOLEAN
      /\ bootIntact \in BOOLEAN /\ iSize \in Nat /\ iSectors \in [Index -> 0 .. NBlocks]
      /\ Writer \in Tasks /\ 0 \in Index /\ MaxDirect \in Index /\ MaxDirect # 0
      /\ Index \subseteq Nat /\ count \in Nat /\ count > 0
      /\ BlockSize \in Nat \ {0}
  <2>1. /\ FType /\ Owned /\ Backed /\ Tidy /\ DamageExplained
        /\ pc \in [Tasks -> Labels] /\ call \in [Tasks -> Calls] /\ shortage \in BOOLEAN
        /\ bootIntact \in BOOLEAN /\ iSize \in Nat /\ iSectors \in [Index -> 0 .. NBlocks]
    BY DEF FileInv, FType, Addresses
  <2>2. /\ Writer \in Tasks /\ 0 \in Index /\ MaxDirect \in Index /\ MaxDirect # 0
        /\ Index \subseteq Nat /\ count \in Nat /\ count > 0 /\ BlockSize \in Nat \ {0}
    BY Sizes
  <2> QED BY <2>1, <2>2
<1>1. /\ pc[Writer] = "idle" /\ iSize + count <= MaxSectors * BlockSize
      /\ UNCHANGED <<others, iSize, twoSec, dSize, dSectors, sect, bootIntact, pos, acked, panic>>
  <2>1. /\ pc[Writer] = "idle" /\ Fits(count)
        /\ UNCHANGED <<others, iSize, twoSec, diskVars, pos, acked, panic>>
    BY DEF Write
  <2> QED BY <2>1 DEF Fits, diskVars
<1>2. CASE iSectors[0] = 0 /\ Free = {}
  <2>1. /\ pc' = pc /\ call' = call /\ shortage' = TRUE
        /\ UNCHANGED <<bitVars, inodeVars, diskVars, pos, acked, panic>>
    BY <1>1, <1>2 DEF Write, bitVars, inodeVars, diskVars
  <2> QED BY <1>0, <1>1, <2>1, GivesUp
<1>3. CASE ~(iSectors[0] = 0 /\ Free = {})
  <2> DEFINE start == [NoCall EXCEPT !.count = count, !.left = count]
  <2>1. pc' = [pc EXCEPT ![Writer] = "plan"] /\ shortage' = shortage
    BY <1>3 DEF Write
  <2>2. call' = [call EXCEPT ![Writer] = start]
    <3>1. pc'[Writer] = "plan"
      BY <1>0, <2>1
    <3> QED BY <3>1 DEF Write
  <2>3. start \in Calls /\ start.count = count /\ start.left = count
    BY <1>0, NoCallTyped DEF Calls
  <2> HIDE DEF start
  <2>4. /\ pc' \in [Tasks -> Labels] /\ call' \in [Tasks -> Calls]
        /\ pc'[Writer] = "plan" /\ call'[Writer] = start
        /\ \A u \in Tasks \ {Writer} : pc'[u] = pc[u] /\ call'[u] = call[u]
    BY <1>0, <2>1, <2>2, <2>3 DEF Labels
  <2>5. /\ memBits' \subseteq Blocks /\ diskBits' \subseteq Blocks /\ others' \subseteq memBits'
        /\ iSectors' \in Addresses /\ Owned' /\ Kept /\ iSectors'[0] # 0
        /\ \A i \in Index : i # 0 => iSectors'[i] = iSectors[i]
    <3>1. CASE iSectors[0] # 0
      <4>1. UNCHANGED <<memBits, diskBits, iSectors>>
        BY <3>1 DEF Write
      <4> QED BY <1>0, <1>1, <3>1, <4>1 DEF FType, Owned, Kept
    <3>2. CASE iSectors[0] = 0
      <4>1. PICK b : b = Min(Free)
        OBVIOUS
      <4>2. /\ memBits' = memBits \cup {b} /\ diskBits' = Synced(b, memBits')
            /\ iSectors' = [iSectors EXCEPT ![0] = b] /\ Free # {}
        BY <1>3, <3>2, <4>1 DEF Write, Taken
      <4>3. /\ memBits' \subseteq Blocks /\ diskBits' \subseteq Blocks /\ others' \subseteq memBits'
            /\ iSectors' \in Addresses /\ b # 0 /\ Owned' /\ Kept
        BY <1>0, <1>1, <3>2, <4>1, <4>2, TakeBlock
      <4> QED BY <1>0, <4>2, <4>3
    <3> QED BY <3>1, <3>2
  <2>6. Backed'
    <3> SUFFICES ASSUME NEW i \in Index, i <= iSize \div BlockSize PROVE iSectors'[i] # 0
      BY <1>1 DEF Backed
    <3>1. CASE iSize > 0
      BY <1>0, <2>5, <3>1 DEF Backed, Kept
    <3>2. CASE ~(iSize > 0)
      <4>1. iSize = 0 /\ 0 = BlockSize * 0 + 0 /\ 0 \in 0 .. BlockSize - 1 /\ 0 \in Int
        BY <1>0, <3>2
      <4>2. 0 \div BlockSize = 0
        BY <1>0, <4>1, DivUnique, Zenon
      <4>3. i = 0
        BY <1>0, <4>1, <4>2
      <4> QED BY <2>5, <4>3
    <3> QED BY <3>1, <3>2
  <2>7. Tidy'
    <3>1. \A i \in Index : i > iSize \div BlockSize => i # 0
      <4>1. iSize \div BlockSize \in Nat
        BY <1>0, DivNat, Zenon
      <4> QED BY <4>1
    <3>2. ~shortage => \A i \in Index : i > iSize \div BlockSize => iSectors'[i] = 0
      BY <1>0, <1>1, <2>5, <3>1 DEF Tidy, Quiet
    <3> QED BY <1>1, <2>1, <2>4, <3>2 DEF Tidy
  <2>8. Writing'
    <3>1. /\ call'[Writer].count > 0 /\ call'[Writer].left = call'[Writer].count
          /\ iSize' + call'[Writer].count <= MaxSectors * BlockSize
      BY <1>0, <1>1, <2>3, <2>4
    <3> QED BY <2>4, <3>1 DEF Writing
  <2>9. bootIntact' \/ iSectors'[MaxDirect] # 0
    BY <1>0, <1>1, <2>5 DEF DamageExplained
  <2>10. shortage' \in BOOLEAN /\ bootIntact' \in BOOLEAN
    BY <1>0, <1>1, <2>1
  <2>11. UNCHANGED <<iSize, twoSec, dSize, dSectors, sect, pos, acked, panic>>
    BY <1>1
  <2>12. pc[Writer] \in {"idle", "plan", "grow"} /\ pc'[Writer] \in {"idle", "plan", "grow", "read"}
    BY <1>1, <2>4
  <2> QED BY <2>4, <2>5, <2>6, <2>7, <2>8, <2>9, <2>10, <2>11, <2>12, WriterFrame
<1> QED BY <1>2, <1>3

(* The numbers of blocks that File_Write computes (lines 419 to 422).      *)
LEMMA PlanNumbers ==
  ASSUME FileDataAssumption, FileInv, pc[Writer] = "plan"
  PROVE  LET n == iSize \div BlockSize
             m == (iSize + call[Writer].count) \div BlockSize
         IN /\ n \in Index /\ m \in Nat /\ n <= m
            /\ BlocksUsed(iSize) = n + 1 /\ BlocksUsed(iSize + call[Writer].count) = m + 1
            /\ m + 1 > MaxSectors => iSize + call[Writer].count = MaxSectors * BlockSize
            /\ \A i \in Index : i <= n => iSectors[i] # 0
<1> DEFINE c == call[Writer]
           n == iSize \div BlockSize
           m == (iSize + c.count) \div BlockSize
<1>0. /\ iSize \in Nat /\ c.count \in Nat /\ iSize + c.count <= MaxSectors * BlockSize
      /\ FType /\ Backed
  BY Sizes DEF FileInv, FType, Calls, Writing
<1>1. /\ BlockSize \in Nat \ {0} /\ MaxSectors \in Nat /\ MaxSectors * BlockSize \in Nat
  BY Sizes
<1>2. iSize + c.count \in Nat /\ iSize <= iSize + c.count
  BY <1>0
<1>3. n \in Index
  BY <1>0, BytesMapped
<1>4. m \in Nat /\ n <= m
  <2>1. m \in Nat
    BY <1>1, <1>2, DivNat, Zenon
  <2>2. n <= m
    BY <1>0, <1>1, <1>2, DivMono, Zenon
  <2> QED BY <2>1, <2>2
<1>5. m + 1 > MaxSectors => iSize + c.count = MaxSectors * BlockSize
  <2>1. iSize + c.count < MaxSectors * BlockSize <=> m < MaxSectors
    BY <1>1, <1>2, DivBelow, Zenon
  <2> HIDE DEF m
  <2> QED BY <1>0, <1>1, <1>2, <1>4, <2>1
<1>6. \A i \in Index : i <= n => iSectors[i] # 0
  BY <1>0 DEF Backed, Quiet
<1> QED BY <1>3, <1>4, <1>5, <1>6 DEF BlocksUsed

(* The call of a planned write (lines 424 to 454).                         *)
Planned(c, has, will) ==
  [c EXCEPT !.has = has, !.will = will, !.idx = has,
            !.all = [c.all EXCEPT ![has - 1] = iSectors[has - 1]]]

(* The plan is made, and the table has a block if it is needed.            *)
LEMMA PlanGo ==
  ASSUME FileDataAssumption, FileInv, panic = "none", pc[Writer] = "plan",
         NEW label \in {"grow", "read"}, NEW has, NEW will,
         has = BlocksUsed(iSize), will = BlocksUsed(iSize + call[Writer].count),
         has <= MaxDirect, will <= MaxSectors, label = "read" => will = has,
         pc' = [pc EXCEPT ![Writer] = label],
         call' = [call EXCEPT ![Writer] = Planned(call[Writer], has, will)],
         \A i \in Index : i # MaxDirect => iSectors'[i] = iSectors[i],
         IF will = MaxSectors THEN iSectors'[MaxDirect] # 0 ELSE iSectors' = iSectors,
         memBits' \subseteq Blocks, diskBits' \subseteq Blocks, others' \subseteq memBits',
         iSectors' \in Addresses, Owned', Kept,
         UNCHANGED <<iSize, twoSec, diskVars, pos, acked, shortage, panic>>
  PROVE  FileInv'
<1> DEFINE c == call[Writer]
           new == Planned(c, has, will)
           n == iSize \div BlockSize
           m == (iSize + c.count) \div BlockSize
<1>0. /\ n \in Index /\ m \in Nat /\ n <= m /\ has = n + 1 /\ will = m + 1
      /\ \A i \in Index : i <= n => iSectors[i] # 0
  BY PlanNumbers
<1> HIDE DEF n, m
<1>1. /\ MaxDirect \in Nat \ {0} /\ Index = 0 .. MaxDirect /\ MaxDirect \in Index
      /\ MaxSectors = MaxDirect + 1 /\ Writer \in Tasks
  BY Sizes
<1>2. /\ c \in Calls /\ c.count \in Nat /\ c.count > 0 /\ c.left = c.count /\ iSize \in Nat
      /\ c.all \in [Index -> 0 .. NBlocks] /\ iSectors \in [Index -> 0 .. NBlocks]
      /\ iSize + c.count <= MaxSectors * BlockSize
      /\ pc \in [Tasks -> Labels] /\ call \in [Tasks -> Calls]
      /\ shortage \in BOOLEAN /\ bootIntact \in BOOLEAN
  <2>1. /\ iSectors \in [Index -> 0 .. NBlocks] /\ iSize \in Nat
        /\ pc \in [Tasks -> Labels] /\ call \in [Tasks -> Calls]
        /\ shortage \in BOOLEAN /\ bootIntact \in BOOLEAN
    BY DEF FileInv, FType, Addresses
  <2>2. c \in Calls /\ c.count \in Nat /\ c.all \in [Index -> 0 .. NBlocks]
    BY <1>1, <2>1 DEF Calls, Addresses
  <2>3. c.count > 0 /\ c.left = c.count /\ iSize + c.count <= MaxSectors * BlockSize
    BY DEF FileInv, Writing
  <2> QED BY <2>1, <2>2, <2>3
<1>3. has \in Nat /\ will \in Nat /\ has - 1 \in Index /\ has - 1 = n /\ n < MaxDirect
  BY <1>0, <1>1
<1>4. PICK all \in Addresses : /\ all = [c.all EXCEPT ![has - 1] = iSectors[has - 1]]
                               /\ all[has - 1] = iSectors[has - 1]
  <2>1. c.all \in [Index -> 0 .. NBlocks] /\ iSectors[has - 1] \in 0 .. NBlocks /\ has - 1 \in Index
    BY <1>2, <1>3
  <2>2. PICK k \in Index : k = has - 1
    BY <2>1
  <2> DEFINE all == [c.all EXCEPT ![k] = iSectors[k]]
  <2>3. all \in Addresses /\ all[k] = iSectors[k]
    BY <2>1, <2>2 DEF Addresses
  <2> QED BY <2>2, <2>3
<1>5. /\ new \in Calls /\ new.has = has /\ new.will = will /\ new.idx = has /\ new.all = all
      /\ new.count = c.count /\ new.left = c.left
  <2>1. new = [c EXCEPT !.has = has, !.will = will, !.idx = has, !.all = all]
    BY <1>4 DEF Planned
  <2> HIDE DEF new
  <2> QED BY <1>2, <1>3, <1>4, <2>1 DEF Calls
<1> HIDE DEF new
<1>6. /\ pc' \in [Tasks -> Labels] /\ call' \in [Tasks -> Calls]
      /\ pc'[Writer] = label /\ call'[Writer] = new
      /\ \A u \in Tasks \ {Writer} : pc'[u] = pc[u] /\ call'[u] = call[u]
  BY <1>1, <1>2, <1>5 DEF Labels, new
<1>7. UNCHANGED <<iSize, twoSec, dSize, dSectors, sect, bootIntact, pos, acked, shortage, panic>>
  BY DEF diskVars
<1>8. \A i \in Index : i <= n => iSectors'[i] # 0
  BY <1>0, <1>1, <1>3
<1>9. Backed'
  BY <1>7, <1>8 DEF Backed, n
<1>10. Tidy'
  <2>1. ASSUME ~shortage, NEW i \in Index, i >= has, i < MaxDirect \/ will <= MaxDirect
        PROVE  iSectors'[i] = 0
    <3>1. i > n
      BY <1>0, <1>1, <2>1
    <3>2. iSectors[i] = 0
      BY <2>1, <3>1 DEF FileInv, Tidy, n
    <3>3. iSectors'[i] = iSectors[i]
      BY <1>0, <1>1, <2>1
    <3> QED BY <3>2, <3>3
  <2> QED BY <1>5, <1>6, <1>7, <2>1 DEF Tidy, Quiet
<1>11. Writing'
  <2>1. /\ new.count > 0 /\ new.left = new.count /\ iSize' + new.count <= MaxSectors * BlockSize
    BY <1>2, <1>5, <1>7
  <2>2. new.has = BlocksUsed(iSize') /\ new.will = BlocksUsed(iSize' + new.count)
    BY <1>5, <1>7
  <2>3. /\ new.has <= MaxDirect /\ new.will <= MaxSectors /\ new.has <= new.idx /\ new.idx <= new.will
        /\ new.will = MaxSectors => iSectors'[MaxDirect] # 0
        /\ label = "read" => new.idx = new.will
    BY <1>0, <1>3, <1>5
  <2>4. \A i \in Index : i < new.idx /\ i < MaxDirect => iSectors'[i] # 0
    BY <1>0, <1>1, <1>5, <1>8
  <2>5. ASSUME NEW i \in Index, new.has - 1 <= i, i < new.idx
        PROVE  i < MaxDirect /\ new.all[i] = iSectors'[i]
    <3>1. i = has - 1 /\ i < MaxDirect
      BY <1>0, <1>1, <1>3, <1>5, <2>5
    <3>2. iSectors'[i] = iSectors[i]
      BY <1>1, <3>1
    <3> QED BY <1>4, <1>5, <3>1, <3>2
  <2>6. label # "write" /\ label # "spin"
    OBVIOUS
  <2> QED BY <1>6, <2>1, <2>2, <2>3, <2>4, <2>5, <2>6 DEF Writing, BlocksUsed
<1>12. bootIntact' \/ iSectors'[MaxDirect] # 0
  <2>1. bootIntact \/ iSectors[MaxDirect] # 0
    BY DEF FileInv, DamageExplained
  <2> QED BY <1>1, <1>7, <2>1 DEF Kept
<1>13. /\ shortage' \in BOOLEAN /\ bootIntact' \in BOOLEAN
       /\ pc[Writer] \in {"idle", "plan", "grow"} /\ pc'[Writer] \in {"idle", "plan", "grow", "read"}
       /\ UNCHANGED <<iSize, twoSec, dSize, dSectors, sect, pos, acked, panic>>
  BY <1>2, <1>6, <1>7
<1> QED BY <1>6, <1>9, <1>10, <1>11, <1>12, <1>13, WriterFrame

(* File_Write from the buffers to the first block it needs.                *)
LEMMA PlanStep ==
  ASSUME FileDataAssumption, FileInv, panic = "none", Plan(Writer)
  PROVE  FileInv'
<1> DEFINE c == call[Writer]
           has == BlocksUsed(iSize)
           will == BlocksUsed(iSize + c.count)
           n == iSize \div BlockSize
<1>0. /\ pc[Writer] = "plan" /\ n \in Index /\ has = n + 1 /\ will \in Nat /\ has <= will
      /\ will > MaxSectors => iSize + c.count = MaxSectors * BlockSize
      /\ \A i \in Index : i <= n => iSectors[i] # 0
  <2>1. pc[Writer] = "plan"
    BY DEF Plan
  <2> DEFINE m == (iSize + c.count) \div BlockSize
  <2>2. /\ n \in Index /\ m \in Nat /\ n <= m /\ has = n + 1 /\ will = m + 1
        /\ m + 1 > MaxSectors => iSize + c.count = MaxSectors * BlockSize
        /\ \A i \in Index : i <= n => iSectors[i] # 0
    BY <2>1, PlanNumbers
  <2>3. Index \subseteq Nat
    BY Sizes
  <2> HIDE DEF m, n, has, will
  <2> QED BY <2>1, <2>2, <2>3
<1>1. /\ MaxDirect \in Nat \ {0} /\ Index = 0 .. MaxDirect /\ MaxDirect \in Index
      /\ MaxSectors = MaxDirect + 1 /\ Writer \in Tasks
  BY Sizes
<1>2. /\ FType /\ Owned /\ DamageExplained
      /\ pc \in [Tasks -> Labels] /\ call \in [Tasks -> Calls] /\ shortage \in BOOLEAN
      /\ iSectors \in [Index -> 0 .. NBlocks]
  BY DEF FileInv, FType, Addresses
<1>3. ASSUME NEW where, Panic(where),
             where \notin {"file.c:440", "file.c:450", "file.c:345"},
             where \in {"file.c:465", "file.c:488", "file.c:505"} => shortage,
             where = "file.c:423" => iSize + c.count = MaxSectors * BlockSize
      PROVE  FileInv'
  <2>1. panic' = where /\ UNCHANGED <<iSize, iSectors, call, shortage, bootIntact>>
    BY <1>3 DEF Panic, bitVars, inodeVars, diskVars, histVars
  <2>2. DamageExplained'
    BY <1>2, <1>3, <2>1 DEF DamageExplained
  <2> QED BY <1>3, <2>2, PanicStep
<1>4. ASSUME Return(Writer), shortage' \in {shortage, TRUE},
             UNCHANGED <<bitVars, inodeVars, diskVars, pos, acked, panic>>
      PROVE  FileInv'
  <2>1. /\ pc' \in [Tasks -> Labels] /\ call' \in [Tasks -> Calls] /\ pc'[Writer] = "idle"
        /\ \A u \in Tasks \ {Writer} : pc'[u] = pc[u] /\ call'[u] = call[u]
    BY <1>1, <1>2, <1>4, NoCallTyped DEF Return, Labels
  <2> QED BY <1>0, <1>2, <1>4, <2>1, GivesUp
<1>5. ASSUME NEW label \in {"grow", "read"},
             pc' = [pc EXCEPT ![Writer] = label],
             call' = [call EXCEPT ![Writer].has = has, ![Writer].will = will, ![Writer].idx = has,
                        ![Writer].all = [c.all EXCEPT ![has - 1] = iSectors[has - 1]]]
      PROVE  call' = [call EXCEPT ![Writer] = Planned(c, has, will)]
  BY <1>1, <1>2, <1>5 DEF Planned
<1>6. CASE Return(Writer) /\ UNCHANGED <<bitVars, inodeVars, diskVars, pos, histVars, panic>>
  BY <1>4, <1>6 DEF histVars
<1>7. CASE will > MaxSectors /\ Panic("file.c:423")
  BY <1>0, <1>3, <1>7
<1>8. CASE /\ will <= MaxDirect
           /\ IF will > has /\ iSectors[has - 1] = 0
              THEN Panic("file.c:450")
              ELSE /\ pc' = [pc EXCEPT ![Writer] = IF will > has THEN "grow" ELSE "read"]
                   /\ call' = [call EXCEPT ![Writer].has = has, ![Writer].will = will,
                                 ![Writer].idx = has,
                                 ![Writer].all = [c.all EXCEPT ![has - 1] = iSectors[has - 1]]]
                   /\ UNCHANGED <<bitVars, inodeVars, diskVars, pos, acked, shortage, panic>>
  <2>1. has - 1 = n /\ iSectors[has - 1] # 0 /\ has <= MaxDirect /\ has \in Nat
    BY <1>0, <1>1, <1>8
  <2>2. PICK label \in {"grow", "read"} : label = IF will > has THEN "grow" ELSE "read"
    OBVIOUS
  <2>3. /\ pc' = [pc EXCEPT ![Writer] = label]
        /\ call' = [call EXCEPT ![Writer] = Planned(c, has, will)]
        /\ UNCHANGED <<bitVars, inodeVars, diskVars, pos, acked, shortage, panic>>
    BY <1>5, <1>8, <2>1, <2>2
  <2>4. /\ UNCHANGED <<memBits, diskBits, others, iSectors>>
        /\ UNCHANGED <<iSize, twoSec, diskVars, pos, acked, shortage, panic>>
    BY <2>3 DEF bitVars, inodeVars
  <2>5. /\ memBits' \subseteq Blocks /\ diskBits' \subseteq Blocks /\ others' \subseteq memBits'
        /\ iSectors' \in Addresses /\ Owned' /\ Kept
    BY <1>2, <2>4 DEF FType, Owned, Kept
  <2>6. will <= MaxSectors /\ will # MaxSectors /\ (label = "read" => will = has)
    BY <1>0, <1>1, <1>8, <2>1, <2>2
  <2> HIDE DEF has, will
  <2> QED BY <1>0, <2>1, <2>3, <2>4, <2>5, <2>6, PlanGo DEF has, will
<1>9. CASE /\ will = MaxSectors /\ has = will
           /\ Panic(IF iSectors[MaxDirect] = 0 THEN "file.c:440" ELSE "file.c:443")
  <2>1. iSectors[MaxDirect] # 0
    BY <1>0, <1>1, <1>9
  <2>2. Panic("file.c:443")
    BY <1>9, <2>1
  <2> QED BY <1>3, <2>2
<1>10. CASE /\ will = MaxSectors /\ has < will
            /\ Free = {} /\ OutOfBlocks(Writer)
  BY <1>4, <1>10 DEF OutOfBlocks
<1>11. CASE /\ will = MaxSectors /\ has < will
            /\ Free # {} /\ iSectors[MaxDirect] # 0 /\ Panic("file.c:488")
  <2>1. MaxDirect > n
    BY <1>0, <1>1, <1>11
  <2>2. shortage
    BY <1>0, <1>1, <1>11, <2>1 DEF FileInv, Tidy
  <2> QED BY <1>3, <1>11, <2>2
<1>12. CASE /\ will = MaxSectors /\ has < will
            /\ Free # {} /\ iSectors[MaxDirect] = 0
            /\ memBits' = Taken(Min(Free))
            /\ iSectors' = [iSectors EXCEPT ![MaxDirect] = Min(Free)]
            /\ pc' = [pc EXCEPT ![Writer] = "grow"]
            /\ call' = [call EXCEPT ![Writer].has = has, ![Writer].will = will,
                          ![Writer].idx = has,
                          ![Writer].all = [c.all EXCEPT ![has - 1] = iSectors[has - 1]]]
            /\ UNCHANGED <<diskBits, others, iSize, twoSec, diskVars, pos, acked, shortage, panic>>
  <2>1. PICK b : b = Min(Free)
    OBVIOUS
  <2>2. /\ memBits' = memBits \cup {b} /\ iSectors' = [iSectors EXCEPT ![MaxDirect] = b]
        /\ diskBits' = diskBits /\ others' = others
    BY <1>12, <2>1 DEF Taken
  <2>3. /\ memBits' \subseteq Blocks /\ diskBits' \subseteq Blocks /\ others' \subseteq memBits'
        /\ iSectors' \in Addresses /\ b # 0 /\ Owned' /\ Kept
    BY <1>1, <1>2, <1>12, <2>1, <2>2, TakeBlock
  <2>4. /\ iSectors'[MaxDirect] # 0
        /\ \A i \in Index : i # MaxDirect => iSectors'[i] = iSectors[i]
    BY <1>1, <1>2, <2>2, <2>3
  <2>5. /\ pc' = [pc EXCEPT ![Writer] = "grow"]
        /\ call' = [call EXCEPT ![Writer] = Planned(c, has, will)]
        /\ UNCHANGED <<iSize, twoSec, diskVars, pos, acked, shortage, panic>>
    BY <1>5, <1>12
  <2>6. has <= MaxDirect /\ will <= MaxSectors /\ will = MaxSectors
    BY <1>0, <1>1, <1>12
  <2> HIDE DEF has, will
  <2> QED BY <1>0, <2>3, <2>4, <2>5, <2>6, PlanGo DEF has, will
<1> HIDE DEF has, will, n
<1> QED BY <1>6, <1>7, <1>8, <1>9, <1>10, <1>11, <1>12 DEF Plan, has, will

(* What Writing says while blocks are taken and in the loop.               *)
LEMMA GrowFacts ==
  ASSUME FileDataAssumption, FileInv, pc[Writer] \in {"grow", "read", "write"}
  PROVE  LET c == call[Writer]
         IN /\ c \in Calls /\ c.count \in Nat \ {0} /\ c.has \in Nat /\ c.will \in Nat /\ c.idx \in Nat
            /\ c.all \in [Index -> 0 .. NBlocks] /\ c.left = c.count
            /\ iSize + c.count <= MaxSectors * BlockSize
            /\ c.has = iSize \div BlockSize + 1 /\ c.has <= MaxDirect
            /\ iSize \div BlockSize \in Index /\ iSize \div BlockSize < MaxDirect
            /\ c.will = BlocksUsed(iSize + c.count) /\ c.will <= MaxSectors
            /\ c.has <= c.idx /\ c.idx <= c.will
            /\ c.will = MaxSectors => iSectors[MaxDirect] # 0
            /\ \A i \in Index : i < c.idx /\ i < MaxDirect => iSectors[i] # 0
            /\ \A i \in Index : c.has - 1 <= i /\ i < c.idx /\ i < MaxDirect => c.all[i] = iSectors[i]
            /\ \A i \in Index : c.has - 1 <= i /\ i < c.idx /\ ~(i < MaxDirect) =>
                 \A j \in Index : iSectors[j] # c.all[i]
            /\ \A i \in Index : i <= iSize \div BlockSize => iSectors[i] # 0
<1> DEFINE c == call[Writer]
           n == iSize \div BlockSize
<1>1. /\ c \in Calls /\ c.count \in Nat /\ c.has \in Nat /\ c.will \in Nat /\ c.idx \in Nat
      /\ c.all \in [Index -> 0 .. NBlocks]
  <2>1. c \in Calls
    BY Sizes DEF FileInv, FType
  <2> QED BY <2>1 DEF Calls, Addresses
<1>2. /\ c.count > 0 /\ c.left = c.count /\ iSize + c.count <= MaxSectors * BlockSize
      /\ c.has = n + 1 /\ c.has <= MaxDirect
      /\ c.will = BlocksUsed(iSize + c.count) /\ c.will <= MaxSectors
      /\ c.has <= c.idx /\ c.idx <= c.will
      /\ c.will = MaxSectors => iSectors[MaxDirect] # 0
      /\ \A i \in Index : i < c.idx /\ i < MaxDirect => iSectors[i] # 0
  <2>1. c.has = BlocksUsed(iSize) => c.has = n + 1
    BY DEF BlocksUsed
  <2> HIDE DEF n
  <2> QED BY <2>1 DEF FileInv, Writing
<1>3. /\ \A i \in Index : c.has - 1 <= i /\ i < c.idx /\ i < MaxDirect => c.all[i] = iSectors[i]
      /\ \A i \in Index : c.has - 1 <= i /\ i < c.idx /\ ~(i < MaxDirect) =>
           \A j \in Index : iSectors[j] # c.all[i]
  BY DEF FileInv, Writing
<1>4. n \in Index
  BY BytesMapped DEF FileInv
<1>5. \A i \in Index : i <= n => iSectors[i] # 0
  BY DEF FileInv, Backed, Quiet
<1> HIDE DEF n, c
<1>6. n < MaxDirect
  <2>1. MaxDirect \in Nat /\ Index \subseteq Nat
    BY Sizes
  <2> QED BY <1>1, <1>2, <1>4, <2>1
<1>7. c.count \in Nat \ {0}
  BY <1>1, <1>2
<1> QED BY <1>1, <1>2, <1>3, <1>4, <1>5, <1>6, <1>7 DEF n, c

(* One block more for File_Write.                                          *)
LEMMA GrowStep ==
  ASSUME FileDataAssumption, FileInv, panic = "none", Grow(Writer)
  PROVE  FileInv'
<1> DEFINE c == call[Writer]
           n == iSize \div BlockSize
<1>0. pc[Writer] = "grow"
  BY DEF Grow
<1>1. /\ c \in Calls /\ c.count \in Nat \ {0} /\ c.has \in Nat /\ c.will \in Nat /\ c.idx \in Nat
      /\ c.all \in [Index -> 0 .. NBlocks] /\ c.left = c.count
      /\ iSize + c.count <= MaxSectors * BlockSize
      /\ c.has = n + 1 /\ c.has <= MaxDirect /\ n \in Index /\ n < MaxDirect
      /\ c.will = BlocksUsed(iSize + c.count) /\ c.will <= MaxSectors
      /\ c.has <= c.idx /\ c.idx <= c.will
      /\ c.will = MaxSectors => iSectors[MaxDirect] # 0
      /\ \A i \in Index : i < c.idx /\ i < MaxDirect => iSectors[i] # 0
      /\ \A i \in Index : c.has - 1 <= i /\ i < c.idx /\ i < MaxDirect => c.all[i] = iSectors[i]
      /\ \A i \in Index : c.has - 1 <= i /\ i < c.idx /\ ~(i < MaxDirect) =>
           \A j \in Index : iSectors[j] # c.all[i]
      /\ \A i \in Index : i <= n => iSectors[i] # 0
  BY <1>0, GrowFacts
<1> HIDE DEF n
<1>2. /\ FType /\ Owned /\ DamageExplained /\ Tidy
      /\ pc \in [Tasks -> Labels] /\ call \in [Tasks -> Calls] /\ shortage \in BOOLEAN
      /\ bootIntact \in BOOLEAN /\ iSectors \in [Index -> 0 .. NBlocks]
      /\ bootIntact \/ iSectors[MaxDirect] # 0
  BY DEF FileInv, FType, Addresses, DamageExplained
<1>3. /\ MaxDirect \in Nat \ {0} /\ Index = 0 .. MaxDirect /\ MaxDirect \in Index
      /\ MaxSectors = MaxDirect + 1 /\ Writer \in Tasks /\ Index \subseteq Nat
  BY Sizes
<1>n. /\ n \in Nat /\ c.has \in Nat /\ c.will \in Nat /\ c.idx \in Nat /\ MaxDirect \in Nat
      /\ c.has = n + 1 /\ c.has <= MaxDirect /\ c.has <= c.idx /\ c.idx <= c.will
      /\ c.will <= MaxDirect + 1 /\ Index = 0 .. MaxDirect
  BY <1>1, <1>3
<1>4. ASSUME ~shortage, NEW i \in Index, i >= c.idx, i < MaxDirect \/ c.will <= MaxDirect
      PROVE  iSectors[i] = 0
  BY <1>0, <1>2, <1>4 DEF Tidy
<1>5. CASE c.idx = c.will
  <2>1. /\ pc' = [pc EXCEPT ![Writer] = "read"]
        /\ bootIntact' = (bootIntact /\ c.will <= MaxDirect)
        /\ UNCHANGED <<bitVars, inodeVars, dSize, dSectors, sect, pos, call, histVars, panic>>
    BY <1>5 DEF Grow
  <2>2. UNCHANGED <<memBits, diskBits, others, iSize, iSectors, twoSec, dSize, dSectors, sect,
                    pos, call, acked, shortage, panic>>
    BY <2>1 DEF bitVars, inodeVars, histVars
  <2>3. /\ pc' \in [Tasks -> Labels] /\ call' \in [Tasks -> Calls]
        /\ pc'[Writer] = "read" /\ call'[Writer] = c
        /\ \A u \in Tasks \ {Writer} : pc'[u] = pc[u] /\ call'[u] = call[u]
    BY <1>2, <1>3, <2>1, <2>2 DEF Labels
  <2>4. /\ memBits' \subseteq Blocks /\ diskBits' \subseteq Blocks /\ others' \subseteq memBits'
        /\ iSectors' \in Addresses /\ Owned' /\ Kept /\ shortage' \in BOOLEAN
    BY <1>2, <2>2 DEF FType, Owned, Kept
  <2>5. bootIntact' \in BOOLEAN /\ (bootIntact' \/ iSectors'[MaxDirect] # 0)
    <3>1. c.will <= MaxDirect \/ c.will = MaxSectors
      <4> HIDE DEF c
      <4>1. c.will \in Nat /\ c.will <= MaxDirect + 1 /\ MaxDirect \in Nat
        BY <1>n
      <4>2. MaxSectors = MaxDirect + 1
        BY <1>3
      <4>3. c.will <= MaxDirect \/ c.will = MaxDirect + 1
        BY <4>1
      <4> QED BY <4>2, <4>3
    <3> HIDE DEF c
    <3>2. c.will <= MaxDirect \/ iSectors[MaxDirect] # 0
      BY <1>1, <3>1
    <3> QED BY <1>2, <2>1, <2>2, <3>2
  <2>6. Backed'
    BY <1>1, <2>2 DEF Backed, n
  <2>7. Tidy'
    <3>1. ~shortage => \A i \in Index : i >= c.idx /\ (i < MaxDirect \/ c.will <= MaxDirect)
                                          => iSectors[i] = 0
      BY <1>4
    <3> HIDE DEF c
    <3> QED BY <2>2, <2>3, <3>1 DEF Tidy, Quiet
  <2>8. Writing'
    <3>1. c.has = BlocksUsed(iSize)
      BY <1>1 DEF BlocksUsed, n
    <3> QED BY <1>1, <1>5, <2>2, <2>3, <3>1 DEF Writing, BlocksUsed
  <2>9. /\ pc[Writer] \in {"idle", "plan", "grow"} /\ pc'[Writer] \in {"idle", "plan", "grow", "read"}
        /\ UNCHANGED <<iSize, twoSec, dSize, dSectors, sect, pos, acked, panic>>
    BY <1>0, <2>2, <2>3
  <2> QED BY <2>3, <2>4, <2>5, <2>6, <2>7, <2>8, <2>9, WriterFrame
<1>6. CASE c.idx # c.will /\ Free = {}
  <2>1. OutOfBlocks(Writer)
    BY <1>6 DEF Grow
  <2>2. /\ pc' \in [Tasks -> Labels] /\ call' \in [Tasks -> Calls] /\ pc'[Writer] = "idle"
        /\ \A u \in Tasks \ {Writer} : pc'[u] = pc[u] /\ call'[u] = call[u]
    BY <1>2, <1>3, <2>1, NoCallTyped DEF OutOfBlocks, Return, Labels
  <2>3. shortage' = TRUE /\ UNCHANGED <<bitVars, inodeVars, diskVars, pos, acked, panic>>
    BY <2>1 DEF OutOfBlocks
  <2> QED BY <1>0, <2>2, <2>3, GivesUp
<1>7. CASE c.idx # c.will /\ Free # {} /\ c.idx < MaxDirect /\ iSectors[c.idx] # 0
  <2>1. PICK where \in {"file.c:465", "file.c:505"} : Panic(where)
    BY <1>7 DEF Grow
  <2>2. shortage
    <3>1. c.idx \in Index
      BY <1>1, <1>3, <1>7
    <3> QED BY <1>1, <1>4, <1>7, <3>1
  <2>3. panic' = where /\ UNCHANGED <<iSize, iSectors, call, shortage, bootIntact>>
    BY <2>1 DEF Panic, bitVars, inodeVars, diskVars, histVars
  <2>4. DamageExplained'
    BY <1>2, <2>2, <2>3 DEF DamageExplained
  <2> QED BY <2>1, <2>4, PanicStep
<1>8. CASE c.idx # c.will /\ Free # {} /\ ~(c.idx < MaxDirect /\ iSectors[c.idx] # 0)
  <2>1. PICK b : b = Min(Free)
    OBVIOUS
  <2>2. /\ memBits' = memBits \cup {b} /\ diskBits' = Synced(b, memBits')
        /\ iSectors' = IF c.idx < MaxDirect THEN [iSectors EXCEPT ![c.idx] = b] ELSE iSectors
        /\ call' = [call EXCEPT ![Writer].all[c.idx] = b, ![Writer].idx = @ + 1]
        /\ UNCHANGED <<others, iSize, twoSec, diskVars, pos, pc, histVars, panic>>
    BY <1>8, <2>1 DEF Grow, Taken
  <2>3. UNCHANGED <<others, iSize, twoSec, dSize, dSectors, sect, bootIntact, pos, pc,
                    acked, shortage, panic>>
    BY <2>2 DEF diskVars, histVars
  <2>4. c.idx \in Index /\ c.idx + 1 <= c.will /\ c.idx + 1 \in Nat
    <3> HIDE DEF c
    <3>1. c.idx # c.will
      BY <1>8
    <3> QED BY <1>n, <3>1
  <2>5. /\ memBits' \subseteq Blocks /\ diskBits' \subseteq Blocks /\ others' \subseteq memBits'
        /\ iSectors' \in Addresses /\ b \in Blocks /\ b # 0 /\ Owned' /\ Kept
        /\ \A i \in Index : iSectors[i] # b
    <3>1. \/ iSectors' = iSectors
          \/ \E i \in Index : iSectors[i] = 0 /\ iSectors' = [iSectors EXCEPT ![i] = b]
      BY <1>8, <2>2, <2>4
    <3> QED BY <1>2, <1>8, <2>1, <2>2, <2>3, <3>1, TakeBlock
  <2>6. /\ c.idx < MaxDirect => iSectors'[c.idx] = b
        /\ ~(c.idx < MaxDirect) => iSectors' = iSectors
        /\ \A i \in Index : i # c.idx => iSectors'[i] = iSectors[i]
    BY <1>2, <2>2, <2>4
  <2>7. PICK all \in Addresses : /\ all = [c.all EXCEPT ![c.idx] = b] /\ all[c.idx] = b
                                 /\ \A i \in Index : i # c.idx => all[i] = c.all[i]
    <3>1. c.all \in [Index -> 0 .. NBlocks]
      BY <1>1
    <3>2. b \in 0 .. NBlocks
      BY <2>5, Sizes DEF Blocks
    <3> DEFINE all == [c.all EXCEPT ![c.idx] = b]
    <3>3. /\ all \in Addresses /\ all[c.idx] = b
          /\ \A i \in Index : i # c.idx => all[i] = c.all[i]
      BY <2>4, <3>1, <3>2 DEF Addresses
    <3> QED BY <3>3
  <2>8. PICK k \in Nat : k = c.idx + 1
    BY <2>4
  <2> DEFINE new == [c EXCEPT !.all = all, !.idx = k]
  <2>9. call' = [call EXCEPT ![Writer] = new]
    BY <1>2, <1>3, <2>2, <2>7, <2>8
  <2>10. /\ new \in Calls /\ new.all = all /\ new.idx = k /\ new.has = c.has /\ new.will = c.will
         /\ new.count = c.count /\ new.left = c.left
    BY <1>1, <2>7, <2>8 DEF Calls
  <2> HIDE DEF new
  <2>11. /\ pc' \in [Tasks -> Labels] /\ call' \in [Tasks -> Calls]
         /\ pc'[Writer] = "grow" /\ call'[Writer] = new
         /\ \A u \in Tasks \ {Writer} : pc'[u] = pc[u] /\ call'[u] = call[u]
    BY <1>0, <1>2, <1>3, <2>3, <2>9, <2>10
  <2>12. \A i \in Index : i <= n => iSectors'[i] # 0
    BY <1>1, <2>5 DEF Kept
  <2>13. Backed'
    BY <2>3, <2>12 DEF Backed, n
  <2>14. Tidy'
    <3>1. ASSUME ~shortage, NEW i \in Index, i >= k, i < MaxDirect \/ c.will <= MaxDirect
          PROVE  iSectors'[i] = 0
      <4>1. i >= c.idx /\ i # c.idx
        BY <1>n, <2>8, <3>1, SMTT(30)
      <4> QED BY <1>4, <2>6, <3>1, <4>1
    <3> QED BY <2>3, <2>10, <2>11, <3>1 DEF Tidy, Quiet
  <2>15. Writing'
    <3>1. /\ new.count > 0 /\ new.left = new.count /\ iSize' + new.count <= MaxSectors * BlockSize
      BY <1>1, <2>3, <2>10
    <3>2. new.has = BlocksUsed(iSize') /\ new.will = BlocksUsed(iSize' + new.count)
      BY <1>1, <2>3, <2>10 DEF BlocksUsed, n
    <3>3. /\ new.has <= MaxDirect /\ new.will <= MaxSectors /\ new.has <= new.idx /\ new.idx <= new.will
          /\ new.will = MaxSectors => iSectors'[MaxDirect] # 0
      <4>1. c.will = MaxSectors => iSectors'[MaxDirect] # 0
        BY <1>1, <1>3, <2>5 DEF Kept
      <4> QED BY <1>n, <1>3, <2>4, <2>8, <2>10, <4>1
    <3>4. ASSUME NEW i \in Index, i < new.idx, i < MaxDirect
          PROVE  iSectors'[i] # 0
      <4>1. i < c.idx \/ i = c.idx
        BY <1>n, <2>8, <2>10, <3>4
      <4> QED BY <1>1, <2>5, <2>6, <3>4, <4>1
    <3>5. ASSUME NEW i \in Index, new.has - 1 <= i, i < new.idx
          PROVE  IF i < MaxDirect THEN new.all[i] = iSectors'[i]
                 ELSE \A j \in Index : iSectors'[j] # new.all[i]
      <4>1. CASE i = c.idx
        BY <2>5, <2>6, <2>7, <2>10, <4>1
      <4>2. CASE i # c.idx
        <5>1. i < c.idx /\ c.has - 1 <= i /\ i < MaxDirect
          BY <1>n, <2>4, <2>8, <2>10, <3>5, <4>2
        <5>2. c.all[i] = iSectors[i]
          BY <1>1, <5>1
        <5> QED BY <2>6, <2>7, <2>10, <4>2, <5>1, <5>2
      <4> QED BY <4>1, <4>2
    <3> QED BY <2>11, <3>1, <3>2, <3>3, <3>4, <3>5 DEF Writing, BlocksUsed
  <2>16. /\ bootIntact' \/ iSectors'[MaxDirect] # 0
         /\ shortage' \in BOOLEAN /\ bootIntact' \in BOOLEAN
    BY <1>2, <1>3, <2>3, <2>5 DEF Kept
  <2>17. /\ pc[Writer] \in {"idle", "plan", "grow"} /\ pc'[Writer] \in {"idle", "plan", "grow", "read"}
         /\ UNCHANGED <<iSize, twoSec, dSize, dSectors, sect, pos, acked, panic>>
    BY <1>0, <2>3, <2>11
  <2> QED BY <2>5, <2>11, <2>13, <2>14, <2>15, <2>16, <2>17, WriterFrame
<1> QED BY <1>5, <1>6, <1>7, <1>8

(* The sector to be filled up is read into the buffer.                     *)
LEMMA ReadLastStep ==
  ASSUME FileDataAssumption, FileInv, panic = "none", ReadLast(Writer)
  PROVE  FileInv'
<1> DEFINE c == call[Writer]
           n == iSize \div BlockSize
           at == (iSize - 1) % Wrap
           buf == sect[iSectors[n]]
           new == [c EXCEPT !.buf = buf]
<1>0. /\ pc[Writer] = "read" /\ pos' = [pos EXCEPT ![Writer] = at]
      /\ call' = [call EXCEPT ![Writer].buf = sect[c.all[n]]]
      /\ pc' = [pc EXCEPT ![Writer] = "write"]
      /\ UNCHANGED <<memBits, diskBits, others, iSize, iSectors, twoSec, dSize, dSectors, sect,
                     bootIntact, acked, shortage, panic>>
  BY DEF ReadLast, bitVars, inodeVars, diskVars, histVars
<1>1. /\ c \in Calls /\ n \in Index /\ n < MaxDirect
      /\ c.has = n + 1 /\ c.has <= c.idx /\ c.idx \in Nat
      /\ \A i \in Index : c.has - 1 <= i /\ i < c.idx /\ i < MaxDirect => c.all[i] = iSectors[i]
  BY <1>0, GrowFacts
<1>2. /\ FType /\ Owned /\ Copied /\ Backed /\ Written /\ Tidy /\ Writing /\ Reading
      /\ DamageExplained
  BY DEF FileInv
<1>3. /\ pc \in [Tasks -> Labels] /\ call \in [Tasks -> Calls] /\ pos \in [Tasks -> Nat]
      /\ iSize \in Nat /\ iSectors \in [Index -> 0 .. NBlocks]
      /\ sect \in [0 .. NBlocks -> [Offsets -> Int]]
  BY <1>2 DEF FType, Addresses
<1>4. Writer \in Tasks /\ Index \subseteq Nat /\ Wrap \in Nat \ {0}
  BY Sizes
<1>5. c.all[n] = iSectors[n]
  <2> HIDE DEF n, c
  <2>1. c.has - 1 <= n /\ n < c.idx
    BY <1>1, <1>4
  <2> QED BY <1>1, <2>1
<1>6. at \in Nat
  <2>1. iSize - 1 \in Int
    BY <1>3
  <2>2. at \in 0 .. Wrap - 1
    BY <1>4, <2>1, DivMod, Zenon
  <2> HIDE DEF at
  <2> QED BY <1>4, <2>2
<1>7. buf \in [Offsets -> Int]
  <2> HIDE DEF n
  <2> QED BY <1>1, <1>3
<1>8. call' = [call EXCEPT ![Writer] = new]
  BY <1>0, <1>3, <1>4, <1>5
<1> HIDE DEF at, buf
<1>9. /\ new \in Calls /\ new.buf = buf /\ new.count = c.count /\ new.left = c.left
      /\ new.has = c.has /\ new.will = c.will /\ new.idx = c.idx /\ new.all = c.all
  <2> HIDE DEF c
  <2> QED BY <1>1, <1>7 DEF Calls
<1> HIDE DEF new
<1>10. /\ pc' \in [Tasks -> Labels] /\ call' \in [Tasks -> Calls] /\ pos' \in [Tasks -> Nat]
       /\ pc'[Writer] = "write" /\ call'[Writer] = new /\ pos'[Writer] = at
       /\ \A u \in Tasks \ {Writer} : pos'[u] = pos[u] /\ pc'[u] = pc[u] /\ call'[u] = call[u]
  BY <1>0, <1>3, <1>4, <1>6, <1>8, <1>9 DEF Labels
<1>11. FType'
  <2>1. \A u \in Tasks : pc'[u] \in {"idle", "rchunk"} \/ u = Writer
    BY <1>2, <1>10 DEF FType
  <2> QED BY <1>0, <1>2, <1>10, <2>1 DEF FType
<1>12. Owned' /\ Copied' /\ Written'
  BY <1>0, <1>2 DEF Owned, Copied, Written
<1>13. Backed'
  BY <1>0, <1>2, <1>10 DEF Backed, Quiet
<1>14. Tidy'
  BY <1>0, <1>2, <1>9, <1>10 DEF Tidy, Quiet
<1>15. Writing'
  <2>1. buf = sect[iSectors[iSize \div BlockSize]]
    BY DEF buf, n
  <2> DEFINE Plans(d) ==
        /\ d.count > 0 /\ d.left = d.count
        /\ iSize + d.count <= MaxSectors * BlockSize
        /\ d.has = BlocksUsed(iSize) /\ d.has <= MaxDirect
        /\ d.will = BlocksUsed(iSize + d.count) /\ d.will <= MaxSectors
        /\ d.has <= d.idx /\ d.idx <= d.will
        /\ d.will = MaxSectors => iSectors[MaxDirect] # 0
        /\ \A i \in Index : i < d.idx /\ i < MaxDirect => iSectors[i] # 0
        /\ \A i \in Index : d.has - 1 <= i /\ i < d.idx =>
             IF i < MaxDirect THEN d.all[i] = iSectors[i]
             ELSE \A j \in Index : iSectors[j] # d.all[i]
        /\ d.idx = d.will
  <2>2. Plans(c)
    BY <1>0, <1>2 DEF Writing
  <2>3. Plans(new)
    <3> HIDE DEF c
    <3> QED BY <1>9, <2>2
  <2> QED BY <1>0, <1>9, <1>10, <2>1, <2>3, ZenonT(30) DEF Writing, BlocksUsed
<1>16. Reading'
  <2>1. Kept /\ iSize' \in Nat /\ iSize' >= iSize
    BY <1>0, <1>3 DEF Kept
  <2>2. pos'[Writer] = (iSize' - 1) % Wrap
    BY <1>0, <1>10 DEF at
  <2> QED BY <1>2, <1>10, <2>1, <2>2, ReadersKept
<1>17. DamageExplained'
  BY <1>0, <1>2 DEF DamageExplained
<1> QED BY <1>11, <1>12, <1>13, <1>14, <1>15, <1>16, <1>17 DEF FileInv

(* The loop that never ends writes zeros where no byte of the file is.     *)
LEMMA SpinStep ==
  ASSUME FileDataAssumption, FileInv, panic = "none", Spin(Writer)
  PROVE  FileInv'
<1> DEFINE n == iSize \div BlockSize
           lba == call[Writer].all[n]
<1>0. /\ pc[Writer] = "spin" /\ sect' = [sect EXCEPT ![lba] = Zeros]
      /\ UNCHANGED <<memBits, diskBits, others, iSize, iSectors, twoSec, dSize, dSectors,
                     bootIntact, pos, pc, call, acked, shortage, panic>>
  BY DEF Spin, bitVars, inodeVars, histVars
<1>1. /\ FType /\ Owned /\ Copied /\ Backed /\ Written /\ Tidy /\ Writing /\ Reading
      /\ DamageExplained /\ iSectors \in [Index -> 0 .. NBlocks]
      /\ sect \in [0 .. NBlocks -> [Offsets -> Int]]
  BY DEF FileInv, FType, Addresses
<1>2. sect' \in [0 .. NBlocks -> [Offsets -> Int]]
  <2>1. Zeros \in [Offsets -> Int]
    BY DEF Zeros, Offsets
  <2>2. sect' = [sect EXCEPT ![lba] = Zeros] /\ sect \in [0 .. NBlocks -> [Offsets -> Int]]
    BY <1>0, <1>1
  <2> HIDE DEF lba
  <2> QED BY <2>1, <2>2
<1>3. FType' /\ Owned' /\ Copied'
  <2>1. UNCHANGED <<memBits, diskBits, others, iSize, iSectors, twoSec, dSize, dSectors,
                    bootIntact, pos, pc, call, acked, shortage, panic>>
    BY <1>0
  <2>2. FType'
    BY <1>1, <1>2, <2>1 DEF FType
  <2>3. Owned' /\ Copied'
    BY <1>1, <2>1 DEF Owned, Copied
  <2> QED BY <2>2, <2>3
<1>4. Backed' /\ Tidy' /\ Reading' /\ DamageExplained'
  <2>1. Backed' /\ DamageExplained'
    BY <1>0, <1>1 DEF Backed, DamageExplained
  <2>2. Tidy'
    BY <1>0, <1>1 DEF Tidy
  <2>3. Reading'
    BY <1>0, <1>1 DEF Reading
  <2> QED BY <2>1, <2>2, <2>3
<1>5. Writing'
  BY <1>0, <1>1 DEF Writing, BlocksUsed
<1>6. Written'
  <2> SUFFICES ASSUME NEW p \in 0 .. iSize - 1
               PROVE  sect'[iSectors[p \div BlockSize]][p % BlockSize] = p + 1
    BY <1>0 DEF Written
  <2>1. iSectors[p \div BlockSize] # lba
    BY <1>0, <1>1 DEF Writing
  <2>2. iSectors[p \div BlockSize] \in 0 .. NBlocks
    BY <1>1, BytesMapped
  <2>3. sect'[iSectors[p \div BlockSize]] = sect[iSectors[p \div BlockSize]]
    <3> HIDE DEF lba
    <3> QED BY <1>0, <1>1, <2>1, <2>2
  <2> QED BY <1>1, <2>3 DEF Written
<1> QED BY <1>3, <1>4, <1>5, <1>6 DEF FileInv

(* Inode_Write: the inode on the disk becomes that in memory.              *)
LEMMA WriteInodeStep ==
  ASSUME FileDataAssumption, FileInv, panic = "none", WriteInode(Writer)
  PROVE  FileInv'
<1>0. pc[Writer] = "inode" /\ Writer \in Tasks
  BY Sizes DEF WriteInode
<1>1. /\ FType /\ Owned /\ Copied /\ Backed /\ Written /\ Tidy /\ Writing /\ Reading
      /\ DamageExplained
      /\ pc \in [Tasks -> Labels] /\ call \in [Tasks -> Calls]
  BY DEF FileInv, FType
<1>2. CASE twoSec
  <2>1. Panic("file.c:585")
    BY <1>2 DEF WriteInode
  <2>2. DamageExplained'
    BY <1>1, <2>1 DEF DamageExplained, Panic, bitVars, inodeVars, diskVars, histVars
  <2> QED BY <2>1, <2>2, PanicStep
<1>3. CASE ~twoSec
  <2>1. /\ dSize' = iSize /\ dSectors' = iSectors /\ acked' = iSize
        /\ pc' = [pc EXCEPT ![Writer] = "idle"] /\ call' = [call EXCEPT ![Writer] = NoCall]
        /\ UNCHANGED <<memBits, diskBits, others, iSize, iSectors, twoSec, sect, bootIntact,
                       pos, shortage, panic>>
    BY <1>3 DEF WriteInode, Return, bitVars, inodeVars
  <2>2. /\ pc' \in [Tasks -> Labels] /\ call' \in [Tasks -> Calls] /\ pc'[Writer] = "idle"
        /\ \A u \in Tasks \ {Writer} : pc'[u] = pc[u] /\ call'[u] = call[u]
    BY <1>0, <1>1, <2>1, NoCallTyped DEF Labels
  <2>3. FType'
    <3>1. \A u \in Tasks : pc'[u] \in {"idle", "rchunk"} \/ u = Writer
      BY <1>1, <2>2 DEF FType
    <3> QED BY <1>1, <2>1, <2>2, <3>1 DEF FType
  <2>4. Copied'
    BY <1>1, <2>1, BytesMapped DEF Copied
  <2>5. Owned' /\ Written'
    BY <1>1, <2>1 DEF Owned, Written
  <2>6. Backed'
    BY <1>1, <2>1, <2>2 DEF Backed, Quiet
  <2>7. Tidy'
    BY <1>0, <1>1, <2>1, <2>2 DEF Tidy, Quiet
  <2>8. Writing'
    BY <2>2 DEF Writing
  <2>9. Reading'
    <3>1. Kept /\ iSize' \in Nat /\ iSize' >= iSize
      BY <1>1, <2>1 DEF Kept, FType
    <3>2. pos'[Writer] <= iSize'
      BY <1>0, <1>1, <2>1 DEF Reading
    <3> QED BY <1>1, <2>1, <2>2, <3>1, <3>2, ReadersKept
  <2>10. DamageExplained'
    BY <1>1, <2>1 DEF DamageExplained
  <2> QED BY <2>3, <2>4, <2>5, <2>6, <2>7, <2>8, <2>9, <2>10 DEF FileInv
<1> QED BY <1>2, <1>3

(* Where the chunk of one round of the loop ends: in the same sector, and  *)
(* before its end unless nothing is left to write.                         *)
LEMMA ChunkEnd ==
  ASSUME NEW k \in Nat \ {0}, NEW size \in Nat, NEW left \in Nat \ {0}
  PROVE  LET n == size \div k
             off == size % k
             chunk == Min({left, k - off})
         IN /\ n \in Nat /\ off \in 0 .. k - 1 /\ size = k * n + off
            /\ chunk \in Nat \ {0} /\ chunk <= left /\ off + chunk <= k
            /\ size + chunk <= k * n + k
            /\ chunk < left => (size + chunk) \div k = n + 1
            /\ \A p \in Nat : k * n <= p /\ p < size + chunk =>
                 p \div k = n /\ p = k * n + (p % k) /\ p % k \in 0 .. k - 1
<1> DEFINE n == size \div k
           off == size % k
           chunk == Min({left, k - off})
<1>1. n \in Nat /\ off \in 0 .. k - 1 /\ size = k * n + off
  <2>1. size \in Int
    OBVIOUS
  <2> QED BY <2>1, DivMod, Zenon
<1> HIDE DEF n, off
<1>2. k - off \in Nat \ {0}
  BY <1>1
<1>3. /\ chunk \in {left, k - off} /\ chunk <= left /\ chunk <= k - off /\ chunk \in Nat \ {0}
  <2>1. left \in Nat /\ k - off \in Nat
    BY <1>2
  <2>2. /\ chunk \in {left, k - off} /\ chunk <= left /\ chunk <= k - off
    BY <2>1, MinOfTwo, Zenon
  <2> HIDE DEF chunk
  <2> QED BY <1>2, <2>2
<1> HIDE DEF chunk
<1>4. off + chunk <= k
  BY <1>1, <1>3
<1>5. k * n \in Nat
  BY <1>1
<1>6. size + chunk <= k * n + k
  BY <1>1, <1>3, <1>5
<1>7. chunk < left => (size + chunk) \div k = n + 1
  <2> SUFFICES ASSUME chunk < left PROVE (size + chunk) \div k = n + 1
    OBVIOUS
  <2>1. chunk = k - off
    BY <1>1, <1>3
  <2>2. size + chunk = k * n + k
    BY <1>1, <1>5, <2>1
  <2>3. k * (n + 1) = k * n + k
    BY <1>1
  <2>4. size + chunk \in Int /\ n + 1 \in Int /\ 0 \in 0 .. k - 1
    <3>1. size + chunk \in Int
      BY <1>3
    <3>2. n \in Nat
      BY <1>1
    <3> QED BY <3>1, <3>2
  <2>5. size + chunk = k * n + k + 0
    BY <1>5, <2>2
  <2>6. size + chunk = k * (n + 1) + 0
    BY <2>3, <2>5
  <2> QED BY <2>4, <2>6, DivUnique, Zenon
<1>8. ASSUME NEW p \in Nat, k * n <= p, p < size + chunk
      PROVE  p \div k = n /\ p = k * n + (p % k) /\ p % k \in 0 .. k - 1
  <2>1. PICK r \in 0 .. k - 1 : p = k * n + r
    <3>1. p - k * n \in 0 .. k - 1
      BY <1>3, <1>5, <1>6, <1>8
    <3>2. p = k * n + (p - k * n)
      BY <1>5
    <3> QED BY <3>1, <3>2
  <2>2. p \in Int /\ n \in Int
    BY <1>1
  <2>3. p \div k = n /\ p % k = r
    BY <2>1, <2>2, DivUnique, Zenon
  <2> QED BY <2>1, <2>3
<1> QED BY <1>1, <1>3, <1>4, <1>6, <1>7, <1>8, Zenon DEF n, off, chunk

(* fdPos, set to one less than the size (to 2^32 - 1 for an empty file),   *)
(* follows the bytes written.                                              *)
LEMMA PosFollows ==
  ASSUME NEW w \in Nat \ {0}, NEW size \in Nat, NEW chunk \in Nat \ {0}, size + chunk < w
  PROVE  (((size - 1) % w) + chunk) % w = size + chunk - 1
<1>1. CASE size = 0
  <2>1. /\ size - 1 = w * (-1) + (w - 1) /\ size - 1 \in Int /\ -1 \in Int /\ w - 1 \in 0 .. w - 1
    BY <1>1
  <2>2. (size - 1) % w = w - 1
    BY <2>1, DivUnique, Zenon
  <2>3. /\ w - 1 + chunk = w * 1 + (chunk - 1) /\ w - 1 + chunk \in Int /\ 1 \in Int
        /\ chunk - 1 \in 0 .. w - 1 /\ size + chunk - 1 = chunk - 1
    BY <1>1
  <2>4. (w - 1 + chunk) % w = chunk - 1
    BY <2>3, DivUnique, Zenon
  <2> QED BY <2>2, <2>3, <2>4
<1>2. CASE size # 0
  <2>1. size - 1 = w * 0 + (size - 1) /\ size - 1 \in Int /\ 0 \in Int /\ size - 1 \in 0 .. w - 1
    BY <1>2
  <2>2. (size - 1) % w = size - 1
    BY <2>1, DivUnique, Zenon
  <2>3. /\ size - 1 + chunk = w * 0 + (size - 1 + chunk) /\ size - 1 + chunk \in Int
        /\ size - 1 + chunk \in 0 .. w - 1 /\ size + chunk - 1 = size - 1 + chunk
    BY <1>2
  <2>4. (size - 1 + chunk) % w = size - 1 + chunk
    BY <2>1, <2>3, DivUnique, Zenon
  <2> QED BY <2>2, <2>3, <2>4
<1> QED BY <1>1, <1>2

(* One round of the loop.                                                  *)
LEMMA WriteChunkStep ==
  ASSUME FileDataAssumption, FileInv, panic = "none", WriteChunk(Writer)
  PROVE  FileInv'
<1> DEFINE c == call[Writer]
           n == iSize \div BlockSize
           chunk == Min({c.left, BlockSize - Offset})
           lba == c.all[n]
           sector == [o \in DOMAIN Zeros |->
                        IF o \in Offset .. Offset + chunk - 1 THEN iSize - Offset + o + 1
                        ELSE c.buf[o]]
           new == [c EXCEPT !.left = 0]
<1>0. /\ pc[Writer] = "write" /\ sect' = [sect EXCEPT ![lba] = sector]
      /\ iSize' = iSize + chunk
      /\ pos' = [pos EXCEPT ![Writer] = (@ + chunk) % Wrap]
      /\ call' = [call EXCEPT ![Writer].left = 0]
      /\ pc' = [pc EXCEPT ![Writer] = IF chunk < c.count THEN "spin" ELSE "inode"]
      /\ UNCHANGED <<memBits, diskBits, others, iSectors, twoSec, dSize, dSectors,
                     bootIntact, acked, shortage, panic>>
  BY DEF WriteChunk, bitVars
<1>1. /\ c \in Calls /\ c.count \in Nat \ {0} /\ c.has \in Nat /\ c.will \in Nat /\ c.idx \in Nat
      /\ c.all \in [Index -> 0 .. NBlocks] /\ c.left = c.count
      /\ iSize + c.count <= MaxSectors * BlockSize
      /\ c.has = n + 1 /\ c.has <= MaxDirect /\ n \in Index /\ n < MaxDirect
      /\ c.will = BlocksUsed(iSize + c.count) /\ c.will <= MaxSectors
      /\ c.has <= c.idx /\ c.idx <= c.will
      /\ c.will = MaxSectors => iSectors[MaxDirect] # 0
      /\ \A i \in Index : i < c.idx /\ i < MaxDirect => iSectors[i] # 0
      /\ \A i \in Index : c.has - 1 <= i /\ i < c.idx /\ i < MaxDirect => c.all[i] = iSectors[i]
      /\ \A i \in Index : c.has - 1 <= i /\ i < c.idx /\ ~(i < MaxDirect) =>
           \A j \in Index : iSectors[j] # c.all[i]
      /\ \A i \in Index : i <= n => iSectors[i] # 0
  BY <1>0, GrowFacts
<1>2. /\ FType /\ Owned /\ Copied /\ Backed /\ Written /\ Tidy /\ Writing /\ Reading
      /\ DamageExplained
  BY DEF FileInv
<1>3. /\ pc \in [Tasks -> Labels] /\ call \in [Tasks -> Calls] /\ pos \in [Tasks -> Nat]
      /\ iSize \in Nat /\ dSize \in Nat /\ dSize <= iSize /\ iSectors \in [Index -> 0 .. NBlocks]
      /\ sect \in [0 .. NBlocks -> [Offsets -> Int]]
  BY <1>2 DEF FType, Addresses
<1>4. /\ Writer \in Tasks /\ BlockSize \in Nat \ {0} /\ MaxDirect \in Nat \ {0}
      /\ MaxSectors = MaxDirect + 1 /\ Index = 0 .. MaxDirect /\ MaxDirect \in Index
      /\ Wrap \in Nat \ {0} /\ MaxSectors * BlockSize < Wrap /\ MaxSectors * BlockSize \in Nat
      /\ MaxDirect * BlockSize \in Nat
  BY Sizes
<1>5. c.idx = c.will /\ c.buf = sect[iSectors[n]] /\ pos[Writer] = (iSize - 1) % Wrap
  BY <1>0, <1>2, <1>4 DEF Writing, Reading
<1>n. /\ c.has \in Nat /\ c.will \in Nat /\ c.idx \in Nat /\ MaxDirect \in Nat
      /\ c.has = n + 1 /\ c.has <= MaxDirect /\ c.has <= c.idx /\ c.idx = c.will
      /\ c.will <= MaxDirect + 1 /\ Index = 0 .. MaxDirect /\ MaxSectors = MaxDirect + 1
  BY <1>1, <1>4, <1>5
<1>6. c.left \in Nat \ {0}
  BY <1>1
<1>7. /\ n \in Nat /\ Offset \in 0 .. BlockSize - 1 /\ iSize = BlockSize * n + Offset
      /\ chunk \in Nat \ {0} /\ chunk <= c.left /\ Offset + chunk <= BlockSize
      /\ iSize + chunk <= BlockSize * n + BlockSize
      /\ chunk < c.left => (iSize + chunk) \div BlockSize = n + 1
      /\ \A p \in Nat : BlockSize * n <= p /\ p < iSize + chunk =>
           p \div BlockSize = n /\ p = BlockSize * n + (p % BlockSize)
           /\ p % BlockSize \in 0 .. BlockSize - 1
  <2>1. BlockSize \in Nat \ {0} /\ iSize \in Nat
    BY <1>3, <1>4
  <2> HIDE DEF c
  <2> QED BY <1>6, <2>1, ChunkEnd, Zenon DEF Offset
<1>8. lba = iSectors[n] /\ lba \in 0 .. NBlocks
  <2> HIDE DEF n, c
  <2>1. c.has - 1 <= n /\ n < c.idx
    BY <1>1, <1>7
  <2> QED BY <1>1, <1>3, <2>1
<1>9. BlockSize * n \in Nat /\ BlockSize * n + BlockSize <= MaxDirect * BlockSize
  <2> HIDE DEF n
  <2>1. BlockSize \in Nat \ {0} /\ n \in Int /\ n \in Nat /\ MaxDirect \in Int /\ n < MaxDirect
    BY <1>1, <1>4, <1>7
  <2>2. BlockSize * n + BlockSize <= BlockSize * MaxDirect
    BY <2>1, MulMono, Zenon
  <2>3. BlockSize * MaxDirect = MaxDirect * BlockSize /\ BlockSize * n \in Nat
    BY <2>1
  <2> QED BY <2>2, <2>3
<1> DEFINE size == iSize + chunk
           m == size \div BlockSize
<1> HIDE DEF n, chunk, lba, c
<1>10. /\ size \in Nat /\ iSize' = size /\ iSize <= size /\ size <= MaxDirect * BlockSize
       /\ size <= iSize + c.count /\ size < Wrap /\ size > 0
  <2>1. /\ iSize \in Nat /\ chunk \in Nat \ {0} /\ chunk <= c.count /\ c.count \in Nat
        /\ iSize + c.count <= MaxSectors * BlockSize
    BY <1>1, <1>3, <1>7
  <2>2. size <= MaxDirect * BlockSize
    <3>1. iSize + chunk <= BlockSize * n + BlockSize
      BY <1>7
    <3>2. BlockSize * n + BlockSize \in Nat /\ MaxDirect * BlockSize \in Nat
      BY <1>4, <1>9
    <3> QED BY <1>9, <2>1, <3>1, <3>2
  <2>3. size <= iSize + c.count /\ size < Wrap
    BY <1>4, <2>1
  <2> QED BY <1>0, <2>1, <2>2, <2>3
<1> HIDE DEF size
<1>11. m \in Nat /\ m + 1 <= c.will /\ (size = iSize + c.count => m + 1 = c.will)
  <2>1. iSize + c.count \in Nat /\ (iSize + c.count) \div BlockSize + 1 = c.will
    BY <1>1, <1>3 DEF BlocksUsed
  <2>2. PICK whole \in Nat : whole = iSize + c.count
    BY <2>1
  <2>3. size \in Nat /\ BlockSize \in Nat \ {0} /\ size <= whole
    BY <1>4, <1>10, <2>2
  <2> DEFINE q == whole \div BlockSize
  <2>4. m \in Nat /\ q \in Nat
    BY <2>3, DivNat, Zenon
  <2>5. m <= q
    BY <2>3, DivMono, Zenon
  <2>6. q + 1 = c.will
    BY <2>1, <2>2
  <2>7. size = whole => m = q
    OBVIOUS
  <2> HIDE DEF q, m
  <2> QED BY <2>2, <2>4, <2>5, <2>6, <2>7
<1> HIDE DEF m
<1>12. sector \in [Offsets -> Int] /\ DOMAIN Zeros = Offsets
  <2>1. DOMAIN Zeros = Offsets /\ Offsets \subseteq Int
    BY <1>4 DEF Zeros, Offsets
  <2>2. c.buf \in [Offsets -> Int]
    BY <1>1 DEF Calls
  <2>3. iSize \in Int /\ Offset \in Int
    BY <1>3, <1>7
  <2>4. \A o \in Offsets : iSize - Offset + o + 1 \in Int /\ c.buf[o] \in Int
    BY <2>1, <2>2, <2>3
  <2> QED BY <2>1, <2>4
<1> HIDE DEF sector
<1>13. /\ sect' \in [0 .. NBlocks -> [Offsets -> Int]] /\ sect'[iSectors[n]] = sector
       /\ \A b \in 0 .. NBlocks : b # iSectors[n] => sect'[b] = sect[b]
  BY <1>0, <1>3, <1>8, <1>12
<1>14. pos'[Writer] = size - 1 /\ pos'[Writer] \in Nat
  <2>1. pos'[Writer] = (((iSize - 1) % Wrap) + chunk) % Wrap
    BY <1>0, <1>3, <1>4, <1>5
  <2>2. iSize \in Nat /\ Wrap \in Nat \ {0} /\ chunk \in Nat \ {0} /\ iSize + chunk < Wrap
    BY <1>3, <1>4, <1>7, <1>10 DEF size
  <2>3. pos'[Writer] = iSize + chunk - 1
    BY <2>1, <2>2, PosFollows, Zenon
  <2> QED BY <2>2, <2>3 DEF size
<1>15. /\ new \in Calls /\ new.all = c.all
  BY <1>1 DEF Calls
<1> HIDE DEF new
<1>16. PICK label \in {"spin", "inode"} : label = IF chunk < c.count THEN "spin" ELSE "inode"
  OBVIOUS
<1>17. /\ pc' \in [Tasks -> Labels] /\ call' \in [Tasks -> Calls] /\ pos' \in [Tasks -> Nat]
       /\ pc'[Writer] = label /\ call'[Writer] = new
       /\ \A u \in Tasks \ {Writer} : pos'[u] = pos[u] /\ pc'[u] = pc[u] /\ call'[u] = call[u]
  <2>1. pc' = [pc EXCEPT ![Writer] = label]
    BY <1>0, <1>16
  <2>2. call' = [call EXCEPT ![Writer] = new]
    BY <1>0, <1>3, <1>4 DEF new, c
  <2>3. \A u \in Tasks \ {Writer} : pos'[u] = pos[u]
    BY <1>0, <1>3
  <2>4. pos' \in [Tasks -> Nat]
    <3>1. \A u \in Tasks : pos'[u] \in Nat
      BY <1>3, <1>14, <2>3
    <3>2. DOMAIN pos' = Tasks /\ pos' = [u \in DOMAIN pos' |-> pos'[u]]
      BY <1>0, <1>3
    <3> QED BY <3>1, <3>2
  <2> QED BY <1>3, <1>4, <1>15, <2>1, <2>2, <2>3, <2>4 DEF Labels
<1>18. FType'
  <2>1. \A u \in Tasks : pc'[u] \in {"idle", "rchunk"} \/ u = Writer
    BY <1>2, <1>17 DEF FType
  <2>2. iSize' \in Nat /\ iSize' <= MaxDirect * BlockSize /\ dSize' \in Nat /\ dSize' <= iSize'
    BY <1>0, <1>3, <1>10
  <2> QED BY <1>0, <1>2, <1>13, <1>17, <2>1, <2>2 DEF FType
<1>19. Owned' /\ Copied'
  BY <1>0, <1>2 DEF Owned, Copied
<1>20. Backed'
  <2> SUFFICES ASSUME NEW i \in Index, i <= m PROVE iSectors[i] # 0
    BY <1>0, <1>10 DEF Backed, m
  <2>1. i \in Nat /\ i < c.idx /\ i <= MaxDirect
    BY <1>n, <1>11
  <2>2. CASE i < MaxDirect
    BY <1>1, <2>1, <2>2
  <2>3. CASE i = MaxDirect
    <3>1. c.will = MaxSectors
      BY <1>n, <2>1, <2>3
    <3> QED BY <1>1, <2>3, <3>1
  <2> QED BY <1>n, <2>1, <2>2, <2>3
<1>21. Written'
  <2> SUFFICES ASSUME NEW p \in 0 .. size - 1
               PROVE  sect'[iSectors[p \div BlockSize]][p % BlockSize] = p + 1
    BY <1>0, <1>10 DEF Written
  <2>0. p \in Nat /\ p < size /\ (p < iSize => p \in 0 .. iSize - 1)
    BY <1>3, <1>10
  <2>1. CASE BlockSize * n <= p
    <3>1. p \div BlockSize = n /\ p = BlockSize * n + (p % BlockSize) /\ p % BlockSize \in Offsets
      BY <1>7, <2>0, <2>1 DEF size, Offsets
    <3>2. PICK o \in Offsets : o = p % BlockSize
      BY <3>1
    <3>3. /\ o \in Nat /\ p = BlockSize * n + o /\ BlockSize * n \in Nat /\ Offset \in Nat
          /\ iSize = BlockSize * n + Offset /\ chunk \in Nat
      BY <1>4, <1>7, <1>9, <3>1, <3>2 DEF Offsets
    <3>4. CASE p < iSize
      <4>1. o \notin Offset .. Offset + chunk - 1
        BY <3>3, <3>4
      <4>2. sector[o] = c.buf[o]
        BY <1>12, <4>1 DEF sector
      <4>3. sect[iSectors[n]][o] = p + 1
        BY <1>2, <2>0, <3>1, <3>2, <3>4 DEF Written
      <4> QED BY <1>5, <1>13, <3>1, <3>2, <4>2, <4>3
    <3>5. CASE ~(p < iSize)
      <4>1. o \in Offset .. Offset + chunk - 1 /\ iSize - Offset + o + 1 = p + 1
        BY <2>0, <3>3, <3>5 DEF size
      <4>2. sector[o] = p + 1
        BY <1>12, <4>1 DEF sector
      <4> QED BY <1>13, <3>1, <3>2, <4>2
    <3> QED BY <3>4, <3>5
  <2>2. CASE ~(BlockSize * n <= p)
    <3>1. p < iSize /\ p < n * BlockSize
      BY <1>7, <1>9, <2>0, <2>2
    <3>2. p \div BlockSize < n
      BY <1>4, <1>7, <2>0, <3>1, DivBelow, Zenon
    <3>3. p \div BlockSize \in Index /\ iSectors[p \div BlockSize] # 0
      BY <1>2, <2>0, <3>1, BytesMapped
    <3>4. p \div BlockSize # n
      BY <1>7, <3>2
    <3>5. iSectors[p \div BlockSize] # iSectors[n]
      BY <1>1, <1>2, <3>3, <3>4 DEF Owned
    <3>6. sect'[iSectors[p \div BlockSize]] = sect[iSectors[p \div BlockSize]]
      BY <1>3, <1>13, <3>3, <3>5
    <3> QED BY <1>2, <2>0, <3>1, <3>6 DEF Written
  <2> QED BY <2>1, <2>2
<1>22. Tidy'
  <2>1. ASSUME ~shortage, label = "inode", NEW i \in Index, i > m PROVE iSectors[i] = 0
    <3>1. c.count = c.left /\ chunk <= c.left /\ ~(chunk < c.count)
      BY <1>1, <1>7, <1>16, <2>1
    <3>2. chunk = c.count
      BY <1>1, <1>7, <3>1
    <3>3. m + 1 = c.will
      BY <1>11, <3>2 DEF size
    <3>4. i >= c.idx /\ (i < MaxDirect \/ c.will <= MaxDirect)
      BY <1>n, <1>11, <2>1, <3>3
    <3> QED BY <1>0, <1>2, <2>1, <3>4 DEF Tidy, c
  <2>2. /\ pc'[Writer] = label /\ shortage' = shortage /\ iSectors' = iSectors
        /\ m = iSize' \div BlockSize
    BY <1>0, <1>10, <1>17 DEF m
  <2> QED BY <1>16, <2>1, <2>2 DEF Tidy, Quiet
<1>23. Writing'
  <2>1. ASSUME label = "spin", NEW p \in 0 .. size - 1
        PROVE  iSectors[p \div BlockSize] # c.all[m]
    <3>1. chunk < c.count /\ m = n + 1
      <4>1. chunk < c.count /\ c.left = c.count
        BY <1>1, <1>16, <2>1
      <4>2. size \div BlockSize = n + 1
        BY <1>7, <4>1, Zenon DEF size
      <4> QED BY <4>1, <4>2 DEF m
    <3>2. m \in Index /\ c.has - 1 <= m /\ m < c.idx
      <4>1. n \in Nat
        BY <1>7
      <4>2. m + 1 <= c.will /\ m = n + 1
        BY <1>11, <3>1
      <4> QED BY <1>n, <4>1, <4>2
    <3>3. p \div BlockSize \in Index /\ p \div BlockSize # m /\ iSectors[p \div BlockSize] # 0
      <4>1. p \in Nat /\ p < size /\ size \in Nat
        BY <1>10
      <4>2. p < (n + 1) * BlockSize
        <5>1. (n + 1) * BlockSize = BlockSize * n + BlockSize
          BY <1>4, <1>7
        <5>2. size <= BlockSize * n + BlockSize
          BY <1>7 DEF size
        <5> QED BY <1>9, <4>1, <5>1, <5>2
      <4>3. p \div BlockSize < n + 1
        <5>1. n + 1 \in Nat /\ BlockSize \in Nat \ {0}
          BY <1>4, <1>7
        <5> QED BY <4>1, <4>2, <5>1, DivBelow, Zenon
      <4>4. p \div BlockSize \in Nat
        BY <1>4, <4>1, DivNat, Zenon
      <4>5. PICK q \in Nat : q = p \div BlockSize
        BY <4>4
      <4>6. q \in Index /\ q # m /\ q <= n
        <5>1. n \in Nat /\ n + 1 <= MaxDirect /\ q < n + 1 /\ m = n + 1
          BY <1>n, <1>7, <3>1, <4>3, <4>5
        <5>2. MaxDirect \in Nat /\ Index = 0 .. MaxDirect
          BY <1>n
        <5> QED BY <5>1, <5>2
      <4> QED BY <1>1, <4>5, <4>6
    <3>4. CASE m < MaxDirect
      <4>1. c.all[m] = iSectors[m]
        BY <1>1, <3>2, <3>4
      <4> QED BY <1>2, <3>2, <3>3, <4>1 DEF Owned
    <3>5. CASE ~(m < MaxDirect)
      BY <1>1, <3>2, <3>3, <3>5
    <3> QED BY <3>4, <3>5
  <2>2. pc'[Writer] = label /\ iSectors' = iSectors /\ iSize' = size /\ call'[Writer].all = c.all
    BY <1>0, <1>10, <1>15, <1>17
  <2>3. pc'[Writer] \notin {"plan", "grow", "read", "write"}
    BY <1>16, <2>2
  <2> QED BY <2>1, <2>2, <2>3 DEF Writing, m
<1>24. Reading'
  <2>1. Kept /\ iSize' \in Nat /\ iSize' >= iSize
    BY <1>0, <1>3, <1>10 DEF Kept
  <2>2. pos'[Writer] <= iSize' /\ pc'[Writer] # "write" /\ pc'[Writer] # "rchunk"
    BY <1>10, <1>14, <1>16, <1>17
  <2> QED BY <1>2, <1>17, <2>1, <2>2, ReadersKept
<1>25. DamageExplained'
  BY <1>0, <1>2 DEF DamageExplained
<1> QED BY <1>18, <1>19, <1>20, <1>21, <1>22, <1>23, <1>24, <1>25 DEF FileInv

-----------------------------------------------------------------------------
(* A new file has no bytes and no blocks.                                  *)
LEMMA InitFileInv ==
  ASSUME FileDataAssumption, Init
  PROVE  FileInv
<1>0. /\ Writer \in Tasks /\ Index \subseteq Nat /\ 0 \in 0 .. NBlocks /\ MaxDirect \in Index
      /\ MaxDirect * BlockSize \in Nat
  BY Sizes
<1>1. /\ iSectors \in Addresses /\ dSectors \in Addresses
      /\ \A i \in Index : iSectors[i] = 0 /\ dSectors[i] = 0
  BY <1>0 DEF Init, Addresses
<1>2. sect \in [0 .. NBlocks -> [Offsets -> Int]]
  BY DEF Init, Zeros, Offsets
<1>3. call \in [Tasks -> Calls] /\ pc \in [Tasks -> Labels] /\ pos \in [Tasks -> Nat]
  BY NoCallTyped DEF Init, Labels
<1>4. pc[Writer] = "idle" /\ iSize = 0 /\ dSize = 0 /\ acked = 0
  BY <1>0 DEF Init
<1>5. FType
  <2>1. /\ memBits = {} /\ diskBits = {} /\ others = {}
        /\ bootIntact \in BOOLEAN /\ shortage \in BOOLEAN /\ twoSec \in BOOLEAN
        /\ \A t \in Tasks : pc[t] = "idle"
    BY DEF Init
  <2>2. iSize \in Nat /\ iSize <= MaxDirect * BlockSize /\ dSize \in Nat /\ dSize <= iSize
    BY <1>0, <1>4
  <2> QED BY <1>1, <1>2, <1>3, <1>4, <2>1, <2>2 DEF FType
<1>6. Owned /\ Copied /\ Backed /\ Written
  BY <1>1, <1>4 DEF Owned, Copied, Backed, Written, Quiet
<1>7. Tidy /\ Writing
  BY <1>1, <1>4 DEF Tidy, Writing
<1>8. Reading
  <2>1. \A t \in Tasks : pos[t] = 0 /\ pc[t] = "idle"
    BY DEF Init
  <2> QED BY <1>4, <2>1 DEF Reading
<1>9. DamageExplained
  BY DEF Init, DamageExplained
<1> QED BY <1>5, <1>6, <1>7, <1>8, <1>9 DEF FileInv

(* Every step keeps the invariant of the file.                             *)
LEMMA FileStepInv ==
  ASSUME FileDataAssumption, FileInv, [Next]_vars
  PROVE  FileInv'
<1>1. CASE UNCHANGED vars
  <2>1. UNCHANGED <<memBits, diskBits, others, iSize, iSectors, twoSec, dSize, dSectors, sect,
                    bootIntact, pos, pc, call, acked, shortage, panic>>
    BY <1>1 DEF vars, bitVars, inodeVars, diskVars, histVars
  <2>2. DamageExplained'
    BY <2>1 DEF FileInv, DamageExplained
  <2>3. Panic(panic)
    BY <2>1 DEF Panic, bitVars, inodeVars, diskVars, histVars
  <2> QED BY <2>2, <2>3, PanicStep
<1>2. CASE panic = "none" /\ \E t \in Tasks : Step(t)
  BY <1>2, ReaderStep
<1>3. CASE panic = "none" /\ \E count \in 1 .. MaxCount : Write(Writer, count)
  BY <1>3, WriteStep
<1>4. CASE panic = "none" /\ WriterStep(Writer)
  BY <1>4, PlanStep, GrowStep, ReadLastStep, WriteChunkStep, SpinStep, WriteInodeStep DEF WriterStep
<1>5. CASE panic = "none" /\ (OtherAlloc \/ OtherFree)
  BY <1>5, OtherStep
<1> QED BY <1>1, <1>2, <1>3, <1>4, <1>5 DEF Next

(* The invariant of the file holds in every reachable state.               *)
THEOREM FileInvariance == Spec => []FileInv
<1>1. Init => FileInv
  BY InitFileInv, FileDataAssumption
<1>2. FileInv /\ [Next]_vars => FileInv'
  BY FileStepInv, FileDataAssumption
<1> QED BY <1>1, <1>2, PTL DEF Spec

(* Wherever the machine stops, the inode on the disk describes a prefix of *)
(* what was appended, and its blocks hold these bytes: File_Write writes   *)
(* data, then the inode, and never changes the address of a block.         *)
THEOREM DurablePrefixHolds == Spec => []DurablePrefix
<1>1. FileInv => DurablePrefix
  <2> SUFFICES ASSUME FileInv PROVE DurablePrefix
    OBVIOUS
  <2>1. /\ acked = dSize /\ dSize \in Nat /\ dSize <= iSize /\ iSize \in Nat /\ FType /\ Backed
    BY DEF FileInv, FType
  <2>2. ASSUME NEW p \in 0 .. Min({dSize, MaxDirect * BlockSize}) - 1
        PROVE  /\ dSectors[p \div BlockSize] # 0
               /\ sect[dSectors[p \div BlockSize]][p % BlockSize] = p + 1
    <3>1. Min({dSize, MaxDirect * BlockSize}) \in Nat /\ Min({dSize, MaxDirect * BlockSize}) <= dSize
      <4>1. dSize \in Nat /\ MaxDirect * BlockSize \in Nat
        BY <2>1, Sizes, FileDataAssumption
      <4> QED BY <4>1, MinOfTwo, Zenon
    <3>2. p \in 0 .. dSize - 1 /\ p \in 0 .. iSize - 1
      BY <2>1, <3>1
    <3>3. p \div BlockSize \in Index
      BY <2>1, <3>2, BytesMapped, FileDataAssumption
    <3>4. dSectors[p \div BlockSize] # 0 /\ dSectors[p \div BlockSize] = iSectors[p \div BlockSize]
      BY <3>2, <3>3 DEF FileInv, Copied
    <3> QED BY <3>2, <3>4 DEF FileInv, Written
  <2>3. acked <= dSize /\ dSize <= iSize
    BY <2>1
  <2> QED BY <2>2, <2>3, Zenon DEF DurablePrefix
<1> QED BY <1>1, FileInvariance, PTL

(* No block of data of the inode on the disk is free on the disk: the      *)
(* bitmap is written before the inode.                                     *)
THEOREM DiskBlocksTakenHolds == Spec => []DiskBlocksTaken
<1>1. FileInv => DiskBlocksTaken
  BY DEF FileInv, Owned, Copied, DiskBlocksTaken
<1> QED BY <1>1, FileInvariance, PTL

(* A block has one user, also after writes that ran out of blocks halfway. *)
THEOREM NoSharedBlockHolds == Spec => []NoSharedBlock
<1>1. FileInv => NoSharedBlock
  BY DEF FileInv, Owned, NoSharedBlock, Mapped
<1> QED BY <1>1, FileInvariance, PTL

(* File_Read reads blocks of the file, also while the file grows.          *)
THEOREM ReadsFileHolds == Spec => []ReadsFile
<1>1. FileInv => ReadsFile
  <2> SUFFICES ASSUME FileInv, NEW t \in Tasks, pc[t] = "rchunk", call[t].left > 0
               PROVE  LET i == pos[t] \div BlockSize
                      IN i < MaxDirect /\ call[t].all[i] # 0 /\ call[t].all[i] = iSectors[i]
    BY DEF ReadsFile
  <2>1. /\ pos[t] \in Nat /\ call[t].left \in Nat /\ iSize \in Nat /\ FType /\ Backed
        /\ pos[t] + call[t].left <= iSize
        /\ \A p \in pos[t] .. pos[t] + call[t].left - 1 :
             call[t].all[p \div BlockSize] = iSectors[p \div BlockSize]
    <3>1. call[t] \in Calls /\ pos[t] \in Nat /\ iSize \in Nat /\ FType /\ Backed
      BY DEF FileInv, FType
    <3> QED BY <3>1 DEF FileInv, Reading, Calls
  <2>2. pos[t] \in 0 .. iSize - 1 /\ pos[t] \in pos[t] .. pos[t] + call[t].left - 1
    <3>1. /\ pos[t] \in Nat /\ call[t].left \in Nat /\ iSize \in Nat
          /\ pos[t] + call[t].left <= iSize
      BY <2>1
    <3> QED BY <3>1
  <2> QED BY <2>1, <2>2, BytesMapped, FileDataAssumption
<1> QED BY <1>1, FileInvariance, PTL

(* The ASSERTs of File_Write fail, and sector 0 is overwritten, only as    *)
(* DamageExplained says.                                                   *)
THEOREM DamageExplainedHolds == Spec => []DamageExplained
<1>1. FileInv => DamageExplained
  BY DEF FileInv
<1> QED BY <1>1, FileInvariance, PTL
=============================================================================
