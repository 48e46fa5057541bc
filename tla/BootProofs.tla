----------------------------- MODULE BootProofs -----------------------------
(***************************************************************************)
(* Proofs about Layout and Boot, for partitions of every size, partition   *)
(* tables of every kind and any number of power failures.                  *)
(***************************************************************************)
EXTENDS Boot, FiniteSetTheorems, TLAPS

(* Division as DIV_ROUND_UP and the numbers of bytes and bits use it.      *)
LEMMA DivMod ==
  ASSUME NEW x \in Nat, NEW k \in Nat \ {0}
  PROVE  /\ x \div k \in Nat
         /\ x % k \in 0 .. k - 1
         /\ x = k * (x \div k) + (x % k)
  OBVIOUS

(* The same below 0, where a partition is too small.                       *)
LEMMA DivModInt ==
  ASSUME NEW x \in Int, NEW k \in Nat \ {0}
  PROVE  /\ x \div k \in Int
         /\ x % k \in 0 .. k - 1
         /\ x = k * (x \div k) + (x % k)
  OBVIOUS

(* A larger number has no smaller quotient.                                *)
LEMMA DivMono ==
  ASSUME NEW x \in Nat, NEW y \in Nat, NEW k \in Nat \ {0}, x <= y
  PROVE  x \div k <= y \div k
<1>1. /\ x \div k \in Nat /\ x % k \in 0 .. k - 1 /\ x = k * (x \div k) + (x % k)
      /\ y \div k \in Nat /\ y % k \in 0 .. k - 1 /\ y = k * (y \div k) + (y % k)
  BY DivMod
<1>2. ASSUME x \div k >= (y \div k) + 1
      PROVE  FALSE
  <2>1. k * (x \div k) >= k * ((y \div k) + 1)
    BY <1>1, <1>2
  <2>2. k * ((y \div k) + 1) = k * (y \div k) + k
    BY <1>1
  <2>3. QED
    BY <1>1, <2>1, <2>2
<1>3. QED
  BY <1>1, <1>2

(* Numbers are in the order of their bytes and, within a byte, of their bits. *)
LEMMA ByByteAndBit ==
  ASSUME NEW x \in Nat, NEW y \in Nat, NEW k \in Nat \ {0},
         x \div k < y \div k \/ (x \div k = y \div k /\ x % k <= y % k)
  PROVE  x <= y
<1>1. /\ x \div k \in Nat /\ x % k \in 0 .. k - 1 /\ x = k * (x \div k) + (x % k)
      /\ y \div k \in Nat /\ y % k \in 0 .. k - 1 /\ y = k * (y \div k) + (y % k)
  BY DivMod
<1>2. CASE x \div k = y \div k /\ x % k <= y % k
  BY <1>1, <1>2
<1>3. CASE x \div k < y \div k
  <2>1. k * ((x \div k) + 1) <= k * (y \div k)
    BY <1>1, <1>3
  <2>2. k * ((x \div k) + 1) = k * (x \div k) + k
    BY <1>1
  <2>3. QED
    BY <1>1, <2>1, <2>2
<1>4. QED
  BY <1>2, <1>3

(* The bits that FS_PartitionFormat leaves free: none of them is the       *)
(* root's, and only the last is behind the blocks that there are.          *)
LEMMA FreeBitsBound ==
  ASSUME NEW n \in Nat, BlockBitmapBitLen(n) \in Nat, NEW b \in FreeBits(n)
  PROVE  b \in Nat /\ b # 0 /\ b <= BlockBitmapBitLen(n)
<1>1. SectorBits \in Nat \ {0} /\ ByteBits \in Nat \ {0}
  BY LayoutAssumption
<1>2. BlockBitmapSects(n) \in Nat
  <2>1. BlockBitmapBitLen(n) + SectorBits - 1 \in Nat
    BY <1>1
  <2>2. QED
    BY <1>1, <2>1, DivMod DEF BlockBitmapSects, DivRoundUp
<1>3. b \in 1 .. BlockBitmapSects(n) * SectorBits - 1
  BY DEF FreeBits
<1>4. b \in Nat /\ b # 0
  BY <1>1, <1>2, <1>3
<1>5. \/ b \div ByteBits < BlockBitmapBitLen(n) \div ByteBits
      \/ /\ b \div ByteBits = BlockBitmapBitLen(n) \div ByteBits
         /\ b % ByteBits <= BlockBitmapBitLen(n) % ByteBits
  BY Zenon DEF FreeBits, LastFree
<1>6. b <= BlockBitmapBitLen(n)
  BY <1>1, <1>4, <1>5, ByByteAndBit
<1>7. QED
  BY <1>4, <1>6

(* The estimate that counts the bitmap's own sectors is not the smaller:   *)
(* the data area ends inside the partition.                                *)
LEMMA DataFits ==
  ASSUME NEW n \in Nat, FreeSects(n) \in Nat,
         BlockBitmapBitLen(n) \in Nat
  PROVE  /\ DataStartLBA(n) \in Nat
         /\ DataStartLBA(n) + BlockBitmapBitLen(n) <= n
<1> DEFINE first == DivRoundUp(FreeSects(n), SectorBits)
<1>1. SectorBits \in Nat \ {0} /\ InodeBitmapSects \in Nat /\ InodeTableSects \in Nat
  BY LayoutAssumption
<1>2. first \in Nat
  BY <1>1, DivMod DEF DivRoundUp
<1>3. BlockBitmapBitLen(n) = FreeSects(n) - first
  BY DEF BlockBitmapBitLen
<1>4. BlockBitmapSects(n) \in Nat /\ BlockBitmapSects(n) <= first
  <2>1. BlockBitmapBitLen(n) + SectorBits - 1 <= FreeSects(n) + SectorBits - 1
    BY <1>1, <1>2, <1>3
  <2>2. /\ BlockBitmapBitLen(n) + SectorBits - 1 \in Nat
        /\ FreeSects(n) + SectorBits - 1 \in Nat
    BY <1>1
  <2>3. (BlockBitmapBitLen(n) + SectorBits - 1) \div SectorBits
          <= (FreeSects(n) + SectorBits - 1) \div SectorBits
    BY <2>1, <2>2, <1>1, DivMono
  <2>4. (BlockBitmapBitLen(n) + SectorBits - 1) \div SectorBits \in Nat
    BY <2>2, <1>1, DivMod
  <2>5. QED
    BY <2>3, <2>4 DEF BlockBitmapSects, DivRoundUp
<1>5. DataStartLBA(n) = 2 + BlockBitmapSects(n) + InodeBitmapSects + InodeTableSects
  BY <1>1, <1>4 DEF DataStartLBA, InodeTableLBA, InodeBitmapLBA, BlockBitmapLBA
<1>6. FreeSects(n) = n - (2 + InodeBitmapSects + InodeTableSects)
  BY <1>1 DEF FreeSects, UsedSects
<1>7. QED
  BY <1>1, <1>2, <1>3, <1>4, <1>5, <1>6

-----------------------------------------------------------------------------
(* The partitions in their slots when FS_Init begins, and what it leaves.  *)

Booting == {"fs", "format", "mount"}

Whole(p) == \A a \in Areas : <<p, a>> \in image

(* What a super block on the disk stands for.                              *)
Images ==
  /\ image \subseteq carriers \X Areas
  /\ \A p \in carriers : <<p, 1>> \in image
  /\ \A p \in carriers : Whole(p) \/ p \in cut \/ (phase = "format" /\ p = Formatting)

(* The partition that is being formatted.                                  *)
InFormat ==
  phase = "format" =>
    /\ Formatting \in carriers
    /\ partIdx < Slots
    /\ area \in 2 .. 5
    /\ \A a \in 1 .. area - 1 : <<Formatting, a>> \in image

(* The slots of sdb that FS_Init has passed.                               *)
Passed ==
  phase \in Booting =>
    /\ hd = 1 \/ partIdx = Slots
    /\ \A k \in 0 .. partIdx - 1 : InSlot(1, k) # {} => PartAt(1, k) \in carriers

Mounts ==
  /\ phase = "mount" => partIdx = Slots
  /\ mounted # NoPart => phase = "up" /\ mounted \in carriers

Types ==
  /\ secCnt \in Sizes
  /\ partIdx \in 0 .. Slots
  /\ phase = "scan" => partIdx = 0

BootInv == Types /\ Images /\ InFormat /\ Passed /\ Mounts

(* The disks are as they came; no kernel has run.                          *)
LEMMA InitInv == Init => BootInv
<1> SUFFICES ASSUME Init PROVE BootInv
  OBVIOUS
<1>1. Types
  BY BootAssumption DEF Init, Types, Slots
<1>2. Images
  <2>1. image = carriers \X Areas
    BY DEF Init
  <2>2. \A p \in carriers : \A a \in Areas : <<p, a>> \in image
    BY <2>1
  <2>3. 1 \in Areas
    BY DEF Areas
  <2>4. QED
    BY <2>1, <2>2, <2>3 DEF Images, Whole
<1>3. InFormat /\ Passed /\ Mounts
  BY DEF Init, InFormat, Passed, Mounts, Booting
<1>4. QED
  BY <1>1, <1>2, <1>3 DEF BootInv

(* A step that neither formats nor mounts, out of the scan or into a halt. *)
LEMMA QuietStep ==
  ASSUME BootInv, UNCHANGED <<diskVars, fsVars>>, phase \notin {"format", "up"},
         phase' = "halt" \/ (phase = "scan" /\ phase' = "scan")
  PROVE  BootInv'
<1> USE DEF diskVars, fsVars
<1>1. Types'
  BY DEF BootInv, Types
<1>2. Images'
  BY DEF BootInv, Images, Whole
<1>3. InFormat' /\ Passed' /\ Mounts'
  BY DEF BootInv, InFormat, Passed, Mounts, Types, Booting
<1>4. QED
  BY <1>1, <1>2, <1>3 DEF BootInv

(* The scan of the last disk ends and FS_Init begins.                      *)
LEMMA ScanDiskStep ==
  ASSUME BootInv, ScanDisk
  PROVE  BootInv'
<1>1. CASE hd < NDisks
  <2>1. phase = "scan" /\ phase' = "scan" /\ UNCHANGED <<diskVars, fsVars>>
    BY <1>1 DEF ScanDisk
  <2>2. QED
    BY <2>1, QuietStep
<1>2. CASE ~(hd < NDisks)
  <2>1. /\ phase = "scan" /\ phase' = "fs" /\ hd' = 1
        /\ UNCHANGED <<tables, secCnt, image, cut, carriers, partIdx, area, mounted>>
    BY <1>2 DEF ScanDisk, diskVars, fsVars
  <2>2. Types'
    BY <2>1 DEF BootInv, Types
  <2>3. Images'
    BY <2>1 DEF BootInv, Images, Whole
  <2>4. InFormat' /\ Passed' /\ Mounts'
    BY <2>1 DEF BootInv, InFormat, Passed, Mounts, Types, Booting
  <2>5. QED
    BY <2>2, <2>3, <2>4 DEF BootInv
<1>3. QED
  BY <1>1, <1>2

(* A slot that is empty, or whose partition has a super block.             *)
LEMMA FsSkipStep ==
  ASSUME BootInv, FsSkip
  PROVE  BootInv'
<1>1. /\ phase = "fs" /\ phase' = "fs" /\ hd' = hd /\ partIdx < Slots
      /\ partIdx' = partIdx + 1 /\ partIdx \in 0 .. Slots
      /\ InSlot(hd, partIdx) # {} => <<PartAt(hd, partIdx), 1>> \in image
      /\ UNCHANGED <<secCnt, image, cut, carriers, area, mounted, partList>>
  BY DEF FsSkip, NextIdx, HasMagic, BootInv, Types, diskVars, scanVars
<1>2. Slots \in Nat
  BY BootAssumption DEF Slots
<1>3. Types'
  BY <1>1, <1>2 DEF BootInv, Types, Slots
<1>4. Images'
  BY <1>1 DEF BootInv, Images, Whole
<1>5. Passed'
  <2>1. \A k : InSlot(1, k)' = InSlot(1, k) /\ PartAt(1, k)' = PartAt(1, k)
    BY <1>1 DEF InSlot, PartAt, SlotOf
  <2>2. hd = 1
    BY <1>1, <1>2 DEF BootInv, Passed, Booting
  <2>3. InSlot(1, partIdx) # {} => PartAt(1, partIdx) \in carriers
    BY <1>1, <2>2 DEF BootInv, Images
  <2>4. ASSUME NEW k \in 0 .. partIdx' - 1, InSlot(1, k) # {}
        PROVE  PartAt(1, k) \in carriers
    <3>1. k = partIdx \/ k \in 0 .. partIdx - 1
      BY <1>1, <1>2
    <3>2. QED
      BY <3>1, <2>3, <2>4, <1>1 DEF BootInv, Passed, Booting
  <2>5. QED
    BY <1>1, <2>1, <2>2, <2>4 DEF Passed
<1>6. InFormat' /\ Mounts'
  BY <1>1 DEF InFormat, Mounts, BootInv
<1>7. QED
  BY <1>3, <1>4, <1>5, <1>6 DEF BootInv

(* The slots of sdb stay what they are while the list does.                *)
LEMMA SameSlots ==
  ASSUME partList' = partList
  PROVE  \A d, k : InSlot(d, k)' = InSlot(d, k) /\ PartAt(d, k)' = PartAt(d, k)
  BY DEF InSlot, PartAt, SlotOf

(* The super block is written: the partition has one, and is not whole yet. *)
LEMMA FormatBeginStep ==
  ASSUME BootInv, FormatBegin
  PROVE  BootInv' /\ carriers' # carriers
<1>1. /\ phase = "fs" /\ phase' = "format" /\ partIdx < Slots /\ area' = 2
      /\ <<Formatting, 1>> \notin image
      /\ image' = image \cup {<<Formatting, 1>>}
      /\ carriers' = carriers \cup {Formatting}
      /\ UNCHANGED <<secCnt, cut, partIdx, mounted, hd, partList>>
  BY DEF FormatBegin, HasMagic, scanVars
<1>2. Formatting' = Formatting
  BY <1>1, SameSlots DEF Formatting
<1>3. Formatting \notin carriers
  BY <1>1 DEF BootInv, Images
<1>4. Types'
  BY <1>1 DEF BootInv, Types
<1>5. Images'
  <2>1. image' \subseteq carriers' \X Areas
    <3>1. <<Formatting, 1>> \in carriers' \X Areas
      BY <1>1 DEF Areas
    <3>2. image \subseteq carriers' \X Areas
      BY <1>1 DEF BootInv, Images
    <3>3. QED
      BY <1>1, <3>1, <3>2
  <2>2. \A p \in carriers' : <<p, 1>> \in image'
    BY <1>1 DEF BootInv, Images
  <2>3. ASSUME NEW p \in carriers'
        PROVE  Whole(p)' \/ p \in cut' \/ (phase' = "format" /\ p = Formatting')
    <3>1. CASE p = Formatting
      BY <3>1, <1>1, <1>2
    <3>2. CASE p \in carriers
      BY <3>2, <1>1 DEF BootInv, Images, Whole
    <3>3. QED
      BY <1>1, <3>1, <3>2
  <2>4. QED
    BY <2>1, <2>2, <2>3 DEF Images
<1>6. InFormat'
  <2>1. \A a \in 1 .. area' - 1 : <<Formatting', a>> \in image'
    BY <1>1, <1>2
  <2>2. QED
    BY <1>1, <1>2, <2>1 DEF InFormat, Slots
<1>7. Passed'
  BY <1>1, SameSlots DEF BootInv, Passed, Booting, Slots
<1>8. Mounts'
  BY <1>1 DEF BootInv, Mounts
<1>9. QED
  BY <1>1, <1>3, <1>4, <1>5, <1>6, <1>7, <1>8 DEF BootInv

(* There is no memory for the rest: the format is cut short.               *)
LEMMA FormatNoMemoryStep ==
  ASSUME BootInv, FormatNoMemory
  PROVE  BootInv'
<1>1. /\ phase = "format" /\ phase' = "halt"
      /\ cut' = cut \cup {Formatting}
      /\ UNCHANGED <<secCnt, image, carriers, partIdx, mounted>>
  BY DEF FormatNoMemory, Halt, fsVars
<1>2. Types'
  BY <1>1 DEF BootInv, Types
<1>3. Images'
  BY <1>1 DEF BootInv, Images, Whole
<1>4. InFormat' /\ Passed' /\ Mounts'
  BY <1>1 DEF BootInv, InFormat, Passed, Mounts, Booting
<1>5. QED
  BY <1>2, <1>3, <1>4 DEF BootInv

(* An area is written; with the last one the partition is whole.           *)
LEMMA FormatWriteStep ==
  ASSUME BootInv, FormatWrite
  PROVE  BootInv'
<1>1. /\ phase = "format" /\ hd' = hd
      /\ image' = image \cup {<<Formatting, area>>}
      /\ UNCHANGED <<secCnt, cut, carriers, mounted, partList>>
  BY DEF FormatWrite, scanVars
<1>2. /\ Formatting \in carriers /\ area \in 2 .. 5 /\ partIdx \in 0 .. Slots
      /\ partIdx < Slots /\ Slots \in Nat
      /\ \A a \in 1 .. area - 1 : <<Formatting, a>> \in image
  BY <1>1, BootAssumption DEF BootInv, InFormat, Types, Slots
<1>3. image' \subseteq carriers' \X Areas
  <2>1. image \subseteq carriers \X Areas
    BY DEF BootInv, Images
  <2>2. <<Formatting, area>> \in carriers \X Areas
    BY <1>2 DEF Areas
  <2>3. QED
    BY <1>1, <2>1, <2>2
<1>4. \A p \in carriers' : <<p, 1>> \in image'
  BY <1>1 DEF BootInv, Images
<1>5. \A p : Whole(p) => Whole(p)'
  BY <1>1 DEF Whole
<1>6. \A a \in 1 .. area : <<Formatting, a>> \in image'
  BY <1>1, <1>2
<1>7. hd = 1
  BY <1>1, <1>2 DEF BootInv, Passed, Booting
<1>8. CASE area < LastArea
  <2>1. phase' = "format" /\ area' = area + 1 /\ partIdx' = partIdx
    BY <1>1, <1>8 DEF FormatWrite
  <2>2. Formatting' = Formatting
    BY <1>1, <2>1, SameSlots DEF Formatting
  <2>3. Types' /\ Mounts'
    BY <1>1, <2>1 DEF BootInv, Types, Mounts, Slots
  <2>4. Images'
    BY <1>1, <1>3, <1>4, <1>5, <2>1, <2>2 DEF BootInv, Images
  <2>5. InFormat'
    <3>1. area' \in 2 .. 5 /\ area' - 1 = area
      BY <1>2, <1>8, <2>1 DEF LastArea
    <3>2. \A a \in 1 .. area' - 1 : <<Formatting', a>> \in image'
      BY <1>6, <2>2, <3>1
    <3>3. QED
      BY <1>1, <1>2, <2>1, <2>2, <3>1, <3>2 DEF InFormat, Slots
  <2>6. Passed'
    BY <1>1, <2>1, SameSlots DEF BootInv, Passed, Booting, Slots
  <2>7. QED
    BY <2>3, <2>4, <2>5, <2>6 DEF BootInv
<1>9. CASE ~(area < LastArea)
  <2>1. phase' = "fs" /\ partIdx' = partIdx + 1 /\ area = 5
    BY <1>1, <1>2, <1>9 DEF FormatWrite, NextIdx, LastArea
  <2>2. Types' /\ Mounts' /\ InFormat'
    BY <1>1, <1>2, <2>1 DEF BootInv, Types, Mounts, InFormat, Slots
  <2>3. Images'
    <3>1. PICK q : q = Formatting
      OBVIOUS
    <3>2. Whole(q)'
      BY <1>6, <2>1, <3>1 DEF Areas, Whole
    <3>3. ASSUME NEW p \in carriers
          PROVE  Whole(p)' \/ p \in cut'
      <4>1. Whole(p) \/ p \in cut \/ p = q
        BY <3>1, <3>3 DEF BootInv, Images
      <4>2. QED
        BY <1>1, <1>5, <3>2, <4>1
    <3>4. QED
      BY <1>1, <1>3, <1>4, <3>3 DEF Images
  <2>4. Passed'
    <3>1. PartAt(1, partIdx) \in carriers
      BY <1>2, <1>7 DEF Formatting
    <3>2. ASSUME NEW k \in 0 .. partIdx' - 1, InSlot(1, k) # {}
          PROVE  PartAt(1, k) \in carriers
      <4>1. k = partIdx \/ k \in 0 .. partIdx - 1
        BY <1>2, <2>1
      <4>2. QED
        BY <4>1, <3>1, <3>2, <1>1 DEF BootInv, Passed, Booting
    <3>3. QED
      BY <1>1, <1>7, <2>1, <3>2, SameSlots DEF Passed
  <2>5. QED
    BY <2>2, <2>3, <2>4 DEF BootInv
<1>10. QED
  BY <1>8, <1>9

(* FS_Init goes on with the next disk, or with the mount.                  *)
LEMMA FsDiskStep ==
  ASSUME BootInv, FsDisk
  PROVE  BootInv'
<1>1. /\ phase = "fs" /\ phase' \in {"fs", "mount"} /\ partIdx = Slots
      /\ UNCHANGED <<secCnt, image, cut, carriers, partIdx, area, mounted, partList>>
  BY DEF FsDisk, diskVars, fsVars, scanVars
<1>2. Types' /\ InFormat' /\ Mounts'
  BY <1>1 DEF BootInv, Types, InFormat, Mounts, Slots
<1>3. Images'
  BY <1>1 DEF BootInv, Images, Whole
<1>4. Passed'
  BY <1>1, SameSlots DEF BootInv, Passed, Booting, Slots
<1>5. QED
  BY <1>2, <1>3, <1>4 DEF BootInv

(* sdb1 is slot 0 of sdb, which FS_Init has passed.                        *)
LEMMA MountStep ==
  ASSUME BootInv, Mount
  PROVE  BootInv'
<1>1. /\ phase = "mount" /\ phase' = "up" /\ InSlot(1, 0) # {}
      /\ mounted' = PartAt(1, 0)
      /\ UNCHANGED <<secCnt, image, cut, carriers, partIdx>>
  BY DEF Mount, diskVars
<1>2. 0 \in 0 .. partIdx - 1
  BY <1>1, BootAssumption DEF BootInv, Mounts, Slots
<1>3. PartAt(1, 0) \in carriers
  BY <1>1, <1>2 DEF BootInv, Passed, Booting
<1>4. Types' /\ InFormat' /\ Passed' /\ Mounts'
  BY <1>1, <1>3 DEF BootInv, Types, InFormat, Passed, Mounts, Booting, Slots
<1>5. Images'
  BY <1>1 DEF BootInv, Images, Whole
<1>6. QED
  BY <1>4, <1>5 DEF BootInv

(* What a power failure leaves of a format is remembered in cut.           *)
LEMMA PowerFailStep ==
  ASSUME BootInv, PowerFail
  PROVE  BootInv'
<1>1. /\ phase' = "scan" /\ partIdx' = 0 /\ mounted' = NoPart
      /\ cut' = IF phase = "format" THEN cut \cup {Formatting} ELSE cut
      /\ UNCHANGED <<secCnt, image, carriers>>
  BY DEF PowerFail
<1>2. Types' /\ InFormat' /\ Passed' /\ Mounts'
  BY <1>1, BootAssumption DEF BootInv, Types, InFormat, Passed, Mounts, Booting, Slots
<1>3. Images'
  BY <1>1 DEF BootInv, Images, Whole
<1>4. QED
  BY <1>2, <1>3 DEF BootInv

(* BootInv is inductive, and only FormatBegin goes from the slots to a     *)
(* format.                                                                 *)
LEMMA NextInv ==
  ASSUME BootInv, [Next]_vars
  PROVE  BootInv' /\ (phase = "fs" /\ phase' = "format" => carriers' # carriers)
<1>1. CASE ScanEmpty \/ ScanExtended \/ ScanPrimary \/ ScanLogical \/ ScanReturn
  <2>1. /\ phase = "scan" /\ phase' \in {"scan", "halt"}
        /\ UNCHANGED <<diskVars, fsVars>>
    BY <1>1 DEF ScanEmpty, ScanExtended, ScanPrimary, ScanLogical, ScanReturn,
                Scanning, Halt
  <2>2. QED
    BY <2>1, QuietStep
<1>2. CASE ScanDisk
  <2>1. phase = "scan"
    BY <1>2 DEF ScanDisk
  <2>2. QED
    BY <1>2, <2>1, ScanDiskStep
<1>3. CASE FsSkip
  <2>1. phase' = phase
    BY <1>3 DEF FsSkip
  <2>2. QED
    BY <1>3, <2>1, FsSkipStep
<1>4. CASE FormatBegin
  BY <1>4, FormatBeginStep
<1>5. CASE FormatNoMemory
  <2>1. phase = "format"
    BY <1>5 DEF FormatNoMemory
  <2>2. QED
    BY <1>5, <2>1, FormatNoMemoryStep
<1>6. CASE FormatWrite
  <2>1. phase = "format"
    BY <1>6 DEF FormatWrite
  <2>2. QED
    BY <1>6, <2>1, FormatWriteStep
<1>7. CASE FsDisk
  <2>1. phase' \in {"fs", "mount"}
    BY <1>7 DEF FsDisk
  <2>2. QED
    BY <1>7, <2>1, FsDiskStep
<1>8. CASE Mount
  <2>1. phase = "mount"
    BY <1>8 DEF Mount
  <2>2. QED
    BY <1>8, <2>1, MountStep
<1>9. CASE MountNoMemory \/ MountNothing
  <2>1. phase = "mount" /\ phase' = "halt" /\ UNCHANGED <<diskVars, fsVars>>
    BY <1>9 DEF MountNoMemory, MountNothing, Halt
  <2>2. QED
    BY <2>1, QuietStep
<1>10. CASE PowerFail
  <2>1. phase' = "scan"
    BY <1>10 DEF PowerFail
  <2>2. QED
    BY <1>10, <2>1, PowerFailStep
<1>11. CASE UNCHANGED vars
  <2>1. UNCHANGED <<secCnt, image, cut, carriers, partIdx, area, mounted, partList, phase, hd>>
    BY <1>11 DEF vars, diskVars, scanVars, fsVars
  <2>2. Formatting' = Formatting
    BY <2>1, SameSlots DEF Formatting
  <2>3. Types' /\ InFormat' /\ Mounts'
    BY <2>1, <2>2 DEF BootInv, Types, InFormat, Mounts, Slots
  <2>4. Images'
    BY <2>1, <2>2 DEF BootInv, Images, Whole
  <2>5. Passed'
    BY <2>1, SameSlots DEF BootInv, Passed, Slots
  <2>6. QED
    BY <2>1, <2>3, <2>4, <2>5 DEF BootInv
<1>12. QED
  BY <1>1, <1>2, <1>3, <1>4, <1>5, <1>6, <1>7, <1>8, <1>9, <1>10, <1>11 DEF Next, Kernel

(* A bitmap that has a bit has a sector free to start from.                *)
LEMMA SizesFit ==
  ASSUME NEW n \in Sizes
  PROVE  n \in Nat /\ BlockBitmapBitLen(n) \in Nat /\ FreeSects(n) \in Nat
<1>1. n \in Nat /\ BlockBitmapBitLen(n) >= ByteBits
  BY BootAssumption DEF LargeEnough
<1>2. /\ SectorBits \in Nat \ {0} /\ ByteBits \in Nat \ {0}
      /\ InodeBitmapSects \in Nat /\ InodeTableSects \in Nat
  BY LayoutAssumption
<1>3. FreeSects(n) \in Int
  BY <1>1, <1>2 DEF FreeSects, UsedSects
<1>4. DivRoundUp(FreeSects(n), SectorBits) \in Int
  BY <1>2, <1>3 DEF DivRoundUp
<1>5. BlockBitmapBitLen(n) \in Nat
  BY <1>1, <1>2, <1>3, <1>4 DEF BlockBitmapBitLen
<1>6. FreeSects(n) >= 0
  <2>1. ASSUME FreeSects(n) < 0
        PROVE  FALSE
    <3> DEFINE f == FreeSects(n)
               q == DivRoundUp(f, SectorBits)
    <3>1. f - q >= 1
      BY <1>1, <1>2, <1>3, <1>4 DEF BlockBitmapBitLen
    <3>2. /\ f + SectorBits - 1 = SectorBits * q + ((f + SectorBits - 1) % SectorBits)
          /\ (f + SectorBits - 1) % SectorBits \in 0 .. SectorBits - 1
      <4>1. f + SectorBits - 1 \in Int
        BY <1>2, <1>3
      <4>2. QED
        BY <1>2, <4>1, DivModInt DEF DivRoundUp
    <3>3. SectorBits * q >= f
      BY <1>2, <1>3, <1>4, <3>2
    <3>4. q <= f - 1 /\ q <= -2
      BY <1>3, <1>4, <2>1, <3>1
    <3>5. SectorBits * q <= q
      BY <1>2, <1>4, <3>4
    <3>6. QED
      BY <1>2, <1>3, <1>4, <3>3, <3>4, <3>5
  <2>2. QED
    BY <1>3, <2>1
<1>7. QED
  BY <1>1, <1>3, <1>5, <1>6

-----------------------------------------------------------------------------
(* The invariant that the theorems rest on.                                *)
THEOREM BootInvariant == Spec => []BootInv
<1>1. Init => BootInv
  BY InitInv
<1>2. BootInv /\ [Next]_vars => BootInv'
  BY NextInv
<1>3. QED
  BY <1>1, <1>2, PTL DEF Spec

(* The root that FS_Mount mounts has all its areas on the disk, unless a   *)
(* format of it was cut short: for all partition tables, any number of     *)
(* disks and of power failures.                                            *)
THEOREM MountedWholeHolds == Spec => []MountedWhole
<1>1. BootInv => MountedWhole
  <2> SUFFICES ASSUME BootInv, mounted # NoPart, mounted \notin cut
               PROVE  {mounted} \X Areas \subseteq image
    BY DEF MountedWhole
  <2>1. Whole(mounted)
    BY DEF BootInv, Mounts, Images
  <2>2. QED
    BY <2>1 DEF Whole
<1>2. QED
  BY <1>1, BootInvariant, PTL

(* A partition that ever had a super block is not formatted again.         *)
THEOREM FormatOnceHolds == Spec => FormatOnce
<1>1. BootInv /\ [Next]_vars => [phase = "fs" /\ phase' = "format" => carriers' # carriers]_vars
  BY NextInv
<1>2. QED
  BY <1>1, BootInvariant, PTL DEF Spec, FormatOnce

(* No block that the block bitmap offers is the root's or more than one    *)
(* sector behind the partition: for every size that FS_PartitionFormat is  *)
(* made for.                                                               *)
THEOREM OfferedInsideHolds == Spec => []OfferedInside
<1>1. BootInv => OfferedInside
  <2> SUFFICES ASSUME BootInv, NEW b \in Offered
               PROVE  b # 0 /\ DataStartLBA(secCnt) + b <= secCnt
    BY DEF OfferedInside
  <2>1. secCnt \in Sizes
    BY DEF BootInv, Types
  <2>2. /\ secCnt \in Nat /\ BlockBitmapBitLen(secCnt) \in Nat
        /\ FreeSects(secCnt) \in Nat
    BY <2>1, SizesFit
  <2>3. b \in FreeBits(secCnt)
    BY DEF Offered
  <2>4. b \in Nat /\ b # 0 /\ b <= BlockBitmapBitLen(secCnt)
    BY <2>2, <2>3, FreeBitsBound
  <2>5. /\ DataStartLBA(secCnt) \in Nat
        /\ DataStartLBA(secCnt) + BlockBitmapBitLen(secCnt) <= secCnt
    BY <2>2, DataFits
  <2>6. QED
    BY <2>2, <2>4, <2>5
<1>2. QED
  BY <1>1, BootInvariant, PTL
-----------------------------------------------------------------------------
(* The scan of the partition tables.                                       *)

(* What Ide_PartitionScan meets on a disk.  Behind an extended partition   *)
(* of an earlier disk the base is not 0 at the MBR, and its link leads to  *)
(* a sector that holds no table.                                           *)
Behind(d) == \E c \in 1 .. d - 1 : Extended(c)

(* How many tables it meets, where they are and what they say.             *)
Depth(d) ==
  IF Behind(d) THEN IF Extended(d) THEN 2 ELSE 1 ELSE Len(tables[d])

Lba(d, t) == IF t > 1 /\ Behind(d) THEN ExtStart + ExtStart ELSE TableLBA(t)

At(d, t) ==
  IF t > 1 /\ Behind(d) THEN [i \in Entries |-> "none"] ELSE tables[d][t]

Part(d, t, j) == <<d, Lba(d, t), j>>

(* The frame of the call for table t, counted from the MBR.                *)
FrameType == [lba : Nat, i : 1 .. TableLen + 1]

Frame(t) == stack[Len(stack) + 1 - t]

(* The scan of table t has followed the table's link.                      *)
Followed(t) == \E j \in 1 .. Frame(t).i - 1 : At(hd, t)[j] = "ext"

(* The scan has come back to the table it is in, or out of the MBR.        *)
Returned == stack = <<>> \/ Followed(Len(stack))

(* The records of g_partitionList.                                         *)
Records == (Nat \X Nat \X Nat) \X {"prim", "logic"} \X Nat

Numbers(d) == {e \in Range(partList) : e[1][1] = d}
LogicListed == {p \in Listed(hd) : p[2] # 0}

(* What ScanExact says the list has of a disk.                             *)
Want(d) ==
  (Present(d) \ Logical(d)) \cup IF Behind(d) THEN {} ELSE Reached(d)

(* The list has no partition twice and no slot of a disk twice; whoever    *)
(* has a primary partition listed has one in slot 0.                       *)
OneSlot ==
  /\ partList \in Seq(Records)
  /\ IsInjective(partList)
  /\ \A e, f \in Range(partList) :
       e # f => e[1][1] # f[1][1] \/ SlotOf(e) # SlotOf(f)
  /\ \A e \in Range(partList) :
       /\ e[2] = "prim" <=> e[1][2] = 0
       /\ e[2] = "prim" => e[3] < TableLen
       /\ e[2] = "prim" => InSlot(e[1][1], 0) # {}

(* The tables being scanned follow each other from the MBR.                *)
Frames ==
  /\ stack \in Seq(FrameType)
  /\ Len(stack) <= Depth(hd)
  /\ \A t \in 1 .. Len(stack) : Frame(t).lba = Lba(hd, t)
  /\ \A t \in 1 .. Len(stack) - 1 :
       Frame(t).i > 1 /\ At(hd, t)[Frame(t).i - 1] = "ext"

(* Of these tables the entries passed are listed, and no others; before    *)
(* the link of the last of them is followed nothing behind it is.          *)
Listing ==
  /\ \A p \in Listed(hd) :
       \E t \in 1 .. Depth(hd), j \in Entries : p = Part(hd, t, j) /\ At(hd, t)[j] = "part"
  /\ \A t \in 1 .. Len(stack), j \in Entries :
       At(hd, t)[j] = "part" => (Part(hd, t, j) \in Listed(hd) <=> j < Frame(t).i)
  /\ ~Returned =>
       \A t \in Len(stack) + 1 .. Depth(hd), j \in Entries : Part(hd, t, j) \notin Listed(hd)

(* What the scan has come back from without listing it is behind all that  *)
(* is listed, and the numbers are used up.                                 *)
Missing ==
  Returned =>
    \A t \in Len(stack) + 1 .. Depth(hd), j \in Entries :
      At(hd, t)[j] = "part" /\ Part(hd, t, j) \notin Listed(hd) =>
        t > 1 /\ logicNo = MaxLogic /\ \A p \in Listed(hd) : p[2] <= Lba(hd, t)

(* The numbers count the list; the last logical one ends the descent.      *)
Counted ==
  /\ IsFiniteSet(LogicListed) /\ logicNo = Cardinality(LogicListed)
  /\ logicNo <= MaxLogic
  /\ logicNo = MaxLogic => Returned
  /\ primNo \in 0 .. TableLen - 1
  /\ stack # <<>> =>
       /\ primNo < Frame(1).i
       /\ primNo = Frame(1).i - 1 => \A j \in 1 .. primNo : tables[hd][1][j] = "part"
  /\ \A e \in Numbers(hd) : e[3] < IF e[2] = "prim" THEN primNo ELSE logicNo
  /\ primNo > 0 => InSlot(hd, 0) # {}

(* The base is set by the first extended partition of any disk so far.     *)
Based ==
  base = IF \/ Behind(hd)
            \/ IF stack = <<>> THEN Extended(hd) ELSE Followed(1)
         THEN ExtStart ELSE 0

Scanned == Frames /\ Listing /\ Missing /\ Counted /\ Based

(* The disks keep the tables they came with.                               *)
Came == (\A d \in Disks : tables[d] \in Layouts[d]) /\ hd \in Disks

(* The disks scanned are listed as they should be, those to come not at    *)
(* all.                                                                    *)
ScanInv ==
  /\ Came
  /\ phase \in {"scan", "fs", "format", "mount", "up", "halt"}
  /\ phase # "halt" => why = "none"
  /\ HaltExplained
  /\ phase # "halt" => OneSlot
  /\ phase = "scan" =>
       /\ \A d \in Disks : d < hd => Listed(d) = Want(d)
       /\ \A d \in Disks : d > hd => Listed(d) = {}
       /\ Scanned
  /\ phase \in {"fs", "format", "mount", "up"} => \A d \in Disks : Listed(d) = Want(d)

-----------------------------------------------------------------------------
(* The tables that a disk comes with.                                      *)
LEMMA DiskTables ==
  ASSUME NEW d \in Disks, tables[d] \in Layouts[d]
  PROVE  /\ tables[d] \in Seq(Tables) /\ Len(tables[d]) \in Nat \ {0}
         /\ Len(tables[d]) < ExtStart
         /\ DOMAIN tables[d] = 1 .. Len(tables[d])
         /\ \A t \in 1 .. Len(tables[d]) : tables[d][t] \in Tables
         /\ \A t \in 1 .. Len(tables[d]), i, j \in Entries :
              tables[d][t][i] = "ext" /\ tables[d][t][j] = "ext" => i = j
         /\ \A t \in 1 .. Len(tables[d]) :
              (\E i \in Entries : tables[d][t][i] = "ext") <=> t < Len(tables[d])
         /\ \A t \in 2 .. Len(tables[d]), i, j \in Entries :
              tables[d][t][i] = "part" /\ tables[d][t][j] = "part" => i = j
<1> DEFINE links(t) == {i \in Entries : tables[d][t][i] = "ext"}
<1>1. /\ tables[d] \in Seq(Tables) \ {<<>>} /\ Len(tables[d]) < ExtStart
      /\ \A t \in DOMAIN tables[d] :
           Cardinality(links(t)) = IF t < Len(tables[d]) THEN 1 ELSE 0
  BY BootAssumption
<1>2. Len(tables[d]) \in Nat \ {0} /\ DOMAIN tables[d] = 1 .. Len(tables[d])
  BY <1>1
<1>3. \A t \in 1 .. Len(tables[d]) : tables[d][t] \in Tables
  BY <1>1, <1>2
<1>4. IsFiniteSet(Entries)
  BY BootAssumption, FS_Interval DEF Entries
<1>5. \A t : IsFiniteSet(links(t))
  BY <1>4, FS_Subset
<1> HIDE DEF links
<1>6. ASSUME NEW t \in 1 .. Len(tables[d]), t < Len(tables[d])
      PROVE  \E x : links(t) = {x}
  <2>1. Cardinality(links(t)) = 1 /\ IsFiniteSet(links(t))
    BY <1>1, <1>2, <1>5, <1>6
  <2>2. QED
    BY <2>1, FS_Singleton
<1>7. ASSUME NEW t \in 1 .. Len(tables[d]), ~(t < Len(tables[d]))
      PROVE  links(t) = {}
  <2>1. Cardinality(links(t)) = 0 /\ IsFiniteSet(links(t))
    BY <1>1, <1>2, <1>5, <1>7
  <2>2. QED
    BY <2>1, FS_EmptySet
<1>8. \A t \in 1 .. Len(tables[d]), i, j \in Entries :
        tables[d][t][i] = "ext" /\ tables[d][t][j] = "ext" => i = j
  <2> SUFFICES ASSUME NEW t \in 1 .. Len(tables[d]), NEW i \in links(t), NEW j \in links(t)
               PROVE  i = j
    BY DEF links
  <2>1. QED
    BY <1>6, <1>7
<1>9. \A t \in 1 .. Len(tables[d]) :
        (\E i \in Entries : tables[d][t][i] = "ext") <=> t < Len(tables[d])
  <2> SUFFICES ASSUME NEW t \in 1 .. Len(tables[d])
               PROVE  links(t) # {} <=> t < Len(tables[d])
    BY DEF links
  <2>1. QED
    BY <1>6, <1>7
<1>10. \A t \in 2 .. Len(tables[d]), i, j \in Entries :
         tables[d][t][i] = "part" /\ tables[d][t][j] = "part" => i = j
  <2>1. \A t \in 2 .. Len(tables[d]) : t \in DOMAIN tables[d] \ {1}
    BY <1>2
  <2>2. QED
    BY <2>1, ChainAssumption
<1>11. QED
  BY <1>1, <1>2, <1>3, <1>8, <1>9, <1>10

(* The tables that the scan meets: each where the link of the one before   *)
(* leads to, behind it on the disk.                                        *)
LEMMA Met ==
  ASSUME NEW d \in Disks, tables[d] \in Layouts[d]
  PROVE  /\ Depth(d) \in Nat \ {0}
         /\ \A t \in 1 .. Depth(d) :
              /\ At(d, t) \in Tables /\ Lba(d, t) \in Nat /\ (Lba(d, t) = 0 <=> t = 1)
              /\ TableAt(d, Lba(d, t)) = At(d, t)
         /\ At(d, 1) = tables[d][1]
         /\ \A t, u \in 1 .. Depth(d) : t < u => Lba(d, t) < Lba(d, u)
         /\ \A t \in 1 .. Depth(d), i, j \in Entries :
              At(d, t)[i] = "ext" /\ At(d, t)[j] = "ext" => i = j
         /\ \A t \in 1 .. Depth(d) :
              (\E i \in Entries : At(d, t)[i] = "ext") <=> t < Depth(d)
         /\ \A t \in 2 .. Depth(d), i, j \in Entries :
              At(d, t)[i] = "part" /\ At(d, t)[j] = "part" => i = j
         /\ Extended(d) <=> Depth(d) > 1
<1> DEFINE len == Len(tables[d])
<1>1. /\ len \in Nat \ {0} /\ len < ExtStart /\ DOMAIN tables[d] = 1 .. len
      /\ \A t \in 1 .. len : tables[d][t] \in Tables
  BY DiskTables
<1>2. /\ \A t \in 1 .. len, i, j \in Entries :
           tables[d][t][i] = "ext" /\ tables[d][t][j] = "ext" => i = j
      /\ \A t \in 1 .. len : (\E i \in Entries : tables[d][t][i] = "ext") <=> t < len
      /\ \A t \in 2 .. len, i, j \in Entries :
           tables[d][t][i] = "part" /\ tables[d][t][j] = "part" => i = j
  BY DiskTables
<1>3. ExtStart \in Nat \ {0}
  BY BootAssumption
<1>4. \A t \in 1 .. len : TableLBA(t) \in Nat /\ (TableLBA(t) = 0 <=> t = 1)
  BY <1>1, <1>3 DEF TableLBA
<1>5. \A t, u \in 1 .. len : t < u => TableLBA(t) < TableLBA(u)
  BY <1>1, <1>3 DEF TableLBA
<1>6. \A t, u \in 1 .. len : TableLBA(t) = TableLBA(u) => t = u
  BY <1>1, <1>3 DEF TableLBA
<1>7. ASSUME NEW t \in 1 .. len
      PROVE  TableAt(d, TableLBA(t)) = tables[d][t]
  <2>1. t \in DOMAIN tables[d]
    BY <1>1
  <2>2. \A u \in DOMAIN tables[d] : TableLBA(u) = TableLBA(t) => u = t
    BY <1>1, <1>6
  <2>3. (CHOOSE u \in DOMAIN tables[d] : TableLBA(u) = TableLBA(t)) = t
    BY <2>1, <2>2
  <2>4. QED
    BY <2>1, <2>3 DEF TableAt
<1>8. CASE ~Behind(d)
  <2>1. Depth(d) = len /\ \A t : Lba(d, t) = TableLBA(t) /\ At(d, t) = tables[d][t]
    BY <1>8 DEF Depth, Lba, At
  <2>2. Extended(d) <=> len > 1
    BY DEF Extended
  <2> HIDE DEF len
  <2>3. QED
    BY <1>1, <1>2, <1>4, <1>5, <1>7, <2>1, <2>2
<1>9. CASE Behind(d)
  <2> DEFINE blank == [i \in Entries |-> "none"]
  <2>1. /\ Lba(d, 1) = TableLBA(1) /\ Lba(d, 2) = ExtStart + ExtStart
        /\ At(d, 1) = tables[d][1] /\ At(d, 2) = blank
    BY <1>9 DEF Lba, At
  <2>2. blank \in Tables /\ \A i \in Entries : blank[i] = "none"
    BY DEF Tables, EntryType
  <2>3. TableAt(d, ExtStart + ExtStart) = blank
    <3>1. \A t \in 1 .. len : TableLBA(t) # ExtStart + ExtStart
      BY <1>1, <1>3 DEF TableLBA
    <3>2. QED
      BY <1>1, <3>1 DEF TableAt
  <2>4. TableLBA(1) = 0
    BY DEF TableLBA
  <2>5. Extended(d) <=> len > 1
    BY DEF Extended
  <2>6. Depth(d) = IF len > 1 THEN 2 ELSE 1
    BY <1>9, <2>5 DEF Depth
  <2>7. 1 \in 1 .. len
    BY <1>1
  <2>8. TableAt(d, 0) = tables[d][1] /\ tables[d][1] \in Tables
    BY <1>1, <1>7, <2>4, <2>7
  <2>9. /\ \A i, j \in Entries : tables[d][1][i] = "ext" /\ tables[d][1][j] = "ext" => i = j
        /\ (\E i \in Entries : tables[d][1][i] = "ext") <=> 1 < len
    BY <1>2, <2>7
  <2> HIDE DEF blank, len
  <2>10. \A t \in 1 .. Depth(d) : t = 1 \/ (t = 2 /\ Depth(d) = 2)
    BY <2>6
  <2>11. Depth(d) \in Nat \ {0} /\ (Extended(d) <=> Depth(d) > 1)
    BY <2>5, <2>6, <1>1
  <2>12. ASSUME NEW t \in 1 .. Depth(d)
         PROVE  /\ At(d, t) \in Tables /\ Lba(d, t) \in Nat /\ (Lba(d, t) = 0 <=> t = 1)
                /\ TableAt(d, Lba(d, t)) = At(d, t)
    BY <1>3, <2>1, <2>2, <2>3, <2>4, <2>8, <2>10
  <2>13. \A t, u \in 1 .. Depth(d) : t < u => Lba(d, t) < Lba(d, u)
    BY <1>3, <2>1, <2>4, <2>10
  <2>14. \A t \in 1 .. Depth(d), i, j \in Entries :
           At(d, t)[i] = "ext" /\ At(d, t)[j] = "ext" => i = j
    BY <2>1, <2>2, <2>9, <2>10
  <2>15. \A t \in 1 .. Depth(d) :
           (\E i \in Entries : At(d, t)[i] = "ext") <=> t < Depth(d)
    <3>1. (\E i \in Entries : At(d, 1)[i] = "ext") <=> 1 < Depth(d)
      BY <1>1, <2>1, <2>6, <2>9
    <3>2. ~\E i \in Entries : At(d, 2)[i] = "ext"
      BY <2>1, <2>2
    <3>3. QED
      BY <2>10, <2>11, <3>1, <3>2
  <2>16. \A t \in 2 .. Depth(d), i \in Entries : At(d, t)[i] = "none"
    BY <2>1, <2>2, <2>10
  <2>17. QED
    BY <2>1, <2>11, <2>12, <2>13, <2>14, <2>15, <2>16
<1>10. QED
  BY <1>8, <1>9

-----------------------------------------------------------------------------
(* The calls of Ide_PartitionScan: the frame of table t, numbered from the *)
(* MBR, when the scan passes an entry, follows a link or returns.          *)
LEMMA TopFrame ==
  ASSUME stack \in Seq(FrameType), stack # <<>>
  PROVE  /\ Len(stack) \in Nat \ {0} /\ Top = Frame(Len(stack)) /\ Top \in FrameType
         /\ Top = stack[1] /\ Tail(stack) \in Seq(FrameType)
  BY DEF Top, Frame

(* Every frame has a sector and an entry, or the end of the table.         *)
LEMMA FramesTyped ==
  ASSUME stack \in Seq(FrameType)
  PROVE  \A t \in 1 .. Len(stack) : Frame(t) \in FrameType
<1> SUFFICES ASSUME NEW t \in 1 .. Len(stack)
             PROVE  Frame(t) \in FrameType
  OBVIOUS
<1>1. Len(stack) \in Nat /\ Len(stack) + 1 - t \in 1 .. Len(stack)
  OBVIOUS
<1>2. stack[Len(stack) + 1 - t] \in FrameType
  BY <1>1
<1>3. QED
  BY <1>2 DEF Frame

(* A frame stays one when its entry is passed.                             *)
LEMMA FrameAdvanced ==
  ASSUME NEW f \in FrameType, f.i <= TableLen
  PROVE  [f EXCEPT !.i = f.i + 1] \in FrameType
<1>1. TableLen \in Nat
  BY BootAssumption
<1>2. f.i + 1 \in 1 .. TableLen + 1
  BY <1>1 DEF FrameType
<1>3. QED
  BY <1>2 DEF FrameType

(* The frame of a new call.                                                *)
LEMMA FrameNew == \A lba \in Nat : [lba |-> lba, i |-> 1] \in FrameType
<1>1. 1 \in 1 .. TableLen + 1
  BY BootAssumption
<1>2. QED
  BY <1>1 DEF FrameType

(* An entry is passed: only the last frame changes.                        *)
LEMMA StackAdvanced ==
  ASSUME NEW n, n = Len(stack), stack \in Seq(FrameType), stack # <<>>, Top.i <= TableLen, stack' = Advanced
  PROVE  /\ stack' \in Seq(FrameType) /\ Len(stack') = Len(stack)
         /\ \A t \in 1 .. n - 1 : Frame(t)' = Frame(t)
         /\ Frame(n)' = [Top EXCEPT !.i = Top.i + 1]
<1>1. /\ Len(stack) \in Nat \ {0} /\ Top \in FrameType
      /\ Tail(stack) \in Seq(FrameType) /\ Len(Tail(stack)) = Len(stack) - 1
  BY TopFrame
<1> DEFINE adv == [Top EXCEPT !.i = Top.i + 1]
<1>2. adv \in FrameType
  BY <1>1, FrameAdvanced
<1> HIDE DEF adv
<1>3. stack' = <<adv>> \o Tail(stack)
  BY DEF Advanced, adv
<1>4. /\ stack' \in Seq(FrameType) /\ Len(stack') = Len(stack) /\ stack'[1] = adv
      /\ \A k \in 2 .. Len(stack) : stack'[k] = stack[k]
  BY <1>1, <1>2, <1>3
<1>5. ASSUME NEW t \in 1 .. n - 1
      PROVE  Frame(t)' = Frame(t)
  <2>1. Len(stack) + 1 - t \in 2 .. Len(stack)
    BY <1>1
  <2>2. QED
    BY <1>4, <2>1 DEF Frame
<1>6. Frame(n)' = adv
  <2>1. Len(stack') + 1 - n = 1
    BY <1>1, <1>4
  <2>2. QED
    BY <1>4, <2>1 DEF Frame
<1>7. QED
  BY <1>4, <1>5, <1>6 DEF adv

(* A call returns: the frames below it stay.                               *)
LEMMA StackPopped ==
  ASSUME NEW n, n = Len(stack), stack \in Seq(FrameType), stack # <<>>, stack' = Tail(stack)
  PROVE  /\ stack' \in Seq(FrameType) /\ Len(stack') = Len(stack) - 1
         /\ \A t \in 1 .. n - 1 : Frame(t)' = Frame(t)
<1>1. /\ Len(stack) \in Nat \ {0} /\ Tail(stack) \in Seq(FrameType)
      /\ Len(Tail(stack)) = Len(stack) - 1
      /\ \A k \in 1 .. Len(stack) - 1 : Tail(stack)[k] = stack[k + 1]
  BY TopFrame
<1>2. ASSUME NEW t \in 1 .. n - 1
      PROVE  Frame(t)' = Frame(t)
  <2>1. Len(stack) - t \in 1 .. Len(stack) - 1
    BY <1>1
  <2>2. Tail(stack)[Len(stack) - t] = stack[Len(stack) - t + 1]
    BY <1>1, <2>1
  <2>3. Len(stack') + 1 - t = Len(stack) - t /\ Len(stack) - t + 1 = Len(stack) + 1 - t
    BY <1>1
  <2>4. QED
    BY <2>2, <2>3 DEF Frame
<1>3. QED
  BY <1>1, <1>2

(* A call: the entry of the link is passed and a frame is added.           *)
LEMMA StackCalled ==
  ASSUME NEW n, n = Len(stack), stack \in Seq(FrameType), stack # <<>>, Top.i <= TableLen, NEW lba \in Nat, Call(lba)
  PROVE  /\ stack' \in Seq(FrameType) /\ Len(stack') = Len(stack) + 1
         /\ \A t \in 1 .. n - 1 : Frame(t)' = Frame(t)
         /\ Frame(n)' = [Top EXCEPT !.i = Top.i + 1]
         /\ Frame(n + 1)' = [lba |-> lba, i |-> 1]
<1>1. /\ Len(stack) \in Nat \ {0} /\ Top \in FrameType
      /\ Tail(stack) \in Seq(FrameType) /\ Len(Tail(stack)) = Len(stack) - 1
  BY TopFrame
<1> DEFINE adv == [Top EXCEPT !.i = Top.i + 1]
           new == [lba |-> lba, i |-> 1]
<1>2. adv \in FrameType /\ new \in FrameType
  BY <1>1, FrameAdvanced, FrameNew
<1> HIDE DEF adv, new
<1>3. stack' = <<new>> \o (<<adv>> \o Tail(stack))
  BY DEF Call, Advanced, adv, new
<1>4. /\ stack' \in Seq(FrameType) /\ Len(stack') = Len(stack) + 1
      /\ stack'[1] = new /\ stack'[2] = adv
      /\ \A k \in 2 .. Len(stack) : stack'[k + 1] = stack[k]
  <2> DEFINE rest == <<adv>> \o Tail(stack)
  <2>1. /\ rest \in Seq(FrameType) /\ Len(rest) = Len(stack) /\ rest[1] = adv
        /\ \A k \in 2 .. Len(stack) : rest[k] = stack[k]
    BY <1>1, <1>2
  <2> HIDE DEF rest
  <2>2. stack' = <<new>> \o rest
    BY <1>3 DEF rest
  <2>3. /\ stack' \in Seq(FrameType) /\ Len(stack') = Len(rest) + 1 /\ stack'[1] = new
        /\ \A k \in 1 .. Len(rest) : stack'[k + 1] = rest[k]
    BY <1>2, <2>1, <2>2
  <2>4. stack'[2] = rest[1]
    BY <1>1, <2>1, <2>3
  <2>5. QED
    BY <1>1, <2>1, <2>3, <2>4
<1>5. ASSUME NEW t \in 1 .. n - 1
      PROVE  Frame(t)' = Frame(t)
  <2>1. Len(stack) + 1 - t \in 2 .. Len(stack)
    BY <1>1
  <2>2. Len(stack') + 1 - t = (Len(stack) + 1 - t) + 1
    BY <1>1, <1>4
  <2>3. QED
    BY <1>4, <2>1, <2>2 DEF Frame
<1>6. Frame(n)' = adv
  <2>1. Len(stack') + 1 - n = 2
    BY <1>1, <1>4
  <2>2. QED
    BY <1>4, <2>1 DEF Frame
<1>7. Frame(n + 1)' = new
  <2>1. Len(stack') + 1 - (n + 1) = 1
    BY <1>1, <1>4
  <2>2. QED
    BY <1>4, <2>1 DEF Frame
<1>8. QED
  BY <1>4, <1>5, <1>6, <1>7 DEF adv, new

-----------------------------------------------------------------------------
(* What stays while the disks and the list do.                             *)
LEMMA SameDisks ==
  ASSUME tables' = tables
  PROVE  \A d : /\ Behind(d)' = Behind(d) /\ Depth(d)' = Depth(d)
                /\ Extended(d)' = Extended(d) /\ Want(d)' = Want(d)
                /\ \A t : Lba(d, t)' = Lba(d, t) /\ At(d, t)' = At(d, t)
                /\ \A t, j : Part(d, t, j)' = Part(d, t, j)
<1> SUFFICES ASSUME NEW d
             PROVE  /\ Behind(d)' = Behind(d) /\ Depth(d)' = Depth(d)
                    /\ Extended(d)' = Extended(d) /\ Want(d)' = Want(d)
                    /\ \A t : Lba(d, t)' = Lba(d, t) /\ At(d, t)' = At(d, t)
                    /\ \A t, j : Part(d, t, j)' = Part(d, t, j)
  OBVIOUS
<1>1. \A c : Extended(c)' = Extended(c)
  BY DEF Extended
<1>2. Behind(d)' = Behind(d)
  BY <1>1 DEF Behind
<1>3. \A t : Lba(d, t)' = Lba(d, t) /\ At(d, t)' = At(d, t)
  BY <1>2 DEF Lba, At, TableLBA
<1>4. Want(d)' = Want(d)
  BY <1>2 DEF Want, Present, PartsIn, Logical, Reached, TableLBA
<1>5. QED
  BY <1>1, <1>2, <1>3, <1>4 DEF Depth, Part

(* The partitions of the disks stay while their tables do.                 *)
LEMMA SameParts ==
  ASSUME tables' = tables
  PROVE  \A d : /\ Present(d)' = Present(d) /\ Logical(d)' = Logical(d)
                /\ LinkFirst(d)' = LinkFirst(d)
<1> SUFFICES ASSUME NEW d
             PROVE  /\ Present(d)' = Present(d) /\ Logical(d)' = Logical(d)
                    /\ LinkFirst(d)' = LinkFirst(d)
  OBVIOUS
<1>1. Present(d)' = Present(d)
  BY DEF Present, PartsIn, TableLBA
<1>2. LinkFirst(d)' = LinkFirst(d)
  BY DEF LinkFirst
<1>3. QED
  BY <1>1, <1>2 DEF Logical

(* What the list says stays while the list does.                           *)
LEMMA SameList ==
  ASSUME partList' = partList
  PROVE  \A d : /\ Listed(d)' = Listed(d) /\ Numbers(d)' = Numbers(d)
                /\ \A k : InSlot(d, k)' = InSlot(d, k)
  BY DEF Listed, Numbers, InSlot, SlotOf

(* One more partition in the list.                                         *)
LEMMA ListAppended ==
  ASSUME partList \in Seq(Records), NEW e \in Records, partList' = Append(partList, e)
  PROVE  /\ partList' \in Seq(Records)
         /\ Range(partList') = Range(partList) \cup {e}
         /\ \A d : /\ Listed(d)' = Listed(d) \cup {p \in {e[1]} : p[1] = d}
                   /\ Numbers(d)' = Numbers(d) \cup {f \in {e} : f[1][1] = d}
                   /\ \A k : InSlot(d, k) \subseteq InSlot(d, k)'
                   /\ d = e[1][1] => e[1] \in InSlot(d, SlotOf(e))'
<1>1. /\ Len(partList') = Len(partList) + 1 /\ partList' \in Seq(Records)
      /\ \A k \in 1 .. Len(partList) : partList'[k] = partList[k]
      /\ partList'[Len(partList) + 1] = e
      /\ DOMAIN partList = 1 .. Len(partList) /\ DOMAIN partList' = 1 .. Len(partList')
      /\ Len(partList) \in Nat
  OBVIOUS
<1>2. Range(partList') = Range(partList) \cup {e}
  BY <1>1 DEF Range
<1>3. \A d : Listed(d)' = Listed(d) \cup {p \in {e[1]} : p[1] = d}
  BY <1>2 DEF Listed
<1>4. \A d : Numbers(d)' = Numbers(d) \cup {f \in {e} : f[1][1] = d}
  BY <1>2 DEF Numbers
<1>5. \A d, k : InSlot(d, k) \subseteq InSlot(d, k)'
  BY <1>2 DEF InSlot, SlotOf
<1>6. \A d : d = e[1][1] => e[1] \in InSlot(d, SlotOf(e))'
  BY <1>2 DEF InSlot, SlotOf
<1>7. QED
  BY <1>1, <1>2, <1>3, <1>4, <1>5, <1>6

(* The list stays sound if the new partition is new to it and its slot     *)
(* is free.                                                                *)
LEMMA SlotAdded ==
  ASSUME OneSlot, NEW e \in Records, partList' = Append(partList, e),
         e[1] \notin Listed(e[1][1]),
         \A f \in Numbers(e[1][1]) : SlotOf(f) # SlotOf(e),
         e[2] = "prim" <=> e[1][2] = 0, e[2] = "prim" => e[3] < TableLen,
         NEW d, d = e[1][1], e[2] = "prim" => e[3] = 0 \/ InSlot(d, 0) # {}
  PROVE  OneSlot'
<1>1. partList \in Seq(Records)
  BY DEF OneSlot
<1>2. /\ partList' \in Seq(Records) /\ Range(partList') = Range(partList) \cup {e}
      /\ \A c, k : InSlot(c, k) \subseteq InSlot(c, k)'
      /\ e[1] \in InSlot(d, SlotOf(e))'
  BY <1>1, ListAppended
<1>3. e \notin Range(partList)
  BY DEF Listed
<1>4. IsInjective(partList')
  <2>1. /\ Len(partList') = Len(partList) + 1
        /\ \A k \in 1 .. Len(partList) : partList'[k] = partList[k]
        /\ partList'[Len(partList) + 1] = e
        /\ DOMAIN partList = 1 .. Len(partList) /\ DOMAIN partList' = 1 .. Len(partList')
        /\ Len(partList) \in Nat
    BY <1>1
  <2>2. \A a, b \in 1 .. Len(partList) : partList[a] = partList[b] => a = b
    BY <2>1 DEF OneSlot, IsInjective
  <2>3. \A a \in 1 .. Len(partList) : partList[a] # e
    BY <2>1, <1>3 DEF Range
  <2>4. ASSUME NEW a \in 1 .. Len(partList) + 1, NEW b \in 1 .. Len(partList) + 1,
               partList'[a] = partList'[b]
        PROVE  a = b
    <3>1. a \in 1 .. Len(partList) \/ a = Len(partList) + 1
      BY <2>1
    <3>2. b \in 1 .. Len(partList) \/ b = Len(partList) + 1
      BY <2>1
    <3>3. QED
      BY <2>1, <2>2, <2>3, <2>4, <3>1, <3>2
  <2>5. QED
    BY <2>1, <2>4 DEF IsInjective
<1>5. \A f \in Range(partList) : f[1][1] # e[1][1] \/ SlotOf(f) # SlotOf(e)
  BY DEF Numbers
<1>6. \A f, g \in Range(partList)' :
        f # g => f[1][1] # g[1][1] \/ SlotOf(f)' # SlotOf(g)'
  <2>1. \A f : SlotOf(f)' = SlotOf(f)
    BY DEF SlotOf
  <2>2. QED
    BY <1>2, <1>5, <2>1 DEF OneSlot
<1>7. e[2] = "prim" => InSlot(d, 0)' # {}
  <2>1. e[2] = "prim" /\ e[3] = 0 => SlotOf(e) = 0
    BY DEF SlotOf
  <2>2. QED
    BY <1>2, <2>1
<1>8. \A f \in Range(partList)' :
        /\ f[2] = "prim" <=> f[1][2] = 0
        /\ f[2] = "prim" => f[3] < TableLen
        /\ f[2] = "prim" => InSlot(f[1][1], 0)' # {}
  <2>1. ASSUME NEW f \in Range(partList)
        PROVE  f[2] = "prim" => InSlot(f[1][1], 0)' # {}
    BY <1>2 DEF OneSlot
  <2>2. QED
    BY <1>2, <1>7, <2>1 DEF OneSlot
<1>9. QED
  BY <1>2, <1>4, <1>6, <1>8 DEF OneSlot

-----------------------------------------------------------------------------
(* The entry at which the scan is.                                         *)
LEMMA AtTop ==
  ASSUME Came, Frames, stack # <<>>, NEW d, d = hd, NEW n, n = Len(stack)
  PROVE  /\ d \in Disks /\ tables[d] \in Layouts[d]
         /\ n \in 1 .. Depth(d) /\ Depth(d) \in Nat \ {0} /\ n \in Nat \ {0}
         /\ Top = Frame(n) /\ Top \in FrameType /\ stack \in Seq(FrameType)
         /\ Top.lba = Lba(d, n) /\ TableLen \in Nat /\ Top.i \in 1 .. TableLen + 1
         /\ Entry = At(d, n)[Top.i] /\ Here = Part(d, n, Top.i)
         /\ Top.i <= TableLen => Top.i \in Entries
         /\ \A t \in 1 .. n : Frame(t) \in FrameType /\ Frame(t).i \in 1 .. TableLen + 1
         /\ Entries = 1 .. TableLen
<1>1. d \in Disks /\ tables[d] \in Layouts[d]
  BY DEF Came
<1>2. /\ Depth(d) \in Nat \ {0}
      /\ \A t \in 1 .. Depth(d) : TableAt(d, Lba(d, t)) = At(d, t)
  BY <1>1, Met
<1>3. stack \in Seq(FrameType) /\ n <= Depth(d) /\ \A t \in 1 .. n : Frame(t).lba = Lba(d, t)
  BY DEF Frames
<1>4. n \in Nat \ {0} /\ Top = Frame(n) /\ Top \in FrameType
  BY <1>3, TopFrame
<1>5. Top.lba = Lba(d, n)
  BY <1>3, <1>4
<1>6. TableLen \in Nat /\ Top.i \in 1 .. TableLen + 1 /\ (Top.i <= TableLen => Top.i \in Entries)
  BY <1>4, BootAssumption DEF FrameType, Entries
<1>7. \A t \in 1 .. n : Frame(t) \in FrameType /\ Frame(t).i \in 1 .. TableLen + 1
  BY <1>3, FramesTyped DEF FrameType
<1>8. Entry = At(d, n)[Top.i]
  BY <1>2, <1>3, <1>4, <1>5 DEF Entry
<1>9. Here = Part(d, n, Top.i)
  BY <1>5 DEF Here, Part
<1>10. QED
  BY <1>1, <1>2, <1>3, <1>4, <1>5, <1>6, <1>7, <1>8, <1>9 DEF Entries

(* An entry passed leaves the frames in place.                             *)
LEMMA FramesAdvanced ==
  ASSUME Came, Frames, stack # <<>>, Top.i <= TableLen, stack' = Advanced,
         tables' = tables, hd' = hd,
         NEW d, d = hd, NEW n, n = Len(stack)
  PROVE  /\ Frames' /\ stack' # <<>> /\ n = Len(stack') /\ d = hd'
         /\ \A t \in 1 .. n - 1 : Frame(t)' = Frame(t)
         /\ Frame(n)'.i = Frame(n).i + 1
         /\ \A t \in 1 .. n : Frame(t)'.i >= Frame(t).i
<1>1. /\ n \in 1 .. Depth(d) /\ n \in Nat \ {0} /\ Top = Frame(n) /\ Top \in FrameType
      /\ stack \in Seq(FrameType) /\ Top.i \in 1 .. TableLen + 1 /\ TableLen \in Nat
      /\ \A t \in 1 .. n : Frame(t) \in FrameType /\ Frame(t).i \in 1 .. TableLen + 1
  BY AtTop
<1>2. /\ stack' \in Seq(FrameType) /\ Len(stack') = n
      /\ \A t \in 1 .. n - 1 : Frame(t)' = Frame(t)
      /\ Frame(n)' = [Top EXCEPT !.i = Top.i + 1]
  BY <1>1, StackAdvanced
<1>3. Frame(n)'.i = Frame(n).i + 1 /\ Frame(n)'.lba = Frame(n).lba
  BY <1>1, <1>2 DEF FrameType
<1>4. \A t \in 1 .. n : t = n \/ t \in 1 .. n - 1
  BY <1>1
<1>5. /\ \A t : Lba(d, t)' = Lba(d, t) /\ At(d, t)' = At(d, t)
      /\ Depth(d)' = Depth(d)
  BY SameDisks
<1>6. \A t \in 1 .. n : Frame(t)'.lba = Lba(d, t)'
  BY <1>2, <1>3, <1>4, <1>5 DEF Frames
<1>7. \A t \in 1 .. n - 1 : Frame(t)'.i > 1 /\ At(d, t)'[Frame(t)'.i - 1] = "ext"
  BY <1>2, <1>5 DEF Frames
<1>8. Frames'
  BY <1>1, <1>2, <1>5, <1>6, <1>7 DEF Frames
<1>9. stack' # <<>>
  BY <1>1, <1>2
<1>10. \A t \in 1 .. n : Frame(t)'.i >= Frame(t).i
  <2>1. \A t \in 1 .. n : Frame(t).i \in Int
    BY <1>1
  <2>2. \A t \in 1 .. n : Frame(t)'.i = Frame(t).i \/ Frame(t)'.i = Frame(t).i + 1
    BY <1>2, <1>3, <1>4
  <2>3. QED
    BY <2>1, <2>2
<1>11. QED
  BY <1>2, <1>3, <1>8, <1>9, <1>10

(* The link of the last table is followed when its entry is passed.        *)
LEMMA FollowedAdvanced ==
  ASSUME Came, Frames, stack # <<>>, Top.i <= TableLen, stack' = Advanced,
         tables' = tables, hd' = hd,
         NEW d, d = hd, NEW n, n = Len(stack), Entry # "ext"
  PROVE  /\ Returned' <=> Returned
         /\ Followed(1)' <=> Followed(1)
<1>1. /\ n \in 1 .. Depth(d) /\ n \in Nat \ {0} /\ Top = Frame(n) /\ Top \in FrameType
      /\ Entry = At(d, n)[Top.i]
      /\ Top.i \in 1 .. TableLen + 1 /\ TableLen \in Nat
  BY AtTop
<1>2. /\ stack' # <<>> /\ n = Len(stack') /\ d = hd'
      /\ \A t \in 1 .. n - 1 : Frame(t)' = Frame(t)
      /\ Frame(n)'.i = Frame(n).i + 1
  BY FramesAdvanced
<1>3. \A t : At(d, t)' = At(d, t)
  BY SameDisks
<1>4. Followed(n)' <=> Followed(n)
  <2>1. \A j : j \in 1 .. Frame(n).i <=> j \in 1 .. Frame(n).i - 1 \/ j = Frame(n).i
    BY <1>1
  <2>2. Frame(n).i + 1 - 1 = Frame(n).i
    BY <1>1
  <2>3. QED
    BY <1>1, <1>2, <1>3, <2>1, <2>2 DEF Followed
<1>5. ASSUME n # 1
      PROVE  Followed(1)' <=> Followed(1)
  <2>1. Frame(1)' = Frame(1)
    BY <1>1, <1>2, <1>5
  <2>2. QED
    BY <1>2, <1>3, <2>1 DEF Followed
<1>6. Returned' <=> Returned
  BY <1>2, <1>4 DEF Returned
<1>7. QED
  BY <1>4, <1>5, <1>6

(* A partition has one place in the tables that the scan meets.            *)
LEMMA OnePart ==
  ASSUME NEW d \in Disks, tables[d] \in Layouts[d],
         NEW t \in 1 .. Depth(d), NEW u \in 1 .. Depth(d), NEW i, NEW j,
         Part(d, t, i) = Part(d, u, j)
  PROVE  t = u /\ i = j
<1>1. Lba(d, t) = Lba(d, u) /\ i = j
  BY DEF Part
<1>2. /\ Lba(d, t) \in Nat /\ Lba(d, u) \in Nat /\ Depth(d) \in Nat
      /\ t < u => Lba(d, t) < Lba(d, u)
      /\ u < t => Lba(d, u) < Lba(d, t)
  BY Met
<1>3. t \in Int /\ u \in Int
  BY <1>2
<1>4. QED
  BY <1>1, <1>2, <1>3

(* An entry is passed that is no link, and listed if it is a partition.    *)
LEMMA EntryPassed ==
  ASSUME Came, Frames, Listing, Missing, stack # <<>>, Top.i <= TableLen, stack' = Advanced,
         tables' = tables, hd' = hd, Entry # "ext",
         NEW d, d = hd, NEW n, n = Len(stack),
         Listed(d)' = Listed(d) \cup {p \in {Here} : Entry = "part"},
         logicNo' = logicNo \/ logicNo # MaxLogic
  PROVE  Listing' /\ Missing'
<1>1. /\ d \in Disks /\ tables[d] \in Layouts[d]
      /\ n \in 1 .. Depth(d) /\ n \in Nat \ {0} /\ Depth(d) \in Nat /\ Top = Frame(n)
      /\ Entry = At(d, n)[Top.i] /\ Here = Part(d, n, Top.i) /\ Top.i \in Entries
      /\ \A t \in 1 .. n : Frame(t).i \in 1 .. TableLen + 1
      /\ Entries = 1 .. TableLen /\ TableLen \in Nat
  BY AtTop
<1>2. /\ stack' # <<>> /\ n = Len(stack') /\ d = hd'
      /\ \A t \in 1 .. n - 1 : Frame(t)' = Frame(t)
      /\ Frame(n)'.i = Frame(n).i + 1
  BY FramesAdvanced
<1>3. Returned' <=> Returned
  BY FollowedAdvanced
<1>4. /\ \A t : Lba(d, t)' = Lba(d, t) /\ At(d, t)' = At(d, t)
      /\ \A t, j : Part(d, t, j)' = Part(d, t, j)
      /\ Depth(d)' = Depth(d)
  BY SameDisks
<1>5. \A t \in 1 .. Depth(d) : \A j : Part(d, t, j) = Here => t = n /\ j = Top.i
  BY <1>1, OnePart
<1>6. ASSUME NEW p \in Listed(d)'
      PROVE  \E t \in 1 .. Depth(d), j \in Entries : p = Part(d, t, j) /\ At(d, t)[j] = "part"
  <2>1. CASE p \in Listed(d)
    BY <2>1 DEF Listing
  <2>2. CASE p = Here /\ Entry = "part"
    BY <1>1, <2>2
  <2>3. QED
    BY <2>1, <2>2
<1>7. ASSUME NEW t \in 1 .. n, NEW j \in Entries, At(d, t)[j] = "part"
      PROVE  Part(d, t, j) \in Listed(d)' <=> j < Frame(t)'.i
  <2>1. t \in 1 .. Depth(d)
    BY <1>1
  <2>2. Part(d, t, j) \in Listed(d) <=> j < Frame(t).i
    BY <1>7 DEF Listing
  <2>3. CASE t # n
    <3>1. Part(d, t, j) # Here
      BY <1>5, <2>1, <2>3
    <3>2. Frame(t)' = Frame(t)
      BY <1>1, <1>2, <2>3
    <3>3. QED
      BY <2>2, <3>1, <3>2
  <2>4. CASE t = n /\ j = Top.i
    <3>1. Part(d, t, j) \in Listed(d)'
      BY <1>1, <1>7, <2>4
    <3>2. j < Frame(t)'.i
      <4>1. j \in Int /\ Frame(n).i = j
        BY <1>1, <2>4
      <4>2. Frame(n)'.i = j + 1
        BY <1>2, <4>1
      <4>3. Frame(t)' = Frame(n)'
        BY <2>4
      <4>4. QED
        BY <4>1, <4>2, <4>3
    <3>3. QED
      BY <3>1, <3>2
  <2>5. CASE t = n /\ j # Top.i
    <3>1. Part(d, t, j) # Here
      BY <1>5, <2>1, <2>5
    <3>2. j < Frame(t)'.i <=> j < Frame(t).i
      <4>1. j \in Int /\ Top.i \in Int /\ Frame(t)'.i = Top.i + 1 /\ Frame(t).i = Top.i
        BY <1>1, <1>2, <2>5
      <4>2. QED
        BY <4>1, <2>5
    <3>3. QED
      BY <2>2, <3>1, <3>2
  <2>6. QED
    BY <2>3, <2>4, <2>5
<1>8. ASSUME NEW t \in n + 1 .. Depth(d), NEW j \in Entries
      PROVE  Part(d, t, j) \in Listed(d)' <=> Part(d, t, j) \in Listed(d)
  <2>1. t \in 1 .. Depth(d) /\ t # n
    BY <1>1
  <2>2. QED
    BY <1>5, <2>1
<1>9. Listing'
  <2>1. ~Returned' => \A t \in n + 1 .. Depth(d), j \in Entries : Part(d, t, j) \notin Listed(d)'
    BY <1>3, <1>8 DEF Listing
  <2>2. QED
    BY <1>2, <1>4, <1>6, <1>7, <2>1 DEF Listing
<1>10. Missing'
  <2> SUFFICES ASSUME Returned', NEW t \in n + 1 .. Depth(d), NEW j \in Entries,
                      At(d, t)[j] = "part", Part(d, t, j) \notin Listed(d)'
               PROVE  t > 1 /\ logicNo' = MaxLogic /\ \A p \in Listed(d)' : p[2] <= Lba(d, t)
    BY <1>2, <1>4 DEF Missing
  <2>1. t > 1 /\ logicNo = MaxLogic /\ \A p \in Listed(d) : p[2] <= Lba(d, t)
    BY <1>3, <1>8 DEF Missing
  <2>2. Here[2] <= Lba(d, t)
    <3>1. t \in 1 .. Depth(d) /\ n < t
      BY <1>1
    <3>2. Lba(d, n) \in Nat /\ Lba(d, t) \in Nat /\ Lba(d, n) < Lba(d, t)
      BY <1>1, <3>1, Met
    <3>3. QED
      BY <1>1, <3>2 DEF Part
  <2>3. \A p \in Listed(d)' : p \in Listed(d) \/ p = Here
    OBVIOUS
  <2>4. \A p \in Listed(d)' : p[2] <= Lba(d, t)
    BY <2>1, <2>2, <2>3
  <2>5. logicNo' = MaxLogic
    BY <2>1
  <2>6. QED
    BY <2>1, <2>4, <2>5
<1>11. QED
  BY <1>9, <1>10

(* What primNo says of the MBR.                                            *)
MbrPassed ==
  /\ primNo < Frame(1).i
  /\ primNo = Frame(1).i - 1 => \A j \in 1 .. primNo : tables[hd][1][j] = "part"

(* The scan goes on and no primary partition is counted.                   *)
LEMMA MbrKept ==
  ASSUME MbrPassed, primNo \in Nat, Frame(1).i \in Nat, UNCHANGED <<primNo, tables, hd>>,
         Frame(1)'.i = Frame(1).i \/ Frame(1)'.i = Frame(1).i + 1
  PROVE  MbrPassed'
<1>1. CASE Frame(1)'.i = Frame(1).i
  BY <1>1 DEF MbrPassed
<1>2. CASE Frame(1)'.i = Frame(1).i + 1
  <2>1. primNo' < Frame(1)'.i /\ primNo' # Frame(1)'.i - 1
    BY <1>2 DEF MbrPassed
  <2>2. QED
    BY <2>1 DEF MbrPassed
<1>3. QED
  BY <1>1, <1>2

(* The sets that the counts are about, while the list stays.               *)
LEMMA SameCounts ==
  ASSUME UNCHANGED <<partList, hd>>
  PROVE  LogicListed' = LogicListed /\ Numbers(hd)' = Numbers(hd)
         /\ InSlot(hd, 0)' = InSlot(hd, 0) /\ Listed(hd)' = Listed(hd)
<1>1. PICK d : d = hd
  OBVIOUS
<1>2. Listed(d)' = Listed(d) /\ Numbers(d)' = Numbers(d) /\ InSlot(d, 0)' = InSlot(d, 0)
  BY SameList
<1>3. QED
  BY <1>1, <1>2 DEF LogicListed

(* Nothing is counted.                                                     *)
LEMMA CountsKept ==
  ASSUME Counted, UNCHANGED <<partList, hd, primNo, logicNo>>,
         stack' # <<>> => MbrPassed', logicNo = MaxLogic => Returned'
  PROVE  Counted'
<1>1. /\ LogicListed' = LogicListed /\ Numbers(hd)' = Numbers(hd)
      /\ InSlot(hd, 0)' = InSlot(hd, 0)
  BY SameCounts
<1>2. QED
  BY <1>1 DEF Counted, MbrPassed

(* An empty entry.                                                         *)
LEMMA ScanEmptyStep ==
  ASSUME Came, Scanned, ScanEmpty
  PROVE  Scanned'
<1>1. PICK d, n : d = hd /\ n = Len(stack)
  OBVIOUS
<1>2. /\ stack # <<>> /\ Top.i <= TableLen /\ stack' = Advanced /\ tables' = tables /\ hd' = hd
      /\ Entry = "none" /\ UNCHANGED <<base, primNo, logicNo, partList>>
  BY DEF ScanEmpty, Scanning, diskVars
<1>3. Frames /\ Listing /\ Missing /\ Counted /\ Based
  BY DEF Scanned
<1>4. /\ Frames' /\ stack' # <<>> /\ n = Len(stack') /\ d = hd'
      /\ \A t \in 1 .. n - 1 : Frame(t)' = Frame(t)
      /\ Frame(n)'.i = Frame(n).i + 1
  BY <1>1, <1>2, <1>3, FramesAdvanced
<1>5. (Returned' <=> Returned) /\ (Followed(1)' <=> Followed(1))
  BY <1>1, <1>2, <1>3, FollowedAdvanced
<1>6. Listing' /\ Missing'
  <2>1. Listed(d)' = Listed(d) \cup {p \in {Here} : Entry = "part"}
    BY <1>2, SameList
  <2>2. QED
    BY <1>1, <1>2, <1>3, <2>1, EntryPassed
<1>7. n \in Nat \ {0} /\ \A t \in 1 .. n : Frame(t).i \in Nat
  <2>1. /\ n \in Nat \ {0} /\ TableLen \in Nat
        /\ \A t \in 1 .. n : Frame(t).i \in 1 .. TableLen + 1
    BY <1>1, <1>2, <1>3, AtTop
  <2>2. QED
    BY <2>1
<1>8. MbrPassed'
  <2>1. MbrPassed /\ primNo \in Nat
    BY <1>2, <1>3, BootAssumption DEF Counted, MbrPassed
  <2>2. Frame(1)'.i = Frame(1).i \/ Frame(1)'.i = Frame(1).i + 1
    BY <1>4, <1>7
  <2>3. Frame(1).i \in Nat
    BY <1>7
  <2>4. QED
    BY <1>2, <2>1, <2>2, <2>3, MbrKept
<1>9. Counted'
  BY <1>2, <1>3, <1>5, <1>8, CountsKept DEF Counted
<1>10. Based'
  <2>1. Behind(d)' = Behind(d)
    BY <1>2, SameDisks
  <2>2. QED
    BY <1>1, <1>2, <1>3, <1>4, <1>5, <2>1 DEF Based
<1>11. QED
  BY <1>4, <1>6, <1>9, <1>10 DEF Scanned

(* A link: its table is where the chain goes on.                           *)
LEMMA ScanExtendedStep ==
  ASSUME Came, Scanned, ScanExtended
  PROVE  Scanned'
<1>1. PICK d, n : d = hd /\ n = Len(stack)
  OBVIOUS
<1>2. /\ stack # <<>> /\ Top.i <= TableLen /\ Call(LinkLBA) /\ tables' = tables /\ hd' = hd
      /\ Entry = "ext" /\ UNCHANGED <<primNo, logicNo, partList>>
      /\ base' = IF base = 0 THEN StartLBA ELSE base
  BY DEF ScanExtended, Scanning, diskVars
<1>3. Frames /\ Listing /\ Missing /\ Counted /\ Based
  BY DEF Scanned
<1>4. /\ d \in Disks /\ tables[d] \in Layouts[d] /\ n \in 1 .. Depth(d)
      /\ Depth(d) \in Nat \ {0} /\ n \in Nat \ {0} /\ Top = Frame(n) /\ Top \in FrameType
      /\ stack \in Seq(FrameType) /\ Top.lba = Lba(d, n) /\ TableLen \in Nat
      /\ Entry = At(d, n)[Top.i] /\ Top.i \in Entries /\ Entries = 1 .. TableLen
      /\ \A t \in 1 .. n : Frame(t).i \in 1 .. TableLen + 1
  BY <1>1, <1>2, <1>3, AtTop
<1>5. /\ \A t \in 1 .. Depth(d) : Lba(d, t) \in Nat /\ (Lba(d, t) = 0 <=> t = 1)
      /\ \A i, j \in Entries : At(d, n)[i] = "ext" /\ At(d, n)[j] = "ext" => i = j
      /\ (\E i \in Entries : At(d, n)[i] = "ext") <=> n < Depth(d)
      /\ Extended(d) <=> Depth(d) > 1
  BY <1>4, Met
<1>6. n < Depth(d) /\ n + 1 \in 1 .. Depth(d)
  <2>1. n < Depth(d)
    BY <1>2, <1>4, <1>5
  <2>2. QED
    BY <1>4, <2>1
<1>7. ~Followed(n)
  <2>1. \A j \in 1 .. Frame(n).i - 1 : j \in Entries /\ j # Top.i
    BY <1>4
  <2>2. QED
    BY <1>1, <1>2, <1>4, <1>5, <2>1 DEF Followed
<1>8. ExtStart \in Nat \ {0}
  BY BootAssumption
<1>9. LinkLBA = Lba(d, n + 1) /\ base' = ExtStart
  <2>1. CASE n = 1
    <3>1. base = IF Behind(d) THEN ExtStart ELSE 0
      BY <1>1, <1>2, <1>3, <1>7, <2>1 DEF Based
    <3>2. Top.lba = 0 /\ StartLBA = ExtStart
      BY <1>4, <1>5, <2>1 DEF StartLBA
    <3>3. Lba(d, 2) = IF Behind(d) THEN ExtStart + ExtStart ELSE ExtStart
      BY <1>8 DEF Lba, TableLBA
    <3>4. QED
      BY <1>2, <1>8, <2>1, <3>1, <3>2, <3>3 DEF LinkLBA
  <2>2. CASE n # 1
    <3>1. Frame(1).i > 1 /\ At(d, 1)[Frame(1).i - 1] = "ext" /\ Frame(1).i \in 1 .. TableLen + 1
      BY <1>1, <1>3, <1>4, <2>2 DEF Frames
    <3>2. Followed(1)
      BY <1>1, <1>4, <3>1 DEF Followed
    <3>3. base = ExtStart
      BY <1>2, <1>3, <3>2 DEF Based
    <3>4. ~Behind(d)
      BY <1>4, <1>6, <2>2 DEF Depth
    <3>5. Top.lba # 0 /\ Top.lba = ExtStart + n - 2 /\ Lba(d, n + 1) = ExtStart + n - 1
      BY <1>4, <1>5, <1>8, <2>2, <3>4 DEF Lba, TableLBA
    <3>6. StartLBA = n - 1
      BY <1>4, <1>8, <3>5 DEF StartLBA
    <3>7. QED
      BY <1>2, <1>4, <1>8, <3>3, <3>5, <3>6 DEF LinkLBA
  <2>3. QED
    BY <2>1, <2>2
<1>10. /\ stack' \in Seq(FrameType) /\ Len(stack') = n + 1
       /\ \A t \in 1 .. n - 1 : Frame(t)' = Frame(t)
       /\ Frame(n)' = [Top EXCEPT !.i = Top.i + 1]
       /\ Frame(n + 1)' = [lba |-> LinkLBA, i |-> 1]
  <2>1. LinkLBA \in Nat
    BY <1>5, <1>6, <1>9
  <2>2. QED
    BY <1>1, <1>2, <1>4, <2>1, StackCalled
<1>11. PICK m : m = n + 1 /\ m = Len(stack') /\ m \in Nat
  BY <1>4, <1>10
<1>12. /\ Frame(n)'.i = Frame(n).i + 1 /\ Frame(n)'.lba = Frame(n).lba
       /\ Frame(m)'.lba = Lba(d, m) /\ Frame(m)'.i = 1
  BY <1>4, <1>9, <1>10, <1>11 DEF FrameType
<1>13. /\ \A t : Lba(d, t)' = Lba(d, t) /\ At(d, t)' = At(d, t)
       /\ \A t, j : Part(d, t, j)' = Part(d, t, j)
       /\ Depth(d)' = Depth(d) /\ Behind(d)' = Behind(d)
  BY <1>2, SameDisks
<1>14. \A t \in 1 .. m : t \in 1 .. n - 1 \/ t = n \/ t = m
  BY <1>4, <1>11
<1>15. d = hd'
  BY <1>1, <1>2
<1>16. Frames'
  <2>1. \A t \in 1 .. m : Frame(t)'.lba = Lba(d, t)
    <3>1. \A t \in 1 .. n : Frame(t).lba = Lba(d, t)
      BY <1>1, <1>3 DEF Frames
    <3>2. n \in 1 .. n /\ \A t \in 1 .. n - 1 : t \in 1 .. n
      BY <1>4
    <3>3. QED
      BY <1>10, <1>12, <1>14, <3>1, <3>2
  <2>2. \A t \in 1 .. m - 1 : Frame(t)'.i > 1 /\ At(d, t)[Frame(t)'.i - 1] = "ext"
    <3>1. \A t \in 1 .. n - 1 : Frame(t)'.i > 1 /\ At(d, t)[Frame(t)'.i - 1] = "ext"
      BY <1>1, <1>3, <1>10 DEF Frames
    <3>2. Frame(n)'.i > 1 /\ At(d, n)[Frame(n)'.i - 1] = "ext"
      BY <1>2, <1>4, <1>12
    <3>3. \A t \in 1 .. m - 1 : t \in 1 .. n - 1 \/ t = n
      BY <1>4, <1>11
    <3>4. QED
      BY <3>1, <3>2, <3>3
  <2>3. m <= Depth(d)
    BY <1>6, <1>11
  <2>4. QED
    BY <1>10, <1>11, <1>13, <1>15, <2>1, <2>2, <2>3 DEF Frames
<1>17. ~Returned'
  <2>1. stack' # <<>>
    BY <1>4, <1>10
  <2>2. ~\E j \in 1 .. Frame(m)'.i - 1 : At(d, m)[j] = "ext"
    BY <1>12
  <2>3. QED
    BY <1>11, <1>13, <1>15, <2>1, <2>2 DEF Returned, Followed
<1>18. ~Returned
  BY <1>1, <1>2, <1>7 DEF Returned
<1>19. Listed(d)' = Listed(d)
  BY <1>2, SameList
<1>20. Listing'
  <2>1. \A t \in m .. Depth(d), j \in Entries : Part(d, t, j) \notin Listed(d)
    BY <1>1, <1>3, <1>11, <1>18 DEF Listing
  <2>2. ASSUME NEW t \in 1 .. m, NEW j \in Entries, At(d, t)[j] = "part"
        PROVE  Part(d, t, j) \in Listed(d) <=> j < Frame(t)'.i
    <3>1. CASE t \in 1 .. n - 1
      <4>1. t \in 1 .. n
        BY <1>4, <3>1
      <4>2. QED
        BY <1>1, <1>3, <1>10, <2>2, <3>1, <4>1 DEF Listing
    <3>2. CASE t = n
      <4>1. Part(d, t, j) \in Listed(d) <=> j < Frame(n).i
        BY <1>1, <1>3, <1>4, <2>2, <3>2 DEF Listing
      <4>2. j # Frame(n).i /\ j \in Int /\ Frame(n).i \in Int
        BY <1>2, <1>4, <2>2, <3>2
      <4>3. j < Frame(n).i + 1 <=> j < Frame(n).i
        BY <4>2
      <4>4. QED
        BY <1>12, <3>2, <4>1, <4>3
    <3>3. CASE t = m
      <4>1. Part(d, t, j) \notin Listed(d)
        BY <1>6, <1>11, <2>1, <3>3
      <4>2. ~(j < Frame(t)'.i)
        BY <1>4, <1>12, <3>3
      <4>3. QED
        BY <4>1, <4>2
    <3>4. QED
      BY <1>14, <3>1, <3>2, <3>3
  <2>3. \A t \in m + 1 .. Depth(d), j \in Entries : Part(d, t, j) \notin Listed(d)
    BY <1>11, <2>1, <1>4
  <2>4. \A p \in Listed(d) :
          \E t \in 1 .. Depth(d), j \in Entries : p = Part(d, t, j) /\ At(d, t)[j] = "part"
    BY <1>1, <1>3 DEF Listing
  <2>5. QED
    BY <1>11, <1>13, <1>15, <1>19, <2>2, <2>3, <2>4 DEF Listing
<1>21. Missing'
  BY <1>17 DEF Missing
<1>22. MbrPassed' /\ Frame(1)'.i \in Nat
  <2>1. MbrPassed /\ primNo \in Nat
    BY <1>2, <1>3, BootAssumption DEF Counted, MbrPassed
  <2>2. Frame(1)'.i = Frame(1).i \/ Frame(1)'.i = Frame(1).i + 1
    <3>1. n = 1 \/ 1 \in 1 .. n - 1
      BY <1>4
    <3>2. Frame(n)'.i = Frame(n).i + 1
      BY <1>12
    <3>3. QED
      BY <1>10, <3>1, <3>2
  <2>3. Frame(1).i \in Nat
    BY <1>4
  <2>4. QED
    BY <1>2, <2>1, <2>2, <2>3, MbrKept
<1>23. Counted'
  BY <1>2, <1>3, <1>18, <1>22, CountsKept DEF Counted
<1>24. Based'
  <2>1. Followed(1)'
    <3>1. Frame(1)'.i > 1 /\ At(d, 1)[Frame(1)'.i - 1] = "ext"
      <4>1. 1 \in 1 .. m - 1
        BY <1>4, <1>11
      <4>2. QED
        BY <1>11, <1>13, <1>15, <1>16, <4>1 DEF Frames
    <3>2. Frame(1)'.i \in Nat
      BY <1>22
    <3>3. QED
      BY <1>13, <1>15, <3>1, <3>2 DEF Followed
  <2>2. QED
    BY <1>4, <1>9, <1>10, <2>1 DEF Based
<1>25. QED
  BY <1>16, <1>20, <1>21, <1>23, <1>24 DEF Scanned

(* The scan comes back to a table whose link it has followed.              *)
LEMMA FramesPopped ==
  ASSUME Came, Frames, stack # <<>>, stack' = Tail(stack), tables' = tables, hd' = hd,
         NEW d, d = hd, NEW n, n = Len(stack)
  PROVE  /\ Frames' /\ Returned' /\ Len(stack') = n - 1 /\ d = hd'
         /\ \A t \in 1 .. n - 1 : Frame(t)' = Frame(t)
         /\ n > 1 => stack' # <<>> /\ (Followed(1)' <=> Followed(1))
         /\ n = 1 => stack' = <<>>
<1>1. /\ n \in 1 .. Depth(d) /\ n \in Nat \ {0} /\ Depth(d) \in Nat
      /\ stack \in Seq(FrameType) /\ TableLen \in Nat
      /\ \A t \in 1 .. n : Frame(t).i \in 1 .. TableLen + 1
  BY AtTop
<1>2. /\ stack' \in Seq(FrameType) /\ Len(stack') = n - 1
      /\ \A t \in 1 .. n - 1 : Frame(t)' = Frame(t)
  BY <1>1, StackPopped
<1>3. /\ \A t : Lba(d, t)' = Lba(d, t) /\ At(d, t)' = At(d, t)
      /\ Depth(d)' = Depth(d)
  BY SameDisks
<1>4. PICK m : m = n - 1 /\ m \in Nat /\ m = Len(stack')
  BY <1>1, <1>2
<1>5. Frames'
  <2>1. m <= Depth(d) /\ \A t \in 1 .. m : t \in 1 .. n
    BY <1>1, <1>4
  <2>2. \A t \in 1 .. m : Frame(t)'.lba = Lba(d, t)
    BY <1>2, <1>4, <2>1 DEF Frames
  <2>3. \A t \in 1 .. m - 1 : Frame(t)'.i > 1 /\ At(d, t)[Frame(t)'.i - 1] = "ext"
    <3>1. \A t \in 1 .. m - 1 : t \in 1 .. n - 1
      BY <1>1, <1>4
    <3>2. QED
      BY <1>2, <3>1 DEF Frames
  <2>4. QED
    BY <1>2, <1>3, <1>4, <2>1, <2>2, <2>3 DEF Frames
<1>6. m = 0 <=> stack' = <<>>
  <2>1. \A s \in Seq(FrameType) : Len(s) = 0 <=> s = <<>>
    OBVIOUS
  <2>2. QED
    BY <1>2, <1>4, <2>1
<1>7. ASSUME m # 0
      PROVE  Followed(m)'
  <2>1. m \in 1 .. n - 1 /\ m \in 1 .. n
    BY <1>1, <1>4, <1>7
  <2>2. /\ Frame(m)'.i > 1 /\ At(d, m)'[Frame(m)'.i - 1] = "ext"
        /\ Frame(m)'.i \in 1 .. TableLen + 1
    BY <1>1, <1>2, <1>3, <2>1 DEF Frames
  <2>3. QED
    BY <1>1, <2>2 DEF Followed
<1>8. Returned'
  BY <1>4, <1>6, <1>7 DEF Returned
<1>9. ASSUME n > 1
      PROVE  Followed(1)' <=> Followed(1)
  <2>1. Frame(1)' = Frame(1)
    BY <1>1, <1>2, <1>9
  <2>2. QED
    BY <1>3, <2>1 DEF Followed
<1>10. QED
  BY <1>1, <1>2, <1>4, <1>5, <1>6, <1>8, <1>9

(* The end of a table is reached: all of it is listed.                     *)
LEMMA ScanReturnStep ==
  ASSUME Came, Scanned, ScanReturn
  PROVE  Scanned'
<1>1. PICK d, n : d = hd /\ n = Len(stack)
  OBVIOUS
<1>2. /\ stack # <<>> /\ Top.i > TableLen /\ stack' = Tail(stack) /\ tables' = tables /\ hd' = hd
      /\ UNCHANGED <<base, primNo, logicNo, partList>>
  BY DEF ScanReturn, diskVars
<1>3. Frames /\ Listing /\ Missing /\ Counted /\ Based
  BY DEF Scanned
<1>4. /\ d \in Disks /\ tables[d] \in Layouts[d] /\ n \in 1 .. Depth(d)
      /\ Depth(d) \in Nat \ {0} /\ n \in Nat \ {0} /\ Top = Frame(n)
      /\ TableLen \in Nat /\ Entries = 1 .. TableLen
      /\ \A t \in 1 .. n : Frame(t).i \in 1 .. TableLen + 1
  BY <1>1, <1>2, <1>3, AtTop
<1>5. /\ Frames' /\ Returned' /\ Len(stack') = n - 1 /\ d = hd'
      /\ \A t \in 1 .. n - 1 : Frame(t)' = Frame(t)
      /\ n > 1 => stack' # <<>> /\ (Followed(1)' <=> Followed(1))
      /\ n = 1 => stack' = <<>>
  BY <1>1, <1>2, <1>3, FramesPopped
<1>6. /\ \A t : Lba(d, t)' = Lba(d, t) /\ At(d, t)' = At(d, t)
      /\ \A t, j : Part(d, t, j)' = Part(d, t, j)
      /\ Depth(d)' = Depth(d) /\ Behind(d)' = Behind(d) /\ Extended(d)' = Extended(d)
  BY <1>2, SameDisks
<1>7. Listed(d)' = Listed(d)
  BY <1>2, SameList
<1>8. Frame(n).i = TableLen + 1
  BY <1>2, <1>4
<1>9. Followed(n) <=> n < Depth(d)
  <2>1. (\E i \in Entries : At(d, n)[i] = "ext") <=> n < Depth(d)
    BY <1>4, Met
  <2>2. Frame(n).i - 1 = TableLen
    BY <1>4, <1>8
  <2>3. QED
    BY <1>1, <1>4, <2>1, <2>2 DEF Followed
<1>10. Listing'
  <2>1. \A t \in 1 .. n - 1, j \in Entries :
          At(d, t)[j] = "part" => (Part(d, t, j) \in Listed(d) <=> j < Frame(t)'.i)
    <3>1. \A t \in 1 .. n - 1 : t \in 1 .. n
      BY <1>4
    <3>2. QED
      BY <1>1, <1>3, <1>5, <3>1 DEF Listing
  <2>2. \A p \in Listed(d) :
          \E t \in 1 .. Depth(d), j \in Entries : p = Part(d, t, j) /\ At(d, t)[j] = "part"
    BY <1>1, <1>3 DEF Listing
  <2>3. QED
    BY <1>5, <1>6, <1>7, <2>1, <2>2 DEF Listing
<1>11. Missing'
  <2> SUFFICES ASSUME NEW t \in n .. Depth(d), NEW j \in Entries,
                      At(d, t)[j] = "part", Part(d, t, j) \notin Listed(d)
               PROVE  t > 1 /\ logicNo = MaxLogic /\ \A p \in Listed(d) : p[2] <= Lba(d, t)
    <3>1. Len(stack') + 1 = n
      BY <1>4, <1>5
    <3>2. QED
      BY <1>2, <1>5, <1>6, <1>7, <3>1 DEF Missing
  <2>1. t # n
    <3>1. n \in 1 .. n /\ j < TableLen + 1
      BY <1>4
    <3>2. At(d, n)[j] = "part" => Part(d, n, j) \in Listed(d)
      BY <1>1, <1>3, <1>8, <3>1 DEF Listing
    <3>3. QED
      BY <3>2
  <2>2. t \in n + 1 .. Depth(d) /\ n < Depth(d)
    BY <1>4, <2>1
  <2>3. Returned
    BY <1>1, <1>9, <2>2 DEF Returned
  <2>4. QED
    BY <1>1, <1>3, <2>2, <2>3 DEF Missing
<1>12. Counted'
  <2>1. ASSUME stack' # <<>>
        PROVE  MbrPassed'
    <3>1. n > 1
      BY <1>4, <1>5, <2>1
    <3>2. Frame(1)' = Frame(1)
      BY <1>4, <1>5, <3>1
    <3>3. MbrPassed
      BY <1>2, <1>3 DEF Counted, MbrPassed
    <3>4. QED
      BY <1>2, <3>2, <3>3 DEF MbrPassed
  <2>2. QED
    BY <1>2, <1>3, <1>5, <2>1, CountsKept
<1>13. Based'
  <2>1. CASE n > 1
    BY <1>1, <1>2, <1>3, <1>5, <1>6, <2>1 DEF Based
  <2>2. CASE n = 1
    <3>1. Extended(d) <=> Depth(d) > 1
      BY <1>4, Met
    <3>2. Extended(d) <=> Followed(1)
      BY <1>4, <1>9, <2>2, <3>1
    <3>3. QED
      BY <1>1, <1>2, <1>3, <1>5, <1>6, <2>2, <3>2 DEF Based
  <2>3. QED
    BY <1>4, <2>1, <2>2
<1>14. QED
  BY <1>5, <1>10, <1>11, <1>12, <1>13 DEF Scanned

(* A record of the list, and the list of the disk that is scanned.         *)
LEMMA NewRecord ==
  ASSUME Came, Frames, stack # <<>>, NEW kind \in {"prim", "logic"}, NEW no \in Nat
  PROVE  /\ <<Here, kind, no>> \in Records
         /\ <<Here, kind, no>>[1] = Here /\ <<Here, kind, no>>[2] = kind
         /\ <<Here, kind, no>>[3] = no
         /\ Here[1] = hd /\ Here[2] = Top.lba
<1>1. PICK d, n : d = hd /\ n = Len(stack)
  OBVIOUS
<1>2. /\ d \in Disks /\ Top \in FrameType
      /\ Top.i \in 1 .. TableLen + 1 /\ TableLen \in Nat
  BY <1>1, AtTop
<1>3. d \in Nat /\ Top.lba \in Nat /\ Top.i \in Nat
  BY <1>2, BootAssumption DEF Disks, FrameType
<1>4. QED
  BY <1>1, <1>3 DEF Here, Records

(* A primary partition is listed, or fills the array.                      *)
LEMMA ScanPrimaryStep ==
  ASSUME Came, Scanned, OneSlot, ScanPrimary
  PROVE  IF phase' = phase
         THEN Scanned' /\ OneSlot' /\ why' = why /\ \A c : c # hd => Listed(c)' = Listed(c)
         ELSE phase' = "halt" /\ HaltExplained'
<1>1. PICK d, n : d = hd /\ n = Len(stack)
  OBVIOUS
<1>2. /\ stack # <<>> /\ Top.i <= TableLen /\ stack' = Advanced /\ tables' = tables /\ hd' = hd
      /\ Entry = "part" /\ Top.lba = 0 /\ primNo' = primNo + 1
      /\ UNCHANGED <<base, logicNo>> /\ partList' = Append(partList, <<Here, "prim", primNo>>)
      /\ IF primNo' < TableLen THEN UNCHANGED <<phase, why>> ELSE Halt("ide.c:371")
      /\ phase = "scan"
  BY DEF ScanPrimary, Scanning, diskVars
<1>3. Frames /\ Listing /\ Missing /\ Counted /\ Based
  BY DEF Scanned
<1>4. /\ d \in Disks /\ tables[d] \in Layouts[d] /\ n \in 1 .. Depth(d)
      /\ Depth(d) \in Nat \ {0} /\ n \in Nat \ {0} /\ Top = Frame(n) /\ Top.lba = Lba(d, n)
      /\ Entry = At(d, n)[Top.i] /\ Here = Part(d, n, Top.i) /\ Top.i \in Entries
      /\ TableLen \in Nat /\ Entries = 1 .. TableLen
  BY <1>1, <1>2, <1>3, AtTop
<1>5. n = 1 /\ At(d, 1) = tables[d][1]
  BY <1>2, <1>4, Met
<1>6. /\ primNo \in Nat /\ primNo < Top.i /\ Top.i \in Nat
      /\ primNo = Top.i - 1 => \A j \in 1 .. primNo : tables[d][1][j] = "part"
  BY <1>1, <1>2, <1>3, <1>4, <1>5 DEF Counted
<1>7. tables[d][1][Top.i] = "part"
  BY <1>2, <1>4, <1>5
<1>8. CASE ~(primNo' < TableLen)
  <2>1. Top.i = TableLen /\ primNo = Top.i - 1
    BY <1>2, <1>4, <1>6, <1>8
  <2>2. \A j \in Entries : j \in 1 .. primNo \/ j = Top.i
    BY <1>4, <1>6, <2>1
  <2>3. \A j \in Entries : tables[d][1][j] = "part"
    BY <1>6, <1>7, <2>1, <2>2
  <2>4. phase' = "halt" /\ why' = "ide.c:371"
    BY <1>2, <1>8 DEF Halt
  <2>5. HaltExplained'
    BY <1>1, <1>2, <2>3, <2>4 DEF HaltExplained
  <2>6. QED
    BY <1>2, <2>4, <2>5
<1>9. CASE primNo' < TableLen
  <2> DEFINE e == <<Here, "prim", primNo>>
  <2>1. /\ e \in Records /\ e[1] = Here /\ e[2] = "prim" /\ e[3] = primNo
        /\ e[1][1] = d /\ e[1][2] = 0
    BY <1>1, <1>2, <1>3, <1>6, NewRecord
  <2>2. SlotOf(e) = primNo
    BY <2>1 DEF SlotOf
  <2> HIDE DEF e
  <2>3. /\ Frames' /\ stack' # <<>> /\ n = Len(stack') /\ d = hd'
        /\ Frame(n)'.i = Frame(n).i + 1
    BY <1>1, <1>2, <1>3, FramesAdvanced
  <2>4. (Returned' <=> Returned) /\ (Followed(1)' <=> Followed(1))
    BY <1>1, <1>2, <1>3, FollowedAdvanced
  <2>5. partList' = Append(partList, e) /\ partList \in Seq(Records)
    BY <1>2 DEF e, OneSlot
  <2>6. /\ \A c : Listed(c)' = Listed(c) \cup {p \in {e[1]} : p[1] = c}
        /\ Numbers(d)' = Numbers(d) \cup {f \in {e} : f[1][1] = d}
        /\ Range(partList') = Range(partList) \cup {e}
    BY <2>1, <2>5, ListAppended
  <2>7. Listed(d)' = Listed(d) \cup {Here}
    BY <2>1, <2>6
  <2>8. Listing' /\ Missing'
    <3>1. Listed(d)' = Listed(d) \cup {p \in {Here} : Entry = "part"}
      BY <1>2, <2>7
    <3>2. QED
      BY <1>1, <1>2, <1>3, <3>1, EntryPassed
  <2>9. Here \notin Listed(d)
    <3>1. n \in 1 .. n /\ At(d, n)[Top.i] = "part" /\ ~(Top.i < Frame(n).i)
      BY <1>2, <1>4, <1>6
    <3>2. QED
      BY <1>1, <1>3, <1>4, <3>1 DEF Listing
  <2>10. \A f \in Numbers(d) : SlotOf(f) # primNo
    <3> SUFFICES ASSUME NEW f \in Numbers(d)
                 PROVE  SlotOf(f) # primNo
      OBVIOUS
    <3>1. f \in Records
      BY <2>5 DEF Numbers, Range
    <3>2. f[3] \in Nat /\ f[2] \in {"prim", "logic"}
      BY <3>1 DEF Records
    <3>3. f[3] < IF f[2] = "prim" THEN primNo ELSE logicNo
      BY <1>1, <1>3 DEF Counted
    <3>4. CASE f[2] = "prim"
      BY <1>6, <3>2, <3>3, <3>4 DEF SlotOf
    <3>5. CASE f[2] # "prim"
      BY <1>2, <1>4, <1>6, <1>9, <3>2, <3>5 DEF SlotOf
    <3>6. QED
      BY <3>4, <3>5
  <2>11. OneSlot'
    <3>1. primNo = 0 \/ InSlot(d, 0) # {}
      BY <1>1, <1>3, <1>6 DEF Counted
    <3>2. primNo < TableLen
      BY <1>2, <1>4, <1>6, <1>9
    <3>3. QED
      BY <2>1, <2>2, <2>5, <2>9, <2>10, <3>1, <3>2, SlotAdded
  <2>12. MbrPassed'
    <3>1. Frame(1)'.i = Top.i + 1
      BY <1>4, <1>5, <2>3
    <3>2. primNo' < Top.i + 1
      BY <1>2, <1>6
    <3>3. ASSUME primNo' = Top.i + 1 - 1
          PROVE  \A j \in 1 .. primNo' : tables[d][1][j] = "part"
      <4>1. primNo = Top.i - 1
        BY <1>2, <1>6, <3>3
      <4>2. \A j \in 1 .. primNo' : j \in 1 .. primNo \/ j = Top.i
        BY <1>2, <1>6, <4>1
      <4>3. QED
        BY <1>6, <1>7, <4>1, <4>2
    <3>4. primNo' < Frame(1)'.i
      BY <3>1, <3>2
    <3>5. primNo' = Frame(1)'.i - 1 => \A j \in 1 .. primNo' : tables'[hd'][1][j] = "part"
      <4>1. \A j \in 1 .. primNo' : tables'[hd'][1][j] = tables[d][1][j]
        BY <1>1, <1>2
      <4>2. Frame(1)'.i - 1 = Top.i + 1 - 1
        BY <1>6, <3>1
      <4>3. QED
        BY <3>3, <4>1, <4>2
    <3>6. QED
      BY <3>4, <3>5 DEF MbrPassed
  <2>13. Counted'
    <3>1. LogicListed' = LogicListed
      <4>1. Here[2] = 0
        BY <2>1
      <4>2. LogicListed = {p \in Listed(d) : p[2] # 0}
        BY <1>1 DEF LogicListed
      <4>3. LogicListed' = {p \in Listed(d)' : p[2] # 0}
        BY <2>3 DEF LogicListed
      <4>4. QED
        BY <2>7, <4>1, <4>2, <4>3
    <3>2. primNo' \in 0 .. TableLen - 1
      BY <1>2, <1>4, <1>6, <1>9
    <3>3. \A f \in Numbers(d)' : f[3] < IF f[2] = "prim" THEN primNo' ELSE logicNo
      <4>1. ASSUME NEW f \in Numbers(d)
            PROVE  f[3] < IF f[2] = "prim" THEN primNo' ELSE logicNo
        <5>1. f \in Records
          BY <2>5 DEF Numbers, Range
        <5>2. f[3] \in Nat
          BY <5>1 DEF Records
        <5>3. f[3] < IF f[2] = "prim" THEN primNo ELSE logicNo
          BY <1>1, <1>3 DEF Counted
        <5>4. primNo < primNo' /\ primNo' \in Nat
          BY <1>2, <1>6
        <5>5. CASE f[2] = "prim"
          BY <1>6, <5>2, <5>3, <5>4, <5>5
        <5>6. CASE f[2] # "prim"
          BY <5>3, <5>6
        <5>7. QED
          BY <5>5, <5>6
      <4>2. e[3] < primNo'
        BY <1>2, <1>6, <2>1
      <4>3. QED
        BY <2>1, <2>6, <4>1, <4>2
    <3>4. InSlot(d, 0)' # {}
      <4>1. e \in Range(partList')
        BY <2>6
      <4>2. \A f \in Range(partList') : f[2] = "prim" /\ f[1][1] = d => InSlot(d, 0)' # {}
        BY <2>11 DEF OneSlot
      <4>3. QED
        BY <2>1, <4>1, <4>2
    <3>5. /\ IsFiniteSet(LogicListed) /\ logicNo = Cardinality(LogicListed)
          /\ logicNo <= MaxLogic /\ (logicNo = MaxLogic => Returned)
      BY <1>3 DEF Counted
    <3>6. QED
      BY <1>1, <1>2, <2>3, <2>4, <2>12, <3>1, <3>2, <3>3, <3>4, <3>5 DEF Counted, MbrPassed
  <2>14. Based'
    <3>1. Behind(d)' = Behind(d)
      BY <1>2, SameDisks
    <3>2. QED
      BY <1>1, <1>2, <1>3, <2>3, <2>4, <3>1 DEF Based
  <2>15. \A c : c # hd => Listed(c)' = Listed(c)
    BY <1>1, <2>1, <2>6
  <2>16. QED
    BY <1>2, <1>9, <2>3, <2>8, <2>11, <2>13, <2>14, <2>15 DEF Scanned
<1>10. QED
  BY <1>8, <1>9

(* The partitions of a disk, and those of them that the scan meets.        *)
LEMMA PresentParts ==
  ASSUME NEW d \in Disks, tables[d] \in Layouts[d]
  PROVE  /\ IsFiniteSet(Present(d)) /\ IsFiniteSet(Logical(d))
         /\ \A p \in Present(d) : p[1] = d /\ p[2] \in Nat
         /\ ~Behind(d) =>
              \A p : p \in Present(d) <=>
                \E t \in 1 .. Depth(d), j \in Entries : p = Part(d, t, j) /\ At(d, t)[j] = "part"
         /\ \A p : p \in Present(d) \ Logical(d) <=>
                \E j \in Entries : p = Part(d, 1, j) /\ At(d, 1)[j] = "part"
<1>1. /\ DOMAIN tables[d] = 1 .. Len(tables[d]) /\ Len(tables[d]) \in Nat \ {0}
      /\ Len(tables[d]) < ExtStart
  BY DiskTables
<1>2. ExtStart \in Nat \ {0} /\ TableLen \in Nat
  BY BootAssumption
<1>3. \A t \in 1 .. Len(tables[d]) :
        TableLBA(t) \in 0 .. ExtStart + ExtStart /\ (TableLBA(t) = 0 <=> t = 1)
  BY <1>1, <1>2 DEF TableLBA
<1>4. \A p : p \in Present(d) <=>
        \E t \in 1 .. Len(tables[d]), j \in Entries :
          p = <<d, TableLBA(t), j>> /\ tables[d][t][j] = "part"
  BY <1>1 DEF Present, PartsIn
<1>5. IsFiniteSet(Present(d))
  <2> DEFINE within == 0 .. ExtStart + ExtStart
             pick == [q \in within \X Entries |-> <<d, q[1], q[2]>>]
             box == {pick[q] : q \in within \X Entries}
  <2>1. IsFiniteSet(within) /\ IsFiniteSet(Entries)
    BY <1>2, FS_Interval DEF Entries
  <2>2. IsFiniteSet(within \X Entries)
    BY <2>1, FS_Product
  <2>3. pick \in Surjection(within \X Entries, box)
    BY DEF Surjection
  <2>4. IsFiniteSet(box)
    <3> HIDE DEF box, pick, within
    <3>1. QED
      BY <2>2, <2>3, FS_Surjection
  <2>5. Present(d) \in SUBSET box
    <3>1. ASSUME NEW t \in 1 .. Len(tables[d]), NEW j \in Entries
          PROVE  <<d, TableLBA(t), j>> \in box
      <4>1. <<TableLBA(t), j>> \in within \X Entries
        BY <1>3
      <4>2. pick[<<TableLBA(t), j>>] = <<d, TableLBA(t), j>>
        BY <4>1
      <4>3. QED
        BY <4>1, <4>2
    <3>2. QED
      BY <1>4, <3>1
  <2> HIDE DEF box
  <2>6. QED
    BY <2>4, <2>5, FS_Subset
<1>6. IsFiniteSet(Logical(d))
  <2>1. Logical(d) \in SUBSET Present(d)
    BY DEF Logical
  <2>2. QED
    BY <1>5, <2>1, FS_Subset
<1>7. \A p \in Present(d) : p[1] = d /\ p[2] \in Nat
  BY <1>2, <1>3, <1>4
<1>8. ASSUME ~Behind(d)
      PROVE  \A p : p \in Present(d) <=>
                \E t \in 1 .. Depth(d), j \in Entries : p = Part(d, t, j) /\ At(d, t)[j] = "part"
  <2>1. /\ Depth(d) = Len(tables[d])
        /\ \A t : Lba(d, t) = TableLBA(t) /\ At(d, t) = tables[d][t]
    BY <1>8 DEF Depth, Lba, At
  <2>2. QED
    BY <1>4, <2>1 DEF Part
<1>9. \A p : p \in Present(d) \ Logical(d) <=>
                \E j \in Entries : p = Part(d, 1, j) /\ At(d, 1)[j] = "part"
  <2>1. Lba(d, 1) = TableLBA(1) /\ At(d, 1) = tables[d][1] /\ TableLBA(1) = 0
    BY DEF Lba, At, TableLBA
  <2>2. \A p : p \in Present(d) \ Logical(d) <=> p \in Present(d) /\ p[2] = 0
    BY DEF Logical
  <2>3. 1 \in 1 .. Len(tables[d])
    BY <1>1
  <2>4. \A j : <<d, 0, j>>[2] = 0
    OBVIOUS
  <2>5. ASSUME NEW p, p \in Present(d), p[2] = 0
        PROVE  \E j \in Entries : p = Part(d, 1, j) /\ At(d, 1)[j] = "part"
    <3>1. PICK t \in 1 .. Len(tables[d]), j \in Entries :
            p = <<d, TableLBA(t), j>> /\ tables[d][t][j] = "part"
      BY <1>4, <2>5
    <3>2. t = 1
      BY <1>3, <2>5, <3>1
    <3>3. QED
      BY <2>1, <3>1, <3>2 DEF Part
  <2>6. ASSUME NEW j \in Entries, At(d, 1)[j] = "part"
        PROVE  Part(d, 1, j) \in Present(d) /\ Part(d, 1, j)[2] = 0
    BY <1>4, <2>1, <2>3, <2>6 DEF Part
  <2>7. QED
    BY <2>2, <2>5, <2>6
<1>10. QED
  BY <1>5, <1>6, <1>7, <1>8, <1>9

(* No room is left: a link has been followed before the partition.         *)
LEMMA ScanOverflow ==
  ASSUME Came, Scanned, stack # <<>>, Top.i <= TableLen, Entry = "part", Top.lba # 0,
         ~(logicNo < MaxLogic)
  PROVE  LinkFirst(hd) /\ Cardinality(Logical(hd)) > MaxLogic
<1>1. PICK d, n : d = hd /\ n = Len(stack)
  OBVIOUS
<1>2. Frames /\ Listing /\ Counted
  BY DEF Scanned
<1>3. /\ d \in Disks /\ tables[d] \in Layouts[d] /\ n \in 1 .. Depth(d)
      /\ Depth(d) \in Nat \ {0} /\ n \in Nat \ {0} /\ Top = Frame(n) /\ Top.lba = Lba(d, n)
      /\ Entry = At(d, n)[Top.i] /\ Here = Part(d, n, Top.i) /\ Top.i \in Entries
      /\ TableLen \in Nat /\ Entries = 1 .. TableLen
  BY <1>1, <1>2, AtTop
<1>4. n # 1
  BY <1>3, Met
<1>5. ~Behind(d)
  <2>1. ASSUME Behind(d)
        PROVE  At(d, n)[Top.i] = "none"
    BY <1>3, <1>4, <2>1 DEF At
  <2>2. QED
    BY <1>3, <2>1
<1>6. /\ IsFiniteSet(LogicListed) /\ logicNo = Cardinality(LogicListed) /\ logicNo = MaxLogic
      /\ Followed(n)
  <2>1. /\ IsFiniteSet(LogicListed) /\ logicNo = Cardinality(LogicListed)
        /\ logicNo <= MaxLogic /\ (logicNo = MaxLogic => Returned)
    BY <1>2 DEF Counted
  <2>2. logicNo \in Nat /\ MaxLogic \in Nat
    BY <2>1, FS_CardinalityType, BootAssumption
  <2>3. logicNo = MaxLogic
    BY <2>1, <2>2
  <2>4. QED
    BY <1>1, <2>1, <2>3 DEF Returned
<1>7. LinkFirst(d)
  <2>1. PICK i \in 1 .. Top.i - 1 : At(d, n)[i] = "ext"
    BY <1>1, <1>3, <1>6 DEF Followed
  <2>2. i \in Entries /\ i < Top.i
    BY <1>3, <2>1
  <2>3. n \in DOMAIN tables[d] \ {1} /\ At(d, n) = tables[d][n]
    <3>1. DOMAIN tables[d] = 1 .. Len(tables[d]) /\ Depth(d) = Len(tables[d])
      BY <1>3, <1>5, DiskTables DEF Depth
    <3>2. QED
      BY <1>3, <1>4, <1>5, <3>1 DEF At
  <2>4. QED
    BY <1>3, <2>1, <2>2, <2>3 DEF LinkFirst
<1>8. LogicListed \cup {Here} \in SUBSET Logical(d)
  <2>1. \A p : p \in Present(d) <=>
          \E t \in 1 .. Depth(d), j \in Entries : p = Part(d, t, j) /\ At(d, t)[j] = "part"
    BY <1>3, <1>5, PresentParts
  <2>2. Listed(d) \subseteq Present(d)
    BY <1>1, <1>2, <2>1 DEF Listing
  <2>3. Here \in Present(d) /\ Here[2] # 0
    BY <1>3, <2>1 DEF Part
  <2>4. QED
    BY <1>1, <2>2, <2>3 DEF LogicListed, Logical
<1>9. Here \notin LogicListed
  <2>1. n \in 1 .. n /\ At(d, n)[Top.i] = "part" /\ ~(Top.i < Frame(n).i)
    BY <1>3
  <2>2. Here \notin Listed(d)
    BY <1>1, <1>2, <1>3, <2>1 DEF Listing
  <2>3. QED
    BY <1>1, <2>2 DEF LogicListed
<1>10. Cardinality(LogicListed \cup {Here}) = MaxLogic + 1
  BY <1>6, <1>9, FS_AddElement
<1>11. Cardinality(LogicListed \cup {Here}) <= Cardinality(Logical(d)) /\ IsFiniteSet(Logical(d))
  <2>1. IsFiniteSet(Logical(d))
    BY <1>3, PresentParts
  <2>2. QED
    BY <1>8, <2>1, FS_Subset
<1>12. Cardinality(Logical(d)) \in Nat /\ MaxLogic \in Nat
  BY <1>11, FS_CardinalityType, BootAssumption
<1>13. QED
  BY <1>1, <1>7, <1>10, <1>11, <1>12

(* The list's last number is used: the scan returns from the table.        *)
LEMMA LastPassed ==
  ASSUME Came, Frames, Listing, Missing, stack # <<>>, Top.i <= TableLen, stack' = Tail(stack),
         tables' = tables, hd' = hd, Entry = "part", Top.lba # 0,
         NEW d, d = hd, NEW n, n = Len(stack),
         Listed(d)' = Listed(d) \cup {Here},
         logicNo # MaxLogic, logicNo' = MaxLogic
  PROVE  Listing' /\ Missing'
<1>1. /\ d \in Disks /\ tables[d] \in Layouts[d] /\ n \in 1 .. Depth(d)
      /\ Depth(d) \in Nat \ {0} /\ n \in Nat \ {0} /\ Top = Frame(n) /\ Top.lba = Lba(d, n)
      /\ Entry = At(d, n)[Top.i] /\ Here = Part(d, n, Top.i) /\ Top.i \in Entries
      /\ TableLen \in Nat /\ Entries = 1 .. TableLen
  BY AtTop
<1>2. /\ Frames' /\ Returned' /\ Len(stack') = n - 1 /\ d = hd'
      /\ \A t \in 1 .. n - 1 : Frame(t)' = Frame(t)
  BY FramesPopped
<1>3. /\ \A t : Lba(d, t)' = Lba(d, t) /\ At(d, t)' = At(d, t)
      /\ \A t, j : Part(d, t, j)' = Part(d, t, j)
      /\ Depth(d)' = Depth(d)
  BY SameDisks
<1>4. /\ n # 1
      /\ \A t \in 1 .. Depth(d) : Lba(d, t) \in Nat
      /\ \A t, u \in 1 .. Depth(d) : t < u => Lba(d, t) < Lba(d, u)
      /\ \A i, j \in Entries : n # 1 /\ At(d, n)[i] = "part" /\ At(d, n)[j] = "part" => i = j
  <2>1. n = 1 \/ n \in 2 .. Depth(d)
    BY <1>1
  <2>2. /\ \A t \in 1 .. Depth(d) : Lba(d, t) \in Nat /\ (Lba(d, t) = 0 <=> t = 1)
        /\ \A t, u \in 1 .. Depth(d) : t < u => Lba(d, t) < Lba(d, u)
    BY <1>1, Met
  <2>3. \A u \in 2 .. Depth(d), i, j \in Entries :
          At(d, u)[i] = "part" /\ At(d, u)[j] = "part" => i = j
    BY <1>1, Met
  <2>4. n # 1
    BY <1>1, <2>2
  <2>5. QED
    BY <2>1, <2>2, <2>3, <2>4
<1>5. \A t \in 1 .. Depth(d) : \A j : Part(d, t, j) = Here => t = n /\ j = Top.i
  BY <1>1, OnePart
<1>6. Listing'
  <2>1. \A t \in 1 .. n - 1, j \in Entries :
          At(d, t)[j] = "part" => (Part(d, t, j) \in Listed(d)' <=> j < Frame(t)'.i)
    <3>1. \A t \in 1 .. n - 1 : t \in 1 .. n /\ t \in 1 .. Depth(d) /\ t # n
      BY <1>1
    <3>2. \A t \in 1 .. n - 1, j \in Entries : Part(d, t, j) # Here
      BY <1>5, <3>1
    <3>3. QED
      BY <1>2, <3>1, <3>2 DEF Listing
  <2>2. \A p \in Listed(d)' :
          \E t \in 1 .. Depth(d), j \in Entries : p = Part(d, t, j) /\ At(d, t)[j] = "part"
    <3>1. \A p \in Listed(d) :
            \E t \in 1 .. Depth(d), j \in Entries : p = Part(d, t, j) /\ At(d, t)[j] = "part"
      BY DEF Listing
    <3>2. \E t \in 1 .. Depth(d), j \in Entries : Here = Part(d, t, j) /\ At(d, t)[j] = "part"
      BY <1>1
    <3>3. QED
      BY <3>1, <3>2
  <2>3. PICK m : m = n - 1 /\ m = Len(stack')
    BY <1>2
  <2>4. PICK q : q = Listed(d)'
    OBVIOUS
  <2>5. q = Listed(hd)'
    BY <1>2, <2>4
  <2>6. \A t \in 1 .. m, j \in Entries :
          At(d, t)'[j] = "part" => (Part(d, t, j)' \in q <=> j < Frame(t)'.i)
    BY <1>3, <2>1, <2>3, <2>4
  <2>7. ASSUME NEW p \in q
        PROVE  \E t \in 1 .. Depth(d)', j \in Entries :
                 p = Part(d, t, j)' /\ At(d, t)'[j] = "part"
    <3>1. PICK t \in 1 .. Depth(d), j \in Entries : p = Part(d, t, j) /\ At(d, t)[j] = "part"
      BY <2>2, <2>4
    <3>2. t \in 1 .. Depth(d)' /\ p = Part(d, t, j)' /\ At(d, t)'[j] = "part"
      BY <1>3, <3>1
    <3>3. QED
      BY <3>2
  <2>8. \A p \in Listed(hd)' :
          \E t \in 1 .. Depth(hd)', j \in Entries : p = Part(hd, t, j)' /\ At(hd, t)'[j] = "part"
    BY <1>2, <2>5, <2>7, ZenonT(30)
  <2>9. \A t \in 1 .. Len(stack'), j \in Entries :
          At(hd, t)'[j] = "part" => (Part(hd, t, j)' \in Listed(hd)' <=> j < Frame(t)'.i)
    BY <1>2, <2>3, <2>5, <2>6
  <2>10. QED
    BY <1>2, <2>8, <2>9 DEF Listing
<1>7. Missing'
  <2> SUFFICES ASSUME NEW t \in n .. Depth(d), NEW j \in Entries,
                      At(d, t)[j] = "part", Part(d, t, j) \notin Listed(d)'
               PROVE  t > 1 /\ \A p \in Listed(d)' : p[2] <= Lba(d, t)
    <3>1. Len(stack') + 1 = n
      BY <1>1, <1>2
    <3>2. QED
      BY <1>2, <1>3, <3>1 DEF Missing
  <2>1. t # n
    BY <1>1, <1>4
  <2>2. t \in n + 1 .. Depth(d) /\ t \in 1 .. Depth(d) /\ n < t
    BY <1>1, <2>1
  <2>3. ~Returned
    BY <2>2 DEF Missing
  <2>4. \A u \in n + 1 .. Depth(d), i \in Entries : Part(d, u, i) \notin Listed(d)
    BY <2>3 DEF Listing
  <2>5. Here[2] <= Lba(d, t)
    <3>1. Here[2] = Lba(d, n)
      BY <1>1 DEF Part
    <3>2. Lba(d, n) < Lba(d, t) /\ Lba(d, n) \in Nat /\ Lba(d, t) \in Nat
      BY <1>1, <1>4, <2>2
    <3>3. QED
      BY <3>1, <3>2
  <2>6. ASSUME NEW p \in Listed(d)
        PROVE  p[2] <= Lba(d, t)
    <3>1. PICK u \in 1 .. Depth(d), i \in Entries : p = Part(d, u, i)
      BY DEF Listing
    <3>2. u < t
      <4>1. u \notin n + 1 .. Depth(d)
        BY <2>4, <3>1
      <4>2. QED
        BY <1>1, <2>2, <4>1
    <3>3. p[2] = Lba(d, u) /\ Lba(d, u) < Lba(d, t) /\ Lba(d, u) \in Nat /\ Lba(d, t) \in Nat
      BY <1>4, <2>2, <3>1, <3>2 DEF Part
    <3>4. QED
      BY <3>3
  <2>7. t > 1
    BY <1>1, <2>2
  <2>8. QED
    BY <2>5, <2>6, <2>7
<1>8. QED
  BY <1>6, <1>7

(* A logical partition is listed, or written behind the array.             *)
LEMMA ScanLogicalStep ==
  ASSUME Came, Scanned, OneSlot, ScanLogical
  PROVE  IF phase' = phase
         THEN Scanned' /\ OneSlot' /\ why' = why /\ \A c : c # hd => Listed(c)' = Listed(c)
         ELSE phase' = "halt" /\ HaltExplained'
<1>1. PICK d, n : d = hd /\ n = Len(stack)
  OBVIOUS
<1>2. /\ stack # <<>> /\ Top.i <= TableLen /\ tables' = tables /\ hd' = hd
      /\ Entry = "part" /\ Top.lba # 0 /\ logicNo' = logicNo + 1
      /\ UNCHANGED <<base, primNo>> /\ partList' = Append(partList, <<Here, "logic", logicNo>>)
      /\ IF logicNo < MaxLogic THEN UNCHANGED <<phase, why>> ELSE Halt("overflow")
      /\ stack' = IF Full(logicNo') THEN Tail(stack) ELSE Advanced
      /\ phase = "scan"
  BY DEF ScanLogical, Scanning, diskVars
<1>3. Frames /\ Listing /\ Missing /\ Counted /\ Based
  BY DEF Scanned
<1>4. /\ d \in Disks /\ tables[d] \in Layouts[d] /\ n \in 1 .. Depth(d)
      /\ Depth(d) \in Nat \ {0} /\ n \in Nat \ {0} /\ Top = Frame(n) /\ Top.lba = Lba(d, n)
      /\ Entry = At(d, n)[Top.i] /\ Here = Part(d, n, Top.i) /\ Top.i \in Entries
      /\ TableLen \in Nat /\ Entries = 1 .. TableLen
  BY <1>1, <1>2, <1>3, AtTop
<1>5. n > 1
  <2>1. n # 1
    BY <1>2, <1>4, Met
  <2>2. QED
    BY <1>4, <2>1
<1>6. /\ IsFiniteSet(LogicListed) /\ logicNo = Cardinality(LogicListed)
      /\ logicNo \in Nat /\ MaxLogic \in Nat
  <2>1. IsFiniteSet(LogicListed) /\ logicNo = Cardinality(LogicListed)
    BY <1>3 DEF Counted
  <2>2. QED
    BY <2>1, FS_CardinalityType, BootAssumption
<1>7. CASE ~(logicNo < MaxLogic)
  <2>1. phase' = "halt" /\ why' = "overflow"
    BY <1>2, <1>7 DEF Halt
  <2>2. LinkFirst(d) /\ Cardinality(Logical(d)) > MaxLogic
    BY <1>1, <1>2, <1>7, ScanOverflow
  <2>3. LinkFirst(d)' /\ Logical(d)' = Logical(d)
    BY <1>2, <2>2 DEF LinkFirst, Logical, Present, PartsIn, TableLBA
  <2>4. HaltExplained'
    BY <1>1, <1>2, <2>1, <2>2, <2>3 DEF HaltExplained
  <2>5. QED
    BY <1>2, <2>1, <2>4
<1>8. CASE logicNo < MaxLogic
  <2> DEFINE e == <<Here, "logic", logicNo>>
  <2>1. /\ e \in Records /\ e[1] = Here /\ e[2] = "logic" /\ e[3] = logicNo
        /\ e[1][1] = d /\ e[1][2] = Top.lba
    BY <1>1, <1>2, <1>3, <1>6, NewRecord
  <2>2. SlotOf(e) = TableLen + logicNo
    BY <2>1 DEF SlotOf
  <2> HIDE DEF e
  <2>3. partList' = Append(partList, e) /\ partList \in Seq(Records)
    BY <1>2 DEF e, OneSlot
  <2>4. /\ \A c : Listed(c)' = Listed(c) \cup {p \in {e[1]} : p[1] = c}
        /\ Numbers(d)' = Numbers(d) \cup {f \in {e} : f[1][1] = d}
        /\ \A k : InSlot(d, k) \subseteq InSlot(d, k)'
    BY <2>1, <2>3, ListAppended
  <2>5. Listed(d)' = Listed(d) \cup {Here}
    BY <2>1, <2>4
  <2>6. Here \notin Listed(d)
    <3>1. n \in 1 .. n /\ At(d, n)[Top.i] = "part" /\ ~(Top.i < Frame(n).i)
      BY <1>2, <1>4
    <3>2. QED
      BY <1>1, <1>3, <1>4, <3>1 DEF Listing
  <2>7. logicNo' \in Nat /\ logicNo # MaxLogic
        /\ (IF Full(logicNo') THEN logicNo' = MaxLogic ELSE logicNo' < MaxLogic)
    BY <1>2, <1>6, <1>8 DEF Full
  <2>8. /\ Frames' /\ Listing' /\ Missing' /\ d = hd'
        /\ logicNo' = MaxLogic => Returned'
        /\ Frame(1)' = Frame(1)
        /\ stack' # <<>> /\ (Followed(1)' <=> Followed(1))
    <3>1. 1 \in 1 .. n - 1
      BY <1>4, <1>5
    <3>2. CASE Full(logicNo')
      <4>1. stack' = Tail(stack) /\ logicNo' = MaxLogic
        BY <1>2, <2>7, <3>2
      <4>2. /\ Frames' /\ Returned' /\ d = hd'
            /\ \A t \in 1 .. n - 1 : Frame(t)' = Frame(t)
            /\ stack' # <<>> /\ (Followed(1)' <=> Followed(1))
        BY <1>1, <1>2, <1>3, <1>5, <4>1, FramesPopped
      <4>3. Listing' /\ Missing'
        BY <1>1, <1>2, <1>3, <2>5, <2>7, <4>1, LastPassed
      <4>4. QED
        BY <3>1, <4>2, <4>3
    <3>3. CASE ~Full(logicNo')
      <4>1. stack' = Advanced /\ logicNo' # MaxLogic
        BY <1>2, <1>6, <2>7, <3>3
      <4>2. /\ Frames' /\ stack' # <<>> /\ d = hd'
            /\ \A t \in 1 .. n - 1 : Frame(t)' = Frame(t)
        BY <1>1, <1>2, <1>3, <4>1, FramesAdvanced
      <4>3. Followed(1)' <=> Followed(1)
        BY <1>1, <1>2, <1>3, <4>1, FollowedAdvanced
      <4>4. Listing' /\ Missing'
        <5>1. Listed(d)' = Listed(d) \cup {p \in {Here} : Entry = "part"}
          BY <1>2, <2>5
        <5>2. QED
          BY <1>1, <1>2, <1>3, <2>7, <4>1, <5>1, EntryPassed
      <4>5. QED
        BY <3>1, <4>1, <4>2, <4>3, <4>4
    <3>4. QED
      BY <3>2, <3>3
  <2>9. \A f \in Numbers(d) : SlotOf(f) # TableLen + logicNo
    <3> SUFFICES ASSUME NEW f \in Numbers(d)
                 PROVE  SlotOf(f) # TableLen + logicNo
      OBVIOUS
    <3>1. f \in Records /\ (f[2] = "prim" => f[3] < TableLen)
      BY <2>3 DEF Numbers, Range, OneSlot
    <3>2. f[3] \in Nat
      BY <3>1 DEF Records
    <3>3. f[3] < IF f[2] = "prim" THEN primNo ELSE logicNo
      BY <1>1, <1>3 DEF Counted
    <3>4. CASE f[2] = "prim"
      BY <1>4, <1>6, <3>1, <3>2, <3>4 DEF SlotOf
    <3>5. CASE f[2] # "prim"
      BY <1>4, <1>6, <3>2, <3>3, <3>5 DEF SlotOf
    <3>6. QED
      BY <3>4, <3>5
  <2>10. OneSlot'
    <3>1. e[2] # "prim" /\ e[1][2] # 0
      BY <1>2, <2>1
    <3>2. QED
      BY <2>1, <2>2, <2>3, <2>6, <2>9, <3>1, SlotAdded
  <2>11. Counted'
    <3>1. LogicListed' = LogicListed \cup {Here} /\ Here \notin LogicListed
      <4>1. Here[2] # 0
        BY <1>2, <2>1
      <4>2. LogicListed = {p \in Listed(d) : p[2] # 0}
        BY <1>1 DEF LogicListed
      <4>3. LogicListed' = {p \in Listed(d)' : p[2] # 0}
        BY <2>8 DEF LogicListed
      <4>4. QED
        BY <2>5, <2>6, <4>1, <4>2, <4>3
    <3>2. IsFiniteSet(LogicListed') /\ logicNo' = Cardinality(LogicListed')
      <4>1. /\ IsFiniteSet(LogicListed \cup {Here})
            /\ Cardinality(LogicListed \cup {Here}) = Cardinality(LogicListed) + 1
        BY <1>6, <3>1, FS_AddElement
      <4>2. QED
        BY <1>2, <1>6, <3>1, <4>1
    <3>3. \A f \in Numbers(d)' : f[3] < IF f[2] = "prim" THEN primNo ELSE logicNo'
      <4>1. ASSUME NEW f \in Numbers(d)
            PROVE  f[3] < IF f[2] = "prim" THEN primNo ELSE logicNo'
        <5>1. f \in Records
          BY <2>3 DEF Numbers, Range
        <5>2. f[3] \in Nat
          BY <5>1 DEF Records
        <5>3. f[3] < IF f[2] = "prim" THEN primNo ELSE logicNo
          BY <1>1, <1>3 DEF Counted
        <5>4. CASE f[2] = "prim"
          BY <5>3, <5>4
        <5>5. CASE f[2] # "prim"
          BY <1>2, <1>6, <5>2, <5>3, <5>5
        <5>6. QED
          BY <5>4, <5>5
      <4>2. e[3] < logicNo'
        BY <1>2, <1>6, <2>1
      <4>3. QED
        BY <2>1, <2>4, <4>1, <4>2
    <3>4. /\ primNo \in 0 .. TableLen - 1 /\ (primNo > 0 => InSlot(d, 0) # {})
          /\ MbrPassed
      BY <1>1, <1>2, <1>3 DEF Counted, MbrPassed
    <3>5. MbrPassed'
      BY <1>2, <2>8, <3>4 DEF MbrPassed
    <3>6. primNo > 0 => InSlot(d, 0)' # {}
      BY <2>4, <3>4
    <3>7. logicNo' <= MaxLogic
      BY <1>6, <2>7
    <3>8. QED
      BY <1>2, <2>8, <3>2, <3>3, <3>4, <3>5, <3>6, <3>7 DEF Counted, MbrPassed
  <2>12. Based'
    <3>1. Behind(d)' = Behind(d)
      BY <1>2, SameDisks
    <3>2. QED
      BY <1>1, <1>2, <1>3, <2>8, <3>1 DEF Based
  <2>13. \A c : c # hd => Listed(c)' = Listed(c)
    BY <1>1, <2>1, <2>4
  <2>14. QED
    BY <1>2, <1>8, <2>8, <2>10, <2>11, <2>12, <2>13 DEF Scanned
<1>9. QED
  BY <1>7, <1>8

-----------------------------------------------------------------------------
(* The logical partitions listed are those that Reached names: what comes  *)
(* before one of them is listed with it, and what is missed has them all   *)
(* before it.                                                              *)
LEMMA ListedReached ==
  ASSUME NEW d \in Disks, tables[d] \in Layouts[d], ~Behind(d),
         NEW L, IsFiniteSet(L), L \subseteq Logical(d), Cardinality(L) <= MaxLogic,
         \A q \in Logical(d) \ L :
           Cardinality(L) = MaxLogic /\ \A p \in L : p[2] <= q[2]
  PROVE  L = Reached(d)
<1> DEFINE before(p) == {q \in Logical(d) : q[2] < p[2]}
<1>1. /\ IsFiniteSet(Logical(d))
      /\ \A p \in Logical(d) : p \in Present(d) /\ p[2] \in Nat /\ p[2] # 0
      /\ \A p : p \in Present(d) <=>
           \E t \in 1 .. Depth(d), j \in Entries : p = Part(d, t, j) /\ At(d, t)[j] = "part"
  <2>1. /\ IsFiniteSet(Logical(d)) /\ \A p \in Present(d) : p[2] \in Nat
        /\ \A p : p \in Present(d) <=>
             \E t \in 1 .. Depth(d), j \in Entries : p = Part(d, t, j) /\ At(d, t)[j] = "part"
    BY PresentParts
  <2>2. QED
    BY <2>1 DEF Logical
<1>2. Cardinality(L) \in Nat /\ MaxLogic \in Nat
  BY FS_CardinalityType, BootAssumption
<1>3. \A p : before(p) \in SUBSET Logical(d) /\ IsFiniteSet(before(p))
  <2> SUFFICES ASSUME NEW p
               PROVE  before(p) \in SUBSET Logical(d) /\ IsFiniteSet(before(p))
    OBVIOUS
  <2>1. before(p) \in SUBSET Logical(d)
    OBVIOUS
  <2> HIDE DEF before
  <2>2. QED
    BY <1>1, <2>1, FS_Subset
<1>4. ASSUME NEW p \in L
      PROVE  Cardinality(before(p)) < MaxLogic
  <2>1. before(p) \in SUBSET (L \ {p})
    BY <1>1
  <2> HIDE DEF before
  <2>2. IsFiniteSet(L \ {p}) /\ Cardinality(L \ {p}) = Cardinality(L) - 1
    BY FS_RemoveElement
  <2>3. Cardinality(before(p)) <= Cardinality(L \ {p})
    BY <2>1, <2>2, FS_Subset
  <2>4. Cardinality(before(p)) \in Nat
    BY <1>3, FS_CardinalityType
  <2>5. QED
    BY <1>2, <2>2, <2>3, <2>4
<1>5. ASSUME NEW p \in Logical(d), p \notin L
      PROVE  ~(Cardinality(before(p)) < MaxLogic)
  <2>1. L \in SUBSET before(p)
    <3> SUFFICES ASSUME NEW l \in L
                 PROVE  l[2] < p[2]
      OBVIOUS
    <3>1. PICK t \in 1 .. Depth(d), j \in Entries : p = Part(d, t, j) /\ At(d, t)[j] = "part"
      BY <1>1
    <3>2. PICK u \in 1 .. Depth(d), i \in Entries : l = Part(d, u, i) /\ At(d, u)[i] = "part"
      BY <1>1
    <3>3. l[2] <= p[2] /\ l[2] \in Nat /\ p[2] \in Nat /\ l[2] # 0 /\ p[2] # 0
      BY <1>1, <1>5
    <3>4. ASSUME l[2] = p[2]
          PROVE  FALSE
      <4>1. Lba(d, u) = Lba(d, t)
        BY <3>1, <3>2, <3>4 DEF Part
      <4>2. /\ \A w \in 1 .. Depth(d) : Lba(d, w) \in Nat /\ (Lba(d, w) = 0 <=> w = 1)
            /\ \A w, v \in 1 .. Depth(d) : w < v => Lba(d, w) < Lba(d, v)
            /\ Depth(d) \in Nat
        BY Met
      <4>3. u = t /\ t # 1
        <5>1. u \in Int /\ t \in Int /\ Lba(d, u) \in Nat /\ Lba(d, t) \in Nat
          BY <4>2
        <5>2. ~(u < t) /\ ~(t < u)
          BY <4>1, <4>2, <5>1
        <5>3. t # 1
          BY <3>1, <3>3, <4>2 DEF Part
        <5>4. QED
          BY <5>1, <5>2, <5>3
      <4>4. i = j
        <5>1. t \in 2 .. Depth(d)
          BY <4>2, <4>3
        <5>2. \A w \in 2 .. Depth(d), x, y \in Entries :
                At(d, w)[x] = "part" /\ At(d, w)[y] = "part" => x = y
          BY Met
        <5>3. QED
          BY <3>1, <3>2, <4>3, <5>1, <5>2
      <4>5. QED
        BY <1>5, <3>1, <3>2, <4>3, <4>4
    <3>5. QED
      BY <3>3, <3>4
  <2> HIDE DEF before
  <2>2. Cardinality(L) <= Cardinality(before(p))
    BY <1>3, <2>1, FS_Subset
  <2>3. Cardinality(L) = MaxLogic
    BY <1>5
  <2>4. Cardinality(before(p)) \in Nat
    BY <1>3, FS_CardinalityType
  <2>5. QED
    BY <1>2, <2>2, <2>3, <2>4
<1>6. Reached(d) = {p \in Logical(d) : Cardinality(before(p)) < MaxLogic}
  BY DEF Reached
<1> HIDE DEF before
<1>7. QED
  BY <1>4, <1>5, <1>6

(* When the scan of a disk is over, the list has what it should.           *)
LEMMA ScanDone ==
  ASSUME Came, Scanned, stack = <<>>
  PROVE  Listed(hd) = Want(hd)
<1>1. PICK d : d = hd /\ d \in Disks /\ tables[d] \in Layouts[d]
  BY DEF Came
<1>2. Listing /\ Missing /\ Counted
  BY DEF Scanned
<1>3. /\ Depth(d) \in Nat \ {0}
      /\ \A t \in 1 .. Depth(d) : Lba(d, t) \in Nat /\ (Lba(d, t) = 0 <=> t = 1)
  BY <1>1, Met
<1>4. \A t \in 1 .. Depth(d), j \in Entries :
        At(d, t)[j] = "part" /\ Part(d, t, j) \notin Listed(d) =>
          t > 1 /\ logicNo = MaxLogic /\ \A p \in Listed(d) : p[2] <= Lba(d, t)
  <2>1. Returned /\ Len(stack) + 1 = 1
    BY DEF Returned
  <2>2. QED
    BY <1>1, <1>2, <2>1 DEF Missing
<1>5. \A p \in Listed(d) :
        \E t \in 1 .. Depth(d), j \in Entries : p = Part(d, t, j) /\ At(d, t)[j] = "part"
  BY <1>1, <1>2 DEF Listing
<1>6. \A p : p \in Present(d) \ Logical(d) <=>
        \E j \in Entries : p = Part(d, 1, j) /\ At(d, 1)[j] = "part"
  BY <1>1, PresentParts
<1>7. Present(d) \ Logical(d) \subseteq Listed(d)
  <2>1. 1 \in 1 .. Depth(d) /\ ~(1 > 1)
    BY <1>3
  <2>2. \A j \in Entries : At(d, 1)[j] = "part" => Part(d, 1, j) \in Listed(d)
    BY <1>4, <2>1
  <2>3. QED
    BY <1>6, <2>2
<1>8. CASE Behind(d)
  <2>1. Listed(d) \subseteq Present(d) \ Logical(d)
    <3> SUFFICES ASSUME NEW p \in Listed(d)
                 PROVE  p \in Present(d) \ Logical(d)
      OBVIOUS
    <3>1. PICK t \in 1 .. Depth(d), j \in Entries : p = Part(d, t, j) /\ At(d, t)[j] = "part"
      BY <1>5
    <3>2. t = 1
      <4>1. t > 1 => At(d, t)[j] = "none"
        BY <1>8 DEF At
      <4>2. QED
        BY <1>3, <3>1, <4>1
    <3>3. QED
      BY <1>6, <3>1, <3>2
  <2>2. QED
    BY <1>1, <1>7, <1>8, <2>1 DEF Want
<1>9. CASE ~Behind(d)
  <2> DEFINE L == {p \in Listed(d) : p[2] # 0}
  <2>1. L = LogicListed
    BY <1>1 DEF LogicListed
  <2>2. /\ IsFiniteSet(L) /\ logicNo = Cardinality(L) /\ Cardinality(L) <= MaxLogic
    BY <1>2, <2>1 DEF Counted
  <2>3. \A p : p \in Present(d) <=>
          \E t \in 1 .. Depth(d), j \in Entries : p = Part(d, t, j) /\ At(d, t)[j] = "part"
    BY <1>1, <1>9, PresentParts
  <2>4. Listed(d) \subseteq Present(d)
    BY <1>5, <2>3
  <2>5. L \subseteq Logical(d)
    BY <2>4 DEF Logical
  <2>6. ASSUME NEW q \in Logical(d) \ L
        PROVE  Cardinality(L) = MaxLogic /\ \A p \in L : p[2] <= q[2]
    <3>1. q \in Present(d) /\ q \notin Listed(d)
      BY <2>6 DEF Logical
    <3>2. PICK t \in 1 .. Depth(d), j \in Entries : q = Part(d, t, j) /\ At(d, t)[j] = "part"
      BY <2>3, <3>1
    <3>3. q[2] = Lba(d, t)
      BY <3>2 DEF Part
    <3>4. QED
      BY <1>4, <2>2, <3>1, <3>2, <3>3
  <2>7. L = Reached(d)
    <3> HIDE DEF L
    <3>1. QED
      BY <1>1, <1>9, <2>2, <2>5, <2>6, ListedReached
  <2>8. Listed(d) = (Present(d) \ Logical(d)) \cup L
    <3>1. \A p \in Present(d) \ Logical(d) : p \in Listed(d)
      BY <1>7
    <3>2. \A p \in Listed(d) : p \in Present(d) /\ (p[2] = 0 => p \notin Logical(d))
      BY <2>4 DEF Logical
    <3>3. QED
      BY <3>1, <3>2
  <2>9. QED
    BY <1>1, <1>9, <2>7, <2>8 DEF Want
<1>10. QED
  BY <1>8, <1>9

(* Nothing of the disk is listed when its scan begins.                     *)
Begun ==
  /\ Came /\ stack = <<[lba |-> 0, i |-> 1]>> /\ Listed(hd) = {}
  /\ primNo = 0 /\ logicNo = 0 /\ base = IF Behind(hd) THEN ExtStart ELSE 0

LEMMA ScanBegins == Begun => Scanned
<1> SUFFICES ASSUME Begun PROVE Scanned
  OBVIOUS
<1>1. PICK d : d = hd /\ d \in Disks /\ tables[d] \in Layouts[d]
  BY DEF Begun, Came
<1>2. /\ Depth(d) \in Nat \ {0} /\ Lba(d, 1) = 0
      /\ At(d, 1) = tables[d][1]
  <2>1. /\ Depth(d) \in Nat \ {0}
        /\ \A t \in 1 .. Depth(d) : Lba(d, t) = 0 <=> t = 1
        /\ At(d, 1) = tables[d][1]
    BY <1>1, Met
  <2>2. 1 \in 1 .. Depth(d)
    BY <2>1
  <2>3. QED
    BY <2>1, <2>2
<1>3. /\ stack \in Seq(FrameType) /\ Len(stack) = 1 /\ stack # <<>>
      /\ Frame(1) = [lba |-> 0, i |-> 1]
  <2>1. [lba |-> 0, i |-> 1] \in FrameType
    BY FrameNew
  <2>2. PICK f : f = [lba |-> 0, i |-> 1]
    OBVIOUS
  <2>3. stack = <<f>> /\ f \in FrameType
    BY <2>1, <2>2 DEF Begun
  <2>4. QED
    BY <2>2, <2>3 DEF Frame
<1>4. Frame(1).lba = 0 /\ Frame(1).i = 1
  BY <1>3
<1>5. Frames
  <2>1. \A t \in 1 .. Len(stack) : t = 1
    BY <1>3
  <2>2. ~\E t : t \in 1 .. Len(stack) - 1
    BY <1>3
  <2>3. Len(stack) <= Depth(d)
    BY <1>2, <1>3
  <2>4. QED
    BY <1>1, <1>2, <1>3, <1>4, <2>1, <2>2, <2>3 DEF Frames
<1>6. ~Returned /\ ~Followed(1)
  <2>1. ~\E j : j \in 1 .. Frame(1).i - 1
    BY <1>4
  <2>2. ~Followed(1)
    BY <2>1 DEF Followed
  <2>3. QED
    BY <1>3, <2>2 DEF Returned
<1>7. Listed(d) = {}
  BY <1>1 DEF Begun
<1>8. Listing
  <2>1. \A t \in 1 .. Len(stack), j \in Entries : ~(j < Frame(t).i)
    <3>1. \A j \in Entries : ~(j < 1)
      BY BootAssumption DEF Entries
    <3>2. QED
      BY <1>3, <1>4, <3>1
  <2>2. QED
    BY <1>1, <1>7, <2>1 DEF Listing
<1>9. Missing
  BY <1>6 DEF Missing
<1>10. Counted
  <2>1. LogicListed = {} /\ Numbers(d) = {}
    BY <1>1, <1>7 DEF LogicListed, Listed, Numbers
  <2>2. IsFiniteSet(LogicListed) /\ Cardinality(LogicListed) = 0
    BY <2>1, FS_EmptySet
  <2>3. MaxLogic \in Nat \ {0} /\ TableLen \in Nat \ {0}
    BY BootAssumption
  <2>4. primNo = 0 /\ logicNo = 0 /\ primNo \in 0 .. TableLen - 1
    BY <2>3 DEF Begun
  <2>5. primNo < Frame(1).i /\ \A j : j \notin 1 .. primNo
    BY <1>4, <2>4
  <2>6. logicNo <= MaxLogic /\ logicNo # MaxLogic /\ ~(primNo > 0)
    BY <2>3, <2>4
  <2>7. QED
    BY <1>1, <2>1, <2>2, <2>4, <2>5, <2>6 DEF Counted
<1>11. Based
  BY <1>3, <1>6 DEF Based, Begun
<1>12. QED
  BY <1>5, <1>8, <1>9, <1>10, <1>11 DEF Scanned

(* The same of the state that a step reaches.                              *)
LEMMA ScanBeginsNext == Begun' => Scanned'
  BY ScanBegins, PTL

(* The scan of the first disk begins at the power-on.                      *)
LEMMA ScanInit == Init => ScanInv
<1> SUFFICES ASSUME Init PROVE ScanInv
  OBVIOUS
<1>1. Came
  BY BootAssumption DEF Init, Came, Disks
<1>2. /\ phase = "scan" /\ hd = 1 /\ partList = <<>> /\ why = "none"
  BY DEF Init
<1>3. Range(partList) = {} /\ partList \in Seq(Records) /\ DOMAIN partList = {}
  BY <1>2 DEF Range
<1>4. \A d : Listed(d) = {}
  BY <1>3 DEF Listed
<1>5. ~Behind(1)
  BY DEF Behind
<1>6. Scanned
  BY <1>1, <1>2, <1>4, <1>5, ScanBegins DEF Init, Begun
<1>7. OneSlot
  BY <1>3 DEF OneSlot, IsInjective
<1>8. HaltExplained
  BY <1>2 DEF HaltExplained
<1>9. \A d \in Disks : ~(d < hd)
  BY <1>2, BootAssumption DEF Disks
<1>10. QED
  BY <1>1, <1>2, <1>4, <1>6, <1>7, <1>8, <1>9 DEF ScanInv

(* A step of the scan that ends neither a disk nor the kernel.             *)
LEMMA ScanGoesOn ==
  ASSUME ScanInv, phase = "scan", phase' = "scan", why' = why, hd' = hd, tables' = tables,
         Scanned', OneSlot', \A c : c # hd => Listed(c)' = Listed(c)
  PROVE  ScanInv'
<1>1. Came'
  BY DEF ScanInv, Came
<1>2. why' = "none" /\ HaltExplained'
  BY DEF ScanInv, HaltExplained
<1>3. hd \in Nat /\ Disks \subseteq Nat
  BY BootAssumption DEF ScanInv, Came, Disks
<1>4. PICK h : h = hd
  OBVIOUS
<1>5. \A d \in Disks : d < h => Listed(d)' = Want(d)'
  <2>1. \A d \in Disks : d < h => d # h
    BY <1>3, <1>4
  <2>2. \A d : Want(d)' = Want(d)
    BY SameDisks
  <2>3. QED
    BY <1>4, <2>1, <2>2 DEF ScanInv
<1>6. \A d \in Disks : d > h => Listed(d)' = {}
  <2>1. \A d \in Disks : d > h => d # h
    BY <1>3, <1>4
  <2>2. QED
    BY <1>4, <2>1 DEF ScanInv
<1>7. QED
  BY <1>1, <1>2, <1>4, <1>5, <1>6 DEF ScanInv

(* OneSlot speaks of the list only.                                        *)
LEMMA SameSlotsOnce ==
  ASSUME OneSlot, partList' = partList
  PROVE  OneSlot'
<1>1. /\ \A d, k : InSlot(d, k)' = InSlot(d, k)
      /\ \A e : SlotOf(e)' = SlotOf(e)
  BY SameList DEF SlotOf
<1>2. QED
  BY <1>1 DEF OneSlot

(* The scan of a disk is over; the next disk's begins, or FS_Init.         *)
LEMMA ScanDiskNext ==
  ASSUME ScanInv, ScanDisk
  PROVE  ScanInv'
<1>1. PICK d : d = hd /\ d \in Disks
  BY DEF ScanInv, Came
<1>2. /\ phase = "scan" /\ stack = <<>> /\ primNo' = 0 /\ logicNo' = 0
      /\ UNCHANGED <<tables, base, partList, why>>
      /\ IF d < NDisks
         THEN hd' = d + 1 /\ stack' = <<[lba |-> 0, i |-> 1]>> /\ phase' = "scan"
         ELSE hd' = 1 /\ phase' = "fs"
  BY <1>1 DEF ScanDisk, diskVars
<1>3. Came /\ Scanned /\ OneSlot /\ why = "none"
  BY <1>2 DEF ScanInv
<1>4. NDisks \in Nat \ {0} /\ d \in 1 .. NDisks /\ Disks = 1 .. NDisks
  BY <1>1, BootAssumption DEF Disks
<1>5. \A c : /\ Listed(c)' = Listed(c) /\ Want(c)' = Want(c)
             /\ Behind(c)' = Behind(c)
  BY <1>2, SameDisks, SameList
<1>6. Listed(d) = Want(d)
  BY <1>1, <1>2, <1>3, ScanDone
<1>7. \A c \in Disks : c <= d => Listed(c) = Want(c)
  <2>1. \A c \in Disks : c <= d => c < d \/ c = d
    BY <1>4
  <2>2. QED
    BY <1>1, <1>2, <1>6, <2>1 DEF ScanInv
<1>8. OneSlot' /\ why' = "none" /\ HaltExplained'
  BY <1>2, <1>3, SameSlotsOnce DEF HaltExplained
<1>9. CASE d < NDisks
  <2>1. hd' = d + 1 /\ stack' = <<[lba |-> 0, i |-> 1]>> /\ phase' = "scan" /\ d + 1 \in Disks
    BY <1>2, <1>4, <1>9
  <2>2. Came'
    BY <1>2, <1>3, <2>1 DEF Came
  <2>3. PICK h : h = d + 1 /\ h = hd' /\ h \in Disks
    BY <2>1
  <2>4. Listed(h) = {}
    BY <1>1, <1>2, <1>4, <2>3 DEF ScanInv
  <2>5. base = IF Behind(h) THEN ExtStart ELSE 0
    <3>1. Behind(h) <=> Behind(d) \/ Extended(d)
      <4>1. \A c : c \in 1 .. h - 1 <=> c \in 1 .. d - 1 \/ c = d
        BY <1>4, <2>3
      <4>2. QED
        BY <4>1 DEF Behind
    <3>2. base = IF Behind(d) \/ Extended(d) THEN ExtStart ELSE 0
      BY <1>1, <1>2, <1>3 DEF Scanned, Based
    <3>3. QED
      BY <3>1, <3>2
  <2>6. Begun'
    BY <1>2, <1>5, <2>1, <2>2, <2>3, <2>4, <2>5 DEF Begun
  <2>7. Scanned'
    BY <2>6, ScanBeginsNext
  <2>8. \A c \in Disks : c < h => Listed(c)' = Want(c)'
    <3>1. \A c \in Disks : c < h => c <= d
      BY <1>4, <2>3
    <3>2. QED
      BY <1>5, <1>7, <3>1
  <2>9. \A c \in Disks : c > h => Listed(c)' = {}
    <3>1. \A c \in Disks : c > h => c > d
      BY <1>4, <2>3
    <3>2. QED
      BY <1>1, <1>2, <1>5, <3>1 DEF ScanInv
  <2>10. QED
    BY <1>8, <2>1, <2>2, <2>3, <2>7, <2>8, <2>9 DEF ScanInv
<1>10. CASE ~(d < NDisks)
  <2>1. hd' = 1 /\ phase' = "fs" /\ d = NDisks /\ 1 \in Disks
    BY <1>2, <1>4, <1>10
  <2>2. Came'
    BY <1>2, <1>3, <2>1 DEF Came
  <2>3. \A c \in Disks : Listed(c)' = Want(c)'
    <3>1. \A c \in Disks : c <= d
      BY <1>4, <2>1
    <3>2. QED
      BY <1>5, <1>7, <3>1
  <2>4. QED
    BY <1>8, <2>1, <2>2, <2>3 DEF ScanInv
<1>11. QED
  BY <1>9, <1>10

(* The list is complete, and stays so.                                     *)
LEMMA AfterScan ==
  ASSUME ScanInv, phase \in {"fs", "format", "mount", "up"},
         UNCHANGED <<tables, partList>>, hd' \in Disks,
         \/ phase' \in {"fs", "format", "mount", "up"} /\ why' = why
         \/ phase' = "halt" /\ HaltExplained'
  PROVE  ScanInv'
<1>1. Came' /\ OneSlot' /\ why = "none"
  BY SameSlotsOnce DEF ScanInv, Came
<1>2. \A c : Listed(c)' = Listed(c) /\ Want(c)' = Want(c)
  BY SameDisks, SameList
<1>3. CASE phase' = "halt"
  BY <1>1, <1>3 DEF ScanInv
<1>4. CASE phase' # "halt"
  <2>1. why' = "none" /\ HaltExplained' /\ phase' \in {"fs", "format", "mount", "up"}
    BY <1>1, <1>4 DEF HaltExplained
  <2>2. QED
    BY <1>1, <1>2, <1>4, <2>1 DEF ScanInv
<1>5. QED
  BY <1>3, <1>4

(* There is no root only if no primary partition was there to be listed.   *)
LEMMA NothingToMount ==
  ASSUME ScanInv, MountNothing
  PROVE  Present(1) = Logical(1)
<1>1. phase = "mount" /\ InSlot(1, 0) = {}
  BY DEF MountNothing
<1>2. 1 \in Disks
  BY BootAssumption DEF Disks
<1>3. Listed(1) = Want(1) /\ OneSlot
  BY <1>1, <1>2 DEF ScanInv
<1>4. ASSUME NEW p \in Present(1), p \notin Logical(1)
      PROVE  FALSE
  <2>1. p \in Listed(1) /\ p[2] = 0
    BY <1>3, <1>4 DEF Want, Logical
  <2>2. PICK e \in Range(partList) : e[1] = p /\ e[1][1] = 1
    BY <2>1 DEF Listed
  <2>3. InSlot(1, 0) # {}
    BY <1>3, <2>1, <2>2 DEF OneSlot
  <2>4. QED
    BY <1>1, <2>3
<1>5. QED
  BY <1>4 DEF Logical

(* After a power failure the scan begins again, with an empty list.        *)
LEMMA ScanPowerFail ==
  ASSUME ScanInv, PowerFail
  PROVE  ScanInv'
<1>1. /\ phase' = "scan" /\ hd' = 1 /\ stack' = <<[lba |-> 0, i |-> 1]>>
      /\ base' = 0 /\ primNo' = 0 /\ logicNo' = 0 /\ partList' = <<>> /\ why' = "none"
      /\ tables' = tables
  BY DEF PowerFail
<1>2. Came' /\ 1 \in Disks
  BY <1>1, BootAssumption DEF ScanInv, Came, Disks
<1>3. Range(partList') = {} /\ partList' \in Seq(Records) /\ DOMAIN partList' = {}
  BY <1>1 DEF Range
<1>4. \A d : Listed(d)' = {}
  BY <1>3 DEF Listed
<1>5. ~Behind(1)'
  BY DEF Behind
<1>6. Begun'
  BY <1>1, <1>2, <1>4, <1>5 DEF Begun
<1>7. Scanned'
  BY <1>6, ScanBeginsNext
<1>8. OneSlot'
  BY <1>3 DEF OneSlot, IsInjective
<1>9. HaltExplained'
  BY <1>1 DEF HaltExplained
<1>10. \A d \in Disks : ~(d < 1)
  BY BootAssumption DEF Disks
<1>11. QED
  BY <1>1, <1>2, <1>4, <1>7, <1>8, <1>9, <1>10 DEF ScanInv

(* Nothing happens.                                                        *)
LEMMA ScanIdle ==
  ASSUME ScanInv, UNCHANGED vars
  PROVE  ScanInv'
<1>1. UNCHANGED <<tables, phase, hd, stack, base, primNo, logicNo, partList, why>>
  BY DEF vars, diskVars, scanVars
<1>2. Came' /\ HaltExplained'
  <2>1. Came'
    BY <1>1 DEF ScanInv, Came
  <2>2. PICK d : d = hd /\ d = hd'
    BY <1>1
  <2>3. /\ Present(1)' = Present(1) /\ Logical(1)' = Logical(1)
        /\ Logical(d)' = Logical(d) /\ LinkFirst(d)' = LinkFirst(d)
    BY <1>1, SameParts
  <2>4. QED
    BY <1>1, <2>1, <2>2, <2>3 DEF ScanInv, HaltExplained
<1>3. OneSlot => OneSlot'
  BY <1>1, SameSlotsOnce
<1>4. \A c : Listed(c)' = Listed(c) /\ Want(c)' = Want(c)
  BY <1>1, SameDisks, SameList
<1>5. ASSUME Scanned
      PROVE  Scanned'
  <2>1. /\ \A t : Frame(t)' = Frame(t) /\ At(hd, t)' = At(hd, t) /\ Lba(hd, t)' = Lba(hd, t)
        /\ \A t, j : Part(hd, t, j)' = Part(hd, t, j)
        /\ Listed(hd)' = Listed(hd) /\ Depth(hd)' = Depth(hd) /\ Behind(hd)' = Behind(hd)
        /\ Extended(hd)' = Extended(hd)
    <3>1. PICK d : d = hd /\ d = hd'
      BY <1>1
    <3>2. \A t : Frame(t)' = Frame(t)
      BY <1>1 DEF Frame
    <3>3. QED
      BY <1>1, <1>4, <3>1, <3>2, SameDisks
  <2>2. Followed(1)' <=> Followed(1)
    BY <1>1, <2>1 DEF Followed
  <2>3. Returned' <=> Returned
    BY <1>1, <2>1 DEF Returned, Followed
  <2>4. Frames'
    BY <1>1, <1>5, <2>1 DEF Scanned, Frames
  <2>5. Listing'
    BY <1>1, <1>5, <2>1, <2>3 DEF Scanned, Listing
  <2>6. Missing'
    BY <1>1, <1>5, <2>1, <2>3 DEF Scanned, Missing
  <2>7. Counted'
    <3>1. stack' # <<>> => MbrPassed'
      BY <1>1, <1>5, <2>1 DEF Scanned, Counted, MbrPassed
    <3>2. QED
      BY <1>1, <1>5, <2>3, <3>1, CountsKept DEF Scanned, Counted
  <2>8. Based'
    BY <1>1, <1>5, <2>1, <2>2 DEF Scanned, Based
  <2>9. QED
    BY <2>4, <2>5, <2>6, <2>7, <2>8 DEF Scanned
<1>6. QED
  BY <1>1, <1>2, <1>3, <1>4, <1>5 DEF ScanInv

(* ScanInv is inductive.                                                   *)
LEMMA ScanNext ==
  ASSUME ScanInv, [Next]_vars
  PROVE  ScanInv'
<1>1. CASE ScanEmpty \/ ScanExtended \/ ScanReturn
  <2>1. /\ phase = "scan" /\ UNCHANGED <<phase, why, hd, tables, partList>>
    BY <1>1 DEF ScanEmpty, ScanExtended, ScanReturn, Scanning, diskVars
  <2>2. Came /\ Scanned /\ OneSlot
    BY <2>1 DEF ScanInv
  <2>3. Scanned'
    BY <1>1, <2>2, ScanEmptyStep, ScanExtendedStep, ScanReturnStep
  <2>4. OneSlot' /\ \A c : Listed(c)' = Listed(c)
    BY <2>1, <2>2, SameSlotsOnce, SameList
  <2>5. QED
    BY <2>1, <2>3, <2>4, ScanGoesOn
<1>2. CASE ScanPrimary \/ ScanLogical
  <2>1. phase = "scan" /\ UNCHANGED <<hd, tables>>
    BY <1>2 DEF ScanPrimary, ScanLogical, Scanning, diskVars
  <2>2. Came /\ Scanned /\ OneSlot
    BY <2>1 DEF ScanInv
  <2>3. IF phase' = phase
        THEN Scanned' /\ OneSlot' /\ why' = why /\ \A c : c # hd => Listed(c)' = Listed(c)
        ELSE phase' = "halt" /\ HaltExplained'
    BY <1>2, <2>2, ScanPrimaryStep, ScanLogicalStep
  <2>4. CASE phase' = phase
    BY <2>1, <2>3, <2>4, ScanGoesOn
  <2>5. CASE phase' # phase
    BY <2>1, <2>2, <2>3, <2>5 DEF ScanInv, Came
  <2>6. QED
    BY <2>4, <2>5
<1>3. CASE ScanDisk
  BY <1>3, ScanDiskNext
<1>4. CASE FsSkip \/ FormatBegin \/ FormatWrite \/ FsDisk \/ Mount
  <2>1. hd \in Disks /\ NDisks \in Nat
    BY BootAssumption DEF ScanInv, Came
  <2>2. /\ phase \in {"fs", "format", "mount"} /\ phase' \in {"fs", "format", "mount", "up"}
        /\ UNCHANGED <<tables, partList, why>> /\ hd' \in Disks
    BY <1>4, <2>1 DEF FsSkip, FormatBegin, FormatWrite, FsDisk, Mount, diskVars, scanVars, Disks
  <2>3. QED
    BY <2>2, AfterScan
<1>5. CASE FormatNoMemory \/ MountNoMemory
  <2>1. /\ phase \in {"format", "mount"} /\ phase' = "halt"
        /\ UNCHANGED <<tables, partList, hd>> /\ hd \in Disks
        /\ why' \in {"fs.c:108", "sys_malloc failed!"}
    BY <1>5 DEF FormatNoMemory, MountNoMemory, Halt, diskVars, scanVars, ScanInv, Came
  <2>2. HaltExplained'
    BY <2>1 DEF HaltExplained
  <2>3. QED
    BY <2>1, <2>2, AfterScan
<1>6. CASE MountNothing
  <2>1. /\ phase = "mount" /\ phase' = "halt" /\ why' = "no sdb1"
        /\ UNCHANGED <<tables, partList, hd>> /\ hd \in Disks
    BY <1>6 DEF MountNothing, Halt, diskVars, scanVars, ScanInv, Came
  <2>2. Present(1)' = Logical(1)'
    <3>1. Present(1)' = Present(1) /\ Logical(1)' = Logical(1)
      BY <2>1, SameParts
    <3>2. Present(1) = Logical(1)
      BY <1>6, NothingToMount
    <3>3. QED
      BY <3>1, <3>2
  <2>3. HaltExplained'
    BY <2>1, <2>2 DEF HaltExplained
  <2>4. QED
    BY <2>1, <2>3, AfterScan
<1>7. CASE PowerFail
  BY <1>7, ScanPowerFail
<1>8. CASE UNCHANGED vars
  BY <1>8, ScanIdle
<1>9. QED
  BY <1>1, <1>2, <1>3, <1>4, <1>5, <1>6, <1>7, <1>8 DEF Next, Kernel

(* The scan keeps to the chain of tables and to the list: the invariant    *)
(* that the two theorems below rest on.                                    *)
THEOREM ScanInvariance == Spec => []ScanInv
<1>1. ScanInv /\ [Next]_vars => ScanInv'
  BY ScanNext
<1>2. QED
  BY <1>1, ScanInit, PTL DEF Spec

(* After the scan the list of partitions is what it should be, whatever    *)
(* tables the disks have: each primary partition once, the first logical   *)
(* ones of each disk that no extended partition of an earlier disk hides,  *)
(* no two of a disk in the same slot.                                      *)
THEOREM ScanExactHolds == Spec => []ScanExact
<1>1. ScanInv => ScanExact
  <2> SUFFICES ASSUME ScanInv, phase \in {"fs", "format", "mount", "up"}
               PROVE  /\ \A d \in Disks : Listed(d) = Want(d)
                      /\ IsInjective(partList)
                      /\ \A e, f \in Range(partList) :
                           e # f => e[1][1] # f[1][1] \/ SlotOf(e) # SlotOf(f)
    BY DEF ScanExact, Want, Behind
  <2>1. OneSlot /\ \A d \in Disks : Listed(d) = Want(d)
    BY DEF ScanInv
  <2>2. QED
    BY <2>1 DEF OneSlot
<1>2. QED
  BY <1>1, ScanInvariance, PTL

(* The kernel stops during its start only where it must.                   *)
THEOREM HaltExplainedHolds == Spec => []HaltExplained
<1>1. ScanInv => HaltExplained
  BY DEF ScanInv
<1>2. QED
  BY <1>1, ScanInvariance, PTL
=============================================================================
