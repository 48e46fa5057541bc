-------------------------------- MODULE Boot --------------------------------
(***************************************************************************)
(* From the power-on to the mounted root: Ide_Init scans the partition     *)
(* tables of the second disk of every channel (kernel/device/ide.c),       *)
(* FS_Init formats the partitions that have no super block and mounts sdb1 *)
(* (fs/fs.c).  The power may fail between any two writes.  One step is one *)
(* entry of a partition table, one slot of a disk or one write.            *)
(* A partition is <<disk, sector of its table, entry>>.                    *)
(***************************************************************************)
EXTENDS Layout, Sequences, FiniteSets, FiniteSetsExt, SequencesExt

CONSTANTS
  NDisks,    \* the disks scanned, one per channel: disk 1 is sdb
  TableLen,  \* entries of a partition table, and MAX_MAIN_PART_NUM (4)
  MaxLogic,  \* MAX_LOGIN_PART_NUM (8)
  Layouts,   \* per disk: the partition tables it may come with
  ExtStart,  \* where the extended partition of a disk starts
  Sizes,     \* sizes of the partitions, in sectors
  MaxBoots   \* bound: how often the power comes back

Disks == 1 .. NDisks
Entries == 1 .. TableLen
EntryType == {"none", "part", "ext"}

(* A disk: its tables, the MBR first and then the chain of the EBRs.       *)
Tables == [Entries -> EntryType]

ASSUME BootAssumption ==
  /\ NDisks \in Nat \ {0} /\ TableLen \in Nat \ {0} /\ MaxLogic \in Nat \ {0}
  /\ ExtStart \in Nat \ {0} /\ MaxBoots \in Nat
  /\ \A n \in Sizes : n \in Nat /\ LargeEnough(n)
  /\ \A d \in Disks : \A tabs \in Layouts[d] :
       /\ tabs \in Seq(Tables) \ {<<>>} /\ Len(tabs) < ExtStart
       /\ \A t \in DOMAIN tabs :   \* a table has at most one link to another
            Cardinality({i \in Entries : tabs[t][i] = "ext"}) = IF t < Len(tabs) THEN 1 ELSE 0

(* An EBR describes one logical partition at most.                         *)
ASSUME ChainAssumption ==
  \A d \in Disks : \A tabs \in Layouts[d] : \A t \in DOMAIN tabs \ {1} :
    \A i, j \in Entries : tabs[t][i] = "part" /\ tabs[t][j] = "part" => i = j

VARIABLES
  tables, secCnt,       \* what the disks came with
  image,                \* on the disks: <<partition, area>> that are written
  phase,                \* "scan", "fs", "format", "mount", "up" or "halt"
  hd,                   \* the disk at work
  stack,                \* the calls of Ide_PartitionScan: the table and the next entry
  base,                 \* g_extLBABase
  primNo, logicNo,      \* g_partitionNo, g_loginNo
  partList,             \* g_partitionList: <<partition, kind, number>>
  partIdx, area,        \* of FS_Init; the next area FS_PartitionFormat writes
  mounted,              \* g_curPartition
  why, boots,           \* why the kernel halted; how often it was started again
  cut, carriers         \* history: partitions whose format was cut short;
                        \* partitions that once had a super block

diskVars == <<tables, secCnt, image, cut, carriers>>
scanVars == <<stack, base, primNo, logicNo, partList>>
fsVars == <<partIdx, area, mounted>>
vars == <<diskVars, scanVars, fsVars, phase, hd, why, boots>>

NoPart == <<0, 0, 0>>
Areas == 1 .. 5  \* super block, block bitmap, inode bitmap, inode table, root

(* The EBRs follow each other from the start of the extended partition.    *)
TableLBA(t) == IF t = 1 THEN 0 ELSE ExtStart + t - 2

(* A sector that holds no table reads as zeros.                            *)
TableAt(d, lba) ==
  IF \E t \in DOMAIN tables[d] : TableLBA(t) = lba
  THEN tables[d][CHOOSE t \in DOMAIN tables[d] : TableLBA(t) = lba]
  ELSE [i \in Entries |-> "none"]

PartsIn(d, t) ==
  {<<d, TableLBA(t), i>> : i \in {j \in Entries : tables[d][t][j] = "part"}}
Present(d) == UNION {PartsIn(d, t) : t \in DOMAIN tables[d]}

(* The disks come blank or with file systems.                              *)
Init ==
  /\ tables \in {f \in [Disks -> UNION {Layouts[d] : d \in Disks}] :
                   \A d \in Disks : f[d] \in Layouts[d]}
  /\ secCnt \in Sizes
  /\ \E whole \in SUBSET Disks : carriers = UNION {Present(d) : d \in whole}
  /\ image = carriers \X Areas
  /\ phase = "scan" /\ hd = 1 /\ stack = <<[lba |-> 0, i |-> 1]>>
  /\ base = 0 /\ primNo = 0 /\ logicNo = 0 /\ partList = <<>>
  /\ partIdx = 0 /\ area = 1 /\ mounted = NoPart
  /\ why = "none" /\ boots = 0 /\ cut = {}

Halt(w) == phase' = "halt" /\ why' = w

-----------------------------------------------------------------------------
(* Ide_PartitionScan.                                                      *)

Top == Head(stack)
Entry == TableAt(hd, Top.lba)[Top.i]
Here == <<hd, Top.lba, Top.i>>
Advanced == <<[Top EXCEPT !.i = Top.i + 1]>> \o Tail(stack)
Scanning == phase = "scan" /\ stack # <<>> /\ Top.i <= TableLen

Call(lba) == stack' = <<[lba |-> lba, i |-> 1]>> \o Advanced

ScanEmpty ==
  /\ Scanning /\ Entry = "none"
  /\ stack' = Advanced
  /\ UNCHANGED <<diskVars, fsVars, base, primNo, logicNo, partList, phase, hd, why, boots>>

(* What the entry says: a link of an EBR counts from the extended partition. *)
StartLBA == IF Top.lba = 0 THEN ExtStart ELSE Top.lba - ExtStart + 1

LinkLBA_FromTable == IF base = 0 THEN StartLBA ELSE StartLBA + Top.lba
LinkLBA == StartLBA + base

ScanExtended ==
  /\ Scanning /\ Entry = "ext"
  /\ Call(LinkLBA)
  /\ base' = IF base = 0 THEN StartLBA ELSE base
  /\ UNCHANGED <<diskVars, fsVars, primNo, logicNo, partList, phase, hd, why, boots>>

ScanPrimary ==
  /\ Scanning /\ Entry = "part" /\ Top.lba = 0
  /\ partList' = Append(partList, <<Here, "prim", primNo>>)
  /\ primNo' = primNo + 1
  /\ IF primNo' < TableLen THEN UNCHANGED <<phase, why>> ELSE Halt("ide.c:371")
  /\ stack' = Advanced
  /\ UNCHANGED <<diskVars, fsVars, base, logicNo, hd, boots>>

Full_Late(no) == no > MaxLogic
Full(no) == no >= MaxLogic

(* An entry of logicParts, or of what lies behind the array.               *)
ScanLogical ==
  /\ Scanning /\ Entry = "part" /\ Top.lba # 0
  /\ partList' = Append(partList, <<Here, "logic", logicNo>>)
  /\ logicNo' = logicNo + 1
  /\ IF logicNo < MaxLogic THEN UNCHANGED <<phase, why>> ELSE Halt("overflow")
  /\ stack' = IF Full(logicNo') THEN Tail(stack) ELSE Advanced
  /\ UNCHANGED <<diskVars, fsVars, base, primNo, hd, boots>>

ScanReturn ==
  /\ phase = "scan" /\ stack # <<>> /\ Top.i > TableLen
  /\ stack' = Tail(stack)
  /\ UNCHANGED <<diskVars, fsVars, base, primNo, logicNo, partList, phase, hd, why, boots>>

(* Ide_Init: the numbers start again with every disk, the base does not.   *)
ScanDisk ==
  /\ phase = "scan" /\ stack = <<>>
  /\ primNo' = 0 /\ logicNo' = 0
  /\ IF hd < NDisks
     THEN hd' = hd + 1 /\ stack' = <<[lba |-> 0, i |-> 1]>> /\ UNCHANGED phase
     ELSE hd' = 1 /\ phase' = "fs" /\ UNCHANGED stack
  /\ UNCHANGED <<diskVars, fsVars, base, partList, why, boots>>

-----------------------------------------------------------------------------
(* FS_Init, FS_PartitionFormat, FS_Mount.                                  *)

Slots == TableLen + MaxLogic    \* MAX_DISK_PART_NUM
SlotOf(e) == IF e[2] = "prim" THEN e[3] ELSE TableLen + e[3]
InSlot(d, k) == {e[1] : e \in {x \in Range(partList) : x[1][1] = d /\ SlotOf(x) = k}}
PartAt(d, k) == CHOOSE p \in InSlot(d, k) : TRUE

HasMagic_BootSector(p) == FALSE
HasMagic(p) == <<p, 1>> \in image

NextIdx_Continue == IF InSlot(hd, partIdx) = {} THEN partIdx + 1 ELSE partIdx
NextIdx == partIdx + 1

FsSkip ==
  /\ phase = "fs" /\ partIdx < Slots
  /\ InSlot(hd, partIdx) # {} => HasMagic(PartAt(hd, partIdx))
  /\ partIdx' = NextIdx
  /\ UNCHANGED <<diskVars, scanVars, area, mounted, phase, hd, why, boots>>

Formatting == PartAt(hd, partIdx)

(* The super block is the first to be written.                             *)
FormatBegin ==
  /\ phase = "fs" /\ partIdx < Slots
  /\ InSlot(hd, partIdx) # {} /\ ~HasMagic(Formatting)
  /\ image' = image \cup {<<Formatting, 1>>}
  /\ carriers' = carriers \cup {Formatting}
  /\ phase' = "format" /\ area' = 2
  /\ UNCHANGED <<tables, secCnt, cut, scanVars, partIdx, mounted, hd, why, boots>>

(* sys_malloc may fail between the super block and the rest.               *)
FormatNoMemory ==
  /\ phase = "format" /\ area = 2
  /\ Halt("fs.c:108")
  /\ cut' = cut \cup {Formatting}
  /\ UNCHANGED <<tables, secCnt, image, carriers, scanVars, fsVars, hd, boots>>

LastArea_Table == 4
LastArea == 5

FormatWrite ==
  /\ phase = "format"
  /\ image' = image \cup {<<Formatting, area>>}
  /\ IF area < LastArea
     THEN area' = area + 1 /\ UNCHANGED <<phase, partIdx>>
     ELSE area' = 1 /\ phase' = "fs" /\ partIdx' = NextIdx
  /\ UNCHANGED <<tables, secCnt, cut, carriers, scanVars, mounted, hd, why, boots>>

(* partIdx stays where the first disk has left it.                         *)
FsDisk ==
  /\ phase = "fs" /\ partIdx = Slots
  /\ IF hd < NDisks THEN hd' = hd + 1 /\ UNCHANGED phase ELSE phase' = "mount" /\ UNCHANGED hd
  /\ UNCHANGED <<diskVars, scanVars, fsVars, why, boots>>

Mount ==
  /\ phase = "mount" /\ InSlot(1, 0) # {}
  /\ mounted' = PartAt(1, 0)    \* sdb1
  /\ phase' = "up"
  /\ UNCHANGED <<diskVars, scanVars, partIdx, area, hd, why, boots>>

MountNoMemory ==
  /\ phase = "mount" /\ InSlot(1, 0) # {}
  /\ Halt("sys_malloc failed!")
  /\ UNCHANGED <<diskVars, scanVars, fsVars, hd, boots>>

(* Dir_OpenRootDir(NULL).                                                  *)
MountNothing ==
  /\ phase = "mount" /\ InSlot(1, 0) = {}
  /\ Halt("no sdb1")
  /\ UNCHANGED <<diskVars, scanVars, fsVars, hd, boots>>

(* The power fails, or the machine is switched off, and comes back.        *)
PowerFail ==
  /\ boots < MaxBoots /\ boots' = boots + 1
  /\ cut' = IF phase = "format" THEN cut \cup {Formatting} ELSE cut
  /\ phase' = "scan" /\ hd' = 1 /\ stack' = <<[lba |-> 0, i |-> 1]>>
  /\ base' = 0 /\ primNo' = 0 /\ logicNo' = 0 /\ partList' = <<>>
  /\ partIdx' = 0 /\ area' = 1 /\ mounted' = NoPart /\ why' = "none"
  /\ UNCHANGED <<tables, secCnt, image, carriers>>

Kernel ==
  \/ ScanEmpty \/ ScanExtended \/ ScanPrimary \/ ScanLogical \/ ScanReturn \/ ScanDisk
  \/ FsSkip \/ FormatBegin \/ FormatNoMemory \/ FormatWrite \/ FsDisk
  \/ Mount \/ MountNoMemory \/ MountNothing

Next == Kernel \/ PowerFail

Spec == Init /\ [][Next]_vars

(* The boot is one thread of control, which nothing stops.                 *)
LiveSpec == Spec /\ WF_vars(Kernel)

-----------------------------------------------------------------------------
TypeOK ==
  /\ \A d \in Disks : tables[d] \in Layouts[d]
  /\ secCnt \in Sizes
  /\ phase \in {"scan", "fs", "format", "mount", "up", "halt"}
  /\ hd \in Disks
  /\ primNo \in 0 .. TableLen /\ logicNo \in 0 .. MaxLogic + 1
  /\ partIdx \in 0 .. Slots /\ area \in Areas
  /\ boots \in 0 .. MaxBoots

Listed(d) == {e[1] : e \in {x \in Range(partList) : x[1][1] = d}}

Extended(d) == Len(tables[d]) > 1
Logical(d) == {p \in Present(d) : p[2] # 0}

(* The logical partitions that fit, in the order of the chain.             *)
Reached(d) == {p \in Logical(d) : Cardinality({q \in Logical(d) : q[2] < p[2]}) < MaxLogic}

(* After the scan g_partitionList has every partition of every disk once,  *)
(* the first eight logical ones at most, except that the logical ones of a *)
(* disk are missed when a disk before it has an extended partition, whose  *)
(* base (ide.c:354) is still there.                                        *)
ScanExact ==
  phase \in {"fs", "format", "mount", "up"} =>
    /\ \A d \in Disks :
         Listed(d) = (Present(d) \ Logical(d))
                     \cup IF \E c \in 1 .. d - 1 : Extended(c) THEN {} ELSE Reached(d)
    /\ IsInjective(partList)
    /\ \A e, f \in Range(partList) :
         e # f => e[1][1] # f[1][1] \/ SlotOf(e) # SlotOf(f)

LinkFirst(d) ==
  \E t \in DOMAIN tables[d] \ {1} : \E i, j \in Entries :
    i < j /\ tables[d][t][i] = "ext" /\ tables[d][t][j] = "part"

(* The start of the kernel ends early only where it must: ASSERT ide.c:371 *)
(* for an MBR of primary partitions only, a write behind logicParts only   *)
(* for more than eight logical partitions of which one stands behind its   *)
(* link (the scan's return at ide.c:383 leaves its callers going on), no   *)
(* root only if sdb has no primary partition.                              *)
HaltExplained ==
  /\ why = "ide.c:371" => \A i \in Entries : tables[hd][1][i] = "part"
  /\ why = "overflow" => LinkFirst(hd) /\ Cardinality(Logical(hd)) > MaxLogic
  /\ why = "no sdb1" => Present(1) = Logical(1)

(* The root that is mounted has been written completely, unless a format   *)
(* of it was cut short after its super block (fs.c:99).                   *)
MountedWhole ==
  mounted # NoPart => {mounted} \X Areas \subseteq image \/ mounted \in cut

(* A partition that has a super block, written by this or an earlier start *)
(* of the kernel, is never formatted again, whenever the power failed.     *)
FormatOnce == [][phase = "fs" /\ phase' = "format" => carriers' # carriers]_vars

(* Every start of the kernel comes to its end, whatever tables the disks   *)
(* have: the scan's recursion is finite.                                   *)
BootEnds == <>[](phase \in {"up", "halt"})

(* FS_Mount makes the block bitmap as long as the inode bitmap (fs.c:216). *)
Offered == FreeBits(secCnt) \cap 0 .. InodeBitmapSects * SectorBits - 1

(* The blocks that the bitmap of the mounted partition offers lie behind   *)
(* the root's block and inside the partition, or at most in the one sector *)
(* that follows it: fs.c:124 clears one bit too many.                      *)
OfferedInside ==
  mounted # NoPart /\ <<mounted, 2>> \in image =>
    \A b \in Offered : b # 0 /\ DataStartLBA(secCnt) + b <= secCnt
=============================================================================
