-------------------------------- MODULE Dirs --------------------------------
(***************************************************************************)
(* The root directory on the disk: Dir_SearchDirEntry, Dir_SyncDirEntry,   *)
(* Dir_DeleteDirEntry and Dir_Read (fs/dir.c) under sys_open with O_CREAT, *)
(* sys_mkdir, sys_unlink, sys_rmdir, sys_opendir, sys_stat and sys_readdir *)
(* (fs/fs.c, fs/file.c), and the mount after a power failure, which may    *)
(* come between any two writes.  One task runs; a step ends with a write.  *)
(* Paths have one component: the first directory found on a path is opened *)
(* with a wrong partition (fs.c:314), after which nothing is known.        *)
(***************************************************************************)
EXTENDS Integers, Sequences, FiniteSets, FiniteSetsExt

CONSTANTS
  Names,
  PerBlock,      \* directory entries of a sector (21)
  MaxDirect,     \* MAX_DIRECT_BLOCK (12)
  NBlocks,       \* the blocks of the data area
  DataStart,     \* sb->dataStartLBA
  SlotMod,       \* 256: Inode_Write keeps the number in a uint8_t
  BitsPerSector, \* bits of a bitmap in one sector (4096)
  MaxBoots       \* bound: how often the machine is started again

Blocks == 0 .. NBlocks - 1       \* block b is the sector DataStart + b
None == -1                       \* no block: a 0 in iSectors
Wild == -2                       \* the name of a file, read as an address
Index == 0 .. MaxDirect          \* of iSectors; MaxDirect: the indirect table
NoName == "none"                 \* a name that starts with a 0

ASSUME DirsAssumption ==
  /\ {PerBlock, MaxDirect, NBlocks, DataStart, SlotMod, BitsPerSector} \subseteq Nat \ {0}
  /\ MaxBoots \in Nat
  /\ {NoName, ".."} \cap Names = {}

VARIABLES
  memBits, diskBits,  \* the block bitmap: the blocks taken
  root,               \* the inode of the root directory in memory
  dRoot,              \* slot 0 of the inode table on the disk
  sect,               \* the sectors of the data area
  openFiles,          \* the numbers of the files created since the start, in the
                      \* order of openInodes; the root's inode is its last
  rootHeld,           \* a slot of g_fileTable has the root's inode
  pc, op,             \* where the task is, and its local variables
  boots, panic,
  durable, spoilt     \* history: the names created for good; what went wrong

bitVars == <<memBits, diskBits>>
memVars == <<root, openFiles, rootHeld>>
diskVars == <<dRoot, sect>>
vars == <<bitVars, memVars, diskVars, pc, op, boots, panic, durable, spoilt>>

Empty == [name |-> NoName, no |-> 0, type |-> "unknown"]
ZeroSector == [ents |-> [k \in 1 .. PerBlock |-> Empty], tab |-> None]
ZeroInode == [no |-> 0, size |-> 0, sec |-> [i \in Index |-> None]]
NoOp == [name |-> NoName, no |-> 0, type |-> "unknown", blk |-> None, todo |-> <<>>]

(* The end of FS_PartitionFormat.  The comment of line 159 hides ".".      *)
Init ==
  /\ memBits = {0} /\ diskBits = {0}
  /\ root = [ZeroInode EXCEPT !.size = 2, !.sec[0] = 0]
  /\ dRoot = root
  /\ sect = [b \in Blocks |->
               IF b = 0
               THEN [ZeroSector EXCEPT !.ents[1] = [name |-> "..", no |-> 0, type |-> "dir"]]
               ELSE ZeroSector]
  /\ openFiles = <<>> /\ rootHeld = FALSE
  /\ pc = "idle" /\ op = NoOp
  /\ boots = 0 /\ panic = "none"
  /\ durable = {} /\ spoilt = {}

Panic(where) ==
  /\ panic' = where
  /\ UNCHANGED <<bitVars, memVars, diskVars, pc, op, boots, durable, spoilt>>

Free == Blocks \ memBits

Sector(b) == {c \in Blocks : c \div BitsPerSector = b \div BitsPerSector}

Synced_Never(b, bits) == diskBits
Synced(b, bits) == (diskBits \ Sector(b)) \cup (bits \cap Sector(b))

(* The block of each index, the indirect table (which never has more than  *)
(* one) being read from the disk.                                          *)
BlockAt(inode, i) ==
  IF i = MaxDirect /\ inode.sec[i] # None THEN sect[inode.sec[i]].tab ELSE inode.sec[i]

Places(inode) == {p \in Index \X (1 .. PerBlock) : BlockAt(inode, p[1]) \in Blocks}
EntryAt(inode, p) == sect[BlockAt(inode, p[1])].ents[p[2]]
Before(p, q) == p[1] < q[1] \/ (p[1] = q[1] /\ p[2] <= q[2])

(* Dir_SearchDirEntry compares names only. *)
Hits_ButLast(inode, name) == {p \in Places(inode) : p[2] < PerBlock /\ EntryAt(inode, p).name = name}
Hits(inode, name) == {p \in Places(inode) : EntryAt(inode, p).name = name}
Found(name) ==
  LET hits == Hits(root, name)
  IN EntryAt(root, CHOOSE p \in hits : \A q \in hits : Before(p, q))

(* Inode_Open returns the first open inode and gives it the number asked.  *)
Renamed(no) ==
  IF openFiles = <<>>
  THEN root' = [root EXCEPT !.no = no] /\ UNCHANGED openFiles
  ELSE openFiles' = [openFiles EXCEPT ![1] = no] /\ UNCHANGED root

(* FS_SearchFile of /name, up to the caller's test of the result.          *)
Lookup(name, Missing, Regular) ==
  /\ pc = "idle"
  /\ IF BlockAt(root, MaxDirect) = Wild
     THEN Panic("dir.c:110")
     ELSE IF Hits(root, name) = {}
     THEN Missing
     ELSE IF Found(name).type = "dir"
     THEN Panic("fs.c:314")
     ELSE Regular

-----------------------------------------------------------------------------
(* sys_open with O_CREAT and sys_mkdir *)

Begin(name, type, bits, no) ==
  /\ memBits' = bits
  /\ pc' = "sync"
  /\ op' = [NoOp EXCEPT !.name = name, !.type = type, !.no = DataStart + no]
  /\ UNCHANGED <<memVars, diskVars, boots, panic, durable, spoilt>>

(* The number of the inode is taken from the block bitmap, not synced.     *)
Create(name) ==
  LET b == Min(Free)
  IN Lookup(name, Free # {} /\ Begin(name, "regular", memBits \cup {b}, b) /\ UNCHANGED diskBits,
            FALSE)

(* A block for the directory is taken too, and filled; its entry comes     *)
(* after.  Without a block the rollback fails BitmapSet's ASSERT.          *)
Mkdir(name) ==
  LET b == Min(Free)
      c == Min(Free \ {b})
  IN Lookup(name,
            /\ Free # {}
            /\ IF Cardinality(Free) = 1
               THEN Panic("fs.c:566")
               ELSE /\ diskBits' = Synced(c, memBits \cup {b, c})
                    /\ Begin(name, "dir", memBits \cup {b, c}, b),
            FALSE)

(* Dir_SyncDirEntry.  Only the direct blocks are looked at: once they are  *)
(* full every entry gets a new indirect table.                             *)
FreeSlots(i) == {k \in 1 .. PerBlock : sect[root.sec[i]].ents[k].type = "unknown"}

FirstIndex ==
  Min({i \in Index : i = MaxDirect \/ root.sec[i] = None \/ FreeSlots(i) # {}})

NewEntry == [name |-> op.name, no |-> op.no, type |-> op.type]

(* Where Dir_SyncDirEntry has returned true.  sys_mkdir takes that for a   *)
(* failure, and false for success.                                         *)
Synchronised ==
  /\ root' = [root EXCEPT !.size = @ + 1]
  /\ pc' = IF op.type = "dir" THEN "rollback" ELSE "parent"

SyncFailed ==
  pc' = IF op.type = "dir" THEN "parent" ELSE "rollback"

SyncInPlace ==
  LET i == FirstIndex
      k == Min(FreeSlots(i))
  IN /\ pc = "sync"
     /\ i < MaxDirect /\ root.sec[i] # None
     /\ sect' = [sect EXCEPT ![root.sec[i]].ents[k] = NewEntry]
     /\ Synchronised
     /\ UNCHANGED <<bitVars, dRoot, openFiles, rootHeld, op, boots, panic, durable, spoilt>>

SyncNewBlock ==
  LET i == FirstIndex
      b == Min(Free)
  IN /\ pc = "sync"
     /\ i = MaxDirect \/ root.sec[i] = None
     /\ IF Free = {}
        THEN SyncFailed /\ UNCHANGED <<bitVars, root, op>>
        ELSE /\ memBits' = memBits \cup {b}
             /\ diskBits' = Synced(b, memBits')
             /\ root' = [root EXCEPT !.sec[i] = b]
             /\ op' = [op EXCEPT !.blk = b]
             /\ pc' = IF i = MaxDirect THEN "table" ELSE "entry"
     /\ spoilt' = IF i = MaxDirect /\ root.sec[i] # None THEN spoilt \cup {"table"} ELSE spoilt
     /\ UNCHANGED <<openFiles, rootHeld, diskVars, boots, panic, durable>>

SyncTable ==
  LET b == Min(Free)
  IN /\ pc = "table"
     /\ IF Free = {}
        THEN /\ memBits' = memBits \ {op.blk}
             /\ root' = [root EXCEPT !.sec[MaxDirect] = None]
             /\ SyncFailed
             /\ UNCHANGED <<diskBits, op>>
        ELSE /\ memBits' = memBits \cup {b}
             /\ diskBits' = Synced(b, memBits')
             /\ op' = [op EXCEPT !.blk = b]
             /\ pc' = "tabwrite"
             /\ UNCHANGED root
     /\ UNCHANGED <<openFiles, rootHeld, diskVars, boots, panic, durable, spoilt>>

SyncTableWrite ==
  /\ pc = "tabwrite"
  /\ sect' = [sect EXCEPT ![root.sec[MaxDirect]] = [ZeroSector EXCEPT !.tab = op.blk]]
  /\ pc' = "entry"
  /\ UNCHANGED <<bitVars, memVars, dRoot, op, boots, panic, durable, spoilt>>

SyncEntry ==
  /\ pc = "entry"
  /\ sect' = [sect EXCEPT ![op.blk] = [ents |-> [ZeroSector.ents EXCEPT ![1] = NewEntry],
                                       tab |-> Wild]]
  /\ Synchronised
  /\ UNCHANGED <<bitVars, dRoot, openFiles, rootHeld, op, boots, panic, durable, spoilt>>

(* Inode_Write: which slot is written depends on the last byte of iNo.     *)
Slot(no) == no % SlotMod

Stored_Never(inode) == dRoot
Stored(inode) == IF Slot(inode.no) = 0 THEN inode ELSE dRoot

ParentInode ==
  /\ pc = "parent"
  /\ dRoot' = Stored(root)
  /\ spoilt' = IF Slot(root.no) # 0 THEN spoilt \cup {"renamed"} ELSE spoilt
  /\ pc' = IF op.type = "dir" THEN "bitmap" ELSE "inode"
  /\ UNCHANGED <<bitVars, memVars, sect, op, boots, panic, durable>>

NewInode ==
  /\ pc = "inode"
  /\ dRoot' = Stored([ZeroInode EXCEPT !.no = op.no])
  /\ spoilt' = IF Slot(op.no) = 0 THEN spoilt \cup {"slot"} ELSE spoilt
  /\ pc' = "bitmap"
  /\ UNCHANGED <<bitVars, memVars, sect, op, boots, panic, durable>>

(* File_BitmapSync(INODE_BITMAP) of a number that is a sector's: the next  *)
(* sector but one behind the bitmap's first is that of the root's inode.   *)
InodeBitmap ==
  LET hit == op.no \div BitsPerSector = 1
  IN /\ pc = "bitmap"
     /\ dRoot' = IF hit THEN ZeroInode ELSE dRoot
     /\ spoilt' = IF hit THEN spoilt \cup {"bitmap"} ELSE spoilt
     /\ IF op.type = "dir"
        THEN UNCHANGED <<openFiles, durable>>
        ELSE openFiles' = <<op.no>> \o openFiles /\ durable' = durable \cup {op.name}
     /\ pc' = "idle" /\ op' = NoOp
     /\ UNCHANGED <<bitVars, root, rootHeld, sect, boots, panic>>

(* BitmapSet on inodeBitmap, whose length FS_Mount leaves 0. *)
Rollback ==
  /\ pc = "rollback"
  /\ Panic(IF op.type = "dir" THEN "fs.c:566" ELSE "file.c:145")

-----------------------------------------------------------------------------
(* sys_unlink *)

InUse(no) ==
  \/ no \in {openFiles[k] : k \in DOMAIN openFiles}
  \/ rootHeld /\ root.no = no

Unlink(name) ==
  Lookup(name, FALSE,
         /\ ~InUse(Found(name).no)
         /\ pc' = "delete"
         /\ op' = [NoOp EXCEPT !.name = name, !.no = Found(name).no]
         /\ durable' = durable \ {name}
         /\ UNCHANGED <<bitVars, memVars, diskVars, boots, panic, spoilt>>)

(* Dir_DeleteDirEntry: the last entry with the number in the first direct  *)
(* block that has one.  With three entries in use the block is freed, else *)
(* four bytes of the name are cleared, and the entry stays in use.         *)
Used(i) == {k \in 1 .. PerBlock : EntryAt(root, <<i, k>>).type # "unknown"}
Matching(i) == {k \in Used(i) : sect[root.sec[i]].ents[k].no = op.no}

LastOnes(i) == Cardinality(Used(i)) = 3

DeleteEntry ==
  LET at == {i \in Index \ {MaxDirect} : root.sec[i] # None /\ Matching(i) # {}}
      i == Min(at)
      b == root.sec[i]
      k == Max(Matching(i))
  IN /\ pc = "delete"
     /\ IF at = {}
        THEN pc' = "open" /\ UNCHANGED <<bitVars, root, sect, spoilt>>
        ELSE /\ pc' = "delinode"
             /\ IF LastOnes(i)
                THEN /\ memBits' = memBits \ {b}
                     /\ diskBits' = Synced(b, memBits')
                     /\ root' = [root EXCEPT !.size = @ - 1, !.sec[i] = None]
                     /\ spoilt' = spoilt \cup {"freed"}
                     /\ UNCHANGED sect
                ELSE /\ sect' = [sect EXCEPT ![b].ents[k].name = NoName]
                     /\ root' = [root EXCEPT !.size = @ - 1]
                     /\ spoilt' = IF sect[b].ents[k].name = op.name THEN spoilt
                                  ELSE spoilt \cup {"twin"}
                     /\ UNCHANGED bitVars
     /\ UNCHANGED <<openFiles, rootHeld, dRoot, op, boots, panic, durable>>

DeleteInode ==
  /\ pc = "delinode"
  /\ dRoot' = Stored(root)
  /\ spoilt' = IF Slot(root.no) # 0 THEN spoilt \cup {"renamed"} ELSE spoilt
  /\ pc' = "open"
  /\ UNCHANGED <<bitVars, memVars, sect, op, boots, panic, durable>>

(* Inode_Release: Inode_Open, and the blocks of what that returned. *)
ReleaseOpen ==
  /\ pc = "open"
  /\ Renamed(op.no)
  /\ op' = [op EXCEPT !.todo =
              IF openFiles # <<>> THEN <<>>
              ELSE SelectSeq(<<root.sec[MaxDirect]>> \o [i \in 1 .. MaxDirect |-> root.sec[i - 1]],
                             LAMBDA b : b # None)]
  /\ pc' = "release"
  /\ UNCHANGED <<bitVars, rootHeld, diskVars, boots, panic, durable, spoilt>>

ReleaseBlock ==
  LET b == Head(op.todo)
  IN /\ pc = "release"
     /\ IF op.todo = <<>>
        THEN Panic("inode.c:143")
        ELSE IF b = 0
        THEN Panic("inode.c:134")
        ELSE /\ memBits' = memBits \ {b}
             /\ diskBits' = Synced(b, memBits')
             /\ op' = [op EXCEPT !.todo = Tail(@)]
             /\ spoilt' = spoilt \cup {"released"}
             /\ UNCHANGED <<memVars, diskVars, pc, boots, panic, durable>>

-----------------------------------------------------------------------------
(* sys_opendir and sys_rmdir of anything but a directory return. *)
OpenDir(name) == Lookup(name, FALSE, FALSE)
RemoveDir(name) == Lookup(name, FALSE, FALSE)

(* sys_open without O_CREAT, sys_close and sys_stat: which inode they use. *)
OpenFile(name) ==
  Lookup(name, FALSE,
         /\ Renamed(Found(name).no)
         /\ rootHeld' = (rootHeld \/ openFiles = <<>>)
         /\ UNCHANGED <<bitVars, diskVars, pc, op, boots, panic, durable, spoilt>>)

CloseFile ==
  /\ pc = "idle" /\ rootHeld
  /\ rootHeld' = FALSE
  /\ UNCHANGED <<bitVars, root, openFiles, diskVars, pc, op, boots, panic, durable, spoilt>>

Stat(name) ==
  Lookup(name, FALSE,
         /\ Renamed(Found(name).no)
         /\ UNCHANGED <<bitVars, rootHeld, diskVars, pc, op, boots, panic, durable, spoilt>>)

(* A listing of the directory: sys_rewinddir, and sys_readdir up to NULL.  *)
(* Dir_Read counts the entries anew in each block; when no block has more  *)
(* than dirPos of them it runs off the end of allBlocks.                   *)
ReadDir ==
  /\ pc = "idle"
  /\ \E dirPos \in 0 .. root.size - 1 :
       \A i \in Index : BlockAt(root, i) \in Blocks => Cardinality(Used(i)) <= dirPos
  /\ Panic("dir.c:363")

(* Power fails; FS_Mount and Dir_OpenRootDir read what is on the disk.     *)
Reboot ==
  /\ boots < MaxBoots
  /\ boots' = boots + 1
  /\ memBits' = diskBits
  /\ root' = dRoot
  /\ openFiles' = <<>> /\ rootHeld' = FALSE
  /\ pc' = "idle" /\ op' = NoOp
  /\ panic' = "none"
  /\ UNCHANGED <<diskBits, diskVars, durable, spoilt>>

TaskStep ==
  \/ \E name \in Names :
       \/ Create(name) \/ Mkdir(name) \/ Unlink(name)
       \/ OpenDir(name) \/ RemoveDir(name) \/ OpenFile(name) \/ Stat(name)
  \/ SyncInPlace \/ SyncNewBlock \/ SyncTable \/ SyncTableWrite \/ SyncEntry
  \/ ParentInode \/ NewInode \/ InodeBitmap \/ Rollback
  \/ DeleteEntry \/ DeleteInode \/ ReleaseOpen \/ ReleaseBlock
  \/ CloseFile \/ ReadDir

Next == (panic = "none" /\ TaskStep) \/ Reboot

Spec == Init /\ [][Next]_vars

-----------------------------------------------------------------------------
(* No unlink has freed a block of the root directory.                      *)
NothingFreed == spoilt \cap {"freed", "released"} = {}

(***************************************************************************)
(* No two entries of the directory on the disk have the same name, through *)
(* any number of power failures in the middle of File_Create, sys_mkdir or *)
(* sys_unlink, as long as no unlink has freed a block: if the power fails  *)
(* before Inode_Write, the inode on the disk keeps that block, and it can  *)
(* become one of its other blocks.                                         *)
(***************************************************************************)
UniqueNames ==
  NothingFreed =>
    \A name \in Names :
      Cardinality({p \in Places(dRoot) : EntryAt(dRoot, p).name = name}) <= 1

(***************************************************************************)
(* A file whose sys_open with O_CREAT has returned is found after every    *)
(* power failure until it is unlinked, unless: the root's inode was        *)
(* written under another file's number ("renamed"), or its slot was        *)
(* overwritten by that of a number with the same last byte ("slot") or by  *)
(* the inode bitmap ("bitmap"); a second indirect table replaced the first *)
(* ("table"); or an unlink freed the block of other entries ("freed"),     *)
(* blocks of the root ("released") or another name of the number ("twin"). *)
(***************************************************************************)
LossExplained ==
  spoilt = {} => \A name \in durable : Hits(dRoot, name) # {}

(* The blocks of the root directory are taken, in memory and, for the      *)
(* inode on the disk, on the disk, whatever was interrupted, as long as no *)
(* unlink has freed one.                                                   *)
DirBlocksTaken ==
  NothingFreed =>
    /\ {root.sec[i] : i \in Index} \cap Blocks \subseteq memBits
    /\ {BlockAt(dRoot, i) : i \in Index} \cap Blocks \subseteq diskBits
    /\ {dRoot.sec[i] : i \in Index} \cap Blocks \subseteq diskBits
=============================================================================
