------------------------------- MODULE Files --------------------------------
(***************************************************************************)
(* Open files: the tasks' fdTable, g_fileTable and the inodes in memory    *)
(* (fs/file.c, fs/inode.c and the descriptors' part of kernel/fork.c).     *)
(* There is no lock.  A kernel thread can be preempted between finding a   *)
(* slot of g_fileTable and filling it; a process, in a system call, only   *)
(* where it waits for the disk.                                            *)
(***************************************************************************)
EXTENDS Integers, Sequences, FiniteSets, FiniteSetsExt, SequencesExt

CONSTANTS
  KThreads, Procs,
  Children,      \* the processes that exist only once they are forked
  NoTask, Null,
  Names,         \* the inode numbers of the files on the disk
  Flags,         \* how they are opened: "r" (O_RDONLY), "w" (O_WRONLY, O_RDWR)
  MaxFileOpen,   \* MAX_FILE_OPEN (32)
  MaxPerProc,    \* MAX_FILES_OPEN_PER_PROC (8)
  DataStart,     \* sb->dataStartLBA
  MaxCreate      \* bound: how many files are created

Tasks == KThreads \cup Procs
Slots == 3 .. MaxFileOpen - 1
Fds == 3 .. MaxPerProc - 1

ASSUME FilesAssumption ==
  /\ KThreads \cap Procs = {} /\ NoTask \notin Tasks /\ Null \notin Nat
  /\ Children \subseteq Procs
  /\ Names \subseteq Nat \ {0}
  /\ Flags \subseteq {"r", "w"}
  /\ {MaxFileOpen, MaxPerProc} \subseteq Nat
  /\ DataStart \in Nat /\ DataStart >= MaxFileOpen
  /\ MaxCreate \in Nat

Inodes == 0 .. MaxCreate     \* inodes in memory; 0 is the root directory's

VARIABLES
  iNo, iOpenCnts, writeDeny,  \* of the inodes in memory
  openInodes,    \* the list part->openInodes
  fdInode,       \* the inode of each slot of g_fileTable, or Null
  fdFlag,        \* "r" or "w"
  fdTable,       \* per task and descriptor: a slot, or -1
  alive,         \* the tasks that exist
  busy,          \* the process in a system call, unless it waits for the disk
  pc, loc,       \* where a task is in sys_open, and its local variables
  created,       \* how many files have been created
  panic          \* "none", or where the kernel stopped

inodeVars == <<iNo, iOpenCnts, writeDeny, openInodes>>
tableVars == <<fdInode, fdFlag, fdTable>>
ctlVars == <<alive, busy, pc, loc>>
vars == <<inodeVars, tableVars, ctlVars, created, panic>>

NoLoc == [file |-> 0, flag |-> "r", slot |-> 0, inode |-> 0]

(* FS_Init has mounted the partition and opened the root directory. *)
Init ==
  /\ iNo = [i \in Inodes |-> 0]
  /\ iOpenCnts = [i \in Inodes |-> IF i = 0 THEN 1 ELSE 0]
  /\ writeDeny = [i \in Inodes |-> FALSE]
  /\ openInodes = <<0>>
  /\ fdInode = [s \in Slots |-> Null]
  /\ fdFlag = [s \in Slots |-> "r"]
  /\ fdTable = [t \in Tasks |-> [f \in Fds |-> -1]]
  /\ alive = Tasks \ Children
  /\ busy = NoTask
  /\ pc = [t \in Tasks |-> "idle"]
  /\ loc = [t \in Tasks |-> NoLoc]
  /\ created = 0
  /\ panic = "none"

Panic(where) ==
  /\ panic' = where
  /\ UNCHANGED <<inodeVars, tableVars, ctlVars, created>>

(* File_GetFreeFd, and the part of File_AddFdToTask that looks for a place.*)
(* Names with a suffix are broken variants of the definition that follows. *)
FreeSlots_All == Slots
FreeSlots == {s \in Slots : fdInode[s] = Null}
FreeFds(t) == {f \in Fds : fdTable[t][f] = -1}

Return(t) ==
  /\ pc' = [pc EXCEPT ![t] = "idle"]
  /\ loc' = [loc EXCEPT ![t] = NoLoc]
  /\ busy' = IF busy = t THEN NoTask ELSE busy
  /\ UNCHANGED alive

(* The rest of File_AddFdToTask; without a free descriptor the caller gets *)
(* -1 and the slot stays in use.                                           *)
AddFdToTask(t, fd) ==
  LET f == Min(FreeFds(t))
  IN IF FreeFds(t) = {}
     THEN UNCHANGED fdTable
     ELSE fdTable' = [fdTable EXCEPT ![t][f] = fd]

(* sys_open of an existing file, up to File_Open's call of File_GetFreeFd. *)
Open(t, file, flag) ==
  /\ pc[t] = "idle"
  /\ FreeSlots # {}
  /\ pc' = [pc EXCEPT ![t] = "open"]
  /\ loc' = [loc EXCEPT ![t] = [file |-> file, flag |-> flag,
                                slot |-> Min(FreeSlots), inode |-> 0]]
  /\ busy' = IF t \in Procs THEN t ELSE busy
  /\ UNCHANGED <<inodeVars, tableVars, alive, created, panic>>

(***************************************************************************)
(* Inode_Open: its search assigns the number instead of comparing it, so   *)
(* the first inode of the list becomes inode n.  The list holds the root   *)
(* directory's inode at least, and the disk is never read.                 *)
(***************************************************************************)
Found(n) == Head(openInodes)

FileOpen(t) ==
  LET n == loc[t].file
      i == Found(n)
  IN /\ pc[t] = "open"
     /\ iNo' = [iNo EXCEPT ![i] = n]
     /\ iOpenCnts' = [iOpenCnts EXCEPT ![i] = @ + 1]
     /\ fdInode' = [fdInode EXCEPT ![loc[t].slot] = i]
     /\ fdFlag' = [fdFlag EXCEPT ![loc[t].slot] = loc[t].flag]
     /\ pc' = [pc EXCEPT ![t] = "claim"]
     /\ loc' = [loc EXCEPT ![t].inode = i]
     /\ UNCHANGED <<writeDeny, openInodes, fdTable, alive, busy, created, panic>>

(* The writeDeny test of File_Open.  A file that cannot be written is not  *)
(* closed again.                                                           *)
Denied(t) == loc[t].flag = "w" /\ writeDeny[loc[t].inode]

Claim(t) ==
  /\ pc[t] = "claim"
  /\ IF Denied(t)
     THEN UNCHANGED <<writeDeny, fdTable>>
     ELSE /\ writeDeny' = [writeDeny EXCEPT ![loc[t].inode] = @ \/ loc[t].flag = "w"]
          /\ AddFdToTask(t, loc[t].slot)
  /\ Return(t)
  /\ UNCHANGED <<iNo, iOpenCnts, openInodes, fdInode, fdFlag, created, panic>>

(***************************************************************************)
(* sys_open with O_CREAT: File_Create.  Its rollback clears a bit of the   *)
(* inode bitmap, whose length FS_Mount has left 0 (it sets the length of   *)
(* the block bitmap twice), and so ends in BitmapSet's ASSERT.             *)
(***************************************************************************)
Create(t, flag) ==
  /\ pc[t] = "idle"
  /\ created < MaxCreate
  /\ IF FreeSlots = {}
     THEN Panic("file.c:145")
     ELSE /\ created' = created + 1
          /\ pc' = [pc EXCEPT ![t] = "create"]
          /\ loc' = [loc EXCEPT ![t] =
                       [file |-> DataStart + created', flag |-> flag,
                        slot |-> Min(FreeSlots), inode |-> created']]
          /\ busy' = IF t \in Procs THEN t ELSE busy
          /\ UNCHANGED <<inodeVars, tableVars, alive, panic>>

CreateFile(t) ==
  LET i == loc[t].inode
  IN /\ pc[t] = "create"
     /\ iNo' = [iNo EXCEPT ![i] = loc[t].file]
     /\ writeDeny' = [writeDeny EXCEPT ![i] = FALSE]
     /\ fdInode' = [fdInode EXCEPT ![loc[t].slot] = i]
     /\ fdFlag' = [fdFlag EXCEPT ![loc[t].slot] = loc[t].flag]
     /\ pc' = [pc EXCEPT ![t] = "sync"]
     /\ busy' = IF busy = t THEN NoTask ELSE busy
     /\ UNCHANGED <<iOpenCnts, openInodes, fdTable, alive, loc, created, panic>>

(* The directory and the inodes have been written, or Dir_SyncDirEntry has *)
(* failed.  What goes into fdTable is the number of the inode.             *)
CreateSync(t) ==
  LET i == loc[t].inode
  IN /\ pc[t] = "sync"
     /\ \/ Panic("file.c:145")
        \/ /\ openInodes' = <<i>> \o openInodes
           /\ iOpenCnts' = [iOpenCnts EXCEPT ![i] = 1]
           /\ AddFdToTask(t, iNo[i])
           /\ Return(t)
           /\ UNCHANGED <<iNo, writeDeny, fdInode, fdFlag, created, panic>>

InList == {openInodes[k] : k \in DOMAIN openInodes}

(***************************************************************************)
(* sys_close: File_Local2Global, File_Close and Inode_Close.  After a use  *)
(* of a NULL fdInode, or a List_Remove of an inode that File_Create has    *)
(* not yet put into the list, nothing is known, and the model stops.       *)
(***************************************************************************)
Dropped_Inverted(i) == iOpenCnts[i] > 2
Dropped(i) == iOpenCnts[i] = 1

Uncounted_Kept(i) == iOpenCnts
Uncounted(i) == [iOpenCnts EXCEPT ![i] = @ - 1]

Close(t, f) ==
  LET g == fdTable[t][f]
      i == fdInode[g]
  IN /\ pc[t] = "idle"
     /\ g # -1
     /\ IF g \notin Slots
        THEN Panic("file.c:273")
        ELSE IF i = Null
        THEN Panic("file.c:192")
        ELSE IF Dropped(i) /\ i \notin InList
        THEN Panic("inode.c:216")
        ELSE /\ fdTable' = [fdTable EXCEPT ![t][f] = -1]
             /\ writeDeny' = [writeDeny EXCEPT ![i] = FALSE]
             /\ iOpenCnts' = Uncounted(i)
             /\ IF Dropped(i)
                THEN \E k \in DOMAIN openInodes :
                       openInodes[k] = i /\ openInodes' = RemoveAt(openInodes, k)
                ELSE UNCHANGED openInodes
             /\ fdInode' = [fdInode EXCEPT ![g] = Null]
             /\ UNCHANGED <<iNo, fdFlag, ctlVars, created, panic>>

(* sys_fork: the PCB is copied, Fork_UpdateInodeOpenCnt counts the inodes. *)
Counted(t) ==
  [i \in Inodes |->
     iOpenCnts[i] + Cardinality({f \in Fds : fdTable[t][f] # -1 /\ fdInode[fdTable[t][f]] = i})]

Fork(t, c) ==
  LET open == {f \in Fds : fdTable[t][f] # -1}
  IN /\ pc[t] = "idle"
     /\ t \in Procs /\ c \in Children \ alive
     /\ IF \E f \in open : fdTable[t][f] \notin Slots
        THEN Panic("fork.c:107")
        ELSE IF \E f \in open : fdInode[fdTable[t][f]] = Null
        THEN Panic("fork.c:109")
        ELSE /\ alive' = alive \cup {c}
             /\ fdTable' = [fdTable EXCEPT ![c] = fdTable[t]]
             /\ iOpenCnts' = Counted(t)
             /\ UNCHANGED <<iNo, writeDeny, openInodes, fdInode, fdFlag, busy, pc,
                            loc, created, panic>>

-----------------------------------------------------------------------------
TaskStep(t) ==
  /\ panic = "none"
  /\ t \in alive
  /\ busy \in {NoTask, t}
  /\ \/ \E n \in Names, flag \in Flags : Open(t, n, flag)
     \/ FileOpen(t) \/ Claim(t)
     \/ \E flag \in Flags : Create(t, flag)
     \/ CreateFile(t) \/ CreateSync(t)
     \/ \E f \in Fds : Close(t, f)
     \/ \E c \in Children : Fork(t, c)

Halted == panic # "none" /\ UNCHANGED vars

Next == (\E t \in Tasks : TaskStep(t)) \/ Halted

Spec == Init /\ [][Next]_vars

-----------------------------------------------------------------------------
Labels == {"idle", "open", "claim", "create", "sync"}

(* Types.  A reference count can be -1, which the code has as 2^32 - 1: a  *)
(* child closes an old descriptor whose slot File_Create has just taken,   *)
(* before it sets the count to 1.                                          *)
TypeOK ==
  /\ iNo \in [Inodes -> Nat]
  /\ iOpenCnts \in [Inodes -> Int]
  /\ writeDeny \in [Inodes -> BOOLEAN]
  /\ openInodes \in Seq(Inodes)
  /\ fdInode \in [Slots -> Inodes \cup {Null}]
  /\ fdFlag \in [Slots -> {"r", "w"}]
  /\ fdTable \in [Tasks -> [Fds -> Nat \cup {-1}]]
  /\ alive \subseteq Tasks
  /\ busy \in Procs \cup {NoTask}
  /\ pc \in [Tasks -> Labels]
  /\ created \in 0 .. MaxCreate

SlotsOf(i) == {s \in Slots : fdInode[s] = i}

Forked == alive \cap Children # {}

(* iOpenCnts is the number of slots that use the inode, one more for the   *)
(* root directory, also when opening a file is denied or finds no          *)
(* descriptor.  After a fork, where two tasks close one slot and it may be *)
(* reused in between, it can be too high but never too low.                *)
RefCount ==
  panic = "none" =>
    \A i \in InList :
      LET users == Cardinality(SlotsOf(i)) + (IF i = 0 THEN 1 ELSE 0)
      IN IF Forked THEN iOpenCnts[i] >= users ELSE iOpenCnts[i] = users

(* No slot keeps an inode that Inode_Close has freed.                      *)
InodeLive ==
  \A s \in Slots :
    fdInode[s] # Null =>
      fdInode[s] \in InList \/ \E t \in Tasks : pc[t] = "sync" /\ loc[t].slot = s

(* file.c:19, "get a free slot of g_fileTable": no two descriptors, and no *)
(* two tasks that are opening a file, have the same slot, and every        *)
(* descriptor a task has is an open file, until a fork makes parent and    *)
(* child share slots, which either of them may close.                      *)
DescriptorsSound ==
  ~Forked =>
    \A t, u \in Tasks, f, g \in Fds :
      /\ fdTable[t][f] \in Slots => fdInode[fdTable[t][f]] # Null
      /\ fdTable[t][f] \in Slots /\ fdTable[t][f] = fdTable[u][g] => <<t, f>> = <<u, g>>
      /\ pc[t] \in {"claim", "sync"} /\ fdTable[u][g] \in Slots => loc[t].slot # fdTable[u][g]
=============================================================================
