---------------------------- MODULE FilesProofs -----------------------------
(***************************************************************************)
(* Proofs about Files, for any number of tasks, files and slots.  LiveInv  *)
(* is for processes and kernel threads alike.  FilesInv is for processes   *)
(* only (KThreads is empty), which lose the CPU inside a system call only  *)
(* where they wait for the disk.                                           *)
(***************************************************************************)
EXTENDS Files, FiniteSetTheorems, WellFoundedInduction, TLAPS

(* Types, with the local variables of sys_open.                            *)
FsType ==
  /\ iNo \in [Inodes -> Nat]
  /\ iOpenCnts \in [Inodes -> Int]
  /\ writeDeny \in [Inodes -> BOOLEAN]
  /\ openInodes \in Seq(Inodes)
  /\ fdInode \in [Slots -> Inodes \cup {Null}]
  /\ fdFlag \in [Slots -> {"r", "w"}]
  /\ fdTable \in [Tasks -> [Fds -> Nat \cup {-1}]]
  /\ alive \subseteq Tasks
  /\ busy \in Procs \cup {NoTask}
  /\ pc \in [Tasks -> Labels]
  /\ loc \in [Tasks -> [file : Nat, flag : {"r", "w"}, slot : Nat, inode : Inodes]]
  /\ created \in 0 .. MaxCreate

(* A task in a system call has a slot.                                     *)
InCall == \A t \in Tasks : pc[t] # "idle" => loc[t].slot \in Slots

(* The list has the root's inode, each inode once, and none that is not    *)
(* created yet.                                                            *)
ListSound ==
  /\ 0 \in InList
  /\ \A i \in InList : i <= created
  /\ \A j, k \in DOMAIN openInodes : openInodes[j] = openInodes[k] => j = k

(* The inode of a File_Create is its own and not yet in the list, and has  *)
(* the number that File_Create has given it.                               *)
Creating ==
  \A t \in Tasks :
    pc[t] \in {"create", "sync"} =>
      /\ loc[t].inode \in 1 .. created /\ loc[t].inode \notin InList
      /\ loc[t].file = DataStart + loc[t].inode
      /\ pc[t] = "sync" => iNo[loc[t].inode] = loc[t].file
      /\ \A u \in Tasks : pc[u] \in {"create", "sync"} /\ loc[u].inode = loc[t].inode => u = t

(* What uses an inode: the files that are open, and a File_Create that     *)
(* waits for the disk.                                                     *)
Using ==
  \A s \in Slots :
    fdInode[s] # Null =>
      \/ fdInode[s] \in InList
      \/ \E t \in Tasks : pc[t] = "sync" /\ loc[t].slot = s /\ loc[t].inode = fdInode[s]

(* A count is never too low, whoever shares or overwrites a slot.          *)
Users(i) == Cardinality(SlotsOf(i)) + (IF i = 0 THEN 1 ELSE 0)
Enough == \A i \in InList : iOpenCnts[i] >= Users(i)

(* What holds with kernel threads as well.                                 *)
LiveInv == FsType /\ InCall /\ ListSound /\ Creating /\ Using /\ Enough

(* Among processes: until a task waits for the disk no other one runs, so  *)
(* the slot that it has found is still free when it fills it.              *)
Serial ==
  \A t \in Tasks :
    /\ pc[t] \in {"open", "claim", "create"} => busy = t
    /\ pc[t] \in {"open", "create"} => fdInode[loc[t].slot] = Null
    /\ pc[t] = "claim" => fdInode[loc[t].slot] \in InList

(* Before the first fork the counts are exact, and a File_Create keeps its *)
(* slot.                                                                   *)
Exact == ~Forked => \A i \in InList : iOpenCnts[i] = Users(i)
Keeps ==
  ~Forked => \A t \in Tasks : pc[t] = "sync" => fdInode[loc[t].slot] = loc[t].inode

FilesInv == LiveInv /\ Serial /\ Exact /\ Keeps /\ DescriptorsSound

-----------------------------------------------------------------------------
(* The minimum that File_GetFreeFd and File_AddFdToTask look for is in the *)
(* set.                                                                    *)
LEMMA MinIn ==
  ASSUME NEW S \in SUBSET Nat, S # {}
  PROVE  Min(S) \in S
<1>1. PICK x \in S : \A y \in S : ~(<<y, x>> \in OpToRel(<, Nat))
  BY NatLessThanWellFounded, WFMin
<1>2. \A y \in S : x <= y
  <2> SUFFICES ASSUME NEW y \in S, y < x PROVE FALSE
    OBVIOUS
  <2>1. <<y, x>> \in {ss \in Nat \X Nat : ss[1] < ss[2]}
    OBVIOUS
  <2>2. <<y, x>> \in OpToRel(<, Nat)
    BY <2>1, Zenon DEF OpToRel
  <2> QED BY <1>1, <2>2
<1> QED BY <1>2 DEF Min

(* The constants, in the form the steps need them.                         *)
LEMMA Basics ==
  /\ NoTask \notin Tasks /\ Null \notin Inodes /\ Null \notin Nat
  /\ 0 \in Inodes /\ Inodes = 0 .. MaxCreate /\ MaxCreate \in Nat
  /\ Slots \subseteq Nat /\ IsFiniteSet(Slots)
  /\ Fds \subseteq Nat /\ IsFiniteSet(Fds)
  /\ Names \subseteq Nat /\ Flags \subseteq {"r", "w"}
  /\ DataStart \in Nat /\ \A n \in Nat : n >= DataStart => n \notin Slots
<1>1. IsFiniteSet(Slots) /\ IsFiniteSet(Fds)
  <2>1. 3 \in Int /\ MaxFileOpen - 1 \in Int /\ MaxPerProc - 1 \in Int
    BY FilesAssumption
  <2>2. IsFiniteSet(3 .. MaxFileOpen - 1) /\ IsFiniteSet(3 .. MaxPerProc - 1)
    BY <2>1, FS_Interval
  <2> QED BY <2>2 DEF Slots, Fds
<1> QED BY <1>1, FilesAssumption DEF Inodes, Slots, Fds

(* A slot that is free.                                                    *)
LEMMA FreeSlot ==
  ASSUME FreeSlots # {}
  PROVE  Min(FreeSlots) \in Slots /\ fdInode[Min(FreeSlots)] = Null
<1>1. FreeSlots \in SUBSET Nat
  BY Basics DEF FreeSlots
<1> QED BY <1>1, MinIn DEF FreeSlots

(* File_AddFdToTask writes one descriptor of the task, or none.            *)
LEMMA AddFd ==
  ASSUME FsType, NEW t \in Tasks, NEW g \in Nat, AddFdToTask(t, g)
  PROVE  /\ fdTable' \in [Tasks -> [Fds -> Nat \cup {-1}]]
         /\ fdTable' = fdTable \/ \E f \in Fds : fdTable' = [fdTable EXCEPT ![t][f] = g]
<1>1. CASE FreeFds(t) = {}
  BY <1>1 DEF AddFdToTask, FsType
<1>2. CASE FreeFds(t) # {}
  <2>1. FreeFds(t) \in SUBSET Nat /\ FreeFds(t) \subseteq Fds
    BY Basics DEF FreeFds
  <2>2. Min(FreeFds(t)) \in Fds
    BY <1>2, <2>1, MinIn
  <2>3. fdTable' = [fdTable EXCEPT ![t][Min(FreeFds(t))] = g]
    BY <1>2 DEF AddFdToTask
  <2> QED BY <2>2, <2>3 DEF FsType
<1> QED BY <1>1, <1>2

(* The users of an inode are counted, before and after a step.             *)
LEMMA UsersNat ==
  ASSUME NEW i
  PROVE  /\ IsFiniteSet(SlotsOf(i)) /\ Cardinality(SlotsOf(i)) \in Nat
         /\ Users(i) \in Nat /\ Users(i)' \in Nat
<1>1. \A S \in SUBSET Slots : IsFiniteSet(S) /\ Cardinality(S) \in Nat
  BY Basics, FS_Subset, FS_CardinalityType
<1>2. SlotsOf(i) \in SUBSET Slots /\ SlotsOf(i)' \in SUBSET Slots
  BY DEF SlotsOf
<1>3. Users(i)' = Cardinality(SlotsOf(i)') + (IF i = 0 THEN 1 ELSE 0)
  BY DEF Users
<1>4. Cardinality(SlotsOf(i)) \in Nat /\ Cardinality(SlotsOf(i)') \in Nat
  BY <1>1, <1>2
<1> QED BY <1>1, <1>2, <1>3, <1>4 DEF Users

(* A slot that is free takes inode i: one user more.                       *)
LEMMA Filled ==
  ASSUME FsType, NEW s \in Slots, fdInode[s] = Null, NEW i \in Inodes,
         fdInode' = [fdInode EXCEPT ![s] = i]
  PROVE  /\ Users(i)' = Users(i) + 1
         /\ \A j \in Inodes : j # i => Users(j)' = Users(j)
<1>1. i # Null /\ fdInode \in [Slots -> Inodes \cup {Null}]
  BY Basics DEF FsType
<1>2. SlotsOf(i)' = SlotsOf(i) \cup {s} /\ s \notin SlotsOf(i)
  BY <1>1 DEF SlotsOf
<1>3. Cardinality(SlotsOf(i) \cup {s}) = Cardinality(SlotsOf(i)) + 1
  BY <1>2, UsersNat, FS_AddElement
<1>4. \A j \in Inodes : j # i => SlotsOf(j)' = SlotsOf(j)
  BY <1>1, Basics DEF SlotsOf
<1>5. Users(i)' = Cardinality(SlotsOf(i) \cup {s}) + (IF i = 0 THEN 1 ELSE 0)
  BY <1>2 DEF Users
<1>6. Users(i)' = Users(i) + 1
  BY <1>3, <1>5, UsersNat DEF Users
<1> QED BY <1>4, <1>6 DEF Users

(* A slot that may be in use takes inode i: no other has more users.       *)
LEMMA Overwritten ==
  ASSUME FsType, NEW s \in Slots, NEW i \in Inodes,
         fdInode' = [fdInode EXCEPT ![s] = i]
  PROVE  /\ Users(i)' <= Users(i) + 1
         /\ \A j \in Inodes : j # i => Users(j)' <= Users(j)
<1>1. fdInode \in [Slots -> Inodes \cup {Null}]
  BY DEF FsType
<1>2. \A j : IsFiniteSet(SlotsOf(j)) /\ Cardinality(SlotsOf(j)) \in Nat
  BY UsersNat
<1>3. Users(i)' <= Users(i) + 1
  <2>1. SlotsOf(i)' \in SUBSET (SlotsOf(i) \cup {s})
    BY <1>1 DEF SlotsOf
  <2>2. /\ IsFiniteSet(SlotsOf(i) \cup {s})
        /\ Cardinality(SlotsOf(i) \cup {s}) \in {Cardinality(SlotsOf(i)), Cardinality(SlotsOf(i)) + 1}
    BY <1>2, FS_AddElement
  <2>3. /\ Cardinality(SlotsOf(i)') <= Cardinality(SlotsOf(i) \cup {s})
        /\ Cardinality(SlotsOf(i)') \in Nat
    BY <2>1, <2>2, FS_Subset, FS_CardinalityType
  <2>4. Users(i)' = Cardinality(SlotsOf(i)') + (IF i = 0 THEN 1 ELSE 0)
    BY DEF Users
  <2> QED BY <1>2, <2>2, <2>3, <2>4 DEF Users
<1>4. ASSUME NEW j \in Inodes, j # i PROVE Users(j)' <= Users(j)
  <2>1. SlotsOf(j)' \in SUBSET SlotsOf(j)
    BY <1>1, <1>4 DEF SlotsOf
  <2>2. Cardinality(SlotsOf(j)') <= Cardinality(SlotsOf(j)) /\ Cardinality(SlotsOf(j)') \in Nat
    BY <1>2, <2>1, FS_Subset, FS_CardinalityType
  <2>3. Users(j)' = Cardinality(SlotsOf(j)') + (IF j = 0 THEN 1 ELSE 0)
    BY DEF Users
  <2> QED BY <1>2, <2>2, <2>3 DEF Users
<1> QED BY <1>3, <1>4

(* A slot that inode i uses is freed: one user less.                       *)
LEMMA Freed ==
  ASSUME FsType, NEW s \in Slots, NEW i \in Inodes, fdInode[s] = i,
         fdInode' = [fdInode EXCEPT ![s] = Null]
  PROVE  /\ Users(i)' = Users(i) - 1 /\ Users(i) >= (IF i = 0 THEN 2 ELSE 1)
         /\ \A j \in Inodes : j # i => Users(j)' = Users(j)
         /\ i # 0 /\ Users(i) = 1 => SlotsOf(i) = {s}
<1>1. i # Null /\ fdInode \in [Slots -> Inodes \cup {Null}]
  BY Basics DEF FsType
<1>2. SlotsOf(i)' = SlotsOf(i) \ {s} /\ s \in SlotsOf(i)
  BY <1>1 DEF SlotsOf
<1>3. Cardinality(SlotsOf(i) \ {s}) = Cardinality(SlotsOf(i)) - 1
  BY <1>2, UsersNat, FS_RemoveElement
<1>4. \A j \in Inodes : j # i => SlotsOf(j)' = SlotsOf(j)
  BY <1>1, Basics DEF SlotsOf
<1>5. Users(i)' = Cardinality(SlotsOf(i) \ {s}) + (IF i = 0 THEN 1 ELSE 0)
  BY <1>2 DEF Users
<1>6. Users(i)' = Users(i) - 1
  BY <1>3, <1>5, UsersNat DEF Users
<1>7. Cardinality(SlotsOf(i)) # 0
  BY <1>2, UsersNat, FS_EmptySet
<1>8. Users(i) >= (IF i = 0 THEN 2 ELSE 1)
  BY <1>7, UsersNat DEF Users
<1>9. ASSUME i # 0, Users(i) = 1 PROVE SlotsOf(i) = {s}
  <2>1. Cardinality(SlotsOf(i)) = 1
    BY <1>9, UsersNat DEF Users
  <2>2. PICK x : SlotsOf(i) = {x}
    BY <2>1, UsersNat, FS_Singleton
  <2> QED BY <1>2, <2>2
<1> QED BY <1>4, <1>6, <1>8, <1>9 DEF Users

(* List_Add at the front of openInodes.                                    *)
LEMMA Prepended ==
  ASSUME FsType, ListSound, NEW i \in Inodes, i \notin InList,
         openInodes' = <<i>> \o openInodes
  PROVE  /\ openInodes' \in Seq(Inodes) /\ InList' = InList \cup {i}
         /\ \A j, k \in DOMAIN openInodes' : openInodes'[j] = openInodes'[k] => j = k
<1>1. openInodes \in Seq(Inodes)
  BY DEF FsType
<1>2. /\ openInodes' \in Seq(Inodes) /\ Len(openInodes') = Len(openInodes) + 1
      /\ DOMAIN openInodes' = 1 .. Len(openInodes) + 1
      /\ openInodes'[1] = i
      /\ \A k \in 2 .. Len(openInodes) + 1 : openInodes'[k] = openInodes[k - 1]
  BY <1>1
<1>3. DOMAIN openInodes = 1 .. Len(openInodes) /\ Len(openInodes) \in Nat
  BY <1>1
<1>4. InList' \subseteq InList \cup {i}
  <2> SUFFICES ASSUME NEW k \in DOMAIN openInodes' PROVE openInodes'[k] \in InList \cup {i}
    BY DEF InList
  <2>1. CASE k = 1
    BY <2>1, <1>2
  <2>2. CASE k \in 2 .. Len(openInodes) + 1
    BY <2>2, <1>2, <1>3 DEF InList
  <2> QED BY <2>1, <2>2, <1>2, <1>3
<1>5. InList \cup {i} \subseteq InList'
  <2>1. i \in InList'
    <3>1. 1 \in DOMAIN openInodes'
      BY <1>2, <1>3
    <3> QED BY <3>1, <1>2 DEF InList
  <2>2. ASSUME NEW k \in DOMAIN openInodes PROVE openInodes[k] \in InList'
    <3>1. k + 1 \in 2 .. Len(openInodes) + 1 /\ k + 1 - 1 = k /\ k + 1 \in DOMAIN openInodes'
      BY <1>2, <1>3
    <3> QED BY <3>1, <1>2 DEF InList
  <2> QED BY <2>1, <2>2 DEF InList
<1>6. ASSUME NEW j \in DOMAIN openInodes', NEW k \in DOMAIN openInodes',
             openInodes'[j] = openInodes'[k]
      PROVE  j = k
  <2>1. \A m \in 2 .. Len(openInodes) + 1 : m - 1 \in DOMAIN openInodes /\ openInodes'[m] # i
    <3> SUFFICES ASSUME NEW m \in 2 .. Len(openInodes) + 1
                 PROVE  m - 1 \in DOMAIN openInodes /\ openInodes'[m] # i
      OBVIOUS
    <3>1. m - 1 \in DOMAIN openInodes /\ openInodes'[m] = openInodes[m - 1]
      BY <1>2, <1>3
    <3> QED BY <3>1 DEF InList
  <2>2. CASE j = 1 \/ k = 1
    BY <2>1, <2>2, <1>2, <1>3, <1>6
  <2>3. CASE j # 1 /\ k # 1
    <3>1. /\ j \in 2 .. Len(openInodes) + 1 /\ k \in 2 .. Len(openInodes) + 1
          /\ openInodes[j - 1] = openInodes[k - 1]
      BY <2>3, <1>2, <1>3, <1>6
    <3>2. j - 1 = k - 1
      BY <2>1, <3>1 DEF ListSound
    <3> QED BY <3>1, <3>2
  <2> QED BY <2>2, <2>3
<1> QED BY <1>2, <1>4, <1>5, <1>6

(* List_Remove of an inode that is in openInodes once.                     *)
LEMMA Removed ==
  ASSUME FsType, ListSound, NEW i, NEW n \in DOMAIN openInodes, openInodes[n] = i,
         openInodes' = RemoveAt(openInodes, n)
  PROVE  /\ openInodes' \in Seq(Inodes) /\ InList' = InList \ {i}
         /\ \A j, k \in DOMAIN openInodes' : openInodes'[j] = openInodes'[k] => j = k
<1>1. openInodes \in Seq(Inodes)
  BY DEF FsType
<1>2. /\ DOMAIN openInodes = 1 .. Len(openInodes) /\ Len(openInodes) \in Nat
      /\ n \in 1 .. Len(openInodes)
  BY <1>1
<1> DEFINE a == SubSeq(openInodes, 1, n - 1)
           b == SubSeq(openInodes, n + 1, Len(openInodes))
<1>3. /\ a \in Seq(Inodes) /\ Len(a) = n - 1 /\ \A k \in 1 .. n - 1 : a[k] = openInodes[k]
      /\ b \in Seq(Inodes) /\ Len(b) = Len(openInodes) - n
      /\ \A k \in 1 .. Len(openInodes) - n : b[k] = openInodes[n + k]
  BY <1>1, <1>2, SMTT(30)
<1>4. openInodes' = a \o b
  BY DEF RemoveAt
<1> HIDE DEF a, b
<1> DEFINE p(k) == IF k < n THEN k ELSE k + 1
<1>5. /\ openInodes' \in Seq(Inodes) /\ DOMAIN openInodes' = 1 .. Len(openInodes) - 1
      /\ \A k \in 1 .. Len(openInodes) - 1 : openInodes'[k] = openInodes[p(k)]
  <2>1. /\ openInodes' \in Seq(Inodes) /\ Len(openInodes') = Len(openInodes) - 1
        /\ DOMAIN openInodes' = 1 .. Len(openInodes) - 1
    <3>1. Len(a) + Len(b) = Len(openInodes) - 1
      BY <1>2, <1>3
    <3>2. openInodes' \in Seq(Inodes) /\ Len(openInodes') = Len(a) + Len(b)
      <4>1. a \in Seq(Inodes) /\ b \in Seq(Inodes)
        BY <1>3
      <4> QED BY <4>1, <1>4
    <3> QED BY <3>1, <3>2
  <2>2. ASSUME NEW k \in 1 .. Len(openInodes) - 1
        PROVE  openInodes'[k] = openInodes[p(k)]
    <3>1. CASE k < n
      BY <3>1, <1>2, <1>3, <1>4
    <3>2. CASE ~(k < n)
      <4>1. /\ k - (n - 1) \in 1 .. Len(openInodes) - n /\ n + (k - (n - 1)) = k + 1
            /\ openInodes'[k] = b[k - (n - 1)]
        BY <3>2, <1>2, <1>3, <1>4, SMTT(30)
      <4> QED BY <4>1, <1>3, <3>2
    <3> QED BY <3>1, <3>2
  <2> QED BY <2>1, <2>2
<1>6. \A k \in 1 .. Len(openInodes) - 1 : p(k) \in DOMAIN openInodes /\ p(k) # n
  BY <1>2
<1>7. \A j, k \in 1 .. Len(openInodes) - 1 : p(j) = p(k) => j = k
  BY <1>2
<1>8. \A m \in DOMAIN openInodes : m # n => \E k \in 1 .. Len(openInodes) - 1 : p(k) = m
  <2> SUFFICES ASSUME NEW m \in DOMAIN openInodes, m # n
               PROVE  \E k \in 1 .. Len(openInodes) - 1 : p(k) = m
    OBVIOUS
  <2>1. CASE m < n
    <3>1. m \in 1 .. Len(openInodes) - 1 /\ p(m) = m
      BY <2>1, <1>2
    <3> QED BY <3>1
  <2>2. CASE m > n
    <3>1. m - 1 \in 1 .. Len(openInodes) - 1 /\ p(m - 1) = m
      BY <2>2, <1>2
    <3> QED BY <3>1
  <2> QED BY <2>1, <2>2, <1>2
<1> HIDE DEF p
<1>9. InList' \subseteq InList \ {i}
  BY <1>5, <1>6 DEF InList, ListSound
<1>10. InList \ {i} \subseteq InList'
  BY <1>5, <1>8 DEF InList
<1>11. \A j, k \in DOMAIN openInodes' : openInodes'[j] = openInodes'[k] => j = k
  BY <1>5, <1>6, <1>7 DEF ListSound
<1> QED BY <1>5, <1>9, <1>10, <1>11

-----------------------------------------------------------------------------
(* What the list and the counts say while their variables stay.            *)
LEMMA Frames ==
  /\ UNCHANGED openInodes => InList' = InList
  /\ UNCHANGED fdInode => \A i : Users(i)' = Users(i)
  /\ UNCHANGED alive => Forked' = Forked
  BY DEF InList, Users, SlotsOf, Forked

(* The inodes of the list are inodes.                                      *)
LEMMA Listed ==
  ASSUME FsType
  PROVE  InList \subseteq Inodes /\ InList \subseteq Nat
<1>1. openInodes \in Seq(Inodes)
  BY DEF FsType
<1>2. InList \subseteq Inodes
  BY <1>1 DEF InList
<1> QED BY <1>2, Basics

(* A panic, or a stuttering step, changes nothing that LiveInv is about.   *)
LEMMA PanicLive ==
  ASSUME LiveInv, UNCHANGED <<inodeVars, tableVars, ctlVars, created>>
  PROVE  LiveInv'
<1>1. /\ UNCHANGED <<iNo, iOpenCnts, writeDeny, openInodes, fdInode, fdFlag, fdTable>>
      /\ UNCHANGED <<alive, busy, pc, loc, created>>
  BY DEF inodeVars, tableVars, ctlVars
<1>2. FsType' /\ InCall'
  BY <1>1 DEF LiveInv, FsType, InCall
<1>3. InList' = InList /\ \A i : Users(i)' = Users(i)
  BY <1>1, Frames
<1>4. ListSound' /\ Creating' /\ Using' /\ Enough'
  BY <1>1, <1>3 DEF LiveInv, ListSound, Creating, Using, Enough
<1> QED BY <1>2, <1>4 DEF LiveInv

(* A system call begins: it has found a free slot, and File_Create a new   *)
(* inode.                                                                  *)
LEMMA BeginLive ==
  ASSUME LiveInv, NEW t \in Tasks, pc[t] = "idle",
         FreeSlots # {}, NEW r, NEW l \in {"open", "create"},
         r \in [file : Nat, flag : {"r", "w"}, slot : Nat, inode : Inodes],
         r.slot = Min(FreeSlots),
         pc' = [pc EXCEPT ![t] = l], loc' = [loc EXCEPT ![t] = r],
         busy' = IF t \in Procs THEN t ELSE busy,
         UNCHANGED <<inodeVars, tableVars, alive>>,
         created' \in created .. MaxCreate,
         l = "create" => /\ r.inode = created + 1 /\ created' = created + 1
                         /\ r.file = DataStart + r.inode
  PROVE  LiveInv'
<1>1. /\ UNCHANGED <<iNo, iOpenCnts, writeDeny, openInodes, fdInode, fdFlag, fdTable, alive>>
  BY DEF inodeVars, tableVars
<1>2. r.slot \in Slots
  BY FreeSlot
<1>3. FsType
  BY DEF LiveInv
<1>4. /\ pc'[t] = l /\ loc'[t] = r
      /\ \A u \in Tasks : u # t => pc'[u] = pc[u] /\ loc'[u] = loc[u]
  BY <1>3 DEF FsType
<1>5. created \in Nat /\ created' \in 0 .. MaxCreate /\ created <= created'
  BY <1>3 DEF FsType
<1>6. FsType'
  <2>1. pc' \in [Tasks -> Labels] /\ busy' \in Procs \cup {NoTask}
    BY <1>3 DEF FsType, Labels
  <2>2. loc' \in [Tasks -> [file : Nat, flag : {"r", "w"}, slot : Nat, inode : Inodes]]
    BY <1>3 DEF FsType
  <2> QED BY <1>1, <1>3, <1>5, <2>1, <2>2 DEF FsType
<1>7. InList' = InList /\ \A i : Users(i)' = Users(i)
  BY <1>1, Frames
<1>8. InCall' /\ Enough'
  BY <1>1, <1>2, <1>4, <1>7 DEF LiveInv, InCall, Enough
<1>9. InList \subseteq Nat /\ \A i \in InList : i <= created
  BY <1>3, Listed DEF LiveInv, ListSound
<1>10. ListSound'
  <2>1. \A i \in InList : i <= created'
    BY <1>5, <1>9
  <2> QED BY <1>1, <1>7, <2>1 DEF LiveInv, ListSound
<1>11. Creating'
  <2>1. ASSUME NEW u \in Tasks, u # t, pc'[u] \in {"create", "sync"}
        PROVE  /\ loc'[u].inode \in 1 .. created /\ loc'[u].inode \notin InList
               /\ loc'[u].file = DataStart + loc'[u].inode
               /\ pc'[u] = "sync" => iNo[loc'[u].inode] = loc'[u].file
               /\ \A v \in Tasks : v # t /\ pc'[v] \in {"create", "sync"} /\ loc'[v].inode = loc'[u].inode => v = u
    BY <1>4, <2>1 DEF LiveInv, Creating
  <2>2. l = "create" => /\ r.inode \in 1 .. created' /\ r.inode \notin InList
                        /\ r.inode \notin 1 .. created
    BY <1>5, <1>9
  <2>3. 1 .. created \subseteq 1 .. created'
    BY <1>5
  <2>4. ASSUME NEW u \in Tasks, u # t, pc'[u] \in {"create", "sync"}, l = "create"
        PROVE  loc'[u].inode # r.inode
    BY <2>1, <2>2, <2>4
  <2>5. ASSUME NEW u \in Tasks, pc'[u] \in {"create", "sync"}
        PROVE  /\ loc'[u].inode \in 1 .. created' /\ loc'[u].inode \notin InList
               /\ loc'[u].file = DataStart + loc'[u].inode
               /\ pc'[u] = "sync" => iNo[loc'[u].inode] = loc'[u].file
               /\ \A v \in Tasks : pc'[v] \in {"create", "sync"} /\ loc'[v].inode = loc'[u].inode => v = u
    BY <1>4, <2>1, <2>2, <2>3, <2>4, <2>5
  <2> QED BY <1>1, <1>7, <2>5 DEF Creating
<1>12. Using'
  BY <1>1, <1>4, <1>7 DEF LiveInv, Using
<1> QED BY <1>6, <1>8, <1>10, <1>11, <1>12 DEF LiveInv

(* What Open and a Create that finds a slot do, in the form BeginLive and  *)
(* BeginStep take.                                                         *)
LEMMA Opens ==
  ASSUME LiveInv, NEW t \in Tasks, NEW n \in Names, NEW flag \in Flags, Open(t, n, flag)
  PROVE  /\ FreeSlots # {} /\ pc[t] = "idle"
         /\ \E r \in [file : Nat, flag : {"r", "w"}, slot : Nat, inode : Inodes] :
              r.slot = Min(FreeSlots) /\ loc' = [loc EXCEPT ![t] = r]
         /\ pc' = [pc EXCEPT ![t] = "open"] /\ busy' = (IF t \in Procs THEN t ELSE busy)
         /\ UNCHANGED <<inodeVars, tableVars, alive>>
         /\ created' \in created .. MaxCreate
<1> DEFINE r == [file |-> n, flag |-> flag, slot |-> Min(FreeSlots), inode |-> 0]
<1>1. r \in [file : Nat, flag : {"r", "w"}, slot : Nat, inode : Inodes] /\ r.slot = Min(FreeSlots)
  BY Basics, FreeSlot DEF Open
<1>2. /\ pc[t] = "idle" /\ FreeSlots # {} /\ created' = created
      /\ pc' = [pc EXCEPT ![t] = "open"] /\ loc' = [loc EXCEPT ![t] = r]
      /\ busy' = (IF t \in Procs THEN t ELSE busy)
      /\ UNCHANGED <<inodeVars, tableVars, alive>>
  BY DEF Open
<1>3. created' \in created .. MaxCreate
  BY <1>2 DEF LiveInv, FsType
<1> HIDE DEF r
<1> QED BY <1>1, <1>2, <1>3

(* As Opens, for File_Create.                                              *)
LEMMA Creates ==
  ASSUME LiveInv, NEW t \in Tasks, NEW flag \in Flags, Create(t, flag), FreeSlots # {}
  PROVE  /\ pc[t] = "idle"
         /\ \E r \in [file : Nat, flag : {"r", "w"}, slot : Nat, inode : Inodes] :
              /\ r.slot = Min(FreeSlots) /\ loc' = [loc EXCEPT ![t] = r]
              /\ r.inode = created + 1 /\ r.file = DataStart + r.inode
         /\ pc' = [pc EXCEPT ![t] = "create"] /\ busy' = (IF t \in Procs THEN t ELSE busy)
         /\ UNCHANGED <<inodeVars, tableVars, alive>>
         /\ created' \in created .. MaxCreate /\ created' = created + 1
<1> DEFINE r == [file |-> DataStart + created', flag |-> flag,
                 slot |-> Min(FreeSlots), inode |-> created']
<1>1. /\ pc[t] = "idle" /\ created < MaxCreate /\ created' = created + 1
      /\ pc' = [pc EXCEPT ![t] = "create"] /\ loc' = [loc EXCEPT ![t] = r]
      /\ busy' = (IF t \in Procs THEN t ELSE busy)
      /\ UNCHANGED <<inodeVars, tableVars, alive>>
  BY DEF Create
<1>2. created \in Nat /\ created' \in created .. MaxCreate /\ created' \in Inodes
  BY <1>1, Basics DEF LiveInv, FsType
<1>3. /\ r \in [file : Nat, flag : {"r", "w"}, slot : Nat, inode : Inodes]
      /\ r.slot = Min(FreeSlots) /\ r.inode = created + 1 /\ r.file = DataStart + r.inode
  <2>1. created' \in Nat /\ DataStart + created' \in Nat /\ flag \in {"r", "w"}
    BY <1>1, <1>2, Basics
  <2>2. Min(FreeSlots) \in Nat
    BY Basics, FreeSlot
  <2> QED BY <1>1, <1>2, <2>1, <2>2
<1> HIDE DEF r
<1> QED BY <1>1, <1>2, <1>3

(* sys_open of an existing file.                                           *)
LEMMA OpenLive ==
  ASSUME LiveInv, NEW t \in Tasks, NEW n \in Names, NEW flag \in Flags, Open(t, n, flag)
  PROVE  LiveInv'
  BY Opens, BeginLive

(* sys_open that creates a file: a new inode, or ASSERT file.c:145.        *)
LEMMA CreateLive ==
  ASSUME LiveInv, NEW t \in Tasks, NEW flag \in Flags, Create(t, flag)
  PROVE  LiveInv'
<1>1. CASE FreeSlots = {}
  BY <1>1, PanicLive DEF Create, Panic
<1>2. CASE FreeSlots # {}
  BY <1>2, Creates, BeginLive
<1> QED BY <1>1, <1>2

(* Inode_Open finds the first inode of the list, whatever its number.      *)
LEMMA Opened ==
  ASSUME LiveInv, NEW t \in Tasks, FileOpen(t), NEW i, NEW s,
         i = Found(loc[t].file), s = loc[t].slot
  PROVE  /\ i \in InList /\ i \in Inodes /\ pc[t] = "open" /\ s \in Slots
         /\ iNo' = [iNo EXCEPT ![i] = loc[t].file]
         /\ iOpenCnts' = [iOpenCnts EXCEPT ![i] = @ + 1]
         /\ fdInode' = [fdInode EXCEPT ![s] = i]
         /\ fdFlag' = [fdFlag EXCEPT ![s] = loc[t].flag]
         /\ pc' = [pc EXCEPT ![t] = "claim"] /\ loc' = [loc EXCEPT ![t].inode = i]
         /\ UNCHANGED <<writeDeny, openInodes, fdTable, alive, busy, created>>
         /\ pc'[t] = "claim" /\ loc'[t].slot = s
         /\ \A u \in Tasks : u # t => pc'[u] = pc[u] /\ loc'[u] = loc[u]
         /\ fdInode'[s] = i /\ \A x \in Slots : x # s => fdInode'[x] = fdInode[x]
<1>1. FsType
  BY DEF LiveInv
<1>2. openInodes \in Seq(Inodes) /\ openInodes # <<>>
  <2>1. 0 \in InList /\ openInodes \in Seq(Inodes)
    BY <1>1 DEF LiveInv, ListSound, FsType
  <2> QED BY <2>1 DEF InList
<1>3. i \in InList /\ i \in Inodes
  <2>1. 1 \in DOMAIN openInodes /\ i = openInodes[1]
    BY <1>2 DEF Found
  <2>2. i \in InList
    BY <2>1 DEF InList
  <2> QED BY <1>1, <2>2, Listed
<1>4. pc[t] = "open" /\ s \in Slots
  BY DEF FileOpen, LiveInv, InCall
<1>5. /\ iNo' = [iNo EXCEPT ![i] = loc[t].file]
      /\ iOpenCnts' = [iOpenCnts EXCEPT ![i] = @ + 1]
      /\ fdInode' = [fdInode EXCEPT ![s] = i]
      /\ fdFlag' = [fdFlag EXCEPT ![s] = loc[t].flag]
      /\ pc' = [pc EXCEPT ![t] = "claim"] /\ loc' = [loc EXCEPT ![t].inode = i]
      /\ UNCHANGED <<writeDeny, openInodes, fdTable, alive, busy, created>>
  BY DEF FileOpen
<1>6. /\ pc'[t] = "claim" /\ loc'[t].slot = s
      /\ \A u \in Tasks : u # t => pc'[u] = pc[u] /\ loc'[u] = loc[u]
  BY <1>1, <1>5 DEF FsType
<1>7. fdInode'[s] = i /\ \A x \in Slots : x # s => fdInode'[x] = fdInode[x]
  BY <1>1, <1>4, <1>5 DEF FsType
<1> QED BY <1>3, <1>4, <1>5, <1>6, <1>7

(* File_Open takes its slot, even one that another task has taken.         *)
LEMMA FileOpenLive ==
  ASSUME LiveInv, NEW t \in Tasks, FileOpen(t)
  PROVE  LiveInv'
<1>1. PICK i, s : i = Found(loc[t].file) /\ s = loc[t].slot
  OBVIOUS
<1>2. /\ i \in InList /\ i \in Inodes /\ pc[t] = "open" /\ s \in Slots
      /\ iNo' = [iNo EXCEPT ![i] = loc[t].file]
      /\ iOpenCnts' = [iOpenCnts EXCEPT ![i] = @ + 1]
      /\ fdInode' = [fdInode EXCEPT ![s] = i]
      /\ fdFlag' = [fdFlag EXCEPT ![s] = loc[t].flag]
      /\ pc' = [pc EXCEPT ![t] = "claim"] /\ loc' = [loc EXCEPT ![t].inode = i]
      /\ UNCHANGED <<writeDeny, openInodes, fdTable, alive, busy, created>>
      /\ pc'[t] = "claim" /\ loc'[t].slot = s
      /\ \A u \in Tasks : u # t => pc'[u] = pc[u] /\ loc'[u] = loc[u]
      /\ fdInode'[s] = i /\ \A x \in Slots : x # s => fdInode'[x] = fdInode[x]
  BY <1>1, Opened
<1>3. FsType
  BY DEF LiveInv
<1>4. InList' = InList
  BY <1>2, Frames
<1>5. FsType'
  <2>1. pc' \in [Tasks -> Labels]
    BY <1>2, <1>3 DEF FsType, Labels
  <2>2. loc' \in [Tasks -> [file : Nat, flag : {"r", "w"}, slot : Nat, inode : Inodes]]
    <3>1. /\ loc \in [Tasks -> [file : Nat, flag : {"r", "w"}, slot : Nat, inode : Inodes]]
          /\ i \in Inodes /\ loc' = [loc EXCEPT ![t].inode = i]
      BY <1>2, <1>3 DEF FsType
    <3> QED BY <3>1
  <2>3. fdInode' \in [Slots -> Inodes \cup {Null}] /\ fdFlag' \in [Slots -> {"r", "w"}]
    BY <1>2, <1>3 DEF FsType
  <2>4. iNo' \in [Inodes -> Nat] /\ iOpenCnts' \in [Inodes -> Int]
    BY <1>2, <1>3 DEF FsType
  <2> QED BY <1>2, <1>3, <2>1, <2>2, <2>3, <2>4 DEF FsType
<1>6. InCall' /\ ListSound'
  BY <1>2, <1>4 DEF LiveInv, InCall, ListSound
<1>7. Creating'
  <2>1. \A u \in Tasks : pc'[u] \in {"create", "sync"} =>
          /\ u # t /\ pc'[u] = pc[u] /\ loc'[u] = loc[u]
          /\ loc[u].inode \in Inodes /\ loc[u].inode # i
    BY <1>2, <1>3 DEF LiveInv, Creating, FsType
  <2>2. \A x \in Inodes : x # i => iNo'[x] = iNo[x]
    BY <1>2, <1>3 DEF FsType
  <2> QED BY <1>2, <1>4, <2>1, <2>2 DEF LiveInv, Creating
<1>8. Using'
  BY <1>2, <1>4 DEF LiveInv, Using
<1>9. Enough'
  <2>1. Users(i)' <= Users(i) + 1 /\ \A j \in Inodes : j # i => Users(j)' <= Users(j)
    BY <1>2, <1>3, Overwritten
  <2>2. /\ iOpenCnts'[i] = iOpenCnts[i] + 1
        /\ \A j \in Inodes : j # i => iOpenCnts'[j] = iOpenCnts[j]
    BY <1>2, <1>3 DEF FsType
  <2>3. ASSUME NEW j \in InList PROVE iOpenCnts'[j] >= Users(j)'
    <3>1. j \in Inodes /\ Users(j) \in Nat /\ iOpenCnts[j] \in Int /\ Users(j)' \in Nat
      BY <1>3, Listed, UsersNat DEF FsType
    <3>2. iOpenCnts[j] >= Users(j)
      BY DEF LiveInv, Enough
    <3>3. CASE j # i
      BY <2>1, <2>2, <3>1, <3>2, <3>3
    <3>4. CASE j = i
      BY <2>1, <2>2, <3>1, <3>2, <3>4
    <3> QED BY <3>3, <3>4
  <2> QED BY <1>4, <2>3 DEF Enough
<1> QED BY <1>5, <1>6, <1>7, <1>8, <1>9 DEF LiveInv

(* A system call returns.                                                  *)
LEMMA Returned ==
  ASSUME FsType, NEW t \in Tasks, Return(t)
  PROVE  /\ pc' \in [Tasks -> Labels] /\ busy' \in Procs \cup {NoTask} /\ alive' = alive
         /\ loc' \in [Tasks -> [file : Nat, flag : {"r", "w"}, slot : Nat, inode : Inodes]]
         /\ pc'[t] = "idle" /\ \A u \in Tasks : u # t => pc'[u] = pc[u] /\ loc'[u] = loc[u]
  BY Basics DEF FsType, Return, Labels, NoLoc

(* File_Open ends: the file may be denied, and there may be no descriptor. *)
LEMMA ClaimLive ==
  ASSUME LiveInv, NEW t \in Tasks, Claim(t)
  PROVE  LiveInv'
<1>1. FsType
  BY DEF LiveInv
<1>2. /\ pc[t] = "claim" /\ Return(t)
      /\ UNCHANGED <<iNo, iOpenCnts, openInodes, fdInode, fdFlag, created>>
  BY DEF Claim
<1>3. /\ pc' \in [Tasks -> Labels] /\ busy' \in Procs \cup {NoTask} /\ alive' = alive
      /\ loc' \in [Tasks -> [file : Nat, flag : {"r", "w"}, slot : Nat, inode : Inodes]]
      /\ pc'[t] = "idle" /\ \A u \in Tasks : u # t => pc'[u] = pc[u] /\ loc'[u] = loc[u]
  BY <1>1, <1>2, Returned
<1>4. InList' = InList /\ \A i : Users(i)' = Users(i)
  BY <1>2, Frames
<1>5. /\ writeDeny' \in [Inodes -> BOOLEAN]
      /\ fdTable' \in [Tasks -> [Fds -> Nat \cup {-1}]]
  <2>1. CASE Denied(t)
    BY <1>1, <2>1 DEF Claim, FsType
  <2>2. CASE ~Denied(t)
    <3>1. /\ writeDeny' = [writeDeny EXCEPT ![loc[t].inode] = @ \/ loc[t].flag = "w"]
          /\ AddFdToTask(t, loc[t].slot) /\ loc[t].slot \in Nat
      BY <1>1, <2>2 DEF Claim, FsType
    <3>2. writeDeny' \in [Inodes -> BOOLEAN]
      BY <1>1, <3>1 DEF FsType
    <3> QED BY <1>1, <3>1, <3>2, AddFd
  <2> QED BY <2>1, <2>2
<1>6. FsType'
  BY <1>1, <1>2, <1>3, <1>5 DEF FsType
<1>7. InCall' /\ ListSound' /\ Using' /\ Enough'
  BY <1>2, <1>3, <1>4 DEF LiveInv, InCall, ListSound, Using, Enough
<1>8. Creating'
  BY <1>2, <1>3, <1>4 DEF LiveInv, Creating
<1> QED BY <1>6, <1>7, <1>8 DEF LiveInv

(* File_Create fills its slot and waits for the disk.                      *)
LEMMA CreateFileLive ==
  ASSUME LiveInv, NEW t \in Tasks, CreateFile(t)
  PROVE  LiveInv'
<1>0. PICK i, s : i = loc[t].inode /\ s = loc[t].slot
  OBVIOUS
<1>1. FsType
  BY DEF LiveInv
<1>2. /\ pc[t] = "create" /\ s \in Slots /\ i \in Inodes
      /\ loc[t].file \in Nat /\ loc[t].flag \in {"r", "w"} /\ i \notin InList
  BY <1>0, <1>1 DEF CreateFile, LiveInv, InCall, Creating, FsType
<1>3. /\ iNo' = [iNo EXCEPT ![i] = loc[t].file]
      /\ writeDeny' = [writeDeny EXCEPT ![i] = FALSE]
      /\ fdInode' = [fdInode EXCEPT ![s] = i]
      /\ fdFlag' = [fdFlag EXCEPT ![s] = loc[t].flag]
      /\ pc' = [pc EXCEPT ![t] = "sync"]
      /\ busy' = IF busy = t THEN NoTask ELSE busy
      /\ UNCHANGED <<iOpenCnts, openInodes, fdTable, alive, loc, created>>
  BY <1>0 DEF CreateFile
<1>4. pc'[t] = "sync" /\ \A u \in Tasks : u # t => pc'[u] = pc[u]
  BY <1>1, <1>3 DEF FsType
<1>5. fdInode'[s] = i /\ \A x \in Slots : x # s => fdInode'[x] = fdInode[x]
  BY <1>1, <1>2, <1>3 DEF FsType
<1>6. InList' = InList
  BY <1>3, Frames
<1>7. FsType'
  <2>1. pc' \in [Tasks -> Labels] /\ busy' \in Procs \cup {NoTask}
    BY <1>1, <1>3 DEF FsType, Labels
  <2>2. fdInode' \in [Slots -> Inodes \cup {Null}] /\ fdFlag' \in [Slots -> {"r", "w"}]
    BY <1>1, <1>2, <1>3 DEF FsType
  <2>3. iNo' \in [Inodes -> Nat] /\ writeDeny' \in [Inodes -> BOOLEAN]
    BY <1>1, <1>2, <1>3 DEF FsType
  <2> QED BY <1>1, <1>3, <2>1, <2>2, <2>3 DEF FsType
<1>8. InCall' /\ ListSound'
  BY <1>2, <1>3, <1>4, <1>6 DEF LiveInv, InCall, ListSound
<1>9. Creating'
  <2>1. iNo'[i] = loc[t].file /\ \A x \in Inodes : x # i => iNo'[x] = iNo[x]
    BY <1>1, <1>2, <1>3 DEF FsType
  <2>2. \A u \in Tasks : u # t /\ pc[u] \in {"create", "sync"} => loc[u].inode \in Inodes /\ loc[u].inode # i
    BY <1>0, <1>1, <1>2 DEF LiveInv, Creating, FsType
  <2>3. ASSUME NEW u \in Tasks, pc'[u] \in {"create", "sync"}
        PROVE  /\ pc[u] \in {"create", "sync"}
               /\ pc'[u] = "sync" => iNo'[loc[u].inode] = loc[u].file
    BY <1>0, <1>2, <1>4, <2>1, <2>2, <2>3 DEF LiveInv, Creating
  <2> QED BY <1>3, <1>6, <2>3 DEF LiveInv, Creating
<1>10. Using'
  BY <1>0, <1>3, <1>4, <1>5, <1>6 DEF LiveInv, Using
<1>11. Enough'
  <2>1. ASSUME NEW j \in InList PROVE iOpenCnts[j] >= Users(j)'
    <3>1. j \in Inodes /\ j # i /\ iOpenCnts[j] \in Int /\ Users(j) \in Nat /\ Users(j)' \in Nat
      BY <1>1, <1>2, Listed, UsersNat DEF FsType
    <3>2. Users(j)' <= Users(j)
      BY <1>1, <1>2, <1>3, <3>1, Overwritten
    <3>3. iOpenCnts[j] >= Users(j)
      BY DEF LiveInv, Enough
    <3> QED BY <3>1, <3>2, <3>3
  <2> QED BY <1>3, <1>6, <2>1 DEF Enough
<1> QED BY <1>7, <1>8, <1>9, <1>10, <1>11 DEF LiveInv

(* The slots of the inode of a File_Create: its own, unless another task   *)
(* has closed or taken that.                                               *)
LEMMA OwnSlot ==
  ASSUME LiveInv, NEW t \in Tasks, pc[t] = "sync"
  PROVE  SlotsOf(loc[t].inode) \subseteq {loc[t].slot}
<1>1. loc[t].inode \notin InList /\ loc[t].inode \in Inodes
  BY DEF LiveInv, Creating, FsType
<1> SUFFICES ASSUME NEW x \in Slots, fdInode[x] = loc[t].inode
             PROVE  x = loc[t].slot
  BY DEF SlotsOf
<1>2. PICK u \in Tasks : pc[u] = "sync" /\ loc[u].slot = x /\ loc[u].inode = fdInode[x]
  BY <1>1, Basics DEF LiveInv, Using
<1>3. u = t
  BY <1>2 DEF LiveInv, Creating
<1> QED BY <1>2, <1>3

(* File_Create ends.  The inode joins the list with at most one slot.      *)
LEMMA CreateSyncLive ==
  ASSUME LiveInv, NEW t \in Tasks, CreateSync(t)
  PROVE  LiveInv'
<1> SUFFICES ASSUME /\ openInodes' = <<loc[t].inode>> \o openInodes
                    /\ iOpenCnts' = [iOpenCnts EXCEPT ![loc[t].inode] = 1]
                    /\ AddFdToTask(t, iNo[loc[t].inode])
                    /\ Return(t)
                    /\ UNCHANGED <<iNo, writeDeny, fdInode, fdFlag, created>>
             PROVE  LiveInv'
  BY PanicLive DEF CreateSync, Panic
<1>0. PICK i, s : i = loc[t].inode /\ s = loc[t].slot
  OBVIOUS
<1>1. FsType /\ ListSound
  BY DEF LiveInv
<1>2. /\ pc[t] = "sync" /\ i \in Inodes /\ i \notin InList /\ i \in 1 .. created /\ created \in Nat
      /\ iNo[i] \in Nat
      /\ \A u \in Tasks : pc[u] \in {"create", "sync"} /\ loc[u].inode = i => u = t
  BY <1>0, <1>1 DEF CreateSync, LiveInv, Creating, FsType
<1>3. /\ pc' \in [Tasks -> Labels] /\ busy' \in Procs \cup {NoTask} /\ alive' = alive
      /\ loc' \in [Tasks -> [file : Nat, flag : {"r", "w"}, slot : Nat, inode : Inodes]]
      /\ pc'[t] = "idle" /\ \A u \in Tasks : u # t => pc'[u] = pc[u] /\ loc'[u] = loc[u]
  BY <1>1, Returned
<1>4. /\ openInodes' \in Seq(Inodes) /\ InList' = InList \cup {i}
      /\ \A j, k \in DOMAIN openInodes' : openInodes'[j] = openInodes'[k] => j = k
  BY <1>0, <1>1, <1>2, Prepended
<1>5. FsType'
  <2>1. fdTable' \in [Tasks -> [Fds -> Nat \cup {-1}]]
    BY <1>0, <1>1, <1>2, AddFd
  <2>2. iOpenCnts' \in [Inodes -> Int]
    BY <1>0, <1>1, <1>2 DEF FsType
  <2> QED BY <1>1, <1>3, <1>4, <2>1, <2>2 DEF FsType
<1>6. InCall'
  BY <1>3 DEF LiveInv, InCall
<1>7. ListSound'
  <2>1. \A j \in InList' : j <= created
    BY <1>1, <1>2, <1>4 DEF ListSound
  <2> QED BY <1>1, <1>4, <2>1 DEF ListSound
<1>8. Creating'
  <2>1. \A u \in Tasks : pc'[u] \in {"create", "sync"} =>
          u # t /\ pc'[u] = pc[u] /\ loc'[u] = loc[u] /\ loc[u].inode # i
    BY <1>2, <1>3
  <2>2. Creating
    BY DEF LiveInv
  <2> SUFFICES ASSUME NEW u \in Tasks, pc'[u] \in {"create", "sync"}
               PROVE  /\ loc'[u].inode \in 1 .. created' /\ loc'[u].inode \notin InList'
                      /\ loc'[u].file = DataStart + loc'[u].inode
                      /\ pc'[u] = "sync" => iNo'[loc'[u].inode] = loc'[u].file
                      /\ \A v \in Tasks : pc'[v] \in {"create", "sync"}
                                            /\ loc'[v].inode = loc'[u].inode => v = u
    BY DEF Creating
  <2>3. /\ loc[u].inode \in 1 .. created /\ loc[u].inode \notin InList
        /\ loc[u].file = DataStart + loc[u].inode
        /\ pc[u] = "sync" => iNo[loc[u].inode] = loc[u].file
    BY <2>1, <2>2 DEF Creating
  <2>4. loc'[u].inode \in 1 .. created' /\ loc'[u].inode \notin InList'
    BY <1>4, <2>1, <2>3
  <2>5. loc'[u].file = DataStart + loc'[u].inode
    BY <2>1, <2>3
  <2>6. pc'[u] = "sync" => iNo'[loc'[u].inode] = loc'[u].file
    BY <2>1, <2>3
  <2>7. ASSUME NEW v \in Tasks, pc'[v] \in {"create", "sync"}, loc'[v].inode = loc'[u].inode
        PROVE  v = u
    BY <2>1, <2>2, <2>7 DEF Creating
  <2> QED BY <2>4, <2>5, <2>6, <2>7
<1>9. Using'
  <2> SUFFICES ASSUME NEW x \in Slots, fdInode[x] # Null
               PROVE  \/ fdInode[x] \in InList'
                      \/ \E u \in Tasks : pc'[u] = "sync" /\ loc'[u].slot = x /\ loc'[u].inode = fdInode[x]
    BY DEF Using
  <2>1. CASE fdInode[x] \in InList
    BY <2>1, <1>4
  <2>2. CASE \E u \in Tasks : pc[u] = "sync" /\ loc[u].slot = x /\ loc[u].inode = fdInode[x]
    <3>1. PICK u \in Tasks : pc[u] = "sync" /\ loc[u].slot = x /\ loc[u].inode = fdInode[x]
      BY <2>2
    <3>2. CASE u = t
      BY <1>0, <1>4, <3>1, <3>2
    <3>3. CASE u # t
      BY <1>3, <3>1, <3>3
    <3> QED BY <3>2, <3>3
  <2> QED BY <2>1, <2>2 DEF LiveInv, Using
<1>10. Enough'
  <2>1. Cardinality(SlotsOf(i)) <= 1
    <3>1. IsFiniteSet({s}) /\ Cardinality({s}) = 1
      BY FS_Singleton
    <3>2. SlotsOf(i) \in SUBSET {s}
      BY <1>0, <1>2, OwnSlot
    <3>3. Cardinality(SlotsOf(i)) <= Cardinality({s})
      BY <3>1, <3>2, FS_Subset
    <3> QED BY <3>1, <3>3
  <2>2. Users(i)' = Cardinality(SlotsOf(i)) /\ Cardinality(SlotsOf(i)) \in Nat
    <3>1. Users(i)' = Users(i) /\ i # 0
      BY <1>2, Frames
    <3> QED BY <3>1, UsersNat DEF Users
  <2>3. iOpenCnts'[i] = 1 /\ \A j \in Inodes : j # i => iOpenCnts'[j] = iOpenCnts[j]
    BY <1>0, <1>1, <1>2 DEF FsType
  <2>4. \A j \in InList : /\ j \in Inodes /\ j # i /\ Users(j)' = Users(j)
                          /\ iOpenCnts'[j] = iOpenCnts[j]
    BY <1>1, <1>2, <2>3, Listed, Frames
  <2>5. iOpenCnts'[i] >= Users(i)'
    BY <2>1, <2>2, <2>3
  <2> QED BY <1>4, <2>4, <2>5 DEF LiveInv, Enough
<1> QED BY <1>5, <1>6, <1>7, <1>8, <1>9, <1>10 DEF LiveInv

(* What sys_close does: an inode leaves the list only when its last slot   *)
(* is freed, and the root's never does.                                    *)
LEMMA Closed ==
  ASSUME LiveInv, NEW t \in Tasks, NEW f \in Fds, Close(t, f), NEW g, NEW i,
         g = fdTable[t][f], i = fdInode[g],
         g \in Slots, i # Null, ~(Dropped(i) /\ i \notin InList)
  PROVE  /\ pc[t] = "idle" /\ g # -1 /\ i \in Inodes
         /\ fdTable' = [fdTable EXCEPT ![t][f] = -1]
         /\ writeDeny' = [writeDeny EXCEPT ![i] = FALSE]
         /\ iOpenCnts' = [iOpenCnts EXCEPT ![i] = @ - 1]
         /\ fdInode' = [fdInode EXCEPT ![g] = Null]
         /\ UNCHANGED <<iNo, fdFlag, alive, busy, pc, loc, created>>
         /\ Users(i)' = Users(i) - 1 /\ \A j \in Inodes : j # i => Users(j)' = Users(j)
         /\ iOpenCnts'[i] = iOpenCnts[i] - 1 /\ \A j \in Inodes : j # i => iOpenCnts'[j] = iOpenCnts[j]
         /\ Dropped(i) => i \in InList /\ i # 0 /\ SlotsOf(i) = {g}
         /\ openInodes' \in Seq(Inodes)
         /\ \A j, k \in DOMAIN openInodes' : openInodes'[j] = openInodes'[k] => j = k
         /\ InList' = IF Dropped(i) THEN InList \ {i} ELSE InList
         /\ fdInode'[g] = Null /\ \A x \in Slots : x # g => fdInode'[x] = fdInode[x]
<1>1. FsType /\ ListSound
  BY DEF LiveInv
<1>2. /\ pc[t] = "idle" /\ g # -1 /\ i \in Inodes
      /\ fdTable' = [fdTable EXCEPT ![t][f] = -1]
      /\ writeDeny' = [writeDeny EXCEPT ![i] = FALSE]
      /\ iOpenCnts' = [iOpenCnts EXCEPT ![i] = @ - 1]
      /\ fdInode' = [fdInode EXCEPT ![g] = Null]
      /\ UNCHANGED <<iNo, fdFlag, alive, busy, pc, loc, created>>
  BY <1>1 DEF Close, Uncounted, ctlVars, FsType
<1>3. /\ Users(i)' = Users(i) - 1 /\ Users(i) >= (IF i = 0 THEN 2 ELSE 1)
      /\ \A j \in Inodes : j # i => Users(j)' = Users(j)
      /\ i # 0 /\ Users(i) = 1 => SlotsOf(i) = {g}
  BY <1>1, <1>2, Freed
<1>4. /\ Users(i) \in Nat /\ iOpenCnts'[i] = iOpenCnts[i] - 1
      /\ \A j \in Inodes : j # i => iOpenCnts'[j] = iOpenCnts[j]
  BY <1>1, <1>2, UsersNat DEF FsType
<1>5. Dropped(i) => i \in InList /\ i # 0 /\ SlotsOf(i) = {g}
  <2> SUFFICES ASSUME iOpenCnts[i] = 1, i \in InList
               PROVE  i # 0 /\ SlotsOf(i) = {g}
    BY DEF Dropped
  <2>1. 1 >= Users(i)
    BY DEF LiveInv, Enough
  <2>2. i # 0 /\ Users(i) = 1
    BY <1>3, <1>4, <2>1
  <2> QED BY <1>3, <2>2
<1>6. /\ openInodes' \in Seq(Inodes)
      /\ \A j, k \in DOMAIN openInodes' : openInodes'[j] = openInodes'[k] => j = k
      /\ InList' = IF Dropped(i) THEN InList \ {i} ELSE InList
  <2>1. CASE Dropped(i)
    <3>1. PICK k \in DOMAIN openInodes : openInodes[k] = i /\ openInodes' = RemoveAt(openInodes, k)
      BY <2>1 DEF Close
    <3> QED BY <1>1, <2>1, <3>1, Removed
  <2>2. CASE ~Dropped(i)
    <3>1. openInodes' = openInodes
      BY <2>2 DEF Close
    <3> QED BY <1>1, <2>2, <3>1, Frames DEF FsType, ListSound
  <2> QED BY <2>1, <2>2
<1>7. fdInode'[g] = Null /\ \A x \in Slots : x # g => fdInode'[x] = fdInode[x]
  BY <1>1, <1>2 DEF FsType
<1> QED BY <1>2, <1>3, <1>4, <1>5, <1>6, <1>7

(* sys_close, or one of its panics.                                        *)
LEMMA CloseLive ==
  ASSUME LiveInv, NEW t \in Tasks, NEW f \in Fds, Close(t, f)
  PROVE  LiveInv'
<1>0. PICK g, i : g = fdTable[t][f] /\ i = fdInode[g]
  OBVIOUS
<1>1. CASE \/ g \notin Slots \/ i = Null \/ (Dropped(i) /\ i \notin InList)
  BY <1>0, <1>1, PanicLive DEF Close, Panic
<1>2. CASE g \in Slots /\ i # Null /\ ~(Dropped(i) /\ i \notin InList)
  <2>1. /\ i \in Inodes
        /\ fdTable' = [fdTable EXCEPT ![t][f] = -1]
        /\ writeDeny' = [writeDeny EXCEPT ![i] = FALSE]
        /\ iOpenCnts' = [iOpenCnts EXCEPT ![i] = @ - 1]
        /\ fdInode' = [fdInode EXCEPT ![g] = Null]
        /\ UNCHANGED <<iNo, fdFlag, alive, busy, pc, loc, created>>
    BY <1>0, <1>2, Closed
  <2>2. /\ Users(i)' = Users(i) - 1 /\ \A j \in Inodes : j # i => Users(j)' = Users(j)
        /\ iOpenCnts'[i] = iOpenCnts[i] - 1 /\ \A j \in Inodes : j # i => iOpenCnts'[j] = iOpenCnts[j]
    BY <1>0, <1>2, Closed
  <2>3. /\ Dropped(i) => i \in InList /\ i # 0 /\ SlotsOf(i) = {g}
        /\ openInodes' \in Seq(Inodes)
        /\ \A j, k \in DOMAIN openInodes' : openInodes'[j] = openInodes'[k] => j = k
        /\ InList' = IF Dropped(i) THEN InList \ {i} ELSE InList
        /\ fdInode'[g] = Null /\ \A x \in Slots : x # g => fdInode'[x] = fdInode[x]
    BY <1>0, <1>2, Closed
  <2>4. FsType
    BY DEF LiveInv
  <2>5. FsType'
    <3>1. fdTable' \in [Tasks -> [Fds -> Nat \cup {-1}]]
      BY <2>1, <2>4 DEF FsType
    <3>2. iOpenCnts' \in [Inodes -> Int] /\ writeDeny' \in [Inodes -> BOOLEAN]
      BY <2>1, <2>4 DEF FsType
    <3>3. fdInode' \in [Slots -> Inodes \cup {Null}]
      BY <1>2, <2>1, <2>4 DEF FsType
    <3> QED BY <2>1, <2>3, <2>4, <3>1, <3>2, <3>3 DEF FsType
  <2>6. InCall' /\ ListSound' /\ Creating'
    BY <2>1, <2>3 DEF LiveInv, InCall, ListSound, Creating
  <2>7. Using'
    <3> SUFFICES ASSUME NEW x \in Slots, fdInode'[x] # Null
                 PROVE  \/ fdInode'[x] \in InList'
                        \/ \E u \in Tasks : pc[u] = "sync" /\ loc[u].slot = x /\ loc[u].inode = fdInode'[x]
      BY <2>1 DEF Using
    <3>1. x # g /\ fdInode'[x] = fdInode[x]
      BY <2>3
    <3>2. Dropped(i) => fdInode[x] # i
      BY <2>3, <3>1 DEF SlotsOf
    <3> QED BY <2>3, <3>1, <3>2 DEF LiveInv, Using
  <2>8. Enough'
    <3>1. ASSUME NEW j \in InList PROVE iOpenCnts'[j] >= Users(j)'
      <4>1. j \in Inodes /\ Users(j) \in Nat /\ iOpenCnts[j] \in Int
        BY <2>4, Listed, UsersNat DEF FsType
      <4>2. iOpenCnts[j] >= Users(j)
        BY DEF LiveInv, Enough
      <4>3. CASE j # i
        BY <2>2, <4>1, <4>2, <4>3
      <4>4. CASE j = i
        BY <2>2, <4>1, <4>2, <4>4
      <4> QED BY <4>3, <4>4
    <3>2. InList' \subseteq InList
      BY <2>3
    <3> QED BY <3>1, <3>2 DEF Enough
  <2> QED BY <2>5, <2>6, <2>7, <2>8 DEF LiveInv
<1> QED BY <1>1, <1>2

(* sys_fork, or one of its panics: the counts only grow.                   *)
LEMMA ForkLive ==
  ASSUME LiveInv, NEW t \in Tasks, NEW c \in Children, Fork(t, c)
  PROVE  LiveInv'
<1>1. CASE UNCHANGED <<inodeVars, tableVars, ctlVars, created>>
  BY <1>1, PanicLive
<1>2. CASE /\ alive' = alive \cup {c}
           /\ fdTable' = [fdTable EXCEPT ![c] = fdTable[t]]
           /\ iOpenCnts' = Counted(t)
           /\ UNCHANGED <<iNo, writeDeny, openInodes, fdInode, fdFlag, busy, pc, loc, created>>
  <2>1. FsType /\ c \in Tasks
    BY FilesAssumption DEF LiveInv, Tasks
  <2>2. InList' = InList /\ \A i : Users(i)' = Users(i)
    BY <1>2, Frames
  <2>3. \A i \in Inodes : iOpenCnts'[i] \in Int /\ iOpenCnts'[i] >= iOpenCnts[i] /\ iOpenCnts[i] \in Int
    <3> SUFFICES ASSUME NEW i \in Inodes
                 PROVE  iOpenCnts'[i] \in Int /\ iOpenCnts'[i] >= iOpenCnts[i] /\ iOpenCnts[i] \in Int
      OBVIOUS
    <3> DEFINE S == {f \in Fds : fdTable[t][f] # -1 /\ fdInode[fdTable[t][f]] = i}
    <3>1. S \in SUBSET Fds
      OBVIOUS
    <3>2. IsFiniteSet(S)
      BY <3>1, Basics, FS_Subset
    <3>3. Cardinality(S) \in Nat
      BY <3>2, FS_CardinalityType
    <3>4. iOpenCnts'[i] = iOpenCnts[i] + Cardinality(S)
      BY <1>2 DEF Counted
    <3>5. iOpenCnts[i] \in Int
      BY <2>1 DEF FsType
    <3> HIDE DEF S
    <3> QED BY <3>3, <3>4, <3>5
  <2>4. FsType'
    <3>1. iOpenCnts' \in [Inodes -> Int]
      <4>1. iOpenCnts' = [i \in Inodes |-> iOpenCnts'[i]]
        BY <1>2 DEF Counted
      <4> QED BY <2>3, <4>1
    <3>2. fdTable' \in [Tasks -> [Fds -> Nat \cup {-1}]] /\ alive' \subseteq Tasks
      BY <1>2, <2>1 DEF FsType
    <3> QED BY <1>2, <2>1, <3>1, <3>2 DEF FsType
  <2>5. InCall' /\ ListSound' /\ Using'
    BY <1>2, <2>2 DEF LiveInv, InCall, ListSound, Using
  <2>6. Creating'
    BY <1>2, <2>2 DEF LiveInv, Creating
  <2>7. Enough'
    <3>1. ASSUME NEW i \in InList PROVE iOpenCnts'[i] >= Users(i)
      <4>1. i \in Inodes /\ Users(i) \in Nat
        BY <2>1, Listed, UsersNat
      <4>2. iOpenCnts[i] >= Users(i)
        BY DEF LiveInv, Enough
      <4> QED BY <2>3, <4>1, <4>2
    <3> QED BY <2>2, <3>1 DEF Enough
  <2> QED BY <2>4, <2>5, <2>6, <2>7 DEF LiveInv
<1> QED BY <1>1, <1>2 DEF Fork, Panic

(* Init: the root directory is open, and no file.                          *)
LEMMA InitFiles ==
  ASSUME Init
  PROVE  FilesInv
<1>1. FsType
  BY Basics DEF Init, FsType, Labels, NoLoc
<1>2. InCall /\ Serial /\ Creating /\ Using /\ Keeps
  BY DEF Init, InCall, Serial, Creating, Using, Keeps
<1>3. InList = {0}
  BY DEF Init, InList
<1>4. ListSound
  BY <1>3 DEF Init, ListSound
<1>5. SlotsOf(0) = {}
  BY Basics DEF Init, SlotsOf
<1>6. Users(0) = 1
  BY <1>5, FS_EmptySet DEF Users
<1>7. Enough /\ Exact
  BY <1>3, <1>6, Basics DEF Init, Enough, Exact
<1>8. DescriptorsSound
  BY Basics DEF Init, DescriptorsSound
<1> QED BY <1>1, <1>2, <1>4, <1>7, <1>8 DEF FilesInv, LiveInv

(* LiveInv is inductive, with any number of kernel threads.                *)
LEMMA LiveStep ==
  ASSUME LiveInv, [Next]_vars
  PROVE  LiveInv'
<1>1. CASE UNCHANGED vars
  BY <1>1, PanicLive DEF vars
<1>2. CASE Halted
  BY <1>2, PanicLive DEF Halted, vars
<1>3. ASSUME NEW t \in Tasks, TaskStep(t) PROVE LiveInv'
  <2>1. ASSUME NEW n \in Names, NEW flag \in Flags, Open(t, n, flag) PROVE LiveInv'
    BY <2>1, OpenLive
  <2>2. CASE FileOpen(t)
    BY <2>2, FileOpenLive
  <2>3. CASE Claim(t)
    BY <2>3, ClaimLive
  <2>4. ASSUME NEW flag \in Flags, Create(t, flag) PROVE LiveInv'
    BY <2>4, CreateLive
  <2>5. CASE CreateFile(t)
    BY <2>5, CreateFileLive
  <2>6. CASE CreateSync(t)
    BY <2>6, CreateSyncLive
  <2>7. ASSUME NEW f \in Fds, Close(t, f) PROVE LiveInv'
    BY <2>7, CloseLive
  <2>8. ASSUME NEW c \in Children, Fork(t, c) PROVE LiveInv'
    BY <2>8, ForkLive
  <2> QED BY <1>3, <2>1, <2>2, <2>3, <2>4, <2>5, <2>6, <2>7, <2>8 DEF TaskStep
<1> QED BY <1>1, <1>2, <1>3 DEF Next

(* LiveInv holds in every reachable state, with and without kernel threads. *)
THEOREM LiveInvariance == Spec => []LiveInv
<1>1. Init => LiveInv
  BY InitFiles DEF FilesInv
<1>2. LiveInv /\ [Next]_vars => LiveInv'
  BY LiveStep
<1> QED BY <1>1, <1>2, PTL DEF Spec

(* InodeLive: no slot of g_fileTable keeps an inode that Inode_Close has   *)
(* freed, for any tasks, kernel threads that share a slot included, any    *)
(* number of forks, files and slots.                                       *)
THEOREM InodeLiveHolds == Spec => []InodeLive
<1>1. LiveInv => InodeLive
  BY DEF LiveInv, Using, InodeLive
<1> QED BY <1>1, LiveInvariance, PTL

-----------------------------------------------------------------------------
(* The steps of processes: what Serial, Exact, Keeps and DescriptorsSound  *)
(* add to LiveInv.                                                         *)

(* While task t runs, no other one is between two steps of a system call,  *)
(* except where it waits for the disk.                                     *)
LEMMA Alone ==
  ASSUME FilesInv, NEW t \in Tasks, busy \in {NoTask, t}
  PROVE  \A u \in Tasks : u # t => pc[u] \in {"idle", "sync"}
  BY Basics DEF FilesInv, LiveInv, FsType, Serial, Labels

(* Before a fork the slot of a File_Create that waits for the disk is      *)
(* neither free nor one of an inode in the list.                           *)
LEMMA SyncSlot ==
  ASSUME FilesInv, ~Forked, NEW u \in Tasks, pc[u] = "sync"
  PROVE  /\ loc[u].slot \in Slots /\ fdInode[loc[u].slot] # Null
         /\ fdInode[loc[u].slot] \notin InList
<1>1. fdInode[loc[u].slot] = loc[u].inode /\ loc[u].slot \in Slots
  BY DEF FilesInv, LiveInv, Keeps, InCall
<1>2. loc[u].inode \in Inodes /\ loc[u].inode \notin InList
  BY DEF FilesInv, LiveInv, FsType, Creating
<1> QED BY <1>1, <1>2, Basics

(* A panic, or a stuttering step, changes nothing that FilesInv is about.  *)
LEMMA PanicStep ==
  ASSUME FilesInv, UNCHANGED <<inodeVars, tableVars, ctlVars, created>>
  PROVE  FilesInv'
<1>1. /\ UNCHANGED <<iNo, iOpenCnts, writeDeny, openInodes, fdInode, fdFlag, fdTable>>
      /\ UNCHANGED <<alive, busy, pc, loc, created>>
  BY DEF inodeVars, tableVars, ctlVars
<1>2. LiveInv'
  BY PanicLive DEF FilesInv
<1>3. InList' = InList /\ Forked' = Forked /\ \A i : Users(i)' = Users(i)
  BY <1>1, Frames
<1>4. Serial' /\ Exact' /\ Keeps' /\ DescriptorsSound'
  BY <1>1, <1>3 DEF FilesInv, Serial, Exact, Keeps, DescriptorsSound
<1> QED BY <1>2, <1>4 DEF FilesInv

(* A system call begins: it has found a free slot and nobody can take it.  *)
LEMMA BeginStep ==
  ASSUME KThreads = {}, FilesInv, LiveInv', NEW t \in Tasks, busy \in {NoTask, t},
         pc[t] = "idle", FreeSlots # {}, NEW r, NEW l \in {"open", "create"},
         r.slot = Min(FreeSlots),
         pc' = [pc EXCEPT ![t] = l], loc' = [loc EXCEPT ![t] = r],
         busy' = IF t \in Procs THEN t ELSE busy,
         UNCHANGED <<inodeVars, tableVars, alive>>
  PROVE  FilesInv'
<1>1. /\ UNCHANGED <<iNo, iOpenCnts, writeDeny, openInodes, fdInode, fdFlag, fdTable, alive>>
      /\ busy' = t
  BY DEF inodeVars, tableVars, Tasks
<1>2. fdInode[r.slot] = Null
  BY FreeSlot
<1>3. /\ pc'[t] = l /\ loc'[t] = r
      /\ \A u \in Tasks : u # t => pc'[u] = pc[u] /\ loc'[u] = loc[u] /\ pc[u] \in {"idle", "sync"}
  BY Alone DEF FilesInv, LiveInv, FsType
<1>4. InList' = InList /\ Forked' = Forked /\ \A i : Users(i)' = Users(i)
  BY <1>1, Frames
<1>5. Serial'
  BY <1>1, <1>2, <1>3, <1>4 DEF FilesInv, Serial
<1>6. Exact' /\ Keeps' /\ DescriptorsSound'
  BY <1>1, <1>3, <1>4 DEF FilesInv, Exact, Keeps, DescriptorsSound
<1> QED BY <1>5, <1>6 DEF FilesInv

(* sys_open of an existing file.                                           *)
LEMMA OpenStep ==
  ASSUME KThreads = {}, FilesInv, NEW t \in Tasks, busy \in {NoTask, t},
         NEW n \in Names, NEW flag \in Flags, Open(t, n, flag)
  PROVE  FilesInv'
<1>1. LiveInv /\ LiveInv'
  BY OpenLive DEF FilesInv
<1> QED BY <1>1, Opens, BeginStep

(* sys_open that creates a file: a new inode, or ASSERT file.c:145.        *)
LEMMA CreateStep ==
  ASSUME KThreads = {}, FilesInv, NEW t \in Tasks, busy \in {NoTask, t},
         NEW flag \in Flags, Create(t, flag)
  PROVE  FilesInv'
<1>1. CASE FreeSlots = {}
  BY <1>1, PanicStep DEF Create, Panic
<1>2. CASE FreeSlots # {}
  <2>1. LiveInv /\ LiveInv'
    BY CreateLive DEF FilesInv
  <2> QED BY <1>2, <2>1, Creates, BeginStep
<1> QED BY <1>1, <1>2

(* The slot that File_Open takes is still free.                            *)
LEMMA FileOpenStep ==
  ASSUME FilesInv, NEW t \in Tasks, busy \in {NoTask, t}, FileOpen(t)
  PROVE  FilesInv'
<1>0. PICK i, s : i = Found(loc[t].file) /\ s = loc[t].slot
  OBVIOUS
<1>1. LiveInv /\ FsType /\ LiveInv'
  BY FileOpenLive DEF FilesInv, LiveInv
<1>2. /\ i \in InList /\ i \in Inodes /\ pc[t] = "open" /\ s \in Slots
      /\ iOpenCnts' = [iOpenCnts EXCEPT ![i] = @ + 1]
      /\ fdInode' = [fdInode EXCEPT ![s] = i]
      /\ UNCHANGED <<openInodes, fdTable, alive, busy>>
      /\ pc'[t] = "claim" /\ loc'[t].slot = s
      /\ \A u \in Tasks : u # t => pc'[u] = pc[u] /\ loc'[u] = loc[u]
      /\ fdInode'[s] = i /\ \A x \in Slots : x # s => fdInode'[x] = fdInode[x]
  BY <1>0, <1>1, Opened
<1>3. fdInode[s] = Null
  BY <1>0, <1>2 DEF FilesInv, Serial
<1>4. /\ InList' = InList /\ Forked' = Forked
      /\ \A u \in Tasks : u # t => pc[u] \in {"idle", "sync"}
  BY <1>2, Alone, Frames
<1>5. Serial'
  BY <1>2, <1>3, <1>4 DEF FilesInv, Serial
<1>6. Exact'
  <2>1. Users(i)' = Users(i) + 1 /\ \A j \in Inodes : j # i => Users(j)' = Users(j)
    BY <1>1, <1>2, <1>3, Filled
  <2>2. /\ iOpenCnts'[i] = iOpenCnts[i] + 1
        /\ \A j \in Inodes : j # i => iOpenCnts'[j] = iOpenCnts[j]
    BY <1>1, <1>2 DEF FsType
  <2>3. ASSUME ~Forked, NEW j \in InList PROVE iOpenCnts'[j] = Users(j)'
    <3>1. j \in Inodes
      BY <1>1, Listed
    <3>2. iOpenCnts[j] = Users(j)
      BY <2>3 DEF FilesInv, Exact
    <3> QED BY <2>1, <2>2, <3>1, <3>2
  <2> QED BY <1>4, <2>3 DEF Exact
<1>7. Keeps'
  <2>1. ~Forked => \A u \in Tasks : pc[u] = "sync" => loc[u].slot \in Slots /\ loc[u].slot # s
    BY <1>1, <1>3, SyncSlot
  <2> QED BY <1>2, <1>4, <2>1 DEF FilesInv, Keeps
<1>8. DescriptorsSound'
  <2> SUFFICES ASSUME ~Forked, NEW u \in Tasks, NEW v \in Tasks, NEW f \in Fds, NEW g \in Fds
               PROVE  /\ fdTable[u][f] \in Slots => fdInode'[fdTable[u][f]] # Null
                      /\ fdTable[u][f] \in Slots /\ fdTable[u][f] = fdTable[v][g] => <<u, f>> = <<v, g>>
                      /\ pc'[u] \in {"claim", "sync"} /\ fdTable[v][g] \in Slots => loc'[u].slot # fdTable[v][g]
    BY <1>2, <1>4 DEF DescriptorsSound
  <2>1. /\ fdTable[u][f] \in Slots => fdInode[fdTable[u][f]] # Null
        /\ fdTable[v][g] \in Slots => fdInode[fdTable[v][g]] # Null
        /\ fdTable[u][f] \in Slots /\ fdTable[u][f] = fdTable[v][g] => <<u, f>> = <<v, g>>
        /\ pc[u] \in {"claim", "sync"} /\ fdTable[v][g] \in Slots => loc[u].slot # fdTable[v][g]
    BY DEF FilesInv, DescriptorsSound
  <2> QED BY <1>2, <1>3, <2>1, Basics
<1> QED BY <1>1, <1>5, <1>6, <1>7, <1>8 DEF FilesInv

(* A task that returns has got g as a descriptor, or none: g is not a slot *)
(* or one that is in use and that nobody else has.                         *)
LEMMA DescriptorAdded ==
  ASSUME FsType, DescriptorsSound, NEW t \in Tasks, NEW g \in Nat,
         AddFdToTask(t, g), Return(t), fdInode' = fdInode,
         ~Forked /\ g \in Slots =>
           /\ fdInode[g] # Null
           /\ \A u \in Tasks, f \in Fds : fdTable[u][f] # g
           /\ \A u \in Tasks : u # t /\ pc[u] \in {"claim", "sync"} => loc[u].slot # g
  PROVE  DescriptorsSound'
<1>1. /\ pc'[t] = "idle" /\ \A u \in Tasks : u # t => pc'[u] = pc[u] /\ loc'[u] = loc[u]
      /\ Forked' = Forked
  BY Returned, Frames
<1>2. CASE fdTable' = fdTable
  BY <1>1, <1>2 DEF DescriptorsSound
<1>3. CASE \E f \in Fds : fdTable' = [fdTable EXCEPT ![t][f] = g]
  <2>1. PICK d \in Fds : fdTable' = [fdTable EXCEPT ![t][d] = g]
    BY <1>3
  <2>2. \A u \in Tasks, f \in Fds :
          fdTable'[u][f] = IF u = t /\ f = d THEN g ELSE fdTable[u][f]
    BY <2>1 DEF FsType
  <2> SUFFICES ASSUME ~Forked, NEW u \in Tasks, NEW v \in Tasks, NEW f \in Fds, NEW h \in Fds
               PROVE  /\ fdTable'[u][f] \in Slots => fdInode[fdTable'[u][f]] # Null
                      /\ fdTable'[u][f] \in Slots /\ fdTable'[u][f] = fdTable'[v][h] => <<u, f>> = <<v, h>>
                      /\ pc'[u] \in {"claim", "sync"} /\ fdTable'[v][h] \in Slots => loc'[u].slot # fdTable'[v][h]
    BY <1>1 DEF DescriptorsSound
  <2>3. /\ fdTable[u][f] \in Slots => fdInode[fdTable[u][f]] # Null
        /\ fdTable[u][f] \in Slots /\ fdTable[u][f] = fdTable[v][h] => <<u, f>> = <<v, h>>
        /\ pc[u] \in {"claim", "sync"} /\ fdTable[v][h] \in Slots => loc[u].slot # fdTable[v][h]
    BY DEF DescriptorsSound
  <2>4. fdTable'[u][f] \in Slots => fdInode[fdTable'[u][f]] # Null
    BY <2>2, <2>3
  <2>5. fdTable'[u][f] \in Slots /\ fdTable'[u][f] = fdTable'[v][h] => <<u, f>> = <<v, h>>
    <3>1. CASE u = t /\ f = d
      BY <2>2, <3>1
    <3>2. CASE v = t /\ h = d
      BY <2>2, <3>2
    <3>3. CASE ~(u = t /\ f = d) /\ ~(v = t /\ h = d)
      BY <2>2, <2>3, <3>3
    <3> QED BY <3>1, <3>2, <3>3
  <2>6. pc'[u] \in {"claim", "sync"} /\ fdTable'[v][h] \in Slots => loc'[u].slot # fdTable'[v][h]
    BY <1>1, <2>2, <2>3
  <2> QED BY <2>4, <2>5, <2>6
<1> QED BY <1>2, <1>3, AddFd

(* File_Open ends: its slot is not another's.                              *)
LEMMA ClaimStep ==
  ASSUME FilesInv, NEW t \in Tasks, busy \in {NoTask, t}, Claim(t)
  PROVE  FilesInv'
<1>1. FsType /\ LiveInv' /\ DescriptorsSound
  BY ClaimLive DEF FilesInv, LiveInv
<1>2. /\ pc[t] = "claim" /\ Return(t)
      /\ UNCHANGED <<iNo, iOpenCnts, openInodes, fdInode, fdFlag, created>>
  BY DEF Claim
<1>3. /\ alive' = alive /\ pc'[t] = "idle"
      /\ \A u \in Tasks : u # t => pc'[u] = pc[u] /\ loc'[u] = loc[u]
  BY <1>1, <1>2, Returned
<1>4. \A u \in Tasks : u # t => pc[u] \in {"idle", "sync"}
  BY Alone
<1>5. InList' = InList /\ Forked' = Forked /\ \A i : Users(i)' = Users(i)
  BY <1>2, <1>3, Frames
<1>6. loc[t].slot \in Slots /\ loc[t].slot \in Nat /\ fdInode[loc[t].slot] \in InList
  BY <1>2, Basics DEF FilesInv, LiveInv, InCall, Serial
<1>7. DescriptorsSound'
  <2>1. CASE Denied(t)
    <3>1. fdTable' = fdTable
      BY <2>1 DEF Claim
    <3> QED BY <1>1, <1>2, <1>3, <1>5, <3>1 DEF DescriptorsSound
  <2>2. CASE ~Denied(t)
    <3>1. AddFdToTask(t, loc[t].slot)
      BY <2>2 DEF Claim
    <3>2. ~Forked => \A u \in Tasks : u # t /\ pc[u] \in {"claim", "sync"} => loc[u].slot # loc[t].slot
      BY <1>4, <1>6, SyncSlot
    <3>3. ~Forked => \A u \in Tasks, f \in Fds : fdTable[u][f] # loc[t].slot
      BY <1>2, <1>6 DEF FilesInv, DescriptorsSound
    <3>4. fdInode[loc[t].slot] # Null
      BY <1>1, <1>6, Listed, Basics
    <3> QED BY <1>1, <1>2, <1>6, <3>1, <3>2, <3>3, <3>4, DescriptorAdded
  <2> QED BY <2>1, <2>2
<1>8. Serial' /\ Exact' /\ Keeps'
  BY <1>2, <1>3, <1>4, <1>5 DEF FilesInv, Serial, Exact, Keeps
<1> QED BY <1>1, <1>7, <1>8 DEF FilesInv

(* File_Create fills a slot that is still free.                            *)
LEMMA CreateFileStep ==
  ASSUME FilesInv, NEW t \in Tasks, busy \in {NoTask, t}, CreateFile(t)
  PROVE  FilesInv'
<1>0. PICK i, s : i = loc[t].inode /\ s = loc[t].slot
  OBVIOUS
<1>1. FsType /\ LiveInv'
  BY CreateFileLive DEF FilesInv, LiveInv
<1>2. /\ pc[t] = "create" /\ s \in Slots /\ fdInode[s] = Null /\ i \in Inodes /\ i \notin InList
  BY <1>0, <1>1 DEF CreateFile, FilesInv, LiveInv, InCall, Serial, Creating, FsType
<1>3. /\ fdInode' = [fdInode EXCEPT ![s] = i] /\ pc' = [pc EXCEPT ![t] = "sync"]
      /\ UNCHANGED <<iOpenCnts, openInodes, fdTable, alive, loc>>
  BY <1>0 DEF CreateFile
<1>4. /\ pc'[t] = "sync"
      /\ \A u \in Tasks : u # t => pc'[u] = pc[u] /\ pc[u] \in {"idle", "sync"}
  BY <1>1, <1>3, Alone DEF FsType
<1>5. fdInode'[s] = i /\ \A x \in Slots : x # s => fdInode'[x] = fdInode[x]
  BY <1>1, <1>2, <1>3 DEF FsType
<1>6. InList' = InList /\ Forked' = Forked
  BY <1>3, Frames
<1>7. Serial'
  BY <1>4 DEF Serial
<1>8. Exact'
  <2>1. \A j \in InList : j \in Inodes /\ j # i
    BY <1>1, <1>2, Listed
  <2>2. \A j \in InList : Users(j)' = Users(j)
    BY <1>1, <1>2, <1>3, <2>1, Filled
  <2> QED BY <1>3, <1>6, <2>2 DEF FilesInv, Exact
<1>9. Keeps'
  <2>1. ~Forked => \A u \in Tasks : pc[u] = "sync" => loc[u].slot \in Slots /\ loc[u].slot # s
    BY <1>2, SyncSlot
  <2> QED BY <1>0, <1>3, <1>4, <1>5, <1>6, <2>1 DEF FilesInv, Keeps
<1>10. DescriptorsSound'
  <2> SUFFICES ASSUME ~Forked, NEW u \in Tasks, NEW v \in Tasks, NEW f \in Fds, NEW g \in Fds
               PROVE  /\ fdTable[u][f] \in Slots => fdInode'[fdTable[u][f]] # Null
                      /\ fdTable[u][f] \in Slots /\ fdTable[u][f] = fdTable[v][g] => <<u, f>> = <<v, g>>
                      /\ pc'[u] \in {"claim", "sync"} /\ fdTable[v][g] \in Slots => loc[u].slot # fdTable[v][g]
    BY <1>3, <1>6 DEF DescriptorsSound
  <2>1. /\ fdTable[u][f] \in Slots => fdInode[fdTable[u][f]] # Null
        /\ fdTable[v][g] \in Slots => fdInode[fdTable[v][g]] # Null
        /\ fdTable[u][f] \in Slots /\ fdTable[u][f] = fdTable[v][g] => <<u, f>> = <<v, g>>
        /\ pc[u] \in {"claim", "sync"} /\ fdTable[v][g] \in Slots => loc[u].slot # fdTable[v][g]
    BY DEF FilesInv, DescriptorsSound
  <2> QED BY <1>0, <1>2, <1>4, <1>5, <2>1, Basics
<1> QED BY <1>1, <1>7, <1>8, <1>9, <1>10 DEF FilesInv

(* File_Create ends: before a fork the inode has its slot, and the         *)
(* descriptor, the number of the inode, is no slot.                        *)
LEMMA CreateSyncStep ==
  ASSUME FilesInv, NEW t \in Tasks, busy \in {NoTask, t}, CreateSync(t)
  PROVE  FilesInv'
<1> SUFFICES ASSUME /\ openInodes' = <<loc[t].inode>> \o openInodes
                    /\ iOpenCnts' = [iOpenCnts EXCEPT ![loc[t].inode] = 1]
                    /\ AddFdToTask(t, iNo[loc[t].inode])
                    /\ Return(t)
                    /\ UNCHANGED <<iNo, writeDeny, fdInode, fdFlag, created>>
             PROVE  FilesInv'
  BY PanicStep DEF CreateSync, Panic
<1>0. PICK i, s : i = loc[t].inode /\ s = loc[t].slot
  OBVIOUS
<1>1. LiveInv /\ FsType /\ ListSound /\ DescriptorsSound /\ LiveInv'
  BY CreateSyncLive DEF FilesInv, LiveInv
<1>2. /\ pc[t] = "sync" /\ i \in Inodes /\ i \notin InList /\ i \in 1 .. created /\ created \in Nat
      /\ iNo[i] = DataStart + i /\ s \in Slots
  BY <1>0, <1>1 DEF CreateSync, LiveInv, Creating, InCall, FsType
<1>3. /\ alive' = alive /\ pc'[t] = "idle"
      /\ \A u \in Tasks : u # t => pc'[u] = pc[u] /\ loc'[u] = loc[u]
  BY <1>1, Returned
<1>4. \A u \in Tasks : u # t => pc[u] \in {"idle", "sync"}
  BY Alone
<1>5. InList' = InList \cup {i}
  BY <1>0, <1>1, <1>2, Prepended
<1>6. Forked' = Forked /\ \A j : Users(j)' = Users(j)
  BY <1>3, Frames
<1>7. Serial' /\ Keeps'
  BY <1>3, <1>4, <1>6 DEF FilesInv, Serial, Keeps
<1>8. Exact'
  <2>1. ~Forked => Users(i) = 1
    <3>1. ~Forked => s \in SlotsOf(i)
      BY <1>0, <1>2 DEF FilesInv, Keeps, SlotsOf
    <3>2. ~Forked => SlotsOf(i) = {s}
      BY <1>0, <1>1, <1>2, <3>1, OwnSlot
    <3>3. Cardinality({s}) = 1
      BY FS_Singleton
    <3>4. i # 0
      BY <1>2
    <3>5. ~Forked => Cardinality(SlotsOf(i)) = 1
      BY <3>2, <3>3
    <3> QED BY <3>4, <3>5 DEF Users
  <2>2. iOpenCnts'[i] = 1 /\ \A j \in Inodes : j # i => iOpenCnts'[j] = iOpenCnts[j]
    BY <1>0, <1>1, <1>2 DEF FsType
  <2>3. \A j \in InList : iOpenCnts'[j] = iOpenCnts[j]
    BY <1>1, <1>2, <2>2, Listed
  <2> QED BY <1>5, <1>6, <2>1, <2>2, <2>3 DEF FilesInv, Exact
<1>9. DescriptorsSound'
  <2>1. iNo[i] \in Nat /\ iNo[i] >= DataStart
    BY <1>2, Basics
  <2>2. iNo[i] \notin Slots
    BY <2>1, Basics
  <2> QED BY <1>0, <1>1, <2>1, <2>2, DescriptorAdded
<1> QED BY <1>1, <1>7, <1>8, <1>9 DEF FilesInv

(* sys_close, or one of its panics: before a fork no other descriptor and  *)
(* no File_Create has the slot that is freed.                              *)
LEMMA CloseStep ==
  ASSUME FilesInv, NEW t \in Tasks, busy \in {NoTask, t}, NEW f \in Fds, Close(t, f)
  PROVE  FilesInv'
<1>0. PICK g, i : g = fdTable[t][f] /\ i = fdInode[g]
  OBVIOUS
<1>1. CASE \/ g \notin Slots \/ i = Null \/ (Dropped(i) /\ i \notin InList)
  BY <1>0, <1>1, PanicStep DEF Close, Panic
<1>2. CASE g \in Slots /\ i # Null /\ ~(Dropped(i) /\ i \notin InList)
  <2>1. LiveInv /\ FsType /\ LiveInv'
    BY CloseLive DEF FilesInv, LiveInv
  <2>2. /\ pc[t] = "idle" /\ i \in Inodes
        /\ fdTable' = [fdTable EXCEPT ![t][f] = -1]
        /\ UNCHANGED <<alive, busy, pc, loc>>
        /\ InList' = IF Dropped(i) THEN InList \ {i} ELSE InList
        /\ fdInode'[g] = Null /\ \A x \in Slots : x # g => fdInode'[x] = fdInode[x]
    BY <1>0, <1>2, <2>1, Closed
  <2>3. /\ Users(i)' = Users(i) - 1 /\ \A j \in Inodes : j # i => Users(j)' = Users(j)
        /\ iOpenCnts'[i] = iOpenCnts[i] - 1 /\ \A j \in Inodes : j # i => iOpenCnts'[j] = iOpenCnts[j]
    BY <1>0, <1>2, <2>1, Closed
  <2>4. Forked' = Forked /\ \A u \in Tasks : pc[u] \in {"idle", "sync"}
    BY <2>2, Frames, Alone
  <2>5. Serial'
    BY <2>2, <2>4 DEF Serial
  <2>6. Exact'
    <3>1. ASSUME ~Forked, NEW j \in InList PROVE iOpenCnts'[j] = Users(j)'
      <4>1. j \in Inodes
        BY <2>1, Listed
      <4>2. iOpenCnts[j] = Users(j)
        BY <3>1 DEF FilesInv, Exact
      <4> QED BY <2>3, <4>1, <4>2
    <3>2. InList' \subseteq InList
      BY <2>2
    <3> QED BY <2>4, <3>1, <3>2 DEF Exact
  <2>7. Keeps'
    <3>1. ~Forked => \A u \in Tasks : pc[u] = "sync" => loc[u].slot \in Slots /\ loc[u].slot # g
      BY <1>0, <1>2, SyncSlot DEF FilesInv, DescriptorsSound
    <3> QED BY <2>2, <2>4, <3>1 DEF FilesInv, Keeps
  <2>8. DescriptorsSound'
    <3>1. \A u \in Tasks, h \in Fds :
            fdTable'[u][h] = IF u = t /\ h = f THEN -1 ELSE fdTable[u][h]
      BY <2>1, <2>2 DEF FsType
    <3>2. -1 \notin Slots
      BY Basics
    <3> SUFFICES ASSUME ~Forked, NEW u \in Tasks, NEW v \in Tasks, NEW d \in Fds, NEW h \in Fds
                 PROVE  /\ fdTable'[u][d] \in Slots => fdInode'[fdTable'[u][d]] # Null
                        /\ fdTable'[u][d] \in Slots /\ fdTable'[u][d] = fdTable'[v][h] => <<u, d>> = <<v, h>>
                        /\ pc[u] \in {"claim", "sync"} /\ fdTable'[v][h] \in Slots => loc[u].slot # fdTable'[v][h]
      BY <2>2, <2>4 DEF DescriptorsSound
    <3>3. /\ fdTable[u][d] \in Slots => fdInode[fdTable[u][d]] # Null
          /\ fdTable[u][d] \in Slots /\ fdTable[u][d] = fdTable[v][h] => <<u, d>> = <<v, h>>
          /\ fdTable[u][d] \in Slots /\ fdTable[u][d] = g => u = t /\ d = f
          /\ pc[u] \in {"claim", "sync"} /\ fdTable[v][h] \in Slots => loc[u].slot # fdTable[v][h]
      BY <1>0, <1>2 DEF FilesInv, DescriptorsSound
    <3>4. fdTable'[u][d] \in Slots => fdInode'[fdTable'[u][d]] # Null
      BY <2>2, <3>1, <3>2, <3>3
    <3>5. fdTable'[u][d] \in Slots /\ fdTable'[u][d] = fdTable'[v][h] => <<u, d>> = <<v, h>>
      BY <3>1, <3>2, <3>3
    <3>6. pc[u] \in {"claim", "sync"} /\ fdTable'[v][h] \in Slots => loc[u].slot # fdTable'[v][h]
      BY <3>1, <3>2, <3>3
    <3> QED BY <3>4, <3>5, <3>6
  <2> QED BY <2>1, <2>5, <2>6, <2>7, <2>8 DEF FilesInv
<1> QED BY <1>1, <1>2

(* sys_fork: from now on slots are shared.                                 *)
LEMMA ForkStep ==
  ASSUME FilesInv, NEW t \in Tasks, NEW c \in Children, Fork(t, c)
  PROVE  FilesInv'
<1>1. CASE UNCHANGED <<inodeVars, tableVars, ctlVars, created>>
  BY <1>1, PanicStep
<1>2. CASE /\ alive' = alive \cup {c}
           /\ UNCHANGED <<openInodes, fdInode, busy, pc, loc>>
  <2>1. LiveInv' /\ Forked' /\ InList' = InList
    BY <1>2, ForkLive, Frames DEF FilesInv, Forked
  <2>2. Serial'
    BY <1>2, <2>1 DEF FilesInv, Serial
  <2> QED BY <2>1, <2>2 DEF FilesInv, Exact, Keeps, DescriptorsSound
<1> QED BY <1>1, <1>2 DEF Fork, Panic

-----------------------------------------------------------------------------
(* FilesInv holds in every reachable state when only processes use files.  *)
THEOREM FilesInvariance == KThreads = {} => (Spec => []FilesInv)
<1> SUFFICES ASSUME KThreads = {} PROVE Spec => []FilesInv
  OBVIOUS
<1>1. Init => FilesInv
  BY InitFiles
<1>2. FilesInv /\ [Next]_vars => FilesInv'
  <2> SUFFICES ASSUME FilesInv, [Next]_vars PROVE FilesInv'
    OBVIOUS
  <2>1. CASE UNCHANGED vars
    BY <2>1, PanicStep DEF vars
  <2>2. CASE Halted
    BY <2>2, PanicStep DEF Halted, vars
  <2>3. ASSUME NEW t \in Tasks, TaskStep(t) PROVE FilesInv'
    <3>1. busy \in {NoTask, t}
      BY <2>3 DEF TaskStep
    <3>2. ASSUME NEW n \in Names, NEW flag \in Flags, Open(t, n, flag) PROVE FilesInv'
      BY <3>1, <3>2, OpenStep
    <3>3. CASE FileOpen(t)
      BY <3>1, <3>3, FileOpenStep
    <3>4. CASE Claim(t)
      BY <3>1, <3>4, ClaimStep
    <3>5. ASSUME NEW flag \in Flags, Create(t, flag) PROVE FilesInv'
      BY <3>1, <3>5, CreateStep
    <3>6. CASE CreateFile(t)
      BY <3>1, <3>6, CreateFileStep
    <3>7. CASE CreateSync(t)
      BY <3>1, <3>7, CreateSyncStep
    <3>8. ASSUME NEW f \in Fds, Close(t, f) PROVE FilesInv'
      BY <3>1, <3>8, CloseStep
    <3>9. ASSUME NEW c \in Children, Fork(t, c) PROVE FilesInv'
      BY <3>9, ForkStep
    <3> QED BY <2>3, <3>2, <3>3, <3>4, <3>5, <3>6, <3>7, <3>8, <3>9 DEF TaskStep
  <2> QED BY <2>1, <2>2, <2>3 DEF Next
<1> QED BY <1>1, <1>2, PTL DEF Spec

(* RefCount: an inode's count is the number of slots that use it, and      *)
(* after a fork at least that, for any number of processes, slots and      *)
(* files.  Kernel threads that share a slot make counts too high.          *)
THEOREM RefCountHolds == KThreads = {} => (Spec => []RefCount)
<1>1. FilesInv => RefCount
  BY DEF FilesInv, LiveInv, Enough, Exact, RefCount, Users
<1> QED BY <1>1, FilesInvariance, PTL

(* DescriptorsSound: until the first fork no slot of g_fileTable has two   *)
(* users among processes, and every descriptor is an open file.            *)
THEOREM DescriptorsSoundHolds == KThreads = {} => (Spec => []DescriptorsSound)
<1>1. FilesInv => DescriptorsSound
  BY DEF FilesInv
<1> QED BY <1>1, FilesInvariance, PTL
=============================================================================
