----------------------------- MODULE DirsProofs -----------------------------
(***************************************************************************)
(* Proofs about Dirs, for directories, disks and sectors of every size and *)
(* any number of power failures: until an unlink frees a block, the blocks *)
(* of the root directory stay its own and no name is in it twice; and what *)
(* File_Create has finished is found again unless one of the named causes  *)
(* of loss has occurred.                                                   *)
(***************************************************************************)
EXTENDS Dirs, FiniteSetTheorems, WellFoundedInduction, TLAPS

Slots == 1 .. PerBlock
Direct == 0 .. MaxDirect - 1
Types == {"unknown", "regular", "dir"}
AllNames == Names \cup {NoName, ".."}
EntryType == [name : AllNames, no : Int, type : Types]
SectorType == [ents : [Slots -> EntryType], tab : Blocks \cup {None, Wild}]
Addresses == [Index -> Blocks \cup {None}]

IsInode(inode) == inode \in [no : {inode.no}, size : {inode.size}, sec : Addresses]
IsOp(o) ==
  o \in [name : AllNames, no : {o.no}, type : Types, blk : Blocks \cup {None}, todo : {o.todo}]

(* BlockAt for the addresses sec of an inode and the sectors s.            *)
At(sec, s, i) == IF i = MaxDirect /\ sec[i] # None THEN s[sec[i]].tab ELSE sec[i]

(* The blocks such an inode leads to.                                      *)
Reach(sec, s) ==
  {b \in Blocks : (\E i \in Index : sec[i] = b) \/ At(sec, s, MaxDirect) = b}

Full(sector) == \A k \in Slots : sector.ents[k].type # "unknown"

(* No block is used twice, no name occurs twice, and there is an indirect  *)
(* table only once the direct blocks are full.                             *)
OnceEach(sec, s) ==
  /\ \A i, j \in Index : sec[i] = sec[j] /\ sec[i] # None => i = j
  /\ \A i \in Direct : sec[i] # None => At(sec, s, MaxDirect) # sec[i]

TableLast(sec, s) ==
  sec[MaxDirect] # None => \A i \in Direct : sec[i] # None /\ Full(s[sec[i]])

Twice(sec, s, i, k, j, l) ==
  LET b == At(sec, s, i)
      c == At(sec, s, j)
  IN /\ b \in Blocks /\ c \in Blocks
     /\ s[b].ents[k].name \in Names
     /\ s[b].ents[k].name = s[c].ents[l].name

NamesOnce(sec, s) ==
  \A i, j \in Index : \A k, l \in Slots : Twice(sec, s, i, k, j, l) => i = j /\ k = l

Sound(sec, s) == OnceEach(sec, s) /\ TableLast(sec, s) /\ NamesOnce(sec, s)

(* A direct block of the inode holds the name.                             *)
InDirect(sec, s, name) ==
  \E i \in Direct, k \in Slots : sec[i] # None /\ s[sec[i]].ents[k].name = name

Saved == memBits \cap diskBits

Making == {"sync", "table", "tabwrite", "entry"}

DType ==
  /\ sect \in [Blocks -> SectorType]
  /\ IsInode(root) /\ IsInode(dRoot) /\ IsOp(op)
  /\ pc \in Making \cup {"parent", "inode", "bitmap"} =>
       op.name \in Names /\ op.type \in {"regular", "dir"}
  /\ pc \in Making => op.no \in Int

(* What the two inodes lead to is taken, and so is what has been written.  *)
Kept ==
  /\ Reach(root.sec, sect) \subseteq Saved
  /\ Reach(dRoot.sec, sect) \subseteq Saved
  /\ \A b \in Blocks : sect[b] # ZeroSector => b \in Saved

(* The inode on the disk is an earlier one, or a cleared one.              *)
Older == \A i \in Direct : dRoot.sec[i] \in {None, root.sec[i]}

(* Dir_SyncDirEntry on its way: the name is not in the directory yet, and  *)
(* the blocks it has taken are new.                                        *)
NewBlock(b) == b \in Blocks /\ sect[b] = ZeroSector /\ b \notin Reach(dRoot.sec, sect)

Underway ==
  /\ pc \in Making => ~InDirect(root.sec, sect, op.name)
  /\ pc \in {"table", "tabwrite"} => NewBlock(root.sec[MaxDirect])
  /\ pc = "table" => op.blk = root.sec[MaxDirect]
  /\ pc = "tabwrite" => NewBlock(op.blk) /\ op.blk \in Saved /\ op.blk \notin Reach(root.sec, sect)
  /\ pc = "entry" =>
       /\ NewBlock(op.blk) /\ op.blk # root.sec[MaxDirect]
       /\ \E j \in Index :
            At(root.sec, sect, j) = op.blk /\ (j = MaxDirect \/ root.sec[MaxDirect] = None)

BothSound == Sound(root.sec, sect) /\ Sound(dRoot.sec, sect)

Orderly == DType /\ Kept /\ Older /\ Underway /\ BothSound

DirInv == NothingFreed => Orderly

(* The name is found by Dir_SearchDirEntry.                                *)
Named(sec, s, name) ==
  \E i \in Index, k \in Slots :
    At(sec, s, i) \in Blocks /\ s[At(sec, s, i)].ents[k].name = name

(* As long as nothing has gone wrong, finished names are in the directory  *)
(* on the disk, and that is contained in the one in memory.                *)
FreeNameless ==
  \A b \in Blocks, k \in Slots :
    sect[b].ents[k].type = "unknown" => sect[b].ents[k].name = NoName

Finished ==
  /\ durable \subseteq Names
  /\ \A name \in durable : Named(dRoot.sec, sect, name)
  /\ pc = "parent" /\ op.type = "regular" => Named(root.sec, sect, op.name)
  /\ pc \in {"inode", "bitmap"} /\ op.type = "regular" => Named(dRoot.sec, sect, op.name)
  /\ pc = "delete" => op.name \notin durable

Lossless ==
  dRoot.sec[MaxDirect] \in {None, root.sec[MaxDirect]} /\ FreeNameless /\ Finished

LossInv == spoilt = {} => Lossless

-----------------------------------------------------------------------------
(* The constants, in the form the steps need them.                         *)
LEMMA Constants ==
  /\ MaxDirect \in Nat /\ PerBlock \in Nat /\ PerBlock > 0 /\ NBlocks > 0
  /\ Blocks \subseteq Nat /\ None \notin Blocks /\ Wild \notin Blocks /\ 0 \in Blocks
  /\ MaxDirect \in Index /\ MaxDirect \notin Direct /\ Direct \subseteq Index
  /\ \A i \in Index : i = MaxDirect \/ i \in Direct
  /\ Index \subseteq Nat /\ Slots \subseteq Nat /\ 1 \in Slots
  /\ NoName \notin Names /\ ".." \notin Names
BY DirsAssumption DEF DirsAssumption, Blocks, Index, Direct, Slots, None, Wild

(* An empty sector has no names and no table.                              *)
LEMMA ZeroSectorFacts ==
  /\ ZeroSector \in SectorType
  /\ ZeroSector.tab = None
  /\ \A k \in Slots : ZeroSector.ents[k] = Empty
  /\ Empty \in EntryType /\ Empty.name = NoName /\ Empty.type = "unknown"
  /\ Empty.name \notin Names
BY Constants DEF ZeroSector, SectorType, EntryType, Empty, Slots, AllNames, Types

(* The smallest member of a set of numbers, as Dir_SyncDirEntry looks for  *)
(* an index and BitmapScan for a block, is one of its members.             *)
LEMMA MinIn ==
  ASSUME NEW S \in SUBSET Nat, S # {}
  PROVE  Min(S) \in S /\ \A y \in S : Min(S) <= y
<1>1. PICK x \in S : \A y \in S : ~(<<y, x>> \in OpToRel(<, Nat))
  BY NatLessThanWellFounded, WFMin, Zenon
<1>2. \A y \in S : x <= y
  <2> SUFFICES ASSUME NEW y \in S, y < x PROVE FALSE
    OBVIOUS
  <2>1. <<y, x>> \in {ss \in Nat \X Nat : ss[1] < ss[2]}
    OBVIOUS
  <2>2. <<y, x>> \in OpToRel(<, Nat)
    BY <2>1, Zenon DEF OpToRel
  <2> QED BY <1>1, <2>2
<1> QED BY <1>2 DEF Min

-----------------------------------------------------------------------------
(* How the directory an inode leads to depends on the sectors.  Its        *)
(* addresses are sec; s becomes s2.                                        *)
LEMMA AtFacts ==
  ASSUME NEW sec \in Addresses, NEW s \in [Blocks -> SectorType]
  PROVE  /\ \A i \in Direct : At(sec, s, i) = sec[i]
         /\ \A i \in Index : At(sec, s, i) \in Blocks =>
              At(sec, s, i) \in Reach(sec, s) /\ sec[i] \in Reach(sec, s) /\ sec[i] # None
         /\ sec[MaxDirect] = None => At(sec, s, MaxDirect) = None
         /\ \A i \in Index : sec[i] # None => sec[i] \in Blocks /\ sec[i] \in Reach(sec, s)
BY Constants DEF At, Reach, Addresses, SectorType

(* Writing what it does not lead to changes nothing.                       *)
LEMMA SameReach ==
  ASSUME NEW sec \in Addresses, NEW s \in [Blocks -> SectorType], NEW s2 \in [Blocks -> SectorType],
         \A c \in Reach(sec, s) : s2[c] = s[c]
  PROVE  /\ \A i \in Index : At(sec, s2, i) = At(sec, s, i)
         /\ Reach(sec, s2) = Reach(sec, s)
         /\ Sound(sec, s) => Sound(sec, s2)
         /\ \A name : InDirect(sec, s2, name) <=> InDirect(sec, s, name)
         /\ \A name : Named(sec, s2, name) <=> Named(sec, s, name)
<1>1. \A i \in Index : sec[i] # None => s2[sec[i]] = s[sec[i]]
  BY AtFacts
<1>2. \A i \in Index : At(sec, s2, i) = At(sec, s, i)
  BY <1>1, Constants DEF At
<1>3. Reach(sec, s2) = Reach(sec, s)
  BY <1>2, Constants DEF Reach
<1>4. \A i \in Index : At(sec, s, i) \in Blocks => s2[At(sec, s, i)] = s[At(sec, s, i)]
  BY AtFacts
<1>5. ASSUME Sound(sec, s) PROVE Sound(sec, s2)
  <2>1. OnceEach(sec, s2)
    BY <1>2, <1>5, Constants DEF Sound, OnceEach
  <2>2. TableLast(sec, s2)
    <3> SUFFICES ASSUME sec[MaxDirect] # None, NEW i \in Direct
                 PROVE  sec[i] # None /\ Full(s2[sec[i]])
      BY DEF TableLast
    <3>1. sec[i] # None /\ Full(s[sec[i]])
      BY <1>5 DEF Sound, TableLast
    <3>2. s2[sec[i]] = s[sec[i]]
      BY <1>1, <3>1, Constants
    <3> QED BY <3>1, <3>2
  <2>3. NamesOnce(sec, s2)
    <3>1. ASSUME NEW i \in Index, NEW j \in Index, NEW k \in Slots, NEW l \in Slots,
                 Twice(sec, s2, i, k, j, l)
          PROVE  Twice(sec, s, i, k, j, l)
      BY <1>2, <1>4, <3>1 DEF Twice
    <3> QED BY <1>5, <3>1 DEF Sound, NamesOnce
  <2> QED BY <2>1, <2>2, <2>3 DEF Sound
<1>6. \A name : InDirect(sec, s2, name) <=> InDirect(sec, s, name)
  <2>1. \A i \in Direct, k \in Slots : sec[i] # None => s2[sec[i]].ents[k].name = s[sec[i]].ents[k].name
    BY <1>1, Constants
  <2> QED BY <2>1 DEF InDirect
<1>7. \A name : Named(sec, s2, name) <=> Named(sec, s, name)
  BY <1>2, <1>4 DEF Named
<1> QED BY <1>2, <1>3, <1>5, <1>6, <1>7

(* Dir_DeleteDirEntry clears names; the entries stay in use.               *)
LEMMA FewerNames ==
  ASSUME NEW sec \in Addresses, NEW s \in [Blocks -> SectorType], NEW s2 \in [Blocks -> SectorType],
         \A c \in Blocks : s2[c].tab = s[c].tab,
         \A c \in Blocks, k \in Slots :
           /\ s2[c].ents[k].type = s[c].ents[k].type
           /\ s2[c].ents[k].name \in Names => s2[c].ents[k].name = s[c].ents[k].name
  PROVE  /\ \A i \in Index : At(sec, s2, i) = At(sec, s, i)
         /\ Reach(sec, s2) = Reach(sec, s)
         /\ Sound(sec, s) => Sound(sec, s2)
<1>1. \A i \in Index : At(sec, s2, i) = At(sec, s, i)
  BY AtFacts DEF At
<1>2. Reach(sec, s2) = Reach(sec, s)
  BY <1>1, Constants DEF Reach
<1>3. ASSUME Sound(sec, s) PROVE Sound(sec, s2)
  <2>1. OnceEach(sec, s2)
    BY <1>1, <1>3, Constants DEF Sound, OnceEach
  <2>2. TableLast(sec, s2)
    <3> SUFFICES ASSUME sec[MaxDirect] # None, NEW i \in Direct
                 PROVE  sec[i] # None /\ Full(s2[sec[i]])
      BY DEF TableLast
    <3>1. sec[i] # None /\ Full(s[sec[i]])
      BY <1>3 DEF Sound, TableLast
    <3>2. sec[i] \in Blocks
      BY <3>1, Constants, AtFacts
    <3> QED BY <3>1, <3>2 DEF Full
  <2>3. NamesOnce(sec, s2)
    <3>1. ASSUME NEW i \in Index, NEW j \in Index, NEW k \in Slots, NEW l \in Slots,
                 Twice(sec, s2, i, k, j, l)
          PROVE  Twice(sec, s, i, k, j, l)
      BY <1>1, <3>1 DEF Twice
    <3> QED BY <1>3, <3>1 DEF Sound, NamesOnce
  <2> QED BY <2>1, <2>2, <2>3 DEF Sound
<1> QED BY <1>1, <1>2, <1>3

(* A new name in a direct block, before there is a table.                  *)
LEMMA OneMoreName ==
  ASSUME NEW sec \in Addresses, NEW s \in [Blocks -> SectorType], NEW s2 \in [Blocks -> SectorType],
         NEW b \in Blocks, NEW k0 \in Slots, NEW name,
         \A c \in Blocks : s2[c].tab = s[c].tab,
         \A c \in Blocks, k \in Slots :
           ~(c = b /\ k = k0) => s2[c].ents[k].name = s[c].ents[k].name,
         s2[b].ents[k0].name = name,
         sec[MaxDirect] = None, ~InDirect(sec, s, name), Sound(sec, s)
  PROVE  /\ \A i \in Index : At(sec, s2, i) = At(sec, s, i)
         /\ Reach(sec, s2) = Reach(sec, s)
         /\ Sound(sec, s2)
<1>1. \A i \in Index : At(sec, s2, i) = At(sec, s, i)
  BY AtFacts DEF At
<1>2. Reach(sec, s2) = Reach(sec, s)
  BY <1>1, Constants DEF Reach
<1>3. OnceEach(sec, s2)
  BY <1>1, Constants DEF Sound, OnceEach
<1>4. TableLast(sec, s2)
  BY DEF TableLast
<1>5. NamesOnce(sec, s2)
  <2> SUFFICES ASSUME NEW i \in Index, NEW j \in Index, NEW k \in Slots, NEW l \in Slots,
                      Twice(sec, s2, i, k, j, l)
               PROVE  i = j /\ k = l
    BY DEF NamesOnce
  <2>1. /\ i \in Direct /\ j \in Direct /\ sec[i] # None /\ sec[j] # None
        /\ At(sec, s, i) = sec[i] /\ At(sec, s, j) = sec[j]
        /\ At(sec, s2, i) = sec[i] /\ At(sec, s2, j) = sec[j]
        /\ sec[i] \in Blocks /\ sec[j] \in Blocks
    BY <1>1, Constants, AtFacts DEF Twice
  <2>2. s2[sec[i]].ents[k].name \in Names /\ s2[sec[i]].ents[k].name = s2[sec[j]].ents[l].name
    BY <2>1 DEF Twice
  <2>3. s[sec[i]].ents[k].name # name /\ s[sec[j]].ents[l].name # name
    BY <2>1 DEF InDirect
  <2>4. CASE sec[i] = b /\ k = k0
    <3>1. sec[j] = b /\ l = k0
      BY <2>1, <2>2, <2>3, <2>4
    <3> QED BY <2>1, <2>4, <3>1, Constants DEF Sound, OnceEach
  <2>5. CASE ~(sec[i] = b /\ k = k0)
    <3>1. s2[sec[i]].ents[k].name = s[sec[i]].ents[k].name
      BY <2>1, <2>5
    <3>2. ~(sec[j] = b /\ l = k0)
      BY <2>2, <2>3, <3>1
    <3>3. s2[sec[j]].ents[l].name = s[sec[j]].ents[l].name
      BY <2>1, <3>2
    <3>4. Twice(sec, s, i, k, j, l)
      BY <2>1, <2>2, <3>1, <3>3 DEF Twice
    <3> QED BY <3>4 DEF Sound, NamesOnce
  <2> QED BY <2>4, <2>5
<1> QED BY <1>1, <1>2, <1>3, <1>4, <1>5 DEF Sound

(* Two places in one block are in the same one.                            *)
LEMMA OnePlace ==
  ASSUME NEW sec \in Addresses, NEW s \in [Blocks -> SectorType], OnceEach(sec, s),
         NEW i \in Index, NEW j \in Index, At(sec, s, i) \in Blocks,
         At(sec, s, i) = At(sec, s, j)
  PROVE  i = j
<1>1. sec[i] # None /\ sec[j] # None
  BY AtFacts
<1>2. CASE i \in Direct /\ j \in Direct
  BY <1>1, <1>2, AtFacts DEF OnceEach
<1>3. CASE i = MaxDirect /\ j \in Direct
  BY <1>1, <1>3, AtFacts DEF OnceEach
<1>4. CASE j = MaxDirect /\ i \in Direct
  BY <1>1, <1>4, AtFacts DEF OnceEach
<1> QED BY <1>2, <1>3, <1>4, Constants

(* Dir_SyncDirEntry gives the directory another empty block, or a table    *)
(* that is still empty.                                                    *)
LEMMA NewAddress ==
  ASSUME NEW sec \in Addresses, NEW s \in [Blocks -> SectorType], Sound(sec, s),
         NEW i0 \in Index, NEW b \in Blocks \ Reach(sec, s), s[b] = ZeroSector,
         i0 \in Direct => sec[MaxDirect] = None,
         i0 = MaxDirect => \A i \in Direct : sec[i] # None /\ Full(s[sec[i]]),
         NEW sec2, sec2 = [sec EXCEPT ![i0] = b]
  PROVE  /\ sec2 \in Addresses
         /\ Sound(sec2, s)
         /\ Reach(sec2, s) \subseteq Reach(sec, s) \cup {b}
         /\ \A name \in Names : InDirect(sec2, s, name) => InDirect(sec, s, name)
<1>1. sec2 \in Addresses /\ sec2[i0] = b /\ \A i \in Index : i # i0 => sec2[i] = sec[i]
  BY DEF Addresses
<1>2. \A i \in Index : sec[i] # b
  BY AtFacts, Constants
<1>3. s[b].tab = None /\ \A k \in Slots : s[b].ents[k].name \notin Names
  BY ZeroSectorFacts
<1>4. At(sec2, s, MaxDirect) = IF i0 = MaxDirect THEN None ELSE At(sec, s, MaxDirect)
  BY <1>1, <1>3, Constants DEF At
<1>5. Reach(sec2, s) \subseteq Reach(sec, s) \cup {b}
  BY <1>1, <1>4, Constants DEF Reach
<1>6. OnceEach(sec2, s)
  <2>1. \A i, j \in Index : sec2[i] = sec2[j] /\ sec2[i] # None => i = j
    BY <1>1, <1>2 DEF Sound, OnceEach
  <2>2. ASSUME NEW i \in Direct, sec2[i] # None PROVE At(sec2, s, MaxDirect) # sec2[i]
    <3>1. CASE i0 = MaxDirect
      BY <1>4, <2>2, <3>1
    <3>2. CASE i0 # MaxDirect
      <4>1. sec[MaxDirect] = None /\ At(sec2, s, MaxDirect) = None
        BY <1>4, <3>2, Constants, AtFacts
      <4> QED BY <2>2, <4>1
    <3> QED BY <3>1, <3>2
  <2> QED BY <2>1, <2>2 DEF OnceEach
<1>7. TableLast(sec2, s)
  <2> SUFFICES ASSUME sec2[MaxDirect] # None, NEW i \in Direct
               PROVE  sec2[i] # None /\ Full(s[sec2[i]])
    BY DEF TableLast
  <2>1. i0 = MaxDirect
    BY <1>1, Constants
  <2>2. sec2[i] = sec[i]
    BY <1>1, <2>1, Constants
  <2> QED BY <2>1, <2>2
<1>8. NamesOnce(sec2, s)
  <2> SUFFICES ASSUME NEW i \in Index, NEW j \in Index, NEW k \in Slots, NEW l \in Slots,
                      Twice(sec2, s, i, k, j, l)
               PROVE  i = j /\ k = l
    BY DEF NamesOnce
  <2>1. ASSUME NEW m \in Index, At(sec2, s, m) # b, At(sec2, s, m) \in Blocks
        PROVE  At(sec, s, m) = At(sec2, s, m)
    <3>1. CASE m = MaxDirect
      BY <1>4, <2>1, <3>1, Constants
    <3>2. CASE m \in Direct
      <4>1. At(sec2, s, m) = sec2[m] /\ At(sec, s, m) = sec[m]
        BY <3>2, Constants DEF At
      <4> QED BY <1>1, <2>1, <4>1
    <3> QED BY <3>1, <3>2, Constants
  <2>2. At(sec2, s, i) \in Blocks \ {b} /\ At(sec2, s, j) \in Blocks \ {b}
    BY <1>3 DEF Twice
  <2>3. Twice(sec, s, i, k, j, l)
    BY <2>1, <2>2 DEF Twice
  <2> QED BY <2>3 DEF Sound, NamesOnce
<1>9. \A name \in Names : InDirect(sec2, s, name) => InDirect(sec, s, name)
  BY <1>1, <1>3, Constants DEF InDirect
<1> QED BY <1>1, <1>5, <1>6, <1>7, <1>8, <1>9 DEF Sound

(* Without a block for the entry the new table is dropped again.           *)
LEMMA DropTable ==
  ASSUME NEW sec \in Addresses, NEW s \in [Blocks -> SectorType], Sound(sec, s),
         NEW sec2, sec2 = [sec EXCEPT ![MaxDirect] = None]
  PROVE  /\ sec2 \in Addresses
         /\ Sound(sec2, s)
         /\ Reach(sec2, s) \subseteq Reach(sec, s) \ {sec[MaxDirect]}
         /\ \A i \in Direct : sec2[i] = sec[i]
<1>1. sec2 \in Addresses /\ sec2[MaxDirect] = None /\ \A i \in Direct : sec2[i] = sec[i]
  BY Constants DEF Addresses
<1>2. At(sec2, s, MaxDirect) = None
  BY <1>1 DEF At
<1>3. \A i \in Direct : At(sec2, s, i) = At(sec, s, i)
  BY <1>1, Constants DEF At
<1>4. Reach(sec2, s) \subseteq Reach(sec, s) \ {sec[MaxDirect]}
  <2> SUFFICES ASSUME NEW b \in Reach(sec2, s) PROVE b \in Reach(sec, s) /\ b # sec[MaxDirect]
    OBVIOUS
  <2>1. b \in Blocks /\ b # None
    BY Constants DEF Reach
  <2>2. PICK i \in Index : sec2[i] = b
    BY <1>2, <2>1 DEF Reach
  <2>3. i \in Direct /\ sec[i] = b
    BY <1>1, <2>1, <2>2, Constants
  <2> QED BY <2>1, <2>3, Constants DEF Reach, Sound, OnceEach
<1>5. OnceEach(sec2, s)
  BY <1>1, <1>2, Constants DEF Sound, OnceEach
<1>6. TableLast(sec2, s)
  BY <1>1 DEF TableLast
<1>7. NamesOnce(sec2, s)
  <2> SUFFICES ASSUME NEW i \in Index, NEW j \in Index, NEW k \in Slots, NEW l \in Slots,
                      Twice(sec2, s, i, k, j, l)
               PROVE  i = j /\ k = l
    BY DEF NamesOnce
  <2>1. i \in Direct /\ j \in Direct
    BY <1>2, Constants DEF Twice
  <2>2. Twice(sec, s, i, k, j, l)
    BY <1>3, <2>1 DEF Twice
  <2> QED BY <2>2 DEF Sound, NamesOnce
<1> QED BY <1>1, <1>4, <1>5, <1>6, <1>7 DEF Sound

(* The sectors that SyncTableWrite and SyncEntry write.                    *)
TableOnly(b) == [ZeroSector EXCEPT !.tab = b]
EntryOnly(e) == [ents |-> [ZeroSector.ents EXCEPT ![1] = e], tab |-> Wild]

(* What they hold.                                                         *)
LEMMA TableSector ==
  ASSUME NEW b \in Blocks
  PROVE  /\ TableOnly(b) \in SectorType
         /\ TableOnly(b).tab = b
         /\ \A k \in Slots : TableOnly(b).ents[k] = Empty
<1>1. TableOnly(b) \in SectorType /\ TableOnly(b).tab = b
  BY ZeroSectorFacts DEF SectorType, TableOnly
<1>2. TableOnly(b).ents = ZeroSector.ents
  BY DEF ZeroSector, TableOnly
<1> QED BY <1>1, <1>2, ZeroSectorFacts

(* The entry's block has no other entry.                                   *)
LEMMA EntrySector ==
  ASSUME NEW e \in EntryType
  PROVE  /\ EntryOnly(e) \in SectorType
         /\ EntryOnly(e).ents[1] = e
         /\ \A k \in Slots : k # 1 => EntryOnly(e).ents[k] = Empty
<1>0. PICK x : x = EntryOnly(e)
  OBVIOUS
<1>1. ZeroSector.ents \in [Slots -> EntryType]
  BY ZeroSectorFacts DEF SectorType
<1>2. x.ents = [ZeroSector.ents EXCEPT ![1] = e] /\ x.tab = Wild
      /\ x = [ents |-> x.ents, tab |-> x.tab]
  BY <1>0 DEF EntryOnly
<1>3. x.ents \in [Slots -> EntryType] /\ x.ents[1] = e
      /\ \A k \in Slots : k # 1 => x.ents[k] = ZeroSector.ents[k]
  BY <1>1, <1>2, Constants
<1>4. x \in SectorType /\ \A k \in Slots : k # 1 => x.ents[k] = Empty
  BY <1>2, <1>3, ZeroSectorFacts DEF SectorType
<1> QED BY <1>0, <1>3, <1>4

(* The table is written with the address of an empty block.                *)
LEMMA TableWritten ==
  ASSUME NEW sec \in Addresses, NEW s \in [Blocks -> SectorType], Sound(sec, s),
         sec[MaxDirect] \in Blocks, s[sec[MaxDirect]] = ZeroSector,
         NEW c \in Blocks \ Reach(sec, s), s[c] = ZeroSector,
         NEW s2 \in [Blocks -> SectorType], s2[sec[MaxDirect]].tab = c,
         \A b \in Blocks : b # sec[MaxDirect] => s2[b] = s[b]
  PROVE  /\ Sound(sec, s2)
         /\ At(sec, s2, MaxDirect) = c
         /\ Reach(sec, s2) \subseteq Reach(sec, s) \cup {c}
         /\ \A name : InDirect(sec, s2, name) <=> InDirect(sec, s, name)
         /\ s2[c] = ZeroSector
<1>1. PICK t \in Blocks : t = sec[MaxDirect]
  OBVIOUS
<1>2. t # c /\ t # None
  BY <1>1, AtFacts, Constants
<1>3. s2[t].tab = c /\ \A b \in Blocks : b # t => s2[b] = s[b]
  BY <1>1
<1>4. ASSUME NEW i \in Direct, sec[i] # None
      PROVE  sec[i] \in Blocks /\ sec[i] # t /\ s2[sec[i]] = s[sec[i]] /\ sec[i] # c
  <2>1. sec[i] # t
    BY <1>1, <1>4, Constants DEF Sound, OnceEach
  <2>2. sec[i] \in Blocks /\ sec[i] \in Reach(sec, s)
    BY <1>4, AtFacts, Constants
  <2> QED BY <1>3, <2>1, <2>2
<1>5. At(sec, s2, MaxDirect) = c /\ \A i \in Direct : At(sec, s2, i) = sec[i]
  BY <1>1, <1>2, <1>3, Constants DEF At
<1>6. Reach(sec, s2) \subseteq Reach(sec, s) \cup {c}
  BY <1>5, Constants DEF Reach
<1>7. OnceEach(sec, s2)
  BY <1>4, <1>5 DEF Sound, OnceEach
<1>8. TableLast(sec, s2)
  <2> SUFFICES ASSUME NEW i \in Direct PROVE sec[i] # None /\ Full(s2[sec[i]])
    BY DEF TableLast
  <2>1. sec[i] # None /\ Full(s[sec[i]])
    BY <1>1, <1>2 DEF Sound, TableLast
  <2> QED BY <1>4, <2>1
<1>9. s2[c] = ZeroSector /\ \A k \in Slots : s2[c].ents[k].name \notin Names
  BY <1>2, <1>3, ZeroSectorFacts
<1>10. NamesOnce(sec, s2)
  <2> SUFFICES ASSUME NEW i \in Index, NEW j \in Index, NEW k \in Slots, NEW l \in Slots,
                      Twice(sec, s2, i, k, j, l)
               PROVE  i = j /\ k = l
    BY DEF NamesOnce
  <2>1. i \in Direct /\ j \in Direct
    BY <1>5, <1>9, Constants DEF Twice
  <2>2. /\ At(sec, s2, i) = sec[i] /\ At(sec, s2, j) = sec[j]
        /\ At(sec, s, i) = sec[i] /\ At(sec, s, j) = sec[j]
        /\ sec[i] # None /\ sec[j] # None
    BY <1>5, <2>1, AtFacts, Constants DEF Twice
  <2>3. Twice(sec, s, i, k, j, l)
    BY <1>4, <2>1, <2>2 DEF Twice
  <2> QED BY <2>3 DEF Sound, NamesOnce
<1>11. \A name : InDirect(sec, s2, name) <=> InDirect(sec, s, name)
  BY <1>4 DEF InDirect
<1> QED BY <1>3, <1>5, <1>6, <1>7, <1>8, <1>9, <1>10, <1>11 DEF Sound

(* The new block is written with the new entry.                            *)
LEMMA EntryWritten ==
  ASSUME NEW sec \in Addresses, NEW s \in [Blocks -> SectorType], Sound(sec, s),
         NEW c \in Blocks, s[c] = ZeroSector, sec[MaxDirect] # c,
         NEW j0 \in Index, At(sec, s, j0) = c, j0 = MaxDirect \/ sec[MaxDirect] = None,
         NEW e \in EntryType, ~InDirect(sec, s, e.name),
         NEW s2 \in [Blocks -> SectorType], s2[c] = EntryOnly(e),
         \A b \in Blocks : b # c => s2[b] = s[b]
  PROVE  /\ Sound(sec, s2)
         /\ Reach(sec, s2) = Reach(sec, s)
         /\ Named(sec, s2, e.name)
<1>1. s2[c].ents[1] = e /\ \A k \in Slots : k # 1 => s2[c].ents[k] = Empty
  BY EntrySector
<1>2. \A i \in Index : At(sec, s2, i) = At(sec, s, i)
  BY <1>1, AtFacts, Constants DEF At
<1>3. Reach(sec, s2) = Reach(sec, s)
  BY <1>2, Constants DEF Reach
<1>4. OnceEach(sec, s2)
  BY <1>2, Constants DEF Sound, OnceEach
<1>5. TableLast(sec, s2)
  <2> SUFFICES ASSUME sec[MaxDirect] # None, NEW i \in Direct
               PROVE  sec[i] # None /\ Full(s2[sec[i]])
    BY DEF TableLast
  <2>1. sec[i] # None /\ Full(s[sec[i]])
    BY DEF Sound, TableLast
  <2>2. sec[i] \in Blocks
    BY <2>1, AtFacts, Constants
  <2>3. sec[i] # c
    BY <2>1 DEF Sound, OnceEach
  <2> QED BY <1>1, <2>1, <2>2, <2>3
<1>6. ASSUME NEW i \in Index, NEW k \in Slots, At(sec, s, i) \in Blocks,
             At(sec, s, i) # c
      PROVE  /\ s2[At(sec, s, i)].ents[k].name = s[At(sec, s, i)].ents[k].name
             /\ s2[At(sec, s, i)].ents[k].name # e.name
  <2>1. s2[At(sec, s, i)] = s[At(sec, s, i)]
    BY <1>1, <1>6
  <2>2. i \in Direct /\ sec[i] = At(sec, s, i) /\ sec[i] # None
    BY <1>6, AtFacts, Constants
  <2> QED BY <2>1, <2>2 DEF InDirect
<1>7. NamesOnce(sec, s2)
  <2> SUFFICES ASSUME NEW i \in Index, NEW j \in Index, NEW k \in Slots, NEW l \in Slots,
                      Twice(sec, s2, i, k, j, l)
               PROVE  i = j /\ k = l
    BY DEF NamesOnce
  <2>1. PICK a \in Blocks, b \in Blocks :
          /\ a = At(sec, s, i) /\ b = At(sec, s, j)
          /\ s2[a].ents[k].name \in Names
          /\ s2[a].ents[k].name = s2[b].ents[l].name
    BY <1>2 DEF Twice
  <2>2. CASE a = c \/ b = c
    <3>1. (a = c => s2[b].ents[l].name = e.name) /\ (b = c => s2[a].ents[k].name = e.name)
      BY <1>1, <2>1, ZeroSectorFacts
    <3>2. a = c /\ b = c
      BY <1>6, <2>1, <2>2, <3>1
    <3>3. k = 1 /\ l = 1
      BY <1>1, <2>1, <3>2, ZeroSectorFacts
    <3> QED BY <2>1, <3>2, <3>3, OnePlace DEF Sound
  <2>3. CASE a # c /\ b # c
    <3>1. Twice(sec, s, i, k, j, l)
      BY <1>6, <2>1, <2>3 DEF Twice
    <3> QED BY <3>1 DEF Sound, NamesOnce
  <2> QED BY <2>2, <2>3
<1>8. Named(sec, s2, e.name)
  <2>1. At(sec, s2, j0) = c /\ s2[c].ents[1].name = e.name
    BY <1>1, <1>2
  <2> QED BY <2>1, Constants DEF Named
<1> QED BY <1>1, <1>3, <1>4, <1>5, <1>7, <1>8 DEF Sound

-----------------------------------------------------------------------------
(* The block bitmap.  A free block is in neither directory, and empty.     *)
LEMMA FreshBlock ==
  ASSUME Orderly, NEW T \in SUBSET Free, T # {}
  PROVE  /\ Min(T) \in T /\ Min(T) \in Blocks /\ Min(T) \notin memBits
         /\ Min(T) \notin Reach(root.sec, sect)
         /\ NewBlock(Min(T))
<1>1. Min(T) \in T
  BY Constants, MinIn DEF Free
<1>2. Min(T) \in Blocks /\ Min(T) \notin memBits /\ Min(T) \notin Saved
  BY <1>1 DEF Free, Saved
<1> QED BY <1>1, <1>2 DEF Orderly, Kept, NewBlock

(* File_BitmapSync writes more than the block it is called for, but loses  *)
(* nothing that is taken in memory and on the disk.                        *)
LEMMA SyncedKeeps ==
  ASSUME NEW b \in Blocks, memBits \subseteq memBits', b \in memBits',
         diskBits' = Synced(b, memBits')
  PROVE  Saved \subseteq Saved' /\ b \in Saved'
BY DEF Saved, Synced, Sector

(* What a step has to show that leaves the directory's blocks alone.       *)
LEMMA SameDir ==
  ASSUME Orderly, DType', sect' = sect, root'.sec = root.sec, dRoot'.sec = dRoot.sec,
         Saved \subseteq Saved', Underway'
  PROVE  Orderly'
<1>1. Kept'
  <2>1. /\ Reach(root'.sec, sect') = Reach(root.sec, sect)
        /\ Reach(dRoot'.sec, sect') = Reach(dRoot.sec, sect)
    OBVIOUS
  <2>2. \A b \in Blocks : sect'[b] # ZeroSector => b \in Saved'
    BY DEF Orderly, Kept
  <2> QED BY <2>1, <2>2 DEF Orderly, Kept
<1>2. Older' /\ BothSound'
  BY DEF Orderly, Older, BothSound
<1> QED BY <1>1, <1>2 DEF Orderly

(* The inode on the disk becomes that in memory, or is cleared.            *)
LEMMA InodeWritten ==
  ASSUME Orderly, UNCHANGED <<bitVars, sect, root>>, DType', pc' \notin Making,
         dRoot'.sec = root.sec \/ dRoot'.sec = dRoot.sec \/ dRoot'.sec = ZeroInode.sec
  PROVE  Orderly'
<1>1. Underway'
  <2>1. pc' \notin Making => Underway'
    BY DEF Underway, Making
  <2> QED BY <2>1
<1>2. CASE dRoot'.sec = dRoot.sec
  BY <1>1, <1>2, SameDir DEF Saved, bitVars
<1>3. CASE dRoot'.sec = root.sec
  BY <1>1, <1>3 DEF Orderly, Kept, Older, BothSound, Saved, bitVars
<1>4. CASE dRoot'.sec = ZeroInode.sec
  <2>1. \A i \in Index : dRoot'.sec[i] = None
    BY <1>4 DEF ZeroInode
  <2>2. At(dRoot'.sec, sect', MaxDirect) = None
    BY <2>1, Constants DEF At
  <2>3. Reach(dRoot'.sec, sect') = {}
    BY <2>1, <2>2, Constants DEF Reach
  <2>4. \A i \in Index : At(dRoot'.sec, sect', i) \notin Blocks
    BY <2>1, <2>2, Constants DEF At
  <2>5. Sound(dRoot'.sec, sect')
    BY <2>1, <2>2, <2>4, Constants DEF Sound, OnceEach, TableLast, NamesOnce, Twice
  <2>6. Sound(root'.sec, sect') /\ Reach(root'.sec, sect') = Reach(root.sec, sect)
    BY DEF Orderly, BothSound
  <2>7. Kept'
    BY <2>3, <2>6 DEF Orderly, Kept, Saved, bitVars
  <2>8. Older'
    BY <2>1, Constants DEF Older
  <2> QED BY <1>1, <2>5, <2>6, <2>7, <2>8 DEF Orderly, BothSound
<1> QED BY <1>2, <1>3, <1>4

(* What every step is shown to preserve: the order of the directory, and   *)
(* as long as nothing has gone wrong, the names.                           *)
Preserved == Orderly' /\ (Lossless /\ spoilt' = {} => Lossless')

(* A step that leaves bitmap, inodes, sectors and the task's place alone.  *)
LEMMA Untouched ==
  ASSUME Orderly, UNCHANGED <<bitVars, root, diskVars, pc, op, durable>>
  PROVE  Preserved
<1> USE DEF diskVars, bitVars
<1>1. DType' /\ Underway'
  BY DEF Orderly, DType, Underway, NewBlock, Saved
<1>2. Orderly'
  BY <1>1, SameDir DEF Saved
<1>3. Lossless => Lossless'
  BY DEF Lossless, FreeNameless, Finished
<1> QED BY <1>2, <1>3 DEF Preserved

(* A failed ASSERT changes nothing of the directory.                       *)
LEMMA PanicInv ==
  ASSUME Orderly, NEW where, Panic(where)
  PROVE  Preserved
BY Untouched DEF Panic, memVars

(* An operation that changes neither block, sector nor disk, and is not in *)
(* Dir_SyncDirEntry after it.                                              *)
LEMMA PlainStep ==
  ASSUME Orderly, UNCHANGED <<bitVars, diskVars>>, root'.sec = root.sec, IsInode(root'), IsOp(op'),
         pc' \notin Making \cup {"parent", "inode", "bitmap"},
         durable' \subseteq durable, pc' = "delete" => op'.name \notin durable'
  PROVE  Preserved
<1> USE DEF diskVars, bitVars
<1>1. DType'
  BY DEF Orderly, DType
<1>2. Underway'
  BY DEF Underway, Making
<1>3. Orderly'
  BY <1>1, <1>2, SameDir DEF Saved
<1>4. Lossless => Lossless'
  BY DEF Lossless, FreeNameless, Finished
<1> QED BY <1>3, <1>4 DEF Preserved

(* Inode_Open gives another number to the root's inode, nothing else.      *)
LEMMA RenamedOnly ==
  ASSUME NEW no, IsInode(root), Renamed(no)
  PROVE  IsInode(root') /\ root'.sec = root.sec
<1>1. CASE openFiles = <<>>
  <2>1. root' = [root EXCEPT !.no = no]
    BY <1>1 DEF Renamed
  <2> QED BY <2>1 DEF IsInode
<1>2. CASE openFiles # <<>>
  BY <1>2 DEF Renamed
<1> QED BY <1>1, <1>2

(* Dir_SearchDirEntry sees the direct blocks.                              *)
LEMMA NotFound ==
  ASSUME Orderly, NEW name, Hits(root, name) = {}
  PROVE  ~InDirect(root.sec, sect, name)
<1> SUFFICES ASSUME NEW i \in Direct, NEW k \in Slots, root.sec[i] # None,
                    sect[root.sec[i]].ents[k].name = name
             PROVE  FALSE
  BY DEF InDirect
<1>1. root.sec \in Addresses
  BY DEF Orderly, DType, IsInode
<1>2. BlockAt(root, i) = root.sec[i] /\ root.sec[i] \in Blocks
  BY <1>1, Constants DEF BlockAt, Addresses
<1>3. <<i, k>> \in Places(root) /\ EntryAt(root, <<i, k>>).name = name
  BY <1>2, Constants DEF Places, EntryAt, Slots
<1> QED BY <1>3 DEF Hits

(* File_Create and sys_mkdir up to Dir_SyncDirEntry.                       *)
LEMMA BeginInv ==
  ASSUME Orderly, NEW name \in Names, Hits(root, name) = {},
         NEW type \in {"regular", "dir"}, NEW bits, NEW no \in Blocks,
         Begin(name, type, bits, no), Saved \subseteq Saved', UNCHANGED durable
  PROVE  Preserved
<1>1. /\ pc' = "sync" /\ UNCHANGED <<root, dRoot, sect>>
      /\ op' = [NoOp EXCEPT !.name = name, !.type = type, !.no = DataStart + no]
  BY DEF Begin, memVars, diskVars
<1>2. IsOp(op') /\ op'.name = name /\ op'.type = type /\ op'.no = DataStart + no
  BY <1>1 DEF NoOp, IsOp, AllNames, Types
<1>3. DataStart + no \in Int
  BY DirsAssumption, Constants DEF DirsAssumption
<1>4. DType'
  BY <1>1, <1>2, <1>3 DEF Orderly, DType
<1>5. ~InDirect(root.sec, sect, name)
  BY NotFound
<1>6. Underway'
  BY <1>1, <1>2, <1>5 DEF Underway
<1>7. Orderly'
  BY <1>1, <1>4, <1>6, SameDir
<1>8. Lossless => Lossless'
  BY <1>1 DEF Lossless, FreeNameless, Finished
<1> QED BY <1>7, <1>8 DEF Preserved

(* File_Create takes the lowest free block.                                *)
LEMMA CreateInv ==
  ASSUME Orderly, NEW name \in Names, Create(name)
  PROVE  Preserved
<1>1. \/ \E where : Panic(where)
      \/ /\ Hits(root, name) = {} /\ Free # {} /\ UNCHANGED diskBits
         /\ Begin(name, "regular", memBits \cup {Min(Free)}, Min(Free))
  BY DEF Create, Lookup
<1>2. CASE \E where : Panic(where)
  BY <1>2, PanicInv
<1>3. CASE /\ Hits(root, name) = {} /\ Free # {} /\ UNCHANGED diskBits
           /\ Begin(name, "regular", memBits \cup {Min(Free)}, Min(Free))
  <2>1. Min(Free) \in Blocks
    BY <1>3, FreshBlock
  <2>2. Saved \subseteq Saved' /\ UNCHANGED durable
    BY <1>3 DEF Begin, Saved
  <2> QED BY <1>3, <2>1, <2>2, BeginInv
<1> QED BY <1>1, <1>2, <1>3

(* sys_mkdir takes the two lowest, or fails an ASSERT.                     *)
LEMMA MkdirInv ==
  ASSUME Orderly, NEW name \in Names, Mkdir(name)
  PROVE  Preserved
<1> DEFINE b == Min(Free)
           c == Min(Free \ {b})
<1>1. \/ \E where : Panic(where)
      \/ /\ Hits(root, name) = {} /\ Free # {} /\ Cardinality(Free) # 1
         /\ diskBits' = Synced(c, memBits \cup {b, c})
         /\ Begin(name, "dir", memBits \cup {b, c}, b)
  BY DEF Mkdir, Lookup
<1>2. CASE \E where : Panic(where)
  BY <1>2, PanicInv
<1>3. CASE /\ Hits(root, name) = {} /\ Free # {} /\ Cardinality(Free) # 1
           /\ diskBits' = Synced(c, memBits \cup {b, c})
           /\ Begin(name, "dir", memBits \cup {b, c}, b)
  <2>1. b \in Blocks /\ b \in Free
    BY <1>3, FreshBlock
  <2>2. Free \ {b} # {}
    <3>1. Cardinality({b}) = 1
      BY FS_Singleton
    <3> QED BY <1>3, <2>1, <3>1
  <2>3. c \in Blocks
    BY <2>2, FreshBlock
  <2>4. memBits' = memBits \cup {b, c} /\ UNCHANGED durable
    BY <1>3 DEF Begin
  <2>5. Saved \subseteq Saved'
    BY <1>3, <2>3, <2>4, SyncedKeeps
  <2> QED BY <1>3, <2>1, <2>4, <2>5, BeginInv
<1> QED BY <1>1, <1>2, <1>3

(* sys_unlink up to Dir_DeleteDirEntry: the name need not last any longer. *)
LEMMA UnlinkInv ==
  ASSUME Orderly, NEW name \in Names, Unlink(name)
  PROVE  Preserved
<1>1. \/ \E where : Panic(where)
      \/ /\ pc' = "delete"
         /\ op' = [NoOp EXCEPT !.name = name, !.no = Found(name).no]
         /\ durable' = durable \ {name}
         /\ UNCHANGED <<bitVars, root, diskVars>>
  BY DEF Unlink, Lookup, memVars
<1>2. CASE \E where : Panic(where)
  BY <1>2, PanicInv
<1>3. CASE /\ pc' = "delete"
           /\ op' = [NoOp EXCEPT !.name = name, !.no = Found(name).no]
           /\ durable' = durable \ {name}
           /\ UNCHANGED <<bitVars, root, diskVars>>
  <2>1. IsOp(op') /\ op'.name = name
    BY <1>3 DEF NoOp, IsOp, AllNames, Types
  <2>2. IsInode(root') /\ root'.sec = root.sec
    BY <1>3 DEF Orderly, DType
  <2> QED BY <1>3, <2>1, <2>2, PlainStep DEF Making
<1> QED BY <1>1, <1>2, <1>3

(* The calls that only look a name up, or give the root's inode another    *)
(* number.                                                                 *)
LEMMA LookupInv ==
  ASSUME Orderly, NEW name \in Names,
         OpenDir(name) \/ RemoveDir(name) \/ OpenFile(name) \/ Stat(name)
  PROVE  Preserved
<1>1. \/ \E where : Panic(where)
      \/ /\ pc = "idle" /\ Renamed(Found(name).no)
         /\ UNCHANGED <<bitVars, diskVars, pc, op, durable>>
  BY DEF OpenDir, RemoveDir, OpenFile, Stat, Lookup
<1>2. CASE \E where : Panic(where)
  BY <1>2, PanicInv
<1>3. CASE /\ pc = "idle" /\ Renamed(Found(name).no)
           /\ UNCHANGED <<bitVars, diskVars, pc, op, durable>>
  <2>1. IsInode(root') /\ root'.sec = root.sec
    BY <1>3, RenamedOnly DEF Orderly, DType
  <2>2. IsOp(op')
    BY <1>3 DEF Orderly, DType
  <2> QED BY <1>3, <2>1, <2>2, PlainStep DEF Making
<1> QED BY <1>1, <1>2, <1>3

(* sys_close, a listing that fails and a rollback that fails.              *)
LEMMA CloseInv ==
  ASSUME Orderly, CloseFile \/ ReadDir \/ Rollback
  PROVE  Preserved
<1>1. CASE CloseFile
  BY <1>1, Untouched DEF CloseFile
<1>2. CASE ReadDir
  BY <1>2, PanicInv DEF ReadDir
<1>3. CASE Rollback
  BY <1>3, PanicInv DEF Rollback
<1> QED BY <1>1, <1>2, <1>3

(* Inode_Release, until it frees a block.                                  *)
LEMMA ReleaseInv ==
  ASSUME Orderly, ReleaseOpen \/ ReleaseBlock, NothingFreed'
  PROVE  Preserved
<1>1. CASE ReleaseOpen
  <2>1. /\ Renamed(op.no) /\ pc' = "release"
        /\ UNCHANGED <<bitVars, diskVars, durable>>
        /\ \E todo : op' = [op EXCEPT !.todo = todo]
    BY <1>1 DEF ReleaseOpen
  <2>2. IsInode(root') /\ root'.sec = root.sec
    BY <2>1, RenamedOnly DEF Orderly, DType
  <2>3. IsOp(op')
    BY <2>1 DEF Orderly, DType, IsOp
  <2> QED BY <2>1, <2>2, <2>3, PlainStep DEF Making
<1>2. CASE ReleaseBlock
  <2>1. (\E where : Panic(where)) \/ "released" \in spoilt'
    BY <1>2 DEF ReleaseBlock
  <2> QED BY <2>1, PanicInv DEF NothingFreed
<1> QED BY <1>1, <1>2

(* The name is found in an inode that has the blocks of another.           *)
LEMMA NamedInNewer ==
  ASSUME Orderly, Lossless, NEW name, Named(dRoot.sec, sect, name)
  PROVE  Named(root.sec, sect, name)
<1>1. PICK i \in Index, k \in Slots :
        At(dRoot.sec, sect, i) \in Blocks /\ sect[At(dRoot.sec, sect, i)].ents[k].name = name
  BY DEF Named
<1>2. dRoot.sec \in Addresses /\ sect \in [Blocks -> SectorType]
  BY DEF Orderly, DType, IsInode
<1>3. dRoot.sec[i] # None
  BY <1>1, <1>2, AtFacts
<1>4. root.sec[i] = dRoot.sec[i]
  BY <1>3, Constants DEF Orderly, Older, Lossless
<1>5. At(root.sec, sect, i) = At(dRoot.sec, sect, i)
  BY <1>4 DEF At
<1> QED BY <1>1, <1>5 DEF Named

(* Inode_Write of the root, in Dir_SyncDirEntry's callers and in           *)
(* Dir_DeleteDirEntry.                                                     *)
LEMMA WriteRootInv ==
  ASSUME Orderly, ParentInode \/ DeleteInode
  PROVE  Preserved
<1>1. /\ UNCHANGED <<bitVars, sect, root, op, durable>>
      /\ pc \in {"parent", "delinode"}
      /\ pc' = IF pc = "delinode" THEN "open" ELSE IF op.type = "dir" THEN "bitmap" ELSE "inode"
      /\ dRoot' = IF Slot(root.no) = 0 THEN root ELSE dRoot
      /\ Slot(root.no) # 0 => spoilt' # {}
  BY DEF ParentInode, DeleteInode, memVars, Stored
<1>2. DType'
  BY <1>1 DEF Orderly, DType, Making
<1>3. dRoot'.sec = root.sec \/ dRoot'.sec = dRoot.sec
  BY <1>1
<1>4. Orderly'
  BY <1>1, <1>2, <1>3, InodeWritten DEF Making
<1>5. ASSUME Lossless, spoilt' = {} PROVE Lossless'
  <2>1. dRoot' = root /\ root' = root
    BY <1>1, <1>5
  <2>2. FreeNameless'
    BY <1>1, <1>5 DEF Lossless, FreeNameless
  <2>3. ASSUME NEW name \in durable PROVE Named(dRoot'.sec, sect', name)
    <3>1. Named(dRoot.sec, sect, name)
      BY <1>5 DEF Lossless, Finished
    <3> QED BY <1>1, <1>5, <2>1, <3>1, NamedInNewer
  <2>4. pc' \in {"inode", "bitmap"} /\ op'.type = "regular" => Named(dRoot'.sec, sect', op'.name)
    BY <1>1, <1>5, <2>1 DEF Lossless, Finished
  <2>5. Finished'
    BY <1>1, <1>5, <2>3, <2>4 DEF Lossless, Finished
  <2> QED BY <2>1, <2>2, <2>5 DEF Lossless
<1> QED BY <1>4, <1>5 DEF Preserved

(* Inode_Write of the new file: it may hit the root's slot.                *)
LEMMA NewInodeInv ==
  ASSUME Orderly, NewInode
  PROVE  Preserved
<1>1. /\ UNCHANGED <<bitVars, sect, root, op, durable>>
      /\ pc = "inode" /\ pc' = "bitmap"
      /\ dRoot' = Stored([ZeroInode EXCEPT !.no = op.no])
      /\ spoilt' = IF Slot(op.no) = 0 THEN spoilt \cup {"slot"} ELSE spoilt
  BY DEF NewInode, memVars
<1>2. PICK zero : zero = [ZeroInode EXCEPT !.no = op.no]
  OBVIOUS
<1>3. IsInode(zero) /\ zero.sec = ZeroInode.sec /\ zero.no = op.no
  BY <1>2 DEF IsInode, ZeroInode, Addresses
<1>4. dRoot' = IF Slot(op.no) = 0 THEN zero ELSE dRoot
  BY <1>1, <1>2, <1>3 DEF Stored
<1>5. DType'
  BY <1>1, <1>3, <1>4 DEF Orderly, DType, Making
<1>6. Orderly'
  BY <1>1, <1>3, <1>4, <1>5, InodeWritten DEF Making
<1>7. ASSUME Lossless, spoilt' = {} PROVE Lossless'
  <2>1. UNCHANGED dRoot
    BY <1>1, <1>4, <1>7
  <2> QED BY <1>1, <1>7, <2>1 DEF Lossless, FreeNameless, Finished
<1> QED BY <1>6, <1>7 DEF Preserved

(* File_BitmapSync of the inode bitmap: it may hit the root's inode.  The  *)
(* creation of a file ends here.                                           *)
LEMMA InodeBitmapInv ==
  ASSUME Orderly, InodeBitmap
  PROVE  Preserved
<1>1. /\ UNCHANGED <<bitVars, sect, root>>
      /\ pc = "bitmap" /\ pc' = "idle" /\ op' = NoOp
      /\ durable' = IF op.type = "dir" THEN durable ELSE durable \cup {op.name}
      /\ \/ dRoot' = ZeroInode /\ "bitmap" \in spoilt'
         \/ UNCHANGED dRoot
  BY DEF InodeBitmap
<1>2. IsInode(dRoot') /\ IsOp(op')
  <2>1. IsInode(ZeroInode) /\ IsOp(NoOp)
    BY DEF IsInode, ZeroInode, Addresses, IsOp, NoOp, AllNames, Types
  <2> QED BY <1>1, <2>1 DEF Orderly, DType
<1>3. DType'
  BY <1>1, <1>2 DEF Orderly, DType, Making
<1>4. Orderly'
  BY <1>1, <1>3, InodeWritten DEF Making
<1>5. ASSUME Lossless, spoilt' = {} PROVE Lossless'
  <2>1. UNCHANGED dRoot
    BY <1>1, <1>5
  <2>2. op.type # "dir" => op.name \in Names /\ Named(dRoot.sec, sect, op.name)
    BY <1>1, <1>5 DEF Lossless, Finished, Orderly, DType
  <2> QED BY <1>1, <1>5, <2>1, <2>2 DEF Lossless, FreeNameless, Finished
<1> QED BY <1>4, <1>5 DEF Preserved

(* The power fails, and the disk is mounted again.                         *)
LEMMA RebootInv ==
  ASSUME Orderly, Reboot
  PROVE  Preserved
<1>1. /\ memBits' = diskBits /\ UNCHANGED <<diskBits, dRoot, sect, durable>>
      /\ root' = dRoot /\ pc' = "idle" /\ op' = NoOp
  BY DEF Reboot, diskVars
<1>2. IsOp(NoOp)
  BY DEF IsOp, NoOp, AllNames, Types
<1>3. DType'
  BY <1>1, <1>2 DEF Orderly, DType, Making
<1>4. Saved \subseteq Saved'
  BY <1>1 DEF Saved
<1>5. Kept' /\ Older' /\ BothSound'
  BY <1>1, <1>4 DEF Orderly, Kept, Older, BothSound
<1>6. Underway'
  BY <1>1 DEF Underway, Making
<1>7. Orderly'
  BY <1>3, <1>5, <1>6 DEF Orderly
<1>8. Lossless => Lossless'
  BY <1>1 DEF Lossless, FreeNameless, Finished
<1> QED BY <1>7, <1>8 DEF Preserved

-----------------------------------------------------------------------------
(* Dir_SyncDirEntry.  The types it relies on.                              *)
LEMMA Typed ==
  ASSUME Orderly
  PROVE  /\ sect \in [Blocks -> SectorType]
         /\ root.sec \in Addresses /\ dRoot.sec \in Addresses
         /\ \A b \in Blocks : sect[b].ents \in [Slots -> EntryType]
         /\ \A i \in Index : root.sec[i] # None => root.sec[i] \in Blocks
BY DEF Orderly, DType, IsInode, SectorType, Addresses

(* The index it stops at, and what precedes it.                            *)
LEMMA FirstIndexFacts ==
  ASSUME Orderly
  PROVE  /\ FirstIndex \in Index
         /\ FirstIndex = MaxDirect \/ root.sec[FirstIndex] = None \/ FreeSlots(FirstIndex) # {}
         /\ FirstIndex = MaxDirect =>
              \A i \in Direct : root.sec[i] # None /\ Full(sect[root.sec[i]])
         /\ FirstIndex # MaxDirect =>
              root.sec[MaxDirect] = None /\ dRoot.sec[MaxDirect] = None
<1> DEFINE S == {i \in Index : i = MaxDirect \/ root.sec[i] = None \/ FreeSlots(i) # {}}
<1>1. FirstIndex \in S /\ \A j \in S : FirstIndex <= j
  <2>1. S \in SUBSET Nat /\ MaxDirect \in S
    BY Constants
  <2> HIDE DEF S
  <2>2. Min(S) \in S /\ \A y \in S : Min(S) <= y
    BY <2>1, MinIn
  <2> QED BY <2>2 DEF FirstIndex, S
<1>2. ASSUME NEW i \in Direct PROVE FreeSlots(i) = {} <=> Full(sect[root.sec[i]])
  BY DEF FreeSlots, Full, Slots
<1>3. ASSUME FirstIndex = MaxDirect, NEW i \in Direct
      PROVE  root.sec[i] # None /\ Full(sect[root.sec[i]])
  <2>1. i \in Nat /\ i < MaxDirect /\ i \in Index
    BY Constants DEF Direct
  <2>2. i \notin S
    BY <1>1, <1>3, <2>1, Constants
  <2> QED BY <1>2, <2>1, <2>2
<1>4. ASSUME FirstIndex # MaxDirect
      PROVE  root.sec[MaxDirect] = None /\ dRoot.sec[MaxDirect] = None
  <2>1. FirstIndex \in Direct
    BY <1>1, <1>4, Constants
  <2>2. ~(root.sec[FirstIndex] # None /\ Full(sect[root.sec[FirstIndex]]))
    BY <1>1, <1>2, <1>4, <2>1
  <2>3. root.sec[MaxDirect] = None
    BY <2>1, <2>2 DEF Orderly, BothSound, Sound, TableLast
  <2>4. dRoot.sec[MaxDirect] # None =>
          dRoot.sec[FirstIndex] # None /\ Full(sect[dRoot.sec[FirstIndex]])
    BY <2>1 DEF Orderly, BothSound, Sound, TableLast
  <2>5. dRoot.sec[FirstIndex] \in {None, root.sec[FirstIndex]}
    BY <2>1 DEF Orderly, Older
  <2> QED BY <2>2, <2>3, <2>4, <2>5
<1> QED BY <1>1, <1>3, <1>4

(* The direct blocks on the disk hold no name that those in memory do not. *)
LEMMA DirectOnDisk ==
  ASSUME Orderly, NEW name, ~InDirect(root.sec, sect, name)
  PROVE  ~InDirect(dRoot.sec, sect, name)
BY DEF Orderly, Older, InDirect

(* The root's size is counted; its addresses stay.                         *)
LEMMA Counted ==
  ASSUME Orderly, pc \in Making, Synchronised
  PROVE  /\ IsInode(root') /\ root'.sec = root.sec
         /\ pc' \in {"rollback", "parent"}
         /\ pc' = "parent" => op.type = "regular"
<1>1. root' = [root EXCEPT !.size = @ + 1] /\ IsInode(root)
  BY DEF Synchronised, Orderly, DType
<1>2. IsInode(root') /\ root'.sec = root.sec
  BY <1>1 DEF IsInode
<1> QED BY <1>2 DEF Synchronised, Orderly, DType

(* The new entry.                                                          *)
LEMMA NewEntryFacts ==
  ASSUME Orderly, pc \in Making
  PROVE  /\ NewEntry \in EntryType
         /\ NewEntry.name = op.name /\ NewEntry.type = op.type
         /\ op.name \in Names /\ op.type \in {"regular", "dir"}
BY DEF Orderly, DType, NewEntry, EntryType, AllNames, Types

(* A free slot of a direct block gets the entry.                           *)
LEMMA SyncInPlaceInv ==
  ASSUME Orderly, SyncInPlace
  PROVE  Preserved
<1>1. PICK i : i = FirstIndex
  OBVIOUS
<1>2. PICK k : k = Min(FreeSlots(i))
  OBVIOUS
<1>3. PICK b : b = root.sec[i]
  OBVIOUS
<1>4. /\ pc = "sync" /\ i < MaxDirect /\ b # None /\ Synchronised
      /\ sect' = [sect EXCEPT ![b].ents[k] = NewEntry]
      /\ UNCHANGED <<bitVars, dRoot, op, durable, spoilt>>
  BY <1>1, <1>2, <1>3 DEF SyncInPlace
<1>5. i \in Index /\ i # MaxDirect /\ i \in Direct
  BY <1>1, <1>4, FirstIndexFacts, Constants
<1>6. b \in Blocks /\ root.sec[MaxDirect] = None /\ dRoot.sec[MaxDirect] = None
  BY <1>1, <1>3, <1>4, <1>5, FirstIndexFacts, Typed
<1>7. k \in FreeSlots(i) /\ k \in Slots /\ sect[b].ents[k].type = "unknown"
  <2>1. FreeSlots(i) # {}
    BY <1>1, <1>3, <1>4, <1>5, FirstIndexFacts
  <2>2. FreeSlots(i) \in SUBSET Nat
    BY Constants DEF FreeSlots, Slots
  <2>3. k \in FreeSlots(i)
    BY <1>2, <2>1, <2>2, MinIn
  <2> QED BY <1>3, <2>3 DEF FreeSlots, Slots
<1>8. NewEntry \in EntryType /\ NewEntry.name = op.name /\ NewEntry.type # "unknown" /\ pc \in Making
  BY <1>4, NewEntryFacts DEF Making
<1>9. PICK e \in EntryType : e = NewEntry
  BY <1>8
<1>10. /\ sect' \in [Blocks -> SectorType]
       /\ sect'[b].ents[k] = e
       /\ \A c \in Blocks : sect'[c].tab = sect[c].tab
       /\ \A c \in Blocks, l \in Slots : ~(c = b /\ l = k) => sect'[c].ents[l] = sect[c].ents[l]
       /\ \A c \in Blocks : c # b => sect'[c] = sect[c]
  <2>1. sect' = [sect EXCEPT ![b].ents[k] = e]
    BY <1>4, <1>9
  <2>2. sect \in [Blocks -> SectorType] /\ sect[b].ents \in [Slots -> EntryType]
    BY <1>6, Typed
  <2>3. PICK x : x = [sect[b] EXCEPT !.ents[k] = e]
    OBVIOUS
  <2>4. /\ x \in SectorType /\ x.tab = sect[b].tab
        /\ x.ents = [sect[b].ents EXCEPT ![k] = e]
    BY <1>6, <1>7, <2>2, <2>3 DEF SectorType
  <2>5. sect' = [sect EXCEPT ![b] = x]
    BY <1>6, <2>1, <2>2, <2>3
  <2> QED BY <1>6, <1>7, <2>2, <2>4, <2>5
<1>11. ~InDirect(root.sec, sect, op.name) /\ ~InDirect(dRoot.sec, sect, op.name)
  BY <1>4, <1>8, DirectOnDisk DEF Orderly, Underway
<1>12. /\ Reach(root.sec, sect') = Reach(root.sec, sect) /\ Sound(root.sec, sect')
       /\ \A j \in Index : At(root.sec, sect', j) = At(root.sec, sect, j)
  <2>1. Sound(root.sec, sect) /\ sect'[b].ents[k].name = op.name
    BY <1>8, <1>9, <1>10 DEF Orderly, BothSound
  <2>2. \A c \in Blocks, l \in Slots :
          ~(c = b /\ l = k) => sect'[c].ents[l].name = sect[c].ents[l].name
    BY <1>10
  <2>3. root.sec \in Addresses /\ sect \in [Blocks -> SectorType]
    BY Typed
  <2>4. \A c \in Blocks : sect'[c].tab = sect[c].tab
    BY <1>10
  <2>5. sect' \in [Blocks -> SectorType]
    BY <1>10
  <2> QED BY <1>6, <1>7, <1>11, <2>1, <2>2, <2>3, <2>4, <2>5, OneMoreName, SMTT(30)
<1>13. /\ Reach(dRoot.sec, sect') = Reach(dRoot.sec, sect) /\ Sound(dRoot.sec, sect')
       /\ \A j \in Index : At(dRoot.sec, sect', j) = At(dRoot.sec, sect, j)
  <2>1. Sound(dRoot.sec, sect) /\ sect'[b].ents[k].name = op.name
    BY <1>8, <1>9, <1>10 DEF Orderly, BothSound
  <2>2. \A c \in Blocks, l \in Slots :
          ~(c = b /\ l = k) => sect'[c].ents[l].name = sect[c].ents[l].name
    BY <1>10
  <2>3. dRoot.sec \in Addresses /\ sect \in [Blocks -> SectorType]
    BY Typed
  <2>4. \A c \in Blocks : sect'[c].tab = sect[c].tab
    BY <1>10
  <2>5. sect' \in [Blocks -> SectorType]
    BY <1>10
  <2> QED BY <1>6, <1>7, <1>11, <2>1, <2>2, <2>3, <2>4, <2>5, OneMoreName, SMTT(30)
<1>14. /\ IsInode(root') /\ root'.sec = root.sec
       /\ pc' \in {"rollback", "parent"} /\ (pc' = "parent" => op.type = "regular")
  BY <1>4, <1>8, Counted
<1>15. DType'
  BY <1>4, <1>8, <1>10, <1>14, NewEntryFacts DEF Orderly, DType, Making
<1>16. b \in Saved
  BY <1>3, <1>5, <1>6 DEF Orderly, Kept, Reach
<1>17. Kept'
  <2>1. Saved' = Saved /\ dRoot' = dRoot
    BY <1>4 DEF Saved, bitVars
  <2>2. \A c \in Blocks : sect'[c] # ZeroSector => c \in Saved
    BY <1>10, <1>16 DEF Orderly, Kept
  <2> QED BY <1>12, <1>13, <1>14, <2>1, <2>2 DEF Orderly, Kept
<1>18. Older' /\ BothSound'
  BY <1>4, <1>12, <1>13, <1>14 DEF Orderly, Older, BothSound
<1>19. Underway'
  BY <1>14 DEF Underway, Making
<1>20. Orderly'
  BY <1>15, <1>17, <1>18, <1>19 DEF Orderly
<1>21. ASSUME Lossless PROVE Lossless'
  <2>1. FreeNameless'
    BY <1>8, <1>9, <1>10, <1>21 DEF Lossless, FreeNameless
  <2>2. ASSUME NEW name \in durable PROVE Named(dRoot.sec, sect', name)
    <3>1. name \in Names /\ Named(dRoot.sec, sect, name)
      BY <1>21 DEF Lossless, Finished
    <3>2. PICK j \in Index, l \in Slots :
            At(dRoot.sec, sect, j) \in Blocks /\ sect[At(dRoot.sec, sect, j)].ents[l].name = name
      BY <3>1 DEF Named
    <3>3. sect[b].ents[k].name # name
      BY <1>6, <1>7, <1>21, <3>1, Constants DEF Lossless, FreeNameless
    <3>4. sect'[At(dRoot.sec, sect, j)].ents[l].name = name
      BY <1>10, <3>2, <3>3
    <3> QED BY <1>13, <3>2, <3>4 DEF Named
  <2>3. Named(root.sec, sect', op.name)
    <3>1. At(root.sec, sect', i) = b
      BY <1>3, <1>5, <1>12, Typed, AtFacts
    <3> QED BY <1>5, <1>6, <1>7, <1>8, <1>9, <1>10, <3>1 DEF Named
  <2>4. Finished'
    BY <1>4, <1>14, <1>21, <2>2, <2>3 DEF Lossless, Finished
  <2> QED BY <1>4, <1>14, <1>21, <2>1, <2>4 DEF Lossless
<1> QED BY <1>20, <1>21 DEF Preserved

(* Dir_SyncDirEntry returns false: for lack of a block.                    *)
LEMMA SyncFailedInv ==
  ASSUME Orderly, pc \in Making, SyncFailed,
         UNCHANGED <<bitVars, root, diskVars, op, durable>>
  PROVE  Preserved
<1> USE DEF diskVars, bitVars
<1>1. /\ pc' \in {"parent", "rollback"}
      /\ pc' = "parent" => op.type # "regular"
  BY DEF SyncFailed
<1>2. DType' /\ Underway'
  BY <1>1 DEF Orderly, DType, Underway, Making
<1>3. Orderly'
  BY <1>2, SameDir DEF Saved
<1>4. Lossless => Lossless'
  BY <1>1 DEF Lossless, FreeNameless, Finished
<1> QED BY <1>3, <1>4 DEF Preserved

(* A new block, or a new table, for the directory.                         *)
LEMMA SyncNewBlockInv ==
  ASSUME Orderly, SyncNewBlock
  PROVE  Preserved
<1>1. PICK i : i = FirstIndex
  OBVIOUS
<1>2. PICK b : b = Min(Free)
  OBVIOUS
<1>3. /\ pc = "sync" /\ (i = MaxDirect \/ root.sec[i] = None)
      /\ UNCHANGED <<dRoot, sect, durable>>
      /\ i = MaxDirect /\ root.sec[i] # None => spoilt' # {}
  BY <1>1 DEF SyncNewBlock, diskVars
<1>4. CASE Free = {}
  BY <1>3, <1>4, SyncFailedInv DEF SyncNewBlock, diskVars, Making
<1>5. CASE Free # {}
  <2>1. /\ memBits' = memBits \cup {b}
        /\ diskBits' = Synced(b, memBits')
        /\ root' = [root EXCEPT !.sec[i] = b]
        /\ op' = [op EXCEPT !.blk = b]
        /\ pc' = IF i = MaxDirect THEN "table" ELSE "entry"
    BY <1>1, <1>2, <1>5 DEF SyncNewBlock
  <2>2. b \in Blocks /\ b \notin Reach(root.sec, sect) /\ NewBlock(b) /\ b # None
    BY <1>2, <1>5, FreshBlock, Constants
  <2>3. i \in Index /\ (i = MaxDirect \/ i \in Direct)
    BY <1>1, FirstIndexFacts, Constants
  <2>4. PICK sec2 : sec2 = [root.sec EXCEPT ![i] = b]
    OBVIOUS
  <2>5. /\ i \in Direct => root.sec[MaxDirect] = None /\ root.sec[i] = None
        /\ i = MaxDirect => \A j \in Direct : root.sec[j] # None /\ Full(sect[root.sec[j]])
    BY <1>1, <1>3, FirstIndexFacts, Constants
  <2>6. /\ sec2 \in Addresses /\ Sound(sec2, sect)
        /\ Reach(sec2, sect) \subseteq Reach(root.sec, sect) \cup {b}
        /\ \A name \in Names : InDirect(sec2, sect, name) => InDirect(root.sec, sect, name)
    <3>1. sect[b] = ZeroSector /\ Sound(root.sec, sect)
      BY <2>2 DEF NewBlock, Orderly, BothSound
    <3> QED BY <2>2, <2>3, <2>4, <2>5, <3>1, NewAddress, Typed
  <2>7. IsInode(root') /\ root'.sec = sec2
    <3>1. IsInode(root)
      BY DEF Orderly, DType
    <3>2. root'.sec = sec2 /\ root'.no = root.no /\ root'.size = root.size
      BY <2>1, <2>4, <3>1 DEF IsInode
    <3>3. root' \in [no : {root.no}, size : {root.size}, sec : Addresses]
      BY <2>1, <2>4, <2>6, <3>1 DEF IsInode
    <3> QED BY <3>2, <3>3 DEF IsInode
  <2>8. IsOp(op') /\ op'.blk = b /\ op'.name = op.name /\ op'.type = op.type /\ op'.no = op.no
    BY <2>1, <2>2 DEF Orderly, DType, IsOp
  <2>9. DType'
    BY <1>3, <2>1, <2>7, <2>8 DEF Orderly, DType, Making
  <2>10. Saved \subseteq Saved' /\ b \in Saved'
    BY <2>1, <2>2, SyncedKeeps
  <2>11. Kept'
    BY <1>3, <2>6, <2>7, <2>10 DEF Orderly, Kept
  <2>12. \A j \in Index : sec2[j] = IF j = i THEN b ELSE root.sec[j]
    BY <2>3, <2>4, Typed DEF Addresses
  <2>13. Older'
    BY <1>3, <2>5, <2>7, <2>12, Constants DEF Orderly, Older
  <2>14. BothSound'
    BY <1>3, <2>6, <2>7 DEF Orderly, BothSound
  <2>15. Underway'
    <3>1. ~InDirect(sec2, sect, op.name)
      BY <1>3, <2>6, NewEntryFacts DEF Orderly, Underway, Making
    <3>2. NewBlock(b)'
      BY <1>3, <2>2 DEF NewBlock
    <3>3. CASE i = MaxDirect
      BY <1>3, <2>1, <2>3, <2>7, <2>8, <2>12, <3>1, <3>2, <3>3 DEF Underway
    <3>4. CASE i # MaxDirect
      <4>1. At(sec2, sect, i) = b /\ sec2[MaxDirect] = None
        BY <2>3, <2>5, <2>12, <3>4, Constants DEF At
      <4> QED BY <1>3, <2>1, <2>2, <2>3, <2>7, <2>8, <3>1, <3>2, <3>4, <4>1 DEF Underway
    <3> QED BY <3>3, <3>4
  <2>16. Orderly'
    BY <2>9, <2>11, <2>13, <2>14, <2>15 DEF Orderly
  <2>17. ASSUME Lossless, spoilt' = {} PROVE Lossless'
    <3>1. dRoot'.sec[MaxDirect] \in {None, root'.sec[MaxDirect]}
      BY <1>3, <2>7, <2>12, <2>17, Constants DEF Lossless
    <3>2. Finished' /\ FreeNameless'
      BY <1>3, <2>1, <2>17 DEF Lossless, Finished, FreeNameless
    <3> QED BY <3>1, <3>2 DEF Lossless
  <2> QED BY <2>16, <2>17 DEF Preserved
<1> QED BY <1>4, <1>5

(* The block for the entry behind the new table.                           *)
LEMMA SyncTableInv ==
  ASSUME Orderly, SyncTable
  PROVE  Preserved
<1>1. PICK b : b = Min(Free)
  OBVIOUS
<1>2. PICK t : t = root.sec[MaxDirect]
  OBVIOUS
<1>3. /\ pc = "table" /\ UNCHANGED <<dRoot, sect, durable, spoilt>>
      /\ op.blk = t /\ NewBlock(t) /\ t \in Blocks
  BY <1>2 DEF SyncTable, diskVars, Orderly, Underway, NewBlock
<1>4. Sound(root.sec, sect)
  BY DEF Orderly, BothSound
<1>5. CASE Free = {}
  <2>1. /\ memBits' = memBits \ {t} /\ UNCHANGED <<diskBits, op>>
        /\ root' = [root EXCEPT !.sec[MaxDirect] = None]
        /\ SyncFailed
    BY <1>3, <1>5 DEF SyncTable
  <2>2. PICK sec2 : sec2 = [root.sec EXCEPT ![MaxDirect] = None]
    OBVIOUS
  <2>3. /\ sec2 \in Addresses /\ Sound(sec2, sect)
        /\ Reach(sec2, sect) \subseteq Reach(root.sec, sect) \ {t}
        /\ \A i \in Direct : sec2[i] = root.sec[i]
    BY <1>2, <1>4, <2>2, DropTable, Typed
  <2>4. IsInode(root') /\ root'.sec = sec2
    <3>1. IsInode(root)
      BY DEF Orderly, DType
    <3>2. root'.sec = sec2 /\ root'.no = root.no /\ root'.size = root.size
      BY <2>1, <2>2, <3>1 DEF IsInode
    <3>3. root' \in [no : {root.no}, size : {root.size}, sec : Addresses]
      BY <2>1, <2>2, <2>3, <3>1 DEF IsInode
    <3> QED BY <3>2, <3>3 DEF IsInode
  <2>5. /\ pc' \in {"parent", "rollback"}
        /\ pc' = "parent" => op.type # "regular"
    BY <2>1 DEF SyncFailed
  <2>6. DType'
    BY <1>3, <2>1, <2>4, <2>5 DEF Orderly, DType, Making
  <2>7. Saved' = Saved \ {t}
    BY <2>1 DEF Saved
  <2>8. Kept'
    BY <1>3, <2>3, <2>4, <2>7 DEF Orderly, Kept, NewBlock
  <2>9. Older' /\ BothSound'
    BY <1>3, <2>3, <2>4 DEF Orderly, Older, BothSound
  <2>10. Underway'
    BY <2>5 DEF Underway, Making
  <2>11. Orderly'
    BY <2>6, <2>8, <2>9, <2>10 DEF Orderly
  <2>12. ASSUME Lossless PROVE Lossless'
    <3>1. dRoot.sec[MaxDirect] = None
      <4>1. dRoot.sec[MaxDirect] # t
        BY <1>3, Constants DEF NewBlock, Reach
      <4> QED BY <1>2, <2>12, <4>1 DEF Lossless
    <3>2. Finished' /\ FreeNameless'
      BY <1>3, <2>1, <2>5, <2>12 DEF Lossless, Finished, FreeNameless
    <3> QED BY <1>3, <3>1, <3>2 DEF Lossless
  <2> QED BY <2>11, <2>12 DEF Preserved
<1>6. CASE Free # {}
  <2>1. /\ memBits' = memBits \cup {b} /\ diskBits' = Synced(b, memBits')
        /\ op' = [op EXCEPT !.blk = b] /\ pc' = "tabwrite" /\ UNCHANGED root
    BY <1>1, <1>6 DEF SyncTable
  <2>2. b \in Blocks /\ b \notin Reach(root.sec, sect) /\ NewBlock(b)
    BY <1>1, <1>6, FreshBlock
  <2>3. IsOp(op') /\ op'.blk = b /\ op'.name = op.name /\ op'.type = op.type /\ op'.no = op.no
    BY <2>1, <2>2 DEF Orderly, DType, IsOp
  <2>4. DType'
    BY <1>3, <2>1, <2>3 DEF Orderly, DType, Making
  <2>5. Saved \subseteq Saved' /\ b \in Saved'
    BY <2>1, <2>2, SyncedKeeps
  <2>6. Underway'
    <3>1. NewBlock(b)' /\ NewBlock(t)'
      BY <1>3, <2>2 DEF NewBlock
    <3>2. ~InDirect(root.sec, sect, op.name)
      BY <1>3 DEF Orderly, Underway, Making
    <3> QED BY <1>2, <1>3, <2>1, <2>2, <2>3, <2>5, <3>1, <3>2 DEF Underway
  <2>7. Orderly'
    BY <1>3, <2>1, <2>4, <2>5, <2>6, SameDir
  <2>8. Lossless => Lossless'
    BY <1>3, <2>1 DEF Lossless, Finished, FreeNameless
  <2> QED BY <2>7, <2>8 DEF Preserved
<1> QED BY <1>5, <1>6

(* The new table is written, with the address of the entry's block.        *)
LEMMA SyncTableWriteInv ==
  ASSUME Orderly, SyncTableWrite
  PROVE  Preserved
<1>1. PICK t : t = root.sec[MaxDirect]
  OBVIOUS
<1>2. PICK c : c = op.blk
  OBVIOUS
<1>3. /\ pc = "tabwrite" /\ pc' = "entry"
      /\ sect' = [sect EXCEPT ![t] = TableOnly(c)]
      /\ UNCHANGED <<bitVars, root, dRoot, op, durable>>
  BY <1>1, <1>2 DEF SyncTableWrite, memVars, TableOnly
<1>4. /\ t \in Blocks /\ sect[t] = ZeroSector /\ t \notin Reach(dRoot.sec, sect)
      /\ c \in Blocks /\ sect[c] = ZeroSector /\ c \notin Reach(dRoot.sec, sect)
      /\ c \in Saved /\ c \notin Reach(root.sec, sect)
      /\ ~InDirect(root.sec, sect, op.name)
  BY <1>1, <1>2, <1>3 DEF Orderly, Underway, NewBlock, Making
<1>5. t \in Reach(root.sec, sect) /\ t # c /\ t \in Saved
  BY <1>1, <1>4, Constants DEF Orderly, Kept, Reach
<1>6. Sound(root.sec, sect) /\ Sound(dRoot.sec, sect)
  BY DEF Orderly, BothSound
<1>7. /\ sect' \in [Blocks -> SectorType]
      /\ sect'[t].tab = c /\ \A k \in Slots : sect'[t].ents[k] = Empty
      /\ \A b \in Blocks : b # t => sect'[b] = sect[b]
  BY <1>3, <1>4, TableSector, Typed
<1>8. /\ Sound(root.sec, sect')
      /\ At(root.sec, sect', MaxDirect) = c
      /\ Reach(root.sec, sect') \subseteq Reach(root.sec, sect) \cup {c}
      /\ \A name : InDirect(root.sec, sect', name) <=> InDirect(root.sec, sect, name)
      /\ sect'[c] = ZeroSector
  <2>1. root.sec \in Addresses /\ sect \in [Blocks -> SectorType]
    BY Typed
  <2>2. root.sec[MaxDirect] \in Blocks /\ sect[root.sec[MaxDirect]] = ZeroSector
    BY <1>1, <1>4
  <2>3. c \in Blocks \ Reach(root.sec, sect)
    BY <1>4
  <2>4. /\ sect'[root.sec[MaxDirect]].tab = c
        /\ \A b \in Blocks : b # root.sec[MaxDirect] => sect'[b] = sect[b]
    BY <1>1, <1>7
  <2> QED BY <1>4, <1>6, <1>7, <2>1, <2>2, <2>3, <2>4, TableWritten
<1>9. \A b \in Reach(dRoot.sec, sect) : sect'[b] = sect[b]
  BY <1>4, <1>7 DEF Reach
<1>10. /\ Reach(dRoot.sec, sect') = Reach(dRoot.sec, sect)
       /\ Sound(dRoot.sec, sect')
       /\ \A name : Named(dRoot.sec, sect', name) <=> Named(dRoot.sec, sect, name)
  BY <1>6, <1>7, <1>9, SameReach, Typed
<1>11. DType'
  BY <1>3, <1>7 DEF Orderly, DType, Making
<1>12. Kept'
  <2>1. Saved' = Saved
    BY <1>3 DEF Saved, bitVars
  <2>2. \A b \in Blocks : sect'[b] # ZeroSector => b \in Saved
    BY <1>5, <1>7 DEF Orderly, Kept
  <2> QED BY <1>3, <1>4, <1>8, <1>10, <2>1, <2>2 DEF Orderly, Kept
<1>13. Older' /\ BothSound'
  BY <1>3, <1>8, <1>10 DEF Orderly, Older, BothSound
<1>14. Underway'
  <2>1. NewBlock(c)'
    BY <1>3, <1>4, <1>8, <1>10 DEF NewBlock
  <2> QED BY <1>1, <1>2, <1>3, <1>4, <1>5, <1>8, <2>1, Constants DEF Underway
<1>15. Orderly'
  BY <1>11, <1>12, <1>13, <1>14 DEF Orderly
<1>16. ASSUME Lossless PROVE Lossless'
  <2>1. FreeNameless'
    BY <1>7, <1>16, ZeroSectorFacts DEF Lossless, FreeNameless
  <2>2. Finished'
    BY <1>3, <1>10, <1>16 DEF Lossless, Finished
  <2> QED BY <1>3, <1>16, <2>1, <2>2 DEF Lossless
<1> QED BY <1>15, <1>16 DEF Preserved

(* The new block is written, with the entry as its first.                  *)
LEMMA SyncEntryInv ==
  ASSUME Orderly, SyncEntry
  PROVE  Preserved
<1>1. PICK c : c = op.blk
  OBVIOUS
<1>2. /\ pc = "entry" /\ pc \in Making /\ Synchronised
      /\ sect' = [sect EXCEPT ![c] = EntryOnly(NewEntry)]
      /\ UNCHANGED <<bitVars, dRoot, op, durable>>
  BY <1>1 DEF SyncEntry, EntryOnly, Making
<1>3. /\ c \in Blocks /\ sect[c] = ZeroSector /\ c \notin Reach(dRoot.sec, sect)
      /\ c # root.sec[MaxDirect]
      /\ ~InDirect(root.sec, sect, op.name)
  BY <1>1, <1>2 DEF Orderly, Underway, NewBlock
<1>4. PICK j \in Index :
        At(root.sec, sect, j) = c /\ (j = MaxDirect \/ root.sec[MaxDirect] = None)
  BY <1>1, <1>2 DEF Orderly, Underway
<1>5. NewEntry \in EntryType /\ NewEntry.name = op.name /\ NewEntry.type # "unknown"
  BY <1>2, NewEntryFacts
<1>6. Sound(root.sec, sect) /\ Sound(dRoot.sec, sect)
  BY DEF Orderly, BothSound
<1>7. PICK e \in EntryType : e = NewEntry
  BY <1>5
<1>8. /\ sect' \in [Blocks -> SectorType] /\ sect'[c] = EntryOnly(e)
      /\ \A b \in Blocks : b # c => sect'[b] = sect[b]
  BY <1>2, <1>3, <1>7, EntrySector, Typed
<1>9. /\ Sound(root.sec, sect')
      /\ Reach(root.sec, sect') = Reach(root.sec, sect)
      /\ Named(root.sec, sect', op.name)
  <2>1. e.name = op.name /\ ~InDirect(root.sec, sect, e.name) /\ root.sec[MaxDirect] # c
    BY <1>3, <1>5, <1>7
  <2>2. root.sec \in Addresses /\ sect \in [Blocks -> SectorType]
    BY Typed
  <2>3. Sound(root.sec, sect') /\ Reach(root.sec, sect') = Reach(root.sec, sect)
        /\ Named(root.sec, sect', e.name)
    BY <1>3, <1>4, <1>6, <1>8, <2>1, <2>2, EntryWritten
  <2> QED BY <2>1, <2>3
<1>10. \A b \in Reach(dRoot.sec, sect) : sect'[b] = sect[b]
  BY <1>3, <1>8 DEF Reach
<1>11. /\ Reach(dRoot.sec, sect') = Reach(dRoot.sec, sect)
       /\ Sound(dRoot.sec, sect')
       /\ \A name : Named(dRoot.sec, sect', name) <=> Named(dRoot.sec, sect, name)
  BY <1>6, <1>8, <1>10, SameReach, Typed
<1>12. /\ IsInode(root') /\ root'.sec = root.sec
       /\ pc' \in {"rollback", "parent"} /\ (pc' = "parent" => op.type = "regular")
  BY <1>2, Counted
<1>13. DType'
  BY <1>2, <1>8, <1>12, NewEntryFacts DEF Orderly, DType, Making
<1>14. c \in Saved
  BY <1>3, <1>4, AtFacts, Typed DEF Orderly, Kept
<1>15. Kept'
  <2>1. Saved' = Saved
    BY <1>2 DEF Saved, bitVars
  <2>2. \A b \in Blocks : sect'[b] # ZeroSector => b \in Saved
    BY <1>8, <1>14 DEF Orderly, Kept
  <2> QED BY <1>2, <1>9, <1>11, <1>12, <2>1, <2>2 DEF Orderly, Kept
<1>16. Older' /\ BothSound'
  BY <1>2, <1>9, <1>11, <1>12 DEF Orderly, Older, BothSound
<1>17. Underway'
  BY <1>12 DEF Underway, Making
<1>18. Orderly'
  BY <1>13, <1>15, <1>16, <1>17 DEF Orderly
<1>19. ASSUME Lossless PROVE Lossless'
  <2>1. sect'[c].ents[1] = e /\ \A k \in Slots : k # 1 => sect'[c].ents[k] = Empty
    BY <1>8, EntrySector
  <2>2. FreeNameless'
    BY <1>5, <1>7, <1>8, <1>19, <2>1, ZeroSectorFacts DEF Lossless, FreeNameless
  <2>3. Finished'
    BY <1>2, <1>9, <1>11, <1>12, <1>19 DEF Lossless, Finished
  <2> QED BY <1>2, <1>12, <1>19, <2>2, <2>3 DEF Lossless
<1> QED BY <1>18, <1>19 DEF Preserved

-----------------------------------------------------------------------------
(* Dir_DeleteDirEntry, unless it frees the block.  What it clears may be   *)
(* the entry of another name with the number, which is then spoilt.        *)
LEMMA DeleteEntryInv ==
  ASSUME Orderly, DeleteEntry, NothingFreed'
  PROVE  Preserved
<1>1. PICK at : at = {i \in Index \ {MaxDirect} : root.sec[i] # None /\ Matching(i) # {}}
  OBVIOUS
<1>2. PICK i : i = Min(at)
  OBVIOUS
<1>3. PICK b : b = root.sec[i]
  OBVIOUS
<1>4. PICK k : k = Max(Matching(i))
  OBVIOUS
<1>5. /\ pc = "delete" /\ UNCHANGED <<dRoot, op, durable>>
      /\ \/ at = {} /\ pc' = "open" /\ UNCHANGED <<bitVars, root, sect>>
         \/ at # {} /\ "freed" \in spoilt'
         \/ /\ at # {} /\ pc' = "delinode" /\ UNCHANGED bitVars
            /\ sect' = [sect EXCEPT ![b].ents[k].name = NoName]
            /\ root' = [root EXCEPT !.size = @ - 1]
            /\ sect[b].ents[k].name # op.name => spoilt' # {}
  BY <1>1, <1>2, <1>3, <1>4 DEF DeleteEntry
<1>6. IsInode(root) /\ IsOp(op)
  BY DEF Orderly, DType
<1>7. CASE at = {} /\ pc' = "open" /\ UNCHANGED <<bitVars, root, sect>>
  BY <1>5, <1>6, <1>7, PlainStep DEF Making, diskVars
<1>8. CASE "freed" \in spoilt'
  BY <1>8 DEF NothingFreed
<1>9. CASE /\ at # {} /\ pc' = "delinode" /\ UNCHANGED bitVars
           /\ sect' = [sect EXCEPT ![b].ents[k].name = NoName]
           /\ root' = [root EXCEPT !.size = @ - 1]
           /\ sect[b].ents[k].name # op.name => spoilt' # {}
  <2>1. i \in at
    BY <1>1, <1>2, <1>9, Constants, MinIn
  <2>2. i \in Index /\ b \in Blocks
    BY <1>1, <1>3, <2>1, Typed
  <2>3. IsInode(root') /\ root'.sec = root.sec
    BY <1>6, <1>9 DEF IsInode
  <2>4. /\ sect' \in [Blocks -> SectorType]
        /\ \A c \in Blocks : sect'[c].tab = sect[c].tab
        /\ \A c \in Blocks : c # b => sect'[c] = sect[c]
        /\ \A l \in Slots : /\ sect'[b].ents[l].type = sect[b].ents[l].type
                            /\ sect'[b].ents[l].name = IF l = k THEN NoName ELSE sect[b].ents[l].name
    <3>1. sect \in [Blocks -> SectorType] /\ sect[b] \in SectorType
          /\ sect[b].ents \in [Slots -> EntryType]
      BY <2>2, Typed
    <3>2. PICK f : f = [sect[b].ents EXCEPT ![k].name = NoName]
      OBVIOUS
    <3>3. PICK x : x = [sect[b] EXCEPT !.ents = f]
      OBVIOUS
    <3>4. sect' = [sect EXCEPT ![b] = x]
      BY <1>9, <2>2, <3>1, <3>2, <3>3 DEF SectorType
    <3>5. ASSUME NEW l \in Slots
          PROVE  /\ f[l] \in EntryType /\ f[l].type = sect[b].ents[l].type
                 /\ f[l].name = IF l = k THEN NoName ELSE sect[b].ents[l].name
      <4>1. sect[b].ents[l] \in EntryType
        BY <3>1
      <4> QED BY <3>1, <3>2, <4>1 DEF EntryType, AllNames
    <3>6. f \in [Slots -> EntryType]
      BY <3>1, <3>2, <3>5
    <3>7. x \in SectorType /\ x.ents = f /\ x.tab = sect[b].tab
      BY <3>1, <3>3, <3>6 DEF SectorType
    <3>8. sect' \in [Blocks -> SectorType] /\ sect'[b] = x
          /\ \A c \in Blocks : c # b => sect'[c] = sect[c]
      BY <2>2, <3>1, <3>4, <3>7
    <3>9. \A c \in Blocks : sect'[c].tab = sect[c].tab
      BY <3>7, <3>8
    <3> QED BY <3>5, <3>7, <3>8, <3>9
  <2>5. \A c \in Blocks, l \in Slots :
          /\ sect'[c].ents[l].type = sect[c].ents[l].type
          /\ sect'[c].ents[l].name \in {NoName, sect[c].ents[l].name}
    BY <2>4
  <2>6. \A c \in Blocks, l \in Slots :
          /\ sect'[c].ents[l].type = sect[c].ents[l].type
          /\ sect'[c].ents[l].name \in Names => sect'[c].ents[l].name = sect[c].ents[l].name
    BY <2>5, Constants
  <2>7. \A c \in Blocks : sect'[c].tab = sect[c].tab
    BY <2>4
  <2>8. root.sec \in Addresses /\ dRoot.sec \in Addresses /\ sect \in [Blocks -> SectorType]
        /\ Sound(root.sec, sect) /\ Sound(dRoot.sec, sect)
    BY Typed DEF Orderly, BothSound
  <2>9. Reach(root.sec, sect') = Reach(root.sec, sect) /\ Sound(root.sec, sect')
    BY <2>4, <2>6, <2>7, <2>8, FewerNames
  <2>10. /\ Reach(dRoot.sec, sect') = Reach(dRoot.sec, sect) /\ Sound(dRoot.sec, sect')
         /\ \A j \in Index : At(dRoot.sec, sect', j) = At(dRoot.sec, sect, j)
    BY <2>4, <2>6, <2>7, <2>8, FewerNames
  <2>11. DType'
    BY <1>5, <1>6, <1>9, <2>3, <2>4 DEF Orderly, DType, Making
  <2>12. Kept'
    <3>1. Saved' = Saved
      BY <1>9 DEF Saved, bitVars
    <3>2. b \in Saved
      BY <1>3, <2>2 DEF Orderly, Kept, Reach
    <3>3. \A c \in Blocks : sect'[c] # ZeroSector => c \in Saved
      BY <2>4, <3>2 DEF Orderly, Kept
    <3> QED BY <1>5, <2>3, <2>9, <2>10, <3>1, <3>3 DEF Orderly, Kept
  <2>13. Older' /\ BothSound'
    BY <1>5, <2>3, <2>9, <2>10 DEF Orderly, Older, BothSound
  <2>14. Underway'
    BY <1>9 DEF Underway, Making
  <2>15. Orderly'
    BY <2>11, <2>12, <2>13, <2>14 DEF Orderly
  <2>16. ASSUME Lossless, spoilt' = {} PROVE Lossless'
    <3>1. FreeNameless'
      BY <2>5, <2>16 DEF Lossless, FreeNameless
    <3>2. ASSUME NEW name \in durable PROVE Named(dRoot.sec, sect', name)
      <4>1. Named(dRoot.sec, sect, name) /\ name # op.name
        BY <1>5, <2>16 DEF Lossless, Finished
      <4>2. PICK j \in Index, l \in Slots :
              At(dRoot.sec, sect, j) \in Blocks /\ sect[At(dRoot.sec, sect, j)].ents[l].name = name
        BY <4>1 DEF Named
      <4>3. sect[b].ents[k].name = op.name
        BY <1>9, <2>16
      <4>4. sect'[At(dRoot.sec, sect, j)].ents[l].name = name
        BY <2>4, <4>1, <4>2, <4>3
      <4> QED BY <2>10, <4>2, <4>4 DEF Named
    <3>3. Finished'
      BY <1>5, <1>9, <2>16, <3>2 DEF Lossless, Finished
    <3> QED BY <1>5, <2>3, <2>16, <3>1, <3>3 DEF Lossless
  <2> QED BY <2>15, <2>16 DEF Preserved
<1> QED BY <1>5, <1>7, <1>8, <1>9

-----------------------------------------------------------------------------
(* FS_PartitionFormat makes a directory in order.                          *)
LEMMA InitInv ==
  ASSUME Init
  PROVE  Orderly /\ Lossless
<1>1. PICK e : e = [name |-> "..", no |-> 0, type |-> "dir"]
  OBVIOUS
<1>2. PICK x : x = [ZeroSector EXCEPT !.ents[1] = e]
  OBVIOUS
<1>3. e \in EntryType /\ e.name \notin Names /\ e.type # "unknown"
  BY <1>1, Constants DEF EntryType, AllNames, Types
<1>4. /\ x \in SectorType /\ x.tab = None
      /\ x.ents[1] = e /\ \A k \in Slots : k # 1 => x.ents[k] = Empty
  <2>1. ZeroSector.ents \in [Slots -> EntryType] /\ \A k \in Slots : ZeroSector.ents[k] = Empty
    BY ZeroSectorFacts DEF SectorType
  <2>2. x.ents = [ZeroSector.ents EXCEPT ![1] = e] /\ x \in SectorType /\ x.tab = None
    BY <1>2, <1>3, <2>1, ZeroSectorFacts, Constants DEF SectorType
  <2> QED BY <2>1, <2>2, Constants
<1>5. /\ sect = [b \in Blocks |-> IF b = 0 THEN x ELSE ZeroSector]
      /\ root = [ZeroInode EXCEPT !.size = 2, !.sec[0] = 0] /\ dRoot = root
      /\ memBits = {0} /\ diskBits = {0}
      /\ pc = "idle" /\ op = NoOp /\ durable = {}
  BY <1>1, <1>2 DEF Init
<1>6. /\ sect \in [Blocks -> SectorType] /\ sect[0] = x
      /\ \A b \in Blocks : b # 0 => sect[b] = ZeroSector
  BY <1>4, <1>5, ZeroSectorFacts, Constants
<1>7. /\ IsInode(root) /\ root.sec \in Addresses /\ root.sec[0] = 0
      /\ \A i \in Index : i # 0 => root.sec[i] = None
  <2>1. PICK sec : sec = [[i \in Index |-> None] EXCEPT ![0] = 0]
    OBVIOUS
  <2>2. sec \in Addresses /\ sec[0] = 0 /\ \A i \in Index : i # 0 => sec[i] = None
    BY <2>1, Constants DEF Addresses, Index
  <2>3. root = [no |-> 0, size |-> 2, sec |-> sec]
    BY <1>5, <2>1 DEF ZeroInode
  <2> QED BY <2>2, <2>3 DEF IsInode
<1>8. MaxDirect # 0 /\ root.sec[MaxDirect] = None /\ At(root.sec, sect, MaxDirect) = None
  <2>1. MaxDirect # 0
    BY DirsAssumption DEF DirsAssumption
  <2> QED BY <1>7, <2>1, Constants DEF At
<1>9. \A b \in Reach(root.sec, sect) : b = 0
  BY <1>7, <1>8, Constants DEF Reach
<1>10. \A b \in Blocks, k \in Slots : /\ sect[b].ents[k].name \notin Names
                                      /\ sect[b].ents[k].type = "unknown" => sect[b].ents[k] = Empty
  BY <1>3, <1>4, <1>6, ZeroSectorFacts
<1>11. Sound(root.sec, sect)
  <2>1. OnceEach(root.sec, sect)
    BY <1>7, <1>8, Constants DEF OnceEach
  <2>2. NamesOnce(root.sec, sect)
    BY <1>10 DEF NamesOnce, Twice
  <2> QED BY <1>8, <2>1, <2>2 DEF Sound, TableLast
<1>12. DType
  <2>1. IsOp(op)
    BY <1>5 DEF IsOp, NoOp, AllNames, Types
  <2> QED BY <1>5, <1>6, <1>7, <2>1 DEF DType, Making
<1>13. Kept
  BY <1>5, <1>6, <1>9 DEF Kept, Saved
<1>14. Older /\ Underway /\ BothSound
  BY <1>5, <1>11 DEF Older, Underway, Making, BothSound
<1>15. Lossless
  BY <1>5, <1>10, ZeroSectorFacts DEF Lossless, FreeNameless, Finished
<1> QED BY <1>12, <1>13, <1>14, <1>15 DEF Orderly

(* The history only grows.                                                 *)
LEMMA SpoiltGrows ==
  ASSUME Next
  PROVE  spoilt \subseteq spoilt'
<1>1. CASE Reboot
  BY <1>1 DEF Reboot
<1>2. CASE TaskStep
  BY <1>2 DEF TaskStep, Create, Mkdir, Unlink, OpenDir, RemoveDir, OpenFile, Stat, Lookup, Panic,
       Begin, SyncInPlace, SyncNewBlock, SyncTable, SyncTableWrite, SyncEntry, ParentInode,
       NewInode, InodeBitmap, Rollback, DeleteEntry, DeleteInode, ReleaseOpen, ReleaseBlock,
       CloseFile, ReadDir
<1> QED BY <1>1, <1>2 DEF Next

(* Each step preserves the order of the directory until a block is freed.  *)
LEMMA NextInv ==
  ASSUME Orderly, Next, NothingFreed'
  PROVE  Preserved
<1>1. CASE Reboot
  BY <1>1, RebootInv
<1>2. CASE TaskStep
  <2>1. CASE \E name \in Names :
               \/ Create(name) \/ Mkdir(name) \/ Unlink(name)
               \/ OpenDir(name) \/ RemoveDir(name) \/ OpenFile(name) \/ Stat(name)
    BY <2>1, CreateInv, MkdirInv, UnlinkInv, LookupInv
  <2>2. CASE SyncInPlace \/ SyncNewBlock \/ SyncTable \/ SyncTableWrite \/ SyncEntry
    BY <2>2, SyncInPlaceInv, SyncNewBlockInv, SyncTableInv, SyncTableWriteInv, SyncEntryInv
  <2>3. CASE ParentInode \/ NewInode \/ InodeBitmap \/ Rollback
    BY <2>3, WriteRootInv, NewInodeInv, InodeBitmapInv, CloseInv
  <2>4. CASE DeleteEntry \/ DeleteInode \/ ReleaseOpen \/ ReleaseBlock
    BY <2>4, DeleteEntryInv, WriteRootInv, ReleaseInv
  <2>5. CASE CloseFile \/ ReadDir
    BY <2>5, CloseInv
  <2> QED BY <1>2, <2>1, <2>2, <2>3, <2>4, <2>5 DEF TaskStep
<1> QED BY <1>1, <1>2 DEF Next

(* DirInv and LossInv are inductive: through every call, every failed      *)
(* ASSERT and every power failure between two writes, the directory in     *)
(* memory and the one on the disk stay in order until a block is freed,    *)
(* and lose no finished name until one of the causes has occurred.         *)
THEOREM DirInvariance == Spec => [](DirInv /\ LossInv)
<1>1. Init => DirInv /\ LossInv
  BY InitInv DEF DirInv, LossInv
<1>2. DirInv /\ LossInv /\ [Next]_vars => (DirInv /\ LossInv)'
  <2> SUFFICES ASSUME DirInv, LossInv, [Next]_vars PROVE (DirInv /\ LossInv)'
    OBVIOUS
  <2>1. CASE Next
    <3>1. spoilt \subseteq spoilt'
      BY <2>1, SpoiltGrows
    <3>2. ASSUME NothingFreed' PROVE Orderly' /\ (spoilt' = {} => Lossless')
      <4>1. NothingFreed
        BY <3>1, <3>2 DEF NothingFreed
      <4>2. Orderly /\ (spoilt' = {} => Lossless)
        BY <3>1, <4>1 DEF DirInv, LossInv
      <4> QED BY <2>1, <3>2, <4>2, NextInv DEF Preserved
    <3>3. spoilt' = {} => NothingFreed'
      BY DEF NothingFreed
    <3> QED BY <3>2, <3>3 DEF DirInv, LossInv
  <2>2. CASE UNCHANGED vars
    <3>1. Orderly => Preserved
      BY <2>2, Untouched DEF vars, memVars
    <3>2. spoilt' = spoilt
      BY <2>2 DEF vars
    <3>3. spoilt = {} => NothingFreed
      BY DEF NothingFreed
    <3> QED BY <3>1, <3>2, <3>3 DEF DirInv, LossInv, NothingFreed, Preserved
  <2> QED BY <2>1, <2>2
<1> QED BY <1>1, <1>2, PTL DEF Spec

(* BlockAt reads the sectors as At does.                                   *)
LEMMA BlockAtIs ==
  ASSUME NEW inode, NEW i
  PROVE  BlockAt(inode, i) = At(inode.sec, sect, i)
BY DEF BlockAt, At

(* The directory on the disk never has two entries with one name, however  *)
(* often the power fails between two writes of File_Create, sys_mkdir or   *)
(* sys_unlink, until an unlink frees a block.                              *)
THEOREM UniqueNamesHolds == Spec => []UniqueNames
<1>1. DirInv => UniqueNames
  <2> SUFFICES ASSUME Orderly, NEW name \in Names
               PROVE  Cardinality({p \in Places(dRoot) : EntryAt(dRoot, p).name = name}) <= 1
    BY DEF DirInv, UniqueNames
  <2> DEFINE S == {p \in Places(dRoot) : EntryAt(dRoot, p).name = name}
  <2>1. ASSUME NEW p \in S, NEW q \in S PROVE p = q
    <3>1. /\ p \in Index \X (1 .. PerBlock) /\ q \in Index \X (1 .. PerBlock)
          /\ At(dRoot.sec, sect, p[1]) \in Blocks /\ At(dRoot.sec, sect, q[1]) \in Blocks
          /\ sect[At(dRoot.sec, sect, p[1])].ents[p[2]].name = name
          /\ sect[At(dRoot.sec, sect, q[1])].ents[q[2]].name = name
      BY BlockAtIs DEF Places, EntryAt
    <3>2. p[1] \in Index /\ q[1] \in Index /\ p[2] \in Slots /\ q[2] \in Slots
      BY <3>1 DEF Slots
    <3>3. Twice(dRoot.sec, sect, p[1], p[2], q[1], q[2])
      BY <3>1 DEF Twice
    <3>4. p[1] = q[1] /\ p[2] = q[2]
      BY <3>2, <3>3 DEF Orderly, BothSound, Sound, NamesOnce
    <3> QED BY <3>1, <3>4
  <2> HIDE DEF S
  <2>2. CASE S = {}
    BY <2>2, FS_EmptySet DEF S
  <2>3. CASE S # {}
    <3>1. PICK p \in S : TRUE
      BY <2>3
    <3>2. S = {p}
      BY <2>1, <3>1
    <3>3. Cardinality({p}) = 1
      BY FS_Singleton
    <3> QED BY <3>2, <3>3 DEF S
  <2> QED BY <2>2, <2>3
<1> QED BY <1>1, DirInvariance, PTL

(* A file whose creation has returned is found on the disk until it is     *)
(* unlinked, through every power failure, unless one of the named causes   *)
(* has occurred.                                                           *)
THEOREM LossExplainedHolds == Spec => []LossExplained
<1>1. LossInv => LossExplained
  <2> SUFFICES ASSUME Lossless, NEW name \in durable PROVE Hits(dRoot, name) # {}
    BY DEF LossInv, LossExplained
  <2>1. PICK i \in Index, k \in Slots :
          At(dRoot.sec, sect, i) \in Blocks /\ sect[At(dRoot.sec, sect, i)].ents[k].name = name
    BY DEF Lossless, Finished, Named
  <2>2. <<i, k>> \in Places(dRoot) /\ EntryAt(dRoot, <<i, k>>).name = name
    BY <2>1, BlockAtIs DEF Places, EntryAt, Slots
  <2> QED BY <2>2 DEF Hits
<1> QED BY <1>1, DirInvariance, PTL

(* No block of the root directory is free in the bitmap, so that neither   *)
(* a file nor another part of the directory is given it, in memory or      *)
(* after a power failure, until an unlink frees one.                       *)
THEOREM DirBlocksTakenHolds == Spec => []DirBlocksTaken
<1>1. DirInv => DirBlocksTaken
  <2> SUFFICES ASSUME Orderly
               PROVE  /\ {root.sec[i] : i \in Index} \cap Blocks \subseteq memBits
                      /\ {BlockAt(dRoot, i) : i \in Index} \cap Blocks \subseteq diskBits
                      /\ {dRoot.sec[i] : i \in Index} \cap Blocks \subseteq diskBits
    BY DEF DirInv, DirBlocksTaken
  <2>1. Reach(root.sec, sect) \subseteq memBits /\ Reach(dRoot.sec, sect) \subseteq diskBits
    BY DEF Orderly, Kept, Saved
  <2>2. \A i \in Index : /\ root.sec[i] \in Blocks => root.sec[i] \in Reach(root.sec, sect)
                         /\ dRoot.sec[i] \in Blocks => dRoot.sec[i] \in Reach(dRoot.sec, sect)
    BY DEF Reach
  <2>3. \A i \in Index : BlockAt(dRoot, i) \in Blocks => BlockAt(dRoot, i) \in Reach(dRoot.sec, sect)
    BY BlockAtIs, AtFacts, Typed
  <2> QED BY <2>1, <2>2, <2>3
<1> QED BY <1>1, DirInvariance, PTL
=============================================================================
