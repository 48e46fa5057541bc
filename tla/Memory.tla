------------------------------- MODULE Memory -------------------------------
(***************************************************************************)
(* Memory management (kernel/memory.c): the physical pools, the virtual    *)
(* bitmaps, page tables, and the heap of blocks and arenas on top of them. *)
(*                                                                         *)
(* Addresses are page numbers.  A kernel thread, and a process in          *)
(* Process_Start, can be preempted wherever Palloc has searched a bitmap   *)
(* and not yet set the bit; a process in a system call has interrupts off  *)
(* and finishes before anyone else runs.  memLock is the mutex of Mutex.   *)
(***************************************************************************)
EXTENDS Integers, Sequences, FiniteSets, FiniteSetsExt

CONSTANTS
  KThreads,    \* kernel threads (pgDir is NULL)
  Procs,       \* user processes
  Starting,    \* the processes that have yet to run Process_Start
  NoTask,
  Kernel,      \* the kernel's address space; a process names its own
  Byte,        \* bits in a byte of a bitmap (8 in the code)
  KLen, ULen,  \* bytes in the bitmaps of the kernel's and the users' pool
  LowPages,    \* pages below the pools (512 in the code)
  UserPages,   \* pages of a process's address space, the stack the last
  PageSize,    \* bytes in a page (4096 in the code)
  ArenaSize,   \* sizeof(MemArena) (12)
  MinBlock,    \* bytes in the smallest block (16)
  DescCnt,     \* DESC_CNT (7)
  Sizes,       \* the sizes malloc is called with
  MaxPages     \* bound: pages in one call of Mem_GetKernelPages

Tasks == KThreads \cup Procs
Spaces == {Kernel} \cup Procs

KPages == KLen * Byte
UPages == ULen * Byte
KStart == LowPages            \* kernelMemPool.phyAddrStart
UStart == KStart + KPages     \* userMemPool.phyAddrStart
Stack == UserPages - 1        \* USER_VADDR_STACK - PAGE_SIZE
NoPage == -1                  \* a clear P bit

VirPages(s) == IF s = Kernel THEN 0 .. KPages - 1 ELSE 0 .. UserPages - 1

Descs == 1 .. DescCnt
BlockSize(d) == MinBlock * 2 ^ (d - 1)
BlockPerArena(d) == (PageSize - ArenaSize) \div BlockSize(d)
Large == 0                    \* desc is NULL

(* Every arena has a block, and a process has more room for pages than the *)
(* kernel's pool has pages.                                                *)
ASSUME MemoryAssumption ==
  /\ KThreads \cap Procs = {} /\ Kernel \notin Tasks /\ NoTask \notin Tasks
  /\ Starting \subseteq Procs
  /\ {Byte, KLen, ULen, LowPages, PageSize, ArenaSize, MinBlock, DescCnt} \subseteq Nat \ {0}
  /\ MaxPages \in Nat
  /\ UserPages \in Nat \ {0, 1} /\ KPages <= UserPages
  /\ \A d \in Descs : BlockPerArena(d) \in Nat \ {0}
  /\ Sizes \subseteq Nat

NoArena == [desc |-> Large, cnt |-> 0]
NoReq == [kind |-> "none", s |-> Kernel, desc |-> Large, v0 |-> 0, v |-> 0,
          n |-> 0, idx |-> 0, tidx |-> 0]

VARIABLES
  phys,      \* the bits set in the pools' bitmaps, per pool
  virK,      \* the bits set in kernelVirMemPool.bitmap
  virU,      \* the bits set in progVaddrPool.bitmap, per process
  pte,       \* the physical page each virtual page is mapped to, per space
  tables,    \* the page tables of a process: the page each one lies in
  memLock,   \* the holder of the lock of each pool
  busy,      \* the process that is in a system call
  pc, req,   \* where a task is in an allocation, and what it asked for
  arena,     \* the MemArena at the start of a page, per space
  freeList,  \* the free blocks per space and descriptor
  live,      \* the blocks in the hands of callers
  panic      \* "none", or the ASSERT that failed

poolVars == <<phys, virK, virU, pte, tables>>
heapVars == <<arena, freeList, live>>
ctlVars == <<memLock, busy, pc, req>>
vars == <<poolVars, heapVars, ctlVars, panic>>

Pool(s) == IF s = Kernel THEN "kernel" ELSE "user"
Pages(pool) == IF pool = "kernel" THEN KPages ELSE UPages
Start(pool) == IF pool = "kernel" THEN KStart ELSE UStart
Region(v) == IF v = Stack THEN "stack" ELSE "heap"

Init ==
  /\ phys = [p \in {"kernel", "user"} |-> {}]
  /\ virK = {}
  /\ virU = [p \in Procs |-> {}]
  /\ pte = [s \in Spaces |-> [v \in VirPages(s) |-> NoPage]]
  /\ tables = [p \in Procs |-> [r \in {"heap", "stack"} |-> NoPage]]
  /\ memLock = [p \in {"kernel", "user"} |-> NoTask]
  /\ busy = NoTask
  /\ pc = [t \in Tasks |-> IF t \in Starting THEN "start" ELSE "idle"]
  /\ req = [t \in Tasks |-> NoReq]
  /\ arena = [s \in Spaces |-> [v \in VirPages(s) |-> NoArena]]
  /\ freeList = [s \in Spaces |-> [d \in Descs |-> <<>>]]
  /\ live = [s \in Spaces |-> {}]
  /\ panic = "none"

Panic(id) ==
  /\ panic' = id
  /\ UNCHANGED <<poolVars, heapVars, ctlVars>>

(***************************************************************************)
(* BitmapScan, by the property that BitmapScanProofs proves of it.  The    *)
(* search runs into the byte behind the map: the kernel's physical bitmap  *)
(* is followed by the users', which is followed by the kernel's virtual    *)
(* one; what follows that one is unknown.                                  *)
(***************************************************************************)
Scan(used, bits, n) ==
  LET fits == {i \in 0 .. bits + Byte - n - 1 : \A j \in 0 .. n - 1 : i + j \notin used}
  IN IF fits = {} THEN -1 ELSE Min(fits)

Behind(bits, set) == {bits + j : j \in set \cap (0 .. Byte - 1)}

PhysScan(pool) ==
  IF pool = "kernel"
  THEN Scan(phys["kernel"] \cup Behind(KPages, phys["user"]), KPages, 1)
  ELSE Scan(phys["user"] \cup Behind(UPages, virK), UPages, 1)

(***************************************************************************)
(* Mem_GetVirAddr for n pages in space s, at the start of Mem_MallocPages, *)
(* with the lock taken.  The bits are set in kernelVirMemPool.bitmap, also *)
(* if the pages are a process's.  Without n pages the caller gets NULL and *)
(* nothing changes.                                                        *)
(***************************************************************************)
Take(t, s) ==
  /\ memLock' = [memLock EXCEPT ![Pool(s)] = t]
  /\ busy' = IF pc[t] = "idle" /\ t \in Procs THEN t ELSE busy

(* The bits Mem_GetVirAddrFromBitmap sets. *)
Reserved_First(i, n) == {i}
Reserved(i, n) == i .. i + n - 1

MallocPages(t, s, n, kind, d) ==
  \E unknown \in {{}, 0 .. Byte - 1} :
    LET i == IF s = Kernel
             THEN Scan(virK \cup Behind(KPages, unknown), KPages, n)
             ELSE Scan(virU[s], UserPages, n)
    IN /\ i # -1
       /\ IF i + n > KPages
          THEN Panic("memory.c:131")
          ELSE /\ virK' = virK \cup Reserved(i, n)
               /\ Take(t, s)
               /\ pc' = [pc EXCEPT ![t] = "scan"]
               /\ req' = [req EXCEPT ![t] = [kind |-> kind, s |-> s, desc |-> d,
                                             v0 |-> i, v |-> i, n |-> n,
                                             idx |-> 0, tidx |-> 0]]
               /\ UNCHANGED <<phys, virU, pte, tables, heapVars, panic>>

(* A task that may start an operation on space s. *)
MayBegin(t, s) == pc[t] = "idle" /\ memLock[Pool(s)] = NoTask

(* Mem_GetKernelPages: PCBs, page directories, bitmaps, by threads or fork.*)
GetKernelPages(t, n) ==
  /\ MayBegin(t, Kernel)
  /\ MallocPages(t, Kernel, n, "pages", Large)

(* Process_Start gets its stack page: Mem_GetOnePage(VIR_MEM_USER, ...). *)
GetOnePage(t) ==
  /\ pc[t] = "start"
  /\ memLock["user"] = NoTask
  /\ virU' = [virU EXCEPT ![t] = @ \cup {Stack}]
  /\ Take(t, t)
  /\ pc' = [pc EXCEPT ![t] = "scan"]
  /\ req' = [req EXCEPT ![t] = [kind |-> "pages", s |-> t, desc |-> Large,
                                v0 |-> Stack, v |-> Stack, n |-> 1,
                                idx |-> 0, tidx |-> 0]]
  /\ UNCHANGED <<phys, virK, pte, tables, heapVars, panic>>

(* The operation of t returns, with the lock released. *)
Return(t) ==
  /\ memLock' = [memLock EXCEPT ![Pool(req[t].s)] = NoTask]
  /\ busy' = IF busy = t THEN NoTask ELSE busy
  /\ pc' = [pc EXCEPT ![t] = "idle"]
  /\ req' = [req EXCEPT ![t] = NoReq]

(***************************************************************************)
(* Mem_Palloc for the next page, in two steps.  If there is no page the    *)
(* call returns NULL; what it had allocated so far stays allocated.        *)
(***************************************************************************)
PallocScan(t) ==
  /\ pc[t] = "scan"
  /\ LET i == PhysScan(Pool(req[t].s))
     IN IF i = -1
        THEN Return(t)
        ELSE /\ req' = [req EXCEPT ![t].idx = i]
             /\ pc' = [pc EXCEPT ![t] = "set"]
             /\ UNCHANGED <<memLock, busy>>
  /\ UNCHANGED <<poolVars, heapVars, panic>>

(* BitmapSet(&memPool->bitmap, bitIndex, 1) and its ASSERT. *)
InMap(pool, i) == i < Pages(pool)

BitmapSet_Lost(pool, i) == phys
BitmapSet(pool, i) == [phys EXCEPT ![pool] = @ \cup {i}]

(* Mem_AddPageTable follows; the loader has made the kernel's page tables. *)
PallocSet(t) ==
  LET s == req[t].s
  IN /\ pc[t] = "set"
     /\ IF ~InMap(Pool(s), req[t].idx)
        THEN Panic("memory.c:182")
        ELSE /\ phys' = BitmapSet(Pool(s), req[t].idx)
             /\ pc' = [pc EXCEPT ![t] =
                         IF s = Kernel \/ tables[s][Region(req[t].v)] # NoPage
                         THEN "map" ELSE "tscan"]
             /\ UNCHANGED <<virK, virU, pte, tables, heapVars, memLock, busy,
                            req, panic>>

(***************************************************************************)
(* Mem_AddPageTable without a page table: one is taken from the kernel's   *)
(* pool, whose lock the caller does not hold.  A failure goes unnoticed,   *)
(* and the table is then the page at address NULL.                         *)
(***************************************************************************)
TableScan(t) ==
  /\ pc[t] = "tscan"
  /\ pc' = [pc EXCEPT ![t] = "tset"]
  /\ req' = [req EXCEPT ![t].tidx = PhysScan("kernel")]
  /\ UNCHANGED <<poolVars, heapVars, memLock, busy, panic>>

TableSet(t) ==
  LET i == req[t].tidx
      s == req[t].s
      NewTable(page) == [tables EXCEPT ![s][Region(req[t].v)] = page]
  IN /\ pc[t] = "tset"
     /\ IF ~InMap("kernel", i)
        THEN Panic("memory.c:182")
        ELSE /\ phys' = IF i = -1 THEN phys ELSE BitmapSet("kernel", i)
             /\ tables' = NewTable(IF i = -1 THEN 0 ELSE KStart + i)
             /\ pc' = [pc EXCEPT ![t] = "map"]
             /\ UNCHANGED <<virK, virU, pte, heapVars, memLock, busy, req, panic>>

(***************************************************************************)
(* The page is mapped; after the last one the caller of Mem_MallocPages    *)
(* goes on: Mem_Malloc makes an arena of it, and of a small one it gives   *)
(* away the first block (the free list was empty).                         *)
(***************************************************************************)
Split(v, d) == [i \in 1 .. BlockPerArena(d) |-> <<v, i - 1>>]

Finish(t) ==
  LET r == req[t]
  IN \/ r.kind = "pages" /\ UNCHANGED heapVars
     \/ /\ r.kind = "large"
        /\ arena' = [arena EXCEPT ![r.s][r.v0] =
                        [desc |-> Large, cnt |-> r.v - r.v0 + 1]]
        /\ live' = [live EXCEPT ![r.s] = @ \cup {<<r.v0, 0>>}]
        /\ UNCHANGED freeList
     \/ /\ r.kind = "small"
        /\ arena' = [arena EXCEPT ![r.s][r.v0] =
                        [desc |-> r.desc, cnt |-> BlockPerArena(r.desc) - 1]]
        /\ freeList' = [freeList EXCEPT ![r.s][r.desc] = Tail(Split(r.v0, r.desc))]
        /\ live' = [live EXCEPT ![r.s] = @ \cup {<<r.v0, 0>>}]

MapPage(t) ==
  LET r == req[t]
  IN /\ pc[t] = "map"
     /\ IF pte[r.s][r.v] # NoPage
        THEN Panic("memory.c:199")
        ELSE /\ pte' = [pte EXCEPT ![r.s][r.v] = Start(Pool(r.s)) + r.idx]
             /\ IF r.n > 1
                THEN /\ req' = [req EXCEPT ![t].n = @ - 1, ![t].v = @ + 1]
                     /\ pc' = [pc EXCEPT ![t] = "scan"]
                     /\ UNCHANGED <<memLock, busy, heapVars>>
                ELSE Return(t) /\ Finish(t)
             /\ UNCHANGED <<phys, virK, virU, tables, panic>>

(***************************************************************************)
(* Mem_Malloc.  A size above the largest block gets pages of its own, with *)
(* the MemArena in front; a smaller one the smallest block that holds it.  *)
(***************************************************************************)
Space(t) == IF t \in Procs THEN t ELSE Kernel

PagesFor(size) == (size + ArenaSize + PageSize - 1) \div PageSize

DescFor(size) == Min({d \in Descs : size <= BlockSize(d)})

MallocLarge(t, size) ==
  /\ MayBegin(t, Space(t))
  /\ BlockSize(DescCnt) < size /\ size < Pages(Pool(Space(t))) * PageSize
  /\ MallocPages(t, Space(t), PagesFor(size), "large", Large)

MallocArena(t, size) ==
  /\ MayBegin(t, Space(t))
  /\ size <= BlockSize(DescCnt)
  /\ freeList[Space(t)][DescFor(size)] = <<>>
  /\ MallocPages(t, Space(t), 1, "small", DescFor(size))

(* A block comes off the free list.  Names with a suffix, here and above,  *)
(* are broken variants of the definition that follows them.                *)
Taken(list) == Tail(list)

MallocBlock(t, size) ==
  LET s == Space(t)
      d == DescFor(size)
      b == Head(freeList[s][d])
  IN /\ MayBegin(t, s)
     /\ size <= BlockSize(DescCnt)
     /\ freeList[s][d] # <<>>
     /\ freeList' = [freeList EXCEPT ![s][d] = Taken(@)]
     /\ arena' = [arena EXCEPT ![s][b[1]].cnt = @ - 1]
     /\ live' = [live EXCEPT ![s] = @ \cup {b}]
     /\ UNCHANGED <<poolVars, ctlVars, panic>>

(***************************************************************************)
(* Mem_Free: Mem_FreePhyAddr for each page, which tells the pools apart by *)
(* comparing the address with the SIZE of the users' pool, then            *)
(* Mem_FreeVirAddr.  Addresses are unsigned: a page below the start of the *)
(* pool has an index far beyond its bitmap.                                *)
(***************************************************************************)
PoolOf(page) == IF page >= UPages THEN "user" ELSE "kernel"
BitOf(page) == page - Start(PoolOf(page))

FreePages(s, v, n, lists, inUse) ==
  LET vs == v .. v + n - 1
      pages == {pte[s][w] : w \in vs}
  IN IF \E page \in pages : BitOf(page) \notin 0 .. Pages(PoolOf(page)) - 1
     THEN Panic("bitmap.c:28")
     ELSE IF Cardinality(pages) < n \/ \E page \in pages : BitOf(page) \notin phys[PoolOf(page)]
     THEN Panic("memory.c:417")
     ELSE /\ phys' = [p \in DOMAIN phys |->
                        phys[p] \ {BitOf(page) : page \in {q \in pages : PoolOf(q) = p}}]
          /\ virK' = IF s = Kernel THEN virK \ vs ELSE virK
          /\ virU' = IF s = Kernel THEN virU ELSE [virU EXCEPT ![s] = @ \ vs]
          /\ pte' = [pte EXCEPT ![s] = [w \in VirPages(s) |->
                                          IF w \in vs THEN NoPage ELSE @[w]]]
          /\ arena' = [arena EXCEPT ![s][v] = NoArena]
          /\ freeList' = lists
          /\ live' = inUse
          /\ UNCHANGED <<tables, ctlVars, panic>>

(* sys_free of a block that Mem_Malloc returned. *)
FreeLarge(t, b) ==
  LET s == Space(t)
  IN /\ MayBegin(t, s)
     /\ b \in live[s]
     /\ arena[s][b[1]].desc = Large
     /\ FreePages(s, b[1], arena[s][b[1]].cnt,
                  freeList, [live EXCEPT ![s] = @ \ {b}])

(* The last block of the arena in use has come back. *)
ArenaFree_Never(a) == a.cnt = BlockPerArena(a.desc)
ArenaFree(a) == a.cnt + 1 = BlockPerArena(a.desc)

(* The loop that takes the arena's blocks off the free list. *)
Unlinked_Kept(list, v) == list
Unlinked(list, v) ==
  LET kept == {i \in DOMAIN list : list[i][1] # v}
      Nth(k) == CHOOSE i \in kept : Cardinality({j \in kept : j <= i}) = k
  IN [k \in 1 .. Cardinality(kept) |-> list[Nth(k)]]

FreeBlock(t, b) ==
  LET s == Space(t)
      a == arena[s][b[1]]
      list == Append(freeList[s][a.desc], b)
  IN /\ MayBegin(t, s)
     /\ b \in live[s]
     /\ a.desc # Large
     /\ IF ArenaFree(a)
        THEN FreePages(s, b[1], 1,
                       [freeList EXCEPT ![s][a.desc] = Unlinked(list, b[1])],
                       [live EXCEPT ![s] = @ \ {b}])
        ELSE /\ freeList' = [freeList EXCEPT ![s][a.desc] = list]
             /\ arena' = [arena EXCEPT ![s][b[1]].cnt = @ + 1]
             /\ live' = [live EXCEPT ![s] = @ \ {b}]
             /\ UNCHANGED <<poolVars, ctlVars, panic>>

-----------------------------------------------------------------------------
TaskStep(t) ==
  /\ panic = "none"
  /\ busy \in {NoTask, t}
  /\ \/ GetOnePage(t)
     \/ PallocScan(t) \/ PallocSet(t) \/ TableScan(t) \/ TableSet(t) \/ MapPage(t)
     \/ \E n \in 1 .. MaxPages : GetKernelPages(t, n)
     \/ \E size \in Sizes :
          MallocLarge(t, size) \/ MallocArena(t, size) \/ MallocBlock(t, size)
     \/ \E b \in live[Space(t)] : FreeLarge(t, b) \/ FreeBlock(t, b)

Halted == panic # "none" /\ UNCHANGED vars

Next == (\E t \in Tasks : TaskStep(t)) \/ Halted

Spec == Init /\ [][Next]_vars

-----------------------------------------------------------------------------
Labels == {"start", "idle", "scan", "set", "tscan", "tset", "map"}

(* The ASSERTs that depend on the state; those of BitmapSet are named by   *)
(* the line of memory.c that calls it.                                     *)
Asserts == {"memory.c:131", "memory.c:182", "memory.c:199", "memory.c:417", "bitmap.c:28"}

(* Types: bitmaps have no bits behind their end, where other bitmaps lie,  *)
(* although BitmapScan looks there.                                        *)
TypeOK ==
  /\ phys \in [{"kernel", "user"} -> SUBSET Nat]
  /\ \A p \in DOMAIN phys : phys[p] \subseteq 0 .. Pages(p) - 1
  /\ virK \subseteq 0 .. KPages - 1
  /\ \A p \in Procs : virU[p] \subseteq VirPages(p)
  /\ \A s \in Spaces : pte[s] \in [VirPages(s) -> Nat \cup {NoPage}]
  /\ tables \in [Procs -> [{"heap", "stack"} -> Nat \cup {NoPage}]]
  /\ memLock \in [{"kernel", "user"} -> Tasks \cup {NoTask}]
  /\ busy \in Procs \cup {NoTask}
  /\ pc \in [Tasks -> Labels]
  /\ \A s \in Spaces : arena[s] \in [VirPages(s) -> [desc : 0 .. DescCnt, cnt : Nat]]
  /\ \A s \in Spaces : live[s] \subseteq VirPages(s) \X Nat
  /\ panic \in Asserts \cup {"none"}

(* A physical page is in one place only: mapped once in all the address    *)
(* spaces, or a page table.                                                *)
Uses(page) ==
  {x \in UNION {{s} \X VirPages(s) : s \in Spaces} : pte[x[1]][x[2]] = page}
    \cup {x \in Procs \X {"heap", "stack"} : tables[x[1]][x[2]] = page}

MappedOnce ==
  \A page \in KStart .. UStart + UPages - 1 : Cardinality(Uses(page)) <= 1

(* What is mapped, or is a page table, is taken in its pool: nobody else   *)
(* will be given it.                                                       *)
MappedIsTaken ==
  panic = "none" =>
    \A pool \in {"kernel", "user"}, i \in 0 .. KPages + UPages :
      i < Pages(pool) /\ Uses(Start(pool) + i) # {} => i \in phys[pool]

(* A kernel page that is mapped has its bit set in kernelVirMemPool.bitmap.*)
MappedIsReserved == \A v \in VirPages(Kernel) : pte[Kernel][v] # NoPage => v \in virK

FreeBlocks(s) == UNION {{freeList[s][d][i] : i \in DOMAIN freeList[s][d]} : d \in Descs}

(* No block is given to two callers, and the memory under every block, in  *)
(* use or free, is a mapped arena of the right descriptor.                 *)
BlocksSound ==
  \A s \in Spaces :
    /\ live[s] \cap FreeBlocks(s) = {}
    /\ \A b \in live[s] : pte[s][b[1]] # NoPage
    /\ \A d \in Descs :
         /\ Cardinality({freeList[s][d][i] : i \in DOMAIN freeList[s][d]}) = Len(freeList[s][d])
         /\ \A i \in DOMAIN freeList[s][d] :
              LET b == freeList[s][d][i]
              IN pte[s][b[1]] # NoPage /\ arena[s][b[1]].desc = d

(* arena->cnt counts the free blocks of the arena, and an arena with none  *)
(* in use does not stay: sys_free has given its page back.                 *)
CntExact ==
  \A s \in Spaces, d \in Descs : \A v \in VirPages(s) :
    arena[s][v].desc = d =>
      /\ arena[s][v].cnt = Cardinality({b \in FreeBlocks(s) : b[1] = v})
      /\ arena[s][v].cnt < BlockPerArena(d)
=============================================================================
