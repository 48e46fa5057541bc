---------------------------- MODULE MemoryProofs ----------------------------
(***************************************************************************)
(* Proofs about Memory, for any number of tasks and pools, bitmaps and     *)
(* descriptors of any size.  For every mixture of threads and processes:   *)
(* the heap's blocks are sound, its counters exact, and what the kernel    *)
(* has mapped is reserved.  For threads or processes on their own: a       *)
(* physical page is in one place, and taken while it is there.             *)
(***************************************************************************)
EXTENDS MemoryApart, FiniteSetTheorems, SequenceTheorems, WellFoundedInduction, TLAPS

Block == Nat \X Nat
ArenaType == [desc : 0 .. DescCnt, cnt : Int]
Request ==
  [kind : {"none", "pages", "large", "small"}, s : Spaces, desc : 0 .. DescCnt,
   v0 : Int, v : Int, n : Int, idx : Nat, tidx : Int]

(* One heap: an address space with the virtual pages V, its page table pt, *)
(* arenas ar, free lists fl, and the blocks lv in use.                     *)
HeapType(V, pt, ar, fl, lv) ==
  /\ V \subseteq Nat
  /\ pt \in [V -> Int]
  /\ ar \in [V -> ArenaType]
  /\ fl \in [Descs -> Seq(Block)]
  /\ lv \subseteq Block

Elems(list) == {list[i] : i \in DOMAIN list}
NoDup(list) == \A i, j \in DOMAIN list : list[i] = list[j] => i = j

FreeSet(fl) == UNION {Elems(fl[d]) : d \in Descs}
AllBlocks(fl, lv) == lv \cup FreeSet(fl)
FreeOf(fl, v) == {b \in FreeSet(fl) : b[1] = v}

(* The pages of the arena a block lies in.                                 *)
Size(a) == IF a.desc = Large THEN a.cnt ELSE 1
Covers(ar, b, w) == b[1] <= w /\ w < b[1] + Size(ar[b[1]])

(* A block lies in mapped pages, in an arena that no other one overlaps.   *)
Mapped(V, pt, ar, B) ==
  \A b \in B :
    /\ b[1] \in V /\ Size(ar[b[1]]) >= 1
    /\ \A w \in Int : Covers(ar, b, w) => w \in V /\ pt[w] # NoPage

NoOverlap(ar, B) ==
  \A b, c \in B : \A w \in Int : Covers(ar, b, w) /\ Covers(ar, c, w) => b[1] = c[1]

(* Its number is one the arena has.                                        *)
Numbered(ar, B) ==
  \A b \in B :
    IF ar[b[1]].desc = Large THEN b[2] = 0 ELSE b[2] < BlockPerArena(ar[b[1]].desc)

(* The free lists are of their descriptor, and cnt counts what they have.  *)
Listed(ar, fl) ==
  \A d \in Descs :
    /\ NoDup(fl[d])
    /\ \A b \in Elems(fl[d]) : ar[b[1]].desc = d

Counts(V, ar, fl) ==
  \A v \in V : ar[v].desc # Large =>
    /\ ar[v].cnt = Cardinality(FreeOf(fl, v))
    /\ ar[v].cnt < BlockPerArena(ar[v].desc)

Heap(V, pt, ar, fl, lv) ==
  /\ HeapType(V, pt, ar, fl, lv)
  /\ Mapped(V, pt, ar, AllBlocks(fl, lv))
  /\ NoOverlap(ar, AllBlocks(fl, lv))
  /\ Numbered(ar, AllBlocks(fl, lv))
  /\ lv \cap FreeSet(fl) = {}
  /\ Listed(ar, fl)
  /\ Counts(V, ar, fl)

(* The pages w .. x are mapped and belong to no block.                     *)
Unowned(V, pt, ar, fl, lv, w, x) ==
  \A y \in w .. x : /\ y \in V /\ pt[y] # NoPage
                    /\ \A b \in AllBlocks(fl, lv) : ~Covers(ar, b, y)

(* g is f, except perhaps at x; the blocks N are all in page v; ar and ar2 *)
(* differ in the free blocks of small arenas only.                         *)
Except(f, g, S, x) == \A y \in S : y # x => g[y] = f[y]
AllAt(N, v) == \A b \in N : b[1] = v
SameShape(ar, ar2, V) ==
  \A x \in V : /\ ar2[x].desc = ar[x].desc
               /\ ar[x].desc = Large => ar2[x] = ar[x]

(* pt2 is pt without the n pages from v on.                                *)
Unmapped(pt, pt2, V, v, n) ==
  \A w \in V : pt2[w] = IF v <= w /\ w < v + n THEN NoPage ELSE pt[w]

(* What an allocation r has done so far, and has yet to do.                *)
Pending(V, pt, ar, fl, lv, r) ==
  /\ r.v0 <= r.v /\ r.n >= 1 /\ r.kind # "none"
  /\ r.v0 .. r.v + r.n - 1 \subseteq V
  /\ Unowned(V, pt, ar, fl, lv, r.v0, r.v - 1)
  /\ r.kind = "small" => r.v = r.v0 /\ r.n = 1 /\ r.desc \in Descs /\ fl[r.desc] = <<>>

HeapOf(s) == Heap(VirPages(s), pte[s], arena[s], freeList[s], live[s])
PendingOf(t) ==
  LET s == req[t].s
  IN Pending(VirPages(s), pte[s], arena[s], freeList[s], live[s], req[t])

InCall(t) == pc[t] \in {"scan", "set", "tscan", "tset", "map"}

MType ==
  /\ memLock \in [{"kernel", "user"} -> Tasks \cup {NoTask}]
  /\ pc \in [Tasks -> Labels]
  /\ req \in [Tasks -> Request]
  /\ pte = [s \in Spaces |-> pte[s]]
  /\ arena = [s \in Spaces |-> arena[s]]
  /\ freeList = [s \in Spaces |-> freeList[s]]
  /\ live = [s \in Spaces |-> live[s]]

(* A task in an allocation has the lock of the pool, and allocates for     *)
(* the kernel or for itself.                                               *)
Locking ==
  \A t \in Tasks : InCall(t) =>
    /\ memLock[Pool(req[t].s)] = t
    /\ req[t].s \in {Kernel, t}

Heaps == \A s \in Spaces : HeapOf(s)
Requests == \A t \in Tasks : InCall(t) => PendingOf(t)

MemInv == MType /\ Locking /\ Heaps /\ Requests

(* The rest of a request for kernel pages is reserved too.                 *)
ToMap(t) == req[t].v .. req[t].v + req[t].n - 1

ReservedInv ==
  /\ MappedIsReserved
  /\ \A t \in Tasks : InCall(t) /\ req[t].s = Kernel => ToMap(t) \subseteq virK

(* Physical pages, with threads or processes on their own.  The pages that *)
(* are mapped or are page tables (address 0: the table that Mem_Palloc     *)
(* could not give) are taken, and each is in one place.                    *)
Regions == {"heap", "stack"}

PoolType ==
  /\ phys \in [{"kernel", "user"} -> SUBSET Nat]
  /\ \A p \in {"kernel", "user"} : \A i \in phys[p] : i < Pages(p)
  /\ tables \in [Procs -> [Regions -> Int]]

AllTaken ==
  /\ \A s \in Spaces : \A v \in VirPages(s) :
       pte[s][v] # NoPage => pte[s][v] - Start(Pool(s)) \in phys[Pool(s)]
  /\ \A p \in Procs, r \in Regions :
       tables[p][r] \in {NoPage, 0} \/ tables[p][r] - KStart \in phys["kernel"]

AllOnce ==
  /\ \A s, x \in Spaces : \A v \in VirPages(s), w \in VirPages(x) :
       pte[s][v] # NoPage /\ pte[s][v] = pte[x][w] => s = x /\ v = w
  /\ \A p, q \in Procs : \A r, z \in Regions :
       tables[p][r] \notin {NoPage, 0} /\ tables[p][r] = tables[q][z] => p = q /\ r = z
  /\ \A s \in Spaces, p \in Procs : \A v \in VirPages(s), r \in Regions :
       pte[s][v] # NoPage => pte[s][v] # tables[p][r]

Sane == PoolType /\ AllTaken /\ AllOnce

(* The page is in no place.                                                *)
Nowhere(page) ==
  /\ \A s \in Spaces : \A v \in VirPages(s) : pte[s][v] # page
  /\ \A p \in Procs : \A r \in Regions : tables[p][r] # page

(* What Mem_Palloc has found is free until it has set the bit, and then    *)
(* its own until it is mapped.                                             *)
Found(t) ==
  LET pool == Pool(req[t].s)
  IN /\ pc[t] = "set" => req[t].idx \notin phys[pool]
     /\ pc[t] \in {"tscan", "tset", "map"} =>
          req[t].idx \in phys[pool] /\ Nowhere(Start(pool) + req[t].idx)
     /\ pc[t] \in {"tscan", "tset"} => req[t].s \in Procs
     /\ pc[t] = "tset" => req[t].tidx \in (Nat \cup {-1}) \ phys["kernel"]

Sided ==
  /\ side \in {KThreads, Procs}
  /\ \A t \in Tasks : InCall(t) => t \in side /\ req[t].s = Space(t)

PageInv ==
  Sane /\ Sided /\ \A t \in Tasks : InCall(t) => Found(t)

-----------------------------------------------------------------------------
(* The constants, in the form the steps need them.                         *)
LEMMA Constants ==
  /\ KPages \in Nat /\ UPages \in Nat /\ KStart \in Nat \ {0} /\ UStart = KStart + KPages
  /\ UserPages \in Nat /\ Stack \in 0 .. UserPages - 1 /\ KPages <= UserPages
  /\ Byte \in Nat \ {0} /\ DescCnt \in Nat \ {0} /\ DescCnt \in Descs
  /\ Descs \subseteq Nat /\ Large \notin Descs /\ Large \in 0 .. DescCnt
  /\ \A d \in 0 .. DescCnt : d # Large => d \in Descs
  /\ Descs \subseteq 0 .. DescCnt
  /\ \A d \in Descs : BlockPerArena(d) \in Nat /\ BlockPerArena(d) >= 1
  /\ Kernel \notin Tasks /\ NoTask \notin Tasks /\ Procs \subseteq Tasks /\ Procs \subseteq Spaces
  /\ Kernel \in Spaces
BY MemoryAssumption DEF MemoryAssumption, KPages, UPages, KStart, UStart, Stack, Descs, Large, Tasks,
     Spaces

(* The pages of a space.                                                   *)
LEMMA SpaceFacts ==
  ASSUME NEW s \in Spaces
  PROVE  /\ VirPages(s) \subseteq Nat
         /\ s # Kernel => s \in Procs /\ VirPages(s) = 0 .. UserPages - 1 /\ Pool(s) = "user"
         /\ s = Kernel => VirPages(s) = 0 .. KPages - 1 /\ Pool(s) = "kernel"
         /\ 0 .. KPages - 1 \subseteq VirPages(s)
BY Constants DEF VirPages, Spaces, Pool

(* The smallest member of a set of numbers, as BitmapScan and Mem_Malloc   *)
(* look for it, is one of its members.                                     *)
LEMMA MinIn ==
  ASSUME NEW S \in SUBSET Nat, S # {}
  PROVE  Min(S) \in S /\ \A y \in S : Min(S) <= y
<1>1. PICK x \in S : \A y \in S : ~(<<y, x>> \in OpToRel(<, Nat))
  BY NatLessThanWellFounded, WFMin, Zenon
<1>2. \A y \in S : x <= y
  <2> SUFFICES ASSUME NEW y \in S, y < x PROVE FALSE
    OBVIOUS
  <2>1. <<y, x>> \in {ss \in Nat \X Nat : ss[1] < ss[2]}
    OBVIOUS
  <2>2. <<y, x>> \in OpToRel(<, Nat)
    BY <2>1, Zenon DEF OpToRel
  <2> QED BY <1>1, <2>2
<1> QED BY <1>2 DEF Min

(* What BitmapScan returns.                                                *)
LEMMA ScanFacts ==
  ASSUME NEW used, NEW bits \in Nat, NEW n \in Nat, Scan(used, bits, n) # -1
  PROVE  /\ Scan(used, bits, n) \in Nat
         /\ \A j \in 0 .. n - 1 : Scan(used, bits, n) + j \notin used
<1> DEFINE fits == {i \in 0 .. bits + Byte - n - 1 : \A j \in 0 .. n - 1 : i + j \notin used}
<1>1. fits \in SUBSET Nat
  BY Constants
<1>2. fits # {} /\ Scan(used, bits, n) = Min(fits)
  BY DEF Scan
<1>3. Scan(used, bits, n) \in fits
  BY <1>1, <1>2, MinIn
<1> QED BY <1>1, <1>3

(* At least one page for any size.                                         *)
LEMMA PagesForFacts ==
  ASSUME NEW size \in Nat
  PROVE  PagesFor(size) \in Nat /\ PagesFor(size) >= 1
<1>1. PageSize \in Nat /\ PageSize > 0 /\ ArenaSize \in Nat /\ ArenaSize > 0
  BY MemoryAssumption DEF MemoryAssumption
<1>2. PICK a \in Nat : a = size + ArenaSize + PageSize - 1
  BY <1>1
<1>3. PICK q \in Int : q = a \div PageSize
  BY <1>1, <1>2
<1>4. PICK r \in Int : r = a % PageSize
  BY <1>1, <1>2
<1>5. a = PageSize * q + r /\ 0 <= r /\ r < PageSize
  BY <1>1, <1>2, <1>3, <1>4
<1>6. q >= 1
  BY <1>1, <1>2, <1>5
<1> QED BY <1>2, <1>3, <1>6 DEF PagesFor

(* The descriptor of a small size.                                         *)
LEMMA DescForFacts ==
  ASSUME NEW size, size <= BlockSize(DescCnt)
  PROVE  DescFor(size) \in Descs
<1> DEFINE S == {d \in Descs : size <= BlockSize(d)}
<1>1. S \in SUBSET Nat /\ DescCnt \in S
  BY Constants
<1>2. Min(S) \in S
  BY <1>1, MinIn
<1> QED BY <1>2 DEF DescFor

-----------------------------------------------------------------------------
(* Sequences as lists of blocks.  The members of a list that loses its     *)
(* head.                                                                   *)
LEMMA TailFacts ==
  ASSUME NEW S, NEW list \in Seq(S), list # <<>>, NoDup(list)
  PROVE  /\ Head(list) \in S /\ Tail(list) \in Seq(S)
         /\ NoDup(Tail(list))
         /\ Elems(Tail(list)) = Elems(list) \ {Head(list)}
         /\ Head(list) \in Elems(list)
<1>1. /\ Head(list) \in S /\ Tail(list) \in Seq(S) /\ Len(Tail(list)) = Len(list) - 1
      /\ \A i \in 1 .. Len(Tail(list)) : Tail(list)[i] = list[i + 1]
      /\ Head(list) = list[1] /\ Len(list) \in Nat /\ Len(list) >= 1
      /\ DOMAIN list = 1 .. Len(list) /\ DOMAIN Tail(list) = 1 .. Len(list) - 1
  BY HeadTailProperties
<1>2. NoDup(Tail(list))
  BY <1>1 DEF NoDup
<1>3. Elems(Tail(list)) \subseteq Elems(list) \ {Head(list)}
  <2> SUFFICES ASSUME NEW i \in 1 .. Len(list) - 1
               PROVE  Tail(list)[i] \in Elems(list) /\ Tail(list)[i] # Head(list)
    BY <1>1 DEF Elems
  <2>1. Tail(list)[i] = list[i + 1] /\ i + 1 \in DOMAIN list /\ 1 \in DOMAIN list /\ i + 1 # 1
    BY <1>1
  <2> QED BY <1>1, <2>1 DEF Elems, NoDup
<1>4. Elems(list) \ {Head(list)} \subseteq Elems(Tail(list))
  <2> SUFFICES ASSUME NEW i \in 1 .. Len(list), list[i] # Head(list)
               PROVE  list[i] \in Elems(Tail(list))
    BY <1>1 DEF Elems
  <2>1. i - 1 \in 1 .. Len(list) - 1 /\ (i - 1) + 1 = i
    BY <1>1
  <2>2. Tail(list)[i - 1] = list[i]
    BY <1>1, <2>1
  <2> QED BY <1>1, <2>1, <2>2 DEF Elems
<1>5. Head(list) \in Elems(list)
  BY <1>1 DEF Elems
<1> QED BY <1>1, <1>2, <1>3, <1>4, <1>5

(* And of one that gets another member at its end.                         *)
LEMMA AppendFacts ==
  ASSUME NEW S, NEW list \in Seq(S), NEW b \in S
  PROVE  /\ Append(list, b) \in Seq(S)
         /\ Elems(Append(list, b)) = Elems(list) \cup {b}
         /\ NoDup(list) /\ b \notin Elems(list) => NoDup(Append(list, b))
<1>1. PICK n \in Nat : n = Len(list)
  BY LenProperties
<1>2. PICK longer \in Seq(S) : longer = Append(list, b)
  BY AppendProperties
<1>3. /\ DOMAIN list = 1 .. n /\ DOMAIN longer = 1 .. n + 1
      /\ \A i \in 1 .. n : longer[i] = list[i]
      /\ longer[n + 1] = b
  BY <1>1, <1>2, AppendProperties
<1>4. Elems(longer) = Elems(list) \cup {b}
  BY <1>3 DEF Elems
<1>5. ASSUME NoDup(list), b \notin Elems(list) PROVE NoDup(longer)
  BY <1>3, <1>5 DEF NoDup, Elems
<1> QED BY <1>2, <1>4, <1>5

(* The loop of sys_free that takes an arena's blocks off the list leaves   *)
(* the others.                                                             *)
LEMMA UnlinkedFacts ==
  ASSUME NEW S, NEW list \in Seq(S), NEW v
  PROVE  /\ Unlinked(list, v) \in Seq(S)
         /\ Elems(Unlinked(list, v)) = {b \in Elems(list) : b[1] # v}
         /\ NoDup(list) => NoDup(Unlinked(list, v))
<1> DEFINE kept == {i \in DOMAIN list : list[i][1] # v}
           upTo(i) == {j \in kept : j <= i}
           Nth(k) == CHOOSE i \in kept : Cardinality({j \in kept : j <= i}) = k
           out == Unlinked(list, v)
<1>1. DOMAIN list = 1 .. Len(list) /\ Len(list) \in Nat /\ \A i \in DOMAIN list : list[i] \in S
  BY LenProperties, ElementOfSeq
<1>2. kept \in SUBSET (1 .. Len(list)) /\ IsFiniteSet(1 .. Len(list))
  BY <1>1, FS_Interval
<1>3. IsFiniteSet(kept)
  BY <1>2, FS_Subset
<1>4. PICK n \in Nat : n = Cardinality(kept)
  BY <1>3, FS_CardinalityType
<1>5. out = [k \in 1 .. n |-> list[Nth(k)]]
  BY <1>4 DEF Unlinked
<1>6. ASSUME NEW i \in kept
      PROVE  IsFiniteSet(upTo(i)) /\ Cardinality(upTo(i)) \in 1 .. n
  <2>1. upTo(i) \in SUBSET kept
    OBVIOUS
  <2>2. IsFiniteSet(upTo(i)) /\ Cardinality(upTo(i)) <= n
    BY <1>3, <1>4, <2>1, FS_Subset
  <2>3. i \in upTo(i)
    BY <1>2
  <2>4. Cardinality(upTo(i)) \in Nat /\ Cardinality(upTo(i)) # 0
    BY <2>2, <2>3, FS_CardinalityType, FS_EmptySet
  <2> QED BY <2>2, <2>4
<1>7. ASSUME NEW i \in kept, NEW j \in kept, i < j
      PROVE  Cardinality(upTo(i)) # Cardinality(upTo(j))
  <2>1. upTo(i) \in SUBSET upTo(j) /\ j \in upTo(j) /\ j \notin upTo(i)
    BY <1>2, <1>7
  <2>2. upTo(i) # upTo(j)
    BY <2>1
  <2> QED BY <1>6, <2>1, <2>2, FS_Subset
<1>8. ASSUME NEW i \in kept, NEW j \in kept, Cardinality(upTo(i)) = Cardinality(upTo(j))
      PROVE  i = j
  <2>1. i \in Nat /\ j \in Nat
    BY <1>2
  <2>2. ~(i < j) /\ ~(j < i)
    BY <1>7, <1>8
  <2> QED BY <2>1, <2>2
<1>9. ASSUME NEW k \in 1 .. n PROVE \E i \in kept : Cardinality(upTo(i)) = k
  <2> DEFINE rank == [i \in kept |-> Cardinality(upTo(i))]
  <2>1. rank \in [kept -> 1 .. n]
    BY <1>6
  <2>2. rank \in Injection(kept, 1 .. n)
    BY <1>8, <2>1 DEF Injection, IsInjective
  <2>3. IsFiniteSet(1 .. n) /\ Cardinality(1 .. n) = n
    BY FS_Interval
  <2>4. rank \in Surjection(kept, 1 .. n)
    BY <1>4, <2>2, <2>3, FS_Injection
  <2> QED BY <2>4 DEF Surjection
<1>10. ASSUME NEW k \in 1 .. n PROVE Nth(k) \in kept /\ Cardinality(upTo(Nth(k))) = k
  BY <1>9
<1>11. ASSUME NEW i \in kept PROVE \E k \in 1 .. n : Nth(k) = i
  BY <1>6, <1>8, <1>10
<1> HIDE DEF kept, upTo, Nth, out
<1>12. \A k \in 1 .. n : out[k] = list[Nth(k)] /\ out[k] \in S
  BY <1>1, <1>2, <1>5, <1>10
<1>13. out \in Seq(S) /\ DOMAIN out = 1 .. n
  <2>1. out \in [1 .. n -> S]
    BY <1>5, <1>12
  <2> QED BY <2>1, SeqDef
<1>14. Elems(out) = {b \in Elems(list) : b[1] # v}
  <2>1. \A i \in kept : i \in DOMAIN list /\ list[i][1] # v
    BY DEF kept
  <2>2. \A i \in DOMAIN list : list[i][1] # v => i \in kept
    BY DEF kept
  <2> QED BY <1>10, <1>11, <1>12, <1>13, <2>1, <2>2 DEF Elems
<1>15. ASSUME NoDup(list) PROVE NoDup(out)
  <2> SUFFICES ASSUME NEW k \in 1 .. n, NEW l \in 1 .. n, out[k] = out[l] PROVE k = l
    BY <1>13 DEF NoDup
  <2>1. Nth(k) \in DOMAIN list /\ Nth(l) \in DOMAIN list
    BY <1>10 DEF kept
  <2>2. Nth(k) = Nth(l)
    BY <1>12, <1>15, <2>1 DEF NoDup
  <2> QED BY <1>10, <2>2
<1> QED BY <1>13, <1>14, <1>15 DEF out

-----------------------------------------------------------------------------
(* One heap.  What the steps need to know of its blocks.                   *)
LEMMA HeapFacts ==
  ASSUME NEW V, NEW pt, NEW ar, NEW fl, NEW lv, Heap(V, pt, ar, fl, lv)
  PROVE  /\ FreeSet(fl) \subseteq Block /\ lv \subseteq Block
         /\ \A d \in Descs : fl[d] \in Seq(Block) /\ Elems(fl[d]) \subseteq FreeSet(fl)
         /\ \A b \in AllBlocks(fl, lv) :
              /\ b[1] \in Nat /\ b[2] \in Nat /\ b = <<b[1], b[2]>>
              /\ b[1] \in V /\ Covers(ar, b, b[1]) /\ pt[b[1]] # NoPage
         /\ \A v \in V : /\ ar[v] \in ArenaType
                         /\ ar[v].cnt \in Int
                         /\ ar[v].desc # Large => ar[v].desc \in Descs
<1>1. \A d \in Descs : fl[d] \in Seq(Block) /\ Elems(fl[d]) \subseteq FreeSet(fl)
  BY DEF Heap, HeapType, FreeSet
<1>2. \A d \in Descs : Elems(fl[d]) \subseteq Block
  BY <1>1, ElementOfSeq, LenProperties DEF Elems
<1>3. FreeSet(fl) \subseteq Block /\ lv \subseteq Block
  BY <1>2 DEF Heap, HeapType, FreeSet
<1>4. \A v \in V : /\ ar[v] \in ArenaType
                   /\ ar[v].cnt \in Int
                   /\ ar[v].desc # Large => ar[v].desc \in Descs
  BY Constants DEF Heap, HeapType, ArenaType
<1>5. ASSUME NEW b \in AllBlocks(fl, lv)
      PROVE  /\ b[1] \in Nat /\ b[2] \in Nat /\ b = <<b[1], b[2]>>
             /\ b[1] \in V /\ Covers(ar, b, b[1]) /\ pt[b[1]] # NoPage
  <2>1. b \in Block
    BY <1>3 DEF AllBlocks
  <2>2. b[1] \in Nat /\ b[2] \in Nat /\ b = <<b[1], b[2]>>
    BY <2>1 DEF Block
  <2>3. b[1] \in V /\ Size(ar[b[1]]) >= 1
    BY DEF Heap, Mapped
  <2>4. Size(ar[b[1]]) \in Int
    BY <1>4, <2>3 DEF Size
  <2>5. Covers(ar, b, b[1])
    BY <2>2, <2>3, <2>4 DEF Covers
  <2> QED BY <2>2, <2>3, <2>5 DEF Heap, Mapped
<1> QED BY <1>1, <1>3, <1>4, <1>5

(* Two blocks in one page are in one arena.                                *)
LEMMA SameArena ==
  ASSUME NEW V, NEW pt, NEW ar, NEW fl, NEW lv, Heap(V, pt, ar, fl, lv),
         NEW b \in AllBlocks(fl, lv), NEW c \in AllBlocks(fl, lv), Covers(ar, b, c[1])
  PROVE  b[1] = c[1] /\ (ar[b[1]].desc = Large => b = c)
<1>1. Covers(ar, c, c[1]) /\ c[1] \in Int /\ b = <<b[1], b[2]>> /\ c = <<c[1], c[2]>>
  BY HeapFacts
<1>2. b[1] = c[1]
  BY <1>1 DEF Heap, NoOverlap
<1>3. ar[b[1]].desc = Large => b[2] = 0 /\ c[2] = 0
  BY <1>2 DEF Heap, Numbered
<1> QED BY <1>1, <1>2, <1>3

(* The free blocks of an arena are among its blocks, and so are finitely   *)
(* many.                                                                   *)
LEMMA FreeOfFinite ==
  ASSUME NEW V, NEW pt, NEW ar, NEW fl, NEW lv, Heap(V, pt, ar, fl, lv),
         NEW v \in V, ar[v].desc # Large
  PROVE  /\ IsFiniteSet(FreeOf(fl, v)) /\ Cardinality(FreeOf(fl, v)) \in Nat
         /\ FreeOf(fl, v) \subseteq {v} \X (0 .. BlockPerArena(ar[v].desc) - 1)
         /\ IsFiniteSet({v} \X (0 .. BlockPerArena(ar[v].desc) - 1))
         /\ Cardinality({v} \X (0 .. BlockPerArena(ar[v].desc) - 1)) = BlockPerArena(ar[v].desc)
<1>1. PICK n \in Nat : n = BlockPerArena(ar[v].desc)
  BY HeapFacts, Constants
<1>2. ASSUME NEW b \in FreeOf(fl, v) PROVE b \in {v} \X (0 .. n - 1)
  <2>1. b \in AllBlocks(fl, lv) /\ b[1] = v
    BY DEF FreeOf, AllBlocks
  <2>2. b[2] < n
    BY <1>1, <2>1 DEF Heap, Numbered
  <2>3. b = <<v, b[2]>> /\ b[2] \in Nat
    BY <2>1, HeapFacts
  <2> QED BY <2>2, <2>3
<1>3. IsFiniteSet(0 .. n - 1) /\ Cardinality(0 .. n - 1) = n
  BY FS_Interval
<1>4. IsFiniteSet({v}) /\ Cardinality({v}) = 1
  BY FS_Singleton
<1>5. IsFiniteSet({v} \X (0 .. n - 1)) /\ Cardinality({v} \X (0 .. n - 1)) = 1 * n
  BY <1>3, <1>4, FS_Product
<1>6. FreeOf(fl, v) \in SUBSET ({v} \X (0 .. n - 1))
  BY <1>2
<1>7. IsFiniteSet(FreeOf(fl, v))
  BY <1>5, <1>6, FS_Subset
<1>8. Cardinality(FreeOf(fl, v)) \in Nat
  BY <1>7, FS_CardinalityType
<1> QED BY <1>1, <1>5, <1>6, <1>7, <1>8

(* One free list is replaced.                                              *)
LEMMA OneList ==
  ASSUME NEW V, NEW pt, NEW ar, NEW fl, NEW lv, Heap(V, pt, ar, fl, lv),
         NEW d \in Descs, NEW fl2, Except(fl, fl2, Descs, d)
  PROVE  \A b : b \in FreeSet(fl2) <=>
                 (b \in FreeSet(fl) /\ b \notin Elems(fl[d])) \/ b \in Elems(fl2[d])
<1>1. PICK list : list = fl2[d]
  OBVIOUS
<1>2. fl2[d] = list /\ \A e \in Descs : e # d => fl2[e] = fl[e]
  BY <1>1 DEF Except
<1>3. \A e \in Descs : e # d => Elems(fl[e]) \cap Elems(fl[d]) = {}
  BY DEF Heap, Listed
<1>4. FreeSet(fl2) \subseteq (FreeSet(fl) \ Elems(fl[d])) \cup Elems(list)
  <2> SUFFICES ASSUME NEW e \in Descs, NEW b \in Elems(fl2[e])
               PROVE  b \in (FreeSet(fl) \ Elems(fl[d])) \cup Elems(list)
    BY DEF FreeSet
  <2>1. CASE e = d
    BY <1>2, <2>1
  <2>2. CASE e # d
    BY <1>2, <1>3, <2>2 DEF FreeSet
  <2> QED BY <2>1, <2>2
<1>5. (FreeSet(fl) \ Elems(fl[d])) \cup Elems(list) \subseteq FreeSet(fl2)
  <2>1. Elems(list) \subseteq FreeSet(fl2)
    BY <1>2 DEF FreeSet
  <2>2. ASSUME NEW e \in Descs, NEW b \in Elems(fl[e]), b \notin Elems(fl[d])
        PROVE  b \in FreeSet(fl2)
    <3>1. e # d /\ fl2[e] = fl[e]
      BY <1>2, <2>2
    <3> QED BY <3>1 DEF FreeSet
  <2> QED BY <2>1, <2>2 DEF FreeSet
<1> QED BY <1>1, <1>4, <1>5

-----------------------------------------------------------------------------
(* Mem_Palloc maps one more page, which no block can lie in.               *)
LEMMA MapMore ==
  ASSUME NEW V, NEW pt, NEW ar, NEW fl, NEW lv, Heap(V, pt, ar, fl, lv),
         NEW v \in V, pt[v] = NoPage, NEW w \in Int,
         Unowned(V, pt, ar, fl, lv, w, v - 1),
         NEW pt2, HeapType(V, pt2, ar, fl, lv), pt2[v] # NoPage, Except(pt, pt2, V, v)
  PROVE  /\ Heap(V, pt2, ar, fl, lv)
         /\ Unowned(V, pt2, ar, fl, lv, w, v)
<1>2. V \subseteq Nat
  BY DEF Heap, HeapType
<1>5. \A x \in V : pt[x] # NoPage => pt2[x] # NoPage
  BY DEF Except
<1>6. Mapped(V, pt2, ar, AllBlocks(fl, lv))
  BY <1>5 DEF Heap, Mapped
<1>7. Heap(V, pt2, ar, fl, lv)
  BY <1>6 DEF Heap
<1>8. \A b \in AllBlocks(fl, lv) : ~Covers(ar, b, v)
  BY <1>2 DEF Heap, Mapped
<1>10. Unowned(V, pt2, ar, fl, lv, w, v)
  <2> SUFFICES ASSUME NEW y \in w .. v
               PROVE  /\ y \in V /\ pt2[y] # NoPage
                      /\ \A b \in AllBlocks(fl, lv) : ~Covers(ar, b, y)
    BY DEF Unowned
  <2>1. CASE y = v
    BY <1>8, <2>1
  <2>2. CASE y # v
    <3>1. y \in w .. v - 1
      BY <1>2, <2>2
    <3> QED BY <1>5, <3>1 DEF Unowned
  <2> QED BY <2>1, <2>2
<1> QED BY <1>7, <1>10

(* Mem_Malloc makes the pages v0 .. v an arena with the blocks N.          *)
LEMMA AddArena ==
  ASSUME NEW V, NEW pt, NEW ar, NEW fl, NEW lv, Heap(V, pt, ar, fl, lv),
         NEW v0 \in V, NEW v \in V, v0 <= v, Unowned(V, pt, ar, fl, lv, v0, v),
         NEW ar2, HeapType(V, pt, ar2, fl, lv), Size(ar2[v0]) = v - v0 + 1,
         Except(ar, ar2, V, v0), NEW N, AllAt(N, v0), Numbered(ar2, N)
  PROVE  /\ \A b \in AllBlocks(fl, lv) : b[1] # v0
         /\ Mapped(V, pt, ar2, AllBlocks(fl, lv) \cup N)
         /\ NoOverlap(ar2, AllBlocks(fl, lv) \cup N)
         /\ Numbered(ar2, AllBlocks(fl, lv) \cup N)
<1> DEFINE B == AllBlocks(fl, lv)
<1>1. V \subseteq Nat
  BY DEF Heap, HeapType
<1>2. (\A x \in V : x # v0 => ar2[x] = ar[x]) /\ \A b \in N : b[1] = v0
  BY DEF Except, AllAt
<1>3. v0 \in v0 .. v
  BY <1>1
<1>4. \A b \in B : b[1] \in V /\ b[1] \in Nat /\ Covers(ar, b, b[1])
  BY HeapFacts
<1>5. \A b \in B : b[1] # v0
  BY <1>3, <1>4 DEF Unowned
<1>6. \A b \in B : \A w \in Int : Covers(ar2, b, w) <=> Covers(ar, b, w)
  BY <1>2, <1>4, <1>5 DEF Covers
<1>7. \A b \in N : \A w \in Int : Covers(ar2, b, w) <=> w \in v0 .. v
  BY <1>1, <1>2 DEF Covers
<1> HIDE DEF B
<1>8. Mapped(V, pt, ar2, B \cup N)
  <2>1. ASSUME NEW b \in B
        PROVE  /\ b[1] \in V /\ Size(ar2[b[1]]) >= 1
               /\ \A w \in Int : Covers(ar2, b, w) => w \in V /\ pt[w] # NoPage
    BY <1>2, <1>4, <1>5, <1>6 DEF Heap, Mapped, B
  <2>2. ASSUME NEW b \in N
        PROVE  /\ b[1] \in V /\ Size(ar2[b[1]]) >= 1
               /\ \A w \in Int : Covers(ar2, b, w) => w \in V /\ pt[w] # NoPage
    <3>1. b[1] = v0 /\ Size(ar2[v0]) >= 1
      BY <1>1, <1>2
    <3> QED BY <1>7, <3>1 DEF Unowned
  <2> QED BY <2>1, <2>2 DEF Mapped
<1>9. NoOverlap(ar2, B \cup N)
  <2>1. ASSUME NEW b \in B, NEW c \in N, NEW w \in Int, Covers(ar2, b, w), Covers(ar2, c, w)
        PROVE  FALSE
    <3>1. w \in v0 .. v /\ Covers(ar, b, w)
      BY <1>6, <1>7, <2>1
    <3> QED BY <3>1 DEF Unowned, B
  <2>2. ASSUME NEW b \in B, NEW c \in B, NEW w \in Int, Covers(ar2, b, w), Covers(ar2, c, w)
        PROVE  b[1] = c[1]
    <3>1. Covers(ar, b, w) /\ Covers(ar, c, w)
      BY <1>6, <2>2
    <3> QED BY <3>1 DEF Heap, NoOverlap, B
  <2>3. \A b, c \in N : b[1] = c[1]
    BY <1>2
  <2> QED BY <2>1, <2>2, <2>3 DEF NoOverlap
<1>10. Numbered(ar2, B \cup N)
  <2>1. \A b \in B : ar2[b[1]] = ar[b[1]]
    BY <1>2, <1>4, <1>5
  <2>2. Numbered(ar, B)
    BY DEF Heap, B
  <2> QED BY <2>1, <2>2 DEF Numbered
<1> QED BY <1>5, <1>8, <1>9, <1>10 DEF B

(* The block of a large arena is given to the caller.                      *)
LEMMA LargeArena ==
  ASSUME NEW V, NEW pt, NEW ar, NEW fl, NEW lv, Heap(V, pt, ar, fl, lv),
         NEW v0 \in V, NEW v \in V, v0 <= v, Unowned(V, pt, ar, fl, lv, v0, v),
         NEW ar2, HeapType(V, pt, ar2, fl, lv),
         ar2[v0].desc = Large, ar2[v0].cnt = v - v0 + 1,
         Except(ar, ar2, V, v0)
  PROVE  Heap(V, pt, ar2, fl, lv \cup {<<v0, 0>>})
<1>3. PICK b0 : b0 = <<v0, 0>>
  OBVIOUS
<1>4. V \subseteq Nat
  BY DEF Heap, HeapType
<1>5. b0 \in Block /\ b0[1] = v0 /\ b0[2] = 0
  BY <1>3, <1>4 DEF Block
<1>6. Size(ar2[v0]) = v - v0 + 1
  BY DEF Size
<1>2. \A x \in V : x # v0 => ar2[x] = ar[x]
  BY DEF Except
<1>7. /\ \A b \in AllBlocks(fl, lv) : b[1] # v0
      /\ Mapped(V, pt, ar2, AllBlocks(fl, lv) \cup {b0})
      /\ NoOverlap(ar2, AllBlocks(fl, lv) \cup {b0})
      /\ Numbered(ar2, AllBlocks(fl, lv) \cup {b0})
  <2>1. PICK N : N = {b0}
    OBVIOUS
  <2>2. AllAt(N, v0)
    BY <1>5, <2>1 DEF AllAt
  <2>3. Numbered(ar2, N)
    BY <1>5, <2>1 DEF Numbered
  <2> QED BY <1>6, <2>1, <2>2, <2>3, AddArena
<1>8. AllBlocks(fl, lv \cup {b0}) = AllBlocks(fl, lv) \cup {b0}
  BY DEF AllBlocks
<1>9. HeapType(V, pt, ar2, fl, lv \cup {b0})
  BY <1>5 DEF HeapType
<1>10. b0 \notin FreeSet(fl)
  BY <1>5, <1>7 DEF AllBlocks
<1>11. lv \cap FreeSet(fl) = {} /\ (lv \cup {b0}) \cap FreeSet(fl) = {}
  BY <1>10 DEF Heap
<1>12. \A d \in Descs : \A b \in Elems(fl[d]) : b \in AllBlocks(fl, lv) /\ b[1] \in V
  BY HeapFacts DEF AllBlocks
<1>13. Listed(ar2, fl)
  BY <1>2, <1>7, <1>12 DEF Heap, Listed
<1>14. Counts(V, ar2, fl)
  <2>1. \A x \in V : ar2[x].desc # Large => ar2[x] = ar[x]
    BY <1>2
  <2> QED BY <2>1 DEF Heap, Counts
<1>15. Heap(V, pt, ar2, fl, lv \cup {b0})
  BY <1>7, <1>8, <1>9, <1>11, <1>13, <1>14 DEF Heap
<1> QED BY <1>3, <1>15

(* The blocks of a new small arena, without the first.                     *)
LEMMA SplitFacts ==
  ASSUME NEW v0 \in Nat, NEW d \in Descs
  PROVE  /\ Tail(Split(v0, d)) \in Seq(Block)
         /\ NoDup(Tail(Split(v0, d)))
         /\ Elems(Tail(Split(v0, d))) = {v0} \X (1 .. BlockPerArena(d) - 1)
<1>1. PICK n \in Nat : n = BlockPerArena(d) /\ n >= 1
  BY Constants
<1>2. PICK all : all = Split(v0, d)
  OBVIOUS
<1>3. all = [i \in 1 .. n |-> <<v0, i - 1>>]
  BY <1>1, <1>2 DEF Split
<1>4. \A i \in 1 .. n : all[i] = <<v0, i - 1>> /\ all[i] \in Block
  BY <1>3 DEF Block
<1>5. all \in Seq(Block)
  <2>1. all \in [1 .. n -> Block]
    BY <1>3, <1>4
  <2> QED BY <2>1, SeqDef
<1>6. DOMAIN all = 1 .. n
  BY <1>3
<1>7. all # <<>> /\ Head(all) = all[1]
  BY <1>1, <1>5, <1>6, HeadTailProperties, EmptySeq
<1>8. NoDup(all)
  <2> SUFFICES ASSUME NEW i \in 1 .. n, NEW j \in 1 .. n, all[i] = all[j] PROVE i = j
    BY <1>6 DEF NoDup
  <2>1. <<v0, i - 1>> = <<v0, j - 1>>
    BY <1>4
  <2>2. i - 1 = j - 1
    BY <2>1
  <2> QED BY <2>2
<1>9. Elems(all) = {v0} \X (0 .. n - 1)
  <2>1. Elems(all) \subseteq {v0} \X (0 .. n - 1)
    <3> SUFFICES ASSUME NEW i \in 1 .. n PROVE all[i] \in {v0} \X (0 .. n - 1)
      BY <1>6 DEF Elems
    <3>1. i - 1 \in 0 .. n - 1
      OBVIOUS
    <3> QED BY <1>4, <3>1
  <2>2. ASSUME NEW j \in 0 .. n - 1 PROVE <<v0, j>> \in Elems(all)
    <3>1. j + 1 \in 1 .. n /\ (j + 1) - 1 = j
      OBVIOUS
    <3>2. all[j + 1] = <<v0, j>>
      BY <1>4, <3>1
    <3> QED BY <1>6, <3>1, <3>2 DEF Elems
  <2> QED BY <2>1, <2>2
<1>10. all[1] = <<v0, 0>>
  BY <1>1, <1>4
<1>11. ({v0} \X (0 .. n - 1)) \ {<<v0, 0>>} = {v0} \X (1 .. n - 1)
  OBVIOUS
<1>12. Tail(all) \in Seq(Block) /\ NoDup(Tail(all)) /\ Elems(Tail(all)) = Elems(all) \ {Head(all)}
  BY <1>5, <1>7, <1>8, TailFacts
<1> QED BY <1>1, <1>2, <1>7, <1>9, <1>10, <1>11, <1>12

(* The first block of a small arena is given to the caller, the others go  *)
(* to the free list, which was empty.                                      *)
LEMMA SmallArena ==
  ASSUME NEW V, NEW pt, NEW ar, NEW fl, NEW lv, Heap(V, pt, ar, fl, lv),
         NEW v0 \in V, Unowned(V, pt, ar, fl, lv, v0, v0), NEW d \in Descs, fl[d] = <<>>,
         NEW ar2, NEW fl2, HeapType(V, pt, ar2, fl2, lv),
         ar2[v0].desc = d, ar2[v0].cnt = BlockPerArena(d) - 1,
         fl2[d] = Tail(Split(v0, d)), Except(ar, ar2, V, v0), Except(fl, fl2, Descs, d)
  PROVE  Heap(V, pt, ar2, fl2, lv \cup {<<v0, 0>>})
<1>1. PICK n \in Nat : n = BlockPerArena(d) /\ n >= 1
  BY Constants
<1>4. PICK b0 : b0 = <<v0, 0>>
  OBVIOUS
<1>5. PICK list : list = Tail(Split(v0, d))
  OBVIOUS
<1>7. V \subseteq Nat /\ fl \in [Descs -> Seq(Block)]
  BY DEF Heap, HeapType
<1>8. b0 \in Block /\ b0[1] = v0 /\ b0[2] = 0
  BY <1>4, <1>7 DEF Block
<1>9. ar2[v0].desc # Large /\ Size(ar2[v0]) = 1
  BY Constants DEF Size
<1>10. PICK L : L = {v0} \X (1 .. n - 1)
  OBVIOUS
<1>11. list \in Seq(Block) /\ NoDup(list) /\ Elems(list) = L
  BY <1>1, <1>5, <1>7, <1>10, SplitFacts
<1>12. \A b \in L : b[1] = v0 /\ b[2] # 0 /\ b[2] < n /\ b \in Block
  BY <1>7, <1>10 DEF Block
<1>13. b0 \notin L
  BY <1>8, <1>12
<1>14. /\ \A b \in AllBlocks(fl, lv) : b[1] # v0
       /\ Mapped(V, pt, ar2, AllBlocks(fl, lv) \cup (L \cup {b0}))
       /\ NoOverlap(ar2, AllBlocks(fl, lv) \cup (L \cup {b0}))
       /\ Numbered(ar2, AllBlocks(fl, lv) \cup (L \cup {b0}))
  <2>1. PICK N : N = L \cup {b0}
    OBVIOUS
  <2>2. AllAt(N, v0)
    BY <1>8, <1>12, <2>1 DEF AllAt
  <2>3. Numbered(ar2, N)
    BY <1>1, <1>8, <1>9, <1>12, <2>1 DEF Numbered
  <2>4. Size(ar2[v0]) = v0 - v0 + 1 /\ v0 <= v0
    BY <1>7, <1>9
  <2>5. HeapType(V, pt, ar2, fl, lv)
    BY DEF Heap, HeapType
  <2> QED BY <2>1, <2>2, <2>3, <2>4, <2>5, AddArena
<1>15. FreeSet(fl2) = FreeSet(fl) \cup L
  <2>1. Elems(fl[d]) = {}
    BY DEF Elems
  <2>2. \A b : b \in FreeSet(fl2) <=>
                 (b \in FreeSet(fl) /\ b \notin Elems(fl[d])) \/ b \in Elems(fl2[d])
    BY OneList, ZenonT(30)
  <2> QED BY <1>5, <1>11, <2>1, <2>2
<1>16. AllBlocks(fl2, lv \cup {b0}) = AllBlocks(fl, lv) \cup (L \cup {b0})
  BY <1>15 DEF AllBlocks
<1>17. HeapType(V, pt, ar2, fl2, lv \cup {b0})
  BY <1>8 DEF HeapType
<1>18. (lv \cup {b0}) \cap FreeSet(fl2) = {}
  <2>1. lv \cap FreeSet(fl) = {}
    BY DEF Heap
  <2>2. b0 \notin FreeSet(fl) /\ lv \cap L = {}
    BY <1>8, <1>12, <1>14 DEF AllBlocks
  <2> QED BY <1>13, <1>15, <2>1, <2>2
<1>19. /\ fl2[d] = list /\ \A e \in Descs : e # d => fl2[e] = fl[e]
       /\ \A x \in V : x # v0 => ar2[x] = ar[x]
  BY <1>5 DEF Except
<1>20. Listed(ar2, fl2)
  <2> SUFFICES ASSUME NEW e \in Descs
               PROVE  NoDup(fl2[e]) /\ \A b \in Elems(fl2[e]) : ar2[b[1]].desc = e
    BY DEF Listed
  <2>1. CASE e = d
    BY <1>11, <1>12, <1>19, <2>1
  <2>2. CASE e # d
    <3>1. fl2[e] = fl[e] /\ NoDup(fl[e])
      BY <1>19, <2>2 DEF Heap, Listed
    <3>2. \A b \in Elems(fl[e]) : b \in AllBlocks(fl, lv) /\ b[1] \in V /\ ar[b[1]].desc = e
      BY HeapFacts DEF Heap, Listed, AllBlocks
    <3> QED BY <1>14, <1>19, <3>1, <3>2
  <2> QED BY <2>1, <2>2
<1>21. Counts(V, ar2, fl2)
  <2> SUFFICES ASSUME NEW x \in V, ar2[x].desc # Large
               PROVE  /\ ar2[x].cnt = Cardinality(FreeOf(fl2, x))
                      /\ ar2[x].cnt < BlockPerArena(ar2[x].desc)
    BY DEF Counts
  <2>1. CASE x = v0
    <3>1. FreeOf(fl2, v0) = L
      BY <1>12, <1>14, <1>15 DEF FreeOf, AllBlocks
    <3>2. IsFiniteSet(1 .. n - 1) /\ Cardinality(1 .. n - 1) = n - 1
      <4>1. PICK m \in Nat : m = n - 1
        BY <1>1
      <4>2. IsFiniteSet(1 .. m) /\ Cardinality(1 .. m) = m
        BY FS_Interval
      <4> QED BY <4>1, <4>2
    <3>3. IsFiniteSet({v0}) /\ Cardinality({v0}) = 1
      BY FS_Singleton
    <3>4. Cardinality(L) = 1 * (n - 1)
      <4>1. IsFiniteSet(1 .. n - 1) /\ IsFiniteSet({v0})
        BY <3>2, <3>3
      <4>2. Cardinality({v0} \X (1 .. n - 1)) = Cardinality({v0}) * Cardinality(1 .. n - 1)
        BY <4>1, FS_Product
      <4> QED BY <1>10, <3>2, <3>3, <4>2
    <3> QED BY <1>1, <2>1, <3>1, <3>4
  <2>2. CASE x # v0
    <3>1. FreeOf(fl2, x) = FreeOf(fl, x)
      BY <1>12, <1>15, <2>2 DEF FreeOf
    <3>2. ar2[x] = ar[x]
      BY <1>19, <2>2
    <3> QED BY <3>1, <3>2 DEF Heap, Counts
  <2> QED BY <2>1, <2>2
<1>22. Heap(V, pt, ar2, fl2, lv \cup {b0})
  BY <1>14, <1>16, <1>17, <1>18, <1>20, <1>21 DEF Heap
<1> QED BY <1>4, <1>22

-----------------------------------------------------------------------------
(* A block that goes from the free list to a caller, or back, stays in its *)
(* arena.                                                                  *)
LEMMA SameBlocks ==
  ASSUME NEW V, NEW pt, NEW ar, NEW fl, NEW lv, Heap(V, pt, ar, fl, lv),
         NEW ar2, SameShape(ar, ar2, V)
  PROVE  /\ Mapped(V, pt, ar2, AllBlocks(fl, lv))
         /\ NoOverlap(ar2, AllBlocks(fl, lv))
         /\ Numbered(ar2, AllBlocks(fl, lv))
<1> DEFINE B == AllBlocks(fl, lv)
<1>1. \A b \in B : b[1] \in V
  BY HeapFacts
<1>2. \A b \in B : ar2[b[1]].desc = ar[b[1]].desc /\ Size(ar2[b[1]]) = Size(ar[b[1]])
  BY <1>1 DEF SameShape, Size
<1>3. \A b \in B : \A w \in Int : Covers(ar2, b, w) <=> Covers(ar, b, w)
  BY <1>2 DEF Covers
<1>4. Mapped(V, pt, ar, B) /\ NoOverlap(ar, B) /\ Numbered(ar, B)
  BY DEF Heap
<1> HIDE DEF B
<1>5. Mapped(V, pt, ar2, B)
  BY <1>2, <1>3, <1>4 DEF Mapped
<1>6. NoOverlap(ar2, B)
  BY <1>3, <1>4 DEF NoOverlap
<1>7. Numbered(ar2, B)
  BY <1>2, <1>4 DEF Numbered
<1> QED BY <1>5, <1>6, <1>7 DEF B

(* Mem_Malloc takes the first block off a free list.                       *)
LEMMA TakeBlock ==
  ASSUME NEW V, NEW pt, NEW ar, NEW fl, NEW lv, Heap(V, pt, ar, fl, lv),
         NEW d \in Descs, fl[d] # <<>>, NEW b, b = Head(fl[d]),
         NEW ar2, NEW fl2, HeapType(V, pt, ar2, fl2, lv),
         ar2[b[1]].desc = ar[b[1]].desc, ar2[b[1]].cnt = ar[b[1]].cnt - 1,
         fl2[d] = Tail(fl[d]), Except(ar, ar2, V, b[1]), Except(fl, fl2, Descs, d)
  PROVE  Heap(V, pt, ar2, fl2, lv \cup {b})
<1>1. /\ NoDup(fl[d]) /\ fl[d] \in Seq(Block)
      /\ Elems(fl[d]) \subseteq FreeSet(fl) /\ FreeSet(fl) \subseteq Block
  BY HeapFacts DEF Heap, Listed
<1>2. /\ NoDup(fl2[d]) /\ Elems(fl2[d]) = Elems(fl[d]) \ {b} /\ b \in Elems(fl[d])
  BY <1>1, TailFacts
<1>3. /\ b \in FreeSet(fl) /\ b \in Block /\ b \in AllBlocks(fl, lv) /\ ar[b[1]].desc = d
      /\ b[1] \in V
  BY <1>1, <1>2, HeapFacts DEF Heap, Listed, AllBlocks
<1>4. \A c : c \in FreeSet(fl2) <=>
               (c \in FreeSet(fl) /\ c \notin Elems(fl[d])) \/ c \in Elems(fl2[d])
  BY OneList
<1>5. FreeSet(fl2) = FreeSet(fl) \ {b}
  BY <1>1, <1>2, <1>4
<1>6. /\ \A e \in Descs : e # d => fl2[e] = fl[e]
      /\ \A x \in V : x # b[1] => ar2[x] = ar[x]
  BY DEF Except
<1>7. d # Large /\ \A x \in V : ar2[x].desc = ar[x].desc
  BY <1>6, Constants
<1>8. SameShape(ar, ar2, V)
  BY <1>3, <1>6, <1>7 DEF SameShape
<1>9. AllBlocks(fl2, lv \cup {b}) = AllBlocks(fl, lv)
  BY <1>3, <1>5 DEF AllBlocks
<1>10. /\ Mapped(V, pt, ar2, AllBlocks(fl, lv))
       /\ NoOverlap(ar2, AllBlocks(fl, lv))
       /\ Numbered(ar2, AllBlocks(fl, lv))
  BY <1>8, SameBlocks
<1>11. HeapType(V, pt, ar2, fl2, lv \cup {b})
  BY <1>3 DEF HeapType
<1>12. (lv \cup {b}) \cap FreeSet(fl2) = {}
  <2>1. lv \cap FreeSet(fl) = {}
    BY DEF Heap
  <2> QED BY <1>5, <2>1
<1>13. Listed(ar2, fl2)
  <2> SUFFICES ASSUME NEW e \in Descs
               PROVE  NoDup(fl2[e]) /\ \A c \in Elems(fl2[e]) : ar2[c[1]].desc = e
    BY DEF Listed
  <2>1. NoDup(fl2[e]) /\ Elems(fl2[e]) \subseteq Elems(fl[e])
    BY <1>2, <1>6 DEF Heap, Listed
  <2>2. \A c \in Elems(fl[e]) : ar[c[1]].desc = e /\ c[1] \in V
    BY HeapFacts DEF Heap, Listed, AllBlocks
  <2> QED BY <1>7, <2>1, <2>2
<1>14. Counts(V, ar2, fl2)
  <2> SUFFICES ASSUME NEW x \in V, ar2[x].desc # Large
               PROVE  /\ ar2[x].cnt = Cardinality(FreeOf(fl2, x))
                      /\ ar2[x].cnt < BlockPerArena(ar2[x].desc)
    BY DEF Counts
  <2>1. ar[x].desc # Large /\ ar2[x].desc = ar[x].desc
    BY <1>7
  <2>2. /\ ar[x].cnt = Cardinality(FreeOf(fl, x))
        /\ ar[x].cnt < BlockPerArena(ar[x].desc)
    BY <2>1 DEF Heap, Counts
  <2>3. CASE x = b[1]
    <3>1. FreeOf(fl2, x) = FreeOf(fl, x) \ {b} /\ b \in FreeOf(fl, x)
      BY <1>3, <1>5, <2>3 DEF FreeOf
    <3>2. IsFiniteSet(FreeOf(fl, x)) /\ Cardinality(FreeOf(fl, x)) \in Nat
      BY <2>1, FreeOfFinite
    <3>3. Cardinality(FreeOf(fl2, x)) = Cardinality(FreeOf(fl, x)) - 1
      BY <3>1, <3>2, FS_RemoveElement
    <3>4. BlockPerArena(d) \in Nat
      BY Constants
    <3> QED BY <1>3, <2>1, <2>2, <2>3, <3>2, <3>3, <3>4
  <2>4. CASE x # b[1]
    <3>1. FreeOf(fl2, x) = FreeOf(fl, x)
      BY <1>5, <2>4 DEF FreeOf
    <3> QED BY <1>6, <2>2, <2>4, <3>1
  <2> QED BY <2>3, <2>4
<1> QED BY <1>9, <1>10, <1>11, <1>12, <1>13, <1>14 DEF Heap

(* sys_free puts a block back into the free list of its descriptor.        *)
LEMMA GiveBlock ==
  ASSUME NEW V, NEW pt, NEW ar, NEW fl, NEW lv, Heap(V, pt, ar, fl, lv),
         NEW b, b \in lv, NEW d \in Descs, ar[b[1]].desc = d,
         ar[b[1]].cnt + 1 # BlockPerArena(d),
         NEW ar2, NEW fl2, HeapType(V, pt, ar2, fl2, lv),
         ar2[b[1]].desc = d, ar2[b[1]].cnt = ar[b[1]].cnt + 1,
         fl2[d] = Append(fl[d], b), Except(ar, ar2, V, b[1]), Except(fl, fl2, Descs, d)
  PROVE  Heap(V, pt, ar2, fl2, lv \ {b})
<1>1. /\ b \in Block /\ b \in AllBlocks(fl, lv) /\ b[1] \in V /\ b \notin FreeSet(fl)
  BY HeapFacts DEF Heap, AllBlocks
<1>2. /\ NoDup(fl[d]) /\ fl[d] \in Seq(Block) /\ Elems(fl[d]) \subseteq FreeSet(fl)
  BY HeapFacts DEF Heap, Listed
<1>3. b \notin Elems(fl[d])
  BY <1>1, <1>2
<1>4. NoDup(fl2[d]) /\ Elems(fl2[d]) = Elems(fl[d]) \cup {b}
  BY <1>1, <1>2, <1>3, AppendFacts
<1>5. \A c : c \in FreeSet(fl2) <=>
               (c \in FreeSet(fl) /\ c \notin Elems(fl[d])) \/ c \in Elems(fl2[d])
  BY OneList
<1>6. FreeSet(fl2) = FreeSet(fl) \cup {b}
  BY <1>2, <1>4, <1>5
<1>7. /\ \A e \in Descs : e # d => fl2[e] = fl[e]
      /\ \A x \in V : x # b[1] => ar2[x] = ar[x]
  BY DEF Except
<1>8. d # Large /\ \A x \in V : ar2[x].desc = ar[x].desc
  BY <1>7, Constants
<1>9. SameShape(ar, ar2, V)
  BY <1>7, <1>8 DEF SameShape
<1>10. AllBlocks(fl2, lv \ {b}) = AllBlocks(fl, lv)
  BY <1>6 DEF AllBlocks
<1>11. /\ Mapped(V, pt, ar2, AllBlocks(fl, lv))
       /\ NoOverlap(ar2, AllBlocks(fl, lv))
       /\ Numbered(ar2, AllBlocks(fl, lv))
  BY <1>9, SameBlocks
<1>12. HeapType(V, pt, ar2, fl2, lv \ {b})
  BY DEF HeapType
<1>13. (lv \ {b}) \cap FreeSet(fl2) = {}
  <2>1. lv \cap FreeSet(fl) = {}
    BY DEF Heap
  <2> QED BY <1>6, <2>1
<1>14. Listed(ar2, fl2)
  <2> SUFFICES ASSUME NEW e \in Descs
               PROVE  NoDup(fl2[e]) /\ \A c \in Elems(fl2[e]) : ar2[c[1]].desc = e
    BY DEF Listed
  <2>1. NoDup(fl2[e])
    BY <1>4, <1>7 DEF Heap, Listed
  <2>2. \A c \in Elems(fl2[e]) : c \in Elems(fl[e]) \/ (c = b /\ e = d)
    <3>1. CASE e = d
      BY <1>4, <3>1
    <3>2. CASE e # d
      <4>1. fl2[e] = fl[e]
        BY <1>7, <3>2
      <4> QED BY <4>1
    <3> QED BY <3>1, <3>2
  <2>3. \A c \in Elems(fl[e]) : ar[c[1]].desc = e /\ c[1] \in V
    BY HeapFacts DEF Heap, Listed, AllBlocks
  <2> QED BY <1>8, <2>1, <2>2, <2>3
<1>15. Counts(V, ar2, fl2)
  <2> SUFFICES ASSUME NEW x \in V, ar2[x].desc # Large
               PROVE  /\ ar2[x].cnt = Cardinality(FreeOf(fl2, x))
                      /\ ar2[x].cnt < BlockPerArena(ar2[x].desc)
    BY DEF Counts
  <2>1. ar[x].desc # Large /\ ar2[x].desc = ar[x].desc
    BY <1>8
  <2>2. /\ ar[x].cnt = Cardinality(FreeOf(fl, x))
        /\ ar[x].cnt < BlockPerArena(ar[x].desc)
    BY <2>1 DEF Heap, Counts
  <2>3. CASE x = b[1]
    <3>1. FreeOf(fl2, x) = FreeOf(fl, x) \cup {b} /\ b \notin FreeOf(fl, x)
      BY <1>1, <1>6, <2>3 DEF FreeOf
    <3>2. IsFiniteSet(FreeOf(fl, x)) /\ Cardinality(FreeOf(fl, x)) \in Nat
      BY <2>1, FreeOfFinite
    <3>3. Cardinality(FreeOf(fl2, x)) = Cardinality(FreeOf(fl, x)) + 1
      BY <3>1, <3>2, FS_AddElement
    <3>4. BlockPerArena(d) \in Nat
      BY Constants
    <3> QED BY <2>1, <2>2, <2>3, <3>2, <3>3, <3>4
  <2>4. CASE x # b[1]
    <3>1. FreeOf(fl2, x) = FreeOf(fl, x)
      BY <1>6, <2>4 DEF FreeOf
    <3> QED BY <1>7, <2>2, <2>4, <3>1
  <2> QED BY <2>3, <2>4
<1> QED BY <1>10, <1>11, <1>12, <1>13, <1>14, <1>15 DEF Heap

-----------------------------------------------------------------------------
(* sys_free gives back the pages of an arena: the blocks B of the other    *)
(* arenas lose nothing.                                                    *)
LEMMA DropArena ==
  ASSUME NEW V, NEW pt, NEW ar, NEW fl, NEW lv, Heap(V, pt, ar, fl, lv),
         NEW b0 \in AllBlocks(fl, lv), NEW v, v = b0[1],
         NEW pt2, NEW ar2, Unmapped(pt, pt2, V, v, Size(ar[v])), Except(ar, ar2, V, v),
         NEW B, B \subseteq AllBlocks(fl, lv), \A b \in B : b[1] # v
  PROVE  /\ Mapped(V, pt2, ar2, B)
         /\ NoOverlap(ar2, B)
         /\ Numbered(ar2, B)
<1>1. \A b \in AllBlocks(fl, lv) : b[1] \in V
  BY HeapFacts
<1>2. \A b \in B : ar2[b[1]] = ar[b[1]]
  BY <1>1 DEF Except
<1>3. \A b \in B : \A w \in Int : Covers(ar2, b, w) <=> Covers(ar, b, w)
  BY <1>2 DEF Covers
<1>4. ASSUME NEW b \in B, NEW w \in Int, Covers(ar, b, w)
      PROVE  w \in V /\ pt2[w] # NoPage
  <2>1. w \in V /\ pt[w] # NoPage
    BY <1>4 DEF Heap, Mapped
  <2>2. ~Covers(ar, b0, w)
    BY <1>4 DEF Heap, NoOverlap
  <2> QED BY <2>1, <2>2 DEF Covers, Unmapped
<1>5. Mapped(V, pt2, ar2, B)
  BY <1>2, <1>3, <1>4 DEF Heap, Mapped
<1>6. NoOverlap(ar2, B)
  BY <1>3 DEF Heap, NoOverlap
<1>7. Numbered(ar2, B)
  BY <1>2 DEF Heap, Numbered
<1> QED BY <1>5, <1>6, <1>7

(* The pages of a large arena, with its only block.                        *)
LEMMA DropLarge ==
  ASSUME NEW V, NEW pt, NEW ar, NEW fl, NEW lv, Heap(V, pt, ar, fl, lv),
         NEW b, b \in lv, ar[b[1]].desc = Large,
         NEW pt2, NEW ar2, HeapType(V, pt2, ar2, fl, lv), ar2[b[1]].desc = Large,
         Unmapped(pt, pt2, V, b[1], ar[b[1]].cnt), Except(ar, ar2, V, b[1])
  PROVE  Heap(V, pt2, ar2, fl, lv \ {b})
<1>1. b \in AllBlocks(fl, lv) /\ b \notin FreeSet(fl)
  BY DEF Heap, AllBlocks
<1>2. PICK v : v = b[1]
  OBVIOUS
<1>3. v \in V /\ Size(ar[v]) = ar[v].cnt
  BY <1>1, <1>2, HeapFacts DEF Size
<1>4. PICK B : B = AllBlocks(fl, lv \ {b})
  OBVIOUS
<1>5. B \subseteq AllBlocks(fl, lv) /\ b \notin B /\ FreeSet(fl) \subseteq B
  BY <1>1, <1>4 DEF AllBlocks
<1>6. ASSUME NEW c \in B PROVE c[1] # v
  <2> SUFFICES ASSUME c[1] = v PROVE FALSE
    OBVIOUS
  <2>1. c \in AllBlocks(fl, lv) /\ Covers(ar, c, c[1])
    BY <1>5, HeapFacts
  <2>2. Covers(ar, b, c[1])
    BY <1>2, <2>1 DEF Covers
  <2>3. b = c
    BY <1>1, <2>1, <2>2, SameArena
  <2> QED BY <1>5, <2>3
<1>7. Mapped(V, pt2, ar2, B) /\ NoOverlap(ar2, B) /\ Numbered(ar2, B)
  <2>1. Unmapped(pt, pt2, V, v, Size(ar[v])) /\ Except(ar, ar2, V, v)
    BY <1>2, <1>3
  <2> QED BY <1>1, <1>2, <1>5, <1>6, <2>1, DropArena
<1>8. \A x \in V : x # v => ar2[x] = ar[x]
  BY <1>2 DEF Except
<1>9. HeapType(V, pt2, ar2, fl, lv \ {b})
  BY DEF HeapType
<1>10. (lv \ {b}) \cap FreeSet(fl) = {}
  BY DEF Heap
<1>11. Listed(ar2, fl)
  <2>1. \A d \in Descs : \A c \in Elems(fl[d]) : c[1] \in V /\ c[1] # v
    BY <1>5, <1>6, HeapFacts DEF AllBlocks
  <2> QED BY <1>8, <2>1 DEF Heap, Listed
<1>12. Counts(V, ar2, fl)
  BY <1>2, <1>8 DEF Heap, Counts
<1> QED BY <1>4, <1>7, <1>9, <1>10, <1>11, <1>12 DEF Heap

(* A small arena whose other blocks are all free has no other live one.    *)
LEMMA LastBlock ==
  ASSUME NEW V, NEW pt, NEW ar, NEW fl, NEW lv, Heap(V, pt, ar, fl, lv),
         NEW b, b \in lv, NEW d \in Descs, ar[b[1]].desc = d,
         ar[b[1]].cnt + 1 = BlockPerArena(d),
         NEW c, c \in lv, c[1] = b[1]
  PROVE  c = b
<1>1. PICK v : v = b[1]
  OBVIOUS
<1>2. PICK n \in Nat : n = BlockPerArena(d) /\ n >= 1
  BY Constants
<1>3. /\ b \in AllBlocks(fl, lv) /\ c \in AllBlocks(fl, lv)
      /\ b \notin FreeSet(fl) /\ c \notin FreeSet(fl) /\ v \in V /\ d # Large
  BY <1>1, HeapFacts, Constants DEF Heap, AllBlocks
<1>4. PICK F : F = FreeOf(fl, v)
  OBVIOUS
<1>5. PICK S : S = {v} \X (0 .. n - 1)
  OBVIOUS
<1>6. IsFiniteSet(F) /\ F \subseteq S /\ IsFiniteSet(S) /\ Cardinality(S) = n
  <2>1. ar[v].desc # Large /\ BlockPerArena(ar[v].desc) = n
    BY <1>1, <1>2, <1>3
  <2>2. /\ IsFiniteSet(FreeOf(fl, v))
        /\ FreeOf(fl, v) \subseteq {v} \X (0 .. BlockPerArena(ar[v].desc) - 1)
        /\ IsFiniteSet({v} \X (0 .. BlockPerArena(ar[v].desc) - 1))
        /\ Cardinality({v} \X (0 .. BlockPerArena(ar[v].desc) - 1)) = BlockPerArena(ar[v].desc)
    BY <1>3, <2>1, FreeOfFinite
  <2> QED BY <1>4, <1>5, <2>1, <2>2
<1>7. Cardinality(F) + 1 = n
  BY <1>1, <1>2, <1>3, <1>4 DEF Heap, Counts
<1>8. ASSUME NEW x \in AllBlocks(fl, lv), x[1] = v PROVE x \in S
  <2>1. x[2] < n
    BY <1>1, <1>2, <1>3, <1>8 DEF Heap, Numbered
  <2>2. x = <<v, x[2]>> /\ x[2] \in Nat
    BY <1>8, HeapFacts
  <2> QED BY <1>5, <2>1, <2>2
<1>9. b \notin F /\ c \notin F
  BY <1>3, <1>4 DEF FreeOf
<1>10. IsFiniteSet(F \cup {b}) /\ Cardinality(F \cup {b}) = n
  BY <1>6, <1>7, <1>9, FS_AddElement
<1>11. F \cup {b} \in SUBSET S
  BY <1>1, <1>3, <1>6, <1>8
<1>12. F \cup {b} = S
  BY <1>6, <1>10, <1>11, FS_Subset
<1>13. c \in S
  BY <1>1, <1>3, <1>8
<1> QED BY <1>9, <1>12, <1>13

(* The page of a small arena, when its last block comes back.              *)
LEMMA DropSmall ==
  ASSUME NEW V, NEW pt, NEW ar, NEW fl, NEW lv, Heap(V, pt, ar, fl, lv),
         NEW b, b \in lv, NEW d \in Descs, ar[b[1]].desc = d,
         ar[b[1]].cnt + 1 = BlockPerArena(d),
         NEW pt2, NEW ar2, NEW fl2, HeapType(V, pt2, ar2, fl2, lv), ar2[b[1]].desc = Large,
         fl2[d] = Unlinked(Append(fl[d], b), b[1]), Except(fl, fl2, Descs, d),
         Unmapped(pt, pt2, V, b[1], 1), Except(ar, ar2, V, b[1])
  PROVE  Heap(V, pt2, ar2, fl2, lv \ {b})
<1>1. PICK v : v = b[1]
  OBVIOUS
<1>2. /\ b \in Block /\ b \in AllBlocks(fl, lv) /\ v \in V /\ b \notin FreeSet(fl)
      /\ d # Large /\ Size(ar[v]) = 1
  BY <1>1, HeapFacts, Constants DEF Heap, AllBlocks, Size
<1>3. /\ NoDup(fl[d]) /\ fl[d] \in Seq(Block) /\ Elems(fl[d]) \subseteq FreeSet(fl)
  BY HeapFacts DEF Heap, Listed
<1>4. PICK list : list = Append(fl[d], b)
  OBVIOUS
<1>5. list \in Seq(Block) /\ Elems(list) = Elems(fl[d]) \cup {b} /\ NoDup(list)
  BY <1>2, <1>3, <1>4, AppendFacts
<1>6. NoDup(fl2[d]) /\ Elems(fl2[d]) = {c \in Elems(list) : c[1] # v}
  <2>1. /\ Elems(Unlinked(list, v)) = {c \in Elems(list) : c[1] # v}
        /\ NoDup(list) => NoDup(Unlinked(list, v))
    BY <1>5, UnlinkedFacts
  <2>2. fl2[d] = Unlinked(list, v)
    BY <1>1, <1>4
  <2> QED BY <1>5, <2>1, <2>2
<1>7. /\ \A e \in Descs : e # d => fl2[e] = fl[e]
      /\ \A x \in V : x # v => ar2[x] = ar[x]
  BY <1>1 DEF Except
<1>8. \A c : c \in FreeSet(fl2) <=>
               (c \in FreeSet(fl) /\ c \notin Elems(fl[d])) \/ c \in Elems(fl2[d])
  BY OneList
<1>9. \A e \in Descs : \A c \in Elems(fl[e]) :
        ar[c[1]].desc = e /\ c[1] \in V /\ c \in FreeSet(fl)
  BY HeapFacts DEF Heap, Listed, AllBlocks
<1>10. \A c \in FreeSet(fl) : c[1] = v => c \in Elems(fl[d])
  BY <1>1, <1>9 DEF FreeSet
<1>11. FreeSet(fl2) = {c \in FreeSet(fl) : c[1] # v}
  <2>1. \A c : c \in Elems(fl2[d]) <=> c \in Elems(fl[d]) /\ c[1] # v
    BY <1>1, <1>5, <1>6
  <2>2. \A c \in Elems(fl[d]) : c \in FreeSet(fl)
    BY <1>3
  <2> QED BY <1>8, <1>10, <2>1, <2>2
<1>12. PICK B : B = AllBlocks(fl2, lv \ {b})
  OBVIOUS
<1>13. B \subseteq AllBlocks(fl, lv)
  BY <1>11, <1>12 DEF AllBlocks
<1>14. \A c \in B : c[1] # v
  <2>1. \A c \in lv \ {b} : c[1] # v
    BY <1>1, LastBlock
  <2> QED BY <1>11, <1>12, <2>1 DEF AllBlocks
<1>15. Mapped(V, pt2, ar2, B) /\ NoOverlap(ar2, B) /\ Numbered(ar2, B)
  <2>1. Unmapped(pt, pt2, V, v, Size(ar[v])) /\ Except(ar, ar2, V, v)
    BY <1>1, <1>2
  <2> QED BY <1>1, <1>2, <1>13, <1>14, <2>1, DropArena
<1>16. HeapType(V, pt2, ar2, fl2, lv \ {b})
  BY DEF HeapType
<1>17. (lv \ {b}) \cap FreeSet(fl2) = {}
  BY <1>11 DEF Heap
<1>18. Listed(ar2, fl2)
  <2> SUFFICES ASSUME NEW e \in Descs
               PROVE  NoDup(fl2[e]) /\ \A c \in Elems(fl2[e]) : ar2[c[1]].desc = e
    BY DEF Listed
  <2>1. CASE e = d
    BY <1>1, <1>2, <1>5, <1>6, <1>7, <1>9, <2>1
  <2>2. CASE e # d
    <3>1. fl2[e] = fl[e] /\ NoDup(fl[e])
      BY <1>7, <2>2 DEF Heap, Listed
    <3>2. \A c \in Elems(fl[e]) : c[1] # v
      BY <1>1, <1>9, <2>2
    <3> QED BY <1>7, <1>9, <3>1, <3>2
  <2> QED BY <2>1, <2>2
<1>19. Counts(V, ar2, fl2)
  <2> SUFFICES ASSUME NEW x \in V, ar2[x].desc # Large
               PROVE  /\ ar2[x].cnt = Cardinality(FreeOf(fl2, x))
                      /\ ar2[x].cnt < BlockPerArena(ar2[x].desc)
    BY DEF Counts
  <2>1. x # v /\ ar2[x] = ar[x]
    BY <1>1, <1>7
  <2>2. FreeOf(fl2, x) = FreeOf(fl, x)
    BY <1>11, <2>1 DEF FreeOf
  <2> QED BY <2>1, <2>2 DEF Heap, Counts
<1> QED BY <1>12, <1>15, <1>16, <1>17, <1>18, <1>19 DEF Heap

-----------------------------------------------------------------------------
(* A step of task t in the space s, whose lock it has or finds free: what  *)
(* has to be shown, and that it is enough.  Whoever else is in an          *)
(* allocation has another lock, and so another space.                      *)
OnlySpace(s) ==
  \A x \in Spaces : x # s => /\ pte'[x] = pte[x] /\ arena'[x] = arena[x]
                             /\ freeList'[x] = freeList[x] /\ live'[x] = live[x]
OnlyTask(t) == \A u \in Tasks : u # t => pc'[u] = pc[u] /\ req'[u] = req[u]
OnlyLock(t, s) ==
  /\ memLock[Pool(s)] \in {t, NoTask}
  /\ \A p \in {"kernel", "user"} : p # Pool(s) => memLock'[p] = memLock[p]
MyCall(t, s) ==
  (pc'[t] \in {"scan", "set", "tscan", "tset", "map"}) =>
    /\ memLock'[Pool(s)] = t /\ s \in {Kernel, t} /\ req'[t].s = s
    /\ Pending(VirPages(s), pte'[s], arena'[s], freeList'[s], live'[s], req'[t])
MyHeap(s) == Heap(VirPages(s), pte'[s], arena'[s], freeList'[s], live'[s])

LEMMA Frame ==
  ASSUME MemInv, NEW t \in Tasks, NEW s \in Spaces, MType',
         OnlySpace(s), OnlyTask(t), OnlyLock(t, s), MyCall(t, s), MyHeap(s)
  PROVE  MemInv'
<1>1. \A u \in Tasks : u # NoTask
  BY Constants
<1>2. \A x \in Spaces : Pool(x) \in {"kernel", "user"}
  BY DEF Pool
<1>3. \A u \in Tasks : req[u].s \in Spaces
  BY DEF MemInv, MType, Request
<1>4. ASSUME NEW u \in Tasks, u # t, InCall(u)'
      PROVE  /\ InCall(u) /\ req'[u] = req[u] /\ memLock[Pool(req[u].s)] = u
             /\ req[u].s \in {Kernel, u}
             /\ Pool(req[u].s) # Pool(s) /\ req[u].s # s
  <2>1. pc'[u] = pc[u] /\ req'[u] = req[u]
    BY <1>4 DEF OnlyTask
  <2>2. InCall(u)
    BY <1>4, <2>1 DEF InCall
  <2>3. memLock[Pool(req[u].s)] = u /\ req[u].s \in {Kernel, u}
    BY <2>2 DEF MemInv, Locking
  <2>4. memLock[Pool(req[u].s)] # memLock[Pool(s)]
    BY <1>1, <1>4, <2>3 DEF OnlyLock
  <2> QED BY <2>1, <2>2, <2>3, <2>4
<1>5. Locking'
  <2> SUFFICES ASSUME NEW u \in Tasks, InCall(u)'
               PROVE  memLock'[Pool(req'[u].s)] = u /\ req'[u].s \in {Kernel, u}
    BY DEF Locking, Pool
  <2>1. CASE u = t
    BY <2>1 DEF MyCall, InCall
  <2>2. CASE u # t
    BY <1>2, <1>3, <1>4, <2>2 DEF OnlyLock
  <2> QED BY <2>1, <2>2
<1>6. Heaps'
  <2> SUFFICES ASSUME NEW x \in Spaces
               PROVE  Heap(VirPages(x), pte'[x], arena'[x], freeList'[x], live'[x])
    BY DEF Heaps, HeapOf
  <2>1. CASE x = s
    BY <2>1 DEF MyHeap
  <2>2. CASE x # s
    BY <2>2 DEF OnlySpace, MemInv, Heaps, HeapOf
  <2> QED BY <2>1, <2>2
<1>7. Requests'
  <2> SUFFICES ASSUME NEW u \in Tasks, InCall(u)'
               PROVE  Pending(VirPages(req'[u].s), pte'[req'[u].s], arena'[req'[u].s],
                              freeList'[req'[u].s], live'[req'[u].s], req'[u])
    BY DEF Requests, PendingOf
  <2>1. CASE u = t
    BY <2>1 DEF MyCall, InCall
  <2>2. CASE u # t
    <3>1. InCall(u) /\ req'[u] = req[u] /\ req[u].s # s /\ req[u].s \in Spaces
      BY <1>3, <1>4, <2>2
    <3>2. Pending(VirPages(req[u].s), pte[req[u].s], arena[req[u].s],
                  freeList[req[u].s], live[req[u].s], req[u])
      BY <3>1 DEF MemInv, Requests, PendingOf
    <3>3. /\ pte'[req[u].s] = pte[req[u].s] /\ arena'[req[u].s] = arena[req[u].s]
          /\ freeList'[req[u].s] = freeList[req[u].s] /\ live'[req[u].s] = live[req[u].s]
      BY <3>1 DEF OnlySpace
    <3> QED BY <3>1, <3>2, <3>3
  <2> QED BY <2>1, <2>2
<1> QED BY <1>5, <1>6, <1>7 DEF MemInv

(* In a step that leaves the heaps alone less has to be shown.             *)
LEMMA FrameHeap ==
  ASSUME MemInv, NEW t \in Tasks, NEW s \in Spaces,
         memLock' \in [{"kernel", "user"} -> Tasks \cup {NoTask}],
         pc' \in [Tasks -> Labels], req' \in [Tasks -> Request],
         pte' = pte, arena' = arena, freeList' = freeList, live' = live,
         OnlyTask(t), OnlyLock(t, s), MyCall(t, s)
  PROVE  MemInv'
<1>1. MType'
  BY DEF MemInv, MType
<1>2. OnlySpace(s)
  BY DEF OnlySpace
<1>3. MyHeap(s)
  BY DEF MyHeap, MemInv, Heaps, HeapOf
<1> QED BY <1>1, <1>2, <1>3, Frame

(* A panic and a pause change nothing.                                     *)
LEMMA SameState ==
  ASSUME MemInv, UNCHANGED <<poolVars, heapVars, ctlVars>>
  PROVE  MemInv'
<1>1. /\ pte' = pte /\ arena' = arena /\ freeList' = freeList /\ live' = live
      /\ memLock' = memLock /\ pc' = pc /\ req' = req
  BY DEF poolVars, heapVars, ctlVars
<1>2. MType' /\ Locking'
  BY <1>1 DEF MemInv, MType, Locking, InCall, Pool
<1>3. Heaps'
  BY <1>1 DEF MemInv, Heaps, HeapOf
<1>4. Requests'
  BY <1>1 DEF MemInv, Requests, PendingOf, InCall
<1> QED BY <1>2, <1>3, <1>4 DEF MemInv

(* Mem_MallocPages starts an allocation, here in the space s.              *)
LEMMA StartStep ==
  ASSUME MemInv, NEW t \in Tasks, NEW s \in Spaces, s \in {Kernel, t}, memLock[Pool(s)] = NoTask,
         Take(t, s), pc' = [pc EXCEPT ![t] = "scan"], UNCHANGED heapVars, pte' = pte,
         NEW kind \in {"pages", "large", "small"}, NEW d \in 0 .. DescCnt,
         NEW i \in Nat, NEW n \in Nat, n >= 1, i .. i + n - 1 \subseteq VirPages(s),
         kind = "small" => n = 1 /\ d \in Descs /\ freeList[s][d] = <<>>,
         req' = [req EXCEPT ![t] = [kind |-> kind, s |-> s, desc |-> d, v0 |-> i, v |-> i,
                                    n |-> n, idx |-> 0, tidx |-> 0]]
  PROVE  MemInv'
<1>1. PICK r : r = [kind |-> kind, s |-> s, desc |-> d, v0 |-> i, v |-> i,
                    n |-> n, idx |-> 0, tidx |-> 0]
  OBVIOUS
<1>2. /\ r \in Request /\ r.kind = kind /\ r.s = s /\ r.desc = d /\ r.v0 = i /\ r.v = i /\ r.n = n
  BY <1>1 DEF Request
<1>3. /\ memLock \in [{"kernel", "user"} -> Tasks \cup {NoTask}]
      /\ pc \in [Tasks -> Labels] /\ req \in [Tasks -> Request]
  BY DEF MemInv, MType
<1>4. /\ req' = [req EXCEPT ![t] = r] /\ memLock' = [memLock EXCEPT ![Pool(s)] = t]
      /\ arena' = arena /\ freeList' = freeList /\ live' = live
  BY <1>1 DEF Take, heapVars
<1>5. Pool(s) \in {"kernel", "user"} /\ "scan" \in Labels
  BY DEF Pool, Labels
<1>6. /\ memLock' \in [{"kernel", "user"} -> Tasks \cup {NoTask}]
      /\ pc' \in [Tasks -> Labels] /\ req' \in [Tasks -> Request]
      /\ req'[t] = r /\ memLock'[Pool(s)] = t
  BY <1>2, <1>3, <1>4, <1>5
<1>7. OnlyTask(t)
  BY <1>3, <1>4 DEF OnlyTask
<1>8. OnlyLock(t, s)
  BY <1>3, <1>4 DEF OnlyLock
<1>9. Pending(VirPages(s), pte'[s], arena'[s], freeList'[s], live'[s], r)
  <2>1. Unowned(VirPages(s), pte'[s], arena'[s], freeList'[s], live'[s], i, i - 1)
    BY DEF Unowned
  <2>2. i <= i /\ i .. i + n - 1 \subseteq VirPages(s) /\ kind # "none"
    OBVIOUS
  <2> QED BY <1>2, <1>4, <2>1, <2>2 DEF Pending
<1>10. MyCall(t, s)
  BY <1>2, <1>6, <1>9 DEF MyCall
<1> QED BY <1>4, <1>6, <1>7, <1>8, <1>10, FrameHeap

LEMMA MallocPagesStep ==
  ASSUME MemInv, NEW t \in Tasks, NEW s \in Spaces, s \in {Kernel, t}, memLock[Pool(s)] = NoTask,
         NEW n \in Nat, n >= 1, NEW kind \in {"pages", "large", "small"}, NEW d \in 0 .. DescCnt,
         kind = "small" => n = 1 /\ d \in Descs /\ freeList[s][d] = <<>>,
         MallocPages(t, s, n, kind, d)
  PROVE  MemInv'
<1>1. PICK unknown \in {{}, 0 .. Byte - 1} :
        LET i == IF s = Kernel
                 THEN Scan(virK \cup Behind(KPages, unknown), KPages, n)
                 ELSE Scan(virU[s], UserPages, n)
        IN /\ i # -1
           /\ IF i + n > KPages
              THEN Panic("memory.c:131")
              ELSE /\ virK' = virK \cup Reserved(i, n)
                   /\ Take(t, s)
                   /\ pc' = [pc EXCEPT ![t] = "scan"]
                   /\ req' = [req EXCEPT ![t] = [kind |-> kind, s |-> s, desc |-> d,
                                                 v0 |-> i, v |-> i, n |-> n,
                                                 idx |-> 0, tidx |-> 0]]
                   /\ UNCHANGED <<phys, virU, pte, tables, heapVars, panic>>
  BY DEF MallocPages
<1>2. PICK i : i = IF s = Kernel
                   THEN Scan(virK \cup Behind(KPages, unknown), KPages, n)
                   ELSE Scan(virU[s], UserPages, n)
  OBVIOUS
<1>3. KPages \in Nat /\ UserPages \in Nat
  BY Constants
<1>4. i # -1
  BY <1>1, <1>2
<1>5. i \in Nat
  <2>1. CASE s = Kernel
    BY <1>2, <1>3, <1>4, <2>1, ScanFacts
  <2>2. CASE s # Kernel
    BY <1>2, <1>3, <1>4, <2>2, ScanFacts
  <2> QED BY <2>1, <2>2
<1>6. CASE i + n > KPages
  <2>1. Panic("memory.c:131")
    BY <1>1, <1>2, <1>6
  <2> QED BY <2>1, SameState DEF Panic
<1>7. CASE ~(i + n > KPages)
  <2>1. /\ Take(t, s) /\ pc' = [pc EXCEPT ![t] = "scan"] /\ UNCHANGED heapVars /\ pte' = pte
        /\ req' = [req EXCEPT ![t] = [kind |-> kind, s |-> s, desc |-> d, v0 |-> i, v |-> i,
                                      n |-> n, idx |-> 0, tidx |-> 0]]
    BY <1>1, <1>2, <1>7
  <2>2. i .. i + n - 1 \subseteq VirPages(s)
    <3>1. 0 .. KPages - 1 \subseteq VirPages(s)
      BY SpaceFacts
    <3>2. i .. i + n - 1 \subseteq 0 .. KPages - 1
      BY <1>3, <1>5, <1>7
    <3> QED BY <3>1, <3>2
  <2> QED BY <1>5, <2>1, <2>2, StartStep
<1> QED BY <1>6, <1>7

LEMMA SpaceOf ==
  ASSUME NEW t \in Tasks
  PROVE  Space(t) \in Spaces /\ Space(t) \in {Kernel, t}
BY Constants DEF Space

LEMMA GetKernelPagesStep ==
  ASSUME MemInv, NEW t \in Tasks, NEW n \in 1 .. MaxPages, GetKernelPages(t, n)
  PROVE  MemInv'
<1>1. n \in Nat /\ n >= 1
  OBVIOUS
<1>2. memLock[Pool(Kernel)] = NoTask /\ MallocPages(t, Kernel, n, "pages", Large)
  BY DEF GetKernelPages, MayBegin
<1>3. Kernel \in Spaces /\ Large \in 0 .. DescCnt
  BY Constants
<1> QED BY <1>1, <1>2, <1>3, MallocPagesStep

LEMMA MallocLargeStep ==
  ASSUME MemInv, NEW t \in Tasks, NEW size \in Sizes, MallocLarge(t, size)
  PROVE  MemInv'
<1>1. PagesFor(size) \in Nat /\ PagesFor(size) >= 1
  BY PagesForFacts, MemoryAssumption DEF MemoryAssumption
<1>2. /\ memLock[Pool(Space(t))] = NoTask
      /\ MallocPages(t, Space(t), PagesFor(size), "large", Large)
  BY DEF MallocLarge, MayBegin
<1>3. Large \in 0 .. DescCnt /\ Space(t) \in Spaces /\ Space(t) \in {Kernel, t}
  BY Constants, SpaceOf
<1> QED BY <1>1, <1>2, <1>3, MallocPagesStep

LEMMA MallocArenaStep ==
  ASSUME MemInv, NEW t \in Tasks, NEW size \in Sizes, MallocArena(t, size)
  PROVE  MemInv'
<1>1. DescFor(size) \in Descs /\ DescFor(size) \in 0 .. DescCnt
  BY DescForFacts, Constants DEF MallocArena
<1>2. /\ memLock[Pool(Space(t))] = NoTask
      /\ freeList[Space(t)][DescFor(size)] = <<>>
      /\ MallocPages(t, Space(t), 1, "small", DescFor(size))
  BY DEF MallocArena, MayBegin
<1>3. Space(t) \in Spaces /\ Space(t) \in {Kernel, t}
  BY SpaceOf
<1>4. 1 \in Nat /\ 1 >= 1
  OBVIOUS
<1> QED BY <1>1, <1>2, <1>3, <1>4, MallocPagesStep

LEMMA GetOnePageStep ==
  ASSUME MemInv, NEW t \in Tasks, GetOnePage(t), t \in Procs
  PROVE  MemInv'
<1>1. /\ t \in Spaces /\ Pool(t) = "user" /\ Stack \in Nat /\ Stack .. Stack + 1 - 1 \subseteq VirPages(t)
      /\ Large \in 0 .. DescCnt /\ 1 \in Nat /\ 1 >= 1
  BY Constants, SpaceFacts DEF Pool
<1>2. /\ memLock[Pool(t)] = NoTask /\ Take(t, t) /\ pc' = [pc EXCEPT ![t] = "scan"]
      /\ UNCHANGED heapVars /\ pte' = pte
      /\ req' = [req EXCEPT ![t] = [kind |-> "pages", s |-> t, desc |-> Large, v0 |-> Stack,
                                    v |-> Stack, n |-> 1, idx |-> 0, tidx |-> 0]]
  BY <1>1 DEF GetOnePage
<1> QED BY <1>1, <1>2, StartStep

(* The steps of Mem_Palloc and Mem_AddPageTable before the mapping: what   *)
(* they find goes into the request r, the heap is not concerned.           *)
LEMMA PallocStep ==
  ASSUME MemInv, NEW t \in Tasks, InCall(t),
         pte' = pte, arena' = arena, freeList' = freeList, live' = live, memLock' = memLock,
         NEW l \in Labels, pc' = [pc EXCEPT ![t] = l],
         NEW r \in Request, req' = [req EXCEPT ![t] = r],
         r.kind = req[t].kind, r.s = req[t].s, r.desc = req[t].desc,
         r.v0 = req[t].v0, r.v = req[t].v, r.n = req[t].n
  PROVE  MemInv'
<1>1. PICK s \in Spaces : s = req[t].s
  BY DEF MemInv, MType, Request
<1>2. /\ memLock \in [{"kernel", "user"} -> Tasks \cup {NoTask}]
      /\ pc \in [Tasks -> Labels] /\ req \in [Tasks -> Request]
  BY DEF MemInv, MType
<1>3. /\ memLock' \in [{"kernel", "user"} -> Tasks \cup {NoTask}]
      /\ pc' \in [Tasks -> Labels] /\ req' \in [Tasks -> Request] /\ req'[t] = r
  BY <1>2
<1>4. memLock[Pool(s)] = t /\ s \in {Kernel, t}
  BY <1>1 DEF MemInv, Locking
<1>5. OnlyTask(t)
  BY <1>2 DEF OnlyTask
<1>6. OnlyLock(t, s)
  BY <1>4 DEF OnlyLock
<1>7. Pending(VirPages(s), pte[s], arena[s], freeList[s], live[s], req[t])
  BY <1>1 DEF MemInv, Requests, PendingOf
<1>8. Pending(VirPages(s), pte[s], arena[s], freeList[s], live[s], r)
  BY <1>7 DEF Pending
<1>9. MyCall(t, s)
  BY <1>1, <1>3, <1>4, <1>8 DEF MyCall
<1> QED BY <1>3, <1>5, <1>6, <1>9, FrameHeap

(* The call returns.                                                       *)
LEMMA ReturnFacts ==
  ASSUME MemInv, NEW t \in Tasks, InCall(t), Return(t)
  PROVE  /\ memLock' \in [{"kernel", "user"} -> Tasks \cup {NoTask}]
         /\ pc' \in [Tasks -> Labels] /\ req' \in [Tasks -> Request]
         /\ OnlyTask(t) /\ OnlyLock(t, req[t].s) /\ MyCall(t, req[t].s)
<1>1. req[t].s \in Spaces
  BY DEF MemInv, MType, Request
<1>2. /\ memLock \in [{"kernel", "user"} -> Tasks \cup {NoTask}]
      /\ pc \in [Tasks -> Labels] /\ req \in [Tasks -> Request]
  BY DEF MemInv, MType
<1>3. NoReq \in Request /\ "idle" \in Labels
  BY Constants DEF NoReq, Request, Labels
<1>4. /\ memLock' = [memLock EXCEPT ![Pool(req[t].s)] = NoTask]
      /\ pc' = [pc EXCEPT ![t] = "idle"] /\ req' = [req EXCEPT ![t] = NoReq]
  BY DEF Return
<1>5. /\ memLock' \in [{"kernel", "user"} -> Tasks \cup {NoTask}]
      /\ pc' \in [Tasks -> Labels] /\ req' \in [Tasks -> Request] /\ pc'[t] = "idle"
  BY <1>2, <1>3, <1>4
<1>6. memLock[Pool(req[t].s)] = t
  BY DEF MemInv, Locking
<1>7. OnlyTask(t)
  BY <1>2, <1>4 DEF OnlyTask
<1>8. OnlyLock(t, req[t].s)
  BY <1>2, <1>4, <1>6 DEF OnlyLock
<1>9. MyCall(t, req[t].s)
  BY <1>5 DEF MyCall
<1> QED BY <1>5, <1>7, <1>8, <1>9

LEMMA PhysScanFacts ==
  ASSUME NEW pool
  PROVE  PhysScan(pool) \in Nat \cup {-1}
<1>1. KPages \in Nat /\ UPages \in Nat /\ 1 \in Nat
  BY Constants
<1>2. CASE pool = "kernel"
  BY <1>1, <1>2, ScanFacts DEF PhysScan
<1>3. CASE pool # "kernel"
  BY <1>1, <1>3, ScanFacts DEF PhysScan
<1> QED BY <1>2, <1>3

LEMMA PallocScanStep ==
  ASSUME MemInv, NEW t \in Tasks, PallocScan(t)
  PROVE  MemInv'
<1>1. InCall(t) /\ req \in [Tasks -> Request] /\ req[t].s \in Spaces
  BY DEF PallocScan, InCall, MemInv, MType, Request
<1>2. /\ pte' = pte /\ arena' = arena /\ freeList' = freeList /\ live' = live
  BY DEF PallocScan, poolVars, heapVars
<1>3. PICK i \in Nat \cup {-1} : i = PhysScan(Pool(req[t].s))
  BY PhysScanFacts
<1>4. CASE i = -1
  <2>1. Return(t)
    BY <1>3, <1>4 DEF PallocScan
  <2> QED BY <1>1, <1>2, <2>1, ReturnFacts, FrameHeap
<1>5. CASE i # -1
  <2>1. /\ req' = [req EXCEPT ![t].idx = i] /\ pc' = [pc EXCEPT ![t] = "set"]
        /\ memLock' = memLock
    BY <1>3, <1>5 DEF PallocScan
  <2>2. PICK r : r = [req[t] EXCEPT !.idx = i]
    OBVIOUS
  <2>3. req' = [req EXCEPT ![t] = r] /\ r \in Request /\ "set" \in Labels
    <3>1. i \in Nat
      BY <1>5
    <3>2. r \in Request
      BY <1>1, <2>2, <3>1 DEF Request
    <3> QED BY <1>1, <2>1, <2>2, <3>2 DEF Labels
  <2>4. /\ r.kind = req[t].kind /\ r.s = req[t].s /\ r.desc = req[t].desc
        /\ r.v0 = req[t].v0 /\ r.v = req[t].v /\ r.n = req[t].n
    BY <1>1, <2>2 DEF Request
  <2> QED BY <1>1, <1>2, <2>1, <2>3, <2>4, PallocStep
<1> QED BY <1>4, <1>5

LEMMA PallocSetStep ==
  ASSUME MemInv, NEW t \in Tasks, PallocSet(t)
  PROVE  MemInv'
<1>1. InCall(t) /\ req \in [Tasks -> Request]
  BY DEF PallocSet, InCall, MemInv, MType
<1>2. CASE ~InMap(Pool(req[t].s), req[t].idx)
  <2>1. Panic("memory.c:182")
    BY <1>2 DEF PallocSet
  <2> QED BY <2>1, SameState DEF Panic
<1>3. CASE InMap(Pool(req[t].s), req[t].idx)
  <2>1. /\ pte' = pte /\ arena' = arena /\ freeList' = freeList /\ live' = live
        /\ memLock' = memLock /\ req' = req
        /\ pc' = [pc EXCEPT ![t] =
                    IF req[t].s = Kernel \/ tables[req[t].s][Region(req[t].v)] # NoPage
                    THEN "map" ELSE "tscan"]
    BY <1>3 DEF PallocSet, heapVars
  <2>2. PICK l : l = IF req[t].s = Kernel \/ tables[req[t].s][Region(req[t].v)] # NoPage
                     THEN "map" ELSE "tscan"
    OBVIOUS
  <2>3. l \in Labels /\ pc' = [pc EXCEPT ![t] = l]
    BY <2>1, <2>2 DEF Labels
  <2>4. PICK r \in Request : r = req[t]
    BY <1>1
  <2>5. req' = [req EXCEPT ![t] = r]
    BY <1>1, <2>1, <2>4
  <2> QED BY <1>1, <2>1, <2>3, <2>4, <2>5, PallocStep
<1> QED BY <1>2, <1>3

LEMMA TableScanStep ==
  ASSUME MemInv, NEW t \in Tasks, TableScan(t)
  PROVE  MemInv'
<1>1. InCall(t) /\ req \in [Tasks -> Request]
  BY DEF TableScan, InCall, MemInv, MType
<1>2. PICK i \in Int : i = PhysScan("kernel")
  BY PhysScanFacts
<1>3. /\ pte' = pte /\ arena' = arena /\ freeList' = freeList /\ live' = live
      /\ memLock' = memLock /\ req' = [req EXCEPT ![t].tidx = i] /\ pc' = [pc EXCEPT ![t] = "tset"]
  BY <1>2 DEF TableScan, poolVars, heapVars
<1>4. PICK r : r = [req[t] EXCEPT !.tidx = i]
  OBVIOUS
<1>5. req' = [req EXCEPT ![t] = r] /\ r \in Request /\ "tset" \in Labels
  BY <1>1, <1>3, <1>4 DEF Request, Labels
<1>6. /\ r.kind = req[t].kind /\ r.s = req[t].s /\ r.desc = req[t].desc
      /\ r.v0 = req[t].v0 /\ r.v = req[t].v /\ r.n = req[t].n
  BY <1>1, <1>4 DEF Request
<1> QED BY <1>1, <1>3, <1>5, <1>6, PallocStep

LEMMA TableSetStep ==
  ASSUME MemInv, NEW t \in Tasks, TableSet(t)
  PROVE  MemInv'
<1>1. InCall(t) /\ req \in [Tasks -> Request]
  BY DEF TableSet, InCall, MemInv, MType
<1>2. CASE ~InMap("kernel", req[t].tidx)
  <2>1. Panic("memory.c:182")
    BY <1>2 DEF TableSet
  <2> QED BY <2>1, SameState DEF Panic
<1>3. CASE InMap("kernel", req[t].tidx)
  <2>1. /\ pte' = pte /\ arena' = arena /\ freeList' = freeList /\ live' = live
        /\ memLock' = memLock /\ req' = req /\ pc' = [pc EXCEPT ![t] = "map"]
    BY <1>3 DEF TableSet, heapVars
  <2>2. PICK r \in Request : r = req[t]
    BY <1>1
  <2>3. req' = [req EXCEPT ![t] = r] /\ "map" \in Labels
    BY <1>1, <2>1, <2>2 DEF Labels
  <2> QED BY <1>1, <2>1, <2>2, <2>3, PallocStep
<1> QED BY <1>2, <1>3

(* A page is mapped: the pages of the request so far are unowned.          *)
Maps(s, v, i) == pte' = [pte EXCEPT ![s][v] = Start(Pool(s)) + i]

LEMMA MapFacts ==
  ASSUME MemInv, NEW t \in Tasks, InCall(t), NEW s, s = req[t].s,
         NEW v, v = req[t].v, pte[s][v] = NoPage, Maps(s, v, req[t].idx)
  PROVE  /\ s \in Spaces /\ v \in VirPages(s) /\ req[t].v0 \in VirPages(s) /\ req[t].v0 <= v
         /\ pte' = [x \in Spaces |-> pte'[x]]
         /\ \A x \in Spaces : x # s => pte'[x] = pte[x]
         /\ Heap(VirPages(s), pte'[s], arena[s], freeList[s], live[s])
         /\ Unowned(VirPages(s), pte'[s], arena[s], freeList[s], live[s], req[t].v0, v)
<1>1. /\ s \in Spaces /\ req[t].idx \in Nat /\ req[t].v0 \in Int /\ v \in Int /\ req[t].n \in Int
  BY DEF MemInv, MType, Request
<1>2. Heap(VirPages(s), pte[s], arena[s], freeList[s], live[s])
  BY <1>1 DEF MemInv, Heaps, HeapOf
<1>3. Pending(VirPages(s), pte[s], arena[s], freeList[s], live[s], req[t])
  BY DEF MemInv, Requests, PendingOf
<1>4. /\ req[t].v0 <= v /\ req[t].n >= 1 /\ req[t].v0 .. v + req[t].n - 1 \subseteq VirPages(s)
      /\ Unowned(VirPages(s), pte[s], arena[s], freeList[s], live[s], req[t].v0, v - 1)
  BY <1>3 DEF Pending
<1>5. v \in VirPages(s) /\ req[t].v0 \in VirPages(s)
  <2>1. v \in req[t].v0 .. v + req[t].n - 1 /\ req[t].v0 \in req[t].v0 .. v + req[t].n - 1
    BY <1>1, <1>4
  <2> QED BY <1>4, <2>1
<1>6. PICK p : p = Start(Pool(s)) + req[t].idx
  OBVIOUS
<1>7. p \in Int /\ p # NoPage
  BY <1>1, <1>6, Constants DEF Start, NoPage
<1>8. pte = [x \in Spaces |-> pte[x]] /\ pte[s] \in [VirPages(s) -> Int]
  BY <1>2 DEF MemInv, MType, Heap, HeapType
<1>9. pte' = [x \in Spaces |-> IF x = s THEN [pte[s] EXCEPT ![v] = p] ELSE pte[x]]
  BY <1>1, <1>6, <1>8 DEF Maps
<1>10. /\ pte' = [x \in Spaces |-> pte'[x]] /\ \A x \in Spaces : x # s => pte'[x] = pte[x]
       /\ pte'[s] = [pte[s] EXCEPT ![v] = p]
  BY <1>1, <1>9
<1>11. /\ pte'[s] \in [VirPages(s) -> Int] /\ pte'[s][v] = p
       /\ \A x \in VirPages(s) : x # v => pte'[s][x] = pte[s][x]
  BY <1>5, <1>7, <1>8, <1>10
<1>12. HeapType(VirPages(s), pte'[s], arena[s], freeList[s], live[s])
  BY <1>2, <1>11 DEF Heap, HeapType
<1>13. Except(pte[s], pte'[s], VirPages(s), v)
  BY <1>11 DEF Except
<1>14. /\ Heap(VirPages(s), pte'[s], arena[s], freeList[s], live[s])
       /\ Unowned(VirPages(s), pte'[s], arena[s], freeList[s], live[s], req[t].v0, v)
  <2>1. pte'[s][v] # NoPage
    BY <1>7, <1>11
  <2> QED BY <1>1, <1>2, <1>4, <1>5, <1>12, <1>13, <2>1, MapMore
<1> QED BY <1>1, <1>4, <1>5, <1>10, <1>14

(* The caller gets the heap with an arena more, or just the pages.         *)
LEMMA FinishFacts ==
  ASSUME MemInv, NEW t \in Tasks, InCall(t), NEW s \in Spaces, s = req[t].s,
         NEW v \in VirPages(s), v = req[t].v, NEW v0 \in VirPages(s), v0 = req[t].v0, v0 <= v,
         Heap(VirPages(s), pte'[s], arena[s], freeList[s], live[s]),
         Unowned(VirPages(s), pte'[s], arena[s], freeList[s], live[s], v0, v),
         Finish(t)
  PROVE  /\ MyHeap(s)
         /\ arena' = [x \in Spaces |-> arena'[x]]
         /\ freeList' = [x \in Spaces |-> freeList'[x]]
         /\ live' = [x \in Spaces |-> live'[x]]
         /\ \A x \in Spaces : x # s => /\ arena'[x] = arena[x]
                                       /\ freeList'[x] = freeList[x] /\ live'[x] = live[x]
<1>1. /\ arena = [x \in Spaces |-> arena[x]] /\ freeList = [x \in Spaces |-> freeList[x]]
      /\ live = [x \in Spaces |-> live[x]]
  BY DEF MemInv, MType
<1>2. /\ arena[s] \in [VirPages(s) -> ArenaType] /\ freeList[s] \in [Descs -> Seq(Block)]
      /\ VirPages(s) \subseteq Nat /\ pte'[s] \in [VirPages(s) -> Int] /\ live[s] \subseteq Block
  BY DEF Heap, HeapType
<1>3. CASE req[t].kind = "pages"
  <2>1. arena' = arena /\ freeList' = freeList /\ live' = live
    BY <1>3 DEF Finish, heapVars
  <2> QED BY <1>1, <2>1 DEF MyHeap
<1>4. CASE req[t].kind = "large"
  <2>1. PICK a : a = [desc |-> Large, cnt |-> v - v0 + 1]
    OBVIOUS
  <2>2. /\ arena' = [arena EXCEPT ![s][v0] = a]
        /\ live' = [live EXCEPT ![s] = @ \cup {<<v0, 0>>}] /\ freeList' = freeList
    BY <1>4, <2>1 DEF Finish
  <2>3. a \in ArenaType /\ a.desc = Large /\ a.cnt = v - v0 + 1
    BY <1>2, <2>1, Constants DEF ArenaType
  <2>4. arena' = [x \in Spaces |-> IF x = s THEN [arena[s] EXCEPT ![v0] = a] ELSE arena[x]]
    BY <1>1, <2>2
  <2>5. live' = [x \in Spaces |-> IF x = s THEN live[s] \cup {<<v0, 0>>} ELSE live[x]]
    BY <1>1, <2>2
  <2>6. /\ arena'[s] = [arena[s] EXCEPT ![v0] = a] /\ live'[s] = live[s] \cup {<<v0, 0>>}
        /\ freeList'[s] = freeList[s]
    BY <2>2, <2>4, <2>5
  <2>7. /\ arena'[s] \in [VirPages(s) -> ArenaType] /\ arena'[s][v0] = a
        /\ \A x \in VirPages(s) : x # v0 => arena'[s][x] = arena[s][x]
    BY <1>2, <2>3, <2>6
  <2>8. HeapType(VirPages(s), pte'[s], arena'[s], freeList[s], live[s])
    BY <1>2, <2>7 DEF HeapType
  <2>9. Except(arena[s], arena'[s], VirPages(s), v0)
    BY <2>7 DEF Except
  <2>10. arena'[s][v0].desc = Large /\ arena'[s][v0].cnt = v - v0 + 1
    BY <2>3, <2>7
  <2>11. Heap(VirPages(s), pte'[s], arena'[s], freeList[s], live[s] \cup {<<v0, 0>>})
    BY <2>8, <2>9, <2>10, LargeArena
  <2>12. MyHeap(s)
    BY <2>6, <2>11 DEF MyHeap
  <2> QED BY <1>1, <2>2, <2>4, <2>5, <2>12
<1>5. CASE req[t].kind = "small"
  <2>1. PICK d \in Descs : d = req[t].desc /\ v = v0 /\ freeList[s][d] = <<>>
    <3>1. Pending(VirPages(s), pte[s], arena[s], freeList[s], live[s], req[t])
      BY DEF MemInv, Requests, PendingOf
    <3> QED BY <1>5, <3>1 DEF Pending
  <2>2. PICK a : a = [desc |-> d, cnt |-> BlockPerArena(d) - 1]
    OBVIOUS
  <2>3. PICK list : list = Tail(Split(v0, d))
    OBVIOUS
  <2>4. /\ arena' = [arena EXCEPT ![s][v0] = a]
        /\ freeList' = [freeList EXCEPT ![s][d] = list]
        /\ live' = [live EXCEPT ![s] = @ \cup {<<v0, 0>>}]
    BY <1>5, <2>1, <2>2, <2>3 DEF Finish
  <2>5. a \in ArenaType /\ a.desc = d /\ a.cnt = BlockPerArena(d) - 1 /\ list \in Seq(Block)
    <3>1. list \in Seq(Block)
      BY <1>2, <2>3, SplitFacts
    <3>2. BlockPerArena(d) \in Nat /\ d \in 0 .. DescCnt
      BY Constants
    <3> QED BY <2>2, <3>1, <3>2 DEF ArenaType
  <2>6. arena' = [x \in Spaces |-> IF x = s THEN [arena[s] EXCEPT ![v0] = a] ELSE arena[x]]
    BY <1>1, <2>4
  <2>7. freeList' = [x \in Spaces |->
                       IF x = s THEN [freeList[s] EXCEPT ![d] = list] ELSE freeList[x]]
    BY <1>1, <2>4
  <2>8. live' = [x \in Spaces |-> IF x = s THEN live[s] \cup {<<v0, 0>>} ELSE live[x]]
    BY <1>1, <2>4
  <2>9. /\ arena'[s] = [arena[s] EXCEPT ![v0] = a] /\ live'[s] = live[s] \cup {<<v0, 0>>}
        /\ freeList'[s] = [freeList[s] EXCEPT ![d] = list]
    BY <2>6, <2>7, <2>8
  <2>10. /\ arena'[s] \in [VirPages(s) -> ArenaType] /\ arena'[s][v0] = a
         /\ \A x \in VirPages(s) : x # v0 => arena'[s][x] = arena[s][x]
    BY <1>2, <2>5, <2>9
  <2>11. /\ freeList'[s] \in [Descs -> Seq(Block)] /\ freeList'[s][d] = list
         /\ \A e \in Descs : e # d => freeList'[s][e] = freeList[s][e]
    BY <1>2, <2>5, <2>9
  <2>12. HeapType(VirPages(s), pte'[s], arena'[s], freeList'[s], live[s])
    BY <1>2, <2>10, <2>11 DEF HeapType
  <2>13. Except(arena[s], arena'[s], VirPages(s), v0) /\ Except(freeList[s], freeList'[s], Descs, d)
    BY <2>10, <2>11 DEF Except
  <2>14. /\ arena'[s][v0].desc = d /\ arena'[s][v0].cnt = BlockPerArena(d) - 1
         /\ freeList'[s][d] = Tail(Split(v0, d))
    BY <2>3, <2>5, <2>10, <2>11
  <2>15. Unowned(VirPages(s), pte'[s], arena[s], freeList[s], live[s], v0, v0)
    BY <2>1
  <2>16. Heap(VirPages(s), pte'[s], arena'[s], freeList'[s], live[s] \cup {<<v0, 0>>})
    BY <2>1, <2>12, <2>13, <2>14, <2>15, SmallArena
  <2>17. MyHeap(s)
    BY <2>9, <2>16 DEF MyHeap
  <2> QED BY <1>1, <2>6, <2>7, <2>8, <2>17
<1> QED BY <1>3, <1>4, <1>5 DEF Finish

LEMMA MapPageStep ==
  ASSUME MemInv, NEW t \in Tasks, MapPage(t)
  PROVE  MemInv'
<1>1. /\ InCall(t) /\ req \in [Tasks -> Request] /\ pc \in [Tasks -> Labels]
      /\ memLock \in [{"kernel", "user"} -> Tasks \cup {NoTask}]
  BY DEF MapPage, InCall, MemInv, MType
<1>2. PICK s : s = req[t].s
  OBVIOUS
<1>3. PICK v : v = req[t].v
  OBVIOUS
<1>4. CASE pte[s][v] # NoPage
  <2>1. Panic("memory.c:199")
    BY <1>2, <1>3, <1>4 DEF MapPage
  <2> QED BY <2>1, SameState DEF Panic
<1>5. CASE pte[s][v] = NoPage
  <2>1. Maps(s, v, req[t].idx)
    BY <1>2, <1>3, <1>5 DEF MapPage, Maps
  <2>2. /\ s \in Spaces /\ v \in VirPages(s) /\ req[t].v0 \in VirPages(s) /\ req[t].v0 <= v
        /\ pte' = [x \in Spaces |-> pte'[x]]
        /\ \A x \in Spaces : x # s => pte'[x] = pte[x]
        /\ Heap(VirPages(s), pte'[s], arena[s], freeList[s], live[s])
        /\ Unowned(VirPages(s), pte'[s], arena[s], freeList[s], live[s], req[t].v0, v)
    BY <1>1, <1>2, <1>3, <1>5, <2>1, MapFacts
  <2>3. CASE req[t].n > 1
    <3>1. /\ req' = [req EXCEPT ![t].n = @ - 1, ![t].v = @ + 1]
          /\ pc' = [pc EXCEPT ![t] = "scan"]
          /\ memLock' = memLock /\ arena' = arena /\ freeList' = freeList /\ live' = live
      BY <1>2, <1>3, <1>5, <2>3 DEF MapPage, heapVars
    <3>2. PICK r : r = [req[t] EXCEPT !.n = @ - 1, !.v = @ + 1]
      OBVIOUS
    <3>3. /\ r \in Request /\ r.s = s /\ r.kind = req[t].kind /\ r.v0 = req[t].v0
          /\ r.v = v + 1 /\ r.n = req[t].n - 1
      <4>1. /\ req[t] \in Request /\ req[t].n - 1 \in Int /\ req[t].v + 1 \in Int
        BY <1>1 DEF Request
      <4>2. r \in Request
        BY <3>2, <4>1 DEF Request
      <4> QED BY <1>2, <1>3, <3>2, <4>1, <4>2 DEF Request
    <3>4. req' = [req EXCEPT ![t] = r]
      BY <1>1, <3>1, <3>2
    <3>5. /\ req' \in [Tasks -> Request] /\ req'[t] = r
          /\ pc' \in [Tasks -> Labels]
      BY <1>1, <3>1, <3>3, <3>4 DEF Labels
    <3>6. MType'
      BY <2>2, <3>1, <3>5 DEF MemInv, MType
    <3>7. OnlyTask(t) /\ OnlySpace(s) /\ MyHeap(s)
      BY <1>1, <2>2, <3>1, <3>4 DEF OnlyTask, OnlySpace, MyHeap
    <3>8. memLock[Pool(s)] = t /\ s \in {Kernel, t}
      BY <1>1, <1>2 DEF MemInv, Locking
    <3>9. OnlyLock(t, s)
      BY <3>1, <3>8 DEF OnlyLock
    <3>10. Pending(VirPages(s), pte'[s], arena'[s], freeList'[s], live'[s], r)
      <4>1. Pending(VirPages(s), pte[s], arena[s], freeList[s], live[s], req[t])
        BY <1>1, <1>2 DEF MemInv, Requests, PendingOf
      <4>2. req[t].n \in Int /\ req[t].v0 \in Int /\ v \in Int
        BY <1>1, <1>3 DEF Request
      <4>3. /\ r.v0 <= r.v /\ r.n >= 1 /\ r.kind # "none" /\ r.v - 1 = v /\ r.kind # "small"
            /\ r.v0 .. r.v + r.n - 1 = req[t].v0 .. req[t].v + req[t].n - 1
        BY <1>3, <2>2, <2>3, <3>3, <4>1, <4>2 DEF Pending
      <4>4. r.v0 .. r.v + r.n - 1 \subseteq VirPages(s)
        BY <4>1, <4>3 DEF Pending
      <4>5. Unowned(VirPages(s), pte'[s], arena'[s], freeList'[s], live'[s], r.v0, r.v - 1)
        BY <2>2, <3>1, <3>3, <4>3
      <4> QED BY <4>3, <4>4, <4>5 DEF Pending
    <3>11. MyCall(t, s)
      BY <3>1, <3>3, <3>5, <3>8, <3>10 DEF MyCall
    <3> QED BY <2>2, <3>6, <3>7, <3>9, <3>11, Frame
  <2>4. CASE ~(req[t].n > 1)
    <3>1. Return(t) /\ Finish(t)
      BY <1>2, <1>3, <1>5, <2>4 DEF MapPage
    <3>2. /\ memLock' \in [{"kernel", "user"} -> Tasks \cup {NoTask}]
          /\ pc' \in [Tasks -> Labels] /\ req' \in [Tasks -> Request]
          /\ OnlyTask(t) /\ OnlyLock(t, s) /\ MyCall(t, s)
      BY <1>1, <1>2, <3>1, ReturnFacts
    <3>3. PICK v0 \in VirPages(s) : v0 = req[t].v0
      BY <2>2
    <3>4. /\ MyHeap(s)
          /\ arena' = [x \in Spaces |-> arena'[x]]
          /\ freeList' = [x \in Spaces |-> freeList'[x]]
          /\ live' = [x \in Spaces |-> live'[x]]
          /\ \A x \in Spaces : x # s => /\ arena'[x] = arena[x]
                                        /\ freeList'[x] = freeList[x] /\ live'[x] = live[x]
      BY <1>1, <1>2, <1>3, <2>2, <3>1, <3>3, FinishFacts
    <3>5. MType'
      BY <2>2, <3>2, <3>4 DEF MType
    <3>6. OnlySpace(s)
      BY <2>2, <3>4 DEF OnlySpace
    <3> QED BY <2>2, <3>2, <3>4, <3>5, <3>6, Frame
  <2> QED BY <2>3, <2>4
<1> QED BY <1>4, <1>5

(* Steps that take blocks off the free lists or put them back.             *)
LEMMA HeapStep ==
  ASSUME MemInv, NEW t \in Tasks, NEW s \in Spaces, MayBegin(t, s), UNCHANGED ctlVars,
         pte' = [x \in Spaces |-> pte'[x]], arena' = [x \in Spaces |-> arena'[x]],
         freeList' = [x \in Spaces |-> freeList'[x]], live' = [x \in Spaces |-> live'[x]],
         OnlySpace(s), MyHeap(s)
  PROVE  MemInv'
<1>1. memLock' = memLock /\ pc' = pc /\ req' = req
  BY DEF ctlVars
<1>2. MType'
  BY <1>1 DEF MemInv, MType
<1>3. OnlyTask(t) /\ OnlyLock(t, s) /\ MyCall(t, s)
  BY <1>1 DEF MayBegin, OnlyTask, OnlyLock, MyCall
<1> QED BY <1>2, <1>3, Frame

LEMMA MallocBlockStep ==
  ASSUME MemInv, NEW t \in Tasks, NEW size \in Sizes, MallocBlock(t, size)
  PROVE  MemInv'
<1>1. PICK s \in Spaces : s = Space(t)
  BY SpaceOf
<1>2. PICK d \in Descs : d = DescFor(size)
  BY DescForFacts DEF MallocBlock
<1>3. PICK b : b = Head(freeList[s][d])
  OBVIOUS
<1>4. /\ MayBegin(t, s) /\ freeList[s][d] # <<>>
      /\ freeList' = [freeList EXCEPT ![s][d] = Tail(freeList[s][d])]
      /\ arena' = [arena EXCEPT ![s][b[1]].cnt = @ - 1]
      /\ live' = [live EXCEPT ![s] = @ \cup {b}]
      /\ pte' = pte /\ UNCHANGED ctlVars
  BY <1>1, <1>2, <1>3 DEF MallocBlock, Taken, poolVars
<1>5. Heap(VirPages(s), pte[s], arena[s], freeList[s], live[s])
  BY DEF MemInv, Heaps, HeapOf
<1>6. /\ arena[s] \in [VirPages(s) -> ArenaType] /\ freeList[s] \in [Descs -> Seq(Block)]
      /\ VirPages(s) \subseteq Nat /\ pte[s] \in [VirPages(s) -> Int] /\ live[s] \subseteq Block
  BY <1>5 DEF Heap, HeapType
<1>7. /\ arena = [x \in Spaces |-> arena[x]] /\ freeList = [x \in Spaces |-> freeList[x]]
      /\ live = [x \in Spaces |-> live[x]] /\ pte = [x \in Spaces |-> pte[x]]
  BY DEF MemInv, MType
<1>8. b[1] \in VirPages(s) /\ Tail(freeList[s][d]) \in Seq(Block)
  <2>1. NoDup(freeList[s][d]) /\ freeList[s][d] \in Seq(Block)
    BY <1>5, <1>6 DEF Heap, Listed
  <2>2. b \in Elems(freeList[s][d]) /\ Tail(freeList[s][d]) \in Seq(Block)
    BY <1>3, <1>4, <2>1, TailFacts
  <2>3. b \in AllBlocks(freeList[s], live[s])
    BY <2>2 DEF AllBlocks, FreeSet
  <2> QED BY <1>5, <2>2, <2>3, HeapFacts
<1>9. PICK a : a = [arena[s][b[1]] EXCEPT !.cnt = @ - 1]
  OBVIOUS
<1>10. /\ a \in ArenaType /\ a.desc = arena[s][b[1]].desc
       /\ a.cnt = arena[s][b[1]].cnt - 1
  <2>1. arena[s][b[1]] \in ArenaType
    BY <1>6, <1>8
  <2> QED BY <1>9, <2>1 DEF ArenaType
<1>11. arena' = [x \in Spaces |-> IF x = s THEN [arena[s] EXCEPT ![b[1]] = a] ELSE arena[x]]
  BY <1>4, <1>7, <1>9
<1>12. freeList' = [x \in Spaces |->
                      IF x = s THEN [freeList[s] EXCEPT ![d] = Tail(freeList[s][d])]
                      ELSE freeList[x]]
  BY <1>4, <1>7
<1>13. live' = [x \in Spaces |-> IF x = s THEN live[s] \cup {b} ELSE live[x]]
  BY <1>4, <1>7
<1>14. /\ arena'[s] = [arena[s] EXCEPT ![b[1]] = a] /\ live'[s] = live[s] \cup {b}
       /\ freeList'[s] = [freeList[s] EXCEPT ![d] = Tail(freeList[s][d])]
       /\ OnlySpace(s)
  BY <1>4, <1>11, <1>12, <1>13 DEF OnlySpace
<1>15. /\ arena'[s] \in [VirPages(s) -> ArenaType] /\ arena'[s][b[1]] = a
       /\ \A x \in VirPages(s) : x # b[1] => arena'[s][x] = arena[s][x]
  BY <1>6, <1>8, <1>10, <1>14
<1>16. /\ freeList'[s] \in [Descs -> Seq(Block)] /\ freeList'[s][d] = Tail(freeList[s][d])
       /\ \A e \in Descs : e # d => freeList'[s][e] = freeList[s][e]
  BY <1>6, <1>8, <1>14
<1>17. HeapType(VirPages(s), pte[s], arena'[s], freeList'[s], live[s])
  BY <1>6, <1>15, <1>16 DEF HeapType
<1>18. /\ Except(arena[s], arena'[s], VirPages(s), b[1])
       /\ Except(freeList[s], freeList'[s], Descs, d)
  BY <1>15, <1>16 DEF Except
<1>19. arena'[s][b[1]].desc = arena[s][b[1]].desc /\ arena'[s][b[1]].cnt = arena[s][b[1]].cnt - 1
  BY <1>10, <1>15
<1>20. Heap(VirPages(s), pte[s], arena'[s], freeList'[s], live[s] \cup {b})
  BY <1>3, <1>4, <1>5, <1>16, <1>17, <1>18, <1>19, TakeBlock
<1>21. MyHeap(s)
  BY <1>4, <1>14, <1>20 DEF MyHeap
<1>22. /\ pte' = [x \in Spaces |-> pte'[x]] /\ arena' = [x \in Spaces |-> arena'[x]]
       /\ freeList' = [x \in Spaces |-> freeList'[x]] /\ live' = [x \in Spaces |-> live'[x]]
  BY <1>4, <1>7, <1>11, <1>12, <1>13
<1> QED BY <1>4, <1>14, <1>21, <1>22, HeapStep

(* Mem_Free gives back n pages from v on, unless an ASSERT fails.          *)
LEMMA FreePagesFacts ==
  ASSUME MemInv, NEW s \in Spaces, NEW v \in VirPages(s), NEW n \in Int,
         NEW lists, NEW inUse, FreePages(s, v, n, lists, inUse)
  PROVE  \/ UNCHANGED <<poolVars, heapVars, ctlVars>>
         \/ /\ UNCHANGED ctlVars /\ freeList' = lists /\ live' = inUse
            /\ pte' = [x \in Spaces |-> pte'[x]] /\ arena' = [x \in Spaces |-> arena'[x]]
            /\ \A x \in Spaces : x # s => pte'[x] = pte[x] /\ arena'[x] = arena[x]
            /\ pte'[s] \in [VirPages(s) -> Int] /\ arena'[s] \in [VirPages(s) -> ArenaType]
            /\ arena'[s][v].desc = Large
            /\ Unmapped(pte[s], pte'[s], VirPages(s), v, n)
            /\ Except(arena[s], arena'[s], VirPages(s), v)
<1> DEFINE vs == v .. v + n - 1
           pages == {pte[s][w] : w \in vs}
<1>1. CASE \/ \E page \in pages : BitOf(page) \notin 0 .. Pages(PoolOf(page)) - 1
           \/ Cardinality(pages) < n
           \/ \E page \in pages : BitOf(page) \notin phys[PoolOf(page)]
  <2>1. Panic("bitmap.c:28") \/ Panic("memory.c:417")
    BY <1>1 DEF FreePages
  <2> QED BY <2>1 DEF Panic
<1>2. CASE ~(\/ \E page \in pages : BitOf(page) \notin 0 .. Pages(PoolOf(page)) - 1
             \/ Cardinality(pages) < n
             \/ \E page \in pages : BitOf(page) \notin phys[PoolOf(page)])
  <2>1. /\ pte' = [pte EXCEPT ![s] = [w \in VirPages(s) |->
                                        IF w \in v .. v + n - 1 THEN NoPage ELSE @[w]]]
        /\ arena' = [arena EXCEPT ![s][v] = NoArena]
        /\ freeList' = lists /\ live' = inUse /\ UNCHANGED ctlVars
    BY <1>2 DEF FreePages
  <2> HIDE DEF vs, pages
  <2>2. /\ arena = [x \in Spaces |-> arena[x]] /\ pte = [x \in Spaces |-> pte[x]]
    BY DEF MemInv, MType
  <2>3. /\ arena[s] \in [VirPages(s) -> ArenaType] /\ pte[s] \in [VirPages(s) -> Int]
        /\ VirPages(s) \subseteq Nat
    BY DEF MemInv, Heaps, HeapOf, Heap, HeapType
  <2>4. PICK a : a = NoArena
    OBVIOUS
  <2>5. a \in ArenaType /\ a.desc = Large
    BY <2>4, Constants DEF NoArena, ArenaType
  <2>6. PICK f : f = [w \in VirPages(s) |->
                        IF w \in v .. v + n - 1 THEN NoPage ELSE pte[s][w]]
    OBVIOUS
  <2>7. pte' = [x \in Spaces |-> IF x = s THEN f ELSE pte[x]]
    BY <2>1, <2>2, <2>6
  <2>8. arena' = [x \in Spaces |-> IF x = s THEN [arena[s] EXCEPT ![v] = a] ELSE arena[x]]
    BY <2>1, <2>2, <2>4
  <2>9. /\ pte' = [x \in Spaces |-> pte'[x]] /\ arena' = [x \in Spaces |-> arena'[x]]
        /\ \A x \in Spaces : x # s => pte'[x] = pte[x] /\ arena'[x] = arena[x]
        /\ pte'[s] = f /\ arena'[s] = [arena[s] EXCEPT ![v] = a]
    BY <2>7, <2>8
  <2>10. \A w \in VirPages(s) :
           pte'[s][w] = IF v <= w /\ w < v + n THEN NoPage ELSE pte[s][w]
    BY <2>3, <2>6, <2>9
  <2>11. pte'[s] \in [VirPages(s) -> Int]
    BY <2>3, <2>6, <2>9 DEF NoPage
  <2>12. /\ arena'[s] \in [VirPages(s) -> ArenaType] /\ arena'[s][v] = a
         /\ \A w \in VirPages(s) : w # v => arena'[s][w] = arena[s][w]
    BY <2>3, <2>5, <2>9
  <2>13. Unmapped(pte[s], pte'[s], VirPages(s), v, n) /\ Except(arena[s], arena'[s], VirPages(s), v)
    BY <2>10, <2>12 DEF Unmapped, Except
  <2> QED BY <2>1, <2>5, <2>9, <2>11, <2>12, <2>13
<1> QED BY <1>1, <1>2

LEMMA FreeLargeStep ==
  ASSUME MemInv, NEW t \in Tasks, NEW b, FreeLarge(t, b)
  PROVE  MemInv'
<1>1. PICK s \in Spaces : s = Space(t)
  BY SpaceOf
<1>2. PICK inUse : inUse = [live EXCEPT ![s] = @ \ {b}]
  OBVIOUS
<1>3. /\ MayBegin(t, s) /\ b \in live[s] /\ arena[s][b[1]].desc = Large
      /\ FreePages(s, b[1], arena[s][b[1]].cnt, freeList, inUse)
  BY <1>1, <1>2 DEF FreeLarge
<1>4. Heap(VirPages(s), pte[s], arena[s], freeList[s], live[s])
  BY DEF MemInv, Heaps, HeapOf
<1>5. b[1] \in VirPages(s) /\ arena[s][b[1]].cnt \in Int
  BY <1>3, <1>4, HeapFacts DEF AllBlocks
<1>6. CASE UNCHANGED <<poolVars, heapVars, ctlVars>>
  BY <1>6, SameState
<1>7. CASE ~UNCHANGED <<poolVars, heapVars, ctlVars>>
  <2>1. /\ UNCHANGED ctlVars /\ freeList' = freeList /\ live' = inUse
        /\ pte' = [x \in Spaces |-> pte'[x]] /\ arena' = [x \in Spaces |-> arena'[x]]
        /\ \A x \in Spaces : x # s => pte'[x] = pte[x] /\ arena'[x] = arena[x]
        /\ pte'[s] \in [VirPages(s) -> Int] /\ arena'[s] \in [VirPages(s) -> ArenaType]
        /\ arena'[s][b[1]].desc = Large
        /\ Unmapped(pte[s], pte'[s], VirPages(s), b[1], arena[s][b[1]].cnt)
        /\ Except(arena[s], arena'[s], VirPages(s), b[1])
    BY <1>3, <1>5, <1>7, FreePagesFacts
  <2>2. /\ freeList = [x \in Spaces |-> freeList[x]] /\ live = [x \in Spaces |-> live[x]]
    BY DEF MemInv, MType
  <2>3. live' = [x \in Spaces |-> IF x = s THEN live[s] \ {b} ELSE live[x]]
    BY <1>2, <2>1, <2>2
  <2>4. /\ freeList' = [x \in Spaces |-> freeList'[x]] /\ live' = [x \in Spaces |-> live'[x]]
        /\ live'[s] = live[s] \ {b} /\ freeList'[s] = freeList[s] /\ OnlySpace(s)
    BY <2>1, <2>2, <2>3 DEF OnlySpace
  <2>5. HeapType(VirPages(s), pte'[s], arena'[s], freeList[s], live[s])
    BY <1>4, <2>1 DEF Heap, HeapType
  <2>6. Heap(VirPages(s), pte'[s], arena'[s], freeList[s], live[s] \ {b})
    BY <1>3, <1>4, <2>1, <2>5, DropLarge
  <2>7. MyHeap(s)
    BY <2>4, <2>6 DEF MyHeap
  <2> QED BY <1>3, <2>1, <2>4, <2>7, HeapStep
<1> QED BY <1>6, <1>7

LEMMA FreeBlockStep ==
  ASSUME MemInv, NEW t \in Tasks, NEW b, FreeBlock(t, b)
  PROVE  MemInv'
<1>1. PICK s \in Spaces : s = Space(t)
  BY SpaceOf
<1>2. PICK d : d = arena[s][b[1]].desc
  OBVIOUS
<1>3. PICK list : list = Append(freeList[s][d], b)
  OBVIOUS
<1>4. MayBegin(t, s) /\ b \in live[s] /\ d # Large
  BY <1>1, <1>2 DEF FreeBlock
<1>5. Heap(VirPages(s), pte[s], arena[s], freeList[s], live[s])
  BY DEF MemInv, Heaps, HeapOf
<1>6. /\ b[1] \in VirPages(s) /\ b \in Block /\ d \in Descs /\ arena[s][b[1]] \in ArenaType
      /\ arena[s][b[1]].cnt \in Int
  BY <1>2, <1>4, <1>5, HeapFacts DEF AllBlocks
<1>7. /\ arena[s] \in [VirPages(s) -> ArenaType] /\ freeList[s] \in [Descs -> Seq(Block)]
      /\ VirPages(s) \subseteq Nat /\ pte[s] \in [VirPages(s) -> Int] /\ live[s] \subseteq Block
  BY <1>5 DEF Heap, HeapType
<1>8. /\ arena = [x \in Spaces |-> arena[x]] /\ freeList = [x \in Spaces |-> freeList[x]]
      /\ live = [x \in Spaces |-> live[x]] /\ pte = [x \in Spaces |-> pte[x]]
  BY DEF MemInv, MType
<1>9. list \in Seq(Block) /\ Unlinked(list, b[1]) \in Seq(Block)
  <2>1. freeList[s][d] \in Seq(Block)
    BY <1>6, <1>7
  <2>2. list \in Seq(Block)
    BY <1>3, <1>6, <2>1, AppendFacts
  <2> QED BY <2>2, UnlinkedFacts
<1>10. PICK inUse : inUse = [live EXCEPT ![s] = @ \ {b}]
  OBVIOUS
<1>11. CASE ArenaFree(arena[s][b[1]])
  <2>1. PICK out : out = Unlinked(list, b[1])
    OBVIOUS
  <2>2. PICK lists : lists = [freeList EXCEPT ![s][d] = out]
    OBVIOUS
  <2>3. FreePages(s, b[1], 1, lists, inUse)
    BY <1>1, <1>2, <1>3, <1>10, <1>11, <2>1, <2>2 DEF FreeBlock
  <2>4. CASE UNCHANGED <<poolVars, heapVars, ctlVars>>
    BY <2>4, SameState
  <2>5. CASE ~UNCHANGED <<poolVars, heapVars, ctlVars>>
    <3>1. /\ UNCHANGED ctlVars /\ freeList' = lists /\ live' = inUse
          /\ pte' = [x \in Spaces |-> pte'[x]] /\ arena' = [x \in Spaces |-> arena'[x]]
          /\ \A x \in Spaces : x # s => pte'[x] = pte[x] /\ arena'[x] = arena[x]
          /\ pte'[s] \in [VirPages(s) -> Int] /\ arena'[s] \in [VirPages(s) -> ArenaType]
          /\ arena'[s][b[1]].desc = Large
          /\ Unmapped(pte[s], pte'[s], VirPages(s), b[1], 1)
          /\ Except(arena[s], arena'[s], VirPages(s), b[1])
      <4>1. 1 \in Int
        OBVIOUS
      <4> QED BY <1>6, <2>3, <2>5, <4>1, FreePagesFacts
    <3>2. live' = [x \in Spaces |-> IF x = s THEN live[s] \ {b} ELSE live[x]]
      BY <1>8, <1>10, <3>1
    <3>3. freeList' = [x \in Spaces |->
                         IF x = s THEN [freeList[s] EXCEPT ![d] = out] ELSE freeList[x]]
      BY <1>8, <2>2, <3>1
    <3>4. /\ freeList' = [x \in Spaces |-> freeList'[x]] /\ live' = [x \in Spaces |-> live'[x]]
          /\ live'[s] = live[s] \ {b} /\ freeList'[s] = [freeList[s] EXCEPT ![d] = out]
          /\ OnlySpace(s)
      BY <3>1, <3>2, <3>3 DEF OnlySpace
    <3>5. /\ freeList'[s] \in [Descs -> Seq(Block)] /\ freeList'[s][d] = out
          /\ \A e \in Descs : e # d => freeList'[s][e] = freeList[s][e]
      BY <1>6, <1>7, <1>9, <2>1, <3>4
    <3>6. HeapType(VirPages(s), pte'[s], arena'[s], freeList'[s], live[s])
      BY <1>7, <3>1, <3>5 DEF HeapType
    <3>7. Except(freeList[s], freeList'[s], Descs, d)
      BY <3>5 DEF Except
    <3>8. /\ freeList'[s][d] = Unlinked(Append(freeList[s][d], b), b[1])
          /\ arena[s][b[1]].cnt + 1 = BlockPerArena(d)
      BY <1>2, <1>3, <1>11, <2>1, <3>5 DEF ArenaFree
    <3>9. Heap(VirPages(s), pte'[s], arena'[s], freeList'[s], live[s] \ {b})
      BY <1>2, <1>4, <1>5, <1>6, <3>1, <3>6, <3>7, <3>8, DropSmall
    <3>10. MyHeap(s)
      BY <3>4, <3>9 DEF MyHeap
    <3> QED BY <1>4, <3>1, <3>4, <3>10, HeapStep
  <2> QED BY <2>4, <2>5
<1>12. CASE ~ArenaFree(arena[s][b[1]])
  <2>1. /\ freeList' = [freeList EXCEPT ![s][d] = list]
        /\ arena' = [arena EXCEPT ![s][b[1]].cnt = @ + 1]
        /\ live' = inUse /\ pte' = pte /\ UNCHANGED ctlVars
    BY <1>1, <1>2, <1>3, <1>10, <1>12 DEF FreeBlock, poolVars
  <2>2. PICK a : a = [arena[s][b[1]] EXCEPT !.cnt = @ + 1]
    OBVIOUS
  <2>3. a \in ArenaType /\ a.desc = d /\ a.cnt = arena[s][b[1]].cnt + 1
    BY <1>2, <1>6, <2>2 DEF ArenaType
  <2>4. arena' = [x \in Spaces |-> IF x = s THEN [arena[s] EXCEPT ![b[1]] = a] ELSE arena[x]]
    BY <1>8, <2>1, <2>2
  <2>5. freeList' = [x \in Spaces |->
                       IF x = s THEN [freeList[s] EXCEPT ![d] = list] ELSE freeList[x]]
    BY <1>8, <2>1
  <2>6. live' = [x \in Spaces |-> IF x = s THEN live[s] \ {b} ELSE live[x]]
    BY <1>8, <1>10, <2>1
  <2>7. /\ arena'[s] = [arena[s] EXCEPT ![b[1]] = a] /\ live'[s] = live[s] \ {b}
        /\ freeList'[s] = [freeList[s] EXCEPT ![d] = list] /\ OnlySpace(s)
    BY <2>1, <2>4, <2>5, <2>6 DEF OnlySpace
  <2>8. /\ arena'[s] \in [VirPages(s) -> ArenaType] /\ arena'[s][b[1]] = a
        /\ \A x \in VirPages(s) : x # b[1] => arena'[s][x] = arena[s][x]
    BY <1>6, <1>7, <2>3, <2>7
  <2>9. /\ freeList'[s] \in [Descs -> Seq(Block)] /\ freeList'[s][d] = list
        /\ \A e \in Descs : e # d => freeList'[s][e] = freeList[s][e]
    BY <1>6, <1>7, <1>9, <2>7
  <2>10. HeapType(VirPages(s), pte[s], arena'[s], freeList'[s], live[s])
    BY <1>7, <2>8, <2>9 DEF HeapType
  <2>11. /\ Except(arena[s], arena'[s], VirPages(s), b[1])
         /\ Except(freeList[s], freeList'[s], Descs, d)
    BY <2>8, <2>9 DEF Except
  <2>12. /\ arena'[s][b[1]].desc = d /\ arena'[s][b[1]].cnt = arena[s][b[1]].cnt + 1
         /\ freeList'[s][d] = Append(freeList[s][d], b)
         /\ arena[s][b[1]].cnt + 1 # BlockPerArena(d)
    BY <1>2, <1>3, <1>12, <2>3, <2>8, <2>9 DEF ArenaFree
  <2>13. Heap(VirPages(s), pte[s], arena'[s], freeList'[s], live[s] \ {b})
    BY <1>2, <1>4, <1>5, <1>6, <2>10, <2>11, <2>12, GiveBlock
  <2>14. MyHeap(s)
    BY <2>1, <2>7, <2>13 DEF MyHeap
  <2>15. /\ pte' = [x \in Spaces |-> pte'[x]] /\ arena' = [x \in Spaces |-> arena'[x]]
         /\ freeList' = [x \in Spaces |-> freeList'[x]] /\ live' = [x \in Spaces |-> live'[x]]
    BY <1>8, <2>1, <2>4, <2>5, <2>6
  <2> QED BY <1>4, <2>1, <2>7, <2>14, <2>15, HeapStep
<1> QED BY <1>11, <1>12

-----------------------------------------------------------------------------
(* Who has yet to run Process_Start is a process.                          *)
Starters == \A t \in Tasks : pc[t] = "start" => t \in Procs

LEMMA StartersInit ==
  Init => Starters
BY MemoryAssumption DEF Init, Starters, MemoryAssumption

LEMMA StartersStep ==
  ASSUME Starters, pc \in [Tasks -> Labels], [Next]_vars
  PROVE  Starters'
<1>1. \A t \in Tasks : TaskStep(t) =>
        \/ pc' = pc
        \/ \E l \in Labels \ {"start"} : pc' = [pc EXCEPT ![t] = l]
  <2> SUFFICES ASSUME NEW t \in Tasks, TaskStep(t)
               PROVE  pc' = pc \/ \E l \in Labels \ {"start"} : pc' = [pc EXCEPT ![t] = l]
    OBVIOUS
  <2> USE DEF Labels
  <2>1. CASE \/ \E n \in 1 .. MaxPages : GetKernelPages(t, n)
             \/ \E size \in Sizes : MallocLarge(t, size) \/ MallocArena(t, size)
    <3>1. PICK s, n, kind, d : MallocPages(t, s, n, kind, d)
      BY <2>1 DEF GetKernelPages, MallocLarge, MallocArena
    <3>2. pc' = [pc EXCEPT ![t] = "scan"] \/ pc' = pc
      BY <3>1 DEF MallocPages, Panic, ctlVars
    <3> QED BY <3>2
  <2>2. CASE GetOnePage(t)
    BY <2>2 DEF GetOnePage
  <2>3. CASE PallocScan(t)
    BY <2>3 DEF PallocScan, Return
  <2>4. CASE PallocSet(t)
    <3>1. pc' = [pc EXCEPT ![t] = "map"] \/ pc' = [pc EXCEPT ![t] = "tscan"] \/ pc' = pc
      BY <2>4 DEF PallocSet, Panic, ctlVars
    <3> QED BY <3>1
  <2>5. CASE TableScan(t)
    BY <2>5 DEF TableScan
  <2>6. CASE TableSet(t)
    <3>1. pc' = [pc EXCEPT ![t] = "map"] \/ pc' = pc
      BY <2>6 DEF TableSet, Panic, ctlVars
    <3> QED BY <3>1
  <2>7. CASE MapPage(t)
    <3>1. pc' = [pc EXCEPT ![t] = "scan"] \/ pc' = [pc EXCEPT ![t] = "idle"] \/ pc' = pc
      BY <2>7 DEF MapPage, Panic, ctlVars, Return
    <3> QED BY <3>1
  <2>8. CASE \E size \in Sizes : MallocBlock(t, size)
    BY <2>8 DEF MallocBlock, ctlVars
  <2>9. CASE \E b \in live[Space(t)] : FreeLarge(t, b) \/ FreeBlock(t, b)
    BY <2>9 DEF FreeLarge, FreeBlock, FreePages, Panic, ctlVars
  <2> QED BY <2>1, <2>2, <2>3, <2>4, <2>5, <2>6, <2>7, <2>8, <2>9 DEF TaskStep
<1>2. CASE UNCHANGED vars
  BY <1>2 DEF vars, ctlVars, Starters
<1>3. CASE \E t \in Tasks : TaskStep(t)
  BY <1>1, <1>3 DEF Starters
<1>4. CASE Halted
  BY <1>2, <1>4 DEF Halted
<1> QED BY <1>2, <1>3, <1>4 DEF Next

LEMMA MemInit ==
  Init => MemInv
<1> SUFFICES ASSUME Init PROVE MemInv
  OBVIOUS
<1>1. MType
  <2>1. NoReq \in Request
    BY Constants DEF NoReq, Request
  <2> QED BY <2>1 DEF Init, MType, Labels
<1>2. \A t \in Tasks : ~InCall(t)
  BY DEF Init, InCall
<1>3. ASSUME NEW s \in Spaces PROVE HeapOf(s)
  <2>1. /\ pte[s] = [v \in VirPages(s) |-> NoPage] /\ arena[s] = [v \in VirPages(s) |-> NoArena]
        /\ freeList[s] = [d \in Descs |-> <<>>] /\ live[s] = {}
    BY DEF Init
  <2>2. NoArena \in ArenaType /\ NoArena.desc = Large /\ NoPage \in Int
    BY Constants DEF NoArena, ArenaType, NoPage
  <2>3. VirPages(s) \subseteq Nat
    BY SpaceFacts
  <2>4. \A d \in Descs : freeList[s][d] = <<>> /\ Elems(freeList[s][d]) = {}
    BY <2>1 DEF Elems
  <2>5. FreeSet(freeList[s]) = {} /\ AllBlocks(freeList[s], live[s]) = {}
    BY <2>1, <2>4 DEF FreeSet, AllBlocks
  <2>6. HeapType(VirPages(s), pte[s], arena[s], freeList[s], live[s])
    BY <2>1, <2>2, <2>3 DEF HeapType
  <2>7. Listed(arena[s], freeList[s])
    BY <2>4 DEF Listed, NoDup
  <2>8. Counts(VirPages(s), arena[s], freeList[s])
    BY <2>1, <2>2 DEF Counts
  <2> QED BY <2>1, <2>5, <2>6, <2>7, <2>8 DEF HeapOf, Heap, Mapped, NoOverlap, Numbered
<1> QED BY <1>1, <1>2, <1>3 DEF MemInv, Locking, Heaps, Requests

LEMMA MemStep ==
  ASSUME MemInv, Starters, [Next]_vars
  PROVE  MemInv'
<1>1. CASE UNCHANGED vars
  BY <1>1, SameState DEF vars
<1>2. CASE Halted
  BY <1>2, SameState DEF Halted, vars
<1>3. ASSUME NEW t \in Tasks, TaskStep(t) PROVE MemInv'
  <2>1. CASE GetOnePage(t)
    BY <2>1, GetOnePageStep DEF GetOnePage, Starters
  <2>2. CASE PallocScan(t)
    BY <2>2, PallocScanStep
  <2>3. CASE PallocSet(t)
    BY <2>3, PallocSetStep
  <2>4. CASE TableScan(t)
    BY <2>4, TableScanStep
  <2>5. CASE TableSet(t)
    BY <2>5, TableSetStep
  <2>6. CASE MapPage(t)
    BY <2>6, MapPageStep
  <2>7. CASE \E n \in 1 .. MaxPages : GetKernelPages(t, n)
    BY <2>7, GetKernelPagesStep
  <2>8. CASE \E size \in Sizes :
               MallocLarge(t, size) \/ MallocArena(t, size) \/ MallocBlock(t, size)
    BY <2>8, MallocLargeStep, MallocArenaStep, MallocBlockStep
  <2>9. CASE \E b \in live[Space(t)] : FreeLarge(t, b) \/ FreeBlock(t, b)
    BY <2>9, FreeLargeStep, FreeBlockStep
  <2> QED BY <1>3, <2>1, <2>2, <2>3, <2>4, <2>5, <2>6, <2>7, <2>8, <2>9 DEF TaskStep
<1> QED BY <1>1, <1>2, <1>3 DEF Next

(* The heaps, their free lists and the allocations under way, for every    *)
(* mixture of threads and processes.                                       *)
THEOREM MemInvariance == Spec => [](MemInv /\ Starters)
<1>1. Init => MemInv /\ Starters
  BY MemInit, StartersInit
<1>2. MemInv /\ Starters /\ [Next]_vars => (MemInv /\ Starters)'
  <2> SUFFICES ASSUME MemInv, Starters, [Next]_vars PROVE MemInv' /\ Starters'
    OBVIOUS
  <2>1. pc \in [Tasks -> Labels]
    BY DEF MemInv, MType
  <2> QED BY <2>1, MemStep, StartersStep
<1> QED BY <1>1, <1>2, PTL DEF Spec

(* A list without duplicates has as many members as places.                *)
LEMMA ElemsCount ==
  ASSUME NEW S, NEW list \in Seq(S), NoDup(list)
  PROVE  Cardinality(Elems(list)) = Len(list)
<1>1. PICK n \in Nat : n = Len(list) /\ DOMAIN list = 1 .. n
  BY LenProperties
<1>2. PICK f : f = [i \in 1 .. n |-> list[i]]
  OBVIOUS
<1>3. f \in Injection(1 .. n, Elems(list))
  BY <1>1, <1>2 DEF Injection, IsInjective, NoDup, Elems
<1>4. f \in Surjection(1 .. n, Elems(list))
  BY <1>1, <1>2 DEF Surjection, Elems
<1>5. ExistsBijection(1 .. n, Elems(list))
  BY <1>3, <1>4 DEF ExistsBijection, Bijection
<1> QED BY <1>1, <1>5, FS_CountingElements

LEMMA FreeBlocksAre ==
  ASSUME NEW s \in Spaces
  PROVE  FreeBlocks(s) = FreeSet(freeList[s])
BY DEF FreeBlocks, FreeSet, Elems

LEMMA MemSound ==
  MemInv => BlocksSound /\ CntExact
<1> SUFFICES ASSUME MemInv PROVE BlocksSound /\ CntExact
  OBVIOUS
<1>1. ASSUME NEW s \in Spaces
      PROVE  Heap(VirPages(s), pte[s], arena[s], freeList[s], live[s])
  BY DEF MemInv, Heaps, HeapOf
<1>2. BlocksSound
  <2> SUFFICES ASSUME NEW s \in Spaces
               PROVE  /\ live[s] \cap FreeBlocks(s) = {}
                      /\ \A b \in live[s] : pte[s][b[1]] # NoPage
                      /\ \A d \in Descs :
                           /\ Cardinality(Elems(freeList[s][d])) = Len(freeList[s][d])
                           /\ \A i \in DOMAIN freeList[s][d] :
                                /\ pte[s][freeList[s][d][i][1]] # NoPage
                                /\ arena[s][freeList[s][d][i][1]].desc = d
    BY DEF BlocksSound, Elems
  <2>1. Heap(VirPages(s), pte[s], arena[s], freeList[s], live[s])
    BY <1>1
  <2>2. live[s] \cap FreeBlocks(s) = {}
    BY <2>1, FreeBlocksAre DEF Heap
  <2>3. \A b \in live[s] : pte[s][b[1]] # NoPage
    BY <2>1, HeapFacts DEF AllBlocks
  <2>4. ASSUME NEW d \in Descs
        PROVE  Cardinality(Elems(freeList[s][d])) = Len(freeList[s][d])
    <3>1. freeList[s][d] \in Seq(Block) /\ NoDup(freeList[s][d])
      BY <2>1, HeapFacts DEF Heap, Listed
    <3> QED BY <3>1, ElemsCount
  <2>5. ASSUME NEW d \in Descs, NEW i \in DOMAIN freeList[s][d]
        PROVE  /\ pte[s][freeList[s][d][i][1]] # NoPage
               /\ arena[s][freeList[s][d][i][1]].desc = d
    <3>1. PICK b : b = freeList[s][d][i]
      OBVIOUS
    <3>2. b \in Elems(freeList[s][d])
      BY <3>1 DEF Elems
    <3>3. b \in AllBlocks(freeList[s], live[s])
      BY <3>2 DEF AllBlocks, FreeSet
    <3>4. pte[s][b[1]] # NoPage
      BY <2>1, <3>3, HeapFacts
    <3>5. arena[s][b[1]].desc = d
      BY <2>1, <3>2 DEF Heap, Listed
    <3> QED BY <3>1, <3>4, <3>5
  <2> QED BY <2>2, <2>3, <2>4, <2>5
<1>3. CntExact
  <2> SUFFICES ASSUME NEW s \in Spaces, NEW d \in Descs, NEW v \in VirPages(s),
                      arena[s][v].desc = d
               PROVE  /\ arena[s][v].cnt = Cardinality({b \in FreeBlocks(s) : b[1] = v})
                      /\ arena[s][v].cnt < BlockPerArena(d)
    BY DEF CntExact
  <2>1. arena[s][v].desc # Large
    BY Constants
  <2>2. {b \in FreeBlocks(s) : b[1] = v} = FreeOf(freeList[s], v)
    BY FreeBlocksAre DEF FreeOf
  <2> QED BY <1>1, <2>1, <2>2 DEF Heap, Counts
<1> QED BY <1>2, <1>3

(* Mem_Malloc and sys_free keep the heap sound: no block is given to two   *)
(* callers, and every block lies in a mapped arena of its descriptor.      *)
THEOREM BlocksSoundHolds == Spec => []BlocksSound
BY MemInvariance, MemSound, PTL

(* arena->cnt counts the free blocks of the arena, and sys_free gives back *)
(* the arena whose blocks are all free.                                    *)
THEOREM CntExactHolds == Spec => []CntExact
BY MemInvariance, MemSound, PTL

-----------------------------------------------------------------------------
(* What is mapped in the kernel's space is reserved there.  A step of task *)
(* t that takes no reservation away.                                       *)
LEMMA ReservedFrame ==
  ASSUME MemInv, ReservedInv, NEW t \in Tasks, virK \subseteq virK', OnlyTask(t),
         \A v \in VirPages(Kernel) :
           pte'[Kernel][v] # NoPage => pte[Kernel][v] # NoPage \/ v \in virK',
         InCall(t)' /\ req'[t].s = Kernel => req'[t].v .. req'[t].v + req'[t].n - 1 \subseteq virK'
  PROVE  ReservedInv'
<1>1. MappedIsReserved'
  BY DEF ReservedInv, MappedIsReserved, VirPages
<1>2. ASSUME NEW u \in Tasks, InCall(u)', req'[u].s = Kernel
      PROVE  req'[u].v .. req'[u].v + req'[u].n - 1 \subseteq virK'
  <2>1. CASE u = t
    BY <1>2, <2>1
  <2>2. CASE u # t
    <3>1. req'[u] = req[u] /\ pc'[u] = pc[u]
      BY <2>2 DEF OnlyTask
    <3>2. InCall(u) /\ req[u].s = Kernel
      BY <1>2, <3>1 DEF InCall
    <3>3. req[u].v .. req[u].v + req[u].n - 1 \subseteq virK
      BY <3>2 DEF ReservedInv, ToMap
    <3> QED BY <3>1, <3>3
  <2> QED BY <2>1, <2>2
<1> QED BY <1>1, <1>2 DEF ReservedInv, ToMap

(* A step that leaves the kernel's mappings, reservations, calls alone.    *)
LEMMA ReservedSame ==
  ASSUME ReservedInv, virK' = virK, pc' = pc, req' = req, pte'[Kernel] = pte[Kernel]
  PROVE  ReservedInv'
BY DEF ReservedInv, MappedIsReserved, VirPages, ToMap, InCall

LEMMA ReservedMallocPages ==
  ASSUME MemInv, ReservedInv, NEW t \in Tasks, NEW s, NEW n, NEW kind, NEW d,
         MallocPages(t, s, n, kind, d)
  PROVE  ReservedInv'
<1>1. CASE UNCHANGED <<poolVars, heapVars, ctlVars>>
  BY <1>1, ReservedSame DEF poolVars, ctlVars
<1>2. CASE ~UNCHANGED <<poolVars, heapVars, ctlVars>>
  <2>1. PICK i :
          /\ virK' = virK \cup Reserved(i, n)
          /\ pc' = [pc EXCEPT ![t] = "scan"]
          /\ req' = [req EXCEPT ![t] = [kind |-> kind, s |-> s, desc |-> d,
                                        v0 |-> i, v |-> i, n |-> n,
                                        idx |-> 0, tidx |-> 0]]
          /\ pte' = pte
    BY <1>2 DEF MallocPages, Panic
  <2>2. PICK r : r = [kind |-> kind, s |-> s, desc |-> d, v0 |-> i, v |-> i, n |-> n,
                      idx |-> 0, tidx |-> 0]
    OBVIOUS
  <2>3. pc \in [Tasks -> Labels] /\ req \in [Tasks -> Request]
    BY DEF MemInv, MType
  <2>4. req'[t] = r /\ r.v = i /\ r.n = n /\ OnlyTask(t)
    BY <2>1, <2>2, <2>3 DEF OnlyTask
  <2>5. req'[t].v .. req'[t].v + req'[t].n - 1 \subseteq virK' /\ virK \subseteq virK'
    BY <2>1, <2>4 DEF Reserved
  <2>6. \A v \in VirPages(Kernel) :
           pte'[Kernel][v] # NoPage => pte[Kernel][v] # NoPage \/ v \in virK'
    BY <2>1
  <2> QED BY <2>4, <2>5, <2>6, ReservedFrame
<1> QED BY <1>1, <1>2

(* Within an allocation: the request keeps what it has yet to map.         *)
LEMMA ReservedInCall ==
  ASSUME MemInv, ReservedInv, NEW t \in Tasks, InCall(t), virK' = virK,
         NEW l, pc' = [pc EXCEPT ![t] = l], NEW r, req' = [req EXCEPT ![t] = r],
         l = "idle" \/ (r.s = req[t].s /\ r.v = req[t].v /\ r.n = req[t].n),
         pte'[Kernel] = pte[Kernel]
  PROVE  ReservedInv'
<1>1. pc \in [Tasks -> Labels] /\ req \in [Tasks -> Request]
  BY DEF MemInv, MType
<1>2. req'[t] = r /\ pc'[t] = l /\ OnlyTask(t)
  BY <1>1 DEF OnlyTask
<1>3. ASSUME InCall(t)', req'[t].s = Kernel
      PROVE  req'[t].v .. req'[t].v + req'[t].n - 1 \subseteq virK'
  <2>1. r.s = req[t].s /\ r.v = req[t].v /\ r.n = req[t].n
    BY <1>2, <1>3 DEF InCall
  <2>2. ToMap(t) \subseteq virK
    BY <1>2, <1>3, <2>1 DEF ReservedInv
  <2> QED BY <1>2, <2>1, <2>2 DEF ToMap
<1>4. \A v \in VirPages(Kernel) :
           pte'[Kernel][v] # NoPage => pte[Kernel][v] # NoPage \/ v \in virK'
  OBVIOUS
<1>5. virK \subseteq virK'
  OBVIOUS
<1> QED BY <1>2, <1>3, <1>4, <1>5, ReservedFrame

LEMMA ReservedMapPage ==
  ASSUME MemInv, ReservedInv, NEW t \in Tasks, MapPage(t)
  PROVE  ReservedInv'
<1>1. /\ InCall(t) /\ req \in [Tasks -> Request] /\ pc \in [Tasks -> Labels]
  BY DEF MapPage, InCall, MemInv, MType
<1>2. PICK s \in Spaces : s = req[t].s
  BY <1>1 DEF Request
<1>3. PICK v \in Int : v = req[t].v
  BY <1>1 DEF Request
<1>4. CASE pte[s][v] # NoPage
  <2>1. Panic("memory.c:199")
    BY <1>2, <1>3, <1>4 DEF MapPage
  <2> QED BY <2>1, ReservedSame DEF Panic, poolVars, ctlVars
<1>5. CASE pte[s][v] = NoPage
  <2>1. Maps(s, v, req[t].idx) /\ virK' = virK
    BY <1>2, <1>3, <1>5 DEF MapPage, Maps
  <2>2. /\ pte = [x \in Spaces |-> pte[x]] /\ pte[s] \in [VirPages(s) -> Int] /\ Kernel \in Spaces
    BY Constants DEF MemInv, MType, Heaps, HeapOf, Heap, HeapType
  <2>3. \A x \in VirPages(Kernel) :
          pte'[Kernel][x] # pte[Kernel][x] => s = Kernel /\ x = v
    BY <2>1, <2>2 DEF Maps
  <2>4. s = Kernel => ToMap(t) \subseteq virK
    BY <1>1, <1>2 DEF ReservedInv
  <2>5. req[t].n \in Int /\ req[t].n >= 1
    <3>1. PendingOf(t)
      BY <1>1 DEF MemInv, Requests
    <3> QED BY <1>1, <3>1 DEF Request, PendingOf, Pending
  <2>6. v \in ToMap(t)
    BY <1>3, <2>5 DEF ToMap
  <2>7. \A x \in VirPages(Kernel) :
          pte'[Kernel][x] # NoPage => pte[Kernel][x] # NoPage \/ x \in virK'
    BY <2>1, <2>3, <2>4, <2>6
  <2>8. virK \subseteq virK'
    BY <2>1
  <2>9. CASE req[t].n > 1
    <3>1. /\ req' = [req EXCEPT ![t].n = @ - 1, ![t].v = @ + 1]
          /\ pc' = [pc EXCEPT ![t] = "scan"]
      BY <1>2, <1>3, <1>5, <2>9 DEF MapPage
    <3>2. OnlyTask(t)
      BY <1>1, <3>1 DEF OnlyTask
    <3>3. req[t] \in Request
      BY <1>1
    <3>4. req'[t].v = v + 1 /\ req'[t].n = req[t].n - 1 /\ req'[t].s = s
      BY <1>1, <1>2, <1>3, <3>1, <3>3 DEF Request
    <3>5. (v + 1) .. (v + 1) + (req[t].n - 1) - 1 \subseteq ToMap(t)
      BY <1>3, <2>5 DEF ToMap
    <3>6. s = Kernel => req'[t].v .. req'[t].v + req'[t].n - 1 \subseteq virK'
      BY <2>1, <2>4, <3>4, <3>5
    <3> QED BY <2>7, <2>8, <3>2, <3>4, <3>6, ReservedFrame
  <2>10. CASE ~(req[t].n > 1)
    <3>1. Return(t)
      BY <1>2, <1>3, <1>5, <2>10 DEF MapPage
    <3>2. OnlyTask(t) /\ pc'[t] = "idle"
      BY <1>1, <3>1 DEF Return, OnlyTask
    <3>3. ~InCall(t)'
      BY <3>2 DEF InCall
    <3> QED BY <2>7, <2>8, <3>2, <3>3, ReservedFrame
  <2> QED BY <2>9, <2>10
<1> QED BY <1>4, <1>5

LEMMA ReservedFreePages ==
  ASSUME MemInv, ReservedInv, NEW t \in Tasks, NEW s \in Spaces, MayBegin(t, s),
         NEW v \in VirPages(s), NEW n \in Int, NEW lists, NEW inUse,
         FreePages(s, v, n, lists, inUse)
  PROVE  ReservedInv'
<1>1. CASE UNCHANGED <<poolVars, heapVars, ctlVars>>
  BY <1>1, ReservedSame DEF poolVars, ctlVars
<1>2. CASE ~UNCHANGED <<poolVars, heapVars, ctlVars>>
  <2>1. /\ UNCHANGED ctlVars /\ \A x \in Spaces : x # s => pte'[x] = pte[x]
        /\ Unmapped(pte[s], pte'[s], VirPages(s), v, n)
    BY <1>2, FreePagesFacts
  <2>2. virK' = IF s = Kernel THEN virK \ (v .. v + n - 1) ELSE virK
    BY <1>2 DEF FreePages, Panic
  <2>3. memLock' = memLock /\ pc' = pc /\ req' = req /\ Kernel \in Spaces
    BY <2>1, Constants DEF ctlVars
  <2>4. CASE s # Kernel
    BY <2>1, <2>2, <2>3, <2>4, ReservedSame
  <2>5. CASE s = Kernel
    <3>1. \A u \in Tasks : InCall(u) => req[u].s # Kernel
      <4>1. memLock[Pool(Kernel)] = NoTask
        BY <2>5 DEF MayBegin
      <4>2. \A u \in Tasks : u # NoTask
        BY Constants
      <4> QED BY <4>1, <4>2 DEF MemInv, Locking
    <3>2. \A u \in Tasks : InCall(u)' => req'[u].s # Kernel
      BY <2>3, <3>1 DEF InCall
    <3>3. ASSUME NEW w \in VirPages(Kernel), pte'[Kernel][w] # NoPage PROVE w \in virK'
      <4>1. ~(v <= w /\ w < v + n) /\ pte[Kernel][w] # NoPage
        BY <2>1, <2>5, <3>3 DEF Unmapped
      <4>2. w \in virK
        BY <4>1 DEF ReservedInv, MappedIsReserved
      <4>3. w \notin v .. v + n - 1
        BY <4>1, SpaceFacts, <2>3
      <4> QED BY <2>2, <2>5, <4>2, <4>3
    <3>4. MappedIsReserved'
      BY <3>3 DEF MappedIsReserved, VirPages
    <3> QED BY <3>2, <3>4 DEF ReservedInv
  <2> QED BY <2>4, <2>5
<1> QED BY <1>1, <1>2

LEMMA ReservedStep ==
  ASSUME MemInv, Starters, ReservedInv, [Next]_vars
  PROVE  ReservedInv'
<1>1. CASE UNCHANGED vars
  BY <1>1, ReservedSame DEF vars, poolVars, ctlVars
<1>2. CASE Halted
  BY <1>2, ReservedSame DEF Halted, vars, poolVars, ctlVars
<1>3. ASSUME NEW t \in Tasks, TaskStep(t) PROVE ReservedInv'
  <2>0. pc \in [Tasks -> Labels] /\ req \in [Tasks -> Request] /\ req[t] \in Request
    BY DEF MemInv, MType
  <2>1. CASE GetOnePage(t)
    <3>1. t \in Procs /\ t # Kernel
      BY <2>1, Constants DEF GetOnePage, Starters
    <3>2. /\ pc' = [pc EXCEPT ![t] = "scan"] /\ pte' = pte /\ virK' = virK
          /\ req' = [req EXCEPT ![t] = [kind |-> "pages", s |-> t, desc |-> Large, v0 |-> Stack,
                                        v |-> Stack, n |-> 1, idx |-> 0, tidx |-> 0]]
      BY <2>1 DEF GetOnePage
    <3>3. OnlyTask(t) /\ req'[t].s = t
      BY <2>0, <3>2 DEF OnlyTask
    <3> QED BY <3>1, <3>2, <3>3, ReservedFrame
  <2>2. CASE PallocScan(t)
    <3>1. InCall(t) /\ virK' = virK /\ pte' = pte
      BY <2>2 DEF PallocScan, InCall, poolVars
    <3>2. CASE Return(t)
      <4>1. pc' = [pc EXCEPT ![t] = "idle"] /\ req' = [req EXCEPT ![t] = NoReq]
        BY <3>2 DEF Return
      <4> QED BY <3>1, <4>1, ReservedInCall
    <3>3. CASE ~Return(t)
      <4>1. PICK i : req' = [req EXCEPT ![t].idx = i] /\ pc' = [pc EXCEPT ![t] = "set"]
        BY <2>2, <3>3 DEF PallocScan
      <4>2. PICK r : r = [req[t] EXCEPT !.idx = i]
        OBVIOUS
      <4>3. /\ r.s = req[t].s /\ r.v = req[t].v /\ r.n = req[t].n
            /\ req' = [req EXCEPT ![t] = r]
        BY <2>0, <4>1, <4>2 DEF Request
      <4> QED BY <3>1, <4>1, <4>3, ReservedInCall
    <3> QED BY <3>2, <3>3
  <2>3. CASE PallocSet(t)
    <3>1. InCall(t) /\ virK' = virK /\ pte' = pte /\ req' = req
      BY <2>3 DEF PallocSet, InCall, Panic, poolVars, ctlVars
    <3>2. pc' = pc \/ \E l \in Labels : pc' = [pc EXCEPT ![t] = l]
      BY <2>3 DEF PallocSet, Panic, ctlVars, Labels
    <3>3. CASE pc' = pc
      BY <3>1, <3>3, ReservedSame
    <3>4. ASSUME NEW l, pc' = [pc EXCEPT ![t] = l] PROVE ReservedInv'
      <4>1. PICK r : r = req[t]
        OBVIOUS
      <4>2. req' = [req EXCEPT ![t] = r] /\ r.s = req[t].s /\ r.v = req[t].v /\ r.n = req[t].n
        BY <2>0, <3>1, <4>1
      <4> QED BY <3>1, <3>4, <4>2, ReservedInCall
    <3> QED BY <3>2, <3>3, <3>4
  <2>4. CASE TableScan(t)
    <3>1. InCall(t) /\ virK' = virK /\ pte' = pte /\ pc' = [pc EXCEPT ![t] = "tset"]
      BY <2>4 DEF TableScan, InCall, poolVars
    <3>2. PICK i : req' = [req EXCEPT ![t].tidx = i]
      BY <2>4 DEF TableScan
    <3>3. PICK r : r = [req[t] EXCEPT !.tidx = i]
      OBVIOUS
    <3>4. /\ r.s = req[t].s /\ r.v = req[t].v /\ r.n = req[t].n
          /\ req' = [req EXCEPT ![t] = r]
      BY <2>0, <3>2, <3>3 DEF Request
    <3> QED BY <3>1, <3>4, ReservedInCall
  <2>5. CASE TableSet(t)
    <3>1. InCall(t) /\ virK' = virK /\ pte' = pte /\ req' = req
      BY <2>5 DEF TableSet, InCall, Panic, poolVars, ctlVars
    <3>2. pc' = pc \/ pc' = [pc EXCEPT ![t] = "map"]
      BY <2>5 DEF TableSet, Panic, ctlVars
    <3>3. CASE pc' = pc
      BY <3>1, <3>3, ReservedSame
    <3>4. CASE pc' = [pc EXCEPT ![t] = "map"]
      <4>1. PICK r : r = req[t]
        OBVIOUS
      <4>2. req' = [req EXCEPT ![t] = r] /\ r.s = req[t].s /\ r.v = req[t].v /\ r.n = req[t].n
        BY <2>0, <3>1, <4>1
      <4> QED BY <3>1, <3>4, <4>2, ReservedInCall
    <3> QED BY <3>2, <3>3, <3>4
  <2>6. CASE MapPage(t)
    BY <2>6, ReservedMapPage
  <2>7. CASE \/ \E n \in 1 .. MaxPages : GetKernelPages(t, n)
             \/ \E size \in Sizes : MallocLarge(t, size) \/ MallocArena(t, size)
    <3>1. PICK s, n, kind, d : MallocPages(t, s, n, kind, d)
      BY <2>7 DEF GetKernelPages, MallocLarge, MallocArena
    <3> QED BY <3>1, ReservedMallocPages
  <2>8. CASE \E size \in Sizes : MallocBlock(t, size)
    BY <2>8, ReservedSame DEF MallocBlock, poolVars, ctlVars
  <2>9. ASSUME NEW b \in live[Space(t)], FreeLarge(t, b) \/ FreeBlock(t, b) PROVE ReservedInv'
    <3>1. PICK s \in Spaces : s = Space(t)
      BY SpaceOf
    <3>2. Heap(VirPages(s), pte[s], arena[s], freeList[s], live[s])
      BY DEF MemInv, Heaps, HeapOf
    <3>3. b[1] \in VirPages(s) /\ arena[s][b[1]].cnt \in Int /\ 1 \in Int
      BY <2>9, <3>1, <3>2, HeapFacts DEF AllBlocks
    <3>4. MayBegin(t, s)
      BY <2>9, <3>1 DEF FreeLarge, FreeBlock
    <3>5. \/ \E n \in {arena[s][b[1]].cnt, 1} : \E lists, inUse :
               FreePages(s, b[1], n, lists, inUse)
          \/ virK' = virK /\ pte' = pte /\ pc' = pc /\ req' = req
      BY <2>9, <3>1 DEF FreeLarge, FreeBlock, poolVars, ctlVars
    <3>6. CASE virK' = virK /\ pte' = pte /\ pc' = pc /\ req' = req
      BY <3>6, ReservedSame
    <3>7. ASSUME NEW n \in {arena[s][b[1]].cnt, 1}, NEW lists, NEW inUse,
                 FreePages(s, b[1], n, lists, inUse)
          PROVE  ReservedInv'
      <4>1. n \in Int
        BY <3>3
      <4> QED BY <3>3, <3>4, <3>7, <4>1, ReservedFreePages
    <3> QED BY <3>5, <3>6, <3>7
  <2> QED BY <1>3, <2>1, <2>2, <2>3, <2>4, <2>5, <2>6, <2>7, <2>8, <2>9 DEF TaskStep
<1> QED BY <1>1, <1>2, <1>3 DEF Next

(* Mem_GetVirAddr reserves, before Mem_AddPageTable maps: a mapped page of *)
(* the kernel has its bit set in kernelVirMemPool.bitmap.                  *)
THEOREM MappedIsReservedHolds == Spec => []MappedIsReserved
<1>1. Init => ReservedInv
  BY Constants DEF Init, ReservedInv, MappedIsReserved, InCall
<1>2. MemInv /\ Starters /\ ReservedInv /\ [Next]_vars => ReservedInv'
  BY ReservedStep
<1>3. ReservedInv => MappedIsReserved
  BY DEF ReservedInv
<1> QED BY <1>1, <1>2, <1>3, MemInvariance, PTL DEF Spec

-----------------------------------------------------------------------------
(* Physical pages, with threads or processes on their own.  The pools do   *)
(* not overlap, so a page has one bit.                                     *)
LEMMA DistinctPages ==
  ASSUME NEW p \in {"kernel", "user"}, NEW q \in {"kernel", "user"},
         NEW i \in Nat, NEW j \in Nat, i < Pages(p), j < Pages(q), Start(p) + i = Start(q) + j
  PROVE  p = q /\ i = j
BY Constants DEF Pages, Start

LEMMA PoolFacts ==
  /\ \A s \in Spaces : Pool(s) \in {"kernel", "user"}
  /\ Start("kernel") = KStart /\ Start("user") = UStart
  /\ \A p \in {"kernel", "user"} : Start(p) \in Nat /\ Start(p) >= 1 /\ Pages(p) \in Nat
BY Constants DEF Pool, Start, Pages

(* Tasks that run together use one pool, and one of them at a time.        *)
LEMMA OnePool ==
  ASSUME Sided, NEW t \in side, NEW u \in side
  PROVE  t \in Tasks /\ u \in Tasks /\ Pool(Space(t)) = Pool(Space(u))
BY MemoryAssumption DEF Sided, Space, Pool, Tasks, MemoryAssumption

LEMMA Alone ==
  ASSUME MemInv, Sided, NEW t \in Tasks, InCall(t), NEW u \in Tasks, InCall(u)
  PROVE  u = t
<1>1. t \in side /\ u \in side /\ req[t].s = Space(t) /\ req[u].s = Space(u)
  BY DEF Sided
<1>2. memLock[Pool(Space(t))] = t /\ memLock[Pool(Space(u))] = u
  BY <1>1 DEF MemInv, Locking
<1> QED BY <1>1, <1>2, OnePool

LEMMA NobodyIn ==
  ASSUME MemInv, Sided, NEW t \in side, memLock[Pool(Space(t))] = NoTask
  PROVE  \A u \in Tasks : ~InCall(u)
<1> SUFFICES ASSUME NEW u \in Tasks, InCall(u) PROVE FALSE
  OBVIOUS
<1>1. u \in side /\ req[u].s = Space(u)
  BY DEF Sided
<1>2. memLock[Pool(Space(u))] = u
  BY <1>1 DEF MemInv, Locking
<1>3. u # NoTask
  BY Constants
<1> QED BY <1>1, <1>2, <1>3, OnePool

(* An allocation is for the task's own space.                              *)
LEMMA SidedStep ==
  ASSUME MemInv', Sided, NEW t \in side, OnlyTask(t), side' = side,
         side = Procs =>
           \A u \in Procs : pc'[u] # "idle" => req'[u].s # Kernel \/ pc'[u] = "start"
  PROVE  Sided'
<1> SUFFICES ASSUME NEW u \in Tasks, InCall(u)'
             PROVE  u \in side /\ req'[u].s = Space(u)
  BY DEF Sided, Space
<1>1. u \in side
  <2>1. CASE u = t
    BY <2>1
  <2>2. CASE u # t
    <3>1. InCall(u)
      BY <2>2 DEF OnlyTask, InCall
    <3> QED BY <3>1 DEF Sided
  <2> QED BY <2>1, <2>2
<1>2. req'[u].s \in {Kernel, u} /\ req'[u].s \in Spaces
  BY DEF MemInv, Locking, MType, Request
<1>3. CASE side = Procs
  <2>1. req'[u].s # Kernel
    BY <1>1, <1>3 DEF InCall
  <2> QED BY <1>1, <1>2, <1>3, <2>1 DEF Space
<1>4. CASE side = KThreads
  <2>1. u \notin Procs /\ u \notin Spaces
    BY <1>1, <1>4, MemoryAssumption DEF MemoryAssumption, Spaces, Tasks
  <2> QED BY <1>1, <1>2, <2>1 DEF Space
<1> QED BY <1>3, <1>4 DEF Sided

(* What a step of task t has to show: it is in its allocation, or nobody   *)
(* is in one.                                                              *)
LEMMA PageFrame ==
  ASSUME MemInv, PageInv, NEW t \in Tasks, OnlyTask(t), Sided', Sane',
         InCall(t) \/ \A u \in Tasks : ~InCall(u),
         InCall(t)' => Found(t)'
  PROVE  PageInv'
<1>1. ASSUME NEW u \in Tasks, InCall(u)' PROVE u = t
  <2> SUFFICES ASSUME u # t PROVE FALSE
    OBVIOUS
  <2>1. InCall(u)
    BY <1>1 DEF OnlyTask, InCall
  <2> QED BY <2>1, Alone DEF PageInv
<1>2. \A u \in Tasks : InCall(u)' => Found(u)'
  BY <1>1
<1> QED BY <1>2 DEF PageInv

LEMMA SaneSame ==
  ASSUME Sane, phys' = phys, pte' = pte, tables' = tables
  PROVE  Sane'
<1>1. PoolType'
  BY DEF Sane, PoolType, Pages
<1>2. AllTaken'
  BY DEF Sane, AllTaken, VirPages, Start, Pool
<1>3. AllOnce'
  BY DEF Sane, AllOnce, VirPages
<1> QED BY <1>1, <1>2, <1>3 DEF Sane

LEMMA PteInt ==
  ASSUME MemInv, NEW s \in Spaces, NEW v \in VirPages(s)
  PROVE  pte[s][v] \in Int
BY DEF MemInv, Heaps, HeapOf, Heap, HeapType

(* A page whose bit is clear is in no place.                               *)
LEMMA ClearBit ==
  ASSUME MemInv, Sane, NEW pool \in {"kernel", "user"}, NEW i \in Nat, i < Pages(pool),
         i \notin phys[pool]
  PROVE  Nowhere(Start(pool) + i)
<1>1. PICK page : page = Start(pool) + i
  OBVIOUS
<1>2. page \in Nat /\ page >= 1
  BY <1>1, PoolFacts
<1>3. \A q \in {"kernel", "user"} : \A j \in phys[q] : j \in Nat /\ j < Pages(q)
  BY DEF Sane, PoolType
<1>4. ASSUME NEW s \in Spaces, NEW v \in VirPages(s) PROVE pte[s][v] # page
  <2> SUFFICES ASSUME pte[s][v] = page PROVE FALSE
    OBVIOUS
  <2>1. Pool(s) \in {"kernel", "user"} /\ Start(Pool(s)) \in Nat
    BY PoolFacts
  <2>2. PICK j : j = page - Start(Pool(s))
    OBVIOUS
  <2>3. pte[s][v] # NoPage
    BY <1>2 DEF NoPage
  <2>4. j \in phys[Pool(s)]
    BY <2>2, <2>3 DEF Sane, AllTaken
  <2>5. j \in Nat /\ j < Pages(Pool(s))
    BY <1>3, <2>1, <2>4
  <2>6. Start(pool) + i = Start(Pool(s)) + j
    BY <1>1, <1>2, <2>1, <2>2
  <2>7. pool = Pool(s) /\ i = j
    BY <2>1, <2>5, <2>6, DistinctPages
  <2> QED BY <2>4, <2>7
<1>5. ASSUME NEW p \in Procs, NEW r \in Regions PROVE tables[p][r] # page
  <2> SUFFICES ASSUME tables[p][r] = page PROVE FALSE
    OBVIOUS
  <2>1. PICK j : j = page - KStart
    OBVIOUS
  <2>2. tables[p][r] \notin {NoPage, 0}
    BY <1>2 DEF NoPage
  <2>3. j \in phys["kernel"]
    BY <2>1, <2>2 DEF Sane, AllTaken
  <2>4. j \in Nat /\ j < Pages("kernel")
    BY <1>3, <2>3
  <2>5. Start(pool) + i = Start("kernel") + j
    BY <1>1, <1>2, <2>1, PoolFacts
  <2>6. pool = "kernel" /\ i = j
    BY <2>4, <2>5, DistinctPages
  <2> QED BY <2>3, <2>6
<1> QED BY <1>1, <1>4, <1>5 DEF Nowhere

(* BitmapSet.                                                              *)
LEMMA SetBit ==
  ASSUME Sane, NEW pool \in {"kernel", "user"}, NEW i \in Nat, i < Pages(pool),
         phys' = BitmapSet(pool, i)
  PROVE  /\ PoolType /\ phys' \in [{"kernel", "user"} -> SUBSET Nat]
         /\ \A p \in {"kernel", "user"} : \A j \in phys'[p] : j < Pages(p)
         /\ \A p \in {"kernel", "user"} : phys[p] \subseteq phys'[p]
         /\ i \in phys'[pool]
<1>1. phys \in [{"kernel", "user"} -> SUBSET Nat] /\ PoolType
  BY DEF Sane, PoolType
<1>2. \A p \in {"kernel", "user"} : phys'[p] = IF p = pool THEN phys[p] \cup {i} ELSE phys[p]
  BY <1>1 DEF BitmapSet
<1>3. phys' \in [{"kernel", "user"} -> SUBSET Nat]
  BY <1>1 DEF BitmapSet
<1>4. \A p \in {"kernel", "user"} : \A j \in phys'[p] : j < Pages(p)
  BY <1>1, <1>2 DEF PoolType
<1> QED BY <1>1, <1>2, <1>3, <1>4

LEMMA SaneSet ==
  ASSUME Sane, NEW pool \in {"kernel", "user"}, NEW i \in Nat, i < Pages(pool),
         phys' = BitmapSet(pool, i), pte' = pte, tables' = tables
  PROVE  Sane'
<1>1. /\ phys' \in [{"kernel", "user"} -> SUBSET Nat]
      /\ \A p \in {"kernel", "user"} : \A j \in phys'[p] : j < Pages(p)
      /\ \A p \in {"kernel", "user"} : phys[p] \subseteq phys'[p]
  BY SetBit
<1>2. PoolType'
  BY <1>1 DEF Sane, PoolType, Pages
<1>3. AllTaken'
  <2>1. ASSUME NEW s \in Spaces, NEW v \in VirPages(s), pte[s][v] # NoPage
        PROVE  pte[s][v] - Start(Pool(s)) \in phys'[Pool(s)]
    BY <1>1, <2>1, PoolFacts DEF Sane, AllTaken
  <2>2. ASSUME NEW p \in Procs, NEW r \in Regions
        PROVE  tables[p][r] \in {NoPage, 0} \/ tables[p][r] - KStart \in phys'["kernel"]
    BY <1>1 DEF Sane, AllTaken
  <2> QED BY <2>1, <2>2 DEF AllTaken, VirPages, Start, Pool
<1>4. AllOnce'
  BY DEF Sane, AllOnce, VirPages
<1> QED BY <1>2, <1>3, <1>4 DEF Sane

(* Mem_AddPageTable maps the page it has been given.                       *)
LEMMA SaneMap ==
  ASSUME MemInv, Sane, NEW s \in Spaces, NEW v \in VirPages(s), NEW i \in Nat,
         i \in phys[Pool(s)], Nowhere(Start(Pool(s)) + i), Maps(s, v, i),
         phys' = phys, tables' = tables
  PROVE  Sane'
<1>1. PICK page : page = Start(Pool(s)) + i
  OBVIOUS
<1>2. page \in Nat /\ page # NoPage /\ page - Start(Pool(s)) = i
  BY <1>1, PoolFacts DEF NoPage
<1>3. pte = [x \in Spaces |-> pte[x]] /\ pte[s] \in [VirPages(s) -> Int]
  BY DEF MemInv, MType, Heaps, HeapOf, Heap, HeapType
<1>4. pte' = [x \in Spaces |-> IF x = s THEN [pte[s] EXCEPT ![v] = page] ELSE pte[x]]
  BY <1>1, <1>3 DEF Maps
<1>5. /\ pte'[s][v] = page
      /\ \A x \in Spaces : \A w \in VirPages(x) : ~(x = s /\ w = v) => pte'[x][w] = pte[x][w]
  BY <1>3, <1>4
<1>6. /\ \A x \in Spaces : \A w \in VirPages(x) : pte[x][w] # page
      /\ \A p \in Procs : \A r \in Regions : tables[p][r] # page
  BY <1>1 DEF Nowhere
<1>7. PoolType'
  BY DEF Sane, PoolType, Pages
<1>8. AllTaken'
  <2>1. ASSUME NEW x \in Spaces, NEW w \in VirPages(x), pte'[x][w] # NoPage
        PROVE  pte'[x][w] - Start(Pool(x)) \in phys[Pool(x)]
    <3>1. CASE x = s /\ w = v
      BY <1>2, <1>5, <3>1
    <3>2. CASE ~(x = s /\ w = v)
      BY <1>5, <2>1, <3>2 DEF Sane, AllTaken
    <3> QED BY <3>1, <3>2
  <2> QED BY <2>1 DEF Sane, AllTaken, VirPages, Start, Pool
<1>9. AllOnce'
  <2>1. ASSUME NEW x \in Spaces, NEW y \in Spaces, NEW w \in VirPages(x), NEW z \in VirPages(y),
               pte'[x][w] # NoPage, pte'[x][w] = pte'[y][z]
        PROVE  x = y /\ w = z
    <3>1. CASE (x = s /\ w = v) /\ (y = s /\ z = v)
      BY <3>1
    <3>2. CASE (x = s /\ w = v) /\ ~(y = s /\ z = v)
      BY <1>5, <1>6, <2>1, <3>2
    <3>3. CASE ~(x = s /\ w = v) /\ (y = s /\ z = v)
      BY <1>5, <1>6, <2>1, <3>3
    <3>4. CASE ~(x = s /\ w = v) /\ ~(y = s /\ z = v)
      <4>1. pte[x][w] # NoPage /\ pte[x][w] = pte[y][z]
        BY <1>5, <2>1, <3>4
      <4> QED BY <4>1 DEF Sane, AllOnce
    <3> QED BY <3>1, <3>2, <3>3, <3>4
  <2>2. ASSUME NEW x \in Spaces, NEW p \in Procs, NEW w \in VirPages(x), NEW r \in Regions,
               pte'[x][w] # NoPage
        PROVE  pte'[x][w] # tables[p][r]
    <3>1. CASE x = s /\ w = v
      BY <1>5, <1>6, <3>1
    <3>2. CASE ~(x = s /\ w = v)
      BY <1>5, <2>2, <3>2 DEF Sane, AllOnce
    <3> QED BY <3>1, <3>2
  <2> QED BY <2>1, <2>2 DEF Sane, AllOnce, VirPages
<1> QED BY <1>7, <1>8, <1>9 DEF Sane

(* Mem_AddPageTable takes a page table from the kernel's pool, or has got  *)
(* the page at address NULL for one.                                       *)
LEMMA SaneTable ==
  ASSUME MemInv, Sane, NEW s \in Procs, NEW z \in Regions, NEW page \in Nat,
         page = 0 \/ Nowhere(page), page = 0 \/ page - KStart \in phys'["kernel"],
         phys' \in [{"kernel", "user"} -> SUBSET Nat],
         \A p \in {"kernel", "user"} : \A j \in phys'[p] : j < Pages(p),
         \A p \in {"kernel", "user"} : phys[p] \subseteq phys'[p],
         tables' = [tables EXCEPT ![s][z] = page], pte' = pte
  PROVE  Sane'
<1>1. tables \in [Procs -> [Regions -> Int]]
  BY DEF Sane, PoolType
<1>2. /\ tables' \in [Procs -> [Regions -> Int]] /\ tables'[s][z] = page
      /\ \A p \in Procs : \A r \in Regions : ~(p = s /\ r = z) => tables'[p][r] = tables[p][r]
  BY <1>1
<1>3. PoolType'
  BY <1>2 DEF PoolType, Pages
<1>4. AllTaken'
  <2>1. ASSUME NEW x \in Spaces, NEW w \in VirPages(x), pte[x][w] # NoPage
        PROVE  pte[x][w] - Start(Pool(x)) \in phys'[Pool(x)]
    BY <2>1, PoolFacts DEF Sane, AllTaken
  <2>2. ASSUME NEW p \in Procs, NEW r \in Regions
        PROVE  tables'[p][r] \in {NoPage, 0} \/ tables'[p][r] - KStart \in phys'["kernel"]
    <3>1. CASE p = s /\ r = z
      BY <1>2, <3>1
    <3>2. CASE ~(p = s /\ r = z)
      BY <1>2, <3>2 DEF Sane, AllTaken
    <3> QED BY <3>1, <3>2
  <2> QED BY <2>1, <2>2 DEF AllTaken, VirPages, Start, Pool
<1>5. page # 0 => /\ \A x \in Spaces : \A w \in VirPages(x) : pte[x][w] # page
                  /\ \A p \in Procs : \A r \in Regions : tables[p][r] # page
  BY DEF Nowhere
<1>6. ASSUME NEW x \in Spaces, NEW w \in VirPages(x), pte[x][w] # NoPage PROVE pte[x][w] # 0
  <2>1. pte[x][w] - Start(Pool(x)) \in phys[Pool(x)] /\ pte[x][w] \in Int
    BY <1>6, PteInt DEF Sane, AllTaken
  <2>2. Pool(x) \in {"kernel", "user"} /\ Start(Pool(x)) \in Nat /\ Start(Pool(x)) >= 1
    BY PoolFacts
  <2>3. pte[x][w] - Start(Pool(x)) \in Nat
    BY <2>1, <2>2 DEF Sane, PoolType
  <2> QED BY <2>1, <2>2, <2>3
<1>7. AllOnce'
  <2>1. ASSUME NEW p \in Procs, NEW q \in Procs, NEW r \in Regions, NEW y \in Regions,
               tables'[p][r] \notin {NoPage, 0}, tables'[p][r] = tables'[q][y]
        PROVE  p = q /\ r = y
    <3>1. CASE (p = s /\ r = z) /\ (q = s /\ y = z)
      BY <3>1
    <3>2. CASE (p = s /\ r = z) /\ ~(q = s /\ y = z)
      BY <1>2, <1>5, <2>1, <3>2
    <3>3. CASE ~(p = s /\ r = z) /\ (q = s /\ y = z)
      BY <1>2, <1>5, <2>1, <3>3
    <3>4. CASE ~(p = s /\ r = z) /\ ~(q = s /\ y = z)
      <4>1. tables[p][r] \notin {NoPage, 0} /\ tables[p][r] = tables[q][y]
        BY <1>2, <2>1, <3>4
      <4> QED BY <4>1 DEF Sane, AllOnce
    <3> QED BY <3>1, <3>2, <3>3, <3>4
  <2>2. ASSUME NEW x \in Spaces, NEW p \in Procs, NEW w \in VirPages(x), NEW r \in Regions,
               pte[x][w] # NoPage
        PROVE  pte[x][w] # tables'[p][r]
    <3>1. CASE p = s /\ r = z
      BY <1>2, <1>5, <1>6, <2>2, <3>1
    <3>2. CASE ~(p = s /\ r = z)
      BY <1>2, <2>2, <3>2 DEF Sane, AllOnce
    <3> QED BY <3>1, <3>2
  <2> QED BY <2>1, <2>2 DEF Sane, AllOnce, VirPages
<1> QED BY <1>3, <1>4, <1>7 DEF Sane

(* Mem_FreePhyAddr clears the bits of the pages it is given, and of no     *)
(* page that is still in a place.                                          *)
LEMMA SaneFree ==
  ASSUME MemInv, Sane, NEW s \in Spaces, NEW v \in VirPages(s), NEW n \in Int,
         v .. v + n - 1 \subseteq VirPages(s),
         NEW lists, NEW inUse, FreePages(s, v, n, lists, inUse)
  PROVE  Sane'
<1>1. CASE UNCHANGED <<poolVars, heapVars, ctlVars>>
  BY <1>1, SaneSame DEF poolVars
<1>2. CASE ~UNCHANGED <<poolVars, heapVars, ctlVars>>
  <2>1. PICK vs : vs = v .. v + n - 1
    OBVIOUS
  <2>2. PICK pages : pages = {pte[s][w] : w \in vs}
    OBVIOUS
  <2>3. /\ phys' = [p \in DOMAIN phys |->
                      phys[p] \ {BitOf(page) : page \in {q \in pages : PoolOf(q) = p}}]
        /\ tables' = tables
    BY <1>2, <2>1, <2>2 DEF FreePages, Panic
  <2>4. /\ \A x \in Spaces : x # s => pte'[x] = pte[x]
        /\ Unmapped(pte[s], pte'[s], VirPages(s), v, n)
    BY <1>2, FreePagesFacts
  <2>5. VirPages(s) \subseteq Nat
    BY SpaceFacts
  <2>6. ASSUME NEW x \in Spaces, NEW w \in VirPages(x), pte'[x][w] # NoPage
        PROVE  pte'[x][w] = pte[x][w] /\ ~(x = s /\ w \in vs)
    <3>1. CASE x # s
      BY <2>4, <3>1
    <3>2. CASE x = s
      <4>1. ~(v <= w /\ w < v + n) /\ pte'[x][w] = pte[x][w]
        BY <2>4, <2>6, <3>2 DEF Unmapped
      <4> QED BY <2>1, <2>5, <3>2, <4>1
    <3> QED BY <3>1, <3>2
  <2>7. phys \in [{"kernel", "user"} -> SUBSET Nat]
    BY DEF Sane, PoolType
  <2>8. /\ phys' \in [{"kernel", "user"} -> SUBSET Nat]
        /\ \A p \in {"kernel", "user"} : phys'[p] \subseteq phys[p]
    BY <2>3, <2>7
  <2>9. PoolType'
    BY <2>3, <2>8 DEF Sane, PoolType, Pages
  <2>10. ASSUME NEW p \in {"kernel", "user"}, NEW page \in Int, page # NoPage,
                page - Start(p) \in phys[p], page - Start(p) \notin phys'[p]
         PROVE  \E w \in vs : pte[s][w] = page
    <3>1. page - Start(p) \in {BitOf(q) : q \in {q \in pages : PoolOf(q) = p}}
      BY <2>3, <2>7, <2>10
    <3>2. PICK w \in vs : page - Start(p) = BitOf(pte[s][w]) /\ PoolOf(pte[s][w]) = p
      BY <2>2, <3>1
    <3>3. pte[s][w] \in Int /\ Start(p) \in Nat
      BY <2>1, PteInt, PoolFacts
    <3>4. page - Start(p) = pte[s][w] - Start(p)
      BY <3>2 DEF BitOf
    <3> QED BY <3>3, <3>4
  <2>11. AllTaken'
    <3>1. ASSUME NEW x \in Spaces, NEW w \in VirPages(x), pte'[x][w] # NoPage
          PROVE  pte'[x][w] - Start(Pool(x)) \in phys'[Pool(x)]
      <4> SUFFICES ASSUME pte[x][w] - Start(Pool(x)) \notin phys'[Pool(x)] PROVE FALSE
        BY <2>6, <3>1
      <4>1. pte[x][w] # NoPage /\ ~(x = s /\ w \in vs) /\ pte[x][w] \in Int
        BY <2>6, <3>1, PteInt
      <4>2. pte[x][w] - Start(Pool(x)) \in phys[Pool(x)] /\ Pool(x) \in {"kernel", "user"}
        BY <4>1, PoolFacts DEF Sane, AllTaken
      <4>3. PICK y \in vs : pte[s][y] = pte[x][w]
        BY <2>10, <4>1, <4>2
      <4>4. x = s /\ w = y
        BY <2>1, <4>1, <4>3 DEF Sane, AllOnce
      <4> QED BY <4>1, <4>4
    <3>2. ASSUME NEW p \in Procs, NEW r \in Regions
          PROVE  tables[p][r] \in {NoPage, 0} \/ tables[p][r] - KStart \in phys'["kernel"]
      <4> SUFFICES ASSUME tables[p][r] \notin {NoPage, 0},
                          tables[p][r] - KStart \notin phys'["kernel"]
                   PROVE  FALSE
        OBVIOUS
      <4>1. /\ tables[p][r] - Start("kernel") \in phys["kernel"] /\ tables[p][r] \in Int
            /\ tables[p][r] # NoPage /\ tables[p][r] - Start("kernel") \notin phys'["kernel"]
        BY PoolFacts DEF Sane, AllTaken, PoolType
      <4>2. PICK y \in vs : pte[s][y] = tables[p][r]
        BY <2>10, <4>1
      <4> QED BY <2>1, <4>1, <4>2 DEF Sane, AllOnce
    <3> QED BY <2>3, <3>1, <3>2 DEF AllTaken, VirPages, Start, Pool
  <2>12. AllOnce'
    <3>1. ASSUME NEW x \in Spaces, NEW y \in Spaces, NEW w \in VirPages(x), NEW z \in VirPages(y),
                 pte'[x][w] # NoPage, pte'[x][w] = pte'[y][z]
          PROVE  x = y /\ w = z
      <4>1. pte[x][w] # NoPage /\ pte[x][w] = pte[y][z]
        BY <2>6, <3>1
      <4> QED BY <4>1 DEF Sane, AllOnce
    <3>2. ASSUME NEW x \in Spaces, NEW p \in Procs, NEW w \in VirPages(x), NEW r \in Regions,
                 pte'[x][w] # NoPage
          PROVE  pte'[x][w] # tables[p][r]
      BY <2>6, <3>2 DEF Sane, AllOnce
    <3> QED BY <2>3, <3>1, <3>2 DEF Sane, AllOnce, VirPages
  <2> QED BY <2>9, <2>11, <2>12 DEF Sane
<1> QED BY <1>1, <1>2

(* A step of TaskStep is a step of its task.                               *)
LEMMA StepOnly ==
  ASSUME MemInv, NEW t \in Tasks, TaskStep(t)
  PROVE  OnlyTask(t)
<1>1. pc \in [Tasks -> Labels] /\ req \in [Tasks -> Request]
  BY DEF MemInv, MType
<1>2. CASE pc' = pc /\ req' = req
  BY <1>2 DEF OnlyTask
<1>3. CASE \/ \E n \in 1 .. MaxPages : GetKernelPages(t, n)
           \/ \E size \in Sizes : MallocLarge(t, size) \/ MallocArena(t, size)
  <2>1. PICK s, n, kind, d : MallocPages(t, s, n, kind, d)
    BY <1>3 DEF GetKernelPages, MallocLarge, MallocArena
  <2>2. \/ pc' = pc /\ req' = req
        \/ \E r : pc' = [pc EXCEPT ![t] = "scan"] /\ req' = [req EXCEPT ![t] = r]
    BY <2>1 DEF MallocPages, Panic, ctlVars
  <2> QED BY <1>1, <2>2 DEF OnlyTask
<1>4. CASE GetOnePage(t)
  BY <1>1, <1>4 DEF GetOnePage, OnlyTask
<1>5. CASE PallocScan(t)
  BY <1>1, <1>5 DEF PallocScan, Return, OnlyTask
<1>6. CASE PallocSet(t)
  BY <1>1, <1>6 DEF PallocSet, Panic, ctlVars, OnlyTask
<1>7. CASE TableScan(t)
  BY <1>1, <1>7 DEF TableScan, OnlyTask
<1>8. CASE TableSet(t)
  BY <1>1, <1>8 DEF TableSet, Panic, ctlVars, OnlyTask
<1>9. CASE MapPage(t)
  <2>1. \/ pc' = pc /\ req' = req
        \/ \E l, r : pc' = [pc EXCEPT ![t] = l] /\ req' = [req EXCEPT ![t] = r]
        \/ /\ pc' = [pc EXCEPT ![t] = "scan"]
           /\ req' = [req EXCEPT ![t].n = @ - 1, ![t].v = @ + 1]
    BY <1>9 DEF MapPage, Panic, ctlVars, Return
  <2> QED BY <1>1, <2>1 DEF OnlyTask
<1>10. CASE \E size \in Sizes : MallocBlock(t, size)
  BY <1>2, <1>10 DEF MallocBlock, ctlVars
<1>11. CASE \E b \in live[Space(t)] : FreeLarge(t, b) \/ FreeBlock(t, b)
  BY <1>2, <1>11 DEF FreeLarge, FreeBlock, FreePages, Panic, ctlVars
<1> QED BY <1>3, <1>4, <1>5, <1>6, <1>7, <1>8, <1>9, <1>10, <1>11 DEF TaskStep

(* Nothing is found yet when the search for a page starts.                 *)
LEMMA FoundScan ==
  ASSUME NEW t, pc'[t] = "scan" \/ pc'[t] = "idle"
  PROVE  Found(t)'
BY DEF Found

LEMMA PageSame ==
  ASSUME PageInv, phys' = phys, pte' = pte, tables' = tables, pc' = pc, req' = req, side' = side
  PROVE  PageInv'
<1>1. Sane'
  BY SaneSame DEF PageInv
<1>2. Sided'
  BY DEF PageInv, Sided, InCall, Space
<1>3. \A t \in Tasks : InCall(t)' => Found(t)'
  BY DEF PageInv, InCall, Found, Nowhere, VirPages, Pool, Start
<1> QED BY <1>1, <1>2, <1>3 DEF PageInv

(* BitmapScan finds a clear bit.                                           *)
LEMMA PhysScanClear ==
  ASSUME NEW pool \in {"kernel", "user"}, PhysScan(pool) # -1
  PROVE  PhysScan(pool) \in Nat /\ PhysScan(pool) \notin phys[pool]
<1>1. KPages \in Nat /\ UPages \in Nat /\ 1 \in Nat /\ 0 \in 0 .. 1 - 1
  BY Constants
<1>2. ASSUME NEW used, NEW bits \in Nat, Scan(used, bits, 1) # -1
      PROVE  Scan(used, bits, 1) \in Nat /\ Scan(used, bits, 1) \notin used
  <2>1. Scan(used, bits, 1) \in Nat /\ Scan(used, bits, 1) + 0 \notin used
    BY <1>1, <1>2, ScanFacts
  <2>2. Scan(used, bits, 1) + 0 = Scan(used, bits, 1)
    BY <2>1
  <2> QED BY <2>1, <2>2
<1>3. CASE pool = "kernel"
  <2>1. PICK used : used = phys["kernel"] \cup Behind(KPages, phys["user"])
    OBVIOUS
  <2>2. PhysScan(pool) = Scan(used, KPages, 1)
    BY <1>3, <2>1 DEF PhysScan
  <2>3. Scan(used, KPages, 1) \in Nat /\ Scan(used, KPages, 1) \notin used
    BY <1>1, <1>2, <2>2
  <2> QED BY <1>3, <2>1, <2>2, <2>3
<1>4. CASE pool = "user"
  <2>1. PICK used : used = phys["user"] \cup Behind(UPages, virK)
    OBVIOUS
  <2>2. PhysScan(pool) = Scan(used, UPages, 1)
    BY <1>4, <2>1 DEF PhysScan
  <2>3. Scan(used, UPages, 1) \in Nat /\ Scan(used, UPages, 1) \notin used
    BY <1>1, <1>2, <2>2
  <2> QED BY <1>4, <2>1, <2>2, <2>3
<1> QED BY <1>3, <1>4

LEMMA PagePallocScan ==
  ASSUME MemInv, PageInv, NEW t \in Tasks, PallocScan(t), OnlyTask(t), Sided'
  PROVE  PageInv'
<1>1. InCall(t) /\ pc \in [Tasks -> Labels] /\ req \in [Tasks -> Request] /\ req[t] \in Request
  BY DEF PallocScan, InCall, MemInv, MType
<1>2. phys' = phys /\ pte' = pte /\ tables' = tables
  BY DEF PallocScan, poolVars
<1>3. Sane'
  BY <1>2, SaneSame DEF PageInv
<1>4. PICK pool \in {"kernel", "user"} : pool = Pool(req[t].s)
  BY DEF Pool
<1>5. CASE PhysScan(pool) = -1
  <2>1. pc'[t] = "idle"
    BY <1>1, <1>4, <1>5 DEF PallocScan, Return
  <2>2. Found(t)'
    BY <2>1, FoundScan
  <2> QED BY <1>1, <1>3, <2>2, PageFrame
<1>6. CASE PhysScan(pool) # -1
  <2>1. PICK i : i = PhysScan(pool)
    OBVIOUS
  <2>2. i \in Nat /\ i \notin phys[pool]
    BY <1>6, <2>1, PhysScanClear
  <2>3. req' = [req EXCEPT ![t].idx = i] /\ pc' = [pc EXCEPT ![t] = "set"]
    BY <1>4, <1>6, <2>1 DEF PallocScan
  <2>4. pc'[t] = "set" /\ req'[t].idx = i /\ req'[t].s = req[t].s
    BY <1>1, <2>3 DEF Request
  <2>5. Pool(req'[t].s) = pool
    BY <1>4, <2>4
  <2>6. Found(t)'
    BY <1>2, <2>2, <2>4, <2>5 DEF Found, Pool
  <2> QED BY <1>1, <1>3, <2>6, PageFrame
<1> QED BY <1>5, <1>6

LEMMA PagePallocSet ==
  ASSUME MemInv, PageInv, NEW t \in Tasks, PallocSet(t), OnlyTask(t), Sided', side' = side
  PROVE  PageInv'
<1>1. InCall(t) /\ pc \in [Tasks -> Labels] /\ req[t] \in Request /\ pc[t] = "set"
  BY DEF PallocSet, InCall, MemInv, MType
<1>2. PICK s \in Spaces : s = req[t].s
  BY <1>1 DEF Request
<1>3. PICK i \in Nat : i = req[t].idx
  BY <1>1 DEF Request
<1>4. PICK pool \in {"kernel", "user"} : pool = Pool(s)
  BY DEF Pool
<1>5. CASE ~InMap(pool, i)
  <2>1. Panic("memory.c:182")
    BY <1>2, <1>3, <1>4, <1>5 DEF PallocSet
  <2> QED BY <2>1, PageSame DEF Panic, poolVars, ctlVars
<1>6. CASE InMap(pool, i)
  <2>1. /\ phys' = BitmapSet(pool, i) /\ pte' = pte /\ tables' = tables /\ req' = req
        /\ pc' = [pc EXCEPT ![t] = IF s = Kernel \/ tables[s][Region(req[t].v)] # NoPage
                                   THEN "map" ELSE "tscan"]
    BY <1>2, <1>3, <1>4, <1>6 DEF PallocSet
  <2>2. i < Pages(pool) /\ Sane /\ i \notin phys[pool]
    <3>1. Found(t)
      BY <1>1 DEF PageInv
    <3> QED BY <1>1, <1>2, <1>3, <1>4, <1>6, <3>1 DEF PageInv, Found, InMap
  <2>3. Nowhere(Start(pool) + i)
    BY <2>2, ClearBit
  <2>4. Sane' /\ i \in phys'[pool]
    BY <2>1, <2>2, SaneSet, SetBit
  <2>5. Nowhere(Start(pool) + i)'
    BY <2>1, <2>3 DEF Nowhere, VirPages, Start
  <2>6. pc'[t] = "map" \/ (pc'[t] = "tscan" /\ s # Kernel)
    BY <1>1, <2>1
  <2>7. s # Kernel => s \in Procs
    BY SpaceFacts
  <2>8. req'[t].idx = i /\ req'[t].s = s /\ Pool(req'[t].s) = pool
    BY <1>2, <1>3, <1>4, <2>1
  <2>9. Found(t)'
    BY <2>4, <2>5, <2>6, <2>7, <2>8 DEF Found, Pool, Start
  <2> QED BY <1>1, <2>4, <2>9, PageFrame
<1> QED BY <1>5, <1>6

LEMMA PageTableScan ==
  ASSUME MemInv, PageInv, NEW t \in Tasks, TableScan(t), OnlyTask(t), Sided'
  PROVE  PageInv'
<1>1. InCall(t) /\ pc \in [Tasks -> Labels] /\ req[t] \in Request /\ pc[t] = "tscan"
      /\ req \in [Tasks -> Request]
  BY DEF TableScan, InCall, MemInv, MType
<1>2. phys' = phys /\ pte' = pte /\ tables' = tables
  BY DEF TableScan, poolVars
<1>3. PICK i : i = PhysScan("kernel")
  OBVIOUS
<1>4. i \in (Nat \cup {-1}) \ phys["kernel"]
  <2>1. CASE i = -1
    <3>1. -1 \notin phys["kernel"]
      BY DEF PageInv, Sane, PoolType
    <3> QED BY <2>1, <3>1
  <2>2. CASE i # -1
    BY <1>3, <2>2, PhysScanClear
  <2> QED BY <2>1, <2>2
<1>5. req' = [req EXCEPT ![t].tidx = i] /\ pc' = [pc EXCEPT ![t] = "tset"]
  BY <1>3 DEF TableScan
<1>6. /\ pc'[t] = "tset" /\ req'[t].tidx = i /\ req'[t].s = req[t].s /\ req'[t].idx = req[t].idx
  BY <1>1, <1>5 DEF Request
<1>7. Sane'
  BY <1>2, SaneSame DEF PageInv
<1>8. Found(t)
  BY <1>1 DEF PageInv
<1>9. /\ req[t].s \in Procs /\ req[t].idx \in phys[Pool(req[t].s)]
      /\ Nowhere(Start(Pool(req[t].s)) + req[t].idx)
  BY <1>1, <1>8 DEF Found
<1>10. Nowhere(Start(Pool(req[t].s)) + req[t].idx)'
  BY <1>2, <1>6, <1>9 DEF Nowhere, VirPages, Start, Pool
<1>11. Found(t)'
  BY <1>2, <1>4, <1>6, <1>9, <1>10 DEF Found, Pool, Start
<1> QED BY <1>1, <1>7, <1>11, PageFrame

LEMMA PageTableSet ==
  ASSUME MemInv, PageInv, NEW t \in Tasks, TableSet(t), OnlyTask(t), Sided', side' = side
  PROVE  PageInv'
<1>1. InCall(t) /\ pc \in [Tasks -> Labels] /\ req[t] \in Request /\ pc[t] = "tset"
  BY DEF TableSet, InCall, MemInv, MType
<1>2. Found(t) /\ Sane
  BY <1>1 DEF PageInv
<1>3. PICK s \in Procs : s = req[t].s
  BY <1>1, <1>2 DEF Found
<1>4. PICK i : i = req[t].tidx
  OBVIOUS
<1>5. i \in Nat \cup {-1} /\ i \notin phys["kernel"]
  BY <1>1, <1>2, <1>4 DEF Found
<1>6. PICK k \in Nat : k = req[t].idx
  BY <1>1 DEF Request
<1>7. Pool(s) = "user" /\ k \in phys["user"] /\ Nowhere(Start("user") + k)
  <2>1. Pool(s) = "user"
    BY <1>3, Constants DEF Pool
  <2> QED BY <1>1, <1>2, <1>3, <1>6, <2>1 DEF Found
<1>8. CASE ~InMap("kernel", i)
  <2>1. Panic("memory.c:182")
    BY <1>4, <1>8 DEF TableSet
  <2> QED BY <2>1, PageSame DEF Panic, poolVars, ctlVars
<1>9. CASE InMap("kernel", i)
  <2>1. PICK z : z = Region(req[t].v)
    OBVIOUS
  <2>2. PICK page : page = IF i = -1 THEN 0 ELSE KStart + i
    OBVIOUS
  <2>3. /\ phys' = IF i = -1 THEN phys ELSE BitmapSet("kernel", i)
        /\ tables' = [tables EXCEPT ![s][z] = page]
        /\ pc' = [pc EXCEPT ![t] = "map"] /\ pte' = pte /\ req' = req
    BY <1>3, <1>4, <1>9, <2>1, <2>2 DEF TableSet
  <2>4. z \in Regions /\ i < Pages("kernel") /\ KStart \in Nat
    BY <1>9, <2>1, Constants DEF Region, Regions, InMap
  <2>5. /\ phys' \in [{"kernel", "user"} -> SUBSET Nat]
        /\ \A p \in {"kernel", "user"} : \A j \in phys'[p] : j < Pages(p)
        /\ \A p \in {"kernel", "user"} : phys[p] \subseteq phys'[p]
        /\ i # -1 => i \in phys'["kernel"]
    <3>1. CASE i = -1
      BY <1>2, <2>3, <3>1 DEF Sane, PoolType
    <3>2. CASE i # -1
      <4>1. i \in Nat /\ phys' = BitmapSet("kernel", i)
        BY <1>5, <2>3, <3>2
      <4> QED BY <1>2, <2>4, <4>1, SetBit
    <3> QED BY <3>1, <3>2
  <2>6. page \in Nat /\ (page = 0 \/ Nowhere(page))
        /\ (page = 0 \/ page - KStart \in phys'["kernel"])
    <3>1. CASE i = -1
      BY <2>2, <3>1
    <3>2. CASE i # -1
      <4>1. i \in Nat /\ page = Start("kernel") + i /\ page - KStart = i
        BY <1>5, <2>2, <2>4, <3>2, PoolFacts
      <4>2. Nowhere(page)
        BY <1>2, <1>5, <2>4, <4>1, ClearBit
      <4> QED BY <2>4, <2>5, <3>2, <4>1, <4>2, PoolFacts
    <3> QED BY <3>1, <3>2
  <2>7. Sane'
    BY <1>2, <2>3, <2>4, <2>5, <2>6, SaneTable
  <2>8. page # Start("user") + k
    <3>1. k < Pages("user") /\ Start("user") + k >= 1
      BY <1>2, <1>7, PoolFacts DEF Sane, PoolType
    <3>2. CASE i = -1
      BY <2>2, <3>1, <3>2
    <3>3. CASE i # -1
      <4>1. i \in Nat /\ page = Start("kernel") + i
        BY <1>5, <2>2, <3>3, PoolFacts
      <4>2. Start("kernel") + i = Start("user") + k => FALSE
        BY <2>4, <3>1, <4>1, DistinctPages
      <4> QED BY <4>1, <4>2
    <3> QED BY <3>2, <3>3
  <2>9. Nowhere(Start("user") + k)'
    <3>1. tables \in [Procs -> [Regions -> Int]]
      BY <1>2 DEF Sane, PoolType
    <3>2. \A p \in Procs : \A r \in Regions :
            tables'[p][r] = page \/ tables'[p][r] = tables[p][r]
      BY <2>3, <2>4, <3>1
    <3> QED BY <1>7, <2>3, <2>8, <3>2 DEF Nowhere, VirPages, Start
  <2>10. pc'[t] = "map" /\ req'[t].s = s /\ req'[t].idx = k
    BY <1>1, <1>3, <1>6, <2>3
  <2>11. Found(t)'
    BY <1>7, <2>5, <2>9, <2>10 DEF Found, Pool, Start
  <2> QED BY <1>1, <2>7, <2>11, PageFrame
<1> QED BY <1>8, <1>9

LEMMA PageMapPage ==
  ASSUME MemInv, PageInv, NEW t \in Tasks, MapPage(t), OnlyTask(t), Sided', side' = side
  PROVE  PageInv'
<1>1. InCall(t) /\ pc \in [Tasks -> Labels] /\ req[t] \in Request /\ pc[t] = "map"
  BY DEF MapPage, InCall, MemInv, MType
<1>2. PICK s \in Spaces : s = req[t].s
  BY <1>1 DEF Request
<1>3. PICK v : v = req[t].v
  OBVIOUS
<1>4. CASE pte[s][v] # NoPage
  <2>1. Panic("memory.c:199")
    BY <1>2, <1>3, <1>4 DEF MapPage
  <2> QED BY <2>1, PageSame DEF Panic, poolVars, ctlVars
<1>5. CASE pte[s][v] = NoPage
  <2>1. Maps(s, v, req[t].idx) /\ phys' = phys /\ tables' = tables
    BY <1>2, <1>3, <1>5 DEF MapPage, Maps
  <2>2. v \in VirPages(s)
    BY <1>1, <1>2, <1>3, <1>5, <2>1, MapFacts
  <2>3. PICK i \in Nat : i = req[t].idx
    BY <1>1 DEF Request
  <2>4. i \in phys[Pool(s)] /\ Nowhere(Start(Pool(s)) + i) /\ Sane
    BY <1>1, <1>2, <2>3 DEF PageInv, Found
  <2>5. Sane'
    BY <2>1, <2>2, <2>3, <2>4, SaneMap
  <2>6. pc'[t] = "scan" \/ pc'[t] = "idle"
    BY <1>1, <1>2, <1>3, <1>5 DEF MapPage, Return
  <2>7. Found(t)'
    BY <2>6, FoundScan
  <2> QED BY <1>1, <2>5, <2>7, PageFrame
<1> QED BY <1>4, <1>5

(* An allocation starts, when nobody else is in one.                       *)
LEMMA PageStart ==
  ASSUME MemInv, PageInv, NEW t \in side, OnlyTask(t), Sided', side' = side,
         NEW s \in Spaces, memLock[Pool(s)] = NoTask,
         pc'[t] = "scan" => s = Space(t),
         \/ UNCHANGED <<poolVars, heapVars, ctlVars>>
         \/ phys' = phys /\ pte' = pte /\ tables' = tables /\ pc'[t] = "scan"
  PROVE  PageInv'
<1>1. t \in Tasks
  BY DEF PageInv, Sided, Tasks
<1>2. CASE UNCHANGED <<poolVars, heapVars, ctlVars>>
  BY <1>2, PageSame DEF poolVars, ctlVars
<1>3. CASE phys' = phys /\ pte' = pte /\ tables' = tables /\ pc'[t] = "scan"
  <2>1. \A u \in Tasks : ~InCall(u)
    BY <1>3, NobodyIn DEF PageInv
  <2>2. Sane'
    BY <1>3, SaneSame DEF PageInv
  <2>3. Found(t)'
    BY <1>3, FoundScan
  <2> QED BY <1>1, <2>1, <2>2, <2>3, PageFrame
<1> QED BY <1>2, <1>3

LEMMA PageMallocPages ==
  ASSUME MemInv, PageInv, NEW t \in side, OnlyTask(t), Sided', side' = side,
         NEW s \in Spaces, memLock[Pool(s)] = NoTask,
         NEW n, NEW kind, NEW d, MallocPages(t, s, n, kind, d)
  PROVE  PageInv'
<1>1. t \in Tasks /\ pc \in [Tasks -> Labels] /\ req \in [Tasks -> Request]
  BY DEF PageInv, Sided, Tasks, MemInv, MType
<1>2. CASE UNCHANGED <<poolVars, heapVars, ctlVars>>
  BY <1>2, PageSame DEF poolVars, ctlVars
<1>3. CASE ~UNCHANGED <<poolVars, heapVars, ctlVars>>
  <2>1. PICK i :
          /\ phys' = phys /\ pte' = pte /\ tables' = tables
          /\ pc' = [pc EXCEPT ![t] = "scan"]
          /\ req' = [req EXCEPT ![t] = [kind |-> kind, s |-> s, desc |-> d,
                                        v0 |-> i, v |-> i, n |-> n,
                                        idx |-> 0, tidx |-> 0]]
    BY <1>3 DEF MallocPages, Panic
  <2>2. pc'[t] = "scan" /\ req'[t].s = s
    BY <1>1, <2>1
  <2>3. InCall(t)'
    BY <2>2 DEF InCall
  <2>4. s = Space(t)
    BY <1>1, <2>2, <2>3 DEF Sided, Space
  <2> QED BY <2>1, <2>2, <2>4, PageStart
<1> QED BY <1>2, <1>3

LEMMA PageFree ==
  ASSUME MemInv, PageInv, NEW t \in side, OnlyTask(t), Sided', side' = side,
         NEW b, FreeLarge(t, b) \/ FreeBlock(t, b)
  PROVE  PageInv'
<1>1. t \in Tasks
  BY DEF PageInv, Sided, Tasks
<1>2. PICK s \in Spaces : s = Space(t)
  BY <1>1, SpaceOf
<1>3. MayBegin(t, s) /\ b \in live[s]
  BY <1>2 DEF FreeLarge, FreeBlock
<1>4. Heap(VirPages(s), pte[s], arena[s], freeList[s], live[s])
  BY DEF MemInv, Heaps, HeapOf
<1>5. b \in AllBlocks(freeList[s], live[s])
  BY <1>3 DEF AllBlocks
<1>6. b[1] \in VirPages(s) /\ b[1] \in Nat /\ arena[s][b[1]].cnt \in Int
  BY <1>4, <1>5, HeapFacts
<1>7. CASE pc' = pc /\ req' = req /\ phys' = phys /\ pte' = pte /\ tables' = tables
  BY <1>7, PageSame
<1>8. ASSUME NEW n \in Int, n = Size(arena[s][b[1]]), NEW lists, NEW inUse,
             FreePages(s, b[1], n, lists, inUse)
      PROVE  PageInv'
  <2>1. b[1] .. b[1] + n - 1 \subseteq VirPages(s)
    <3> SUFFICES ASSUME NEW w \in b[1] .. b[1] + n - 1 PROVE w \in VirPages(s)
      OBVIOUS
    <3>1. Covers(arena[s], b, w) /\ w \in Int
      BY <1>6, <1>8 DEF Covers
    <3> QED BY <1>4, <1>5, <3>1 DEF Heap, Mapped
  <2>2. Sane'
    BY <1>6, <1>8, <2>1, SaneFree DEF PageInv
  <2>3. pc' = pc
    BY <1>8 DEF FreePages, Panic, ctlVars
  <2>4. ~InCall(t)' /\ memLock[Pool(Space(t))] = NoTask
    BY <1>2, <1>3, <2>3 DEF MayBegin, InCall
  <2>5. \A u \in Tasks : ~InCall(u)
    BY <2>4, NobodyIn DEF PageInv
  <2> QED BY <1>1, <2>2, <2>4, <2>5, PageFrame
<1>9. CASE FreeLarge(t, b)
  <2>1. arena[s][b[1]].cnt = Size(arena[s][b[1]])
    BY <1>2, <1>9 DEF FreeLarge, Size
  <2>2. PICK lists, inUse : FreePages(s, b[1], arena[s][b[1]].cnt, lists, inUse)
    BY <1>2, <1>9 DEF FreeLarge
  <2> QED BY <1>6, <1>8, <2>1, <2>2
<1>10. CASE FreeBlock(t, b)
  <2>0. arena[s][b[1]].desc # Large
    BY <1>2, <1>10, Zenon DEF FreeBlock
  <2>1. Size(arena[s][b[1]]) = 1
    BY <2>0 DEF Size
  <2>3. 1 \in Int
    OBVIOUS
  <2>2. \/ \E lists, inUse : FreePages(s, b[1], 1, lists, inUse)
        \/ pc' = pc /\ req' = req /\ phys' = phys /\ pte' = pte /\ tables' = tables
    BY <1>2, <1>10 DEF FreeBlock, poolVars, ctlVars
  <2> QED BY <1>7, <1>8, <2>1, <2>2, <2>3
<1> QED BY <1>9, <1>10

LEMMA PageStep ==
  ASSUME MemInv, Starters, PageInv, [ApartNext]_<<vars, side>>
  PROVE  PageInv'
<1>1. CASE UNCHANGED <<vars, side>>
  BY <1>1, PageSame DEF vars, poolVars, ctlVars
<1>2. CASE Halted /\ side' = side
  BY <1>2, PageSame DEF Halted, vars, poolVars, ctlVars
<1>3. ASSUME NEW t \in side, TaskStep(t), side' = side,
             side = Procs =>
               \A u \in Procs : pc'[u] # "idle" => req'[u].s # Kernel \/ pc'[u] = "start"
      PROVE  PageInv'
  <2>1. t \in Tasks
    BY DEF PageInv, Sided, Tasks
  <2>2. OnlyTask(t)
    BY <1>3, <2>1, StepOnly
  <2>3. MemInv'
    BY <1>3, <2>1, MemStep DEF Next
  <2>4. Sided'
    BY <1>3, <2>2, <2>3, SidedStep DEF PageInv
  <2>5. CASE GetOnePage(t)
    <3>1. t \in Procs
      BY <2>1, <2>5 DEF GetOnePage, Starters
    <3>2. t \in Spaces /\ Space(t) = t /\ memLock[Pool(t)] = NoTask
      BY <2>5, <3>1, Constants DEF Space, Pool, GetOnePage
    <3>3. /\ phys' = phys /\ pte' = pte /\ tables' = tables /\ pc' = [pc EXCEPT ![t] = "scan"]
      BY <2>5 DEF GetOnePage
    <3>4. pc'[t] = "scan"
      BY <2>1, <3>3 DEF MemInv, MType
    <3> QED BY <1>3, <2>2, <2>4, <3>2, <3>3, <3>4, PageStart
  <2>6. CASE PallocScan(t)
    BY <2>1, <2>2, <2>4, <2>6, PagePallocScan
  <2>7. CASE PallocSet(t)
    BY <1>3, <2>1, <2>2, <2>4, <2>7, PagePallocSet
  <2>8. CASE TableScan(t)
    BY <2>1, <2>2, <2>4, <2>8, PageTableScan
  <2>9. CASE TableSet(t)
    BY <1>3, <2>1, <2>2, <2>4, <2>9, PageTableSet
  <2>10. CASE MapPage(t)
    BY <1>3, <2>1, <2>2, <2>4, <2>10, PageMapPage
  <2>11. CASE \/ \E n \in 1 .. MaxPages : GetKernelPages(t, n)
              \/ \E size \in Sizes : MallocLarge(t, size) \/ MallocArena(t, size)
    <3>1. PICK s \in Spaces : memLock[Pool(s)] = NoTask /\ \E n, kind, d : MallocPages(t, s, n, kind, d)
      BY <2>1, <2>11, SpaceOf, Constants DEF GetKernelPages, MallocLarge, MallocArena, MayBegin
    <3>2. PICK n, kind, d : MallocPages(t, s, n, kind, d)
      BY <3>1
    <3> QED BY <1>3, <2>2, <2>4, <3>1, <3>2, PageMallocPages
  <2>12. CASE \E size \in Sizes : MallocBlock(t, size)
    BY <1>3, <2>12, PageSame DEF MallocBlock, poolVars, ctlVars
  <2>13. CASE \E b \in live[Space(t)] : FreeLarge(t, b) \/ FreeBlock(t, b)
    BY <1>3, <2>2, <2>4, <2>13, PageFree
  <2> QED BY <1>3, <2>5, <2>6, <2>7, <2>8, <2>9, <2>10, <2>11, <2>12, <2>13 DEF TaskStep
<1> QED BY <1>1, <1>2, <1>3 DEF ApartNext

LEMMA PageInit ==
  ApartInit => PageInv
<1> SUFFICES ASSUME ApartInit PROVE PageInv
  OBVIOUS
<1>1. PoolType
  BY DEF ApartInit, Init, PoolType, Regions, NoPage
<1>2. \A s \in Spaces : \A v \in VirPages(s) : pte[s][v] = NoPage
  BY DEF ApartInit, Init
<1>3. \A p \in Procs : \A r \in Regions : tables[p][r] = NoPage
  BY DEF ApartInit, Init, Regions
<1>4. Sane
  BY <1>1, <1>2, <1>3 DEF Sane, AllTaken, AllOnce
<1>5. \A t \in Tasks : ~InCall(t)
  BY DEF ApartInit, Init, InCall
<1> QED BY <1>4, <1>5 DEF PageInv, Sided, ApartInit

(* Every step of the specification with one side is a step of Memory.      *)
LEMMA ApartIsMemory ==
  ASSUME PageInv, [ApartNext]_<<vars, side>>
  PROVE  [Next]_vars
<1>1. side \subseteq Tasks
  BY DEF PageInv, Sided, Tasks
<1> QED BY <1>1 DEF ApartNext, Next

(* The physical pages, for any number of kernel threads, or of processes.  *)
THEOREM PageInvariance == ApartSpec => [](MemInv /\ Starters /\ PageInv)
<1>1. ApartInit => MemInv /\ Starters /\ PageInv
  BY MemInit, StartersInit, PageInit DEF ApartInit
<1>2. MemInv /\ Starters /\ PageInv /\ [ApartNext]_<<vars, side>>
        => (MemInv /\ Starters /\ PageInv)'
  <2> SUFFICES ASSUME MemInv, Starters, PageInv, [ApartNext]_<<vars, side>>
               PROVE  MemInv' /\ Starters' /\ PageInv'
    OBVIOUS
  <2>1. [Next]_vars
    BY ApartIsMemory
  <2>2. pc \in [Tasks -> Labels]
    BY DEF MemInv, MType
  <2> QED BY <2>1, <2>2, MemStep, StartersStep, PageStep
<1> QED BY <1>1, <1>2, PTL DEF ApartSpec

LEMMA PagesOnce ==
  MemInv /\ PageInv => MappedOnce
<1> SUFFICES ASSUME MemInv, PageInv, NEW page \in KStart .. UStart + UPages - 1
             PROVE  Cardinality(Uses(page)) <= 1
  BY DEF MappedOnce
<1>1. page \notin {NoPage, 0}
  BY Constants DEF NoPage
<1>2. AllOnce
  BY DEF PageInv, Sane
<1>3. ASSUME NEW x \in Uses(page), NEW y \in Uses(page) PROVE x = y
  <2>1. ASSUME NEW z \in Uses(page)
        PROVE  \/ \E s \in Spaces : \E v \in VirPages(s) : z = <<s, v>> /\ pte[s][v] = page
               \/ \E p \in Procs : \E r \in Regions : z = <<p, r>> /\ tables[p][r] = page
    <3>1. CASE \E s \in Spaces : z \in {s} \X VirPages(s) /\ pte[z[1]][z[2]] = page
      BY <3>1
    <3>2. CASE z \in Procs \X Regions /\ tables[z[1]][z[2]] = page
      BY <3>2
    <3> QED BY <2>1, <3>1, <3>2 DEF Uses, Regions
  <2>2. CASE \E s \in Spaces : \E v \in VirPages(s) : x = <<s, v>> /\ pte[s][v] = page
    <3>1. PICK s \in Spaces : \E v \in VirPages(s) : x = <<s, v>> /\ pte[s][v] = page
      BY <2>2
    <3>2. PICK v \in VirPages(s) : x = <<s, v>> /\ pte[s][v] = page
      BY <3>1
    <3>3. ASSUME NEW q \in Spaces, NEW w \in VirPages(q), y = <<q, w>>, pte[q][w] = page
          PROVE  x = y
      <4>1. s = q /\ v = w
        BY <1>1, <1>2, <3>2, <3>3 DEF AllOnce
      <4> QED BY <3>2, <3>3, <4>1
    <3>4. ASSUME NEW p \in Procs, NEW r \in Regions, tables[p][r] = page
          PROVE  FALSE
      BY <1>1, <1>2, <3>2, <3>4 DEF AllOnce
    <3> QED BY <2>1, <3>3, <3>4
  <2>3. CASE \E p \in Procs : \E r \in Regions : x = <<p, r>> /\ tables[p][r] = page
    <3>1. PICK p \in Procs : \E r \in Regions : x = <<p, r>> /\ tables[p][r] = page
      BY <2>3
    <3>2. PICK r \in Regions : x = <<p, r>> /\ tables[p][r] = page
      BY <3>1
    <3>3. ASSUME NEW q \in Procs, NEW z \in Regions, y = <<q, z>>, tables[q][z] = page
          PROVE  x = y
      <4>1. p = q /\ r = z
        BY <1>1, <1>2, <3>2, <3>3 DEF AllOnce
      <4> QED BY <3>2, <3>3, <4>1
    <3>4. ASSUME NEW s \in Spaces, NEW v \in VirPages(s), pte[s][v] = page
          PROVE  FALSE
      BY <1>1, <1>2, <3>2, <3>4 DEF AllOnce
    <3> QED BY <2>1, <3>3, <3>4
  <2> QED BY <2>1, <2>2, <2>3
<1>4. CASE Uses(page) = {}
  BY <1>4, FS_EmptySet
<1>5. CASE Uses(page) # {}
  <2>1. PICK x : x \in Uses(page)
    BY <1>5
  <2>2. Uses(page) = {x}
    BY <1>3, <2>1
  <2>3. Cardinality({x}) = 1
    BY FS_Singleton
  <2> QED BY <2>2, <2>3
<1> QED BY <1>4, <1>5

LEMMA PagesTaken ==
  MemInv /\ PageInv => MappedIsTaken
<1> SUFFICES ASSUME MemInv, PageInv, NEW pool \in {"kernel", "user"}, NEW i \in 0 .. KPages + UPages,
                    i < Pages(pool), Uses(Start(pool) + i) # {}
             PROVE  i \in phys[pool]
  BY DEF MappedIsTaken
<1> SUFFICES ASSUME i \notin phys[pool] PROVE FALSE
  OBVIOUS
<1>1. i \in Nat
  OBVIOUS
<1>2. Nowhere(Start(pool) + i)
  BY <1>1, ClearBit DEF PageInv
<1>3. PICK page : page = Start(pool) + i
  OBVIOUS
<1>4. PICK x : x \in Uses(page)
  BY <1>3
<1>5. CASE \E s \in Spaces : x \in {s} \X VirPages(s) /\ pte[x[1]][x[2]] = page
  BY <1>2, <1>3, <1>5 DEF Nowhere
<1>6. CASE x \in Procs \X Regions /\ tables[x[1]][x[2]] = page
  BY <1>2, <1>3, <1>6 DEF Nowhere
<1> QED BY <1>4, <1>5, <1>6 DEF Uses, Regions

(* With threads or processes on their own, Mem_Palloc never gives a page   *)
(* that is mapped, or is a page table, already.                            *)
THEOREM MappedOnceHolds == ApartSpec => []MappedOnce
BY PageInvariance, PagesOnce, PTL

(* And sys_free clears the bit of no page that is still used.              *)
THEOREM MappedIsTakenHolds == ApartSpec => []MappedIsTaken
BY PageInvariance, PagesTaken, PTL

=============================================================================
