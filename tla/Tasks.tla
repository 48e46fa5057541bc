-------------------------------- MODULE Tasks -------------------------------
(***************************************************************************)
(* How tasks come into being: Thread_Create (kernel/thread.c),             *)
(* Process_Create and Process_Start (kernel/process.c) and sys_fork        *)
(* (kernel/fork.c), with the pages of the kernel's pool they take and the  *)
(* numbers they get.  Process_Create and sys_fork run with interrupts off: *)
(* the CPU leaves them only where they wait for a lock.                    *)
(***************************************************************************)
EXTENDS Integers, FiniteSets

CONSTANTS
  Main,        \* the task that runs main(), created by Thread_Init
  New,         \* the PCBs of the tasks to come
  Totals,      \* pages of the kernel's pool that the tasks may take
  MapPages,    \* of a bitmap in Process_VAddrBitmap (384)
  CopyPages,   \* of a bitmap in Fork_CopyPCBToChild (24)
  NameLens,    \* lengths of the names given to Process_Create
  MaxFailures, \* bound: nothing is begun after so many failures
  NoTask

Ids == {Main} \cup New

ASSUME TasksAssumption ==
  /\ Main \notin New /\ NoTask \notin Ids /\ IsFiniteSet(New)
  /\ Totals \subseteq Nat /\ NameLens \subseteq Nat
  /\ MapPages \in Nat \ {0} /\ CopyPages \in Nat \ {0}
  /\ MaxFailures \in Nat \ {0}

VARIABLES
  cpu,       \* the running task
  task,      \* the PCBs
  pc, child, \* per task: where it is in a creation, and of which task
  memLock,   \* the task that holds kernelMemPool.memLock across a preemption
  pidLock,   \* the task that holds g_pidLock across a preemption
  total, free, \* the pages of the pool, and how many are free
  nextPid,
  panic,
  forks, failures, waited \* history: forks done; allocations that failed;
                          \* processes whose creation had to wait when
                          \* they were ready

histVars == <<forks, failures, waited>>
vars == <<cpu, task, pc, child, memLock, pidLock, total, free, nextPid, panic, histVars>>

(* A PCB: pages of its own bitmap, how long it says the bitmap is.         *)
NoPCB == [kind |-> "none", pid |-> 0, ready |-> FALSE, started |-> FALSE, pcb |-> 0,
          dir |-> 0, map |-> 0, len |-> 0, table |-> 0, name |-> 0, buf |-> 0]

Init ==
  /\ cpu = Main
  /\ task = [i \in Ids |-> IF i = Main
                           THEN [NoPCB EXCEPT !.kind = "thread", !.pid = 1,
                                              !.ready = TRUE, !.started = TRUE]
                           ELSE NoPCB]
  /\ pc = [i \in Ids |-> "idle"] /\ child = [i \in Ids |-> NoTask]
  /\ memLock = NoTask /\ pidLock = NoTask
  /\ total \in Totals /\ free = total
  /\ nextPid = 1
  /\ panic = "none"
  /\ forks = 0 /\ failures = 0 /\ waited = {}

Running(t) == panic = "none" /\ cpu = t /\ task[t].started

Stop(where) ==
  /\ panic' = where
  /\ UNCHANGED <<cpu, task, pc, child, memLock, pidLock, total, free, nextPid, histVars>>

NextPid_NotStatic == 1
NextPid == nextPid + 1

-----------------------------------------------------------------------------
(* The clock and the lock.                                                 *)

IntrOff == {"p_pcb", "p_pid", "p_dir", "p_map",
            "f_pcb", "f_buf", "f_pid", "f_map", "f_dir", "f_pages"}

Allocs == {"p_pcb", "p_dir", "p_map", "f_pcb", "f_buf", "f_map", "f_dir"}

(* The next step of t is Lock_Lock, and another task has the lock.         *)
Waits(t) ==
  \/ memLock # NoTask /\ pc[t] \in Allocs \cup {"t_lock"}
  \/ pidLock # NoTask /\ pc[t] \in {"t_pid", "p_pid", "f_pid"}

MayLeave_Always(t) == TRUE
MayLeave(t) == pc[t] \notin IntrOff \/ Waits(t)

Switch(t) ==
  /\ panic = "none" /\ t # cpu /\ task[t].ready
  /\ MayLeave(cpu)
  /\ cpu' = t
  /\ waited' = IF Waits(cpu) /\ pc[cpu] \in {"p_dir", "p_map"}
               THEN waited \cup {child[cpu]} ELSE waited
  /\ UNCHANGED <<task, pc, child, memLock, pidLock, total, free, nextPid, panic, forks, failures>>

(* Mem_GetKernelPages(n): what it got before it failed is not given back.  *)
Got(n) == n <= free
Taken(n) == IF Got(n) THEN n ELSE free
GetKernelPages(n) ==
  /\ free' = free - Taken(n)
  /\ failures' = IF Got(n) THEN failures ELSE failures + 1

-----------------------------------------------------------------------------
(* Thread_Create by a kernel thread, with interrupts on.                   *)

Goto(t, label) == pc' = [pc EXCEPT ![t] = label]

Begin(t, label, i) ==
  /\ failures < MaxFailures
  /\ pc[t] = "idle" /\ task[i].kind = "none" /\ \A u \in Ids : child[u] # i
  /\ Goto(t, label)
  /\ child' = [child EXCEPT ![t] = i]
  /\ UNCHANGED <<cpu, task, memLock, pidLock, total, free, nextPid, panic, histVars>>

ThreadCreate(t, i) == task[t].kind = "thread" /\ Begin(t, "t_lock", i)

ThreadLock(t) ==
  /\ pc[t] = "t_lock" /\ ~Waits(t)
  /\ memLock' = t
  /\ Goto(t, "t_pcb")
  /\ UNCHANGED <<cpu, task, child, pidLock, total, free, nextPid, panic, histVars>>

(* Nobody looks whether there was a page for the PCB.                      *)
ThreadPCB(t) ==
  /\ pc[t] = "t_pcb"
  /\ IF Got(1)
     THEN /\ GetKernelPages(1)
          /\ memLock' = NoTask
          /\ task' = [task EXCEPT ![child[t]].pcb = 1, ![child[t]].kind = "thread"]
          /\ Goto(t, "t_pid")
          /\ UNCHANGED <<cpu, child, pidLock, total, nextPid, panic, forks, waited>>
     ELSE Stop("no PCB")

(* Thread_AllocPid: nextPid is read again after the lock is released.      *)
ThreadPid(t) ==
  /\ pc[t] = "t_pid" /\ ~Waits(t)
  /\ pidLock' = t
  /\ Goto(t, "t_pid++")
  /\ UNCHANGED <<cpu, task, child, memLock, total, free, nextPid, panic, histVars>>

ThreadNextPid(t) ==
  /\ pc[t] = "t_pid++"
  /\ nextPid' = NextPid
  /\ pidLock' = NoTask
  /\ Goto(t, "t_init")
  /\ UNCHANGED <<cpu, task, child, memLock, total, free, panic, histVars>>

Done(t) == Goto(t, "idle") /\ child' = [child EXCEPT ![t] = NoTask]

ThreadInit(t) ==
  /\ pc[t] = "t_init"
  /\ task' = [task EXCEPT ![child[t]].pid = nextPid, ![child[t]].ready = TRUE,
                          ![child[t]].started = TRUE]
  /\ Done(t)
  /\ UNCHANGED <<cpu, memLock, pidLock, total, free, nextPid, panic, histVars>>

(* Any other use a kernel thread makes of the pool, such as sys_malloc.    *)
PoolBegin(t) ==
  /\ task[t].kind = "thread" /\ pc[t] = "idle" /\ memLock = NoTask
  /\ memLock' = t
  /\ Goto(t, "pool")
  /\ UNCHANGED <<cpu, task, child, pidLock, total, free, nextPid, panic, histVars>>

PoolEnd(t) ==
  /\ pc[t] = "pool"
  /\ memLock' = NoTask
  /\ Goto(t, "idle")
  /\ UNCHANGED <<cpu, task, child, pidLock, total, free, nextPid, panic, histVars>>

-----------------------------------------------------------------------------
(* Process_Create by a kernel thread.                                      *)

ProcessCreate(t, i) == task[t].kind = "thread" /\ Begin(t, "p_pcb", i)

(* One allocation of a creation that runs with interrupts off: what to do  *)
(* with the PCB if there were pages, and where to go on.                   *)
Alloc(t, n, new, label) ==
  /\ ~Waits(t)
  /\ GetKernelPages(n)
  /\ task' = IF Got(n) THEN [task EXCEPT ![child[t]] = new] ELSE task
  /\ Goto(t, label)
  /\ UNCHANGED <<cpu, child, memLock, pidLock, total, nextPid, panic, forks, waited>>

ProcessPCB(t) ==
  /\ pc[t] = "p_pcb"
  /\ IF Got(1)
     THEN \E n \in NameLens :
            Alloc(t, 1, [NoPCB EXCEPT !.kind = "proc", !.pcb = 1, !.name = n], "p_pid")
     ELSE ~Waits(t) /\ Stop("no PCB")

(* The task is made ready here, before it has a page directory.            *)
ProcessPid(t) ==
  /\ pc[t] = "p_pid" /\ ~Waits(t)
  /\ nextPid' = NextPid
  /\ task' = [task EXCEPT ![child[t]].pid = nextPid', ![child[t]].ready = TRUE]
  /\ Goto(t, "p_dir")
  /\ UNCHANGED <<cpu, child, memLock, pidLock, total, free, panic, histVars>>

ProcessDir(t) ==
  /\ pc[t] = "p_dir"
  /\ Alloc(t, 1, [task[child[t]] EXCEPT !.dir = 1], "p_map")

(* BitmapInit clears the bitmap wherever it is.                            *)
ProcessMap(t) ==
  /\ pc[t] = "p_map" /\ ~Waits(t)
  /\ IF Got(MapPages)
     THEN /\ GetKernelPages(MapPages)
          /\ task' = [task EXCEPT ![child[t]].map = MapPages, ![child[t]].len = MapPages]
          /\ Done(t)
          /\ UNCHANGED <<cpu, memLock, pidLock, total, nextPid, panic, forks, waited>>
     ELSE Stop("no bitmap")

(* Process_Start: Mem_GetOnePage wants a page directory and marks the page *)
(* in the bitmap; the page table comes from the kernel's pool, from its    *)
(* page 0 if it has none left.                                             *)
Start(t) ==
  /\ panic = "none" /\ cpu = t /\ task[t].kind = "proc" /\ ~task[t].started
  /\ IF task[t].dir = 0 THEN Stop("GetOnePage Failed!")
     ELSE IF task[t].len = 0 THEN Stop("bitmap.c:39")
     ELSE /\ free' = free - Taken(1)
          /\ task' = [task EXCEPT ![t].started = TRUE, ![t].table = Taken(1)]
          /\ failures' = IF Got(1) THEN failures ELSE failures + 1
          /\ UNCHANGED <<cpu, pc, child, memLock, pidLock, total, nextPid, panic, forks, waited>>

-----------------------------------------------------------------------------
(* sys_fork.                                                               *)

Fork(t, i) == Begin(t, "f_pcb", i)

Fail(t) ==
  /\ Done(t)
  /\ task' = [task EXCEPT ![child[t]] = NoPCB]
  /\ UNCHANGED <<cpu, memLock, pidLock, total, nextPid, panic, forks, waited>>

ForkPCB(t) ==
  /\ pc[t] = "f_pcb" /\ ~Waits(t)
  /\ IF Got(1) /\ task[t].dir = 0 THEN Stop("fork.c:159")
     ELSE IF Got(1) THEN Alloc(t, 1, [NoPCB EXCEPT !.kind = "proc", !.pcb = 1], "f_buf")
     ELSE GetKernelPages(1) /\ Fail(t)

ForkBuf(t) ==
  /\ pc[t] = "f_buf" /\ ~Waits(t)
  /\ IF Got(1) THEN Alloc(t, 1, [task[child[t]] EXCEPT !.buf = 1], "f_pid")
     ELSE GetKernelPages(1) /\ Fail(t)

(* Fork_CopyPCBToChild: the PCB is the parent's.                           *)
ForkPid(t) ==
  /\ pc[t] = "f_pid" /\ ~Waits(t)
  /\ nextPid' = NextPid
  /\ task' = [task EXCEPT ![child[t]].pid = nextPid', ![child[t]].len = task[t].len,
                          ![child[t]].name = task[t].name]
  /\ Goto(t, "f_map")
  /\ UNCHANGED <<cpu, child, memLock, pidLock, total, free, panic, histVars>>

ForkMap(t) ==
  /\ pc[t] = "f_map" /\ ~Waits(t)
  /\ IF ~Got(CopyPages) THEN Stop("no bitmap")
     ELSE IF task[t].name >= 11 THEN Stop("fork.c:39")
     ELSE Alloc(t, CopyPages,
                [task[child[t]] EXCEPT !.map = CopyPages, !.name = task[t].name + 5], "f_dir")

ForkDir(t) ==
  /\ pc[t] = "f_dir" /\ ~Waits(t)
  /\ IF Got(1) THEN Alloc(t, 1, [task[child[t]] EXCEPT !.dir = 1], "f_pages")
     ELSE GetKernelPages(1) /\ Fail(t)

(* Fork_CopyUserStack: the pages are the users', their table is the kernel's. *)
CopyUserStack == free - Taken(1)

BufFreed_Two == 2
BufFreed == 0

(* The user pages are copied, with a page table for them; the buffer's     *)
(* virtual page is given back but not its page; the child is made ready.   *)
ForkEnd(t) ==
  /\ pc[t] = "f_pages"
  /\ free' = CopyUserStack + BufFreed
  /\ failures' = IF Got(1) THEN failures ELSE failures + 1
  /\ task' = [task EXCEPT ![child[t]].table = Taken(1), ![child[t]].buf = 0,
                          ![child[t]].ready = TRUE, ![child[t]].started = TRUE]
  /\ Done(t)
  /\ forks' = forks + 1
  /\ UNCHANGED <<cpu, memLock, pidLock, total, nextPid, panic, waited>>

Step(t) ==
  /\ Running(t)
  /\ \/ \E i \in New : ThreadCreate(t, i) \/ ProcessCreate(t, i) \/ Fork(t, i)
     \/ ThreadLock(t) \/ ThreadPCB(t) \/ ThreadPid(t) \/ ThreadNextPid(t) \/ ThreadInit(t)
     \/ PoolBegin(t) \/ PoolEnd(t)
     \/ ProcessPCB(t) \/ ProcessPid(t) \/ ProcessDir(t) \/ ProcessMap(t)
     \/ ForkPCB(t) \/ ForkBuf(t) \/ ForkPid(t) \/ ForkMap(t) \/ ForkDir(t) \/ ForkEnd(t)

Next == \E t \in Ids : Step(t) \/ Start(t) \/ Switch(t)

Spec == Init /\ [][Next]_vars

-----------------------------------------------------------------------------
Ready == {i \in Ids : task[i].ready}

(* Two tasks have the same number only if Thread_Create made one of them   *)
(* with interrupts on, which reads nextPid outside the lock (thread.c:63): *)
(* processes, created or forked, never share one.                          *)
PidsUnique ==
  \A i, j \in Ready : i # j /\ task[i].pid = task[j].pid =>
    "thread" \in {task[i].kind, task[j].kind}

Owned(i) == task[i].pcb + task[i].dir + task[i].map + task[i].table + task[i].buf
Accounted == UNION {{i} \X (1 .. Owned(i)) : i \in Ids}
Lost == (total - free) - Cardinality(Accounted)

(* A page of the kernel's pool that is taken belongs to a task or to a     *)
(* creation under way, except the buffer of every fork that was done       *)
(* (fork.c:145) and what failed allocations left behind.                   *)
PagesReachable ==
  /\ Lost >= forks
  /\ failures = 0 => Lost = forks
  /\ Lost <= forks + failures * (2 + MapPages + CopyPages)

(* No task runs Process_Start before Process_Create has given it its page  *)
(* directory and its bitmap, unless Process_Create had to wait for the     *)
(* pool's lock with the task already in the ready list (process.c:116), or *)
(* there was no page for the directory.                                    *)
StartsWhole ==
  panic \in {"GetOnePage Failed!", "bitmap.c:39"} => cpu \in waited \/ failures > 0
=============================================================================
