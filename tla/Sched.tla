------------------------------- MODULE Sched -------------------------------
(***************************************************************************)
(* The kernel core: the ready list and task switching (kernel/thread.c),   *)
(* the binary semaphore and the re-entrant lock built on it                *)
(* (kernel/sync.c), the clock interrupt and sleeping (device/timer.c) and  *)
(* the CPU's interrupt flag (kernel/interrupt.c).                          *)
(*                                                                         *)
(* One CPU: only `cur' executes, and what it does while the flag is OFF is *)
(* one step up to the point where it switches tasks or turns the flag on.  *)
(* The clock interrupt may fall between any two steps while the flag is    *)
(* ON.  A failed ASSERT ends in panic(), which never returns: `panic' then *)
(* names the line of the ASSERT and nothing but Halted is enabled.         *)
(***************************************************************************)
EXTENDS Integers, Sequences, FiniteSets

CONSTANTS
  Threads,     \* kernel threads: they call the kernel with interrupts ON
  Procs,       \* user processes: they enter it by int 0x80, interrupts OFF
  Isrs,        \* interrupt handlers that call Lock_V (none in this module)
  Main,        \* the boot thread, which becomes the running task
  Spinners,    \* tasks that have reached their endless loop (init, ThreadA)
  Locks,       \* Lock objects, numbered in the order in which they nest
  Sems,        \* the Lock objects used through bare Lock_P and Lock_V
  NoTask,      \* NULL as a lock's holder
  Priority,    \* a task's time slice in clock ticks
  MaxNest,     \* bound: how often a holder may be inside one lock
  Sleepers,    \* tasks that call Timer_SleepMTime
  SleepTicks   \* bound: the number of ticks every sleep asks for

Tasks == Threads \cup Procs
Ctx == Tasks \cup Isrs

ASSUME SchedAssumption ==
  /\ Main \in Threads
  /\ NoTask \notin Ctx
  /\ Isrs \cap Tasks = {}
  /\ Threads \cap Procs = {}
  /\ Spinners \subseteq Tasks /\ Spinners # {}
  /\ Sleepers \subseteq Tasks \ Spinners
  /\ IsFiniteSet(Tasks)
  /\ Locks \subseteq Nat /\ Locks # {}
  /\ Sems \subseteq Locks
  /\ Priority \in [Tasks -> Nat \ {0}]
  /\ MaxNest \in Nat \ {0}
  /\ SleepTicks \in Nat \ {0}

VARIABLES
  cur,        \* Thread_GetRunningTask()
  intr,       \* the interrupt flag of eflags
  status,     \* taskStatus
  ready,      \* threadReadyList
  ticks,      \* what is left of a task's time slice
  resumeIF,   \* the interrupt flag a task that is not running resumes with
  value,      \* lock->value
  holder,     \* lock->holder
  repeat,     \* lock->holderRepeatNum
  waiters,    \* lock->waiters
  pc,         \* where a context is in the kernel
  arg,        \* the Lock a context operates on
  target,     \* the task Thread_UnBlock was called for
  slept,      \* g_sysTicks - startTicks of a sleeping task
  panic       \* "none", or the ASSERT that failed

taskVars == <<cur, intr, status, ready, ticks, resumeIF>>
lockVars == <<value, holder, repeat, waiters>>
ctxVars  == <<pc, arg, target, slept>>
vars == <<taskVars, lockVars, ctxVars, panic>>

Labels == {"user", "run", "P", "got", "V", "push", "ready", "endV", "sleep"}

(* The ASSERTs of sync.c and thread.c that depend on the state. *)
Asserts == {"sync.c:20", "sync.c:29", "sync.c:41", "sync.c:52", "sync.c:67",
            "thread.c:167", "thread.c:200", "thread.c:228", "thread.c:231"}

AnyLock == CHOOSE l \in Locks : TRUE

Elems(s) == {s[i] : i \in DOMAIN s}

(* The value of the flag outside Lock_P, Lock_V and Thread_Yield, which    *)
(* they save in `status' and restore: system calls and interrupt handlers  *)
(* run behind interrupt gates, which clear it.                             *)
SavedIF(c) == IF c \in Threads THEN "ON" ELSE "OFF"

(* TaskInit and Thread_MakeMainThread: all tasks but Main are READY.  The  *)
(* order of creation is left open.                                         *)
InitTasks ==
  /\ cur = Main
  /\ intr = "ON"
  /\ status = [t \in Tasks |-> IF t = Main THEN "RUNNING" ELSE "READY"]
  /\ ready \in {s \in [1 .. Cardinality(Tasks \ {Main}) -> Tasks \ {Main}] :
                  Elems(s) = Tasks \ {Main}}
  /\ ticks = Priority
  /\ resumeIF = [t \in Tasks |-> "ON"]

(* Lock_Init; the driver then sets the value of its semaphore to 0. *)
InitLocks ==
  /\ value = [l \in Locks |-> IF l \in Sems THEN 0 ELSE 1]
  /\ holder = [l \in Locks |-> NoTask]
  /\ repeat = [l \in Locks |-> 0]
  /\ waiters = [l \in Locks |-> <<>>]

Init ==
  /\ InitTasks
  /\ InitLocks
  /\ pc = [c \in Ctx |-> IF c \in Procs THEN "user" ELSE "run"]
  /\ arg = [c \in Ctx |-> AnyLock]
  /\ target = [c \in Ctx |-> Main]
  /\ slept = [t \in Tasks |-> 0]
  /\ panic = "none"

(***************************************************************************)
(* panic(): interrupts off, then an endless loop.                          *)
(***************************************************************************)
Panic(id) ==
  /\ panic' = id
  /\ UNCHANGED <<taskVars, lockVars, ctxVars>>

Goto(c, label) == pc' = [pc EXCEPT ![c] = label]

(* List_Append, List_Push and List_Pop (its new list) on the task lists.   *)
Appended_Front(s, t) == <<t>> \o s
Appended(s, t) == Append(s, t)

Pushed_Dropped(s, t) == s
Pushed(s, t) == <<t>> \o s

Popped_Linked(s) == s
Popped(s) == Tail(s)

(* Names with a suffix, as above, are broken variants of the definition    *)
(* that follows them; the runs use them to see that the properties notice. *)
MarkRunning_Forgotten(st, t) == st
MarkRunning(st, t) == [st EXCEPT ![t] = "RUNNING"]

(***************************************************************************)
(* Thread_Schedule.  st and rd are the statuses and the ready list at the  *)
(* call, iflag the interrupt flag the caller restores when it returns, be  *)
(* that now (no other task is ready) or when the task is switched to again.*)
(***************************************************************************)
Schedule(st, rd, iflag) ==
  LET rotate == st[cur] = "RUNNING"
      st1 == IF rotate THEN [st EXCEPT ![cur] = "READY"] ELSE st
      rd1 == IF rotate THEN Appended(rd, cur) ELSE rd
      next == IF rd1 = <<>> THEN cur ELSE Head(rd1)
  IN /\ cur' = next
     /\ status' = IF rd1 = <<>> THEN st1 ELSE MarkRunning(st1, next)
     /\ ready' = IF rd1 = <<>> THEN rd1 ELSE Popped(rd1)
     /\ ticks' = IF rotate THEN [ticks EXCEPT ![cur] = Priority[cur]]
                           ELSE ticks
     /\ resumeIF' = [resumeIF EXCEPT ![cur] = iflag]
     /\ intr' = resumeIF'[next]

(* Thread_Block: a task that resumes here still has interrupts OFF. *)
Block(t) == Schedule([status EXCEPT ![t] = "BLOCKED"], ready, "OFF")

(* Thread_Yield: back to the end of the ready list, then Thread_Schedule. *)
Yield_Busy(t) == UNCHANGED vars
Yield(t) ==
  IF t \in Elems(ready)
  THEN Panic("thread.c:200")
  ELSE /\ Schedule([status EXCEPT ![t] = "READY"], Appended(ready, t), SavedIF(t))
       /\ UNCHANGED <<lockVars, ctxVars, panic>>

(***************************************************************************)
(* Lock_Lock by task t.  A nested acquisition of a lock t holds only       *)
(* counts.  Callers nest different locks in one order only (the channel    *)
(* lock, then the console lock), which is what the numbering stands for.   *)
(***************************************************************************)
LockCall(t, l) ==
  /\ pc[t] = "run"
  /\ t \notin Spinners
  /\ l \notin Sems
  /\ \A m \in Locks : holder[m] = t => m <= l
  /\ IF holder[l] # t
     THEN /\ Goto(t, "P")
          /\ arg' = [arg EXCEPT ![t] = l]
          /\ UNCHANGED repeat
     ELSE /\ repeat[l] < MaxNest
          /\ repeat' = [repeat EXCEPT ![l] = @ + 1]
          /\ UNCHANGED <<pc, arg>>
  /\ UNCHANGED <<taskVars, value, holder, waiters, target, slept, panic>>

(* Lock_P up to its return or to the switch in Thread_Block; a task that   *)
(* resumes there tests value again, with interrupts OFF.                   *)
LockP(t) ==
  LET l == arg[t]
  IN /\ pc[t] = "P"
     /\ IF value[l] # 0
        THEN IF value[l] = 1
             THEN /\ value' = [value EXCEPT ![l] = @ - 1]
                  /\ intr' = SavedIF(t)
                  /\ Goto(t, IF l \in Sems THEN "run" ELSE "got")
                  /\ UNCHANGED <<cur, status, ready, ticks, resumeIF, holder,
                                 repeat, waiters, arg, target, slept, panic>>
             ELSE Panic("sync.c:29")
        ELSE IF t \in Elems(waiters[l])
             THEN Panic("sync.c:20")
             ELSE /\ waiters' = [waiters EXCEPT ![l] = Appended(@, t)]
                  /\ Block(t)
                  /\ UNCHANGED <<value, holder, repeat, ctxVars, panic>>

(* The rest of Lock_Lock once Lock_P has returned. *)
LockGot(t) ==
  LET l == arg[t]
  IN /\ pc[t] = "got"
     /\ IF repeat[l] = 0
        THEN /\ holder' = [holder EXCEPT ![l] = t]
             /\ repeat' = [repeat EXCEPT ![l] = 1]
             /\ Goto(t, "run")
             /\ UNCHANGED <<taskVars, value, waiters, arg, target, slept, panic>>
        ELSE Panic("sync.c:67")

(* The holder is inside the lock more than once: Lock_UnLock only counts.  *)
Nested_OffByOne(l) == repeat[l] > 2
Nested(l) == repeat[l] > 1

(* Lock_UnLock up to its call of Lock_V.  Callers release the lock they    *)
(* took last.                                                              *)
UnlockCall(t, l) ==
  /\ pc[t] = "run"
  /\ holder[l] = t
  /\ \A m \in Locks : holder[m] = t => m <= l
  /\ repeat' = [repeat EXCEPT ![l] = @ - 1]
  /\ IF Nested(l)
     THEN UNCHANGED <<holder, pc, arg>>
     ELSE /\ holder' = [holder EXCEPT ![l] = NoTask]
          /\ Goto(t, "V")
          /\ arg' = [arg EXCEPT ![t] = l]
  /\ UNCHANGED <<taskVars, value, waiters, target, slept, panic>>

(***************************************************************************)
(* Lock_V by context c, and Thread_UnBlock in it.  Thread_UnBlock calls    *)
(* Idt_IntrEnable, so the clock interrupt can fall before the woken task   *)
(* is put on the ready list (push), before its status is written (ready)   *)
(* and before Thread_UnBlock restores the flag (endV); value is written    *)
(* only after that.                                                        *)
(***************************************************************************)
LockV_ValueFirst(c) ==
  LET l == arg[c]
  IN /\ pc[c] = "V"
     /\ value' = [value EXCEPT ![l] = 1]
     /\ target' = IF waiters[l] = <<>> THEN target
                  ELSE [target EXCEPT ![c] = Head(waiters[l])]
     /\ waiters' = IF waiters[l] = <<>> THEN waiters
                   ELSE [waiters EXCEPT ![l] = Tail(@)]
     /\ intr' = IF waiters[l] = <<>> THEN SavedIF(c) ELSE "ON"
     /\ Goto(c, IF waiters[l] = <<>> THEN "run" ELSE "push")
     /\ UNCHANGED <<cur, status, ready, ticks, resumeIF, holder, repeat, arg,
                    slept, panic>>
LockV(c) ==
  LET l == arg[c]
  IN /\ pc[c] = "V"
     /\ IF value[l] # 0
        THEN Panic("sync.c:41")
        ELSE IF waiters[l] = <<>>
             THEN /\ value' = [value EXCEPT ![l] = @ + 1]
                  /\ intr' = SavedIF(c)
                  /\ Goto(c, "run")
                  /\ UNCHANGED <<cur, status, ready, ticks, resumeIF, holder,
                                 repeat, waiters, arg, target, slept, panic>>
             ELSE /\ target' = [target EXCEPT ![c] = Head(waiters[l])]
                  /\ waiters' = [waiters EXCEPT ![l] = Popped(@)]
                  /\ intr' = "ON"
                  /\ Goto(c, "push")
                  /\ UNCHANGED <<cur, status, ready, ticks, resumeIF, value,
                                 holder, repeat, arg, slept, panic>>

UnBlockPush(c) ==
  LET t == target[c]
  IN /\ pc[c] = "push"
     /\ IF status[t] # "BLOCKED"
        THEN Panic("thread.c:228")
        ELSE IF t \in Elems(ready)
             THEN Panic("thread.c:231")
             ELSE /\ ready' = Pushed(ready, t)
                  /\ Goto(c, "ready")
                  /\ UNCHANGED <<cur, intr, status, ticks, resumeIF, lockVars,
                                 arg, target, slept, panic>>

UnBlockReady(c) ==
  /\ pc[c] = "ready"
  /\ status' = [status EXCEPT ![target[c]] = "READY"]
  /\ Goto(c, "endV")
  /\ UNCHANGED <<cur, intr, ready, ticks, resumeIF, lockVars,
                 arg, target, slept, panic>>

LockVEnd(c) ==
  LET l == arg[c]
  IN /\ pc[c] = "endV"
     /\ IF value[l] = 0
        THEN /\ value' = [value EXCEPT ![l] = @ + 1]
             /\ intr' = SavedIF(c)
             /\ target' = [target EXCEPT ![c] = Main]   \* out of scope
             /\ Goto(c, "run")
             /\ UNCHANGED <<cur, status, ready, ticks, resumeIF, holder, repeat,
                            waiters, arg, slept, panic>>
        ELSE Panic("sync.c:52")

(***************************************************************************)
(* Timer_SleepTicks: yield until enough clock interrupts have been counted.*)
(* uint32_t subtraction makes the count right across a wrap of g_sysTicks. *)
(***************************************************************************)
SleepCall(t) ==
  /\ pc[t] = "run"
  /\ t \in Sleepers
  /\ Goto(t, "sleep")
  /\ UNCHANGED <<taskVars, lockVars, arg, target, slept, panic>>

SleepStep(t) ==
  /\ pc[t] = "sleep"
  /\ IF slept[t] < SleepTicks
     THEN Yield(t)
     ELSE /\ slept' = [slept EXCEPT ![t] = 0]
          /\ Goto(t, "run")
          /\ UNCHANGED <<taskVars, lockVars, arg, target, panic>>

(* int 0x80 and the iretd at the end of intr80_entry.  A system call       *)
(* returns with every lock it took released.                               *)
SysEnter(t) ==
  /\ t \in Procs \ Spinners
  /\ pc[t] = "user"
  /\ intr' = "OFF"
  /\ Goto(t, "run")
  /\ UNCHANGED <<cur, status, ready, ticks, resumeIF, lockVars,
                 arg, target, slept, panic>>

SysExit(t) ==
  /\ t \in Procs
  /\ pc[t] = "run"
  /\ \A l \in Locks : holder[l] # t
  /\ intr' = "ON"
  /\ Goto(t, "user")
  /\ UNCHANGED <<cur, status, ready, ticks, resumeIF, lockVars,
                 arg, target, slept, panic>>

(***************************************************************************)
(* Timer_IntrHandler, entered through an interrupt gate: the whole handler *)
(* runs with interrupts OFF and its iretd restores ON.                     *)
(***************************************************************************)
SliceOver(t) == ticks[t] = 0

TimerIntr ==
  /\ panic = "none"
  /\ intr = "ON"
  /\ IF SliceOver(cur) /\ status[cur] = "RUNNING" /\ cur \in Elems(ready)
     THEN Panic("thread.c:167")
     ELSE /\ slept' = [t \in Tasks |->
                         IF pc[t] = "sleep" /\ slept[t] < SleepTicks
                         THEN slept[t] + 1 ELSE slept[t]]
          /\ IF SliceOver(cur)
             THEN Schedule(status, ready, "ON")
             ELSE /\ ticks' = [ticks EXCEPT ![cur] = @ - 1]
                  /\ UNCHANGED <<cur, intr, status, ready, resumeIF>>
          /\ UNCHANGED <<lockVars, pc, arg, target, panic>>

(* One step of task t, which is the one that executes. *)
LockStep(t) ==
  \/ \E l \in Locks : LockCall(t, l) \/ UnlockCall(t, l)
  \/ LockP(t)
  \/ LockGot(t)
  \/ LockV(t)
  \/ UnBlockPush(t)
  \/ UnBlockReady(t)
  \/ LockVEnd(t)

TaskStep(t) ==
  /\ panic = "none"
  /\ cur = t
  /\ \/ LockStep(t)
     \/ SleepCall(t)
     \/ SleepStep(t)
     \/ SysEnter(t)
     \/ SysExit(t)

Halted == panic # "none" /\ UNCHANGED vars

Next == TimerIntr \/ Halted \/ \E t \in Tasks : TaskStep(t)

Spec == Init /\ [][Next]_vars

(***************************************************************************)
(* Fairness.  The interrupt controller latches IRQ0, so a clock interrupt  *)
(* is delivered whenever the flag keeps coming ON; a task that keeps being *)
(* dispatched executes instructions; and every kernel path is finite: it   *)
(* gives its locks back, and a system call returns.                        *)
(***************************************************************************)
Fairness ==
  /\ SF_vars(TimerIntr)
  /\ \A t \in Tasks : SF_vars(TaskStep(t))
  /\ \A t \in Procs \ Spinners :
       /\ SF_vars(panic = "none" /\ cur = t /\ SysExit(t))
       /\ \A l \in Locks :
            /\ SF_vars(panic = "none" /\ cur = t /\ UnlockCall(t, l))
            /\ SF_vars(panic = "none" /\ cur = t /\ repeat[l] = 1 /\ UnlockCall(t, l))

LiveSpec == Spec /\ Fairness

-----------------------------------------------------------------------------
InV == {"V", "push", "ready", "endV"}   \* inside Lock_V

(* Types: value stays 0 or 1, holderRepeatNum and a time slice never pass  *)
(* below 0, and panic names an ASSERT of sync.c or thread.c.               *)
TypeOK ==
  /\ cur \in Tasks
  /\ intr \in {"ON", "OFF"}
  /\ status \in [Tasks -> {"RUNNING", "READY", "BLOCKED"}]
  /\ ready \in Seq(Tasks)
  /\ ticks \in [Tasks -> Nat]
  /\ resumeIF \in [Tasks -> {"ON", "OFF"}]
  /\ value \in [Locks -> {0, 1}]
  /\ holder \in [Locks -> Tasks \cup {NoTask}]
  /\ repeat \in [Locks -> Nat]
  /\ waiters \in [Locks -> Seq(Tasks)]
  /\ pc \in [Ctx -> Labels]
  /\ arg \in [Ctx -> Locks]
  /\ target \in [Ctx -> Tasks]
  /\ slept \in [Tasks -> 0 .. SleepTicks]
  /\ panic \in Asserts \cup {"none"}

(* Task t is between winning value in Lock_P and giving it back in Lock_V. *)
Owns(t, l) ==
  \/ holder[l] = t
  \/ arg[t] = l /\ pc[t] \in {"got"} \cup InV

(* A lock has at most one owner, and while it has one, value is 0, whatever*)
(* the clock does inside Lock_V while Thread_UnBlock has interrupts on.    *)
MutualExclusion ==
  \A l \in Locks \ Sems :
    /\ \A t, u \in Tasks : Owns(t, l) /\ Owns(u, l) => t = u
    /\ value[l] = 1 => \A t \in Tasks : ~Owns(t, l)

(* ready and the waiters lists thread one generalTag per task: a task is   *)
(* never on two lists, nor twice on one, or List_Pop would corrupt them.   *)
Occurrences(s, t) == Cardinality({i \in DOMAIN s : s[i] = t})

ListsOf(t) == {l \in Locks : t \in Elems(waiters[l])}

OneList ==
  \A t \in Tasks :
    /\ Occurrences(ready, t) <= 1
    /\ \A l \in Locks : Occurrences(waiters[l], t) <= 1
    /\ Cardinality(ListsOf(t)) + Occurrences(ready, t) <= 1

(* Between Lock_V popping a waiter and pushing it, only its PCB names it.  *)
BeingWoken(t) == \E c \in Ctx : pc[c] = "push" /\ target[c] = t

(* No task drops out: one that is not running is on the ready list, on the *)
(* list of the lock it wants, or in the hands of a Lock_V that will push it*)
NoTaskLost ==
  panic = "none" =>
    \A t \in Tasks :
      \/ t = cur
      \/ t \in Elems(ready)
      \/ pc[t] = "P" /\ t \in Elems(waiters[arg[t]])
      \/ BeingWoken(t)

(* The running task is the one marked RUNNING, and it is on no list.       *)
RunningTask ==
  panic = "none" =>
    /\ \A t \in Tasks : status[t] = "RUNNING" <=> t = cur
    /\ cur \notin Elems(ready)
    /\ ListsOf(cur) = {}

(* Of all the ASSERTs of sync.c and thread.c only the one on the status of *)
(* the task being woken can fail.                                          *)
OnlyUnblockAssertFails == panic \in {"none", "thread.c:228"}

(* A task on the ready list gets the CPU, although Thread_UnBlock lets     *)
(* woken tasks overtake it.                                                *)
ReadyRuns ==
  \A t \in Tasks : t \in Elems(ready) ~> (cur = t \/ panic # "none")

(* Timer_SleepTicks returns, also in system calls, which yield with        *)
(* interrupts OFF and depend on some other task to let the clock tick.     *)
SleepEnds ==
  \A t \in Tasks : pc[t] = "sleep" ~> (pc[t] # "sleep" \/ panic # "none")

(* The Mutex a task sees: owned from the moment Lock_P lets it through     *)
(* until Lock_V puts value back.                                           *)
Owner(l) == IF \E t \in Tasks : Owns(t, l)
            THEN CHOOSE t \in Tasks : Owns(t, l)
            ELSE NoTask

M == INSTANCE Mutex WITH
       Locks <- Locks \ Sems,
       owner <- [l \in Locks \ Sems |-> Owner(l)],
       depth <- [l \in Locks \ Sems |-> repeat[l]]

(* The locks implement the re-entrant mutex their callers rely on.         *)
ImplementsMutex == M!Spec
=============================================================================
