---------------------------- MODULE SchedProofs ----------------------------
(***************************************************************************)
(* Proofs about Sched and about Ide, which runs on it, for any number of   *)
(* tasks, locks and requests and any priorities.  Three parts: the locks   *)
(* (types, mutual exclusion, the ASSERTs of sync.c on value and            *)
(* holderRepeatNum, and that the locks implement Mutex); the lists of      *)
(* tasks; the disk driver.                                                 *)
(***************************************************************************)
EXTENDS Ide, FiniteSetTheorems, SequenceTheorems, TLAPS

CSLabels == {"got"} \cup InV

(* The bookkeeping of one lock agrees with itself: a holder has counted at *)
(* least one entry, and no holder means none.                              *)
Counted ==
  \A l \in Locks :
    \/ holder[l] = NoTask /\ repeat[l] = 0
    \/ holder[l] \in Tasks /\ repeat[l] > 0

(* Between Lock_P and the assignment of holder, and from the moment        *)
(* holder is cleared until the end of Lock_V, the lock has no holder.      *)
NoHolderInCS ==
  \A t \in Tasks : pc[t] \in CSLabels => holder[arg[t]] = NoTask

(* Lock_Lock and Lock_UnLock are called for locks, not for semaphores.     *)
NoSems ==
  /\ \A t \in Tasks : pc[t] \in {"P"} \cup CSLabels => arg[t] \notin Sems
  /\ \A l \in Sems : holder[l] = NoTask

(* The ASSERTs of sync.c on a lock's counters. *)
LockAsserts == {"sync.c:29", "sync.c:41", "sync.c:52", "sync.c:67"}

(* No ASSERT on a lock's value or holderRepeatNum ever fails.              *)
CountersAssertsHold == panic \notin LockAsserts

LockInv ==
  /\ MutualExclusion
  /\ Counted
  /\ NoHolderInCS
  /\ NoSems
  /\ CountersAssertsHold

IInv == TypeOK /\ LockInv

-----------------------------------------------------------------------------
(* List_Append, List_Push and List_Pop keep lists lists of tasks.          *)
LEMMA ListTypes ==
  ASSUME NEW S, NEW s \in Seq(S), NEW t \in S
  PROVE  /\ Appended(s, t) \in Seq(S)
         /\ Pushed(s, t) \in Seq(S)
         /\ s # <<>> => Head(s) \in S /\ Popped(s) \in Seq(S)
BY DEF Appended, Pushed, Popped

(* A step calls Thread_Schedule with statuses and a list of their types.   *)
Scheduled ==
  \E st \in [Tasks -> {"RUNNING", "READY", "BLOCKED"}],
     rd \in Seq(Tasks), iflag \in {"ON", "OFF"} : Schedule(st, rd, iflag)

(* Thread_Schedule leaves every variable it writes in its type, and picks  *)
(* a task.                                                                 *)
LEMMA ScheduleType ==
  ASSUME SchedAssumption, TypeOK, Scheduled
  PROVE  /\ cur' \in Tasks
         /\ intr' \in {"ON", "OFF"}
         /\ status' \in [Tasks -> {"RUNNING", "READY", "BLOCKED"}]
         /\ ready' \in Seq(Tasks)
         /\ ticks' \in [Tasks -> Nat]
         /\ resumeIF' \in [Tasks -> {"ON", "OFF"}]
<1> PICK st \in [Tasks -> {"RUNNING", "READY", "BLOCKED"}],
         rd \in Seq(Tasks), iflag \in {"ON", "OFF"} : Schedule(st, rd, iflag)
  BY DEF Scheduled
<1> DEFINE rotate == st[cur] = "RUNNING"
           st1 == IF rotate THEN [st EXCEPT ![cur] = "READY"] ELSE st
           rd1 == IF rotate THEN Appended(rd, cur) ELSE rd
           next == IF rd1 = <<>> THEN cur ELSE Head(rd1)
<1>1. cur \in Tasks
  BY DEF TypeOK
<1>2. st1 \in [Tasks -> {"RUNNING", "READY", "BLOCKED"}]
  OBVIOUS
<1>3. rd1 \in Seq(Tasks)
  BY <1>1, ListTypes
<1>4. next \in Tasks /\ (rd1 # <<>> => Popped(rd1) \in Seq(Tasks))
  <2> HIDE DEF rd1
  <2> QED BY <1>1, <1>3, ListTypes
<1>5. /\ cur' = next
      /\ status' = IF rd1 = <<>> THEN st1 ELSE MarkRunning(st1, next)
      /\ ready' = IF rd1 = <<>> THEN rd1 ELSE Popped(rd1)
      /\ ticks' = IF rotate THEN [ticks EXCEPT ![cur] = Priority[cur]] ELSE ticks
      /\ resumeIF' = [resumeIF EXCEPT ![cur] = iflag]
      /\ intr' = resumeIF'[next]
  BY DEF Schedule
<1> HIDE DEF st1, rd1, next, rotate
<1>6. ticks' \in [Tasks -> Nat]
  BY <1>1, <1>5 DEF TypeOK, SchedAssumption
<1>7. status' \in [Tasks -> {"RUNNING", "READY", "BLOCKED"}]
  BY <1>2, <1>4, <1>5 DEF MarkRunning
<1>8. resumeIF' \in [Tasks -> {"ON", "OFF"}]
  BY <1>1, <1>5 DEF TypeOK
<1> QED BY <1>3, <1>4, <1>5, <1>6, <1>7, <1>8

-----------------------------------------------------------------------------
(* A failed ASSERT changes nothing but panic.                              *)
LEMMA PanicType ==
  ASSUME TypeOK, panic' \in Asserts, UNCHANGED <<taskVars, lockVars, ctxVars>>
  PROVE  TypeOK'
BY DEF TypeOK, taskVars, lockVars, ctxVars

(* What Thread_Yield leaves behind is well typed.                          *)
LEMMA YieldType ==
  ASSUME SchedAssumption, TypeOK, NEW t \in Tasks, Yield(t)
  PROVE  TypeOK'
<1>1. CASE t \in Elems(ready)
  BY <1>1, PanicType DEF Yield, Panic, Asserts
<1>2. CASE t \notin Elems(ready)
  <2>1. Schedule([status EXCEPT ![t] = "READY"], Appended(ready, t), SavedIF(t))
        /\ UNCHANGED <<lockVars, ctxVars, panic>>
    BY <1>2 DEF Yield
  <2>2. /\ [status EXCEPT ![t] = "READY"]
              \in [Tasks -> {"RUNNING", "READY", "BLOCKED"}]
        /\ SavedIF(t) \in {"ON", "OFF"}
    BY DEF TypeOK, SavedIF
  <2>3. Appended(ready, t) \in Seq(Tasks)
    BY ListTypes DEF TypeOK
  <2>4. Scheduled
    <3> USE <2>2, <2>3 DEF Scheduled
    <3> WITNESS [status EXCEPT ![t] = "READY"]
                  \in [Tasks -> {"RUNNING", "READY", "BLOCKED"}],
                Appended(ready, t) \in Seq(Tasks),
                SavedIF(t) \in {"ON", "OFF"}
    <3> QED BY <2>1
  <2> QED
    BY <2>1, <2>4, ScheduleType DEF TypeOK, lockVars, ctxVars
<1> QED BY <1>1, <1>2

(* The labels a task moves to inside the lock code are labels.             *)
LEMMA GotoType ==
  ASSUME TypeOK, NEW t \in Ctx, NEW label \in Labels,
         pc' = [pc EXCEPT ![t] = label]
  PROVE  pc' \in [Ctx -> Labels]
BY DEF TypeOK

(* Every step of a task inside the lock code is well typed.                *)
LEMMA LockStepType ==
  ASSUME SchedAssumption, IInv, NEW t \in Tasks, LockStep(t)
  PROVE  TypeOK'
<1> USE DEF IInv, LockInv
<1>0. t \in Ctx /\ arg[t] \in Locks
  BY DEF TypeOK, Ctx
<1>1. ASSUME NEW l \in Locks, LockCall(t, l) PROVE TypeOK'
  <2>1. UNCHANGED <<taskVars, value, holder, waiters, target, slept, panic>>
    BY <1>1 DEF LockCall
  <2>2. pc' \in [Ctx -> Labels]
    BY <1>0, <1>1 DEF LockCall, Goto, TypeOK, Labels
  <2>3. arg' \in [Ctx -> Locks]
    BY <1>0, <1>1 DEF LockCall, TypeOK
  <2>4. repeat' \in [Locks -> Nat]
    <3>1. repeat \in [Locks -> Nat]
      BY DEF TypeOK
    <3>2. repeat' = repeat \/ repeat' = [repeat EXCEPT ![l] = @ + 1]
      BY <1>1 DEF LockCall
    <3> QED BY <3>1, <3>2
  <2> QED
    BY <2>1, <2>2, <2>3, <2>4 DEF TypeOK, taskVars
<1>2. ASSUME NEW l \in Locks, UnlockCall(t, l) PROVE TypeOK'
  <2>1. repeat[l] - 1 \in Nat
    <3>1. holder[l] = t
      BY <1>2 DEF UnlockCall
    <3>2. t # NoTask
      BY <1>0 DEF SchedAssumption
    <3>3. repeat[l] > 0
      BY <3>1, <3>2 DEF Counted
    <3>4. repeat[l] \in Nat
      BY DEF TypeOK
    <3> QED BY <3>3, <3>4
  <2>2. repeat' \in [Locks -> Nat]
    <3>1. repeat \in [Locks -> Nat] /\ repeat' = [repeat EXCEPT ![l] = @ - 1]
      BY <1>2 DEF TypeOK, UnlockCall
    <3> QED BY <2>1, <3>1
  <2>3. UNCHANGED <<taskVars, value, waiters, target, slept, panic>>
    BY <1>2 DEF UnlockCall
  <2>4. /\ holder' \in [Locks -> Tasks \cup {NoTask}]
        /\ pc' \in [Ctx -> Labels]
        /\ arg' \in [Ctx -> Locks]
    <3>1. CASE Nested(l)
      BY <1>2, <3>1 DEF UnlockCall, TypeOK
    <3>2. CASE ~Nested(l)
      <4>1. /\ holder' = [holder EXCEPT ![l] = NoTask]
            /\ pc' = [pc EXCEPT ![t] = "V"]
            /\ arg' = [arg EXCEPT ![t] = l]
        BY <1>2, <3>2 DEF UnlockCall, Goto
      <4>2. holder' \in [Locks -> Tasks \cup {NoTask}]
        BY <4>1 DEF TypeOK
      <4>3. pc' \in [Ctx -> Labels]
        BY <1>0, <4>1, GotoType DEF Labels
      <4>4. arg' \in [Ctx -> Locks]
        BY <1>0, <4>1 DEF TypeOK
      <4> QED BY <4>2, <4>3, <4>4
    <3> QED BY <3>1, <3>2
  <2> QED
    BY <2>2, <2>3, <2>4 DEF TypeOK, taskVars
<1>3. CASE LockP(t)
  <2>1. CASE value[arg[t]] # 0
    <3>1. CASE value[arg[t]] = 1
      <4>1. value' \in [Locks -> {0, 1}]
        <5>1. /\ value \in [Locks -> {0, 1}]
              /\ value' = [value EXCEPT ![arg[t]] = @ - 1]
          BY <1>3, <2>1, <3>1 DEF TypeOK, LockP
        <5> QED BY <1>0, <3>1, <5>1
      <4>2. /\ intr' \in {"ON", "OFF"}
            /\ pc' \in [Ctx -> Labels]
            /\ UNCHANGED <<cur, status, ready, ticks, resumeIF, holder, repeat,
                           waiters, arg, target, slept, panic>>
        BY <1>0, <1>3, <2>1, <3>1 DEF LockP, Goto, TypeOK, Labels, SavedIF
      <4> QED BY <4>1, <4>2 DEF TypeOK
    <3>2. CASE value[arg[t]] # 1
      BY <1>3, <2>1, <3>2, PanicType DEF LockP, Panic, Asserts
    <3> QED BY <3>1, <3>2
  <2>2. CASE value[arg[t]] = 0
    <3>1. CASE t \in Elems(waiters[arg[t]])
      BY <1>3, <2>2, <3>1, PanicType DEF LockP, Panic, Asserts
    <3>2. CASE t \notin Elems(waiters[arg[t]])
      <4>1. /\ waiters' = [waiters EXCEPT ![arg[t]] = Appended(@, t)]
            /\ Schedule([status EXCEPT ![t] = "BLOCKED"], ready, "OFF")
            /\ UNCHANGED <<value, holder, repeat, ctxVars, panic>>
        BY <1>3, <2>2, <3>2 DEF LockP, Block
      <4>2. [status EXCEPT ![t] = "BLOCKED"]
              \in [Tasks -> {"RUNNING", "READY", "BLOCKED"}]
        BY DEF TypeOK
      <4>3. waiters' \in [Locks -> Seq(Tasks)]
        <5>1. waiters \in [Locks -> Seq(Tasks)]
          BY DEF TypeOK
        <5>2. Appended(waiters[arg[t]], t) \in Seq(Tasks)
          BY <1>0, <5>1, ListTypes
        <5> QED BY <1>0, <4>1, <5>1, <5>2
      <4>4. Scheduled
        <5> USE <4>2 DEF Scheduled
        <5> ready \in Seq(Tasks)
          BY DEF TypeOK
        <5> WITNESS [status EXCEPT ![t] = "BLOCKED"]
                      \in [Tasks -> {"RUNNING", "READY", "BLOCKED"}],
                    ready \in Seq(Tasks),
                    "OFF" \in {"ON", "OFF"}
        <5> QED BY <4>1
      <4> QED
        BY <4>1, <4>3, <4>4, ScheduleType DEF TypeOK, ctxVars
    <3> QED BY <3>1, <3>2
  <2> QED BY <2>1, <2>2
<1>4. CASE LockGot(t)
  <2>1. CASE repeat[arg[t]] = 0
    <3>1. /\ holder' \in [Locks -> Tasks \cup {NoTask}]
          /\ repeat' = [repeat EXCEPT ![arg[t]] = 1]
          /\ pc' \in [Ctx -> Labels]
          /\ UNCHANGED <<taskVars, value, waiters, arg, target, slept, panic>>
      <4>1. /\ holder' = [holder EXCEPT ![arg[t]] = t]
            /\ repeat' = [repeat EXCEPT ![arg[t]] = 1]
            /\ pc' = [pc EXCEPT ![t] = "run"]
            /\ UNCHANGED <<taskVars, value, waiters, arg, target, slept, panic>>
        BY <1>4, <2>1 DEF LockGot, Goto
      <4>2. holder' \in [Locks -> Tasks \cup {NoTask}]
        BY <1>0, <4>1 DEF TypeOK
      <4>3. pc' \in [Ctx -> Labels]
        BY <1>0, <4>1, GotoType DEF Labels
      <4> QED BY <4>1, <4>2, <4>3
    <3>2. repeat' \in [Locks -> Nat]
      BY <3>1 DEF TypeOK
    <3> QED BY <3>1, <3>2 DEF TypeOK, taskVars
  <2>2. CASE repeat[arg[t]] # 0
    BY <1>4, <2>2, PanicType DEF LockGot, Panic, Asserts
  <2> QED BY <2>1, <2>2
<1>5. CASE LockV(t)
  <2>1. CASE value[arg[t]] # 0
    BY <1>5, <2>1, PanicType DEF LockV, Panic, Asserts
  <2>2. CASE value[arg[t]] = 0 /\ waiters[arg[t]] = <<>>
    <3>1. value' \in [Locks -> {0, 1}]
      <4>1. /\ value \in [Locks -> {0, 1}]
            /\ value' = [value EXCEPT ![arg[t]] = @ + 1]
        BY <1>5, <2>2 DEF TypeOK, LockV
      <4> QED BY <1>0, <2>2, <4>1
    <3>2. /\ intr' \in {"ON", "OFF"}
          /\ pc' \in [Ctx -> Labels]
          /\ UNCHANGED <<cur, status, ready, ticks, resumeIF, holder, repeat,
                         waiters, arg, target, slept, panic>>
      BY <1>0, <1>5, <2>2 DEF LockV, Goto, TypeOK, Labels, SavedIF
    <3> QED BY <3>1, <3>2 DEF TypeOK
  <2>3. CASE value[arg[t]] = 0 /\ waiters[arg[t]] # <<>>
    <3>1. /\ Head(waiters[arg[t]]) \in Tasks
          /\ Popped(waiters[arg[t]]) \in Seq(Tasks)
      BY <1>0, <2>3, ListTypes DEF TypeOK
    <3>2. /\ target' \in [Ctx -> Tasks]
          /\ waiters' \in [Locks -> Seq(Tasks)]
          /\ intr' \in {"ON", "OFF"}
          /\ pc' \in [Ctx -> Labels]
          /\ UNCHANGED <<cur, status, ready, ticks, resumeIF, value, holder,
                         repeat, arg, slept, panic>>
      <4>1. /\ target' = [target EXCEPT ![t] = Head(waiters[arg[t]])]
            /\ waiters' = [waiters EXCEPT ![arg[t]] = Popped(@)]
            /\ intr' = "ON"
            /\ pc' = [pc EXCEPT ![t] = "push"]
            /\ UNCHANGED <<cur, status, ready, ticks, resumeIF, value, holder,
                           repeat, arg, slept, panic>>
        BY <1>5, <2>3 DEF LockV, Goto
      <4>2. target' \in [Ctx -> Tasks]
        BY <1>0, <3>1, <4>1 DEF TypeOK
      <4>3. waiters' \in [Locks -> Seq(Tasks)]
        <5>1. waiters \in [Locks -> Seq(Tasks)]
          BY DEF TypeOK
        <5> QED BY <1>0, <3>1, <4>1, <5>1
      <4>4. pc' \in [Ctx -> Labels]
        BY <1>0, <4>1, GotoType DEF Labels
      <4> QED BY <4>1, <4>2, <4>3, <4>4
    <3> QED BY <3>2 DEF TypeOK
  <2> QED BY <2>1, <2>2, <2>3
<1>6. CASE UnBlockPush(t)
  <2>1. Pushed(ready, target[t]) \in Seq(Tasks)
    BY <1>0, ListTypes DEF TypeOK
  <2> QED
    BY <1>0, <1>6, <2>1, PanicType, ZenonT(30) DEF UnBlockPush, Panic, Asserts, Goto, TypeOK, Labels, lockVars
<1>7. CASE UnBlockReady(t)
  BY <1>0, <1>7 DEF UnBlockReady, Goto, TypeOK, Labels, lockVars
<1>8. CASE LockVEnd(t)
  <2>1. Main \in Tasks
    BY SchedAssumption DEF SchedAssumption, Tasks
  <2>2. CASE value[arg[t]] = 0
    <3>1. value' \in [Locks -> {0, 1}]
      <4>1. /\ value \in [Locks -> {0, 1}]
            /\ value' = [value EXCEPT ![arg[t]] = @ + 1]
        BY <1>8, <2>2 DEF TypeOK, LockVEnd
      <4> QED BY <1>0, <2>2, <4>1
    <3>2. /\ intr' \in {"ON", "OFF"}
          /\ target' \in [Ctx -> Tasks]
          /\ pc' \in [Ctx -> Labels]
          /\ UNCHANGED <<cur, status, ready, ticks, resumeIF, holder, repeat,
                         waiters, arg, slept, panic>>
      <4>1. /\ intr' = SavedIF(t)
            /\ target' = [target EXCEPT ![t] = Main]
            /\ pc' = [pc EXCEPT ![t] = "run"]
            /\ UNCHANGED <<cur, status, ready, ticks, resumeIF, holder, repeat,
                           waiters, arg, slept, panic>>
        BY <1>8, <2>2 DEF LockVEnd, Goto
      <4>2. target' \in [Ctx -> Tasks]
        BY <1>0, <2>1, <4>1 DEF TypeOK
      <4>3. pc' \in [Ctx -> Labels]
        BY <1>0, <4>1, GotoType DEF Labels
      <4> QED BY <4>1, <4>2, <4>3 DEF SavedIF
    <3> QED BY <3>1, <3>2 DEF TypeOK
  <2>3. CASE value[arg[t]] # 0
    BY <1>8, <2>3, PanicType DEF LockVEnd, Panic, Asserts
  <2> QED BY <2>2, <2>3
<1> QED
  BY <1>1, <1>2, <1>3, <1>4, <1>5, <1>6, <1>7, <1>8 DEF LockStep

(* Every step of the system is well typed.                                 *)
LEMMA TypeStep ==
  ASSUME SchedAssumption, IInv, [Next]_vars
  PROVE  TypeOK'
<1> TypeOK
  BY DEF IInv
<1>1. ASSUME NEW t \in Tasks, TaskStep(t) PROVE TypeOK'
  <2>0. t \in Ctx
    BY DEF Ctx
  <2>1. CASE LockStep(t)
    BY <2>1, LockStepType
  <2>2. CASE SleepCall(t)
    <3>1. pc' = [pc EXCEPT ![t] = "sleep"]
          /\ UNCHANGED <<taskVars, lockVars, arg, target, slept, panic>>
      BY <2>2 DEF SleepCall, Goto
    <3>2. pc' \in [Ctx -> Labels]
      BY <2>0, <3>1, GotoType DEF Labels
    <3> QED BY <3>1, <3>2 DEF TypeOK, taskVars, lockVars
  <2>3. CASE SleepStep(t)
    <3>1. CASE slept[t] < SleepTicks
      BY <2>3, <3>1, YieldType DEF SleepStep
    <3>2. CASE ~(slept[t] < SleepTicks)
      <4>1. /\ slept' = [slept EXCEPT ![t] = 0]
            /\ pc' = [pc EXCEPT ![t] = "run"]
            /\ UNCHANGED <<taskVars, lockVars, arg, target, panic>>
        BY <2>3, <3>2 DEF SleepStep, Goto
      <4>2. pc' \in [Ctx -> Labels]
        BY <2>0, <4>1, GotoType DEF Labels
      <4>3. slept' \in [Tasks -> 0 .. SleepTicks]
        <5>1. slept \in [Tasks -> 0 .. SleepTicks]
          BY DEF TypeOK
        <5>2. 0 \in 0 .. SleepTicks
          BY DEF SchedAssumption
        <5> QED BY <4>1, <5>1, <5>2
      <4> QED BY <4>1, <4>2, <4>3 DEF TypeOK, taskVars, lockVars
    <3> QED BY <3>1, <3>2
  <2>4. CASE SysEnter(t) \/ SysExit(t)
    <3>1. /\ pc' = [pc EXCEPT ![t] = "run"] \/ pc' = [pc EXCEPT ![t] = "user"]
          /\ intr' \in {"ON", "OFF"}
          /\ UNCHANGED <<cur, status, ready, ticks, resumeIF, lockVars,
                         arg, target, slept, panic>>
      BY <2>4 DEF SysEnter, SysExit, Goto
    <3>2. pc' \in [Ctx -> Labels]
      BY <2>0, <3>1, GotoType DEF Labels
    <3> QED BY <3>1, <3>2 DEF TypeOK, lockVars
  <2> QED
    BY <1>1, <2>1, <2>2, <2>3, <2>4 DEF TaskStep
<1>2. CASE TimerIntr
  <2>1. CASE SliceOver(cur) /\ status[cur] = "RUNNING" /\ cur \in Elems(ready)
    BY <1>2, <2>1, PanicType DEF TimerIntr, Panic, Asserts
  <2>2. CASE ~(SliceOver(cur) /\ status[cur] = "RUNNING" /\ cur \in Elems(ready))
    <3>1. slept' \in [Tasks -> 0 .. SleepTicks]
      <4>1. slept' = [t \in Tasks |->
                        IF pc[t] = "sleep" /\ slept[t] < SleepTicks
                        THEN slept[t] + 1 ELSE slept[t]]
        BY <1>2, <2>2 DEF TimerIntr
      <4>2. slept \in [Tasks -> 0 .. SleepTicks] /\ SleepTicks \in Nat
        BY DEF TypeOK, SchedAssumption
      <4> QED BY <4>1, <4>2
    <3>2. UNCHANGED <<lockVars, pc, arg, target, panic>>
      BY <1>2, <2>2 DEF TimerIntr
    <3>3. CASE SliceOver(cur)
      <4>1. Scheduled
        <5> status \in [Tasks -> {"RUNNING", "READY", "BLOCKED"}]
            /\ ready \in Seq(Tasks)
          BY DEF TypeOK
        <5> USE DEF Scheduled
        <5> WITNESS status \in [Tasks -> {"RUNNING", "READY", "BLOCKED"}],
                    ready \in Seq(Tasks), "ON" \in {"ON", "OFF"}
        <5> QED BY <1>2, <2>2, <3>3 DEF TimerIntr
      <4> QED BY <3>1, <3>2, <4>1, ScheduleType DEF TypeOK, lockVars
    <3>4. CASE ~SliceOver(cur)
      <4>1. /\ ticks' = [ticks EXCEPT ![cur] = @ - 1]
            /\ UNCHANGED <<cur, intr, status, ready, resumeIF>>
        BY <1>2, <2>2, <3>4 DEF TimerIntr
      <4>2. ticks' \in [Tasks -> Nat]
        <5>1. ticks \in [Tasks -> Nat] /\ cur \in Tasks /\ ticks[cur] # 0
          BY <3>4 DEF TypeOK, SliceOver
        <5> QED BY <4>1, <5>1
      <4> QED BY <3>1, <3>2, <4>1, <4>2 DEF TypeOK, lockVars
    <3> QED BY <3>3, <3>4
  <2> QED BY <2>1, <2>2
<1>3. CASE UNCHANGED vars
  BY <1>3 DEF TypeOK, vars, taskVars, lockVars, ctxVars
<1> QED
  BY <1>1, <1>2, <1>3 DEF Next, Halted

-----------------------------------------------------------------------------
(* A step that writes no lock and moves no task into or out of the lock    *)
(* code, or only along inside Lock_V, preserves the lock invariant.        *)
LEMMA LockFrame ==
  ASSUME LockInv,
         UNCHANGED <<value, holder, repeat, arg>>,
         \A t \in Tasks :
           /\ pc'[t] \in CSLabels <=> pc[t] \in CSLabels
           /\ pc'[t] \in {"P"} \cup CSLabels => pc[t] \in {"P"} \cup CSLabels,
         panic' = panic \/ panic' \notin LockAsserts
  PROVE  LockInv'
<1>1. \A t \in Tasks, l \in Locks : Owns(t, l)' <=> Owns(t, l)
  BY DEF Owns, CSLabels
<1>2. MutualExclusion'
  BY <1>1 DEF LockInv, MutualExclusion
<1>3. Counted' /\ NoHolderInCS' /\ NoSems'
  BY DEF LockInv, Counted, NoHolderInCS, NoSems
<1>4. CountersAssertsHold'
  BY DEF LockInv, CountersAssertsHold
<1> QED BY <1>2, <1>3, <1>4 DEF LockInv

(* What the lock code does to one lock preserves the lock invariant.       *)
LEMMA LockStepInv ==
  ASSUME SchedAssumption, IInv, NEW t \in Tasks, LockStep(t)
  PROVE  LockInv'
<1>0. /\ t \in Ctx
      /\ arg[t] \in Locks
      /\ t # NoTask
      /\ pc \in [Ctx -> Labels]
      /\ Tasks \subseteq Ctx
      /\ arg \in [Ctx -> Locks]
      /\ holder \in [Locks -> Tasks \cup {NoTask}]
      /\ value \in [Locks -> {0, 1}]
      /\ repeat \in [Locks -> Nat]
      /\ NoTask \notin Tasks
  BY DEF IInv, TypeOK, Ctx, SchedAssumption
<1> USE DEF IInv, LockInv
<1>1. ASSUME NEW l \in Locks, LockCall(t, l) PROVE LockInv'
  <2>1. CASE holder[l] # t
    <3>1. /\ pc' = [pc EXCEPT ![t] = "P"]
          /\ arg' = [arg EXCEPT ![t] = l]
          /\ UNCHANGED <<value, holder, repeat, panic>>
          /\ pc[t] = "run"
          /\ l \notin Sems
      BY <1>1, <2>1 DEF LockCall, Goto
    <3>2. \A u \in Tasks, m \in Locks : Owns(u, m)' <=> Owns(u, m)
      BY <1>0, <3>1 DEF Owns, InV
    <3>3. MutualExclusion'
      BY <3>1, <3>2 DEF MutualExclusion
    <3>4. NoHolderInCS' /\ NoSems'
      BY <1>0, <3>1 DEF NoHolderInCS, NoSems, CSLabels, InV
    <3> QED
      BY <3>1, <3>3, <3>4 DEF Counted, CountersAssertsHold
  <2>2. CASE holder[l] = t
    <3>1. /\ repeat' = [repeat EXCEPT ![l] = @ + 1]
          /\ UNCHANGED <<value, holder, arg, pc, panic>>
      BY <1>1, <2>2 DEF LockCall
    <3>2. Counted'
      BY <1>0, <2>2, <3>1 DEF Counted
    <3>3. MutualExclusion'
      BY <3>1 DEF MutualExclusion, Owns
    <3> QED
      BY <3>1, <3>2, <3>3 DEF NoHolderInCS, NoSems, CountersAssertsHold
  <2> QED BY <2>1, <2>2
<1>2. ASSUME NEW l \in Locks, UnlockCall(t, l) PROVE LockInv'
  <2>1. CASE Nested(l)
    <3>1. /\ repeat' = [repeat EXCEPT ![l] = @ - 1]
          /\ UNCHANGED <<value, holder, arg, pc, panic>>
          /\ holder[l] = t
          /\ repeat[l] > 1
      BY <1>2, <2>1 DEF UnlockCall, Nested
    <3>2. Counted'
      BY <1>0, <3>1 DEF Counted
    <3>3. MutualExclusion'
      BY <3>1 DEF MutualExclusion, Owns
    <3> QED
      BY <3>1, <3>2, <3>3 DEF NoHolderInCS, NoSems, CountersAssertsHold
  <2>2. CASE ~Nested(l)
    <3>1. /\ repeat' = [repeat EXCEPT ![l] = @ - 1]
          /\ holder' = [holder EXCEPT ![l] = NoTask]
          /\ pc' = [pc EXCEPT ![t] = "V"]
          /\ arg' = [arg EXCEPT ![t] = l]
          /\ UNCHANGED <<value, panic>>
          /\ holder[l] = t
          /\ pc[t] = "run"
          /\ ~(repeat[l] > 1)
      BY <1>2, <2>2 DEF UnlockCall, Nested, Goto
    <3>2. repeat[l] = 1
      BY <1>0, <3>1 DEF Counted
    <3>3. Counted'
      BY <1>0, <3>1, <3>2 DEF Counted
    <3>4. \A u \in Tasks, m \in Locks : Owns(u, m)' => Owns(u, m)
      BY <1>0, <3>1 DEF Owns, InV
    <3>5. MutualExclusion'
      BY <3>1, <3>4 DEF MutualExclusion
    <3>6. NoHolderInCS'
      BY <1>0, <3>1 DEF NoHolderInCS
    <3>7. NoSems'
      BY <1>0, <3>1 DEF NoSems, CSLabels, InV
    <3> QED
      BY <3>1, <3>3, <3>5, <3>6, <3>7 DEF CountersAssertsHold
  <2> QED BY <2>1, <2>2
<1>3. CASE LockP(t)
  <2> DEFINE l == arg[t]
  <2>1. CASE value[l] = 1
    <3>1. /\ value' = [value EXCEPT ![l] = @ - 1]
          /\ pc' = [pc EXCEPT ![t] = IF l \in Sems THEN "run" ELSE "got"]
          /\ UNCHANGED <<holder, repeat, arg, panic>>
          /\ pc[t] = "P"
      BY <1>3, <2>1 DEF LockP, Goto
    <3>2. l \notin Sems /\ pc' = [pc EXCEPT ![t] = "got"]
      BY <3>1 DEF NoSems
    <3>3. value' = [value EXCEPT ![l] = 0]
      BY <1>0, <2>1, <3>1
    <3>4. \A u \in Tasks : ~Owns(u, l)
      BY <1>0, <2>1, <3>2 DEF MutualExclusion
    <3>5. holder[l] = NoTask
      BY <1>0, <3>4 DEF Owns
    <3> HIDE DEF l
    <3>6. \A u \in Tasks, m \in Locks :
            Owns(u, m)' <=> Owns(u, m) \/ (u = t /\ m = l)
      BY <1>0, <3>1, <3>2 DEF Owns, l, InV
    <3>7. MutualExclusion'
      BY <1>0, <3>3, <3>4, <3>6 DEF MutualExclusion, l
    <3>8. NoHolderInCS' /\ NoSems'
      BY <1>0, <3>1, <3>2, <3>5 DEF NoHolderInCS, NoSems, CSLabels, InV, l
    <3> QED
      BY <3>1, <3>7, <3>8 DEF Counted, CountersAssertsHold
  <2>2. CASE value[l] = 0
    <3>1. CASE t \in Elems(waiters[l])
      <4>1. panic' = "sync.c:20" /\ UNCHANGED <<lockVars, ctxVars>>
        BY <1>3, <2>2, <3>1 DEF LockP, Panic
      <4> QED
        BY <4>1, LockFrame DEF lockVars, ctxVars, LockAsserts
    <3>2. CASE t \notin Elems(waiters[l])
      <4>1. UNCHANGED <<value, holder, repeat, ctxVars, panic>>
        BY <1>3, <2>2, <3>2 DEF LockP
      <4> QED
        BY <4>1, LockFrame DEF ctxVars
    <3> QED BY <3>1, <3>2
  <2> QED BY <1>0, <2>1, <2>2
<1>4. CASE LockGot(t)
  <2> DEFINE l == arg[t]
  <2>1. pc[t] = "got" /\ holder[l] = NoTask /\ repeat[l] = 0 /\ l \notin Sems
    <3>1. pc[t] = "got"
      BY <1>4 DEF LockGot
    <3>2. holder[l] = NoTask /\ l \notin Sems
      BY <3>1 DEF NoHolderInCS, NoSems, CSLabels
    <3>3. repeat[l] = 0
      BY <1>0, <3>2 DEF Counted
    <3> QED BY <3>1, <3>2, <3>3
  <2>2. /\ holder' = [holder EXCEPT ![l] = t]
        /\ repeat' = [repeat EXCEPT ![l] = 1]
        /\ pc' = [pc EXCEPT ![t] = "run"]
        /\ UNCHANGED <<value, arg, panic>>
    BY <1>4, <2>1 DEF LockGot, Goto
  <2>3. \A u \in Tasks : pc[u] \in CSLabels /\ arg[u] = l => u = t
    BY <1>0, <2>1 DEF MutualExclusion, Owns, CSLabels
  <2> HIDE DEF l
  <2>4. \A u \in Tasks, m \in Locks : Owns(u, m)' <=> Owns(u, m)
    BY <1>0, <2>1, <2>2 DEF Owns, InV, l
  <2>5. MutualExclusion'
    BY <2>2, <2>4 DEF MutualExclusion
  <2>6. Counted'
    BY <1>0, <2>2 DEF Counted, l
  <2>7. NoHolderInCS'
    <3> SUFFICES ASSUME NEW u \in Tasks, pc'[u] \in CSLabels
                 PROVE  holder'[arg'[u]] = NoTask
      BY DEF NoHolderInCS
    <3>1. u # t /\ pc[u] \in CSLabels
      BY <1>0, <2>2 DEF CSLabels, InV
    <3>2. arg[u] # l
      BY <2>3, <3>1
    <3> QED BY <1>0, <2>2, <3>1, <3>2 DEF NoHolderInCS, l
  <2>8. NoSems'
    BY <1>0, <2>1, <2>2 DEF NoSems, CSLabels, InV, l
  <2> QED
    BY <2>2, <2>5, <2>6, <2>7, <2>8 DEF CountersAssertsHold
<1>5. ASSUME pc[t] \in InV, value[arg[t]] = 0,
             value' = [value EXCEPT ![arg[t]] = @ + 1],
             pc' = [pc EXCEPT ![t] = "run"],
             UNCHANGED <<holder, repeat, arg, panic>>
      PROVE  LockInv'
  <2>0. PICK l \in Locks : l = arg[t]
    BY <1>0
  <2>1. Owns(t, l) /\ l \notin Sems /\ holder[l] = NoTask
    BY <1>0, <1>5, <2>0 DEF Owns, NoSems, NoHolderInCS, CSLabels
  <2>2. \A u \in Tasks : Owns(u, l) => u = t
    BY <1>0, <2>1 DEF MutualExclusion
  <2>3. \A u \in Tasks, m \in Locks : Owns(u, m)' => Owns(u, m)
    BY <1>0, <1>5 DEF Owns, InV
  <2>4. \A u \in Tasks : ~Owns(u, l)'
    BY <1>0, <1>5, <2>1, <2>2, <2>3, <2>0 DEF Owns, InV
  <2>5. MutualExclusion'
    <3>1. \A m \in Locks : m # l => value'[m] = value[m]
      BY <1>0, <1>5, <2>0
    <3>2. \A m \in Locks \ Sems, u, w \in Tasks :
            Owns(u, m)' /\ Owns(w, m)' => u = w
      BY <2>3 DEF MutualExclusion
    <3>3. \A m \in Locks \ Sems : value'[m] = 1 => \A u \in Tasks : ~Owns(u, m)'
      <4>1. ASSUME NEW m \in Locks \ Sems, NEW u \in Tasks, Owns(u, m)'
            PROVE  value'[m] # 1
        <5>1. m # l
          BY <2>4, <4>1
        <5>2. Owns(u, m)
          BY <2>3, <4>1
        <5> QED BY <3>1, <5>1, <5>2 DEF MutualExclusion
      <4> QED BY <4>1
    <3> QED BY <3>2, <3>3 DEF MutualExclusion
  <2>6. NoHolderInCS' /\ NoSems'
    BY <1>0, <1>5 DEF NoHolderInCS, NoSems, CSLabels, InV
  <2> QED
    BY <1>5, <2>5, <2>6 DEF Counted, CountersAssertsHold
<1>6. ASSUME pc[t] \in InV PROVE value[arg[t]] = 0
  <2>1. Owns(t, arg[t]) /\ arg[t] \notin Sems
    BY <1>6 DEF Owns, NoSems, CSLabels
  <2> QED BY <1>0, <2>1 DEF MutualExclusion
<1>7. CASE LockV(t)
  <2>0. pc[t] = "V" /\ pc[t] \in InV
    BY <1>7 DEF LockV, InV
  <2>1. CASE waiters[arg[t]] = <<>>
    BY <1>5, <1>6, <1>7, <2>0, <2>1 DEF LockV, Goto
  <2>2. CASE waiters[arg[t]] # <<>>
    <3>1. /\ pc' = [pc EXCEPT ![t] = "push"]
          /\ UNCHANGED <<value, holder, repeat, arg, panic>>
      BY <1>6, <1>7, <2>0, <2>2 DEF LockV, Goto
    <3> QED
      BY <1>0, <2>0, <3>1, LockFrame DEF CSLabels, InV
  <2> QED BY <2>1, <2>2
<1>8. CASE UnBlockPush(t)
  <2>1. CASE status[target[t]] # "BLOCKED" \/ target[t] \in Elems(ready)
    <3>1. panic' \notin LockAsserts /\ UNCHANGED <<lockVars, ctxVars>>
      BY <1>8, <2>1 DEF UnBlockPush, Panic, LockAsserts
    <3> QED BY <3>1, LockFrame DEF lockVars, ctxVars
  <2>2. CASE ~(status[target[t]] # "BLOCKED" \/ target[t] \in Elems(ready))
    <3>1. /\ pc[t] = "push"
          /\ pc' = [pc EXCEPT ![t] = "ready"]
          /\ UNCHANGED <<lockVars, arg, panic>>
      BY <1>8, <2>2 DEF UnBlockPush, Goto
    <3> QED
      BY <1>0, <3>1, LockFrame DEF CSLabels, InV, lockVars
  <2> QED BY <2>1, <2>2
<1>9. CASE UnBlockReady(t)
  <2>1. /\ pc[t] = "ready"
        /\ pc' = [pc EXCEPT ![t] = "endV"]
        /\ UNCHANGED <<lockVars, arg, panic>>
    BY <1>9 DEF UnBlockReady, Goto
  <2> QED
    BY <1>0, <2>1, LockFrame DEF CSLabels, InV, lockVars
<1>10. CASE LockVEnd(t)
  <2>1. pc[t] = "endV" /\ pc[t] \in InV
    BY <1>10 DEF LockVEnd, InV
  <2> QED
    BY <1>5, <1>6, <1>10, <2>1 DEF LockVEnd, Goto
<1> QED
  BY <1>1, <1>2, <1>3, <1>4, <1>7, <1>8, <1>9, <1>10 DEF LockStep

(* Every step of the system preserves the lock invariant.                  *)
LEMMA LockInvStep ==
  ASSUME SchedAssumption, IInv, [Next]_vars
  PROVE  LockInv'
<1>0. LockInv /\ pc \in [Ctx -> Labels] /\ Tasks \subseteq Ctx
  BY DEF IInv, TypeOK, Ctx
<1>1. ASSUME NEW t \in Tasks, TaskStep(t) PROVE LockInv'
  <2>1. CASE LockStep(t)
    BY <2>1, LockStepInv
  <2>2. CASE SleepCall(t)
    <3>1. /\ pc[t] = "run" /\ pc' = [pc EXCEPT ![t] = "sleep"]
          /\ UNCHANGED <<lockVars, arg, panic>>
      BY <2>2 DEF SleepCall, Goto
    <3> QED BY <1>0, <3>1, LockFrame DEF lockVars, CSLabels, InV
  <2>3. CASE SleepStep(t)
    <3>1. CASE slept[t] < SleepTicks
      <4>1. /\ UNCHANGED <<lockVars, ctxVars>>
            /\ panic' = panic \/ panic' = "thread.c:200"
        BY <2>3, <3>1 DEF SleepStep, Yield, Panic
      <4> QED BY <1>0, <4>1, LockFrame DEF lockVars, ctxVars, LockAsserts
    <3>2. CASE ~(slept[t] < SleepTicks)
      <4>1. /\ pc[t] = "sleep" /\ pc' = [pc EXCEPT ![t] = "run"]
            /\ UNCHANGED <<lockVars, arg, panic>>
        BY <2>3, <3>2 DEF SleepStep, Goto
      <4> QED BY <1>0, <4>1, LockFrame DEF lockVars, CSLabels, InV
    <3> QED BY <3>1, <3>2
  <2>4. CASE SysEnter(t)
    <3>1. /\ pc[t] = "user" /\ pc' = [pc EXCEPT ![t] = "run"]
          /\ UNCHANGED <<lockVars, arg, panic>>
      BY <2>4 DEF SysEnter, Goto
    <3> QED BY <1>0, <3>1, LockFrame DEF lockVars, CSLabels, InV
  <2>5. CASE SysExit(t)
    <3>1. /\ pc[t] = "run" /\ pc' = [pc EXCEPT ![t] = "user"]
          /\ UNCHANGED <<lockVars, arg, panic>>
      BY <2>5 DEF SysExit, Goto
    <3> QED BY <1>0, <3>1, LockFrame DEF lockVars, CSLabels, InV
  <2> QED
    BY <1>1, <2>1, <2>2, <2>3, <2>4, <2>5 DEF TaskStep
<1>2. CASE TimerIntr
  <2>1. /\ UNCHANGED <<lockVars, pc, arg>>
        /\ panic' = panic \/ panic' = "thread.c:167"
    BY <1>2 DEF TimerIntr, Panic, ctxVars
  <2> QED BY <1>0, <2>1, LockFrame DEF lockVars, LockAsserts
<1>3. CASE UNCHANGED vars
  BY <1>0, <1>3, LockFrame DEF vars, lockVars, ctxVars
<1> QED
  BY <1>1, <1>2, <1>3 DEF Next, Halted

(* The initial states satisfy the invariant.                               *)
LEMMA InitInv ==
  ASSUME SchedAssumption, Init
  PROVE  IInv
<1>1. Main \in Tasks /\ AnyLock \in Locks
  BY DEF SchedAssumption, Tasks, AnyLock
<1>2. TypeOK
  <2>1. ready \in Seq(Tasks)
    <3>1. Cardinality(Tasks \ {Main}) \in Nat
      BY FS_CardinalityType, FS_Difference DEF SchedAssumption
    <3>2. PICK n \in Nat : n = Cardinality(Tasks \ {Main})
      BY <3>1
    <3>3. ready \in [1 .. n -> Tasks]
      BY <3>2 DEF Init, InitTasks, InitLocks
    <3> QED BY <3>3, SeqDef
  <2> QED
    BY <1>1, <2>1 DEF Init, InitTasks, InitLocks, TypeOK, SchedAssumption, Labels
<1>3. LockInv
  BY DEF Init, InitTasks, InitLocks, LockInv, MutualExclusion, Owns, Counted, NoHolderInCS, NoSems,
         CountersAssertsHold, LockAsserts, CSLabels, InV, Ctx, SchedAssumption
<1> QED BY <1>2, <1>3 DEF IInv

(* The invariant holds throughout every behaviour of the system.           *)
THEOREM Invariance == Spec => []IInv
<1>1. Init => IInv
  BY InitInv, SchedAssumption
<1>2. IInv /\ [Next]_vars => IInv'
  BY TypeStep, LockInvStep, SchedAssumption DEF IInv
<1> QED BY <1>1, <1>2, PTL DEF Spec

(* Type correctness: in particular value stays 0 or 1 and                  *)
(* holderRepeatNum never goes below 0.                                     *)
THEOREM TypeCorrect == Spec => []TypeOK
<1>1. IInv => TypeOK
  BY DEF IInv
<1> QED BY <1>1, Invariance, PTL

(* Lock_Lock and Lock_UnLock exclude each other's callers, for any number  *)
(* of tasks and locks, although Lock_V can be interrupted.                 *)
THEOREM MutualExclusionHolds == Spec => []MutualExclusion
<1>1. IInv => MutualExclusion
  BY DEF IInv, LockInv
<1> QED BY <1>1, Invariance, PTL

(* The ASSERTs of sync.c on value and holderRepeatNum never fail.          *)
THEOREM CountersAsserts == Spec => []CountersAssertsHold
<1>1. IInv => CountersAssertsHold
  BY DEF IInv, LockInv
<1> QED BY <1>1, Invariance, PTL

-----------------------------------------------------------------------------
(* Every step of Sched is a step of Mutex, or leaves owners and depths     *)
(* alone.  Owner is the task that owns the lock, and there is one at most. *)
LEMMA OwnerIs ==
  MutualExclusion =>
    \A l \in Locks \ Sems :
      /\ \A t \in Tasks : Owns(t, l) => Owner(l) = t
      /\ (\A t \in Tasks : ~Owns(t, l)) => Owner(l) = NoTask
<1> SUFFICES ASSUME MutualExclusion, NEW l \in Locks \ Sems
             PROVE  /\ \A t \in Tasks : Owns(t, l) => Owner(l) = t
                    /\ (\A t \in Tasks : ~Owns(t, l)) => Owner(l) = NoTask
  OBVIOUS
<1>1. ASSUME NEW t \in Tasks, Owns(t, l) PROVE Owner(l) = t
  <2>1. \A u \in Tasks : Owns(u, l) <=> u = t
    BY <1>1 DEF MutualExclusion
  <2> HIDE DEF Owns
  <2> QED BY <1>1, <2>1 DEF Owner
<1> QED BY <1>1 DEF Owner

(* The same in the next state.                                             *)
LEMMA OwnerIsNext ==
  ASSUME MutualExclusion'
  PROVE  \A l \in Locks \ Sems :
           /\ \A t \in Tasks : Owns(t, l)' => Owner(l)' = t
           /\ (\A t \in Tasks : ~Owns(t, l)') => Owner(l)' = NoTask
<1>1. (MutualExclusion =>
        \A l \in Locks \ Sems :
          /\ \A t \in Tasks : Owns(t, l) => Owner(l) = t
          /\ (\A t \in Tasks : ~Owns(t, l)) => Owner(l) = NoTask)'
  BY OwnerIs, PTL
<1> QED BY <1>1

(* A step that moves nobody in or out keeps the owners.                    *)
LEMMA SameOwners ==
  ASSUME MutualExclusion, MutualExclusion',
         NEW l \in Locks \ Sems, \A t \in Tasks : Owns(t, l)' <=> Owns(t, l)
  PROVE  Owner(l)' = Owner(l)
<1>1. CASE \E t \in Tasks : Owns(t, l)
  <2>1. PICK t \in Tasks : Owns(t, l) /\ Owns(t, l)'
    BY <1>1
  <2> QED BY <2>1, OwnerIs, OwnerIsNext
<1>2. CASE \A t \in Tasks : ~Owns(t, l)
  BY <1>2, OwnerIs, OwnerIsNext
<1> QED BY <1>1, <1>2

(* A step that changes neither an owner nor a count is a stutter of Mutex. *)
LEMMA StutterMutex ==
  ASSUME IInv, IInv', UNCHANGED repeat,
         \A t \in Tasks, l \in Locks \ Sems : Owns(t, l)' <=> Owns(t, l)
  PROVE  UNCHANGED M!mutexVars
<1>1. \A l \in Locks \ Sems : Owner(l)' = Owner(l)
  BY SameOwners DEF IInv, LockInv
<1> QED BY <1>1 DEF M!mutexVars

(* The owner enters its lock once more or leaves it once.                  *)
LEMMA CountMutex ==
  ASSUME IInv, IInv', NEW t \in Tasks, NEW l \in Locks \ Sems, Owns(t, l),
         \/ repeat' = [repeat EXCEPT ![l] = @ + 1]
         \/ repeat' = [repeat EXCEPT ![l] = @ - 1] /\ repeat[l] > 0,
         \A u \in Tasks, m \in Locks \ Sems : Owns(u, m)' <=> Owns(u, m)
  PROVE  M!Next
<1>1. \A m \in Locks \ Sems : Owner(m)' = Owner(m)
  BY SameOwners DEF IInv, LockInv
<1>2. Owner(l) = t
  BY OwnerIs DEF IInv, LockInv
<1>3. repeat \in [Locks -> Nat]
  BY DEF IInv, TypeOK
<1>4. M!Enter(t, l) \/ M!Leave(t, l)
  BY <1>1, <1>2, <1>3 DEF M!Enter, M!Leave
<1> QED BY <1>4 DEF M!Next

(* Lock_P lets a task through, or Lock_V puts value back.                  *)
LEMMA PassMutex ==
  ASSUME IInv, IInv', NEW t \in Tasks, NEW l \in Locks \ Sems,
         UNCHANGED repeat, repeat[l] = 0,
         \A u \in Tasks, m \in Locks \ Sems : m # l => (Owns(u, m)' <=> Owns(u, m)),
         \/ (\A u \in Tasks : ~Owns(u, l)) /\ Owns(t, l)'
         \/ Owns(t, l) /\ \A u \in Tasks : ~Owns(u, l)'
  PROVE  M!Next
<1>1. \A m \in Locks \ Sems : m # l => Owner(m)' = Owner(m)
  BY SameOwners DEF IInv, LockInv
<1>2. \/ Owner(l) = NoTask /\ Owner(l)' = t
      \/ Owner(l) = t /\ Owner(l)' = NoTask
  BY OwnerIs, OwnerIsNext DEF IInv, LockInv
<1>3. M!Grant(t, l) \/ M!Free(t, l)
  BY <1>1, <1>2 DEF M!Grant, M!Free
<1> QED BY <1>3 DEF M!Next

(* Lock_Lock, Lock_UnLock, Lock_P and Lock_V step as Mutex allows.         *)
LEMMA LockStepMutex ==
  ASSUME SchedAssumption, IInv, IInv', NEW t \in Tasks, LockStep(t)
  PROVE  M!Next \/ UNCHANGED M!mutexVars
<1>0. /\ t \in Ctx /\ t # NoTask /\ NoTask \notin Tasks
      /\ arg[t] \in Locks
      /\ pc \in [Ctx -> Labels]
      /\ Tasks \subseteq Ctx
      /\ arg \in [Ctx -> Locks]
      /\ holder \in [Locks -> Tasks \cup {NoTask}]
      /\ repeat \in [Locks -> Nat]
      /\ value \in [Locks -> {0, 1}]
  BY DEF IInv, TypeOK, Ctx, SchedAssumption
<1>a. ASSUME NEW l \in Locks, holder[l] = NoTask PROVE repeat[l] = 0
  BY <1>0, <1>a DEF IInv, LockInv, Counted
<1>b. ASSUME pc[t] \in CSLabels
      PROVE  /\ arg[t] \in Locks \ Sems /\ holder[arg[t]] = NoTask /\ repeat[arg[t]] = 0
             /\ Owns(t, arg[t]) /\ \A u \in Tasks : Owns(u, arg[t]) => u = t
  <2>1. arg[t] \in Locks \ Sems /\ holder[arg[t]] = NoTask
    BY <1>0, <1>b DEF IInv, LockInv, NoHolderInCS, NoSems
  <2>2. Owns(t, arg[t])
    BY <1>b DEF Owns, CSLabels
  <2> QED BY <1>0, <1>a, <2>1, <2>2 DEF IInv, LockInv, MutualExclusion
<1>c. ASSUME UNCHANGED <<holder, repeat, arg>>,
             \A u \in Tasks : pc'[u] \in CSLabels <=> pc[u] \in CSLabels
      PROVE  UNCHANGED M!mutexVars
  <2>1. \A u \in Tasks, m \in Locks : Owns(u, m)' <=> Owns(u, m)
    BY <1>c DEF Owns, CSLabels
  <2> QED BY <1>c, <2>1, StutterMutex
<1>d. ASSUME pc[t] \in InV, pc' = [pc EXCEPT ![t] = "run"],
             UNCHANGED <<holder, repeat, arg>>
      PROVE  M!Next
  <2>0. PICK l \in Locks \ Sems : l = arg[t]
    BY <1>b, <1>d DEF CSLabels
  <2>1. repeat[l] = 0 /\ holder[l] = NoTask /\ Owns(t, l) /\ \A u \in Tasks : Owns(u, l) => u = t
    BY <1>b, <1>d, <2>0 DEF CSLabels
  <2>2. \A u \in Tasks, m \in Locks : Owns(u, m)' <=> Owns(u, m) /\ ~(u = t /\ m = l)
    BY <1>0, <1>d, <2>0, <2>1 DEF Owns, InV
  <2>3. /\ \A u \in Tasks : ~Owns(u, l)'
        /\ \A u \in Tasks, m \in Locks \ Sems : m # l => (Owns(u, m)' <=> Owns(u, m))
    BY <2>1, <2>2
  <2> QED BY <1>d, <2>1, <2>3, PassMutex
<1>1. ASSUME NEW l \in Locks, LockCall(t, l) PROVE M!Next \/ UNCHANGED M!mutexVars
  <2>1. CASE holder[l] # t
    <3>1. /\ pc[t] = "run" /\ pc' = [pc EXCEPT ![t] = "P"]
          /\ arg' = [arg EXCEPT ![t] = l]
          /\ UNCHANGED <<holder, repeat>>
      BY <1>1, <2>1 DEF LockCall, Goto
    <3>2. \A u \in Tasks, m \in Locks : Owns(u, m)' <=> Owns(u, m)
      BY <1>0, <3>1 DEF Owns, InV
    <3> QED BY <3>1, <3>2, StutterMutex
  <2>2. CASE holder[l] = t
    <3>1. /\ repeat' = [repeat EXCEPT ![l] = @ + 1] /\ l \notin Sems
          /\ UNCHANGED <<holder, pc, arg>>
      BY <1>1, <2>2 DEF LockCall
    <3>2. Owns(t, l) /\ \A u \in Tasks, m \in Locks : Owns(u, m)' <=> Owns(u, m)
      BY <2>2, <3>1 DEF Owns
    <3> QED BY <3>1, <3>2, CountMutex
  <2> QED BY <2>1, <2>2
<1>2. ASSUME NEW l \in Locks, UnlockCall(t, l) PROVE M!Next \/ UNCHANGED M!mutexVars
  <2>1. /\ holder[l] = t /\ pc[t] = "run"
        /\ repeat' = [repeat EXCEPT ![l] = @ - 1]
        /\ \/ UNCHANGED <<holder, pc, arg>>
           \/ /\ holder' = [holder EXCEPT ![l] = NoTask]
              /\ pc' = [pc EXCEPT ![t] = "V"]
              /\ arg' = [arg EXCEPT ![t] = l]
    BY <1>2 DEF UnlockCall, Goto
  <2>2. l \notin Sems /\ repeat[l] > 0 /\ Owns(t, l)
    BY <1>0, <2>1 DEF IInv, LockInv, NoSems, Counted, Owns
  <2>3. \A u \in Tasks, m \in Locks : Owns(u, m)' <=> Owns(u, m)
    <3>1. CASE UNCHANGED <<holder, pc, arg>>
      BY <3>1 DEF Owns
    <3>2. CASE /\ holder' = [holder EXCEPT ![l] = NoTask]
               /\ pc' = [pc EXCEPT ![t] = "V"]
               /\ arg' = [arg EXCEPT ![t] = l]
      BY <1>0, <2>1, <3>2 DEF Owns, InV
    <3> QED BY <2>1, <3>1, <3>2
  <2> QED BY <2>1, <2>2, <2>3, CountMutex
<1>3. CASE LockP(t)
  <2>0. PICK l \in Locks \ Sems : l = arg[t]
    BY <1>0, <1>3 DEF LockP, IInv, LockInv, NoSems
  <2>1. CASE value[l] = 1
    <3>1. /\ pc[t] = "P" /\ pc' = [pc EXCEPT ![t] = "got"]
          /\ UNCHANGED <<holder, repeat, arg>>
      BY <1>3, <2>0, <2>1 DEF LockP, Goto
    <3>2. \A u \in Tasks : ~Owns(u, l)
      BY <2>1 DEF IInv, LockInv, MutualExclusion
    <3>3. repeat[l] = 0
      <4>1. holder[l] = NoTask
        BY <1>0, <3>2 DEF Owns
      <4> QED BY <1>a, <4>1
    <3>4. \A u \in Tasks, m \in Locks : Owns(u, m)' <=> Owns(u, m) \/ (u = t /\ m = l)
      BY <1>0, <2>0, <3>1 DEF Owns, InV
    <3>5. /\ Owns(t, l)'
          /\ \A u \in Tasks, m \in Locks \ Sems : m # l => (Owns(u, m)' <=> Owns(u, m))
      BY <3>4
    <3> QED BY <3>1, <3>2, <3>3, <3>5, PassMutex
  <2>2. CASE value[l] # 1
    <3>1. UNCHANGED <<holder, repeat, arg, pc>>
      BY <1>0, <1>3, <2>0, <2>2 DEF LockP, Panic, lockVars, ctxVars
    <3> QED BY <1>c, <3>1
  <2> QED BY <2>1, <2>2
<1>4. CASE LockGot(t)
  <2>0. PICK l \in Locks \ Sems : l = arg[t]
    BY <1>b, <1>4 DEF LockGot, CSLabels
  <2>1. pc[t] = "got" /\ repeat[l] = 0 /\ holder[l] = NoTask /\ Owns(t, l)
        /\ \A u \in Tasks : Owns(u, l) => u = t
    BY <1>b, <1>4, <2>0 DEF LockGot, CSLabels
  <2>2. /\ holder' = [holder EXCEPT ![l] = t]
        /\ repeat' = [repeat EXCEPT ![l] = 1]
        /\ pc' = [pc EXCEPT ![t] = "run"]
        /\ UNCHANGED arg
    BY <1>4, <2>0, <2>1 DEF LockGot, Goto
  <2>3. repeat' = [repeat EXCEPT ![l] = @ + 1]
    BY <1>0, <2>1, <2>2
  <2>4. \A u \in Tasks, m \in Locks : Owns(u, m)' <=> Owns(u, m)
    <3> SUFFICES ASSUME NEW u \in Tasks, NEW m \in Locks PROVE Owns(u, m)' <=> Owns(u, m)
      OBVIOUS
    <3>1. CASE m # l
      BY <1>0, <2>0, <2>2, <3>1 DEF Owns, InV
    <3>2. CASE m = l /\ u = t
      BY <1>0, <2>1, <2>2, <3>2 DEF Owns
    <3>3. CASE m = l /\ u # t
      BY <1>0, <2>1, <2>2, <3>3 DEF Owns
    <3> QED BY <3>1, <3>2, <3>3
  <2> QED BY <2>1, <2>3, <2>4, CountMutex
<1>5. CASE LockV(t)
  <2>0. pc[t] \in InV /\ pc[t] \in CSLabels
    BY <1>5 DEF LockV, InV, CSLabels
  <2>1. CASE value[arg[t]] = 0 /\ waiters[arg[t]] = <<>>
    BY <1>d, <1>5, <2>0, <2>1 DEF LockV, Goto
  <2>2. CASE ~(value[arg[t]] = 0 /\ waiters[arg[t]] = <<>>)
    <3>1. /\ UNCHANGED <<holder, repeat, arg>>
          /\ pc' = pc \/ pc' = [pc EXCEPT ![t] = "push"]
      BY <1>5, <2>2 DEF LockV, Goto, Panic, lockVars, ctxVars
    <3> QED BY <1>0, <1>c, <2>0, <3>1 DEF CSLabels, InV
  <2> QED BY <2>1, <2>2
<1>6. CASE UnBlockPush(t) \/ UnBlockReady(t)
  <2>1. /\ UNCHANGED <<holder, repeat, arg>>
        /\ pc[t] \in InV
        /\ pc' = pc \/ \E label \in InV : pc' = [pc EXCEPT ![t] = label]
    BY <1>6 DEF UnBlockPush, UnBlockReady, Goto, Panic, lockVars, ctxVars, InV
  <2> QED BY <1>0, <1>c, <2>1 DEF CSLabels, InV
<1>7. CASE LockVEnd(t)
  <2>0. pc[t] \in InV
    BY <1>7 DEF LockVEnd, InV
  <2>1. CASE value[arg[t]] = 0
    BY <1>d, <1>7, <2>0, <2>1 DEF LockVEnd, Goto
  <2>2. CASE value[arg[t]] # 0
    BY <1>c, <1>7, <2>2 DEF LockVEnd, Panic, lockVars, ctxVars
  <2> QED BY <2>1, <2>2
<1> QED
  BY <1>1, <1>2, <1>3, <1>4, <1>5, <1>6, <1>7 DEF LockStep

(* Every step of the system is a step of Mutex or a stutter.               *)
LEMMA MutexStep ==
  ASSUME SchedAssumption, IInv, IInv', [Next]_vars
  PROVE  [M!Next]_(M!mutexVars)
<1>0. pc \in [Ctx -> Labels] /\ Tasks \subseteq Ctx
  BY DEF IInv, TypeOK, Ctx
<1>1. ASSUME UNCHANGED <<lockVars, arg>>,
             \A u \in Tasks : pc'[u] \in CSLabels <=> pc[u] \in CSLabels
      PROVE  UNCHANGED M!mutexVars
  <2>1. \A u \in Tasks, m \in Locks : Owns(u, m)' <=> Owns(u, m)
    BY <1>1 DEF Owns, CSLabels, lockVars
  <2> QED BY <1>1, <2>1, StutterMutex DEF lockVars
<1>2. ASSUME NEW t \in Tasks, TaskStep(t) PROVE [M!Next]_(M!mutexVars)
  <2>1. CASE LockStep(t)
    BY <2>1, LockStepMutex
  <2>2. CASE SleepCall(t) \/ SleepStep(t) \/ SysEnter(t) \/ SysExit(t)
    <3>1. /\ UNCHANGED <<lockVars, arg>>
          /\ pc[t] \in {"run", "sleep", "user"}
          /\ pc' = pc \/ \E label \in {"run", "sleep", "user"} : pc' = [pc EXCEPT ![t] = label]
      BY <2>2 DEF SleepCall, SleepStep, SysEnter, SysExit, Yield, Panic, Goto, ctxVars
    <3> QED BY <1>0, <1>1, <3>1 DEF CSLabels, InV
  <2> QED BY <1>2, <2>1, <2>2 DEF TaskStep
<1>3. CASE TimerIntr
  <2>1. UNCHANGED <<lockVars, pc, arg>>
    BY <1>3 DEF TimerIntr, Panic, ctxVars
  <2> QED BY <1>1, <2>1
<1>4. CASE UNCHANGED vars
  BY <1>1, <1>4 DEF vars, ctxVars
<1> QED
  BY <1>2, <1>3, <1>4 DEF Next, Halted

(* Lock_Lock and Lock_UnLock implement the re-entrant mutex their callers  *)
(* rely on: a lock is granted only when it is free, only its owner enters  *)
(* it again or leaves it, and it is free again only after the last leave.  *)
THEOREM LocksImplementMutex == Spec => ImplementsMutex
<1>1. Init => M!Init
  <2> SUFFICES ASSUME Init PROVE M!Init
    OBVIOUS
  <2>1. NoTask \notin Tasks /\ Tasks \subseteq Ctx
    BY SchedAssumption DEF SchedAssumption, Ctx
  <2>2. \A t \in Tasks, l \in Locks : ~Owns(t, l)
    BY <2>1 DEF Init, InitLocks, Owns, InV
  <2>3. \A l \in Locks : Owner(l) = NoTask /\ repeat[l] = 0
    BY <2>2 DEF Owner, Init, InitLocks
  <2> QED BY <2>3 DEF M!Init
<1>2. IInv /\ IInv' /\ [Next]_vars => [M!Next]_(M!mutexVars)
  BY MutexStep, SchedAssumption
<1> QED BY <1>1, <1>2, Invariance, PTL DEF Spec, ImplementsMutex, M!Spec

-----------------------------------------------------------------------------
(***************************************************************************)
(* The lists: a task is on one list at most, no task is lost, the running  *)
(* task is on none, and of the ASSERTs of sync.c and thread.c only that on *)
(* the status of a woken task can fail.                                    *)
(***************************************************************************)

(* No task is linked twice into a list.                                    *)
NoDup(s) == \A i, j \in DOMAIN s : s[i] = s[j] => i = j

(* Task t waits in Lock_P, off the CPU and off the ready list.             *)
Asleep(t) == pc[t] = "P" /\ t # cur /\ t \notin Elems(ready)

RunningOne == \A t \in Tasks : status[t] = "RUNNING" <=> t = cur

Distinct == NoDup(ready) /\ \A l \in Locks : NoDup(waiters[l])

(* A waiter of a lock sleeps in its Lock_P of that lock.                   *)
WaitersAsleep ==
  \A l \in Locks, t \in Tasks : t \in Elems(waiters[l]) => Asleep(t) /\ arg[t] = l

(* The task that Lock_V has popped and not yet pushed still sleeps, on no  *)
(* list; two calls never have the same one, and nobody wakes itself.       *)
WokenAside ==
  \A c \in Tasks : pc[c] = "push" =>
    Asleep(target[c]) /\ \A l \in Locks : target[c] \notin Elems(waiters[l])

WokenOnce ==
  \A c, d \in Tasks :
    pc[c] = "push" /\ pc[d] = "push" /\ target[c] = target[d] => c = d

WakesOther == \A c \in Tasks : pc[c] \in {"push", "ready"} => target[c] # c

(* The spinning tasks never get to the locks, nor do handlers here.        *)
Outside ==
  /\ \A t \in Spinners : pc[t] \in {"user", "run"} /\ \A l \in Locks : holder[l] # t
  /\ \A c \in Isrs : pc[c] = "run"

(* Every task is somewhere.                                                *)
Somewhere ==
  \A t \in Tasks :
    \/ t = cur
    \/ t \in Elems(ready)
    \/ pc[t] = "P" /\ t \in Elems(waiters[arg[t]])
    \/ \E c \in Tasks : pc[c] = "push" /\ target[c] = t

ListInv ==
  /\ RunningOne
  /\ Distinct
  /\ cur \notin Elems(ready)
  /\ WaitersAsleep
  /\ WokenAside
  /\ WokenOnce
  /\ WakesOther
  /\ Outside
  /\ Somewhere
  /\ OnlyUnblockAssertFails

-----------------------------------------------------------------------------
(* List_Append, at the end of a list the task is not on.                   *)
LEMMA AppendedElems ==
  ASSUME NEW S, NEW s \in Seq(S), NEW t \in S
  PROVE  /\ Elems(Appended(s, t)) = Elems(s) \cup {t}
         /\ NoDup(s) /\ t \notin Elems(s) => NoDup(Appended(s, t))
         /\ Appended(s, t) # <<>>
<1>1. /\ Append(s, t) \in Seq(S)
      /\ Len(Append(s, t)) = Len(s) + 1
      /\ \A i \in 1 .. Len(s) : Append(s, t)[i] = s[i]
      /\ Append(s, t)[Len(s) + 1] = t
      /\ DOMAIN s = 1 .. Len(s)
      /\ DOMAIN Append(s, t) = 1 .. Len(s) + 1
      /\ Len(s) \in Nat
  OBVIOUS
<1>2. Elems(Append(s, t)) = Elems(s) \cup {t}
  <2>1. ASSUME NEW x \in Elems(Append(s, t)) PROVE x \in Elems(s) \cup {t}
    BY <1>1, <2>1 DEF Elems
  <2>2. ASSUME NEW x \in Elems(s) PROVE x \in Elems(Append(s, t))
    <3>1. PICK i \in 1 .. Len(s) : x = s[i]
      BY <1>1, <2>2 DEF Elems
    <3> QED BY <1>1, <3>1 DEF Elems
  <2>3. t \in Elems(Append(s, t))
    BY <1>1 DEF Elems
  <2> QED BY <2>1, <2>2, <2>3
<1>3. ASSUME NoDup(s), t \notin Elems(s) PROVE NoDup(Append(s, t))
  BY <1>1, <1>3 DEF NoDup, Elems
<1>4. Append(s, t) # <<>>
  BY <1>1
<1> QED BY <1>2, <1>3, <1>4 DEF Appended

(* List_Push, in front of a list the task is not on.                       *)
LEMMA PushedElems ==
  ASSUME NEW S, NEW s \in Seq(S), NEW t \in S
  PROVE  /\ Elems(Pushed(s, t)) = Elems(s) \cup {t}
         /\ NoDup(s) /\ t \notin Elems(s) => NoDup(Pushed(s, t))
<1> DEFINE p == <<t>> \o s
<1>1. /\ p \in Seq(S)
      /\ Len(p) = Len(s) + 1
      /\ p[1] = t
      /\ \A i \in 1 .. Len(s) : p[i + 1] = s[i]
      /\ DOMAIN s = 1 .. Len(s)
      /\ DOMAIN p = 1 .. Len(s) + 1
      /\ Len(s) \in Nat
  OBVIOUS
<1> HIDE DEF p
<1>2. \A k \in DOMAIN p : k = 1 \/ (k - 1 \in DOMAIN s /\ p[k] = s[k - 1])
  BY <1>1
<1>3. Elems(p) = Elems(s) \cup {t}
  <2>1. ASSUME NEW x \in Elems(p) PROVE x \in Elems(s) \cup {t}
    BY <1>1, <1>2, <2>1 DEF Elems
  <2>2. ASSUME NEW x \in Elems(s) PROVE x \in Elems(p)
    <3>1. PICK i \in 1 .. Len(s) : x = s[i]
      BY <1>1, <2>2 DEF Elems
    <3> QED BY <1>1, <3>1 DEF Elems
  <2>3. t \in Elems(p)
    BY <1>1 DEF Elems
  <2> QED BY <2>1, <2>2, <2>3
<1>4. ASSUME NoDup(s), t \notin Elems(s) PROVE NoDup(p)
  <2> SUFFICES ASSUME NEW i \in DOMAIN p, NEW j \in DOMAIN p, p[i] = p[j] PROVE i = j
    BY DEF NoDup
  <2>1. CASE i # 1 /\ j # 1
    BY <1>1, <1>2, <1>4, <2>1 DEF NoDup
  <2>2. CASE i = 1 \/ j = 1
    BY <1>1, <1>2, <1>4, <2>2 DEF Elems
  <2> QED BY <2>1, <2>2
<1> QED BY <1>3, <1>4 DEF Pushed, p

(* List_Pop: the first task leaves the list, and only that one.            *)
LEMMA PoppedElems ==
  ASSUME NEW S, NEW s \in Seq(S), s # <<>>, NoDup(s)
  PROVE  /\ Head(s) \in Elems(s) /\ Head(s) \in S
         /\ Popped(s) \in Seq(S)
         /\ Elems(Popped(s)) = Elems(s) \ {Head(s)}
         /\ NoDup(Popped(s))
<1> DEFINE p == Tail(s)
<1>1. /\ p \in Seq(S)
      /\ Len(p) = Len(s) - 1
      /\ \A i \in 1 .. Len(p) : p[i] = s[i + 1]
      /\ DOMAIN s = 1 .. Len(s)
      /\ DOMAIN p = 1 .. Len(p)
      /\ Len(s) \in Nat \ {0}
      /\ Head(s) = s[1]
      /\ Head(s) \in S
  OBVIOUS
<1> HIDE DEF p
<1>2. Head(s) \in Elems(s)
  BY <1>1 DEF Elems
<1>3. Elems(p) = Elems(s) \ {Head(s)}
  <2>1. ASSUME NEW x \in Elems(p) PROVE x \in Elems(s) \ {Head(s)}
    <3>1. PICK i \in DOMAIN p : x = p[i]
      BY <2>1 DEF Elems
    <3>2. i + 1 \in DOMAIN s /\ x = s[i + 1] /\ i + 1 # 1
      BY <1>1, <3>1
    <3> QED BY <1>1, <3>2 DEF Elems, NoDup
  <2>2. ASSUME NEW x \in Elems(s) \ {Head(s)} PROVE x \in Elems(p)
    <3>1. PICK i \in DOMAIN s : x = s[i]
      BY <2>2 DEF Elems
    <3>2. i - 1 \in DOMAIN p /\ x = p[i - 1]
      BY <1>1, <3>1, <2>2
    <3> QED BY <3>2 DEF Elems
  <2> QED BY <2>1, <2>2
<1>4. NoDup(p)
  <2> SUFFICES ASSUME NEW i \in DOMAIN p, NEW j \in DOMAIN p, p[i] = p[j] PROVE i = j
    BY DEF NoDup
  <2>1. i + 1 \in DOMAIN s /\ j + 1 \in DOMAIN s /\ s[i + 1] = s[j + 1]
    BY <1>1
  <2> QED BY <1>1, <2>1 DEF NoDup
<1> QED BY <1>1, <1>2, <1>3, <1>4 DEF Popped, p

-----------------------------------------------------------------------------
(* The types the steps below need, in one place.                           *)
LEMMA ListTyping ==
  ASSUME SchedAssumption, IInv
  PROVE  /\ cur \in Tasks /\ Tasks \subseteq Ctx /\ Spinners \subseteq Tasks
         /\ Isrs \subseteq Ctx /\ Isrs \cap Tasks = {}
         /\ status \in [Tasks -> {"RUNNING", "READY", "BLOCKED"}]
         /\ ready \in Seq(Tasks)
         /\ waiters \in [Locks -> Seq(Tasks)]
         /\ pc \in [Ctx -> Labels]
         /\ arg \in [Ctx -> Locks]
         /\ target \in [Ctx -> Tasks]
BY DEF SchedAssumption, IInv, TypeOK, Ctx

(* A step of the running task that touches no list, status or wake-up      *)
(* keeps the list invariant, wherever the task goes on.                    *)
LEMMA QuietStep ==
  ASSUME SchedAssumption, IInv, ListInv,
         pc[cur] \notin {"push", "ready"},
         NEW label \in Labels \ {"push", "ready"},
         pc' = [pc EXCEPT ![cur] = label],
         cur \in Spinners => label \in {"user", "run"},
         \A c \in Ctx : c # cur => arg'[c] = arg[c] /\ target'[c] = target[c],
         \A l \in Locks : holder'[l] = holder[l] \/ holder'[l] \notin Spinners,
         UNCHANGED <<cur, status, ready, waiters, panic>>
  PROVE  ListInv'
<1> USE ListTyping DEF ListInv
<1>1. /\ pc'[cur] = label
      /\ \A c \in Ctx : c # cur => pc'[c] = pc[c]
  OBVIOUS
<1>2. RunningOne' /\ Distinct' /\ (cur \notin Elems(ready))' /\ OnlyUnblockAssertFails'
  BY DEF RunningOne, Distinct, OnlyUnblockAssertFails, NoDup, Elems
<1>3. \A t \in Tasks : Asleep(t) => Asleep(t)' /\ arg'[t] = arg[t]
  BY <1>1 DEF Asleep
<1>4. WaitersAsleep'
  BY <1>3 DEF WaitersAsleep
<1>5. \A c \in Tasks : pc'[c] \in {"push", "ready"} =>
        c # cur /\ pc[c] = pc'[c] /\ target'[c] = target[c]
  BY <1>1
<1>6. WokenAside'
  BY <1>3, <1>5 DEF WokenAside
<1>7. WokenOnce' /\ WakesOther'
  BY <1>5 DEF WokenOnce, WakesOther
<1>8. Outside'
  <2>1. ASSUME NEW t \in Spinners
        PROVE  pc'[t] \in {"user", "run"} /\ \A l \in Locks : holder'[l] # t
    <3>1. t \in Ctx /\ pc[t] \in {"user", "run"} /\ \A l \in Locks : holder[l] # t
      BY DEF Outside
    <3>2. \A l \in Locks : holder'[l] # t
      BY <3>1
    <3>3. pc'[t] \in {"user", "run"}
      BY <1>1, <3>1
    <3> QED BY <3>2, <3>3
  <2>2. ASSUME NEW c \in Isrs PROVE pc'[c] = "run"
    BY <1>1 DEF Outside
  <2> QED BY <2>1, <2>2 DEF Outside
<1>9. Somewhere'
  <2> SUFFICES ASSUME NEW t \in Tasks, t # cur, t \notin Elems(ready)
               PROVE  \/ pc'[t] = "P" /\ t \in Elems(waiters[arg'[t]])
                      \/ \E c \in Tasks : pc'[c] = "push" /\ target'[c] = t
    BY DEF Somewhere
  <2>1. CASE pc[t] = "P" /\ t \in Elems(waiters[arg[t]])
    BY <1>1, <2>1
  <2>2. CASE \E c \in Tasks : pc[c] = "push" /\ target[c] = t
    BY <1>1, <2>2
  <2> QED BY <2>1, <2>2 DEF Somewhere
<1> QED BY <1>2, <1>4, <1>6, <1>7, <1>8, <1>9

(* A task switch: the running task goes to the end of the ready list, or   *)
(* it goes to sleep on the list of the lock it wants; the first task of    *)
(* the ready list runs.                                                    *)
Requeued == ready' = Popped(Appended(ready, cur)) /\ cur' = Head(Appended(ready, cur))

Parked ==
  /\ pc[cur] = "P"
  /\ ready # <<>>
  /\ ready' = Popped(ready)
  /\ cur' = Head(ready)

Switched ==
  /\ \/ Requeued /\ UNCHANGED waiters
     \/ Parked /\ waiters' = [waiters EXCEPT ![arg[cur]] = Appended(@, cur)]
  /\ \E x \in {"READY", "BLOCKED"} :
       status' = [[status EXCEPT ![cur] = x] EXCEPT ![cur'] = "RUNNING"]
  /\ UNCHANGED <<pc, arg, target, holder, panic>>

(* Whatever makes the CPU go from the running task to the head of the      *)
(* ready list keeps the lists sound.                                       *)
LEMMA SwitchStep ==
  ASSUME SchedAssumption, IInv, ListInv, Switched
  PROVE  ListInv'
<1> USE ListTyping DEF ListInv
<1>0. cur \notin Elems(ready) /\ NoDup(ready)
  BY DEF Distinct
<1>1. /\ cur' \in Tasks
      /\ cur' \in Elems(ready) \cup {cur}
      /\ NoDup(ready')
      /\ cur' \notin Elems(ready')
      /\ Requeued => Elems(ready') \cup {cur'} = Elems(ready) \cup {cur}
      /\ Parked => cur' # cur /\ Elems(ready') \cup {cur'} = Elems(ready)
  <2>1. ASSUME NEW rd \in Seq(Tasks), rd # <<>>, NoDup(rd),
               ready' = Popped(rd), cur' = Head(rd)
        PROVE  /\ cur' \in Tasks /\ cur' \in Elems(rd) /\ NoDup(ready')
               /\ Elems(ready') = Elems(rd) \ {cur'}
    BY <2>1, PoppedElems
  <2>2. CASE Requeued
    <3>1. /\ Appended(ready, cur) \in Seq(Tasks)
          /\ Elems(Appended(ready, cur)) = Elems(ready) \cup {cur}
          /\ NoDup(Appended(ready, cur))
          /\ Appended(ready, cur) # <<>>
      BY <1>0, AppendedElems, ListTypes
    <3>2. ~Parked \/ cur' \in Elems(ready)
      BY <1>0, <2>1 DEF Parked
    <3>3. Parked => Elems(ready') = Elems(ready) \ {cur'}
      BY <1>0, <2>1 DEF Parked
    <3> QED BY <1>0, <2>1, <2>2, <3>1, <3>2, <3>3, SMTT(30) DEF Requeued
  <2>3. CASE Parked /\ ~Requeued
    BY <1>0, <2>1, <2>3 DEF Parked
  <2> QED BY <2>2, <2>3 DEF Switched
<1>2. RunningOne'
  <2>1. PICK x \in {"READY", "BLOCKED"} :
          status' = [[status EXCEPT ![cur] = x] EXCEPT ![cur'] = "RUNNING"]
    BY DEF Switched
  <2> SUFFICES ASSUME NEW t \in Tasks PROVE status'[t] = "RUNNING" <=> t = cur'
    BY DEF RunningOne
  <2>2. status[t] = "RUNNING" <=> t = cur
    BY DEF RunningOne
  <2> QED BY <1>1, <2>1, <2>2
<1>3. UNCHANGED <<pc, arg, target, holder, panic>>
  BY DEF Switched
<1>4. \A t \in Tasks : Asleep(t) => Asleep(t)'
  BY <1>1, <1>3 DEF Asleep, Switched
<1>5. \A l \in Locks :
        \/ waiters'[l] = waiters[l]
        \/ Parked /\ l = arg[cur] /\ waiters'[l] = Appended(waiters[l], cur)
  BY DEF Switched
<1>6. \A l \in Locks : cur \notin Elems(waiters[l])
  BY DEF WaitersAsleep, Asleep
<1>7. \A l \in Locks :
        /\ NoDup(waiters'[l])
        /\ Elems(waiters'[l]) \subseteq Elems(waiters[l]) \cup {cur}
        /\ Elems(waiters[l]) \subseteq Elems(waiters'[l])
        /\ cur \in Elems(waiters'[l]) => Parked /\ l = arg[cur]
  <2> SUFFICES ASSUME NEW l \in Locks
               PROVE  /\ NoDup(waiters'[l])
                      /\ Elems(waiters'[l]) \subseteq Elems(waiters[l]) \cup {cur}
                      /\ Elems(waiters[l]) \subseteq Elems(waiters'[l])
                      /\ cur \in Elems(waiters'[l]) => Parked /\ l = arg[cur]
    OBVIOUS
  <2>1. waiters[l] \in Seq(Tasks) /\ NoDup(waiters[l])
    BY DEF Distinct
  <2>2. /\ Elems(Appended(waiters[l], cur)) = Elems(waiters[l]) \cup {cur}
        /\ NoDup(Appended(waiters[l], cur))
    BY <1>6, <2>1, AppendedElems
  <2> QED BY <1>5, <1>6, <2>1, <2>2
<1>8. Distinct'
  BY <1>1, <1>7 DEF Distinct
<1>9. (cur \notin Elems(ready))'
  BY <1>1 DEF Elems
<1>10. \A t \in Tasks : t = cur /\ Parked => Asleep(t)'
  BY <1>0, <1>1, <1>3 DEF Parked, Asleep
<1>11. WaitersAsleep'
  <2> SUFFICES ASSUME NEW l \in Locks, NEW t \in Tasks, t \in Elems(waiters'[l])
               PROVE  Asleep(t)' /\ arg[t] = l
    BY <1>3 DEF WaitersAsleep
  <2>1. CASE t = cur
    BY <1>7, <1>10, <2>1
  <2>2. CASE t # cur
    BY <1>4, <1>7, <2>2 DEF WaitersAsleep
  <2> QED BY <2>1, <2>2
<1>12. WokenAside'
  <2> SUFFICES ASSUME NEW c \in Tasks, pc[c] = "push", NEW u \in Tasks, u = target[c]
               PROVE  Asleep(u)' /\ \A l \in Locks : u \notin Elems(waiters'[l])
    BY <1>3 DEF WokenAside, Asleep
  <2>1. Asleep(u) /\ \A l \in Locks : u \notin Elems(waiters[l])
    BY DEF WokenAside
  <2>2. u # cur
    BY <2>1 DEF Asleep
  <2> QED BY <1>4, <1>7, <2>1, <2>2
<1>13. WokenOnce' /\ WakesOther' /\ Outside' /\ OnlyUnblockAssertFails'
  BY <1>3 DEF WokenOnce, WakesOther, Outside, OnlyUnblockAssertFails
<1>14. Somewhere'
  <2> SUFFICES ASSUME NEW t \in Tasks, t # cur', t \notin Elems(ready')
               PROVE  \/ pc[t] = "P" /\ t \in Elems(waiters'[arg[t]])
                      \/ \E c \in Tasks : pc[c] = "push" /\ target[c] = t
    BY <1>3 DEF Somewhere
  <2>1. CASE t = cur
    <3>1. Parked /\ waiters' = [waiters EXCEPT ![arg[cur]] = Appended(@, cur)]
      BY <1>1, <2>1 DEF Switched
    <3>2. /\ waiters[arg[cur]] \in Seq(Tasks)
          /\ waiters'[arg[cur]] = Appended(waiters[arg[cur]], cur)
      BY <3>1
    <3>3. cur \in Elems(Appended(waiters[arg[cur]], cur))
      BY <3>2, AppendedElems
    <3> QED BY <2>1, <3>1, <3>2, <3>3 DEF Parked
  <2>2. CASE t # cur
    <3>1. t \notin Elems(ready)
      BY <1>1, <2>2 DEF Switched
    <3>2. arg[t] \in Locks
      OBVIOUS
    <3> QED BY <1>7, <2>2, <3>1, <3>2 DEF Somewhere
  <2> QED BY <2>1, <2>2
<1> QED BY <1>2, <1>8, <1>9, <1>11, <1>12, <1>13, <1>14

-----------------------------------------------------------------------------
(* Lock_V takes the first waiter off the list: until it pushes that task,  *)
(* only target names it.                                                   *)
LEMMA WakeStep ==
  ASSUME SchedAssumption, IInv, ListInv,
         LockV(cur), value[arg[cur]] = 0, waiters[arg[cur]] # <<>>
  PROVE  ListInv'
<1> USE ListTyping DEF ListInv
<1>0. PICK l \in Locks, w \in Tasks :
        /\ l = arg[cur] /\ w = Head(waiters[l])
        /\ w \in Elems(waiters[l])
        /\ Elems(Popped(waiters[l])) = Elems(waiters[l]) \ {w}
        /\ NoDup(Popped(waiters[l]))
  <2>1. arg[cur] \in Locks /\ waiters[arg[cur]] \in Seq(Tasks) /\ NoDup(waiters[arg[cur]])
    BY DEF Distinct
  <2> QED BY <2>1, PoppedElems
<1>1. /\ pc'[cur] = "push" /\ target'[cur] = w
      /\ \A c \in Ctx : c # cur => pc'[c] = pc[c] /\ target'[c] = target[c]
      /\ \A m \in Locks : m # l => waiters'[m] = waiters[m]
      /\ waiters'[l] = Popped(waiters[l])
      /\ UNCHANGED <<cur, status, ready, arg, holder, panic>>
      /\ pc[cur] = "V"
  <2>1. /\ target' = [target EXCEPT ![cur] = Head(waiters[arg[cur]])]
        /\ waiters' = [waiters EXCEPT ![arg[cur]] = Popped(@)]
        /\ pc' = [pc EXCEPT ![cur] = "push"]
        /\ UNCHANGED <<cur, status, ready, arg, holder, panic>>
        /\ pc[cur] = "V"
    BY DEF LockV, Goto
  <2> QED BY <1>0, <2>1
<1>2. Asleep(w) /\ arg[w] = l /\ \A m \in Locks : w \in Elems(waiters[m]) => m = l
  BY <1>0 DEF WaitersAsleep
<1>3. \A m \in Locks : NoDup(waiters'[m]) /\ Elems(waiters'[m]) = Elems(waiters[m]) \ {w}
  <2> SUFFICES ASSUME NEW m \in Locks
               PROVE  NoDup(waiters'[m]) /\ Elems(waiters'[m]) = Elems(waiters[m]) \ {w}
    OBVIOUS
  <2>1. CASE m = l
    BY <1>0, <1>1, <2>1
  <2>2. CASE m # l
    <3>1. w \notin Elems(waiters[m]) /\ NoDup(waiters[m]) /\ waiters'[m] = waiters[m]
      BY <1>1, <1>2, <2>2 DEF Distinct
    <3>2. Elems(waiters[m]) = Elems(waiters[m]) \ {w}
      BY <3>1
    <3> QED BY <3>1, <3>2
  <2> QED BY <2>1, <2>2
<1>4. RunningOne' /\ Distinct' /\ (cur \notin Elems(ready))' /\ OnlyUnblockAssertFails'
  BY <1>1, <1>3 DEF RunningOne, Distinct, OnlyUnblockAssertFails
<1>5. \A t \in Tasks : Asleep(t) => Asleep(t)'
  BY <1>1 DEF Asleep
<1>6. WaitersAsleep'
  <2> SUFFICES ASSUME NEW m \in Locks, NEW t \in Tasks, t \in Elems(waiters'[m])
               PROVE  Asleep(t)' /\ arg[t] = m
    BY <1>1 DEF WaitersAsleep
  <2>1. t \in Elems(waiters[m])
    BY <1>3
  <2> QED BY <1>5, <2>1 DEF WaitersAsleep
<1>7. \A c \in Tasks : c # cur /\ pc[c] = "push" => target[c] # w
  BY <1>0 DEF WokenAside
<1>8. WokenAside'
  <2> SUFFICES ASSUME NEW c \in Tasks, pc'[c] = "push", NEW u \in Tasks, u = target'[c]
               PROVE  Asleep(u)' /\ \A m \in Locks : u \notin Elems(waiters'[m])
    <3>1. \A c \in Tasks : target'[c] \in Tasks
      BY <1>1
    <3> QED BY <3>1 DEF WokenAside, Asleep
  <2>1. Asleep(u) /\ \A m \in Locks : u \notin Elems(waiters'[m])
    <3>1. CASE c = cur
      <4>1. u = w
        BY <1>1, <3>1
      <4>2. \A m \in Locks : w \notin Elems(waiters'[m])
        BY <1>3
      <4> QED BY <1>2, <4>1, <4>2
    <3>2. CASE c # cur
      <4>1. pc[c] = "push" /\ u = target[c]
        BY <1>1, <3>2
      <4>2. Asleep(u) /\ \A m \in Locks : u \notin Elems(waiters[m])
        BY <4>1 DEF WokenAside
      <4> QED BY <1>3, <4>2
    <3> QED BY <3>1, <3>2
  <2> QED BY <1>5, <2>1
<1>9. WokenOnce'
  <2> SUFFICES ASSUME NEW c \in Tasks, NEW d \in Tasks, c # d,
                      pc'[c] = "push", pc'[d] = "push", target'[c] = target'[d]
               PROVE  FALSE
    BY DEF WokenOnce
  <2>1. CASE c = cur
    <3>1. d # cur /\ pc[d] = "push" /\ target[d] = w
      BY <1>1, <2>1
    <3> QED BY <1>7, <3>1
  <2>2. CASE d = cur
    <3>1. c # cur /\ pc[c] = "push" /\ target[c] = w
      BY <1>1, <2>2
    <3> QED BY <1>7, <3>1
  <2>3. CASE c # cur /\ d # cur
    <3>1. /\ pc[c] = "push" /\ pc[d] = "push"
          /\ target[c] = target[d]
      BY <1>1, <2>3
    <3> QED BY <3>1 DEF WokenOnce
  <2> QED BY <2>1, <2>2, <2>3
<1>10. WakesOther'
  BY <1>1, <1>2 DEF WakesOther, Asleep
<1>11. Outside'
  BY <1>1 DEF Outside
<1>12. Somewhere'
  <2> SUFFICES ASSUME NEW t \in Tasks, t # cur, t \notin Elems(ready)
               PROVE  \/ pc'[t] = "P" /\ t \in Elems(waiters'[arg[t]])
                      \/ \E c \in Tasks : pc'[c] = "push" /\ target'[c] = t
    BY <1>1 DEF Somewhere
  <2>1. CASE t = w
    BY <1>1, <2>1
  <2>2. CASE t # w
    <3>1. CASE pc[t] = "P" /\ t \in Elems(waiters[arg[t]])
      <4>1. arg[t] \in Locks
        OBVIOUS
      <4> QED BY <1>1, <1>3, <2>2, <3>1, <4>1, ZenonT(30)
    <3>2. CASE \E c \in Tasks : pc[c] = "push" /\ target[c] = t
      BY <1>1, <3>2
    <3> QED BY <3>1, <3>2 DEF Somewhere
  <2> QED BY <2>1, <2>2
<1> QED BY <1>4, <1>6, <1>8, <1>9, <1>10, <1>11, <1>12

(* Thread_UnBlock puts the woken task in front of the ready list.          *)
LEMMA PushStep ==
  ASSUME SchedAssumption, IInv, ListInv,
         pc[cur] = "push",
         ready' = Pushed(ready, target[cur]),
         pc' = [pc EXCEPT ![cur] = "ready"],
         UNCHANGED <<cur, status, waiters, arg, target, holder, panic>>
  PROVE  ListInv'
<1> USE ListTyping DEF ListInv
<1>0. PICK w \in Tasks : w = target[cur]
  OBVIOUS
<1>1. Asleep(w) /\ \A l \in Locks : w \notin Elems(waiters[l])
  BY <1>0 DEF WokenAside
<1>2. Elems(ready') = Elems(ready) \cup {w} /\ NoDup(ready')
  <2>1. w \notin Elems(ready) /\ NoDup(ready)
    BY <1>1 DEF Asleep, Distinct
  <2>2. ready \in Seq(Tasks)
    OBVIOUS
  <2>3. Elems(Pushed(ready, w)) = Elems(ready) \cup {w} /\ NoDup(Pushed(ready, w))
    BY <2>1, <2>2, PushedElems
  <2> QED BY <1>0, <2>3
<1>3. pc'[cur] = "ready" /\ \A c \in Ctx : c # cur => pc'[c] = pc[c]
  OBVIOUS
<1>4. RunningOne' /\ Distinct' /\ OnlyUnblockAssertFails'
  BY <1>2 DEF RunningOne, Distinct, OnlyUnblockAssertFails
<1>5. (cur \notin Elems(ready))'
  BY <1>1, <1>2 DEF Asleep
<1>6. \A t \in Tasks : Asleep(t) /\ t # w => Asleep(t)'
  BY <1>2, <1>3 DEF Asleep
<1>7. WaitersAsleep'
  BY <1>1, <1>6 DEF WaitersAsleep
<1>8. \A c \in Tasks : c # cur /\ pc[c] = "push" => target[c] # w
  BY <1>0 DEF WokenOnce
<1>9. WokenAside'
  <2> SUFFICES ASSUME NEW c \in Tasks, pc'[c] = "push", NEW u \in Tasks, u = target[c]
               PROVE  Asleep(u)' /\ \A l \in Locks : u \notin Elems(waiters[l])
    BY DEF WokenAside, Asleep
  <2>1. c # cur /\ pc[c] = "push"
    BY <1>3
  <2> QED BY <1>6, <1>8, <2>1 DEF WokenAside
<1>10. WokenOnce' /\ WakesOther'
  BY <1>3 DEF WokenOnce, WakesOther
<1>11. Outside'
  BY <1>3 DEF Outside
<1>12. Somewhere'
  <2> SUFFICES ASSUME NEW t \in Tasks, t # cur, t \notin Elems(ready'),
                      NEW arg_t \in Locks, arg_t = arg[t]
               PROVE  \/ pc'[t] = "P" /\ t \in Elems(waiters[arg_t])
                      \/ \E c \in Tasks : pc'[c] = "push" /\ target[c] = t
    BY DEF Somewhere
  <2>1. CASE pc[t] = "P" /\ t \in Elems(waiters[arg[t]])
    BY <1>3, <2>1
  <2>2. CASE \E c \in Tasks : pc[c] = "push" /\ target[c] = t
    BY <1>0, <1>2, <1>3, <2>2
  <2> QED BY <1>2, <2>1, <2>2 DEF Somewhere
<1> QED BY <1>4, <1>5, <1>7, <1>9, <1>10, <1>11, <1>12

(* Thread_UnBlock writes the woken task's status, which may have been      *)
(* running and gone to sleep again meanwhile.                              *)
LEMMA ReadyStep ==
  ASSUME SchedAssumption, IInv, ListInv,
         pc[cur] = "ready",
         status' = [status EXCEPT ![target[cur]] = "READY"],
         pc' = [pc EXCEPT ![cur] = "endV"],
         UNCHANGED <<cur, ready, waiters, arg, target, holder, panic>>
  PROVE  ListInv'
<1> USE ListTyping DEF ListInv
<1>1. pc'[cur] = "endV" /\ \A c \in Ctx : c # cur => pc'[c] = pc[c]
  OBVIOUS
<1>2. RunningOne'
  BY DEF RunningOne, WakesOther
<1>3. Distinct' /\ (cur \notin Elems(ready))' /\ OnlyUnblockAssertFails'
  BY DEF Distinct, OnlyUnblockAssertFails
<1>4. \A t \in Tasks : Asleep(t) => Asleep(t)'
  BY <1>1 DEF Asleep
<1>5. WaitersAsleep'
  BY <1>4 DEF WaitersAsleep
<1>6. WokenAside'
  <2> SUFFICES ASSUME NEW c \in Tasks, pc'[c] = "push", NEW u \in Tasks, u = target[c]
               PROVE  Asleep(u)' /\ \A l \in Locks : u \notin Elems(waiters[l])
    BY DEF WokenAside, Asleep
  <2>1. pc[c] = "push"
    BY <1>1
  <2> QED BY <1>4, <2>1 DEF WokenAside
<1>7. WokenOnce' /\ WakesOther' /\ Outside'
  BY <1>1 DEF WokenOnce, WakesOther, Outside
<1>8. Somewhere'
  <2> SUFFICES ASSUME NEW t \in Tasks, t # cur, t \notin Elems(ready)
               PROVE  \/ pc'[t] = "P" /\ t \in Elems(waiters[arg[t]])
                      \/ \E c \in Tasks : pc'[c] = "push" /\ target[c] = t
    BY DEF Somewhere
  <2>1. CASE pc[t] = "P" /\ t \in Elems(waiters[arg[t]])
    BY <1>1, <2>1
  <2>2. CASE \E c \in Tasks : pc[c] = "push" /\ target[c] = t
    BY <1>1, <2>2
  <2> QED BY <2>1, <2>2 DEF Somewhere
<1> QED BY <1>2, <1>3, <1>5, <1>6, <1>7, <1>8

(* A failed ASSERT changes no list.                                        *)
LEMMA PanicStep ==
  ASSUME ListInv, panic' \in {"none", "thread.c:228"},
         UNCHANGED <<cur, status, ready, waiters, pc, arg, target, holder>>
  PROVE  ListInv'
BY DEF ListInv, RunningOne, Distinct, WaitersAsleep, WokenAside, WokenOnce, WakesOther,
       Outside, Somewhere, OnlyUnblockAssertFails, Asleep

(* Inside Lock_V the lock is still taken.                                  *)
LEMMA TakenInV ==
  ASSUME SchedAssumption, IInv, NEW t \in Tasks, pc[t] \in InV
  PROVE  value[arg[t]] = 0
<1>1. Owns(t, arg[t]) /\ arg[t] \in Locks \ Sems /\ value[arg[t]] \in {0, 1}
  BY DEF IInv, LockInv, TypeOK, Ctx, Owns, NoSems, CSLabels
<1> QED BY <1>1 DEF IInv, LockInv, MutualExclusion

(* A task that goes to sleep never leaves the ready list empty: a spinning *)
(* task is on it.                                                          *)
LEMMA SomeoneReady ==
  ASSUME SchedAssumption, IInv, ListInv, pc[cur] = "P"
  PROVE  ready # <<>>
<1>1. PICK s \in Spinners : TRUE
  BY DEF SchedAssumption
<1>2. s \in Tasks /\ pc[s] \in {"user", "run"} /\ s # cur
  BY <1>1, ListTyping DEF ListInv, Outside
<1>3. ~ \E c \in Tasks : pc[c] = "push" /\ target[c] = s
  BY <1>2 DEF ListInv, WokenAside, Asleep
<1>4. s \in Elems(ready)
  BY <1>2, <1>3 DEF ListInv, Somewhere
<1> QED BY <1>4 DEF Elems

(* Lock_Lock, Lock_P, Lock_UnLock and Lock_V.                              *)
LEMMA LockStepLists ==
  ASSUME SchedAssumption, IInv, ListInv, LockStep(cur)
  PROVE  ListInv'
<1>0. /\ cur \in Tasks /\ cur \in Ctx /\ pc \in [Ctx -> Labels]
      /\ arg[cur] \in Locks /\ NoTask \notin Spinners
      /\ status \in [Tasks -> {"RUNNING", "READY", "BLOCKED"}]
      /\ arg \in [Ctx -> Locks] /\ target \in [Ctx -> Tasks]
      /\ holder \in [Locks -> Tasks \cup {NoTask}]
      /\ cur \in Spinners => pc[cur] \in {"user", "run"} /\ \A l \in Locks : holder[l] # cur
  BY ListTyping DEF ListInv, Outside, IInv, TypeOK, SchedAssumption
<1>1. ASSUME NEW l \in Locks, LockCall(cur, l) PROVE ListInv'
  <2>1. /\ pc[cur] = "run" /\ cur \notin Spinners
        /\ pc' = [pc EXCEPT ![cur] = "P"] \/ pc' = pc
        /\ \A c \in Ctx : c # cur => arg'[c] = arg[c]
        /\ UNCHANGED <<cur, status, ready, waiters, target, holder, panic>>
    BY <1>0, <1>1 DEF LockCall, Goto, taskVars
  <2>2. PICK label \in {"P", "run"} : pc' = [pc EXCEPT ![cur] = label]
    BY <1>0, <2>1
  <2> QED BY <2>1, <2>2, QuietStep DEF Labels
<1>2. ASSUME NEW l \in Locks, UnlockCall(cur, l) PROVE ListInv'
  <2>1. /\ pc[cur] = "run" /\ cur \notin Spinners
        /\ pc' = [pc EXCEPT ![cur] = "V"] \/ pc' = pc
        /\ \A c \in Ctx : c # cur => arg'[c] = arg[c]
        /\ \A m \in Locks : holder'[m] \in {holder[m], NoTask}
        /\ UNCHANGED <<cur, status, ready, waiters, target, panic>>
    BY <1>0, <1>2 DEF UnlockCall, Goto, taskVars
  <2>2. PICK label \in {"V", "run"} : pc' = [pc EXCEPT ![cur] = label]
    BY <1>0, <2>1
  <2> QED BY <1>0, <2>1, <2>2, QuietStep DEF Labels
<1>3. CASE LockP(cur)
  <2>0. pc[cur] = "P" /\ cur \notin Spinners /\ value[arg[cur]] \in {0, 1}
    BY <1>0, <1>3 DEF LockP, IInv, TypeOK
  <2>1. CASE value[arg[cur]] = 1
    <3>1. PICK label \in {"run", "got"} :
            /\ pc' = [pc EXCEPT ![cur] = label]
            /\ UNCHANGED <<cur, status, ready, waiters, arg, target, holder, panic>>
      BY <1>3, <2>1 DEF LockP, Goto
    <3> QED BY <2>0, <3>1, QuietStep DEF Labels
  <2>2. CASE value[arg[cur]] = 0
    <3>1. cur \notin Elems(waiters[arg[cur]])
      BY <1>0 DEF ListInv, WaitersAsleep, Asleep
    <3>2. /\ waiters' = [waiters EXCEPT ![arg[cur]] = Appended(@, cur)]
          /\ Schedule([status EXCEPT ![cur] = "BLOCKED"], ready, "OFF")
          /\ UNCHANGED <<pc, arg, target, holder, panic>>
      BY <1>3, <2>2, <3>1 DEF LockP, Block, ctxVars
    <3>3. ready # <<>>
      BY <2>0, SomeoneReady
    <3>4. [status EXCEPT ![cur] = "BLOCKED"][cur] # "RUNNING"
      BY <1>0
    <3>5. /\ cur' = Head(ready)
          /\ ready' = Popped(ready)
          /\ status' = MarkRunning([status EXCEPT ![cur] = "BLOCKED"], cur')
      BY <3>2, <3>3, <3>4 DEF Schedule
    <3> QED BY <2>0, <3>2, <3>3, <3>5, SwitchStep DEF Switched, Parked, MarkRunning
  <2> QED BY <2>0, <2>1, <2>2
<1>4. CASE LockGot(cur)
  <2>1. repeat[arg[cur]] = 0
    <3>1. holder[arg[cur]] = NoTask
      BY <1>0, <1>4 DEF LockGot, IInv, LockInv, NoHolderInCS, CSLabels
    <3> QED BY <1>0, <3>1 DEF IInv, LockInv, Counted, SchedAssumption, Ctx
  <2>2. /\ pc[cur] = "got" /\ cur \notin Spinners
        /\ pc' = [pc EXCEPT ![cur] = "run"]
        /\ \A m \in Locks : holder'[m] \in {holder[m], cur}
        /\ UNCHANGED <<cur, status, ready, waiters, arg, target, panic>>
    BY <1>0, <1>4, <2>1 DEF LockGot, Goto, taskVars
  <2> QED BY <2>2, QuietStep DEF Labels
<1>5. CASE LockV(cur)
  <2>1. pc[cur] = "V" /\ cur \notin Spinners /\ value[arg[cur]] = 0
    BY <1>0, <1>5, TakenInV DEF LockV, InV
  <2>2. CASE waiters[arg[cur]] = <<>>
    <3>1. /\ pc' = [pc EXCEPT ![cur] = "run"]
          /\ UNCHANGED <<cur, status, ready, waiters, arg, target, holder, panic>>
      BY <1>5, <2>1, <2>2 DEF LockV, Goto
    <3> QED BY <2>1, <3>1, QuietStep DEF Labels
  <2>3. CASE waiters[arg[cur]] # <<>>
    BY <1>5, <2>1, <2>3, WakeStep
  <2> QED BY <2>2, <2>3
<1>6. CASE UnBlockPush(cur)
  <2>1. pc[cur] = "push" /\ target[cur] \notin Elems(ready)
    BY <1>0, <1>6 DEF UnBlockPush, ListInv, WokenAside, Asleep
  <2>2. CASE status[target[cur]] # "BLOCKED"
    BY <1>6, <2>2, PanicStep DEF UnBlockPush, Panic, taskVars, lockVars, ctxVars
  <2>3. CASE status[target[cur]] = "BLOCKED"
    BY <1>6, <2>1, <2>3, PushStep DEF UnBlockPush, Goto, lockVars
  <2> QED BY <2>2, <2>3
<1>7. CASE UnBlockReady(cur)
  BY <1>7, ReadyStep DEF UnBlockReady, Goto, lockVars
<1>8. CASE LockVEnd(cur)
  <2>1. pc[cur] = "endV" /\ cur \notin Spinners /\ value[arg[cur]] = 0
    BY <1>0, <1>8, TakenInV DEF LockVEnd, InV
  <2>2. /\ pc' = [pc EXCEPT ![cur] = "run"]
        /\ \A c \in Ctx : c # cur => target'[c] = target[c]
        /\ UNCHANGED <<cur, status, ready, waiters, arg, holder, panic>>
    BY <1>0, <1>8, <2>1 DEF LockVEnd, Goto
  <2> QED BY <2>1, <2>2, QuietStep DEF Labels
<1> QED
  BY <1>1, <1>2, <1>3, <1>4, <1>5, <1>6, <1>7, <1>8 DEF LockStep

(* Thread_Schedule called with a list it appends the running task to: the  *)
(* clock's and Thread_Yield's calls.                                       *)
LEMMA RequeueStep ==
  ASSUME SchedAssumption, IInv, ListInv,
         NEW iflag,
         \/ Schedule(status, ready, iflag)
         \/ Schedule([status EXCEPT ![cur] = "READY"], Appended(ready, cur), iflag),
         UNCHANGED <<waiters, pc, arg, target, holder, panic>>
  PROVE  ListInv'
<1>0. /\ cur \in Tasks /\ ready \in Seq(Tasks)
      /\ status \in [Tasks -> {"RUNNING", "READY", "BLOCKED"}]
      /\ status[cur] = "RUNNING"
  BY ListTyping DEF ListInv, RunningOne
<1>1. Appended(ready, cur) # <<>>
  BY <1>0, AppendedElems
<1>2. [status EXCEPT ![cur] = "READY"][cur] # "RUNNING"
  BY <1>0
<1>3. /\ cur' = Head(Appended(ready, cur))
      /\ ready' = Popped(Appended(ready, cur))
      /\ status' = MarkRunning([status EXCEPT ![cur] = "READY"], cur')
  BY <1>0, <1>1, <1>2 DEF Schedule
<1> QED BY <1>3, SwitchStep DEF Switched, Requeued, MarkRunning

(* Every step of the system keeps the list invariant.                      *)
LEMMA ListStep ==
  ASSUME SchedAssumption, IInv, ListInv, [Next]_vars
  PROVE  ListInv'
<1>0. /\ cur \in Tasks /\ cur \in Ctx
      /\ cur \in Spinners => pc[cur] \in {"user", "run"}
  BY ListTyping DEF ListInv, Outside
<1>1. ASSUME TaskStep(cur) PROVE ListInv'
  <2>1. CASE LockStep(cur)
    BY <2>1, LockStepLists
  <2>2. CASE SleepCall(cur)
    <3>1. /\ pc[cur] = "run" /\ cur \notin Spinners
          /\ pc' = [pc EXCEPT ![cur] = "sleep"]
          /\ UNCHANGED <<cur, status, ready, waiters, arg, target, holder, panic>>
      BY <2>2 DEF SleepCall, Goto, taskVars, lockVars, SchedAssumption
    <3> QED BY <3>1, QuietStep DEF Labels
  <2>3. CASE SleepStep(cur)
    <3>0. pc[cur] = "sleep" /\ cur \notin Elems(ready) /\ cur \notin Spinners
      BY <1>0, <2>3 DEF SleepStep, ListInv
    <3>1. CASE slept[cur] < SleepTicks
      <4>1. /\ Schedule([status EXCEPT ![cur] = "READY"], Appended(ready, cur), SavedIF(cur))
            /\ UNCHANGED <<waiters, pc, arg, target, holder, panic>>
        BY <2>3, <3>0, <3>1 DEF SleepStep, Yield, lockVars, ctxVars
      <4> QED BY <4>1, RequeueStep
    <3>2. CASE ~(slept[cur] < SleepTicks)
      <4>1. /\ pc' = [pc EXCEPT ![cur] = "run"]
            /\ UNCHANGED <<cur, status, ready, waiters, arg, target, holder, panic>>
        BY <2>3, <3>2 DEF SleepStep, Goto, taskVars, lockVars
      <4> QED BY <3>0, <4>1, QuietStep DEF Labels
    <3> QED BY <3>1, <3>2
  <2>4. CASE SysEnter(cur)
    <3>1. /\ pc[cur] = "user"
          /\ pc' = [pc EXCEPT ![cur] = "run"]
          /\ UNCHANGED <<cur, status, ready, waiters, arg, target, holder, panic>>
      BY <2>4 DEF SysEnter, Goto, lockVars
    <3> QED BY <3>1, QuietStep DEF Labels
  <2>5. CASE SysExit(cur)
    <3>1. /\ pc[cur] = "run"
          /\ pc' = [pc EXCEPT ![cur] = "user"]
          /\ UNCHANGED <<cur, status, ready, waiters, arg, target, holder, panic>>
      BY <2>5 DEF SysExit, Goto, lockVars
    <3> QED BY <3>1, QuietStep DEF Labels
  <2> QED
    BY <1>1, <2>1, <2>2, <2>3, <2>4, <2>5 DEF TaskStep
<1>2. CASE TimerIntr
  <2>0. cur \notin Elems(ready)
    BY DEF ListInv
  <2>1. UNCHANGED <<waiters, pc, arg, target, holder, panic>>
    BY <1>2, <2>0 DEF TimerIntr, lockVars
  <2>2. CASE SliceOver(cur)
    <3>1. Schedule(status, ready, "ON")
      BY <1>2, <2>0, <2>2 DEF TimerIntr
    <3> QED BY <2>1, <3>1, RequeueStep
  <2>3. CASE ~SliceOver(cur)
    <3>1. UNCHANGED <<cur, status, ready>>
      BY <1>2, <2>0, <2>3 DEF TimerIntr
    <3> QED BY <2>1, <3>1, PanicStep DEF ListInv, OnlyUnblockAssertFails
  <2> QED BY <2>2, <2>3
<1>3. CASE UNCHANGED vars
  BY <1>3, PanicStep DEF vars, taskVars, lockVars, ctxVars, ListInv, OnlyUnblockAssertFails
<1> QED
  BY <1>1, <1>2, <1>3 DEF Next, Halted, TaskStep

(* TaskInit puts every task but Main on the ready list, each once.         *)
LEMMA InitLists ==
  ASSUME SchedAssumption, Init
  PROVE  ListInv
<1> DEFINE Others == Tasks \ {Main}
<1>1. IsFiniteSet(Others)
  BY FS_Difference DEF SchedAssumption
<1>2. PICK n \in Nat : n = Cardinality(Others)
  BY <1>1, FS_CardinalityType
<1>3. ready \in [1 .. n -> Others] /\ Elems(ready) = Others
  BY <1>2 DEF Init, InitTasks
<1>4. NoDup(ready)
  <2>1. ready \in Surjection(1 .. n, Others)
    BY <1>3 DEF Surjection, Elems
  <2>2. IsFiniteSet(1 .. n) /\ Cardinality(1 .. n) = n
    BY FS_Interval
  <2>3. ready \in Injection(1 .. n, Others)
    BY <1>2, <2>1, <2>2, FS_Surjection
  <2> QED BY <2>3 DEF Injection, IsInjective, NoDup
<1>5. /\ cur = Main /\ Main \in Tasks
      /\ status = [t \in Tasks |-> IF t = Main THEN "RUNNING" ELSE "READY"]
      /\ holder = [l \in Locks |-> NoTask] /\ waiters = [l \in Locks |-> <<>>]
      /\ pc = [c \in Ctx |-> IF c \in Procs THEN "user" ELSE "run"]
      /\ panic = "none"
      /\ NoTask \notin Tasks /\ Spinners \subseteq Tasks /\ Isrs \cap Tasks = {}
      /\ Tasks \subseteq Ctx /\ Isrs \subseteq Ctx /\ Procs \subseteq Tasks
  BY DEF Init, InitTasks, InitLocks, SchedAssumption, Tasks, Ctx
<1>6. \A l \in Locks : Elems(waiters[l]) = {} /\ NoDup(waiters[l])
  BY <1>5 DEF Elems, NoDup
<1>7. \A c \in Tasks : pc[c] \in {"user", "run"}
  BY <1>5
<1>8. RunningOne /\ Distinct /\ cur \notin Elems(ready)
  BY <1>3, <1>4, <1>5, <1>6 DEF RunningOne, Distinct
<1>9. WaitersAsleep /\ WokenAside /\ WokenOnce /\ WakesOther
  BY <1>6, <1>7 DEF WaitersAsleep, WokenAside, WokenOnce, WakesOther
<1>10. Outside
  BY <1>5, <1>7 DEF Outside
<1>11. Somewhere
  BY <1>3, <1>5 DEF Somewhere
<1>12. OnlyUnblockAssertFails
  BY <1>5 DEF OnlyUnblockAssertFails
<1> QED BY <1>8, <1>9, <1>10, <1>11, <1>12 DEF ListInv

-----------------------------------------------------------------------------
(* The lock invariant and the list invariant hold together.                *)
THEOREM ListInvariance == Spec => [](IInv /\ ListInv)
<1>1. Init => ListInv
  BY InitLists, SchedAssumption
<1>2. IInv /\ ListInv /\ [Next]_vars => ListInv'
  BY ListStep, SchedAssumption
<1> QED BY <1>1, <1>2, Invariance, PTL DEF Spec

(* How often a list without duplicates names a task.                       *)
LEMMA OccurrencesOnce ==
  ASSUME NEW S, NEW s \in Seq(S), NoDup(s), NEW t
  PROVE  /\ Occurrences(s, t) \in {0, 1}
         /\ t \notin Elems(s) => Occurrences(s, t) = 0
<1> DEFINE I == {i \in DOMAIN s : s[i] = t}
<1>1. CASE t \notin Elems(s)
  <2>1. I = {}
    BY <1>1 DEF Elems
  <2> QED BY <1>1, <2>1, FS_EmptySet DEF Occurrences
<1>2. CASE t \in Elems(s)
  <2>1. PICK i \in DOMAIN s : s[i] = t
    BY <1>2 DEF Elems
  <2>2. I = {i}
    BY <2>1 DEF NoDup
  <2> QED BY <1>2, <2>2, FS_Singleton DEF Occurrences
<1> QED BY <1>1, <1>2

(* A task is on at most one of the ready list and the waiters lists, once: *)
(* the generalTag all of them link is in one list only.                    *)
THEOREM OneListHolds == Spec => []OneList
<1>1. ASSUME IInv, ListInv PROVE OneList
  <2> SUFFICES ASSUME NEW t \in Tasks
               PROVE  /\ Occurrences(ready, t) <= 1
                      /\ \A l \in Locks : Occurrences(waiters[l], t) <= 1
                      /\ Cardinality(ListsOf(t)) + Occurrences(ready, t) <= 1
    BY DEF OneList
  <2>1. /\ ready \in Seq(Tasks) /\ NoDup(ready)
        /\ \A l \in Locks : waiters[l] \in Seq(Tasks) /\ NoDup(waiters[l])
    BY <1>1, ListTyping, SchedAssumption DEF ListInv, Distinct
  <2>2. /\ Occurrences(ready, t) \in {0, 1}
        /\ t \notin Elems(ready) => Occurrences(ready, t) = 0
    BY <2>1, OccurrencesOnce
  <2>3. \A l \in Locks : Occurrences(waiters[l], t) \in {0, 1}
    BY <2>1, OccurrencesOnce
  <2>4. \A l \in Locks : t \in Elems(waiters[l]) => t \notin Elems(ready) /\ l = arg[t]
    BY <1>1 DEF ListInv, WaitersAsleep, Asleep
  <2>5. CASE ListsOf(t) = {}
    BY <2>2, <2>3, <2>5, FS_EmptySet
  <2>6. CASE ListsOf(t) # {}
    <3>1. ListsOf(t) = {arg[t]} /\ Occurrences(ready, t) = 0
      BY <2>2, <2>4, <2>6 DEF ListsOf
    <3>2. Cardinality(ListsOf(t)) = 1
      BY <3>1, FS_Singleton
    <3> QED BY <2>3, <3>1, <3>2
  <2> QED BY <2>5, <2>6
<1> QED BY <1>1, ListInvariance, PTL

(* No task drops out of the system, whatever the clock interrupts.         *)
THEOREM NoTaskLostHolds == Spec => []NoTaskLost
<1>1. ASSUME ListInv PROVE NoTaskLost
  BY <1>1 DEF ListInv, Somewhere, NoTaskLost, BeingWoken, Ctx
<1> QED BY <1>1, ListInvariance, PTL

(* The running task, and no other, is marked RUNNING, and it is on no list.*)
THEOREM RunningTaskHolds == Spec => []RunningTask
<1>1. ASSUME IInv, ListInv PROVE RunningTask
  <2>1. cur \in Tasks
    BY <1>1 DEF IInv, TypeOK
  <2>2. ListsOf(cur) = {}
    BY <1>1, <2>1 DEF ListInv, WaitersAsleep, Asleep, ListsOf
  <2> QED BY <1>1, <2>2 DEF ListInv, RunningOne, RunningTask
<1> QED BY <1>1, ListInvariance, PTL

(* Eight of the nine ASSERTs of sync.c and thread.c never fail; the ninth  *)
(* (thread.c:228) can: a woken task may run and sleep again before its     *)
(* status is written.                                                      *)
THEOREM OnlyUnblockAssertFailsHolds == Spec => []OnlyUnblockAssertFails
<1>1. ListInv => OnlyUnblockAssertFails
  BY DEF ListInv
<1> QED BY <1>1, ListInvariance, PTL

-----------------------------------------------------------------------------
(***************************************************************************)
(* The disk driver: requests do not overlap on the channel, a task         *)
(* transfers the data of its own command, and it moves the sectors it was  *)
(* asked for, whatever the clock does inside Lock_V of the disk's          *)
(* interrupt handler, and with drives that time out.                       *)
(***************************************************************************)

DriveStates == {"idle", "reading", "preparing", "accepting", "writing"}

IoType ==
  /\ pc \in [Ctx -> Labels]
  /\ arg \in [Ctx -> Locks]
  /\ value \in [Locks -> {0, 1}]
  /\ holder \in [Locks -> Tasks \cup {NoTask}]
  /\ repeat \in [Locks -> Nat]
  /\ ioPc \in [IoTasks -> IoLabels]
  /\ op \in [IoTasks -> {"read", "write"}]
  /\ secCnt \in [IoTasks -> Nat]
  /\ secsDone \in [IoTasks -> Nat]
  /\ drive \in DriveStates

(* Where a task of the driver can be in the lock code at each place of the *)
(* driver, and what it waits for there.                                    *)
Place(t) ==
  /\ ioPc[t] = "idle" => pc[t] \in {"user", "run"}
  /\ ioPc[t] = "locking" => pc[t] = "run" \/ (pc[t] \in {"P", "got"} /\ arg[t] = ChanLock)
  /\ ioPc[t] = "cmd" => pc[t] = "run" \/ (pc[t] = "P" /\ arg[t] = DiskDone /\ op[t] = "write")
  /\ ioPc[t] \in {"wait", "xfer"} => pc[t] = "run"
  /\ ioPc[t] = "poll" =>
       pc[t] \in {"run", "sleep"} \/ (pc[t] = "P" /\ arg[t] = DiskDone /\ op[t] = "read")
  /\ ioPc[t] = "unlocking" => pc[t] = "run" \/ (pc[t] \in InV /\ arg[t] = ChanLock)

Places ==
  /\ \A t \in IoTasks : Place(t)
  /\ \A t \in Tasks \ IoTasks : pc[t] \in {"user", "run"}

(* The holder of the channel's lock is the task in the loop of Ide_Read or *)
(* Ide_Write.                                                              *)
Holds(t) ==
  \/ ioPc[t] \in {"cmd", "wait", "poll", "xfer"}
  \/ ioPc[t] = "locking" /\ pc[t] = "run"

Holding ==
  /\ \A t \in IoTasks : holder[ChanLock] = t <=> Holds(t)
  /\ \/ holder[ChanLock] = NoTask /\ repeat[ChanLock] = 0
     \/ holder[ChanLock] \in IoTasks /\ repeat[ChanLock] = 1

(* It has the lock from Lock_P to the end of Lock_V.                       *)
Has(t) == Holds(t) \/ (pc[t] \in {"got"} \cup InV /\ arg[t] = ChanLock)

ChanMutex ==
  /\ \A t, u \in IoTasks : Has(t) /\ Has(u) => t = u
  /\ value[ChanLock] = 1 => \A t \in IoTasks : ~Has(t)

(* The handler does nothing but signal diskDone.                           *)
Handler == pc[Isr] = "run" \/ (pc[Isr] \in InV /\ arg[Isr] = DiskDone)

(* The way of a command from the drive to the task: nothing under way, the *)
(* drive working, its interrupt raised, the handler in Lock_V, the         *)
(* semaphore up.                                                           *)
Quiet ==
  drive = "idle" /\ ~expecting /\ ~irq /\ pc[Isr] = "run" /\ value[DiskDone] = 0
Working ==
  drive # "idle" /\ expecting /\ ~irq /\ pc[Isr] = "run" /\ value[DiskDone] = 0
Raised ==
  drive = "idle" /\ expecting /\ irq /\ pc[Isr] = "run" /\ value[DiskDone] = 0
Signalling ==
  drive = "idle" /\ ~expecting /\ ~irq /\ pc[Isr] \in InV /\ value[DiskDone] = 0
Signalled ==
  drive = "idle" /\ ~expecting /\ ~irq /\ pc[Isr] = "run" /\ value[DiskDone] = 1

UnderWay == Working \/ Raised \/ Signalling \/ Signalled

(* A task has issued a command and not yet finished with it; it waits for  *)
(* its end, or is about to.                                                *)
Mid(t) == ioPc[t] \in {"wait", "poll", "xfer"} \/ (ioPc[t] = "cmd" /\ pc[t] = "P")
Waits(t) == ioPc[t] = "wait" \/ (ioPc[t] \in {"poll", "cmd"} /\ pc[t] = "P")

Command(t) ==
  /\ Mid(t) => cmdOf = t
  /\ Waits(t) =>
       UnderWay /\ (drive = "idle" \/ (drive = "reading" <=> op[t] = "read"))
  /\ ioPc[t] \in {"poll", "xfer"} /\ ~Waits(t) =>
       IF op[t] = "read" THEN Quiet ELSE Working /\ drive \in {"preparing", "accepting"}
  /\ ioPc[t] = "xfer" /\ op[t] = "write" /\ ~MayStall => drive = "accepting"

Commands ==
  /\ Quiet \/ (UnderWay /\ \E t \in IoTasks : Mid(t))
  /\ \A t \in IoTasks : Command(t)

SectorsOf(t) ==
  /\ secsDone[t] <= secCnt[t]
  /\ ioPc[t] \in {"idle", "locking"} => secsDone[t] = 0
  /\ ioPc[t] = "unlocking" => secsDone[t] = secCnt[t]

Sectors == \A t \in IoTasks : SectorsOf(t)

IdeInv ==
  /\ IoType /\ Places /\ Holding /\ ChanMutex /\ Handler /\ Commands /\ Sectors
  /\ CountersAssertsHold

-----------------------------------------------------------------------------
(* The constants, in the form the steps need them.                         *)
LEMMA Constants ==
  /\ IoTasks \subseteq Tasks /\ Tasks \subseteq Ctx /\ Isr \in Ctx /\ Isr \notin Tasks
  /\ NoTask \notin Tasks
  /\ ChanLock \in Locks /\ DiskDone \in Locks /\ ChanLock # DiskDone
  /\ ChanLock \notin Sems /\ DiskDone \in Sems
  /\ MaxOp \in Nat /\ MaxOp > 0
BY SchedAssumption, IdeAssumption DEF SchedAssumption, IdeAssumption, Ctx, Tasks

(* A step of task t leaves the other tasks and the handler where they are. *)
OthersStay(t) ==
  /\ \A c \in Ctx : c # t => pc'[c] = pc[c] /\ arg'[c] = arg[c]
  /\ \A u \in IoTasks : u # t =>
       ioPc'[u] = ioPc[u] /\ op'[u] = op[u] /\ secCnt'[u] = secCnt[u] /\ secsDone'[u] = secsDone[u]

(* What is to be shown for such a step.                                    *)
LEMMA OneTask ==
  ASSUME IdeInv, NEW t \in IoTasks, OthersStay(t), IoType',
         Place(t)', Holding', ChanMutex', Commands', SectorsOf(t)', CountersAssertsHold'
  PROVE  IdeInv'
<1> USE Constants DEF OthersStay
<1>1. Places'
  <2>1. ASSUME NEW u \in IoTasks PROVE Place(u)'
    BY DEF IdeInv, Places, Place
  <2>2. ASSUME NEW u \in Tasks \ IoTasks PROVE pc'[u] \in {"user", "run"}
    BY DEF IdeInv, Places
  <2> QED BY <2>1, <2>2 DEF Places
<1>2. Handler'
  BY DEF IdeInv, Handler
<1>3. Sectors'
  BY DEF IdeInv, Sectors, SectorsOf
<1> QED BY <1>1, <1>2, <1>3 DEF IdeInv

(* The step neither takes nor gives back the channel's lock.               *)
LEMMA SameLock ==
  ASSUME IdeInv, NEW t \in IoTasks, OthersStay(t),
         Holds(t)' <=> Holds(t), Has(t)' <=> Has(t),
         value'[ChanLock] = value[ChanLock], holder'[ChanLock] = holder[ChanLock],
         repeat'[ChanLock] = repeat[ChanLock]
  PROVE  Holding' /\ ChanMutex'
<1> USE Constants DEF OthersStay
<1>1. ASSUME NEW u \in IoTasks PROVE (Holds(u)' <=> Holds(u)) /\ (Has(u)' <=> Has(u))
  <2>1. CASE u = t
    BY <2>1
  <2>2. CASE u # t
    BY <2>2 DEF Holds, Has
  <2> QED BY <2>1, <2>2
<1>2. Holding'
  BY <1>1 DEF IdeInv, Holding
<1>3. ChanMutex'
  BY <1>1 DEF IdeInv, ChanMutex
<1> QED BY <1>2, <1>3

(* The step neither starts nor ends a command.                             *)
LEMMA SameLine ==
  ASSUME IdeInv, NEW t \in IoTasks, OthersStay(t), UNCHANGED driveVars,
         value'[DiskDone] = value[DiskDone], Command(t)',
         Quiet \/ Mid(t)' \/ ~Mid(t)
  PROVE  Commands'
<1> USE Constants DEF OthersStay
<1>1. /\ Quiet' <=> Quiet
      /\ Working' <=> Working
      /\ Raised' <=> Raised
      /\ Signalling' <=> Signalling
      /\ Signalled' <=> Signalled
      /\ drive' = drive /\ cmdOf' = cmdOf
  BY DEF Quiet, Working, Raised, Signalling, Signalled, driveVars
<1>2. UnderWay' <=> UnderWay
  BY <1>1 DEF UnderWay
<1>3. ASSUME NEW u \in IoTasks, u # t
      PROVE  /\ Mid(u)' <=> Mid(u)
             /\ Command(u)'
  <2>1. Command(u)
    BY DEF IdeInv, Commands
  <2>2. (Mid(u)' <=> Mid(u)) /\ (Waits(u)' <=> Waits(u)) /\ ioPc'[u] = ioPc[u] /\ op'[u] = op[u]
    BY <1>3 DEF Mid, Waits
  <2> HIDE DEF OthersStay
  <2> QED BY <1>1, <1>2, <2>1, <2>2 DEF Command
<1>4. Quiet' \/ (UnderWay' /\ \E u \in IoTasks : Mid(u)')
  <2>1. CASE Quiet
    BY <1>1, <2>1
  <2>2. CASE UnderWay /\ ~Quiet
    <3>1. PICK u \in IoTasks : Mid(u)
      BY <2>2 DEF IdeInv, Commands
    <3>2. CASE u = t
      BY <1>2, <2>2, <3>1, <3>2
    <3>3. CASE u # t
      BY <1>2, <1>3, <2>2, <3>1, <3>3
    <3> QED BY <3>2, <3>3
  <2> QED BY <2>1, <2>2 DEF IdeInv, Commands
<1> QED BY <1>3, <1>4 DEF Commands

(* A step of a task that touches neither lock, semaphore nor drive.        *)
LEMMA PrivateStep ==
  ASSUME IdeInv, NEW t \in IoTasks, OthersStay(t), IoType', CountersAssertsHold',
         UNCHANGED <<value, holder, repeat, driveVars>>,
         Holds(t)' <=> Holds(t), Has(t)' <=> Has(t), Place(t)', SectorsOf(t)', Command(t)',
         Quiet \/ Mid(t)' \/ ~Mid(t)
  PROVE  IdeInv'
BY OneTask, SameLock, SameLine

(* What the invariant says of one task.                                    *)
LEMMA Here ==
  ASSUME IdeInv, NEW t \in IoTasks
  PROVE  /\ Place(t) /\ Command(t) /\ SectorsOf(t)
         /\ holder[ChanLock] = t <=> Holds(t)
         /\ t \in Ctx /\ t # Isr /\ t \in Tasks /\ t # NoTask
         /\ ioPc[t] \in IoLabels /\ op[t] \in {"read", "write"}
         /\ secCnt[t] \in Nat /\ secsDone[t] \in Nat
         /\ pc[t] \in Labels
BY Constants DEF IdeInv, Places, Commands, Sectors, Holding, IoType

(* Nothing the driver can see changes: the clock, a task switch, a halt.   *)
LEMMA Unseen ==
  ASSUME IdeInv, UNCHANGED <<value, holder, repeat, pc, arg, ioVars, driveVars>>,
         CountersAssertsHold'
  PROVE  IdeInv'
<1> USE DEF ioVars, driveVars
<1>1. IoType' /\ Places' /\ Holding' /\ Sectors' /\ Handler'
  BY DEF IdeInv, IoType, Places, Place, Holding, Holds, Handler, Sectors, SectorsOf
<1>2. ChanMutex'
  BY DEF IdeInv, ChanMutex, Holds, Has
<1>3. Commands'
  <2>1. /\ Quiet' <=> Quiet
        /\ Working' <=> Working
        /\ UnderWay' <=> UnderWay
    BY DEF Quiet, Working, Raised, Signalling, Signalled, UnderWay
  <2>2. ASSUME NEW u \in IoTasks
        PROVE  (Mid(u)' <=> Mid(u)) /\ Command(u)'
    BY <2>1 DEF IdeInv, Commands, Command, Mid, Waits
  <2> QED BY <2>1, <2>2 DEF IdeInv, Commands
<1> QED BY <1>1, <1>2, <1>3 DEF IdeInv

(* Another failed ASSERT.                                                  *)
LEMMA OtherPanic ==
  ASSUME IdeInv, NEW id, Panic(id), UNCHANGED ideVars,
         id \notin {"sync.c:29", "sync.c:41", "sync.c:52", "sync.c:67"}
  PROVE  IdeInv'
BY Unseen DEF Panic, lockVars, ctxVars, ideVars, CountersAssertsHold, LockAsserts

-----------------------------------------------------------------------------
(* The steps of the driver that leave lock, semaphore and drive alone.     *)
LEMMA IoBeginInv ==
  ASSUME IdeInv, NEW t \in IoTasks, IoBegin(t)
  PROVE  IdeInv'
<1>1. /\ pc[t] = "run" /\ ioPc[t] = "idle"
      /\ holder[ChanLock] # t
  BY Here DEF IoBegin, InDriver, Holds
<1>2. /\ pc' = [pc EXCEPT ![t] = "P"] /\ arg' = [arg EXCEPT ![t] = ChanLock]
      /\ ioPc' = [ioPc EXCEPT ![t] = "locking"]
      /\ UNCHANGED <<value, holder, repeat, secsDone, driveVars, isrOn, panic>>
  BY <1>1 DEF IoBegin, LockCall, IoGoto, Goto
<1>3. PICK o \in {"read", "write"}, n \in 1 .. MaxSec :
        op' = [op EXCEPT ![t] = o] /\ secCnt' = [secCnt EXCEPT ![t] = n]
  BY DEF IoBegin
<1>4. n \in Nat /\ n > 0
  BY IdeAssumption DEF IdeAssumption
<1>5. IoType'
  BY <1>2, <1>3, <1>4, Here, Constants DEF IdeInv, IoType, IoLabels, Labels, driveVars
<1>6. OthersStay(t)
  BY <1>2, <1>3 DEF OthersStay, IdeInv, IoType
<1>7. /\ pc'[t] = "P" /\ arg'[t] = ChanLock /\ ioPc'[t] = "locking"
      /\ secCnt'[t] = n /\ secsDone'[t] = secsDone[t]
  BY <1>2, <1>3, Here DEF IdeInv, IoType
<1>8. Place(t)' /\ SectorsOf(t)' /\ Command(t)' /\ ~Mid(t)
  BY <1>1, <1>4, <1>7, Here DEF Place, SectorsOf, Command, Mid, Waits
<1>9. (Holds(t)' <=> Holds(t)) /\ (Has(t)' <=> Has(t))
  BY <1>1, <1>7 DEF Holds, Has, InV
<1>10. CountersAssertsHold'
  BY <1>2 DEF IdeInv, CountersAssertsHold, LockAsserts
<1> QED BY <1>2, <1>5, <1>6, <1>8, <1>9, <1>10, PrivateStep

(* Lock_Lock has returned.                                                 *)
LEMMA IoLockedInv ==
  ASSUME IdeInv, NEW t \in IoTasks, IoLocked(t)
  PROVE  IdeInv'
<1>1. pc[t] = "run" /\ ioPc[t] = "locking"
  BY DEF IoLocked, InDriver
<1>2. /\ ioPc' = [ioPc EXCEPT ![t] = "cmd"]
      /\ UNCHANGED <<pc, arg, value, holder, repeat, op, secCnt, secsDone, driveVars, isrOn, panic>>
  BY DEF IoLocked, IoGoto, vars, lockVars, ctxVars
<1>3. IoType'
  BY <1>2 DEF IdeInv, IoType, IoLabels, driveVars
<1>4. OthersStay(t)
  BY <1>2 DEF OthersStay, IdeInv, IoType
<1>5. ioPc'[t] = "cmd"
  BY <1>2 DEF IdeInv, IoType
<1>6. Place(t)' /\ SectorsOf(t)' /\ Command(t)' /\ ~Mid(t)
  BY <1>1, <1>2, <1>5, Here DEF Place, SectorsOf, Command, Mid, Waits
<1>7. (Holds(t)' <=> Holds(t)) /\ (Has(t)' <=> Has(t))
  BY <1>1, <1>2, <1>5 DEF Holds, Has, InV
<1>8. CountersAssertsHold'
  BY <1>2 DEF IdeInv, CountersAssertsHold, LockAsserts
<1> QED BY <1>2, <1>3, <1>4, <1>6, <1>7, <1>8, PrivateStep

(* A part of the request never goes beyond its end.                        *)
LEMMA PartFits ==
  ASSUME IdeInv, NEW t \in IoTasks
  PROVE  secsDone[t] + SecsOp(t) \in Nat /\ secsDone[t] + SecsOp(t) <= secCnt[t]
BY Here, Constants DEF SecsOp, SectorsOf

(* Ide_Read goes to wait for the end of its command.                       *)
LEMMA ReadWaitInv ==
  ASSUME IdeInv, NEW t \in IoTasks, ReadWait(t)
  PROVE  IdeInv'
<1>1. pc[t] = "run" /\ ioPc[t] = "wait" /\ op[t] = "read"
  BY DEF ReadWait, WaitDiskDone, InDriver
<1>2. /\ pc' = [pc EXCEPT ![t] = "P"] /\ arg' = [arg EXCEPT ![t] = DiskDone]
      /\ ioPc' = [ioPc EXCEPT ![t] = "poll"]
      /\ UNCHANGED <<value, holder, repeat, op, secCnt, secsDone, driveVars, isrOn, panic>>
  BY DEF ReadWait, WaitDiskDone, IoGoto, Goto, lockVars
<1>3. IoType'
  BY <1>2, Here, Constants DEF IdeInv, IoType, IoLabels, Labels, driveVars
<1>4. OthersStay(t)
  BY <1>2 DEF OthersStay, IdeInv, IoType
<1>5. pc'[t] = "P" /\ arg'[t] = DiskDone /\ ioPc'[t] = "poll"
  BY <1>2, Here DEF IdeInv, IoType
<1>6. Place(t)' /\ SectorsOf(t)' /\ Mid(t)'
  BY <1>1, <1>2, <1>5, Here DEF Place, SectorsOf, Mid
<1>7. Command(t)'
  <2>1. Isr \in Ctx /\ Isr # t
    BY Constants
  <2>2. UnderWay' <=> UnderWay
    BY <1>2, <2>1 DEF UnderWay, Working, Raised, Signalling, Signalled, driveVars, IdeInv, IoType
  <2>3. Waits(t) /\ Waits(t)' /\ Mid(t)
    BY <1>1, <1>5 DEF Waits, Mid
  <2> QED BY <1>1, <1>2, <1>5, <2>2, <2>3, Here DEF Command, driveVars
<1>8. (Holds(t)' <=> Holds(t)) /\ (Has(t)' <=> Has(t))
  BY <1>1, <1>5 DEF Holds, Has, InV
<1>9. CountersAssertsHold'
  BY <1>2 DEF IdeInv, CountersAssertsHold, LockAsserts
<1> QED BY <1>2, <1>3, <1>4, <1>6, <1>7, <1>8, <1>9, PrivateStep

(* Ide_Write goes to wait for the end of its command, and counts the part  *)
(* as done.                                                                *)
LEMMA WriteWaitInv ==
  ASSUME IdeInv, NEW t \in IoTasks, WriteWait(t)
  PROVE  IdeInv'
<1>1. pc[t] = "run" /\ ioPc[t] = "wait" /\ op[t] = "write"
  BY DEF WriteWait, WaitDiskDone, InDriver
<1>2. /\ pc' = [pc EXCEPT ![t] = "P"] /\ arg' = [arg EXCEPT ![t] = DiskDone]
      /\ ioPc' = [ioPc EXCEPT ![t] = "cmd"]
      /\ secsDone' = [secsDone EXCEPT ![t] = @ + SecsOp(t)]
      /\ UNCHANGED <<value, holder, repeat, op, secCnt, driveVars, isrOn, panic>>
  BY DEF WriteWait, WaitDiskDone, IoGoto, Goto, lockVars, PartDone
<1>3. IoType'
  <2>1. secsDone' \in [IoTasks -> Nat]
    BY <1>2, PartFits DEF IdeInv, IoType
  <2> QED BY <1>2, <2>1, Here, Constants DEF IdeInv, IoType, IoLabels, Labels, driveVars
<1>4. OthersStay(t)
  BY <1>2 DEF OthersStay, IdeInv, IoType
<1>5. /\ pc'[t] = "P" /\ arg'[t] = DiskDone /\ ioPc'[t] = "cmd"
      /\ secsDone'[t] = secsDone[t] + SecsOp(t)
  BY <1>2, Here DEF IdeInv, IoType
<1>6. Place(t)' /\ SectorsOf(t)' /\ Mid(t)'
  BY <1>1, <1>2, <1>5, Here, PartFits DEF Place, SectorsOf, Mid
<1>7. Command(t)'
  <2>1. Isr \in Ctx /\ Isr # t
    BY Constants
  <2>2. UnderWay' <=> UnderWay
    BY <1>2, <2>1 DEF UnderWay, Working, Raised, Signalling, Signalled, driveVars, IdeInv, IoType
  <2>3. Waits(t) /\ Waits(t)' /\ Mid(t)
    BY <1>1, <1>5 DEF Waits, Mid
  <2> QED BY <1>1, <1>2, <1>5, <2>2, <2>3, Here DEF Command, driveVars
<1>8. (Holds(t)' <=> Holds(t)) /\ (Has(t)' <=> Has(t))
  BY <1>1, <1>5 DEF Holds, Has, InV
<1>9. CountersAssertsHold'
  BY <1>2 DEF IdeInv, CountersAssertsHold, LockAsserts
<1> QED BY <1>2, <1>3, <1>4, <1>6, <1>7, <1>8, <1>9, PrivateStep

(* Ide_Read has transferred a part.                                        *)
LEMMA ReadTransferInv ==
  ASSUME IdeInv, NEW t \in IoTasks, ReadTransfer(t)
  PROVE  IdeInv'
<1>1. pc[t] = "run" /\ ioPc[t] = "xfer" /\ op[t] = "read"
  BY DEF ReadTransfer, InDriver
<1>2. /\ ioPc' = [ioPc EXCEPT ![t] = "cmd"]
      /\ secsDone' = [secsDone EXCEPT ![t] = @ + SecsOp(t)]
      /\ UNCHANGED <<pc, arg, value, holder, repeat, op, secCnt, driveVars, isrOn, panic>>
  BY DEF ReadTransfer, IoGoto, PartDone, vars, lockVars, ctxVars
<1>3. IoType'
  <2>1. secsDone' \in [IoTasks -> Nat]
    BY <1>2, PartFits DEF IdeInv, IoType
  <2> QED BY <1>2, <2>1 DEF IdeInv, IoType, IoLabels, driveVars
<1>4. OthersStay(t)
  BY <1>2 DEF OthersStay, IdeInv, IoType
<1>5. ioPc'[t] = "cmd" /\ secsDone'[t] = secsDone[t] + SecsOp(t)
  BY <1>2 DEF IdeInv, IoType
<1>6. Place(t)' /\ SectorsOf(t)' /\ Command(t)'
  BY <1>1, <1>2, <1>5, Here, PartFits DEF Place, SectorsOf, Command, Mid, Waits
<1>7. Quiet
  BY <1>1, Here DEF Command, Waits
<1>8. (Holds(t)' <=> Holds(t)) /\ (Has(t)' <=> Has(t))
  BY <1>1, <1>2, <1>5 DEF Holds, Has, InV
<1>9. CountersAssertsHold'
  BY <1>2 DEF IdeInv, CountersAssertsHold, LockAsserts
<1> QED BY <1>2, <1>3, <1>4, <1>6, <1>7, <1>8, <1>9, PrivateStep

(* Ide_BusyWait: asleep or awake, a reader finds the drive idle and a      *)
(* writer finds it preparing or accepting.                                 *)
LEMMA PollInv ==
  ASSUME IdeInv, NEW t \in IoTasks, ioPc[t] = "poll", pc[t] \in {"run", "sleep"},
         NEW label \in {"run", "sleep"}, NEW place \in {"poll", "xfer"},
         pc' = [pc EXCEPT ![t] = label], ioPc' = [ioPc EXCEPT ![t] = place],
         place = "xfer" => label = "run" /\ (Busy => MayStall),
         UNCHANGED <<arg, value, holder, repeat, op, secCnt, secsDone, driveVars, isrOn, panic>>
  PROVE  IdeInv'
<1>1. IoType'
  BY Here, Constants DEF IdeInv, IoType, IoLabels, Labels, driveVars
<1>2. OthersStay(t)
  BY DEF OthersStay, IdeInv, IoType
<1>3. pc'[t] = label /\ ioPc'[t] = place
  BY Here DEF IdeInv, IoType
<1>4. Place(t)' /\ SectorsOf(t)' /\ Mid(t)'
  BY <1>3, Here DEF Place, SectorsOf, Mid
<1>5. Command(t)'
  <2>1. Isr \in Ctx /\ Isr # t
    BY Constants
  <2>2. (Working' <=> Working) /\ (Quiet' <=> Quiet) /\ drive' = drive /\ cmdOf' = cmdOf
    BY <2>1 DEF Working, Quiet, driveVars, IdeInv, IoType
  <2>3. /\ ~Waits(t) /\ ~Waits(t)' /\ Mid(t)
        /\ cmdOf = t
        /\ IF op[t] = "read" THEN Quiet ELSE Working /\ drive \in {"preparing", "accepting"}
    BY <1>3, Here DEF Waits, Mid, Command
  <2>4. place = "xfer" /\ op[t] = "write" /\ ~MayStall => drive = "accepting"
    BY <2>3 DEF Busy
  <2> QED BY <1>3, <2>2, <2>3, <2>4 DEF Command
<1>6. (Holds(t)' <=> Holds(t)) /\ (Has(t)' <=> Has(t))
  BY <1>3 DEF Holds, Has, InV
<1>7. CountersAssertsHold'
  BY DEF IdeInv, CountersAssertsHold, LockAsserts
<1> QED BY <1>1, <1>2, <1>4, <1>5, <1>6, <1>7, PrivateStep

(* A round of Ide_BusyWait.                                                *)
LEMMA IoPollInv ==
  ASSUME IdeInv, NEW t \in IoTasks, IoPoll(t)
  PROVE  IdeInv'
<1>1. pc[t] = "run" /\ ioPc[t] = "poll"
  BY DEF IoPoll, InDriver
<1>2. pc = [pc EXCEPT ![t] = "run"] /\ ioPc = [ioPc EXCEPT ![t] = "poll"]
  BY <1>1, Here DEF IdeInv, IoType
<1>3. CASE SleepCall(t) /\ UNCHANGED ideVars
  BY <1>1, <1>2, <1>3, PollInv DEF SleepCall, Goto, ideVars, ioVars, driveVars, lockVars
<1>4. CASE /\ Busy => MayStall
           /\ IoGoto(t, "xfer")
           /\ UNCHANGED <<vars, op, secCnt, secsDone, driveVars, isrOn>>
  BY <1>1, <1>2, <1>4, PollInv DEF IoGoto, vars, lockVars, ctxVars
<1> QED BY <1>3, <1>4 DEF IoPoll

(* Ide_Read or Ide_Write returns.                                          *)
LEMMA IoReturnInv ==
  ASSUME IdeInv, NEW t \in IoTasks, IoReturn(t)
  PROVE  IdeInv'
<1>1. pc[t] = "run" /\ ioPc[t] = "unlocking"
  BY DEF IoReturn, InDriver
<1>2. /\ ioPc' = [ioPc EXCEPT ![t] = "idle"]
      /\ op' = [op EXCEPT ![t] = "read"]
      /\ secCnt' = [secCnt EXCEPT ![t] = 0]
      /\ secsDone' = [secsDone EXCEPT ![t] = 0]
      /\ UNCHANGED <<pc, arg, value, holder, repeat, driveVars, isrOn, panic>>
  BY DEF IoReturn, IoGoto, vars, lockVars, ctxVars
<1>3. IoType'
  BY <1>2 DEF IdeInv, IoType, IoLabels, driveVars
<1>4. OthersStay(t)
  BY <1>2 DEF OthersStay, IdeInv, IoType
<1>5. ioPc'[t] = "idle" /\ secsDone'[t] = 0 /\ secCnt'[t] = 0
  BY <1>2 DEF IdeInv, IoType
<1>6. Place(t)' /\ SectorsOf(t)' /\ Command(t)' /\ ~Mid(t)
  BY <1>1, <1>2, <1>5, Here DEF Place, SectorsOf, Command, Mid, Waits
<1>7. (Holds(t)' <=> Holds(t)) /\ (Has(t)' <=> Has(t))
  BY <1>1, <1>2, <1>5 DEF Holds, Has, InV
<1>8. CountersAssertsHold'
  BY <1>2 DEF IdeInv, CountersAssertsHold, LockAsserts
<1> QED BY <1>2, <1>3, <1>4, <1>6, <1>7, <1>8, PrivateStep

-----------------------------------------------------------------------------
(* The steps that take and give back the channel's lock.  While a task has *)
(* it, nobody else does and its value is 0.                                *)
LEMMA Alone ==
  ASSUME IdeInv, NEW t \in IoTasks, Has(t)
  PROVE  /\ \A u \in IoTasks : Has(u) => u = t
         /\ value[ChanLock] = 0
BY Constants DEF IdeInv, ChanMutex, IoType

(* Nobody else is affected, so only t can have the lock.                   *)
LEMMA OnlyHas ==
  ASSUME IdeInv, NEW t \in IoTasks, OthersStay(t), \A u \in IoTasks : Has(u) => u = t
  PROVE  \A u \in IoTasks : Has(u)' => u = t
<1> SUFFICES ASSUME NEW u \in IoTasks, u # t PROVE ~Has(u)'
  OBVIOUS
<1>1. Has(u)' <=> Has(u)
  BY Constants DEF OthersStay, Has, Holds
<1> QED BY <1>1

(* Lock_P of the channel's lock lets t through.                            *)
LEMMA GrantInv ==
  ASSUME IdeInv, NEW t \in IoTasks, pc[t] = "P", arg[t] = ChanLock, value[ChanLock] = 1,
         pc' = [pc EXCEPT ![t] = "got"], value' = [value EXCEPT ![ChanLock] = 0],
         UNCHANGED <<arg, holder, repeat, ideVars, panic>>
  PROVE  IdeInv'
<1> USE DEF ideVars, ioVars
<1>1. ioPc[t] = "locking"
  BY Here, Constants DEF Place, IoLabels, InV
<1>2. IoType'
  BY Here, Constants DEF IdeInv, IoType, Labels, driveVars
<1>3. OthersStay(t)
  BY DEF OthersStay, IdeInv, IoType
<1>4. pc'[t] = "got" /\ value'[ChanLock] = 0 /\ value'[DiskDone] = value[DiskDone]
  BY Here, Constants DEF IdeInv, IoType
<1>5. Place(t)' /\ SectorsOf(t)' /\ Command(t)' /\ ~Mid(t)
  BY <1>1, <1>4, Here DEF Place, SectorsOf, Command, Mid, Waits
<1>6. Holding'
  <2>1. \A u \in IoTasks : Holds(u)' <=> Holds(u)
    BY <1>1, <1>3, <1>4, Constants DEF Holds, OthersStay
  <2> QED BY <2>1 DEF IdeInv, Holding
<1>7. ChanMutex'
  <2>1. \A u \in IoTasks : ~Has(u)
    BY DEF IdeInv, ChanMutex
  <2>2. \A u \in IoTasks : Has(u)' => u = t
    BY <1>3, <2>1, OnlyHas
  <2> QED BY <1>4, <2>2 DEF ChanMutex
<1>8. Commands'
  BY <1>3, <1>4, <1>5, SameLine
<1>9. CountersAssertsHold'
  BY DEF IdeInv, CountersAssertsHold, LockAsserts
<1> QED BY <1>2, <1>3, <1>5, <1>6, <1>7, <1>8, <1>9, OneTask

(* The rest of Lock_Lock.                                                  *)
LEMMA LockGotInv ==
  ASSUME IdeInv, NEW t \in IoTasks, LockGot(t), UNCHANGED ideVars
  PROVE  IdeInv'
<1> USE DEF ideVars, ioVars
<1>1. pc[t] = "got" /\ ioPc[t] = "locking" /\ arg[t] = ChanLock
  BY Here DEF LockGot, Place, IoLabels, InV
<1>2. Has(t) /\ ~Holds(t)
  BY <1>1 DEF Has, Holds
<1>3. holder[ChanLock] = NoTask /\ repeat[ChanLock] = 0
  <2>1. ASSUME NEW u \in IoTasks PROVE holder[ChanLock] # u
    BY <1>2, Alone DEF IdeInv, Holding, Has
  <2> QED BY <2>1 DEF IdeInv, Holding
<1>4. /\ holder' = [holder EXCEPT ![ChanLock] = t]
      /\ repeat' = [repeat EXCEPT ![ChanLock] = 1]
      /\ pc' = [pc EXCEPT ![t] = "run"]
      /\ UNCHANGED <<value, arg, panic>>
  BY <1>1, <1>3 DEF LockGot, Goto
<1>5. IoType'
  BY <1>4, Here, Constants DEF IdeInv, IoType, Labels, driveVars
<1>6. OthersStay(t)
  BY <1>4 DEF OthersStay, IdeInv, IoType
<1>7. pc'[t] = "run" /\ holder'[ChanLock] = t /\ repeat'[ChanLock] = 1
  BY <1>4, Here, Constants DEF IdeInv, IoType
<1>8. Place(t)' /\ SectorsOf(t)' /\ Command(t)' /\ ~Mid(t)
  BY <1>1, <1>7, Here DEF Place, SectorsOf, Command, Mid, Waits
<1>9. \A u \in IoTasks : Has(u)' => u = t
  BY <1>2, <1>6, Alone, OnlyHas
<1>10. Holding'
  <2>1. ASSUME NEW u \in IoTasks PROVE Holds(u)' <=> u = t
    BY <1>1, <1>7, <1>9 DEF Holds, Has
  <2> QED BY <1>7, <2>1 DEF Holding
<1>11. ChanMutex'
  BY <1>2, <1>4, <1>9, Alone DEF ChanMutex
<1>12. Commands'
  BY <1>4, <1>6, <1>8, SameLine
<1>13. CountersAssertsHold'
  BY <1>4 DEF IdeInv, CountersAssertsHold, LockAsserts
<1> QED BY <1>5, <1>6, <1>8, <1>10, <1>11, <1>12, <1>13, OneTask

(* Lock_UnLock at the end of a request, up to Lock_V.                      *)
LEMMA IoEndInv ==
  ASSUME IdeInv, NEW t \in IoTasks, IoEnd(t)
  PROVE  IdeInv'
<1>1. /\ pc[t] = "run" /\ ioPc[t] = "cmd" /\ secsDone[t] >= secCnt[t]
      /\ holder[ChanLock] = t
  BY DEF IoEnd, InDriver, UnlockCall
<1>2. repeat[ChanLock] = 1 /\ Has(t)
  BY <1>1, Here, Constants DEF IdeInv, Holding, Has
<1>3. /\ ioPc' = [ioPc EXCEPT ![t] = "unlocking"]
      /\ repeat' = [repeat EXCEPT ![ChanLock] = @ - 1]
      /\ holder' = [holder EXCEPT ![ChanLock] = NoTask]
      /\ pc' = [pc EXCEPT ![t] = "V"]
      /\ arg' = [arg EXCEPT ![t] = ChanLock]
      /\ UNCHANGED <<value, panic, op, secCnt, secsDone, driveVars, isrOn>>
  BY <1>2 DEF IoEnd, UnlockCall, IoGoto, Goto, Nested
<1>4. IoType'
  <2>1. repeat' \in [Locks -> Nat]
    BY <1>2, <1>3, Constants DEF IdeInv, IoType
  <2> QED BY <1>3, <2>1, Here, Constants DEF IdeInv, IoType, Labels, IoLabels, driveVars
<1>5. OthersStay(t)
  BY <1>3 DEF OthersStay, IdeInv, IoType
<1>6. /\ pc'[t] = "V" /\ arg'[t] = ChanLock /\ ioPc'[t] = "unlocking"
      /\ holder'[ChanLock] = NoTask /\ repeat'[ChanLock] = 0
  BY <1>2, <1>3, Here, Constants DEF IdeInv, IoType
<1>7. Place(t)' /\ SectorsOf(t)' /\ Command(t)' /\ ~Mid(t)
  BY <1>1, <1>3, <1>6, Here DEF Place, SectorsOf, Command, Mid, Waits, InV
<1>8. \A u \in IoTasks : Has(u)' => u = t
  BY <1>2, <1>5, Alone, OnlyHas
<1>9. Holding'
  <2>1. ASSUME NEW u \in IoTasks PROVE ~Holds(u)' /\ u # NoTask
    BY <1>6, <1>8, Constants DEF Holds, Has
  <2> QED BY <1>6, <2>1 DEF Holding
<1>10. ChanMutex'
  BY <1>2, <1>3, <1>8, Alone DEF ChanMutex
<1>11. Commands'
  BY <1>3, <1>5, <1>7, SameLine
<1>12. CountersAssertsHold'
  BY <1>3 DEF IdeInv, CountersAssertsHold, LockAsserts
<1> QED BY <1>4, <1>5, <1>7, <1>9, <1>10, <1>11, <1>12, OneTask

(* Inside Lock_V, up to the assignment of value.                           *)
LEMMA InsideVInv ==
  ASSUME IdeInv, NEW t \in IoTasks, pc[t] \in InV, NEW label \in InV,
         pc' = [pc EXCEPT ![t] = label],
         UNCHANGED <<arg, value, holder, repeat, ideVars, panic>>
  PROVE  IdeInv'
<1> USE DEF ideVars, ioVars
<1>1. ioPc[t] = "unlocking" /\ arg[t] = ChanLock
  BY Here DEF Place, IoLabels, InV
<1>2. IoType'
  BY Here DEF IdeInv, IoType, Labels, InV, driveVars
<1>3. OthersStay(t)
  BY DEF OthersStay, IdeInv, IoType
<1>4. pc'[t] = label
  BY Here DEF IdeInv, IoType
<1>5. Place(t)' /\ SectorsOf(t)' /\ Command(t)' /\ ~Mid(t)
  BY <1>1, <1>4, Here DEF Place, SectorsOf, Command, Mid, Waits
<1>6. (Holds(t)' <=> Holds(t)) /\ (Has(t)' <=> Has(t))
  BY <1>1, <1>4 DEF Holds, Has
<1>7. CountersAssertsHold'
  BY DEF IdeInv, CountersAssertsHold, LockAsserts
<1> QED BY <1>2, <1>3, <1>5, <1>6, <1>7, PrivateStep

(* Lock_V has written value: t no longer has the lock.                     *)
LEMMA FreeInv ==
  ASSUME IdeInv, NEW t \in IoTasks, pc[t] \in InV,
         pc' = [pc EXCEPT ![t] = "run"], value' = [value EXCEPT ![ChanLock] = 1],
         UNCHANGED <<arg, holder, repeat, ideVars, panic>>
  PROVE  IdeInv'
<1> USE DEF ideVars, ioVars
<1>1. ioPc[t] = "unlocking" /\ arg[t] = ChanLock
  BY Here DEF Place, IoLabels, InV
<1>2. IoType'
  BY Here, Constants DEF IdeInv, IoType, Labels, driveVars
<1>3. OthersStay(t)
  BY DEF OthersStay, IdeInv, IoType
<1>4. pc'[t] = "run" /\ value'[DiskDone] = value[DiskDone]
  BY Here, Constants DEF IdeInv, IoType
<1>5. Place(t)' /\ SectorsOf(t)' /\ Command(t)' /\ ~Mid(t)
  BY <1>1, <1>4, Here DEF Place, SectorsOf, Command, Mid, Waits
<1>6. Has(t) /\ ~Has(t)' /\ ~Holds(t) /\ ~Holds(t)'
  BY <1>1, <1>4 DEF Holds, Has, InV
<1>7. Holding'
  <2>1. \A u \in IoTasks : Holds(u)' <=> Holds(u)
    BY <1>3, <1>6, Constants DEF Holds, OthersStay
  <2> QED BY <2>1 DEF IdeInv, Holding
<1>8. ChanMutex'
  <2>1. \A u \in IoTasks : ~Has(u)'
    BY <1>3, <1>6, Alone, OnlyHas
  <2> QED BY <2>1 DEF ChanMutex
<1>9. Commands'
  BY <1>3, <1>4, <1>5, SameLine
<1>10. CountersAssertsHold'
  BY DEF IdeInv, CountersAssertsHold, LockAsserts
<1> QED BY <1>2, <1>3, <1>5, <1>7, <1>8, <1>9, <1>10, OneTask

-----------------------------------------------------------------------------
(* The steps of a command.  Only the task that has the lock has one.       *)
LEMMA OneCommand ==
  ASSUME IdeInv, NEW t \in IoTasks, Has(t), NEW u \in IoTasks, Mid(u)
  PROVE  u = t
BY Alone DEF Mid, Has, Holds

(* A step of the task that has the lock, with its effect on the command.   *)
LEMMA CommandStep ==
  ASSUME IdeInv, NEW t \in IoTasks, Has(t), OthersStay(t), Command(t)',
         Quiet' \/ (UnderWay' /\ Mid(t)')
  PROVE  Commands'
<1>1. ASSUME NEW u \in IoTasks, u # t PROVE Command(u)'
  <2>1. ~Mid(u)
    BY <1>1, OneCommand
  <2>2. ~Mid(u)'
    BY <1>1, <2>1, Constants DEF OthersStay, Mid
  <2> QED BY <2>2 DEF Command, Mid, Waits
<1> QED BY <1>1 DEF Commands

(* Ide_CmdOut: the drive was quiet, and now works for t.                   *)
LEMMA CmdOutInv ==
  ASSUME IdeInv, NEW t \in IoTasks, ReadCommand(t) \/ WriteCommand(t)
  PROVE  IdeInv'
<1>1. pc[t] = "run" /\ ioPc[t] = "cmd"
  BY DEF ReadCommand, WriteCommand, CmdOut, InDriver
<1>2. PICK place \in {"wait", "poll"}, state \in {"reading", "preparing"} :
        /\ op[t] = IF place = "wait" THEN "read" ELSE "write"
        /\ state = IF place = "wait" THEN "reading" ELSE "preparing"
        /\ ioPc' = [ioPc EXCEPT ![t] = place]
        /\ drive' = state
        /\ cmdOf' = t
        /\ expecting' = TRUE
        /\ UNCHANGED <<vars, op, secCnt, secsDone, irq, isrOn>>
  BY DEF ReadCommand, WriteCommand, CmdOut, IoGoto
<1>3. UNCHANGED <<pc, arg, value, holder, repeat, panic>>
  BY <1>2 DEF vars, lockVars, ctxVars
<1>4. IoType'
  BY <1>2, <1>3 DEF IdeInv, IoType, IoLabels, DriveStates
<1>5. OthersStay(t)
  BY <1>2, <1>3 DEF OthersStay, IdeInv, IoType
<1>6. ioPc'[t] = place
  BY <1>2 DEF IdeInv, IoType
<1>7. Has(t) /\ ~Mid(t)
  BY <1>1 DEF Has, Holds, Mid
<1>8. Quiet
  BY <1>7, OneCommand DEF IdeInv, Commands
<1>9. Working' /\ UnderWay'
  <2>1. ~irq' /\ expecting' /\ drive' # "idle" /\ pc'[Isr] = "run" /\ value'[DiskDone] = 0
    BY <1>2, <1>3, <1>8 DEF Quiet
  <2> QED BY <2>1 DEF Working, UnderWay
<1>10. Place(t)' /\ SectorsOf(t)' /\ Mid(t)'
  BY <1>1, <1>2, <1>3, <1>6, Here DEF Place, SectorsOf, Mid
<1>11. Command(t)'
  <2>1. cmdOf' = t /\ op'[t] = op[t] /\ pc'[t] = "run" /\ drive' = state
    BY <1>1, <1>2, <1>3
  <2>2. CASE place = "wait"
    BY <1>2, <1>6, <1>9, <2>1, <2>2 DEF Command, Waits
  <2>3. CASE place = "poll"
    BY <1>2, <1>6, <1>9, <2>1, <2>3 DEF Command, Waits
  <2> QED BY <2>2, <2>3
<1>12. Commands'
  BY <1>5, <1>7, <1>9, <1>10, <1>11, CommandStep
<1>13. Holding' /\ ChanMutex'
  <2>1. (Holds(t)' <=> Holds(t)) /\ (Has(t)' <=> Has(t))
    BY <1>1, <1>3, <1>6 DEF Holds, Has, InV
  <2> QED BY <1>3, <1>5, <2>1, SameLock
<1>14. CountersAssertsHold'
  BY <1>3 DEF IdeInv, CountersAssertsHold, LockAsserts
<1> QED BY <1>4, <1>5, <1>10, <1>12, <1>13, <1>14, OneTask

(* Ide_Write hands over its data; a drive that is not ready ignores it.    *)
LEMMA WriteTransferInv ==
  ASSUME IdeInv, NEW t \in IoTasks, WriteTransfer(t)
  PROVE  IdeInv'
<1>1. pc[t] = "run" /\ ioPc[t] = "xfer" /\ op[t] = "write"
  BY DEF WriteTransfer, InDriver
<1>2. /\ ioPc' = [ioPc EXCEPT ![t] = "wait"]
      /\ drive' = IF drive = "accepting" THEN "writing" ELSE drive
      /\ UNCHANGED <<vars, op, secCnt, secsDone, expecting, cmdOf, irq, isrOn>>
  BY DEF WriteTransfer, IoGoto
<1>3. UNCHANGED <<pc, arg, value, holder, repeat, panic>>
  BY <1>2 DEF vars, lockVars, ctxVars
<1>4. IoType'
  BY <1>2, <1>3 DEF IdeInv, IoType, IoLabels, DriveStates
<1>5. OthersStay(t)
  BY <1>2, <1>3 DEF OthersStay, IdeInv, IoType
<1>6. ioPc'[t] = "wait"
  BY <1>2 DEF IdeInv, IoType
<1>7. Has(t) /\ Working /\ drive \in {"preparing", "accepting"} /\ cmdOf = t
  BY <1>1, Here DEF Has, Holds, Command, Waits, Mid
<1>8. /\ Working' /\ UnderWay'
      /\ drive' # "reading"
  BY <1>2, <1>3, <1>7 DEF Working, UnderWay
<1>9. Place(t)' /\ SectorsOf(t)' /\ Mid(t)'
  BY <1>1, <1>2, <1>3, <1>6, Here DEF Place, SectorsOf, Mid
<1>10. Command(t)'
  BY <1>1, <1>2, <1>6, <1>7, <1>8 DEF Command, Waits
<1>11. Commands'
  BY <1>5, <1>7, <1>8, <1>9, <1>10, CommandStep
<1>12. Holding' /\ ChanMutex'
  <2>1. (Holds(t)' <=> Holds(t)) /\ (Has(t)' <=> Has(t))
    BY <1>1, <1>3, <1>6 DEF Holds, Has, InV
  <2> QED BY <1>3, <1>5, <2>1, SameLock
<1>13. CountersAssertsHold'
  BY <1>3 DEF IdeInv, CountersAssertsHold, LockAsserts
<1> QED BY <1>4, <1>5, <1>9, <1>11, <1>12, <1>13, OneTask

(* Lock_P of diskDone returns: the command is complete.                    *)
LEMMA DoneInv ==
  ASSUME IdeInv, NEW t \in IoTasks, pc[t] = "P", arg[t] = DiskDone, value[DiskDone] = 1,
         pc' = [pc EXCEPT ![t] = "run"], value' = [value EXCEPT ![DiskDone] = 0],
         UNCHANGED <<arg, holder, repeat, ideVars, panic>>
  PROVE  IdeInv'
<1> USE DEF ideVars, ioVars
<1>1. (ioPc[t] = "cmd" /\ op[t] = "write") \/ (ioPc[t] = "poll" /\ op[t] = "read")
  BY Here, Constants DEF Place, IoLabels, InV
<1>2. IoType'
  BY Here, Constants DEF IdeInv, IoType, Labels, driveVars
<1>3. OthersStay(t)
  BY DEF OthersStay, IdeInv, IoType
<1>4. pc'[t] = "run" /\ value'[DiskDone] = 0 /\ value'[ChanLock] = value[ChanLock]
  BY Here, Constants DEF IdeInv, IoType
<1>5. Has(t) /\ Waits(t) /\ Mid(t) /\ cmdOf = t
  BY <1>1, Here DEF Has, Holds, Waits, Mid, Command
<1>6. Signalled
  BY <1>5, Here DEF Command, UnderWay, Working, Raised, Signalling
<1>7. Quiet'
  <2>1. pc'[Isr] = pc[Isr]
    BY <1>3, Constants DEF OthersStay
  <2> QED BY <1>4, <1>6, <2>1 DEF Quiet, Signalled, driveVars
<1>8. Place(t)' /\ SectorsOf(t)'
  BY <1>1, <1>4, Here DEF Place, SectorsOf
<1>9. Command(t)'
  BY <1>1, <1>4, <1>5, <1>7 DEF Command, Waits, Mid, driveVars
<1>10. Commands'
  BY <1>3, <1>5, <1>7, <1>9, CommandStep
<1>11. Holding' /\ ChanMutex'
  <2>1. (Holds(t)' <=> Holds(t)) /\ (Has(t)' <=> Has(t))
    BY <1>1, <1>4 DEF Holds, Has, InV
  <2> QED BY <1>3, <1>4, <2>1, SameLock
<1>12. CountersAssertsHold'
  BY DEF IdeInv, CountersAssertsHold, LockAsserts
<1> QED BY <1>2, <1>3, <1>8, <1>10, <1>11, <1>12, OneTask

-----------------------------------------------------------------------------
(* The rest of the kernel.  A task outside a request enters or leaves a    *)
(* system call.                                                            *)
LEMMA ModeInv ==
  ASSUME IdeInv, NEW t \in Tasks, pc[t] \in {"user", "run"},
         t \in IoTasks => ioPc[t] = "idle", NEW label \in {"user", "run"},
         pc' = [pc EXCEPT ![t] = label],
         UNCHANGED <<arg, value, holder, repeat, ideVars, panic>>
  PROVE  IdeInv'
<1> USE DEF ideVars, ioVars
<1>1. IoType'
  BY Constants DEF IdeInv, IoType, Labels, driveVars
<1>2. CountersAssertsHold'
  BY DEF IdeInv, CountersAssertsHold, LockAsserts
<1>3. t \in Ctx /\ pc'[t] = label /\ \A c \in Ctx : c # t => pc'[c] = pc[c]
  BY Constants DEF IdeInv, IoType
<1>4. CASE t \in IoTasks
  <2>1. OthersStay(t)
    BY <1>3 DEF OthersStay
  <2>2. Place(t)' /\ SectorsOf(t)' /\ Command(t)' /\ ~Mid(t)
    BY <1>3, <1>4, Here DEF Place, SectorsOf, Command, Mid, Waits
  <2>3. (Holds(t)' <=> Holds(t)) /\ (Has(t)' <=> Has(t))
    BY <1>3, <1>4 DEF Holds, Has, InV
  <2> QED BY <1>1, <1>2, <1>4, <2>1, <2>2, <2>3, PrivateStep
<1>5. CASE t \notin IoTasks
  <2>1. pc'[Isr] = pc[Isr] /\ \A u \in IoTasks : u # t /\ pc'[u] = pc[u]
    BY <1>3, <1>5, Constants
  <2>2. Places'
    BY <1>3, <2>1, Constants DEF IdeInv, Places, Place
  <2>3. Holding' /\ Sectors' /\ Handler'
    BY <2>1 DEF IdeInv, Holding, Holds, Sectors, SectorsOf, Handler
  <2>4. ChanMutex'
    BY <2>1 DEF IdeInv, ChanMutex, Has, Holds
  <2>5. Commands'
    <3>1. /\ Quiet' <=> Quiet
          /\ Working' <=> Working
          /\ UnderWay' <=> UnderWay
      BY <2>1 DEF Quiet, Working, Raised, Signalling, Signalled, UnderWay, driveVars
    <3>2. ASSUME NEW u \in IoTasks
          PROVE  (Mid(u)' <=> Mid(u)) /\ Command(u)'
      <4>1. (Mid(u)' <=> Mid(u)) /\ (Waits(u)' <=> Waits(u)) /\ Command(u)
        BY <2>1 DEF Mid, Waits, IdeInv, Commands
      <4> QED BY <3>1, <4>1 DEF Command, driveVars
    <3> QED BY <3>1, <3>2 DEF IdeInv, Commands
  <2> QED BY <1>1, <1>2, <2>2, <2>3, <2>4, <2>5 DEF IdeInv
<1> QED BY <1>4, <1>5

(* Only the driver's tasks are ever inside the lock code or asleep.        *)
LEMMA OnlyIoTasks ==
  ASSUME IdeInv, NEW t \in Tasks, pc[t] \notin {"user", "run"}
  PROVE  t \in IoTasks
BY DEF IdeInv, Places

(* Lock_P, whether it lets the task through or blocks it.                  *)
LEMMA LockPInv ==
  ASSUME IdeInv, NEW t \in Tasks, LockP(t), UNCHANGED ideVars
  PROVE  IdeInv'
<1>1. t \in IoTasks /\ pc[t] = "P"
  BY OnlyIoTasks DEF LockP
<1>2. arg[t] \in {ChanLock, DiskDone} /\ value[arg[t]] \in {0, 1}
  BY <1>1, Here, Constants DEF Place, IoLabels, InV, IdeInv, IoType
<1>3. CASE value[arg[t]] = 1
  <2>1. /\ value' = [value EXCEPT ![arg[t]] = 0]
        /\ pc' = [pc EXCEPT ![t] = IF arg[t] \in Sems THEN "run" ELSE "got"]
        /\ UNCHANGED <<arg, holder, repeat, panic>>
    BY <1>3 DEF LockP, Goto
  <2>2. CASE arg[t] = ChanLock
    BY <1>1, <1>3, <2>1, <2>2, Constants, GrantInv
  <2>3. CASE arg[t] = DiskDone
    BY <1>1, <1>3, <2>1, <2>3, Constants, DoneInv
  <2> QED BY <1>2, <2>2, <2>3
<1>4. CASE value[arg[t]] = 0
  <2>1. \/ Panic("sync.c:20")
        \/ UNCHANGED <<value, holder, repeat, pc, arg, panic>>
    BY <1>4 DEF LockP, ctxVars
  <2>2. CASE Panic("sync.c:20")
    BY <2>2, OtherPanic
  <2>3. CASE UNCHANGED <<value, holder, repeat, pc, arg, panic>>
    BY <2>3, Unseen DEF IdeInv, CountersAssertsHold, LockAsserts, ideVars
  <2> QED BY <2>1, <2>2, <2>3
<1> QED BY <1>2, <1>3, <1>4

(* Lock_V of the channel's lock.                                           *)
LEMMA LockVInv ==
  ASSUME IdeInv, NEW t \in Tasks, UNCHANGED ideVars,
         LockV(t) \/ UnBlockPush(t) \/ UnBlockReady(t) \/ LockVEnd(t)
  PROVE  IdeInv'
<1>1. t \in IoTasks /\ pc[t] \in InV
  BY OnlyIoTasks DEF LockV, UnBlockPush, UnBlockReady, LockVEnd, InV
<1>2. arg[t] = ChanLock
  BY <1>1, Here DEF Place, IoLabels, InV
<1>3. value[ChanLock] = 0
  BY <1>1, <1>2, Alone DEF Has
<1>4. \/ /\ pc' = [pc EXCEPT ![t] = "run"]
         /\ value' = [value EXCEPT ![ChanLock] = 1]
         /\ UNCHANGED <<arg, holder, repeat, panic>>
      \/ \E label \in InV :
           /\ pc' = [pc EXCEPT ![t] = label]
           /\ UNCHANGED <<arg, value, holder, repeat, panic>>
      \/ \E id \in {"thread.c:228", "thread.c:231"} : Panic(id)
  <2>1. CASE LockV(t)
    BY <1>2, <1>3, <2>1 DEF LockV, Goto, InV
  <2>2. CASE UnBlockPush(t)
    BY <2>2 DEF UnBlockPush, Goto, InV, lockVars
  <2>3. CASE UnBlockReady(t)
    BY <2>3 DEF UnBlockReady, Goto, InV, lockVars
  <2>4. CASE LockVEnd(t)
    BY <1>2, <1>3, <2>4 DEF LockVEnd, Goto
  <2> QED BY <2>1, <2>2, <2>3, <2>4
<1>5. CASE /\ pc' = [pc EXCEPT ![t] = "run"]
           /\ value' = [value EXCEPT ![ChanLock] = 1]
           /\ UNCHANGED <<arg, holder, repeat, panic>>
  BY <1>1, <1>5, FreeInv
<1>6. ASSUME NEW label \in InV,
             pc' = [pc EXCEPT ![t] = label],
             UNCHANGED <<arg, value, holder, repeat, panic>>
      PROVE  IdeInv'
  BY <1>1, <1>6, InsideVInv
<1>7. ASSUME NEW id \in {"thread.c:228", "thread.c:231"}, Panic(id)
      PROVE  IdeInv'
  BY <1>7, OtherPanic
<1> QED BY <1>4, <1>5, <1>6, <1>7

(* Timer_SleepTicks, called by Ide_BusyWait only.                          *)
LEMMA SleepStepInv ==
  ASSUME IdeInv, NEW t \in Tasks, SleepStep(t), UNCHANGED ideVars
  PROVE  IdeInv'
<1>1. t \in IoTasks /\ pc[t] = "sleep"
  BY OnlyIoTasks DEF SleepStep
<1>2. ioPc[t] = "poll"
  BY <1>1, Here DEF Place, IoLabels, InV
<1>3. \/ Yield(t)
      \/ /\ pc' = [pc EXCEPT ![t] = "run"]
         /\ UNCHANGED <<arg, value, holder, repeat, panic>>
  BY DEF SleepStep, Goto, lockVars
<1>4. CASE Yield(t)
  <2>1. \/ Panic("thread.c:200")
        \/ UNCHANGED <<value, holder, repeat, pc, arg, panic>>
    BY <1>4 DEF Yield, lockVars, ctxVars
  <2>2. CASE Panic("thread.c:200")
    BY <2>2, OtherPanic
  <2>3. CASE UNCHANGED <<value, holder, repeat, pc, arg, panic>>
    BY <2>3, Unseen DEF IdeInv, CountersAssertsHold, LockAsserts, ideVars
  <2> QED BY <2>1, <2>2, <2>3
<1>5. CASE /\ pc' = [pc EXCEPT ![t] = "run"]
           /\ UNCHANGED <<arg, value, holder, repeat, panic>>
  <2>1. ioPc' = [ioPc EXCEPT ![t] = "poll"]
    BY <1>1, <1>2 DEF ideVars, ioVars, IdeInv, IoType
  <2> QED BY <1>1, <1>2, <1>5, <2>1, PollInv DEF ideVars, ioVars
<1> QED BY <1>3, <1>4, <1>5

(* What a task does in the kernel below the driver.                        *)
LEMMA KernelStepInv ==
  ASSUME IdeInv, NEW t \in Tasks, KernelStep(t)
  PROVE  IdeInv'
<1>1. UNCHANGED ideVars
  BY DEF KernelStep
<1>2. CASE LockP(t)
  BY <1>1, <1>2, LockPInv
<1>3. CASE LockGot(t)
  <2>1. t \in IoTasks
    BY <1>3, OnlyIoTasks DEF LockGot
  <2> QED BY <1>1, <1>3, <2>1, LockGotInv
<1>4. CASE LockV(t) \/ UnBlockPush(t) \/ UnBlockReady(t) \/ LockVEnd(t)
  BY <1>1, <1>4, LockVInv
<1>5. CASE SleepStep(t)
  BY <1>1, <1>5, SleepStepInv
<1>6. CASE SysEnter(t)
  <2>1. /\ pc[t] = "user"
        /\ pc' = [pc EXCEPT ![t] = "run"]
        /\ UNCHANGED <<arg, value, holder, repeat, panic>>
    BY <1>6 DEF SysEnter, Goto, lockVars
  <2>2. t \in IoTasks => ioPc[t] = "idle"
    BY <2>1, Here DEF Place, IoLabels, InV
  <2> QED BY <1>1, <2>1, <2>2, ModeInv
<1>7. CASE t \in IoTasks /\ ioPc[t] = "idle" /\ SysExit(t)
  <2>1. /\ pc[t] = "run"
        /\ pc' = [pc EXCEPT ![t] = "user"]
        /\ UNCHANGED <<arg, value, holder, repeat, panic>>
    BY <1>7 DEF SysExit, Goto, lockVars
  <2> QED BY <1>1, <1>7, <2>1, ModeInv
<1> QED BY <1>2, <1>3, <1>4, <1>5, <1>6, <1>7 DEF KernelStep

(* A step of a task.                                                       *)
LEMMA IoTaskStepInv ==
  ASSUME IdeInv, NEW t \in Tasks, IoTaskStep(t)
  PROVE  IdeInv'
<1>1. CASE KernelStep(t)
  BY <1>1, KernelStepInv
<1>2. CASE t \in IoTasks /\ (IoBegin(t) \/ IoLocked(t) \/ IoPoll(t) \/ IoEnd(t) \/ IoReturn(t))
  BY <1>2, IoBeginInv, IoLockedInv, IoPollInv, IoEndInv, IoReturnInv
<1>3. CASE t \in IoTasks /\ (ReadCommand(t) \/ ReadWait(t) \/ ReadTransfer(t))
  BY <1>3, CmdOutInv, ReadWaitInv, ReadTransferInv
<1>4. CASE t \in IoTasks /\ (WriteCommand(t) \/ WriteTransfer(t) \/ WriteWait(t))
  BY <1>4, CmdOutInv, WriteTransferInv, WriteWaitInv
<1> QED BY <1>1, <1>2, <1>3, <1>4 DEF IoTaskStep

-----------------------------------------------------------------------------
(* The drive and the interrupt handler move the command on.  They do so    *)
(* only when the task that issued it waits for its end, or when the drive  *)
(* gets ready for the data of a write.                                     *)
LEMMA LineStep ==
  ASSUME IdeInv, UNCHANGED <<ioVars, holder, repeat, cmdOf>>,
         \A t \in Tasks : pc'[t] = pc[t] /\ arg'[t] = arg[t],
         value'[ChanLock] = value[ChanLock],
         IoType', Handler', CountersAssertsHold', UnderWay, UnderWay',
         \/ drive' = "idle" /\ ~Quiet /\ (Working => drive \in {"reading", "writing"})
         \/ Working /\ Working' /\ drive = "preparing" /\ drive' = "accepting"
  PROVE  IdeInv'
<1> USE Constants DEF ioVars
<1>1. Places' /\ Holding' /\ Sectors'
  BY DEF IdeInv, Places, Place, Holding, Holds, Sectors, SectorsOf
<1>2. ChanMutex'
  BY DEF IdeInv, ChanMutex, Has, Holds
<1>3. Commands'
  <2>1. ASSUME NEW t \in IoTasks PROVE (Mid(t)' <=> Mid(t)) /\ (Waits(t)' <=> Waits(t))
    BY DEF Mid, Waits
  <2>2. ~Quiet
    BY DEF Quiet, Working
  <2>3. ASSUME NEW t \in IoTasks PROVE Command(t)'
    <3>1. Command(t)
      BY DEF IdeInv, Commands
    <3>2. CASE drive' = "idle" /\ ~Quiet /\ (Working => drive \in {"reading", "writing"})
      <4>1. ~(ioPc[t] \in {"poll", "xfer"} /\ ~Waits(t))
        BY <3>1, <3>2 DEF Command
      <4>2. ioPc[t] # "xfer"
        BY <4>1 DEF Waits
      <4> QED BY <2>1, <3>1, <3>2, <4>1, <4>2 DEF Command
    <3>3. CASE Working /\ Working' /\ drive = "preparing" /\ drive' = "accepting"
      BY <2>1, <2>2, <3>1, <3>3 DEF Command
    <3> QED BY <3>2, <3>3
  <2>4. \E t \in IoTasks : Mid(t)'
    BY <2>1, <2>2 DEF IdeInv, Commands
  <2> QED BY <2>3, <2>4 DEF Commands
<1> QED BY <1>1, <1>2, <1>3 DEF IdeInv

(* The drive gets ready for data, or completes a command.                  *)
LEMMA DriveInv ==
  ASSUME IdeInv, DriveAccepts \/ DriveCompletes
  PROVE  IdeInv'
<1> USE DEF ioVars
<1>1. /\ UNCHANGED <<ioVars, holder, repeat, cmdOf, pc, arg, value, panic, expecting, isrOn>>
      /\ drive' \in DriveStates
  BY DEF DriveAccepts, DriveCompletes, vars, lockVars, ctxVars, DriveStates
<1>2. Working
  BY DEF DriveAccepts, DriveCompletes, IdeInv, Commands, UnderWay,
         Quiet, Raised, Signalling, Signalled
<1>3. IoType' /\ Handler' /\ CountersAssertsHold'
  BY <1>1 DEF IdeInv, IoType, Handler, CountersAssertsHold, LockAsserts
<1>4. UnderWay /\ ~Quiet
  BY <1>2 DEF UnderWay, Working, Quiet
<1>5. CASE DriveAccepts
  <2>1. drive = "preparing" /\ drive' = "accepting" /\ irq' = irq
    BY <1>5 DEF DriveAccepts
  <2>2. Working' /\ UnderWay'
    BY <1>1, <1>2, <2>1 DEF Working, UnderWay
  <2> QED BY <1>1, <1>2, <1>3, <1>4, <2>1, <2>2, LineStep
<1>6. CASE DriveCompletes
  <2>1. drive \in {"reading", "writing"} /\ drive' = "idle" /\ irq'
    BY <1>6 DEF DriveCompletes
  <2>2. UnderWay'
    BY <1>1, <1>2, <2>1 DEF Working, Raised, UnderWay
  <2> QED BY <1>1, <1>3, <1>4, <2>1, <2>2, LineStep
<1> QED BY <1>5, <1>6

(* The disk's interrupt is taken: it is the one the driver expects.        *)
LEMMA DiskIntrInv ==
  ASSUME IdeInv, DiskIntr
  PROVE  IdeInv'
<1>1. Raised
  BY DEF DiskIntr, IdeInv, Commands, UnderWay, Quiet, Working, Signalling, Signalled
<1>2. /\ pc' = [pc EXCEPT ![Isr] = "V"] /\ arg' = [arg EXCEPT ![Isr] = DiskDone]
      /\ isrOn' = cur /\ irq' = FALSE /\ expecting' = FALSE
      /\ UNCHANGED <<value, holder, repeat, panic, ioVars, drive, cmdOf>>
  BY <1>1 DEF DiskIntr, Raised, Goto, lockVars
<1>3. IoType'
  BY <1>2, Constants DEF IdeInv, IoType, Labels, ioVars
<1>4. /\ pc'[Isr] = "V" /\ arg'[Isr] = DiskDone
      /\ \A t \in Tasks : pc'[t] = pc[t] /\ arg'[t] = arg[t]
  BY <1>2, Constants DEF IdeInv, IoType
<1>5. UnderWay /\ ~Quiet /\ ~Working /\ drive' = "idle"
  BY <1>1, <1>2 DEF UnderWay, Quiet, Working, Raised
<1>6. UnderWay'
  BY <1>1, <1>2, <1>4 DEF UnderWay, Raised, Signalling, InV
<1>7. CountersAssertsHold'
  BY <1>2 DEF IdeInv, CountersAssertsHold, LockAsserts
<1>8. Handler'
  BY <1>2, <1>4 DEF Handler, InV
<1> QED BY <1>2, <1>3, <1>4, <1>5, <1>6, <1>7, <1>8, LineStep

(* Lock_V in the handler: value is still 0 there, however late it comes to *)
(* its end.                                                                *)
LEMMA IsrStepInv ==
  ASSUME IdeInv, IsrStep
  PROVE  IdeInv'
<1>1. pc[Isr] \in InV /\ UNCHANGED ideVars
  BY DEF IsrStep, LockV, UnBlockPush, UnBlockReady, LockVEnd, InV
<1>2. Signalling /\ arg[Isr] = DiskDone
  BY <1>1 DEF IdeInv, Handler, Commands, UnderWay, Quiet, Working, Raised, Signalled, InV
<1>3. value[DiskDone] = 0
  BY <1>2 DEF Signalling
<1>4. \/ \E label \in InV \cup {"run"} :
           /\ pc' = [pc EXCEPT ![Isr] = label]
           /\ value' = IF label = "run" THEN [value EXCEPT ![DiskDone] = 1] ELSE value
           /\ UNCHANGED <<arg, holder, repeat, panic>>
      \/ \E id \in {"thread.c:228", "thread.c:231"} : Panic(id)
  <2>1. CASE LockV(Isr)
    BY <1>2, <1>3, <2>1 DEF LockV, Goto, InV
  <2>2. CASE UnBlockPush(Isr)
    BY <2>2 DEF UnBlockPush, Goto, InV, lockVars
  <2>3. CASE UnBlockReady(Isr)
    BY <2>3 DEF UnBlockReady, Goto, InV, lockVars
  <2>4. CASE LockVEnd(Isr)
    BY <1>2, <1>3, <2>4 DEF LockVEnd, Goto, InV
  <2> QED BY <2>1, <2>2, <2>3, <2>4 DEF IsrStep
<1>5. ASSUME NEW label \in InV \cup {"run"},
             pc' = [pc EXCEPT ![Isr] = label],
             value' = IF label = "run" THEN [value EXCEPT ![DiskDone] = 1] ELSE value,
             UNCHANGED <<arg, holder, repeat, panic>>
      PROVE  IdeInv'
  <2>1. /\ pc'[Isr] = label
        /\ \A t \in Tasks : pc'[t] = pc[t]
        /\ value'[ChanLock] = value[ChanLock]
        /\ value'[DiskDone] = IF label = "run" THEN 1 ELSE 0
    BY <1>3, <1>5, Constants DEF IdeInv, IoType
  <2>2. IoType'
    <3>1. pc' \in [Ctx -> Labels]
      BY <1>5 DEF IdeInv, IoType, Labels, InV
    <3>2. value' \in [Locks -> {0, 1}]
      BY <1>5, Constants DEF IdeInv, IoType
    <3> QED BY <1>1, <1>5, <3>1, <3>2 DEF IdeInv, IoType, ideVars, ioVars, driveVars
  <2>3. Handler' /\ CountersAssertsHold'
    BY <1>2, <1>5, <2>1 DEF IdeInv, Handler, CountersAssertsHold, LockAsserts
  <2>4. UnderWay /\ ~Quiet /\ ~Working
    BY <1>2 DEF UnderWay, Signalling, Quiet, Working, InV
  <2>5. drive' = "idle" /\ UnderWay'
    <3>1. drive' = "idle" /\ ~expecting' /\ ~irq'
      BY <1>1, <1>2 DEF Signalling, ideVars, driveVars
    <3>2. CASE label = "run"
      BY <2>1, <3>1, <3>2 DEF UnderWay, Signalled
    <3>3. CASE label # "run"
      BY <2>1, <3>1, <3>3 DEF UnderWay, Signalling
    <3> QED BY <3>2, <3>3
  <2> QED BY <1>1, <1>5, <2>1, <2>2, <2>3, <2>4, <2>5, LineStep DEF ideVars, driveVars
<1>6. ASSUME NEW id \in {"thread.c:228", "thread.c:231"}, Panic(id)
      PROVE  IdeInv'
  BY <1>1, <1>6, OtherPanic
<1> QED BY <1>4, <1>5, <1>6

(* The handler returns.                                                    *)
LEMMA IsrReturnInv ==
  ASSUME IdeInv, IsrReturn
  PROVE  IdeInv'
<1>1. UNCHANGED <<value, holder, repeat, pc, arg, ioVars, driveVars, panic>>
  BY DEF IsrReturn, lockVars, ctxVars
<1> QED BY <1>1, Unseen DEF IdeInv, CountersAssertsHold, LockAsserts

(* The clock interrupt.                                                    *)
LEMMA ClockInv ==
  ASSUME IdeInv, TimerIntr, UNCHANGED ideVars
  PROVE  IdeInv'
<1>1. \/ Panic("thread.c:167")
      \/ UNCHANGED <<value, holder, repeat, pc, arg, panic>>
  BY DEF TimerIntr, lockVars
<1>2. CASE Panic("thread.c:167")
  BY <1>2, OtherPanic
<1>3. CASE UNCHANGED <<value, holder, repeat, pc, arg, panic>>
  BY <1>3, Unseen DEF IdeInv, CountersAssertsHold, LockAsserts, ideVars
<1> QED BY <1>1, <1>2, <1>3

(* Before the first request.                                               *)
LEMMA IdeInitInv ==
  ASSUME IdeInit
  PROVE  IdeInv
<1> USE DEF IdeInit, Init, InitLocks
<1>1. pc[Isr] = "run" /\ \A t \in Tasks : pc[t] \in {"user", "run"}
  BY Constants, SchedAssumption DEF SchedAssumption, Tasks
<1>2. IoType
  <2>1. AnyLock \in Locks
    BY Constants DEF AnyLock
  <2>2. pc \in [Ctx -> Labels] /\ arg \in [Ctx -> Locks]
    BY <2>1 DEF Labels
  <2>3. value \in [Locks -> {0, 1}] /\ holder \in [Locks -> Tasks \cup {NoTask}]
        /\ repeat \in [Locks -> Nat]
    OBVIOUS
  <2> QED BY <2>2, <2>3 DEF IoType, IoLabels, DriveStates
<1>3. Places /\ Sectors
  BY <1>1, Constants DEF Places, Place, Sectors, SectorsOf
<1>4. ASSUME NEW t \in IoTasks PROVE ~Holds(t) /\ ~Has(t) /\ ~Mid(t) /\ ~Waits(t) /\ t # NoTask
  BY <1>1, Constants DEF Holds, Has, InV, Mid, Waits
<1>5. Holding
  BY <1>4, Constants DEF Holding
<1>6. ChanMutex
  BY <1>4 DEF ChanMutex
<1>7. Handler
  BY <1>1 DEF Handler
<1>8. Commands
  <2>1. Quiet
    BY <1>1, Constants DEF Quiet
  <2>2. \A t \in IoTasks : Command(t)
    BY <1>4 DEF Command
  <2> QED BY <2>1, <2>2 DEF Commands
<1>9. CountersAssertsHold
  BY DEF CountersAssertsHold, LockAsserts
<1> QED BY <1>2, <1>3, <1>5, <1>6, <1>7, <1>8, <1>9 DEF IdeInv

(* The invariant is inductive: it holds in every state of the driver.      *)
THEOREM IdeInvariance == IdeSpec => []IdeInv
<1>1. IdeInit => IdeInv
  BY IdeInitInv
<1>2. IdeInv /\ [IdeNext]_allVars => IdeInv'
  <2> SUFFICES ASSUME IdeInv, [IdeNext]_allVars PROVE IdeInv'
    OBVIOUS
  <2>1. CASE TimerIntr /\ UNCHANGED ideVars
    BY <2>1, ClockInv
  <2>2. CASE (Halted /\ UNCHANGED ideVars) \/ UNCHANGED allVars
    <3>1. UNCHANGED <<vars, ideVars>>
      BY <2>2 DEF Halted, allVars
    <3>2. UNCHANGED <<value, holder, repeat, pc, arg, ioVars, driveVars, panic>>
      BY <3>1 DEF vars, lockVars, ctxVars, ideVars
    <3> QED BY <3>2, Unseen DEF IdeInv, CountersAssertsHold, LockAsserts
  <2>3. CASE \E t \in Tasks : IoTaskStep(t)
    BY <2>3, IoTaskStepInv
  <2>4. CASE DriveAccepts \/ DriveCompletes
    BY <2>4, DriveInv
  <2>5. CASE DiskIntr
    BY <2>5, DiskIntrInv
  <2>6. CASE IsrStep
    BY <2>6, IsrStepInv
  <2>7. CASE IsrReturn
    BY <2>7, IsrReturnInv
  <2> QED BY <2>1, <2>2, <2>3, <2>4, <2>5, <2>6, <2>7 DEF IdeNext
<1> QED BY <1>1, <1>2, PTL DEF IdeSpec

(* ide.c:418: the interrupt a task waited for belongs to its own command,  *)
(* so what it transfers in Ide_Read or Ide_Write is its own data.          *)
THEOREM TransferIsOwnHolds == IdeSpec => []TransferIsOwn
<1>1. IdeInv => TransferIsOwn
  <2> SUFFICES ASSUME IdeInv, NEW t \in IoTasks, InDriver(t, "xfer")
               PROVE  /\ cmdOf = t
                      /\ IF op[t] = "read" THEN drive = "idle"
                         ELSE drive \in {"accepting"} \cup (IF MayStall THEN {"preparing"} ELSE {})
    BY DEF TransferIsOwn
  <2>1. ioPc[t] = "xfer" /\ Command(t) /\ op[t] \in {"read", "write"} /\ ~Waits(t) /\ Mid(t)
    BY Here DEF InDriver, Waits, Mid
  <2>2. cmdOf = t
    BY <2>1 DEF Command
  <2>3. CASE op[t] = "read"
    BY <2>1, <2>2, <2>3 DEF Command, Quiet
  <2>4. CASE op[t] = "write"
    BY <2>1, <2>2, <2>4 DEF Command
  <2> QED BY <2>1, <2>3, <2>4
<1> QED BY <1>1, IdeInvariance, PTL

(* Ide_CmdOut meets a drive that is done with the previous command, whose  *)
(* interrupt has been taken and whose signal has been consumed.            *)
THEOREM DriveNotOverrunHolds == IdeSpec => []DriveNotOverrun
<1>1. IdeInv => DriveNotOverrun
  <2> SUFFICES ASSUME IdeInv, NEW t \in IoTasks, InDriver(t, "cmd")
               PROVE  drive = "idle" /\ ~irq /\ ~expecting /\ value[DiskDone] = 0
    BY DEF DriveNotOverrun
  <2>1. Has(t) /\ ~Mid(t)
    BY DEF InDriver, Has, Holds, Mid
  <2>2. Quiet
    BY <2>1, OneCommand DEF IdeInv, Commands
  <2> QED BY <2>2 DEF Quiet
<1> QED BY <1>1, IdeInvariance, PTL

(* The loops of Ide_Read and Ide_Write end at exactly the sectors they     *)
(* were asked for.                                                         *)
THEOREM RequestExactHolds == IdeSpec => []RequestExact
<1>1. IdeInv => RequestExact
  BY DEF IdeInv, Sectors, SectorsOf, RequestExact
<1> QED BY <1>1, IdeInvariance, PTL

(* sync.c: with the disk's handler signalling from interrupt context, the  *)
(* ASSERTs on the counters of the channel's lock and of diskDone hold; a   *)
(* second Lock_V never finds the value up.                                 *)
THEOREM IdeCountersAsserts == IdeSpec => []CountersAssertsHold
<1>1. IdeInv => CountersAssertsHold
  BY DEF IdeInv
<1> QED BY <1>1, IdeInvariance, PTL
=============================================================================
