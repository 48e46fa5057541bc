---------------------------- MODULE TasksProofs -----------------------------
(***************************************************************************)
(* Proofs about Tasks, for any number of tasks and pages: processes never  *)
(* share a number; a process that starts before it is whole does so only   *)
(* because its creator had to wait, or for want of pages; and every page   *)
(* that is taken is accounted for but for fork's buffers and what failed   *)
(* allocations left behind.                                                *)
(***************************************************************************)
EXTENDS Tasks, FiniteSetTheorems, TLAPS

PCB == [kind : {"none", "thread", "proc"}, pid : Nat, ready : BOOLEAN,
        started : BOOLEAN, pcb : Nat, dir : Nat, map : Nat, len : Nat,
        table : Nat, name : Nat, buf : Nat]

ThreadSteps == {"t_lock", "t_pcb", "t_pid", "t_pid++", "t_init"}
NoChild == {"idle", "pool"}
Labels == ThreadSteps \cup NoChild \cup IntrOff

TypeInv ==
  /\ cpu \in Ids
  /\ task \in [Ids -> PCB]
  /\ pc \in [Ids -> Labels]
  /\ child \in [Ids -> New \cup {NoTask}]
  /\ free \in Nat
  /\ nextPid \in Nat
  /\ failures \in Nat

(* A creation has a PCB that no other creation has.                        *)
OwnChild ==
  \A t \in Ids :
    /\ child[t] = NoTask <=> pc[t] \in NoChild
    /\ \A u \in Ids : child[t] = child[u] /\ child[t] # NoTask => t = u

(* How far the PCB is at each place of its creation.  Only Process_Create  *)
(* makes the task ready before it is done with it; then the creator still  *)
(* has the CPU, or it has had to wait.                                     *)
Stage(t, p) ==
  /\ pc[t] \notin NoChild \cup {"p_dir", "p_map"} => ~p.ready
  /\ pc[t] \in {"t_pid", "t_pid++", "t_init"} => p.kind = "thread"
  /\ pc[t] \in {"p_pid", "f_buf", "f_pid"} => p.kind = "proc"
  /\ pc[t] \in {"f_map", "f_dir", "f_pages"} => p.kind = "proc" /\ p.pid # 0
  /\ pc[t] \in {"p_dir", "p_map"} =>
       p.kind = "proc" /\ p.ready /\ (t = cpu \/ child[t] \in waited)

Stages == \A t \in Ids : pc[t] \notin NoChild => Stage(t, task[child[t]])

(* What every PCB says of itself; a task that is not started calls nothing.*)
PCBSound ==
  \A i \in Ids :
    /\ task[i].started => task[i].ready
    /\ task[i].ready => task[i].kind # "none"
    /\ pc[i] # "idle" => task[i].started
    /\ task[i].pid <= nextPid
    /\ task[i].kind = "proc" /\ task[i].ready => task[i].pid # 0

ProcPids ==
  \A i, j \in Ids :
    /\ task[i].kind = "proc" /\ task[j].kind = "proc"
    /\ task[i].pid # 0 /\ task[i].pid = task[j].pid
    => i = j

(* A process that is ready and has not started is whole, or its creation   *)
(* is not yet done, or there was no page for its directory.                *)
HasDir(i) == task[i].dir # 0 \/ failures > 0

WholeOrNot ==
  \A i \in Ids :
    task[i].kind = "proc" /\ task[i].ready /\ ~task[i].started =>
      \/ HasDir(i) /\ task[i].len # 0
      \/ \E u \in Ids : child[u] = i /\ (pc[u] = "p_dir" \/ (pc[u] = "p_map" /\ HasDir(i)))

TaskInv ==
  /\ TypeInv
  /\ OwnChild
  /\ Stages
  /\ PCBSound
  /\ ProcPids
  /\ task[cpu].ready
  /\ WholeOrNot
  /\ StartsWhole

(* The pages of the PCB p of a creation that is at l.  A free PCB and one   *)
(* that has just been found have none; a process has no page table before  *)
(* it starts.                                                              *)
PCBPages(p) ==
  /\ p.kind = "none" => p.pcb = 0 /\ p.dir = 0 /\ p.map = 0 /\ p.table = 0 /\ p.buf = 0
  /\ p.kind = "proc" /\ ~p.started => p.table = 0

PagesAt(l, p) ==
  /\ l \in {"t_lock", "t_pcb", "p_pcb", "f_pcb"} => p.kind = "none"
  /\ l \in {"p_pid", "p_dir"} => p.dir = 0
  /\ l \in {"p_pid", "p_dir", "p_map"} => p.map = 0
  /\ l \in {"f_buf", "f_pid", "f_map", "f_dir", "f_pages"} => p.pcb = 1 /\ p.table = 0
  /\ l = "f_buf" => p.buf = 0
  /\ l \in {"f_pid", "f_map", "f_dir", "f_pages"} => p.buf = 1
  /\ l \in {"f_buf", "f_pid", "f_map", "f_dir"} => p.dir = 0
  /\ l \in {"f_buf", "f_pid", "f_map"} => p.map = 0
  /\ l = "f_dir" => p.map = CopyPages

Furnished ==
  /\ \A i \in Ids : PCBPages(task[i])
  /\ \A t \in Ids : pc[t] \notin NoChild => PagesAt(pc[t], task[child[t]])

PagesInv == total \in Nat /\ forks \in Nat /\ Furnished /\ PagesReachable

-----------------------------------------------------------------------------
(* What a step of a creation must see to, so that the invariant holds      *)
(* after it: t works on the PCB i of its child and goes on at label.       *)
Advances(t, i, label) ==
  /\ cpu = t /\ pc[t] \notin NoChild /\ i = child[t] /\ panic = "none"
  /\ UNCHANGED <<cpu, waited, panic>>
  /\ pc' = [pc EXCEPT ![t] = label]
  /\ child' = IF label = "idle" THEN [child EXCEPT ![t] = NoTask] ELSE child
  /\ task' \in [Ids -> PCB] /\ \A j \in Ids : j # i => task'[j] = task[j]
  /\ free' \in Nat
  /\ nextPid' \in Nat /\ nextPid' >= nextPid
  /\ failures' \in Nat /\ failures' >= failures
  /\ label # "idle" => Stage(t, task[i])'

(* What it must see to in the PCB itself.                                  *)
GoodPCB(i, label) ==
  LET old == task[i]
      new == task'[i]
  IN /\ old.ready => new.ready
     /\ old.started => new.started
     /\ new.started => new.ready
     /\ new.ready => new.kind # "none"
     /\ new.pid <= nextPid'
     /\ new.kind = "proc" /\ new.ready => new.pid # 0
     /\ new.kind = "proc" =>
          new.pid = 0 \/ new.pid > nextPid \/ (old.kind = "proc" /\ new.pid = old.pid)
     /\ new.kind = "proc" /\ new.ready /\ ~new.started =>
          \/ HasDir(i)' /\ new.len # 0
          \/ label = "p_dir"
          \/ label = "p_map" /\ HasDir(i)'

(* A step of a creation to its next place, the PCB being as that place     *)
(* needs it, keeps the invariant.                                          *)
LEMMA CreationStep ==
  ASSUME TasksAssumption, TaskInv, NEW t \in Ids, NEW i \in New,
         NEW label \in Labels \ {"pool"}, Advances(t, i, label), GoodPCB(i, label)
  PROVE  TaskInv'
<1>0. /\ cpu \in Ids /\ cpu' = cpu /\ cpu = t /\ waited' = waited
      /\ task \in [Ids -> PCB] /\ task' \in [Ids -> PCB]
      /\ pc \in [Ids -> Labels] /\ child \in [Ids -> New \cup {NoTask}]
      /\ i \in Ids /\ NoTask \notin Ids /\ New \subseteq Ids
      /\ pc[t] \notin NoChild /\ i = child[t]
      /\ pc' = [pc EXCEPT ![t] = label]
      /\ child' = IF label = "idle" THEN [child EXCEPT ![t] = NoTask] ELSE child
      /\ \A j \in Ids : j # i => task'[j] = task[j]
      /\ nextPid \in Nat /\ nextPid' \in Nat /\ nextPid' >= nextPid
      /\ failures \in Nat /\ failures' \in Nat /\ failures' >= failures
      /\ panic = "none" /\ panic' = panic
      /\ free' \in Nat
  BY DEF TaskInv, TypeInv, Advances, TasksAssumption, Ids
<1>1. TypeInv'
  BY <1>0 DEF TypeInv
<1>2. /\ pc'[t] = label
      /\ \A u \in Ids : u # t => pc'[u] = pc[u] /\ child'[u] = child[u] /\ child[u] # i
      /\ child'[t] = IF label = "idle" THEN NoTask ELSE i
  BY <1>0 DEF TaskInv, OwnChild
<1>3. OwnChild'
  BY <1>0, <1>2 DEF TaskInv, OwnChild, NoChild
<1>4. Stages'
  <2> SUFFICES ASSUME NEW u \in Ids, pc'[u] \notin NoChild
               PROVE  Stage(u, task[child[u]])'
    BY DEF Stages
  <2>1. CASE u = t
    <3>1. label # "idle" /\ child'[u] = i
      BY <1>2, <2>1 DEF NoChild
    <3> QED BY <1>0, <2>1, <3>1 DEF Advances, Stage
  <2>2. CASE u # t
    <3>1. child[u] \in Ids
      BY <1>0, <1>2, <2>2 DEF TaskInv, OwnChild
    <3>2. pc'[u] = pc[u] /\ child'[u] = child[u] /\ task'[child[u]] = task[child[u]]
      BY <1>0, <1>2, <2>2, <3>1
    <3>3. Stage(u, task[child[u]])
      BY <3>2 DEF TaskInv, Stages
    <3> QED BY <1>0, <3>2, <3>3 DEF Stage
  <2> QED BY <2>1, <2>2
<1>5. PCBSound'
  <2> SUFFICES ASSUME NEW j \in Ids
               PROVE  /\ task'[j].started => task'[j].ready
                      /\ task'[j].ready => task'[j].kind # "none"
                      /\ pc'[j] # "idle" => task'[j].started
                      /\ task'[j].pid <= nextPid'
                      /\ task'[j].kind = "proc" /\ task'[j].ready => task'[j].pid # 0
    BY DEF PCBSound
  <2>1. /\ task[j].started => task[j].ready
        /\ task[j].ready => task[j].kind # "none"
        /\ pc[j] # "idle" => task[j].started
        /\ task[j].pid <= nextPid
        /\ task[j].kind = "proc" /\ task[j].ready => task[j].pid # 0
        /\ task[j].pid \in Nat
    BY <1>0 DEF TaskInv, PCBSound, PCB
  <2>2. pc'[j] # "idle" => pc[j] # "idle"
    BY <1>0, <1>2 DEF NoChild
  <2>3. CASE j = i
    BY <2>1, <2>2, <2>3 DEF GoodPCB
  <2>4. CASE j # i
    BY <1>0, <2>1, <2>2, <2>4
  <2> QED BY <2>3, <2>4
<1>6. ProcPids'
  <2> SUFFICES ASSUME NEW j \in Ids, NEW k \in Ids, j # k,
                      task'[j].kind = "proc", task'[k].kind = "proc",
                      task'[j].pid # 0, task'[j].pid = task'[k].pid
               PROVE  FALSE
    BY DEF ProcPids
  <2>1. ASSUME NEW m \in Ids
        PROVE  task[m].pid <= nextPid /\ task[m].pid \in Nat /\ task'[m].pid \in Nat
    BY <1>0 DEF TaskInv, PCBSound, PCB
  <2>2. ASSUME NEW m \in Ids, m # i, task'[i].kind = "proc", task[m].kind = "proc",
               task'[i].pid # 0, task'[i].pid = task[m].pid
        PROVE  FALSE
    <3>1. task'[i].pid > nextPid \/ (task[i].kind = "proc" /\ task'[i].pid = task[i].pid)
      BY <2>2 DEF GoodPCB
    <3>2. CASE task'[i].pid > nextPid
      BY <1>0, <2>1, <2>2, <3>2
    <3>3. CASE task[i].kind = "proc" /\ task'[i].pid = task[i].pid
      BY <1>0, <2>2, <3>3 DEF TaskInv, ProcPids
    <3> QED BY <3>1, <3>2, <3>3
  <2>3. CASE j # i /\ k # i
    BY <1>0, <2>3 DEF TaskInv, ProcPids
  <2>4. CASE j = i
    BY <1>0, <2>2, <2>4
  <2>5. CASE k = i
    BY <1>0, <2>2, <2>5
  <2> QED BY <2>3, <2>4, <2>5
<1>7. (task[cpu].ready)'
  BY <1>0 DEF TaskInv, GoodPCB
<1>8. WholeOrNot'
  <2> SUFFICES ASSUME NEW j \in Ids,
                      task'[j].kind = "proc", task'[j].ready, ~task'[j].started
               PROVE  \/ HasDir(j)' /\ task'[j].len # 0
                      \/ \E u \in Ids : child'[u] = j /\
                           (pc'[u] = "p_dir" \/ (pc'[u] = "p_map" /\ HasDir(j)'))
    BY DEF WholeOrNot
  <2>1. CASE j = i
    <3>1. \/ HasDir(i)' /\ task'[i].len # 0
          \/ label = "p_dir"
          \/ label = "p_map" /\ HasDir(i)'
      BY <2>1 DEF GoodPCB
    <3>2. label = "p_dir" \/ label = "p_map" => child'[t] = i /\ pc'[t] = label
      BY <1>2
    <3> QED BY <2>1, <3>1, <3>2
  <2>2. CASE j # i
    <3>1. task'[j] = task[j]
      BY <1>0, <2>2
    <3>2. HasDir(j) => HasDir(j)'
      BY <1>0, <3>1 DEF HasDir
    <3>3. \/ HasDir(j) /\ task[j].len # 0
          \/ \E u \in Ids : child[u] = j /\
                (pc[u] = "p_dir" \/ (pc[u] = "p_map" /\ HasDir(j)))
      BY <3>1 DEF TaskInv, WholeOrNot
    <3>4. \A u \in Ids : child[u] = j => u # t
      BY <1>0, <2>2
    <3> QED BY <1>2, <3>1, <3>2, <3>3, <3>4
  <2> QED BY <2>1, <2>2
<1>9. StartsWhole'
  BY <1>0 DEF StartsWhole
<1> QED
  BY <1>1, <1>3, <1>4, <1>5, <1>6, <1>7, <1>8, <1>9 DEF TaskInv

(* What is known of the PCB a creation works on.                           *)
LEMMA ChildFacts ==
  ASSUME TasksAssumption, TaskInv, NEW t \in Ids, pc[t] \notin NoChild
  PROVE  /\ child[t] \in New /\ child[t] \in Ids
         /\ task[child[t]] \in PCB /\ task[child[t]].pid \in Nat
         /\ Stage(t, task[child[t]])
         /\ task[child[t]].started => task[child[t]].ready
         /\ task[child[t]].ready => task[child[t]].kind # "none"
         /\ task[child[t]].pid <= nextPid
         /\ task[child[t]].kind = "proc" /\ task[child[t]].ready => task[child[t]].pid # 0
<1>1. child[t] \in New /\ child[t] \in Ids
  BY DEF TaskInv, TypeInv, OwnChild, Ids
<1>2. task[child[t]] \in PCB
  BY <1>1 DEF TaskInv, TypeInv
<1>3. task[child[t]].pid \in Nat
  BY <1>2 DEF PCB
<1> QED BY <1>1, <1>2, <1>3 DEF TaskInv, Stages, PCBSound

(* The kernel stops; in Process_Start, for one of the reasons that         *)
(* StartsWhole names.                                                      *)
LEMMA StopStep ==
  ASSUME TaskInv, NEW where, Stop(where),
         where \in {"GetOnePage Failed!", "bitmap.c:39"} => cpu \in waited \/ failures > 0
  PROVE  TaskInv'
<1>1. /\ panic' = where
      /\ UNCHANGED <<cpu, task, pc, child, free, nextPid, waited, failures>>
  BY DEF Stop, histVars
<1>2. TypeInv' /\ OwnChild' /\ PCBSound' /\ ProcPids' /\ (task[cpu].ready)'
  BY <1>1 DEF TaskInv, TypeInv, OwnChild, PCBSound, ProcPids
<1>3. Stages' /\ WholeOrNot'
  BY <1>1 DEF TaskInv, Stages, Stage, WholeOrNot, HasDir
<1>4. StartsWhole'
  BY <1>1 DEF StartsWhole
<1> QED BY <1>2, <1>3, <1>4 DEF TaskInv

(* A creation begins with a PCB nobody has.                                *)
LEMMA BeginStep ==
  ASSUME TasksAssumption, TaskInv, NEW t \in Ids, NEW i \in New, Running(t),
         NEW label \in {"t_lock", "p_pcb", "f_pcb"}, Begin(t, label, i)
  PROVE  TaskInv'
<1>0. /\ pc[t] = "idle" /\ task[i].kind = "none" /\ \A u \in Ids : child[u] # i
      /\ pc' = [pc EXCEPT ![t] = label]
      /\ child' = [child EXCEPT ![t] = i]
      /\ UNCHANGED <<cpu, task, free, nextPid, panic, waited, failures>>
      /\ cpu = t /\ task[t].started /\ panic = "none"
      /\ label \in Labels \ NoChild
      /\ task \in [Ids -> PCB] /\ pc \in [Ids -> Labels] /\ child \in [Ids -> New \cup {NoTask}]
      /\ i \in Ids /\ i # NoTask
  BY DEF Begin, Goto, histVars, Running, TaskInv, TypeInv, Labels, NoChild, IntrOff,
         ThreadSteps, TasksAssumption, Ids
<1>1. /\ pc'[t] = label /\ child'[t] = i
      /\ \A u \in Ids : u # t => pc'[u] = pc[u] /\ child'[u] = child[u]
  BY <1>0
<1>2. TypeInv'
  BY <1>0 DEF TaskInv, TypeInv
<1>3. OwnChild'
  BY <1>0, <1>1 DEF TaskInv, OwnChild
<1>4. Stages'
  <2> SUFFICES ASSUME NEW u \in Ids, pc'[u] \notin NoChild
               PROVE  Stage(u, task[child[u]])'
    BY DEF Stages
  <2>1. CASE u = t
    <3>1. ~task[i].ready
      BY <1>0 DEF TaskInv, PCBSound
    <3> QED BY <1>0, <1>1, <2>1, <3>1 DEF Stage
  <2>2. CASE u # t
    <3>1. Stage(u, task[child[u]])
      BY <1>1, <2>2 DEF TaskInv, Stages
    <3> QED BY <1>0, <1>1, <2>2, <3>1 DEF Stage
  <2> QED BY <2>1, <2>2
<1>5. PCBSound'
  BY <1>0, <1>1 DEF TaskInv, PCBSound
<1>6. ProcPids' /\ (task[cpu].ready)' /\ StartsWhole'
  BY <1>0 DEF TaskInv, ProcPids, StartsWhole
<1>7. WholeOrNot'
  <2> SUFFICES ASSUME NEW j \in Ids,
                      task[j].kind = "proc", task[j].ready, ~task[j].started
               PROVE  \/ HasDir(j)' /\ task[j].len # 0
                      \/ \E u \in Ids : child'[u] = j /\
                           (pc'[u] = "p_dir" \/ (pc'[u] = "p_map" /\ HasDir(j)'))
    BY <1>0 DEF WholeOrNot
  <2>1. HasDir(j)' <=> HasDir(j)
    BY <1>0 DEF HasDir
  <2>2. CASE HasDir(j) /\ task[j].len # 0
    BY <2>1, <2>2
  <2>3. CASE \E u \in Ids : child[u] = j /\
               (pc[u] = "p_dir" \/ (pc[u] = "p_map" /\ HasDir(j)))
    <3>1. PICK u \in Ids : child[u] = j /\ (pc[u] = "p_dir" \/ (pc[u] = "p_map" /\ HasDir(j)))
      BY <2>3
    <3>2. u # t
      BY <1>0, <3>1
    <3> QED BY <1>1, <2>1, <3>1, <3>2
  <2> QED BY <2>2, <2>3 DEF TaskInv, WholeOrNot
<1> QED
  BY <1>2, <1>3, <1>4, <1>5, <1>6, <1>7 DEF TaskInv

(* Other uses of the pool touch no PCB.                                    *)
LEMMA PoolStep ==
  ASSUME TasksAssumption, TaskInv, NEW t \in Ids, Running(t), PoolBegin(t) \/ PoolEnd(t)
  PROVE  TaskInv'
<1>0. PICK label \in NoChild :
        /\ pc[t] \in NoChild /\ pc' = [pc EXCEPT ![t] = label]
        /\ UNCHANGED <<cpu, task, child, free, nextPid, panic, waited, failures>>
  BY DEF PoolBegin, PoolEnd, Goto, histVars, NoChild
<1>1. /\ pc \in [Ids -> Labels] /\ NoChild \subseteq Labels /\ task[t].started
      /\ pc'[t] = label /\ \A u \in Ids : u # t => pc'[u] = pc[u]
  BY <1>0 DEF TaskInv, TypeInv, Labels, Running
<1>2. TypeInv'
  BY <1>0, <1>1 DEF TaskInv, TypeInv
<1>3. OwnChild' /\ PCBSound' /\ ProcPids' /\ (task[cpu].ready)' /\ StartsWhole'
  BY <1>0, <1>1 DEF TaskInv, OwnChild, PCBSound, ProcPids, StartsWhole
<1>4. Stages'
  <2> SUFFICES ASSUME NEW u \in Ids, pc'[u] \notin NoChild
               PROVE  Stage(u, task[child[u]])'
    BY DEF Stages
  <2>1. pc[u] = pc'[u] /\ Stage(u, task[child[u]])
    BY <1>0, <1>1 DEF TaskInv, Stages
  <2> QED BY <1>0, <2>1 DEF Stage
<1>5. WholeOrNot'
  <2>1. \A u \in Ids : pc'[u] = pc[u] \/ pc[u] \notin {"p_dir", "p_map"}
    BY <1>0, <1>1 DEF NoChild
  <2> QED BY <1>0, <2>1 DEF TaskInv, WholeOrNot, HasDir
<1> QED
  BY <1>2, <1>3, <1>4, <1>5 DEF TaskInv

(* The clock switches tasks; a process creation that loses the CPU had to  *)
(* wait.                                                                   *)
LEMMA SwitchTasks ==
  ASSUME TasksAssumption, TaskInv, NEW t \in Ids, Switch(t)
  PROVE  TaskInv'
<1>0. /\ panic = "none" /\ task[t].ready /\ cpu' = t /\ MayLeave(cpu) /\ cpu \in Ids
      /\ waited' = IF Waits(cpu) /\ pc[cpu] \in {"p_dir", "p_map"}
                   THEN waited \cup {child[cpu]} ELSE waited
      /\ UNCHANGED <<task, pc, child, free, nextPid, panic, failures>>
  BY DEF Switch, TaskInv, TypeInv
<1>1. TypeInv' /\ OwnChild' /\ PCBSound' /\ ProcPids' /\ (task[cpu].ready)' /\ StartsWhole'
  BY <1>0 DEF TaskInv, TypeInv, OwnChild, PCBSound, ProcPids, StartsWhole
<1>2. Stages'
  <2> SUFFICES ASSUME NEW u \in Ids, pc[u] \notin NoChild
               PROVE  Stage(u, task[child[u]])'
    BY <1>0 DEF Stages
  <2>1. Stage(u, task[child[u]])
    BY DEF TaskInv, Stages
  <2>2. pc[u] \in {"p_dir", "p_map"} => child[u] \in waited'
    <3>1. CASE u = cpu
      BY <1>0, <3>1 DEF MayLeave, IntrOff
    <3>2. CASE u # cpu
      BY <1>0, <2>1, <3>2 DEF Stage
    <3> QED BY <3>1, <3>2
  <2> QED BY <1>0, <2>1, <2>2 DEF Stage
<1>3. WholeOrNot'
  BY <1>0 DEF TaskInv, WholeOrNot, HasDir
<1> QED
  BY <1>1, <1>2, <1>3 DEF TaskInv

(* Process_Start.                                                          *)
LEMMA StartStep ==
  ASSUME TasksAssumption, TaskInv, NEW t \in Ids, Start(t)
  PROVE  TaskInv'
<1>0. /\ panic = "none" /\ cpu = t /\ task[t].kind = "proc" /\ ~task[t].started
      /\ task[t].ready /\ task \in [Ids -> PCB] /\ free \in Nat /\ failures \in Nat
  BY DEF Start, TaskInv, TypeInv
<1>1. \/ HasDir(t) /\ task[t].len # 0
      \/ t \in waited
  <2>1. CASE \E u \in Ids : child[u] = t /\ pc[u] \in {"p_dir", "p_map"}
    <3>1. PICK u \in Ids : child[u] = t /\ pc[u] \in {"p_dir", "p_map"}
      BY <2>1
    <3>2. u # t
      BY <1>0, <3>1 DEF TaskInv, PCBSound
    <3>3. Stage(u, task[child[u]])
      BY <3>1 DEF TaskInv, Stages, NoChild
    <3> QED BY <1>0, <3>1, <3>2, <3>3 DEF Stage
  <2>2. CASE ~ \E u \in Ids : child[u] = t /\ pc[u] \in {"p_dir", "p_map"}
    BY <1>0, <2>2 DEF TaskInv, WholeOrNot
  <2> QED BY <2>1, <2>2
<1>2. CASE task[t].dir = 0
  <2>1. Stop("GetOnePage Failed!")
    BY <1>2 DEF Start
  <2>2. cpu \in waited \/ failures > 0
    BY <1>0, <1>1, <1>2 DEF HasDir
  <2> QED BY <2>1, <2>2, StopStep
<1>3. CASE task[t].dir # 0 /\ task[t].len = 0
  <2>1. Stop("bitmap.c:39")
    BY <1>3 DEF Start
  <2>2. cpu \in waited \/ failures > 0
    BY <1>0, <1>1, <1>3
  <2> QED BY <2>1, <2>2, StopStep
<1>4. CASE task[t].dir # 0 /\ task[t].len # 0
  <2>1. /\ free' = free - Taken(1)
        /\ task' = [task EXCEPT ![t].started = TRUE, ![t].table = Taken(1)]
        /\ failures' = IF Got(1) THEN failures ELSE failures + 1
        /\ UNCHANGED <<cpu, pc, child, nextPid, panic, waited>>
    BY <1>4 DEF Start
  <2>2. Taken(1) \in Nat /\ free' \in Nat /\ failures' \in Nat /\ failures' >= failures
    BY <1>0, <2>1 DEF Taken, Got
  <2>3. /\ task' \in [Ids -> PCB]
        /\ \A j \in Ids : j # t => task'[j] = task[j]
        /\ task'[t].started /\ task'[t].ready = task[t].ready
        /\ task'[t].kind = task[t].kind /\ task'[t].pid = task[t].pid
    <3>1. PICK g \in Nat : g = Taken(1)
      BY <2>2
    <3> DEFINE new == [task[t] EXCEPT !.started = TRUE, !.table = g]
    <3>2. task' = [task EXCEPT ![t] = new]
      BY <1>0, <2>1, <3>1
    <3>3. /\ new \in PCB /\ new.started /\ new.ready = task[t].ready
          /\ new.kind = task[t].kind /\ new.pid = task[t].pid
      <4>1. task[t] \in PCB
        BY <1>0
      <4> QED BY <4>1 DEF PCB
    <3> HIDE DEF new
    <3> QED BY <1>0, <3>2, <3>3
  <2>4. \A j \in Ids : /\ task'[j].ready = task[j].ready /\ task'[j].kind = task[j].kind
                       /\ task'[j].pid = task[j].pid
    BY <2>3
  <2>5. TypeInv' /\ OwnChild' /\ ProcPids' /\ (task[cpu].ready)' /\ StartsWhole'
    BY <1>0, <2>1, <2>2, <2>3, <2>4 DEF TaskInv, TypeInv, OwnChild, ProcPids, StartsWhole
  <2>6. PCBSound'
    <3> SUFFICES ASSUME NEW j \in Ids
                 PROVE  /\ task'[j].started => task'[j].ready
                        /\ task'[j].ready => task'[j].kind # "none"
                        /\ pc[j] # "idle" => task'[j].started
                        /\ task'[j].pid <= nextPid
                        /\ task'[j].kind = "proc" /\ task'[j].ready => task'[j].pid # 0
      BY <2>1 DEF PCBSound
    <3>1. /\ task[j].started => task[j].ready
          /\ task[j].ready => task[j].kind # "none"
          /\ pc[j] # "idle" => task[j].started
          /\ task[j].pid <= nextPid
          /\ task[j].kind = "proc" /\ task[j].ready => task[j].pid # 0
      BY DEF TaskInv, PCBSound
    <3> QED BY <1>0, <2>3, <2>4, <3>1
  <2>7. Stages'
    <3> SUFFICES ASSUME NEW u \in Ids, pc[u] \notin NoChild
                 PROVE  Stage(u, task[child[u]])'
      BY <2>1 DEF Stages
    <3>1. Stage(u, task[child[u]]) /\ child[u] \in Ids
      BY ChildFacts
    <3> QED BY <2>1, <2>4, <3>1, ZenonT(30) DEF Stage
  <2>8. WholeOrNot'
    <3> SUFFICES ASSUME NEW j \in Ids,
                        task'[j].kind = "proc", task'[j].ready, ~task'[j].started
                 PROVE  \/ HasDir(j)' /\ task'[j].len # 0
                        \/ \E u \in Ids : child[u] = j /\
                             (pc[u] = "p_dir" \/ (pc[u] = "p_map" /\ HasDir(j)'))
      BY <2>1 DEF WholeOrNot
    <3>1. task'[j] = task[j]
      BY <2>3
    <3>2. HasDir(j) => HasDir(j)'
      BY <1>0, <2>2, <3>1 DEF HasDir
    <3> QED BY <3>1, <3>2 DEF TaskInv, WholeOrNot
  <2> QED BY <2>5, <2>6, <2>7, <2>8 DEF TaskInv
<1> QED BY <1>2, <1>3, <1>4

-----------------------------------------------------------------------------
(* Thread_Create.                                                          *)
LEMMA ThreadCreateStep ==
  ASSUME TasksAssumption, TaskInv, NEW t \in Ids, Running(t),
         ThreadLock(t) \/ ThreadPCB(t) \/ ThreadPid(t) \/ ThreadNextPid(t) \/ ThreadInit(t)
  PROVE  TaskInv'
<1>0. /\ cpu = t /\ panic = "none" /\ pc[t] \in ThreadSteps /\ pc[t] \notin NoChild
      /\ task \in [Ids -> PCB] /\ free \in Nat /\ nextPid \in Nat /\ failures \in Nat
  BY DEF Running, ThreadLock, ThreadPCB, ThreadPid, ThreadNextPid, ThreadInit,
         ThreadSteps, NoChild, TaskInv, TypeInv
<1>1. PICK i \in New : i = child[t]
  BY <1>0, ChildFacts
<1>2. /\ i \in Ids /\ task[i] \in PCB /\ task[i].pid \in Nat
      /\ ~task[i].ready /\ ~task[i].started /\ task[i].pid <= nextPid
      /\ pc[t] \in {"t_pid", "t_pid++", "t_init"} => task[i].kind = "thread"
  BY <1>0, <1>1, ChildFacts DEF Stage, ThreadSteps, NoChild
<1>3. CASE ThreadLock(t) \/ ThreadPid(t) \/ ThreadNextPid(t)
  <2>1. PICK label \in ThreadSteps :
          /\ pc' = [pc EXCEPT ![t] = label]
          /\ pc[t] \in {"t_pid", "t_pid++", "t_init"} \/ label = "t_pcb"
          /\ UNCHANGED <<cpu, task, child, free, panic, waited, failures>>
          /\ nextPid' \in {nextPid, nextPid + 1}
    BY <1>3 DEF ThreadLock, ThreadPid, ThreadNextPid, NextPid, Goto, histVars, ThreadSteps
  <2>2. pc'[t] = label /\ label \in Labels \ {"pool"} /\ label # "idle"
    BY <2>1 DEF TaskInv, TypeInv, Labels, ThreadSteps
  <2>3. Stage(t, task[i])'
    BY <1>2, <2>1, <2>2 DEF Stage, ThreadSteps
  <2>4. Advances(t, i, label)
    BY <1>0, <1>1, <2>1, <2>2, <2>3 DEF Advances
  <2>5. GoodPCB(i, label)
    BY <1>0, <1>2, <2>1 DEF GoodPCB
  <2> QED BY <2>2, <2>4, <2>5, CreationStep
<1>4. CASE ThreadPCB(t)
  <2>1. CASE Got(1)
    <3>1. /\ pc' = [pc EXCEPT ![t] = "t_pid"]
          /\ task' = [task EXCEPT ![i].pcb = 1, ![i].kind = "thread"]
          /\ free' = free - Taken(1)
          /\ failures' = failures
          /\ UNCHANGED <<cpu, child, nextPid, panic, waited>>
      BY <1>1, <1>4, <2>1 DEF ThreadPCB, GetKernelPages, Goto
    <3>2. free' \in Nat
      BY <1>0, <2>1, <3>1 DEF Taken, Got
    <3>3. /\ task' \in [Ids -> PCB]
          /\ \A j \in Ids : j # i => task'[j] = task[j]
          /\ task'[i].ready = task[i].ready /\ task'[i].started = task[i].started
          /\ task'[i].kind = "thread" /\ task'[i].pid = task[i].pid
      BY <1>0, <1>2, <3>1 DEF PCB
    <3>4. pc'[t] = "t_pid" /\ "t_pid" \in Labels \ {"pool"}
      BY <3>1 DEF TaskInv, TypeInv, Labels, ThreadSteps
    <3>5. Stage(t, task[i])'
      BY <1>2, <3>3, <3>4 DEF Stage
    <3>6. Advances(t, i, "t_pid")
      BY <1>0, <1>1, <3>1, <3>2, <3>3, <3>4, <3>5 DEF Advances
    <3>7. GoodPCB(i, "t_pid")
      BY <1>0, <1>2, <3>1, <3>3 DEF GoodPCB
    <3> QED BY <3>4, <3>6, <3>7, CreationStep
  <2>2. CASE ~Got(1)
    <3>1. Stop("no PCB")
      BY <1>4, <2>2 DEF ThreadPCB
    <3> QED BY <3>1, StopStep
  <2> QED BY <2>1, <2>2
<1>5. CASE ThreadInit(t)
  <2>1. /\ pc' = [pc EXCEPT ![t] = "idle"]
        /\ child' = [child EXCEPT ![t] = NoTask]
        /\ task' = [task EXCEPT ![i].pid = nextPid, ![i].ready = TRUE, ![i].started = TRUE]
        /\ UNCHANGED <<cpu, free, nextPid, panic, waited, failures>>
        /\ task[i].kind = "thread"
    BY <1>1, <1>2, <1>5 DEF ThreadInit, Done, Goto, histVars
  <2>2. /\ task' \in [Ids -> PCB]
        /\ \A j \in Ids : j # i => task'[j] = task[j]
        /\ task'[i].ready /\ task'[i].started
        /\ task'[i].kind = "thread" /\ task'[i].pid = nextPid
    BY <1>0, <1>2, <2>1 DEF PCB
  <2>3. Advances(t, i, "idle") /\ "idle" \in Labels \ {"pool"}
    BY <1>0, <1>1, <2>1, <2>2 DEF Advances, Labels, NoChild
  <2>4. GoodPCB(i, "idle")
    BY <1>0, <2>1, <2>2 DEF GoodPCB
  <2> QED BY <2>3, <2>4, CreationStep
<1> QED BY <1>3, <1>4, <1>5

(* One allocation that was possible puts the new PCB in place.             *)
LEMMA AllocGot ==
  ASSUME TasksAssumption, TaskInv, NEW t \in Ids, pc[t] \notin NoChild,
         NEW n \in Nat, Got(n), NEW new \in PCB, NEW label, Alloc(t, n, new, label)
  PROVE  /\ pc' = [pc EXCEPT ![t] = label] /\ pc'[t] = label
         /\ task' \in [Ids -> PCB] /\ task'[child[t]] = new
         /\ \A j \in Ids : j # child[t] => task'[j] = task[j]
         /\ free' \in Nat /\ failures' = failures
         /\ UNCHANGED <<cpu, child, nextPid, panic, waited>>
<1>1. /\ pc' = [pc EXCEPT ![t] = label]
      /\ task' = [task EXCEPT ![child[t]] = new]
      /\ free' = free - n /\ n <= free /\ failures' = failures
      /\ UNCHANGED <<cpu, child, nextPid, panic, waited>>
  BY DEF Alloc, GetKernelPages, Taken, Got, Goto
<1>2. /\ child[t] \in Ids /\ task \in [Ids -> PCB] /\ pc \in [Ids -> Labels] /\ free \in Nat
  BY ChildFacts DEF TaskInv, TypeInv
<1> QED BY <1>1, <1>2

(* Process_Create.                                                         *)
LEMMA ProcessCreateStep ==
  ASSUME TasksAssumption, TaskInv, NEW t \in Ids, Running(t),
         ProcessPCB(t) \/ ProcessPid(t) \/ ProcessDir(t) \/ ProcessMap(t)
  PROVE  TaskInv'
<1>0. /\ cpu = t /\ panic = "none" /\ pc[t] \in {"p_pcb", "p_pid", "p_dir", "p_map"}
      /\ pc[t] \notin NoChild /\ pc \in [Ids -> Labels]
      /\ task \in [Ids -> PCB] /\ free \in Nat /\ nextPid \in Nat /\ failures \in Nat
      /\ {"p_pcb", "p_pid", "p_dir", "p_map", "idle"} \subseteq Labels \ {"pool"}
  BY DEF Running, ProcessPCB, ProcessPid, ProcessDir, ProcessMap, NoChild, TaskInv, TypeInv,
         Labels, IntrOff
<1>1. PICK i \in New : i = child[t]
  BY <1>0, ChildFacts
<1>2. /\ i \in Ids /\ task[i] \in PCB /\ task[i].pid \in Nat /\ task[i].pid <= nextPid
      /\ Stage(t, task[i])
      /\ task[i].started => task[i].ready
      /\ task[i].kind = "proc" /\ task[i].ready => task[i].pid # 0
  BY <1>0, <1>1, ChildFacts
<1>3. CASE ProcessPCB(t)
  <2>1. CASE Got(1)
    <3>1. PICK n \in NameLens :
            Alloc(t, 1, [NoPCB EXCEPT !.kind = "proc", !.pcb = 1, !.name = n], "p_pid")
      BY <1>3, <2>1 DEF ProcessPCB
    <3> DEFINE new == [NoPCB EXCEPT !.kind = "proc", !.pcb = 1, !.name = n]
    <3>2. new \in PCB /\ new.kind = "proc" /\ ~new.ready /\ ~new.started /\ new.pid = 0
      BY <3>1, TasksAssumption DEF NoPCB, PCB, TasksAssumption
    <3> HIDE DEF new
    <3>3. /\ pc' = [pc EXCEPT ![t] = "p_pid"] /\ pc'[t] = "p_pid"
          /\ task' \in [Ids -> PCB] /\ task'[i] = new
          /\ \A j \in Ids : j # i => task'[j] = task[j]
          /\ free' \in Nat /\ failures' = failures
          /\ UNCHANGED <<cpu, child, nextPid, panic, waited>>
      BY <1>0, <1>1, <2>1, <3>1, <3>2, AllocGot DEF new
    <3>4. ~task[i].ready /\ pc[t] = "p_pcb"
      BY <1>2, <1>3 DEF ProcessPCB, Stage, NoChild
    <3>5. Stage(t, task[i])'
      BY <3>2, <3>3 DEF Stage
    <3>6. Advances(t, i, "p_pid")
      BY <1>0, <1>1, <3>3, <3>5 DEF Advances
    <3>7. GoodPCB(i, "p_pid")
      BY <1>0, <1>2, <3>2, <3>3, <3>4 DEF GoodPCB
    <3> QED BY <1>0, <3>6, <3>7, CreationStep
  <2>2. CASE ~Got(1)
    <3>1. Stop("no PCB")
      BY <1>3, <2>2 DEF ProcessPCB
    <3> QED BY <3>1, StopStep
  <2> QED BY <2>1, <2>2
<1>4. CASE ProcessPid(t)
  <2>1. /\ pc' = [pc EXCEPT ![t] = "p_dir"]
        /\ nextPid' = nextPid + 1
        /\ task' = [task EXCEPT ![i].pid = nextPid', ![i].ready = TRUE]
        /\ UNCHANGED <<cpu, child, free, panic, waited, failures>>
        /\ pc[t] = "p_pid"
    BY <1>1, <1>4 DEF ProcessPid, NextPid, Goto, histVars
  <2>2. task[i].kind = "proc" /\ ~task[i].ready /\ ~task[i].started
    BY <1>2, <2>1 DEF Stage, NoChild
  <2>3. /\ task' \in [Ids -> PCB]
        /\ \A j \in Ids : j # i => task'[j] = task[j]
        /\ task'[i].ready /\ task'[i].started = task[i].started
        /\ task'[i].kind = task[i].kind /\ task'[i].pid = nextPid + 1
    <3>1. PICK p \in Nat : p = nextPid + 1
      BY <1>0
    <3>2. task' = [task EXCEPT ![i].pid = p, ![i].ready = TRUE]
      BY <2>1, <3>1
    <3> DEFINE new == [task[i] EXCEPT !.pid = p, !.ready = TRUE]
    <3>3. /\ new \in PCB /\ new.pid = p /\ new.ready
          /\ new.started = task[i].started /\ new.kind = task[i].kind
      BY <1>2 DEF PCB
    <3>4. task' = [task EXCEPT ![i] = new]
      BY <1>0, <1>2, <3>2
    <3> HIDE DEF new
    <3> QED BY <1>0, <1>2, <3>1, <3>3, <3>4
  <2>4. pc'[t] = "p_dir"
    BY <1>0, <2>1
  <2>5. Stage(t, task[i])'
    BY <1>0, <2>1, <2>2, <2>3, <2>4 DEF Stage
  <2>6. Advances(t, i, "p_dir")
    BY <1>0, <1>1, <2>1, <2>3, <2>5 DEF Advances
  <2>7. GoodPCB(i, "p_dir")
    BY <1>0, <1>2, <2>1, <2>2, <2>3 DEF GoodPCB
  <2> QED BY <1>0, <2>6, <2>7, CreationStep
<1>5. CASE ProcessDir(t)
  <2>0. pc[t] = "p_dir" /\ Alloc(t, 1, [task[i] EXCEPT !.dir = 1], "p_map")
    BY <1>1, <1>5 DEF ProcessDir
  <2>1. task[i].kind = "proc" /\ task[i].ready /\ task[i].pid # 0
    BY <1>2, <2>0 DEF Stage
  <2>2. /\ pc' = [pc EXCEPT ![t] = "p_map"] /\ pc'[t] = "p_map"
        /\ task' \in [Ids -> PCB]
        /\ \A j \in Ids : j # i => task'[j] = task[j]
        /\ task'[i].kind = task[i].kind /\ task'[i].ready = task[i].ready
        /\ task'[i].started = task[i].started /\ task'[i].pid = task[i].pid
        /\ task'[i].dir # 0 \/ failures' > 0
        /\ free' \in Nat /\ failures' \in Nat /\ failures' >= failures
        /\ UNCHANGED <<cpu, child, nextPid, panic, waited>>
    <3>1. CASE Got(1)
      <4> DEFINE new == [task[i] EXCEPT !.dir = 1]
      <4>1. /\ new \in PCB /\ new.dir = 1 /\ new.kind = task[i].kind /\ new.ready = task[i].ready
            /\ new.started = task[i].started /\ new.pid = task[i].pid
        BY <1>2 DEF PCB
      <4> HIDE DEF new
      <4>2. Alloc(t, 1, new, "p_map")
        BY <2>0 DEF new
      <4> QED BY <1>0, <1>1, <3>1, <4>1, <4>2, AllocGot
    <3>2. CASE ~Got(1)
      <4>1. /\ pc' = [pc EXCEPT ![t] = "p_map"] /\ task' = task
            /\ free' = 0 /\ failures' = failures + 1
            /\ UNCHANGED <<cpu, child, nextPid, panic, waited>>
        BY <1>0, <2>0, <3>2 DEF Alloc, GetKernelPages, Taken, Got, Goto
      <4> QED BY <1>0, <4>1
    <3> QED BY <3>1, <3>2
  <2>3. Stage(t, task[i])'
    BY <1>0, <2>1, <2>2 DEF Stage
  <2>4. Advances(t, i, "p_map")
    BY <1>0, <1>1, <2>2, <2>3 DEF Advances
  <2>5. HasDir(i)' /\ nextPid' = nextPid
    BY <2>2 DEF HasDir
  <2>6. GoodPCB(i, "p_map")
    BY <1>0, <1>2, <2>1, <2>2, <2>5 DEF GoodPCB
  <2> QED BY <1>0, <2>4, <2>6, CreationStep
<1>6. CASE ProcessMap(t)
  <2>0. pc[t] = "p_map" /\ task[i].kind = "proc" /\ task[i].ready /\ task[i].pid # 0
    BY <1>2, <1>6 DEF ProcessMap, Stage
  <2>1. CASE Got(MapPages)
    <3>1. /\ pc' = [pc EXCEPT ![t] = "idle"]
          /\ child' = [child EXCEPT ![t] = NoTask]
          /\ task' = [task EXCEPT ![i].map = MapPages, ![i].len = MapPages]
          /\ free' = free - MapPages /\ MapPages <= free /\ failures' = failures
          /\ UNCHANGED <<cpu, nextPid, panic, waited>>
      BY <1>1, <1>6, <2>1 DEF ProcessMap, Done, GetKernelPages, Taken, Got, Goto
    <3>2. MapPages \in Nat \ {0} /\ free' \in Nat
      BY <1>0, <3>1, TasksAssumption DEF TasksAssumption
    <3>3. /\ task' \in [Ids -> PCB]
          /\ \A j \in Ids : j # i => task'[j] = task[j]
          /\ task'[i].kind = task[i].kind /\ task'[i].ready = task[i].ready
          /\ task'[i].started = task[i].started /\ task'[i].pid = task[i].pid
          /\ task'[i].dir = task[i].dir /\ task'[i].len = MapPages
      BY <1>0, <1>2, <3>1, <3>2 DEF PCB
    <3>4. Advances(t, i, "idle")
      BY <1>0, <1>1, <3>1, <3>2, <3>3 DEF Advances
    <3>5. task[i].started \/ HasDir(i)
      <4>1. \A u \in Ids : child[u] = i => u = t
        BY <1>0, <1>1, <1>2, TasksAssumption DEF TaskInv, OwnChild, TasksAssumption
      <4> QED BY <1>2, <2>0, <4>1 DEF TaskInv, WholeOrNot
    <3>6. HasDir(i) => HasDir(i)'
      BY <3>1, <3>3 DEF HasDir
    <3>7. GoodPCB(i, "idle")
      BY <1>0, <1>2, <2>0, <3>1, <3>2, <3>3, <3>5, <3>6 DEF GoodPCB
    <3> QED BY <1>0, <3>4, <3>7, CreationStep
  <2>2. CASE ~Got(MapPages)
    <3>1. Stop("no bitmap")
      BY <1>6, <2>2 DEF ProcessMap
    <3> QED BY <3>1, StopStep
  <2> QED BY <2>1, <2>2
<1> QED BY <1>3, <1>4, <1>5, <1>6

(* sys_fork.                                                               *)
ForkSteps == {"f_pcb", "f_buf", "f_pid", "f_map", "f_dir", "f_pages"}

(* A creation step of sys_fork, as far as numbers and stages go.           *)
LEMMA ForkAdvance ==
  ASSUME TasksAssumption, TaskInv, NEW t \in Ids, NEW i \in New, i = child[t],
         cpu = t, panic = "none", pc[t] \in ForkSteps,
         NEW label \in ForkSteps, pc' = [pc EXCEPT ![t] = label],
         task' \in [Ids -> PCB], \A j \in Ids : j # i => task'[j] = task[j],
         ~task'[i].ready, ~task'[i].started, task'[i].kind = "proc",
         \/ task'[i].pid = 0 /\ nextPid' = nextPid /\ label \notin {"f_map", "f_dir", "f_pages"}
         \/ task'[i].pid = nextPid + 1 /\ nextPid' = nextPid + 1
         \/ /\ task'[i].pid = task[i].pid /\ nextPid' = nextPid /\ task[i].kind = "proc"
            /\ task[i].pid # 0 \/ label \notin {"f_map", "f_dir", "f_pages"},
         free' \in Nat, failures' = failures,
         UNCHANGED <<cpu, child, panic, waited>>
  PROVE  TaskInv'
<1>0. /\ pc \in [Ids -> Labels] /\ nextPid \in Nat /\ failures \in Nat
      /\ ForkSteps \subseteq Labels \ NoChild /\ "idle" \notin ForkSteps /\ "pool" \notin ForkSteps
      /\ ForkSteps \cap ({"p_pid", "p_dir", "p_map"} \cup ThreadSteps) = {}
  BY DEF TaskInv, TypeInv, ForkSteps, Labels, IntrOff, NoChild, ThreadSteps
<1>1. /\ ~task[i].ready /\ ~task[i].started
      /\ task[i].pid \in Nat /\ task[i].pid <= nextPid
  BY <1>0, ChildFacts DEF Stage
<1>2. pc'[t] = label
  BY <1>0
<1>3. Stage(t, task[i])'
  BY <1>0, <1>1, <1>2 DEF Stage, ThreadSteps
<1>4. Advances(t, i, label)
  BY <1>0, <1>3 DEF Advances
<1>5. GoodPCB(i, label)
  BY <1>0, <1>1 DEF GoodPCB
<1> QED BY <1>0, <1>4, <1>5, CreationStep

(* sys_fork gives up: the PCB is free again, what was allocated is not.    *)
LEMMA ForkFails ==
  ASSUME TasksAssumption, TaskInv, NEW t \in Ids, cpu = t, panic = "none",
         pc[t] \in ForkSteps, GetKernelPages(1), ~Got(1), Fail(t)
  PROVE  TaskInv'
<1>0. /\ pc[t] \notin NoChild /\ "idle" \in Labels \ {"pool"} /\ free \in Nat /\ failures \in Nat
      /\ nextPid \in Nat /\ task \in [Ids -> PCB]
  BY DEF ForkSteps, NoChild, Labels, TaskInv, TypeInv
<1>1. PICK i \in New : i = child[t]
  BY <1>0, ChildFacts
<1>2. i \in Ids /\ ~task[i].ready /\ ~task[i].started
  BY <1>0, <1>1, ChildFacts DEF Stage, ForkSteps
<1>3. /\ pc' = [pc EXCEPT ![t] = "idle"]
      /\ child' = [child EXCEPT ![t] = NoTask]
      /\ task' = [task EXCEPT ![i] = NoPCB]
      /\ free' = 0 /\ failures' = failures + 1
      /\ UNCHANGED <<cpu, nextPid, panic, waited>>
  BY <1>0, <1>1 DEF Fail, Done, Goto, GetKernelPages, Taken
<1>4. NoPCB \in PCB /\ NoPCB.kind = "none" /\ ~NoPCB.ready /\ ~NoPCB.started /\ NoPCB.pid = 0
  BY DEF NoPCB, PCB
<1>5. /\ task' \in [Ids -> PCB] /\ task'[i] = NoPCB
      /\ \A j \in Ids : j # i => task'[j] = task[j]
  BY <1>0, <1>2, <1>3, <1>4
<1>6. Advances(t, i, "idle")
  BY <1>0, <1>1, <1>3, <1>5 DEF Advances
<1>7. GoodPCB(i, "idle")
  BY <1>0, <1>2, <1>3, <1>4, <1>5 DEF GoodPCB
<1> QED BY <1>0, <1>6, <1>7, CreationStep

(* Each step of sys_fork.                                                  *)
LEMMA ForkStep ==
  ASSUME TasksAssumption, TaskInv, NEW t \in Ids, Running(t),
         \/ ForkPCB(t) \/ ForkBuf(t) \/ ForkPid(t) \/ ForkMap(t) \/ ForkDir(t) \/ ForkEnd(t)
  PROVE  TaskInv'
<1>0. /\ cpu = t /\ panic = "none" /\ pc[t] \in ForkSteps
      /\ pc[t] \notin NoChild /\ pc \in [Ids -> Labels]
      /\ task \in [Ids -> PCB] /\ free \in Nat /\ nextPid \in Nat /\ failures \in Nat
  BY DEF Running, ForkPCB, ForkBuf, ForkPid, ForkMap, ForkDir, ForkEnd, ForkSteps, NoChild,
         TaskInv, TypeInv
<1>1. PICK i \in New : i = child[t]
  BY <1>0, ChildFacts
<1>2. /\ i \in Ids /\ task[i] \in PCB /\ task[i].pid \in Nat /\ task[i].pid <= nextPid
      /\ task[t] \in PCB /\ task[t].name \in Nat /\ task[t].len \in Nat
      /\ Stage(t, task[i])
      /\ ~task[i].ready /\ ~task[i].started
      /\ pc[t] # "f_pcb" => task[i].kind = "proc"
      /\ pc[t] \in {"f_map", "f_dir", "f_pages"} => task[i].pid # 0
  BY <1>0, <1>1, ChildFacts DEF Stage, ForkSteps, NoChild, PCB
<1>3. CASE ForkPCB(t)
  <2>1. CASE Got(1) /\ task[t].dir = 0
    <3>1. Stop("fork.c:159")
      BY <1>3, <2>1 DEF ForkPCB
    <3> QED BY <3>1, StopStep
  <2>2. CASE Got(1) /\ task[t].dir # 0
    <3> DEFINE new == [NoPCB EXCEPT !.kind = "proc", !.pcb = 1]
    <3>1. Alloc(t, 1, new, "f_buf")
      BY <1>3, <2>2 DEF ForkPCB
    <3>2. new \in PCB /\ new.kind = "proc" /\ ~new.ready /\ ~new.started /\ new.pid = 0
      BY DEF NoPCB, PCB
    <3> HIDE DEF new
    <3>3. /\ pc' = [pc EXCEPT ![t] = "f_buf"]
          /\ task' \in [Ids -> PCB] /\ task'[i] = new
          /\ \A j \in Ids : j # i => task'[j] = task[j]
          /\ free' \in Nat /\ failures' = failures
          /\ UNCHANGED <<cpu, child, nextPid, panic, waited>>
      BY <1>0, <1>1, <2>2, <3>1, <3>2, AllocGot
    <3>4. "f_buf" \in ForkSteps /\ "f_buf" \notin {"f_map", "f_dir", "f_pages"}
      BY DEF ForkSteps
    <3> QED BY <1>0, <1>1, <3>2, <3>3, <3>4, ForkAdvance
  <2>3. CASE ~Got(1)
    BY <1>0, <1>3, <2>3, ForkFails DEF ForkPCB
  <2> QED BY <2>1, <2>2, <2>3
<1>4. ASSUME NEW n \in Nat, Got(n), NEW new \in PCB, NEW label \in ForkSteps,
             Alloc(t, n, new, label), pc[t] # "f_pcb",
             new.kind = task[i].kind, new.pid = task[i].pid, ~new.ready, ~new.started,
             label \in {"f_map", "f_dir", "f_pages"} => task[i].pid # 0
      PROVE  TaskInv'
  <2>1. /\ pc' = [pc EXCEPT ![t] = label]
        /\ task' \in [Ids -> PCB] /\ task'[i] = new
        /\ \A j \in Ids : j # i => task'[j] = task[j]
        /\ free' \in Nat /\ failures' = failures
        /\ UNCHANGED <<cpu, child, nextPid, panic, waited>>
    BY <1>0, <1>1, <1>4, AllocGot
  <2> QED BY <1>0, <1>1, <1>2, <1>4, <2>1, ForkAdvance
<1>5. CASE ForkBuf(t)
  <2>1. CASE Got(1)
    <3> DEFINE new == [task[i] EXCEPT !.buf = 1]
    <3>1. Alloc(t, 1, new, "f_pid") /\ pc[t] = "f_buf"
      BY <1>1, <1>5, <2>1 DEF ForkBuf
    <3>2. /\ new \in PCB /\ new.kind = task[i].kind /\ new.pid = task[i].pid
          /\ new.ready = task[i].ready /\ new.started = task[i].started
      BY <1>2 DEF PCB
    <3> HIDE DEF new
    <3> QED BY <1>2, <1>4, <2>1, <3>1, <3>2 DEF ForkSteps
  <2>2. CASE ~Got(1)
    BY <1>0, <1>5, <2>2, ForkFails DEF ForkBuf
  <2> QED BY <2>1, <2>2
<1>6. CASE ForkPid(t)
  <2>1. /\ pc' = [pc EXCEPT ![t] = "f_map"]
        /\ nextPid' = nextPid + 1
        /\ task' = [task EXCEPT ![i].pid = nextPid', ![i].len = task[t].len,
                                ![i].name = task[t].name]
        /\ UNCHANGED <<cpu, child, free, panic, waited, failures>>
        /\ pc[t] = "f_pid"
    BY <1>1, <1>6 DEF ForkPid, NextPid, Goto, histVars
  <2>2. /\ task' \in [Ids -> PCB]
        /\ \A j \in Ids : j # i => task'[j] = task[j]
        /\ task'[i].ready = task[i].ready /\ task'[i].started = task[i].started
        /\ task'[i].kind = task[i].kind /\ task'[i].pid = nextPid + 1
    <3>1. PICK p \in Nat, l \in Nat, n \in Nat :
            p = nextPid + 1 /\ l = task[t].len /\ n = task[t].name
      BY <1>0, <1>2
    <3>2. task' = [task EXCEPT ![i].pid = p, ![i].len = l, ![i].name = n]
      BY <2>1, <3>1
    <3> DEFINE new == [task[i] EXCEPT !.pid = p, !.len = l, !.name = n]
    <3>3. /\ new \in PCB /\ new.pid = p /\ new.ready = task[i].ready
          /\ new.started = task[i].started /\ new.kind = task[i].kind
      BY <1>2 DEF PCB
    <3>4. task' = [task EXCEPT ![i] = new]
      BY <1>0, <1>2, <3>2
    <3> HIDE DEF new
    <3> QED BY <1>0, <1>2, <3>1, <3>3, <3>4
  <2>3. "f_map" \in ForkSteps
    BY DEF ForkSteps
  <2>4. /\ task'[i].pid = nextPid + 1 /\ nextPid' = nextPid + 1
        /\ ~task'[i].ready /\ ~task'[i].started /\ task'[i].kind = "proc"
        /\ free' \in Nat /\ failures' = failures
        /\ UNCHANGED <<cpu, child, panic, waited>>
        /\ pc' = [pc EXCEPT ![t] = "f_map"]
    BY <1>0, <1>2, <2>1, <2>2
  <2> QED BY <1>0, <1>1, <2>2, <2>3, <2>4, ForkAdvance
<1>7. CASE ForkMap(t)
  <2>1. CASE ~Got(CopyPages) \/ task[t].name >= 11
    <3>1. Stop("no bitmap") \/ Stop("fork.c:39")
      BY <1>7, <2>1 DEF ForkMap
    <3> QED BY <3>1, StopStep
  <2>2. CASE Got(CopyPages) /\ ~(task[t].name >= 11)
    <3> DEFINE new == [task[i] EXCEPT !.map = CopyPages, !.name = task[t].name + 5]
    <3>1. Alloc(t, CopyPages, new, "f_dir") /\ pc[t] = "f_map" /\ CopyPages \in Nat
      BY <1>1, <1>7, <2>2, TasksAssumption DEF ForkMap, TasksAssumption
    <3>2. /\ new \in PCB /\ new.kind = task[i].kind /\ new.pid = task[i].pid
          /\ new.ready = task[i].ready /\ new.started = task[i].started
      <4>1. PICK n \in Nat : n = task[t].name + 5
        BY <1>2
      <4>2. new = [task[i] EXCEPT !.map = CopyPages, !.name = n]
        BY <4>1
      <4> HIDE DEF new
      <4> QED BY <1>2, <3>1, <4>2 DEF PCB
    <3> HIDE DEF new
    <3> QED BY <1>2, <1>4, <2>2, <3>1, <3>2 DEF ForkSteps
  <2> QED BY <2>1, <2>2
<1>8. CASE ForkDir(t)
  <2>1. CASE Got(1)
    <3> DEFINE new == [task[i] EXCEPT !.dir = 1]
    <3>1. Alloc(t, 1, new, "f_pages") /\ pc[t] = "f_dir"
      BY <1>1, <1>8, <2>1 DEF ForkDir
    <3>2. /\ new \in PCB /\ new.kind = task[i].kind /\ new.pid = task[i].pid
          /\ new.ready = task[i].ready /\ new.started = task[i].started
      BY <1>2 DEF PCB
    <3> HIDE DEF new
    <3> QED BY <1>2, <1>4, <2>1, <3>1, <3>2 DEF ForkSteps
  <2>2. CASE ~Got(1)
    BY <1>0, <1>8, <2>2, ForkFails DEF ForkDir
  <2> QED BY <2>1, <2>2
<1>9. CASE ForkEnd(t)
  <2>1. /\ pc' = [pc EXCEPT ![t] = "idle"]
        /\ child' = [child EXCEPT ![t] = NoTask]
        /\ free' = free - Taken(1) + 0
        /\ failures' = IF Got(1) THEN failures ELSE failures + 1
        /\ task' = [task EXCEPT ![i].table = Taken(1), ![i].buf = 0,
                                ![i].ready = TRUE, ![i].started = TRUE]
        /\ UNCHANGED <<cpu, nextPid, panic, waited>>
        /\ pc[t] = "f_pages"
    BY <1>1, <1>9 DEF ForkEnd, Done, Goto, CopyUserStack, BufFreed
  <2>2. Taken(1) \in Nat /\ free' \in Nat /\ failures' \in Nat /\ failures' >= failures
    BY <1>0, <2>1 DEF Taken, Got
  <2>3. /\ task' \in [Ids -> PCB]
        /\ \A j \in Ids : j # i => task'[j] = task[j]
        /\ task'[i].ready /\ task'[i].started
        /\ task'[i].kind = task[i].kind /\ task'[i].pid = task[i].pid
    <3>1. PICK g \in Nat : g = Taken(1)
      BY <2>2
    <3> DEFINE new == [task[i] EXCEPT !.table = g, !.buf = 0, !.ready = TRUE, !.started = TRUE]
    <3>2. task' = [task EXCEPT ![i] = new]
      BY <1>0, <1>2, <2>1, <3>1
    <3>3. /\ new \in PCB /\ new.ready /\ new.started
          /\ new.kind = task[i].kind /\ new.pid = task[i].pid
      BY <1>2 DEF PCB
    <3> HIDE DEF new
    <3> QED BY <1>0, <1>2, <3>2, <3>3
  <2>4. Advances(t, i, "idle") /\ "idle" \in Labels \ {"pool"}
    BY <1>0, <1>1, <2>1, <2>2, <2>3 DEF Advances, Labels, NoChild
  <2>5. GoodPCB(i, "idle")
    BY <1>0, <1>2, <2>1, <2>3 DEF GoodPCB
  <2> QED BY <2>4, <2>5, CreationStep
<1> QED BY <1>3, <1>5, <1>6, <1>7, <1>8, <1>9

-----------------------------------------------------------------------------
(* Before the first call only main has a PCB, and nobody is creating.      *)
LEMMA InitTaskInv ==
  ASSUME TasksAssumption, Init
  PROVE  TaskInv
<1>1. /\ cpu = Main /\ Main \in Ids /\ NoTask \notin Ids
      /\ task = [i \in Ids |-> IF i = Main
                               THEN [NoPCB EXCEPT !.kind = "thread", !.pid = 1,
                                                  !.ready = TRUE, !.started = TRUE]
                               ELSE NoPCB]
      /\ pc = [i \in Ids |-> "idle"] /\ child = [i \in Ids |-> NoTask]
      /\ free \in Nat /\ nextPid = 1 /\ failures = 0 /\ panic = "none"
  BY DEF Init, TasksAssumption, Ids
<1> DEFINE first == [NoPCB EXCEPT !.kind = "thread", !.pid = 1, !.ready = TRUE, !.started = TRUE]
<1>2. /\ first \in PCB /\ first.kind = "thread" /\ first.pid = 1 /\ first.ready /\ first.started
      /\ NoPCB \in PCB /\ NoPCB.kind = "none" /\ NoPCB.pid = 0 /\ ~NoPCB.ready /\ ~NoPCB.started
  BY DEF NoPCB, PCB
<1>3. /\ task[Main] = first /\ task \in [Ids -> PCB]
      /\ \A i \in Ids : i # Main => task[i] = NoPCB
  BY <1>1, <1>2
<1> HIDE DEF first
<1>4. TypeInv
  BY <1>1, <1>3 DEF TypeInv, Labels, NoChild
<1>5. OwnChild /\ Stages
  BY <1>1 DEF OwnChild, Stages, NoChild
<1>6. PCBSound /\ ProcPids /\ task[cpu].ready /\ WholeOrNot
  <2>1. \A i \in Ids : task[i] = first \/ task[i] = NoPCB
    BY <1>3
  <2> QED BY <1>1, <1>2, <1>3, <2>1 DEF PCBSound, ProcPids, WholeOrNot
<1> QED BY <1>1, <1>4, <1>5, <1>6 DEF TaskInv, StartsWhole

(* Every step of the creation of tasks keeps the invariant.                *)
LEMMA TaskStepInv ==
  ASSUME TasksAssumption, TaskInv, [Next]_vars
  PROVE  TaskInv'
<1>1. ASSUME NEW t \in Ids, Step(t) PROVE TaskInv'
  <2>0. Running(t)
    BY <1>1 DEF Step
  <2>1. ASSUME NEW i \in New, ThreadCreate(t, i) \/ ProcessCreate(t, i) \/ Fork(t, i)
        PROVE  TaskInv'
    <3>1. PICK label \in {"t_lock", "p_pcb", "f_pcb"} : Begin(t, label, i)
      BY <2>1 DEF ThreadCreate, ProcessCreate, Fork
    <3> QED BY <2>0, <3>1, BeginStep
  <2> QED
    BY <1>1, <2>0, <2>1, ThreadCreateStep, PoolStep, ProcessCreateStep, ForkStep DEF Step
<1>2. CASE UNCHANGED vars
  <2>1. UNCHANGED <<cpu, task, pc, child, free, nextPid, waited, failures, panic>>
    BY <1>2 DEF vars, histVars
  <2>2. TypeInv' /\ OwnChild' /\ PCBSound' /\ ProcPids' /\ task'[cpu'].ready
    BY <2>1 DEF TaskInv, TypeInv, OwnChild, PCBSound, ProcPids
  <2>3. Stages'
    BY <2>1 DEF TaskInv, Stages, Stage
  <2>4. WholeOrNot'
    BY <2>1 DEF TaskInv, WholeOrNot, HasDir
  <2>5. StartsWhole'
    BY <2>1 DEF TaskInv, StartsWhole
  <2> QED BY <2>2, <2>3, <2>4, <2>5 DEF TaskInv
<1> QED BY <1>1, <1>2, StartStep, SwitchTasks DEF Next

(* The invariant of task creation holds in every reachable state.          *)
THEOREM TaskInvariance == Spec => []TaskInv
<1>1. Init => TaskInv
  BY InitTaskInv, TasksAssumption
<1>2. TaskInv /\ [Next]_vars => TaskInv'
  BY TaskStepInv, TasksAssumption
<1> QED BY <1>1, <1>2, PTL DEF Spec

(* Processes never share a number, however their creations and those of    *)
(* threads interleave.                                                     *)
THEOREM PidsUniqueHolds == Spec => []PidsUnique
<1>1. TaskInv => PidsUnique
  <2> SUFFICES ASSUME TaskInv, NEW i \in Ready, NEW j \in Ready, i # j,
                      task[i].pid = task[j].pid,
                      task[i].kind # "thread", task[j].kind # "thread"
               PROVE  FALSE
    BY DEF PidsUnique
  <2>1. i \in Ids /\ j \in Ids /\ task[i].ready /\ task[j].ready
    BY DEF Ready
  <2>2. task[i].kind = "proc" /\ task[j].kind = "proc" /\ task[i].pid # 0
    <3>1. task[i].kind \in {"none", "thread", "proc"} /\ task[j].kind \in {"none", "thread", "proc"}
      BY <2>1 DEF TaskInv, TypeInv, PCB
    <3> QED BY <2>1, <3>1 DEF TaskInv, PCBSound
  <2> QED BY <2>1, <2>2 DEF TaskInv, ProcPids
<1> QED BY <1>1, TaskInvariance, PTL

(* Process_Start finds the page directory and the bitmap, unless the       *)
(* creator waited for the pool's lock or a page was missing.               *)
THEOREM StartsWholeHolds == Spec => []StartsWhole
<1>1. TaskInv => StartsWhole
  BY DEF TaskInv
<1> QED BY <1>1, TaskInvariance, PTL

-----------------------------------------------------------------------------
(* Counting: f[i] pages for each i, numbered from 1.                       *)
Pairs(f) == UNION {{i} \X (1 .. f[i]) : i \in Ids}

LEMMA PairsFinite ==
  ASSUME TasksAssumption, NEW f \in [Ids -> Nat]
  PROVE  IsFiniteSet(Pairs(f))
<1> DEFINE g == [i \in Ids |-> {i} \X (1 .. f[i])]
           T == {g[i] : i \in Ids}
<1>1. IsFiniteSet(Ids)
  BY FS_AddElement DEF TasksAssumption, Ids
<1>2. g \in Surjection(Ids, T)
  <2>1. g \in [Ids -> T]
    OBVIOUS
  <2>2. \A S \in T : \E i \in Ids : g[i] = S
    OBVIOUS
  <2> QED BY <2>1, <2>2 DEF Surjection
<1>3. IsFiniteSet(T)
  <2> HIDE DEF g, T
  <2> QED BY <1>1, <1>2, FS_Surjection
<1>4. ASSUME NEW S \in T PROVE IsFiniteSet(S)
  <2>1. PICK i \in Ids : S = {i} \X (1 .. f[i])
    BY <1>4
  <2>2. 1 \in Int /\ f[i] \in Int
    OBVIOUS
  <2>3. IsFiniteSet({i}) /\ IsFiniteSet(1 .. f[i])
    <3> HIDE DEF g, T
    <3> QED BY <2>2, FS_Singleton, FS_Interval
  <2> QED BY <2>1, <2>3, FS_Product
<1>5. IsFiniteSet(UNION T)
  BY <1>3, <1>4, FS_UNION
<1>6. UNION T = Pairs(f)
  BY DEF Pairs
<1> QED BY <1>5, <1>6

LEMMA PairsChange ==
  ASSUME TasksAssumption, NEW f \in [Ids -> Nat], NEW g \in [Ids -> Nat], NEW i \in Ids,
         \A j \in Ids : j # i => g[j] = f[j]
  PROVE  /\ Cardinality(Pairs(f)) \in Nat /\ Cardinality(Pairs(g)) \in Nat
         /\ Cardinality(Pairs(g)) = Cardinality(Pairs(f)) - f[i] + g[i]
<1> DEFINE Others == {x \in Pairs(f) : x[1] # i}
<1>1. IsFiniteSet(Pairs(f)) /\ IsFiniteSet(Pairs(g))
  BY PairsFinite
<1>2. IsFiniteSet(Others)
  BY <1>1, FS_Subset
<1>3. ASSUME NEW h \in [Ids -> Nat], \A j \in Ids : j # i => h[j] = f[j],
             IsFiniteSet(Pairs(h))
      PROVE  /\ Cardinality(Pairs(h)) = Cardinality(Others) + h[i]
             /\ Cardinality(Pairs(h)) \in Nat
  <2> DEFINE Own == {i} \X (1 .. h[i])
  <2>1. Pairs(h) = Others \cup Own
    <3>1. \A x : x \in Pairs(h) <=> \E j \in Ids : x \in {j} \X (1 .. h[j])
      BY DEF Pairs
    <3>2. \A x : x \in Pairs(f) <=> \E j \in Ids : x \in {j} \X (1 .. f[j])
      BY DEF Pairs
    <3>3. ASSUME NEW x \in Pairs(h) PROVE x \in Others \cup Own
      <4>1. PICK j \in Ids : x \in {j} \X (1 .. h[j])
        BY <3>1
      <4>2. x[1] = j
        BY <4>1
      <4> QED BY <1>3, <3>2, <4>1, <4>2
    <3>4. ASSUME NEW x \in Others PROVE x \in Pairs(h)
      <4>1. PICK j \in Ids : x \in {j} \X (1 .. f[j])
        BY <3>2
      <4>2. x[1] = j /\ x[1] # i
        BY <4>1
      <4> QED BY <1>3, <3>1, <4>1, <4>2
    <3>5. Own \subseteq Pairs(h)
      BY <3>1
    <3> QED BY <3>3, <3>4, <3>5
  <2>2. Others \cap Own = {}
    OBVIOUS
  <2>3. IsFiniteSet({i}) /\ Cardinality({i}) = 1
    BY FS_Singleton
  <2>4. IsFiniteSet(1 .. h[i]) /\ Cardinality(1 .. h[i]) = h[i]
    <3>1. h[i] \in Nat /\ 1 \in Int /\ h[i] \in Int
      BY <1>3
    <3>2. /\ IsFiniteSet(1 .. h[i])
          /\ Cardinality(1 .. h[i]) = IF 1 > h[i] THEN 0 ELSE h[i] - 1 + 1
      BY <3>1, FS_Interval
    <3> QED BY <3>1, <3>2
  <2>5. IsFiniteSet(Own) /\ Cardinality(Own) = 1 * h[i]
    BY <2>3, <2>4, FS_Product, ZenonT(30)
  <2>6. Cardinality(Others \cup Own)
          = Cardinality(Others) + Cardinality(Own) - Cardinality(Others \cap Own)
    BY <1>2, <2>5, FS_Union
  <2>7. Cardinality(Others \cap Own) = 0
    BY <2>2, FS_EmptySet
  <2>8. Cardinality(Others) \in Nat
    BY <1>2, FS_CardinalityType
  <2>9. h[i] \in Nat
    BY <1>3
  <2> HIDE DEF Own, Others
  <2> QED BY <2>1, <2>5, <2>6, <2>7, <2>8, <2>9
<1>4. Cardinality(Pairs(f)) = Cardinality(Others) + f[i] /\ Cardinality(Pairs(f)) \in Nat
  BY <1>1, <1>3
<1>5. Cardinality(Pairs(g)) = Cardinality(Others) + g[i] /\ Cardinality(Pairs(g)) \in Nat
  BY <1>1, <1>3
<1>6. Cardinality(Others) \in Nat
  BY <1>2, FS_CardinalityType
<1> HIDE DEF Others
<1> QED BY <1>4, <1>5, <1>6

(* The pages of the PCBs, after a step that changes one of them.           *)
PCBSize(p) == p.pcb + p.dir + p.map + p.table + p.buf

LEMMA PCBSizeNat == ASSUME NEW p \in PCB PROVE PCBSize(p) \in Nat
<1>1. p.pcb \in Nat /\ p.dir \in Nat /\ p.map \in Nat /\ p.table \in Nat /\ p.buf \in Nat
  BY DEF PCB
<1> QED BY <1>1 DEF PCBSize

LEMMA AccountedChange ==
  ASSUME TasksAssumption, NEW i \in Ids, task \in [Ids -> PCB], task' \in [Ids -> PCB],
         \A j \in Ids : j # i => task'[j] = task[j]
  PROVE  /\ Cardinality(Accounted) \in Nat
         /\ Cardinality(Accounted') = Cardinality(Accounted) - PCBSize(task[i]) + PCBSize(task'[i])
<1> DEFINE f == [j \in Ids |-> PCBSize(task[j])]
           g == [j \in Ids |-> PCBSize(task'[j])]
<1>1. f \in [Ids -> Nat] /\ g \in [Ids -> Nat]
  BY PCBSizeNat
<1>2. f[i] = PCBSize(task[i]) /\ g[i] = PCBSize(task'[i])
  OBVIOUS
<1>3. \A j \in Ids : j # i => g[j] = f[j]
  OBVIOUS
<1>4. Accounted = Pairs(f) /\ Accounted' = Pairs(g)
  BY DEF Accounted, Pairs, Owned, PCBSize
<1> HIDE DEF f, g
<1> QED BY <1>1, <1>2, <1>3, <1>4, PairsChange

-----------------------------------------------------------------------------
(* The pages.  A step leaves a forks' buffers and k other pages behind,    *)
(* k only if an allocation has failed.                                     *)
Leaves(a, b, k) ==
  /\ a \in {0, 1} /\ b \in {0, 1} /\ k \in 0 .. 2 + MapPages + CopyPages
  /\ b = 0 => k = 0
  /\ forks' = forks + a /\ failures' = failures + b /\ total' = total

LEMMA Reaches ==
  ASSUME TasksAssumption, TaskInv, PagesInv, NEW a, NEW b, NEW k, Leaves(a, b, k),
         Lost \in Int, Lost' = Lost + a + k
  PROVE  PagesReachable'
<1>1. PICK C \in Nat : C = 2 + MapPages + CopyPages
  BY DEF TasksAssumption
<1>2. PICK x \in Int : x = Lost
  OBVIOUS
<1>3. PICK y \in Int : y = Lost' /\ y = x + a + k
  BY <1>1, <1>2 DEF Leaves
<1>4. PICK f \in Nat, n \in Nat : f = forks /\ n = failures
  BY DEF PagesInv, TaskInv, TypeInv
<1>5. x >= f /\ (n = 0 => x = f) /\ x <= f + n * C
  BY <1>1, <1>2, <1>4 DEF PagesInv, PagesReachable
<1>6. forks' = f + a /\ failures' = n + b
  BY <1>4 DEF Leaves
<1>7. y >= f + a /\ (n + b = 0 => y = f + a)
  BY <1>1, <1>3, <1>5 DEF Leaves
<1>8. y <= (f + a) + (n + b) * C
  <2>1. CASE b = 0
    BY <1>1, <1>3, <1>5, <2>1 DEF Leaves
  <2>2. CASE b = 1
    <3>1. (n + 1) * C = n * C + C
      BY <1>1, <1>4
    <3>2. k <= C /\ k \in Nat /\ a \in Nat /\ n * C \in Nat
      BY <1>1 DEF Leaves
    <3> QED BY <1>3, <1>4, <1>5, <2>2, <3>1, <3>2
  <2> QED BY <2>1, <2>2 DEF Leaves
<1> QED BY <1>1, <1>3, <1>6, <1>7, <1>8 DEF PagesReachable

LEMMA Books ==
  ASSUME TasksAssumption, TaskInv, PagesInv, NEW i \in Ids, task' \in [Ids -> PCB],
         \A j \in Ids : j # i => task'[j] = task[j],
         NEW a, NEW b, NEW k, Leaves(a, b, k), free' \in Nat,
         free - free' = PCBSize(task'[i]) - PCBSize(task[i]) + a + k
  PROVE  PagesReachable'
<1>1. task \in [Ids -> PCB] /\ free \in Nat /\ total \in Nat
  BY DEF TaskInv, TypeInv, PagesInv
<1>2. PCBSize(task[i]) \in Nat /\ PCBSize(task'[i]) \in Nat
  BY <1>1, PCBSizeNat
<1>3. /\ Cardinality(Accounted) \in Nat
      /\ Cardinality(Accounted') = Cardinality(Accounted) - PCBSize(task[i]) + PCBSize(task'[i])
  BY <1>1, AccountedChange
<1>4. Lost = (total - free) - Cardinality(Accounted)
  BY DEF Lost
<1>5. Lost' = (total - free') - Cardinality(Accounted')
  BY DEF Lost, Leaves
<1>6. a \in Int /\ k \in Int
  BY DEF Leaves, TasksAssumption
<1>7. Lost \in Int /\ Lost' = Lost + a + k
  BY <1>1, <1>2, <1>3, <1>4, <1>5, <1>6
<1> QED BY <1>7, Reaches

(* A step of a creation, to its next place or to its end.                  *)
LEMMA PagesCreation ==
  ASSUME TasksAssumption, TaskInv, PagesInv, NEW t \in Ids, NEW i \in Ids,
         pc[t] \notin NoChild, i = child[t],
         NEW label, pc' = [pc EXCEPT ![t] = label],
         child' = child \/ (label = "idle" /\ child' = [child EXCEPT ![t] = NoTask]),
         task' \in [Ids -> PCB], \A j \in Ids : j # i => task'[j] = task[j],
         PCBPages(task'[i]), label \notin NoChild => PagesAt(label, task'[i]),
         NEW a, NEW b, NEW k, Leaves(a, b, k), free' \in Nat,
         free - free' = PCBSize(task'[i]) - PCBSize(task[i]) + a + k
  PROVE  PagesInv'
<1>1. PagesReachable'
  BY Books
<1>2. total' \in Nat /\ forks' \in Nat
  BY DEF PagesInv, Leaves
<1>3. pc \in [Ids -> Labels] /\ child \in [Ids -> New \cup {NoTask}] /\ i # NoTask
  BY DEF TaskInv, TypeInv, TasksAssumption
<1>4. ASSUME NEW u \in Ids, pc'[u] \notin NoChild
      PROVE  PagesAt(pc'[u], task'[child'[u]])
  <2>1. CASE u = t
    <3>1. pc'[u] = label /\ label # "idle"
      BY <1>3, <1>4, <2>1 DEF NoChild
    <3> QED BY <1>4, <2>1, <3>1
  <2>2. CASE u # t
    <3>1. pc'[u] = pc[u] /\ child'[u] = child[u]
      BY <1>3, <2>2
    <3>2. child[u] \in Ids /\ child[u] # i
      BY <1>3, <1>4, <2>2, <3>1 DEF TaskInv, OwnChild, Ids
    <3> QED BY <1>4, <3>1, <3>2 DEF PagesInv, Furnished
  <2> QED BY <2>1, <2>2
<1>5. \A j \in Ids : PCBPages(task'[j])
  BY DEF PagesInv, Furnished
<1>6. Furnished'
  BY <1>4, <1>5 DEF Furnished
<1> QED BY <1>1, <1>2, <1>6 DEF PagesInv

(* A step that takes no page and changes no PCB.                           *)
LEMMA PagesSame ==
  ASSUME PagesInv, UNCHANGED <<task, free, total, forks, failures>>,
         \A u \in Ids : pc'[u] \notin NoChild => pc'[u] = pc[u] /\ child'[u] = child[u]
  PROVE  PagesInv'
<1>1. PagesReachable'
  BY DEF PagesInv, PagesReachable, Lost, Accounted, Owned
<1>2. Furnished'
  BY DEF PagesInv, Furnished
<1> QED BY <1>1, <1>2 DEF PagesInv

LEMMA PagesStop ==
  ASSUME PagesInv, NEW where, Stop(where)
  PROVE  PagesInv'
BY PagesSame DEF Stop, histVars

(* What is known of the PCB that a creation works on.                      *)
LEMMA ChildPages ==
  ASSUME TasksAssumption, TaskInv, PagesInv, NEW t \in Ids, pc[t] \notin NoChild
  PROVE  /\ child[t] \in Ids /\ task[child[t]] \in PCB /\ task \in [Ids -> PCB]
         /\ pc \in [Ids -> Labels] /\ free \in Nat /\ failures \in Nat
         /\ Stage(t, task[child[t]])
         /\ PagesAt(pc[t], task[child[t]]) /\ PCBPages(task[child[t]])
<1>1. child[t] \in Ids /\ task[child[t]] \in PCB /\ Stage(t, task[child[t]])
  BY ChildFacts
<1> QED BY <1>1 DEF TaskInv, TypeInv, PagesInv, Furnished

LEMMA PagesBegin ==
  ASSUME TasksAssumption, TaskInv, PagesInv, NEW t \in Ids, NEW i \in New,
         NEW label \in {"t_lock", "p_pcb", "f_pcb"}, Begin(t, label, i)
  PROVE  PagesInv'
<1>1. /\ task[i].kind = "none" /\ UNCHANGED <<task, free, total, forks, failures>>
      /\ pc' = [pc EXCEPT ![t] = label] /\ child' = [child EXCEPT ![t] = i]
      /\ pc \in [Ids -> Labels] /\ child \in [Ids -> New \cup {NoTask}]
  BY DEF Begin, Goto, histVars, TaskInv, TypeInv
<1>2. PagesReachable' /\ total' \in Nat /\ forks' \in Nat
  BY <1>1 DEF PagesInv, PagesReachable, Lost, Accounted, Owned
<1>3. ASSUME NEW u \in Ids, pc'[u] \notin NoChild
      PROVE  PagesAt(pc'[u], task[child'[u]])
  <2>1. CASE u = t
    <3>1. pc'[u] = label /\ child'[u] = i
      BY <1>1, <2>1
    <3> QED BY <1>1, <3>1 DEF PagesAt
  <2>2. CASE u # t
    <3>1. pc'[u] = pc[u] /\ child'[u] = child[u]
      BY <1>1, <2>2
    <3> QED BY <1>3, <3>1 DEF PagesInv, Furnished
  <2> QED BY <2>1, <2>2
<1>4. Furnished'
  BY <1>1, <1>3 DEF PagesInv, Furnished
<1> QED BY <1>2, <1>4 DEF PagesInv

(* Process_Start: the page table, or nothing.                              *)
LEMMA PagesStart ==
  ASSUME TasksAssumption, TaskInv, PagesInv, NEW t \in Ids, Start(t)
  PROVE  PagesInv'
<1>0. /\ task[t].kind = "proc" /\ ~task[t].started /\ task[t].ready
      /\ task \in [Ids -> PCB] /\ free \in Nat /\ failures \in Nat
  BY DEF Start, TaskInv, TypeInv
<1>1. CASE task[t].dir = 0 \/ task[t].len = 0
  <2>1. Stop("GetOnePage Failed!") \/ Stop("bitmap.c:39")
    BY <1>1 DEF Start
  <2> QED BY <2>1, PagesStop
<1>2. CASE task[t].dir # 0 /\ task[t].len # 0
  <2>1. /\ free' = free - Taken(1)
        /\ task' = [task EXCEPT ![t].started = TRUE, ![t].table = Taken(1)]
        /\ failures' = IF Got(1) THEN failures ELSE failures + 1
        /\ UNCHANGED <<pc, child, total, forks>>
    BY <1>2 DEF Start
  <2>2. PICK g \in {0, 1} : g = Taken(1) /\ g <= free
    BY <1>0 DEF Taken, Got
  <2> DEFINE new == [task[t] EXCEPT !.started = TRUE, !.table = g]
  <2>3. /\ new \in PCB /\ new.started /\ new.kind = "proc" /\ new.pcb = task[t].pcb
        /\ new.dir = task[t].dir /\ new.map = task[t].map /\ new.buf = task[t].buf
        /\ new.table = g
    <3>1. task[t] \in PCB /\ g \in Nat
      BY <1>0, <2>2
    <3> QED BY <1>0, <3>1 DEF PCB
  <2>4. task' = [task EXCEPT ![t] = new]
    BY <1>0, <2>1, <2>2
  <2> HIDE DEF new
  <2>5. /\ task' \in [Ids -> PCB] /\ task'[t] = new
        /\ \A j \in Ids : j # t => task'[j] = task[j]
    BY <1>0, <2>3, <2>4
  <2>6. task[t].table = 0
    BY <1>0 DEF PagesInv, Furnished, PCBPages
  <2>7. PCBSize(new) - PCBSize(task[t]) = g
    <3>1. PCBSize(task[t]) \in Nat /\ PCBSize(new) \in Nat
      BY <1>0, <2>3, PCBSizeNat
    <3>2. task[t] \in PCB
      BY <1>0
    <3> QED BY <2>2, <2>3, <2>6, <3>2 DEF PCBSize, PCB
  <2>8. PICK b \in {0, 1} : Leaves(0, b, 0)
    BY <1>0, <2>1, TasksAssumption DEF Leaves, TasksAssumption, PagesInv
  <2>9. free' \in Nat /\ free - free' = g + 0 + 0
    BY <1>0, <2>1, <2>2
  <2>10. PagesReachable'
    BY <2>5, <2>7, <2>8, <2>9, Books
  <2>11. PCBPages(new)
    BY <2>3 DEF PCBPages
  <2>12. ASSUME NEW u \in Ids, pc[u] \notin NoChild
         PROVE  PagesAt(pc[u], task'[child[u]])
    <3>1. child[u] \in Ids /\ Stage(u, task[child[u]]) /\ PagesAt(pc[u], task[child[u]])
      BY <2>12, ChildPages
    <3>2. CASE child[u] = t
      <4>1. pc[u] \in {"p_dir", "p_map"}
        BY <1>0, <2>12, <3>1, <3>2 DEF Stage
      <4> QED BY <2>3, <2>5, <3>1, <3>2, <4>1 DEF PagesAt
    <3>3. CASE child[u] # t
      BY <2>5, <3>1, <3>3
    <3> QED BY <3>2, <3>3
  <2>13. Furnished'
    BY <2>1, <2>5, <2>11, <2>12 DEF PagesInv, Furnished
  <2> QED BY <2>1, <2>10, <2>13 DEF PagesInv
<1> QED BY <1>1, <1>2

(* One allocation in a creation.                                           *)
LEMMA PagesAlloc ==
  ASSUME TasksAssumption, TaskInv, PagesInv, NEW t \in Ids, pc[t] \notin NoChild,
         NEW n \in Nat, NEW new \in PCB, NEW label, label \notin NoChild,
         Got(n), Alloc(t, n, new, label),
         PCBSize(new) = PCBSize(task[child[t]]) + n,
         PCBPages(new), PagesAt(label, new)
  PROVE  PagesInv'
<1>1. PICK i \in Ids : i = child[t] /\ task[i] \in PCB /\ task \in [Ids -> PCB]
  BY ChildPages
<1>2. free \in Nat /\ failures \in Nat
  BY ChildPages
<1>3. /\ pc' = [pc EXCEPT ![t] = label] /\ task' = [task EXCEPT ![i] = new]
      /\ free' = free - n /\ n <= free /\ failures' = failures
      /\ UNCHANGED <<child, total, forks>>
  BY <1>1 DEF Alloc, GetKernelPages, Taken, Got, Goto
<1>4. /\ task' \in [Ids -> PCB] /\ task'[i] = new
      /\ \A j \in Ids : j # i => task'[j] = task[j]
  BY <1>1, <1>3
<1>5. Leaves(0, 0, 0)
  BY <1>2, <1>3 DEF Leaves, TasksAssumption, PagesInv
<1>6. free' \in Nat /\ free - free' = PCBSize(task'[i]) - PCBSize(task[i]) + 0 + 0
  <2>1. PCBSize(task[i]) \in Nat
    BY <1>1, PCBSizeNat
  <2> QED BY <1>1, <1>2, <1>3, <1>4, <2>1
<1> QED BY <1>1, <1>3, <1>4, <1>5, <1>6, PagesCreation

(* A step of a creation that takes no page and leaves the pages of its PCB *)
(* as they are.                                                            *)
LEMMA PagesKept ==
  ASSUME TasksAssumption, TaskInv, PagesInv, NEW t \in Ids, NEW i \in Ids,
         pc[t] \notin NoChild, i = child[t],
         NEW label, pc' = [pc EXCEPT ![t] = label],
         child' = child \/ (label = "idle" /\ child' = [child EXCEPT ![t] = NoTask]),
         NEW new \in PCB, task' = [task EXCEPT ![i] = new],
         new.pcb = task[i].pcb, new.dir = task[i].dir, new.map = task[i].map,
         new.table = task[i].table, new.buf = task[i].buf, new.kind = task[i].kind,
         new.kind = "proc" /\ ~new.started => ~task[i].started,
         label \notin NoChild => PagesAt(label, new),
         UNCHANGED <<free, total, forks, failures>>
  PROVE  PagesInv'
<1>1. task \in [Ids -> PCB] /\ task[i] \in PCB /\ free \in Nat /\ failures \in Nat /\ PCBPages(task[i])
  BY ChildPages
<1>2. /\ task' \in [Ids -> PCB] /\ task'[i] = new
      /\ \A j \in Ids : j # i => task'[j] = task[j]
  BY <1>1
<1>3. PCBPages(new)
  BY <1>1 DEF PCBPages
<1>4. PCBSize(new) = PCBSize(task[i]) /\ PCBSize(new) \in Nat
  BY PCBSizeNat DEF PCBSize
<1>5. Leaves(0, 0, 0)
  BY <1>1 DEF Leaves, TasksAssumption, PagesInv
<1>6. free' \in Nat /\ free - free' = PCBSize(task'[i]) - PCBSize(task[i]) + 0 + 0
  BY <1>1, <1>2, <1>4
<1> QED BY <1>2, <1>3, <1>5, <1>6, PagesCreation

(* Thread_Create.                                                          *)
LEMMA PagesThread ==
  ASSUME TasksAssumption, TaskInv, PagesInv, NEW t \in Ids,
         ThreadLock(t) \/ ThreadPCB(t) \/ ThreadPid(t) \/ ThreadNextPid(t) \/ ThreadInit(t)
  PROVE  PagesInv'
<1>0. pc[t] \in ThreadSteps /\ pc[t] \notin NoChild
  BY DEF ThreadLock, ThreadPCB, ThreadPid, ThreadNextPid, ThreadInit, ThreadSteps, NoChild
<1>1. PICK i \in Ids : i = child[t] /\ task[i] \in PCB
  BY <1>0, ChildPages
<1>2. /\ task \in [Ids -> PCB] /\ free \in Nat /\ failures \in Nat /\ nextPid \in Nat
      /\ Stage(t, task[i]) /\ PagesAt(pc[t], task[i]) /\ PCBPages(task[i])
  BY <1>0, <1>1, ChildPages DEF TaskInv, TypeInv
<1>3. CASE ThreadLock(t) \/ ThreadPid(t) \/ ThreadNextPid(t)
  <2>1. PICK label \in {"t_pcb", "t_pid++", "t_init"} :
          /\ pc' = [pc EXCEPT ![t] = label] /\ UNCHANGED <<task, child, free, total, forks, failures>>
          /\ label = "t_pcb" => pc[t] = "t_lock"
    BY <1>3 DEF ThreadLock, ThreadPid, ThreadNextPid, Goto, histVars
  <2>2. PagesAt(label, task[i])
    BY <1>2, <2>1 DEF PagesAt
  <2>3. task' = [task EXCEPT ![i] = task[i]]
    BY <1>2, <2>1
  <2> QED BY <1>0, <1>1, <1>2, <2>1, <2>2, <2>3, PagesKept
<1>4. CASE ThreadPCB(t) /\ ~Got(1)
  BY <1>4, PagesStop DEF ThreadPCB
<1>5. CASE ThreadPCB(t) /\ Got(1)
  <2>1. /\ pc[t] = "t_pcb" /\ pc' = [pc EXCEPT ![t] = "t_pid"]
        /\ task' = [task EXCEPT ![i].pcb = 1, ![i].kind = "thread"]
        /\ free' = free - 1 /\ 1 <= free
        /\ UNCHANGED <<child, total, forks, failures>>
    BY <1>1, <1>5 DEF ThreadPCB, GetKernelPages, Taken, Got, Goto
  <2> DEFINE new == [task[i] EXCEPT !.pcb = 1, !.kind = "thread"]
  <2>2. /\ new \in PCB /\ new.kind = "thread" /\ new.pcb = 1 /\ new.dir = task[i].dir
        /\ new.map = task[i].map /\ new.table = task[i].table /\ new.buf = task[i].buf
    BY <1>1 DEF PCB
  <2>3. task' = [task EXCEPT ![i] = new]
    BY <1>2, <2>1
  <2> HIDE DEF new
  <2>4. /\ task' \in [Ids -> PCB] /\ task'[i] = new
        /\ \A j \in Ids : j # i => task'[j] = task[j]
    BY <1>2, <2>2, <2>3
  <2>5. /\ task[i].pcb = 0 /\ task[i].dir = 0 /\ task[i].map = 0
        /\ task[i].table = 0 /\ task[i].buf = 0
    BY <1>2, <2>1 DEF PagesAt, PCBPages
  <2>6. PCBSize(new) = 1 /\ PCBSize(task[i]) = 0
    BY <2>2, <2>5 DEF PCBSize
  <2>7. PCBPages(new) /\ PagesAt("t_pid", new)
    BY <2>2 DEF PCBPages, PagesAt
  <2>8. Leaves(0, 0, 0)
    BY <1>2, <2>1 DEF Leaves, TasksAssumption, PagesInv
  <2>9. free' \in Nat /\ free - free' = PCBSize(task'[i]) - PCBSize(task[i]) + 0 + 0
    BY <1>2, <2>1, <2>4, <2>6
  <2> QED BY <1>0, <1>1, <2>1, <2>4, <2>7, <2>8, <2>9, PagesCreation
<1>6. CASE ThreadInit(t)
  <2>1. /\ pc[t] = "t_init" /\ pc' = [pc EXCEPT ![t] = "idle"]
        /\ child' = [child EXCEPT ![t] = NoTask]
        /\ task' = [task EXCEPT ![i].pid = nextPid, ![i].ready = TRUE, ![i].started = TRUE]
        /\ UNCHANGED <<free, total, forks, failures>>
    BY <1>1, <1>6 DEF ThreadInit, Done, Goto, histVars
  <2> DEFINE new == [task[i] EXCEPT !.pid = nextPid, !.ready = TRUE, !.started = TRUE]
  <2>2. task[i].kind = "thread"
    BY <1>2, <2>1 DEF Stage
  <2>3. /\ new \in PCB /\ new.kind = task[i].kind /\ new.pcb = task[i].pcb /\ new.dir = task[i].dir
        /\ new.map = task[i].map /\ new.table = task[i].table /\ new.buf = task[i].buf
    BY <1>1, <1>2 DEF PCB
  <2>4. task' = [task EXCEPT ![i] = new]
    BY <1>2, <2>1
  <2> HIDE DEF new
  <2>5. "idle" \notin NoChild => PagesAt("idle", new)
    BY DEF NoChild
  <2>6. new.kind = "proc" /\ ~new.started => ~task[i].started
    BY <2>2, <2>3
  <2>7. PICK label : label = "idle"
    OBVIOUS
  <2>8. /\ pc' = [pc EXCEPT ![t] = label]
        /\ child' = child \/ (label = "idle" /\ child' = [child EXCEPT ![t] = NoTask])
        /\ UNCHANGED <<free, total, forks, failures>>
    BY <2>1, <2>7
  <2>9. label \notin NoChild => PagesAt(label, new)
    BY <2>5, <2>7
  <2> QED BY <1>0, <1>1, <2>3, <2>4, <2>6, <2>8, <2>9, PagesKept
<1> QED BY <1>3, <1>4, <1>5, <1>6

(* Process_Create.                                                         *)
LEMMA PagesProcess ==
  ASSUME TasksAssumption, TaskInv, PagesInv, NEW t \in Ids,
         ProcessPCB(t) \/ ProcessPid(t) \/ ProcessDir(t) \/ ProcessMap(t)
  PROVE  PagesInv'
<1>0. pc[t] \in {"p_pcb", "p_pid", "p_dir", "p_map"} /\ pc[t] \notin NoChild
  BY DEF ProcessPCB, ProcessPid, ProcessDir, ProcessMap, NoChild
<1>1. PICK i \in Ids : i = child[t] /\ task[i] \in PCB
  BY <1>0, ChildPages
<1>2. /\ task \in [Ids -> PCB] /\ free \in Nat /\ failures \in Nat /\ nextPid \in Nat
      /\ PagesAt(pc[t], task[i]) /\ PCBPages(task[i])
  BY <1>0, <1>1, ChildPages DEF TaskInv, TypeInv
<1>3. CASE ProcessPCB(t) /\ ~Got(1)
  BY <1>3, PagesStop DEF ProcessPCB
<1>4. CASE ProcessPCB(t) /\ Got(1)
  <2>1. PICK n \in NameLens :
          Alloc(t, 1, [NoPCB EXCEPT !.kind = "proc", !.pcb = 1, !.name = n], "p_pid")
    BY <1>4 DEF ProcessPCB
  <2> DEFINE new == [NoPCB EXCEPT !.kind = "proc", !.pcb = 1, !.name = n]
  <2>2. /\ new \in PCB /\ new.kind = "proc" /\ new.pcb = 1 /\ new.dir = 0 /\ new.map = 0
        /\ new.table = 0 /\ new.buf = 0
    BY <2>1, TasksAssumption DEF NoPCB, PCB, TasksAssumption
  <2>3. Alloc(t, 1, new, "p_pid")
    BY <2>1
  <2> HIDE DEF new
  <2>4. pc[t] = "p_pcb"
    BY <1>4 DEF ProcessPCB
  <2>5. PCBSize(task[i]) = 0 /\ PCBSize(new) = 1
    BY <1>2, <2>2, <2>4 DEF PagesAt, PCBPages, PCBSize
  <2>6. PCBPages(new) /\ PagesAt("p_pid", new) /\ "p_pid" \notin NoChild
    BY <2>2 DEF PCBPages, PagesAt, NoChild
  <2> QED BY <1>0, <1>1, <1>4, <2>2, <2>3, <2>5, <2>6, PagesAlloc
<1>5. CASE ProcessPid(t)
  <2>1. /\ pc[t] = "p_pid" /\ pc' = [pc EXCEPT ![t] = "p_dir"] /\ nextPid' = nextPid + 1
        /\ task' = [task EXCEPT ![i].pid = nextPid', ![i].ready = TRUE]
        /\ UNCHANGED <<child, free, total, forks, failures>>
    BY <1>1, <1>5 DEF ProcessPid, NextPid, Goto, histVars
  <2>2. PICK p \in Nat : p = nextPid'
    BY <1>2, <2>1
  <2> DEFINE new == [task[i] EXCEPT !.pid = p, !.ready = TRUE]
  <2>3. /\ new \in PCB /\ new.kind = task[i].kind /\ new.pcb = task[i].pcb /\ new.dir = task[i].dir
        /\ new.map = task[i].map /\ new.table = task[i].table /\ new.buf = task[i].buf
        /\ new.started = task[i].started
    BY <1>1 DEF PCB
  <2>4. task' = [task EXCEPT ![i] = new]
    BY <1>2, <2>1, <2>2
  <2> HIDE DEF new
  <2>5. PICK label : label = "p_dir"
    OBVIOUS
  <2>6. /\ pc' = [pc EXCEPT ![t] = label] /\ child' = child
        /\ UNCHANGED <<free, total, forks, failures>>
    BY <2>1, <2>5
  <2>7. PagesAt(label, new)
    BY <1>2, <2>1, <2>3, <2>5 DEF PagesAt
  <2>8. new.kind = "proc" /\ ~new.started => ~task[i].started
    BY <2>3
  <2> QED BY <1>0, <1>1, <2>3, <2>4, <2>6, <2>7, <2>8, PagesKept
<1>6. CASE ProcessDir(t)
  <2>0. pc[t] = "p_dir" /\ Alloc(t, 1, [task[i] EXCEPT !.dir = 1], "p_map")
    BY <1>1, <1>6 DEF ProcessDir
  <2>1. task[i].dir = 0 /\ task[i].map = 0
    BY <1>2, <2>0 DEF PagesAt
  <2>2. CASE Got(1)
    <3> DEFINE new == [task[i] EXCEPT !.dir = 1]
    <3>1. /\ new \in PCB /\ new.kind = task[i].kind /\ new.pcb = task[i].pcb /\ new.dir = 1
          /\ new.map = task[i].map /\ new.table = task[i].table /\ new.buf = task[i].buf
          /\ new.started = task[i].started
      BY <1>1 DEF PCB
    <3>2. Alloc(t, 1, new, "p_map")
      BY <2>0
    <3> HIDE DEF new
    <3>3. PCBSize(new) = PCBSize(task[i]) + 1
      BY <1>1, <2>1, <3>1 DEF PCBSize, PCB
    <3>4. PagesAt("p_map", new) /\ "p_map" \notin NoChild
      BY <2>1, <3>1 DEF PagesAt, NoChild
    <3>5. PCBPages(new)
      <4>1. task[i].kind # "none"
        BY <1>0, <1>1, <2>0, ChildPages DEF Stage
      <4> QED BY <1>2, <3>1, <4>1 DEF PCBPages
    <3> QED BY <1>0, <1>1, <2>2, <3>1, <3>2, <3>3, <3>4, <3>5, PagesAlloc
  <2>3. CASE ~Got(1)
    <3>1. PICK label : label = "p_map"
      OBVIOUS
    <3>2. /\ pc' = [pc EXCEPT ![t] = label] /\ task' = task /\ child' = child
          /\ free = 0 /\ free' = 0 /\ failures' = failures + 1 /\ UNCHANGED <<total, forks>>
      BY <1>2, <2>0, <2>3, <3>1 DEF Alloc, GetKernelPages, Taken, Got, Goto
    <3>3. Leaves(0, 1, 0)
      BY <1>2, <3>2 DEF Leaves, TasksAssumption, PagesInv
    <3>4. PCBSize(task[i]) \in Nat
      BY <1>1, PCBSizeNat
    <3>5. free' \in Nat /\ free - free' = PCBSize(task'[i]) - PCBSize(task[i]) + 0 + 0
      BY <3>2, <3>4
    <3>6. PagesAt(label, task'[i]) /\ PCBPages(task'[i])
      BY <1>2, <2>1, <3>1, <3>2 DEF PagesAt
    <3> QED BY <1>0, <1>1, <1>2, <3>2, <3>3, <3>5, <3>6, PagesCreation
  <2> QED BY <2>2, <2>3
<1>7. CASE ProcessMap(t) /\ ~Got(MapPages)
  BY <1>7, PagesStop DEF ProcessMap
<1>8. CASE ProcessMap(t) /\ Got(MapPages)
  <2>1. PICK label : label = "idle"
    OBVIOUS
  <2>2. /\ pc[t] = "p_map" /\ pc' = [pc EXCEPT ![t] = label]
        /\ child' = [child EXCEPT ![t] = NoTask]
        /\ task' = [task EXCEPT ![i].map = MapPages, ![i].len = MapPages]
        /\ free' = free - MapPages /\ MapPages <= free
        /\ UNCHANGED <<total, forks, failures>>
    BY <1>1, <1>8, <2>1 DEF ProcessMap, Done, GetKernelPages, Taken, Got, Goto
  <2> DEFINE new == [task[i] EXCEPT !.map = MapPages, !.len = MapPages]
  <2>3. MapPages \in Nat
    BY DEF TasksAssumption
  <2>4. /\ new \in PCB /\ new.kind = task[i].kind /\ new.pcb = task[i].pcb /\ new.dir = task[i].dir
        /\ new.map = MapPages /\ new.table = task[i].table /\ new.buf = task[i].buf
        /\ new.started = task[i].started
    BY <1>1, <2>3 DEF PCB
  <2>5. task' = [task EXCEPT ![i] = new]
    BY <1>2, <2>2
  <2> HIDE DEF new
  <2>6. /\ task' \in [Ids -> PCB] /\ task'[i] = new
        /\ \A j \in Ids : j # i => task'[j] = task[j]
    BY <1>2, <2>4, <2>5
  <2>7. task[i].map = 0
    BY <1>2, <2>2 DEF PagesAt
  <2>8. PCBSize(new) = PCBSize(task[i]) + MapPages /\ PCBSize(task[i]) \in Nat
    BY <1>1, <2>3, <2>4, <2>7, PCBSizeNat DEF PCBSize, PCB
  <2>9. PCBPages(new)
    <3>1. task[i].kind # "none"
      BY <1>0, <1>1, <2>2, ChildPages DEF Stage
    <3> QED BY <1>2, <2>4, <3>1 DEF PCBPages
  <2>10. Leaves(0, 0, 0)
    BY <1>2, <2>2 DEF Leaves, TasksAssumption, PagesInv
  <2>11. free' \in Nat /\ free - free' = PCBSize(task'[i]) - PCBSize(task[i]) + 0 + 0
    BY <1>2, <2>2, <2>3, <2>6, <2>8
  <2>12. /\ label \notin NoChild => PagesAt(label, task'[i])
         /\ child' = child \/ (label = "idle" /\ child' = [child EXCEPT ![t] = NoTask])
         /\ pc' = [pc EXCEPT ![t] = label]
    BY <2>1, <2>2 DEF NoChild
  <2> QED BY <1>0, <1>1, <2>6, <2>9, <2>10, <2>11, <2>12, PagesCreation
<1> QED BY <1>3, <1>4, <1>5, <1>6, <1>7, <1>8

(* sys_fork gives up, and keeps what it had.                               *)
LEMMA PagesForkFails ==
  ASSUME TasksAssumption, TaskInv, PagesInv, NEW t \in Ids,
         pc[t] \in {"f_pcb", "f_buf", "f_dir"}, GetKernelPages(1), ~Got(1), Fail(t)
  PROVE  PagesInv'
<1>0. pc[t] \notin NoChild
  BY DEF NoChild
<1>1. PICK i \in Ids : i = child[t] /\ task[i] \in PCB
  BY <1>0, ChildPages
<1>2. /\ task \in [Ids -> PCB] /\ free \in Nat /\ failures \in Nat
      /\ PagesAt(pc[t], task[i]) /\ PCBPages(task[i])
  BY <1>0, <1>1, ChildPages
<1>3. PICK label : label = "idle"
  OBVIOUS
<1>4. /\ pc' = [pc EXCEPT ![t] = label] /\ child' = [child EXCEPT ![t] = NoTask]
      /\ task' = [task EXCEPT ![i] = NoPCB]
      /\ free = 0 /\ free' = 0 /\ failures' = failures + 1 /\ UNCHANGED <<total, forks>>
  BY <1>1, <1>2, <1>3 DEF Fail, Done, Goto, GetKernelPages, Got, Taken
<1>5. NoPCB \in PCB /\ PCBPages(NoPCB) /\ PCBSize(NoPCB) = 0
  BY DEF NoPCB, PCB, PCBPages, PCBSize
<1>6. /\ task' \in [Ids -> PCB] /\ task'[i] = NoPCB
      /\ \A j \in Ids : j # i => task'[j] = task[j]
  BY <1>2, <1>4, <1>5
<1>7. PICK k \in 0 .. 2 + MapPages + CopyPages : k = PCBSize(task[i])
  <2>1. MapPages \in Nat /\ CopyPages \in Nat
    BY DEF TasksAssumption
  <2>2. PCBSize(task[i]) \in {0, 1, 2 + CopyPages}
    <3>1. CASE pc[t] = "f_pcb"
      BY <1>2, <3>1 DEF PagesAt, PCBPages, PCBSize
    <3>2. CASE pc[t] = "f_buf"
      BY <1>2, <3>2 DEF PagesAt, PCBSize
    <3>3. CASE pc[t] = "f_dir"
      <4>1. /\ task[i].pcb = 1 /\ task[i].dir = 0 /\ task[i].map = CopyPages
            /\ task[i].table = 0 /\ task[i].buf = 1
        BY <1>2, <3>3 DEF PagesAt
      <4> QED BY <2>1, <4>1 DEF PCBSize
    <3> QED BY <3>1, <3>2, <3>3
  <2> QED BY <2>1, <2>2
<1>8. Leaves(0, 1, k)
  BY <1>2, <1>4 DEF Leaves, PagesInv
<1>9. free' \in Nat /\ free - free' = PCBSize(task'[i]) - PCBSize(task[i]) + 0 + k
  <2>1. k \in Int
    BY <1>7, TasksAssumption DEF TasksAssumption
  <2> QED BY <1>4, <1>5, <1>6, <1>7, <2>1
<1>10. /\ label \notin NoChild => PagesAt(label, task'[i])
       /\ child' = child \/ (label = "idle" /\ child' = [child EXCEPT ![t] = NoTask])
       /\ pc' = [pc EXCEPT ![t] = label]
       /\ PCBPages(task'[i])
  BY <1>3, <1>4, <1>5, <1>6 DEF NoChild
<1> QED BY <1>0, <1>1, <1>6, <1>8, <1>9, <1>10, PagesCreation

LEMMA PagesFork ==
  ASSUME TasksAssumption, TaskInv, PagesInv, NEW t \in Ids,
         ForkPCB(t) \/ ForkBuf(t) \/ ForkPid(t) \/ ForkMap(t) \/ ForkDir(t) \/ ForkEnd(t)
  PROVE  PagesInv'
<1>0. pc[t] \in ForkSteps /\ pc[t] \notin NoChild
  BY DEF ForkPCB, ForkBuf, ForkPid, ForkMap, ForkDir, ForkEnd, ForkSteps, NoChild
<1>1. PICK i \in Ids : i = child[t] /\ task[i] \in PCB
  BY <1>0, ChildPages
<1>2. /\ task \in [Ids -> PCB] /\ free \in Nat /\ failures \in Nat /\ nextPid \in Nat
      /\ PagesAt(pc[t], task[i]) /\ PCBPages(task[i]) /\ Stage(t, task[i])
      /\ task[t].name \in Nat /\ task[t].len \in Nat
  BY <1>0, <1>1, ChildPages DEF TaskInv, TypeInv, PCB
<1>3. pc[t] # "f_pcb" => task[i].kind = "proc"
  BY <1>0, <1>2 DEF Stage, ForkSteps
<1>4. CASE ForkPCB(t)
  <2>1. CASE Got(1) /\ task[t].dir = 0
    BY <1>4, <2>1, PagesStop DEF ForkPCB
  <2>2. CASE Got(1) /\ task[t].dir # 0
    <3> DEFINE new == [NoPCB EXCEPT !.kind = "proc", !.pcb = 1]
    <3>1. Alloc(t, 1, new, "f_buf") /\ pc[t] = "f_pcb"
      BY <1>4, <2>2 DEF ForkPCB
    <3>2. /\ new \in PCB /\ new.kind = "proc" /\ new.pcb = 1 /\ new.dir = 0 /\ new.map = 0
          /\ new.table = 0 /\ new.buf = 0
      BY DEF NoPCB, PCB
    <3> HIDE DEF new
    <3>3. PCBSize(task[i]) = 0 /\ PCBSize(new) = 1
      BY <1>2, <3>1, <3>2 DEF PagesAt, PCBPages, PCBSize
    <3>4. PCBPages(new) /\ PagesAt("f_buf", new) /\ "f_buf" \notin NoChild
      BY <3>2 DEF PCBPages, PagesAt, NoChild
    <3> QED BY <1>0, <1>1, <2>2, <3>1, <3>2, <3>3, <3>4, PagesAlloc
  <2>3. CASE ~Got(1)
    BY <1>4, <2>3, PagesForkFails DEF ForkPCB
  <2> QED BY <2>1, <2>2, <2>3
<1>5. CASE ForkBuf(t)
  <2>1. CASE Got(1)
    <3> DEFINE new == [task[i] EXCEPT !.buf = 1]
    <3>1. Alloc(t, 1, new, "f_pid") /\ pc[t] = "f_buf"
      BY <1>1, <1>5, <2>1 DEF ForkBuf
    <3>2. /\ new \in PCB /\ new.kind = task[i].kind /\ new.pcb = task[i].pcb /\ new.dir = task[i].dir
          /\ new.map = task[i].map /\ new.table = task[i].table /\ new.buf = 1
      BY <1>1 DEF PCB
    <3> HIDE DEF new
    <3>3. PCBSize(new) = PCBSize(task[i]) + 1
      BY <1>2, <3>1, <3>2 DEF PagesAt, PCBSize
    <3>4. PCBPages(new) /\ PagesAt("f_pid", new) /\ "f_pid" \notin NoChild
      BY <1>2, <1>3, <3>1, <3>2 DEF PCBPages, PagesAt, NoChild
    <3> QED BY <1>0, <1>1, <2>1, <3>1, <3>2, <3>3, <3>4, PagesAlloc
  <2>2. CASE ~Got(1)
    BY <1>5, <2>2, PagesForkFails DEF ForkBuf
  <2> QED BY <2>1, <2>2
<1>6. CASE ForkPid(t)
  <2>1. /\ pc[t] = "f_pid" /\ pc' = [pc EXCEPT ![t] = "f_map"] /\ nextPid' = nextPid + 1
        /\ task' = [task EXCEPT ![i].pid = nextPid', ![i].len = task[t].len,
                                ![i].name = task[t].name]
        /\ UNCHANGED <<child, free, total, forks, failures>>
    BY <1>1, <1>6 DEF ForkPid, NextPid, Goto, histVars
  <2>2. PICK p \in Nat, l \in Nat, n \in Nat : p = nextPid' /\ l = task[t].len /\ n = task[t].name
    BY <1>2, <2>1
  <2> DEFINE new == [task[i] EXCEPT !.pid = p, !.len = l, !.name = n]
  <2>3. /\ new \in PCB /\ new.kind = task[i].kind /\ new.pcb = task[i].pcb /\ new.dir = task[i].dir
        /\ new.map = task[i].map /\ new.table = task[i].table /\ new.buf = task[i].buf
        /\ new.started = task[i].started
    BY <1>1 DEF PCB
  <2>4. task' = [task EXCEPT ![i] = new]
    BY <1>2, <2>1, <2>2
  <2> HIDE DEF new
  <2>5. PICK label : label = "f_map"
    OBVIOUS
  <2>6. /\ pc' = [pc EXCEPT ![t] = label] /\ child' = child
        /\ UNCHANGED <<free, total, forks, failures>>
    BY <2>1, <2>5
  <2>7. PagesAt(label, new)
    BY <1>2, <2>1, <2>3, <2>5 DEF PagesAt
  <2>8. new.kind = "proc" /\ ~new.started => ~task[i].started
    BY <2>3
  <2> QED BY <1>0, <1>1, <2>3, <2>4, <2>6, <2>7, <2>8, PagesKept
<1>7. CASE ForkMap(t)
  <2>1. CASE ~Got(CopyPages) \/ task[t].name >= 11
    <3>1. Stop("no bitmap") \/ Stop("fork.c:39")
      BY <1>7, <2>1 DEF ForkMap
    <3> QED BY <3>1, PagesStop
  <2>2. CASE Got(CopyPages) /\ ~(task[t].name >= 11)
    <3>0. PICK n \in Nat : n = task[t].name + 5
      BY <1>2
    <3> DEFINE new == [task[i] EXCEPT !.map = CopyPages, !.name = n]
    <3>1. Alloc(t, CopyPages, new, "f_dir") /\ pc[t] = "f_map" /\ CopyPages \in Nat
      BY <1>1, <1>7, <2>2, <3>0, TasksAssumption DEF ForkMap, TasksAssumption
    <3>2. /\ new \in PCB /\ new.kind = task[i].kind /\ new.pcb = task[i].pcb /\ new.dir = task[i].dir
          /\ new.map = CopyPages /\ new.table = task[i].table /\ new.buf = task[i].buf
      BY <1>1, <3>1 DEF PCB
    <3> HIDE DEF new
    <3>3. PCBSize(new) = PCBSize(task[i]) + CopyPages
      BY <1>2, <3>1, <3>2 DEF PagesAt, PCBSize
    <3>4. PCBPages(new) /\ PagesAt("f_dir", new) /\ "f_dir" \notin NoChild
      BY <1>2, <1>3, <3>1, <3>2 DEF PCBPages, PagesAt, NoChild
    <3> QED BY <1>0, <1>1, <2>2, <3>1, <3>2, <3>3, <3>4, PagesAlloc
  <2> QED BY <2>1, <2>2
<1>8. CASE ForkDir(t)
  <2>1. CASE Got(1)
    <3> DEFINE new == [task[i] EXCEPT !.dir = 1]
    <3>1. Alloc(t, 1, new, "f_pages") /\ pc[t] = "f_dir"
      BY <1>1, <1>8, <2>1 DEF ForkDir
    <3>2. /\ new \in PCB /\ new.kind = task[i].kind /\ new.pcb = task[i].pcb /\ new.dir = 1
          /\ new.map = task[i].map /\ new.table = task[i].table /\ new.buf = task[i].buf
      BY <1>1 DEF PCB
    <3> HIDE DEF new
    <3>3. PCBSize(new) = PCBSize(task[i]) + 1
      <4>1. CopyPages \in Nat
        BY DEF TasksAssumption
      <4> QED BY <1>2, <3>1, <3>2, <4>1 DEF PagesAt, PCBSize
    <3>4. PCBPages(new) /\ PagesAt("f_pages", new) /\ "f_pages" \notin NoChild
      BY <1>2, <1>3, <3>1, <3>2 DEF PCBPages, PagesAt, NoChild
    <3> QED BY <1>0, <1>1, <2>1, <3>1, <3>2, <3>3, <3>4, PagesAlloc
  <2>2. CASE ~Got(1)
    BY <1>8, <2>2, PagesForkFails DEF ForkDir
  <2> QED BY <2>1, <2>2
<1>9. CASE ForkEnd(t)
  <2>1. PICK label : label = "idle"
    OBVIOUS
  <2>2. /\ pc[t] = "f_pages" /\ pc' = [pc EXCEPT ![t] = label]
        /\ child' = [child EXCEPT ![t] = NoTask]
        /\ free' = free - Taken(1) + 0
        /\ failures' = IF Got(1) THEN failures ELSE failures + 1
        /\ task' = [task EXCEPT ![i].table = Taken(1), ![i].buf = 0,
                                ![i].ready = TRUE, ![i].started = TRUE]
        /\ forks' = forks + 1 /\ total' = total
    BY <1>1, <1>9, <2>1 DEF ForkEnd, Done, Goto, CopyUserStack, BufFreed
  <2>3. PICK g \in {0, 1} : g = Taken(1) /\ g <= free
    BY <1>2 DEF Taken, Got
  <2> DEFINE new == [task[i] EXCEPT !.table = g, !.buf = 0, !.ready = TRUE, !.started = TRUE]
  <2>4. /\ new \in PCB /\ new.kind = task[i].kind /\ new.pcb = task[i].pcb /\ new.dir = task[i].dir
        /\ new.map = task[i].map /\ new.table = g /\ new.buf = 0 /\ new.started
    <3>1. g \in Nat
      BY <2>3
    <3> QED BY <1>1, <3>1 DEF PCB
  <2>5. task' = [task EXCEPT ![i] = new]
    BY <1>2, <2>2, <2>3
  <2> HIDE DEF new
  <2>6. /\ task' \in [Ids -> PCB] /\ task'[i] = new
        /\ \A j \in Ids : j # i => task'[j] = task[j]
    BY <1>2, <2>4, <2>5
  <2>7. task[i].table = 0 /\ task[i].buf = 1
    BY <1>2, <2>2 DEF PagesAt
  <2>8. PCBSize(new) = PCBSize(task[i]) + g - 1 /\ PCBSize(task[i]) \in Nat
    BY <1>1, <2>3, <2>4, <2>7, PCBSizeNat DEF PCBSize, PCB
  <2>9. PCBPages(new)
    BY <1>3, <2>2, <2>4 DEF PCBPages
  <2>10. PICK b \in {0, 1} : Leaves(1, b, 0)
    BY <1>2, <2>2, TasksAssumption DEF Leaves, TasksAssumption, PagesInv
  <2>11. free' \in Nat /\ free - free' = PCBSize(task'[i]) - PCBSize(task[i]) + 1 + 0
    BY <1>2, <2>2, <2>3, <2>6, <2>8
  <2>12. /\ label \notin NoChild => PagesAt(label, task'[i])
         /\ child' = child \/ (label = "idle" /\ child' = [child EXCEPT ![t] = NoTask])
         /\ pc' = [pc EXCEPT ![t] = label]
    BY <2>1, <2>2 DEF NoChild
  <2> QED BY <1>0, <1>1, <2>6, <2>9, <2>10, <2>11, <2>12, PagesCreation
<1> QED BY <1>4, <1>5, <1>6, <1>7, <1>8, <1>9

(* Before the first call no page is taken.                                 *)
LEMMA PagesInit ==
  ASSUME TasksAssumption, Init
  PROVE  PagesInv
<1>1. \A i \in Ids : PCBSize(task[i]) = 0 /\ PCBPages(task[i])
  BY DEF Init, NoPCB, PCBSize, PCBPages
<1>2. Accounted = {}
  <2>1. \A i \in Ids : {i} \X (1 .. Owned(i)) = {}
    BY <1>1 DEF Owned, PCBSize
  <2> QED BY <2>1 DEF Accounted
<1>3. Cardinality(Accounted) = 0
  BY <1>2, FS_EmptySet
<1>4. total \in Nat /\ free = total /\ forks = 0 /\ failures = 0
  BY DEF Init, TasksAssumption
<1>5. Lost = 0
  BY <1>3, <1>4 DEF Lost
<1>6. PagesReachable
  BY <1>4, <1>5 DEF PagesReachable, TasksAssumption
<1>7. Furnished
  BY <1>1 DEF Furnished, Init, NoChild
<1> QED BY <1>4, <1>6, <1>7 DEF PagesInv

LEMMA PagesStep ==
  ASSUME TasksAssumption, TaskInv, PagesInv, [Next]_vars
  PROVE  PagesInv'
<1>1. CASE UNCHANGED vars
  BY <1>1, PagesSame DEF vars, histVars
<1>2. ASSUME NEW t \in Ids, NEW i \in New, ThreadCreate(t, i) \/ ProcessCreate(t, i) \/ Fork(t, i)
      PROVE  PagesInv'
  <2>1. PICK label \in {"t_lock", "p_pcb", "f_pcb"} : Begin(t, label, i)
    BY <1>2 DEF ThreadCreate, ProcessCreate, Fork
  <2> QED BY <2>1, PagesBegin
<1>3. ASSUME NEW t \in Ids, PoolBegin(t) \/ PoolEnd(t)
      PROVE  PagesInv'
  <2>1. PICK label \in NoChild :
          /\ pc' = [pc EXCEPT ![t] = label]
          /\ UNCHANGED <<task, child, free, total, forks, failures>>
    BY <1>3 DEF PoolBegin, PoolEnd, Goto, histVars, NoChild
  <2>2. \A u \in Ids : pc'[u] \notin NoChild => pc'[u] = pc[u]
    BY <2>1 DEF TaskInv, TypeInv
  <2> QED BY <2>1, <2>2, PagesSame
<1>4. ASSUME NEW t \in Ids, Switch(t)
      PROVE  PagesInv'
  BY <1>4, PagesSame DEF Switch
<1>5. ASSUME NEW t \in Ids, Step(t)
      PROVE  PagesInv'
  BY <1>2, <1>3, <1>5, PagesThread, PagesProcess, PagesFork DEF Step
<1> QED BY <1>1, <1>4, <1>5, PagesStart DEF Next

(* PagesInv holds in every reachable state.                                *)
THEOREM PagesInvariance == Spec => [](TaskInv /\ PagesInv)
<1>1. Init => TaskInv /\ PagesInv
  BY InitTaskInv, PagesInit, TasksAssumption
<1>2. TaskInv /\ PagesInv /\ [Next]_vars => TaskInv' /\ PagesInv'
  BY TaskStepInv, PagesStep, TasksAssumption
<1> QED BY <1>1, <1>2, PTL DEF Spec

(* Every page of the kernel's pool that is taken belongs to a task or to a *)
(* creation under way, but for the buffer of each fork and what failed     *)
(* allocations left behind.                                                *)
THEOREM PagesReachableHolds == Spec => []PagesReachable
<1>1. PagesInv => PagesReachable
  BY DEF PagesInv
<1> QED BY <1>1, PagesInvariance, PTL
=============================================================================
