-------------------------------- MODULE Ide --------------------------------
(***************************************************************************)
(* The disk driver (device/ide.c) on one channel, on top of the scheduler  *)
(* and the locks of Sched: Ide_Read, Ide_Write and the disk interrupt.     *)
(* A request takes the channel's lock, and for each part of it programs    *)
(* the drive, waits on the semaphore diskDone that the interrupt handler   *)
(* signals, and transfers the data.  The drive is external.                *)
(***************************************************************************)
EXTENDS Sched

CONSTANTS
  IoTasks,     \* the tasks that read and write the disk
  Isr,         \* the activation of Ide_IntrHdHandler
  ChanLock,    \* channel->lock
  DiskDone,    \* channel->diskDone
  MaxOp,       \* sectors one command can move (256 in the code)
  MaxSec,      \* bound: sectors in one request
  MayStall     \* whether the drive may stay busy past Ide_BusyWait's limit

ASSUME IdeAssumption ==
  /\ IoTasks \subseteq Sleepers
  /\ Isrs = {Isr}
  /\ ChanLock \in Locks \ Sems
  /\ DiskDone \in Sems
  /\ MaxOp \in Nat \ {0}
  /\ MaxSec \in Nat \ {0}
  /\ MayStall \in BOOLEAN

VARIABLES
  ioPc,        \* where a task is in Ide_Read or Ide_Write
  op,          \* the request: "read" or "write"
  secCnt,      \* the sectors it asks for
  secsDone,    \* the sectors it has finished
  expecting,   \* channel->expectingIntr
  drive,       \* the drive: idle, reading, preparing, accepting, writing
  cmdOf,       \* the task whose command the drive executes or executed last
  irq,         \* the drive's interrupt line
  isrOn        \* the task whose kernel stack Ide_IntrHdHandler runs on

ioVars == <<ioPc, op, secCnt, secsDone>>
driveVars == <<expecting, drive, cmdOf, irq>>
ideVars == <<ioVars, driveVars, isrOn>>
allVars == <<vars, ideVars>>

IoLabels == {"idle", "locking", "cmd", "wait", "poll", "xfer", "unlocking"}

IdeInit ==
  /\ Init
  /\ ioPc = [t \in IoTasks |-> "idle"]
  /\ op = [t \in IoTasks |-> "read"]
  /\ secCnt = [t \in IoTasks |-> 0]
  /\ secsDone = [t \in IoTasks |-> 0]
  /\ expecting = FALSE
  /\ drive = "idle"
  /\ cmdOf = NoTask
  /\ irq = FALSE
  /\ isrOn = NoTask

IoGoto(t, label) == ioPc' = [ioPc EXCEPT ![t] = label]

(* Task t is in the driver's own code: neither in the lock code nor asleep.*)
InDriver(t, label) == pc[t] = "run" /\ ioPc[t] = label

(* Ide_Read or Ide_Write is called: Lock_Lock(&channel->lock). *)
IoBegin_NoLock(t) ==
  /\ InDriver(t, "idle")
  /\ IoGoto(t, "cmd")
  /\ \E o \in {"read", "write"}, n \in 1 .. MaxSec :
       op' = [op EXCEPT ![t] = o] /\ secCnt' = [secCnt EXCEPT ![t] = n]
  /\ UNCHANGED <<vars, secsDone, driveVars, isrOn>>
IoBegin(t) ==
  /\ InDriver(t, "idle")
  /\ IoGoto(t, "locking")
  /\ \E o \in {"read", "write"}, n \in 1 .. MaxSec :
       /\ op' = [op EXCEPT ![t] = o]
       /\ secCnt' = [secCnt EXCEPT ![t] = n]
  /\ LockCall(t, ChanLock)
  /\ UNCHANGED <<secsDone, driveVars, isrOn>>

(* Lock_Lock has returned; Ide_SelectDisk. *)
IoLocked(t) ==
  /\ InDriver(t, "locking")
  /\ IoGoto(t, "cmd")
  /\ UNCHANGED <<vars, op, secCnt, secsDone, driveVars, isrOn>>

(* The sectors of the next command. *)
SecsOp_Whole(t) == MaxOp
SecsOp(t) ==
  IF secsDone[t] + MaxOp <= secCnt[t] THEN MaxOp ELSE secCnt[t] - secsDone[t]

(* Ide_SelectSector and Ide_CmdOut for the next part of the request. *)
CmdOut(t, state) ==
  /\ InDriver(t, "cmd")
  /\ secsDone[t] < secCnt[t]
  /\ expecting' = TRUE
  /\ cmdOf' = t
  /\ drive' = state
  /\ UNCHANGED <<vars, op, secCnt, secsDone, irq, isrOn>>

(* Lock_P(&channel->diskDone); pc[t] is "run" again when it has returned.  *)
WaitDiskDone_Skipped(t) ==
  /\ InDriver(t, "wait")
  /\ UNCHANGED <<vars, op, secCnt, driveVars, isrOn>>
WaitDiskDone(t) ==
  /\ InDriver(t, "wait")
  /\ Goto(t, "P")
  /\ arg' = [arg EXCEPT ![t] = DiskDone]
  /\ UNCHANGED <<taskVars, lockVars, target, slept, panic,
                 op, secCnt, driveVars, isrOn>>

PartDone(t) == secsDone' = [secsDone EXCEPT ![t] = @ + SecsOp(t)]

(* The loop of Ide_Read: command, wait for the interrupt, poll, transfer.  *)
ReadCommand(t) ==
  /\ op[t] = "read"
  /\ CmdOut(t, "reading")
  /\ IoGoto(t, "wait")

ReadWait(t) ==
  /\ op[t] = "read"
  /\ WaitDiskDone(t)
  /\ IoGoto(t, "poll")
  /\ UNCHANGED secsDone

ReadTransfer(t) ==
  /\ InDriver(t, "xfer")
  /\ op[t] = "read"
  /\ PartDone(t)
  /\ IoGoto(t, "cmd")
  /\ UNCHANGED <<vars, op, secCnt, driveVars, isrOn>>

(* The loop of Ide_Write: command, poll, transfer, wait for the interrupt. *)
(* A drive that does not ask for data ignores it.                          *)
WriteCommand(t) ==
  /\ op[t] = "write"
  /\ CmdOut(t, "preparing")
  /\ IoGoto(t, "poll")

WriteTransfer(t) ==
  /\ InDriver(t, "xfer")
  /\ op[t] = "write"
  /\ drive' = IF drive = "accepting" THEN "writing" ELSE drive
  /\ IoGoto(t, "wait")
  /\ UNCHANGED <<vars, op, secCnt, secsDone, expecting, cmdOf, irq, isrOn>>

WriteWait(t) ==
  /\ op[t] = "write"
  /\ WaitDiskDone(t)
  /\ PartDone(t)
  /\ IoGoto(t, "cmd")

(* The test of the BSY bit of the drive's status register. *)
Busy == drive \in {"reading", "preparing", "writing"}

(* A round of Ide_BusyWait.  When its time is up the driver prints a       *)
(* message and goes on to the transfer all the same.                       *)
IoPoll(t) ==
  /\ InDriver(t, "poll")
  /\ \/ Busy /\ SleepCall(t) /\ UNCHANGED ideVars
     \/ /\ Busy => MayStall
        /\ IoGoto(t, "xfer")
        /\ UNCHANGED <<vars, op, secCnt, secsDone, driveVars, isrOn>>

(* The loop is over: Lock_UnLock(&channel->lock) and return. *)
IoEnd(t) ==
  /\ InDriver(t, "cmd")
  /\ secsDone[t] >= secCnt[t]
  /\ IoGoto(t, "unlocking")
  /\ UnlockCall(t, ChanLock)
  /\ UNCHANGED <<op, secCnt, secsDone, driveVars, isrOn>>

IoReturn(t) ==
  /\ InDriver(t, "unlocking")
  /\ IoGoto(t, "idle")
  /\ op' = [op EXCEPT ![t] = "read"]
  /\ secCnt' = [secCnt EXCEPT ![t] = 0]
  /\ secsDone' = [secsDone EXCEPT ![t] = 0]
  /\ UNCHANGED <<vars, driveVars, isrOn>>

(* The rest of the kernel as the driver's tasks use it. *)
KernelStep(t) ==
  /\ \/ LockP(t) \/ LockGot(t)
     \/ LockV(t) \/ UnBlockPush(t) \/ UnBlockReady(t) \/ LockVEnd(t)
     \/ SleepStep(t)
     \/ SysEnter(t)
     \/ t \in IoTasks /\ ioPc[t] = "idle" /\ SysExit(t)
  /\ UNCHANGED ideVars

IoTaskStep(t) ==
  /\ panic = "none"
  /\ cur = t
  /\ isrOn # t
  /\ \/ KernelStep(t)
     \/ /\ t \in IoTasks
        /\ \/ IoBegin(t) \/ IoLocked(t) \/ IoPoll(t) \/ IoEnd(t) \/ IoReturn(t)
           \/ ReadCommand(t) \/ ReadWait(t) \/ ReadTransfer(t)
           \/ WriteCommand(t) \/ WriteTransfer(t) \/ WriteWait(t)

(***************************************************************************)
(* The drive, external to the code: it gets ready for the data of a write  *)
(* without an interrupt, and raises one when a command is complete.        *)
(***************************************************************************)
DriveAccepts ==
  /\ drive = "preparing"
  /\ drive' = "accepting"
  /\ UNCHANGED <<vars, ioVars, expecting, cmdOf, irq, isrOn>>

DriveCompletes ==
  /\ drive \in {"reading", "writing"}
  /\ drive' = "idle"
  /\ irq' = TRUE
  /\ UNCHANGED <<vars, ioVars, expecting, cmdOf, isrOn>>

(***************************************************************************)
(* Ide_IntrHdHandler on the stack of the running task.  Its Lock_V is the  *)
(* one of Sched, so Thread_UnBlock turns interrupts on inside the handler. *)
(***************************************************************************)
DiskIntr ==
  /\ panic = "none"
  /\ intr = "ON"
  /\ irq
  /\ isrOn = NoTask
  /\ irq' = FALSE
  /\ expecting' = FALSE
  /\ IF expecting
     THEN /\ isrOn' = cur
          /\ intr' = "OFF"
          /\ Goto(Isr, "V")
          /\ arg' = [arg EXCEPT ![Isr] = DiskDone]
     ELSE UNCHANGED <<isrOn, intr, pc, arg>>
  /\ UNCHANGED <<cur, status, ready, ticks, resumeIF, lockVars, target, slept,
                 panic, ioVars, drive, cmdOf>>

IsrStep ==
  /\ panic = "none"
  /\ cur = isrOn
  /\ LockV(Isr) \/ UnBlockPush(Isr) \/ UnBlockReady(Isr) \/ LockVEnd(Isr)
  /\ UNCHANGED ideVars

(* The handler returns: iretd restores the flag of the interrupted code.   *)
IsrReturn ==
  /\ panic = "none"
  /\ cur = isrOn
  /\ pc[Isr] = "run"
  /\ isrOn' = NoTask
  /\ intr' = "ON"
  /\ UNCHANGED <<cur, status, ready, ticks, resumeIF, lockVars, ctxVars, panic,
                 ioVars, driveVars>>

IdeNext ==
  \/ TimerIntr /\ UNCHANGED ideVars
  \/ Halted /\ UNCHANGED ideVars
  \/ \E t \in Tasks : IoTaskStep(t)
  \/ panic = "none" /\ (DriveAccepts \/ DriveCompletes)
  \/ DiskIntr \/ IsrStep \/ IsrReturn

IdeSpec == IdeInit /\ [][IdeNext]_allVars

(* Sched's fairness; the interrupt controller delivers the disk interrupt, *)
(* and the drive finishes what it was given.                               *)
IdeFairness ==
  /\ SF_allVars(TimerIntr /\ UNCHANGED ideVars)
  /\ \A t \in Tasks : SF_allVars(IoTaskStep(t))
  /\ SF_allVars(DiskIntr)
  /\ SF_allVars(IsrStep \/ IsrReturn)
  /\ WF_allVars(panic = "none" /\ (DriveAccepts \/ DriveCompletes))

IdeLiveSpec == IdeSpec /\ IdeFairness

-----------------------------------------------------------------------------
(* Types of the driver, and of the kernel below it.                        *)
IdeTypeOK ==
  /\ TypeOK
  /\ ioPc \in [IoTasks -> IoLabels]
  /\ op \in [IoTasks -> {"read", "write"}]
  /\ secCnt \in [IoTasks -> 0 .. MaxSec]
  /\ secsDone \in [IoTasks -> Nat]
  /\ expecting \in BOOLEAN
  /\ drive \in {"idle", "reading", "preparing", "accepting", "writing"}
  /\ cmdOf \in Tasks \cup {NoTask}
  /\ irq \in BOOLEAN
  /\ isrOn \in Tasks \cup {NoTask}

(* ide.c:418, "no need to worry whether this interrupt belongs to this     *)
(* expectingIntr": a task that transfers data finds the drive holding the  *)
(* result of the command it issued itself, or waiting for its data; not    *)
(* even a time-out lets it read what is not there or meet another command. *)
TransferIsOwn ==
  \A t \in IoTasks :
    InDriver(t, "xfer") =>
      /\ cmdOf = t
      /\ IF op[t] = "read" THEN drive = "idle"
         ELSE drive \in {"accepting"} \cup (IF MayStall THEN {"preparing"} ELSE {})

(* A command is written only to a drive that is done with the previous one *)
(* and whose interrupt has been taken.                                     *)
DriveNotOverrun ==
  \A t \in IoTasks :
    InDriver(t, "cmd") /\ secsDone[t] < secCnt[t] =>
      drive = "idle" /\ ~irq /\ ~expecting /\ value[DiskDone] = 0

(* A request moves exactly the sectors it was asked for.                   *)
RequestExact ==
  \A t \in IoTasks : ioPc[t] = "unlocking" => secsDone[t] = secCnt[t]

(* ide.c:207, "block myself, and be woken by the interrupt handler when    *)
(* the disk has finished": every request ends.                             *)
RequestEnds ==
  \A t \in IoTasks : ioPc[t] # "idle" ~> (ioPc[t] = "idle" \/ panic # "none")
=============================================================================
