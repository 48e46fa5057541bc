---------------------------- MODULE MemoryApart -----------------------------
(***************************************************************************)
(* Memory with only kernel threads, or only processes, in their own        *)
(* address spaces.  A process that starts and somebody who takes kernel    *)
(* pages can be given the same page.                                       *)
(***************************************************************************)
EXTENDS Memory

VARIABLE side   \* the tasks that run

ApartInit == Init /\ side \in {KThreads, Procs}

ApartNext ==
  /\ (\E t \in side : TaskStep(t)) \/ Halted
  /\ side = Procs => \A t \in Procs : pc'[t] # "idle" => req'[t].s # Kernel \/ pc'[t] = "start"
  /\ UNCHANGED side

ApartSpec == ApartInit /\ [][ApartNext]_<<vars, side>>
=============================================================================
