------------------------------ MODULE MCSched ------------------------------
(* Sched on small instances, for TLC. *)
EXTENDS Sched

CONSTANTS main, ta, pa, pb

(* Time slices of one tick: a task is preempted at its second interrupt.   *)
Slices == [t \in Tasks |-> 1]
=============================================================================
