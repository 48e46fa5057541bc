------------------------------- MODULE Mutex -------------------------------
(***************************************************************************)
(* What the kernel's Lock promises its callers (kernel/sync.h): a re-      *)
(* entrant lock.  A free lock is granted to one task; only that task       *)
(* enters it again or leaves it, and it becomes free again only after its  *)
(* owner has left it as often as it entered it.                            *)
(***************************************************************************)
EXTENDS Naturals

CONSTANTS Tasks, Locks, NoTask

VARIABLES owner,   \* the task a lock is granted to, or NoTask
          depth    \* how often the owner is inside

mutexVars == <<owner, depth>>

Init ==
  /\ owner = [l \in Locks |-> NoTask]
  /\ depth = [l \in Locks |-> 0]

Grant(t, l) ==
  /\ owner[l] = NoTask
  /\ depth[l] = 0
  /\ owner' = [owner EXCEPT ![l] = t]
  /\ UNCHANGED depth

Enter(t, l) ==
  /\ owner[l] = t
  /\ depth' = [depth EXCEPT ![l] = @ + 1]
  /\ UNCHANGED owner

Leave(t, l) ==
  /\ owner[l] = t
  /\ depth[l] > 0
  /\ depth' = [depth EXCEPT ![l] = @ - 1]
  /\ UNCHANGED owner

Free(t, l) ==
  /\ owner[l] = t
  /\ depth[l] = 0
  /\ owner' = [owner EXCEPT ![l] = NoTask]
  /\ UNCHANGED depth

Next == \E t \in Tasks, l \in Locks :
          Grant(t, l) \/ Enter(t, l) \/ Leave(t, l) \/ Free(t, l)

Spec == Init /\ [][Next]_mutexVars
=============================================================================
