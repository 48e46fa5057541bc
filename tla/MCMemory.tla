------------------------------ MODULE MCMemory ------------------------------
(* Memory on small instances, for TLC. *)
EXTENDS Memory, TLC

CONSTANTS k1, k2, p1, p2

(* Kernel threads differ in nothing but their names, nor do processes.     *)
Symmetric == Permutations({k1, k2}) \cup Permutations({p1, p2})
=============================================================================
