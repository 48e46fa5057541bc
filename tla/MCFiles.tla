------------------------------ MODULE MCFiles -------------------------------
(* Files on small instances, for TLC. *)
EXTENDS Files

CONSTANTS k1, p1, p2, p3
=============================================================================
