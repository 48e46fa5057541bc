------------------------------- MODULE MCDirs -------------------------------
(* Dirs on a small instance, for TLC. *)
EXTENDS Dirs, TLC

CONSTANTS n1, n2, n3, n4

(* Names differ in nothing but their letters. *)
Symmetric == Permutations(Names)
=============================================================================
