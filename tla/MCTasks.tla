------------------------------- MODULE MCTasks ------------------------------
(* Tasks on a small instance, for TLC.                                     *)
EXTENDS Tasks, TLC

CONSTANTS main, a, b, c, d

(* The tasks to come differ in nothing.                                    *)
Symmetric == Permutations(New)
=============================================================================
