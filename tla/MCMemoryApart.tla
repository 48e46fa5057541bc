--------------------------- MODULE MCMemoryApart ----------------------------
(* MemoryApart on a small instance, for TLC. *)
EXTENDS MCMemory, MemoryApart
=============================================================================
