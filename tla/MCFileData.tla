----------------------------- MODULE MCFileData -----------------------------
(* FileData on small instances, for TLC. *)
EXTENDS FileData

CONSTANTS w, r
=============================================================================
