--------------------------- MODULE MCTaskProgress ---------------------------
(* A small instance of TaskProgress for TLC. *)
EXTENDS TaskProgress
=============================================================================
