--------------------------- MODULE MCCommandQueue ---------------------------
(* A small instance of CommandQueue for TLC. *)
EXTENDS CommandQueue
=============================================================================
