------------------------------- MODULE MCHitl -------------------------------
(* A small instance of Hitl for TLC. *)
EXTENDS Hitl
=============================================================================
