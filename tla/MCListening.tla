---------------------------- MODULE MCListening ----------------------------
(* Small instances of Listening for TLC. *)
EXTENDS Listening
=============================================================================
