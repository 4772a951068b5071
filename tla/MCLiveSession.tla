---------------------------- MODULE MCLiveSession ----------------------------
(* Small instances of LiveSession for TLC. *)
EXTENDS LiveSession
=============================================================================
