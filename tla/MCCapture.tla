----------------------------- MODULE MCCapture -----------------------------
(* A small instance of Capture for TLC.  Perceptions are interchangeable and *)
(* no liveness is checked.                                                   *)
EXTENDS Capture, TLC

Symmetric == Permutations(Perception)
=============================================================================
