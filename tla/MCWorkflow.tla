------------------------------ MODULE MCWorkflow ------------------------------
(* Small instances of Workflow for TLC. *)
EXTENDS Workflow
=============================================================================
