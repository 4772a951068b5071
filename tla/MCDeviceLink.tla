---------------------------- MODULE MCDeviceLink ----------------------------
(* A small instance of DeviceLink for TLC. *)
EXTENDS DeviceLink
=============================================================================
