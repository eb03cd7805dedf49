------------------------------ MODULE MCBridge ------------------------------
(***************************************************************************)
(* Bounds for Bridge.                                                      *)
(***************************************************************************)
EXTENDS Bridge

CONSTANTS hello, status, big, pose, info, bad, long
=============================================================================
