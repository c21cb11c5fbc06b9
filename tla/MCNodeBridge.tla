---------------------------- MODULE MCNodeBridge ----------------------------
(***************************************************************************)
(* Constants of the TLC run of NodeBridge.                                 *)
(***************************************************************************)
EXTENDS NodeBridge
CONSTANTS core, t1, none
OneThread == {t1}
=============================================================================
