---------------------------- MODULE MCFindCycles ----------------------------
(***************************************************************************)
(* Constants of the TLC run of FindCycles: three nodes on each             *)
(* side, one number of which is a node of both sides.                      *)
(***************************************************************************)
EXTENDS FindCycles
U == {1, 2, 3}
V == {3, 4, 5}
=============================================================================
