---------------------------- MODULE MCC29Search ----------------------------
(***************************************************************************)
(* C29Search for TLC: two jobs.                                            *)
(***************************************************************************)
EXTENDS C29Search

CONSTANTS j1, j2

TwoJobs == {j1, j2}
=============================================================================
