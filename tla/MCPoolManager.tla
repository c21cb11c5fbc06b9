--------------------------- MODULE MCPoolManager ---------------------------
(***************************************************************************)
(* Constants of the TLC runs of PoolManager.  The timings are the          *)
(* shortest ones that keep the order of the defaults of src/opts.js where  *)
(* the code relies on it (TimesAssumption).                                *)
(***************************************************************************)
EXTENDS PoolManager
CONSTANTS j1, j2
OneJob  == {j1}
TwoJobs == {j1, j2}
=============================================================================
