------------------------------ MODULE MCMaster ------------------------------
(***************************************************************************)
(* Constants of the TLC run of Master: two algorithms in the order of the  *)
(* benchmarks, and one with two workers for the other directives.          *)
(***************************************************************************)
EXTENDS Master
CONSTANTS cn, ghost, argon
ThreeAlgos == {cn, ghost, argon}
TwoForArgon == [x \in ThreeAlgos |-> IF x = argon THEN 2 ELSE 1]
CnThenGhost == <<cn, ghost>>
AllWays    == {"mine", "bench", "test", "algo_params"}
Writable   == {"off", "none", "rw"}
=============================================================================
