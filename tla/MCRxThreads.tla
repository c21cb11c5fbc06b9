---------------------------- MODULE MCRxThreads ----------------------------
(***************************************************************************)
(* RxThreads for TLC: two jobs of two pools.                               *)
(***************************************************************************)
EXTENDS RxThreads, TLC

CONSTANTS j1, j2, opt

TwoJobs  == {j1, j2}
TwoPools == (j1 :> "A") @@ (j2 :> "B")
OneSeed  == [j \in {j1, j2, opt} |-> "s1"]
TwoSeeds == (j1 :> "s1") @@ (j2 :> "s2") @@ (opt :> "s1")
=============================================================================
