--------------------------- MODULE MCJobDispatch ---------------------------
(***************************************************************************)
(* JobDispatch for TLC: the primary pool A and the donate pool D.          *)
(***************************************************************************)
EXTENDS JobDispatch, TLC

CONSTANTS a1, a2, d1

PoolOfJob == (a1 :> "A") @@ (a2 :> "A") @@ (d1 :> "D")

\* A nonce of two digits to the base 3, turned round.
SwapDigits(n) == (n % 3) * 3 + n \div 3

\* Nothing tells the two jobs of A apart.
SameJobs == Permutations({a1, a2})
=============================================================================
