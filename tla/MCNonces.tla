------------------------------ MODULE MCNonces ------------------------------
(***************************************************************************)
(* Constants of the TLC runs of Nonces: two workers with two hashes each,  *)
(* and digits of sixteen values, which leaves a masked job three rounds.   *)
(***************************************************************************)
EXTENDS Nonces, Bitwise
OrOfBits(a, b) == a | b
AllKinds == {"cn", "c29", "rx"}
OnlyCn   == {"cn"}

Masked(from, in) == [masked |-> TRUE, start |-> from, blob |-> in, part |-> 3]
Plain(from)      == [masked |-> FALSE, start |-> from, blob |-> 0, part |-> 0]

\* A job with the pool's part in its blob, the same resumed, one with an xn
\* prefix, and one without a mask.
PoolJobs == {Masked(0, 48), Masked(50, 48), Masked(48, 0), Plain(232)}

\* Masked jobs without room: resumed shortly before the end of the range, and from
\* a last nonce at which the overflow check had stopped.
LateJobs == {Masked(60, 48), Masked(66, 48)}
AllJobs  == PoolJobs \cup LateJobs
=============================================================================
