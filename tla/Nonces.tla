------------------------------- MODULE Nonces -------------------------------
(***************************************************************************)
(* Which nonces the threads of one mined job hash and report: the layout   *)
(* of set_job and the threads of RandomX (src/mominer-job.cpp), and the    *)
(* loop of Execute (src/mominer-core.cpp) for CryptoNight and C29.         *)
(*                                                                         *)
(* A nonce has two digits instead of four or eight bytes.  The nonce in a  *)
(* blob is given as the pool reads it: its first byte is the high digit,   *)
(* while the processor reads that byte as the low one.                     *)
(***************************************************************************)
EXTENDS Integers, FiniteSets

CONSTANTS
    Base,              \* values of a digit
    DigitOr(_, _),     \* the bitwise or of two digits
    Workers, Batch,    \* thread_num, and the hashes that one round makes
    Kinds,             \* "cn", "c29" and "rx", as far as a run has them
    Jobs               \* what of a job matters here, see job

ASSUME NoncesAssumption ==
    /\ Base \in Nat \ {0, 1} /\ Workers \in Nat \ {0} /\ Batch \in Nat \ {0}
    /\ Kinds \subseteq {"cn", "c29", "rx"}
    /\ \A a, b \in 0 .. Base - 1 : DigitOr(a, b) \in 0 .. Base - 1
    /\ Jobs \subseteq [masked : BOOLEAN, start : 0 .. Base * Base - 1,
                       blob : 0 .. Base * Base - 1, part : 0 .. Base - 1]

VARIABLES
    kind,      \* what computes the hashes
    job,       \* masked: m_nicehash_mask covers the high digit, or is 0; start:
               \* new_nonce; blob: the nonce that its blob comes with; part: the
               \* high digit that the pool gave, in the blob or as an xn prefix
    on,        \* lanes that hash
    next,      \* m_nonce32 of a core, nonce of a RandomX thread
    input,     \* the nonces in the inputs of a lane
    hashed,    \* the nonces whose hash was computed
    again,     \* whether one was computed again
    named      \* for each hash, if it is below the target: the nonce that its result
               \* bears, and the one that was hashed

vars == <<kind, job, on, next, input, hashed, again, named>>

W        == Base * Base
High(n)  == n \div Base
Swap(n)  == (n % Base) * Base + n \div Base       \* bswap_32

\* A lane is a worker, or one of the threads of a RandomX worker.
Lanes(k) == (0 .. Workers - 1) \X (IF k = "rx" THEN 0 .. Batch - 1 ELSE {0})
Step     == IF kind = "rx" THEN Workers * Batch ELSE Workers      \* nonce_step
Inputs   == IF kind = "cn" THEN Batch ELSE 1

Offset_NoBatch(l) == IF kind = "rx" THEN l[1] + l[2] ELSE l[1]
Offset(l) == IF kind = "rx" THEN l[1] * Batch + l[2] ELSE l[1]

\* The first nonce of a lane, with the part that belongs to the pool.
First(l) ==
    LET n == (job.start + Offset(l)) % W
    IN  IF job.masked THEN DigitOr(High(n), High(job.blob)) * Base + (n % Base) ELSE n

\* The check that "current nonce is greater than previous one and nince hash
\* protected nonce part is not changed".
Overflows(prev, n) == IF job.masked THEN High(prev) # High(n) ELSE prev > n

HashInputs(l) ==
    LET S == {input[l][i] : i \in DOMAIN input[l]}
    IN  /\ hashed' = hashed \cup S
        /\ again' = (again \/ S \cap hashed # {} \/ Cardinality(S) < Inputs)
Result(n, of) == [nonce |-> n, of |-> of]

----------------------------------------------------------------------------
\* set_job has laid out the first inputs.  A RandomX thread has its first hash
\* under way, in randomx_calculate_hash_first.
Init ==
    /\ kind \in Kinds /\ job \in Jobs
    /\ on = Lanes(kind)
    /\ input = [l \in on |-> [i \in 0 .. Inputs - 1 |-> (First(l) + i * Step) % W]]
    /\ next = [l \in on |-> (First(l) + Inputs * Step) % W]
    /\ hashed = {} /\ again = FALSE /\ named = {}

\* A round of Execute has computed the hashes of a lane.
Round(l) ==
    /\ l \in on
    /\ HashInputs(l)
    /\ next' = [next EXCEPT ![l] = (@ + Inputs * Step) % W]
    /\ on' = IF Overflows(next[l], next'[l]) THEN on \ {l} ELSE on
    /\ UNCHANGED <<kind, job>>

\* CryptoNight and its relatives: a result is sent, and the next nonce written to
\* the input as the number that m_nonce32 is, without bswap_32.
ExecuteCn(l) ==
    /\ kind = "cn" /\ Round(l)
    /\ named' = named \cup {Result(input[l][i], input[l][i]) : i \in 0 .. Batch - 1}
    /\ input' = [input EXCEPT ![l] = [i \in 0 .. Batch - 1 |-> Swap((next[l] + i * Step) % W)]]

\* C29: c29_nonce was read from the input before the search.
ExecuteC29(l) ==
    /\ kind = "c29" /\ Round(l)
    /\ named' = named \cup {Result(input[l][0], input[l][0])}
    /\ input' = [input EXCEPT ![l] = [i \in {0} |-> next[l]]]

RxLoop_NoStepBack(l) ==
    /\ kind = "rx" /\ l \in on
    /\ next' = [next EXCEPT ![l] = (@ + Step) % W]
    /\ \/ /\ Overflows(next[l], next'[l])
          /\ on' = on \ {l}
          /\ UNCHANGED <<input, hashed, again, named>>
       \/ /\ ~ Overflows(next[l], next'[l])
          /\ HashInputs(l)
          /\ named' = named \cup {Result(next'[l], input[l][0])}
          /\ input' = [input EXCEPT ![l] = [i \in {0} |-> next'[l]]]
          /\ UNCHANGED on
    /\ UNCHANGED <<kind, job>>

\* The loop of a RandomX thread: randomx_calculate_hash_next starts the hash of
\* the input that was just written and gives the one that was under way.
RxLoop(l) ==
    /\ kind = "rx" /\ l \in on
    /\ next' = [next EXCEPT ![l] = (@ + Step) % W]
    /\ \/ /\ Overflows(next[l], next'[l])
          /\ on' = on \ {l}
          /\ UNCHANGED <<input, hashed, again, named>>
       \/ /\ ~ Overflows(next[l], next'[l])
          /\ HashInputs(l)
          /\ named' = named \cup {Result((next'[l] - Step) % W, input[l][0])}
          /\ input' = [input EXCEPT ![l] = [i \in {0} |-> next'[l]]]
          /\ UNCHANGED on
    /\ UNCHANGED <<kind, job>>

Next == \E l \in on : ExecuteCn(l) \/ ExecuteC29(l) \/ RxLoop(l)

Spec == Init /\ [][Next]_vars

----------------------------------------------------------------------------
(* Properties.                                                             *)

\* The pool's part of the nonce "is not changed" in what is hashed
\* (mominer-core.cpp:526, mominer-job.cpp:355).
PoolPartKept == job.masked => \A n \in hashed : High(n) = job.part

\* What the miner may choose of a nonce lasts from the start of the job beyond the
\* first step of each lane, which set_job makes without a check
\* (mominer-job.cpp:348, 401, 407), and it does start in the pool's part.
HasRoom ==
    LET own == IF job.masked THEN Base ELSE W
    IN  /\ (job.start % own) + 2 * Step - 1 < own
        /\ job.masked => DigitOr(High(job.start), High(job.blob)) = job.part

\* Where nonces are written in the order of the check, the part of the pool is
\* kept up to the overflow, and the threads of all workers never hash a nonce
\* twice (mominer-job.cpp:343-345, 394-409).
LanesKeepApart == kind # "cn" /\ HasRoom => PoolPartKept /\ ~ again

\* A result names the nonce that was hashed.  Only the first result of a RandomX
\* thread names the one after it, which that thread steps over and no other thread
\* hashes: the hashes of two nonces are never named alike (mominer-job.cpp:348-350,
\* 382).
NamedOnce ==
    HasRoom => \A r \in named :
        /\ r.nonce # r.of => kind = "rx" /\ \E l \in Lanes(kind) : r.of = First(l)
        /\ \A q \in named : q.nonce = r.nonce => q = r
=============================================================================
