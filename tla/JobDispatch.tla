----------------------------- MODULE JobDispatch -----------------------------
(***************************************************************************)
(* How a job of a pool reaches the compute cores and how its nonces come   *)
(* back.  The master (mominer.js) sends the active pool's job to all       *)
(* worker processes; the core of each (Core::Execute, for the algos that   *)
(* are not RandomX) hashes the nonces of its residue class and, when the   *)
(* next job comes, answers with the first nonce it did not use.  For a     *)
(* pool in the background the master keeps the largest answer, to resume   *)
(* the pool's job from there.                                              *)
(*                                                                         *)
(* Which pool is active when is the subject of PoolManager; here a pool    *)
(* with a job may become active at any time.  All jobs have one algo and   *)
(* device, so the workers stay, one size of nonces, and neither "xn" nor a *)
(* nicehash mask.  A nonce stands for the bytes that the blob has for it   *)
(* with the most significant byte first; Swap turns them round.            *)
(***************************************************************************)
EXTENDS Integers, Sequences, FiniteSets

CONSTANTS
    Pools, Primary, Donate,
    Jobs, PoolOf,    \* the jobs that pools send, each once
    NoJob,
    Algo,            \* "cn" stands for all algos on m_fn.cpu and m_fn.gpu_cn
    Swap(_),         \* bswap_32
    Cores,           \* number of worker processes: thread_num
    Batch,           \* m_batch
    Range,           \* 2^32
    MaxQueue         \* bound: messages on the way to or from a core

Core   == 1 .. Cores
Nonces == 0 .. Range - 1

ASSUME DispatchAssumption ==
    /\ Primary \in Pools /\ Donate \in Pools \ {Primary}
    /\ (\A j \in Jobs : PoolOf[j] \in Pools) /\ NoJob \notin Jobs
    /\ Cores \in Nat \ {0} /\ Batch \in Nat \ {0} /\ Range \in Nat
    /\ Range >= Cores * Batch /\ MaxQueue \in Nat
    /\ Algo \in {"cn", "c29"} /\ (Algo = "c29" => Batch = 1)
    /\ \A n \in Nonces : Swap(n) \in Nonces

VARIABLES
    active,    \* global.opt.pool_ids.active
    stored,    \* last_job of each pool, with the nonce kept for it (0: none)
    last,      \* last_job: what was sent to the workers last
    fresh,     \* the jobs no pool has sent yet
    inbox,     \* messages to each core
    outbox,    \* last_nonce messages from each core
    core,      \* m_fn, m_input_hex, m_pool_id, m_nonce32 and the nonces of m_input
    hashed,    \* history: the nonces in the inputs hashed for each job
    wrapped    \* history: a nonce has passed the end of the range

master == <<active, stored, last, fresh>>
vars   == <<master, inbox, outbox, core, hashed, wrapped>>

NoPool    == "none"
JobOrNull == Jobs \cup {NoJob}

\* What is kept for a pool, and the messages to and from the cores.
Entry  == [job : JobOrNull, nonce : Nonces]
Msg    == [type : {"job", "pause"}, job : JobOrNull, nonce : Nonces, pool : Pools]
Answer == [nonce : Nonces \ {0}, pool : Pools]

Empty  == [job |-> NoJob, nonce |-> 0]

----------------------------------------------------------------------------
(* The master.  A definition whose name has an underscore and a suffix is  *)
(* a faulty variant of the next one; no specification uses it.             *)

\* messageWorkers.
ToWorkers(msg) ==
    /\ \A c \in Core : Len(inbox[c]) < MaxQueue
    /\ inbox' = [c \in Core |-> Append(inbox[c], msg)]

StartNonce_Always0(job) == 0

\* The nonce of a job: the one kept for it, else that of the job sent before.
StartNonce(job) == IF job.nonce # 0 THEN job.nonce ELSE last.nonce

\* set_job, for the active pool p.
SetJob(p, job) ==
    /\ last' = [job |-> job.job, nonce |-> StartNonce(job)]
    /\ ToWorkers([type |-> "job", job |-> job.job, nonce |-> StartNonce(job), pool |-> p])

\* pool_message: the first job of the primary or of the donate pool makes it
\* active; the active pool's job is sent to the workers, another one is kept.
PoolJob(job) ==
    LET p == PoolOf[job]
        entry == [job |-> job, nonce |-> 0]
    IN  /\ job \in fresh
        /\ fresh' = fresh \ {job}
        /\ stored' = [stored EXCEPT ![p] = entry]
        /\ active' = IF stored[p].job = NoJob /\ p \in {Primary, Donate} THEN p ELSE active
        /\ IF active' = p THEN SetJob(p, entry) ELSE UNCHANGED <<last, inbox>>
        /\ UNCHANGED <<outbox, core, hashed, wrapped>>

\* pool_message: the active pool sends its last job once more, say with another
\* target.  The nonce kept for the job is gone, that of last_job goes on.  A pool
\* in the background is taken not to do so: what is kept for its job would be lost.
SendAgain ==
    LET job == stored[active].job
        entry == [job |-> job, nonce |-> 0]
    IN  /\ job # NoJob
        /\ stored' = [stored EXCEPT ![active] = entry]
        /\ SetJob(active, entry)
        /\ UNCHANGED <<active, fresh, outbox, core, hashed, wrapped>>

\* A closed socket takes the pool's job along.
PoolLost(p) ==
    /\ stored[p].job # NoJob
    /\ stored' = [stored EXCEPT ![p] = Empty]
    /\ UNCHANGED <<active, last, fresh, inbox, outbox, core, hashed, wrapped>>

\* switch_pool, for a pool that has a job: the job is resumed.
Resume(p) ==
    /\ p \notin {active, Donate}
    /\ stored[p].job # NoJob
    /\ active' = p
    /\ SetJob(p, stored[p])
    /\ UNCHANGED <<stored, fresh, outbox, core, hashed, wrapped>>

\* switch_pool, when only the donate pool may have a job: the next pool is to be
\* connected, and the workers do not go on for the donate pool.
GiveUp(p) ==
    /\ p \notin {active, Donate}
    /\ \A q \in Pools \ {active, Donate} : stored[q].job = NoJob
    /\ active' = p
    /\ IF active = Donate
       THEN ToWorkers([type |-> "pause", job |-> NoJob, nonce |-> 0, pool |-> p])
       ELSE UNCHANGED inbox
    /\ UNCHANGED <<stored, last, fresh, outbox, core, hashed, wrapped>>

LastNonce_Latest(c) ==
    LET msg == Head(outbox[c]) IN
    /\ outbox[c] # <<>>
    /\ outbox' = [outbox EXCEPT ![c] = Tail(@)]
    /\ stored' = IF msg.pool = active \/ stored[msg.pool].job = NoJob
                 THEN stored
                 ELSE [stored EXCEPT ![msg.pool].nonce = msg.nonce]
    /\ UNCHANGED <<active, last, fresh, inbox, core, hashed, wrapped>>

\* messageHandler, "last_nonce": "store max last nonce for background pool job".
LastNonce(c) ==
    LET msg == Head(outbox[c]) IN
    /\ outbox[c] # <<>>
    /\ outbox' = [outbox EXCEPT ![c] = Tail(@)]
    /\ stored' = IF \/ msg.pool = active
                    \/ stored[msg.pool].job = NoJob
                    \/ stored[msg.pool].nonce >= msg.nonce
                 THEN stored
                 ELSE [stored EXCEPT ![msg.pool].nonce = msg.nonce]
    /\ UNCHANGED <<active, last, fresh, inbox, core, hashed, wrapped>>

----------------------------------------------------------------------------
(* The cores.                                                              *)

First_NoThread(c, start) == start

\* The first nonce of core c, whose thread_id is c - 1, in a job that starts at start.
First(c, start) == start + (c - 1)

After_NoWidth(first) == first + Batch * Cores

\* The nonces of a batch and the one after them, from the first nonce on.
BatchFrom(first) == {(first + i * Cores) % Range : i \in 0 .. Batch - 1}
After(first)     == (first + Batch * Cores) % Range

Rewritten_NoSwap(n) == Swap(n)

\* How the number n reads in the blob when a round writes it after the one that
\* set_job wrote: only c29 turns the bytes round as set_job does.
Rewritten(n) == IF Algo = "c29" THEN n ELSE Swap(n)

Duplicate_Never(c, msg) == FALSE

\* The blob is the one that is set up.
Duplicate(c, msg) == msg.job = core[c].job

\* process_message, "job": the blob that is already set up is ignored, else the
\* job is set up, and the core answers with the first nonce it has not used.
\* m_fn is set for the first job only, since the algo stays the same.
TakeJob(c) ==
    LET msg   == Head(inbox[c])
        first == First(c, msg.nonce)
    IN  /\ inbox[c] # <<>> /\ msg.type = "job" /\ Len(outbox[c]) < MaxQueue
        /\ inbox' = [inbox EXCEPT ![c] = Tail(@)]
        /\ IF Duplicate(c, msg)
           THEN UNCHANGED <<core, outbox, wrapped>>
           ELSE /\ core' = [core EXCEPT ![c] =
                     [fn |-> @.fn \/ @.job = NoJob, job |-> msg.job, pool |-> msg.pool,
                      input |-> BatchFrom(first), next |-> After(first)]]
                /\ outbox' = IF core[c].next = 0 THEN outbox
                             ELSE [outbox EXCEPT ![c] =
                               Append(@, [nonce |-> core[c].next, pool |-> core[c].pool])]
                /\ wrapped' = (wrapped \/ first + Batch * Cores >= Range)
        /\ UNCHANGED <<master, hashed>>

TakePause(c) ==
    /\ inbox[c] # <<>> /\ Head(inbox[c]).type = "pause"
    /\ inbox' = [inbox EXCEPT ![c] = Tail(@)]
    /\ core' = [core EXCEPT ![c].fn = FALSE]
    /\ UNCHANGED <<master, outbox, hashed, wrapped>>

\* A round of Execute: the batch is hashed, and unless the nonce overflows the
\* next batch follows.  A round of c29 that returns a solution passes its nonce
\* over; here the nonce counts as hashed all the same.
Hash(c) ==
    LET first == core[c].next IN
    /\ core[c].fn /\ first # 0
    /\ hashed' = [hashed EXCEPT ![core[c].job] = @ \cup core[c].input]
    /\ core' = [core EXCEPT ![c] =
         [@ EXCEPT !.input = {Rewritten(n) : n \in BatchFrom(first)}, !.next = After(first),
                   !.fn = first <= After(first)]]
    /\ wrapped' = (wrapped \/ first + Batch * Cores >= Range)
    /\ UNCHANGED <<master, inbox, outbox>>

\* The same with a next nonce of 0, which stands for a test job: the result goes
\* out as that of a test, m_input_len becomes 0, and the core stops.  That of c29
\* goes on as long as searches run.
HashAsTest(c, goesOn) ==
    /\ core[c].fn /\ core[c].next = 0
    /\ goesOn => Algo = "c29"
    /\ Algo = "c29" /\ core[c].input # {} => goesOn
    /\ hashed' = [hashed EXCEPT ![core[c].job] = @ \cup core[c].input]
    /\ core' = [core EXCEPT ![c] = [@ EXCEPT !.fn = goesOn, !.input = {}]]
    /\ UNCHANGED <<master, inbox, outbox, wrapped>>

----------------------------------------------------------------------------
Init ==
    /\ active = Primary
    /\ stored = [p \in Pools |-> Empty]
    /\ last = Empty
    /\ fresh = Jobs
    /\ inbox = [c \in Core |-> <<>>]
    /\ outbox = [c \in Core |-> <<>>]
    /\ core = [c \in Core |->
         [fn |-> FALSE, job |-> NoJob, pool |-> NoPool, input |-> {}, next |-> 0]]
    /\ hashed = [j \in Jobs |-> {}]
    /\ wrapped = FALSE

Master ==
    \/ \E job \in Jobs : PoolJob(job)
    \/ SendAgain
    \/ \E p \in Pools : PoolLost(p) \/ Resume(p) \/ GiveUp(p)
    \/ \E c \in Core : LastNonce(c)

Next ==
    \/ Master
    \/ \E c \in Core : TakeJob(c) \/ TakePause(c) \/ Hash(c)
    \/ \E c \in Core, goesOn \in BOOLEAN : HashAsTest(c, goesOn)

Spec == Init /\ [][Next]_vars

\* The pools do not change while messages are on their way.
Quiet == \A c \in Core : inbox[c] = <<>> /\ outbox[c] = <<>>

QuietSpec == Init /\ [][Next /\ (active' # active => Quiet)]_vars

----------------------------------------------------------------------------
(* Properties.                                                             *)

TypeOK ==
    /\ active \in Pools
    /\ stored \in [Pools -> Entry] /\ last \in Entry
    /\ fresh \subseteq Jobs
    /\ inbox \in [Core -> Seq(Msg)] /\ outbox \in [Core -> Seq(Answer)]
    /\ core \in [Core -> [fn : BOOLEAN, job : JobOrNull, pool : Pools \cup {NoPool},
                          input : SUBSET Nonces, next : Nonces]]
    /\ hashed \in [Jobs -> SUBSET Nonces]
    /\ wrapped \in BOOLEAN

\* No nonce of a c29 job is hashed twice: the threads' nonces are apart, a job
\* that is resumed goes on behind all of them, and one that is sent again is not
\* started again (mominer.js:173-183, mominer-job.cpp:168, 393-410).  Once a nonce
\* has passed the range's end this is lost; for the other algos it is false, since
\* the rounds write their nonces as Rewritten says.
NoRework ==
    [][\A c \in Core : Hash(c) /\ Algo = "c29" /\ ~ wrapped =>
         core[c].input \cap hashed[core[c].job] = {}]_vars

\* A core that sets a new job up hashes it (mominer-job.cpp:237-309).
AcceptedJobIsHashed ==
    [][\A c \in Core : TakeJob(c) /\ core'[c].job # core[c].job => core'[c].fn]_vars
=============================================================================
