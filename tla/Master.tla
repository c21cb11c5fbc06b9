------------------------------- MODULE Master -------------------------------
(***************************************************************************)
(* The master process (src/mominer.js): its directives, the MSR registers  *)
(* that its compute core tunes, the benchmarks of "mine", its workers and  *)
(* its exit.  Mining itself is a pool that asks for an algorithm           *)
(* (JobPools); PoolManager and JobDispatch model what start_mining begins. *)
(*                                                                         *)
(* The two queues to the compute core are FIFO, as NodeBridge shows.       *)
(***************************************************************************)
EXTENDS Workers

CONSTANTS
    Directives,    \* what the miner may be started for
    Tunings,       \* what becomes of MSR access, see Init
    Order,         \* the algorithms in the order of opt.algo_params
    JobAlgo,       \* opt.job.algo, of the bench and the test directive
    MaxJobs, MaxFaults    \* bounds of jobs, and of crashes and hangs

ASSUME MasterAssumption ==
    /\ Directives \subseteq {"mine", "bench", "test", "algo_params"}
    /\ Tunings \subseteq {"off", "none", "rw", "ro"}
    /\ Order \in Seq(Algos) /\ JobAlgo \in Algos
    /\ MaxJobs \in Nat /\ MaxFaults \in Nat

VARIABLES
    directive, tuning,
    subprocess,    \* use_subprocess_workers
    ws,            \* the workers
    core,          \* compute_core is not null
    coreIn,        \* messages to it
    coreOut,       \* its messages and errors, which JavaScript has not got
         \* the read_msr and the error handler are set
    known,         \* opt.default_msrs is not empty
    msr,           \* what the registers hold
    measured,      \* algorithms whose perf is not null
    cb,            \* algo_params_bench_cb: the benchmark it belongs to
    timeouts,      \* the benchmarks whose timeout is pending
    rates,         \* the keys of thread_hashrates
    last,          \* last_job.algo
    answered,      \* workers that answered the test
    starts,        \* calls of start_mining
    jobs, faults,  \* jobs and faults, so far
    master         \* the process: "grace" after exit()

env     == <<directive, tuning, subprocess>>
msrVars == <<core, coreIn, coreOut, known, msr>>
benches == <<measured, cb, timeouts, rates, last, starts>>
rest    == <<answered, jobs, faults>>
vars    == <<env, ws, msrVars, benches, rest, master>>

Running == master \in {"up", "grace"}
Exiting == master # "up"

\* A benchmark: its algorithm and the closure of its chain, the algorithms that
\* are left; its number tells its timer from others.
Bench(n, a, left) == [n |-> n, algo |-> a, left |-> left]
NoBench == Bench(0, NoAlgo, <<>>)

CoreMsg     == [type : {"algo_params", "read_msr", "write_msr", "close"},
                algo : Algos \cup {NoAlgo}]
CoreEvent   == {"algo_params", "read_msr", "error", "close"}
WriteFor(a) == [type |-> "write_msr", algo |-> a]
Plain(t)    == [type |-> t, algo |-> NoAlgo]

\* set_algo_msr
SetAlgoMsr(ci, a, k) == IF k /\ core THEN Append(ci, WriteFor(a)) ELSE ci

----------------------------------------------------------------------------
(* Benchmarks.                                                             *)

\* The rest of a chain from its next algorithm without perf on.
Skip(left, done) ==
    LET todo == {i \in DOMAIN left : left[i] \notin done}
    IN  IF todo = {} THEN <<>>
        ELSE SubSeq(left, CHOOSE i \in todo : \A j \in todo : i <= j, Len(left))

NextBench_KeepsCallback(left, done, ts, ci, k) ==
    LET todo == Skip(left, done)
        a    == Head(todo)
        b    == Bench(ws.gen + 1, a, Tail(todo))
    IN  /\ measured' = done
        /\ \/ /\ todo = <<>>
              /\ starts' = starts + 1
              /\ coreIn' = ci /\ timeouts' = ts
              /\ UNCHANGED <<ws, last, cb>>
           \/ /\ todo # <<>> /\ ws.gen < MaxGen
              /\ ws' = MessageWorkers(Recreate(ws, Threads[a]), Work("bench", a))
              /\ timeouts' = ts \cup {b} /\ cb' = b
              /\ coreIn' = SetAlgoMsr(ci, a, k)
              /\ last' = a
              /\ UNCHANGED starts

\* bench_algos and bench_algo, or start_mining at the end of the chain; ts are
\* the timeouts and k whether default_msrs is known at the moment of the call.
NextBench(left, done, ts, ci, k) ==
    LET todo == Skip(left, done)
        a    == Head(todo)
        b    == Bench(ws.gen + 1, a, Tail(todo))
    IN  /\ measured' = done
        /\ \/ /\ todo = <<>>
              /\ starts' = starts + 1
              /\ coreIn' = ci /\ timeouts' = ts /\ cb' = NoBench
              /\ UNCHANGED <<ws, last>>
           \/ /\ todo # <<>> /\ ws.gen < MaxGen
              /\ ws' = MessageWorkers(Recreate(ws, Threads[a]), Work("bench", a))
              /\ timeouts' = ts \cup {b} /\ cb' = b
              /\ coreIn' = SetAlgoMsr(ci, a, k)
              /\ last' = a
              /\ UNCHANGED starts

BenchTimeout_NotNext(b) ==
    /\ Running /\ b \in timeouts
    /\ timeouts' = timeouts \ {b} /\ measured' = measured \cup {b.algo} /\ cb' = NoBench
    /\ UNCHANGED <<env, ws, msrVars, rates, last, starts, rest, master>>

\* The timeout of a benchmark, after two minutes: its perf is 0.
BenchTimeout(b) ==
    /\ Running /\ b \in timeouts
    /\ NextBench(b.left, measured \cup {b.algo}, timeouts \ {b}, coreIn, known)
    /\ UNCHANGED <<env, core, coreOut, known, msr, rates, rest, master>>

\* A worker that works sends a hashrate each minute, or the answer of a test.  A
\* message is received before the "exit" event of its process, maybe after its end.
Reports(v) == v \in (ws.alive \cup ws.exits) \ ws.hung /\ ws.doing[v] # NoAlgo

\* messageHandler, "hashrate": when each thread of the last job's device has
\* one, it is the result of the benchmark at hand.
Hashrate(v) ==
    /\ Running /\ Reports(v) /\ directive # "test"
    /\ \/ /\ Cardinality(rates \cup {v.idx}) < Threads[last]
          /\ rates' = rates \cup {v.idx}
          /\ UNCHANGED <<ws, coreIn, measured, cb, timeouts, last, starts>>
       \/ /\ Cardinality(rates \cup {v.idx}) >= Threads[last]
          /\ rates' = {}
          /\ \/ /\ cb = NoBench
                /\ UNCHANGED <<ws, coreIn, measured, cb, timeouts, last, starts>>
             \/ /\ cb # NoBench
                /\ NextBench(cb.left, measured \cup {cb.algo}, timeouts \ {cb}, coreIn, known)
    /\ UNCHANGED <<env, core, coreOut, known, msr, rest, master>>

----------------------------------------------------------------------------
(* Exit.                                                                   *)

ExitCalls_CloseFirst(s, force) ==
    /\ coreIn' = IF ~ core THEN coreIn
                 ELSE Append(coreIn, Plain("close"))
                      \o (IF known THEN <<WriteFor(NoAlgo)>> ELSE <<>>)
    /\ core' = FALSE
    /\ ws' = CloseWorkers(s, force)

\* exit: the registers are written back, core and workers are closed.
ExitCalls(s, force) ==
    /\ coreIn' = IF ~ core THEN coreIn
                 ELSE (IF known THEN Append(coreIn, WriteFor(NoAlgo)) ELSE coreIn)
                      \o <<Plain("close")>>
    /\ core' = FALSE
    /\ ws' = CloseWorkers(s, force)

\* on_exit, for a signal: the second one ends the process at once.
Signal ==
    /\ Running /\ directive \in {"mine", "bench"}
    /\ \/ /\ ~ Exiting
          /\ ExitCalls(ws, TRUE)
          /\ master' = "grace"
       \/ /\ Exiting
          /\ master' = "forced"
          /\ UNCHANGED <<ws, core, coreIn>>
    /\ UNCHANGED <<env, coreOut, known, msr, benches, rest>>

\* The timer of exit.  Five seconds are enough for the core to write registers.
ExitTimer ==
    /\ master = "grace" /\ coreIn = <<>>
    /\ master' = "ended"
    /\ UNCHANGED <<env, ws, msrVars, benches, rest>>

\* exit for test and algo_params, which ends the process at once.
ExitNow(s) ==
    /\ ExitCalls(s, FALSE)
    /\ master' = "ended"

----------------------------------------------------------------------------
(* The compute core of the master and its events.                          *)

TunedMsr(a) == IF a = NoAlgo THEN "default" ELSE "tuned"

\* Core::process_message.  Each algorithm of the model is one that tunes MSRs.
CoreTakes ==
    /\ Running /\ coreIn # <<>>
    /\ LET m == Head(coreIn)
           Answer(t) == coreOut' = Append(coreOut, t)
       IN  \/ /\ m.type \in {"algo_params", "close"}
              /\ Answer(m.type) /\ UNCHANGED msr
           \/ /\ m.type = "read_msr" /\ tuning \in {"rw", "ro"}
              /\ Answer("read_msr") /\ UNCHANGED msr
           \/ /\ m.type = "write_msr" /\ tuning = "rw"
              /\ msr' = TunedMsr(m.algo) /\ UNCHANGED coreOut
           \/ /\ \/ m.type = "write_msr" /\ tuning # "rw"
                 \/ m.type = "read_msr" /\ tuning = "none"
              /\ Answer("error") /\ UNCHANGED msr
    /\ coreIn' = IF Head(coreIn).type = "close" THEN <<>> ELSE Tail(coreIn)
    /\ UNCHANGED <<env, ws, core, known, benches, rest, master>>

Event(t) ==
    /\ Running /\ coreOut # <<>> /\ Head(coreOut) = t
    /\ coreOut' = Tail(coreOut)
    /\ UNCHANGED <<env, msr, rates, rest>>

\* The "algo_params" event: end for the directive of that name; otherwise read
\* the registers, or where there is no tuning go to the benchmarks.  After
\* exit() there is no core to set handlers on: the exception ends the process.
AlgoParamsEvent ==
    /\ Event("algo_params")
    /\ \/ /\ directive = "algo_params"
          /\ ExitNow(ws)
          /\ UNCHANGED <<known, measured, cb, timeouts, last, starts>>
       \/ /\ directive = "mine" /\ tuning # "off" /\ core
          /\ coreIn' = Append(coreIn, Plain("read_msr"))
          /\ UNCHANGED <<ws, core, known, measured, cb, timeouts, last, starts, master>>
       \/ /\ directive = "mine" /\ tuning # "off" /\ ~ core
          /\ master' = "forced"
          /\ UNCHANGED <<ws, core, coreIn, known, measured, cb, timeouts, last, starts>>
       \/ /\ directive = "mine" /\ tuning = "off"
          /\ NextBench(Order, measured, timeouts, coreIn, FALSE)
          /\ UNCHANGED <<core, known, master>>

\* The "read_msr" event: the benchmarks, or the one of the bench directive.
ReadEvent ==
    /\ Event("read_msr")
    /\ known' = TRUE
    /\ \/ /\ directive = "mine"
          /\ NextBench(Order, measured, timeouts, coreIn, TRUE)
       \/ /\ directive = "bench"
          /\ coreIn' = SetAlgoMsr(coreIn, JobAlgo, TRUE)
          /\ ws' = MessageWorkers(ws, Work("bench", JobAlgo))
          /\ last' = JobAlgo
          /\ UNCHANGED <<measured, cb, timeouts, starts>>
    /\ UNCHANGED <<core, master>>

\* The "error" event.  The handler stays, so it also gets the errors of writes.
ErrorEvent ==
    /\ Event("error")
    /\ \/ /\ directive = "mine"
          /\ known' = FALSE
          /\ NextBench(Order, measured, timeouts, coreIn, FALSE)
       \/ /\ directive = "bench"
          /\ ws' = MessageWorkers(ws, Work("bench", JobAlgo))
          /\ last' = JobAlgo
          /\ UNCHANGED <<known, coreIn, measured, cb, timeouts, starts>>
    /\ UNCHANGED <<core, master>>

CloseEvent ==
    /\ Event("close")
    /\ UNCHANGED <<ws, core, coreIn, known, measured, cb, timeouts, last, starts, master>>

----------------------------------------------------------------------------
(* Jobs, and the workers.                                                  *)

PoolJob_SameWorkers(a) ==
    /\ Running /\ starts > 0 /\ jobs < MaxJobs
    /\ ws' = MessageWorkers(IF ws.gen = 0 THEN Recreate(ws, Threads[a]) ELSE ws, Work("job", a))
    /\ coreIn' = SetAlgoMsr(coreIn, a, known)
    /\ last' = a /\ jobs' = jobs + 1
    /\ UNCHANGED <<env, core, coreOut, known, msr, measured, cb, timeouts, rates,
                   starts, answered, faults, master>>

\* set_job, which nothing keeps from being called after exit().
PoolJob(a) ==
    /\ Running /\ starts > 0 /\ jobs < MaxJobs /\ (last = a \/ ws.gen < MaxGen)
    /\ ws' = MessageWorkers(IF last = a THEN ws ELSE Recreate(ws, Threads[a]), Work("job", a))
    /\ coreIn' = SetAlgoMsr(coreIn, a, known)
    /\ last' = a /\ jobs' = jobs + 1
    /\ UNCHANGED <<env, core, coreOut, known, msr, measured, cb, timeouts, rates,
                   starts, answered, faults, master>>

\* messageHandler, "test".
TestAnswer(v) ==
    /\ Running /\ Reports(v) /\ directive = "test" /\ v \notin answered
    /\ answered' = answered \cup {v}
    /\ \/ /\ Cardinality(answered') < Threads[JobAlgo]
          /\ UNCHANGED <<ws, core, coreIn, master>>
       \/ /\ Cardinality(answered') >= Threads[JobAlgo]
          /\ ExitNow(ws)
    /\ UNCHANGED <<env, coreOut, known, msr, benches, jobs, faults>>

WorkerExits_Silent(v) ==
    /\ Running /\ v \in ws.exits
    /\ ws' = Exited(ws, v, subprocess)
    /\ UNCHANGED <<env, msrVars, benches, rest, master>>

\* The "exit" event of a worker; an unexpected one ends a test.
WorkerExits(v) ==
    /\ Running /\ v \in ws.exits
    /\ \/ /\ Unexpected(ws, v, subprocess) /\ directive = "test"
          /\ ExitNow(Exited(ws, v, subprocess))
       \/ /\ ~ (Unexpected(ws, v, subprocess) /\ directive = "test")
          /\ ws' = Exited(ws, v, subprocess)
          /\ UNCHANGED <<core, coreIn, master>>
    /\ UNCHANGED <<env, coreOut, known, msr, benches, rest>>

KillTimer(targets) ==
    /\ Running /\ targets \in ws.killers
    /\ ws' = Kill(ws, targets)
    /\ UNCHANGED <<env, msrVars, benches, rest, master>>

\* A worker handles a message.
WorkerTakes(v) ==
    /\ Running /\ CanTake(ws, v)
    /\ ws' = Take(ws, v)
    /\ UNCHANGED <<env, msrVars, benches, rest, master>>

WorkerFails(v) ==
    /\ Running /\ v \in ws.alive \ ws.hung /\ faults < MaxFaults
    /\ faults' = faults + 1
    /\ ws' \in {Crash(ws, v), Hang(ws, v)}
    /\ UNCHANGED <<env, msrVars, benches, answered, jobs, master>>

----------------------------------------------------------------------------
\* A directive has begun.  tuning says whether there is MSR tuning at all
\* ("off": not on Windows), and whether registers can be read and written.  The
\* kinds of workers differ in errors that only a test reacts to.  Algorithms have a
\* perf when the config file has it.
Init ==
    /\ directive \in Directives /\ tuning \in Tunings
    /\ subprocess \in (IF directive = "test" THEN BOOLEAN ELSE {TRUE})
    /\ ws = CASE directive = "test"  -> MessageWorkers(Recreate(NoWorkers, Threads[JobAlgo]),
                                                       Work("test", JobAlgo))
              [] directive = "bench" -> IF tuning = "off"
                                        THEN MessageWorkers(Recreate(NoWorkers, Threads[JobAlgo]),
                                                            Work("bench", JobAlgo))
                                        ELSE Recreate(NoWorkers, Threads[JobAlgo])
              [] OTHER               -> NoWorkers
    /\ core = (directive # "test" /\ ~ (directive = "bench" /\ tuning = "off"))
    /\ coreIn = IF ~ core THEN <<>>
                ELSE <<Plain(IF directive = "bench" THEN "read_msr" ELSE "algo_params")>>
    /\ last = IF directive = "bench" /\ tuning = "off" THEN JobAlgo ELSE NoAlgo
    /\ coreOut = <<>> /\ known = FALSE /\ msr = "default"
    /\ measured \in (IF directive = "mine" THEN SUBSET {Order[i] : i \in DOMAIN Order} ELSE {{}})
    /\ cb = NoBench /\ timeouts = {} /\ rates = {} /\ starts = 0
    /\ answered = {} /\ jobs = 0 /\ faults = 0 /\ master = "up"

Events == AlgoParamsEvent \/ ReadEvent \/ ErrorEvent \/ CloseEvent

Next ==
    \/ CoreTakes \/ Events \/ Signal \/ ExitTimer
    \/ \E b \in timeouts : BenchTimeout(b)
    \/ \E i \in DOMAIN Order : PoolJob(Order[i])
    \/ \E v \in Worker :
         \/ Hashrate(v) \/ TestAnswer(v) \/ WorkerExits(v)
         \/ WorkerTakes(v) \/ WorkerFails(v)
    \/ \E targets \in ws.killers : KillTimer(targets)

Spec == Init /\ [][Next]_vars

\* Events are handled and timers fire; workers that do not hang go on.
Fairness ==
    /\ WF_vars(CoreTakes) /\ WF_vars(Events) /\ WF_vars(ExitTimer)
    /\ WF_vars(\E b \in timeouts : BenchTimeout(b))
    /\ WF_vars(\E targets \in ws.killers : KillTimer(targets))
    /\ \A v \in Worker :
         /\ WF_vars(TestAnswer(v)) /\ WF_vars(WorkerExits(v))
         /\ WF_vars(WorkerTakes(v))
FairSpec == Spec /\ Fairness

----------------------------------------------------------------------------
(* Properties.                                                             *)

TypeOK ==
    /\ directive \in Directives /\ tuning \in Tunings /\ subprocess \in BOOLEAN
    /\ ws \in WorkersState
    /\ core \in BOOLEAN /\ known \in BOOLEAN
    /\ coreIn \in Seq(CoreMsg) /\ coreOut \in Seq(CoreEvent)
    /\ msr \in {"default", "tuned"}
    /\ timeouts \subseteq [n : 1 .. MaxGen, algo : Algos, left : Seq(Algos)]
    /\ cb \in timeouts \cup {NoBench}
    /\ measured \subseteq Algos /\ last \in Algos \cup {NoAlgo}
    /\ rates \subseteq 0 .. MaxThreads - 1
    /\ answered \subseteq Worker
    /\ starts \in Nat /\ jobs \in 0 .. MaxJobs /\ faults \in 0 .. MaxFaults
    /\ master \in {"up", "grace", "ended", "forced"}

\* A worker process only ever gets work of one algorithm: memory of another
\* size is never allocated in it again (helper.js:300-303, mominer.js:248-249).
OneAlgoPerWorker ==
    \A v \in Worker :
        Cardinality(({ws.inbox[v][i].algo : i \in DOMAIN ws.inbox[v]} \cup {ws.doing[v]})
                    \ {NoAlgo}) <= 1

\* A worker of the last recreate_threads that runs gets the messages, and no
\* other does: the exit of an old one does not unlist it (helper.js:353-356).
NewestAreListed ==
    /\ \A v \in ws.alive : v.gen = ws.gen => v \in ws.listed
    /\ \A v \in ws.listed : v.gen = ws.gen

\* Old workers end, also those that hang in a kernel (helper.js:275-298, 304).
OldWorkersEnd ==
    \A v \in Worker : v \in ws.alive /\ v.gen < ws.gen
                      ~> v \notin ws.alive \/ master \in {"ended", "forced"}

\* The benchmarks come to an end and mining starts, whatever workers do
\* (mominer.js:302-337).
MiningStarts == directive = "mine" ~> starts > 0 \/ Exiting

\* All algorithms are benchmarked, and then mining starts (README.md:104-105): no
\* benchmark runs, or waits for its timeout, once it has started.
MiningAfterBenchmarks == starts > 0 => cb = NoBench /\ timeouts = {}

\* Once the grace time is over the registers hold their default values, if they
\* can be written (mominer.js:69-72, 80-82).
MsrRestored == master = "ended" /\ tuning = "rw" => msr = "default"

\* A test ends, also when a worker of it crashes; only a hanging one can keep
\* it (mominer.js:185-202, 222-226).
TestEnds == directive = "test" ~> master = "ended" \/ ws.hung # {}
=============================================================================
