# MoMiner in TLA+

This directory holds TLA+ models of MoMiner's own control logic, the TLC
configurations that check them on small instances, and proofs of their main
invariants checked by TLAPS. Source lines are those of the repository this
directory stands beside (`src/...`).

1. [The system](#1-the-system)
2. [What is hard in it](#2-what-is-hard-in-it)
3. [The modules and the code](#3-the-modules-and-the-code)
4. [The runs](#4-the-runs)
5. [Where code and comments disagree](#5-where-code-and-comments-disagree)
6. [The proofs](#6-the-proofs)
7. [Not modelled](#7-not-modelled)
8. [The plan](#8-the-plan)
9. [Running it](#9-running-it)

## 1. The system

MoMiner mines for a list of pools with one algorithm at a time, which a pool may
change with each job. A *master* (Node.js) talks to the pools and sends jobs to
*worker processes*; each worker runs one *compute core* (C++) on a thread of its own,
connected by a queue in each direction. For RandomX the core hashes on a pool of
threads, for the c29 family it leaves cycle searches to detached threads.

```
 pools <-TCP/TLS-> pool.js -- set_job / pause --> mominer.js
                     ^  pool_message              |  messageWorkers (helper.js)
                     |                            v
                   submit  <- result, last_nonce - worker process (one per thread or device)
                                                  |  async-worker.h: two queues
                                                  v
                                   Core::Execute (mominer-core.cpp, mominer-job.cpp)
                                      |                         |
                              m_thread_pool (ctpl-stl.h)   detached search threads (c29.cpp)
```

| Component | Source | State it keeps | Operations | What makes it correct |
|---|---|---|---|---|
| Pool manager | `pool.js`, `start_mining` of `mominer.js` | active pool; per pool a socket, its last job and the time of its last connection; timers | connect (throttled), job, socket error and close, switch, soft close, donation turn, return to the primary pool | a dead or silent pool is left; the primary pool is preferred and comes back; the active pool's job is mined; donation turns end |
| Job dispatch | `set_job`, `messageHandler` of `mominer.js`; `messageWorkers` of `helper.js` | the job sent last, a nonce per background pool | send a job or a pause to all workers, keep the largest last nonce | each worker ends up on the last job; no nonce twice |
| Compute core | `mominer-core.cpp`, `mominer-job.cpp` | function, algorithm, blob, target, nonce, ids of the job; RandomX VMs, cache, dataset | job, bench, test, pause, close; a round of `Execute` | results bear their own job's ids; memory is not changed or freed under a hash; tests are answered and end |
| Thread pool | `ctpl-stl.h` | a queue of tasks, `isDone` | push, the worker loop, `stop(true)` | every task runs; stop returns |
| C29 solver | `c29.cpp` | list of solutions, count of search threads | trim and start a search, take a solution, wait | a solution is sent once, in time, with its own job; a test ends |
| Node bridge | `async-worker.h`, `cluster_process` of `helper.js` | two locked queues, calls to Node that are under way, the state of the compute thread | send, progress, start, destroy | FIFO, nothing lost, the destructor returns |
| Worker processes | `helper.js` | the list of processes of the current algorithm and device | create, message, exit, forced close | messages reach the processes of the current algorithm; old ones go away |
| Benchmarks | `mominer.js`, `helper.js` | the algorithm being measured, hashrates by worker, a timeout | start, hashrate, timeout | every algorithm is measured once, by its own hashrates |
| Directives, MSR, exit | `mominer.js`, `helper.js` | the directive, saved registers | test, bench, algo_params, mine, exit | registers are restored; the process ends |
| Device planning | `sycl-lib.cpp`, `mominer-core.cpp` | none | threads and batches for CPU caches and GPU memory | what is planned fits |
| Options | `opts.js`, `helper.js` | `global.opt` | parse, merge, convert targets and hashes | conversions are inverse to each other |
| GPU kernels, hash functions | `cn-gpu.cpp`, `sycl-blake2b.cpp`, vendored `xmrig/` | none | numeric | the hash is right |
| Installation, tests | `install.sh`, `r.sh`, `tests/` | none | | |

How they interact: the pool manager calls `set_job` and `messageWorkers`
synchronously; the master and the workers exchange messages that arrive in the
order sent, but late; the JavaScript and the C++ half of a worker exchange
messages over the two queues; the core and its hashing threads share
plain fields, of which only `m_job_ref` says whether a thread's job is still the
current one; the core and the search threads share a list under a mutex and a count.

## 2. What is hard in it

`PROJECT.json` lists each hazard with its line and the properties about it. In groups:

* **Timers that outlive what they were set for** (`pool.js`, `mominer.js`). Except for the keepalive no timer
  of the pool manager is cancelled: the watchdog of a lost connection, the soft close
  of a pool that became active again, the end of a donation turn that was cut short
  all still fire. Only the relations between the delays and the conditions in the
  callbacks keep them harmless.
* **Answers that come after the state they refer to has gone**: a `last_nonce` after
  the pools have changed, a result after the next job was set up, a search that ends
  two jobs later.
* **Memory shared without a lock**: `set_job` does not wait for the threads of the
  job before. It counts `m_job_ref` up and goes on to change the blob, the target, the ids,
  the dataset and the VMs while they still run.
* **Termination**: a test must come to its end although its answers come from
  several threads; `close` joins threads that loop; the primary pool must be tried again.
* **Wakeups that are not paired with messages**: a message is stored and Node is called in two
  steps, by several threads; one call takes all messages that are there. And the end of the
  compute thread is announced by another thread-safe function than its messages.
* **Workers that are replaced while they work**: the exit of an old one comes after the new one of
  the same number was made; one that hangs in a driver call handles no close; one that dies is not replaced.
* **Handlers and timers that stay set**: a benchmark ends by its hashrates or by its timeout, and
  the other one must not end the next; the error handler of the MSR test also gets the errors
  of later writes; MSRs must be written back on every way out, in a queue that ends with a close.
* **Boundaries**: the nonce that wraps to 0 (which stands for a test), the overflow
  check that one of two paths makes, the nonces of several workers and threads kept apart, the
  byte order of what is checked and of what is written.

## 3. The modules and the code

Each component is one module with its state as variables and one action for each
handler; `Workers` has no variables of its own, since the master calls several of its functions in one
callback. `MC*` modules only give constants their values; `*Proofs` modules only
hold theorems. Definitions named `X_Suffix` are faulty variants of the definition `X`
that follows them; no specification uses them, they are what each property
was tried against. `PROJECT.json` maps each definition to its source lines.

### PoolManager (`pool.js`, `mominer.js:364-378`)

The master is one JavaScript thread, so every callback is one action, with every
function it calls inlined as an operator over the state so far: `SwitchPool`,
`PoolErr`, `ConnectPool` and `ConnectPoolThrottle` take the sockets, jobs and timers they start
from as arguments.

| Action | Code |
|---|---|
| `PoolJob(p, j)` | a job message: `pool_message`, with `set_job` when it is to be mined |
| `SocketError(p)` | error, close or end of a socket: `pool_err` and what follows |
| `ConnectTimer`, `FirstJobTimer`, `CloseTimer` | the callbacks of `connect_pool_throttle`, `connect_pool` and `pool_close_wait` |
| `DonateTimer`, `DonateEndTimer`, `ReconnectTimer` | the callbacks that `start_mining` sets |
| `Tick` | one unit of time passes; only when no timer is due |

`timers` is the set of pending timers with their remaining time. Two timers with
the same callback, argument and expiry are one: they run in the same turn of the
event loop and the second changes nothing. A pool id carries its JavaScript
type, since one loop of `switch_pool` stores a *string* as the active pool and
other code compares with `===`. `mining` is what the workers were told last.

Assumed of Node.js: a socket that was destroyed delivers no event any more.
Assumed of the configuration (`TimesAssumption`): the relations between the default
timings of `opts.js:40-50` that the design relies on, such as `first_job_wait <
connect_throttle`; not the values.

### RxThreads (`mominer-job.cpp`, `mominer-core.cpp`, `ctpl-stl.h`)

The compute thread and the `Batch` threads of `m_thread_pool`, for RandomX. Since
neither side locks the fields of a job, `set_job` is cut into the groups of fields it
writes, in its order: `Accept` (checks, `++ m_job_ref`), `DatasetReady` (cache and dataset
recomputed), `SetFields`, `SetJobId`, `CopyInput` (the static `new_input2`), `Push` (one task
for each VM), `ClearTarget`. A thread goes through `Take`, `Copy`, `First`, then `Check`
and `Hash`, `HashTest` or `SendResult`, and `SendLastNonce` when it sees that its job is over.
`Pause`, `Close` (join) and `FreeMemory` complete the messages. What a hash or a nonce is
is left to chance: a hash meets the target or not, a nonce overflows or not.

What JavaScript sends is taken from `mominer.js` and `helper.js`: a worker process is made for one
algorithm and device, `bench` is only ever its first message and `test` its only one.

### JobDispatch (`mominer.js`, `helper.js`, `mominer-core.cpp`, `mominer-job.cpp`)

The master, `Cores` worker processes and the queues between them, for the algorithms
that are not RandomX. On the master `PoolJob`, `PoolLost`, `Resume` and `GiveUp` abstract the
pool manager to what dispatch sees of it (a pool with a job may become active at any
time), and `LastNonce` is the handler of the workers' answers. A core has `TakeJob`,
`TakePause`, `Hash` (a round of `Execute` with the next batch) and `HashAsTest` (a next
nonce of 0 is taken for a test; that of c29 goes on as long as searches run). Nonces are numbers modulo
`Range`; core `c` starts at `start + c - 1` and goes on in steps of `Cores`.

`SendAgain` is the active pool's job sent once more, as for a new target: the master forgets the nonce kept
for it, and a core that already has the blob ignores the message. A pool in the background is taken not to do so;
what was kept for its job would be lost.

`Algo` is `"c29"` or, for all others but RandomX, `"cn"`. The bytes of a nonce have an order: `set_job` writes
the first batch with `bswap_32`, a later round only for c29. A number stands for what the blob says with the most
significant byte first, and `Rewritten` is what a later round makes of the one it is at (`Swap`,
any map of nonces to nonces for the proofs, the digits turned round in the runs). A round of c29 that
returns a solution passes its nonce over; the model counts it as hashed.

`hashed` and `wrapped` are history variables: what each job has had hashed, and whether a nonce has ever
passed the range's end. The way of a message is a FIFO queue, which `NodeBridge` shows of its two
queues inside a worker.

### C29Search (`c29.cpp:676-879`, `mominer-core.cpp`)

Each round of the compute thread either takes a solution found earlier
(`SendSolution`, dropping those of older jobs), or trims a graph and starts a detached search
(`StartSearch`), or finds no edges left (`FindNone`); a test without input waits for its searches
(`WaitForSearches`) until it may send its end. `FindCycles` puts the cycles of one graph into the
shared list, `EndSearch` counts the thread off. `NextInput` is the step of `Execute` to the next nonce.
The kernels are data: what is followed is the blob a cycle was found in.

A round that sends a solution also moves on to the next nonce, so the nonce at hand is
never searched. That costs work and breaks nothing; the model has it.

### FindCycles (`c29.cpp:83-206`, the trimming rounds)

What a search does with its graph. `Trim` keeps the edges whose node on one side has a second
edge. `ReadEdge(e)` is one turn of the loop of `find_cycles`, for the edges in any order: the
`CreatePath` of both ends, the node where they meet, a solution if the cycle that the edge closes
there has the right length, and otherwise the new edge with the shorter path turned around
(`ReversePath`). As in the code each node has at most one edge out, and the numbers of the nodes of
both sides are compared with each other. The recursions are recursive functions. The reference it is checked against
(`IsCycle`) knows nothing of paths: a set of edges in which each node has degree two, and no part
of which is such a set.

### Nonces (`mominer-job.cpp:334-410`, `mominer-core.cpp:507-560`)

One mined job, its nonces as two digits instead of four or eight bytes, since what matters is
which byte is written where: the high digit may belong to the pool. `Init` is the layout of
`set_job`, with its `Offset` and `Step` for each worker and each RandomX thread; a job with a pool's
part has the digit `part` for it. `DigitOr` is the bitwise or of two digits: a constant, of which the proofs need
only that it is a digit; the run puts the real one in its place. `ExecuteCn`,
`ExecuteC29` and `RxLoop` are the three loops, each with the overflow check it makes. `named` holds for each
hash the nonce that its result would bear and the one that was hashed.

### Fifo and NodeBridge (`async-worker.h`, `helper.js:120-199`)

`Fifo` is the abstract queue: a message is sent, the next one or all are received. It is what the
other modules take the way between a core and JavaScript for.

`NodeBridge` is one worker process: its JavaScript thread, its compute thread and the hashing
threads it may have started.

| Action | Code |
|---|---|
| `HandleMsg`, `Signal`, `GraceTimer` | a message of the master, a signal, the timer of `close_worker_process` |
| `Write`, `Call` | the two halves of `sendToNode`, under `mutex_message`, by any thread that may send |
| `Drain` | `call_progress`: a call of Node takes the whole queue |
| `TakeBatch`, `Process` | `readAll` at the top of the loop of `Execute`; one `process_message` |
| `FreeMemory`, `CallEnd`, `Release` | the end by a close: the pool is joined, Node is called, the functions are released |
| `Fail`, `Hang` | an exception that leaves `Execute`; a driver call that does not return |
| `CompleteEvent`, `ErrorEvent`, `Exit` | what JavaScript does with the end of the thread |
| `Destroy`, `Joined` | the destructor, when the environment is torn down |

The refinement mappings are `UpQueue` (`queue <- toNode, received <- delivered`) and `DownQueue`
(`queue <- batch \o fromNode, received <- handled`): the batch that the compute thread has taken and
not processed is still the head of the abstract queue.

### Workers and Master (`mominer.js`, `helper.js:245-401`, `mominer-core.cpp:283-364`)

`Workers` has the functions of `helper.js` over the state of the worker processes: `Recreate`,
`MessageWorkers`, `CloseWorkers`, `Exited` (the exit event), `Kill` (the forced close). A process is known
by the call of `recreate_threads` that made it and by its number, so that an old one and the new one of its
number are told apart where the code tells them apart, and not where it does not.

`Master` is the master process in each of its directives, with its own compute core as two queues.

| Action | Code |
|---|---|
| `AlgoParamsEvent`, `ReadEvent`, `ErrorEvent`, `CloseEvent` | the handlers of `directive`, all called through one emitter in the order of `coreOut` |
| `CoreTakes` | `process_message` of the core: parameters, reading and writing of MSRs, close |
| `BenchTimeout`, `Hashrate` | the two ends of a benchmark, with `NextBench` (the next one, or `start_mining`) |
| `PoolJob` | `set_job` with an algorithm that may be another than the last |
| `TestAnswer`, `WorkerExits` | the answers of a test; the exit of a worker, which ends a test |
| `Signal`, `ExitTimer` | `exit`, its grace time; a second signal ends the process at once |
| `KillTimer`, `WorkerTakes`, `WorkerFails` | forced close; what a worker does; a crash or a hang |

`tuning` is what becomes of the access to MSRs, found out when the miner runs: not tried (`off`), none, read and
write (`rw`), or read only (`ro`). What is mined after `start_mining` is left to `PoolManager`
and `JobDispatch`; here a job of any algorithm may come.

## 4. The runs

| Run | What it asks | States | Time |
|---|---|---|---|
| `pool` | a donate, a primary and a backup pool, timings so short that all timers race | 266,443 | 60 s |
| `pool_string_mined` | *violation*: `ActiveJobIsMined` with a backup pool | | |
| `rx_two` | every interleaving of `set_job` with two threads, three messages | 74,722 | 42 s |
| `rx_vm_shared` | *violation*: `VmExclusive` | | |
| `dispatch_quiet` | two c29 cores, three jobs, each sent once or again, two pools that switch only when nothing is under way | 2,694,381 | 90 s |
| `dispatch_paused` | *violation*: `AcceptedJobIsHashed` | | |
| `c29_jobs` | searches that outlive their job, and tests | 89,719 | 57 s |
| `bridge` | two messages down, three up, signals, close, exception, hang and destructor | 112,894 | 40 s |
| `master` | all directives, three kinds of MSR access, two benchmarks, a job, a crash or hang, signals | 149,618 | 40 s |
| `nonces` | two workers with two hashes each, three kinds of algorithm, with and without a pool's part, from the start, the middle and the end of the range | 3,220 | 2 s |
| `nonce_pool_part` | *violation*: `PoolPartKept` for CryptoNight | | |
| `find_cycles` | each graph of up to six edges over three and three nodes, in every order of its edges | 150,818 | 110 s |

Each property is preceded by a comment that says it in words. The ones that say most:

* `SilentPoolIsWatched`, `WatchdogSparesNewConnection`: a silent connection always has its
  watchdog, and the watchdog of an *earlier* connection never closes a later one before that one has
  had its own `first_job_wait`. The second holds only because `connect_throttle` is longer.
* `PrimaryPreferred`, `PrimaryComesBack`: no backup pool is active while the primary pool has
  a job; and once the primary pool stops failing, it is mined again and again.
* `DonateOnlyWhileActive`, `DonationEndPending`, `DonationEnds`: the workers mine for the donate pool only
  while it is active, a timer that ends the turn is always pending, and it does end.
* `NumericActiveJobIsMined`: what holds as long as the active id is a number. `ActiveJobIsMined` without
  that condition is the violation.
* `OwnInput`, `CurrentAttribution`: the order in which `set_job` writes makes a thread
  of the newest job see only its own job, although nothing is locked.
* `VmsOutliveThreads`, `TestAnsweredOnce`, `TasksAreTaken`, `CloseEnds`: no VM is freed under a task, a test has one answer for each
  VM, tasks do not wait forever behind an old job, and `close` returns.
* `NoRework`: no nonce of a c29 job is hashed twice, up to the end of the nonce range: not by two cores, not
  when the job is resumed behind what its cores have reported, and not when it is sent again.
* `ResultIsOwn`, `FoundIsSent`, `TestEnds`: a late search never sends its solution for
  another job, what is found in time is sent, and a test ends.
* `UpIsFifo`, `DownIsFifo`, `NoLostWakeup`, `StoredIsDelivered`: both queues of the bridge implement `Fifo`,
  though calls and messages are not paired and batches are cut anyhow; and what is stored is delivered, unless the
  process ends first, which it may: the end of the thread can overtake its last messages.
* `ClosedIsQuiet`, `CloseEnds` (of `NodeBridge`), `DestructorReturns`: no thread sends once the functions are
  being released; a close ends the process; the destructor returns in whatever state it meets the compute
  thread. Only a hanging driver call excepts the last two, and a close is also lost on a thread
  that has left `Execute` by an exception.
* `NewestAreListed`, `OneAlgoPerWorker`, `OldWorkersEnd`: whatever exits, in whatever order, does not
  unlist a worker that runs; a worker gets work of one algorithm only; replaced ones end even if they hang.
* `MsrRestored`: after the grace time the registers hold their defaults, on each way out and with
  a job that comes between `exit` and the end.
* `MiningStarts`, `MiningAfterBenchmarks`, `TestEnds`: benchmarks come to an end and mining
  starts, once nothing of them is left; a test ends also if a worker dies.
* `LanesKeepApart`, `NamedOnce`: in a job with room for a first step of each lane (`HasRoom`) no two workers,
  threads or rounds hash the same nonce, and the pool's part stays. A result bears the nonce that was hashed, but for
  the first of a RandomX thread, which bears the next one: that one is stepped over and hashed by nobody,
  so it never stands for two.
* `FoundAreCycles`, `OnlyCycleIsFound`: what is found is a cycle of the graph with the right length, and the only
  cycle of a graph is found in whatever order its edges are read.

### Bounds and why they are enough

* **PoolManager** has no bound on steps: time is kept as remaining delays and as
  an age capped at `ConnectThrottle`, so the whole behaviour is finite. The timings are the smallest ones that satisfy
  `TimesAssumption`, where every two timers can expire in either order; three pools are
  the least with all three roles. Every safety property of the run is proved for all values.
* **RxThreads**: two threads are needed for one to lag behind the other; three messages
  let a thread be two jobs late, or meet job, pause and close. More threads add no
  new pair; the invariants are proved for any number. `MaxMsgs` bounds the messages.
* **JobDispatch**: two cores, so that residue classes and the maximum of answers matter;
  two jobs of one pool and one of the other, so that a job is replaced, resumed and
  left; `Range` 9 so that cores get far enough apart for the largest answer to matter, and the range's end is passed.
  `MaxQueue` is 1 in `dispatch_quiet`, a message to each core and one from it at a time; that longer queues
  change nothing is proved. It is 2 in `dispatch_paused`. The two jobs of pool A are symmetric (nothing but their order of arrival tells them
  apart, and no liveness is checked in that run).
* **C29Search**: two cycles in a graph, two nonces searched in one job, two values of
  `m_job_ref`. The nonce stays at its bound
  `MaxNonce`, where no search starts any more; that keeps the searches finite, since the code sets no limit to them.
* **NodeBridge**: a hashing thread beside the compute thread makes two senders, which is what
  unpaired calls need; three messages up, so that a call finds none, one or several; two down (`MaxDown`, not counting
  those of a signal and of the destructor), so that a close comes before, within or after a batch. What does
  not speak of time is proved for any number of threads.
* **Master**: two generations of workers (`MaxGen`), an old and a new one; which algorithms have a
  measured performance at the start is left open, so the two are two benchmarks, or a benchmark and a job
  that replaces its workers. The directives `test` and `bench` have two workers, so that one answer can be missing. One
  fault, so that each single crash or hang is seen at every moment; one job after the benchmarks.
  Two algorithms make a chain that has a middle and an end. The safety properties are proved for all values.
* **Nonces**: digits of sixteen values leave a masked job three or four rounds before its overflow, which
  is the only event that matters late. The jobs start at 0, in the middle (as an `xn` prefix or a resumed job
  makes them) and shortly before the end of the whole range; two more start so late in the pool's part that not
  every lane has room for its first step, which is what `HasRoom` excepts.
* **FindCycles**: six edges are enough for each cycle of length four or six with an edge to spare, or
  with one given twice (`MaxTwice`); one number is a node of both sides. A path of six edges has at most seven
  nodes, so `MaxPath` 9 cuts none. Both properties are proved for graphs and cycles of any size.

Deadlock is checked for the pool manager, which must always go on. The other modules may
stop: a closed core or process is over, edges are read up, and messages and jobs are used up at their bounds.

### Fairness and why the code justifies it

* `PoolManager!Fairness`: time passes, and a due timer fires. That is what an event
  loop with short callbacks guarantees. Nothing is assumed of pools: they may stay silent or fail
  forever. `PrimaryComesBack` has the good behaviour of the primary pool as its hypothesis.
* `RxThreads!FairSpec`: each step of a `set_job` that was begun, and each hashing thread, is scheduled by the
  operating system. No message has to come.
* `C29Search!FairSpec`: the rounds of `Execute`, which loops, and each search thread.
* `NodeBridge!FairSpec`: Node makes the calls it was asked for and fires its timers, and threads run
  on, which a running event loop and the operating system give. Nothing is assumed of the master, of signals, of the
  senders (`Write` need not happen) or of the driver.
* `Master!FairSpec`: events are delivered, timers fire, and a worker that does not hang goes on with its messages, its
  answer to a test and its exit. No hashrate has to come, no pool has to send a job.
* `JobDispatch`, `Nonces` and `FindCycles` claim no liveness.

`dispatch_quiet` runs under `QuietSpec`, where the active pool changes only when no message
is under way. This is a restriction of the environment and is not guaranteed by the
code; without it `NoRework` is violated, as the next section says.

## 5. Where code and comments disagree

With a run of `"expect": "violation"`; `PROJECT.json` quotes the line concerned:

| Run | Code | What happens |
|---|---|---|
| `pool_string_mined` | `pool.js:82` | A backup pool chosen by the `for ... in` loop becomes active as a string; its later jobs are taken for jobs of a pool that is not active and never mined, and its failure does not lead to another pool. |
| `rx_vm_shared` | `mominer-job.cpp:336` | A task's VM is its `batch_id` and not the thread that runs it: a thread that is done with the old job takes the new job's first task while the old job's first task still hashes on the same VM. |
| `dispatch_paused` | `mominer-job.cpp:309` | After a pause, a nonce overflow or an exception, the next job of the same algorithm is set up and never hashed: `m_fn` is only set when the algorithm changes. |
| `nonce_pool_part` | `mominer-core.cpp:516`, `:542` | The nonces of the second and later rounds are written in the byte order of the processor, those of the first one in the order of the blob: the bytes that belong to the pool are overwritten by the low digits of the counter. The check compares numbers and does not see it. |

Without a run of their own, to keep one question to a run. To see the counterexample put the
property in the place of the one that the named cfg checks:

| Property | Put it into | Code | What happens |
|---|---|---|---|
| `RxThreads!DatasetStable` | `RxVmShared.cfg`, with `SeedOf <- TwoSeeds` | `mominer-job.cpp:275` | With a new seed the dataset is recomputed while threads of the old job hash with it. |
| `RxThreads!ResultAttribution` | `RxVmShared.cfg` (a PROPERTY) | `mominer-core.cpp:165` | A share of the old job found during `set_job` goes out with the pool and the id of the new job. |
| `JobDispatch!NoRework` | `DispatchPaused.cfg` (which has `Spec`), with `Algo = "c29"` | `mominer.js:177` | A last nonce that arrives after the miner has come back to its pool is dropped, and the job is hashed again from its old nonce. |
| `JobDispatch!NoRework` | without its premise on `Algo`, in `DispatchQuiet.cfg` with `Algo = "cn"` | `mominer-core.cpp:516`, `:542` | The first batch of a job and the later ones are in different byte orders, so a round of one core can have the input that another core began with, long before the range's end. |
| `C29Search!EndIsLast` | `C29Jobs.cfg` (a PROPERTY) | `c29.cpp:872` | The last search thread may add its solution and end between the look at the list and the look at the count; the test's end is sent although a solution waits. |
| `Master!MiningAfterBenchmarks` | `Master.cfg`, with `"ro"` among the `Tunings` | `mominer.js:458-462` | The error handler of the first reading of MSRs stays set: where registers can be read and not written, each refused write starts the benchmarks again beside the chain that runs, and mining starts while a benchmark is under way. |
| `Nonces!LanesKeepApart` | without its premise `HasRoom`, in `Nonces.cfg` | `mominer-job.cpp:349`, `:401`, `:407` | The first step of a lane is made without the overflow check: a job that is resumed from the nonce at which the check stopped it goes past the end of its range, and changes the pool's part. |
| `Nonces!NamedOnce` | without the exception of its first conjunct, in `Nonces.cfg` | `mominer-job.cpp:348`, `:382` | The first hash of a RandomX thread is reported with the nonce after it. No comment speaks of it, so it is stated as an exception of the property. |

## 6. The proofs

The proofs hold for every value of the constants that satisfies the ASSUMEs of
the modules, which TLC evaluates in the runs. Each module proves its inductive
invariant with one lemma for each action (or a group of actions), and the theorems follow from it by
temporal logic.

**PoolManagerProofs** (1458 obligations). Any number of pools, any jobs, any timings within
`TimesAssumption`. Five layers, each using those before it:

1. `TypeCorrect`.
2. `ConnInv` (jobs have sockets, silent connections have a watchdog): the two must go
   together, since a connection that loses its job must be one that is closed. Gives
   `JobsNeedSockets` and `SilentPoolsAreWatched`.
3. `MiningInv` relates the active id, the primary pool's job and what is mined. Gives `PrimaryIsPreferred`,
   `DonationIsConfined` and `NumericActiveIsMined`.
4. `TimeInv` says that a pending watchdog's remaining time and the age of its pool's connection
   always add up to `first_job_wait`: a later connection, which would reset the age, is kept away by the
   throttle until the watchdog is over. Gives `WatchdogMeetsItsConnection`.
5. `TurnInv`: why a turn of the donate pool has an end (`TurnsEnd`, for `DonationEndPending`). The pool
   becomes active by its first job, long after the timer that ends the turn was set, so one must know of the silent
   connection: it was made by the `donate` timer and by no other (no `connect` timer is for the
   donate pool, since an interval is longer than the throttle), and the `donate_end` timer is as old as the connection.
   By `TimeInv` a silent connection is younger than `first_job_wait`, which is shorter than a turn: its
   end is still pending when the job comes. With all ways in which `switch_pool` may go on, it never makes the donate
   pool active again.

`ActiveIsNotAbandoned` uses an invariant of its own (`ActiveInv`) and has the hypothesis that
there are no backup pools; with them it is false for the reason of `pool_string_mined`.

**RxThreadsProofs** (1336). Any number of threads and jobs. `m_job_ref` is
incremented before anything else changes and tasks are pushed after everything
has changed, so as long as `m_job_ref` is still the value that a thread was started with, all it reads is
of its own job (`NowInv`). `OwnInput` alone is not inductive: one must know what a
task in the queue will read (`QueueNow`), and what `set_job` has written so far (`MainInv`).
`IdInv` says that the tasks of one job, queued or running, have different ids, and `VmInv`
where VMs are known to exist. Results: `TypesHold`, `BlobIsOwn`, `VmsStay`,
`VmsAreDisjoint`, `NewestJobIsNamed` (an action property).

`TestIsAnsweredOnce` rests on these and on a ledger: an answer is sent in the middle of a task, so counting
threads says nothing, but the answers sent and the tasks that still owe one (queued, or running before
their answer) are together as many as were pushed. No task of a test is lost: the test is the last message before
the close, so nothing increments `m_job_ref` under its threads, and without a target no overflow of the nonce ends them.
After a close the sum can only shrink.

**JobDispatchProofs** (2085). Any pools, jobs, cores, batch, range, length of queues and byte order. Results: `TypesHold`,
for which one must know that a core with a nonce to report has had a pool (`PoolKnown`), and `NoNonceAgain`.

`NoNonceAgain` (`QuietSpec => NoRework`, an action property) is about c29, as the property is. It goes through every way in which a job is sent, replaced,
left and resumed. All work on a job that is on its way starts at one nonce `s`: what was hashed of it is below `s`, or on the
*lane* of one core (`s + (c - 1) + k * Cores`) that has gone beyond it or has left the job for good (`Apart`).
Lanes of different cores have no nonce in common, since core numbers differ by less than `Cores`, and a round of
`Batch` hashes moves a core along its own lane. What was hashed of a job that was left is below the nonce kept for its
pool, or below one that a core has reported or will report (`Kept`); where the pool becomes active again all reports
are in, since `QuietSpec` lets it only then, and the next `s` is above all. `Order` says that a core that has left a job
does not meet it again before that, and that each core has the job sent last or has it still coming: so a job that is
sent again is ignored, or begun where it would have been begun. Until the range is passed (`wrapped`) all this is arithmetic without modulus.

**C29SearchProofs** (322). What bears the present `m_job_ref` was searched for the present
job (`Now`), and within a job each nonce is searched once (`Once`); so two threads are never
the same element of `searches`, and the count of threads is their number (`Counted`), which is why the unsigned count never falls below 0.
Results: `TypesHold`, `CountIsRight`, `ResultsAreOwn`.

**NodeBridgeProofs** (248). Any number of threads. `NoLostWakeup` with the types is inductive: a message is stored by the
thread that holds the mutex, and a call is made before the mutex is free. `ClosedIsQuiet` rests on the compute thread not
going on after a close. The two refinements are shown step by step: `Drain` is a `ReceiveAll`, `TakeBatch` stutters and
`Process` receives one. Results: `TypesHold`, `WakeupsAreKept`, `ClosedStaysQuiet`,
`UpImplementsFifo`, `DownImplementsFifo`.

**MasterProofs** (1711). Any algorithms, numbers of workers, chain of benchmarks and bounds; every directive. Four invariants:

1. `TypesInv`, with `Newest(ws)`: a worker of the newest generation that is alive is listed, and nothing of an
   older one is. An exit event is one of a dead worker, so it can only take a dead one from the list. Gives
   `TypesHold` and `NewestStayListed`.
2. `RwInv` (for registers that can be written): once the core is gone, its queue ends with the write that
   restores and a close, with nothing that closes before; or the registers were never touched. That nothing is tuned before
   the defaults are known is the part a job or benchmark could break. Gives `RegistersAreRestored`.
3. `ChainInv`: the start is a sequence of three phases, `Asking`, `Told` and `Under`. In the last one no event is
   left that could start a chain, and the only pending timeout is that of the benchmark at hand; so the
   timeout and the hashrates cannot both go on from it. It holds where registers that can be read can be written
   (`"ro" \notin Tunings` is a hypothesis of `MiningStartsAfterBenchmarks`); otherwise it is false, see above.
4. `AlgoInv`: what listed workers do or will do is of the last algorithm, and a new algorithm
   makes a new list. Gives `WorkersKeepTheirAlgo`.

**FindCyclesProofs** (2174). Any graph with finitely many nodes, any even length of cycles from four, any
rounds, bounds and order of edges, also with edges given twice. A path and its reversal are recursive functions:
that the recursion defines them, and what they give, is shown by induction over sets of numbers (`Steps`, which
follows from the least element of a set, `Least`, and this from the well-founded order of finite sets), so no
theorem with an operator parameter is needed.

* `FoundHolds`: the graph that is built only has edges that were read (`GraphOK`), so paths are walks; two paths
  up to the place where they first meet have no node twice (what follows a node is always the same, so a walk
  that comes back to a node would meet nothing new), and with the edge that was read they are a ring, of which
  each node has two edges and no part is one. This holds also when a path is cut at its bound or a number names
  nodes of both sides.
* `CycleIsFound`: until the only cycle is found, the graph has no circle (`Forest`: there are ranks that go down
  along each edge), and each edge of the cycle is still to be read or in the graph (`Searching`); paths are made
  of the edges that trimming left (`Within`). Trimming keeps the edges of the cycle, since each has another one
  at each of its nodes. Reading one keeps the ranks: the path turned around is put above the path it is led to,
  and all other nodes above both (`GrownIsRanked`). Two paths that meet close a cycle, which could only be the
  one that is searched. In the end a graph that has all edges of the cycle would have a node of highest rank on
  it, from which two edges lead out, and each node has but one. The hypothesis `PathsFit` keeps paths from being
  cut: among the edges that trimming leaves there is no path of `max_path_length` (8192, `c29.cpp:87`, `:97`)
  different nodes. It limits neither the edges of the graph nor those left, of which the code reads up to
  131,072 (`MAX_TRIMMED_EDGE_COUNT`); it limits how far they go in one line. Without it the statement is not true of the code,
  where a cut path may miss the node at which two paths meet. The run satisfies `PathsFit` by its bounds.

**NoncesProofs** (1212). Any number of workers and threads, any base of the digits and any `DigitOr` of digits
that is a digit. In a job that has room, every lane starts at the same `Origin` plus its own offset and goes on
in steps of the sum of all (`OfLane`); what was hashed of a lane is below its present input, and that is before
its next one (`InOrder`); so two lanes never meet, and a round never meets an earlier one. The checks stop a
lane before `Limit`, up to which the bits of the counter do not reach the pool's part. `NamesInv` follows the name of
a RandomX thread's first hash: the nonce it took is stepped over, and since it is of that thread's lane, no other
comes to it. Results: `LanesStayApart`, `ResultsAreNamedOnce`.

Only model-checked: all liveness (`DonationEnds`, `PrimaryComesBack`, `TasksAreTaken`, `CloseEnds` twice,
`FoundIsSent`, `TestEnds` twice, `StoredIsDelivered`, `DestructorReturns`, `OldWorkersEnd`, `MiningStarts`), since fairness and
ENABLED are beyond the prover. Every safety property of a passing run is stated by a theorem.
Proved and in no run, for other properties say more about the code in their place: `JobNeedsSocket`,
`ActiveNotAbandoned` (without backup pools), `SameJobVmsDisjoint`, `CountIsRight`.

## 7. Not modelled

Parts of modelled components that are left out, and what is assumed instead:

* **Pool manager**: the keepalive timer (a write that changes no state of the pools; what a write to a closed
  socket does is up to Node), login data, share counters, the splitting of the TCP stream into messages.
* **Job dispatch**: `xn` prefixes and nicehash masks (`Nonces` has jobs with them). A pool in the background that sends its
  last job again: the nonce kept for the job is lost then, and the job, once resumed, is hashed again (`pool.js:131`). A change of
  algorithm is in `Master`, which does not follow nonces.
* **Compute core**: parsing of message values and its errors, hashrate reports, what `algo_params` answers.
* **Thread pool**: `resize`, `pop`, `clear_queue` and futures, which the miner does not use.
* **C29**: how the kernels make edges and sort them into buckets; that no bucket overflows is assumed. The target
  and the proof.
* **Worker processes**: the framing of messages on stdin and stdout, errors of a spawn, and the skipping of a cluster worker
  whose channel is closed (`helper.js:264`). The two kinds of workers differ in the model only in what
  their unexpected exit does to a test, the only place where it matters to the properties. A test of several workers has one
  answer for each; that a RandomX or c29 test sends several is in `RxThreads` and `C29Search`.
* **Directives, MSR and exit**: the saving of the config, the check of a test's result. A run starts without
  saved defaults of MSRs; the registers are read and written all or none, though the code writes them one by one;
  five seconds are enough for the core to write them. A job that comes within the grace time makes workers
  again, which the model has: they end with the process.

Whole components that are not modelled, and why:

* **Device planning** and **options**: computations on device data and text, without state that two
  steps share; what could go wrong in them is a wrong number, which tests with known answers reach.
* **GPU kernels and hash functions**: numeric code without control, most of it vendored from xmrig. It is also
  nearly all of the repository's lines: about 109,000, of which the miner's own are some 4,500, with the
  kernels and options among them. The share of lines the models stand for is small for that reason.
* **Installation and tests**: no part of the running miner.

## 8. The plan

In the order of importance. All modules of the first plan are done.

| | Module | Subject | Checked | Proved |
|---|---|---|---|---|
| 1 | `PoolManager` | connections, fail-over, donation | done | all safety properties of its run |
| 2 | `RxThreads` | jobs against hashing threads | done | all safety properties of its run |
| 3 | `JobDispatch` | jobs and nonces between master and cores | done | all safety properties of its run |
| 4 | `C29Search` | rounds and detached searches | done | all safety properties of its run |
| 5 | `NodeBridge`, `Fifo` | the two queues, the life of the compute thread and of a worker process | done | all safety properties and both refinements |
| 6 | `Workers`, `Master` | worker processes, benchmarks, MSRs, directives, exit | done | all safety properties of its run |
| 7 | `FindCycles` | trimming and the search for cycles | done | all properties of its run |
| 8 | `Nonces` | byte order, the pool's part, the nonces of workers and threads | done | all properties of its run |

What is left, in this order:

* the keepalive timer over reconnections, should its writes ever get an effect on the pools' state;
* `algo_params` and the conversions of targets as operators against reference definitions.

## 9. Running it

```
tlc -workers 2 -config Pool.cfg MCPoolManager        # a run: its module and cfg are in PROJECT.json
tlapm PoolManagerProofs.tla                          # the proofs of a module
```

The runs need the TLA+ community modules on the library path and the proofs
need TLAPS 1.4.5 with Z3, Zenon and LS4.
