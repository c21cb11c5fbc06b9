----------------------------- MODULE RxThreads -----------------------------
(***************************************************************************)
(* The RandomX half of the compute core: the thread that runs              *)
(* Core::Execute takes the messages of the worker process and sets a new   *)
(* job up (process_message, set_job and free_memory in mominer-core.cpp    *)
(* and mominer-job.cpp), the Batch threads of m_thread_pool hash.          *)
(*                                                                         *)
(* set_job does not wait for the threads of the job before: it increments  *)
(* m_job_ref, which they read between two hashes, and goes on to change    *)
(* the fields they use.  None of these fields is atomic or locked, so the  *)
(* steps here are as small as the groups of fields set_job writes.         *)
(*                                                                         *)
(* What a hash or a nonce is does not matter here: a hash may or may not   *)
(* meet the target, and with a target a nonce may or may not overflow.      *)
(***************************************************************************)
EXTENDS Integers, Sequences, FiniteSets

CONSTANTS
    Batch,        \* m_batch: threads, VMs and tasks of a job
    Jobs,         \* the pools' jobs
    OptJob,       \* global.opt.job: what "bench" and "test" hash
    NoJob,        \* no job yet
    PoolOf,       \* the pool of each job
    SeedOf,       \* the RandomX seed of each job and of OptJob
    MaxMsgs       \* bound: messages the core gets

NoPool  == "none"      \* m_pool_id before the first job: ""
NoSeed  == "unset"     \* m_rx_dataset is null
Mixed   == "mixed"     \* the threads of init_rx_dataset_thread are at work

AllJobs == Jobs \cup {OptJob}
Threads == 1 .. Batch
Ids     == 0 .. Batch - 1

ASSUME RxAssumption ==
    /\ Batch \in Nat \ {0} /\ MaxMsgs \in Nat
    /\ OptJob \notin Jobs /\ NoJob \notin AllJobs
    /\ NoPool \notin {PoolOf[j] : j \in Jobs}
    /\ {NoSeed, Mixed} \cap {SeedOf[j] : j \in AllJobs} = {}

VARIABLES
    main,      \* where Execute is: a step of set_job, with its message
    msgs,      \* number of messages taken
    job_ref,   \* m_job_ref
    cur,       \* m_input_hex: the job last set up
    ident,     \* m_pool_id (and m_worker_id), m_job_id
    target,    \* m_target is not 0
    input2,    \* the static new_input2, as the job whose blob it holds
    dataset,   \* the seed m_rx_cache and m_rx_dataset hold
    vms,       \* m_vm is not null
    queue,     \* m_thread_pool: the tasks pushed and not yet taken
    done,      \* m_thread_pool->isDone
    th,        \* the threads of m_thread_pool
    tested     \* number of "test" messages sent

coreVars == <<msgs, job_ref, cur, ident, target, input2, dataset, vms>>
vars     == <<main, coreVars, queue, done, th, tested>>

Types   == {"job", "bench", "test"}
Task    == [type : Types, job : AllJobs, ref : Nat, id : Ids]
Idle    == [pc |-> "idle", type |-> "job", job |-> NoJob, next |-> 0]
Goto(l) == main' = [main EXCEPT !.pc = l]
InUse   == {"first", "hash"}    \* inside a RandomX call on the VM

----------------------------------------------------------------------------
(* Messages.  A definition whose name has an underscore and a suffix is a  *)
(* faulty variant of the next one; no specification uses it.               *)

\* What JavaScript may send next: a worker process is made for one algo and
\* device, "bench" can only be its first message, and "test" its only one.
MayGet(type) ==
    /\ main.pc = "idle" /\ msgs < MaxMsgs
    /\ type \in {"bench", "test"} => cur = NoJob
    /\ type # "close" => main.type # "test"

Accept_NoRef(type, job) ==
    /\ MayGet(type) /\ type \in Types
    /\ job \in IF type = "job" THEN Jobs ELSE {OptJob}
    /\ type # "test" => job # cur
    /\ msgs' = msgs + 1
    /\ main' = [pc |-> IF dataset = SeedOf[job] THEN "fields" ELSE "dataset",
                type |-> type, job |-> job, next |-> 0]
    /\ dataset' = IF dataset = SeedOf[job] THEN dataset ELSE Mixed
    /\ UNCHANGED <<job_ref, cur, ident, target, input2, vms, queue, done, th, tested>>

\* "job", "bench" and "test", up to `new hashing setup': a blob that is already
\* set up is an error and changes nothing, otherwise m_job_ref is incremented,
\* and a new seed starts the computation of the dataset.
Accept(type, job) ==
    /\ MayGet(type) /\ type \in Types
    /\ job \in IF type = "job" THEN Jobs ELSE {OptJob}
    /\ type # "test" => job # cur
    /\ msgs' = msgs + 1
    /\ job_ref' = job_ref + 1
    /\ main' = [pc |-> IF dataset = SeedOf[job] THEN "fields" ELSE "dataset",
                type |-> type, job |-> job, next |-> 0]
    /\ dataset' = IF dataset = SeedOf[job] THEN dataset ELSE Mixed
    /\ UNCHANGED <<cur, ident, target, input2, vms, queue, done, th, tested>>

\* The dataset is ready; the VMs are made with the first one.
DatasetReady ==
    /\ main.pc = "dataset"
    /\ dataset' = SeedOf[main.job]
    /\ vms' = TRUE
    /\ Goto("fields")
    /\ UNCHANGED <<msgs, job_ref, cur, ident, target, input2, queue, done, th, tested>>

\* m_input_hex and the fields after it; fn_extra_setup starts with m_target and
\* m_pool_id, and exists for "job" only.
SetFields ==
    /\ main.pc = "fields"
    /\ cur' = main.job
    /\ IF main.type = "job"
       THEN /\ target' = TRUE
            /\ ident' = [ident EXCEPT !.pool = PoolOf[main.job]]
            /\ Goto("job_id")
       ELSE /\ Goto("input")
            /\ UNCHANGED <<target, ident>>
    /\ UNCHANGED <<msgs, job_ref, input2, dataset, vms, queue, done, th, tested>>

SetJobId_Forgotten ==
    /\ main.pc = "job_id"
    /\ Goto("input")
    /\ UNCHANGED <<coreVars, queue, done, th, tested>>

\* The end of fn_extra_setup.
SetJobId ==
    /\ main.pc = "job_id"
    /\ ident' = [ident EXCEPT !.job = main.job]
    /\ Goto("input")
    /\ UNCHANGED <<msgs, job_ref, cur, target, input2, dataset, vms, queue, done, th, tested>>

CopyInput ==
    /\ main.pc = "input"
    /\ input2' = main.job
    /\ Goto("push")
    /\ UNCHANGED <<msgs, job_ref, cur, ident, target, dataset, vms, queue, done, th, tested>>

NewTask_SameVm(id) == [type |-> main.type, job |-> main.job, ref |-> job_ref, id |-> 0]

NewTask_OffByOne(id) == [type |-> main.type, job |-> main.job, ref |-> job_ref, id |-> id + 1]

\* What the lambda captures.
NewTask(id) == [type |-> main.type, job |-> main.job, ref |-> job_ref, id |-> id]

\* m_thread_pool->push, once per batch_id.
Push ==
    /\ main.pc = "push"
    /\ queue' = Append(queue, NewTask(main.next))
    /\ main' = [main EXCEPT
         !.next = @ + 1,
         !.pc = IF main.next + 1 < Batch THEN "push"
                ELSE IF main.type = "job" THEN "idle" ELSE "target"]
    /\ UNCHANGED <<coreVars, done, th, tested>>

\* "bench" and "test" clear m_target when set_job has returned.
ClearTarget ==
    /\ main.pc = "target"
    /\ target' = FALSE
    /\ Goto("idle")
    /\ UNCHANGED <<msgs, job_ref, cur, ident, input2, dataset, vms, queue, done, th, tested>>

Pause ==
    /\ MayGet("pause")
    /\ msgs' = msgs + 1
    /\ job_ref' = job_ref + 1
    /\ UNCHANGED <<main, cur, ident, target, input2, dataset, vms, queue, done, th, tested>>

Close_NoRef ==
    /\ MayGet("close")
    /\ msgs' = msgs + 1
    /\ done' = TRUE
    /\ Goto(IF vms THEN "join" ELSE "off")
    /\ UNCHANGED <<job_ref, cur, ident, target, input2, dataset, vms, queue, th, tested>>

Close_NoJoin ==
    /\ MayGet("close")
    /\ msgs' = msgs + 1
    /\ job_ref' = job_ref + 1 /\ done' = TRUE /\ vms' = FALSE
    /\ Goto("off")
    /\ UNCHANGED <<cur, ident, target, input2, dataset, queue, th, tested>>

\* "close": free_memory stops the threads and deletes the pool, whose
\* destructor joins them ...
Close ==
    /\ MayGet("close")
    /\ msgs' = msgs + 1
    /\ IF vms
       THEN /\ job_ref' = job_ref + 1
            /\ done' = TRUE
            /\ Goto("join")
       ELSE /\ Goto("off")
            /\ UNCHANGED <<job_ref, done>>
    /\ UNCHANGED <<cur, ident, target, input2, dataset, vms, queue, th, tested>>

\* ... and then frees the VMs, the dataset and the cache; Execute returns.
FreeMemory ==
    /\ main.pc = "join"
    /\ \A t \in Threads : th[t].pc = "exit"
    /\ vms' = FALSE
    /\ dataset' = NoSeed
    /\ Goto("off")
    /\ UNCHANGED <<msgs, job_ref, cur, ident, target, input2, queue, done, th, tested>>

----------------------------------------------------------------------------
(* The threads of the pool and the task they run.                          *)

Jump(t, l) == th' = [th EXCEPT ![t].pc = l]

\* thread_pool::set_thread: the thread takes the next task, or exits when the
\* pool is being deleted and no task is left.
Take(t) ==
    /\ th[t].pc = "wait"
    /\ queue # <<>>
    /\ queue' = Tail(queue)
    /\ th' = [th EXCEPT ![t] =
         [pc |-> "copy", task |-> Head(queue), input |-> NoJob]]
    /\ UNCHANGED <<main, coreVars, done, tested>>

Exit(t) ==
    /\ th[t].pc = "wait"
    /\ queue = <<>> /\ done
    /\ Jump(t, "exit")
    /\ UNCHANGED <<main, coreVars, queue, done, tested>>

\* The nonce and the blob are read from new_input2; hash_first follows.
Copy(t) ==
    /\ th[t].pc = "copy"
    /\ th' = [th EXCEPT ![t].pc = "first", ![t].input = input2]
    /\ UNCHANGED <<main, coreVars, queue, done, tested>>

First(t) ==
    /\ th[t].pc = "first"
    /\ Jump(t, "check")
    /\ UNCHANGED <<main, coreVars, queue, done, tested>>

Loops_Ever(t) == TRUE

\* The condition of the loop.
Loops(t) == th[t].task.ref = job_ref

\* The top of the loop: the next nonce is set, and its overflow, which is only
\* looked for when there is a target, ends the loop.
Check(t) ==
    /\ th[t].pc = "check"
    /\ \/ Loops(t) /\ Jump(t, "hash")
       \/ (Loops(t) => target) /\ Jump(t, "last")
    /\ UNCHANGED <<main, coreVars, queue, done, tested>>

HashTest_NoBreak(t) ==
    /\ th[t].pc = "hash" /\ th[t].task.type = "test"
    /\ tested' = tested + 1
    /\ Jump(t, "check")
    /\ UNCHANGED <<main, coreVars, queue, done>>

\* hash_next of a "test": its hash is sent and the loop left.
HashTest(t) ==
    /\ th[t].pc = "hash" /\ th[t].task.type = "test"
    /\ tested' = tested + 1
    /\ Jump(t, "last")
    /\ UNCHANGED <<main, coreVars, queue, done>>

\* hash_next of the other messages: the hash may meet the target.
Hash(t) ==
    /\ th[t].pc = "hash" /\ th[t].task.type # "test"
    /\ \/ target /\ Jump(t, "send")
       \/ Jump(t, "check")
    /\ UNCHANGED <<main, coreVars, queue, done, tested>>

\* send_result, with the m_pool_id, m_worker_id and m_job_id of the moment.
SendResult(t) ==
    /\ th[t].pc = "send"
    /\ Jump(t, "check")
    /\ UNCHANGED <<main, coreVars, queue, done, tested>>

\* The end of the task: with a target, send_last_nonce with m_pool_id.
SendLastNonce(t) ==
    /\ th[t].pc = "last"
    /\ Jump(t, "wait")
    /\ UNCHANGED <<main, coreVars, queue, done, tested>>

----------------------------------------------------------------------------
NoTask == [type |-> "job", job |-> OptJob, ref |-> 0, id |-> 0]

Init ==
    /\ main = Idle
    /\ msgs = 0 /\ job_ref = 0 /\ tested = 0
    /\ cur = NoJob /\ input2 = NoJob
    /\ ident = [pool |-> NoPool, job |-> NoJob]
    /\ target = FALSE /\ vms = FALSE /\ done = FALSE
    /\ dataset = NoSeed
    /\ queue = <<>>
    /\ th = [t \in Threads |-> [pc |-> "wait", task |-> NoTask, input |-> NoJob]]

SetJobStep == DatasetReady \/ SetFields \/ SetJobId \/ CopyInput \/ Push \/ ClearTarget

Main ==
    \/ \E type \in Types, job \in AllJobs : Accept(type, job)
    \/ Pause
    \/ Close
    \/ SetJobStep
    \/ FreeMemory

Thread(t) ==
    \/ Take(t)
    \/ Exit(t)
    \/ Copy(t)
    \/ First(t)
    \/ Check(t)
    \/ HashTest(t)
    \/ Hash(t)
    \/ SendResult(t)
    \/ SendLastNonce(t)

Next == Main \/ \E t \in Threads : Thread(t)

Spec == Init /\ [][Next]_vars

\* The operating system runs every thread; no message needs to come.
FairSpec ==
    /\ Spec
    /\ WF_vars(SetJobStep \/ FreeMemory)
    /\ \A t \in Threads : WF_vars(Thread(t))

----------------------------------------------------------------------------
(* Properties.                                                             *)

MainPcs   == {"idle", "dataset", "fields", "job_id", "input", "push", "target", "join", "off"}
ThreadPcs == {"wait", "copy", "first", "check", "hash", "send", "last", "exit"}
Pools     == {PoolOf[j] : j \in Jobs}
Seeds     == {SeedOf[j] : j \in AllJobs}

MainState   == [pc : MainPcs, type : Types, job : AllJobs \cup {NoJob}, next : Nat]
ThreadState == [pc : ThreadPcs, task : Task, input : AllJobs \cup {NoJob}]

TypeOK ==
    /\ main \in MainState
    /\ msgs \in Nat /\ job_ref \in Nat /\ tested \in Nat
    /\ cur \in AllJobs \cup {NoJob} /\ input2 \in AllJobs \cup {NoJob}
    /\ ident \in [pool : Pools \cup {NoPool}, job : Jobs \cup {NoJob}]
    /\ target \in BOOLEAN /\ vms \in BOOLEAN /\ done \in BOOLEAN
    /\ dataset \in Seeds \cup {NoSeed, Mixed}
    /\ queue \in Seq(Task)
    /\ th \in [Threads -> ThreadState]

Queued == {queue[i] : i \in DOMAIN queue}
Busy(t) == th[t].pc \notin {"wait", "exit"}
IdentOf(job) == [pool |-> PoolOf[job], job |-> job]

\* A thread that hashes in the loop hashes the blob of its own job, although
\* new_input2 is static and a later job may have overwritten it before the
\* thread came to copy it (mominer-job.cpp:238, 329-331, 347-351).
OwnInput == \A t \in Threads : th[t].pc \in {"hash", "send"} => th[t].input = th[t].task.job

\* No VM is freed while a thread is in a task (mominer-core.cpp:192-199).
VmsOutliveThreads == \A t \in Threads : Busy(t) => vms

\* The threads of one job never share a VM: each batch_id is handed out once
\* (mominer-job.cpp:334-336).
SameJobVmsDisjoint ==
    \A t, u \in Threads :
        t # u /\ Busy(t) /\ Busy(u) /\ th[t].task.ref = th[u].task.ref
        => th[t].task.id # th[u].task.id

\* A result that the newest job's threads send bears the pool and the id of
\* that job: all fields are set before the first task is pushed
\* (mominer-job.cpp:316-334).
CurrentAttribution ==
    [][\A t \in Threads :
         SendResult(t) /\ Loops(t) => ident = IdentOf(th[t].task.job)]_vars

\* Every thread answers a "test" once (mominer-job.cpp:370-374), as the
\* master's count of answers expects (mominer.js:185-191).
TestAnsweredOnce ==
    LET unanswered == {k \in Queued : k.type = "test"} \cup
            {th[t].task : t \in {u \in Threads : th[u].task.type = "test"
                                    /\ th[u].pc \in {"copy", "first", "check", "hash"}}}
    IN  /\ tested + Cardinality(unanswered) <= Batch
        /\ main.type = "test" /\ main.pc = "idle" => tested + Cardinality(unanswered) = Batch

\* No task waits forever behind the threads of the jobs before.
TasksAreTaken ==
    \A r \in 1 .. MaxMsgs : (\E k \in Queued : k.ref = r) ~> (\A k \in Queued : k.ref # r)

\* "close" ends Execute: the join in the destructor of the pool returns.
CloseEnds == main.pc = "join" ~> main.pc = "off"

\* Two threads are never inside a RandomX call on the same VM: m_job_ref was
\* incremented "to stop old m_thread_pool jobs" (mominer-job.cpp:238).
VmExclusive ==
    \A t, u \in Threads :
        t # u /\ th[t].pc \in InUse /\ th[u].pc \in InUse => th[t].task.id # th[u].task.id

\* No hash is computed while the dataset is (mominer-job.cpp:272-288, 350, 362).
DatasetStable == \A t \in Threads : th[t].pc \in InUse => dataset # Mixed

\* A result bears the pool and the id of the job it was found for
\* (mominer-core.cpp:165-167).
ResultAttribution ==
    [][\A t \in Threads : SendResult(t) => ident = IdentOf(th[t].task.job)]_vars
=============================================================================
