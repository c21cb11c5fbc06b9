-------------------------- MODULE RxThreadsProofs --------------------------
(***************************************************************************)
(* Proofs about RxThreads, for any number of threads and of jobs.          *)
(*                                                                         *)
(* The argument: m_job_ref is incremented before anything else changes and *)
(* the tasks of a job are pushed after everything has changed.  So as long *)
(* as m_job_ref is still the one a thread was started with, all it reads   *)
(* is of its own job (NowInv).                                             *)
(*                                                                         *)
(* The count of the answers to a test has an argument of its own, below:   *)
(* the answers sent and the tasks that still have one to send always add   *)
(* up to the tasks that were pushed (Ledger).                              *)
(***************************************************************************)
EXTENDS RxThreads, FiniteSetTheorems, TLAPS

\* set_job is under way and has not pushed a task.
Preparing == main.pc \in {"dataset", "fields", "job_id", "input"}

\* What a task of the newest job may rely on.
Now(k) ==
    k.ref = job_ref =>
        /\ ~ Preparing
        /\ k.job = input2
        /\ k.type = "job" => ident = IdentOf(k.job)
        /\ k.type # "job" => ~ target
        /\ main.pc = "push" => k.id < main.next

MainInv ==
    /\ Preparing \/ main.pc = "push" =>
         /\ main.job \in AllJobs
         /\ main.type = "job" => main.job \in Jobs
         /\ main.type # "job" => ~ target
    /\ Preparing => main.next = 0
    /\ main.pc = "push" => main.next < Batch /\ input2 = main.job
    /\ main.pc = "job_id" => main.type = "job" /\ ident.pool = PoolOf[main.job]
    /\ main.pc \in {"input", "push"} /\ main.type = "job" => ident = IdentOf(main.job)
    /\ main.pc = "target" => ~ target
    /\ cur = NoJob => ~ target

\* The tasks in the queue and those of the threads are of this job or older.
QueueNow == \A i \in DOMAIN queue : queue[i].ref <= job_ref /\ Now(queue[i])
ThreadNow == \A t \in Threads : Busy(t) => th[t].task.ref <= job_ref /\ Now(th[t].task)

\* A thread of the newest job has the blob of its job.
InputNow ==
    \A t \in Threads :
        /\ th[t].pc \in {"first", "check"} /\ Loops(t) => th[t].input = th[t].task.job
        /\ th[t].pc = "send" /\ Loops(t) => th[t].task.type = "job"

NowInv == QueueNow /\ ThreadNow /\ InputNow

\* The tasks of one job have different ids, in the queue and in the threads.
QueueIds ==
    \A i, k \in DOMAIN queue :
        i # k /\ queue[i].ref = queue[k].ref => queue[i].id # queue[k].id
ThreadIds ==
    \A t \in Threads, i \in DOMAIN queue :
        Busy(t) /\ th[t].task.ref = queue[i].ref => th[t].task.id # queue[i].id

IdInv == QueueIds /\ ThreadIds

VmInv ==
    /\ dataset \notin {NoSeed, Mixed} => vms
    /\ main.pc \in {"fields", "job_id", "input", "push", "target"} => vms
    /\ queue # <<>> => vms
    /\ done => main.pc \in {"join", "off"}
    /\ \A t \in Threads : th[t].pc = "exit" => done /\ queue = <<>>

IInv == TypeOK /\ MainInv /\ NowInv /\ OwnInput /\ IdInv /\ SameJobVmsDisjoint
        /\ VmInv /\ VmsOutliveThreads

\* What the types say of a queued task.
LEMMA QueueType ==
    ASSUME TypeOK, NEW i \in DOMAIN queue
    PROVE  queue[i] \in Task /\ queue[i].ref \in Nat /\ queue[i].id \in Nat
<1>1. queue[i] \in Task
  BY DEF TypeOK
<1> QED
  BY <1>1 DEF Task, Ids

\* The same of the task a thread runs.
LEMMA ThreadType ==
    ASSUME TypeOK, NEW t \in Threads
    PROVE  th[t].task \in Task /\ th[t].task.ref \in Nat /\ th[t].task.id \in Nat
<1>1. th[t] \in ThreadState
  BY DEF TypeOK
<1>2. th[t].task \in Task
  BY <1>1 DEF ThreadState
<1> QED
  BY <1>2 DEF Task, Ids

\* A jump keeps the type of the threads.
LEMMA JumpType ==
    ASSUME th \in [Threads -> ThreadState], NEW t \in Threads, NEW l \in ThreadPcs, Jump(t, l)
    PROVE  th' \in [Threads -> ThreadState]
  BY DEF Jump, ThreadState

\* What Check changes.
LEMMA CheckEffect ==
    ASSUME TypeOK, NEW t \in Threads, Check(t)
    PROVE  /\ \A u \in Threads : u # t => th'[u] = th[u]
           /\ th[t].pc = "check" /\ (th'[t].pc = "last" \/ (th'[t].pc = "hash" /\ Loops(t)))
           /\ th'[t].task = th[t].task /\ th'[t].input = th[t].input
<1>1. th \in [Threads -> ThreadState]
  BY DEF TypeOK
<1>2. CASE Jump(t, "last")
  <2>1. th[t].pc = "check"
    BY DEF Check
  <2>2. /\ \A u \in Threads : u # t => th'[u] = th[u]
        /\ th'[t].pc = "last" /\ th'[t].task = th[t].task /\ th'[t].input = th[t].input
    BY ONLY <1>1, <1>2, t \in Threads DEF Jump, ThreadState
  <2> QED
    BY <2>1, <2>2
<1>3. CASE Loops(t) /\ Jump(t, "hash")
  <2>1. th[t].pc = "check"
    BY DEF Check
  <2>2. /\ \A u \in Threads : u # t => th'[u] = th[u]
        /\ th'[t].pc = "hash" /\ th'[t].task = th[t].task /\ th'[t].input = th[t].input
    BY ONLY <1>1, <1>3, t \in Threads DEF Jump, ThreadState
  <2> QED
    BY <2>1, <2>2, <1>3
<1> QED
  BY <1>2, <1>3 DEF Check

\* What Hash changes.
LEMMA HashEffect ==
    ASSUME TypeOK, NEW t \in Threads, Hash(t)
    PROVE  /\ \A u \in Threads : u # t => th'[u] = th[u]
           /\ th[t].pc = "hash" /\ (th'[t].pc = "check" \/ (th'[t].pc = "send" /\ target))
           /\ th'[t].task = th[t].task /\ th'[t].input = th[t].input
<1>1. th \in [Threads -> ThreadState]
  BY DEF TypeOK
<1>2. CASE Jump(t, "check")
  <2>1. th[t].pc = "hash"
    BY DEF Hash
  <2>2. /\ \A u \in Threads : u # t => th'[u] = th[u]
        /\ th'[t].pc = "check" /\ th'[t].task = th[t].task /\ th'[t].input = th[t].input
    BY ONLY <1>1, <1>2, t \in Threads DEF Jump, ThreadState
  <2> QED
    BY <2>1, <2>2
<1>3. CASE target /\ Jump(t, "send")
  <2>1. th[t].pc = "hash"
    BY DEF Hash
  <2> QED
    BY ONLY <1>1, <1>3, <2>1, t \in Threads DEF Jump, ThreadState
<1> QED
  BY <1>2, <1>3 DEF Hash

\* A step of one thread is judged by what it makes of that thread.
LEMMA OneThread ==
    ASSUME InputNow, OwnInput, NEW t \in Threads, job_ref' = job_ref,
           \A u \in Threads : u # t => th'[u] = th[u],
           th'[t].pc \in {"first", "check"} /\ th'[t].task.ref = job_ref
               => th'[t].input = th'[t].task.job,
           th'[t].pc = "send" /\ th'[t].task.ref = job_ref => th'[t].task.type = "job",
           th'[t].pc \in {"hash", "send"} => th'[t].input = th'[t].task.job
    PROVE  InputNow' /\ OwnInput'
<1> SUFFICES ASSUME NEW u \in Threads
             PROVE  /\ th'[u].pc \in {"first", "check"} /\ th'[u].task.ref = job_ref
                            => th'[u].input = th'[u].task.job
                    /\ th'[u].pc = "send" /\ th'[u].task.ref = job_ref => th'[u].task.type = "job"
                    /\ th'[u].pc \in {"hash", "send"} => th'[u].input = th'[u].task.job
  BY DEF InputNow, OwnInput, Loops
<1>1. CASE u = t
  BY <1>1
<1>2. CASE u # t
  BY <1>2 DEF InputNow, OwnInput, Loops
<1> QED
  BY <1>1, <1>2

\* So does a jump of the main thread.
LEMMA GotoType ==
    ASSUME main \in MainState, NEW l \in MainPcs, Goto(l)
    PROVE  main' \in MainState
  BY DEF Goto, MainState

\* Every step keeps the types.
LEMMA TypeStep ==
    ASSUME IInv, Next
    PROVE  TypeOK'
<1> USE RxAssumption DEF IInv, TypeOK, MainState, Goto, coreVars, MainInv, Preparing, MainPcs, Types, Pools, Seeds
<1>1. ASSUME NEW type \in Types, NEW job \in AllJobs, Accept(type, job) PROVE  TypeOK'
  BY <1>1 DEF Accept, MayGet, MainPcs
<1>2. CASE DatasetReady
  BY <1>2 DEF DatasetReady, AllJobs
<1>3. CASE SetFields
  BY <1>3 DEF SetFields
<1>4. CASE SetJobId
  BY <1>4 DEF SetJobId
<1>5. CASE CopyInput
  BY <1>5 DEF CopyInput
<1>6. CASE Push
  <2>1. NewTask(main.next) \in Task
    BY <1>6 DEF Push, NewTask, Task, Ids
  <2>2. main' \in MainState
    <3> DEFINE l == IF main.next + 1 < Batch THEN "push"
                    ELSE IF main.type = "job" THEN "idle" ELSE "target"
    <3>1. l \in MainPcs /\ main.next + 1 \in Nat
      OBVIOUS
    <3>2. main' = [main EXCEPT !.next = main.next + 1, !.pc = l]
      BY <1>6 DEF Push
    <3> HIDE DEF l
    <3> QED
      BY ONLY <3>1, <3>2, main \in MainState DEF MainState
  <2>3. queue' \in Seq(Task)
    BY <1>6, <2>1 DEF Push
  <2> QED
    BY <1>6, <2>2, <2>3 DEF Push
<1>7. CASE ClearTarget
  BY <1>7 DEF ClearTarget
<1>8. CASE Pause
  BY <1>8 DEF Pause
<1>9. CASE Close
  <2>1. main' \in MainState
    BY <1>9, GotoType DEF Close
  <2>2. job_ref' \in Nat /\ msgs' \in Nat
    BY <1>9 DEF Close
  <2>3. done' \in BOOLEAN
    BY <1>9, Zenon DEF Close
  <2> QED
    BY <1>9, <2>1, <2>2, <2>3 DEF Close
<1>10. CASE FreeMemory
  BY <1>10 DEF FreeMemory
<1>11. ASSUME NEW t \in Threads, Take(t) PROVE  TypeOK'
  BY <1>11 DEF Take, ThreadPcs, ThreadState
<1>12. ASSUME NEW t \in Threads, Exit(t) PROVE  TypeOK'
  BY <1>12, JumpType DEF Exit, ThreadPcs
<1>13. ASSUME NEW t \in Threads, Copy(t) PROVE  TypeOK'
  <2>1. th' \in [Threads -> ThreadState]
    <3>1. input2 \in AllJobs \cup {NoJob} /\ "first" \in ThreadPcs
      BY DEF ThreadPcs
    <3> QED
      BY ONLY <1>13, <3>1, th \in [Threads -> ThreadState] DEF Copy, ThreadState
  <2> QED
    BY <1>13, <2>1 DEF Copy
<1>14. ASSUME NEW t \in Threads, First(t) PROVE  TypeOK'
  BY <1>14, JumpType DEF First, ThreadPcs
<1>15. ASSUME NEW t \in Threads, Check(t) PROVE  TypeOK'
  BY <1>15, JumpType DEF Check, ThreadPcs
<1>16. ASSUME NEW t \in Threads, HashTest(t) PROVE  TypeOK'
  BY <1>16, JumpType DEF HashTest, ThreadPcs
<1>17. ASSUME NEW t \in Threads, Hash(t) PROVE  TypeOK'
  BY <1>17, JumpType DEF Hash, ThreadPcs
<1>18. ASSUME NEW t \in Threads, SendResult(t) PROVE  TypeOK'
  BY <1>18, JumpType DEF SendResult, ThreadPcs
<1>19. ASSUME NEW t \in Threads, SendLastNonce(t) PROVE  TypeOK'
  BY <1>19, JumpType DEF SendLastNonce, ThreadPcs
<1> QED
  BY <1>1, <1>2, <1>3, <1>4, <1>5, <1>6, <1>7, <1>8, <1>9, <1>10, <1>11, 
     <1>12, <1>13, <1>14, <1>15, <1>16, <1>17, <1>18, <1>19 
  DEF Next, Main, SetJobStep, Thread

\* The fields written so far belong to the job being set up.
LEMMA MainStep ==
    ASSUME IInv, Next
    PROVE  MainInv'
<1> USE RxAssumption DEF IInv, MainInv, Preparing, TypeOK, MainState, Goto, Jump, coreVars, MayGet, Types, AllJobs, IdentOf, MainPcs
<1>1. ASSUME NEW type \in Types, NEW job \in AllJobs, Accept(type, job) PROVE  MainInv'
  BY <1>1 DEF Accept
<1>2. CASE DatasetReady
  BY <1>2 DEF DatasetReady
<1>3. CASE SetFields
  BY <1>3 DEF SetFields
<1>4. CASE SetJobId
  BY <1>4 DEF SetJobId
<1>5. CASE CopyInput
  BY <1>5 DEF CopyInput
<1>6. CASE Push
  BY <1>6 DEF Push
<1>7. CASE ClearTarget
  BY <1>7 DEF ClearTarget
<1>8. CASE Pause
  BY <1>8 DEF Pause
<1>9. CASE Close
  BY <1>9 DEF Close
<1>10. CASE FreeMemory
  BY <1>10 DEF FreeMemory
<1>11. ASSUME NEW t \in Threads, Take(t) PROVE  MainInv'
  BY <1>11 DEF Take
<1>12. ASSUME NEW t \in Threads, Exit(t) PROVE  MainInv'
  BY <1>12 DEF Exit
<1>13. ASSUME NEW t \in Threads, Copy(t) PROVE  MainInv'
  BY <1>13 DEF Copy
<1>14. ASSUME NEW t \in Threads, First(t) PROVE  MainInv'
  BY <1>14 DEF First
<1>15. ASSUME NEW t \in Threads, Check(t) PROVE  MainInv'
  BY <1>15 DEF Check
<1>16. ASSUME NEW t \in Threads, HashTest(t) PROVE  MainInv'
  BY <1>16 DEF HashTest
<1>17. ASSUME NEW t \in Threads, Hash(t) PROVE  MainInv'
  BY <1>17 DEF Hash
<1>18. ASSUME NEW t \in Threads, SendResult(t) PROVE  MainInv'
  BY <1>18 DEF SendResult
<1>19. ASSUME NEW t \in Threads, SendLastNonce(t) PROVE  MainInv'
  BY <1>19 DEF SendLastNonce
<1> QED
  BY <1>1, <1>2, <1>3, <1>4, <1>5, <1>6, <1>7, <1>8, <1>9, <1>10, <1>11, 
     <1>12, <1>13, <1>14, <1>15, <1>16, <1>17, <1>18, <1>19 
  DEF Next, Main, SetJobStep, Thread

\* The tasks of the queue stay those of jobs that were set up.
LEMMA QueueNowStep ==
    ASSUME IInv, Next
    PROVE  QueueNow'
<1> USE RxAssumption DEF IInv, TypeOK, MainState, Task, Goto, Jump, coreVars, MainInv, Preparing, NowInv, QueueNow, Now, IdentOf, AllJobs, Types
<1>1. ASSUME NEW type \in Types, NEW job \in AllJobs, Accept(type, job) PROVE  QueueNow'
  <2>1. \A i \in DOMAIN queue : queue[i].ref \in Nat /\ queue[i].ref < job_ref + 1
    BY QueueType DEF IInv, NowInv, QueueNow, TypeOK
  <2> QED
    BY <1>1, <2>1 DEF Accept
<1>2. CASE DatasetReady
  BY <1>2 DEF DatasetReady
<1>3. CASE SetFields
  BY <1>3 DEF SetFields
<1>4. CASE SetJobId
  BY <1>4 DEF SetJobId
<1>5. CASE CopyInput
  BY <1>5 DEF CopyInput
<1>6. CASE Push
  <2>1. PICK new \in Task : /\ queue' = Append(queue, new)
                            /\ new.ref = job_ref /\ new.job = main.job
                            /\ new.type = main.type /\ new.id = main.next
    BY <1>6 DEF Push, NewTask, Ids
  <2>2. UNCHANGED <<job_ref, input2, ident, target>> /\ main'.next = main.next + 1
    BY <1>6 DEF Push
  <2>3. ~ Preparing' /\ main.next \in Nat
    BY <1>6 DEF Push
  <2>4. Now(new)'
    <3>1. input2 = main.job /\ (main.type = "job" => ident = IdentOf(main.job)) /\ (main.type # "job" => ~ target)
      BY <1>6 DEF Push
    <3> QED
      BY ONLY <3>1, <2>1, <2>2, <2>3 DEF Now, Preparing, IdentOf
  <2>5. ASSUME NEW k \in Task, Now(k) PROVE  Now(k)'
    BY <1>6, <2>2, <2>3, <2>5 DEF Push, Ids
  <2>6. \A i \in DOMAIN queue : queue[i] \in Task /\ Now(queue[i]) /\ queue[i].ref <= job_ref
    BY QueueType
  <2>7. queue \in Seq(Task) /\ job_ref \in Nat
    OBVIOUS
  <2> QED
    BY ONLY <2>1, <2>2, <2>4, <2>5, <2>6, <2>7 DEF QueueNow
<1>7. CASE ClearTarget
  BY <1>7 DEF ClearTarget
<1>8. CASE Pause
  <2>1. \A i \in DOMAIN queue : queue[i].ref \in Nat /\ queue[i].ref < job_ref + 1
    BY QueueType DEF IInv, NowInv, QueueNow, TypeOK
  <2> QED
    BY <1>8, <2>1 DEF Pause
<1>9. CASE Close
  <2>1. \A i \in DOMAIN queue : queue[i].ref \in Nat /\ queue[i].ref < job_ref + 1
    BY QueueType DEF IInv, NowInv, QueueNow, TypeOK
  <2>2. queue' = queue /\ main'.pc \in {"join", "off"} /\ input2' = input2 /\ ident' = ident /\ target' = target
    BY <1>9 DEF Close
  <2>3. CASE vms
    BY <1>9, <2>1, <2>2, <2>3 DEF Close
  <2>4. CASE ~ vms
    BY <1>9, <2>1, <2>2, <2>4 DEF Close
  <2> QED
    BY <2>3, <2>4
<1>10. CASE FreeMemory
  BY <1>10 DEF FreeMemory
<1>11. ASSUME NEW t \in Threads, Take(t) PROVE  QueueNow'
  BY <1>11 DEF Take
<1>12. ASSUME NEW t \in Threads, Exit(t) PROVE  QueueNow'
  BY <1>12 DEF Exit
<1>13. ASSUME NEW t \in Threads, Copy(t) PROVE  QueueNow'
  BY <1>13 DEF Copy
<1>14. ASSUME NEW t \in Threads, First(t) PROVE  QueueNow'
  BY <1>14 DEF First
<1>15. ASSUME NEW t \in Threads, Check(t) PROVE  QueueNow'
  BY <1>15 DEF Check
<1>16. ASSUME NEW t \in Threads, HashTest(t) PROVE  QueueNow'
  BY <1>16 DEF HashTest
<1>17. ASSUME NEW t \in Threads, Hash(t) PROVE  QueueNow'
  BY <1>17 DEF Hash
<1>18. ASSUME NEW t \in Threads, SendResult(t) PROVE  QueueNow'
  BY <1>18 DEF SendResult
<1>19. ASSUME NEW t \in Threads, SendLastNonce(t) PROVE  QueueNow'
  BY <1>19 DEF SendLastNonce
<1> QED
  BY <1>1, <1>2, <1>3, <1>4, <1>5, <1>6, <1>7, <1>8, <1>9, <1>10, <1>11,
     <1>12, <1>13, <1>14, <1>15, <1>16, <1>17, <1>18, <1>19
  DEF Next, Main, SetJobStep, Thread

\* So do the tasks of the threads.
LEMMA ThreadNowStep ==
    ASSUME IInv, Next
    PROVE  ThreadNow'
<1> USE RxAssumption DEF IInv, TypeOK, MainState, Task, Goto, Jump, coreVars, MainInv, Preparing, NowInv, QueueNow, Now, IdentOf, AllJobs, Types, ThreadNow, Busy, ThreadState
<1>1. ASSUME NEW type \in Types, NEW job \in AllJobs, Accept(type, job) PROVE  ThreadNow'
  BY <1>1 DEF Accept
<1>2. CASE DatasetReady
  BY <1>2 DEF DatasetReady
<1>3. CASE SetFields
  BY <1>3 DEF SetFields
<1>4. CASE SetJobId
  BY <1>4 DEF SetJobId
<1>5. CASE CopyInput
  BY <1>5 DEF CopyInput
<1>6. CASE Push
  <2>1. th' = th /\ job_ref' = job_ref /\ main.pc = "push" /\ input2' = input2 /\ ident' = ident /\ target' = target
    BY <1>6 DEF Push
  <2>2. ~ Preparing' /\ (main'.pc = "push" => main'.next = main.next + 1)
    BY <1>6 DEF Push
  <2>3. ASSUME NEW k \in Task, Now(k) PROVE  Now(k)'
    BY <2>1, <2>2, <2>3 DEF Ids
  <2> QED
    BY <2>1, <2>3 DEF ThreadNow, Busy, ThreadState
<1>7. CASE ClearTarget
  BY <1>7 DEF ClearTarget
<1>8. CASE Pause
  <2>1. \A u \in Threads : Busy(u) => th[u].task.ref < job_ref + 1
    BY ThreadType DEF IInv, ThreadNow
  <2> QED
    BY <1>8, <2>1, ThreadType DEF Pause
<1>9. CASE Close
  BY <1>9 DEF Close
<1>10. CASE FreeMemory
  BY <1>10 DEF FreeMemory
<1>11. ASSUME NEW t \in Threads, Take(t) PROVE  ThreadNow'
  BY <1>11, QueueType DEF Take, Take
<1>12. ASSUME NEW t \in Threads, Exit(t) PROVE  ThreadNow'
  BY <1>12 DEF Exit
<1>13. ASSUME NEW t \in Threads, Copy(t) PROVE  ThreadNow'
  BY <1>13 DEF Copy
<1>14. ASSUME NEW t \in Threads, First(t) PROVE  ThreadNow'
  BY <1>14 DEF First
<1>15. ASSUME NEW t \in Threads, Check(t) PROVE  ThreadNow'
  <2>1. \A u \in Threads : th'[u].task = th[u].task /\ (Busy(u)' => Busy(u))
    BY <1>15, CheckEffect
  <2>2. UNCHANGED <<main, job_ref, input2, ident, target>>
    BY <1>15 DEF Check
  <2> QED
    BY ONLY <2>1, <2>2, ThreadNow DEF ThreadNow, Now, Preparing
<1>16. ASSUME NEW t \in Threads, HashTest(t) PROVE  ThreadNow'
  BY <1>16 DEF HashTest
<1>17. ASSUME NEW t \in Threads, Hash(t) PROVE  ThreadNow'
  <2>1. \A u \in Threads : th'[u].task = th[u].task /\ (Busy(u)' => Busy(u))
    BY <1>17, HashEffect
  <2>2. UNCHANGED <<main, job_ref, input2, ident, target>>
    BY <1>17 DEF Hash
  <2> QED
    BY ONLY <2>1, <2>2, ThreadNow DEF ThreadNow, Now, Preparing
<1>18. ASSUME NEW t \in Threads, SendResult(t) PROVE  ThreadNow'
  BY <1>18 DEF SendResult
<1>19. ASSUME NEW t \in Threads, SendLastNonce(t) PROVE  ThreadNow'
  BY <1>19 DEF SendLastNonce
<1> QED
  BY <1>1, <1>2, <1>3, <1>4, <1>5, <1>6, <1>7, <1>8, <1>9, <1>10, <1>11,
     <1>12, <1>13, <1>14, <1>15, <1>16, <1>17, <1>18, <1>19
  DEF Next, Main, SetJobStep, Thread

\* A hash of the newest job is one of its blob.
LEMMA InputNowStep ==
    ASSUME IInv, Next
    PROVE  InputNow' /\ OwnInput'
<1> USE RxAssumption DEF IInv, TypeOK, MainState, Task, Goto, Jump, coreVars, MainInv, Preparing, NowInv, QueueNow, Now, IdentOf, AllJobs, Types, ThreadNow, InputNow, Busy, ThreadState, Loops, OwnInput
<1>1. ASSUME NEW type \in Types, NEW job \in AllJobs, Accept(type, job) PROVE  InputNow' /\ OwnInput'
  <2>1. \A u \in Threads : Busy(u) => th[u].task.ref < job_ref + 1
    BY ThreadType DEF ThreadNow
  <2>2. \A u \in Threads : Busy(u) => ~ Loops(u)'
    BY <1>1, <2>1, ThreadType DEF Accept
  <2> QED
    BY <1>1, <2>2 DEF Accept
<1>2. CASE DatasetReady
  BY <1>2 DEF DatasetReady
<1>3. CASE SetFields
  BY <1>3 DEF SetFields
<1>4. CASE SetJobId
  BY <1>4 DEF SetJobId
<1>5. CASE CopyInput
  BY <1>5 DEF CopyInput
<1>6. CASE Push
  BY <1>6 DEF Push
<1>7. CASE ClearTarget
  BY <1>7 DEF ClearTarget
<1>8. CASE Pause
  <2>1. \A u \in Threads : Busy(u) => th[u].task.ref < job_ref + 1
    BY ThreadType DEF ThreadNow
  <2>2. \A u \in Threads : Busy(u) => ~ Loops(u)'
    BY <1>8, <2>1, ThreadType DEF Pause
  <2> QED
    BY <1>8, <2>2 DEF Pause
<1>9. CASE Close
  <2>1. \A u \in Threads : Busy(u) => th[u].task.ref < job_ref + 1
    BY ThreadType DEF ThreadNow
  <2>2. CASE job_ref' = job_ref + 1
    <3>1. \A u \in Threads : Busy(u) => ~ Loops(u)'
      BY <1>9, <2>1, <2>2, ThreadType DEF Close
    <3> QED
      BY <1>9, <3>1 DEF Close
  <2>3. CASE job_ref' = job_ref
    BY <1>9, <2>3 DEF Close
  <2> QED
    BY <1>9, <2>2, <2>3 DEF Close
<1>10. CASE FreeMemory
  BY <1>10 DEF FreeMemory
<1>11. ASSUME NEW t \in Threads, Take(t) PROVE  InputNow' /\ OwnInput'
  BY <1>11 DEF Take
<1>12. ASSUME NEW t \in Threads, Exit(t) PROVE  InputNow' /\ OwnInput'
  BY <1>12 DEF Exit
<1>13. ASSUME NEW t \in Threads, Copy(t) PROVE  InputNow' /\ OwnInput'
  <2>1. \A u \in Threads : u # t => th'[u] = th[u]
    BY <1>13 DEF Copy
  <2>2. th'[t].pc = "first" /\ th'[t].input = input2 /\ th'[t].task = th[t].task
    BY <1>13 DEF Copy
  <2>3. Loops(t) => th[t].task.job = input2
    BY <1>13 DEF Copy
  <2>4. job_ref' = job_ref
    BY <1>13 DEF Copy
  <2>5. OwnInput /\ InputNow
    OBVIOUS
  <2> QED
    BY ONLY <2>1, <2>2, <2>3, <2>4, <2>5, OneThread, t \in Threads DEF Loops
<1>14. ASSUME NEW t \in Threads, First(t) PROVE  InputNow' /\ OwnInput'
  BY <1>14 DEF First
<1>15. ASSUME NEW t \in Threads, Check(t) PROVE  InputNow' /\ OwnInput'
  <2>1. th[t].pc = "check" /\ (Loops(t) => th[t].input = th[t].task.job)
    BY <1>15, CheckEffect
  <2>2. OwnInput /\ InputNow /\ job_ref' = job_ref
    BY <1>15 DEF Check
  <2>3. /\ \A u \in Threads : u # t => th'[u] = th[u]
        /\ th'[t].pc = "last" \/ (th'[t].pc = "hash" /\ Loops(t))
        /\ th'[t].task = th[t].task /\ th'[t].input = th[t].input
    BY <1>15, CheckEffect
  <2> QED
    BY ONLY <2>1, <2>2, <2>3, OneThread, t \in Threads
<1>16. ASSUME NEW t \in Threads, HashTest(t) PROVE  InputNow' /\ OwnInput'
  BY <1>16 DEF HashTest
<1>17. ASSUME NEW t \in Threads, Hash(t) PROVE  InputNow' /\ OwnInput'
  <2>1. th[t].pc = "hash" /\ th[t].input = th[t].task.job
    BY <1>17, HashEffect
  <2>2. Loops(t) /\ target => th[t].task.type = "job"
    BY <1>17, ThreadType, <2>1
  <2>3. OwnInput /\ InputNow /\ TypeOK /\ job_ref' = job_ref
    BY <1>17 DEF Hash
  <2>4. /\ \A u \in Threads : u # t => th'[u] = th[u]
        /\ th'[t].pc = "check" \/ (th'[t].pc = "send" /\ target)
        /\ th'[t].task = th[t].task /\ th'[t].input = th[t].input
    BY <1>17, HashEffect
  <2>5. th'[t].task.ref = job_ref /\ th'[t].pc = "send" => th'[t].task.type = "job"
    BY ONLY <2>2, <2>4 DEF Loops
  <2>6. th'[t].pc = "check" /\ th'[t].task.ref = job_ref => th'[t].input = th'[t].task.job
    BY ONLY <2>1, <2>4
  <2> QED
    BY ONLY <2>1, <2>3, <2>4, <2>5, <2>6, OneThread, t \in Threads
<1>18. ASSUME NEW t \in Threads, SendResult(t) PROVE  InputNow' /\ OwnInput'
  BY <1>18 DEF SendResult
<1>19. ASSUME NEW t \in Threads, SendLastNonce(t) PROVE  InputNow' /\ OwnInput'
  BY <1>19 DEF SendLastNonce
<1> QED
  BY <1>1, <1>2, <1>3, <1>4, <1>5, <1>6, <1>7, <1>8, <1>9, <1>10, <1>11,
     <1>12, <1>13, <1>14, <1>15, <1>16, <1>17, <1>18, <1>19
  DEF Next, Main, SetJobStep, Thread

\* A task is pushed with an id of its own.
LEMMA IdStep ==
    ASSUME IInv, Next
    PROVE  IdInv'
<1> USE RxAssumption DEF IInv, TypeOK, Goto, Jump, coreVars, IdInv, QueueIds, ThreadIds, Busy
<1>1. ASSUME NEW type \in Types, NEW job \in AllJobs, Accept(type, job) PROVE  IdInv'
  BY <1>1 DEF Accept
<1>2. CASE DatasetReady
  BY <1>2 DEF DatasetReady
<1>3. CASE SetFields
  BY <1>3 DEF SetFields
<1>4. CASE SetJobId
  BY <1>4 DEF SetJobId
<1>5. CASE CopyInput
  BY <1>5 DEF CopyInput
<1>6. CASE Push
  <2>1. PICK new \in Task : /\ queue' = Append(queue, new)
                            /\ new.ref = job_ref /\ new.id = main.next
    <3>1. NewTask(main.next) \in Task
      BY <1>6 DEF Push, NewTask, Ids, MainInv, MainState, Task, Preparing, Types, AllJobs
    <3> QED
      BY <1>6, <3>1 DEF Push, NewTask
  <2>2. UNCHANGED <<job_ref, th>> /\ main.pc = "push" /\ main.next \in Nat
    BY <1>6 DEF Push, MainState
  <2>3. \A i \in DOMAIN queue : queue[i] \in Task /\ (queue[i].ref = job_ref => queue[i].id < main.next)
    BY <2>2, QueueType DEF NowInv, QueueNow, Now
  <2>4. \A t \in Threads : Busy(t) /\ th[t].task.ref = job_ref => th[t].task.id < main.next
    BY <2>2 DEF NowInv, ThreadNow, Now
  <2>5. queue \in Seq(Task)
    OBVIOUS
  <2> QED
    BY ONLY <2>1, <2>2, <2>3, <2>4, <2>5, QueueIds, ThreadIds DEF QueueIds, ThreadIds, Busy
<1>7. CASE ClearTarget
  BY <1>7 DEF ClearTarget
<1>8. CASE Pause
  BY <1>8 DEF Pause
<1>9. CASE Close
  BY <1>9 DEF Close
<1>10. CASE FreeMemory
  BY <1>10 DEF FreeMemory
<1>11. ASSUME NEW t \in Threads, Take(t) PROVE  IdInv'
  <2>1. queue \in Seq(Task) /\ queue # <<>> /\ queue' = Tail(queue)
    BY <1>11 DEF Take
  <2>2. \A i \in DOMAIN queue' : i + 1 \in DOMAIN queue /\ queue'[i] = queue[i + 1] /\ i \in Nat \ {0}
    BY ONLY <2>1
  <2>3. 1 \in DOMAIN queue /\ Head(queue) = queue[1]
    BY ONLY <2>1
  <2>4. th'[t].task = queue[1] /\ \A u \in Threads : u # t => th'[u] = th[u]
    BY <1>11, <2>3 DEF Take, ThreadState
  <2>5. QueueIds'
    <3>1. QueueIds
      OBVIOUS
    <3> QED
      BY ONLY <2>2, <3>1 DEF QueueIds
  <2>6. ASSUME NEW u \in Threads, NEW i \in DOMAIN queue', Busy(u)',
               th'[u].task.ref = queue'[i].ref
        PROVE  th'[u].task.id # queue'[i].id
    <3>1. CASE u = t
      <4>1. QueueIds /\ 1 \in DOMAIN queue
        BY <2>3
      <4> QED
        BY ONLY <2>2, <2>4, <2>6, <3>1, <4>1 DEF QueueIds
    <3>2. CASE u # t
      <4>1. ThreadIds
        OBVIOUS
      <4> QED
        BY ONLY <2>2, <2>4, <2>6, <3>2, <4>1 DEF ThreadIds, Busy
    <3> QED
      BY <3>1, <3>2
  <2> QED
    BY <2>5, <2>6
<1>12. ASSUME NEW t \in Threads, Exit(t) PROVE  IdInv'
  BY <1>12 DEF Exit
<1>13. ASSUME NEW t \in Threads, Copy(t) PROVE  IdInv'
  BY <1>13 DEF Copy
<1>14. ASSUME NEW t \in Threads, First(t) PROVE  IdInv'
  BY <1>14 DEF First
<1>15. ASSUME NEW t \in Threads, Check(t) PROVE  IdInv'
  BY <1>15, CheckEffect DEF Check
<1>16. ASSUME NEW t \in Threads, HashTest(t) PROVE  IdInv'
  BY <1>16 DEF HashTest
<1>17. ASSUME NEW t \in Threads, Hash(t) PROVE  IdInv'
  BY <1>17, HashEffect DEF Hash
<1>18. ASSUME NEW t \in Threads, SendResult(t) PROVE  IdInv'
  BY <1>18 DEF SendResult
<1>19. ASSUME NEW t \in Threads, SendLastNonce(t) PROVE  IdInv'
  BY <1>19 DEF SendLastNonce
<1> QED
  BY <1>1, <1>2, <1>3, <1>4, <1>5, <1>6, <1>7, <1>8, <1>9, <1>10, <1>11,
     <1>12, <1>13, <1>14, <1>15, <1>16, <1>17, <1>18, <1>19
  DEF Next, Main, SetJobStep, Thread

\* The threads take their VMs from the queue.
LEMMA DisjointStep ==
    ASSUME IInv, Next
    PROVE  SameJobVmsDisjoint'
<1> USE RxAssumption DEF IInv, TypeOK, Goto, Jump, coreVars, IdInv, QueueIds, ThreadIds, Busy, SameJobVmsDisjoint
<1>1. ASSUME NEW type \in Types, NEW job \in AllJobs, Accept(type, job) PROVE  SameJobVmsDisjoint'
  BY <1>1 DEF Accept
<1>2. CASE DatasetReady
  BY <1>2 DEF DatasetReady
<1>3. CASE SetFields
  BY <1>3 DEF SetFields
<1>4. CASE SetJobId
  BY <1>4 DEF SetJobId
<1>5. CASE CopyInput
  BY <1>5 DEF CopyInput
<1>6. CASE Push
  BY <1>6 DEF Push
<1>7. CASE ClearTarget
  BY <1>7 DEF ClearTarget
<1>8. CASE Pause
  BY <1>8 DEF Pause
<1>9. CASE Close
  BY <1>9 DEF Close
<1>10. CASE FreeMemory
  BY <1>10 DEF FreeMemory
<1>11. ASSUME NEW t \in Threads, Take(t) PROVE  SameJobVmsDisjoint'
  <2>1. queue \in Seq(Task) /\ queue # <<>> /\ queue' = Tail(queue)
    BY <1>11 DEF Take
  <2>2. \A i \in DOMAIN queue' : i + 1 \in DOMAIN queue /\ queue'[i] = queue[i + 1] /\ i \in Nat \ {0}
    BY ONLY <2>1
  <2>3. 1 \in DOMAIN queue /\ Head(queue) = queue[1]
    BY ONLY <2>1
  <2>4. th'[t].task = queue[1] /\ \A u \in Threads : u # t => th'[u] = th[u]
    BY <1>11, <2>3 DEF Take, ThreadState
  <2> QED
    BY <2>3, <2>4
<1>12. ASSUME NEW t \in Threads, Exit(t) PROVE  SameJobVmsDisjoint'
  BY <1>12 DEF Exit
<1>13. ASSUME NEW t \in Threads, Copy(t) PROVE  SameJobVmsDisjoint'
  BY <1>13 DEF Copy
<1>14. ASSUME NEW t \in Threads, First(t) PROVE  SameJobVmsDisjoint'
  BY <1>14 DEF First
<1>15. ASSUME NEW t \in Threads, Check(t) PROVE  SameJobVmsDisjoint'
  BY <1>15, CheckEffect DEF Check
<1>16. ASSUME NEW t \in Threads, HashTest(t) PROVE  SameJobVmsDisjoint'
  BY <1>16 DEF HashTest
<1>17. ASSUME NEW t \in Threads, Hash(t) PROVE  SameJobVmsDisjoint'
  BY <1>17, HashEffect DEF Hash
<1>18. ASSUME NEW t \in Threads, SendResult(t) PROVE  SameJobVmsDisjoint'
  BY <1>18 DEF SendResult
<1>19. ASSUME NEW t \in Threads, SendLastNonce(t) PROVE  SameJobVmsDisjoint'
  BY <1>19 DEF SendLastNonce
<1> QED
  BY <1>1, <1>2, <1>3, <1>4, <1>5, <1>6, <1>7, <1>8, <1>9, <1>10, <1>11,
     <1>12, <1>13, <1>14, <1>15, <1>16, <1>17, <1>18, <1>19
  DEF Next, Main, SetJobStep, Thread

\* The VMs are made before the first task and freed after the last.
LEMMA VmStep ==
    ASSUME IInv, Next
    PROVE  VmInv' /\ VmsOutliveThreads'
<1> USE RxAssumption DEF IInv, TypeOK, MainState, ThreadState, Goto, Jump, coreVars, VmInv, VmsOutliveThreads, Busy, MayGet, MainInv, Seeds, AllJobs
<1>1. ASSUME NEW type \in Types, NEW job \in AllJobs, Accept(type, job) PROVE  VmInv' /\ VmsOutliveThreads'
  <2>1. SeedOf[job] \notin {NoSeed, Mixed}
    <3>1. job \in AllJobs
      OBVIOUS
    <3> QED
      BY ONLY <3>1, RxAssumption
  <2>2. main.pc = "idle" /\ main'.pc \in {"fields", "dataset"} /\ (main'.pc = "fields" => dataset = SeedOf[job])
    BY <1>1 DEF Accept
  <2> QED
    BY <1>1, <2>1, <2>2 DEF Accept
<1>2. CASE DatasetReady
  BY <1>2 DEF DatasetReady
<1>3. CASE SetFields
  BY <1>3 DEF SetFields
<1>4. CASE SetJobId
  BY <1>4 DEF SetJobId
<1>5. CASE CopyInput
  BY <1>5 DEF CopyInput
<1>6. CASE Push
  BY <1>6 DEF Push
<1>7. CASE ClearTarget
  BY <1>7 DEF ClearTarget
<1>8. CASE Pause
  BY <1>8 DEF Pause
<1>9. CASE Close
  BY <1>9 DEF Close
<1>10. CASE FreeMemory
  <2>1. 1 \in Threads
    BY DEF Threads
  <2>2. \A t \in Threads : th[t].pc = "exit"
    BY <1>10 DEF FreeMemory
  <2>3. queue = <<>> /\ done
    BY <2>1, <2>2
  <2>4. UNCHANGED <<queue, th, done>> /\ main'.pc = "off" /\ dataset' = NoSeed
    BY <1>10 DEF FreeMemory
  <2> QED
    BY ONLY <2>2, <2>3, <2>4 DEF VmInv, VmsOutliveThreads, Busy
<1>11. ASSUME NEW t \in Threads, Take(t) PROVE  VmInv' /\ VmsOutliveThreads'
  BY <1>11 DEF Take
<1>12. ASSUME NEW t \in Threads, Exit(t) PROVE  VmInv' /\ VmsOutliveThreads'
  BY <1>12 DEF Exit
<1>13. ASSUME NEW t \in Threads, Copy(t) PROVE  VmInv' /\ VmsOutliveThreads'
  BY <1>13 DEF Copy
<1>14. ASSUME NEW t \in Threads, First(t) PROVE  VmInv' /\ VmsOutliveThreads'
  BY <1>14 DEF First
<1>15. ASSUME NEW t \in Threads, Check(t) PROVE  VmInv' /\ VmsOutliveThreads'
  <2>1. \A u \in Threads : (th'[u].pc = "exit" => th[u].pc = "exit") /\ (Busy(u)' => Busy(u))
    BY <1>15, CheckEffect
  <2>2. UNCHANGED <<main, dataset, vms, queue, done>>
    BY <1>15 DEF Check
  <2> QED
    BY ONLY <2>1, <2>2, VmInv, VmsOutliveThreads DEF VmInv, VmsOutliveThreads
<1>16. ASSUME NEW t \in Threads, HashTest(t) PROVE  VmInv' /\ VmsOutliveThreads'
  BY <1>16 DEF HashTest
<1>17. ASSUME NEW t \in Threads, Hash(t) PROVE  VmInv' /\ VmsOutliveThreads'
  <2>1. \A u \in Threads : (th'[u].pc = "exit" => th[u].pc = "exit") /\ (Busy(u)' => Busy(u))
    BY <1>17, HashEffect
  <2>2. UNCHANGED <<main, dataset, vms, queue, done>>
    BY <1>17 DEF Hash
  <2> QED
    BY ONLY <2>1, <2>2, VmInv, VmsOutliveThreads DEF VmInv, VmsOutliveThreads
<1>18. ASSUME NEW t \in Threads, SendResult(t) PROVE  VmInv' /\ VmsOutliveThreads'
  BY <1>18 DEF SendResult
<1>19. ASSUME NEW t \in Threads, SendLastNonce(t) PROVE  VmInv' /\ VmsOutliveThreads'
  BY <1>19 DEF SendLastNonce
<1> QED
  BY <1>1, <1>2, <1>3, <1>4, <1>5, <1>6, <1>7, <1>8, <1>9, <1>10, <1>11,
     <1>12, <1>13, <1>14, <1>15, <1>16, <1>17, <1>18, <1>19
  DEF Next, Main, SetJobStep, Thread

\* The invariant holds at first.
LEMMA Initially ==
    ASSUME Init
    PROVE  IInv
<1> USE RxAssumption DEF Init, Idle
<1>1. TypeOK
  <2>1. NoTask \in Task
    BY DEF NoTask, Task, Ids, Types, AllJobs
  <2>2. th \in [Threads -> ThreadState]
    BY <2>1 DEF ThreadState, ThreadPcs
  <2>3. main \in MainState
    BY DEF MainState, MainPcs, Types
  <2>4. ident \in [pool : Pools \cup {NoPool}, job : Jobs \cup {NoJob}] /\ queue \in Seq(Task)
    OBVIOUS
  <2> QED
    BY <2>2, <2>3, <2>4 DEF TypeOK
<1>2. MainInv
  BY DEF MainInv, Preparing
<1>3. NowInv /\ OwnInput /\ IdInv /\ SameJobVmsDisjoint /\ VmsOutliveThreads
  BY DEF NowInv, QueueNow, ThreadNow, InputNow, OwnInput, IdInv, QueueIds, ThreadIds,
         SameJobVmsDisjoint, VmsOutliveThreads, Busy
<1>4. VmInv
  BY DEF VmInv
<1> QED
  BY <1>1, <1>2, <1>3, <1>4 DEF IInv

\* A step that changes nothing keeps it.
LEMMA Stutter ==
    ASSUME IInv, UNCHANGED vars
    PROVE  IInv'
<1> USE DEF vars, coreVars
<1>1. TypeOK'
  BY DEF IInv, TypeOK
<1>2. MainInv'
  BY DEF IInv, MainInv, Preparing
<1>3. QueueNow' /\ ThreadNow' /\ InputNow' /\ OwnInput'
  BY DEF IInv, NowInv, QueueNow, ThreadNow, InputNow, OwnInput, Now, Preparing, Busy, Loops
<1>4. IdInv' /\ SameJobVmsDisjoint' /\ VmInv' /\ VmsOutliveThreads'
  BY DEF IInv, IdInv, QueueIds, ThreadIds, SameJobVmsDisjoint, VmInv, VmsOutliveThreads, Busy
<1> QED
  BY <1>1, <1>2, <1>3, <1>4 DEF IInv, NowInv

\* IInv is an invariant.
LEMMA Invariance == Spec => []IInv
<1>1. Init => IInv
  BY Initially
<1>2. IInv /\ [Next]_vars => IInv'
  BY TypeStep, MainStep, QueueNowStep, ThreadNowStep, InputNowStep, IdStep, DisjointStep,
     VmStep, Stutter DEF IInv, NowInv
<1> QED
  BY <1>1, <1>2, PTL DEF Spec

\* The variables keep their types, for any number of threads and jobs.
THEOREM TypesHold == Spec => []TypeOK
<1>1. IInv => TypeOK
  BY DEF IInv
<1> QED
  BY <1>1, Invariance, PTL

\* A thread that hashes in the loop has the blob of its own job, whenever set_job
\* overwrites new_input2 (mominer-job.cpp:329-351).
THEOREM BlobIsOwn == Spec => []OwnInput
<1>1. IInv => OwnInput
  BY DEF IInv
<1> QED
  BY <1>1, Invariance, PTL

\* free_memory frees no VM that a thread may use (mominer-core.cpp:186-220).
THEOREM VmsStay == Spec => []VmsOutliveThreads
<1>1. IInv => VmsOutliveThreads
  BY DEF IInv
<1> QED
  BY <1>1, Invariance, PTL

\* Each VM has at most one thread of the same job (mominer-job.cpp:334-336).
THEOREM VmsAreDisjoint == Spec => []SameJobVmsDisjoint
<1>1. IInv => SameJobVmsDisjoint
  BY DEF IInv
<1> QED
  BY <1>1, Invariance, PTL

\* What the newest job's threads send bears the pool and the id of that job
\* (mominer-core.cpp:128-169, mominer-job.cpp:316-334).
THEOREM NewestJobIsNamed == Spec => CurrentAttribution
<1>1. IInv /\ [Next]_vars =>
        [\A t \in Threads : SendResult(t) /\ Loops(t) => ident = IdentOf(th[t].task.job)]_vars
  BY DEF IInv, NowInv, ThreadNow, InputNow, Now, Loops, Busy, SendResult
<1> QED
  BY <1>1, Invariance, PTL DEF Spec, CurrentAttribution

----------------------------------------------------------------------------
(* The answers to a test.                                                  *)

\* A thread that has a test's answer to send.
Owes(t) == th[t].task.type = "test" /\ th[t].pc \in {"copy", "first", "check", "hash"}

\* The tasks that have their answer to send, in the queue or with a thread.
Unanswered == {k \in Queued : k.type = "test"} \cup {th[t].task : t \in {u \in Threads : Owes(u)}}

\* How many tasks of the test were pushed.
Pushed == IF Preparing THEN 0 ELSE IF main.pc = "push" THEN main.next ELSE Batch

\* "close" was accepted.  Before it a test is the last message, so that nothing
\* increments m_job_ref under its threads.
Over == main.pc \in {"join", "off"}

TestTasks ==
    /\ \A k \in Queued : k.type = "test" => main.type = "test" /\ (Over \/ k.ref = job_ref)
    /\ \A t \in Threads : th[t].task.type = "test" => main.type = "test"
    /\ \A t \in Threads : Owes(t) => Over \/ th[t].task.ref = job_ref
    /\ \A t \in Threads : th[t].pc = "send" => th[t].task.type # "test"

Ledger ==
    /\ IsFiniteSet(Unanswered)
    /\ main.type # "test" => tested = 0
    /\ main.type = "test" => tested + Cardinality(Unanswered) <= Pushed
    /\ main.type = "test" /\ ~ Over => tested + Cardinality(Unanswered) = Pushed

TestInv == TestTasks /\ Ledger

LEMMA UnansweredIs ==
    \A k : k \in Unanswered <=>
        \/ k.type = "test" /\ \E i \in DOMAIN queue : queue[i] = k
        \/ \E t \in Threads : Owes(t) /\ th[t].task = k
  BY DEF Unanswered, Queued

\* Only a test has tasks that owe an answer.
LEMMA NoneUnanswered ==
    ASSUME TestInv, main.type # "test"
    PROVE  Unanswered = {} /\ tested = 0
<1>1. Unanswered = {}
  BY DEF TestInv, TestTasks, Unanswered, Owes
<1> QED
  BY <1>1 DEF TestInv, Ledger

\* The ledger, when the tasks are the same.
LEMMA SameLedger ==
    ASSUME TestInv, Unanswered' = Unanswered, tested' = tested, main'.type = main.type,
           Pushed' = Pushed, Over' = Over
    PROVE  Ledger'
  BY DEF TestInv, Ledger

\* A step of the main thread that pushes nothing and starts no job.
LEMMA MainQuiet ==
    ASSUME TestInv, UNCHANGED <<queue, th, tested, job_ref>>, main'.type = main.type,
           Pushed' = Pushed, Over' = Over
    PROVE  TestInv'
<1>1. Unanswered' = Unanswered
  BY DEF Unanswered, Queued, Owes
<1>2. TestTasks'
  BY DEF TestInv, TestTasks, Queued, Owes
<1> QED
  BY <1>1, <1>2, SameLedger DEF TestInv

\* A step of a thread that owes an answer before and after it, or never.
LEMMA ThreadQuiet ==
    ASSUME TestInv, NEW t \in Threads, UNCHANGED <<main, queue, tested, job_ref>>,
           \A u \in Threads : u # t => th'[u] = th[u],
           th'[t].task = th[t].task, Owes(t)' <=> Owes(t),
           th'[t].pc = "send" => th[t].task.type # "test"
    PROVE  TestInv'
<1>1. \A u \in Threads : (Owes(u)' <=> Owes(u)) /\ th'[u].task = th[u].task
  BY DEF Owes
<1>2. Unanswered' = Unanswered
  BY <1>1 DEF Unanswered, Queued
<1>3. TestTasks'
  <2>1. \A u \in Threads : th'[u].pc = "send" => th'[u].task.type # "test"
    BY DEF TestInv, TestTasks
  <2> QED
    BY <1>1, <2>1 DEF TestInv, TestTasks, Queued, Over
<1>4. Pushed' = Pushed /\ Over' = Over
  BY DEF Pushed, Over, Preparing
<1> QED
  BY <1>2, <1>3, <1>4, SameLedger DEF TestInv

\* A thread that comes to owe nothing takes one task off the list: no other
\* thread and nothing in the queue is the same task.
LEMMA Settled ==
    ASSUME IInv, TestInv, NEW t \in Threads, UNCHANGED <<main, queue, job_ref>>,
           \A u \in Threads : u # t => th'[u] = th[u],
           th'[t].task = th[t].task, Owes(t), ~ Owes(t)', th'[t].pc # "send"
    PROVE  /\ TestTasks'
           /\ IsFiniteSet(Unanswered')
           /\ Cardinality(Unanswered') = Cardinality(Unanswered) - 1
<1> DEFINE k == th[t].task
<1>1. \A u \in Threads : th'[u].task = th[u].task /\ (Owes(u)' <=> Owes(u) /\ u # t)
  BY DEF Owes
<1>2. \A i \in DOMAIN queue : queue[i] # k
  BY DEF IInv, IdInv, ThreadIds, Owes, Busy
<1>3. \A u \in Threads : u # t /\ Owes(u) => th[u].task # k
  BY DEF IInv, SameJobVmsDisjoint, Owes, Busy
<1>4. k \in Unanswered
  BY UnansweredIs
<1>5. Unanswered' = Unanswered \ {k}
  <2>1. Unanswered' = {q \in Queued : q.type = "test"}
                      \cup {th[u].task : u \in {v \in Threads : Owes(v) /\ v # t}}
    BY <1>1 DEF Unanswered, Queued
  <2>2. k \notin {q \in Queued : q.type = "test"}
    BY <1>2 DEF Queued
  <2> QED
    BY <1>3, <2>1, <2>2 DEF Unanswered
<1>6. TestTasks'
  <2>1. \A u \in Threads : th'[u].pc = "send" => th'[u].task.type # "test"
    BY DEF TestInv, TestTasks
  <2> QED
    BY <1>1, <2>1 DEF TestInv, TestTasks, Queued, Over
<1> HIDE DEF k
<1> QED
  BY <1>4, <1>5, <1>6, FS_RemoveElement DEF TestInv, Ledger

\* A task of a test is handed over to a thread.
LEMMA TakeStep ==
    ASSUME IInv, TestInv, NEW t \in Threads, Take(t)
    PROVE  TestInv'
<1>1. queue \in Seq(Task) /\ th \in [Threads -> ThreadState]
  BY DEF IInv, TypeOK
<1>2. queue # <<>> /\ queue' = Tail(queue) /\ th[t].pc = "wait"
  BY DEF Take
<1>3. /\ 1 \in DOMAIN queue /\ Head(queue) = queue[1]
      /\ \A i \in DOMAIN queue' : i + 1 \in DOMAIN queue /\ queue'[i] = queue[i + 1]
      /\ \A i \in DOMAIN queue : i = 1 \/ (i - 1 \in DOMAIN queue' /\ queue'[i - 1] = queue[i])
  BY ONLY <1>1, <1>2
<1>4. Queued = Queued' \cup {Head(queue)}
  BY <1>3 DEF Queued
<1>5. /\ th'[t].pc = "copy" /\ th'[t].task = Head(queue)
      /\ \A u \in Threads : u # t => th'[u] = th[u]
  BY <1>1 DEF Take
<1>6. UNCHANGED <<main, job_ref, tested>>
  BY DEF Take, coreVars
<1>7. ~ Owes(t) /\ (Owes(t)' <=> Head(queue).type = "test")
  BY <1>2, <1>5 DEF Owes
<1>8. \A u \in Threads : u # t => th'[u].task = th[u].task /\ (Owes(u)' <=> Owes(u))
  BY <1>5 DEF Owes
<1>9. Unanswered' = Unanswered
  <2>1. ASSUME NEW k \in Unanswered PROVE k \in Unanswered'
    <3>1. CASE k \in Queued /\ k.type = "test"
      BY <1>4, <1>5, <1>7, <3>1 DEF Unanswered
    <3>2. CASE \E u \in Threads : Owes(u) /\ th[u].task = k
      BY <1>7, <1>8, <3>2 DEF Unanswered
    <3> QED
      BY <3>1, <3>2 DEF Unanswered
  <2>2. ASSUME NEW k \in Unanswered' PROVE k \in Unanswered
    <3>1. CASE k \in Queued' /\ k.type = "test"
      BY <1>4, <3>1 DEF Unanswered
    <3>2. CASE \E u \in Threads : Owes(u)' /\ th'[u].task = k
      BY <1>4, <1>5, <1>7, <1>8, <3>2 DEF Unanswered
    <3> QED
      BY <2>2, <3>1, <3>2 DEF Unanswered
  <2> QED
    BY <2>1, <2>2
<1>10. TestTasks'
  <2>1. \A q \in Queued' : q.type = "test" => main'.type = "test" /\ (Over' \/ q.ref = job_ref')
    BY <1>4, <1>6 DEF TestInv, TestTasks, Over
  <2>2. ASSUME NEW u \in Threads
        PROVE  /\ th'[u].task.type = "test" => main'.type = "test"
               /\ Owes(u)' => Over' \/ th'[u].task.ref = job_ref'
               /\ th'[u].pc = "send" => th'[u].task.type # "test"
    <3>1. CASE u = t
      BY <1>4, <1>5, <1>6, <1>7, <3>1 DEF TestInv, TestTasks, Over
    <3>2. CASE u # t
      BY <1>5, <1>6, <1>8, <3>2 DEF TestInv, TestTasks, Over
    <3> QED
      BY <3>1, <3>2
  <2> QED
    BY <2>1, <2>2 DEF TestTasks
<1>11. Pushed' = Pushed /\ Over' = Over
  BY <1>6 DEF Pushed, Over, Preparing
<1> QED
  BY <1>6, <1>9, <1>10, <1>11, SameLedger DEF TestInv

\* Each task that is pushed is a new one.
LEMMA PushStep ==
    ASSUME IInv, TestInv, Push
    PROVE  TestInv'
<1> DEFINE k == NewTask(main.next)
<1>1. queue \in Seq(Task) /\ main \in MainState /\ Batch \in Nat \ {0}
  BY RxAssumption DEF IInv, TypeOK
<1>2. /\ main.pc = "push" /\ queue' = Append(queue, k)
      /\ UNCHANGED <<th, job_ref, tested>>
  BY DEF Push, coreVars
<1>3. /\ k.type = main.type /\ k.ref = job_ref /\ k.id = main.next
      /\ main.next \in Nat /\ main.next < Batch /\ main.job \in AllJobs /\ main.type \in Types
  BY <1>1, <1>2 DEF NewTask, IInv, MainInv, MainState
<1>4. k \in Task
  <2>1. job_ref \in Nat /\ main.next \in Ids
    BY <1>1, <1>3 DEF IInv, TypeOK, Ids
  <2> QED
    BY <1>3, <2>1 DEF NewTask, Task
<1>5. /\ main'.type = main.type /\ main'.next = main.next + 1
      /\ main'.pc = IF main.next + 1 < Batch THEN "push"
                    ELSE IF main.type = "job" THEN "idle" ELSE "target"
  BY <1>1 DEF Push, MainState
<1> HIDE DEF k
<1>6. Queued' = Queued \cup {k}
  <2>1. /\ DOMAIN queue' = DOMAIN queue \cup {Len(queue) + 1} /\ queue'[Len(queue) + 1] = k
        /\ \A i \in DOMAIN queue : queue'[i] = queue[i]
    BY ONLY <1>1, <1>2, <1>4
  <2> QED
    BY <2>1 DEF Queued
<1>7. ~ Over /\ ~ Over' /\ ~ Preparing /\ ~ Preparing'
  BY <1>2, <1>5 DEF Over, Preparing
<1>8. TestTasks'
  <2>1. \A q \in Queued' : q.type = "test" => main'.type = "test" /\ q.ref = job_ref'
    BY <1>2, <1>3, <1>5, <1>6, <1>7 DEF TestInv, TestTasks
  <2>2. \A t \in Threads : (Owes(t)' <=> Owes(t)) /\ th'[t] = th[t]
    BY <1>2 DEF Owes
  <2> QED
    BY <1>2, <1>5, <1>7, <2>1, <2>2 DEF TestInv, TestTasks
<1>9. CASE main.type # "test"
  <2>1. Unanswered' = Unanswered
    BY <1>2, <1>3, <1>6, <1>9 DEF Unanswered, Owes
  <2> QED
    BY <1>2, <1>5, <1>8, <1>9, <2>1 DEF TestInv, Ledger
<1>10. CASE main.type = "test"
  <2>1. k \notin Unanswered
    <3>1. \A i \in DOMAIN queue : queue[i].ref = job_ref => queue[i].id < main.next
      BY <1>2 DEF IInv, NowInv, QueueNow, Now
    <3>2. \A t \in Threads : Owes(t) /\ th[t].task.ref = job_ref => th[t].task.id < main.next
      BY <1>2 DEF IInv, NowInv, ThreadNow, Now, Owes, Busy
    <3>3. ~ (main.next < main.next)
      BY <1>3
    <3> QED
      BY <1>3, <3>1, <3>2, <3>3, UnansweredIs
  <2>2. Unanswered' = Unanswered \cup {k}
    BY <1>2, <1>3, <1>6, <1>10 DEF Unanswered, Owes
  <2>3. /\ IsFiniteSet(Unanswered) /\ tested + Cardinality(Unanswered) = main.next
        /\ tested \in Nat
    BY <1>2, <1>7, <1>10 DEF TestInv, Ledger, Pushed, IInv, TypeOK
  <2>4. IsFiniteSet(Unanswered') /\ Cardinality(Unanswered') = Cardinality(Unanswered) + 1
    BY <2>1, <2>2, <2>3, FS_AddElement
  <2>5. Cardinality(Unanswered) \in Nat
    BY <2>3, FS_CardinalityType
  <2>6. tested' + Cardinality(Unanswered') = main.next + 1
    BY ONLY <1>2, <2>3, <2>4, <2>5
  <2>7. Pushed' = main.next + 1
    BY <1>1, <1>3, <1>5, <1>7, <1>10 DEF Pushed
  <2>8. main.next + 1 <= main.next + 1
    BY <1>3
  <2> QED
    BY <1>5, <1>8, <1>10, <2>4, <2>6, <2>7, <2>8 DEF TestInv, Ledger
<1> QED
  BY <1>9, <1>10

\* A test starts with no answer owed; after one no job is accepted.
LEMMA AcceptStep ==
    ASSUME IInv, TestInv, NEW type \in Types, NEW job \in AllJobs, Accept(type, job)
    PROVE  TestInv'
<1>1. /\ main.type # "test" /\ main.pc = "idle" /\ main'.type = type
      /\ main'.pc \in {"fields", "dataset"} /\ UNCHANGED <<queue, th, tested>>
  BY DEF Accept, MayGet, Types
<1>2. Unanswered = {} /\ tested = 0
  BY <1>1, NoneUnanswered
<1>3. Unanswered' = {}
  BY <1>1, <1>2 DEF Unanswered, Queued, Owes
<1>4. TestTasks'
  <2>1. \A q \in Queued' : q.type # "test"
    BY <1>1 DEF Queued, TestInv, TestTasks
  <2>2. \A t \in Threads : th'[t].task.type # "test" /\ ~ Owes(t)'
    BY <1>1 DEF Owes, TestInv, TestTasks
  <2> QED
    BY <2>1, <2>2 DEF TestTasks
<1>5. Pushed' = 0
  BY <1>1 DEF Pushed, Preparing
<1> QED
  BY <1>1, <1>2, <1>3, <1>4, <1>5, FS_EmptySet DEF TestInv, Ledger

\* A close only lets threads end without an answer.
LEMMA CloseStep ==
    ASSUME IInv, TestInv, Close
    PROVE  TestInv'
<1>1. /\ main.pc = "idle" /\ main'.type = main.type /\ main'.pc \in {"join", "off"}
      /\ UNCHANGED <<queue, th, tested>>
  BY DEF Close, MayGet, Goto, IInv, TypeOK, MainState
<1>2. ~ Over /\ Over' /\ Pushed = Batch /\ Pushed' = Batch
  BY <1>1 DEF Over, Pushed, Preparing
<1>3. Unanswered' = Unanswered
  BY <1>1 DEF Unanswered, Queued, Owes
<1>4. TestTasks'
  BY <1>1, <1>2 DEF TestInv, TestTasks, Queued, Owes
<1> QED
  BY <1>1, <1>2, <1>3, <1>4 DEF TestInv, Ledger

LEMMA CheckStep ==
    ASSUME IInv, TestInv, NEW t \in Threads, Check(t)
    PROVE  TestInv'
<1>1. /\ \A u \in Threads : u # t => th'[u] = th[u]
      /\ th[t].pc = "check" /\ th'[t].task = th[t].task
      /\ th'[t].pc = "last" \/ (th'[t].pc = "hash" /\ Loops(t))
  BY CheckEffect DEF IInv
<1>2. UNCHANGED <<main, queue, tested, job_ref, target>>
  BY DEF Check, coreVars
<1>3. CASE th'[t].pc = "hash" \/ th[t].task.type # "test"
  <2>1. (Owes(t)' <=> Owes(t)) /\ th'[t].pc # "send"
    BY <1>1, <1>3 DEF Owes
  <2> QED
    BY <1>1, <1>2, <2>1, ThreadQuiet
\* A thread of a test that must go on has no target, and so no overflow.
<1>4. CASE th'[t].pc = "last" /\ th[t].task.type = "test"
  <2>1. Owes(t) /\ ~ Owes(t)'
    BY <1>1, <1>4 DEF Owes
  <2>2. ~ Loops(t)
    <3>1. Loops(t) => ~ target
      BY <1>1, <1>4 DEF IInv, NowInv, ThreadNow, Now, Busy, Loops
    <3>2. Loops(t) => th'[t].pc = "hash"
      BY <3>1, <1>1 DEF Check, Jump, IInv, TypeOK, ThreadState
    <3> QED
      BY <1>4, <3>2
  <2>3. Over /\ main.type = "test"
    BY <2>1, <2>2, <1>4 DEF TestInv, TestTasks, Loops
  <2>4. /\ TestTasks' /\ IsFiniteSet(Unanswered')
        /\ Cardinality(Unanswered') = Cardinality(Unanswered) - 1
    BY <1>1, <1>2, <1>4, <2>1, Settled
  <2>5. /\ tested \in Nat /\ Cardinality(Unanswered) \in Nat /\ Batch \in Nat
        /\ tested + Cardinality(Unanswered) <= Batch
    BY <2>3, FS_CardinalityType, RxAssumption
    DEF TestInv, Ledger, Pushed, Over, Preparing, IInv, TypeOK
  <2>6. tested' + Cardinality(Unanswered') <= Batch
    BY ONLY <1>2, <2>4, <2>5
  <2>7. Pushed' = Batch /\ Over' /\ main'.type = "test"
    BY <1>2, <2>3 DEF Pushed, Over, Preparing
  <2> QED
    BY <2>4, <2>6, <2>7 DEF TestInv, Ledger
<1> QED
  BY <1>1, <1>3, <1>4

\* The answer of a thread moves one task to the count.
LEMMA AnswerStep ==
    ASSUME IInv, TestInv, NEW t \in Threads, HashTest(t)
    PROVE  TestInv'
<1>1. /\ th[t].pc = "hash" /\ th[t].task.type = "test" /\ tested' = tested + 1
      /\ UNCHANGED <<main, queue, job_ref>>
  BY DEF HashTest, coreVars
<1>2. /\ \A u \in Threads : u # t => th'[u] = th[u]
      /\ th'[t].pc = "last" /\ th'[t].task = th[t].task
  BY DEF HashTest, Jump, IInv, TypeOK, ThreadState
<1>3. Owes(t) /\ ~ Owes(t)' /\ main.type = "test"
  BY <1>1, <1>2 DEF Owes, TestInv, TestTasks
<1>4. /\ TestTasks' /\ IsFiniteSet(Unanswered')
      /\ Cardinality(Unanswered') = Cardinality(Unanswered) - 1
  BY <1>1, <1>2, <1>3, Settled
<1>5. tested \in Nat /\ Cardinality(Unanswered) \in Nat
  BY FS_CardinalityType DEF TestInv, Ledger, IInv, TypeOK
<1>6. tested' + Cardinality(Unanswered') = tested + Cardinality(Unanswered)
  BY ONLY <1>1, <1>4, <1>5
<1>7. Pushed' = Pushed /\ Over' = Over /\ main'.type = "test"
  BY <1>1, <1>3 DEF Pushed, Over, Preparing
<1> QED
  BY <1>3, <1>4, <1>6, <1>7 DEF TestInv, Ledger

LEMMA TestInit == Init => TestInv
<1> SUFFICES ASSUME Init PROVE TestInv
  OBVIOUS
<1>1. Unanswered = {} /\ Queued = {}
  BY DEF Init, Unanswered, Queued, Owes
<1> QED
  BY <1>1, FS_EmptySet DEF Init, Idle, NoTask, Owes, TestInv, TestTasks, Ledger

LEMMA TestNext == IInv /\ TestInv /\ [Next]_vars => TestInv'
<1> SUFFICES ASSUME IInv, TestInv, [Next]_vars PROVE TestInv'
  OBVIOUS
<1>1. main \in MainState /\ th \in [Threads -> ThreadState]
  BY DEF IInv, TypeOK
<1>2. CASE DatasetReady \/ SetFields \/ SetJobId \/ ClearTarget \/ FreeMemory
  <2>1. UNCHANGED <<queue, th, tested, job_ref>> /\ main'.type = main.type
    BY <1>1, <1>2 DEF DatasetReady, SetFields, SetJobId, ClearTarget, FreeMemory, Goto,
                      MainState, coreVars
  <2>2. Pushed' = Pushed /\ Over' = Over
    BY <1>1, <1>2 DEF DatasetReady, SetFields, SetJobId, ClearTarget, FreeMemory, Goto,
                      MainState, Pushed, Over, Preparing
  <2> QED
    BY <2>1, <2>2, MainQuiet
<1>3. CASE CopyInput
  <2>1. UNCHANGED <<queue, th, tested, job_ref>> /\ main'.type = main.type
    BY <1>1, <1>3 DEF CopyInput, Goto, MainState
  <2>2. main.next = 0 /\ main'.next = 0 /\ main'.pc = "push" /\ main.pc = "input"
    BY <1>1, <1>3 DEF CopyInput, Goto, MainState, IInv, MainInv, Preparing
  <2> QED
    BY <2>1, <2>2, MainQuiet DEF Pushed, Over, Preparing
<1>4. CASE Pause
  <2>1. main.type # "test" /\ UNCHANGED <<main, queue, th, tested>>
    BY <1>4 DEF Pause, MayGet
  <2>2. Unanswered = {} /\ tested = 0
    BY <2>1, NoneUnanswered
  <2>3. Unanswered' = Unanswered
    BY <2>1 DEF Unanswered, Queued, Owes
  <2>4. \A q \in Queued' : q.type # "test"
    BY <2>1 DEF Queued, TestInv, TestTasks
  <2>5. \A t \in Threads : th'[t].task.type # "test" /\ ~ Owes(t)'
    BY <2>1 DEF Owes, TestInv, TestTasks
  <2> QED
    BY <2>1, <2>2, <2>3, <2>4, <2>5 DEF TestInv, TestTasks, Ledger
<1>5. ASSUME NEW t \in Threads, Thread(t)
      PROVE  TestInv'
  <2>1. CASE Exit(t) \/ Copy(t) \/ First(t) \/ SendResult(t) \/ SendLastNonce(t)
    <3>1. /\ UNCHANGED <<main, queue, tested, job_ref>> /\ th'[t].task = th[t].task
          /\ \A u \in Threads : u # t => th'[u] = th[u]
      BY <1>1, <2>1 DEF Exit, Copy, First, SendResult, SendLastNonce, Jump, coreVars, ThreadState
    <3>2. th'[t].pc # "send" /\ (Owes(t)' <=> Owes(t))
      BY <1>1, <2>1 DEF Exit, Copy, First, SendResult, SendLastNonce, Jump, ThreadState, Owes,
                        TestInv, TestTasks
    <3> QED
      BY <3>1, <3>2, ThreadQuiet
  <2>2. CASE Hash(t)
    <3>1. /\ \A u \in Threads : u # t => th'[u] = th[u]
          /\ th'[t].task = th[t].task
      BY <2>2, HashEffect DEF IInv
    <3>2. UNCHANGED <<main, queue, tested, job_ref>> /\ th[t].task.type # "test"
      BY <2>2 DEF Hash, coreVars
    <3> QED
      BY <3>1, <3>2, ThreadQuiet DEF Owes
  <2> QED
    BY <1>5, <2>1, <2>2, TakeStep, CheckStep, AnswerStep DEF Thread
<1>6. CASE UNCHANGED vars
  BY <1>6, MainQuiet DEF vars, coreVars, Pushed, Over, Preparing
<1> QED
  BY <1>2, <1>3, <1>4, <1>5, <1>6, PushStep, AcceptStep, CloseStep DEF Next, Main, SetJobStep

\* A test of any number of threads has as many answers as the master counts,
\* however the threads share its tasks out (mominer-job.cpp:370-374,
\* mominer.js:185-191).
THEOREM TestIsAnsweredOnce == Spec => []TestAnsweredOnce
<1>1. IInv /\ TestInv => TestAnsweredOnce
  <2> SUFFICES ASSUME IInv, TestInv PROVE TestAnsweredOnce
    OBVIOUS
  <2>1. Unanswered = {k \in Queued : k.type = "test"} \cup
            {th[t].task : t \in {u \in Threads : th[u].task.type = "test"
                                    /\ th[u].pc \in {"copy", "first", "check", "hash"}}}
    BY DEF Unanswered, Owes
  <2>2. /\ tested \in Nat /\ Cardinality(Unanswered) \in Nat /\ Batch \in Nat
        /\ main.pc = "push" => main.next \in Nat /\ main.next < Batch
    BY FS_CardinalityType, RxAssumption DEF IInv, TypeOK, MainInv, MainState, TestInv, Ledger
  <2>3. Pushed <= Batch /\ (main.pc = "idle" => Pushed = Batch /\ ~ Over) /\ Pushed \in Nat
    BY <2>2 DEF Pushed, Preparing, Over
  <2>4. tested + Cardinality(Unanswered) <= Batch
    <3>1. CASE main.type = "test"
      BY <2>2, <2>3, <3>1 DEF TestInv, Ledger
    <3>2. CASE main.type # "test"
      <4>1. tested = 0 /\ Cardinality(Unanswered) = 0
        BY <3>2, NoneUnanswered, FS_EmptySet
      <4> QED
        BY <2>2, <4>1
    <3> QED
      BY <3>1, <3>2
  <2>5. main.type = "test" /\ main.pc = "idle" => tested + Cardinality(Unanswered) = Batch
    BY <2>3 DEF TestInv, Ledger
  <2> QED
    BY <2>1, <2>4, <2>5 DEF TestAnsweredOnce
<1>2. IInv /\ IInv' /\ TestInv /\ [Next]_vars => TestInv'
  BY TestNext
<1> QED
  BY <1>1, <1>2, TestInit, Invariance, PTL DEF Spec
=============================================================================
