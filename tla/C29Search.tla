------------------------------ MODULE C29Search ------------------------------
(***************************************************************************)
(* The search for c29 solutions (src/c29.cpp): each round of the compute   *)
(* thread (Core::Execute) takes one solution that was found earlier, or    *)
(* trims the graph of its blob and leaves the search for cycles in it to a *)
(* detached thread.  Threads outlive the job they search for; m_job_ref    *)
(* tells their solutions apart.                                            *)
(*                                                                         *)
(* A process gets either jobs and pauses (mining) or one test job.  The    *)
(* kernels, the proof and the target are left out: what is followed is the *)
(* blob (job and nonce) that a solution was found in.                      *)
(***************************************************************************)
EXTENDS Integers, Sequences, FiniteSets

CONSTANTS
    Jobs, NoJob,
    MaxCycles,    \* bound: cycles in one graph
    MaxNonce,     \* bound: nonces of a job whose search takes time
    MaxRef        \* bound: m_job_ref

ASSUME C29Assumption ==
    NoJob \notin Jobs /\ MaxCycles \in Nat /\ MaxNonce \in Nat \ {0} /\ MaxRef \in Nat

VARIABLES
    job_ref,      \* m_job_ref
    job,          \* m_job_id, m_pool_id and m_input_hex
    fn,           \* m_fn is set
    test,         \* the job is a test: m_nonce32 and m_nonce64 are 0
    has_input,    \* m_input_len is not 0
    nonce,        \* the nonce in m_input
    pc,           \* whether the round has looked for solutions
    solutions,    \* global_solutions and the three lists beside it
    searches,     \* the detached threads
    running,      \* running_search_threads
    result,       \* history: the last result sent, none at first
    eol           \* history: the test's end was sent

jobVars == <<job_ref, job, fn, test, has_input, nonce>>
vars == <<jobVars, pc, solutions, searches, running, result, eol>>

\* The blob that a graph is made of, and what a search knows of its own.
Nonces == 0 .. MaxNonce
Blob   == [job : Jobs, nonce : Nonces]
Found  == [seed : Blob, ref : 1 .. MaxRef, nonce : Nonces, cycle : 1 .. MaxCycles]
Search == [seed : Blob, ref : 1 .. MaxRef, nonce : Nonces, done : BOOLEAN]
Result == [job : Jobs, seed : Blob, nonce : Nonces]

NoResult == [job |-> NoJob]

----------------------------------------------------------------------------
(* Messages, handled between two rounds.                                   *)

\* A new job or a test: set_job counts m_job_ref up first.  A second job keeps
\* m_fn as it is (JobDispatch).
SetJob(j, is_test) ==
    /\ pc = "round" /\ job_ref < MaxRef
    /\ ~ test /\ j # job /\ (is_test => job = NoJob)
    /\ job_ref' = job_ref + 1
    /\ job' = j /\ test' = is_test /\ has_input' = TRUE /\ nonce' = 0
    /\ fn' = (fn \/ job = NoJob)
    /\ UNCHANGED <<pc, solutions, searches, running, result, eol>>

Pause ==
    /\ pc = "round" /\ job_ref < MaxRef
    /\ ~ test /\ job # NoJob
    /\ job_ref' = job_ref + 1
    /\ fn' = FALSE
    /\ UNCHANGED <<job, test, has_input, nonce, pc, solutions, searches, running, result, eol>>

----------------------------------------------------------------------------
(* A round of the compute thread.  A definition whose name has an          *)
(* underscore and a suffix is a faulty variant of the next one; no         *)
(* specification uses it.                                                  *)

\* After a round: a test starts no search again, mining goes to the next nonce.
\* The nonce stays at its bound.
NextInput ==
    /\ has_input' = (has_input /\ ~ test)
    /\ nonce' = IF test \/ nonce = MaxNonce THEN nonce ELSE nonce + 1
    /\ UNCHANGED <<job_ref, job, test>>

Mine_Any == DOMAIN solutions

\* The solutions of the job that is set up.
Mine == {i \in DOMAIN solutions : solutions[i].ref = job_ref}

After_Stays(i) == solutions

\* The list when its i-th element has been taken: those before it are dropped.
After(i) == SubSeq(solutions, i + 1, Len(solutions))

\* The first solution of this job is sent; those of old jobs before it are dropped.
SendSolution ==
    /\ pc = "round" /\ fn
    /\ \E i \in Mine :
         /\ \A k \in Mine : i <= k
         /\ solutions' = After(i)
         /\ result' = [job |-> job, seed |-> solutions[i].seed, nonce |-> solutions[i].nonce]
    /\ NextInput
    /\ UNCHANGED <<fn, pc, searches, running, eol>>

\* No solution of this job: the lock is released, and the round goes on.
FindNone ==
    /\ pc = "round" /\ fn /\ Mine = {}
    /\ solutions' = <<>>
    /\ pc' = "none"
    /\ UNCHANGED <<jobVars, searches, running, result, eol>>

StartSearch_NotCounted ==
    /\ pc = "none" /\ has_input
    /\ pc' = "round"
    /\ searches' = searches \cup
         {[seed |-> [job |-> job, nonce |-> nonce], ref |-> job_ref, nonce |-> nonce, done |-> FALSE]}
    /\ NextInput
    /\ UNCHANGED <<fn, solutions, running, result, eol>>

\* start_new_c29_solution_search; beyond the bound a search ends at once and
\* without a solution.
StartSearch ==
    LET new == [seed |-> [job |-> job, nonce |-> nonce], ref |-> job_ref,
                nonce |-> nonce, done |-> FALSE]
    IN  /\ pc = "none" /\ has_input
        /\ pc' = "round"
        /\ searches' = IF nonce < MaxNonce THEN searches \cup {new} ELSE searches
        /\ running' = IF nonce < MaxNonce THEN running + 1 ELSE running
        /\ NextInput
        /\ UNCHANGED <<fn, solutions, result, eol>>

\* A test waits for its search: the end is sent when no thread runs.
WaitForSearches ==
    /\ pc = "none" /\ ~ has_input
    /\ pc' = "round"
    /\ eol' = (eol \/ running = 0)
    /\ fn' = (running # 0)
    /\ UNCHANGED <<job_ref, job, test, has_input, nonce, solutions, searches, running, result>>

----------------------------------------------------------------------------
(* A detached thread.                                                      *)

\* find_cycles, and its solutions put in the list under the lock.
FindCycles(s) ==
    /\ ~ s.done
    /\ \E n \in 0 .. MaxCycles :
         solutions' = solutions \o
           [i \in 1 .. n |-> [seed |-> s.seed, ref |-> s.ref, nonce |-> s.nonce, cycle |-> i]]
    /\ searches' = (searches \ {s}) \cup {[s EXCEPT !.done = TRUE]}
    /\ UNCHANGED <<jobVars, pc, running, result, eol>>

EndSearch_NotCounted(s) ==
    /\ s.done
    /\ searches' = searches \ {s}
    /\ UNCHANGED <<jobVars, pc, solutions, running, result, eol>>

EndSearch(s) ==
    /\ s.done
    /\ searches' = searches \ {s}
    /\ running' = running - 1
    /\ UNCHANGED <<jobVars, pc, solutions, result, eol>>

----------------------------------------------------------------------------
Init ==
    /\ job_ref = 0
    /\ job = NoJob
    /\ fn = FALSE /\ test = FALSE /\ has_input = FALSE
    /\ nonce = 0
    /\ pc = "round"
    /\ solutions = <<>>
    /\ searches = {}
    /\ running = 0
    /\ result = NoResult
    /\ eol = FALSE

Round == SendSolution \/ FindNone \/ StartSearch \/ WaitForSearches

Thread(s) == FindCycles(s) \/ EndSearch(s)

Next ==
    \/ \E j \in Jobs, is_test \in BOOLEAN : SetJob(j, is_test)
    \/ Pause
    \/ Round
    \/ \E s \in searches : Thread(s)

Spec == Init /\ [][Next]_vars

\* The compute thread and the detached threads are scheduled by the system.
FairSpec ==
    /\ Spec
    /\ WF_vars(Round)
    /\ \A r \in 1 .. MaxRef, n \in 0 .. MaxNonce - 1 :
         WF_vars(\E s \in searches : s.ref = r /\ s.nonce = n /\ Thread(s))

----------------------------------------------------------------------------
(* Properties.                                                             *)

TypeOK ==
    /\ job_ref \in 0 .. MaxRef
    /\ job \in Jobs \cup {NoJob}
    /\ fn \in BOOLEAN /\ test \in BOOLEAN /\ has_input \in BOOLEAN /\ eol \in BOOLEAN
    /\ nonce \in Nonces
    /\ pc \in {"round", "none"}
    /\ solutions \in Seq(Found)
    /\ searches \subseteq Search
    /\ running \in Nat
    /\ result \in {NoResult} \cup Result

\* A result is sent with the ids of the job, and with the nonce, in whose blob its
\* cycle was found, however late the thread found it (c29.cpp:739-753).
ResultIsOwn ==
    result # NoResult => result.seed = [job |-> result.job, nonce |-> result.nonce]

\* A solution that was found for the job at work is sent while it is at work:
\* the list is not served slower than it is filled (c29.cpp:739-753).
FoundIsSent ==
    \A n \in 0 .. MaxNonce - 1, c \in 1 .. MaxCycles :
        LET Waits == \E i \in Mine : solutions[i].nonce = n /\ solutions[i].cycle = c
        IN  fn /\ Waits ~> ~ fn \/ ~ Waits

\* A test comes to its end: the count of threads comes to 0 (c29.cpp:696, 872).
TestEnds == test ~> eol

\* The end is sent when "not more solutions are expected" (c29.cpp:871).
EndIsLast ==
    [][~ eol /\ eol' => \A i \in DOMAIN solutions : solutions[i].ref # job_ref]_vars
=============================================================================
