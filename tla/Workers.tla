------------------------------ MODULE Workers ------------------------------
(***************************************************************************)
(* The worker processes as the master keeps them (recreate_threads,        *)
(* messageWorkers and closeWorkers of src/helper.js).  The functions take  *)
(* and return the whole state of the workers, since the master calls       *)
(* several of them in one callback.                                        *)
(*                                                                         *)
(* A worker is identified by the call of recreate_threads that made it and *)
(* by its thread number; only the number is known to a subprocess worker.  *)
(***************************************************************************)
EXTENDS Integers, Sequences, FiniteSets

CONSTANTS
    Algos, NoAlgo,
    Threads,       \* Threads[a]: get_dev_threads of the device of an algorithm
    MaxThreads,    \* the most threads of an algorithm
    MaxGen         \* how often workers are created

ASSUME WorkersAssumption ==
    /\ NoAlgo \notin Algos
    /\ MaxThreads \in Nat \ {0} /\ Threads \in [Algos -> 1 .. MaxThreads]
    /\ MaxGen \in Nat \ {0}

Worker   == [gen : 1 .. MaxGen, idx : 0 .. MaxThreads - 1]
Types    == {"job", "bench", "test", "close"}
Msg      == [type : Types, algo : Algos \cup {NoAlgo}]
Close    == [type |-> "close", algo |-> NoAlgo]
Work(t, a) == [type |-> t, algo |-> a]

\* The state of the workers.
WorkersState ==
    [gen      : 0 .. MaxGen,
     alive    : SUBSET Worker,             \* processes that run
     listed   : SUBSET Worker,             \* worker_ids, worker_procs
     expected : SUBSET Worker,             \* those with expectedClose
     inbox    : [Worker -> Seq(Msg)],
     doing    : [Worker -> Algos \cup {NoAlgo}],
     hung     : SUBSET Worker,             \* stuck in a driver call or kernel
     killers  : SUBSET (SUBSET Worker),    \* the targets of each kill timer
     exits    : SUBSET Worker]             \* "exit" events to come

NoWorkers ==
    [gen |-> 0, alive |-> {}, listed |-> {}, expected |-> {},
     inbox |-> [v \in Worker |-> <<>>], doing |-> [v \in Worker |-> NoAlgo],
     hung |-> {}, killers |-> {}, exits |-> {}]

----------------------------------------------------------------------------
(* The functions of helper.js.                                             *)

\* messageWorkers: what is written to a process that has just ended is lost.
MessageWorkers(s, m) ==
    [s EXCEPT
       !.inbox    = [v \in Worker |-> IF v \in s.listed \cap s.alive
                                      THEN Append(s.inbox[v], m) ELSE s.inbox[v]],
       !.expected = IF m = Close THEN s.expected \cup s.listed ELSE s.expected]

CloseWorkers_NoKill(s, forced) == MessageWorkers(s, Close)

\* closeWorkers: with forceAfterMs, a timer for those that got the message.
CloseWorkers(s, forced) ==
    [MessageWorkers(s, Close) EXCEPT
       !.killers = IF forced /\ s.listed \cap s.alive # {}
                   THEN @ \cup {s.listed \cap s.alive} ELSE @]

\* recreate_threads: the old workers are closed, the list starts anew.
Recreate(s, n) ==
    LET new == {[gen |-> s.gen + 1, idx |-> i] : i \in 0 .. n - 1}
    IN  [CloseWorkers(s, TRUE) EXCEPT
           !.gen = @ + 1, !.alive = @ \cup new, !.listed = new]

Exited_NoGuard(s, v, subprocess) ==
    [s EXCEPT !.exits  = @ \ {v},
              !.listed = IF subprocess THEN {u \in @ : u.idx # v.idx} ELSE @ \ {v}]

\* The "exit" event: an old process does not unlist the new one of its number.
Exited(s, v, subprocess) ==
    [s EXCEPT !.exits = @ \ {v}, !.listed = @ \ {v}]

\* The handler reports an exit that nobody asked for; the subprocess one only of
\* a worker that is still listed.
Unexpected(s, v, subprocess) == v \notin s.expected /\ (subprocess => v \in s.listed)

\* forceCloseWorker, for each target of a timer that is still alive.
Kill(s, targets) ==
    [s EXCEPT !.killers = @ \ {targets},
              !.alive   = @ \ targets,
              !.exits   = @ \cup (targets \cap s.alive)]

----------------------------------------------------------------------------
(* What the processes do.                                                  *)

\* A worker takes its next message; a close ends it.
Take(s, v) ==
    LET m == Head(s.inbox[v])
        t == [s EXCEPT !.inbox[v] = Tail(@)]
    IN  IF m = Close THEN [t EXCEPT !.alive = @ \ {v}, !.exits = @ \cup {v}]
        ELSE [t EXCEPT !.doing[v] = m.algo]
CanTake(s, v) == v \in s.alive \ s.hung /\ s.inbox[v] # <<>>

Crash(s, v) == [s EXCEPT !.alive = @ \ {v}, !.exits = @ \cup {v}]
Hang(s, v)  == [s EXCEPT !.hung = @ \cup {v}]
=============================================================================
