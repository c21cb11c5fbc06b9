----------------------------- MODULE NodeBridge -----------------------------
(***************************************************************************)
(* A worker process of the miner: its JavaScript thread (cluster_process   *)
(* of src/helper.js), its compute thread (Core::Execute) with the hashing  *)
(* threads of a RandomX job, and the bridge between them                   *)
(* (src/async-worker.h): a locked queue in each direction and Node-API     *)
(* thread-safe functions, each call of which Node makes on the JavaScript  *)
(* thread later.  Their queues have no limit, so no call blocks.           *)
(*                                                                         *)
(* What a message says is left out: "job" is any message after which the   *)
(* loop of Execute goes on, and its number only tells one from another.    *)
(***************************************************************************)
EXTENDS Integers, Sequences

CONSTANTS
    Main,          \* the compute thread
    Threads,       \* the threads of m_thread_pool
    NoThread,
    MaxDown,       \* how many messages JavaScript sends
    MaxUp          \* how many messages the compute side sends

Senders == Threads \cup {Main}

ASSUME ThreadsAssumption == Main \notin Threads /\ NoThread \notin Senders
ASSUME BoundsAssumption  == MaxDown \in Nat /\ MaxUp \in Nat

Job(n)    == [name |-> "job", n |-> n]
CloseMsg(n) == [name |-> "close", n |-> n]
DownMsg   == [name : {"job", "close"}, n : Nat]
UpMsg     == [from : Senders, n : Nat]

VARIABLES
    fromNode,      \* messages to the compute thread
    batch,         \* what readAll gave it and it has not processed
    handled,       \* what it has processed, so far
    main,          \* where the compute thread is
    live,          \* hashing threads that run a job
    mutex,         \* who is inside send_msg: mutex_message
    toNode,        \* m_toNode
    calls,         \* calls of m_progress_tsfn that Node has not made
    delivered,     \* messages JavaScript got, so far
    ended,         \* what m_complete_tsfn or m_error_tsfn was called for
    closing,       \* is_exiting of cluster_process
    proc           \* the process and its JavaScript thread

down    == <<fromNode, batch, handled>>
up      == <<toNode, calls, delivered, mutex>>
vars    == <<down, up, main, live, ended, closing, proc>>

MainStates == {"off", "run", "hung", "closing", "complete", "error", "stopping", "stopped"}
ProcStates == {"up", "exiting", "joining", "gone"}

JsFree  == proc \in {"up", "exiting"}
Alive   == proc # "gone"
NDown   == Len(handled) + Len(batch) + Len(fromNode)
NUp     == Len(delivered) + Len(toNode)

----------------------------------------------------------------------------
(* JavaScript.                                                             *)

\* sendToCpp: the message is queued, then the thread is started, once.
SendToCpp(m) ==
    /\ fromNode' = Append(fromNode, m)
    /\ main' = IF main = "off" THEN "run" ELSE main
    /\ UNCHANGED <<batch, handled>>

\* handle_msg: a message of the master.
HandleMsg ==
    /\ JsFree /\ NDown < MaxDown
    /\ \E m \in {Job(NDown), CloseMsg(NDown)} : SendToCpp(m)
    /\ UNCHANGED <<up, live, ended, closing, proc>>

\* close_worker_process: ask the compute thread to close; at once the second time.
Signal ==
    /\ JsFree
    /\ \/ /\ closing
          /\ proc' = "exiting"
          /\ UNCHANGED <<down, main, closing>>
       \/ /\ ~ closing
          /\ closing' = TRUE
          /\ SendToCpp(CloseMsg(NDown))
          /\ UNCHANGED proc
    /\ UNCHANGED <<up, live, ended>>

\* The timer that close_worker_process sets.
GraceTimer ==
    /\ JsFree /\ closing
    /\ proc' = "exiting"
    /\ UNCHANGED <<down, up, main, live, ended, closing>>

Drain_Keeps ==
    /\ JsFree /\ calls > 0
    /\ calls' = calls - 1
    /\ delivered' = delivered \o toNode
    /\ UNCHANGED <<down, toNode, mutex, main, live, ended, closing, proc>>

\* call_progress: drainQueue takes all messages and calls JavaScript for each.
Drain ==
    /\ JsFree /\ calls > 0
    /\ calls' = calls - 1
    /\ delivered' = delivered \o toNode
    /\ toNode' = <<>>
    /\ UNCHANGED <<down, mutex, main, live, ended, closing, proc>>

\* call_complete: the "close" event ends the process.
CompleteEvent ==
    /\ JsFree /\ ended = "complete"
    /\ ended' = "told"
    /\ proc' = "exiting"
    /\ UNCHANGED <<down, up, main, live, closing>>

\* call_error: the master is told of it, the process stays.
ErrorEvent ==
    /\ JsFree /\ ended = "error"
    /\ ended' = "told"
    /\ UNCHANGED <<down, up, main, live, closing, proc>>

\* reallyExit: _Exit from setImmediate, with all threads.
Exit ==
    /\ proc = "exiting"
    /\ proc' = "gone"
    /\ UNCHANGED <<down, up, main, live, ended, closing>>

Destroy_NoClose ==
    /\ JsFree
    /\ proc' = "joining"
    /\ UNCHANGED <<down, up, main, live, ended, closing>>

\* ~AsyncWorker, when the environment is torn down by an uncaught exception.
Destroy ==
    /\ JsFree
    /\ proc' = "joining"
    /\ fromNode' = IF main \in {"off", "stopped"} THEN fromNode
                   ELSE Append(fromNode, CloseMsg(NDown))
    /\ UNCHANGED <<batch, handled, up, main, live, ended, closing>>

\* m_thread.join() returns.
Joined ==
    /\ proc = "joining" /\ main \in {"off", "stopped"}
    /\ proc' = "gone"
    /\ UNCHANGED <<down, up, main, live, ended, closing>>

----------------------------------------------------------------------------
(* The compute side.                                                       *)

\* A thread may send when it is on the way of Execute or of its own job.
MaySend(s) ==
    IF s = Main THEN main \in {"run", "closing"} /\ handled # <<>> ELSE s \in live

\* sendToNode, first half: under mutex_message the message is stored ...
Write(s) ==
    /\ Alive /\ MaySend(s) /\ mutex = NoThread /\ NUp < MaxUp
    /\ mutex' = s
    /\ toNode' = Append(toNode, [from |-> s, n |-> NUp])
    /\ UNCHANGED <<down, calls, delivered, main, live, ended, closing, proc>>

Call_OnlyLast(s) ==
    /\ Alive /\ mutex = s
    /\ calls' = IF live \ {s} = {} THEN calls + 1 ELSE calls
    /\ mutex' = NoThread
    /\ UNCHANGED <<down, toNode, delivered, main, live, ended, closing, proc>>

\* ... and then Node is called.
Call(s) ==
    /\ Alive /\ mutex = s
    /\ calls' = calls + 1
    /\ mutex' = NoThread
    /\ UNCHANGED <<down, toNode, delivered, main, live, ended, closing, proc>>

TakeBatch_Keeps ==
    /\ Alive /\ main = "run" /\ mutex # Main /\ batch = <<>> /\ fromNode # <<>>
    /\ batch' = fromNode
    /\ UNCHANGED <<fromNode, handled, up, main, live, ended, closing, proc>>

\* fromNode.readAll at the top of the loop of Execute.
TakeBatch ==
    /\ Alive /\ main = "run" /\ mutex # Main /\ batch = <<>> /\ fromNode # <<>>
    /\ batch' = fromNode
    /\ fromNode' = <<>>
    /\ UNCHANGED <<handled, up, main, live, ended, closing, proc>>

Process_CloseGoesOn ==
    /\ Alive /\ main = "run" /\ mutex # Main /\ batch # <<>>
    /\ handled' = Append(handled, Head(batch))
    /\ batch' = Tail(batch)
    /\ live' \in IF Head(batch).name = "job" THEN SUBSET Threads ELSE {live}
    /\ UNCHANGED <<fromNode, up, main, ended, closing, proc>>

\* process_message: a job may start hashing threads or end them; after "close"
\* Execute returns, whatever else it has taken.
Process ==
    /\ Alive /\ main = "run" /\ mutex # Main /\ batch # <<>>
    /\ handled' = Append(handled, Head(batch))
    /\ batch' = Tail(batch)
    /\ \/ /\ Head(batch).name = "job"
          /\ live' \in {l \in SUBSET Threads : mutex \in live => mutex \in l}
          /\ UNCHANGED main
       \/ /\ Head(batch).name = "close"
          /\ main' = "closing"
          /\ UNCHANGED live
    /\ UNCHANGED <<fromNode, up, ended, closing, proc>>

\* A hashing thread leaves its job.
ThreadEnds(t) ==
    /\ Alive /\ t \in live /\ mutex # t
    /\ live' = live \ {t}
    /\ UNCHANGED <<down, up, main, ended, closing, proc>>

\* A driver call or a kernel that does not return.
Hang ==
    /\ Alive /\ main = "run" /\ mutex # Main
    /\ main' = "hung"
    /\ UNCHANGED <<down, up, live, ended, closing, proc>>

\* An exception that is not a string: Execute is left with what it holds.
Fail ==
    /\ Alive /\ main = "run" /\ mutex # Main
    /\ main' = "error"
    /\ UNCHANGED <<down, up, live, ended, closing, proc>>

FreeMemory_NoJoin ==
    /\ Alive /\ main = "closing" /\ mutex # Main
    /\ main' = "complete"
    /\ UNCHANGED <<down, up, live, ended, closing, proc>>

\* free_memory: the pool is deleted, which joins its threads; Execute returns.
FreeMemory ==
    /\ Alive /\ main = "closing" /\ mutex # Main
    /\ live = {}
    /\ main' = "complete"
    /\ UNCHANGED <<down, up, live, ended, closing, proc>>

\* run: Node is called for the end, or for the exception.
CallEnd ==
    /\ Alive /\ main \in {"complete", "error"}
    /\ ended' = main
    /\ main' = "stopping"
    /\ UNCHANGED <<down, up, live, closing, proc>>

\* m_stopped is set and the three functions are released.
Release ==
    /\ Alive /\ main = "stopping"
    /\ main' = "stopped"
    /\ UNCHANGED <<down, up, live, ended, closing, proc>>

----------------------------------------------------------------------------
Init ==
    /\ fromNode = <<>> /\ batch = <<>> /\ handled = <<>>
    /\ toNode = <<>> /\ calls = 0 /\ delivered = <<>> /\ mutex = NoThread
    /\ main = "off" /\ live = {} /\ ended = "no"
    /\ closing = FALSE /\ proc = "up"

JavaScript == Drain \/ CompleteEvent \/ ErrorEvent
Compute    == TakeBatch \/ Process \/ FreeMemory \/ CallEnd \/ Release

Next ==
    \/ HandleMsg \/ Signal \/ Destroy
    \/ GraceTimer \/ Exit \/ Joined \/ JavaScript
    \/ \E s \in Senders : Write(s) \/ Call(s)
    \/ \E t \in Threads : ThreadEnds(t)
    \/ Compute \/ Hang \/ Fail

Spec == Init /\ [][Next]_vars

\* Node makes the calls it was asked for and fires its timers, and threads run
\* on; nothing is assumed of the master or of the driver (Hang).
Fairness ==
    /\ WF_vars(Drain) /\ WF_vars(CompleteEvent) /\ WF_vars(ErrorEvent)
    /\ WF_vars(GraceTimer) /\ WF_vars(Exit) /\ WF_vars(Joined)
    /\ \A s \in Senders : WF_vars(Call(s))
    /\ \A t \in Threads : WF_vars(ThreadEnds(t))
    /\ WF_vars(Compute)
FairSpec == Spec /\ Fairness

----------------------------------------------------------------------------
(* Properties.                                                             *)

TypeOK ==
    /\ fromNode \in Seq(DownMsg) /\ batch \in Seq(DownMsg) /\ handled \in Seq(DownMsg)
    /\ toNode \in Seq(UpMsg) /\ delivered \in Seq(UpMsg) /\ calls \in Nat
    /\ mutex \in Senders \cup {NoThread}
    /\ main \in MainStates /\ live \in SUBSET Threads
    /\ ended \in {"no", "complete", "error", "told"}
    /\ closing \in BOOLEAN /\ proc \in ProcStates

\* Messages reach JavaScript once each, in the order in which the threads got
\* through send_msg, although calls and messages are not paired
\* (async-worker.h:162-178, 222-228).
UpQueue == INSTANCE Fifo WITH Message <- UpMsg, queue <- toNode, received <- delivered
UpIsFifo == UpQueue!Spec

\* The same for messages to the compute thread, which takes them in batches
\* (async-worker.h:91-95, mominer-core.cpp:415-427).
DownQueue == INSTANCE Fifo WITH Message <- DownMsg, queue <- batch \o fromNode, received <- handled
DownIsFifo == DownQueue!Spec

\* No message waits in m_toNode without a call that will fetch it: the message
\* is stored before Node is called (async-worker.h:224-226).
NoLostWakeup == toNode # <<>> => calls > 0 \/ mutex # NoThread

\* After a close no thread is left that could call a released function
\* (mominer-core.cpp:356, async-worker.h:193-196).
Closed == \E i \in DOMAIN handled : handled[i].name = "close"
ClosedIsQuiet == Closed /\ main # "closing" => live = {} /\ mutex = NoThread

\* What was stored for JavaScript is delivered, unless the process ends first
\* (async-worker.h:222-228).
Stored(n) == \E i \in DOMAIN toNode : toNode[i].n = n
Got(n)    == \E i \in DOMAIN delivered : delivered[i].n = n
StoredIsDelivered ==
    \A n \in 0 .. MaxUp - 1 : Stored(n) ~> Got(n) \/ proc \in {"joining", "gone"}

\* A close ends the process, unless the compute thread hangs or has left its
\* loop by an exception (mominer-core.cpp:353-357, helper.js:171-175).
CloseAsked == \E i \in DOMAIN (batch \o fromNode) : (batch \o fromNode)[i].name = "close"
CloseEnds == CloseAsked ~> (proc = "gone" \/ main = "hung" \/ (~ Closed /\ ended # "no"))

\* The destructor returns, unless the compute thread hangs: it wakes the loop
\* with a close of its own, and no call to Node blocks
\* (async-worker.h:152-160, 209-212).
DestructorReturns == proc = "joining" ~> proc = "gone" \/ main = "hung"
=============================================================================
