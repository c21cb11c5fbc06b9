---------------------------- MODULE PoolManager ----------------------------
(***************************************************************************)
(* The pool connections of the miner (src/pool.js) and the timers that     *)
(* start_mining (src/mominer.js) sets over them: which pool is active,     *)
(* which sockets are open, which job the workers mine.                     *)
(*                                                                         *)
(* The program is one JavaScript thread: every timer callback and socket   *)
(* event runs to its end, so each is one action here.  What varies is the  *)
(* order of the events and the moment at which they come.  Time is         *)
(* discrete: Tick lets one unit pass, and only when no timer is due.       *)
(*                                                                         *)
(* A pool number is an integer everywhere but in one place: `for (const    *)
(* pool_id2 in global.opt.pools)' binds property names, which are strings, *)
(* and switch_pool stores one as the active pool.  An id therefore carries *)
(* the JavaScript type it has, because === distinguishes "2" from 2.       *)
(***************************************************************************)
EXTENDS Integers, FiniteSets

CONSTANTS
    NPools,           \* length of global.opt.pools
    Primary,          \* global.opt.pool_ids.primary
    Donate,           \* global.opt.pool_ids.donate, NoPool when it is null
    Jobs,             \* what a pool may send as a job
    NoJob,            \* null, as last_job
    ConnectThrottle, PrimaryReconnect, FirstJobWait, CloseWait,
    DonateInterval, DonateLength    \* global.opt.pool_time

NoPool == -1
Pools  == 0 .. NPools - 1

ASSUME PoolsAssumption ==
    /\ NPools \in Nat \ {0}
    /\ Donate \in {0, NoPool}
    /\ Primary \in Pools \ {Donate}
    /\ NoJob \notin Jobs

\* The relations between the default timings the design relies on.
ASSUME TimesAssumption ==
    /\ {ConnectThrottle, PrimaryReconnect, FirstJobWait, CloseWait,
        DonateInterval, DonateLength} \subseteq Nat \ {0}
    /\ CloseWait < ConnectThrottle
    /\ FirstJobWait < ConnectThrottle
    /\ FirstJobWait < DonateLength
    /\ ConnectThrottle <= DonateInterval
    /\ DonateLength + CloseWait < DonateInterval

----------------------------------------------------------------------------
(* Pool ids and timers.                                                    *)

PoolId == [id : Pools, str : BOOLEAN]
Num(p) == [id |-> p, str |-> FALSE]
Str(p) == [id |-> p, str |-> TRUE]

Kinds == {"connect", "first_job", "close", "reconnect"}
         \cup (IF Donate # NoPool THEN {"donate", "donate_end"} ELSE {})

\* Timers with the same callback, argument and expiry are one: they run in the
\* same turn of the event loop, with no socket event between them, and the
\* second finds the socket already open, already closed, or active.
Timer(k, a, d)    == [kind |-> k, pool |-> a, left |-> d]
Arm(ts, k, a, d)  == ts \cup {Timer(k, a, d)}
Older(t)          == Timer(t.kind, t.pool, t.left - 1)

VARIABLES
    active,      \* global.opt.pool_ids.active
    socket,      \* socket[p]: pools[p].socket is not null
    last_job,    \* pools[p].last_job
    age,         \* time since pools[p].last_connect_time, up to ConnectThrottle
    mining,      \* pool and job of the last message the workers got
    timers       \* the pending timers

vars == <<active, socket, last_job, age, mining, timers>>

\* Before the first job, or after a "pause" message.
Idle == [pool |-> NoPool, job |-> NoJob]
Mine(p, j) == [pool |-> p, job |-> j]

----------------------------------------------------------------------------
(* The functions of pool.js.  so, lj and ts are the sockets, the jobs and  *)
(* the timers at the moment of the call.  A definition whose name has an   *)
(* underscore and a suffix is a faulty variant of the next one; no         *)
(* specification uses it.                                                  *)

\* pool_close_wait
CloseWaitTimer(a, so, ts) ==
    IF so[a.id] THEN Arm(ts, "close", a, CloseWait) ELSE ts

ConnectPool_NoWatchdog(p, so, lj, ts) ==
    /\ socket'   = [so EXCEPT ![p] = TRUE]
    /\ last_job' = [lj EXCEPT ![p] = IF so[p] THEN @ ELSE NoJob]
    /\ age'      = [age EXCEPT ![p] = IF so[p] THEN @ ELSE 0]
    /\ timers'   = ts

\* connect_pool
ConnectPool(p, so, lj, ts) ==
    \/ /\ so[p]
       /\ socket' = so /\ last_job' = lj /\ timers' = ts
       /\ UNCHANGED age
    \/ /\ ~ so[p]
       /\ socket'   = [so EXCEPT ![p] = TRUE]
       /\ last_job' = [lj EXCEPT ![p] = NoJob]
       /\ age'      = [age EXCEPT ![p] = 0]
       /\ timers'   = Arm(ts, "first_job", Num(p), FirstJobWait)

ConnectPoolThrottle_None(p, so, lj, ts) == ConnectPool(p, so, lj, ts)

ConnectPoolThrottle_Swapped(p, so, lj, ts) ==
    /\ timers' = Arm(ts, "connect", Num(p), age[p] - ConnectThrottle)
    /\ socket' = so /\ last_job' = lj
    /\ UNCHANGED age

\* connect_pool_throttle
ConnectPoolThrottle(p, so, lj, ts) ==
    \/ /\ age[p] < ConnectThrottle
       /\ timers' = Arm(ts, "connect", Num(p), ConnectThrottle - age[p])
       /\ socket' = so /\ last_job' = lj
       /\ UNCHANGED age
    \/ /\ age[p] = ConnectThrottle
       /\ ConnectPool(p, so, lj, ts)

\* The pools that the loop of switch_pool may take: `==' ignores the type.
Alive(lj) == {p \in Pools : p # Donate /\ p # active.id /\ lj[p] # NoJob}

NextPool_NoSkip(p) == IF p + 1 < NPools THEN p + 1 ELSE 0

\* The pool after p, skipping donate when the count wraps.
NextPool(p) ==
    IF p + 1 < NPools THEN p + 1 ELSE IF Donate = 0 THEN 1 ELSE 0

Pause_Never == mining

\* Mining goes on for a lost pool, but not for the donate pool.
Pause == IF active = Num(Donate) THEN Idle ELSE mining

\* switch_pool: its four ways out.
SwitchPool(p, so, lj, ts) ==
    LET ts1 == CloseWaitTimer(Num(p), so, ts)
        MakeActive(a) ==
            /\ active' = a
            /\ mining' = Mine(a.id, lj[a.id])
            /\ socket' = so /\ last_job' = lj /\ timers' = ts1
            /\ UNCHANGED age
    IN  \/ /\ active # Num(p)
           /\ socket' = so /\ last_job' = lj /\ timers' = ts1
           /\ UNCHANGED <<active, age, mining>>
        \/ /\ active = Num(p)
           /\ lj[Primary] # NoJob
           /\ MakeActive(Num(Primary))
        \/ /\ active = Num(p)
           /\ lj[Primary] = NoJob
           /\ \E q \in Alive(lj) :
                /\ \A r \in Alive(lj) : q <= r
                /\ MakeActive(Str(q))
        \/ /\ active = Num(p)
           /\ lj[Primary] = NoJob
           /\ Alive(lj) = {}
           /\ mining' = Pause
           /\ active' = Num(NextPool(p))
           /\ ConnectPoolThrottle(NextPool(p), so, lj, ts1)

PoolErr_NoSwitch(p, ts) ==
    /\ socket'   = [socket EXCEPT ![p] = FALSE]
    /\ last_job' = [last_job EXCEPT ![p] = NoJob]
    /\ timers'   = ts
    /\ UNCHANGED <<active, age, mining>>

\* pool_err: the socket is destroyed, then switch_pool.
PoolErr(p, ts) ==
    \/ /\ ~ socket[p]
       /\ timers' = ts
       /\ UNCHANGED <<active, socket, last_job, age, mining>>
    \/ /\ socket[p]
       /\ SwitchPool(p, [socket EXCEPT ![p] = FALSE], [last_job EXCEPT ![p] = NoJob], ts)

----------------------------------------------------------------------------
(* Events of the pools.                                                    *)

\* The first job of the primary or of the donate pool makes it active.
FirstJob(p)            == active # Num(p) /\ last_job[p] = NoJob
AfterJob_DonateOnly(p) == IF FirstJob(p) /\ p = Donate THEN Num(p) ELSE active
AfterJob(p)            == IF FirstJob(p) /\ p \in {Primary, Donate} THEN Num(p) ELSE active

PoolJob_OldActive(p, j) ==
    /\ socket[p]
    /\ active'   = AfterJob(p)
    /\ timers'   = timers
    /\ last_job' = [last_job EXCEPT ![p] = j]
    /\ mining'   = IF active = Num(p) THEN Mine(p, j) ELSE mining
    /\ UNCHANGED <<socket, age>>

\* pool_message with a job: it is kept, and mined when the pool is active.
PoolJob(p, j) ==
    /\ socket[p]
    /\ active'   = AfterJob(p)
    /\ timers'   = IF FirstJob(p) /\ p = Primary
                   THEN CloseWaitTimer(active, socket, timers) ELSE timers
    /\ last_job' = [last_job EXCEPT ![p] = j]
    /\ mining'   = IF AfterJob(p) = Num(p) THEN Mine(p, j) ELSE mining
    /\ UNCHANGED <<socket, age>>

\* The "end" and "error" events of an open socket.
SocketError(p) ==
    /\ socket[p]
    /\ PoolErr(p, timers)

----------------------------------------------------------------------------
(* Timers.                                                                 *)

Due(t) == t \in timers /\ t.left = 0

\* setTimeout(connect_pool, wait_time, ...): the throttle is not tested again.
ConnectTimer(t) ==
    /\ Due(t) /\ t.kind = "connect"
    /\ ConnectPool(t.pool.id, socket, last_job, timers \ {t})
    /\ UNCHANGED <<active, mining>>

\* The first_job_wait timer knows the pool, not the socket it was set for.
FirstJobTimer(t) ==
    /\ Due(t) /\ t.kind = "first_job"
    /\ \/ /\ last_job[t.pool.id] = NoJob
          /\ PoolErr(t.pool.id, timers \ {t})
       \/ /\ last_job[t.pool.id] # NoJob
          /\ timers' = timers \ {t}
          /\ UNCHANGED <<active, socket, last_job, age, mining>>

CloseTimer_KeepsJob(t) ==
    /\ Due(t) /\ t.kind = "close"
    /\ timers' = timers \ {t}
    /\ socket' = [socket EXCEPT ![t.pool.id] = t.pool = active /\ @]
    /\ UNCHANGED <<last_job, active, age, mining>>

CloseTimer_Always(t) ==
    /\ Due(t) /\ t.kind = "close"
    /\ timers'   = timers \ {t}
    /\ socket'   = [socket EXCEPT ![t.pool.id] = FALSE]
    /\ last_job' = [last_job EXCEPT ![t.pool.id] = NoJob]
    /\ UNCHANGED <<active, age, mining>>

\* The callback of pool_close_wait.
CloseTimer(t) ==
    /\ Due(t) /\ t.kind = "close"
    /\ timers' = timers \ {t}
    /\ \/ /\ t.pool # active /\ socket[t.pool.id]
          /\ socket'   = [socket EXCEPT ![t.pool.id] = FALSE]
          /\ last_job' = [last_job EXCEPT ![t.pool.id] = NoJob]
       \/ /\ t.pool = active \/ ~ socket[t.pool.id]
          /\ UNCHANGED <<socket, last_job>>
    /\ UNCHANGED <<active, age, mining>>

DonateTimer_NoEnd(t) ==
    /\ Due(t) /\ t.kind = "donate"
    /\ ConnectPoolThrottle(Donate, socket, last_job,
           Arm(timers \ {t}, "donate", Num(Donate), DonateInterval))
    /\ UNCHANGED <<active, mining>>

\* The donate_interval callback: connect, and switch back donate_length later.
\* The interval and the end timer are set after connect_pool_throttle returned;
\* timers are a set, so the order does not show.
DonateTimer(t) ==
    /\ Due(t) /\ t.kind = "donate"
    /\ ConnectPoolThrottle(Donate, socket, last_job,
           Arm(Arm(timers \ {t}, "donate_end", Num(Donate), DonateLength),
               "donate", Num(Donate), DonateInterval))
    /\ UNCHANGED <<active, mining>>

\* setTimeout(p.switch_pool, donate_length, donate, set_job)
DonateEndTimer(t) ==
    /\ Due(t) /\ t.kind = "donate_end"
    /\ SwitchPool(Donate, socket, last_job, timers \ {t})

\* The primary_reconnect callback.
ReconnectTimer(t) ==
    /\ Due(t) /\ t.kind = "reconnect"
    /\ LET ts == Arm(timers \ {t}, "reconnect", Num(Primary), PrimaryReconnect)
       IN  \/ /\ active \in {Num(Primary), Num(Donate)}
              /\ timers' = ts
              /\ UNCHANGED <<socket, last_job, age>>
           \/ /\ active \notin {Num(Primary), Num(Donate)}
              /\ ConnectPoolThrottle(Primary, socket, last_job, ts)
    /\ UNCHANGED <<active, mining>>

Tick ==
    /\ \A t \in timers : t.left > 0
    /\ timers' = {Older(t) : t \in timers}
    /\ age' = [p \in Pools |-> IF age[p] < ConnectThrottle THEN age[p] + 1 ELSE age[p]]
    /\ UNCHANGED <<active, socket, last_job, mining>>

----------------------------------------------------------------------------
\* Whether start_mining sets the primary_reconnect interval.
HasBackups == NPools >= (IF Donate # NoPool THEN 3 ELSE 2)

\* start_mining has run: the primary pool is being connected.  In the saved
\* options last_connect_time is 0, so no first connection is throttled.
Init ==
    /\ active   = Num(Primary)
    /\ socket   = [p \in Pools |-> p = Primary]
    /\ last_job = [p \in Pools |-> NoJob]
    /\ age      = [p \in Pools |-> IF p = Primary THEN 0 ELSE ConnectThrottle]
    /\ mining   = Idle
    /\ timers   =
        {Timer("first_job", Num(Primary), FirstJobWait)}
        \cup (IF HasBackups
              THEN {Timer("reconnect", Num(Primary), PrimaryReconnect)} ELSE {})
        \cup (IF Donate # NoPool
              THEN {Timer("donate", Num(Donate), DonateInterval)} ELSE {})

\* A timer callback, whichever is due.
TimerFires(t) ==
    \/ ConnectTimer(t)
    \/ FirstJobTimer(t)
    \/ CloseTimer(t)
    \/ DonateTimer(t)
    \/ DonateEndTimer(t)
    \/ ReconnectTimer(t)

Next ==
    \/ \E p \in Pools, j \in Jobs : PoolJob(p, j)
    \/ \E p \in Pools : SocketError(p)
    \/ \E t \in timers : TimerFires(t)
    \/ Tick

Spec == Init /\ [][Next]_vars

\* Time passes and a due timer fires; nothing is assumed of the pools.
Fairness == WF_vars(Tick) /\ WF_vars(\E t \in timers : TimerFires(t))
FairSpec == Spec /\ Fairness

----------------------------------------------------------------------------
(* Properties.                                                             *)

JobOrNull  == Jobs \cup {NoJob}
TimersOK(ts) == \A t \in ts : t.kind \in Kinds /\ t.pool \in PoolId /\ t.left \in Nat

TypeOK ==
    /\ active \in PoolId
    /\ socket \in [Pools -> BOOLEAN]
    /\ last_job \in [Pools -> JobOrNull]
    /\ age \in [Pools -> 0 .. ConnectThrottle]
    /\ mining \in {Idle} \cup [pool : Pools, job : Jobs]
    /\ TimersOK(timers)

Pending(k, p) == \E t \in timers : t.kind = k /\ t.pool = Num(p)

\* A pool has a job only while its socket is open: the fail-over of switch_pool
\* takes `last_job' for a sign of life (pool.js:71-79).
JobNeedsSocket == \A p \in Pools : last_job[p] # NoJob => socket[p]

\* No backup pool is active while the primary pool has a job: whatever the
\* order of first jobs, failures, donations and reconnections
\* (pool.js:72-75, 120-125).
PrimaryPreferred == last_job[Primary] # NoJob => active \in {Num(Primary), Num(Donate)}

\* The workers mine for the donate pool only while it is the active one: it is
\* paused when nothing else is alive (pool.js:86-87).
DonateOnlyWhileActive == mining.pool = Donate /\ mining # Idle => active = Num(Donate)

\* While the donate pool is active the timer that ends its turn is pending:
\* mining for it lasts at most donate_length (mominer.js:374-378).
DonationEndPending == active = Num(Donate) => Pending("donate_end", Donate)

\* Every connection either has brought a job or has a first_job_wait timer
\* pending that will close it (pool.js:206-210).
SilentPoolIsWatched ==
    \A p \in Pools : socket[p] /\ last_job[p] = NoJob => Pending("first_job", p)

\* The first_job_wait timer of a lost connection never closes a later one
\* before that one has had its own first_job_wait: the timer is not cancelled
\* and only the throttle keeps the two apart (pool.js:191, 206-210, 263).
WatchdogSparesNewConnection ==
    [][\A t \in timers : FirstJobTimer(t) /\ socket' # socket
         => age[t.pool.id] >= FirstJobWait]_vars

\* What the workers mine is the last job of the active pool, once it sent one
\* (pool.js:81-82, 131-133).
ActiveJobIsMined == last_job[active.id] # NoJob => mining = Mine(active.id, last_job[active.id])

\* The same, as long as the active pool is a number.
NumericActiveJobIsMined == ~ active.str => ActiveJobIsMined

\* An active pool without a socket is about to be connected: the miner never
\* stays with a dead pool (pool.js:59-60, 95).
ActiveNotAbandoned == ~ socket[active.id] => Pending("connect", active.id)

\* A soft close that was armed when the pool stopped being active does not
\* close it after it "became active again" (pool.js:50-51), as long as the pool
\* was, and is, active as a number.
NumericSoftCloseSparesActive ==
    [][\A t \in timers : CloseTimer(t) /\ ~ active.str /\ ~ t.pool.str
         => socket'[active.id] = socket[active.id]]_vars

\* Each turn of the donate pool ends (mominer.js:374-378).
DonationEnds == active = Num(Donate) ~> active # Num(Donate)

\* If from some moment on the primary pool's connections do not fail, the
\* workers mine for it again and again, also after it was replaced by a backup
\* or by the donate pool (pool.js:95, mominer.js:364-378).
PrimaryStaysUp ==
    <>[][~ SocketError(Primary)
         /\ \A t \in timers : FirstJobTimer(t) /\ t.pool = Num(Primary) => socket' = socket]_vars
PrimaryComesBack == PrimaryStaysUp => []<>(mining.pool = Primary /\ last_job[Primary] # NoJob)
=============================================================================
