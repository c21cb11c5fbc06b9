-------------------------- MODULE PoolManagerProofs --------------------------
(***************************************************************************)
(* Proofs about PoolManager, for every number of pools, every set of jobs  *)
(* and all timings that satisfy TimesAssumption.                           *)
(***************************************************************************)
EXTENDS PoolManager, TLAPS

----------------------------------------------------------------------------
(* Typing.                                                                 *)

LEMMA ConstantTypes ==
    /\ NPools \in Nat \ {0}
    /\ Primary \in Pools /\ Primary # Donate
    /\ Donate \in {0, NoPool}
    /\ NoPool \notin Pools
    /\ ConnectThrottle \in Nat \ {0} /\ PrimaryReconnect \in Nat \ {0}
    /\ FirstJobWait \in Nat \ {0} /\ CloseWait \in Nat \ {0}
    /\ DonateInterval \in Nat \ {0} /\ DonateLength \in Nat \ {0}
    /\ FirstJobWait < ConnectThrottle
  BY PoolsAssumption, TimesAssumption DEF Pools, NoPool

\* With a donate pool there is another pool, so the donate id is a pool.
LEMMA DonateIsPool == Donate # NoPool => Donate \in Pools /\ 1 \in Pools
  BY ConstantTypes DEF Pools, NoPool

LEMMA NumType == \A p \in Pools : Num(p) \in PoolId /\ Str(p) \in PoolId /\ Num(p).id = p
  BY DEF Num, Str, PoolId

\* Arming a timer with a known kind, a pool id and a delay keeps the timers typed.
LEMMA ArmType ==
    ASSUME NEW ts, TimersOK(ts), NEW k \in Kinds, NEW a \in PoolId, NEW d \in Nat
    PROVE  TimersOK(Arm(ts, k, a, d))
  BY DEF TimersOK, Arm, Timer

LEMMA NextPoolType == \A p \in Pools : NextPool(p) \in Pools
  BY ConstantTypes, DonateIsPool DEF NextPool, Pools, NoPool

\* The functions that several actions call, typed.  so, lj and ts are what they
\* start from.
LEMMA ConnectType ==
    ASSUME TypeOK, NEW p \in Pools, NEW so \in [Pools -> BOOLEAN],
           NEW lj \in [Pools -> JobOrNull], NEW ts, TimersOK(ts),
           ConnectPoolThrottle(p, so, lj, ts) \/ ConnectPool(p, so, lj, ts)
    PROVE  /\ socket' \in [Pools -> BOOLEAN]
           /\ last_job' \in [Pools -> JobOrNull]
           /\ age' \in [Pools -> 0 .. ConnectThrottle]
           /\ TimersOK(timers')
<1>1. Num(p) \in PoolId
  BY NumType
<1>2. TimersOK(Arm(ts, "first_job", Num(p), FirstJobWait))
  BY <1>1, ArmType, ConstantTypes DEF Kinds
<1>3. age[p] \in 0 .. ConnectThrottle
  BY DEF TypeOK
<1>4. CASE ConnectPool(p, so, lj, ts)
  <2>1. CASE so[p]
    BY <1>4, <2>1 DEF ConnectPool, TypeOK
  <2>2. CASE ~ so[p]
    <3>1. /\ [so EXCEPT ![p] = TRUE] \in [Pools -> BOOLEAN]
          /\ [lj EXCEPT ![p] = NoJob] \in [Pools -> JobOrNull]
      BY DEF JobOrNull
    <3>2. [age EXCEPT ![p] = 0] \in [Pools -> 0 .. ConnectThrottle]
      BY ConstantTypes DEF TypeOK
    <3> QED
      BY <1>2, <1>4, <2>2, <3>1, <3>2 DEF ConnectPool
  <2> QED
    BY <2>1, <2>2
<1>5. CASE age[p] < ConnectThrottle /\ ConnectPoolThrottle(p, so, lj, ts)
  <2>1. ConnectThrottle - age[p] \in Nat
    BY <1>3, <1>5, ConstantTypes
  <2>2. TimersOK(Arm(ts, "connect", Num(p), ConnectThrottle - age[p]))
    BY <1>1, <2>1, ArmType DEF Kinds
  <2> QED
    BY <1>5, <2>2, <1>3, ConstantTypes DEF ConnectPoolThrottle, TypeOK
<1> QED
  BY <1>4, <1>5, <1>3, ConstantTypes DEF ConnectPoolThrottle

LEMMA CloseWaitType ==
    ASSUME NEW a \in PoolId, NEW so, NEW ts, TimersOK(ts)
    PROVE  TimersOK(CloseWaitTimer(a, so, ts))
  BY ArmType, ConstantTypes DEF CloseWaitTimer, Kinds

LEMMA SwitchType ==
    ASSUME TypeOK, NEW p \in Pools, NEW so \in [Pools -> BOOLEAN],
           NEW lj \in [Pools -> JobOrNull], NEW ts, TimersOK(ts),
           SwitchPool(p, so, lj, ts)
    PROVE  TypeOK'
<1> DEFINE ts1 == CloseWaitTimer(Num(p), so, ts)
           MakeActive(a) ==
              /\ active' = a
              /\ mining' = Mine(a.id, lj[a.id])
              /\ socket' = so /\ last_job' = lj /\ timers' = ts1
              /\ UNCHANGED age
<1>1. TimersOK(ts1)
  BY NumType, CloseWaitType
<1>2. ASSUME NEW a \in PoolId, lj[a.id] # NoJob, MakeActive(a)
      PROVE  TypeOK'
  <2>1. lj[a.id] \in Jobs /\ a.id \in Pools
    BY <1>2 DEF PoolId, JobOrNull
  <2> QED
    BY <1>1, <1>2, <2>1 DEF TypeOK, Mine
<1>3. CASE active # Num(p)
  BY <1>1, <1>3 DEF SwitchPool, TypeOK
<1>4. CASE active = Num(p) /\ lj[Primary] # NoJob
  BY <1>2, <1>4, NumType, ConstantTypes DEF SwitchPool
<1>5. CASE \E q \in Alive(lj) : MakeActive(Str(q))
  <2>1. PICK q \in Alive(lj) : MakeActive(Str(q))
    BY <1>5
  <2>2. q \in Pools /\ lj[q] # NoJob /\ Str(q) \in PoolId /\ Str(q).id = q
    BY NumType DEF Alive, Str
  <2> QED
    BY <1>2, <2>1, <2>2
<1>6. CASE /\ mining' = Pause
           /\ active' = Num(NextPool(p))
           /\ ConnectPoolThrottle(NextPool(p), so, lj, ts1)
  <2>1. NextPool(p) \in Pools /\ active' \in PoolId
    BY <1>6, NextPoolType, NumType
  <2>2. mining' \in {Idle} \cup [pool : Pools, job : Jobs]
    BY <1>6 DEF TypeOK, Pause, Idle, JobOrNull
  <2> QED
    BY <1>1, <1>6, <2>1, <2>2, ConnectType DEF TypeOK
<1> QED
  BY <1>3, <1>4, <1>5, <1>6 DEF SwitchPool

LEMMA PoolErrType ==
    ASSUME TypeOK, NEW p \in Pools, NEW ts, TimersOK(ts), PoolErr(p, ts)
    PROVE  TypeOK'
<1>1. CASE ~ socket[p]
  BY <1>1 DEF PoolErr, TypeOK
<1>2. CASE socket[p]
  <2>1. /\ [socket EXCEPT ![p] = FALSE] \in [Pools -> BOOLEAN]
        /\ [last_job EXCEPT ![p] = NoJob] \in [Pools -> JobOrNull]
    BY DEF TypeOK, JobOrNull
  <2> QED
    BY <1>2, <2>1, SwitchType DEF PoolErr
<1> QED
  BY <1>1, <1>2

LEMMA InitType == Init => TypeOK
<1> SUFFICES ASSUME Init PROVE TypeOK
  OBVIOUS
<1>1. TimersOK(timers)
  BY ConstantTypes, DonateIsPool, NumType DEF Init, TimersOK, Timer, Kinds
<1>2. mining \in {Idle} \cup [pool : Pools, job : Jobs]
  BY DEF Init, Idle, JobOrNull
<1> QED
  BY <1>1, <1>2, ConstantTypes, NumType DEF Init, TypeOK, JobOrNull

LEMMA NextType == TypeOK /\ [Next]_vars => TypeOK'
<1> SUFFICES ASSUME TypeOK, [Next]_vars PROVE TypeOK'
  OBVIOUS
<1>1. ASSUME NEW p \in Pools, NEW j \in Jobs, PoolJob(p, j)
      PROVE  TypeOK'
  <2>1. AfterJob(p) \in PoolId
    BY NumType DEF AfterJob, TypeOK
  <2>2. TimersOK(CloseWaitTimer(active, socket, timers))
    BY CloseWaitType DEF TypeOK
  <2>3. mining' \in {Idle} \cup [pool : Pools, job : Jobs]
    BY <1>1 DEF PoolJob, TypeOK, Mine, JobOrNull
  <2> QED
    BY <1>1, <2>1, <2>2, <2>3 DEF PoolJob, TypeOK, JobOrNull
<1>2. ASSUME NEW p \in Pools, SocketError(p)
      PROVE  TypeOK'
  BY <1>2, PoolErrType DEF SocketError, TypeOK
<1>3. ASSUME NEW t \in timers, TimerFires(t)
      PROVE  TypeOK'
  <2> DEFINE rest == timers \ {t}
  <2>1. t.kind \in Kinds /\ t.pool \in PoolId /\ t.pool.id \in Pools /\ TimersOK(rest)
    BY DEF TypeOK, TimersOK, PoolId
  <2>2. CASE ConnectTimer(t)
    BY <2>1, <2>2, ConnectType DEF ConnectTimer, TypeOK
  <2>3. CASE FirstJobTimer(t)
    BY <2>1, <2>3, PoolErrType DEF FirstJobTimer, TypeOK
  <2>4. CASE CloseTimer(t)
    BY <2>1, <2>4 DEF CloseTimer, TypeOK, JobOrNull
  <2>5. CASE DonateTimer(t)
    <3> DEFINE ts1 == Arm(rest, "donate_end", Num(Donate), DonateLength)
               ts2 == Arm(ts1, "donate", Num(Donate), DonateInterval)
    <3>1. Donate \in Pools /\ {"donate", "donate_end"} \subseteq Kinds
      BY <2>1, <2>5, DonateIsPool DEF DonateTimer, Kinds
    <3>2. TimersOK(ts1)
      BY <2>1, <3>1, NumType, ArmType, ConstantTypes
    <3>3. TimersOK(ts2)
      BY <3>1, <3>2, NumType, ArmType, ConstantTypes
    <3> QED
      BY <2>5, <3>1, <3>3, ConnectType DEF DonateTimer, TypeOK
  <2>6. CASE DonateEndTimer(t)
    <3>1. Donate \in Pools
      BY <2>1, <2>6, DonateIsPool DEF DonateEndTimer, Kinds
    <3> QED
      BY <2>1, <2>6, <3>1, SwitchType DEF DonateEndTimer, TypeOK
  <2>7. CASE ReconnectTimer(t)
    <3> DEFINE ts == Arm(rest, "reconnect", Num(Primary), PrimaryReconnect)
    <3>1. TimersOK(ts)
      BY <2>1, NumType, ArmType, ConstantTypes DEF Kinds
    <3> QED
      BY <2>7, <3>1, ConnectType, ConstantTypes DEF ReconnectTimer, TypeOK
  <2> QED
    BY <1>3, <2>2, <2>3, <2>4, <2>5, <2>6, <2>7 DEF TimerFires
<1>4. CASE Tick
  <2>1. TimersOK(timers')
    BY <1>4 DEF Tick, TypeOK, TimersOK, Older, Timer
  <2> QED
    BY <1>4, <2>1, ConstantTypes DEF Tick, TypeOK
<1>5. CASE UNCHANGED vars
  BY <1>5 DEF vars, TypeOK
<1> QED
  BY <1>1, <1>2, <1>3, <1>4, <1>5 DEF Next

\* Every reachable state of the pool manager is well typed.
THEOREM TypeCorrect == Spec => []TypeOK
<1> QED
  BY InitType, NextType, PTL DEF Spec

----------------------------------------------------------------------------
(* Connections and jobs: a pool with a job is connected, a connected pool  *)
(* without a job is watched.                                               *)

HasTimer(ts, k, p) == \E t \in ts : t.kind = k /\ t.pool = Num(p)

Watched(so, lj, ts) ==
    \A p \in Pools :
        /\ lj[p] # NoJob => so[p]
        /\ so[p] /\ lj[p] = NoJob => HasTimer(ts, "first_job", p)

LEMMA WatchedIsConj ==
    Watched(socket, last_job, timers) <=> JobNeedsSocket /\ SilentPoolIsWatched
  BY DEF Watched, JobNeedsSocket, SilentPoolIsWatched, HasTimer, Pending

\* More timers watch no less, nor do fewer timers of the other kinds.
LEMMA WatchedMono ==
    ASSUME NEW so, NEW lj, NEW ts, NEW us, Watched(so, lj, ts),
           \A t \in ts : t.kind = "first_job" => t \in us
    PROVE  Watched(so, lj, us)
  BY DEF Watched, HasTimer

\* Arming a timer keeps the others and makes it pending.
LEMMA ArmPending ==
    ASSUME NEW ts, NEW k, NEW p, NEW d
    PROVE  ts \subseteq Arm(ts, k, Num(p), d) /\ HasTimer(Arm(ts, k, Num(p), d), k, p)
<1>1. /\ Timer(k, Num(p), d) \in Arm(ts, k, Num(p), d)
      /\ ts \subseteq Arm(ts, k, Num(p), d)
  BY DEF Arm
<1>2. Timer(k, Num(p), d).kind = k /\ Timer(k, Num(p), d).pool = Num(p)
  BY DEF Timer
<1> QED
  BY <1>1, <1>2 DEF HasTimer

\* What the two connect functions do to a pool manager whose pools are watched:
\* the jobs stay, timers are only added, and at most p gets a socket.
LEMMA ConnectEffect ==
    ASSUME NEW p \in Pools, NEW so \in [Pools -> BOOLEAN],
           NEW lj \in [Pools -> JobOrNull], NEW ts, Watched(so, lj, ts),
           ConnectPoolThrottle(p, so, lj, ts) \/ ConnectPool(p, so, lj, ts)
    PROVE  /\ last_job' = lj
           /\ ts \subseteq timers'
           /\ \A q \in Pools : so[q] => socket'[q]
           /\ ~ socket'[p] => HasTimer(timers', "connect", p)
           /\ Watched(socket', last_job', timers')
<1>1. CASE /\ socket' = so /\ last_job' = lj /\ ts \subseteq timers'
           /\ ~ so[p] => HasTimer(timers', "connect", p)
  <2>1. Watched(socket', last_job', timers')
    BY <1>1 DEF Watched, HasTimer
  <2>2. \A q \in Pools : so[q] => socket'[q]
    BY <1>1
  <2> QED
    BY <1>1, <2>1, <2>2
<1>2. CASE /\ ~ so[p]
           /\ socket'   = [so EXCEPT ![p] = TRUE]
           /\ last_job' = [lj EXCEPT ![p] = NoJob]
           /\ timers'   = Arm(ts, "first_job", Num(p), FirstJobWait)
  <2>1. lj[p] = NoJob
    BY <1>2 DEF Watched
  <2>2. last_job' = lj
    BY <1>2, <2>1
  <2>3. HasTimer(timers', "first_job", p) /\ ts \subseteq timers'
    BY <1>2, ArmPending
  <2>4. Watched(socket', last_job', timers')
    BY <1>2, <2>2, <2>3 DEF Watched, HasTimer
  <2>5. socket'[p] /\ \A q \in Pools : so[q] => socket'[q]
    BY <1>2
  <2> QED
    BY <2>2, <2>3, <2>4, <2>5
<1>4. CASE ConnectPool(p, so, lj, ts)
  <2>1. CASE so[p]
    BY <1>1, <1>4, <2>1 DEF ConnectPool
  <2>2. CASE ~ so[p]
    BY <1>2, <1>4, <2>2 DEF ConnectPool
  <2> QED
    BY <2>1, <2>2
<1>5. CASE /\ timers' = Arm(ts, "connect", Num(p), ConnectThrottle - age[p])
           /\ socket' = so /\ last_job' = lj
  BY <1>1, <1>5, ArmPending
<1> QED
  BY <1>4, <1>5 DEF ConnectPoolThrottle

\* What switch_pool does: it never changes a job, and leaves the active pool in
\* one of four ways.
SwitchOutcome(p, lj) ==
    \/ active # Num(p) /\ UNCHANGED <<active, mining>>
    \/ /\ lj[Primary] # NoJob
       /\ active' = Num(Primary) /\ mining' = Mine(Primary, lj[Primary])
    \/ /\ active = Num(p) /\ lj[Primary] = NoJob
       /\ \E q \in Alive(lj) : active' = Str(q) /\ mining' = Mine(q, lj[q])
    \/ /\ active = Num(p) /\ lj[Primary] = NoJob /\ Alive(lj) = {}
       /\ active' = Num(NextPool(p)) /\ mining' = Pause

LEMMA SwitchEffect ==
    ASSUME NEW p \in Pools, NEW so \in [Pools -> BOOLEAN],
           NEW lj \in [Pools -> JobOrNull], NEW ts, Watched(so, lj, ts),
           SwitchPool(p, so, lj, ts)
    PROVE  /\ last_job' = lj
           /\ ts \subseteq timers'
           /\ \A q \in Pools : so[q] => socket'[q]
           /\ SwitchOutcome(p, lj)
           /\ Watched(socket', last_job', timers')
           /\ active = Num(p) /\ lj[Primary] = NoJob /\ Alive(lj) = {}
                => (~ socket'[NextPool(p)] => HasTimer(timers', "connect", NextPool(p)))
<1> DEFINE ts1 == CloseWaitTimer(Num(p), so, ts)
<1>1. ts \subseteq ts1
  BY DEF CloseWaitTimer, Arm
<1>2. Watched(so, lj, ts1)
  BY <1>1, WatchedMono
<1>3. CASE socket' = so /\ last_job' = lj /\ timers' = ts1
  <2>1. Watched(socket', last_job', timers')
    BY <1>2, <1>3
  <2>2. CASE /\ active = Num(p) /\ lj[Primary] = NoJob /\ Alive(lj) = {}
    <3>1. ConnectPoolThrottle(NextPool(p), so, lj, ts1) /\ SwitchOutcome(p, lj)
      BY <2>2 DEF SwitchPool, SwitchOutcome
    <3> QED
      BY <1>1, <1>2, <1>3, <2>1, <3>1, NextPoolType, ConnectEffect
  <2>3. CASE ~(active = Num(p) /\ lj[Primary] = NoJob /\ Alive(lj) = {})
    <3>1. SwitchOutcome(p, lj)
      <4>1. Num(Primary).id = Primary /\ \A q \in Pools : Str(q).id = q
        BY NumType, ConstantTypes DEF Str
      <4>2. Alive(lj) \subseteq Pools
        BY DEF Alive
      <4> QED
        BY <2>3, <4>1, <4>2 DEF SwitchPool, SwitchOutcome
    <3> QED
      BY <1>1, <1>3, <2>1, <2>3, <3>1
  <2> QED
    BY <2>2, <2>3
<1>4. CASE /\ active = Num(p) /\ lj[Primary] = NoJob /\ Alive(lj) = {}
           /\ ConnectPoolThrottle(NextPool(p), so, lj, ts1)
  <2>1. SwitchOutcome(p, lj)
    BY <1>4 DEF SwitchPool, SwitchOutcome
  <2> QED
    BY <1>1, <1>2, <1>4, <2>1, NextPoolType, ConnectEffect
<1> QED
  BY <1>3, <1>4 DEF SwitchPool

ConnInv == Watched(socket, last_job, timers)

LEMMA PoolErrWatched ==
    ASSUME TypeOK, NEW p \in Pools, NEW ts, PoolErr(p, ts),
           \A q \in Pools \ {p} : /\ last_job[q] # NoJob => socket[q]
                                  /\ socket[q] /\ last_job[q] = NoJob => HasTimer(ts, "first_job", q),
           ~ socket[p] => last_job[p] = NoJob
    PROVE  ConnInv'
<1>1. CASE ~ socket[p]
  <2>1. socket' = socket /\ last_job' = last_job /\ timers' = ts
    BY <1>1 DEF PoolErr
  <2> QED
    BY <1>1, <2>1 DEF ConnInv, Watched
<1>2. CASE socket[p]
  <2> DEFINE so == [socket EXCEPT ![p] = FALSE]
             lj == [last_job EXCEPT ![p] = NoJob]
  <2>1. so \in [Pools -> BOOLEAN] /\ lj \in [Pools -> JobOrNull]
    BY DEF TypeOK, JobOrNull
  <2>2. Watched(so, lj, ts)
    BY DEF Watched, TypeOK
  <2>3. SwitchPool(p, so, lj, ts)
    BY <1>2 DEF PoolErr
  <2> HIDE DEF so, lj
  <2> QED
    BY <2>1, <2>2, <2>3, SwitchEffect DEF ConnInv
<1> QED
  BY <1>1, <1>2

\* A timer that has fired and was not a first_job timer leaves the pools watched.
LEMMA FiredWatched ==
    ASSUME ConnInv, NEW t, t.kind # "first_job"
    PROVE  Watched(socket, last_job, timers \ {t})
  BY DEF ConnInv, Watched, HasTimer

LEMMA InitConn == Init => ConnInv
<1> SUFFICES ASSUME Init PROVE ConnInv
  OBVIOUS
<1>1. Timer("first_job", Num(Primary), FirstJobWait) \in timers
  BY DEF Init
<1>2. HasTimer(timers, "first_job", Primary)
  BY <1>1, Zenon DEF HasTimer, Timer
<1> QED
  BY <1>2 DEF Init, ConnInv, Watched

LEMMA NextConn == TypeOK /\ ConnInv /\ [Next]_vars => ConnInv'
<1> SUFFICES ASSUME TypeOK, ConnInv, [Next]_vars PROVE ConnInv'
  OBVIOUS
<1>1. ASSUME NEW p \in Pools, NEW j \in Jobs, PoolJob(p, j)
      PROVE  ConnInv'
  <2>1. timers \subseteq timers'
    BY <1>1 DEF PoolJob, CloseWaitTimer, Arm
  <2>2. /\ socket' = socket /\ socket[p]
        /\ last_job' = [last_job EXCEPT ![p] = j] /\ j # NoJob
    BY <1>1, PoolsAssumption DEF PoolJob
  <2> QED
    BY <2>1, <2>2 DEF ConnInv, Watched, HasTimer, TypeOK
<1>2. ASSUME NEW p \in Pools, SocketError(p)
      PROVE  ConnInv'
  BY <1>2, PoolErrWatched DEF SocketError, ConnInv, Watched
<1>3. ASSUME NEW t \in timers, TimerFires(t)
      PROVE  ConnInv'
  <2> DEFINE rest == timers \ {t}
  <2>1. /\ t.kind \in Kinds /\ t.pool \in PoolId /\ t.pool.id \in Pools
        /\ socket \in [Pools -> BOOLEAN] /\ last_job \in [Pools -> JobOrNull]
    BY DEF TypeOK, TimersOK, PoolId
  <2>2. CASE ConnectTimer(t)
    BY <2>1, <2>2, FiredWatched, ConnectEffect DEF ConnectTimer, ConnInv
  <2>3. CASE FirstJobTimer(t)
    <3> DEFINE p == t.pool.id
    <3>1. \A q \in Pools \ {p} :
             /\ last_job[q] # NoJob => socket[q]
             /\ socket[q] /\ last_job[q] = NoJob => HasTimer(rest, "first_job", q)
      BY <2>1, NumType DEF ConnInv, Watched, HasTimer
    <3>2. CASE last_job[p] = NoJob
      BY <2>1, <2>3, <3>1, <3>2, PoolErrWatched DEF FirstJobTimer
    <3>3. CASE last_job[p] # NoJob
      BY <2>1, <2>3, <3>1, <3>3 DEF FirstJobTimer, ConnInv, Watched
    <3> QED
      BY <3>2, <3>3
  <2>4. CASE CloseTimer(t)
    <3>1. Watched(socket, last_job, rest) /\ timers' = rest
      BY <2>4, FiredWatched DEF CloseTimer
    <3> QED
      BY <2>1, <2>4, <3>1 DEF CloseTimer, ConnInv, Watched
  <2>5. CASE DonateTimer(t)
    <3> DEFINE ts1 == Arm(rest, "donate_end", Num(Donate), DonateLength)
               ts2 == Arm(ts1, "donate", Num(Donate), DonateInterval)
    <3>1. Donate \in Pools
      BY <2>1, <2>5, DonateIsPool DEF DonateTimer, Kinds
    <3>2. Watched(socket, last_job, ts2)
      BY <2>5, FiredWatched, WatchedMono, ArmPending DEF DonateTimer
    <3> QED
      BY <2>1, <2>5, <3>1, <3>2, ConnectEffect DEF DonateTimer, ConnInv
  <2>6. CASE DonateEndTimer(t)
    <3>1. Donate \in Pools
      BY <2>1, <2>6, DonateIsPool DEF DonateEndTimer, Kinds
    <3>2. Watched(socket, last_job, rest)
      BY <2>6, FiredWatched DEF DonateEndTimer
    <3> QED
      BY <2>1, <2>6, <3>1, <3>2, SwitchEffect DEF DonateEndTimer, ConnInv
  <2>7. CASE ReconnectTimer(t)
    <3> DEFINE ts == Arm(rest, "reconnect", Num(Primary), PrimaryReconnect)
    <3>1. Watched(socket, last_job, ts)
      BY <2>7, FiredWatched, WatchedMono, ArmPending DEF ReconnectTimer
    <3>2. CASE timers' = ts /\ UNCHANGED <<socket, last_job, age>>
      BY <3>1, <3>2 DEF ConnInv
    <3>3. CASE ConnectPoolThrottle(Primary, socket, last_job, ts)
      BY <2>1, <3>1, <3>3, ConnectEffect, ConstantTypes DEF ConnInv
    <3> QED
      BY <2>7, <3>2, <3>3 DEF ReconnectTimer
  <2> QED
    BY <1>3, <2>2, <2>3, <2>4, <2>5, <2>6, <2>7 DEF TimerFires
<1>4. CASE Tick
  <2>1. \A p \in Pools : HasTimer(timers, "first_job", p) => HasTimer(timers', "first_job", p)
    <3> SUFFICES ASSUME NEW p \in Pools, HasTimer(timers, "first_job", p)
                 PROVE  HasTimer(timers', "first_job", p)
      OBVIOUS
    <3>1. PICK t \in timers : t.kind = "first_job" /\ t.pool = Num(p)
      BY DEF HasTimer
    <3>2. Older(t) \in timers' /\ Older(t).kind = "first_job" /\ Older(t).pool = Num(p)
      BY <1>4, <3>1 DEF Tick, Older, Timer
    <3> QED
      BY <3>2 DEF HasTimer
  <2> QED
    BY <1>4, <2>1 DEF Tick, ConnInv, Watched
<1>5. CASE UNCHANGED vars
  BY <1>5 DEF vars, ConnInv, Watched
<1> QED
  BY <1>1, <1>2, <1>3, <1>4, <1>5 DEF Next

\* A pool has a job only while it is connected, whatever closes its socket.
THEOREM JobsNeedSockets == Spec => []JobNeedsSocket
<1> QED
  BY InitType, NextType, InitConn, NextConn, WatchedIsConj, PTL DEF Spec, ConnInv

\* No connection can stay silent for ever: it has brought a job, or the timer
\* that closes it is pending.
THEOREM SilentPoolsAreWatched == Spec => []SilentPoolIsWatched
<1> QED
  BY InitType, NextType, InitConn, NextConn, WatchedIsConj, PTL DEF Spec, ConnInv

----------------------------------------------------------------------------
(* The active pool and what is mined.                                      *)

MiningInv ==
    /\ PrimaryPreferred
    /\ DonateOnlyWhileActive
    /\ NumericActiveJobIsMined

\* Losing jobs of any pools disturbs nothing while the active pool stays.
LEMMA LossKeepsMining ==
    ASSUME TypeOK, MiningInv, UNCHANGED <<active, mining>>,
           \A q \in Pools : last_job'[q] \in {last_job[q], NoJob}
    PROVE  MiningInv'
<1>1. active.id \in Pools
  BY DEF TypeOK, PoolId
<1> QED
  BY <1>1, ConstantTypes DEF MiningInv, PrimaryPreferred, DonateOnlyWhileActive,
     NumericActiveJobIsMined, ActiveJobIsMined

LEMMA SwitchMining ==
    ASSUME TypeOK, MiningInv, NEW p \in Pools, NEW lj \in [Pools -> JobOrNull],
           \A q \in Pools : lj[q] \in {last_job[q], NoJob},
           lj[p] = NoJob \/ p = Donate,
           SwitchOutcome(p, lj), last_job' = lj
    PROVE  MiningInv'
<1> USE ConstantTypes, NumType DEF MiningInv, PrimaryPreferred, DonateOnlyWhileActive,
     NumericActiveJobIsMined, ActiveJobIsMined
<1>1. CASE active # Num(p) /\ UNCHANGED <<active, mining>>
  BY <1>1, LossKeepsMining
<1>2. CASE /\ lj[Primary] # NoJob
           /\ active' = Num(Primary) /\ mining' = Mine(Primary, lj[Primary])
  BY <1>2 DEF Mine
<1>3. CASE /\ lj[Primary] = NoJob
           /\ \E q \in Alive(lj) : active' = Str(q) /\ mining' = Mine(q, lj[q])
  BY <1>3 DEF Alive, Mine, Str
<1>4. CASE /\ active = Num(p) /\ lj[Primary] = NoJob /\ Alive(lj) = {}
           /\ active' = Num(NextPool(p)) /\ mining' = Pause
  <2>1. NextPool(p) \in Pools /\ NextPool(p) # Donate
    BY NextPoolType DEF NextPool, Pools, NoPool
  <2>2. lj[NextPool(p)] = NoJob
    BY <1>4, <2>1 DEF Alive
  <2>3. DonateOnlyWhileActive'
    BY <1>4, <2>1 DEF Pause, Idle
  <2> QED
    BY <1>4, <2>1, <2>2, <2>3
<1> QED
  BY <1>1, <1>2, <1>3, <1>4 DEF SwitchOutcome

LEMMA PoolErrMining ==
    ASSUME TypeOK, ConnInv, MiningInv, NEW p \in Pools, NEW ts, PoolErr(p, ts),
           \A q \in Pools \ {p} :
              socket[q] /\ last_job[q] = NoJob => HasTimer(ts, "first_job", q)
    PROVE  MiningInv'
<1>1. CASE ~ socket[p]
  BY <1>1, LossKeepsMining DEF PoolErr
<1>2. CASE socket[p]
  <2> DEFINE so == [socket EXCEPT ![p] = FALSE]
             lj == [last_job EXCEPT ![p] = NoJob]
  <2>1. so \in [Pools -> BOOLEAN] /\ lj \in [Pools -> JobOrNull]
    BY DEF TypeOK, JobOrNull
  <2>2. Watched(so, lj, ts)
    BY DEF Watched, TypeOK, ConnInv
  <2>3. SwitchPool(p, so, lj, ts)
    BY <1>2 DEF PoolErr
  <2>4. lj[p] = NoJob /\ \A q \in Pools : lj[q] \in {last_job[q], NoJob}
    BY DEF TypeOK
  <2> HIDE DEF so, lj
  <2>5. SwitchOutcome(p, lj) /\ last_job' = lj
    BY <2>1, <2>2, <2>3, SwitchEffect
  <2> QED
    BY <2>1, <2>4, <2>5, SwitchMining
<1> QED
  BY <1>1, <1>2

LEMMA InitMining == Init => MiningInv
  BY ConstantTypes DEF Init, MiningInv, PrimaryPreferred, DonateOnlyWhileActive,
     NumericActiveJobIsMined, ActiveJobIsMined, Num

LEMMA NextMining == TypeOK /\ ConnInv /\ MiningInv /\ [Next]_vars => MiningInv'
<1> SUFFICES ASSUME TypeOK, ConnInv, MiningInv, [Next]_vars PROVE MiningInv'
  OBVIOUS
<1>1. ASSUME NEW p \in Pools, NEW j \in Jobs, PoolJob(p, j)
      PROVE  MiningInv'
  <2>1. /\ active' = AfterJob(p) /\ AfterJob(p) \in {active, Num(p)}
        /\ last_job' = [last_job EXCEPT ![p] = j] /\ last_job \in [Pools -> JobOrNull]
    BY <1>1 DEF PoolJob, AfterJob, TypeOK
  <2>2. PrimaryPreferred'
    BY <2>1, ConstantTypes DEF MiningInv, PrimaryPreferred, AfterJob, FirstJob
  <2>3. CASE active' = Num(p)
    BY <1>1, <2>1, <2>2, <2>3, NumType DEF MiningInv, DonateOnlyWhileActive, PoolJob,
       NumericActiveJobIsMined, ActiveJobIsMined, Mine
  <2>4. CASE active' # Num(p)
    <3>1. active' = active /\ mining' = mining
      BY <1>1, <2>1, <2>4 DEF PoolJob
    <3>2. ~ active.str => active.id # p
      BY <2>1, <2>4, <3>1 DEF TypeOK, PoolId, Num
    <3> QED
      BY <2>1, <2>2, <3>1, <3>2 DEF MiningInv, DonateOnlyWhileActive,
         NumericActiveJobIsMined, ActiveJobIsMined, TypeOK, PoolId
  <2> QED
    BY <2>3, <2>4
<1>2. ASSUME NEW p \in Pools, SocketError(p)
      PROVE  MiningInv'
  BY <1>2, PoolErrMining DEF SocketError, ConnInv, Watched
<1>3. ASSUME NEW t \in timers, TimerFires(t)
      PROVE  MiningInv'
  <2> DEFINE rest == timers \ {t}
  <2>1. /\ t.kind \in Kinds /\ t.pool \in PoolId /\ t.pool.id \in Pools
        /\ socket \in [Pools -> BOOLEAN] /\ last_job \in [Pools -> JobOrNull]
    BY DEF TypeOK, TimersOK, PoolId
  <2>2. CASE last_job' = last_job /\ UNCHANGED <<active, mining>>
    BY <2>2, LossKeepsMining
  <2>3. CASE ConnectTimer(t)
    BY <2>1, <2>2, <2>3, FiredWatched, ConnectEffect DEF ConnectTimer
  <2>4. CASE FirstJobTimer(t)
    <3> DEFINE p == t.pool.id
    <3>1. \A q \in Pools \ {p} :
             socket[q] /\ last_job[q] = NoJob => HasTimer(rest, "first_job", q)
      BY <2>1, NumType DEF ConnInv, Watched, HasTimer
    <3> QED
      BY <2>1, <2>2, <2>4, <3>1, PoolErrMining DEF FirstJobTimer
  <2>5. CASE CloseTimer(t)
    BY <2>1, <2>5, LossKeepsMining DEF CloseTimer
  <2>6. CASE DonateTimer(t)
    <3> DEFINE ts1 == Arm(rest, "donate_end", Num(Donate), DonateLength)
               ts2 == Arm(ts1, "donate", Num(Donate), DonateInterval)
    <3>1. Donate \in Pools
      BY <2>1, <2>6, DonateIsPool DEF DonateTimer, Kinds
    <3>2. Watched(socket, last_job, ts2)
      BY <2>6, FiredWatched, WatchedMono, ArmPending DEF DonateTimer
    <3> QED
      BY <2>1, <2>2, <2>6, <3>1, <3>2, ConnectEffect DEF DonateTimer
  <2>7. CASE DonateEndTimer(t)
    <3>1. Donate \in Pools
      BY <2>1, <2>7, DonateIsPool DEF DonateEndTimer, Kinds
    <3>2. Watched(socket, last_job, rest)
      BY <2>7, FiredWatched DEF DonateEndTimer
    <3> QED
      BY <2>1, <2>7, <3>1, <3>2, SwitchEffect, SwitchMining DEF DonateEndTimer
  <2>8. CASE ReconnectTimer(t)
    <3> DEFINE ts == Arm(rest, "reconnect", Num(Primary), PrimaryReconnect)
    <3>1. Watched(socket, last_job, ts)
      BY <2>8, FiredWatched, WatchedMono, ArmPending DEF ReconnectTimer
    <3> QED
      BY <2>1, <2>2, <2>8, <3>1, ConnectEffect, ConstantTypes DEF ReconnectTimer
  <2> QED
    BY <1>3, <2>3, <2>4, <2>5, <2>6, <2>7, <2>8 DEF TimerFires
<1>4. CASE Tick \/ UNCHANGED vars
  BY <1>4, LossKeepsMining DEF Tick, vars
<1> QED
  BY <1>1, <1>2, <1>3, <1>4 DEF Next

LEMMA MiningInvariant == Spec => []MiningInv
<1> QED
  BY InitType, NextType, InitConn, NextConn, InitMining, NextMining, PTL DEF Spec

\* No backup pool is active while the primary pool has a job, in whatever order
\* jobs, failures, donations and reconnections come.
THEOREM PrimaryIsPreferred == Spec => []PrimaryPreferred
<1>1. MiningInv => PrimaryPreferred
  BY DEF MiningInv
<1> QED
  BY <1>1, MiningInvariant, PTL

\* The workers never mine for the donate pool once it is not active any more.
THEOREM DonationIsConfined == Spec => []DonateOnlyWhileActive
<1>1. MiningInv => DonateOnlyWhileActive
  BY DEF MiningInv
<1> QED
  BY <1>1, MiningInvariant, PTL

\* A pool that is active as a number has its last job mined.
THEOREM NumericActiveIsMined == Spec => []NumericActiveJobIsMined
<1>1. MiningInv => NumericActiveJobIsMined
  BY DEF MiningInv
<1> QED
  BY <1>1, MiningInvariant, PTL

----------------------------------------------------------------------------
(* Timing: an old first_job_wait timer never meets a new connection.       *)

\* A first_job timer is as old as its pool's last connection, and a connect
\* timer expires when the throttle does; one that expired already finds the
\* connection that another one made at the same time.
Timed(ts, ag) ==
    \A t \in ts :
        /\ t.kind = "first_job" => t.left + ag[t.pool.id] = FirstJobWait
        /\ t.kind = "connect" =>
             \/ t.left + ag[t.pool.id] = ConnectThrottle
             \/ t.left = 0 /\ ag[t.pool.id] = 0

TimeInv == Timed(timers, age)

\* A timer of the other kinds is armed without regard to the throttle.
LEMMA ArmTimed ==
    ASSUME NEW ts, NEW ag, Timed(ts, ag), NEW k, NEW a, NEW d,
           k \notin {"first_job", "connect"}
    PROVE  Timed(Arm(ts, k, a, d), ag)
  BY DEF Timed, Arm, Timer

LEMMA ConnectTimed ==
    ASSUME TypeOK, NEW p \in Pools, NEW so \in [Pools -> BOOLEAN],
           NEW lj \in [Pools -> JobOrNull], NEW ts, TimersOK(ts), Timed(ts, age),
           \/ ConnectPoolThrottle(p, so, lj, ts)
           \/ ConnectPool(p, so, lj, ts) /\ age[p] \in {0, ConnectThrottle}
    PROVE  TimeInv'
<1>1. age[p] \in 0 .. ConnectThrottle /\ age \in [Pools -> 0 .. ConnectThrottle]
  BY DEF TypeOK
<1>2. CASE age' = age /\ timers' = ts
  BY <1>2 DEF TimeInv
<1>3. CASE age' = age /\ timers' = Arm(ts, "connect", Num(p), ConnectThrottle - age[p])
  <2>1. ConnectThrottle - age[p] + age[p] = ConnectThrottle
    BY <1>1, ConstantTypes
  <2> QED
    BY <1>3, <2>1, NumType DEF TimeInv, Timed, Arm, Timer
<1>4. CASE /\ age[p] \in {0, ConnectThrottle}
           /\ age' = [age EXCEPT ![p] = 0]
           /\ timers' = Arm(ts, "first_job", Num(p), FirstJobWait)
  <2>1. ASSUME NEW t \in ts
        PROVE  /\ t.kind = "first_job" => t.left + age'[t.pool.id] = FirstJobWait
               /\ t.kind = "connect" =>
                    \/ t.left + age'[t.pool.id] = ConnectThrottle
                    \/ t.left = 0 /\ age'[t.pool.id] = 0
    <3>1. t.left \in Nat /\ t.pool.id \in Pools
      BY DEF TimersOK, PoolId
    <3>2. CASE t.pool.id = p
      BY <1>1, <1>4, <3>1, <3>2, ConstantTypes DEF Timed
    <3>3. CASE t.pool.id # p
      BY <1>1, <1>4, <3>1, <3>3 DEF Timed
    <3> QED
      BY <3>2, <3>3
  <2>2. Timer("first_job", Num(p), FirstJobWait).left + age'[p] = FirstJobWait
    BY <1>1, <1>4, ConstantTypes DEF Timer
  <2> QED
    BY <1>4, <2>1, <2>2, NumType DEF TimeInv, Timed, Arm, Timer
<1> QED
  BY <1>1, <1>2, <1>3, <1>4 DEF ConnectPoolThrottle, ConnectPool

LEMMA CloseWaitTimed ==
    ASSUME NEW a, NEW so, NEW ts, Timed(ts, age)
    PROVE  Timed(CloseWaitTimer(a, so, ts), age)
  BY ArmTimed DEF CloseWaitTimer

LEMMA SwitchTimed ==
    ASSUME TypeOK, NEW p \in Pools, NEW so \in [Pools -> BOOLEAN],
           NEW lj \in [Pools -> JobOrNull], NEW ts, TimersOK(ts), Timed(ts, age),
           SwitchPool(p, so, lj, ts)
    PROVE  TimeInv'
<1> DEFINE ts1 == CloseWaitTimer(Num(p), so, ts)
<1>1. TimersOK(ts1) /\ Timed(ts1, age)
  BY NumType, CloseWaitType, CloseWaitTimed
<1>2. CASE age' = age /\ timers' = ts1
  BY <1>1, <1>2 DEF TimeInv
<1>3. CASE ConnectPoolThrottle(NextPool(p), so, lj, ts1)
  BY <1>1, <1>3, NextPoolType, ConnectTimed
<1> QED
  BY <1>2, <1>3 DEF SwitchPool

LEMMA PoolErrTimed ==
    ASSUME TypeOK, NEW p \in Pools, NEW ts, TimersOK(ts), Timed(ts, age), PoolErr(p, ts)
    PROVE  TimeInv'
<1>1. /\ [socket EXCEPT ![p] = FALSE] \in [Pools -> BOOLEAN]
      /\ [last_job EXCEPT ![p] = NoJob] \in [Pools -> JobOrNull]
  BY DEF TypeOK, JobOrNull
<1>2. CASE age' = age /\ timers' = ts
  BY <1>2 DEF TimeInv
<1> QED
  BY <1>1, <1>2, SwitchTimed DEF PoolErr

LEMMA InitTimed == Init => TimeInv
  BY ConstantTypes, NumType DEF Init, TimeInv, Timed, Timer

LEMMA NextTimed == TypeOK /\ TimeInv /\ [Next]_vars => TimeInv'
<1> SUFFICES ASSUME TypeOK, TimeInv, [Next]_vars PROVE TimeInv'
  OBVIOUS
<1>1. ASSUME NEW p \in Pools, NEW j \in Jobs, PoolJob(p, j)
      PROVE  TimeInv'
  BY <1>1, CloseWaitTimed DEF PoolJob, TimeInv
<1>2. ASSUME NEW p \in Pools, SocketError(p)
      PROVE  TimeInv'
  BY <1>2, PoolErrTimed DEF SocketError, TypeOK, TimeInv
<1>3. ASSUME NEW t \in timers, TimerFires(t)
      PROVE  TimeInv'
  <2> DEFINE rest == timers \ {t}
  <2>1. /\ t.kind \in Kinds /\ t.pool \in PoolId /\ t.pool.id \in Pools
        /\ TimersOK(rest) /\ Timed(rest, age)
        /\ socket \in [Pools -> BOOLEAN] /\ last_job \in [Pools -> JobOrNull]
    BY DEF TypeOK, TimersOK, PoolId, TimeInv, Timed
  <2>2. CASE age' = age /\ timers' = rest
    BY <2>1, <2>2 DEF TimeInv
  <2>3. CASE ConnectTimer(t)
    <3>1. age[t.pool.id] \in {0, ConnectThrottle}
      BY <2>1, <2>3, ConstantTypes DEF ConnectTimer, Due, TimeInv, Timed, TypeOK
    <3> QED
      BY <2>1, <2>3, <3>1, ConnectTimed DEF ConnectTimer
  <2>4. CASE FirstJobTimer(t)
    BY <2>1, <2>2, <2>4, PoolErrTimed DEF FirstJobTimer
  <2>5. CASE CloseTimer(t)
    BY <2>2, <2>5 DEF CloseTimer
  <2>6. CASE DonateTimer(t)
    <3> DEFINE ts1 == Arm(rest, "donate_end", Num(Donate), DonateLength)
               ts2 == Arm(ts1, "donate", Num(Donate), DonateInterval)
    <3>1. Donate \in Pools /\ {"donate", "donate_end"} \subseteq Kinds
      BY <2>1, <2>6, DonateIsPool DEF DonateTimer, Kinds
    <3>2. TimersOK(ts2) /\ Timed(ts2, age)
      BY <2>1, <3>1, NumType, ArmType, ArmTimed, ConstantTypes
    <3> QED
      BY <2>1, <2>6, <3>1, <3>2, ConnectTimed DEF DonateTimer
  <2>7. CASE DonateEndTimer(t)
    <3>1. Donate \in Pools
      BY <2>1, <2>7, DonateIsPool DEF DonateEndTimer, Kinds
    <3> QED
      BY <2>1, <2>7, <3>1, SwitchTimed DEF DonateEndTimer
  <2>8. CASE ReconnectTimer(t)
    <3> DEFINE ts == Arm(rest, "reconnect", Num(Primary), PrimaryReconnect)
    <3>1. TimersOK(ts) /\ Timed(ts, age)
      BY <2>1, NumType, ArmType, ArmTimed, ConstantTypes DEF Kinds
    <3>2. CASE timers' = ts /\ UNCHANGED age
      BY <3>1, <3>2 DEF TimeInv
    <3> QED
      BY <2>1, <2>8, <3>1, <3>2, ConnectTimed, ConstantTypes DEF ReconnectTimer
  <2> QED
    BY <1>3, <2>3, <2>4, <2>5, <2>6, <2>7, <2>8 DEF TimerFires
<1>4. CASE Tick
  <2>1. ASSUME NEW t \in timers
        PROVE  /\ t.kind = "first_job" => t.left - 1 + age'[t.pool.id] = FirstJobWait
               /\ t.kind = "connect" => t.left - 1 + age'[t.pool.id] = ConnectThrottle
    <3>1. t.left \in Nat /\ t.left > 0 /\ t.pool.id \in Pools
      BY <1>4 DEF Tick, TypeOK, TimersOK, PoolId
    <3>2. age[t.pool.id] \in 0 .. ConnectThrottle
      BY <3>1 DEF TypeOK
    <3>3. age'[t.pool.id] = IF age[t.pool.id] < ConnectThrottle
                            THEN age[t.pool.id] + 1 ELSE age[t.pool.id]
      BY <1>4, <3>1 DEF Tick
    <3> QED
      BY <3>1, <3>2, <3>3, ConstantTypes DEF TimeInv, Timed
  <2> QED
    BY <1>4, <2>1 DEF Tick, TimeInv, Timed, Older, Timer
<1>5. CASE UNCHANGED vars
  BY <1>5 DEF vars, TimeInv
<1> QED
  BY <1>1, <1>2, <1>3, <1>4, <1>5 DEF Next

\* The timer that closes a silent connection closes that connection: it never
\* meets a later one of the same pool, although it is not cancelled.
THEOREM WatchdogMeetsItsConnection == Spec => WatchdogSparesNewConnection
<1>1. TypeOK /\ TimeInv => \A t \in timers : FirstJobTimer(t) => age[t.pool.id] >= FirstJobWait
  BY ConstantTypes DEF FirstJobTimer, Due, TimeInv, Timed, TypeOK, TimersOK, PoolId
<1>2. TypeOK /\ TimeInv /\ [Next]_vars
        => [\A t \in timers : FirstJobTimer(t) /\ socket' # socket
               => age[t.pool.id] >= FirstJobWait]_vars
  BY <1>1
<1> QED
  BY <1>2, InitType, NextType, InitTimed, NextTimed, PTL DEF Spec, WatchdogSparesNewConnection

----------------------------------------------------------------------------
(* The donate pool's turn always has an end.                               *)

\* The donate pool is connected by its own interval only, which is never
\* throttled; as long as the connection is silent the end of the turn is as old.
Turn(so, lj, ts, ag) ==
    /\ \A t \in ts : t.kind = "connect" => t.pool.id # Donate
    /\ \A t \in ts : t.kind = "donate" => t.left + ag[Donate] >= ConnectThrottle
    /\ \A t, u \in ts : t.kind = "donate" /\ u.kind = "donate" => t = u
    /\ so[Donate] /\ lj[Donate] = NoJob =>
         \E t \in ts : t.kind = "donate_end" /\ t.pool = Num(Donate)
                      /\ t.left + ag[Donate] = DonateLength

TurnInv == Turn(socket, last_job, timers, age) /\ DonationEndPending

\* A step that leaves the donate pool alone and arms no timer of its kind.
Beside(so, lj, ts) ==
    /\ socket'[Donate] = so[Donate] /\ last_job'[Donate] = lj[Donate]
    /\ age'[Donate] = age[Donate] /\ ts \subseteq timers'
    /\ \A t \in timers' \ ts : t.kind # "donate" /\ (t.kind = "connect" => t.pool.id # Donate)

LEMMA BesideTurn ==
    ASSUME NEW so, NEW lj, NEW ts, Turn(so, lj, ts, age), Beside(so, lj, ts)
    PROVE  Turn(socket, last_job, timers, age)'
  BY DEF Turn, Beside

LEMMA ConnectBeside ==
    ASSUME TypeOK, Donate \in Pools, NEW p \in Pools, p # Donate, NEW so \in [Pools -> BOOLEAN],
           NEW lj \in [Pools -> JobOrNull], NEW ts,
           ConnectPoolThrottle(p, so, lj, ts) \/ ConnectPool(p, so, lj, ts)
    PROVE  Beside(so, lj, ts)
<1>1. /\ socket' = so \/ socket' = [so EXCEPT ![p] = TRUE]
      /\ last_job' = lj \/ last_job' = [lj EXCEPT ![p] = NoJob]
      /\ age' = age \/ age' = [age EXCEPT ![p] = 0]
  BY DEF ConnectPoolThrottle, ConnectPool
<1>2. \/ timers' = ts
      \/ timers' = Arm(ts, "connect", Num(p), ConnectThrottle - age[p])
      \/ timers' = Arm(ts, "first_job", Num(p), FirstJobWait)
  BY DEF ConnectPoolThrottle, ConnectPool
<1>3. socket'[Donate] = so[Donate] /\ last_job'[Donate] = lj[Donate] /\ age'[Donate] = age[Donate]
  BY <1>1 DEF TypeOK
<1>4. ts \subseteq timers' /\ \A t \in timers' \ ts : t.kind # "donate" /\ t.pool.id = p
  BY <1>2, NumType DEF Arm, Timer
<1> QED
  BY <1>3, <1>4 DEF Beside

LEMMA CloseWaitBeside ==
    ASSUME NEW a, NEW so, NEW ts
    PROVE  /\ ts \subseteq CloseWaitTimer(a, so, ts)
           /\ \A t \in CloseWaitTimer(a, so, ts) \ ts : t.kind = "close"
  BY DEF CloseWaitTimer, Arm, Timer

\* switch_pool never makes the donate pool active.
LEMMA SwitchBeside ==
    ASSUME TypeOK, Donate \in Pools, NEW p \in Pools, NEW so \in [Pools -> BOOLEAN],
           NEW lj \in [Pools -> JobOrNull], NEW ts, SwitchPool(p, so, lj, ts)
    PROVE  Beside(so, lj, ts) /\ (active' = Num(Donate) => active = Num(Donate) /\ p # Donate)
<1> DEFINE ts1 == CloseWaitTimer(Num(p), so, ts)
<1>1. ts \subseteq ts1 /\ \A t \in ts1 \ ts : t.kind = "close"
  BY CloseWaitBeside
<1>2. NextPool(p) \in Pools /\ NextPool(p) # Donate
  BY NextPoolType, ConstantTypes, DonateIsPool DEF NextPool, Pools, NoPool
<1>3. \A q : Num(q) = Num(Donate) => q = Donate
  BY DEF Num
<1>4. \A q : Str(q) # Num(Donate)
  BY DEF Num, Str
<1>5. \/ socket' = so /\ last_job' = lj /\ timers' = ts1 /\ age' = age
      \/ ConnectPoolThrottle(NextPool(p), so, lj, ts1)
  BY DEF SwitchPool
<1>6. \/ active # Num(p) /\ active' = active
      \/ active' \in {Num(Primary), Num(NextPool(p))}
      \/ \E q : active' = Str(q)
  BY DEF SwitchPool
<1> HIDE DEF ts1
<1>7. Beside(so, lj, ts)
  <2>1. CASE socket' = so /\ last_job' = lj /\ timers' = ts1 /\ age' = age
    BY <1>1, <2>1 DEF Beside
  <2>2. CASE ConnectPoolThrottle(NextPool(p), so, lj, ts1)
    <3>1. Beside(so, lj, ts1)
      BY <1>2, <2>2, ConnectBeside
    <3> QED
      BY <1>1, <3>1 DEF Beside
  <2> QED
    BY <1>5, <2>1, <2>2
<1> QED
  BY <1>2, <1>3, <1>4, <1>6, <1>7, ConstantTypes

LEMMA PoolErrTurn ==
    ASSUME TypeOK, Donate \in Pools, NEW p \in Pools, NEW ts,
           Turn(socket, last_job, ts, age), PoolErr(p, ts)
    PROVE  /\ Turn(socket, last_job, timers, age)' /\ ts \subseteq timers'
           /\ active' = Num(Donate) => active = Num(Donate)
<1>1. CASE ~ socket[p]
  BY <1>1 DEF PoolErr, Turn
<1>2. CASE socket[p]
  <2> DEFINE so == [socket EXCEPT ![p] = FALSE]
             lj == [last_job EXCEPT ![p] = NoJob]
  <2>1. so \in [Pools -> BOOLEAN] /\ lj \in [Pools -> JobOrNull] /\ SwitchPool(p, so, lj, ts)
    BY <1>2 DEF PoolErr, TypeOK, JobOrNull
  <2>2. Turn(so, lj, ts, age)
    BY DEF Turn, TypeOK
  <2> HIDE DEF so, lj
  <2>3. Beside(so, lj, ts) /\ (active' = Num(Donate) => active = Num(Donate))
    BY <2>1, SwitchBeside
  <2> QED
    BY <2>2, <2>3, BesideTurn DEF Beside
<1> QED
  BY <1>1, <1>2

LEMMA InitTurn == Donate \in Pools /\ Init => TurnInv
<1> SUFFICES ASSUME Donate \in Pools, Init PROVE TurnInv
  OBVIOUS
<1>1. Num(Primary) # Num(Donate) /\ Donate # NoPool /\ age[Donate] = ConnectThrottle /\ ~ socket[Donate]
  BY ConstantTypes DEF Init, Num
<1>2. \A t \in timers : /\ t.kind # "connect"
                        /\ t.kind = "donate" => t = Timer("donate", Num(Donate), DonateInterval)
  BY DEF Init, Timer
<1>3. Timer("donate", Num(Donate), DonateInterval).left + ConnectThrottle >= ConnectThrottle
  BY ConstantTypes DEF Timer
<1> QED
  BY <1>1, <1>2, <1>3 DEF Init, TurnInv, Turn, DonationEndPending

\* As long as the donate pool is silent its connection is younger than its turn.
LEMMA SilentIsYoung ==
    ASSUME TypeOK, ConnInv, TimeInv, Donate \in Pools, socket[Donate], last_job[Donate] = NoJob
    PROVE  /\ age[Donate] \in 0 .. FirstJobWait
           /\ (\A t \in timers : t.left > 0) => age[Donate] < FirstJobWait
<1>1. PICK t \in timers : t.kind = "first_job" /\ t.pool = Num(Donate)
  BY DEF ConnInv, Watched, HasTimer
<1>2. t.left \in Nat /\ t.left + age[Donate] = FirstJobWait
  BY <1>1, NumType DEF TypeOK, TimersOK, TimeInv, Timed
<1>3. age[Donate] \in Nat
  BY ConstantTypes DEF TypeOK
<1> QED
  BY <1>2, <1>3, ConstantTypes

\* Once it has fired, a timer of another kind, or one that ends an old turn, is
\* not missed.
LEMMA FiredTurn ==
    ASSUME TypeOK, ConnInv, TimeInv, TurnInv, Donate \in Pools, NEW t \in timers, t.left = 0
    PROVE  Turn(socket, last_job, timers \ {t}, age)
<1>1. CASE socket[Donate] /\ last_job[Donate] = NoJob
  <2>1. PICK w \in timers : /\ w.kind = "donate_end" /\ w.pool = Num(Donate)
                            /\ w.left + age[Donate] = DonateLength
    BY <1>1 DEF TurnInv, Turn
  <2>2. w # t
    BY <1>1, <2>1, SilentIsYoung, ConstantTypes, TimesAssumption
  <2> QED
    BY <2>1, <2>2 DEF TurnInv, Turn
<1>2. CASE ~ (socket[Donate] /\ last_job[Donate] = NoJob)
  BY <1>2 DEF TurnInv, Turn
<1> QED
  BY <1>1, <1>2

LEMMA TickTurn ==
    ASSUME TypeOK, ConnInv, TimeInv, TurnInv, Donate \in Pools, Tick
    PROVE  TurnInv'
<1>1. \A t \in timers : t.left \in Nat /\ t.left > 0
  BY DEF Tick, TypeOK, TimersOK
<1>2. /\ age[Donate] \in 0 .. ConnectThrottle
      /\ age'[Donate] = IF age[Donate] < ConnectThrottle THEN age[Donate] + 1 ELSE age[Donate]
  BY DEF Tick, TypeOK
<1>3. timers' = {Older(t) : t \in timers} /\ UNCHANGED <<active, socket, last_job>>
  BY DEF Tick
<1>4. \A t : Older(t).kind = t.kind /\ Older(t).pool = t.pool /\ Older(t).left = t.left - 1
  BY DEF Older, Timer
<1>5. \A t \in timers' : t.kind = "connect" => t.pool.id # Donate
  BY <1>3, <1>4 DEF TurnInv, Turn
<1>6. \A t \in timers' : t.kind = "donate" => t.left + age'[Donate] >= ConnectThrottle
  <2> SUFFICES ASSUME NEW t \in timers, t.kind = "donate"
               PROVE  t.left - 1 + age'[Donate] >= ConnectThrottle
    BY <1>3, <1>4
  <2>1. t.left + age[Donate] >= ConnectThrottle
    BY DEF TurnInv, Turn
  <2> QED
    BY <1>1, <1>2, <2>1, ConstantTypes
<1>7. \A t, u \in timers' : t.kind = "donate" /\ u.kind = "donate" => t = u
  BY <1>3, <1>4 DEF TurnInv, Turn
<1>8. ASSUME socket'[Donate], last_job'[Donate] = NoJob
      PROVE  \E t \in timers' : /\ t.kind = "donate_end" /\ t.pool = Num(Donate)
                                /\ t.left + age'[Donate] = DonateLength
  <2>1. PICK w \in timers : /\ w.kind = "donate_end" /\ w.pool = Num(Donate)
                            /\ w.left + age[Donate] = DonateLength
    BY <1>3, <1>8 DEF TurnInv, Turn
  <2>2. age[Donate] < FirstJobWait
    BY <1>1, <1>3, <1>8, SilentIsYoung
  <2>3. w.left - 1 + age'[Donate] = DonateLength
    BY <1>1, <1>2, <2>1, <2>2, ConstantTypes
  <2>4. Older(w) \in timers'
    BY <1>3
  <2> QED
    BY <1>4, <2>1, <2>3, <2>4
<1>9. DonationEndPending'
  BY <1>3, <1>4 DEF TurnInv, DonationEndPending, Pending
<1> QED
  BY <1>5, <1>6, <1>7, <1>8, <1>9 DEF TurnInv, Turn

\* The connection of a turn is made at once, by the timer that sets its end.
LEMMA DonateTimerTurn ==
    ASSUME TypeOK, ConnInv, TimeInv, TurnInv, Donate \in Pools, NEW t \in timers, DonateTimer(t)
    PROVE  TurnInv'
<1> DEFINE rest == timers \ {t}
           end  == Timer("donate_end", Num(Donate), DonateLength)
           next == Timer("donate", Num(Donate), DonateInterval)
           ts   == rest \cup {end, next}
<1>1. t.kind = "donate" /\ t.left = 0
  BY DEF DonateTimer, Due
<1>2. age[Donate] = ConnectThrottle
  BY <1>1, ConstantTypes DEF TurnInv, Turn, TypeOK
<1>3. ~ (socket[Donate] /\ last_job[Donate] = NoJob)
  BY <1>2, SilentIsYoung, ConstantTypes
<1>4. ConnectPool(Donate, socket, last_job, ts) /\ active' = active
  <2>1. ts = Arm(Arm(rest, "donate_end", Num(Donate), DonateLength),
                 "donate", Num(Donate), DonateInterval)
    BY DEF Arm
  <2> QED
    BY <1>2, <2>1, ConstantTypes DEF DonateTimer, ConnectPoolThrottle
<1>5. /\ end.kind = "donate_end" /\ end.pool = Num(Donate) /\ end.left = DonateLength
      /\ next.kind = "donate" /\ next.left = DonateInterval
  BY DEF Timer
<1>6. \A u \in rest : u.kind # "donate" /\ (u.kind = "connect" => u.pool.id # Donate)
  BY <1>1 DEF TurnInv, Turn
<1>7. Turn(socket, last_job, timers, age)'
  <2>1. CASE socket[Donate] /\ UNCHANGED <<socket, last_job, age>> /\ timers' = ts
    <3>1. DonateInterval + age'[Donate] >= ConnectThrottle
      BY <1>2, <2>1, ConstantTypes
    <3> HIDE DEF end, next
    <3> QED
      BY <1>3, <1>5, <1>6, <2>1, <3>1 DEF Turn
  <2>2. CASE /\ ~ socket[Donate]
             /\ age' = [age EXCEPT ![Donate] = 0]
             /\ timers' = ts \cup {Timer("first_job", Num(Donate), FirstJobWait)}
    <3>1. age'[Donate] = 0
      BY <2>2 DEF TypeOK
    <3>2. DonateInterval + 0 >= ConnectThrottle /\ DonateLength + 0 = DonateLength
      BY ConstantTypes, TimesAssumption
    <3>3. Timer("first_job", Num(Donate), FirstJobWait).kind = "first_job"
      BY DEF Timer
    <3> HIDE DEF end, next
    <3> QED
      BY <1>5, <1>6, <2>2, <3>1, <3>2, <3>3 DEF Turn
  <2> QED
    BY <1>4, <2>1, <2>2 DEF ConnectPool, Arm
<1>8. end \in timers'
  BY <1>4 DEF ConnectPool, Arm
<1> QED
  BY <1>5, <1>7, <1>8 DEF TurnInv, DonationEndPending, Pending

LEMMA NextTurn ==
    TypeOK /\ ConnInv /\ TimeInv /\ TurnInv /\ Donate \in Pools /\ [Next]_vars => TurnInv'
<1> SUFFICES ASSUME TypeOK, ConnInv, TimeInv, TurnInv, Donate \in Pools, [Next]_vars
             PROVE  TurnInv'
  OBVIOUS
<1>1. Turn(socket, last_job, timers, age) /\ Num(Primary) # Num(Donate)
  BY ConstantTypes DEF TurnInv, Num
\* A step that keeps the ends of turns and does not make the pool active.
<1>2. ASSUME Turn(socket, last_job, timers, age)', active' = Num(Donate) => active = Num(Donate),
             \A t \in timers : t.kind = "donate_end" => t \in timers'
      PROVE  TurnInv'
  BY <1>2 DEF TurnInv, DonationEndPending, Pending
<1>3. ASSUME NEW p \in Pools, NEW j \in Jobs, PoolJob(p, j)
      PROVE  TurnInv'
  <2>1. timers \subseteq timers' /\ \A t \in timers' \ timers : t.kind = "close"
    BY <1>3, CloseWaitBeside DEF PoolJob
  <2>2. UNCHANGED <<socket, age>> /\ last_job' = [last_job EXCEPT ![p] = j] /\ j # NoJob
    BY <1>3, PoolsAssumption DEF PoolJob
  <2>3. last_job'[Donate] = NoJob => last_job[Donate] = NoJob
    BY <2>2 DEF TypeOK
  <2>4. Turn(socket, last_job, timers, age)'
    BY <1>1, <2>1, <2>2, <2>3 DEF Turn
  <2>5. CASE active' = Num(Donate) /\ active # Num(Donate)
    <3>1. socket[Donate] /\ last_job[Donate] = NoJob
      BY <1>1, <1>3, <2>5 DEF PoolJob, AfterJob, FirstJob, Num
    <3> QED
      BY <1>1, <2>1, <2>4, <3>1 DEF Turn, TurnInv, DonationEndPending, Pending
  <2> QED
    BY <1>2, <2>1, <2>4, <2>5
<1>4. ASSUME NEW p \in Pools, SocketError(p)
      PROVE  TurnInv'
  BY <1>1, <1>2, <1>4, PoolErrTurn DEF SocketError
<1>5. ASSUME NEW t \in timers, TimerFires(t)
      PROVE  TurnInv'
  <2> DEFINE rest == timers \ {t}
  <2>1. /\ t.left = 0 /\ t.pool.id \in Pools
        /\ socket \in [Pools -> BOOLEAN] /\ last_job \in [Pools -> JobOrNull]
    BY <1>5 DEF TimerFires, ConnectTimer, FirstJobTimer, CloseTimer, DonateTimer,
                DonateEndTimer, ReconnectTimer, Due, TypeOK, TimersOK, PoolId
  <2>2. Turn(socket, last_job, rest, age)
    BY <2>1, FiredTurn
  <2>3. CASE ConnectTimer(t)
    <3>1. t.pool.id # Donate /\ t.kind = "connect" /\ active' = active
      BY <1>1, <2>3 DEF ConnectTimer, Due, Turn
    <3>2. Beside(socket, last_job, rest)
      BY <2>1, <2>3, <3>1, ConnectBeside DEF ConnectTimer
    <3> QED
      BY <1>2, <2>2, <3>1, <3>2, BesideTurn DEF Beside
  <2>4. CASE FirstJobTimer(t)
    <3>1. CASE PoolErr(t.pool.id, rest)
      BY <1>2, <2>1, <2>2, <2>4, <3>1, PoolErrTurn DEF FirstJobTimer, Due
    <3>2. CASE timers' = rest /\ UNCHANGED <<active, socket, last_job, age>>
      BY <1>2, <2>2, <2>4, <3>2 DEF FirstJobTimer, Due
    <3> QED
      BY <2>4, <3>1, <3>2 DEF FirstJobTimer
  <2>5. CASE CloseTimer(t)
    <3>1. /\ timers' = rest /\ UNCHANGED <<active, age>> /\ t.kind = "close"
          /\ socket'[Donate] => socket[Donate] /\ last_job'[Donate] = last_job[Donate]
      BY <2>1, <2>5 DEF CloseTimer, Due
    <3>2. Turn(socket, last_job, timers, age)'
      BY <2>2, <3>1 DEF Turn
    <3> QED
      BY <1>2, <3>1, <3>2
  <2>6. CASE DonateTimer(t)
    BY <2>6, DonateTimerTurn
  <2>7. CASE DonateEndTimer(t)
    <3>1. Beside(socket, last_job, rest) /\ active' # Num(Donate)
      BY <2>1, <2>7, SwitchBeside DEF DonateEndTimer
    <3> QED
      BY <2>2, <3>1, BesideTurn DEF TurnInv, DonationEndPending
  <2>8. CASE ReconnectTimer(t)
    <3> DEFINE ts == Arm(rest, "reconnect", Num(Primary), PrimaryReconnect)
    <3>1. t.kind = "reconnect" /\ active' = active /\ rest \subseteq ts
          /\ \A u \in ts \ rest : u.kind = "reconnect"
      BY <2>8 DEF ReconnectTimer, Due, Arm, Timer
    <3> HIDE DEF ts
    <3>2. Beside(socket, last_job, ts)
      <4>1. CASE timers' = ts /\ UNCHANGED <<socket, last_job, age>>
        BY <4>1 DEF Beside
      <4>2. CASE ConnectPoolThrottle(Primary, socket, last_job, ts)
        BY <2>1, <4>2, ConnectBeside, ConstantTypes
      <4> QED
        BY <2>8, <4>1, <4>2 DEF ReconnectTimer, ts
    <3>3. Beside(socket, last_job, rest)
      BY <3>1, <3>2 DEF Beside
    <3> QED
      BY <1>2, <2>2, <3>1, <3>3, BesideTurn DEF Beside
  <2> QED
    BY <1>5, <2>3, <2>4, <2>5, <2>6, <2>7, <2>8 DEF TimerFires
<1>6. CASE Tick
  BY <1>6, TickTurn
<1>7. CASE UNCHANGED vars
  BY <1>7 DEF vars, TurnInv, Turn, DonationEndPending, Pending
<1> QED
  BY <1>3, <1>4, <1>5, <1>6, <1>7 DEF Next

\* While the donate pool is active the timer that ends its turn is pending.
THEOREM TurnsEnd == Spec => []DonationEndPending
<1>1. CASE Donate \in Pools
  <2>1. Init => TurnInv
    BY <1>1, InitTurn
  <2>2. TypeOK /\ ConnInv /\ TimeInv /\ TurnInv /\ [Next]_vars => TurnInv'
    BY <1>1, NextTurn
  <2>3. TurnInv => DonationEndPending
    BY DEF TurnInv
  <2> QED
    BY <2>1, <2>2, <2>3, InitType, NextType, InitConn, NextConn, InitTimed, NextTimed,
       PTL DEF Spec
<1>2. CASE Donate = NoPool
  <2>1. TypeOK => DonationEndPending
    <3> SUFFICES ASSUME TypeOK PROVE active # Num(Donate)
      BY DEF DonationEndPending
    <3> QED
      BY <1>2, ConstantTypes DEF TypeOK, PoolId, Num
  <2> QED
    BY <2>1, TypeCorrect, PTL
<1> QED
  BY <1>1, <1>2, DonateIsPool

----------------------------------------------------------------------------
(* Without backup pools the active pool stays a number and is never        *)
(* abandoned.                                                              *)

NoBackups == \A p \in Pools : p = Primary \/ p = Donate

ActiveInv ==
    /\ ~ active.str
    /\ \A t \in timers : ~ t.pool.str
    /\ ~ socket[active.id] => HasTimer(timers, "connect", active.id)

LEMMA ArmNumeric ==
    ASSUME NEW ts, \A t \in ts : ~ t.pool.str, NEW k, NEW p, NEW d
    PROVE  \A t \in Arm(ts, k, Num(p), d) : ~ t.pool.str
  BY DEF Arm, Timer, Num

\* Timers armed by the connect functions and by switch_pool carry numbers.
LEMMA ConnectNumeric ==
    ASSUME NEW p, NEW so, NEW lj, NEW ts, \A t \in ts : ~ t.pool.str,
           ConnectPoolThrottle(p, so, lj, ts) \/ ConnectPool(p, so, lj, ts)
    PROVE  \A t \in timers' : ~ t.pool.str
  BY ArmNumeric DEF ConnectPoolThrottle, ConnectPool

LEMMA SwitchNumeric ==
    ASSUME NEW p, NEW so, NEW lj, NEW ts, \A t \in ts : ~ t.pool.str,
           SwitchPool(p, so, lj, ts)
    PROVE  \A t \in timers' : ~ t.pool.str
<1>1. \A t \in CloseWaitTimer(Num(p), so, ts) : ~ t.pool.str
  BY ArmNumeric DEF CloseWaitTimer
<1> QED
  BY <1>1, ConnectNumeric DEF SwitchPool

LEMMA SwitchActive ==
    ASSUME NoBackups, TypeOK, ~ active.str, NEW p \in Pools, NEW so \in [Pools -> BOOLEAN],
           NEW lj \in [Pools -> JobOrNull], NEW ts, Watched(so, lj, ts),
           \A t \in ts : ~ t.pool.str,
           active # Num(p) /\ ~ so[active.id] => HasTimer(ts, "connect", active.id),
           SwitchPool(p, so, lj, ts)
    PROVE  ActiveInv'
<1>1. \A t \in timers' : ~ t.pool.str
  BY SwitchNumeric
<1>2. /\ ts \subseteq timers' /\ SwitchOutcome(p, lj)
      /\ \A q \in Pools : so[q] => socket'[q]
      /\ active = Num(p) /\ lj[Primary] = NoJob /\ Alive(lj) = {}
            => (~ socket'[NextPool(p)] => HasTimer(timers', "connect", NextPool(p)))
  BY SwitchEffect
<1>3. active.id \in Pools
  BY DEF TypeOK, PoolId
<1>4. CASE active # Num(p) /\ UNCHANGED <<active, mining>>
  BY <1>1, <1>2, <1>3, <1>4 DEF ActiveInv, HasTimer
<1>5. CASE lj[Primary] # NoJob /\ active' = Num(Primary)
  <2>1. socket'[Primary]
    BY <1>2, <1>5, ConstantTypes DEF Watched
  <2> QED
    BY <1>1, <1>5, <2>1, ConstantTypes, NumType DEF ActiveInv, Num
<1>6. CASE lj[Primary] = NoJob /\ \E q \in Alive(lj) : active' = Str(q)
  BY <1>6, NoBackups DEF NoBackups, Alive
<1>7. CASE /\ active = Num(p) /\ lj[Primary] = NoJob /\ Alive(lj) = {}
           /\ active' = Num(NextPool(p))
  BY <1>1, <1>2, <1>7, NextPoolType, NumType DEF ActiveInv, Num
<1> QED
  BY <1>2, <1>4, <1>5, <1>6, <1>7 DEF SwitchOutcome

LEMMA PoolErrActive ==
    ASSUME NoBackups, TypeOK, ConnInv, ActiveInv, NEW p \in Pools, NEW ts, PoolErr(p, ts),
           ts \subseteq timers,
           \A t \in timers : t.kind = "connect" => t \in ts,
           \A q \in Pools \ {p} :
              socket[q] /\ last_job[q] = NoJob => HasTimer(ts, "first_job", q)
    PROVE  ActiveInv'
<1>1. ~ socket[active.id] => HasTimer(ts, "connect", active.id)
  BY DEF ActiveInv, HasTimer
<1>2. CASE ~ socket[p]
  BY <1>1, <1>2 DEF PoolErr, ActiveInv
<1>3. CASE socket[p]
  <2> DEFINE so == [socket EXCEPT ![p] = FALSE]
             lj == [last_job EXCEPT ![p] = NoJob]
  <2>1. so \in [Pools -> BOOLEAN] /\ lj \in [Pools -> JobOrNull]
    BY DEF TypeOK, JobOrNull
  <2>2. Watched(so, lj, ts)
    BY DEF Watched, TypeOK, ConnInv
  <2>3. SwitchPool(p, so, lj, ts)
    BY <1>3 DEF PoolErr
  <2>4. active # Num(p) /\ ~ so[active.id] => HasTimer(ts, "connect", active.id)
    BY <1>1 DEF TypeOK, PoolId, Num, ActiveInv
  <2>5. ~ active.str /\ \A t \in ts : ~ t.pool.str
    BY DEF ActiveInv
  <2> HIDE DEF so, lj
  <2> QED
    BY <2>1, <2>2, <2>3, <2>4, <2>5, SwitchActive
<1> QED
  BY <1>2, <1>3

LEMMA InitActive == Init => ActiveInv
<1> SUFFICES ASSUME Init PROVE ActiveInv
  OBVIOUS
<1>1. \A k, p, d : Timer(k, Num(p), d).pool = Num(p) /\ ~ Num(p).str
  BY DEF Timer, Num
<1>2. \A t \in timers : \E k, p, d : t = Timer(k, Num(p), d)
  BY DEF Init
<1>3. \A t \in timers : ~ t.pool.str
  BY <1>1, <1>2
<1>4. active = Num(Primary) /\ active.id = Primary /\ socket[Primary]
  BY ConstantTypes, NumType DEF Init
<1> QED
  BY <1>1, <1>3, <1>4 DEF ActiveInv

LEMMA NextActive ==
    ASSUME NoBackups
    PROVE  TypeOK /\ ConnInv /\ ActiveInv /\ [Next]_vars => ActiveInv'
<1> SUFFICES ASSUME TypeOK, ConnInv, ActiveInv, [Next]_vars PROVE ActiveInv'
  OBVIOUS
<1>1. active.id \in Pools /\ active = Num(active.id)
  BY DEF TypeOK, PoolId, Num, ActiveInv
<1>2. ASSUME NEW p \in Pools, NEW j \in Jobs, PoolJob(p, j)
      PROVE  ActiveInv'
  <2>1. timers \subseteq timers' /\ \A t \in timers' : ~ t.pool.str
    BY <1>1, <1>2, ArmNumeric DEF PoolJob, CloseWaitTimer, ActiveInv, Arm
  <2>2. socket' = socket /\ socket[p] /\ active' \in {active, Num(p)}
    BY <1>2 DEF PoolJob, AfterJob
  <2>3. CASE active' = active
    BY <1>1, <2>1, <2>2, <2>3 DEF ActiveInv, HasTimer
  <2>4. CASE active' = Num(p)
    BY <2>1, <2>2, <2>4, NumType DEF ActiveInv, Num
  <2> QED
    BY <2>2, <2>3, <2>4
<1>3. ASSUME NEW p \in Pools, SocketError(p)
      PROVE  ActiveInv'
  BY <1>3, PoolErrActive DEF SocketError, ConnInv, Watched
<1>4. ASSUME NEW t \in timers, TimerFires(t)
      PROVE  ActiveInv'
  <2> DEFINE rest == timers \ {t}
  <2>1. /\ t.kind \in Kinds /\ t.pool \in PoolId /\ t.pool.id \in Pools
        /\ socket \in [Pools -> BOOLEAN] /\ last_job \in [Pools -> JobOrNull]
        /\ t.pool = Num(t.pool.id)
        /\ \A u \in rest : ~ u.pool.str
    BY DEF TypeOK, TimersOK, PoolId, ActiveInv, Num
  <2>2. t.kind # "connect" =>
           (~ socket[active.id] => HasTimer(rest, "connect", active.id))
    BY DEF ActiveInv, HasTimer
  <2>3. ASSUME UNCHANGED active, \A q \in Pools : socket[q] => socket'[q],
               rest \subseteq timers', \A u \in timers' : ~ u.pool.str, t.kind # "connect"
        PROVE  ActiveInv'
    BY <1>1, <2>2, <2>3 DEF ActiveInv, HasTimer
  <2>4. CASE ConnectTimer(t)
    <3> DEFINE p == t.pool.id
    <3>1. ConnectPool(p, socket, last_job, rest) /\ active' = active /\ t.kind = "connect"
      BY <2>4 DEF ConnectTimer
    <3>2. socket'[p] /\ rest \subseteq timers' /\ \A q \in Pools : socket[q] => socket'[q]
      BY <2>1, <3>1, ArmPending DEF ConnectPool
    <3>3. \A u \in timers' : ~ u.pool.str
      BY <2>1, <3>1, ConnectNumeric
    <3>4. active.id # p => (~ socket[active.id] => HasTimer(rest, "connect", active.id))
      BY <2>1, NumType, <1>1 DEF ActiveInv, HasTimer
    <3> QED
      BY <1>1, <3>1, <3>2, <3>3, <3>4 DEF ActiveInv, HasTimer
  <2>5. CASE FirstJobTimer(t)
    <3> DEFINE p == t.pool.id
    <3>1. \A q \in Pools \ {p} :
             socket[q] /\ last_job[q] = NoJob => HasTimer(rest, "first_job", q)
      BY <2>1, NumType DEF ConnInv, Watched, HasTimer
    <3>2. \A u \in timers : u.kind = "connect" => u \in rest
      BY <2>5 DEF FirstJobTimer
    <3>3. CASE PoolErr(p, rest)
      BY <2>1, <3>1, <3>2, <3>3, PoolErrActive
    <3>4. CASE timers' = rest /\ UNCHANGED <<active, socket>>
      BY <2>1, <2>3, <2>5, <3>4 DEF FirstJobTimer
    <3> QED
      BY <2>5, <3>3, <3>4 DEF FirstJobTimer
  <2>6. CASE CloseTimer(t)
    <3>1. socket'[active.id] = socket[active.id]
      BY <1>1, <2>1, <2>6 DEF CloseTimer, Num
    <3> QED
      BY <1>1, <2>1, <2>2, <2>6, <3>1 DEF CloseTimer, ActiveInv
  <2>7. CASE DonateTimer(t)
    <3> DEFINE ts1 == Arm(rest, "donate_end", Num(Donate), DonateLength)
               ts2 == Arm(ts1, "donate", Num(Donate), DonateInterval)
    <3>1. Donate \in Pools
      BY <2>1, <2>7, DonateIsPool DEF DonateTimer, Kinds
    <3>2. /\ Watched(socket, last_job, ts2) /\ rest \subseteq ts2
          /\ \A u \in ts2 : ~ u.pool.str
      <4>1. Watched(socket, last_job, rest)
        BY <2>7, FiredWatched DEF DonateTimer
      <4>2. rest \subseteq ts1 /\ ts1 \subseteq ts2
        BY ArmPending
      <4>3. Watched(socket, last_job, ts2)
        BY <4>1, <4>2, WatchedMono
      <4>4. \A u \in ts1 : ~ u.pool.str
        BY <2>1, ArmNumeric
      <4> QED
        BY <4>2, <4>3, <4>4, ArmNumeric
    <3>3. /\ ts2 \subseteq timers' /\ \A q \in Pools : socket[q] => socket'[q]
          /\ \A u \in timers' : ~ u.pool.str
      BY <2>1, <2>7, <3>1, <3>2, ConnectEffect, ConnectNumeric DEF DonateTimer
    <3> QED
      BY <2>3, <2>7, <3>2, <3>3 DEF DonateTimer
  <2>8. CASE DonateEndTimer(t)
    <3>1. Donate \in Pools
      BY <2>1, <2>8, DonateIsPool DEF DonateEndTimer, Kinds
    <3>2. Watched(socket, last_job, rest) /\ t.kind # "connect"
      BY <2>8, FiredWatched DEF DonateEndTimer
    <3> QED
      BY <2>1, <2>2, <2>8, <3>1, <3>2, SwitchActive DEF DonateEndTimer, ActiveInv
  <2>9. CASE ReconnectTimer(t)
    <3> DEFINE ts == Arm(rest, "reconnect", Num(Primary), PrimaryReconnect)
    <3>1. /\ Watched(socket, last_job, ts) /\ rest \subseteq ts
          /\ \A u \in ts : ~ u.pool.str
      BY <2>1, <2>9, FiredWatched, WatchedMono, ArmPending, ArmNumeric DEF ReconnectTimer
    <3>2. CASE timers' = ts /\ UNCHANGED socket
      BY <2>3, <2>9, <3>1, <3>2 DEF ReconnectTimer
    <3>3. CASE ConnectPoolThrottle(Primary, socket, last_job, ts)
      <4>1. /\ ts \subseteq timers' /\ \A q \in Pools : socket[q] => socket'[q]
            /\ \A u \in timers' : ~ u.pool.str
        BY <2>1, <3>1, <3>3, ConnectEffect, ConnectNumeric, ConstantTypes
      <4> QED
        BY <2>3, <2>9, <3>1, <4>1 DEF ReconnectTimer
    <3> QED
      BY <2>9, <3>2, <3>3 DEF ReconnectTimer
  <2> QED
    BY <1>4, <2>4, <2>5, <2>6, <2>7, <2>8, <2>9 DEF TimerFires
<1>5. CASE Tick
  <2>1. HasTimer(timers, "connect", active.id) => HasTimer(timers', "connect", active.id)
    <3> SUFFICES ASSUME HasTimer(timers, "connect", active.id)
                 PROVE  HasTimer(timers', "connect", active.id)
      OBVIOUS
    <3>1. PICK t \in timers : t.kind = "connect" /\ t.pool = Num(active.id)
      BY DEF HasTimer
    <3>2. Older(t) \in timers' /\ Older(t).kind = "connect" /\ Older(t).pool = Num(active.id)
      BY <1>5, <3>1 DEF Tick, Older, Timer
    <3> QED
      BY <3>2 DEF HasTimer
  <2>2. \A u \in timers' : ~ u.pool.str
    BY <1>5 DEF Tick, Older, Timer, ActiveInv
  <2> QED
    BY <1>5, <2>1, <2>2 DEF Tick, ActiveInv
<1>6. CASE UNCHANGED vars
  BY <1>6 DEF vars, ActiveInv
<1> QED
  BY <1>2, <1>3, <1>4, <1>5, <1>6 DEF Next

\* With a primary and possibly a donate pool only, an active pool that is not
\* connected is always about to be connected again.
THEOREM ActiveIsNotAbandoned ==
    ASSUME NoBackups
    PROVE  Spec => []ActiveNotAbandoned
<1>1. ActiveInv => ActiveNotAbandoned
  BY DEF ActiveInv, ActiveNotAbandoned, HasTimer, Pending
<1>2. TypeOK /\ ConnInv /\ ActiveInv /\ [Next]_vars => ActiveInv'
  BY NextActive
<1> QED
  BY <1>1, <1>2, InitType, NextType, InitConn, NextConn, InitActive, PTL DEF Spec
=============================================================================
