---------------------------- MODULE MasterProofs ----------------------------
(***************************************************************************)
(* Proofs about Master, for any algorithms, numbers of threads, jobs and   *)
(* faults: the workers that the master lists are the newest ones, each has *)
(* work of one algorithm, the registers get their default values back, and *)
(* mining starts after the benchmarks.                                     *)
(***************************************************************************)
EXTENDS Master, FiniteSetTheorems, SequenceTheorems, WellFoundedInduction, TLAPS

----------------------------------------------------------------------------
(* What the functions of helper.js keep of the workers.                    *)

\* An alive worker of the newest call is listed, and only those are; an exit
\* event is one of a dead worker.
Newest(s) ==
    /\ s \in WorkersState
    /\ s.alive \cap s.exits = {}
    /\ \A v \in s.alive \cup s.exits : v.gen <= s.gen
    /\ \A v \in s.alive : v.gen = s.gen => v \in s.listed
    /\ \A v \in s.listed : v.gen = s.gen

LEMMA MessageNewest ==
  ASSUME NEW s, Newest(s), NEW m \in Msg
  PROVE  Newest(MessageWorkers(s, m)) /\ MessageWorkers(s, m).gen = s.gen
<1>. DEFINE box == [v \in Worker |-> IF v \in s.listed \cap s.alive
                                   THEN Append(s.inbox[v], m) ELSE s.inbox[v]]
            exp == IF m = Close THEN s.expected \cup s.listed ELSE s.expected
<1>1. box \in [Worker -> Seq(Msg)] /\ exp \in SUBSET Worker
  BY DEF Newest, WorkersState
<1>2. MessageWorkers(s, m) = [s EXCEPT !.inbox = box, !.expected = exp]
  BY DEF MessageWorkers
<1>. HIDE DEF box, exp
<1>. QED
  BY <1>1, <1>2 DEF Newest, WorkersState

LEMMA CloseNewest ==
  ASSUME NEW s, Newest(s), NEW forced \in BOOLEAN
  PROVE  Newest(CloseWorkers(s, forced)) /\ CloseWorkers(s, forced).gen = s.gen
<1>. DEFINE t == MessageWorkers(s, Close)
<1>1. Close \in Msg
  BY DEF Close, Msg, Types
<1>2. Newest(t) /\ t.gen = s.gen
  BY <1>1, MessageNewest
<1>3. s.listed \cap s.alive \in SUBSET Worker
  BY DEF Newest, WorkersState
<1>. QED
  BY <1>2, <1>3 DEF Newest, WorkersState, CloseWorkers

LEMMA RecreateNewest ==
  ASSUME NEW s, Newest(s), s.gen < MaxGen, NEW n \in 1 .. MaxThreads
  PROVE  Newest(Recreate(s, n))
<1>. DEFINE t == CloseWorkers(s, TRUE)
            new == {[gen |-> s.gen + 1, idx |-> i] : i \in 0 .. n - 1}
            all == t.alive \cup new
            gen == t.gen + 1
<1>1. Newest(t) /\ t.gen = s.gen
  BY CloseNewest
<1>2. s.gen \in 0 .. MaxGen
  BY DEF Newest, WorkersState
<1>3. new \subseteq Worker /\ \A v \in new : v.gen = s.gen + 1
  BY <1>2, WorkersAssumption DEF Worker
<1>4. Recreate(s, n) = [t EXCEPT !.gen = gen, !.alive = all, !.listed = new]
  BY Zenon DEF Recreate
<1>. HIDE DEF t, new
<1>5. gen \in 0 .. MaxGen /\ gen = s.gen + 1
  BY <1>1, <1>2, WorkersAssumption
<1>8. all \in SUBSET Worker /\ all = t.alive \cup new
  BY <1>1, <1>3 DEF Newest, WorkersState
<1>. HIDE DEF gen, all
<1>6. Recreate(s, n) \in WorkersState
  <2>1. t \in WorkersState /\ new \in SUBSET Worker
    BY <1>1, <1>3 DEF Newest
  <2>. QED
    BY <1>4, <1>5, <1>8, <2>1 DEF WorkersState
<1>7. \A v \in t.alive \cup t.exits : v.gen <= s.gen /\ v.gen \in Nat
  BY <1>1, <1>2 DEF Newest, WorkersState, Worker
<1>. QED
  BY <1>1, <1>2, <1>3, <1>4, <1>5, <1>6, <1>7, <1>8 DEF Newest, WorkersState

LEMMA ExitedNewest ==
  ASSUME NEW s, Newest(s), NEW v \in s.exits, NEW b \in BOOLEAN
  PROVE  Newest(Exited(s, v, b))
  BY DEF Newest, WorkersState, Exited

LEMMA KillNewest ==
  ASSUME NEW s, Newest(s), NEW targets \in s.killers
  PROVE  Newest(Kill(s, targets))
  BY DEF Newest, WorkersState, Kill

LEMMA TakeNewest ==
  ASSUME NEW s, Newest(s), NEW v \in Worker, CanTake(s, v)
  PROVE  Newest(Take(s, v))
<1>1. v \in s.alive /\ s.inbox[v] \in Seq(Msg) /\ s.inbox[v] # <<>>
  BY DEF CanTake, Newest, WorkersState
<1>2. Head(s.inbox[v]) \in Msg /\ Tail(s.inbox[v]) \in Seq(Msg)
  BY <1>1
<1>3. Head(s.inbox[v]).algo \in Algos \cup {NoAlgo}
  BY <1>2 DEF Msg
<1>. QED
  BY <1>1, <1>2, <1>3 DEF Newest, WorkersState, Take

LEMMA FailNewest ==
  ASSUME NEW s, Newest(s), NEW v \in s.alive
  PROVE  Newest(Crash(s, v)) /\ Newest(Hang(s, v))
<1>1. Newest(Crash(s, v))
  BY DEF Newest, WorkersState, Crash
<1>2. Newest(Hang(s, v))
  BY DEF Newest, WorkersState, Hang
<1>. QED
  BY <1>1, <1>2

----------------------------------------------------------------------------
(* Types.                                                                  *)

BenchSet == [n : 1 .. MaxGen, algo : Algos, left : Seq(Algos)]

\* The parts of the type invariant; Newest says what ws is.
EnvOK   == directive \in Directives /\ tuning \in Tunings /\ subprocess \in BOOLEAN
CoreOK  == /\ core \in BOOLEAN /\ known \in BOOLEAN /\ msr \in {"default", "tuned"}
           /\ coreIn \in Seq(CoreMsg) /\ coreOut \in Seq(CoreEvent)
BenchOK == /\ timeouts \in SUBSET BenchSet /\ cb \in timeouts \cup {NoBench}
           /\ measured \in SUBSET Algos /\ rates \in SUBSET (0 .. MaxThreads - 1)
           /\ last \in Algos \cup {NoAlgo} /\ starts \in Nat
RestOK  == /\ answered \in SUBSET Worker /\ jobs \in 0 .. MaxJobs /\ faults \in 0 .. MaxFaults
           /\ master \in {"up", "grace", "ended", "forced"}
TypesInv == EnvOK /\ CoreOK /\ BenchOK /\ RestOK /\ Newest(ws)

LEMMA TypesParts == TypesInv => TypeOK
  BY DEF TypesInv, TypeOK, EnvOK, CoreOK, BenchOK, BenchSet, RestOK, Newest

LEMMA LeastIndex ==
  ASSUME NEW T, T \subseteq Nat, T # {}
  PROVE  \E i \in T : \A j \in T : i <= j
<1>1. PICK x \in T : \A y \in T : ~ (<<y, x>> \in OpToRel(<, Nat))
  BY NatLessThanWellFounded, WFMin
<1>2. \A y \in T : ~ (y < x)
  BY <1>1 DEF OpToRel
<1>. QED
  BY <1>2

LEMMA SkipTypes ==
  ASSUME NEW left \in Seq(Algos), NEW done
  PROVE  Skip(left, done) \in Seq(Algos)
<1>. DEFINE todo == {i \in DOMAIN left : left[i] \notin done}
<1>1. CASE todo = {}
  BY <1>1 DEF Skip
<1>2. CASE todo # {}
  <2>. DEFINE i == CHOOSE i \in todo : \A j \in todo : i <= j
  <2>1. todo \subseteq Nat
    OBVIOUS
  <2>2. i \in todo
    BY <1>2, <2>1, LeastIndex
  <2>3. Skip(left, done) = SubSeq(left, i, Len(left))
    BY <1>2 DEF Skip
  <2>. HIDE DEF i
  <2>. QED
    BY <2>2, <2>3
<1>. QED
  BY <1>1, <1>2

LEMMA AlgoMessages ==
  /\ Close \in Msg
  /\ \A a \in Algos, t \in Types : Work(t, a) \in Msg
  /\ \A a \in Algos \cup {NoAlgo} : WriteFor(a) \in CoreMsg
  /\ Plain("close") \in CoreMsg /\ Plain("read_msr") \in CoreMsg
  /\ Plain("algo_params") \in CoreMsg
  BY DEF Close, Msg, Types, Work, WriteFor, CoreMsg, Plain

LEMMA SetAlgoMsrTypes ==
  ASSUME NEW ci \in Seq(CoreMsg), NEW a \in Algos, NEW k \in BOOLEAN
  PROVE  SetAlgoMsr(ci, a, k) \in Seq(CoreMsg)
  BY AlgoMessages DEF SetAlgoMsr

\* What the next step of a chain of benchmarks does to the workers and types.
LEMMA NextBenchTypes ==
  ASSUME Newest(ws), BenchOK, rates' \in SUBSET (0 .. MaxThreads - 1),
         NEW left \in Seq(Algos), NEW done \in SUBSET Algos,
         NEW ts \in SUBSET BenchSet, NEW ci \in Seq(CoreMsg), NEW k \in BOOLEAN,
         NextBench(left, done, ts, ci, k)
  PROVE  Newest(ws') /\ BenchOK' /\ coreIn' \in Seq(CoreMsg)
<1>. DEFINE todo == Skip(left, done)
            a    == Head(todo)
            b    == Bench(ws.gen + 1, a, Tail(todo))
<1>1. todo \in Seq(Algos)
  BY SkipTypes
<1>2. CASE todo = <<>>
  BY <1>2 DEF NextBench, BenchOK
<1>3. CASE todo # <<>>
  <2>1. a \in Algos /\ Tail(todo) \in Seq(Algos)
    BY <1>1, <1>3
  <2>2. /\ ws.gen < MaxGen
        /\ ws' = MessageWorkers(Recreate(ws, Threads[a]), Work("bench", a))
        /\ timeouts' = ts \cup {b} /\ cb' = b /\ last' = a /\ measured' = done
        /\ coreIn' = SetAlgoMsr(ci, a, k) /\ starts' = starts
    BY <1>3, Zenon DEF NextBench
  <2>3. Newest(Recreate(ws, Threads[a])) /\ Threads[a] \in 1 .. MaxThreads
    BY <2>1, <2>2, RecreateNewest, WorkersAssumption
  <2>4. Work("bench", a) \in Msg
    BY <2>1, AlgoMessages DEF Types
  <2>5. Newest(ws')
    BY <2>2, <2>3, <2>4, MessageNewest
  <2>6. ws.gen + 1 \in 1 .. MaxGen
    BY <2>2, WorkersAssumption DEF Newest, WorkersState
  <2>7. b \in BenchSet
    BY <2>1, <2>6 DEF BenchSet, Bench
  <2>8. coreIn' \in Seq(CoreMsg)
    BY <2>1, <2>2, SetAlgoMsrTypes
  <2>. HIDE DEF b, a
  <2>. QED
    BY <2>1, <2>2, <2>5, <2>7, <2>8 DEF BenchOK
<1>. QED
  BY <1>2, <1>3

LEMMA ExitTypes ==
  ASSUME Newest(ws), coreIn \in Seq(CoreMsg), NEW s, Newest(s), NEW force \in BOOLEAN,
         ExitCalls(s, force)
  PROVE  Newest(ws') /\ coreIn' \in Seq(CoreMsg) /\ core' \in BOOLEAN
<1>1. Newest(ws')
  BY CloseNewest DEF ExitCalls
<1>2. coreIn' \in Seq(CoreMsg) /\ core' \in BOOLEAN
  <2>. DEFINE first == IF known THEN Append(coreIn, WriteFor(NoAlgo)) ELSE coreIn
  <2>1. WriteFor(NoAlgo) \in CoreMsg /\ <<Plain("close")>> \in Seq(CoreMsg)
    BY AlgoMessages
  <2>2. first \in Seq(CoreMsg)
    BY <2>1
  <2>3. coreIn' = (IF ~ core THEN coreIn ELSE first \o <<Plain("close")>>) /\ core' = FALSE
    BY Zenon DEF ExitCalls
  <2>. HIDE DEF first
  <2>. QED
    BY <2>1, <2>2, <2>3, ConcatProperties
<1>. QED
  BY <1>1, <1>2

LEMMA NoWorkersNewest == Newest(NoWorkers)
<1>1. [v \in Worker |-> <<>>] \in [Worker -> Seq(Msg)]
  OBVIOUS
<1>2. [v \in Worker |-> NoAlgo] \in [Worker -> Algos \cup {NoAlgo}]
  OBVIOUS
<1>. QED
  BY <1>1, <1>2, WorkersAssumption DEF Newest, NoWorkers, WorkersState

LEMMA InitTypes == Init => TypesInv
<1>. SUFFICES ASSUME Init PROVE TypesInv
  OBVIOUS
<1>. DEFINE new == Recreate(NoWorkers, Threads[JobAlgo])
<1>1. Newest(new)
  <2>1. NoWorkers.gen < MaxGen
    BY WorkersAssumption DEF NoWorkers
  <2>2. Threads[JobAlgo] \in 1 .. MaxThreads
    BY WorkersAssumption, MasterAssumption
  <2>. QED
    BY <2>1, <2>2, NoWorkersNewest, RecreateNewest
<1>2. \A t \in Types : Newest(MessageWorkers(new, Work(t, JobAlgo)))
  BY <1>1, MessageNewest, AlgoMessages, MasterAssumption
<1>. HIDE DEF new
<1>3. Newest(ws)
  BY <1>1, <1>2, NoWorkersNewest DEF Init, new, Types
<1>4. coreIn \in Seq(CoreMsg) /\ coreOut \in Seq(CoreEvent)
  BY AlgoMessages DEF Init
<1>5. measured \subseteq Algos
  <2>1. {Order[i] : i \in DOMAIN Order} \subseteq Algos
    BY MasterAssumption
  <2>. QED
    BY <2>1 DEF Init
<1>6. directive \in Directives /\ tuning \in Tunings /\ subprocess \in BOOLEAN /\ core \in BOOLEAN
  BY DEF Init
<1>7. last \in Algos \cup {NoAlgo} /\ msr \in {"default", "tuned"} /\ known \in BOOLEAN
  BY MasterAssumption DEF Init
<1>. QED
  BY <1>3, <1>4, <1>5, <1>6, <1>7, MasterAssumption
     DEF Init, TypesInv, EnvOK, CoreOK, BenchOK, RestOK

LEMMA EventTypes ==
  ASSUME CoreOK, NEW t, Event(t)
  PROVE  /\ coreOut' \in Seq(CoreEvent) /\ UNCHANGED <<env, msr, rates, rest>>
         /\ EnvOK => EnvOK'
  BY DEF CoreOK, Event, env, EnvOK

LEMMA BenchNewest == Newest(ws) => Newest(MessageWorkers(ws, Work("bench", JobAlgo)))
  BY MessageNewest, AlgoMessages, MasterAssumption DEF Types

LEMMA EventSteps ==
  ASSUME TypesInv, Events
  PROVE  TypesInv'
<1>. USE DEF TypesInv, EnvOK, CoreOK, BenchOK, RestOK, rest
<1>2. CASE AlgoParamsEvent
  <2>1. coreOut' \in Seq(CoreEvent) /\ UNCHANGED <<msr, rates, rest>> /\ EnvOK'
    BY <1>2, EventTypes DEF AlgoParamsEvent
  <2>2. CASE directive = "algo_params"
    <3>1. ExitNow(ws) /\ UNCHANGED <<known, measured, cb, timeouts, last, starts>>
      BY <1>2, <2>2 DEF AlgoParamsEvent
    <3>2. Newest(ws') /\ coreIn' \in Seq(CoreMsg) /\ core' \in BOOLEAN /\ master' = "ended"
      BY <3>1, ExitTypes DEF ExitNow
    <3>. QED
      BY <2>1, <3>1, <3>2
  <2>3. CASE directive = "mine" /\ tuning # "off"
    <3>1. /\ coreIn' = Append(coreIn, Plain("read_msr")) \/ coreIn' = coreIn
          /\ UNCHANGED <<ws, core, known, measured, cb, timeouts, last, starts>>
          /\ master' \in {master, "forced"}
      BY <1>2, <2>3 DEF AlgoParamsEvent
    <3>2. coreIn' \in Seq(CoreMsg)
      BY <3>1, AlgoMessages
    <3>. QED
      BY <2>1, <3>1, <3>2
  <2>4. CASE directive = "mine" /\ tuning = "off"
    <3>1. NextBench(Order, measured, timeouts, coreIn, FALSE) /\ UNCHANGED <<core, known, master>>
      BY <1>2, <2>4 DEF AlgoParamsEvent
    <3>2. Newest(ws') /\ BenchOK' /\ coreIn' \in Seq(CoreMsg)
      BY <2>1, <3>1, NextBenchTypes, MasterAssumption
    <3>. QED
      BY <2>1, <3>1, <3>2
  <2>. QED
    BY <1>2, <2>2, <2>3, <2>4 DEF AlgoParamsEvent
<1>3. CASE ReadEvent
  <2>1. coreOut' \in Seq(CoreEvent) /\ UNCHANGED <<msr, rates, rest>> /\ EnvOK'
    BY <1>3, EventTypes DEF ReadEvent
  <2>2. CASE directive = "mine"
    <3>1. NextBench(Order, measured, timeouts, coreIn, TRUE)
      BY <1>3, <2>2 DEF ReadEvent
    <3>2. Newest(ws') /\ BenchOK' /\ coreIn' \in Seq(CoreMsg)
      BY <2>1, <3>1, NextBenchTypes, MasterAssumption
    <3>. QED
      BY <1>3, <2>1, <3>2 DEF ReadEvent
  <2>3. CASE directive = "bench"
    <3>1. /\ coreIn' = SetAlgoMsr(coreIn, JobAlgo, TRUE) /\ last' = JobAlgo
          /\ ws' = MessageWorkers(ws, Work("bench", JobAlgo))
          /\ UNCHANGED <<measured, cb, timeouts, starts>>
      BY <1>3, <2>3 DEF ReadEvent
    <3>2. coreIn' \in Seq(CoreMsg)
      BY <3>1, SetAlgoMsrTypes, MasterAssumption
    <3>3. Newest(ws')
      BY <3>1, BenchNewest
    <3>. QED
      BY <1>3, <2>1, <3>1, <3>2, <3>3, MasterAssumption DEF ReadEvent
  <2>. QED
    BY <1>3, <2>2, <2>3 DEF ReadEvent
<1>4. CASE ErrorEvent
  <2>1. coreOut' \in Seq(CoreEvent) /\ UNCHANGED <<msr, rates, rest>> /\ EnvOK'
    BY <1>4, EventTypes DEF ErrorEvent
  <2>2. CASE directive = "mine"
    <3>1. NextBench(Order, measured, timeouts, coreIn, FALSE) /\ known' = FALSE
      BY <1>4, <2>2 DEF ErrorEvent
    <3>2. Newest(ws') /\ BenchOK' /\ coreIn' \in Seq(CoreMsg)
      BY <2>1, <3>1, NextBenchTypes, MasterAssumption
    <3>. QED
      BY <1>4, <2>1, <3>1, <3>2 DEF ErrorEvent
  <2>3. CASE directive = "bench"
    <3>1. /\ ws' = MessageWorkers(ws, Work("bench", JobAlgo)) /\ last' = JobAlgo
          /\ UNCHANGED <<known, coreIn, measured, cb, timeouts, starts>>
      BY <1>4, <2>3 DEF ErrorEvent
    <3>2. Newest(ws')
      BY <3>1, BenchNewest
    <3>. QED
      BY <1>4, <2>1, <3>1, <3>2, MasterAssumption DEF ErrorEvent
  <2>. QED
    BY <1>4, <2>2, <2>3 DEF ErrorEvent
<1>5. CASE CloseEvent
  <2>1. coreOut' \in Seq(CoreEvent) /\ UNCHANGED <<msr, rates, rest>> /\ EnvOK'
    BY <1>5, EventTypes DEF CloseEvent
  <2>. QED
    BY <1>5, <2>1 DEF CloseEvent
<1>. QED
  BY <1>2, <1>3, <1>4, <1>5 DEF Events

LEMMA BenchSteps ==
  ASSUME TypesInv,
         \/ \E b \in timeouts : BenchTimeout(b)
         \/ \E v \in Worker : Hashrate(v)
  PROVE  TypesInv'
<1>. USE DEF TypesInv, EnvOK, CoreOK, RestOK, rest, env
<1>1. ASSUME NEW b \in timeouts, BenchTimeout(b) PROVE TypesInv'
  <2>1. b.left \in Seq(Algos) /\ b.algo \in Algos
    BY DEF BenchOK, BenchSet
  <2>2. /\ NextBench(b.left, measured \cup {b.algo}, timeouts \ {b}, coreIn, known)
        /\ UNCHANGED <<env, core, coreOut, known, msr, rates, rest, master>>
    BY <1>1 DEF BenchTimeout
  <2>3. measured \cup {b.algo} \in SUBSET Algos /\ timeouts \ {b} \in SUBSET BenchSet
    BY <2>1 DEF BenchOK
  <2>4. rates' \in SUBSET (0 .. MaxThreads - 1)
    BY <2>2 DEF BenchOK
  <2>5. Newest(ws') /\ BenchOK' /\ coreIn' \in Seq(CoreMsg)
    BY <2>1, <2>2, <2>3, <2>4, NextBenchTypes
  <2>. QED
    BY <2>2, <2>5
<1>2. ASSUME NEW v \in Worker, Hashrate(v) PROVE TypesInv'
  <2>1. rates' \in SUBSET (0 .. MaxThreads - 1) /\ UNCHANGED <<env, core, coreOut, known, msr, rest, master>>
    BY <1>2 DEF Hashrate, BenchOK, Worker
  <2>2. CASE UNCHANGED <<ws, coreIn, measured, cb, timeouts, last, starts>>
    BY <2>1, <2>2 DEF BenchOK
  <2>3. CASE ~ UNCHANGED <<ws, coreIn, measured, cb, timeouts, last, starts>>
    <3>1. cb # NoBench /\ NextBench(cb.left, measured \cup {cb.algo}, timeouts \ {cb}, coreIn, known)
      BY <1>2, <2>3 DEF Hashrate
    <3>2. cb.left \in Seq(Algos) /\ cb.algo \in Algos
      BY <3>1 DEF BenchOK, BenchSet
    <3>3. measured \cup {cb.algo} \in SUBSET Algos /\ timeouts \ {cb} \in SUBSET BenchSet
      BY <3>2 DEF BenchOK
    <3>4. Newest(ws') /\ BenchOK' /\ coreIn' \in Seq(CoreMsg)
      BY <2>1, <3>1, <3>2, <3>3, NextBenchTypes
    <3>. QED
      BY <2>1, <3>4
  <2>. QED
    BY <2>2, <2>3
<1>. QED
  BY <1>1, <1>2

LEMMA ExitSteps ==
  ASSUME TypesInv, Signal \/ ExitTimer \/ (\E v \in Worker : TestAnswer(v) \/ WorkerExits(v))
  PROVE  TypesInv'
<1>. USE DEF TypesInv, EnvOK, CoreOK, RestOK, rest, env, msrVars, benches
<1>0. UNCHANGED benches => BenchOK'
  BY DEF BenchOK
<1>1. CASE Signal
  <2>1. /\ UNCHANGED <<env, coreOut, known, msr, benches, rest>>
        /\ ExitCalls(ws, TRUE) \/ UNCHANGED <<ws, core, coreIn>>
        /\ master' \in {"grace", "forced"}
    BY <1>1 DEF Signal
  <2>2. Newest(ws') /\ coreIn' \in Seq(CoreMsg) /\ core' \in BOOLEAN
    BY <2>1, ExitTypes
  <2>. QED
    BY <1>0, <2>1, <2>2
<1>2. CASE ExitTimer
  BY <1>0, <1>2 DEF ExitTimer
<1>3. ASSUME NEW v \in Worker, TestAnswer(v) PROVE TypesInv'
  <2>1. /\ UNCHANGED <<env, coreOut, known, msr, benches, jobs, faults>>
        /\ answered' \in SUBSET Worker
        /\ ExitNow(ws) \/ UNCHANGED <<ws, core, coreIn, master>>
    BY <1>3 DEF TestAnswer
  <2>2. Newest(ws') /\ coreIn' \in Seq(CoreMsg) /\ core' \in BOOLEAN /\ master' \in {master, "ended"}
    BY <2>1, ExitTypes DEF ExitNow
  <2>. QED
    BY <1>0, <2>1, <2>2
<1>4. ASSUME NEW v \in Worker, WorkerExits(v) PROVE TypesInv'
  <2>. DEFINE s == Exited(ws, v, subprocess)
  <2>1. Newest(s)
    BY <1>4, ExitedNewest DEF WorkerExits
  <2>. HIDE DEF s
  <2>2. /\ UNCHANGED <<env, coreOut, known, msr, benches, rest>>
        /\ ExitNow(s) \/ (ws' = s /\ UNCHANGED <<core, coreIn, master>>)
    BY <1>4 DEF WorkerExits, s
  <2>3. Newest(ws') /\ coreIn' \in Seq(CoreMsg) /\ core' \in BOOLEAN /\ master' \in {master, "ended"}
    BY <2>1, <2>2, ExitTypes DEF ExitNow
  <2>. QED
    BY <1>0, <2>2, <2>3
<1>. QED
  BY <1>1, <1>2, <1>3, <1>4

LEMMA CoreStep ==
  ASSUME TypesInv, CoreTakes
  PROVE  TypesInv'
<1>. USE DEF TypesInv, CoreOK
<1>1. Head(coreIn) \in CoreMsg /\ Tail(coreIn) \in Seq(CoreMsg)
  BY DEF CoreTakes
<1>2. coreIn' \in Seq(CoreMsg)
  BY <1>1 DEF CoreTakes
<1>3. coreOut' = coreOut \/ (\E t \in CoreEvent : coreOut' = Append(coreOut, t))
  BY DEF CoreTakes, CoreEvent
<1>4. coreOut' \in Seq(CoreEvent)
  BY <1>3
<1>5. msr' \in {"default", "tuned"}
  BY DEF CoreTakes, TunedMsr
<1>6. UNCHANGED <<env, ws, core, known, benches, rest, master>>
  BY DEF CoreTakes
<1>. QED
  BY <1>2, <1>4, <1>5, <1>6 DEF EnvOK, BenchOK, RestOK, env, benches, rest

LEMMA JobStep ==
  ASSUME TypesInv, NEW i \in DOMAIN Order, PoolJob(Order[i])
  PROVE  TypesInv'
<1>. DEFINE a == Order[i]
            s == IF last = a THEN ws ELSE Recreate(ws, Threads[a])
<1>1. a \in Algos /\ Threads[a] \in 1 .. MaxThreads
  BY MasterAssumption, WorkersAssumption
<1>2. Newest(s)
  BY <1>1, RecreateNewest DEF PoolJob, TypesInv
<1>3. Work("job", a) \in Msg
  BY <1>1, AlgoMessages DEF Types
<1>4. /\ ws' = MessageWorkers(s, Work("job", a)) /\ coreIn' = SetAlgoMsr(coreIn, a, known)
      /\ last' = a /\ jobs' = jobs + 1 /\ jobs < MaxJobs
      /\ UNCHANGED <<env, core, coreOut, known, msr, measured, cb, timeouts, rates,
                     starts, answered, faults, master>>
  BY DEF PoolJob
<1>. HIDE DEF a, s
<1>5. Newest(ws')
  BY <1>2, <1>3, <1>4, MessageNewest
<1>6. coreIn' \in Seq(CoreMsg)
  BY <1>1, <1>4, SetAlgoMsrTypes DEF TypesInv, CoreOK
<1>. QED
  BY <1>1, <1>4, <1>5, <1>6, MasterAssumption DEF TypesInv, EnvOK, CoreOK, BenchOK, RestOK, env

LEMMA WorkerSteps ==
  ASSUME TypesInv,
         \/ \E v \in Worker : WorkerTakes(v) \/ WorkerFails(v)
         \/ \E targets \in ws.killers : KillTimer(targets)
  PROVE  TypesInv'
<1>1. UNCHANGED <<env, msrVars, benches, answered, jobs, master>> /\ faults' \in 0 .. MaxFaults
  BY MasterAssumption DEF WorkerTakes, WorkerFails, KillTimer, rest, TypesInv, RestOK
<1>2. Newest(ws')
  BY TakeNewest, FailNewest, KillNewest DEF WorkerTakes, WorkerFails, KillTimer, TypesInv
<1>. QED
  BY <1>1, <1>2 DEF TypesInv, EnvOK, CoreOK, BenchOK, RestOK, env, msrVars, benches

LEMMA NextTypes == TypesInv /\ [Next]_vars => TypesInv'
<1>. SUFFICES ASSUME TypesInv, [Next]_vars PROVE TypesInv'
  OBVIOUS
<1>1. CASE UNCHANGED vars
  BY <1>1 DEF vars, env, msrVars, benches, rest, TypesInv, EnvOK, CoreOK, BenchOK, RestOK
<1>2. CASE Next
  <2>1. CASE CoreTakes \/ Events
    BY <2>1, CoreStep, EventSteps
  <2>2. CASE Signal \/ ExitTimer
    BY <2>2, ExitSteps
  <2>3. CASE \E b \in timeouts : BenchTimeout(b)
    BY <2>3, BenchSteps
  <2>4. CASE \E i \in DOMAIN Order : PoolJob(Order[i])
    BY <2>4, JobStep
  <2>5. ASSUME NEW v \in Worker,
               Hashrate(v) \/ TestAnswer(v) \/ WorkerExits(v) \/ WorkerTakes(v) \/ WorkerFails(v)
        PROVE  TypesInv'
    BY <2>5, BenchSteps, ExitSteps, WorkerSteps
  <2>6. CASE \E targets \in ws.killers : KillTimer(targets)
    BY <2>6, WorkerSteps
  <2>. QED
    BY <1>2, <2>1, <2>2, <2>3, <2>4, <2>5, <2>6 DEF Next
<1>. QED
  BY <1>1, <1>2

\* The variables keep their types.
THEOREM TypesHold == Spec => []TypeOK
<1>1. Spec => []TypesInv
  BY InitTypes, NextTypes, PTL DEF Spec
<1>. QED
  BY <1>1, TypesParts, PTL

\* The master lists, and so messages, the running workers of its last call of
\* recreate_threads and no others.
THEOREM NewestStayListed == Spec => []NewestAreListed
<1>1. Spec => []TypesInv
  BY InitTypes, NextTypes, PTL DEF Spec
<1>2. TypesInv => NewestAreListed
  BY DEF TypesInv, Newest, NewestAreListed
<1>. QED
  BY <1>1, <1>2, PTL

----------------------------------------------------------------------------
(* The registers.                                                          *)

Has(q, t) == \E i \in DOMAIN q : q[i].type = t

LEMMA HasAppend ==
  ASSUME NEW q \in Seq(CoreMsg), NEW m \in CoreMsg, NEW t
  PROVE  Has(Append(q, m), t) <=> Has(q, t) \/ m.type = t
<1>. DEFINE r == Append(q, m)
<1>1. /\ DOMAIN r = 1 .. Len(q) + 1 /\ DOMAIN q = 1 .. Len(q) /\ Len(q) \in Nat
      /\ \A i \in 1 .. Len(q) : r[i] = q[i]
      /\ r[Len(q) + 1] = m
  OBVIOUS
<1>. HIDE DEF r
<1>. QED
  BY <1>1 DEF Has, r

LEMMA HasTail ==
  ASSUME NEW q \in Seq(CoreMsg), q # <<>>, NEW t, Has(Tail(q), t)
  PROVE  Has(q, t)
<1>1. PICK i \in DOMAIN Tail(q) : Tail(q)[i].type = t
  BY DEF Has
<1>2. i + 1 \in DOMAIN q /\ q[i + 1] = Tail(q)[i]
  BY <1>1
<1>. QED
  BY <1>1, <1>2 DEF Has

\* What exit() sends to the core.
Goodbye == Append(IF known THEN Append(coreIn, WriteFor(NoAlgo)) ELSE coreIn, Plain("close"))

LEMMA GoodbyeSent ==
  ASSUME CoreOK, core, NEW s, NEW force, ExitCalls(s, force)
  PROVE  coreIn' = Goodbye
<1>. DEFINE first == IF known THEN Append(coreIn, WriteFor(NoAlgo)) ELSE coreIn
<1>1. first \in Seq(CoreMsg) /\ Plain("close") \in CoreMsg
  BY AlgoMessages DEF CoreOK
<1>2. coreIn' = first \o <<Plain("close")>>
  BY Zenon DEF ExitCalls
<1>. HIDE DEF first
<1>3. coreIn' = Append(first, Plain("close"))
  BY <1>1, <1>2, AppendIsConcat
<1>. QED
  BY <1>3 DEF Goodbye, first

\* The last messages put the registers back, or nothing ever changed them.
Restores ==
    \/ msr = "default" /\ ~ Has(coreIn, "write_msr")
    \/ /\ Len(coreIn) >= 2 /\ coreIn[Len(coreIn) - 1] = WriteFor(NoAlgo)
       /\ coreIn[Len(coreIn)] = Plain("close")
       /\ \A i \in 1 .. Len(coreIn) - 1 : coreIn[i].type # "close"

\* Once the core is told to close, its queue ends with the write that restores.
RwInv ==
    /\ directive \notin {"mine", "bench"} =>
         ~ known /\ ~ Has(coreIn, "read_msr") /\ \A i \in DOMAIN coreOut : coreOut[i] # "read_msr"
    /\ ~ known => msr = "default" /\ ~ Has(coreIn, "write_msr")
    /\ core => ~ Has(coreIn, "close")
    /\ ~ core => Restores
    /\ \A i \in DOMAIN coreOut : coreOut[i] # "error"
    /\ master = "ended" => msr = "default"
    /\ master = "grace" => ~ core
MsrInv == tuning = "rw" => RwInv

LEMMA InitMsr == Init => MsrInv
<1>. SUFFICES ASSUME Init, tuning = "rw" PROVE RwInv
  BY DEF MsrInv
<1>1. coreOut = <<>> /\ ~ known /\ msr = "default" /\ master = "up"
  BY DEF Init
<1>2. \A t \in {"write_msr", "close"} : ~ Has(coreIn, t)
  BY DEF Init, Has, Plain
<1>3. directive \notin {"mine", "bench"} => ~ Has(coreIn, "read_msr")
  BY DEF Init, Has, Plain
<1>. QED
  BY <1>1, <1>2, <1>3 DEF RwInv, Restores

LEMMA CoreMsr ==
  ASSUME TypesInv, RwInv, tuning = "rw", CoreTakes
  PROVE  RwInv'
<1>. DEFINE m == Head(coreIn)
<1>0. coreIn # <<>> /\ coreIn \in Seq(CoreMsg) /\ coreOut \in Seq(CoreEvent) /\ m \in CoreMsg
  BY DEF CoreTakes, TypesInv, CoreOK
<1>1. /\ coreIn' = IF m.type = "close" THEN <<>> ELSE Tail(coreIn)
      /\ UNCHANGED <<directive, core, known, master>>
  BY DEF CoreTakes, env
<1>2. \A t : Has(coreIn', t) => Has(coreIn, t)
  BY <1>0, <1>1, HasTail DEF Has
<1>3. \/ m.type # "write_msr" /\ msr' = msr /\ coreOut' = Append(coreOut, m.type)
      \/ m.type = "write_msr" /\ msr' = TunedMsr(m.algo) /\ coreOut' = coreOut
  BY <1>0 DEF CoreTakes, CoreMsg
<1>4. Has(coreIn, m.type)
  BY <1>0 DEF Has
<1>5. m.type # "error" /\ m.type \in CoreEvent \cup {"write_msr"}
  BY <1>0 DEF CoreMsg, CoreEvent
<1>6. ASSUME NEW t, \A i \in DOMAIN coreOut : coreOut[i] # t, m.type # t
      PROVE  \A i \in DOMAIN coreOut' : coreOut'[i] # t
  BY <1>0, <1>3, <1>5, <1>6
<1>7. ~ core => Restores'
  <2>. SUFFICES ASSUME ~ core PROVE Restores'
    OBVIOUS
  <2>1. CASE msr = "default" /\ ~ Has(coreIn, "write_msr")
    BY <1>2, <1>3, <1>4, <2>1 DEF Restores
  <2>2. CASE /\ Len(coreIn) >= 2 /\ coreIn[Len(coreIn) - 1] = WriteFor(NoAlgo)
             /\ coreIn[Len(coreIn)] = Plain("close")
             /\ \A i \in 1 .. Len(coreIn) - 1 : coreIn[i].type # "close"
    <3>1. m.type # "close" /\ coreIn' = Tail(coreIn) /\ m = coreIn[1]
      BY <1>0, <1>1, <2>2
    <3>2. /\ Len(coreIn') = Len(coreIn) - 1 /\ Len(coreIn) \in Nat
          /\ \A i \in 1 .. Len(coreIn) - 1 : coreIn'[i] = coreIn[i + 1]
      BY <1>0, <3>1
    <3>3. CASE Len(coreIn) = 2
      <4>1. m = WriteFor(NoAlgo) /\ \A i \in DOMAIN coreIn' : coreIn'[i] = Plain("close")
        BY <1>0, <2>2, <3>1, <3>2, <3>3
      <4>2. msr' = "default"
        BY <1>3, <4>1 DEF WriteFor, TunedMsr
      <4>3. ~ Has(coreIn', "write_msr")
        BY <4>1 DEF Has, Plain
      <4>. QED
        BY <4>2, <4>3 DEF Restores
    <3>4. CASE Len(coreIn) > 2
      BY <1>0, <2>2, <3>1, <3>2, <3>4 DEF Restores
    <3>. QED
      BY <2>2, <3>2, <3>3, <3>4
  <2>. QED
    BY <2>1, <2>2 DEF RwInv, Restores
<1>8. master # "ended"
  BY DEF CoreTakes, Running
<1>9. \A i \in DOMAIN coreOut' : coreOut'[i] # "error"
  BY <1>5, <1>6 DEF RwInv
<1>10. directive \notin {"mine", "bench"} => \A i \in DOMAIN coreOut' : coreOut'[i] # "read_msr"
  BY <1>4, <1>6 DEF RwInv
<1>. QED
  BY <1>1, <1>2, <1>3, <1>4, <1>7, <1>8, <1>9, <1>10 DEF RwInv

\* What a step that is not one of the core sends to it.
Writes(k) ==
    \/ coreIn' = coreIn
    \/ k /\ core /\ \E a \in Algos : coreIn' = Append(coreIn, WriteFor(a))

LEMMA NextBenchWrites ==
  ASSUME TypesInv, NEW left \in Seq(Algos), NEW done, NEW ts, NEW k \in BOOLEAN,
         NextBench(left, done, ts, coreIn, k)
  PROVE  Writes(k)
<1>. DEFINE todo == Skip(left, done)
<1>1. todo \in Seq(Algos)
  BY SkipTypes
<1>2. CASE todo = <<>>
  BY <1>2 DEF NextBench, Writes
<1>3. CASE todo # <<>>
  <2>1. Head(todo) \in Algos
    BY <1>1, <1>3
  <2>2. coreIn' = SetAlgoMsr(coreIn, Head(todo), k)
    BY <1>3, Zenon DEF NextBench
  <2>. HIDE DEF todo
  <2>. QED
    BY <2>1, <2>2 DEF SetAlgoMsr, Writes
<1>. QED
  BY <1>2, <1>3

LEMMA WritesMsr ==
  ASSUME TypesInv, RwInv, Writes(known'), UNCHANGED <<directive, core, msr>>,
         known => known', known' => known \/ directive \in {"mine", "bench"},
         \A t \in {"error", "read_msr"} :
            (\A i \in DOMAIN coreOut : coreOut[i] # t) => \A i \in DOMAIN coreOut' : coreOut'[i] # t,
         master' \in {master, "forced"}
  PROVE  RwInv'
<1>1. CASE coreIn' = coreIn
  BY <1>1 DEF RwInv, Restores
<1>2. ASSUME known', core, NEW a \in Algos, coreIn' = Append(coreIn, WriteFor(a))
      PROVE  RwInv'
  <2>1. coreIn \in Seq(CoreMsg) /\ WriteFor(a) \in CoreMsg /\ WriteFor(a).type = "write_msr"
    BY AlgoMessages DEF TypesInv, CoreOK, WriteFor
  <2>2. \A t \in {"read_msr", "close"} : Has(coreIn', t) <=> Has(coreIn, t)
    BY <1>2, <2>1, HasAppend
  <2>. QED
    BY <1>2, <2>2 DEF RwInv
<1>. QED
  BY <1>1, <1>2 DEF Writes

LEMMA ExitMsr ==
  ASSUME TypesInv, RwInv, UNCHANGED <<directive, known, msr>>,
         \A t \in {"error", "read_msr"} :
            (\A i \in DOMAIN coreOut : coreOut[i] # t) => \A i \in DOMAIN coreOut' : coreOut'[i] # t,
         NEW s, NEW force, ExitCalls(s, force),
         \/ master' = "grace"
         \/ master' = "ended" /\ directive \notin {"mine", "bench"}
  PROVE  RwInv'
<1>1. core' = FALSE
  BY DEF ExitCalls
<1>2. CASE ~ core
  <2>1. coreIn' = coreIn
    BY <1>2 DEF ExitCalls
  <2>. QED
    BY <1>1, <1>2, <2>1 DEF RwInv, Restores
<1>3. CASE core
  <2>. DEFINE first == IF known THEN Append(coreIn, WriteFor(NoAlgo)) ELSE coreIn
  <2>1. first \in Seq(CoreMsg) /\ Plain("close") \in CoreMsg /\ coreIn' = Append(first, Plain("close"))
    BY <1>3, GoodbyeSent, AlgoMessages DEF Goodbye, TypesInv, CoreOK
  <2>2. WriteFor(NoAlgo) \in CoreMsg /\ WriteFor(NoAlgo).type = "write_msr" /\ Plain("close").type = "close"
    BY AlgoMessages DEF WriteFor, Plain
  <2>3. ~ Has(first, "close") /\ (~ known => first = coreIn)
    BY <1>3, <2>2, HasAppend DEF RwInv, TypesInv, CoreOK
  <2>4. known => Len(first) >= 1 /\ Len(first) \in Nat /\ first[Len(first)] = WriteFor(NoAlgo)
    BY <2>2 DEF TypesInv, CoreOK
  <2>. HIDE DEF first
  <2>5. \A t : Has(coreIn', t) <=> Has(first, t) \/ t = "close"
    BY <2>1, <2>2, HasAppend
  <2>6. Restores'
    <3>1. CASE known
      <4>1. Len(coreIn') = Len(first) + 1 /\ coreIn'[Len(first) + 1] = Plain("close")
        BY <2>1
      <4>2. \A i \in 1 .. Len(first) : coreIn'[i] = first[i] /\ first[i].type # "close"
        BY <2>1, <2>3 DEF Has
      <4>. QED
        BY <2>4, <3>1, <4>1, <4>2 DEF Restores
    <3>2. CASE ~ known
      BY <2>3, <2>5, <3>2 DEF Restores, RwInv
    <3>. QED
      BY <3>1, <3>2
  <2>. QED
    BY <1>1, <2>3, <2>5, <2>6 DEF RwInv
<1>. QED
  BY <1>2, <1>3 DEF TypesInv, CoreOK

LEMMA NextMsr == TypesInv /\ MsrInv /\ [Next]_vars => MsrInv'
<1>. SUFFICES ASSUME TypesInv, RwInv, tuning = "rw", [Next]_vars PROVE RwInv'
  <2>1. TypesInv /\ [Next]_vars => UNCHANGED env
    BY DEF Next, vars, CoreTakes, Events, AlgoParamsEvent, ReadEvent, ErrorEvent, CloseEvent, Event,
           Signal, ExitTimer, BenchTimeout, PoolJob, Hashrate, TestAnswer, WorkerExits, WorkerTakes,
           WorkerFails, KillTimer
  <2>. QED
    BY <2>1 DEF MsrInv, env
<1>. USE DEF env, Running, Exiting
<1>1. CASE UNCHANGED vars
  BY <1>1, WritesMsr DEF vars, msrVars, Writes
<1>2. CASE CoreTakes
  BY <1>2, CoreMsr
<1>3. CASE Events
  <2>1. /\ UNCHANGED <<directive, msr>> /\ Running /\ coreOut # <<>> /\ coreOut' = Tail(coreOut)
        /\ coreOut \in Seq(CoreEvent)
    BY <1>3 DEF Events, AlgoParamsEvent, ReadEvent, ErrorEvent, CloseEvent, Event, TypesInv, CoreOK
  <2>2. ASSUME NEW t, \A i \in DOMAIN coreOut : coreOut[i] # t
        PROVE  /\ \A i \in DOMAIN coreOut' : coreOut'[i] # t
               /\ Head(coreOut) # t
    BY <2>1, <2>2
  <2>3. CASE AlgoParamsEvent
    <3>1. CASE directive = "algo_params"
      <4>1. ExitCalls(ws, FALSE) /\ master' = "ended" /\ known' = known
        BY <2>3, <3>1 DEF AlgoParamsEvent, ExitNow
      <4>. QED
        BY <2>1, <2>2, <3>1, <4>1, ExitMsr
    <3>2. CASE directive = "mine" /\ core
      <4>1. coreIn' = Append(coreIn, Plain("read_msr")) /\ UNCHANGED <<core, known, master>>
        BY <2>3, <3>2 DEF AlgoParamsEvent
      <4>2. /\ coreIn \in Seq(CoreMsg) /\ Plain("read_msr") \in CoreMsg
            /\ Plain("read_msr").type = "read_msr"
        BY AlgoMessages DEF TypesInv, CoreOK, Plain
      <4>3. \A t \in {"write_msr", "close"} : Has(coreIn', t) <=> Has(coreIn, t)
        BY <4>1, <4>2, HasAppend
      <4>. QED
        BY <2>1, <2>2, <3>2, <4>1, <4>3 DEF RwInv
    <3>3. CASE directive = "mine" /\ ~ core
      <4>1. UNCHANGED <<core, coreIn, known>> /\ master' = "forced"
        BY <2>3, <3>3 DEF AlgoParamsEvent
      <4>. QED
        BY <2>1, <2>2, <4>1, WritesMsr DEF Writes
    <3>. QED
      BY <2>3, <3>1, <3>2, <3>3 DEF AlgoParamsEvent, TypesInv, CoreOK
  <2>4. CASE ReadEvent
    <3>1. known' = TRUE /\ UNCHANGED <<core, master>> /\ directive \in {"mine", "bench"}
      BY <2>4 DEF ReadEvent
    <3>2. CASE directive = "mine"
      <4>1. NextBench(Order, measured, timeouts, coreIn, TRUE)
        BY <2>4, <3>2 DEF ReadEvent
      <4>2. Writes(known')
        BY <3>1, <4>1, NextBenchWrites, MasterAssumption
      <4>. QED
        BY <2>1, <2>2, <3>1, <4>2, WritesMsr
    <3>3. CASE directive = "bench"
      <4>1. coreIn' = SetAlgoMsr(coreIn, JobAlgo, TRUE)
        BY <2>4, <3>3 DEF ReadEvent
      <4>2. Writes(known')
        BY <3>1, <4>1, MasterAssumption DEF Writes, SetAlgoMsr
      <4>. QED
        BY <2>1, <2>2, <3>1, <4>2, WritesMsr
    <3>. QED
      BY <3>1, <3>2, <3>3
  <2>5. ~ ErrorEvent
    <3>1. Head(coreOut) # "error"
      BY <2>2 DEF RwInv
    <3>. QED
      BY <3>1 DEF ErrorEvent, Event
  <2>6. CASE CloseEvent
    <3>1. UNCHANGED <<core, coreIn, known, master>>
      BY <2>6 DEF CloseEvent
    <3>. QED
      BY <2>1, <2>2, <3>1, WritesMsr DEF Writes
  <2>. QED
    BY <1>3, <2>3, <2>4, <2>5, <2>6 DEF Events
<1>4. CASE Signal
  <2>1. CASE ~ Exiting
    BY <1>4, <2>1, ExitMsr DEF Signal
  <2>2. CASE Exiting
    BY <1>4, <2>2, WritesMsr DEF Signal, Writes
  <2>. QED
    BY <2>1, <2>2
<1>5. CASE ExitTimer
  <2>1. UNCHANGED msrVars /\ coreIn = <<>> /\ master = "grace" /\ master' = "ended" /\ UNCHANGED directive
    BY <1>5 DEF ExitTimer
  <2>2. msr = "default"
    BY <2>1 DEF RwInv, Restores
  <2>. QED
    BY <2>1, <2>2 DEF RwInv, Restores, msrVars
<1>6. ASSUME NEW b \in timeouts, BenchTimeout(b) PROVE RwInv'
  <2>1. b.left \in Seq(Algos) /\ known \in BOOLEAN
    BY DEF TypesInv, BenchOK, BenchSet, CoreOK
  <2>2. UNCHANGED <<directive, core, coreOut, known, msr, master>> /\ Writes(known)
    BY <1>6, <2>1, NextBenchWrites DEF BenchTimeout
  <2>. QED
    BY <2>2, WritesMsr
<1>7. ASSUME NEW i \in DOMAIN Order, PoolJob(Order[i]) PROVE RwInv'
  <2>1. UNCHANGED <<directive, core, coreOut, known, msr, master>> /\ Order[i] \in Algos
        /\ coreIn' = SetAlgoMsr(coreIn, Order[i], known)
    BY <1>7, MasterAssumption DEF PoolJob
  <2>2. Writes(known)
    BY <2>1 DEF Writes, SetAlgoMsr
  <2>. QED
    BY <2>1, <2>2, WritesMsr
<1>8. ASSUME NEW v \in Worker, Hashrate(v) PROVE RwInv'
  <2>1. UNCHANGED <<directive, core, coreOut, known, msr, master>>
    BY <1>8 DEF Hashrate
  <2>2. Writes(known)
    <3>1. CASE coreIn' = coreIn
      BY <3>1 DEF Writes
    <3>2. CASE coreIn' # coreIn
      <4>1. cb # NoBench /\ NextBench(cb.left, measured \cup {cb.algo}, timeouts \ {cb}, coreIn, known)
        BY <1>8, <3>2 DEF Hashrate
      <4>2. cb.left \in Seq(Algos) /\ known \in BOOLEAN
        BY <4>1 DEF TypesInv, BenchOK, BenchSet, CoreOK
      <4>. QED
        BY <4>1, <4>2, NextBenchWrites
    <3>. QED
      BY <3>1, <3>2
  <2>. QED
    BY <2>1, <2>2, WritesMsr
<1>9. ASSUME NEW v \in Worker, TestAnswer(v) \/ WorkerExits(v) PROVE RwInv'
  <2>1. UNCHANGED <<directive, coreOut, known, msr>>
    BY <1>9 DEF TestAnswer, WorkerExits, benches
  <2>2. \/ UNCHANGED <<core, coreIn, master>>
        \/ /\ directive = "test" /\ master' = "ended"
           /\ ExitCalls(ws, FALSE) \/ ExitCalls(Exited(ws, v, subprocess), FALSE)
    BY <1>9 DEF TestAnswer, WorkerExits, ExitNow
  <2>3. CASE UNCHANGED <<core, coreIn, master>>
    BY <2>1, <2>3, WritesMsr DEF Writes
  <2>4. CASE ~ UNCHANGED <<core, coreIn, master>>
    BY <2>1, <2>2, <2>4, ExitMsr
  <2>. QED
    BY <2>3, <2>4
<1>10. ASSUME NEW v \in Worker, WorkerTakes(v) \/ WorkerFails(v) PROVE RwInv'
  BY <1>10, WritesMsr DEF WorkerTakes, WorkerFails, msrVars, Writes
<1>11. ASSUME NEW targets \in ws.killers, KillTimer(targets) PROVE RwInv'
  BY <1>11, WritesMsr DEF KillTimer, msrVars, Writes
<1>. QED
  BY <1>1, <1>2, <1>3, <1>4, <1>5, <1>6, <1>7, <1>8, <1>9, <1>10, <1>11 DEF Next

\* Once the grace time is over the registers hold their default values, for any
\* algorithms, jobs and signals.
THEOREM RegistersAreRestored == Spec => []MsrRestored
<1>1. Spec => []TypesInv
  BY InitTypes, NextTypes, PTL DEF Spec
<1>2. Spec => []MsrInv
  BY <1>1, InitMsr, NextMsr, PTL DEF Spec
<1>3. MsrInv => MsrRestored
  BY DEF MsrInv, RwInv, MsrRestored
<1>. QED
  BY <1>2, <1>3, PTL

----------------------------------------------------------------------------
(* The chain of benchmarks.                                                *)

NoChain == cb = NoBench /\ timeouts = {}

\* The core has been asked for its parameters, or to read the registers.
Asking ==
    /\ NoChain /\ starts = 0 /\ ~ known /\ coreOut = <<>>
    /\ \E t \in {"algo_params", "read_msr"} :
         coreIn = IF core THEN <<Plain(t)>> ELSE <<Plain(t), Plain("close")>>

\* It has answered.
Told ==
    /\ NoChain /\ starts = 0 /\ ~ known
    /\ \E t \in {"algo_params", "read_msr", "error"} :
         /\ t = "read_msr" => tuning = "rw"
         /\ \/ coreIn = <<>> /\ core /\ coreOut = <<t>>
            \/ coreIn = <<Plain("close")>> /\ ~ core /\ coreOut = <<t>>
            \/ coreIn = <<>> /\ ~ core /\ coreOut = <<t, "close">>

\* The benchmarks run, one at a time, or mining has started.
Under ==
    /\ ~ Has(coreIn, "algo_params") /\ ~ Has(coreIn, "read_msr")
    /\ \A i \in DOMAIN coreOut : coreOut[i] = "close"
    /\ tuning # "rw" => ~ known /\ ~ Has(coreIn, "write_msr")
    /\ NoChain \/ (timeouts = {cb} /\ cb # NoBench /\ starts = 0)

\* There is one chain: nothing can start a second one.
MineInv  == Asking \/ Told \/ Under
ChainInv == IF directive = "mine" THEN tuning # "ro" => MineInv ELSE NoChain /\ starts = 0

LEMMA InitChain == Init => ChainInv
<1>. SUFFICES ASSUME Init PROVE ChainInv
  OBVIOUS
<1>1. NoChain /\ starts = 0
  BY DEF Init, NoChain
<1>2. CASE directive = "mine"
  <2>1. core /\ coreIn = <<Plain("algo_params")>> /\ coreOut = <<>> /\ ~ known
    BY <1>2 DEF Init
  <2>. QED
    BY <1>1, <1>2, <2>1 DEF ChainInv, MineInv, Asking
<1>. QED
  BY <1>1, <1>2 DEF ChainInv

LEMMA CoreChain ==
  ASSUME TypesInv, MineInv, tuning # "ro", CoreTakes
  PROVE  MineInv'
<1>1. /\ coreIn' = (IF Head(coreIn).type = "close" THEN <<>> ELSE Tail(coreIn)) /\ coreIn # <<>>
      /\ UNCHANGED <<tuning, core, known, cb, timeouts, starts>>
  BY DEF CoreTakes, env, benches
<1>2. CASE Asking
  <2>1. PICK t \in {"algo_params", "read_msr"} :
          coreIn = IF core THEN <<Plain(t)>> ELSE <<Plain(t), Plain("close")>>
    BY <1>2 DEF Asking
  <2>2. Head(coreIn) = Plain(t) /\ coreIn' = (IF core THEN <<>> ELSE <<Plain("close")>>) /\ coreOut = <<>>
    BY <1>1, <1>2, <2>1 DEF Plain, Asking
  <2>3. \/ coreOut' = <<t>> /\ (t = "read_msr" => tuning = "rw")
        \/ coreOut' = <<"error">>
    BY <2>2 DEF CoreTakes, Plain
  <2>. QED
    BY <1>1, <1>2, <2>2, <2>3 DEF MineInv, Asking, Told, NoChain, TypesInv, CoreOK
<1>3. CASE Told
  <2>1. PICK t \in {"algo_params", "read_msr", "error"} :
          /\ t = "read_msr" => tuning = "rw"
          /\ coreIn = <<Plain("close")>> /\ ~ core /\ coreOut = <<t>>
    BY <1>1, <1>3 DEF Told
  <2>2. Head(coreIn).type = "close" /\ coreIn' = <<>>
    BY <1>1, <2>1 DEF Plain
  <2>3. coreOut' = <<t, "close">>
    BY <2>1, <2>2 DEF CoreTakes
  <2>. QED
    BY <1>1, <1>3, <2>1, <2>2, <2>3 DEF MineInv, Told, NoChain
<1>4. CASE Under
  <2>. DEFINE m == Head(coreIn)
  <2>1. coreIn \in Seq(CoreMsg) /\ coreOut \in Seq(CoreEvent) /\ m \in CoreMsg /\ Has(coreIn, m.type)
    BY <1>1 DEF TypesInv, CoreOK, Has
  <2>2. m.type \in {"close", "write_msr"} /\ (m.type = "write_msr" => tuning = "rw")
    BY <1>4, <2>1 DEF Under, CoreMsg
  <2>3. coreOut' = coreOut \/ coreOut' = Append(coreOut, "close")
    BY <2>2 DEF CoreTakes
  <2>4. \A i \in DOMAIN coreOut' : coreOut'[i] = "close"
    BY <1>4, <2>1, <2>3 DEF Under
  <2>5. \A t : Has(coreIn', t) => Has(coreIn, t)
    BY <1>1, <2>1, HasTail DEF Has
  <2>. QED
    BY <1>1, <1>4, <2>4, <2>5 DEF MineInv, Under, NoChain
<1>. QED
  BY <1>2, <1>3, <1>4 DEF MineInv

LEMMA NextBenchChain ==
  ASSUME TypesInv, starts = 0, NEW left \in Seq(Algos), NEW done, NEW ci, NEW k \in BOOLEAN,
         NextBench(left, done, {}, ci, k)
  PROVE  NoChain' \/ (timeouts' = {cb'} /\ cb' # NoBench /\ starts' = 0)
<1>. DEFINE todo == Skip(left, done)
            b    == Bench(ws.gen + 1, Head(todo), Tail(todo))
<1>1. \/ cb' = NoBench /\ timeouts' = {}
      \/ cb' = b /\ timeouts' = {b} /\ starts' = starts
  BY DEF NextBench
<1>2. b.n # NoBench.n
  BY DEF TypesInv, Newest, WorkersState, Bench, NoBench
<1>. HIDE DEF b
<1>. QED
  BY <1>1, <1>2 DEF NoChain

\* A step under way that writes at most: the chain is what the step makes of it.
LEMMA WritesChain ==
  ASSUME TypesInv, Writes(known'), UNCHANGED tuning,
         ~ Has(coreIn, "algo_params"), ~ Has(coreIn, "read_msr"),
         \A i \in DOMAIN coreOut' : coreOut'[i] = "close",
         tuning # "rw" => ~ known' /\ ~ Has(coreIn, "write_msr"),
         NoChain' \/ (timeouts' = {cb'} /\ cb' # NoBench /\ starts' = 0)
  PROVE  MineInv'
<1>1. CASE coreIn' = coreIn
  BY <1>1 DEF MineInv, Under
<1>2. ASSUME known', core, NEW a \in Algos, coreIn' = Append(coreIn, WriteFor(a))
      PROVE  MineInv'
  <2>1. coreIn \in Seq(CoreMsg) /\ WriteFor(a) \in CoreMsg /\ WriteFor(a).type = "write_msr"
    BY AlgoMessages DEF TypesInv, CoreOK, WriteFor
  <2>2. \A t \in {"algo_params", "read_msr"} : Has(coreIn', t) <=> Has(coreIn, t)
    BY <1>2, <2>1, HasAppend
  <2>. QED
    BY <1>2, <2>2 DEF MineInv, Under
<1>. QED
  BY <1>1, <1>2 DEF Writes

LEMMA EventChain ==
  ASSUME TypesInv, MineInv, directive = "mine", tuning # "ro", Events
  PROVE  MineInv'
<1>. USE DEF env
<1>1. /\ UNCHANGED <<tuning, msr>> /\ coreOut # <<>> /\ coreOut' = Tail(coreOut)
      /\ coreOut \in Seq(CoreEvent)
  BY DEF Events, AlgoParamsEvent, ReadEvent, ErrorEvent, CloseEvent, Event, TypesInv, CoreOK
<1>2. ~ Asking
  BY <1>1 DEF Asking
<1>3. CASE Told
  <2>1. PICK t \in {"algo_params", "read_msr", "error"} :
          /\ t = "read_msr" => tuning = "rw"
          /\ \/ coreIn = <<>> /\ core /\ coreOut = <<t>>
             \/ coreIn = <<Plain("close")>> /\ ~ core /\ coreOut = <<t>>
             \/ coreIn = <<>> /\ ~ core /\ coreOut = <<t, "close">>
    BY <1>3 DEF Told
  <2>2. /\ Head(coreOut) = t /\ \A i \in DOMAIN coreOut' : coreOut'[i] = "close"
        /\ core => coreOut' = <<>>
    BY <1>1, <2>1
  <2>3. \A u \in {"algo_params", "read_msr", "write_msr"} : ~ Has(coreIn, u)
    BY <2>1 DEF Has, Plain
  <2>4. NoChain /\ starts = 0 /\ ~ known
    BY <1>3 DEF Told
  <2>5. CASE AlgoParamsEvent
    <3>1. CASE tuning = "off"
      <4>1. NextBench(Order, measured, {}, coreIn, FALSE) /\ known' = known
        BY <2>4, <2>5, <3>1 DEF AlgoParamsEvent, NoChain
      <4>2. Writes(FALSE)
        BY <4>1, NextBenchWrites, MasterAssumption
      <4>3. Writes(known')
        BY <4>2 DEF Writes
      <4>4. NoChain' \/ (timeouts' = {cb'} /\ cb' # NoBench /\ starts' = 0)
        BY <2>4, <4>1, NextBenchChain, MasterAssumption
      <4>. QED
        BY <1>1, <2>2, <2>3, <2>4, <4>1, <4>3, <4>4, WritesChain
    <3>2. CASE tuning # "off" /\ core
      <4>1. coreIn' = Append(coreIn, Plain("read_msr")) /\ UNCHANGED <<core, known, cb, timeouts, starts>>
        BY <2>5, <3>2 DEF AlgoParamsEvent
      <4>2. coreIn' = <<Plain("read_msr")>>
        BY <2>1, <3>2, <4>1
      <4>. QED
        BY <2>2, <2>4, <3>2, <4>1, <4>2 DEF MineInv, Asking, NoChain
    <3>3. CASE tuning # "off" /\ ~ core
      <4>1. UNCHANGED <<core, coreIn, known, cb, timeouts, starts>>
        BY <2>5, <3>3 DEF AlgoParamsEvent
      <4>. QED
        BY <1>1, <2>2, <2>3, <2>4, <4>1 DEF MineInv, Under, NoChain
    <3>. QED
      BY <3>1, <3>2, <3>3 DEF TypesInv, CoreOK
  <2>6. CASE ReadEvent
    <3>1. tuning = "rw" /\ known' = TRUE /\ NextBench(Order, measured, {}, coreIn, TRUE)
      BY <2>1, <2>2, <2>4, <2>6 DEF ReadEvent, Event, NoChain
    <3>2. Writes(known')
      BY <3>1, NextBenchWrites, MasterAssumption
    <3>3. NoChain' \/ (timeouts' = {cb'} /\ cb' # NoBench /\ starts' = 0)
      BY <2>4, <3>1, NextBenchChain, MasterAssumption
    <3>. QED
      BY <1>1, <2>2, <2>3, <3>1, <3>2, <3>3, WritesChain
  <2>7. CASE ErrorEvent
    <3>1. known' = FALSE /\ NextBench(Order, measured, {}, coreIn, FALSE)
      BY <2>4, <2>7 DEF ErrorEvent, NoChain
    <3>2. Writes(known')
      BY <3>1, NextBenchWrites, MasterAssumption
    <3>3. NoChain' \/ (timeouts' = {cb'} /\ cb' # NoBench /\ starts' = 0)
      BY <2>4, <3>1, NextBenchChain, MasterAssumption
    <3>. QED
      BY <1>1, <2>2, <2>3, <3>1, <3>2, <3>3, WritesChain
  <2>8. ~ CloseEvent
    BY <2>2 DEF CloseEvent, Event
  <2>. QED
    BY <2>5, <2>6, <2>7, <2>8 DEF Events
<1>4. CASE Under
  <2>1. Head(coreOut) = "close" /\ \A i \in DOMAIN coreOut' : coreOut'[i] = "close"
    BY <1>1, <1>4 DEF Under
  <2>2. CloseEvent
    BY <2>1 DEF Events, AlgoParamsEvent, ReadEvent, ErrorEvent, Event
  <2>3. UNCHANGED <<core, coreIn, known, cb, timeouts, starts>>
    BY <2>2 DEF CloseEvent, Event
  <2>. QED
    BY <1>1, <1>4, <2>1, <2>3 DEF MineInv, Under, NoChain
<1>. QED
  BY <1>2, <1>3, <1>4 DEF MineInv

LEMMA SameChain ==
  ASSUME MineInv, UNCHANGED <<tuning, core, coreIn, coreOut, known, cb, timeouts, starts>>
  PROVE  MineInv'
<1>1. CASE Asking
  BY <1>1 DEF MineInv, Asking, NoChain
<1>2. CASE Told
  BY <1>2 DEF MineInv, Told, NoChain
<1>3. CASE Under
  BY <1>3 DEF MineInv, Under, NoChain
<1>. QED
  BY <1>1, <1>2, <1>3 DEF MineInv

LEMMA ExitChain ==
  ASSUME TypesInv, MineInv, NEW s, NEW force, ExitCalls(s, force),
         UNCHANGED <<tuning, coreOut, known, cb, timeouts, starts>>
  PROVE  MineInv'
<1>1. core' = FALSE
  BY DEF ExitCalls
<1>2. CASE ~ core
  <2>1. coreIn' = coreIn
    BY <1>2 DEF ExitCalls
  <2>. QED
    BY <1>1, <1>2, <2>1, SameChain DEF TypesInv, CoreOK
<1>3. CASE core
  <2>1. coreIn' = Goodbye
    BY <1>3, GoodbyeSent DEF TypesInv
  <2>2. CASE Asking
    <3>1. PICK t \in {"algo_params", "read_msr"} : coreIn = <<Plain(t)>>
      BY <1>3, <2>2 DEF Asking
    <3>2. coreIn' = Append(<<Plain(t)>>, Plain("close"))
      BY <2>1, <2>2, <3>1, Zenon DEF Goodbye, Asking
    <3>3. coreIn' = <<Plain(t), Plain("close")>>
      <4>1. ASSUME NEW x \in CoreMsg, NEW y \in CoreMsg PROVE Append(<<x>>, y) = <<x, y>>
        <5>1. <<x>> \in Seq(CoreMsg) /\ <<x, y>> \in Seq(CoreMsg) /\ Len(<<x>>) = 1
          OBVIOUS
        <5>2. /\ Append(<<x>>, y) \in Seq(CoreMsg) /\ Len(Append(<<x>>, y)) = 2
              /\ Append(<<x>>, y)[1] = x /\ Append(<<x>>, y)[2] = y
          BY <5>1, AppendProperties
        <5>. DEFINE q == Append(<<x>>, y)
                    r == <<x, y>>
        <5>3. r[1] = x /\ r[2] = y /\ Len(r) = 2 /\ r \in Seq(CoreMsg)
          BY <5>1
        <5>4. q[1] = x /\ q[2] = y /\ Len(q) = 2 /\ q \in Seq(CoreMsg)
          BY <5>2
        <5>. HIDE DEF q, r
        <5>5. q = r
          BY <5>3, <5>4, SeqEqual
        <5>. QED
          BY <5>5 DEF q, r
      <4>. QED
        BY <3>2, <4>1, AlgoMessages
    <3>. QED
      BY <1>1, <2>2, <3>3 DEF MineInv, Asking, NoChain
  <2>3. CASE Told
    <3>1. PICK t \in {"algo_params", "read_msr", "error"} :
            /\ t = "read_msr" => tuning = "rw"
            /\ coreIn = <<>> /\ core /\ coreOut = <<t>>
      BY <1>3, <2>3 DEF Told
    <3>2. coreIn' = <<Plain("close")>>
      BY <2>1, <2>3, <3>1 DEF Goodbye, Told
    <3>. QED
      BY <1>1, <2>3, <3>1, <3>2 DEF MineInv, Told, NoChain
  <2>4. CASE Under
    <3>. DEFINE first == IF known THEN Append(coreIn, WriteFor(NoAlgo)) ELSE coreIn
    <3>1. first \in Seq(CoreMsg) /\ Plain("close") \in CoreMsg /\ Plain("close").type = "close"
      BY AlgoMessages DEF TypesInv, CoreOK, Plain
    <3>2. WriteFor(NoAlgo) \in CoreMsg /\ WriteFor(NoAlgo).type = "write_msr" /\ coreIn \in Seq(CoreMsg)
      BY AlgoMessages DEF WriteFor, TypesInv, CoreOK
    <3>3. \A t : Has(first, t) => Has(coreIn, t) \/ (known /\ t = "write_msr")
      BY <3>2, HasAppend
    <3>4. coreIn' = Append(first, Plain("close"))
      BY <2>1 DEF Goodbye
    <3>. HIDE DEF first
    <3>5. \A t : Has(coreIn', t) => Has(coreIn, t) \/ (known /\ t = "write_msr") \/ t = "close"
      BY <3>1, <3>3, <3>4, HasAppend
    <3>. QED
      BY <2>4, <3>5 DEF MineInv, Under, NoChain
  <2>. QED
    BY <2>2, <2>3, <2>4 DEF MineInv
<1>. QED
  BY <1>2, <1>3

\* A step of the chain itself: only under way is there a benchmark to end.
LEMMA StepChain ==
  ASSUME TypesInv, MineInv, NEW b \in timeouts,
         NextBench(b.left, measured \cup {b.algo}, timeouts \ {b}, coreIn, known),
         UNCHANGED <<tuning, coreOut, known>>
  PROVE  MineInv'
<1>1. Under /\ timeouts = {b} /\ starts = 0
  BY DEF MineInv, Asking, Told, Under, NoChain
<1>2. NextBench(b.left, measured \cup {b.algo}, {}, coreIn, known)
  <2>1. timeouts \ {b} = {}
    BY <1>1
  <2>. QED
    BY <2>1
<1>3. b.left \in Seq(Algos) /\ known \in BOOLEAN
  BY DEF TypesInv, BenchOK, BenchSet, CoreOK
<1>4. Writes(known)
  BY <1>2, <1>3, NextBenchWrites
<1>5. NoChain' \/ (timeouts' = {cb'} /\ cb' # NoBench /\ starts' = 0)
  BY <1>1, <1>2, <1>3, NextBenchChain
<1>. QED
  BY <1>1, <1>4, <1>5, WritesChain DEF Under

LEMMA NextChain == TypesInv /\ ChainInv /\ [Next]_vars => ChainInv'
<1>. SUFFICES ASSUME TypesInv, ChainInv, [Next]_vars PROVE ChainInv'
  OBVIOUS
<1>1. UNCHANGED env
  BY DEF Next, vars, CoreTakes, Events, AlgoParamsEvent, ReadEvent, ErrorEvent, CloseEvent, Event,
         Signal, ExitTimer, BenchTimeout, PoolJob, Hashrate, TestAnswer, WorkerExits, WorkerTakes,
         WorkerFails, KillTimer
<1>2. CASE directive # "mine"
  <2>1. NoChain /\ starts = 0
    BY <1>2 DEF ChainInv
  <2>2. UNCHANGED <<cb, timeouts, starts>>
    BY <1>2, <2>1 DEF Next, vars, CoreTakes, Events, AlgoParamsEvent, ReadEvent, ErrorEvent,
       CloseEvent, Event, Signal, ExitTimer, BenchTimeout, PoolJob, Hashrate, TestAnswer,
       WorkerExits, WorkerTakes, WorkerFails, KillTimer, NoChain, benches
  <2>. QED
    BY <1>1, <1>2, <2>1, <2>2 DEF ChainInv, NoChain, env
<1>3. CASE directive = "mine" /\ tuning # "ro"
  <2>. SUFFICES ASSUME MineInv PROVE MineInv'
    BY <1>1, <1>3 DEF ChainInv, env
  <2>1. CASE CoreTakes
    BY <1>3, <2>1, CoreChain
  <2>2. CASE Events
    BY <1>3, <2>2, EventChain
  <2>3. CASE Signal
    <3>1. CASE ~ Exiting
      BY <1>1, <2>3, <3>1, ExitChain DEF Signal, benches, env
    <3>2. CASE Exiting
      BY <1>1, <2>3, <3>2, SameChain DEF Signal, benches, env
    <3>. QED
      BY <3>1, <3>2
  <2>4. ASSUME NEW b \in timeouts, BenchTimeout(b) PROVE MineInv'
    BY <1>1, <2>4, StepChain DEF BenchTimeout, env
  <2>5. ASSUME NEW v \in Worker, Hashrate(v) PROVE MineInv'
    <3>1. UNCHANGED <<tuning, core, coreOut, known>>
      BY <2>5 DEF Hashrate, env
    <3>2. CASE UNCHANGED <<coreIn, cb, timeouts, starts>>
      BY <3>1, <3>2, SameChain
    <3>3. CASE ~ UNCHANGED <<coreIn, cb, timeouts, starts>>
      <4>1. cb # NoBench /\ NextBench(cb.left, measured \cup {cb.algo}, timeouts \ {cb}, coreIn, known)
        BY <2>5, <3>3 DEF Hashrate
      <4>2. cb \in timeouts
        BY <4>1 DEF TypesInv, BenchOK
      <4>. QED
        BY <3>1, <4>1, <4>2, StepChain
    <3>. QED
      BY <3>2, <3>3
  <2>6. ASSUME NEW i \in DOMAIN Order, PoolJob(Order[i]) PROVE MineInv'
    <3>1. /\ starts > 0 /\ coreIn' = SetAlgoMsr(coreIn, Order[i], known) /\ Order[i] \in Algos
          /\ UNCHANGED <<tuning, core, coreOut, known, cb, timeouts, starts>>
      BY <2>6, MasterAssumption DEF PoolJob, env
    <3>2. Under /\ NoChain
      BY <3>1 DEF MineInv, Asking, Told, Under
    <3>3. Writes(known')
      BY <3>1 DEF Writes, SetAlgoMsr
    <3>. QED
      BY <3>1, <3>2, <3>3, WritesChain DEF Under, NoChain
  <2>7. CASE \/ UNCHANGED vars
             \/ ExitTimer
             \/ \E v \in Worker : TestAnswer(v) \/ WorkerExits(v) \/ WorkerTakes(v) \/ WorkerFails(v)
             \/ \E targets \in ws.killers : KillTimer(targets)
    <3>1. UNCHANGED <<tuning, core, coreIn, coreOut, known, cb, timeouts, starts>>
      BY <1>3, <2>7 DEF vars, ExitTimer, TestAnswer, WorkerExits, WorkerTakes, WorkerFails, KillTimer,
         env, msrVars, benches
    <3>. QED
      BY <3>1, SameChain
  <2>. QED
    BY <2>1, <2>2, <2>3, <2>4, <2>5, <2>6, <2>7 DEF Next
<1>4. CASE directive = "mine" /\ tuning = "ro"
  BY <1>1, <1>4 DEF ChainInv, env
<1>. QED
  BY <1>2, <1>3, <1>4

\* Where registers that can be read can be written as well, nothing of the
\* benchmarks is left when mining starts.
THEOREM MiningStartsAfterBenchmarks ==
  ASSUME "ro" \notin Tunings
  PROVE  Spec => []MiningAfterBenchmarks
<1>1. Spec => []TypesInv
  BY InitTypes, NextTypes, PTL DEF Spec
<1>2. Spec => []ChainInv
  BY <1>1, InitChain, NextChain, PTL DEF Spec
<1>3. TypesInv /\ ChainInv => MiningAfterBenchmarks
  BY DEF TypesInv, EnvOK, ChainInv, MineInv, Asking, Told, Under, NoChain, MiningAfterBenchmarks
<1>. QED
  BY <1>1, <1>2, <1>3, PTL

----------------------------------------------------------------------------
(* A worker works for one algorithm.                                       *)

Uses(s, v) ==
    ({s.inbox[v][i].algo : i \in DOMAIN s.inbox[v]} \cup {s.doing[v]}) \ {NoAlgo}

\* The listed workers have work of algorithm a, or none yet.
One(s, a) ==
    /\ \A v \in Worker : \E b \in Algos : Uses(s, v) \subseteq {b}
    /\ \A v \in s.listed : Uses(s, v) \subseteq {a}
    /\ \A v \in Worker : v.gen > s.gen => Uses(s, v) = {}

LEMMA SameOne ==
  ASSUME NEW s, NEW t, NEW a, One(s, a), t.listed \subseteq s.listed, t.gen = s.gen,
         \A v \in Worker : Uses(t, v) \subseteq Uses(s, v), s.listed \subseteq Worker
  PROVE  One(t, a)
  BY DEF One

LEMMA MessageOne ==
  ASSUME NEW s, Newest(s), NEW a, NEW b \in Algos \cup {NoAlgo}, One(s, a), a \in {b, NoAlgo},
         NEW m \in Msg, m.algo \in {b, NoAlgo}
  PROVE  One(MessageWorkers(s, m), b)
<1>. DEFINE t == MessageWorkers(s, m)
<1>1. /\ t.listed = s.listed /\ t.gen = s.gen /\ t.doing = s.doing
      /\ \A v \in Worker : t.inbox[v] = IF v \in s.listed \cap s.alive
                                      THEN Append(s.inbox[v], m) ELSE s.inbox[v]
  BY DEF MessageWorkers, Newest, WorkersState
<1>2. \A v \in Worker : s.inbox[v] \in Seq(Msg)
  BY DEF Newest, WorkersState
<1>3. s.listed \subseteq Worker /\ \A v \in s.listed : v.gen = s.gen /\ ~ v.gen > s.gen
  BY DEF Newest, WorkersState
<1>. HIDE DEF t
<1>4. ASSUME NEW v \in Worker, v \notin s.listed \cap s.alive PROVE Uses(t, v) = Uses(s, v)
  BY <1>1, <1>4 DEF Uses
<1>5. ASSUME NEW v \in s.listed \cap s.alive PROVE Uses(t, v) \subseteq Uses(s, v) \cup ({b} \ {NoAlgo})
  <2>1. t.inbox[v] = Append(s.inbox[v], m) /\ s.inbox[v] \in Seq(Msg) /\ v \in Worker
    BY <1>1, <1>2, <1>3
  <2>2. \A i \in DOMAIN t.inbox[v] :
          t.inbox[v][i] = m \/ (i \in DOMAIN s.inbox[v] /\ t.inbox[v][i] = s.inbox[v][i])
    BY <2>1
  <2>. QED
    BY <1>1, <2>2 DEF Uses
<1>6. ASSUME NEW v \in s.listed PROVE Uses(t, v) \subseteq {b} \ {NoAlgo}
  <2>1. Uses(s, v) \subseteq {b} \ {NoAlgo}
    BY DEF One, Uses
  <2>. QED
    BY <1>3, <1>4, <1>5, <2>1
<1>7. ASSUME NEW v \in Worker PROVE \E c \in Algos : Uses(t, v) \subseteq {c}
  <2>1. CASE v \in s.listed
    BY <1>6, <2>1, MasterAssumption
  <2>2. CASE v \notin s.listed
    BY <1>4, <2>2 DEF One
  <2>. QED
    BY <2>1, <2>2
<1>8. ASSUME NEW v \in Worker, v.gen > t.gen PROVE Uses(t, v) = {}
  BY <1>1, <1>3, <1>4, <1>8 DEF One
<1>. QED
  BY <1>1, <1>6, <1>7, <1>8 DEF One, t

LEMMA CloseOne ==
  ASSUME NEW s, Newest(s), NEW a \in Algos \cup {NoAlgo}, One(s, a), NEW forced \in BOOLEAN
  PROVE  One(CloseWorkers(s, forced), a)
<1>. DEFINE t == MessageWorkers(s, Close)
            u == CloseWorkers(s, forced)
<1>1. Close \in Msg /\ Close.algo = NoAlgo
  BY AlgoMessages DEF Close
<1>2. One(t, a) /\ Newest(t)
  BY <1>1, MessageOne, MessageNewest
<1>3. u.listed = t.listed /\ u.gen = t.gen /\ u.inbox = t.inbox /\ u.doing = t.doing
  BY <1>2 DEF CloseWorkers, Newest, WorkersState
<1>4. \A v \in Worker : Uses(u, v) = Uses(t, v)
  BY <1>3 DEF Uses
<1>5. t.listed \subseteq Worker
  BY <1>2 DEF Newest, WorkersState
<1>. HIDE DEF t, u
<1>6. One(u, a)
  BY <1>2, <1>3, <1>4, <1>5, SameOne
<1>. QED
  BY <1>6 DEF u

LEMMA RecreateOne ==
  ASSUME NEW s, Newest(s), NEW a \in Algos \cup {NoAlgo}, One(s, a), NEW n \in 1 .. MaxThreads,
         s.gen < MaxGen, NEW b
  PROVE  One(Recreate(s, n), b)
<1>. DEFINE t == CloseWorkers(s, TRUE)
            u == Recreate(s, n)
            new == {[gen |-> s.gen + 1, idx |-> i] : i \in 0 .. n - 1}
<1>1. One(t, a) /\ Newest(t) /\ t.gen = s.gen
  BY CloseOne, CloseNewest
<1>2. u.gen = t.gen + 1 /\ u.listed = new /\ u.inbox = t.inbox /\ u.doing = t.doing
  BY <1>1 DEF Recreate, Newest, WorkersState
<1>3. \A v \in Worker : Uses(u, v) = Uses(t, v)
  BY <1>2 DEF Uses
<1>4. s.gen \in Nat /\ \A v \in Worker : v.gen \in Nat
  BY DEF Worker, Newest, WorkersState
<1>5. \A v \in new : v \in Worker /\ v.gen = s.gen + 1
  BY <1>4, WorkersAssumption DEF Worker
<1>. HIDE DEF t, u, new
<1>6. \A v \in new : Uses(u, v) = {}
  BY <1>1, <1>3, <1>4, <1>5 DEF One
<1>7. \A v \in Worker : v.gen > u.gen => Uses(u, v) = {}
  BY <1>1, <1>2, <1>3, <1>4 DEF One
<1>8. One(u, b)
  BY <1>1, <1>2, <1>3, <1>6, <1>7 DEF One
<1>. QED
  BY <1>8 DEF u

\* What the processes and their ends do to it.
LEMMA ProcessOne ==
  ASSUME NEW s, Newest(s), NEW a, One(s, a), NEW v \in Worker
  PROVE  /\ CanTake(s, v) => One(Take(s, v), a)
         /\ One(Crash(s, v), a) /\ One(Hang(s, v), a)
         /\ \A b \in BOOLEAN : One(Exited(s, v, b), a)
         /\ \A targets \in s.killers : One(Kill(s, targets), a)
<1>0. s.listed \subseteq Worker /\ s.inbox \in [Worker -> Seq(Msg)]
  BY DEF Newest, WorkersState
<1>1. ASSUME NEW t, t.listed \subseteq s.listed, t.gen = s.gen, t.inbox = s.inbox, t.doing = s.doing
      PROVE  One(t, a)
  <2>1. \A w \in Worker : Uses(t, w) = Uses(s, w)
    BY <1>1 DEF Uses
  <2>. QED
    BY <1>0, <1>1, <2>1, SameOne
<1>2. One(Crash(s, v), a) /\ One(Hang(s, v), a)
  <2>1. /\ Crash(s, v).listed = s.listed /\ Crash(s, v).gen = s.gen
        /\ Crash(s, v).inbox = s.inbox /\ Crash(s, v).doing = s.doing
    BY DEF Crash, Newest, WorkersState
  <2>2. /\ Hang(s, v).listed = s.listed /\ Hang(s, v).gen = s.gen
        /\ Hang(s, v).inbox = s.inbox /\ Hang(s, v).doing = s.doing
    BY DEF Hang, Newest, WorkersState
  <2>. QED
    BY <1>1, <2>1, <2>2
<1>3. ASSUME NEW b \in BOOLEAN PROVE One(Exited(s, v, b), a)
  <2>1. /\ Exited(s, v, b).listed \subseteq s.listed /\ Exited(s, v, b).gen = s.gen
        /\ Exited(s, v, b).inbox = s.inbox /\ Exited(s, v, b).doing = s.doing
    BY DEF Exited, Newest, WorkersState
  <2>. QED
    BY <1>1, <2>1
<1>4. ASSUME NEW targets \in s.killers PROVE One(Kill(s, targets), a)
  <2>1. /\ Kill(s, targets).listed = s.listed /\ Kill(s, targets).gen = s.gen
        /\ Kill(s, targets).inbox = s.inbox /\ Kill(s, targets).doing = s.doing
    BY DEF Kill, Newest, WorkersState
  <2>. QED
    BY <1>1, <2>1
<1>5. ASSUME CanTake(s, v) PROVE One(Take(s, v), a)
  <2>. DEFINE t == Take(s, v)
  <2>1. s.inbox[v] \in Seq(Msg) /\ s.inbox[v] # <<>>
    BY <1>0, <1>5 DEF CanTake
  <2>2. /\ t.listed = s.listed /\ t.gen = s.gen
        /\ t.inbox = [s.inbox EXCEPT ![v] = Tail(@)]
        /\ t.doing = s.doing \/ t.doing = [s.doing EXCEPT ![v] = Head(s.inbox[v]).algo]
    BY DEF Take, Newest, WorkersState
  <2>3. ASSUME NEW w \in Worker PROVE Uses(t, w) \subseteq Uses(s, w)
    <3>1. CASE w # v
      BY <1>0, <2>2, <3>1 DEF Uses, Newest, WorkersState
    <3>2. CASE w = v
      <4>1. t.inbox[w] = Tail(s.inbox[v]) /\ t.doing[w] \in {s.doing[v], s.inbox[v][1].algo}
        BY <1>0, <2>1, <2>2, <3>2 DEF Newest, WorkersState
      <4>2. \A i \in DOMAIN Tail(s.inbox[v]) :
              i + 1 \in DOMAIN s.inbox[v] /\ Tail(s.inbox[v])[i] = s.inbox[v][i + 1]
        BY <2>1
      <4>3. 1 \in DOMAIN s.inbox[v]
        BY <2>1
      <4>. QED
        BY <3>2, <4>1, <4>2, <4>3 DEF Uses
    <3>. QED
      BY <3>1, <3>2
  <2>. QED
    BY <1>0, <2>2, <2>3, SameOne
<1>. QED
  BY <1>2, <1>3, <1>4, <1>5

\* The algorithm of the workers that are listed.
Current == IF directive = "test" THEN JobAlgo ELSE last
AlgoInv == One(ws, Current) /\ (directive # "mine" => last \in {JobAlgo, NoAlgo})

LEMMA OneIsEnough == AlgoInv /\ TypesInv => OneAlgoPerWorker
<1>. SUFFICES ASSUME AlgoInv, TypesInv, NEW v \in Worker PROVE Cardinality(Uses(ws, v)) <= 1
  BY DEF OneAlgoPerWorker, Uses
<1>1. PICK a \in Algos : Uses(ws, v) \subseteq {a}
  BY DEF AlgoInv, One
<1>2. IsFiniteSet({a}) /\ Cardinality({a}) = 1
  BY FS_Singleton
<1>. QED
  BY <1>1, <1>2, FS_Subset

LEMMA InitAlgo == Init => AlgoInv
<1>. SUFFICES ASSUME Init PROVE AlgoInv
  OBVIOUS
<1>. DEFINE new == Recreate(NoWorkers, Threads[JobAlgo])
<1>1. Newest(NoWorkers) /\ NoWorkers.gen < MaxGen /\ NoWorkers.listed = {}
  BY NoWorkersNewest, WorkersAssumption DEF NoWorkers
<1>2. \A v \in Worker : Uses(NoWorkers, v) = {}
  BY DEF Uses, NoWorkers
<1>3. \A a : One(NoWorkers, a)
  BY <1>1, <1>2, MasterAssumption DEF One
<1>4. Threads[JobAlgo] \in 1 .. MaxThreads /\ JobAlgo \in Algos
  BY WorkersAssumption, MasterAssumption
<1>5. Newest(new) /\ \A a : One(new, a)
  BY <1>1, <1>3, <1>4, RecreateOne, RecreateNewest
<1>6. \A t \in Types : Work(t, JobAlgo) \in Msg /\ Work(t, JobAlgo).algo = JobAlgo
  BY <1>4, AlgoMessages DEF Work
<1>7. \A t \in Types : One(MessageWorkers(new, Work(t, JobAlgo)), JobAlgo)
  BY <1>4, <1>5, <1>6, MessageOne
<1>. HIDE DEF new
<1>8. CASE directive = "test"
  BY <1>7, <1>8 DEF Init, new, AlgoInv, Current, Types
<1>9. CASE directive = "bench" /\ tuning = "off"
  BY <1>7, <1>9 DEF Init, new, AlgoInv, Current, Types
<1>10. CASE directive = "bench" /\ tuning # "off"
  BY <1>5, <1>10 DEF Init, new, AlgoInv, Current
<1>11. CASE directive \notin {"bench", "test"}
  BY <1>3, <1>11 DEF Init, AlgoInv, Current
<1>. QED
  BY <1>8, <1>9, <1>10, <1>11

LEMMA NextBenchOne ==
  ASSUME TypesInv, One(ws, last), NEW left \in Seq(Algos), NEW done, NEW ts, NEW ci, NEW k,
         NextBench(left, done, ts, ci, k)
  PROVE  One(ws', last')
<1>. DEFINE todo == Skip(left, done)
            a    == Head(todo)
<1>1. todo \in Seq(Algos)
  BY SkipTypes
<1>2. CASE todo = <<>>
  BY <1>2 DEF NextBench
<1>3. CASE todo # <<>>
  <2>1. a \in Algos /\ Threads[a] \in 1 .. MaxThreads
    BY <1>1, <1>3, WorkersAssumption
  <2>2. ws.gen < MaxGen /\ last' = a /\ ws' = MessageWorkers(Recreate(ws, Threads[a]), Work("bench", a))
    BY <1>3, Zenon DEF NextBench
  <2>3. Newest(Recreate(ws, Threads[a])) /\ One(Recreate(ws, Threads[a]), a)
    BY <2>1, <2>2, RecreateOne, RecreateNewest DEF TypesInv, BenchOK
  <2>4. Work("bench", a) \in Msg /\ Work("bench", a).algo = a
    BY <2>1, AlgoMessages DEF Types, Work
  <2>. HIDE DEF a
  <2>. QED
    BY <2>1, <2>2, <2>3, <2>4, MessageOne
<1>. QED
  BY <1>2, <1>3

LEMMA EventAlgo ==
  ASSUME TypesInv, AlgoInv, Events
  PROVE  AlgoInv'
<1>0. directive' = directive
  BY DEF Events, AlgoParamsEvent, ReadEvent, ErrorEvent, CloseEvent, Event, env
<1>1. CASE UNCHANGED <<ws, last>>
  BY <1>0, <1>1 DEF AlgoInv, Current
<1>2. ASSUME directive = "algo_params", ExitCalls(ws, FALSE), last' = last PROVE AlgoInv'
  BY <1>0, <1>2, CloseOne DEF ExitCalls, AlgoInv, Current, TypesInv, BenchOK
<1>3. ASSUME directive = "mine", NEW k \in BOOLEAN, NextBench(Order, measured, timeouts, coreIn, k)
      PROVE  AlgoInv'
  BY <1>0, <1>3, NextBenchOne, MasterAssumption DEF AlgoInv, Current
<1>4. ASSUME directive = "bench", ws' = MessageWorkers(ws, Work("bench", JobAlgo)), last' = JobAlgo
      PROVE  AlgoInv'
  <2>1. Work("bench", JobAlgo) \in Msg /\ Work("bench", JobAlgo).algo = JobAlgo /\ JobAlgo \in Algos
    BY AlgoMessages, MasterAssumption DEF Types, Work
  <2>2. One(ws, last) /\ last \in {JobAlgo, NoAlgo}
    BY <1>4 DEF AlgoInv, Current
  <2>3. One(ws', JobAlgo)
    BY <1>4, <2>1, <2>2, MessageOne DEF TypesInv
  <2>. QED
    BY <1>0, <1>4, <2>3 DEF AlgoInv, Current
<1>5. CASE AlgoParamsEvent
  BY <1>1, <1>2, <1>3, <1>5 DEF AlgoParamsEvent, ExitNow
<1>6. CASE ReadEvent
  BY <1>3, <1>4, <1>6 DEF ReadEvent
<1>7. CASE ErrorEvent
  BY <1>3, <1>4, <1>7 DEF ErrorEvent
<1>8. CASE CloseEvent
  BY <1>1, <1>8 DEF CloseEvent
<1>. QED
  BY <1>5, <1>6, <1>7, <1>8 DEF Events

LEMMA NextAlgo == TypesInv /\ ChainInv /\ AlgoInv /\ [Next]_vars => AlgoInv'
<1>. SUFFICES ASSUME TypesInv, ChainInv, AlgoInv, [Next]_vars PROVE AlgoInv'
  OBVIOUS
<1>. USE DEF env, benches
<1>0. /\ Newest(ws) /\ last \in Algos \cup {NoAlgo} /\ subprocess \in BOOLEAN
      /\ Current \in Algos \cup {NoAlgo}
  BY MasterAssumption DEF TypesInv, BenchOK, EnvOK, Current
<1>1. CASE UNCHANGED vars
  BY <1>1 DEF vars, AlgoInv, Current
<1>2. CASE CoreTakes
  BY <1>2 DEF CoreTakes, AlgoInv, Current
<1>3. CASE Events
  BY <1>3, EventAlgo
<1>4. CASE Signal
  BY <1>0, <1>4, CloseOne DEF Signal, ExitCalls, AlgoInv, Current
<1>5. CASE ExitTimer
  BY <1>5 DEF ExitTimer, AlgoInv, Current
<1>6. ASSUME NEW b \in timeouts, NextBench(b.left, measured \cup {b.algo}, timeouts \ {b}, coreIn, known),
             directive' = directive
      PROVE  AlgoInv'
  <2>1. directive = "mine"
    BY DEF ChainInv, NoChain
  <2>2. b.left \in Seq(Algos)
    BY DEF TypesInv, BenchOK, BenchSet
  <2>. QED
    BY <1>6, <2>1, <2>2, NextBenchOne DEF AlgoInv, Current
<1>7. ASSUME NEW b \in timeouts, BenchTimeout(b) PROVE AlgoInv'
  BY <1>6, <1>7 DEF BenchTimeout
<1>8. ASSUME NEW i \in DOMAIN Order, PoolJob(Order[i]) PROVE AlgoInv'
  <2>. DEFINE a == Order[i]
              s == IF last = a THEN ws ELSE Recreate(ws, Threads[a])
  <2>1. directive = "mine" /\ a \in Algos /\ Threads[a] \in 1 .. MaxThreads
    BY <1>8, MasterAssumption, WorkersAssumption DEF PoolJob, ChainInv
  <2>2. One(ws, last)
    BY <2>1 DEF AlgoInv, Current
  <2>3. Newest(s) /\ One(s, a)
    BY <1>0, <1>8, <2>1, <2>2, RecreateOne, RecreateNewest DEF PoolJob
  <2>4. Work("job", a) \in Msg /\ Work("job", a).algo = a
    BY <2>1, AlgoMessages DEF Types, Work
  <2>5. ws' = MessageWorkers(s, Work("job", a)) /\ last' = a /\ directive' = directive
    BY <1>8 DEF PoolJob
  <2>. HIDE DEF a, s
  <2>6. One(ws', a)
    BY <2>1, <2>3, <2>4, <2>5, MessageOne
  <2>. QED
    BY <2>1, <2>5, <2>6 DEF AlgoInv, Current
<1>9. ASSUME NEW v \in Worker, Hashrate(v) PROVE AlgoInv'
  <2>1. \/ UNCHANGED <<ws, last>>
        \/ cb # NoBench /\ NextBench(cb.left, measured \cup {cb.algo}, timeouts \ {cb}, coreIn, known)
    BY <1>9 DEF Hashrate
  <2>2. directive' = directive /\ cb \in timeouts \cup {NoBench}
    BY <1>9 DEF Hashrate, TypesInv, BenchOK
  <2>3. CASE UNCHANGED <<ws, last>>
    BY <2>2, <2>3 DEF AlgoInv, Current
  <2>. QED
    BY <1>6, <2>1, <2>2, <2>3
<1>10. ASSUME NEW v \in Worker, TestAnswer(v) PROVE AlgoInv'
  BY <1>0, <1>10, CloseOne DEF TestAnswer, ExitNow, ExitCalls, AlgoInv, Current
<1>11. ASSUME NEW v \in Worker, WorkerExits(v) PROVE AlgoInv'
  <2>. DEFINE s == Exited(ws, v, subprocess)
  <2>1. Newest(s) /\ One(s, Current)
    BY <1>0, <1>11, ProcessOne, ExitedNewest DEF WorkerExits, AlgoInv
  <2>2. ws' = s \/ ws' = CloseWorkers(s, FALSE)
    BY <1>11 DEF WorkerExits, ExitNow, ExitCalls
  <2>. HIDE DEF s
  <2>3. One(ws', Current)
    BY <1>0, <2>1, <2>2, CloseOne
  <2>. QED
    BY <1>11, <2>3 DEF WorkerExits, AlgoInv, Current
<1>12. ASSUME NEW v \in Worker, WorkerTakes(v) \/ WorkerFails(v) PROVE AlgoInv'
  BY <1>0, <1>12, ProcessOne DEF WorkerTakes, WorkerFails, AlgoInv, Current
<1>13. ASSUME NEW targets \in ws.killers, KillTimer(targets) PROVE AlgoInv'
  <2>1. One(Kill(ws, targets), Current)
    <3>1. \E v : v \in Worker
      <4>1. [gen |-> 1, idx |-> 0] \in Worker
        BY WorkersAssumption DEF Worker
      <4>. QED
        BY <4>1
    <3>. QED
      BY <1>0, <3>1, ProcessOne DEF AlgoInv
  <2>. QED
    BY <1>13, <2>1 DEF KillTimer, AlgoInv, Current
<1>. QED
  BY <1>1, <1>2, <1>3, <1>4, <1>5, <1>7, <1>8, <1>9, <1>10, <1>11, <1>12, <1>13 DEF Next

\* A worker process has work of one algorithm only, however workers are
\* replaced, crash or hang.
THEOREM WorkersKeepTheirAlgo == Spec => []OneAlgoPerWorker
<1>1. Spec => []TypesInv
  BY InitTypes, NextTypes, PTL DEF Spec
<1>2. Spec => []ChainInv
  BY <1>1, InitChain, NextChain, PTL DEF Spec
<1>3. Spec => []AlgoInv
  BY <1>1, <1>2, InitAlgo, NextAlgo, PTL DEF Spec
<1>. QED
  BY <1>1, <1>3, OneIsEnough, PTL
=============================================================================
