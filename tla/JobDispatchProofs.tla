------------------------- MODULE JobDispatchProofs -------------------------
(***************************************************************************)
(* Proofs about JobDispatch, for any pools, jobs, number of cores, batch   *)
(* and nonce range.                                                        *)
(*                                                                         *)
(* That no nonce of a c29 job is hashed again, while the pools change only *)
(* at rest, needs an invariant that says how the jobs, the kept nonces and *)
(* the answers stand to each other (QInv): all work on a job starts at one *)
(* nonce s; a core's work lies on its own lane from s on, and the lanes do *)
(* not meet; a core that has left a job does not get it again but by a     *)
(* resume, so a job that is sent again is the one the core has or comes to *)
(* (Order); and for a job left behind something is kept, reported or still *)
(* to be reported that lies beyond all that was hashed of it, so that a    *)
(* resume starts a new s above the old work.                               *)
(***************************************************************************)
EXTENDS JobDispatch, TLAPS

\* Only a core that has had a job has a nonce to report.
PoolKnown == \A c \in Core : core[c].next # 0 => core[c].pool \in Pools

IInv == TypeOK /\ PoolKnown

----------------------------------------------------------------------------
(* Nonces.                                                                 *)

LEMMA Constants ==
    /\ Cores \in Nat \ {0} /\ Batch \in Nat \ {0} /\ Range \in Nat \ {0}
    /\ Batch * Cores \in Nat /\ 0 \in Nonces /\ Core \subseteq Nat
<1>1. Cores * Batch >= 1
  BY DispatchAssumption
<1> QED
  BY <1>1, DispatchAssumption DEF Nonces, Core

\* A nonce stays in its range.
LEMMA ModType == \A n \in Int : n % Range \in Nonces
  BY Constants DEF Nonces

LEMMA BatchType ==
    ASSUME NEW first \in Int
    PROVE  BatchFrom(first) \subseteq Nonces /\ After(first) \in Nonces
<1>1. \A i \in 0 .. Batch - 1 : first + i * Cores \in Int
  BY Constants
<1>2. first + Batch * Cores \in Int
  BY Constants
<1> QED
  BY <1>1, <1>2, ModType DEF BatchFrom, After

\* The order of its bytes does not take a nonce out of the range.
LEMMA RewrittenType ==
    ASSUME NEW S, S \subseteq Nonces
    PROVE  {Rewritten(n) : n \in S} \subseteq Nonces
<1>1. ASSUME NEW n \in Nonces PROVE Rewritten(n) \in Nonces
  BY DispatchAssumption DEF Rewritten
<1> QED
  BY <1>1

\* A round of c29 writes its nonces as set_job writes the first ones.
LEMMA RewrittenC29 ==
    ASSUME Algo = "c29", NEW S
    PROVE  {Rewritten(n) : n \in S} = S
  BY DEF Rewritten

LEMMA StartType ==
    ASSUME TypeOK, NEW job \in Entry
    PROVE  StartNonce(job) \in Nonces
  BY DEF TypeOK, StartNonce, Entry

----------------------------------------------------------------------------
(* Steps that several actions share.                                       *)

\* What a core is, when its parts are.
CoreRec == [fn : BOOLEAN, job : JobOrNull, pool : Pools \cup {NoPool},
            input : SUBSET Nonces, next : Nonces]

\* set_job keeps the types.
LEMMA SetJobStep ==
    ASSUME IInv, NEW p \in Pools, NEW job \in Entry, SetJob(p, job)
    PROVE  last' \in Entry /\ inbox' \in [Core -> Seq(Msg)]
<1> DEFINE msg == [type |-> "job", job |-> job.job, nonce |-> StartNonce(job), pool |-> p]
<1>1. StartNonce(job) \in Nonces
  BY StartType DEF IInv
<1>2. msg \in Msg
  BY <1>1 DEF Msg, Entry
<1>3. last' = [job |-> job.job, nonce |-> StartNonce(job)]
      /\ inbox' = [c \in Core |-> Append(inbox[c], msg)]
  BY DEF SetJob, ToWorkers
<1>4. last' \in Entry
  BY <1>1, <1>3 DEF Entry
<1> HIDE DEF msg
<1>5. \A c \in Core : inbox[c] \in Seq(Msg)
  BY DEF IInv, TypeOK
<1> QED
  BY <1>2, <1>3, <1>4, <1>5

LEMMA InitHolds == Init => IInv
<1> SUFFICES ASSUME Init PROVE IInv
  OBVIOUS
<1>1. Empty \in Entry /\ Empty.job = NoJob /\ 0 \in Nonces
  BY Constants DEF Empty, Entry, JobOrNull
<1>2. TypeOK
  <2>1. /\ active \in Pools /\ stored \in [Pools -> Entry] /\ last \in Entry
        /\ fresh \subseteq Jobs /\ wrapped \in BOOLEAN
        /\ hashed \in [Jobs -> SUBSET Nonces]
    BY <1>1, DispatchAssumption DEF Init
  <2>2. inbox \in [Core -> Seq(Msg)] /\ outbox \in [Core -> Seq(Answer)]
    BY DEF Init
  <2>3. core \in [Core -> CoreRec]
    BY <1>1 DEF Init, CoreRec, JobOrNull
  <2> QED
    BY <2>1, <2>2, <2>3 DEF TypeOK, CoreRec
<1>3. PoolKnown
  BY DEF Init, PoolKnown
<1> QED
  BY <1>2, <1>3 DEF IInv

----------------------------------------------------------------------------
(* The master's steps.                                                     *)

LEMMA PoolJobStep ==
    ASSUME IInv, NEW job \in Jobs, PoolJob(job)
    PROVE  IInv'
<1> DEFINE p == PoolOf[job]
           entry == [job |-> job, nonce |-> 0]
<1>1. p \in Pools /\ entry \in Entry
  BY DispatchAssumption, Constants DEF Entry, JobOrNull
<1>2. /\ fresh' = fresh \ {job} /\ stored' = [stored EXCEPT ![p] = entry]
      /\ active' = IF stored[p].job = NoJob /\ p \in {Primary, Donate} THEN p ELSE active
      /\ SetJob(p, entry) \/ UNCHANGED <<last, inbox>>
      /\ UNCHANGED <<outbox, core, hashed, wrapped>>
  BY DEF PoolJob
<1> HIDE DEF p, entry
<1>3. last' \in Entry /\ inbox' \in [Core -> Seq(Msg)]
  <2>1. CASE SetJob(p, entry)
    BY <2>1, <1>1, SetJobStep
  <2>2. CASE UNCHANGED <<last, inbox>>
    BY <2>2 DEF IInv, TypeOK
  <2> QED
    BY <1>2, <2>1, <2>2
<1>4. TypeOK'
  BY <1>1, <1>2, <1>3 DEF IInv, TypeOK
<1>5. PoolKnown'
  BY <1>2 DEF IInv, PoolKnown
<1> QED
  BY <1>4, <1>5 DEF IInv

LEMMA SendAgainStep ==
    ASSUME IInv, SendAgain
    PROVE  IInv'
<1> DEFINE entry == [job |-> stored[active].job, nonce |-> 0]
<1>1. active \in Pools /\ entry \in Entry
  BY Constants DEF Entry, IInv, TypeOK
<1>2. /\ stored' = [stored EXCEPT ![active] = entry] /\ SetJob(active, entry)
      /\ UNCHANGED <<active, fresh, outbox, core, hashed, wrapped>>
  BY DEF SendAgain
<1> HIDE DEF entry
<1>3. last' \in Entry /\ inbox' \in [Core -> Seq(Msg)]
  BY <1>1, <1>2, SetJobStep
<1>4. TypeOK'
  BY <1>1, <1>2, <1>3 DEF IInv, TypeOK
<1>5. PoolKnown'
  BY <1>2 DEF IInv, PoolKnown
<1> QED
  BY <1>4, <1>5 DEF IInv

LEMMA ResumeStep ==
    ASSUME IInv, NEW p \in Pools, Resume(p)
    PROVE  IInv'
<1>1. stored[p] \in Entry
  BY DEF IInv, TypeOK
<1>2. /\ active' = p /\ SetJob(p, stored[p])
      /\ UNCHANGED <<stored, fresh, outbox, core, hashed, wrapped>>
  BY DEF Resume
<1>3. last' \in Entry /\ inbox' \in [Core -> Seq(Msg)]
  BY <1>1, <1>2, SetJobStep
<1>4. TypeOK'
  BY <1>2, <1>3 DEF IInv, TypeOK
<1>5. PoolKnown'
  BY <1>2 DEF IInv, PoolKnown
<1> QED
  BY <1>4, <1>5 DEF IInv

LEMMA GiveUpStep ==
    ASSUME IInv, NEW p \in Pools, GiveUp(p)
    PROVE  IInv'
<1> DEFINE msg == [type |-> "pause", job |-> NoJob, nonce |-> 0, pool |-> p]
<1>1. msg \in Msg
  BY Constants DEF Msg, JobOrNull
<1>2. /\ active' = p
      /\ ToWorkers(msg) \/ UNCHANGED inbox
      /\ UNCHANGED <<stored, last, fresh, outbox, core, hashed, wrapped>>
  BY DEF GiveUp
<1> HIDE DEF msg
<1>3. inbox' \in [Core -> Seq(Msg)]
  <2>1. CASE ToWorkers(msg)
    <3>1. \A c \in Core : inbox[c] \in Seq(Msg)
      BY DEF IInv, TypeOK
    <3> QED
      BY <2>1, <3>1, <1>1 DEF ToWorkers
  <2>2. CASE UNCHANGED inbox
    BY <2>2 DEF IInv, TypeOK
  <2> QED
    BY <1>2, <2>1, <2>2
<1>4. TypeOK'
  BY <1>2, <1>3 DEF IInv, TypeOK
<1>5. PoolKnown'
  BY <1>2 DEF IInv, PoolKnown
<1> QED
  BY <1>4, <1>5 DEF IInv

LEMMA PoolLostStep ==
    ASSUME IInv, NEW p \in Pools, PoolLost(p)
    PROVE  IInv'
<1>1. Empty \in Entry
  BY Constants DEF Empty, Entry, JobOrNull
<1>2. TypeOK'
  BY <1>1 DEF PoolLost, IInv, TypeOK
<1>3. PoolKnown'
  BY DEF PoolLost, IInv, PoolKnown
<1> QED
  BY <1>2, <1>3 DEF IInv

LEMMA LastNonceStep ==
    ASSUME IInv, NEW c \in Core, LastNonce(c)
    PROVE  IInv'
<1>1. outbox[c] \in Seq(Answer) /\ outbox[c] # <<>>
  BY DEF IInv, TypeOK, LastNonce
<1>2. Head(outbox[c]) \in Answer /\ Tail(outbox[c]) \in Seq(Answer)
  BY <1>1
<1>3. outbox' \in [Core -> Seq(Answer)]
  BY <1>2 DEF LastNonce, IInv, TypeOK
<1>4. stored' \in [Pools -> Entry]
  <2>1. CASE stored' = stored
    BY <2>1 DEF IInv, TypeOK
  <2>2. CASE stored' = [stored EXCEPT ![Head(outbox[c]).pool].nonce = Head(outbox[c]).nonce]
    BY <2>2, <1>2 DEF IInv, TypeOK, Entry, Answer
  <2> QED
    BY <2>1, <2>2 DEF LastNonce
<1>5. TypeOK'
  BY <1>3, <1>4 DEF LastNonce, IInv, TypeOK
<1>6. PoolKnown'
  BY DEF LastNonce, IInv, PoolKnown
<1> QED
  BY <1>5, <1>6 DEF IInv

----------------------------------------------------------------------------
(* The cores' steps.                                                       *)

LEMMA TakeJobStep ==
    ASSUME IInv, NEW c \in Core, TakeJob(c)
    PROVE  IInv'
<1> DEFINE msg == Head(inbox[c])
           first == First(c, msg.nonce)
           new == [fn |-> core[c].fn \/ core[c].job = NoJob, job |-> msg.job, pool |-> msg.pool,
                   input |-> BatchFrom(first), next |-> After(first)]
           answer == [nonce |-> core[c].next, pool |-> core[c].pool]
<1>1. inbox[c] \in Seq(Msg) /\ inbox[c] # <<>>
  BY DEF IInv, TypeOK, TakeJob
<1>2. msg \in Msg /\ Tail(inbox[c]) \in Seq(Msg)
  BY <1>1
<1>3. first \in Int
  BY <1>2, Constants DEF First, Msg, Nonces, Core
<1>4. BatchFrom(first) \subseteq Nonces /\ After(first) \in Nonces
  BY <1>3, BatchType
<1>5. core[c] \in CoreRec
  BY DEF IInv, TypeOK, CoreRec
<1>6. new \in CoreRec /\ new.pool \in Pools
  BY <1>2, <1>4, <1>5 DEF CoreRec, Msg
<1>7. /\ inbox' = [inbox EXCEPT ![c] = Tail(@)]
      /\ \/ UNCHANGED <<core, outbox, wrapped>>
         \/ /\ core' = [core EXCEPT ![c] = new]
            /\ outbox' = IF core[c].next = 0 THEN outbox
                         ELSE [outbox EXCEPT ![c] = Append(@, answer)]
            /\ wrapped' \in BOOLEAN
      /\ UNCHANGED <<master, hashed>>
  BY DEF TakeJob
<1>8. core[c].next # 0 => answer \in Answer
  BY <1>5 DEF IInv, PoolKnown, CoreRec, Answer
<1> HIDE DEF first, new, answer
<1>9. inbox' \in [Core -> Seq(Msg)]
  BY <1>2, <1>7 DEF IInv, TypeOK
<1>10. core' \in [Core -> CoreRec]
  BY <1>6, <1>7 DEF IInv, TypeOK, CoreRec
<1>11. outbox' \in [Core -> Seq(Answer)]
  <2>1. outbox[c] \in Seq(Answer)
    BY DEF IInv, TypeOK
  <2>2. core[c].next # 0 => Append(outbox[c], answer) \in Seq(Answer)
    BY <2>1, <1>8
  <2> QED
    BY <2>2, <1>7 DEF IInv, TypeOK
<1>12. TypeOK'
  BY <1>7, <1>9, <1>10, <1>11 DEF IInv, TypeOK, CoreRec, master
<1>13. PoolKnown'
  BY <1>6, <1>7 DEF IInv, PoolKnown, TypeOK
<1> QED
  BY <1>12, <1>13 DEF IInv

LEMMA TakePauseStep ==
    ASSUME IInv, NEW c \in Core, TakePause(c)
    PROVE  IInv'
<1>1. inbox[c] \in Seq(Msg) /\ inbox[c] # <<>>
  BY DEF IInv, TypeOK, TakePause
<1>2. /\ inbox' = [inbox EXCEPT ![c] = Tail(@)]
      /\ core' = [core EXCEPT ![c].fn = FALSE]
      /\ UNCHANGED <<master, outbox, hashed, wrapped>>
  BY DEF TakePause
<1>3. TypeOK'
  <2>1. inbox' \in [Core -> Seq(Msg)]
    <3>1. Tail(inbox[c]) \in Seq(Msg)
      BY <1>1
    <3> QED
      BY <3>1, <1>2 DEF IInv, TypeOK
  <2>2. core' \in [Core -> CoreRec]
    BY <1>2 DEF IInv, TypeOK, CoreRec
  <2> QED
    BY <2>1, <2>2, <1>2 DEF IInv, TypeOK, CoreRec, master
<1>4. PoolKnown'
  BY <1>2 DEF IInv, PoolKnown, TypeOK
<1> QED
  BY <1>3, <1>4 DEF IInv

LEMMA HashStep ==
    ASSUME IInv, NEW c \in Core, Hash(c)
    PROVE  IInv'
<1>1. core[c] \in CoreRec
  BY DEF IInv, TypeOK, CoreRec
<1>2. core[c].next \in Int
  BY <1>1, Constants DEF CoreRec, Nonces
<1> DEFINE input == {Rewritten(n) : n \in BatchFrom(core[c].next)}
           next == After(core[c].next)
           fn == core[c].next <= After(core[c].next)
<1>3. input \subseteq Nonces /\ next \in Nonces /\ fn \in BOOLEAN
  BY <1>2, BatchType, RewrittenType
<1>4. /\ hashed' = [hashed EXCEPT ![core[c].job] = @ \cup core[c].input]
      /\ core' = [core EXCEPT ![c] = [@ EXCEPT !.input = input, !.next = next, !.fn = fn]]
      /\ wrapped' \in BOOLEAN /\ core[c].next # 0
      /\ UNCHANGED <<master, inbox, outbox>>
  BY DEF Hash
<1> HIDE DEF input, next, fn
<1>5. hashed' \in [Jobs -> SUBSET Nonces]
  <2>1. hashed \in [Jobs -> SUBSET Nonces] /\ core[c].input \subseteq Nonces
    BY <1>1 DEF IInv, TypeOK, CoreRec
  <2> QED
    BY <1>4, <2>1
<1>6. core' \in [Core -> CoreRec]
  BY <1>1, <1>3, <1>4 DEF IInv, TypeOK, CoreRec
<1>7. TypeOK'
  BY <1>4, <1>5, <1>6 DEF IInv, TypeOK, CoreRec, master
<1>8. \A d \in Core : core'[d].pool = core[d].pool /\ (core'[d].next # 0 => core[d].next # 0)
  BY <1>4 DEF IInv, TypeOK
<1>9. PoolKnown'
  BY <1>8 DEF IInv, PoolKnown
<1> QED
  BY <1>7, <1>9 DEF IInv

LEMMA HashAsTestStep ==
    ASSUME IInv, NEW c \in Core, NEW goesOn \in BOOLEAN, HashAsTest(c, goesOn)
    PROVE  IInv'
<1>1. /\ hashed' = [hashed EXCEPT ![core[c].job] = @ \cup core[c].input]
      /\ core' = [core EXCEPT ![c] = [@ EXCEPT !.fn = goesOn, !.input = {}]]
      /\ UNCHANGED <<master, inbox, outbox, wrapped>>
  BY DEF HashAsTest
<1>2. core \in [Core -> CoreRec]
  BY DEF IInv, TypeOK, CoreRec
<1>3. hashed' \in [Jobs -> SUBSET Nonces]
  <2>1. hashed \in [Jobs -> SUBSET Nonces] /\ core[c].input \subseteq Nonces
    BY <1>2 DEF IInv, TypeOK, CoreRec
  <2> QED
    BY <1>1, <2>1
<1>4. core' \in [Core -> CoreRec]
  BY <1>1, <1>2 DEF CoreRec
<1>5. TypeOK'
  BY <1>1, <1>3, <1>4 DEF IInv, TypeOK, CoreRec, master
<1>6. \A d \in Core : core'[d].pool = core[d].pool /\ core'[d].next = core[d].next
  BY <1>1, <1>2 DEF CoreRec
<1>7. PoolKnown'
  BY <1>6 DEF IInv, PoolKnown
<1> QED
  BY <1>5, <1>7 DEF IInv

----------------------------------------------------------------------------
(* Theorems.                                                               *)

LEMMA NextKeeps ==
    ASSUME IInv, [Next]_vars
    PROVE  IInv'
<1>1. CASE Master
  BY <1>1, PoolJobStep, SendAgainStep, PoolLostStep, ResumeStep, GiveUpStep, LastNonceStep DEF Master
<1>2. CASE \E c \in Core : TakeJob(c) \/ TakePause(c) \/ Hash(c)
  BY <1>2, TakeJobStep, TakePauseStep, HashStep
<1>3. CASE \E c \in Core, goesOn \in BOOLEAN : HashAsTest(c, goesOn)
  BY <1>3, HashAsTestStep
<1>4. CASE UNCHANGED vars
  BY <1>4 DEF vars, master, IInv, TypeOK, PoolKnown
<1> QED
  BY <1>1, <1>2, <1>3, <1>4 DEF Next

LEMMA IInvHolds == Spec => []IInv
  BY InitHolds, NextKeeps, PTL DEF Spec

\* The variables of the dispatch keep their types; nonces stay in their range.
THEOREM TypesHold == Spec => []TypeOK
  BY IInvHolds, PTL DEF IInv

----------------------------------------------------------------------------
(* Lanes: the nonces of one core in a job that starts at s.                *)

OnLane(n, c, s) == \E k \in Nat : n = s + (c - 1) + k * Cores

LEMMA LaneType ==
    ASSUME NEW s \in Nat, NEW c \in Core, NEW n, OnLane(n, c, s)
    PROVE  n \in Nat /\ n >= s
<1>1. PICK k \in Nat : n = s + (c - 1) + k * Cores
  BY DEF OnLane
<1>2. k * Cores \in Nat /\ c - 1 \in Nat
  BY Constants DEF Core
<1> QED
  BY <1>1, <1>2

LEMMA LaneStart ==
    ASSUME NEW s \in Nat, NEW c \in Core
    PROVE  OnLane(First(c, s), c, s)
<1>1. First(c, s) = s + (c - 1) + 0 * Cores
  BY Constants DEF First, Core
<1> QED
  BY <1>1 DEF OnLane

LEMMA LaneGoesOn ==
    ASSUME NEW s \in Nat, NEW c \in Core, NEW n, OnLane(n, c, s), NEW i \in Nat
    PROVE  OnLane(n + i * Cores, c, s)
<1>1. PICK k \in Nat : n = s + (c - 1) + k * Cores
  BY DEF OnLane
<1>2. (k + i) * Cores = k * Cores + i * Cores /\ k * Cores \in Nat /\ i * Cores \in Nat
  BY Constants
<1>3. n + i * Cores = s + (c - 1) + (k + i) * Cores /\ k + i \in Nat
  BY <1>1, <1>2, Constants DEF Core
<1> QED
  BY <1>3 DEF OnLane

\* No nonce is on the lanes of two cores.
LEMMA LanesDisjoint ==
    ASSUME NEW s \in Nat, NEW c \in Core, NEW d \in Core, NEW n,
           OnLane(n, c, s), OnLane(n, d, s)
    PROVE  c = d
<1>1. PICK k \in Nat : n = s + (c - 1) + k * Cores
  BY DEF OnLane
<1>2. PICK l \in Nat : n = s + (d - 1) + l * Cores
  BY DEF OnLane
<1>3. c \in 1 .. Cores /\ d \in 1 .. Cores /\ Cores \in Nat
  BY Constants DEF Core
<1>4. ASSUME NEW x \in Nat, NEW y \in Nat, x < y
      PROVE  y * Cores >= x * Cores + Cores
  <2>1. PICK z \in Nat : y = x + 1 + z
    <3>1. y - x - 1 \in Nat /\ y = x + 1 + (y - x - 1)
      BY <1>4
    <3> QED
      BY <3>1
  <2>2. y * Cores = x * Cores + Cores + z * Cores /\ z * Cores \in Nat
    BY <2>1, <1>3
  <2> QED
    BY <2>2, <1>3
<1>5. k * Cores \in Nat /\ l * Cores \in Nat
  BY <1>3
<1>6. ~ (k < l) /\ ~ (l < k)
  BY <1>1, <1>2, <1>3, <1>4, <1>5
<1>7. k = l
  BY <1>6
<1> QED
  BY <1>1, <1>2, <1>3, <1>5, <1>7

\* Below the end of the range a batch has the nonces of its lane.
LEMMA BatchOnLane ==
    ASSUME NEW first \in Nat, ~ (first + Batch * Cores >= Range)
    PROVE  /\ After(first) = first + Batch * Cores
           /\ \A n \in BatchFrom(first) : \E i \in 0 .. Batch - 1 : n = first + i * Cores
<1>1. \A x \in Nat : x < Range => x % Range = x
  BY Constants
<1>2. first + Batch * Cores \in Nat /\ first + Batch * Cores < Range
  BY Constants
<1>3. ASSUME NEW i \in 0 .. Batch - 1
      PROVE  first + i * Cores \in Nat /\ first + i * Cores < Range
  <2> DEFINE x == i * Cores
             y == (Batch - i) * Cores
             z == Batch * Cores
  <2>1. z = x + y /\ x \in Nat /\ y \in Nat /\ z \in Nat
    BY Constants
  <2>2. first + z < Range
    BY <1>2
  <2> HIDE DEF x, y, z
  <2>3. first + x \in Nat /\ first + x < Range
    BY <2>1, <2>2, Constants
  <2> QED
    BY <2>3 DEF x
<1> QED
  BY <1>1, <1>2, <1>3 DEF After, BatchFrom

----------------------------------------------------------------------------
(* The invariant of the quiet specification.                               *)

IsJob(msg, j) == msg.type = "job" /\ msg.job = j
IsOn(c, j)    == core[c].job = j
Coming(c, j)  == \E i \in DOMAIN inbox[c] : IsJob(inbox[c][i], j)
Gone(c, j)    == ~ IsOn(c, j) /\ ~ Coming(c, j)

\* The first of the nonces that a core will hash next.
Laid(c) == core[c].next - Batch * Cores

\* All work on job j starts at s: what was hashed is below s, or on the lane of a
\* core that is beyond it or has left the job.
Apart(j, s) ==
    /\ \A c \in Core : IsOn(c, j) =>
          /\ OnLane(Laid(c), c, s)
          /\ \A n \in core[c].input : \E i \in 0 .. Batch - 1 : n = Laid(c) + i * Cores
    /\ \A c \in Core : \A i \in DOMAIN inbox[c] : IsJob(inbox[c][i], j) => inbox[c][i].nonce = s
    /\ \A n \in hashed[j] :
          \/ n < s
          \/ \E c \in Core : OnLane(n, c, s) /\ (Gone(c, j) \/ (IsOn(c, j) /\ n < Laid(c)))

LanesApart ==
    /\ \A j \in Jobs : \E s \in Nonces : Apart(j, s)
    /\ last.job # NoJob => Apart(last.job, last.nonce)

\* Jobs are with their pools.
PoolsMatch ==
    /\ \A p \in Pools : stored[p].job # NoJob => PoolOf[stored[p].job] = p
    /\ \A c \in Core : core[c].job # NoJob => core[c].pool = PoolOf[core[c].job]
    /\ \A c \in Core : core[c].fn => core[c].job # NoJob
    /\ \A c \in Core : \A i \in DOMAIN inbox[c] : inbox[c][i].type = "job" =>
          inbox[c][i].job \in Jobs /\ inbox[c][i].pool = PoolOf[inbox[c][i].job]

\* What no pool has sent is nowhere.
FreshUnseen ==
    /\ last.job \notin fresh
    /\ \A p \in Pools : stored[p].job \notin fresh
    /\ \A j \in fresh : hashed[j] = {} /\ \A c \in Core : Gone(c, j)

\* While a message with another job is before it, core c is not at job j yet.
NotYet(c, i, j) ==
    inbox[c][i].type = "job" /\ inbox[c][i].job # j =>
        core[c].job # j /\ \A h \in DOMAIN inbox[c] : h < i => ~ IsJob(inbox[c][h], j)

\* A core that has left a job does not get it again before all is quiet, and it
\* comes to the job sent last.
Order ==
    \A c \in Core :
        /\ ~ Gone(c, last.job)
        /\ \A i \in DOMAIN inbox[c] :
              /\ NotYet(c, i, last.job)
              /\ \A k \in DOMAIN inbox[c] :
                    i < k /\ inbox[c][k].type = "job" => NotYet(c, i, inbox[c][k].job)

\* The active pool's job was sent last; when another pool's was, nothing is on
\* its way; and a job that is sent again as the last one starts where it did.
ActiveSent ==
    /\ stored[active].job \in {NoJob, last.job}
    /\ \A p \in Pools : last.job # NoJob /\ stored[p].job = last.job => stored[p].nonce \in {0, last.nonce}
    /\ last.job # NoJob /\ PoolOf[last.job] # active =>
          \A c \in Core : outbox[c] = <<>> /\ \A i \in DOMAIN inbox[c] : inbox[c][i].type # "job"

Reported(p, n) ==
    \E c \in Core : \E i \in DOMAIN outbox[c] : outbox[c][i].pool = p /\ n < outbox[c][i].nonce

\* What was hashed of the job of a pool is below the nonce kept for it, or below
\* one that a core has reported or will report.
KeptFor(p, j) ==
    \A n \in hashed[j] :
        \/ n < stored[p].nonce
        \/ Reported(p, n)
        \/ \E c \in Core : IsOn(c, j) /\ n < core[c].next

Kept ==
    \A p \in Pools : p # active /\ stored[p].job \notin {NoJob, last.job} => KeptFor(p, stored[p].job)

QInv == PoolsMatch /\ FreshUnseen /\ Order /\ ActiveSent /\ (~ wrapped => LanesApart /\ Kept)

QuietNext == Next /\ (active' # active => Quiet)

LEMMA QuietInit == Init => QInv
<1> SUFFICES ASSUME Init PROVE QInv
  OBVIOUS
<1>1. Empty.job = NoJob /\ Empty.nonce = 0 /\ NoJob \notin Jobs
  BY DispatchAssumption DEF Empty
<1>2. PoolsMatch /\ Order /\ FreshUnseen
  BY <1>1, DispatchAssumption DEF Init, PoolsMatch, Order, FreshUnseen, Gone, IsOn, Coming
<1>3. ActiveSent
  BY <1>1, DispatchAssumption DEF Init, ActiveSent
<1>4. LanesApart
  <2>1. ASSUME NEW j \in Jobs PROVE Apart(j, 0)
    BY <1>1 DEF Init, Apart, IsOn
  <2> QED
    BY <1>1, <2>1, Constants DEF LanesApart, Init
<1>5. Kept
  BY <1>1 DEF Init, Kept
<1> QED
  BY <1>2, <1>3, <1>4, <1>5 DEF QInv

----------------------------------------------------------------------------
(* Queues.                                                                 *)

LEMMA Appended ==
    ASSUME NEW S, NEW q \in Seq(S), NEW x \in S
    PROVE  /\ DOMAIN Append(q, x) = DOMAIN q \cup {Len(q) + 1}
           /\ \A i \in DOMAIN q : Append(q, x)[i] = q[i] /\ i \in Nat /\ i < Len(q) + 1
           /\ Append(q, x)[Len(q) + 1] = x
  OBVIOUS

LEMMA Tailed ==
    ASSUME NEW S, NEW q \in Seq(S), q # <<>>
    PROVE  /\ 1 \in DOMAIN q /\ Head(q) = q[1]
           /\ \A i \in DOMAIN Tail(q) : i + 1 \in DOMAIN q /\ Tail(q)[i] = q[i + 1] /\ i \in Nat \ {0}
           /\ \A i \in DOMAIN q : i = 1 \/ (i - 1 \in DOMAIN Tail(q) /\ Tail(q)[i - 1] = q[i])
           /\ \A i \in DOMAIN q : i \in Nat \ {0}
  OBVIOUS

\* At rest all cores have the job that was sent last.
LEMMA AtRest ==
    ASSUME QInv, NEW c \in Core, \A i \in DOMAIN inbox[c] : inbox[c][i].type # "job"
    PROVE  core[c].job = last.job /\ \A j \in Jobs : ~ Coming(c, j)
<1>1. \A j : ~ Coming(c, j)
  BY DEF Coming, IsJob
<1> QED
  BY <1>1 DEF QInv, Order, Gone, IsOn

LEMMA QuietRest ==
    ASSUME QInv, Quiet
    PROVE  \A c \in Core : core[c].job = last.job /\ inbox[c] = <<>> /\ outbox[c] = <<>>
                           /\ \A j \in Jobs : ~ Coming(c, j)
<1>1. \A c \in Core : inbox[c] = <<>> /\ outbox[c] = <<>>
  BY DEF Quiet
<1>2. \A c \in Core : DOMAIN inbox[c] = {}
  BY <1>1
<1> QED
  BY <1>1, <1>2, AtRest

----------------------------------------------------------------------------
(* What a step that leaves a job alone keeps.                              *)

LEMMA ApartFrame ==
    ASSUME NEW j, NEW s, Apart(j, s), hashed'[j] = hashed[j],
           \A c \in Core :
               /\ IsOn(c, j)' => IsOn(c, j)
               /\ IsOn(c, j) /\ IsOn(c, j)' => core'[c].next = core[c].next /\ core'[c].input = core[c].input
               /\ IsOn(c, j) => IsOn(c, j)' \/ Gone(c, j)'
               /\ Gone(c, j) => Gone(c, j)'
               /\ \A i \in DOMAIN inbox'[c] : IsJob(inbox'[c][i], j) => inbox'[c][i].nonce = s
    PROVE  Apart(j, s)'
<1>1. \A c \in Core : IsOn(c, j)' =>
          /\ OnLane(Laid(c)', c, s)
          /\ \A n \in core'[c].input : \E i \in 0 .. Batch - 1 : n = Laid(c)' + i * Cores
  BY DEF Apart, Laid
<1>2. ASSUME NEW n \in hashed'[j], ~ (n < s)
      PROVE  \E c \in Core : OnLane(n, c, s) /\ (Gone(c, j)' \/ (IsOn(c, j)' /\ n < Laid(c)'))
  <2>1. PICK c \in Core : OnLane(n, c, s) /\ (Gone(c, j) \/ (IsOn(c, j) /\ n < Laid(c)))
    BY <1>2 DEF Apart
  <2>2. Gone(c, j)' \/ (IsOn(c, j)' /\ n < Laid(c)')
    BY <2>1 DEF Laid
  <2> QED
    BY <2>1, <2>2
<1> QED
  BY <1>1, <1>2 DEF Apart, OnLane

LEMMA ApartSame ==
    ASSUME NEW j, NEW s, Apart(j, s), UNCHANGED <<inbox, core, hashed>>
    PROVE  Apart(j, s)'
  BY DEF Apart, Laid, Gone, Coming, IsOn

LEMMA OrderSame ==
    ASSUME Order, UNCHANGED <<last, inbox>>, \A c \in Core : core'[c].job = core[c].job
    PROVE  Order'
  BY DEF Order, NotYet, Gone, Coming, IsOn

LEMMA KeptFrame ==
    ASSUME NEW p, NEW j, KeptFor(p, j), hashed'[j] = hashed[j],
           stored'[p].nonce = stored[p].nonce, UNCHANGED <<outbox, core>>
    PROVE  KeptFor(p, j)'
  BY DEF KeptFor, Reported, IsOn

\* When a job is left while all cores are on it, they have what is to be reported.
LEMMA OnIsKept ==
    ASSUME IInv, NEW p, NEW j \in Jobs, NEW s \in Nat, Apart(j, s), \A c \in Core : IsOn(c, j)
    PROVE  KeptFor(p, j)
<1> SUFFICES ASSUME NEW n \in hashed[j]
             PROVE  \E c \in Core : IsOn(c, j) /\ n < core[c].next
  BY DEF KeptFor
<1>1. \A c \in Core : core[c].next \in Nat /\ Batch * Cores \in Nat /\ Batch * Cores > 0
  <2>1. \A c \in Core : core[c].next \in Nonces
    BY DEF IInv, TypeOK
  <2>2. Batch * Cores > 0
    BY Constants
  <2> QED
    BY <2>1, <2>2, Constants DEF Nonces
<1>2. n \in Nat
  BY Constants DEF IInv, TypeOK, Nonces
<1>3. CASE n < s
  <2>1. 1 \in Core
    BY Constants DEF Core
  <2>2. OnLane(Laid(1), 1, s)
    BY <2>1 DEF Apart
  <2>3. Laid(1) >= s /\ Laid(1) \in Nat
    BY <2>1, <2>2, LaneType
  <2>4. n < core[1].next
    BY <1>1, <1>2, <1>3, <2>1, <2>3 DEF Laid
  <2> QED
    BY <2>1, <2>4
<1>4. CASE ~ (n < s)
  <2>1. PICK c \in Core : OnLane(n, c, s) /\ (Gone(c, j) \/ (IsOn(c, j) /\ n < Laid(c)))
    BY <1>4 DEF Apart
  <2>2. n < Laid(c)
    BY <2>1 DEF Gone
  <2>3. n < core[c].next
    BY <1>1, <1>2, <2>2 DEF Laid
  <2> QED
    BY <2>3
<1> QED
  BY <1>3, <1>4

----------------------------------------------------------------------------
(* A job is sent.                                                          *)

\* What set_job does, in terms of the messages.
Sent(p, j, s) ==
    /\ active' = p /\ p = PoolOf[j]
    /\ last' = [job |-> j, nonce |-> s]
    /\ inbox' = [c \in Core |-> Append(inbox[c], [type |-> "job", job |-> j, nonce |-> s, pool |-> p])]
    /\ UNCHANGED <<outbox, core, hashed, wrapped>>

LEMMA SentFacts ==
    ASSUME IInv, NEW p \in Pools, NEW j \in Jobs, NEW s \in Nonces, Sent(p, j, s), NEW c \in Core
    PROVE  /\ DOMAIN inbox'[c] = DOMAIN inbox[c] \cup {Len(inbox[c]) + 1}
           /\ \A i \in DOMAIN inbox[c] : inbox'[c][i] = inbox[c][i] /\ i \in Nat /\ i < Len(inbox[c]) + 1
           /\ inbox'[c][Len(inbox[c]) + 1].type = "job"
           /\ inbox'[c][Len(inbox[c]) + 1].job = j
           /\ inbox'[c][Len(inbox[c]) + 1].nonce = s
           /\ inbox'[c][Len(inbox[c]) + 1].pool = p
<1> DEFINE msg == [type |-> "job", job |-> j, nonce |-> s, pool |-> p]
<1>1. msg \in Msg
  BY DEF Msg, JobOrNull
<1>2. msg.type = "job" /\ msg.job = j /\ msg.nonce = s /\ msg.pool = p
  OBVIOUS
<1>3. inbox'[c] = Append(inbox[c], msg) /\ inbox[c] \in Seq(Msg)
  BY DEF Sent, IInv, TypeOK
<1> HIDE DEF msg
<1> QED
  BY <1>1, <1>2, <1>3, Appended

\* It keeps the order, if no core has had the job or it is the one sent last.
LEMMA SentOrder ==
    ASSUME IInv, Order, NEW p \in Pools, NEW j \in Jobs, NEW s \in Nonces, Sent(p, j, s),
           last.job # j => \A c \in Core : Gone(c, j)
    PROVE  Order'
<1>1. last'.job = j /\ core' = core
  BY DEF Sent
<1> SUFFICES ASSUME NEW c \in Core
             PROVE  /\ Coming(c, j)'
                    /\ \A i \in DOMAIN inbox'[c] :
                          /\ NotYet(c, i, j)'
                          /\ \A k \in DOMAIN inbox'[c] :
                                i < k /\ inbox'[c][k].type = "job" => NotYet(c, i, inbox[c][k].job)'
  BY <1>1 DEF Order, Gone
<1>2. PICK new : new = Len(inbox[c]) + 1
  OBVIOUS
<1>3. /\ DOMAIN inbox'[c] = DOMAIN inbox[c] \cup {new}
      /\ \A i \in DOMAIN inbox[c] : inbox'[c][i] = inbox[c][i] /\ i \in Nat /\ i < new
      /\ inbox'[c][new].type = "job" /\ inbox'[c][new].job = j /\ new \in Nat
  <2>1. inbox[c] \in Seq(Msg)
    BY DEF IInv, TypeOK
  <2> QED
    BY <2>1, <1>2, SentFacts
<1>4. Coming(c, j)'
  BY <1>3 DEF Coming, IsJob
<1>5. ASSUME NEW i \in DOMAIN inbox'[c], inbox'[c][i].type = "job", inbox'[c][i].job # j
      PROVE  /\ i \in DOMAIN inbox[c] /\ core[c].job # j
             /\ \A h \in DOMAIN inbox[c] : h < i => ~ IsJob(inbox[c][h], j)
  <2>1. i \in DOMAIN inbox[c] /\ inbox[c][i].type = "job" /\ inbox[c][i].job # j
    BY <1>3, <1>5
  <2>2. CASE last.job = j
    <3>1. NotYet(c, i, j)
      BY <2>1, <2>2 DEF Order
    <3> QED
      BY <2>1, <3>1 DEF NotYet
  <2>3. CASE last.job # j
    BY <2>1, <2>3 DEF Gone, IsOn, Coming
  <2> QED
    BY <2>2, <2>3
<1>6. ASSUME NEW i \in DOMAIN inbox'[c] PROVE NotYet(c, i, j)'
  <2> SUFFICES ASSUME inbox'[c][i].type = "job", inbox'[c][i].job # j
               PROVE  core'[c].job # j /\ \A h \in DOMAIN inbox'[c] : h < i => ~ IsJob(inbox'[c][h], j)
    BY DEF NotYet
  <2>1. /\ i \in DOMAIN inbox[c] /\ core[c].job # j
        /\ \A h \in DOMAIN inbox[c] : h < i => ~ IsJob(inbox[c][h], j)
    BY <1>5
  <2>2. i \in Nat /\ i < new
    BY <2>1, <1>3
  <2>3. \A h \in DOMAIN inbox'[c] : h < i => h \in DOMAIN inbox[c] /\ inbox'[c][h] = inbox[c][h]
    BY <2>2, <1>3
  <2> QED
    BY <2>1, <2>3, <1>1
<1>7. ASSUME NEW i \in DOMAIN inbox'[c], NEW k \in DOMAIN inbox'[c], i < k, inbox'[c][k].type = "job"
      PROVE  NotYet(c, i, inbox[c][k].job)'
  <2>1. CASE k = new
    <3>1. inbox'[c][k].job = j
      BY <2>1, <1>3
    <3>2. PICK m : m = inbox'[c][k].job
      OBVIOUS
    <3>3. NotYet(c, i, m)'
      BY <3>1, <3>2, <1>6
    <3> QED
      BY <3>2, <3>3 DEF NotYet
  <2>2. CASE k # new
    <3>1. k \in DOMAIN inbox[c] /\ k < new /\ k \in Nat /\ inbox'[c][k] = inbox[c][k]
      BY <2>2, <1>3
    <3>2. i \in DOMAIN inbox[c] /\ i \in Nat /\ inbox'[c][i] = inbox[c][i]
      BY <3>1, <1>3, <1>7
    <3>3. PICK m : m = inbox[c][k].job
      OBVIOUS
    <3>4. NotYet(c, i, m)
      BY <3>1, <3>2, <3>3, <1>7 DEF Order
    <3>5. \A h \in DOMAIN inbox'[c] : h < i => h \in DOMAIN inbox[c] /\ inbox'[c][h] = inbox[c][h]
      BY <3>1, <3>2, <1>3, <1>7
    <3>6. NotYet(c, i, m)'
      BY <3>2, <3>4, <3>5, <1>1 DEF NotYet
    <3> QED
      BY <3>1, <3>3, <3>6 DEF NotYet
  <2> QED
    BY <2>1, <2>2
<1> QED
  BY <1>4, <1>6, <1>7

\* It leaves the lanes of other jobs alone.
LEMMA SentOthers ==
    ASSUME IInv, NEW p \in Pools, NEW j \in Jobs, NEW s \in Nonces, Sent(p, j, s),
           NEW k \in Jobs, k # j, NEW t, Apart(k, t)
    PROVE  Apart(k, t)'
<1>1. \A c \in Core : Gone(c, k) => Gone(c, k)'
  BY SentFacts DEF Sent, Gone, IsOn, Coming, IsJob
<1>2. \A c \in Core : \A i \in DOMAIN inbox'[c] : IsJob(inbox'[c][i], k) => inbox'[c][i].nonce = t
  BY SentFacts DEF Apart, IsJob
<1> QED
  BY <1>1, <1>2, ApartFrame DEF Sent, IsOn

\* The lanes of a job that is sent anew, when what was hashed of it is below the start.
LEMMA SentAnew ==
    ASSUME IInv, NEW p \in Pools, NEW j \in Jobs, NEW s \in Nonces, Sent(p, j, s),
           \A c \in Core : Gone(c, j), \A n \in hashed[j] : n < s
    PROVE  Apart(j, s)'
<1>1. \A c \in Core : ~ IsOn(c, j)'
  BY DEF Sent, IsOn, Gone
<1>2. \A c \in Core : \A i \in DOMAIN inbox'[c] : IsJob(inbox'[c][i], j) => inbox'[c][i].nonce = s
  BY SentFacts DEF Gone, Coming
<1>3. hashed' = hashed
  BY DEF Sent
<1> QED
  BY <1>1, <1>2, <1>3 DEF Apart

\* The lanes of a job that no core has left, when it is sent again.
LEMMA SentAgain ==
    ASSUME IInv, NEW p \in Pools, NEW j \in Jobs, NEW s \in Nonces, Sent(p, j, s),
           \A c \in Core : ~ Gone(c, j), Apart(j, s)
    PROVE  Apart(j, s)'
<1>1. \A c \in Core : \A i \in DOMAIN inbox'[c] : IsJob(inbox'[c][i], j) => inbox'[c][i].nonce = s
  BY SentFacts DEF Apart, IsJob
<1>2. core' = core /\ hashed' = hashed
  BY DEF Sent
<1> QED
  BY <1>1, <1>2, ApartFrame DEF IsOn

----------------------------------------------------------------------------
(* The master's steps.                                                     *)

\* A pool that is in the background, or will be after a quiet step.
LEMMA LeftIsKept ==
    ASSUME IInv, QInv, ~ wrapped, NEW q \in Pools, stored[q].job # NoJob, q # active \/ Quiet
    PROVE  KeptFor(q, stored[q].job)
<1>1. PoolOf[stored[q].job] = q /\ stored[q].job \in Jobs
  BY DEF QInv, PoolsMatch, IInv, TypeOK, Entry, JobOrNull
<1>2. CASE stored[q].job # last.job
  BY <1>1, <1>2 DEF QInv, Kept, ActiveSent
<1>3. CASE stored[q].job = last.job
  <2>1. \A c \in Core : IsOn(c, last.job)
    <3>1. CASE Quiet
      BY <3>1, QuietRest DEF IsOn
    <3>2. CASE q # active
      <4>1. \A c \in Core : \A i \in DOMAIN inbox[c] : inbox[c][i].type # "job"
        BY <3>2, <1>1, <1>3 DEF QInv, ActiveSent
      <4> QED
        BY <4>1, AtRest DEF IsOn
    <3> QED
      BY <3>1, <3>2
  <2>2. Apart(last.job, last.nonce) /\ last.nonce \in Nat
    BY <1>3, Constants DEF QInv, LanesApart, IInv, TypeOK, Entry, Nonces
  <2> QED
    BY <2>1, <2>2, <1>1, <1>3, OnIsKept
<1> QED
  BY <1>2, <1>3

LEMMA PoolLostQuiet ==
    ASSUME IInv, QInv, NEW p \in Pools, PoolLost(p)
    PROVE  QInv'
<1>1. /\ \A q \in Pools : stored'[q] = IF q = p THEN Empty ELSE stored[q]
      /\ UNCHANGED <<active, last, fresh, inbox, outbox, core, hashed, wrapped>>
  BY DEF PoolLost, IInv, TypeOK
<1>2. Empty.job = NoJob /\ NoJob \notin fresh
  BY DispatchAssumption DEF Empty, IInv, TypeOK
<1>3. PoolsMatch'
  BY <1>1, <1>2 DEF QInv, PoolsMatch
<1>4. FreshUnseen'
  BY <1>1, <1>2 DEF QInv, FreshUnseen, Gone, Coming, IsOn
<1>5. Order'
  BY <1>1, OrderSame DEF QInv
<1>6. ActiveSent'
  BY <1>1, <1>2 DEF QInv, ActiveSent, IInv, TypeOK
<1>7. ASSUME ~ wrapped PROVE LanesApart' /\ Kept'
  <2>1. LanesApart'
    BY <1>1, <1>7 DEF QInv, LanesApart, Apart, Laid, Gone, Coming, IsOn
  <2>2. Kept'
    BY <1>1, <1>2, <1>7, KeptFrame DEF QInv, Kept
  <2> QED
    BY <2>1, <2>2
<1> QED
  BY <1>1, <1>3, <1>4, <1>5, <1>6, <1>7 DEF QInv

LEMMA GiveUpQuiet ==
    ASSUME IInv, QInv, NEW p \in Pools, GiveUp(p), Quiet
    PROVE  QInv'
<1>1. /\ active' = p /\ p \notin {active, Donate} /\ stored[p].job = NoJob
      /\ UNCHANGED <<stored, last, fresh, outbox, core, hashed, wrapped>>
  BY DEF GiveUp
<1>2. ASSUME NEW c \in Core PROVE \A i \in DOMAIN inbox'[c] : inbox'[c][i].type = "pause"
  <2>1. inbox[c] = <<>> /\ DOMAIN inbox[c] = {}
    BY QuietRest
  <2>2. CASE inbox' = inbox
    BY <2>1, <2>2
  <2>3. CASE inbox' # inbox
    <3> DEFINE msg == [type |-> "pause", job |-> NoJob, nonce |-> 0, pool |-> p]
    <3>1. inbox'[c] = Append(inbox[c], msg) /\ inbox[c] \in Seq(Msg)
      BY <2>3 DEF GiveUp, ToWorkers, IInv, TypeOK
    <3>2. msg \in Msg /\ msg.type = "pause"
      BY Constants DEF Msg, JobOrNull
    <3> HIDE DEF msg
    <3> QED
      BY <3>1, <3>2, <2>1, Appended
  <2> QED
    BY <2>2, <2>3
<1>3. \A c \in Core : \A j : ~ Coming(c, j)'
  BY <1>2 DEF Coming, IsJob
<1>4. PoolsMatch'
  BY <1>1, <1>2 DEF QInv, PoolsMatch
<1>5. FreshUnseen'
  BY <1>1, <1>3 DEF QInv, FreshUnseen, Gone, IsOn
<1>6. Order'
  BY <1>1, <1>2, QuietRest DEF Order, NotYet, Gone, IsOn
<1>7. ActiveSent'
  BY <1>1, <1>2, QuietRest DEF QInv, ActiveSent
<1>8. ASSUME ~ wrapped PROVE LanesApart' /\ Kept'
  <2>1. ASSUME NEW j, NEW s, Apart(j, s) PROVE Apart(j, s)'
    <3>1. \A c \in Core : Gone(c, j) => Gone(c, j)'
      BY <1>1, <1>3 DEF Gone, IsOn
    <3>2. \A c \in Core : \A i \in DOMAIN inbox'[c] : ~ IsJob(inbox'[c][i], j)
      BY <1>2 DEF IsJob
    <3> QED
      BY <1>1, <2>1, <3>1, <3>2, ApartFrame DEF IsOn
  <2>2. LanesApart'
    BY <1>1, <1>8, <2>1 DEF QInv, LanesApart
  <2>3. Kept'
    BY <1>1, <1>8, KeptFrame DEF QInv, Kept, ActiveSent
  <2> QED
    BY <2>2, <2>3
<1> QED
  BY <1>1, <1>4, <1>5, <1>6, <1>7, <1>8 DEF QInv

LEMMA ResumeQuiet ==
    ASSUME IInv, QInv, NEW p \in Pools, Resume(p), Quiet
    PROVE  QInv'
<1>1. PICK j : j = stored[p].job
  OBVIOUS
<1>2. PICK s : s = StartNonce(stored[p])
  OBVIOUS
<1>3. /\ j \in Jobs /\ PoolOf[j] = p /\ s \in Nonces /\ j \notin fresh /\ s \in Nat
      /\ p # active /\ stored[p].nonce \in Nat
  BY <1>2, <1>1, StartType, Constants
     DEF Resume, QInv, PoolsMatch, FreshUnseen, IInv, TypeOK, Entry, JobOrNull, Nonces
<1>4. Sent(p, j, s) /\ stored' = stored /\ fresh' = fresh
  BY <1>2, <1>3, <1>1 DEF Resume, SetJob, ToWorkers, Sent
<1>5. s = IF stored[p].nonce # 0 THEN stored[p].nonce ELSE last.nonce
  BY <1>2 DEF StartNonce
<1>6. last'.job = j /\ last'.nonce = s /\ active' = p /\ UNCHANGED <<outbox, core, hashed, wrapped>>
  BY <1>4 DEF Sent
<1>7. \A c \in Core : core[c].job = last.job /\ inbox[c] = <<>> /\ outbox[c] = <<>> /\ ~ Coming(c, j)
                      /\ DOMAIN inbox[c] = {}
  BY <1>3, QuietRest
<1>8. ASSUME NEW c \in Core PROVE \A i \in DOMAIN inbox'[c] :
          inbox'[c][i].type = "job" /\ inbox'[c][i].job = j /\ inbox'[c][i].pool = p
          /\ i = Len(inbox[c]) + 1
  BY <1>3, <1>4, <1>7, SentFacts
<1>9. PoolsMatch'
  BY <1>3, <1>4, <1>6, <1>8 DEF QInv, PoolsMatch
<1>10. FreshUnseen'
  BY <1>3, <1>4, <1>6, <1>8 DEF QInv, FreshUnseen, Gone, IsOn, Coming, IsJob
<1>11. Order'
  <2>1. ASSUME NEW c \in Core PROVE Coming(c, j)'
    <3>1. DOMAIN inbox'[c] # {}
      BY <1>3, <1>4, SentFacts
    <3> QED
      BY <3>1, <1>8 DEF Coming, IsJob
  <2>2. \A c \in Core : \A i, k \in DOMAIN inbox'[c] :
            inbox'[c][i].job = j /\ inbox'[c][k].job = j
    BY <1>8
  <2> QED
    BY <2>1, <2>2, <1>6 DEF Order, NotYet, Gone
<1>12. ActiveSent'
  BY <1>3, <1>4, <1>5, <1>6, <1>1 DEF QInv, PoolsMatch, ActiveSent
<1>13. ASSUME ~ wrapped PROVE Apart(j, s)'
  <2>1. CASE j = last.job
    <3>1. j # NoJob /\ Apart(last.job, last.nonce) /\ stored[p].nonce \in {0, last.nonce}
      BY <1>3, <1>1, <1>13, <2>1, DispatchAssumption DEF QInv, LanesApart, ActiveSent
    <3>2. s = last.nonce
      BY <3>1, <1>5
    <3>3. \A c \in Core : ~ Gone(c, j)
      BY <2>1, <1>7 DEF Gone, IsOn
    <3> QED
      BY <3>1, <3>2, <3>3, <2>1, <1>3, <1>4, SentAgain
  <2>2. CASE j # last.job
    <3>1. \A c \in Core : ~ IsOn(c, j) /\ Gone(c, j)
      BY <1>7, <2>2 DEF IsOn, Gone
    <3>2. KeptFor(p, j)
      BY <1>3, <1>1, <1>13, LeftIsKept, DispatchAssumption
    <3>3. \A n : ~ Reported(p, n)
      BY <1>7 DEF Reported
    <3>4. \A n \in hashed[j] : n < stored[p].nonce /\ n \in Nat
      BY <3>1, <3>2, <3>3, <1>3, Constants DEF KeptFor, IInv, TypeOK, Nonces
    <3>5. \A n \in hashed[j] : n < s
      BY <3>4, <1>3, <1>5
    <3> QED
      BY <3>1, <3>5, <1>3, <1>4, SentAnew
  <2> QED
    BY <2>1, <2>2
<1>14. ASSUME ~ wrapped PROVE LanesApart'
  <2>1. ASSUME NEW k \in Jobs, k # j PROVE \E t \in Nonces : Apart(k, t)'
    BY <1>3, <1>4, <1>14, <2>1, SentOthers DEF QInv, LanesApart
  <2> QED
    BY <1>3, <1>6, <1>13, <1>14, <2>1 DEF LanesApart
<1>15. ASSUME ~ wrapped PROVE Kept'
  BY <1>3, <1>4, <1>6, <1>15, LeftIsKept, KeptFrame DEF Kept
<1> QED
  BY <1>6, <1>9, <1>10, <1>11, <1>12, <1>14, <1>15 DEF QInv

LEMMA PoolJobQuiet ==
    ASSUME IInv, QInv, NEW job \in Jobs, PoolJob(job), active' # active => Quiet
    PROVE  QInv'
<1>1. PICK p : p = PoolOf[job]
  OBVIOUS
<1>2. /\ p \in Pools /\ job \in fresh /\ job # NoJob
      /\ fresh' = fresh \ {job} /\ UNCHANGED <<outbox, core, hashed, wrapped>>
      /\ \A q \in Pools : stored'[q] = IF q = p THEN [job |-> job, nonce |-> 0] ELSE stored[q]
  BY <1>1, DispatchAssumption DEF PoolJob, IInv, TypeOK
<1>3. /\ \A q \in Pools : stored[q].job # job
      /\ last.job # job /\ hashed[job] = {} /\ \A c \in Core : Gone(c, job)
  BY <1>2 DEF QInv, FreshUnseen
<1>4. \A q \in Pools : stored'[q].job = IF q = p THEN job ELSE stored[q].job
  BY <1>2
<1>5. \A q \in Pools : stored'[q].nonce = IF q = p THEN 0 ELSE stored[q].nonce
  BY <1>2
<1>6. CASE active' = p
  <2>1. PICK s : s = last.nonce
    OBVIOUS
  <2>2. Sent(p, job, s)
    <3>1. StartNonce([job |-> job, nonce |-> 0]) = s
      BY <2>1 DEF StartNonce
    <3> QED
      BY <3>1, <1>1, <1>6 DEF PoolJob, SetJob, ToWorkers, Sent
  <2>3. s \in Nonces /\ last'.job = job /\ last'.nonce = s
    BY <2>1, <2>2 DEF Sent, IInv, TypeOK, Entry
  <2>4. PoolsMatch'
    BY <1>1, <1>2, <1>4, <2>2, <2>3, SentFacts DEF QInv, PoolsMatch
  <2>5. FreshUnseen'
    <3>1. ASSUME NEW k \in fresh', NEW c \in Core PROVE Gone(c, k)'
      <4>1. k # job /\ Gone(c, k)
        BY <1>2, <3>1 DEF QInv, FreshUnseen
      <4> QED
        BY <4>1, <1>2, <2>2, <2>3, SentFacts DEF Gone, IsOn, Coming, IsJob
    <3> QED
      BY <1>2, <1>4, <2>3, <3>1 DEF QInv, FreshUnseen
  <2>6. Order'
    BY <1>2, <1>3, <2>2, <2>3, SentOrder DEF QInv, Gone
  <2>7. ActiveSent'
    BY <1>1, <1>2, <1>3, <1>4, <1>5, <1>6, <2>3 DEF ActiveSent
  <2>8. ASSUME ~ wrapped PROVE LanesApart'
    <3>1. Apart(job, s)'
      BY <1>2, <1>3, <2>2, <2>3, SentAnew
    <3>2. ASSUME NEW k \in Jobs, k # job PROVE \E t \in Nonces : Apart(k, t)'
      BY <1>2, <2>2, <2>3, <2>8, <3>2, SentOthers DEF QInv, LanesApart
    <3> QED
      BY <2>3, <3>1, <3>2 DEF LanesApart
  <2>9. ASSUME ~ wrapped PROVE Kept'
    <3> SUFFICES ASSUME NEW q \in Pools, q # p, stored[q].job # NoJob
                 PROVE  KeptFor(q, stored[q].job)'
      BY <1>4, <1>6 DEF Kept
    <3>1. KeptFor(q, stored[q].job)
      BY <1>6, <2>9, LeftIsKept
    <3>2. PICK j : j = stored[q].job
      OBVIOUS
    <3>3. KeptFor(q, j)'
      BY <1>2, <3>1, <3>2, KeptFrame
    <3> QED
      BY <3>2, <3>3, <1>4
  <2> QED
    BY <1>2, <2>4, <2>5, <2>6, <2>7, <2>8, <2>9 DEF QInv
<1>7. CASE active' # p
  <2>1. active' = active /\ UNCHANGED <<last, inbox>>
    BY <1>1, <1>7 DEF PoolJob
  <2>2. PoolsMatch'
    BY <1>1, <1>2, <1>4, <2>1 DEF QInv, PoolsMatch
  <2>3. FreshUnseen'
    BY <1>2, <1>4, <2>1 DEF QInv, FreshUnseen, Gone, IsOn, Coming
  <2>4. Order'
    BY <1>2, <2>1, OrderSame DEF QInv
  <2>5. ActiveSent'
    BY <1>2, <1>3, <1>4, <1>5, <1>7, <2>1 DEF QInv, ActiveSent, IInv, TypeOK
  <2>6. ASSUME ~ wrapped PROVE LanesApart'
    BY <1>2, <2>1, <2>6 DEF QInv, LanesApart, Apart, Laid, Gone, Coming, IsOn
  <2>7. ASSUME ~ wrapped PROVE Kept'
    <3> SUFFICES ASSUME NEW q \in Pools, q # active, stored'[q].job \notin {NoJob, last.job}
                 PROVE  KeptFor(q, stored[q].job)'
      BY <2>1 DEF Kept
    <3>1. PICK j : j = stored'[q].job
      OBVIOUS
    <3>2. CASE q = p
      BY <1>2, <1>3, <1>4, <3>1, <3>2 DEF KeptFor
    <3>3. CASE q # p
      <4>1. j = stored[q].job /\ KeptFor(q, j)
        BY <1>4, <2>7, <3>1, <3>3 DEF QInv, Kept
      <4>2. KeptFor(q, j)'
        BY <4>1, <1>2, <3>3, KeptFrame
      <4> QED
        BY <4>2, <3>1
    <3> QED
      BY <3>2, <3>3
  <2> QED
    BY <1>2, <2>2, <2>3, <2>4, <2>5, <2>6, <2>7 DEF QInv
<1> QED
  BY <1>6, <1>7

\* The active pool's job is the one sent last, and starts where it did.
LEMMA SendAgainQuiet ==
    ASSUME IInv, QInv, SendAgain
    PROVE  QInv'
<1>1. PICK j : j = stored[active].job
  OBVIOUS
<1>2. PICK s : s = last.nonce
  OBVIOUS
<1>3. /\ active \in Pools /\ j # NoJob /\ j \in Jobs /\ j = last.job /\ PoolOf[j] = active
      /\ s \in Nonces
  BY <1>1, <1>2 DEF SendAgain, QInv, ActiveSent, PoolsMatch, IInv, TypeOK, Entry, JobOrNull
<1>4. /\ \A q \in Pools : stored'[q] = IF q = active THEN [job |-> j, nonce |-> 0] ELSE stored[q]
      /\ UNCHANGED <<active, fresh, outbox, core, hashed, wrapped>>
  BY <1>1, <1>3 DEF SendAgain, IInv, TypeOK
<1>5. Sent(active, j, s)
  <2>1. StartNonce([job |-> j, nonce |-> 0]) = s
    BY <1>2 DEF StartNonce
  <2> QED
    BY <2>1, <1>1, <1>3, <1>4 DEF SendAgain, SetJob, ToWorkers, Sent
<1>6. /\ \A q \in Pools : stored'[q].job = stored[q].job
      /\ \A q \in Pools : stored'[q].nonce = IF q = active THEN 0 ELSE stored[q].nonce
  BY <1>1, <1>4
<1>7. last'.job = j /\ last'.nonce = s
  BY <1>5 DEF Sent
<1>8. PoolsMatch'
  BY <1>3, <1>4, <1>5, <1>6, SentFacts DEF QInv, PoolsMatch
<1>9. FreshUnseen'
  <2>1. j \notin fresh
    BY <1>3 DEF QInv, FreshUnseen
  <2>2. ASSUME NEW k \in fresh, NEW c \in Core PROVE Gone(c, k)'
    <3>1. k # j /\ Gone(c, k)
      BY <2>1, <2>2 DEF QInv, FreshUnseen
    <3> QED
      BY <3>1, <1>3, <1>4, <1>5, SentFacts DEF Gone, IsOn, Coming, IsJob
  <2> QED
    BY <2>1, <2>2, <1>4, <1>6, <1>7 DEF QInv, FreshUnseen
<1>10. Order'
  BY <1>3, <1>5, SentOrder DEF QInv
<1>11. ActiveSent'
  BY <1>2, <1>3, <1>4, <1>6, <1>7 DEF QInv, ActiveSent
<1>12. ASSUME ~ wrapped PROVE LanesApart'
  <2>1. Apart(j, s) /\ \A c \in Core : ~ Gone(c, j)
    BY <1>2, <1>3, <1>12 DEF QInv, LanesApart, Order
  <2>2. Apart(j, s)'
    BY <2>1, <1>3, <1>5, SentAgain
  <2>3. ASSUME NEW k \in Jobs, k # j PROVE \E t \in Nonces : Apart(k, t)'
    BY <2>3, <1>3, <1>5, <1>12, SentOthers DEF QInv, LanesApart
  <2> QED
    BY <2>2, <2>3, <1>3, <1>7 DEF LanesApart
<1>13. ASSUME ~ wrapped PROVE Kept'
  <2> SUFFICES ASSUME NEW q \in Pools, q # active, stored[q].job \notin {NoJob, last.job}
               PROVE  KeptFor(q, stored[q].job)'
    BY <1>3, <1>4, <1>6, <1>7 DEF Kept
  <2>1. PICK k : k = stored[q].job
    OBVIOUS
  <2>2. KeptFor(q, k)
    BY <2>1, <1>13 DEF QInv, Kept
  <2>3. KeptFor(q, k)'
    BY <2>2, <1>4, <1>6, KeptFrame
  <2> QED
    BY <2>1, <2>3, <1>6
<1> QED
  BY <1>4, <1>8, <1>9, <1>10, <1>11, <1>12, <1>13 DEF QInv

LEMMA LastNonceQuiet ==
    ASSUME IInv, QInv, NEW c \in Core, LastNonce(c)
    PROVE  QInv'
<1>1. PICK msg : msg = Head(outbox[c])
  OBVIOUS
<1>2. /\ outbox[c] # <<>> /\ outbox[c] \in Seq(Answer) /\ msg \in Answer
      /\ outbox' = [outbox EXCEPT ![c] = Tail(@)]
      /\ UNCHANGED <<active, last, fresh, inbox, core, hashed, wrapped>>
  BY <1>1 DEF LastNonce, IInv, TypeOK
<1>3. /\ \A q \in Pools : stored'[q].job = stored[q].job
      /\ \A q \in Pools : stored[q].nonce \in Nat /\ stored'[q].nonce \in Nat
                          /\ stored'[q].nonce >= stored[q].nonce
      /\ \A q \in Pools : stored'[q].nonce # stored[q].nonce => q = msg.pool /\ q # active
                                                             /\ stored[q].job # NoJob
      /\ \A q \in Pools : q = msg.pool /\ q # active /\ stored[q].job # NoJob => stored'[q].nonce >= msg.nonce
  <2>1. msg.pool \in Pools /\ msg.nonce \in Nat
    BY <1>2, Constants DEF Answer, Nonces
  <2>2. \A q \in Pools : stored[q].nonce \in Nat
    BY Constants DEF IInv, TypeOK, Entry, Nonces
  <2>3. CASE msg.pool = active \/ stored[msg.pool].job = NoJob \/ stored[msg.pool].nonce >= msg.nonce
    <3>1. stored' = stored
      BY <1>1, <2>3 DEF LastNonce
    <3> QED
      BY <2>1, <2>2, <2>3, <3>1
  <2>4. CASE ~ (msg.pool = active \/ stored[msg.pool].job = NoJob \/ stored[msg.pool].nonce >= msg.nonce)
    <3>1. stored' = [stored EXCEPT ![msg.pool].nonce = msg.nonce]
      BY <1>1, <2>4 DEF LastNonce
    <3>2. /\ \A q \in Pools : stored'[q].job = stored[q].job
          /\ \A q \in Pools : stored'[q].nonce = IF q = msg.pool THEN msg.nonce ELSE stored[q].nonce
      BY <3>1, <2>1 DEF IInv, TypeOK, Entry
    <3> QED
      BY <2>1, <2>2, <2>4, <3>2
  <2> QED
    BY <2>3, <2>4
<1>4. PoolsMatch' /\ FreshUnseen' /\ Order'
  <2>1. PoolsMatch' /\ FreshUnseen'
    BY <1>2, <1>3 DEF QInv, PoolsMatch, FreshUnseen, Gone, IsOn, Coming
  <2>2. Order'
    BY <1>2, OrderSame DEF QInv
  <2> QED
    BY <2>1, <2>2
<1>5. ActiveSent'
  <2>1. last.job # NoJob => PoolOf[last.job] = active
    BY <1>2 DEF QInv, ActiveSent
  <2>2. \A p \in Pools : last.job # NoJob /\ stored[p].job = last.job => stored'[p].nonce = stored[p].nonce
    BY <2>1, <1>3 DEF QInv, PoolsMatch
  <2> QED
    BY <1>2, <1>3, <2>1, <2>2 DEF QInv, ActiveSent, IInv, TypeOK
<1>6. ASSUME ~ wrapped PROVE LanesApart'
  BY <1>2, <1>6, ApartSame DEF QInv, LanesApart
<1>7. ASSUME ~ wrapped PROVE Kept'
  <2> SUFFICES ASSUME NEW q \in Pools, q # active, stored[q].job \notin {NoJob, last.job}
               PROVE  KeptFor(q, stored[q].job)'
    BY <1>2, <1>3 DEF Kept
  <2>1. PICK j : j = stored[q].job
    OBVIOUS
  <2>2. KeptFor(q, j)
    BY <1>7, <2>1 DEF QInv, Kept
  <2>3. ASSUME NEW n \in hashed[j]
        PROVE  n < stored'[q].nonce \/ Reported(q, n)' \/ \E d \in Core : IsOn(d, j) /\ n < core[d].next
    <3>1. n \in Nat
      <4>1. j \in Jobs
        BY <2>1 DEF IInv, TypeOK, Entry, JobOrNull
      <4> QED
        BY <4>1, Constants DEF IInv, TypeOK, Nonces
    <3>2. CASE n < stored[q].nonce
      BY <3>1, <3>2, <1>3
    <3>3. CASE Reported(q, n)
      <4>1. PICK d \in Core : \E i \in DOMAIN outbox[d] : outbox[d][i].pool = q /\ n < outbox[d][i].nonce
        BY <3>3 DEF Reported
      <4>2. PICK i \in DOMAIN outbox[d] : outbox[d][i].pool = q /\ n < outbox[d][i].nonce
        BY <4>1
      <4>3. CASE d # c
        <5>1. outbox'[d] = outbox[d]
          BY <4>3, <1>2 DEF IInv, TypeOK
        <5> QED
          BY <4>2, <5>1 DEF Reported
      <4>4. CASE d = c /\ i = 1
        <5>1. msg = outbox[c][1]
          BY <1>1, <1>2, Tailed
        <5>2. q = msg.pool /\ n < msg.nonce /\ msg.nonce \in Nat
          BY <5>1, <4>2, <4>4, <1>2, Constants DEF Answer, Nonces
        <5> QED
          BY <5>2, <3>1, <1>3
      <4>5. CASE d = c /\ i # 1
        <5>1. outbox'[c] = Tail(outbox[c])
          BY <1>2 DEF IInv, TypeOK
        <5>2. i - 1 \in DOMAIN outbox'[c] /\ outbox'[c][i - 1] = outbox[c][i]
          BY <5>1, <4>2, <4>5, <1>2, Tailed
        <5> QED
          BY <5>2, <4>2, <4>5 DEF Reported
      <4> QED
        BY <4>3, <4>4, <4>5
    <3> QED
      BY <3>2, <3>3, <2>2 DEF KeptFor
  <2>4. KeptFor(q, j)'
    BY <2>3, <1>2 DEF KeptFor, IsOn
  <2> QED
    BY <2>1, <2>4, <1>3
<1> QED
  BY <1>2, <1>4, <1>5, <1>6, <1>7 DEF QInv

----------------------------------------------------------------------------
(* The cores' steps.                                                       *)

\* A core takes a message: what is on its way gets less.
LEMMA Taken ==
    ASSUME IInv, NEW c \in Core, inbox[c] # <<>>, inbox' = [inbox EXCEPT ![c] = Tail(@)]
    PROVE  /\ \A d \in Core : d # c => inbox'[d] = inbox[d]
           /\ 1 \in DOMAIN inbox[c] /\ Head(inbox[c]) = inbox[c][1]
           /\ \A i \in DOMAIN inbox'[c] : /\ i \in Nat \ {0} /\ i + 1 \in DOMAIN inbox[c]
                                          /\ inbox'[c][i] = inbox[c][i + 1]
           /\ \A d \in Core : \A i \in DOMAIN inbox'[d] :
                 \E k \in DOMAIN inbox[d] : inbox'[d][i] = inbox[d][k]
           /\ \A d \in Core : \A j : ~ Coming(d, j) => ~ Coming(d, j)'
<1>1. inbox[c] \in Seq(Msg) /\ inbox'[c] = Tail(inbox[c])
  BY DEF IInv, TypeOK
<1>2. \A d \in Core : d # c => inbox'[d] = inbox[d]
  BY DEF IInv, TypeOK
<1>3. /\ 1 \in DOMAIN inbox[c] /\ Head(inbox[c]) = inbox[c][1]
      /\ \A i \in DOMAIN inbox'[c] : /\ i \in Nat \ {0} /\ i + 1 \in DOMAIN inbox[c]
                                     /\ inbox'[c][i] = inbox[c][i + 1]
  <2>1. PICK q : q = inbox[c]
    OBVIOUS
  <2>2. q \in Seq(Msg) /\ q # <<>> /\ inbox'[c] = Tail(q)
    BY <1>1, <2>1
  <2>3. /\ 1 \in DOMAIN q /\ Head(q) = q[1]
        /\ \A i \in DOMAIN Tail(q) : i + 1 \in DOMAIN q /\ Tail(q)[i] = q[i + 1] /\ i \in Nat \ {0}
    BY <2>2, Tailed
  <2> QED
    BY <2>1, <2>2, <2>3
<1>4. \A d \in Core : \A i \in DOMAIN inbox'[d] : \E k \in DOMAIN inbox[d] : inbox'[d][i] = inbox[d][k]
  BY <1>2, <1>3
<1>5. \A d \in Core : \A j : ~ Coming(d, j) => ~ Coming(d, j)'
  BY <1>4 DEF Coming
<1> QED
  BY <1>2, <1>3, <1>4, <1>5

\* What is behind the first message stays in the queue.
LEMMA StillComing ==
    ASSUME IInv, NEW c \in Core, inbox[c] # <<>>, inbox' = [inbox EXCEPT ![c] = Tail(@)], last' = last,
           NEW k \in DOMAIN inbox[c], k # 1, IsJob(inbox[c][k], last.job)
    PROVE  Coming(c, last.job)'
<1>1. inbox[c] \in Seq(Msg) /\ inbox'[c] = Tail(inbox[c])
  BY DEF IInv, TypeOK
<1>2. PICK q : q = inbox[c]
  OBVIOUS
<1>3. q \in Seq(Msg) /\ q # <<>> /\ k \in DOMAIN q
  BY <1>1, <1>2
<1>4. k - 1 \in DOMAIN Tail(q) /\ Tail(q)[k - 1] = q[k]
  BY <1>3, Tailed
<1>5. k - 1 \in DOMAIN inbox'[c] /\ IsJob(inbox'[c][k - 1], last.job)
  BY <1>1, <1>2, <1>4
<1> QED
  BY <1>5 DEF Coming

LEMMA TakenOrder ==
    ASSUME IInv, Order, NEW c \in Core, inbox[c] # <<>>, inbox' = [inbox EXCEPT ![c] = Tail(@)],
           last' = last, \A d \in Core : d # c => core'[d].job = core[d].job,
           core'[c].job = IF inbox[c][1].type = "job" THEN inbox[c][1].job ELSE core[c].job
    PROVE  Order'
<1> SUFFICES ASSUME NEW d \in Core
             PROVE  /\ ~ Gone(d, last.job)'
                    /\ \A i \in DOMAIN inbox'[d] :
                          /\ NotYet(d, i, last.job)'
                          /\ \A k \in DOMAIN inbox'[d] :
                                i < k /\ inbox'[d][k].type = "job" => NotYet(d, i, inbox[d][k].job)'
  BY DEF Order
<1>1. CASE d # c
  <2>1. inbox'[d] = inbox[d] /\ core'[d].job = core[d].job
    BY <1>1, Taken
  <2>2. ~ Gone(d, last.job)'
    BY <2>1 DEF Order, Gone, IsOn, Coming
  <2>3. \A i \in DOMAIN inbox[d] : \A j : NotYet(d, i, j) => NotYet(d, i, j)'
    BY <2>1 DEF NotYet
  <2>4. \A i \in DOMAIN inbox[d] : NotYet(d, i, last.job)'
    <3>1. \A i \in DOMAIN inbox[d] : NotYet(d, i, last.job)
      BY DEF Order
    <3>2. PICK j : j = last.job
      OBVIOUS
    <3> QED
      BY <2>3, <3>1, <3>2 DEF NotYet
  <2>5. ASSUME NEW i \in DOMAIN inbox[d], NEW k \in DOMAIN inbox[d], i < k, inbox[d][k].type = "job"
        PROVE  NotYet(d, i, inbox[d][k].job)'
    <3>1. NotYet(d, i, inbox[d][k].job)
      BY <2>5 DEF Order
    <3> QED
      BY <2>1, <3>1 DEF NotYet
  <2> QED
    BY <2>1, <2>2, <2>4, <2>5
<1>2. CASE d = c
  <2>1. /\ 1 \in DOMAIN inbox[c]
        /\ \A i \in DOMAIN inbox'[c] : /\ i \in Nat \ {0} /\ i + 1 \in DOMAIN inbox[c]
                                       /\ inbox'[c][i] = inbox[c][i + 1]
    BY Taken
  <2>2. ASSUME NEW i \in DOMAIN inbox'[c], NEW j, NotYet(c, i + 1, j) PROVE NotYet(c, i, j)'
    <3> SUFFICES ASSUME inbox'[c][i].type = "job", inbox'[c][i].job # j
                 PROVE  core'[c].job # j /\ \A h \in DOMAIN inbox'[c] : h < i => ~ IsJob(inbox'[c][h], j)
      BY DEF NotYet
    <3>1. core[c].job # j /\ \A h \in DOMAIN inbox[c] : h < i + 1 => ~ IsJob(inbox[c][h], j)
      BY <2>1, <2>2 DEF NotYet
    <3>2. 1 < i + 1 /\ ~ IsJob(inbox[c][1], j)
      BY <3>1, <2>1
    <3>3. core'[c].job # j
      BY <3>1, <3>2 DEF IsJob
    <3>4. ASSUME NEW h \in DOMAIN inbox'[c], h < i PROVE ~ IsJob(inbox'[c][h], j)
      <4>1. h + 1 < i + 1 /\ h + 1 \in DOMAIN inbox[c] /\ inbox'[c][h] = inbox[c][h + 1]
        BY <2>1, <3>4
      <4> QED
        BY <4>1, <3>1
    <3> QED
      BY <3>3, <3>4
  <2>3. \A i \in DOMAIN inbox'[c] : NotYet(c, i, last.job)'
    <3>1. \A i \in DOMAIN inbox'[c] : NotYet(c, i + 1, last.job)
      BY <2>1 DEF Order
    <3>2. PICK j : j = last.job
      OBVIOUS
    <3>3. \A i \in DOMAIN inbox'[c] : NotYet(c, i, j)'
      BY <2>2, <3>1, <3>2
    <3> QED
      BY <3>2, <3>3
  <2>4. ASSUME NEW i \in DOMAIN inbox'[c], NEW k \in DOMAIN inbox'[c], i < k, inbox'[c][k].type = "job"
        PROVE  NotYet(c, i, inbox[c][k].job)'
    <3>1. PICK j : j = inbox'[c][k].job
      OBVIOUS
    <3>2. /\ i + 1 < k + 1 /\ i + 1 \in DOMAIN inbox[c] /\ k + 1 \in DOMAIN inbox[c]
          /\ inbox[c][k + 1].type = "job" /\ inbox[c][k + 1].job = j
      BY <2>1, <2>4, <3>1
    <3>3. NotYet(c, i + 1, j)
      BY <3>2 DEF Order
    <3>4. NotYet(c, i, j)'
      BY <2>2, <3>3
    <3> QED
      BY <3>1, <3>4 DEF NotYet
  <2>5. ~ Gone(c, last.job)'
    <3>1. CASE inbox[c][1].type = "job" /\ inbox[c][1].job = last.job
      BY <3>1 DEF Gone, IsOn
    <3>2. CASE inbox[c][1].type = "job" /\ inbox[c][1].job # last.job
      <4>1. NotYet(c, 1, last.job) /\ ~ Gone(c, last.job)
        BY <2>1 DEF Order
      <4>2. ~ IsOn(c, last.job) /\ Coming(c, last.job)
        BY <4>1, <3>2 DEF NotYet, Gone, IsOn
      <4>3. PICK k \in DOMAIN inbox[c] : IsJob(inbox[c][k], last.job)
        BY <4>2 DEF Coming
      <4>4. k # 1
        BY <4>3, <3>2 DEF IsJob
      <4> QED
        BY <4>3, <4>4, StillComing DEF Gone
    <3>3. CASE inbox[c][1].type # "job"
      <4>1. core'[c].job = core[c].job /\ ~ Gone(c, last.job)
        BY <3>3 DEF Order
      <4>2. CASE IsOn(c, last.job)
        BY <4>1, <4>2 DEF Gone, IsOn
      <4>3. CASE Coming(c, last.job)
        <5>1. PICK k \in DOMAIN inbox[c] : IsJob(inbox[c][k], last.job)
          BY <4>3 DEF Coming
        <5>2. k # 1
          BY <5>1, <3>3 DEF IsJob
        <5> QED
          BY <5>1, <5>2, StillComing DEF Gone
      <4> QED
        BY <4>1, <4>2, <4>3 DEF Gone
    <3> QED
      BY <3>1, <3>2, <3>3
  <2> QED
    BY <1>2, <2>3, <2>4, <2>5
<1> QED
  BY <1>1, <1>2

\* A message that sets no job up: a pause, or a blob that the core has.
LEMMA TakeSameQuiet ==
    ASSUME IInv, QInv, NEW c \in Core,
           TakePause(c) \/ (TakeJob(c) /\ Duplicate(c, Head(inbox[c])))
    PROVE  QInv'
<1>1. /\ inbox[c] # <<>> /\ inbox' = [inbox EXCEPT ![c] = Tail(@)]
      /\ UNCHANGED <<active, stored, last, fresh, outbox, hashed, wrapped>>
      /\ \A d \in Core : /\ core'[d].job = core[d].job /\ core'[d].pool = core[d].pool
                         /\ core'[d].next = core[d].next /\ core'[d].input = core[d].input
                         /\ core'[d].fn => core[d].fn
  <2>1. CASE TakePause(c)
    BY <2>1 DEF TakePause, master, IInv, TypeOK
  <2>2. CASE TakeJob(c) /\ Duplicate(c, Head(inbox[c]))
    BY <2>2 DEF TakeJob, master
  <2> QED
    BY <2>1, <2>2
<1>2. /\ \A d \in Core : \A i \in DOMAIN inbox'[d] : \E k \in DOMAIN inbox[d] : inbox'[d][i] = inbox[d][k]
      /\ \A d \in Core : \A j : ~ Coming(d, j) => ~ Coming(d, j)'
  BY <1>1, Taken
<1>3. PoolsMatch'
  BY <1>1, <1>2 DEF QInv, PoolsMatch
<1>4. FreshUnseen'
  BY <1>1, <1>2 DEF QInv, FreshUnseen, Gone, IsOn
<1>5. Order'
  <2>1. Head(inbox[c]) = inbox[c][1]
    BY <1>1, Taken
  <2>2. core'[c].job = IF inbox[c][1].type = "job" THEN inbox[c][1].job ELSE core[c].job
    <3>1. CASE TakePause(c)
      BY <3>1, <2>1, <1>1 DEF TakePause
    <3>2. CASE TakeJob(c) /\ Duplicate(c, Head(inbox[c]))
      BY <3>2, <2>1, <1>1 DEF TakeJob, Duplicate
    <3> QED
      BY <3>1, <3>2
  <2> QED
    BY <1>1, <2>2, TakenOrder DEF QInv
<1>6. ActiveSent'
  BY <1>1, <1>2 DEF QInv, ActiveSent
<1>7. ASSUME ~ wrapped PROVE LanesApart' /\ Kept'
  <2>1. ASSUME NEW j, NEW s, Apart(j, s) PROVE Apart(j, s)'
    <3>1. \A d \in Core : (Gone(d, j) => Gone(d, j)') /\ (IsOn(d, j)' <=> IsOn(d, j))
      BY <1>1, <1>2 DEF Gone, IsOn
    <3>2. \A d \in Core : \A i \in DOMAIN inbox'[d] : IsJob(inbox'[d][i], j) => inbox'[d][i].nonce = s
      BY <1>2, <2>1 DEF Apart
    <3>3. \A d \in Core : core'[d].next = core[d].next /\ core'[d].input = core[d].input
      BY <1>1
    <3>4. hashed'[j] = hashed[j]
      BY <1>1
    <3> QED
      BY <2>1, <3>1, <3>2, <3>3, <3>4, ApartFrame
  <2>2. Kept'
    BY <1>1, <1>7 DEF QInv, Kept, KeptFor, Reported, IsOn
  <2> QED
    BY <1>1, <1>7, <2>1, <2>2 DEF QInv, LanesApart
<1> QED
  BY <1>1, <1>3, <1>4, <1>5, <1>6, <1>7 DEF QInv

LEMMA TakeNewQuiet ==
    ASSUME IInv, QInv, NEW c \in Core, TakeJob(c), ~ Duplicate(c, Head(inbox[c]))
    PROVE  QInv'
<1>1. PICK msg : msg = Head(inbox[c])
  OBVIOUS
<1>2. PICK first : first = First(c, msg.nonce)
  OBVIOUS
<1>3. /\ inbox[c] # <<>> /\ msg.type = "job" /\ msg.job # core[c].job
      /\ inbox' = [inbox EXCEPT ![c] = Tail(@)]
      /\ core' = [core EXCEPT ![c] =
            [fn |-> core[c].fn \/ core[c].job = NoJob, job |-> msg.job, pool |-> msg.pool,
             input |-> BatchFrom(first), next |-> After(first)]]
      /\ outbox' = IF core[c].next = 0 THEN outbox
                   ELSE [outbox EXCEPT ![c] = Append(@, [nonce |-> core[c].next, pool |-> core[c].pool])]
      /\ wrapped' = (wrapped \/ first + Batch * Cores >= Range)
      /\ UNCHANGED <<active, stored, last, fresh, hashed>>
  BY <1>1, <1>2 DEF TakeJob, Duplicate, master
<1>4. /\ \A d \in Core : d # c => core'[d] = core[d]
      /\ core'[c].job = msg.job /\ core'[c].pool = msg.pool
      /\ core'[c].input = BatchFrom(first) /\ core'[c].next = After(first)
  BY <1>3 DEF IInv, TypeOK
<1>5. /\ \A d \in Core : d # c => inbox'[d] = inbox[d]
      /\ 1 \in DOMAIN inbox[c] /\ msg = inbox[c][1]
      /\ \A i \in DOMAIN inbox'[c] : /\ i \in Nat \ {0} /\ i + 1 \in DOMAIN inbox[c]
                                     /\ inbox'[c][i] = inbox[c][i + 1]
      /\ \A d \in Core : \A i \in DOMAIN inbox'[d] : \E k \in DOMAIN inbox[d] : inbox'[d][i] = inbox[d][k]
      /\ \A d \in Core : \A j : ~ Coming(d, j) => ~ Coming(d, j)'
  BY <1>1, <1>3, Taken
<1>6. msg.job \in Jobs /\ msg.job # NoJob /\ msg.pool = PoolOf[msg.job]
  BY <1>3, <1>5, DispatchAssumption DEF QInv, PoolsMatch
<1>7. Coming(c, msg.job) /\ IsJob(msg, msg.job)
  BY <1>3, <1>5 DEF Coming, IsJob
<1>8. PoolsMatch'
  BY <1>3, <1>4, <1>5, <1>6 DEF QInv, PoolsMatch
<1>9. \A d \in Core : \A j : Gone(d, j) => Gone(d, j)'
  <2> SUFFICES ASSUME NEW d \in Core, NEW j, Gone(d, j) PROVE ~ IsOn(d, j)'
    BY <1>5 DEF Gone
  <2>1. CASE d # c
    BY <2>1, <1>4 DEF Gone, IsOn
  <2>2. CASE d = c
    <3>1. j # msg.job
      BY <1>7, <2>2 DEF Gone
    <3> QED
      BY <2>2, <3>1, <1>4 DEF IsOn
  <2> QED
    BY <2>1, <2>2
<1>10. FreshUnseen'
  BY <1>3, <1>9 DEF QInv, FreshUnseen
<1>11. Order'
  BY <1>3, <1>4, <1>5, TakenOrder DEF QInv
<1>12. ActiveSent'
  BY <1>3, <1>5 DEF QInv, ActiveSent
<1>13. ASSUME ~ wrapped' PROVE LanesApart'
  <2>1. ~ wrapped /\ ~ (first + Batch * Cores >= Range)
    BY <1>3, <1>13
  <2>2. ASSUME NEW k, k # msg.job, NEW t, Apart(k, t) PROVE Apart(k, t)'
    <3>1. \A d \in Core : /\ IsOn(d, k)' => IsOn(d, k)
                          /\ IsOn(d, k)' => d # c
      BY <2>2, <1>4 DEF IsOn
    <3>2. \A d \in Core : IsOn(d, k) => IsOn(d, k)' \/ Gone(d, k)'
      <4> SUFFICES ASSUME NEW d \in Core, IsOn(d, k), ~ IsOn(d, k)' PROVE Gone(d, k)'
        OBVIOUS
      <4>1. d = c
        BY <1>4 DEF IsOn
      <4>2. ASSUME NEW i \in DOMAIN inbox'[c], IsJob(inbox'[c][i], k) PROVE FALSE
        <5>1. i \in Nat \ {0} /\ i + 1 \in DOMAIN inbox[c] /\ IsJob(inbox[c][i + 1], k) /\ 1 < i + 1
          BY <4>2, <1>5
        <5>2. NotYet(c, 1, inbox[c][i + 1].job)
          BY <5>1, <1>5 DEF QInv, Order, IsJob
        <5>3. core[c].job # inbox[c][i + 1].job
          BY <5>1, <5>2, <2>2, <1>3, <1>5 DEF NotYet, IsJob
        <5> QED
          BY <5>1, <5>3, <4>1 DEF IsOn, IsJob
      <4> QED
        BY <4>1, <4>2 DEF Gone, Coming
    <3>3. \A d \in Core : \A i \in DOMAIN inbox'[d] : IsJob(inbox'[d][i], k) => inbox'[d][i].nonce = t
      BY <1>5, <2>2 DEF Apart
    <3>4. \A d \in Core : IsOn(d, k)' => core'[d].next = core[d].next /\ core'[d].input = core[d].input
      BY <3>1, <1>4
    <3> QED
      BY <2>2, <3>1, <3>2, <3>3, <3>4, <1>3, <1>9, ApartFrame
  <2>3. ASSUME NEW t \in Nonces, Apart(msg.job, t) PROVE \E j : j = msg.job /\ Apart(j, t)'
    <3>1. PICK j : j = msg.job
      OBVIOUS
    <3>2. msg.nonce = t /\ t \in Nat
      BY <2>3, <1>5, <1>7, Constants DEF Apart, Nonces
    <3>3. first \in Nat /\ OnLane(first, c, t)
      BY <3>2, <1>2, LaneStart, LaneType
    <3>4. /\ core'[c].next = first + Batch * Cores
          /\ \A n \in core'[c].input : \E i \in 0 .. Batch - 1 : n = first + i * Cores
      BY <3>3, <2>1, <1>4, BatchOnLane
    <3>5. Laid(c)' = first
      BY <3>3, <3>4, Constants DEF Laid
    <3>6. \A d \in Core : d # c => (IsOn(d, j)' <=> IsOn(d, j)) /\ Laid(d)' = Laid(d)
      BY <1>4 DEF IsOn, Laid
    <3>7. \A d \in Core : IsOn(d, j)' =>
              /\ OnLane(Laid(d)', d, t)
              /\ \A n \in core'[d].input : \E i \in 0 .. Batch - 1 : n = Laid(d)' + i * Cores
      <4> SUFFICES ASSUME NEW d \in Core, IsOn(d, j)'
                   PROVE  /\ OnLane(Laid(d)', d, t)
                          /\ \A n \in core'[d].input : \E i \in 0 .. Batch - 1 : n = Laid(d)' + i * Cores
        OBVIOUS
      <4>1. CASE d = c
        BY <4>1, <3>3, <3>4, <3>5
      <4>2. CASE d # c
        BY <4>2, <3>1, <3>6, <1>4, <2>3 DEF Apart
      <4> QED
        BY <4>1, <4>2
    <3>8. \A d \in Core : \A i \in DOMAIN inbox'[d] : IsJob(inbox'[d][i], j) => inbox'[d][i].nonce = t
      BY <1>5, <2>3, <3>1 DEF Apart
    <3>9. ASSUME NEW n \in hashed'[j], ~ (n < t)
          PROVE  \E d \in Core : OnLane(n, d, t) /\ (Gone(d, j)' \/ (IsOn(d, j)' /\ n < Laid(d)'))
      <4>1. PICK d \in Core : OnLane(n, d, t) /\ (Gone(d, j) \/ (IsOn(d, j) /\ n < Laid(d)))
        BY <1>3, <2>3, <3>1, <3>9 DEF Apart
      <4>2. d # c
        BY <4>1, <3>1, <1>3, <1>7 DEF Gone, IsOn
      <4> QED
        BY <4>1, <4>2, <3>6, <1>9
    <3> QED
      BY <3>1, <3>7, <3>8, <3>9 DEF Apart, OnLane
  <2>4. ASSUME NEW j \in Jobs, NEW t \in Nonces, Apart(j, t) PROVE Apart(j, t)'
    BY <2>2, <2>3, <2>4
  <2>5. last.job # NoJob => last.job \in Jobs /\ last.nonce \in Nonces
    BY DEF IInv, TypeOK, Entry, JobOrNull
  <2> QED
    BY <1>3, <2>1, <2>4, <2>5 DEF QInv, LanesApart
<1>14. ASSUME ~ wrapped' PROVE Kept'
  <2> SUFFICES ASSUME NEW p \in Pools, p # active, stored[p].job \notin {NoJob, last.job}
               PROVE  KeptFor(p, stored[p].job)'
    BY <1>3 DEF Kept
  <2>1. PICK j : j = stored[p].job
    OBVIOUS
  <2>2. KeptFor(p, j) /\ PoolOf[j] = p /\ j # NoJob /\ j \in Jobs
    BY <1>3, <1>14, <2>1 DEF QInv, Kept, PoolsMatch, IInv, TypeOK, Entry, JobOrNull
  <2>3. ASSUME NEW n \in hashed[j]
        PROVE  n < stored[p].nonce \/ Reported(p, n)' \/ \E d \in Core : IsOn(d, j)' /\ n < core'[d].next
    <3>1. n \in Nat
      BY <2>2, Constants DEF IInv, TypeOK, Nonces
    <3>2. \A d \in Core : outbox[d] \in Seq(Answer)
      BY DEF IInv, TypeOK
    <3>3. CASE Reported(p, n)
      <4>1. PICK d \in Core : \E i \in DOMAIN outbox[d] : outbox[d][i].pool = p /\ n < outbox[d][i].nonce
        BY <3>3 DEF Reported
      <4>2. PICK i \in DOMAIN outbox[d] : outbox[d][i].pool = p /\ n < outbox[d][i].nonce
        BY <4>1
      <4>3. i \in DOMAIN outbox'[d] /\ outbox'[d][i] = outbox[d][i]
        <5>1. outbox'[d] = outbox[d] \/ \E x : outbox'[d] = Append(outbox[d], x)
          BY <1>3 DEF IInv, TypeOK
        <5> QED
          BY <3>2, <4>2, <5>1
      <4> QED
        BY <4>2, <4>3 DEF Reported
    <3>4. CASE \E d \in Core : IsOn(d, j) /\ n < core[d].next
      <4>1. PICK d \in Core : IsOn(d, j) /\ n < core[d].next
        BY <3>4
      <4>2. CASE d # c
        BY <4>1, <4>2, <1>4 DEF IsOn
      <4>3. CASE d = c
        <5>1. core[c].next # 0 /\ core[c].pool = p
          <6>1. core[c].next \in Nat
            BY Constants DEF IInv, TypeOK, Nonces
          <6> QED
            BY <6>1, <4>1, <4>3, <3>1, <2>2 DEF QInv, PoolsMatch, IsOn
        <5>2. PICK a : a = [nonce |-> core[c].next, pool |-> core[c].pool]
          OBVIOUS
        <5>3. outbox'[c] = Append(outbox[c], a)
          BY <5>1, <5>2, <1>3 DEF IInv, TypeOK
        <5>4. Len(outbox[c]) + 1 \in DOMAIN outbox'[c] /\ outbox'[c][Len(outbox[c]) + 1] = a
          BY <5>3, <3>2
        <5>5. a.pool = p /\ n < a.nonce
          BY <5>1, <5>2, <4>1, <4>3
        <5> QED
          BY <5>4, <5>5 DEF Reported
      <4> QED
        BY <4>2, <4>3
    <3> QED
      BY <2>2, <3>3, <3>4 DEF KeptFor
  <2>4. KeptFor(p, j)'
    BY <1>3, <2>3 DEF KeptFor
  <2> QED
    BY <2>1, <2>4, <1>3
<1>15. ~ wrapped' => ~ wrapped
  BY <1>3
<1> QED
  BY <1>8, <1>10, <1>11, <1>12, <1>13, <1>14 DEF QInv

\* What a core hashes before the range ends is on its lane and beyond what it
\* has hashed.
LEMMA InputIsNew ==
    ASSUME IInv, QInv, NEW c \in Core, core[c].fn, ~ wrapped, NEW s \in Nat, Apart(core[c].job, s)
    PROVE  /\ Laid(c) \in Nat /\ Laid(c) >= s /\ OnLane(Laid(c), c, s)
           /\ \A n \in core[c].input : OnLane(n, c, s) /\ n \in Nat /\ n >= Laid(c) /\ n < core[c].next
<1>1. OnLane(Laid(c), c, s) /\ \A n \in core[c].input : \E i \in 0 .. Batch - 1 : n = Laid(c) + i * Cores
  BY DEF Apart, IsOn
<1>2. Laid(c) \in Nat /\ Laid(c) >= s
  BY <1>1, LaneType
<1>3. core[c].next \in Nat
  BY Constants DEF IInv, TypeOK, Nonces
<1>4. ASSUME NEW n \in core[c].input
      PROVE  OnLane(n, c, s) /\ n \in Nat /\ n >= Laid(c) /\ n < core[c].next
  <2>1. PICK i \in 0 .. Batch - 1 : n = Laid(c) + i * Cores
    BY <1>1
  <2>2. i \in Nat /\ OnLane(n, c, s)
    BY <2>1, <1>1, LaneGoesOn
  <2>3. /\ i * Cores \in Nat /\ (Batch - i) * Cores \in Nat /\ (Batch - i) * Cores > 0
        /\ Batch * Cores = i * Cores + (Batch - i) * Cores
    BY Constants
  <2>4. PICK x, y : x = i * Cores /\ y = (Batch - i) * Cores
    OBVIOUS
  <2>5. Laid(c) = core[c].next - (x + y)
    BY <2>3, <2>4 DEF Laid
  <2>6. n = Laid(c) + x /\ x \in Nat /\ y \in Nat /\ y > 0
    BY <2>1, <2>3, <2>4
  <2>7. n \in Nat /\ n >= Laid(c) /\ n < core[c].next
    BY <2>5, <2>6, <1>2, <1>3
  <2> QED
    BY <2>2, <2>7
<1> QED
  BY <1>1, <1>2, <1>4

LEMMA HashQuiet ==
    ASSUME IInv, QInv, Algo = "c29", NEW c \in Core, Hash(c)
    PROVE  QInv'
<1>1. PICK first : first = core[c].next
  OBVIOUS
<1>2. PICK j : j = core[c].job
  OBVIOUS
<1>3. /\ core[c].fn /\ first # 0
      /\ hashed' = [hashed EXCEPT ![j] = @ \cup core[c].input]
      /\ core' = [core EXCEPT ![c] =
            [@ EXCEPT !.input = BatchFrom(first), !.next = After(first), !.fn = first <= After(first)]]
      /\ wrapped' = (wrapped \/ first + Batch * Cores >= Range)
      /\ UNCHANGED <<active, stored, last, fresh, inbox, outbox>>
  BY <1>1, <1>2, RewrittenC29 DEF Hash, master
<1>4. j \in Jobs /\ j # NoJob /\ first \in Nat
  BY <1>1, <1>2, <1>3, Constants, DispatchAssumption DEF QInv, PoolsMatch, IInv, TypeOK, JobOrNull, Nonces
<1>5. /\ \A d \in Core : core'[d].job = core[d].job /\ core'[d].pool = core[d].pool
      /\ \A d \in Core : d # c => core'[d] = core[d]
      /\ core'[c].input = BatchFrom(first) /\ core'[c].next = After(first)
  BY <1>3 DEF IInv, TypeOK
<1>6. /\ hashed'[j] = hashed[j] \cup core[c].input
      /\ \A k \in Jobs : k # j => hashed'[k] = hashed[k]
  BY <1>3, <1>4 DEF IInv, TypeOK
<1>7. \A d \in Core : \A k : (IsOn(d, k)' <=> IsOn(d, k)) /\ (Coming(d, k)' <=> Coming(d, k))
                              /\ (Gone(d, k)' <=> Gone(d, k))
  BY <1>3, <1>5 DEF IsOn, Coming, Gone
<1>8. PoolsMatch'
  BY <1>2, <1>3, <1>4, <1>5 DEF QInv, PoolsMatch
<1>9. FreshUnseen'
  <2>1. j \notin fresh
    BY <1>2 DEF QInv, FreshUnseen, Gone, IsOn
  <2>2. fresh \subseteq Jobs
    BY DEF IInv, TypeOK
  <2> QED
    BY <2>1, <2>2, <1>3, <1>6, <1>7 DEF QInv, FreshUnseen
<1>10. Order' /\ ActiveSent'
  <2>1. Order'
    BY <1>3, <1>5, OrderSame DEF QInv
  <2> QED
    BY <2>1, <1>3 DEF QInv, ActiveSent
<1>11. ASSUME ~ wrapped' PROVE LanesApart' /\ Kept'
  <2>1. ~ wrapped /\ ~ (first + Batch * Cores >= Range)
    BY <1>3, <1>11
  <2>2. After(first) = first + Batch * Cores
        /\ \A n \in BatchFrom(first) : \E i \in 0 .. Batch - 1 : n = first + i * Cores
    BY <2>1, <1>4, BatchOnLane
  <2>3. Laid(c)' = first /\ first = Laid(c) + Batch * Cores /\ Batch * Cores \in Nat
    BY <2>2, <1>1, <1>4, <1>5, Constants DEF Laid
  <2>4. \A d \in Core : d # c => Laid(d)' = Laid(d)
    BY <1>5 DEF Laid
  <2>5. ASSUME NEW k \in Jobs, k # j, NEW t, Apart(k, t) PROVE Apart(k, t)'
    <3>1. \A d \in Core : IsOn(d, k) => d # c
      BY <2>5, <1>2 DEF IsOn
    <3>2. \A d \in Core : \A i \in DOMAIN inbox'[d] : IsJob(inbox'[d][i], k) => inbox'[d][i].nonce = t
      BY <1>3, <2>5 DEF Apart
    <3>3. \A d \in Core : IsOn(d, k) => core'[d].next = core[d].next /\ core'[d].input = core[d].input
      BY <3>1, <1>5
    <3> QED
      BY <2>5, <1>6, <1>7, <3>2, <3>3, ApartFrame
  <2>6. ASSUME NEW t \in Nonces, Apart(j, t) PROVE Apart(j, t)'
    <3>1. t \in Nat
      BY Constants DEF Nonces
    <3>2. /\ Laid(c) \in Nat /\ Laid(c) >= t /\ OnLane(Laid(c), c, t)
          /\ \A n \in core[c].input : OnLane(n, c, t) /\ n < core[c].next
      BY <3>1, <2>1, <2>6, <1>2, <1>3, InputIsNew
    <3>3. OnLane(first, c, t)
      <4>1. Batch \in Nat
        BY Constants
      <4> QED
        BY <4>1, <3>1, <3>2, <2>3, LaneGoesOn
    <3>4. \A d \in Core : IsOn(d, j)' =>
              /\ OnLane(Laid(d)', d, t)
              /\ \A n \in core'[d].input : \E i \in 0 .. Batch - 1 : n = Laid(d)' + i * Cores
      <4> SUFFICES ASSUME NEW d \in Core, IsOn(d, j)'
                   PROVE  /\ OnLane(Laid(d)', d, t)
                          /\ \A n \in core'[d].input : \E i \in 0 .. Batch - 1 : n = Laid(d)' + i * Cores
        OBVIOUS
      <4>1. CASE d = c
        BY <4>1, <3>3, <2>2, <2>3, <1>5
      <4>2. CASE d # c
        BY <4>2, <2>4, <2>6, <1>5, <1>7 DEF Apart
      <4> QED
        BY <4>1, <4>2
    <3>5. \A d \in Core : \A i \in DOMAIN inbox'[d] : IsJob(inbox'[d][i], j) => inbox'[d][i].nonce = t
      BY <1>3, <2>6 DEF Apart
    <3>6. ASSUME NEW n \in hashed'[j], ~ (n < t)
          PROVE  \E d \in Core : OnLane(n, d, t) /\ (Gone(d, j)' \/ (IsOn(d, j)' /\ n < Laid(d)'))
      <4>1. CASE n \in core[c].input
        BY <4>1, <3>2, <2>3, <1>1, <1>2, <1>7 DEF IsOn
      <4>2. CASE n \in hashed[j]
        <5>1. PICK d \in Core : OnLane(n, d, t) /\ (Gone(d, j) \/ (IsOn(d, j) /\ n < Laid(d)))
          BY <4>2, <3>6, <2>6 DEF Apart
        <5>2. CASE d # c
          BY <5>1, <5>2, <2>4, <1>7
        <5>3. CASE d = c
          <6>1. n \in Nat
            BY <5>1, <3>1, LaneType
          <6>2. n < Laid(c)
            BY <5>1, <5>3, <1>2 DEF Gone, IsOn
          <6>3. n < first
            BY <6>1, <6>2, <3>2, <2>3
          <6> QED
            BY <6>3, <5>1, <5>3, <2>3, <1>2, <1>7 DEF IsOn
        <5> QED
          BY <5>2, <5>3
      <4> QED
        BY <4>1, <4>2, <3>6, <1>6
    <3> QED
      BY <3>4, <3>5, <3>6 DEF Apart, OnLane
  <2>7. ASSUME NEW k \in Jobs, NEW t \in Nonces, Apart(k, t) PROVE Apart(k, t)'
    <3>1. CASE k = j
      BY <3>1, <2>6, <2>7
    <3>2. CASE k # j
      BY <3>2, <2>5, <2>7
    <3> QED
      BY <3>1, <3>2
  <2>8. last.job # NoJob => last.job \in Jobs /\ last.nonce \in Nonces
    BY DEF IInv, TypeOK, Entry, JobOrNull
  <2>9. LanesApart'
    BY <1>3, <2>1, <2>7, <2>8 DEF QInv, LanesApart
  <2>10. Kept'
    <3> SUFFICES ASSUME NEW p \in Pools, p # active, stored[p].job \notin {NoJob, last.job}
                 PROVE  KeptFor(p, stored[p].job)'
      BY <1>3 DEF Kept
    <3>1. PICK k : k = stored[p].job
      OBVIOUS
    <3>2. KeptFor(p, k) /\ k \in Jobs
      BY <2>1, <3>1 DEF QInv, Kept, IInv, TypeOK, Entry, JobOrNull
    <3>3. ASSUME NEW n \in hashed'[k]
          PROVE  n < stored[p].nonce \/ Reported(p, n) \/ \E d \in Core : IsOn(d, k)' /\ n < core'[d].next
      <4>1. PICK t \in Nonces : Apart(j, t)
        BY <2>1, <1>4 DEF QInv, LanesApart
      <4>2. t \in Nat
        BY Constants DEF Nonces
      <4>3. \A m \in core[c].input : m \in Nat /\ m < first
        BY <4>1, <4>2, <2>1, <1>1, <1>2, <1>3, InputIsNew
      <4>4. core'[c].next = first + Batch * Cores
        BY <2>2, <1>5
      <4>5. CASE k = j /\ n \in core[c].input
        <5>1. n < core'[c].next
          BY <4>3, <4>4, <4>5, <2>3, <1>4
        <5> QED
          BY <5>1, <4>5, <1>2, <1>7 DEF IsOn
      <4>6. CASE n \in hashed[k]
        <5>1. n \in Nat
          BY <4>6, <3>2, Constants DEF IInv, TypeOK, Nonces
        <5>2. \A d \in Core : n < core[d].next => n < core'[d].next
          BY <5>1, <4>4, <2>3, <1>1, <1>4, <1>5
        <5> QED
          BY <5>2, <4>6, <3>2, <1>7 DEF KeptFor
      <4> QED
        BY <4>5, <4>6, <3>2, <3>3, <1>6
    <3>4. KeptFor(p, k)'
      BY <1>3, <3>3 DEF KeptFor, Reported
    <3> QED
      BY <3>1, <3>4, <1>3
  <2> QED
    BY <2>9, <2>10
<1>12. ~ wrapped' => ~ wrapped
  BY <1>3
<1> QED
  BY <1>8, <1>9, <1>10, <1>11 DEF QInv

\* A next nonce of 0 is met only when a nonce has passed the end of the range.
LEMMA HashAsTestQuiet ==
    ASSUME IInv, QInv, NEW c \in Core, NEW goesOn \in BOOLEAN, HashAsTest(c, goesOn)
    PROVE  QInv'
<1>1. PICK j : j = core[c].job
  OBVIOUS
<1>2. /\ core[c].fn /\ core[c].next = 0
      /\ hashed' = [hashed EXCEPT ![j] = @ \cup core[c].input]
      /\ core' = [core EXCEPT ![c] = [@ EXCEPT !.fn = goesOn, !.input = {}]]
      /\ UNCHANGED <<active, stored, last, fresh, inbox, outbox, wrapped>>
  BY <1>1 DEF HashAsTest, master
<1>3. j \in Jobs /\ j \notin fresh
  BY <1>1, <1>2, DispatchAssumption DEF QInv, PoolsMatch, FreshUnseen, Gone, IsOn, IInv, TypeOK, JobOrNull
<1>4. /\ \A d \in Core : /\ core'[d].job = core[d].job /\ core'[d].pool = core[d].pool
                          /\ core'[d].fn => core[d].fn
      /\ \A k \in Jobs : k # j => hashed'[k] = hashed[k]
  BY <1>2 DEF IInv, TypeOK
<1>5. wrapped
  <2> SUFFICES ASSUME ~ wrapped PROVE FALSE
    OBVIOUS
  <2>1. PICK t \in Nonces : Apart(j, t)
    BY <1>3 DEF QInv, LanesApart
  <2>2. t \in Nat
    BY Constants DEF Nonces
  <2>3. Laid(c) \in Nat
    BY <2>1, <2>2, <1>1, <1>2, InputIsNew
  <2>4. Batch * Cores > 0
    BY Constants
  <2> QED
    BY <2>3, <2>4, <1>2, Constants DEF Laid
<1>6. PoolsMatch'
  BY <1>2, <1>4 DEF QInv, PoolsMatch
<1>7. FreshUnseen'
  <2>1. fresh \subseteq Jobs
    BY DEF IInv, TypeOK
  <2> QED
    BY <2>1, <1>2, <1>3, <1>4 DEF QInv, FreshUnseen, Gone, IsOn, Coming
<1>8. Order' /\ ActiveSent'
  <2>1. Order'
    BY <1>2, <1>4, OrderSame DEF QInv
  <2> QED
    BY <2>1, <1>2 DEF QInv, ActiveSent
<1> QED
  BY <1>2, <1>5, <1>6, <1>7, <1>8 DEF QInv

----------------------------------------------------------------------------
(* No nonce is hashed again.                                               *)

LEMMA QuietKeeps ==
    ASSUME IInv, QInv, Algo = "c29", [QuietNext]_vars
    PROVE  QInv'
<1>1. CASE UNCHANGED vars
  <2>1. UNCHANGED <<active, stored, last, fresh, inbox, outbox, core, hashed, wrapped>>
    BY <1>1 DEF vars, master
  <2> QED
    BY <2>1 DEF QInv, PoolsMatch, FreshUnseen, Order, NotYet, ActiveSent, LanesApart, Kept, KeptFor,
                Reported, Apart, Laid, Gone, Coming, IsOn
<1>2. ASSUME NEW job \in Jobs, PoolJob(job), active' # active => Quiet PROVE QInv'
  BY <1>2, PoolJobQuiet
<1>3. ASSUME NEW p \in Pools, PoolLost(p) \/ Resume(p) \/ GiveUp(p), active' # active => Quiet PROVE QInv'
  <2>1. Resume(p) \/ GiveUp(p) => active' # active
    BY DEF Resume, GiveUp
  <2> QED
    BY <2>1, <1>3, PoolLostQuiet, ResumeQuiet, GiveUpQuiet
<1>4. ASSUME NEW c \in Core, LastNonce(c) PROVE QInv'
  BY <1>4, LastNonceQuiet
<1>5. ASSUME NEW c \in Core, TakeJob(c) PROVE QInv'
  BY <1>5, TakeSameQuiet, TakeNewQuiet
<1>6. ASSUME NEW c \in Core, TakePause(c) \/ Hash(c) PROVE QInv'
  BY <1>6, TakeSameQuiet, HashQuiet
<1>7. ASSUME NEW c \in Core, NEW goesOn \in BOOLEAN, HashAsTest(c, goesOn) PROVE QInv'
  BY <1>7, HashAsTestQuiet
<1>8. ASSUME SendAgain PROVE QInv'
  BY <1>8, SendAgainQuiet
<1> QED
  BY <1>1, <1>2, <1>3, <1>4, <1>5, <1>6, <1>7, <1>8 DEF QuietNext, Next, Master

\* The other algos write later nonces in another order of bytes.
C29Inv == Algo = "c29" => QInv

LEMMA C29InvHolds == QuietSpec => [](IInv /\ C29Inv)
<1>1. Init => IInv /\ C29Inv
  BY InitHolds, QuietInit DEF C29Inv
<1>2. IInv /\ C29Inv /\ [Next /\ (active' # active => Quiet)]_vars => IInv' /\ C29Inv'
  BY NextKeeps, QuietKeeps DEF QuietNext, C29Inv
<1> QED
  BY <1>1, <1>2, PTL DEF QuietSpec

\* As long as the pools change only when no message is on its way, no core hashes
\* a nonce of a c29 job that was hashed for the same job before, by itself or by
\* another core, whatever jobs are sent, sent again, lost and resumed, until a
\* nonce passes the end of the range (mominer.js:173-183, mominer-job.cpp:168,
\* 393-410).
THEOREM NoNonceAgain == QuietSpec => NoRework
<1>1. ASSUME IInv, QInv, NEW c \in Core, Hash(c), ~ wrapped
      PROVE  core[c].input \cap hashed[core[c].job] = {}
  <2>1. PICK j : j = core[c].job
    OBVIOUS
  <2>2. core[c].fn /\ j \in Jobs
    BY <2>1, <1>1, DispatchAssumption DEF Hash, QInv, PoolsMatch, IInv, TypeOK, JobOrNull
  <2>3. PICK t \in Nonces : Apart(j, t)
    BY <2>2, <1>1 DEF QInv, LanesApart
  <2>4. t \in Nat
    BY Constants DEF Nonces
  <2>5. /\ Laid(c) \in Nat /\ Laid(c) >= t
        /\ \A n \in core[c].input : OnLane(n, c, t) /\ n \in Nat /\ n >= Laid(c)
    BY <2>1, <2>2, <2>3, <2>4, <1>1, InputIsNew
  <2>6. ASSUME NEW n \in core[c].input, n \in hashed[j] PROVE FALSE
    <3>1. ~ (n < t) /\ ~ (n < Laid(c))
      BY <2>4, <2>5
    <3>2. PICK d \in Core : OnLane(n, d, t) /\ (Gone(d, j) \/ (IsOn(d, j) /\ n < Laid(d)))
      BY <2>3, <2>6, <3>1 DEF Apart
    <3>3. d = c
      BY <3>2, <2>4, <2>5, LanesDisjoint
    <3> QED
      BY <3>1, <3>2, <3>3, <2>1 DEF Gone, IsOn
  <2> QED
    BY <2>1, <2>6
<1>2. IInv /\ C29Inv /\ [Next /\ (active' # active => Quiet)]_vars
      => [\A c \in Core : Hash(c) /\ Algo = "c29" /\ ~ wrapped =>
              core[c].input \cap hashed[core[c].job] = {}]_vars
  BY <1>1 DEF C29Inv
<1> QED
  BY <1>2, C29InvHolds, PTL DEF QuietSpec, NoRework

=============================================================================
