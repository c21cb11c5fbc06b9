--------------------------- MODULE C29SearchProofs ---------------------------
(***************************************************************************)
(* Proofs about C29Search, for any jobs and bounds.                        *)
(*                                                                         *)
(* The argument: m_job_ref has been counted up when a job changes, so what *)
(* bears the present m_job_ref was searched for the present job (Now), and *)
(* within a job each nonce is searched once (Once), so the count of the    *)
(* threads is their number (Counted).                                      *)
(***************************************************************************)
EXTENDS C29Search, FiniteSetTheorems, TLAPS

\* A search or a solution is of this job or older, and of the blob it says.
OfBlob(s) ==
    /\ s.ref <= job_ref
    /\ s.ref = job_ref => s.seed.job = job
    /\ s.seed.nonce = s.nonce

Now ==
    /\ \A s \in searches : OfBlob(s)
    /\ \A i \in DOMAIN solutions : OfBlob(solutions[i])

\* What is to be searched has not been.
Once ==
    /\ \A s \in searches : s.ref = job_ref /\ has_input => s.nonce < nonce
    /\ \A s, t \in searches : s.ref = t.ref /\ s.nonce = t.nonce => s = t

Counted == IsFiniteSet(searches) /\ running = Cardinality(searches)

\* There is a job when there is something to do.
HasJob ==
    /\ fn \/ has_input => job \in Jobs /\ job_ref \in 1 .. MaxRef
    /\ pc = "none" => fn

IInv == TypeOK /\ Now /\ Once /\ Counted /\ HasJob /\ ResultIsOwn

LEMMA InitHolds == Init => IInv
<1> SUFFICES ASSUME Init PROVE IInv
  OBVIOUS
<1>1. TypeOK
  <2>1. job_ref \in 0 .. MaxRef /\ nonce \in Nonces /\ running \in Nat
    BY C29Assumption DEF Init, Nonces
  <2>2. solutions \in Seq(Found) /\ searches \subseteq Search
    BY DEF Init
  <2> QED
    BY <2>1, <2>2 DEF Init, TypeOK
<1>2. Now /\ Once /\ HasJob /\ ResultIsOwn
  BY DEF Init, Now, Once, HasJob, ResultIsOwn
<1>3. Counted
  BY FS_EmptySet DEF Init, Counted
<1> QED
  BY <1>1, <1>2, <1>3 DEF IInv

\* A new job leaves nothing that bears its m_job_ref.
LEMMA SetJobStep ==
    ASSUME IInv, NEW j \in Jobs, NEW is_test \in BOOLEAN, SetJob(j, is_test)
    PROVE  IInv'
<1> USE DEF SetJob, IInv
<1>1. job_ref' \in 1 .. MaxRef /\ job_ref \in Nat
  BY C29Assumption DEF TypeOK
<1>2. TypeOK'
  BY <1>1, C29Assumption DEF TypeOK, Nonces
<1>3. Now'
  <2>1. ASSUME NEW s \in Search \cup Found, OfBlob(s) PROVE OfBlob(s)'
    BY <2>1, <1>1 DEF OfBlob, Search, Found
  <2> QED
    BY <2>1 DEF Now, TypeOK
<1>4. Once'
  <2>1. \A s \in searches : s.ref # job_ref'
    BY <1>1 DEF Now, OfBlob, TypeOK, Search
  <2> QED
    BY <2>1 DEF Once
<1>5. Counted' /\ HasJob' /\ ResultIsOwn'
  BY <1>1 DEF Counted, HasJob, ResultIsOwn
<1> QED
  BY <1>2, <1>3, <1>4, <1>5

LEMMA PauseStep ==
    ASSUME IInv, Pause
    PROVE  IInv'
<1> USE DEF Pause, IInv
<1>1. job_ref' \in 1 .. MaxRef /\ job_ref \in Nat /\ job \in Jobs
  BY C29Assumption DEF TypeOK
<1>2. TypeOK'
  <2>1. job_ref' \in 0 .. MaxRef
    BY <1>1
  <2> QED
    BY <2>1 DEF TypeOK
<1>3. Now'
  <2>1. ASSUME NEW s \in Search \cup Found, OfBlob(s) PROVE OfBlob(s)'
    BY <2>1, <1>1 DEF OfBlob, Search, Found
  <2> QED
    BY <2>1 DEF Now, TypeOK
<1>4. Once'
  <2>1. \A s \in searches : s.ref # job_ref'
    BY <1>1 DEF Now, OfBlob, TypeOK, Search
  <2> QED
    BY <2>1 DEF Once
<1>5. Counted' /\ HasJob' /\ ResultIsOwn'
  BY <1>1 DEF Counted, HasJob, ResultIsOwn
<1> QED
  BY <1>2, <1>3, <1>4, <1>5

\* What NextInput does to the nonce.
LEMMA NextInputType ==
    ASSUME TypeOK, NextInput
    PROVE  /\ nonce' \in Nonces /\ nonce <= nonce' /\ has_input' \in BOOLEAN
           /\ has_input' => has_input /\ ~ test
           /\ nonce < MaxNonce /\ ~ test => nonce' = nonce + 1
<1>1. has_input' = (has_input /\ ~ test)
  BY DEF NextInput
<1>2. has_input' \in BOOLEAN /\ (has_input' => has_input /\ ~ test)
  BY <1>1, Zenon
<1>3. nonce' = IF test \/ nonce = MaxNonce THEN nonce ELSE nonce + 1
  BY DEF NextInput
<1>4. nonce \in 0 .. MaxNonce
  BY DEF TypeOK, Nonces
<1>5. nonce' \in Nonces /\ nonce <= nonce'
  BY <1>3, <1>4, C29Assumption DEF Nonces
<1>6. nonce < MaxNonce /\ ~ test => nonce' = nonce + 1
  BY <1>3, <1>4, C29Assumption
<1> QED
  BY <1>2, <1>5, <1>6

LEMMA SendSolutionStep ==
    ASSUME IInv, SendSolution
    PROVE  IInv'
<1> USE DEF IInv
<1>1. PICK i \in Mine :
         /\ solutions' = After(i)
         /\ result' = [job |-> job, seed |-> solutions[i].seed, nonce |-> solutions[i].nonce]
  BY DEF SendSolution
<1>2. /\ fn /\ NextInput
      /\ UNCHANGED <<fn, pc, searches, running, eol>> /\ UNCHANGED <<job_ref, job, test>>
  BY DEF SendSolution, NextInput
<1>3. i \in 1 .. Len(solutions) /\ solutions[i] \in Found /\ OfBlob(solutions[i])
      /\ solutions[i].ref = job_ref /\ Len(solutions) \in Nat /\ solutions \in Seq(Found)
  BY DEF Mine, TypeOK, Now
<1>4. /\ solutions' \in Seq(Found) /\ DOMAIN solutions' = 1 .. Len(solutions) - i
      /\ \A k \in 1 .. Len(solutions) - i : solutions'[k] = solutions[i + k]
  BY <1>1, <1>3 DEF After
<1>5. job \in Jobs /\ result' \in Result
  BY <1>1, <1>2, <1>3 DEF HasJob, Found, Result
<1>6. TypeOK'
  BY <1>2, <1>4, <1>5, NextInputType DEF TypeOK
<1>7. Now'
  <2>1. \A s \in searches : OfBlob(s)'
    BY <1>2 DEF Now, OfBlob
  <2>2. \A k \in DOMAIN solutions' : OfBlob(solutions[i + k])
    BY <1>3, <1>4 DEF Now
  <2> QED
    BY <2>1, <2>2, <1>2, <1>4 DEF Now, OfBlob
<1>8. Once'
  <2>1. \A s \in searches : s.nonce \in Int
    BY DEF TypeOK, Search, Nonces
  <2> QED
    BY <2>1, <1>2, NextInputType DEF Once, TypeOK, Nonces
<1>9. Counted' /\ HasJob'
  BY <1>2, NextInputType DEF Counted, HasJob
<1>10. ResultIsOwn'
  <2>1. result'.seed \in Blob /\ result'.seed.job = job /\ result'.seed.nonce = result'.nonce
        /\ result'.job = job
    BY <1>1, <1>3 DEF OfBlob, Found
  <2> QED
    BY <2>1 DEF ResultIsOwn, Blob
<1> QED
  BY <1>6, <1>7, <1>8, <1>9, <1>10

LEMMA FindNoneStep ==
    ASSUME IInv, FindNone
    PROVE  IInv'
<1> USE DEF FindNone, jobVars, IInv
<1>1. TypeOK'
  BY DEF TypeOK
<1>2. Now'
  BY DEF Now, OfBlob
<1>3. Once' /\ Counted' /\ HasJob' /\ ResultIsOwn'
  BY DEF Once, Counted, HasJob, ResultIsOwn
<1> QED
  BY <1>1, <1>2, <1>3

LEMMA StartSearchStep ==
    ASSUME IInv, StartSearch
    PROVE  IInv'
<1> USE DEF IInv
<1> DEFINE new == [seed |-> [job |-> job, nonce |-> nonce], ref |-> job_ref,
                   nonce |-> nonce, done |-> FALSE]
<1>1. /\ pc = "none" /\ has_input /\ pc' = "round" /\ NextInput
      /\ searches' = IF nonce < MaxNonce THEN searches \cup {new} ELSE searches
      /\ running' = IF nonce < MaxNonce THEN running + 1 ELSE running
      /\ UNCHANGED <<fn, solutions, result, eol>> /\ UNCHANGED <<job_ref, job, test>>
  BY DEF StartSearch, NextInput
<1>2. job \in Jobs /\ job_ref \in 1 .. MaxRef
  BY <1>1 DEF HasJob
<1>3. new \in Search /\ OfBlob(new) /\ new.ref = job_ref /\ new.nonce = nonce
  BY <1>2, C29Assumption DEF Search, Blob, OfBlob, TypeOK
<1>4. \A s \in searches : s.ref = job_ref => s.nonce # nonce
  BY <1>1 DEF Once, TypeOK, Search, Nonces
<1> HIDE DEF new
<1>5. TypeOK'
  BY <1>1, <1>3, NextInputType DEF TypeOK
<1>6. Now'
  BY <1>1, <1>3 DEF Now, OfBlob
<1>7. Once'
  <2>1. \A s \in searches : s.nonce \in Int
    BY DEF TypeOK, Search, Nonces
  <2>2. ASSUME NEW s \in searches', s.ref = job_ref', has_input' PROVE s.nonce < nonce'
    <3>1. CASE s \in searches
      BY <3>1, <2>1, <2>2, <1>1, NextInputType DEF Once, TypeOK, Nonces
    <3>2. CASE s = new /\ nonce < MaxNonce
      BY <3>2, <2>2, <1>1, <1>3, NextInputType DEF TypeOK, Nonces
    <3> QED
      BY <3>1, <3>2, <1>1
  <2>3. \A s, t \in searches' : s.ref = t.ref /\ s.nonce = t.nonce => s = t
    BY <1>1, <1>3, <1>4 DEF Once
  <2> QED
    BY <2>2, <2>3 DEF Once
<1>8. Counted'
  <2>1. new \notin searches
    BY <1>3, <1>4
  <2> QED
    BY <2>1, <1>1, FS_AddElement DEF Counted
<1>9. HasJob' /\ ResultIsOwn'
  BY <1>1, <1>2, NextInputType DEF HasJob, ResultIsOwn
<1> QED
  BY <1>5, <1>6, <1>7, <1>8, <1>9

LEMMA WaitStep ==
    ASSUME IInv, WaitForSearches
    PROVE  IInv'
<1> USE DEF WaitForSearches, IInv
<1>1. TypeOK'
  BY DEF TypeOK
<1>2. Now'
  BY DEF Now, OfBlob
<1>3. Once' /\ Counted' /\ HasJob' /\ ResultIsOwn'
  BY DEF Once, Counted, HasJob, ResultIsOwn
<1> QED
  BY <1>1, <1>2, <1>3

LEMMA FindCyclesStep ==
    ASSUME IInv, NEW s \in searches, FindCycles(s)
    PROVE  IInv'
<1> USE DEF IInv
<1> DEFINE found(n) == [i \in 1 .. n |->
             [seed |-> s.seed, ref |-> s.ref, nonce |-> s.nonce, cycle |-> i]]
           ended == [s EXCEPT !.done = TRUE]
<1>1. PICK n \in 0 .. MaxCycles : solutions' = solutions \o found(n)
  BY DEF FindCycles
<1>2. /\ ~ s.done /\ searches' = (searches \ {s}) \cup {ended}
      /\ UNCHANGED <<jobVars, pc, running, result, eol>>
  BY DEF FindCycles
<1>3. s \in Search /\ OfBlob(s)
  BY DEF TypeOK, Now
<1>4. /\ ended \in Search /\ ended.ref = s.ref /\ ended.nonce = s.nonce
      /\ ended.seed = s.seed /\ ended.done
  BY <1>3 DEF Search
<1>5. /\ found(n) \in Seq(Found) /\ Len(found(n)) = n
      /\ \A i \in 1 .. n : found(n)[i].ref = s.ref /\ found(n)[i].nonce = s.nonce
                           /\ found(n)[i].seed = s.seed
  <2>1. \A i \in 1 .. n : [seed |-> s.seed, ref |-> s.ref, nonce |-> s.nonce, cycle |-> i] \in Found
    BY <1>3, C29Assumption DEF Search, Found
  <2> QED
    BY <2>1, C29Assumption
<1> HIDE DEF found, ended
<1>6. TypeOK'
  BY <1>1, <1>2, <1>4, <1>5 DEF TypeOK, jobVars
<1>7. Now'
  <2>1. \A t \in searches' : OfBlob(t)'
    BY <1>2, <1>3, <1>4 DEF Now, OfBlob, jobVars
  <2>2. ASSUME NEW i \in DOMAIN solutions'
        PROVE  /\ solutions'[i].ref <= job_ref'
               /\ solutions'[i].ref = job_ref' => solutions'[i].seed.job = job'
               /\ solutions'[i].seed.nonce = solutions'[i].nonce
    <3>1. solutions \in Seq(Found) /\ i \in 1 .. Len(solutions) + n
      BY <1>1, <1>5 DEF TypeOK
    <3>2. CASE i \in 1 .. Len(solutions)
      <4>1. solutions'[i] = solutions[i] /\ OfBlob(solutions[i])
        BY <3>1, <3>2, <1>1, <1>5 DEF Now
      <4> QED
        BY <4>1, <1>2 DEF OfBlob, jobVars
    <3>3. CASE i \notin 1 .. Len(solutions)
      <4>1. i - Len(solutions) \in 1 .. n /\ solutions'[i] = found(n)[i - Len(solutions)]
        BY <3>1, <3>3, <1>1, <1>5
      <4> QED
        BY <4>1, <1>2, <1>3, <1>5 DEF OfBlob, jobVars
    <3> QED
      BY <3>2, <3>3
  <2> QED
    BY <2>1, <2>2 DEF Now, OfBlob
<1>8. Once'
  BY <1>2, <1>4 DEF Once, jobVars
<1>9. Counted'
  <2>1. ended \notin searches
    BY <1>2, <1>4 DEF Once
  <2>2. IsFiniteSet(searches \ {s}) /\ Cardinality(searches \ {s}) = Cardinality(searches) - 1
    BY FS_RemoveElement DEF Counted
  <2>3. /\ IsFiniteSet((searches \ {s}) \cup {ended})
        /\ Cardinality((searches \ {s}) \cup {ended}) = Cardinality(searches \ {s}) + 1
    BY <2>1, <2>2, FS_AddElement
  <2> QED
    BY <2>2, <2>3, <1>2 DEF Counted, TypeOK
<1>10. HasJob' /\ ResultIsOwn'
  BY <1>2 DEF HasJob, ResultIsOwn, jobVars
<1> QED
  BY <1>6, <1>7, <1>8, <1>9, <1>10

LEMMA EndSearchStep ==
    ASSUME IInv, NEW s \in searches, EndSearch(s)
    PROVE  IInv'
<1> USE DEF IInv
<1>1. /\ searches' = searches \ {s} /\ running' = running - 1
      /\ UNCHANGED <<jobVars, pc, solutions, result, eol>>
  BY DEF EndSearch
<1>2. Counted' /\ running' \in Nat
  <2>1. IsFiniteSet(searches') /\ Cardinality(searches') = Cardinality(searches) - 1
    BY <1>1, FS_RemoveElement DEF Counted
  <2>2. Cardinality(searches') \in Nat
    BY <2>1, FS_CardinalityType
  <2> QED
    BY <2>1, <2>2, <1>1 DEF Counted
<1>3. TypeOK'
  BY <1>1, <1>2 DEF TypeOK, jobVars
<1>4. Now'
  BY <1>1 DEF Now, OfBlob, jobVars
<1>5. Once' /\ HasJob' /\ ResultIsOwn'
  BY <1>1 DEF Once, HasJob, ResultIsOwn, jobVars
<1> QED
  BY <1>2, <1>3, <1>4, <1>5

LEMMA NextKeeps ==
    ASSUME IInv, [Next]_vars
    PROVE  IInv'
<1>1. CASE \E j \in Jobs, is_test \in BOOLEAN : SetJob(j, is_test)
  BY <1>1, SetJobStep
<1>2. CASE Pause
  BY <1>2, PauseStep
<1>3. CASE Round
  BY <1>3, SendSolutionStep, FindNoneStep, StartSearchStep, WaitStep DEF Round
<1>4. CASE \E s \in searches : Thread(s)
  BY <1>4, FindCyclesStep, EndSearchStep DEF Thread
<1>5. CASE UNCHANGED vars
  BY <1>5 DEF vars, jobVars, IInv, TypeOK, Now, OfBlob, Once, Counted, HasJob, ResultIsOwn
<1> QED
  BY <1>1, <1>2, <1>3, <1>4, <1>5 DEF Next

LEMMA IInvHolds == Spec => []IInv
  BY InitHolds, NextKeeps, PTL DEF Spec

\* The variables of the search keep their types; the count of the threads never
\* falls below 0 (it is an unsigned number).
THEOREM TypesHold == Spec => []TypeOK
  BY IInvHolds, PTL DEF IInv

\* The count of the threads is their number.
THEOREM CountIsRight == Spec => [](running = Cardinality(searches))
<1>1. IInv => running = Cardinality(searches)
  BY DEF IInv, Counted
<1> QED
  BY <1>1, IInvHolds, PTL

\* A result is sent with the job and the nonce whose blob it was found in.
THEOREM ResultsAreOwn == Spec => []ResultIsOwn
  BY IInvHolds, PTL DEF IInv

=============================================================================
