-------------------------- MODULE NodeBridgeProofs --------------------------
(***************************************************************************)
(* Proofs about NodeBridge, for any number of threads and of messages: the *)
(* two queues implement Fifo, no stored message is without a call, and     *)
(* after a close no thread is left.                                        *)
(***************************************************************************)
EXTENDS NodeBridge, TLAPS

----------------------------------------------------------------------------
(* Types.                                                                  *)

LEMMA Counts == TypeOK => NDown \in Nat /\ NUp \in Nat
<1>. SUFFICES ASSUME TypeOK PROVE NDown \in Nat /\ NUp \in Nat
  OBVIOUS
<1>1. Len(handled) \in Nat /\ Len(batch) \in Nat /\ Len(fromNode) \in Nat
  BY DEF TypeOK
<1>2. Len(delivered) \in Nat /\ Len(toNode) \in Nat
  BY DEF TypeOK
<1>. QED
  BY <1>1, <1>2 DEF NDown, NUp

LEMMA InitTypes == Init => TypeOK
<1>. SUFFICES ASSUME Init PROVE TypeOK
  OBVIOUS
<1>1. <<>> \in Seq(DownMsg) /\ <<>> \in Seq(UpMsg)
  OBVIOUS
<1>2. calls \in Nat /\ mutex \in Senders \cup {NoThread} /\ live \in SUBSET Threads
  BY DEF Init
<1>3. main \in MainStates /\ proc \in ProcStates /\ closing \in BOOLEAN
  BY DEF Init, MainStates, ProcStates
<1>. QED
  BY <1>1, <1>2, <1>3 DEF Init, TypeOK

\* What the sending of a message to the compute thread leaves of the types.
LEMMA SendTypes ==
  ASSUME TypeOK, NEW m \in DownMsg, SendToCpp(m)
  PROVE  /\ fromNode' \in Seq(DownMsg) /\ batch' \in Seq(DownMsg)
         /\ handled' \in Seq(DownMsg) /\ main' \in MainStates
  BY DEF TypeOK, SendToCpp, MainStates

LEMMA Messages == TypeOK => Job(NDown) \in DownMsg /\ CloseMsg(NDown) \in DownMsg
  BY Counts DEF Job, CloseMsg, DownMsg

LEMMA NextTypes == TypeOK /\ [Next]_vars => TypeOK'
<1>. SUFFICES ASSUME TypeOK, [Next]_vars PROVE TypeOK'
  OBVIOUS
<1>0. Job(NDown) \in DownMsg /\ CloseMsg(NDown) \in DownMsg /\ NUp \in Nat
  BY Messages, Counts
<1>1. CASE HandleMsg
  BY <1>0, <1>1, SendTypes DEF HandleMsg, TypeOK, up
<1>2. CASE Signal
  <2>1. CASE closing
    BY <1>2, <2>1 DEF Signal, TypeOK, up, down, ProcStates
  <2>2. CASE ~ closing
    BY <1>0, <1>2, <2>2, SendTypes DEF Signal, TypeOK, up
  <2>. QED
    BY <2>1, <2>2
<1>3. CASE Destroy
  BY <1>0, <1>3 DEF Destroy, TypeOK, up, ProcStates
<1>4. CASE GraceTimer \/ Exit \/ Joined
  BY <1>4 DEF GraceTimer, Exit, Joined, TypeOK, up, down, ProcStates
<1>5. CASE Drain
  BY <1>5 DEF Drain, TypeOK, down
<1>6. CASE CompleteEvent \/ ErrorEvent
  BY <1>6 DEF CompleteEvent, ErrorEvent, TypeOK, up, down, ProcStates
<1>7. ASSUME NEW s \in Senders, Write(s) PROVE TypeOK'
  <2>1. [from |-> s, n |-> NUp] \in UpMsg
    BY <1>0, <1>7 DEF UpMsg
  <2>. QED
    BY <1>7, <2>1 DEF Write, TypeOK, down
<1>8. ASSUME NEW s \in Senders, Call(s) PROVE TypeOK'
  BY <1>8 DEF Call, TypeOK, down
<1>9. ASSUME NEW t \in Threads, ThreadEnds(t) PROVE TypeOK'
  BY <1>9 DEF ThreadEnds, TypeOK, up, down
<1>10. CASE TakeBatch
  BY <1>10 DEF TakeBatch, TypeOK, up
<1>11. CASE Process
  <2>1. Head(batch) \in DownMsg /\ Tail(batch) \in Seq(DownMsg)
    BY <1>11 DEF Process, TypeOK
  <2>. QED
    BY <1>11, <2>1 DEF Process, TypeOK, up, MainStates
<1>12. CASE FreeMemory \/ CallEnd \/ Release \/ Hang \/ Fail
  BY <1>12 DEF FreeMemory, CallEnd, Release, Hang, Fail, TypeOK, up, down, MainStates
<1>13. CASE UNCHANGED vars
  BY <1>13 DEF vars, up, down, TypeOK
<1>. QED
  BY <1>1, <1>2, <1>3, <1>4, <1>5, <1>6, <1>7, <1>8, <1>9, <1>10, <1>11, <1>12, <1>13
     DEF Next, JavaScript, Compute

\* Each variable keeps its type.
THEOREM TypesHold == Spec => []TypeOK
  BY InitTypes, NextTypes, PTL DEF Spec

----------------------------------------------------------------------------
(* Every stored message has a call.                                        *)

LEMMA InitWakeup == Init => NoLostWakeup
  BY DEF Init, NoLostWakeup

LEMMA NextWakeup == TypeOK /\ NoLostWakeup /\ [Next]_vars => NoLostWakeup'
<1>. SUFFICES ASSUME TypeOK, NoLostWakeup, [Next]_vars PROVE NoLostWakeup'
  OBVIOUS
<1>. USE ThreadsAssumption DEF TypeOK, NoLostWakeup
<1>1. CASE Drain
  BY <1>1 DEF Drain
<1>2. ASSUME NEW s \in Senders, Write(s) PROVE NoLostWakeup'
  BY <1>2 DEF Write
<1>3. ASSUME NEW s \in Senders, Call(s) PROVE NoLostWakeup'
  BY <1>3 DEF Call
<1>4. CASE UNCHANGED up
  BY <1>4 DEF up
<1>. QED
  BY <1>1, <1>2, <1>3, <1>4
     DEF Next, JavaScript, Compute, HandleMsg, Signal, Destroy, GraceTimer, Exit, Joined,
         CompleteEvent, ErrorEvent, ThreadEnds, TakeBatch, Process, FreeMemory, CallEnd,
         Release, Hang, Fail, vars

\* A message in m_toNode is never without a call of Node that will fetch it.
THEOREM WakeupsAreKept == Spec => []NoLostWakeup
  BY TypesHold, InitWakeup, NextWakeup, PTL DEF Spec

----------------------------------------------------------------------------
(* A closed worker is quiet.                                               *)

\* The owner of mutex_message is at work, and after a close nobody can start.
QuietInv ==
    /\ mutex \in live \cup {Main, NoThread}
    /\ mutex = Main => main \in {"run", "closing"}
    /\ Closed => main \in {"closing", "complete", "stopping", "stopped"}
    /\ ClosedIsQuiet

LEMMA InitQuiet == Init => QuietInv
  BY ThreadsAssumption DEF Init, QuietInv, Closed, ClosedIsQuiet, Senders

\* A step that leaves handled, live, mutex and the end of main alone.
LEMMA IdleQuiet ==
  ASSUME QuietInv, UNCHANGED <<handled, live, mutex>>,
         \/ main' = main
         \/ main = "off" /\ main' = "run"
  PROVE  QuietInv'
  BY ThreadsAssumption DEF QuietInv, Closed, ClosedIsQuiet, Senders

LEMMA NextQuiet == TypeOK /\ QuietInv /\ [Next]_vars => QuietInv'
<1>. SUFFICES ASSUME TypeOK, QuietInv, [Next]_vars PROVE QuietInv'
  OBVIOUS
<1>. USE ThreadsAssumption DEF Senders
<1>1. CASE HandleMsg \/ Signal
  BY <1>1, IdleQuiet DEF HandleMsg, Signal, SendToCpp, up, down
<1>2. CASE Destroy \/ GraceTimer \/ Exit \/ Joined \/ Drain \/ CompleteEvent \/ ErrorEvent \/ TakeBatch
  BY <1>2, IdleQuiet DEF Destroy, GraceTimer, Exit, Joined, Drain, CompleteEvent, ErrorEvent,
       TakeBatch, up, down
<1>3. ASSUME NEW s \in Senders, Write(s) PROVE QuietInv'
  BY <1>3 DEF Write, MaySend, QuietInv, Closed, ClosedIsQuiet, down
<1>4. ASSUME NEW s \in Senders, Call(s) PROVE QuietInv'
  BY <1>4 DEF Call, QuietInv, Closed, ClosedIsQuiet, down
<1>5. ASSUME NEW t \in Threads, ThreadEnds(t) PROVE QuietInv'
  BY <1>5 DEF ThreadEnds, QuietInv, Closed, ClosedIsQuiet, down, up
<1>6. CASE Process
  <2>1. ~ Closed
    BY <1>6 DEF Process, QuietInv
  <2>2. handled \in Seq(DownMsg)
    BY DEF TypeOK
  <2>3. CASE Head(batch).name = "job"
    <3>1. ~ Closed'
      BY <1>6, <2>1, <2>2, <2>3 DEF Process, Closed, TypeOK
    <3>. QED
      BY <1>6, <2>3, <3>1 DEF Process, QuietInv, ClosedIsQuiet, up
  <2>4. CASE Head(batch).name = "close"
    BY <1>6, <2>4 DEF Process, QuietInv, ClosedIsQuiet, up
  <2>. QED
    BY <1>6, <2>3, <2>4 DEF Process
<1>7. CASE FreeMemory
  BY <1>7 DEF FreeMemory, QuietInv, Closed, ClosedIsQuiet, down, up
<1>8. CASE CallEnd \/ Release
  BY <1>8 DEF CallEnd, Release, QuietInv, Closed, ClosedIsQuiet, down, up
<1>9. CASE Hang \/ Fail
  BY <1>9 DEF Hang, Fail, QuietInv, Closed, ClosedIsQuiet, down, up
<1>10. CASE UNCHANGED vars
  BY <1>10, IdleQuiet DEF vars, down, up
<1>. QED
  BY <1>1, <1>2, <1>3, <1>4, <1>5, <1>6, <1>7, <1>8, <1>9, <1>10
     DEF Next, JavaScript, Compute

\* After a close, once the pool's threads are joined, no thread is left that
\* could call a function the bridge has released.
THEOREM ClosedStaysQuiet == Spec => []ClosedIsQuiet
<1>1. QuietInv => ClosedIsQuiet
  BY DEF QuietInv
<1>. QED
  BY <1>1, TypesHold, InitQuiet, NextQuiet, PTL DEF Spec

----------------------------------------------------------------------------
(* Both directions implement Fifo.                                         *)

LEMMA InitFifo == Init => UpQueue!Init /\ DownQueue!Init
  BY DEF Init, UpQueue!Init, DownQueue!Init

\* A sequence with one more element.
LEMMA Appended ==
  ASSUME NEW S, NEW q \in Seq(S), NEW m \in S
  PROVE  /\ Len(Append(q, m)) = Len(q) + 1
         /\ Append(q, m)[Len(Append(q, m))] = m
  OBVIOUS

LEMMA UpStep == TypeOK /\ [Next]_vars => [UpQueue!Next]_UpQueue!fifoVars
<1>. SUFFICES ASSUME TypeOK, [Next]_vars PROVE UpQueue!Next \/ UNCHANGED <<toNode, delivered>>
  BY DEF UpQueue!fifoVars
<1>1. CASE Drain
  BY <1>1 DEF Drain, UpQueue!Next, UpQueue!ReceiveAll
<1>2. ASSUME NEW s \in Senders, Write(s) PROVE UpQueue!Next
  <2> DEFINE m == [from |-> s, n |-> NUp]
  <2>1. m \in UpMsg /\ toNode \in Seq(UpMsg)
    BY Counts DEF UpMsg, TypeOK
  <2>2. toNode' = Append(toNode, m) /\ UNCHANGED delivered
    BY <1>2 DEF Write
  <2>. HIDE DEF m
  <2>3. Len(toNode') = Len(toNode) + 1 /\ toNode'[Len(toNode')] = m
    BY <2>1, <2>2, Appended
  <2>. QED
    BY <2>1, <2>2, <2>3 DEF UpQueue!Next, UpQueue!Send
<1>3. ASSUME NEW s \in Senders, Call(s) PROVE UNCHANGED <<toNode, delivered>>
  BY <1>3 DEF Call
<1>4. CASE UNCHANGED up
  BY <1>4 DEF up
<1>. QED
  BY <1>1, <1>2, <1>3, <1>4
     DEF Next, JavaScript, Compute, HandleMsg, Signal, Destroy, GraceTimer, Exit, Joined,
         CompleteEvent, ErrorEvent, ThreadEnds, TakeBatch, Process, FreeMemory, CallEnd,
         Release, Hang, Fail, vars

\* What JavaScript gets is a FIFO reading of what the threads stored.
THEOREM UpImplementsFifo == Spec => UpIsFifo
  BY TypesHold, InitFifo, UpStep, PTL DEF Spec, UpIsFifo, UpQueue!Spec

\* A message appended to the queue comes last of what is on the way.
LEMMA SendDown ==
  ASSUME TypeOK, NEW m \in DownMsg, fromNode' = Append(fromNode, m), UNCHANGED <<batch, handled>>
  PROVE  DownQueue!Next
<1>1. batch \in Seq(DownMsg) /\ fromNode \in Seq(DownMsg)
  BY DEF TypeOK
<1>2. (batch \o fromNode) \in Seq(DownMsg)
  BY <1>1
<1>3. batch' \o fromNode' = Append(batch \o fromNode, m)
  BY <1>1
<1>4. /\ Len(batch' \o fromNode') = Len(batch \o fromNode) + 1
      /\ (batch' \o fromNode')[Len(batch' \o fromNode')] = m
  BY <1>2, <1>3, Appended
<1>. QED
  BY <1>3, <1>4 DEF DownQueue!Next, DownQueue!Send

LEMMA DownStep == TypeOK /\ [Next]_vars => [DownQueue!Next]_DownQueue!fifoVars
<1>. SUFFICES ASSUME TypeOK, [Next]_vars PROVE DownQueue!Next \/ UNCHANGED DownQueue!fifoVars
  OBVIOUS
<1>. USE DEF DownQueue!fifoVars
<1>1. Job(NDown) \in DownMsg /\ CloseMsg(NDown) \in DownMsg
  BY Messages
<1>2. CASE HandleMsg \/ Signal
  BY <1>1, <1>2, SendDown DEF HandleMsg, Signal, SendToCpp, down
<1>3. CASE Destroy
  BY <1>1, <1>3, SendDown DEF Destroy
<1>4. CASE TakeBatch
  <2>1. batch' \o fromNode' = batch \o fromNode
    BY <1>4 DEF TakeBatch, TypeOK
  <2>. QED
    BY <1>4, <2>1 DEF TakeBatch
<1>5. CASE Process
  <2>1. batch \in Seq(DownMsg) /\ fromNode \in Seq(DownMsg) /\ batch # <<>>
    BY <1>5 DEF Process, TypeOK
  <2>2. /\ batch \o fromNode # <<>>
        /\ Head(batch \o fromNode) = Head(batch)
        /\ Tail(batch \o fromNode) = Tail(batch) \o fromNode
    BY <2>1
  <2>. QED
    BY <1>5, <2>2 DEF Process, DownQueue!Next, DownQueue!Receive
<1>6. CASE UNCHANGED down
  BY <1>6 DEF down
<1>. QED
  BY <1>2, <1>3, <1>4, <1>5, <1>6
     DEF Next, JavaScript, Compute, GraceTimer, Exit, Joined, Drain, Write, Call,
         CompleteEvent, ErrorEvent, ThreadEnds, FreeMemory, CallEnd,
         Release, Hang, Fail, vars

\* What Execute processes is a FIFO reading of what JavaScript sent.
THEOREM DownImplementsFifo == Spec => DownIsFifo
  BY TypesHold, InitFifo, DownStep, PTL DEF Spec, DownIsFifo, DownQueue!Spec
=============================================================================
