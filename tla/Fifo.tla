-------------------------------- MODULE Fifo --------------------------------
(***************************************************************************)
(* What the miner takes a queue between two threads for: messages arrive   *)
(* once each and in the order they were sent.  The reader takes the next   *)
(* one, or all that are there.                                             *)
(***************************************************************************)
EXTENDS Naturals, Sequences

CONSTANT Message
VARIABLES queue, received

fifoVars == <<queue, received>>

Init == queue = <<>> /\ received = <<>>

\* The message sent is the last of the new queue.
Send ==
    /\ Len(queue') = Len(queue) + 1
    /\ queue'[Len(queue')] \in Message
    /\ queue' = Append(queue, queue'[Len(queue')])
    /\ UNCHANGED received

Receive ==
    /\ queue # <<>>
    /\ received' = Append(received, Head(queue))
    /\ queue' = Tail(queue)

ReceiveAll ==
    /\ received' = received \o queue
    /\ queue' = <<>>

Next == Send \/ Receive \/ ReceiveAll

Spec == Init /\ [][Next]_fifoVars
=============================================================================
