------------------------------- MODULE RxFifo -------------------------------
(***************************************************************************)
(* What the receive path promises: a queue.  Each frame is known by the    *)
(* buffer it lies in.  It waits behind those that came before it, it is    *)
(* handed to the network stack once, and until then nothing is received    *)
(* into its buffer.                                                        *)
(***************************************************************************)
EXTENDS Sequences

CONSTANT Buffers

VARIABLE queue     \* the frames received and not handed up, oldest first

Init == queue = <<>>

Queued == {queue[i] : i \in DOMAIN queue}

Arrive(b) == b \notin Queued /\ queue' = Append(queue, b)

HandUp == queue # <<>> /\ queue' = Tail(queue)

Next == HandUp \/ \E b \in Buffers : Arrive(b)

Spec == Init /\ [][Next]_queue
=============================================================================
