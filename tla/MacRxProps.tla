----------------------------- MODULE MacRxProps -----------------------------
(***************************************************************************)
(* What must hold of the receive path modelled in MacRx.                   *)
(***************************************************************************)
EXTENDS MacRx

Waiting == {arrived[i] : i \in DOMAIN arrived}

(***************************************************************************)
(* Once low_level_init() is done every buffer is posted in the ring at all *)
(* times but while one is in the hands of the handler, whose two indices   *)
(* then name the descriptor it goes back to.  nb_available_rx_desc is not  *)
(* tested on the way, so a buffer lost or posted twice is never noticed:   *)
(* two descriptors would share a buffer, or the ring run dry.              *)
(***************************************************************************)
RingRestocked ==
  count = RING =>
    /\ {buf[i] : i \in Index} = Buffers
    /\ nb = IF isr \in {"copy", "repost"} THEN 1 ELSE 0
    /\ nextFree = IF isr = "clear" THEN Next1(first) ELSE first
    /\ isr \in {"copy", "repost"} => pkt = buf[first]

(***************************************************************************)
(* The GEM never writes into the buffer low_level_input() is copying from. *)
(***************************************************************************)
CopyStable == isr = "copy" => ~(filling /\ buf[hw] = pkt)

(***************************************************************************)
(* The GEM never fetches a descriptor that has no buffer.  rx_desc_ring_   *)
(* init() leaves them at address 0 and not marked used, so only the order  *)
(* of the calls in low_level_init() keeps frames from address 0.           *)
(***************************************************************************)
DmaHasBuffer == filling => buf[hw] # NoBuffer

(***************************************************************************)
(* A received frame at the head of the ring is never left without an       *)
(* interrupt to fetch it: clearing the status bit before looking at the    *)
(* ring closes the window in which both could be missed.                   *)
(***************************************************************************)
InterruptNotLost == isr = "off" /\ used[first] => "COMPLETE" \in intStatus

(***************************************************************************)
(* Every received frame stays marked in its descriptor until the callback  *)
(* has been given it (mss_ethernet_mac.h: "The rx_callback() function will *)
(* be called again every time a packet is received").                      *)
(***************************************************************************)
NoFrameErased ==
  \A i \in Index : buf[i] \in Waiting => used[i]

\* The receiver is a queue as long as the ring is never completely full.
Fifo == INSTANCE RxFifo WITH queue <- arrived

(***************************************************************************)
(* Frames reach the stack once each, in the order they were received.      *)
(***************************************************************************)
ImplementsRxFifo == Fifo!Spec

(***************************************************************************)
(* Every frame that has been received is handed up.                        *)
(***************************************************************************)
FrameHandedUp == \A b \in Buffers : b \in Waiting ~> b \notin Waiting

(***************************************************************************)
(* A receiver stopped by a bus error is started again.                     *)
(***************************************************************************)
ReceiverRecovers == count = RING /\ ~rxen ~> rxen
=============================================================================
