----------------------------- MODULE MacTxProps -----------------------------
(***************************************************************************)
(* What must hold of the transmit path modelled in MacTx.                  *)
(***************************************************************************)
EXTENDS MacTx

\* t has the transmit buffer: from xSemaphoreTake() to a successful post.
Holding(t) == \/ pc[t] \in {"copy", "mask", "post"}
              \/ pc[t] = "unmask" /\ ~tx_status[t]

\* A frame has been posted and the semaphore has not been given back for it.
InFlight == \/ dma \in {"busy", "failed"}
            \/ "TX" \in intStatus
            \/ isr = "give"

(***************************************************************************)
(* The right to the transmit buffer is in exactly one place: the           *)
(* semaphore, one sender, or the hardware.  It is neither duplicated (two  *)
(* senders, a semaphore given twice) nor dropped (low_level_output() would *)
(* block for ever).                                                        *)
(***************************************************************************)
OneToken ==
  /\ sem = 1 => ~InFlight /\ \A t \in Senders : ~Holding(t)
  /\ InFlight => \A t \in Senders : ~Holding(t)
  /\ \A t, u \in Senders : Holding(t) /\ Holding(u) => t = u
  /\ sem = 0 /\ ~InFlight => \E t \in Senders : Holding(t)

(***************************************************************************)
(* While the DMA reads descriptor 0, every part of g_mac_tx_buffer[0] it   *)
(* will fetch holds the packet of the sender that posted it: low_level_    *)
(* output() copies into that buffer before it knows whether the ring is    *)
(* free, so only the semaphore protects a frame on the wire.               *)
(***************************************************************************)
DmaReadsItsFrame ==
  dma = "busy" => \A i \in 1 .. desc.len : txbuf[i] = desc.by

(***************************************************************************)
(* txpkt_handler() gives the semaphore before it releases the descriptors. *)
(* No sender ever meets that window: MSS_MAC_send_pkt() finds the ring     *)
(* free every time, so the retry loop of low_level_output() never turns.   *)
(***************************************************************************)
PostFindsRingFree ==
  \A t \in Senders : pc[t] = "post" => nbAvail = TX_RING

(***************************************************************************)
(* MSS_MAC_send_pkt() masks the MAC interrupt without looking at what it   *)
(* was.  Still it is enabled whenever no sender is between its two PLIC    *)
(* calls; a sender that left it masked would stop reception as well.       *)
(***************************************************************************)
IrqRearmed ==
  plic \/ \E t \in Senders : pc[t] \in {"post", "unmask"}

(***************************************************************************)
(* A posted frame leads to the semaphore being given back, so the next     *)
(* sender is not blocked for ever; only a fault of its transmission may    *)
(* keep it (the handler acknowledges an AMBA error and does nothing else). *)
(***************************************************************************)
FrameLands == dma = "busy" ~> sem = 1 \/ dma = "failed"

-----------------------------------------------------------------------------
(* The transmit path implements the one-slot specification TxSlot.         *)

phase == IF sem = 1 THEN "free"
         ELSE IF \E t \in Senders : Holding(t) THEN "filling"
         ELSE IF dma = "failed" THEN "dead"
         ELSE "flying"

owner == IF \E t \in Senders : Holding(t)
         THEN CHOOSE t \in Senders : Holding(t)
         ELSE desc.by

Slot == INSTANCE TxSlot WITH phase <- phase, owner <- owner,
                             MayFault <- (Faults # {})

(***************************************************************************)
(* Every step of tasks, DMA and interrupt handler is a step of the         *)
(* one-slot transmitter or leaves it alone.                                *)
(***************************************************************************)
ImplementsTxSlot == Slot!Spec
=============================================================================
